------------------------------ MODULE Archive ------------------------------
(***************************************************************************)
(* What the version store promises a client, with none of its tables: the  *)
(* set of versions that can be asked for only grows, and the listing a     *)
(* synchronisation returns moves forward, except where an apply carries    *)
(* out renames and removals, and then only to stamps of that apply.        *)
(***************************************************************************)
EXTENDS Naturals

CONSTANTS Path, Time

VARIABLES versions,   \* the <<path, stamp>> pairs a client can retrieve
          listing,    \* path -> stamp of the live version, 0 when it has none
          synced      \* the stamp of the last apply

archive == <<versions, listing, synced>>

Init == /\ versions = {}
        /\ listing = [p \in Path |-> 0]
        /\ synced = 0

(***************************************************************************)
(* A create, write or chmod.  It becomes the live version unless a later   *)
(* one, or a later rename or removal that was applied, got here first.     *)
(***************************************************************************)
Accept(p, t) ==
  /\ versions' = versions \cup {<<p, t>>}
  /\ \/ /\ listing[p] <= t
        /\ listing' = [listing EXCEPT ![p] = t]
     \/ /\ t < listing[p] \/ t < synced
        /\ UNCHANGED listing
  /\ UNCHANGED synced

(***************************************************************************)
(* An apply, whole: paths vanish, or show what a rename brought there; a   *)
(* version is never dropped and every new one is of this apply.            *)
(***************************************************************************)
Window(t) == {u \in Time : synced < u /\ u <= t}

Apply(t) ==
  /\ synced' = t
  /\ versions \subseteq versions'
  /\ versions' \subseteq versions \cup (Path \X Window(t))
  /\ \A p \in Path : listing'[p] \in {listing[p], 0} \cup Window(t)
  /\ listing' = [p \in Path |-> listing'[p]]

Next == \/ \E p \in Path, t \in Time : Accept(p, t)
        \/ \E t \in Time : Apply(t)

Spec == Init /\ [][Next]_archive
=============================================================================
