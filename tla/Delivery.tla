------------------------------ MODULE Delivery ------------------------------
(***************************************************************************)
(* The version store at the end of a working day: a client's changes to    *)
(* its directory, in the order it made them (script), reach the store in   *)
(* whatever order the pool of sendAction threads delivers them, rejected   *)
(* ones being sent again; does the store end up with the same files?       *)
(*                                                                         *)
(* script[t] is the change stamped t; a stamp with no change is a moment   *)
(* at which the dispatcher may stamp an APPLY.  Directories themselves are *)
(* never created on the server (get_flag_bit drops their ADDED events):    *)
(* they exist as prefixes of the paths below them.                         *)
(***************************************************************************)
EXTENDS Store

VARIABLES script,     \* stamp -> the change made then; fixed in every behaviour
          sent,       \* the stamps the store has acknowledged, or that a later
                      \* change to the same file has absorbed
          orderly     \* every APPLY so far came in order (InOrder)

deliveryVars == <<files, history, changes, lastSync, applying, script, sent, orderly>>

Dirs   == {pair[1] : pair \in Below}
Quiet  == [kind |-> "quiet", path |-> None, to |-> None]
Events == [kind : {"create", "write"}, path : Path \ Dirs, to : {None}]
            \cup [kind : {"remove"}, path : Path, to : {None}]
            \cup {[kind |-> "move", path |-> m[1], to |-> m[2]] : m \in Moves}

Last == CHOOSE t \in Time : \A u \in Time : u <= t

(***************************************************************************)
(* Stamps are counted from 1.  A rename takes what is at or below a path   *)
(* to places of their own at or below another, and no directory into       *)
(* itself.                                                                 *)
(***************************************************************************)
ASSUME DayAssumption == \E n \in Time : Time = 1..n
ASSUME RenameAssumption ==
  \A m \in Moves : \A p \in Path : Covers(m[1], p) =>
    /\ Covers(m[2], Rebase(m[1], m[2], p)) /\ ~Covers(m[2], p)
    /\ \A q \in Path : Covers(m[1], q) /\ q # p
                       => Rebase(m[1], m[2], q) # Rebase(m[1], m[2], p)

-----------------------------------------------------------------------------
(***************************************************************************)
(* The client's directory after each stamp of a script: path -> content.   *)
(***************************************************************************)
Within(tree, d) == {p \in Path : Covers(d, p) /\ tree[p] # None}

Arrivals(tree, e, q) == {p \in Within(tree, e.path) : Rebase(e.path, e.to, p) = q}

AfterEvent(tree, e, t) ==
  CASE e.kind = "create" -> [tree EXCEPT ![e.path] = CreateId(t)]
    [] e.kind = "write"  -> [tree EXCEPT ![e.path] = WriteId(e.path, t)]
    [] e.kind = "remove" -> [p \in Path |-> IF Covers(e.path, p) THEN None ELSE tree[p]]
    [] e.kind = "move"   -> [q \in Path |->
         IF Arrivals(tree, e, q) # {}
         THEN tree[CHOOSE p \in Arrivals(tree, e, q) : TRUE]
         ELSE IF Covers(e.path, q) THEN None ELSE tree[q]]
    [] OTHER -> tree

Directory(s) ==
  LET tree[t \in Time \cup {0}] ==
        IF t = 0 THEN [p \in Path |-> None] ELSE AfterEvent(tree[t - 1], s[t], t)
  IN  tree

Possible(tree, e) ==
  CASE e.kind = "create" -> tree[e.path] = None
    [] e.kind = "write"  -> tree[e.path] # None
    [] e.kind = "remove" -> Within(tree, e.path) # {}
    [] e.kind = "move"   -> Within(tree, e.path) # {} /\ Within(tree, e.to) = {}
    [] OTHER -> TRUE

(***************************************************************************)
(* Touches: the change e uses a path that the rename or removal at u       *)
(* vacated.  The store gets such a path wrong unless the vacating change   *)
(* was applied first, and the merger unless what preceded it was sent      *)
(* first: so these scripts leave room for an APPLY in between, and such a  *)
(* change is made (Ready) only after that.                                 *)
(***************************************************************************)
Vacates(e, p) == e.kind \in {"move", "remove"} /\ Covers(e.path, p)
Touches(e, u) ==
  e # Quiet /\ (Vacates(script[u], e.path)
                  \/ (e.kind = "move" /\ Vacates(script[u], e.to)))

Scripts ==
  {s \in [Time -> Events \cup {Quiet}] :
     /\ s[Last] = Quiet
     /\ LET tree == Directory(s) IN \A t \in Time : Possible(tree[t - 1], s[t])}

Spaced == \A u, t \in Time :
            u < t /\ Touches(script[t], u)
              => \E a \in Time : u < a /\ a < t /\ script[a] = Quiet

DeliveryInit == Init /\ sent = {} /\ orderly = TRUE /\ script \in Scripts /\ Spaced

-----------------------------------------------------------------------------
Ready(t) ==
  \A v \in Time : v < t /\ Touches(script[t], v)
    => v < lastSync /\ \A w \in Time : w < v /\ script[w] # Quiet => w \in sent

Acknowledge(t) == t \notin sent /\ sent' = sent \cup {t} /\ UNCHANGED script

Send(e, t) ==
  \/ e.kind = "create" /\ Create(e.path, t)
  \/ e.kind = "write"  /\ Write(e.path, t)
  \/ e.kind = "remove" /\ Remove(e.path, t)
  \/ e.kind = "move"   /\ Move(e.path, e.to, t)

(***************************************************************************)
(* One sendAction that got its acknowledge; those the store rejects go     *)
(* back into the merger and are sent again.                                *)
(***************************************************************************)
Deliver(t) ==
  /\ Acknowledge(t)
  /\ Ready(t)
  /\ Send(script[t], t)
  /\ UNCHANGED orderly

(***************************************************************************)
(* add_change merges a write into a later one of the same file that still  *)
(* waits: only the later stamp is ever sent.                               *)
(***************************************************************************)
Absorb(t) ==
  /\ Acknowledge(t)
  /\ script[t].kind = "write"
  /\ \E u \in Time : t < u /\ u \notin sent /\ script[u] = script[t] /\ Ready(u)
  /\ UNCHANGED <<vars, orderly>>

(***************************************************************************)
(* sendAction stamps an APPLY when it has read 0 in pending_count.  That   *)
(* does not count the changes still in the shared_queue, or in the merge   *)
(* thread's hands, and the stamp is taken a little later: an APPLY can be  *)
(* sent before a change that was made before it, and also after an APPLY   *)
(* stamped later.  Otherwise it comes in order.                            *)
(***************************************************************************)
InOrder(t) ==
  /\ t > lastSync
  /\ \A u \in Time : u < t /\ script[u].kind \in {"create", "move", "remove"} => u \in sent

Apply(t) ==
  /\ Acknowledge(t)
  /\ script[t] = Quiet
  /\ ApplyBegin(t)
  /\ orderly' = (orderly /\ InOrder(t))

StoreStep == /\ \/ \E t \in Time : ApplyMove(t) \/ ApplyDelete(t)
                \/ ApplyCommit
                \/ ApplyAbort
             /\ UNCHANGED <<script, sent, orderly>>

DeliveryNext == \/ \E t \in Time : Deliver(t) \/ Absorb(t) \/ Apply(t)
                \/ StoreStep

(***************************************************************************)
(* Rejected changes are retried for ever, and so each is sent eventually;  *)
(* a change whose acknowledge was lost is put back, too.                   *)
(***************************************************************************)
DeliverySpec ==
  /\ DeliveryInit
  /\ [][DeliveryNext]_deliveryVars
  /\ \A t \in Time : WF_deliveryVars(Deliver(t))
  /\ WF_deliveryVars(StoreStep)

-----------------------------------------------------------------------------
Done == Idle /\ lastSync = Last /\ \A t \in Time : script[t] # Quiet => t \in sent

Content(p) == IF Live(p) THEN files[p].id ELSE None

(***************************************************************************)
(* When every change has been acknowledged and the last APPLY carried out, *)
(* the store holds exactly the client's files with their latest contents,  *)
(* whatever order creations, renames, removals and writes arrived in,      *)
(* provided that no APPLY came before a change it should have covered: the *)
(* store never carries out a rename or a removal that arrives after an     *)
(* APPLY with a later stamp, and then the two differ for good.             *)
(***************************************************************************)
Converged ==
  Done /\ orderly => \A p \in Path : Content(p) = Directory(script)[Last][p]

(***************************************************************************)
(* The same of its past, with the same proviso.  Of the versions a client  *)
(* can ask for, the last one of a file at or before any moment is the      *)
(* content the file had then, unless that was of a write merged into a     *)
(* later one of the same file.                                             *)
(***************************************************************************)
MergedAway(p, w) ==
  /\ script[w].kind = "write" /\ script[w].path = p /\ <<p, w>> \notin Retrievable
  /\ \E u \in Time : w < u /\ script[u] = script[w] /\ <<p, u>> \in Retrievable

PastRestorable ==
  Done /\ orderly => \A m \in Time, p \in Path : Directory(script)[m][p] # None =>
    \E t \in Time :
      /\ t <= m /\ <<p, t>> \in Retrievable
      /\ \A u \in Time : t < u /\ u <= m => <<p, u>> \notin Retrievable
      /\ \/ Version(p, t) = {Directory(script)[m][p]}
         \/ \E w \in Time : t < w /\ w <= m /\ MergedAway(p, w)

(***************************************************************************)
(* And that moment comes: no order of arrival leaves a change that the     *)
(* store rejects for ever.  This takes for granted that every APPLY comes  *)
(* in order, and that one comes (ApplyComes) once all changes before it    *)
(* are acknowledged.  Merger has when the senders see to that              *)
(* (ApplyFollows); an APPLY they miss, or a counter left above 0 by a lost *)
(* acknowledge, is outside it.                                             *)
(***************************************************************************)
ApplyComes == \A t \in Time : WF_deliveryVars(Apply(t) /\ InOrder(t))

EverythingDelivered == ApplyComes /\ []orderly => <>Done
=============================================================================
