--------------------------- MODULE DeliveryProofs ---------------------------
(***************************************************************************)
(* Whatever order a day's changes arrive in, the store ends with the       *)
(* client's directory, and with its past, if no APPLY came before a change *)
(* it should have covered.                                                 *)
(***************************************************************************)
EXTENDS Delivery, StoreProofs, WellFoundedInduction

-----------------------------------------------------------------------------
(***************************************************************************)
(* The invariant.  It says of a set of changes delivered so far, whichever *)
(* they are: which versions there are (Places), that a rename carried out  *)
(* has brought the last version before it, whenever that arrived           *)
(* (Carried), and which version is live (Standing).                        *)
(***************************************************************************)
(* A version: what is live or in history under a path and a stamp. *)
Table == [k \in Path \X Time |-> IF Live(k[1]) /\ files[k[1]].ts = k[2]
                                 THEN files[k[1]].id ELSE history[k]]

(* The group changes up to here are carried out; those up to here will be. *)
Upto  == IF Idle THEN lastSync ELSE applying.done
Bound == IF Idle THEN lastSync ELSE applying.to

(* In the script s, something vacates the path after a and not after b. *)
Vacated(s, p, a, b) == \E v \in Time : a < v /\ v <= b /\ Vacates(s[v], p)

(* The change at t brings the file at o to q; it makes the path p a file. *)
Lands(s, t, o, q) ==
  /\ s[t].kind = "move" /\ Covers(s[t].path, o) /\ Directory(s)[t - 1][o] # None
  /\ Rebase(s[t].path, s[t].to, o) = q
Starts(s, t, p) ==
  \/ s[t].kind = "create" /\ s[t].path = p
  \/ \E o \in Path : Lands(s, t, o, p)

(* Of the versions in T of the path, l is the last before b. *)
LastOf(T, p, l, b) ==
  /\ l < b /\ T[<<p, l>>] # None
  /\ \A u \in Time : l < u /\ u < b => T[<<p, u>>] = None

(* Every version in T is there because of a change in s, *)
Places(s, T, a) ==
  \A p \in Path, t \in Time : T[<<p, t>>] # None =>
    \/ s[t].kind = "create" /\ s[t].path = p /\ T[<<p, t>>] = CreateId(t)
    \/ /\ s[t].kind = "write" /\ s[t].path = p /\ T[<<p, t>>] = WriteId(p, t)
       /\ \E b \in Time : /\ b < t /\ Starts(s, b, p) /\ T[<<p, b>>] # None
                          /\ ~Vacated(s, p, b, t)
    \/ t <= a /\ \E o \in Path : Lands(s, t, o, p)

(* and a rename carried out has brought the last version before it. *)
Carried(s, T, a) ==
  \A t \in Time, o, q \in Path : t <= a /\ Lands(s, t, o, q) =>
    \E l \in Time : /\ LastOf(T, o, l, t) /\ ~Vacated(s, o, l, t - 1)
                    /\ T[<<q, t>>] = T[<<o, l>>]

Chained(s, T, a) == Places(s, T, a) /\ Carried(s, T, a)

(* The group changes recorded are those sent. *)
Recorded ==
  \A t \in Time : changes[t] =
    IF t \in sent /\ script[t].kind = "move"
    THEN [kind |-> "move", path |-> script[t].path, to |-> script[t].to]
    ELSE IF t \in sent /\ script[t].kind = "remove"
    THEN [kind |-> "delete", path |-> script[t].path, to |-> script[t].path]
    ELSE None

(* A change that uses a vacated path again came after the APPLY of that. *)
InTurn == \A t \in sent : Ready(t)

(* Nothing the APPLY so far was to wait for is still to come. *)
Synced ==
  /\ Upto <= Bound /\ lastSync <= Upto /\ (~Idle => lastSync < Bound)
  /\ \A t \in Time : t <= Bound /\ script[t].kind \in {"create", "move", "remove"} => t \in sent
  /\ \A t \in {lastSync, Bound} : t \in Time => script[t] = Quiet

(* A creation sent has its version, and what has a version was sent. *)
Arrived ==
  /\ \A t \in sent : script[t].kind = "create" => Table[<<script[t].path, t>>] # None
  /\ \A p \in Path, t \in Time : Table[<<p, t>>] # None => t \in sent

(* A write acknowledged and not stored has been merged into a later one. *)
Merged ==
  \A t \in sent : script[t].kind = "write" /\ Table[<<script[t].path, t>>] = None =>
    \E u \in Time : /\ t < u /\ script[u] = script[t] /\ ~Vacated(script, script[t].path, t, u)
                    /\ u \in sent => Table[<<script[u].path, u>>] # None

(* What is live is the last version, if nothing vacated the path since. *)
Standing ==
  \A p \in Path :
    IF Live(p)
    THEN /\ history[<<p, files[p].ts>>] = None
         /\ \A t \in Time : Table[<<p, t>>] # None => t <= files[p].ts
         /\ ~Vacated(script, p, files[p].ts, Upto)
    ELSE \A t \in Time : Table[<<p, t>>] # None => Vacated(script, p, t, Upto)

(* As long as the APPLYs come in order, the inductive invariant. *)
IInv ==
  /\ TypeOK /\ script \in Scripts /\ sent \subseteq Time
  /\ Recorded /\ InTurn /\ Synced /\ Arrived /\ Merged /\ Standing
  /\ Chained(script, Table, Upto)

DayInv == script \in Scripts /\ (orderly => IInv)

-----------------------------------------------------------------------------
(***************************************************************************)
(* Stamps.                                                                 *)
(***************************************************************************)
LEMMA Stamps ==
  /\ Last \in Nat \ {0} /\ Time = 1..Last
  /\ \A t \in Time : t \in Nat /\ t # 0 /\ t <= Last /\ t - 1 \in Nat /\ t - 1 <= Last
<1>1. PICK n \in Time : Time = 1..n
  BY DayAssumption
<1>2. n \in Nat \ {0}
  BY TimeAssumption
<1>3. n \in Time /\ \A u \in Time : u <= n
  BY <1>1, <1>2
<1>4. Last \in Time /\ \A u \in Time : u <= Last
  BY <1>3 DEF Last
<1>5. Last = n
  BY <1>1, <1>2, <1>3, <1>4
<1> QED BY <1>1, <1>2, <1>5

(* Every set of numbers has a least one; the inductions below are of this form. *)
LEMMA Least ==
  ASSUME NEW T \in SUBSET Nat, T # {}
  PROVE  \E m \in T : \A k \in T : m <= k
<1> DEFINE R == {ss \in Nat \X Nat : ss[1] < ss[2]}
<1>1. IsWellFoundedOn(R, Nat)
  BY NatLessThanWellFounded DEF OpToRel
<1> HIDE DEF R
<1>2. PICK m \in T : \A k \in T : ~(<<k, m>> \in R)
  BY <1>1, WFMin
<1>3. ASSUME NEW k \in T
      PROVE  m <= k
  <2>1. m \in Nat /\ k \in Nat
    OBVIOUS
  <2>2. ~(k < m)
    BY <1>2, <2>1 DEF R
  <2> QED BY <2>1, <2>2
<1> QED BY <1>3

-----------------------------------------------------------------------------
(***************************************************************************)
(* The client's directory, stamp by stamp.                                 *)
(***************************************************************************)
Grown(s, g, t) == IF t = 0 THEN [p \in Path |-> None] ELSE AfterEvent(g[t - 1], s[t], t)

IsDirectory(s, g, n) == g = [t \in 0..n |-> Grown(s, g, t)]

(* The recursion of Directory has a value up to every stamp. *)
LEMMA DirectoryExists ==
  ASSUME NEW s, NEW k \in Nat
  PROVE  \E g : IsDirectory(s, g, k)
<1> DEFINE Bad == {n \in Nat : ~\E g : IsDirectory(s, g, n)}
<1> SUFFICES ASSUME Bad # {} PROVE FALSE
  OBVIOUS
<1>1. PICK n \in Bad : \A m \in Bad : n <= m
  <2> HIDE DEF Bad
  <2>1. Bad \subseteq Nat
    BY DEF Bad
  <2> QED BY <2>1, Least
<1>2. n \in Nat /\ ~\E g : IsDirectory(s, g, n)
  BY <1>1
<1>3. CASE n = 0
  <2> DEFINE g == [t \in 0..0 |-> [p \in Path |-> None]]
  <2>1. g = [t \in 0..0 |-> Grown(s, g, t)]
    BY DEF Grown
  <2> QED BY <1>2, <1>3, <2>1 DEF IsDirectory
<1>4. CASE n # 0
  <2>1. n - 1 \in Nat /\ ~(n <= n - 1)
    BY <1>2, <1>4
  <2>2. n - 1 \notin Bad
    BY <1>1, <2>1
  <2>3. PICK g : IsDirectory(s, g, n - 1)
    BY <2>1, <2>2
  <2> DEFINE h == [t \in 0..n |-> IF t <= n - 1 THEN g[t] ELSE AfterEvent(g[n - 1], s[n], n)]
  <2>4. ASSUME NEW t \in 0..n
        PROVE  h[t] = Grown(s, h, t)
    <3>1. t \in Nat /\ t <= n
      BY <1>2
    <3>2. CASE t = 0
      <4>1. t \in 0..(n - 1) /\ t <= n - 1
        BY <2>1, <3>2
      <4>2. g[t] = Grown(s, g, t)
        BY <2>3, <4>1 DEF IsDirectory
      <4> QED BY <3>2, <4>1, <4>2 DEF Grown
    <3>3. CASE t # 0 /\ t <= n - 1
      <4>1. t \in 0..(n - 1) /\ t - 1 \in 0..n /\ t - 1 <= n - 1
        BY <1>2, <2>1, <3>1, <3>3
      <4>2. g[t] = Grown(s, g, t)
        BY <2>3, <4>1 DEF IsDirectory
      <4>3. h[t] = g[t] /\ h[t - 1] = g[t - 1]
        BY <3>3, <4>1
      <4> HIDE DEF h
      <4> QED BY <3>3, <4>2, <4>3 DEF Grown
    <3>4. CASE t = n
      <4>1. n - 1 \in 0..n /\ n - 1 <= n - 1 /\ ~(n <= n - 1)
        BY <1>2, <2>1
      <4>2. h[t] = AfterEvent(g[n - 1], s[n], n) /\ h[n - 1] = g[n - 1]
        BY <3>4, <4>1
      <4> HIDE DEF h
      <4> QED BY <1>4, <3>4, <4>2 DEF Grown
    <3> QED BY <1>2, <2>1, <3>1, <3>2, <3>3, <3>4
  <2>5. h = [t \in 0..n |-> Grown(s, h, t)]
    <3>1. h = [t \in 0..n |-> h[t]]
      OBVIOUS
    <3> HIDE DEF h
    <3> QED BY <2>4, <3>1
  <2> HIDE DEF h
  <2> QED BY <1>2, <2>5 DEF IsDirectory
<1> QED BY <1>3, <1>4

(* And so Directory is what it says, stamp by stamp. *)
LEMMA DirectoryGrows ==
  ASSUME NEW s
  PROVE  /\ Directory(s)[0] = [p \in Path |-> None]
         /\ \A t \in Time : Directory(s)[t] = AfterEvent(Directory(s)[t - 1], s[t], t)
<1>1. Time \cup {0} = 0..Last
  BY Stamps
<1>2. Directory(s) = CHOOSE g : IsDirectory(s, g, Last)
  BY <1>1 DEF Directory, IsDirectory, Grown
<1> DEFINE g == Directory(s)
<1>3. IsDirectory(s, g, Last)
  <2>1. \E f : IsDirectory(s, f, Last)
    BY Stamps, DirectoryExists
  <2> QED BY <1>2, <2>1
<1> HIDE DEF g
<1>4. \A t \in 0..Last : g[t] = Grown(s, g, t)
  BY <1>3 DEF IsDirectory
<1>5. g[0] = [p \in Path |-> None]
  BY <1>4, Stamps DEF Grown
<1>6. \A t \in Time : g[t] = AfterEvent(g[t - 1], s[t], t)
  BY <1>4, Stamps DEF Grown
<1> QED BY <1>5, <1>6 DEF g

-----------------------------------------------------------------------------
(***************************************************************************)
(* What a change does to a path of the client's directory.                 *)
(***************************************************************************)
LEMMA ScriptFacts ==
  ASSUME NEW s \in Scripts, NEW t \in Time
  PROVE  /\ s \in [Time -> Events \cup {Quiet}] /\ s[Last] = Quiet
         /\ Possible(Directory(s)[t - 1], s[t])
         /\ s[t].kind \in {"create", "write", "remove", "move", "quiet"}
         /\ s[t].kind = "quiet" <=> s[t] = Quiet
         /\ s[t].kind # "quiet" => s[t].path \in Path
         /\ s[t].kind = "move" => /\ <<s[t].path, s[t].to>> \in Moves
                                  /\ s[t].to \in Path
<1>1. /\ s \in [Time -> Events \cup {Quiet}] /\ s[Last] = Quiet
      /\ Possible(Directory(s)[t - 1], s[t])
  BY DEF Scripts
<1>2. s[t] \in Events \cup {Quiet}
  BY <1>1
<1>3. CASE s[t] = Quiet
  BY <1>1, <1>3 DEF Quiet
<1>4. CASE s[t] \in [kind : {"create", "write"}, path : Path \ Dirs, to : {None}]
  BY <1>1, <1>4 DEF Quiet
<1>5. CASE s[t] \in [kind : {"remove"}, path : Path, to : {None}]
  BY <1>1, <1>5 DEF Quiet
<1>6. CASE s[t] \in {[kind |-> "move", path |-> m[1], to |-> m[2]] : m \in Moves}
  <2>1. PICK m \in Moves : s[t] = [kind |-> "move", path |-> m[1], to |-> m[2]]
    BY <1>6
  <2>2. m \in Path \X Path /\ m = <<m[1], m[2]>>
    BY MovesAssumption
  <2> QED BY <1>1, <2>1, <2>2 DEF Quiet
<1> QED BY <1>2, <1>3, <1>4, <1>5, <1>6 DEF Events

(* A rename takes each path to one of its own, not below the old name. *)
LEMMA Renaming ==
  ASSUME NEW s \in Scripts, NEW t \in Time, NEW o \in Path, s[t].kind = "move",
         Covers(s[t].path, o)
  PROVE  /\ Rebase(s[t].path, s[t].to, o) \in Path
         /\ Covers(s[t].to, Rebase(s[t].path, s[t].to, o))
         /\ ~Covers(s[t].path, Rebase(s[t].path, s[t].to, o))
         /\ \A q \in Path : Covers(s[t].path, q) /\ q # o =>
              Rebase(s[t].path, s[t].to, q) # Rebase(s[t].path, s[t].to, o)
<1> DEFINE m == <<s[t].path, s[t].to>>
           r == Rebase(s[t].path, s[t].to, o)
<1>1. m \in Moves /\ m[1] = s[t].path /\ m[2] = s[t].to /\ m[1] \in Path /\ m[2] \in Path
  BY ScriptFacts
<1>2. r \in Path
  BY <1>1, RebaseAssumption
<1>3. /\ Covers(m[2], Rebase(m[1], m[2], o))
      /\ \A q \in Path : Covers(m[1], q) /\ q # o => Rebase(m[1], m[2], q) # Rebase(m[1], m[2], o)
  BY <1>1, RenameAssumption
<1>4. ~Covers(m[1], r)
  BY <1>1, <1>2, <1>3, RenameAssumption
<1> QED BY <1>1, <1>2, <1>3, <1>4

(* The directory holds contents, or nothing. *)
LEMMA DirectoryType ==
  ASSUME NEW s \in Scripts
  PROVE  \A t \in 0..Last : Directory(s)[t] \in [Path -> Ids]
<1> DEFINE Bad == {t \in 0..Last : Directory(s)[t] \notin [Path -> Ids]}
<1> SUFFICES ASSUME Bad # {} PROVE FALSE
  OBVIOUS
<1>1. PICK n \in Bad : \A m \in Bad : n <= m
  <2> HIDE DEF Bad
  <2>1. Bad \subseteq Nat
    BY Stamps DEF Bad
  <2> QED BY <2>1, Least
<1>2. n # 0
  BY <1>1, DirectoryGrows DEF Ids
<1>3. n \in Time /\ n - 1 \in 0..Last /\ ~(n <= n - 1)
  BY <1>1, <1>2, Stamps
<1> DEFINE d == Directory(s)[n - 1]
           e == s[n]
<1>4. d \in [Path -> Ids]
  BY <1>1, <1>3
<1>5. Directory(s)[n] = AfterEvent(d, e, n)
  BY <1>3, DirectoryGrows
<1>6. e.kind # "quiet" => e.path \in Path
  BY <1>3, ScriptFacts
<1>7. e.kind \in {"create", "write", "remove", "move", "quiet"}
  BY <1>3, ScriptFacts
<1>8. CreateId(n) \in Ids /\ \A p \in Path : WriteId(p, n) \in Ids
  BY <1>3 DEF CreateId, WriteId, Ids, FileId
<1> HIDE DEF d, e
<1>9. AfterEvent(d, e, n) \in [Path -> Ids]
  <2>1. CASE e.kind = "create"
    BY <1>4, <1>6, <1>8, <2>1 DEF AfterEvent
  <2>2. CASE e.kind = "write"
    BY <1>4, <1>6, <1>8, <2>2 DEF AfterEvent
  <2>3. CASE e.kind = "remove"
    BY <1>4, <2>3 DEF AfterEvent, Ids
  <2>4. CASE e.kind = "move"
    <3>1. \A q \in Path : Arrivals(d, e, q) # {} => (CHOOSE p \in Arrivals(d, e, q) : TRUE) \in Path
      BY DEF Arrivals, Within
    <3> QED BY <1>4, <2>4, <3>1 DEF AfterEvent, Ids
  <2>5. CASE e.kind = "quiet"
    BY <1>4, <2>5 DEF AfterEvent
  <2> QED BY <1>7, <2>1, <2>2, <2>3, <2>4, <2>5
<1> QED BY <1>1, <1>5, <1>9

(***************************************************************************)
(* A change makes a path a file, or the file there is gone, or it is none  *)
(* of these.                                                               *)
(***************************************************************************)
LEMMA Steps ==
  ASSUME NEW s \in Scripts, NEW t \in Time, NEW p \in Path
  PROVE  LET d == Directory(s)[t - 1]
             e == Directory(s)[t]
         IN  /\ Starts(s, t, p) => d[p] = None /\ e[p] # None /\ ~Vacates(s[t], p)
             /\ Vacates(s[t], p) => e[p] = None
             /\ s[t].kind = "create" /\ s[t].path = p => e[p] = CreateId(t)
             /\ s[t].kind = "write" /\ s[t].path = p => d[p] # None /\ e[p] = WriteId(p, t)
             /\ \A o \in Path : Lands(s, t, o, p) => e[p] = d[o]
             /\ ~Starts(s, t, p) /\ ~Vacates(s[t], p) =>
                  e[p] = d[p] \/ (s[t].kind = "write" /\ s[t].path = p)
<1> DEFINE Goal(d, e, c) ==
       /\ Starts(s, t, p) => d[p] = None /\ e[p] # None /\ ~Vacates(c, p)
       /\ Vacates(c, p) => e[p] = None
       /\ c.kind = "create" /\ c.path = p => e[p] = CreateId(t)
       /\ c.kind = "write" /\ c.path = p => d[p] # None /\ e[p] = WriteId(p, t)
       /\ \A o \in Path : Lands(s, t, o, p) => e[p] = d[o]
       /\ ~Starts(s, t, p) /\ ~Vacates(c, p) =>
            e[p] = d[p] \/ (c.kind = "write" /\ c.path = p)
<1> SUFFICES ASSUME NEW d, NEW e, NEW c, d = Directory(s)[t - 1], e = Directory(s)[t], c = s[t]
             PROVE  Goal(d, e, c)
  OBVIOUS
<1>1. e = AfterEvent(d, c, t)
  BY DirectoryGrows
<1>2. Possible(d, c) /\ c.kind \in {"create", "write", "remove", "move", "quiet"}
  BY ScriptFacts
<1>3. d \in [Path -> Ids]
  BY DirectoryType, Stamps
<1>4. CreateId(t) # None /\ WriteId(p, t) # None
  BY NoneAssumption DEF CreateId, WriteId, FileId
<1>5. \A o \in Path : Lands(s, t, o, p) <=>
        c.kind = "move" /\ Covers(c.path, o) /\ d[o] # None /\ Rebase(c.path, c.to, o) = p
  BY DEF Lands
<1>6. Starts(s, t, p) <=> (c.kind = "create" /\ c.path = p) \/ \E o \in Path : Lands(s, t, o, p)
  BY DEF Starts
<1>7. ASSUME NEW o \in Path, c.kind = "move", Covers(c.path, o), Rebase(c.path, c.to, o) = p
      PROVE  Covers(c.to, p) /\ ~Covers(c.path, p) /\
             \A q \in Path : Covers(c.path, q) /\ Rebase(c.path, c.to, q) = p => q = o
  BY <1>7, Renaming
<1>8. CASE c.kind = "create"
  BY <1>1, <1>2, <1>3, <1>4, <1>5, <1>6, <1>8 DEF AfterEvent, Possible, Vacates
<1>9. CASE c.kind = "write"
  BY <1>1, <1>2, <1>3, <1>4, <1>5, <1>6, <1>9 DEF AfterEvent, Possible, Vacates
<1>10. CASE c.kind = "remove"
  BY <1>1, <1>2, <1>3, <1>4, <1>5, <1>6, <1>10 DEF AfterEvent, Possible, Vacates
<1>11. CASE c.kind = "quiet"
  BY <1>1, <1>2, <1>3, <1>4, <1>5, <1>6, <1>11 DEF AfterEvent, Possible, Vacates
<1>12. CASE c.kind = "move"
  <2>1. e = [q \in Path |-> IF Arrivals(d, c, q) # {}
                            THEN d[CHOOSE o \in Arrivals(d, c, q) : TRUE]
                            ELSE IF Covers(c.path, q) THEN None ELSE d[q]]
    BY <1>1, <1>12 DEF AfterEvent
  <2>2. e[p] = IF Arrivals(d, c, p) # {} THEN d[CHOOSE o \in Arrivals(d, c, p) : TRUE]
               ELSE IF Covers(c.path, p) THEN None ELSE d[p]
    BY <2>1
  <2>3. Arrivals(d, c, p) = {o \in Path : Lands(s, t, o, p)}
    BY <1>5, <1>12 DEF Arrivals, Within
  <2>4. Vacates(c, p) <=> Covers(c.path, p)
    BY <1>12 DEF Vacates
  <2>5. ASSUME NEW o \in Path, Lands(s, t, o, p)
        PROVE  d[p] = None /\ e[p] = d[o] /\ e[p] # None /\ ~Vacates(c, p)
    <3>1. Covers(c.path, o) /\ d[o] # None /\ Rebase(c.path, c.to, o) = p
      BY <1>5, <2>5
    <3>2. Covers(c.to, p) /\ ~Covers(c.path, p)
      BY <1>7, <1>12, <3>1
    <3>3. \A q \in Arrivals(d, c, p) : q = o
      BY <1>5, <1>7, <1>12, <2>3, <3>1
    <3>4. Within(d, c.to) = {}
      BY <1>2, <1>12 DEF Possible
    <3>5. d[p] = None
      BY <3>2, <3>4 DEF Within
    <3>6. Arrivals(d, c, p) # {} /\ (CHOOSE q \in Arrivals(d, c, p) : TRUE) = o
      BY <2>3, <2>5, <3>3
    <3> QED BY <2>2, <2>4, <3>1, <3>2, <3>5, <3>6
  <2>6. CASE \E o \in Path : Lands(s, t, o, p)
    BY <1>6, <1>12, <2>5, <2>6
  <2>7. CASE ~\E o \in Path : Lands(s, t, o, p)
    <3>1. Arrivals(d, c, p) = {}
      BY <2>3, <2>7
    <3> QED BY <1>6, <1>12, <2>2, <2>4, <2>7, <3>1
  <2> QED BY <2>6, <2>7
<1> QED BY <1>2, <1>8, <1>9, <1>10, <1>11, <1>12

-----------------------------------------------------------------------------
(***************************************************************************)
(* Being a file.                                                           *)
(***************************************************************************)
LEMMA Stays ==
  ASSUME NEW s \in Scripts, NEW p \in Path, NEW a \in 0..Last, NEW b \in 0..Last, a <= b,
         Directory(s)[a][p] # None, ~Vacated(s, p, a, b)
  PROVE  Directory(s)[b][p] # None
<1> DEFINE Bad == {n \in a..b : Directory(s)[n][p] = None}
<1> SUFFICES ASSUME Bad # {} PROVE FALSE
  BY Stamps
<1>1. PICK n \in Bad : \A m \in Bad : n <= m
  <2> HIDE DEF Bad
  <2>1. Bad \subseteq Nat
    BY Stamps DEF Bad
  <2> QED BY <2>1, Least
<1>2. n # a
  BY <1>1
<1>3. n \in Time /\ a < n /\ n <= b /\ n - 1 \in a..b /\ ~(n <= n - 1)
  BY <1>1, <1>2, Stamps
<1>4. Directory(s)[n - 1][p] # None
  BY <1>1, <1>3
<1>5. ~Vacates(s[n], p)
  BY <1>3 DEF Vacated
<1>6. WriteId(p, n) # None
  BY <1>3, NoneAssumption DEF WriteId, FileId
<1>7. Directory(s)[n][p] # None
  BY <1>3, <1>4, <1>5, <1>6, Steps
<1> QED BY <1>1, <1>7

(* A file has been made one, and its path not vacated since. *)
LEMMA HasStart ==
  ASSUME NEW s \in Scripts, NEW p \in Path, NEW t \in 0..Last, Directory(s)[t][p] # None
  PROVE  \E b \in Time : b <= t /\ Starts(s, b, p) /\ ~Vacated(s, p, b, t)
<1> DEFINE Bad == {n \in 0..Last : /\ Directory(s)[n][p] # None
                                   /\ ~\E b \in Time : b <= n /\ Starts(s, b, p) /\ ~Vacated(s, p, b, n)}
<1> SUFFICES ASSUME Bad # {} PROVE FALSE
  BY Stamps
<1>1. PICK n \in Bad : \A m \in Bad : n <= m
  <2> HIDE DEF Bad
  <2>1. Bad \subseteq Nat
    BY Stamps DEF Bad
  <2> QED BY <2>1, Least
<1>2. n # 0
  BY <1>1, DirectoryGrows
<1>3. n \in Time /\ n - 1 \in 0..Last /\ ~(n <= n - 1) /\ n \in Nat
  BY <1>1, <1>2, Stamps
<1>4. ~Vacates(s[n], p)
  BY <1>1, <1>3, Steps
<1>5. ~Starts(s, n, p)
  <2>1. ~Vacated(s, p, n, n)
    BY <1>3, Stamps DEF Vacated
  <2> QED BY <1>1, <1>3, <2>1
<1>6. Directory(s)[n - 1][p] # None
  BY <1>1, <1>3, <1>4, <1>5, Steps
<1>7. PICK b \in Time : b <= n - 1 /\ Starts(s, b, p) /\ ~Vacated(s, p, b, n - 1)
  BY <1>1, <1>3, <1>6
<1>8. b <= n /\ ~Vacated(s, p, b, n)
  <2>1. \A v \in Time : v <= n => v = n \/ v <= n - 1
    BY <1>3, Stamps
  <2>2. b \in Nat
    BY Stamps
  <2> QED BY <1>3, <1>4, <1>7, <2>1, <2>2 DEF Vacated
<1> QED BY <1>1, <1>7, <1>8

-----------------------------------------------------------------------------
(***************************************************************************)
(* Versions.                                                               *)
(***************************************************************************)
Tables == [Path \X Time -> Ids]

(* A version is of a file, whose start has a version too. *)
LEMMA VersionFacts ==
  ASSUME NEW s \in Scripts, NEW T \in Tables, NEW a, Places(s, T, a),
         NEW p \in Path, NEW t \in Time, T[<<p, t>>] # None
  PROVE  /\ \E b \in Time : /\ b <= t /\ Starts(s, b, p) /\ T[<<p, b>>] # None
                            /\ ~Vacated(s, p, b, t)
         /\ Directory(s)[t][p] # None /\ ~Vacates(s[t], p)
         /\ Starts(s, t, p) \/ (s[t].kind = "write" /\ s[t].path = p)
<1>1. t \in Nat
  BY Stamps
<1>2. CASE Starts(s, t, p)
  <2>1. ~Vacated(s, p, t, t)
    BY <1>1, Stamps DEF Vacated
  <2> QED BY <1>1, <1>2, <2>1, Steps
<1>3. CASE ~Starts(s, t, p)
  <2>1. /\ s[t].kind = "write" /\ s[t].path = p
        /\ \E b \in Time : b < t /\ Starts(s, b, p) /\ T[<<p, b>>] # None /\ ~Vacated(s, p, b, t)
    BY <1>3 DEF Places, Starts
  <2>2. ~Vacates(s[t], p)
    BY <2>1 DEF Vacates
  <2>3. WriteId(p, t) # None
    BY NoneAssumption DEF WriteId, FileId
  <2>4. Directory(s)[t][p] # None
    BY <2>1, <2>3, Steps
  <2> QED BY <1>1, <2>1, <2>2, <2>4, Stamps
<1> QED BY <1>2, <1>3

(* A content is as old as the change that made it. *)
LEMMA Aged ==
  ASSUME NEW s \in Scripts, NEW T \in Tables, NEW a, Chained(s, T, a),
         NEW q \in Path, NEW r \in Time, T[<<q, r>>] # None
  PROVE  T[<<q, r>>][1] \in Time /\ T[<<q, r>>][1] <= r
<1> DEFINE Bad == {t \in Time : \E p \in Path : /\ T[<<p, t>>] # None
                                                /\ ~(T[<<p, t>>][1] \in Time /\ T[<<p, t>>][1] <= t)}
<1> SUFFICES ASSUME Bad # {} PROVE FALSE
  OBVIOUS
<1>1. PICK n \in Bad : \A m \in Bad : n <= m
  <2> HIDE DEF Bad
  <2>1. Bad \subseteq Nat
    BY Stamps DEF Bad
  <2> QED BY <2>1, Least
<1>2. PICK p \in Path : T[<<p, n>>] # None /\ ~(T[<<p, n>>][1] \in Time /\ T[<<p, n>>][1] <= n)
  BY <1>1
<1>3. n \in Time /\ n \in Nat
  BY <1>1, Stamps
<1>4. CreateId(n)[1] = n /\ WriteId(p, n)[1] = n
  BY DEF CreateId, WriteId
<1>5. n <= a /\ \E o \in Path : Lands(s, n, o, p)
  BY <1>2, <1>3, <1>4 DEF Chained, Places
<1>6. PICK o \in Path : Lands(s, n, o, p)
  BY <1>5
<1>7. PICK l \in Time : LastOf(T, o, l, n) /\ T[<<p, n>>] = T[<<o, l>>]
  BY <1>3, <1>5, <1>6 DEF Chained, Carried
<1>8. l < n /\ T[<<o, l>>] # None /\ l \in Nat
  BY <1>7, Stamps DEF LastOf
<1>9. l \notin Bad
  BY <1>1, <1>3, <1>8
<1>10. T[<<o, l>>][1] \in Time /\ T[<<o, l>>][1] <= l
  BY <1>8, <1>9
<1>11. T[<<o, l>>][1] \in Nat
  BY <1>10, Stamps
<1> QED BY <1>2, <1>3, <1>7, <1>8, <1>10, <1>11

(***************************************************************************)
(* The versions with one content are a chain: the earlier of two has left  *)
(* its path when the later one comes, and there are never two at once.     *)
(***************************************************************************)
Follows(s, T, p, l, q, r) ==
  T[<<p, l>>] # None /\ T[<<p, l>>] = T[<<q, r>>] =>
    /\ l < r => Vacated(s, p, l, r)
    /\ l = r => p = q

(* Where the version of q at r has come from: if it was not made there, from *)
(* an earlier one that the rename took away.                               *)
MadeOrMoved(s, T, q, r) ==
  \/ s[r].kind \in {"create", "write"} /\ s[r].path = q /\ T[<<q, r>>][1] = r
  \/ /\ s[r].kind = "move" /\ T[<<q, r>>][1] # r
     /\ \E o \in Path, l \in Time :
          /\ Lands(s, r, o, q) /\ l < r /\ T[<<o, l>>] = T[<<q, r>>]
          /\ ~Vacated(s, o, l, r - 1) /\ Vacates(s[r], o)

LEMMA CameFrom ==
  ASSUME NEW s \in Scripts, NEW T \in Tables, NEW a, Chained(s, T, a),
         NEW q \in Path, NEW r \in Time, T[<<q, r>>] # None
  PROVE  MadeOrMoved(s, T, q, r)
<1> USE DEF MadeOrMoved
<1>1. CreateId(r)[1] = r /\ WriteId(q, r)[1] = r
  BY DEF CreateId, WriteId
<1>2. CASE s[r].kind \in {"create", "write"}
  BY <1>1, <1>2 DEF Chained, Places, Lands
<1>3. CASE s[r].kind \notin {"create", "write"}
  <2>1. r <= a /\ \E o \in Path : Lands(s, r, o, q)
    BY <1>3 DEF Chained, Places
  <2>2. PICK o \in Path : Lands(s, r, o, q)
    BY <2>1
  <2>3. PICK l \in Time : /\ LastOf(T, o, l, r) /\ ~Vacated(s, o, l, r - 1)
                          /\ T[<<q, r>>] = T[<<o, l>>]
    BY <2>1, <2>2 DEF Chained, Carried
  <2>4. l < r /\ T[<<o, l>>] # None
    BY <2>3 DEF LastOf
  <2>5. T[<<o, l>>][1] \in Time /\ T[<<o, l>>][1] <= l
    BY <2>4, Aged
  <2>6. T[<<q, r>>][1] # r
    <3>1. T[<<o, l>>][1] \in Nat /\ l \in Nat /\ r \in Nat
      BY <2>5, Stamps
    <3> QED BY <2>3, <2>4, <2>5, <3>1
  <2>7. s[r].kind = "move" /\ Vacates(s[r], o)
    BY <2>2 DEF Lands, Vacates
  <2> QED BY <2>2, <2>3, <2>4, <2>6, <2>7
<1> QED BY <1>2, <1>3

(* Two versions with one content follow one another in time. *)
LEMMA OneChain ==
  ASSUME NEW s \in Scripts, NEW T \in Tables, NEW a, Chained(s, T, a),
         NEW p \in Path, NEW l \in Time, NEW q \in Path, NEW r \in Time
  PROVE  Follows(s, T, p, l, q, r)
<1> DEFINE Bad == {n \in Time : \E y \in Path, i \in Time, z \in Path :
                                  i <= n /\ ~Follows(s, T, y, i, z, n)}
<1>1. ASSUME Bad # {} PROVE FALSE
  <2>1. PICK n \in Bad : \A m \in Bad : n <= m
    <3> HIDE DEF Bad
    <3>1. Bad \subseteq Nat
      BY Stamps DEF Bad
    <3> QED BY <1>1, <3>1, Least
  <2>2. PICK y \in Path, i \in Time, z \in Path : i <= n /\ ~Follows(s, T, y, i, z, n)
    BY <2>1
  <2>3. n \in Time /\ n \in Nat /\ i \in Nat
    BY <2>1, Stamps
  <2>4. T[<<y, i>>] # None /\ T[<<y, i>>] = T[<<z, n>>]
        /\ ((i < n /\ ~Vacated(s, y, i, n)) \/ (i = n /\ y # z))
    BY <2>2 DEF Follows
  <2>5. ASSUME NEW j \in Time, NEW k \in Time, NEW c \in Path, NEW d \in Path,
               j <= k, k < n
        PROVE  Follows(s, T, c, j, d, k)
    <3>1. k \in Nat
      BY Stamps
    <3>2. k \notin Bad
      BY <2>1, <2>3, <2>5, <3>1
    <3> QED BY <2>5, <3>2
  <2>8. ASSUME NEW c \in Path, T[<<c, n>>] # None
        PROVE  MadeOrMoved(s, T, c, n)
    BY <2>3, <2>8, CameFrom
  <2> HIDE DEF Bad
  <2>6. CASE i < n
    <3>1. T[<<y, i>>][1] \in Time /\ T[<<y, i>>][1] <= i
      BY <2>4, Aged
    <3>2. T[<<z, n>>][1] # n
      <4>1. T[<<y, i>>][1] \in Nat
        BY <3>1, Stamps
      <4> QED BY <2>3, <2>4, <2>6, <3>1, <4>1
    <3>3. PICK o \in Path, k \in Time :
            k < n /\ T[<<o, k>>] = T[<<z, n>>] /\ ~Vacated(s, o, k, n - 1) /\ Vacates(s[n], o)
      BY <2>4, <2>8, <3>2 DEF MadeOrMoved
    <3>4. k \in Nat /\ T[<<o, k>>] # None /\ T[<<o, k>>] = T[<<y, i>>]
      BY <2>4, <3>3, Stamps
    <3>5. CASE i < k
      <4>1. Vacated(s, y, i, k)
        BY <2>3, <2>4, <2>5, <3>3, <3>4, <3>5 DEF Follows
      <4>2. \A v \in Time : v <= k => v <= n
        BY <2>3, <3>3, <3>4, Stamps
      <4>3. Vacated(s, y, i, n)
        BY <4>1, <4>2 DEF Vacated
      <4> QED BY <2>3, <2>4, <2>6, <4>3
    <3>6. CASE i = k
      <4>1. y = o
        BY <2>3, <2>4, <2>5, <3>3, <3>4, <3>6 DEF Follows
      <4>2. Vacated(s, y, i, n)
        BY <2>3, <2>6, <3>3, <4>1 DEF Vacated
      <4> QED BY <2>3, <2>4, <2>6, <4>2
    <3>7. CASE k < i
      <4>1. Vacated(s, o, k, i)
        BY <2>3, <2>5, <2>6, <3>3, <3>4, <3>7 DEF Follows
      <4>2. \A v \in Time : v <= i => v <= n - 1
        <5>1. \A v \in Nat : v <= i => v <= n - 1
          BY <2>3, <2>6
        <5> QED BY <5>1, Stamps
      <4> QED BY <3>3, <4>1, <4>2 DEF Vacated
    <3> QED BY <2>3, <3>4, <3>5, <3>6, <3>7
  <2>7. CASE i = n /\ y # z
    <3>1. T[<<y, n>>] # None /\ T[<<y, n>>] = T[<<z, n>>]
      BY <2>4, <2>7
    <3>2. CASE T[<<y, n>>][1] = n
      BY <2>7, <2>8, <3>1, <3>2 DEF MadeOrMoved
    <3>3. CASE T[<<y, n>>][1] # n
      <4>1. PICK o \in Path, k \in Time :
              /\ Lands(s, n, o, y) /\ k < n /\ T[<<o, k>>] = T[<<y, n>>]
              /\ ~Vacated(s, o, k, n - 1)
        BY <2>8, <3>1, <3>3 DEF MadeOrMoved
      <4>2. PICK c \in Path, j \in Time :
              /\ Lands(s, n, c, z) /\ j < n /\ T[<<c, j>>] = T[<<z, n>>]
              /\ ~Vacated(s, c, j, n - 1)
        BY <2>8, <3>1, <3>3 DEF MadeOrMoved
      <4>3. T[<<o, k>>] # None /\ T[<<o, k>>] = T[<<c, j>>] /\ k \in Nat /\ j \in Nat
        BY <3>1, <4>1, <4>2, Stamps
      <4>4. CASE k = j
        <5>1. o = c
          BY <2>5, <4>1, <4>2, <4>3, <4>4 DEF Follows
        <5> QED BY <2>7, <4>1, <4>2, <5>1 DEF Lands
      <4>5. CASE k < j
        <5>1. Vacated(s, o, k, j)
          BY <2>5, <4>2, <4>3, <4>5 DEF Follows
        <5>2. \A v \in Time : v <= j => v <= n - 1
          <6>1. \A v \in Nat : v <= j => v <= n - 1
            BY <2>3, <4>2, <4>3
          <6> QED BY <6>1, Stamps
        <5> QED BY <4>1, <5>1, <5>2 DEF Vacated
      <4>6. CASE j < k
        <5>1. Vacated(s, c, j, k)
          BY <2>5, <4>1, <4>3, <4>6 DEF Follows
        <5>2. \A v \in Time : v <= k => v <= n - 1
          <6>1. \A v \in Nat : v <= k => v <= n - 1
            BY <2>3, <4>1, <4>3
          <6> QED BY <6>1, Stamps
        <5> QED BY <4>2, <5>1, <5>2 DEF Vacated
      <4> QED BY <4>3, <4>4, <4>5, <4>6
    <3> QED BY <3>2, <3>3
  <2> QED BY <2>3, <2>4, <2>6, <2>7
<1>2. CASE l <= r
  BY <1>1, <1>2
<1>3. CASE ~(l <= r)
  <2>1. ~(l < r) /\ l # r
    BY <1>3, Stamps
  <2> QED BY <2>1 DEF Follows
<1> QED BY <1>2, <1>3

(* Of the versions before b there is a last one, not earlier than l. *)
LEMMA LastExists ==
  ASSUME NEW T, NEW p, NEW l \in Time, NEW b \in Nat, l < b, T[<<p, l>>] # None
  PROVE  \E k \in Time : LastOf(T, p, k, b) /\ l <= k
<1> DEFINE Gaps == {n \in Nat : \E u \in Time : n = b - u /\ l <= u /\ u < b /\ T[<<p, u>>] # None}
<1>1. b - l \in Gaps
  BY Stamps
<1>2. PICK n \in Gaps : \A m \in Gaps : n <= m
  <2> HIDE DEF Gaps
  <2>1. Gaps \subseteq Nat /\ Gaps # {}
    BY <1>1 DEF Gaps
  <2> QED BY <2>1, Least
<1>3. PICK k \in Time : n = b - k /\ l <= k /\ k < b /\ T[<<p, k>>] # None
  BY <1>2
<1>4. ASSUME NEW u \in Time, k < u, u < b PROVE T[<<p, u>>] = None
  <2>1. u \in Nat /\ k \in Nat /\ l \in Nat
    BY Stamps
  <2>2. b - u \in Nat /\ ~(n <= b - u) /\ l <= u
    BY <1>3, <1>4, <2>1
  <2>3. b - u \notin Gaps
    BY <1>2, <2>2
  <2> QED BY <1>4, <2>2, <2>3
<1> QED BY <1>3, <1>4 DEF LastOf

-----------------------------------------------------------------------------
(***************************************************************************)
(* What each change does to the chains.                                    *)
(***************************************************************************)
Base(T, p, t, x) == \E u \in Time : LastOf(T, p, u, t) /\ T[<<p, u>>] = x

(* A write stored late, and forwarded to the versions made of its base. *)
Late(T, p, t) ==
  [k \in Path \X Time |->
     IF k = <<p, t>> \/ (T[k] # None /\ k[2] > t /\ Base(T, p, t, T[k]))
     THEN WriteId(p, t) ELSE T[k]]

(* Adding a version nobody has and no rename has passed keeps the last ones. *)
LEMMA SameLast ==
  ASSUME NEW T, NEW N, NEW o, NEW l \in Time, NEW m \in Time, LastOf(T, o, l, m),
         N[<<o, l>>] # None,
         \A u \in Time : l < u /\ u < m => (T[<<o, u>>] = None <=> N[<<o, u>>] = None)
  PROVE  LastOf(N, o, l, m)
BY DEF LastOf

(* There is one last version. *)
LEMMA OneLast ==
  ASSUME NEW T, NEW p, NEW b, NEW k \in Time, NEW l \in Time,
         LastOf(T, p, k, b), LastOf(T, p, l, b)
  PROVE  k = l
<1>1. ~(k < l) /\ ~(l < k)
  BY DEF LastOf
<1>2. k \in Nat /\ l \in Nat
  BY Stamps
<1> QED BY <1>1, <1>2

(* A write that arrives late keeps the chains: the versions made of its base by
   renames carried out, and only those, get its content. *)
LEMMA LateChained ==
  ASSUME NEW s \in Scripts, NEW T \in Tables, NEW a, Chained(s, T, a),
         NEW p \in Path, NEW t \in Time, s[t].kind = "write", s[t].path = p,
         T[<<p, t>>] = None,
         NEW b \in Time, b < t, Starts(s, b, p), T[<<p, b>>] # None, ~Vacated(s, p, b, t)
  PROVE  Chained(s, Late(T, p, t), a)
<1> SUFFICES ASSUME NEW N, NEW W, N = Late(T, p, t), W = WriteId(p, t)
             PROVE  Chained(s, N, a)
  OBVIOUS
<1>1. t \in Nat /\ b \in Nat
  BY Stamps
<1>2. PICK z \in Time : LastOf(T, p, z, t) /\ b <= z
  BY <1>1, LastExists
<1>3. z \in Nat /\ z < t /\ T[<<p, z>>] # None
  BY <1>2, Stamps DEF LastOf
<1> PICK X : X = T[<<p, z>>]
  OBVIOUS
<1>4. \A x : Base(T, p, t, x) <=> x = X
  <2>1. \A u \in Time : LastOf(T, p, u, t) => u = z
    BY <1>2, OneLast
  <2> QED BY <1>2, <2>1 DEF Base
<1>5. W # None
  BY NoneAssumption DEF WriteId, FileId
<1>6. N[<<p, t>>] = W
  BY DEF Late
<1>7. ASSUME NEW q \in Path, NEW r \in Time, <<q, r>> # <<p, t>>
      PROVE  N[<<q, r>>] = IF T[<<q, r>>] # None /\ r > t /\ T[<<q, r>>] = X THEN W ELSE T[<<q, r>>]
  <2>1. <<q, r>> \in Path \X Time /\ <<q, r>>[2] = r
    OBVIOUS
  <2>2. N[<<q, r>>] = IF T[<<q, r>>] # None /\ r > t /\ Base(T, p, t, T[<<q, r>>])
                      THEN W ELSE T[<<q, r>>]
    BY <1>7, <2>1 DEF Late
  <2> QED BY <1>4, <2>2
<1>8. \A q \in Path, r \in Time : <<q, r>> # <<p, t>> =>
        (N[<<q, r>>] = None <=> T[<<q, r>>] = None)
  BY <1>5, <1>7
<1>9. \A q \in Path, r \in Time : T[<<q, r>>] # None => N[<<q, r>>] # None
  BY <1>5, <1>6, <1>8
<1>10. X[1] \in Time /\ X[1] <= z /\ X[1] \in Nat
  <2>1. X[1] \in Time /\ X[1] <= z
    BY <1>3, Aged
  <2> QED BY <2>1, Stamps
<1>11. Places(s, N, a)
  <2>1. SUFFICES ASSUME NEW q \in Path, NEW r \in Time, N[<<q, r>>] # None
                 PROVE  \/ s[r].kind = "create" /\ s[r].path = q /\ N[<<q, r>>] = CreateId(r)
                        \/ /\ s[r].kind = "write" /\ s[r].path = q /\ N[<<q, r>>] = WriteId(q, r)
                           /\ \E c \in Time : /\ c < r /\ Starts(s, c, q) /\ N[<<q, c>>] # None
                                              /\ ~Vacated(s, q, c, r)
                        \/ r <= a /\ \E o \in Path : Lands(s, r, o, q)
    BY DEF Places
  <2>2. CASE <<q, r>> = <<p, t>>
    BY <1>6, <1>9, <2>2
  <2>3. CASE <<q, r>> # <<p, t>> /\ N[<<q, r>>] = T[<<q, r>>]
    <3>1. T[<<q, r>>] # None
      BY <2>1, <2>3
    <3> QED BY <1>9, <2>3, <3>1 DEF Chained, Places
  <2>4. CASE <<q, r>> # <<p, t>> /\ N[<<q, r>>] # T[<<q, r>>]
    <3>1. T[<<q, r>>] = X /\ r > t /\ r \in Nat
      BY <1>7, <2>4, Stamps
    <3>2. T[<<q, r>>][1] # r
      BY <1>1, <1>3, <1>10, <3>1
    <3>3. CreateId(r)[1] = r /\ WriteId(q, r)[1] = r
      BY DEF CreateId, WriteId
    <3> QED BY <1>3, <3>1, <3>2, <3>3 DEF Chained, Places
  <2> QED BY <2>2, <2>3, <2>4
<1>12. ASSUME NEW m \in Time, NEW o \in Path, NEW q \in Path, m <= a, Lands(s, m, o, q)
       PROVE  \E l \in Time : /\ LastOf(N, o, l, m) /\ ~Vacated(s, o, l, m - 1)
                              /\ N[<<q, m>>] = N[<<o, l>>]
  <2>2. PICK l \in Time : /\ LastOf(T, o, l, m) /\ ~Vacated(s, o, l, m - 1)
                          /\ T[<<q, m>>] = T[<<o, l>>]
    BY <1>12 DEF Chained, Carried
  <2>3. l < m /\ T[<<o, l>>] # None /\ l \in Nat /\ m \in Nat
    BY <2>2, Stamps DEF LastOf
  <2>4. m # t /\ <<q, m>> # <<p, t>> /\ <<o, l>> # <<p, t>>
    BY <1>12, <2>3 DEF Lands
  <2>5. CASE o = p /\ l < t /\ t < m
    <3>1. LastOf(T, p, l, t)
      <4>1. \A u \in Time : u < t => u < m
        BY <1>1, <2>3, <2>5, Stamps
      <4> QED BY <2>2, <2>3, <2>5, <4>1 DEF LastOf
    <3>2. T[<<q, m>>] = X
      BY <1>2, <2>2, <2>5, <3>1, OneLast
    <3>3. N[<<q, m>>] = W
      BY <1>7, <2>2, <2>3, <2>4, <2>5, <3>2
    <3>4. \A v \in Time : t < v => l < v
      BY <1>1, <2>3, <2>5, Stamps
    <3>5. LastOf(N, p, t, m)
      <4>1. ASSUME NEW u \in Time, t < u, u < m PROVE N[<<p, u>>] = None
        <5>1. T[<<p, u>>] = None
          BY <2>2, <2>5, <3>4, <4>1 DEF LastOf
        <5>2. <<p, u>> # <<p, t>>
          BY <1>1, <4>1
        <5> QED BY <1>8, <5>1, <5>2
      <4> QED BY <1>5, <1>6, <2>5, <4>1 DEF LastOf
    <3>6. ~Vacated(s, o, t, m - 1)
      BY <2>2, <3>4 DEF Vacated
    <3> QED BY <1>6, <2>5, <3>3, <3>5, <3>6
  <2>6. CASE ~(o = p /\ l < t /\ t < m)
    <3>1. LastOf(N, o, l, m)
      <4>1. \A u \in Time : l < u /\ u < m => <<o, u>> # <<p, t>>
        BY <2>6
      <4>2. N[<<o, l>>] # None
        BY <1>9, <2>3
      <4> QED BY <1>8, <2>2, <4>1, <4>2, SameLast
    <3>2. ASSUME T[<<o, l>>] = X, m > t PROVE l > t
      <4>1. l # t
        <5>1. l = t => o = p
          BY <2>3 DEF Chained, Places, Lands
        <5> QED BY <2>3, <5>1
      <4>2. CASE l < t
        <5>1. o # p
          BY <2>6, <3>2, <4>2, <1>1, <2>3
        <5>2. CASE l < z
          <6>1. Vacated(s, o, l, z)
            BY <2>3, <3>2, <5>2, OneChain DEF Follows
          <6>2. \A v \in Time : v <= z => v <= m - 1
            <7>1. \A v \in Nat : v <= z => v <= m - 1
              BY <1>1, <1>3, <2>3, <3>2
            <7> QED BY <7>1, Stamps
          <6> QED BY <2>2, <6>1, <6>2 DEF Vacated
        <5>3. CASE l = z
          BY <2>3, <3>2, <5>1, <5>3, OneChain DEF Follows
        <5>4. CASE z < l
          <6>1. Vacated(s, p, z, l)
            BY <1>3, <3>2, <5>4, OneChain DEF Follows
          <6>2. \A v \in Time : z < v /\ v <= l => b < v /\ v <= t
            <7>1. \A v \in Nat : z < v /\ v <= l => b < v /\ v <= t
              BY <1>1, <1>2, <1>3, <2>3, <4>2
            <7> QED BY <7>1, Stamps
          <6> QED BY <6>1, <6>2 DEF Vacated
        <5> QED BY <1>3, <2>3, <5>2, <5>3, <5>4
      <4> QED BY <1>1, <2>3, <4>1, <4>2
    <3>3. l > t => m > t
      BY <1>1, <2>3
    <3>4. N[<<q, m>>] = N[<<o, l>>]
      BY <1>7, <2>2, <2>3, <2>4, <3>2, <3>3
    <3> QED BY <2>2, <3>1, <3>4
  <2> QED BY <2>5, <2>6
<1>13. Carried(s, N, a)
  BY <1>12 DEF Carried
<1> QED BY <1>11, <1>13 DEF Chained

(* So does a creation: no rename carried out has passed it. *)
LEMMA CreateChained ==
  ASSUME NEW s \in Scripts, NEW T \in Tables, NEW a, Chained(s, T, a),
         NEW p \in Path, NEW t \in Time, s[t].kind = "create", s[t].path = p,
         T[<<p, t>>] = None
  PROVE  Chained(s, [T EXCEPT ![<<p, t>>] = CreateId(t)], a)
<1> DEFINE N == [T EXCEPT ![<<p, t>>] = CreateId(t)]
<1>1. /\ N[<<p, t>>] = CreateId(t)
      /\ \A q \in Path, r \in Time : <<q, r>> # <<p, t>> => N[<<q, r>>] = T[<<q, r>>]
  BY DEF Tables
<1>2. CreateId(t) # None
  BY NoneAssumption DEF CreateId, FileId
<1> HIDE DEF N
<1>3. \A q \in Path, r \in Time : T[<<q, r>>] # None => N[<<q, r>>] = T[<<q, r>>]
  BY <1>1
<1>4. Places(s, N, a)
  <2>1. SUFFICES ASSUME NEW q \in Path, NEW r \in Time, N[<<q, r>>] # None
                 PROVE  \/ s[r].kind = "create" /\ s[r].path = q /\ N[<<q, r>>] = CreateId(r)
                        \/ /\ s[r].kind = "write" /\ s[r].path = q /\ N[<<q, r>>] = WriteId(q, r)
                           /\ \E c \in Time : /\ c < r /\ Starts(s, c, q) /\ N[<<q, c>>] # None
                                              /\ ~Vacated(s, q, c, r)
                        \/ r <= a /\ \E o \in Path : Lands(s, r, o, q)
    BY DEF Places
  <2>2. CASE <<q, r>> = <<p, t>>
    BY <1>1, <2>2
  <2>3. CASE <<q, r>> # <<p, t>>
    <3>1. T[<<q, r>>] # None /\ N[<<q, r>>] = T[<<q, r>>]
      BY <1>1, <2>1, <2>3
    <3>2. \A c \in Time : T[<<q, c>>] # None => N[<<q, c>>] # None
      BY <1>3
    <3> QED BY <3>1, <3>2 DEF Chained, Places
  <2> QED BY <2>2, <2>3
<1>5. Carried(s, N, a)
  <2>1. SUFFICES ASSUME NEW m \in Time, NEW o \in Path, NEW q \in Path, m <= a, Lands(s, m, o, q)
                 PROVE  \E k \in Time : /\ LastOf(N, o, k, m) /\ ~Vacated(s, o, k, m - 1)
                                        /\ N[<<q, m>>] = N[<<o, k>>]
    BY DEF Carried
  <2>2. PICK l \in Time : /\ LastOf(T, o, l, m) /\ ~Vacated(s, o, l, m - 1)
                          /\ T[<<q, m>>] = T[<<o, l>>]
    BY <2>1 DEF Chained, Carried
  <2>3. l < m /\ T[<<o, l>>] # None /\ l \in Nat /\ m \in Nat /\ t \in Nat /\ t # 0
    BY <2>2, Stamps DEF LastOf
  <2>4. N[<<q, m>>] = N[<<o, l>>]
    <3>1. <<q, m>> # <<p, t>>
      BY <2>1 DEF Lands
    <3> QED BY <1>1, <1>3, <2>2, <2>3, <3>1
  <2>5. ~(o = p /\ l < t /\ t < m)
    <3>1. SUFFICES ASSUME o = p, l < t, t < m PROVE FALSE
      OBVIOUS
    <3>2. Directory(s)[l][p] # None
      BY <2>3, <3>1, VersionFacts DEF Chained
    <3>3. \A v \in Nat : v <= t - 1 => v <= m - 1
      BY <2>3, <3>1
    <3>4. ~Vacated(s, p, l, t - 1)
      BY <2>2, <3>1, <3>3, Stamps DEF Vacated
    <3>5. l \in 0..Last /\ t - 1 \in 0..Last /\ l <= t - 1
      BY <2>3, <3>1, Stamps
    <3>6. Directory(s)[t - 1][p] # None
      BY <3>2, <3>4, <3>5, Stays
    <3>7. Starts(s, t, p)
      BY DEF Starts
    <3> QED BY <3>6, <3>7, Steps
  <2>6. LastOf(N, o, l, m)
    <3>1. \A u \in Time : l < u /\ u < m => N[<<o, u>>] = T[<<o, u>>]
      BY <1>1, <2>5
    <3>2. N[<<o, l>>] # None
      BY <1>3, <2>3
    <3> QED BY <2>2, <3>1, <3>2, SameLast
  <2> QED BY <2>2, <2>4, <2>6
<1> QED BY <1>4, <1>5 DEF Chained, N

(* So does a stretch without renames, *)
LEMMA AdvanceChained ==
  ASSUME NEW s \in Scripts, NEW T \in Tables, NEW a \in Nat, NEW c \in Nat, a <= c,
         Chained(s, T, a),
         \A v \in Time : a < v /\ v <= c => \A o, q \in Path : ~Lands(s, v, o, q)
  PROVE  Chained(s, T, c)
<1>1. \A v \in Time : v <= a => v <= c
  BY Stamps
<1>2. \A v \in Time : v <= c /\ (\E o, q \in Path : Lands(s, v, o, q)) => v <= a
  <2>1. \A v \in Time : v \in Nat
    BY Stamps
  <2> QED BY <2>1
<1>3. Places(s, T, c)
  BY <1>1 DEF Chained, Places
<1>4. Carried(s, T, c)
  BY <1>2 DEF Chained, Carried
<1> QED BY <1>3, <1>4 DEF Chained

(* and a rename that brings each file's last version. *)
LEMMA LandedChained ==
  ASSUME NEW s \in Scripts, NEW T \in Tables, NEW N \in Tables,
         NEW a \in Nat, NEW t \in Time, a < t, Chained(s, T, a),
         \A v \in Time : a < v /\ v < t => \A o, q \in Path : ~Lands(s, v, o, q),
         \A o, q \in Path : Lands(s, t, o, q) =>
           \E l \in Time : /\ LastOf(T, o, l, t) /\ ~Vacated(s, o, l, t - 1)
                           /\ N[<<q, t>>] = T[<<o, l>>],
         \A q \in Path, r \in Time : r # t \/ (\A o \in Path : ~Lands(s, t, o, q))
                                     => N[<<q, r>>] = T[<<q, r>>]
  PROVE  Chained(s, N, t)
<1>1. t \in Nat /\ \A v \in Time : v \in Nat
  BY Stamps
<1>2. \A q \in Path, o \in Path : Lands(s, t, o, q) => N[<<q, t>>] # None
  <2> SUFFICES ASSUME NEW q \in Path, NEW o \in Path, Lands(s, t, o, q)
               PROVE  N[<<q, t>>] # None
    OBVIOUS
  <2>1. PICK l \in Time : LastOf(T, o, l, t) /\ N[<<q, t>>] = T[<<o, l>>]
    OBVIOUS
  <2> QED BY <2>1 DEF LastOf
<1>3. \A q \in Path, r \in Time : T[<<q, r>>] # None => N[<<q, r>>] # None
  BY <1>2
<1>4. \A v \in Time : v <= a => v <= t
  BY <1>1
<1>5. \A q \in Path, r \in Time : r < t => N[<<q, r>>] = T[<<q, r>>]
  BY <1>1
<1>6. Places(s, N, t)
  <2>1. SUFFICES ASSUME NEW q \in Path, NEW r \in Time, N[<<q, r>>] # None
                 PROVE  \/ s[r].kind = "create" /\ s[r].path = q /\ N[<<q, r>>] = CreateId(r)
                        \/ /\ s[r].kind = "write" /\ s[r].path = q /\ N[<<q, r>>] = WriteId(q, r)
                           /\ \E c \in Time : /\ c < r /\ Starts(s, c, q) /\ N[<<q, c>>] # None
                                              /\ ~Vacated(s, q, c, r)
                        \/ r <= t /\ \E o \in Path : Lands(s, r, o, q)
    BY DEF Places
  <2>2. CASE r = t /\ \E o \in Path : Lands(s, t, o, q)
    BY <1>1, <2>2
  <2>3. CASE ~(r = t /\ \E o \in Path : Lands(s, t, o, q))
    <3>1. T[<<q, r>>] # None /\ N[<<q, r>>] = T[<<q, r>>]
      BY <2>1, <2>3
    <3> QED BY <1>3, <1>4, <3>1 DEF Chained, Places
  <2> QED BY <2>2, <2>3
<1>7. Carried(s, N, t)
  <2>1. SUFFICES ASSUME NEW m \in Time, NEW o \in Path, NEW q \in Path, m <= t, Lands(s, m, o, q)
                 PROVE  \E k \in Time : /\ LastOf(N, o, k, m) /\ ~Vacated(s, o, k, m - 1)
                                        /\ N[<<q, m>>] = N[<<o, k>>]
    BY DEF Carried
  <2>2. PICK l \in Time : /\ LastOf(T, o, l, m) /\ ~Vacated(s, o, l, m - 1)
                          /\ N[<<q, m>>] = T[<<o, l>>]
    <3>1. CASE m = t
      BY <2>1, <3>1
    <3>2. CASE m # t
      <4>1. m < t /\ m <= a
        BY <1>1, <2>1, <3>2
      <4> QED BY <1>5, <2>1, <4>1 DEF Chained, Carried
    <3> QED BY <3>1, <3>2
  <2>3. l < m /\ T[<<o, l>>] # None
    BY <2>2 DEF LastOf
  <2>4. \A u \in Time : u < m => N[<<o, u>>] = T[<<o, u>>]
    <3>1. \A u \in Time : u < m => u < t
      BY <1>1, <2>1
    <3> QED BY <1>5, <3>1
  <2>5. LastOf(N, o, l, m)
    <3>1. N[<<o, l>>] # None
      BY <2>3, <2>4
    <3> QED BY <2>2, <2>3, <2>4, <3>1 DEF LastOf
  <2> QED BY <2>2, <2>3, <2>4, <2>5
<1> QED BY <1>6, <1>7 DEF Chained

-----------------------------------------------------------------------------
(***************************************************************************)
(* What the invariant says of a state.                                     *)
(***************************************************************************)
LEMMA TableType == TypeOK => Table \in Tables
<1> SUFFICES ASSUME TypeOK, NEW k \in Path \X Time
             PROVE  (IF Live(k[1]) /\ files[k[1]].ts = k[2]
                     THEN files[k[1]].id ELSE history[k]) \in Ids
  BY DEF Table, Tables
<1>1. k[1] \in Path /\ history[k] \in Ids
  BY DEF TypeOK
<1>2. Live(k[1]) => files[k[1]].id \in Ids
  BY <1>1 DEF TypeOK, Live, Rows, FileRow, Ids
<1> QED BY <1>1, <1>2

(* A version is the row's, or the one in history. *)
LEMMA TableFacts ==
  ASSUME TypeOK, NEW p \in Path
  PROVE  /\ Live(p) => /\ files[p].ts \in Time /\ Table[<<p, files[p].ts>>] = files[p].id
                       /\ files[p].id # None
         /\ \A t \in Time : ~(Live(p) /\ files[p].ts = t) => Table[<<p, t>>] = history[<<p, t>>]
<1>1. Live(p) => files[p].ts \in Time /\ files[p].id \in FileId
  BY DEF TypeOK, Live, Rows, FileRow
<1>2. \A t \in Time : Table[<<p, t>>] = IF Live(p) /\ files[p].ts = t THEN files[p].id
                                         ELSE history[<<p, t>>]
  BY DEF Table
<1> QED BY <1>1, <1>2, NoneAssumption

(* The parts of the invariant that most steps need. *)
LEMMA InvFacts ==
  ASSUME IInv
  PROVE  /\ TypeOK /\ script \in Scripts /\ sent \subseteq Time /\ Table \in Tables
         /\ Chained(script, Table, Upto) /\ Places(script, Table, Upto)
         /\ Carried(script, Table, Upto)
         /\ Upto \in Nat /\ Bound \in Nat /\ lastSync \in Nat /\ lastSync <= Upto /\ Upto <= Bound
         /\ Idle => Upto = lastSync /\ Bound = lastSync
         /\ ~Idle => Upto = applying.done /\ Bound = applying.to
<1>1. TypeOK /\ script \in Scripts /\ sent \subseteq Time /\ Chained(script, Table, Upto) /\ Synced
  BY DEF IInv
<1>2. lastSync \in Nat
  BY <1>1, Stamps DEF TypeOK
<1>3. ~Idle => applying.done \in Nat /\ applying.to \in Nat
  BY <1>1, Stamps DEF TypeOK, Idle, Image
<1> QED BY <1>1, <1>2, <1>3, TableType DEF Synced, Upto, Bound, Chained

(* A change the group changes up to the bound wait for has been recorded. *)
LEMMA GroupChanges ==
  ASSUME IInv, NEW v \in Time
  PROVE  /\ changes[v] # None <=> v \in sent /\ script[v].kind \in {"move", "remove"}
         /\ changes[v] # None => changes[v].path = script[v].path
         /\ changes[v] # None /\ script[v].kind = "move"
              => changes[v].kind = "move" /\ changes[v].to = script[v].to
         /\ changes[v] # None /\ script[v].kind = "remove" => changes[v].kind = "delete"
         /\ v <= Bound /\ script[v].kind \in {"move", "remove"} => changes[v] # None
<1>1. Recorded /\ Synced /\ script \in Scripts
  BY DEF IInv
<1>2. script[v].kind = "move" => script[v].path \in Path /\ script[v].to \in Path
  BY <1>1, ScriptFacts
<1>3. script[v].kind = "remove" => script[v].path \in Path
  BY <1>1, ScriptFacts
<1>4. script[v].kind = "move" =>
        [kind |-> "move", path |-> script[v].path, to |-> script[v].to] # None
  BY <1>2, NoneAssumption DEF Change
<1>5. script[v].kind = "remove" =>
        [kind |-> "delete", path |-> script[v].path, to |-> script[v].path] # None
  BY <1>3, NoneAssumption DEF Change
<1>6. changes[v] = IF v \in sent /\ script[v].kind = "move"
                   THEN [kind |-> "move", path |-> script[v].path, to |-> script[v].to]
                   ELSE IF v \in sent /\ script[v].kind = "remove"
                   THEN [kind |-> "delete", path |-> script[v].path, to |-> script[v].path]
                   ELSE None
  BY <1>1 DEF Recorded
<1>7. v <= Bound /\ script[v].kind \in {"move", "remove"} => v \in sent
  BY <1>1 DEF Synced
<1> QED BY <1>4, <1>5, <1>6, <1>7

(* A path is not used again before what vacated it has been carried out. *)
LEMMA Settled ==
  ASSUME IInv, NEW p \in Path, NEW b \in Time, NEW v \in Time,
         Table[<<p, b>>] # None, Starts(script, b, p), v < b, Vacates(script[v], p)
  PROVE  v <= Upto
<1>1. v \in Nat /\ b \in Nat /\ Upto \in Nat /\ lastSync \in Nat /\ lastSync <= Upto
  BY Stamps, InvFacts
<1>2. CASE script[b].kind = "create" /\ script[b].path = p
  <2>1. b \in sent /\ Ready(b)
    BY DEF IInv, Arrived, InTurn
  <2>2. Touches(script[b], v)
    BY <1>2 DEF Touches, Quiet
  <2>3. v < lastSync
    BY <2>1, <2>2 DEF Ready
  <2> QED BY <1>1, <2>3
<1>3. CASE \E o \in Path : Lands(script, b, o, p)
  <2>1. script[b].kind = "move"
    BY <1>3 DEF Lands
  <2>2. b <= Upto
    BY <2>1, InvFacts DEF Places
  <2> QED BY <1>1, <2>2
<1> QED BY <1>2, <1>3 DEF Starts

(* If a version is older than another start of its path, it has been vacated. *)
LEMMA Between ==
  ASSUME NEW s \in Scripts, NEW p \in Path, NEW l \in Time, NEW b \in Time,
         Directory(s)[l][p] # None, l < b, Directory(s)[b - 1][p] = None
  PROVE  \E v \in Time : l < v /\ v < b /\ v <= b - 1 /\ Vacates(s[v], p)
<1>1. l \in 0..Last /\ b - 1 \in 0..Last /\ l <= b - 1 /\ b \in Nat
  BY Stamps
<1>2. Vacated(s, p, l, b - 1)
  BY <1>1, Stays
<1>3. PICK v \in Time : l < v /\ v <= b - 1 /\ Vacates(s[v], p)
  BY <1>2 DEF Vacated
<1>4. v \in Nat
  BY Stamps
<1>5. v < b
  BY <1>1, <1>3, <1>4
<1> QED BY <1>3, <1>5

(* A creation finds nothing live, and no version later than its own. *)
LEMMA CreateFresh ==
  ASSUME IInv, NEW p \in Path, NEW t \in Time, script[t].kind = "create", script[t].path = p,
         t \notin sent, Ready(t),
         NEW r \in Time, Table[<<p, r>>] # None
  PROVE  r < t /\ Vacated(script, p, r, Upto)
<1> PICK s, T : s = script /\ T = Table
  OBVIOUS
<1>1. s \in Scripts /\ T \in Tables /\ Chained(s, T, Upto) /\ Places(s, T, Upto)
  BY InvFacts
<1>2. t \in Nat /\ r \in Nat /\ Upto \in Nat /\ lastSync \in Nat /\ lastSync <= Upto
      /\ Bound \in Nat /\ Upto <= Bound
  BY Stamps, InvFacts
<1>3. PICK b \in Time : /\ b <= r /\ Starts(s, b, p) /\ T[<<p, b>>] # None
                        /\ ~Vacated(s, p, b, r)
  BY <1>1, VersionFacts
<1>4. b \in Nat /\ Directory(s)[b][p] # None /\ Directory(s)[b - 1][p] = None
  BY <1>1, <1>3, Steps, Stamps
<1>5. Starts(s, t, p) /\ Directory(s)[t][p] # None /\ Directory(s)[t - 1][p] = None
  <2>1. Starts(s, t, p)
    BY DEF Starts
  <2> QED BY <1>1, <2>1, Steps
<1>6. t > Upto
  <2>1. t <= Bound => t \in sent
    BY DEF IInv, Synced
  <2> QED BY <1>2, <2>1
<1>7. b # t
  BY <1>3 DEF IInv, Arrived
<1>8. ~(t < b)
  <2>1. SUFFICES ASSUME t < b PROVE FALSE
    OBVIOUS
  <2>2. PICK v \in Time : t < v /\ v < b /\ Vacates(s[v], p)
    BY <1>1, <1>4, <1>5, <2>1, Between
  <2>3. v <= Upto /\ v \in Nat
    BY <1>3, <2>2, Settled, Stamps
  <2> QED BY <1>2, <1>6, <2>2, <2>3
<1>9. PICK v \in Time : b < v /\ v < t /\ v <= t - 1 /\ Vacates(s[v], p)
  <2>1. b < t
    BY <1>2, <1>4, <1>7, <1>8
  <2> QED BY <1>1, <1>4, <1>5, <2>1, Between
<1>10. v \in Nat /\ ~(v <= r)
  BY <1>3, <1>9, Stamps DEF Vacated
<1>11. Touches(script[t], v)
  BY <1>9 DEF Touches, Quiet
<1>12. v < lastSync
  BY <1>9, <1>11 DEF Ready
<1>13. r < v /\ v <= Upto /\ r < t
  BY <1>2, <1>9, <1>10, <1>12
<1> QED BY <1>9, <1>13 DEF Vacated

(* The start of the file a write goes to is in the store. *)
LEMMA WriteFounded ==
  ASSUME IInv, NEW p \in Path, NEW t \in Time, script[t].kind = "write", script[t].path = p,
         t \notin sent, Ready(t), Idle, Superseded(p, t) \/ Live(p)
  PROVE  \E b \in Time : /\ b < t /\ Starts(script, b, p) /\ Table[<<p, b>>] # None
                         /\ ~Vacated(script, p, b, t)
<1> PICK s, T : s = script /\ T = Table
  OBVIOUS
<1>1. s \in Scripts /\ T \in Tables /\ Chained(s, T, Upto) /\ Places(s, T, Upto)
      /\ Carried(s, T, Upto)
  BY InvFacts
<1>2. t \in Nat /\ Upto \in Nat /\ lastSync = Upto /\ Bound = Upto /\ t - 1 \in 0..Last
  BY Stamps, InvFacts
<1>3. Directory(s)[t - 1][p] # None
  BY <1>1, Steps
<1>4. PICK b \in Time : b <= t - 1 /\ Starts(s, b, p) /\ ~Vacated(s, p, b, t - 1)
  BY <1>1, <1>2, <1>3, HasStart
<1>5. b \in Nat /\ b < t
  BY <1>2, <1>4, Stamps
<1>6. ~Vacated(s, p, b, t)
  <2>1. \A v \in Nat : v <= t => v = t \/ v <= t - 1
    BY <1>2
  <2>2. ~Vacates(s[t], p)
    BY DEF Vacates
  <2> QED BY <1>4, <2>1, <2>2, Stamps DEF Vacated
<1>7. Directory(s)[b][p] # None /\ Directory(s)[b - 1][p] = None
  BY <1>1, <1>4, Steps
<1>8. b <= Upto => T[<<p, b>>] # None
  <2>1. CASE s[b].kind = "create" /\ s[b].path = p
    BY <1>2, <2>1 DEF IInv, Synced, Arrived
  <2>2. ASSUME NEW o \in Path, Lands(s, b, o, p), b <= Upto PROVE T[<<p, b>>] # None
    <3>1. Carried(s, T, Upto)
      BY <1>1
    <3>2. PICK l \in Time : LastOf(T, o, l, b) /\ T[<<p, b>>] = T[<<o, l>>]
      BY <2>2, <3>1 DEF Carried
    <3> QED BY <3>2 DEF LastOf
  <2> QED BY <1>4, <2>1, <2>2 DEF Starts
<1>9. CASE Superseded(p, t)
  <2>1. PICK u \in Time : u < lastSync /\ u > t
    BY <1>9 DEF Superseded, ChangesMade
  <2>2. u \in Nat
    BY Stamps
  <2>3. b <= Upto
    BY <1>2, <1>5, <2>1, <2>2
  <2> QED BY <1>4, <1>5, <1>6, <1>8, <2>3
<1>10. CASE ~Superseded(p, t) /\ Live(p)
  <2>1. PICK r \in Time : r = files[p].ts /\ T[<<p, r>>] # None
    BY <1>10, InvFacts, TableFacts
  <2>2. ~Vacated(s, p, r, Upto)
    BY <1>10, <2>1 DEF IInv, Standing
  <2>3. PICK c \in Time : /\ c <= r /\ Starts(s, c, p) /\ T[<<p, c>>] # None
                          /\ ~Vacated(s, p, c, r)
    BY <1>1, <2>1, VersionFacts
  <2>4. c \in Nat /\ r \in Nat /\ Directory(s)[c][p] # None /\ Directory(s)[c - 1][p] = None
    BY <1>1, <2>3, Steps, Stamps
  <2>5. ~(c < b)
    <3>1. SUFFICES ASSUME c < b PROVE FALSE
      OBVIOUS
    <3>2. PICK v \in Time : c < v /\ v < b /\ Vacates(s[v], p)
      BY <1>1, <1>7, <2>4, <3>1, Between
    <3>3. v \in Nat /\ ~(v <= r)
      BY <2>3, <3>2, Stamps DEF Vacated
    <3>4. v < t /\ r < v
      BY <1>2, <1>5, <2>4, <3>2, <3>3
    <3>5. Touches(script[t], v)
      BY <3>2 DEF Touches, Quiet
    <3>6. v < lastSync
      BY <3>4, <3>5 DEF Ready
    <3>7. v <= Upto
      BY <1>2, <3>3, <3>6
    <3> QED BY <2>2, <3>2, <3>4, <3>7 DEF Vacated
  <2>6. ~(b < c)
    <3>1. SUFFICES ASSUME b < c PROVE FALSE
      OBVIOUS
    <3>2. PICK v \in Time : b < v /\ v < c /\ Vacates(s[v], p)
      BY <1>1, <1>7, <2>4, <3>1, Between
    <3>3. v \in Nat /\ ~(v <= t)
      BY <1>6, <3>2, Stamps DEF Vacated
    <3>4. v <= Upto
      BY <2>3, <3>2, Settled
    <3>5. script[v].kind \in {"move", "remove"} /\ Covers(script[v].path, p)
      BY <3>2 DEF Vacates
    <3>6. v # lastSync
      BY <3>5 DEF IInv, Synced, Quiet
    <3>7. v < lastSync /\ v > t
      BY <1>2, <3>3, <3>4, <3>6
    <3>8. changes[v] # None /\ changes[v].path = script[v].path
      BY <1>2, <3>4, <3>5, GroupChanges
    <3> QED BY <1>10, <3>5, <3>7, <3>8 DEF Superseded, ChangesMade
  <2>7. b = c
    BY <1>5, <2>4, <2>5, <2>6
  <2> QED BY <1>4, <1>5, <1>6, <2>3, <2>7
<1> QED BY <1>9, <1>10

-----------------------------------------------------------------------------
(***************************************************************************)
(* Where the next group change to carry out finds the store.               *)
(***************************************************************************)
(* No rename or removal waits between what is carried out and t. *)
Turn(t) == Upto < t /\ \A v \in Time : Upto < v /\ v < t => script[v].kind \notin {"move", "remove"}

(* The next change due has no other waiting before it. *)
LEMMA NextIsDue ==
  ASSUME IInv, NEW t \in Time, ~Idle, NextDue(t)
  PROVE  /\ Turn(t) /\ t <= Bound /\ t \in sent /\ script[t].kind \in {"move", "remove"}
         /\ changes[t].path = script[t].path
<1>1. Upto = applying.done /\ Bound = applying.to /\ Upto \in Nat /\ Bound \in Nat /\ t \in Nat
      /\ Upto <= Bound
  BY InvFacts, Stamps
<1>2. changes[t] # None /\ Upto < t /\ t <= Bound
  BY <1>1 DEF NextDue, Due
<1>3. ASSUME NEW v \in Time, Upto < v, v < t, script[v].kind \in {"move", "remove"}
      PROVE  FALSE
  <2>1. v \in Nat
    BY Stamps
  <2>2. v <= Bound /\ ~(t <= v)
    BY <1>1, <1>2, <1>3, <2>1
  <2>3. changes[v] # None
    BY <1>3, <2>2, GroupChanges
  <2> QED BY <1>1, <1>3, <2>2, <2>3 DEF NextDue, Due
<1> QED BY <1>2, <1>3, GroupChanges DEF Turn

(* Nothing vacates a path meanwhile, or makes it a file by a rename. *)
LEMMA Quietly ==
  ASSUME IInv, NEW t \in Time, Turn(t), NEW p \in Path
  PROVE  /\ \A v \in Time : Upto < v /\ v < t => ~Vacates(script[v], p) /\ \A o \in Path : ~Lands(script, v, o, p)
         /\ \A r \in Time : Vacated(script, p, r, t - 1) => Vacated(script, p, r, Upto)
<1>1. \A v \in Time : Upto < v /\ v < t => ~Vacates(script[v], p) /\ \A o \in Path : ~Lands(script, v, o, p)
  BY DEF Turn, Vacates, Lands
<1>2. ASSUME NEW r \in Time, Vacated(script, p, r, t - 1)
      PROVE  Vacated(script, p, r, Upto)
  <2>1. PICK v \in Time : r < v /\ v <= t - 1 /\ Vacates(script[v], p)
    BY <1>2 DEF Vacated
  <2>2. v \in Nat /\ t \in Nat /\ Upto \in Nat
    BY Stamps, InvFacts
  <2>3. v < t
    BY <2>1, <2>2
  <2>4. v <= Upto
    BY <1>1, <2>1, <2>2, <2>3
  <2> QED BY <2>1, <2>4 DEF Vacated
<1> QED BY <1>1, <1>2

(* The older of the rows at t are the files of the directory before t. *)
LEMMA OlderArePresent ==
  ASSUME IInv, NEW t \in Time, Turn(t), NEW p \in Path, Live(p), files[p].ts < t
  PROVE  Directory(script)[t - 1][p] # None
<1> PICK s, T : s = script /\ T = Table
  OBVIOUS
<1>1. s \in Scripts /\ T \in Tables /\ Chained(s, T, Upto) /\ Places(s, T, Upto)
  BY InvFacts
<1>2. PICK r \in Time : r = files[p].ts /\ T[<<p, r>>] # None
  BY InvFacts, TableFacts
<1>3. Directory(s)[r][p] # None
  BY <1>1, <1>2, VersionFacts
<1>4. ~Vacated(s, p, r, Upto)
  BY <1>2 DEF IInv, Standing
<1>5. ~Vacated(s, p, r, t - 1)
  BY <1>4, Quietly
<1>6. r \in 0..Last /\ t - 1 \in 0..Last /\ r <= t - 1
  BY <1>2, Stamps
<1> QED BY <1>1, <1>3, <1>5, <1>6, Stays

(* A version later than a rename or a removal not yet carried out would use *)
(* the path it vacates too early.                                          *)
LEMMA PresentAreOlder ==
  ASSUME IInv, NEW t \in Time, Turn(t), t <= Bound,
         NEW p \in Path, Vacates(script[t], p), Directory(script)[t - 1][p] # None
  PROVE  Live(p) /\ files[p].ts < t
<1> PICK s, T : s = script /\ T = Table
  OBVIOUS
<1>1. s \in Scripts /\ T \in Tables /\ Chained(s, T, Upto) /\ Places(s, T, Upto)
      /\ Carried(s, T, Upto)
  BY InvFacts
<1>2. t \in Nat /\ t - 1 \in 0..Last /\ Upto \in Nat /\ Bound \in Nat /\ Upto < t
  BY Stamps, InvFacts DEF Turn
<1>3. PICK b \in Time : b <= t - 1 /\ Starts(s, b, p) /\ ~Vacated(s, p, b, t - 1)
  BY <1>1, <1>2, HasStart
<1>4. b \in Nat
  BY Stamps
<1>5. T[<<p, b>>] # None
  <2>1. CASE s[b].kind = "create" /\ s[b].path = p
    <3>1. b <= Bound
      BY <1>2, <1>3, <1>4
    <3> QED BY <2>1, <3>1 DEF IInv, Synced, Arrived
  <2>2. ASSUME NEW o \in Path, Lands(s, b, o, p) PROVE T[<<p, b>>] # None
    <3>1. ~(Upto < b /\ b < t)
      BY <2>2, Quietly
    <3>2. b <= Upto
      BY <1>2, <1>3, <1>4, <3>1
    <3>3. PICK l \in Time : LastOf(T, o, l, b) /\ T[<<p, b>>] = T[<<o, l>>]
      BY <1>1, <2>2, <3>2 DEF Carried
    <3> QED BY <3>3 DEF LastOf
  <2> QED BY <1>3, <2>1, <2>2 DEF Starts
<1>6. Live(p)
  <2>1. SUFFICES ASSUME ~Live(p) PROVE FALSE
    OBVIOUS
  <2>2. Vacated(s, p, b, Upto)
    BY <1>5, <2>1 DEF IInv, Standing
  <2>3. \A v \in Nat : v <= Upto => v <= t - 1
    BY <1>2
  <2> QED BY <1>3, <2>2, <2>3, Stamps DEF Vacated
<1>7. PICK r \in Time : r = files[p].ts /\ T[<<p, r>>] # None
  BY <1>6, InvFacts, TableFacts
<1>8. r < t
  <2>1. SUFFICES ASSUME ~(r < t) PROVE FALSE
    BY <1>7
  <2>2. PICK c \in Time : /\ c <= r /\ Starts(s, c, p) /\ T[<<p, c>>] # None
                          /\ ~Vacated(s, p, c, r)
    BY <1>1, <1>7, VersionFacts
  <2>3. c \in Nat /\ r \in Nat /\ c # t
    BY <1>1, <2>2, Steps, Stamps
  <2>4. ~(c < t)
    BY <1>2, <2>1, <2>2, <2>3 DEF Vacated
  <2>5. t <= Upto
    BY <1>2, <2>2, <2>3, <2>4, Settled
  <2> QED BY <1>2, <2>5
<1> QED BY <1>6, <1>7, <1>8

(* A rename finds nothing where it takes a file. *)
LEMMA NothingInTheWay ==
  ASSUME IInv, NEW t \in Time, Turn(t), NEW o \in Path, NEW q \in Path, Lands(script, t, o, q)
  PROVE  ~Live(q) /\ Table[<<q, t>>] = None
<1> PICK s, T : s = script /\ T = Table
  OBVIOUS
<1>1. s \in Scripts /\ T \in Tables /\ Chained(s, T, Upto) /\ Places(s, T, Upto)
  BY InvFacts
<1>2. t \in Nat /\ t - 1 \in 0..Last /\ Upto \in Nat /\ Upto < t
  BY Stamps, InvFacts DEF Turn
<1>3. Starts(s, t, q) /\ Directory(s)[t - 1][q] = None /\ Directory(s)[t][q] # None
  <2>1. Starts(s, t, q)
    BY DEF Starts
  <2> QED BY <1>1, <2>1, Steps
<1>4. T[<<q, t>>] = None
  <2>1. s[t].kind = "move" /\ ~(t <= Upto)
    BY <1>2 DEF Lands
  <2> QED BY <1>1, <2>1 DEF Places
<1>5. ASSUME Live(q) PROVE FALSE
  <2>1. PICK r \in Time : r = files[q].ts /\ T[<<q, r>>] # None
    BY <1>5, InvFacts, TableFacts
  <2>2. ~(r < t)
    BY <1>3, <1>5, <2>1, OlderArePresent
  <2>3. PICK c \in Time : /\ c <= r /\ Starts(s, c, q) /\ T[<<q, c>>] # None
                          /\ ~Vacated(s, q, c, r)
    BY <1>1, <2>1, VersionFacts
  <2>4. c \in Nat /\ r \in Nat /\ c # t /\ Directory(s)[c][q] # None
        /\ Directory(s)[c - 1][q] = None
    BY <1>1, <1>4, <2>3, Steps, Stamps
  <2>5. CASE c < t
    <3>1. PICK v \in Time : c < v /\ v < t /\ Vacates(s[v], q)
      BY <1>1, <1>3, <2>4, <2>5, Between
    <3>2. v \in Nat
      BY Stamps
    <3>3. v <= r
      BY <1>2, <2>2, <2>4, <3>1, <3>2
    <3> QED BY <2>3, <3>1, <3>3 DEF Vacated
  <2>6. CASE t < c
    <3>1. PICK v \in Time : t < v /\ v < c /\ Vacates(s[v], q)
      BY <1>1, <1>3, <2>4, <2>6, Between
    <3>2. v <= Upto /\ v \in Nat
      BY <2>3, <3>1, Settled, Stamps
    <3> QED BY <1>2, <3>1, <3>2
  <2> QED BY <1>2, <2>4, <2>5, <2>6
<1> QED BY <1>4, <1>5

-----------------------------------------------------------------------------
(***************************************************************************)
(* The end of the day.                                                     *)
(***************************************************************************)
(* A write at w after l that the table T does not hold. *)
Unstored(s, T, p, l, w, n) ==
  /\ l < w /\ w <= n /\ s[w].kind = "write" /\ s[w].path = p /\ T[<<p, w>>] = None
  /\ ~Vacated(s, p, w, n)

Shown(s, T, p, n) ==
  \E l \in Time :
    /\ LastOf(T, p, l, n + 1) /\ ~Vacated(s, p, l, n)
    /\ T[<<p, l>>] = Directory(s)[n][p] \/ \E w \in Time : Unstored(s, T, p, l, w, n)

AllMerged(s, T) ==
  \A t \in Time : s[t].kind = "write" /\ T[<<s[t].path, t>>] = None =>
    \E u \in Time : /\ t < u /\ s[u] = s[t] /\ ~Vacated(s, s[t].path, t, u)
                    /\ T[<<s[u].path, u>>] # None

AllCreated(s, T) ==
  \A t \in Time : s[t].kind = "create" => T[<<s[t].path, t>>] # None

(* When all is in the store, the last version of every file of the directory has
   its content, or an older one if a write merged into a later one is missing. *)
LEMMA DirectoryShown ==
  ASSUME NEW s \in Scripts, NEW T \in Tables, Chained(s, T, Last),
         AllMerged(s, T), AllCreated(s, T),
         NEW m \in 0..Last, NEW q \in Path, Directory(s)[m][q] # None
  PROVE  Shown(s, T, q, m)
<1> DEFINE Bad == {n \in 0..Last : \E p \in Path : Directory(s)[n][p] # None /\ ~Shown(s, T, p, n)}
<1> SUFFICES ASSUME Bad # {} PROVE FALSE
  OBVIOUS
<1>1. PICK n \in Bad : \A k \in Bad : n <= k
  <2> HIDE DEF Bad
  <2>1. Bad \subseteq Nat
    BY Stamps DEF Bad
  <2> QED BY <2>1, Least
<1>2. PICK p \in Path : Directory(s)[n][p] # None /\ ~Shown(s, T, p, n)
  BY <1>1
<1>3. n # 0
  BY <1>2, DirectoryGrows
<1>4. n \in Time /\ n \in Nat /\ n - 1 \in 0..Last /\ ~(n <= n - 1) /\ n - 1 + 1 = n /\ n <= Last
  BY <1>1, <1>3, Stamps
<1>5. \A o \in Path : Directory(s)[n - 1][o] # None => Shown(s, T, o, n - 1)
  BY <1>1, <1>4
<1> HIDE DEF Bad
<1>6. ~Vacates(s[n], p)
  BY <1>2, <1>4, Steps
<1>7. \A k \in Nat : k <= n => k = n \/ k <= n - 1
  BY <1>4
<1>8. ~Vacated(s, p, n, n)
  BY <1>4, Stamps DEF Vacated
<1>9. ASSUME T[<<p, n>>] = Directory(s)[n][p]
      PROVE  FALSE
  <2>1. \A u \in Nat : ~(n < u /\ u < n + 1) /\ n < n + 1
    BY <1>4
  <2>2. LastOf(T, p, n, n + 1)
    BY <1>2, <1>4, <1>9, <2>1, Stamps DEF LastOf
  <2> QED BY <1>2, <1>4, <1>8, <1>9, <2>2 DEF Shown
<1>10. CASE s[n].kind = "create" /\ s[n].path = p
  <2>1. T[<<p, n>>] # None
    BY <1>4, <1>10 DEF AllCreated
  <2>2. T[<<p, n>>] = CreateId(n)
    BY <1>4, <1>10, <2>1 DEF Chained, Places, Lands
  <2>3. Directory(s)[n][p] = CreateId(n)
    BY <1>4, <1>10, Steps
  <2> QED BY <1>9, <2>2, <2>3
<1>11. ASSUME NEW o \in Path, Lands(s, n, o, p) PROVE FALSE
  <2>1. Directory(s)[n][p] = Directory(s)[n - 1][o]
    BY <1>4, <1>11, Steps
  <2>2. PICK l \in Time : /\ LastOf(T, o, l, n) /\ ~Vacated(s, o, l, n - 1)
                          /\ T[<<p, n>>] = T[<<o, l>>]
    BY <1>4, <1>11 DEF Chained, Carried
  <2>3. PICK k \in Time :
          /\ LastOf(T, o, k, n)
          /\ T[<<o, k>>] = Directory(s)[n - 1][o] \/ \E w \in Time : Unstored(s, T, o, k, w, n - 1)
    BY <1>2, <1>4, <1>5, <2>1 DEF Shown
  <2>4. k = l
    BY <2>2, <2>3, OneLast
  <2>5. ~(T[<<o, k>>] = Directory(s)[n - 1][o])
    BY <1>9, <2>1, <2>2, <2>4
  <2>6. PICK w \in Time : Unstored(s, T, o, k, w, n - 1)
    BY <2>3, <2>5
  <2>7. /\ k < w /\ w <= n - 1 /\ s[w].kind = "write" /\ s[w].path = o /\ T[<<o, w>>] = None
        /\ w \in Nat /\ k \in Nat /\ w < n
    BY <1>4, <2>6, Stamps DEF Unstored
  <2>8. PICK u \in Time : /\ w < u /\ s[u] = s[w] /\ ~Vacated(s, o, w, u) /\ T[<<o, u>>] # None
    <3>1. w \in Time /\ s[w].kind = "write" /\ T[<<s[w].path, w>>] = None
      BY <2>7
    <3>2. PICK u \in Time :
            /\ w < u /\ s[u] = s[w] /\ ~Vacated(s, s[w].path, w, u)
            /\ T[<<s[u].path, u>>] # None
      BY <3>1 DEF AllMerged
    <3> QED BY <2>7, <3>2
  <2>9. u \in Nat
    BY Stamps
  <2>10. ~(u < n)
    <3>1. k < u
      BY <2>7, <2>8, <2>9
    <3> QED BY <2>3, <2>8, <3>1 DEF LastOf
  <2>11. Vacates(s[n], o) /\ s[n].kind = "move"
    BY <1>11 DEF Lands, Vacates
  <2>12. n <= u
    BY <1>4, <2>9, <2>10
  <2> QED BY <1>4, <2>7, <2>8, <2>11, <2>12 DEF Vacated
<1>12. CASE ~Starts(s, n, p)
  <2>1. Directory(s)[n - 1][p] # None
    BY <1>2, <1>4, <1>6, <1>12, Steps
  <2>2. PICK l \in Time :
          /\ LastOf(T, p, l, n) /\ ~Vacated(s, p, l, n - 1)
          /\ T[<<p, l>>] = Directory(s)[n - 1][p] \/ \E w \in Time : Unstored(s, T, p, l, w, n - 1)
    BY <1>4, <1>5, <2>1 DEF Shown
  <2>3. \A w \in Time : ~Vacated(s, p, w, n - 1) => ~Vacated(s, p, w, n)
    BY <1>6, <1>7, Stamps DEF Vacated
  <2>4. T[<<p, n>>] # None => s[n].kind = "write" /\ s[n].path = p /\ T[<<p, n>>] = WriteId(p, n)
    BY <1>4, <1>12 DEF Chained, Places, Starts
  <2>5. T[<<p, n>>] = None
    BY <1>4, <1>9, <2>4, Steps
  <2>6. l < n /\ l \in Nat /\ T[<<p, l>>] # None
    BY <2>2, Stamps DEF LastOf
  <2>7. LastOf(T, p, l, n + 1)
    <3>1. \A u \in Nat : u < n + 1 => u < n \/ u = n
      BY <1>4
    <3>2. l < n + 1
      BY <1>4, <2>6
    <3> QED BY <2>2, <2>5, <2>6, <3>1, <3>2, Stamps DEF LastOf
  <2>8. CASE s[n].kind = "write" /\ s[n].path = p
    <3>1. n <= n
      BY <1>4
    <3>2. Unstored(s, T, p, l, n, n)
      BY <1>8, <2>5, <2>6, <2>8, <3>1 DEF Unstored
    <3> QED BY <1>2, <1>4, <2>2, <2>3, <2>7, <3>2 DEF Shown
  <2>9. CASE ~(s[n].kind = "write" /\ s[n].path = p)
    <3>1. Directory(s)[n][p] = Directory(s)[n - 1][p]
      BY <1>4, <1>6, <1>12, <2>9, Steps
    <3>2. \A w \in Nat : w <= n - 1 => w <= n
      BY <1>4
    <3>3. \A w \in Time : Unstored(s, T, p, l, w, n - 1) => Unstored(s, T, p, l, w, n)
      BY <2>3, <3>2, Stamps DEF Unstored
    <3> QED BY <1>2, <2>2, <2>3, <2>7, <3>1, <3>3 DEF Shown
  <2> QED BY <2>8, <2>9
<1> QED BY <1>10, <1>11, <1>12 DEF Starts

(* At the end everything is in the store, save writes merged away. *)
LEMMA AllStored ==
  ASSUME IInv, Done
  PROVE  /\ script \in Scripts /\ Table \in Tables /\ TypeOK /\ Upto = Last
         /\ Chained(script, Table, Last) /\ Places(script, Table, Last)
         /\ AllCreated(script, Table) /\ AllMerged(script, Table)
<1> PICK s, T : s = script /\ T = Table
  OBVIOUS
<1>1. /\ s \in Scripts /\ T \in Tables /\ Chained(s, T, Last) /\ Places(s, T, Last) /\ TypeOK
      /\ Upto = Last /\ Last \in Nat /\ Last \in 0..Last
  BY InvFacts, Stamps DEF Done
<1>2. \A t \in Time : s[t].kind # "quiet" => t \in sent
  BY <1>1, ScriptFacts DEF Done, Quiet
<1>3. AllCreated(s, T)
  BY <1>2 DEF AllCreated, IInv, Arrived
<1>4. AllMerged(s, T)
  <2>1. SUFFICES ASSUME NEW t \in Time, s[t].kind = "write", T[<<s[t].path, t>>] = None
                 PROVE  \E u \in Time : /\ t < u /\ s[u] = s[t] /\ ~Vacated(s, s[t].path, t, u)
                                        /\ T[<<s[u].path, u>>] # None
    BY DEF AllMerged
  <2>2. t \in sent
    BY <1>2, <2>1
  <2>3. PICK u \in Time : /\ t < u /\ s[u] = s[t] /\ ~Vacated(s, s[t].path, t, u)
                          /\ u \in sent => T[<<s[u].path, u>>] # None
    BY <2>1, <2>2 DEF IInv, Merged
  <2>4. u \in sent
    BY <1>2, <2>1, <2>3
  <2> QED BY <2>3, <2>4
<1> QED BY <1>1, <1>3, <1>4

(* So that what is live at the end is the directory. *)
LEMMA EndConverged == DayInv => Converged
<1> SUFFICES ASSUME IInv, Done, NEW p \in Path PROVE Content(p) = Directory(script)[Last][p]
  BY DEF DayInv, Converged
<1> PICK s, T : s = script /\ T = Table
  OBVIOUS
<1>1. /\ s \in Scripts /\ T \in Tables /\ Chained(s, T, Last) /\ Places(s, T, Last) /\ TypeOK
      /\ Upto = Last
  BY AllStored
<1>2. Last \in Nat /\ Last \in 0..Last
  BY Stamps
<1>3. AllCreated(s, T)
  BY AllStored
<1>4. AllMerged(s, T)
  BY AllStored
<1>5. \A u \in Time : u \in Nat /\ u <= Last /\ u < Last + 1
  BY Stamps
<1>6. CASE Directory(s)[Last][p] # None
  <2>1. PICK l \in Time :
          /\ LastOf(T, p, l, Last + 1) /\ ~Vacated(s, p, l, Last)
          /\ T[<<p, l>>] = Directory(s)[Last][p] \/ \E w \in Time : Unstored(s, T, p, l, w, Last)
    BY <1>1, <1>2, <1>3, <1>4, <1>6, DirectoryShown DEF Shown
  <2>2. ASSUME NEW w \in Time, Unstored(s, T, p, l, w, Last) PROVE FALSE
    <3>1. l < w /\ s[w].kind = "write" /\ s[w].path = p /\ T[<<p, w>>] = None
      BY <2>2 DEF Unstored
    <3>2. PICK u \in Time : w < u /\ s[u] = s[w] /\ T[<<s[u].path, u>>] # None
      BY <1>4, <3>1 DEF AllMerged
    <3>3. l < u /\ u < Last + 1
      BY <1>5, <3>1, <3>2
    <3> QED BY <2>1, <3>1, <3>2, <3>3 DEF LastOf
  <2>3. T[<<p, l>>] = Directory(s)[Last][p]
    BY <2>1, <2>2
  <2>4. T[<<p, l>>] # None /\ l \in Nat
    BY <1>5, <2>1 DEF LastOf
  <2>5. Live(p)
    BY <1>1, <2>1, <2>4 DEF IInv, Standing
  <2>6. l <= files[p].ts
    BY <2>4, <2>5 DEF IInv, Standing
  <2>7. files[p].ts \in Time /\ T[<<p, files[p].ts>>] = files[p].id /\ files[p].id # None
    BY <1>1, <2>5, TableFacts
  <2>8. ~(l < files[p].ts)
    BY <1>5, <2>1, <2>7 DEF LastOf
  <2>9. l = files[p].ts
    <3>1. files[p].ts \in Nat
      BY <1>5, <2>7
    <3> QED BY <2>4, <2>6, <2>8, <3>1
  <2> QED BY <2>3, <2>5, <2>7, <2>9 DEF Content
<1>7. CASE Directory(s)[Last][p] = None
  <2>1. ASSUME Live(p) PROVE FALSE
    <3>1. PICK r \in Time : r = files[p].ts /\ T[<<p, r>>] # None
      BY <1>1, <2>1, TableFacts
    <3>2. Directory(s)[r][p] # None
      BY <1>1, <3>1, VersionFacts
    <3>3. ~Vacated(s, p, r, Last)
      BY <1>1, <2>1, <3>1 DEF IInv, Standing
    <3>4. r \in 0..Last /\ r <= Last
      BY <1>5
    <3> QED BY <1>1, <1>2, <1>7, <3>2, <3>3, <3>4, Stays
  <2> QED BY <1>7, <2>1 DEF Content
<1> QED BY <1>6, <1>7

(* What a client can ask for is the table, once no apply is on its way. *)
LEMMA CanAskFor ==
  ASSUME IInv, Idle, NEW p \in Path, NEW t \in Time
  PROVE  /\ <<p, t>> \in Retrievable <=> Table[<<p, t>>] # None
         /\ Table[<<p, t>>] # None => Version(p, t) = {Table[<<p, t>>]}
<1>1. TypeOK
  BY DEF IInv
<1>2. Version(p, t) = ({history[<<p, t>>]} \ {None})
                        \cup (IF Live(p) /\ files[p].ts = t THEN {files[p].id} ELSE {})
  BY DEF Version, Sync, CommittedHistory, CommittedFiles, Live
<1>3. Version(p, t) = {Table[<<p, t>>]} \ {None}
  <2>1. CASE Live(p) /\ files[p].ts = t
    <3>1. history[<<p, t>>] = None
      BY <2>1 DEF IInv, Standing
    <3>2. Table[<<p, t>>] = files[p].id /\ files[p].id # None
      BY <1>1, <2>1, TableFacts
    <3> QED BY <1>2, <2>1, <3>1, <3>2
  <2>2. CASE ~(Live(p) /\ files[p].ts = t)
    <3>1. Table[<<p, t>>] = history[<<p, t>>]
      BY <1>1, <2>2, TableFacts
    <3> QED BY <1>2, <2>2, <3>1
  <2> QED BY <2>1, <2>2
<1> QED BY <1>3 DEF Retrievable

(* And so are the versions, at every moment of the day. *)
LEMMA EndRestorable == DayInv => PastRestorable
<1> SUFFICES ASSUME IInv, Done, NEW m \in Time, NEW p \in Path, Directory(script)[m][p] # None
             PROVE  \E t \in Time :
                      /\ t <= m /\ <<p, t>> \in Retrievable
                      /\ \A u \in Time : t < u /\ u <= m => <<p, u>> \notin Retrievable
                      /\ \/ Version(p, t) = {Directory(script)[m][p]}
                         \/ \E w \in Time : t < w /\ w <= m /\ MergedAway(p, w)
  BY DEF DayInv, PastRestorable
<1> PICK s, T : s = script /\ T = Table
  OBVIOUS
<1>1. /\ s \in Scripts /\ T \in Tables /\ Chained(s, T, Last)
      /\ AllCreated(s, T) /\ AllMerged(s, T)
  BY AllStored
<1>2. m \in 0..Last /\ \A u \in Time : u \in Nat /\ (u <= m <=> u < m + 1)
  BY Stamps
<1>3. \A u \in Time : /\ <<p, u>> \in Retrievable <=> T[<<p, u>>] # None
                      /\ T[<<p, u>>] # None => Version(p, u) = {T[<<p, u>>]}
  BY CanAskFor DEF Done
<1>4. PICK t \in Time :
        /\ LastOf(T, p, t, m + 1)
        /\ T[<<p, t>>] = Directory(s)[m][p] \/ \E w \in Time : Unstored(s, T, p, t, w, m)
  BY <1>1, <1>2, DirectoryShown DEF Shown
<1>5. /\ t <= m /\ <<p, t>> \in Retrievable
      /\ \A u \in Time : t < u /\ u <= m => <<p, u>> \notin Retrievable
  BY <1>2, <1>3, <1>4 DEF LastOf
<1>6. ASSUME NEW w \in Time, Unstored(s, T, p, t, w, m)
      PROVE  t < w /\ w <= m /\ MergedAway(p, w)
  <2>1. t < w /\ w <= m /\ s[w].kind = "write" /\ s[w].path = p /\ T[<<p, w>>] = None
    BY <1>6 DEF Unstored
  <2>2. T[<<s[w].path, w>>] = None
    BY <2>1
  <2>3. PICK u \in Time : w < u /\ s[u] = s[w] /\ T[<<s[u].path, u>>] # None
    BY <1>1, <2>1, <2>2 DEF AllMerged
  <2>4. T[<<p, u>>] # None
    BY <2>1, <2>3
  <2> QED BY <1>3, <2>1, <2>3, <2>4 DEF MergedAway
<1>7. CASE T[<<p, t>>] = Directory(s)[m][p]
  <2>1. Version(p, t) = {Directory(s)[m][p]}
    BY <1>3, <1>4, <1>7 DEF LastOf
  <2> QED BY <1>5, <2>1
<1>8. CASE \E w \in Time : Unstored(s, T, p, t, w, m)
  BY <1>5, <1>6, <1>8
<1> QED BY <1>4, <1>7, <1>8

-----------------------------------------------------------------------------
(***************************************************************************)
(* Every step keeps the invariant.                                         *)
(***************************************************************************)
(* Every step of the day is one of the store, or leaves it alone. *)
LEMMA DeliveryStepsStore ==
  ASSUME script \in Scripts, [DeliveryNext]_deliveryVars
  PROVE  [Next]_vars
<1>1. script \in Scripts
  OBVIOUS
<1>2. ASSUME NEW t \in Time, Deliver(t)
      PROVE  Next
  <2>1. Send(script[t], t) /\ script[t].kind \in {"create", "write", "remove", "move", "quiet"}
    BY <1>1, <1>2, ScriptFacts DEF Deliver
  <2>2. script[t].kind # "quiet" => script[t].path \in Path
    BY <1>1, ScriptFacts
  <2>3. script[t].kind = "move" => <<script[t].path, script[t].to>> \in Moves
    BY <1>1, ScriptFacts
  <2>4. CASE script[t].kind = "create"
    BY <2>1, <2>2, <2>4 DEF Send, Next
  <2>5. CASE script[t].kind = "write"
    BY <2>1, <2>2, <2>5 DEF Send, Next
  <2>6. CASE script[t].kind = "remove"
    BY <2>1, <2>2, <2>6 DEF Send, Next
  <2>7. CASE script[t].kind = "move"
    <3>1. Move(script[t].path, script[t].to, t)
      BY <2>1, <2>7 DEF Send
    <3>2. PICK m \in Moves : m = <<script[t].path, script[t].to>>
      BY <2>3, <2>7
    <3>3. Move(m[1], m[2], t)
      BY <3>1, <3>2
    <3> QED BY <3>3 DEF Next
  <2>8. script[t].kind # "quiet"
    BY <2>1 DEF Send
  <2> QED BY <2>1, <2>4, <2>5, <2>6, <2>7, <2>8
<1>3. ASSUME NEW t \in Time, Absorb(t)
      PROVE  UNCHANGED vars
  BY <1>3 DEF Absorb
<1>4. ASSUME NEW t \in Time, Apply(t)
      PROVE  Next
  BY <1>4 DEF Apply, Next
<1>5. CASE StoreStep
  BY <1>5 DEF StoreStep, Next
<1>6. CASE UNCHANGED deliveryVars
  BY <1>6 DEF deliveryVars, vars
<1> QED BY <1>2, <1>3, <1>4, <1>5, <1>6 DEF DeliveryNext

LEMMA DeliveryStepType ==
  ASSUME IInv, [DeliveryNext]_deliveryVars
  PROVE  TypeOK'
BY DeliveryStepsStore, StepType DEF IInv

(* An APPLY out of order is not forgotten. *)
LEMMA DisorderStays ==
  ASSUME script \in Scripts, [DeliveryNext]_deliveryVars
  PROVE  /\ script' \in Scripts
         /\ orderly' => orderly /\ \A t \in Time : Apply(t) => InOrder(t)
<1>1. ASSUME NEW t \in Time, Deliver(t) \/ Absorb(t)
      PROVE  UNCHANGED <<script, orderly>>
  BY <1>1 DEF Deliver, Absorb, Acknowledge
<1>2. ASSUME NEW t \in Time, Apply(t)
      PROVE  script' = script /\ (orderly' => orderly /\ InOrder(t))
  BY <1>2 DEF Apply, Acknowledge
<1>3. CASE StoreStep \/ UNCHANGED deliveryVars
  BY <1>2, <1>3 DEF StoreStep, deliveryVars
<1>4. CASE \E t \in Time : Deliver(t) \/ Absorb(t) \/ Apply(t)
  BY <1>1, <1>2, <1>4
<1> QED BY <1>3, <1>4 DEF DeliveryNext

(* The script stays, and what was sent stays sent. *)
LEMMA Scripted ==
  ASSUME IInv, [DeliveryNext]_deliveryVars
  PROVE  script' = script /\ script' \in Scripts /\ sent' \subseteq Time /\ sent \subseteq sent'
<1>1. script \in Scripts /\ sent \subseteq Time
  BY DEF IInv
<1>2. script' = script /\ (sent' = sent \/ \E t \in Time : sent' = sent \cup {t})
  <2>1. ASSUME NEW t \in Time, Acknowledge(t)
        PROVE  script' = script /\ sent' = sent \cup {t}
    BY <2>1 DEF Acknowledge
  <2>2. CASE \E t \in Time : Deliver(t) \/ Absorb(t) \/ Apply(t)
    BY <2>1, <2>2 DEF Deliver, Absorb, Apply
  <2>3. CASE StoreStep
    BY <2>3 DEF StoreStep
  <2>4. CASE UNCHANGED deliveryVars
    BY <2>4 DEF deliveryVars
  <2> QED BY <2>2, <2>3, <2>4 DEF DeliveryNext
<1> QED BY <1>1, <1>2

(* Readiness, once there, stays. *)
LEMMA StaysReady ==
  ASSUME script' = script, sent \subseteq sent', lastSync' \in Nat, lastSync \in Nat,
         lastSync <= lastSync', NEW t \in Time, Ready(t)
  PROVE  Ready(t)'
<1>1. \A v \in Time : Touches(script[t], v)' <=> Touches(script[t], v)
  BY DEF Touches, Vacates
<1>2. \A v \in Time : v < lastSync => v < lastSync'
  BY Stamps
<1> QED BY <1>1, <1>2 DEF Ready

(* What was sent has its version, or is merged into what has. *)
LEMMA Accounted ==
  ASSUME IInv, script' = script, sent \subseteq sent',
         \A p \in Path, t \in Time : Table[<<p, t>>] # None => Table'[<<p, t>>] # None,
         \A p \in Path, t \in Time : Table'[<<p, t>>] # None => Table[<<p, t>>] # None \/ t \in sent',
         \A t \in Time : t \in sent' /\ t \notin sent /\ script[t].kind \in {"create", "write"}
                          => Table'[<<script[t].path, t>>] # None,
         sent' \subseteq Time
  PROVE  Arrived' /\ Merged'
<1> PICK s, T, N : s = script /\ T = Table /\ N = Table'
  OBVIOUS
<1>1. s \in Scripts /\ sent \subseteq Time /\ Arrived /\ Merged
  BY DEF IInv
<1>2. \A t \in Time : s[t].kind \in {"create", "write"} => s[t].path \in Path
  BY <1>1, ScriptFacts
<1>3. ASSUME NEW t \in sent', s[t].kind = "create" PROVE N[<<s[t].path, t>>] # None
  BY <1>1, <1>2, <1>3 DEF Arrived
<1>4. ASSUME NEW p \in Path, NEW t \in Time, N[<<p, t>>] # None PROVE t \in sent'
  BY <1>1, <1>4 DEF Arrived
<1>5. ASSUME NEW t \in sent', s[t].kind = "write", N[<<s[t].path, t>>] = None
      PROVE  \E u \in Time : /\ t < u /\ s[u] = s[t] /\ ~Vacated(s, s[t].path, t, u)
                             /\ u \in sent' => N[<<s[u].path, u>>] # None
  <2>1. t \in sent /\ t \in Time /\ T[<<s[t].path, t>>] = None
    BY <1>2, <1>5
  <2>2. PICK u \in Time : /\ t < u /\ s[u] = s[t] /\ ~Vacated(s, s[t].path, t, u)
                          /\ u \in sent => T[<<s[u].path, u>>] # None
    BY <1>1, <1>5, <2>1 DEF Merged
  <2>3. s[u].path \in Path /\ s[u].kind = "write"
    BY <1>2, <1>5, <2>1, <2>2
  <2>4. u \in sent' => N[<<s[u].path, u>>] # None
    BY <2>2, <2>3
  <2> QED BY <2>2, <2>4
<1>6. Arrived'
  BY <1>3, <1>4 DEF Arrived
<1>7. Merged'
  BY <1>5 DEF Merged
<1> QED BY <1>6, <1>7

(* A step that leaves the rows and the apply alone. *)
LEMMA RowsKept ==
  ASSUME IInv, UNCHANGED <<files, history, lastSync, applying, script>>
  PROVE  /\ Table' = Table /\ Upto' = Upto /\ Bound' = Bound /\ Idle' = Idle
         /\ Standing' /\ Chained(script, Table, Upto)'
<1>1. Table' = Table
  BY DEF Table, Live
<1>2. Upto' = Upto /\ Bound' = Bound /\ Idle' = Idle
  BY DEF Upto, Bound, Idle
<1>3. Standing'
  BY <1>1, <1>2 DEF IInv, Standing, Live
<1>4. Chained(script, Table, Upto)'
  BY <1>1, <1>2 DEF IInv
<1> QED BY <1>1, <1>2, <1>3, <1>4

(* The script goes on while the rows and the apply stay. *)
LEMMA SyncedKept ==
  ASSUME IInv, script' = script, sent \subseteq sent', lastSync' = lastSync, applying' = applying
  PROVE  /\ Upto' = Upto /\ Bound' = Bound /\ Synced'
<1>1. Upto' = Upto /\ Bound' = Bound /\ Idle' = Idle
  BY DEF Upto, Bound, Idle
<1> QED BY <1>1 DEF IInv, Synced

(* What is sent in its turn was. *)
LEMMA InTurnKept ==
  ASSUME IInv, [DeliveryNext]_deliveryVars, lastSync' \in Nat, lastSync <= lastSync',
         \A t \in Time : t \in sent' /\ t \notin sent => Ready(t)
  PROVE  InTurn'
<1>1. script' = script /\ sent' \subseteq Time /\ sent \subseteq sent'
  BY Scripted
<1>2. lastSync \in Nat
  BY InvFacts
<1>3. ASSUME NEW t \in Time, t \in sent' PROVE Ready(t)'
  <2>1. Ready(t)
    BY <1>3 DEF IInv, InTurn
  <2> QED BY <1>1, <1>2, <2>1, StaysReady
<1> QED BY <1>1, <1>3 DEF InTurn

(* A rename or removal is recorded. *)
LEMMA RecordStep ==
  ASSUME IInv, TypeOK', NEW t \in Time, Deliver(t), script[t].kind \in {"remove", "move"}
  PROVE  IInv'
<1>1. DeliveryNext
  BY DEF DeliveryNext
<1>2. /\ script' = script /\ script' \in Scripts /\ sent' \subseteq Time /\ sent \subseteq sent'
      /\ sent' = sent \cup {t}
  BY <1>1, Scripted DEF Deliver, Acknowledge
<1>3. /\ UNCHANGED <<files, history, lastSync, applying>>
      /\ changes' = [changes EXCEPT ![t] =
           IF script[t].kind = "move"
           THEN [kind |-> "move", path |-> script[t].path, to |-> script[t].to]
           ELSE [kind |-> "delete", path |-> script[t].path, to |-> script[t].path]]
  BY DEF Deliver, Send, Move, Remove, Record
<1>4. Recorded'
  BY <1>2, <1>3 DEF IInv, Recorded, TypeOK
<1>5. Table' = Table /\ Standing' /\ Chained(script, Table, Upto)'
  BY <1>2, <1>3, RowsKept
<1>6. Synced'
  BY <1>2, <1>3, SyncedKept
<1>7. InTurn'
  BY <1>1, <1>2, <1>3, InvFacts, InTurnKept DEF Deliver
<1>8. Arrived' /\ Merged'
  BY <1>2, <1>5, Accounted
<1> QED BY <1>2, <1>4, <1>5, <1>6, <1>7, <1>8 DEF IInv

(* A write is merged into a later one: no path in between was vacated. *)
LEMMA AbsorbStep ==
  ASSUME IInv, TypeOK', NEW t \in Time, Absorb(t)
  PROVE  IInv'
<1>1. DeliveryNext
  BY DEF DeliveryNext
<1>2. /\ script' = script /\ script' \in Scripts /\ sent' \subseteq Time /\ sent \subseteq sent'
      /\ sent' = sent \cup {t} /\ t \notin sent /\ script[t].kind = "write"
  BY <1>1, Scripted DEF Absorb, Acknowledge
<1>3. UNCHANGED <<files, history, changes, lastSync, applying>>
  BY DEF Absorb, vars
<1>4. PICK u \in Time : t < u /\ u \notin sent /\ script[u] = script[t] /\ Ready(u)
  BY DEF Absorb
<1>5. t \in Nat /\ u \in Nat /\ \A v \in Time : v \in Nat
  BY Stamps
<1>6. Recorded'
  BY <1>2, <1>3 DEF IInv, Recorded
<1>7. Table' = Table /\ Standing' /\ Chained(script, Table, Upto)'
  BY <1>2, <1>3, RowsKept
<1>8. Synced'
  BY <1>2, <1>3, SyncedKept
<1>9. Ready(t)
  <2>1. \A v \in Time : v < t => v < u
    BY <1>4, <1>5
  <2> QED BY <1>4, <2>1 DEF Ready
<1>10. InTurn'
  BY <1>1, <1>2, <1>3, <1>9, InvFacts, InTurnKept
<1>11. Arrived'
  BY <1>2, <1>7 DEF IInv, Arrived
<1>12. ~Vacated(script, script[t].path, t, u)
  <2>1. SUFFICES ASSUME NEW v \in Time, t < v, v <= u, Vacates(script[v], script[t].path)
                 PROVE  FALSE
    BY DEF Vacated
  <2>2. v # u
    BY <1>2, <1>4, <2>1 DEF Vacates
  <2>3. v < u
    BY <1>5, <2>1, <2>2
  <2>4. Touches(script[u], v)
    BY <1>2, <1>4, <2>1 DEF Touches, Quiet
  <2>5. t \in sent
    BY <1>2, <1>4, <2>1, <2>3, <2>4 DEF Ready, Quiet
  <2> QED BY <1>2, <2>5
<1>13. Merged'
  <2>1. SUFFICES ASSUME NEW w \in sent', script[w].kind = "write", Table[<<script[w].path, w>>] = None
                 PROVE  \E v \in Time : /\ w < v /\ script[v] = script[w]
                                        /\ ~Vacated(script, script[w].path, w, v)
                                        /\ v \in sent' => Table[<<script[v].path, v>>] # None
    BY <1>2, <1>7 DEF Merged
  <2>2. u \notin sent'
    BY <1>2, <1>4, <1>5
  <2>3. CASE w = t
    BY <1>4, <1>12, <2>2, <2>3
  <2>4. CASE w # t
    <3>1. w \in sent /\ w \in Time
      BY <1>2, <2>4
    <3>2. PICK v \in Time : /\ w < v /\ script[v] = script[w]
                            /\ ~Vacated(script, script[w].path, w, v)
                            /\ v \in sent => Table[<<script[v].path, v>>] # None
      BY <2>1, <3>1 DEF IInv, Merged
    <3>3. CASE v # t
      BY <1>2, <3>2, <3>3
    <3>4. CASE v = t
      <4>1. w < u /\ script[u] = script[w]
        BY <1>4, <1>5, <3>1, <3>2, <3>4
      <4>2. \A x \in Time : x <= t \/ t < x
        BY <1>5
      <4>3. ~Vacated(script, script[w].path, w, u)
        BY <1>12, <3>2, <3>4, <4>2 DEF Vacated
      <4> QED BY <2>2, <4>1, <4>3
    <3> QED BY <3>3, <3>4
  <2> QED BY <2>3, <2>4
<1> QED BY <1>2, <1>6, <1>7, <1>8, <1>10, <1>11, <1>13 DEF IInv

(* An APPLY begins. *)
LEMMA ApplyStep ==
  ASSUME IInv, TypeOK', NEW t \in Time, Apply(t), InOrder(t)
  PROVE  IInv'
<1>1. DeliveryNext
  BY DEF DeliveryNext
<1>2. /\ script' = script /\ script' \in Scripts /\ sent' \subseteq Time /\ sent \subseteq sent'
      /\ sent' = sent \cup {t} /\ t \notin sent /\ script[t] = Quiet /\ t > lastSync
      /\ Quiet.kind = "quiet"
  BY <1>1, Scripted DEF Apply, Acknowledge, InOrder, Quiet
<1>3. UNCHANGED <<files, history, changes, lastSync>>
  BY DEF Apply, ApplyBegin
<1>4. t \in Nat /\ lastSync \in Nat /\ \A v \in Time : v \in Nat
  BY Stamps, InvFacts
<1>5. /\ Idle /\ ~Idle' /\ Upto = lastSync /\ Upto' = lastSync /\ Bound' = t /\ Bound = lastSync
  <2>1. /\ Idle /\ applying' = [to |-> t, done |-> lastSync, files |-> files, history |-> history]
    BY DEF Apply, ApplyBegin
  <2>2. applying' \in Image
    BY <2>1 DEF IInv, TypeOK, Image
  <2>3. ~Idle'
    BY <2>2, ImageNotNone DEF Idle
  <2> QED BY <1>3, <2>1, <2>3 DEF Upto, Bound
<1>6. Table' = Table
  BY <1>3 DEF Table, Live
<1>7. Recorded'
  BY <1>2, <1>3 DEF IInv, Recorded
<1>8. Standing' /\ Chained(script, Table, Upto)'
  <2>1. Standing'
    BY <1>2, <1>3, <1>5, <1>6 DEF IInv, Standing, Live
  <2> QED BY <1>2, <1>5, <1>6, <2>1 DEF IInv
<1>9. Synced'
  <2>1. Upto' <= Bound' /\ lastSync' <= Upto' /\ (~Idle' => lastSync' < Bound')
    BY <1>2, <1>3, <1>4, <1>5
  <2>2. ASSUME NEW v \in Time, v <= t, script[v].kind \in {"create", "move", "remove"}
        PROVE  v \in sent'
    <3>1. v # t
      BY <1>2, <2>2
    <3>2. v < t
      BY <1>4, <2>2, <3>1
    <3> QED BY <1>2, <2>2, <3>2 DEF InOrder
  <2>3. lastSync \in Time => script[lastSync] = Quiet
    BY DEF IInv, Synced
  <2> QED BY <1>2, <1>3, <1>5, <2>1, <2>2, <2>3 DEF Synced
<1>10. Ready(t)
  BY <1>2 DEF Ready, Touches
<1>11. InTurn'
  BY <1>1, <1>2, <1>3, <1>4, <1>10, InTurnKept
<1>12. Arrived' /\ Merged'
  BY <1>2, <1>6, Accounted
<1> QED BY <1>2, <1>7, <1>8, <1>9, <1>11, <1>12 DEF IInv

(* A creation arrives. *)
LEMMA CreateStep ==
  ASSUME IInv, TypeOK', NEW t \in Time, Deliver(t), script[t].kind = "create"
  PROVE  IInv'
<1> PICK p, T : p = script[t].path /\ T = Table
  OBVIOUS
<1>1. DeliveryNext
  BY DEF DeliveryNext
<1>2. /\ script' = script /\ script' \in Scripts /\ sent' \subseteq Time /\ sent \subseteq sent'
      /\ sent' = sent \cup {t} /\ t \notin sent /\ Ready(t) /\ p \in Path
  BY <1>1, Scripted, ScriptFacts DEF Deliver, Acknowledge
<1>3. T \in Tables /\ script \in Scripts /\ Chained(script, T, Upto) /\ TypeOK
  BY InvFacts
<1>4. \A r \in Time : T[<<p, r>>] # None => r < t /\ Vacated(script, p, r, Upto)
  BY <1>2, CreateFresh
<1>5. ~Live(p)
  <2>1. SUFFICES ASSUME Live(p) PROVE FALSE
    OBVIOUS
  <2>2. PICK r \in Time : r = files[p].ts /\ T[<<p, r>>] # None
    BY <1>2, <1>3, <2>1, TableFacts
  <2>3. ~Vacated(script, p, r, Upto)
    BY <1>2, <2>1, <2>2 DEF IInv, Standing
  <2> QED BY <1>4, <2>2, <2>3
<1>6. /\ files' = [files EXCEPT ![p] = [ts |-> t, id |-> CreateId(t)]]
      /\ UNCHANGED <<history, changes, lastSync, applying>>
  BY <1>5 DEF Deliver, Send, Create, Revise, CanRevise
<1>7. T[<<p, t>>] = None /\ history[<<p, t>>] = None
  <2>1. T[<<p, t>>] = None
    BY <1>2 DEF IInv, Arrived
  <2> QED BY <1>2, <1>3, <1>5, <2>1, TableFacts
<1>8. CreateId(t) # None /\ [ts |-> t, id |-> CreateId(t)] # None
  BY NoneAssumption DEF CreateId, FileId, FileRow
<1>9. /\ files'[p] = [ts |-> t, id |-> CreateId(t)] /\ Live(p)' /\ files'[p].ts = t
      /\ \A q \in Path : q # p => files'[q] = files[q] /\ (Live(q)' <=> Live(q))
  BY <1>2, <1>3, <1>6, <1>8 DEF TypeOK, Live
<1>10. Table' = [T EXCEPT ![<<p, t>>] = CreateId(t)]
  <2>1. \A k \in Path \X Time :
          Table'[k] = IF Live(k[1])' /\ files'[k[1]].ts = k[2] THEN files'[k[1]].id ELSE history[k]
    BY <1>6 DEF Table, Live
  <2>2. \A k \in Path \X Time :
          T[k] = IF Live(k[1]) /\ files[k[1]].ts = k[2] THEN files[k[1]].id ELSE history[k]
    BY DEF Table
  <2>3. ASSUME NEW k \in Path \X Time
        PROVE  Table'[k] = IF k = <<p, t>> THEN CreateId(t) ELSE T[k]
    <3>1. k = <<k[1], k[2]>> /\ k[1] \in Path
      BY <2>3
    <3>2. CASE k[1] = p
      BY <1>5, <1>9, <2>1, <2>2, <3>1, <3>2
    <3>3. CASE k[1] # p
      BY <1>9, <2>1, <2>2, <3>1, <3>3
    <3> QED BY <3>2, <3>3
  <2>4. Table' = [k \in Path \X Time |-> Table'[k]] /\ T = [k \in Path \X Time |-> T[k]]
    BY DEF Table
  <2> QED BY <2>3, <2>4
<1>11. \A q \in Path, r \in Time :
         Table'[<<q, r>>] = IF <<q, r>> = <<p, t>> THEN CreateId(t) ELSE T[<<q, r>>]
  BY <1>3, <1>10 DEF Tables
<1>12. Recorded'
  BY <1>2, <1>6 DEF IInv, Recorded
<1>13. Upto' = Upto /\ Synced'
  BY <1>2, <1>6, SyncedKept
<1>14. InTurn'
  BY <1>1, <1>2, <1>6, InvFacts, InTurnKept
<1>15. Arrived' /\ Merged'
  <2>1. \A q \in Path, r \in Time : Table[<<q, r>>] # None => Table'[<<q, r>>] # None
    BY <1>8, <1>11
  <2>2. \A q \in Path, r \in Time : Table'[<<q, r>>] # None => Table[<<q, r>>] # None \/ r \in sent'
    BY <1>2, <1>11
  <2>3. \A r \in Time : r \in sent' /\ r \notin sent => Table'[<<script[r].path, r>>] # None
    BY <1>2, <1>8, <1>11
  <2> QED BY <1>2, <2>1, <2>2, <2>3, Accounted
<1>16. Chained(script, Table, Upto)'
  <2>1. Chained(script, [T EXCEPT ![<<p, t>>] = CreateId(t)], Upto)
    BY <1>2, <1>3, <1>7, CreateChained
  <2> QED BY <1>2, <1>10, <1>13, <2>1
<1>17. Standing'
  <2>1. ASSUME NEW q \in Path
        PROVE  IF Live(q)'
               THEN /\ history'[<<q, files'[q].ts>>] = None
                    /\ \A r \in Time : Table'[<<q, r>>] # None => r <= files'[q].ts
                    /\ ~Vacated(script', q, files'[q].ts, Upto')
               ELSE \A r \in Time : Table'[<<q, r>>] # None => Vacated(script', q, r, Upto')
    <3>1. CASE q # p
      <4>1. \A r \in Time : Table'[<<q, r>>] = T[<<q, r>>]
        BY <1>11, <3>1
      <4> QED BY <1>2, <1>6, <1>9, <1>13, <3>1, <4>1 DEF IInv, Standing
    <3>2. CASE q = p
      <4>1. \A r \in Time : Table'[<<p, r>>] # None => r <= t
        <5>1. \A r \in Time : r \in Nat
          BY Stamps
        <5> QED BY <1>2, <1>4, <1>11, <5>1
      <4>2. ~Vacated(script, p, t, Upto)
        <5>1. SUFFICES ASSUME NEW v \in Time, t < v, v <= Upto PROVE FALSE
          BY DEF Vacated
        <5>2. t \in Nat /\ v \in Nat /\ Upto \in Nat /\ Bound \in Nat /\ Upto <= Bound
          BY Stamps, InvFacts
        <5>3. t <= Bound
          BY <5>1, <5>2
        <5> QED BY <1>2, <5>3 DEF IInv, Synced
      <4> QED BY <1>2, <1>6, <1>7, <1>9, <1>13, <3>2, <4>1, <4>2
    <3> QED BY <3>1, <3>2
  <2> QED BY <2>1 DEF Standing
<1> QED BY <1>2, <1>12, <1>13, <1>14, <1>15, <1>16, <1>17 DEF IInv

-----------------------------------------------------------------------------
(***************************************************************************)
(* The rows after a write, before its content is forwarded (f and h), and  *)
(* after.                                                                  *)
(***************************************************************************)
TableOf(f, h) == [k \in Path \X Time |-> IF f[k[1]] # None /\ f[k[1]].ts = k[2]
                                          THEN f[k[1]].id ELSE h[k]]

(* The row and the history once the content of a write has a version. *)
Stored(f, h, p, t) ==
  /\ f \in [Path -> Rows] /\ h \in [Path \X Time -> Ids]
  /\ \A q \in Path, r \in Time : TableOf(f, h)[<<q, r>>] = IF <<q, r>> = <<p, t>> THEN WriteId(p, t)
                                                         ELSE Table[<<q, r>>]
  /\ \A u \in Time : u < t => h[<<p, u>>] = Table[<<p, u>>]
  /\ \A q \in Path : q # p => f[q] = files[q] /\ \A r \in Time : h[<<q, r>>] = history[<<q, r>>]
  /\ f[p] # None <=> Live(p)
  /\ Live(p) => f[p].ts \in Time /\ files[p].ts <= f[p].ts /\ t <= f[p].ts
                /\ h[<<p, f[p].ts>>] = None

(* The last two UPDATEs of write_dispatch make of the table what Late says. *)
LEMMA ForwardedLate ==
  ASSUME TypeOK, NEW p \in Path, NEW t \in Time, NEW f, NEW h, Stored(f, h, p, t),
         NEW F, NEW H, NEW W, W = WriteId(p, t),
         F = ForwardedFiles(f, h, p, t, W), H = ForwardedHistory(h, p, t, W)
  PROVE  /\ TableOf(F, H) = Late(Table, p, t)
         /\ \A q \in Path : /\ F[q] # None <=> f[q] # None
                            /\ f[q] # None => F[q].ts = f[q].ts
         /\ \A q \in Path, r \in Time : H[<<q, r>>] = None <=> h[<<q, r>>] = None
<1> PICK T : T = Table
  OBVIOUS
<1>0. /\ T \in Tables /\ f \in [Path -> Rows] /\ h \in [Path \X Time -> Ids]
      /\ \A q \in Path, r \in Time : TableOf(f, h)[<<q, r>>] = IF <<q, r>> = <<p, t>> THEN W
                                                             ELSE T[<<q, r>>]
      /\ \A u \in Time : u < t => h[<<p, u>>] = T[<<p, u>>]
  BY TableType DEF Stored
<1>1. \A x : IsBase(h, p, t, x) <=> Base(T, p, t, x)
  <2>1. ASSUME NEW x, IsBase(h, p, t, x) PROVE Base(T, p, t, x)
    <3>1. PICK u \in Time : /\ u < t /\ h[<<p, u>>] # None /\ h[<<p, u>>] = x
                            /\ \A v \in Time : v < t /\ h[<<p, v>>] # None => v <= u
      BY <2>1 DEF IsBase, Earlier
    <3>2. ASSUME NEW v \in Time, u < v, v < t PROVE T[<<p, v>>] = None
      <4>1. v \in Nat /\ u \in Nat
        BY Stamps
      <4>2. ~(v <= u)
        BY <3>2, <4>1
      <4> QED BY <1>0, <3>1, <3>2, <4>2
    <3>3. T[<<p, u>>] = x /\ T[<<p, u>>] # None
      BY <1>0, <3>1
    <3> QED BY <3>1, <3>2, <3>3 DEF Base, LastOf
  <2>2. ASSUME NEW x, Base(T, p, t, x) PROVE IsBase(h, p, t, x)
    <3>1. PICK u \in Time : /\ u < t /\ T[<<p, u>>] # None /\ T[<<p, u>>] = x
                            /\ \A v \in Time : u < v /\ v < t => T[<<p, v>>] = None
      BY <2>2 DEF Base, LastOf
    <3>2. ASSUME NEW v \in Time, v < t, h[<<p, v>>] # None PROVE v <= u
      <4>1. v \in Nat /\ u \in Nat
        BY Stamps
      <4>2. ~(u < v)
        BY <1>0, <3>1, <3>2
      <4> QED BY <4>1, <4>2
    <3>3. h[<<p, u>>] = x /\ h[<<p, u>>] # None
      BY <1>0, <3>1
    <3> QED BY <3>1, <3>2, <3>3 DEF IsBase, Earlier
  <2> QED BY <2>1, <2>2
<1>2. W # None /\ \A r \in Time : [ts |-> r, id |-> W] # None
  BY NoneAssumption DEF WriteId, FileId, FileRow
<1>3. \A q \in Path : f[q] # None => f[q].ts \in Time /\ f[q].id \in FileId /\ f[q].id # None
  BY <1>0, NoneAssumption DEF Rows, FileRow
<1>4. \A q \in Path :
        F[q] = IF f[q] # None /\ f[q].ts > t /\ Base(T, p, t, f[q].id)
               THEN [ts |-> f[q].ts, id |-> W] ELSE f[q]
  BY <1>1 DEF ForwardedFiles
<1>5. \A k \in Path \X Time :
        H[k] = IF h[k] # None /\ k[2] > t /\ Base(T, p, t, h[k]) THEN W ELSE h[k]
  BY <1>1 DEF ForwardedHistory
<1>6. \A q \in Path : /\ F[q] # None <=> f[q] # None
                      /\ f[q] # None => F[q].ts = f[q].ts
  <2>1. SUFFICES ASSUME NEW q \in Path, f[q] # None
                 PROVE  F[q] # None /\ F[q].ts = f[q].ts
    BY <1>4
  <2>2. PICK r \in Time : r = f[q].ts
    BY <1>3, <2>1
  <2>3. [ts |-> r, id |-> W] # None /\ [ts |-> r, id |-> W].ts = r
    BY <1>2
  <2>4. F[q] = [ts |-> r, id |-> W] \/ F[q] = f[q]
    BY <1>4, <2>2
  <2> QED BY <2>1, <2>2, <2>3, <2>4
<1>7. \A k \in Path \X Time : H[k] = None <=> h[k] = None
  BY <1>2, <1>5
<1>8. ASSUME NEW k \in Path \X Time
      PROVE  TableOf(F, H)[k] = Late(T, p, t)[k]
  <2>1. k = <<k[1], k[2]>> /\ k[1] \in Path /\ k[2] \in Time /\ k[2] \in Nat /\ t \in Nat
    BY Stamps
  <2> PICK x : x = TableOf(f, h)[k]
    OBVIOUS
  <2>2. x = IF k = <<p, t>> THEN W ELSE T[k]
    BY <1>0, <2>1
  <2>3. x = IF f[k[1]] # None /\ f[k[1]].ts = k[2] THEN f[k[1]].id ELSE h[k]
    BY DEF TableOf
  <2>4. TableOf(F, H)[k] = IF F[k[1]] # None /\ F[k[1]].ts = k[2] THEN F[k[1]].id ELSE H[k]
    BY DEF TableOf
  <2>5. TableOf(F, H)[k] = IF x # None /\ k[2] > t /\ Base(T, p, t, x) THEN W ELSE x
    <3>1. CASE f[k[1]] # None /\ f[k[1]].ts = k[2]
      <4>1. TableOf(F, H)[k] = F[k[1]].id
        BY <1>6, <2>1, <2>4, <3>1
      <4>2. F[k[1]].id = IF k[2] > t /\ Base(T, p, t, x) THEN W ELSE x
        <5>1. F[k[1]] = IF k[2] > t /\ Base(T, p, t, x) THEN [ts |-> k[2], id |-> W] ELSE f[k[1]]
          BY <1>4, <2>1, <2>3, <3>1
        <5>2. [ts |-> k[2], id |-> W].id = W
          OBVIOUS
        <5> QED BY <2>3, <3>1, <5>1, <5>2
      <4>3. x # None
        BY <1>3, <2>1, <2>3, <3>1
      <4> QED BY <4>1, <4>2, <4>3
    <3>2. CASE ~(f[k[1]] # None /\ f[k[1]].ts = k[2])
      <4>1. TableOf(F, H)[k] = H[k] /\ x = h[k]
        BY <1>6, <2>1, <2>3, <2>4, <3>2
      <4> QED BY <1>5, <4>1
    <3> QED BY <3>1, <3>2
  <2>6. Late(T, p, t)[k] = IF k = <<p, t>> \/ (T[k] # None /\ k[2] > t /\ Base(T, p, t, T[k]))
                           THEN W ELSE T[k]
    BY DEF Late
  <2>7. CASE k = <<p, t>>
    <3>1. ~(k[2] > t)
      BY <2>1, <2>7
    <3> QED BY <2>2, <2>5, <2>6, <2>7, <3>1
  <2>8. CASE k # <<p, t>>
    BY <2>2, <2>5, <2>6, <2>8
  <2> QED BY <2>7, <2>8
<1>9. TableOf(F, H) = Late(T, p, t)
  <2>1. /\ TableOf(F, H) = [k \in Path \X Time |-> TableOf(F, H)[k]]
        /\ Late(T, p, t) = [k \in Path \X Time |-> Late(T, p, t)[k]]
    BY DEF TableOf, Late
  <2> QED BY <1>8, <2>1
<1> QED BY <1>6, <1>7, <1>9

(* The first UPDATE or INSERT of write_dispatch stores the content at its stamp. *)
LEMMA WrittenRows ==
  ASSUME IInv, NEW p \in Path, NEW t \in Time, Write(p, t), Table[<<p, t>>] = None
  PROVE  \E f, h : /\ Stored(f, h, p, t)
                    /\ files' = ForwardedFiles(f, h, p, t, WriteId(p, t))
                    /\ history' = ForwardedHistory(h, p, t, WriteId(p, t))
<1> PICK W, T : W = WriteId(p, t) /\ T = Table
  OBVIOUS
<1>1. TypeOK /\ Standing /\ T \in Tables
  BY InvFacts DEF IInv
<1>2. W \in FileId /\ W # None /\ [ts |-> t, id |-> W] \in FileRow /\ [ts |-> t, id |-> W] # None
  BY NoneAssumption DEF WriteId, FileId, FileRow
<1>3. Live(p) => files[p].ts \in Time /\ files[p].ts # t /\ files[p].id = T[<<p, files[p].ts>>]
                 /\ files[p].id \in FileId /\ files[p].ts \in Nat
                 /\ history[<<p, files[p].ts>>] = None
  <2>1. Live(p) => files[p].ts \in Time /\ files[p].id = T[<<p, files[p].ts>>]
                   /\ files[p].id # None /\ files[p].ts \in Nat
    BY <1>1, TableFacts, Stamps
  <2>2. Live(p) => files[p].id \in FileId
    BY <1>1 DEF TypeOK, Live, Rows, FileRow
  <2> QED BY <1>1, <2>1, <2>2 DEF Standing
<1>4. history[<<p, t>>] = None
  BY <1>1, <1>3, TableFacts
<1>5. t \in Nat /\ \A r \in Time : r \in Nat
  BY Stamps
<1>6. \A q \in Path, r \in Time :
        T[<<q, r>>] = IF Live(q) /\ files[q].ts = r THEN files[q].id ELSE history[<<q, r>>]
  BY DEF Table
(* The write is older than the row, or there is none: it is filed. *)
<1>8. ASSUME Live(p) => t < files[p].ts,
             files' = ForwardedFiles(files, [history EXCEPT ![<<p, t>>] = W], p, t, W),
             history' = ForwardedHistory([history EXCEPT ![<<p, t>>] = W], p, t, W)
      PROVE  \E f, h : /\ Stored(f, h, p, t)
                        /\ files' = ForwardedFiles(f, h, p, t, WriteId(p, t))
                        /\ history' = ForwardedHistory(h, p, t, WriteId(p, t))
  <2>0. PICK h : h = [history EXCEPT ![<<p, t>>] = W]
    OBVIOUS
  <2>1. h \in [Path \X Time -> Ids] /\ files \in [Path -> Rows]
    BY <1>1, <1>2, <2>0 DEF TypeOK, Ids
  <2>2. \A q \in Path, r \in Time : h[<<q, r>>] = IF <<q, r>> = <<p, t>> THEN W ELSE history[<<q, r>>]
    BY <1>1, <2>0 DEF TypeOK
  <2>3. \A q \in Path, r \in Time :
          TableOf(files, h)[<<q, r>>] = IF <<q, r>> = <<p, t>> THEN W ELSE T[<<q, r>>]
    <3>1. \A q \in Path, r \in Time :
            TableOf(files, h)[<<q, r>>] = IF files[q] # None /\ files[q].ts = r THEN files[q].id
                                          ELSE h[<<q, r>>]
      BY DEF TableOf
    <3>2. Live(p) => files[p].ts # t
      BY <1>3
    <3>3. \A q \in Path : Live(q) <=> files[q] # None
      BY DEF Live
    <3>4. ASSUME NEW q \in Path, NEW r \in Time
          PROVE  TableOf(files, h)[<<q, r>>] = IF <<q, r>> = <<p, t>> THEN W ELSE T[<<q, r>>]
      <4>1. CASE <<q, r>> = <<p, t>>
        BY <2>2, <3>1, <3>2, <3>3, <4>1
      <4>2. CASE <<q, r>> # <<p, t>>
        BY <1>6, <2>2, <3>1, <3>3, <4>2
      <4> QED BY <4>1, <4>2
    <3> QED BY <3>4
  <2>4. \A u \in Time : u < t => h[<<p, u>>] = T[<<p, u>>]
    <3>1. \A u \in Time : u < t => ~(Live(p) /\ files[p].ts = u) /\ u # t
      BY <1>3, <1>5, <1>8
    <3> QED BY <1>6, <2>2, <3>1
  <2>5. Live(p) => files[p].ts <= files[p].ts /\ t <= files[p].ts /\ h[<<p, files[p].ts>>] = None
    BY <1>3, <1>5, <1>8, <2>2
  <2>6. \A q \in Path : q # p => \A r \in Time : h[<<q, r>>] = history[<<q, r>>]
    BY <2>2
  <2>7. Live(p) => files[p].ts \in Time
    BY <1>3
  <2>8. Stored(files, h, p, t)
    BY <2>1, <2>3, <2>4, <2>5, <2>6, <2>7 DEF Stored, Live
  <2> QED BY <1>8, <2>0, <2>8
<1>9. CASE WriteSuperseded(p, t, W)
  <2>1. PICK u \in Time : changes[u] # None /\ u < lastSync /\ u > t /\ Covers(changes[u].path, p)
    BY <1>9 DEF WriteSuperseded, Superseded, ChangesMade
  <2>2. Vacates(script[u], p)
    BY <2>1, GroupChanges DEF Vacates
  <2>3. u <= Upto /\ u \in Nat
    BY <2>1, InvFacts, Stamps
  <2>4. ASSUME Live(p) PROVE t < files[p].ts
    <3>1. ~Vacated(script, p, files[p].ts, Upto)
      BY <1>1, <2>4 DEF Standing
    <3>2. ~(files[p].ts < u)
      BY <2>2, <2>3, <3>1 DEF Vacated
    <3> QED BY <1>3, <1>5, <2>1, <2>3, <2>4, <3>2
  <2>5. /\ files' = ForwardedFiles(files, [history EXCEPT ![<<p, t>>] = W], p, t, W)
        /\ history' = ForwardedHistory([history EXCEPT ![<<p, t>>] = W], p, t, W)
    BY <1>9 DEF WriteSuperseded
  <2> QED BY <1>8, <2>4, <2>5
<1>10. CASE WriteLive(p, t, W) /\ t < files[p].ts
  <2>1. Older(p, t, W) = [ts |-> t, id |-> W] /\ Newer(p, t, W) = files[p]
    BY <1>10 DEF Older, Newer
  <2>2. Live(p)
    BY <1>10 DEF WriteLive, CanRevise
  <2>3. RevisedFiles(p, t, W) = files
    BY <1>1, <2>1 DEF RevisedFiles, TypeOK
  <2>4. RevisedHistory(p, t, W) = [history EXCEPT ![<<p, t>>] = W]
    BY <1>3, <2>1, <2>2 DEF RevisedHistory
  <2>5. /\ files' = ForwardedFiles(files, [history EXCEPT ![<<p, t>>] = W], p, t, W)
        /\ history' = ForwardedHistory([history EXCEPT ![<<p, t>>] = W], p, t, W)
    BY <1>10, <2>3, <2>4 DEF WriteLive
  <2> QED BY <1>8, <1>10, <2>5
<1>11. CASE WriteLive(p, t, W) /\ ~(t < files[p].ts)
  <2>1. Older(p, t, W) = files[p] /\ Newer(p, t, W) = [ts |-> t, id |-> W]
    BY <1>11 DEF Older, Newer
  <2>2. Live(p) /\ files[p].ts < t
    <3>1. Live(p)
      BY <1>11 DEF WriteLive, CanRevise
    <3> QED BY <1>3, <1>5, <1>11, <3>1
  <2>0. PICK f, h, z : /\ f = [files EXCEPT ![p] = [ts |-> t, id |-> W]] /\ z = files[p].ts
                     /\ h = [history EXCEPT ![<<p, z>>] = files[p].id]
    OBVIOUS
  <2>3. RevisedFiles(p, t, W) = f /\ RevisedHistory(p, t, W) = h
    BY <1>3, <2>0, <2>1, <2>2 DEF RevisedFiles, RevisedHistory
  <2>4. files' = ForwardedFiles(f, h, p, t, W) /\ history' = ForwardedHistory(h, p, t, W)
    BY <1>11, <2>3 DEF WriteLive
  <2>5. f \in [Path -> Rows] /\ h \in [Path \X Time -> Ids] /\ z \in Time /\ z \in Nat /\ z < t
    BY <1>1, <1>2, <1>3, <2>0, <2>2 DEF TypeOK, Rows, Ids
  <2>6. \A q \in Path : f[q] = IF q = p THEN [ts |-> t, id |-> W] ELSE files[q]
    BY <1>1, <2>0 DEF TypeOK
  <2>7. \A q \in Path, r \in Time :
          h[<<q, r>>] = IF <<q, r>> = <<p, z>> THEN files[p].id ELSE history[<<q, r>>]
    BY <1>1, <2>0, <2>5 DEF TypeOK
  <2>8. f[p] # None /\ f[p].ts = t /\ f[p].id = W
    BY <1>2, <2>6
  <2>9. \A r \in Time : h[<<p, r>>] = T[<<p, r>>]
    BY <1>6, <2>0, <2>2, <2>5, <2>7
  <2>10. ASSUME NEW q \in Path, NEW r \in Time
         PROVE  TableOf(f, h)[<<q, r>>] = IF <<q, r>> = <<p, t>> THEN W ELSE T[<<q, r>>]
    <3>1. TableOf(f, h)[<<q, r>>] = IF f[q] # None /\ f[q].ts = r THEN f[q].id ELSE h[<<q, r>>]
      BY DEF TableOf
    <3>2. CASE q = p
      BY <2>8, <2>9, <3>1, <3>2
    <3>3. CASE q # p
      BY <1>6, <2>6, <2>7, <3>1, <3>3 DEF Live
    <3> QED BY <3>2, <3>3
  <2>11. files[p].ts <= t /\ t <= t /\ h[<<p, t>>] = None
    BY <1>4, <1>5, <2>0, <2>5, <2>7
  <2>12. \A q \in Path : q # p => f[q] = files[q] /\ \A r \in Time : h[<<q, r>>] = history[<<q, r>>]
    BY <2>6, <2>7
  <2>13. Stored(f, h, p, t)
    BY <2>2, <2>5, <2>8, <2>9, <2>10, <2>11, <2>12 DEF Stored
  <2> QED BY <2>4, <2>13
<1>12. WriteLive(p, t, W) \/ WriteSuperseded(p, t, W)
  BY DEF Write
<1> QED BY <1>9, <1>10, <1>11, <1>12

(* A write arrives. *)
LEMMA WriteStep ==
  ASSUME IInv, TypeOK', NEW t \in Time, Deliver(t), script[t].kind = "write"
  PROVE  IInv'
<1> PICK p, T, W : p = script[t].path /\ T = Table /\ W = WriteId(p, t)
  OBVIOUS
<1>1. DeliveryNext
  BY DEF DeliveryNext
<1>2. /\ script' = script /\ script' \in Scripts /\ sent' \subseteq Time /\ sent \subseteq sent'
      /\ sent' = sent \cup {t} /\ t \notin sent /\ Ready(t) /\ p \in Path
  BY <1>1, Scripted, ScriptFacts DEF Deliver, Acknowledge
<1>3. T \in Tables /\ script \in Scripts /\ Chained(script, T, Upto) /\ TypeOK
  BY InvFacts
<1>4. Write(p, t) /\ Idle /\ UNCHANGED <<changes, lastSync, applying>>
  BY DEF Deliver, Send, Write
<1>5. T[<<p, t>>] = None
  BY <1>2 DEF IInv, Arrived
<1>6. Superseded(p, t) \/ Live(p)
  BY <1>4 DEF Write, WriteLive, WriteSuperseded, CanRevise
<1>7. PICK f, h : /\ Stored(f, h, p, t)
                  /\ files' = ForwardedFiles(f, h, p, t, W)
                  /\ history' = ForwardedHistory(h, p, t, W)
  BY <1>2, <1>4, <1>5, WrittenRows
<1>8. /\ TableOf(files', history') = Late(T, p, t)
      /\ \A q \in Path : /\ files'[q] # None <=> f[q] # None
                         /\ f[q] # None => files'[q].ts = f[q].ts
      /\ \A q \in Path, r \in Time : history'[<<q, r>>] = None <=> h[<<q, r>>] = None
  BY <1>2, <1>3, <1>7, ForwardedLate
<1>9. Table' = Late(T, p, t)
  BY <1>8 DEF Table, TableOf, Live
<1>10. /\ \A q \in Path, r \in Time : Table'[<<q, r>>] = None <=> T[<<q, r>>] = None /\ <<q, r>> # <<p, t>>
  <2>1. W # None
    BY <1>2, NoneAssumption DEF WriteId, FileId
  <2>2. \A k \in Path \X Time : Table'[k] = None <=> T[k] = None /\ k # <<p, t>>
    BY <1>9, <2>1 DEF Late
  <2> QED BY <2>2
<1>11. Recorded'
  BY <1>2, <1>4 DEF IInv, Recorded
<1>12. Upto' = Upto /\ Synced'
  BY <1>2, <1>4, SyncedKept
<1>13. InTurn'
  BY <1>1, <1>2, <1>4, InvFacts, InTurnKept
<1>14. Arrived' /\ Merged'
  <2>1. \A q \in Path, r \in Time : Table[<<q, r>>] # None => Table'[<<q, r>>] # None
    BY <1>10
  <2>2. \A q \in Path, r \in Time : Table'[<<q, r>>] # None => Table[<<q, r>>] # None \/ r \in sent'
    BY <1>2, <1>10
  <2>3. \A r \in Time : r \in sent' /\ r \notin sent => Table'[<<script[r].path, r>>] # None
    BY <1>2, <1>10
  <2> QED BY <1>2, <2>1, <2>2, <2>3, Accounted
<1>15. Chained(script, Table, Upto)'
  <2>1. PICK b \in Time : b < t /\ Starts(script, b, p) /\ T[<<p, b>>] # None /\ ~Vacated(script, p, b, t)
    BY <1>2, <1>4, <1>6, WriteFounded
  <2>2. Chained(script, Late(T, p, t), Upto)
    BY <1>2, <1>3, <1>5, <2>1, LateChained
  <2> QED BY <1>2, <1>9, <1>12, <2>2
<1>16. Standing'
  <2>1. ASSUME NEW q \in Path
        PROVE  IF Live(q)'
               THEN /\ history'[<<q, files'[q].ts>>] = None
                    /\ \A r \in Time : Table'[<<q, r>>] # None => r <= files'[q].ts
                    /\ ~Vacated(script', q, files'[q].ts, Upto')
               ELSE \A r \in Time : Table'[<<q, r>>] # None => Vacated(script', q, r, Upto')
    <3>1. CASE q # p
      <4>1. Live(q)' <=> Live(q)
        BY <1>7, <1>8, <3>1 DEF Live, Stored
      <4>2. \A r \in Time : Table'[<<q, r>>] # None <=> T[<<q, r>>] # None
        BY <1>10, <3>1
      <4>3. CASE Live(q)
        <5>1. files'[q].ts = files[q].ts /\ files[q].ts \in Time
          <6>1. f[q] = files[q]
            BY <1>7, <3>1 DEF Stored
          <6>2. files[q].ts \in Time
            BY <1>3, <4>3, TableFacts
          <6> QED BY <1>8, <4>3, <6>1, <6>2 DEF Live
        <5>2. history[<<q, files[q].ts>>] = None
          BY <4>3 DEF IInv, Standing
        <5>3. history'[<<q, files'[q].ts>>] = None
          BY <1>7, <1>8, <3>1, <5>1, <5>2 DEF Stored
        <5> QED BY <1>2, <1>12, <4>1, <4>2, <4>3, <5>1, <5>3 DEF IInv, Standing
      <4>4. CASE ~Live(q)
        BY <1>2, <1>12, <4>1, <4>2, <4>4 DEF IInv, Standing
      <4> QED BY <4>3, <4>4
    <3>2. CASE q = p /\ Live(p)
      <4>1. PICK z \in Time : z = f[p].ts
        BY <1>7, <3>2 DEF Stored
      <4>2. PICK r0 \in Time : r0 = files[p].ts
        BY <1>2, <1>3, <3>2, TableFacts
      <4>3. files'[p].ts = z /\ Live(p)' /\ history'[<<p, z>>] = None
        BY <1>2, <1>7, <1>8, <3>2, <4>1 DEF Live, Stored
      <4>4. r0 \in Nat /\ z \in Nat /\ t \in Nat /\ r0 <= z /\ t <= z /\ \A r \in Time : r \in Nat
        BY <1>7, <3>2, <4>1, <4>2, Stamps DEF Stored
      <4>5. \A r \in Time : T[<<p, r>>] # None => r <= r0
        BY <1>2, <3>2, <4>2 DEF IInv, Standing
      <4>6. \A r \in Time : Table'[<<p, r>>] # None => r <= z
        <5>1. \A r \in Time : r <= r0 => r <= z
          BY <4>4
        <5> QED BY <1>2, <1>10, <4>4, <4>5, <5>1
      <4>7. ~Vacated(script, p, r0, Upto)
        BY <1>2, <3>2, <4>2 DEF IInv, Standing
      <4>8. ~Vacated(script, p, z, Upto)
        <5>1. \A r \in Time : z < r => r0 < r
          BY <4>4
        <5> QED BY <4>7, <5>1 DEF Vacated
      <4> QED BY <1>2, <1>12, <3>2, <4>3, <4>6, <4>8
    <3>3. CASE q = p /\ ~Live(p)
      <4>1. ~Live(p)'
        BY <1>2, <1>7, <1>8, <3>3 DEF Live, Stored
      <4>2. PICK u \in Time : changes[u] # None /\ u < lastSync /\ u > t /\ Covers(changes[u].path, p)
        BY <1>6, <3>3 DEF Superseded, ChangesMade
      <4>3. Vacates(script[u], p)
        BY <4>2, GroupChanges DEF Vacates
      <4>4. t < u /\ u <= Upto
        BY <4>2, InvFacts, Stamps
      <4>5. Vacated(script, p, t, Upto)
        BY <4>3, <4>4 DEF Vacated
      <4>6. \A r \in Time : T[<<p, r>>] # None => Vacated(script, p, r, Upto)
        BY <1>2, <3>3 DEF IInv, Standing
      <4>7. \A r \in Time : Table'[<<p, r>>] # None => Vacated(script, p, r, Upto)
        BY <1>10, <4>5, <4>6, <1>2
      <4> QED BY <1>2, <1>12, <3>3, <4>1, <4>7
    <3> QED BY <3>1, <3>2, <3>3
  <2> QED BY <2>1 DEF Standing
<1> QED BY <1>2, <1>11, <1>12, <1>13, <1>14, <1>15, <1>16 DEF IInv

-----------------------------------------------------------------------------
(***************************************************************************)
(* The steps of an apply.                                                  *)
(***************************************************************************)
LEMMA HitIsPresent ==
  ASSUME IInv, ~Idle, NEW t \in Time, NextDue(t), NEW p \in Path
  PROVE  p \in Hit(changes[t], t)
           <=> Vacates(script[t], p) /\ Directory(script)[t - 1][p] # None
<1>1. Turn(t) /\ t <= Bound /\ script[t].kind \in {"move", "remove"}
      /\ changes[t].path = script[t].path
  BY NextIsDue
<1>2. p \in Hit(changes[t], t) <=> Vacates(script[t], p) /\ Live(p) /\ files[p].ts < t
  BY <1>1 DEF Hit, Vacates
<1>3. Live(p) /\ files[p].ts < t => Directory(script)[t - 1][p] # None
  BY <1>1, OlderArePresent
<1>4. Vacates(script[t], p) /\ Directory(script)[t - 1][p] # None => Live(p) /\ files[p].ts < t
  BY <1>1, PresentAreOlder
<1> QED BY <1>2, <1>3, <1>4

(* What an apply step leaves of the invariant's other parts. *)
LEMMA Replaying ==
  ASSUME IInv, NEW t \in Time, NextDue(t), ~Idle,
         applying' = [applying EXCEPT !.done = t],
         UNCHANGED <<changes, lastSync, script, sent>>
  PROVE  /\ Upto' = t /\ Bound' = Bound /\ Recorded' /\ Synced' /\ InTurn'
         /\ t \in Nat /\ Upto \in Nat /\ Upto < t
<1>1. Turn(t) /\ t <= Bound
  BY NextIsDue
<1>2. Upto \in Nat /\ Bound \in Nat /\ lastSync \in Nat /\ lastSync <= Upto /\ t \in Nat
      /\ Bound = applying.to
  BY InvFacts, Stamps
<1>3. applying \in Image
  BY DEF IInv, TypeOK, Idle
<1>4. applying'.done = t /\ applying'.to = applying.to /\ applying' \in Image
  BY <1>3 DEF Image
<1>5. ~Idle'
  BY <1>4, ImageNotNone DEF Idle
<1>6. Upto' = t /\ Bound' = Bound
  BY <1>2, <1>4, <1>5 DEF Upto, Bound
<1>7. Upto < t
  BY <1>1 DEF Turn
<1>8. Recorded'
  BY DEF IInv, Recorded
<1>9. Synced'
  <2>1. t <= Bound /\ lastSync <= t
    BY <1>1, <1>2, <1>7
  <2> QED BY <1>5, <1>6, <2>1 DEF IInv, Synced
<1>10. InTurn'
  <2>1. \A v \in Time : Ready(v) => Ready(v)'
    BY DEF Ready, Touches, Vacates
  <2> QED BY <2>1 DEF IInv, InTurn
<1> QED BY <1>2, <1>6, <1>7, <1>8, <1>9, <1>10

(* What was vacated stays so, and only by the change itself is more vacated. *)
LEMMA Later ==
  ASSUME IInv, NEW t \in Time, Turn(t), NEW p \in Path, NEW r \in Time
  PROVE  /\ Vacated(script, p, r, Upto) => Vacated(script, p, r, t)
         /\ Vacated(script, p, r, t) /\ ~Vacated(script, p, r, Upto) => Vacates(script[t], p) /\ r < t
<1>1. Upto \in Nat /\ t \in Nat /\ Upto < t
  BY InvFacts, Stamps DEF Turn
<1>2. \A v \in Nat : v <= Upto => v <= t
  BY <1>1
<1>3. \A v \in Nat : v <= t => v <= Upto \/ v = t \/ (Upto < v /\ v < t)
  BY <1>1
<1>4. \A v \in Time : Upto < v /\ v < t => ~Vacates(script[v], p)
  BY Quietly
<1> QED BY <1>2, <1>3, <1>4, Stamps DEF Vacated

(* A removal is carried out. *)
LEMMA RemoveStep ==
  ASSUME IInv, TypeOK', NEW t \in Time, ApplyDelete(t), UNCHANGED <<script, sent>>
  PROVE  IInv'
<1> PICK s, T, c : s = script /\ T = Table /\ c = changes[t]
  OBVIOUS
<1>1. /\ ~Idle /\ NextDue(t) /\ UNCHANGED <<changes, lastSync, script, sent>>
      /\ applying' = [applying EXCEPT !.done = t] /\ c.kind = "delete"
      /\ files' = [q \in Path |-> IF q \in Hit(c, t) THEN None ELSE files[q]]
      /\ history' = Filed(Hit(c, t))
  BY DEF ApplyDelete
<1>2. Turn(t) /\ changes[t] # None /\ script[t].kind \in {"move", "remove"}
  BY <1>1, NextIsDue DEF NextDue, Due
<1>3. script[t].kind = "remove"
  <2>1. script[t].kind = "move" => c.kind = "move"
    BY <1>2, GroupChanges
  <2> QED BY <1>1, <1>2, <2>1
<1>4. TypeOK /\ s \in Scripts /\ sent \subseteq Time /\ T \in Tables /\ Chained(s, T, Upto)
  BY InvFacts
<1>5. /\ Upto' = t /\ Bound' = Bound /\ Recorded' /\ Synced' /\ InTurn'
      /\ t \in Nat /\ Upto \in Nat /\ Upto < t
  BY <1>1, Replaying
<1>6. \A q \in Path : /\ q \in Hit(c, t) => Live(q) /\ files[q].ts < t /\ Vacates(s[t], q)
                      /\ Live(q) /\ files[q].ts < t /\ Vacates(s[t], q) => q \in Hit(c, t)
  <2>1. c.path = s[t].path
    BY <1>1, NextIsDue
  <2> QED BY <1>3, <2>1 DEF Hit, Vacates
<1>7. \A q \in Path : /\ Live(q)' <=> Live(q) /\ q \notin Hit(c, t)
                      /\ Live(q)' => files'[q] = files[q]
  BY <1>1 DEF Live
<1>8. \A q \in Path, r \in Time :
        history'[<<q, r>>] = IF q \in Hit(c, t) /\ files[q].ts = r THEN files[q].id ELSE history[<<q, r>>]
  BY <1>1 DEF Filed
<1>9. \A q \in Path, r \in Time :
        T[<<q, r>>] = IF Live(q) /\ files[q].ts = r THEN files[q].id ELSE history[<<q, r>>]
  BY DEF Table
<1>10. Table' = T
  <2>1. ASSUME NEW k \in Path \X Time PROVE Table'[k] = T[k]
    <3>1. PICK q \in Path, r \in Time : k = <<q, r>>
      OBVIOUS
    <3>2. Table'[<<q, r>>] = IF Live(q)' /\ files'[q].ts = r THEN files'[q].id ELSE history'[<<q, r>>]
      BY DEF Table, Live
    <3> QED BY <1>6, <1>7, <1>8, <1>9, <3>1, <3>2
  <2>2. Table' = [k \in Path \X Time |-> Table'[k]] /\ T = [k \in Path \X Time |-> T[k]]
    BY DEF Table
  <2> QED BY <2>1, <2>2
<1>11. Arrived' /\ Merged'
  BY <1>1, <1>4, <1>10, Accounted
<1>12. Chained(s, T, t)
  <2>1. \A v \in Time : Upto < v /\ v <= t => \A o, q \in Path : ~Lands(s, v, o, q)
    <3>1. \A v \in Time : v <= t => v = t \/ v < t
      BY <1>5, Stamps
    <3> QED BY <1>2, <1>3, <3>1, Quietly DEF Lands
  <2>2. Upto <= t
    BY <1>5
  <2>3. PICK a \in Nat : a = Upto
    BY <1>5
  <2> QED BY <1>4, <1>5, <2>1, <2>2, <2>3, AdvanceChained
<1>13. Standing'
  <2>1. ASSUME NEW q \in Path
        PROVE  IF Live(q)'
               THEN /\ history'[<<q, files'[q].ts>>] = None
                    /\ \A r \in Time : Table'[<<q, r>>] # None => r <= files'[q].ts
                    /\ ~Vacated(script', q, files'[q].ts, Upto')
               ELSE \A r \in Time : Table'[<<q, r>>] # None => Vacated(script', q, r, Upto')
    <3>1. CASE Live(q)'
      <4>1. Live(q) /\ q \notin Hit(c, t) /\ files'[q] = files[q]
        BY <1>7, <3>1
      <4>2. PICK r0 \in Time : r0 = files[q].ts
        BY <1>4, <4>1, TableFacts
      <4>3. /\ history[<<q, r0>>] = None /\ ~Vacated(script, q, r0, Upto)
            /\ \A r \in Time : T[<<q, r>>] # None => r <= r0
        BY <4>1, <4>2 DEF IInv, Standing
      <4>4. ~Vacated(script, q, r0, t)
        BY <1>2, <1>6, <4>1, <4>2, <4>3, Later
      <4> QED BY <1>1, <1>5, <1>8, <1>10, <3>1, <4>1, <4>2, <4>3, <4>4
    <3>2. CASE ~Live(q)' /\ ~Live(q)
      <4>1. \A r \in Time : T[<<q, r>>] # None => Vacated(script, q, r, Upto)
        BY <3>2 DEF IInv, Standing
      <4> QED BY <1>1, <1>2, <1>5, <1>10, <3>2, <4>1, Later
    <3>3. CASE ~Live(q)' /\ Live(q)
      <4>1. q \in Hit(c, t) /\ files[q].ts < t /\ Vacates(s[t], q)
        BY <1>6, <1>7, <3>3
      <4>2. PICK r0 \in Time : r0 = files[q].ts
        BY <1>4, <3>3, TableFacts
      <4>3. \A r \in Time : T[<<q, r>>] # None => r <= r0
        BY <3>3, <4>2 DEF IInv, Standing
      <4>4. \A r \in Time : T[<<q, r>>] # None => r < t /\ t <= t
        BY <1>5, <4>1, <4>2, <4>3, Stamps
      <4>5. \A r \in Time : T[<<q, r>>] # None => Vacated(script, q, r, t)
        BY <4>1, <4>4 DEF Vacated
      <4> QED BY <1>1, <1>5, <1>10, <3>3, <4>5
    <3> QED BY <3>1, <3>2, <3>3
  <2> QED BY <2>1 DEF Standing
<1>14. Chained(script, Table, Upto)'
  BY <1>1, <1>5, <1>10, <1>12
<1> QED BY <1>1, <1>4, <1>5, <1>11, <1>13, <1>14 DEF IInv

(* A rename is carried out. *)
LEMMA RenameStep ==
  ASSUME IInv, TypeOK', NEW t \in Time, ApplyMove(t), UNCHANGED <<script, sent>>
  PROVE  IInv'
<1> PICK s, T, c : s = script /\ T = Table /\ c = changes[t]
  OBVIOUS
<1>1. /\ ~Idle /\ NextDue(t) /\ UNCHANGED <<changes, lastSync, script, sent>>
      /\ applying' = [applying EXCEPT !.done = t] /\ c.kind = "move"
      /\ files' = [q \in Path |->
           IF q \in Landed(c, t) THEN [ts |-> t, id |-> files[Origin(c, t, q)].id]
           ELSE IF q \in Hit(c, t) THEN None ELSE files[q]]
      /\ history' = Filed(Hit(c, t) \cup {q \in Landed(c, t) : Live(q)})
  BY DEF ApplyMove
<1>2. /\ Turn(t) /\ changes[t] # None /\ script[t].kind \in {"move", "remove"} /\ t \in sent
      /\ c.path = s[t].path
  BY <1>1, NextIsDue DEF NextDue, Due
<1>3. s[t].kind = "move" /\ c.to = s[t].to
  <2>1. script[t].kind = "remove" => c.kind = "delete"
    BY <1>2, GroupChanges
  <2>2. script[t].kind = "move"
    BY <1>1, <1>2, <2>1
  <2> QED BY <1>2, <2>2, GroupChanges
<1>4. TypeOK /\ s \in Scripts /\ sent \subseteq Time /\ T \in Tables /\ Chained(s, T, Upto)
  BY InvFacts
<1>5. /\ Upto' = t /\ Bound' = Bound /\ Recorded' /\ Synced' /\ InTurn'
      /\ t \in Nat /\ Upto \in Nat /\ Upto < t
  BY <1>1, Replaying
(* The rows the rename finds are the files it renamed. *)
<1>6. \A q \in Path : q \in Hit(c, t) <=> Live(q) /\ files[q].ts < t /\ Vacates(s[t], q)
  BY <1>2, <1>3 DEF Hit, Vacates
<1>7. \A o \in Path : o \in Hit(c, t) <=> Covers(s[t].path, o) /\ Directory(s)[t - 1][o] # None
  <2>1. \A o \in Path : Vacates(s[t], o) <=> Covers(s[t].path, o)
    BY <1>3 DEF Vacates
  <2> QED BY <1>1, <2>1, HitIsPresent
<1>8. \A o, q \in Path : Lands(s, t, o, q) <=> o \in Hit(c, t) /\ Dest(c, o) = q
  BY <1>2, <1>3, <1>7 DEF Lands, Dest
<1>9. \A q \in Path : q \in Landed(c, t) <=> \E o \in Path : Lands(s, t, o, q)
  <2>1. Hit(c, t) \subseteq Path
    BY DEF Hit
  <2> QED BY <1>8, <2>1 DEF Landed
<1>10. ASSUME NEW o \in Path, NEW q \in Path, Lands(s, t, o, q)
       PROVE  /\ ~Live(q) /\ T[<<q, t>>] = None /\ history[<<q, t>>] = None
              /\ Origin(c, t, q) = o /\ q \notin Hit(c, t) /\ q \in Landed(c, t)
  <2>1. ~Live(q) /\ T[<<q, t>>] = None
    BY <1>2, <1>10, NothingInTheWay
  <2>2. history[<<q, t>>] = None
    BY <1>4, <2>1, TableFacts
  <2>3. ASSUME NEW x \in Hit(c, t), Dest(c, x) = q
        PROVE  x = o
    <3>1. x \in Path /\ Lands(s, t, x, q)
      BY <1>8, <2>3 DEF Hit
    <3> QED BY <1>3, <1>4, <1>10, <3>1, Renaming DEF Lands
  <2>4. o \in Hit(c, t) /\ Dest(c, o) = q
    BY <1>8, <1>10
  <2>5. Origin(c, t, q) = o
    BY <2>3, <2>4 DEF Origin
  <2> QED BY <1>6, <1>9, <1>10, <2>1, <2>2, <2>5
<1>11. /\ \A q \in Path, o \in Path : Lands(s, t, o, q) =>
            files'[q] = [ts |-> t, id |-> files[o].id] /\ Live(q)' /\ files'[q].ts = t
       /\ \A q \in Path : q \notin Landed(c, t) =>
            /\ Live(q)' <=> Live(q) /\ q \notin Hit(c, t)
            /\ Live(q)' => files'[q] = files[q]
  <2>1. ASSUME NEW q \in Path, NEW o \in Path, Lands(s, t, o, q)
        PROVE  files'[q] = [ts |-> t, id |-> files[o].id] /\ Live(q)' /\ files'[q].ts = t
    <3>1. files'[q] = [ts |-> t, id |-> files[o].id]
      BY <1>1, <1>10, <2>1
    <3>2. Live(o)
      BY <1>6, <1>8, <2>1
    <3>3. [ts |-> t, id |-> files[o].id] # None
      BY <1>4, <3>2, NoneAssumption DEF TypeOK, Live, Rows, FileRow
    <3> QED BY <3>1, <3>3 DEF Live
  <2>2. \A q \in Path : q \notin Landed(c, t) =>
            files'[q] = IF q \in Hit(c, t) THEN None ELSE files[q]
    BY <1>1
  <2> QED BY <2>1, <2>2 DEF Live
<1>12. \A q \in Path, r \in Time :
        history'[<<q, r>>] = IF q \in Hit(c, t) /\ files[q].ts = r THEN files[q].id ELSE history[<<q, r>>]
  <2>1. {q \in Landed(c, t) : Live(q)} = {}
    <3>1. ASSUME NEW q \in Landed(c, t) PROVE ~Live(q)
      <4>1. q \in Path
        BY <1>2, <1>4, HitType
      <4> QED BY <1>9, <1>10, <3>1, <4>1
    <3> QED BY <3>1
  <2>2. history' = Filed(Hit(c, t))
    BY <1>1, <2>1
  <2> QED BY <2>2 DEF Filed
<1>13. \A q \in Path, r \in Time :
        T[<<q, r>>] = IF Live(q) /\ files[q].ts = r THEN files[q].id ELSE history[<<q, r>>]
  BY DEF Table
<1>14. \A q \in Path, r \in Time :
        Table'[<<q, r>>] = IF Live(q)' /\ files'[q].ts = r THEN files'[q].id ELSE history'[<<q, r>>]
  BY DEF Table, Live
<1>15. ASSUME NEW q \in Path, NEW r \in Time, r # t \/ \A o \in Path : ~Lands(s, t, o, q)
       PROVE  Table'[<<q, r>>] = T[<<q, r>>]
  <2>1. CASE q \in Landed(c, t)
    <3>1. PICK o \in Path : Lands(s, t, o, q)
      BY <1>9, <2>1
    <3>2. r # t /\ Live(q)' /\ files'[q].ts = t /\ ~Live(q) /\ q \notin Hit(c, t)
      BY <1>10, <1>11, <1>15, <3>1
    <3> QED BY <1>12, <1>13, <1>14, <3>2
  <2>2. CASE q \notin Landed(c, t)
    BY <1>6, <1>11, <1>12, <1>13, <1>14, <2>2
  <2> QED BY <2>1, <2>2
<1>16. ASSUME NEW o \in Path, NEW q \in Path, Lands(s, t, o, q)
       PROVE  \E l \in Time : /\ LastOf(T, o, l, t) /\ ~Vacated(s, o, l, t - 1)
                              /\ Table'[<<q, t>>] = T[<<o, l>>]
  <2>1. Live(o) /\ files[o].ts < t
    BY <1>6, <1>8, <1>16
  <2>2. PICK l \in Time : l = files[o].ts /\ T[<<o, l>>] = files[o].id /\ T[<<o, l>>] # None
    BY <1>4, <2>1, TableFacts
  <2>3. ~Vacated(s, o, l, Upto) /\ \A r \in Time : T[<<o, r>>] # None => r <= l
    BY <2>1, <2>2 DEF IInv, Standing
  <2>4. ~Vacated(s, o, l, t - 1)
    BY <1>2, <2>3, Quietly
  <2>5. LastOf(T, o, l, t)
    <3>1. \A u \in Time : l < u => ~(u <= l)
      BY Stamps
    <3> QED BY <2>1, <2>2, <2>3, <3>1 DEF LastOf
  <2>6. files'[q] = [ts |-> t, id |-> files[o].id] /\ Live(q)' /\ files'[q].ts = t
    BY <1>11, <1>16
  <2>7. Table'[<<q, t>>] = files'[q].id
    BY <1>14, <2>6
  <2> QED BY <2>2, <2>4, <2>5, <2>6, <2>7
<1>17. Chained(s, Table', t)
  <2>1. PICK N, a : N = Table' /\ a = Upto
    OBVIOUS
  <2>2. N \in Tables /\ a \in Nat /\ a < t /\ Chained(s, T, a)
    <3>1. (TypeOK => Table \in Tables)'
      BY TableType, PTL
    <3> QED BY <1>4, <1>5, <2>1, <3>1
  <2>3. \A v \in Time : a < v /\ v < t => \A o, q \in Path : ~Lands(s, v, o, q)
    BY <1>2, <2>1, Quietly
  <2>4. \A o, q \in Path : Lands(s, t, o, q) =>
          \E l \in Time : /\ LastOf(T, o, l, t) /\ ~Vacated(s, o, l, t - 1)
                          /\ N[<<q, t>>] = T[<<o, l>>]
    BY <1>16, <2>1
  <2>5. \A q \in Path, r \in Time : r # t \/ (\A o \in Path : ~Lands(s, t, o, q))
                                     => N[<<q, r>>] = T[<<q, r>>]
    BY <1>15, <2>1
  <2>6. Chained(s, N, t)
    BY <1>4, <2>2, <2>3, <2>4, <2>5, LandedChained
  <2> QED BY <2>1, <2>6
<1>18. \A q \in Path, r \in Time : T[<<q, r>>] # None => Table'[<<q, r>>] # None
  BY <1>10, <1>15
<1>19. Arrived' /\ Merged'
  BY <1>1, <1>2, <1>4, <1>15, <1>18, Accounted
<1>20. Standing'
  <2>1. ASSUME NEW q \in Path
        PROVE  IF Live(q)'
               THEN /\ history'[<<q, files'[q].ts>>] = None
                    /\ \A r \in Time : Table'[<<q, r>>] # None => r <= files'[q].ts
                    /\ ~Vacated(script', q, files'[q].ts, Upto')
               ELSE \A r \in Time : Table'[<<q, r>>] # None => Vacated(script', q, r, Upto')
    <3>1. CASE q \in Landed(c, t)
      <4>1. PICK o \in Path : Lands(s, t, o, q)
        BY <1>9, <3>1
      <4>2. /\ Live(q)' /\ files'[q].ts = t /\ ~Live(q) /\ q \notin Hit(c, t)
            /\ history[<<q, t>>] = None
        BY <1>10, <1>11, <4>1
      <4>3. history'[<<q, t>>] = None
        BY <1>12, <4>2
      <4>4. \A r \in Time : T[<<q, r>>] # None => Vacated(script, q, r, Upto)
        BY <4>2 DEF IInv, Standing
      <4>5. \A r \in Time : Vacated(script, q, r, Upto) => r <= t
        <5>1. \A r, v \in Nat : r < v /\ v <= Upto => r <= t
          BY <1>5
        <5> QED BY <5>1, Stamps DEF Vacated
      <4>6. \A r \in Time : Table'[<<q, r>>] # None => r <= t
        BY <1>5, <1>15, <4>4, <4>5
      <4>7. ~Vacated(script, q, t, t)
        BY <1>5, Stamps DEF Vacated
      <4> QED BY <1>1, <1>5, <4>2, <4>3, <4>6, <4>7
    <3>2. CASE q \notin Landed(c, t)
      <4>0. \A r \in Time : Table'[<<q, r>>] = T[<<q, r>>]
        BY <1>9, <1>15, <3>2
      <4>1. CASE Live(q)'
        <5>1. Live(q) /\ q \notin Hit(c, t) /\ files'[q] = files[q]
          BY <1>11, <3>2, <4>1
        <5>2. PICK r0 \in Time : r0 = files[q].ts
          BY <1>4, <5>1, TableFacts
        <5>3. /\ history[<<q, r0>>] = None /\ ~Vacated(script, q, r0, Upto)
              /\ \A r \in Time : T[<<q, r>>] # None => r <= r0
          BY <5>1, <5>2 DEF IInv, Standing
        <5>4. ~Vacated(script, q, r0, t)
          BY <1>2, <1>6, <5>1, <5>2, <5>3, Later
        <5> QED BY <1>1, <1>5, <1>12, <4>0, <4>1, <5>1, <5>2, <5>3, <5>4
      <4>2. CASE ~Live(q)' /\ ~Live(q)
        <5>1. \A r \in Time : T[<<q, r>>] # None => Vacated(script, q, r, Upto)
          BY <4>2 DEF IInv, Standing
        <5> QED BY <1>1, <1>2, <1>5, <4>0, <4>2, <5>1, Later
      <4>3. CASE ~Live(q)' /\ Live(q)
        <5>1. q \in Hit(c, t) /\ files[q].ts < t /\ Vacates(s[t], q)
          BY <1>6, <1>11, <3>2, <4>3
        <5>2. PICK r0 \in Time : r0 = files[q].ts
          BY <1>4, <4>3, TableFacts
        <5>3. \A r \in Time : T[<<q, r>>] # None => r <= r0
          BY <4>3, <5>2 DEF IInv, Standing
        <5>4. \A r \in Time : T[<<q, r>>] # None => r < t /\ t <= t
          BY <1>5, <5>1, <5>2, <5>3, Stamps
        <5>5. \A r \in Time : T[<<q, r>>] # None => Vacated(script, q, r, t)
          BY <5>1, <5>4 DEF Vacated
        <5> QED BY <1>1, <1>5, <4>0, <4>3, <5>5
      <4> QED BY <4>1, <4>2, <4>3
    <3> QED BY <3>1, <3>2
  <2> QED BY <2>1 DEF Standing
<1>21. Chained(script, Table, Upto)'
  BY <1>1, <1>5, <1>17
<1> QED BY <1>1, <1>4, <1>5, <1>19, <1>20, <1>21 DEF IInv

(* The APPLY commits. *)
LEMMA CommitStep ==
  ASSUME IInv, TypeOK', ApplyCommit, UNCHANGED <<script, sent>>
  PROVE  IInv'
<1>1. /\ ~Idle /\ lastSync' = applying.to /\ applying' = None
      /\ UNCHANGED <<files, history, changes, script, sent>>
      /\ \A v \in Time : ~Due(v)
  BY DEF ApplyCommit
<1>2. TypeOK /\ script \in Scripts /\ sent \subseteq Time /\ Table \in Tables
      /\ Chained(script, Table, Upto)
      /\ Upto \in Nat /\ Bound \in Nat /\ lastSync \in Nat /\ lastSync <= Upto /\ Upto <= Bound
      /\ Upto = applying.done /\ Bound = applying.to
  BY <1>1, InvFacts
<1>3. Upto' = Bound /\ Bound' = Bound /\ lastSync' = Bound /\ Idle' /\ Table' = Table
  BY <1>1, <1>2 DEF Upto, Bound, Idle, Table, Live
<1>4. \A v \in Time : Upto < v /\ v <= Bound => script[v].kind \notin {"move", "remove"}
  BY <1>1, <1>2, GroupChanges DEF Due
<1>5. \A v \in Time : v <= Upto => v <= Bound
  BY <1>2, Stamps
<1>6. \A p, r : Vacated(script, p, r, Bound) <=> Vacated(script, p, r, Upto)
  <2>1. \A v \in Time : v <= Bound => v <= Upto \/ Upto < v
    BY <1>2, Stamps
  <2> QED BY <1>4, <1>5, <2>1 DEF Vacated, Vacates
<1>7. Recorded'
  BY <1>1 DEF IInv, Recorded
<1>8. InTurn'
  <2>1. ASSUME NEW t \in Time, Ready(t) PROVE Ready(t)'
    BY <1>1, <1>2, <1>3, <2>1, StaysReady
  <2> QED BY <1>1, <1>2, <2>1 DEF IInv, InTurn
<1>9. Synced'
  <2>1. Bound <= Bound
    BY <1>2
  <2> QED BY <1>1, <1>3, <2>1 DEF IInv, Synced
<1>10. Arrived' /\ Merged'
  BY <1>1, <1>2, <1>3, Accounted
<1>11. Standing'
  BY <1>1, <1>3, <1>6 DEF IInv, Standing, Live
<1>12. Chained(script, Table, Upto)'
  <2>1. PICK a, c, s, T : a = Upto /\ c = Bound /\ s = script /\ T = Table
    OBVIOUS
  <2>2. \A v \in Time : a < v /\ v <= c => \A o, q \in Path : ~Lands(s, v, o, q)
    BY <1>4, <2>1 DEF Lands
  <2>3. Chained(s, T, c)
    BY <1>2, <2>1, <2>2, AdvanceChained
  <2> QED BY <1>1, <1>3, <2>1, <2>3
<1> QED BY <1>1, <1>2, <1>7, <1>8, <1>9, <1>10, <1>11, <1>12 DEF IInv

(* No apply ever meets a conflict. *)
LEMMA NeverAborts == IInv => ~ApplyAbort
<1> SUFFICES ASSUME IInv, ApplyAbort PROVE FALSE
  OBVIOUS
<1>1. PICK t \in Time : Conflict(t)
  BY DEF ApplyAbort
<1>2. PICK p \in Path : Live(p) /\ InHistory(p, files[p].ts)
  BY <1>1 DEF Conflict, Hit
<1> QED BY <1>2 DEF IInv, Standing, InHistory

(* The empty store, whatever the script. *)
LEMMA Beginning == DeliveryInit => IInv
<1> SUFFICES ASSUME DeliveryInit PROVE IInv
  OBVIOUS
<1>1. /\ Init /\ sent = {} /\ script \in Scripts /\ TypeOK
  BY InitType DEF DeliveryInit
<1>2. Idle /\ Upto = 0 /\ Bound = 0 /\ lastSync = 0
  BY <1>1 DEF Init, Idle, Upto, Bound
<1>3. \A p \in Path : ~Live(p)
  BY <1>1 DEF Init, Live
<1>4. \A p \in Path, t \in Time : Table[<<p, t>>] = None
  BY <1>1 DEF Init, Table, Live
<1>5. \A t \in Time : t \in Nat /\ ~(t <= 0) /\ t # 0
  BY Stamps
<1>6. Recorded /\ InTurn /\ Arrived /\ Merged
  BY <1>1, <1>4 DEF Init, Recorded, InTurn, Arrived, Merged
<1>7. Synced
  BY <1>2, <1>5 DEF Synced
<1>8. Standing
  BY <1>3, <1>4 DEF Standing
<1>9. Chained(script, Table, Upto)
  <2>1. Places(script, Table, Upto)
    BY <1>4 DEF Places
  <2>2. Carried(script, Table, Upto)
    BY <1>2, <1>5 DEF Carried
  <2> QED BY <2>1, <2>2 DEF Chained
<1> QED BY <1>1, <1>6, <1>7, <1>8, <1>9 DEF IInv

(* Every step of a delivery in which the APPLYs are in order keeps it. *)
LEMMA InOrderInductive ==
  ASSUME IInv, [DeliveryNext]_deliveryVars, \A t \in Time : Apply(t) => InOrder(t)
  PROVE  IInv'
<1>1. TypeOK' /\ script \in Scripts
  BY DeliveryStepType DEF IInv
<1>2. ASSUME NEW t \in Time, Deliver(t)
      PROVE  IInv'
  <2>1. script[t].kind \in {"create", "write", "remove", "move"}
    BY <1>2 DEF Deliver, Send
  <2> QED BY <1>1, <1>2, <2>1, CreateStep, WriteStep, RecordStep
<1>3. ASSUME NEW t \in Time, Absorb(t)
      PROVE  IInv'
  BY <1>1, <1>3, AbsorbStep
<1>4. ASSUME NEW t \in Time, Apply(t)
      PROVE  IInv'
  BY <1>1, <1>4, ApplyStep
<1>5. CASE StoreStep
  BY <1>1, <1>5, RenameStep, RemoveStep, CommitStep, NeverAborts DEF StoreStep
<1>6. CASE UNCHANGED deliveryVars
  <2>1. UNCHANGED <<files, history, changes, lastSync, applying, script, sent>>
    BY <1>6 DEF deliveryVars
  <2>2. Table' = Table /\ Upto' = Upto /\ Bound' = Bound /\ Idle' = Idle /\ Standing'
        /\ Chained(script, Table, Upto)'
    BY <2>1, RowsKept
  <2>3. \A t \in Time : Ready(t) => Ready(t)'
    BY <2>1 DEF Ready, Touches, Vacates
  <2> QED BY <1>1, <2>1, <2>2, <2>3 DEF IInv, Recorded, InTurn, Synced, Arrived, Merged
<1> QED BY <1>2, <1>3, <1>4, <1>5, <1>6 DEF DeliveryNext

LEMMA Inductive ==
  ASSUME DayInv, [DeliveryNext]_deliveryVars
  PROVE  DayInv'
<1>1. script' \in Scripts
  BY DisorderStays DEF DayInv
<1>2. ASSUME orderly' PROVE IInv'
  BY <1>2, DisorderStays, InOrderInductive DEF DayInv
<1> QED BY <1>1, <1>2 DEF DayInv

(***************************************************************************)
(* Whatever the user did, in whatever order it is delivered, with writes   *)
(* merged and rejected changes sent again: when everything has been        *)
(* acknowledged and the last APPLY carried out, and no APPLY came before a *)
(* create, rename or removal made before it, the store holds exactly the   *)
(* client's files, each with its latest content (Converged).               *)
(***************************************************************************)
THEOREM StoreConverges == DeliverySpec => []Converged
<1>1. DeliveryInit => DayInv
  BY Beginning DEF DeliveryInit, DayInv
<1>2. DayInv /\ [DeliveryNext]_deliveryVars => DayInv'
  BY Inductive
<1>3. DayInv => Converged
  BY EndConverged
<1> QED BY <1>1, <1>2, <1>3, PTL DEF DeliverySpec

(***************************************************************************)
(* And by then, with the same proviso, a client can ask for every moment's *)
(* files: the last version of each at or before it is the content the file *)
(* had then, unless a write of it was merged into a later one              *)
(* (PastRestorable).                                                       *)
(***************************************************************************)
THEOREM StoreRestores == DeliverySpec => []PastRestorable
<1>1. DeliveryInit => DayInv
  BY Beginning DEF DeliveryInit, DayInv
<1>2. DayInv /\ [DeliveryNext]_deliveryVars => DayInv'
  BY Inductive
<1>3. DayInv => PastRestorable
  BY EndRestorable
<1> QED BY <1>1, <1>2, <1>3, PTL DEF DeliverySpec

(***************************************************************************)
(* A day asks nothing of the store that Store does not describe, in        *)
(* whatever order the APPLYs come: what is proved of the store holds of    *)
(* every day, that it is an archive too.                                   *)
(***************************************************************************)
THEOREM DayIsArchived == DeliverySpec => ImplementsArchive
<1>1. DeliveryInit => script \in Scripts /\ Init
  BY DEF DeliveryInit
<1>2. script \in Scripts /\ [DeliveryNext]_deliveryVars => (script \in Scripts)' /\ [Next]_vars
  BY DisorderStays, DeliveryStepsStore
<1>3. DeliverySpec => Spec
  BY <1>1, <1>2, PTL DEF DeliverySpec, Spec
<1> QED BY <1>3, StoreImplementsArchive
=============================================================================
