---------------------------- MODULE JournalProofs ----------------------------
(***************************************************************************)
(* Why the journal can be trusted: a change whose record is written is     *)
(* remembered over a crash and is in the map or with a sender meanwhile,   *)
(* and a completed one is not done again, for any number of files,         *)
(* operations, senders, changes and crashes.                               *)
(***************************************************************************)
EXTENDS Journal, SequenceTheorems, WellFoundedInduction, TLAPS

Empty == [n \in Name |-> Done]

(* An entry with no stamps but of its operations, and tables of such. *)
Clean(a) == a \in Action /\ \A o \in Op : o \notin a.ops => a.ts[o] = 0

Tables == {m \in [Name -> Action] : \A n \in Name : Clean(m[n])}

(* What a restart would find once the buffer is flushed. *)
Soon == Replay(log \o buffer)

(* The actions in hand for a file: in the map, and with the senders. *)
Carriers(n) == {w \in Worker : sender[w] # Nobody /\ sender[w].name = n}
Hand(n)     == {pending[n]} \cup {sender[w].action : w \in Carriers(n)}

(* The change in the merge thread's hands is o of n, and not yet noted. *)
Changing(n, o)  == change # Nobody /\ change.name = n /\ change.op = o
Unwritten(n, o) == Changing(n, o) /\ change.stage = "old" /\ writing["merger"] # <<>>

-----------------------------------------------------------------------------
(***************************************************************************)
(* What is in memory and on disk in each mode.                             *)
(***************************************************************************)
Memory ==
  /\ mode # "up" => /\ buffer = <<>> /\ pending = Empty
                    /\ writing = [t \in Thread |-> <<>>]
                    /\ change = Nobody /\ sender = [w \in Worker |-> Nobody]
  /\ mode \in {"down", "read", "up"} => loaded = Empty
  /\ mode # "issue" => todo = {}
  /\ loaded \in Tables /\ \A n \in todo : loaded[n].ops # {}

Disk ==
  /\ mode = "read" => old # NoFile
  /\ mode \in {"issue", "up"} => log # NoFile

(***************************************************************************)
(* Each thread writes the pieces of one record, the one it is at.          *)
(***************************************************************************)
Rest(s, r) == s \in {Pieces(r), <<Pieces(r)[2]>>, <<>>}

Noted(c) == [type |-> "i", ops |-> {c.op}, time |-> c.time, name |-> c.name]

Merging ==
  /\ change = Nobody => writing["merger"] = <<>>
  /\ change # Nobody =>
       /\ change.stage = "old" => Rest(writing["merger"], Noted(change))
       /\ change.stage = "half" => writing["merger"] = <<>>
       /\ change.stage = "new" =>
            \A i \in 1..Len(writing["merger"]) : writing["merger"][i].part = "newname"

Finalizing ==
  \A w \in Worker :
    IF sender[w] # Nobody /\ sender[w].stage = "finalize"
    THEN Rest(writing[w], Completion(sender[w]))
    ELSE writing[w] = <<>>

Sending ==
  \A w \in Worker : sender[w] # Nobody =>
    /\ sender[w].action.ops # {}
    /\ sender[w].got \subseteq sender[w].action.ops
    /\ sender[w].stage = "finalize" => sender[w].got # {}

-----------------------------------------------------------------------------
(***************************************************************************)
(* While nothing went wrong: the files in each mode, and before the first  *)
(* crash nothing to recover.                                               *)
(***************************************************************************)
Orderly ==
  /\ mode \notin {"read", "delete"} => old = NoFile
  /\ mode \in {"read", "delete", "create"} => log = NoFile
  /\ crashes = 0 /\ mode # "up" =>
       loaded = Empty /\ mode \in {"down", "create", "issue"} /\ (mode = "down" => log = NoFile)

(* The entries reissued so far are in the new journal. *)
Reissued ==
  mode = "issue" =>
    \A n \in Name : Replay(log)[n] =
         IF n \in todo \/ loaded[n].ops = {} THEN Done
         ELSE Issued(Done, [type |-> "i", ops |-> loaded[n].ops,
                            time |-> Newest(loaded[n].ts), name |-> n])

(***************************************************************************)
(* The table m says which changes are outstanding.                         *)
(***************************************************************************)
Tells(m) ==
  \A n \in Name, o \in Op :
    /\ status[n][o] = "written" => o \in m[n].ops
    /\ status[n][o] \in {"none", "done"} => o \notin m[n].ops

Remembering == Tells(Held) /\ (mode = "up" => Tells(Soon))

(***************************************************************************)
(* No stamp is past the clock.                                             *)
(***************************************************************************)
Timely(m) == \A n \in Name, o \in Op : m[n].ts[o] <= clock

Stamped ==
  /\ Timely(Held)
  /\ mode = "up" => Timely(Soon)
  /\ \A n \in Name, o \in Op : latest[n][o] <= clock

Changed ==
  change # Nobody =>
    /\ change.time = clock
    /\ latest[change.name][change.op] = clock
    /\ status[change.name][change.op] = "begun"
    /\ ~Unwritten(change.name, change.op) =>
         /\ change.op \in Soon[change.name].ops
         /\ Soon[change.name].ts[change.op] = clock

(***************************************************************************)
(* The stamps of an action in hand are not past the latest of their kind,  *)
(* nor as late as a change in the merge thread's hands.  When the action   *)
(* is completed, the stamp of the record covers the latest change of a     *)
(* kind in the journal if the action has it (Reaching), and falls short of *)
(* it if the action has an older one (Short).                              *)
(***************************************************************************)
Reaching(n, a, o) ==
  a.ts[o] = latest[n][o] /\ (o \in a.ops \/ a.ts[o] > 0) => Soon[n].ts[o] <= Newest(a.ts)

Short(n, a, o) ==
  o \in a.ops /\ a.ts[o] < latest[n][o] /\ o \in Soon[n].ops
    => Soon[n].ts[o] >= latest[n][o] \/ Unwritten(n, o)

Fits(n, a) ==
  \A o \in Op : /\ a.ts[o] <= latest[n][o]
                /\ change # Nobody => a.ts[o] < clock
                /\ Reaching(n, a, o)
                /\ Short(n, a, o)

Fitting == mode = "up" => \A n \in Name : \A a \in Hand(n) : Fits(n, a)

(* What a completion covers is struck once the completion is written. *)
Struck ==
  mode = "up" => \A w \in Worker :
    sender[w] # Nobody /\ sender[w].stage = "finalize" /\ writing[w] = <<>>
      => \A o \in Op : Covers(sender[w], o) => o \notin Soon[sender[w].name].ops

Outstanding ==
  mode = "up" => \A n \in Name, o \in Op : status[n][o] = "written" =>
    \/ Holds(pending[n], n, o)
    \/ \E w \in Carriers(n) : Holds(sender[w].action, n, o)
                               /\ (sender[w].stage = "finalize" => o \in sender[w].got)

(* Until the second recovery, the journal has each change's own stamp. *)
Exact ==
  crashes = 0 \/ (crashes = 1 /\ mode # "up") =>
    \A n \in Name, o \in Op : status[n][o] = "written" =>
      /\ Held[n].ts[o] = latest[n][o]
      /\ mode = "up" => Soon[n].ts[o] = latest[n][o]

Trusted == /\ Orderly /\ Remembering /\ Stamped /\ Changed
           /\ Fitting /\ Struck /\ Outstanding /\ Exact

Frame == TypeOK /\ Memory /\ Disk /\ Merging /\ Finalizing /\ Sending

IInv == Frame /\ Reissued /\ (faults = {} => Trusted)

-----------------------------------------------------------------------------
(***************************************************************************)
(* Reading a journal.  Induction on its length: a set of natural numbers   *)
(* has a least element.                                                    *)
(***************************************************************************)
LEMMA Least ==
  ASSUME NEW T \in SUBSET Nat, T # {}
  PROVE  \E m \in T : \A k \in T : m <= k
<1> DEFINE R == {ss \in Nat \X Nat : ss[1] < ss[2]}
<1>1. IsWellFoundedOn(R, Nat)
  BY NatLessThanWellFounded DEF OpToRel
<1> HIDE DEF R
<1>2. PICK m \in T : \A k \in T : ~(<<k, m>> \in R)
  BY <1>1, WFMin
<1>3. ASSUME NEW k \in T
      PROVE  m <= k
  <2>1. m \in Nat /\ k \in Nat
    OBVIOUS
  <2>2. ~(k < m)
    BY <1>2, <2>1 DEF R
  <2> QED BY <2>1, <2>2
<1> QED BY <1>3

IsReplay(f, g) ==
  g = [i \in 0..Len(f) |-> IF i = 0 THEN Empty ELSE Read(g[i - 1], f[i])]

LEMMA ReplayDefined ==
  ASSUME NEW f \in Seq(Piece)
  PROVE  \E g : IsReplay(f, g)
<1> DEFINE Bad == {n \in Nat : \E s \in Seq(Piece) : Len(s) = n /\ ~\E g : IsReplay(s, g)}
<1> SUFFICES ASSUME Bad # {} PROVE FALSE
  BY LenProperties
<1>1. PICK n \in Bad : \A k \in Bad : n <= k
  <2> HIDE DEF Bad
  <2>1. Bad \subseteq Nat
    BY DEF Bad
  <2> QED BY <2>1, Least
<1>2. PICK s \in Seq(Piece) : Len(s) = n /\ ~\E g : IsReplay(s, g)
  BY <1>1
<1>3. CASE n = 0
  <2> DEFINE g == [i \in 0..Len(s) |-> Empty]
  <2>1. \A i \in 0..Len(s) : i = 0
    BY <1>2, <1>3
  <2>2. IsReplay(s, g)
    BY <2>1 DEF IsReplay
  <2> QED BY <1>2, <2>2
<1>4. CASE n # 0
  <2> DEFINE t == SubSeq(s, 1, n - 1)
  <2>1. n \in Nat /\ n - 1 \in Nat /\ \A i \in 1..n : s[i] \in Piece
    BY <1>1, <1>2, <1>4, ElementOfSeq
  <2>2. t \in Seq(Piece) /\ Len(t) = n - 1 /\ \A i \in 1..(n - 1) : t[i] = s[i]
    <3>1. \A i \in 1..(n - 1) : s[i] \in Piece
      BY <2>1
    <3>2. /\ t \in Seq(Piece)
          /\ Len(t) = IF 1 <= n - 1 THEN (n - 1) - 1 + 1 ELSE 0
          /\ \A i \in 1..((n - 1) - 1 + 1) : t[i] = s[1 + i - 1]
      BY <2>1, <3>1, SubSeqProperties
    <3> HIDE DEF t
    <3> QED BY <2>1, <3>2
  <2> HIDE DEF t
  <2>3. n - 1 \notin Bad
    BY <1>1, <2>1
  <2>4. PICK g : IsReplay(t, g)
    BY <2>1, <2>2, <2>3
  <2> DEFINE h == [i \in 0..n |-> IF i < n THEN g[i] ELSE Read(g[n - 1], s[n])]
  <2>5. ASSUME NEW i \in 0..n
        PROVE  h[i] = IF i = 0 THEN Empty ELSE Read(h[i - 1], s[i])
    <3>1. CASE i = 0
      BY <1>4, <2>1, <2>2, <2>4, <3>1 DEF IsReplay
    <3>2. CASE i # 0 /\ i < n
      <4>1. i \in 0..(n - 1) /\ i \in 1..(n - 1) /\ i - 1 \in 0..n /\ i - 1 < n
        BY <2>1, <3>2
      <4>2. g[i] = Read(g[i - 1], t[i])
        BY <2>2, <2>4, <3>2, <4>1 DEF IsReplay
      <4>3. h[i] = g[i] /\ h[i - 1] = g[i - 1] /\ t[i] = s[i]
        BY <2>2, <3>2, <4>1
      <4> QED BY <3>2, <4>2, <4>3
    <3>3. CASE i = n
      <4>1. n - 1 \in 0..n /\ n - 1 < n /\ ~(n < n)
        BY <2>1
      <4> QED BY <1>4, <3>3, <4>1
    <3> QED BY <2>1, <3>1, <3>2, <3>3
  <2>6. h = [i \in 0..Len(s) |-> IF i = 0 THEN Empty ELSE Read(h[i - 1], s[i])]
    <3>1. h = [i \in 0..n |-> h[i]]
      OBVIOUS
    <3> HIDE DEF h
    <3> QED BY <1>2, <2>5, <3>1
  <2> HIDE DEF h
  <2>7. IsReplay(s, h)
    BY <2>6 DEF IsReplay
  <2> QED BY <1>2, <2>7
<1> QED BY <1>3, <1>4

(* The table after each piece. *)
After(f) == CHOOSE g : IsReplay(f, g)

LEMMA ReplayAfter ==
  ASSUME NEW f \in Seq(Piece)
  PROVE  /\ Replay(f) = After(f)[Len(f)]
         /\ After(f)[0] = Empty
         /\ \A i \in 1..Len(f) : After(f)[i] = Read(After(f)[i - 1], f[i])
<1>1. Replay(f) = After(f)[Len(f)]
  BY DEF Replay, After, IsReplay, Empty
<1>2. IsReplay(f, After(f))
  BY ReplayDefined DEF After
<1> DEFINE g == After(f)
<1>3. g = [i \in 0..Len(f) |-> IF i = 0 THEN Empty ELSE Read(g[i - 1], f[i])]
  BY <1>2 DEF IsReplay
<1> HIDE DEF g
<1>4. Len(f) \in Nat
  BY LenProperties
<1>5. \A i \in 0..Len(f) : g[i] = IF i = 0 THEN Empty ELSE Read(g[i - 1], f[i])
  BY <1>3
<1>6. g[0] = Empty
  BY <1>4, <1>5
<1>7. \A i \in 1..Len(f) : g[i] = Read(g[i - 1], f[i])
  BY <1>4, <1>5
<1> QED BY <1>1, <1>6, <1>7 DEF g

LEMMA ReplayEmpty == Replay(<<>>) = Empty
<1>1. <<>> \in Seq(Piece) /\ Len(<<>>) = 0
  BY EmptySeq
<1> QED BY <1>1, ReplayAfter

(***************************************************************************)
(* One more piece is read after all that precede it.                       *)
(***************************************************************************)
LEMMA ReplayAppend ==
  ASSUME NEW f \in Seq(Piece), NEW p \in Piece
  PROVE  Append(f, p) \in Seq(Piece) /\ Replay(Append(f, p)) = Read(Replay(f), p)
<1> DEFINE k == Append(f, p)
           n == Len(f)
<1>1. /\ n \in Nat /\ k \in Seq(Piece) /\ Len(k) = n + 1
      /\ k[n + 1] = p /\ \A i \in 1..n : k[i] = f[i]
  BY LenProperties, AppendProperties
<1>2. /\ Replay(f) = After(f)[n] /\ After(f)[0] = Empty
      /\ \A i \in 1..n : After(f)[i] = Read(After(f)[i - 1], f[i])
  BY ReplayAfter
<1>3. /\ Replay(k) = After(k)[n + 1] /\ After(k)[0] = Empty
      /\ \A i \in 1..(n + 1) : After(k)[i] = Read(After(k)[i - 1], k[i])
  <2> HIDE DEF k, n
  <2> QED BY <1>1, ReplayAfter
<1> HIDE DEF k, n
<1>4. After(k)[n] = After(f)[n]
  <2> DEFINE Bad == {i \in 0..n : After(k)[i] # After(f)[i]}
  <2> SUFFICES ASSUME Bad # {} PROVE FALSE
    BY <1>1
  <2>1. PICK m \in Bad : \A i \in Bad : m <= i
    <3> HIDE DEF Bad
    <3>1. Bad \subseteq Nat
      BY <1>1 DEF Bad
    <3> QED BY <3>1, Least
  <2>2. m # 0
    BY <1>2, <1>3, <2>1
  <2>3. m \in 1..n /\ m \in 1..(n + 1) /\ m - 1 \in 0..n /\ ~(m <= m - 1)
    BY <1>1, <2>1, <2>2
  <2>4. After(k)[m - 1] = After(f)[m - 1]
    BY <2>1, <2>3
  <2>5. After(k)[m] = After(f)[m]
    BY <1>1, <1>2, <1>3, <2>3, <2>4
  <2> QED BY <2>1, <2>5
<1>5. After(k)[n + 1] = Read(After(k)[n], k[n + 1])
  <2>1. n + 1 \in 1..(n + 1) /\ (n + 1) - 1 = n
    BY <1>1
  <2> QED BY <1>3, <2>1
<1>6. Replay(k) = Read(Replay(f), p)
  BY <1>1, <1>2, <1>3, <1>4, <1>5
<1> QED BY <1>1, <1>6 DEF k

-----------------------------------------------------------------------------
(***************************************************************************)
(* Stamps and operations.                                                  *)
(***************************************************************************)
LEMMA TimeIsNat == Time \subseteq Nat /\ 0 \in Time
BY BoundAssumption DEF Time

LEMMA NewestOf ==
  ASSUME NEW ts \in [Op -> Time]
  PROVE  /\ Newest(ts) \in Time
         /\ \A o \in Op : ts[o] <= Newest(ts)
         /\ \E o \in Op : Newest(ts) = ts[o]
<1> DEFINE Bounds == {t \in Nat : \A o \in Op : ts[o] <= t}
<1>1. MaxTime \in Bounds /\ Bounds \subseteq Nat
  BY BoundAssumption DEF Time
<1>2. PICK m \in Bounds : \A t \in Bounds : m <= t
  <2> HIDE DEF Bounds
  <2> QED BY <1>1, Least
<1>3. \E o \in Op : ts[o] = m
  <2> SUFFICES ASSUME \A o \in Op : ts[o] # m PROVE FALSE
    OBVIOUS
  <2>1. \A o \in Op : ts[o] \in Nat /\ ts[o] < m
    <3>1. m \in Nat /\ \A o \in Op : ts[o] <= m
      BY <1>2
    <3>2. \A o \in Op : ts[o] \in Nat
      BY TimeIsNat
    <3> QED BY <3>1, <3>2
  <2>2. m - 1 \in Nat /\ \A o \in Op : ts[o] <= m - 1
    BY <1>2, <2>1, OrderAssumption
  <2>3. m - 1 \in Bounds
    BY <2>2
  <2> QED BY <1>2, <2>3
<1>4. m \in Range(ts) /\ \A o \in Op : ts[o] <= m
  BY <1>2, <1>3 DEF Range
<1>5. Newest(ts) \in Range(ts) /\ \A o \in Op : ts[o] <= Newest(ts)
  BY <1>4 DEF Newest
<1> QED BY <1>5 DEF Range

LEMMA LowestOf ==
  ASSUME NEW ops \in SUBSET Op, ops # {}
  PROVE  Lowest(ops) \in ops
<1> DEFINE Places == {i \in 1..Len(Order) : Order[i] \in ops}
<1>1. Len(Order) \in Nat /\ DOMAIN Order = 1..Len(Order)
  BY OrderAssumption, LenProperties
<1>2. Places # {} /\ Places \subseteq Nat
  BY <1>1 DEF Op, Range
<1>3. PICK i \in Places : \A j \in Places : i <= j
  <2> HIDE DEF Places
  <2> QED BY <1>2, Least
<1>4. \A j \in 1..(i - 1) : Order[j] \notin ops
  <2> SUFFICES ASSUME NEW j \in 1..(i - 1), Order[j] \in ops PROVE FALSE
    OBVIOUS
  <2>1. i \in 1..Len(Order) /\ j \in 1..Len(Order) /\ ~(i <= j)
    BY <1>1
  <2> QED BY <1>3, <2>1
<1> QED BY <1>3, <1>4 DEF Lowest

LEMMA EmptyTable == Empty \in Tables /\ Done \in Action
BY TimeIsNat DEF Empty, Tables, Clean, Done, Action

(***************************************************************************)
(* What a record of operations, and a completion of them, make of an entry.*)
(***************************************************************************)
LEMMA IssuedIs ==
  ASSUME NEW a \in Action, NEW r \in Record
  PROVE  /\ Issued(a, r) \in Action
         /\ Issued(a, r).ops = a.ops \cup r.ops
         /\ \A o \in Op : Issued(a, r).ts[o] =
              IF o = Lowest(r.ops) THEN Later(a.ts[o], r.time) ELSE a.ts[o]
         /\ Lowest(r.ops) \in r.ops
         /\ Clean(a) => Clean(Issued(a, r))
<1>1. r.ops \in SUBSET Op /\ r.ops # {} /\ r.time \in Time
  BY DEF Record
<1>2. Lowest(r.ops) \in r.ops /\ Lowest(r.ops) \in Op
  BY <1>1, LowestOf
<1>3. a.ops \in SUBSET Op /\ a.ts \in [Op -> Time]
      /\ a = [ops |-> a.ops, ts |-> a.ts]
  BY DEF Action
<1>4. Later(a.ts[Lowest(r.ops)], r.time) \in Time
  BY <1>1, <1>2, <1>3 DEF Later
<1>5. Issued(a, r) = [ops |-> a.ops \cup r.ops,
                      ts |-> [a.ts EXCEPT ![Lowest(r.ops)] = Later(@, r.time)]]
  BY DEF Issued
<1>6. Issued(a, r) \in Action
  <2>1. [a.ts EXCEPT ![Lowest(r.ops)] = Later(@, r.time)] \in [Op -> Time]
    BY <1>3, <1>4
  <2> QED BY <1>1, <1>3, <1>5, <2>1 DEF Action
<1>7. \A o \in Op : Issued(a, r).ts[o] =
              IF o = Lowest(r.ops) THEN Later(a.ts[o], r.time) ELSE a.ts[o]
  BY <1>3, <1>5
<1>8. Issued(a, r).ops = a.ops \cup r.ops
  BY <1>5
<1> QED BY <1>2, <1>6, <1>7, <1>8 DEF Clean

LEMMA CompletedIs ==
  ASSUME NEW a \in Action, NEW r \in Record
  PROVE  /\ Completed(a, r) \in Action
         /\ \A o \in Op : o \in Completed(a, r).ops
                            <=> o \in a.ops /\ ~(o \in r.ops /\ a.ts[o] <= r.time)
         /\ \A o \in Op : o \in Completed(a, r).ops => Completed(a, r).ts[o] = a.ts[o]
         /\ \A o \in Op : Completed(a, r).ts[o] \in {0, a.ts[o]}
         /\ Clean(a) => Clean(Completed(a, r))
<1> DEFINE over == {o \in a.ops \cap r.ops : a.ts[o] <= r.time}
           rest == [ops |-> a.ops \ over,
                    ts |-> [o \in Op |-> IF o \in over THEN 0 ELSE a.ts[o]]]
<1>1. a.ops \in SUBSET Op /\ a.ts \in [Op -> Time]
      /\ a = [ops |-> a.ops, ts |-> a.ts]
  BY DEF Action
<1>2. over \subseteq a.ops
  OBVIOUS
<1>3. Completed(a, r) = IF a.ops = over THEN Done ELSE rest
  BY DEF Completed
<1>4. rest \in Action
  BY <1>1, TimeIsNat DEF Action
<1>5. CASE a.ops = over
  <2>1. Completed(a, r) = Done
    BY <1>3, <1>5
  <2>2. Done \in Action /\ Done.ops = {} /\ \A o \in Op : Done.ts[o] = 0
    BY EmptyTable DEF Done
  <2>3. \A o \in Op : o \in a.ops => o \in r.ops /\ a.ts[o] <= r.time
    BY <1>5
  <2> QED BY <2>1, <2>2, <2>3 DEF Clean
<1>6. CASE a.ops # over
  <2>1. Completed(a, r) = rest
    BY <1>3, <1>6
  <2>2. \A o \in Op : rest.ts[o] = IF o \in over THEN 0 ELSE a.ts[o]
    OBVIOUS
  <2>3. \A o \in Op : o \in rest.ops <=> o \in a.ops /\ o \notin over
    OBVIOUS
  <2>4. \A o \in Op : o \in over <=> o \in a.ops /\ o \in r.ops /\ a.ts[o] <= r.time
    OBVIOUS
  <2> HIDE DEF rest, over
  <2> QED BY <1>4, <2>1, <2>2, <2>3, <2>4 DEF Clean
<1> QED BY <1>5, <1>6

LEMMA ReadTable ==
  ASSUME NEW m \in Tables, NEW p \in Piece
  PROVE  /\ Read(m, p) \in Tables
         /\ p.part # "name" => Read(m, p) = m
         /\ p.part = "name" => \A n \in Name : Read(m, p)[n] =
              IF n # p.of.name THEN m[n]
              ELSE IF p.of.type = "i" THEN Issued(m[n], p.of) ELSE Completed(m[n], p.of)
<1>1. p.of \in Record /\ p.of.name \in Name /\ m \in [Name -> Action]
      /\ \A n \in Name : Clean(m[n])
  BY DEF Piece, Record, Tables
<1>2. /\ p.part # "name" => Read(m, p) = m
      /\ p.part = "name" => \A n \in Name : Read(m, p)[n] =
           IF n # p.of.name THEN m[n]
           ELSE IF p.of.type = "i" THEN Issued(m[n], p.of) ELSE Completed(m[n], p.of)
  BY <1>1 DEF Read
<1>3. Read(m, p) \in [Name -> Action]
  <2>1. Issued(m[p.of.name], p.of) \in Action /\ Completed(m[p.of.name], p.of) \in Action
    BY <1>1, IssuedIs, CompletedIs
  <2> QED BY <1>1, <2>1 DEF Read
<1>4. \A n \in Name : Clean(Issued(m[n], p.of)) /\ Clean(Completed(m[n], p.of))
  BY <1>1, IssuedIs, CompletedIs
<1>5. \A n \in Name : Clean(Read(m, p)[n])
  BY <1>1, <1>2, <1>4
<1> QED BY <1>2, <1>3, <1>5 DEF Tables

LEMMA ReplayTable ==
  ASSUME NEW f \in Seq(Piece)
  PROVE  Replay(f) \in Tables
<1> DEFINE n == Len(f)
           Bad == {i \in 0..n : After(f)[i] \notin Tables}
<1>1. /\ n \in Nat /\ Replay(f) = After(f)[n] /\ After(f)[0] = Empty
      /\ \A i \in 1..n : After(f)[i] = Read(After(f)[i - 1], f[i]) /\ f[i] \in Piece
  BY LenProperties, ReplayAfter, ElementOfSeq
<1> HIDE DEF n
<1> SUFFICES ASSUME Bad # {} PROVE FALSE
  BY <1>1
<1>2. PICK m \in Bad : \A i \in Bad : m <= i
  <2> HIDE DEF Bad
  <2>1. Bad \subseteq Nat
    BY <1>1 DEF Bad
  <2> QED BY <2>1, Least
<1>3. m # 0
  BY <1>1, <1>2, EmptyTable
<1>4. m \in 1..n /\ m - 1 \in 0..n /\ ~(m <= m - 1)
  BY <1>1, <1>2, <1>3
<1>5. After(f)[m - 1] \in Tables
  BY <1>2, <1>4
<1>6. After(f)[m] \in Tables
  BY <1>1, <1>4, <1>5, ReadTable
<1> QED BY <1>2, <1>6

-----------------------------------------------------------------------------
(***************************************************************************)
(* Types.                                                                  *)
(***************************************************************************)
LEMMA PieceTypes ==
  ASSUME NEW r \in Record
  PROVE  /\ Pieces(r) \in Seq(Piece) /\ Len(Pieces(r)) = 2
         /\ Pieces(r)[1] = [part |-> "head", of |-> r]
         /\ Pieces(r)[2] = [part |-> "name", of |-> r]
         /\ [part |-> "head", of |-> r] \in Piece
         /\ [part |-> "name", of |-> r] \in Piece
         /\ [part |-> "newname", of |-> r] \in Piece
BY DEF Pieces, Piece

LEMMA CompletionType ==
  ASSUME NEW s \in Job, s.got # {}
  PROVE  Completion(s) \in Record
<1>1. s.action.ts \in [Op -> Time] /\ s.name \in Name /\ s.got \in SUBSET Op
  BY DEF Job, Action
<1> QED BY <1>1, NewestOf DEF Completion, Record

LEMMA JoinedType ==
  ASSUME NEW a \in Action, NEW left \in SUBSET Op, NEW ts \in [Op -> Time]
  PROVE  Joined(a, left, ts) \in Action
BY DEF Joined, Action, Later

LEMMA TurnedType ==
  ASSUME NEW s \in Job, NEW to \in {"ending", "done"},
         status \in [Name -> [Op -> {"none", "begun", "written", "ending", "done"}]],
         Turned(s, to)
  PROVE  /\ status' \in [Name -> [Op -> {"none", "begun", "written", "ending", "done"}]]
         /\ \A n \in Name, o \in Op :
              status'[n][o] = IF n = s.name /\ Covers(s, o) THEN to ELSE status[n][o]
<1>1. s.name \in Name
  BY DEF Job
<1>2. status' = [status EXCEPT ![s.name] =
                   [o \in Op |-> IF Covers(s, o) THEN to ELSE status[s.name][o]]]
  BY DEF Turned
<1> QED BY <1>1, <1>2

LEMMA FlushType ==
  ASSUME TypeOK, log # NoFile, Flush
  PROVE  log' \in Seq(Piece) /\ buffer' = <<>> /\ buffer' \in Seq(Piece) /\ old' = old
BY ConcatProperties, EmptySeq DEF Flush, TypeOK, IsFile

LEMMA LoadType ==
  ASSUME TypeOK, Memory, mode = "read", NEW m \in Tables, Load(m), clock' = clock,
         UNCHANGED <<files, crashes, status, latest>>, faults' \subseteq {"cut", "garbled", "crossed"}
  PROVE  TypeOK' /\ Memory'
<1>1. m \in [Name -> Action] /\ todo = {}
  BY DEF Tables, Memory
<1>2. TypeOK'
  BY <1>1 DEF TypeOK, IsFile, Load, files
<1>3. Memory'
  BY <1>1 DEF Memory, Load
<1> QED BY <1>2, <1>3

LEMMA RecoveryType ==
  ASSUME TypeOK, Memory, Disk, Recovery
  PROVE  TypeOK' /\ Memory' /\ Disk'
<1>1. CASE StartWithLog
  BY <1>1 DEF StartWithLog, TypeOK, IsFile, Memory, Disk, memory, history
<1>2. CASE StartWithout
  BY <1>2 DEF StartWithout, TypeOK, IsFile, Memory, Disk, files, memory, history
<1>3. ASSUME mode = "read"
      PROVE  old \in Seq(Piece)
  BY <1>3 DEF TypeOK, IsFile, Disk
<1>4. CASE ReadOld
  <2>1. mode = "read" /\ Load(Replay(old)) /\ clock' = clock /\ UNCHANGED files
        /\ UNCHANGED history /\ mode' = "delete"
    BY <1>4 DEF ReadOld, Load
  <2>2. Replay(old) \in Tables
    BY <1>3, <2>1, ReplayTable
  <2>3. faults' \subseteq {"cut", "garbled", "crossed"}
    BY <2>1 DEF TypeOK, history
  <2> QED BY <2>1, <2>2, <2>3, LoadType DEF Disk, history
<1>5. CASE ReadGarbled
  <2>1. /\ mode = "read" /\ clock' = clock /\ UNCHANGED files
        /\ UNCHANGED <<crashes, status, latest>> /\ faults' = faults \cup {"garbled"}
    BY <1>5 DEF ReadGarbled
  <2>2. faults' \subseteq {"cut", "garbled", "crossed"}
    BY <2>1 DEF TypeOK
  <2>3. CASE mode' = "down" /\ UNCHANGED memory
    BY <2>1, <2>2, <2>3 DEF TypeOK, IsFile, Memory, Disk, files, memory
  <2>4. CASE \E i \in 1..Len(old) : Load(Replay(SubSeq(old, 1, i - 1)))
    <3>1. PICK i \in 1..Len(old) : Load(Replay(SubSeq(old, 1, i - 1)))
      BY <2>4
    <3>2. i - 1 \in Int /\ \A j \in 1..(i - 1) : old[j] \in Piece
      BY <1>3, <2>1, ElementOfSeq, LenProperties
    <3>3. SubSeq(old, 1, i - 1) \in Seq(Piece)
      BY <3>2, SubSeqProperties
    <3>4. Replay(SubSeq(old, 1, i - 1)) \in Tables
      BY <3>3, ReplayTable
    <3>5. mode' = "delete"
      BY <3>1 DEF Load
    <3> QED BY <2>1, <2>2, <3>1, <3>4, <3>5, LoadType DEF Disk
  <2> QED BY <1>5, <2>3, <2>4 DEF ReadGarbled
<1>6. CASE DeleteOld
  BY <1>6 DEF DeleteOld, TypeOK, IsFile, Memory, Disk, memory, history
<1>7. CASE CreateLog
  <2>1. /\ mode = "create" /\ mode' = "issue" /\ log' = <<>> /\ loaded' = loaded
        /\ todo' = {n \in Name : loaded[n].ops # {}}
        /\ UNCHANGED <<clock, old, buffer, pending, writing, change, sender, history>>
    BY <1>7 DEF CreateLog
  <2>2. log' \in Seq(Piece) /\ log' # NoFile
    BY <2>1, EmptySeq, NoFileAssumption
  <2>3. TypeOK'
    BY <2>1, <2>2 DEF TypeOK, IsFile, history
  <2> QED BY <2>1, <2>2, <2>3 DEF Memory, Disk
<1>8. CASE \E n \in Name : Reissue(n)
  <2>1. PICK n \in Name : Reissue(n)
    BY <1>8
  <2> DEFINE r == [type |-> "i", ops |-> loaded[n].ops, time |-> Newest(loaded[n].ts),
                   name |-> n]
             last == IF "move" \in r.ops THEN <<[part |-> "newname", of |-> r]>> ELSE <<>>
  <2>2. /\ mode = "issue" /\ n \in todo /\ log' = log \o Pieces(r) \o last
        /\ todo' = todo \ {n}
        /\ UNCHANGED <<clock, mode, old, buffer, loaded, pending, writing, change,
                       sender, history>>
    BY <2>1 DEF Reissue
  <2>3. loaded[n] \in Action /\ loaded[n].ops # {}
    BY <2>2 DEF TypeOK, Memory
  <2>4. r \in Record
    BY <2>3, NewestOf DEF Action, Record
  <2>5. log \in Seq(Piece)
    BY <2>2 DEF TypeOK, IsFile, Disk
  <2> HIDE DEF r
  <2>6. last \in Seq(Piece) /\ Pieces(r) \in Seq(Piece)
    <3>1. Pieces(r) \in Seq(Piece) /\ [part |-> "newname", of |-> r] \in Piece
      BY <2>4, PieceTypes
    <3> QED BY <3>1, EmptySeq
  <2> HIDE DEF last
  <2>7. log' \in Seq(Piece)
    BY <2>2, <2>5, <2>6, ConcatProperties
  <2>8. TypeOK'
    BY <2>2, <2>7 DEF TypeOK, IsFile, history
  <2> QED BY <2>2, <2>7, <2>8, NoFileAssumption DEF Memory, Disk
<1>9. CASE SwapIn
  <2>1. /\ mode = "issue" /\ todo = {} /\ mode' = "up" /\ pending' = loaded
        /\ loaded' = Empty
        /\ latest' = [n \in Name |-> [o \in Op |-> IF o \in loaded[n].ops THEN loaded[n].ts[o]
                                                   ELSE latest[n][o]]]
        /\ UNCHANGED <<clock, files, buffer, todo, writing, change, sender, crashes,
                       status, faults>>
    BY <1>9 DEF SwapIn, Empty
  <2>2. Empty \in Tables /\ Empty \in [Name -> Action]
    BY EmptyTable DEF Tables
  <2>3. latest' \in [Name -> [Op -> Time]]
    BY <2>1 DEF TypeOK, Action
  <2>4. TypeOK'
    BY <2>1, <2>2, <2>3 DEF TypeOK, IsFile, files
  <2> QED BY <2>1, <2>2, <2>4 DEF Memory, Disk, files
<1> QED BY <1>1, <1>2, <1>4, <1>5, <1>6, <1>7, <1>8, <1>9 DEF Recovery

-----------------------------------------------------------------------------
(***************************************************************************)
(* The frame: types, what is in memory in each mode, and what each thread  *)
(* is writing.                                                             *)
(***************************************************************************)
LEMMA Asleep ==
  ASSUME change = Nobody, writing = [t \in Thread |-> <<>>], sender = [w \in Worker |-> Nobody]
  PROVE  Merging /\ Finalizing /\ Sending
BY DEF Merging, Finalizing, Sending, Thread

LEMMA UpFacts ==
  ASSUME Frame, mode = "up"
  PROVE  /\ log \in Seq(Piece) /\ buffer \in Seq(Piece) /\ log # NoFile
         /\ log \o buffer \in Seq(Piece)
         /\ Held = Replay(log) /\ Held \in Tables /\ Soon \in Tables
<1>1. log \in Seq(Piece) /\ buffer \in Seq(Piece) /\ log # NoFile
  BY DEF Frame, TypeOK, IsFile, Disk
<1>2. log \o buffer \in Seq(Piece)
  BY <1>1, ConcatProperties
<1> QED BY <1>1, <1>2, ReplayTable DEF Held, Soon

LEMMA RestOf ==
  ASSUME NEW r \in Record, NEW s, Rest(s, r), s # <<>>
  PROVE  /\ Rest(Tail(s), r)
         /\ \/ /\ Len(s) = 2 /\ Head(s) = [part |-> "head", of |-> r] /\ Tail(s) # <<>>
            \/ /\ Len(s) = 1 /\ Head(s) = [part |-> "name", of |-> r] /\ Tail(s) = <<>>
<1>1. Pieces(r) = <<[part |-> "head", of |-> r], [part |-> "name", of |-> r]>>
  BY DEF Pieces
<1>2. CASE s = Pieces(r)
  <2>1. Tail(s) = <<[part |-> "name", of |-> r]>> /\ Tail(s) = <<Pieces(r)[2]>>
    BY <1>1, <1>2
  <2>2. Tail(s) # <<>>
    BY <2>1
  <2> QED BY <1>1, <1>2, <2>1, <2>2 DEF Rest
<1>3. CASE s = <<Pieces(r)[2]>>
  <2>1. Tail(s) = <<>> /\ Len(s) = 1 /\ Head(s) = [part |-> "name", of |-> r]
    BY <1>1, <1>3
  <2> QED BY <2>1 DEF Rest
<1> QED BY <1>2, <1>3 DEF Rest

LEMMA NotedType ==
  ASSUME NEW c \in Change
  PROVE  Noted(c) \in Record
BY DEF Change, Noted, Record

(***************************************************************************)
(* A step of a thread, once the client is up.                              *)
(***************************************************************************)
LEMMA UpStays ==
  ASSUME Memory, Disk, mode = "up", mode' = "up", loaded' = loaded, todo' = todo,
         log' = log \/ log' \in Seq(Piece)
  PROVE  Memory' /\ Disk'
<1>1. Memory'
  BY DEF Memory
<1>2. Disk'
  BY NoFileAssumption DEF Disk
<1> QED BY <1>1, <1>2

LEMMA WritesFrame ==
  ASSUME Frame, NEW t \in Thread, Writes(t),
         status' \in [Name -> [Op -> {"none", "begun", "written", "ending", "done"}]],
         UNCHANGED <<crashes, latest>>, faults' \subseteq {"cut", "garbled", "crossed"}
  PROVE  /\ TypeOK' /\ Memory' /\ Disk' /\ Sending'
         /\ \A u \in Thread : u # t => writing'[u] = writing[u]
         /\ writing'[t] = Tail(writing[t])
<1>1. /\ mode = "up" /\ mode' = "up" /\ writing[t] # <<>>
      /\ buffer' = Append(buffer, Head(writing[t]))
      /\ writing' = [writing EXCEPT ![t] = Tail(writing[t])]
      /\ UNCHANGED <<clock, old, log, loaded, todo, pending, change, sender>>
  BY DEF Writes, files
<1>2. writing \in [Thread -> Seq(Piece)] /\ writing[t] \in Seq(Piece) /\ buffer \in Seq(Piece)
  BY DEF Frame, TypeOK
<1>3. Head(writing[t]) \in Piece /\ Tail(writing[t]) \in Seq(Piece)
  BY <1>1, <1>2, HeadTailProperties
<1>4. buffer' \in Seq(Piece) /\ writing' \in [Thread -> Seq(Piece)]
  BY <1>1, <1>2, <1>3, AppendProperties
<1>5. TypeOK'
  BY <1>1, <1>4 DEF Frame, TypeOK, IsFile
<1>6. Memory' /\ Disk'
  BY <1>1, UpStays DEF Frame
<1>7. Sending'
  BY <1>1 DEF Frame, Sending
<1> QED BY <1>1, <1>2, <1>5, <1>6, <1>7

LEMMA MergerWritesFrame ==
  ASSUME Frame, MergerWrites
  PROVE  Frame'
<1>1. /\ Writes("merger") /\ "merger" \in Thread /\ "merger" \notin Worker
      /\ UNCHANGED history /\ change' = change /\ sender' = sender
      /\ writing["merger"] # <<>>
  BY ThreadAssumption DEF MergerWrites, Writes, Thread
<1>2. /\ TypeOK' /\ Memory' /\ Disk' /\ Sending'
      /\ \A u \in Thread : u # "merger" => writing'[u] = writing[u]
      /\ writing'["merger"] = Tail(writing["merger"])
  BY <1>1, WritesFrame DEF Frame, TypeOK, history
<1>3. Finalizing'
  BY <1>1, <1>2 DEF Frame, Finalizing, Thread
<1>4. Merging'
  <2>1. change # Nobody
    BY <1>1 DEF Frame, Merging
  <2>2. change \in Change /\ writing["merger"] \in Seq(Piece)
    BY <1>1, <2>1 DEF Frame, TypeOK
  <2>3. CASE change.stage = "old"
    <3>1. Rest(writing'["merger"], Noted(change))
      BY <1>1, <1>2, <2>1, <2>2, <2>3, NotedType, RestOf DEF Frame, Merging
    <3> QED BY <1>1, <2>1, <2>3, <3>1 DEF Merging
  <2>4. CASE change.stage = "half"
    BY <1>1, <2>1, <2>4 DEF Frame, Merging
  <2>5. CASE change.stage = "new"
    <3>1. \A i \in 1..Len(writing["merger"]) : writing["merger"][i].part = "newname"
      BY <2>1, <2>5 DEF Frame, Merging
    <3>2. /\ Len(writing'["merger"]) = Len(writing["merger"]) - 1
          /\ \A i \in 1..Len(writing'["merger"]) :
               writing'["merger"][i] = writing["merger"][i + 1]
      BY <1>1, <1>2, <2>2, HeadTailProperties
    <3>3. Len(writing["merger"]) \in Nat
      BY <2>2, LenProperties
    <3>4. \A i \in 1..Len(writing'["merger"]) : i + 1 \in 1..Len(writing["merger"])
      BY <3>2, <3>3
    <3>5. \A i \in 1..Len(writing'["merger"]) : writing'["merger"][i].part = "newname"
      BY <3>1, <3>2, <3>4
    <3> QED BY <1>1, <2>1, <2>5, <3>5 DEF Merging
  <2> QED BY <2>2, <2>3, <2>4, <2>5 DEF Change
<1> QED BY <1>2, <1>3, <1>4 DEF Frame

LEMMA SenderWritesFrame ==
  ASSUME Frame, NEW w \in Worker, SenderWrites(w)
  PROVE  /\ Frame' /\ sender[w] # Nobody /\ sender[w] \in Job
         /\ sender[w].stage = "finalize" /\ Completion(sender[w]) \in Record
         /\ Rest(writing[w], Completion(sender[w])) /\ writing[w] # <<>>
<1>1. /\ Writes(w) /\ w \in Thread /\ w # "merger" /\ change' = change /\ sender' = sender
      /\ writing[w] # <<>> /\ UNCHANGED <<crashes, latest>>
      /\ faults' \subseteq {"cut", "garbled", "crossed"}
  BY ThreadAssumption DEF SenderWrites, Writes, Thread, Frame, TypeOK
<1>2. sender[w] # Nobody /\ sender[w].stage = "finalize"
      /\ Rest(writing[w], Completion(sender[w]))
  BY <1>1 DEF Frame, Finalizing
<1>3. sender[w] \in Job /\ sender[w].got # {}
  BY <1>2 DEF Frame, TypeOK, Sending
<1>4. Completion(sender[w]) \in Record
  BY <1>3, CompletionType
<1>5. status' \in [Name -> [Op -> {"none", "begun", "written", "ending", "done"}]]
  <2>1. CASE Len(writing[w]) = 1
    BY <1>3, <2>1, TurnedType DEF SenderWrites, Frame, TypeOK
  <2>2. CASE Len(writing[w]) # 1
    BY <2>2 DEF SenderWrites, Frame, TypeOK
  <2> QED BY <2>1, <2>2
<1>6. /\ TypeOK' /\ Memory' /\ Disk' /\ Sending'
      /\ \A u \in Thread : u # w => writing'[u] = writing[u]
      /\ writing'[w] = Tail(writing[w])
  BY <1>1, <1>5, WritesFrame
<1>7. Merging'
  BY <1>1, <1>6 DEF Frame, Merging, Thread
<1>8. Rest(writing'[w], Completion(sender[w]))
  BY <1>1, <1>2, <1>4, <1>6, RestOf
<1>9. Finalizing'
  <2> SUFFICES ASSUME NEW v \in Worker
               PROVE  IF sender'[v] # Nobody /\ sender'[v].stage = "finalize"
                      THEN Rest(writing'[v], Completion(sender'[v]))
                      ELSE writing'[v] = <<>>
    BY DEF Finalizing
  <2>1. CASE v = w
    BY <1>1, <1>2, <1>8, <2>1
  <2>2. CASE v # w
    BY <1>1, <1>6, <2>2 DEF Frame, Finalizing, Thread
  <2> QED BY <2>1, <2>2
<1> QED BY <1>1, <1>2, <1>3, <1>4, <1>6, <1>7, <1>9 DEF Frame

LEMMA BeginFrame ==
  ASSUME Frame, NEW n \in Name, NEW o \in Op, Begin(n, o)
  PROVE  Frame'
<1> DEFINE c == [name |-> n, op |-> o, time |-> clock + 1, stage |-> "old"]
<1>1. /\ mode = "up" /\ mode' = "up" /\ clock' = clock + 1 /\ clock < MaxTime
      /\ change' = c /\ writing' = [writing EXCEPT !["merger"] = Pieces(Noted(c))]
      /\ status' = [status EXCEPT ![n][o] = "begun"]
      /\ latest' = [latest EXCEPT ![n][o] = clock + 1]
      /\ UNCHANGED <<old, log, buffer, loaded, todo, pending, sender, crashes, faults>>
  BY DEF Begin, files, Noted
<1>2. clock + 1 \in Time /\ c \in Change
  BY <1>1, BoundAssumption DEF Frame, TypeOK, Time, Change
<1> HIDE DEF c
<1>3. Noted(c) \in Record /\ Pieces(Noted(c)) \in Seq(Piece)
  BY <1>2, NotedType, PieceTypes
<1>4. TypeOK'
  <2>1. writing' \in [Thread -> Seq(Piece)]
    BY <1>1, <1>3 DEF Frame, TypeOK
  <2>2. status' \in [Name -> [Op -> {"none", "begun", "written", "ending", "done"}]]
    BY <1>1 DEF Frame, TypeOK
  <2>3. latest' \in [Name -> [Op -> Time]]
    BY <1>1, <1>2 DEF Frame, TypeOK
  <2> QED BY <1>1, <1>2, <2>1, <2>2, <2>3 DEF Frame, TypeOK, IsFile
<1>5. Memory' /\ Disk'
  BY <1>1, UpStays DEF Frame
<1>6. /\ writing'["merger"] = Pieces(Noted(c))
      /\ \A w \in Worker : writing'[w] = writing[w]
  BY <1>1, ThreadAssumption DEF Frame, TypeOK, Thread
<1>7. Merging'
  BY <1>1, <1>2, <1>6, NobodyAssumption DEF Merging, Rest, c
<1>8. Finalizing' /\ Sending'
  BY <1>1, <1>6 DEF Frame, Finalizing, Sending
<1> QED BY <1>4, <1>5, <1>7, <1>8 DEF Frame

(***************************************************************************)
(* A step of the merge thread that writes nothing of a change.             *)
(***************************************************************************)
LEMMA StageFrame ==
  ASSUME Frame, mode = "up", mode' = "up", change # Nobody, writing["merger"] = <<>>,
         UNCHANGED <<clock, old, loaded, todo, pending, sender, history>>,
         log' \in Seq(Piece), buffer' \in Seq(Piece),
         NEW s \in {"half", "new"}, change' = [change EXCEPT !.stage = s],
         NEW q \in Seq(Piece), writing' = [writing EXCEPT !["merger"] = q],
         s = "half" => q = <<>>,
         s = "new" => \A i \in 1..Len(q) : q[i].part = "newname"
  PROVE  Frame'
<1>1. change \in Change /\ change' \in Change /\ change'.stage = s
  BY DEF Frame, TypeOK, Change
<1>2. "merger" \in Thread /\ writing \in [Thread -> Seq(Piece)]
  BY DEF Thread, Frame, TypeOK
<1>3. writing'["merger"] = q /\ \A w \in Worker : writing'[w] = writing[w]
  BY <1>2, ThreadAssumption DEF Thread
<1>4. TypeOK'
  BY <1>1, <1>2 DEF Frame, TypeOK, IsFile, history
<1>5. Memory' /\ Disk'
  BY UpStays DEF Frame
<1>6. Merging'
  BY <1>1, <1>3, NobodyAssumption DEF Merging
<1>7. Finalizing' /\ Sending'
  BY <1>3 DEF Frame, Finalizing, Sending
<1> QED BY <1>4, <1>5, <1>6, <1>7 DEF Frame

LEMMA OldNameWrittenFrame ==
  ASSUME Frame, OldNameWritten
  PROVE  Frame'
<1>1. /\ mode = "up" /\ mode' = "up" /\ change # Nobody /\ writing["merger"] = <<>> /\ Flush
      /\ change' = [change EXCEPT !.stage = "half"]
      /\ UNCHANGED <<clock, loaded, todo, pending, writing, sender, history>>
  BY DEF OldNameWritten, Written
<1>2. log' \in Seq(Piece) /\ buffer' \in Seq(Piece) /\ old' = old
  BY <1>1, UpFacts, FlushType DEF Frame
<1>3. writing' = [writing EXCEPT !["merger"] = <<>>]
  BY <1>1 DEF Frame, TypeOK, Thread
<1>4. <<>> \in Seq(Piece)
  BY EmptySeq
<1> QED BY <1>1, <1>2, <1>3, <1>4, StageFrame

LEMMA NewNameFrame ==
  ASSUME Frame, NewName
  PROVE  Frame'
<1> DEFINE p == [part |-> "newname", of |-> [type |-> "i", ops |-> {"move"},
                                           time |-> change.time, name |-> change.name]]
           q == <<p>>
<1>1. /\ mode = "up" /\ mode' = "up" /\ change # Nobody /\ writing["merger"] = <<>>
      /\ change' = [change EXCEPT !.stage = "new"]
      /\ writing' = [writing EXCEPT !["merger"] = q]
      /\ UNCHANGED <<clock, old, log, buffer, loaded, todo, pending, sender, history>>
  BY DEF NewName, Written, files
<1>2. change \in Change
  BY <1>1 DEF Frame, TypeOK
<1>3. p \in Piece /\ p.part = "newname"
  BY <1>2, OrderAssumption DEF Change, Piece, Record
<1>4. q \in Seq(Piece) /\ \A i \in 1..Len(q) : q[i].part = "newname"
  BY <1>3
<1>5. log \in Seq(Piece) /\ buffer \in Seq(Piece)
  BY <1>1, UpFacts
<1> HIDE DEF q
<1> QED BY <1>1, <1>4, <1>5, StageFrame

LEMMA MergedIs ==
  ASSUME NEW a \in Action, NEW c \in Change
  PROVE  /\ Merged(a, c) \in Action
         /\ Merged(a, c).ops = a.ops \cup {c.op}
         /\ \A o \in Op : Merged(a, c).ts[o] = IF o = c.op THEN c.time ELSE a.ts[o]
<1>1. a.ops \in SUBSET Op /\ a.ts \in [Op -> Time] /\ c.op \in Op /\ c.time \in Time
  BY DEF Action, Change
<1>2. [a.ts EXCEPT ![c.op] = c.time] \in [Op -> Time]
  BY <1>1
<1> QED BY <1>1, <1>2 DEF Merged, Action

LEMMA MergeFrame ==
  ASSUME Frame, Merge
  PROVE  /\ Frame' /\ change \in Change /\ change # Nobody /\ mode = "up" /\ Flush
<1>1. /\ mode = "up" /\ mode' = "up" /\ change # Nobody /\ writing["merger"] = <<>> /\ Flush
      /\ status' = [status EXCEPT ![change.name][change.op] = "written"]
      /\ change' = Nobody
      /\ pending' = [pending EXCEPT ![change.name] = Merged(pending[change.name], change)]
      /\ UNCHANGED <<clock, loaded, todo, writing, sender, crashes, latest, faults>>
  BY DEF Merge, Written
<1>2. change \in Change /\ pending \in [Name -> Action]
  BY <1>1 DEF Frame, TypeOK
<1>3. change.name \in Name /\ change.op \in Op
  BY <1>2 DEF Change
<1>4. Merged(pending[change.name], change) \in Action
  BY <1>2, <1>3, MergedIs
<1>5. pending' \in [Name -> Action]
  BY <1>1, <1>2, <1>4
<1>6. log' \in Seq(Piece) /\ buffer' \in Seq(Piece) /\ old' = old
  BY <1>1, UpFacts, FlushType DEF Frame
<1>7. status' \in [Name -> [Op -> {"none", "begun", "written", "ending", "done"}]]
  BY <1>1, <1>3 DEF Frame, TypeOK
<1>8. TypeOK'
  BY <1>1, <1>5, <1>6, <1>7 DEF Frame, TypeOK, IsFile
<1>9. Memory' /\ Disk'
  BY <1>1, <1>6, UpStays DEF Frame
<1>10. Merging' /\ Finalizing' /\ Sending'
  BY <1>1 DEF Frame, Merging, Finalizing, Sending
<1> QED BY <1>1, <1>2, <1>8, <1>9, <1>10 DEF Frame

(***************************************************************************)
(* A step of one sender that leaves the files and what threads write.      *)
(***************************************************************************)
LEMMA SenderFrame ==
  ASSUME Frame, mode = "up", mode' = "up", NEW w \in Worker, NEW s \in Job \cup {Nobody},
         sender' = [sender EXCEPT ![w] = s],
         pending' \in [Name -> Action],
         UNCHANGED <<clock, old, log, buffer, loaded, todo, change, history>>,
         s # Nobody => /\ s.action.ops # {} /\ s.got \subseteq s.action.ops
                       /\ s.stage = "finalize" => s.got # {},
         NEW q \in Seq(Piece), writing' = [writing EXCEPT ![w] = q],
         IF s # Nobody /\ s.stage = "finalize" THEN Rest(q, Completion(s)) ELSE q = <<>>
  PROVE  Frame'
<1>1. /\ w \in Thread /\ w # "merger" /\ writing \in [Thread -> Seq(Piece)]
      /\ sender \in [Worker -> Job \cup {Nobody}]
  BY ThreadAssumption DEF Thread, Frame, TypeOK
<1>2. /\ sender'[w] = s /\ writing'[w] = q /\ writing'["merger"] = writing["merger"]
      /\ \A v \in Worker : v # w => sender'[v] = sender[v] /\ writing'[v] = writing[v]
  BY <1>1 DEF Thread
<1>3. TypeOK'
  BY <1>1 DEF Frame, TypeOK, IsFile, history
<1>4. Memory' /\ Disk'
  BY UpStays DEF Frame
<1>5. Merging'
  BY <1>2 DEF Frame, Merging
<1>6. Finalizing'
  BY <1>2 DEF Frame, Finalizing
<1>7. Sending'
  BY <1>2 DEF Frame, Sending
<1> QED BY <1>3, <1>4, <1>5, <1>6, <1>7 DEF Frame

LEMMA SendFrame ==
  ASSUME Frame, NEW w \in Worker, NEW n \in Name, Send(w, n)
  PROVE  Frame'
<1> DEFINE s == [name |-> n, action |-> pending[n], got |-> {}, stage |-> "send"]
<1>1. /\ mode = "up" /\ mode' = "up" /\ sender[w] = Nobody /\ pending[n].ops # {}
      /\ sender' = [sender EXCEPT ![w] = s] /\ pending' = [pending EXCEPT ![n] = Done]
      /\ UNCHANGED <<clock, old, log, buffer, loaded, todo, writing, change, history>>
  BY DEF Send, files
<1>2. pending \in [Name -> Action] /\ s \in Job /\ w \in Thread
  BY DEF Frame, TypeOK, Job, Thread
<1>3. pending' \in [Name -> Action]
  BY <1>1, <1>2, EmptyTable
<1>4. writing[w] = <<>> /\ writing' = [writing EXCEPT ![w] = <<>>]
  BY <1>1, <1>2 DEF Frame, Finalizing, TypeOK
<1>5. s # Nobody /\ s.action.ops # {} /\ s.got \subseteq s.action.ops /\ s.stage = "send"
  BY <1>1, <1>2, NobodyAssumption
<1>6. <<>> \in Seq(Piece)
  BY EmptySeq
<1> HIDE DEF s
<1> QED BY <1>1, <1>2, <1>3, <1>4, <1>5, <1>6, SenderFrame

LEMMA AnswerFrame ==
  ASSUME Frame, NEW w \in Worker, NEW k, Answer(w, k)
  PROVE  Frame'
<1> DEFINE got == {o \in sender[w].action.ops : \E i \in 1..k : Order[i] = o}
           s == [sender[w] EXCEPT !.got = got, !.stage = "putback"]
<1>1. /\ mode = "up" /\ mode' = "up" /\ sender[w] # Nobody /\ sender[w].stage = "send"
      /\ UNCHANGED <<clock, old, log, buffer, loaded, todo, pending, writing, change, history>>
  BY DEF Answer, At, files
<1>2. /\ sender \in [Worker -> Job \cup {Nobody}] /\ sender[w] \in Job /\ w \in Thread
      /\ writing \in [Thread -> Seq(Piece)] /\ pending \in [Name -> Action]
  BY <1>1 DEF Frame, TypeOK, Thread
<1>3. sender' = [sender EXCEPT ![w] = s]
  BY <1>2 DEF Answer
<1>4. got \subseteq sender[w].action.ops /\ got \in SUBSET Op
  BY <1>2 DEF Job, Action
<1> HIDE DEF got
<1>5. s \in Job /\ s.got = got /\ s.stage = "putback" /\ s.action = sender[w].action
  BY <1>2, <1>4 DEF Job
<1>6. s.action.ops # {}
  BY <1>1, <1>5 DEF Frame, Sending
<1>7. writing[w] = <<>> /\ writing' = [writing EXCEPT ![w] = <<>>]
  BY <1>1, <1>2 DEF Frame, Finalizing
<1>8. <<>> \in Seq(Piece)
  BY EmptySeq
<1> HIDE DEF s
<1> QED BY <1>1, <1>2, <1>3, <1>4, <1>5, <1>6, <1>7, <1>8, SenderFrame

LEMMA PutBackFrame ==
  ASSUME Frame, NEW w \in Worker, PutBack(w)
  PROVE  Frame'
<1> DEFINE s == sender[w]
           left == s.action.ops \ s.got
           t == [s EXCEPT !.stage = "finalize"]
<1>1. /\ mode = "up" /\ mode' = "up" /\ s # Nobody /\ s.stage = "putback"
      /\ UNCHANGED <<clock, old, log, buffer, loaded, todo, change, history>>
  BY DEF PutBack, At, files
<1>2. /\ sender \in [Worker -> Job \cup {Nobody}] /\ s \in Job /\ w \in Thread
      /\ writing \in [Thread -> Seq(Piece)] /\ pending \in [Name -> Action]
  BY <1>1 DEF Frame, TypeOK, Thread
<1>3. s.name \in Name /\ s.action.ts \in [Op -> Time] /\ left \in SUBSET Op
  BY <1>2 DEF Job, Action
<1>4. pending' \in [Name -> Action]
  <2>1. Joined(pending[s.name], left, s.action.ts) \in Action
    BY <1>2, <1>3, JoinedType
  <2>2. pending' = IF left = {} THEN pending
                   ELSE [pending EXCEPT ![s.name] = Joined(pending[s.name], left, s.action.ts)]
    BY <1>2, <1>3 DEF PutBack
  <2> HIDE DEF left, s
  <2> QED BY <1>2, <1>3, <2>1, <2>2
<1>5. s.action.ops # {} /\ s.got \subseteq s.action.ops /\ writing[w] = <<>>
  BY <1>1 DEF Frame, Sending, Finalizing
<1>6. <<>> \in Seq(Piece)
  BY EmptySeq
<1>7. CASE s.got = {}
  <2>1. /\ sender' = [sender EXCEPT ![w] = Nobody]
        /\ writing' = [writing EXCEPT ![w] = <<>>]
    BY <1>2, <1>5, <1>7 DEF PutBack, NothingDone
  <2> HIDE DEF s
  <2> QED BY <1>1, <1>4, <1>6, <2>1, SenderFrame
<1>8. CASE s.got # {}
  <2>1. /\ sender' = [sender EXCEPT ![w] = t]
        /\ writing' = [writing EXCEPT ![w] = Pieces(Completion(s))]
    BY <1>2, <1>8 DEF PutBack, NothingDone
  <2>2. /\ t \in Job /\ t.action = s.action /\ t.got = s.got /\ t.stage = "finalize"
        /\ t.name = s.name
    BY <1>2 DEF Job
  <2>3. Completion(t) = Completion(s)
    BY <2>2 DEF Completion
  <2>4. Pieces(Completion(s)) \in Seq(Piece)
    BY <1>2, <1>8, CompletionType, PieceTypes
  <2>5. Rest(Pieces(Completion(s)), Completion(t))
    BY <2>3 DEF Rest
  <2>6. t # Nobody
    BY <2>2, NobodyAssumption
  <2> HIDE DEF s, t
  <2> QED BY <1>1, <1>4, <1>5, <1>8, <2>1, <2>2, <2>4, <2>5, <2>6, SenderFrame
<1> QED BY <1>7, <1>8

LEMMA FinalizedFrame ==
  ASSUME Frame, NEW w \in Worker, Finalized(w)
  PROVE  Frame' /\ sender[w] \in Job /\ mode = "up"
<1>1. /\ mode = "up" /\ mode' = "up" /\ sender[w] # Nobody /\ writing[w] = <<>> /\ Flush
      /\ Turned(sender[w], "done") /\ sender' = [sender EXCEPT ![w] = Nobody]
      /\ UNCHANGED <<clock, loaded, todo, pending, writing, change, crashes, latest, faults>>
  BY DEF Finalized, At
<1>2. sender \in [Worker -> Job \cup {Nobody}] /\ sender[w] \in Job
  BY <1>1 DEF Frame, TypeOK
<1>3. log' \in Seq(Piece) /\ buffer' \in Seq(Piece) /\ old' = old
  BY <1>1, UpFacts, FlushType DEF Frame
<1>4. status' \in [Name -> [Op -> {"none", "begun", "written", "ending", "done"}]]
  BY <1>1, <1>2, TurnedType DEF Frame, TypeOK
<1>5. TypeOK'
  BY <1>1, <1>2, <1>3, <1>4 DEF Frame, TypeOK, IsFile
<1>6. Memory' /\ Disk'
  BY <1>1, <1>3, UpStays DEF Frame
<1>7. sender'[w] = Nobody /\ \A v \in Worker : v # w => sender'[v] = sender[v]
  BY <1>1, <1>2
<1>8. Merging' /\ Finalizing' /\ Sending'
  BY <1>1, <1>7 DEF Frame, Merging, Finalizing, Sending
<1> QED BY <1>1, <1>2, <1>5, <1>6, <1>8 DEF Frame

LEMMA CrashFrame ==
  ASSUME Frame, Crash
  PROVE  Frame'
<1>1. /\ mode' = "down" /\ buffer' = <<>> /\ loaded' = Empty /\ todo' = {}
      /\ pending' = Empty /\ writing' = [t \in Thread |-> <<>>] /\ change' = Nobody
      /\ sender' = [w \in Worker |-> Nobody] /\ crashes' = crashes + 1 /\ crashes < MaxCrashes
      /\ UNCHANGED <<clock, old, log, status, latest>>
      /\ faults' \subseteq {"cut", "garbled", "crossed"}
  BY DEF Crash, files, Empty, Frame, TypeOK
<1>2. Empty \in Tables /\ Empty \in [Name -> Action] /\ <<>> \in Seq(Piece)
  BY EmptyTable, EmptySeq DEF Tables
<1>3. crashes' \in 0..MaxCrashes
  BY <1>1, BoundAssumption DEF Frame, TypeOK
<1>4. TypeOK'
  BY <1>1, <1>2, <1>3 DEF Frame, TypeOK, IsFile
<1>5. Memory' /\ Disk'
  BY <1>1, <1>2 DEF Memory, Disk
<1>6. Merging' /\ Finalizing' /\ Sending'
  BY <1>1 DEF Merging, Finalizing, Sending, Thread
<1> QED BY <1>4, <1>5, <1>6 DEF Frame

LEMMA RecoveryFrame ==
  ASSUME Frame, Recovery
  PROVE  Frame'
<1>1. TypeOK' /\ Memory' /\ Disk'
  BY RecoveryType DEF Frame
<1>2. mode # "up"
  BY DEF Recovery, StartWithLog, StartWithout, ReadOld, ReadGarbled, DeleteOld, CreateLog,
         Reissue, SwapIn
<1>3. UNCHANGED <<change, writing, sender>>
  BY DEF Recovery, StartWithLog, StartWithout, ReadOld, ReadGarbled, DeleteOld, CreateLog,
         Reissue, SwapIn, Load, memory
<1>4. change' = Nobody /\ writing' = [t \in Thread |-> <<>>]
      /\ sender' = [w \in Worker |-> Nobody]
  BY <1>2, <1>3 DEF Frame, Memory
<1>5. Merging' /\ Finalizing' /\ Sending'
  BY <1>4 DEF Merging, Finalizing, Sending, Thread
<1> QED BY <1>1, <1>5 DEF Frame

LEMMA FrameStep ==
  ASSUME Frame, [Next]_vars
  PROVE  Frame'
<1>1. CASE UNCHANGED vars
  BY <1>1 DEF vars, files, memory, history, Frame, TypeOK, IsFile, Memory, Disk, Merging,
              Finalizing, Sending
<1>2. CASE Recovery
  BY <1>2, RecoveryFrame
<1>3. CASE MergeThread
  BY <1>3, BeginFrame, MergerWritesFrame, OldNameWrittenFrame, NewNameFrame, MergeFrame
     DEF MergeThread
<1>4. CASE \E w \in Worker : SendThread(w)
  BY <1>4, SendFrame, AnswerFrame, PutBackFrame, SenderWritesFrame, FinalizedFrame
     DEF SendThread
<1>5. CASE Crash
  BY <1>5, CrashFrame
<1> QED BY <1>1, <1>2, <1>3, <1>4, <1>5 DEF Next

LEMMA FrameStart == Init => Frame
<1> SUFFICES ASSUME Init PROVE Frame
  OBVIOUS
<1>1. Empty \in Tables /\ Empty \in [Name -> Action] /\ <<>> \in Seq(Piece)
  BY EmptyTable, EmptySeq DEF Tables
<1>2. 0 \in Time /\ 0 \in 0..MaxCrashes
  BY TimeIsNat, BoundAssumption
<1>3. TypeOK
  BY <1>1, <1>2 DEF Init, TypeOK, IsFile, Empty
<1>4. Memory /\ Disk
  BY <1>1 DEF Init, Memory, Disk, Empty
<1>5. Merging /\ Finalizing /\ Sending
  BY Asleep DEF Init
<1> QED BY <1>3, <1>4, <1>5 DEF Frame

(***************************************************************************)
(* The theorem: every variable keeps its type, records included, whatever  *)
(* a damaged journal holds.                                                *)
(***************************************************************************)
THEOREM TypeCorrect == Spec => []TypeOK
<1>1. Frame => TypeOK
  BY DEF Frame
<1> QED BY FrameStart, FrameStep, <1>1, PTL DEF Spec


-----------------------------------------------------------------------------
(***************************************************************************)
(* What the steps of the running client make of the journal.               *)
(***************************************************************************)
LEMMA FlushSoon ==
  ASSUME Frame, mode = "up", Flush
  PROVE  log' \in Seq(Piece) /\ buffer' = <<>> /\ Replay(log') = Soon /\ Soon' = Soon
<1>1. log \o buffer \in Seq(Piece) /\ log' = log \o buffer /\ buffer' = <<>>
  BY UpFacts DEF Flush
<1>2. log' \o buffer' = log \o buffer
  BY <1>1, ConcatEmptySeq
<1> QED BY <1>1, <1>2 DEF Soon

LEMMA WritesSoon ==
  ASSUME Frame, NEW t \in Thread, Writes(t)
  PROVE  /\ mode = "up" /\ mode' = "up" /\ Head(writing[t]) \in Piece /\ writing[t] \in Seq(Piece)
         /\ Soon' = Read(Soon, Head(writing[t])) /\ log' = log
         /\ UNCHANGED <<clock, old, loaded, pending, change, sender>>
<1>1. /\ mode = "up" /\ mode' = "up" /\ writing[t] # <<>>
      /\ buffer' = Append(buffer, Head(writing[t])) /\ log' = log
      /\ UNCHANGED <<clock, old, loaded, pending, change, sender>>
  BY DEF Writes, files
<1>2. log \in Seq(Piece) /\ buffer \in Seq(Piece) /\ log \o buffer \in Seq(Piece)
  BY <1>1, UpFacts
<1>3. writing[t] \in Seq(Piece)
  BY DEF Frame, TypeOK
<1>4. Head(writing[t]) \in Piece
  BY <1>1, <1>3, HeadTailProperties
<1>5. log' \o buffer' = Append(log \o buffer, Head(writing[t]))
  BY <1>1, <1>2, <1>4
<1>6. Soon' = Read(Soon, Head(writing[t]))
  BY <1>2, <1>4, <1>5, ReplayAppend DEF Soon
<1> QED BY <1>1, <1>3, <1>4, <1>6

(* What a restart would find now. *)
LEMMA HeldUp ==
  ASSUME mode' = "up", log' \in Seq(Piece)
  PROVE  Held' = Replay(log')
BY NoFileAssumption DEF Held

LEMMA HandTypes ==
  ASSUME Frame, NEW n \in Name
  PROVE  /\ pending[n] \in Hand(n) /\ \A a \in Hand(n) : a \in Action
         /\ \A w \in Carriers(n) : /\ sender[w] \in Job /\ sender[w] # Nobody
                                   /\ sender[w].name = n /\ sender[w].action \in Hand(n)
<1>1. pending[n] \in Action
  BY DEF Frame, TypeOK
<1>2. \A w \in Carriers(n) : sender[w] \in Job /\ sender[w] # Nobody /\ sender[w].name = n
  BY DEF Carriers, Frame, TypeOK
<1>3. \A w \in Carriers(n) : sender[w].action \in Action
  BY <1>2 DEF Job
<1> QED BY <1>1, <1>2, <1>3 DEF Hand

(***************************************************************************)
(* An action keeps fitting while the journal, stamps and change do.        *)
(***************************************************************************)
LEMMA FitsStays ==
  ASSUME NEW n, NEW a, Fits(n, a), UNCHANGED <<clock, latest>>, Soon' = Soon,
         change' # Nobody => change # Nobody,
         \A o \in Op : Unwritten(n, o) => Unwritten(n, o)'
  PROVE  Fits(n, a)'
BY DEF Fits, Reaching, Short

LEMMA DoneFits ==
  ASSUME TypeOK', NEW n \in Name, change' = Nobody
  PROVE  Fits(n, Done)'
<1>1. \A o \in Op : latest'[n][o] \in Nat
  BY TimeIsNat DEF TypeOK
<1>2. Done.ops = {} /\ \A o \in Op : Done.ts[o] = 0
  BY DEF Done
<1> QED BY <1>1, <1>2 DEF Fits, Reaching, Short

LEMMA SoonStays ==
  ASSUME Frame, mode = "up", mode' = "up", log' = log, buffer' = buffer
  PROVE  Soon' = Soon /\ Held' = Held
<1>1. log' \in Seq(Piece) /\ Held = Replay(log)
  BY UpFacts
<1>2. Held' = Replay(log')
  BY <1>1, HeldUp
<1> QED BY <1>1, <1>2 DEF Soon

-----------------------------------------------------------------------------
(***************************************************************************)
(* Recovery and crashes: the table passes from one file to memory, and to  *)
(* the other file.                                                         *)
(***************************************************************************)
LEMMA Kept ==
  ASSUME Trusted, Memory', Orderly', mode' # "up", Held' = Held,
         UNCHANGED <<clock, status, latest>>,
         crashes' = 1 => crashes = 0 \/ (crashes = 1 /\ mode # "up"), crashes' = 0 => crashes = 0
  PROVE  Trusted'
<1>1. Remembering'
  BY DEF Trusted, Remembering, Tells
<1>2. Stamped'
  BY DEF Trusted, Stamped, Timely
<1>3. Changed'
  BY DEF Memory, Changed
<1>4. Fitting' /\ Struck' /\ Outstanding'
  BY DEF Fitting, Struck, Outstanding
<1>5. Exact'
  BY DEF Trusted, Exact
<1> QED BY <1>1, <1>2, <1>3, <1>4, <1>5 DEF Trusted

LEMMA CrashTrusted ==
  ASSUME Frame, Frame', Trusted, Crash, faults' = {}
  PROVE  Trusted'
<1>1. /\ mode = "up" /\ mode' = "down" /\ crashes' = crashes + 1
      /\ UNCHANGED <<clock, old, log, status, latest>>
  BY DEF Crash, files
<1>2. Held' = Held
  BY <1>1, UpFacts DEF Held
<1>3. crashes \in Nat
  BY BoundAssumption DEF Frame, TypeOK
<1>4. Orderly'
  BY <1>1, <1>3 DEF Trusted, Orderly
<1> QED BY <1>1, <1>2, <1>3, <1>4, Kept DEF Frame

LEMMA PassingTrusted ==
  ASSUME Frame, Frame', Trusted,
         StartWithLog \/ StartWithout \/ ReadOld \/ DeleteOld \/ CreateLog
                      \/ \E n \in Name : Reissue(n)
  PROVE  Trusted'
<1>1. UNCHANGED <<clock, status, latest, crashes>> /\ mode # "up" /\ mode' # "up"
  BY DEF StartWithLog, StartWithout, ReadOld, DeleteOld, CreateLog, Reissue, Load, history
<1>2. Held' = Held /\ Orderly'
  <2>1. CASE StartWithLog
    BY <2>1 DEF StartWithLog, Held, Trusted, Orderly, memory, history
  <2>2. CASE StartWithout
    BY <2>2 DEF StartWithout, Held, Trusted, Orderly, files, memory, history
  <2>3. CASE ReadOld
    BY <2>3 DEF ReadOld, Load, Held, Trusted, Orderly, files, history
  <2>4. CASE DeleteOld
    BY <2>4 DEF DeleteOld, Held, Trusted, Orderly, memory, history
  <2>5. CASE CreateLog
    BY <2>5 DEF CreateLog, Held, Trusted, Orderly, history
  <2>6. CASE \E n \in Name : Reissue(n)
    BY <2>6 DEF Reissue, Held, Trusted, Orderly, history
  <2> QED BY <2>1, <2>2, <2>3, <2>4, <2>5, <2>6
<1> QED BY <1>1, <1>2, Kept DEF Frame

LEMMA SwapInTrusted ==
  ASSUME Frame, Frame', Reissued, Trusted, SwapIn
  PROVE  Trusted'
<1>1. /\ mode = "issue" /\ todo = {} /\ mode' = "up" /\ pending' = loaded
      /\ latest' = [n \in Name |-> [o \in Op |-> IF o \in loaded[n].ops THEN loaded[n].ts[o]
                                                 ELSE latest[n][o]]]
      /\ UNCHANGED <<clock, old, log, buffer, writing, change, sender, crashes, status>>
  BY DEF SwapIn, files
<1>2. /\ buffer = <<>> /\ change = Nobody /\ sender = [w \in Worker |-> Nobody]
      /\ loaded \in Tables /\ Held = loaded /\ log \in Seq(Piece)
  BY <1>1 DEF Frame, Memory, Held, Disk, TypeOK, IsFile
<1>3. Held' = Replay(log) /\ Soon' = Replay(log)
  <2>1. log' \o buffer' = log
    BY <1>1, <1>2, ConcatEmptySeq
  <2> QED BY <1>1, <1>2, <2>1, HeldUp DEF Soon
<1>4. ASSUME NEW n \in Name
      PROVE  /\ loaded[n] \in Action /\ Clean(loaded[n])
             /\ Soon'[n].ops = loaded[n].ops
             /\ \A o \in Op : Soon'[n].ts[o] \in Time /\ Soon'[n].ts[o] <= Newest(loaded[n].ts)
             /\ Newest(loaded[n].ts) <= clock
  <2>1. loaded[n] \in Action /\ Clean(loaded[n]) /\ loaded[n].ts \in [Op -> Time]
    BY <1>2 DEF Tables, Action
  <2>2. /\ Newest(loaded[n].ts) \in Time
        /\ \E o \in Op : Newest(loaded[n].ts) = loaded[n].ts[o]
    BY <2>1, NewestOf
  <2>3. Newest(loaded[n].ts) <= clock
    BY <1>2, <2>2 DEF Trusted, Stamped, Timely
  <2>4. CASE loaded[n].ops = {}
    <3>1. Soon'[n] = Done
      BY <1>1, <1>3, <2>4 DEF Reissued
    <3>2. Soon'[n].ops = {} /\ \A o \in Op : Soon'[n].ts[o] = 0
      BY <3>1 DEF Done
    <3>3. 0 \in Time /\ 0 <= Newest(loaded[n].ts)
      BY <2>2, BoundAssumption DEF Time
    <3> QED BY <2>1, <2>3, <2>4, <3>2, <3>3
  <2>5. CASE loaded[n].ops # {}
    <3> DEFINE r == [type |-> "i", ops |-> loaded[n].ops, time |-> Newest(loaded[n].ts),
                     name |-> n]
    <3>1. Soon'[n] = Issued(Done, r)
      BY <1>1, <1>3, <2>5 DEF Reissued
    <3>2. r \in Record /\ r.ops = loaded[n].ops /\ r.time = Newest(loaded[n].ts)
      BY <2>1, <2>2, <2>5 DEF Record, Action
    <3> HIDE DEF r
    <3>3. /\ Soon'[n].ops = Done.ops \cup r.ops
          /\ \A o \in Op : Soon'[n].ts[o] =
               IF o = Lowest(r.ops) THEN Later(Done.ts[o], r.time) ELSE Done.ts[o]
      BY <3>1, <3>2, IssuedIs, EmptyTable
    <3>4. Done.ops = {} /\ \A o \in Op : Done.ts[o] = 0
      BY DEF Done
    <3>5. 0 \in Time /\ 0 <= Newest(loaded[n].ts) /\ Newest(loaded[n].ts) <= Newest(loaded[n].ts)
          /\ Later(0, Newest(loaded[n].ts)) = Newest(loaded[n].ts)
      BY <2>2, BoundAssumption DEF Later, Time
    <3>6. \A o \in Op : Soon'[n].ts[o] \in {0, Newest(loaded[n].ts)}
      BY <3>2, <3>3, <3>4, <3>5
    <3>7. \A o \in Op : Soon'[n].ts[o] \in Time /\ Soon'[n].ts[o] <= Newest(loaded[n].ts)
      BY <2>2, <3>5, <3>6
    <3>8. Soon'[n].ops = loaded[n].ops
      BY <3>2, <3>3, <3>4
    <3> QED BY <2>1, <2>3, <3>7, <3>8
  <2> QED BY <2>4, <2>5
<1>5. ASSUME NEW n \in Name
      PROVE  Hand(n)' = {loaded[n]} /\ Carriers(n)' = {}
  BY <1>1, <1>2 DEF Hand, Carriers
<1>6. Tells(loaded) /\ Tells(Soon)'
  <2>1. Tells(loaded)
    BY <1>2 DEF Trusted, Remembering
  <2> QED BY <1>1, <1>4, <2>1 DEF Tells
<1>7. ASSUME NEW n \in Name, NEW o \in Op
      PROVE  /\ loaded[n].ts[o] \in Nat /\ latest[n][o] \in Nat /\ clock \in Nat
             /\ loaded[n].ts[o] <= clock /\ latest[n][o] <= clock
             /\ latest'[n][o] = IF o \in loaded[n].ops THEN loaded[n].ts[o] ELSE latest[n][o]
             /\ o \notin loaded[n].ops => loaded[n].ts[o] = 0
  <2>1. loaded[n].ts[o] \in Nat /\ latest[n][o] \in Nat /\ clock \in Nat
    <3>1. loaded[n].ts[o] \in Time /\ latest[n][o] \in Time /\ clock \in Time
      BY <1>4 DEF Frame, TypeOK, Action
    <3> QED BY <3>1, TimeIsNat
  <2>2. loaded[n].ts[o] <= clock /\ latest[n][o] <= clock
    BY <1>2 DEF Trusted, Stamped, Timely
  <2> QED BY <1>1, <1>4, <2>1, <2>2 DEF Clean
<1>8. Orderly'
  BY <1>1 DEF Trusted, Orderly
<1>9. Remembering'
  BY <1>3, <1>6 DEF Remembering
<1>10. Stamped'
  <2>1. \A n \in Name, o \in Op : Soon'[n].ts[o] <= clock'
    <3> SUFFICES ASSUME NEW n \in Name, NEW o \in Op PROVE Soon'[n].ts[o] <= clock
      BY <1>1
    <3>1. Soon'[n].ts[o] \in Time /\ Soon'[n].ts[o] <= Newest(loaded[n].ts)
          /\ Newest(loaded[n].ts) <= clock /\ clock \in Time /\ Newest(loaded[n].ts) \in Time
      BY <1>4, NewestOf DEF Frame, TypeOK, Action
    <3>2. ASSUME NEW a \in Time, NEW b \in Time, NEW c \in Time, a <= b, b <= c PROVE a <= c
      BY <3>2, TimeIsNat
    <3> QED BY ONLY <3>1, <3>2
  <2>2. \A n \in Name, o \in Op : latest'[n][o] <= clock'
    BY <1>1, <1>7
  <2> QED BY <1>3, <2>1, <2>2 DEF Stamped, Timely
<1>11. Changed'
  BY <1>1, <1>2 DEF Changed
<1>12. Fitting'
  <2> SUFFICES ASSUME NEW n \in Name, NEW a, a = loaded[n], NEW o \in Op
               PROVE  a.ts[o] <= latest'[n][o] /\ Reaching(n, a, o)' /\ Short(n, a, o)'
    BY <1>1, <1>2, <1>5 DEF Fitting, Fits
  <2>1. a.ts[o] <= latest'[n][o]
    BY <1>7
  <2>2. Reaching(n, a, o)'
    BY <1>3, <1>4 DEF Reaching
  <2>3. Short(n, a, o)'
    BY <1>7 DEF Short
  <2> QED BY <2>1, <2>2, <2>3
<1>13. Struck'
  BY <1>1, <1>2 DEF Struck
<1>14. Outstanding'
  <2> SUFFICES ASSUME NEW n \in Name, NEW o \in Op, status[n][o] = "written"
               PROVE  Holds(pending[n], n, o)'
    BY <1>1 DEF Outstanding
  <2>1. o \in loaded[n].ops
    BY <1>6 DEF Tells
  <2> QED BY <1>1, <1>7, <2>1 DEF Holds
<1>15. Exact'
  <2>1. crashes = 0 => loaded = Empty
    BY <1>1 DEF Trusted, Orderly
  <2>2. ASSUME crashes = 0, NEW n \in Name, NEW o \in Op
        PROVE  status[n][o] # "written"
    <3>1. loaded[n].ops = {}
      BY <2>1, <2>2 DEF Empty, Done
    <3> QED BY <1>6, <3>1 DEF Tells
  <2> QED BY <1>1, <2>2 DEF Exact
<1> QED BY <1>8, <1>9, <1>10, <1>11, <1>12, <1>13, <1>14, <1>15 DEF Trusted

LEMMA ReissueReplayed ==
  ASSUME Frame, Reissued, NEW n \in Name, Reissue(n)
  PROVE  Reissued'
<1> DEFINE r    == [type |-> "i", ops |-> loaded[n].ops, time |-> Newest(loaded[n].ts),
                    name |-> n]
           head == [part |-> "head", of |-> r]
           name == [part |-> "name", of |-> r]
           new  == [part |-> "newname", of |-> r]
           last == IF "move" \in r.ops THEN <<new>> ELSE <<>>
<1>1. /\ mode = "issue" /\ n \in todo /\ log' = log \o Pieces(r) \o last
      /\ todo' = todo \ {n} /\ loaded' = loaded
  BY DEF Reissue
<1>2. log \in Seq(Piece) /\ loaded[n] \in Action /\ loaded[n].ops # {}
  BY <1>1 DEF Frame, TypeOK, IsFile, Disk, Memory
<1>3. r \in Record /\ r.ops = loaded[n].ops /\ r.type = "i" /\ r.name = n
  BY <1>2, NewestOf DEF Action, Record
<1>4. head \in Piece /\ name \in Piece /\ new \in Piece /\ Pieces(r) = <<head, name>>
  <2> HIDE DEF r
  <2> QED BY <1>3, PieceTypes DEF Pieces
<1>5. /\ head.part = "head" /\ name.part = "name" /\ name.of = r /\ new.part = "newname"
  OBVIOUS
<1> HIDE DEF head, name, new
<1> DEFINE f == Append(Append(log, head), name)
<1>6. /\ Replay(log) \in Tables /\ Append(log, head) \in Seq(Piece)
      /\ Replay(Append(log, head)) = Replay(log)
  BY <1>2, <1>4, <1>5, ReplayTable, ReplayAppend, ReadTable
<1>7. f \in Seq(Piece) /\ Replay(f) = Read(Replay(log), name)
  BY <1>4, <1>6, ReplayAppend
<1>8. \A m \in Name : Replay(f)[m] = IF m # n THEN Replay(log)[m]
                                     ELSE Issued(Replay(log)[m], r)
  <2>1. name.of.name = n /\ name.of.type = "i"
    BY <1>3, <1>5
  <2> HIDE DEF f, r
  <2>2. \A m \in Name : Read(Replay(log), name)[m] =
          IF m # name.of.name THEN Replay(log)[m]
          ELSE IF name.of.type = "i" THEN Issued(Replay(log)[m], name.of)
                                     ELSE Completed(Replay(log)[m], name.of)
    BY <1>4, <1>5, <1>6, ReadTable
  <2> QED BY <1>5, <1>7, <2>1, <2>2
<1>9. Replay(log') = Replay(f)
  <2>1. log \o <<head, name>> = f
    BY <1>2, <1>4
  <2>2. CASE "move" \in r.ops
    <3>1. log' = Append(f, new)
      <4>1. log' = f \o <<new>>
        BY <1>1, <1>4, <2>1, <2>2
      <4> HIDE DEF f
      <4> QED BY <1>4, <1>7, <4>1
    <3>2. Replay(f) \in Tables
      BY <1>7, ReplayTable
    <3> HIDE DEF f
    <3> QED BY <1>4, <1>5, <1>7, <3>1, <3>2, ReplayAppend, ReadTable
  <2>3. CASE "move" \notin r.ops
    <3>1. log' = f \o <<>>
      BY <1>1, <1>4, <2>1, <2>3
    <3> HIDE DEF f
    <3> QED BY <1>7, <3>1, ConcatEmptySeq
  <2> QED BY <2>2, <2>3
<1>10. Replay(log)[n] = Done
  BY <1>1 DEF Reissued
<1> HIDE DEF f
<1> SUFFICES ASSUME NEW m \in Name
             PROVE  Replay(log')[m] =
               IF m \in todo' \/ loaded[m].ops = {} THEN Done
               ELSE Issued(Done, [type |-> "i", ops |-> loaded[m].ops,
                                  time |-> Newest(loaded[m].ts), name |-> m])
  BY <1>1 DEF Reissued
<1>11. CASE m = n
  BY <1>1, <1>2, <1>8, <1>9, <1>10, <1>11
<1>12. CASE m # n
  <2>1. Replay(log')[m] = Replay(log)[m] /\ (m \in todo' <=> m \in todo)
    BY <1>1, <1>8, <1>9, <1>12
  <2> QED BY <1>1, <2>1 DEF Reissued
<1> QED BY <1>11, <1>12

LEMMA ReissuedStep ==
  ASSUME Frame, Reissued, [Next]_vars
  PROVE  Reissued'
<1>1. CASE UNCHANGED vars
  BY <1>1 DEF vars, files, memory, Reissued
<1>2. CASE CreateLog
  <2>1. log' = <<>> /\ todo' = {n \in Name : loaded[n].ops # {}} /\ loaded' = loaded
    BY <1>2 DEF CreateLog
  <2>2. Replay(log') = Empty
    BY <2>1, ReplayEmpty
  <2> QED BY <2>1, <2>2 DEF Reissued, Empty
<1>3. CASE \E n \in Name : Reissue(n)
  BY <1>3, ReissueReplayed
<1>4. ASSUME mode' = "issue", Next, ~CreateLog, ~\E n \in Name : Reissue(n)
      PROVE  FALSE
  BY <1>4 DEF Next, Recovery, MergeThread, SendThread, StartWithLog, StartWithout, ReadOld,
              ReadGarbled, Load, DeleteOld, SwapIn, Begin, MergerWrites, Writes,
              OldNameWritten, NewName, Written, Merge, Send, Answer, At, PutBack,
              SenderWrites, Finalized, Crash, memory
<1> QED BY <1>1, <1>2, <1>3, <1>4 DEF Reissued

-----------------------------------------------------------------------------
(***************************************************************************)
(* A step of the running client that adds nothing to the journal: it may   *)
(* flush it, and change what is in hand.                                   *)
(***************************************************************************)
Steady ==
  /\ mode = "up" /\ mode' = "up"
  /\ UNCHANGED <<clock, latest, crashes, old>>
  /\ Soon' = Soon
  /\ Held' = Soon \/ (Held' = Held /\ status' = status)
  /\ change' # Nobody => change # Nobody
  /\ \A n \in Name, o \in Op : Unwritten(n, o) => Unwritten(n, o)'

LEMMA SteadyTrusted ==
  ASSUME Trusted, Steady, Tells(Soon)',
         \A n \in Name, o \in Op : status'[n][o] = "written"
            => status[n][o] = "written" \/ Soon[n].ts[o] = latest[n][o],
         \A n \in Name : \A a \in Hand(n)' : a \in Hand(n) \/ Fits(n, a)'
  PROVE  Orderly' /\ Remembering' /\ Stamped' /\ Fitting' /\ Exact'
<1>1. Orderly'
  BY DEF Trusted, Orderly, Steady
<1>2. Tells(Held)'
  <2>1. CASE Held' = Soon
    <3>1. Held' = Soon'
      BY <2>1 DEF Steady
    <3> QED BY <3>1 DEF Tells
  <2>2. CASE Held' = Held /\ status' = status
    BY <2>2 DEF Trusted, Remembering, Tells
  <2> QED BY <2>1, <2>2 DEF Steady
<1>3. Remembering'
  BY <1>2 DEF Remembering
<1>4. Stamped'
  BY DEF Trusted, Stamped, Timely, Steady
<1>5. Fitting'
  <2> SUFFICES ASSUME NEW n \in Name, NEW a \in Hand(n)'
               PROVE  Fits(n, a)'
    BY DEF Fitting
  <2>1. CASE a \in Hand(n)
    <3>1. Fits(n, a)
      BY <2>1 DEF Trusted, Fitting, Steady
    <3> QED BY <3>1, FitsStays DEF Steady
  <2>2. CASE Fits(n, a)'
    BY <2>2
  <2> QED BY <2>1, <2>2
<1>6. Exact'
  BY DEF Trusted, Exact, Steady
<1> QED BY <1>1, <1>3, <1>4, <1>5, <1>6

(* The change in the merge thread's hands stays noted, or not. *)
LEMMA ChangeStays ==
  ASSUME Trusted, Steady, change # Nobody, change' # Nobody,
         change'.name = change.name, change'.op = change.op, change'.time = change.time,
         change.name \in Name, change.op \in Op,
         status'[change.name][change.op] = status[change.name][change.op]
  PROVE  Changed'
<1>1. ~Unwritten(change.name, change.op)' => ~Unwritten(change.name, change.op)
  BY DEF Steady
<1> QED BY <1>1 DEF Trusted, Changed, Steady

(* A sender keeps what it was at. *)
LEMMA StruckStays ==
  ASSUME Trusted, mode = "up", latest' = latest,
         \A w \in Worker :
           sender'[w] # Nobody /\ sender'[w].stage = "finalize" /\ writing'[w] = <<>>
             => sender'[w] = sender[w] /\ writing'[w] = writing[w],
         \A w \in Worker, o \in Op : sender[w] # Nobody =>
           (o \in Soon'[sender[w].name].ops => o \in Soon[sender[w].name].ops)
  PROVE  Struck'
BY DEF Trusted, Struck, Covers

(* Senders are the same, or all the same but one. *)
LEMMA SameHand ==
  ASSUME pending' = pending, sender' = sender
  PROVE  /\ \A n \in Name : Hand(n)' = Hand(n) /\ Carriers(n)' = Carriers(n)
BY DEF Hand, Carriers

LEMMA OutstandingStays ==
  ASSUME Trusted, mode = "up", pending' = pending, sender' = sender, latest' = latest,
         \A n \in Name, o \in Op : status'[n][o] = "written" => status[n][o] = "written"
  PROVE  Outstanding'
BY SameHand DEF Trusted, Outstanding, Holds

-----------------------------------------------------------------------------
(***************************************************************************)
(* The merge thread.                                                       *)
(***************************************************************************)
LEMMA BeginTrusted ==
  ASSUME Frame, Frame', Trusted, NEW n \in Name, NEW o \in Op, Begin(n, o)
  PROVE  Trusted'
<1>1. /\ mode = "up" /\ mode' = "up" /\ clock' = clock + 1 /\ change = Nobody
      /\ change' = [name |-> n, op |-> o, time |-> clock + 1, stage |-> "old"]
      /\ writing' = [writing EXCEPT !["merger"] = Pieces(Noted(change'))]
      /\ status' = [status EXCEPT ![n][o] = "begun"]
      /\ latest' = [latest EXCEPT ![n][o] = clock + 1]
      /\ UNCHANGED <<old, log, buffer, pending, sender, crashes>>
  BY DEF Begin, files, Noted
<1>2. Soon' = Soon /\ Held' = Held
  BY <1>1, SoonStays
<1>3. \A m \in Name : Hand(m)' = Hand(m)
  BY <1>1, SameHand
<1>4. clock \in Nat /\ \A m \in Name, p \in Op : latest[m][p] \in Nat
  BY TimeIsNat DEF Frame, TypeOK
<1>5. /\ status'[n][o] = "begun" /\ latest'[n][o] = clock'
      /\ \A m \in Name, p \in Op : m # n \/ p # o =>
            status'[m][p] = status[m][p] /\ latest'[m][p] = latest[m][p]
  BY <1>1 DEF Frame, TypeOK
<1>6. /\ change' # Nobody /\ change'.name = n /\ change'.op = o /\ change'.time = clock'
      /\ Unwritten(n, o)'
  <2>1. change' \in Change
    BY <1>1, BoundAssumption DEF Change, Frame, TypeOK, Time, Begin
  <2>2. change' # Nobody
    BY <2>1, NobodyAssumption
  <2>3. writing'["merger"] # <<>>
    BY <1>1 DEF Frame, TypeOK, Thread, Pieces
  <2> QED BY <1>1, <2>2, <2>3 DEF Unwritten, Changing
<1>7. ASSUME NEW m \in Name, NEW a \in Hand(m), NEW p \in Op
      PROVE  a.ts[p] \in Nat /\ a.ts[p] <= latest[m][p] /\ a.ts[p] <= clock
  <2>1. a \in Action
    BY <1>7, HandTypes
  <2>2. a.ts[p] \in Nat
    BY <2>1, TimeIsNat DEF Action
  <2>3. a.ts[p] <= latest[m][p] /\ latest[m][p] <= clock
    BY <1>1 DEF Trusted, Fitting, Fits, Stamped
  <2> QED BY <1>4, <2>2, <2>3
<1>8. Orderly'
  BY <1>1 DEF Trusted, Orderly
<1>9. Remembering'
  BY <1>1, <1>2, <1>5 DEF Trusted, Remembering, Tells
<1>10. Stamped'
  <2>1. ASSUME NEW m \in Tables, Timely(m)
        PROVE  \A q \in Name, p \in Op : m[q].ts[p] <= clock'
    <3> SUFFICES ASSUME NEW q \in Name, NEW p \in Op PROVE m[q].ts[p] <= clock'
      OBVIOUS
    <3>1. m[q] \in Action
      BY DEF Tables
    <3>2. m[q].ts[p] \in Nat
      BY <3>1, TimeIsNat DEF Action
    <3>3. m[q].ts[p] <= clock
      BY <2>1 DEF Timely
    <3> QED BY <1>1, <1>4, <3>2, <3>3
  <2>2. Held \in Tables /\ Soon \in Tables /\ Timely(Held) /\ Timely(Soon)
    BY <1>1, UpFacts DEF Trusted, Stamped
  <2>3. Timely(Held)' /\ Timely(Soon)'
    BY <1>2, <2>1, <2>2 DEF Timely
  <2>4. \A m \in Name, p \in Op : latest'[m][p] <= clock'
    <3> SUFFICES ASSUME NEW m \in Name, NEW p \in Op PROVE latest'[m][p] <= clock'
      OBVIOUS
    <3>1. latest[m][p] <= clock
      BY DEF Trusted, Stamped
    <3> QED BY <1>1, <1>4, <1>5, <3>1
  <2> QED BY <2>3, <2>4 DEF Stamped
<1>11. Changed'
  BY <1>5, <1>6 DEF Changed
<1>12. Fitting'
  <2> SUFFICES ASSUME NEW m \in Name, NEW a \in Hand(m), NEW p \in Op
               PROVE  /\ a.ts[p] <= latest'[m][p] /\ a.ts[p] < clock'
                      /\ Reaching(m, a, p)' /\ Short(m, a, p)'
    BY <1>3 DEF Fitting, Fits
  <2>1. a.ts[p] < clock' /\ a.ts[p] \in Nat /\ clock' \in Nat
    BY <1>1, <1>4, <1>7
  <2>2. Reaching(m, a, p) /\ Short(m, a, p)
    BY <1>1 DEF Trusted, Fitting, Fits
  <2>3. CASE m = n /\ p = o
    <3>1. a.ts[p] < latest'[m][p]
      BY <1>5, <2>1, <2>3
    <3>2. Reaching(m, a, p)'
      BY <1>5, <2>1, <2>3, <3>1 DEF Reaching
    <3>3. Short(m, a, p)'
      BY <1>6, <2>3 DEF Short
    <3> QED BY <1>5, <2>1, <2>3, <3>1, <3>2, <3>3
  <2>4. CASE m # n \/ p # o
    <3>1. latest'[m][p] = latest[m][p] /\ ~Unwritten(m, p)
      BY <1>1, <1>5, <2>4 DEF Unwritten, Changing
    <3>2. Reaching(m, a, p)' /\ Short(m, a, p)'
      BY <1>2, <2>2, <3>1 DEF Reaching, Short
    <3> QED BY <1>7, <2>1, <3>1, <3>2
  <2> QED BY <2>3, <2>4
<1>13. Struck'
  <2> SUFFICES ASSUME NEW w \in Worker, sender[w] # Nobody, sender[w].stage = "finalize",
                      writing'[w] = <<>>, NEW p \in Op, Covers(sender[w], p)'
               PROVE  p \notin Soon[sender[w].name].ops
    BY <1>1, <1>2 DEF Struck
  <2>1. writing[w] = <<>>
    BY <1>1, ThreadAssumption DEF Frame, TypeOK, Thread
  <2>2. sender[w] \in Job /\ sender[w].name \in Name
    BY DEF Frame, TypeOK, Job
  <2>3. sender[w].action \in Hand(sender[w].name)
    BY DEF Hand, Carriers
  <2>4. sender[w].name # n \/ p # o
    <3>1. sender[w].action.ts[p] <= clock /\ sender[w].action.ts[p] \in Nat
      BY <1>7, <2>2, <2>3
    <3>2. sender[w].action.ts[p] = latest'[sender[w].name][p]
      BY <1>1 DEF Covers
    <3> QED BY <1>1, <1>4, <1>5, <3>1, <3>2
  <2>5. Covers(sender[w], p)
    BY <1>1, <1>5, <2>2, <2>4 DEF Covers
  <2> QED BY <1>1, <2>1, <2>5 DEF Trusted, Struck
<1>14. Outstanding'
  <2> SUFFICES ASSUME NEW m \in Name, NEW p \in Op, status'[m][p] = "written"
               PROVE  \/ Holds(pending[m], m, p)'
                      \/ \E w \in Carriers(m)' : Holds(sender[w].action, m, p)'
                               /\ (sender'[w].stage = "finalize" => p \in sender'[w].got)
    BY DEF Outstanding
  <2>1. status[m][p] = "written" /\ latest'[m][p] = latest[m][p]
    BY <1>5
  <2>2. Carriers(m)' = Carriers(m)
    BY <1>1, SameHand
  <2> QED BY <1>1, <2>1, <2>2 DEF Trusted, Outstanding, Holds
<1>15. Exact'
  BY <1>1, <1>2, <1>5 DEF Trusted, Exact
<1> QED BY <1>8, <1>9, <1>10, <1>11, <1>12, <1>13, <1>14, <1>15 DEF Trusted

LEMMA OldNameWrittenTrusted ==
  ASSUME Frame, Frame', Trusted, OldNameWritten
  PROVE  Trusted'
<1>1. /\ mode = "up" /\ mode' = "up" /\ change # Nobody /\ writing["merger"] = <<>> /\ Flush
      /\ change' = [change EXCEPT !.stage = "half"] /\ old' = old
      /\ UNCHANGED <<clock, pending, writing, sender, crashes, status, latest>>
  BY DEF OldNameWritten, Written, history, Flush
<1>2. change \in Change /\ change' \in Change
  BY <1>1 DEF Frame, TypeOK, Change
<1>3. /\ change' # Nobody /\ change'.name = change.name /\ change'.op = change.op
      /\ change'.time = change.time /\ change.name \in Name /\ change.op \in Op
  BY <1>1, <1>2, NobodyAssumption DEF Change
<1>4. Soon' = Soon /\ Held' = Soon
  BY <1>1, FlushSoon, HeldUp
<1>5. Steady
  BY <1>1, <1>4 DEF Steady, Unwritten
<1>6. Tells(Soon)'
  BY <1>1, <1>4 DEF Trusted, Remembering, Tells
<1>7. \A n \in Name : Hand(n)' = Hand(n)
  BY <1>1, SameHand
<1>8. Orderly' /\ Remembering' /\ Stamped' /\ Fitting' /\ Exact'
  BY <1>1, <1>5, <1>6, <1>7, SteadyTrusted
<1>9. Changed'
  BY <1>1, <1>3, <1>5, ChangeStays
<1>10. Struck'
  BY <1>1, <1>4, StruckStays
<1>11. Outstanding'
  BY <1>1, OutstandingStays
<1> QED BY <1>8, <1>9, <1>10, <1>11 DEF Trusted

LEMMA NewNameTrusted ==
  ASSUME Frame, Frame', Trusted, NewName
  PROVE  Trusted'
<1>1. /\ mode = "up" /\ mode' = "up" /\ change # Nobody /\ writing["merger"] = <<>>
      /\ change' = [change EXCEPT !.stage = "new"]
      /\ \A w \in Worker : writing'[w] = writing[w]
      /\ UNCHANGED <<clock, old, log, buffer, pending, sender, crashes, status, latest>>
  BY ThreadAssumption DEF NewName, Written, history, files, Frame, TypeOK, Thread
<1>2. change \in Change /\ change' \in Change
  BY <1>1 DEF Frame, TypeOK, Change
<1>3. /\ change' # Nobody /\ change'.name = change.name /\ change'.op = change.op
      /\ change'.time = change.time /\ change.name \in Name /\ change.op \in Op
  BY <1>1, <1>2, NobodyAssumption DEF Change
<1>4. Soon' = Soon /\ Held' = Held
  BY <1>1, SoonStays
<1>5. Steady
  BY <1>1, <1>3, <1>4 DEF Steady, Unwritten
<1>6. Tells(Soon)'
  BY <1>1, <1>4 DEF Trusted, Remembering, Tells
<1>7. \A n \in Name : Hand(n)' = Hand(n)
  BY <1>1, SameHand
<1>8. Orderly' /\ Remembering' /\ Stamped' /\ Fitting' /\ Exact'
  BY <1>1, <1>5, <1>6, <1>7, SteadyTrusted
<1>9. Changed'
  BY <1>1, <1>3, <1>5, ChangeStays
<1>10. Struck'
  BY <1>1, <1>4, StruckStays
<1>11. Outstanding'
  BY <1>1, OutstandingStays
<1> QED BY <1>8, <1>9, <1>10, <1>11 DEF Trusted

(***************************************************************************)
(* A piece other than a name says nothing.                                 *)
(***************************************************************************)
LEMMA SilentTrusted ==
  ASSUME Frame, Frame', Trusted, NEW t \in Thread, Writes(t), UNCHANGED <<crashes, status, latest>>,
         Head(writing[t]).part # "name",
         \A n \in Name, o \in Op : Unwritten(n, o) => Unwritten(n, o)',
         \A w \in Worker : writing'[w] = writing[w] \/ writing'[w] # <<>>
  PROVE  Trusted'
<1>1. /\ mode = "up" /\ mode' = "up" /\ log' = log
      /\ UNCHANGED <<clock, old, pending, change, sender>>
      /\ Head(writing[t]) \in Piece /\ Soon' = Read(Soon, Head(writing[t]))
  BY WritesSoon
<1>2. Soon' = Soon
  BY <1>1, UpFacts, ReadTable
<1>3. Held' = Held
  BY <1>1, UpFacts, HeldUp
<1>4. Steady
  BY <1>1, <1>2, <1>3 DEF Steady
<1>5. Tells(Soon)'
  BY <1>1, <1>2 DEF Trusted, Remembering, Tells
<1>6. \A n \in Name : Hand(n)' = Hand(n)
  BY <1>1, SameHand
<1>7. Orderly' /\ Remembering' /\ Stamped' /\ Fitting' /\ Exact'
  BY <1>4, <1>5, <1>6, SteadyTrusted
<1>8. Changed'
  <2>1. CASE change = Nobody
    BY <1>1, <2>1 DEF Changed
  <2>2. CASE change # Nobody
    <3>1. change.name \in Name /\ change.op \in Op
      BY <2>2 DEF Frame, TypeOK, Change
    <3> QED BY <1>1, <1>4, <2>2, <3>1, ChangeStays
  <2> QED BY <2>1, <2>2
<1>9. Struck'
  BY <1>1, <1>2, StruckStays
<1>10. Outstanding'
  BY <1>1, OutstandingStays
<1> QED BY <1>7, <1>8, <1>9, <1>10 DEF Trusted

LEMMA MergerWritesTrusted ==
  ASSUME Frame, Frame', Trusted, MergerWrites
  PROVE  Trusted'
<1>1. /\ Writes("merger") /\ "merger" \in Thread /\ writing["merger"] # <<>>
      /\ UNCHANGED <<crashes, status, latest>>
      /\ writing'["merger"] = Tail(writing["merger"])
      /\ \A w \in Worker : writing'[w] = writing[w]
  BY ThreadAssumption DEF MergerWrites, Writes, Thread, history, Frame, TypeOK
<1>2. /\ mode = "up" /\ mode' = "up" /\ log' = log /\ writing["merger"] \in Seq(Piece)
      /\ UNCHANGED <<clock, old, pending, change, sender>>
      /\ Head(writing["merger"]) \in Piece /\ Soon' = Read(Soon, Head(writing["merger"]))
  BY <1>1, WritesSoon
<1>3. change # Nobody /\ change \in Change /\ change.name \in Name /\ change.op \in Op
  BY <1>1 DEF Frame, Merging, TypeOK, Change
<1>4. CASE change.stage # "old"
  <2>1. change.stage = "new"
    BY <1>1, <1>3, <1>4 DEF Frame, Merging, Change
  <2>2. Head(writing["merger"]).part = "newname"
    <3>1. Head(writing["merger"]) = writing["merger"][1] /\ 1 \in 1..Len(writing["merger"])
      BY <1>1, <1>2, HeadTailProperties
    <3> QED BY <1>3, <2>1, <3>1 DEF Frame, Merging
  <2>3. \A n \in Name, o \in Op : ~Unwritten(n, o)
    BY <2>1 DEF Unwritten
  <2> QED BY <1>1, <2>2, <2>3, SilentTrusted
<1>5. CASE change.stage = "old"
  <2> DEFINE r == Noted(change)
             n == change.name
             o == change.op
  <2>1. /\ r \in Record /\ Rest(writing["merger"], r)
        /\ r.name = n /\ r.ops = {o} /\ r.time = change.time /\ r.type = "i"
    BY <1>3, <1>5, NotedType DEF Frame, Merging, Noted
  <2> HIDE DEF r
  <2>2. CASE Tail(writing["merger"]) # <<>>
    <3>1. Head(writing["merger"]) = [part |-> "head", of |-> r]
      BY <1>1, <2>1, <2>2, RestOf
    <3>2. Head(writing["merger"]).part = "head"
      BY <3>1
    <3>3. \A m \in Name, p \in Op : Unwritten(m, p) => Unwritten(m, p)'
      BY <1>1, <1>2, <2>2 DEF Unwritten, Changing
    <3> QED BY <1>1, <3>2, <3>3, SilentTrusted
  <2>3. CASE Tail(writing["merger"]) = <<>>
    <3>1. Head(writing["merger"]) = [part |-> "name", of |-> r]
      BY <1>1, <2>1, <2>3, RestOf
    <3>2. Held' = Held
      BY <1>2, UpFacts, HeldUp
    <3>3. /\ change.time = clock /\ latest[n][o] = clock /\ status[n][o] = "begun"
          /\ \A m \in Name, p \in Op : latest[m][p] <= clock
      BY <1>3 DEF Trusted, Changed, Stamped
    <3>4. Soon \in Tables /\ Soon[n] \in Action /\ clock \in Nat /\ Soon[n].ts[o] \in Nat
          /\ Soon[n].ts[o] <= clock
      <4>1. Soon \in Tables /\ Soon[n] \in Action
        BY <1>2, <1>3, UpFacts DEF Tables
      <4>2. Soon[n].ts[o] \in Time /\ clock \in Time
        BY <1>3, <4>1 DEF Action, Frame, TypeOK
      <4>3. Soon[n].ts[o] <= clock
        BY <1>2, <1>3 DEF Trusted, Stamped, Timely
      <4> QED BY <4>1, <4>2, <4>3, TimeIsNat
    <3>5. Soon'[n] = Issued(Soon[n], r) /\ \A m \in Name : m # n => Soon'[m] = Soon[m]
      <4> DEFINE p == Head(writing["merger"])
      <4>1. p.part = "name" /\ p.of = r
        BY <3>1
      <4> HIDE DEF p
      <4>2. \A m \in Name : Read(Soon, p)[m] =
              IF m # p.of.name THEN Soon[m]
              ELSE IF p.of.type = "i" THEN Issued(Soon[m], p.of) ELSE Completed(Soon[m], p.of)
        BY <1>2, <3>4, <4>1, ReadTable DEF p
      <4> QED BY <1>2, <1>3, <2>1, <4>1, <4>2 DEF p
    <3>6. /\ Soon'[n].ops = Soon[n].ops \cup {o}
          /\ \A p \in Op : Soon'[n].ts[p] = IF p = o THEN Later(Soon[n].ts[o], clock)
                                            ELSE Soon[n].ts[p]
      <4>1. r.ops \in SUBSET Op /\ r.ops # {}
        BY <2>1 DEF Record
      <4>2. Lowest(r.ops) \in r.ops
        BY <4>1, LowestOf
      <4>3. Lowest(r.ops) = o
        BY <2>1, <4>2
      <4> QED BY <2>1, <3>3, <3>4, <3>5, <4>3, IssuedIs
    <3>7. /\ o \in Soon'[n].ops /\ Soon'[n].ts[o] = clock
          /\ \A m \in Name, p \in Op : m # n \/ p # o =>
                /\ Soon'[m].ts[p] = Soon[m].ts[p]
                /\ p \in Soon'[m].ops <=> p \in Soon[m].ops
      <4>1. Later(Soon[n].ts[o], clock) = clock
        BY <3>4 DEF Later
      <4> QED BY <1>3, <3>5, <3>6, <4>1
    <3>8. \A m \in Name : Hand(m)' = Hand(m) /\ Carriers(m)' = Carriers(m)
      BY <1>2, SameHand
    <3>9. \A m \in Name, p \in Op : ~Unwritten(m, p)'
                                   /\ (m # n \/ p # o => ~Unwritten(m, p))
      BY <1>1, <1>2, <2>3 DEF Unwritten, Changing
    <3>10. \A a \in Hand(n) : a.ts[o] # latest[n][o]
      <4> SUFFICES ASSUME NEW a \in Hand(n) PROVE a.ts[o] # clock
        BY <3>3
      <4>1. a.ts[o] < clock
        BY <1>2, <1>3 DEF Trusted, Fitting, Fits
      <4>2. a.ts[o] \in Nat
        <5>1. a \in Action
          BY <1>3, HandTypes
        <5> QED BY <1>3, <5>1, TimeIsNat DEF Action
      <4> QED BY <3>4, <4>1, <4>2
    <3> HIDE DEF n, o
    <3>11. n \in Name /\ o \in Op /\ n = change.name /\ o = change.op
      BY <1>3 DEF n, o
    <3>12. Orderly'
      BY <1>1, <1>2 DEF Trusted, Orderly
    <3>13. Remembering'
      <4>1. Tells(Held) /\ Tells(Soon)
        BY <1>2 DEF Trusted, Remembering
      <4>2. Tells(Held)'
        BY <1>1, <3>2, <4>1 DEF Tells
      <4>3. Tells(Soon)'
        BY <1>1, <3>3, <3>7, <4>1 DEF Tells
      <4> QED BY <4>2, <4>3 DEF Remembering
    <3>14. Stamped'
      <4>1. Timely(Held)'
        BY <1>2, <3>2 DEF Trusted, Stamped, Timely
      <4>2. Timely(Soon)'
        <5>1. \A m \in Name, p \in Op : Soon[m].ts[p] <= clock
          BY <1>2 DEF Trusted, Stamped, Timely
        <5> QED BY <1>2, <3>4, <3>7, <5>1 DEF Timely
      <4> QED BY <1>1, <1>2, <3>3, <4>1, <4>2 DEF Stamped
    <3>15. Changed'
      BY <1>1, <1>2, <3>3, <3>7, <3>11 DEF Changed
    <3>16. Fitting'
      <4> SUFFICES ASSUME NEW m \in Name, NEW a \in Hand(m), NEW p \in Op
                   PROVE  /\ a.ts[p] <= latest[m][p] /\ (change # Nobody => a.ts[p] < clock)
                          /\ Reaching(m, a, p)' /\ Short(m, a, p)'
        BY <1>1, <1>2, <3>8 DEF Fitting, Fits
      <4>1. /\ a.ts[p] <= latest[m][p] /\ (change # Nobody => a.ts[p] < clock)
            /\ Reaching(m, a, p) /\ Short(m, a, p)
        BY <1>2 DEF Trusted, Fitting, Fits
      <4>2. CASE m = n /\ p = o
        <5>1. Reaching(m, a, p)'
          BY <1>1, <3>10, <4>2 DEF Reaching
        <5>2. Short(m, a, p)'
          BY <1>1, <3>3, <3>4, <3>7, <4>2 DEF Short
        <5> QED BY <4>1, <5>1, <5>2
      <4>3. CASE m # n \/ p # o
        <5>1. Reaching(m, a, p)'
          BY <1>1, <3>7, <4>1, <4>3 DEF Reaching
        <5>2. Short(m, a, p)'
          BY <1>1, <3>7, <3>9, <4>1, <4>3 DEF Short
        <5> QED BY <4>1, <5>1, <5>2
      <4> QED BY <4>2, <4>3
    <3>17. Struck'
      <4> SUFFICES ASSUME NEW w \in Worker, sender[w] # Nobody, sender[w].stage = "finalize",
                          writing[w] = <<>>, NEW p \in Op, Covers(sender[w], p)
                   PROVE  p \notin Soon'[sender[w].name].ops
        BY <1>1, <1>2 DEF Struck, Covers
      <4>1. p \notin Soon[sender[w].name].ops
        BY <1>2 DEF Trusted, Struck
      <4>2. sender[w].name \in Name /\ sender[w].action \in Hand(sender[w].name)
        BY DEF Frame, TypeOK, Job, Hand, Carriers
      <4>3. sender[w].name # n \/ p # o
        BY <3>10, <4>2 DEF Covers
      <4> QED BY <3>7, <4>1, <4>2, <4>3
    <3>18. Outstanding'
      BY <1>1, <1>2, OutstandingStays
    <3>19. Exact'
      <4> SUFFICES ASSUME crashes = 0, NEW m \in Name, NEW p \in Op, status[m][p] = "written"
                   PROVE  Held[m].ts[p] = latest[m][p] /\ Soon'[m].ts[p] = latest[m][p]
        BY <1>1, <1>2, <3>2 DEF Exact
      <4>1. Held[m].ts[p] = latest[m][p] /\ Soon[m].ts[p] = latest[m][p]
        BY <1>2 DEF Trusted, Exact
      <4> QED BY <3>3, <3>7, <4>1
    <3> QED BY <3>12, <3>13, <3>14, <3>15, <3>16, <3>17, <3>18, <3>19 DEF Trusted
  <2> QED BY <2>2, <2>3
<1> QED BY <1>4, <1>5

LEMMA MergeTrusted ==
  ASSUME Frame, Frame', Trusted, Merge
  PROVE  Trusted'
<1> SUFFICES ASSUME NEW n, n = change.name, NEW o, o = change.op,
                    NEW a, a = Merged(pending[n], change)
             PROVE  Trusted'
  OBVIOUS
<1>1. /\ mode = "up" /\ mode' = "up" /\ change # Nobody /\ writing["merger"] = <<>> /\ Flush
      /\ change' = Nobody /\ old' = old
      /\ pending' = [pending EXCEPT ![n] = a]
      /\ status' = [status EXCEPT ![n][o] = "written"]
      /\ UNCHANGED <<clock, writing, sender, crashes, latest>>
  BY DEF Merge, Written, Flush
<1>2. change \in Change /\ n \in Name /\ o \in Op /\ pending[n] \in Action
  BY <1>1 DEF Frame, TypeOK, Change
<1>3. /\ a \in Action /\ a.ops = pending[n].ops \cup {o}
      /\ \A p \in Op : a.ts[p] = IF p = o THEN change.time ELSE pending[n].ts[p]
  BY <1>2, MergedIs
<1>4. Soon' = Soon /\ Held' = Soon
  BY <1>1, FlushSoon, HeldUp
<1>5. /\ change.time = clock /\ latest[n][o] = clock
      /\ o \in Soon[n].ops /\ Soon[n].ts[o] = clock
  BY <1>1 DEF Trusted, Changed, Unwritten
<1>6. \A m \in Name, p \in Op : ~Unwritten(m, p)
  BY <1>1 DEF Unwritten
<1>7. Steady
  BY <1>1, <1>4, <1>6 DEF Steady
<1>8. /\ status'[n][o] = "written"
      /\ \A m \in Name, p \in Op : m # n \/ p # o => status'[m][p] = status[m][p]
  BY <1>1, <1>2 DEF Frame, TypeOK
<1>9. pending'[n] = a /\ \A m \in Name : m # n => pending'[m] = pending[m]
  BY <1>1, <1>2 DEF Frame, TypeOK
<1>10. /\ \A m \in Name : \A b \in Hand(m)' : b \in Hand(m) \/ (m = n /\ b = a)
       /\ \A m \in Name : Carriers(m)' = Carriers(m)
  BY <1>1, <1>9 DEF Hand, Carriers
<1>11. Fits(n, a)'
  <2>1. ASSUME NEW p \in Op
        PROVE  a.ts[p] <= latest[n][p] /\ Reaching(n, a, p)' /\ Short(n, a, p)'
    <3>1. Fits(n, pending[n])
      BY <1>1, <1>2, HandTypes DEF Trusted, Fitting
    <3>2. a.ts \in [Op -> Time] /\ a.ts[p] \in Nat /\ a.ts[o] = clock /\ clock \in Nat
      <4>1. a.ts \in [Op -> Time] /\ a.ts[o] = clock
        BY <1>2, <1>3, <1>5 DEF Action
      <4> QED BY <1>2, <4>1, TimeIsNat
    <3>3. Soon[n].ts[p] <= clock /\ clock <= Newest(a.ts) /\ Newest(a.ts) \in Time
      <4>1. Soon[n].ts[p] <= clock
        BY <1>1, <1>2 DEF Trusted, Stamped, Timely
      <4>2. clock <= Newest(a.ts) /\ Newest(a.ts) \in Time
        BY <1>2, <3>2, NewestOf
      <4> QED BY <4>1, <4>2
    <3>4. Soon[n].ts[p] \in Nat /\ Newest(a.ts) \in Nat
      <4>1. Soon[n] \in Action
        BY <1>1, <1>2, UpFacts DEF Tables
      <4>2. Soon[n].ts[p] \in Time
        BY <4>1 DEF Action
      <4> QED BY <3>3, <4>2, TimeIsNat
    <3>5. Soon[n].ts[p] <= Newest(a.ts)
      BY <3>2, <3>3, <3>4
    <3>6. Reaching(n, a, p)'
      BY <1>4, <3>5 DEF Reaching
    <3>7. CASE p = o
      <4>1. a.ts[p] = latest[n][p]
        BY <1>3, <1>5, <3>7
      <4>2. Short(n, a, p)'
        BY <1>1, <3>2, <4>1 DEF Short
      <4> QED BY <3>2, <3>6, <4>1, <4>2
    <3>8. CASE p # o
      <4>1. a.ts[p] = pending[n].ts[p] /\ (p \in a.ops <=> p \in pending[n].ops)
        BY <1>3, <3>8
      <4>2. Short(n, pending[n], p) /\ pending[n].ts[p] <= latest[n][p]
        BY <3>1 DEF Fits
      <4>3. Short(n, a, p)'
        BY <1>1, <1>2, <1>4, <1>6, <4>1, <4>2 DEF Short
      <4> QED BY <3>6, <4>1, <4>2, <4>3
    <3> QED BY <3>7, <3>8
  <2> QED BY <1>1, <2>1 DEF Fits
<1>12. Tells(Soon)'
  <2>1. Tells(Soon)
    BY <1>1 DEF Trusted, Remembering
  <2> QED BY <1>4, <1>5, <1>8, <2>1 DEF Tells
<1>13. \A m \in Name, p \in Op : status'[m][p] = "written"
            => status[m][p] = "written" \/ Soon[m].ts[p] = latest[m][p]
  BY <1>5, <1>8
<1>14. \A m \in Name : \A b \in Hand(m)' : b \in Hand(m) \/ Fits(m, b)'
  BY <1>10, <1>11
<1>15. Orderly' /\ Remembering' /\ Stamped' /\ Fitting' /\ Exact'
  BY <1>7, <1>12, <1>13, <1>14, SteadyTrusted
<1>16. Changed'
  BY <1>1 DEF Changed
<1>17. Struck'
  BY <1>1, <1>4, StruckStays
<1>18. Outstanding'
  <2> SUFFICES ASSUME NEW m \in Name, NEW p \in Op, status'[m][p] = "written"
               PROVE  \/ Holds(pending[m], m, p)'
                      \/ \E w \in Carriers(m)' : Holds(sender[w].action, m, p)'
                               /\ (sender'[w].stage = "finalize" => p \in sender'[w].got)
    BY DEF Outstanding
  <2>1. CASE m = n /\ p = o
    <3>1. p \in pending'[m].ops /\ pending'[m].ts[p] = latest'[m][p]
      BY <1>1, <1>2, <1>3, <1>5, <1>9, <2>1
    <3> QED BY <3>1 DEF Holds
  <2>2. CASE m # n \/ p # o
    <3>1. status[m][p] = "written"
      BY <1>8, <2>2
    <3>2. Holds(pending[m], m, p) => Holds(pending[m], m, p)'
      BY <1>1, <1>2, <1>3, <1>9, <2>2 DEF Holds
    <3>3. Carriers(m)' = Carriers(m)
      BY <1>10
    <3> QED BY <1>1, <3>1, <3>2, <3>3 DEF Trusted, Outstanding, Holds
  <2> QED BY <2>1, <2>2
<1> QED BY <1>15, <1>16, <1>17, <1>18 DEF Trusted

-----------------------------------------------------------------------------
(***************************************************************************)
(* The senders.                                                            *)
(***************************************************************************)
LEMMA ChangeKept ==
  ASSUME Frame, Trusted, Steady, change' = change,
         change # Nobody =>
            status'[change.name][change.op] = status[change.name][change.op]
  PROVE  Changed'
<1>1. CASE change = Nobody
  BY <1>1 DEF Changed
<1>2. CASE change # Nobody
  <2>1. change.name \in Name /\ change.op \in Op
    BY <1>2 DEF Frame, TypeOK, Change
  <2> QED BY <1>2, <2>1, ChangeStays
<1> QED BY <1>1, <1>2

LEMMA SendTrusted ==
  ASSUME Frame, Frame', Trusted, NEW w \in Worker, NEW n \in Name, Send(w, n)
  PROVE  Trusted'
<1>1. /\ mode = "up" /\ mode' = "up" /\ change = Nobody /\ sender[w] = Nobody
      /\ sender' = [sender EXCEPT ![w] = [name |-> n, action |-> pending[n],
                                          got |-> {}, stage |-> "send"]]
      /\ pending' = [pending EXCEPT ![n] = Done]
      /\ UNCHANGED <<clock, old, log, buffer, writing, change, crashes, status, latest>>
  BY DEF Send, files, history
<1>2. Soon' = Soon /\ Held' = Held
  BY <1>1, SoonStays
<1>3. /\ sender'[w].name = n /\ sender'[w].action = pending[n] /\ sender'[w].stage = "send"
      /\ sender'[w] # Nobody /\ \A v \in Worker : v # w => sender'[v] = sender[v]
      /\ pending'[n] = Done /\ \A m \in Name : m # n => pending'[m] = pending[m]
  <2>1. [name |-> n, action |-> pending[n], got |-> {}, stage |-> "send"] \in Job
    BY DEF Frame, TypeOK, Job
  <2> QED BY <1>1, <2>1, NobodyAssumption DEF Frame, TypeOK
<1>4. Steady
  BY <1>1, <1>2 DEF Steady, Unwritten, Changing
<1>5. Tells(Soon)'
  BY <1>1, <1>2 DEF Trusted, Remembering, Tells
<1>6. \A m \in Name : \A a \in Hand(m)' : a \in Hand(m) \/ a = Done
  BY <1>3 DEF Hand, Carriers
<1>7. \A m \in Name : Fits(m, Done)'
  BY <1>1, DoneFits DEF Frame
<1>8. Orderly' /\ Remembering' /\ Stamped' /\ Fitting' /\ Exact'
  BY <1>1, <1>4, <1>5, <1>6, <1>7, SteadyTrusted
<1>9. Changed'
  BY <1>1 DEF Changed
<1>10. Struck'
  BY <1>1, <1>2, <1>3, StruckStays
<1>11. Outstanding'
  <2> SUFFICES ASSUME NEW m \in Name, NEW p \in Op, status[m][p] = "written"
               PROVE  \/ Holds(pending[m], m, p)'
                      \/ \E v \in Carriers(m)' : Holds(sender[v].action, m, p)'
                               /\ (sender'[v].stage = "finalize" => p \in sender'[v].got)
    BY <1>1 DEF Outstanding
  <2>1. CASE Holds(pending[m], m, p)
    <3>1. CASE m = n
      <4>1. w \in Carriers(m)' /\ Holds(sender[w].action, m, p)'
        BY <1>1, <1>3, <2>1, <3>1 DEF Carriers, Holds
      <4> QED BY <1>3, <4>1
    <3>2. CASE m # n
      BY <1>1, <1>3, <2>1, <3>2 DEF Holds
    <3> QED BY <3>1, <3>2
  <2>2. CASE ~Holds(pending[m], m, p)
    <3>1. PICK v \in Carriers(m) : Holds(sender[v].action, m, p)
                               /\ (sender[v].stage = "finalize" => p \in sender[v].got)
      BY <1>1, <2>2 DEF Trusted, Outstanding
    <3>2. v # w /\ v \in Worker /\ v \in Carriers(m)' /\ sender'[v] = sender[v]
      BY <1>1, <1>3 DEF Carriers
    <3> QED BY <1>1, <3>1, <3>2 DEF Holds
  <2> QED BY <2>1, <2>2
<1> QED BY <1>8, <1>9, <1>10, <1>11 DEF Trusted

LEMMA AnswerTrusted ==
  ASSUME Frame, Frame', Trusted, NEW w \in Worker, NEW k, Answer(w, k)
  PROVE  Trusted'
<1>1. /\ mode = "up" /\ mode' = "up" /\ sender[w] # Nobody /\ sender[w].stage = "send"
      /\ UNCHANGED <<clock, old, log, buffer, pending, writing, change, crashes, status, latest>>
  BY DEF Answer, At, files, history
<1>2. /\ sender'[w] # Nobody /\ sender'[w].name = sender[w].name
      /\ sender'[w].action = sender[w].action /\ sender'[w].stage = "putback"
      /\ \A v \in Worker : v # w => sender'[v] = sender[v]
  <2>1. sender[w] \in Job
    BY <1>1 DEF Frame, TypeOK
  <2>2. /\ sender'[w].name = sender[w].name
        /\ sender'[w].action = sender[w].action /\ sender'[w].stage = "putback"
        /\ \A v \in Worker : v # w => sender'[v] = sender[v]
    BY <2>1 DEF Answer, Frame, TypeOK, Job
  <2>3. sender'[w] # Nobody
    <3> DEFINE got == {o \in sender[w].action.ops : \E i \in 1..k : Order[i] = o}
               s == [sender[w] EXCEPT !.got = got, !.stage = "putback"]
    <3>1. sender' = [sender EXCEPT ![w] = s]
      BY DEF Answer, Frame, TypeOK
    <3>2. got \in SUBSET Op
      BY <2>1 DEF Job, Action
    <3> HIDE DEF got
    <3>3. s \in Job
      BY <2>1, <3>2 DEF Job
    <3> HIDE DEF s
    <3> QED BY <3>1, <3>3, NobodyAssumption DEF Frame, TypeOK
  <2> QED BY <2>2, <2>3
<1>3. Soon' = Soon /\ Held' = Held
  BY <1>1, SoonStays
<1>4. Steady
  BY <1>1, <1>3 DEF Steady, Unwritten, Changing
<1>5. Tells(Soon)'
  BY <1>1, <1>3 DEF Trusted, Remembering, Tells
<1>6. \A m \in Name : Carriers(m)' = Carriers(m)
  BY <1>1, <1>2 DEF Carriers
<1>7. \A v \in Worker : sender[v] # Nobody => sender'[v].action = sender[v].action
  BY <1>2
<1>8. \A m \in Name : \A a \in Hand(m)' : a \in Hand(m)
  BY <1>1, <1>6, <1>7 DEF Hand, Carriers
<1>9. Orderly' /\ Remembering' /\ Stamped' /\ Fitting' /\ Exact'
  BY <1>1, <1>4, <1>5, <1>8, SteadyTrusted
<1>10. Changed'
  BY <1>1, <1>4, ChangeKept
<1>11. Struck'
  BY <1>1, <1>2, <1>3, StruckStays
<1>12. Outstanding'
  <2> SUFFICES ASSUME NEW m \in Name, NEW p \in Op, status[m][p] = "written"
               PROVE  \/ Holds(pending[m], m, p)'
                      \/ \E v \in Carriers(m)' : Holds(sender[v].action, m, p)'
                               /\ (sender'[v].stage = "finalize" => p \in sender'[v].got)
    BY <1>1 DEF Outstanding
  <2>1. CASE Holds(pending[m], m, p)
    BY <1>1, <2>1 DEF Holds
  <2>2. CASE ~Holds(pending[m], m, p)
    <3>1. PICK v \in Carriers(m) : Holds(sender[v].action, m, p)
                               /\ (sender[v].stage = "finalize" => p \in sender[v].got)
      BY <1>1, <2>2 DEF Trusted, Outstanding
    <3>2. v \in Worker /\ v \in Carriers(m)' /\ sender'[v].action = sender[v].action
      BY <1>6, <1>7 DEF Carriers
    <3>3. sender'[v].stage = "finalize" => p \in sender'[v].got
      BY <1>2, <3>1, <3>2
    <3> QED BY <1>1, <3>1, <3>2, <3>3 DEF Holds
  <2> QED BY <2>1, <2>2
<1> QED BY <1>9, <1>10, <1>11, <1>12 DEF Trusted

(***************************************************************************)
(* What is put back joins what came meanwhile: the later stamps stay.      *)
(***************************************************************************)
LEMMA JoinedFits ==
  ASSUME Frame, mode = "up", NEW n \in Name, NEW a \in Action, NEW b \in Action,
         Fits(n, a), Fits(n, b), NEW left \in SUBSET b.ops, change = Nobody,
         NEW c, c = Joined(a, left, b.ts)
  PROVE  /\ Fits(n, c)
         /\ \A o \in Op : Holds(a, n, o) => Holds(c, n, o)
         /\ \A o \in left : Holds(b, n, o) => Holds(c, n, o)
<1>1. /\ c.ops = a.ops \cup left /\ c.ts = [o \in Op |-> Later(a.ts[o], b.ts[o])]
      /\ b.ops \subseteq Op /\ a.ts \in [Op -> Time] /\ b.ts \in [Op -> Time]
  BY DEF Joined, Action
<1>2. c.ts \in [Op -> Time]
  BY <1>1 DEF Later
<1>3. ASSUME NEW o \in Op
      PROVE  /\ a.ts[o] \in Nat /\ b.ts[o] \in Nat /\ c.ts[o] \in Nat
             /\ latest[n][o] \in Nat /\ a.ts[o] <= c.ts[o] /\ b.ts[o] <= c.ts[o]
             /\ c.ts[o] = a.ts[o] \/ c.ts[o] = b.ts[o]
  <2>1. a.ts[o] \in Nat /\ b.ts[o] \in Nat /\ latest[n][o] \in Nat
    <3>1. a.ts[o] \in Time /\ b.ts[o] \in Time /\ latest[n][o] \in Time
      BY <1>1 DEF Frame, TypeOK
    <3> QED BY <3>1, TimeIsNat
  <2>2. c.ts[o] = IF a.ts[o] > b.ts[o] THEN a.ts[o] ELSE b.ts[o]
    BY <1>1 DEF Later
  <2> QED BY <2>1, <2>2
<1>4. ASSUME NEW t \in [Op -> Time], \A o \in Op : t[o] <= c.ts[o]
      PROVE  Newest(t) \in Nat /\ Newest(c.ts) \in Nat /\ Newest(t) <= Newest(c.ts)
  <2>1. PICK o \in Op : Newest(t) = t[o]
    BY NewestOf
  <2>2. Newest(t) \in Time /\ Newest(c.ts) \in Time /\ c.ts[o] <= Newest(c.ts)
    BY <1>2, NewestOf
  <2>3. t[o] \in Nat /\ c.ts[o] \in Nat /\ Newest(t) \in Nat /\ Newest(c.ts) \in Nat
    BY <1>3, <2>2, TimeIsNat
  <2>4. t[o] <= c.ts[o]
    BY <1>4
  <2> QED BY <2>1, <2>2, <2>3, <2>4
<1>5. /\ Newest(a.ts) \in Nat /\ Newest(b.ts) \in Nat /\ Newest(c.ts) \in Nat
      /\ Newest(a.ts) <= Newest(c.ts) /\ Newest(b.ts) <= Newest(c.ts)
  BY <1>1, <1>3, <1>4
<1>6. ASSUME NEW o \in Op
      PROVE  /\ a.ts[o] <= latest[n][o] /\ b.ts[o] <= latest[n][o] /\ c.ts[o] <= latest[n][o]
             /\ Soon[n].ts[o] \in Nat
             /\ Reaching(n, a, o) /\ Reaching(n, b, o) /\ Short(n, a, o) /\ Short(n, b, o)
  <2>1. /\ a.ts[o] <= latest[n][o] /\ b.ts[o] <= latest[n][o]
        /\ Reaching(n, a, o) /\ Reaching(n, b, o) /\ Short(n, a, o) /\ Short(n, b, o)
    BY DEF Fits
  <2>2. Soon[n] \in Action
    BY UpFacts DEF Tables
  <2>3. Soon[n].ts[o] \in Nat
    BY <2>2, TimeIsNat DEF Action
  <2>4. c.ts[o] <= latest[n][o]
    BY <1>3, <2>1
  <2> QED BY <2>1, <2>3, <2>4
<1>7. ASSUME NEW o \in Op
      PROVE  Reaching(n, c, o)
  <2> SUFFICES ASSUME c.ts[o] = latest[n][o], o \in c.ops \/ c.ts[o] > 0
               PROVE  Soon[n].ts[o] <= Newest(c.ts)
    BY DEF Reaching
  <2>1. CASE c.ts[o] > 0
    <3>1. CASE c.ts[o] = a.ts[o]
      <4>1. Soon[n].ts[o] <= Newest(a.ts)
        BY <1>6, <2>1, <3>1 DEF Reaching
      <4> QED BY <1>5, <1>6, <4>1
    <3>2. CASE c.ts[o] = b.ts[o]
      <4>1. Soon[n].ts[o] <= Newest(b.ts)
        BY <1>6, <2>1, <3>2 DEF Reaching
      <4> QED BY <1>5, <1>6, <4>1
    <3> QED BY <1>3, <3>1, <3>2
  <2>2. CASE ~(c.ts[o] > 0)
    <3>1. a.ts[o] = latest[n][o] /\ b.ts[o] = latest[n][o]
      BY <1>3, <2>2
    <3>2. o \in a.ops \/ o \in b.ops
      BY <1>1, <2>2
    <3>3. Soon[n].ts[o] <= Newest(a.ts) \/ Soon[n].ts[o] <= Newest(b.ts)
      BY <1>6, <3>1, <3>2 DEF Reaching
    <3> QED BY <1>5, <1>6, <3>3
  <2> QED BY <2>1, <2>2
<1>8. ASSUME NEW o \in Op
      PROVE  Short(n, c, o)
  <2> SUFFICES ASSUME o \in c.ops, c.ts[o] < latest[n][o], o \in Soon[n].ops
               PROVE  Soon[n].ts[o] >= latest[n][o] \/ Unwritten(n, o)
    BY DEF Short
  <2>1. a.ts[o] < latest[n][o] /\ b.ts[o] < latest[n][o]
    BY <1>3
  <2>2. o \in a.ops \/ o \in b.ops
    BY <1>1
  <2> QED BY <1>6, <2>1, <2>2 DEF Short
<1>9. Fits(n, c)
  BY <1>6, <1>7, <1>8 DEF Fits
<1>10. ASSUME NEW o \in Op, Holds(a, n, o)
       PROVE  Holds(c, n, o)
  <2>1. o \in c.ops /\ a.ts[o] = latest[n][o]
    BY <1>1, <1>10 DEF Holds
  <2>2. c.ts[o] = latest[n][o]
    BY <1>3, <1>6, <2>1
  <2> QED BY <2>1, <2>2 DEF Holds
<1>11. ASSUME NEW o \in left, Holds(b, n, o)
       PROVE  Holds(c, n, o)
  <2>1. o \in c.ops /\ b.ts[o] = latest[n][o] /\ o \in Op
    BY <1>1, <1>11 DEF Holds
  <2>2. c.ts[o] = latest[n][o]
    BY <1>3, <1>6, <2>1
  <2> QED BY <2>1, <2>2 DEF Holds
<1> QED BY <1>9, <1>10, <1>11

LEMMA PutBackTrusted ==
  ASSUME Frame, Frame', Trusted, NEW w \in Worker, PutBack(w)
  PROVE  Trusted'
<1> SUFFICES ASSUME NEW s, s = sender[w], NEW n, n = s.name, NEW left, left = s.action.ops \ s.got,
                    NEW c, c = IF left = {} THEN pending[n] ELSE Joined(pending[n], left, s.action.ts)
             PROVE  Trusted'
  OBVIOUS
<1>1. /\ mode = "up" /\ mode' = "up" /\ s # Nobody /\ s.stage = "putback"
      /\ left # {} => change = Nobody
      /\ UNCHANGED <<clock, old, log, buffer, change, crashes, status, latest>>
  BY DEF PutBack, At, files, history
<1>2. /\ s \in Job /\ n \in Name /\ s.action \in Action /\ pending[n] \in Action
      /\ s.action.ops # {} /\ s.got \subseteq s.action.ops /\ left \in SUBSET s.action.ops
  BY <1>1 DEF Frame, TypeOK, Job, Sending
<1>3. w \in Carriers(n) /\ s.action \in Hand(n) /\ pending[n] \in Hand(n)
  BY <1>1 DEF Hand, Carriers
<1>4. pending'[n] = c /\ \A m \in Name : m # n => pending'[m] = pending[m]
  <2>1. pending' = IF left = {} THEN pending
                   ELSE [pending EXCEPT ![n] = Joined(pending[n], left, s.action.ts)]
    BY DEF PutBack
  <2> QED BY <1>2, <2>1 DEF Frame, TypeOK
<1>5. /\ s.got = {} => sender'[w] = Nobody
      /\ s.got # {} => /\ sender'[w] # Nobody /\ sender'[w].name = n
                       /\ sender'[w].action = s.action /\ sender'[w].got = s.got
                       /\ sender'[w].stage = "finalize" /\ writing'[w] # <<>>
      /\ \A v \in Worker : v # w => sender'[v] = sender[v] /\ writing'[v] = writing[v]
      /\ writing'["merger"] = writing["merger"]
  <2>1. CASE s.got = {}
    BY <2>1 DEF PutBack, NothingDone, Frame, TypeOK
  <2>2. CASE s.got # {}
    <3> DEFINE t == [s EXCEPT !.stage = "finalize"]
    <3>1. /\ sender' = [sender EXCEPT ![w] = t]
          /\ writing' = [writing EXCEPT ![w] = Pieces(Completion(s))]
      BY <2>2 DEF PutBack, NothingDone, Frame, TypeOK
    <3>2. /\ t \in Job /\ t.action = s.action /\ t.got = s.got /\ t.stage = "finalize"
          /\ t.name = n
      BY <1>2 DEF Job
    <3>3. Pieces(Completion(s)) # <<>>
      BY DEF Pieces
    <3>4. t # Nobody
      BY <3>2, NobodyAssumption
    <3> HIDE DEF t
    <3>5. sender'[w] = t /\ \A v \in Worker : v # w => sender'[v] = sender[v]
      BY <3>1 DEF Frame, TypeOK
    <3>6. /\ writing'[w] = Pieces(Completion(s))
          /\ \A v \in Worker : v # w => writing'[v] = writing[v]
          /\ writing'["merger"] = writing["merger"]
      BY <3>1, ThreadAssumption DEF Frame, TypeOK, Thread
    <3> QED BY <2>2, <3>2, <3>3, <3>4, <3>5, <3>6
  <2> QED BY <2>1, <2>2
<1>6. Soon' = Soon /\ Held' = Held
  BY <1>1, SoonStays
<1>7. Steady
  BY <1>1, <1>5, <1>6 DEF Steady, Unwritten, Changing
<1>8. Tells(Soon)'
  BY <1>1, <1>6 DEF Trusted, Remembering, Tells
<1>9. /\ Fits(n, c) /\ (left # {} => \A o \in left : Holds(s.action, n, o) => Holds(c, n, o))
      /\ \A o \in Op : Holds(pending[n], n, o) => Holds(c, n, o)
  <2>1. Fits(n, pending[n]) /\ Fits(n, s.action)
    BY <1>1, <1>2, <1>3 DEF Trusted, Fitting
  <2>2. CASE left = {}
    BY <2>1, <2>2
  <2>3. CASE left # {}
    <3>1. c = Joined(pending[n], left, s.action.ts) /\ change = Nobody
      BY <1>1, <2>3
    <3> QED BY <1>1, <1>2, <2>1, <3>1, JoinedFits
  <2> QED BY <2>2, <2>3
<1>10. \A m \in Name : \A a \in Hand(m)' : a \in Hand(m) \/ (m = n /\ a = c)
  BY <1>1, <1>4, <1>5 DEF Hand, Carriers
<1>11. Fits(n, c)'
  BY <1>2, <1>7, <1>9, FitsStays DEF Steady
<1>12. Orderly' /\ Remembering' /\ Stamped' /\ Fitting' /\ Exact'
  BY <1>1, <1>7, <1>8, <1>10, <1>11, SteadyTrusted
<1>13. Changed'
  BY <1>1, <1>7, ChangeKept
<1>14. Struck'
  <2>1. \A v \in Worker :
           sender'[v] # Nobody /\ sender'[v].stage = "finalize" /\ writing'[v] = <<>>
             => sender'[v] = sender[v] /\ writing'[v] = writing[v]
    BY <1>5
  <2> QED BY <1>1, <1>6, <2>1, StruckStays
<1>15. Outstanding'
  <2> SUFFICES ASSUME NEW m \in Name, NEW p \in Op, status[m][p] = "written"
               PROVE  \/ Holds(pending[m], m, p)'
                      \/ \E v \in Carriers(m)' : Holds(sender[v].action, m, p)'
                               /\ (sender'[v].stage = "finalize" => p \in sender'[v].got)
    BY <1>1 DEF Outstanding
  <2>1. ASSUME m = n, Holds(c, n, p)
        PROVE  Holds(pending[m], m, p)'
    BY <1>1, <1>4, <2>1 DEF Holds
  <2>2. CASE Holds(pending[m], m, p)
    <3>1. CASE m = n
      BY <1>9, <2>1, <2>2, <3>1
    <3>2. CASE m # n
      BY <1>1, <1>4, <2>2, <3>2 DEF Holds
    <3> QED BY <3>1, <3>2
  <2>3. CASE ~Holds(pending[m], m, p)
    <3>1. PICK v \in Carriers(m) : Holds(sender[v].action, m, p)
                               /\ (sender[v].stage = "finalize" => p \in sender[v].got)
      BY <1>1, <2>3 DEF Trusted, Outstanding
    <3>2. CASE v # w
      <4>1. v \in Worker /\ v \in Carriers(m)' /\ sender'[v] = sender[v]
        BY <1>5, <3>2 DEF Carriers
      <4> QED BY <1>1, <3>1, <4>1 DEF Holds
    <3>3. CASE v = w
      <4>1. m = n /\ Holds(s.action, n, p) /\ p \in s.action.ops
        BY <3>1, <3>3 DEF Carriers, Holds
      <4>2. CASE p \in s.got
        <5>1. w \in Carriers(m)' /\ sender'[w].action = s.action /\ sender'[w].got = s.got
          BY <1>5, <4>1, <4>2 DEF Carriers
        <5>2. Holds(sender[w].action, m, p)'
          BY <1>1, <4>1, <5>1 DEF Holds
        <5> QED BY <4>2, <5>1, <5>2
      <4>3. CASE p \notin s.got
        <5>1. p \in left
          BY <4>1, <4>3
        <5>2. Holds(c, n, p)
          BY <1>9, <4>1, <5>1
        <5> QED BY <2>1, <4>1, <5>2
      <4> QED BY <4>2, <4>3
    <3> QED BY <3>2, <3>3
  <2> QED BY <2>2, <2>3
<1> QED BY <1>12, <1>13, <1>14, <1>15 DEF Trusted

LEMMA FinalizedTrusted ==
  ASSUME Frame, Frame', Trusted, NEW w \in Worker, Finalized(w)
  PROVE  Trusted'
<1> SUFFICES ASSUME NEW s, s = sender[w], NEW n, n = s.name
             PROVE  Trusted'
  OBVIOUS
<1>1. /\ mode = "up" /\ mode' = "up" /\ s # Nobody /\ s.stage = "finalize"
      /\ writing[w] = <<>> /\ Flush /\ old' = old /\ sender' = [sender EXCEPT ![w] = Nobody]
      /\ UNCHANGED <<clock, pending, writing, change, crashes, latest>>
  BY DEF Finalized, At, Flush
<1>2. s \in Job /\ n \in Name /\ s.action \in Hand(n)
  BY <1>1 DEF Frame, TypeOK, Job, Hand, Carriers
<1>3. \A m \in Name, p \in Op :
        status'[m][p] = IF m = n /\ Covers(s, p) THEN "done" ELSE status[m][p]
  BY <1>2, TurnedType, SMTT(30) DEF Finalized, Frame, TypeOK
<1>4. sender'[w] = Nobody /\ \A v \in Worker : v # w => sender'[v] = sender[v]
  BY <1>1 DEF Frame, TypeOK
<1>5. Soon' = Soon /\ Held' = Soon
  BY <1>1, FlushSoon, HeldUp
<1>6. Steady
  BY <1>1, <1>5 DEF Steady, Unwritten, Changing
<1>7. \A p \in Op : Covers(s, p) => p \notin Soon[n].ops
  BY <1>1 DEF Trusted, Struck
<1>8. Tells(Soon)'
  <2>1. Tells(Soon)
    BY <1>1 DEF Trusted, Remembering
  <2> QED BY <1>3, <1>5, <1>7, <2>1 DEF Tells
<1>9. \A m \in Name, p \in Op : status'[m][p] = "written" => status[m][p] = "written"
  BY <1>3
<1>10. \A m \in Name : \A a \in Hand(m)' : a \in Hand(m)
  BY <1>1, <1>4 DEF Hand, Carriers
<1>11. Orderly' /\ Remembering' /\ Stamped' /\ Fitting' /\ Exact'
  BY <1>6, <1>8, <1>9, <1>10, SteadyTrusted
<1>12. Changed'
  <2>1. ASSUME change # Nobody
        PROVE  status'[change.name][change.op] = status[change.name][change.op]
    <3>1. change.name \in Name /\ change.op \in Op
      BY <2>1 DEF Frame, TypeOK, Change
    <3>2. latest[change.name][change.op] = clock
      BY <2>1 DEF Trusted, Changed
    <3>3. ASSUME change.name = n
          PROVE  ~Covers(s, change.op)
      <4>1. s.action.ts[change.op] < clock
        BY <1>1, <1>2, <2>1, <3>1 DEF Trusted, Fitting, Fits
      <4>2. s.action.ts[change.op] \in Nat /\ clock \in Nat
        BY <1>2, <3>1, TimeIsNat DEF Job, Action, Frame, TypeOK
      <4> QED BY <3>2, <3>3, <4>1, <4>2 DEF Covers
    <3> QED BY <1>3, <3>1, <3>3
  <2> QED BY <1>1, <1>6, <2>1, ChangeKept
<1>13. Struck'
  BY <1>1, <1>4, <1>5, StruckStays
<1>14. Outstanding'
  <2> SUFFICES ASSUME NEW m \in Name, NEW p \in Op, status'[m][p] = "written"
               PROVE  \/ Holds(pending[m], m, p)'
                      \/ \E v \in Carriers(m)' : Holds(sender[v].action, m, p)'
                               /\ (sender'[v].stage = "finalize" => p \in sender'[v].got)
    BY DEF Outstanding
  <2>1. status[m][p] = "written" /\ ~(m = n /\ Covers(s, p))
    BY <1>3
  <2>2. CASE Holds(pending[m], m, p)
    BY <1>1, <2>2 DEF Holds
  <2>3. CASE ~Holds(pending[m], m, p)
    <3>1. PICK v \in Carriers(m) : Holds(sender[v].action, m, p)
                               /\ (sender[v].stage = "finalize" => p \in sender[v].got)
      BY <1>1, <2>1, <2>3 DEF Trusted, Outstanding
    <3>2. v # w
      BY <1>1, <2>1, <3>1 DEF Covers, Carriers, Holds
    <3>3. v \in Worker /\ v \in Carriers(m)' /\ sender'[v] = sender[v]
      BY <1>4, <3>2 DEF Carriers
    <3> QED BY <1>1, <3>1, <3>3 DEF Holds
  <2> QED BY <2>2, <2>3
<1> QED BY <1>11, <1>12, <1>13, <1>14 DEF Trusted

(***************************************************************************)
(* A completion: what the sender has of the latest changes is struck, and  *)
(* nothing later is, because nothing crossed it.                           *)
(***************************************************************************)
LEMMA SenderWritesTrusted ==
  ASSUME Frame, Frame', Trusted, NEW w \in Worker, SenderWrites(w), faults' = {}
  PROVE  Trusted'
<1> SUFFICES ASSUME NEW s, s = sender[w], NEW n, n = s.name, NEW r, r = Completion(s)
             PROVE  Trusted'
  OBVIOUS
<1>1. /\ s # Nobody /\ s \in Job /\ s.stage = "finalize" /\ r \in Record
      /\ Rest(writing[w], r) /\ writing[w] # <<>>
  BY SenderWritesFrame
<1>2. /\ Writes(w) /\ w \in Thread /\ w # "merger" /\ ~Crosses(s)
      /\ UNCHANGED <<crashes, latest>>
      /\ IF Len(writing[w]) = 1 THEN Turned(s, "ending") ELSE UNCHANGED status
  BY ThreadAssumption DEF SenderWrites, Thread
<1>3. /\ mode = "up" /\ mode' = "up" /\ log' = log /\ writing[w] \in Seq(Piece)
      /\ UNCHANGED <<clock, old, pending, change, sender>>
      /\ Head(writing[w]) \in Piece /\ Soon' = Read(Soon, Head(writing[w]))
  BY <1>2, WritesSoon
<1>4. /\ writing'[w] = Tail(writing[w])
      /\ \A t \in Thread : t # w => writing'[t] = writing[t]
  BY <1>2, <1>3 DEF Writes, Frame, TypeOK
<1>5. \A m \in Name, p \in Op : Unwritten(m, p)' <=> Unwritten(m, p)
  BY <1>2, <1>3, <1>4 DEF Unwritten, Changing, Thread
<1>6. CASE Tail(writing[w]) # <<>>
  <2>1. Head(writing[w]) = [part |-> "head", of |-> r] /\ Len(writing[w]) = 2
    BY <1>1, <1>6, RestOf
  <2>2. Head(writing[w]).part = "head"
    BY <2>1
  <2>3. UNCHANGED <<crashes, status, latest>>
    BY <1>2, <2>1
  <2>4. \A v \in Worker : writing'[v] = writing[v] \/ writing'[v] # <<>>
    BY <1>4, <1>6 DEF Thread
  <2> QED BY <1>2, <1>5, <2>2, <2>3, <2>4, SilentTrusted
<1>7. CASE Tail(writing[w]) = <<>>
  <2>1. Head(writing[w]) = [part |-> "name", of |-> r] /\ Len(writing[w]) = 1
    BY <1>1, <1>7, RestOf
  <2>2. /\ r.type = "c" /\ r.ops = s.got /\ r.time = Newest(s.action.ts) /\ r.name = n
        /\ n \in Name /\ s.action \in Action /\ s.got \subseteq s.action.ops
        /\ s.action \in Hand(n) /\ w \in Carriers(n)
    BY <1>1 DEF Completion, Job, Frame, Sending, Hand, Carriers
  <2>3. Soon \in Tables /\ Soon[n] \in Action /\ Held' = Held
    BY <1>3, <2>2, UpFacts, HeldUp DEF Tables
  <2>4. Soon'[n] = Completed(Soon[n], r) /\ \A m \in Name : m # n => Soon'[m] = Soon[m]
    <3> DEFINE p == Head(writing[w])
    <3>1. p.part = "name" /\ p.of = r
      BY <2>1
    <3> HIDE DEF p
    <3>2. \A m \in Name : Read(Soon, p)[m] =
            IF m # p.of.name THEN Soon[m]
            ELSE IF p.of.type = "i" THEN Issued(Soon[m], p.of) ELSE Completed(Soon[m], p.of)
      BY <1>3, <2>3, <3>1, ReadTable DEF p
    <3> QED BY <1>3, <2>2, <3>1, <3>2 DEF p
  <2>5. /\ \A p \in Op : p \in Soon'[n].ops
                           <=> p \in Soon[n].ops
                               /\ ~(p \in s.got /\ Soon[n].ts[p] <= Newest(s.action.ts))
        /\ \A p \in Op : p \in Soon'[n].ops => Soon'[n].ts[p] = Soon[n].ts[p]
        /\ \A p \in Op : Soon'[n].ts[p] \in {0, Soon[n].ts[p]}
    <3> DEFINE a == Soon[n]
               b == Soon'[n]
    <3>1. a \in Action /\ r \in Record /\ b = Completed(a, r)
      BY <1>1, <2>1, <2>2, <2>3, <2>4
    <3> HIDE DEF a, b
    <3>2. /\ \A p \in Op : p \in b.ops <=> p \in a.ops /\ ~(p \in r.ops /\ a.ts[p] <= r.time)
          /\ \A p \in Op : p \in b.ops => b.ts[p] = a.ts[p]
          /\ \A p \in Op : b.ts[p] \in {0, a.ts[p]}
      BY <3>1, CompletedIs
    <3>3. r.ops = s.got /\ r.time = Newest(s.action.ts)
      BY <2>2
    <3> QED BY <3>2, <3>3 DEF a, b
  <2>6. \A m \in Name, p \in Op :
          status'[m][p] = IF m = n /\ Covers(s, p) THEN "ending" ELSE status[m][p]
    <3>1. Turned(s, "ending")
      BY <1>2, <2>1
    <3>2. status \in [Name -> [Op -> {"none", "begun", "written", "ending", "done"}]]
      BY DEF Frame, TypeOK
    <3>3. \A m \in Name, p \in Op :
            status'[m][p] = IF m = s.name /\ Covers(s, p) THEN "ending" ELSE status[m][p]
      BY <1>1, <3>1, <3>2, TurnedType
    <3> QED BY <3>3
  <2>7. ASSUME NEW p \in Op
        PROVE  /\ s.action.ts[p] \in Nat /\ latest[n][p] \in Nat /\ Soon[n].ts[p] \in Nat
               /\ Newest(s.action.ts) \in Nat /\ clock \in Nat
               /\ s.action.ts[p] <= latest[n][p]
               /\ Reaching(n, s.action, p) /\ Short(n, s.action, p)
               /\ change # Nobody => Newest(s.action.ts) < clock
    <3>1. s.action.ts \in [Op -> Time] /\ Soon[n].ts \in [Op -> Time]
      BY <2>2, <2>3 DEF Action
    <3>2. /\ s.action.ts[p] \in Time /\ latest[n][p] \in Time /\ Soon[n].ts[p] \in Time
          /\ Newest(s.action.ts) \in Time /\ clock \in Time
      BY <2>2, <3>1, NewestOf DEF Frame, TypeOK
    <3>3. Fits(n, s.action)
      BY <1>3, <2>2 DEF Trusted, Fitting
    <3>4. PICK q \in Op : Newest(s.action.ts) = s.action.ts[q]
      BY <3>1, NewestOf
    <3>5. change # Nobody => Newest(s.action.ts) < clock
      BY <3>3, <3>4 DEF Fits
    <3> QED BY <3>2, <3>3, <3>5, TimeIsNat DEF Fits
  <2>8. ASSUME NEW p \in Op, Covers(s, p)
        PROVE  p \notin Soon'[n].ops
    <3>1. p \in s.got /\ p \in s.action.ops /\ s.action.ts[p] = latest[n][p]
      BY <2>2, <2>8 DEF Covers
    <3>2. Soon[n].ts[p] <= Newest(s.action.ts)
      BY <2>7, <3>1 DEF Reaching
    <3> QED BY <2>5, <3>1, <3>2
  <2>9. ASSUME NEW p \in Op, p \in Soon[n].ops, status[n][p] = "written", ~Covers(s, p)
        PROVE  p \in Soon'[n].ops
    <3> SUFFICES ASSUME p \in s.got PROVE ~(Soon[n].ts[p] <= Newest(s.action.ts))
      BY <2>5, <2>9
    <3>1. s.action.ts[p] # latest[n][p]
      BY <2>9 DEF Covers
    <3>2. s.action.ts[p] < latest[n][p]
      BY <2>7, <3>1
    <3>3. ~(latest[n][p] <= Newest(s.action.ts))
      BY <1>2, <3>2 DEF Crosses
    <3>4. ~Unwritten(n, p)
      BY <2>9 DEF Unwritten, Changing, Trusted, Changed
    <3>5. Soon[n].ts[p] >= latest[n][p]
      BY <2>2, <2>7, <2>9, <3>2, <3>4 DEF Short
    <3> QED BY <2>7, <3>3, <3>5
  <2>10. ASSUME change # Nobody
         PROVE  /\ change.name \in Name /\ change.op \in Op
                /\ status'[change.name][change.op] = "begun"
                /\ ~Unwritten(change.name, change.op) =>
                     /\ change.op \in Soon'[change.name].ops
                     /\ Soon'[change.name].ts[change.op] = clock
    <3> SUFFICES ASSUME NEW m, m = change.name, NEW p, p = change.op
                 PROVE  /\ m \in Name /\ p \in Op /\ status'[m][p] = "begun"
                        /\ ~Unwritten(m, p) => p \in Soon'[m].ops /\ Soon'[m].ts[p] = clock
      OBVIOUS
    <3>1. /\ m \in Name /\ p \in Op /\ latest[m][p] = clock /\ status[m][p] = "begun"
          /\ ~Unwritten(m, p) => p \in Soon[m].ops /\ Soon[m].ts[p] = clock
      BY <2>10 DEF Frame, TypeOK, Change, Trusted, Changed
    <3>2. CASE m # n
      BY <2>4, <2>6, <3>1, <3>2
    <3>3. CASE m = n
      <4>1. s.action.ts[p] # clock
        <5>1. s.action.ts[p] <= Newest(s.action.ts)
          BY <2>2, <3>1, NewestOf DEF Action
        <5> QED BY <2>7, <2>10, <3>1, <5>1
      <4>2. ~Covers(s, p)
        BY <3>1, <3>3, <4>1 DEF Covers
      <4>3. ~(clock <= Newest(s.action.ts))
        BY <2>7, <2>10, <3>1
      <4> QED BY <2>5, <2>6, <3>1, <3>3, <4>2, <4>3
    <3> QED BY <3>2, <3>3
  <2>11. \A m \in Name : Hand(m)' = Hand(m)
    BY <1>3, SameHand
  <2>12. Orderly'
    BY <1>2, <1>3 DEF Trusted, Orderly
  <2>13. Tells(Soon)'
    <3>1. Tells(Soon)
      BY <1>3 DEF Trusted, Remembering
    <3> SUFFICES ASSUME NEW m \in Name, NEW p \in Op
                 PROVE  /\ status'[m][p] = "written" => p \in Soon'[m].ops
                        /\ status'[m][p] \in {"none", "done"} => p \notin Soon'[m].ops
      BY DEF Tells
    <3>2. CASE m # n
      BY <2>4, <2>6, <3>1, <3>2 DEF Tells
    <3>3. CASE m = n
      <4>1. status'[m][p] # "ending" => status'[m][p] = status[m][p] /\ ~Covers(s, p)
        BY <2>6, <3>3
      <4> QED BY <2>5, <2>9, <3>1, <3>3, <4>1 DEF Tells
    <3> QED BY <3>2, <3>3
  <2>14. Remembering'
    <3>1. Tells(Held)
      BY DEF Trusted, Remembering
    <3>2. Tells(Held)'
      BY <2>3, <2>6, <3>1 DEF Tells
    <3> QED BY <2>13, <3>2 DEF Remembering
  <2>15. ASSUME NEW m \in Name, NEW p \in Op
         PROVE  /\ Soon'[m].ts[p] \in {0, Soon[m].ts[p]} /\ Soon[m].ts[p] \in Nat
                /\ p \in Soon'[m].ops => p \in Soon[m].ops /\ Soon'[m].ts[p] = Soon[m].ts[p]
    <3>1. Soon[m].ts[p] \in Nat
      <4>1. Soon[m] \in Action
        BY <2>3 DEF Tables
      <4> QED BY <4>1, TimeIsNat DEF Action
    <3> QED BY <2>4, <2>5, <3>1
  <2>16. Stamped'
    <3>1. Timely(Soon)'
      <4> SUFFICES ASSUME NEW m \in Name, NEW p \in Op PROVE Soon'[m].ts[p] <= clock
        BY <1>3 DEF Timely
      <4>1. Soon[m].ts[p] <= clock
        BY <1>3 DEF Trusted, Stamped, Timely
      <4> QED BY <2>7, <2>15, <4>1
    <3>2. Timely(Held)'
      BY <1>3, <2>3 DEF Trusted, Stamped, Timely
    <3> QED BY <1>2, <1>3, <3>1, <3>2 DEF Trusted, Stamped
  <2>17. Changed'
    <3>1. change # Nobody => /\ change.time = clock
                             /\ latest[change.name][change.op] = clock
      BY DEF Trusted, Changed
    <3> QED BY <1>2, <1>3, <1>5, <2>10, <3>1 DEF Changed
  <2>18. Fitting'
    <3> SUFFICES ASSUME NEW m \in Name, NEW a \in Hand(m), NEW p \in Op
                 PROVE  /\ a.ts[p] <= latest[m][p] /\ (change # Nobody => a.ts[p] < clock)
                        /\ Reaching(m, a, p)' /\ Short(m, a, p)'
      BY <1>2, <1>3, <2>11 DEF Fitting, Fits
    <3>1. /\ a.ts[p] <= latest[m][p] /\ (change # Nobody => a.ts[p] < clock)
          /\ Reaching(m, a, p) /\ Short(m, a, p)
      BY <1>3 DEF Trusted, Fitting, Fits
    <3>2. Reaching(m, a, p)'
      <4>1. Newest(a.ts) \in Nat
        <5>1. a \in Action
          BY HandTypes
        <5>2. Newest(a.ts) \in Time
          BY <5>1, NewestOf DEF Action
        <5> QED BY <5>2, TimeIsNat
      <4>2. Soon[m].ts[p] <= Newest(a.ts) => Soon'[m].ts[p] <= Newest(a.ts)
        BY <2>15, <4>1
      <4> QED BY <1>2, <3>1, <4>2 DEF Reaching
    <3>3. Short(m, a, p)'
      BY <1>2, <1>5, <2>15, <3>1 DEF Short
    <3> QED BY <3>1, <3>2, <3>3
  <2>19. Struck'
    <3> SUFFICES ASSUME NEW v \in Worker, sender[v] # Nobody, sender[v].stage = "finalize",
                        writing'[v] = <<>>, NEW p \in Op, Covers(sender[v], p)
                 PROVE  p \notin Soon'[sender[v].name].ops
      BY <1>2, <1>3 DEF Struck, Covers
    <3>1. CASE v = w
      BY <2>8, <3>1
    <3>2. CASE v # w
      <4>1. writing[v] = <<>>
        BY <1>4, <3>2 DEF Thread
      <4>2. p \notin Soon[sender[v].name].ops
        BY <1>3, <4>1 DEF Trusted, Struck
      <4>3. sender[v].name \in Name
        BY DEF Frame, TypeOK, Job
      <4> QED BY <2>15, <4>2, <4>3
    <3> QED BY <3>1, <3>2
  <2>20. Outstanding'
    <3>1. \A m \in Name, p \in Op : status'[m][p] = "written" => status[m][p] = "written"
      BY <2>6
    <3> QED BY <1>2, <1>3, <3>1, OutstandingStays
  <2>21. Exact'
    <3> SUFFICES ASSUME crashes = 0, NEW m \in Name, NEW p \in Op, status'[m][p] = "written"
                 PROVE  Held[m].ts[p] = latest[m][p] /\ Soon'[m].ts[p] = latest[m][p]
      BY <1>2, <1>3, <2>3 DEF Exact
    <3>1. status[m][p] = "written"
      BY <2>6
    <3>2. Held[m].ts[p] = latest[m][p] /\ Soon[m].ts[p] = latest[m][p]
      BY <1>3, <3>1 DEF Trusted, Exact
    <3>3. p \in Soon'[m].ops
      BY <2>13 DEF Tells
    <3> QED BY <2>15, <3>2, <3>3
  <2> QED BY <2>12, <2>14, <2>16, <2>17, <2>18, <2>19, <2>20, <2>21 DEF Trusted
<1> QED BY <1>6, <1>7

-----------------------------------------------------------------------------
LEMMA FaultsStay ==
  ASSUME [Next]_vars, faults' = {}
  PROVE  faults = {}
BY DEF Next, Recovery, MergeThread, SendThread, StartWithLog, StartWithout, ReadOld, ReadGarbled,
       DeleteOld, CreateLog, Reissue, SwapIn, Begin, MergerWrites, OldNameWritten, NewName, Merge,
       Send, Answer, PutBack, SenderWrites, Finalized, Crash, vars, history

LEMMA TrustedStep ==
  ASSUME Frame, Frame', Reissued, Trusted, [Next]_vars, faults' = {}
  PROVE  Trusted'
<1>1. CASE UNCHANGED vars
  <2>1. /\ UNCHANGED <<clock, mode, old, log, buffer, loaded, todo, pending, writing, change,
                       sender, crashes, status, latest>>
    BY <1>1 DEF vars, files, memory, history
  <2>2. Held' = Held /\ Soon' = Soon
    BY <2>1 DEF Held, Soon
  <2>3. \A n \in Name : Hand(n)' = Hand(n) /\ Carriers(n)' = Carriers(n)
    BY <2>1, SameHand
  <2>4. \A n \in Name, o \in Op : Unwritten(n, o)' <=> Unwritten(n, o)
    BY <2>1 DEF Unwritten, Changing
  <2>5. CASE mode # "up"
    BY <2>1, <2>2, <2>5, Kept DEF Frame, Trusted, Orderly
  <2>6. CASE mode = "up"
    <3>1. Steady
      BY <2>1, <2>2, <2>4, <2>6 DEF Steady
    <3>2. Tells(Soon)'
      BY <2>1, <2>2, <2>6 DEF Trusted, Remembering, Tells
    <3>3. Orderly' /\ Remembering' /\ Stamped' /\ Fitting' /\ Exact'
      BY <2>1, <2>3, <3>1, <3>2, SteadyTrusted
    <3>4. Changed'
      BY <2>1, <3>1, ChangeKept
    <3>5. Struck' /\ Outstanding'
      BY <2>1, <2>2, <2>6, StruckStays, OutstandingStays
    <3> QED BY <3>3, <3>4, <3>5 DEF Trusted
  <2> QED BY <2>5, <2>6
<1>2. CASE Recovery
  <2>1. ~ReadGarbled
    BY DEF ReadGarbled
  <2> QED BY <1>2, <2>1, PassingTrusted, SwapInTrusted DEF Recovery
<1>3. CASE MergeThread
  BY <1>3, BeginTrusted, MergerWritesTrusted, OldNameWrittenTrusted, NewNameTrusted,
     MergeTrusted DEF MergeThread
<1>4. CASE \E w \in Worker : SendThread(w)
  BY <1>4, SendTrusted, AnswerTrusted, PutBackTrusted, SenderWritesTrusted, FinalizedTrusted
     DEF SendThread
<1>5. CASE Crash
  BY <1>5, CrashTrusted
<1> QED BY <1>1, <1>2, <1>3, <1>4, <1>5 DEF Next

LEMMA IInvStart == Init => IInv
<1> SUFFICES ASSUME Init PROVE IInv
  OBVIOUS
<1>1. Frame
  BY FrameStart
<1>2. /\ mode = "down" /\ old = NoFile /\ log = NoFile /\ loaded = Empty /\ change = Nobody
      /\ clock = 0 /\ crashes = 0
      /\ status = [n \in Name |-> [o \in Op |-> "none"]]
      /\ latest = [n \in Name |-> [o \in Op |-> 0]]
  BY DEF Init, Empty
<1>3. Held = Empty
  BY <1>2 DEF Held
<1>4. \A n \in Name : Empty[n].ops = {} /\ \A o \in Op : Empty[n].ts[o] = 0
  BY DEF Empty, Done
<1>5. Orderly /\ Changed /\ Reissued
  BY <1>2 DEF Orderly, Changed, Reissued
<1>6. Remembering
  BY <1>2, <1>3, <1>4 DEF Remembering, Tells
<1>7. Stamped
  BY <1>2, <1>3, <1>4 DEF Stamped, Timely
<1>8. Fitting /\ Struck /\ Outstanding /\ Exact
  BY <1>2 DEF Fitting, Struck, Outstanding, Exact
<1> QED BY <1>1, <1>5, <1>6, <1>7, <1>8 DEF IInv, Trusted

LEMMA IInvStep == IInv /\ [Next]_vars => IInv'
<1> SUFFICES ASSUME IInv, [Next]_vars PROVE IInv'
  OBVIOUS
<1>1. Frame' /\ Reissued'
  BY FrameStep, ReissuedStep DEF IInv
<1>2. ASSUME faults' = {}
      PROVE  Trusted'
  BY <1>1, <1>2, FaultsStay, TrustedStep DEF IInv
<1> QED BY <1>1, <1>2 DEF IInv

(***************************************************************************)
(* The theorem: a change whose record is written is remembered, and one    *)
(* whose completion is written is not done again, wherever the client      *)
(* crashes and however often, while the journal is sound.                  *)
(***************************************************************************)
THEOREM NothingForgotten == Spec => []Remembered
<1>1. IInv => Remembered
  BY DEF IInv, Trusted, Remembering, Tells, Remembered, Sound
<1> QED BY IInvStart, IInvStep, <1>1, PTL DEF Spec

(***************************************************************************)
(* The theorem: while the client runs, what the journal says is            *)
(* outstanding is in the map or with a sender, by its own stamp.           *)
(***************************************************************************)
THEOREM NothingLetGo == Spec => []InHand
<1>1. IInv => InHand
  BY DEF IInv, Trusted, Outstanding, Carriers, InHand, Sound
<1> QED BY IInvStart, IInvStep, <1>1, PTL DEF Spec

(***************************************************************************)
(* The theorem: a recovery fills the map with all that is outstanding, and *)
(* after the first crash with the stamp of each change.                    *)
(***************************************************************************)
THEOREM RefilledAll == Spec => RefilledIfSound
<1>1. IInv /\ [Next]_vars => [SwapIn /\ faults = {} => Refilled]_vars
  <2> SUFFICES ASSUME IInv, SwapIn, faults = {}, NEW n \in Name, NEW o \in Op,
                      status[n][o] = "written"
               PROVE  /\ o \in pending'[n].ops
                      /\ crashes = 1 => pending'[n].ts[o] = latest[n][o]
    BY DEF Refilled
  <2>1. mode = "issue" /\ pending' = loaded
    BY DEF SwapIn
  <2>2. Held = loaded
    BY <2>1 DEF Held
  <2>3. o \in loaded[n].ops
    BY <2>2 DEF IInv, Trusted, Remembering, Tells
  <2>4. crashes = 1 => loaded[n].ts[o] = latest[n][o]
    BY <2>1, <2>2 DEF IInv, Trusted, Exact
  <2> QED BY <2>1, <2>3, <2>4
<1> QED BY IInvStart, IInvStep, <1>1, PTL DEF Spec, RefilledIfSound
=============================================================================
