---------------------------- MODULE MergerProofs ----------------------------
(***************************************************************************)
(* Proofs about Merger: with what an add_change has still to count,        *)
(* pending_count never falls below the number of operations that the map   *)
(* and the senders hold, so a sender that finds it at 0 overtakes no       *)
(* create, rename or removal of theirs.                                    *)
(***************************************************************************)
EXTENDS Merger, FiniteSetTheorems, TLAPS

(***************************************************************************)
(* What pending_count stands for: a sender that has put its operations     *)
(* back and not subtracted them yet is counted with them still, so those   *)
(* the senders hold are counted also while an add_change is under way.     *)
(***************************************************************************)
Sending == Held({"send", "putback", "subtract"})

Added == IF adding = None THEN 0 ELSE adding.n

Enough ==
  /\ count >= Cardinality(Sending)
  /\ count + Added >= Cardinality(Waiting) + Cardinality(Sending)

(***************************************************************************)
(* What is in the map and not counted yet: with the pipe, one VERSION at   *)
(* most; with a sender, no more than it has still to subtract.             *)
(***************************************************************************)
CountedSoon ==
  adding # None =>
    /\ mode # "rename"
    /\ adding.by = None =>
         \/ adding.n = 0
         \/ adding.n = 1 /\ \E n \in Entity : <<n, "version">> \in Waiting
    /\ adding.by # None =>
         /\ Runs(adding.by, "subtract")
         /\ adding.n <= Cardinality(sender[adding.by].ops \cap Counted)

(* Who holds an event, an action or a connection has something in it. *)
Consistent ==
  /\ mode \in {"taken", "rename"} => event # None
  /\ mode = "rename" => /\ event.op = "move"
                        /\ pending[event.name] # None /\ "move" \in pending[event.name].ops
  /\ \A n \in Entity : pending[n] # None => pending[n].ops # {}
  /\ \A w \in Worker : Runs(w, "send") \/ Runs(w, "putback") => sender[w].ops # {}

IInv == TypeOK /\ Consistent /\ Enough /\ CountedSoon

-----------------------------------------------------------------------------
(* The operations one holder has are as many as its pairs. *)
LEMMA Pairs ==
  ASSUME NEW x, NEW A, IsFiniteSet(A)
  PROVE  /\ IsFiniteSet({x} \X A)
         /\ Cardinality({x} \X A) = Cardinality(A)
<1>1. IsFiniteSet({x}) /\ Cardinality({x}) = 1
  BY FS_Singleton
<1>2. Cardinality(A) \in Nat
  BY FS_CardinalityType
<1> QED
  BY <1>1, <1>2, FS_Product

(* Operations that come to one holder. *)
LEMMA Growing ==
  ASSUME NEW S, NEW T, NEW A, NEW x, IsFiniteSet(S), IsFiniteSet(A),
         T \subseteq S \cup ({x} \X A)
  PROVE  Cardinality(T) <= Cardinality(S) + Cardinality(A)
<1> DEFINE P == {x} \X A
<1>1. IsFiniteSet(P) /\ Cardinality(P) = Cardinality(A)
  BY Pairs
<1> HIDE DEF P
<1>2. /\ IsFiniteSet(S \cup P)
      /\ Cardinality(S \cup P) = Cardinality(S) + Cardinality(P) - Cardinality(S \cap P)
  BY <1>1, FS_Union
<1>3. IsFiniteSet(S \cap P)
  BY FS_Intersection
<1>4. Cardinality(T) <= Cardinality(S \cup P) /\ IsFiniteSet(T)
  BY <1>2, FS_Subset DEF P
<1>5. /\ Cardinality(S) \in Nat /\ Cardinality(P) \in Nat /\ Cardinality(T) \in Nat
      /\ Cardinality(S \cap P) \in Nat
  BY <1>1, <1>3, <1>4, FS_CardinalityType
<1> QED
  BY <1>1, <1>2, <1>4, <1>5

(* Operations that leave one holder. *)
LEMMA Shrinking ==
  ASSUME NEW S, NEW T, NEW A, NEW x, IsFiniteSet(S), IsFiniteSet(A),
         {x} \X A \subseteq S, T \subseteq S \ ({x} \X A)
  PROVE  Cardinality(T) <= Cardinality(S) - Cardinality(A)
<1> DEFINE P == {x} \X A
<1>1. IsFiniteSet(P) /\ Cardinality(P) = Cardinality(A)
  BY Pairs
<1>2. P \subseteq S /\ T \subseteq S \ P
  OBVIOUS
<1> HIDE DEF P
<1>3. S \cap P = P
  BY <1>2
<1>4. IsFiniteSet(S \ P) /\ Cardinality(S \ P) = Cardinality(S) - Cardinality(P)
  BY <1>3, FS_Difference
<1>5. Cardinality(T) <= Cardinality(S \ P) /\ IsFiniteSet(T)
  BY <1>2, <1>4, FS_Subset
<1>6. Cardinality(S) \in Nat /\ Cardinality(P) \in Nat /\ Cardinality(T) \in Nat
  BY <1>1, <1>5, FS_CardinalityType
<1> QED
  BY <1>1, <1>4, <1>5, <1>6

-----------------------------------------------------------------------------
LEMMA OpsFinite == IsFiniteSet(Op) /\ \A A \in SUBSET Op : IsFiniteSet(A)
<1>1. Op = {Order[i] : i \in 1..6}
  BY DEF Op
<1>2. Op = {"create"} \cup {"move"} \cup {"remove"} \cup {"apply"} \cup {"version"} \cup {"write"}
  BY <1>1 DEF Order
<1>3. IsFiniteSet(Op)
  BY <1>2, FS_Singleton, FS_Union
<1>4. ASSUME NEW A \in SUBSET Op PROVE IsFiniteSet(A)
  BY <1>3, FS_Subset
<1> QED
  BY <1>3, <1>4

LEMMA HoldingFinite ==
  /\ IsFiniteSet(Waiting) /\ IsFiniteSet(Waiting')
  /\ IsFiniteSet(Sending) /\ IsFiniteSet(Sending')
  /\ Cardinality(Waiting) \in Nat /\ Cardinality(Waiting') \in Nat
  /\ Cardinality(Sending) \in Nat /\ Cardinality(Sending') \in Nat
<1>1. IsFiniteSet(Counted)
  BY OpsFinite DEF Counted
<1>2. IsFiniteSet(Entity)
  BY FiniteAssumption, FS_Singleton, FS_Union DEF Entity
<1>3. IsFiniteSet(Entity \X Counted) /\ IsFiniteSet(Worker \X Counted)
  BY <1>1, <1>2, FiniteAssumption, FS_Product
<1>4. /\ Waiting \in SUBSET (Entity \X Counted) /\ Waiting' \in SUBSET (Entity \X Counted)
      /\ Sending \in SUBSET (Worker \X Counted) /\ Sending' \in SUBSET (Worker \X Counted)
  BY DEF Waiting, Sending, Held
<1>5. /\ IsFiniteSet(Waiting) /\ IsFiniteSet(Waiting')
      /\ IsFiniteSet(Sending) /\ IsFiniteSet(Sending')
  BY <1>3, <1>4, FS_Subset
<1> QED
  BY <1>5, FS_CardinalityType

LEMMA AddedIsNat ==
  /\ TypeOK => count \in Nat /\ Added \in Nat
  /\ TypeOK' => count' \in Nat /\ Added' \in Nat
<1>1. TypeOK => count \in Nat /\ Added \in Nat
  BY DEF TypeOK, Added, Addition
<1>2. TypeOK' => count' \in Nat /\ Added' \in Nat
  BY DEF TypeOK, Added, Addition
<1> QED
  BY <1>1, <1>2

(* Neither the map, the lock nor the sender that holds it changes. *)
LEMMA SoonKept ==
  ASSUME TypeOK, CountedSoon, UNCHANGED adding,
         adding # None => UNCHANGED pending /\ mode' # "rename",
         \A w \in Worker : adding # None /\ adding.by = w /\ Runs(w, "subtract")
                              => UNCHANGED sender[w]
  PROVE  CountedSoon'
<1> SUFFICES ASSUME adding # None PROVE CountedSoon'
  BY DEF CountedSoon
<1>1. adding.by \in Worker \cup {None}
  BY DEF TypeOK, Addition
<1>2. Waiting' = Waiting
  BY DEF Waiting
<1>3. adding.by # None => Runs(adding.by, "subtract")' /\ sender'[adding.by] = sender[adding.by]
  BY <1>1 DEF CountedSoon, Runs
<1> QED
  BY <1>2, <1>3 DEF CountedSoon

(* The counter is a natural number wherever it is enough. *)
LEMMA EnoughIsNat ==
  ASSUME count' \in Int, Enough'
  PROVE  count' \in Nat
BY HoldingFinite DEF Enough

LEMMA OpsKnown ==
  /\ Op = {"create", "move", "remove", "apply", "version", "write"}
  /\ Counted = {"create", "move", "remove", "version"}
<1>1. Op = {Order[i] : i \in 1..6}
  BY DEF Op
<1>2. 1..6 = {1, 2, 3, 4, 5, 6}
  OBVIOUS
<1> QED
  BY <1>1, <1>2 DEF Order, Counted

LEMMA InitHolds == Init => IInv
<1> SUFFICES ASSUME Init PROVE IInv
  OBVIOUS
<1>1. Waiting = {} /\ Sending = {}
  BY DEF Init, Waiting, Sending, Held
<1>2. Cardinality(Waiting) = 0 /\ Cardinality(Sending) = 0
  BY <1>1, FS_EmptySet
<1>3. TypeOK
  <2>1. 0 \in Time /\ 0 \in 0..MaxFailures
    BY BoundAssumption DEF Time
  <2>2. queue \in Seq(Event) /\ half \in [Listener -> Name \cup {None}]
    BY DEF Init
  <2>3. /\ pending \in [Entity -> Action \cup {None}]
        /\ sender \in [Worker -> Sender \cup {None}]
        /\ owed \in [Entity -> [Op -> Time]]
    BY <2>1 DEF Init
  <2> QED
    BY <2>1, <2>2, <2>3 DEF Init, TypeOK
<1>4. Consistent /\ CountedSoon
  BY DEF Init, Consistent, CountedSoon, Runs
<1> QED
  BY <1>2, <1>3, <1>4 DEF Init, IInv, Enough, Added

-----------------------------------------------------------------------------
(* The user and the listeners touch nothing that the counter is about. *)
LEMMA ReportType ==
  ASSUME TypeOK, NEW n \in Name, Report(n, "create") \/ Report(n, "write") \/ Report(n, "remove")
                                  \/ Report(n, "move") \/ Report(n, "invalid")
  PROVE  /\ clock' \in Time /\ clock + 1 \in Time
         /\ queue' \in Seq(Event)
         /\ UNCHANGED <<merging, sender, failures, unapplied, overtaken>>
<1>1. clock + 1 \in Time
  BY BoundAssumption DEF Report, TypeOK, Time
<1>2. PICK op \in {"create", "move", "remove", "write", "invalid"} : Report(n, op)
  OBVIOUS
<1>3. [op |-> op, name |-> n, time |-> clock + 1] \in Event
  BY <1>1 DEF Event
<1>4. queue' \in Seq(Event)
  BY <1>2, <1>3 DEF Report, TypeOK
<1> QED
  BY <1>1, <1>2, <1>4 DEF Report

LEMMA OweType ==
  ASSUME TypeOK, clock + 1 \in Time, NEW n \in Name, NEW op, Owe(n, op)
  PROVE  owed' \in [Entity -> [Op -> Time]]
<1>1. 0 \in Time
  BY BoundAssumption DEF Time
<1>2. [o \in Op |-> IF o = op THEN clock + 1
                    ELSE IF o = "write" /\ op \in {"move", "remove"} THEN 0
                    ELSE owed[n][o]] \in [Op -> Time]
  BY <1>1 DEF TypeOK, Entity
<1> QED
  BY <1>2 DEF TypeOK, Owe

LEMMA WorldStep ==
  ASSUME IInv,
         \/ \E n \in Name : UserCreates(n) \/ UserWrites(n) \/ UserRemoves(n)
         \/ \E n, m \in Name : UserRenames(n, m)
         \/ \E l \in Listener : ReportNewName(l)
  PROVE  IInv'
<1>1. UNCHANGED <<merging, sender, failures, unapplied, overtaken>>
  BY DEF UserCreates, UserWrites, UserRemoves, UserRenames, Report, ReportNewName, merging,
         account
<1>2. Consistent'
  BY <1>1 DEF IInv, Consistent, Runs, merging
<1>3. Enough'
  BY <1>1 DEF IInv, Enough, Added, Waiting, Sending, Held, merging
<1>5. CountedSoon'
  BY <1>1, SoonKept DEF IInv, CountedSoon, merging
<1>4. /\ clock' \in Time /\ disk' \subseteq Name /\ half' \in [Listener -> Name \cup {None}]
      /\ queue' \in Seq(Event) /\ owed' \in [Entity -> [Op -> Time]]
  <2>1. CASE \E n \in Name : UserCreates(n)
    <3>1. PICK n \in Name : UserCreates(n)
      BY <2>1
    <3>2. Report(n, "create") \/ Report(n, "invalid")
      BY <3>1 DEF UserCreates
    <3>3. clock' \in Time /\ clock + 1 \in Time /\ queue' \in Seq(Event)
      BY <3>2, ReportType DEF IInv
    <3>4. owed' \in [Entity -> [Op -> Time]]
      BY <3>1, <3>3, OweType DEF UserCreates, IInv, TypeOK
    <3> QED
      BY <3>1, <3>3, <3>4 DEF UserCreates, IInv, TypeOK
  <2>2. CASE \E n \in Name : UserWrites(n)
    <3>1. PICK n \in Name : UserWrites(n)
      BY <2>2
    <3>2. clock' \in Time /\ clock + 1 \in Time /\ queue' \in Seq(Event)
      BY <3>1, ReportType DEF IInv, UserWrites
    <3> QED
      BY <3>1, <3>2, OweType DEF UserWrites, IInv, TypeOK
  <2>3. CASE \E n \in Name : UserRemoves(n)
    <3>1. PICK n \in Name : UserRemoves(n)
      BY <2>3
    <3>2. clock' \in Time /\ clock + 1 \in Time /\ queue' \in Seq(Event)
      BY <3>1, ReportType DEF IInv, UserRemoves
    <3> QED
      BY <3>1, <3>2, OweType DEF UserRemoves, IInv, TypeOK
  <2>4. CASE \E n, m \in Name : UserRenames(n, m)
    <3>1. PICK n \in Name, m \in Name : UserRenames(n, m)
      BY <2>4
    <3>2. clock' \in Time /\ clock + 1 \in Time /\ queue' \in Seq(Event)
      BY <3>1, ReportType DEF IInv, UserRenames
    <3> QED
      BY <3>1, <3>2, OweType DEF UserRenames, IInv, TypeOK
  <2>5. CASE \E l \in Listener : ReportNewName(l)
    <3>1. PICK l \in Listener : ReportNewName(l)
      BY <2>5
    <3>2. [op |-> "newname", name |-> half[l], time |-> clock] \in Event
      BY <3>1 DEF ReportNewName, IInv, TypeOK, Event
    <3>3. queue' \in Seq(Event)
      BY <3>1, <3>2 DEF ReportNewName, IInv, TypeOK
    <3> QED
      BY <3>1, <3>3 DEF ReportNewName, account, IInv, TypeOK
  <2> QED
    BY <2>1, <2>2, <2>3, <2>4, <2>5
<1> QED
  BY <1>1, <1>2, <1>3, <1>4, <1>5 DEF IInv, TypeOK, merging

-----------------------------------------------------------------------------
(* An event counts for one operation, new in the map or not. *)
LEMMA WithType ==
  ASSUME TypeOK, NEW n \in Name, NEW op \in Op
  PROVE  /\ With(n, op) \in Action
         /\ op \in With(n, op).ops
         /\ pending[n] = None => With(n, op).ops = {op}
         /\ pending[n] # None => With(n, op).ops = pending[n].ops \cup {op}
<1>1. 0 \in Time /\ n \in Entity
  BY BoundAssumption DEF Time, Entity
<1>2. CASE pending[n] = None
  BY <1>1, <1>2 DEF With, Action
<1>3. CASE pending[n] # None
  <2>1. pending[n] \in Action
    BY <1>1, <1>3 DEF TypeOK
  <2> QED
    BY <1>3, <2>1 DEF With, Action
<1> QED
  BY <1>2, <1>3

LEMMA TakeStep ==
  ASSUME IInv, Take
  PROVE  IInv'
<1>1. Head(queue) \in Event /\ Tail(queue) \in Seq(Event)
  BY DEF Take, IInv, TypeOK
<1>2. TypeOK'
  BY <1>1 DEF Take, account, IInv, TypeOK
<1>3. Consistent'
  BY <1>1, NoneAssumption DEF Take, IInv, Consistent, Runs
<1>4. Enough'
  BY DEF Take, IInv, Enough, Added, Waiting, Sending, Held
<1>5. CountedSoon'
  BY SoonKept DEF Take, IInv
<1> QED
  BY <1>2, <1>3, <1>4, <1>5 DEF IInv

LEMMA DropStep ==
  ASSUME IInv, Drop
  PROVE  IInv'
<1>1. TypeOK'
  BY DEF Drop, Unlock, world, account, IInv, TypeOK
<1>2. Consistent'
  BY DEF Drop, Unlock, IInv, Consistent, Runs
<1>3. Enough'
  BY DEF Drop, IInv, Enough, Added, Waiting, Sending, Held
<1>4. CountedSoon'
  BY DEF Drop, Unlocked, CountedSoon
<1> QED
  BY <1>1, <1>2, <1>3, <1>4 DEF IInv

(* One more operation of n: at most one more waits. *)
LEMMA OneMore ==
  ASSUME IInv, NEW n \in Name, NEW op \in Op, NEW a \in Action,
         a.ops = With(n, op).ops,
         pending' = [pending EXCEPT ![n] = a],
         adding = None, UNCHANGED <<sender, adding>>,
         count' = IF op \in Counted THEN count + 1 ELSE count
  PROVE  count' \in Nat /\ Enough'
<1> DEFINE A == {op} \cap Counted
<1>1. IsFiniteSet(A) /\ Cardinality(A) = IF op \in Counted THEN 1 ELSE 0
  <2>1. CASE op \in Counted
    <3>1. A = {op}
      BY <2>1
    <3> QED
      BY <2>1, <3>1, FS_Singleton
  <2>2. CASE op \notin Counted
    <3>1. A = {}
      BY <2>2
    <3> QED
      BY <2>2, <3>1, FS_EmptySet
  <2> QED
    BY <2>1, <2>2
<1>2. Waiting' \subseteq Waiting \cup ({n} \X A)
  BY WithType DEF Waiting, IInv, TypeOK, Entity
<1>3. Sending' = Sending
  BY DEF Sending, Held
<1> HIDE DEF A
<1>4. Cardinality(Waiting') <= Cardinality(Waiting) + Cardinality(A)
  BY <1>1, <1>2, HoldingFinite, Growing
<1>5. count \in Nat /\ count' \in Nat /\ Added = 0 /\ Added' = 0
  BY DEF IInv, TypeOK, Added
<1> QED
  BY <1>1, <1>3, <1>4, <1>5, HoldingFinite DEF IInv, Enough

LEMMA MergeStep ==
  ASSUME IInv, Merge
  PROVE  IInv'
<1> DEFINE n == event.name
           a == [With(n, event.op) EXCEPT !.ts[event.op] = event.time]
<1>1. event \in Event /\ event.op \in Op /\ n \in Name /\ n \in Entity
  BY OpsKnown DEF Merge, IInv, TypeOK, Consistent, Event, Entity
<1>2. /\ With(n, event.op) \in Action /\ event.op \in With(n, event.op).ops
  BY <1>1, WithType DEF IInv
<1>3. a \in Action /\ a.ops = With(n, event.op).ops
  BY <1>1, <1>2 DEF Action, Event
<1>4. count' = IF event.op \in Counted THEN count + 1 ELSE count
  BY OpsKnown DEF Merge
<1>5. pending' = [pending EXCEPT ![n] = a] /\ UNCHANGED <<sender, adding>> /\ adding = None
  BY DEF Merge, Unlocked
<1> HIDE DEF a
<1>6. count' \in Nat /\ Enough'
  BY <1>1, <1>3, <1>4, <1>5, OneMore
<1>7. TypeOK'
  <2>1. overtaken' \subseteq Worker
    BY DEF Merge, Overtakes, IInv, TypeOK
  <2> QED
    BY <1>1, <1>3, <1>5, <1>6, <2>1 DEF Merge, Unlock, world, IInv, TypeOK
<1>8. Consistent'
  BY <1>1, <1>2, <1>3, <1>5 DEF Merge, Unlock, IInv, TypeOK, Consistent, Runs
<1> QED
  BY <1>5, <1>6, <1>7, <1>8 DEF IInv, CountedSoon

LEMMA MergeOldNameStep ==
  ASSUME IInv, MergeOldName
  PROVE  IInv'
<1> DEFINE n == event.name
<1>1. event \in Event /\ n \in Name /\ n \in Entity /\ "move" \in Op /\ "move" \in Counted
  BY OpsKnown DEF MergeOldName, IInv, TypeOK, Consistent, Event, Entity
<1>2. With(n, "move") \in Action /\ "move" \in With(n, "move").ops
  BY <1>1, WithType DEF IInv
<1>3. pending' = [pending EXCEPT ![n] = With(n, "move")] /\ UNCHANGED <<sender, adding>> /\ adding = None
  BY DEF MergeOldName, Unlocked
<1>4. count' = IF "move" \in Counted THEN count + 1 ELSE count
  BY <1>1 DEF MergeOldName
<1>5. count' \in Nat /\ Enough'
  BY <1>1, <1>2, <1>3, <1>4, OneMore
<1>6. TypeOK'
  <2>1. overtaken' \subseteq Worker
    BY DEF MergeOldName, Overtakes, IInv, TypeOK
  <2> QED
    BY <1>1, <1>2, <1>3, <1>5, <2>1 DEF MergeOldName, world, IInv, TypeOK
<1>7. Consistent'
  BY <1>1, <1>2, <1>3, NoneAssumption DEF MergeOldName, IInv, TypeOK, Consistent, Runs
<1> QED
  BY <1>3, <1>5, <1>6, <1>7 DEF IInv, CountedSoon

LEMMA MergeNewNameStep ==
  ASSUME IInv, MergeNewName
  PROVE  IInv'
<1> DEFINE n == event.name
           a == [pending[n] EXCEPT !.to = Head(queue).name, !.ts["move"] = event.time]
<1>1. event \in Event /\ n \in Name /\ n \in Entity /\ "move" \in Op
  BY OpsKnown DEF MergeNewName, IInv, TypeOK, Consistent, Event, Entity
<1>2. Head(queue) \in Event /\ Tail(queue) \in Seq(Event)
  BY DEF MergeNewName, IInv, TypeOK
<1>3. pending[n] \in Action /\ pending[n].ops # {}
  BY <1>1 DEF MergeNewName, IInv, TypeOK, Consistent
<1>4. a \in Action /\ a.ops = pending[n].ops
  BY <1>1, <1>2, <1>3 DEF Action, Event
<1>5. pending' = [pending EXCEPT ![n] = a]
  BY <1>1, <1>3 DEF MergeNewName, IInv, TypeOK, Action
<1> HIDE DEF a
<1>6. Waiting' = Waiting /\ Sending' = Sending
  <2>1. a # None /\ pending[n] # None
    BY <1>3, <1>4, NoneAssumption
  <2>2. \A m \in Entity : pending'[m] = IF m = n THEN a ELSE pending[m]
    BY <1>1, <1>5 DEF IInv, TypeOK
  <2>3. ASSUME NEW m \in Entity, NEW o
        PROVE  (pending'[m] # None /\ o \in pending'[m].ops)
                 <=> (pending[m] # None /\ o \in pending[m].ops)
    <3>1. CASE m = n
      BY <1>4, <2>1, <2>2, <3>1
    <3>2. CASE m # n
      BY <2>2, <3>2
    <3> QED
      BY <3>1, <3>2
  <2>4. Waiting' = Waiting
    BY <2>3 DEF Waiting
  <2>5. UNCHANGED sender
    BY DEF MergeNewName
  <2> QED
    BY <2>4, <2>5 DEF Sending, Held
<1>9. adding = None /\ UNCHANGED adding
  BY DEF MergeNewName, IInv, CountedSoon
<1>7. TypeOK'
  BY <1>1, <1>2, <1>4, <1>5 DEF MergeNewName, Unlock, account, IInv, TypeOK
<1>8. Consistent'
  BY <1>1, <1>3, <1>4, <1>5 DEF MergeNewName, Unlock, IInv, TypeOK, Consistent, Runs
<1> QED
  BY <1>6, <1>7, <1>8, <1>9 DEF IInv, Enough, Added, CountedSoon, MergeNewName

LEMMA WrongOrderStep ==
  ASSUME IInv, WrongOrder
  PROVE  IInv'
<1>1. Tail(queue) \in Seq(Event)
  BY DEF WrongOrder, IInv, TypeOK
<1>2. TypeOK'
  BY <1>1 DEF WrongOrder, account, IInv, TypeOK
<1>3. Consistent'
  BY DEF WrongOrder, IInv, Consistent, Runs
<1>4. Enough'
  BY DEF WrongOrder, IInv, Enough, Added, Waiting, Sending, Held
<1>5. CountedSoon'
  BY SoonKept DEF WrongOrder, IInv
<1> QED
  BY <1>2, <1>3, <1>4, <1>5 DEF IInv

-----------------------------------------------------------------------------
(* What is put in the map waits there, counted once for each new operation. *)
LEMMA JoinHolds ==
  ASSUME IInv, NEW by \in Worker \cup {None}, NEW n \in Entity, NEW a \in Action, a.ops # {},
         Join(by, n, a)
  PROVE  /\ pending' \in [Entity -> Action \cup {None}]
         /\ \A m \in Entity : pending'[m] # None => pending'[m].ops # {}
         /\ adding = None /\ adding' \in Addition /\ adding'.by = by
         /\ adding'.n = NewlyCounted(n, a)
         /\ adding'.n >= Cardinality(Waiting') - Cardinality(Waiting)
         /\ pending'[n] # None /\ a.ops \subseteq pending'[n].ops
<1> DEFINE held == IF pending[n] = None THEN {} ELSE pending[n].ops
           A == (a.ops \ held) \cap Counted
<1>1. /\ Joined(n, a) \in Action
      /\ Joined(n, a).ops = held \cup a.ops
  <2>1. CASE pending[n] = None
    BY <2>1 DEF Joined
  <2>2. CASE pending[n] # None
    <3>1. pending[n] \in Action
      BY <2>2 DEF IInv, TypeOK
    <3>2. [o \in Op |-> Later(pending[n].ts[o], a.ts[o])] \in [Op -> Time]
      BY <3>1 DEF Action, Later
    <3>3. Joined(n, a) = [ops |-> pending[n].ops \cup a.ops,
                          ts |-> [o \in Op |-> Later(pending[n].ts[o], a.ts[o])],
                          to |-> pending[n].to]
      BY <2>2, <3>1 DEF Joined, Action
    <3> QED
      BY <2>2, <3>1, <3>2, <3>3 DEF Action
  <2> QED
    BY <2>1, <2>2
<1>2. pending' = [pending EXCEPT ![n] = Joined(n, a)]
  BY DEF Join
<1>3. adding = None /\ adding' = [by |-> by, n |-> Cardinality(A)] /\ NewlyCounted(n, a) = Cardinality(A)
  BY DEF Join, Unlocked, NewlyCounted
<1>4. IsFiniteSet(A) /\ Cardinality(A) \in Nat
  <2>1. A \in SUBSET Op
    BY DEF Action
  <2> QED
    BY <2>1, OpsFinite, FS_CardinalityType
<1>5. Waiting' \subseteq Waiting \cup ({n} \X A)
  BY <1>1, <1>2 DEF Waiting, IInv, TypeOK
<1> HIDE DEF A
<1>6. Cardinality(Waiting') <= Cardinality(Waiting) + Cardinality(A)
  BY <1>4, <1>5, HoldingFinite, Growing
<1>7. pending' \in [Entity -> Action \cup {None}]
  BY <1>1, <1>2 DEF IInv, TypeOK
<1>8. \A m \in Entity : pending'[m] # None => pending'[m].ops # {}
  BY <1>1, <1>2 DEF IInv, TypeOK, Consistent
<1>9. Cardinality(Waiting) \in Nat /\ Cardinality(Waiting') \in Nat
  BY <1>7, <1>8, HoldingFinite
<1>10. adding' \in Addition /\ adding'.by = by /\ adding'.n = Cardinality(A)
  BY <1>3, <1>4 DEF Addition
<1>11. pending'[n] # None /\ a.ops \subseteq pending'[n].ops
  BY <1>1, <1>2, NoneAssumption DEF IInv, TypeOK
<1>12. Cardinality(A) >= Cardinality(Waiting') - Cardinality(Waiting)
  BY <1>4, <1>6, <1>9
<1> QED
  BY <1>3, <1>7, <1>8, <1>10, <1>11, <1>12

LEMMA AskVersionStep ==
  ASSUME IInv, NEW n \in Name, NEW t \in 1..clock, AskVersion(n, t)
  PROVE  IInv'
<1> DEFINE a == Just("version", t)
<1>1. n \in Entity /\ "version" \in Op /\ t \in Time /\ 0 \in Time /\ clock + 1 \in Time
  BY OpsKnown, BoundAssumption DEF AskVersion, Entity, Time, IInv, TypeOK
<1>2. a \in Action /\ a.ops # {}
  BY <1>1 DEF Just, Action
<1>3. Join(None, n, a) /\ a.ops = {"version"}
  BY DEF AskVersion, Just
<1> HIDE DEF a
<1>4. /\ pending' \in [Entity -> Action \cup {None}]
      /\ \A m \in Entity : pending'[m] # None => pending'[m].ops # {}
      /\ adding = None /\ adding' \in Addition /\ adding'.by = None
      /\ adding'.n = NewlyCounted(n, a)
      /\ adding'.n >= Cardinality(Waiting') - Cardinality(Waiting)
      /\ pending'[n] # None /\ "version" \in pending'[n].ops
  BY <1>1, <1>2, <1>3, JoinHolds
<1>5. Sending' = Sending
  BY DEF AskVersion, Sending, Held
<1>6. owed' \in [Entity -> [Op -> Time]]
  BY <1>1 DEF AskVersion, IInv, TypeOK, Later
<1>7. TypeOK'
  BY <1>1, <1>4, <1>6 DEF AskVersion, IInv, TypeOK
<1>8. Consistent'
  BY <1>3, <1>4 DEF AskVersion, Join, Unlocked, IInv, Consistent, Runs
<1>9. Enough'
  <2>1. count \in Nat /\ count' = count /\ Added = 0 /\ Added' = adding'.n /\ adding'.n \in Nat
    BY <1>4, NoneAssumption DEF AskVersion, IInv, TypeOK, Added, Addition
  <2> QED
    BY <1>4, <1>5, <2>1, HoldingFinite DEF IInv, Enough
<1>10. CountedSoon'
  <2>1. adding'.n \in {0, 1}
    <3>1. \E held : NewlyCounted(n, a) = Cardinality(({"version"} \ held) \cap Counted)
      BY <1>3 DEF NewlyCounted
    <3>2. PICK held : NewlyCounted(n, a) = Cardinality(({"version"} \ held) \cap Counted)
      BY <3>1
    <3>3. ({"version"} \ held) \cap Counted = {} \/ ({"version"} \ held) \cap Counted = {"version"}
      BY OpsKnown
    <3>4. Cardinality({"version"}) = 1
      BY FS_Singleton
    <3>5. Cardinality({}) = 0
      BY FS_EmptySet
    <3>6. CASE ({"version"} \ held) \cap Counted = {}
      BY <1>4, <3>2, <3>5, <3>6
    <3>7. CASE ({"version"} \ held) \cap Counted = {"version"}
      BY <1>4, <3>2, <3>4, <3>7
    <3> QED
      BY <3>3, <3>6, <3>7
  <2>2. <<n, "version">> \in Waiting'
    BY <1>1, <1>4, OpsKnown DEF Waiting
  <2>3. mode' # "rename"
    BY <1>3 DEF AskVersion, Join, Unlocked
  <2> QED
    BY <1>1, <1>4, <2>1, <2>2, <2>3 DEF CountedSoon
<1> QED
  BY <1>7, <1>8, <1>9, <1>10 DEF IInv

-----------------------------------------------------------------------------
(* The operations of an entry go with the sender that takes it. *)
LEMMA DispatchStep ==
  ASSUME IInv, NEW n \in Entity, Dispatch(n)
  PROVE  IInv'
<1> DEFINE a == pending[n]
           A == a.ops \cap Counted
           snd == [name |-> n, ops |-> a.ops, ts |-> a.ts, to |-> a.to,
                   got |-> {}, stage |-> "send"]
<1>1. PICK w \in Worker : sender[w] = None /\ sender' = [sender EXCEPT ![w] = snd]
  BY DEF Dispatch
<1>2. a \in Action /\ a # None /\ a.ops # {}
  BY DEF Dispatch, IInv, TypeOK, Consistent
<1>3. snd \in Sender /\ snd.ops = a.ops
  BY <1>2 DEF Action, Sender
<1>4. /\ pending' = [pending EXCEPT ![n] = None] /\ count' = count
      /\ adding = None /\ adding' = None
  BY DEF Dispatch, Unlocked
<1>5. IsFiniteSet(A) /\ Cardinality(A) \in Nat
  <2>1. A \in SUBSET Op
    BY <1>2 DEF Action
  <2> QED
    BY <2>1, OpsFinite, FS_CardinalityType
<1>6. {n} \X A \subseteq Waiting /\ Waiting' \subseteq Waiting \ ({n} \X A)
  BY <1>2, <1>4 DEF Waiting, IInv, TypeOK
<1>7. Sending' \subseteq Sending \cup ({w} \X A)
  BY <1>1, <1>3 DEF Sending, Held, IInv, TypeOK
<1> HIDE DEF A, a, snd
<1>8. Cardinality(Waiting') <= Cardinality(Waiting) - Cardinality(A)
  BY <1>5, <1>6, HoldingFinite, Shrinking
<1>9. Cardinality(Sending') <= Cardinality(Sending) + Cardinality(A)
  BY <1>5, <1>7, HoldingFinite, Growing
<1>10. Enough'
  <2>1. count \in Nat /\ Added = 0 /\ Added' = 0
    BY <1>4 DEF IInv, TypeOK, Added
  <2> QED
    BY <1>4, <1>5, <1>8, <1>9, <2>1, HoldingFinite DEF IInv, Enough
<1>11. TypeOK'
  BY <1>1, <1>3, <1>4 DEF Dispatch, world, account, IInv, TypeOK
<1>12. Consistent'
  BY <1>1, <1>2, <1>3, <1>4 DEF Dispatch, Unlocked, IInv, TypeOK, Consistent, Runs
<1> QED
  BY <1>4, <1>10, <1>11, <1>12 DEF IInv, CountedSoon

LEMMA NextOpIn ==
  ASSUME NEW ops \in SUBSET Op, ops # {}
  PROVE  NextOp(ops) \in ops
<1> DEFINE First(i) == Order[i] \in ops /\ \A j \in 1..(i - 1) : Order[j] \notin ops
<1>1. \E i \in 1..6 : First(i)
  <2>1. \E i \in 1..6 : Order[i] \in ops
    BY DEF Op
  <2>2. CASE Order[1] \in ops
    BY <2>2
  <2>3. CASE Order[1] \notin ops /\ Order[2] \in ops
    BY <2>3
  <2>4. CASE Order[1] \notin ops /\ Order[2] \notin ops /\ Order[3] \in ops
    BY <2>4
  <2>5. CASE /\ Order[1] \notin ops /\ Order[2] \notin ops /\ Order[3] \notin ops
             /\ Order[4] \in ops
    BY <2>5
  <2>6. CASE /\ Order[1] \notin ops /\ Order[2] \notin ops /\ Order[3] \notin ops
             /\ Order[4] \notin ops /\ Order[5] \in ops
    BY <2>6
  <2>7. CASE /\ Order[1] \notin ops /\ Order[2] \notin ops /\ Order[3] \notin ops
             /\ Order[4] \notin ops /\ Order[5] \notin ops
    BY <2>1, <2>7
  <2> QED
    BY <2>2, <2>3, <2>4, <2>5, <2>6, <2>7
<1>2. First(CHOOSE i \in 1..6 : First(i))
  BY <1>1
<1> QED
  BY <1>2 DEF NextOp

LEMMA AcknowledgeStep ==
  ASSUME IInv, NEW w \in Worker, Acknowledge(w)
  PROVE  IInv'
<1> DEFINE op   == NextOp(sender[w].ops)
           left == sender[w].ops \ {op}
           snd  == [sender[w] EXCEPT !.ops = left, !.got = @ \cup {op},
                                     !.stage = IF left = {} THEN "check" ELSE "send"]
           A    == {op} \cap Counted
<1>1. sender[w] \in Sender /\ sender[w] # None /\ sender[w].stage = "send"
  BY DEF Acknowledge, Runs, IInv, TypeOK
<1>2. sender[w].ops \in SUBSET Op /\ sender[w].ops # {}
  BY <1>1 DEF Sender, IInv, Consistent, Runs
<1>3. op \in sender[w].ops /\ op \in Op
  BY <1>2, NextOpIn
<1>4. Acknowledged(w, op)
  BY DEF Acknowledge
<1>5. sender' = [sender EXCEPT ![w] = snd]
  BY <1>1 DEF Acknowledge, IInv, TypeOK, Sender
<1> HIDE DEF op
<1>6. snd \in Sender /\ snd.ops = left /\ (snd.stage = "send" => left # {})
              /\ snd.stage \in {"send", "check"}
  BY <1>1, <1>2, <1>3 DEF Sender
<1>7. count' = count - Cardinality(A) /\ IsFiniteSet(A) /\ Cardinality(A) \in Nat
  <2>1. CASE op \in Counted
    <3>1. A = {op}
      BY <2>1
    <3> QED
      <4>1. IsFiniteSet(A) /\ Cardinality(A) = 1
        BY <3>1, FS_Singleton
      <4>2. count' = count - 1
        BY <1>4, <2>1 DEF Acknowledged
      <4> QED
        BY <4>1, <4>2
  <2>2. CASE op \notin Counted
    <3>1. A = {}
      BY <2>2
    <3> QED
      <4>1. IsFiniteSet(A) /\ Cardinality(A) = 0
        BY <3>1, FS_EmptySet
      <4>2. count' = count /\ count \in Nat
        BY <1>4, <2>2 DEF Acknowledged, IInv, TypeOK
      <4> QED
        BY <4>1, <4>2
  <2> QED
    BY <2>1, <2>2
<1> HIDE DEF snd
<1>8. {w} \X A \subseteq Sending /\ Sending' \subseteq Sending \ ({w} \X A)
  BY <1>1, <1>3, <1>5, <1>6 DEF Sending, Held, IInv, TypeOK
<1>9. Waiting' = Waiting
  BY DEF Acknowledge, Waiting
<1> HIDE DEF A
<1>10. Cardinality(Sending') <= Cardinality(Sending) - Cardinality(A)
  BY <1>7, <1>8, HoldingFinite, Shrinking
<1>11. count' \in Int /\ Enough'
  <2>1. Added' = Added
    BY DEF Acknowledge, Added
  <2> QED
    BY <1>7, <1>9, <1>10, <2>1, AddedIsNat, HoldingFinite DEF IInv, Enough
<1>12. count' \in Nat
  BY <1>11, EnoughIsNat
<1>13. owed' \in [Entity -> [Op -> Time]] /\ unapplied' \in BOOLEAN
  <2>1. 0 \in Time /\ sender[w].name \in Entity
    BY <1>1, BoundAssumption DEF Time, Sender
  <2> QED
    BY <1>3, <1>4, <2>1 DEF Acknowledged, IInv, TypeOK
<1>14. TypeOK'
  <2>1. UNCHANGED <<clock, disk, half, queue, mode, event, pending, adding, failures, overtaken>>
    BY DEF Acknowledge, world
  <2>2. sender' \in [Worker -> Sender \cup {None}]
    BY <1>5, <1>6 DEF IInv, TypeOK
  <2> QED
    BY <1>12, <1>13, <2>1, <2>2 DEF IInv, TypeOK
<1>15. Consistent'
  BY <1>5, <1>6 DEF Acknowledge, IInv, TypeOK, Consistent, Runs
<1>16. CountedSoon'
  <2>1. UNCHANGED <<adding, pending, mode>>
    BY DEF Acknowledge
  <2>2. \A v \in Worker : Runs(v, "subtract") => UNCHANGED sender[v]
    BY <1>1, <1>5 DEF Runs, IInv, TypeOK
  <2> QED
    BY <2>1, <2>2, SoonKept DEF IInv, CountedSoon
<1> QED
  BY <1>11, <1>14, <1>15, <1>16 DEF IInv

LEMMA FailStep ==
  ASSUME IInv, NEW w \in Worker, Fail(w) \/ NotFound(w)
  PROVE  IInv'
<1> DEFINE snd == [sender[w] EXCEPT !.stage = "putback"]
<1>1. sender[w] \in Sender /\ sender[w] # None /\ sender[w].stage = "send"
  BY DEF Fail, NotFound, Runs, IInv, TypeOK
<1>2. sender[w].ops # {}
  BY <1>1 DEF IInv, Consistent, Runs
<1>3. sender' = [sender EXCEPT ![w] = snd]
  BY <1>1 DEF Fail, NotFound, IInv, TypeOK
<1>4. snd \in Sender /\ snd.ops = sender[w].ops /\ snd.stage = "putback"
  BY <1>1 DEF Sender
<1> HIDE DEF snd
<1>5. Sending' \subseteq Sending
  BY <1>1, <1>3, <1>4 DEF Sending, Held, IInv, TypeOK
<1>6. Waiting' = Waiting
  BY DEF Fail, NotFound, merging, Waiting
<1>7. Cardinality(Sending') <= Cardinality(Sending)
  BY <1>5, HoldingFinite, FS_Subset
<1>8. Enough'
  <2>1. UNCHANGED <<count, adding>>
    BY DEF Fail, NotFound, merging
  <2> QED
    BY <1>6, <1>7, <2>1, AddedIsNat, HoldingFinite DEF IInv, Enough, Added
<1>9. TypeOK'
  <2>1. failures' \in 0..MaxFailures
    BY BoundAssumption DEF Fail, NotFound, IInv, TypeOK
  <2>2. sender' \in [Worker -> Sender \cup {None}]
    BY <1>3, <1>4 DEF IInv, TypeOK
  <2> QED
    BY <2>1, <2>2 DEF Fail, NotFound, world, merging, account, IInv, TypeOK
<1>10. Consistent'
  BY <1>2, <1>3, <1>4 DEF Fail, NotFound, merging, IInv, TypeOK, Consistent, Runs
<1>11. CountedSoon'
  <2>1. UNCHANGED <<adding, pending, mode>>
    BY DEF Fail, NotFound, merging
  <2>2. \A v \in Worker : Runs(v, "subtract") => UNCHANGED sender[v]
    BY <1>1, <1>3 DEF Runs, IInv, TypeOK
  <2> QED
    BY <2>1, <2>2, SoonKept DEF IInv, CountedSoon
<1> QED
  BY <1>8, <1>9, <1>10, <1>11 DEF IInv

LEMMA PutBackStep ==
  ASSUME IInv, NEW w \in Worker, PutBack(w)
  PROVE  IInv'
<1> DEFINE n   == sender[w].name
           a   == [ops |-> sender[w].ops, ts |-> sender[w].ts, to |-> sender[w].to]
           snd == [sender[w] EXCEPT !.stage = "subtract"]
<1>1. sender[w] \in Sender /\ sender[w] # None /\ sender[w].stage = "putback"
  BY DEF PutBack, Runs, IInv, TypeOK
<1>2. sender[w].ops # {}
  BY <1>1 DEF IInv, Consistent, Runs
<1>3. n \in Entity /\ a \in Action /\ a.ops # {} /\ Join(w, n, a)
  BY <1>1, <1>2 DEF PutBack, Sender, Action
<1>4. sender' = [sender EXCEPT ![w] = snd]
  BY <1>1 DEF PutBack, IInv, TypeOK
<1>5. snd \in Sender /\ snd.ops = sender[w].ops /\ snd.stage = "subtract"
  BY <1>1 DEF Sender
<1>12. a.ops = snd.ops
  BY <1>5
<1> HIDE DEF snd, a, n
<1>6. /\ pending' \in [Entity -> Action \cup {None}]
      /\ \A m \in Entity : pending'[m] # None => pending'[m].ops # {}
      /\ adding = None /\ adding' \in Addition /\ adding'.by = w
      /\ adding'.n = NewlyCounted(n, a)
      /\ adding'.n >= Cardinality(Waiting') - Cardinality(Waiting)
  BY <1>3, JoinHolds
<1>7. Sending' \subseteq Sending
  BY <1>1, <1>4, <1>5 DEF Sending, Held, IInv, TypeOK
<1>8. Cardinality(Sending') <= Cardinality(Sending)
  BY <1>7, HoldingFinite, FS_Subset
<1>9. Enough'
  <2>1. count \in Nat /\ count' = count /\ Added = 0 /\ Added' = adding'.n /\ adding'.n \in Nat
    BY <1>6, NoneAssumption DEF PutBack, IInv, TypeOK, Added, Addition
  <2> QED
    BY <1>6, <1>8, <2>1, HoldingFinite DEF IInv, Enough
<1>10. TypeOK'
  BY <1>4, <1>5, <1>6 DEF PutBack, world, account, IInv, TypeOK
<1>11. Consistent'
  <2>1. mode # "rename" /\ UNCHANGED <<mode, event>>
    BY <1>3 DEF PutBack, Join, Unlocked
  <2>2. \A v \in Worker : v # w => UNCHANGED sender[v]
    BY <1>4 DEF IInv, TypeOK
  <2>3. ~Runs(w, "send")' /\ ~Runs(w, "putback")'
    BY <1>4, <1>5 DEF Runs, IInv, TypeOK
  <2> QED
    BY <1>6, <2>1, <2>2, <2>3 DEF IInv, Consistent, Runs
<1>13. CountedSoon'
  <2>1. adding'.n <= Cardinality(snd.ops \cap Counted)
    <3>1. PICK held : adding'.n = Cardinality((a.ops \ held) \cap Counted)
      BY <1>6 DEF NewlyCounted
    <3>2. (a.ops \ held) \cap Counted \subseteq snd.ops \cap Counted
      BY <1>12
    <3>3. IsFiniteSet(snd.ops \cap Counted)
      <4>1. snd.ops \cap Counted \in SUBSET Op
        BY <1>5 DEF Sender
      <4> QED
        BY <4>1, OpsFinite
    <3> QED
      BY <3>1, <3>2, <3>3, FS_Subset
  <2>2. sender'[w] = snd /\ snd # None
    BY <1>4, <1>5, NoneAssumption DEF IInv, TypeOK
  <2>3. mode' # "rename"
    BY <1>3 DEF PutBack, Join, Unlocked
  <2>4. adding'.by # None
    BY <1>6, NoneAssumption
  <2> QED
    BY <1>5, <1>6, <2>1, <2>2, <2>3, <2>4 DEF CountedSoon, Runs
<1> QED
  BY <1>9, <1>10, <1>11, <1>13 DEF IInv

LEMMA SubtractStep ==
  ASSUME IInv, NEW w \in Worker, Subtract(w)
  PROVE  IInv'
<1> DEFINE A   == sender[w].ops \cap Counted
           snd == [sender[w] EXCEPT !.stage = "check"]
<1>1. sender[w] \in Sender /\ sender[w] # None /\ sender[w].stage = "subtract"
  BY DEF Subtract, Runs, IInv, TypeOK
<1>2. sender' = [sender EXCEPT ![w] = snd] /\ count' = count - Cardinality(A)
  BY <1>1 DEF Subtract, IInv, TypeOK
<1>3. snd \in Sender /\ snd.stage = "check"
  BY <1>1 DEF Sender
<1> HIDE DEF snd
<1>4. IsFiniteSet(A) /\ Cardinality(A) \in Nat
  <2>1. A \in SUBSET Op
    BY <1>1 DEF Sender
  <2> QED
    BY <2>1, OpsFinite, FS_CardinalityType
<1>5. {w} \X A \subseteq Sending /\ Sending' \subseteq Sending \ ({w} \X A)
  BY <1>1, <1>2, <1>3 DEF Sending, Held, IInv, TypeOK
<1>6. Waiting' = Waiting
  BY DEF Subtract, Waiting
<1> HIDE DEF A
<1>7. Cardinality(Sending') <= Cardinality(Sending) - Cardinality(A)
  BY <1>4, <1>5, HoldingFinite, Shrinking
<1>8. count' \in Int /\ Enough'
  <2>1. Added' = Added
    BY DEF Subtract, Added
  <2> QED
    BY <1>2, <1>4, <1>6, <1>7, <2>1, AddedIsNat, HoldingFinite DEF IInv, Enough
<1>9. count' \in Nat
  BY <1>8, EnoughIsNat
<1>10. TypeOK'
  BY <1>2, <1>3, <1>9 DEF Subtract, world, account, IInv, TypeOK
<1>11. Consistent'
  BY <1>2, <1>3 DEF Subtract, IInv, TypeOK, Consistent, Runs
<1>12. CountedSoon'
  <2>1. UNCHANGED <<adding, pending, mode>> /\ (adding # None => adding.by # w)
    BY DEF Subtract
  <2>2. \A v \in Worker : adding # None /\ adding.by = v => UNCHANGED sender[v]
    BY <1>2, <2>1 DEF IInv, TypeOK
  <2> QED
    BY <2>1, <2>2, SoonKept DEF IInv, CountedSoon
<1> QED
  BY <1>8, <1>10, <1>11, <1>12 DEF IInv

LEMMA QueueApplyStep ==
  ASSUME IInv, NEW w \in Worker, QueueApply(w)
  PROVE  IInv'
<1> DEFINE snd == [name |-> Star, ops |-> {"apply"}, ts |-> Just("apply", clock).ts,
                   to |-> None, got |-> {}, stage |-> "putback"]
<1>1. Runs(w, "stamp") /\ sender' = [sender EXCEPT ![w] = snd]
  BY DEF QueueApply
<1>2. 0 \in Time /\ clock \in Time /\ Star \in Entity /\ "apply" \in Op
  BY OpsKnown, BoundAssumption DEF IInv, TypeOK, Time, Entity
<1>3. Just("apply", clock).ts \in [Op -> Time]
  BY <1>2 DEF Just
<1>4. snd \in Sender /\ snd.ops = {"apply"}
  BY <1>2, <1>3 DEF Sender
<1> HIDE DEF snd
<1>5. Sending' \subseteq Sending
  BY <1>1, <1>4, OpsKnown DEF Sending, Held, IInv, TypeOK
<1>6. Waiting' = Waiting
  BY DEF QueueApply, merging, Waiting
<1>7. Cardinality(Sending') <= Cardinality(Sending)
  BY <1>5, HoldingFinite, FS_Subset
<1>8. Enough'
  <2>1. UNCHANGED <<count, adding>>
    BY DEF QueueApply, merging
  <2> QED
    BY <1>6, <1>7, <2>1, AddedIsNat, HoldingFinite DEF IInv, Enough, Added
<1>9. TypeOK'
  BY <1>1, <1>2, <1>4 DEF QueueApply, world, merging, IInv, TypeOK
<1>10. Consistent'
  BY <1>1, <1>4 DEF QueueApply, merging, IInv, TypeOK, Consistent, Runs
<1>11. CountedSoon'
  <2>1. UNCHANGED <<adding, pending, mode>>
    BY DEF QueueApply, merging
  <2>2. \A v \in Worker : Runs(v, "subtract") => UNCHANGED sender[v]
    BY <1>1 DEF Runs, IInv, TypeOK
  <2> QED
    BY <2>1, <2>2, SoonKept DEF IInv, CountedSoon
<1> QED
  BY <1>8, <1>9, <1>10, <1>11 DEF IInv

LEMMA LookStep ==
  ASSUME IInv, NEW w \in Worker, Look(w)
  PROVE  IInv'
<1> DEFINE snd == [sender[w] EXCEPT !.stage = "stamp"]
<1>1. sender[w] \in Sender /\ Runs(w, "check") /\ sender' = [sender EXCEPT ![w] = snd]
  BY DEF Look, Runs, IInv, TypeOK
<1>2. snd \in Sender /\ snd.stage = "stamp"
  BY <1>1 DEF Sender
<1> HIDE DEF snd
<1>3. Sending' = Sending
  BY <1>1, <1>2 DEF Sending, Held, Runs, IInv, TypeOK
<1>4. Enough' /\ Consistent'
  BY <1>1, <1>2, <1>3 DEF Look, merging, IInv, TypeOK, Enough, Added, Waiting, Consistent, Runs
<1>5. TypeOK'
  BY <1>1, <1>2 DEF Look, world, merging, account, IInv, TypeOK
<1>6. CountedSoon'
  <2>1. UNCHANGED <<adding, pending, mode>>
    BY DEF Look, merging
  <2>2. \A v \in Worker : Runs(v, "subtract") => UNCHANGED sender[v]
    BY <1>1 DEF Runs, IInv, TypeOK
  <2> QED
    BY <2>1, <2>2, SoonKept DEF IInv, CountedSoon
<1> QED
  BY <1>4, <1>5, <1>6 DEF IInv

LEMMA CountUpStep ==
  ASSUME IInv, CountUp
  PROVE  IInv'
<1>1. Added' = 0 /\ count' = count + Added /\ Added \in Nat /\ count \in Nat
  BY AddedIsNat DEF CountUp, Added, IInv
<1>2. Waiting' = Waiting /\ Sending' = Sending
  BY DEF CountUp, Waiting, Sending, Held
<1>3. Enough'
  BY <1>1, <1>2, HoldingFinite DEF IInv, Enough
<1>4. TypeOK' /\ Consistent' /\ CountedSoon'
  BY <1>1 DEF CountUp, world, account, IInv, TypeOK, Consistent, CountedSoon, Runs
<1> QED
  BY <1>3, <1>4 DEF IInv

LEMMA FinishStep ==
  ASSUME IInv, NEW w \in Worker, Finish(w)
  PROVE  IInv'
<1>1. Sending' \subseteq Sending
  BY DEF Finish, Sending, Held, IInv, TypeOK
<1>2. Waiting' = Waiting
  BY DEF Finish, merging, Waiting
<1>3. Cardinality(Sending') <= Cardinality(Sending)
  BY <1>1, HoldingFinite, FS_Subset
<1>4. Enough'
  <2>1. UNCHANGED <<count, adding>>
    BY DEF Finish, merging
  <2> QED
    BY <1>2, <1>3, <2>1, AddedIsNat, HoldingFinite DEF IInv, Enough, Added
<1>5. TypeOK'
  BY DEF Finish, world, merging, account, IInv, TypeOK
<1>6. Consistent'
  BY DEF Finish, merging, IInv, TypeOK, Consistent, Runs
<1>7. CountedSoon'
  <2>1. UNCHANGED <<adding, pending, mode>>
    BY DEF Finish, merging
  <2>2. \A v \in Worker : Runs(v, "subtract") => UNCHANGED sender[v]
    BY DEF Finish, Runs, IInv, TypeOK
  <2> QED
    BY <2>1, <2>2, SoonKept DEF IInv, CountedSoon
<1> QED
  BY <1>4, <1>5, <1>6, <1>7 DEF IInv

-----------------------------------------------------------------------------
LEMMA StepHolds == IInv /\ [Next]_vars => IInv'
<1> SUFFICES ASSUME IInv, [Next]_vars PROVE IInv'
  OBVIOUS
<1>1. CASE User
  BY <1>1, WorldStep, AskVersionStep DEF User
<1>2. CASE \E l \in Listener : ReportNewName(l)
  BY <1>2, WorldStep
<1>3. CASE MergeThread
  BY <1>3, TakeStep, DropStep, MergeStep, MergeOldNameStep, MergeNewNameStep, WrongOrderStep
     DEF MergeThread
<1>4. CASE \E n \in Entity : Dispatch(n)
  BY <1>4, DispatchStep
<1>5. CASE \E w \in Worker : SendThread(w) \/ Fail(w)
  BY <1>5, AcknowledgeStep, PutBackStep, SubtractStep, LookStep, QueueApplyStep, FinishStep,
     FailStep
     DEF SendThread
<1>6. CASE CountUp
  BY <1>6, CountUpStep
<1>7. CASE UNCHANGED vars
  <2>1. UNCHANGED <<world, mode, event, pending, count, adding, sender, failures, account>>
    BY <1>7 DEF vars, merging
  <2>2. TypeOK' /\ Consistent'
    BY <2>1 DEF world, account, IInv, TypeOK, Consistent, Runs
  <2>3. Enough' /\ CountedSoon'
    BY <2>1 DEF IInv, Enough, Added, CountedSoon, Runs, Waiting, Sending, Held
  <2> QED
    BY <2>2, <2>3 DEF IInv
<1> QED
  BY <1>1, <1>2, <1>3, <1>4, <1>5, <1>6, <1>7 DEF Next

LEMMA Invariance == Spec => []IInv
BY InitHolds, StepHolds, PTL DEF Spec

(***************************************************************************)
(* The variables have their types at all times; with them pending_count,   *)
(* which many threads add to and subtract from, is never negative.         *)
(***************************************************************************)
THEOREM TypeCorrect == Spec => []TypeOK
<1>1. IInv => TypeOK
  BY DEF IInv
<1> QED
  BY <1>1, Invariance, PTL

(* A change somewhere between the merger and the server is in one of the two. *)
LEMMA UnheardIn ==
  ASSUME Unheard
  PROVE  \/ \E op \in Change, n \in Entity : <<n, op>> \in Waiting
         \/ \E op \in Change, w \in Worker : <<w, op>> \in Sending
<1>1. PICK op \in Change :
        \/ \E n \in Entity : pending[n] # None /\ op \in pending[n].ops
        \/ \E w \in Worker : (Runs(w, "send") \/ Runs(w, "putback")) /\ op \in sender[w].ops
  BY DEF Unheard
<1>2. op \in Counted
  BY OpsKnown DEF Change
<1>3. CASE \E n \in Entity : pending[n] # None /\ op \in pending[n].ops
  BY <1>2, <1>3 DEF Waiting
<1>4. CASE \E w \in Worker : (Runs(w, "send") \/ Runs(w, "putback")) /\ op \in sender[w].ops
  BY <1>2, <1>4 DEF Sending, Held, Runs
<1> QED
  BY <1>1, <1>3, <1>4

(***************************************************************************)
(* A sender that finds pending_count at 0: nothing but a VERSION that the  *)
(* pipe has not counted yet is in the map, and no other sender has work.   *)
(***************************************************************************)
LEMMA ZeroMeansHeard ==
  ASSUME IInv, count = 0
  PROVE  ~Unheard
<1>1. Cardinality(Sending) = 0 /\ Cardinality(Waiting) <= Added
  BY HoldingFinite, AddedIsNat DEF IInv, Enough
<1>2. Sending = {}
  BY <1>1, HoldingFinite, FS_EmptySet
<1>3. SUFFICES ASSUME Unheard PROVE FALSE
  OBVIOUS
<1>7. \E op \in Change, n \in Entity : <<n, op>> \in Waiting
  BY <1>2, <1>3, UnheardIn
<1>4. CASE adding = None
  <2>1. Waiting = {}
    BY <1>1, <1>4, HoldingFinite, FS_EmptySet DEF Added
  <2> QED
    BY <1>7, <2>1
<1>5. CASE adding # None /\ adding.by # None
  <2>1. adding.by \in Worker /\ adding.n \in Nat /\ Runs(adding.by, "subtract")
    BY <1>5 DEF IInv, TypeOK, Addition, CountedSoon
  <2>2. \A op \in sender[adding.by].ops \cap Counted : <<adding.by, op>> \in Sending
    BY <2>1 DEF Sending, Held, Runs
  <2>6. sender[adding.by].ops \cap Counted = {}
    BY <1>2, <2>2
  <2>3. Cardinality(sender[adding.by].ops \cap Counted) = 0
    BY <2>6, FS_EmptySet
  <2>4. Added = 0
    BY <1>5, <2>1, <2>3 DEF Added, IInv, CountedSoon
  <2>5. Waiting = {}
    BY <1>1, <2>4, HoldingFinite, FS_EmptySet
  <2> QED
    BY <1>7, <2>5
<1>6. CASE adding # None /\ adding.by = None
  <2>1. CASE adding.n = 0
    <3>1. Waiting = {}
      BY <1>1, <1>6, <2>1, HoldingFinite, FS_EmptySet DEF Added
    <3> QED
      BY <1>7, <3>1
  <2>2. CASE adding.n = 1 /\ \E n \in Entity : <<n, "version">> \in Waiting
    <3>1. PICK n \in Entity : <<n, "version">> \in Waiting
      BY <2>2
    <3> DEFINE x == <<n, "version">>
    <3>2. Cardinality(Waiting) <= 1
      BY <1>1, <1>6, <2>2 DEF Added
    <3>3. IsFiniteSet({x}) /\ Cardinality({x}) = 1 /\ {x} \subseteq Waiting
      BY <3>1, FS_Singleton
    <3>4. Waiting = {x}
      BY <3>2, <3>3, HoldingFinite, FS_Subset
    <3>5. \A op \in Change, m \in Entity : <<m, op>> # x
      BY DEF Change
    <3> QED
      BY <1>7, <3>4, <3>5
  <2> QED
    BY <1>6, <2>1, <2>2 DEF IInv, CountedSoon
<1> QED
  BY <1>4, <1>5, <1>6

(***************************************************************************)
(* No sender starts to overtake, and no change comes in unseen.            *)
(***************************************************************************)
LEMMA StillHeard ==
  ASSUME ApplyAfterAll, Unheard' => Unheard,
         \A w \in Worker : Runs(w, "stamp")' /\ w \notin overtaken'
                             => Runs(w, "stamp") /\ w \notin overtaken
  PROVE  ApplyAfterAll'
BY DEF ApplyAfterAll

(* A step of one sender that brings nothing new to the senders or the map. *)
LEMMA SenderHeard ==
  ASSUME IInv, ApplyAfterAll, NEW w \in Worker, NEW snd \in Sender \cup {None},
         sender' = [sender EXCEPT ![w] = snd],
         UNCHANGED pending,
         snd # None => /\ snd.stage # "stamp"
                       /\ snd.stage \in {"send", "putback"} =>
                            /\ snd.ops \cap Change # {} => Runs(w, "send") \/ Runs(w, "putback")
                            /\ snd.ops \cap Change \subseteq sender[w].ops,
         overtaken \ {w} \subseteq overtaken'
  PROVE  ApplyAfterAll'
<1>1. \A v \in Worker : sender'[v] = IF v = w THEN snd ELSE sender[v]
  BY DEF IInv, TypeOK
<1>2. \A v \in Worker : Runs(v, "stamp")' /\ v \notin overtaken'
                          => Runs(v, "stamp") /\ v \notin overtaken
  BY <1>1 DEF Runs
<1>3. ASSUME Unheard' PROVE Unheard
  <2>1. PICK op \in Change :
          \/ \E n \in Entity : pending'[n] # None /\ op \in pending'[n].ops
          \/ \E v \in Worker : (Runs(v, "send") \/ Runs(v, "putback"))' /\ op \in sender'[v].ops
    BY <1>3 DEF Unheard
  <2>2. CASE \E n \in Entity : pending'[n] # None /\ op \in pending'[n].ops
    BY <2>2 DEF Unheard
  <2>3. CASE \E v \in Worker : (Runs(v, "send") \/ Runs(v, "putback"))' /\ op \in sender'[v].ops
    BY <1>1, <2>3 DEF Unheard, Runs
  <2> QED
    BY <2>1, <2>2, <2>3
<1> QED
  BY <1>2, <1>3, StillHeard

(* The same for what the merge thread and the pipe do to the map. *)
LEMMA MapHeard ==
  ASSUME ApplyAfterAll, UNCHANGED <<sender, overtaken>>,
         \A n \in Entity, op \in Change :
            pending'[n] # None /\ op \in pending'[n].ops
              => pending[n] # None /\ op \in pending[n].ops
  PROVE  ApplyAfterAll'
<1>1. \A w \in Worker : Runs(w, "stamp")' /\ w \notin overtaken'
                          => Runs(w, "stamp") /\ w \notin overtaken
  BY DEF Runs
<1>2. Unheard' => Unheard
  BY DEF Unheard, Runs
<1> QED
  BY <1>1, <1>2, StillHeard

(* One more operation of a name, which is no change. *)
LEMMA NoChangeMore ==
  ASSUME IInv, ApplyAfterAll, UNCHANGED <<sender, overtaken>>,
         NEW k \in Entity, NEW a, pending' = [pending EXCEPT ![k] = a],
         NEW o \in Op \ Change,
         a.ops \subseteq (IF pending[k] = None THEN {} ELSE pending[k].ops) \cup {o}
  PROVE  ApplyAfterAll'
<1>1. ASSUME NEW n \in Entity, NEW op \in Change, pending'[n] # None, op \in pending'[n].ops
      PROVE  pending[n] # None /\ op \in pending[n].ops
  <2>1. pending'[n] = IF n = k THEN a ELSE pending[n]
    BY DEF IInv, TypeOK
  <2>2. CASE n = k
    BY <1>1, <2>1, <2>2
  <2>3. CASE n # k
    BY <1>1, <2>1, <2>3
  <2> QED
    BY <2>2, <2>3
<1> QED
  BY <1>1, MapHeard

LEMMA MergeHeard ==
  ASSUME IInv, ApplyAfterAll, Merge \/ MergeOldName
  PROVE  ApplyAfterAll'
<1>1. CASE Merge /\ event.op = "write"
  <2> DEFINE n == event.name
             a == [With(n, "write") EXCEPT !.ts["write"] = event.time]
  <2>1. event \in Event /\ n \in Name /\ n \in Entity /\ "write" \in Op \ Change
    BY <1>1, OpsKnown DEF Merge, IInv, TypeOK, Consistent, Event, Entity, Change
  <2>2. With(n, "write") \in Action
    BY <2>1, WithType DEF IInv
  <2>3. a \in Action /\ a.ops = With(n, "write").ops
    BY <2>1, <2>2 DEF Action, Event
  <2>4. pending' = [pending EXCEPT ![n] = a] /\ UNCHANGED <<sender, overtaken>>
    BY <1>1 DEF Merge
  <2>5. a.ops \subseteq (IF pending[n] = None THEN {} ELSE pending[n].ops) \cup {"write"}
    BY <2>1, <2>3, WithType DEF IInv
  <2> HIDE DEF a, n
  <2> QED
    BY <2>1, <2>3, <2>4, <2>5, NoChangeMore
<1>2. CASE (Merge /\ event.op # "write") \/ MergeOldName
  <2>1. overtaken' = overtaken \cup {w \in Worker : Runs(w, "stamp")} /\ UNCHANGED sender
    BY <1>2 DEF Merge, MergeOldName, Overtakes
  <2> QED
    BY <2>1 DEF ApplyAfterAll, Runs
<1> QED
  BY <1>1, <1>2

LEMMA MergeNewNameHeard ==
  ASSUME IInv, ApplyAfterAll, MergeNewName
  PROVE  ApplyAfterAll'
<1> DEFINE n == event.name
           a == [pending[n] EXCEPT !.to = Head(queue).name, !.ts["move"] = event.time]
<1>1. event \in Event /\ n \in Name /\ n \in Entity /\ "move" \in Op
  BY OpsKnown DEF MergeNewName, IInv, TypeOK, Consistent, Event, Entity
<1>2. pending[n] \in Action /\ pending[n] # None
  BY <1>1 DEF MergeNewName, IInv, TypeOK, Consistent
<1>3. pending' = [pending EXCEPT ![n] = a] /\ a.ops = pending[n].ops
  BY <1>1, <1>2 DEF MergeNewName, IInv, TypeOK, Action
<1> HIDE DEF a
<1>4. \A m \in Entity : pending'[m] = IF m = n THEN a ELSE pending[m]
  BY <1>1, <1>3 DEF IInv, TypeOK
<1>5. UNCHANGED <<sender, overtaken>>
  BY DEF MergeNewName, account
<1> QED
  BY <1>2, <1>3, <1>4, <1>5, MapHeard

LEMMA AskVersionHeard ==
  ASSUME IInv, ApplyAfterAll, NEW n \in Name, NEW t \in 1..clock, AskVersion(n, t)
  PROVE  ApplyAfterAll'
<1> DEFINE a == Just("version", t)
           held == IF pending[n] = None THEN {} ELSE pending[n].ops
<1>1. n \in Entity /\ "version" \in Op \ Change
  BY OpsKnown DEF Entity, Change
<1>2. Joined(n, a).ops = held \cup {"version"}
  <2>1. CASE pending[n] = None
    BY <2>1 DEF Joined, Just
  <2>2. CASE pending[n] # None
    <3>1. pending[n] \in Action
      BY <1>1, <2>2 DEF IInv, TypeOK
    <3> QED
      BY <2>2, <3>1 DEF Joined, Just, Action
  <2> QED
    BY <2>1, <2>2
<1>3. pending' = [pending EXCEPT ![n] = Joined(n, a)] /\ UNCHANGED <<sender, overtaken>>
  BY DEF AskVersion, Join
<1> QED
  BY <1>1, <1>2, <1>3, NoChangeMore

LEMMA DispatchHeard ==
  ASSUME IInv, ApplyAfterAll, NEW n \in Entity, Dispatch(n)
  PROVE  ApplyAfterAll'
<1> DEFINE snd == [name |-> n, ops |-> pending[n].ops, ts |-> pending[n].ts,
                   to |-> pending[n].to, got |-> {}, stage |-> "send"]
<1>1. PICK w \in Worker : sender[w] = None /\ sender' = [sender EXCEPT ![w] = snd]
  BY DEF Dispatch
<1>2. pending[n] # None /\ pending' = [pending EXCEPT ![n] = None] /\ UNCHANGED overtaken
  BY DEF Dispatch, account
<1>3. snd.ops = pending[n].ops /\ snd.stage = "send"
  OBVIOUS
<1> HIDE DEF snd
<1>4. /\ \A v \in Worker : sender'[v] = IF v = w THEN snd ELSE sender[v]
      /\ \A m \in Entity : pending'[m] = IF m = n THEN None ELSE pending[m]
  BY <1>1, <1>2 DEF IInv, TypeOK
<1>5. \A v \in Worker : Runs(v, "stamp")' => Runs(v, "stamp")
  BY <1>3, <1>4 DEF Runs
<1>6. ASSUME Unheard' PROVE Unheard
  <2>1. PICK op \in Change :
          \/ \E m \in Entity : pending'[m] # None /\ op \in pending'[m].ops
          \/ \E v \in Worker : (Runs(v, "send") \/ Runs(v, "putback"))' /\ op \in sender'[v].ops
    BY <1>6 DEF Unheard
  <2>2. CASE \E m \in Entity : pending'[m] # None /\ op \in pending'[m].ops
    BY <1>4, <2>2 DEF Unheard
  <2>3. CASE \E v \in Worker : (Runs(v, "send") \/ Runs(v, "putback"))' /\ op \in sender'[v].ops
    BY <1>2, <1>3, <1>4, <2>3 DEF Unheard, Runs
  <2> QED
    BY <2>1, <2>2, <2>3
<1> QED
  BY <1>2, <1>5, <1>6, StillHeard

(* Steps of a sender but for those that fill the map and that look. *)
LEMMA SendersHeard ==
  ASSUME IInv, ApplyAfterAll, NEW w \in Worker,
         \/ Acknowledge(w) \/ NotFound(w) \/ Fail(w) \/ Subtract(w)
         \/ QueueApply(w) \/ Finish(w)
  PROVE  ApplyAfterAll'
<1> DEFINE s == sender[w]
<1>1. s \in Sender \cup {None}
  BY DEF IInv, TypeOK
<1>2. UNCHANGED pending /\ overtaken \ {w} \subseteq overtaken'
  BY DEF Acknowledge, NotFound, Fail, Subtract, QueueApply, Finish, merging, account
<1>3. CASE Acknowledge(w)
  <2> DEFINE op == NextOp(s.ops)
             snd == [s EXCEPT !.ops = @ \ {op}, !.got = @ \cup {op},
                              !.stage = IF s.ops \ {op} = {} THEN "check" ELSE "send"]
  <2>1. Runs(w, "send") /\ s \in Sender /\ s.ops \in SUBSET Op /\ s.ops # {}
    BY <1>1, <1>3 DEF Acknowledge, Runs, IInv, Consistent, Sender
  <2>2. op \in Op
    BY <2>1, NextOpIn
  <2>3. sender' = [sender EXCEPT ![w] = snd]
    BY <1>3, <2>1 DEF Acknowledge, IInv, TypeOK, Sender
  <2> HIDE DEF op
  <2>4. snd \in Sender /\ snd.ops \subseteq s.ops /\ snd.stage \in {"send", "check"}
    BY <2>1, <2>2 DEF Sender
  <2> HIDE DEF snd
  <2> QED
    BY <1>2, <2>1, <2>3, <2>4, SenderHeard
<1>4. CASE NotFound(w) \/ Fail(w)
  <2> DEFINE snd == [s EXCEPT !.stage = "putback"]
  <2>1. Runs(w, "send") /\ s \in Sender
    BY <1>1, <1>4 DEF NotFound, Fail, Runs
  <2>2. sender' = [sender EXCEPT ![w] = snd]
    BY <1>4, <2>1 DEF NotFound, Fail, IInv, TypeOK
  <2>3. snd \in Sender /\ snd.ops = s.ops /\ snd.stage = "putback"
    BY <2>1 DEF Sender
  <2> HIDE DEF snd
  <2> QED
    BY <1>2, <2>1, <2>2, <2>3, SenderHeard
<1>5. CASE Subtract(w)
  <2> DEFINE snd == [s EXCEPT !.stage = "check"]
  <2>1. s \in Sender
    BY <1>1, <1>5 DEF Subtract, Runs
  <2>2. sender' = [sender EXCEPT ![w] = snd]
    BY <1>5, <2>1 DEF Subtract, IInv, TypeOK
  <2>3. snd \in Sender /\ snd.stage = "check"
    BY <2>1 DEF Sender
  <2> HIDE DEF snd
  <2> QED
    BY <1>2, <2>2, <2>3, SenderHeard
<1>6. CASE QueueApply(w)
  <2> DEFINE snd == [name |-> Star, ops |-> {"apply"}, ts |-> Just("apply", clock).ts,
                     to |-> None, got |-> {}, stage |-> "putback"]
  <2>1. sender' = [sender EXCEPT ![w] = snd]
    BY <1>6 DEF QueueApply
  <2>2. 0 \in Time /\ clock \in Time /\ Star \in Entity /\ "apply" \in Op \ Change
    BY OpsKnown, BoundAssumption DEF IInv, TypeOK, Time, Entity, Change
  <2>3. Just("apply", clock).ts \in [Op -> Time]
    BY <2>2 DEF Just
  <2>4. snd \in Sender /\ snd.ops = {"apply"} /\ snd.stage = "putback"
    BY <2>2, <2>3 DEF Sender
  <2>5. snd.ops \cap Change = {}
    BY <2>2, <2>4
  <2> HIDE DEF snd
  <2> QED
    BY <1>2, <2>1, <2>4, <2>5, SenderHeard
<1>7. CASE Finish(w)
  BY <1>2, <1>7, SenderHeard DEF Finish
<1> QED
  BY <1>3, <1>4, <1>5, <1>6, <1>7

(* What a sender puts back was with it, so it is nothing new. *)
LEMMA PutBackHeard ==
  ASSUME IInv, ApplyAfterAll, NEW w \in Worker, PutBack(w)
  PROVE  ApplyAfterAll'
<1> DEFINE k    == sender[w].name
           a    == [ops |-> sender[w].ops, ts |-> sender[w].ts, to |-> sender[w].to]
           held == IF pending[k] = None THEN {} ELSE pending[k].ops
<1>1. Runs(w, "putback") /\ sender[w] \in Sender /\ k \in Entity
  BY DEF PutBack, Runs, IInv, TypeOK, Sender
<1>2. Joined(k, a).ops = held \cup sender[w].ops
  <2>1. CASE pending[k] = None
    BY <2>1 DEF Joined
  <2>2. CASE pending[k] # None
    <3>1. pending[k] \in Action
      BY <1>1, <2>2 DEF IInv, TypeOK
    <3> QED
      BY <2>2, <3>1 DEF Joined, Action
  <2> QED
    BY <2>1, <2>2
<1>3. /\ pending' = [pending EXCEPT ![k] = Joined(k, a)] /\ UNCHANGED overtaken
      /\ sender' = [sender EXCEPT ![w] = [sender[w] EXCEPT !.stage = "subtract"]]
  BY <1>1 DEF PutBack, Join, account, IInv, TypeOK
<1>4. /\ \A m \in Entity : pending'[m] = IF m = k THEN Joined(k, a) ELSE pending[m]
      /\ \A v \in Worker : v # w => sender'[v] = sender[v]
      /\ sender'[w].stage = "subtract"
  BY <1>1, <1>3 DEF IInv, TypeOK, Sender
<1> HIDE DEF a, held
<1>5. \A v \in Worker : Runs(v, "stamp")' => Runs(v, "stamp")
  BY <1>4 DEF Runs
<1>6. ASSUME Unheard' PROVE Unheard
  <2>1. PICK op \in Change :
          \/ \E m \in Entity : pending'[m] # None /\ op \in pending'[m].ops
          \/ \E v \in Worker : (Runs(v, "send") \/ Runs(v, "putback"))' /\ op \in sender'[v].ops
    BY <1>6 DEF Unheard
  <2>2. CASE \E m \in Entity : pending'[m] # None /\ op \in pending'[m].ops
    <3>1. PICK m \in Entity : pending'[m] # None /\ op \in pending'[m].ops
      BY <2>2
    <3>2. CASE m = k
      <4>1. op \in held \/ op \in sender[w].ops
        BY <1>2, <1>4, <3>1, <3>2
      <4> QED
        BY <1>1, <4>1 DEF held, Unheard
    <3>3. CASE m # k
      BY <1>4, <3>1, <3>3 DEF Unheard
    <3> QED
      BY <3>2, <3>3
  <2>3. CASE \E v \in Worker : (Runs(v, "send") \/ Runs(v, "putback"))' /\ op \in sender'[v].ops
    BY <1>4, <2>3 DEF Unheard, Runs
  <2> QED
    BY <2>1, <2>2, <2>3
<1> QED
  BY <1>3, <1>5, <1>6, StillHeard

LEMMA LookHeard ==
  ASSUME IInv, NEW w \in Worker, Look(w)
  PROVE  ApplyAfterAll'
<1> DEFINE snd == [sender[w] EXCEPT !.stage = "stamp"]
<1>1. ~Unheard
  BY ZeroMeansHeard DEF Look, Applies
<1>2. sender[w] \in Sender /\ sender' = [sender EXCEPT ![w] = snd] /\ UNCHANGED pending
  BY DEF Look, Runs, merging, IInv, TypeOK
<1>3. snd.stage = "stamp"
  BY <1>2 DEF Sender
<1> HIDE DEF snd
<1>4. \A v \in Worker : sender'[v] = IF v = w THEN snd ELSE sender[v]
  BY <1>2 DEF IInv, TypeOK
<1>5. Unheard' => Unheard
  BY <1>2, <1>3, <1>4 DEF Unheard, Runs
<1> QED
  BY <1>1, <1>5 DEF ApplyAfterAll

LEMMA StepHeard == IInv /\ ApplyAfterAll /\ [Next]_vars => ApplyAfterAll'
<1> SUFFICES ASSUME IInv, ApplyAfterAll, [Next]_vars PROVE ApplyAfterAll'
  OBVIOUS
<1>1. ASSUME UNCHANGED <<pending, sender, overtaken>> PROVE ApplyAfterAll'
  BY <1>1, MapHeard
<1>2. CASE User
  <2>1. CASE \/ \E n \in Name : UserCreates(n) \/ UserWrites(n) \/ UserRemoves(n)
             \/ \E n, m \in Name : UserRenames(n, m)
    BY <1>1, <2>1 DEF UserCreates, UserWrites, UserRemoves, UserRenames, Report, merging
  <2>2. CASE \E n \in Name, t \in 1..clock : AskVersion(n, t)
    BY <2>2, AskVersionHeard
  <2> QED
    BY <1>2, <2>1, <2>2 DEF User
<1>3. CASE \E l \in Listener : ReportNewName(l)
  BY <1>1, <1>3 DEF ReportNewName, merging, account
<1>4. CASE MergeThread
  <2>1. CASE Take \/ Drop \/ WrongOrder
    BY <1>1, <2>1 DEF Take, Drop, WrongOrder, account
  <2> QED
    BY <1>4, <2>1, MergeHeard, MergeNewNameHeard DEF MergeThread
<1>5. CASE CountUp
  BY <1>1, <1>5 DEF CountUp, account
<1>6. CASE \E n \in Entity : Dispatch(n)
  BY <1>6, DispatchHeard
<1>7. CASE \E w \in Worker : SendThread(w) \/ Fail(w)
  BY <1>7, SendersHeard, PutBackHeard, LookHeard DEF SendThread
<1>8. CASE UNCHANGED vars
  BY <1>1, <1>8 DEF vars, merging, account
<1> QED
  BY <1>2, <1>3, <1>4, <1>5, <1>6, <1>7, <1>8 DEF Next

(***************************************************************************)
(* A sender that found pending_count at 0 and has still to stamp its APPLY *)
(* overtakes no create, rename or removal of the map or of another sender, *)
(* unless the merge thread has folded one in since it looked; wherever the *)
(* senders, the pipe and the merge thread are between the map and the      *)
(* counter, and whatever fails.                                            *)
(***************************************************************************)
THEOREM AppliesAfterAll == Spec => []ApplyAfterAll
<1>1. Init => ApplyAfterAll
  BY DEF Init, ApplyAfterAll, Runs
<1> QED
  BY <1>1, Invariance, StepHeard, PTL DEF Spec
=============================================================================
