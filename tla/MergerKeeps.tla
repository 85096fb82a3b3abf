----------------------------- MODULE MergerKeeps -----------------------------
(***************************************************************************)
(* Proof that the client's pipeline loses no change: NothingLost of Merger *)
(* for every set of names and senders.                                     *)
(***************************************************************************)
EXTENDS MergerProofs

(***************************************************************************)
(* The queue is in the order of the changes: behind every event of one     *)
(* kind on one name comes the latest of them, the one that is owed.  An    *)
(* event merged after another never sets its stamp back.                   *)
(***************************************************************************)
Latest(n, op) ==
  owed[n][op] # 0 =>
    /\ \A i \in 1..Len(queue) : queue[i].name = n /\ queue[i].op = op => InQueue(i, n, op)
    /\ event # None /\ event.name = n /\ event.op = op
         => event.time = owed[n][op] \/ InQueue(1, n, op)

OnWay(n, op) == owed[n][op] # 0 => OnItsWay(n, op)

(* The merge thread holds no event it has done with; a write that is owed has its file. *)
Tidy ==
  /\ mode = "free" => event = None
  /\ \A n \in Name : owed[n]["write"] # 0 => n \in disk

Kept ==
  mode # "ended" => Tidy /\ \A n \in Entity, op \in Op : Latest(n, op) /\ OnWay(n, op)

KInv == IInv /\ Kept

-----------------------------------------------------------------------------
(* What is still owed is on its way at the end of the queue, or where it was. *)
LEMMA Appending ==
  ASSUME IInv, NEW e \in Event, queue' = Append(queue, e), UNCHANGED <<event, pending, sender>>,
         NEW n \in Entity, NEW op \in Op, Latest(n, op), OnWay(n, op),
         \/ owed'[n][op] = e.time /\ e.name = n /\ e.op = op
         \/ owed'[n][op] \in {owed[n][op], 0} /\ ~(e.name = n /\ e.op = op)
  PROVE  Latest(n, op)' /\ OnWay(n, op)'
<1>1. queue \in Seq(Event) /\ Len(queue) \in Nat
  BY DEF IInv, TypeOK
<1>2. /\ Len(queue') = Len(queue) + 1
      /\ queue'[Len(queue) + 1] = e
      /\ \A i \in 1..Len(queue) : queue'[i] = queue[i]
  BY <1>1
<1>3. CASE owed'[n][op] = e.time /\ e.name = n /\ e.op = op
  <2>1. \A i \in 1..Len(queue') : InQueue(i, n, op)'
    BY <1>1, <1>2, <1>3 DEF InQueue
  <2> QED
    BY <1>1, <1>2, <2>1 DEF Latest, OnWay, OnItsWay
<1>4. CASE owed'[n][op] = owed[n][op] /\ ~(e.name = n /\ e.op = op)
  <2>1. \A i \in 1..Len(queue) : InQueue(i, n, op) => InQueue(i, n, op)'
    BY <1>1, <1>2, <1>4 DEF InQueue
  <2>2. InQueue(1, n, op) => InQueue(1, n, op)'
    BY <1>1, <1>2, <1>4 DEF InQueue
  <2>3. Latest(n, op)'
    BY <1>1, <1>2, <1>4, <2>1, <2>2 DEF Latest
  <2>4. OnWay(n, op)'
    BY <1>4, <2>2 DEF OnWay, OnItsWay, Carries
  <2> QED
    BY <2>3, <2>4
<1>5. CASE owed'[n][op] = 0
  BY <1>5 DEF Latest, OnWay
<1> QED
  BY <1>3, <1>4, <1>5

(* What the user did now is in the queue; nothing else that is owed changes. *)
LEMMA Reporting ==
  ASSUME IInv, NEW k \in Name, NEW o \in Op, Report(k, o), Owe(k, o),
         NEW n \in Entity, NEW op \in Op, Latest(n, op), OnWay(n, op),
         o \in {"create", "move", "remove", "write"}
  PROVE  Latest(n, op)' /\ OnWay(n, op)'
<1> DEFINE e == [op |-> o, name |-> k, time |-> clock + 1]
<1>1. clock + 1 \in Time
  BY BoundAssumption DEF Report, IInv, TypeOK, Time
<1>2. e \in Event /\ queue' = Append(queue, e) /\ UNCHANGED <<event, pending, sender>>
  BY <1>1 DEF Event, Report, merging
<1>3. CASE n = k /\ op = o
  <2>1. owed'[n][op] = e.time
    BY <1>3 DEF Owe, IInv, TypeOK
  <2> QED
    BY <1>2, <1>3, <2>1, Appending
<1>4. CASE ~(n = k /\ op = o)
  <2>1. owed'[n][op] \in {owed[n][op], 0}
    BY <1>4 DEF Owe, IInv, TypeOK
  <2> QED
    BY <1>2, <1>4, <2>1, Appending
<1> QED
  BY <1>3, <1>4

(* An event of no operation: a new directory, the second half of a rename. *)
LEMMA Noticing ==
  ASSUME IInv, NEW e \in Event, e.op \notin Op, queue' = Append(queue, e),
         UNCHANGED <<event, pending, sender, owed>>,
         NEW n \in Entity, NEW op \in Op, Latest(n, op), OnWay(n, op)
  PROVE  Latest(n, op)' /\ OnWay(n, op)'
BY Appending

LEMMA WorldKeeps ==
  ASSUME KInv,
         \/ \E n \in Name : UserCreates(n) \/ UserWrites(n) \/ UserRemoves(n)
         \/ \E n, m \in Name : UserRenames(n, m)
         \/ \E l \in Listener : ReportNewName(l)
  PROVE  Kept'
<1> SUFFICES ASSUME mode # "ended" PROVE Kept'
  BY DEF Kept, UserCreates, UserWrites, UserRemoves, UserRenames, Report, ReportNewName, merging
<1>1. Tidy /\ \A n \in Entity, op \in Op : Latest(n, op) /\ OnWay(n, op)
  BY DEF KInv, Kept
<1>2. IInv /\ TypeOK /\ Name \subseteq Entity
  BY DEF KInv, IInv, Entity
<1>3. CASE \E k \in Name : UserCreates(k)
  <2>1. PICK k \in Name : UserCreates(k)
    BY <1>3
  <2>2. CASE k \in Dir
    <3>1. Report(k, "invalid") /\ UNCHANGED owed
      BY <2>1, <2>2 DEF UserCreates
    <3> DEFINE e == [op |-> "invalid", name |-> k, time |-> clock + 1]
    <3>2. e \in Event
      BY <1>2, <3>1, BoundAssumption DEF Event, Report, TypeOK, Time
    <3>3. \A n \in Entity, op \in Op : Latest(n, op)' /\ OnWay(n, op)'
      BY <1>1, <1>2, <3>1, <3>2, Noticing, OpsKnown DEF Report, merging
    <3>4. Tidy'
      BY <1>1, <2>1, <3>1 DEF Tidy, UserCreates, Report, merging
    <3> QED
      BY <3>3, <3>4 DEF Kept
  <2>3. CASE k \notin Dir
    <3>1. Report(k, "create") /\ Owe(k, "create")
      BY <2>1, <2>3 DEF UserCreates
    <3>2. \A n \in Entity, op \in Op : Latest(n, op)' /\ OnWay(n, op)'
      BY <1>1, <1>2, <3>1, Reporting, OpsKnown
    <3>3. Tidy'
      BY <1>1, <1>2, <2>1, <3>1, OpsKnown DEF Tidy, UserCreates, Report, Owe, merging, TypeOK
    <3> QED
      BY <3>2, <3>3 DEF Kept
  <2> QED
    BY <2>2, <2>3
<1>4. CASE \E k \in Name : UserWrites(k)
  <2>1. PICK k \in Name : UserWrites(k)
    BY <1>4
  <2>2. Report(k, "write") /\ Owe(k, "write")
    BY <2>1 DEF UserWrites
  <2>3. \A n \in Entity, op \in Op : Latest(n, op)' /\ OnWay(n, op)'
    BY <1>1, <1>2, <2>2, Reporting, OpsKnown
  <2>4. Tidy'
    BY <1>1, <1>2, <2>1, <2>2, OpsKnown DEF Tidy, UserWrites, Report, Owe, merging, TypeOK
  <2> QED
    BY <2>3, <2>4 DEF Kept
<1>5. CASE \E k \in Name : UserRemoves(k)
  <2>1. PICK k \in Name : UserRemoves(k)
    BY <1>5
  <2>2. Report(k, "remove") /\ Owe(k, "remove")
    BY <2>1 DEF UserRemoves
  <2>3. \A n \in Entity, op \in Op : Latest(n, op)' /\ OnWay(n, op)'
    BY <1>1, <1>2, <2>2, Reporting, OpsKnown
  <2>4. Tidy'
    BY <1>1, <1>2, <2>1, <2>2, OpsKnown DEF Tidy, UserRemoves, Report, Owe, merging, TypeOK
  <2> QED
    BY <2>3, <2>4 DEF Kept
<1>6. CASE \E k, m \in Name : UserRenames(k, m)
  <2>1. PICK k \in Name, m \in Name : UserRenames(k, m)
    BY <1>6
  <2>2. Report(k, "move") /\ Owe(k, "move")
    BY <2>1 DEF UserRenames
  <2>3. \A n \in Entity, op \in Op : Latest(n, op)' /\ OnWay(n, op)'
    BY <1>1, <1>2, <2>2, Reporting, OpsKnown
  <2>4. Tidy'
    BY <1>1, <1>2, <2>1, <2>2, OpsKnown DEF Tidy, UserRenames, Report, Owe, merging, TypeOK
  <2> QED
    BY <2>3, <2>4 DEF Kept
<1>7. CASE \E l \in Listener : ReportNewName(l)
  <2>1. PICK l \in Listener : ReportNewName(l)
    BY <1>7
  <2> DEFINE e == [op |-> "newname", name |-> half[l], time |-> clock]
  <2>2. e \in Event /\ queue' = Append(queue, e) /\ UNCHANGED <<event, pending, sender, owed>>
    BY <1>2, <2>1 DEF ReportNewName, TypeOK, Event, merging, account
  <2>3. \A n \in Entity, op \in Op : Latest(n, op)' /\ OnWay(n, op)'
    BY <1>1, <1>2, <2>2, Noticing, OpsKnown
  <2>4. Tidy'
    BY <1>1, <2>1 DEF Tidy, ReportNewName, merging, account
  <2> QED
    BY <2>3, <2>4 DEF Kept
<1> QED
  BY <1>3, <1>4, <1>5, <1>6, <1>7

-----------------------------------------------------------------------------
(* Without its head the queue still ends with what is owed, unless that was the head. *)
LEMMA Popping ==
  ASSUME IInv, queue # <<>>, queue' = Tail(queue), UNCHANGED owed,
         NEW n \in Entity, NEW op \in Op, owed[n][op] # 0, Latest(n, op)
  PROVE  /\ \A i \in 1..Len(queue') :
              queue'[i].name = n /\ queue'[i].op = op => InQueue(i, n, op)'
         /\ Head(queue).name = n /\ Head(queue).op = op => InQueue(1, n, op)
         /\ InQueue(1, n, op) =>
              \/ InQueue(1, n, op)'
              \/ Head(queue).name = n /\ Head(queue).op = op /\ Head(queue).time = owed[n][op]
<1>1. queue \in Seq(Event) /\ Len(queue) \in Nat
  BY DEF IInv, TypeOK
<1>2. /\ Len(queue) >= 1 /\ Len(queue') = Len(queue) - 1 /\ Head(queue) = queue[1]
      /\ \A i \in 1..Len(queue') : queue'[i] = queue[i + 1]
  BY <1>1
<1>3. \A i \in 1..Len(queue) : queue[i].name = n /\ queue[i].op = op => InQueue(i, n, op)
  BY DEF Latest
<1>4. ASSUME NEW i \in 1..Len(queue'), queue'[i].name = n, queue'[i].op = op
      PROVE  InQueue(i, n, op)'
  <2>1. InQueue(i + 1, n, op)
    BY <1>1, <1>2, <1>3, <1>4
  <2>2. PICK j \in (i + 1)..Len(queue) :
          queue[j].name = n /\ queue[j].op = op /\ queue[j].time = owed[n][op]
    BY <2>1 DEF InQueue
  <2>3. (j - 1) \in i..Len(queue') /\ (j - 1) \in 1..Len(queue') /\ queue'[j - 1] = queue[j]
    BY <1>1, <1>2
  <2> QED
    BY <2>2, <2>3 DEF InQueue
<1>5. ASSUME NEW j \in 1..Len(queue), j # 1,
             queue[j].name = n /\ queue[j].op = op /\ queue[j].time = owed[n][op]
      PROVE  InQueue(1, n, op)'
  <2>1. (j - 1) \in 1..Len(queue') /\ queue'[j - 1] = queue[j]
    BY <1>1, <1>2, <1>5
  <2> QED
    BY <1>5, <2>1 DEF InQueue
<1>6. InQueue(1, n, op) =>
        \/ InQueue(1, n, op)'
        \/ Head(queue).name = n /\ Head(queue).op = op /\ Head(queue).time = owed[n][op]
  BY <1>2, <1>5 DEF InQueue
<1> QED
  BY <1>2, <1>3, <1>4, <1>6

LEMMA TakeKeeps ==
  ASSUME KInv, Take
  PROVE  Kept'
<1>1. Tidy /\ \A n \in Entity, op \in Op : Latest(n, op) /\ OnWay(n, op)
  BY DEF KInv, Kept, Take
<1>2. IInv /\ queue # <<>> /\ queue' = Tail(queue) /\ UNCHANGED <<owed, pending, sender>>
  BY DEF KInv, Take, account
<1>3. event = None /\ event' = Head(queue) /\ event' # None
  <2>1. Head(queue) \in Event
    BY <1>2 DEF IInv, TypeOK
  <2> QED
    BY <1>1, <2>1, NoneAssumption DEF Tidy, Take
<1>4. ASSUME NEW n \in Entity, NEW op \in Op, owed[n][op] # 0
      PROVE  Latest(n, op)' /\ OnWay(n, op)'
  <2>1. /\ \A i \in 1..Len(queue') :
             queue'[i].name = n /\ queue'[i].op = op => InQueue(i, n, op)'
        /\ event'.name = n /\ event'.op = op => InQueue(1, n, op)
        /\ InQueue(1, n, op) =>
             \/ InQueue(1, n, op)'
             \/ event'.name = n /\ event'.op = op /\ event'.time = owed[n][op]
    BY <1>1, <1>2, <1>3, <1>4, Popping
  <2>2. Latest(n, op)'
    BY <1>2, <2>1 DEF Latest
  <2>3. OnWay(n, op)'
    BY <1>1, <1>2, <1>3, <1>4, <2>1 DEF OnWay, OnItsWay, Carries
  <2> QED
    BY <2>2, <2>3
<1>5. ASSUME NEW n \in Entity, NEW op \in Op, owed[n][op] = 0
      PROVE  Latest(n, op)' /\ OnWay(n, op)'
  BY <1>2, <1>5 DEF Latest, OnWay
<1>6. Tidy'
  BY <1>1 DEF Tidy, Take, account
<1> QED
  BY <1>4, <1>5, <1>6 DEF Kept

-----------------------------------------------------------------------------
(* The event in hand is done with: its operation waits with the right stamp. *)
LEMMA Merging ==
  ASSUME KInv, mode # "ended", event # None, event' = None, UNCHANGED <<owed, sender>>,
         NEW n \in Entity, NEW op \in Op,
         owed[n][op] # 0 =>
           /\ \A i \in 1..Len(queue') :
                queue'[i].name = n /\ queue'[i].op = op => InQueue(i, n, op)'
           /\ InQueue(1, n, op) => InQueue(1, n, op)',
         event.name = n /\ event.op = op =>
           pending'[n] # None /\ op \in pending'[n].ops /\ pending'[n].ts[op] = event.time,
         pending[n] # None /\ op \in pending[n].ops /\ ~(event.name = n /\ event.op = op) =>
           /\ pending'[n] # None /\ op \in pending'[n].ops
           /\ pending'[n].ts[op] = pending[n].ts[op]
  PROVE  Latest(n, op)' /\ OnWay(n, op)'
<1>1. Latest(n, op) /\ OnWay(n, op)
  BY DEF KInv, Kept
<1>2. Latest(n, op)'
  BY DEF Latest
<1>3. owed[n][op] \in Int /\ event.time \in Int
  BY DEF KInv, IInv, TypeOK, Time, Event
<1>4. CASE event.name = n /\ event.op = op
  <2>1. CASE owed[n][op] # 0 /\ event.time = owed[n][op]
    <3>1. Carries(pending[n], n, op)'
      BY <1>3, <1>4, <2>1 DEF Carries
    <3> QED
      BY <1>2, <1>4, <3>1 DEF OnWay, OnItsWay
  <2>2. CASE owed[n][op] # 0 /\ InQueue(1, n, op)
    BY <1>2, <2>2 DEF OnWay, OnItsWay
  <2>3. CASE owed[n][op] = 0
    BY <1>2, <2>3 DEF OnWay
  <2> QED
    BY <1>1, <1>4, <2>1, <2>2, <2>3 DEF Latest
<1>5. CASE ~(event.name = n /\ event.op = op)
  <2>1. pending[n] # None /\ Carries(pending[n], n, op) =>
          pending'[n] # None /\ Carries(pending[n], n, op)'
    BY <1>5 DEF Carries
  <2>2. \A w \in Worker : Carries(sender[w], n, op) <=> Carries(sender[w], n, op)'
    BY DEF Carries
  <2> QED
    BY <1>1, <1>2, <1>5, <2>1, <2>2 DEF OnWay, OnItsWay
<1> QED
  BY <1>4, <1>5

(* The pending action keeps the stamps of the operations that were in it. *)
LEMMA WithStamps ==
  ASSUME TypeOK, NEW n \in Name, NEW op \in Op, pending[n] # None
  PROVE  With(n, op).ts = pending[n].ts
<1>1. pending[n] \in Action
  BY DEF TypeOK, Entity
<1> QED
  BY <1>1 DEF With, Action

LEMMA DropKeeps ==
  ASSUME KInv, Drop
  PROVE  Kept'
<1>1. Tidy /\ \A n \in Entity, op \in Op : Latest(n, op) /\ OnWay(n, op)
  BY DEF KInv, Kept, Drop
<1>2. event \in Event /\ UNCHANGED <<queue, owed, sender, pending, disk>> /\ event' = None
  BY DEF Drop, Unlock, world, account, KInv, IInv, TypeOK, Consistent
<1>3. ASSUME NEW n \in Entity, NEW op \in Op
      PROVE  Latest(n, op)' /\ OnWay(n, op)'
  <2>1. \A i : InQueue(i, n, op) => InQueue(i, n, op)'
    BY <1>2 DEF InQueue
  <2>2. Latest(n, op)'
    BY <1>1, <1>2, <2>1 DEF Latest
  <2>3. event.name = n /\ event.op = op => owed[n][op] = 0
    BY <1>1, <1>2, OpsKnown DEF Tidy, Drop, Event
  <2>4. OnWay(n, op)'
    BY <1>1, <1>2, <2>1, <2>3 DEF OnWay, OnItsWay, Carries
  <2> QED
    BY <2>2, <2>4
<1>4. Tidy'
  BY <1>1, <1>2 DEF Tidy, Drop, Unlock
<1> QED
  BY <1>3, <1>4 DEF Kept

LEMMA MergeKeeps ==
  ASSUME KInv, Merge
  PROVE  Kept'
<1> DEFINE k == event.name
           a == [With(k, event.op) EXCEPT !.ts[event.op] = event.time]
<1>1. TypeOK /\ Tidy /\ mode # "ended"
  BY DEF KInv, IInv, Kept, Merge
<1>2. event \in Event /\ event # None /\ event.op \in Op /\ k \in Name /\ k \in Entity
  BY OpsKnown DEF Merge, KInv, IInv, TypeOK, Consistent, Event, Entity
<1>3. With(k, event.op) \in Action /\ event.op \in With(k, event.op).ops
  BY <1>1, <1>2, WithType
<1>4. /\ a \in Action /\ a # None /\ a.ops = With(k, event.op).ops
      /\ a.ts[event.op] = event.time
      /\ \A o \in Op : o # event.op => a.ts[o] = With(k, event.op).ts[o]
  BY <1>2, <1>3, NoneAssumption DEF Action, Event
<1>5. pending' = [pending EXCEPT ![k] = a] /\ UNCHANGED <<queue, owed, sender, disk>> /\ event' = None
  BY DEF Merge, Unlock, world
<1> HIDE DEF a
<1>6. pending'[k] = a /\ \A n \in Entity : n # k => pending'[n] = pending[n]
  BY <1>1, <1>2, <1>5 DEF TypeOK
<1>7. \A n \in Entity, op \in Op :
        pending[n] # None /\ op \in pending[n].ops /\ ~(k = n /\ event.op = op)
          => /\ pending'[n] # None /\ op \in pending'[n].ops
             /\ pending'[n].ts[op] = pending[n].ts[op]
  <2>1. pending[k] # None => /\ With(k, event.op).ops = pending[k].ops \cup {event.op}
                            /\ With(k, event.op).ts = pending[k].ts
    BY <1>1, <1>2, WithType, WithStamps
  <2> QED
    BY <1>4, <1>6, <2>1
<1>8. ASSUME NEW n \in Entity, NEW op \in Op
      PROVE  Latest(n, op)' /\ OnWay(n, op)'
  <2>1. \A i : InQueue(i, n, op) <=> InQueue(i, n, op)'
    BY <1>5 DEF InQueue
  <2>2. Latest(n, op)
    BY <1>1 DEF KInv, Kept
  <2> QED
    BY <1>1, <1>2, <1>3, <1>4, <1>5, <1>6, <1>7, <2>1, <2>2, Merging DEF Latest
<1>9. Tidy'
  BY <1>1, <1>5 DEF Tidy, Merge, Unlock
<1> QED
  BY <1>8, <1>9 DEF Kept

LEMMA MergeOldNameKeeps ==
  ASSUME KInv, MergeOldName
  PROVE  Kept'
<1> DEFINE k == event.name
<1>1. Tidy /\ \A n \in Entity, op \in Op : Latest(n, op) /\ OnWay(n, op)
  BY DEF KInv, Kept, MergeOldName
<1>2. TypeOK /\ event \in Event /\ k \in Name /\ k \in Entity /\ "move" \in Op
  BY OpsKnown DEF MergeOldName, KInv, IInv, TypeOK, Consistent, Event, Entity
<1>3. With(k, "move") \in Action /\ With(k, "move") # None
  BY <1>2, WithType, NoneAssumption
<1>4. pending[k] # None => /\ With(k, "move").ops = pending[k].ops \cup {"move"}
                           /\ With(k, "move").ts = pending[k].ts
  BY <1>2, WithType, WithStamps
<1>5. /\ pending'[k] = With(k, "move")
      /\ \A n \in Entity : n # k => pending'[n] = pending[n]
      /\ UNCHANGED <<queue, owed, sender, disk, event>>
  BY <1>2 DEF MergeOldName, world, TypeOK
<1>6. ASSUME NEW n \in Entity, NEW op \in Op
      PROVE  Latest(n, op)' /\ OnWay(n, op)'
  <2>1. \A i : InQueue(i, n, op) <=> InQueue(i, n, op)'
    BY <1>5 DEF InQueue
  <2>2. Latest(n, op)'
    BY <1>1, <1>5, <2>1 DEF Latest
  <2>3. pending[n] # None /\ Carries(pending[n], n, op) =>
          pending'[n] # None /\ Carries(pending[n], n, op)'
    BY <1>3, <1>4, <1>5 DEF Carries
  <2>4. OnWay(n, op)'
    BY <1>1, <1>5, <2>1, <2>3 DEF OnWay, OnItsWay, Carries
  <2> QED
    BY <2>2, <2>4
<1>7. Tidy'
  BY <1>1, <1>5 DEF Tidy, MergeOldName
<1> QED
  BY <1>6, <1>7 DEF Kept

LEMMA MergeNewNameKeeps ==
  ASSUME KInv, MergeNewName
  PROVE  Kept'
<1> DEFINE k == event.name
           a == [pending[k] EXCEPT !.to = Head(queue).name, !.ts["move"] = event.time]
<1>1. IInv /\ TypeOK /\ Tidy /\ mode # "ended"
  BY DEF KInv, IInv, Kept, MergeNewName
<1>2. /\ event \in Event /\ event # None /\ event.op = "move" /\ k \in Name /\ k \in Entity
      /\ "move" \in Op
  BY OpsKnown DEF MergeNewName, KInv, IInv, TypeOK, Consistent, Event, Entity
<1>3. pending[k] \in Action /\ pending[k] # None /\ Head(queue) \in Event
  BY <1>2 DEF MergeNewName, KInv, IInv, TypeOK, Consistent
<1>11. "move" \in pending[k].ops
  BY DEF MergeNewName, KInv, IInv, Consistent
<1>4. a \in Action
  BY <1>2, <1>3 DEF Action, Event
<1>5. /\ a # None /\ a.ops = pending[k].ops
      /\ a.ts["move"] = event.time
      /\ \A o \in Op : o # "move" => a.ts[o] = pending[k].ts[o]
  BY <1>2, <1>3, <1>4, NoneAssumption DEF Action, Event
<1>6. pending' = [pending EXCEPT ![k] = a]
  BY <1>2, <1>3 DEF MergeNewName, TypeOK, Action
<1>7. /\ UNCHANGED <<owed, sender, disk>> /\ event' = None
      /\ queue # <<>> /\ queue' = Tail(queue) /\ Head(queue).op = "newname"
  BY DEF MergeNewName, Unlock, account
<1> HIDE DEF a
<1>8. pending'[k] = a /\ \A n \in Entity : n # k => pending'[n] = pending[n]
  BY <1>1, <1>2, <1>6 DEF TypeOK
<1>9. ASSUME NEW n \in Entity, NEW op \in Op
      PROVE  Latest(n, op)' /\ OnWay(n, op)'
  <2>1. Latest(n, op)
    BY <1>1 DEF KInv, Kept
  <2>2. owed[n][op] # 0 =>
          /\ \A i \in 1..Len(queue') :
               queue'[i].name = n /\ queue'[i].op = op => InQueue(i, n, op)'
          /\ InQueue(1, n, op) => InQueue(1, n, op)'
    BY <1>1, <1>7, <2>1, Popping, OpsKnown
  <2>3. k = n /\ event.op = op =>
          pending'[n] # None /\ op \in pending'[n].ops /\ pending'[n].ts[op] = event.time
    BY <1>2, <1>5, <1>8, <1>11
  <2>4. pending[n] # None /\ op \in pending[n].ops /\ ~(k = n /\ event.op = op) =>
          /\ pending'[n] # None /\ op \in pending'[n].ops
          /\ pending'[n].ts[op] = pending[n].ts[op]
    BY <1>2, <1>5, <1>8
  <2> QED
    BY <1>1, <1>2, <1>7, <2>2, <2>3, <2>4, Merging
<1>10. Tidy'
  BY <1>1, <1>7 DEF Tidy, MergeNewName, Unlock
<1> QED
  BY <1>9, <1>10 DEF Kept

-----------------------------------------------------------------------------
(* The change owed is in the map or with a sender that has still to send it. *)
InMap(n, op) == pending[n] # None /\ Carries(pending[n], n, op)

WithSender(w, n, op) ==
  /\ sender[w] # None
  /\ sender[w].name = n
  /\ sender[w].stage \in {"send", "putback"}
  /\ Carries(sender[w], n, op)

Handled(n, op) == InMap(n, op) \/ \E w \in Worker : WithSender(w, n, op)

(* A step of the senders hands on what it does not send. *)
LEMMA Handing ==
  ASSUME KInv, mode # "ended", UNCHANGED <<queue, event>>,
         NEW n \in Entity, NEW op \in Op,
         owed'[n][op] \in {0, owed[n][op]} \/ op \in {"version", "apply"},
         owed'[n][op] # 0 =>
           Handled(n, op)' \/ (owed'[n][op] = owed[n][op] /\ ~Handled(n, op))
  PROVE  Latest(n, op)' /\ OnWay(n, op)'
<1>1. Latest(n, op) /\ OnWay(n, op)
  BY DEF KInv, Kept
<1>2. CASE owed'[n][op] = owed[n][op]
  <2>1. \A i : InQueue(i, n, op) <=> InQueue(i, n, op)'
    BY <1>2 DEF InQueue
  <2>2. Latest(n, op)'
    BY <1>1, <1>2, <2>1 DEF Latest
  <2>3. OnWay(n, op)'
    BY <1>1, <1>2, <2>1 DEF OnWay, OnItsWay, Handled, InMap, WithSender
  <2> QED
    BY <2>2, <2>3
<1>3. CASE owed'[n][op] = 0
  BY <1>3 DEF Latest, OnWay
<1>4. CASE op \in {"version", "apply"} /\ owed'[n][op] \notin {0, owed[n][op]}
  <2>1. \A i \in 1..Len(queue) : queue[i].op # op
    <3>1. \A i \in 1..Len(queue) : queue[i] \in Event
      BY DEF KInv, IInv, TypeOK
    <3> QED
      BY <1>4, <3>1 DEF Event
  <2>2. event # None => event.op # op
    BY <1>4 DEF KInv, IInv, TypeOK, Event
  <2>3. Latest(n, op)'
    BY <2>1, <2>2 DEF Latest
  <2>4. OnWay(n, op)'
    BY <1>4 DEF OnWay, OnItsWay, Handled, InMap, WithSender
  <2> QED
    BY <2>3, <2>4
<1> QED
  BY <1>2, <1>3, <1>4

(* What joins an entry and what was in it stay there, with no smaller stamps. *)
LEMMA Joining ==
  ASSUME TypeOK, NEW by, NEW k \in Entity, NEW a \in Action, Join(by, k, a), NEW op \in Op
  PROVE  /\ op \in a.ops => /\ pending'[k] # None /\ op \in pending'[k].ops
                            /\ pending'[k].ts[op] >= a.ts[op]
         /\ \A n \in Entity : pending[n] # None /\ op \in pending[n].ops =>
              /\ pending'[n] # None /\ op \in pending'[n].ops
              /\ pending'[n].ts[op] >= pending[n].ts[op]
<1>1. /\ pending'[k] = Joined(k, a)
      /\ \A n \in Entity : n # k => pending'[n] = pending[n]
  BY DEF Join, TypeOK
<1>2. /\ a.ts[op] \in Int
      /\ \A n \in Entity : pending[n] # None => pending[n].ts[op] \in Int
  BY DEF Action, Time, TypeOK
<1>3. CASE pending[k] = None
  <2>1. Joined(k, a) = a /\ a # None
    BY <1>3, NoneAssumption DEF Joined
  <2> QED
    BY <1>1, <1>2, <1>3, <2>1
<1>4. CASE pending[k] # None
  <2>1. pending[k] \in Action
    BY <1>4 DEF TypeOK
  <2>2. Joined(k, a) = [ops |-> pending[k].ops \cup a.ops,
                        ts |-> [o \in Op |-> Later(pending[k].ts[o], a.ts[o])],
                        to |-> pending[k].to]
    BY <1>4, <2>1 DEF Joined, Action
  <2>3. [o \in Op |-> Later(pending[k].ts[o], a.ts[o])] \in [Op -> Time]
    BY <2>1 DEF Action, Later
  <2>4. Joined(k, a) \in Action /\ Joined(k, a) # None
    BY <2>1, <2>2, <2>3, NoneAssumption DEF Action
  <2>5. /\ Joined(k, a).ops = pending[k].ops \cup a.ops
        /\ Joined(k, a).ts[op] >= pending[k].ts[op]
        /\ Joined(k, a).ts[op] >= a.ts[op]
    BY <1>2, <1>4, <2>2 DEF Later
  <2> QED
    BY <1>1, <1>2, <2>4, <2>5
<1> QED
  BY <1>3, <1>4

LEMMA AskVersionKeeps ==
  ASSUME KInv, NEW k \in Name, NEW t \in 1..clock, AskVersion(k, t)
  PROVE  Kept'
<1> SUFFICES ASSUME mode # "ended" PROVE Kept'
  BY DEF Kept, AskVersion
<1> DEFINE a == Just("version", t)
<1>1. TypeOK /\ Tidy /\ k \in Entity /\ "version" \in Op
  BY OpsKnown DEF KInv, IInv, Kept, Entity
<1>2. t \in Time /\ 0 \in Time /\ clock \in Nat
  BY <1>1, BoundAssumption DEF TypeOK, Time
<1>3. a \in Action /\ a.ops = {"version"} /\ a.ts["version"] = t
  BY <1>1, <1>2 DEF Just, Action
<1>4. Join(None, k, a) /\ UNCHANGED <<queue, event, sender, disk, mode>>
  BY DEF AskVersion
<1>5. /\ owed'[k]["version"] = Later(owed[k]["version"], t)
      /\ \A n \in Entity, op \in Op : n # k \/ op # "version" => owed'[n][op] = owed[n][op]
  BY <1>1 DEF AskVersion, TypeOK
<1>9. UNCHANGED <<queue, event>>
  BY <1>4
<1> HIDE DEF a
<1>6. ASSUME NEW n \in Entity, NEW op \in Op
      PROVE  Latest(n, op)' /\ OnWay(n, op)'
  <2>1. /\ owed[n][op] \in Int /\ t \in Int
        /\ \A m \in Entity : pending[m] # None => pending[m].ts[op] \in Int
        /\ \A m \in Entity : pending'[m] # None => pending'[m].ts[op] \in Int
    <3>1. IInv'
      BY AskVersionStep DEF KInv
    <3>2. TypeOK'
      BY <3>1 DEF IInv
    <3>3. \A x \in Time : x \in Int
      BY DEF Time
    <3>4. owed[n][op] \in Time /\ t \in Time
      BY <1>1, <1>2 DEF TypeOK
    <3>5. \A m \in Entity : pending[m] # None => pending[m].ts[op] \in Time
      BY <1>1 DEF TypeOK, Action
    <3>6. \A m \in Entity : pending'[m] # None => pending'[m].ts[op] \in Time
      BY <3>2 DEF TypeOK, Action
    <3> QED
      BY <3>3, <3>4, <3>5, <3>6
  <2>2. CASE owed'[n][op] = owed[n][op]
    <3>1. InMap(n, op) => InMap(n, op)'
      BY <1>1, <1>3, <1>4, <2>1, <2>2, Joining DEF InMap, Carries
    <3>2. \A w \in Worker : WithSender(w, n, op) => WithSender(w, n, op)'
      BY <1>4, <2>2 DEF WithSender, Carries
    <3>3. Handled(n, op)' \/ (owed'[n][op] = owed[n][op] /\ ~Handled(n, op))
      BY <2>2, <3>1, <3>2 DEF Handled
    <3>4. owed'[n][op] \in {0, owed[n][op]}
      BY <2>2
    <3> QED
      BY <1>9, <3>3, <3>4, Handing
  <2>3. CASE owed'[n][op] # owed[n][op]
    <3>1. n = k /\ op = "version" /\ owed'[n][op] = t
      BY <1>5, <2>3 DEF Later
    <3>2. InMap(n, op)'
      BY <1>1, <1>3, <1>4, <2>1, <3>1, Joining DEF InMap, Carries
    <3>3. Handled(n, op)'
      BY <3>2 DEF Handled
    <3>4. op \in {"version", "apply"}
      BY <3>1
    <3> QED
      BY <1>9, <3>3, <3>4, Handing
  <2> QED
    BY <2>2, <2>3
<1>7. Tidy'
  BY <1>1, <1>4, <1>5, OpsKnown DEF Tidy, Entity
<1> QED
  BY <1>6, <1>7 DEF Kept

LEMMA DispatchKeeps ==
  ASSUME KInv, NEW k \in Entity, Dispatch(k)
  PROVE  Kept'
<1> SUFFICES ASSUME mode # "ended" PROVE Kept'
  BY DEF Kept, Dispatch
<1> DEFINE snd == [name |-> k, ops |-> pending[k].ops, ts |-> pending[k].ts,
                   to |-> pending[k].to, got |-> {}, stage |-> "send"]
<1>1. TypeOK /\ Tidy
  BY DEF KInv, IInv, Kept
<1>2. PICK v \in Worker : sender[v] = None /\ sender' = [sender EXCEPT ![v] = snd]
  BY DEF Dispatch
<1>3. /\ UNCHANGED <<queue, event, owed, disk, mode>>
      /\ pending[k] # None /\ pending' = [pending EXCEPT ![k] = None]
  BY DEF Dispatch, world, account
<1>4. snd \in Sender /\ snd # None
  <2>1. pending[k] \in Action
    BY <1>1, <1>3 DEF TypeOK
  <2>2. snd \in Sender
    BY <2>1 DEF Action, Sender
  <2> QED
    BY <2>2, NoneAssumption
<1>5. /\ snd.name = k /\ snd.stage = "send" /\ snd.ops = pending[k].ops /\ snd.ts = pending[k].ts
  OBVIOUS
<1> HIDE DEF snd
<1>6. /\ sender'[v] = snd
      /\ \A w \in Worker : w # v => sender'[w] = sender[w]
      /\ \A n \in Entity : n # k => pending'[n] = pending[n]
  BY <1>1, <1>2, <1>3 DEF TypeOK
<1>7. ASSUME NEW n \in Entity, NEW op \in Op
      PROVE  Latest(n, op)' /\ OnWay(n, op)'
  <2>1. InMap(n, op) => InMap(n, op)' \/ WithSender(v, n, op)'
    BY <1>3, <1>4, <1>5, <1>6 DEF InMap, WithSender, Carries
  <2>2. \A w \in Worker : WithSender(w, n, op) => WithSender(w, n, op)'
    BY <1>2, <1>3, <1>6 DEF WithSender, Carries
  <2>3. owed'[n][op] \in {0, owed[n][op]} /\ UNCHANGED <<queue, event>>
    BY <1>3
  <2>4. Handled(n, op)' \/ (owed'[n][op] = owed[n][op] /\ ~Handled(n, op))
    BY <1>3, <2>1, <2>2 DEF Handled
  <2> QED
    BY <2>3, <2>4, Handing
<1>8. Tidy'
  BY <1>1, <1>3 DEF Tidy
<1> QED
  BY <1>7, <1>8 DEF Kept

(* A step of a sender that keeps the map and what the sender has still to send. *)
LEMMA SenderKeeps ==
  ASSUME KInv, NEW v \in Worker, NEW snd, sender' = [sender EXCEPT ![v] = snd],
         UNCHANGED <<queue, event, disk, mode>>,
         \A n \in Entity, op \in Op :
           \/ owed'[n][op] = 0
           \/ /\ owed'[n][op] = owed[n][op]
              /\ InMap(n, op) => InMap(n, op)'
              /\ WithSender(v, n, op) => Handled(n, op)'
           \/ op = "apply" /\ Handled(n, op)'
  PROVE  Kept'
<1> SUFFICES ASSUME mode # "ended" PROVE Kept'
  BY DEF Kept
<1>1. TypeOK /\ Tidy
  BY DEF KInv, IInv, Kept
<1>2. \A w \in Worker : w # v => sender'[w] = sender[w]
  BY <1>1 DEF TypeOK
<1>3. ASSUME NEW n \in Entity, NEW op \in Op
      PROVE  Latest(n, op)' /\ OnWay(n, op)'
  <2> UNCHANGED <<queue, event>>
    OBVIOUS
  <2>1. CASE owed'[n][op] = 0
    <3>1. owed'[n][op] \in {0, owed[n][op]}
      BY <2>1
    <3> QED
      BY <2>1, <3>1, Handing
  <2>2. CASE /\ owed'[n][op] = owed[n][op]
             /\ InMap(n, op) => InMap(n, op)'
             /\ WithSender(v, n, op) => Handled(n, op)'
    <3>1. \A w \in Worker : w # v /\ WithSender(w, n, op) => WithSender(w, n, op)'
      BY <1>2, <2>2 DEF WithSender, Carries
    <3>2. Handled(n, op)' \/ (owed'[n][op] = owed[n][op] /\ ~Handled(n, op))
      BY <2>2, <3>1 DEF Handled
    <3>3. owed'[n][op] \in {0, owed[n][op]}
      BY <2>2
    <3> QED
      BY <3>2, <3>3, Handing
  <2>3. CASE op = "apply" /\ Handled(n, op)'
    <3>1. op \in {"version", "apply"}
      BY <2>3
    <3> QED
      BY <2>3, <3>1, Handing
  <2> QED
    BY <2>1, <2>2, <2>3
<1>4. Tidy'
  <2>1. \A n \in Name : owed'[n]["write"] \in {0, owed[n]["write"]}
    BY OpsKnown DEF Entity
  <2> QED
    BY <1>1, <2>1 DEF Tidy
<1> QED
  BY <1>3, <1>4 DEF Kept

LEMMA AcknowledgeKeeps ==
  ASSUME KInv, NEW v \in Worker, Acknowledge(v)
  PROVE  Kept'
<1> DEFINE o    == NextOp(sender[v].ops)
           left == sender[v].ops \ {o}
           snd  == [sender[v] EXCEPT !.ops = left, !.got = @ \cup {o},
                                     !.stage = IF left = {} THEN "check" ELSE "send"]
           k    == sender[v].name
<1>1. TypeOK /\ sender[v] \in Sender /\ sender[v] # None /\ sender[v].stage = "send"
  BY DEF Acknowledge, Runs, KInv, IInv, TypeOK
<1>2. k \in Entity /\ sender[v].ops \in SUBSET Op /\ sender[v].ops # {}
  BY <1>1 DEF Sender, KInv, IInv, Consistent, Runs
<1>3. o \in sender[v].ops /\ o \in Op
  BY <1>2, NextOpIn
<1>4. /\ owed' = [owed EXCEPT ![k][o] = IF @ <= sender[v].ts[o] THEN 0 ELSE @]
      /\ UNCHANGED <<queue, event, disk, mode, pending>>
  BY DEF Acknowledge, Acknowledged, world
<1>5. sender' = [sender EXCEPT ![v] = snd]
  BY <1>1 DEF Acknowledge, TypeOK, Sender
<1> HIDE DEF o
<1>6. /\ snd # None /\ snd.name = k /\ snd.ts = sender[v].ts
      /\ snd.ops = left /\ (left # {} => snd.stage = "send")
  <2>1. snd \in Sender
    BY <1>1, <1>2, <1>3 DEF Sender
  <2>2. snd # None
    BY <2>1, NoneAssumption
  <2> QED
    BY <1>1, <2>2 DEF Sender
<1> HIDE DEF snd
<1>7. sender'[v] = snd
  BY <1>1, <1>5 DEF TypeOK
<1>8. ASSUME NEW n \in Entity, NEW op \in Op
      PROVE  \/ owed'[n][op] = 0
             \/ /\ owed'[n][op] = owed[n][op]
                /\ InMap(n, op) => InMap(n, op)'
                /\ WithSender(v, n, op) => Handled(n, op)'
  <2>1. owed[n][op] \in Int /\ sender[v].ts[op] \in Int
    BY <1>1 DEF TypeOK, Sender, Time
  <2>2. owed'[n][op] = 0 \/ owed'[n][op] = owed[n][op]
    BY <1>1, <1>2, <1>3, <1>4 DEF TypeOK
  <2>3. ASSUME owed'[n][op] # 0, WithSender(v, n, op)
        PROVE  Handled(n, op)'
    <3>1. n = k /\ op \in sender[v].ops /\ sender[v].ts[op] >= owed[n][op]
      BY <2>3 DEF WithSender, Carries
    <3>2. op # o
      BY <1>1, <1>2, <1>3, <1>4, <2>1, <2>3, <3>1 DEF TypeOK
    <3>3. WithSender(v, n, op)'
      BY <1>6, <1>7, <2>2, <2>3, <3>1, <3>2 DEF WithSender, Carries
    <3> QED
      BY <3>3 DEF Handled
  <2>4. owed'[n][op] = owed[n][op] => (InMap(n, op) => InMap(n, op)')
    BY <1>4 DEF InMap, Carries
  <2> QED
    BY <2>2, <2>3, <2>4
<1> QED
  BY <1>4, <1>5, <1>8, SenderKeeps

LEMMA FailKeeps ==
  ASSUME KInv, NEW v \in Worker, Fail(v) \/ NotFound(v)
  PROVE  Kept'
<1> DEFINE snd == [sender[v] EXCEPT !.stage = "putback"]
<1>1. TypeOK /\ sender[v] \in Sender /\ sender[v] # None
  BY DEF Fail, NotFound, Runs, KInv, IInv, TypeOK
<1>2. sender' = [sender EXCEPT ![v] = snd]
  BY <1>1 DEF Fail, NotFound, TypeOK
<1>3. /\ snd # None /\ snd.name = sender[v].name /\ snd.ts = sender[v].ts
      /\ snd.ops = sender[v].ops /\ snd.stage = "putback"
  <2>1. snd \in Sender
    BY <1>1 DEF Sender
  <2> QED
    BY <1>1, <2>1, NoneAssumption DEF Sender
<1> HIDE DEF snd
<1>4. sender'[v] = snd /\ UNCHANGED <<queue, event, disk, mode, pending, owed>>
  BY <1>1, <1>2 DEF Fail, NotFound, TypeOK, world, merging, account
<1>5. ASSUME NEW n \in Entity, NEW op \in Op
      PROVE  /\ owed'[n][op] = owed[n][op]
             /\ InMap(n, op) => InMap(n, op)'
             /\ WithSender(v, n, op) => Handled(n, op)'
  <2>1. WithSender(v, n, op) => WithSender(v, n, op)'
    BY <1>3, <1>4 DEF WithSender, Carries
  <2> QED
    BY <1>4, <2>1 DEF InMap, Carries, Handled
<1> QED
  BY <1>2, <1>4, <1>5, SenderKeeps

LEMMA PutBackKeeps ==
  ASSUME KInv, NEW v \in Worker, PutBack(v)
  PROVE  Kept'
<1> DEFINE k   == sender[v].name
           a   == [ops |-> sender[v].ops, ts |-> sender[v].ts, to |-> sender[v].to]
           snd == [sender[v] EXCEPT !.stage = "subtract"]
<1>1. TypeOK /\ sender[v] \in Sender /\ sender[v] # None
  BY DEF PutBack, Runs, KInv, IInv, TypeOK
<1>2. k \in Entity /\ a \in Action /\ Join(v, k, a)
  BY <1>1 DEF PutBack, Sender, Action
<1>3. a.ops = sender[v].ops /\ a.ts = sender[v].ts
  OBVIOUS
<1>4. sender' = [sender EXCEPT ![v] = snd]
  BY <1>1 DEF PutBack, TypeOK
<1>5. UNCHANGED <<queue, event, disk, mode, owed>>
  BY DEF PutBack, world, account
<1>6. IInv'
  BY PutBackStep DEF KInv
<1> HIDE DEF a, snd
<1>7. ASSUME NEW n \in Entity, NEW op \in Op
      PROVE  /\ owed'[n][op] = owed[n][op]
             /\ InMap(n, op) => InMap(n, op)'
             /\ WithSender(v, n, op) => Handled(n, op)'
  <2>1. /\ owed[n][op] \in Int /\ a.ts[op] \in Int
        /\ pending[n] # None => pending[n].ts[op] \in Int
        /\ pending'[n] # None => pending'[n].ts[op] \in Int
    BY <1>1, <1>2, <1>6 DEF IInv, TypeOK, Action, Time
  <2>4. pending[n] # None /\ op \in pending[n].ops =>
          /\ pending'[n] # None /\ op \in pending'[n].ops
          /\ pending'[n].ts[op] >= pending[n].ts[op]
    BY <1>1, <1>2, Joining
  <2>2. InMap(n, op) => InMap(n, op)'
    BY <1>5, <2>1, <2>4 DEF InMap, Carries
  <2>3. WithSender(v, n, op) => InMap(n, op)'
    BY <1>1, <1>2, <1>3, <1>5, <2>1, Joining DEF InMap, WithSender, Carries
  <2> QED
    BY <1>5, <2>2, <2>3 DEF Handled
<1> QED
  BY <1>4, <1>5, <1>7, SenderKeeps

(* The map has it all by then, or there was nothing to put back. *)
LEMMA StageKeeps ==
  ASSUME KInv, NEW v \in Worker, Subtract(v) \/ Look(v)
  PROVE  Kept'
<1>1. PICK stage \in {"check", "stamp"} : sender' = [sender EXCEPT ![v].stage = stage]
  BY DEF Subtract, Look
<1>2. sender' = [sender EXCEPT ![v] = [sender[v] EXCEPT !.stage = stage]]
  BY <1>1
<1>3. UNCHANGED <<queue, event, disk, mode, pending, owed>>
  BY DEF Subtract, Look, world, merging, account
<1>4. ASSUME NEW n \in Entity, NEW op \in Op
      PROVE  /\ owed'[n][op] = owed[n][op]
             /\ InMap(n, op) => InMap(n, op)'
             /\ WithSender(v, n, op) => Handled(n, op)'
  BY <1>3 DEF InMap, Carries, WithSender, Subtract, Look, Runs
<1> QED
  BY <1>2, <1>3, <1>4, SenderKeeps

LEMMA QueueApplyKeeps ==
  ASSUME KInv, NEW v \in Worker, QueueApply(v)
  PROVE  Kept'
<1> DEFINE snd == [name |-> Star, ops |-> {"apply"}, ts |-> Just("apply", clock).ts,
                   to |-> None, got |-> {}, stage |-> "putback"]
<1>1. TypeOK /\ Star \in Entity /\ "apply" \in Op /\ clock \in Int /\ clock \in Time /\ 0 \in Time
  BY OpsKnown, BoundAssumption DEF KInv, IInv, TypeOK, Entity, Time
<1>2. sender' = [sender EXCEPT ![v] = snd]
  BY DEF QueueApply
<1>3. Just("apply", clock).ts \in [Op -> Time] /\ Just("apply", clock).ts["apply"] = clock
  BY <1>1 DEF Just
<1>4. /\ snd # None /\ snd.name = Star /\ snd.ops = {"apply"} /\ snd.stage = "putback"
      /\ snd.ts["apply"] = clock
  <2>1. snd \in Sender
    BY <1>1, <1>3 DEF Sender
  <2> QED
    BY <1>3, <2>1, NoneAssumption
<1> HIDE DEF snd
<1>5. sender'[v] = snd /\ UNCHANGED <<queue, event, disk, mode, pending>>
  BY <1>1, <1>2 DEF QueueApply, TypeOK, world, merging
<1>6. /\ owed'[Star]["apply"] = clock
      /\ \A n \in Entity, op \in Op : n # Star \/ op # "apply" => owed'[n][op] = owed[n][op]
  BY <1>1 DEF QueueApply, TypeOK
<1>7. ASSUME NEW n \in Entity, NEW op \in Op
      PROVE  \/ /\ owed'[n][op] = owed[n][op]
                /\ InMap(n, op) => InMap(n, op)'
                /\ WithSender(v, n, op) => Handled(n, op)'
             \/ op = "apply" /\ Handled(n, op)'
  <2>1. CASE n = Star /\ op = "apply"
    <3>1. WithSender(v, n, op)'
      BY <1>1, <1>4, <1>5, <1>6, <2>1 DEF WithSender, Carries
    <3> QED
      BY <2>1, <3>1 DEF Handled
  <2>2. CASE n # Star \/ op # "apply"
    BY <1>5, <1>6, <2>2 DEF InMap, Carries, WithSender, QueueApply, Runs
  <2> QED
    BY <2>1, <2>2
<1> QED
  BY <1>2, <1>5, <1>7, SenderKeeps

LEMMA FinishKeeps ==
  ASSUME KInv, NEW v \in Worker, Finish(v)
  PROVE  Kept'
<1>1. /\ sender' = [sender EXCEPT ![v] = None]
      /\ UNCHANGED <<queue, event, disk, mode, pending, owed>>
  BY DEF Finish, world, merging, account
<1>2. ASSUME NEW n \in Entity, NEW op \in Op
      PROVE  /\ owed'[n][op] = owed[n][op]
             /\ InMap(n, op) => InMap(n, op)'
             /\ WithSender(v, n, op) => Handled(n, op)'
  BY <1>1 DEF InMap, Carries, WithSender, Finish, Runs
<1> QED
  BY <1>1, <1>2, SenderKeeps

-----------------------------------------------------------------------------
LEMMA StepKeeps == KInv /\ [Next]_vars => KInv'
<1> SUFFICES ASSUME KInv, [Next]_vars PROVE KInv'
  OBVIOUS
<1>1. IInv'
  BY StepHolds DEF KInv
<1>2. Kept'
  <2>1. CASE User
    BY <2>1, WorldKeeps, AskVersionKeeps DEF User
  <2>2. CASE \E l \in Listener : ReportNewName(l)
    BY <2>2, WorldKeeps
  <2>3. CASE WrongOrder
    BY <2>3 DEF WrongOrder, Kept
  <2>4. CASE MergeThread
    BY <2>3, <2>4, TakeKeeps, DropKeeps, MergeKeeps, MergeOldNameKeeps, MergeNewNameKeeps
       DEF MergeThread
  <2>5. CASE \E n \in Entity : Dispatch(n)
    BY <2>5, DispatchKeeps
  <2>6. CASE \E w \in Worker : SendThread(w) \/ Fail(w)
    BY <2>6, AcknowledgeKeeps, PutBackKeeps, StageKeeps, QueueApplyKeeps, FinishKeeps, FailKeeps
       DEF SendThread
  <2>7. CASE CountUp \/ UNCHANGED vars
    <3>1. UNCHANGED <<disk, queue, mode, event, pending, sender, owed>>
      BY <2>7 DEF CountUp, vars, world, merging, account
    <3> QED
      BY <3>1 DEF KInv, Kept, Tidy, Latest, OnWay, OnItsWay, InQueue, Carries
  <2> QED
    BY <2>1, <2>2, <2>4, <2>5, <2>6, <2>7 DEF Next
<1> QED
  BY <1>1, <1>2 DEF KInv

LEMMA InitKept == Init => KInv
<1> SUFFICES ASSUME Init PROVE KInv
  OBVIOUS
<1>1. \A n \in Entity, op \in Op : owed[n][op] = 0
  BY DEF Init
<1>2. Tidy
  BY <1>1, OpsKnown DEF Init, Tidy, Entity
<1> QED
  BY <1>1, <1>2, InitHolds DEF KInv, Kept, Latest, OnWay

(***************************************************************************)
(* No change drops out between the queue, the merge thread, the map and    *)
(* the senders, whatever they do at the same time and whatever fails.      *)
(***************************************************************************)
THEOREM ChangesNotLost == Spec => []NothingLost
<1>1. KInv => NothingLost
  BY DEF KInv, Kept, OnWay, NothingLost
<1> QED
  BY <1>1, InitKept, StepKeeps, PTL DEF Spec
=============================================================================
