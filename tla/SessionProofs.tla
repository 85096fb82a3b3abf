---------------------------- MODULE SessionProofs ----------------------------
(***************************************************************************)
(* What Session promises, for any number of connections, any size of the   *)
(* content, any number of failures and refusals.                           *)
(***************************************************************************)
EXTENDS Session, SequenceTheorems, TLAPS

Link == [up : Seq(UpMsg), upEnd : End, down : Seq(DownMsg), downEnd : End,
         asked : SUBSET Op, size : 0..Chunks]

Peer == worker[conn]

(* Where the sender is at an operation, and where the worker is. *)
Under == at \in {"ops", "ack", "size", "content", "sending", "inner"}
Busy  == {"ops", "open", "size", "content"}

Rank == [o \in Op |-> CHOOSE i \in 1..6 : Order[i] = o]

(* No answer follows a no. *)
NoIsLast(d) == \A i \in 1..Len(d) : d[i] = "no" => i = Len(d)
Refused(d)  == d # <<>> /\ d[Len(d)] = "no"

(* The answers under way, a no not counted. *)
Said(d) == IF Refused(d) THEN Len(d) - 1 ELSE Len(d)

Sum(a, set) ==
  LET of(o) == IF o \in set THEN a[o] ELSE 0
  IN  of("create") + of("move") + of("remove") + of("apply") + of("version") + of("write")

(* What the sender has still to take for each operation, *)
Acking(o) == at = "ack" /\ First[left] = o
Answers == [o \in Op |->
  IF Acking(o) THEN 1
  ELSE IF o = "version" THEN IF at = "content" THEN Mine.size - n + 1 ELSE Mine.size + 2
  ELSE IF o = "write" THEN 2 ELSE 1]

(* and before it comes to one. *)
Earlier(o) == {p \in left : Rank[p] < Rank[o]}
Ahead(o)   == Sum(Answers, Earlier(o))

(* The sender minds the answers, unless stop has cut a version off or ended the loop. *)
Heeds == Under /\ (run \/ ~(at = "ops" \/ Acking("version")))

(* The operations that the worker cannot have answered on this connection. *)
ToDo == IF Peer.at \in Busy THEN left \cap Peer.left ELSE left \ done

(* What is under way answers operations before those the worker has still to do. *)
WorkerAhead ==
  Heeds /\ Peer.at \in Busy => Peer.left \subseteq left /\ left \ Peer.left \subseteq done

AnswersFit == Heeds => \A o \in ToDo : Said(Mine.down) <= Ahead(o)

RefusedInTurn ==
  Heeds /\ refusals = 0 /\ Refused(Mine.down) =>
    \E o \in left \cap {"move", "remove"} : Said(Mine.down) <= Ahead(o)

(* The first messages of a connection. *)
NoHeader(u) == \A i \in 1..Len(u) : u[i] # "header"

Opening ==
  /\ at = "login" =>
       /\ left = ops
       /\ NoHeader(Mine.up)
       /\ Peer.at \in {"login", "header", "drain", "closed"}
       /\ Peer.at = "login" => Mine.down = <<>>
       /\ Len(Mine.down) <= 1
  /\ Under /\ Peer.at = "header" => Mine.down = <<>> /\ Mine.asked = left
  /\ Under => Peer.at # "login"

Ended ==
  at = "login" \/ Under =>
    /\ NoIsLast(Mine.down)
    /\ Refused(Mine.down) => Peer.at \in {"drain", "closed"}

Places ==
  /\ at \in {"ack", "size", "content", "sending", "inner"} => left # {}
  /\ at \in {"size", "content"} => First[left] = "version"
  /\ at \in {"sending", "inner"} => First[left] = "write" /\ temp # Gone
  /\ at = "content" => n <= Mine.size
  /\ Acking("version") => restored = "whole" \/ ~run
  /\ at = "content" \/ Acking("version") =>
       /\ "version" \in done
       /\ Peer.at # "header" /\ (Peer.at \in Busy => "version" \notin Peer.left)

Workers == \A c \in Conn :
  /\ worker[c].at # "content" => worker[c].n = 0
  /\ worker[c].at \in {"open", "size", "content"} => worker[c].left = {"write"}

Requested == \A c \in Conn : worker[c].left \subseteq job /\ link[c].asked \subseteq job

(* Nobody but the one worker that fills the stored file has opened it. *)
Filling(c) == worker[c].at \in {"size", "content"}
Intact == ~overlaid =>
  /\ "write" \in done => 1..size \subseteq blob
  /\ \A c \in Conn : Filling(c) =>
       /\ "write" \notin done
       /\ 1..worker[c].n \subseteq blob
       /\ \A d \in Conn : Filling(d) => d = c

(* The parts of TypeOK, as the steps touch them. *)
WorkerRecord == [at : {"login", "header", "ops", "open", "size", "content", "drain", "closed"},
                 left : SUBSET Op, n : 0..Chunks]

LinkType   == link \in [Conn -> Link]
WorkerType == worker \in [Conn -> WorkerRecord]
SenderType ==
  /\ at \in {"idle", "login", "ops", "ack", "size", "content", "sending", "inner", "drain"}
  /\ conn \in Conn
  /\ n \in 0..Chunks
ActionType ==
  /\ left \subseteq ops \cup got /\ ops \subseteq job /\ got \subseteq job \ ops
  /\ temp \in (0..Chunks) \cup {Gone}
  /\ restored \in {"none", "part", "whole"}
StoreType  == done \subseteq job /\ blob \subseteq 1..Chunks /\ size \in 0..Chunks
BoundsType ==
  /\ {run, shrunk, serving, overlaid} \subseteq BOOLEAN
  /\ job \in Jobs
  /\ failures \in 0..MaxFailures /\ refusals \in 0..MaxRefusals

(* A step of the exchange on the sender's side. *)
Hearing == Listening \/ CannotRestore
Listens ==
  \/ Listening /\ UNCHANGED <<worker, conn, store, run, bounds, overlaid>>
  \/ CannotRestore

(* The server's process ends. *)
Killed == ServerKilled \/ \E c \in Conn : Terminates(c)

Turns == WorkerAhead /\ AnswersFit /\ RefusedInTurn
Wire  == Opening /\ Ended /\ Turns

IInv ==
  /\ TypeOK /\ Wire /\ Places /\ Workers /\ Requested /\ Intact
  /\ AckedMeansDone /\ KeptUntilStored

-----------------------------------------------------------------------------
(***************************************************************************)
(* The operations are six, and gone through in the order of their ranks.   *)
(***************************************************************************)
LEMMA Ops == Op = {"create", "move", "remove", "apply", "version", "write"}
<1>1. \A i \in 1..6 : i = 1 \/ i = 2 \/ i = 3 \/ i = 4 \/ i = 5 \/ i = 6
  OBVIOUS
<1> QED
  BY <1>1 DEF Op, Order

LEMMA Ranks ==
  /\ Rank["create"] = 1 /\ Rank["move"] = 2 /\ Rank["remove"] = 3
  /\ Rank["apply"] = 4 /\ Rank["version"] = 5 /\ Rank["write"] = 6
<1>1. \A i \in 1..6 : i = 1 \/ i = 2 \/ i = 3 \/ i = 4 \/ i = 5 \/ i = 6
  OBVIOUS
<1>2. /\ Order[1] = "create" /\ Order[2] = "move" /\ Order[3] = "remove"
      /\ Order[4] = "apply" /\ Order[5] = "version" /\ Order[6] = "write"
  BY DEF Order
<1>3. ASSUME NEW j \in 1..6
      PROVE  (CHOOSE i \in 1..6 : Order[i] = Order[j]) = j
  <2>1. \A i \in 1..6 : Order[i] = Order[j] => i = j
    BY <1>1, <1>2
  <2> QED
    BY <2>1
<1> QED
  BY <1>2, <1>3, Ops DEF Rank

LEMMA FirstOne ==
  ASSUME NEW set \in SUBSET Op, set # {}
  PROVE  /\ First[set] \in set
         /\ \A p \in set : Rank[First[set]] <= Rank[p]
<1> DEFINE Is(i) == Order[i] \in set /\ \A j \in 1..(i - 1) : Order[j] \notin set
<1>1. /\ Order[1] = "create" /\ Order[2] = "move" /\ Order[3] = "remove"
      /\ Order[4] = "apply" /\ Order[5] = "version" /\ Order[6] = "write"
  BY DEF Order
<1>2. \E i \in 1..6 : Is(i)
  <2>1. \A i \in 1..6 : i = 1 \/ i = 2 \/ i = 3 \/ i = 4 \/ i = 5 \/ i = 6
    OBVIOUS
  <2>2. \E i \in 1..6 : Order[i] \in set
    BY DEF Op
  <2> QED
    BY <2>1, <2>2, SMTT(30)
<1>3. PICK k \in 1..6 : k = (CHOOSE i \in 1..6 : Is(i)) /\ Is(k)
  BY <1>2
<1>4. First[set] = Order[k]
  <2>1. First[set] = Order[CHOOSE i \in 1..6 : Is(i)]
    BY DEF First
  <2> HIDE DEF Is
  <2> QED
    BY <2>1, <1>3
<1>5. \A j \in 1..6 : Rank[Order[j]] = j
  <2>1. \A i \in 1..6 : i = 1 \/ i = 2 \/ i = 3 \/ i = 4 \/ i = 5 \/ i = 6
    OBVIOUS
  <2> QED
    BY <2>1, <1>1, Ranks
<1>6. \A p \in set : \E j \in 1..6 : p = Order[j]
  BY <1>1, Ops
<1>7. ASSUME NEW p \in set PROVE Rank[First[set]] <= Rank[p]
  <2>1. PICK j \in 1..6 : p = Order[j]
    BY <1>6
  <2>2. ~(j < k)
    BY <2>1, <1>3
  <2> QED
    BY <2>1, <2>2, <1>4, <1>5
<1> QED
  BY <1>3, <1>4, <1>7

LEMMA RankNat == \A o \in Op : Rank[o] \in 1..6 /\ (\A p \in Op : Rank[o] = Rank[p] => o = p)
BY Ranks, Ops

LEMMA SumSame ==
  ASSUME NEW a, NEW b, NEW set \in SUBSET Op, \A o \in set : a[o] = b[o]
  PROVE  Sum(a, set) = Sum(b, set)
BY DEF Sum

LEMMA SumNat ==
  ASSUME NEW a \in [Op -> Nat], NEW set \in SUBSET Op
  PROVE  Sum(a, set) \in Nat
BY Ops DEF Sum

LEMMA SumSplit ==
  ASSUME NEW a \in [Op -> Nat], NEW set \in SUBSET Op, NEW o \in set
  PROVE  Sum(a, set) = a[o] + Sum(a, set \ {o})
<1>1. \A p \in Op : a[p] \in Nat
  OBVIOUS
<1> QED
  BY <1>1, Ops DEF Sum

LEMMA SumMore ==
  ASSUME NEW a \in [Op -> Nat], NEW set \in SUBSET Op, NEW sub \in SUBSET set
  PROVE  Sum(a, sub) <= Sum(a, set)
<1>1. \A p \in Op : a[p] \in Nat
  OBVIOUS
<1> QED
  BY <1>1, Ops DEF Sum

LEMMA SumNone == \A a : Sum(a, {}) = 0
BY DEF Sum

-----------------------------------------------------------------------------
(***************************************************************************)
(* Connections, and what is done to them.                                  *)
(***************************************************************************)
LEMMA LinkFields ==
  ASSUME NEW l \in Link
  PROVE  /\ l.up \in Seq(UpMsg) /\ l.upEnd \in End /\ l.down \in Seq(DownMsg)
         /\ l.downEnd \in End /\ l.asked \in SUBSET Op /\ l.size \in 0..Chunks
BY DEF Link

LEMMA LinkSet ==
  ASSUME NEW l \in Link
  PROVE  /\ \A s \in Seq(UpMsg) : [l EXCEPT !.up = s] \in Link
         /\ \A e \in End : [l EXCEPT !.upEnd = e] \in Link
         /\ \A s \in Seq(DownMsg) : [l EXCEPT !.down = s] \in Link
         /\ \A e \in End : [l EXCEPT !.downEnd = e] \in Link
         /\ \A a \in SUBSET Op : [l EXCEPT !.asked = a] \in Link
         /\ \A s \in 0..Chunks : [l EXCEPT !.size = s] \in Link
BY DEF Link

(* The fields of a connection after a change of one of them. *)
LEMMA SetFields ==
  ASSUME NEW l \in Link, NEW x
  PROVE  /\ LET k == [l EXCEPT !.up = x]
            IN  k.up = x /\ k.upEnd = l.upEnd /\ k.down = l.down /\ k.downEnd = l.downEnd
                /\ k.asked = l.asked /\ k.size = l.size
         /\ LET k == [l EXCEPT !.upEnd = x]
            IN  k.up = l.up /\ k.upEnd = x /\ k.down = l.down /\ k.downEnd = l.downEnd
                /\ k.asked = l.asked /\ k.size = l.size
         /\ LET k == [l EXCEPT !.down = x]
            IN  k.up = l.up /\ k.upEnd = l.upEnd /\ k.down = x /\ k.downEnd = l.downEnd
                /\ k.asked = l.asked /\ k.size = l.size
         /\ LET k == [l EXCEPT !.downEnd = x]
            IN  k.up = l.up /\ k.upEnd = l.upEnd /\ k.down = l.down /\ k.downEnd = x
                /\ k.asked = l.asked /\ k.size = l.size
         /\ LET k == [l EXCEPT !.asked = x]
            IN  k.up = l.up /\ k.upEnd = l.upEnd /\ k.down = l.down /\ k.downEnd = l.downEnd
                /\ k.asked = x /\ k.size = l.size
         /\ LET k == [l EXCEPT !.size = x]
            IN  k.up = l.up /\ k.upEnd = l.upEnd /\ k.down = l.down /\ k.downEnd = l.downEnd
                /\ k.asked = l.asked /\ k.size = x
BY DEF Link

LEMMA UpFields ==
  ASSUME NEW l \in Link, NEW msgs \in Seq(UpMsg)
  PROVE  LET k == Up(l, msgs)
         IN  /\ k.up = l.up \/ k.up = l.up \o msgs
             /\ k.upEnd = l.upEnd /\ k.down = l.down /\ k.downEnd = l.downEnd
             /\ k.asked = l.asked /\ k.size = l.size
BY SetFields DEF Up

LEMMA DownFields ==
  ASSUME NEW l \in Link, NEW msgs \in Seq(DownMsg)
  PROVE  LET k == Down(l, msgs)
         IN  /\ k.down = l.down \/ k.down = l.down \o msgs
             /\ k.up = l.up /\ k.upEnd = l.upEnd /\ k.downEnd = l.downEnd
             /\ k.asked = l.asked /\ k.size = l.size
BY SetFields DEF Down

LEMMA EndingFields ==
  ASSUME NEW l \in Link
  PROVE  LET k == Ending(l)
         IN  k.up = l.up /\ k.upEnd = l.upEnd /\ k.down = l.down
             /\ k.asked = l.asked /\ k.size = l.size
BY SetFields DEF Ending

LEMMA LinkOps ==
  ASSUME NEW l \in Link
  PROVE  /\ \A msgs \in Seq(UpMsg) : Up(l, msgs) \in Link
         /\ \A msgs \in Seq(DownMsg) : Down(l, msgs) \in Link
         /\ [l EXCEPT !.upEnd = Closing(@)] \in Link
         /\ Ending(l) \in Link
         /\ l.up # <<>> => [l EXCEPT !.up = Tail(@)] \in Link
         /\ l.down # <<>> => [l EXCEPT !.down = Tail(@)] \in Link
<1>1. ASSUME NEW msgs \in Seq(UpMsg) PROVE Up(l, msgs) \in Link
  <2>1. l.up \o msgs \in Seq(UpMsg)
    BY LinkFields
  <2> QED
    BY <2>1, LinkSet DEF Up
<1>2. ASSUME NEW msgs \in Seq(DownMsg) PROVE Down(l, msgs) \in Link
  <2>1. l.down \o msgs \in Seq(DownMsg)
    BY LinkFields
  <2> QED
    BY <2>1, LinkSet DEF Down
<1>3. \A e \in End : Closing(e) \in End
  BY DEF Closing, End
<1>4. [l EXCEPT !.upEnd = Closing(@)] \in Link /\ Ending(l) \in Link
  BY <1>3, LinkFields, LinkSet DEF Ending
<1>5. l.up # <<>> => [l EXCEPT !.up = Tail(@)] \in Link
  <2>1. l.up # <<>> => Tail(l.up) \in Seq(UpMsg)
    BY LinkFields
  <2> QED
    BY <2>1, LinkSet
<1>6. l.down # <<>> => [l EXCEPT !.down = Tail(@)] \in Link
  <2>1. l.down # <<>> => Tail(l.down) \in Seq(DownMsg)
    BY LinkFields
  <2> QED
    BY <2>1, LinkSet
<1> QED
  BY <1>1, <1>2, <1>4, <1>5, <1>6

LEMMA LinkConstants ==
  /\ Fresh \in Link /\ Over \in Link
  /\ <<"header">> \in Seq(UpMsg) /\ <<"newname">> \in Seq(UpMsg)
  /\ <<"size">> \in Seq(UpMsg) /\ <<"chunk">> \in Seq(UpMsg)
  /\ <<"yes">> \in Seq(DownMsg) /\ <<"no">> \in Seq(DownMsg)
  /\ <<"yes", "yes">> \in Seq(DownMsg)
<1>1. <<"login">> \in Seq(UpMsg) /\ <<>> \in Seq(UpMsg) /\ <<>> \in Seq(DownMsg)
  BY DEF UpMsg, DownMsg
<1>2. 0 \in 0..Chunks
  BY ChunksAssumption
<1>3. Fresh \in Link
  BY <1>1, <1>2 DEF Fresh, Link, End
<1>4. Over \in Link
  BY <1>1, <1>3, LinkSet DEF Over
<1> QED
  BY <1>3, <1>4 DEF UpMsg, DownMsg

LEMMA VersionAnswer ==
  ASSUME NEW s \in Nat
  PROVE  LET msgs == <<"size">> \o [i \in 1..s |-> "chunk"] \o <<"yes">>
         IN  /\ msgs \in Seq(DownMsg)
             /\ Len(msgs) = s + 2
             /\ \A i \in 1..Len(msgs) : msgs[i] # "no"
<1> DEFINE c == [i \in 1..s |-> "chunk"]
<1>1. c \in Seq(DownMsg) /\ Len(c) = s
  <2>1. "chunk" \in DownMsg
    BY DEF DownMsg
  <2> QED
    BY <2>1
<1>2. <<"size">> \in Seq(DownMsg) /\ <<"yes">> \in Seq(DownMsg)
  BY DEF DownMsg
<1>3. \A i \in 1..s : c[i] = "chunk"
  OBVIOUS
<1> HIDE DEF c
<1> QED
  BY <1>1, <1>2, <1>3

LEMMA CutSeq ==
  ASSUME NEW T, NEW s \in Seq(T), NEW k \in Nat
  PROVE  /\ Cut(s, k) \in Seq(T)
         /\ Len(Cut(s, k)) <= Len(s)
         /\ \A i \in 1..Len(Cut(s, k)) : Cut(s, k)[i] = s[i]
<1> DEFINE m == IF k < Len(s) THEN k ELSE Len(s)
<1>1. m \in 0..Len(s)
  OBVIOUS
<1> HIDE DEF m
<1>2. SubSeq(s, 1, m) \in Seq(T) /\ Len(SubSeq(s, 1, m)) = m
      /\ \A i \in 1..m : SubSeq(s, 1, m)[i] = s[i]
  BY <1>1
<1> QED
  BY <1>1, <1>2 DEF Cut, m

(***************************************************************************)
(* Counting the answers under way.                                         *)
(***************************************************************************)
LEMMA SaidNat == \A d \in Seq(DownMsg) : Said(d) \in Nat /\ Said(d) <= Len(d) /\ Said(<<>>) = 0
BY DEF Said, Refused

LEMMA SaidTail ==
  ASSUME NEW d \in Seq(DownMsg), d # <<>>, NoIsLast(d)
  PROVE  /\ Said(d) > 0 => Said(Tail(d)) = Said(d) - 1
         /\ Said(d) = 0 => Tail(d) = <<>> /\ Head(d) = "no"
         /\ Head(d) = "no" => Tail(d) = <<>> /\ Said(d) = 0
         /\ NoIsLast(Tail(d))
         /\ Refused(Tail(d)) => Refused(d)
<1> DEFINE t == Tail(d)
<1>1. /\ t \in Seq(DownMsg) /\ Len(t) = Len(d) - 1 /\ Len(d) \in Nat \ {0} /\ Head(d) = d[1]
      /\ \A i \in 1..Len(t) : t[i] = d[i + 1]
      /\ t = <<>> <=> Len(t) = 0
  <2>1. t \in Seq(DownMsg) /\ Len(t) = Len(d) - 1 /\ Len(d) \in Nat \ {0}
    OBVIOUS
  <2>2. Head(d) = d[1]
    OBVIOUS
  <2>3. \A i \in 1..Len(t) : t[i] = d[i + 1]
    BY <2>1
  <2> HIDE DEF t
  <2>4. t = <<>> <=> Len(t) = 0
    BY <2>1, EmptySeq
  <2> QED
    BY <2>1, <2>2, <2>3, <2>4
<1> HIDE DEF t
<1>2. NoIsLast(t)
  BY <1>1 DEF NoIsLast
<1>3. Refused(t) => Refused(d)
  BY <1>1 DEF Refused
<1>4. Refused(d) /\ t # <<>> => Refused(t)
  BY <1>1 DEF Refused
<1>5. Head(d) = "no" => t = <<>> /\ Refused(d) /\ Len(d) = 1
  BY <1>1 DEF Refused, NoIsLast
<1>6. Said(d) = 0 => Refused(d) /\ Len(d) = 1
  BY <1>1 DEF Said
<1>7. Refused(d) /\ Len(d) = 1 => d[1] = "no"
  BY DEF Refused
<1> QED
  BY <1>1, <1>2, <1>3, <1>4, <1>5, <1>6, <1>7 DEF Said, t

LEMMA TailOfOne ==
  ASSUME NEW d \in Seq(DownMsg), d # <<>>, Len(d) <= 1
  PROVE  Tail(d) = <<>>
<1>1. Len(d) \in Nat /\ (Len(d) = 0 => d = <<>>)
  BY EmptySeq
<1>2. Len(d) # 0
  BY <1>1, Zenon
<1>3. Len(d) = 1
  <2>1. \A k \in Nat : k # 0 /\ k <= 1 => k = 1
    OBVIOUS
  <2> QED
    BY <1>1, <1>2, <2>1, Zenon
<1>4. Tail(d) \in Seq(DownMsg) /\ Len(Tail(d)) = 0
  BY <1>3
<1> QED
  BY <1>4, EmptySeq

LEMMA SaidMore ==
  ASSUME NEW d \in Seq(DownMsg), NEW msgs \in Seq(DownMsg), ~Refused(d), NoIsLast(d)
  PROVE  /\ Said(d \o msgs) <= Said(d) + Len(msgs)
         /\ (\A i \in 1..Len(msgs) : msgs[i] # "no")
              => NoIsLast(d \o msgs) /\ ~Refused(d \o msgs)
         /\ msgs = <<"no">> => /\ NoIsLast(d \o msgs) /\ Refused(d \o msgs)
                               /\ Said(d \o msgs) = Said(d)
<1> DEFINE e == d \o msgs
<1>1. /\ e \in Seq(DownMsg) /\ Len(e) = Len(d) + Len(msgs) /\ Len(d) \in Nat /\ Len(msgs) \in Nat
      /\ \A i \in 1..Len(e) : e[i] = IF i <= Len(d) THEN d[i] ELSE msgs[i - Len(d)]
      /\ e = <<>> <=> Len(e) = 0
      /\ d = <<>> <=> Len(d) = 0
  OBVIOUS
<1> HIDE DEF e
<1>2. \A i \in 1..Len(d) : d[i] # "no"
  BY <1>1 DEF Refused, NoIsLast
<1>3. Said(e) <= Said(d) + Len(msgs)
  BY <1>1 DEF Said
<1>4. (\A i \in 1..Len(msgs) : msgs[i] # "no") => NoIsLast(e) /\ ~Refused(e)
  <2> SUFFICES ASSUME \A i \in 1..Len(msgs) : msgs[i] # "no" PROVE NoIsLast(e) /\ ~Refused(e)
    OBVIOUS
  <2>1. ASSUME NEW i \in 1..Len(e) PROVE e[i] # "no"
    <3>1. CASE i <= Len(d)
      BY <1>1, <1>2, <3>1
    <3>2. CASE i > Len(d)
      <4>1. i - Len(d) \in 1..Len(msgs)
        BY <1>1, <3>2
      <4> QED
        BY <1>1, <3>2, <4>1
    <3> QED
      BY <1>1, <3>1, <3>2
  <2> QED
    BY <1>1, <2>1 DEF Refused, NoIsLast
<1>5. msgs = <<"no">> => NoIsLast(e) /\ Refused(e) /\ Said(e) = Said(d)
  <2> SUFFICES ASSUME msgs = <<"no">> PROVE NoIsLast(e) /\ Refused(e) /\ Said(e) = Said(d)
    OBVIOUS
  <2>1. Len(msgs) = 1 /\ msgs[1] = "no"
    OBVIOUS
  <2> QED
    BY <1>1, <1>2, <2>1 DEF Refused, NoIsLast, Said
<1> QED
  BY <1>3, <1>4, <1>5 DEF e

LEMMA SaidCut ==
  ASSUME NEW d \in Seq(DownMsg), NoIsLast(d), NEW k \in Nat
  PROVE  /\ Said(Cut(d, k)) <= Said(d)
         /\ NoIsLast(Cut(d, k))
         /\ Refused(Cut(d, k)) => Refused(d)
<1> DEFINE e == Cut(d, k)
<1>1. e \in Seq(DownMsg) /\ Len(e) <= Len(d) /\ \A i \in 1..Len(e) : e[i] = d[i]
  BY CutSeq
<1> HIDE DEF e
<1> QED
  BY <1>1 DEF Said, Refused, NoIsLast, e

-----------------------------------------------------------------------------
(***************************************************************************)
(* Types.                                                                  *)
(***************************************************************************)
LEMMA TypeParts ==
  /\ TypeOK <=> LinkType /\ WorkerType /\ SenderType /\ ActionType /\ StoreType /\ BoundsType
  /\ TypeOK' <=> LinkType' /\ WorkerType' /\ SenderType' /\ ActionType' /\ StoreType' /\ BoundsType'
BY DEF TypeOK, LinkType, WorkerType, SenderType, ActionType, StoreType, BoundsType, Link, WorkerRecord

LEMMA SameTypes ==
  /\ LinkType /\ link' = link => LinkType'
  /\ WorkerType /\ worker' = worker => WorkerType'
  /\ SenderType /\ at' = at /\ conn' = conn /\ n' = n => SenderType'
  /\ ActionType /\ left' = left /\ UNCHANGED action /\ job' = job => ActionType'
  /\ StoreType /\ UNCHANGED store /\ job' = job => StoreType'
  /\ BoundsType /\ run' = run /\ UNCHANGED bounds /\ overlaid' = overlaid => BoundsType'
BY DEF LinkType, WorkerType, SenderType, ActionType, StoreType, BoundsType, action, store, bounds

LEMMA JobOps == TypeOK => job \in SUBSET Op /\ ops \in SUBSET Op /\ left \in SUBSET Op /\ done \in SUBSET Op
BY JobsAssumption DEF TypeOK

LEMMA MineLink == TypeOK => Mine \in Link /\ Peer \in WorkerRecord /\ conn \in Conn
BY TypeParts DEF LinkType, WorkerType, SenderType, Mine, Peer

(* The steps of the sender that hold for all that listens. *)
LEMMA ListeningLink ==
  ASSUME TypeOK, Hearing
  PROVE  \E l \in Link : link' = [link EXCEPT ![conn] = l]
<1> USE JobOps, MineLink, LinkOps, LinkSet, LinkConstants DEF Goes
<1>1. Mine.down # <<>> => Taken \in Link
  BY DEF Taken
<1>2. \A m : Hears(m) => Taken \in Link
  BY <1>1 DEF Hears
<1>3. Leaves => \E l \in Link : link' = [link EXCEPT ![conn] = l]
  BY DEF Leaves
<1>4. CASE LoggedIn
  BY <1>2, <1>4 DEF LoggedIn
<1>5. CASE NotLoggedIn \/ Throws \/ NoMore \/ NothingToWrite \/ CannotRestore
  BY <1>3, <1>5 DEF NotLoggedIn, Throws, NoMore, NothingToWrite, CannotRestore
<1>6. CASE Asks
  BY <1>6 DEF Asks
<1>7. CASE Acknowledged
  BY <1>1, <1>7 DEF Acknowledged
<1>8. CASE AsksVersion \/ VersionInPlace \/ WriteSent
  BY <1>8 DEF AsksVersion, VersionInPlace, WriteSent
<1>9. CASE VersionSize \/ VersionContent \/ WriteInterrupted \/ WriteNotWanted
  BY <1>2, <1>9 DEF VersionSize, VersionContent, WriteInterrupted, WriteNotWanted
<1>10. CASE WriteSize
  BY <1>10 DEF WriteSize, Found, TypeOK
<1>11. CASE WriteChunk
  BY <1>11 DEF WriteChunk
<1>12. CASE WriteOver
  BY <1>1, <1>12 DEF WriteOver
<1>13. CASE Returns
  <2>1. <<>> \in Seq(DownMsg)
    OBVIOUS
  <2>2. PICK l : link' = [link EXCEPT ![conn] = l] /\ (l = Over \/ l = [link[conn] EXCEPT !.down = <<>>])
    BY <1>13 DEF Returns
  <2> QED
    BY <2>1, <2>2 DEF Mine
<1> QED
  BY <1>4, <1>5, <1>6, <1>7, <1>8, <1>9, <1>10, <1>11, <1>12, <1>13 DEF Hearing, Listening

LEMMA ListeningType ==
  ASSUME TypeOK, Places, Hearing, job' = job
  PROVE  at' \in {"ops", "ack", "size", "content", "sending", "inner", "drain", "idle"}
         /\ n' \in 0..Chunks /\ ActionType'
<1> USE JobOps, MineLink, TypeParts, ChunksAssumption DEF Goes, action
<1>1. Leaves => at' = "drain" /\ n' = n /\ ActionType'
  BY SameTypes DEF Leaves
<1>2. CASE LoggedIn \/ Asks \/ AsksVersion \/ WriteInterrupted \/ WriteNotWanted \/ WriteSent
  BY <1>2, SameTypes DEF LoggedIn, Asks, AsksVersion, WriteInterrupted, WriteNotWanted, WriteSent, SenderType
<1>3. CASE NotLoggedIn \/ Throws \/ NoMore \/ NothingToWrite \/ CannotRestore
  BY <1>1, <1>3 DEF NotLoggedIn, Throws, NoMore, NothingToWrite, CannotRestore, SenderType
<1>4. CASE Acknowledged
  <2>1. First[left] \in left
    BY <1>4, FirstOne DEF Acknowledged, Places
  <2>2. PICK o \in SUBSET {First[left]} : ops' = ops \ o /\ got' = got \cup o
    BY <1>4 DEF Acknowledged
  <2>3. ActionType'
    BY <1>4, <2>1, <2>2 DEF Acknowledged, ActionType
  <2> QED
    BY <1>4, <2>3 DEF Acknowledged
<1>5. CASE VersionSize \/ VersionContent
  BY <1>5, SameTypes, LinkFields DEF VersionSize, VersionContent, SenderType
<1>6. CASE VersionInPlace
  BY <1>6 DEF VersionInPlace, SenderType, ActionType
<1>7. CASE WriteSize
  BY <1>7, SameTypes DEF WriteSize
<1>8. CASE WriteChunk
  BY <1>8, SameTypes DEF WriteChunk, Places, SenderType, ActionType
<1>9. CASE WriteOver
  BY <1>9 DEF WriteOver, SenderType, ActionType
<1>10. CASE Returns
  BY <1>10 DEF Returns, ActionType
<1> QED
  BY <1>2, <1>3, <1>4, <1>5, <1>6, <1>7, <1>8, <1>9, <1>10 DEF Hearing, Listening

LEMMA SenderTypes ==
  ASSUME TypeOK, Places, Sender
  PROVE  TypeOK'
<1>1. CASE Listening /\ UNCHANGED <<worker, conn, store, run, bounds, overlaid>>
  <2>1. job' = job
    BY <1>1 DEF bounds
  <2>2. LinkType'
    BY <1>1, ListeningLink, TypeParts DEF Hearing, LinkType
  <2>3. ActionType' /\ SenderType'
    BY <1>1, <2>1, ListeningType, TypeParts DEF Hearing, SenderType
  <2> QED
    BY <1>1, <2>1, <2>2, <2>3, TypeParts, SameTypes
<1>2. ASSUME NEW c \in Conn, Connect(c) PROVE TypeOK'
  <2>1. LinkType'
    BY <1>2, TypeParts, LinkConstants DEF Connect, LinkType
  <2>2. WorkerType'
    BY <1>2, TypeParts, ChunksAssumption DEF Connect, WorkerType, WorkerRecord
  <2>3. SenderType' /\ ActionType'
    BY <1>2, TypeParts DEF Connect, SenderType, ActionType, action, bounds
  <2> QED
    BY <1>2, <2>1, <2>2, <2>3, TypeParts, SameTypes DEF Connect, bounds
<1> QED
  BY <1>1, <1>2 DEF Sender

LEMMA WorksTypes ==
  ASSUME TypeOK, NEW c \in Conn, NEW w \in WorkerRecord, NEW l \in Link, Works(c, w, l)
  PROVE  LinkType' /\ WorkerType'
BY TypeParts DEF Works, LinkType, WorkerType

LEMMA WorkerRecords ==
  ASSUME NEW w \in WorkerRecord
  PROVE  /\ [w EXCEPT !.at = "header"] \in WorkerRecord
         /\ [w EXCEPT !.at = "open"] \in WorkerRecord
         /\ [w EXCEPT !.at = "size"] \in WorkerRecord
         /\ [w EXCEPT !.at = "content"] \in WorkerRecord
         /\ [w EXCEPT !.at = "closed"] \in WorkerRecord
         /\ \A set \in SUBSET Op : [w EXCEPT !.at = "ops", !.left = set] \in WorkerRecord
         /\ \A k \in 0..Chunks : [w EXCEPT !.n = k] \in WorkerRecord
         /\ [w EXCEPT !.at = "drain", !.left = {}, !.n = 0] \in WorkerRecord
         /\ [w EXCEPT !.at = "closed", !.left = {}, !.n = 0] \in WorkerRecord
         /\ Onward(w) \in WorkerRecord
<1>1. 0 \in 0..Chunks
  BY ChunksAssumption
<1>2. /\ [w EXCEPT !.at = "header"] \in WorkerRecord
      /\ [w EXCEPT !.at = "open"] \in WorkerRecord
      /\ [w EXCEPT !.at = "size"] \in WorkerRecord
      /\ [w EXCEPT !.at = "content"] \in WorkerRecord
      /\ [w EXCEPT !.at = "closed"] \in WorkerRecord
  BY DEF WorkerRecord
<1>3. \A set \in SUBSET Op : [w EXCEPT !.at = "ops", !.left = set] \in WorkerRecord
  BY DEF WorkerRecord
<1>4. \A k \in 0..Chunks : [w EXCEPT !.n = k] \in WorkerRecord
  BY DEF WorkerRecord
<1>5. [w EXCEPT !.at = "drain", !.left = {}, !.n = 0] \in WorkerRecord
  BY <1>1 DEF WorkerRecord
<1>6. [w EXCEPT !.at = "closed", !.left = {}, !.n = 0] \in WorkerRecord
  BY <1>1 DEF WorkerRecord
<1>7. Onward(w) \in WorkerRecord
  BY <1>1 DEF WorkerRecord, Onward
<1> QED
  BY <1>2, <1>3, <1>4, <1>5, <1>6, <1>7

LEMMA AskedOne ==
  ASSUME TypeOK, NEW c \in Conn, Asked(c) # "none"
  PROVE  /\ worker[c].at = "ops" /\ worker[c].left # {}
         /\ Asked(c) = First[worker[c].left]
         /\ Asked(c) \in worker[c].left /\ Asked(c) \in Op
         /\ \A p \in worker[c].left : Rank[Asked(c)] <= Rank[p]
<1>1. worker[c].left \in SUBSET Op
  BY TypeParts DEF WorkerType, WorkerRecord
<1> QED
  BY <1>1, FirstOne DEF Asked

LEMMA WorkerChanges ==
  ASSUME TypeOK, NEW c \in Conn, Worker(c)
  PROVE  \E w2 \in WorkerRecord, l2 \in Link : Works(c, w2, l2)
<1> DEFINE w == worker[c]
           l == link[c]
<1>a. w \in WorkerRecord /\ l \in Link
  BY TypeParts DEF WorkerType, LinkType
<1>b. /\ Ending(l) \in Link
      /\ \A msgs \in Seq(DownMsg) : Down(l, msgs) \in Link /\ Ending(Down(l, msgs)) \in Link
      /\ \A m : Told(c, m) => /\ Heard(c) \in Link
                              /\ Ending(Heard(c)) \in Link
                              /\ \A msgs \in Seq(DownMsg) : Down(Heard(c), msgs) \in Link
  BY <1>a, LinkOps DEF Told, Heard
<1> USE <1>a
<1> HIDE DEF w, l
<1>1. CASE Login(c)
  <2>1. Told(c, "login") /\ Works(c, [w EXCEPT !.at = "header"], Down(Heard(c), <<"yes">>))
    BY <1>1 DEF Login, w
  <2> QED
    BY <2>1, <1>b, WorkerRecords, LinkConstants
<1>2. CASE Header(c)
  <2>1. Told(c, "header") /\ Works(c, [w EXCEPT !.at = "ops", !.left = l.asked], [Heard(c) EXCEPT !.asked = {}])
    BY <1>2 DEF Header, w, l
  <2>2. l.asked \in SUBSET Op /\ [Heard(c) EXCEPT !.asked = {}] \in Link
    BY <2>1, <1>b, LinkSet, LinkFields
  <2> QED
    BY <2>1, <2>2, WorkerRecords
<1>3. CASE Performs(c)
  <2>1. PICK k \in Link : Works(c, Onward(w), Down(k, <<"yes">>))
    BY <1>3, <1>b DEF Performs, Renames, w, l
  <2>2. Down(k, <<"yes">>) \in Link
    BY <2>1, LinkOps, LinkConstants
  <2> QED
    BY <2>1, <2>2, WorkerRecords
<1>4. CASE SendsVersion(c)
  <2>1. PICK s \in {0, Chunks} :
          Works(c, Onward(w), [Down(l, <<"size">> \o [i \in 1..s |-> "chunk"] \o <<"yes">>) EXCEPT !.size = s])
    BY <1>4 DEF SendsVersion, w, l
  <2>2. s \in Nat /\ s \in 0..Chunks
    BY ChunksAssumption, SMT
  <2>3. Down(l, <<"size">> \o [i \in 1..s |-> "chunk"] \o <<"yes">>) \in Link
    BY <2>2, <1>b, VersionAnswer
  <2>4. [Down(l, <<"size">> \o [i \in 1..s |-> "chunk"] \o <<"yes">>) EXCEPT !.size = s] \in Link
    BY <2>2, <2>3, LinkSet
  <2> QED
    BY <2>1, <2>4, WorkerRecords
<1>5. CASE WriteKnown(c) \/ WriteCommits(c)
  <2>1. Works(c, Onward(w), Down(l, <<"yes", "yes">>))
    BY <1>5 DEF WriteKnown, WriteCommits, w, l
  <2> QED
    BY <2>1, <1>b, WorkerRecords, LinkConstants
<1>6. CASE WriteNew(c)
  BY <1>6, WorkerRecords DEF WriteNew, w, l
<1>7. CASE WriteOpen(c)
  BY <1>7, WorkerRecords DEF WriteOpen, w, l
<1>8. CASE ReadSize(c)
  <2>1. Told(c, "size") /\ Works(c, [w EXCEPT !.at = "content"], Heard(c))
    BY <1>8 DEF ReadSize, w, l
  <2> QED
    BY <2>1, <1>b, WorkerRecords
<1>9. CASE ReadContent(c)
  <2>1. Told(c, "chunk") /\ Works(c, [w EXCEPT !.n = w.n + 1], Heard(c)) /\ w.n < l.size
    BY <1>9 DEF ReadContent, w, l
  <2>2. w.n \in 0..Chunks /\ l.size \in 0..Chunks
    BY LinkFields DEF WorkerRecord
  <2>3. w.n + 1 \in 0..Chunks
    BY <2>1, <2>2, ChunksAssumption
  <2> QED
    BY <2>1, <2>3, <1>b, WorkerRecords
<1>10. CASE Refuses(c)
  <2>1. Works(c, [w EXCEPT !.at = "drain", !.left = {}, !.n = 0], Ending(Down(l, <<"no">>)))
    BY <1>10 DEF Refuses, CannotDo, Ends, w, l
  <2> QED
    BY <2>1, <1>b, WorkerRecords, LinkConstants
<1>11. CASE HangsUp(c) \/ AllDone(c)
  <2>1. Works(c, [w EXCEPT !.at = "drain", !.left = {}, !.n = 0], Ending(l))
    BY <1>11 DEF HangsUp, AllDone, Ends, w, l
  <2> QED
    BY <2>1, <1>b, WorkerRecords
<1>12. CASE Closes(c)
  <2>1. PICK k : /\ Works(c, [w EXCEPT !.at = "closed"], k)
                 /\ k = Over \/ k = [l EXCEPT !.up = <<>>]
    BY <1>12 DEF Closes, w, l
  <2>2. <<>> \in Seq(UpMsg)
    BY EmptySeq
  <2>3. k \in Link
    BY <2>1, <2>2, LinkSet, LinkConstants
  <2> QED
    BY <2>1, <2>3, WorkerRecords
<1> QED
  BY <1>1, <1>2, <1>3, <1>4, <1>5, <1>6, <1>7, <1>8, <1>9, <1>10, <1>11, <1>12 DEF Worker

(***************************************************************************)
(* A worker does what the client asks, and the client asks only what is in *)
(* its action.                                                             *)
(***************************************************************************)
LEMMA WorkerTypes ==
  ASSUME TypeOK, NEW c \in Conn, Worker(c), done' \subseteq job
  PROVE  TypeOK'
<1> DEFINE w == worker[c]
           l == link[c]
<1>1. w \in WorkerRecord /\ l \in Link
  BY TypeParts DEF WorkerType, LinkType
<1>3. SenderType' /\ ActionType'
  BY TypeParts, SameTypes DEF Worker, sender
<1>4. \E w2 \in WorkerRecord, l2 \in Link : Works(c, w2, l2)
  BY WorkerChanges
<1>5. blob' \subseteq 1..Chunks
  <2>1. CASE ReadContent(c)
    <3>1. w.n \in 0..Chunks /\ l.size \in 0..Chunks
      BY <1>1, LinkFields DEF WorkerRecord
    <3>2. w.n + 1 \in 1..Chunks
      BY <2>1, <3>1, ChunksAssumption DEF ReadContent
    <3> QED
      BY <2>1, <3>2, TypeParts DEF ReadContent, StoreType
  <2>2. CASE blob' \in {blob, {}}
    BY <2>2, TypeParts DEF StoreType
  <2> QED
    BY <2>1, <2>2
       DEF Worker, Login, Header, Performs, SendsVersion, WriteKnown, WriteNew, WriteOpen, ReadSize,
           WriteCommits, Refuses, CannotDo, HangsUp, AllDone, Closes, store
<1>6. size' \in 0..Chunks
  <2>1. size' = size \/ size' = l.size
    BY DEF Worker, Login, Header, Performs, SendsVersion, WriteKnown, WriteNew, WriteOpen, ReadSize,
           ReadContent, WriteCommits, Refuses, CannotDo, HangsUp, AllDone, Closes, store
  <2> QED
    BY <1>1, <2>1, TypeParts, LinkFields DEF StoreType
<1>7. refusals' \in 0..MaxRefusals
  <2>1. refusals' = refusals \/ (refusals < MaxRefusals /\ refusals' = refusals + 1)
    BY DEF Worker, Login, Header, Performs, SendsVersion, WriteKnown, WriteNew, WriteOpen, ReadSize,
           ReadContent, WriteCommits, Refuses, CannotDo, HangsUp, AllDone, Closes
  <2>2. refusals \in 0..MaxRefusals
    BY TypeParts DEF BoundsType
  <2> QED
    BY <2>1, <2>2, BoundAssumption
<1>8. overlaid' \in BOOLEAN
  <2>1. overlaid \in BOOLEAN
    BY TypeParts DEF BoundsType
  <2> QED
    BY <2>1
       DEF Worker, Login, Header, Performs, SendsVersion, WriteKnown, WriteNew, WriteOpen, ReadSize,
           ReadContent, WriteCommits, Refuses, CannotDo, HangsUp, AllDone, Closes
<1> QED
  <2>1. LinkType' /\ WorkerType'
    BY <1>4, WorksTypes
  <2>2. StoreType'
    BY <1>5, <1>6 DEF Worker, StoreType
  <2>3. BoundsType'
    BY <1>7, <1>8, TypeParts DEF Worker, BoundsType
  <2> QED
    BY <1>3, <2>1, <2>2, <2>3, TypeParts

LEMMA BefallsTypes ==
  ASSUME TypeOK, Befalls
  PROVE  TypeOK'
<1>1. failures \in 0..MaxFailures /\ (Failure => failures' \in 0..MaxFailures)
  BY TypeParts, BoundAssumption DEF BoundsType, Failure
<1>2. ASSUME NEW c \in Conn, Break(c) PROVE TypeOK'
  <2>1. PICK i \in Nat, j \in Nat :
          link' = [link EXCEPT ![c].up = Cut(@, i), ![c].down = Cut(@, j),
                               ![c].upEnd = "reset", ![c].downEnd = "reset"]
    <3>1. link[c].up \in Seq(UpMsg) /\ link[c].down \in Seq(DownMsg)
      BY TypeParts, LinkFields DEF LinkType
    <3>2. 0..Len(link[c].up) \subseteq Nat /\ 0..Len(link[c].down) \subseteq Nat
      BY <3>1
    <3> QED
      BY <1>2, <3>2 DEF Break
  <2>2. Cut(link[c].up, i) \in Seq(UpMsg) /\ Cut(link[c].down, j) \in Seq(DownMsg)
    BY TypeParts, LinkFields, CutSeq DEF LinkType
  <2>3. LinkType'
    <3>1. link[c] \in Link
      BY TypeParts DEF LinkType
    <3>2. [link[c] EXCEPT !.up = Cut(@, i), !.down = Cut(@, j), !.upEnd = "reset", !.downEnd = "reset"] \in Link
      BY <2>2, <3>1 DEF Link, End
    <3> QED
      BY <2>1, <3>2, TypeParts DEF LinkType
  <2> QED
    BY <1>1, <1>2, <2>3, TypeParts, SameTypes DEF Break, sender, store, action, BoundsType
<1>3. ASSUME NEW c \in Conn, ReadsShort(c) PROVE TypeOK'
  <2>1. link[c] \in Link /\ worker[c] \in WorkerRecord /\ link[c].up # <<>>
    BY <1>3, TypeParts DEF ReadsShort, Renames, Told, LinkType, WorkerType
  <2>2. Ending(Heard(c)) \in Link
    BY <2>1, LinkOps DEF Heard
  <2>3. LinkType' /\ WorkerType'
    BY <1>3, <2>1, <2>2, WorkerRecords, WorksTypes DEF ReadsShort, Ends
  <2> QED
    BY <1>1, <1>3, <2>3, TypeParts, SameTypes DEF ReadsShort, sender, store, action, BoundsType
<1>4. CASE Killed
  <2>0. ServerEnds
    BY <1>4 DEF Killed, ServerKilled, Terminates
  <2>1. WorkerType'
    BY <2>0, TypeParts, WorkerRecords DEF ServerEnds, WorkerType
  <2>2. PICK j \in Nat, end \in {"eof", "reset"} :
       link' = [c \in Conn |->
                  IF at = "idle" \/ c # conn THEN Over
                  ELSE [link[c] EXCEPT !.up = <<>>, !.upEnd = "reset", !.down = Cut(@, j),
                                       !.downEnd = IF @ = "open" THEN end ELSE @]]
    <3>1. 0..(Chunks + 2) \subseteq Nat
      BY ChunksAssumption
    <3> QED
      BY <2>0, <3>1 DEF ServerEnds
  <2>3. LinkType'
    <3>1. ASSUME NEW l \in Link
          PROVE  [l EXCEPT !.up = <<>>, !.upEnd = "reset", !.down = Cut(@, j),
                           !.downEnd = IF @ = "open" THEN end ELSE @] \in Link
      <4>1. Cut(l.down, j) \in Seq(DownMsg)
        BY LinkFields, CutSeq
      <4>2. <<>> \in Seq(UpMsg)
        BY EmptySeq
      <4> QED
        BY <4>1, <4>2 DEF Link, End
    <3> QED
      BY <2>2, <3>1, TypeParts, LinkConstants DEF LinkType
  <2>4. failures' \in 0..MaxFailures /\ refusals' \in 0..MaxRefusals /\ serving' \in BOOLEAN
    <3>1. refusals \in 0..MaxRefusals /\ failures \in 0..MaxFailures /\ serving \in BOOLEAN
      BY TypeParts DEF BoundsType
    <3>2. CASE ServerKilled
      BY <1>1, <3>1, <3>2 DEF ServerKilled
    <3>3. ASSUME NEW c \in Conn, Terminates(c)
          PROVE  failures' \in 0..MaxFailures /\ refusals' \in 0..MaxRefusals /\ serving' \in BOOLEAN
      <4>1. refusals' = refusals \/ (refusals < MaxRefusals /\ refusals' = refusals + 1)
        BY <3>3 DEF Terminates, CannotDo
      <4>2. refusals' \in 0..MaxRefusals
        BY <3>1, <4>1, BoundAssumption
      <4> QED
        BY <3>1, <3>3, <4>2 DEF Terminates
    <3> QED
      BY <1>4, <3>2, <3>3 DEF Killed
  <2>5. BoundsType'
    BY <2>0, <2>4, TypeParts DEF ServerEnds, BoundsType
  <2> QED
    BY <2>0, <2>1, <2>3, <2>5, TypeParts, SameTypes DEF ServerEnds, sender, store, action
<1>5. CASE ClientDies
  <2>1. LinkType'
    <3>1. PICK l : link' = [link EXCEPT ![conn] = l] /\
             \/ l = Over
             \/ \E end \in {"eof", "reset"} :
                  l = [link[conn] EXCEPT !.upEnd = IF @ = "open" THEN end ELSE @,
                                         !.down = <<>>, !.downEnd = "reset"]
      <4>1. CASE worker[conn].at = "closed"
        BY <1>5, <4>1 DEF ClientDies
      <4>2. CASE worker[conn].at # "closed"
        <5> DEFINE K(end) == [link[conn] EXCEPT !.upEnd = IF @ = "open" THEN end ELSE @,
                                                !.down = <<>>, !.downEnd = "reset"]
        <5>1. PICK end \in {"eof", "reset"} :
                link' = [link EXCEPT ![conn] = IF worker[conn].at = "closed" THEN Over ELSE K(end)]
          BY <1>5 DEF ClientDies
        <5>2. link' = [link EXCEPT ![conn] = K(end)] /\ K(end) = K(end)
          <6> HIDE DEF K
          <6> QED
            BY <4>2, <5>1
        <5> QED
          BY <5>2
      <4> QED
        BY <4>1, <4>2
    <3>2. <<>> \in Seq(DownMsg) /\ link[conn] \in Link
      BY EmptySeq, MineLink DEF Mine
    <3>3. l \in Link
      BY <3>1, <3>2, LinkConstants DEF Link, End
    <3> QED
      BY <3>1, <3>3, TypeParts DEF LinkType
  <2>2. SenderType' /\ ActionType'
    BY <1>5, TypeParts, ChunksAssumption DEF ClientDies, SenderType, ActionType
  <2> QED
    BY <1>1, <1>5, <2>1, <2>2, TypeParts, SameTypes DEF ClientDies, store, BoundsType
<1>6. CASE Stop
  BY <1>6, TypeParts, SameTypes DEF Stop, sender, store, action, bounds, BoundsType
<1>7. CASE Shrink
  <2>1. temp' \in 0..Chunks
    BY <1>7, ChunksAssumption DEF Shrink
  <2> QED
    BY <1>7, <2>1, TypeParts, SameTypes DEF Shrink, store, action, SenderType, ActionType, BoundsType
<1>8. CASE CannotRestore
  <2>1. LinkType'
    BY <1>8, ListeningLink, TypeParts DEF LinkType, Hearing
  <2>2. at' = "drain" /\ n' = n /\ conn' = conn /\ UNCHANGED <<left, action>>
    BY <1>8 DEF CannotRestore, Leaves, Goes
  <2> QED
    BY <1>1, <1>8, <2>1, <2>2, TypeParts, SameTypes DEF CannotRestore, SenderType, BoundsType
<1> QED
  BY <1>2, <1>3, <1>4, <1>5, <1>6, <1>7, <1>8 DEF Befalls, Killed

-----------------------------------------------------------------------------
(***************************************************************************)
(* Requests.                                                               *)
(***************************************************************************)
LEMMA StoresAsked ==
  ASSUME TypeOK, Workers, NEW c \in Conn, Worker(c)
  PROVE  done' \subseteq done \cup worker[c].left /\ done \subseteq done'
<1>1. CASE Performs(c)
  BY <1>1, AskedOne DEF Performs, Renames
<1>2. CASE SendsVersion(c)
  BY <1>2, AskedOne DEF SendsVersion
<1>3. CASE WriteCommits(c)
  BY <1>3 DEF WriteCommits, Workers
<1> QED
  BY <1>1, <1>2, <1>3
     DEF Worker, Login, Header, WriteKnown, WriteNew, WriteOpen, ReadSize, ReadContent, Refuses, CannotDo,
         HangsUp, AllDone, Closes, store

-----------------------------------------------------------------------------
(***************************************************************************)
(* What each step of a worker does to its connection.                      *)
(***************************************************************************)
Becomes(c, place, set, k) ==
  worker'[c].at = place /\ worker'[c].left = set /\ worker'[c].n = k

Answered(c, msgs) ==
  link'[c].down = link[c].down \/ link'[c].down = link[c].down \o msgs

Reads(c) == NoHeader(link[c].up) => NoHeader(link'[c].up)

SameSize(c) == link'[c].size = link[c].size

OthersSame(c) ==
  /\ \A d \in Conn : d # c => link'[d] = link[d] /\ worker'[d] = worker[d]
  /\ link'[c].asked \subseteq link[c].asked

LEMMA WorksSets ==
  ASSUME TypeOK, NEW c \in Conn, NEW w, NEW l, Works(c, w, l)
  PROVE  /\ worker'[c] = w /\ link'[c] = l
         /\ \A d \in Conn : d # c => link'[d] = link[d] /\ worker'[d] = worker[d]
BY TypeParts DEF Works, LinkType, WorkerType

LEMMA RecordFields ==
  ASSUME NEW w \in WorkerRecord, NEW place, NEW set, NEW k
  PROVE  /\ [w EXCEPT !.at = place].at = place /\ [w EXCEPT !.at = place].left = w.left
         /\ [w EXCEPT !.at = place].n = w.n
         /\ [w EXCEPT !.n = k].at = w.at /\ [w EXCEPT !.n = k].left = w.left
         /\ [w EXCEPT !.n = k].n = k
         /\ [w EXCEPT !.at = place, !.left = set].at = place
         /\ [w EXCEPT !.at = place, !.left = set].left = set
         /\ [w EXCEPT !.at = place, !.left = set].n = w.n
         /\ [w EXCEPT !.at = place, !.left = set, !.n = k].at = place
         /\ [w EXCEPT !.at = place, !.left = set, !.n = k].left = set
         /\ [w EXCEPT !.at = place, !.left = set, !.n = k].n = k
         /\ Onward(w).at = "ops" /\ Onward(w).left = w.left \ {First[w.left]} /\ Onward(w).n = 0
         /\ w.left \in SUBSET Op /\ w.n \in 0..Chunks
BY DEF WorkerRecord, Onward

LEMMA TailReads ==
  ASSUME NEW u \in Seq(UpMsg), u # <<>>, NoHeader(u)
  PROVE  NoHeader(Tail(u))
BY DEF NoHeader

LEMMA HeardFields ==
  ASSUME TypeOK, NEW c \in Conn, link[c].up # <<>>
  PROVE  LET k == Heard(c)
         IN  /\ k \in Link
             /\ k.up = Tail(link[c].up)
             /\ k.down = link[c].down /\ k.asked = link[c].asked /\ k.size = link[c].size
             /\ NoHeader(link[c].up) => NoHeader(k.up)
<1>1. link[c] \in Link /\ link[c].up \in Seq(UpMsg)
  BY TypeParts, LinkFields DEF LinkType
<1>2. Heard(c) = [link[c] EXCEPT !.up = Tail(link[c].up)] /\ Heard(c) \in Link
  BY <1>1, LinkOps DEF Heard
<1>3. NoHeader(link[c].up) => NoHeader(Tail(link[c].up))
  BY <1>1, TailReads
<1> QED
  BY <1>1, <1>2, <1>3, SetFields

LEMMA EndsEffect ==
  ASSUME TypeOK, NEW c \in Conn, NEW l \in Link, Ends(c, l)
  PROVE  /\ Becomes(c, "drain", {}, 0)
         /\ link'[c].down = l.down /\ link'[c].up = l.up
         /\ link'[c].asked = l.asked /\ link'[c].size = l.size
         /\ \A d \in Conn : d # c => link'[d] = link[d] /\ worker'[d] = worker[d]
<1>1. worker[c] \in WorkerRecord
  BY TypeParts DEF WorkerType
<1>2. worker'[c] = [worker[c] EXCEPT !.at = "drain", !.left = {}, !.n = 0] /\ link'[c] = Ending(l)
      /\ \A d \in Conn : d # c => link'[d] = link[d] /\ worker'[d] = worker[d]
  BY WorksSets DEF Ends
<1> QED
  BY <1>1, <1>2, RecordFields, EndingFields DEF Becomes

LEMMA WorkerEffects ==
  ASSUME TypeOK, NEW c \in Conn
  PROVE  LET w == worker[c]
         IN  /\ Login(c) => /\ Becomes(c, "header", w.left, w.n) /\ OthersSame(c) /\ Reads(c)
                            /\ Answered(c, <<"yes">>) /\ SameSize(c)
             /\ Header(c) => /\ Becomes(c, "ops", link[c].asked, w.n) /\ OthersSame(c) /\ Reads(c)
                             /\ link'[c].down = link[c].down /\ SameSize(c)
             /\ Performs(c) => /\ Becomes(c, "ops", w.left \ {First[w.left]}, 0)
                               /\ OthersSame(c) /\ Reads(c) /\ Answered(c, <<"yes">>) /\ SameSize(c)
             /\ SendsVersion(c) => /\ Becomes(c, "ops", w.left \ {First[w.left]}, 0)
                                   /\ OthersSame(c) /\ Reads(c)
                                   /\ \E s \in 0..Chunks, msgs \in Seq(DownMsg) :
                                        /\ link'[c].size = s /\ Len(msgs) = s + 2
                                        /\ \A i \in 1..Len(msgs) : msgs[i] # "no"
                                        /\ Answered(c, msgs)
             /\ WriteKnown(c) \/ WriteCommits(c) =>
                  /\ Becomes(c, "ops", w.left \ {First[w.left]}, 0) /\ OthersSame(c) /\ Reads(c)
                  /\ Answered(c, <<"yes", "yes">>) /\ SameSize(c)
<1> DEFINE w == worker[c]
           l == link[c]
<1>1. w \in WorkerRecord /\ l \in Link
  BY TypeParts DEF WorkerType, LinkType
<1> USE DEF Becomes, Answered, SameSize, OthersSame, Reads
<1>2. ASSUME Login(c)
      PROVE  /\ Becomes(c, "header", w.left, w.n) /\ OthersSame(c) /\ Reads(c)
             /\ Answered(c, <<"yes">>) /\ SameSize(c)
  <2>1. /\ l.up # <<>> /\ worker'[c] = [w EXCEPT !.at = "header"]
        /\ link'[c] = Down(Heard(c), <<"yes">>)
        /\ \A d \in Conn : d # c => link'[d] = link[d] /\ worker'[d] = worker[d]
    BY <1>2, WorksSets DEF Login, Told
  <2>2. worker'[c].at = "header" /\ worker'[c].left = w.left /\ worker'[c].n = w.n
    BY <1>1, <2>1, RecordFields
  <2>3. Heard(c) \in Link /\ <<"yes">> \in Seq(DownMsg)
    BY <2>1, HeardFields, LinkConstants
  <2>4a. LET k2 == Down(Heard(c), <<"yes">>)
         IN  /\ k2.down \in {Heard(c).down, Heard(c).down \o <<"yes">>}
             /\ k2.up = Heard(c).up /\ k2.asked = Heard(c).asked /\ k2.size = Heard(c).size
    BY <2>3, DownFields
  <2>4. /\ link'[c].down \in {Heard(c).down, Heard(c).down \o <<"yes">>} /\ link'[c].up = Heard(c).up
        /\ link'[c].asked = Heard(c).asked /\ link'[c].size = Heard(c).size
    BY <2>1, <2>4a
  <2> QED
    BY <2>1, <2>2, <2>4, HeardFields
<1>3. ASSUME Header(c)
      PROVE  /\ Becomes(c, "ops", link[c].asked, w.n) /\ OthersSame(c) /\ Reads(c)
             /\ link'[c].down = link[c].down /\ SameSize(c)
  <2>1. /\ l.up # <<>> /\ worker'[c] = [w EXCEPT !.at = "ops", !.left = l.asked]
        /\ link'[c] = [Heard(c) EXCEPT !.asked = {}]
        /\ \A d \in Conn : d # c => link'[d] = link[d] /\ worker'[d] = worker[d]
    BY <1>3, WorksSets DEF Header, Told
  <2>2. worker'[c].at = "ops" /\ worker'[c].left = l.asked /\ worker'[c].n = w.n
    BY <1>1, <2>1, RecordFields
  <2> QED
    BY <2>1, <2>2, HeardFields, SetFields
<1>4. ASSUME Performs(c)
      PROVE  /\ Becomes(c, "ops", w.left \ {First[w.left]}, 0)
             /\ OthersSame(c) /\ Reads(c) /\ Answered(c, <<"yes">>) /\ SameSize(c)
  <2>1. PICK k : /\ k = link[c] \/ (link[c].up # <<>> /\ k = Heard(c))
                 /\ Works(c, Onward(w), Down(k, <<"yes">>))
    BY <1>4 DEF Performs, Renames, Told
  <2>2. /\ worker'[c] = Onward(w) /\ link'[c] = Down(k, <<"yes">>)
        /\ \A d \in Conn : d # c => link'[d] = link[d] /\ worker'[d] = worker[d]
    BY <2>1, WorksSets
  <2>3. worker'[c].at = "ops" /\ worker'[c].left = w.left \ {First[w.left]} /\ worker'[c].n = 0
    BY <1>1, <2>2, RecordFields
  <2>4. /\ k \in Link /\ k.down = l.down /\ k.asked = l.asked /\ k.size = l.size
        /\ NoHeader(l.up) => NoHeader(k.up)
    BY <1>1, <2>1, HeardFields
  <2>5. <<"yes">> \in Seq(DownMsg)
    BY LinkConstants
  <2>6a. LET k2 == Down(k, <<"yes">>)
         IN  /\ k2.down \in {k.down, k.down \o <<"yes">>}
             /\ k2.up = k.up /\ k2.asked = k.asked /\ k2.size = k.size
    BY <2>4, <2>5, DownFields
  <2>6. /\ link'[c].down \in {k.down, k.down \o <<"yes">>} /\ link'[c].up = k.up
        /\ link'[c].asked = k.asked /\ link'[c].size = k.size
    BY <2>2, <2>6a
  <2> QED
    BY <2>2, <2>3, <2>4, <2>6
<1>5. ASSUME SendsVersion(c)
      PROVE  /\ Becomes(c, "ops", w.left \ {First[w.left]}, 0)
             /\ OthersSame(c) /\ Reads(c)
             /\ \E s \in 0..Chunks, msgs \in Seq(DownMsg) :
                  /\ link'[c].size = s /\ Len(msgs) = s + 2
                  /\ \A i \in 1..Len(msgs) : msgs[i] # "no"
                  /\ Answered(c, msgs)
  <2>1. PICK s \in {0, Chunks} :
          Works(c, Onward(w), [Down(l, <<"size">> \o [i \in 1..s |-> "chunk"] \o <<"yes">>) EXCEPT !.size = s])
    BY <1>5 DEF SendsVersion
  <2> DEFINE msgs == <<"size">> \o [i \in 1..s |-> "chunk"] \o <<"yes">>
  <2>2. s \in Nat /\ s \in 0..Chunks
    BY ChunksAssumption, SMT
  <2>3. msgs \in Seq(DownMsg) /\ Len(msgs) = s + 2 /\ \A i \in 1..Len(msgs) : msgs[i] # "no"
    BY <2>2, VersionAnswer
  <2>4. /\ worker'[c] = Onward(w) /\ link'[c] = [Down(l, msgs) EXCEPT !.size = s]
        /\ \A d \in Conn : d # c => link'[d] = link[d] /\ worker'[d] = worker[d]
    BY <2>1, WorksSets
  <2> HIDE DEF msgs
  <2>5. worker'[c].at = "ops" /\ worker'[c].left = w.left \ {First[w.left]} /\ worker'[c].n = 0
    BY <1>1, <2>4, RecordFields
  <2>6. Down(l, msgs) \in Link
    BY <1>1, <2>3, LinkOps
  <2>7. /\ link'[c].down = Down(l, msgs).down /\ link'[c].size = s
        /\ link'[c].asked = l.asked /\ link'[c].up = l.up
    BY <1>1, <2>3, <2>4, <2>6, SetFields, DownFields
  <2>8. Answered(c, msgs)
    BY <1>1, <2>3, <2>7, DownFields
  <2> QED
    BY <2>2, <2>3, <2>4, <2>5, <2>7, <2>8
<1>6. ASSUME WriteKnown(c) \/ WriteCommits(c)
      PROVE  /\ Becomes(c, "ops", w.left \ {First[w.left]}, 0) /\ OthersSame(c) /\ Reads(c)
             /\ Answered(c, <<"yes", "yes">>) /\ SameSize(c)
  <2>1. /\ worker'[c] = Onward(w) /\ link'[c] = Down(l, <<"yes", "yes">>)
        /\ \A d \in Conn : d # c => link'[d] = link[d] /\ worker'[d] = worker[d]
    BY <1>6, WorksSets DEF WriteKnown, WriteCommits
  <2>2. worker'[c].at = "ops" /\ worker'[c].left = w.left \ {First[w.left]} /\ worker'[c].n = 0
    BY <1>1, <2>1, RecordFields
  <2>3. <<"yes", "yes">> \in Seq(DownMsg)
    BY LinkConstants
  <2>4a. LET k2 == Down(l, <<"yes", "yes">>)
         IN  /\ k2.down \in {l.down, l.down \o <<"yes", "yes">>}
             /\ k2.up = l.up /\ k2.asked = l.asked /\ k2.size = l.size
    BY <1>1, <2>3, DownFields
  <2>4. /\ link'[c].down \in {l.down, l.down \o <<"yes", "yes">>} /\ link'[c].up = l.up
        /\ link'[c].asked = l.asked /\ link'[c].size = l.size
    BY <2>1, <2>4a
  <2> QED
    BY <2>1, <2>2, <2>4
<1> QED
  BY <1>2, <1>3, <1>4, <1>5, <1>6

LEMMA WriterEffects ==
  ASSUME TypeOK, NEW c \in Conn
  PROVE  LET w == worker[c]
         IN  /\ WriteNew(c) \/ WriteOpen(c) =>
                  /\ Becomes(c, IF w.at = "open" THEN "size" ELSE "open", w.left, w.n)
                  /\ OthersSame(c) /\ Reads(c) /\ link'[c].down = link[c].down /\ SameSize(c)
             /\ ReadSize(c) =>
                  /\ Becomes(c, "content", w.left, w.n)
                  /\ OthersSame(c) /\ Reads(c) /\ link'[c].down = link[c].down /\ SameSize(c)
             /\ ReadContent(c) =>
                  /\ Becomes(c, "content", w.left, w.n + 1)
                  /\ OthersSame(c) /\ Reads(c) /\ link'[c].down = link[c].down /\ SameSize(c)
             /\ Refuses(c) => /\ Becomes(c, "drain", {}, 0)
                              /\ OthersSame(c) /\ Reads(c) /\ Answered(c, <<"no">>) /\ SameSize(c)
             /\ HangsUp(c) \/ AllDone(c) =>
                  /\ Becomes(c, "drain", {}, 0)
                  /\ OthersSame(c) /\ Reads(c) /\ link'[c].down = link[c].down /\ SameSize(c)
             /\ Closes(c) => /\ Becomes(c, "closed", w.left, w.n) /\ OthersSame(c) /\ Reads(c)
                             /\ at # "idle" /\ c = conn =>
                                  link'[c].down = link[c].down /\ SameSize(c)
<1> DEFINE w == worker[c]
           l == link[c]
<1>1. w \in WorkerRecord /\ l \in Link
  BY TypeParts DEF WorkerType, LinkType
<1> USE DEF Becomes, Answered, SameSize, OthersSame, Reads
<1>2. ASSUME WriteNew(c) \/ WriteOpen(c)
      PROVE  /\ Becomes(c, IF w.at = "open" THEN "size" ELSE "open", w.left, w.n)
             /\ OthersSame(c) /\ Reads(c) /\ link'[c].down = link[c].down /\ SameSize(c)
  <2>1. /\ worker'[c] = [w EXCEPT !.at = IF w.at = "open" THEN "size" ELSE "open"] /\ link'[c] = l
        /\ \A d \in Conn : d # c => link'[d] = link[d] /\ worker'[d] = worker[d]
    BY <1>2, WorksSets DEF WriteNew, WriteOpen, Asked
  <2> QED
    BY <1>1, <2>1, RecordFields
<1>3. ASSUME ReadSize(c)
      PROVE  /\ Becomes(c, "content", w.left, w.n)
             /\ OthersSame(c) /\ Reads(c) /\ link'[c].down = link[c].down /\ SameSize(c)
  <2>1. /\ l.up # <<>> /\ worker'[c] = [w EXCEPT !.at = "content"] /\ link'[c] = Heard(c)
        /\ \A d \in Conn : d # c => link'[d] = link[d] /\ worker'[d] = worker[d]
    BY <1>3, WorksSets DEF ReadSize, Told
  <2> QED
    BY <1>1, <2>1, RecordFields, HeardFields
<1>4. ASSUME ReadContent(c)
      PROVE  /\ Becomes(c, "content", w.left, w.n + 1)
             /\ OthersSame(c) /\ Reads(c) /\ link'[c].down = link[c].down /\ SameSize(c)
  <2>1. /\ l.up # <<>> /\ worker'[c] = [w EXCEPT !.n = w.n + 1] /\ link'[c] = Heard(c)
        /\ w.at = "content"
        /\ \A d \in Conn : d # c => link'[d] = link[d] /\ worker'[d] = worker[d]
    BY <1>4, WorksSets DEF ReadContent, Told
  <2> QED
    BY <1>1, <2>1, RecordFields, HeardFields
<1>5. ASSUME Refuses(c)
      PROVE  /\ Becomes(c, "drain", {}, 0)
             /\ OthersSame(c) /\ Reads(c) /\ Answered(c, <<"no">>) /\ SameSize(c)
  <2>1. Ends(c, Down(l, <<"no">>)) /\ Down(l, <<"no">>) \in Link
    BY <1>1, <1>5, LinkOps, LinkConstants DEF Refuses
  <2>2. <<"no">> \in Seq(DownMsg)
    BY LinkConstants
  <2>3. LET k == Down(l, <<"no">>)
        IN  k.down \in {l.down, l.down \o <<"no">>} /\ k.up = l.up /\ k.asked = l.asked /\ k.size = l.size
    BY <1>1, <2>2, DownFields
  <2>4. LET k == Down(l, <<"no">>)
        IN  /\ Becomes(c, "drain", {}, 0)
            /\ link'[c].down = k.down /\ link'[c].up = k.up
            /\ link'[c].asked = k.asked /\ link'[c].size = k.size
            /\ \A d \in Conn : d # c => link'[d] = link[d] /\ worker'[d] = worker[d]
    BY <2>1, EndsEffect
  <2> QED
    BY <2>3, <2>4
<1>6. ASSUME HangsUp(c) \/ AllDone(c)
      PROVE  /\ Becomes(c, "drain", {}, 0)
             /\ OthersSame(c) /\ Reads(c) /\ link'[c].down = link[c].down /\ SameSize(c)
  <2>1. Ends(c, l)
    BY <1>6 DEF HangsUp, AllDone
  <2> QED
    BY <1>1, <2>1, EndsEffect
<1>7. ASSUME Closes(c)
      PROVE  /\ Becomes(c, "closed", w.left, w.n) /\ OthersSame(c) /\ Reads(c)
             /\ at # "idle" /\ c = conn => link'[c].down = link[c].down /\ SameSize(c)
  <2>1. /\ worker'[c] = [w EXCEPT !.at = "closed"]
        /\ link'[c] = IF at # "idle" /\ c = conn THEN [l EXCEPT !.up = <<>>] ELSE Over
        /\ \A d \in Conn : d # c => link'[d] = link[d] /\ worker'[d] = worker[d]
    BY <1>7, WorksSets DEF Closes
  <2>2. NoHeader(<<>>) /\ Over.up = <<>> /\ Over.asked = {}
    BY DEF NoHeader, Over, Fresh
  <2> QED
    BY <1>1, <2>1, <2>2, RecordFields, SetFields
<1> QED
  BY <1>2, <1>3, <1>4, <1>5, <1>6, <1>7

(***************************************************************************)
(* What each step of the sender does to its connection.                    *)
(***************************************************************************)
Takes == Mine.down # <<>> /\ link'[conn].down = Tail(Mine.down)
Leaving == link'[conn].down = Mine.down
Settled == link'[conn].asked = Mine.asked /\ link'[conn].size = Mine.size

LEMMA GoesSets ==
  ASSUME TypeOK, NEW to, NEW l, Goes(to, l)
  PROVE  at' = to /\ link'[conn] = l /\ \A d \in Conn : d # conn => link'[d] = link[d]
BY TypeParts DEF Goes, LinkType, SenderType

LEMMA TakenFields ==
  ASSUME TypeOK, Mine.down # <<>>
  PROVE  /\ Taken \in Link /\ Taken.down = Tail(Mine.down)
         /\ Taken.asked = Mine.asked /\ Taken.size = Mine.size
<1>1. Mine \in Link /\ Taken = [Mine EXCEPT !.down = Tail(Mine.down)]
  BY MineLink DEF Taken
<1>2. Taken \in Link
  BY <1>1, LinkOps
<1>3. Taken.down = Tail(Mine.down) /\ Taken.asked = Mine.asked /\ Taken.size = Mine.size
  BY <1>1, SetFields
<1> QED
  BY <1>2, <1>3

LEMMA LeavesEffect ==
  ASSUME TypeOK, Leaves
  PROVE  at' = "drain" /\ Settled /\ Leaving /\ left' = left /\ UNCHANGED <<n, action>>
<1>1. at' = "drain" /\ link'[conn] = [Mine EXCEPT !.upEnd = Closing(Mine.upEnd)]
  BY GoesSets DEF Leaves
<1> QED
  BY <1>1, MineLink, SetFields DEF Leaves, Settled, Leaving

LEMMA SenderEffects ==
  ASSUME TypeOK
  PROVE  /\ LoggedIn => at' = "ops" /\ Takes /\ link'[conn].asked = ops
         /\ Asks => at' = "ack" /\ Leaving /\ Settled
         /\ AsksVersion => at' = "size" /\ Leaving /\ Settled
         /\ Acknowledged => at' = "ops" /\ Takes /\ Settled
         /\ VersionSize \/ VersionContent => at' = "content" /\ Takes /\ Settled
         /\ VersionInPlace => at' = "ack" /\ Leaving /\ Settled
         /\ WriteSize => at' = "sending" /\ Leaving /\ link'[conn].asked = Mine.asked
         /\ WriteInterrupted => at' = "ack" /\ Takes /\ Settled
         /\ WriteNotWanted => at' = "sending" /\ Takes /\ Settled
         /\ WriteChunk => at' = "sending" /\ Leaving /\ Settled
         /\ WriteSent => at' = "inner" /\ Leaving /\ Settled
         /\ WriteOver => at' = "ack" /\ Takes /\ Settled
<1> USE MineLink DEF Takes, Leaving, Settled
<1>1. ASSUME NEW m, Hears(m) PROVE Mine.down # <<>>
  BY <1>1 DEF Hears
<1>2. ASSUME NEW msgs \in Seq(UpMsg), NEW l \in Link
      PROVE  /\ Up(l, msgs).down = l.down /\ Up(l, msgs).asked = l.asked
             /\ Up(l, msgs).size = l.size /\ Up(l, msgs) \in Link
  BY <1>2, UpFields, LinkOps
<1>3. ASSUME LoggedIn PROVE at' = "ops" /\ Takes /\ link'[conn].asked = ops
  <2>1. Mine.down # <<>> /\ at' = "ops" /\ link'[conn] = [Up(Taken, <<"header">>) EXCEPT !.asked = ops]
    BY <1>1, <1>3, GoesSets DEF LoggedIn
  <2>2. Taken \in Link /\ <<"header">> \in Seq(UpMsg) /\ Taken.down = Tail(Mine.down)
    BY <2>1, TakenFields, LinkConstants
  <2>3. Up(Taken, <<"header">>) \in Link /\ Up(Taken, <<"header">>).down = Tail(Mine.down)
    BY <1>2, <2>2
  <2> QED
    BY <2>1, <2>3, SetFields
<1>4. ASSUME Asks PROVE at' = "ack" /\ Leaving /\ Settled
  <2>1. at' = "ack" /\ (link'[conn] = Mine \/ link'[conn] = Up(Mine, <<"newname">>))
    BY <1>4, GoesSets DEF Asks
  <2>2. LET k == Up(Mine, <<"newname">>)
        IN  k.down = Mine.down /\ k.asked = Mine.asked /\ k.size = Mine.size
    BY <1>2, LinkConstants
  <2> QED
    BY <2>1, <2>2
<1>5. ASSUME AsksVersion PROVE at' = "size" /\ Leaving /\ Settled
  BY <1>5, GoesSets DEF AsksVersion
<1>6. ASSUME Acknowledged PROVE at' = "ops" /\ Takes /\ Settled
  BY <1>6, GoesSets, TakenFields DEF Acknowledged
<1>7. ASSUME VersionSize \/ VersionContent PROVE at' = "content" /\ Takes /\ Settled
  BY <1>1, <1>7, GoesSets, TakenFields DEF VersionSize, VersionContent
<1>8. ASSUME VersionInPlace PROVE at' = "ack" /\ Leaving /\ Settled
  BY <1>8, GoesSets DEF VersionInPlace
<1>9. ASSUME WriteSize PROVE at' = "sending" /\ Leaving /\ link'[conn].asked = Mine.asked
  <2>1. at' = "sending" /\ link'[conn] = [Up(Mine, <<"size">>) EXCEPT !.size = temp]
    BY <1>9, GoesSets DEF WriteSize
  <2>2. LET k == Up(Mine, <<"size">>)
        IN  k \in Link /\ k.down = Mine.down /\ k.asked = Mine.asked
    BY <1>2, LinkConstants
  <2> QED
    BY <2>1, <2>2, SetFields
<1>10. ASSUME WriteInterrupted PROVE at' = "ack" /\ Takes /\ Settled
  BY <1>1, <1>10, GoesSets, TakenFields DEF WriteInterrupted
<1>11. ASSUME WriteNotWanted PROVE at' = "sending" /\ Takes /\ Settled
  BY <1>1, <1>11, GoesSets, TakenFields DEF WriteNotWanted
<1>12. ASSUME WriteChunk PROVE at' = "sending" /\ Leaving /\ Settled
  <2>1. at' = "sending" /\ link'[conn] = Up(Mine, <<"chunk">>)
    BY <1>12, GoesSets DEF WriteChunk
  <2>2. LET k == Up(Mine, <<"chunk">>)
        IN  k.down = Mine.down /\ k.asked = Mine.asked /\ k.size = Mine.size
    BY <1>2, LinkConstants
  <2> QED
    BY <2>1, <2>2
<1>13. ASSUME WriteSent PROVE at' = "inner" /\ Leaving /\ Settled
  BY <1>13, GoesSets DEF WriteSent
<1>14. ASSUME WriteOver PROVE at' = "ack" /\ Takes /\ Settled
  BY <1>14, GoesSets, TakenFields DEF WriteOver
<1> QED
  BY <1>3, <1>4, <1>5, <1>6, <1>7, <1>8, <1>9, <1>10, <1>11, <1>12, <1>13, <1>14

(* A step that ends the exchange or the action. *)
Quits == NotLoggedIn \/ Throws \/ NoMore \/ NothingToWrite \/ CannotRestore

LEMMA QuitsEffect ==
  ASSUME TypeOK, Quits
  PROVE  at' = "drain" /\ Settled /\ Leaving /\ left' = left /\ UNCHANGED <<n, action>>
BY LeavesEffect DEF Quits, NotLoggedIn, Throws, NoMore, NothingToWrite, CannotRestore

LEMMA ListeningAsked ==
  ASSUME TypeOK, Hearing
  PROVE  /\ link'[conn].asked \in {Mine.asked, ops, {}}
         /\ \A d \in Conn : d # conn => link'[d] = link[d]
<1>1. \A d \in Conn : d # conn => link'[d] = link[d]
  BY ListeningLink, TypeParts DEF LinkType
<1>2. CASE Quits
  BY <1>1, <1>2, QuitsEffect DEF Settled
<1>3. CASE Returns
  <2>1. link'[conn] = IF worker[conn].at = "closed" THEN Over ELSE [Mine EXCEPT !.down = <<>>]
    BY <1>3, TypeParts DEF Returns, LinkType, SenderType, Mine
  <2>2. Over.asked = {}
    BY DEF Over, Fresh
  <2> QED
    BY <1>1, <2>1, <2>2, MineLink, SetFields
<1> QED
  BY <1>1, <1>2, <1>3, SenderEffects DEF Hearing, Listening, Quits, Settled

-----------------------------------------------------------------------------
(***************************************************************************)
(* Nobody is asked for more than the action has.                           *)
(***************************************************************************)
LEMMA WorkerOthers ==
  ASSUME TypeOK, NEW c \in Conn, Worker(c)
  PROVE  /\ OthersSame(c) /\ Reads(c)
         /\ worker'[c].left \subseteq worker[c].left \/ (Header(c) /\ worker'[c].left = link[c].asked)
BY WorkerEffects, WriterEffects DEF Worker, Becomes

LEMMA KilledEffect ==
  ASSUME TypeOK, ServerEnds
  PROVE  /\ \A c \in Conn : Becomes(c, "closed", {}, 0) /\ link'[c].asked \in {link[c].asked, {}}
         /\ at # "idle" => /\ link'[conn].asked = Mine.asked /\ link'[conn].size = Mine.size
                           /\ link'[conn].up = <<>>
                           /\ \E j \in Nat : link'[conn].down = Cut(Mine.down, j)
<1>1. conn \in Conn /\ \A c \in Conn : worker[c] \in WorkerRecord /\ link[c] \in Link
  BY TypeParts DEF LinkType, WorkerType, SenderType
<1>2. ASSUME NEW c \in Conn PROVE Becomes(c, "closed", {}, 0)
  <2>1. worker'[c] = [worker[c] EXCEPT !.at = "closed", !.left = {}, !.n = 0]
    BY <1>2 DEF ServerEnds
  <2> QED
    BY <1>1, <2>1, RecordFields DEF Becomes
<1> DEFINE K(c, j, end) ==
      [link[c] EXCEPT !.up = <<>>, !.upEnd = "reset", !.down = Cut(@, j),
                      !.downEnd = IF @ = "open" THEN end ELSE @]
<1>3. PICK j \in 0..(Chunks + 2), end \in {"eof", "reset"} :
        link' = [c \in Conn |-> IF at = "idle" \/ c # conn THEN Over ELSE K(c, j, end)]
  BY DEF ServerEnds
<1>4. ASSUME NEW c \in Conn
      PROVE  /\ K(c, j, end).up = <<>> /\ K(c, j, end).down = Cut(link[c].down, j)
             /\ K(c, j, end).asked = link[c].asked /\ K(c, j, end).size = link[c].size
  <2>1. link[c] \in Link
    BY <1>1, <1>4
  <2> QED
    BY <2>1 DEF Link
<1>5. j \in Nat
  BY ChunksAssumption, SMT
<1>6. Over.asked = {}
  BY DEF Over, Fresh
<1> HIDE DEF K
<1>7. \A c \in Conn : link'[c].asked \in {link[c].asked, {}}
  BY <1>3, <1>4, <1>6
<1>8. CASE at # "idle"
  <2>1. link'[conn] = K(conn, j, end) /\ conn \in Conn
    BY <1>1, <1>3, <1>8
  <2> QED
    BY <1>2, <1>4, <1>5, <1>7, <2>1 DEF Mine
<1> QED
  BY <1>2, <1>7, <1>8

LEMMA RequestedStep ==
  ASSUME TypeOK, Requested, Next
  PROVE  Requested'
<1> USE DEF Requested
<1>1. /\ ops \subseteq job /\ conn \in Conn
      /\ \A c \in Conn : worker[c] \in WorkerRecord /\ link[c] \in Link
  BY TypeParts DEF ActionType, LinkType, WorkerType, SenderType
<1>2. Over.asked = {} /\ Fresh.asked = {}
  BY DEF Over, Fresh
<1>3. CASE Listening /\ UNCHANGED <<worker, conn, store, run, bounds, overlaid>>
  BY <1>1, <1>3, ListeningAsked DEF Hearing, bounds, Mine
<1>4. ASSUME NEW c \in Conn, Connect(c) PROVE Requested'
  <2>1. /\ link'[c] = Fresh /\ worker'[c].left = {}
        /\ \A d \in Conn : d # c => link'[d] = link[d] /\ worker'[d] = worker[d]
    BY <1>4, TypeParts DEF Connect, LinkType, WorkerType
  <2> QED
    BY <1>2, <1>4, <2>1 DEF Connect, bounds
<1>5. ASSUME NEW c \in Conn, Worker(c) PROVE Requested'
  BY <1>5, WorkerOthers DEF Worker, OthersSame
<1>6. CASE Befalls
  <2>1. ASSUME NEW c \in Conn, Break(c) PROVE Requested'
    <3>1. \A d \in Conn : link'[d].asked = link[d].asked
      BY <1>1, <2>1, TypeParts DEF Break, LinkType, Link
    <3> QED
      BY <2>1, <3>1 DEF Break
  <2>2. ASSUME NEW c \in Conn, ReadsShort(c) PROVE Requested'
    <3>1. link[c].up # <<>> /\ Ends(c, Heard(c))
      BY <2>2 DEF ReadsShort, Renames, Told
    <3>2. Heard(c) \in Link /\ Heard(c).asked = link[c].asked
      BY <3>1, HeardFields
    <3> QED
      BY <2>2, <3>1, <3>2, EndsEffect DEF ReadsShort, Becomes
  <2>3. CASE ServerEnds
    <3>1. \A c \in Conn : worker'[c].left = {} /\ link'[c].asked \in {link[c].asked, {}}
      BY <2>3, KilledEffect DEF Becomes
    <3> QED
      BY <2>3, <3>1 DEF ServerEnds
  <2>4. CASE ClientDies
    <3>1. \A c \in Conn : link'[c].asked \in {link[c].asked, {}}
      BY <1>1, <1>2, <2>4, TypeParts DEF ClientDies, LinkType, Link
    <3> QED
      BY <2>4, <3>1 DEF ClientDies
  <2>5. CASE Stop \/ Shrink
    BY <2>5 DEF Stop, Shrink, bounds
  <2>6. CASE CannotRestore
    BY <1>1, <2>6, ListeningAsked DEF Hearing, CannotRestore, Mine
  <2> QED
    BY <1>6, <2>1, <2>2, <2>3, <2>4, <2>5, <2>6 DEF Befalls, ServerKilled, Terminates
<1> QED
  BY <1>3, <1>4, <1>5, <1>6 DEF Next, Sender

(* What the sender and the failures leave of the workers. *)
LEMMA SenderWorkers ==
  ASSUME TypeOK, Sender \/ Befalls
  PROVE  /\ UNCHANGED <<store, overlaid>>
         /\ \A c \in Conn : \/ worker'[c] = worker[c]
                            \/ Becomes(c, "closed", {}, 0) \/ Becomes(c, "drain", {}, 0)
                            \/ Becomes(c, "login", {}, 0)
<1>1. CASE Listening /\ UNCHANGED <<worker, conn, store, run, bounds, overlaid>>
  BY <1>1
<1>2. ASSUME NEW c \in Conn, Connect(c)
      PROVE  /\ UNCHANGED <<store, overlaid>>
             /\ \A d \in Conn : worker'[d] = worker[d] \/ Becomes(d, "login", {}, 0)
  BY <1>2, TypeParts DEF Connect, WorkerType, Becomes
<1>3. ASSUME NEW c \in Conn, ReadsShort(c)
      PROVE  /\ UNCHANGED <<store, overlaid>>
             /\ \A d \in Conn : worker'[d] = worker[d] \/ Becomes(d, "drain", {}, 0)
  <2>1. link[c].up # <<>> /\ Ends(c, Heard(c))
    BY <1>3 DEF ReadsShort, Renames, Told
  <2>2. Heard(c) \in Link
    BY <2>1, HeardFields
  <2> QED
    BY <1>3, <2>1, <2>2, EndsEffect DEF ReadsShort
<1>4. ASSUME NEW c \in Conn, Break(c) PROVE UNCHANGED <<store, overlaid>> /\ worker' = worker
  BY <1>4 DEF Break
<1>5. CASE ServerEnds
  BY <1>5, KilledEffect DEF ServerEnds
<1>6. CASE CannotRestore \/ ClientDies \/ Stop \/ Shrink
  BY <1>6 DEF CannotRestore, ClientDies, Stop, Shrink
<1> QED
  BY <1>1, <1>2, <1>3, <1>4, <1>5, <1>6 DEF Sender, Befalls, ServerKilled, Terminates

LEMMA LastIsWrite ==
  ASSUME NEW set \in SUBSET Op, set # {}, First[set] = "write"
  PROVE  set = {"write"}
<1>1. First[set] \in set /\ \A p \in set : Rank[First[set]] <= Rank[p]
  BY FirstOne
<1>2. \A p \in Op : 6 <= Rank[p] => p = "write"
  BY Ranks, Ops
<1>3. \A p \in set : p = "write"
  BY <1>1, <1>2, Ranks
<1> QED
  BY <1>1, <1>3

LEMMA WorkersStep ==
  ASSUME TypeOK, Workers, Next
  PROVE  Workers'
<1> USE DEF Workers, Becomes
<1>1. CASE Sender \/ Befalls
  BY <1>1, SenderWorkers
<1>2. ASSUME NEW c \in Conn, Worker(c) PROVE Workers'
  <2>1. \A d \in Conn : d # c => worker'[d] = worker[d]
    BY <1>2, WorkerOthers DEF OthersSame
  <2>2. CASE Login(c) \/ Header(c)
    <3>1. CASE Login(c)
      <4>1. worker[c].at = "login" /\ worker'[c].at = "header"
            /\ worker'[c].left = worker[c].left /\ worker'[c].n = worker[c].n
        BY <3>1, WorkerEffects DEF Login
      <4> QED BY <2>1, <4>1
    <3>2. CASE Header(c)
      <4>1. worker[c].at = "header" /\ worker'[c].at = "ops" /\ worker'[c].n = worker[c].n
        BY <3>2, WorkerEffects DEF Header
      <4> QED BY <2>1, <4>1
    <3> QED
      BY <2>2, <3>1, <3>2
  <2>3. CASE Performs(c) \/ SendsVersion(c) \/ WriteKnown(c) \/ WriteCommits(c)
    BY <2>1, <2>3, WorkerEffects
  <2>4. CASE WriteNew(c)
    <3>1. worker[c].at = "ops" /\ worker[c].left = {"write"}
      <4>1. worker[c].left \in SUBSET Op
        BY TypeParts DEF WorkerType, WorkerRecord
      <4>2. Asked(c) = "write"
        BY <2>4 DEF WriteNew
      <4> QED
        BY <4>1, <4>2, AskedOne, LastIsWrite
    <3> QED
      BY <2>1, <2>4, <3>1, WriterEffects
  <2>5. CASE WriteOpen(c) \/ ReadSize(c) \/ ReadContent(c)
    BY <2>1, <2>5, WriterEffects DEF WriteOpen, ReadSize, ReadContent
  <2>6. CASE Refuses(c) \/ HangsUp(c) \/ AllDone(c)
    BY <2>1, <2>6, WriterEffects
  <2>7. CASE Closes(c)
    BY <2>1, <2>7, WriterEffects DEF Closes
  <2> QED
    BY <1>2, <2>2, <2>3, <2>4, <2>5, <2>6, <2>7 DEF Worker
<1> QED
  BY <1>1, <1>2 DEF Next

-----------------------------------------------------------------------------
(***************************************************************************)
(* The stored file.                                                        *)
(***************************************************************************)
LEMMA IntactStep ==
  ASSUME TypeOK, Workers, Intact, Next
  PROVE  Intact'
<1> USE DEF Intact, Filling, Becomes
<1>1. CASE Sender \/ Befalls
  BY <1>1, SenderWorkers DEF store
<1>2. ASSUME NEW c \in Conn, Worker(c), ~overlaid' PROVE Intact'
  <2>1. \A d \in Conn : d # c => worker'[d] = worker[d]
    BY <1>2, WorkerOthers DEF OthersSame
  <2>2. worker[c].n \in 0..Chunks /\ link[c].size \in 0..Chunks
    BY TypeParts, LinkFields DEF WorkerType, WorkerRecord, LinkType
  <2>3. CASE Login(c) \/ Header(c)
    BY <1>2, <2>1, <2>3, WorkerEffects DEF Login, Header, store
  <2>4. CASE Performs(c) \/ SendsVersion(c) \/ WriteKnown(c)
    <3>1. Asked(c) # "none"
      BY <2>4 DEF Performs, SendsVersion, WriteKnown, Renames
    <3>2. ~Filling(c)
      BY <3>1, AskedOne
    <3>3. "write" \in done' => "write" \in done
      BY <2>4 DEF Performs, SendsVersion, WriteKnown, Renames, store
    <3>4. UNCHANGED <<blob, size, overlaid>> /\ done \subseteq done'
      BY <2>4 DEF Performs, SendsVersion, WriteKnown, store
    <3>5. worker'[c].at = "ops"
      BY <2>4, WorkerEffects
    <3> QED
      BY <1>2, <2>1, <3>2, <3>3, <3>4, <3>5
  <2>5. CASE WriteCommits(c)
    <3>1. /\ worker[c].at = "content" /\ worker[c].n = link[c].size /\ size' = link[c].size
          /\ done' = done \cup {"write"} /\ UNCHANGED <<blob, overlaid>>
      BY <2>5 DEF WriteCommits, Received
    <3>2. worker'[c].at = "ops"
      BY <2>5, WorkerEffects
    <3>3. \A d \in Conn : ~(Filling(d))'
      BY <1>2, <2>1, <3>1, <3>2
    <3>4. 1..size' \subseteq blob'
      BY <1>2, <3>1
    <3> QED
      BY <3>3, <3>4
  <2>6. CASE WriteNew(c)
    BY <1>2, <2>1, <2>6, WriterEffects DEF WriteNew, store, Asked
  <2>7. CASE WriteOpen(c)
    <3>1. /\ worker[c].at = "open" /\ blob' = {} /\ done' = done
          /\ "write" \notin done /\ ~overlaid
          /\ \A d \in Conn : worker[d].at \notin {"size", "content"}
      BY <1>2, <2>7 DEF WriteOpen
    <3>2. worker'[c].at = "size" /\ worker'[c].n = 0
      BY <2>7, <3>1, WriterEffects DEF Workers
    <3>3. 1..worker'[c].n = {}
      BY <3>2
    <3> QED
      BY <2>1, <3>1, <3>2, <3>3
  <2>8. CASE ReadSize(c)
    <3>1. worker[c].at = "size" /\ UNCHANGED <<store, overlaid>>
      BY <2>8 DEF ReadSize
    <3>2. worker'[c].at = "content" /\ worker'[c].n = worker[c].n
      BY <2>8, WriterEffects
    <3> QED
      BY <1>2, <2>1, <3>1, <3>2 DEF store
  <2>9. CASE ReadContent(c)
    <3>1. /\ worker[c].at = "content" /\ blob' = blob \cup {worker[c].n + 1}
          /\ UNCHANGED <<done, size, overlaid>>
      BY <2>9 DEF ReadContent
    <3>2. worker'[c].at = "content" /\ worker'[c].n = worker[c].n + 1
      BY <2>9, WriterEffects
    <3>3. 1..worker'[c].n \subseteq blob'
      <4>1. 1..worker[c].n \subseteq blob
        BY <1>2, <3>1
      <4>2. 1..(worker[c].n + 1) \subseteq 1..worker[c].n \cup {worker[c].n + 1}
        BY <2>2
      <4> QED
        BY <3>1, <3>2, <4>1, <4>2
    <3> QED
      BY <1>2, <2>1, <3>1, <3>2, <3>3
  <2>10. CASE Refuses(c) \/ HangsUp(c) \/ AllDone(c)
    BY <1>2, <2>1, <2>10, WriterEffects DEF Refuses, CannotDo, HangsUp, AllDone, store
  <2>11. CASE Closes(c)
    <3>1. UNCHANGED <<store, overlaid>>
      BY <2>11 DEF Closes
    <3>2. worker'[c].at = "closed"
      BY <2>11, WriterEffects
    <3>3. ~(Filling(c))'
      BY <3>2
    <3> QED
      BY <1>2, <2>1, <3>1, <3>3 DEF store
  <2> QED
    BY <1>2, <2>3, <2>4, <2>5, <2>6, <2>7, <2>8, <2>9, <2>10, <2>11 DEF Worker
<1>3. ASSUME NEW c \in Conn, Worker(c), overlaid' PROVE Intact'
  BY <1>3
<1> QED
  BY <1>1, <1>2, <1>3 DEF Next

-----------------------------------------------------------------------------
(***************************************************************************)
(* A step that brings the sender no answer: of another connection's, of    *)
(* its own worker while that says nothing, or a failure that loses some.   *)
(***************************************************************************)
Fewer(d, e) ==
  NoIsLast(d) => /\ NoIsLast(e) /\ Said(e) <= Said(d) /\ Len(e) <= Len(d)
                 /\ Refused(e) => Refused(d)

CalmLink ==
  /\ link'[conn].asked = Mine.asked /\ link'[conn].size = Mine.size
  /\ Fewer(Mine.down, link'[conn].down)
  /\ Reads(conn)

CalmWorker ==
  /\ worker'[conn].at \in Busy => Peer.at \in Busy /\ worker'[conn].left = Peer.left
  /\ worker'[conn].at \in {"login", "header"} => worker'[conn].at = Peer.at
  /\ Peer.at \in {"drain", "closed"} => worker'[conn].at \in {"drain", "closed"}

Calm ==
  /\ UNCHANGED <<at, conn, left, n, ops, got, restored, job>>
  /\ run' => run
  /\ temp' = Gone => temp = Gone
  /\ done \subseteq done' /\ refusals' >= refusals
  /\ at # "idle" => CalmLink /\ CalmWorker

Answering(c) ==
  Login(c) \/ Header(c) \/ Performs(c) \/ SendsVersion(c) \/ WriteKnown(c) \/ WriteCommits(c) \/ Refuses(c)

LEMMA FewerSame == \A d \in Seq(DownMsg) : Fewer(d, d)
BY SaidNat DEF Fewer

LEMMA FewerCut ==
  ASSUME NEW d \in Seq(DownMsg), NEW k \in Nat
  PROVE  Fewer(d, Cut(d, k))
BY SaidCut, CutSeq DEF Fewer

LEMMA WorkerGrows ==
  ASSUME TypeOK, NEW c \in Conn, Worker(c)
  PROVE  done \subseteq done' /\ refusals' >= refusals
<1>1. done \subseteq done'
  BY DEF Worker, Login, Header, Performs, SendsVersion, WriteKnown, WriteNew, WriteOpen, ReadSize,
         ReadContent, WriteCommits, Refuses, CannotDo, HangsUp, AllDone, Closes, store
<1>2. refusals' = refusals \/ refusals' = refusals + 1
  BY DEF Worker, Login, Header, Performs, SendsVersion, WriteKnown, WriteNew, WriteOpen, ReadSize,
         ReadContent, WriteCommits, Refuses, CannotDo, HangsUp, AllDone, Closes
<1>3. refusals \in Nat
  BY TypeParts, BoundAssumption DEF BoundsType
<1> QED
  BY <1>1, <1>2, <1>3

LEMMA CalmWhenSame ==
  ASSUME TypeOK, link'[conn] = link[conn], worker'[conn] = worker[conn]
  PROVE  CalmLink /\ CalmWorker
BY MineLink, LinkFields, FewerSame DEF CalmLink, CalmWorker, Mine, Peer, Reads

LEMMA WorkerCalm ==
  ASSUME TypeOK, NEW c \in Conn, Worker(c), c # conn \/ ~Answering(c)
  PROVE  Calm
<1>1. /\ UNCHANGED <<at, conn, left, n, ops, got, restored, temp, job, run>>
      /\ conn \in Conn /\ done \subseteq done' /\ refusals' >= refusals
  BY WorkerGrows, MineLink DEF Worker, sender, action
<1>2. ASSUME c # conn PROVE CalmLink /\ CalmWorker
  BY <1>1, <1>2, WorkerOthers, CalmWhenSame DEF OthersSame
<1>3. ASSUME c = conn, ~Answering(c), at # "idle" PROVE CalmLink /\ CalmWorker
  <2>1. WriteNew(c) \/ WriteOpen(c) \/ ReadSize(c) \/ ReadContent(c) \/ HangsUp(c) \/ AllDone(c) \/ Closes(c)
    BY <1>3 DEF Worker, Answering
  <2>2. Reads(c) /\ link'[c].down = link[c].down /\ link'[c].size = link[c].size
    BY <1>3, <2>1, WriterEffects DEF SameSize
  <2>3. link'[c].asked = link[c].asked
    <3>1. link[c] \in Link /\ worker[c] \in WorkerRecord
      BY TypeParts DEF LinkType, WorkerType
    <3>2. CASE WriteNew(c) \/ WriteOpen(c)
      BY <3>2, WorksSets DEF WriteNew, WriteOpen
    <3>3. CASE ReadSize(c) \/ ReadContent(c)
      <4>1. link'[c] = Heard(c) /\ link[c].up # <<>>
        BY <3>3, WorksSets DEF ReadSize, ReadContent, Told
      <4> QED
        BY <4>1, HeardFields
    <3>4. CASE HangsUp(c) \/ AllDone(c)
      BY <3>1, <3>4, EndsEffect DEF HangsUp, AllDone
    <3>5. CASE Closes(c)
      <4>1. link'[c] = [link[c] EXCEPT !.up = <<>>]
        BY <1>3, <3>5, WorksSets DEF Closes
      <4> QED
        BY <3>1, <4>1, SetFields
    <3> QED
      BY <2>1, <3>2, <3>3, <3>4, <3>5
  <2>4. CalmLink
    BY <1>3, <2>2, <2>3, MineLink, LinkFields, FewerSame DEF CalmLink, Mine
  <2>5. CalmWorker
    <3>1. CASE WriteNew(c) \/ WriteOpen(c)
      <4>1. worker[c].at \in {"ops", "open"}
        BY <3>1 DEF WriteNew, WriteOpen, Asked
      <4> QED
        BY <1>3, <3>1, <4>1, WriterEffects DEF CalmWorker, Becomes, Busy, Peer
    <3>2. CASE ReadSize(c) \/ ReadContent(c)
      <4>1. worker[c].at \in {"size", "content"}
        BY <3>2 DEF ReadSize, ReadContent
      <4> QED
        BY <1>3, <3>2, <4>1, WriterEffects DEF CalmWorker, Becomes, Busy, Peer
    <3>3. CASE HangsUp(c) \/ AllDone(c) \/ Closes(c)
      BY <1>3, <3>3, WriterEffects DEF CalmWorker, Becomes, Busy, Peer
    <3> QED
      BY <2>1, <3>1, <3>2, <3>3
  <2> QED
    BY <2>4, <2>5
<1> QED
  BY <1>1, <1>2, <1>3 DEF Calm

LEMMA BefallsCalm ==
  ASSUME TypeOK, Befalls, ~ClientDies, ~CannotRestore
  PROVE  Calm
<1>1. conn \in Conn /\ Mine \in Link /\ Mine.down \in Seq(DownMsg) /\ Mine.up \in Seq(UpMsg) /\ refusals \in Nat
  BY MineLink, LinkFields, TypeParts, BoundAssumption DEF BoundsType
<1>2. ASSUME NEW c \in Conn, Break(c) PROVE Calm
  <2>1. /\ UNCHANGED <<at, conn, left, n, ops, got, restored, temp, job, run, done, refusals, worker>>
    BY <1>2 DEF Break, sender, action, store
  <2>2. CASE c # conn
    <3>1. link'[conn] = link[conn]
      BY <1>1, <1>2, <2>2, TypeParts DEF Break, LinkType
    <3> QED
      BY <1>1, <2>1, <3>1, CalmWhenSame DEF Calm
  <2>3. CASE c = conn
    <3>1. PICK i \in Nat, j \in Nat :
            link' = [link EXCEPT ![c].up = Cut(@, i), ![c].down = Cut(@, j),
                                 ![c].upEnd = "reset", ![c].downEnd = "reset"]
      <4>1. 0..Len(link[c].up) \subseteq Nat /\ 0..Len(link[c].down) \subseteq Nat
        BY <1>1, <2>3 DEF Mine
      <4> QED
        BY <1>2, <4>1 DEF Break
    <3>2. link'[conn] = [Mine EXCEPT !.up = Cut(@, i), !.down = Cut(@, j), !.upEnd = "reset", !.downEnd = "reset"]
      BY <1>1, <2>3, <3>1, TypeParts DEF LinkType, Mine
    <3>3. /\ link'[conn].up = Cut(Mine.up, i) /\ link'[conn].down = Cut(Mine.down, j)
          /\ link'[conn].asked = Mine.asked /\ link'[conn].size = Mine.size
      BY <1>1, <3>2 DEF Link
    <3>4. Reads(conn)
      <4>1. /\ Len(Cut(Mine.up, i)) <= Len(Mine.up)
            /\ Cut(Mine.up, i) \in Seq(UpMsg)
            /\ \A k \in 1..Len(Cut(Mine.up, i)) : Cut(Mine.up, i)[k] = Mine.up[k]
        BY <1>1, CutSeq
      <4> QED
        BY <1>1, <3>3, <4>1 DEF Reads, NoHeader, Mine
    <3>5. CalmLink
      BY <1>1, <3>3, <3>4, FewerCut DEF CalmLink
    <3>6. CalmWorker
      BY <2>1 DEF CalmWorker, Peer
    <3> QED
      BY <1>1, <2>1, <3>5, <3>6 DEF Calm
  <2> QED
    BY <2>2, <2>3
<1>3. ASSUME NEW c \in Conn, ReadsShort(c) PROVE Calm
  <2>1. /\ UNCHANGED <<at, conn, left, n, ops, got, restored, temp, job, run, done, refusals>>
        /\ link[c].up # <<>> /\ Ends(c, Heard(c))
    BY <1>3 DEF ReadsShort, sender, action, store, Renames, Told
  <2>2. /\ Heard(c) \in Link /\ Heard(c).down = link[c].down /\ Heard(c).asked = link[c].asked
        /\ Heard(c).size = link[c].size /\ (NoHeader(link[c].up) => NoHeader(Heard(c).up))
    BY <2>1, HeardFields
  <2>3. /\ Becomes(c, "drain", {}, 0)
        /\ link'[c].down = link[c].down /\ link'[c].asked = link[c].asked /\ link'[c].size = link[c].size
        /\ Reads(c)
        /\ \A d \in Conn : d # c => link'[d] = link[d] /\ worker'[d] = worker[d]
    BY <2>1, <2>2, EndsEffect DEF Reads
  <2>4. CASE c # conn
    BY <1>1, <2>1, <2>3, <2>4, CalmWhenSame DEF Calm
  <2>5. CASE c = conn
    <3>1. CalmLink
      BY <1>1, <2>3, <2>5, FewerSame DEF CalmLink, Mine
    <3>2. CalmWorker
      BY <2>3, <2>5 DEF CalmWorker, Becomes, Busy
    <3> QED
      BY <1>1, <2>1, <3>1, <3>2 DEF Calm
  <2> QED
    BY <2>4, <2>5
<1>4. CASE Killed
  <2>0. ServerEnds /\ refusals' >= refusals
    BY <1>1, <1>4 DEF Killed, ServerKilled, Terminates, CannotDo
  <2>1. UNCHANGED <<at, conn, left, n, ops, got, restored, temp, job, run, done>>
    BY <2>0 DEF ServerEnds, sender, action, store
  <2>2. ASSUME at # "idle" PROVE CalmLink /\ CalmWorker
    <3>1. /\ link'[conn].asked = Mine.asked /\ link'[conn].size = Mine.size /\ link'[conn].up = <<>>
          /\ Becomes(conn, "closed", {}, 0)
      BY <1>1, <2>0, <2>2, KilledEffect
    <3>2. PICK j \in Nat : link'[conn].down = Cut(Mine.down, j)
      BY <2>0, <2>2, KilledEffect
    <3>3. NoHeader(<<>>)
      BY DEF NoHeader
    <3> QED
      BY <1>1, <3>1, <3>2, <3>3, FewerCut DEF CalmLink, CalmWorker, Becomes, Reads, Busy
  <2> QED
    BY <1>1, <2>0, <2>1, <2>2 DEF Calm
<1>5. CASE Stop
  BY <1>1, <1>5, CalmWhenSame DEF Stop, Calm, sender, action, store, bounds
<1>6. CASE Shrink
  <2>1. temp' # Gone
    <3>1. temp - 1 \in Nat
      BY <1>6, ChunksAssumption DEF Shrink
    <3> QED
      BY <1>6, <3>1, ChunksAssumption DEF Shrink
  <2> QED
    BY <1>1, <1>6, <2>1, CalmWhenSame DEF Shrink, Calm, store
<1> QED
  BY <1>2, <1>3, <1>4, <1>5, <1>6 DEF Befalls, Killed

LEMMA Steps ==
  ASSUME TypeOK, [Next]_vars
  PROVE  \/ Calm
         \/ ClientDies
         \/ \E c \in Conn : Connect(c)
         \/ Listens
         \/ Worker(conn) /\ Answering(conn)
<1>1. ASSUME UNCHANGED vars PROVE Calm
  <2>1. refusals \in Nat
    BY TypeParts, BoundAssumption DEF BoundsType
  <2> QED
    BY <1>1, <2>1, CalmWhenSame DEF Calm, vars, sender, action, store, bounds
<1> QED
  BY <1>1, WorkerCalm, BefallsCalm DEF Next, Sender, Listens

-----------------------------------------------------------------------------
(***************************************************************************)
(* The answer that comes is the one the sender waits for.                  *)
(***************************************************************************)
LEMMA NothingAhead ==
  ASSUME TypeOK, left # {}
  PROVE  /\ First[left] \in left /\ First[left] \in Op
         /\ Ahead(First[left]) = 0
         /\ \A o \in left \ {First[left]} : First[left] \in Earlier(o)
<1>1. left \in SUBSET Op
  BY JobOps
<1>2. First[left] \in left /\ \A p \in left : Rank[First[left]] <= Rank[p]
  BY <1>1, FirstOne
<1>3. \A p \in left : Rank[p] \in 1..6 /\ (Rank[p] = Rank[First[left]] => p = First[left])
  BY <1>1, <1>2, RankNat
<1>4. Earlier(First[left]) = {}
  BY <1>2, <1>3 DEF Earlier
<1>5. \A o \in left \ {First[left]} : First[left] \in Earlier(o)
  BY <1>2, <1>3 DEF Earlier
<1> QED
  BY <1>1, <1>2, <1>4, <1>5, SumNone DEF Ahead

LEMMA AnswerMeansDone ==
  ASSUME TypeOK, Turns, Heeds, left # {}, Said(Mine.down) > 0
  PROVE  First[left] \in done /\ (Peer.at \in Busy => First[left] \notin Peer.left)
<1>1. First[left] \in left /\ Ahead(First[left]) = 0
  BY NothingAhead
<1>2. Said(Mine.down) \in Nat
  BY MineLink, LinkFields, SaidNat
<1>3. First[left] \notin ToDo
  BY <1>1, <1>2 DEF Turns, AnswersFit
<1> QED
  BY <1>1, <1>3 DEF ToDo, Turns, WorkerAhead

LEMMA TakenAnswer ==
  ASSUME TypeOK, Ended, at = "login" \/ Under, Mine.down # <<>>
  PROVE  /\ NoIsLast(Mine.down) /\ NoIsLast(Tail(Mine.down))
         /\ Said(Mine.down) \in Nat /\ Said(Tail(Mine.down)) \in Nat
         /\ Said(Mine.down) > 0 => Said(Tail(Mine.down)) = Said(Mine.down) - 1
         /\ Said(Mine.down) = 0 => /\ Tail(Mine.down) = <<>> /\ Head(Mine.down) = "no"
                                   /\ Said(Tail(Mine.down)) = 0 /\ Refused(Mine.down)
         /\ Head(Mine.down) = "no" => Said(Mine.down) = 0
         /\ Refused(Tail(Mine.down)) => Refused(Mine.down)
<1> DEFINE d == Mine.down
           t == Tail(Mine.down)
<1>1. d \in Seq(DownMsg) /\ NoIsLast(d) /\ d # <<>>
  BY MineLink, LinkFields DEF Ended
<1>2. t \in Seq(DownMsg)
  BY <1>1
<1> HIDE DEF d, t
<1>3. Said(d) \in Nat /\ Said(t) \in Nat /\ Said(<<>>) = 0
  BY <1>1, <1>2, SaidNat
<1>4. Said(d) = 0 => Refused(d)
  <2>1. Len(d) # 0
    BY <1>1, EmptySeq
  <2> QED
    BY <2>1 DEF Said
<1>5. /\ Said(d) > 0 => Said(t) = Said(d) - 1
      /\ Said(d) = 0 => t = <<>> /\ Head(d) = "no"
      /\ Head(d) = "no" => t = <<>> /\ Said(d) = 0
      /\ NoIsLast(t)
      /\ Refused(t) => Refused(d)
  BY <1>1, SaidTail DEF t, d
<1> QED
  BY <1>1, <1>3, <1>4, <1>5 DEF t, d

-----------------------------------------------------------------------------
(***************************************************************************)
(* Where the sender and its worker are.                                    *)
(***************************************************************************)
LEMMA TurnIs ==
  ASSUME TypeOK
  PROVE  /\ Turn # "none" => at = "ops" /\ left # {} /\ run /\ Turn = First[left]
         /\ "none" \notin Op
BY Ops DEF Turn

(* The steps of the sender that take no answer and end nothing. *)
LEMMA ListensEffect ==
  ASSUME TypeOK, Listens
  PROVE  /\ worker' = worker /\ conn' = conn /\ done' = done /\ run' = run
         /\ refusals' = refusals /\ job' = job /\ conn \in Conn
BY MineLink DEF Listens, CannotRestore, store, bounds

LEMMA PlacesStep ==
  ASSUME TypeOK, Places, Opening, Ended, Turns, [Next]_vars
  PROVE  Places'
<1>1. CASE Calm
  <2>1. CASE at = "idle"
    BY <1>1, <2>1 DEF Calm, Places, Acking
  <2>2. CASE at # "idle"
    BY <1>1, <2>2 DEF Calm, CalmLink, CalmWorker, Places, Acking, Mine, Peer
  <2> QED
    BY <2>1, <2>2
<1>2. CASE ClientDies
  BY <1>2 DEF ClientDies, Places, Acking
<1>3. ASSUME NEW c \in Conn, Connect(c) PROVE Places'
  BY <1>3 DEF Connect, Places, Acking
<1>4. CASE Listens
  <2>0. /\ worker' = worker /\ conn' = conn /\ done' = done /\ run' = run /\ Peer' = Peer
    BY <1>4, ListensEffect DEF Peer
  <2>1. CASE Quits \/ Returns
    <3>1. at' \in {"drain", "idle"}
      BY <2>1, QuitsEffect DEF Returns
    <3> QED
      BY <3>1 DEF Places, Acking
  <2>2. CASE LoggedIn \/ Acknowledged
    <3>1. at' = "ops"
      BY <2>2, SenderEffects
    <3> QED
      BY <3>1 DEF Places, Acking
  <2>3. CASE Asks
    <3>1. at' = "ack" /\ left' = left /\ left # {} /\ First[left] # "version"
      BY <2>3, SenderEffects, TurnIs DEF Asks
    <3> QED
      BY <3>1 DEF Places, Acking
  <2>4. CASE AsksVersion
    <3>1. at' = "size" /\ left' = left /\ left # {} /\ First[left] = "version"
      BY <2>4, SenderEffects, TurnIs DEF AsksVersion
    <3> QED
      BY <3>1 DEF Places, Acking
  <2>5. CASE VersionSize
    <3>1. at = "size" /\ at' = "content" /\ left' = left /\ n' = 0 /\ Hears("size") /\ Mine.down # <<>>
      BY <2>5, SenderEffects DEF VersionSize, Hears
    <3>2. left # {} /\ First[left] = "version" /\ Under /\ Heeds
      BY <3>1 DEF Places, Under, Heeds, Acking
    <3>3. Said(Mine.down) > 0
      BY <3>1, <3>2, TakenAnswer DEF Hears
    <3>4. "version" \in done /\ (Peer.at \in Busy => "version" \notin Peer.left)
      BY <3>2, <3>3, AnswerMeansDone
    <3>5. Peer.at # "header"
      BY <3>1, <3>2 DEF Opening
    <3>6. Mine'.size \in 0..Chunks
      <4>1. TypeOK'
        BY <1>4, SenderTypes, BefallsTypes DEF Listens, Sender, Befalls
      <4>2. Mine' \in Link
        BY <4>1, TypeParts, <2>0 DEF LinkType, SenderType, Mine
      <4> QED
        BY <4>2 DEF Link
    <3> QED
      BY <2>0, <3>1, <3>2, <3>4, <3>5, <3>6 DEF Places, Acking
  <2>6. CASE VersionContent
    <3>1. /\ at = "content" /\ at' = "content" /\ left' = left /\ n' = n + 1 /\ n < Mine.size
          /\ link'[conn].size = Mine.size
      BY <2>6, SenderEffects DEF VersionContent, Settled
    <3>2. n \in Nat /\ Mine.size \in Nat
      BY MineLink, LinkFields, TypeParts, ChunksAssumption DEF SenderType
    <3>3. Mine'.size = Mine.size
      BY <2>0, <3>1 DEF Mine
    <3> QED
      BY <2>0, <3>1, <3>2, <3>3 DEF Places, Acking
  <2>7. CASE VersionInPlace
    <3>1. /\ at = "content" /\ at' = "ack" /\ left' = left /\ (n = Mine.size \/ ~run)
          /\ restored' = IF n = Mine.size THEN "whole" ELSE "part"
      BY <2>7, SenderEffects DEF VersionInPlace
    <3> QED
      BY <2>0, <3>1 DEF Places, Acking
  <2>8. CASE WriteSize
    <3>1. at' = "sending" /\ left' = left /\ left # {} /\ First[left] = "write" /\ temp # Gone /\ temp' = temp
      BY <2>8, SenderEffects, TurnIs DEF WriteSize, Found, action
    <3> QED
      BY <3>1 DEF Places, Acking
  <2>9. CASE WriteNotWanted \/ WriteChunk \/ WriteSent
    <3>1. /\ at = "sending" /\ at' \in {"sending", "inner"} /\ left' = left /\ temp' = temp
      BY <2>9, SenderEffects DEF WriteNotWanted, WriteChunk, WriteSent, action
    <3> QED
      BY <3>1 DEF Places, Acking
  <2>10. CASE WriteInterrupted \/ WriteOver
    <3>1. /\ at \in {"sending", "inner"} /\ at' = "ack" /\ left' = left
      BY <2>10, SenderEffects DEF WriteInterrupted, WriteOver
    <3> QED
      BY <3>1 DEF Places, Acking
  <2> QED
    BY <1>4, <2>1, <2>2, <2>3, <2>4, <2>5, <2>6, <2>7, <2>8, <2>9, <2>10 DEF Listens, Listening, Quits
<1>5. CASE Worker(conn) /\ Answering(conn)
  <2>1. /\ UNCHANGED <<at, conn, left, n, ops, got, restored, temp, run>> /\ conn \in Conn
        /\ done \subseteq done'
    BY <1>5, MineLink, WorkerGrows DEF Worker, sender, action
  <2>2. ASSUME at = "content" \/ Acking("version")
        PROVE  /\ link'[conn].size = Mine.size
               /\ worker'[conn].at # "header" /\ (worker'[conn].at \in Busy => "version" \notin worker'[conn].left)
    <3>1. Peer.at # "header" /\ (Peer.at \in Busy => "version" \notin Peer.left) /\ Peer.at # "login"
      BY <2>2 DEF Places, Opening, Under, Acking
    <3>2. ~Login(conn) /\ ~Header(conn)
      BY <3>1 DEF Login, Header, Peer
    <3>3. ASSUME SendsVersion(conn) PROVE FALSE
      <4>1. Asked(conn) = "version"
        BY <3>3 DEF SendsVersion
      <4> QED
        BY <2>1, <3>1, <4>1, AskedOne DEF Peer, Busy
    <3>4. CASE Performs(conn) \/ WriteKnown(conn) \/ WriteCommits(conn)
      <4>1. worker[conn].at \in Busy
        <5>1. Performs(conn) \/ WriteKnown(conn) => Asked(conn) # "none"
          BY DEF Performs, WriteKnown, Renames
        <5> QED
          BY <2>1, <3>4, <5>1, AskedOne DEF WriteCommits, Busy
      <4> QED
        BY <2>1, <3>1, <3>4, <4>1, WorkerEffects DEF Becomes, SameSize, Mine, Peer, Busy
    <3>5. CASE Refuses(conn)
      BY <2>1, <3>5, WriterEffects DEF Becomes, SameSize, Mine, Busy
    <3> QED
      BY <1>5, <3>2, <3>3, <3>4, <3>5 DEF Answering
  <2> QED
    BY <2>1, <2>2 DEF Places, Acking, Mine, Peer
<1> QED
  BY <1>1, <1>2, <1>3, <1>4, <1>5, Steps

LEMMA AnsweringPlace ==
  ASSUME NEW c \in Conn, Answering(c)
  PROVE  worker[c].at \in {"login", "header", "ops", "content"}
<1>1. Asked(c) # "none" => worker[c].at = "ops"
  BY DEF Asked
<1>2. Asked(c) \in Op => worker[c].at = "ops"
  BY <1>1, Ops
<1>3. CASE Refuses(c)
  BY <1>1, <1>2, <1>3 DEF Refuses, CannotDo, Renames
<1>4. CASE ~Refuses(c)
  BY <1>1, <1>4 DEF Answering, Login, Header, Performs, Renames, SendsVersion, WriteKnown, WriteCommits
<1> QED
  BY <1>3, <1>4

LEMMA EndedStep ==
  ASSUME TypeOK, Opening, Ended, [Next]_vars
  PROVE  Ended'
<1>0. Mine.down \in Seq(DownMsg) /\ conn \in Conn
  BY MineLink, LinkFields
<1>1. CASE Calm
  <2> SUFFICES ASSUME (at = "login" \/ Under)' PROVE (NoIsLast(Mine.down) /\ (Refused(Mine.down) => Peer.at \in {"drain", "closed"}))'
    BY DEF Ended
  <2>1. at = "login" \/ Under
    BY <1>1 DEF Calm, Under
  <2> QED
    BY <1>1, <2>1 DEF Calm, CalmLink, CalmWorker, Fewer, Ended, Under, Mine, Peer
<1>2. CASE ClientDies
  BY <1>2 DEF ClientDies, Ended, Under
<1>3. ASSUME NEW c \in Conn, Connect(c) PROVE Ended'
  <2>1. link'[c] = Fresh /\ conn' = c
    BY <1>3, TypeParts DEF Connect, LinkType
  <2>2. Mine'.down = <<>>
    BY <2>1 DEF Mine, Fresh
  <2> QED
    BY <2>2 DEF Ended, NoIsLast, Refused
<1>4. CASE Listens
  <2>0. worker' = worker /\ conn' = conn
    BY <1>4, ListensEffect
  <2>1. CASE Quits \/ Returns
    <3>1. at' \in {"drain", "idle"}
      BY <2>1, QuitsEffect DEF Returns
    <3> QED
      BY <3>1 DEF Ended, Under
  <2>2. CASE ~(Quits \/ Returns)
    <3>1. Takes \/ Leaving
      BY <1>4, <2>2, SenderEffects DEF Listens, Listening, Quits
    <3>2. at = "login" \/ Under
      <4>1. Turn # "none" => at = "ops"
        BY DEF Turn
      <4> QED
        BY <1>4, <2>2, <4>1
           DEF Listens, Listening, Quits, Under, LoggedIn, Asks, AsksVersion, Acknowledged, VersionSize,
               VersionContent, VersionInPlace, WriteSize, WriteInterrupted, WriteNotWanted, WriteChunk,
               WriteSent, WriteOver
    <3>3. CASE Leaving
      BY <2>0, <3>2, <3>3 DEF Leaving, Ended, Mine, Peer
    <3>4. CASE Takes
      BY <2>0, <3>2, <3>4, TakenAnswer DEF Takes, Ended, Mine, Peer
    <3> QED
      BY <3>1, <3>3, <3>4
  <2> QED
    BY <2>1, <2>2
<1>5. CASE Worker(conn) /\ Answering(conn)
  <2>1. at' = at /\ conn' = conn
    BY <1>5 DEF Worker, sender
  <2> SUFFICES ASSUME at = "login" \/ Under
               PROVE  /\ NoIsLast(link'[conn].down)
                      /\ Refused(link'[conn].down) => worker'[conn].at \in {"drain", "closed"}
    BY <2>1 DEF Ended, Under, Mine, Peer
  <2>2. Peer.at \notin {"drain", "closed"}
    <3>1. Peer.at \in {"login", "header", "ops", "content"}
      BY <1>0, <1>5, AnsweringPlace DEF Peer
    <3> QED
      BY <3>1
  <2>3. NoIsLast(Mine.down) /\ ~Refused(Mine.down)
    BY <2>2 DEF Ended
  <2>4. ASSUME NEW msgs \in Seq(DownMsg), Answered(conn, msgs), \A i \in 1..Len(msgs) : msgs[i] # "no"
        PROVE  NoIsLast(link'[conn].down) /\ ~Refused(link'[conn].down)
    BY <1>0, <2>3, <2>4, SaidMore DEF Answered, Mine
  <2>5. CASE Login(conn) \/ Performs(conn)
    <3>1. Answered(conn, <<"yes">>)
      BY <1>0, <2>5, WorkerEffects
    <3>2. <<"yes">> \in Seq(DownMsg) /\ \A i \in 1..Len(<<"yes">>) : <<"yes">>[i] # "no"
      BY LinkConstants
    <3> QED
      BY <2>4, <3>1, <3>2
  <2>6. CASE Header(conn)
    BY <1>0, <2>3, <2>6, WorkerEffects DEF Mine
  <2>7. CASE SendsVersion(conn)
    <3>1. PICK msgs \in Seq(DownMsg) : Answered(conn, msgs) /\ \A i \in 1..Len(msgs) : msgs[i] # "no"
      BY <1>0, <2>7, WorkerEffects
    <3> QED
      BY <2>4, <3>1
  <2>8. CASE WriteKnown(conn) \/ WriteCommits(conn)
    <3>1. Answered(conn, <<"yes", "yes">>)
      BY <1>0, <2>8, WorkerEffects
    <3>2. <<"yes", "yes">> \in Seq(DownMsg) /\ \A i \in 1..Len(<<"yes", "yes">>) : <<"yes", "yes">>[i] # "no"
      BY LinkConstants
    <3> QED
      BY <2>4, <3>1, <3>2
  <2>9. CASE Refuses(conn)
    <3>1. Answered(conn, <<"no">>) /\ worker'[conn].at = "drain"
      BY <1>0, <2>9, WriterEffects DEF Becomes
    <3>2. <<"no">> \in Seq(DownMsg)
      BY LinkConstants
    <3> QED
      BY <1>0, <2>3, <3>1, <3>2, SaidMore DEF Answered, Mine
  <2> QED
    BY <1>5, <2>5, <2>6, <2>7, <2>8, <2>9 DEF Answering
<1> QED
  BY <1>1, <1>2, <1>3, <1>4, <1>5, Steps

LEMMA ListensUnder ==
  ASSUME TypeOK, Listens, ~(Quits \/ Returns)
  PROVE  /\ IF at = "login" THEN LoggedIn ELSE Under
         /\ Under' /\ at' # "login"
         /\ LoggedIn \/ Acknowledged \/ left' = left
         /\ LoggedIn \/ link'[conn].asked = Mine.asked
         /\ Takes \/ Leaving
<1>1. Turn # "none" => at = "ops"
  BY DEF Turn
<1>2. IF at = "login" THEN LoggedIn ELSE Under
  BY <1>1 DEF Listens, Listening, Quits, Under, LoggedIn, Asks, AsksVersion, Acknowledged, VersionSize,
              VersionContent, VersionInPlace, WriteSize, WriteInterrupted, WriteNotWanted, WriteChunk,
              WriteSent, WriteOver
<1>3. LoggedIn \/ Acknowledged \/ left' = left
  BY DEF Listens, Listening, Quits, Asks, AsksVersion, VersionSize, VersionContent, VersionInPlace,
         WriteSize, WriteInterrupted, WriteNotWanted, WriteChunk, WriteSent, WriteOver
<1>4. Under' /\ at' # "login"
  BY SenderEffects DEF Listens, Listening, Quits, Under
<1>5. LoggedIn \/ link'[conn].asked = Mine.asked
  BY SenderEffects DEF Listens, Listening, Quits, Settled
<1>6. Takes \/ Leaving
  BY SenderEffects DEF Listens, Listening, Quits
<1> QED
  BY <1>2, <1>3, <1>4, <1>5, <1>6

LEMMA OpeningStep ==
  ASSUME TypeOK, TypeOK', Opening, [Next]_vars
  PROVE  Opening'
<1>0. /\ Mine.down \in Seq(DownMsg) /\ conn \in Conn /\ Len(Mine.down) \in Nat
      /\ Mine.down = <<>> <=> Len(Mine.down) = 0
  <2>1. Mine.down \in Seq(DownMsg) /\ conn \in Conn
    BY MineLink, LinkFields
  <2> QED
    BY <2>1, EmptySeq
<1>n. Len(Mine.down) \in Nat
  BY <1>0
<1>m. \A m \in DownMsg : Len(Mine.down \o <<m>>) = Len(Mine.down) + 1
  BY <1>0
<1>1. CASE Calm
  <2>1. at = "idle" => Opening'
    BY <1>1 DEF Calm, Opening, Under
  <2>2. ASSUME at = "login" \/ Under
        PROVE  /\ Mine.down = <<>> => link'[conn].down = <<>>
               /\ Len(Mine.down) <= 1 => Len(link'[conn].down) <= 1
    <3>1. link'[conn].down \in Seq(DownMsg)
      <4>1. link'[conn] \in Link
        BY <1>0, TypeParts DEF LinkType
      <4> QED
        BY <4>1, LinkFields
    <3>3. Len(Mine.down) <= 1 => NoIsLast(Mine.down)
      BY <1>0 DEF NoIsLast
    <3>4. Len(Mine.down) <= 1 => Len(link'[conn].down) <= Len(Mine.down)
      BY <1>1, <2>2, <3>3 DEF Calm, CalmLink, Fewer, Under
    <3>5. link'[conn].down = <<>> <=> Len(link'[conn].down) = 0
      BY <3>1, EmptySeq
    <3>6. Len(Mine.down) \in Nat /\ Len(link'[conn].down) \in Nat
      BY <1>0, <3>1
    <3> QED
      BY <1>0, <3>4, <3>5, <3>6
  <2>3. CASE at = "login"
    <3>1. /\ at' = at /\ left' = left /\ ops' = ops /\ conn' = conn /\ ~Under'
          /\ NoHeader(link[conn].up) => NoHeader(link'[conn].up)
          /\ worker'[conn].at \in Busy => Peer.at \in Busy
          /\ worker'[conn].at \in {"login", "header"} => worker'[conn].at = Peer.at
      BY <1>1, <2>3 DEF Calm, CalmLink, CalmWorker, Reads, Under
    <3>2. worker'[conn].at \in {"login", "header", "drain", "closed"}
      <4>1. worker'[conn] \in WorkerRecord
        BY <1>0, TypeParts DEF WorkerType
      <4> QED
        BY <2>3, <3>1, <4>1 DEF Opening, WorkerRecord, Busy
    <3> QED
      BY <2>2, <2>3, <3>1, <3>2 DEF Opening, Mine, Peer
  <2>4. CASE Under
    BY <1>1, <2>2, <2>4 DEF Calm, CalmLink, CalmWorker, Reads, Opening, Under, Mine, Peer, Busy
  <2>5. CASE at # "login" /\ ~Under
    BY <1>1, <2>5 DEF Calm, Opening, Under
  <2> QED
    BY <2>3, <2>4, <2>5
<1>2. CASE ClientDies
  BY <1>2 DEF ClientDies, Opening, Under
<1>3. ASSUME NEW c \in Conn, Connect(c) PROVE Opening'
  <2>1. link'[c] = Fresh /\ conn' = c /\ at' = "login" /\ left' = ops /\ ops' = ops /\ worker'[c].at = "login"
    BY <1>3, TypeParts DEF Connect, LinkType, WorkerType, action
  <2>2. Mine'.down = <<>> /\ Mine'.up = <<"login">>
    BY <2>1 DEF Mine, Fresh
  <2>3. Len(<<>>) <= 1 /\ NoHeader(<<"login">>)
    BY DEF NoHeader
  <2> QED
    BY <2>1, <2>2, <2>3 DEF Opening, Under, Peer
<1>4. CASE Listens
  <2>0. worker' = worker /\ conn' = conn
    BY <1>4, ListensEffect
  <2>1. CASE Quits \/ Returns
    <3>1. at' \in {"drain", "idle"}
      BY <2>1, QuitsEffect DEF Returns
    <3> QED
      BY <3>1 DEF Opening, Under
  <2>2. CASE LoggedIn
    <3>1. /\ at = "login" /\ Mine.down # <<>> /\ link'[conn].down = Tail(Mine.down) /\ link'[conn].asked = ops
          /\ at' = "ops" /\ left' = left
      BY <2>2, SenderEffects DEF LoggedIn, Takes
    <3>2. Tail(Mine.down) = <<>>
      <4>1. Len(Mine.down) <= 1
        BY <3>1 DEF Opening
      <4> QED
        BY <1>0, <3>1, <4>1, TailOfOne
    <3> QED
      BY <2>0, <3>1, <3>2 DEF Opening, Under, Mine, Peer
  <2>3. CASE ~(Quits \/ Returns) /\ ~LoggedIn
    <3>1. Under /\ at' # "login" /\ (Acknowledged \/ left' = left) /\ link'[conn].asked = Mine.asked
          /\ (Takes \/ Leaving)
      BY <1>4, <2>3, ListensUnder
    <3>2. Acknowledged => Takes
      BY SenderEffects
    <3> QED
      BY <2>0, <3>1, <3>2 DEF Opening, Mine, Peer, Takes, Leaving
  <2> QED
    BY <2>1, <2>2, <2>3
<1>5. CASE Worker(conn) /\ Answering(conn)
  <2>1. at' = at /\ conn' = conn /\ left' = left /\ ops' = ops
    BY <1>5 DEF Worker, sender, action
  <2>2. Reads(conn)
    BY <1>0, <1>5, WorkerOthers
  <2>3. CASE Login(conn)
    <3>1. Peer.at = "login" /\ worker'[conn].at = "header" /\ Answered(conn, <<"yes">>)
      BY <1>0, <2>3, WorkerEffects DEF Becomes, Login, Peer
    <3>2. Mine.down = <<>> => Len(link'[conn].down) <= 1
      <4>1. link'[conn].down = Mine.down \/ link'[conn].down = Mine.down \o <<"yes">>
        BY <3>1 DEF Answered, Mine
      <4>2. Len(Mine.down \o <<"yes">>) = Len(Mine.down) + 1
        BY <1>m DEF DownMsg
      <4>3. ASSUME Mine.down = <<>> PROVE Len(link'[conn].down) <= 1
        <5>1. Len(Mine.down) = 0
          BY <1>0, <4>3, Zenon
        <5> QED
          BY <1>n, <4>1, <4>2, <5>1
      <4> QED
        BY <4>3
    <3> QED
      BY <2>1, <2>2, <3>1, <3>2 DEF Opening, Under, Reads, Mine, Peer
  <2>4. CASE Header(conn)
    <3>1. Peer.at = "header" /\ worker'[conn].at = "ops" /\ ~NoHeader(Mine.up)
      <4>1. Mine.up # <<>> /\ Head(Mine.up) = "header" /\ Mine.up \in Seq(UpMsg)
        BY <2>4, MineLink, LinkFields DEF Header, Told, Mine
      <4>2. 1 \in 1..Len(Mine.up) /\ Mine.up[1] = "header"
        BY <4>1
      <4> QED
        BY <1>0, <2>4, <4>2, WorkerEffects DEF Becomes, Header, Peer, NoHeader
    <3> QED
      BY <2>1, <3>1 DEF Opening, Under, Peer
  <2>5. CASE Performs(conn) \/ SendsVersion(conn) \/ WriteKnown(conn) \/ WriteCommits(conn)
    <3>1. Peer.at \in {"ops", "content"}
      <4>1. Asked(conn) # "none" => Peer.at = "ops"
        BY DEF Asked, Peer
      <4> QED
        BY <2>5, <4>1 DEF Performs, Renames, SendsVersion, WriteKnown, WriteCommits, Peer
    <3>2. worker'[conn].at = "ops"
      BY <1>0, <2>5, WorkerEffects DEF Becomes
    <3> QED
      BY <2>1, <3>1, <3>2 DEF Opening, Under, Peer
  <2>6. CASE Refuses(conn)
    <3>1. worker'[conn].at = "drain" /\ Answered(conn, <<"no">>)
      BY <1>0, <2>6, WriterEffects DEF Becomes
    <3>2. Peer.at \in {"login", "header", "ops", "content"}
      BY <1>0, <1>5, AnsweringPlace DEF Peer
    <3>3. Peer.at # "header"
      <4>1. Asked(conn) # "none" => Peer.at = "ops"
        BY DEF Asked, Peer
      <4>2. "none" \notin Op
        BY Ops
      <4> QED
        BY <2>6, <4>1, <4>2 DEF Refuses, CannotDo, Renames, Peer
    <3>4. Mine.down = <<>> => Len(link'[conn].down) <= 1
      <4>1. link'[conn].down = Mine.down \/ link'[conn].down = Mine.down \o <<"no">>
        BY <3>1 DEF Answered, Mine
      <4>2. Len(Mine.down \o <<"no">>) = Len(Mine.down) + 1
        BY <1>m DEF DownMsg
      <4>3. ASSUME Mine.down = <<>> PROVE Len(link'[conn].down) <= 1
        <5>1. Len(Mine.down) = 0
          BY <1>0, <4>3, Zenon
        <5> QED
          BY <1>n, <4>1, <4>2, <5>1
      <4> QED
        BY <4>3
    <3> QED
      BY <2>1, <2>2, <3>1, <3>2, <3>3, <3>4 DEF Opening, Under, Reads, Mine, Peer
  <2> QED
    BY <1>5, <2>3, <2>4, <2>5, <2>6 DEF Answering
<1> QED
  BY <1>1, <1>2, <1>3, <1>4, <1>5, Steps

-----------------------------------------------------------------------------
(***************************************************************************)
(* The answers under way never go beyond what the worker has done.         *)
(***************************************************************************)
Countable ==
  TypeOK /\ Places =>
    /\ Answers \in [Op -> Nat]
    /\ \A o \in Op : Ahead(o) \in Nat
    /\ left \in SUBSET Op

LEMMA AnswersNat == Countable
<1> SUFFICES ASSUME TypeOK, Places
             PROVE  Answers \in [Op -> Nat] /\ (\A o \in Op : Ahead(o) \in Nat) /\ left \in SUBSET Op
  BY DEF Countable
<1>1. n \in Nat /\ Mine.size \in Nat
  BY MineLink, LinkFields, TypeParts, ChunksAssumption DEF SenderType
<1>2. at = "content" => Mine.size - n + 1 \in Nat
  BY <1>1 DEF Places
<1>3. Mine.size + 2 \in Nat
  BY <1>1
<1>4. Answers \in [Op -> Nat]
  <2>1. ASSUME NEW o \in Op PROVE Answers[o] \in Nat
    BY <1>2, <1>3 DEF Answers
  <2>2. Answers = [o \in Op |-> Answers[o]]
    BY DEF Answers
  <2> QED
    BY <2>1, <2>2
<1>5. left \in SUBSET Op
  BY JobOps
<1>6. \A o \in Op : Earlier(o) \in SUBSET Op
  BY <1>5 DEF Earlier
<1> QED
  BY <1>4, <1>5, <1>6, SumNat DEF Ahead

LEMMA AnswersNatNext == Countable'
BY AnswersNat, PTL

(* A step after which no answer more is under way than the sender has still to take. *)
LEMMA TurnsKept ==
  ASSUME TypeOK, Turns,
         conn' = conn, left' \subseteq left, done \subseteq done',
         Heeds' => Heeds,
         refusals' = 0 => refusals = 0,
         Refused(Mine.down)' => Refused(Mine.down),
         \A o \in left' : Heeds' /\ Said(Mine.down) <= Ahead(o) => (Said(Mine.down) <= Ahead(o))',
         \A o \in left \ left' : Heeds' /\ Said(Mine.down) <= Ahead(o) => ~Refused(Mine.down)',
         worker'[conn].at \in Busy =>
           Peer.at \in Busy /\ worker'[conn].left = Peer.left /\ (Heeds' => left \cap Peer.left \subseteq left')
  PROVE  Turns'
<1> SUFFICES ASSUME Heeds'
             PROVE  /\ (Peer.at \in Busy => Peer.left \subseteq left /\ left \ Peer.left \subseteq done)'
                    /\ \A o \in ToDo' : (Said(Mine.down) <= Ahead(o))'
                    /\ refusals' = 0 /\ Refused(Mine.down)' =>
                         \E o \in left' \cap {"move", "remove"} : (Said(Mine.down) <= Ahead(o))'
  BY DEF Turns, WorkerAhead, AnswersFit, RefusedInTurn
<1>1. Peer' = worker'[conn]
  BY DEF Peer
<1>2. Peer.at \in Busy => Peer.left \subseteq left /\ left \ Peer.left \subseteq done
  BY DEF Turns, WorkerAhead
<1>3. (Peer.at \in Busy => Peer.left \subseteq left /\ left \ Peer.left \subseteq done)'
  BY <1>1, <1>2
<1>4. ToDo' \subseteq ToDo
  BY <1>1, <1>2 DEF ToDo
<1>5. ToDo' \subseteq left'
  BY DEF ToDo
<1>6. \A o \in ToDo' : (Said(Mine.down) <= Ahead(o))'
  BY <1>4, <1>5 DEF Turns, AnswersFit
<1>7. ASSUME refusals' = 0, Refused(Mine.down)'
      PROVE  \E o \in left' \cap {"move", "remove"} : (Said(Mine.down) <= Ahead(o))'
  <2>1. PICK o \in left \cap {"move", "remove"} : Said(Mine.down) <= Ahead(o)
    BY <1>7 DEF Turns, RefusedInTurn
  <2>2. o \in left'
    BY <1>7, <2>1
  <2> QED
    BY <2>1, <2>2
<1> QED
  BY <1>3, <1>6, <1>7

LEMMA AheadSame ==
  ASSUME TypeOK, left' = left, NEW o \in Op,
         \A p \in Earlier(o) : Answers'[p] = Answers[p]
  PROVE  Ahead(o)' = Ahead(o)
<1>1. Earlier(o)' = Earlier(o) /\ Earlier(o) \in SUBSET Op
  BY JobOps DEF Earlier
<1> QED
  BY <1>1, SumSame DEF Ahead

LEMMA CalmTurns ==
  ASSUME TypeOK, TypeOK', Places, Ended, Turns, Calm
  PROVE  Turns'
<1>1. CASE at = "idle" \/ ~Under
  BY <1>1 DEF Calm, Turns, WorkerAhead, AnswersFit, RefusedInTurn, Heeds, Under
<1>2. CASE Under
  <2>1. /\ CalmLink /\ CalmWorker /\ conn' = conn /\ left' = left /\ done \subseteq done'
        /\ Mine' = link'[conn]
    BY <1>2 DEF Calm, Under, Mine
  <2>2. Fewer(Mine.down, Mine'.down) /\ NoIsLast(Mine.down)
    BY <1>2, <2>1 DEF CalmLink, Ended
  <2>3. Mine.down \in Seq(DownMsg) /\ Mine'.down \in Seq(DownMsg)
    <3>1. Mine' \in Link
      BY <2>1, TypeParts, MineLink DEF LinkType
    <3> QED
      BY <3>1, MineLink, LinkFields
  <2>4. Said(Mine.down) \in Nat /\ Said(Mine'.down) \in Nat /\ Said(Mine'.down) <= Said(Mine.down)
    BY <2>2, <2>3, SaidNat DEF Fewer
  <2>5. Answers' = Answers
    BY <2>1 DEF Calm, CalmLink, Answers, Acking
  <2>6. \A o \in Op : Ahead(o)' = Ahead(o)
    BY <2>1, <2>5, AheadSame
  <2>7. left \in SUBSET Op /\ refusals \in Nat /\ refusals' \in Nat
    BY JobOps, TypeParts, BoundAssumption DEF BoundsType
  <2>8. \A o \in left : Said(Mine.down) <= Ahead(o) => (Said(Mine.down) <= Ahead(o))'
    <3>1. \A o \in Op : Ahead(o) \in Nat
      BY AnswersNat DEF Countable
    <3> QED
      BY <2>4, <2>6, <2>7, <3>1
  <2>9. Heeds' => Heeds
    BY <1>2 DEF Calm, Heeds, Under, Acking
  <2>10. refusals' = 0 => refusals = 0
    BY <2>7 DEF Calm
  <2>11. Refused(Mine.down)' => Refused(Mine.down)
    BY <2>2 DEF Fewer
  <2> QED
    BY <2>1, <2>8, <2>9, <2>10, <2>11, TurnsKept DEF CalmWorker
<1> QED
  BY <1>1, <1>2

(* One answer of the first operation is taken, or all that there is of it. *)
LEMMA AheadLess ==
  ASSUME TypeOK, TypeOK', Places, Places', left' = left, NEW f \in left, NEW o \in left, f \in Earlier(o),
         \A p \in Op \ {f} : Answers'[p] = Answers[p],
         Answers[f] = Answers'[f] + 1
  PROVE  Ahead(o) = Ahead(o)' + 1
<1>1. Answers \in [Op -> Nat] /\ Answers' \in [Op -> Nat] /\ left \in SUBSET Op
  BY AnswersNat, AnswersNatNext DEF Countable
<1> DEFINE E == Earlier(o)
<1>2. Earlier(o)' = E /\ E \in SUBSET Op /\ f \in E /\ E \ {f} \in SUBSET Op
  BY <1>1 DEF Earlier
<1> HIDE DEF E
<1>3. Sum(Answers, E) = Answers[f] + Sum(Answers, E \ {f})
  BY <1>1, <1>2, SumSplit
<1>4. Sum(Answers', E) = Answers'[f] + Sum(Answers', E \ {f})
  BY <1>1, <1>2, SumSplit
<1>5. Sum(Answers', E \ {f}) = Sum(Answers, E \ {f})
  BY <1>2, SumSame
<1>6. Sum(Answers, E \ {f}) \in Nat /\ Answers'[f] \in Nat
  BY <1>1, <1>2, SumNat
<1> QED
  BY <1>2, <1>3, <1>4, <1>5, <1>6 DEF Ahead, E

LEMMA AheadWithout ==
  ASSUME TypeOK, TypeOK', Places, Places', NEW f \in left, left' = left \ {f}, NEW o \in left', f \in Earlier(o),
         \A p \in Op \ {f} : Answers'[p] = Answers[p],
         Answers[f] = 1
  PROVE  Ahead(o) = Ahead(o)' + 1
<1>1. Answers \in [Op -> Nat] /\ Answers' \in [Op -> Nat] /\ left \in SUBSET Op
  BY AnswersNat, AnswersNatNext DEF Countable
<1> DEFINE E == Earlier(o)
<1>2. Earlier(o)' = E \ {f} /\ E \in SUBSET Op /\ f \in E /\ E \ {f} \in SUBSET Op
  BY <1>1 DEF Earlier
<1> HIDE DEF E
<1>3. Sum(Answers, E) = Answers[f] + Sum(Answers, E \ {f})
  BY <1>1, <1>2, SumSplit
<1>5. Sum(Answers', E \ {f}) = Sum(Answers, E \ {f})
  BY <1>2, SumSame
<1>6. Sum(Answers, E \ {f}) \in Nat
  BY <1>1, <1>2, SumNat
<1> QED
  BY <1>2, <1>3, <1>5, <1>6 DEF Ahead, E

(* What the sender takes is one of the answers it had still to take. *)
LEMMA ListensTurns ==
  ASSUME TypeOK, TypeOK', Places, Places', Opening, Ended, Turns, Listens
  PROVE  Turns'
<1>0. /\ worker' = worker /\ conn' = conn /\ done' = done /\ run' = run /\ refusals' = refusals
      /\ Mine' = link'[conn] /\ Peer' = Peer
  BY ListensEffect DEF Mine, Peer
<1>1. CASE Quits \/ Returns
  <2>1. at' \in {"drain", "idle"}
    BY <1>1, QuitsEffect DEF Returns
  <2> QED
    BY <2>1 DEF Turns, WorkerAhead, AnswersFit, RefusedInTurn, Heeds, Under
<1>2. CASE LoggedIn
  <2>1. /\ at = "login" /\ Mine.down # <<>> /\ link'[conn].down = Tail(Mine.down) /\ left' = left
    BY <1>2, SenderEffects DEF LoggedIn, Takes
  <2>2. Mine'.down = <<>>
    <3>1. Len(Mine.down) <= 1 /\ Mine.down \in Seq(DownMsg)
      BY <2>1, MineLink, LinkFields DEF Opening
    <3>2. Tail(Mine.down) = <<>>
      BY <2>1, <3>1, TailOfOne
    <3> QED
      BY <1>0, <2>1, <3>2
  <2>3. Peer.at \notin Busy
    BY <2>1 DEF Opening, Busy
  <2>4. Said(<<>>) = 0 /\ ~Refused(<<>>)
    BY DEF Said, Refused
  <2>5. \A o \in left' : Ahead(o)' \in Nat
    BY AnswersNatNext DEF Countable
  <2>6. ToDo' \subseteq left'
    BY DEF ToDo
  <2>7. \A o \in ToDo' : (Said(Mine.down) <= Ahead(o))'
    BY <2>2, <2>4, <2>5, <2>6
  <2> QED
    BY <1>0, <2>2, <2>3, <2>4, <2>7 DEF Turns, WorkerAhead, AnswersFit, RefusedInTurn
<1>3. CASE ~(Quits \/ Returns) /\ ~LoggedIn
  <2>1. Under /\ (Takes \/ Leaving)
    BY <1>3, ListensUnder
  <2>2. \A o \in Op : Ahead(o) \in Nat /\ Ahead(o)' \in Nat
    BY AnswersNat, AnswersNatNext DEF Countable
  <2>3. left \in SUBSET Op
    BY JobOps
  <2>4. /\ Said(Mine.down) \in Nat /\ Said(Mine'.down) \in Nat
        /\ Said(Mine'.down) <= Said(Mine.down)
        /\ Refused(Mine'.down) => Refused(Mine.down)
        /\ Takes => IF Said(Mine.down) > 0 THEN Said(Mine'.down) = Said(Mine.down) - 1
                    ELSE Said(Mine'.down) = 0 /\ Head(Mine.down) = "no" /\ ~Refused(Mine'.down)
    <3>1. Said(Mine.down) \in Nat
      BY MineLink, LinkFields, SaidNat
    <3>2. CASE Leaving /\ ~Takes
      BY <1>0, <3>1, <3>2 DEF Leaving
    <3>3. CASE Takes
      <4>1. Mine'.down = Tail(Mine.down) /\ Mine.down # <<>>
        BY <1>0, <3>3 DEF Takes
      <4>2. ~Refused(<<>>)
        BY DEF Refused
      <4> QED
        <5> DEFINE t == Tail(Mine.down)
        <5>1. Mine.down # <<>> /\ Mine'.down = t
          BY <4>1
        <5>2. Said(Mine.down) = 0 => t = <<>> /\ Head(Mine.down) = "no" /\ Said(t) = 0
          BY <2>1, <5>1, TakenAnswer
        <5>3. Said(Mine.down) = 0 => ~Refused(t)
          BY <4>2, <5>2, Zenon
        <5>4. /\ Said(t) \in Nat /\ (Refused(t) => Refused(Mine.down))
              /\ Said(Mine.down) > 0 => Said(t) = Said(Mine.down) - 1
          BY <2>1, <5>1, TakenAnswer
        <5>5. Said(Mine.down) = 0 => Head(Mine.down) = "no" /\ Said(t) = 0
          BY <5>2
        <5> HIDE DEF t
        <5>6. Said(t) <= Said(Mine.down)
          BY <3>1, <5>4, <5>5
        <5> QED
          BY <3>1, <5>1, <5>3, <5>4, <5>5, <5>6
    <3> QED
      BY <2>1, <3>2, <3>3
  <2>5. ASSUME left' = left, Heeds' => Heeds,
               \A o \in left : Heeds' /\ Said(Mine.down) <= Ahead(o) => (Said(Mine.down) <= Ahead(o))'
        PROVE  Turns'
    BY <1>0, <2>4, <2>5, TurnsKept DEF Peer
  <2>6. ASSUME left' = left, Heeds' => Heeds,
               Heeds' => \A o \in left : \A p \in Earlier(o) : Answers'[p] = Answers[p]
        PROVE  Turns'
    <3>1. ASSUME NEW o \in left, Heeds' PROVE Ahead(o)' = Ahead(o)
      BY <2>3, <2>6, <3>1, AheadSame
    <3> QED
      BY <2>2, <2>3, <2>4, <2>5, <2>6, <3>1
  <2>7. CASE Asks
    <3>1. /\ at = "ops" /\ run /\ at' = "ack" /\ left' = left /\ left # {} /\ Mine'.size = Mine.size
          /\ First[left] \in {"create", "move", "remove", "apply"}
      BY <1>0, <2>7, SenderEffects, TurnIs DEF Asks, Settled
    <3>2. Answers' = Answers
      BY <3>1 DEF Answers, Acking
    <3> QED
      BY <2>6, <3>1, <3>2 DEF Heeds, Under
  <2>8. CASE AsksVersion
    <3>1. /\ at = "ops" /\ run /\ at' = "size" /\ left' = left /\ Mine'.size = Mine.size
      BY <1>0, <2>8, SenderEffects, TurnIs DEF AsksVersion, Settled
    <3>2. Answers' = Answers
      BY <3>1 DEF Answers, Acking
    <3> QED
      BY <2>6, <3>1, <3>2 DEF Heeds, Under
  <2>9. CASE VersionInPlace
    <3>1. /\ at = "content" /\ at' = "ack" /\ left' = left /\ Mine'.size = Mine.size /\ (n = Mine.size \/ ~run)
          /\ n' = n /\ First[left] = "version" /\ n \in Int
      BY <1>0, <2>9, SenderEffects, TypeParts DEF VersionInPlace, Settled, Places, SenderType
    <3>2. Heeds' => n = Mine.size
      BY <1>0, <3>1 DEF Heeds, Acking
    <3>3. n = Mine.size => Answers' = Answers
      BY <3>1 DEF Answers, Acking
    <3>4. Heeds
      BY <3>1 DEF Heeds, Under, Acking
    <3> QED
      BY <2>6, <3>1, <3>2, <3>3, <3>4
  <2>10. CASE VersionSize \/ VersionContent
    <3>1. /\ at \in {"size", "content"} /\ at' = "content" /\ left' = left /\ Mine'.size = Mine.size
          /\ n' = (IF at = "size" THEN 0 ELSE n + 1)
          /\ First[left] = "version" /\ left # {}
          /\ n \in Nat /\ Mine.size \in Nat
          /\ Takes
      BY <1>0, <2>10, MineLink, LinkFields, SenderEffects, TypeParts, ChunksAssumption
         DEF VersionSize, VersionContent, Settled, Places, SenderType
    <3>2. /\ \A p \in Op \ {"version"} : Answers'[p] = Answers[p]
          /\ "version" \in Op /\ Answers["version"] = Answers'["version"] + 1
      BY <3>1, Ops DEF Answers, Acking
    <3>3. Heeds
      BY <3>1 DEF Heeds, Under, Acking
    <3>4. ASSUME NEW o \in left PROVE Said(Mine.down) <= Ahead(o) => (Said(Mine.down) <= Ahead(o))'
      <4>1. CASE o = "version"
        <5>1. Ahead(o) = 0
          BY <3>1, <4>1, NothingAhead
        <5> QED
          BY <2>2, <2>3, <2>4, <5>1
      <4>2. CASE o # "version"
        <5>1. Ahead(o) = Ahead(o)' + 1
          BY <2>3, <3>1, <3>2, <4>2, AheadLess, NothingAhead
        <5> QED
          BY <2>2, <2>3, <2>4, <3>1, <5>1
      <4> QED
        BY <4>1, <4>2
    <3> QED
      BY <2>5, <3>1, <3>3, <3>4
  <2>11. CASE WriteSize \/ WriteInterrupted \/ WriteNotWanted \/ WriteChunk \/ WriteSent \/ WriteOver
    <3>1. /\ left' = left /\ left # {} /\ First[left] = "write" /\ Heeds
      BY <2>11, TurnIs
         DEF WriteSize, WriteInterrupted, WriteNotWanted, WriteChunk, WriteSent, WriteOver, Places, Heeds,
             Under, Acking
    <3>2. \A o \in left : Ahead(o) = 0
      BY <2>3, <3>1, LastIsWrite, NothingAhead
    <3> QED
      BY <2>2, <2>3, <2>4, <2>5, <3>1, <3>2
  <2>12. CASE Acknowledged
    <3> DEFINE f == First[left]
    <3>1. /\ at = "ack" /\ at' = "ops" /\ left' = left \ {f} /\ Mine'.size = Mine.size /\ left # {} /\ Takes
      BY <1>0, <2>12, SenderEffects DEF Acknowledged, Settled, Places
    <3>2. f \in left /\ f \in Op /\ Ahead(f) = 0 /\ \A o \in left \ {f} : f \in Earlier(o)
      BY <3>1, NothingAhead
    <3> HIDE DEF f
    <3>3. \A p \in Op \ {f} : Answers'[p] = Answers[p]
      BY <3>1 DEF Answers, Acking, f
    <3>4. Answers[f] = 1
      BY <3>1, <3>2 DEF Answers, Acking, f
    <3>5. ASSUME NEW o \in left' PROVE Said(Mine.down) <= Ahead(o) => (Said(Mine.down) <= Ahead(o))'
      <4>1. Ahead(o) = Ahead(o)' + 1
        BY <2>3, <3>1, <3>2, <3>3, <3>4, AheadWithout
      <4>2. o \in Op
        BY <2>3, <3>1
      <4> QED
        BY <2>2, <2>4, <3>1, <4>1, <4>2
    <3>6. Heeds' => Heeds
      BY <1>0, <3>1 DEF Heeds, Under
    <3>7. ASSUME NEW o \in left \ left', Said(Mine.down) <= Ahead(o) PROVE ~Refused(Mine.down)'
      BY <2>4, <3>1, <3>2, <3>7
    <3>8. ASSUME Peer.at \in Busy, Heeds' PROVE left \cap Peer.left \subseteq left'
      <4>1. ~Refused(Mine.down)
        BY <2>1, <3>8 DEF Ended, Busy
      <4>2. Said(Mine.down) > 0
        BY <2>1, <2>4, <3>1, <4>1, TakenAnswer DEF Takes
      <4> QED
        BY <3>1, <3>6, <3>8, <4>2, AnswerMeansDone DEF f
    <3> QED
      BY <1>0, <2>4, <3>1, <3>5, <3>6, <3>7, <3>8, TurnsKept DEF Peer
  <2> QED
    BY <1>3, <2>7, <2>8, <2>9, <2>10, <2>11, <2>12 DEF Listens, Listening, Quits
<1> QED
  BY <1>1, <1>2, <1>3

(* The worker answers the first operation it has to do, and goes on to the next. *)
LEMMA OnwardTurns ==
  ASSUME TypeOK, TypeOK', Places, Places', Ended, Turns, Heeds,
         UNCHANGED <<at, conn, left, n, run>>,
         Peer.at \in Busy, worker'[conn].at \in Busy,
         NEW f \in Peer.left, f = First[Peer.left],
         worker'[conn].left = Peer.left \ {f},
         done \subseteq done', f \in done',
         NEW msgs \in Seq(DownMsg), \A i \in 1..Len(msgs) : msgs[i] # "no",
         Answered(conn, msgs),
         \A p \in Op \ {f} : Answers'[p] = Answers[p],
         Peer.left # {f} => Len(msgs) <= Answers'[f]
  PROVE  Turns'
<1>1. Answers \in [Op -> Nat] /\ Answers' \in [Op -> Nat] /\ left \in SUBSET Op
  BY AnswersNat, AnswersNatNext DEF Countable
<1>2. Peer' = worker'[conn] /\ Mine' = link'[conn] /\ Mine.down \in Seq(DownMsg)
  BY MineLink, LinkFields DEF Peer, Mine
<1>3. Peer.left \subseteq left /\ left \ Peer.left \subseteq done /\ f \in ToDo /\ f \in left
  BY DEF Turns, WorkerAhead, ToDo
<1>4. WorkerAhead'
  BY <1>2, <1>3 DEF WorkerAhead
<1>5. Said(Mine.down) \in Nat /\ Said(Mine.down) <= Ahead(f) /\ ~Refused(Mine.down) /\ NoIsLast(Mine.down)
  BY <1>2, <1>3, SaidNat DEF Turns, AnswersFit, Ended, Heeds, Busy
<1>6. Said(Mine'.down) <= Said(Mine.down) + Len(msgs) /\ ~Refused(Mine'.down) /\ Said(Mine'.down) \in Nat
  <2>1. Len(msgs) \in Nat
    OBVIOUS
  <2>2. CASE link'[conn].down = Mine.down
    BY <1>2, <1>5, <2>1, <2>2
  <2>3. CASE link'[conn].down = Mine.down \o msgs
    <3>1. Mine.down \o msgs \in Seq(DownMsg)
      BY <1>2
    <3>2. /\ Said(Mine.down \o msgs) <= Said(Mine.down) + Len(msgs)
          /\ ~Refused(Mine.down \o msgs) /\ Said(Mine.down \o msgs) \in Nat
      BY <1>2, <1>5, <3>1, SaidMore, SaidNat
    <3> QED
      BY <1>2, <2>3, <3>2
  <2> QED
    BY <2>2, <2>3 DEF Answered, Mine
<1>7. RefusedInTurn'
  BY <1>6 DEF RefusedInTurn
<1>8. ASSUME NEW o \in ToDo' PROVE (Said(Mine.down) <= Ahead(o))'
  <2>1. o \in Peer.left \ {f} /\ o \in left
    BY <1>2, <1>8 DEF ToDo
  <2>2. Len(msgs) <= Answers'[f] /\ Len(msgs) \in Nat
    BY <2>1
  <2>3. Rank[f] < Rank[o] /\ \A p \in Op : Rank[p] \in 1..6
    <3>1. Peer.left \in SUBSET Op
      BY <1>1, <1>3
    <3>2. \A p \in Peer.left : Rank[f] <= Rank[p]
      BY <3>1, FirstOne
    <3> QED
      BY <2>1, <3>1, <3>2, RankNat
  <2> DEFINE E == Earlier(f)
             F == Earlier(o)
  <2>4. /\ Earlier(o)' = F /\ E \in SUBSET Op /\ F \in SUBSET Op /\ f \notin E
        /\ E \cup {f} \subseteq F
    <3>1. \A p \in Op : Rank[p] \in Int
      BY <2>3
    <3>2. E = {p \in left : Rank[p] < Rank[f]} /\ F = {p \in left : Rank[p] < Rank[o]} /\ Earlier(o)' = F
      BY <1>1 DEF Earlier
    <3>3. f \in Op /\ o \in Op /\ f \notin E
      BY <1>1, <1>3, <2>1, <3>1, <3>2
    <3> HIDE DEF E, F
    <3>4. E \cup {f} \subseteq F
      <4>1. \A p \in left : Rank[p] < Rank[f] => Rank[p] < Rank[o]
        BY <1>1, <2>3, <3>1, <3>3
      <4> QED
        BY <1>3, <2>3, <3>2, <4>1
    <3> QED
      BY <1>1, <3>2, <3>3, <3>4
  <2> HIDE DEF E, F
  <2>5. Sum(Answers', E \cup {f}) <= Sum(Answers', F)
    BY <1>1, <2>4, SumMore
  <2>6. Sum(Answers', E \cup {f}) = Answers'[f] + Sum(Answers', E)
    <3>1. (E \cup {f}) \ {f} = E /\ E \cup {f} \in SUBSET Op
      BY <1>1, <1>3, <2>4
    <3> QED
      BY <1>1, <3>1, SumSplit
  <2>7. Sum(Answers', E) = Sum(Answers, E)
    BY <2>4, SumSame
  <2>8. Sum(Answers', E) \in Nat /\ Sum(Answers', F) \in Nat /\ Answers'[f] \in Nat
        /\ Sum(Answers', E \cup {f}) \in Nat
    <3>1. f \in Op /\ E \cup {f} \in SUBSET Op
      BY <1>1, <1>3, <2>4
    <3> QED
      BY <1>1, <2>4, <3>1, SumNat
  <2>9. Ahead(f) = Sum(Answers, E) /\ Ahead(o)' = Sum(Answers', F)
    BY <2>4 DEF Ahead, E
  <2> QED
    BY <1>5, <1>6, <2>2, <2>5, <2>6, <2>7, <2>8, <2>9
<1> QED
  BY <1>4, <1>7, <1>8 DEF Turns, AnswersFit

LEMMA WorkerTurns ==
  ASSUME TypeOK, TypeOK', Places, Places', Workers, Opening, Ended, Turns, Worker(conn), Answering(conn)
  PROVE  Turns'
<1>1. /\ UNCHANGED <<at, conn, left, n, run>> /\ conn \in Conn /\ done \subseteq done'
      /\ Peer' = worker'[conn] /\ Mine' = link'[conn]
  BY MineLink, WorkerGrows DEF Worker, sender, action, Peer, Mine
<1>2. CASE ~Heeds
  BY <1>1, <1>2 DEF Turns, WorkerAhead, AnswersFit, RefusedInTurn, Heeds, Under, Acking
<1>3. CASE Heeds
  <2>0. Under /\ Peer.at # "login"
    BY <1>3 DEF Heeds, Opening
  <2>1. CASE Login(conn)
    BY <2>0, <2>1 DEF Login, Peer
  <2>2. CASE Header(conn)
    <3>1. Mine.down = <<>> /\ Mine.asked = left
      BY <2>0, <2>2 DEF Header, Opening, Peer
    <3>2. worker'[conn].at = "ops" /\ worker'[conn].left = left /\ link'[conn].down = <<>>
      BY <1>1, <2>2, <3>1, WorkerEffects DEF Becomes, Mine
    <3>3. WorkerAhead'
      BY <1>1, <3>2 DEF WorkerAhead
    <3>4. Said(<<>>) = 0 /\ ~Refused(<<>>)
      BY DEF Said, Refused
    <3>5. \A o \in ToDo' : (Said(Mine.down) <= Ahead(o))'
      <4>1. \A o \in Op : Ahead(o)' \in Nat
        BY AnswersNatNext DEF Countable
      <4>2. ToDo' \subseteq Op
        BY AnswersNatNext DEF Countable, ToDo
      <4> QED
        BY <1>1, <3>2, <3>4, <4>1, <4>2
    <3> QED
      BY <1>1, <3>2, <3>3, <3>4, <3>5 DEF Turns, AnswersFit, RefusedInTurn
  <2>3. CASE Performs(conn)
    <3>1. Asked(conn) \in {"create", "move", "remove", "apply"} /\ done' = done \cup {Asked(conn)}
      BY <2>3 DEF Performs, Renames
    <3>2. /\ Peer.at = "ops" /\ Asked(conn) \in Peer.left /\ Asked(conn) = First[Peer.left]
          /\ Asked(conn) \in Op
      BY <1>1, <3>1, AskedOne DEF Peer
    <3>3. /\ worker'[conn].at = "ops" /\ worker'[conn].left = Peer.left \ {Asked(conn)}
          /\ Answered(conn, <<"yes">>) /\ Mine'.size = Mine.size
      BY <1>1, <2>3, <3>2, WorkerEffects DEF Becomes, SameSize, Peer, Mine
    <3> DEFINE one == <<"yes">>
               f == Asked(conn)
    <3>4. one \in Seq(DownMsg) /\ (\A i \in 1..Len(one) : one[i] # "no") /\ Answered(conn, one)
      BY <3>3, LinkConstants
    <3>5. Answers' = Answers /\ Answers[f] = 1
      BY <1>1, <3>1, <3>2, <3>3 DEF Answers, Acking
    <3>6. Len(one) = 1
      OBVIOUS
    <3> HIDE DEF one, f
    <3>7. Len(one) <= Answers'[f]
      BY <3>5, <3>6
    <3>8. /\ f \in Peer.left /\ f = First[Peer.left] /\ worker'[conn].left = Peer.left \ {f}
          /\ f \in done' /\ Peer.at \in Busy /\ worker'[conn].at \in Busy
      BY <3>1, <3>2, <3>3 DEF f, Busy
    <3> QED
      BY <1>1, <1>3, <3>4, <3>5, <3>7, <3>8, OnwardTurns
  <2>4. CASE SendsVersion(conn)
    <3>1. Asked(conn) = "version" /\ done' = done \cup {"version"}
      BY <2>4 DEF SendsVersion
    <3>2. /\ Peer.at = "ops" /\ "version" \in Peer.left /\ "version" = First[Peer.left]
          /\ "version" \in Op
      BY <1>1, <3>1, AskedOne DEF Peer
    <3>3. PICK s \in 0..Chunks, msgs \in Seq(DownMsg) :
            /\ link'[conn].size = s /\ Len(msgs) = s + 2
            /\ \A i \in 1..Len(msgs) : msgs[i] # "no"
            /\ Answered(conn, msgs)
      BY <1>1, <2>4, WorkerEffects
    <3>4. worker'[conn].at = "ops" /\ worker'[conn].left = Peer.left \ {"version"}
      BY <1>1, <2>4, <3>2, WorkerEffects DEF Becomes, Peer
    <3>5. at # "content" /\ ~Acking("version")
      BY <3>2 DEF Places, Busy
    <3>6. Answers'["version"] = s + 2 /\ \A p \in Op \ {"version"} : Answers'[p] = Answers[p]
      BY <1>1, <3>2, <3>3, <3>5 DEF Answers, Acking
    <3>7. Len(msgs) <= Answers'["version"]
      BY <3>3, <3>6
    <3> QED
      BY <1>1, <1>3, <3>1, <3>2, <3>3, <3>4, <3>6, <3>7, OnwardTurns DEF Busy
  <2>5. CASE WriteKnown(conn) \/ WriteCommits(conn)
    <3>1. Peer.at \in {"ops", "content"} /\ Peer.left = {"write"} /\ "write" \in done'
      <4>1. CASE WriteCommits(conn)
        BY <1>1, <4>1 DEF WriteCommits, Workers, Peer
      <4>2. CASE WriteKnown(conn)
        <5>1. Asked(conn) = "write" /\ "write" \in done'
          BY <4>2 DEF WriteKnown, store
        <5>2. worker[conn].left \in SUBSET Op
          BY <1>1, TypeParts DEF WorkerType, WorkerRecord
        <5> QED
          BY <1>1, <5>1, <5>2, AskedOne, LastIsWrite DEF Peer
      <4> QED
        BY <2>5, <4>1, <4>2
    <3>2. "write" = First[Peer.left] /\ "write" \in Op
      <4>1. "write" \in Op
        BY Ops
      <4>2. First[{"write"}] \in {"write"}
        BY <4>1, FirstOne
      <4> QED
        BY <3>1, <4>1, <4>2
    <3>3. /\ worker'[conn].at = "ops" /\ worker'[conn].left = Peer.left \ {"write"}
          /\ Answered(conn, <<"yes", "yes">>) /\ Mine'.size = Mine.size
      BY <1>1, <2>5, <3>2, WorkerEffects DEF Becomes, SameSize, Peer, Mine
    <3> DEFINE both == <<"yes", "yes">>
    <3>4. both \in Seq(DownMsg) /\ (\A i \in 1..Len(both) : both[i] # "no") /\ Answered(conn, both)
      BY <3>3, LinkConstants
    <3>5. Answers' = Answers
      BY <1>1, <3>3 DEF Answers, Acking
    <3>6. Peer.at \in Busy /\ worker'[conn].at \in Busy /\ "write" \in Peer.left /\ ~(Peer.left # {"write"})
      BY <3>1, <3>3 DEF Busy
    <3> HIDE DEF both
    <3> QED
      BY <1>1, <1>3, <3>1, <3>2, <3>3, <3>4, <3>5, <3>6, OnwardTurns
  <2>6. CASE Refuses(conn)
    <3>1. worker'[conn].at = "drain" /\ Answered(conn, <<"no">>) /\ Mine'.size = Mine.size
      BY <1>1, <2>6, WriterEffects DEF Becomes, SameSize, Mine
    <3>2. Peer.at \in Busy
      <4>1. Peer.at \in {"login", "header", "ops", "content"}
        BY <1>1, AnsweringPlace DEF Peer
      <4>2. Peer.at # "header"
        <5>1. "none" \notin Op
          BY Ops
        <5> QED
          BY <2>6, <5>1 DEF Refuses, CannotDo, Renames, Asked, Peer
      <4> QED
        BY <2>0, <4>1, <4>2 DEF Busy
    <3>3. Mine.down \in Seq(DownMsg) /\ NoIsLast(Mine.down) /\ ~Refused(Mine.down) /\ Said(Mine.down) \in Nat
      BY <2>0, <3>2, MineLink, LinkFields, SaidNat DEF Ended, Busy
    <3>4. Said(Mine'.down) = Said(Mine.down)
      <4>1. <<"no">> \in Seq(DownMsg)
        BY LinkConstants
      <4>2. Said(Mine.down \o <<"no">>) = Said(Mine.down)
        BY <3>3, <4>1, SaidMore
      <4> QED
        BY <1>1, <3>1, <4>2 DEF Answered, Mine
    <3>5. Answers' = Answers /\ \A o \in Op : Ahead(o)' = Ahead(o)
      <4>1. Answers' = Answers
        BY <1>1, <3>1 DEF Answers, Acking
      <4> QED
        BY <1>1, <4>1, AheadSame
    <3>6. Peer.left \subseteq left /\ left \ Peer.left \subseteq done /\ left \in SUBSET Op
      BY <1>3, <3>2, JobOps DEF Turns, WorkerAhead
    <3>7. AnswersFit'
      <4>1. ToDo' \subseteq ToDo /\ ToDo \subseteq left
        BY <1>1, <3>1, <3>2, <3>6 DEF ToDo, Busy
      <4> QED
        BY <1>3, <3>4, <3>5, <3>6, <4>1 DEF Turns, AnswersFit
    <3>8. ASSUME refusals' = 0 PROVE RefusedInTurn'
      <4>1. Twice(Asked(conn))
        <5>1. refusals \in Nat
          BY TypeParts, BoundAssumption DEF BoundsType
        <5>2. ~Twice(Asked(conn)) => refusals' = refusals + 1
          BY <2>6 DEF Refuses, CannotDo
        <5> QED
          BY <3>8, <5>1, <5>2
      <4>2. Asked(conn) \in Peer.left \cap {"move", "remove"}
        BY <1>1, <4>1, AskedOne DEF Twice, Peer
      <4>3. Asked(conn) \in ToDo /\ Asked(conn) \in left
        BY <3>2, <3>6, <4>2 DEF ToDo
      <4>4. Said(Mine.down) <= Ahead(Asked(conn))
        BY <1>3, <4>3 DEF Turns, AnswersFit
      <4> QED
        BY <1>1, <3>4, <3>5, <3>6, <4>2, <4>3, <4>4 DEF RefusedInTurn
    <3>9. refusals' # 0 => RefusedInTurn'
      BY DEF RefusedInTurn
    <3> QED
      BY <1>1, <3>1, <3>7, <3>8, <3>9 DEF Turns, WorkerAhead, Busy
  <2> QED
    BY <2>1, <2>2, <2>3, <2>4, <2>5, <2>6 DEF Answering
<1> QED
  BY <1>2, <1>3

LEMMA TurnsStep ==
  ASSUME TypeOK, TypeOK', Places, Places', Workers, Opening, Ended, Turns, [Next]_vars
  PROVE  Turns'
<1>1. CASE ClientDies \/ \E c \in Conn : Connect(c)
  <2>1. at' \in {"idle", "login"}
    BY <1>1 DEF ClientDies, Connect
  <2> QED
    BY <2>1 DEF Turns, WorkerAhead, AnswersFit, RefusedInTurn, Heeds, Under
<1> QED
  BY <1>1, Steps, CalmTurns, ListensTurns, WorkerTurns

-----------------------------------------------------------------------------
(***************************************************************************)
(* What the answers are good for.                                          *)
(***************************************************************************)
LEMMA AckedStep ==
  ASSUME TypeOK, Places, Opening, Ended, Turns, AckedMeansDone, [Next]_vars
  PROVE  AckedMeansDone'
<1>0. "version" \in job \ ops => restored = "whole" \/ ~run
  BY DEF AckedMeansDone
<1>1. CASE Calm
  BY <1>1 DEF Calm, AckedMeansDone
<1>2. CASE ClientDies
  BY <1>2 DEF ClientDies, AckedMeansDone, store
<1>3. CASE \E c \in Conn : Connect(c)
  BY <1>3 DEF Connect, AckedMeansDone, action, store, bounds
<1>4. CASE Listens /\ ~Acknowledged
  <2>1. /\ job' = job /\ done' = done /\ run' = run
    BY <1>4, ListensEffect
  <2>2. ops' = ops
    BY <1>4, QuitsEffect
       DEF Listens, Listening, Quits, LoggedIn, Asks, AsksVersion, VersionSize, VersionContent, VersionInPlace,
           WriteSize, WriteInterrupted, WriteNotWanted, WriteChunk, WriteSent, WriteOver, Returns, action
  <2>3. restored' = restored \/ restored' = "whole" \/ ~run
    BY <1>4, QuitsEffect
       DEF Listens, Listening, Quits, LoggedIn, Asks, AsksVersion, VersionSize, VersionContent, VersionInPlace,
           WriteSize, WriteInterrupted, WriteNotWanted, WriteChunk, WriteSent, WriteOver, Returns, action
  <2> QED
    BY <2>1, <2>2, <2>3 DEF AckedMeansDone
<1>5. CASE Listens /\ Acknowledged
  <2>1. /\ job' = job /\ done' = done /\ run' = run /\ restored' = restored
        /\ at = "ack" /\ Mine.down # <<>> /\ left # {} /\ Under
    BY <1>5, ListensEffect DEF Acknowledged, Places, Under
  <2>2. PICK yes \in Counts(Head(Mine.down)) : ops' = ops \ (IF yes THEN {First[left]} ELSE {})
    BY <1>5 DEF Acknowledged
  <2>3. CASE ~yes
    BY <2>1, <2>2, <2>3 DEF AckedMeansDone
  <2>4. CASE yes
    <3>1. Head(Mine.down) # "no"
      BY <2>2, <2>4 DEF Counts
    <3>2. Said(Mine.down) > 0
      BY <2>1, <3>1, TakenAnswer
    <3>3. CASE First[left] = "version"
      <4>1. Acking("version")
        BY <2>1, <3>3 DEF Acking
      <4> QED
        BY <2>1, <2>2, <2>4, <3>3, <4>1 DEF AckedMeansDone, Places
    <3>4. CASE First[left] # "version"
      <4>1. Heeds
        BY <2>1, <3>4 DEF Heeds, Acking
      <4>2. First[left] \in done
        BY <2>1, <3>2, <4>1, AnswerMeansDone
      <4> QED
        BY <2>1, <2>2, <2>4, <3>4, <4>2 DEF AckedMeansDone
    <3> QED
      BY <3>3, <3>4
  <2> QED
    BY <2>2, <2>3, <2>4
<1>6. CASE Worker(conn) /\ Answering(conn)
  <2>1. /\ UNCHANGED <<ops, restored, run, job>> /\ done \subseteq done'
    BY <1>6, WorkerGrows, MineLink DEF Worker, sender, action
  <2> QED
    BY <2>1 DEF AckedMeansDone
<1> QED
  BY <1>1, <1>2, <1>3, <1>4, <1>5, <1>6, Steps

LEMMA KeptStep ==
  ASSUME TypeOK, TypeOK', Places, Ended, Turns, KeptUntilStored, [Next]_vars
  PROVE  KeptUntilStored'
<1>0. refusals \in Nat /\ refusals' \in Nat
  BY TypeParts, BoundAssumption DEF BoundsType
<1>1. CASE Calm
  <2>1. refusals > 0 => refusals' > 0
    BY <1>0, <1>1 DEF Calm
  <2> QED
    BY <1>1, <2>1 DEF Calm, KeptUntilStored
<1>2. CASE ClientDies
  BY <1>2 DEF ClientDies, KeptUntilStored, store
<1>3. CASE \E c \in Conn : Connect(c)
  BY <1>3 DEF Connect, KeptUntilStored, action, store, bounds
<1>4. CASE Listens /\ ~WriteOver
  <2>1. /\ job' = job /\ done' = done /\ refusals' = refusals
    BY <1>4, ListensEffect
  <2>2. temp' = temp
    BY <1>4, QuitsEffect
       DEF Listens, Listening, Quits, LoggedIn, Asks, Acknowledged, AsksVersion, VersionSize, VersionContent,
           VersionInPlace, WriteSize, WriteInterrupted, WriteNotWanted, WriteChunk, WriteSent, Returns, action
  <2> QED
    BY <2>1, <2>2 DEF KeptUntilStored
<1>5. CASE Listens /\ WriteOver
  <2>1. /\ done' = done /\ refusals' = refusals
        /\ at = "inner" /\ Mine.down # <<>> /\ left # {} /\ First[left] = "write" /\ Heeds /\ Under
    BY <1>5, ListensEffect DEF WriteOver, Places, Heeds, Under, Acking
  <2>2. CASE Said(Mine.down) > 0
    BY <2>1, <2>2, AnswerMeansDone DEF KeptUntilStored
  <2>3. CASE ~(Said(Mine.down) > 0)
    <3>1. Refused(Mine.down)
      BY <2>1, <2>3, TakenAnswer
    <3>2. left = {"write"}
      BY <2>1, JobOps, LastIsWrite
    <3>3. refusals # 0
      BY <2>1, <3>1, <3>2 DEF Turns, RefusedInTurn
    <3> QED
      BY <1>0, <2>1, <3>3 DEF KeptUntilStored
  <2> QED
    BY <2>2, <2>3
<1>6. CASE Worker(conn) /\ Answering(conn)
  <2>1. /\ UNCHANGED <<temp, job>> /\ done \subseteq done' /\ refusals' >= refusals
    BY <1>6, WorkerGrows, MineLink DEF Worker, sender, action
  <2> QED
    BY <1>0, <2>1 DEF KeptUntilStored
<1> QED
  BY <1>1, <1>2, <1>3, <1>4, <1>5, <1>6, Steps

-----------------------------------------------------------------------------
(***************************************************************************)
(* The inductive invariant.                                                *)
(***************************************************************************)
LEMMA Starts == Init => IInv
<1> SUFFICES ASSUME Init PROVE IInv
  OBVIOUS
<1>1. (CHOOSE c \in Conn : TRUE) \in Conn
  BY ConnAssumption
<1>2. TypeOK
  <2>1. LinkType /\ WorkerType
    BY LinkConstants, ChunksAssumption DEF Init, LinkType, WorkerType, WorkerRecord
  <2>2. SenderType
    BY <1>1, ChunksAssumption DEF Init, SenderType
  <2>3. ActionType
    BY ChunksAssumption DEF Init, ActionType
  <2>4. StoreType
    BY ChunksAssumption DEF Init, StoreType
  <2>5. BoundsType
    <3>1. 0 \in 0..MaxFailures /\ 0 \in 0..MaxRefusals
      BY BoundAssumption
    <3>2. run \in BOOLEAN /\ shrunk \in BOOLEAN /\ overlaid \in BOOLEAN
      BY Zenon DEF Init
    <3> QED
      BY <3>1, <3>2 DEF Init, BoundsType
  <2> QED
    BY <2>1, <2>2, <2>3, <2>4, <2>5, TypeParts
<1>3. Wire
  BY DEF Init, Wire, Opening, Ended, Turns, WorkerAhead, AnswersFit, RefusedInTurn, Heeds, Under
<1>4. Places
  BY DEF Init, Places, Acking
<1>5. Workers /\ Requested
  BY DEF Init, Workers, Requested, Over, Fresh
<1>6. Intact
  BY DEF Init, Intact, Filling
<1>7. AckedMeansDone
  BY DEF Init, AckedMeansDone
<1>8. KeptUntilStored
  BY ChunksAssumption DEF Init, KeptUntilStored
<1> QED
  BY <1>2, <1>3, <1>4, <1>5, <1>6, <1>7, <1>8 DEF IInv

LEMMA TypeStep ==
  ASSUME TypeOK, Places, Workers, Requested, [Next]_vars
  PROVE  TypeOK'
<1>1. CASE UNCHANGED vars
  <2>1. UNCHANGED <<link, worker, at, conn, left, n, action, store, run, bounds, overlaid, job>>
    BY <1>1 DEF vars, sender, bounds
  <2> QED
    BY <2>1, TypeParts, SameTypes
<1>2. CASE Sender
  BY <1>2, SenderTypes
<1>3. ASSUME NEW c \in Conn, Worker(c) PROVE TypeOK'
  <2>1. done' \subseteq job
    BY <1>3, StoresAsked, TypeParts DEF Requested, StoreType
  <2> QED
    BY <1>3, <2>1, WorkerTypes
<1>4. CASE Befalls
  BY <1>4, BefallsTypes
<1> QED
  BY <1>1, <1>2, <1>3, <1>4 DEF Next

LEMMA Stutters ==
  ASSUME UNCHANGED vars
  PROVE  (Workers => Workers') /\ (Requested => Requested') /\ (Intact => Intact')
BY DEF vars, sender, store, bounds, Workers, Requested, Intact, Filling

LEMMA Preserved == IInv /\ [Next]_vars => IInv'
<1> SUFFICES ASSUME IInv, [Next]_vars PROVE IInv'
  OBVIOUS
<1>0. /\ TypeOK /\ Opening /\ Ended /\ Turns /\ Places /\ Workers /\ Requested /\ Intact
      /\ AckedMeansDone /\ KeptUntilStored
  BY DEF IInv, Wire
<1>1. TypeOK'
  BY <1>0, TypeStep
<1>2. Places'
  BY <1>0, PlacesStep
<1>3. Opening' /\ Ended'
  BY <1>0, <1>1, OpeningStep, EndedStep
<1>4. Turns'
  BY <1>0, <1>1, <1>2, TurnsStep
<1>5. Workers' /\ Requested' /\ Intact'
  BY <1>0, Stutters, WorkersStep, RequestedStep, IntactStep
<1>6. AckedMeansDone' /\ KeptUntilStored'
  BY <1>0, <1>1, AckedStep, KeptStep
<1> QED
  BY <1>1, <1>2, <1>3, <1>4, <1>5, <1>6 DEF IInv, Wire

(* Every reachable state satisfies the inductive invariant. *)
THEOREM Invariance == Spec => []IInv
BY Starts, Preserved, PTL DEF Spec

(***************************************************************************)
(* Messages, places and counts are what they should be, on any number of   *)
(* connections: no sender or worker goes past the content's end (n).       *)
(***************************************************************************)
THEOREM TypeCorrect == Spec => []TypeOK
<1>1. IInv => TypeOK
  BY DEF IInv
<1> QED
  BY <1>1, Invariance, PTL

(***************************************************************************)
(* sendAction: what is taken off the action's op_code the server has done, *)
(* whatever connections were lost before and whoever is still at work on   *)
(* what was sent on them; a version that is taken off is whole unless the  *)
(* client stopped.                                                         *)
(***************************************************************************)
THEOREM AckedAreDone == Spec => []AckedMeansDone
<1>1. IInv => AckedMeansDone
  BY DEF IInv
<1> QED
  BY <1>1, Invariance, PTL

(***************************************************************************)
(* serverCommand's write: the version that is committed has every chunk of *)
(* its content, unless two workers had its file open.                      *)
(***************************************************************************)
THEOREM StoredAreWhole == Spec => []StoredWhole
<1>1. IInv => StoredWhole
  BY DEF IInv, Intact, StoredWhole
<1> QED
  BY <1>1, Invariance, PTL

(***************************************************************************)
(* The client's write removes its temporary file only when the server has  *)
(* the content, or has refused something.                                  *)
(***************************************************************************)
THEOREM KeptTillStored == Spec => []KeptUntilStored
<1>1. IInv => KeptUntilStored
  BY DEF IInv
<1> QED
  BY <1>1, Invariance, PTL
=============================================================================
