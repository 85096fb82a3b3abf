--------------------------- MODULE LifecycleProofs ---------------------------
(***************************************************************************)
(* What Lifecycle promises of a stop, for any number of events and actions *)
(* put back.                                                               *)
(***************************************************************************)
EXTENDS Lifecycle, TLAPS

AfterJoiner == {"join dispatcher", "pipe", "join driver", "report", "stopped"}
AfterPool   == AfterJoiner \cup {"join joiner"}
AfterMerger == AfterPool \cup {"close", "pool"}
AfterStop   == AfterMerger \cup {"join merger"}
AfterScan   == AfterStop \cup {"enqueue"}

(* What stop has joined has ended. *)
InOrder ==
  /\ main \in AfterScan => \A l \in Listener : scan[l] = "ended"
  /\ main \in AfterMerger => merger = "ended"
  /\ main \in AfterJoiner => joiner = "ended"
  /\ main \in AfterJoiner \ {"join dispatcher"} => dispatcher = "ended"
  /\ main \in {"report", "stopped"} => driver = "ended"

(* Nothing is behind the event that ends the merge thread. *)
StopIsLast ==
  /\ \A i \in 1..Len(queue) : queue[i] = "stop" => i = Len(queue) /\ main \in AfterStop
  /\ merger = "ended" /\ ~broken => queue = <<>> /\ main \in AfterStop

(* After the last round of the joiner the dispatcher has at most one thread to push. *)
LastRound ==
  /\ pool <=> main \notin AfterPool
  /\ ~lastRound => ~pool
  /\ joiner = "ended" => ~lastRound
  /\ ~lastRound /\ joiner \in {"test", "ended"}
       => Len(list) <= 1 /\ (dispatcher = "push" => list = <<>>)

(* ServiceMain has the mutex while the service runs. *)
HeldWhileRunning ==
  /\ main = "up" => held
  /\ service = "running" => held /\ main = "wait"

(* The parts of TypeOK, as the steps touch them. *)
ControlType ==
  /\ service \in {"pending", "running", "stopping", "stopped"}
  /\ held \in BOOLEAN
  /\ main \in {"start", "up", "wait", "dir", "cancel dir", "file", "cancel file", "join scan",
               "enqueue", "join merger", "close", "pool", "join joiner", "join dispatcher",
               "pipe", "join driver", "report", "stopped"}
ScanType ==
  /\ scan \in [Listener -> {"none", "new", "begun", "locked", "reads", "reports", "ended"}]
  /\ running \in [Listener -> BOOLEAN]
MergeType ==
  /\ queue \in Seq(Event \cup {"stop"})
  /\ merger \in {"none", "takes", "ended"}
  /\ map \in Nat
  /\ open \in BOOLEAN
  /\ broken \in BOOLEAN
ThreadType ==
  /\ dispatcher \in {"none", "peek", "check", "push", "ended"}
  /\ pool \in BOOLEAN
  /\ list \in Seq({"runs", "ended"})
  /\ joiner \in {"test", "mark", "drain", "ended"}
  /\ lastRound \in BOOLEAN
RestType ==
  /\ driver \in {"none", "serves", "ended"}
  /\ events \in 0..MaxEvents /\ backs \in 0..MaxBacks

IInv == TypeOK /\ InOrder /\ StopIsLast /\ LastRound /\ HeldWhileRunning

-----------------------------------------------------------------------------
(***************************************************************************)
(* Every step keeps every part of the invariant, action by action.         *)
(***************************************************************************)

LEMMA TypeParts ==
  /\ TypeOK <=> ControlType /\ ScanType /\ MergeType /\ ThreadType /\ RestType
  /\ TypeOK' <=> ControlType' /\ ScanType' /\ MergeType' /\ ThreadType' /\ RestType'
BY DEF TypeOK, ControlType, ScanType, MergeType, ThreadType, RestType

LEMMA SameTypes ==
  /\ ControlType /\ service' = service /\ held' = held /\ main' = main => ControlType'
  /\ ScanType /\ scan' = scan /\ running' = running => ScanType'
  /\ MergeType /\ queue' = queue /\ merger' = merger /\ map' = map /\ open' = open
       /\ broken' = broken => MergeType'
  /\ ThreadType /\ dispatcher' = dispatcher /\ pool' = pool /\ list' = list
       /\ joiner' = joiner /\ lastRound' = lastRound => ThreadType'
  /\ RestType /\ driver' = driver /\ events' = events /\ backs' = backs => RestType'
BY DEF ControlType, ScanType, MergeType, ThreadType, RestType

LEMMA NextPlaces ==
  ASSUME NEW l \in Listener
  PROVE  /\ Cancelling[l] \in {"cancel dir", "cancel file"}
         /\ Following[l] \in {"file", "join scan"}
         /\ l = "dir" \/ l = "file"
BY SMT DEF Listener, Cancelling, Following

LEMMA QueueType ==
  ASSUME MergeType
  PROVE  /\ Append(queue, "stop") \in Seq(Event \cup {"stop"})
         /\ queue # <<>> => Tail(queue) \in Seq(Event \cup {"stop"})
         /\ \A batch \in {<<"event">>, <<"event", "event">>, <<"junk">>} :
              queue \o batch \in Seq(Event \cup {"stop"})
<1>1. queue \in Seq(Event \cup {"stop"}) /\ "event" \in Event /\ "junk" \in Event
  BY DEF MergeType, Event
<1> QED
  BY <1>1

(* Types. *)
LEMMA TypeStep ==
  ASSUME TypeOK, Next
  PROVE  TypeOK'
<1> USE TypeParts, SameTypes DEF control, scanners, merging, threads
<1>1. ASSUME Start PROVE TypeOK'
  <2>1. ControlType'
    BY BoundAssumption, <1>1 DEF Start, ControlType
  <2>2. ScanType'
    BY BoundAssumption, <1>1 DEF Start, ScanType
  <2>3. MergeType'
    BY BoundAssumption, <1>1 DEF Start, MergeType
  <2>4. ThreadType'
    BY BoundAssumption, <1>1 DEF Start, ThreadType
  <2>5. RestType'
    BY BoundAssumption, <1>1 DEF Start, RestType
  <2> QED
    BY BoundAssumption, <1>1, <2>1, <2>2, <2>3, <2>4, <2>5 DEF Start
<1>2. ASSUME Started PROVE TypeOK'
  BY <1>2 DEF Started, ControlType
<1>3. ASSUME StopRequested PROVE TypeOK'
  BY <1>3 DEF StopRequested, Main, ControlType
<1>4. ASSUME NEW l \in Listener, StopListener(l) PROVE TypeOK'
  <2>1. ControlType'
    BY NextPlaces, <1>4 DEF StopListener, ControlType
  <2>2. ScanType'
    BY NextPlaces, <1>4 DEF StopListener, ScanType
  <2> QED
    BY NextPlaces, <1>4, <2>1, <2>2 DEF StopListener
<1>5. ASSUME NEW l \in Listener, Cancel(l) PROVE TypeOK'
  BY NextPlaces, <1>5 DEF Cancel, ScanType
<1>6. ASSUME NEW l \in Listener, GotLock(l) PROVE TypeOK'
  BY NextPlaces, <1>6 DEF GotLock, Main, ControlType
<1>7. ASSUME ScanJoined PROVE TypeOK'
  BY <1>7 DEF ScanJoined, Main, ControlType
<1>8. ASSUME EnqueueStop PROVE TypeOK'
  <2>1. ControlType'
    BY QueueType, <1>8 DEF EnqueueStop, Main, ControlType
  <2>2. MergeType'
    BY QueueType, <1>8 DEF EnqueueStop, Main, MergeType
  <2> QED
    BY QueueType, <1>8, <2>1, <2>2 DEF EnqueueStop, Main
<1>9. ASSUME MergerJoined PROVE TypeOK'
  BY <1>9 DEF MergerJoined, Main, ControlType
<1>10. ASSUME Close PROVE TypeOK'
  <2>1. ControlType'
    BY <1>10 DEF Close, Main, ControlType
  <2>2. MergeType'
    BY <1>10 DEF Close, Main, MergeType
  <2> QED
    BY <1>10, <2>1, <2>2 DEF Close, Main
<1>11. ASSUME PoolStop PROVE TypeOK'
  <2>1. ControlType'
    BY <1>11 DEF PoolStop, Main, ControlType
  <2>2. ThreadType'
    BY <1>11 DEF PoolStop, Main, ThreadType
  <2> QED
    BY <1>11, <2>1, <2>2 DEF PoolStop, Main
<1>12. ASSUME JoinerJoined PROVE TypeOK'
  BY <1>12 DEF JoinerJoined, Joined, Main, ControlType
<1>13. ASSUME DispatcherJoined PROVE TypeOK'
  BY <1>13 DEF DispatcherJoined, Joined, Main, ControlType
<1>14. ASSUME PipeClosed PROVE TypeOK'
  BY <1>14 DEF PipeClosed, Joined, Main, ControlType
<1>15. ASSUME DriverJoined PROVE TypeOK'
  BY <1>15 DEF DriverJoined, Joined, Main, ControlType
<1>16. ASSUME Stopped PROVE TypeOK'
  BY <1>16 DEF Stopped, Main, ControlType
<1>17. ASSUME NEW l \in Listener, ScanBegins(l) PROVE TypeOK'
  BY <1>17 DEF ScanBegins, Scans, ScanType
<1>18. ASSUME NEW l \in Listener, ScanLocks(l) PROVE TypeOK'
  BY <1>18 DEF ScanLocks, Scans, ScanType
<1>19. ASSUME NEW l \in Listener, ScanTests(l) PROVE TypeOK'
  BY <1>19 DEF ScanTests, Scans, ScanType
<1>20. ASSUME NEW l \in Listener, ScanReads(l) PROVE TypeOK'
  <2>1. ScanType'
    BY BoundAssumption, <1>20 DEF ScanReads, Scans, ScanType
  <2>2. RestType'
    BY BoundAssumption, <1>20 DEF ScanReads, Scans, RestType
  <2> QED
    BY BoundAssumption, <1>20, <2>1, <2>2 DEF ScanReads, Scans
<1>21. ASSUME NEW l \in Listener, ScanFails(l) PROVE TypeOK'
  BY <1>21 DEF ScanFails, Scans, ScanType
<1>22. ASSUME NEW l \in Listener, ScanReports(l) PROVE TypeOK'
  <2>1. ScanType'
    BY QueueType, <1>22 DEF ScanReports, Scans, ScanType
  <2>2. MergeType'
    BY QueueType, <1>22 DEF ScanReports, Scans, MergeType
  <2> QED
    BY QueueType, <1>22, <2>1, <2>2 DEF ScanReports, Scans
<1>23. ASSUME Merge PROVE TypeOK'
  <2>1. MergeType'
    <3>1. queue' \in Seq(Event \cup {"stop"})
      BY QueueType, <1>23 DEF Merge
    <3>2. map' \in Nat
      <4>1. map \in Nat /\ (map' = map \/ map' = map + 1)
        BY <1>23 DEF Merge, MergeType
      <4> QED
        BY <4>1
    <3>3. merger' \in {"none", "takes", "ended"} /\ open' \in BOOLEAN /\ broken' \in BOOLEAN
      BY <1>23 DEF Merge, MergeType
    <3> QED
      BY <3>1, <3>2, <3>3 DEF MergeType
  <2> QED
    BY <1>23, <2>1 DEF Merge
<1>24. ASSUME MergeEnds PROVE TypeOK'
  BY <1>24 DEF MergeEnds, MergeType
<1>25. ASSUME Remove PROVE TypeOK'
  <2>1. MergeType'
    BY <1>25 DEF Remove, MergeType
  <2>2. ThreadType'
    BY <1>25 DEF Remove, ThreadType
  <2> QED
    BY <1>25, <2>1, <2>2 DEF Remove
<1>26. ASSUME NothingToRemove PROVE TypeOK'
  BY <1>26 DEF NothingToRemove, ThreadType
<1>27. ASSUME Check PROVE TypeOK'
  BY <1>27 DEF Check, ThreadType
<1>28. ASSUME Push PROVE TypeOK'
  BY <1>28 DEF Push, ThreadType
<1>29. ASSUME JoinerTests PROVE TypeOK'
  BY <1>29 DEF JoinerTests, Again, ThreadType
<1>30. ASSUME JoinerMarks PROVE TypeOK'
  BY <1>30 DEF JoinerMarks, ThreadType
<1>31. ASSUME JoinerJoins PROVE TypeOK'
  BY <1>31 DEF JoinerJoins, ThreadType
<1>32. ASSUME JoinerDrained PROVE TypeOK'
  BY <1>32 DEF JoinerDrained, ThreadType
<1>33. ASSUME NEW i \in DOMAIN list, Sender(i) PROVE TypeOK'
  <2>1. MergeType'
    BY BoundAssumption, <1>33 DEF Sender, SenderEnds, MergeType
  <2>2. ThreadType'
    BY BoundAssumption, <1>33 DEF Sender, SenderEnds, ThreadType
  <2>3. RestType'
    BY BoundAssumption, <1>33 DEF Sender, SenderEnds, RestType
  <2> QED
    BY BoundAssumption, <1>33, <2>1, <2>2, <2>3 DEF Sender, SenderEnds
<1>34. ASSUME DriverEnds PROVE TypeOK'
  BY <1>34 DEF DriverEnds, Driver, RestType
<1>35. ASSUME Control PROVE TypeOK'
  BY <1>35 DEF Control, Accepts, ControlType
<1>36. ASSUME GuiAsks PROVE TypeOK'
  <2>1. MergeType'
    BY BoundAssumption, <1>36 DEF GuiAsks, Driver, MergeType
  <2>2. RestType'
    BY BoundAssumption, <1>36 DEF GuiAsks, Driver, RestType
  <2> QED
    BY BoundAssumption, <1>36, <2>1, <2>2 DEF GuiAsks, Driver
<1>37. ASSUME GuiLeaves PROVE TypeOK'
  BY <1>37 DEF GuiLeaves, Driver, RestType
<1> QED
  BY <1>1, <1>2, <1>3, <1>4, <1>5, <1>6, <1>7, <1>8, <1>9, <1>10, <1>11, <1>12, <1>13, <1>14,
     <1>15, <1>16, <1>17, <1>18, <1>19, <1>20, <1>21, <1>22, <1>23, <1>24, <1>25, <1>26, <1>27,
     <1>28, <1>29, <1>30, <1>31, <1>32, <1>33, <1>34, <1>35, <1>36, <1>37
  DEF Next, ServiceMain, Scanner, MergeThread, Dispatcher, Joiner, Happens

LEMMA Positions ==
  ASSUME TypeOK
  PROVE  /\ Len(queue) \in Nat
         /\ Len(Append(queue, "stop")) = Len(queue) + 1
         /\ \A i \in 1..Len(queue) : Append(queue, "stop")[i] = queue[i]
         /\ queue # <<>> => /\ Head(queue) = queue[1]
                            /\ Len(Tail(queue)) = Len(queue) - 1
                            /\ \A i \in 1..(Len(queue) - 1) : Tail(queue)[i] = queue[i + 1]
                            /\ Len(queue) = 1 => Tail(queue) = <<>>
         /\ \A batch \in {<<"event">>, <<"event", "event">>, <<"junk">>} :
              \A i \in 1..Len(queue \o batch) :
                 \/ (queue \o batch)[i] = queue[i] /\ i \in 1..Len(queue)
                 \/ (queue \o batch)[i] \in Event
<1>1. queue \in Seq(Event \cup {"stop"}) /\ "event" \in Event /\ "junk" \in Event
  BY DEF TypeOK, Event
<1>2. \A i \in 1..Len(queue \o <<"event">>) :
         \/ (queue \o <<"event">>)[i] = queue[i] /\ i \in 1..Len(queue)
         \/ (queue \o <<"event">>)[i] = "event"
  BY <1>1
<1>3. \A i \in 1..Len(queue \o <<"junk">>) :
         \/ (queue \o <<"junk">>)[i] = queue[i] /\ i \in 1..Len(queue)
         \/ (queue \o <<"junk">>)[i] = "junk"
  BY <1>1
<1>4. \A i \in 1..Len(queue \o <<"event", "event">>) :
         \/ (queue \o <<"event", "event">>)[i] = queue[i] /\ i \in 1..Len(queue)
         \/ (queue \o <<"event", "event">>)[i] = "event"
  BY <1>1
<1> QED
  BY <1>1, <1>2, <1>3, <1>4

(* What was joined stays ended. *)
LEMMA OrderStep ==
  ASSUME TypeOK, InOrder, LastRound, Next
  PROVE  InOrder'
<1> USE DEF TypeOK, InOrder, LastRound, AfterScan, AfterStop, AfterMerger, AfterPool,
            AfterJoiner, Listener, control, scanners, merging, threads
<1>1. ASSUME Start PROVE InOrder'
  BY <1>1 DEF Start
<1>2. ASSUME Started PROVE InOrder'
  BY <1>2 DEF Started
<1>3. ASSUME StopRequested PROVE InOrder'
  BY <1>3 DEF StopRequested, Main
<1>4. ASSUME NEW l \in Listener, StopListener(l) PROVE InOrder'
  BY NextPlaces, <1>4 DEF StopListener
<1>5. ASSUME NEW l \in Listener, Cancel(l) PROVE InOrder'
  BY <1>5 DEF Cancel, Cancelling
<1>6. ASSUME NEW l \in Listener, GotLock(l) PROVE InOrder'
  BY NextPlaces, <1>6 DEF GotLock, Main
<1>7. ASSUME ScanJoined PROVE InOrder'
  BY <1>7 DEF ScanJoined, Main
<1>8. ASSUME EnqueueStop PROVE InOrder'
  BY <1>8 DEF EnqueueStop, Main
<1>9. ASSUME MergerJoined PROVE InOrder'
  BY <1>9 DEF MergerJoined, Main
<1>10. ASSUME Close PROVE InOrder'
  BY <1>10 DEF Close, Main
<1>11. ASSUME PoolStop PROVE InOrder'
  BY <1>11 DEF PoolStop, Main
<1>12. ASSUME JoinerJoined PROVE InOrder'
  BY <1>12 DEF JoinerJoined, Joined, Main
<1>13. ASSUME DispatcherJoined PROVE InOrder'
  BY <1>13 DEF DispatcherJoined, Joined, Main
<1>14. ASSUME PipeClosed PROVE InOrder'
  BY <1>14 DEF PipeClosed, Joined, Main
<1>15. ASSUME DriverJoined PROVE InOrder'
  BY <1>15 DEF DriverJoined, Joined, Main
<1>16. ASSUME Stopped PROVE InOrder'
  BY <1>16 DEF Stopped, Main
<1>17. ASSUME NEW l \in Listener, ScanBegins(l) PROVE InOrder'
  BY <1>17 DEF ScanBegins, Scans
<1>18. ASSUME NEW l \in Listener, ScanLocks(l) PROVE InOrder'
  BY <1>18 DEF ScanLocks, Scans
<1>19. ASSUME NEW l \in Listener, ScanTests(l) PROVE InOrder'
  BY <1>19 DEF ScanTests, Scans
<1>20. ASSUME NEW l \in Listener, ScanReads(l) PROVE InOrder'
  BY <1>20 DEF ScanReads, Scans
<1>21. ASSUME NEW l \in Listener, ScanFails(l) PROVE InOrder'
  BY <1>21 DEF ScanFails, Scans
<1>22. ASSUME NEW l \in Listener, ScanReports(l) PROVE InOrder'
  BY <1>22 DEF ScanReports, Scans
<1>23. ASSUME Merge PROVE InOrder'
  BY <1>23 DEF Merge
<1>24. ASSUME MergeEnds PROVE InOrder'
  BY <1>24 DEF MergeEnds
<1>25. ASSUME Remove PROVE InOrder'
  BY <1>25 DEF Remove
<1>26. ASSUME NothingToRemove PROVE InOrder'
  BY <1>26 DEF NothingToRemove
<1>27. ASSUME Check PROVE InOrder'
  BY <1>27 DEF Check
<1>28. ASSUME Push PROVE InOrder'
  BY <1>28 DEF Push
<1>29. ASSUME JoinerTests PROVE InOrder'
  BY <1>29 DEF JoinerTests, Again
<1>30. ASSUME JoinerMarks PROVE InOrder'
  BY <1>30 DEF JoinerMarks
<1>31. ASSUME JoinerJoins PROVE InOrder'
  BY <1>31 DEF JoinerJoins
<1>32. ASSUME JoinerDrained PROVE InOrder'
  BY <1>32 DEF JoinerDrained
<1>33. ASSUME NEW i \in DOMAIN list, Sender(i) PROVE InOrder'
  BY <1>33 DEF Sender, SenderEnds
<1>34. ASSUME DriverEnds PROVE InOrder'
  BY <1>34 DEF DriverEnds, Driver
<1>35. ASSUME Control PROVE InOrder'
  BY <1>35 DEF Control, Accepts
<1>36. ASSUME GuiAsks PROVE InOrder'
  BY <1>36 DEF GuiAsks, Driver
<1>37. ASSUME GuiLeaves PROVE InOrder'
  BY <1>37 DEF GuiLeaves, Driver
<1> QED
  BY <1>1, <1>2, <1>3, <1>4, <1>5, <1>6, <1>7, <1>8, <1>9, <1>10, <1>11, <1>12, <1>13, <1>14,
     <1>15, <1>16, <1>17, <1>18, <1>19, <1>20, <1>21, <1>22, <1>23, <1>24, <1>25, <1>26, <1>27,
     <1>28, <1>29, <1>30, <1>31, <1>32, <1>33, <1>34, <1>35, <1>36, <1>37
  DEF Next, ServiceMain, Scanner, MergeThread, Dispatcher, Joiner, Happens

(* The queue and the event that ends it. *)
LEMMA QueueStep ==
  ASSUME TypeOK, InOrder, StopIsLast, Next
  PROVE  StopIsLast'
<1> USE DEF TypeOK, InOrder, StopIsLast, AfterScan, AfterStop, AfterMerger, AfterPool,
            AfterJoiner, Listener, control, scanners, merging, threads
<1>1. ASSUME Start PROVE StopIsLast'
  BY <1>1 DEF Start
<1>2. ASSUME Started PROVE StopIsLast'
  BY <1>2 DEF Started
<1>3. ASSUME StopRequested PROVE StopIsLast'
  BY <1>3 DEF StopRequested, Main
<1>4. ASSUME NEW l \in Listener, StopListener(l) PROVE StopIsLast'
  BY NextPlaces, <1>4 DEF StopListener
<1>5. ASSUME NEW l \in Listener, Cancel(l) PROVE StopIsLast'
  BY <1>5 DEF Cancel, Cancelling
<1>6. ASSUME NEW l \in Listener, GotLock(l) PROVE StopIsLast'
  BY NextPlaces, <1>6 DEF GotLock, Main
<1>7. ASSUME ScanJoined PROVE StopIsLast'
  BY <1>7 DEF ScanJoined, Main
<1>8. ASSUME EnqueueStop PROVE StopIsLast'
  <2> HIDE DEF TypeOK, InOrder, StopIsLast, AfterScan, AfterStop
  <2>1. /\ main = "enqueue" /\ main' = "join merger" /\ merger' = merger /\ broken' = broken
        /\ queue' = Append(queue, "stop")
    BY <1>8 DEF EnqueueStop, Main
  <2>2. main \notin AfterStop /\ main' \in AfterStop
    BY <2>1 DEF AfterStop, AfterMerger, AfterPool, AfterJoiner
  <2>3. /\ \A i \in 1..Len(queue) : queue[i] # "stop"
        /\ ~(merger = "ended" /\ ~broken)
    BY <2>2 DEF StopIsLast
  <2>4. \A i \in 1..Len(queue') : queue'[i] = "stop" => i = Len(queue')
    <3> SUFFICES ASSUME NEW i \in 1..Len(queue'), queue'[i] = "stop", i # Len(queue') PROVE FALSE
      OBVIOUS
    <3>1. Len(queue) \in Nat /\ Len(queue') = Len(queue) + 1
      BY <2>1, Positions
    <3>2. i \in 1..Len(queue)
      BY <3>1
    <3>3. queue'[i] = queue[i]
      BY <3>2, <2>1, Positions
    <3> QED
      BY <3>2, <3>3, <2>3
  <2> QED
    BY <2>1, <2>2, <2>3, <2>4 DEF StopIsLast
<1>9. ASSUME MergerJoined PROVE StopIsLast'
  BY <1>9 DEF MergerJoined, Main
<1>10. ASSUME Close PROVE StopIsLast'
  BY <1>10 DEF Close, Main
<1>11. ASSUME PoolStop PROVE StopIsLast'
  BY <1>11 DEF PoolStop, Main
<1>12. ASSUME JoinerJoined PROVE StopIsLast'
  BY <1>12 DEF JoinerJoined, Joined, Main
<1>13. ASSUME DispatcherJoined PROVE StopIsLast'
  BY <1>13 DEF DispatcherJoined, Joined, Main
<1>14. ASSUME PipeClosed PROVE StopIsLast'
  BY <1>14 DEF PipeClosed, Joined, Main
<1>15. ASSUME DriverJoined PROVE StopIsLast'
  BY <1>15 DEF DriverJoined, Joined, Main
<1>16. ASSUME Stopped PROVE StopIsLast'
  BY <1>16 DEF Stopped, Main
<1>17. ASSUME NEW l \in Listener, ScanBegins(l) PROVE StopIsLast'
  BY <1>17 DEF ScanBegins, Scans
<1>18. ASSUME NEW l \in Listener, ScanLocks(l) PROVE StopIsLast'
  BY <1>18 DEF ScanLocks, Scans
<1>19. ASSUME NEW l \in Listener, ScanTests(l) PROVE StopIsLast'
  BY <1>19 DEF ScanTests, Scans
<1>20. ASSUME NEW l \in Listener, ScanReads(l) PROVE StopIsLast'
  BY <1>20 DEF ScanReads, Scans
<1>21. ASSUME NEW l \in Listener, ScanFails(l) PROVE StopIsLast'
  BY <1>21 DEF ScanFails, Scans
<1>22. ASSUME NEW l \in Listener, ScanReports(l) PROVE StopIsLast'
  <2> HIDE DEF TypeOK, InOrder, StopIsLast, AfterScan, AfterStop
  <2>1. scan[l] = "reports" /\ main' = main /\ merger' = merger /\ broken' = broken
    BY <1>22 DEF ScanReports, Scans
  <2>2. main \notin AfterStop
    BY <2>1 DEF InOrder, AfterScan
  <2>3. /\ \A i \in 1..Len(queue) : queue[i] # "stop"
        /\ ~(merger = "ended" /\ ~broken)
    BY <2>2 DEF StopIsLast
  <2>4. PICK batch \in {<<"event">>, <<"event", "event">>, <<"junk">>} : queue' = queue \o batch
    BY <1>22 DEF ScanReports
  <2>5. \A i \in 1..Len(queue') : queue'[i] # "stop"
    <3> SUFFICES ASSUME NEW i \in 1..Len(queue'), queue'[i] = "stop" PROVE FALSE
      OBVIOUS
    <3>1. (queue'[i] = queue[i] /\ i \in 1..Len(queue)) \/ queue'[i] \in Event
      BY <2>4, Positions
    <3> QED
      BY <3>1, <2>3 DEF Event
  <2> QED
    BY <2>1, <2>3, <2>5 DEF StopIsLast
<1>23. ASSUME Merge PROVE StopIsLast'
  <2> HIDE DEF TypeOK, InOrder, StopIsLast, AfterScan, AfterStop
  <2>1. /\ merger = "takes" /\ main' = main /\ queue' = Tail(queue) /\ queue # <<>>
        /\ merger' = merger \/ broken'
    BY <1>23 DEF Merge
  <2>2. \A i \in 1..Len(queue') : queue'[i] = "stop" => i = Len(queue') /\ main' \in AfterStop
    <3> SUFFICES ASSUME NEW i \in 1..Len(queue'), queue'[i] = "stop"
                 PROVE  i = Len(queue') /\ main' \in AfterStop
      OBVIOUS
    <3>1. Len(queue) \in Nat /\ Len(queue') = Len(queue) - 1
      BY <2>1, Positions
    <3>2. i \in 1..(Len(queue) - 1) /\ i + 1 \in 1..Len(queue)
      BY <3>1
    <3>3. queue[i + 1] = "stop"
      BY <3>2, <2>1, Positions
    <3>4. i + 1 = Len(queue) /\ main \in AfterStop
      BY <3>2, <3>3 DEF StopIsLast
    <3>5. main' \in AfterStop
      BY <3>4, <2>1
    <3> QED
      BY <3>1, <3>2, <3>4, <3>5
  <2>3. merger' = "ended" => broken'
    BY <2>1
  <2> QED
    BY <2>2, <2>3 DEF StopIsLast
<1>24. ASSUME MergeEnds PROVE StopIsLast'
  <2> HIDE DEF TypeOK, InOrder, StopIsLast, AfterScan, AfterStop
  <2>1. /\ queue # <<>> /\ Head(queue) = "stop" /\ queue' = Tail(queue)
        /\ main' = main /\ broken' = broken
    BY <1>24 DEF MergeEnds
  <2>2. 1 \in 1..Len(queue) /\ queue[1] = "stop"
    <3>1. queue \in Seq(Event \cup {"stop"})
      BY DEF TypeOK
    <3> QED
      BY <3>1, <2>1
  <2>3. Len(queue) = 1 /\ main \in AfterStop
    BY <2>2 DEF StopIsLast
  <2>4. queue' = <<>> /\ Len(queue') = 0
    BY <2>1, <2>3, Positions
  <2>5. main' \in AfterStop
    BY <2>1, <2>3 DEF AfterStop
  <2> QED
    BY <2>4, <2>5 DEF StopIsLast
<1>25. ASSUME Remove PROVE StopIsLast'
  BY <1>25 DEF Remove
<1>26. ASSUME NothingToRemove PROVE StopIsLast'
  BY <1>26 DEF NothingToRemove
<1>27. ASSUME Check PROVE StopIsLast'
  BY <1>27 DEF Check
<1>28. ASSUME Push PROVE StopIsLast'
  BY <1>28 DEF Push
<1>29. ASSUME JoinerTests PROVE StopIsLast'
  BY <1>29 DEF JoinerTests, Again
<1>30. ASSUME JoinerMarks PROVE StopIsLast'
  BY <1>30 DEF JoinerMarks
<1>31. ASSUME JoinerJoins PROVE StopIsLast'
  BY <1>31 DEF JoinerJoins
<1>32. ASSUME JoinerDrained PROVE StopIsLast'
  BY <1>32 DEF JoinerDrained
<1>33. ASSUME NEW i \in DOMAIN list, Sender(i) PROVE StopIsLast'
  BY <1>33 DEF Sender, SenderEnds
<1>34. ASSUME DriverEnds PROVE StopIsLast'
  BY <1>34 DEF DriverEnds, Driver
<1>35. ASSUME Control PROVE StopIsLast'
  BY <1>35 DEF Control, Accepts
<1>36. ASSUME GuiAsks PROVE StopIsLast'
  BY <1>36 DEF GuiAsks, Driver
<1>37. ASSUME GuiLeaves PROVE StopIsLast'
  BY <1>37 DEF GuiLeaves, Driver
<1> QED
  BY <1>1, <1>2, <1>3, <1>4, <1>5, <1>6, <1>7, <1>8, <1>9, <1>10, <1>11, <1>12, <1>13, <1>14,
     <1>15, <1>16, <1>17, <1>18, <1>19, <1>20, <1>21, <1>22, <1>23, <1>24, <1>25, <1>26, <1>27,
     <1>28, <1>29, <1>30, <1>31, <1>32, <1>33, <1>34, <1>35, <1>36, <1>37
  DEF Next, ServiceMain, Scanner, MergeThread, Dispatcher, Joiner, Happens

(* The joiner and the list. *)
LEMMA RoundStep ==
  ASSUME TypeOK, InOrder, LastRound, Next
  PROVE  LastRound'
<1> USE DEF TypeOK, InOrder, LastRound, AfterPool, AfterJoiner, control, scanners, merging,
            threads
<1>1. ASSUME Start PROVE LastRound'
  BY <1>1 DEF Start
<1>2. ASSUME Started PROVE LastRound'
  BY <1>2 DEF Started
<1>3. ASSUME StopRequested PROVE LastRound'
  BY <1>3 DEF StopRequested, Main
<1>4. ASSUME NEW l \in Listener, StopListener(l) PROVE LastRound'
  BY NextPlaces, <1>4 DEF StopListener
<1>5. ASSUME NEW l \in Listener, Cancel(l) PROVE LastRound'
  BY <1>5 DEF Cancel, Cancelling
<1>6. ASSUME NEW l \in Listener, GotLock(l) PROVE LastRound'
  BY NextPlaces, <1>6 DEF GotLock, Main
<1>7. ASSUME ScanJoined PROVE LastRound'
  BY <1>7 DEF ScanJoined, Main
<1>8. ASSUME EnqueueStop PROVE LastRound'
  BY <1>8 DEF EnqueueStop, Main
<1>9. ASSUME MergerJoined PROVE LastRound'
  BY <1>9 DEF MergerJoined, Main
<1>10. ASSUME Close PROVE LastRound'
  BY <1>10 DEF Close, Main
<1>11. ASSUME PoolStop PROVE LastRound'
  BY <1>11 DEF PoolStop, Main
<1>12. ASSUME JoinerJoined PROVE LastRound'
  BY <1>12 DEF JoinerJoined, Joined, Main
<1>13. ASSUME DispatcherJoined PROVE LastRound'
  BY <1>13 DEF DispatcherJoined, Joined, Main
<1>14. ASSUME PipeClosed PROVE LastRound'
  BY <1>14 DEF PipeClosed, Joined, Main
<1>15. ASSUME DriverJoined PROVE LastRound'
  BY <1>15 DEF DriverJoined, Joined, Main
<1>16. ASSUME Stopped PROVE LastRound'
  BY <1>16 DEF Stopped, Main
<1>17. ASSUME NEW l \in Listener, ScanBegins(l) PROVE LastRound'
  BY <1>17 DEF ScanBegins, Scans
<1>18. ASSUME NEW l \in Listener, ScanLocks(l) PROVE LastRound'
  BY <1>18 DEF ScanLocks, Scans
<1>19. ASSUME NEW l \in Listener, ScanTests(l) PROVE LastRound'
  BY <1>19 DEF ScanTests, Scans
<1>20. ASSUME NEW l \in Listener, ScanReads(l) PROVE LastRound'
  BY <1>20 DEF ScanReads, Scans
<1>21. ASSUME NEW l \in Listener, ScanFails(l) PROVE LastRound'
  BY <1>21 DEF ScanFails, Scans
<1>22. ASSUME NEW l \in Listener, ScanReports(l) PROVE LastRound'
  BY <1>22 DEF ScanReports, Scans
<1>23. ASSUME Merge PROVE LastRound'
  BY <1>23 DEF Merge
<1>24. ASSUME MergeEnds PROVE LastRound'
  BY <1>24 DEF MergeEnds
<1>25. ASSUME Remove PROVE LastRound'
  BY <1>25 DEF Remove
<1>26. ASSUME NothingToRemove PROVE LastRound'
  BY <1>26 DEF NothingToRemove
<1>27. ASSUME Check PROVE LastRound'
  BY <1>27 DEF Check
<1>28. ASSUME Push PROVE LastRound'
  <2> HIDE DEF TypeOK, InOrder, LastRound, AfterPool, AfterJoiner
  <2>1. /\ dispatcher = "push" /\ dispatcher' = "peek" /\ list' = Append(list, "runs")
        /\ main' = main /\ pool' = pool /\ joiner' = joiner /\ lastRound' = lastRound
    BY <1>28 DEF Push
  <2>2. list = <<>> => Len(list') <= 1
    BY <2>1
  <2>3. pool \in BOOLEAN /\ lastRound \in BOOLEAN
    BY DEF TypeOK
  <2> QED
    BY <2>1, <2>2, <2>3 DEF LastRound
<1>29. ASSUME JoinerTests PROVE LastRound'
  BY <1>29 DEF JoinerTests, Again
<1>30. ASSUME JoinerMarks PROVE LastRound'
  BY <1>30 DEF JoinerMarks
<1>31. ASSUME JoinerJoins PROVE LastRound'
  BY <1>31 DEF JoinerJoins
<1>32. ASSUME JoinerDrained PROVE LastRound'
  <2> HIDE DEF TypeOK, InOrder, LastRound, AfterPool, AfterJoiner
  <2>1. /\ list = <<>> /\ list' = list /\ joiner' = "test"
        /\ main' = main /\ pool' = pool /\ lastRound' = lastRound
    BY <1>32 DEF JoinerDrained
  <2>2. Len(list') <= 1 /\ list' = <<>>
    BY <2>1
  <2>3. pool \in BOOLEAN /\ lastRound \in BOOLEAN
    BY DEF TypeOK
  <2> QED
    BY <2>1, <2>2, <2>3 DEF LastRound
<1>33. ASSUME NEW i \in DOMAIN list, Sender(i) PROVE LastRound'
  <2> HIDE DEF TypeOK, InOrder, LastRound, AfterPool, AfterJoiner
  <2>1. /\ list' = [list EXCEPT ![i] = "ended"] /\ dispatcher' = dispatcher
        /\ main' = main /\ pool' = pool /\ joiner' = joiner /\ lastRound' = lastRound
    BY <1>33 DEF Sender, SenderEnds
  <2>2. Len(list') = Len(list) /\ list # <<>>
    <3>1. list \in Seq({"runs", "ended"})
      BY DEF TypeOK
    <3> QED
      BY <3>1, <2>1
  <2>3. pool \in BOOLEAN /\ lastRound \in BOOLEAN
    BY DEF TypeOK
  <2>4. Len(list) <= 1 => Len(list') <= 1
    BY <2>2
  <2> QED
    BY <2>1, <2>2, <2>3, <2>4 DEF LastRound
<1>34. ASSUME DriverEnds PROVE LastRound'
  BY <1>34 DEF DriverEnds, Driver
<1>35. ASSUME Control PROVE LastRound'
  BY <1>35 DEF Control, Accepts
<1>36. ASSUME GuiAsks PROVE LastRound'
  BY <1>36 DEF GuiAsks, Driver
<1>37. ASSUME GuiLeaves PROVE LastRound'
  BY <1>37 DEF GuiLeaves, Driver
<1> QED
  BY <1>1, <1>2, <1>3, <1>4, <1>5, <1>6, <1>7, <1>8, <1>9, <1>10, <1>11, <1>12, <1>13, <1>14,
     <1>15, <1>16, <1>17, <1>18, <1>19, <1>20, <1>21, <1>22, <1>23, <1>24, <1>25, <1>26, <1>27,
     <1>28, <1>29, <1>30, <1>31, <1>32, <1>33, <1>34, <1>35, <1>36, <1>37
  DEF Next, ServiceMain, Scanner, MergeThread, Dispatcher, Joiner, Happens

(* The mutex. *)
LEMMA HeldStep ==
  ASSUME TypeOK, HeldWhileRunning, Next
  PROVE  HeldWhileRunning'
<1> USE DEF TypeOK, HeldWhileRunning, control, scanners, merging, threads
<1>1. ASSUME Start PROVE HeldWhileRunning'
  BY <1>1 DEF Start
<1>2. ASSUME Started PROVE HeldWhileRunning'
  BY <1>2 DEF Started
<1>3. ASSUME StopRequested PROVE HeldWhileRunning'
  BY <1>3 DEF StopRequested, Main
<1>4. ASSUME NEW l \in Listener, StopListener(l) PROVE HeldWhileRunning'
  BY NextPlaces, <1>4 DEF StopListener
<1>5. ASSUME NEW l \in Listener, Cancel(l) PROVE HeldWhileRunning'
  BY <1>5 DEF Cancel, Cancelling
<1>6. ASSUME NEW l \in Listener, GotLock(l) PROVE HeldWhileRunning'
  BY NextPlaces, <1>6 DEF GotLock, Main
<1>7. ASSUME ScanJoined PROVE HeldWhileRunning'
  BY <1>7 DEF ScanJoined, Main
<1>8. ASSUME EnqueueStop PROVE HeldWhileRunning'
  BY <1>8 DEF EnqueueStop, Main
<1>9. ASSUME MergerJoined PROVE HeldWhileRunning'
  BY <1>9 DEF MergerJoined, Main
<1>10. ASSUME Close PROVE HeldWhileRunning'
  BY <1>10 DEF Close, Main
<1>11. ASSUME PoolStop PROVE HeldWhileRunning'
  BY <1>11 DEF PoolStop, Main
<1>12. ASSUME JoinerJoined PROVE HeldWhileRunning'
  BY <1>12 DEF JoinerJoined, Joined, Main
<1>13. ASSUME DispatcherJoined PROVE HeldWhileRunning'
  BY <1>13 DEF DispatcherJoined, Joined, Main
<1>14. ASSUME PipeClosed PROVE HeldWhileRunning'
  BY <1>14 DEF PipeClosed, Joined, Main
<1>15. ASSUME DriverJoined PROVE HeldWhileRunning'
  BY <1>15 DEF DriverJoined, Joined, Main
<1>16. ASSUME Stopped PROVE HeldWhileRunning'
  BY <1>16 DEF Stopped, Main
<1>17. ASSUME NEW l \in Listener, ScanBegins(l) PROVE HeldWhileRunning'
  BY <1>17 DEF ScanBegins, Scans
<1>18. ASSUME NEW l \in Listener, ScanLocks(l) PROVE HeldWhileRunning'
  BY <1>18 DEF ScanLocks, Scans
<1>19. ASSUME NEW l \in Listener, ScanTests(l) PROVE HeldWhileRunning'
  BY <1>19 DEF ScanTests, Scans
<1>20. ASSUME NEW l \in Listener, ScanReads(l) PROVE HeldWhileRunning'
  BY <1>20 DEF ScanReads, Scans
<1>21. ASSUME NEW l \in Listener, ScanFails(l) PROVE HeldWhileRunning'
  BY <1>21 DEF ScanFails, Scans
<1>22. ASSUME NEW l \in Listener, ScanReports(l) PROVE HeldWhileRunning'
  BY <1>22 DEF ScanReports, Scans
<1>23. ASSUME Merge PROVE HeldWhileRunning'
  BY <1>23 DEF Merge
<1>24. ASSUME MergeEnds PROVE HeldWhileRunning'
  BY <1>24 DEF MergeEnds
<1>25. ASSUME Remove PROVE HeldWhileRunning'
  BY <1>25 DEF Remove
<1>26. ASSUME NothingToRemove PROVE HeldWhileRunning'
  BY <1>26 DEF NothingToRemove
<1>27. ASSUME Check PROVE HeldWhileRunning'
  BY <1>27 DEF Check
<1>28. ASSUME Push PROVE HeldWhileRunning'
  BY <1>28 DEF Push
<1>29. ASSUME JoinerTests PROVE HeldWhileRunning'
  BY <1>29 DEF JoinerTests, Again
<1>30. ASSUME JoinerMarks PROVE HeldWhileRunning'
  BY <1>30 DEF JoinerMarks
<1>31. ASSUME JoinerJoins PROVE HeldWhileRunning'
  BY <1>31 DEF JoinerJoins
<1>32. ASSUME JoinerDrained PROVE HeldWhileRunning'
  BY <1>32 DEF JoinerDrained
<1>33. ASSUME NEW i \in DOMAIN list, Sender(i) PROVE HeldWhileRunning'
  BY <1>33 DEF Sender, SenderEnds
<1>34. ASSUME DriverEnds PROVE HeldWhileRunning'
  BY <1>34 DEF DriverEnds, Driver
<1>35. ASSUME Control PROVE HeldWhileRunning'
  BY <1>35 DEF Control, Accepts
<1>36. ASSUME GuiAsks PROVE HeldWhileRunning'
  BY <1>36 DEF GuiAsks, Driver
<1>37. ASSUME GuiLeaves PROVE HeldWhileRunning'
  BY <1>37 DEF GuiLeaves, Driver
<1> QED
  BY <1>1, <1>2, <1>3, <1>4, <1>5, <1>6, <1>7, <1>8, <1>9, <1>10, <1>11, <1>12, <1>13, <1>14,
     <1>15, <1>16, <1>17, <1>18, <1>19, <1>20, <1>21, <1>22, <1>23, <1>24, <1>25, <1>26, <1>27,
     <1>28, <1>29, <1>30, <1>31, <1>32, <1>33, <1>34, <1>35, <1>36, <1>37
  DEF Next, ServiceMain, Scanner, MergeThread, Dispatcher, Joiner, Happens

LEMMA InitIInv == Init => IInv
<1> SUFFICES ASSUME Init PROVE IInv
  OBVIOUS
<1> USE DEF Init
<1>1. TypeOK
  <2>1. ControlType /\ ScanType
    BY DEF ControlType, ScanType
  <2>2. MergeType
    <3>1. queue \in Seq(Event \cup {"stop"})
      OBVIOUS
    <3> QED
      BY <3>1 DEF MergeType
  <2>3. ThreadType
    BY DEF ThreadType
  <2>4. RestType
    BY BoundAssumption DEF RestType
  <2> QED
    BY <2>1, <2>2, <2>3, <2>4, TypeParts
<1>2. InOrder /\ StopIsLast /\ LastRound /\ HeldWhileRunning
  BY DEF InOrder, StopIsLast, LastRound, HeldWhileRunning, AfterScan, AfterStop, AfterMerger,
         AfterPool, AfterJoiner
<1> QED
  BY <1>1, <1>2 DEF IInv

LEMMA StepIInv == IInv /\ [Next]_vars => IInv'
<1> SUFFICES ASSUME IInv, [Next]_vars PROVE IInv'
  OBVIOUS
<1>1. CASE Next
  BY <1>1, TypeStep, OrderStep, QueueStep, RoundStep, HeldStep DEF IInv
<1>2. CASE UNCHANGED vars
  <2> USE <1>2 DEF vars, control, scanners, merging, threads
  <2>1. TypeOK'
    BY TypeParts, SameTypes DEF IInv
  <2>2. InOrder' /\ LastRound' /\ HeldWhileRunning'
    BY DEF IInv, InOrder, LastRound, HeldWhileRunning
  <2>3. StopIsLast'
    BY DEF IInv, StopIsLast
  <2> QED
    BY <2>1, <2>2, <2>3 DEF IInv
<1> QED
  BY <1>1, <1>2

LEMMA Invariance == Spec => []IInv
BY InitIInv, StepIInv, PTL DEF Spec

-----------------------------------------------------------------------------
(***************************************************************************)
(* Every variable of the client's threads keeps its type, whatever         *)
(* happens.                                                                *)
(***************************************************************************)
THEOREM TypeCorrect == Spec => []TypeOK
<1>1. IInv => TypeOK
  BY DEF IInv
<1> QED
  BY <1>1, Invariance, PTL

(***************************************************************************)
(* client::stop leaves no event in the queue: for any number of events.    *)
(***************************************************************************)
THEOREM NothingLeftBehind == Spec => []NoneLeftBehind
<1>1. IInv => NoneLeftBehind
  BY DEF IInv, InOrder, StopIsLast, NoneLeftBehind, AfterScan
<1> QED
  BY <1>1, Invariance, PTL

(***************************************************************************)
(* After client::stop every thread has ended but for one the dispatcher    *)
(* may have pushed past the joiner: for any number of threads.             *)
(***************************************************************************)
THEOREM StoppedQuiet == Spec => []Quiet
<1>1. IInv => Quiet
  BY DEF IInv, InOrder, LastRound, Quiet, AfterScan, AfterStop, AfterMerger, AfterPool, AfterJoiner
<1> QED
  BY <1>1, Invariance, PTL

(***************************************************************************)
(* ServiceCtrlHandler unlocks the mutex once, however many controls come.  *)
(***************************************************************************)
THEOREM UnlockedOnce == Spec => UnlocksWhatIsHeld
<1>1. IInv /\ [Next]_vars => [Control => held /\ main = "wait"]_vars
  BY DEF IInv, HeldWhileRunning, Control, Accepts
<1> QED
  BY <1>1, Invariance, PTL DEF Spec, UnlocksWhatIsHeld
=============================================================================
