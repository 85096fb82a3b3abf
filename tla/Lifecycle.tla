------------------------------ MODULE Lifecycle ------------------------------
(***************************************************************************)
(* The threads of the client from start to stop: the service's, two that   *)
(* scan the directory, the one that merges, the one that dispatches, the   *)
(* pool it fills and the joiner that empties it, and the one for the GUI.  *)
(* What the threads pass on is counted; what it says is left to Merger.    *)
(***************************************************************************)
EXTENDS Integers, Sequences

CONSTANTS MaxEvents, \* bound: the events of the directory and requests of the GUI
          MaxBacks   \* bound: the actions put back

ASSUME BoundAssumption == MaxEvents \in Nat /\ MaxBacks \in Nat

Listener == {"dir", "file"}
Event    == {"event", "junk"}

VARIABLES service,    \* dwCurrentState
          held,       \* the mutex l
          main,       \* where ServiceMain is, in start and stop
          scan,       \* listener -> where its thread is in scan
          running,    \* listener -> running
          queue,      \* the shared queue
          merger,     \* where the merge thread is
          map,        \* the entries of the merger's map
          open,       \* action_merger::open
          dispatcher, \* where the dispatcher is
          pool,       \* thread_pool::running
          list,       \* waitingList: what each thread in it does
          joiner,     \* where the joiner is in join_all
          lastRound,  \* its last_round
          driver,     \* where the thread of the pipe is
          events, backs,
          broken      \* the merge thread has thrown, or met what is no event

control  == <<service, held, main>>
scanners == <<scan, running>>
merging  == <<queue, merger, map, open, broken>>
threads  == <<dispatcher, pool, list, joiner, lastRound>>
vars     == <<control, scanners, merging, threads, driver, events, backs>>

TypeOK ==
  /\ service \in {"pending", "running", "stopping", "stopped"}
  /\ held \in BOOLEAN
  /\ main \in {"start", "up", "wait", "dir", "cancel dir", "file", "cancel file", "join scan",
               "enqueue", "join merger", "close", "pool", "join joiner", "join dispatcher",
               "pipe", "join driver", "report", "stopped"}
  /\ scan \in [Listener -> {"none", "new", "begun", "locked", "reads", "reports", "ended"}]
  /\ running \in [Listener -> BOOLEAN]
  /\ queue \in Seq(Event \cup {"stop"})
  /\ merger \in {"none", "takes", "ended"}
  /\ map \in Nat
  /\ open \in BOOLEAN
  /\ dispatcher \in {"none", "peek", "check", "push", "ended"}
  /\ pool \in BOOLEAN
  /\ list \in Seq({"runs", "ended"})
  /\ joiner \in {"test", "mark", "drain", "ended"}
  /\ lastRound \in BOOLEAN
  /\ driver \in {"none", "serves", "ended"}
  /\ events \in 0..MaxEvents /\ backs \in 0..MaxBacks
  /\ broken \in BOOLEAN

Init ==
  /\ service = "pending" /\ held = FALSE /\ main = "start"
  /\ scan = [l \in Listener |-> "none"]
  /\ running = [l \in Listener |-> FALSE]
  /\ queue = <<>> /\ merger = "none" /\ map = 0 /\ open = TRUE /\ broken = FALSE
  /\ dispatcher = "none"
  /\ pool = TRUE /\ list = <<>> /\ joiner = "test" /\ lastRound = TRUE
  /\ driver = "none"
  /\ events = 0 /\ backs = 0

-----------------------------------------------------------------------------
(***************************************************************************)
(* The service.  ServiceMain holds l and locks it again, to wait for the   *)
(* control handler to unlock it: a semaphore.                              *)
(***************************************************************************)
Start ==
  /\ main = "start"
  /\ held' = TRUE /\ main' = "up"
  /\ scan' = [l \in Listener |-> "new"]
  /\ merger' = "takes" /\ dispatcher' = "peek" /\ driver' = "serves"
  /\ map' \in {0, 1}    \* the journal had entries, or none
  /\ UNCHANGED <<service, running, queue, open, broken, pool, list, joiner, lastRound,
                 events, backs>>

Started ==
  /\ main = "up"
  /\ service' = "running" /\ main' = "wait"
  /\ UNCHANGED <<held, scanners, merging, threads, driver, events, backs>>

(* Fault: the state of the service is not asked for. *)
AcceptsAlways == service \in {"running", "stopping"}

Accepts == service = "running"

Control ==
  /\ Accepts
  /\ service' = "stopping" /\ held' = FALSE
  /\ UNCHANGED <<main, scanners, merging, threads, driver, events, backs>>

-----------------------------------------------------------------------------
(***************************************************************************)
(* client::stop, and the stop of what it stops.                            *)
(***************************************************************************)
Main(from, to) == main = from /\ main' = to

Cancelling == [l \in Listener |-> IF l = "dir" THEN "cancel dir" ELSE "cancel file"]
Following  == [l \in Listener |-> IF l = "dir" THEN "file" ELSE "join scan"]

StopRequested ==
  /\ Main("wait", "dir")
  /\ ~held /\ held' = TRUE
  /\ UNCHANGED <<service, scanners, merging, threads, driver, events, backs>>

(* A listener whose thread has not come to set running is left alone. *)
StopListener(l) ==
  /\ main = l
  /\ main' = IF running[l] THEN Cancelling[l] ELSE Following[l]
  /\ running' = [running EXCEPT ![l] = FALSE]
  /\ UNCHANGED <<service, held, scan, merging, threads, driver, events, backs>>

(* Fault: the wait for the directory is not interrupted. *)
CancelNothing(l) == FALSE /\ UNCHANGED vars

(* CancelIoEx ends a read that has begun, and does nothing before. *)
Cancel(l) ==
  /\ main = Cancelling[l]
  /\ scan[l] = "reads"
  /\ scan' = [scan EXCEPT ![l] = "ended"]
  /\ UNCHANGED <<control, running, merging, threads, driver, events, backs>>

GotLock(l) ==
  /\ Main(Cancelling[l], Following[l])
  /\ scan[l] \notin {"locked", "reads"}
  /\ UNCHANGED <<service, held, scanners, merging, threads, driver, events, backs>>

(* Fault: only the first of the two threads is joined. *)
ScanJoinedFirst ==
  /\ Main("join scan", "enqueue")
  /\ scan["dir"] = "ended"
  /\ UNCHANGED <<service, held, scanners, merging, threads, driver, events, backs>>

ScanJoined ==
  /\ Main("join scan", "enqueue")
  /\ \A l \in Listener : scan[l] = "ended"
  /\ UNCHANGED <<service, held, scanners, merging, threads, driver, events, backs>>

EnqueueStop ==
  /\ Main("enqueue", "join merger")
  /\ queue' = Append(queue, "stop")
  /\ UNCHANGED <<service, held, scanners, merger, map, open, broken, threads, driver,
                 events, backs>>

MergerJoined ==
  /\ Main("join merger", "close")
  /\ merger = "ended"
  /\ UNCHANGED <<service, held, scanners, merging, threads, driver, events, backs>>

Close ==
  /\ Main("close", "pool")
  /\ open' = FALSE
  /\ UNCHANGED <<service, held, scanners, queue, merger, map, broken, threads, driver,
                 events, backs>>

PoolStop ==
  /\ Main("pool", "join joiner")
  /\ pool' = FALSE
  /\ UNCHANGED <<service, held, scanners, merging, dispatcher, list, joiner, lastRound,
                 driver, events, backs>>

Joined(thread, state, from, to) ==
  /\ Main(from, to)
  /\ thread = state
  /\ UNCHANGED <<service, held, scanners, merging, threads, driver, events, backs>>

JoinerJoined     == Joined(joiner, "ended", "join joiner", "join dispatcher")
DispatcherJoined == Joined(dispatcher, "ended", "join dispatcher", "pipe")
PipeClosed       == Joined(TRUE, TRUE, "pipe", "join driver")
DriverJoined     == Joined(driver, "ended", "join driver", "report")

Stopped ==
  /\ Main("report", "stopped")
  /\ service' = "stopped" /\ held' = FALSE
  /\ UNCHANGED <<scanners, merging, threads, driver, events, backs>>

ServiceMain ==
  \/ Start \/ Started \/ StopRequested
  \/ \E l \in Listener : StopListener(l) \/ Cancel(l) \/ GotLock(l)
  \/ ScanJoined \/ EnqueueStop \/ MergerJoined \/ Close \/ PoolStop
  \/ JoinerJoined \/ DispatcherJoined \/ PipeClosed \/ DriverJoined \/ Stopped

-----------------------------------------------------------------------------
(***************************************************************************)
(* directory_listener::scan.  It holds the lock but while it reports.      *)
(***************************************************************************)
Scans(l, from, to) == scan[l] = from /\ scan' = [scan EXCEPT ![l] = to]

ScanBegins(l) ==
  /\ Scans(l, "new", "begun")
  /\ running' = [running EXCEPT ![l] = TRUE]
  /\ UNCHANGED <<control, merging, threads, driver, events, backs>>

ScanLocks(l) ==
  /\ Scans(l, "begun", "locked")
  /\ UNCHANGED <<control, running, merging, threads, driver, events, backs>>

ScanTests(l) ==
  /\ Scans(l, "locked", IF running[l] THEN "reads" ELSE "ended")
  /\ UNCHANGED <<control, running, merging, threads, driver, events, backs>>

(* The directory changes; or the handle fails, and scan throws. *)
ScanReads(l) ==
  /\ events < MaxEvents
  /\ events' = events + 1
  /\ Scans(l, "reads", "reports")
  /\ UNCHANGED <<control, running, merging, threads, driver, backs>>

ScanFails(l) ==
  /\ Scans(l, "reads", "ended")
  /\ UNCHANGED <<control, running, merging, threads, driver, events, backs>>

(***************************************************************************)
(* When more has happened than the buffer holds the call succeeds with 0   *)
(* bytes, which nobody looks at: what is enqueued is an uninitialised      *)
(* buffer.                                                                 *)
(***************************************************************************)
ScanReports(l) ==
  /\ Scans(l, "reports", "begun")
  /\ \E batch \in {<<"event">>, <<"event", "event">>, <<"junk">>} : queue' = queue \o batch
  /\ UNCHANGED <<control, running, merger, map, open, broken, threads, driver, events, backs>>

-----------------------------------------------------------------------------
(***************************************************************************)
(* client::merge.  An event makes an entry, joins one, or is of no         *)
(* interest; a rename out of order throws.  An Action of 0 is the end:     *)
(* stop enqueues one, and a buffer that is no event may hold one.          *)
(***************************************************************************)
Merge ==
  /\ merger = "takes" /\ queue # <<>>
  /\ Head(queue) \in Event
  /\ queue' = Tail(queue)
  /\ \/ map' \in {map, map + 1} /\ UNCHANGED <<merger, broken>>
     \/ merger' = "ended" /\ broken' = TRUE /\ UNCHANGED map
  /\ UNCHANGED <<control, scanners, open, threads, driver, events, backs>>

MergeEnds ==
  /\ merger = "takes" /\ queue # <<>>
  /\ Head(queue) = "stop"
  /\ queue' = Tail(queue)
  /\ merger' = "ended"
  /\ UNCHANGED <<control, scanners, map, open, broken, threads, driver, events, backs>>

-----------------------------------------------------------------------------
(***************************************************************************)
(* client::dispatch, and the pool.                                         *)
(***************************************************************************)
(* Fault: the entry is erased by its name, and then where the iterator is. *)
RemoveTwo ==
  /\ dispatcher = "peek"
  /\ map > 0 /\ map' = map - 2
  /\ dispatcher' = "check"
  /\ UNCHANGED <<control, scanners, queue, merger, open, broken, pool, list, joiner,
                 lastRound, driver, events, backs>>

Remove ==
  /\ dispatcher = "peek"
  /\ map > 0 /\ map' = map - 1
  /\ dispatcher' = "check"
  /\ UNCHANGED <<control, scanners, queue, merger, open, broken, pool, list, joiner,
                 lastRound, driver, events, backs>>

NothingToRemove ==
  /\ dispatcher = "peek"
  /\ map = 0 /\ ~open
  /\ dispatcher' = "ended"
  /\ UNCHANGED <<control, scanners, merging, pool, list, joiner, lastRound, driver,
                 events, backs>>

(* execute, after stop: the action is dropped (the journal has it). *)
Check ==
  /\ dispatcher = "check"
  /\ dispatcher' = IF pool THEN "push" ELSE "peek"
  /\ UNCHANGED <<control, scanners, merging, pool, list, joiner, lastRound, driver,
                 events, backs>>

Push ==
  /\ dispatcher = "push"
  /\ list' = Append(list, "runs") /\ dispatcher' = "peek"
  /\ UNCHANGED <<control, scanners, merging, pool, joiner, lastRound, driver, events, backs>>

SenderEnds(i) ==
  /\ list[i] = "runs"
  /\ list' = [list EXCEPT ![i] = "ended"]
  /\ UNCHANGED <<dispatcher, pool, joiner, lastRound>>

(* What an action puts back, or an APPLY it queues, is dropped when the merger is closed. *)
Sender(i) ==
  /\ SenderEnds(i)
  /\ \/ UNCHANGED <<map, backs>>
     \/ backs < MaxBacks /\ backs' = backs + 1 /\ map' = IF open THEN map + 1 ELSE map
  /\ UNCHANGED <<control, scanners, queue, merger, open, broken, driver, events>>

(* Fault: the joiner goes round only while the pool runs. *)
AgainWhileRunning == pool

Again == pool \/ lastRound

JoinerTests ==
  /\ joiner = "test"
  /\ joiner' = IF Again THEN "mark" ELSE "ended"
  /\ UNCHANGED <<control, scanners, merging, dispatcher, pool, list, lastRound, driver,
                 events, backs>>

JoinerMarks ==
  /\ joiner = "mark"
  /\ lastRound' = pool /\ joiner' = "drain"
  /\ UNCHANGED <<control, scanners, merging, dispatcher, pool, list, driver, events, backs>>

JoinerJoins ==
  /\ joiner = "drain"
  /\ list # <<>> /\ Head(list) = "ended"
  /\ list' = Tail(list)
  /\ UNCHANGED <<control, scanners, merging, dispatcher, pool, joiner, lastRound, driver,
                 events, backs>>

JoinerDrained ==
  /\ joiner = "drain"
  /\ list = <<>>
  /\ joiner' = "test"
  /\ UNCHANGED <<control, scanners, merging, dispatcher, pool, list, lastRound, driver,
                 events, backs>>

Dispatcher == Remove \/ NothingToRemove \/ Check \/ Push
Joiner     == JoinerTests \/ JoinerMarks \/ JoinerJoins \/ JoinerDrained

-----------------------------------------------------------------------------
(***************************************************************************)
(* pipe::driver: one connection of the GUI, and then the thread ends, as   *)
(* it does when the pipe is closed under it.                               *)
(***************************************************************************)
Driver(to) ==
  /\ driver' = to
  /\ UNCHANGED <<control, scanners, queue, merger, open, broken, threads, backs>>

GuiAsks ==
  /\ driver = "serves"
  /\ events < MaxEvents /\ events' = events + 1
  /\ Driver("serves")
  /\ map' = IF open THEN map + 1 ELSE map

GuiLeaves == driver = "serves" /\ Driver("ended") /\ UNCHANGED <<map, events>>

DriverEnds ==
  /\ main = "join driver"
  /\ driver = "serves"
  /\ Driver("ended")
  /\ UNCHANGED <<map, events>>

-----------------------------------------------------------------------------
Scanner(l) == ScanBegins(l) \/ ScanLocks(l) \/ ScanTests(l) \/ ScanReports(l)

MergeThread == Merge \/ MergeEnds

Happens ==
  \/ Control
  \/ \E l \in Listener : ScanReads(l) \/ ScanFails(l)
  \/ GuiAsks \/ GuiLeaves

Next ==
  \/ ServiceMain \/ (\E l \in Listener : Scanner(l)) \/ MergeThread \/ Dispatcher
  \/ Joiner \/ (\E i \in DOMAIN list : Sender(i)) \/ DriverEnds \/ Happens

(***************************************************************************)
(* The operating system runs every thread; a sender returns (Session says  *)
(* when); nothing obliges the user or the service manager.                 *)
(***************************************************************************)
Fairness ==
  /\ WF_vars(ServiceMain) /\ \A l \in Listener : WF_vars(Scanner(l))
  /\ WF_vars(MergeThread) /\ WF_vars(Dispatcher) /\ WF_vars(Joiner) /\ WF_vars(DriverEnds)
  /\ WF_vars(\E i \in DOMAIN list : Sender(i))

Spec == Init /\ [][Next]_vars /\ Fairness

-----------------------------------------------------------------------------
(***************************************************************************)
(* The event that ends the merge thread is the last in the queue: stop     *)
(* enqueues it when no listener can enqueue any more, so that no change    *)
(* that was read is left behind.  (Unless the merge thread has thrown, or  *)
(* met a buffer with no event in it.)                                      *)
(***************************************************************************)
NoneLeftBehind ==
  merger = "ended" /\ ~broken => queue = <<>> /\ \A l \in Listener : scan[l] = "ended"

(***************************************************************************)
(* When stop has returned no thread is left but, at most, one the          *)
(* dispatcher started when stop came between its look at running and the   *)
(* push: nobody joins that one (client::stop, thread_pool::join_all).      *)
(***************************************************************************)
Quiet ==
  main = "stopped" =>
    /\ \A l \in Listener : scan[l] = "ended"
    /\ merger = "ended" /\ dispatcher = "ended" /\ joiner = "ended" /\ driver = "ended"
    /\ Len(list) <= 1

(***************************************************************************)
(* The control handler unlocks the mutex only when ServiceMain has it,     *)
(* however many controls come: unlocking it twice is undefined, and would  *)
(* let a second one through.                                               *)
(***************************************************************************)
UnlocksWhatIsHeld == [][Control => held /\ main = "wait"]_vars

NotHeard == main = "join scan" /\ \E l \in Listener : running[l] /\ scan[l] # "ended"

(***************************************************************************)
(* A stop returns, unless a listener's thread came to scan only after its  *)
(* stop: it has not been told, and is waited for.                          *)
(***************************************************************************)
StopReturns == service = "stopping" ~> main = "stopped" \/ NotHeard
=============================================================================
