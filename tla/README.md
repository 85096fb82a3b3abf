# PimpMyBackup in TLA+

PimpMyBackup keeps a copy of a Windows directory, with every earlier version of
every file, on a Linux server. A client service watches the directory, collects
changes and sends them; the server keeps contents as plain files and everything
else in an SQLite database whose *triggers* decide what is live and what is
history. Changes may arrive in any order, and the triggers are where that is put
right. This project specifies the program in TLA+, checks it with TLC and proves
the most important results with TLAPS.

## The system

| Component | State it keeps | Operations | What is hard about it |
|---|---|---|---|
| **Version store** `create_db.sql`, `server/database.{hpp,cpp}` | tables `files`, `history`, `GROUP_CHANGES`, `users.lastSync` | create, chmod, write, move, remove, apply; reads: version_exists, version, versions, sync | late and reordered requests; one APPLY replays many changes; primary-key conflicts roll back; equal stamps |
| **Server handlers** `server/main.cpp` | one thread per connection, the stored files | header, op-code loop, writeFile, list, sync, version | retries, end of file in the middle of a transfer |
| **Merger** `client/actionmerger.cpp`, `shared_queue.hpp` | map from file name to pending op-codes with a stamp each, `pending_count`, `open` | add_change (two forms), peek, remove, close | merging, the counter, the lock held while waiting for the second half of a rename |
| **Dispatch and send** `client/client.cpp` | thread pool, `wait_time` | dispatch, sendAction, stop | two threads on one file, lost acknowledges, when the APPLY may be sent |
| **Journal** `client/log.cpp` | append-only file of issued and completed operations | issue (two forms), finalize, recovery in the constructor | crashes between steps, completions that clear newer events |
| **Directory listeners** `client/directorylistener.*` | one handle, one lock, `running` each | scan, stop | two listeners feed one queue; stop racing scan |
| **Thread pool** `utilities/threadpool.*` | `running`, `waitingList` | execute, stop, join_all | execute racing stop, an unsynchronised deque |
| **Transfer** `client.cpp` write/version, `server/main.cpp` writeFile/version | temporary files, bytes sent | WRITE, VERSION | stop flag, inner and outer acknowledge |
| **Service** `client/service.cpp` | service status, a mutex used as a signal | start, stop, PARAMCHANGE | stop before start is complete |
| **Pipe and GUI** `client/pipe.cpp`, `PMB_Gui/` | one pipe instance | FILE_VERSION, WORK_COUNT | the driver ends when the GUI does |

How they interact: listener threads put change events in a `shared_queue`; the
merge thread takes them out, hard-links or copies what a WRITE must send,
journals the event and merges it into the map; the dispatch thread takes one
file at a time out of the map and starts a `sendAction` thread for it. That
thread opens a connection, sends the op-codes in a fixed order, waits for one
acknowledge each, puts what was not acknowledged back into the map, journals
what was, and adds an APPLY when `pending_count` is 0. On the server a
connection's thread runs one prepared statement per op-code.

*Every change carries the time it was made.* A CREATE, WRITE or CHMOD changes a
row at once; a MOVE or REMOVE, which can touch a whole directory, is only noted
in `GROUP_CHANGES`, and an APPLY stamped `t` carries out, in order, all those
stamped after the last APPLY and up to `t`.

## How the project is cut

The system is taken in six pieces, each small enough for TLC, along the seams of
the code:

1. `Archive`, `Store`, `FreshStore`, `Delivery`: the version store, what it
   promises, and whether it ends up with the client's directory.
2. `Merger`: queue, map, `pending_count`, dispatch, sendAction, the APPLY.
3. `Journal`: the client's log, crash and recovery, with the threads that write it.
4. `Session`: one action over TCP, both ends, contents included, and its retries.
5. `Lifecycle`: every thread of the client from `client::start` to the end of
   `client::stop`, with the pool, the listeners, the pipe and the service.

What one module leaves out another has: `Merger` takes a sender's connection for
one step per operation, and `Session` opens that step; `Session` takes the store
for a set of operations done, and `Store` opens that; `Lifecycle` counts what the
threads pass on, and `Merger` says what it is. The pieces meet in assumptions
that are checked where they are somebody's business: that what is acknowledged
was done (`Session!AckedMeansDone`) is what `Merger` and `Delivery` build
`Acknowledge` on; that what is put back or not yet journalled as complete is sent
again (`Merger!EverythingSent`, `Journal!RefilledIfSound`) is what makes
`Delivery`'s fairness; that an APPLY is not sent before what was known when it was
decided (`Merger!ApplyAfterAll`), and comes (`Merger!ApplyFollows`), is behind
`Delivery`'s two premises about APPLYs, `orderly` and `ApplyComes`, as far as the code
makes them hold (see there); that the merge thread sees every event
(`Lifecycle!NoneLeftBehind`) is what `Merger` takes for granted of a stop.

## The modules

### Store

The rows of one user (every statement names the user in each WHERE clause, so
users do not meet). Variables: `files` (path to row or `None`), `history`
(`<<path, stamp>>` to file_id or `None`), `changes` (`GROUP_CHANGES`, stamp to
change or `None`), `lastSync`, and `applying`, the UPDATE of `users` in progress.

| Action | Code |
|---|---|
| `Create` | `user_context::create`, trigger `files_update_or_insert` |
| `Chmod` | `user_context::chmod` (its effect on stamps; the mode bits are left out) |
| `Revise` | any UPDATE of a row with its triggers `history_update_ok`, `history_update_ignore` |
| `Move`, `Remove` | INSERT into `GROUP_CHANGES` |
| `Write` | `writeFile`'s check for the version and `write_dispatch`, in one step (`Session` splits them, with the transfer in between; nothing here depends on it): `WriteLive` and `WriteSuperseded` are its two cases, `ForwardedFiles/History` its last two UPDATEs |
| `ApplyBegin`, `ApplyMove`, `ApplyDelete`, `ApplyCommit`, `ApplyAbort` | `user_context::apply`: `historic_dispatch_apply` replays the changes one by one |

A statement that aborts is rolled back, so it is a step that is not enabled;
the replay is the only one long enough to be split, and `ApplyAbort` restores
the tables it found. SQLite admits one writer (`Idle` guards every request) and
readers see the last commit (`journal_mode=WAL`): `CommittedFiles`,
`CommittedHistory`. `recursive_triggers` is on, so the rows that `UPDATE OR
REPLACE` deletes fire `history_delete_new`, and the OR REPLACE governs the
inserts of those triggers as well: a rename overwrites a history row with the
same key where a removal aborts. These points, and the model's steps in general,
were compared with SQLite itself running `create_db.sql` on long random
sequences of statements over small sets of paths and stamps.

Data: a `file_id` is `<<stamp, path>>` for a WRITE (`writeFile` prints the stamp
and a digest of the path) and `<<stamp, Created>>` for a CREATE (the stamp alone):
two files created in one tick share it, as in the code. `Below` and `Rebase` say which paths
are below a directory and what a rename makes of them; they stand for `LIKE` and
`REPLACE` on names without wildcard characters.

### Archive

What the store promises, without tables: the set of versions that can be
retrieved grows and never shrinks; the listing goes forward, unless an APPLY
takes a path away or brings one; an APPLY is one step, whose new versions and listed
stamps are all of its own window. `Store` implements it with
`versions <- Retrievable`, `listing <- Listing`, `synced <- lastSync`.

### FreshStore

`Store` under the clients it was made for: each change has a stamp of its own and
is stored once, in any order, and APPLY stamps do not go back (`used`, `Take`).
With repeated stamps and requests `OneCopyPerVersion` and `ContentsKept` are
false: the equal-stamp branch of `Newer` overwrites a content in place.

`ContentFollowsRenames` says where contents may spread: among the paths that
recorded renames connect, in whichever direction. That they go only forward along
a rename is not true, and the attempt to prove it is how this came out. With `Move(p, q)` stamped 6, this
order of arrival ends with what was written to `q` in `p`: Create(p) 2, the rename
and its APPLY, Create(p) 1, Write(p) 5, Chmod(q) 3, Write(q) 4. The late CHMOD files
the live content, which by then is that of stamp 5, under the stamp 3; the late
write takes it for the content it was based on and replaces it on every path.
SQLite running `create_db.sql` does the same. It takes six stamps, where the run has
four; the hazard is in `PROJECT.json`. The server takes a CHMOD from any client; the
one in this repository has `client::chmod` but no event that asks for it, so that
`Delivery` has no such change.

### Delivery

`Store` at the end of a working day. `script` is what the user did, one change
per stamp; `Deliver` hands a change to the store, in any order, `Absorb` is a
WRITE merged into a later one of the same file, and `Apply` is an APPLY stamped at a
moment when the user is quiet; it may be sent at any time, before or after any of the
changes. `Directory(script)` replays the user's changes on a map of the directory: it
is the reference, for the end of the day (`Converged`) and for each moment of it
(`PastRestorable`).

Three assumptions keep the code's known limits out. All are hazards in
`PROJECT.json`, and removing any of them makes TLC find a diverged file:

- Two are about the application: a path vacated by a rename or removal is used again
  only when that change has been applied (`Spaced`, `Ready`), and then only once
  earlier changes were sent. The usual "save as temporary, rename over" of editors
  does not wait.
- One is about the client: no APPLY reaches the store before a create, rename or
  removal that was made before its stamp, nor after an APPLY with a later stamp
  (`orderly`, the premise of both properties). The code does not guarantee it.
  `sendAction` reads `pending_count` at `client.cpp:203` and takes the stamp at 209; a
  change that is still in the shared queue, in the merge thread's hands, or merged
  between the two lines is not in that count. When its stamp is before the APPLY's and
  it arrives after it, the store never carries it out (`create_db.sql:164-172` looks at
  stamps past `lastSync` only), and the two directories differ for good. Without the
  premise TLC shows it in five steps.

`EverythingDelivered` says that the end of the day comes, if APPLYs come
(`ApplyComes`) and in order. That one comes is what `Merger`'s `ApplyFollows` shows,
under a condition of its own: a counter that is too high misses it (two changes
of one kind counted for one operation, a put-back not yet subtracted, a MOVE or REMOVE
whose lost acknowledge makes the server refuse it for ever).

### Merger

The client between the directory and the server. The user changes the directory
(`disk`), the listeners enqueue events (`queue`; `half` is a rename of which only
the old name is enqueued), the merge thread (`mode`, `event`) folds them into the
map (`pending`, `count` for `pending_count`, `adding` for the thread that has changed
the one and not yet the other), and threads of the pool (`sender`) carry them to the
server.

| Action | Code |
|---|---|
| `UserCreates`, `UserWrites`, `UserRemoves`, `UserRenames` | the user, and `directory_listener::scan` enqueuing the event |
| `ReportNewName` | the second notification of a rename |
| `Take` | `shared_queue::dequeue` by `client::merge` |
| `Drop`, `Merge`, `MergeOldName`, `MergeNewName` | `add_change(const change_entity&)`; a rename takes two steps, with the lock held between them |
| `WrongOrder` | its exception, caught outside the loop of `client::merge` |
| `AskVersion` | `pipe::driver`, FILE_VERSION |
| `Join`, `CountUp` | `add_change(name, action)`: the map, and then the counter, with the lock held, which a sender that reads the counter does not take |
| `Dispatch` | `action_merger::remove` and `thPool.execute` |
| `Acknowledge`, `Fail` | one turn of `sendAction`'s loop: the server acknowledges, or the connection ends (a refusal closes it as well) |
| `NotFound` | the WRITE of an action with a MOVE, for which `write` finds no temporary file (`client.cpp:112`, `170`, `339`) |
| `PutBack`, `Subtract`, `Look`, `QueueApply`, `Finish` | the end of `sendAction`: `add_change(name, action)`, then the subtraction, then the look at `pending_count`, then the stamp of the APPLY, then `add_change` again, in between which the other threads go on |

Every step is what one thread does under one lock or to one atomic variable.
`overtaken`, `unapplied` and `owed` are not in the code. `overtaken` has the senders
that are between the look and the stamp when a change is merged. `owed[n][op]` is the
stamp of the latest change of this kind the server has still to hear of, raised by the user
and cleared by the acknowledge of that change or a later one. One thing is
given up on purpose and `owed` follows the code in it: a write whose file is
renamed or removed before it is merged is skipped.

The map is dispatched in any order: the iterator only decides which file is next.

### Journal

The file `log`, the file `log.old`, what is still in the `FILE*`'s `buffer`, and
the three kinds of threads that write: a record is a header and a name (and a new
name), each a `fwrite` of its own (`Writes`), with no lock over the whole;
whoever flushes, flushes everything. `Crash` may come at any step and takes the
memory and the buffer.

| Action | Code |
|---|---|
| `StartWithLog`, `StartWithout`, `ReadOld`, `ReadGarbled`, `DeleteOld`, `CreateLog`, `Reissue`, `SwapIn` | the constructor of `log`, in its order |
| `Begin`, `OldNameWritten`, `NewName`, `Merge` | `add_change(entity)`, from `log::issue` to the stamp in the map |
| `Send`, `Answer`, `PutBack`, `SenderWrites`, `Finalized` | the journal's part of `dispatch` and `sendAction`: whatever prefix of the operations the server has acknowledged, put back the rest, `finalize` |
| `Issued`, `Completed`, `Replay` | `operator|=`, `operator^=`, the reading loop |

`status` and `latest` are not in the code: they say, of the latest change of each
name and kind, how far its record or its completion has come. `faults` and
`Overlapped` name the cases in which the code gives up: `"cut"` (a crash in the
recovery or between the two records of a rename), `"garbled"`, `"crossed"` (a
completion whose stamp, the newest of the whole action, is past a change another
sender still has), and records of two threads in pieces of one another. The
properties are of the rest (`Sound`), and the run's `CONSTRAINT Sound` does not
go on from such a state. Taking any of them out of `Sound` makes TLC find the
change that is forgotten.

### Session

`sendAction` (`at`, `left`, `n`, and the action's `ops` and `got`), a `worker` for
each connection, and TCP between them (`link`): two sequences of messages and how
each ends: open, an orderly `eof`, a `reset`. A loop over bytes is a loop over
`Chunks`; a bool is `"yes"` or `"no"`.

| Action | Code |
|---|---|
| `Connect` ... `NoMore`, `Asks`, `Acknowledged` | `sendAction` and the one-line exchanges |
| `AsksVersion` ... `VersionInPlace` | `client::version` |
| `NothingToWrite`, `WriteSize`, `WriteInterrupted`, `WriteNotWanted`, `WriteChunk`, `WriteSent`, `WriteOver` | `client::write`: it listens for an answer while it sends. With a MOVE in the action it looks for its file under the new name and finds none (`Found`) |
| `Throws`, `Leaves`, `Returns` | an exception; the destructor of the socket, which shuts down and drains until the other end does; the action put back |
| `Login`, `Header`, `Performs`, `SendsVersion` | `worker` and its handlers |
| `WriteKnown`, `WriteNew`, `WriteOpen`, `ReadSize`, `ReadContent`, `WriteCommits` | `writeFile`: the question, `fopen`, the content and the row are separate steps |
| `CannotDo`, `Refuses`, `HangsUp`, `AllDone`, `Closes` | the two catch clauses, the end of the loop, the destructor |
| `Terminates` | the "no" of the catch clause, sent on a connection that was reset, throws out of the thread (`main.cpp:261`): the server ends itself |
| `CannotRestore` | the two `fs_exception`s of `client::version` |
| `Break`, `ReadsShort`, `ServerKilled`, `ClientDies`, `Stop`, `Shrink` | what may befall them |

A failed sender tries again on the other connection while the first worker may
still be at work: this is how two workers come to fill one file. `temp` is the
temporary file of a write, which is a hard link to a file that its user may still
change (`Shrink`). A server that is killed is taken to be started again; of one that
ended itself nothing in the repository says so (`serving`). On a connection that was
reset a send either throws or is still taken by the system and lost, wherever it is
made. `Twice` is the primary key of `GROUP_CHANGES`. Sending never
blocks: socket buffers are not bounded here.

### Lifecycle

| Action | Code |
|---|---|
| `Start`, `Started`, `StopRequested`, `Stopped` | `ServiceMain`, with the mutex it locks twice to wait |
| `Control` | STOP or SHUTDOWN in `ServiceCtrlHandler` |
| `StopListener`, `Cancel`, `GotLock` | `directory_listener::stop`, for one listener and then the other |
| `ScanJoined` ... `DriverJoined` | `client::stop`, line by line |
| `ScanBegins`, `ScanLocks`, `ScanTests`, `ScanReads`, `ScanFails`, `ScanReports` | `directory_listener::scan`: the lock is held but while it reports |
| `Merge`, `MergeEnds` | `client::merge` |
| `Remove`, `NothingToRemove`, `Check`, `Push` | `dispatch`; `execute` looks at `running` and then pushes |
| `JoinerTests`, `JoinerMarks`, `JoinerJoins`, `JoinerDrained` | `thread_pool::join_all` |
| `Sender` | a `sendAction` that returns, putting something back or not |
| `GuiAsks`, `GuiLeaves`, `DriverEnds` | `pipe::driver`; `DisconnectNamedPipe` is taken to end its wait |

`"junk"` in the queue is a buffer that `ReadDirectoryChangesW` did not fill. The
map is a number of entries: which of them a change joins is left open.

## The runs

| Run | Bounds | Shows |
|---|---|---|
| `store_open` | 2 paths, 2 stamps, renames both ways | `TypeOK`; `ImplementsArchive`; `AppliedChangesHold`: at the commit of an APPLY no path at or below a renamed or removed one is live with an older stamp. Requests repeat, arrive late, carry equal stamps, and APPLYs go back. |
| `store_boundary` | the same | A disagreement: a removal stamped exactly `lastSync` is applied (`<=`) but not counted as made (`<`), so the write it should supersede is refused, not filed. |
| `fresh_store` | directories `d`, `e` with a file each, 4 stamps | `OneCopyPerVersion`; `ContentsKept`; `ContentFollowsRenames`: contents spread only among paths that renames connect. |
| `delivery` | a directory with a file, renamed or removed as a whole; files renamed into each other's places; 6 stamps | `Converged`: when all is acknowledged and applied the store holds the client's files with their contents, unless an APPLY came before a change it should have covered. `PastRestorable`: so it does for the past: of the versions a client can ask for, the last one of a file at or before any moment is the content the file had then, save for a write merged into a later one. `EverythingDelivered`: that moment comes, if APPLYs do. |
| `merger` | 2 files, 1 directory, 2 senders, 3 changes or requests, 1 failure | `TypeOK` (with it: `pending_count` is never negative, the GUI shows it); `NothingLost`: an owed change is in the queue, the merge thread's hands, the map or a sender; `ApplyAfterAll`: a sender that found the counter at 0 overtakes with its APPLY no create, rename or removal that was in the map or with a sender when it looked. |
| `merger_live` | the same, 2 changes | `EverythingSent`: after failures too, the server hears of everything; `ApplyFollows`: every acknowledged operation is followed by an APPLY, as long as the counter is not too high when a sender looks at it. |
| `merger_ends` | as `merger` | A disagreement: the other listener's event between the two halves of a rename makes the merge thread end (`client.cpp:66` says it goes on until it is stopped). |
| `merger_rename` | 2 files, 3 changes | A bug: a failed rename put back into an entry made meanwhile has lost its new name. |
| `journal` | 2 names, MOVE and WRITE, 2 senders, 3 changes, 2 crashes | `Remembered`: at every moment a restart would find each change whose record is written, and none whose completion is; `InHand`: what the journal has as outstanding is in the map or with a sender, by its stamp; `RefilledIfSound`: recovery fills the map with all of it. |
| `session` | actions {MOVE, WRITE}, {CREATE, WRITE} and {CREATE, VERSION}, 2 connections, 2 chunks, 1 failure, 1 refusal, a stop, a shrinking file | `AckedMeansDone`: no answer is taken for another's; `StoredWhole`: a stored version is complete; `KeptUntilStored`: no failure loses the content of a write; `SenderReturns`: a sender comes back; `Delivered`: what can be repeated is done in the end. |
| `session_refused` | 1 connection, 1 refusal, no failure | A disagreement: a refused operation leaves those before it committed (`protocollo.txt:29` says that the whole transaction fails). |
| `lifecycle` | 2 listeners, 1 event or request of the GUI, 1 action put back | `NoneLeftBehind`: the event that ends the merge thread is the last one; `Quiet`: after stop no thread is left but at most one; `UnlocksWhatIsHeld`; `StopReturns`. |

Why the bounds are enough to be interesting: two paths and two stamps already
give the equal, the older and the newer request at a path that has a row or not;
a rename onto a live row; a replay of two changes; a conflict that aborts. Four
stamps allow create, write, rename and a write that is late for both. Six
allow create, rename away, apply, create again, write, and the final apply. In the
client two changes of one name are enough for merging and for a retry that
meets an entry made meanwhile, two senders for the race between the look at
the counter and a put-back, and a third change for a rename on top. Senders are
interchangeable, so `merger` takes states up to their permutation; `merger_live`
does not, as symmetry is not sound for liveness.

`ApplyFollows` has its condition because the code does not guarantee more:
without it TLC shows two ways to miss the APPLY. Two events of one kind of a file not yet
sent are counted twice and acknowledged once; and a sender that puts
back what failed first adds to the counter and then subtracts, so that another
one in between does not see the 0. `ApplyAfterAll` leaves out the senders in
`overtaken` for the same reason: without that TLC shows a sender that looks, a
removal merged, and the stamp taken after it. And it speaks of changes only: a VERSION
that the pipe has put in the map and not counted yet (`adding`) is overtaken too,
which does no harm, as an APPLY takes no version away.

In `journal` two kinds of operation are enough for records, completions and
stamps to be of several, three changes for one to come between the dispatch and
the completion of the others; two crashes, because the second recovery reads what
the first has written. In `session` an action of two operations has something
before and something after each answer; the kinds chosen are one with an argument,
one without, and content in either direction. One failure gives the retry, and two
connections the worker left behind; a second failure would only repeat it. A
content of two chunks is cut in the middle. A WRITE comes with a CREATE, in one
connection, and with a MOVE, where it needs a second one. `Connect` lets a worker
that only drains close first: its last step changes nothing that anyone sees, and
the states with it are half of all. In `lifecycle` one event (up to two
entries of one buffer) is enough to be in any place when stop comes, and one
action put back to arrive before or after `close`; the proofs say that more change
nothing for the safety properties.

The exceptions in the properties are what the code does not do, and each was
found by TLC as a counterexample of the property without it: `BothWait`, `Spins`,
`Hopeless`, `serving` and `overlaid` in `Session`, `overtaken` in `Merger`, `orderly`
in `Delivery`, `NotHeard` in `Lifecycle`, the cases of
`Sound` in `Journal`. They are hazards in `PROJECT.json`, at their lines.

CHECK_DEADLOCK is FALSE in all of them: stamps and failures are finite, so that
changes run out, and a client that is stopped or has delivered everything stays so.

Fairness: `DeliverySpec` assumes weak fairness of each change's delivery and of the
replay. `sendAction` puts what was not acknowledged back into the map and `dispatch`
loops over the map for ever, which is the first; a running SQLite statement ends,
which is the second. It assumes none of an APPLY: that one comes is the premise
`ApplyComes` of the one property that needs it. An acknowledge that is lost is not in
`Delivery`, where a change is accepted and acknowledged in one step; `Session` has it,
and says which change can then not be repeated (`Hopeless`). `Store`, `FreshStore` assume none. `Merger` assumes weak
fairness of the listener's second notification, of the merge thread, of the
thread that has to count what it put in the map, of each sender and of the dispatch of each name: all are threads in loops, and the
iterator of `action_merger::remove` goes round the whole map. The user and the failures are
not fair, and `MaxFailures` says that they end. `EverythingSent` and
`NothingLost` are of a merge thread that has not ended (`merger_ends`). `Session`
and `Lifecycle` assume weak fairness of every thread, as the operating system
gives it, and nothing of failures, refusals, the user, the directory or the
service manager. In `Session` this includes that a sender tries again (the map is
dispatched for ever) and that TCP brings what was sent on a connection that
lasts. In `Lifecycle` a sender returns; when it does not is `Session`'s
`SenderReturns`. `Journal` assumes none.

## The proofs

`tlapm` checks, for every set of paths and stamps, every `Below`, every `Rebase`:

- `StoreProofs!TypeCorrect`: `Spec => []TypeOK`, from `StepType`, one case per
  action.
- `StoreProofs!AppliedChanges`: `Spec => AppliedChangesHold`. `AppliedChangesHold`
  speaks only of the commit; the invariant that carries it (`Replayed`) says it
  of all changes already replayed during the APPLY: a rename lands at paths with
  its own stamp, later than every change replayed before.
- `StoreProofs!StoreImplementsArchive`: `Spec => A!Spec`. Each request that
  makes a key known maps to `Accept`; the replay steps map to stutters, as
  readers do not see them, and `ApplyCommit` to `Apply`. The invariant
  `InProgress` says what a replay in progress has kept of the tables it found and
  that what it added is in its window.
- `FreshStoreProofs!OneCopy`: `FreshSpec => []OneCopyPerVersion`. It is not
  inductive: a replay gives rows the stamp of the change, so it must be known
  that no row has the stamp of a change still to come (`StampsToCome`), that
  rows carry used stamps (`StampsUsed`) and that a replay does not go back
  (`InOrder`). `NoAbort` follows: with fresh stamps no APPLY ever aborts.
- `FreshStoreProofs!ContentsNeverLost`: `FreshSpec => ContentsKept`, on top of
  the same invariant and `ApplyKeeps` (an unfinished replay still stores what it
  found). The heart is `ForwardedKeeps`: a content replaced by a forwarded write
  stays in history at the older stamp the write was based on.

- `MergerProofs!TypeCorrect` and `AppliesAfterAll`: `Spec => []TypeOK` and
  `Spec => []ApplyAfterAll`, for every set of names and of senders. Both come down
  to `Enough`: `pending_count`, with what the thread in `add_change(name, action)` is
  about to add (`Added`), is at least the number of operations in the map plus those the
  senders hold; and it is by itself at least the latter. It is not an equality: a
  change merged into an action that has one of its kind is counted again, and what a
  sender puts back is counted once more until it subtracts. So no step takes the
  counter below 0; and when it is 0, no sender holds anything and the map has at
  most what is still to be added. `CountedSoon` says what that can be: a
  VERSION of the pipe's, or nothing, as a sender that puts back still holds what it
  will subtract. No change is outstanding, then (`ZeroMeansHeard`). From there to
  the stamp only the merge thread can bring one (`StepHeard`), and then the sender is in
  `overtaken`. `Consistent` says of the threads what makes it inductive (a sender
  that sends has something to send).
- `MergerKeeps!ChangesNotLost`: `Spec => []NothingLost`. `OnWay` is the property;
  it is not inductive, as merging overwrites the stamp in the map. `Latest` closes
  it: the queue is in the order of the changes, so that behind every event comes
  the one that is owed; `Tidy` says that a write that is owed still has its file.
  One lemma per action, over three that say what appending, taking and handing on
  keep.

- `LifecycleProofs!NothingLeftBehind`, `StoppedQuiet`, `UnlockedOnce`,
  `TypeCorrect`: for any number of events, requests, actions put back and threads
  in the pool. The invariant `IInv` has four parts beside the types, each
  proved step by step for all 37 actions: `InOrder`, what stop has joined has ended
  and cannot begin again; `StopIsLast`, the event that ends the merge thread is
  the last in the queue and is there only when both listeners have ended;
  `LastRound`, why the joiner's one more round suffices: it takes its flag after
  `running` was cleared, so that the dispatcher can be past its look at `running`
  with at most one thread, which is then all the list can get; `HeldWhileRunning`,
  the service is RUNNING only while `ServiceMain` has the mutex and waits.

- `FreshStoreProofs!ContentNeverStrays`: `FreshSpec => []ContentFollowsRenames`. A
  set of paths is `Closed` when no recorded rename leads across its border. The
  invariant `ContentInv` says of every closed set that a content found in it, in
  the tables or in what an APPLY in progress started from, was written in it and
  is nowhere outside; a step either adds a content under its own path, or carries
  one along a rename, or replaces one that is already there.

- `SessionProofs!TypeCorrect`, `AckedAreDone`, `StoredAreWhole`, `KeptTillStored`:
  for any number of connections, any length of the content, any number of failures
  and refusals. The first three rest on one idea: an answer can be taken for that of
  the wrong operation only if the two ends disagree where they are, and `Wire` says
  they do not. `Opening` and `Ended` fix how a connection begins and that nothing
  follows a refusal. `Turns` is the rest: what the worker has still to do is among
  what the sender awaits, and for each operation not yet done the answers on the way
  are no more than those of the operations before it in the order (`Ahead`, which
  counts two for a WRITE, of which the sender may read the first early). So the
  sender cannot reach the answer of an operation that is not done. Most of what may
  befall them is `Calm`: it brings the sender no answer. That the server ends itself is
  of the kind of a server that is killed (`Killed`), and a version that cannot be put in
  its place is one more way to end the exchange (`Quits`). `Intact` follows
  the content: as long as no two workers had the file open, one alone fills it, and
  the chunks it has counted are in the file. `AckedMeansDone` is stated with an
  exception for a version asked for while the client stops, because that one is
  given up half-way.

- `JournalProofs!TypeCorrect`, `NothingForgotten`, `NothingLetGo`, `RefilledAll`:
  `Spec => []TypeOK`, `[]Remembered`, `[]InHand` and `RefilledIfSound`, for any
  number of names, operations, senders, changes and crashes. Reading a journal is a
  recursive function; that it has a value for every length (`ReplayDefined`), and
  that one more piece is read after all the others (`ReplayAppend`), is by induction,
  which the library allows here in the form of a least counterexample (`Least`).
  `Frame` holds of every behaviour, damaged journals included: types, what
  is in memory in each mode, and that each thread is within one record.
  `Trusted` holds as long as nothing went wrong (`faults`), and speaks of two
  tables: what a restart would find now (`Held`) and once the buffer is flushed
  (`Soon`). Neither property is inductive, since a completion strikes by
  stamps: the newest of the action against that in the journal. `Fitting` carries it.
  For every action in hand and operation in it: if the action has the latest change,
  the stamp in the journal is not past the action's newest (`Reaching`), so that the
  completion strikes it; if it has an older one, the journal has the latest stamp or
  the merge thread is about to write it (`Short`), so that the completion does
  not, unless it crosses. What is put back keeps both, for it joins with the later
  stamps (`JoinedFits`). `Reissued` takes the table through a recovery, and `Exact`
  has the stamps up to the second one. The proof does not need
  `~Overlapped`: records in pieces of one another do harm only by being read,
  which is the fault `"garbled"`.

- `DeliveryProofs!StoreConverges` and `StoreRestores`: `DeliverySpec => []Converged`
  and `[]PastRestorable`, for every tree of paths, every set of renames, every script
  of any length that is `Spaced` and every order of arrival, with `orderly` as the
  premise of both. Once an APPLY came out of order it stays so (`DisorderStays`), and
  nothing more is claimed; until then the invariant `IInv` holds, and it is this
  implication that is inductive (`DayInv`). `Table` is what the store has under a path and
  a stamp, live or in history. What it holds after each subset of the changes is
  never listed; the invariant `IInv` says why it is there. `Places`: every version is
  there because of a change, and a write has a version before it that no rename or
  removal has vacated since. `Carried`: a rename that was carried out has brought the last
  version before it, also when that arrived later (`LateChained`: this is what the two
  UPDATEs of `write_dispatch` are for). `Standing`: the newest version is live unless
  its path was vacated. `Synced`, `InTurn`, `Arrived` and `Merged` tie it to the
  script. Three facts do the work. `OneChain`: versions with one
  content follow one another in time, the earlier has left its path before the later
  comes; so that forwarding by file_id hits what it should and nothing else.
  `HitIsPresent`: what a replayed rename or removal hits is exactly what the user's
  directory had there. `DirectoryShown`, by induction over the script: when all is
  stored, the last version of each file at each moment is the content of the reference.
  `NeverAborts` is a by-product: no APPLY of such a day meets a conflict, as long as
  they come in order. The proof
  uses `Ready`, what a sender waits for, and not `Spaced`, which only
  keeps the scripts that can finish.
- `DeliveryProofs!DayIsArchived`: `DeliverySpec => ImplementsArchive`; every
  step of a day is one of `Store` or leaves it alone, so what is proved of the store
  holds of the day, APPLYs out of order included.

Assumptions on the constants: names and senders are finite sets where they are
counted, `Star`, `None`, `NoFile` and `Nobody` are none of the things they stand
beside; stamps are positive naturals; `Moves` are pairs of paths; `Rebase` gives a path; in
`Delivery` the stamps are `1..n` (`DayAssumption`), and a rename takes the paths at or
below the old name to different ones at or below the new name, and none of them is there
already, as no directory moves into itself (`RenameAssumption`: `REPLACE` of the
prefix); in
`Journal` `Order` is a sequence that has MOVE in it and the merge thread is no
sender; in `Session` there is a connection, an action is a
set of operations, the content has a length. TLC evaluates them in every run.

Only model-checked: liveness (`EverythingDelivered`, `EverythingSent`, `ApplyFollows`,
`SenderReturns`, `Delivered`, `StopReturns`), which is beyond the prover.

## Not modelled

Bytes of files, digests, passwords and permission bits; the wildcard and
letter-case behaviour of `LIKE` and the `REPLACE` on names (hazard for names with
`_` or `%`). The waiting times of the dispatcher and the back-off of `sendAction`
(between two steps any time may pass). The requests SYNC and LIST and the pipe's
WORK_COUNT, which change nothing. The PARAMCHANGE control: its `case` is the accept
flag (8), not the control's code (6), so that the branch is not taken. The memory
of the pool's deque under two threads. The sizes of socket buffers: a worker that
does not read makes a sender wait in `send` sooner than in `recv`. Settings, file
system and string helpers and the GUI are I/O and layout; build files, installer
and scripts are not part of the running system.

The modules are not composed into one: their product is beyond TLC, and "How the
project is cut" says what each takes from the others.
