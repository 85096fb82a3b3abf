------------------------------- MODULE Session -------------------------------
(***************************************************************************)
(* One action of one file on its way to the server: sendAction on one side *)
(* of a connection, a worker on the other, and TCP between them.  A sender *)
(* whose connection failed tries again, and the worker it left may still   *)
(* be at work on what it was sent.                                         *)
(*                                                                         *)
(* Chunks are buffers of a file; which bytes are in them is left out.      *)
(***************************************************************************)
EXTENDS Integers, Sequences, FiniteSets

CONSTANTS Conn,        \* connections at a time
          Jobs,        \* sets of operations an action may have
          Chunks,      \* the chunks of the file's content
          Gone,        \* the temporary file that is not there
          MaxFailures, \* bound: connections and processes that fail
          MaxRefusals  \* bound: the requests the server refuses

Order == <<"create", "move", "remove", "apply", "version", "write">>
Op    == {Order[i] : i \in 1..6}

ASSUME ConnAssumption == Conn # {}
ASSUME JobsAssumption == Jobs \subseteq SUBSET Op
ASSUME BoundAssumption == MaxFailures \in Nat /\ MaxRefusals \in Nat
ASSUME ChunksAssumption == Chunks \in Nat /\ Gone \notin Nat

(* What travels: a bool is "yes" or "no".  The sizes are in the connection. *)
UpMsg   == {"login", "header", "newname", "size", "chunk"}
DownMsg == {"yes", "no", "size", "chunk"}
End     == {"open", "eof", "reset"}

VARIABLES link,     \* connection -> what is under way, and how each way ends
          worker,   \* connection -> the server's thread
          at,       \* where the sender is in sendAction
          conn,     \* the connection it has
          left,     \* the operations it has still to come to
          n,        \* the chunks it has sent or received
          ops,      \* action.op_code
          got,      \* result.op_code
          temp,     \* the chunks in the temporary file (a link to the live one)
          restored, \* what VERSION has put in the place of the file
          done,     \* the operations the server has committed
          blob,     \* the chunks in the stored file, and
          size,     \* how many the committed version has
          run,      \* thread_pool::running
          job,      \* the operations the action had at first
          failures, refusals,
          shrunk,   \* the live file was cut short
          serving,  \* the server has not ended itself (nobody starts it again)
          overlaid  \* a worker has opened the stored file in the middle of
                    \* another one's writing or after its commit

action == <<ops, got, temp, restored>>
sender == <<at, conn, left, n, action>>
store  == <<done, blob, size>>
bounds == <<job, failures, refusals, shrunk, serving>>
vars   == <<link, worker, sender, store, run, bounds, overlaid>>

TypeOK ==
  /\ link \in [Conn -> [up : Seq(UpMsg), upEnd : End, down : Seq(DownMsg), downEnd : End,
                        asked : SUBSET Op, size : 0..Chunks]]
  /\ worker \in [Conn -> [at : {"login", "header", "ops", "open", "size", "content",
                                "drain", "closed"},
                          left : SUBSET Op, n : 0..Chunks]]
  /\ at \in {"idle", "login", "ops", "ack", "size", "content", "sending", "inner", "drain"}
  /\ conn \in Conn
  /\ left \subseteq ops \cup got /\ ops \subseteq job /\ got \subseteq job \ ops
  /\ n \in 0..Chunks
  /\ temp \in (0..Chunks) \cup {Gone}
  /\ restored \in {"none", "part", "whole"}
  /\ done \subseteq job
  /\ blob \subseteq 1..Chunks /\ size \in 0..Chunks
  /\ {run, shrunk, serving, overlaid} \subseteq BOOLEAN
  /\ job \in Jobs
  /\ failures \in 0..MaxFailures /\ refusals \in 0..MaxRefusals

(* The next one to come: both sides go through them in the order of the bits. *)
First == [set \in (SUBSET Op) \ {{}} |->
  Order[CHOOSE i \in 1..6 : Order[i] \in set /\ \A j \in 1..(i - 1) : Order[j] \notin set]]

-----------------------------------------------------------------------------
(***************************************************************************)
(* A connection.  What is sent on one that was reset is lost; whoever      *)
(* reads on one that has ended gets what is still under way, and then an   *)
(* exception (but for recv into a buffer, which returns 0 at an eof).      *)
(***************************************************************************)
Fresh == [up |-> <<"login">>, upEnd |-> "open", down |-> <<>>, downEnd |-> "open",
          asked |-> {}, size |-> 0]

Up(l, msgs)   == IF l.upEnd = "open" THEN [l EXCEPT !.up = @ \o msgs] ELSE l
Down(l, msgs) == IF l.downEnd = "open" THEN [l EXCEPT !.down = @ \o msgs] ELSE l
Closing(end)  == IF end = "open" THEN "eof" ELSE end
Cut(s, k)     == SubSeq(s, 1, IF k < Len(s) THEN k ELSE Len(s))

(* A connection both sides are done with. *)
Over == [Fresh EXCEPT !.up = <<>>]

Init ==
  /\ job \in Jobs
  /\ link = [c \in Conn |-> Over]
  /\ worker = [c \in Conn |-> [at |-> "closed", left |-> {}, n |-> 0]]
  /\ at = "idle" /\ conn = (CHOOSE c \in Conn : TRUE) /\ left = {} /\ n = 0
  /\ ops = job /\ got = {}
  /\ temp = IF "write" \in job THEN Chunks ELSE Gone
  /\ restored = "none"
  /\ done = {} /\ blob = {} /\ size = 0
  /\ run = TRUE /\ serving = TRUE
  /\ failures = 0 /\ refusals = 0
  /\ shrunk = FALSE /\ overlaid = FALSE

-----------------------------------------------------------------------------
(***************************************************************************)
(* The sender.                                                             *)
(***************************************************************************)
Mine == link[conn]

Hears(m) == Mine.down # <<>> /\ Head(Mine.down) = m
Deaf     == Mine.down = <<>> /\ Mine.downEnd # "open"
Taken    == [Mine EXCEPT !.down = Tail(@)]

Goes(to, l) == at' = to /\ link' = [link EXCEPT ![conn] = l]

(* The end of the block that holds the socket: its destructor shuts down and drains. *)
Leaves == Goes("drain", [Mine EXCEPT !.upEnd = Closing(@)]) /\ UNCHANGED <<left, n, action>>

(***************************************************************************)
(* Connections are all alike: the last one is used again once it is        *)
(* closed.  A worker whose client is gone and that only drains touches     *)
(* nothing any more, and is let close first.                               *)
(***************************************************************************)
Connect(c) ==
  /\ at = "idle" /\ run /\ serving
  /\ ops # {}
  /\ worker[c].at = "closed" /\ (worker[conn].at = "closed" => c = conn)
  /\ \A d \in Conn : worker[d].at # "drain"
  /\ at' = "login" /\ conn' = c /\ left' = ops
  /\ link' = [link EXCEPT ![c] = Fresh]
  /\ worker' = [worker EXCEPT ![c] = [at |-> "login", left |-> {}, n |-> 0]]
  /\ UNCHANGED <<n, action, store, run, bounds, overlaid>>

LoggedIn ==
  /\ at = "login"
  /\ Hears("yes")
  /\ Goes("ops", [Up(Taken, <<"header">>) EXCEPT !.asked = ops])
  /\ UNCHANGED <<left, n, action>>

NotLoggedIn == at = "login" /\ Hears("no") /\ Leaves

(***************************************************************************)
(* A recv that fails, or a send; recv of a size when a bool came instead.  *)
(***************************************************************************)
Throws ==
  /\ \/ at \in {"login", "ack", "size", "sending", "inner"} /\ Deaf
     \/ at = "size" /\ Hears("no")
     \/ at = "content" /\ n < Mine.size /\ Deaf /\ Mine.downEnd = "reset"
     \/ at \in {"ops", "sending"} /\ Mine.upEnd = "reset"
  /\ Leaves

NoMore == at = "ops" /\ (left = {} \/ ~run) /\ Leaves

Turn == IF at = "ops" /\ left # {} /\ run THEN First[left] ELSE "none"

Asks ==
  /\ Turn \in {"create", "move", "remove", "apply"}
  /\ Goes("ack", IF Turn = "move" THEN Up(Mine, <<"newname">>) ELSE Mine)
  /\ UNCHANGED <<left, n, action>>

AsksVersion == Turn = "version" /\ Goes("size", Mine) /\ UNCHANGED <<left, n, action>>

(* Fault: the acknowledge is not looked at. *)
CountsAlways(m) == {TRUE}

(* A byte of the content taken for a bool (VERSION cut off by stop) may be any. *)
Counts(m) == IF m \in {"yes", "no"} THEN {m = "yes"} ELSE BOOLEAN

Acknowledged ==
  /\ at = "ack"
  /\ Mine.down # <<>>
  /\ \E yes \in Counts(Head(Mine.down)) :
       LET o == IF yes THEN {First[left]} ELSE {}
       IN  ops' = ops \ o /\ got' = got \cup o
  /\ left' = left \ {First[left]} /\ n' = 0
  /\ Goes("ops", Taken)
  /\ UNCHANGED <<temp, restored>>

VersionSize ==
  /\ at = "size"
  /\ Hears("size")
  /\ n' = 0
  /\ Goes("content", Taken)
  /\ UNCHANGED <<left, action>>

VersionContent ==
  /\ at = "content" /\ n < Mine.size /\ run
  /\ Hears("chunk")
  /\ n' = n + 1
  /\ Goes("content", Taken)
  /\ UNCHANGED <<left, action>>

VersionInPlace ==
  /\ at = "content"
  /\ n = Mine.size \/ ~run
  /\ restored' = IF n = Mine.size THEN "whole" ELSE "part"
  /\ Goes("ack", Mine)
  /\ UNCHANGED <<left, n, ops, got, temp>>

(***************************************************************************)
(* write looks for the temporary file under the name the action gives the  *)
(* file: with a MOVE that is the new one, and no file is there under it    *)
(* until the MOVE is done with and the WRITE is put back alone.            *)
(***************************************************************************)
Found == temp # Gone /\ "move" \notin ops \cup got

NothingToWrite == Turn = "write" /\ ~Found /\ Leaves

WriteSize ==
  /\ Turn = "write"
  /\ Found
  /\ n' = 0
  /\ Goes("sending", [Up(Mine, <<"size">>) EXCEPT !.size = temp])
  /\ UNCHANGED <<left, action>>

(* The loop of write: it listens for a bool and sends while it can. *)
WriteInterrupted == at = "sending" /\ Hears("yes") /\ Goes("ack", Taken) /\ UNCHANGED <<left, n, action>>
WriteNotWanted   == at = "sending" /\ Hears("no") /\ Goes("sending", Taken) /\ UNCHANGED <<left, n, action>>

(* Fault: the end of the file is not looked for. *)
WriteChunkPast ==
  /\ at = "sending" /\ run
  /\ n' = n + 1
  /\ Goes("sending", Up(Mine, <<"chunk">>))
  /\ UNCHANGED <<left, action>>

WriteChunk ==
  /\ at = "sending" /\ n < temp /\ run
  /\ n' = n + 1
  /\ Goes("sending", Up(Mine, <<"chunk">>))
  /\ UNCHANGED <<left, action>>

(* Fault: the temporary file is removed as soon as it is sent. *)
WriteSentRemoved ==
  /\ at = "sending" /\ (n >= temp \/ ~run)
  /\ temp' = Gone
  /\ Goes("inner", Mine)
  /\ UNCHANGED <<left, n, ops, got, restored>>

WriteSent ==
  /\ at = "sending" /\ (n >= temp \/ ~run)
  /\ Goes("inner", Mine)
  /\ UNCHANGED <<left, n, action>>

(* The answer is read and not looked at. *)
WriteOver ==
  /\ at = "inner"
  /\ Mine.down # <<>>
  /\ temp' = Gone
  /\ Goes("ack", Taken)
  /\ UNCHANGED <<left, n, ops, got, restored>>

(* The socket is drained; what is left of the action is put back, the rest journalled. *)
Returns ==
  /\ at = "drain"
  /\ Mine.downEnd # "open"
  /\ at' = "idle"
  /\ left' = {} /\ n' = 0 /\ got' = {}
  /\ link' = [link EXCEPT ![conn] = IF worker[conn].at = "closed" THEN Over
                                    ELSE [@ EXCEPT !.down = <<>>]]
  /\ UNCHANGED <<ops, temp, restored>>

Listening ==
  \/ LoggedIn \/ NotLoggedIn \/ Throws \/ NoMore \/ Asks \/ Acknowledged
  \/ AsksVersion \/ VersionSize \/ VersionContent \/ VersionInPlace
  \/ NothingToWrite \/ WriteSize \/ WriteInterrupted \/ WriteNotWanted \/ WriteChunk
  \/ WriteSent \/ WriteOver \/ Returns

Sender ==
  \/ \E c \in Conn : Connect(c)
  \/ Listening /\ UNCHANGED <<worker, conn, store, run, bounds, overlaid>>

-----------------------------------------------------------------------------
(***************************************************************************)
(* The worker of a connection.                                             *)
(***************************************************************************)
Told(c, m) == link[c].up # <<>> /\ Head(link[c].up) = m

Heard(c) == [link[c] EXCEPT !.up = Tail(@)]

Works(c, w, l) == worker' = [worker EXCEPT ![c] = w] /\ link' = [link EXCEPT ![c] = l]

(* Fault: the destructor drains without shutting down first. *)
EndingSilently(l) == l

Ending(l) == [l EXCEPT !.downEnd = Closing(@)]

Ends(c, l) == Works(c, [worker[c] EXCEPT !.at = "drain", !.left = {}, !.n = 0], Ending(l))

Login(c) ==
  /\ worker[c].at = "login"
  /\ Told(c, "login")
  /\ Works(c, [worker[c] EXCEPT !.at = "header"], Down(Heard(c), <<"yes">>))
  /\ UNCHANGED <<store, refusals, overlaid>>

Header(c) ==
  /\ worker[c].at = "header"
  /\ Told(c, "header")
  /\ Works(c, [worker[c] EXCEPT !.at = "ops", !.left = link[c].asked],
           [Heard(c) EXCEPT !.asked = {}])
  /\ UNCHANGED <<store, refusals, overlaid>>

Asked(c) ==
  IF worker[c].at = "ops" /\ worker[c].left # {} THEN First[worker[c].left] ELSE "none"

(* GROUP_CHANGES has the stamp of a rename or a removal for its key. *)
Twice(op) == op \in {"move", "remove"} /\ op \in done

Onward(w) == [w EXCEPT !.at = "ops", !.left = @ \ {First[@]}, !.n = 0]

Renames(c) == Asked(c) = "move" /\ Told(c, "newname")

Performs(c) ==
  /\ Asked(c) \in {"create", "remove", "apply"} \/ Renames(c)
  /\ ~Twice(Asked(c))
  /\ done' = done \cup {Asked(c)}
  /\ Works(c, Onward(worker[c]), Down(IF Renames(c) THEN Heard(c) ELSE link[c], <<"yes">>))
  /\ UNCHANGED <<blob, size, refusals, overlaid>>

(* Of a version with no content, nothing is sent but its size. *)
SendsVersion(c) ==
  /\ Asked(c) = "version"
  /\ done' = done \cup {"version"}
  /\ \E s \in {0, Chunks} :
       Works(c, Onward(worker[c]),
             [Down(link[c], <<"size">> \o [i \in 1..s |-> "chunk"] \o <<"yes">>) EXCEPT !.size = s])
  /\ UNCHANGED <<blob, size, refusals, overlaid>>

(* Fault: one acknowledge for a write, whatever it found. *)
WriteKnownOnce(c) ==
  /\ Asked(c) = "write"
  /\ "write" \in done
  /\ Works(c, Onward(worker[c]), Down(link[c], <<"yes">>))
  /\ UNCHANGED <<store, refusals, overlaid>>

WriteKnown(c) ==
  /\ Asked(c) = "write"
  /\ "write" \in done
  /\ Works(c, Onward(worker[c]), Down(link[c], <<"yes", "yes">>))
  /\ UNCHANGED <<store, refusals, overlaid>>

WriteNew(c) ==
  /\ Asked(c) = "write"
  /\ "write" \notin done
  /\ Works(c, [worker[c] EXCEPT !.at = "open"], link[c])
  /\ UNCHANGED <<store, refusals, overlaid>>

(* fopen "wb" empties the file, which another worker may be filling or have filled. *)
WriteOpen(c) ==
  /\ worker[c].at = "open"
  /\ blob' = {}
  /\ overlaid' = (overlaid \/ "write" \in done
                  \/ \E d \in Conn : worker[d].at \in {"size", "content"})
  /\ Works(c, [worker[c] EXCEPT !.at = "size"], link[c])
  /\ UNCHANGED <<done, size, refusals>>

ReadSize(c) ==
  /\ worker[c].at = "size"
  /\ Told(c, "size")
  /\ Works(c, [worker[c] EXCEPT !.at = "content"], Heard(c))
  /\ UNCHANGED <<store, refusals, overlaid>>

ReadContent(c) ==
  /\ worker[c].at = "content"
  /\ worker[c].n < link[c].size
  /\ Told(c, "chunk")
  /\ blob' = blob \cup {worker[c].n + 1}
  /\ Works(c, [worker[c] EXCEPT !.n = @ + 1], Heard(c))
  /\ UNCHANGED <<done, size, refusals, overlaid>>

(* Fault: the end of the connection ends the content. *)
ReceivedOrEof(c) == worker[c].n = link[c].size \/ (link[c].upEnd = "eof" /\ link[c].up = <<>>)

Received(c) == worker[c].n = link[c].size

WriteCommits(c) ==
  /\ worker[c].at = "content"
  /\ Received(c)
  /\ done' = done \cup {"write"} /\ size' = link[c].size
  /\ Works(c, Onward(worker[c]), Down(link[c], <<"yes", "yes">>))
  /\ UNCHANGED <<blob, refusals, overlaid>>

(* An exception of the server's own. *)
CannotDo(c) ==
  /\ \/ worker[c].at = "login" /\ Told(c, "login")
     \/ worker[c].at = "content" /\ Received(c)
     \/ Asked(c) \in Op \ {"move"} \/ Renames(c)
  /\ IF Twice(Asked(c))
     THEN UNCHANGED refusals
     ELSE refusals < MaxRefusals /\ refusals' = refusals + 1

(***************************************************************************)
(* It says no, and ends.  On a connection that was reset the no is lost if *)
(* the system still takes it; if not, see Terminates.                      *)
(***************************************************************************)
Refuses(c) ==
  /\ CannotDo(c)
  /\ Ends(c, Down(link[c], <<"no">>))
  /\ UNCHANGED <<store, overlaid>>

(* The socket throws, when it reads or (reset) when it writes: nothing is said. *)
HangsUp(c) ==
  /\ \/ /\ link[c].up = <<>> /\ link[c].upEnd # "open"
        /\ \/ worker[c].at \in {"login", "header", "size"}
           \/ Asked(c) = "move"
           \/ worker[c].at = "content" /\ ~Received(c) /\ link[c].upEnd = "reset"
     \/ worker[c].at = "ops" /\ link[c].downEnd = "reset"
  /\ Ends(c, link[c])
  /\ UNCHANGED <<store, refusals, overlaid>>

AllDone(c) ==
  /\ worker[c].at = "ops" /\ worker[c].left = {}
  /\ Ends(c, link[c])
  /\ UNCHANGED <<store, refusals, overlaid>>

Closes(c) ==
  /\ worker[c].at = "drain"
  /\ link[c].upEnd # "open"
  /\ Works(c, [worker[c] EXCEPT !.at = "closed"],
           IF at # "idle" /\ c = conn THEN [link[c] EXCEPT !.up = <<>>] ELSE Over)
  /\ UNCHANGED <<store, refusals, overlaid>>

Worker(c) ==
  /\ \/ Login(c) \/ Header(c) \/ Performs(c) \/ SendsVersion(c)
     \/ WriteKnown(c) \/ WriteNew(c) \/ WriteOpen(c) \/ ReadSize(c) \/ ReadContent(c)
     \/ WriteCommits(c) \/ Refuses(c) \/ HangsUp(c) \/ AllDone(c) \/ Closes(c)
  /\ UNCHANGED <<sender, run, job, failures, shrunk, serving>>

-----------------------------------------------------------------------------
(***************************************************************************)
(* What may befall them.                                                   *)
(***************************************************************************)
Failure == failures < MaxFailures /\ failures' = failures + 1

(* The connection is lost, with some of what was under way. *)
Break(c) ==
  /\ Failure
  /\ worker[c].at # "closed" /\ link[c].downEnd # "reset"
  /\ \E i \in 0..Len(link[c].up), j \in 0..Len(link[c].down) :
       link' = [link EXCEPT ![c].up = Cut(@, i), ![c].down = Cut(@, j),
                            ![c].upEnd = "reset", ![c].downEnd = "reset"]
  /\ UNCHANGED <<worker, sender, store, run, job, refusals, shrunk, serving, overlaid>>

(* recv of a string takes what has come so far for all of it, and throws. *)
ReadsShort(c) ==
  /\ Failure
  /\ \/ worker[c].at = "login" /\ Told(c, "login")
     \/ Renames(c)
  /\ Ends(c, Heard(c))
  /\ UNCHANGED <<sender, store, run, job, refusals, shrunk, serving, overlaid>>

(* The server's process ends, with all its workers and connections. *)
ServerEnds ==
  /\ worker' = [c \in Conn |-> [worker[c] EXCEPT !.at = "closed", !.left = {}, !.n = 0]]
  /\ \E j \in 0..(Chunks + 2), end \in {"eof", "reset"} :
       link' = [c \in Conn |->
                  IF at = "idle" \/ c # conn THEN Over
                  ELSE [link[c] EXCEPT !.up = <<>>, !.upEnd = "reset", !.down = Cut(@, j),
                                       !.downEnd = IF @ = "open" THEN end ELSE @]]
  /\ UNCHANGED <<sender, store, run, job, shrunk, overlaid>>

(* Killed from outside, and started again. *)
ServerKilled ==
  /\ Failure
  /\ \E c \in Conn : worker[c].at # "closed"
  /\ ServerEnds
  /\ UNCHANGED <<refusals, serving>>

(***************************************************************************)
(* The no that a handler sends throws, on a connection that was reset, out *)
(* of the handler and of the thread: the process ends.                     *)
(***************************************************************************)
Terminates(c) ==
  /\ CannotDo(c)
  /\ link[c].downEnd = "reset"
  /\ ServerEnds
  /\ serving' = FALSE
  /\ UNCHANGED failures

(* version cannot open its file, or cannot put it in the place of the live one. *)
CannotRestore ==
  /\ Failure
  /\ at = "size" \/ (at = "content" /\ (n = Mine.size \/ ~run))
  /\ Leaves
  /\ UNCHANGED <<worker, conn, store, run, job, refusals, shrunk, serving, overlaid>>

(***************************************************************************)
(* What the journal has not heard of is still to do.  No failure after it: *)
(* Journal says what a second start makes of the stamps.                   *)
(***************************************************************************)
ClientDies ==
  /\ Failure /\ failures' = MaxFailures
  /\ at # "idle" /\ run
  /\ at' = "idle" /\ left' = {} /\ n' = 0
  /\ ops' = ops \cup got /\ got' = {}
  /\ \E end \in {"eof", "reset"} :
       link' = [link EXCEPT ![conn] =
                  IF worker[conn].at = "closed" THEN Over
                  ELSE [link[conn] EXCEPT !.upEnd = IF @ = "open" THEN end ELSE @,
                                          !.down = <<>>, !.downEnd = "reset"]]
  /\ UNCHANGED <<worker, conn, temp, restored, store, run, job, refusals, shrunk, serving, overlaid>>

Stop ==
  /\ run /\ run' = FALSE
  /\ UNCHANGED <<link, worker, sender, store, bounds, overlaid>>

(* The temporary file is a link to a file in use. *)
Shrink ==
  /\ ~shrunk /\ shrunk' = TRUE
  /\ temp \in 1..Chunks
  /\ temp' = temp - 1
  /\ UNCHANGED <<link, worker, at, conn, left, n, ops, got, restored, store, run,
                 job, failures, refusals, serving, overlaid>>

Befalls ==
  \/ \E c \in Conn : Break(c) \/ ReadsShort(c) \/ Terminates(c)
  \/ ServerKilled \/ CannotRestore \/ ClientDies \/ Stop \/ Shrink

Next == Sender \/ (\E c \in Conn : Worker(c)) \/ Befalls

(***************************************************************************)
(* The operating system runs every thread.  TCP brings what was sent, as   *)
(* long as the connection lasts.                                           *)
(***************************************************************************)
Fairness == WF_vars(Sender) /\ \A c \in Conn : WF_vars(Worker(c))

Spec == Init /\ [][Next]_vars /\ Fairness

-----------------------------------------------------------------------------
(***************************************************************************)
(* What the client takes off the action, the server has done: no answer is *)
(* taken for another one's, although one operation answers once, a write   *)
(* twice, and the loop of write reads an answer early or late.  A version  *)
(* that counts is whole, unless stop cut it off: then a byte of its        *)
(* content passes for the answer.                                          *)
(***************************************************************************)
AckedMeansDone ==
  /\ job \ ops \subseteq done
  /\ "version" \in job \ ops => restored = "whole" \/ ~run

(***************************************************************************)
(* A version in the store has all its content, however often the client    *)
(* sent it, unless a worker has emptied the file under another one: the    *)
(* check for the version and the opening of its file are two steps.        *)
(***************************************************************************)
StoredWhole == "write" \in done /\ ~overlaid => 1..size \subseteq blob

(***************************************************************************)
(* The content of a write is in the temporary file until it is stored:     *)
(* failures on either side never lose it.  A refusal does: write removes   *)
(* the file whatever the answer.                                           *)
(***************************************************************************)
KeptUntilStored ==
  "write" \in job => temp # Gone \/ "write" \in done \/ refusals > 0

BothWait ==
  /\ at = "inner" /\ Mine.down = <<>> /\ Mine.downEnd = "open"
  /\ worker[conn].at = "content" /\ Mine.up = <<>> /\ worker[conn].n < Mine.size

Spins == at = "content" /\ n < Mine.size /\ Deaf /\ Mine.downEnd = "eof"

(***************************************************************************)
(* A sender returns, except that it and the worker wait for one another    *)
(* when the file got shorter or stop cut it off in the middle of a write,  *)
(* and that it spins when the server dies in the middle of a version.      *)
(***************************************************************************)
SenderReturns ==
  []<>(at = "idle" \/ (BothWait /\ (shrunk \/ ~run)) \/ (Spins /\ failures > 0))

Hopeless ==
  /\ at = "idle"
  /\ ("write" \in ops /\ temp = Gone) \/ (\E op \in ops : Twice(op))

(***************************************************************************)
(* While the client runs, and the server has not ended itself, an action   *)
(* is done in the end, through failures on either side, except for what a  *)
(* repetition can no longer do: a rename or a removal whose answer was     *)
(* lost, a write whose file is removed.                                    *)
(***************************************************************************)
Delivered == <>(ops = {} \/ ~run \/ ~serving \/ Hopeless \/ BothWait \/ Spins)

(***************************************************************************)
(* protocollo.txt:29: "the server returns 0 when it cannot carry out some  *)
(* operation (in that case the whole transaction fails)".  The operations  *)
(* before the refused one have been committed by then, each on its own.    *)
(***************************************************************************)
WholeTransactionFails == [][refusals' # refusals /\ failures = 0 => done' = {}]_vars
=============================================================================
