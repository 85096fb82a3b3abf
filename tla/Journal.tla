------------------------------- MODULE Journal -------------------------------
(***************************************************************************)
(* The client's journal and what a restart makes of it.  The merge thread  *)
(* writes a record before it merges a change; a sender writes one for what *)
(* the server acknowledged; the constructor of log renames the file to     *)
(* .old, replays it, deletes it, and writes what is left to a new file.    *)
(*                                                                         *)
(* Records go through one FILE* in pieces, and no lock is held over them.  *)
(* A crash takes the memory and what was not flushed, at any step.         *)
(***************************************************************************)
EXTENDS Integers, Sequences, Functions

CONSTANTS Name,      \* the names of files
          Order,     \* the operations, lowest bit first
          Worker,    \* the senders
          NoFile,    \* what is in a file that does not exist
          Nobody,    \* no change, no action
          MaxTime,   \* bound: the changes
          MaxCrashes \* bound: the crashes

Op     == Range(Order)
Time   == 0..MaxTime
Thread == Worker \cup {"merger"}

ASSUME OrderAssumption == Order \in Seq(STRING) /\ "move" \in Op
ASSUME ThreadAssumption == "merger" \notin Worker
ASSUME BoundAssumption == MaxTime \in Nat /\ MaxCrashes \in Nat

(* A record is a header, a name and, for a rename, the new name: its pieces. *)
Record == [type : {"i", "c"}, ops : (SUBSET Op) \ {{}}, time : Time, name : Name]
Piece  == [part : {"head", "name", "newname"}, of : Record]
Action == [ops : SUBSET Op, ts : [Op -> Time]]

Change == [name : Name, op : Op, time : Time, stage : {"old", "half", "new"}]
Job    == [name : Name, action : Action, got : SUBSET Op,
           stage : {"send", "putback", "finalize"}]

ASSUME NoFileAssumption == NoFile \notin Seq(Piece)
ASSUME NobodyAssumption == Nobody \notin Change \cup Job

Done == [ops |-> {}, ts |-> [o \in Op |-> 0]]

VARIABLES clock,     \* stamps given out
          mode,      \* "down", the steps of the constructor of log, or "up"
          old,       \* the file log.old
          log,       \* the file log, as far as it is flushed
          buffer,    \* the buffer of log_file
          loaded,    \* load_map
          todo,      \* the entries the constructor has still to issue
          pending,   \* action_merger::map
          writing,   \* thread -> the pieces it has still to write
          change,    \* the change in the merge thread's hands: it holds the lock
          sender,    \* worker -> the action it sends
          crashes,   \* how many crashes there were
          status,    \* name -> operation -> what is known of the latest such change:
                     \* "begun" or "ending" while its record is on the way
          latest,    \* name -> operation -> the stamp that change is known by (0: none)
          faults     \* what went wrong with the journal: a recovery was "cut" by a
                     \* crash or found it "garbled", a completion "crossed" a change

files   == <<old, log>>
memory  == <<buffer, loaded, todo, pending, writing, change, sender>>
history == <<crashes, status, latest, faults>>
vars    == <<clock, mode, files, memory, history>>

IsFile(f) == f = NoFile \/ f \in Seq(Piece)

TypeOK ==
  /\ clock \in Time
  /\ mode \in {"down", "read", "delete", "create", "issue", "up"}
  /\ IsFile(old) /\ IsFile(log)
  /\ buffer \in Seq(Piece)
  /\ loaded \in [Name -> Action]
  /\ todo \subseteq Name
  /\ pending \in [Name -> Action]
  /\ writing \in [Thread -> Seq(Piece)]
  /\ change \in Change \cup {Nobody}
  /\ sender \in [Worker -> Job \cup {Nobody}]
  /\ crashes \in 0..MaxCrashes
  /\ status \in [Name -> [Op -> {"none", "begun", "written", "ending", "done"}]]
  /\ latest \in [Name -> [Op -> Time]]
  /\ faults \subseteq {"cut", "garbled", "crossed"}

-----------------------------------------------------------------------------
(***************************************************************************)
(* Records, and what reading them gives.                                   *)
(***************************************************************************)
Later(t, u) == IF t > u THEN t ELSE u

Newest(ts) == CHOOSE t \in Range(ts) : \A o \in Op : ts[o] <= t

Lowest(ops) == Order[CHOOSE i \in 1..Len(Order) : Order[i] \in ops
                                                   /\ \A j \in 1..(i - 1) : Order[j] \notin ops]

Pieces(r) == <<[part |-> "head", of |-> r], [part |-> "name", of |-> r]>>

(* Fault: the first stamp of an operation stays. *)
IssuedOnce(a, r) ==
  [ops |-> a.ops \cup r.ops,
   ts  |-> [a.ts EXCEPT ![Lowest(r.ops)] = IF @ = 0 THEN r.time ELSE @]]

(* file_action::operator |=: only the lowest bit of the record gets its stamp. *)
Issued(a, r) ==
  [ops |-> a.ops \cup r.ops,
   ts  |-> [a.ts EXCEPT ![Lowest(r.ops)] = Later(@, r.time)]]

(* file_action::operator ^=, and the entry erased when nothing is left of it. *)
Completed(a, r) ==
  LET over == {o \in a.ops \cap r.ops : a.ts[o] <= r.time}
  IN  IF a.ops = over THEN Done
      ELSE [ops |-> a.ops \ over,
            ts  |-> [o \in Op |-> IF o \in over THEN 0 ELSE a.ts[o]]]

Read(m, p) ==
  IF p.part # "name" THEN m
  ELSE [m EXCEPT ![p.of.name] = IF p.of.type = "i" THEN Issued(@, p.of)
                                                   ELSE Completed(@, p.of)]

Replay(f) ==
  LET after[i \in 0..Len(f)] == IF i = 0 THEN [n \in Name |-> Done]
                                         ELSE Read(after[i - 1], f[i])
  IN  after[Len(f)]

(***************************************************************************)
(* A header not followed by its name (but for the last thing in the file,  *)
(* which reading skips), or a rename not followed by its new name, leaves  *)
(* the reader with lengths that are none.                                  *)
(***************************************************************************)
Renames(p) == p.part = "name" /\ p.of.type = "i" /\ "move" \in p.of.ops

FollowedBy(f, i, part) == i < Len(f) /\ f[i + 1] = [f[i] EXCEPT !.part = part]

Damaged(f, i) ==
  \/ f[i].part = "head" /\ i < Len(f) /\ ~FollowedBy(f, i, "name")
  \/ Renames(f[i]) /\ ~FollowedBy(f, i, "newname")

Garbled(f) == \E i \in 1..Len(f) : Damaged(f, i)

Init ==
  /\ clock = 0
  /\ mode = "down"
  /\ old = NoFile /\ log = NoFile
  /\ buffer = <<>>
  /\ loaded = [n \in Name |-> Done]
  /\ todo = {}
  /\ pending = [n \in Name |-> Done]
  /\ writing = [t \in Thread |-> <<>>]
  /\ change = Nobody
  /\ sender = [w \in Worker |-> Nobody]
  /\ crashes = 0
  /\ status = [n \in Name |-> [o \in Op |-> "none"]]
  /\ latest = [n \in Name |-> [o \in Op |-> 0]]
  /\ faults = {}

-----------------------------------------------------------------------------
(***************************************************************************)
(* The constructor of log, run by client::start before any thread.         *)
(***************************************************************************)
StartWithLog ==
  /\ mode = "down"
  /\ log # NoFile /\ old = NoFile
  /\ old' = log /\ log' = NoFile
  /\ mode' = "read"
  /\ UNCHANGED <<clock, memory, history>>

(* MoveFileW fails when there is no log, and when there is a .old. *)
StartWithout ==
  /\ mode = "down"
  /\ log = NoFile \/ old # NoFile
  /\ mode' = "create"
  /\ UNCHANGED <<clock, files, memory, history>>

Load(entries) ==
  /\ loaded' = entries
  /\ mode' = "delete"
  /\ UNCHANGED <<buffer, todo, pending, writing, change, sender>>

ReadOld ==
  /\ mode = "read"
  /\ ~Garbled(old)
  /\ Load(Replay(old))
  /\ UNCHANGED <<clock, files, history>>

(***************************************************************************)
(* A garbled length makes resize throw, which ends the process, or names   *)
(* a file nobody has: what was read before it is all that is of use.       *)
(***************************************************************************)
ReadGarbled ==
  /\ mode = "read"
  /\ Garbled(old)
  /\ faults' = faults \cup {"garbled"}
  /\ \/ mode' = "down" /\ UNCHANGED memory
     \/ \E i \in 1..Len(old) :
          /\ Damaged(old, i) /\ \A j \in 1..(i - 1) : ~Damaged(old, j)
          /\ Load(Replay(SubSeq(old, 1, i - 1)))
  /\ UNCHANGED <<clock, files, crashes, status, latest>>

DeleteOld ==
  /\ mode = "delete"
  /\ old' = NoFile
  /\ mode' = "create"
  /\ UNCHANGED <<clock, log, memory, history>>

CreateLog ==
  /\ mode = "create"
  /\ log' = <<>>
  /\ todo' = {n \in Name : loaded[n].ops # {}}
  /\ mode' = "issue"
  /\ UNCHANGED <<clock, old, buffer, loaded, pending, writing, change, sender, history>>

(* issue(file_action): one record for all operations, with the newest stamp. *)
Reissue(n) ==
  /\ mode = "issue"
  /\ n \in todo
  /\ LET r == [type |-> "i", ops |-> loaded[n].ops, time |-> Newest(loaded[n].ts), name |-> n]
     IN  log' = log \o Pieces(r) \o (IF "move" \in r.ops
                                     THEN <<[part |-> "newname", of |-> r]>> ELSE <<>>)
  /\ todo' = todo \ {n}
  /\ UNCHANGED <<clock, mode, old, buffer, loaded, pending, writing, change, sender, history>>

SwapIn ==
  /\ mode = "issue"
  /\ todo = {}
  /\ pending' = loaded
  /\ loaded' = [n \in Name |-> Done]
  /\ mode' = "up"
  /\ latest' = [n \in Name |-> [o \in Op |-> IF o \in loaded[n].ops THEN loaded[n].ts[o]
                                            ELSE latest[n][o]]]
  /\ UNCHANGED <<clock, files, buffer, todo, writing, change, sender, crashes, status, faults>>

-----------------------------------------------------------------------------
(***************************************************************************)
(* Any thread writes its next piece; whoever flushes, flushes everything.  *)
(***************************************************************************)
Writes(t) ==
  /\ mode = "up"
  /\ writing[t] # <<>>
  /\ buffer' = Append(buffer, Head(writing[t]))
  /\ writing' = [writing EXCEPT ![t] = Tail(@)]
  /\ UNCHANGED <<clock, mode, files, loaded, todo, pending, change, sender>>

MergerWrites == Writes("merger") /\ UNCHANGED history

Flush == log' = log \o buffer /\ buffer' = <<>> /\ UNCHANGED old

(***************************************************************************)
(* The merge thread, in add_change(entity): it journals the change, a      *)
(* rename in two records, and then merges it, under one lock.              *)
(***************************************************************************)
Begin(n, op) ==
  /\ mode = "up"
  /\ change = Nobody
  /\ clock < MaxTime
  /\ clock' = clock + 1
  /\ change' = [name |-> n, op |-> op, time |-> clock + 1, stage |-> "old"]
  /\ writing' = [writing EXCEPT !["merger"] =
       Pieces([type |-> "i", ops |-> {op}, time |-> clock + 1, name |-> n])]
  /\ status' = [status EXCEPT ![n][op] = "begun"]
  /\ latest' = [latest EXCEPT ![n][op] = clock + 1]
  /\ UNCHANGED <<mode, files, buffer, loaded, todo, pending, sender, crashes, faults>>

Written(stage) == mode = "up" /\ change # Nobody /\ change.stage = stage /\ writing["merger"] = <<>>

OldNameWritten ==
  /\ Written("old")
  /\ change.op = "move"
  /\ Flush
  /\ change' = [change EXCEPT !.stage = "half"]
  /\ UNCHANGED <<clock, mode, loaded, todo, pending, writing, sender, history>>

NewName ==
  /\ Written("half")
  /\ change' = [change EXCEPT !.stage = "new"]
  /\ writing' = [writing EXCEPT !["merger"] =
       <<[part |-> "newname", of |-> [type |-> "i", ops |-> {"move"}, time |-> change.time,
                                      name |-> change.name]]>>]
  /\ UNCHANGED <<clock, mode, files, buffer, loaded, todo, pending, sender, history>>

Merged(a, c) == [ops |-> a.ops \cup {c.op}, ts |-> [a.ts EXCEPT ![c.op] = c.time]]

Merge ==
  /\ Written(IF change.op = "move" THEN "new" ELSE "old")
  /\ Flush
  /\ pending' = [pending EXCEPT ![change.name] = Merged(@, change)]
  /\ status' = [status EXCEPT ![change.name][change.op] = "written"]
  /\ change' = Nobody
  /\ UNCHANGED <<clock, mode, loaded, todo, writing, sender, crashes, latest, faults>>

-----------------------------------------------------------------------------
(***************************************************************************)
(* A sender, in sendAction: it takes the action of a file, hears what the  *)
(* server did of it, puts back the rest and journals the completion, with  *)
(* the newest stamp of the whole action.                                   *)
(***************************************************************************)
Send(w, n) ==
  /\ mode = "up"
  /\ change = Nobody
  /\ sender[w] = Nobody
  /\ pending[n].ops # {}
  /\ sender' = [sender EXCEPT ![w] = [name |-> n, action |-> pending[n],
                                     got |-> {}, stage |-> "send"]]
  /\ pending' = [pending EXCEPT ![n] = Done]
  /\ UNCHANGED <<clock, mode, files, buffer, loaded, todo, writing, change, history>>

At(w, stage) == mode = "up" /\ sender[w] # Nobody /\ sender[w].stage = stage

(* Fault: the completion names every operation that was sent. *)
CompletionOfAll(s) ==
  [type |-> "c", ops |-> s.action.ops, time |-> Newest(s.action.ts), name |-> s.name]

Completion(s) ==
  [type |-> "c", ops |-> s.got, time |-> Newest(s.action.ts), name |-> s.name]

(* The server does the operations in order, until one fails or the connection does. *)
Answer(w, k) ==
  /\ At(w, "send")
  /\ LET got == {o \in sender[w].action.ops : \E i \in 1..k : Order[i] = o}
     IN  /\ k > 0 => Order[k] \in got
         /\ sender' = [sender EXCEPT ![w].got = got, ![w].stage = "putback"]
  /\ UNCHANGED <<clock, mode, files, buffer, loaded, todo, pending, writing, change, history>>

(* Fault: what is put back brings its old stamps. *)
JoinedOverwriting(a, left, ts) == [ops |-> a.ops \cup left, ts |-> ts]

(* add_change(name, action): all stamps, those of what was done included. *)
Joined(a, left, ts) ==
  [ops |-> a.ops \cup left, ts |-> [o \in Op |-> Later(a.ts[o], ts[o])]]

(* Fault: a completion is journalled whatever the server did. *)
NothingDoneIgnored(s) == FALSE

NothingDone(s) == s.got = {}

PutBack(w) ==
  /\ At(w, "putback")
  /\ LET s == sender[w]
         left == s.action.ops \ s.got
     IN  /\ left # {} => change = Nobody
         /\ pending' = IF left = {} THEN pending
                       ELSE [pending EXCEPT ![s.name] = Joined(@, left, s.action.ts)]
         /\ IF NothingDone(s)
            THEN /\ sender' = [sender EXCEPT ![w] = Nobody]
                 /\ UNCHANGED writing
            ELSE /\ sender' = [sender EXCEPT ![w].stage = "finalize"]
                 /\ writing' = [writing EXCEPT ![w] = Pieces(Completion(s))]
  /\ UNCHANGED <<clock, mode, files, buffer, loaded, todo, change, history>>

(* The latest change of the kind is among those the sender has completed. *)
Covers(s, o) == o \in s.got /\ s.action.ts[o] = latest[s.name][o]

Turned(s, to) ==
  status' = [status EXCEPT ![s.name] = [o \in Op |-> IF Covers(s, o) THEN to ELSE @[o]]]

(***************************************************************************)
(* Two senders may have the same file.  What one of them puts back may go  *)
(* out again with a later change of another kind, and its completion then  *)
(* has a stamp past the change the other sender has not completed.         *)
(***************************************************************************)
Crosses(s) == \E o \in s.got : s.action.ts[o] < latest[s.name][o]
                               /\ latest[s.name][o] <= Newest(s.action.ts)

SenderWrites(w) ==
  /\ Writes(w)
  /\ IF Len(writing[w]) = 1 THEN Turned(sender[w], "ending") ELSE UNCHANGED status
  /\ faults' = IF Crosses(sender[w]) THEN faults \cup {"crossed"} ELSE faults
  /\ UNCHANGED <<crashes, latest>>

Finalized(w) ==
  /\ At(w, "finalize")
  /\ writing[w] = <<>>
  /\ Flush
  /\ Turned(sender[w], "done")
  /\ sender' = [sender EXCEPT ![w] = Nobody]
  /\ UNCHANGED <<clock, mode, loaded, todo, pending, writing, change, crashes, latest, faults>>

-----------------------------------------------------------------------------
Crash ==
  /\ mode # "down"
  /\ crashes < MaxCrashes
  /\ crashes' = crashes + 1
  /\ faults' = IF mode = "up" THEN faults ELSE faults \cup {"cut"}
  /\ mode' = "down"
  /\ buffer' = <<>>
  /\ loaded' = [n \in Name |-> Done]
  /\ todo' = {}
  /\ pending' = [n \in Name |-> Done]
  /\ writing' = [t \in Thread |-> <<>>]
  /\ change' = Nobody
  /\ sender' = [w \in Worker |-> Nobody]
  /\ UNCHANGED <<clock, files, status, latest>>

Recovery ==
  \/ StartWithLog \/ StartWithout \/ ReadOld \/ ReadGarbled \/ DeleteOld \/ CreateLog \/ SwapIn
  \/ \E n \in Name : Reissue(n)

MergeThread ==
  \/ \E n \in Name, o \in Op : Begin(n, o)
  \/ MergerWrites \/ OldNameWritten \/ NewName \/ Merge

SendThread(w) ==
  \/ \E n \in Name : Send(w, n)
  \/ \E k \in 0..Len(Order) : Answer(w, k)
  \/ PutBack(w) \/ SenderWrites(w) \/ Finalized(w)

Next == Recovery \/ MergeThread \/ (\E w \in Worker : SendThread(w)) \/ Crash

Spec == Init /\ [][Next]_vars

-----------------------------------------------------------------------------
(***************************************************************************)
(* What a restart from here would find, or has found.                      *)
(***************************************************************************)
Held == CASE mode \in {"up", "down"} /\ log # NoFile -> Replay(log)
          [] mode = "read"                           -> Replay(old)
          [] OTHER                                   -> loaded

Overlapped ==
  /\ log # NoFile
  /\ LET f == log \o buffer IN \E i \in 1..(Len(f) - 1) : Damaged(f, i)

Sound == faults = {} /\ ~Overlapped

(***************************************************************************)
(* A change whose record is written is remembered, and one whose           *)
(* completion is written is not done again, wherever the client crashes.   *)
(* The code gives this up in the cases Sound excludes: a crash during the  *)
(* recovery or between the two records of a rename, records of two threads *)
(* in pieces of one another (nothing locks the file over a record), and    *)
(* Crosses.                                                                *)
(***************************************************************************)
Remembered ==
  Sound => \A n \in Name, o \in Op :
    /\ status[n][o] = "written" => o \in Held[n].ops
    /\ status[n][o] \in {"none", "done"} => o \notin Held[n].ops

Holds(a, n, o) == o \in a.ops /\ a.ts[o] = latest[n][o]

(***************************************************************************)
(* While the client runs, what the journal says is outstanding is in the   *)
(* map or with a sender, by the stamp it is known by: a restart would find *)
(* nothing that is not being done anyway.                                  *)
(***************************************************************************)
InHand ==
  Sound /\ mode = "up" => \A n \in Name, o \in Op :
    status[n][o] = "written" =>
      \/ Holds(pending[n], n, o)
      \/ \E w \in Worker : sender[w] # Nobody /\ sender[w].name = n
                            /\ Holds(sender[w].action, n, o)

Refilled ==
  \A n \in Name, o \in Op : status[n][o] = "written" =>
    o \in pending'[n].ops /\ (crashes = 1 => pending'[n].ts[o] = latest[n][o])

(***************************************************************************)
(* A recovery fills the map with every entry still to complete, and after  *)
(* the first crash each has its own stamp, by which a write finds its      *)
(* temporary file.  (The next one reads records of several operations, of  *)
(* which only the lowest gets a stamp: |= and issue(file_action).)         *)
(***************************************************************************)
RefilledIfSound == [][SwapIn /\ faults = {} => Refilled]_vars
=============================================================================
