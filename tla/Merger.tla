------------------------------- MODULE Merger -------------------------------
(***************************************************************************)
(* The client's pipeline.  Two directory listeners put what they are told  *)
(* in a shared_queue; the merge thread folds it, event by event, into one  *)
(* pending action per file; the dispatcher takes the action of one file at *)
(* a time and gives it to a thread of its own, which sends its operations  *)
(* and puts back those the server did not acknowledge.  pending_count,     *)
(* which the senders read without a lock, tells them when the map and the  *)
(* other senders have nothing but writes: only then do they stamp and      *)
(* queue an APPLY, for which renames and removals wait on the server.      *)
(*                                                                         *)
(* The order of the files' map, waiting times, the journal and the stop of *)
(* the client are left out.                                                *)
(***************************************************************************)
EXTENDS Integers, Sequences, FiniteSets

CONSTANTS Name,       \* paths below the watched directory
          Dir,        \* those that are directories: they have a listener of their own
          Star,       \* "*", the name an APPLY is pending under
          None,       \* no path, no pending action
          Worker,     \* the threads of the pool that run at a time
          MaxTime,    \* bound: the stamps the clock gives out
          MaxFailures \* bound: the connections that fail

ASSUME NameAssumption == Dir \subseteq Name /\ Star \notin Name /\ None \notin Name /\ None # Star
ASSUME FiniteAssumption == IsFiniteSet(Name) /\ IsFiniteSet(Worker)
ASSUME BoundAssumption == MaxTime \in Nat /\ MaxFailures \in Nat

Listener == {"files", "dirs"}
Entity   == Name \cup {Star}
Time     == 0..MaxTime

(***************************************************************************)
(* The operations, in the order sendAction sends them.  CHMOD and LIST     *)
(* never come out of get_flag_bit or the pipe.                             *)
(***************************************************************************)
Order   == <<"create", "move", "remove", "apply", "version", "write">>
Op      == {Order[i] : i \in 1..6}
Counted == Op \ {"write", "apply"}
Change  == {"create", "move", "remove"}

Event  == [op : {"create", "move", "remove", "write", "newname", "invalid"},
           name : Name, time : Time]
Action == [ops : SUBSET Op, ts : [Op -> Time], to : Name \cup {None}]
Sender == [name : Entity, ops : SUBSET Op, ts : [Op -> Time], to : Name \cup {None},
           got : SUBSET Op, stage : {"send", "putback", "subtract", "check", "stamp"}]

(***************************************************************************)
(* A thread that has put operations in the map, by whom (None: the pipe's  *)
(* thread) and how many that pending_count has still to count.             *)
(***************************************************************************)
Addition == [by : Worker \cup {None}, n : Nat]

ASSUME NoneAssumption == /\ None \notin Event /\ None \notin Action /\ None \notin Sender
                         /\ None \notin Worker /\ None \notin Addition

VARIABLES clock,     \* GetSystemTimeAsFileTime
          disk,      \* the names that exist in the watched directory
          half,      \* listener -> new name of the rename it has reported half of
          queue,     \* shared_queue<change_entity>
          mode,      \* the merge thread: "free", "taken" an event, in a "rename"
                     \* (where it holds the merger's lock), or "ended"
          event,     \* the event it has taken
          pending,   \* action_merger::map
          count,     \* action_merger::pending_count
          adding,    \* the add_change(name, action) that is between the two, or None
          sender,    \* worker -> the sendAction it runs, or None
          failures,  \* how many connections failed
          owed,      \* name -> operation -> stamp of the latest such change that
                     \* the server has still to hear of (0: none)
          unapplied, \* an operation was acknowledged that no APPLY covers yet
          overtaken  \* the senders that found pending_count at 0, have not stamped
                     \* their APPLY yet, and saw a change merged since

merging == <<mode, event, pending, count, adding>>
world   == <<clock, disk, half, queue>>
account == <<owed, unapplied, overtaken>>
vars    == <<world, merging, sender, failures, account>>

TypeOK ==
  /\ clock \in Time
  /\ disk \subseteq Name
  /\ half \in [Listener -> Name \cup {None}]
  /\ queue \in Seq(Event)
  /\ mode \in {"free", "taken", "rename", "ended"}
  /\ event \in Event \cup {None}
  /\ pending \in [Entity -> Action \cup {None}]
  /\ count \in Nat
  /\ adding \in Addition \cup {None}
  /\ sender \in [Worker -> Sender \cup {None}]
  /\ failures \in 0..MaxFailures
  /\ owed \in [Entity -> [Op -> Time]]
  /\ unapplied \in BOOLEAN
  /\ overtaken \subseteq Worker

Init ==
  /\ clock = 0
  /\ disk = {}
  /\ half = [l \in Listener |-> None]
  /\ queue = <<>>
  /\ mode = "free"
  /\ event = None
  /\ pending = [n \in Entity |-> None]
  /\ count = 0
  /\ adding = None
  /\ sender = [w \in Worker |-> None]
  /\ failures = 0
  /\ owed = [n \in Entity |-> [o \in Op |-> 0]]
  /\ unapplied = FALSE
  /\ overtaken = {}

Later(t, u) == IF t > u THEN t ELSE u

-----------------------------------------------------------------------------
(***************************************************************************)
(* The user changes the directory, and the listener that watches this kind *)
(* of names reports it (scan, shared_queue::enqueue).  A rename is two     *)
(* notifications, enqueued one after the other; the other listener may     *)
(* enqueue in between.  A new directory is reported and later dropped.     *)
(***************************************************************************)
Watcher(n) == IF n \in Dir THEN "dirs" ELSE "files"

Report(n, op) ==
  /\ half[Watcher(n)] = None
  /\ clock < MaxTime
  /\ clock' = clock + 1
  /\ queue' = Append(queue, [op |-> op, name |-> n, time |-> clock + 1])
  /\ UNCHANGED <<merging, sender, failures, unapplied, overtaken>>

(***************************************************************************)
(* What the server has still to hear of.  A write of a name that is        *)
(* renamed or removed before it is merged is not counted: see Drop.        *)
(***************************************************************************)
Owe(n, op) ==
  owed' = [owed EXCEPT ![n] = [o \in Op |->
             IF o = op THEN clock + 1
             ELSE IF o = "write" /\ op \in {"move", "remove"} THEN 0
             ELSE owed[n][o]]]

UserCreates(n) ==
  /\ n \notin disk
  /\ disk' = disk \cup {n}
  /\ IF n \in Dir
     THEN Report(n, "invalid") /\ UNCHANGED owed
     ELSE Report(n, "create") /\ Owe(n, "create")
  /\ UNCHANGED half

UserWrites(n) ==
  /\ n \in disk \ Dir
  /\ Report(n, "write")
  /\ Owe(n, "write")
  /\ UNCHANGED <<disk, half>>

UserRemoves(n) ==
  /\ n \in disk
  /\ disk' = disk \ {n}
  /\ Report(n, "remove")
  /\ Owe(n, "remove")
  /\ UNCHANGED half

UserRenames(n, m) ==
  /\ n \in disk
  /\ m \notin disk
  /\ n \in Dir <=> m \in Dir
  /\ disk' = (disk \ {n}) \cup {m}
  /\ Report(n, "move")
  /\ Owe(n, "move")
  /\ half' = [half EXCEPT ![Watcher(n)] = m]

ReportNewName(l) ==
  /\ half[l] # None
  /\ half' = [half EXCEPT ![l] = None]
  /\ queue' = Append(queue, [op |-> "newname", name |-> half[l], time |-> clock])
  /\ UNCHANGED <<clock, disk, merging, sender, failures, account>>

-----------------------------------------------------------------------------
(***************************************************************************)
(* client::merge takes an event out of the queue, and add_change(entity)   *)
(* folds it in.  Between the two it is counted nowhere.                    *)
(***************************************************************************)
Take ==
  /\ mode = "free"
  /\ queue # <<>>
  /\ mode' = "taken"
  /\ event' = Head(queue)
  /\ queue' = Tail(queue)
  /\ UNCHANGED <<clock, disk, half, pending, count, adding, sender, failures, account>>

(* The pending action of n with one more operation in it: map[n].op_code |= op. *)
With(n, op) ==
  LET a == IF pending[n] = None
           THEN [ops |-> {}, ts |-> [o \in Op |-> 0], to |-> None]
           ELSE pending[n]
  IN  [a EXCEPT !.ops = @ \cup {op}]

Runs(w, stage) == sender[w] # None /\ sender[w].stage = stage

(* The merger's lock: add_change holds it to its end. *)
Unlocked == mode # "rename" /\ adding = None

Unlock == mode' = "free" /\ event' = None

(***************************************************************************)
(* A new directory is ignored, and so is a write when there is no file any *)
(* more to link or to copy: what was written before a rename is then lost  *)
(* until the next write.                                                   *)
(***************************************************************************)
Drop ==
  /\ mode = "taken"
  /\ Unlocked
  /\ \/ event.op = "invalid"
     \/ event.op = "write" /\ event.name \notin disk
  /\ Unlock
  /\ UNCHANGED <<world, pending, count, adding, sender, failures, account>>

(* The senders that looked before this change came in, and stamp after it. *)
Overtakes == overtaken' = overtaken \cup {w \in Worker : Runs(w, "stamp")}

(***************************************************************************)
(* The counter goes up before the map changes, with the lock held: as seen *)
(* from the senders, the two are one step.                                 *)
(***************************************************************************)
Merge ==
  /\ mode = "taken"
  /\ Unlocked
  /\ event.op \in {"create", "remove", "write"}
  /\ event.op = "write" => event.name \in disk
  /\ count' = IF event.op = "write" THEN count ELSE count + 1
  /\ pending' = [pending EXCEPT ![event.name] =
                   [With(event.name, event.op) EXCEPT !.ts[event.op] = event.time]]
  /\ IF event.op = "write" THEN UNCHANGED overtaken ELSE Overtakes
  /\ Unlock
  /\ UNCHANGED <<world, adding, sender, failures, owed, unapplied>>

MergeOldName ==
  /\ mode = "taken"
  /\ Unlocked
  /\ event.op = "move"
  /\ count' = count + 1
  /\ pending' = [pending EXCEPT ![event.name] = With(event.name, "move")]
  /\ mode' = "rename"
  /\ Overtakes
  /\ UNCHANGED <<world, event, adding, sender, failures, owed, unapplied>>

(***************************************************************************)
(* Still holding the lock, add_change waits for the next event and expects *)
(* it to be the new name; any other makes it throw, and client::merge ends.*)
(***************************************************************************)
MergeNewName ==
  /\ mode = "rename"
  /\ queue # <<>>
  /\ Head(queue).op = "newname"
  /\ queue' = Tail(queue)
  /\ pending' = [pending EXCEPT ![event.name].to = Head(queue).name,
                                ![event.name].ts["move"] = event.time]
  /\ Unlock
  /\ UNCHANGED <<clock, disk, half, count, adding, sender, failures, account>>

WrongOrder ==
  /\ mode = "rename"
  /\ queue # <<>>
  /\ Head(queue).op # "newname"
  /\ queue' = Tail(queue)
  /\ mode' = "ended"
  /\ event' = None
  /\ UNCHANGED <<clock, disk, half, pending, count, adding, sender, failures, account>>

-----------------------------------------------------------------------------
(***************************************************************************)
(* add_change(name, action): a put-back action, an APPLY or a request of   *)
(* the pipe joins what is pending.  The new name is not merged.  Once it   *)
(* is in the map it is counted: until then, pending_count is less than the *)
(* senders, who need no lock for it, would find a moment later.  (Where an *)
(* entry grows, its operations are added anew before the old number is     *)
(* subtracted.  That can be one step: who looks between the two finds some *)
(* left, as before them.)                                                  *)
(***************************************************************************)
(* Fault: what is put in the map replaces what is pending. *)
JoinedOverwriting(n, a) == a

Joined(n, a) ==
  IF pending[n] = None
  THEN a
  ELSE [pending[n] EXCEPT !.ops = @ \cup a.ops,
                          !.ts = [o \in Op |-> Later(@[o], a.ts[o])]]

(* Fault: what is put back is not counted again. *)
NewlyCountedNone(n, a) == 0

(* Fault: what joins a pending action is not counted. *)
NewlyCountedIfNew(n, a) ==
  IF pending[n] = None THEN Cardinality(a.ops \cap Counted) ELSE 0

NewlyCounted(n, a) ==
  Cardinality((a.ops \ (IF pending[n] = None THEN {} ELSE pending[n].ops)) \cap Counted)

Join(by, n, a) ==
  /\ Unlocked
  /\ pending' = [pending EXCEPT ![n] = Joined(n, a)]
  /\ adding' = [by |-> by, n |-> NewlyCounted(n, a)]

CountUp ==
  /\ adding # None
  /\ count' = count + adding.n
  /\ adding' = None
  /\ UNCHANGED <<world, mode, event, pending, sender, failures, account>>

Just(op, t) == [ops |-> {op}, ts |-> [o \in Op |-> IF o = op THEN t ELSE 0], to |-> None]

(* pipe::driver: the GUI asks for the version of n stamped t. *)
AskVersion(n, t) ==
  /\ clock < MaxTime
  /\ clock' = clock + 1
  /\ Join(None, n, Just("version", t))
  /\ owed' = [owed EXCEPT ![n]["version"] = Later(@, t)]
  /\ UNCHANGED <<disk, half, queue, mode, event, count, sender, failures, unapplied,
                 overtaken>>

-----------------------------------------------------------------------------
(***************************************************************************)
(* dispatch: action_merger::remove, thread_pool::execute.                  *)
(***************************************************************************)
Dispatch(n) ==
  /\ Unlocked
  /\ pending[n] # None
  /\ pending' = [pending EXCEPT ![n] = None]
  /\ \E w \in Worker :
       /\ sender[w] = None
       /\ sender' = [sender EXCEPT ![w] =
            [name |-> n, ops |-> pending[n].ops, ts |-> pending[n].ts,
             to |-> pending[n].to, got |-> {}, stage |-> "send"]]
  /\ UNCHANGED <<world, mode, event, count, adding, failures, account>>

NextOp(ops) == Order[CHOOSE i \in 1..6 : Order[i] \in ops
                                          /\ \A j \in 1..(i - 1) : Order[j] \notin ops]

(***************************************************************************)
(* The server acknowledges the next operation.  A WRITE that goes with a   *)
(* MOVE is looked for under the new name in the temporary directory, where *)
(* it is not: it is put back, and sent alone.                              *)
(***************************************************************************)
Unfindable(w) == NextOp(sender[w].ops) = "write" /\ "move" \in sender[w].got

Acknowledged(w, op) ==
  /\ count' = IF op \in Counted THEN count - 1 ELSE count
  /\ owed' = [owed EXCEPT ![sender[w].name][op] =
                IF @ <= sender[w].ts[op] THEN 0 ELSE @]
  /\ unapplied' = (unapplied \/ op \in Counted)

Acknowledge(w) ==
  /\ Runs(w, "send")
  /\ ~Unfindable(w)
  /\ LET op   == NextOp(sender[w].ops)
         left == sender[w].ops \ {op}
     IN  /\ Acknowledged(w, op)
         /\ sender' = [sender EXCEPT ![w].ops = left,
                                     ![w].got = @ \cup {op},
                                     ![w].stage = IF left = {} THEN "check" ELSE "send"]
  /\ UNCHANGED <<world, mode, event, pending, adding, failures, overtaken>>

NotFound(w) ==
  /\ Runs(w, "send")
  /\ Unfindable(w)
  /\ sender' = [sender EXCEPT ![w].stage = "putback"]
  /\ UNCHANGED <<world, merging, failures, account>>

(***************************************************************************)
(* The connection fails, or the server refuses the operation and closes    *)
(* it: what is left is put back.                                           *)
(***************************************************************************)
Fail(w) ==
  /\ Runs(w, "send")
  /\ failures < MaxFailures
  /\ failures' = failures + 1
  /\ sender' = [sender EXCEPT ![w].stage = "putback"]
  /\ UNCHANGED <<world, merging, account>>

(* Fault: an action with only a write left in it is not put back. *)
PutBackCounted(w) ==
  /\ Runs(w, "putback")
  /\ IF sender[w].ops \cap (Counted \cup {"apply"}) = {}
     THEN UNCHANGED <<pending, adding>>
     ELSE Join(w, sender[w].name, [ops |-> sender[w].ops, ts |-> sender[w].ts,
                                   to |-> sender[w].to])
  /\ sender' = [sender EXCEPT ![w].stage = "subtract"]
  /\ UNCHANGED <<world, mode, event, count, failures, account>>

PutBack(w) ==
  /\ Runs(w, "putback")
  /\ Join(w, sender[w].name, [ops |-> sender[w].ops, ts |-> sender[w].ts,
                              to |-> sender[w].to])
  /\ sender' = [sender EXCEPT ![w].stage = "subtract"]
  /\ UNCHANGED <<world, mode, event, count, failures, account>>

Subtract(w) ==
  /\ Runs(w, "subtract")
  /\ adding # None => adding.by # w
  /\ count' = count - Cardinality(sender[w].ops \cap Counted)
  /\ sender' = [sender EXCEPT ![w].stage = "check"]
  /\ UNCHANGED <<world, mode, event, pending, adding, failures, account>>

(***************************************************************************)
(* The last thing sendAction does: with an operation acknowledged, other   *)
(* than WRITE and APPLY, and pending_count at 0, it stamps an APPLY and    *)
(* puts it in the map.  No lock is held from the look to the stamp, nor    *)
(* from the stamp to the map: meanwhile more changes can be merged.        *)
(***************************************************************************)
(* Fault: the mask is not complemented: a sender of other operations never applies. *)
AppliesUnlessWritten(w) == count = 0 /\ sender[w].got \ Counted = {}

Applies(w) == count = 0 /\ sender[w].got \cap Counted # {}

Look(w) ==
  /\ Runs(w, "check")
  /\ Applies(w)
  /\ sender' = [sender EXCEPT ![w].stage = "stamp"]
  /\ UNCHANGED <<world, merging, failures, account>>

QueueApply(w) ==
  /\ Runs(w, "stamp")
  /\ sender' = [sender EXCEPT ![w] =
       [name |-> Star, ops |-> {"apply"}, ts |-> Just("apply", clock).ts,
        to |-> None, got |-> {}, stage |-> "putback"]]
  /\ owed' = [owed EXCEPT ![Star]["apply"] = clock]
  /\ unapplied' = FALSE
  /\ overtaken' = overtaken \ {w}
  /\ UNCHANGED <<world, merging, failures>>

Finish(w) ==
  /\ Runs(w, "check")
  /\ ~Applies(w)
  /\ sender' = [sender EXCEPT ![w] = None]
  /\ UNCHANGED <<world, merging, failures, account>>

-----------------------------------------------------------------------------
User == \/ \E n \in Name : UserCreates(n) \/ UserWrites(n) \/ UserRemoves(n)
        \/ \E n, m \in Name : UserRenames(n, m)
        \/ \E n \in Name, t \in 1..clock : AskVersion(n, t)

MergeThread == Take \/ Drop \/ Merge \/ MergeOldName \/ MergeNewName \/ WrongOrder

SendThread(w) ==
  \/ Acknowledge(w) \/ NotFound(w) \/ PutBack(w) \/ Subtract(w)
  \/ Look(w) \/ QueueApply(w) \/ Finish(w)

Next ==
  \/ User
  \/ \E l \in Listener : ReportNewName(l)
  \/ MergeThread
  \/ CountUp
  \/ \E n \in Entity : Dispatch(n)
  \/ \E w \in Worker : SendThread(w) \/ Fail(w)

(***************************************************************************)
(* Every thread that can go on does, the dispatcher comes round to every   *)
(* file of the map, and (MaxFailures) connections do not fail for ever.    *)
(***************************************************************************)
Fairness ==
  /\ \A l \in Listener : WF_vars(ReportNewName(l))
  /\ WF_vars(MergeThread)
  /\ WF_vars(CountUp)
  /\ \A n \in Entity : WF_vars(Dispatch(n))
  /\ \A w \in Worker : WF_vars(SendThread(w))

Spec == Init /\ [][Next]_vars /\ Fairness

-----------------------------------------------------------------------------
InQueue(i, n, op) ==
  \E j \in i..Len(queue) :
     queue[j].name = n /\ queue[j].op = op /\ queue[j].time = owed[n][op]

Carries(a, n, op) == op \in a.ops /\ a.ts[op] >= owed[n][op]

OnItsWay(n, op) ==
  \/ InQueue(1, n, op)
  \/ event # None /\ event.name = n /\ event.op = op
  \/ pending[n] # None /\ Carries(pending[n], n, op)
  \/ \E w \in Worker : /\ sender[w] # None
                       /\ sender[w].name = n
                       /\ sender[w].stage \in {"send", "putback"}
                       /\ Carries(sender[w], n, op)

(***************************************************************************)
(* A change the user made is never dropped on the way: until the server    *)
(* acknowledges it, or a later one of the same kind on the same name, it   *)
(* is in the queue, in the merge thread's hands, in the map or in a        *)
(* sender.                                                                 *)
(***************************************************************************)
NothingLost ==
  mode # "ended" => \A n \in Entity, op \in Op : owed[n][op] # 0 => OnItsWay(n, op)

(***************************************************************************)
(* The operations taken in that are not acknowledged: in the map, and with *)
(* the senders at these stages.                                            *)
(***************************************************************************)
Waiting == {x \in Entity \X Counted : pending[x[1]] # None /\ x[2] \in pending[x[1]].ops}

Held(stages) ==
  {x \in Worker \X Counted : /\ sender[x[1]] # None
                             /\ sender[x[1]].stage \in stages
                             /\ x[2] \in sender[x[1]].ops}

Outstanding == Cardinality(Waiting) + Cardinality(Held({"send", "putback"}))

(***************************************************************************)
(* A sender that found pending_count at 0 (client.cpp:203) and has still   *)
(* to stamp its APPLY (209) overtakes no create, rename or removal that    *)
(* was in the map or with a sender when it looked.  What the merge thread  *)
(* folds in between the two lines can be stamped before the APPLY and sent *)
(* after it, and so can what is still in the queue: pending_count knows of *)
(* neither.  A VERSION of the pipe's may be in the map uncounted.          *)
(***************************************************************************)
Unheard ==
  \E op \in Change :
     \/ \E n \in Entity : pending[n] # None /\ op \in pending[n].ops
     \/ \E w \in Worker : (Runs(w, "send") \/ Runs(w, "putback")) /\ op \in sender[w].ops

ApplyAfterAll ==
  \A w \in Worker \ overtaken : Runs(w, "stamp") => ~Unheard

(***************************************************************************)
(* Whatever fails, every change and every APPLY gets to the server in the  *)
(* end.                                                                    *)
(***************************************************************************)
EverythingSent ==
  [](mode # "ended") => <>[](\A n \in Entity, op \in Op : owed[n][op] = 0)

(***************************************************************************)
(* Every acknowledged operation is followed by an APPLY, provided that     *)
(* pending_count is not above the number of outstanding operations when a  *)
(* sender looks at it.  It is after two changes of one kind of a file that *)
(* is not sent yet, and while another sender puts back what failed.        *)
(***************************************************************************)
NotOvercounted == count <= Outstanding

ApplyFollows ==
  [](mode # "ended" /\ \A w \in Worker : Runs(w, "check") => NotOvercounted)
    => [](unapplied => <>~unapplied)

(***************************************************************************)
(* "Questo continua finche l'azione che non viene fuori e' 0 che significa *)
(* chiusura" (client.cpp:66): the merge thread ends at the stop event and  *)
(* not before.                                                             *)
(***************************************************************************)
MergesOn == mode # "ended"

(***************************************************************************)
(* "nuovo nome del file (in caso di MOVE)" (actionmerger.hpp:33): a rename *)
(* that waits in the map, complete, has its new name.                      *)
(***************************************************************************)
RenameHasName ==
  \A n \in Name : mode # "rename" /\ pending[n] # None /\ "move" \in pending[n].ops
                    => pending[n].to # None
=============================================================================
