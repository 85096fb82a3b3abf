------------------------------- MODULE Store -------------------------------
(***************************************************************************)
(* The server's version store: what the prepared statements of             *)
(* database.hpp and the triggers of create_db.sql do to the rows of one    *)
(* user.  Every statement names one user in every WHERE clause, so the     *)
(* rows of different users never meet.                                     *)
(*                                                                         *)
(* A statement that aborts (a primary-key conflict, "Write before create   *)
(* is forbidden!") is rolled back by SQLite and leaves the tables alone:   *)
(* here it is a step that is not enabled.                                  *)
(*                                                                         *)
(* The one statement long enough to be seen at work is the UPDATE of       *)
(* users: its trigger replays the group changes one at a time, each over   *)
(* the rows the previous one left.  It is modelled as ApplyBegin, one      *)
(* ApplyMove or ApplyDelete per change, and ApplyCommit or ApplyAbort;     *)
(* SQLite admits one writer, so nothing else writes in between.            *)
(***************************************************************************)
EXTENDS Naturals

CONSTANTS Path,             \* the path names a client may send
          Time,             \* the time stamps it may send
          None,             \* no row
          Created,          \* tags the file_id an empty file gets at creation
          Below,            \* <<d, p>>: p LIKE d || '\%'
          Moves,            \* <<from, to>> pairs a rename may name
          Rebase(_, _, _)   \* where the rename d -> n sends the path p

(***************************************************************************)
(* writeFile names a version after its time stamp and its path; create     *)
(* names it after the time stamp alone.                                    *)
(***************************************************************************)
FileId   == Time \X (Path \cup {Created})
FileRow  == [ts : Time, id : FileId]
Change   == [kind : {"move", "delete"}, path : Path, to : Path]

Rows == FileRow \cup {None}
Ids  == FileId \cup {None}

(* The tables as an UPDATE of users in progress found them, and how far it is. *)
Image == [to : Time, done : Time \cup {0},
          files : [Path -> Rows],
          history : [Path \X Time -> Ids]]

ASSUME TimeAssumption == Time \subseteq Nat \ {0}
ASSUME NoneAssumption == None \notin FileRow /\ None \notin FileId
                                             /\ None \notin Change
ASSUME ImageNotNone == None \notin Image
ASSUME MovesAssumption == Moves \subseteq Path \X Path
ASSUME RebaseAssumption == \A d, n, p \in Path : Rebase(d, n, p) \in Path

VARIABLES files,      \* TABLE files:   path -> row, PRIMARY KEY(username, path)
          history,    \* TABLE history: <<path, time_stamp>> -> file_id
          changes,    \* TABLE GROUP_CHANGES: time_stamp -> change
          lastSync,   \* users.lastSync
          applying    \* the UPDATE of users in progress, with the tables it
                      \* found (what a rollback restores), or None

vars == <<files, history, changes, lastSync, applying>>

(***************************************************************************)
(* The type of every variable.                                             *)
(***************************************************************************)
TypeOK ==
  /\ files \in [Path -> Rows]
  /\ history \in [Path \X Time -> Ids]
  /\ changes \in [Time -> Change \cup {None}]
  /\ lastSync \in Time \cup {0}
  /\ applying = None \/ applying \in Image

Live(p)        == files[p] # None
InHistory(p,t) == history[<<p, t>>] # None
Covers(d, p)   == d = p \/ <<d, p>> \in Below
Idle           == applying = None

CreateId(ts)   == <<ts, Created>>
WriteId(p, ts) == <<ts, p>>

Init ==
  /\ files = [p \in Path |-> None]
  /\ history = [k \in Path \X Time |-> None]
  /\ changes = [t \in Time |-> None]
  /\ lastSync = 0
  /\ applying = None

-----------------------------------------------------------------------------
(***************************************************************************)
(* UPDATE files SET time_stamp = ts, file_id = id WHERE path = p, with the *)
(* triggers it fires: the older of the row and the update goes to history  *)
(* (history_update_ok, history_update_ignore), the newer one is live, and  *)
(* at equal stamps the row is overwritten in place.                        *)
(***************************************************************************)
Older(p, ts, id) == IF ts < files[p].ts THEN [ts |-> ts, id |-> id] ELSE files[p]

(* Fault: the file_id parameter of the UPDATE is never bound, and so NULL. *)
NewerUnbound(p, ts, id) == IF ts < files[p].ts THEN files[p] ELSE [ts |-> ts, id |-> None]

Newer(p, ts, id) == IF ts < files[p].ts THEN files[p] ELSE [ts |-> ts, id |-> id]

CanRevise(p, ts, id) ==
  Live(p) /\ (ts # files[p].ts => ~InHistory(p, Older(p, ts, id).ts))

RevisedFiles(p, ts, id) == [files EXCEPT ![p] = Newer(p, ts, id)]

(* Fault: the update triggers do not file the older version. *)
RevisedHistoryDropped(p, ts, id) == history

(* Fault: history_update_ok files the row under its new stamp, not its old. *)
RevisedHistoryMisfiled(p, ts, id) ==
  [history EXCEPT ![<<p, ts>>] = Older(p, ts, id).id]

RevisedHistory(p, ts, id) ==
  IF ts = files[p].ts
  THEN history
  ELSE [history EXCEPT ![<<p, Older(p, ts, id).ts>>] = Older(p, ts, id).id]

Revise(p, ts, id) ==
  /\ CanRevise(p, ts, id)
  /\ files' = RevisedFiles(p, ts, id)
  /\ history' = RevisedHistory(p, ts, id)

(***************************************************************************)
(* user_context::create: INSERT INTO files, which files_update_or_insert   *)
(* turns into an UPDATE when the path has a row already.                   *)
(***************************************************************************)
Create(p, ts) ==
  /\ Idle
  /\ \/ Revise(p, ts, CreateId(ts))
     \/ /\ ~Live(p)
        /\ files' = [files EXCEPT ![p] = [ts |-> ts, id |-> CreateId(ts)]]
        /\ UNCHANGED history
  /\ UNCHANGED <<changes, lastSync, applying>>

(***************************************************************************)
(* user_context::chmod: the row takes the new time stamp and keeps its     *)
(* file_id.  (The permission bits themselves are not modelled.)            *)
(***************************************************************************)
Chmod(p, ts) ==
  /\ Idle
  /\ Live(p)
  /\ Revise(p, ts, files[p].id)
  /\ UNCHANGED <<changes, lastSync, applying>>

(***************************************************************************)
(* user_context::move and user_context::remove only take note of a group   *)
(* change; PRIMARY KEY(username, time_stamp) admits one per stamp.         *)
(***************************************************************************)
Record(ts, c) ==
  /\ Idle
  /\ changes[ts] = None
  /\ changes' = [changes EXCEPT ![ts] = c]
  /\ UNCHANGED <<files, history, lastSync, applying>>

Move(p, n, ts) == Record(ts, [kind |-> "move", path |-> p, to |-> n])
Remove(p, ts)  == Record(ts, [kind |-> "delete", path |-> p, to |-> p])

-----------------------------------------------------------------------------
(***************************************************************************)
(* The view changes_made: the group changes already applied, except one    *)
(* stamped exactly lastSync.  A write is superseded when such a change,    *)
(* later than the write, hit its path or a directory above it.             *)
(***************************************************************************)
ChangesMade == {t \in Time : changes[t] # None /\ t < lastSync}

(* Fault: write_dispatch does not look for a removal or rename of the path. *)
SupersededNever(p, ts) == FALSE

Superseded(p, ts) == \E t \in ChangesMade : t > ts /\ Covers(changes[t].path, p)

(***************************************************************************)
(* The last two UPDATEs of write_dispatch: every row later than the write  *)
(* that still carries the content p had just before ts takes the new one,  *)
(* whatever its path: that is how a late write follows a rename.           *)
(***************************************************************************)
Earlier(h, p, ts) == {t \in Time : t < ts /\ h[<<p, t>>] # None}

(* Fault: the base is looked up without the path in its WHERE clause. *)
IsBaseAnywhere(h, p, ts, id) ==
  \E k \in Path \X Time : k[2] < ts /\ h[k] = id

IsBase(h, p, ts, id) ==
  \E t \in Earlier(h, p, ts) :
    /\ \A u \in Earlier(h, p, ts) : u <= t
    /\ h[<<p, t>>] = id

(* Fault: only the history rows are forwarded, not the live one. *)
ForwardedFilesMissed(f, h, p, ts, id) == f

ForwardedFiles(f, h, p, ts, id) ==
  [q \in Path |-> IF f[q] # None /\ f[q].ts > ts /\ IsBase(h, p, ts, f[q].id)
                  THEN [ts |-> f[q].ts, id |-> id]
                  ELSE f[q]]

(* Fault: only the live row is forwarded, not the versions in history. *)
ForwardedHistoryMissed(h, p, ts, id) == h

ForwardedHistory(h, p, ts, id) ==
  [k \in Path \X Time |-> IF h[k] # None /\ k[2] > ts /\ IsBase(h, p, ts, h[k])
                          THEN id
                          ELSE h[k]]

WriteLive(p, ts, id) ==
  /\ ~Superseded(p, ts)
  /\ CanRevise(p, ts, id)
  /\ LET f == RevisedFiles(p, ts, id)
         h == RevisedHistory(p, ts, id)
     IN  /\ files' = ForwardedFiles(f, h, p, ts, id)
         /\ history' = ForwardedHistory(h, p, ts, id)

WriteSuperseded(p, ts, id) ==
  /\ Superseded(p, ts)
  /\ ~InHistory(p, ts)
  /\ LET h == [history EXCEPT ![<<p, ts>>] = id]
     IN  /\ files' = ForwardedFiles(files, h, p, ts, id)
         /\ history' = ForwardedHistory(h, p, ts, id)

(***************************************************************************)
(* version_exists: the path has a row with this file_id.  writeFile stores *)
(* nothing when it does: the write is a retry of one that got through.     *)
(***************************************************************************)
VersionExists(p, id) ==
  \/ Live(p) /\ files[p].id = id
  \/ \E t \in Time : history[<<p, t>>] = id

Write(p, ts) ==
  /\ Idle
  /\ ~VersionExists(p, WriteId(p, ts))
  /\ \/ WriteLive(p, ts, WriteId(p, ts))
     \/ WriteSuperseded(p, ts, WriteId(p, ts))
  /\ UNCHANGED <<changes, lastSync, applying>>

-----------------------------------------------------------------------------
(***************************************************************************)
(* user_context::apply: UPDATE users SET lastSync = ts, and its trigger.   *)
(***************************************************************************)
ApplyBegin(ts) ==
  /\ Idle
  /\ applying' = [to |-> ts, done |-> lastSync, files |-> files, history |-> history]
  /\ UNCHANGED <<files, history, changes, lastSync>>

(* Fault: a change stamped exactly like the APPLY is not carried out. *)
DueStrict(t) ==
  /\ changes[t] # None
  /\ applying.done < t
  /\ t < applying.to

Due(t) ==
  /\ changes[t] # None
  /\ applying.done < t
  /\ t <= applying.to

NextDue(t) == Due(t) /\ \A u \in Time : Due(u) => t <= u

(* Fault: the files below a renamed or removed directory are forgotten. *)
HitItself(c, t) == {p \in Path : c.path = p /\ Live(p) /\ files[p].ts < t}

Hit(c, t) == {p \in Path : Covers(c.path, p) /\ Live(p) /\ files[p].ts < t}

(***************************************************************************)
(* A row that leaves its path, moved, replaced or deleted, leaves a copy   *)
(* in history (history_update_ok, history_delete_new).                     *)
(***************************************************************************)
Filed(gone) ==
  [k \in Path \X Time |-> IF k[1] \in gone /\ files[k[1]].ts = k[2]
                          THEN files[k[1]].id
                          ELSE history[k]]

(***************************************************************************)
(* apply_live_move.  UPDATE OR REPLACE: a row already at the destination   *)
(* is deleted, whatever its stamp.  The OR REPLACE governs the inserts of  *)
(* the triggers too: they overwrite a history row with the same key.       *)
(***************************************************************************)
Dest(c, p)    == Rebase(c.path, c.to, p)
Landed(c, t)  == {Dest(c, p) : p \in Hit(c, t)}
Origin(c, t, q) == CHOOSE p \in Hit(c, t) : Dest(c, p) = q

ApplyMove(t) ==
  /\ ~Idle
  /\ NextDue(t)
  /\ changes[t].kind = "move"
  /\ files' = [q \in Path |->
       IF q \in Landed(changes[t], t)
       THEN [ts |-> t, id |-> files[Origin(changes[t], t, q)].id]
       ELSE IF q \in Hit(changes[t], t) THEN None ELSE files[q]]
  /\ history' = Filed(Hit(changes[t], t) \cup {q \in Landed(changes[t], t) : Live(q)})
  /\ applying' = [applying EXCEPT !.done = t]
  /\ UNCHANGED <<changes, lastSync>>

(***************************************************************************)
(* apply_live_delete.  Here a history row with the same key is a conflict. *)
(***************************************************************************)
Conflict(t) == \E p \in Hit(changes[t], t) : InHistory(p, files[p].ts)

ApplyDelete(t) ==
  /\ ~Idle
  /\ NextDue(t)
  /\ changes[t].kind = "delete"
  /\ ~Conflict(t)
  /\ files' = [q \in Path |-> IF q \in Hit(changes[t], t) THEN None ELSE files[q]]
  /\ history' = Filed(Hit(changes[t], t))
  /\ applying' = [applying EXCEPT !.done = t]
  /\ UNCHANGED <<changes, lastSync>>

ApplyCommit ==
  /\ ~Idle
  /\ \A t \in Time : ~Due(t)
  /\ lastSync' = applying.to
  /\ applying' = None
  /\ UNCHANGED <<files, history, changes>>

(***************************************************************************)
(* A conflict aborts the whole UPDATE of users, lastSync included.         *)
(***************************************************************************)
ApplyAbort ==
  /\ ~Idle
  /\ \E t \in Time : NextDue(t) /\ changes[t].kind = "delete" /\ Conflict(t)
  /\ files' = applying.files
  /\ history' = applying.history
  /\ applying' = None
  /\ UNCHANGED <<changes, lastSync>>

-----------------------------------------------------------------------------
(***************************************************************************)
(* The statements that only read see the tables as last committed: the     *)
(* rows an unfinished apply has changed are not visible yet (WAL mode).    *)
(***************************************************************************)
CommittedFiles   == IF Idle THEN files ELSE applying.files
CommittedHistory == IF Idle THEN history ELSE applying.history

(* user_context::sync: the paths that exist, with their time stamps. *)
Sync == {<<p, CommittedFiles[p].ts>> : p \in {q \in Path : CommittedFiles[q] # None}}

(* user_context::version: the file_ids recorded for exactly this stamp. *)
Version(p, t) ==
  ({CommittedHistory[<<p, t>>]} \ {None})
    \cup (IF <<p, t>> \in Sync THEN {CommittedFiles[p].id} ELSE {})

(* user_context::versions: the stamps of the versions no longer live. *)
Versions(p) == {t \in Time : CommittedHistory[<<p, t>>] # None}

Next ==
  \/ \E p \in Path, ts \in Time : Create(p, ts) \/ Chmod(p, ts) \/ Write(p, ts)
                                                \/ Remove(p, ts)
  \/ \E m \in Moves, ts \in Time : Move(m[1], m[2], ts)
  \/ \E ts \in Time : ApplyBegin(ts) \/ ApplyMove(ts) \/ ApplyDelete(ts)
  \/ ApplyCommit
  \/ ApplyAbort

Spec == Init /\ [][Next]_vars

-----------------------------------------------------------------------------
(***************************************************************************)
(* The store implements the archive: retries, late and repeated requests   *)
(* and aborted applies included, a version a client could retrieve stays   *)
(* retrievable, and only an applied rename or removal takes a path back.   *)
(***************************************************************************)
Retrievable == {k \in Path \X Time : Version(k[1], k[2]) # {}}
Listing     == [p \in Path |-> IF CommittedFiles[p] = None THEN 0
                                                           ELSE CommittedFiles[p].ts]

A == INSTANCE Archive WITH versions <- Retrievable, listing <- Listing,
                           synced <- lastSync

ImplementsArchive == A!Spec

(***************************************************************************)
(* When an apply commits, every rename and removal it was to carry out has *)
(* been: no path at or below one of them is live with an older stamp, not  *)
(* even one a rename earlier in the same apply brought there.              *)
(***************************************************************************)
Holds(t) == \A p \in Path : Covers(changes[t].path, p) /\ Live(p) => files[p].ts >= t

AppliedChangesHold ==
  [][ApplyCommit => \A t \in Time : /\ changes[t] # None
                                    /\ lastSync < t
                                    /\ t <= applying.to
                                    => Holds(t)]_vars

(***************************************************************************)
(* "Se c'e' stata una delete, allora questo deve finire nella history"     *)
(* (create_db.sql:103): once an apply has carried out a removal, a write   *)
(* to its path stamped before it counts as superseded, which is the case   *)
(* that files it away.                                                     *)
(***************************************************************************)
DeletedWriteArchived ==
  [][ApplyCommit => \A t \in Time, w \in Time, p \in Path :
                      /\ changes[t] # None
                      /\ changes[t].kind = "delete"
                      /\ Covers(changes[t].path, p)
                      /\ lastSync < t /\ t <= applying.to
                      /\ w < t
                      => Superseded(p, w)']_vars
=============================================================================
