----------------------------- MODULE FreshStore -----------------------------
(***************************************************************************)
(* The version store under the clients it was designed for: every change   *)
(* carries a time stamp of its own and reaches the store once, in any      *)
(* order, and APPLY stamps do not go back.  (Store allows repeated stamps  *)
(* and repeated requests; retries and coarse clocks do produce them.)      *)
(***************************************************************************)
EXTENDS Store

VARIABLE used      \* the stamps of the changes that reached the store

freshVars == <<files, history, changes, lastSync, applying, used>>

Take(ts) == ts \notin used /\ used' = used \cup {ts}

FreshInit == Init /\ used = {}

FreshNext ==
  \/ \E p \in Path, ts \in Time :
       Take(ts) /\ (Create(p, ts) \/ Chmod(p, ts) \/ Write(p, ts) \/ Remove(p, ts))
  \/ \E m \in Moves, ts \in Time : Take(ts) /\ Move(m[1], m[2], ts)
  \/ \E ts \in Time : ts >= lastSync /\ ApplyBegin(ts) /\ UNCHANGED used
  \/ \E ts \in Time : (ApplyMove(ts) \/ ApplyDelete(ts)) /\ UNCHANGED used
  \/ (ApplyCommit \/ ApplyAbort) /\ UNCHANGED used

FreshSpec == FreshInit /\ [][FreshNext]_freshVars

-----------------------------------------------------------------------------
(***************************************************************************)
(* A version is live or in history, never both.  A path that broke this    *)
(* could not be created, written or removed again: each of these copies    *)
(* the live row to history and aborts on the primary key.                  *)
(***************************************************************************)
OneCopyPerVersion == \A p \in Path : Live(p) => ~InHistory(p, files[p].ts)

(***************************************************************************)
(* The content of a file, once stored, is never lost: some row still names *)
(* its file_id, however late writes and renames rearrange the rows.        *)
(***************************************************************************)
Contents == {CommittedFiles[p].id : p \in {q \in Path : CommittedFiles[q] # None}}
              \cup ({CommittedHistory[k] : k \in Path \X Time} \ {None})

ContentsKept == [][Contents \subseteq Contents']_freshVars

(***************************************************************************)
(* Two paths are connected unless some set of paths holds the one and not  *)
(* the other and no recorded rename leads into it or out of it.            *)
(***************************************************************************)
Closed(S) ==
  \A t \in Time : changes[t] # None /\ changes[t].kind = "move" =>
    \A p \in Path : Covers(changes[t].path, p) =>
      (p \in S <=> Rebase(changes[t].path, changes[t].to, p) \in S)

Connected(p, q) == \A S \in SUBSET (Path \ {q}) : p \in S => ~Closed(S)

ContentAt(q) == ({history[<<q, t>>] : t \in Time} \ {None})
                  \cup {row.id : row \in {files[q]} \ {None}}

(***************************************************************************)
(* Content spreads only where renames lead: the bytes in a version were    *)
(* written to a path that renames connect with the version's own, and no   *)
(* unconnected paths share so much as an empty file.  The UPDATEs of       *)
(* write_dispatch match rows by file_id alone, on any path, and must not   *)
(* catch a file that merely looks alike.                                   *)
(***************************************************************************)
ContentFollowsRenames ==
  \A q \in Path : \A id \in ContentAt(q) :
    /\ id[2] = Created \/ Connected(id[2], q)
    /\ \A p \in Path : id \in ContentAt(p) => Connected(p, q)
=============================================================================
