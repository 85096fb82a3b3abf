---------------------------- MODULE StoreProofs ----------------------------
(***************************************************************************)
(* Theorems about the version store, for every set of paths and stamps.    *)
(***************************************************************************)
EXTENDS Store, TLAPS

(***************************************************************************)
(* Stamps are numbers, and so are the bounds of an apply in progress.      *)
(***************************************************************************)
LEMMA ImageFields ==
  ASSUME NEW a \in Image
  PROVE  /\ a.to \in Nat /\ a.done \in Nat /\ a.to \in Time
         /\ a.files \in [Path -> Rows]
         /\ a.history \in [Path \X Time -> Ids]
<1>1. /\ a.to \in Time /\ a.done \in Time \cup {0}
      /\ a.files \in [Path -> Rows]
      /\ a.history \in [Path \X Time -> Ids]
  BY DEF Image
<1>2. \A t \in Time \cup {0} : t \in Nat
  BY TimeAssumption
<1>3. a.to \in Nat /\ a.done \in Nat
  BY <1>1, <1>2, Zenon
<1> QED BY <1>1, <1>3

(***************************************************************************)
(* What an UPDATE of a live row leaves in the two tables is well typed.    *)
(***************************************************************************)
LEMMA RevisedType ==
  ASSUME files \in [Path -> Rows], history \in [Path \X Time -> Ids],
         NEW p \in Path, NEW ts \in Time, NEW id \in FileId, Live(p)
  PROVE  /\ RevisedFiles(p, ts, id) \in [Path -> Rows]
         /\ RevisedHistory(p, ts, id) \in [Path \X Time -> Ids]
<1>1. files[p] \in FileRow
  BY DEF Live, Rows
<1>2. /\ Older(p, ts, id) \in FileRow
      /\ Newer(p, ts, id) \in FileRow
  BY <1>1 DEF Older, Newer, FileRow
<1>3. /\ Older(p, ts, id).ts \in Time
      /\ Older(p, ts, id).id \in FileId
  BY <1>2 DEF FileRow
<1>4. RevisedFiles(p, ts, id) \in [Path -> Rows]
  BY <1>2 DEF RevisedFiles, Rows
<1>5. RevisedHistory(p, ts, id) \in [Path \X Time -> Ids]
  BY <1>3 DEF RevisedHistory, Ids
<1> QED BY <1>4, <1>5

(***************************************************************************)
(* Forwarding a late write changes file_ids only.                          *)
(***************************************************************************)
LEMMA ForwardedType ==
  ASSUME NEW f \in [Path -> Rows], NEW h \in [Path \X Time -> Ids],
         NEW p \in Path, NEW ts \in Time, NEW id \in FileId
  PROVE  /\ ForwardedFiles(f, h, p, ts, id) \in [Path -> Rows]
         /\ ForwardedHistory(h, p, ts, id) \in [Path \X Time -> Ids]
<1>1. \A q \in Path : f[q] # None => [ts |-> f[q].ts, id |-> id] \in FileRow
  BY DEF Rows, FileRow
<1> QED BY <1>1 DEF ForwardedFiles, ForwardedHistory, Rows, Ids

LEMMA FiledType ==
  ASSUME TypeOK, NEW gone, \A q \in gone : Live(q)
  PROVE  Filed(gone) \in [Path \X Time -> Ids]
<1>1. \A q \in Path : q \in gone => files[q].id \in FileId
  BY DEF TypeOK, Live, Rows, FileRow
<1> QED BY <1>1 DEF Filed, TypeOK, Ids

LEMMA HitType ==
  ASSUME TypeOK, NEW t \in Time, changes[t] # None
  PROVE  /\ changes[t] \in Change
         /\ Landed(changes[t], t) \subseteq Path
         /\ \A q \in Hit(changes[t], t) : q \in Path /\ Live(q) /\ files[q] \in FileRow
         /\ \A q \in Landed(changes[t], t) :
              /\ Origin(changes[t], t, q) \in Hit(changes[t], t)
              /\ Dest(changes[t], Origin(changes[t], t, q)) = q
<1>1. changes[t] \in Change
  BY DEF TypeOK
<1>2. changes[t].path \in Path /\ changes[t].to \in Path
  BY <1>1 DEF Change
<1>3. Landed(changes[t], t) \subseteq Path
  BY <1>2, RebaseAssumption DEF Landed, Dest, Hit
<1>4. \A q \in Hit(changes[t], t) : q \in Path /\ Live(q) /\ files[q] \in FileRow
  BY DEF Hit, Live, TypeOK, Rows
<1>5. ASSUME NEW q \in Landed(changes[t], t)
      PROVE  /\ Origin(changes[t], t, q) \in Hit(changes[t], t)
             /\ Dest(changes[t], Origin(changes[t], t, q)) = q
  <2>1. \E p \in Hit(changes[t], t) : Dest(changes[t], p) = q
    BY <1>5 DEF Landed
  <2> QED BY <2>1 DEF Origin
<1> QED BY <1>1, <1>3, <1>4, <1>5

LEMMA IdTypes ==
  \A p \in Path, ts \in Time : CreateId(ts) \in FileId /\ WriteId(p, ts) \in FileId
BY DEF CreateId, WriteId, FileId

LEMMA InitType == Init => TypeOK
BY DEF Init, TypeOK, Rows, Ids

LEMMA StepType ==
  ASSUME TypeOK, [Next]_vars
  PROVE  TypeOK'
<1> USE DEF TypeOK
<1>1. ASSUME NEW p \in Path, NEW ts \in Time, NEW id \in FileId, Revise(p, ts, id)
      PROVE  /\ files' \in [Path -> Rows]
             /\ history' \in [Path \X Time -> Ids]
  BY <1>1, RevisedType DEF Revise, CanRevise
<1>2. CASE \E p \in Path, ts \in Time : Create(p, ts)
  <2>1. PICK p \in Path, ts \in Time : Create(p, ts)
    BY <1>2
  <2>2. CreateId(ts) \in FileId
    BY IdTypes
  <2>3. CASE Revise(p, ts, CreateId(ts))
    BY <1>1, <2>1, <2>2, <2>3 DEF Create
  <2>4. CASE ~Revise(p, ts, CreateId(ts))
    <3>1. [ts |-> ts, id |-> CreateId(ts)] \in Rows
      BY <2>2 DEF Rows, FileRow
    <3> QED BY <2>1, <2>4, <3>1 DEF Create
  <2> QED BY <2>3, <2>4
<1>3. CASE \E p \in Path, ts \in Time : Chmod(p, ts)
  <2>1. PICK p \in Path, ts \in Time : Chmod(p, ts)
    BY <1>3
  <2>2. files[p].id \in FileId
    BY <2>1 DEF Chmod, Live, Rows, FileRow
  <2> QED BY <1>1, <2>1, <2>2 DEF Chmod
<1>4. CASE \E p \in Path, ts \in Time : Write(p, ts)
  <2>1. PICK p \in Path, ts \in Time : Write(p, ts)
    BY <1>4
  <2> DEFINE id == WriteId(p, ts)
  <2>2. id \in FileId
    BY IdTypes
  <2> HIDE DEF id
  <2>3. CASE WriteLive(p, ts, id)
    <3>1. Live(p)
      BY <2>3 DEF WriteLive, CanRevise
    <3>2. /\ RevisedFiles(p, ts, id) \in [Path -> Rows]
          /\ RevisedHistory(p, ts, id) \in [Path \X Time -> Ids]
      BY <2>2, <3>1, RevisedType
    <3> QED BY <2>1, <2>2, <2>3, <3>2, ForwardedType DEF WriteLive, Write
  <2>4. CASE WriteSuperseded(p, ts, id)
    <3>1. [history EXCEPT ![<<p, ts>>] = id] \in [Path \X Time -> Ids]
      BY <2>2 DEF Ids
    <3> QED BY <2>1, <2>2, <2>4, <3>1, ForwardedType DEF WriteSuperseded, Write
  <2> QED BY <2>1, <2>3, <2>4 DEF Write, id
<1>5. CASE \E p \in Path, ts \in Time : Remove(p, ts)
  BY <1>5 DEF Remove, Record, Change
<1>6. CASE \E m \in Moves, ts \in Time : Move(m[1], m[2], ts)
  BY <1>6, MovesAssumption DEF Move, Record, Change
<1>7. CASE \E ts \in Time : ApplyBegin(ts)
  BY <1>7 DEF ApplyBegin, Image
<1>8. CASE \E t \in Time : ApplyMove(t)
  <2>1. PICK t \in Time : ApplyMove(t)
    BY <1>8
  <2>2. changes[t] # None
    BY <2>1 DEF ApplyMove, NextDue, Due
  <2>3. \A q \in Landed(changes[t], t) :
          [ts |-> t, id |-> files[Origin(changes[t], t, q)].id] \in Rows
    BY <2>2, HitType DEF FileRow, Rows
  <2>4. files' \in [Path -> Rows]
    BY <2>1, <2>3 DEF ApplyMove, Rows
  <2>5. history' \in [Path \X Time -> Ids]
    BY <2>1, <2>2, HitType, FiledType DEF ApplyMove
  <2> QED BY <2>1, <2>4, <2>5 DEF ApplyMove, Image, Idle
<1>9. CASE \E t \in Time : ApplyDelete(t)
  <2>1. PICK t \in Time : ApplyDelete(t)
    BY <1>9
  <2>2. changes[t] # None
    BY <2>1 DEF ApplyDelete, NextDue, Due
  <2>3. files' \in [Path -> Rows]
    BY <2>1 DEF ApplyDelete, Rows
  <2>4. history' \in [Path \X Time -> Ids]
    BY <2>1, <2>2, HitType, FiledType DEF ApplyDelete
  <2> QED BY <2>1, <2>3, <2>4 DEF ApplyDelete, Image, Idle
<1>10. CASE ApplyCommit
  BY <1>10 DEF ApplyCommit, Image, Idle
<1>11. CASE ApplyAbort
  BY <1>11 DEF ApplyAbort, Image, Idle
<1>12. CASE UNCHANGED vars
  BY <1>12 DEF vars
<1> QED BY <1>2, <1>3, <1>4, <1>5, <1>6, <1>7, <1>8, <1>9, <1>10, <1>11, <1>12 DEF Next

(***************************************************************************)
(* The tables are well typed in every reachable state.                     *)
(***************************************************************************)
THEOREM TypeCorrect == Spec => []TypeOK
BY InitType, StepType, PTL DEF Spec

-----------------------------------------------------------------------------
(***************************************************************************)
(* While an apply runs, what it has replayed so far holds: no path at or   *)
(* below a replayed change is live with an older stamp.                    *)
(***************************************************************************)
Replayed == ~Idle => \A t \in Time : /\ changes[t] # None
                                     /\ lastSync < t
                                     /\ t <= applying.done
                                     => Holds(t)

LEMMA ReplayedStep ==
  ASSUME TypeOK, Replayed, [Next]_vars
  PROVE  Replayed'
<1>1. CASE \E t \in Time : ApplyMove(t)
  <2>1. PICK t \in Time : ApplyMove(t)
    BY <1>1
  <2>2. applying \in Image /\ changes[t] # None
    BY <2>1 DEF ApplyMove, Idle, TypeOK, NextDue, Due
  <2>3. applying' \in Image /\ applying'.done = t /\ applying'.to = applying.to
    BY <2>1, <2>2 DEF ApplyMove, Image
  <2>4. \A q \in Path : files'[q] # None =>
          \/ files'[q].ts = t
          \/ q \notin Hit(changes[t], t) /\ files'[q] = files[q]
    BY <2>1 DEF ApplyMove, TypeOK
  <2>5. SUFFICES ASSUME NEW u \in Time, changes[u] # None, lastSync < u, u <= t,
                        NEW p \in Path, Covers(changes[u].path, p), files'[p] # None
                 PROVE  files'[p].ts >= u
    BY <2>1, <2>3 DEF Replayed, ApplyMove, Holds, Live
  <2>6. t \in Nat /\ u \in Nat /\ applying.done \in Nat /\ applying.to \in Nat
    BY <2>2, TimeAssumption, ImageFields
  <2>7. u = t \/ u <= applying.done
    BY <2>1, <2>5, <2>6 DEF ApplyMove, NextDue, Due
  <2>8. CASE files'[p].ts = t
    BY <2>5, <2>6, <2>8
  <2>9. CASE p \notin Hit(changes[t], t) /\ files'[p] = files[p]
    <3>1. Live(p) /\ files[p].ts \in Nat
      BY <2>5, <2>9, TimeAssumption DEF Live, TypeOK, Rows, FileRow
    <3>2. CASE u = t
      BY <2>5, <2>6, <2>9, <3>1, <3>2 DEF Hit
    <3>3. CASE u <= applying.done
      BY <2>1, <2>5, <2>9, <3>1, <3>3 DEF Replayed, ApplyMove, Holds
    <3> QED BY <2>7, <3>2, <3>3
  <2> QED BY <2>4, <2>5, <2>8, <2>9
<1>2. CASE \E t \in Time : ApplyDelete(t)
  <2>1. PICK t \in Time : ApplyDelete(t)
    BY <1>2
  <2>2. applying \in Image /\ changes[t] # None
    BY <2>1 DEF ApplyDelete, Idle, TypeOK, NextDue, Due
  <2>3. applying' \in Image /\ applying'.done = t /\ applying'.to = applying.to
    BY <2>1, <2>2 DEF ApplyDelete, Image
  <2>4. \A q \in Path : files'[q] # None =>
          q \notin Hit(changes[t], t) /\ files'[q] = files[q]
    BY <2>1 DEF ApplyDelete, TypeOK
  <2>5. SUFFICES ASSUME NEW u \in Time, changes[u] # None, lastSync < u, u <= t,
                        NEW p \in Path, Covers(changes[u].path, p), files'[p] # None
                 PROVE  files'[p].ts >= u
    BY <2>1, <2>3 DEF Replayed, ApplyDelete, Holds, Live
  <2>6. t \in Nat /\ u \in Nat /\ applying.done \in Nat /\ applying.to \in Nat
    BY <2>2, TimeAssumption, ImageFields
  <2>7. u = t \/ u <= applying.done
    BY <2>1, <2>5, <2>6 DEF ApplyDelete, NextDue, Due
  <2>8. p \notin Hit(changes[t], t) /\ files'[p] = files[p]
    BY <2>4, <2>5
  <2>9. Live(p) /\ files[p].ts \in Nat
    BY <2>5, <2>8, TimeAssumption DEF Live, TypeOK, Rows, FileRow
  <2>10. CASE u = t
    BY <2>5, <2>6, <2>8, <2>9, <2>10 DEF Hit
  <2>11. CASE u <= applying.done
    BY <2>1, <2>5, <2>8, <2>9, <2>11 DEF Replayed, ApplyDelete, Holds
  <2> QED BY <2>7, <2>10, <2>11
<1>3. CASE \E ts \in Time : ApplyBegin(ts)
  <2>1. PICK ts \in Time : ApplyBegin(ts)
    BY <1>3
  <2>2. applying'.done = lastSync /\ lastSync' = lastSync /\ lastSync \in Nat
    BY <2>1, TimeAssumption DEF ApplyBegin, TypeOK
  <2>3. \A t \in Time : t \in Nat
    BY TimeAssumption
  <2> QED BY <2>2, <2>3 DEF Replayed
<1>4. CASE ApplyCommit \/ ApplyAbort
  BY <1>4 DEF ApplyCommit, ApplyAbort, Replayed, Idle
<1>5. CASE \E p \in Path, ts \in Time : Create(p, ts) \/ Chmod(p, ts) \/ Write(p, ts)
                                                       \/ Remove(p, ts)
  BY <1>5 DEF Create, Chmod, Write, Remove, Record, Replayed, Idle
<1>6. CASE \E m \in Moves, ts \in Time : Move(m[1], m[2], ts)
  BY <1>6 DEF Move, Record, Replayed, Idle
<1>7. CASE UNCHANGED vars
  BY <1>7 DEF vars, Replayed, Idle, Holds, Live
<1> QED BY <1>1, <1>2, <1>3, <1>4, <1>5, <1>6, <1>7 DEF Next

LEMMA CommitHolds ==
  ASSUME TypeOK, Replayed, ApplyCommit, NEW t \in Time, changes[t] # None,
         lastSync < t, t <= applying.to
  PROVE  Holds(t)
<1>1. applying \in Image
  BY DEF ApplyCommit, Idle, TypeOK
<1>2. t \in Nat /\ applying.done \in Nat
  BY <1>1, TimeAssumption, ImageFields
<1>3. t <= applying.done
  BY <1>2 DEF ApplyCommit, Due
<1> QED BY <1>3 DEF Replayed, ApplyCommit

(***************************************************************************)
(* Every apply that commits has carried out all the renames and removals   *)
(* of its window: nothing at or below them is live with an older stamp.    *)
(***************************************************************************)
THEOREM AppliedChanges == Spec => AppliedChangesHold
<1>1. Init => TypeOK /\ Replayed
  BY InitType DEF Init, Replayed, Idle
<1>2. TypeOK /\ Replayed /\ [Next]_vars => TypeOK' /\ Replayed'
  BY StepType, ReplayedStep
<1>3. TypeOK /\ Replayed /\ [Next]_vars =>
        [ApplyCommit => \A t \in Time : /\ changes[t] # None
                                        /\ lastSync < t
                                        /\ t <= applying.to
                                        => Holds(t)]_vars
  BY CommitHolds
<1> QED BY <1>1, <1>2, <1>3, PTL DEF Spec, AppliedChangesHold

-----------------------------------------------------------------------------
(***************************************************************************)
(* The version store implements Archive: no sequence of requests, retried, *)
(* reordered or repeated, makes a version a client could retrieve          *)
(* disappear, and only an applied rename or removal takes a path back.     *)
(*                                                                         *)
(* A version is known to a pair of tables when one of them has its key.    *)
(***************************************************************************)
Known(f, h, p, t) == h[<<p, t>>] # None \/ (f[p] # None /\ f[p].ts = t)

KnownKeys ==
  \A p \in Path, t \in Time :
    <<p, t>> \in Retrievable <=> Known(CommittedFiles, CommittedHistory, p, t)

LEMMA RetrievableKnown == KnownKeys
<1> SUFFICES ASSUME NEW p \in Path, NEW t \in Time
             PROVE  <<p, t>> \in Retrievable
                      <=> Known(CommittedFiles, CommittedHistory, p, t)
  BY DEF KnownKeys
<1>1. <<p, t>> \in Retrievable <=> Version(p, t) # {}
  BY DEF Retrievable
<1>2. <<p, t>> \in Sync <=> CommittedFiles[p] # None /\ CommittedFiles[p].ts = t
  BY DEF Sync
<1>3. Version(p, t) # {} <=> \/ CommittedHistory[<<p, t>>] # None
                             \/ <<p, t>> \in Sync
  BY DEF Version
<1> QED BY <1>1, <1>2, <1>3 DEF Known

(***************************************************************************)
(* An UPDATE of p stamped ts makes <<p, ts>> known and forgets nothing.    *)
(***************************************************************************)
LEMMA RevisedKnown ==
  ASSUME TypeOK, NEW p \in Path, NEW ts \in Time, NEW id \in FileId,
         CanRevise(p, ts, id), NEW q \in Path, NEW t \in Time
  PROVE  Known(RevisedFiles(p, ts, id), RevisedHistory(p, ts, id), q, t)
           <=> Known(files, history, q, t) \/ (q = p /\ t = ts)
<1>1. Live(p) /\ files[p] \in FileRow /\ files[p].ts \in Time /\ files[p].id \in FileId
  BY DEF CanRevise, Live, TypeOK, Rows, FileRow
<1>2. ts \in Nat /\ files[p].ts \in Nat
  BY <1>1, TimeAssumption
<1>3. /\ files \in [Path -> Rows]
      /\ history \in [Path \X Time -> Ids]
  BY DEF TypeOK
<1>4. id # None /\ files[p].id # None
  BY <1>1, NoneAssumption
<1>5. [ts |-> ts, id |-> id] # None
  BY NoneAssumption DEF FileRow
<1>6. CASE ts = files[p].ts
  BY <1>1, <1>2, <1>3, <1>5, <1>6
     DEF Known, RevisedFiles, RevisedHistory, Newer, Live
<1>7. CASE ts < files[p].ts
  BY <1>1, <1>2, <1>3, <1>4, <1>7
     DEF Known, RevisedFiles, RevisedHistory, Newer, Older, Live
<1>8. CASE files[p].ts < ts
  BY <1>1, <1>2, <1>3, <1>4, <1>5, <1>8
     DEF Known, RevisedFiles, RevisedHistory, Newer, Older, Live
<1> QED BY <1>2, <1>6, <1>7, <1>8

(***************************************************************************)
(* Two pairs of tables with the same rows, contents apart.                 *)
(***************************************************************************)
SameKeys(f, h, g, k) ==
  \A q \in Path :
    /\ \A t \in Time : Known(g, k, q, t) <=> Known(f, h, q, t)
    /\ g[q] # None <=> f[q] # None
    /\ f[q] # None => g[q].ts = f[q].ts

(***************************************************************************)
(* Forwarding a late write rewrites contents, never keys.                  *)
(***************************************************************************)
LEMMA ForwardedKnown ==
  ASSUME NEW f \in [Path -> Rows], NEW h \in [Path \X Time -> Ids],
         NEW p \in Path, NEW ts \in Time, NEW id \in FileId
  PROVE  SameKeys(f, h, ForwardedFiles(f, h, p, ts, id), ForwardedHistory(h, p, ts, id))
<1> SUFFICES ASSUME NEW q \in Path
             PROVE  /\ \A t \in Time : Known(ForwardedFiles(f, h, p, ts, id),
                                             ForwardedHistory(h, p, ts, id), q, t)
                                         <=> Known(f, h, q, t)
                    /\ ForwardedFiles(f, h, p, ts, id)[q] # None <=> f[q] # None
                    /\ f[q] # None => ForwardedFiles(f, h, p, ts, id)[q].ts = f[q].ts
  BY DEF SameKeys
<1>1. id # None
  BY NoneAssumption
<1>2. f[q] # None => [ts |-> f[q].ts, id |-> id] # None
  BY NoneAssumption DEF Rows, FileRow
<1>3. /\ ForwardedFiles(f, h, p, ts, id)[q] # None <=> f[q] # None
      /\ f[q] # None => ForwardedFiles(f, h, p, ts, id)[q].ts = f[q].ts
  BY <1>2 DEF ForwardedFiles
<1>4. \A t \in Time : ForwardedHistory(h, p, ts, id)[<<q, t>>] # None
                        <=> h[<<q, t>>] # None
  BY <1>1 DEF ForwardedHistory
<1> QED BY <1>3, <1>4 DEF Known

(***************************************************************************)
(* A request that makes <<p, ts>> known is an Accept of the archive.       *)
(***************************************************************************)
LEMMA AcceptRefines ==
  ASSUME TypeOK, TypeOK', applying = None, applying' = None, lastSync' = lastSync,
         NEW p \in Path, NEW ts \in Time,
         \A q \in Path, t \in Time :
           Known(files', history', q, t) <=> Known(files, history, q, t)
                                               \/ (q = p /\ t = ts),
         \A q \in Path : q # p => Listing'[q] = Listing[q],
         \/ Listing'[p] = ts /\ Listing[p] <= ts
         \/ Listing'[p] = Listing[p] /\ (ts < Listing[p] \/ ts < lastSync)
  PROVE  A!Accept(p, ts)
<1>1. KnownKeys /\ KnownKeys'
  BY RetrievableKnown, PTL
<1>2. /\ CommittedFiles = files /\ CommittedHistory = history
      /\ CommittedFiles' = files' /\ CommittedHistory' = history'
  BY DEF CommittedFiles, CommittedHistory, Idle
<1>3. \A q \in Path, t \in Time :
        <<q, t>> \in Retrievable' <=> <<q, t>> \in Retrievable \/ (q = p /\ t = ts)
  BY <1>1, <1>2 DEF KnownKeys
<1>4. Retrievable \subseteq Path \X Time /\ Retrievable' \subseteq Path \X Time
  BY DEF Retrievable
<1>5. Retrievable' = Retrievable \cup {<<p, ts>>}
  BY <1>3, <1>4
<1>6. Listing = [q \in Path |-> Listing[q]] /\ Listing' = [q \in Path |-> Listing'[q]]
  BY DEF Listing
<1>7. CASE Listing'[p] = ts /\ Listing[p] <= ts
  <2>1. Listing' = [Listing EXCEPT ![p] = ts]
    BY <1>6, <1>7
  <2> QED BY <1>5, <1>7, <2>1 DEF A!Accept
<1>8. CASE Listing'[p] = Listing[p] /\ (ts < Listing[p] \/ ts < lastSync)
  <2>1. Listing' = Listing
    BY <1>6, <1>8
  <2> QED BY <1>5, <1>8, <2>1 DEF A!Accept
<1> QED BY <1>7, <1>8

LEMMA RevisedAccepts ==
  ASSUME TypeOK, TypeOK', applying = None, applying' = None, lastSync' = lastSync,
         NEW p \in Path, NEW ts \in Time, NEW id \in FileId,
         CanRevise(p, ts, id),
         SameKeys(RevisedFiles(p, ts, id), RevisedHistory(p, ts, id), files', history')
  PROVE  A!Accept(p, ts)
<1>1. \A q \in Path, t \in Time :
        Known(files', history', q, t) <=> Known(files, history, q, t)
                                            \/ (q = p /\ t = ts)
  BY RevisedKnown DEF SameKeys
<1>2. Live(p) /\ files[p] \in FileRow /\ files[p].ts \in Time
  BY DEF CanRevise, Live, TypeOK, Rows, FileRow
<1>3. ts \in Nat /\ files[p].ts \in Nat
  BY <1>2, TimeAssumption
<1>4. \A q \in Path : /\ Listing[q] = IF files[q] = None THEN 0 ELSE files[q].ts
                      /\ Listing'[q] = IF files'[q] = None THEN 0 ELSE files'[q].ts
  BY DEF Listing, CommittedFiles, Idle
<1>5. files \in [Path -> Rows]
  BY DEF TypeOK
<1>6. ASSUME NEW q \in Path, q # p
      PROVE  Listing'[q] = Listing[q]
  <2>1. RevisedFiles(p, ts, id)[q] = files[q]
    BY <1>5, <1>6 DEF RevisedFiles
  <2> QED BY <1>4, <2>1 DEF SameKeys
<1>7. [ts |-> ts, id |-> id] # None
  BY NoneAssumption DEF FileRow
<1>8. RevisedFiles(p, ts, id)[p] = Newer(p, ts, id)
  BY <1>5 DEF RevisedFiles
<1>9. CASE ts < files[p].ts
  BY <1>1, <1>2, <1>3, <1>4, <1>6, <1>8, <1>9, AcceptRefines DEF Newer, Live, SameKeys
<1>10. CASE files[p].ts <= ts
  <2>1. Newer(p, ts, id) = [ts |-> ts, id |-> id]
    BY <1>3, <1>10 DEF Newer
  <2>2. Listing'[p] = ts /\ Listing[p] <= ts
    BY <1>2, <1>4, <1>7, <1>8, <1>10, <2>1 DEF Live, SameKeys
  <2> QED BY <1>1, <1>6, <2>2, AcceptRefines
<1> QED BY <1>3, <1>9, <1>10

LEMMA CreateAccepts ==
  ASSUME TypeOK, TypeOK', NEW p \in Path, NEW ts \in Time, Create(p, ts)
  PROVE  A!Accept(p, ts)
<1>1. /\ applying = None /\ applying' = None /\ lastSync' = lastSync
      /\ CreateId(ts) \in FileId
  BY IdTypes DEF Create, Idle
<1>2. CASE Revise(p, ts, CreateId(ts))
  BY <1>1, <1>2, RevisedAccepts DEF Revise, SameKeys
<1>3. CASE ~Revise(p, ts, CreateId(ts))
  <2>1. /\ ~Live(p)
        /\ files' = [files EXCEPT ![p] = [ts |-> ts, id |-> CreateId(ts)]]
        /\ history' = history
    BY <1>3 DEF Create
  <2>2. files \in [Path -> Rows]
    BY DEF TypeOK
  <2>3. [ts |-> ts, id |-> CreateId(ts)] # None
    BY <1>1, NoneAssumption DEF FileRow
  <2>4. \A q \in Path, t \in Time :
          Known(files', history', q, t) <=> Known(files, history, q, t)
                                              \/ (q = p /\ t = ts)
    BY <2>1, <2>2, <2>3 DEF Known, Live
  <2>5. \A q \in Path : /\ Listing[q] = IF files[q] = None THEN 0 ELSE files[q].ts
                        /\ Listing'[q] = IF files'[q] = None THEN 0 ELSE files'[q].ts
    BY <1>1 DEF Listing, CommittedFiles, Idle
  <2>6. \A q \in Path : q # p => Listing'[q] = Listing[q]
    BY <2>1, <2>2, <2>5
  <2>7. Listing'[p] = ts /\ Listing[p] = 0
    BY <2>1, <2>2, <2>3, <2>5 DEF Live
  <2>8. 0 <= ts
    BY TimeAssumption
  <2> QED BY <1>1, <2>4, <2>6, <2>7, <2>8, AcceptRefines
<1> QED BY <1>2, <1>3

LEMMA ChmodAccepts ==
  ASSUME TypeOK, TypeOK', NEW p \in Path, NEW ts \in Time, Chmod(p, ts)
  PROVE  A!Accept(p, ts)
<1>1. /\ applying = None /\ applying' = None /\ lastSync' = lastSync
      /\ files[p].id \in FileId
  BY DEF Chmod, Idle, Live, TypeOK, Rows, FileRow
<1> QED BY <1>1, RevisedAccepts DEF Chmod, Revise, SameKeys

LEMMA WriteAccepts ==
  ASSUME TypeOK, TypeOK', NEW p \in Path, NEW ts \in Time, Write(p, ts)
  PROVE  A!Accept(p, ts)
<1> DEFINE id == WriteId(p, ts)
<1>1. /\ applying = None /\ applying' = None /\ lastSync' = lastSync
      /\ id \in FileId
  BY IdTypes DEF Write, Idle
<1>2. WriteLive(p, ts, id) \/ WriteSuperseded(p, ts, id)
  BY DEF Write
<1> HIDE DEF id
<1>3. CASE WriteLive(p, ts, id)
  <2> DEFINE f == RevisedFiles(p, ts, id)
             h == RevisedHistory(p, ts, id)
  <2>1. /\ CanRevise(p, ts, id)
        /\ files' = ForwardedFiles(f, h, p, ts, id)
        /\ history' = ForwardedHistory(h, p, ts, id)
    BY <1>3 DEF WriteLive
  <2>2. f \in [Path -> Rows] /\ h \in [Path \X Time -> Ids]
    BY <1>1, <2>1, RevisedType DEF TypeOK, CanRevise
  <2> HIDE DEF f, h
  <2>3. SameKeys(f, h, files', history')
    BY <1>1, <2>1, <2>2, ForwardedKnown
  <2> QED BY <1>1, <2>1, <2>3, RevisedAccepts DEF f, h
<1>4. CASE WriteSuperseded(p, ts, id)
  <2> DEFINE h == [history EXCEPT ![<<p, ts>>] = id]
  <2>1. /\ Superseded(p, ts)
        /\ files' = ForwardedFiles(files, h, p, ts, id)
        /\ history' = ForwardedHistory(h, p, ts, id)
    BY <1>4 DEF WriteSuperseded
  <2>2. /\ files \in [Path -> Rows] /\ history \in [Path \X Time -> Ids]
        /\ h \in [Path \X Time -> Ids]
    BY <1>1 DEF TypeOK, Ids
  <2>3. id # None
    BY <1>1, NoneAssumption
  <2>4. \A q \in Path, t \in Time :
          Known(files, h, q, t) <=> Known(files, history, q, t) \/ (q = p /\ t = ts)
    BY <2>2, <2>3 DEF Known
  <2> HIDE DEF h
  <2>5. SameKeys(files, h, files', history')
    BY <1>1, <2>1, <2>2, ForwardedKnown
  <2>6. \A q \in Path : /\ Listing[q] = IF files[q] = None THEN 0 ELSE files[q].ts
                        /\ Listing'[q] = IF files'[q] = None THEN 0 ELSE files'[q].ts
    BY <1>1 DEF Listing, CommittedFiles, Idle
  <2>7. \A q \in Path : Listing'[q] = Listing[q]
    BY <2>5, <2>6 DEF SameKeys
  <2>8. ts < lastSync
    <3>1. PICK t \in Time : ts < t /\ t < lastSync
      BY <2>1 DEF Superseded, ChangesMade
    <3>2. ts \in Nat /\ t \in Nat /\ lastSync \in Nat
      BY TimeAssumption DEF TypeOK
    <3> QED BY <3>1, <3>2
  <2>9. \A q \in Path, t \in Time :
          Known(files', history', q, t) <=> Known(files, history, q, t)
                                              \/ (q = p /\ t = ts)
    BY <2>4, <2>5 DEF SameKeys
  <2> QED BY <1>1, <2>7, <2>8, <2>9, AcceptRefines
<1> QED BY <1>2, <1>3, <1>4

-----------------------------------------------------------------------------
(***************************************************************************)
(* An apply in progress has lost no version of the tables it found, and    *)
(* whatever it added, or lists anew, carries a stamp of its window.        *)
(***************************************************************************)
Window == {t \in Time : lastSync < t /\ t <= applying.to}

InProgress ==
  ~Idle =>
    /\ lastSync <= applying.done
    /\ \A p \in Path, t \in Time :
         /\ Known(applying.files, applying.history, p, t) => Known(files, history, p, t)
         /\ Known(files, history, p, t) =>
              Known(applying.files, applying.history, p, t) \/ t \in Window
    /\ \A p \in Path : Live(p) =>
         \/ applying.files[p] # None /\ files[p].ts = applying.files[p].ts
         \/ files[p].ts \in Window

LEMMA FiledKnown ==
  ASSUME TypeOK, NEW gone \in SUBSET Path, \A q \in gone : Live(q),
         NEW p \in Path, NEW t \in Time
  PROVE  Filed(gone)[<<p, t>>] # None
           <=> history[<<p, t>>] # None \/ (p \in gone /\ files[p].ts = t)
<1>1. p \in gone => files[p].id # None
  BY NoneAssumption DEF TypeOK, Live, Rows, FileRow
<1> QED BY <1>1 DEF Filed

LEMMA InProgressMove ==
  ASSUME TypeOK, InProgress, NEW t \in Time, ApplyMove(t)
  PROVE  InProgress'
<1> DEFINE hit    == Hit(changes[t], t)
           landed == Landed(changes[t], t)
           gone   == hit \cup {q \in landed : Live(q)}
<1>1. applying \in Image /\ changes[t] # None /\ applying # None
  BY DEF ApplyMove, Idle, TypeOK, NextDue, Due
<1>2. /\ applying' \in Image /\ applying'.done = t /\ applying'.to = applying.to
      /\ applying'.files = applying.files /\ applying'.history = applying.history
      /\ lastSync' = lastSync
  BY <1>1 DEF ApplyMove, Image
<1>3. t \in Nat /\ lastSync \in Nat /\ applying.done \in Nat /\ applying.to \in Nat
  BY <1>1, TimeAssumption, ImageFields DEF TypeOK
<1>4. lastSync < t /\ t <= applying.to
  BY <1>1, <1>3 DEF InProgress, ApplyMove, NextDue, Due, Idle
<1>5. t \in Window /\ Window' = Window
  BY <1>2, <1>4 DEF Window
<1>6. landed \subseteq Path /\ \A q \in hit : q \in Path /\ Live(q)
  BY <1>1, HitType
<1>7. gone \in SUBSET Path /\ \A q \in gone : Live(q)
  BY <1>6
<1>8. history' = Filed(gone)
  BY DEF ApplyMove
<1>9. \A q \in Path : files'[q] = IF q \in landed
                                  THEN [ts |-> t, id |-> files[Origin(changes[t], t, q)].id]
                                  ELSE IF q \in hit THEN None ELSE files[q]
  BY DEF ApplyMove
<1> HIDE DEF hit, landed
<1>10. \A q \in landed : [ts |-> t, id |-> files[Origin(changes[t], t, q)].id] # None
  <2>1. \A q \in landed : files[Origin(changes[t], t, q)].id \in FileId
    BY <1>1, HitType DEF landed, FileRow
  <2> QED BY <2>1, NoneAssumption DEF FileRow
<1>11. \A q \in Path : files'[q] # None =>
         \/ q \in landed /\ files'[q].ts = t
         \/ q \notin gone /\ files'[q] = files[q]
  <2>1. ASSUME NEW q \in Path, files'[q] # None, q \in landed
        PROVE  files'[q].ts = t
    <3>1. files'[q] = [ts |-> t, id |-> files[Origin(changes[t], t, q)].id]
      BY <1>9, <2>1
    <3> HIDE <1>9
    <3> QED BY <3>1
  <2>2. ASSUME NEW q \in Path, files'[q] # None, q \notin landed
        PROVE  q \notin gone /\ files'[q] = files[q]
    BY <1>9, <2>2
  <2> QED BY <2>1, <2>2
<1>12. ASSUME NEW p \in Path, NEW u \in Time
       PROVE  /\ Known(files, history, p, u) => Known(files', history', p, u)
              /\ Known(files', history', p, u) => Known(files, history, p, u) \/ u = t
  <2>1. history'[<<p, u>>] # None
          <=> history[<<p, u>>] # None \/ (p \in gone /\ files[p].ts = u)
    BY <1>7, <1>8, FiledKnown
  <2>2. CASE p \in gone
    BY <1>7, <1>11, <2>1, <2>2 DEF Known, Live
  <2>3. CASE p \notin gone
    BY <1>9, <1>10, <1>11, <2>1, <2>3 DEF Known, Live
  <2> QED BY <2>2, <2>3
<1>13. ASSUME NEW p \in Path, files'[p] # None
       PROVE  \/ applying.files[p] # None /\ files'[p].ts = applying.files[p].ts
              \/ files'[p].ts \in Window
  BY <1>1, <1>5, <1>11, <1>13 DEF InProgress, Live, Idle
<1>14. \A p \in Path, u \in Time :
         /\ Known(applying.files, applying.history, p, u) => Known(files', history', p, u)
         /\ Known(files', history', p, u) =>
              Known(applying.files, applying.history, p, u) \/ u \in Window
  BY <1>1, <1>5, <1>12 DEF InProgress, Idle
<1> QED BY <1>2, <1>3, <1>4, <1>5, <1>13, <1>14 DEF InProgress, Live

LEMMA InProgressDelete ==
  ASSUME TypeOK, InProgress, NEW t \in Time, ApplyDelete(t)
  PROVE  InProgress'
<1> DEFINE gone == Hit(changes[t], t)
<1>1. applying \in Image /\ changes[t] # None /\ applying # None
  BY DEF ApplyDelete, Idle, TypeOK, NextDue, Due
<1>2. /\ applying' \in Image /\ applying'.done = t /\ applying'.to = applying.to
      /\ applying'.files = applying.files /\ applying'.history = applying.history
      /\ lastSync' = lastSync
  BY <1>1 DEF ApplyDelete, Image
<1>3. t \in Nat /\ lastSync \in Nat /\ applying.done \in Nat
  BY <1>1, TimeAssumption, ImageFields DEF TypeOK
<1>4. lastSync < t
  BY <1>1, <1>3 DEF InProgress, ApplyDelete, NextDue, Due, Idle
<1>5. Window' = Window
  BY <1>2 DEF Window
<1>6. gone \in SUBSET Path /\ \A q \in gone : Live(q)
  BY <1>1, HitType
<1>7. history' = Filed(gone)
  BY DEF ApplyDelete
<1>8. \A q \in Path : files'[q] = IF q \in gone THEN None ELSE files[q]
  BY DEF ApplyDelete
<1> HIDE DEF gone
<1>9. ASSUME NEW p \in Path, NEW u \in Time
      PROVE  Known(files, history, p, u) <=> Known(files', history', p, u)
  <2>1. history'[<<p, u>>] # None
          <=> history[<<p, u>>] # None \/ (p \in gone /\ files[p].ts = u)
    BY <1>6, <1>7, FiledKnown
  <2> QED BY <1>6, <1>8, <2>1 DEF Known, Live
<1>10. ASSUME NEW p \in Path, files'[p] # None
       PROVE  \/ applying.files[p] # None /\ files'[p].ts = applying.files[p].ts
              \/ files'[p].ts \in Window
  BY <1>1, <1>8, <1>10 DEF InProgress, Live, Idle
<1>11. \A p \in Path, u \in Time :
         /\ Known(applying.files, applying.history, p, u) => Known(files', history', p, u)
         /\ Known(files', history', p, u) =>
              Known(applying.files, applying.history, p, u) \/ u \in Window
  BY <1>1, <1>9 DEF InProgress, Idle
<1> QED BY <1>2, <1>3, <1>4, <1>5, <1>10, <1>11 DEF InProgress, Live

LEMMA InProgressStep ==
  ASSUME TypeOK, InProgress, [Next]_vars
  PROVE  InProgress'
<1>1. CASE \E t \in Time : ApplyMove(t)
  BY <1>1, InProgressMove
<1>2. CASE \E t \in Time : ApplyDelete(t)
  BY <1>2, InProgressDelete
<1>3. CASE \E ts \in Time : ApplyBegin(ts)
  <2>1. PICK ts \in Time : ApplyBegin(ts)
    BY <1>3
  <2>2. lastSync \in Nat
    BY TimeAssumption DEF TypeOK
  <2> QED BY <2>1, <2>2 DEF ApplyBegin, InProgress, Live
<1>4. CASE ApplyCommit \/ ApplyAbort
  BY <1>4 DEF ApplyCommit, ApplyAbort, InProgress, Idle
<1>5. CASE \E p \in Path, ts \in Time : Create(p, ts) \/ Chmod(p, ts) \/ Write(p, ts)
                                                       \/ Remove(p, ts)
  BY <1>5 DEF Create, Chmod, Write, Remove, Record, InProgress, Idle
<1>6. CASE \E m \in Moves, ts \in Time : Move(m[1], m[2], ts)
  BY <1>6 DEF Move, Record, InProgress, Idle
<1>7. CASE UNCHANGED vars
  <2>1. InProgress' <=> InProgress
    BY <1>7 DEF vars, InProgress, Idle, Live, Known, Window
  <2> QED BY <2>1
<1> QED BY <1>1, <1>2, <1>3, <1>4, <1>5, <1>6, <1>7 DEF Next

-----------------------------------------------------------------------------
(***************************************************************************)
(* A step that changes no committed row and no stamp is invisible.         *)
(***************************************************************************)
LEMMA Invisible ==
  ASSUME CommittedFiles' = CommittedFiles, CommittedHistory' = CommittedHistory,
         lastSync' = lastSync
  PROVE  UNCHANGED A!archive
<1>1. Listing' = Listing
  BY DEF Listing
<1>2. Sync' = Sync
  BY DEF Sync
<1>3. Retrievable' = Retrievable
  BY <1>2 DEF Retrievable, Version
<1> QED BY <1>1, <1>3 DEF A!archive

LEMMA CommitRefines ==
  ASSUME TypeOK, InProgress, ApplyCommit
  PROVE  \E t \in Time : A!Apply(t)
<1>1. applying # None /\ applying \in Image /\ applying.to \in Time
  BY ImageFields DEF ApplyCommit, Idle, TypeOK
<1>2. /\ CommittedFiles = applying.files /\ CommittedHistory = applying.history
      /\ CommittedFiles' = files /\ CommittedHistory' = history
  BY <1>1 DEF ApplyCommit, CommittedFiles, CommittedHistory, Idle
<1>3. KnownKeys /\ KnownKeys'
  BY RetrievableKnown, PTL
<1>4. Retrievable \subseteq Path \X Time /\ Retrievable' \subseteq Path \X Time
  BY DEF Retrievable
<1>5. \A p \in Path, t \in Time :
        /\ <<p, t>> \in Retrievable => <<p, t>> \in Retrievable'
        /\ <<p, t>> \in Retrievable' => <<p, t>> \in Retrievable \/ t \in Window
  BY <1>1, <1>2, <1>3 DEF KnownKeys, InProgress, Idle
<1>6. A!Window(applying.to) = Window
  BY DEF A!Window, Window
<1>7. Retrievable \subseteq Retrievable'
  BY <1>4, <1>5
<1>8. Retrievable' \subseteq Retrievable \cup (Path \X Window)
  BY <1>4, <1>5
<1>9. ASSUME NEW p \in Path
      PROVE  Listing'[p] \in {Listing[p], 0} \cup Window
  <2>1. /\ Listing[p] = IF applying.files[p] = None THEN 0 ELSE applying.files[p].ts
        /\ Listing'[p] = IF files[p] = None THEN 0 ELSE files[p].ts
    BY <1>2 DEF Listing
  <2> QED BY <1>1, <2>1 DEF InProgress, Idle, Live
<1>10. Listing' = [p \in Path |-> Listing'[p]]
  BY DEF Listing
<1>11. lastSync' = applying.to
  BY DEF ApplyCommit
<1>12. A!Apply(applying.to)
  BY <1>6, <1>7, <1>8, <1>9, <1>10, <1>11 DEF A!Apply
<1> QED BY <1>1, <1>12

LEMMA StepRefines ==
  ASSUME TypeOK, TypeOK', InProgress, [Next]_vars
  PROVE  [A!Next]_(A!archive)
<1>1. CASE \E p \in Path, ts \in Time : Create(p, ts) \/ Chmod(p, ts) \/ Write(p, ts)
  BY <1>1, CreateAccepts, ChmodAccepts, WriteAccepts DEF A!Next
<1>2. CASE ApplyCommit
  BY <1>2, CommitRefines DEF A!Next
<1>3. CASE \E p \in Path, ts \in Time : Remove(p, ts)
  BY <1>3, Invisible DEF Remove, Record, CommittedFiles, CommittedHistory, Idle
<1>4. CASE \E m \in Moves, ts \in Time : Move(m[1], m[2], ts)
  BY <1>4, Invisible DEF Move, Record, CommittedFiles, CommittedHistory, Idle
<1>5. CASE \E t \in Time : ApplyBegin(t)
  <2>1. PICK t \in Time : ApplyBegin(t)
    BY <1>5
  <2>2. applying' # None
    <3>1. applying' \in Image
      BY <2>1 DEF ApplyBegin, TypeOK, Image
    <3> QED BY <3>1, ImageNotNone
  <2> QED BY <2>1, <2>2, Invisible
          DEF ApplyBegin, CommittedFiles, CommittedHistory, Idle
<1>6. CASE \E t \in Time : ApplyMove(t) \/ ApplyDelete(t)
  <2>1. /\ applying \in Image /\ applying # None
        /\ lastSync' = lastSync
        /\ \E t \in Time : applying' = [applying EXCEPT !.done = t]
    BY <1>6 DEF ApplyMove, ApplyDelete, Idle, TypeOK
  <2>2. /\ applying' # None
        /\ applying'.files = applying.files
        /\ applying'.history = applying.history
    BY <2>1, ImageNotNone DEF TypeOK, Image
  <2> QED BY <2>1, <2>2, Invisible DEF CommittedFiles, CommittedHistory, Idle
<1>7. CASE ApplyAbort
  BY <1>7, Invisible DEF ApplyAbort, CommittedFiles, CommittedHistory, Idle
<1>8. CASE UNCHANGED vars
  BY <1>8, Invisible DEF vars, CommittedFiles, CommittedHistory, Idle
<1> QED BY <1>1, <1>2, <1>3, <1>4, <1>5, <1>6, <1>7, <1>8 DEF Next

(***************************************************************************)
(* The theorem: every behaviour of the store is one of the archive.        *)
(***************************************************************************)
THEOREM StoreImplementsArchive == Spec => ImplementsArchive
<1>1. Init => TypeOK /\ InProgress /\ A!Init
  <2>1. Init => TypeOK /\ InProgress
    BY InitType DEF Init, InProgress, Idle
  <2>2. Init => Listing = [p \in Path |-> 0]
    BY DEF Init, Listing, CommittedFiles, Idle
  <2>3. ASSUME Init
        PROVE  Retrievable = {}
    <3>1. KnownKeys
      BY RetrievableKnown
    <3>2. Retrievable \subseteq Path \X Time
      BY DEF Retrievable
    <3>3. \A p \in Path, t \in Time : ~Known(CommittedFiles, CommittedHistory, p, t)
      BY <2>3 DEF Init, Known, CommittedFiles, CommittedHistory, Idle
    <3> QED BY <3>1, <3>2, <3>3 DEF KnownKeys
  <2> QED BY <2>1, <2>2, <2>3 DEF A!Init, Init
<1>2. TypeOK /\ InProgress /\ [Next]_vars => TypeOK' /\ InProgress'
  BY StepType, InProgressStep
<1>3. TypeOK /\ TypeOK' /\ InProgress /\ [Next]_vars => [A!Next]_(A!archive)
  BY StepRefines
<1> QED BY <1>1, <1>2, <1>3, PTL DEF Spec, ImplementsArchive, A!Spec

=============================================================================
