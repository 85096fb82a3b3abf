-------------------------- MODULE FreshStoreProofs --------------------------
(***************************************************************************)
(* With a stamp of its own for every change, a version is live or in       *)
(* history and never both, so no APPLY aborts, and no content is lost.     *)
(***************************************************************************)
EXTENDS FreshStore, StoreProofs

SingleCopy(f, h) == \A p \in Path : f[p] # None => h[<<p, f[p].ts>>] = None

(***************************************************************************)
(* The group changes up to Reached have been replayed, or never will be;   *)
(* no row carries the stamp of one still to come.                          *)
(***************************************************************************)
Reached == IF Idle THEN lastSync ELSE applying.done

StampsUsed == \A p \in Path, t \in Time : Known(files, history, p, t) => t \in used

StampsToCome ==
  \A t \in Time : changes[t] # None =>
    /\ t \in used
    /\ Reached < t => \A p \in Path : ~Known(files, history, p, t)

InOrder == ~Idle => lastSync <= applying.done /\ applying.done <= applying.to

FreshInv == TypeOK /\ StampsUsed /\ StampsToCome /\ InOrder /\ OneCopyPerVersion

LEMMA ReachedNat == ASSUME TypeOK PROVE Reached \in Nat
BY ImageFields, TimeAssumption DEF TypeOK, Reached, Idle

-----------------------------------------------------------------------------
(***************************************************************************)
(* An UPDATE stamped with a stamp the path does not know yet.              *)
(***************************************************************************)
LEMMA RevisedSingle ==
  ASSUME TypeOK, OneCopyPerVersion, NEW p \in Path, NEW ts \in Time,
         NEW id \in FileId, CanRevise(p, ts, id), ~Known(files, history, p, ts)
  PROVE  SingleCopy(RevisedFiles(p, ts, id), RevisedHistory(p, ts, id))
<1>1. /\ files \in [Path -> Rows] /\ history \in [Path \X Time -> Ids]
      /\ files[p] # None /\ files[p].ts \in Time /\ files[p].ts # ts
      /\ history[<<p, ts>>] = None
  BY DEF TypeOK, CanRevise, Live, Rows, FileRow, Known
<1>2. ts \in Nat /\ files[p].ts \in Nat
  BY <1>1, TimeAssumption
<1> SUFFICES ASSUME NEW q \in Path, RevisedFiles(p, ts, id)[q] # None
             PROVE  RevisedHistory(p, ts, id)[<<q, RevisedFiles(p, ts, id)[q].ts>>] = None
  BY DEF SingleCopy
<1>3. CASE q # p
  <2>1. RevisedFiles(p, ts, id)[q] = files[q] /\ files[q].ts \in Time
    BY <1>1, <1>3 DEF RevisedFiles, Rows, FileRow
  <2>2. history[<<q, files[q].ts>>] = None
    BY <2>1 DEF OneCopyPerVersion, Live, InHistory
  <2> QED BY <1>1, <1>3, <2>1, <2>2 DEF RevisedHistory
<1>4. CASE q = p /\ ts < files[p].ts
  BY <1>1, <1>2, <1>4
     DEF RevisedFiles, RevisedHistory, Older, Newer, OneCopyPerVersion, Live, InHistory
<1>5. CASE q = p /\ files[p].ts < ts
  BY <1>1, <1>2, <1>5 DEF RevisedFiles, RevisedHistory, Older, Newer
<1> QED BY <1>1, <1>2, <1>3, <1>4, <1>5

LEMMA ForwardedSingle ==
  ASSUME NEW f \in [Path -> Rows], NEW h \in [Path \X Time -> Ids],
         NEW p \in Path, NEW ts \in Time, NEW id \in FileId, SingleCopy(f, h)
  PROVE  SingleCopy(ForwardedFiles(f, h, p, ts, id), ForwardedHistory(h, p, ts, id))
<1> SUFFICES ASSUME NEW q \in Path, ForwardedFiles(f, h, p, ts, id)[q] # None
             PROVE  ForwardedHistory(h, p, ts, id)
                      [<<q, ForwardedFiles(f, h, p, ts, id)[q].ts>>] = None
  BY DEF SingleCopy
<1>1. f[q] # None /\ ForwardedFiles(f, h, p, ts, id)[q].ts = f[q].ts
  BY DEF ForwardedFiles
<1>2. f[q].ts \in Time /\ h[<<q, f[q].ts>>] = None
  BY <1>1 DEF SingleCopy, Rows, FileRow
<1> QED BY <1>1, <1>2 DEF ForwardedHistory

(***************************************************************************)
(* A request that takes a stamp of its own and makes it known at one path. *)
(***************************************************************************)
LEMMA RequestFresh ==
  ASSUME FreshInv, TypeOK', Idle, NEW p \in Path, NEW ts \in Time, Take(ts),
         UNCHANGED <<changes, lastSync, applying>>,
         \A q \in Path, t \in Time :
           Known(files', history', q, t) <=> Known(files, history, q, t)
                                               \/ (q = p /\ t = ts),
         SingleCopy(files', history')
  PROVE  FreshInv'
<1>1. OneCopyPerVersion'
  BY DEF SingleCopy, OneCopyPerVersion, Live, InHistory
<1>2. Reached' = Reached /\ InOrder'
  BY DEF Reached, InOrder, Idle
<1>3. StampsUsed'
  BY DEF FreshInv, StampsUsed, Take
<1>4. StampsToCome'
  BY <1>2 DEF FreshInv, StampsToCome, Take
<1> QED BY <1>1, <1>2, <1>3, <1>4 DEF FreshInv

LEMMA CreateFresh ==
  ASSUME FreshInv, TypeOK', NEW p \in Path, NEW ts \in Time, Take(ts), Create(p, ts)
  PROVE  FreshInv'
<1>1. Idle /\ UNCHANGED <<changes, lastSync, applying>> /\ CreateId(ts) \in FileId
  BY IdTypes DEF Create
<1>2. ~Known(files, history, p, ts)
  BY DEF FreshInv, StampsUsed, Take
<1>3. CASE Revise(p, ts, CreateId(ts))
  BY <1>1, <1>2, <1>3, RevisedKnown, RevisedSingle, RequestFresh DEF Revise, FreshInv
<1>4. CASE ~Live(p) /\ files' = [files EXCEPT ![p] = [ts |-> ts, id |-> CreateId(ts)]]
                    /\ history' = history
  <2>1. files \in [Path -> Rows]
    BY DEF FreshInv, TypeOK
  <2>2. [ts |-> ts, id |-> CreateId(ts)] # None
    BY <1>1, NoneAssumption DEF FileRow
  <2>3. \A q \in Path, t \in Time :
          Known(files', history', q, t) <=> Known(files, history, q, t)
                                              \/ (q = p /\ t = ts)
    BY <1>4, <2>1, <2>2 DEF Known, Live
  <2>4. SingleCopy(files', history')
    BY <1>2, <1>4, <2>1
       DEF SingleCopy, FreshInv, OneCopyPerVersion, Live, InHistory, Known
  <2> QED BY <1>1, <2>3, <2>4, RequestFresh
<1> QED BY <1>3, <1>4 DEF Create

LEMMA ChmodFresh ==
  ASSUME FreshInv, TypeOK', NEW p \in Path, NEW ts \in Time, Take(ts), Chmod(p, ts)
  PROVE  FreshInv'
<1>1. /\ Idle /\ UNCHANGED <<changes, lastSync, applying>>
      /\ files[p].id \in FileId
  BY DEF Chmod, Live, FreshInv, TypeOK, Rows, FileRow
<1>2. ~Known(files, history, p, ts)
  BY DEF FreshInv, StampsUsed, Take
<1> QED BY <1>1, <1>2, RevisedKnown, RevisedSingle, RequestFresh
        DEF Chmod, Revise, FreshInv

LEMMA WriteFresh ==
  ASSUME FreshInv, TypeOK', NEW p \in Path, NEW ts \in Time, Take(ts), Write(p, ts)
  PROVE  FreshInv'
<1> DEFINE id == WriteId(p, ts)
<1>1. Idle /\ UNCHANGED <<changes, lastSync, applying>> /\ id \in FileId
  BY IdTypes DEF Write
<1>2. ~Known(files, history, p, ts)
  BY DEF FreshInv, StampsUsed, Take
<1>3. /\ TypeOK /\ OneCopyPerVersion
      /\ files \in [Path -> Rows] /\ history \in [Path \X Time -> Ids]
  BY DEF FreshInv, TypeOK
<1>4. WriteLive(p, ts, id) \/ WriteSuperseded(p, ts, id)
  BY DEF Write
<1> HIDE DEF id
<1>5. CASE WriteLive(p, ts, id)
  <2> DEFINE f == RevisedFiles(p, ts, id)
             h == RevisedHistory(p, ts, id)
  <2>1. /\ CanRevise(p, ts, id)
        /\ files' = ForwardedFiles(f, h, p, ts, id)
        /\ history' = ForwardedHistory(h, p, ts, id)
    BY <1>5 DEF WriteLive
  <2>2. f \in [Path -> Rows] /\ h \in [Path \X Time -> Ids]
    BY <1>1, <1>3, <2>1, RevisedType DEF CanRevise
  <2>3. SingleCopy(f, h)
    BY <1>1, <1>2, <1>3, <2>1, RevisedSingle
  <2>4. \A q \in Path, t \in Time :
          Known(f, h, q, t) <=> Known(files, history, q, t) \/ (q = p /\ t = ts)
    BY <1>1, <1>3, <2>1, RevisedKnown
  <2> HIDE DEF f, h
  <2>5. SingleCopy(files', history') /\ SameKeys(f, h, files', history')
    BY <1>1, <2>1, <2>2, <2>3, ForwardedSingle, ForwardedKnown
  <2>6. \A q \in Path, t \in Time :
          Known(files', history', q, t) <=> Known(files, history, q, t)
                                              \/ (q = p /\ t = ts)
    BY <2>4, <2>5 DEF SameKeys
  <2> QED BY <1>1, <2>5, <2>6, RequestFresh
<1>6. CASE WriteSuperseded(p, ts, id)
  <2> DEFINE h == [history EXCEPT ![<<p, ts>>] = id]
  <2>1. /\ files' = ForwardedFiles(files, h, p, ts, id)
        /\ history' = ForwardedHistory(h, p, ts, id)
    BY <1>6 DEF WriteSuperseded
  <2>2. h \in [Path \X Time -> Ids]
    BY <1>1, <1>3 DEF Ids
  <2>3. id # None
    BY <1>1, NoneAssumption
  <2>4. \A q \in Path, t \in Time :
          Known(files, h, q, t) <=> Known(files, history, q, t) \/ (q = p /\ t = ts)
    BY <1>3, <2>3 DEF Known
  <2>5. SingleCopy(files, h)
    <3> SUFFICES ASSUME NEW q \in Path, files[q] # None
                 PROVE  h[<<q, files[q].ts>>] = None
      BY DEF SingleCopy
    <3>1. files[q].ts \in Time /\ history[<<q, files[q].ts>>] = None
      BY <1>3 DEF OneCopyPerVersion, Live, InHistory, Rows, FileRow
    <3>2. q = p => files[q].ts # ts
      BY <1>2 DEF Known
    <3> QED BY <1>3, <3>1, <3>2
  <2> HIDE DEF h
  <2>6. SingleCopy(files', history') /\ SameKeys(files, h, files', history')
    BY <1>1, <1>3, <2>1, <2>2, <2>5, ForwardedSingle, ForwardedKnown
  <2>7. \A q \in Path, t \in Time :
          Known(files', history', q, t) <=> Known(files, history, q, t)
                                              \/ (q = p /\ t = ts)
    BY <2>4, <2>6 DEF SameKeys
  <2> QED BY <1>1, <2>6, <2>7, RequestFresh
<1> QED BY <1>4, <1>5, <1>6

-----------------------------------------------------------------------------
(***************************************************************************)
(* Replaying a change uses up its stamp.                                   *)
(***************************************************************************)
LEMMA MoveFresh ==
  ASSUME FreshInv, TypeOK', NEW t \in Time, ApplyMove(t), used' = used
  PROVE  FreshInv'
<1> DEFINE hit    == Hit(changes[t], t)
           landed == Landed(changes[t], t)
           gone   == hit \cup {q \in landed : Live(q)}
<1>1. /\ TypeOK /\ applying \in Image /\ changes[t] # None /\ applying # None
      /\ applying.done < t /\ t <= applying.to
  BY DEF FreshInv, ApplyMove, Idle, TypeOK, NextDue, Due
<1>2. /\ applying' # None /\ applying'.done = t /\ applying'.to = applying.to
      /\ lastSync' = lastSync /\ changes' = changes
  BY <1>1, ImageNotNone DEF ApplyMove, Image, TypeOK
<1>3. t \in Nat /\ lastSync \in Nat /\ applying.done \in Nat /\ applying.to \in Nat
  BY <1>1, TimeAssumption, ImageFields DEF TypeOK
<1>4. Reached = applying.done /\ Reached' = t
  BY <1>1, <1>2 DEF Reached, Idle
<1>5. InOrder'
  BY <1>1, <1>2, <1>3 DEF InOrder, FreshInv, Idle
<1>6. \A p \in Path : ~Known(files, history, p, t)
  BY <1>1, <1>3, <1>4 DEF FreshInv, StampsToCome
<1>7. landed \subseteq Path /\ \A q \in hit : q \in Path /\ Live(q)
  BY <1>1, HitType
<1>8. gone \in SUBSET Path /\ \A q \in gone : Live(q)
  BY <1>7
<1>9. history' = Filed(gone)
  BY DEF ApplyMove
<1>10. \A q \in Path : files'[q] = IF q \in landed
                                   THEN [ts |-> t, id |-> files[Origin(changes[t], t, q)].id]
                                   ELSE IF q \in hit THEN None ELSE files[q]
  BY DEF ApplyMove
<1> HIDE DEF hit, landed
<1>11. \A q \in Path : files'[q] # None =>
         \/ q \in landed /\ files'[q].ts = t
         \/ q \notin gone /\ files'[q] = files[q]
  <2>1. ASSUME NEW q \in Path, q \in landed
        PROVE  files'[q].ts = t
    <3>1. files'[q] = [ts |-> t, id |-> files[Origin(changes[t], t, q)].id]
      BY <1>10, <2>1
    <3> HIDE <1>10
    <3> QED BY <3>1
  <2>2. ASSUME NEW q \in Path, files'[q] # None, q \notin landed
        PROVE  q \notin gone /\ files'[q] = files[q]
    BY <1>10, <2>2
  <2> QED BY <2>1, <2>2
<1>12. \A p \in Path, u \in Time :
         Known(files', history', p, u) => Known(files, history, p, u) \/ u = t
  BY <1>1, <1>8, <1>9, <1>11, FiledKnown DEF Known, Live
<1>13. StampsUsed'
  BY <1>1, <1>12 DEF FreshInv, StampsUsed, StampsToCome
<1>14. StampsToCome'
  BY <1>1, <1>2, <1>3, <1>4, <1>12, TimeAssumption DEF FreshInv, StampsToCome
<1>15. ASSUME NEW q \in Path, files'[q] # None
       PROVE  history'[<<q, files'[q].ts>>] = None
  <2>1. CASE q \in landed /\ files'[q].ts = t
    BY <1>1, <1>6, <1>8, <1>9, <2>1, FiledKnown DEF Known, Live
  <2>2. CASE q \notin gone /\ files'[q] = files[q]
    <3>1. files[q].ts \in Time /\ history[<<q, files[q].ts>>] = None
      BY <1>1, <1>15, <2>2
         DEF FreshInv, OneCopyPerVersion, Live, InHistory, TypeOK, Rows, FileRow
    <3> QED BY <1>1, <1>8, <1>9, <2>2, <3>1, FiledKnown
  <2> QED BY <1>11, <1>15, <2>1, <2>2
<1>16. OneCopyPerVersion'
  BY <1>15 DEF OneCopyPerVersion, Live, InHistory
<1> QED BY <1>5, <1>13, <1>14, <1>16 DEF FreshInv

LEMMA DeleteFresh ==
  ASSUME FreshInv, TypeOK', NEW t \in Time, ApplyDelete(t), used' = used
  PROVE  FreshInv'
<1> DEFINE gone == Hit(changes[t], t)
<1>1. /\ TypeOK /\ applying \in Image /\ changes[t] # None /\ applying # None
      /\ applying.done < t /\ t <= applying.to
  BY DEF FreshInv, ApplyDelete, Idle, TypeOK, NextDue, Due
<1>2. /\ applying' # None /\ applying'.done = t /\ applying'.to = applying.to
      /\ lastSync' = lastSync /\ changes' = changes
  BY <1>1, ImageNotNone DEF ApplyDelete, Image, TypeOK
<1>3. t \in Nat /\ lastSync \in Nat /\ applying.done \in Nat /\ applying.to \in Nat
  BY <1>1, TimeAssumption, ImageFields DEF TypeOK
<1>4. Reached = applying.done /\ Reached' = t
  BY <1>1, <1>2 DEF Reached, Idle
<1>5. InOrder'
  BY <1>1, <1>2, <1>3 DEF InOrder, FreshInv, Idle
<1>6. gone \in SUBSET Path /\ \A q \in gone : Live(q)
  BY <1>1, HitType
<1>7. history' = Filed(gone)
  BY DEF ApplyDelete
<1>8. \A q \in Path : files'[q] = IF q \in gone THEN None ELSE files[q]
  BY DEF ApplyDelete
<1> HIDE DEF gone
<1>9. \A p \in Path, u \in Time :
        Known(files', history', p, u) => Known(files, history, p, u)
  BY <1>1, <1>6, <1>7, <1>8, FiledKnown DEF Known, Live
<1>10. StampsUsed'
  BY <1>9 DEF FreshInv, StampsUsed
<1>11. StampsToCome'
  BY <1>1, <1>2, <1>3, <1>4, <1>9, TimeAssumption DEF FreshInv, StampsToCome
<1>12. ASSUME NEW q \in Path, files'[q] # None
       PROVE  history'[<<q, files'[q].ts>>] = None
  <2>1. q \notin gone /\ files'[q] = files[q]
    BY <1>8, <1>12
  <2>2. files[q].ts \in Time /\ history[<<q, files[q].ts>>] = None
    BY <1>1, <1>12, <2>1
       DEF FreshInv, OneCopyPerVersion, Live, InHistory, TypeOK, Rows, FileRow
  <2> QED BY <1>1, <1>6, <1>7, <2>1, <2>2, FiledKnown
<1>13. OneCopyPerVersion'
  BY <1>12 DEF OneCopyPerVersion, Live, InHistory
<1> QED BY <1>5, <1>10, <1>11, <1>13 DEF FreshInv

(***************************************************************************)
(* A removal that is due meets no conflict.                                *)
(***************************************************************************)
LEMMA NoAbort ==
  ASSUME FreshInv
  PROVE  ~ApplyAbort
<1> SUFFICES ASSUME ApplyAbort PROVE FALSE
  OBVIOUS
<1>1. PICK t \in Time : NextDue(t) /\ Conflict(t)
  BY DEF ApplyAbort
<1>2. PICK p \in Hit(changes[t], t) : InHistory(p, files[p].ts)
  BY <1>1 DEF Conflict
<1> QED BY <1>2 DEF Hit, FreshInv, OneCopyPerVersion

LEMMA FreshStep ==
  ASSUME FreshInv, [FreshNext]_freshVars
  PROVE  FreshInv'
<1>1. TypeOK' /\ lastSync \in Nat
  BY StepType, TimeAssumption DEF FreshInv, FreshNext, Next, freshVars, vars, TypeOK
<1>2. CASE \E p \in Path, ts \in Time :
             Take(ts) /\ (Create(p, ts) \/ Chmod(p, ts) \/ Write(p, ts))
  BY <1>1, <1>2, CreateFresh, ChmodFresh, WriteFresh
<1>3. ASSUME NEW ts \in Time, NEW c, Take(ts), Record(ts, c)
      PROVE  FreshInv'
  BY <1>1, <1>3 DEF Record, Take, FreshInv, StampsUsed, StampsToCome, InOrder,
                    OneCopyPerVersion, Live, InHistory, Reached, Idle, TypeOK
<1>4. CASE \E ts \in Time : ts >= lastSync /\ ApplyBegin(ts) /\ UNCHANGED used
  <2>1. PICK ts \in Time : ts >= lastSync /\ ApplyBegin(ts) /\ UNCHANGED used
    BY <1>4
  <2>2. applying'.done = lastSync /\ applying'.to = ts /\ applying = None
        /\ UNCHANGED <<files, history, changes, lastSync, used>>
    BY <2>1 DEF ApplyBegin, Idle
  <2>3. Reached' = Reached /\ InOrder'
    BY <1>1, <2>1, <2>2 DEF Reached, InOrder, Idle
  <2> QED BY <1>1, <2>2, <2>3 DEF FreshInv, StampsUsed, StampsToCome,
                                  OneCopyPerVersion, Live, InHistory
<1>5. CASE \E ts \in Time : (ApplyMove(ts) \/ ApplyDelete(ts)) /\ UNCHANGED used
  BY <1>1, <1>5, MoveFresh, DeleteFresh
<1>6. CASE ApplyCommit /\ UNCHANGED used
  <2>1. /\ applying # None /\ applying' = None /\ lastSync' = applying.to
        /\ UNCHANGED <<files, history, changes, used>>
        /\ \A t \in Time : changes[t] # None /\ applying.done < t => ~(t <= applying.to)
    BY <1>6 DEF ApplyCommit, Idle, Due
  <2>2. applying.to \in Nat /\ applying.done \in Nat /\ applying.done <= applying.to
    BY <2>1, ImageFields DEF FreshInv, TypeOK, InOrder, Idle
  <2>3. Reached = applying.done /\ Reached' = applying.to /\ InOrder'
    BY <2>1 DEF Reached, Idle, InOrder
  <2>4. ASSUME NEW t \in Time, applying.to < t
        PROVE  applying.done < t
    BY <2>2, <2>4, TimeAssumption
  <2>5. \A p \in Path, t \in Time : Known(files', history', p, t) <=> Known(files, history, p, t)
    BY <2>1
  <2>6. StampsToCome'
    BY <2>1, <2>3, <2>4, <2>5 DEF FreshInv, StampsToCome
  <2> QED BY <1>1, <2>1, <2>3, <2>5, <2>6
         DEF FreshInv, StampsUsed, OneCopyPerVersion, Live, InHistory
<1>7. CASE UNCHANGED freshVars
  BY <1>1, <1>7 DEF freshVars, FreshInv, StampsUsed, StampsToCome, InOrder,
                    OneCopyPerVersion, Live, InHistory, Reached, Idle
<1> QED BY <1>2, <1>3, <1>4, <1>5, <1>6, <1>7, NoAbort DEF FreshNext, Move, Remove

LEMMA FreshStart == FreshInit => FreshInv
BY InitType DEF FreshInit, Init, FreshInv, StampsUsed, StampsToCome, InOrder,
                OneCopyPerVersion, Live, Known, Idle

(***************************************************************************)
(* The theorem: no version is ever both live and in history, so that every *)
(* later create, write, rename and removal of its path can be filed.       *)
(***************************************************************************)
THEOREM OneCopy == FreshSpec => []OneCopyPerVersion
<1>1. FreshInv => OneCopyPerVersion
  BY DEF FreshInv
<1> QED BY FreshStart, FreshStep, <1>1, PTL DEF FreshSpec

-----------------------------------------------------------------------------
(***************************************************************************)
(* The contents a pair of tables stores, and a pair that stores no less.   *)
(***************************************************************************)
Stores(f, h, id) ==
  \/ \E q \in Path : f[q] # None /\ f[q].id = id
  \/ \E q \in Path, t \in Time : h[<<q, t>>] = id

Keeps(f, h, g, k) == \A id \in FileId : Stores(f, h, id) => Stores(g, k, id)

ContentsAreStored ==
  /\ Contents \subseteq FileId
  /\ \A id \in FileId : id \in Contents <=> Stores(CommittedFiles, CommittedHistory, id)

LEMMA ContentsStored == TypeOK => ContentsAreStored
<1> SUFFICES ASSUME TypeOK PROVE ContentsAreStored
  OBVIOUS
<1>1. CommittedFiles \in [Path -> Rows] /\ CommittedHistory \in [Path \X Time -> Ids]
  BY ImageFields DEF TypeOK, CommittedFiles, CommittedHistory, Idle
<1>2. \A q \in Path : CommittedFiles[q] # None => CommittedFiles[q].id \in FileId
  BY <1>1 DEF Rows, FileRow
<1>3. Contents \subseteq FileId
  BY <1>1, <1>2 DEF Contents, Ids
<1>4. ASSUME NEW id \in FileId
      PROVE  id \in Contents <=> Stores(CommittedFiles, CommittedHistory, id)
  <2>1. id # None
    BY NoneAssumption
  <2>2. ASSUME NEW k \in Path \X Time, CommittedHistory[k] = id
        PROVE  \E q \in Path, t \in Time : CommittedHistory[<<q, t>>] = id
    <3>1. k = <<k[1], k[2]>> /\ k[1] \in Path /\ k[2] \in Time
      OBVIOUS
    <3> QED BY <2>2, <3>1
  <2>3. ASSUME NEW q \in Path, NEW t \in Time, CommittedHistory[<<q, t>>] = id
        PROVE  \E k \in Path \X Time : CommittedHistory[k] = id
    BY <2>3
  <2>4. id \in Contents => Stores(CommittedFiles, CommittedHistory, id)
    BY <2>1, <2>2 DEF Contents, Stores
  <2>5. Stores(CommittedFiles, CommittedHistory, id) => id \in Contents
    BY <2>1, <2>3 DEF Contents, Stores
  <2> QED BY <2>4, <2>5
<1> QED BY <1>3, <1>4 DEF ContentsAreStored

LEMMA KeepsTransitive ==
  ASSUME NEW f, NEW h, NEW g, NEW k, NEW m, NEW n,
         Keeps(f, h, g, k), Keeps(g, k, m, n)
  PROVE  Keeps(f, h, m, n)
BY DEF Keeps

LEMMA RevisedKeeps ==
  ASSUME TypeOK, NEW p \in Path, NEW ts \in Time, NEW id \in FileId,
         CanRevise(p, ts, id), ts # files[p].ts
  PROVE  Keeps(files, history, RevisedFiles(p, ts, id), RevisedHistory(p, ts, id))
<1> DEFINE f == RevisedFiles(p, ts, id)
           h == RevisedHistory(p, ts, id)
           old == Older(p, ts, id)
<1>1. /\ files \in [Path -> Rows] /\ history \in [Path \X Time -> Ids]
      /\ files[p] # None /\ files[p].ts \in Time
  BY DEF TypeOK, CanRevise, Live, Rows, FileRow
<1>2. old.ts \in Time /\ history[<<p, old.ts>>] = None
  BY <1>1 DEF CanRevise, InHistory, Older
<1>3. \A q \in Path, t \in Time : q # p \/ t # old.ts => h[<<q, t>>] = history[<<q, t>>]
  BY <1>1, <1>2 DEF RevisedHistory
<1>4. h[<<p, old.ts>>] = old.id
  BY <1>1, <1>2 DEF RevisedHistory
<1>5. \A q \in Path : q # p => f[q] = files[q]
  BY <1>1 DEF RevisedFiles
<1>6. old.id = files[p].id \/ f[p] = files[p]
  BY <1>1 DEF RevisedFiles, Older, Newer
<1> HIDE DEF f, h, old
<1> SUFFICES ASSUME NEW x \in FileId, Stores(files, history, x)
             PROVE  Stores(f, h, x)
  BY DEF Keeps, f, h
<1>7. ASSUME NEW q \in Path, files[q] # None, files[q].id = x
      PROVE  Stores(f, h, x)
  BY <1>2, <1>4, <1>5, <1>6, <1>7 DEF Stores
<1>8. ASSUME NEW q \in Path, NEW t \in Time, history[<<q, t>>] = x
      PROVE  Stores(f, h, x)
  BY <1>2, <1>3, <1>8, NoneAssumption DEF Stores
<1> QED BY <1>7, <1>8 DEF Stores

(***************************************************************************)
(* The base of a forwarded write stays in history, at its own older stamp. *)
(***************************************************************************)
LEMMA ForwardedKeeps ==
  ASSUME NEW f \in [Path -> Rows], NEW h \in [Path \X Time -> Ids],
         NEW p \in Path, NEW ts \in Time, NEW id \in FileId
  PROVE  Keeps(f, h, ForwardedFiles(f, h, p, ts, id), ForwardedHistory(h, p, ts, id))
<1> DEFINE g == ForwardedFiles(f, h, p, ts, id)
           k == ForwardedHistory(h, p, ts, id)
<1> SUFFICES ASSUME NEW x \in FileId, Stores(f, h, x)
             PROVE  Stores(g, k, x)
  BY DEF Keeps
<1>1. CASE IsBase(h, p, ts, x)
  <2>1. PICK t \in Earlier(h, p, ts) : h[<<p, t>>] = x
    BY <1>1 DEF IsBase
  <2>2. t \in Time /\ t < ts
    BY <2>1 DEF Earlier
  <2>3. t \in Nat /\ ts \in Nat
    BY <2>2, TimeAssumption
  <2>4. k[<<p, t>>] = x
    BY <2>1, <2>2, <2>3 DEF ForwardedHistory
  <2> QED BY <2>2, <2>4 DEF Stores
<1>2. CASE ~IsBase(h, p, ts, x)
  <2>1. ASSUME NEW q \in Path, f[q] # None, f[q].id = x
        PROVE  g[q] = f[q]
    BY <1>2, <2>1 DEF ForwardedFiles
  <2>2. ASSUME NEW q \in Path, NEW t \in Time, h[<<q, t>>] = x
        PROVE  k[<<q, t>>] = x
    BY <1>2, <2>2 DEF ForwardedHistory
  <2> HIDE DEF g, k
  <2> QED BY <2>1, <2>2 DEF Stores
<1> QED BY <1>1, <1>2

LEMMA FiledKeeps ==
  ASSUME TypeOK, OneCopyPerVersion, NEW gone \in SUBSET Path, \A q \in gone : Live(q),
         NEW g, \A q \in Path : q \notin gone /\ Live(q) => g[q] = files[q]
  PROVE  Keeps(files, history, g, Filed(gone))
<1> SUFFICES ASSUME NEW x \in FileId, Stores(files, history, x)
             PROVE  Stores(g, Filed(gone), x)
  BY DEF Keeps
<1>1. ASSUME NEW q \in Path, files[q] # None, files[q].id = x
      PROVE  Stores(g, Filed(gone), x)
  <2>1. files[q].ts \in Time
    BY <1>1 DEF TypeOK, Rows, FileRow
  <2>2. CASE q \in gone
    <3>1. Filed(gone)[<<q, files[q].ts>>] = x
      BY <1>1, <2>1, <2>2 DEF Filed
    <3> QED BY <2>1, <3>1 DEF Stores
  <2>3. CASE q \notin gone
    BY <1>1, <2>3 DEF Stores, Live
  <2> QED BY <2>2, <2>3
<1>2. ASSUME NEW q \in Path, NEW t \in Time, history[<<q, t>>] = x
      PROVE  Stores(g, Filed(gone), x)
  <2>1. x # None
    BY NoneAssumption
  <2>2. ~(q \in gone /\ files[q].ts = t)
    BY <1>2, <2>1 DEF OneCopyPerVersion, InHistory
  <2>3. Filed(gone)[<<q, t>>] = x
    BY <1>2, <2>2 DEF Filed
  <2> QED BY <2>3 DEF Stores
<1> QED BY <1>1, <1>2 DEF Stores

-----------------------------------------------------------------------------
(***************************************************************************)
(* An apply in progress has lost no content of the tables it found.        *)
(***************************************************************************)
ApplyKeeps == ~Idle => Keeps(applying.files, applying.history, files, history)

(***************************************************************************)
(* What no step may do to the rows: drop a content.                        *)
(***************************************************************************)
LEMMA CreateKeeps ==
  ASSUME FreshInv, NEW p \in Path, NEW ts \in Time, Take(ts), Create(p, ts)
  PROVE  Keeps(files, history, files', history')
<1>1. ~Known(files, history, p, ts) /\ TypeOK /\ CreateId(ts) \in FileId
  BY IdTypes DEF FreshInv, StampsUsed, Take
<1>2. CASE Revise(p, ts, CreateId(ts))
  BY <1>1, <1>2, RevisedKeeps DEF Revise, CanRevise, Live, Known
<1>3. CASE ~Live(p) /\ files' = [files EXCEPT ![p] = [ts |-> ts, id |-> CreateId(ts)]]
                    /\ history' = history
  BY <1>1, <1>3 DEF Keeps, Stores, Live, TypeOK
<1> QED BY <1>2, <1>3 DEF Create

LEMMA ChmodKeeps ==
  ASSUME FreshInv, NEW p \in Path, NEW ts \in Time, Take(ts), Chmod(p, ts)
  PROVE  Keeps(files, history, files', history')
<1>1. ~Known(files, history, p, ts) /\ TypeOK /\ files[p].id \in FileId /\ Live(p)
  BY DEF FreshInv, StampsUsed, Take, Chmod, Live, TypeOK, Rows, FileRow
<1> QED BY <1>1, RevisedKeeps DEF Chmod, Revise, CanRevise, Live, Known

LEMMA WriteKeeps ==
  ASSUME FreshInv, NEW p \in Path, NEW ts \in Time, Take(ts), Write(p, ts)
  PROVE  Keeps(files, history, files', history')
<1> DEFINE id == WriteId(p, ts)
<1>1. /\ ~Known(files, history, p, ts) /\ TypeOK /\ id \in FileId
      /\ files \in [Path -> Rows] /\ history \in [Path \X Time -> Ids]
  BY IdTypes DEF FreshInv, StampsUsed, Take, TypeOK
<1>2. WriteLive(p, ts, id) \/ WriteSuperseded(p, ts, id)
  BY DEF Write
<1> HIDE DEF id
<1>3. CASE WriteLive(p, ts, id)
  <2> DEFINE f == RevisedFiles(p, ts, id)
             h == RevisedHistory(p, ts, id)
  <2>1. /\ CanRevise(p, ts, id)
        /\ files' = ForwardedFiles(f, h, p, ts, id)
        /\ history' = ForwardedHistory(h, p, ts, id)
    BY <1>3 DEF WriteLive
  <2>2. f \in [Path -> Rows] /\ h \in [Path \X Time -> Ids]
    BY <1>1, <2>1, RevisedType DEF CanRevise
  <2>3. Keeps(files, history, f, h)
    BY <1>1, <2>1, RevisedKeeps DEF CanRevise, Live, Known
  <2> HIDE DEF f, h
  <2>4. Keeps(f, h, files', history')
    BY <1>1, <2>1, <2>2, ForwardedKeeps
  <2> QED BY <2>3, <2>4, KeepsTransitive
<1>4. CASE WriteSuperseded(p, ts, id)
  <2> DEFINE h == [history EXCEPT ![<<p, ts>>] = id]
  <2>1. /\ ~InHistory(p, ts)
        /\ files' = ForwardedFiles(files, h, p, ts, id)
        /\ history' = ForwardedHistory(h, p, ts, id)
    BY <1>4 DEF WriteSuperseded
  <2>2. h \in [Path \X Time -> Ids]
    BY <1>1 DEF Ids
  <2>3. \A q \in Path, t \in Time : history[<<q, t>>] # None
                                      => h[<<q, t>>] = history[<<q, t>>]
    BY <1>1, <2>1 DEF InHistory
  <2> HIDE DEF h
  <2>4. Keeps(files, history, files, h)
    BY <2>3, NoneAssumption DEF Keeps, Stores
  <2>5. Keeps(files, h, files', history')
    BY <1>1, <2>1, <2>2, ForwardedKeeps
  <2> QED BY <2>4, <2>5, KeepsTransitive
<1> QED BY <1>2, <1>3, <1>4

LEMMA ReplayKeeps ==
  ASSUME FreshInv, NEW t \in Time, ApplyMove(t) \/ ApplyDelete(t)
  PROVE  Keeps(files, history, files', history')
<1> DEFINE c == changes[t]
<1>1. TypeOK /\ OneCopyPerVersion /\ c # None
  BY DEF FreshInv, ApplyMove, ApplyDelete, NextDue, Due
<1>2. Landed(c, t) \subseteq Path /\ \A q \in Hit(c, t) : q \in Path /\ Live(q)
  BY <1>1, HitType
<1>3. CASE ApplyMove(t)
  <2> DEFINE gone == Hit(c, t) \cup {q \in Landed(c, t) : Live(q)}
  <2>1. gone \in SUBSET Path /\ \A q \in gone : Live(q)
    BY <1>2
  <2>2. history' = Filed(gone)
    BY <1>3 DEF ApplyMove
  <2>3. \A q \in Path : q \notin gone /\ Live(q) => files'[q] = files[q]
    BY <1>3 DEF ApplyMove
  <2> HIDE DEF gone, c
  <2> QED BY <1>1, <2>1, <2>2, <2>3, FiledKeeps
<1>4. CASE ApplyDelete(t)
  <2> DEFINE gone == Hit(c, t)
  <2>1. gone \in SUBSET Path /\ \A q \in gone : Live(q)
    BY <1>2
  <2>2. history' = Filed(gone)
    BY <1>4 DEF ApplyDelete
  <2>3. \A q \in Path : q \notin gone /\ Live(q) => files'[q] = files[q]
    BY <1>4 DEF ApplyDelete
  <2> HIDE DEF gone, c
  <2> QED BY <1>1, <2>1, <2>2, <2>3, FiledKeeps
<1> QED BY <1>3, <1>4

(***************************************************************************)
(* One step, seen from the rows and from what is committed of them.        *)
(***************************************************************************)
LEMMA RequestOrReplay ==
  ASSUME FreshInv, [FreshNext]_freshVars
  PROVE  \/ /\ applying' = applying
            /\ applying = None
            /\ Keeps(files, history, files', history')
         \/ /\ applying # None /\ applying' # None
            /\ applying'.files = applying.files /\ applying'.history = applying.history
            /\ Keeps(files, history, files', history')
         \/ /\ applying = None /\ applying' # None /\ UNCHANGED <<files, history>>
            /\ applying'.files = files /\ applying'.history = history
         \/ /\ applying # None /\ applying' = None /\ UNCHANGED <<files, history>>
         \/ UNCHANGED <<files, history, applying>>
<1>1. CASE \E p \in Path, ts \in Time :
             Take(ts) /\ (Create(p, ts) \/ Chmod(p, ts) \/ Write(p, ts))
  BY <1>1, CreateKeeps, ChmodKeeps, WriteKeeps DEF Create, Chmod, Write, Idle
<1>2. CASE \E ts \in Time : ApplyBegin(ts)
  <2>1. PICK ts \in Time : ApplyBegin(ts)
    BY <1>2
  <2>2. applying' \in Image
    BY <2>1 DEF ApplyBegin, FreshInv, TypeOK, Image
  <2> QED BY <2>1, <2>2, ImageNotNone DEF ApplyBegin, Idle
<1>3. CASE \E t \in Time : ApplyMove(t) \/ ApplyDelete(t)
  <2>1. PICK t \in Time : ApplyMove(t) \/ ApplyDelete(t)
    BY <1>3
  <2>2. applying \in Image /\ applying # None /\ applying' = [applying EXCEPT !.done = t]
    BY <2>1 DEF ApplyMove, ApplyDelete, Idle, FreshInv, TypeOK
  <2>3. /\ applying' \in Image
        /\ applying'.files = applying.files /\ applying'.history = applying.history
    BY <2>2 DEF Image
  <2> QED BY <2>1, <2>2, <2>3, ImageNotNone, ReplayKeeps
<1>4. CASE ApplyCommit
  BY <1>4 DEF ApplyCommit, Idle
<1>5. CASE UNCHANGED freshVars
  BY <1>5 DEF freshVars
<1>6. CASE \E p \in Path, ts \in Time : Remove(p, ts)
  BY <1>6 DEF Remove, Record
<1>7. CASE \E m \in Moves, ts \in Time : Move(m[1], m[2], ts)
  BY <1>7 DEF Move, Record
<1> QED BY <1>1, <1>2, <1>3, <1>4, <1>5, <1>6, <1>7, NoAbort DEF FreshNext

LEMMA ApplyKeepsStep ==
  ASSUME FreshInv, ApplyKeeps, [FreshNext]_freshVars
  PROVE  ApplyKeeps'
BY RequestOrReplay, KeepsTransitive DEF ApplyKeeps, Keeps, Idle

LEMMA ContentsStep ==
  ASSUME FreshInv, FreshInv', ApplyKeeps, [FreshNext]_freshVars
  PROVE  Contents \subseteq Contents'
<1>1. ContentsAreStored /\ ContentsAreStored'
  BY ContentsStored, PTL DEF FreshInv
<1>2. Keeps(CommittedFiles, CommittedHistory, CommittedFiles', CommittedHistory')
  BY RequestOrReplay
     DEF ApplyKeeps, Keeps, CommittedFiles, CommittedHistory, Idle
<1> QED BY <1>1, <1>2 DEF ContentsAreStored, Keeps

(***************************************************************************)
(* The theorem: whatever the order in which writes, renames, removals and  *)
(* applies arrive, a content that was stored stays stored.                 *)
(***************************************************************************)
THEOREM ContentsNeverLost == FreshSpec => ContentsKept
<1>1. FreshInit => ApplyKeeps
  BY DEF FreshInit, Init, ApplyKeeps, Idle
<1>2. FreshInv /\ FreshInv' /\ ApplyKeeps /\ [FreshNext]_freshVars
        => [Contents \subseteq Contents']_freshVars
  BY ContentsStep
<1>3. FreshInv /\ ApplyKeeps /\ [FreshNext]_freshVars => ApplyKeeps'
  BY ApplyKeepsStep
<1> QED BY FreshStart, FreshStep, <1>1, <1>2, <1>3, PTL DEF FreshSpec, ContentsKept

-----------------------------------------------------------------------------
(***************************************************************************)
(* A path of the tables f and h has a version with the content id.         *)
(***************************************************************************)
Carries(f, h, q, id) == (f[q] # None /\ f[q].id = id) \/ \E t \in Time : h[<<q, t>>] = id

(***************************************************************************)
(* No content is on both sides of the border of S, nor on the side it was  *)
(* not written to.                                                         *)
(***************************************************************************)
Sided(f, h, S) ==
  \A q \in Path, id \in FileId : Carries(f, h, q, id) =>
    /\ id[2] = Created \/ (id[2] \in S <=> q \in S)
    /\ \A p \in Path : Carries(f, h, p, id) => (p \in S <=> q \in S)

(***************************************************************************)
(* All that g and k carry comes from the same side of the border in f, h.  *)
(***************************************************************************)
Spreads(f, h, g, k, S) ==
  \A q \in Path, id \in FileId : Carries(g, k, q, id) =>
    \E p \in Path : Carries(f, h, p, id) /\ (p \in S <=> q \in S)

(* All that g and k carry was where it is in f and h, but for id at p. *)
Adds(f, h, g, k, p, id) ==
  \A q \in Path, x \in FileId :
    Carries(g, k, q, x) => Carries(f, h, q, x) \/ (q = p /\ x = id)

(***************************************************************************)
(* The invariant: content keeps to its side of every closed set, and every *)
(* file_id carries a stamp already used, so that a new one is at no path.  *)
(***************************************************************************)
Contained(f, h, stamps) ==
  /\ \A S \in SUBSET Path : Closed(S) => Sided(f, h, S)
  /\ \A q \in Path, id \in FileId : Carries(f, h, q, id) => id[1] \in stamps

ContentInv == Contained(files, history, used)

LEMMA SpreadsSided ==
  ASSUME NEW f, NEW h, NEW g, NEW k, NEW S, Sided(f, h, S), Spreads(f, h, g, k, S)
  PROVE  Sided(g, k, S)
<1> SUFFICES ASSUME NEW q \in Path, NEW id \in FileId, Carries(g, k, q, id)
             PROVE  /\ id[2] = Created \/ (id[2] \in S <=> q \in S)
                    /\ \A p \in Path : Carries(g, k, p, id) => (p \in S <=> q \in S)
  BY DEF Sided
<1>1. PICK o \in Path : Carries(f, h, o, id) /\ (o \in S <=> q \in S)
  BY DEF Spreads
<1>2. ASSUME NEW p \in Path, Carries(g, k, p, id)
      PROVE  p \in S <=> q \in S
  <2>1. PICK r \in Path : Carries(f, h, r, id) /\ (r \in S <=> p \in S)
    BY <1>2 DEF Spreads
  <2> QED BY <1>1, <2>1 DEF Sided
<1> QED BY <1>1, <1>2 DEF Sided

LEMMA AddsSided ==
  ASSUME NEW f, NEW h, NEW g, NEW k, NEW S, NEW p \in Path, NEW id \in FileId,
         Sided(f, h, S), Adds(f, h, g, k, p, id),
         id[2] = Created \/ id[2] = p,
         \A q \in Path : ~Carries(f, h, q, id)
  PROVE  Sided(g, k, S)
<1> SUFFICES ASSUME NEW q \in Path, NEW x \in FileId, Carries(g, k, q, x)
             PROVE  /\ x[2] = Created \/ (x[2] \in S <=> q \in S)
                    /\ \A r \in Path : Carries(g, k, r, x) => (r \in S <=> q \in S)
  BY DEF Sided
<1>1. CASE x = id
  BY <1>1 DEF Adds
<1>2. CASE x # id
  BY <1>2 DEF Adds, Sided
<1> QED BY <1>1, <1>2

LEMMA RevisedAdds ==
  ASSUME TypeOK, NEW p \in Path, NEW ts \in Time, NEW id \in FileId, CanRevise(p, ts, id)
  PROVE  /\ Adds(files, history, RevisedFiles(p, ts, id), RevisedHistory(p, ts, id), p, id)
         /\ Carries(RevisedFiles(p, ts, id), RevisedHistory(p, ts, id), p, id)
<1> DEFINE f == RevisedFiles(p, ts, id)
           h == RevisedHistory(p, ts, id)
<1>1. /\ files \in [Path -> Rows] /\ history \in [Path \X Time -> Ids]
      /\ files[p] # None /\ files[p].ts \in Time /\ files[p].id \in FileId
  BY DEF TypeOK, CanRevise, Live, Rows, FileRow
<1>2. [ts |-> ts, id |-> id] # None
  BY NoneAssumption DEF FileRow
<1>3. ASSUME NEW q \in Path, NEW x \in FileId, Carries(f, h, q, x)
      PROVE  Carries(files, history, q, x) \/ (q = p /\ x = id)
  <2>1. CASE f[q] # None /\ f[q].id = x
    BY <1>1, <2>1 DEF RevisedFiles, Newer, Carries
  <2>2. CASE \E t \in Time : h[<<q, t>>] = x
    <3>1. PICK t \in Time : h[<<q, t>>] = x
      BY <2>2
    <3> QED BY <1>1, <3>1 DEF RevisedHistory, Older, Carries
  <2> QED BY <1>3, <2>1, <2>2 DEF Carries
<1>4. Carries(f, h, p, id)
  <2>1. CASE ts < files[p].ts
    <3>1. ts # files[p].ts
      BY <1>1, <2>1, TimeAssumption
    <3>2. h[<<p, ts>>] = id
      BY <1>1, <2>1, <3>1 DEF RevisedHistory, Older
    <3> QED BY <3>2 DEF Carries
  <2>2. CASE ~(ts < files[p].ts)
    BY <1>1, <1>2, <2>2 DEF RevisedFiles, Newer, Carries
  <2> QED BY <2>1, <2>2
<1> QED BY <1>3, <1>4 DEF Adds

(***************************************************************************)
(* Forwarding takes a content only where its base is, and the base is on   *)
(* the side of the path written to.                                        *)
(***************************************************************************)
LEMMA ForwardedSpreads ==
  ASSUME NEW f \in [Path -> Rows], NEW h \in [Path \X Time -> Ids],
         NEW p \in Path, NEW ts \in Time, NEW id \in FileId, NEW S,
         Carries(f, h, p, id), Sided(f, h, S)
  PROVE  Spreads(f, h, ForwardedFiles(f, h, p, ts, id),
                       ForwardedHistory(h, p, ts, id), S)
<1> DEFINE g == ForwardedFiles(f, h, p, ts, id)
           k == ForwardedHistory(h, p, ts, id)
<1>1. ASSUME NEW q \in Path, NEW x \in FileId, IsBase(h, p, ts, x), Carries(f, h, q, x)
      PROVE  p \in S <=> q \in S
  <2>1. PICK t \in Earlier(h, p, ts) : h[<<p, t>>] = x
    BY <1>1 DEF IsBase
  <2>2. Carries(f, h, p, x)
    BY <2>1 DEF Carries, Earlier
  <2> QED BY <1>1, <2>2 DEF Sided
<1>2. ASSUME NEW q \in Path, NEW x \in FileId, Carries(g, k, q, x)
      PROVE  Carries(f, h, q, x) \/ (x = id /\ (p \in S <=> q \in S))
  <2>1. CASE g[q] # None /\ g[q].id = x
    <3>1. f[q] # None /\ f[q].id \in FileId
      BY <2>1 DEF ForwardedFiles, Rows, FileRow
    <3>2. Carries(f, h, q, f[q].id)
      BY <3>1 DEF Carries
    <3>3. IsBase(h, p, ts, f[q].id) \/ f[q].id = x
      BY <2>1 DEF ForwardedFiles
    <3>4. f[q].id = x \/ x = id
      BY <2>1 DEF ForwardedFiles
    <3> QED BY <1>1, <3>1, <3>2, <3>3, <3>4
  <2>2. CASE \E t \in Time : k[<<q, t>>] = x
    <3>1. PICK t \in Time : k[<<q, t>>] = x
      BY <2>2
    <3>2. x # None
      BY NoneAssumption
    <3>3. h[<<q, t>>] # None /\ h[<<q, t>>] \in FileId
      BY <3>1, <3>2 DEF ForwardedHistory, Ids
    <3>4. Carries(f, h, q, h[<<q, t>>])
      BY DEF Carries
    <3>5. IsBase(h, p, ts, h[<<q, t>>]) \/ h[<<q, t>>] = x
      BY <3>1 DEF ForwardedHistory
    <3>6. h[<<q, t>>] = x \/ x = id
      BY <3>1 DEF ForwardedHistory
    <3> QED BY <1>1, <3>3, <3>4, <3>5, <3>6
  <2> QED BY <1>2, <2>1, <2>2 DEF Carries
<1> HIDE DEF g, k
<1>3. Spreads(f, h, g, k, S)
  BY <1>2 DEF Spreads
<1> QED BY <1>3 DEF g, k

LEMMA FiledSpreads ==
  ASSUME TypeOK, NEW gone \in SUBSET Path, \A q \in gone : Live(q),
         NEW q \in Path, NEW t \in Time, NEW x \in FileId, Filed(gone)[<<q, t>>] = x
  PROVE  Carries(files, history, q, x)
BY DEF Filed, Carries, Live

LEMMA AddsContained ==
  ASSUME ContentInv, NEW p \in Path, NEW ts \in Time, Take(ts),
         NEW id \in FileId, id[1] = ts, id[2] = Created \/ id[2] = p,
         NEW f, NEW h, Adds(files, history, f, h, p, id)
  PROVE  Contained(f, h, used')
<1>1. \A q \in Path : ~Carries(files, history, q, id)
  BY DEF ContentInv, Contained, Take
<1>2. \A S \in SUBSET Path : Closed(S) => Sided(f, h, S)
  BY <1>1, AddsSided DEF ContentInv, Contained
<1>3. \A q \in Path, x \in FileId : Carries(f, h, q, x) => x[1] \in used'
  BY DEF ContentInv, Contained, Adds, Take
<1> QED BY <1>2, <1>3 DEF Contained

LEMMA SpreadsContained ==
  ASSUME NEW f, NEW h, Contained(f, h, used'), changes' = changes,
         \A S \in SUBSET Path : Closed(S) => Spreads(f, h, files', history', S)
  PROVE  ContentInv'
<1>1. \A S : Closed(S)' <=> Closed(S)
  BY DEF Closed
<1>2. \A S \in SUBSET Path : Closed(S) => Sided(files', history', S)
  BY SpreadsSided DEF Contained
<1>3. Spreads(f, h, files', history', {})
  BY DEF Closed
<1>4. \A q \in Path, x \in FileId : Carries(files', history', q, x) => x[1] \in used'
  BY <1>3 DEF Spreads, Contained
<1> QED BY <1>1, <1>2, <1>4 DEF ContentInv, Contained

(***************************************************************************)
(* A step that adds no content anywhere.                                   *)
(***************************************************************************)
LEMMA NothingAdded ==
  ASSUME ContentInv, used \subseteq used', changes' = changes,
         \A q \in Path, x \in FileId :
           Carries(files', history', q, x) => Carries(files, history, q, x)
  PROVE  ContentInv'
<1>1. Contained(files, history, used')
  BY DEF ContentInv, Contained
<1>2. \A S \in SUBSET Path : Spreads(files, history, files', history', S)
  BY DEF Spreads
<1> QED BY <1>1, <1>2, SpreadsContained

LEMMA CreateContained ==
  ASSUME TypeOK, ContentInv, NEW p \in Path, NEW ts \in Time, Take(ts), Create(p, ts)
  PROVE  ContentInv'
<1> DEFINE id == CreateId(ts)
<1>1. id \in FileId /\ id[1] = ts /\ id[2] = Created /\ changes' = changes
  BY IdTypes DEF Create, CreateId
<1>2. Adds(files, history, files', history', p, id)
  <2>1. CASE Revise(p, ts, id)
    BY <1>1, <2>1, RevisedAdds DEF Revise
  <2>2. CASE files' = [files EXCEPT ![p] = [ts |-> ts, id |-> id]] /\ history' = history
    BY <2>2 DEF Adds, Carries, TypeOK
  <2> QED BY <2>1, <2>2 DEF Create
<1> HIDE DEF id
<1>3. Contained(files', history', used')
  BY <1>1, <1>2, AddsContained
<1>4. \A S \in SUBSET Path : Spreads(files', history', files', history', S)
  BY DEF Spreads
<1> QED BY <1>1, <1>3, <1>4, SpreadsContained

LEMMA ChmodContained ==
  ASSUME TypeOK, ContentInv, NEW p \in Path, NEW ts \in Time, Take(ts), Chmod(p, ts)
  PROVE  ContentInv'
<1>1. files[p] # None /\ files[p].id \in FileId /\ changes' = changes
  BY DEF Chmod, Live, TypeOK, Rows, FileRow
<1>2. Adds(files, history, files', history', p, files[p].id)
  BY <1>1, RevisedAdds DEF Chmod, Revise
<1>3. Carries(files, history, p, files[p].id)
  BY <1>1 DEF Carries
<1> QED BY <1>1, <1>2, <1>3, NothingAdded DEF Adds, Take

LEMMA WriteContained ==
  ASSUME TypeOK, ContentInv, NEW p \in Path, NEW ts \in Time, Take(ts), Write(p, ts)
  PROVE  ContentInv'
<1> DEFINE id == WriteId(p, ts)
<1>1. id \in FileId /\ id[1] = ts /\ id[2] = p /\ changes' = changes
  BY IdTypes DEF Write, WriteId
<1>2. WriteLive(p, ts, id) \/ WriteSuperseded(p, ts, id)
  BY DEF Write
<1>3. files \in [Path -> Rows] /\ history \in [Path \X Time -> Ids]
  BY DEF TypeOK
<1> HIDE DEF id
<1>4. ASSUME NEW f \in [Path -> Rows], NEW h \in [Path \X Time -> Ids],
             Adds(files, history, f, h, p, id), Carries(f, h, p, id),
             files' = ForwardedFiles(f, h, p, ts, id),
             history' = ForwardedHistory(h, p, ts, id)
      PROVE  ContentInv'
  <2>1. Contained(f, h, used')
    BY <1>1, <1>4, AddsContained
  <2>2. \A S \in SUBSET Path : Closed(S) => Spreads(f, h, files', history', S)
    BY <1>1, <1>4, <2>1, ForwardedSpreads DEF Contained
  <2> QED BY <1>1, <2>1, <2>2, SpreadsContained
<1>5. CASE WriteLive(p, ts, id)
  <2> DEFINE f == RevisedFiles(p, ts, id)
             h == RevisedHistory(p, ts, id)
  <2>1. /\ CanRevise(p, ts, id)
        /\ files' = ForwardedFiles(f, h, p, ts, id)
        /\ history' = ForwardedHistory(h, p, ts, id)
    BY <1>5 DEF WriteLive
  <2>2. f \in [Path -> Rows] /\ h \in [Path \X Time -> Ids]
    BY <1>1, <1>3, <2>1, RevisedType DEF CanRevise
  <2>3. Adds(files, history, f, h, p, id) /\ Carries(f, h, p, id)
    BY <1>1, <2>1, RevisedAdds
  <2> HIDE DEF f, h
  <2> QED BY <1>4, <2>1, <2>2, <2>3
<1>6. CASE WriteSuperseded(p, ts, id)
  <2> DEFINE h == [history EXCEPT ![<<p, ts>>] = id]
  <2>1. /\ files' = ForwardedFiles(files, h, p, ts, id)
        /\ history' = ForwardedHistory(h, p, ts, id)
    BY <1>6 DEF WriteSuperseded
  <2>2. h \in [Path \X Time -> Ids]
    BY <1>1, <1>3 DEF Ids
  <2>3. Adds(files, history, files, h, p, id) /\ Carries(files, h, p, id)
    BY <1>3 DEF Adds, Carries
  <2> HIDE DEF h
  <2> QED BY <1>3, <1>4, <2>1, <2>2, <2>3
<1> QED BY <1>2, <1>5, <1>6

(***************************************************************************)
(* A rename takes content from a path to one on the same side.             *)
(***************************************************************************)
LEMMA MoveContained ==
  ASSUME TypeOK, ContentInv, NEW t \in Time, ApplyMove(t), used' = used
  PROVE  ContentInv'
<1> DEFINE c      == changes[t]
           hit    == Hit(c, t)
           landed == Landed(c, t)
           gone   == hit \cup {q \in landed : Live(q)}
<1>1. c # None /\ c.kind = "move" /\ changes' = changes
  BY DEF ApplyMove, NextDue, Due
<1>2. /\ \A q \in hit : q \in Path /\ Live(q)
      /\ landed \subseteq Path
      /\ \A q \in landed : Origin(c, t, q) \in hit /\ Dest(c, Origin(c, t, q)) = q
  BY <1>1, HitType
<1>3. gone \in SUBSET Path /\ \A q \in gone : Live(q)
  BY <1>2
<1>4. history' = Filed(gone)
  BY DEF ApplyMove
<1>5. \A q \in hit : Covers(c.path, q)
  BY DEF Hit
<1>6. \A q \in Path : files'[q] = IF q \in landed
                                  THEN [ts |-> t, id |-> files[Origin(c, t, q)].id]
                                  ELSE IF q \in hit THEN None ELSE files[q]
  BY DEF ApplyMove
<1> HIDE DEF hit, landed, gone
<1>7. ASSUME NEW S \in SUBSET Path, Closed(S)
      PROVE  Spreads(files, history, files', history', S)
  <2> SUFFICES ASSUME NEW q \in Path, NEW x \in FileId, Carries(files', history', q, x)
               PROVE  \E p \in Path : Carries(files, history, p, x)
                                        /\ (p \in S <=> q \in S)
    BY DEF Spreads
  <2>1. CASE \E u \in Time : history'[<<q, u>>] = x
    <3>1. PICK u \in Time : history'[<<q, u>>] = x
      BY <2>1
    <3>2. Carries(files, history, q, x)
      BY <1>3, <1>4, <3>1, FiledSpreads
    <3> QED BY <3>2
  <2>2. CASE files'[q] # None /\ files'[q].id = x /\ q \in landed
    <3> DEFINE o == Origin(c, t, q)
    <3>1. o \in Path /\ Live(o) /\ Covers(c.path, o) /\ Dest(c, o) = q
      BY <1>2, <1>5, <2>2
    <3>2. files[o].id = x
      <4>1. files'[q] = [ts |-> t, id |-> files[o].id]
        BY <1>6, <2>2
      <4> HIDE DEF o
      <4>2. files'[q].id = files[o].id
        BY <4>1
      <4> QED BY <2>2, <4>2
    <3>3. Carries(files, history, o, x)
      BY <3>1, <3>2 DEF Carries, Live
    <3>4. o \in S <=> q \in S
      BY <1>1, <1>7, <3>1 DEF Closed, Dest
    <3> QED BY <3>1, <3>3, <3>4
  <2>3. CASE files'[q] # None /\ files'[q].id = x /\ q \notin landed
    <3>1. files'[q] = files[q]
      BY <1>6, <2>3
    <3>2. Carries(files, history, q, x)
      BY <2>3, <3>1 DEF Carries
    <3> QED BY <3>2
  <2> QED BY <2>1, <2>2, <2>3 DEF Carries
<1> HIDE DEF c
<1> QED BY <1>1, <1>7, SpreadsContained DEF ContentInv

LEMMA DeleteContained ==
  ASSUME TypeOK, ContentInv, NEW t \in Time, ApplyDelete(t), used' = used
  PROVE  ContentInv'
<1> DEFINE gone == Hit(changes[t], t)
<1>1. changes[t] # None /\ changes' = changes /\ history' = Filed(gone)
  BY DEF ApplyDelete, NextDue, Due
<1>2. gone \in SUBSET Path /\ \A q \in gone : Live(q)
  BY <1>1, HitType
<1>3. \A q \in Path : files'[q] # None => files'[q] = files[q]
  BY DEF ApplyDelete
<1> HIDE DEF gone
<1>4. ASSUME NEW q \in Path, NEW x \in FileId, Carries(files', history', q, x)
      PROVE  Carries(files, history, q, x)
  <2>1. CASE files'[q] # None /\ files'[q].id = x
    BY <1>3, <2>1 DEF Carries
  <2>2. CASE \E u \in Time : history'[<<q, u>>] = x
    BY <1>1, <1>2, <2>2, FiledSpreads
  <2> QED BY <1>4, <2>1, <2>2 DEF Carries
<1> QED BY <1>1, <1>4, NothingAdded

(***************************************************************************)
(* A change taken note of can only take closed sets away.                  *)
(***************************************************************************)
LEMMA RecordContained ==
  ASSUME TypeOK, ContentInv, NEW ts \in Time, NEW c, Take(ts), Record(ts, c)
  PROVE  ContentInv'
<1>1. /\ files' = files /\ history' = history /\ used \subseteq used'
      /\ changes[ts] = None /\ changes' = [changes EXCEPT ![ts] = c]
  BY DEF Record, Take
<1>2. \A t \in Time : changes[t] # None => changes'[t] = changes[t]
  BY <1>1 DEF TypeOK
<1>3. \A S \in SUBSET Path : Closed(S)' => Closed(S)
  BY <1>2 DEF Closed
<1> QED BY <1>1, <1>3 DEF ContentInv, Contained

LEMMA ContentStep ==
  ASSUME FreshInv, ContentInv, [FreshNext]_freshVars
  PROVE  ContentInv'
<1>1. TypeOK
  BY DEF FreshInv
<1>2. CASE \E p \in Path, ts \in Time :
             Take(ts) /\ (Create(p, ts) \/ Chmod(p, ts) \/ Write(p, ts))
  BY <1>1, <1>2, CreateContained, ChmodContained, WriteContained
<1>3. CASE \E p \in Path, ts \in Time : Take(ts) /\ Remove(p, ts)
  BY <1>1, <1>3, RecordContained DEF Remove
<1>4. CASE \E m \in Moves, ts \in Time : Take(ts) /\ Move(m[1], m[2], ts)
  BY <1>1, <1>4, RecordContained DEF Move
<1>5. CASE UNCHANGED <<files, history, changes, used>>
  BY <1>5, NothingAdded
<1>6. CASE \E ts \in Time : (ApplyMove(ts) \/ ApplyDelete(ts)) /\ UNCHANGED used
  BY <1>1, <1>6, MoveContained, DeleteContained
<1> QED BY <1>2, <1>3, <1>4, <1>5, <1>6, NoAbort
        DEF FreshNext, freshVars, ApplyBegin, ApplyCommit

LEMMA ContentMeans ==
  ASSUME TypeOK, ContentInv
  PROVE  ContentFollowsRenames
<1>1. ASSUME NEW q \in Path, NEW id \in ContentAt(q)
      PROVE  id \in FileId /\ Carries(files, history, q, id)
  <2>1. CASE \E t \in Time : id = history[<<q, t>>] /\ id # None
    BY <2>1 DEF TypeOK, Ids, Carries
  <2>2. CASE files[q] # None /\ id = files[q].id
    BY <2>2 DEF TypeOK, Rows, FileRow, Carries
  <2> QED BY <1>1, <2>1, <2>2 DEF ContentAt
<1> SUFFICES ASSUME NEW q \in Path, NEW id \in ContentAt(q)
             PROVE  /\ id[2] = Created \/ Connected(id[2], q)
                    /\ \A p \in Path : id \in ContentAt(p) => Connected(p, q)
  BY DEF ContentFollowsRenames
<1>2. id \in FileId /\ Carries(files, history, q, id)
  BY <1>1
<1>3. \A S \in SUBSET Path : Closed(S) => Sided(files, history, S)
  BY DEF ContentInv, Contained
<1>4. ASSUME id[2] # Created
      PROVE  Connected(id[2], q)
  BY <1>2, <1>3, <1>4 DEF Connected, Sided
<1>5. ASSUME NEW p \in Path, id \in ContentAt(p)
      PROVE  Connected(p, q)
  BY <1>1, <1>2, <1>3, <1>5 DEF Connected, Sided
<1> QED BY <1>4, <1>5

(***************************************************************************)
(* The theorem: late writes and renames never mix up the contents of files *)
(* that no rename connects, however alike they look in the tables.         *)
(***************************************************************************)
THEOREM ContentNeverStrays == FreshSpec => []ContentFollowsRenames
<1>1. FreshInit => ContentInv
  <2>1. FreshInit => \A q \in Path, id \in FileId : ~Carries(files, history, q, id)
    BY NoneAssumption DEF FreshInit, Init, Carries
  <2> QED BY <2>1 DEF ContentInv, Contained, Sided
<1>2. FreshInv /\ ContentInv => ContentFollowsRenames
  BY ContentMeans DEF FreshInv
<1> QED BY FreshStart, FreshStep, ContentStep, <1>1, <1>2, PTL DEF FreshSpec
=============================================================================
