-------------------------- MODULE AsyncSaverProofs --------------------------
(***************************************************************************)
(* Theorems about AsyncSaver, for every set of tensors, every number of    *)
(* saves, steps, metadata and prewarmings and every set of faults: the     *)
(* lock protocol of the saver, and what it gives on the way to a close.    *)
(* (AsyncSnapshotProofs goes on from here to what is written.)             *)
(*                                                                         *)
(* The argument: at any time at most one save has callbacks to run, the    *)
(* Last one, whose write future is, or is about to be, _write_future, and  *)
(* then no call of save() is between its acquire and the registration of   *)
(* its callback.  So the two fields of the lock are exactly what the       *)
(* trainer and that one save hold (LockInv), no release finds less than it *)
(* gives back, and nothing is left held when nothing is to run.  The       *)
(* acquire of a save therefore comes after the release of the save before, *)
(* whose write is then over (WriteInv): its outcome is known before        *)
(* another write is launched.                                              *)
(***************************************************************************)
EXTENDS AsyncSaver, TLAPS

(* What the sets of the model are to each other. *)
LEMMA Sorts ==
  /\ Saves \subseteq Nat \ {0} /\ Warmup \notin Saves /\ Stagings = Saves \union {Warmup}
  /\ 0 .. MaxSaves = Saves \union {0} /\ Warmup = 0
  /\ \A n \in 0 .. MaxSaves : n < MaxSaves => n + 1 \in Saves
  /\ \A n \in 0 .. MaxWarm : n < MaxWarm => n + 1 \in 0 .. MaxWarm
  /\ \A v \in Versions : v < MaxSteps => v + 1 \in Versions
  /\ \A m \in Metas : m <= MaxMeta => m + 1 \in Metas
  /\ NoMeta \notin Metas
  BY AsyncSaverAssumption DEF Saves, Stagings, Warmup, Versions, Metas, NoMeta

(* What a call on the staging lock leaves is again a number and two flags. *)
LockType == readers \in Nat /\ writer_active \in BOOLEAN /\ lock_error \in BOOLEAN

LEMMA LockTypes ==
  ASSUME LockType,
         \/ AcquireWrite \/ AcquireRead \/ ReleaseWrite \/ ReleaseRead \/ DowngradeWrite
         \/ UNCHANGED <<readers, writer_active, lock_error>>
  PROVE  LockType'
<1>1. readers' \in Nat
  BY DEF LockType, AcquireWrite, AcquireRead, ReleaseWrite, ReleaseRead, DowngradeWrite
<1>2. writer_active' \in BOOLEAN /\ lock_error' \in BOOLEAN
  BY Zenon DEF LockType, AcquireWrite, AcquireRead, ReleaseWrite, ReleaseRead, DowngradeWrite
<1> QED
  BY <1>1, <1>2 DEF LockType

(* What a file holds with one tensor more. *)
Data == UNION {[P -> Versions] : P \in SUBSET Parts}

With(data, p, v) == [q \in DOMAIN data \union {p} |-> IF q = p THEN v ELSE data[q]]

(* ... is again the contents of a file. *)
LEMMA WithType ==
  ASSUME NEW data \in Data, NEW p \in Parts, NEW v \in Versions
  PROVE  With(data, p, v) \in Data
<1>1. PICK P \in SUBSET Parts : data \in [P -> Versions]
  BY DEF Data
<1>2. With(data, p, v) \in [P \union {p} -> Versions]
  BY <1>1 DEF With
<1> QED
  BY <1>2 DEF Data

(* The files keep their type when one of them gets metadata or tensors.    *)
LEMMA FileTypes ==
  ASSUME NEW F \in [Saves -> Files], NEW s \in Saves
  PROVE  /\ F[s].data \in Data
         /\ \A m \in Metas \union {NoMeta} : [F EXCEPT ![s].meta = m] \in [Saves -> Files]
         /\ \A d \in Data : [F EXCEPT ![s].data = d] \in [Saves -> Files]
<1>1. Files = [data : Data, meta : Metas \union {NoMeta}]
  BY DEF Files, Data
<1> QED
  BY <1>1

(* ChildPart adds one tensor to one file. *)
LEMMA ChildPartFiles ==
  ASSUME NEW s \in Saves, NEW p \in Parts, ChildPart(s, p)
  PROVE  files' = [files EXCEPT ![s].data = With(files[s].data, p, buffer[p])]
  BY DEF ChildPart, With

(* Every step keeps the types.                                             *)
LEMMA TypeStep == ASSUME TypeOK, [Next]_vars PROVE TypeOK'
<1> USE Sorts DEF TypeOK, TrainerPcs, CallbackStates, Done,
        trainerVars, lockVars, stageVars, commVars, childVars
<1>1. CASE SaveCall \/ SaveAcquireTimeout \/ SaveStage \/ SaveArm \/ SaveReturn
  BY <1>1 DEF SaveCall, SaveAcquireTimeout, SaveStage, SaveArm, SaveReturn
<1>2. CASE SaveWarm \/ Prewarm \/ NewMetadata
  BY <1>2 DEF SaveWarm, Prewarm, NewMetadata
<1>3. CASE SaveAcquire \/ StepBegin
  <2>1. CASE SaveAcquire
    BY <2>1 DEF SaveAcquire, AcquireWrite
  <2>2. CASE StepBegin
    BY <2>2 DEF StepBegin, AcquireRead
  <2> QED
    BY <1>3, <2>1, <2>2
<1>4. ASSUME Abort, UNCHANGED <<carried, stageVars, info, cb, commVars, childVars>>
      PROVE  TypeOK'
  <2>1. LockType'
    BY <1>4, LockTypes, Zenon DEF Abort, LockType
  <2> QED
    BY <1>4, <2>1 DEF Abort, LockType
<1>5. CASE SavePrepareFails \/ SaveStageFails
  BY <1>4, <1>5 DEF SavePrepareFails, SaveStageFails
<1>6. CASE SaveCheckPrior
  <2>1. CASE Abort
    BY <1>4, <1>6, <2>1 DEF SaveCheckPrior, Abort
  <2>2. CASE prior' = 0 /\ tpc' = "prepare"
             /\ UNCHANGED <<cur, params, step, meta, sent, captured, carried, lockVars>>
    BY <1>6, <2>2 DEF SaveCheckPrior
  <2> QED
    BY <1>6, <2>1, <2>2 DEF SaveCheckPrior
<1>7. CASE SavePrepare
  <2>1. carried' \in [Saves -> Metas \union {NoMeta}]
    BY <1>7 DEF SavePrepare
  <2>2. captured' \in [Saves -> [data : [Parts -> Versions], meta : Metas]]
    BY <1>7 DEF SavePrepare
  <2> QED
    BY <1>7, <2>1, <2>2 DEF SavePrepare
<1>8. CASE SaveLaunch
  <2>1. CASE Abort
    BY <1>4, <1>8, <2>1 DEF SaveLaunch, Abort
  <2>2. CASE wf' = [wf EXCEPT ![cur] = "queued"] /\ tpc' = "arm"
             /\ UNCHANGED <<cur, params, step, meta, sent, prior, captured, carried, lockVars>>
    <3>1. wf' \in [Saves -> {"none", "queued", "running", "ok", "failed", "cancelled"}]
      BY <2>2
    <3>2. UNCHANGED <<stageVars, info, cb, cpc, childVars>>
      BY <1>8 DEF SaveLaunch
    <3> QED
      BY <2>2, <3>1, <3>2
  <2> QED
    BY <1>8, <2>1, <2>2 DEF SaveLaunch
<1>9. CASE StepEnd
  <2>1. LockType'
    BY <1>9, LockTypes, Zenon DEF StepEnd, LockType
  <2> QED
    BY <1>9, <2>1 DEF StepEnd, LockType
<1>10. ASSUME NEW p \in Parts, StepPart(p)
       PROVE  TypeOK'
  BY <1>10 DEF StepPart
<1>11. ASSUME NEW s \in Stagings, StageBegin(s) \/ StageDone(s, "ok") \/ StageDone(s, "failed")
       PROVE  TypeOK'
  <2>1. CASE StageBegin(s)
    BY <2>1 DEF StageBegin
  <2>2. ASSUME NEW outcome \in {"ok", "failed"}, StageDone(s, outcome)
        PROVE  TypeOK'
    BY <2>2 DEF StageDone
  <2> QED
    BY <1>11, <2>1, <2>2
<1>12. ASSUME NEW s \in Stagings, NEW p \in Parts, StagePart(s, p)
       PROVE  TypeOK'
  BY <1>12 DEF StagePart
<1>13. ASSUME NEW s \in Saves, BuildInfo(s)
       PROVE  TypeOK'
  <2>1. sf[s] \in {"ok", "failed"}
    BY <1>13 DEF BuildInfo
  <2> QED
    BY <1>13, <2>1 DEF BuildInfo
<1>14. ASSUME NEW s \in Saves, RunDowngrade(s) \/ RunRelease(s)
       PROVE  TypeOK'
  <2>1. LockType'
    BY <1>14, LockTypes, Zenon DEF RunDowngrade, RunRelease, LockType
  <2>2. CASE RunDowngrade(s)
    BY <2>1, <2>2 DEF RunDowngrade, LockType
  <2>3. CASE RunRelease(s)
    BY <2>1, <2>3 DEF RunRelease, LockType
  <2> QED
    BY <1>14, <2>2, <2>3
<1>15. ASSUME NEW s \in Saves, NEW outcome \in {"ok", "failed", "cancelled"}, WriteDone(s,
              outcome)
       PROVE  /\ wf' \in [Saves -> {"none", "queued", "running", "ok", "failed", "cancelled"}]
              /\ cb' \in [Saves -> CallbackStates]
  BY <1>15 DEF WriteDone
<1>16. ASSUME NEW s \in Saves, RunArm(s) \/ CommBegin(s)
       PROVE  TypeOK'
  <2>1. CASE RunArm(s)
    BY <2>1 DEF RunArm
  <2>2. CASE CommBegin(s)
    <3>1. /\ wf' \in [Saves -> {"none", "queued", "running", "ok", "failed", "cancelled"}]
          /\ cb' \in [Saves -> CallbackStates]
      BY <1>15, <2>2 DEF CommBegin
    <3> QED
      BY <2>2, <3>1 DEF CommBegin
  <2> QED
    BY <1>16, <2>1, <2>2
<1>17. ASSUME NEW s \in Saves, CommInfo(s) \/ CloseCancel(s)
       PROVE  TypeOK'
  <2>1. /\ wf' \in [Saves -> {"none", "queued", "running", "ok", "failed", "cancelled"}]
        /\ cb' \in [Saves -> CallbackStates]
    BY <1>15, <1>17 DEF CommInfo, CloseCancel
  <2> QED
    BY <1>17, <2>1 DEF CommInfo, CloseCancel
<1>18. ASSUME NEW s \in Saves, CommSend(s)
       PROVE  TypeOK'
  <2>1. /\ wf' \in [Saves -> {"none", "queued", "running", "ok", "failed", "cancelled"}]
        /\ cb' \in [Saves -> CallbackStates]
    BY <1>15, <1>18 DEF CommSend
  <2> QED
    BY <1>18, <2>1 DEF CommSend
<1>19. ASSUME NEW s \in Saves, CommRecv(s)
       PROVE  TypeOK'
  <2>1. /\ wf' \in [Saves -> {"none", "queued", "running", "ok", "failed", "cancelled"}]
        /\ cb' \in [Saves -> CallbackStates]
    BY <1>15, <1>19 DEF CommRecv
  <2> QED
    BY <1>19, <2>1 DEF CommRecv
<1>20. CASE Spawn \/ ChildStarts \/ Created \/ ChildFails \/ ChildCrash \/ ChildHangs
  BY <1>20 DEF Spawn, ChildStarts, Created, ChildFails, ChildCrash, ChildHangs
<1>21. ASSUME NEW s \in Saves, ChildTake(s)
       PROVE  TypeOK'
  <2>1. cache' \in Metas \union {NoMeta}
    BY <1>21 DEF ChildTake
  <2>2. files' \in [Saves -> Files]
    <3>1. files' = [files EXCEPT ![s].meta = cache']
      BY <1>21 DEF ChildTake
    <3> QED
      BY <2>1, <3>1, FileTypes
  <2> QED
    BY <1>21, <2>1, <2>2 DEF ChildTake
<1>22. ASSUME NEW s \in Saves, NEW p \in Parts, ChildPart(s, p)
       PROVE  TypeOK'
  <2>1. files[s].data \in Data /\ buffer[p] \in Versions
    BY FileTypes
  <2>2. files' \in [Saves -> Files]
    <3>1. With(files[s].data, p, buffer[p]) \in Data
      BY <2>1, WithType
    <3>2. files' = [files EXCEPT ![s].data = With(files[s].data, p, buffer[p])]
      BY <1>22, ChildPartFiles
    <3> QED
      BY <3>1, <3>2, FileTypes
  <2> QED
    BY <1>22, <2>2 DEF ChildPart
<1>23. ASSUME NEW s \in Saves, ChildAnswer(s)
       PROVE  TypeOK'
  BY <1>23 DEF ChildAnswer
<1>24. CASE CloseCall \/ CloseWait \/ CloseStager \/ CloseComm \/ CloseChild \/ UNCHANGED vars
  BY <1>24 DEF CloseCall, CloseWait, CloseStager, CloseComm, CloseChild, vars
<1> HIDE DEF TypeOK, TrainerPcs, CallbackStates, Done, trainerVars, lockVars, stageVars,
             commVars, childVars
<1> QED
  BY <1>1, <1>2, <1>3, <1>5, <1>6, <1>7, <1>8, <1>9, <1>10, <1>11, <1>12, <1>13, <1>14, <1>16,
     <1>17, <1>18, <1>19, <1>20, <1>21, <1>22, <1>23, <1>24
  DEF Next, SaveSteps, StepSteps, StagerSteps, CallbackSteps, CommSteps, CreationSteps, ChildSteps,
      CloseSteps, Closed
-----------------------------------------------------------------------------
(* The save whose write may be under way: its future is _write_future, or  *)
(* will be when save() returns.                                            *)
Last == IF tpc \in {"arm", "callback"} THEN cur ELSE prior

(* In a call of save(), and in one that holds the staging lock for write.  *)
CallPcs == {"warm", "acquire", "check", "prepare", "stage", "launch", "arm", "callback"}
HeldPcs == {"check", "prepare", "stage", "launch", "arm"}

(* The callback of s has the lock to downgrade, or to release.             *)
Exclusive(s) == cb[s] \in {"registered", "downgrade"}
Shared(s) == cb[s] \in {"arm", "armed", "release"}

(* The calls of save(), and what _write_future stands for.                 *)
CallInv ==
  /\ tpc \in CallPcs => cur # 0
  /\ tpc \in {"prepare", "stage", "launch", "arm", "callback"} => prior = 0
  /\ tpc = "callback" => cb[cur] # "none"
  /\ prior # 0 => cb[prior] # "none"

(* Who holds the staging lock: the two fields count exactly these holds.   *)
LockInv ==
  /\ CallInv
  /\ ~lock_error
  /\ \A s \in Saves : Exclusive(s) \/ Shared(s) => s = Last /\ tpc \notin HeldPcs
  /\ \A s \in Saves : Exclusive(s) => tpc # "step" /\ writer_active
  /\ tpc \in HeldPcs => writer_active
  /\ writer_active => tpc \in HeldPcs \/ \E s \in Saves : Exclusive(s)
  /\ readers = (IF tpc = "step" THEN 1 ELSE 0) + (IF \E s \in Saves : Shared(s) THEN 1 ELSE 0)

LockView == <<tpc, cur, prior, cb, readers, writer_active, lock_error>>

(* The calls on the lock do what they should when it is held as it should be.*)
LEMMA ReadReleased ==
  ASSUME ~lock_error, readers > 0, readers \in Nat, ReleaseRead
  PROVE  readers' = readers - 1 /\ ~lock_error' /\ writer_active' = writer_active
<1>1. readers # 0
  OBVIOUS
<1>2. ~lock_error'
  BY <1>1, Zenon DEF ReleaseRead
<1> QED
  BY <1>2 DEF ReleaseRead

LEMMA WriteDowngraded ==
  ASSUME ~lock_error, writer_active, DowngradeWrite
  PROVE  readers' = readers + 1 /\ ~lock_error' /\ ~writer_active'
<1>1. ~lock_error' /\ ~writer_active'
  BY Zenon DEF DowngradeWrite
<1> QED
  BY <1>1 DEF DowngradeWrite

(* Every step keeps the count.                                             *)
LEMMA LockStep == ASSUME TypeOK, LockInv, [Next]_vars PROVE LockInv'
<1> USE Sorts DEF LockInv, CallInv, Exclusive, Shared, Last, HeldPcs, CallPcs, trainerVars,
        lockVars, stageVars, commVars, childVars
<1> cur \in 0 .. MaxSaves /\ prior \in 0 .. MaxSaves /\ cb \in [Saves -> CallbackStates]
  BY DEF TypeOK
<1>1. CASE UNCHANGED LockView
  BY <1>1 DEF LockView
<1>2. CASE SaveCall
  BY <1>2 DEF SaveCall
<1>3. CASE SaveWarm
  BY <1>3 DEF SaveWarm
<1>4. CASE SaveAcquire
  BY <1>4 DEF SaveAcquire, AcquireWrite
<1>5. CASE SaveAcquireTimeout
  BY <1>5 DEF SaveAcquireTimeout
<1>6. ASSUME tpc \in {"check", "prepare", "stage", "launch"}, Abort, UNCHANGED cb
      PROVE  LockInv'
  BY <1>6 DEF Abort, ReleaseWrite
<1>7. CASE SaveCheckPrior
  <2>1. CASE Abort
    BY <1>6, <1>7, <2>1 DEF SaveCheckPrior
  <2>2. CASE prior' = 0 /\ tpc' = "prepare" /\ UNCHANGED <<cur, lockVars>>
    BY <1>7, <2>2 DEF SaveCheckPrior
  <2> QED
    BY <1>7, <2>1, <2>2 DEF SaveCheckPrior
<1>8. CASE SavePrepare
  BY <1>8 DEF SavePrepare
<1>9. CASE SaveStage
  BY <1>9 DEF SaveStage
<1>10. CASE SavePrepareFails \/ SaveStageFails
  BY <1>6, <1>10 DEF SavePrepareFails, SaveStageFails
<1>11. CASE SaveLaunch
  <2>1. CASE Abort
    BY <1>6, <1>11, <2>1 DEF SaveLaunch
  <2>2. CASE tpc' = "arm" /\ UNCHANGED <<cur, prior, lockVars>>
    BY <1>11, <2>2 DEF SaveLaunch
  <2> QED
    BY <1>11, <2>1, <2>2 DEF SaveLaunch
<1>12. CASE SaveArm
  BY <1>12 DEF SaveArm, CallbackStates
<1>13. CASE SaveReturn
  BY <1>13 DEF SaveReturn
<1>14. CASE StepBegin
  BY <1>14 DEF StepBegin, AcquireRead
<1>15. CASE StepEnd
  <2>1. readers > 0 /\ tpc' = "idle" /\ UNCHANGED <<cur, prior, cb>>
    BY <1>15 DEF StepEnd
  <2>2. readers' = readers - 1 /\ ~lock_error' /\ writer_active' = writer_active
    BY <1>15, <2>1, ReadReleased DEF StepEnd, TypeOK
  <2> QED
    BY <1>15, <2>1, <2>2 DEF StepEnd
<1>16. ASSUME NEW s \in Stagings, NEW outcome \in {"ok", "failed"}, StageDone(s, outcome)
       PROVE  LockInv'
  BY <1>16 DEF StageDone
<1>17. ASSUME NEW s \in Saves, RunDowngrade(s)
       PROVE  LockInv'
  <2>1. writer_active /\ readers = 0
    BY <1>17 DEF RunDowngrade
  <2>2. readers' = 1 /\ ~writer_active' /\ ~lock_error'
    <3>1. DowngradeWrite /\ ~lock_error
      BY <1>17 DEF RunDowngrade
    <3>2. readers' = readers + 1 /\ ~writer_active' /\ ~lock_error'
      BY <2>1, <3>1, WriteDowngraded
    <3> QED
      BY <2>1, <3>2
  <2>3. cb' = [cb EXCEPT ![s] = "arm"] /\ UNCHANGED <<tpc, cur, prior>>
    BY <1>17, <2>1 DEF RunDowngrade
  <2> QED
    BY <1>17, <2>1, <2>2, <2>3 DEF RunDowngrade
<1>18. ASSUME NEW s \in Saves, RunArm(s)
       PROVE  LockInv'
  BY <1>18 DEF RunArm
<1>19. ASSUME NEW s \in Saves, RunRelease(s)
       PROVE  LockInv'
  <2>1. readers > 0 /\ cb' = [cb EXCEPT ![s] = "done"] /\ UNCHANGED <<tpc, cur, prior>>
    BY <1>19 DEF RunRelease
  <2>2. readers' = readers - 1 /\ ~lock_error' /\ writer_active' = writer_active
    BY <1>19, <2>1, ReadReleased DEF RunRelease, TypeOK
  <2> QED
    BY <1>19, <2>1, <2>2 DEF RunRelease
<1>20. ASSUME NEW s \in Saves, NEW outcome, WriteDone(s, outcome), UNCHANGED <<trainerVars,
              lockVars>>
       PROVE  LockInv'
  BY <1>20 DEF WriteDone
<1>21. ASSUME NEW s \in Saves, CommSteps(s) \/ CloseCancel(s)
       PROVE  LockInv'
  BY <1>1, <1>20, <1>21
  DEF CommSteps, CommBegin, CommInfo, CommSend, CommRecv, CloseCancel, LockView
<1>22. CASE CloseCall \/ CloseWait \/ CloseStager \/ CloseComm \/ CloseChild
  BY <1>22 DEF CloseCall, CloseWait, CloseStager, CloseComm, CloseChild
<1>23. CASE NewMetadata \/ Prewarm \/ \E p \in Parts : StepPart(p)
  BY <1>1, <1>23 DEF NewMetadata, Prewarm, StepPart, LockView
<1>24. ASSUME NEW s \in Stagings, StageBegin(s) \/ \E p \in Parts : StagePart(s, p)
       PROVE  LockInv'
  BY <1>1, <1>24 DEF StageBegin, StagePart, LockView
<1>25. ASSUME NEW s \in Saves,
              BuildInfo(s) \/ ChildTake(s) \/ ChildAnswer(s) \/ \E p \in Parts : ChildPart(s, p)
       PROVE  LockInv'
  BY <1>1, <1>25 DEF BuildInfo, ChildTake, ChildPart, ChildAnswer, LockView
<1>26. CASE Spawn \/ ChildStarts \/ Created \/ ChildFails \/ ChildCrash \/ ChildHangs \/
            UNCHANGED vars
  BY <1>1, <1>26 DEF Spawn, ChildStarts, Created, ChildFails, ChildCrash, ChildHangs, vars, LockView
<1> HIDE DEF LockInv, CallInv, Exclusive, Shared, Last, HeldPcs, CallPcs, trainerVars, lockVars,
             stageVars, commVars, childVars
<1> QED
  BY <1>2, <1>3, <1>4, <1>5, <1>6, <1>7, <1>8, <1>9, <1>10, <1>11, <1>12, <1>13, <1>14, <1>15,
     <1>16, <1>17, <1>18, <1>19, <1>20, <1>21, <1>22, <1>23, <1>24, <1>25, <1>26
  DEF Next, SaveSteps, StepSteps, StagerSteps, CallbackSteps, CommSteps, CreationSteps,
      ChildSteps, CloseSteps, Closed
-----------------------------------------------------------------------------
(* A call has reached the point where s is staged and launched.            *)
Begun(s) == s < cur \/ (s = cur /\ tpc \notin {"warm", "acquire", "check", "prepare", "stage"})

(* The writes: they are launched in order, each by its own call; a release *)
(* is scheduled when the write is over; only the last can be under way, or *)
(* have failed, and nothing was launched after it.                         *)
WriteInv ==
  /\ \A s \in Saves : sf[s] # "none" => Begun(s)
  /\ \A s \in Saves : wf[s] # "none" => Begun(s) /\ ~(s = cur /\ tpc = "launch")
  /\ \A s \in Saves : cb[s] # "none" => wf[s] # "none"
  /\ \A s \in Saves : cb[s] \in {"release", "done"} => Done(wf[s])
  /\ tpc \in {"arm", "callback"} => wf[cur] # "none"
  /\ \A s \in Saves : s # Last => wf[s] \in {"none", "ok"}
  /\ Last # 0 => \A s \in Saves : s > Last => wf[s] = "none"
  /\ PriorWriteOver

WriteView == <<tpc, cur, prior, sf, wf, cb>>

(* Every step keeps it.                                                    *)
LEMMA WriteStep == ASSUME TypeOK, LockInv, WriteInv, [Next]_vars PROVE WriteInv'
<1> USE Sorts DEF WriteInv, PriorWriteOver, Begun, Last, Done, trainerVars, lockVars, stageVars,
        commVars, childVars
<1>types. /\ cur \in 0 .. MaxSaves /\ prior \in 0 .. MaxSaves /\ cb \in [Saves -> CallbackStates]
     /\ wf \in [Saves -> {"none", "queued", "running", "ok", "failed", "cancelled"}]
     /\ sf \in [Stagings -> {"none", "queued", "copying", "ok", "failed"}]
  BY DEF TypeOK
<1>1. CASE UNCHANGED WriteView
  BY <1>types, <1>1 DEF WriteView
<1>2. CASE SaveCall
  BY <1>types, <1>2 DEF SaveCall
<1>3. CASE SaveWarm
  BY <1>types, <1>3 DEF SaveWarm
<1>4. CASE SaveAcquire
  <2>1. ~writer_active /\ readers = 0
    BY <1>4 DEF SaveAcquire, AcquireWrite
  <2>2. \A s \in Saves : ~Exclusive(s) /\ ~Shared(s)
    BY <2>1 DEF LockInv
  <2>3. prior # 0 => Done(wf[prior])
    BY <1>types, <2>2 DEF LockInv, CallInv, Exclusive, Shared, CallbackStates
  <2> QED
    BY <1>types, <1>4, <2>3 DEF SaveAcquire
<1>5. CASE SaveAcquireTimeout
  BY <1>types, <1>5 DEF SaveAcquireTimeout
<1>6. CASE SaveCheckPrior
  BY <1>types, <1>6 DEF SaveCheckPrior, Abort
<1>7. CASE SavePrepare
  BY <1>types, <1>7 DEF SavePrepare
<1>8. CASE SaveStage
  BY <1>types, <1>8 DEF SaveStage, LockInv, CallInv, CallPcs
<1>9. CASE SavePrepareFails \/ SaveStageFails
  BY <1>types, <1>9 DEF SavePrepareFails, SaveStageFails, Abort
<1>10. CASE SaveLaunch
  BY <1>types, <1>10 DEF SaveLaunch, Abort, LockInv, CallInv, CallPcs
<1>11. CASE SaveArm
  BY <1>types, <1>11 DEF SaveArm, LockInv, CallInv, CallPcs
<1>12. CASE SaveReturn
  BY <1>types, <1>12 DEF SaveReturn
<1>13. CASE StepBegin \/ StepEnd
  BY <1>types, <1>13 DEF StepBegin, StepEnd
<1>14. CASE Prewarm
  BY <1>types, <1>14 DEF Prewarm
<1>15. ASSUME NEW s \in Stagings, NEW outcome \in {"ok", "failed"},
              StageBegin(s) \/ StageDone(s, outcome)
       PROVE  WriteInv'
  BY <1>types, <1>15 DEF StageBegin, StageDone
<1>16. ASSUME NEW s \in Saves, RunDowngrade(s)
       PROVE  WriteInv'
  BY <1>types, <1>16 DEF RunDowngrade, LockInv, Exclusive
<1>17. ASSUME NEW s \in Saves, RunArm(s) \/ RunRelease(s)
       PROVE  WriteInv'
  BY <1>types, <1>17 DEF RunArm, RunRelease
<1>18. ASSUME NEW s \in Saves, NEW outcome \in {"ok", "failed", "cancelled"}, WriteDone(s,
              outcome),
              wf[s] \in {"queued", "running"}, UNCHANGED <<trainerVars, stageVars>>
       PROVE  WriteInv'
  BY <1>types, <1>18 DEF WriteDone
<1>19. ASSUME NEW s \in Saves, CommInfo(s) \/ CommSend(s) \/ CommRecv(s) \/ CloseCancel(s)
       PROVE  WriteInv'
  BY <1>1, <1>18, <1>19 DEF CommInfo, CommSend, CommRecv, CloseCancel, WriteView
<1>20. ASSUME NEW s \in Saves, CommBegin(s)
       PROVE  WriteInv'
  <2>1. CASE wf' = [wf EXCEPT ![s] = "running"] /\ UNCHANGED cb
    BY <1>types, <1>20, <2>1 DEF CommBegin
  <2>2. CASE WriteDone(s, "failed")
    BY <1>18, <1>20, <2>2 DEF CommBegin
  <2> QED
    BY <1>20, <2>1, <2>2 DEF CommBegin
<1>21. CASE CloseCall \/ CloseWait \/ CloseStager \/ CloseComm \/ CloseChild
  BY <1>types, <1>21 DEF CloseCall, CloseWait, CloseStager, CloseComm, CloseChild
<1>22. CASE NewMetadata \/ \E p \in Parts : StepPart(p)
  BY <1>1, <1>22 DEF NewMetadata, StepPart, WriteView
<1>23. ASSUME NEW s \in Stagings, \E p \in Parts : StagePart(s, p)
       PROVE  WriteInv'
  BY <1>1, <1>23 DEF StagePart, WriteView
<1>24. ASSUME NEW s \in Saves,
              BuildInfo(s) \/ ChildTake(s) \/ ChildAnswer(s) \/ \E p \in Parts : ChildPart(s, p)
       PROVE  WriteInv'
  BY <1>1, <1>24 DEF BuildInfo, ChildTake, ChildPart, ChildAnswer, WriteView
<1>25. CASE Spawn \/ ChildStarts \/ Created \/ ChildFails \/ ChildCrash \/ ChildHangs \/
            UNCHANGED vars
  BY <1>1, <1>25
  DEF Spawn, ChildStarts, Created, ChildFails, ChildCrash, ChildHangs, vars, WriteView
<1> HIDE DEF WriteInv, PriorWriteOver, Begun, Last, Done, trainerVars, lockVars, stageVars,
             commVars, childVars
<1> QED
  BY <1>2, <1>3, <1>4, <1>5, <1>6, <1>7, <1>8, <1>9, <1>10, <1>11, <1>12, <1>13, <1>14, <1>15,
     <1>16, <1>17, <1>18, <1>19, <1>20, <1>21, <1>22, <1>23, <1>24, <1>25
  DEF Next, SaveSteps, StepSteps, StagerSteps, CallbackSteps, CommSteps, CreationSteps,
      ChildSteps, CloseSteps, Closed
-----------------------------------------------------------------------------
(* A prewarming and a save, or a write, are never both under way.          *)
WarmInv ==
  /\ tpc \in CallPcs \ {"warm"} => sf[Warmup] = "none"
  /\ sf[Warmup] # "none" => \A s \in Saves : wf[s] \in {"none", "ok"}

WarmView == <<tpc, sf, wf>>

(* Every step keeps it.                                                    *)
LEMMA WarmStep == ASSUME TypeOK, LockInv, WriteInv, WarmInv, [Next]_vars PROVE WarmInv'
<1> USE Sorts DEF WarmInv, CallPcs, trainerVars, lockVars, stageVars, commVars, childVars
<1>types. /\ cur \in 0 .. MaxSaves /\ prior \in 0 .. MaxSaves
     /\ wf \in [Saves -> {"none", "queued", "running", "ok", "failed", "cancelled"}]
     /\ sf \in [Stagings -> {"none", "queued", "copying", "ok", "failed"}]
  BY DEF TypeOK
<1>1. CASE UNCHANGED WarmView
  BY <1>1 DEF WarmView
<1>2. CASE SaveCall \/ SaveWarm \/ SaveAcquire \/ SaveAcquireTimeout \/ SavePrepare \/
           SaveArm \/ SaveReturn
  BY <1>types, <1>2
  DEF SaveCall, SaveWarm, SaveAcquire, SaveAcquireTimeout, SavePrepare, SaveArm, SaveReturn
<1>3. CASE SaveCheckPrior \/ SavePrepareFails \/ SaveStageFails
  BY <1>3 DEF SaveCheckPrior, SavePrepareFails, SaveStageFails, Abort
<1>4. CASE SaveStage
  <2>1. sf'[Warmup] = sf[Warmup]
    BY <1>types, <1>4 DEF SaveStage, LockInv, CallInv
  <2> QED
    BY <1>types, <1>4, <2>1 DEF SaveStage
<1>5. CASE SaveLaunch
  BY <1>5 DEF SaveLaunch, Abort
<1>6. CASE StepBegin \/ StepEnd
  BY <1>6 DEF StepBegin, StepEnd
<1>7. CASE Prewarm
  BY <1>types, <1>7 DEF Prewarm, WriteInv, Last
<1>8. ASSUME NEW s \in Stagings, NEW outcome \in {"ok", "failed"},
             StageBegin(s) \/ StageDone(s, outcome)
      PROVE  WarmInv'
  BY <1>types, <1>8 DEF StageBegin, StageDone
<1>9. ASSUME NEW s \in Saves, NEW outcome \in {"ok", "failed", "cancelled"}, WriteDone(s,
             outcome),
             wf[s] \in {"queued", "running"}, UNCHANGED <<tpc, sf>>
      PROVE  WarmInv'
  BY <1>types, <1>9 DEF WriteDone
<1>10. ASSUME NEW s \in Saves, CommInfo(s) \/ CommSend(s) \/ CommRecv(s) \/ CloseCancel(s)
       PROVE  WarmInv'
  BY <1>1, <1>9, <1>10 DEF CommInfo, CommSend, CommRecv, CloseCancel, WarmView
<1>11. ASSUME NEW s \in Saves, CommBegin(s)
       PROVE  WarmInv'
  BY <1>types, <1>11 DEF CommBegin
<1>12. CASE CloseCall \/ CloseWait \/ CloseStager \/ CloseComm \/ CloseChild
  BY <1>12 DEF CloseCall, CloseWait, CloseStager, CloseComm, CloseChild
<1>13. CASE NewMetadata \/ \E p \in Parts : StepPart(p)
  BY <1>1, <1>13 DEF NewMetadata, StepPart, WarmView
<1>14. ASSUME NEW s \in Stagings, \E p \in Parts : StagePart(s, p)
       PROVE  WarmInv'
  BY <1>1, <1>14 DEF StagePart, WarmView
<1>15. ASSUME NEW s \in Saves, CallbackSteps(s) \/ ChildSteps(s)
       PROVE  WarmInv'
  BY <1>1, <1>15 DEF CallbackSteps, ChildSteps, BuildInfo, RunDowngrade, RunArm, RunRelease,
       ChildTake, ChildPart, ChildAnswer, WarmView
<1>16. CASE Spawn \/ ChildStarts \/ Created \/ ChildFails \/ ChildCrash \/ ChildHangs \/
            UNCHANGED vars
  BY <1>1, <1>16 DEF Spawn, ChildStarts, Created, ChildFails, ChildCrash, ChildHangs, vars, WarmView
<1> HIDE DEF WarmInv, CallPcs, trainerVars, lockVars, stageVars, commVars, childVars
<1> QED
  BY <1>2, <1>3, <1>4, <1>5, <1>6, <1>7, <1>8, <1>10, <1>11, <1>12, <1>13, <1>14, <1>15, <1>16
  DEF Next, SaveSteps, StepSteps, StagerSteps, CommSteps, CreationSteps, CloseSteps, Closed

(* What each stage of close() has waited for stays over.                   *)
CloseInv ==
  /\ tpc \in {"close_child", "closed"} => cpc = "idle" /\ \A s \in Saves : wf[s] # "queued"
  /\ tpc = "closed" => created # "pending" /\ child \in {"down", "dead"}
  /\ tpc \notin {"close_comm", "close_child", "closed"} => \A s \in Saves : wf[s] # "cancelled"
  /\ tpc \in {"close_stager", "close_comm", "close_child", "closed"} /\ "wait" \notin Faults
       => \A s \in Saves : wf[s] \in {"none", "ok", "failed"}

CloseView == <<tpc, wf, cpc, created, child>>

(* Every step keeps it.                                                    *)
LEMMA CloseStep == ASSUME TypeOK, WriteInv, WarmInv, CloseInv, [Next]_vars PROVE CloseInv'
<1> USE Sorts DEF CloseInv, trainerVars, lockVars, stageVars, commVars, childVars
<1>types. /\ cur \in 0 .. MaxSaves /\ prior \in 0 .. MaxSaves
     /\ wf \in [Saves -> {"none", "queued", "running", "ok", "failed", "cancelled"}]
     /\ sf \in [Stagings -> {"none", "queued", "copying", "ok", "failed"}]
     /\ child \in {"down", "starting", "waiting", "request", "writing", "hung", "dead"}
  BY DEF TypeOK
<1>1. CASE UNCHANGED CloseView
  BY <1>1 DEF CloseView
<1>2. CASE SaveCall \/ SaveWarm \/ SaveAcquire \/ SaveAcquireTimeout \/ SavePrepare \/
           SaveStage \/ SaveArm \/ SaveReturn
  BY <1>types, <1>2
  DEF SaveCall, SaveWarm, SaveAcquire, SaveAcquireTimeout, SavePrepare, SaveStage, SaveArm,
      SaveReturn
<1>3. CASE SaveCheckPrior \/ SavePrepareFails \/ SaveStageFails
  BY <1>3 DEF SaveCheckPrior, SavePrepareFails, SaveStageFails, Abort
<1>5. CASE SaveLaunch
  BY <1>5, <1>types DEF SaveLaunch, Abort
<1>6. CASE StepBegin \/ StepEnd \/ CloseCall \/ CloseStager \/ CloseComm
  BY <1>6 DEF StepBegin, StepEnd, CloseCall, CloseStager, CloseComm
<1>7. CASE CloseWait
  <2>1. ASSUME "wait" \notin Faults, NEW s \in Saves
        PROVE  wf[s] \in {"none", "ok", "failed"}
    BY <1>types, <1>7, <2>1 DEF CloseWait, WriteInv, WarmInv, Last, Done
  <2> QED
    BY <1>7, <2>1 DEF CloseWait
<1>8. CASE CloseChild
  BY <1>8 DEF CloseChild
<1>9. ASSUME NEW s \in Saves, NEW outcome \in {"ok", "failed"}, WriteDone(s, outcome),
             cpc # "idle", UNCHANGED <<tpc, created>>
      PROVE  CloseInv'
  BY <1>types, <1>9 DEF WriteDone
<1>10. ASSUME NEW s \in Saves, CommInfo(s)
       PROVE  CloseInv'
  BY <1>1, <1>9, <1>10 DEF CommInfo, CommSend, CommRecv
<1>11. ASSUME NEW s \in Saves, CommSend(s)
       PROVE  CloseInv'
  BY <1>1, <1>9, <1>11 DEF CommInfo, CommSend, CommRecv
<1>12. ASSUME NEW s \in Saves, CommRecv(s)
       PROVE  CloseInv'
  BY <1>1, <1>9, <1>12 DEF CommInfo, CommSend, CommRecv
<1>13. ASSUME NEW s \in Saves, CommBegin(s) \/ CloseCancel(s)
       PROVE  CloseInv'
  BY <1>types, <1>13 DEF CommBegin, CloseCancel, WriteDone
<1>14. CASE NewMetadata \/ Prewarm \/ \E p \in Parts : StepPart(p)
  BY <1>1, <1>14 DEF NewMetadata, Prewarm, StepPart, CloseView
<1>15. ASSUME NEW s \in Stagings, StagerSteps(s)
       PROVE  CloseInv'
  BY <1>1, <1>15 DEF StagerSteps, StageBegin, StageDone, StagePart, CloseView
<1>16. ASSUME NEW s \in Saves, CallbackSteps(s)
       PROVE  CloseInv'
  BY <1>1, <1>16 DEF CallbackSteps, BuildInfo, RunDowngrade, RunArm, RunRelease, CloseView
<1>17. ASSUME NEW s \in Saves, ChildSteps(s)
       PROVE  CloseInv'
  BY <1>17 DEF ChildSteps, ChildTake, ChildPart, ChildAnswer
<1>18. CASE Spawn \/ ChildStarts \/ Created \/ ChildFails \/ ChildCrash \/ ChildHangs \/
            UNCHANGED vars
  BY <1>18 DEF Spawn, ChildStarts, Created, ChildFails, ChildCrash, ChildHangs, vars
<1> HIDE DEF CloseInv, trainerVars, lockVars, stageVars, commVars, childVars
<1> QED
  BY <1>2, <1>3, <1>5, <1>6, <1>7, <1>8, <1>10, <1>11, <1>12, <1>13, <1>14, <1>15, <1>16, <1>17,
     <1>18
  DEF Next, SaveSteps, StepSteps, CommSteps, CreationSteps, CloseSteps, Closed
-----------------------------------------------------------------------------
IInv == TypeOK /\ LockInv /\ WriteInv /\ WarmInv /\ CloseInv

LEMMA InitInv == Init => IInv
<1>1. SUFFICES ASSUME Init PROVE IInv
  OBVIOUS
<1>2. TypeOK
  <2>1. /\ 0 \in Versions /\ 1 \in Metas /\ 0 \in 0 .. MaxSaves /\ 0 \in 0 .. MaxWarm
    BY AsyncSaverAssumption DEF Versions, Metas
  <2>2. NoFile \in Files
    <3>1. NoFile.data \in [{} -> Versions] /\ {} \in SUBSET Parts
      BY DEF NoFile
    <3> QED
      BY <3>1 DEF NoFile, Files
  <2>3. captured \in [Saves -> [data : [Parts -> Versions], meta : Metas]]
    BY <1>1, <2>1 DEF Init
  <2> QED
    BY <1>1, <2>1, <2>2, <2>3 DEF Init, TypeOK, TrainerPcs, CallbackStates
<1>3. LockInv
  BY <1>1 DEF Init, LockInv, CallInv, CallPcs, HeldPcs, Exclusive, Shared
<1>4. WriteInv /\ WarmInv /\ CloseInv
  BY <1>1, Sorts DEF Init, WriteInv, WarmInv, CloseInv, PriorWriteOver, Last, CallPcs
<1> QED
  BY <1>1, <1>2, <1>3, <1>4 DEF IInv

LEMMA InvStep == IInv /\ [Next]_vars => IInv'
  BY TypeStep, LockStep, WriteStep, WarmStep, CloseStep DEF IInv

(* The saver keeps IInv: lock, writes, prewarming and close.               *)
LEMMA InvHolds == Spec => []IInv
  BY InitInv, InvStep, PTL DEF Spec

(* The variables of the saver keep their types.                            *)
THEOREM SaverTypeCorrect == Spec => []TypeOK
<1>1. IInv => TypeOK
  BY DEF IInv
<1> QED
  BY <1>1, InvHolds, PTL

(* No callback ever releases or downgrades a lock that is not held that    *)
(* way, whatever fails and however the threads interleave.                 *)
THEOREM SaverLockNeverMisused == Spec => []LockNeverMisused
<1>1. IInv => LockNeverMisused
  BY DEF IInv, LockInv, LockNeverMisused
<1> QED
  BY <1>1, InvHolds, PTL

(* When no callback is left to run and no call of save() is under way, the *)
(* staging lock is free: no failure path leaks it.                         *)
THEOREM SaverLockNotLeaked == Spec => []LockNotLeaked
<1>1. IInv => LockNotLeaked
  BY DEF IInv, LockInv, LockNotLeaked, Exclusive, Shared, HeldPcs
<1> QED
  BY <1>1, InvHolds, PTL

(* Once save() has the lock, the write it asks the result of is over.      *)
THEOREM SaverPriorWriteOver == Spec => []PriorWriteOver
<1>1. IInv => PriorWriteOver
  BY DEF IInv, WriteInv
<1> QED
  BY <1>1, InvHolds, PTL

(* After a write that failed or was cancelled no later save is launched:   *)
(* the trainer hears of it first.                                          *)
THEOREM SaverFailureSurfaces == Spec => []FailureSurfaces
<1>1. IInv => FailureSurfaces
  <2>1. SUFFICES ASSUME IInv, NEW s \in Saves, NEW t \in Saves, s < t, wf[s] \in {"failed",
                        "cancelled"}
                 PROVE  wf[t] = "none"
    BY DEF FailureSurfaces
  <2>2. s = Last /\ Last # 0
    BY <2>1, Sorts DEF IInv, WriteInv
  <2> QED
    BY <2>1, <2>2 DEF IInv, WriteInv
<1> QED
  BY <1>1, InvHolds, PTL

(* A close() that has returned leaves no child process, and, unless one of *)
(* its waits timed out, has cancelled no write.                            *)
THEOREM SaverCloseIsClean == Spec => []CloseIsClean
<1>1. IInv => CloseIsClean
  BY DEF IInv, CloseInv, CloseIsClean
<1> QED
  BY <1>1, InvHolds, PTL
=============================================================================
