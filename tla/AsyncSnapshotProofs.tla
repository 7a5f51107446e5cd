------------------------- MODULE AsyncSnapshotProofs -------------------------
(***************************************************************************)
(* Theorems about what AsyncSaver writes, for every value of its           *)
(* constants: a durable checkpoint is the state and the metadata of its    *)
(* save(), and the saver implements SnapshotStore.                         *)
(*                                                                         *)
(* The argument goes on from AsyncSaverProofs.  From the capture until the *)
(* downgrade its save holds the lock for write, so the parameters cannot   *)
(* move (FrozenInv) while the stager, which copies for that save alone     *)
(* (StagingInv), fills the buffer; the buffer then stays as it is for as   *)
(* long as the write is owed (BufferInv).  The child answers one request   *)
(* at a time (CommInv), and only one whose staging succeeded (InfoInv);    *)
(* the metadata left out of a request is the one the child cached last     *)
(* (MetaInv).  So what the child writes is the capture, tensor by tensor   *)
(* (FileInv).                                                              *)
(***************************************************************************)
EXTENDS AsyncSaverProofs

(* A child that was created has a request or an answer only while the comm *)
(* thread waits for one.                                                   *)
Talk ==
  \/ cpc # "recv" /\ child \in {"waiting", "dead"} /\ reply = "none"
  \/ cpc = "recv" /\ child \in {"request", "writing", "hung"} /\ reply = "none"
  \/ cpc = "recv" /\ child = "waiting" /\ reply = "ok"
  \/ cpc = "recv" /\ child = "dead"

(* One request at a time, of the write that is running, to a child that    *)
(* was created.                                                            *)
CommInv ==
  /\ \A s \in Saves : wf[s] # "none" => created = "ok"
  /\ \A s \in Saves : wf[s] = "running" => cpc # "idle"
  /\ cpc # "idle" => \E s \in Saves : wf[s] = "running"
  /\ created # "ok" => child \in {"down", "starting", "waiting", "dead"}
  /\ child \in {"down", "starting"} => created # "ok" /\ reply = "none"
  /\ created = "ok" => Talk

(* What CommInv is about.                                                  *)
CommView == <<wf, cpc, created, child, reply>>

(* Every step keeps it.                                                    *)
LEMMA CommStep == ASSUME TypeOK, WriteInv, CloseInv, CommInv, [Next]_vars PROVE CommInv'
<1> USE Sorts DEF CommInv, Talk, trainerVars, lockVars, stageVars, commVars, childVars
<1>types. /\ cur \in 0 .. MaxSaves
      /\ wf \in [Saves -> {"none", "queued", "running", "ok", "failed", "cancelled"}]
  BY DEF TypeOK
<1>alone. \A s, t \in Saves : wf[s] \in {"queued", "running"} /\ wf[t] \in {"queued", "running"} => s = t
  BY DEF WriteInv
<1>1. CASE UNCHANGED CommView
  BY <1>1 DEF CommView
<1>2. CASE SaveLaunch
  BY <1>types, <1>2 DEF SaveLaunch, WriteInv
<1>3. ASSUME NEW s \in Saves, CommBegin(s)
      PROVE  CommInv'
  <2>1. CASE wf' = [wf EXCEPT ![s] = "running"] /\ cpc' = "await"
    BY <1>types, <1>alone, <1>3, <2>1 DEF CommBegin
  <2>2. CASE WriteDone(s, "failed") /\ UNCHANGED cpc
    BY <1>types, <1>alone, <1>3, <2>2 DEF CommBegin, WriteDone
  <2> QED
    BY <1>3, <2>1, <2>2 DEF CommBegin
<1>4. ASSUME NEW s \in Saves, NEW outcome \in {"ok", "failed"}, WriteDone(s, outcome),
             wf[s] = "running", cpc' = "idle", reply' = "none", UNCHANGED <<created, child>>,
             cpc # "recv" \/ reply # "none" \/ child = "dead"
      PROVE  CommInv'
  BY <1>types, <1>alone, <1>4 DEF WriteDone
<1>5. ASSUME NEW s \in Saves, CommInfo(s)
      PROVE  CommInv'
  BY <1>4, <1>5 DEF CommInfo
<1>6. ASSUME NEW s \in Saves, CommSend(s)
      PROVE  CommInv'
  BY <1>4, <1>6 DEF CommSend
<1>7. ASSUME NEW s \in Saves, CommRecv(s)
      PROVE  CommInv'
  BY <1>4, <1>7 DEF CommRecv
<1>8. ASSUME NEW s \in Saves, CloseCancel(s)
      PROVE  CommInv'
  BY <1>types, <1>alone, <1>8 DEF CloseCancel, WriteDone
<1>9. CASE Spawn \/ ChildStarts \/ Created
  BY <1>9 DEF Spawn, ChildStarts, Created, TypeOK
<1>10. ASSUME NEW s \in Saves, ChildSteps(s)
       PROVE  CommInv'
  BY <1>10 DEF ChildSteps, ChildTake, ChildPart, ChildAnswer
<1>11. CASE ChildFails \/ ChildCrash \/ ChildHangs
  BY <1>11 DEF ChildFails, ChildCrash, ChildHangs
<1>12. CASE CloseChild
  BY <1>12 DEF CloseChild, CloseInv
<1>13. CASE SaveCall \/ SaveWarm \/ SaveAcquire \/ SaveAcquireTimeout \/ SavePrepare \/
            SaveStage \/ SaveArm \/ SaveReturn
  BY <1>13, <1>1
  DEF SaveCall, SaveWarm, SaveAcquire, SaveAcquireTimeout, SavePrepare, SaveStage, SaveArm,
      SaveReturn, CommView
<1>14. CASE SaveCheckPrior \/ SavePrepareFails \/ SaveStageFails
  BY <1>14, <1>1 DEF SaveCheckPrior, SavePrepareFails, SaveStageFails, CommView
<1>15. CASE StepBegin \/ StepSteps \/ NewMetadata \/ Prewarm
  BY <1>15, <1>1 DEF StepBegin, StepSteps, StepEnd, StepPart, NewMetadata, Prewarm, CommView
<1>16. CASE CloseCall \/ CloseWait \/ CloseStager \/ CloseComm \/ UNCHANGED vars
  BY <1>16, <1>1 DEF CloseCall, CloseWait, CloseStager, CloseComm, vars, CommView
<1>17. ASSUME NEW s \in Stagings, StagerSteps(s)
       PROVE  CommInv'
  BY <1>1, <1>17 DEF StagerSteps, StageBegin, StageDone, StagePart, CommView
<1>18. ASSUME NEW s \in Saves, CallbackSteps(s)
       PROVE  CommInv'
  BY <1>1, <1>18 DEF CallbackSteps, BuildInfo, RunDowngrade, RunArm, RunRelease, CommView
<1> HIDE DEF CommInv, Talk, trainerVars, lockVars, stageVars, commVars, childVars
<1> QED
  BY <1>2, <1>3, <1>5, <1>6, <1>7, <1>8, <1>9, <1>10, <1>11, <1>12, <1>13, <1>14, <1>15, <1>16,
     <1>17, <1>18
  DEF Next, SaveSteps, CommSteps, CreationSteps, CloseSteps, Closed

(* What the callback tells the comm thread is the outcome of the staging,  *)
(* and only a staging that succeeded is written.                           *)
InfoInv ==
  /\ \A s \in Saves : info[s] # "pending" => info[s] = sf[s]
  /\ cpc \in {"send", "recv"} => \A s \in Saves : wf[s] = "running" => info[s] = "ok"

(* What InfoInv is about.                                                  *)
InfoView == <<sf, info, cpc, wf>>

(* Every step keeps it.                                                    *)
LEMMA InfoStep == ASSUME TypeOK, LockInv, WriteInv, CommInv, InfoInv, [Next]_vars PROVE InfoInv'
<1> USE Sorts DEF InfoInv, Done, trainerVars, lockVars, stageVars, commVars, childVars
<1>types. /\ cur \in 0 .. MaxSaves
      /\ wf \in [Saves -> {"none", "queued", "running", "ok", "failed", "cancelled"}]
      /\ sf \in [Stagings -> {"none", "queued", "copying", "ok", "failed"}]
      /\ info \in [Saves -> {"pending", "ok", "failed"}]
  BY DEF TypeOK
<1>1. CASE UNCHANGED InfoView
  BY <1>1 DEF InfoView
<1>2. CASE SaveWarm \/ Prewarm
  BY <1>types, <1>2 DEF SaveWarm, Prewarm
<1>3. CASE SaveStage
  BY <1>types, <1>3 DEF SaveStage, WriteInv, Begun
<1>4. CASE SaveLaunch
  BY <1>types, <1>4 DEF SaveLaunch
<1>5. ASSUME NEW s \in Stagings, StagerSteps(s)
      PROVE  InfoInv'
  BY <1>types, <1>5 DEF StagerSteps, StageBegin, StageDone, StagePart
<1>6. ASSUME NEW s \in Saves, CallbackSteps(s)
      PROVE  InfoInv'
  BY <1>types, <1>6 DEF CallbackSteps, BuildInfo, RunDowngrade, RunArm, RunRelease
<1>7. ASSUME NEW s \in Saves, CommBegin(s)
      PROVE  InfoInv'
  BY <1>types, <1>7 DEF CommBegin, WriteDone
<1>8. ASSUME NEW s \in Saves, CommInfo(s)
      PROVE  InfoInv'
  <2>1. \A t \in Saves : wf[t] = "running" => t = s
    BY <1>8 DEF CommInfo, WriteInv
  <2> QED
    BY <1>types, <1>8, <2>1 DEF CommInfo, WriteDone
<1>9. ASSUME NEW s \in Saves, CommSend(s)
      PROVE  InfoInv'
  BY <1>types, <1>9 DEF CommSend, WriteDone
<1>10. ASSUME NEW s \in Saves, CommRecv(s) \/ CloseCancel(s)
       PROVE  InfoInv'
  BY <1>types, <1>10 DEF CommRecv, CloseCancel, WriteDone
<1>11. CASE SaveCall \/ SaveAcquire \/ SaveAcquireTimeout \/ SavePrepare \/ SaveArm \/
            SaveReturn
  BY <1>11, <1>1
  DEF SaveCall, SaveAcquire, SaveAcquireTimeout, SavePrepare, SaveArm, SaveReturn, InfoView
<1>12. CASE SaveCheckPrior \/ SavePrepareFails \/ SaveStageFails
  BY <1>12, <1>1 DEF SaveCheckPrior, SavePrepareFails, SaveStageFails, InfoView
<1>13. CASE StepBegin \/ StepSteps \/ NewMetadata
  BY <1>13, <1>1 DEF StepBegin, StepSteps, StepEnd, StepPart, NewMetadata, InfoView
<1>14. CASE CloseCall \/ CloseWait \/ CloseStager \/ CloseComm \/ CloseChild \/ UNCHANGED vars
  BY <1>14, <1>1 DEF CloseCall, CloseWait, CloseStager, CloseComm, CloseChild, vars, InfoView
<1>15. CASE Spawn \/ ChildStarts \/ Created \/ ChildFails \/ ChildCrash \/ ChildHangs
  BY <1>15, <1>1 DEF Spawn, ChildStarts, Created, ChildFails, ChildCrash, ChildHangs, InfoView
<1>16. ASSUME NEW s \in Saves, ChildSteps(s)
       PROVE  InfoInv'
  BY <1>16, <1>1 DEF ChildSteps, ChildTake, ChildPart, ChildAnswer, InfoView
<1> HIDE DEF InfoInv, Done, trainerVars, lockVars, stageVars, commVars, childVars
<1> QED
  BY <1>2, <1>3, <1>4, <1>5, <1>6, <1>7, <1>8, <1>9, <1>10, <1>11, <1>12, <1>13, <1>14, <1>15, <1>16
  DEF Next, SaveSteps, CommSteps, CreationSteps, CloseSteps, Closed

-----------------------------------------------------------------------------
(* From its capture until its downgrade, s holds the lock for write.       *)
Frozen(s) == (s = cur /\ tpc \in {"stage", "launch", "arm"}) \/ Exclusive(s)

(* The write of s was launched and is not over.                            *)
InFlight(s) == wf[s] \in {"queued", "running"}

(* Until then the parameters are those captured.                           *)
FrozenInv == \A s \in Saves : Frozen(s) => captured[s].data = params

(* What FrozenInv is about.                                                *)
FrozenView == <<tpc, cur, params, captured, cb>>

(* Every step keeps it.                                                    *)
LEMMA FrozenStep == ASSUME TypeOK, LockInv, FrozenInv, [Next]_vars PROVE FrozenInv'
<1> USE Sorts DEF FrozenInv, Frozen, Exclusive, trainerVars, lockVars, stageVars, commVars,
        childVars
<1>types. /\ cur \in 0 .. MaxSaves /\ cb \in [Saves -> CallbackStates]
      /\ captured \in [Saves -> [data : [Parts -> Versions], meta : Metas]]
  BY DEF TypeOK
<1>1. CASE UNCHANGED FrozenView
  BY <1>1 DEF FrozenView
<1>2. ASSUME UNCHANGED <<cur, params, captured, cb>>, tpc' = tpc \/ tpc' \notin {"stage",
             "launch", "arm"}
      PROVE  FrozenInv'
  BY <1>2
<1>3. CASE SaveCall
  BY <1>3 DEF SaveCall
<1>4. CASE SaveWarm \/ SaveAcquire \/ SaveAcquireTimeout \/ SaveReturn
  BY <1>2, <1>4 DEF SaveWarm, SaveAcquire, SaveAcquireTimeout, SaveReturn
<1>5. CASE SaveCheckPrior \/ SavePrepareFails \/ SaveStageFails
  BY <1>2, <1>5 DEF SaveCheckPrior, SavePrepareFails, SaveStageFails, Abort
<1>6. CASE SavePrepare
  BY <1>types, <1>6 DEF SavePrepare, LockInv, CallInv, CallPcs, HeldPcs
<1>7. CASE SaveStage
  BY <1>7 DEF SaveStage
<1>8. CASE SaveLaunch
  <2>1. UNCHANGED <<cur, params, captured, cb>> /\ tpc' \in {"arm", "idle"}
    BY <1>8 DEF SaveLaunch, Abort
  <2> QED
    BY <1>8, <2>1 DEF SaveLaunch
<1>9. CASE SaveArm
  BY <1>types, <1>9 DEF SaveArm
<1>10. CASE StepBegin \/ StepEnd \/ NewMetadata \/ Prewarm
  BY <1>2, <1>10 DEF StepBegin, StepEnd, NewMetadata, Prewarm
<1>11. CASE \E p \in Parts : StepPart(p)
  BY <1>11 DEF StepPart, LockInv
<1>12. CASE CloseCall \/ CloseWait \/ CloseStager \/ CloseComm \/ CloseChild \/ UNCHANGED vars
  BY <1>2, <1>12 DEF CloseCall, CloseWait, CloseStager, CloseComm, CloseChild, vars
<1>13. ASSUME NEW s \in Stagings, StagerSteps(s)
       PROVE  FrozenInv'
  BY <1>types, <1>13 DEF StagerSteps, StageBegin, StageDone, StagePart
<1>14. ASSUME NEW s \in Saves, CallbackSteps(s)
       PROVE  FrozenInv'
  BY <1>types, <1>14 DEF CallbackSteps, BuildInfo, RunDowngrade, RunArm, RunRelease
<1>15. ASSUME NEW s \in Saves, NEW outcome, WriteDone(s, outcome), UNCHANGED trainerVars
       PROVE  FrozenInv'
  BY <1>types, <1>15 DEF WriteDone
<1>16. ASSUME NEW s \in Saves, CommSteps(s) \/ CloseCancel(s)
       PROVE  FrozenInv'
  BY <1>1, <1>15, <1>16
  DEF CommSteps, CommBegin, CommInfo, CommSend, CommRecv, CloseCancel, FrozenView
<1>17. ASSUME NEW s \in Saves, ChildSteps(s)
       PROVE  FrozenInv'
  BY <1>1, <1>17 DEF ChildSteps, ChildTake, ChildPart, ChildAnswer, FrozenView
<1>18. CASE Spawn \/ ChildStarts \/ Created \/ ChildFails \/ ChildCrash \/ ChildHangs
  BY <1>1, <1>18 DEF Spawn, ChildStarts, Created, ChildFails, ChildCrash, ChildHangs, FrozenView
<1> HIDE DEF FrozenInv, Frozen, Exclusive, trainerVars, lockVars, stageVars, commVars, childVars
<1> QED
  BY <1>3, <1>4, <1>5, <1>6, <1>7, <1>8, <1>9, <1>10, <1>11, <1>12, <1>13, <1>14, <1>16, <1>17,
     <1>18
  DEF Next, SaveSteps, StepSteps, CreationSteps, CloseSteps, Closed

(* A call of save() raised in the launch, after its staging was submitted: *)
(* no write was queued for s, and the child could not be created or the    *)
(* submission failed.                                                      *)
GaveUp(s) ==
  /\ wf[s] = "none" /\ ~(s = cur /\ tpc = "launch")
  /\ created = "failed" \/ "submit" \in Faults

(* One staging at a time, in the order of the saves; of a save that holds  *)
(* the lock for write, or of one that gave up.  No save stages while the   *)
(* write of an earlier one is in flight.                                   *)
StagingInv ==
  /\ \A s, t \in Stagings : sf[s] = "copying" /\ sf[t] = "copying" => s = t
  /\ \A s \in Saves : sf[s] \in {"queued", "copying"} =>
       (s = cur /\ tpc \in {"launch", "arm"}) \/ cb[s] = "registered" \/ GaveUp(s)
  /\ \A s, t \in Saves : s < t /\ sf[t] \in {"copying", "ok", "failed"} => sf[s] \notin {"queued", "copying"}
  /\ \A s, t \in Saves : s < t /\ InFlight(s) => sf[t] = "none"

(* What StagingInv is about.                                               *)
StagingView == <<tpc, cur, sf, cb, wf, created>>

(* Every step keeps it.                                                    *)
LEMMA StagingStep == ASSUME TypeOK, LockInv, WriteInv, StagingInv, [Next]_vars PROVE StagingInv'
<1> USE Sorts DEF StagingInv, GaveUp, InFlight, trainerVars, lockVars, stageVars, commVars, childVars
<1>types. /\ cur \in 0 .. MaxSaves /\ cb \in [Saves -> CallbackStates]
      /\ sf \in [Stagings -> {"none", "queued", "copying", "ok", "failed"}]
      /\ wf \in [Saves -> {"none", "queued", "running", "ok", "failed", "cancelled"}]
      /\ created \in {"pending", "ok", "failed"}
  BY DEF TypeOK
<1>1. CASE UNCHANGED StagingView
  BY <1>1 DEF StagingView
<1>2. ASSUME UNCHANGED <<cur, sf, cb, wf, created>>, tpc' = tpc \/ tpc \notin {"launch", "arm"}
      PROVE  StagingInv'
  BY <1>2
<1>3. CASE SaveCall
  BY <1>3 DEF SaveCall
<1>4. CASE SaveWarm \/ Prewarm
  BY <1>types, <1>4 DEF SaveWarm, Prewarm
<1>5. CASE SaveCheckPrior \/ SavePrepareFails \/ SaveStageFails
  BY <1>2, <1>5 DEF SaveCheckPrior, SavePrepareFails, SaveStageFails
<1>6. CASE SaveAcquire \/ SaveAcquireTimeout \/ SavePrepare \/ SaveReturn
  BY <1>2, <1>6 DEF SaveAcquire, SaveAcquireTimeout, SavePrepare, SaveReturn
<1>7. CASE SaveStage
  <2>1. \A s \in Saves : ~InFlight(s)
    BY <1>7 DEF SaveStage, LockInv, CallInv, WriteInv, Last
  <2>2. cur \in Saves /\ sf' = [sf EXCEPT ![cur] = "queued"] /\ UNCHANGED <<cur, cb, wf, created>>
    BY <1>types, <1>7 DEF SaveStage, LockInv, CallInv, CallPcs
  <2>3. \A s \in Saves : s >= cur => sf[s] = "none"
    BY <1>types, <1>7 DEF SaveStage, WriteInv, Begun
  <2> QED
    BY <1>types, <1>7, <2>1, <2>2, <2>3 DEF SaveStage
<1>8. CASE SaveLaunch
  <2>1. UNCHANGED <<cur, sf, cb, created>> /\ cur \in Saves /\ tpc = "launch" /\ wf[cur] = "none"
    BY <1>types, <1>8 DEF SaveLaunch, Abort, LockInv, CallInv, CallPcs, WriteInv
  <2>2. CASE wf' = [wf EXCEPT ![cur] = "queued"] /\ tpc' = "arm"
    <3>1. \A s \in Saves : s > cur => sf[s] = "none"
      BY <1>types, <2>1 DEF WriteInv, Begun
    <3> QED
      BY <1>types, <2>1, <2>2, <3>1
  <2>3. CASE UNCHANGED wf /\ (created = "failed" \/ "submit" \in Faults)
    BY <1>types, <2>1, <2>3
  <2> QED
    BY <1>8, <2>2, <2>3 DEF SaveLaunch
<1>9. CASE SaveArm
  BY <1>types, <1>9 DEF SaveArm, Done
<1>10. CASE StepBegin \/ StepSteps \/ NewMetadata
  BY <1>2, <1>10 DEF StepBegin, StepSteps, StepPart, StepEnd, NewMetadata
<1>11. CASE CloseCall \/ CloseWait \/ CloseStager \/ CloseComm \/ UNCHANGED vars
  BY <1>2, <1>11 DEF CloseCall, CloseWait, CloseStager, CloseComm, vars
<1>12. CASE CloseChild
  BY <1>12 DEF CloseChild
<1>13. ASSUME NEW s \in Stagings, StagerSteps(s)
       PROVE  StagingInv'
  <2>1. CASE StageBegin(s)
    <3>1. /\ sf[s] = "queued" /\ sf' = [sf EXCEPT ![s] = "copying"]
          /\ UNCHANGED <<tpc, cur, cb, wf, created>>
          /\ \A t \in Stagings : sf[t] # "copying"
      BY <2>1 DEF StageBegin, StagerBusy
    <3>2. \A t \in Saves : sf[t] = "queued" => ~(t < s)
      BY <2>1 DEF StageBegin, QueuedBefore
    <3> QED
      BY <1>types, <3>1, <3>2
  <2>2. CASE \E p \in Parts : StagePart(s, p)
    BY <1>1, <2>2 DEF StagePart, StagingView
  <2>3. ASSUME NEW outcome \in {"ok", "failed"}, StageDone(s, outcome)
        PROVE  StagingInv'
    BY <1>types, <2>3 DEF StageDone
  <2> QED
    BY <1>13, <2>1, <2>2, <2>3 DEF StagerSteps
<1>14. ASSUME NEW s \in Saves, CallbackSteps(s)
       PROVE  StagingInv'
  BY <1>types, <1>14 DEF CallbackSteps, BuildInfo, RunDowngrade, RunArm, RunRelease
<1>15. ASSUME NEW s \in Saves, NEW outcome \in {"ok", "failed", "cancelled"},
              WriteDone(s, outcome), InFlight(s), UNCHANGED <<tpc, cur, sf, created>>
       PROVE  StagingInv'
  BY <1>types, <1>15 DEF WriteDone
<1>16. ASSUME NEW s \in Saves, CommSteps(s) \/ CloseCancel(s)
       PROVE  StagingInv'
  <2>1. CASE CommBegin(s) /\ wf' = [wf EXCEPT ![s] = "running"]
    BY <1>types, <2>1 DEF CommBegin, WriteDone
  <2> QED
    BY <1>1, <1>15, <1>16, <2>1
    DEF CommSteps, CommBegin, CommInfo, CommSend, CommRecv, CloseCancel, StagingView
<1>17. ASSUME NEW s \in Saves, ChildSteps(s)
       PROVE  StagingInv'
  BY <1>1, <1>17 DEF ChildSteps, ChildTake, ChildPart, ChildAnswer, StagingView
<1>18. CASE Spawn \/ ChildStarts \/ Created \/ ChildFails \/ ChildCrash \/ ChildHangs
  BY <1>18 DEF Spawn, ChildStarts, Created, ChildFails, ChildCrash, ChildHangs
<1> HIDE DEF StagingInv, GaveUp, InFlight, trainerVars, lockVars, stageVars, commVars, childVars
<1> QED
  BY <1>3, <1>4, <1>5, <1>6, <1>7, <1>8, <1>9, <1>10, <1>11, <1>12, <1>13, <1>14, <1>16, <1>17,
     <1>18
  DEF Next, SaveSteps, CreationSteps, CloseSteps, Closed

-----------------------------------------------------------------------------
(* A staged s is, or is about to be, written.                              *)
Owed(s) == InFlight(s) \/ (s = cur /\ tpc = "launch")

(* What was copied so far is the capture, and a buffer that is still to be *)
(* written stays complete.                                                 *)
BufferInv ==
  \A s \in Saves : Owed(s) =>
    /\ sf[s] = "copying" => \A p \in copied : buffer[p] = captured[s].data[p]
    /\ sf[s] = "ok" => buffer = captured[s].data

(* What BufferInv is about.                                                *)
BufferView == <<tpc, cur, captured, sf, wf, buffer, copied>>

(* Every step keeps it.                                                    *)
LEMMA BufferStep ==
  ASSUME TypeOK, LockInv, WriteInv, WarmInv, FrozenInv, StagingInv, BufferInv, [Next]_vars
  PROVE BufferInv'
<1> USE Sorts DEF BufferInv, Owed, InFlight, trainerVars, lockVars, stageVars, commVars, childVars
<1>types. /\ cur \in 0 .. MaxSaves /\ cb \in [Saves -> CallbackStates]
      /\ sf \in [Stagings -> {"none", "queued", "copying", "ok", "failed"}]
      /\ wf \in [Saves -> {"none", "queued", "running", "ok", "failed", "cancelled"}]
      /\ captured \in [Saves -> [data : [Parts -> Versions], meta : Metas]]
      /\ params \in [Parts -> Versions] /\ buffer \in [Parts -> Versions] /\ copied \subseteq Parts
  BY DEF TypeOK
<1>1. CASE UNCHANGED BufferView
  BY <1>1 DEF BufferView
<1>2. ASSUME UNCHANGED <<cur, captured, sf, wf, buffer, copied>>,
             tpc' = tpc \/ tpc' # "launch"
      PROVE  BufferInv'
  BY <1>2
<1>3. CASE SaveCall
  BY <1>3 DEF SaveCall
<1>4. CASE SaveWarm \/ Prewarm
  BY <1>types, <1>4 DEF SaveWarm, Prewarm
<1>5. CASE SaveCheckPrior \/ SavePrepareFails \/ SaveStageFails
  BY <1>2, <1>5 DEF SaveCheckPrior, SavePrepareFails, SaveStageFails, Abort
<1>6. CASE SaveAcquire \/ SaveAcquireTimeout \/ SaveReturn
  BY <1>2, <1>6 DEF SaveAcquire, SaveAcquireTimeout, SaveReturn
<1>7. CASE SavePrepare
  BY <1>types, <1>7 DEF SavePrepare, WriteInv, Begun
<1>8. CASE SaveStage
  BY <1>types, <1>8 DEF SaveStage
<1>9. CASE SaveLaunch
  BY <1>types, <1>9 DEF SaveLaunch, Abort
<1>10. CASE SaveArm
  BY <1>2, <1>10 DEF SaveArm
<1>11. CASE StepBegin \/ StepSteps \/ NewMetadata
  BY <1>2, <1>11 DEF StepBegin, StepSteps, StepPart, StepEnd, NewMetadata
<1>12. CASE CloseCall \/ CloseWait \/ CloseStager \/ CloseComm \/ UNCHANGED vars
  BY <1>2, <1>12 DEF CloseCall, CloseWait, CloseStager, CloseComm, vars
<1>13. CASE CloseChild
  BY <1>13 DEF CloseChild
<1>14. ASSUME NEW s \in Stagings, StageBegin(s)
       PROVE  BufferInv'
  BY <1>types, <1>14 DEF StageBegin
<1>15. ASSUME NEW s \in Stagings, NEW p \in Parts, StagePart(s, p)
       PROVE  BufferInv'
  <2>1. ASSUME NEW t \in Saves, sf[t] = "copying", Owed(t)
        PROVE  t = s /\ captured[t].data = params
    <3>1. t = s
      BY <1>15, <2>1 DEF StagePart, StagingInv
    <3>2. (t = cur /\ tpc \in {"launch", "arm"}) \/ cb[t] = "registered"
      BY <2>1 DEF StagingInv, GaveUp
    <3> QED
      BY <3>1, <3>2 DEF FrozenInv, Frozen, Exclusive
  <2>2. ASSUME NEW t \in Saves, sf[t] = "ok", Owed(t)
        PROVE  FALSE
    <3>1. s \in Saves /\ sf[s] = "copying"
      BY <1>15, <2>2 DEF StagePart, WarmInv, CallPcs
    <3>2. CASE s < t
      BY <2>2, <3>1, <3>2 DEF StagingInv
    <3>3. CASE t < s
      <4>1. CASE InFlight(t)
        BY <3>1, <3>3, <4>1 DEF StagingInv
      <4>2. CASE t = cur /\ tpc = "launch"
        BY <1>types, <3>1, <3>3, <4>2 DEF WriteInv, Begun
      <4> QED
        BY <2>2, <4>1, <4>2
    <3> QED
      BY <2>2, <3>1, <3>2, <3>3
  <2>3. buffer' = [buffer EXCEPT ![p] = params[p]] /\ copied' = copied \union {p}
        /\ UNCHANGED <<tpc, cur, captured, sf, wf>>
    BY <1>15 DEF StagePart
  <2>4. ASSUME NEW t \in Saves, sf[t] = "copying", Owed(t), NEW q \in copied'
        PROVE  buffer'[q] = captured[t].data[q]
    BY <1>types, <1>15, <2>1, <2>3, <2>4
  <2> QED
    BY <2>2, <2>3, <2>4
<1>16. ASSUME NEW s \in Stagings, \E p \in Parts : StagePart(s, p)
       PROVE  BufferInv'
  BY <1>15, <1>16 DEF StagePart
<1>17. ASSUME NEW s \in Stagings, StageDone(s, "failed")
       PROVE  BufferInv'
  BY <1>types, <1>17 DEF StageDone
<1>18. ASSUME NEW s \in Stagings, StageDone(s, "ok")
       PROVE  BufferInv'
  <2>1. UNCHANGED <<tpc, cur, captured, wf, buffer, copied>> /\ sf' = [sf EXCEPT ![s] = "ok"]
        /\ sf[s] = "copying" /\ copied = Parts
    BY <1>18 DEF StageDone
  <2>2. s \in Saves /\ Owed(s) => buffer = captured[s].data
    BY <1>types, <2>1
  <2> QED
    BY <1>types, <2>1, <2>2
<1>19. ASSUME NEW s \in Saves, CallbackSteps(s)
       PROVE  BufferInv'
  BY <1>1, <1>19 DEF CallbackSteps, BuildInfo, RunDowngrade, RunArm, RunRelease, BufferView
<1>20. ASSUME NEW s \in Saves, NEW outcome \in {"ok", "failed", "cancelled"}, WriteDone(s,
              outcome),
              UNCHANGED <<tpc, cur, captured, sf, buffer, copied>>
       PROVE  BufferInv'
  BY <1>types, <1>20 DEF WriteDone
<1>21. ASSUME NEW s \in Saves, CommBegin(s)
       PROVE  BufferInv'
  <2>1. CASE wf' = [wf EXCEPT ![s] = "running"]
    BY <1>types, <1>21, <2>1 DEF CommBegin
  <2>2. CASE WriteDone(s, "failed")
    BY <1>20, <1>21, <2>2 DEF CommBegin
  <2> QED
    BY <1>21, <2>1, <2>2 DEF CommBegin
<1>22. ASSUME NEW s \in Saves, CommInfo(s) \/ CommSend(s) \/ CommRecv(s) \/ CloseCancel(s)
       PROVE  BufferInv'
  BY <1>1, <1>20, <1>22 DEF CommInfo, CommSend, CommRecv, CloseCancel, BufferView
<1>23. ASSUME NEW s \in Saves, ChildSteps(s)
       PROVE  BufferInv'
  BY <1>1, <1>23 DEF ChildSteps, ChildTake, ChildPart, ChildAnswer, BufferView
<1>24. CASE Spawn \/ ChildStarts \/ Created \/ ChildFails \/ ChildCrash \/ ChildHangs
  BY <1>1, <1>24 DEF Spawn, ChildStarts, Created, ChildFails, ChildCrash, ChildHangs, BufferView
<1> HIDE DEF BufferInv, Owed, InFlight, trainerVars, lockVars, stageVars, commVars, childVars
<1> QED
  BY <1>3, <1>4, <1>5, <1>6, <1>7, <1>8, <1>9, <1>10, <1>11, <1>12, <1>13, <1>14, <1>16, <1>17,
     <1>18,
     <1>19, <1>21, <1>22, <1>23, <1>24
  DEF Next, SaveSteps, StagerSteps, CommSteps, CreationSteps, CloseSteps, Closed

-----------------------------------------------------------------------------
(* The request of s carries its metadata, or the child has it cached.      *)
Carries(s) ==
  /\ carried[s] \in {NoMeta, captured[s].meta}
  /\ carried[s] = NoMeta => cache = captured[s].meta

(* A request was prepared and is not launched yet.                         *)
Preparing == tpc \in {"stage", "launch"}

(* The metadata the trainer remembers as sent is the one the child will    *)
(* have cached when it gets to the next request, if every write succeeds.  *)
MetaInv ==
  /\ \A s \in Saves : InFlight(s) \/ (s = cur /\ Preparing) => sent = captured[s].meta /\ Carries(s)
  /\ Preparing => meta = captured[cur].meta
  /\ \A s \in Saves : wf[s] = "running" /\ (child = "writing" \/ reply = "ok") => cache = captured[s].meta
  /\ sent # NoMeta /\ ~Preparing /\ (\A s \in Saves : wf[s] \in {"none", "ok"}) => cache = sent

(* What MetaInv is about.                                                  *)
MetaView == <<tpc, cur, meta, sent, captured, carried, wf, child, cache, reply>>

(* Every step keeps it.                                                    *)
LEMMA MetaStep ==
  ASSUME TypeOK, LockInv, WriteInv, CommInv, MetaInv, [Next]_vars
  PROVE MetaInv'
<1> USE Sorts DEF MetaInv, Carries, Preparing, InFlight, trainerVars, lockVars, stageVars,
        commVars, childVars
<1>types. /\ cur \in 0 .. MaxSaves
      /\ wf \in [Saves -> {"none", "queued", "running", "ok", "failed", "cancelled"}]
      /\ captured \in [Saves -> [data : [Parts -> Versions], meta : Metas]]
      /\ carried \in [Saves -> Metas \union {NoMeta}] /\ meta \in Metas
  BY DEF TypeOK
<1>alone. \A s, t \in Saves : InFlight(s) /\ InFlight(t) => s = t
  BY DEF WriteInv
<1>1. CASE UNCHANGED MetaView
  BY <1>1 DEF MetaView
<1>2. ASSUME UNCHANGED <<cur, meta, sent, captured, carried, wf, child, cache, reply>>,
             ~Preparing, ~Preparing'
      PROVE  MetaInv'
  BY <1>2
<1>3. CASE SaveCall \/ SaveWarm \/ SaveAcquire \/ SaveAcquireTimeout \/ SaveReturn
  BY <1>3 DEF SaveCall, SaveWarm, SaveAcquire, SaveAcquireTimeout, SaveReturn
<1>4. ASSUME Abort, UNCHANGED <<carried, wf, childVars>>, \A s \in Saves : ~InFlight(s)
      PROVE  MetaInv'
  BY <1>4 DEF Abort
<1>5. CASE SavePrepareFails \/ SaveStageFails
  <2>1. \A s \in Saves : ~InFlight(s)
    BY <1>5 DEF SavePrepareFails, SaveStageFails, LockInv, CallInv, WriteInv, Last
  <2> QED
    BY <1>4, <1>5, <2>1 DEF SavePrepareFails, SaveStageFails
<1>6. CASE SaveCheckPrior
  <2>1. CASE prior # 0 /\ wf[prior] \in {"failed", "cancelled"} /\ Abort
    <3>1. \A s \in Saves : ~InFlight(s)
      BY <1>6, <2>1 DEF SaveCheckPrior, WriteInv, Last
    <3> QED
      BY <1>4, <1>6, <2>1, <3>1 DEF SaveCheckPrior
  <2>2. CASE tpc' = "prepare" /\
             UNCHANGED <<cur, params, step, meta, sent, captured, carried, lockVars>>
    BY <1>2, <1>6, <2>2 DEF SaveCheckPrior
  <2> QED
    BY <1>6, <2>1, <2>2 DEF SaveCheckPrior
<1>7. CASE SavePrepare
  <2>1. \A s \in Saves : wf[s] \in {"none", "ok"}
    BY <1>7 DEF SavePrepare, LockInv, CallInv, WriteInv, Last
  <2>2. cur \in Saves
    BY <1>types, <1>7 DEF SavePrepare, LockInv, CallInv, CallPcs
  <2>3. /\ captured'[cur].meta = meta /\ carried'[cur] = IF meta = sent THEN NoMeta ELSE meta
        /\ sent' = meta /\ tpc' = "stage" /\ tpc = "prepare"
        /\ UNCHANGED <<cur, meta, wf, child, cache, reply>>
    BY <1>types, <1>7, <2>2 DEF SavePrepare
  <2>4. meta = sent => cache = meta
    BY <1>types, <2>1, <2>3
  <2> QED
    BY <1>types, <2>1, <2>2, <2>3, <2>4
<1>8. CASE SaveStage
  BY <1>8 DEF SaveStage
<1>9. CASE SaveLaunch
  <2>1. \A s \in Saves : wf[s] \in {"none", "ok"}
    BY <1>9 DEF SaveLaunch, LockInv, CallInv, WriteInv, Last
  <2>2. CASE Abort
    BY <1>4, <1>9, <2>1, <2>2 DEF SaveLaunch, Abort
  <2>3. CASE wf' = [wf EXCEPT ![cur] = "queued"] /\ tpc' = "arm" /\
             UNCHANGED <<cur, params, step, meta, sent, captured, carried>>
    BY <1>types, <1>9, <2>1, <2>3 DEF SaveLaunch, LockInv, CallInv, CallPcs
  <2> QED
    BY <1>9, <2>2, <2>3 DEF SaveLaunch
<1>10. CASE SaveArm
  BY <1>2, <1>10 DEF SaveArm
<1>11. CASE StepBegin \/ StepSteps \/ NewMetadata \/ Prewarm
  BY <1>11 DEF StepBegin, StepSteps, StepPart, StepEnd, NewMetadata, Prewarm
<1>12. CASE CloseCall \/ CloseWait \/ CloseStager \/ CloseComm
  BY <1>2, <1>12 DEF CloseCall, CloseWait, CloseStager, CloseComm
<1>13. CASE CloseChild \/ UNCHANGED vars
  BY <1>13 DEF CloseChild, vars
<1>14. ASSUME NEW s \in Stagings, StagerSteps(s)
       PROVE  MetaInv'
  BY <1>1, <1>14 DEF StagerSteps, StageBegin, StagePart, StageDone, MetaView
<1>15. ASSUME NEW s \in Saves, CallbackSteps(s)
       PROVE  MetaInv'
  BY <1>1, <1>15 DEF CallbackSteps, BuildInfo, RunDowngrade, RunArm, RunRelease, MetaView
<1>16. ASSUME NEW s \in Saves, NEW outcome \in {"failed", "cancelled"}, WriteDone(s, outcome),
              InFlight(s), reply' \in {reply, "none"},
              UNCHANGED <<tpc, cur, meta, sent, captured, carried, child, cache>>
       PROVE  MetaInv'
  BY <1>types, <1>alone, <1>16 DEF WriteDone
<1>17. ASSUME NEW s \in Saves, CommBegin(s)
       PROVE  MetaInv'
  <2>1. child # "writing" /\ reply # "ok"
    BY <1>17 DEF CommBegin, CommInv, Talk
  <2>2. CASE wf' = [wf EXCEPT ![s] = "running"]
    BY <1>types, <1>17, <2>1, <2>2 DEF CommBegin
  <2>3. CASE WriteDone(s, "failed")
    BY <1>16, <1>17, <2>3 DEF CommBegin
  <2> QED
    BY <1>17, <2>2, <2>3 DEF CommBegin
<1>18. ASSUME NEW s \in Saves, CommInfo(s) \/ CloseCancel(s)
       PROVE  MetaInv'
  BY <1>1, <1>16, <1>18 DEF CommInfo, CloseCancel, MetaView
<1>19. ASSUME NEW s \in Saves, CommSend(s)
       PROVE  MetaInv'
  <2>1. CASE WriteDone(s, "failed") /\ UNCHANGED child
    BY <1>16, <1>19, <2>1 DEF CommSend
  <2>2. CASE child' = "request" /\ UNCHANGED <<wf, cb>>
    BY <1>19, <2>2 DEF CommSend
  <2> QED
    BY <1>19, <2>1, <2>2 DEF CommSend
<1>20. ASSUME NEW s \in Saves, CommRecv(s)
       PROVE  MetaInv'
  <2>1. CASE reply = "ok"
    <3>1. cache = captured[s].meta /\ sent = captured[s].meta
      BY <1>20, <2>1 DEF CommRecv
    <3>2. \A t \in Saves : InFlight(t) => t = s
      BY <1>alone, <1>20 DEF CommRecv
    <3> QED
      BY <1>types, <1>20, <2>1, <3>1, <3>2 DEF CommRecv, WriteDone
  <2>2. CASE reply # "ok"
    BY <1>16, <1>20, <2>2 DEF CommRecv
  <2> QED
    BY <2>1, <2>2
<1>21. ASSUME NEW s \in Saves, ChildTake(s)
       PROVE  MetaInv'
  <2>1. cache' = captured[s].meta
    BY <1>21 DEF ChildTake
  <2>2. \A t \in Saves : InFlight(t) => t = s
    BY <1>alone, <1>21 DEF ChildTake
  <2>3. ~Preparing
    BY <1>21 DEF ChildTake, LockInv, CallInv, WriteInv, Last
  <2> QED
    BY <1>types, <1>21, <2>1, <2>2, <2>3 DEF ChildTake
<1>22. ASSUME NEW s \in Saves, ChildAnswer(s)
       PROVE  MetaInv'
  BY <1>22 DEF ChildAnswer
<1>23. ASSUME NEW s \in Saves, \E p \in Parts : ChildPart(s, p)
       PROVE  MetaInv'
  BY <1>1, <1>23 DEF ChildPart, MetaView
<1>24. CASE Spawn \/ ChildStarts \/ Created
  <2>1. created # "ok"
    BY <1>24 DEF Spawn, ChildStarts, Created, CommInv
  <2>2. \A s \in Saves : wf[s] # "running"
    BY <2>1 DEF CommInv
  <2> QED
    BY <1>24, <2>2 DEF Spawn, ChildStarts, Created
<1>25. CASE ChildFails \/ ChildCrash \/ ChildHangs
  BY <1>25 DEF ChildFails, ChildCrash, ChildHangs
<1> HIDE DEF MetaInv, Carries, Preparing, InFlight, trainerVars, lockVars, stageVars, commVars,
             childVars
<1> QED
  BY <1>3, <1>5, <1>6, <1>7, <1>8, <1>9, <1>10, <1>11, <1>12, <1>13, <1>14, <1>15, <1>17, <1>18,
     <1>19, <1>20, <1>21, <1>22, <1>23, <1>24, <1>25
  DEF Next, SaveSteps, CommSteps, CreationSteps, ChildSteps, CloseSteps, Closed

-----------------------------------------------------------------------------
(* The child has not begun on s.                                           *)
Untaken(s) == wf[s] \in {"none", "queued"} \/ (wf[s] = "running" /\ (cpc # "recv" \/ child = "request"))

(* What is written of s is what was captured.                              *)
FileInv ==
  \A s \in Saves :
    /\ Untaken(s) => files[s].data = NoFile.data
    /\ wf[s] = "running" /\ child = "writing" =>
         /\ files[s].meta = captured[s].meta
         /\ \A p \in DOMAIN files[s].data : files[s].data[p] = captured[s].data[p]
    /\ wf[s] = "running" /\ reply = "ok" => files[s] = captured[s]
    /\ wf[s] = "ok" => files[s] = captured[s]

(* What FileInv is about.                                                  *)
FileView == <<captured, wf, cpc, child, reply, files>>

(* Every step keeps it.  (MetaInv' gives what the child caches as it takes *)
(* a request.)                                                             *)
LEMMA FileStep ==
  ASSUME TypeOK, LockInv, WriteInv, CommInv, InfoInv, BufferInv, MetaInv, MetaInv', FileInv, [Next]_vars
  PROVE FileInv'
<1> USE Sorts DEF FileInv, Untaken, trainerVars, lockVars, stageVars, commVars, childVars
<1>types. /\ cur \in 0 .. MaxSaves
      /\ wf \in [Saves -> {"none", "queued", "running", "ok", "failed", "cancelled"}]
      /\ captured \in [Saves -> [data : [Parts -> Versions], meta : Metas]]
      /\ files \in [Saves -> Files]
  BY DEF TypeOK
<1>alone. \A s, t \in Saves : wf[s] = "running" /\ wf[t] = "running" => s = t
  BY DEF WriteInv
<1>1. CASE UNCHANGED FileView
  BY <1>1 DEF FileView
<1>2. CASE SavePrepare
  BY <1>types, <1>2 DEF SavePrepare, WriteInv, Begun
<1>3. CASE SaveLaunch
  <2>1. wf' = wf \/ (wf' = [wf EXCEPT ![cur] = "queued"] /\ wf[cur] = "none")
    BY <1>types, <1>3 DEF SaveLaunch, WriteInv, LockInv, CallInv, CallPcs
  <2>2. UNCHANGED <<captured, cpc, childVars>>
    BY <1>3 DEF SaveLaunch, Abort
  <2> QED
    BY <1>types, <2>1, <2>2
<1>4. ASSUME NEW s \in Saves, NEW outcome \in {"ok", "failed", "cancelled"}, WriteDone(s,
             outcome),
             outcome = "ok" => files[s] = captured[s],
             wf[s] = "running" \/ (wf[s] = "queued" /\ UNCHANGED cpc), reply' \in {reply, "none"},
             UNCHANGED <<captured, child, files>>
      PROVE  FileInv'
  <2>1. wf' = [wf EXCEPT ![s] = outcome]
    BY <1>4 DEF WriteDone
  <2>2. \A t \in Saves : t # s => wf'[t] = wf[t]
    BY <1>types, <2>1
  <2>3. \A t \in Saves : t # s /\ wf[t] = "running" => UNCHANGED cpc
    BY <1>alone, <1>4
  <2> QED
    BY <1>types, <1>4, <2>1, <2>2, <2>3
<1>5. ASSUME NEW s \in Saves, CommBegin(s)
      PROVE  FileInv'
  <2>1. CASE wf' = [wf EXCEPT ![s] = "running"]
    <3>1. child # "writing" /\ reply # "ok"
      BY <1>5 DEF CommBegin, CommInv, Talk
    <3> QED
      BY <1>types, <1>alone, <1>5, <2>1, <3>1 DEF CommBegin
  <2>2. CASE WriteDone(s, "failed") /\ UNCHANGED cpc
    BY <1>4, <1>5, <2>2 DEF CommBegin
  <2> QED
    BY <1>5, <2>1, <2>2 DEF CommBegin
<1>6. ASSUME NEW s \in Saves, CommInfo(s)
      PROVE  FileInv'
  <2>1. CASE WriteDone(s, "failed")
    BY <1>4, <1>6, <2>1 DEF CommInfo
  <2>2. CASE cpc' = "send" /\ UNCHANGED <<wf, cb>>
    BY <1>6, <2>2 DEF CommInfo
  <2> QED
    BY <1>6, <2>1, <2>2 DEF CommInfo
<1>7. ASSUME NEW s \in Saves, CommSend(s)
      PROVE  FileInv'
  <2>1. CASE WriteDone(s, "failed") /\ UNCHANGED child
    BY <1>4, <1>7, <2>1 DEF CommSend
  <2>2. CASE child' = "request" /\ UNCHANGED <<wf, cb>>
    BY <1>7, <2>2 DEF CommSend
  <2> QED
    BY <1>7, <2>1, <2>2 DEF CommSend
<1>8. ASSUME NEW s \in Saves, CommRecv(s)
      PROVE  FileInv'
  BY <1>4, <1>8 DEF CommRecv
<1>9. ASSUME NEW s \in Saves, CloseCancel(s)
      PROVE  FileInv'
  BY <1>4, <1>9 DEF CloseCancel
<1>10. ASSUME NEW s \in Saves, ChildTake(s)
       PROVE  FileInv'
  <2>1. cache' = captured[s].meta /\ reply # "ok" /\ cpc = "recv"
    BY <1>10 DEF ChildTake, MetaInv, CommInv, Talk
  <2>2. files'[s].data = files[s].data /\ files'[s].meta = cache' /\ \A t \in Saves : t # s => files'[t] = files[t]
    BY <1>types, <1>10 DEF ChildTake, Files
  <2>3. DOMAIN files[s].data = {}
    BY <1>10 DEF ChildTake, NoFile
  <2> QED
    BY <1>types, <1>alone, <1>10, <2>1, <2>2, <2>3 DEF ChildTake
<1>11. ASSUME NEW s \in Saves, NEW p \in Parts, ChildPart(s, p)
       PROVE  FileInv'
  <2>1. buffer = captured[s].data
    BY <1>types, <1>11 DEF ChildPart, BufferInv, Owed, InFlight, InfoInv, CommInv, Talk
  <2>2. files' = [files EXCEPT ![s].data = With(files[s].data, p, buffer[p])]
    BY <1>11, ChildPartFiles
  <2>3. /\ files'[s].meta = files[s].meta /\ files'[s].data = With(files[s].data, p, buffer[p])
        /\ \A t \in Saves : t # s => files'[t] = files[t]
    BY <1>types, <2>2 DEF Files
  <2>4. \A q \in DOMAIN files'[s].data : files'[s].data[q] = captured[s].data[q]
    BY <1>11, <2>1, <2>3 DEF With, ChildPart
  <2>5. reply # "ok" /\ cpc = "recv"
    BY <1>11 DEF ChildPart, CommInv, Talk
  <2>6. UNCHANGED <<captured, wf, cpc, child, reply>> /\ child = "writing" /\ wf[s] = "running"
    BY <1>11 DEF ChildPart
  <2>7. ~Untaken(s)' /\ wf'[s] # "ok" /\ reply' # "ok" /\ files'[s].meta = captured'[s].meta
    BY <2>3, <2>5, <2>6
  <2>8. \A t \in Saves : t # s => wf[t] # "running" /\ (Untaken(t)' => Untaken(t))
    BY <1>alone, <2>6
  <2> HIDE DEF Untaken
  <2> QED
    BY <2>3, <2>4, <2>6, <2>7, <2>8
<1>12. ASSUME NEW s \in Saves, ChildAnswer(s)
       PROVE  FileInv'
  <2>1. files[s].data = captured[s].data
    BY <1>types, <1>12, FileTypes DEF ChildAnswer, Data
  <2>2. files[s] = captured[s]
    BY <1>types, <1>12, <2>1 DEF ChildAnswer, Files
  <2> QED
    BY <1>alone, <1>12, <2>2 DEF ChildAnswer
<1>13. CASE Spawn \/ ChildStarts \/ Created
  <2>1. created # "ok"
    BY <1>13 DEF Spawn, ChildStarts, Created, CommInv
  <2>2. \A s \in Saves : wf[s] = "none"
    BY <2>1 DEF CommInv
  <2> QED
    BY <1>13, <2>2 DEF Spawn, ChildStarts, Created
<1>14. CASE ChildFails \/ ChildCrash \/ ChildHangs
  BY <1>14 DEF ChildFails, ChildCrash, ChildHangs
<1>15. CASE CloseChild
  BY <1>15 DEF CloseChild
<1>16. CASE CloseCall \/ CloseWait \/ CloseStager \/ CloseComm \/ UNCHANGED vars
  BY <1>1, <1>16 DEF CloseCall, CloseWait, CloseStager, CloseComm, vars, FileView
<1>17. CASE SaveCall \/ SaveWarm \/ SaveAcquire \/ SaveAcquireTimeout \/ SaveStage \/
            SaveArm \/ SaveReturn
  BY <1>1, <1>17
  DEF SaveCall, SaveWarm, SaveAcquire, SaveAcquireTimeout, SaveStage, SaveArm, SaveReturn,
      FileView
<1>18. CASE SaveCheckPrior \/ SavePrepareFails \/ SaveStageFails
  BY <1>1, <1>18 DEF SaveCheckPrior, SavePrepareFails, SaveStageFails, Abort, FileView
<1>19. CASE StepBegin \/ StepSteps \/ NewMetadata \/ Prewarm
  BY <1>1, <1>19 DEF StepBegin, StepSteps, StepPart, StepEnd, NewMetadata, Prewarm, FileView
<1>20. ASSUME NEW s \in Stagings, StagerSteps(s)
       PROVE  FileInv'
  BY <1>1, <1>20 DEF StagerSteps, StageBegin, StagePart, StageDone, FileView
<1>21. ASSUME NEW s \in Saves, CallbackSteps(s)
       PROVE  FileInv'
  BY <1>1, <1>21 DEF CallbackSteps, BuildInfo, RunDowngrade, RunArm, RunRelease, FileView
<1> HIDE DEF FileInv, Untaken, trainerVars, lockVars, stageVars, commVars, childVars
<1> QED
  BY <1>2, <1>3, <1>5, <1>6, <1>7, <1>8, <1>9, <1>10, <1>11, <1>12, <1>13, <1>14, <1>15, <1>16,
     <1>17,
     <1>18, <1>19, <1>20, <1>21
  DEF Next, SaveSteps, CommSteps, CreationSteps, ChildSteps, CloseSteps, Closed

-----------------------------------------------------------------------------
(* What SnapshotStore sees of a save, by the state of its write.           *)
LEMMA ViewAt ==
  ASSUME NEW s \in Saves, wf \in [Saves -> {"none", "queued", "running", "ok", "failed", "cancelled"}]
  PROVE  /\ wf[s] = "none" => CkptView[s] = [state |-> "none"]
         /\ InFlight(s) => CkptView[s] = [state |-> "pending", content |-> captured[s]]
         /\ wf[s] = "ok" => CkptView[s] = [state |-> "durable", content |-> files[s]]
         /\ wf[s] \in {"failed", "cancelled"} => CkptView[s] = [state |-> "lost"]
  BY DEF CkptView, InFlight

(* A step after which s looks the same.                                    *)
Stays(s) ==
  /\ wf'[s] = wf[s] \/ (wf[s] = "queued" /\ wf'[s] = "running")
  /\ InFlight(s) => captured'[s] = captured[s]
  /\ wf[s] = "ok" => files'[s] = files[s]

(* Stays keeps the view.                                                   *)
LEMMA ViewStays ==
  ASSUME TypeOK, TypeOK'
  PROVE  /\ \A s \in Saves : Stays(s) => CkptView'[s] = CkptView[s]
         /\ (\A s \in Saves : Stays(s)) => CkptView' = CkptView
<1>1. /\ wf \in [Saves -> {"none", "queued", "running", "ok", "failed", "cancelled"}]
      /\ wf' \in [Saves -> {"none", "queued", "running", "ok", "failed", "cancelled"}]
  BY DEF TypeOK
<1>2. ASSUME NEW s \in Saves, Stays(s)
      PROVE  CkptView'[s] = CkptView[s]
  <2>1. CASE wf[s] = "none"
    BY <1>2, <2>1 DEF Stays, CkptView
  <2>2. CASE InFlight(s)
    BY <1>2, <2>2 DEF Stays, CkptView, InFlight
  <2>3. CASE wf[s] = "ok"
    BY <1>2, <2>3 DEF Stays, CkptView
  <2>4. CASE wf[s] \in {"failed", "cancelled"}
    BY <1>2, <2>4 DEF Stays, CkptView
  <2> QED
    BY <1>1, <2>1, <2>2, <2>3, <2>4 DEF InFlight
<1>3. CkptView = [s \in Saves |-> CkptView[s]] /\ CkptView' = [s \in Saves |-> CkptView'[s]]
  BY DEF CkptView
<1>4. (\A s \in Saves : CkptView'[s] = CkptView[s]) => CkptView' = CkptView
  BY <1>3
<1> QED
  BY <1>2, <1>4

(* A write that ends, with the capture or not at all, is a Finish.         *)
LEMMA ViewFinishes ==
  ASSUME TypeOK, TypeOK', NEW s \in Saves, InFlight(s), wf'[s] \in {"ok", "failed", "cancelled"},
         wf'[s] = "ok" => files'[s] = captured[s],
         \A t \in Saves \ {s} : Stays(t),
         UNCHANGED <<params, meta>>
  PROVE  Store!Finish(s)
<1>1. CkptView[s] = [state |-> "pending", content |-> captured[s]]
  BY ViewAt DEF TypeOK
<1>2. /\ wf'[s] = "ok" => CkptView'[s] = [state |-> "durable", content |-> captured[s]]
      /\ wf'[s] # "ok" => CkptView'[s] = [state |-> "lost"]
  BY DEF CkptView
<1>3. CkptView = [t \in Saves |-> CkptView[t]] /\ CkptView' = [t \in Saves |-> CkptView'[t]]
  BY DEF CkptView
<1>4. \A t \in Saves \ {s} : CkptView'[t] = CkptView[t]
  BY ViewStays
<1>5. CkptView' = [CkptView EXCEPT ![s] = CkptView'[s]]
  BY <1>3, <1>4
<1> QED
  BY <1>1, <1>2, <1>5 DEF Store!Finish, Store!Captured

(* Initial states map to initial states,                                   *)
LEMMA StoreInit == Init => Store!Init
<1>1. ASSUME Init
      PROVE  params \in [Parts -> Versions] /\ meta \in Metas
  BY <1>1, AsyncSaverAssumption DEF Init, Versions, Metas
<1>2. ASSUME Init
      PROVE  CkptView = [s \in Saves |-> [state |-> "none"]]
  BY <1>2 DEF Init, CkptView
<1> QED
  BY <1>1, <1>2 DEF Store!Init, Store!NoCkpt

(* and every step to a step of SnapshotStore or to a stutter.              *)
LEMMA StoreStep ==
  ASSUME TypeOK, TypeOK', LockInv, WriteInv, FrozenInv, MetaInv, FileInv, [Next]_vars
  PROVE  Store!Next \/ UNCHANGED Store!vars
<1> USE Sorts DEF trainerVars, lockVars, stageVars, commVars, childVars
<1>types. /\ cur \in 0 .. MaxSaves
      /\ wf \in [Saves -> {"none", "queued", "running", "ok", "failed", "cancelled"}]
      /\ captured \in [Saves -> [data : [Parts -> Versions], meta : Metas]]
      /\ params \in [Parts -> Versions] /\ meta \in Metas
  BY DEF TypeOK
<1>1. ASSUME UNCHANGED <<params, meta>>, \A s \in Saves : Stays(s)
      PROVE  UNCHANGED Store!vars
  BY <1>1, ViewStays DEF Store!vars
<1>2. ASSUME UNCHANGED <<params, meta, wf, captured, files>>
      PROVE  UNCHANGED Store!vars
  BY <1>1, <1>2 DEF Stays
<1>3. ASSUME NEW p \in Parts, StepPart(p)
      PROVE  Store!Update
  <2>1. params' = [params EXCEPT ![p] = step] /\ step \in Versions
    BY <1>3 DEF StepPart, TypeOK
  <2>2. UNCHANGED meta /\ \A s \in Saves : Stays(s)
    BY <1>3 DEF StepPart, Stays
  <2>3. CkptView' = CkptView
    BY <2>2, ViewStays
  <2> QED
    BY <2>1, <2>2, <2>3 DEF Store!Update
<1>4. CASE NewMetadata
  <2>1. UNCHANGED params /\ \A s \in Saves : Stays(s)
    BY <1>4 DEF NewMetadata, Stays
  <2>2. CkptView' = CkptView
    BY <2>1, ViewStays
  <2>3. meta' \in Metas
    BY DEF TypeOK
  <2>4. Store!Update
    BY <2>1, <2>2, <2>3 DEF Store!Update
  <2> QED
    BY <2>4 DEF Store!Next
<1>5. CASE SaveLaunch
  <2>1. UNCHANGED <<params, meta, captured, files>> /\ cur \in Saves
    BY <1>types, <1>5 DEF SaveLaunch, Abort, LockInv, CallInv, CallPcs
  <2>2. CASE wf' = wf
    BY <1>2, <2>1, <2>2
  <2>3. CASE wf' = [wf EXCEPT ![cur] = "queued"]
    <3>1. wf[cur] = "none"
      BY <1>5, <2>1 DEF SaveLaunch, WriteInv
    <3>2. captured[cur] = [data |-> params, meta |-> meta]
      BY <1>types, <1>5, <2>1 DEF SaveLaunch, FrozenInv, Frozen, MetaInv, Preparing
    <3>3. CkptView[cur] = [state |-> "none"]
      BY <1>types, <2>1, <3>1, ViewAt
    <3>4. CkptView'[cur] = [state |-> "pending", content |-> captured[cur]]
      BY <1>types, <2>1, <2>3 DEF CkptView
    <3>5. \A t \in Saves \ {cur} : CkptView'[t] = CkptView[t]
      BY <1>types, <2>1, <2>3, ViewStays DEF Stays
    <3>6. CkptView = [t \in Saves |-> CkptView[t]] /\ CkptView' = [t \in Saves |-> CkptView'[t]]
      BY DEF CkptView
    <3>7. CkptView' = [CkptView EXCEPT ![cur] = CkptView'[cur]]
      BY <3>5, <3>6
    <3>8. Store!Save(cur)
      BY <2>1, <3>2, <3>3, <3>4, <3>7 DEF Store!Save, Store!Captured, Store!NoCkpt
    <3> QED
      BY <2>1, <3>8 DEF Store!Next
  <2> QED
    BY <1>5, <2>2, <2>3 DEF SaveLaunch
<1>6. CASE SavePrepare
  <2>1. cur \in Saves /\ wf[cur] = "none" /\ UNCHANGED <<params, meta, wf, files>>
    BY <1>types, <1>6 DEF SavePrepare, WriteInv, Begun, LockInv, CallInv, CallPcs
  <2>2. \A s \in Saves : Stays(s)
    BY <1>types, <1>6, <2>1 DEF SavePrepare, Stays, InFlight
  <2> QED
    BY <1>1, <2>1, <2>2
<1>7. ASSUME NEW s \in Saves, NEW outcome \in {"ok", "failed", "cancelled"}, WriteDone(s,
             outcome),
             InFlight(s), outcome = "ok" => files[s] = captured[s],
             UNCHANGED <<params, meta, captured, files>>
      PROVE  Store!Next
  <2>1. wf'[s] = outcome /\ \A t \in Saves \ {s} : Stays(t)
    BY <1>types, <1>7 DEF WriteDone, Stays
  <2>2. Store!Finish(s)
    BY <1>7, <2>1, ViewFinishes
  <2> QED
    BY <2>2 DEF Store!Next
<1>8. ASSUME NEW s \in Saves, CommBegin(s)
      PROVE  Store!Next \/ UNCHANGED Store!vars
  <2>1. CASE wf' = [wf EXCEPT ![s] = "running"]
    BY <1>1, <1>8, <1>types, <2>1 DEF CommBegin, Stays
  <2>2. CASE WriteDone(s, "failed")
    BY <1>7, <1>8, <2>2 DEF CommBegin, InFlight
  <2> QED
    BY <1>8, <2>1, <2>2 DEF CommBegin
<1>9. ASSUME NEW s \in Saves, CommInfo(s)
      PROVE  Store!Next \/ UNCHANGED Store!vars
  <2>1. CASE WriteDone(s, "failed")
    BY <1>7, <1>9, <2>1 DEF CommInfo, InFlight
  <2>2. CASE UNCHANGED <<wf, cb>>
    BY <1>2, <1>9, <2>2 DEF CommInfo
  <2> QED
    BY <1>9, <2>1, <2>2 DEF CommInfo
<1>10. ASSUME NEW s \in Saves, CommSend(s)
      PROVE  Store!Next \/ UNCHANGED Store!vars
  <2>1. CASE WriteDone(s, "failed")
    BY <1>7, <1>10, <2>1 DEF CommSend, InFlight
  <2>2. CASE UNCHANGED <<wf, cb>>
    BY <1>2, <1>10, <2>2 DEF CommSend
  <2> QED
    BY <1>10, <2>1, <2>2 DEF CommSend
<1>11. ASSUME NEW s \in Saves, CommRecv(s)
      PROVE  Store!Next
  BY <1>7, <1>11 DEF CommRecv, InFlight, FileInv
<1>12. ASSUME NEW s \in Saves, CloseCancel(s)
      PROVE  Store!Next
  BY <1>7, <1>12 DEF CloseCancel, InFlight
<1>13. ASSUME NEW s \in Saves, ChildTake(s) \/ \E p \in Parts : ChildPart(s, p)
      PROVE  UNCHANGED Store!vars
  <2>1. UNCHANGED <<params, meta, wf, captured>> /\ wf[s] = "running"
    BY <1>13 DEF ChildTake, ChildPart
  <2>2. \A t \in Saves : t # s => files'[t] = files[t]
    BY <1>13, ChildPartFiles DEF ChildTake, TypeOK
  <2> QED
    BY <1>1, <2>1, <2>2 DEF Stays
<1>14. ASSUME NEW s \in Saves, ChildAnswer(s) \/ CallbackSteps(s)
      PROVE  UNCHANGED Store!vars
  BY <1>2, <1>14 DEF ChildAnswer, CallbackSteps, BuildInfo, RunDowngrade, RunArm, RunRelease
<1>15. ASSUME NEW s \in Stagings, StagerSteps(s)
      PROVE  UNCHANGED Store!vars
  BY <1>2, <1>15 DEF StagerSteps, StageBegin, StagePart, StageDone
<1>16. CASE Spawn \/ ChildStarts \/ Created \/ ChildFails \/ ChildCrash \/ ChildHangs
  BY <1>2, <1>16 DEF Spawn, ChildStarts, Created, ChildFails, ChildCrash, ChildHangs
<1>17. CASE CloseCall \/ CloseWait \/ CloseStager \/ CloseComm \/ CloseChild \/ UNCHANGED vars
  BY <1>2, <1>17 DEF CloseCall, CloseWait, CloseStager, CloseComm, CloseChild, vars
<1>18. CASE SaveCall \/ SaveWarm \/ SaveAcquire \/ SaveAcquireTimeout \/ SaveStage \/
            SaveArm \/ SaveReturn
  BY <1>2, <1>18
  DEF SaveCall, SaveWarm, SaveAcquire, SaveAcquireTimeout, SaveStage, SaveArm, SaveReturn
<1>19. CASE SaveCheckPrior \/ SavePrepareFails \/ SaveStageFails
  BY <1>2, <1>19 DEF SaveCheckPrior, SavePrepareFails, SaveStageFails, Abort
<1>20. CASE StepBegin \/ StepEnd \/ Prewarm
  BY <1>2, <1>20 DEF StepBegin, StepEnd, Prewarm
<1>21. Store!Update => Store!Next
  BY DEF Store!Next
<1> HIDE DEF trainerVars, lockVars, stageVars, commVars, childVars
<1> QED
  BY <1>3, <1>4, <1>5, <1>6, <1>8, <1>9, <1>10, <1>11, <1>12, <1>13, <1>14, <1>15, <1>16, <1>17,
     <1>18, <1>19, <1>20, <1>21
  DEF Next, SaveSteps, StepSteps, CommSteps, CreationSteps, ChildSteps, CloseSteps, Closed

-----------------------------------------------------------------------------
(* The inductive invariant.                                                *)
SInv ==
  /\ IInv /\ CommInv /\ InfoInv /\ FrozenInv /\ StagingInv
  /\ BufferInv /\ MetaInv /\ FileInv

LEMMA InitSnapshot == Init => SInv
<1>1. SUFFICES ASSUME Init PROVE SInv
  OBVIOUS
<1>2. CommInv /\ InfoInv
  BY <1>1, Sorts DEF Init, CommInv, InfoInv
<1>3. FrozenInv /\ StagingInv
  BY <1>1, Sorts DEF Init, FrozenInv, Frozen, Exclusive, StagingInv, InFlight
<1>4. BufferInv /\ MetaInv
  BY <1>1, Sorts DEF Init, BufferInv, Owed, MetaInv, InFlight, Preparing
<1>5. FileInv
  BY <1>1 DEF Init, FileInv
<1> QED
  BY <1>1, <1>2, <1>3, <1>4, <1>5, InitInv DEF SInv

LEMMA SnapshotStep == SInv /\ [Next]_vars => SInv'
<1>1. SUFFICES ASSUME SInv, [Next]_vars PROVE SInv'
  OBVIOUS
<1>2. /\ IInv /\ IInv' /\ TypeOK /\ LockInv /\ WriteInv /\ WarmInv /\ CloseInv
      /\ CommInv /\ InfoInv /\ FrozenInv /\ StagingInv /\ BufferInv /\ MetaInv /\ FileInv
  BY <1>1, InvStep DEF SInv, IInv
<1>3. CommInv' /\ InfoInv' /\ FrozenInv' /\ StagingInv' /\ BufferInv' /\ MetaInv'
  BY <1>1, <1>2, CommStep, InfoStep, FrozenStep, StagingStep, BufferStep, MetaStep
<1>4. FileInv'
  BY <1>1, <1>2, <1>3, FileStep
<1> QED
  BY <1>2, <1>3, <1>4 DEF SInv

(* The saver keeps SInv.                                                   *)
LEMMA SnapshotHolds == Spec => []SInv
  BY InitSnapshot, SnapshotStep, PTL DEF Spec

(* A checkpoint that was written holds the training state and the metadata *)
(* of the moment its save() was called: the lock keeps updates from the    *)
(* copy and copies from the read, and metadata is left out of a request    *)
(* only when the child has it.                                             *)
THEOREM SaverSnapshotAtSave == Spec => []SnapshotAtSave
<1>1. SInv => SnapshotAtSave
  BY DEF SInv, FileInv, SnapshotAtSave
<1> QED
  BY <1>1, SnapshotHolds, PTL

(* Whatever the child reads of the shared buffer for a save is what that   *)
(* save captured: the stager never fills the buffer under its reader.      *)
ChildReadsCapture ==
  \A s \in Saves : wf[s] = "running" /\ child = "writing" => buffer = captured[s].data

THEOREM SaverChildReadsCapture == Spec => []ChildReadsCapture
<1>1. SInv => ChildReadsCapture
  <2>1. SUFFICES ASSUME SInv, NEW s \in Saves, wf[s] = "running", child = "writing"
                 PROVE  buffer = captured[s].data
    BY DEF ChildReadsCapture
  <2>2. created = "ok" /\ cpc = "recv"
    BY <2>1 DEF SInv, CommInv, Talk
  <2>3. info[s] = "ok" /\ sf[s] = "ok"
    BY <2>1, <2>2 DEF SInv, InfoInv
  <2> QED
    BY <2>1, <2>2, <2>3 DEF SInv, BufferInv, Owed, InFlight
<1> QED
  BY <1>1, SnapshotHolds, PTL

(* What the class docstring of the saver says, with the exceptions there   *)
(* are: the buffer is filled for a save under the write hold of the lock,  *)
(* unless save() raised in the launch, because the child process could not *)
(* be created or the submission of the write failed.  It has then given    *)
(* the lock back with its staging still to run, and no write reads what is *)
(* staged.                                                                 *)
FilledUnderLockUnlessGivenUp ==
  \A s \in Saves : sf[s] = "copying" /\ ~writer_active => GaveUp(s)

THEOREM SaverFillsUnderLock == Spec => []FilledUnderLockUnlessGivenUp
<1>1. SInv => FilledUnderLockUnlessGivenUp
  <2>1. SUFFICES ASSUME SInv, NEW s \in Saves, sf[s] = "copying", ~writer_active
                 PROVE  GaveUp(s)
    BY DEF FilledUnderLockUnlessGivenUp
  <2>2. tpc \in {"launch", "arm"} \/ cb[s] = "registered" => writer_active
    BY <2>1 DEF SInv, IInv, LockInv, HeldPcs, Exclusive
  <2> QED
    BY <2>1, <2>2 DEF SInv, StagingInv
<1> QED
  BY <1>1, SnapshotHolds, PTL

(* The saver implements SnapshotStore: seen from outside, the state of a   *)
(* save() is captured at once, and later becomes durable whole or is lost. *)
THEOREM SaverImplementsSnapshotStore == Spec => ImplementsSnapshotStore
<1>1. SInv /\ SInv' /\ [Next]_vars => [Store!Next]_Store!vars
  BY StoreStep DEF SInv, IInv
<1> QED
  BY <1>1, StoreInit, SnapshotHolds, PTL DEF Spec, ImplementsSnapshotStore, Store!Spec
=============================================================================
