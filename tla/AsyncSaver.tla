----------------------------- MODULE AsyncSaver -----------------------------
(***************************************************************************)
(* AsyncCheckpointSaver (checkpoint_saver.py) with the threads it starts:  *)
(*   the trainer      calls save(), updates its state under the staging    *)
(*                    lock, and closes;                                    *)
(*   the stager       a one-thread executor that copies the state into the *)
(*                    shared-memory buffer (staging.py);                   *)
(*   the comm thread  a one-thread executor that sends the staged buffer   *)
(*                    to the child and waits for its answer                *)
(*                    (checkpoint_process.py);                             *)
(*   the child        the process that reads the buffer and writes it.     *)
(* They meet in futures with callbacks and in the staging lock, whose two  *)
(* fields are here as in lock.py (RWLock models the waiting).              *)
(*                                                                         *)
(* The manager (checkpoint_manager.py) may have the stager fill the buffer *)
(* before the first save, which allocates it.                              *)
(*                                                                         *)
(* Save number s is the s-th call of save().  A callback that must run is  *)
(* a value of cb[s]; the thread that completes the future, or the trainer  *)
(* when it registers on a future that is complete, runs it in later steps. *)
(***************************************************************************)
EXTENDS Naturals, FiniteSets

CONSTANTS
  Parts,      \* the tensors of the training state
  MaxSaves,   \* bound: calls of save()
  MaxSteps,   \* bound: optimizer steps
  MaxMeta,    \* bound: changes of the distributed metadata
  MaxWarm,    \* bound: calls of prewarm_staging()
  Faults      \* the failures that may happen

AllFaults == {"acquire", "prepare", "stage", "create", "submit", "send", "write",
              "crash", "hang", "wait"}

ASSUME AsyncSaverAssumption ==
  /\ IsFiniteSet(Parts) /\ Parts # {}
  /\ MaxSaves \in Nat /\ MaxSteps \in Nat /\ MaxMeta \in Nat /\ MaxWarm \in Nat
  /\ Faults \subseteq AllFaults

Saves == 1 .. MaxSaves
Warmup == 0                  \* the staging of prewarm_staging()
Stagings == Saves \union {Warmup}
Versions == 0 .. MaxSteps
Metas == 1 .. (MaxMeta + 1)
NoMeta == 0                  \* None

VARIABLES
  tpc,            \* where the trainer is
  cur,            \* its last call of save()
  params,         \* the training state
  step,           \* optimizer steps begun
  meta,           \* the serialized metadata object of the metadata manager
  sent,           \* _sent_serialized_metadata
  prior,          \* _write_future, 0 for None
  readers,        \* RWLock._readers
  writer_active,  \* RWLock._writer_active
  lock_error,     \* a callback's release() or downgrade() has raised
  carried,        \* the metadata a save's write info carries
  captured,       \* history: what save() was called on
  warmed,         \* calls of prewarm_staging()
  sf,             \* the staging futures
  info,           \* the futures of the write info built from the staged state
  cb,             \* the downgrade-then-release callbacks
  wf,             \* the write futures
  buffer,         \* the staging buffer
  copied,         \* the parts the running staging has copied
  cpc,            \* where the comm thread is
  created,        \* the creation future of the child
  child,          \* the child process
  cache,          \* its metadata_cache
  reply,          \* its answer in the pipe
  files           \* what the child has written for each save

trainerVars == <<tpc, cur, params, step, meta, sent, prior, captured, carried>>
lockVars == <<readers, writer_active, lock_error>>
stageVars == <<warmed, sf, buffer, copied>>
commVars == <<wf, cpc>>
childVars == <<created, child, cache, reply, files>>
vars == <<trainerVars, lockVars, stageVars, info, cb, commVars, childVars>>

TrainerPcs ==
  {"idle", "warm", "acquire", "check", "prepare", "stage", "launch", "arm", "callback",
   "step", "close_wait", "close_stager", "close_comm", "close_child", "closed"}

CallbackStates ==
  {"none", "registered", "downgrade", "arm", "armed", "release", "done"}

Done(f) == f \in {"ok", "failed", "cancelled"}

NoFile == [data |-> [p \in {} |-> 0], meta |-> NoMeta]

Files == [data : UNION {[P -> Versions] : P \in SUBSET Parts},
          meta : Metas \union {NoMeta}]

TypeOK ==
  /\ tpc \in TrainerPcs
  /\ cur \in 0 .. MaxSaves
  /\ params \in [Parts -> Versions]
  /\ step \in Versions
  /\ meta \in Metas
  /\ sent \in Metas \union {NoMeta}
  /\ prior \in 0 .. MaxSaves
  /\ readers \in Nat
  /\ writer_active \in BOOLEAN
  /\ lock_error \in BOOLEAN
  /\ carried \in [Saves -> Metas \union {NoMeta}]
  /\ captured \in [Saves -> [data : [Parts -> Versions], meta : Metas]]
  /\ warmed \in 0 .. MaxWarm
  /\ sf \in [Stagings -> {"none", "queued", "copying", "ok", "failed"}]
  /\ info \in [Saves -> {"pending", "ok", "failed"}]
  /\ cb \in [Saves -> CallbackStates]
  /\ wf \in [Saves -> {"none", "queued", "running", "ok", "failed", "cancelled"}]
  /\ buffer \in [Parts -> Versions]
  /\ copied \in SUBSET Parts
  /\ cpc \in {"idle", "await", "send", "recv"}
  /\ created \in {"pending", "ok", "failed"}
  /\ child \in {"down", "starting", "waiting", "request", "writing", "hung", "dead"}
  /\ cache \in Metas \union {NoMeta}
  /\ reply \in {"none", "ok", "failed"}
  /\ files \in [Saves -> Files]

Init ==
  /\ tpc = "idle"
  /\ cur = 0
  /\ params = [p \in Parts |-> 0]
  /\ step = 0
  /\ meta = 1
  /\ sent = NoMeta
  /\ prior = 0
  /\ readers = 0
  /\ writer_active = FALSE
  /\ lock_error = FALSE
  /\ carried = [s \in Saves |-> NoMeta]
  /\ captured = [s \in Saves |-> [data |-> [p \in Parts |-> 0], meta |-> 1]]
  /\ warmed = 0
  /\ sf = [s \in Stagings |-> "none"]
  /\ info = [s \in Saves |-> "pending"]
  /\ cb = [s \in Saves |-> "none"]
  /\ wf = [s \in Saves |-> "none"]
  /\ buffer = [p \in Parts |-> 0]
  /\ copied = {}
  /\ cpc = "idle"
  /\ created = "pending"
  /\ child = "down"
  /\ cache = NoMeta
  /\ reply = "none"
  /\ files = [s \in Saves |-> NoFile]
-----------------------------------------------------------------------------
(* The staging lock. *)

AcquireWrite ==
  /\ ~writer_active /\ readers = 0
  /\ writer_active' = TRUE
  /\ UNCHANGED <<readers, lock_error>>

AcquireRead ==
  /\ ~writer_active
  /\ readers' = readers + 1
  /\ UNCHANGED <<writer_active, lock_error>>

ReleaseWrite ==
  /\ writer_active' = FALSE
  /\ lock_error' = (lock_error \/ ~writer_active)
  /\ UNCHANGED readers

(* Mutant: the hold is given back twice, and release() does not check. *)
ReleaseReadTwice ==
  /\ readers' = readers - 2
  /\ UNCHANGED <<writer_active, lock_error>>

ReleaseRead ==
  /\ readers' = IF readers > 0 THEN readers - 1 ELSE readers
  /\ lock_error' = (lock_error \/ readers = 0)
  /\ UNCHANGED writer_active

DowngradeWrite ==
  /\ writer_active' = FALSE
  /\ readers' = IF writer_active THEN readers + 1 ELSE readers
  /\ lock_error' = (lock_error \/ ~writer_active)
-----------------------------------------------------------------------------
(* The trainer: save(). *)

(* save() is called: it waits for a prewarming, then in acquire_or_raise().*)
SaveCall ==
  /\ tpc = "idle" /\ cur < MaxSaves
  /\ tpc' = IF sf[Warmup] = "none" THEN "acquire" ELSE "warm"
  /\ cur' = cur + 1
  /\ UNCHANGED <<params, step, meta, sent, prior, captured, carried, lockVars,
                 stageVars, info, cb, commVars, childVars>>

(* The prewarming is over; its error, or that it lasts longer than         *)
(* wait_timeout_secs, is raised by this call and the next ones.            *)
SaveWarm ==
  /\ tpc = "warm"
  /\ \/ /\ sf[Warmup] = "ok"
        /\ sf' = [sf EXCEPT ![Warmup] = "none"]
        /\ tpc' = "acquire"
     \/ /\ sf[Warmup] = "failed" \/ (~Done(sf[Warmup]) /\ "wait" \in Faults)
        /\ tpc' = "idle"
        /\ UNCHANGED sf
  /\ UNCHANGED <<cur, params, step, meta, sent, prior, captured, carried, lockVars,
                 warmed, buffer, copied, info, cb, commVars, childVars>>

SaveAcquire ==
  /\ tpc = "acquire"
  /\ AcquireWrite
  /\ tpc' = "check"
  /\ UNCHANGED <<cur, params, step, meta, sent, prior, captured, carried,
                 stageVars, info, cb, commVars, childVars>>

(* acquire_or_raise() times out: save() raises, holding nothing. *)
SaveAcquireTimeout ==
  /\ "acquire" \in Faults
  /\ tpc = "acquire"
  /\ writer_active \/ readers > 0
  /\ tpc' = "idle"
  /\ UNCHANGED <<cur, params, step, meta, sent, prior, captured, carried, lockVars,
                 stageVars, info, cb, commVars, childVars>>

(* Mutants: the handler keeps the lock, or _sent_serialized_metadata. *)
AbortKeepsLock ==
  /\ sent' = NoMeta
  /\ tpc' = "idle"
  /\ UNCHANGED <<cur, params, step, meta, prior, captured, lockVars>>

AbortKeepsSent ==
  /\ ReleaseWrite
  /\ tpc' = "idle"
  /\ UNCHANGED <<cur, params, step, meta, sent, prior, captured>>

(* The handler of save(): the lock is released, and the child may not have *)
(* received the metadata.                                                  *)
Abort ==
  /\ ReleaseWrite
  /\ sent' = NoMeta
  /\ tpc' = "idle"
  /\ UNCHANGED <<cur, params, step, meta, prior, captured>>

(* Mutant: _write_future is set to None before its result is asked for. *)
SaveCheckForgets ==
  /\ tpc = "check"
  /\ prior' = 0
  /\ IF prior = 0 \/ (prior # 0 /\ wf[prior] = "ok")
     THEN tpc' = "prepare" /\ UNCHANGED <<sent, lockVars>>
     ELSE tpc' = "idle" /\ sent' = NoMeta /\ ReleaseWrite
  /\ UNCHANGED <<cur, params, step, meta, captured, carried, stageVars, info, cb,
                 commVars, childVars>>

(* A previous write that failed is raised here, and stays in _write_future. *)
SaveCheckPrior ==
  /\ tpc = "check"
  /\ \/ /\ prior = 0 \/ (prior # 0 /\ wf[prior] = "ok")
        /\ prior' = 0
        /\ tpc' = "prepare"
        /\ UNCHANGED <<cur, params, step, meta, sent, captured, carried, lockVars>>
     \/ /\ prior # 0 /\ wf[prior] \in {"failed", "cancelled"}
        /\ Abort
        /\ UNCHANGED carried
  /\ UNCHANGED <<stageVars, info, cb, commVars, childVars>>

(* _prepare_checkpoint_write_info: the metadata is fetched now and carried *)
(* only if the child was not sent this very object before.                 *)
SavePrepare ==
  /\ tpc = "prepare"
  /\ carried' = [carried EXCEPT ![cur] = IF meta = sent THEN NoMeta ELSE meta]
  /\ sent' = meta
  /\ captured' = [captured EXCEPT ![cur] = [data |-> params, meta |-> meta]]
  /\ tpc' = "stage"
  /\ UNCHANGED <<cur, params, step, meta, prior, lockVars, stageVars, info, cb,
                 commVars, childVars>>

SavePrepareFails ==
  /\ "prepare" \in Faults
  /\ tpc = "prepare"
  /\ Abort
  /\ UNCHANGED <<carried, stageVars, info, cb, commVars, childVars>>

(* Mutant: the callback is registered before the write is launched. *)
SaveStageArms ==
  /\ tpc = "stage"
  /\ sf' = [sf EXCEPT ![cur] = "queued"]
  /\ cb' = [cb EXCEPT ![cur] = "registered"]
  /\ tpc' = "launch"
  /\ UNCHANGED <<cur, params, step, meta, sent, prior, captured, carried, lockVars,
                 warmed, buffer, copied, info, commVars, childVars>>

(* _stage and fut_then: the staging is submitted to the stager, and the    *)
(* write info will be built from its result.                               *)
SaveStage ==
  /\ tpc = "stage"
  /\ sf' = [sf EXCEPT ![cur] = "queued"]
  /\ tpc' = "launch"
  /\ UNCHANGED <<cur, params, step, meta, sent, prior, captured, carried, lockVars,
                 warmed, buffer, copied, info, cb, commVars, childVars>>

(* A stager that stages in the caller's thread raises into save(). *)
SaveStageFails ==
  /\ "stage" \in Faults
  /\ tpc = "stage"
  /\ Abort
  /\ UNCHANGED <<carried, stageVars, info, cb, commVars, childVars>>

(* CheckpointProcess.write: wait for the child's creation, then submit.  A *)
(* failed creation is raised by every call; a submission that fails is     *)
(* raised too, and what it may have queued will not touch the write info.  *)
(* The staging goes on in both cases.                                      *)
SaveLaunch ==
  /\ tpc = "launch"
  /\ \/ /\ created = "ok"
        /\ wf' = [wf EXCEPT ![cur] = "queued"]
        /\ tpc' = "arm"
        /\ UNCHANGED <<cur, params, step, meta, sent, prior, captured, carried, lockVars>>
     \/ /\ created = "failed" \/ (created = "ok" /\ "submit" \in Faults)
        /\ Abort
        /\ UNCHANGED <<carried, wf>>
  /\ UNCHANGED <<stageVars, info, cb, cpc, childVars>>

(* staging_fut.add_done_callback: on a complete future the trainer itself  *)
(* runs the callback before save() goes on.                                *)
SaveArm ==
  /\ tpc = "arm"
  /\ IF Done(sf[cur])
     THEN /\ cb' = [cb EXCEPT ![cur] = "downgrade"]
          /\ tpc' = "callback"
     ELSE /\ cb' = [cb EXCEPT ![cur] = "registered"]
          /\ tpc' = "idle"
  /\ prior' = IF tpc' = "idle" THEN cur ELSE prior
  /\ UNCHANGED <<cur, params, step, meta, sent, captured, carried, lockVars,
                 stageVars, info, commVars, childVars>>

SaveReturn ==
  /\ tpc = "callback"
  /\ cb[cur] \notin {"downgrade", "arm"}
  /\ prior' = cur
  /\ tpc' = "idle"
  /\ UNCHANGED <<cur, params, step, meta, sent, captured, carried, lockVars,
                 stageVars, info, cb, commVars, childVars>>

(* Mutant: the update is not under lock(). *)
StepBeginUnlocked ==
  /\ tpc = "idle" /\ step < MaxSteps
  /\ step' = step + 1
  /\ tpc' = "step"
  /\ UNCHANGED <<cur, params, meta, sent, prior, captured, carried, lockVars,
                 stageVars, info, cb, commVars, childVars>>

(* The trainer between saves: an update under lock() (CheckpointManager),  *)
(* tensor by tensor, and a change of the structure of its state.           *)
StepBegin ==
  /\ tpc = "idle" /\ step < MaxSteps
  /\ AcquireRead
  /\ step' = step + 1
  /\ tpc' = "step"
  /\ UNCHANGED <<cur, params, meta, sent, prior, captured, carried, stageVars,
                 info, cb, commVars, childVars>>

StepPart(p) ==
  /\ tpc = "step" /\ params[p] # step
  /\ params' = [params EXCEPT ![p] = step]
  /\ UNCHANGED <<tpc, cur, step, meta, sent, prior, captured, carried, lockVars,
                 stageVars, info, cb, commVars, childVars>>

StepEnd ==
  /\ tpc = "step" /\ \A p \in Parts : params[p] = step
  /\ ReleaseRead
  /\ tpc' = "idle"
  /\ UNCHANGED <<cur, params, step, meta, sent, prior, captured, carried,
                 stageVars, info, cb, commVars, childVars>>

(* Mutant: prewarming does not ask whether a write reads the buffer. *)
PrewarmAlways ==
  /\ tpc = "idle" /\ warmed < MaxWarm /\ sf[Warmup] \in {"none", "ok"}
  /\ warmed' = warmed + 1
  /\ sf' = [sf EXCEPT ![Warmup] = "queued"]
  /\ UNCHANGED <<trainerVars, lockVars, buffer, copied, info, cb, commVars, childVars>>

(* prewarm_staging(), without the staging lock: refused while a write or   *)
(* another prewarming is under way, or after one that failed.              *)
Prewarm ==
  /\ tpc = "idle" /\ warmed < MaxWarm /\ sf[Warmup] \in {"none", "ok"}
  /\ prior = 0 \/ (prior # 0 /\ wf[prior] = "ok")
  /\ warmed' = warmed + 1
  /\ sf' = [sf EXCEPT ![Warmup] = "queued"]
  /\ UNCHANGED <<trainerVars, lockVars, buffer, copied, info, cb, commVars, childVars>>

(* invalidate_computed_metadata() and the computation that follows: a new  *)
(* object, which may be while a save is in flight.                         *)
NewMetadata ==
  /\ tpc = "idle" /\ meta <= MaxMeta
  /\ meta' = meta + 1
  /\ UNCHANGED <<tpc, cur, params, step, sent, prior, captured, carried, lockVars,
                 stageVars, info, cb, commVars, childVars>>
-----------------------------------------------------------------------------
(* The stager: one thread, stagings in the order they were submitted. *)

StagerBusy ==
  \/ \E s \in Stagings : sf[s] = "copying"
  \/ \E s \in Saves : Done(sf[s]) /\ cb[s] \in {"downgrade", "arm"}

(* A save waits for the prewarming: what is queued with it came before it. *)
QueuedBefore(s) == {t \in Saves : sf[t] = "queued" /\ (s = Warmup \/ t < s)}

(* DefaultStager._stage begins *)
StageBegin(s) ==
  /\ sf[s] = "queued" /\ ~StagerBusy /\ QueuedBefore(s) = {}
  /\ sf' = [sf EXCEPT ![s] = "copying"]
  /\ copied' = {}
  /\ UNCHANGED <<trainerVars, lockVars, warmed, buffer, info, cb, commVars, childVars>>

(* The deep copy into the pooled storages, tensor by tensor. *)
StagePart(s, p) ==
  /\ sf[s] = "copying" /\ p \notin copied
  /\ buffer' = [buffer EXCEPT ![p] = params[p]]
  /\ copied' = copied \union {p}
  /\ UNCHANGED <<trainerVars, lockVars, warmed, sf, info, cb, commVars, childVars>>

(* The staging future completes; the callbacks registered by now will run. *)
StageDone(s, outcome) ==
  /\ sf[s] = "copying"
  /\ outcome = "ok" => copied = Parts
  /\ outcome = "failed" => "stage" \in Faults
  /\ sf' = [sf EXCEPT ![s] = outcome]
  /\ cb' = [t \in Saves |-> IF t = s /\ cb[t] = "registered" THEN "downgrade" ELSE cb[t]]
  /\ UNCHANGED <<trainerVars, lockVars, warmed, buffer, copied, info, commVars, childVars>>

(* The first callback, registered by fut_then: build the write info. *)
BuildInfo(s) ==
  /\ Done(sf[s]) /\ info[s] = "pending"
  /\ info' = [info EXCEPT ![s] = sf[s]]
  /\ UNCHANGED <<trainerVars, lockVars, stageVars, cb, commVars, childVars>>

(* _downgrade_then_release_after_write, first half.  If it raises, the     *)
(* future logs the error and nothing else happens.  The stager runs it     *)
(* after BuildInfo, the trainer (in SaveArm) whenever it gets there.       *)
RunDowngrade(s) ==
  /\ cb[s] = "downgrade"
  /\ info[s] # "pending" \/ (tpc = "callback" /\ cur = s)
  /\ DowngradeWrite
  /\ cb' = [cb EXCEPT ![s] = IF writer_active THEN "arm" ELSE "done"]
  /\ UNCHANGED <<trainerVars, stageVars, info, commVars, childVars>>

(* Mutants: the read hold is released when the staging is over, or never   *)
(* when the write is over already.                                         *)
RunArmReleases(s) ==
  /\ cb[s] = "arm"
  /\ cb' = [cb EXCEPT ![s] = "release"]
  /\ UNCHANGED <<trainerVars, lockVars, stageVars, info, commVars, childVars>>

RunArmOnly(s) ==
  /\ cb[s] = "arm"
  /\ cb' = [cb EXCEPT ![s] = "armed"]
  /\ UNCHANGED <<trainerVars, lockVars, stageVars, info, commVars, childVars>>

(* Second half: register the read release, or run it at once if the write  *)
(* is over.                                                                *)
RunArm(s) ==
  /\ cb[s] = "arm"
  /\ cb' = [cb EXCEPT ![s] = IF Done(wf[s]) THEN "release" ELSE "armed"]
  /\ UNCHANGED <<trainerVars, lockVars, stageVars, info, commVars, childVars>>

RunRelease(s) ==
  /\ cb[s] = "release"
  /\ ReleaseRead
  /\ cb' = [cb EXCEPT ![s] = "done"]
  /\ UNCHANGED <<trainerVars, stageVars, info, commVars, childVars>>
-----------------------------------------------------------------------------
(* The comm thread: CheckpointProcess._write for one save at a time. *)

(* The write future of s completes; whoever waits for it may go on before  *)
(* the callback has released the lock.                                     *)
WriteDone(s, outcome) ==
  /\ wf' = [wf EXCEPT ![s] = outcome]
  /\ cb' = IF cb[s] = "armed" THEN [cb EXCEPT ![s] = "release"] ELSE cb

(* A submission that went wrong after the write was queued fails the write *)
(* here, before the staging is asked for.                                  *)
CommBegin(s) ==
  /\ cpc = "idle" /\ wf[s] = "queued"
  /\ \/ /\ wf' = [wf EXCEPT ![s] = "running"]
        /\ cpc' = "await"
        /\ UNCHANGED cb
     \/ /\ "submit" \in Faults
        /\ WriteDone(s, "failed")
        /\ UNCHANGED cpc
  /\ UNCHANGED <<trainerVars, lockVars, stageVars, info, childVars>>

CommInfo(s) ==
  /\ cpc = "await" /\ wf[s] = "running" /\ info[s] # "pending"
  /\ IF info[s] = "ok"
     THEN cpc' = "send" /\ UNCHANGED <<wf, cb>>
     ELSE cpc' = "idle" /\ WriteDone(s, "failed")
  /\ UNCHANGED <<trainerVars, lockVars, stageVars, info, childVars>>

(* _send: the pipe to a dead child raises, or the request cannot be        *)
(* pickled and the child is not told of it.                                *)
CommSend(s) ==
  /\ cpc = "send" /\ wf[s] = "running"
  /\ \/ /\ child # "dead"
        /\ child' = "request"
        /\ cpc' = "recv"
        /\ UNCHANGED <<wf, cb>>
     \/ /\ child = "dead" \/ "send" \in Faults
        /\ cpc' = "idle"
        /\ WriteDone(s, "failed")
        /\ UNCHANGED child
  /\ UNCHANGED <<trainerVars, lockVars, stageVars, info, created, cache, reply, files>>

(* Mutant: the parent keeps the child's end of the pipe open: no EOF. *)
CommRecvNoEof(s) ==
  /\ cpc = "recv" /\ wf[s] = "running"
  /\ reply # "none"
  /\ cpc' = "idle"
  /\ WriteDone(s, reply)
  /\ reply' = "none"
  /\ UNCHANGED <<trainerVars, lockVars, stageVars, info, created, child, cache, files>>

(* _recv: the answer, or EOF from a child that died without one.  It has   *)
(* no timeout.                                                             *)
CommRecv(s) ==
  /\ cpc = "recv" /\ wf[s] = "running"
  /\ reply # "none" \/ child = "dead"
  /\ cpc' = "idle"
  /\ WriteDone(s, IF reply = "ok" THEN "ok" ELSE "failed")
  /\ reply' = "none"
  /\ UNCHANGED <<trainerVars, lockVars, stageVars, info, created, child, cache, files>>
-----------------------------------------------------------------------------
(* The child. *)

(* _create_subprocess, in a thread of its own: the child is spawned ...    *)
Spawn ==
  /\ created = "pending" /\ child = "down"
  /\ \/ child' = "starting" /\ UNCHANGED created
     \/ "create" \in Faults /\ created' = "failed" /\ UNCHANGED child
  /\ UNCHANGED <<trainerVars, lockVars, stageVars, info, cb, commVars, cache, reply, files>>

(* ... makes its writer and answers the ping, or reports an error ...      *)
ChildStarts ==
  /\ child = "starting"
  /\ \/ child' = "waiting" /\ reply' = "ok"
     \/ "create" \in Faults /\ child' = "dead" /\ reply' = "failed"
  /\ UNCHANGED <<trainerVars, lockVars, stageVars, info, cb, commVars, created, cache, files>>

(* ... for which the parent waits subprocess_init_timeout_secs.  A child   *)
(* that is late goes on, and its answer stays in the pipe.                 *)
Created ==
  /\ created = "pending" /\ child # "down"
  /\ \/ reply = "ok" /\ created' = "ok" /\ reply' = "none"
     \/ /\ reply = "failed" \/ (reply = "none" /\ child = "dead")
        /\ created' = "failed" /\ reply' = "none"
     \/ child = "starting" /\ "create" \in Faults /\ created' = "failed" /\ UNCHANGED reply
  /\ UNCHANGED <<trainerVars, lockVars, stageVars, info, cb, commVars, child, cache, files>>

(* The write request is taken: metadata it carries replaces the cached. *)
ChildTake(s) ==
  /\ child = "request" /\ wf[s] = "running"
  /\ child' = "writing"
  /\ cache' = IF carried[s] # NoMeta THEN carried[s] ELSE cache
  /\ files' = [files EXCEPT ![s].meta = cache']
  /\ UNCHANGED <<trainerVars, lockVars, stageVars, info, cb, commVars, created, reply>>

(* A tensor is read from the shared staging buffer into its file. *)
ChildPart(s, p) ==
  /\ child = "writing" /\ wf[s] = "running"
  /\ p \notin DOMAIN files[s].data
  /\ files' = [files EXCEPT ![s].data =
                 [q \in DOMAIN @ \union {p} |-> IF q = p THEN buffer[p] ELSE @[q]]]
  /\ UNCHANGED <<trainerVars, lockVars, stageVars, info, cb, commVars, created,
                 child, cache, reply>>

ChildAnswer(s) ==
  /\ child = "writing" /\ wf[s] = "running"
  /\ DOMAIN files[s].data = Parts
  /\ child' = "waiting"
  /\ reply' = "ok"
  /\ UNCHANGED <<trainerVars, lockVars, stageVars, info, cb, commVars, created,
                 cache, files>>

(* An exception in the writer is sent to the parent and ends the child. *)
ChildFails ==
  /\ "write" \in Faults
  /\ child = "writing"
  /\ child' = "dead"
  /\ reply' = "failed"
  /\ UNCHANGED <<trainerVars, lockVars, stageVars, info, cb, commVars, created,
                 cache, files>>

(* The child is killed: at any time, without an answer. *)
ChildCrash ==
  /\ "crash" \in Faults
  /\ child \in {"starting", "waiting", "request", "writing", "hung"}
  /\ child' = "dead"
  /\ UNCHANGED <<trainerVars, lockVars, stageVars, info, cb, commVars, created,
                 cache, reply, files>>

(* The writer never returns: storage that does not answer, or a peer that  *)
(* never reaches the barrier.                                              *)
ChildHangs ==
  /\ "hang" \in Faults
  /\ child = "writing"
  /\ child' = "hung"
  /\ UNCHANGED <<trainerVars, lockVars, stageVars, info, cb, commVars, created,
                 cache, reply, files>>
-----------------------------------------------------------------------------
(* The trainer: CheckpointManager.close(). *)

CloseCall ==
  /\ tpc = "idle"
  /\ tpc' = "close_wait"
  /\ UNCHANGED <<cur, params, step, meta, sent, prior, captured, carried, lockVars,
                 stageVars, info, cb, commVars, childVars>>

(* Wait for the prewarming and the last write: they are over, one failed   *)
(* (the error is raised when the rest of close() is done, and the write is *)
(* not waited for after a failed prewarming), or wait_timeout_secs are.    *)
CloseWait ==
  /\ tpc = "close_wait"
  /\ \/ sf[Warmup] = "failed" \/ "wait" \in Faults
     \/ sf[Warmup] \in {"none", "ok"} /\ (prior = 0 \/ (prior # 0 /\ Done(wf[prior])))
  /\ tpc' = "close_stager"
  /\ UNCHANGED <<cur, params, step, meta, sent, prior, captured, carried, lockVars,
                 stageVars, info, cb, commVars, childVars>>

(* DefaultStager.close: the staging executor is drained. *)
CloseStager ==
  /\ tpc = "close_stager"
  /\ ~StagerBusy /\ \A s \in Stagings : sf[s] # "queued"
  /\ tpc' = "close_comm"
  /\ UNCHANGED <<cur, params, step, meta, sent, prior, captured, carried, lockVars,
                 stageVars, info, cb, commVars, childVars>>

(* CheckpointProcess._shutdown_subprocess: executor.shutdown(wait=True,    *)
(* cancel_futures=True) cancels a write the comm thread has not begun ...  *)
CloseCancel(s) ==
  /\ tpc = "close_comm" /\ wf[s] = "queued"
  /\ WriteDone(s, "cancelled")
  /\ UNCHANGED <<trainerVars, lockVars, stageVars, info, cpc, childVars>>

(* ... and waits for the one it has begun. *)
CloseComm ==
  /\ tpc = "close_comm"
  /\ cpc = "idle" /\ \A s \in Saves : wf[s] # "queued"
  /\ tpc' = "close_child"
  /\ UNCHANGED <<cur, params, step, meta, sent, prior, captured, carried, lockVars,
                 stageVars, info, cb, commVars, childVars>>

(* The creation is cancelled if it has not begun, or waited for; a child   *)
(* there is, even one the creation gave up on, is told to terminate, or    *)
(* killed.                                                                 *)
CloseChild ==
  /\ tpc = "close_child"
  /\ \/ created # "pending" /\ UNCHANGED created
     \/ created = "pending" /\ child = "down" /\ created' = "failed"
  /\ child' = IF child = "down" THEN "down" ELSE "dead"
  /\ tpc' = "closed"
  /\ UNCHANGED <<cur, params, step, meta, sent, prior, captured, carried, lockVars,
                 stageVars, info, cb, commVars, cache, reply, files>>

Closed == tpc = "closed" /\ UNCHANGED vars
-----------------------------------------------------------------------------
SaveSteps ==
  \/ SaveWarm \/ SaveAcquire \/ SaveCheckPrior \/ SavePrepare \/ SavePrepareFails
  \/ SaveStage \/ SaveStageFails \/ SaveLaunch \/ SaveArm \/ SaveReturn

StepSteps == StepEnd \/ \E p \in Parts : StepPart(p)

StagerSteps(s) ==
  \/ StageBegin(s)
  \/ \E p \in Parts : StagePart(s, p)
  \/ StageDone(s, "ok")
  \/ StageDone(s, "failed")

CallbackSteps(s) == BuildInfo(s) \/ RunDowngrade(s) \/ RunArm(s) \/ RunRelease(s)

CommSteps(s) == CommBegin(s) \/ CommInfo(s) \/ CommSend(s) \/ CommRecv(s)

CreationSteps == Spawn \/ Created

ChildSteps(s) ==
  ChildTake(s) \/ ChildAnswer(s) \/ \E p \in Parts : ChildPart(s, p)

CloseSteps ==
  \/ CloseWait \/ CloseStager \/ CloseComm \/ CloseChild
  \/ \E s \in Saves : CloseCancel(s)

Next ==
  \/ SaveCall \/ SaveAcquireTimeout \/ SaveSteps
  \/ StepBegin \/ StepSteps \/ NewMetadata \/ Prewarm
  \/ \E s \in Stagings : StagerSteps(s)
  \/ \E s \in Saves : CallbackSteps(s) \/ CommSteps(s) \/ ChildSteps(s)
  \/ CreationSteps \/ ChildStarts
  \/ ChildFails \/ ChildCrash \/ ChildHangs
  \/ CloseCall \/ CloseSteps \/ Closed

Spec == Init /\ [][Next]_vars

(* Every thread and the child run; the trainer calls what it likes when it *)
(* likes, but a call or an update it has begun goes on.  A child may take  *)
(* for ever to start when the creation times out.                          *)
Fairness ==
  /\ WF_vars(SaveSteps) /\ WF_vars(StepSteps) /\ WF_vars(CloseSteps)
  /\ WF_vars(CreationSteps)
  /\ "create" \notin Faults => WF_vars(ChildStarts)
  /\ \A s \in Stagings : WF_vars(StagerSteps(s))
  /\ \A s \in Saves :
       /\ WF_vars(CallbackSteps(s))
       /\ WF_vars(CommSteps(s)) /\ WF_vars(ChildSteps(s))

FairSpec == Spec /\ Fairness
-----------------------------------------------------------------------------
(* checkpoint_saver.py, class docstring and _prepare_checkpoint_write_info: *)
(* a checkpoint that was written holds the training state and the metadata *)
(* of the moment save() was called.  It takes the lock protocol (no update *)
(* while the stager copies, no staging while the child reads the buffer)   *)
(* and the protocol that sends metadata only when it changed.              *)
SnapshotAtSave ==
  \A s \in Saves : wf[s] = "ok" => files[s] = captured[s]

(* The comment in save() on its callbacks: the read release is never       *)
(* scheduled before the downgrade.  A release() or downgrade() that raises *)
(* would be swallowed by the future and the lock would never be free again.*)
LockNeverMisused == ~lock_error

(* The comment in save(): the write acquire has waited for the previous    *)
(* checkpoint, so _write_future.result() returns immediately.              *)
PriorWriteOver ==
  tpc = "check" /\ prior # 0 => Done(wf[prior])

(* Whatever failed, once no callback is pending and no call of save() is   *)
(* running, nobody holds the staging lock.                                 *)
LockNotLeaked ==
  (tpc \in {"idle", "closed"} /\ \A s \in Saves : cb[s] \in {"none", "done"})
    => readers = 0 /\ ~writer_active

(* A lost checkpoint is reported before another is written: after a write  *)
(* that failed or was cancelled no later save is launched.                 *)
FailureSurfaces ==
  \A s, t \in Saves :
    s < t /\ wf[s] \in {"failed", "cancelled"} => wf[t] = "none"

(* docs/troubleshooting.md: close() blocks until the last background write *)
(* is durable.  A close() that did not time out has cancelled no write;    *)
(* and no close() leaves a child, not even one that was given up on or was *)
(* about to be spawned.                                                    *)
CloseIsClean ==
  tpc = "closed" =>
    /\ child \in {"down", "dead"}
    /\ "wait" \notin Faults => \A s \in Saves : wf[s] \in {"none", "ok", "failed"}

(* checkpoint_saver.py, class docstring: save() acquires the lock for      *)
(* write before staging begins, so no other writer can touch the buffer    *)
(* while it is being filled.                                               *)
FilledUnderWriteLock ==
  \A s \in Saves : sf[s] = "copying" => writer_active

(* Every save that was launched gives the staging lock back.               *)
LaunchedSaveReleases ==
  \A s \in Saves : wf[s] # "none" ~> cb[s] = "done"

(* save() returns or raises, whatever fails.                               *)
SaveReturns ==
  tpc \in {"warm", "acquire", "check", "prepare", "stage", "launch", "arm", "callback"}
    ~> tpc = "idle"

(* close() returns: config.py gives wait_timeout_secs as the maximum time  *)
(* CheckpointManager waits for staging or writing to finish.               *)
CloseReturns == tpc = "close_wait" ~> tpc = "closed"

(* The saver implements SnapshotStore. *)
CkptView ==
  [s \in Saves |->
     CASE wf[s] = "none" -> [state |-> "none"]
       [] wf[s] \in {"queued", "running"} ->
            [state |-> "pending", content |-> captured[s]]
       [] wf[s] = "ok" -> [state |-> "durable", content |-> files[s]]
       [] OTHER -> [state |-> "lost"]]

Store == INSTANCE SnapshotStore
           WITH live <- params, liveMeta <- meta, ckpt <- CkptView

ImplementsSnapshotStore == Store!Spec
=============================================================================
