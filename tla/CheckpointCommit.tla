-------------------------- MODULE CheckpointCommit --------------------------
(***************************************************************************)
(* How the ranks of a job publish a checkpoint: CheckpointWriter.write     *)
(* (checkpoint_writer.py) on every rank, over a store barrier              *)
(* (barriers.py) and a directory rename (storage/filesystem.py).           *)
(*                                                                         *)
(* A rank that has keys writes its file into the temporary directory of    *)
(* the path, and rank 0 the metadata, if there is any; all meet at the     *)
(* barrier; rank 0 renames the directory, if there is one, to the path.  A *)
(* rank whose write raised is "failed", one that was killed "dead"; the    *)
(* job is then restarted, on the same storage and the same store, with a   *)
(* new barrier generation and maybe fewer ranks.                           *)
(*                                                                         *)
(* Paths are saved in order.  The content of a file is the epoch (the run  *)
(* of the job) that wrote it, negative while it is incomplete, 0 when      *)
(* there is no such file.                                                  *)
(***************************************************************************)
EXTENDS Integers, FiniteSets

CONSTANTS
  N,            \* the most ranks the job has
  WorldSize,    \* WorldSize[e]: the ranks it has in epoch e
  FileSets,     \* the sets of files a save may consist of
  MaxPaths,     \* bound: checkpoints of a complete run
  MaxEpochs,    \* bound: runs of the job
  MaxRetries,   \* bound: errors of a save the trainer of a rank catches
  Faults        \* subset of {"timeout", "write", "die"}

Ranks == 0 .. (N - 1)
Meta == N                    \* .metadata, the file rank 0 writes besides its own
Files == 0 .. N
Paths == 1 .. MaxPaths
Epochs == 1 .. MaxEpochs
Seqs == 0 .. (MaxPaths + MaxRetries)  \* the barriers a rank passes in an epoch

ASSUME CommitAssumption ==
  /\ N \in Nat \ {0}
  /\ MaxPaths \in Nat \ {0} /\ MaxEpochs \in Nat \ {0}
  /\ WorldSize \in [Epochs -> 1 .. N]
  /\ FileSets \subseteq SUBSET Files
  /\ MaxRetries \in Nat

VARIABLES
  files,      \* the files of a save: of the ranks with keys, and the metadata
  epoch,      \* the run of the job
  pc,         \* where each rank is in write()
  at,         \* the path each rank saves, or will save next
  seq,        \* _barrier_seq of each rank's barrier
  arrivals,   \* the store: the counter of each generation and sequence number
  checkin,    \* the store: the sequence numbers whose last member has come
  tmpDir,     \* the paths whose temporary directory exists
  finalDir,   \* the paths that exist
  tmp,        \* the files of the temporary directories
  final,      \* the files of the published directories
  retries,    \* the errors each rank's trainer has caught
  fd,         \* the directory a rank has its file open in
  reached,    \* history: the paths whose barrier a rank reached in this epoch
  saved       \* history: the paths a rank was told are saved

storeVars == <<arrivals, checkin>>
diskVars == <<tmpDir, finalDir, tmp, final>>
vars == <<files, epoch, pc, at, seq, retries, storeVars, diskVars, fd, reached, saved>>

Pcs == {"idle", "open", "file", "meta", "metafile", "ready", "wait", "commit",
        "failed", "dead", "out"}

World(e) == 0 .. (WorldSize[e] - 1)

(* The files the ranks of a run write for a checkpoint.                    *)
FilesOf(e) == (World(e) \union {Meta}) \intersect files

NoFiles == [f \in Files |-> 0]

Contents == (-MaxEpochs) .. MaxEpochs

TypeOK ==
  /\ files \in FileSets
  /\ epoch \in Epochs
  /\ pc \in [Ranks -> Pcs]
  /\ at \in [Ranks -> 1 .. (MaxPaths + 1)]
  /\ seq \in [Ranks -> Seqs]
  /\ arrivals \in [Epochs -> [Seqs -> Nat]]
  /\ checkin \in [Epochs -> SUBSET Seqs]
  /\ tmpDir \in SUBSET Paths
  /\ finalDir \in SUBSET Paths
  /\ tmp \in [Paths -> [Files -> Contents]]
  /\ final \in [Paths -> [Files -> Contents]]
  /\ retries \in [Ranks -> 0 .. MaxRetries]
  /\ fd \in [Ranks -> {"none", "tmp", "final"}]
  /\ reached \in [Ranks -> SUBSET Paths]
  /\ saved \in [Ranks -> SUBSET Paths]

Init ==
  /\ files \in FileSets
  /\ epoch = 1
  /\ pc = [r \in Ranks |-> IF r \in World(1) THEN "idle" ELSE "out"]
  /\ at = [r \in Ranks |-> 1]
  /\ seq = [r \in Ranks |-> 0]
  /\ arrivals = [e \in Epochs |-> [s \in Seqs |-> 0]]
  /\ checkin = [e \in Epochs |-> {}]
  /\ tmpDir = {}
  /\ finalDir = {}
  /\ tmp = [p \in Paths |-> NoFiles]
  /\ final = [p \in Paths |-> NoFiles]
  /\ retries = [r \in Ranks |-> 0]
  /\ fd = [r \in Ranks |-> "none"]
  /\ reached = [r \in Ranks |-> {}]
  /\ saved = [r \in Ranks |-> {}]
-----------------------------------------------------------------------------
Goto(r, l) == pc' = [pc EXCEPT ![r] = l]

(* Rank 0 goes on to the metadata, which a job that has no metadata        *)
(* manager does not have.                                                  *)
AfterKeys(r) == IF r = 0 /\ Meta \in files THEN "meta" ELSE "ready"

(* Mutant: a file that is there already is kept. *)
OpenKeeps(r, f, next) ==
  /\ at[r] \in tmpDir
  /\ tmp' = [tmp EXCEPT ![at[r]][f] = IF @ > 0 THEN @ ELSE -epoch]
  /\ fd' = [fd EXCEPT ![r] = IF tmp[at[r]][f] > 0 THEN "none" ELSE "tmp"]
  /\ Goto(r, next)

(* WriteStream opens a file in the temporary directory and raises if the   *)
(* directory is not there; a file an earlier attempt left is truncated.    *)
Open(r, f, next) ==
  \/ /\ at[r] \in tmpDir
     /\ tmp' = [tmp EXCEPT ![at[r]][f] = -epoch]
     /\ fd' = [fd EXCEPT ![r] = "tmp"]
     /\ Goto(r, next)
  \/ /\ at[r] \notin tmpDir
     /\ Goto(r, "failed")
     /\ UNCHANGED <<tmp, fd>>

(* The bytes of an open file reach the file, wherever a rename moved it.   *)
Close(r, f) ==
  /\ tmp' = IF fd[r] = "tmp" THEN [tmp EXCEPT ![at[r]][f] = epoch] ELSE tmp
  /\ final' = IF fd[r] = "final" THEN [final EXCEPT ![at[r]][f] = epoch] ELSE final
  /\ fd' = [fd EXCEPT ![r] = "none"]
  /\ UNCHANGED <<tmpDir, finalDir>>

(* Mutant: a rank that has nothing to write does not wait for the others.  *)
BeginSkipsBarrier(r) ==
  /\ pc[r] = "idle" /\ at[r] <= MaxPaths
  /\ \/ /\ r \in files
        /\ tmpDir' = tmpDir \union {at[r]}
        /\ Goto(r, "open")
     \/ /\ r \notin files
        /\ Goto(r, IF AfterKeys(r) = "ready" THEN "commit" ELSE "meta")
        /\ UNCHANGED tmpDir
  /\ UNCHANGED <<files, epoch, at, seq, retries, storeVars, finalDir, tmp, final, fd,
                 reached, saved>>

(* write(): _write_keys makes the directory and then writes; a rank that   *)
(* has no keys to write does neither.                                      *)
BeginWrite(r) ==
  /\ pc[r] = "idle" /\ at[r] <= MaxPaths
  /\ \/ /\ r \in files
        /\ tmpDir' = tmpDir \union {at[r]}
        /\ Goto(r, "open")
     \/ /\ r \notin files
        /\ Goto(r, AfterKeys(r))
        /\ UNCHANGED tmpDir
  /\ UNCHANGED <<files, epoch, at, seq, retries, storeVars, finalDir, tmp, final, fd,
                 reached, saved>>

OpenFile(r) ==
  /\ pc[r] = "open"
  /\ Open(r, r, "file")
  /\ UNCHANGED <<files, epoch, at, seq, retries, storeVars, tmpDir, finalDir, final,
                 reached, saved>>

(* Mutant: the write goes on while the bytes are not in the file. *)
EndFileUnflushed(r) ==
  /\ pc[r] = "file"
  /\ Goto(r, AfterKeys(r))
  /\ UNCHANGED <<files, epoch, at, seq, retries, storeVars, diskVars, fd, reached, saved>>

EndFile(r) ==
  /\ pc[r] = "file"
  /\ Goto(r, AfterKeys(r))
  /\ Close(r, r)
  /\ UNCHANGED <<files, epoch, at, seq, retries, storeVars, reached, saved>>

(* _write_metadata, on rank 0: it makes no directory. *)
OpenMeta(r) ==
  /\ pc[r] = "meta"
  /\ Open(r, Meta, "metafile")
  /\ UNCHANGED <<files, epoch, at, seq, retries, storeVars, tmpDir, finalDir, final,
                 reached, saved>>

EndMeta(r) ==
  /\ pc[r] = "metafile"
  /\ Goto(r, "ready")
  /\ Close(r, Meta)
  /\ UNCHANGED <<files, epoch, at, seq, retries, storeVars, reached, saved>>

(* Mutant: a generation that only counts the barriers of the process. *)
GenerationOfProcess(e) == 1

(* The key space of the barriers of a run: the restart count and a counter *)
(* that starts anew with each process.                                     *)
Generation(e) == e

(* store_util.barrier: an arrival is counted under the generation and the  *)
(* sequence number, and the last member of the world checks in.            *)
Arrive(g, s) ==
  /\ arrivals' = [arrivals EXCEPT ![g][s] = @ + 1]
  /\ checkin' = IF arrivals'[g][s] = WorldSize[epoch]
                THEN [checkin EXCEPT ![g] = @ \union {s}]
                ELSE checkin

(* execute_barrier.  A world of one rank has no store and no barrier.      *)
BarrierArrive(r) ==
  /\ pc[r] = "ready"
  /\ reached' = [reached EXCEPT ![r] = @ \union {at[r]}]
  /\ IF WorldSize[epoch] = 1
     THEN Goto(r, "commit") /\ UNCHANGED storeVars
     ELSE /\ Goto(r, "wait")
          /\ Arrive(Generation(epoch), seq[r])
  /\ UNCHANGED <<files, epoch, at, seq, retries, diskVars, fd, saved>>

BarrierPass(r) ==
  /\ pc[r] = "wait"
  /\ seq[r] \in checkin[Generation(epoch)]
  /\ seq' = [seq EXCEPT ![r] = @ + 1]
  /\ Goto(r, "commit")
  /\ UNCHANGED <<files, epoch, at, retries, storeVars, diskVars, fd, reached, saved>>

(* Mutant: only rank 0 gives the wait a timeout. *)
BarrierTimeoutOfZero(r) ==
  /\ "timeout" \in Faults
  /\ r = 0 /\ pc[r] = "wait"
  /\ seq[r] \notin checkin[Generation(epoch)]
  /\ Goto(r, "failed")
  /\ UNCHANGED <<files, epoch, at, seq, retries, storeVars, diskVars, fd, reached, saved>>

(* The wait for the last member times out: the sequence number stays.      *)
BarrierTimeout(r) ==
  /\ "timeout" \in Faults
  /\ pc[r] = "wait"
  /\ seq[r] \notin checkin[Generation(epoch)]
  /\ Goto(r, "failed")
  /\ UNCHANGED <<files, epoch, at, seq, retries, storeVars, diskVars, fd, reached, saved>>

Return(r) ==
  /\ Goto(r, "idle")
  /\ at' = [at EXCEPT ![r] = @ + 1]
  /\ saved' = [saved EXCEPT ![r] = @ \union {at[r]}]

(* The path is taken by a directory that is not empty.                     *)
Occupied(p) == final[p] # NoFiles

(* The rename moves the whole directory, with the files open in it.        *)
Publish(p) ==
  /\ tmpDir' = tmpDir \ {p}
  /\ finalDir' = finalDir \union {p}
  /\ tmp' = [tmp EXCEPT ![p] = NoFiles]
  /\ final' = [final EXCEPT ![p] = tmp[p]]
  /\ fd' = [q \in Ranks |-> IF at[q] = p /\ fd[q] = "tmp" THEN "final" ELSE fd[q]]

(* Mutants: rank 0 renames only if it has written a file, or the rename    *)
(* replaces what it finds.                                                 *)
CommitIfWrote(r) ==
  /\ pc[r] = "commit"
  /\ IF r = 0 /\ r \in files /\ at[r] \in tmpDir
     THEN Publish(at[r])
     ELSE UNCHANGED <<diskVars, fd>>
  /\ Return(r)
  /\ UNCHANGED <<files, epoch, seq, retries, storeVars, reached>>

CommitReplaces(r) ==
  /\ pc[r] = "commit"
  /\ IF r = 0 /\ at[r] \in tmpDir THEN Publish(at[r]) ELSE UNCHANGED <<diskVars, fd>>
  /\ Return(r)
  /\ UNCHANGED <<files, epoch, seq, retries, storeVars, reached>>

(* write() after the barrier: rank 0 renames the temporary directory, if   *)
(* there is one, and raises if the path is occupied; otherwise, and on the *)
(* other ranks, the save returns.                                          *)
Commit(r) ==
  /\ pc[r] = "commit"
  /\ \/ /\ r = 0 /\ at[r] \in tmpDir /\ ~Occupied(at[r])
        /\ Publish(at[r])
        /\ Return(r)
     \/ /\ r = 0 /\ at[r] \in tmpDir /\ Occupied(at[r])
        /\ Goto(r, "failed")
        /\ UNCHANGED <<at, saved, diskVars, fd>>
     \/ /\ r # 0 \/ at[r] \notin tmpDir
        /\ Return(r)
        /\ UNCHANGED <<diskVars, fd>>
  /\ UNCHANGED <<files, epoch, seq, retries, storeVars, reached>>
-----------------------------------------------------------------------------
(* A write to storage raises: the file stays as it is. *)
WriteFails(r) ==
  /\ "write" \in Faults
  /\ pc[r] \in {"file", "metafile"}
  /\ Goto(r, "failed")
  /\ fd' = [fd EXCEPT ![r] = "none"]
  /\ UNCHANGED <<files, epoch, at, seq, retries, storeVars, diskVars, reached, saved>>

Die(r) ==
  /\ "die" \in Faults
  /\ pc[r] \notin {"dead", "out"}
  /\ Goto(r, "dead")
  /\ fd' = [fd EXCEPT ![r] = "none"]
  /\ UNCHANGED <<files, epoch, at, seq, retries, storeVars, diskVars, reached, saved>>

(* A synchronous save has raised into the trainer, which tries it again or *)
(* trains on.  (An asynchronous saver raises at every later save.)         *)
Retry(r) ==
  /\ pc[r] = "failed" /\ retries[r] < MaxRetries
  /\ retries' = [retries EXCEPT ![r] = @ + 1]
  /\ Goto(r, "idle")
  /\ \E p \in {at[r], at[r] + 1} \intersect (1 .. (MaxPaths + 1)) :
       at' = [at EXCEPT ![r] = p]
  /\ UNCHANGED <<files, epoch, seq, storeVars, diskVars, fd, reached, saved>>

(* Mutant: a restarted rank counts its barriers on. *)
RestartKeepsSeq(p) ==
  /\ epoch < MaxEpochs
  /\ \E r \in Ranks : pc[r] \in {"failed", "dead"}
  /\ p = 1 \/ p - 1 \in finalDir
  /\ epoch' = epoch + 1
  /\ pc' = [r \in Ranks |-> IF r \in World(epoch + 1) THEN "idle" ELSE "out"]
  /\ at' = [r \in Ranks |-> p]
  /\ fd' = [r \in Ranks |-> "none"]
  /\ reached' = [r \in Ranks |-> {}]
  /\ UNCHANGED <<files, seq, retries, storeVars, diskVars, saved>>

(* The job is restarted from a published checkpoint, or from the start:    *)
(* TORCHELASTIC_RESTART_COUNT gives the barriers a new generation.         *)
Restart(p) ==
  /\ epoch < MaxEpochs
  /\ \E r \in Ranks : pc[r] \in {"failed", "dead"}
  /\ p = 1 \/ p - 1 \in finalDir
  /\ epoch' = epoch + 1
  /\ pc' = [r \in Ranks |-> IF r \in World(epoch + 1) THEN "idle" ELSE "out"]
  /\ at' = [r \in Ranks |-> p]
  /\ seq' = [r \in Ranks |-> 0]
  /\ fd' = [r \in Ranks |-> "none"]
  /\ reached' = [r \in Ranks |-> {}]
  /\ UNCHANGED <<files, retries, storeVars, diskVars, saved>>
-----------------------------------------------------------------------------
WriterSteps(r) ==
  \/ BeginWrite(r) \/ OpenFile(r) \/ EndFile(r) \/ OpenMeta(r) \/ EndMeta(r)
  \/ BarrierArrive(r) \/ BarrierPass(r) \/ Commit(r)

Next ==
  \/ \E r \in Ranks :
       WriterSteps(r) \/ BarrierTimeout(r) \/ WriteFails(r) \/ Die(r) \/ Retry(r)
  \/ \E p \in 1 .. (MaxPaths + 1) : Restart(p)

Spec == Init /\ [][Next]_vars

(* A rank that can go on does, and a wait at the barrier times out.        *)
Fairness ==
  \A r \in Ranks : WF_vars(WriterSteps(r)) /\ WF_vars(BarrierTimeout(r))

FairSpec == Spec /\ Fairness
-----------------------------------------------------------------------------
(* An asynchronous saver raises at every save after a failed one, so its   *)
(* job never retries a barrier in a run; a trainer with a synchronous      *)
(* saver may.                                                              *)
NoRetry == \A r \in Ranks : retries[r] = 0

CompleteOf(p, e) == \A f \in FilesOf(e) : final[p][f] = e

(* docs/distributed_and_resharding.md: readers never observe a half-       *)
(* written directory.  What stands at a path holds the complete files of   *)
(* every rank of one run of the job, and the metadata, if it has any, of   *)
(* that run.                                                               *)
NeverHalfWritten ==
  \A p \in finalDir : \E e \in Epochs : CompleteOf(p, e)

(* It is so in a job that never goes on after an error, whatever failed,   *)
(* was killed and was restarted, with all or fewer of its ranks, over the  *)
(* temporary directories the earlier runs have left.                       *)
PublishedComplete == NoRetry => NeverHalfWritten

(* Whatever the trainers retry, what stands at a path has the complete     *)
(* metadata and the complete file of rank 0, from one run of the job: no   *)
(* rename happens between the two, or before the bytes are in the files.   *)
IndexComplete ==
  \A p \in finalDir :
    \E e \in Epochs : \A f \in {0, Meta} \intersect files : final[p][f] = e

(* Once a path holds a file, nothing there is ever changed, by no later    *)
(* attempt to save the path and by no straggler of the one that published  *)
(* it.  (The rename may replace an empty directory.)                       *)
PublishedStable ==
  [][NoRetry =>
       \A p \in finalDir : p \in finalDir' /\ (Occupied(p) => final'[p] = final[p])]_vars

(* barriers.py, class Barrier: all ranks reach a certain point before any  *)
(* rank proceeds further.  Without retries a rank that is past the barrier *)
(* of a path knows that every rank has reached the barrier of that path in *)
(* this run of the job, although the store keeps the keys of earlier runs. *)
BarrierMeets ==
  NoRetry => \A r \in Ranks : pc[r] = "commit" =>
               \A q \in World(epoch) : at[r] \in reached[q]

(* Rank 0 finds the temporary directory of every save that wrote anything  *)
(* on any rank: what it was told is saved is at its path, unless the ranks *)
(* of a run had nothing to save.  The rename is skipped without a word     *)
(* when the directory is not there, so this rests on the barrier: rank 0   *)
(* need not have made the directory itself.                                *)
SavedOnRankZero ==
  NoRetry => \A p \in saved[0] : p \in finalDir \/ \E e \in 1 .. epoch : FilesOf(e) = {}

(* checkpoint_manager.py, save(): await the returned Future to block until *)
(* the checkpoint is durable, on whichever rank it was returned.           *)
SavedIsDurable == \A r \in Ranks : saved[r] \subseteq finalDir

(* A rank does not stay at the barrier for ever: its peers come, or the    *)
(* wait times out, or the rank is replaced.                                *)
BarrierReturns == \A r \in Ranks : pc[r] = "wait" ~> pc[r] # "wait"

(* Every checkpoint there is a file of is published, whichever ranks write *)
(* the files, unless some rank fails or is killed.                         *)
EverySavePublished ==
  FilesOf(1) # {} =>
    \/ \A p \in Paths : <>(p \in finalDir)
    \/ <>(\E r \in Ranks : pc[r] \in {"failed", "dead"})
=============================================================================
