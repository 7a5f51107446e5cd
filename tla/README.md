# TLA+ models of torch_checkpointing

`torch_checkpointing` saves the state of a PyTorch training job without stopping
it for the write: a save copies ("stages") the tensors into a shared-memory
buffer in the background, hands the buffer to a child process, and the child
writes files; the ranks of a job then agree, over a barrier and a directory
rename, that the checkpoint is complete. A load finds out how the checkpoint was sharded and
moves its pieces to where the job wants them now; an export merges the shards into
Hugging Face files. This directory models that machinery in TLA+, checks it with TLC
on small instances, and proves parts of it with TLAPS for every size.

Paths below are relative to `src/torch_checkpointing/`.

## 1. The system

### Components

| Component | State it keeps | Operations | Talks to |
|---|---|---|---|
| staging lock, `lock.py` | `_readers`, `_writer_active`, the sleepers of a `Condition` | acquire/release for read and write (blocking, timed, non-blocking), `downgrade` | taken by `save()`, by the trainer's `lock()`, released by future callbacks |
| asynchronous saver, `checkpoint_saver.py` | `_write_future`, `_sent_serialized_metadata`, the lock | `save`, `stage`, `close` | stager, checkpoint process, metadata manager |
| synchronous saver, `checkpoint_saver.py` | none of its own | `save` | writer, in the caller's thread |
| stager, `staging.py`, `_state_dict_stager.py` | a one-thread executor, a pool of shared/pinned storages | `stage`, `close` | saver, manager (prewarming) |
| checkpoint process, `checkpoint_process.py` | creation future, one-thread executor, pipe, child process; in the child a metadata cache | `write`, `close`, `check_ok`; child: request loop | writer (in the child) |
| checkpoint manager, `checkpoint_manager.py` | `_closed`, last staging/write/prewarm futures | `save`, `load`, `prewarm_staging`, `lock`, `close` | saver, loader, metadata manager |
| checkpoint writer, `checkpoint_writer.py` | a barrier, a storage | `write` | barrier, storage |
| barriers, `barriers.py` | sequence number, generation, client of a store | `execute_barrier` | a store shared by the ranks |
| storage, `storage/` | files | streams, `mkdir`, `rename`, `rmdir` | writer, reader |
| metadata manager, `metadata_manager.py` | computed metadata, its serialized form | compute (collectives), validate, invalidate | process group, saver |
| reader and loader, `checkpoint_reader.py`, `checkpoint_loader.py` | none between calls; the target tensors | `load`, `read` | storage, resharder |
| resharding, `default_resharder.py`, `tensor_slice.py`, `resharding*.py` | the plans of a load, a pool of reader threads | intersections of slices, load plans, removal of duplicates, offset reads and full reads | reader |
| schema, layouts, serialization, structure walks, logging | none | pure functions | everything |
| Hugging Face consolidation, `hf/` | files; per rank a pool of reader threads and a memory budget | merge of safetensors shards by the ranks of a job | storage, process group |

### How a save runs

1. The trainer calls `CheckpointManager.save`, which calls the saver. The saver
   takes the staging lock for write, raises the error of the previous write if it
   had one, fetches the sharding metadata, submits the staging, and submits the
   write to the *communication thread* of the checkpoint process. It then leaves
   the lock to callbacks: when the staging is over it is downgraded to a read
   hold, when the write is over the read hold is released.
2. The *stager* thread copies the tensors. The trainer may go on with everything
   but an update of its parameters, which it does under `lock()` (a read hold).
3. The communication thread waits for the staging, sends the buffer through a
   pipe and waits for the answer, without a timeout.
4. The child writes the files of its rank into the temporary directory of the
   path, meets the children of the other ranks at a barrier, and the child of
   rank 0 renames the directory to the path.

### How a load and an export run

A load reads the metadata of the checkpoint, if an item may need resharding, and
decides item by item. An item whose sharding is what it was is read from the file
this rank wrote. For any other the wanted part of each tensor is intersected with the
parts that the ranks had; the overlaps are the load plans. They are grouped by source
file, and threads read the files by offsets, straight into the live tensors. A file
that cannot be read by offsets is read in full afterwards.

An export shares out the output files by size. Each rank reads the shards of its
tensors with threads that run ahead within a memory budget, and writes temporary files
that it renames. Barriers are around the directory, the files, and the index, which
rank 0 writes.

### What is hard, and what makes each part correct

* **Interleavings of threads and callbacks.** A future may be complete before a
  callback is registered, and then the registering thread runs it. The lock must
  be released exactly once on every path, and in the order downgrade, release.
* **Shared buffers.** What is written must be the state of the moment of
  `save()`: no update while the stager copies, no staging while the child reads.
* **Caches of what the other side knows.** Metadata goes to the child only when
  it changed; after a failure the child may not have what it is thought to have.
* **Failures.** Every step of `save()` may raise; the child may die or hang.
* **Distribution.** Ranks reach the barrier at any time, time out, are killed,
  are restarted over the files and the store keys of earlier runs.
* **Close.** It must neither lose the last checkpoint nor wait for ever, nor leave a
  child behind, even one that was given up on while it started.
* **Geometry.** Uneven splits, empty shards, tensors cut twice, permuted meshes and
  copies: every wanted cell must come from the right place of the right file.
* **Reader threads.** One file fails while others are being read into live tensors;
  reads ahead must respect a budget and still make progress.

`PROJECT.json` lists these hazards one by one with the line where each bites.

## 2. The modules

| Module | Models | Kind |
|---|---|---|
| `AbstractLock` | what the lock promises: who holds it | abstract specification |
| `RWLock` | `lock.py` | detailed specification, implements `AbstractLock` |
| `RWLockProofs` | theorems about `RWLock` | proofs |
| `SnapshotStore` | what an asynchronous save promises | abstract specification |
| `AsyncSaver` | `checkpoint_saver.py`, with the stager, the checkpoint process and the manager's `save`, `prewarm_staging`, `lock`, `close` | composition, implements `SnapshotStore` |
| `AsyncSaverProofs` | theorems about the lock, the writes and the close of `AsyncSaver` | proofs |
| `AsyncSnapshotProofs` | theorems about what `AsyncSaver` writes, and the refinement of `SnapshotStore` | proofs |
| `CheckpointCommit` | `checkpoint_writer.py` on every rank, `barriers.py`, the rename of `storage/filesystem.py` | detailed specification |
| `CheckpointCommitProofs` | theorems about `CheckpointCommit` | proofs |
| `MetadataManager` | `metadata_manager.py` on every rank, as the savers use it, over collectives | detailed specification |
| `MetadataManagerProofs` | theorems about `MetadataManager` | proofs |
| `TensorSlices` | the geometry of shards: meshes, chunks, intersections, contiguity (`dtensor_metadata.py`, `default_resharder.py`, `tensor_slice.py`) | operators |
| `TensorSlicesProofs` | theorems about `TensorSlices` and the load plans | proofs |
| `ReshardPlans` | load plans and what reduces them (`default_resharder.py`, `resharding_utils.py`) | operators |
| `LoadCheckpoint` | `load` of one rank: `checkpoint_loader.py`, `checkpoint_reader.py`, the execution of the plans by threads | composition over `ReshardPlans` |
| `LoadCheckpointProofs` | theorems about `LoadCheckpoint` | proofs |
| `Consolidation` | `hf/consolidation.py` on every rank with its reader threads | detailed specification over `TensorSlices` |
| `ConsolidationProofs` | theorems about `Consolidation` | proofs |
| `MCAsyncSaver`, `MCCheckpointCommit`, `MCMetadataManager`, `MCLoadCheckpoint`, `MCConsolidation` | values of the constants, configurations, symmetry | model checking |

Operators introduced by a comment that begins with *Mutant* are wrong versions of
the operator they stand before. They are not used by any specification: each
records a plausible bug, and replacing the operator by it breaks a property.

### RWLock

One step is one `with self._cond` block. `readers` and `writer_active` are the
two fields; `phase[c]` tells where client `c` is: out, asleep in
`Condition.wait()`, woken and not yet looking again, or holding. `AcquireNow`,
`AcquireCede` and `AcquireWait` are the outcomes of the first pass of `_acquire`
(granted, `blocking=False` and taken, goes to sleep with or without a deadline);
`Recheck` is one turn of its loop, in the code's order: availability first, then
the deadline, then sleep. `NotifyAll` is the library's `notify_all`; it is part
of the release actions exactly where the code calls it, so a missing wake-up can
be seen. Left out: the validation of arguments, and `locked_mode()`, which only
reads.

### AsyncSaver

The trainer's program counter `tpc` walks through `save()`: acquire, check of the
previous write, preparation, staging, launch, registration of the callback. Each
of these can fail as the code can, and `Abort` is the `except BaseException`
block. The stager, the communication thread and the child have actions of their
own. `cb[s]` is the life of the two nested callbacks of save `s`: not registered,
registered, to be run (`"downgrade"`, `"arm"`), armed on the write future, to
be run (`"release"`), done. A future's completion and the run of its callbacks
are different steps, since a waiter may be woken between them; a callback
registered on a future that is complete is run by the registering thread.

`Prewarm` is the manager's `prewarm_staging`: staging number 0, submitted to the same
stager but without the staging lock, so that only the tests on the futures keep it from
a buffer that is being written. The next `save()` waits for it (`SaveWarm`), and an
error of it stays: it is raised by every later save and makes `close()` skip its wait
for the last write. The child is created in steps: `Spawn`, its start (`ChildStarts`)
and what the parent makes of it (`Created`). When the parent gives up, the child goes
on, late; `CloseIsClean` asks that `close()` ends it all the same. The bound `MaxWarm`
is the number of prewarmings.

Data are abstract: a tensor is a version number, the metadata object a number,
the write of a checkpoint a copy of the buffer tensor by tensor. `captured[s]`
is a history variable: the state and the metadata at the moment of the save.
`Faults` selects the failures: the acquire of the lock times out, the preparation
raises, the staging raises (in the caller or in the stager), the child is not
created or not in time, the submission of the write raises, the request cannot be
pickled or sent, the writer raises in the child, the child is killed, the writer
hangs, a wait of `close()` (or of a save for the prewarming) times out. A submission
that raises may have queued its task. That task fails without touching the write info
(`CheckpointProcess.write` sets a flag for it), so nothing of it can be seen from outside,
and in the model the save has no write. What can be seen is that the staging goes on
without the lock.

### CheckpointCommit

`pc[r]` is where rank `r` is in `CheckpointWriter.write`. The files of the
temporary and the published directories hold the epoch (the run of the job) that
wrote them, negative while they are incomplete. The directory is made and the
file opened in different steps, and a rename moves open files with it, as the
file system does. The store counts arrivals under a generation and a sequence
number; it and the disk survive `Restart`, everything else does not. The writer
of a killed process is killed with it: `torch.multiprocessing` ties the child's
life to the thread that spawned it (the comment in `CheckpointProcess.__init__`
relies on that too).

`files` is what a save of the job consists of: the files of the ranks that have keys to
write, and `Meta`, the metadata, which a job has only if some item has a resharder
(without one the manager makes no metadata manager and `_write_metadata` does nothing). A
rank without keys makes no directory; rank 0 without keys can write its metadata only
when another rank has made the directory, and raises otherwise. After the barrier rank 0
renames the temporary directory *if it exists* and returns normally if it does not. That
silent branch is in `Commit`, and `SavedOnRankZero` says when it is taken: only when the
ranks of a run have nothing to save at all. It is not taken because another rank's
directory is late; that rests on the barrier, and the mutant that lets a rank without
keys skip the barrier breaks it.

A rename replaces an empty directory and raises when the path is occupied (`Occupied`).
An empty directory is at a path, for example, when a rank was killed after it made the
temporary one, and a later run that had no files of its own renamed it. Completeness is about the files of the run that published
(`FilesOf`): what an earlier run left in the temporary directory, the file of a rank that
is gone say, is renamed along with them, and a run that has no files publishes nothing
but such leftovers. `NeverHalfWritten` promises nothing of these.

`MaxRetries` bounds the errors a trainer catches and survives. An asynchronous
saver raises at every later save, so for it the bound is 0; a trainer with a
synchronous saver may catch the error of a barrier and save again.

### MetadataManager

The ranks run one program, a sequence of calls (`save`, a validated save, `compute`,
`invalidate`), each with a configuration that says what every rank holds at that
call; the first rank to come to a call chooses it. `posted[r]` is what rank `r` has
issued on the process group: its `n`th collective meets the `n`th of every other
rank, and completes when all have issued it as the same operation. `Protocol` is
the order of the collectives in `compute_distributed_metadata`: the agreement, then
two gathers, each with the reduction of the sizes before it. `got` records what each
call came to, and `Reference` defines what the metadata of a configuration should
be, without representatives: who holds what at every path. The assumption
`Truthful` states what `equivalent_ranks` promises and `DTensorShardingMetadata`
keeps: the ranks of a mesh hold the same metadata. Left out: a job without
`torch.distributed`, loads (they touch no cache), time-outs of collectives (they
end the process group). Programs where a rank invalidates alone are excluded, as
the docstring of `invalidate_computed_metadata` asks.

### TensorSlices and ReshardPlans

A *box* is a region of a tensor, a *sharding* what the metadata of a DTensor says
without its dtype: shape, mesh, one placement per mesh dimension. `LocalShard` is the
box of a rank, by repeated `torch.chunk` along the mesh dimensions; `Overlap`, `Meets`
and `Local` are the arithmetic of `default_resharder.py`; `IsContiguous` decides in an
export whether a shard can be read in one piece. `Plans` is the list of load plans of
one path: the distinct source shards in the order of the metadata, those that meet the
wanted box, and of the plans that begin at one place the one of the lowest rank. They
are recursive functions and folds, not RECURSIVE operators, so that they can be used in
proofs.

### LoadCheckpoint

One behaviour is one `load` of one rank, in a *configuration* `K`: what was saved and
by whom, which files and metadata there are, the target's sharding, the resharders, the
strategy and the number of threads. The saved value of a cell is the pair of its path
and its index, so a wrong offset, a wrong file or a missed plan shows in `mem`. `direct`
and `reshard` are the items that are still to be read either way, `item` the one whose
files are being read. What depends on the configuration alone is computed once, in `job`:
the shards and the plans. `PlansRight` says what these must be to be right, that whatever
a plan can bring to a cell is the value saved for it, and that together the plans reach
every cell; `TypeOK` contains it, so it is checked in every configuration. `Decide`
is `read` up to its choice between the direct path and the resharder; `ReadDirectly` one
item from this rank's file; `PlanItem`, the threads' `OpenFile` and `ReadSlice`,
`CancelFiles`, `Raise`, `OffsetsRead` and `ReadInFull` are `_execute_load_plans`. `mem`
is shared by paths whose targets are the same tensor (`K.buf`). An element of a saved
tensor of size 1 is repeated by `copy_`, which is why an unnoticed change of sharding can
go wrong silently.

### Consolidation

The ranks run `consolidate`: `Plan` is what each computes from the metadata and the
layouts (validation, assignment by size, chosen groups, how a tensor is assembled from
its slices). `Arrivals` gives the source cells that end up at a place: by flat position
for a slice that `IsContiguous` takes for contiguous, by coordinates for the others, so
a wrong decision there puts values in wrong places. `Prefetch`, `Take`, `Write`,
`Rename` and the unwinding (which may fail to delete the temporary file) are the ordered
read-ahead of one output file; `BeginRead`
and `EndRead` are its threads, and a read that has not begun when its file fails is
cancelled, as the executor does. A barrier is a set of arrivals; `TimeOut` is the time
limit of the process group.

## 3. The runs

Every run ends within three minutes.

| Run | Question | Result |
|---|---|---|
| `RWLock` | exclusion, counting, no lost wake-up, wake-up of readers, timed acquires return, implements `AbstractLock`; 3 clients | holds |
| `AsyncSaver_safety` | snapshot, lock discipline, failures surface; 3 saves, 1 optimizer step, 1 metadata change, no prewarming, all faults; the two tensors are symmetric | holds |
| `AsyncSaver_live` | under fairness: save and close return, the lock comes free, nothing is cancelled and no child left, implements `SnapshotStore`; 2 saves, 1 step, 1 prewarming, faults without hang and time limits | holds |
| `AsyncSaver_fill` | is the buffer only filled under the write lock? | violated, finding 1 |
| `AsyncSaver_hang` | does `close()` return when the writer hangs? | violated, finding 2 |
| `CheckpointCommit` | published checkpoints are complete and stable, barriers meet and end, what rank 0 was told is saved is there, fault-free runs publish; 3 ranks, then 2, 2 checkpoints, 2 runs of the job, 5 choices of the files | holds |
| `CheckpointCommit_inplace` | what is left when trainers go on after errors; 2 ranks, 2 retries, 4 choices of the files | holds |
| `MetadataManager` | the collectives of the ranks match and end, metadata is current; 3 ranks in overlapping meshes, 3 calls, 3 configurations (one rank's shard and file change; its file clashes with another's), a failing extraction | holds |
| `LoadCheckpoint` | every loaded tensor has the saved values, no thread writes after the return, the load returns; 610 configurations, 2 reader threads, failing reads | holds |
| `Consolidation` | visible files and index are whole and right, read-ahead within its budget, every rank ends; 45 configurations of up to 3 ranks, 2 threads each, failures, slow ranks, crashes | holds |
| `CheckpointCommit_torn` | is a half-written directory never published, with retries? | violated, finding 3 |
| `CheckpointCommit_durable` | is a saved checkpoint durable on every rank? | violated, finding 4 |

**Bounds.** Three lock clients suffice for a writer against a reader against a
waiter, which is every pairing the lock tells apart. The saver needs two parts to
tear a snapshot, two saves for a save to meet its predecessor, and a third for
what a failed second one leaves behind. One update suffices: a late copy and a torn one
both differ from the captured one, and the metadata change is independent of it. One
prewarming can come before, between and after the saves. It is in the run with two saves,
where `ImplementsSnapshotStore` compares what is written with what was captured.
`AsyncSaver_safety` leaves it out to stay short (with `MaxWarm = 1` it has 11 million
states instead of 3.4, and holds too); the theorems hold for any number of each. The commit needs a restart (2 epochs) and a second path for the sequence
number to matter, and a world that shrinks for stale files of a rank that is gone. Its
files are those of every rank with metadata, of every rank but 0 with metadata and
without, of the one rank that the shrinking world loses (so that its second run has
nothing to save), or none at all. With retries it is rank 0 that matters: with and without
keys, with and without metadata. The metadata needs three calls (compute, a compute that
raises, a save) and three ranks for two meshes that overlap.

A load is run for every rank of four layouts (rows with an uneven split, columns in a
permuted mesh, a two by two grid that cuts a vector twice and leaves ranks with
nothing, more ranks than rows) from every one of these and from a checkpoint with two
groups of shardings, in up to 16 modes: formats, strategies, archives that cannot be
read in part, missing metadata, missing paths, aliased targets, foreign metadata, Hugging
Face exports. The tensors have two or three elements per dimension, which gives every
relative position of two shards along a dimension. `MaxWorkers` is 2: a thread that
fails against one that writes.

An export has tensors by rows, by columns of a three-dimensional tensor (not
contiguous), by a grid, replicated, and a scalar; a `Budget` of 7 bytes is more than the
smaller tensors and less than the largest, so reads wait for memory and one is admitted
beyond it. Eight sound configurations are run without faults and with each of three sets
of faults, thirteen unsound ones (two tensors of one name among them) must be refused. In
one of the sound ones the chunks run out before the ranks do, and a rank has nothing of
either tensor.

**Deadlock** is checked where the system cannot stop. It is off in
`AsyncSaver_safety` and `AsyncSaver_hang`, where a hung child or a bound on the
calls may leave everyone waiting, for `CheckpointCommit`, whose ranks stop
after the last path or when nobody restarts a failed job, for `MetadataManager`, whose
program ends and whose ranks wait for one that has stopped, and for `LoadCheckpoint` and
`Consolidation`, which end; that nobody waits otherwise is `EveryRankFinishes`,
`LoadReturns` and `ExportEnds`.

**Fairness.** In `RWLock` a woken thread runs, a deadline passes, and a holder
releases: the package's two uses of the lock release what they take. No fairness is
given to acquiring, so writers may starve, as the module's docstring says. In
`AsyncSaver` every thread and the child run on, but the trainer need not start
anything, and a child may never start when the creation can time out. The processes run
on different schedulers, so fairness is weak and per thread. In `CheckpointCommit` a rank that can go on does and the wait at a
barrier times out; nobody has to restart the job. In `MetadataManager` every rank
runs its program on. In `LoadCheckpoint` and `Consolidation` every thread runs on; a
wait at a barrier of an export for a rank that has raised or died ends by the process
group's time limit, as the groups are made with the default one.

### Findings

1. `save()` releases the write lock when the write cannot be launched, although the
   staging it has submitted still fills the buffer
   (`checkpoint_saver.py:462-467`; the class docstring promises that no other
   writer can touch the buffer while it is filled). The launch fails when the child could
   not be created, after which nothing is ever written, or when the submission itself
   raises. Then the child lives and the next save stages behind the abandoned staging. The
   stager has one thread, so the two do not mix, and no checkpoint is spoilt
   (`SnapshotAtSave` holds with the fault `submit`).
2. `close()` waits at most `wait_timeout_secs` for the write and then joins the
   communication thread without a bound (`checkpoint_process.py:557`), before it
   terminates or kills the child.
3. A barrier that times out leaves its arrival in the store and its sequence number
   where it was (`barriers.py:351-368`): a trainer that catches the error and saves
   again adds a second arrival under the same key, and rank 0 may publish a
   directory in which another rank has not written.
4. Ranks other than 0 return after the barrier, before rank 0's rename, and also
   when that rename fails: on them a completed save does not mean a durable one.

A divergence without a run: the docstring of `CheckpointReader.read`
(`checkpoint_reader.py:121-124`) says that an item read without resharding uses its
configured layout, else the recorded one; the code (`checkpoint_reader.py:349-361`) and
the comment above it prefer the recorded one. `Located` follows the code.

## 4. The proofs

`tlapm` checks every proof to the last leaf. Every invariant, action property and
refinement that a run checks as holding is also stated by a theorem; the runs show it on
a small instance, the theorem for every value of the constants. The assumptions are:

| Module | Assumption |
|---|---|
| `RWLock` | `ClientsFinite`: finitely many clients, which the counting of readers needs |
| `AsyncSaver` | `AsyncSaverAssumption`: a finite, non-empty set of tensors; bounds that are numbers |
| `CheckpointCommit` | `CommitAssumption`: positive numbers of ranks, paths and runs, a world of 1 to `N` ranks in every run, any choice of sets of files |
| `MetadataManager` | `MetadataAssumption`: at least two ranks, `Truthful` configurations (what `equivalent_ranks` promises holds), `None` is no shard and no layout; `NoneIsNoCache` |
| `LoadCheckpoint` | `LoadAssumption`: what a configuration is; two theorems also assume `PlansRight` of the initial state |
| `Consolidation` | `ConsolidationAssumption`: what a configuration is; the theorems also assume `PlanRight` of the initial state |

The theorems about `CheckpointCommit` that need it state `NoRetry` in the property
itself. `PlansRight` and `PlanRight` are about pure functions that compute the plans; TLC
checks them in every configuration of the runs (`TypeOK` of the two modules, and
`PublishedIsSaved`).

### The lock (`RWLockProofs`)

The code tests `_readers` and `_writer_active`, the properties speak of who holds.
`FieldsCountHolds` ties the two: the counter is the number of read holds, the flag
says whether there is a write hold. With it the tests of the code mean what they
should, which gives `Exclusion`. `NoLostWakeup` is inductive only together with
both: that a reader who does not notify is not the last one is known only from the
counter, and that nobody waits in vain after it only because another reader stays.
`IInv` is the conjunction. `LockImplementsPromise` maps a client's phase to what it
holds in `AbstractLock`: grants and releases are steps of the promise, everything
else (sleeping, waking, timing out) stutters.

### The saver (`AsyncSaverProofs`, `AsyncSnapshotProofs`)

For any number of tensors, saves, updates and prewarmings and every set of faults.
`LockInv` says who holds the staging lock: the call of `save()` that is between its
acquire and its hand-over, or the callbacks of one save, which is always the last; the
trainer's `lock()` and an armed release count as readers. Hence no call on the lock finds
it in another state than it expects (`SaverLockNeverMisused`), and when no callback is
left it is free (`SaverLockNotLeaked`), although every step of `save()` may fail. Since
the acquire of a save comes after the release of the one before, whose write is then
over, at most one write is under way and only the last can have failed (`WriteInv`): that
is `SaverPriorWriteOver` and `SaverFailureSurfaces`. `WarmInv` is about the prewarming,
which takes no lock: it is never under way together with a save, or with a write. `CloseInv` follows
`close()` and the creation of the child, late ones included (`SaverCloseIsClean`).

`SaverSnapshotAtSave` goes on from there. From the capture until the downgrade the save
holds the lock for write, so the parameters do not move (`FrozenInv`) while the stager
fills the buffer. A staging that is queued or under way is of a save that still holds the
lock or of one that gave up (`GaveUp`: it has no write and never will), the stager takes
them in order, one at a time, and no save stages while the write of an earlier one is in
flight (`StagingInv`). So an abandoned staging is over before the next one begins, and the
buffer of a save whose write is owed holds its capture and stays as it is (`BufferInv`,
which says nothing of saves that gave up). The child has one request at a
time (`CommInv`), of a staging that succeeded (`InfoInv`). `MetaInv` is the cache: what
the trainer remembers as sent is what the child will have when it gets to the next
request, if every write succeeds. So what the child writes is the capture, tensor by tensor (`FileInv`).
`SaverImplementsSnapshotStore` maps every step to an update, the capture of a save, the
end of its write, or a stutter. `SaverFillsUnderLock` bounds finding 1: the buffer is
filled without the write hold only for a save that gave up, because the child could not be
created or the submission of its write failed.

### The commit (`CheckpointCommitProofs`)

`TInv` adds to the types where a rank can be: it passes no more barriers than it has
paths behind it and errors caught. `Shape` says who is in the world and who has a
file open; `Fresh` that the store has no key of a generation to come, which is what
`TORCHELASTIC_RESTART_COUNT` in the key buys. The heart is `BarrierInv`: all ranks
of a run start at one path, hence a sequence number stands for the same path on all
of them, and the counter of the store under it is the number of ranks that have
reached the barrier of that path. The arrival that makes the counter equal to the
world size therefore completes the set of ranks, and whoever passes knows that all
have arrived (`CommitBarrierMeets`). `FilesInv` then says that a rank that has
reached the barrier of a path has its file complete, in the temporary directory or
already published; so what rank 0 renames is complete and nobody has a file open in
it (`CommitPublishedComplete`, `CommitPublishedStable`). `BarrierInv` and `FilesInv`
are stated under `NoRetry`: a caught error breaks the counting, which is what
finding 3 shows. Rank 0 looks for the temporary directory only when it exists, and says
nothing when it does not: `DirsInv` (a directory that does not exist has no files, and
none open in it) makes of the complete files of `FilesInv` a directory that is there, so
a save that has any file in this run is at its path when rank 0 returns
(`CommitSavedOnRankZero`). What survives retries is what rank 0 does alone: its own file and the
metadata are complete in the directory before it comes to the barrier, nobody else
renames it, and a later run starts them over (`IndexInv`, `CommitIndexComplete`).

### The metadata (`MetadataManagerProofs`)

For any number of ranks, any meshes and any program of calls. A rank sees only its own
cache and its own part of a configuration. What the ranks share is a *history* that none
of them keeps: after each call of the program, the call whose metadata is cached, and how
many collectives have been issued. `IInv` says that there is such a history and that
every rank is in its own place of it, ahead of the others or behind. `SameConf` is why it
exists: the flags that the ranks gather are all raised exactly when the cached
configuration is the current one, as every rank finds its own part to match and the parts
are the whole. So the decision to recompute is a common one
(`MetadataCollectivesMatch`). `AggregateRight` says what a recomputation comes to:
compaction to representatives, gathers and aggregation give `Reference`, who holds what,
for every truthful configuration. With both, `MetadataComputeIsCurrent`,
`MetadataValidatedIsCurrent` and `MetadataFailureForgets` are read off the history.

### The geometry (`TensorSlicesProofs`)

For boxes of any dimension: the computed overlap contains exactly the cells of both
(`OverlapIsIntersection`), it is found to be non-empty exactly if there is such a cell
(`MeetsIsCommonCell`: touching borders and empty shards included), and the offsets of a
plan lie within both tensors and send every cell to its place (`PlanMovesCells`). For
any length and number of parts the chunks of a dimension cover it and do not overlap
(`ChunksCover`, `ChunksApart`). Each is proved one dimension at a time by linear
arithmetic; the products of the chunks are isolated in lemmas.

What a rank holds is the end of a sequence of cuts, one per dimension of the mesh. A
recursive definition becomes a function that goes from step to step (`Recursion`), and
what every step keeps is shown of the last one by `AllNaturals`, the smallest
counterexample. So, for meshes and tensors of any number of dimensions: a rank holds
nothing outside of the tensor (`ShardInTensor`); two ranks hold the same along a
dimension, or one is behind the other (`ShardsAligned`), uneven splits, dimensions cut
twice and ranks left with nothing included; and every cell is held by some rank
(`ShardsCover`), for which the row-major numbering that `get_coordinate` undoes has to
reach every coordinate (`CoordinateOnto`).

From these follows what resharding rests on. A plan is the chunk of a shard of some rank
that had the tensor and that the target needs (`PlansAreOfShards`), so `PlanMovesCells`
applies to it, and the plans leave out no cell of the target (`PlansReachAll`), although
`deduplicate_source_chunks` keeps one chunk of those that begin at one place without
looking at where they end. Of the kept chunks that do not begin after a cell, take one
that no other is ahead of. Its mesh has a rank that holds the cell, whose shard begins
no earlier, by alignment, and further on if the chunk does not have the cell; of the
chunks that begin where that one does, one is kept, and it would be ahead.
`Grouped` is what the theorems ask of the recorded groups: the meshes are meshes, the
ranks are theirs, and the tensor had the shape that the target has.

### The load (`LoadCheckpointProofs`)

`LoadQuietAfterReturn`: for every configuration and number of threads. The thread that
called `load` never asks a worker whether it is at work; it looks at results. `WorkerInv`
ties the two: a worker at work holds a file whose result is `open`, and no two hold the
same. So when all results are final nobody is at work, and `PoolInv` says that outside
the pool nobody is at work and nothing is to do. That survives cancellation, since a
cancelled file is one that no worker has taken.

`LoadBringsSaved`: if the plans are right (`PlansRight`), a load that returns has put the
saved value into every cell of every tensor it does not report missing, whichever files
fail, in whichever order threads write, and whichever are read in full afterwards. What a
load settled at its start stays (`SettledInv`) and tells which way an item goes
(`RouteInv`). `LoadInv` says what is loaded already: every item that is finished; of the
item at hand the files that were read, of a file that a thread is at the plans it has
behind it, and, once the threads are done, all files but those left to be read in full.
`CopyRight` is the heart: whatever subset of its plans is copied, a cell that one of them
reaches gets the saved value and any other keeps what it has, so threads that overtake
each other can only repeat what is right. `PlansRight` lets paths share a tensor within an
item only; the configurations with aliases are of that kind.

### The export (`ConsolidationProofs`)

`ExportPublishesWhole` is about the concurrency: for every number of ranks, files,
tensors and threads, every budget and whatever fails, what can be seen is whole. It takes
the plan as given: `PlanRight` says that the plan hands out every file (`PlanSound`,
which `TypeOK` has TLC check in every configuration) and assembles every tensor as saved
(which `PublishedIsSaved` checks wherever a file is published). The plan does not change,
so the assumption about the initial state stays. `Open` is the heart: the temporary file
of a rank has a prefix of its tensors, and the tensor being written and those read ahead
are the ones that follow, in order. `MeetingInv` is about the barriers: who has entered
the one after the files has put all its files in place, and nobody takes them away; so
whoever passes it, and rank 0 before it writes the index, knows that all are.

`ExportTypeCorrect` and `ExportReadAheadBounded` are about the memory. What is
outstanding and what is left of the budget add up to it, except while the one tensor that
is larger than it is read, alone. The costs of the reads are a sum over a sequence
(`Total`), and what happens to the sum when a read is added, taken or cancelled is proved
by the smallest length for which it would be wrong (`AllNaturals`, from the
well-foundedness of the naturals). That is how induction over a recursive function is
done here: the induction theorems of the library take the statement as an operator
parameter, which the provers cannot instantiate, but a smallest counterexample is a
statement about a set.

### Only model-checked

* All liveness (`ReaderIsWoken`, `TimedAcquireReturns`, `LaunchedSaveReleases`,
  `SaveReturns`, `CloseReturns`, `BarrierReturns`, `EverySavePublished`,
  `EveryRankFinishes`, `LoadReturns`, `ExportEnds`): it rests on fairness, which TLAPS
  cannot reason about, since it cannot reason about ENABLED.
* What `PlansRight` and `PlanRight` assume, beyond the geometry above: how the plans of
  an item are collected into its files, what is copied directly, and how an export lays
  out its slices. These go through selections and folds over sequences that take operators
  as arguments and are opaque to the provers. TLC checks them in every configuration of
  section 3.

## 5. What is not modelled, and why

* `locked_mode()` and the other read-only accessors, argument validation, logging.
* The synchronous saver has no concurrency of its own: it calls the writer in the
  caller's thread; its retry of a path is in `CheckpointCommit`. `stage()` of the
  asynchronous saver and its validation copy are debugging aids.
* The storage pool of the stager (reuse by position and size, pinning): `AsyncSaver` has
  one buffer that is reused by every staging, the least favourable case of it.
* In a load: strided shards, items without a target, values that are not tensors,
  `map_location`, the memory-mapped loader, `load_state_dict`, and targets that overlap
  without being the same tensor.
* In an export: a directory that already holds one, and regions that no rank wrote.
  The byte positions of a tensor within a file, in loads and exports.
* The copy of a directory across file systems, which the code itself calls non-atomic:
  the temporary directory is a sibling of the path, so only a mount on the path itself
  leads there.
* The graceful shutdown of the child and the kill after its time limit are one step.
* The connection of a barrier to its store, and the store itself: an external
  service, modelled as an atomic counter and a set of check-ins.
* The write without a barrier and the write in place (`use_tmp_dir` off): they
  promise no atomic publication. User callbacks of the writer.
* A crash of the storage host: `fsync` and the order in which a file system makes
  renames durable are outside this code.
* Byte formats (safetensors headers, `torch.save`), typing, logging.

## 6. Plan

What is left, in this order:

1. `ReshardRight` from `PlansReachAll` and `PlanMovesCells`: that the files of an item have
   all plans of its paths, one path of those that share a tensor, each file those of its
   rank.
2. The assembly of a tensor in an export: `Arrivals` of a slice that `IsContiguous` takes
   for contiguous are those by coordinates.
3. The storage pool: tensors that share a storage, and the clean-up that is skipped
   when a staging fails.
