--------------------------- MODULE LoadCheckpoint ---------------------------
(***************************************************************************)
(* One rank loads a checkpoint: CheckpointLoader.load over                 *)
(* CheckpointReader.read (checkpoint_loader.py, checkpoint_reader.py),     *)
(* with DefaultResharder for the items whose sharding has changed          *)
(* (default_resharder.py) and the worker threads it reads files with.      *)
(*                                                                         *)
(* A configuration says what was saved, by whom and in which form, and     *)
(* what the loading rank wants.  The saved value of a cell of a path is    *)
(* the pair of the path and the cell; a file of a rank holds its shards.   *)
(* Values that are not tensors, and items loaded without a target, are     *)
(* left out.                                                               *)
(***************************************************************************)
EXTENDS ReshardPlans

CONSTANTS
  Items,        \* the checkpoint items, in order
  Paths,        \* the paths of the target, in order
  ItemOf,       \* the item of each path
  None,         \* nothing there
  Configs,      \* the configurations
  MaxWorkers,   \* bound: reader threads
  Faults        \* subset of {"io"}

ItemSet == ToSet(Items)
PathSet == ToSet(Paths)
PathsIn(i) == {p \in PathSet : ItemOf[p] = i}
PathsOf(i) == SelectSeq(Paths, LAMBDA p : ItemOf[p] = i)

(* What is recorded of an item: its groups (none for a path it lacks) and  *)
(* the format of the file each rank wrote, None if it wrote none.  A       *)
(* checkpoint that a Hugging Face tool wrote has no metadata: shards are   *)
(* the paths each of its files holds.                                      *)
ConfigOK(k) ==
  /\ k.resharder \in [ItemSet -> {"none", "skip", "default"}]
  /\ k.manager \in BOOLEAN /\ k.strict \in BOOLEAN /\ k.found \in BOOLEAN
  /\ k.format \in {"unset", "native", "hf"}
  /\ k.recorded \subseteq ItemSet /\ k.moved \subseteq ItemSet /\ k.dtensors \subseteq PathSet
  /\ k.strategy \in {"auto", "offset", "full"} /\ k.workers \in 1 .. MaxWorkers
  /\ \A p \in PathSet : IsSharding(k.target[p]) /\ k.me \in RanksIn(k.target[p])
  /\ \A i \in ItemSet : \A p \in PathsIn(i) : \A g \in ToSet(k.source[i].groups[p]) :
       g.sharding # Foreign => IsSharding(g.sharding) /\ ToSet(g.ranks) = RanksIn(g.sharding)
  /\ \A r \in DOMAIN k.how : k.how[r] \in {"plain", "archive", "tensor"}

ASSUME LoadAssumption ==
  /\ Foreign # None /\ MaxWorkers \in Nat \ {0} /\ Faults \subseteq {"io"}
  /\ \A p \in PathSet : ItemOf[p] \in ItemSet
  /\ \A k \in Configs : ConfigOK(k)

VARIABLES
  K,            \* the configuration
  shards,       \* the parts of the ranks, saved and wanted, which it settles
  plans,        \* how each item would be read, which it settles
  pc,           \* where the load is
  direct,       \* the items still to read directly
  reshard,      \* the items still to reshard
  item,         \* the item that is being resharded
  missing,      \* the paths reported as missing
  mem,          \* the memory of the target tensors
  files,        \* the source files of the current item and their load plans
  result,       \* what has become of each of them
  limit,        \* the worker threads for this item: its file_read_workers
  busy,         \* the file and load plan each worker is at
  full          \* the files still to be read in full

job == <<K, shards, plans>>
vars == <<job, pc, direct, reshard, item, missing, mem, files, result, limit, busy, full>>
-----------------------------------------------------------------------------
(* Metadata *)

WholeOn(r, shape) ==
  [shape |-> shape, mesh |-> [shape |-> <<1>>, data |-> <<r>>], place |-> <<Replicate>>]

(* HuggingFaceSafetensorsDistributedMetadataFormat.maybe_load: every file  *)
(* stands for a rank that holds its tensors whole.                         *)
ExportItem(k) ==
  [groups |->
     [p \in PathSet |->
        LET holders == SelectSeq([n \in DOMAIN k.shards |-> n], LAMBDA n : p \in k.shards[n])
        IN  [n \in DOMAIN holders |->
               [sharding |-> WholeOn(holders[n] - 1, k.target[p].shape),
                ranks |-> <<holders[n] - 1>>]]],
   layout |-> [r \in {n - 1 : n \in DOMAIN k.shards} |-> "safetensors"]]

(* Its refusals: a tensor in two files, or no tensor at all.               *)
ExportRefused(k) ==
  \/ UNION ToSet(k.shards) = {}
  \/ \E m, n \in DOMAIN k.shards : m # n /\ k.shards[m] \intersect k.shards[n] # {}

NoItemReshards == \A i \in ItemSet : K.resharder[i] # "default"
RankAddressable == K.format # "hf"
FastPath == NoItemReshards /\ RankAddressable

(* The contents of the checkpoint; what read learns of an item, unless it  *)
(* takes the fast path.                                                    *)
Saved(i) == IF K.format = "hf" /\ i = "model" THEN ExportItem(K) ELSE K.source[i]
Recorded(i) ==
  /\ ~FastPath /\ K.found
  /\ IF K.format = "hf" THEN i = "model" ELSE i \in K.recorded

(* _load_source_metadata *)
MetadataRefused ==
  /\ ~FastPath
  /\ \/ ~K.found /\ K.format # "unset"
     \/ K.found /\ K.format = "hf" /\ ExportRefused(K)

(* Resharder.should_reshard: no group of some path has the sharding that   *)
(* the target has.                                                         *)
ShardingChanged(i) ==
  \E p \in PathsIn(i) :
    /\ Saved(i).groups[p] # <<>>
    /\ \A n \in DOMAIN Saved(i).groups[p] : Saved(i).groups[p][n].sharding # K.target[p]

(* DefaultResharder.should_reshard: for safetensors always.                *)
ShouldReshard(i) ==
  /\ K.resharder[i] = "default"
  /\ Recorded(i) /\ K.manager
  /\ "safetensors" \in Range(Saved(i).layout) \/ ShardingChanged(i)
-----------------------------------------------------------------------------
(* Files and memory *)

FormatOf(i, r) == IF r \in DOMAIN Saved(i).layout THEN Saved(i).layout[r] ELSE None

RanksOf(i) == DOMAIN Saved(i).layout

(* A file of item i that rank r wrote holds p, and this part of it.        *)
GroupsWith(i, r, p) ==
  {n \in DOMAIN Saved(i).groups[p] : r \in ToSet(Saved(i).groups[p][n].ranks)}
Holds(i, r, p) == FormatOf(i, r) # None /\ GroupsWith(i, r, p) # {}
ShardsIn(i, r) ==
  [p \in {q \in PathSet : GroupsWith(i, r, q) # {}} |->
     LET groups == Saved(i).groups[p]
     IN  LocalShard(groups[CHOOSE n \in GroupsWith(i, r, p) : TRUE].sharding, r)]
Part(i, r, p) == shards.saved[i][r][p]

Wanted(p) == shards.wanted[p]
CellsOf(p) == Cells(Whole(Wanted(p).size))

(* copy_ needs equal sizes, or a source size of 1, which it repeats.  The  *)
(* copy of a plain tensor into a DTensor is refused, and safetensors files *)
(* hold plain tensors.                                                     *)
CanCopy(i, p) ==
  LET part == Part(i, K.me, p).size
      want == Wanted(p).size
  IN  /\ FormatOf(i, K.me) = "safetensors" => p \notin K.dtensors
      /\ Len(part) = Len(want)
      /\ \A d \in DOMAIN want : part[d] \in {1, want[d]}

(* The cell of the saved tensor that a plan puts at x of the target, ...   *)
Origin(i, plan, x) ==
  LET part == Part(i, plan.rank, plan.path)
  IN  [d \in DOMAIN x |-> part.off[d] + plan.srcOff[d]
                           + (IF part.size[d] = 1 THEN 0 ELSE x[d] - plan.box.off[d])]

(* ... so that this is there.                                              *)
Value(i, plan, x) == <<plan.path, Origin(i, plan, x)>>

(* The memory after each plan of a sequence has copied its part of the     *)
(* tensor of its path.                                                     *)
Writers(todo, b, x) == {n \in DOMAIN todo : K.buf[todo[n].path] = b /\ Inside(x, todo[n].box)}
Copied(i, todo) ==
  [b \in DOMAIN mem |->
     [x \in DOMAIN mem[b] |->
        IF Writers(todo, b, x) = {} THEN mem[b][x]
        ELSE Value(i, todo[Max(Writers(todo, b, x))], x)]]

CopyWhole(p) ==
  LoadPlan(p, Whole(Wanted(p).size), K.me, [d \in DOMAIN Wanted(p).size |-> 0])

(* The source slice of a plan is in the tensor of the file.                *)
Readable(i, plan) ==
  /\ Holds(i, plan.rank, plan.path)
  /\ InBounds(Part(i, plan.rank, plan.path).size, Box(plan.srcOff, plan.box.size))

(* _read_without_resharding, for an item: the paths of its file, in order, *)
(* up to the first that cannot be copied.                                  *)
DirectPlan(i) ==
  LET held == SelectSeq(PathsOf(i), LAMBDA p : Holds(i, K.me, p))
      bad == {n \in DOMAIN held : ~CanCopy(i, held[n])}
  IN  [copies |-> [n \in 1 .. (IF bad = {} THEN Len(held) ELSE Min(bad) - 1) |->
                     CopyWhole(held[n])],
       refused |-> bad # {},
       missing |-> PathsIn(i) \ ToSet(held)]

(* _generate_load_plans and _execute_load_plans, for an item: its plans by *)
(* source file, and the paths without one.  With aliased targets one file  *)
(* is read at a time.                                                      *)
ReshardPlan(i) ==
  LET groups(p) == Saved(i).groups[p]
      of == [p \in PathsIn(i) |-> Plans(p, K.target[p], groups(p), K.me)]
      planned == SelectSeq(PathsOf(i), LAMBDA p : of[p] # <<>>)
      kept == SelectSeq(planned,
                LAMBDA p : \E n \in LastOfAliases(planned, K.buf) : planned[n] = p)
      chosen == FlattenSeq([n \in DOMAIN kept |-> of[kept[n]]])
      ranks == Different[[n \in DOMAIN chosen |-> chosen[n].rank]]
  IN  [files |-> [f \in DOMAIN ranks |->
                    [rank |-> ranks[f],
                     plans |-> SelectSeq(chosen, LAMBDA plan : plan.rank = ranks[f])]],
       limit |-> IF kept = planned THEN K.workers ELSE 1,
       missing |-> {p \in PathsIn(i) : Unplanned(p, K.target[p], groups(p), K.me)}]
-----------------------------------------------------------------------------
(* What a load should do *)

(* Without a resharder, or with one that is told to skip, the user has     *)
(* promised that the rank wants what its file holds.                       *)
Promised(i) ==
  \/ K.resharder[i] = "default" /\ K.manager /\ Recorded(i)
  \/ \A p \in PathsIn(i) :
       GroupsWith(i, K.me, p) # {} => Part(i, K.me, p) = Wanted(p)

(* The path whose value a tensor gets that several paths share: the last   *)
(* of them that is not lost.                                               *)
Owner(p, lost) ==
  Paths[Max({n \in DOMAIN Paths : K.buf[Paths[n]] = K.buf[p] /\ Paths[n] \notin lost})]

SavedValue(p, x, lost) == <<Owner(p, lost), Plus(x, Wanted(p).off)>>

(* How an item is read, and the paths that are lost in all.                *)
PlanOf(i) == IF ShouldReshard(i) THEN plans[i].reshard ELSE plans[i].direct
Lost == UNION {PlanOf(i).missing : i \in ItemSet}

LoadPlans(i) ==
  [path : PathsIn(i), box : [off : Seq(Nat), size : Seq(Nat)], rank : Nat, srcOff : Seq(Nat)]

(* The copies of an item that is read directly leave the saved values.     *)
DirectRight(i) ==
  LET copies == plans[i].direct.copies
  IN  /\ copies \in Seq(LoadPlans(i))
      /\ ~plans[i].direct.refused /\ Promised(i) =>
           \A p \in PathsIn(i) \ Lost : \A x \in CellsOf(p) :
             LET writers == Writers(copies, K.buf[p], x)
             IN  writers # {} /\ Value(i, copies[Max(writers)], x) = SavedValue(p, x, Lost)

(* A chunk of the plans of an item has this cell of the tensor of p.       *)
Reaches(plan, p, x) == K.buf[plan.path] = K.buf[p] /\ Inside(x, plan.box)

(* No file is planned for nothing, whatever can be read of a plan has the  *)
(* saved values, and together the plans reach every cell.                  *)
ReshardRight(i) ==
  LET planned == plans[i].reshard.files
  IN  /\ \A f \in DOMAIN planned : planned[f].plans \in Seq(LoadPlans(i)) \ {<<>>}
      /\ \A p \in PathsIn(i) \ Lost : \A x \in CellsOf(p) :
           /\ \A f \in DOMAIN planned : \A n \in DOMAIN planned[f].plans :
                LET plan == planned[f].plans[n]
                IN  Reaches(plan, p, x) /\ Readable(i, plan) =>
                      Value(i, plan, x) = SavedValue(p, x, Lost)
           /\ \E f \in DOMAIN planned : \E n \in DOMAIN planned[f].plans :
                Reaches(planned[f].plans[n], p, x)

(* However an item is going to be read, its plans bring every cell the     *)
(* value that was saved for it.  A tensor that several paths share belongs *)
(* to one item.                                                            *)
PlansRight ==
  /\ \A p, q \in PathSet : K.buf[p] = K.buf[q] =>
       ItemOf[p] = ItemOf[q] /\ Wanted(p).size = Wanted(q).size
  /\ \A i \in ItemSet : IF ShouldReshard(i) THEN ReshardRight(i) ELSE DirectRight(i)
-----------------------------------------------------------------------------
Idle == [file |-> 0, at |-> 0]

TypeOK ==
  /\ PlansRight
  /\ pc \in {"start", "items", "offset", "drain", "full", "done", "failed"}
  /\ direct \subseteq ItemSet /\ reshard \subseteq ItemSet /\ direct \intersect reshard = {}
  /\ pc \in {"offset", "drain", "full"} => item \in ItemSet \ (direct \union reshard)
  /\ missing \subseteq PathSet
  /\ \A p \in PathSet : DOMAIN mem[K.buf[p]] = CellsOf(p)
  /\ result \in [DOMAIN files -> {"todo", "open", "read", "full", "error", "cancelled"}]
  /\ limit \in 0 .. MaxWorkers
  /\ \A w \in 1 .. MaxWorkers :
       busy[w] # Idle => /\ w <= limit /\ result[busy[w].file] = "open"
                         /\ busy[w].at \in DOMAIN files[busy[w].file].plans
  /\ full \subseteq DOMAIN files

Init ==
  /\ K \in Configs
  /\ shards = [saved |-> [i \in ItemSet |-> [r \in RanksOf(i) |-> ShardsIn(i, r)]],
               wanted |-> [p \in PathSet |-> LocalShard(K.target[p], K.me)]]
  /\ plans = [i \in ItemSet |-> [direct |-> DirectPlan(i), reshard |-> ReshardPlan(i)]]
  /\ pc = "start"
  /\ direct = {} /\ reshard = {} /\ item = None /\ missing = {}
  /\ mem = [b \in {K.buf[p] : p \in PathSet} |->
              [x \in CellsOf(CHOOSE p \in PathSet : K.buf[p] = b) |-> None]]
  /\ files = <<>> /\ result = <<>> /\ full = {} /\ limit = 0
  /\ busy = [w \in 1 .. MaxWorkers |-> Idle]

Fails == "io" \in Faults
-----------------------------------------------------------------------------
(* The thread that calls load *)

(* read: which items are read directly, and which are resharded.  A format *)
(* whose files hold other parts than those of a rank must be resharded.    *)
Decide ==
  /\ pc = "start"
  /\ LET plainly == {i \in ItemSet : ~ShouldReshard(i)}
     IN  IF MetadataRefused \/ (~RankAddressable /\ \E i \in plainly : Recorded(i))
         THEN pc' = "failed" /\ UNCHANGED <<direct, reshard>>
         ELSE /\ pc' = "items"
              /\ direct' = plainly
              /\ reshard' = ItemSet \ plainly
  /\ UNCHANGED <<job, item, missing, mem, files, result, limit, busy, full>>

(* Items are taken in order. *)
IsFirst(i, left) ==
  /\ i \in left
  /\ \E n \in DOMAIN Items : Items[n] = i /\ \A m \in 1 .. (n - 1) : Items[m] \notin left

(* The file of an item that is read directly: where the metadata says,     *)
(* else where the item is configured to be, else the conventional one.     *)
Located(i) ==
  /\ FormatOf(i, K.me) # None
  /\ Recorded(i) \/ i \notin K.moved

(* An item is read from the file of this rank.                             *)
ReadDirectly ==
  /\ pc = "items"
  /\ \E i \in direct :
       /\ IsFirst(i, direct)
       /\ direct' = direct \ {i}
       /\ IF Located(i)
          THEN /\ mem' = Copied(i, plans[i].direct.copies)
               /\ missing' = missing \union plans[i].direct.missing
               /\ pc' = IF plans[i].direct.refused THEN "failed" ELSE pc
          ELSE pc' = "failed" /\ UNCHANGED <<mem, missing>>
  /\ UNCHANGED <<job, reshard, item, files, result, limit, busy, full>>

(* The next item is planned. *)
PlanItem ==
  /\ pc = "items" /\ direct = {}
  /\ \E i \in reshard :
       /\ IsFirst(i, reshard)
       /\ item' = i /\ reshard' = reshard \ {i}
       /\ files' = plans[i].reshard.files
       /\ result' = [f \in DOMAIN files' |-> "todo"]
       /\ missing' = missing \union plans[i].reshard.missing
       /\ IF K.strategy = "full"
          THEN pc' = "full" /\ full' = DOMAIN files' /\ limit' = 0
          ELSE pc' = "offset" /\ UNCHANGED full /\ limit' = plans[i].reshard.limit
  /\ UNCHANGED <<job, direct, mem, busy>>

(* The results of the files are taken in order.                            *)
FirstError(f) == result[f] = "error" /\ \A e \in 1 .. (f - 1) : result[e] \in {"read", "full"}

CancelFiles ==
  /\ pc = "offset"
  /\ \E f \in DOMAIN files : FirstError(f)
  /\ pc' = "drain"
  /\ result' = [f \in DOMAIN files |-> IF result[f] = "todo" THEN "cancelled" ELSE result[f]]
  /\ UNCHANGED <<job, direct, reshard, item, missing, mem, files, limit, busy, full>>

(* Mutant: the error is raised while other files are still being read. *)
RaiseAtOnce ==
  /\ pc = "drain"
  /\ pc' = "failed"
  /\ UNCHANGED <<job, direct, reshard, item, missing, mem, files, result, limit, busy, full>>

(* Mutant: the pool waits for the files it has cancelled too. *)
RaiseWhenAllRead ==
  /\ pc = "drain"
  /\ \A f \in DOMAIN files : result[f] \in {"read", "full", "error"}
  /\ pc' = "failed"
  /\ UNCHANGED <<job, direct, reshard, item, missing, mem, files, result, limit, busy, full>>

(* Leaving the pool waits for the files that have been opened.             *)
Raise ==
  /\ pc = "drain"
  /\ \A w \in 1 .. MaxWorkers : busy[w] = Idle
  /\ pc' = "failed"
  /\ UNCHANGED <<job, direct, reshard, item, missing, mem, files, result, limit, busy, full>>

(* Mutant: the files that offsets could not be used for are forgotten. *)
OffsetsSuffice ==
  /\ pc = "offset"
  /\ \A f \in DOMAIN files : result[f] \in {"read", "full"}
  /\ full' = {}
  /\ pc' = "full"
  /\ UNCHANGED <<job, direct, reshard, item, missing, mem, files, result, limit, busy>>

OffsetsRead ==
  /\ pc = "offset"
  /\ \A f \in DOMAIN files : result[f] \in {"read", "full"}
  /\ full' = {f \in DOMAIN files : result[f] = "full"}
  /\ pc' = "full"
  /\ UNCHANGED <<job, direct, reshard, item, missing, mem, files, result, limit, busy>>

(* The files that offsets could not be used for, whole, one at a time: all *)
(* slices are read before the first is copied.                             *)
ReadInFull ==
  /\ pc = "full"
  /\ \E f \in full :
       /\ \A e \in full : f <= e
       /\ full' = full \ {f}
       /\ LET todo == files[f].plans
          IN  IF \A n \in DOMAIN todo : Readable(item, todo[n])
              THEN mem' = Copied(item, todo) /\ UNCHANGED pc
              ELSE pc' = "failed" /\ UNCHANGED mem
  /\ UNCHANGED <<job, direct, reshard, item, missing, files, result, limit, busy>>

ItemDone ==
  /\ pc = "full" /\ full = {}
  /\ pc' = "items"
  /\ item' = None
  /\ files' = <<>> /\ result' = <<>>
  /\ UNCHANGED <<job, direct, reshard, missing, mem, limit, busy, full>>

(* A strict load raises if a path is missing, with the rest loaded.        *)
Return ==
  /\ pc = "items" /\ direct = {} /\ reshard = {}
  /\ pc' = IF K.strict /\ missing # {} THEN "failed" ELSE "done"
  /\ UNCHANGED <<job, direct, reshard, item, missing, mem, files, result, limit, busy, full>>

(* The storage fails the thread: no directory, a file that cannot be read. *)
StorageFails ==
  /\ Fails
  /\ pc = "start" \/ (pc = "items" /\ direct # {}) \/ (pc = "full" /\ full # {})
  /\ pc' = "failed"
  /\ UNCHANGED <<job, direct, reshard, item, missing, mem, files, result, limit, busy, full>>
-----------------------------------------------------------------------------
(* The worker threads *)

(* An offset read that is not supported: the file is left for a full read. *)
Unsupported == IF K.strategy = "offset" THEN "error" ELSE "full"

(* A worker takes the next file.                                           *)
OpenFile(w) ==
  /\ w <= limit /\ busy[w] = Idle
  /\ \E f \in DOMAIN files :
       /\ result[f] = "todo" /\ \A e \in 1 .. (f - 1) : result[e] # "todo"
       /\ \/ /\ FormatOf(item, files[f].rank) # None
             /\ K.how[files[f].rank] # "archive"
             /\ busy' = [busy EXCEPT ![w] = [file |-> f, at |-> 1]]
             /\ result' = [result EXCEPT ![f] = "open"]
          \/ /\ FormatOf(item, files[f].rank) # None
             /\ K.how[files[f].rank] = "archive"
             /\ result' = [result EXCEPT ![f] = Unsupported]
             /\ UNCHANGED busy
          \/ /\ FormatOf(item, files[f].rank) = None \/ Fails
             /\ result' = [result EXCEPT ![f] = "error"]
             /\ UNCHANGED busy
  /\ UNCHANGED <<job, pc, direct, reshard, item, missing, mem, files, limit, full>>

(* Mutant: the worker stays at its file. *)
CloseButStay(w, r) ==
  /\ UNCHANGED busy
  /\ result' = [result EXCEPT ![busy[w].file] = r]

(* It leaves its file.                                                     *)
Close(w, r) ==
  /\ busy' = [busy EXCEPT ![w] = Idle]
  /\ result' = [result EXCEPT ![busy[w].file] = r]

(* It reads the slice of a plan and copies it to the target.               *)
ReadSlice(w) ==
  /\ busy[w] # Idle
  /\ LET file == files[busy[w].file]
         plan == file.plans[busy[w].at]
     IN  \/ /\ Readable(item, plan)
            /\ mem' = Copied(item, <<plan>>)
            /\ IF busy[w].at < Len(file.plans)
               THEN busy' = [busy EXCEPT ![w].at = @ + 1] /\ UNCHANGED result
               ELSE Close(w, "read")
         \/ /\ K.how[file.rank] = "tensor" /\ Close(w, Unsupported) /\ UNCHANGED mem
         \/ /\ ~Readable(item, plan) \/ Fails
            /\ Close(w, "error") /\ UNCHANGED mem
  /\ UNCHANGED <<job, pc, direct, reshard, item, missing, files, limit, full>>
-----------------------------------------------------------------------------
Main ==
  \/ Decide \/ ReadDirectly \/ PlanItem \/ CancelFiles \/ Raise \/ OffsetsRead
  \/ ReadInFull \/ ItemDone \/ Return \/ StorageFails

Worker(w) == OpenFile(w) \/ ReadSlice(w)

Next == Main \/ \E w \in 1 .. MaxWorkers : Worker(w)

Spec == Init /\ [][Next]_vars

(* Threads that can go on do so: nothing here blocks but the waits that    *)
(* the actions state.  (A step of either kind always changes the variables *)
(* named.)                                                                 *)
FairSpec ==
  /\ Spec
  /\ WF_<<pc, direct, reshard, full>>(Main)
  /\ \A w \in 1 .. MaxWorkers : WF_<<result, busy>>(Worker(w))
-----------------------------------------------------------------------------
Returned == pc \in {"done", "failed"}

(* When load returns, every cell of every tensor that it does not report   *)
(* as missing has the value that was saved for it, whichever ranks held    *)
(* it then and whichever way the files were read.                          *)
LoadedIsSaved ==
  pc = "done" =>
    \A p \in PathSet \ missing :
      Promised(ItemOf[p]) =>
        \A x \in CellsOf(p) : mem[K.buf[p]][x] = SavedValue(p, x, missing)

(* Once load has returned or raised, no thread of its writes to the        *)
(* tensors: training goes on with them.                                    *)
QuietAfterReturn == [][Returned => UNCHANGED mem]_vars

(* A load returns or raises, also when files fail or cannot be read by     *)
(* offsets.                                                                *)
LoadReturns == <>Returned
=============================================================================
