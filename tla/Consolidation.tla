---------------------------- MODULE Consolidation ----------------------------
(***************************************************************************)
(* The ranks of a job merge a safetensors checkpoint into the files of a   *)
(* Hugging Face export (hf/consolidation.py): they share out the output    *)
(* files, assemble the tensors from the shards with reader threads that    *)
(* run ahead within a memory budget, and meet at barriers around the       *)
(* output directory, the files and the index that names them.              *)
(*                                                                         *)
(* A configuration says what was saved and what is asked for.  The saved   *)
(* value of a cell of a tensor is the pair of its name and the cell; an    *)
(* element takes one byte.  The output directory is new.                   *)
(***************************************************************************)
EXTENDS TensorSlices

CONSTANTS
  None,         \* nothing there
  Foreign,      \* a ShardingMetadata that is not of a DTensor
  Configs,      \* the configurations
  Threads,      \* _MAX_READER_THREADS
  Budget        \* _READER_MEMORY_BUDGET_BYTES

(* fqns are sorted; a name is a path that was flattened, so two may be the *)
(* same.  layout has the format of the file of each source rank (None: it  *)
(* wrote none), held and odd the tensors in its header and those of        *)
(* another shape or dtype than the metadata's; collide are the ranks whose *)
(* input file is at the place of an output file.  A mapping of None leaves *)
(* the choice of the output files to the code; order lists the names it    *)
(* has.                                                                    *)
ConfigOK(k) ==
  /\ k.world \in Nat \ {0}
  /\ \A p \in ToSet(k.fqns) : \A g \in ToSet(k.groups[p]) :
       g.sharding # Foreign => IsSharding(g.sharding) /\ ToSet(g.ranks) \subseteq RanksIn(g.sharding)
  /\ \A r \in DOMAIN k.layout : k.layout[r] \in {None, "torch", "safetensors"}
  /\ DOMAIN k.held = DOMAIN k.layout /\ DOMAIN k.odd = DOMAIN k.layout
  /\ k.collide \subseteq DOMAIN k.layout
  /\ k.faults \subseteq {"io", "slow", "crash"}

ASSUME ConsolidationAssumption ==
  /\ Threads \in Nat \ {0} /\ Budget \in Nat \ {0}
  /\ \A k \in Configs : ConfigOK(k)

VARIABLES
  K,            \* the configuration
  plan,         \* what every rank computes from it
  pc,           \* where each rank is
  arrived,      \* the ranks that have entered each barrier
  made,         \* the output directory is there
  todo,         \* the output files each rank still has to write, the current one first
  next,         \* the place of its next tensor to read, 0 when no file is open
  pending,      \* its tensors being read ahead, in order
  writing,      \* the tensor it is writing
  avail,        \* what is left of its budget
  tmp,          \* the temporary file each rank writes
  out,          \* the output files in place
  index         \* the index file in place

pipeline == <<todo, next, pending, writing, avail>>
disk == <<made, tmp, out, index>>
vars == <<K, plan, pc, arrived, pipeline, disk>>
-----------------------------------------------------------------------------
(* Sharing out the work *)

Place(s, x) == CHOOSE n \in DOMAIN s : s[n] = x

Names == ToSet(K.fqns)
ShapeOf(p) == K.groups[p][1].sharding.shape
NumBytes(p) == Volume(ShapeOf(p))

(* _validate_sharding_metadata_groups *)
GroupsRefused(p) ==
  \/ K.groups[p] = <<>>
  \/ \E g \in ToSet(K.groups[p]) : g.ranks = <<>> \/ g.sharding = Foreign
  \/ \E g \in ToSet(K.groups[p]) : g.sharding.shape # ShapeOf(p)

(* _validate_fqn_to_index_mapping *)
MappingRefused ==
  /\ K.mapping # None
  /\ Names \ DOMAIN K.mapping # {} \/ \E p \in DOMAIN K.mapping : K.mapping[p] < 1

(* Refusals of every rank; _load_item_metadata wants a file of the item,   *)
(* and _fqn_to_num_bytes_from_metadata names that do not collide.          *)
Refused ==
  \/ ~IsInjective(K.fqns)
  \/ \A r \in DOMAIN K.layout : K.layout[r] = None
  \/ \E p \in Names : GroupsRefused(p)
  \/ MappingRefused

(* _assign_items_to_owners_by_size: the largest first, each to the owner   *)
(* with the least so far.                                                  *)
Owners(items, size, n) ==
  LET sorted == SortSeq(items, LAMBDA a, b :
                  size[a] > size[b] \/ (size[a] = size[b] /\ Place(items, a) < Place(items, b)))
      Load(given, o) == FoldSet(LAMBDA i, sum : sum + size[i], 0,
                                {i \in DOMAIN given : given[i] = o})
      Give(given, i) ==
        LET lightest == CHOOSE o \in 0 .. (n - 1) : \A q \in 0 .. (n - 1) :
                          Load(given, o) < Load(given, q) \/ (Load(given, o) = Load(given, q) /\ o <= q)
        IN  given @@ (i :> lightest)
  IN  [order |-> sorted, owner |-> FoldLeft(Give, <<>>, sorted)]

(* The output files, 1 and up, and the tensors of each, in order.          *)
DefaultMapping ==
  Owners(K.fqns, [p \in Names |-> NumBytes(p)], Least(K.world, Len(K.fqns)))
IndexFor(p) == IF K.mapping = None THEN DefaultMapping.owner[p] + 1 ELSE K.mapping[p]
MappingOrder ==
  IF K.mapping = None THEN DefaultMapping.order ELSE SelectSeq(K.order, LAMBDA p : p \in Names)

(* The tensor slices of p: the shards of the group of the lowest ranks     *)
(* that were written, each from the first rank that has it.                *)
ChosenGroup(p) ==
  LET lower(g, h) == \E n \in DOMAIN g.ranks :
        /\ \A m \in 1 .. (n - 1) : m \in DOMAIN h.ranks /\ g.ranks[m] = h.ranks[m]
        /\ n \in DOMAIN h.ranks /\ g.ranks[n] < h.ranks[n]
  IN  CHOOSE g \in ToSet(K.groups[p]) : \A h \in ToSet(K.groups[p]) : ~lower(h, g)

WrittenRanks(p) == {r \in ToSet(ChosenGroup(p).ranks) : r \in DOMAIN K.layout /\ K.layout[r] # None}
Slices(p) == {LocalShard(ChosenGroup(p).sharding, r) : r \in WrittenRanks(p)}

(* _source_ranks_for_fqns, and those with a file.                          *)
SourceRanks(fqns) == UNION {ToSet(g.ranks) : g \in UNION {ToSet(K.groups[p]) : p \in fqns}}
Opened(fqns) == {r \in SourceRanks(fqns) : r \in DOMAIN K.layout /\ K.layout[r] # None}

(* _validate_header_fqns_are_known *)
HeaderUnknown(r) == K.held[r] \ Names # {}

(* _validate_input_output_paths_are_disjoint *)
Overwritten(r) == r \in K.collide

(* _validate_written_tensor: the shard is there and is what the metadata   *)
(* says.                                                                   *)
ShardRefused(p, r) == p \notin K.held[r] \/ p \in K.odd[r]

(* What a rank refuses before it writes the tensors fqns: also a source    *)
(* rank without a layout or with one of another format, and a tensor that  *)
(* no rank wrote.                                                          *)
AssignmentRefused(fqns) ==
  \/ SourceRanks(fqns) \ DOMAIN K.layout # {}
  \/ \E r \in Opened(fqns) : K.layout[r] # "safetensors" \/ HeaderUnknown(r) \/ Overwritten(r)
  \/ \E p \in fqns : WrittenRanks(p) = {} \/ \E r \in WrittenRanks(p) : ShardRefused(p, r)
-----------------------------------------------------------------------------
(* Assembling a tensor *)

(* The source cell that ends up at x of p, by the slices read.             *)
(* _read_full_tensor_into_from_storage: a slice whose cells follow one     *)
(* another is read in one piece into its place, any other is read aside    *)
(* and placed by its coordinates.                                          *)
Arrivals(p, x) ==
  LET shape == ShapeOf(p)
      Piece(s) == {y \in Cells(s) :
        IF IsContiguous(shape, s)
        THEN Flat(s.size, [d \in DOMAIN y |-> y[d] - s.off[d]]) = Flat(shape, x) - Flat(shape, s.off)
        ELSE y = x}
  IN  UNION {Piece(s) : s \in Slices(p)}

Assembled(p) ==
  [x \in Cells(Whole(ShapeOf(p))) |->
     IF Arrivals(p, x) = {} THEN None ELSE <<p, CHOOSE y \in Arrivals(p, x) : TRUE>>]

SavedTensor(p) == [x \in Cells(Whole(ShapeOf(p))) |-> <<p, x>>]

(* _tensor_memory_bytes *)
MemoryBytes(p) ==
  NumBytes(p) + Max({0} \union {Volume(s.size) : s \in {t \in Slices(p) : ~IsContiguous(ShapeOf(p), t)}})
-----------------------------------------------------------------------------
(* What every rank computes before it does anything for the others.        *)
Plan ==
  IF Refused \/ K.fqns = <<>> THEN [refused |-> Refused, members |-> {}]
  ELSE
    LET file == [p \in Names |-> IndexFor(p)]
        fqnsOf == [i \in Range(file) |-> SelectSeq(MappingOrder, LAMBDA p : file[p] = i)]
        size == [i \in Range(file) |->
                   FoldSet(LAMBDA p, sum : sum + NumBytes(p), 0, ToSet(fqnsOf[i]))]
        owner == Owners(SetToSortSeq(Range(file), <), size, K.world).owner
        first(i) == Place(MappingOrder, fqnsOf[i][1])
        mine(r) == {i \in Range(file) : owner[i] = r}
        tensors(r) == UNION {ToSet(fqnsOf[i]) : i \in mine(r)}
    IN  [refused |-> FALSE,
         members |-> {0} \union Range(owner),
         shared |-> \E i \in DOMAIN owner : owner[i] # 0,
         file |-> file,
         fqns |-> fqnsOf,
         files |-> [r \in 0 .. (K.world - 1) |->
                      SetToSortSeq(mine(r), LAMBDA i, j : first(i) < first(j))],
         work |-> [r \in 0 .. (K.world - 1) |-> Cardinality(tensors(r))],
         bad |-> {r \in Range(owner) : AssignmentRefused(tensors(r))},
         bytes |-> [p \in Names |-> MemoryBytes(p)],
         tensor |-> [p \in Names |-> Assembled(p)],
         saved |-> [p \in Names |-> SavedTensor(p)]]
-----------------------------------------------------------------------------
Ranks == 0 .. (K.world - 1)
Terminal == {"returned", "raised", "crashed"}
Barriers == {"join", "dir", "files", "index"}

(* Where a rank goes on after each barrier. *)
After == [join |-> "headers", dir |-> "write", files |-> "publish", index |-> "returned"]

(* The plan hands out every file and every tensor.                         *)
PlanSound ==
  /\ plan.members \subseteq Ranks
  /\ plan.members # {} =>
       /\ 0 \in plan.members /\ (plan.shared \/ plan.members = {0})
       /\ plan.file \in [Names -> DOMAIN plan.fqns]
       /\ \A i \in DOMAIN plan.fqns :
            plan.fqns[i] \in Seq(Names) /\ \E r \in plan.members : i \in ToSet(plan.files[r])
       /\ \A r \in Ranks : plan.files[r] \in Seq(DOMAIN plan.fqns)
       /\ \A p \in Names : p \in ToSet(plan.fqns[plan.file[p]])
       /\ plan.bytes \in [Names -> Nat]

(* A file that is being written, and one that is complete: its header and  *)
(* the tensors that follow it.                                             *)
NewFile(i) == [header |-> plan.fqns[i], data |-> <<>>]
CompleteFile(i) ==
  [header |-> plan.fqns[i],
   data |-> [n \in DOMAIN plan.fqns[i] |-> plan.saved[plan.fqns[i][n]]]]

Reading == {"queued", "reading", "ok", "bad", "cancelled"}

(* The bytes of the tensors a rank has in memory or on the way there.      *)
Outstanding(r) ==
  pending[r] \o (IF writing[r] = None THEN <<>> ELSE <<[fqn |-> writing[r], state |-> "ok"]>>)
Cost(size, read) == IF read.state = "cancelled" THEN 0 ELSE size[read.fqn]
Total(size, reads) ==
  LET upto[n \in 0 .. Len(reads)] == IF n = 0 THEN 0 ELSE upto[n - 1] + Cost(size, reads[n])
  IN  upto[Len(reads)]
Bytes(reads) == Total(plan.bytes, reads)

TypeOK ==
  /\ PlanSound
  /\ DOMAIN pc = Ranks
  /\ \A r \in Ranks :
       /\ pc[r] \in Terminal \union Barriers \union {"start", "headers", "write", "unwind", "publish"}
       /\ next[r] # 0 => /\ pc[r] \in {"write", "unwind", "crashed"} /\ todo[r] # <<>>
                         /\ next[r] <= Len(plan.fqns[Head(todo[r])]) + 1
       /\ \A n \in DOMAIN pending[r] : pending[r][n].state \in Reading
       /\ writing[r] # None => pc[r] \in {"write", "crashed"}
       /\ pc[r] \in {"write", "publish", "returned"} =>
            Budget = avail[r] + Bytes(Outstanding(r))
  /\ made \in BOOLEAN
  /\ \A b \in Barriers : arrived[b] \subseteq plan.members

Init ==
  /\ K \in Configs
  /\ plan = Plan
  /\ pc = [r \in Ranks |-> "start"]
  /\ arrived = [b \in Barriers |-> {}]
  /\ todo = [r \in Ranks |-> <<>>] /\ next = [r \in Ranks |-> 0]
  /\ pending = [r \in Ranks |-> <<>>] /\ writing = [r \in Ranks |-> None]
  /\ avail = [r \in Ranks |-> Budget]
  /\ made = FALSE
  /\ tmp = [r \in Ranks |-> None]
  /\ out = [i \in (IF plan.members = {} THEN {} ELSE DOMAIN plan.fqns) |-> None]
  /\ index = None

Goto(r, place) == pc' = [pc EXCEPT ![r] = place]

(* A rank reaches a barrier, which there is only when files are shared out.*)
Enter(r, b) ==
  IF plan.shared
  THEN Goto(r, b) /\ arrived' = [arrived EXCEPT ![b] = @ \union {r}]
  ELSE Goto(r, After[b]) /\ UNCHANGED arrived

IOFails == "io" \in K.faults
-----------------------------------------------------------------------------
(* Before and after the files *)

(* Metadata and plan; a group of the ranks that take part, if not of all.  *)
Start(r) ==
  /\ pc[r] = "start"
  /\ \/ plan.refused /\ Goto(r, "raised") /\ UNCHANGED arrived
     \/ ~plan.refused /\ r \notin plan.members /\ Goto(r, "returned") /\ UNCHANGED arrived
     \/ r \in plan.members /\ plan.members # Ranks /\ Enter(r, "join")
     \/ r \in plan.members /\ plan.members = Ranks /\ Goto(r, "headers") /\ UNCHANGED arrived
  /\ UNCHANGED <<K, plan, pipeline, disk>>

(* The headers of the source files, the slices, the output directory.      *)
Prepare(r) ==
  /\ pc[r] = "headers"
  /\ IF r \in plan.bad
     THEN Goto(r, "raised") /\ UNCHANGED <<arrived, made, todo>>
     ELSE /\ Enter(r, "dir")
          /\ made' = (made \/ r = 0)
          /\ todo' = [todo EXCEPT ![r] = plan.files[r]]
  /\ UNCHANGED <<K, plan, next, pending, writing, avail, tmp, out, index>>

Pass(r) ==
  /\ pc[r] \in Barriers
  /\ plan.members \subseteq arrived[pc[r]]
  /\ Goto(r, After[pc[r]])
  /\ UNCHANGED <<K, plan, arrived, pipeline, disk>>

(* The time limit of the process group ends a wait.                        *)
Lost(r) == pc[r] \in {"raised", "crashed"}
TimeOut(r) ==
  /\ pc[r] \in Barriers
  /\ \E q \in plan.members : Lost(q)
  /\ Goto(r, "raised")
  /\ UNCHANGED <<K, plan, arrived, pipeline, disk>>

(* Also when the others are only slow. *)
TimeOutEarly(r) ==
  /\ "slow" \in K.faults
  /\ pc[r] \in Barriers
  /\ Goto(r, "raised")
  /\ UNCHANGED <<K, plan, arrived, pipeline, disk>>

AllWritten(r) ==
  /\ pc[r] = "write" /\ todo[r] = <<>>
  /\ Enter(r, "files")
  /\ UNCHANGED <<K, plan, pipeline, disk>>

(* _write_overall_hf_index_file, and the last barrier.                     *)
Publish(r) ==
  /\ pc[r] = "publish"
  /\ Enter(r, "index")
  /\ index' = IF r = 0 THEN plan.file ELSE index
  /\ UNCHANGED <<K, plan, pipeline, made, tmp, out>>

(* The storage fails a rank that has no output file open.                  *)
StorageFails(r) ==
  /\ IOFails
  /\ pc[r] \in {"start", "headers"} \/ (pc[r] = "publish" /\ r = 0)
  /\ Goto(r, "raised")
  /\ UNCHANGED <<K, plan, arrived, pipeline, disk>>

Crash(r) ==
  /\ "crash" \in K.faults
  /\ pc[r] \notin Terminal
  /\ Goto(r, "crashed")
  /\ pending' = [pending EXCEPT ![r] = <<>>]
  /\ UNCHANGED <<K, plan, arrived, todo, next, writing, avail, disk>>
-----------------------------------------------------------------------------
(* Writing an output file *)

Writing(r) == pc[r] = "write" /\ next[r] # 0
Fqns(r) == plan.fqns[Head(todo[r])]

(* The temporary file and its header.                                      *)
OpenFile(r) ==
  /\ pc[r] = "write" /\ todo[r] # <<>> /\ next[r] = 0
  /\ \/ /\ made
        /\ tmp' = [tmp EXCEPT ![r] = NewFile(Head(todo[r]))]
        /\ next' = [next EXCEPT ![r] = 1]
        /\ UNCHANGED pc
     \/ /\ ~made \/ IOFails
        /\ Goto(r, "raised")
        /\ UNCHANGED <<tmp, next>>
  /\ UNCHANGED <<K, plan, arrived, todo, pending, writing, avail, made, out, index>>

(* Mutant: a read that is too large for the budget is never admitted. *)
AdmitsWithinBudget(r) == plan.bytes[Fqns(r)[next[r]]] <= avail[r]

(* Mutant: every read is admitted. *)
AdmitsAlways(r) == TRUE

(* try_reserve, forced for the first outstanding read.                     *)
Admits(r) == pending[r] = <<>> \/ plan.bytes[Fqns(r)[next[r]]] <= avail[r]

(* Reader threads of a rank: no more than it has tensors to write.         *)
ReaderThreads(r) == Least(plan.work[r], Threads)

CanPrefetch(r) ==
  /\ Writing(r) /\ writing[r] = None
  /\ next[r] <= Len(Fqns(r)) /\ Len(pending[r]) < ReaderThreads(r)
  /\ Admits(r)

(* _read_full_tensors_in_order: reads are submitted while they are         *)
(* admitted, ...                                                           *)
Prefetch(r) ==
  /\ CanPrefetch(r)
  /\ LET p == Fqns(r)[next[r]]
     IN  /\ pending' = [pending EXCEPT ![r] = Append(@, [fqn |-> p, state |-> "queued"])]
         /\ avail' = [avail EXCEPT ![r] = @ - plan.bytes[p]]
  /\ next' = [next EXCEPT ![r] = @ + 1]
  /\ UNCHANGED <<K, plan, pc, arrived, todo, writing, disk>>

(* ... then the result of the oldest one is awaited.                       *)
Take(r) ==
  /\ Writing(r) /\ writing[r] = None /\ ~CanPrefetch(r)
  /\ pending[r] # <<>>
  /\ LET read == Head(pending[r])
     IN  \/ /\ read.state = "ok"
            /\ writing' = [writing EXCEPT ![r] = read.fqn]
            /\ UNCHANGED <<pc, avail>>
         \/ /\ read.state = "bad"
            /\ Goto(r, "unwind")
            /\ avail' = [avail EXCEPT ![r] = @ + plan.bytes[read.fqn]]
            /\ UNCHANGED writing
  /\ pending' = [pending EXCEPT ![r] = Tail(@)]
  /\ UNCHANGED <<K, plan, arrived, todo, next, disk>>

(* Mutant: the memory of a tensor that has been written is not released. *)
WriteKeeping(r) ==
  /\ Writing(r) /\ writing[r] # None
  /\ \/ /\ tmp' = [tmp EXCEPT ![r].data = Append(@, plan.tensor[writing[r]])]
        /\ UNCHANGED pc
     \/ /\ IOFails
        /\ Goto(r, "unwind")
        /\ UNCHANGED tmp
  /\ writing' = [writing EXCEPT ![r] = None]
  /\ UNCHANGED <<K, plan, arrived, todo, next, pending, avail, made, out, index>>

(* The tensor is written, and its memory released.                         *)
Write(r) ==
  /\ Writing(r) /\ writing[r] # None
  /\ \/ /\ tmp' = [tmp EXCEPT ![r].data = Append(@, plan.tensor[writing[r]])]
        /\ UNCHANGED pc
     \/ /\ IOFails
        /\ Goto(r, "unwind")
        /\ UNCHANGED tmp
  /\ writing' = [writing EXCEPT ![r] = None]
  /\ avail' = [avail EXCEPT ![r] = @ + plan.bytes[writing[r]]]
  /\ UNCHANGED <<K, plan, arrived, todo, next, pending, made, out, index>>

(* The file takes its place. *)
Rename(r) ==
  /\ Writing(r) /\ writing[r] = None /\ pending[r] = <<>> /\ next[r] > Len(Fqns(r))
  /\ \/ /\ out' = [out EXCEPT ![Head(todo[r])] = tmp[r]]
        /\ tmp' = [tmp EXCEPT ![r] = None]
        /\ todo' = [todo EXCEPT ![r] = Tail(@)]
        /\ next' = [next EXCEPT ![r] = 0]
        /\ UNCHANGED pc
     \/ /\ IOFails
        /\ Goto(r, "unwind")
        /\ UNCHANGED <<out, tmp, todo, next>>
  /\ UNCHANGED <<K, plan, arrived, pending, writing, avail, made, index>>

(* On the way out reads that have not begun are cancelled, all memory is   *)
(* given back ...                                                          *)
Cancel(read) == IF read.state = "queued" THEN [read EXCEPT !.state = "cancelled"] ELSE read
CancelReads(r) ==
  /\ pc[r] = "unwind" /\ avail[r] # Budget
  /\ pending' = [pending EXCEPT ![r] = [n \in DOMAIN @ |-> Cancel(@[n])]]
  /\ avail' = [avail EXCEPT ![r] = Budget]
  /\ UNCHANGED <<K, plan, pc, arrived, todo, next, writing, disk>>

(* ... and the others are awaited; the temporary file is deleted, or, if   *)
(* that fails too, stays.                                                  *)
Unwind(r) ==
  /\ pc[r] = "unwind" /\ avail[r] = Budget
  /\ \A n \in DOMAIN pending[r] : pending[r][n].state \in {"ok", "bad", "cancelled"}
  /\ Goto(r, "raised")
  /\ pending' = [pending EXCEPT ![r] = <<>>]
  /\ next' = [next EXCEPT ![r] = 0]
  /\ tmp' = [tmp EXCEPT ![r] = None] \/ (IOFails /\ UNCHANGED tmp)
  /\ UNCHANGED <<K, plan, arrived, todo, writing, avail, made, out, index>>
-----------------------------------------------------------------------------
(* Reader threads *)

SetState(r, n, s) == pending' = [pending EXCEPT ![r][n].state = s]

BeginRead(r, n) ==
  /\ pending[r][n].state = "queued"
  /\ SetState(r, n, "reading")
  /\ UNCHANGED <<K, plan, pc, arrived, todo, next, writing, avail, disk>>

EndRead(r, n) ==
  /\ pending[r][n].state = "reading"
  /\ \/ SetState(r, n, "ok")
     \/ IOFails /\ SetState(r, n, "bad")
  /\ UNCHANGED <<K, plan, pc, arrived, todo, next, writing, avail, disk>>

Reader(r) == \E n \in DOMAIN pending[r] : BeginRead(r, n) \/ EndRead(r, n)
-----------------------------------------------------------------------------
Rank(r) ==
  \/ Start(r) \/ Prepare(r) \/ Pass(r) \/ AllWritten(r) \/ Publish(r)
  \/ OpenFile(r) \/ Prefetch(r) \/ Take(r) \/ Write(r) \/ Rename(r)
  \/ CancelReads(r) \/ Unwind(r)

Next ==
  \E r \in Ranks : Rank(r) \/ Reader(r) \/ TimeOut(r) \/ TimeOutEarly(r) \/ StorageFails(r) \/ Crash(r)

Spec == Init /\ [][Next]_vars

(* Threads that can go on do so, and a collective that waits for a rank    *)
(* that has left ends by its time limit: the process groups are made with  *)
(* the default one.                                                        *)
MaxWorld == 3
FairSpec ==
  /\ Spec
  /\ \A r \in 0 .. (MaxWorld - 1) :
       /\ WF_<<pc, todo, next, pending, writing, avail>>(r \in Ranks /\ Rank(r))
       /\ WF_pending(r \in Ranks /\ Reader(r))
       /\ WF_pc(r \in Ranks /\ TimeOut(r))
-----------------------------------------------------------------------------
(* What can be seen in the output directory is whole: an output file has   *)
(* its header and every tensor of it, with the values that were saved      *)
(* whoever held them, and once there is an index all files it names are in *)
(* place - whichever ranks fail, are slow or crash on the way.             *)
PublishedIsSaved ==
  /\ \A i \in DOMAIN out : out[i] # None => out[i] = CompleteFile(i)
  /\ index # None => \A p \in Names : out[index[p]] # None /\ p \in ToSet(out[index[p]].header)

(* The tensors that a rank has in memory never exceed its budget, but for  *)
(* a single one that is larger than it all.                                *)
ReadAheadBounded ==
  \A r \in Ranks : Len(Outstanding(r)) <= 1 \/ Bytes(Outstanding(r)) <= Budget

(* Every rank returns or raises, and without a failure the export is made. *)
ExportEnds ==
  <>(/\ \A r \in Ranks : pc[r] \in Terminal
     /\ K.faults = {} /\ ~plan.refused /\ plan.members # {} /\ plan.bad = {} =>
          index # None /\ \A r \in Ranks : pc[r] = "returned")
=============================================================================
