------------------------ MODULE LoadCheckpointProofs ------------------------
(***************************************************************************)
(* Theorems about LoadCheckpoint, for every configuration and every number *)
(* of reader threads: no thread of a load touches the tensors once it has  *)
(* returned or raised, and when it returns they have the saved values.     *)
(*                                                                         *)
(* The caller only tests the results of the files.  WorkerInv ties them to *)
(* the threads: a thread at work holds a file whose result is open, and no *)
(* two hold the same one.  So when no result is open nobody is at work,    *)
(* and nobody begins when none is to do either.                            *)
(*                                                                         *)
(* That the tensors are right takes the plans as they are (PlansRight): a  *)
(* fact about pure functions, which the run checks in every configuration. *)
(* What is proved is that nothing planned is left out, read twice to a     *)
(* wrong end or overwritten: by threads that stop in the middle of a file  *)
(* that is then read in full, by other items, by paths that share a tensor.*)
(***************************************************************************)
EXTENDS LoadCheckpoint, WellFoundedInduction, TLAPS

Workers == 1 .. MaxWorkers

(* What a thread is at is a pair, and the results are those of the files.  *)
ShapeInv ==
  /\ DOMAIN busy = Workers /\ busy = [w \in Workers |-> busy[w]]
  /\ \A w \in Workers : busy[w] = [file |-> busy[w].file, at |-> busy[w].at]
  /\ DOMAIN result = DOMAIN files /\ result = [f \in DOMAIN files |-> result[f]]

WorkerInv ==
  /\ \A w \in Workers : busy[w] # Idle =>
       busy[w].file \in DOMAIN files /\ result[busy[w].file] = "open"
  /\ \A v, w \in Workers :
       v # w /\ busy[v] # Idle /\ busy[w] # Idle => busy[v].file # busy[w].file

Resting == \A w \in Workers : busy[w] = Idle
NothingToDo == limit = 0 \/ \A f \in DOMAIN files : result[f] # "todo"

(* Where the load is, and what its threads may then do.                    *)
PoolInv ==
  /\ pc # "offset" => NothingToDo
  /\ pc \notin {"offset", "drain"} => Resting

IInv == ShapeInv /\ WorkerInv /\ PoolInv
-----------------------------------------------------------------------------
LEMMA InitWorkers == Init => IInv
<1>1. SUFFICES ASSUME Init PROVE IInv
  OBVIOUS
<1>2. /\ busy = [w \in Workers |-> Idle] /\ files = <<>> /\ result = <<>>
      /\ limit = 0 /\ pc = "start"
  BY <1>1 DEF Init, Workers
<1>3. ShapeInv
  BY <1>2 DEF ShapeInv, Idle
<1>4. WorkerInv /\ PoolInv
  BY <1>2 DEF WorkerInv, PoolInv, Resting, NothingToDo
<1> QED
  BY <1>3, <1>4 DEF IInv

(* A step of the calling thread that leaves the pool alone.                *)
LEMMA CallerKeeps ==
  ASSUME IInv, UNCHANGED <<files, result, limit, busy>>,
         pc \notin {"offset", "drain"}, pc' \notin {"offset", "drain"}
  PROVE  IInv'
  BY DEF IInv, ShapeInv, WorkerInv, PoolInv, Resting, NothingToDo

(* Every step of the calling thread keeps the invariant: it goes on from   *)
(* the pool when no result is open, or when it sees that nobody is at work.*)
LEMMA MainKeeps == ASSUME IInv, Main PROVE IInv'
<1>1. CASE Decide
  BY <1>1, CallerKeeps DEF Decide
<1>2. CASE ReadDirectly
  <2>1. pc = "items" /\ pc' \in {"items", "failed"}
    BY <1>2 DEF ReadDirectly
  <2> QED
    BY <1>2, <2>1, CallerKeeps DEF ReadDirectly
<1>3. CASE PlanItem
  <2>1. result' = [f \in DOMAIN files' |-> "todo"]
    BY <1>3 DEF PlanItem
  <2>2. Resting /\ busy' = busy /\ Resting'
    BY <1>3 DEF PlanItem, IInv, PoolInv, Resting
  <2>3. pc' = "offset" \/ (pc' = "full" /\ limit' = 0)
    BY <1>3 DEF PlanItem
  <2>4. ShapeInv'
    BY <2>1, <2>2 DEF IInv, ShapeInv
  <2>5. WorkerInv' /\ PoolInv'
    BY <2>2, <2>3 DEF WorkerInv, PoolInv, Resting, NothingToDo
  <2> QED
    BY <2>4, <2>5 DEF IInv
<1>4. CASE CancelFiles
  <2>1. /\ result' = [f \in DOMAIN files |-> IF result[f] = "todo" THEN "cancelled" ELSE result[f]]
        /\ pc = "offset" /\ pc' = "drain" /\ UNCHANGED <<files, limit, busy>>
    BY <1>4 DEF CancelFiles
  <2>2. ShapeInv'
    BY <2>1 DEF IInv, ShapeInv
  <2>3. WorkerInv'
    BY <2>1 DEF IInv, WorkerInv
  <2>4. PoolInv'
    BY <2>1 DEF PoolInv, NothingToDo
  <2> QED
    BY <2>2, <2>3, <2>4 DEF IInv
<1>5. CASE Raise
  BY <1>5 DEF Raise, IInv, ShapeInv, WorkerInv, PoolInv, Resting, NothingToDo, Workers
<1>6. CASE OffsetsRead
  <2>1. Resting /\ \A f \in DOMAIN files : result[f] # "todo"
    BY <1>6 DEF OffsetsRead, IInv, WorkerInv, Resting
  <2>2. UNCHANGED <<files, result, limit, busy>> /\ pc' = "full"
    BY <1>6 DEF OffsetsRead
  <2> QED
    BY <2>1, <2>2 DEF IInv, ShapeInv, WorkerInv, PoolInv, Resting, NothingToDo
<1>7. CASE ReadInFull
  <2>1. pc = "full" /\ pc' \in {"full", "failed"}
    BY <1>7 DEF ReadInFull
  <2> QED
    BY <1>7, <2>1, CallerKeeps DEF ReadInFull
<1>8. CASE ItemDone
  <2>1. Resting /\ busy' = busy /\ files' = <<>> /\ result' = <<>>
    BY <1>8 DEF ItemDone, IInv, PoolInv, Resting
  <2>2. ShapeInv'
    BY <2>1 DEF IInv, ShapeInv
  <2>3. WorkerInv' /\ PoolInv'
    BY <2>1 DEF WorkerInv, PoolInv, Resting, NothingToDo
  <2> QED
    BY <2>2, <2>3 DEF IInv
<1>9. CASE Return
  <2>1. pc = "items" /\ pc' \in {"done", "failed"}
    BY <1>9 DEF Return
  <2> QED
    BY <1>9, <2>1, CallerKeeps DEF Return
<1>10. CASE StorageFails
  <2>1. pc \in {"start", "items", "full"} /\ pc' = "failed"
    BY <1>10 DEF StorageFails
  <2> QED
    BY <1>10, <2>1, CallerKeeps DEF StorageFails
<1> QED
  BY <1>1, <1>2, <1>3, <1>4, <1>5, <1>6, <1>7, <1>8, <1>9, <1>10 DEF Main
-----------------------------------------------------------------------------
(* A thread opens a file only when there is one to do: not after the load. *)
LEMMA OpenFileKeeps ==
  ASSUME IInv, NEW w \in Workers, OpenFile(w)
  PROVE  IInv'
<1>1. PICK f \in DOMAIN files :
        /\ result[f] = "todo"
        /\ \/ /\ busy' = [busy EXCEPT ![w] = [file |-> f, at |-> 1]]
              /\ result' = [result EXCEPT ![f] = "open"]
           \/ /\ busy' = busy
              /\ result' = [result EXCEPT ![f] = Unsupported]
           \/ /\ busy' = busy
              /\ result' = [result EXCEPT ![f] = "error"]
  BY DEF OpenFile
<1>2. /\ UNCHANGED <<pc, files, limit>> /\ busy[w] = Idle
      /\ w <= limit /\ pc = "offset"
  <2>1. UNCHANGED <<pc, files, limit>> /\ busy[w] = Idle /\ w <= limit
    BY DEF OpenFile
  <2>2. limit # 0
    BY <2>1 DEF Workers
  <2> QED
    BY <1>1, <2>1, <2>2 DEF IInv, PoolInv, NothingToDo
<1>3. PoolInv'
  BY <1>2 DEF PoolInv
<1>4. CASE busy' = [busy EXCEPT ![w] = [file |-> f, at |-> 1]]
           /\ result' = [result EXCEPT ![f] = "open"]
  <2>1. ShapeInv'
    BY <1>2, <1>4 DEF IInv, ShapeInv
  <2>2. \A v \in Workers : busy'[v] = IF v = w THEN [file |-> f, at |-> 1] ELSE busy[v]
    BY <1>4 DEF IInv, ShapeInv
  <2>3. \A e \in DOMAIN files : result'[e] = IF e = f THEN "open" ELSE result[e]
    BY <1>4 DEF IInv, ShapeInv
  <2>4. \A v \in Workers : v # w /\ busy[v] # Idle => busy[v].file # f
    BY <1>1 DEF IInv, WorkerInv
  <2>5. WorkerInv'
    BY <1>2, <2>2, <2>3, <2>4 DEF IInv, WorkerInv
  <2> QED
    BY <1>3, <2>1, <2>5 DEF IInv
<1>5. ASSUME busy' = busy, NEW r, result' = [result EXCEPT ![f] = r]
      PROVE  IInv'
  <2>1. ShapeInv'
    BY <1>2, <1>5 DEF IInv, ShapeInv
  <2>2. \A e \in DOMAIN files : result'[e] = IF e = f THEN r ELSE result[e]
    BY <1>5 DEF IInv, ShapeInv
  <2>3. WorkerInv'
    BY <1>1, <1>2, <1>5, <2>2 DEF IInv, WorkerInv
  <2> QED
    BY <1>3, <2>1, <2>3 DEF IInv
<1> QED
  BY <1>1, <1>4, <1>5

LEMMA CloseKeeps ==
  ASSUME IInv, NEW w \in Workers, busy[w] # Idle, NEW r, r # "todo", Close(w, r),
         UNCHANGED <<pc, files, limit>>
  PROVE  IInv'
<1>1. \A v \in Workers : busy'[v] = IF v = w THEN Idle ELSE busy[v]
  BY DEF Close, IInv, ShapeInv
<1>2. \A f \in DOMAIN files : result'[f] = IF f = busy[w].file THEN r ELSE result[f]
  BY DEF Close, IInv, ShapeInv
<1>3. ShapeInv'
  BY DEF Close, IInv, ShapeInv, Idle
<1>4. WorkerInv'
  BY <1>1, <1>2 DEF IInv, WorkerInv
<1>5. PoolInv'
  BY <1>1, <1>2 DEF IInv, PoolInv, Resting, NothingToDo
<1> QED
  BY <1>3, <1>4, <1>5 DEF IInv

LEMMA ReadSliceKeeps ==
  ASSUME IInv, NEW w \in Workers, ReadSlice(w) PROVE IInv'
<1>1. busy[w] # Idle /\ UNCHANGED <<pc, files, limit>>
  BY DEF ReadSlice
<1>2. \/ busy' = [busy EXCEPT ![w].at = @ + 1] /\ result' = result
      \/ Close(w, "read") \/ Close(w, Unsupported) \/ Close(w, "error")
  BY DEF ReadSlice
<1>3. CASE busy' = [busy EXCEPT ![w].at = @ + 1] /\ result' = result
  <2>1. \A v \in Workers :
          busy'[v] = IF v = w THEN [busy[w] EXCEPT !.at = busy[w].at + 1] ELSE busy[v]
    BY <1>3 DEF IInv, ShapeInv
  <2>2. [busy[w] EXCEPT !.at = busy[w].at + 1] = [file |-> busy[w].file, at |-> busy[w].at + 1]
    BY DEF IInv, ShapeInv
  <2>3. ShapeInv'
    BY <1>1, <1>3, <2>1, <2>2 DEF IInv, ShapeInv
  <2>4. \A v \in Workers : busy'[v].file = busy[v].file
    BY <2>1, <2>2
  <2>5. WorkerInv'
    BY <1>1, <1>3, <2>1, <2>4 DEF IInv, WorkerInv
  <2>6. PoolInv'
    BY <1>1, <1>3, <2>1 DEF IInv, PoolInv, Resting, NothingToDo
  <2> QED
    BY <2>3, <2>5, <2>6 DEF IInv
<1>4. "read" # "todo" /\ "error" # "todo" /\ Unsupported # "todo"
  BY DEF Unsupported
<1> QED
  BY <1>1, <1>2, <1>3, <1>4, CloseKeeps
-----------------------------------------------------------------------------
LEMMA NextKeeps == ASSUME IInv, [Next]_vars PROVE IInv'
<1>1. CASE Main
  BY <1>1, MainKeeps
<1>2. ASSUME NEW w \in Workers, OpenFile(w) PROVE IInv'
  BY <1>2, OpenFileKeeps DEF OpenFile
<1>3. ASSUME NEW w \in Workers, ReadSlice(w) PROVE IInv'
  BY <1>3, ReadSliceKeeps
<1>4. CASE UNCHANGED vars
  BY <1>4 DEF vars, IInv, ShapeInv, WorkerInv, PoolInv, Resting, NothingToDo
<1> QED
  BY <1>1, <1>2, <1>3, <1>4 DEF Next, Worker, Workers

(* The threads of a load never touch the tensors after it has returned or  *)
(* raised, whatever it loads, however many they are and whichever reads    *)
(* fail.                                                                   *)
THEOREM LoadQuietAfterReturn == Spec => QuietAfterReturn
<1>1. ASSUME IInv, [Next]_vars PROVE [Returned => UNCHANGED mem]_vars
  <2>1. SUFFICES ASSUME Next, Returned PROVE UNCHANGED mem
    BY <1>1
  <2>2. Resting
    BY <1>1, <2>1 DEF IInv, PoolInv, Returned
  <2>3. CASE Main
    BY <2>1, <2>3 DEF Main, Returned, Decide, ReadDirectly, PlanItem, CancelFiles, Raise,
                      OffsetsRead, ReadInFull, ItemDone, Return, StorageFails
  <2>4. ASSUME NEW w \in Workers, Worker(w) PROVE UNCHANGED mem
    BY <2>2, <2>4 DEF Worker, OpenFile, ReadSlice, Resting
  <2> QED
    BY <2>1, <2>3, <2>4 DEF Next, Workers
<1>2. Init => IInv
  BY InitWorkers
<1>3. IInv /\ [Next]_vars => IInv'
  BY NextKeeps
<1> QED
  BY <1>1, <1>2, <1>3, PTL DEF Spec, QuietAfterReturn
-----------------------------------------------------------------------------
(* What a load settles when it begins: the plans are right and of their    *)
(* type.                                                                   *)
SettledInv ==
  /\ PlansRight
  /\ \A i \in ItemSet :
       /\ plans[i].direct.missing \subseteq PathSet
       /\ plans[i].reshard.missing \subseteq PathSet
       /\ plans[i].reshard.limit \in 1 .. MaxWorkers

(* A load does not change what it has settled (job), nor what depends on   *)
(* it alone: how items are read, what is lost, which values were saved.    *)
LEMMA RouteStays ==
  ASSUME UNCHANGED job
  PROVE  /\ \A i : Recorded(i)' <=> Recorded(i)
         /\ \A i : ShouldReshard(i)' <=> ShouldReshard(i)
<1>1. K' = K
  BY DEF job
<1>2. ASSUME NEW i PROVE Saved(i)' = Saved(i) /\ (Recorded(i)' <=> Recorded(i))
  BY <1>1 DEF Saved, Recorded, FastPath, NoItemReshards, RankAddressable
<1>3. ASSUME NEW i PROVE ShardingChanged(i)' <=> ShardingChanged(i)
  BY <1>1, <1>2 DEF ShardingChanged
<1> QED
  BY <1>1, <1>2, <1>3 DEF ShouldReshard

LEMMA JobStays ==
  ASSUME UNCHANGED job
  PROVE  /\ \A p : CellsOf(p)' = CellsOf(p)
         /\ \A i, plan, x : Value(i, plan, x)' = Value(i, plan, x)
         /\ \A todo, b, x : Writers(todo, b, x)' = Writers(todo, b, x)
         /\ \A p, x, lost : SavedValue(p, x, lost)' = SavedValue(p, x, lost)
         /\ Lost' = Lost
         /\ \A i : Promised(i)' <=> Promised(i)
         /\ \A i, plan : Readable(i, plan)' <=> Readable(i, plan)
         /\ \A plan, p, x : Reaches(plan, p, x)' <=> Reaches(plan, p, x)
<1>1. K' = K /\ shards' = shards /\ plans' = plans
  BY DEF job
<1>2. \A p : CellsOf(p)' = CellsOf(p) /\ Wanted(p)' = Wanted(p)
  BY <1>1 DEF CellsOf, Wanted
<1>3. \A i, plan, x : Value(i, plan, x)' = Value(i, plan, x)
  BY <1>1 DEF Value, Origin, Part
<1>4. \A todo, b, x : Writers(todo, b, x)' = Writers(todo, b, x)
  BY <1>1 DEF Writers
<1>5. \A p, x, lost : SavedValue(p, x, lost)' = SavedValue(p, x, lost)
  BY <1>1, <1>2 DEF SavedValue, Owner
<1>6. Lost' = Lost
  BY <1>1, RouteStays DEF Lost, PlanOf
<1>7. \A i, p : GroupsWith(i, K.me, p)' = GroupsWith(i, K.me, p)
  BY <1>1 DEF GroupsWith, Saved
<1>8. \A i : Promised(i)' <=> Promised(i)
  BY <1>1, <1>2, <1>7, RouteStays DEF Promised, Part
<1>9. \A i, plan : Readable(i, plan)' <=> Readable(i, plan)
  BY <1>1 DEF Readable, Part, Holds, GroupsWith, FormatOf, Saved
<1>10. \A plan, p, x : Reaches(plan, p, x)' <=> Reaches(plan, p, x)
  BY <1>1 DEF Reaches
<1> QED
  BY <1>2, <1>3, <1>4, <1>5, <1>6, <1>8, <1>9, <1>10

LEMMA SettledStays == ASSUME SettledInv, UNCHANGED job PROVE SettledInv'
<1>1. K' = K /\ shards' = shards /\ plans' = plans
  BY DEF job
<1>2. ASSUME NEW i \in ItemSet, DirectRight(i) PROVE DirectRight(i)'
  BY <1>1, <1>2, JobStays DEF DirectRight
<1>3. ASSUME NEW i \in ItemSet, ReshardRight(i) PROVE ReshardRight(i)'
  BY <1>1, <1>3, JobStays DEF ReshardRight
<1>4. \A p : Wanted(p)' = Wanted(p)
  BY <1>1 DEF Wanted
<1>5. PlansRight'
  BY <1>1, <1>2, <1>3, <1>4, RouteStays DEF SettledInv, PlansRight
<1> QED
  BY <1>1, <1>5 DEF SettledInv

InPool == pc \in {"offset", "drain", "full"}

(* Which way each item goes, and whose files are being read.               *)
RouteInv ==
  /\ pc = "start" => direct = {} /\ reshard = {} /\ missing = {}
  /\ \A i \in direct : ~ShouldReshard(i)
  /\ \A i \in reshard : ShouldReshard(i)
  /\ InPool => ShouldReshard(item) /\ files = plans[item].reshard.files
  /\ full # {} => pc \in {"full", "failed"}

(* The memory has the tensors of the paths, and each has its cells.        *)
MemShape ==
  /\ DOMAIN mem = {K.buf[p] : p \in PathSet}
  /\ \A p \in PathSet : DOMAIN mem[K.buf[p]] = CellsOf(p)

TypeInv == IInv /\ SettledInv /\ RouteInv /\ MemShape /\ TypeOK

(* A copy changes values only, not which tensors and cells there are.      *)
LEMMA CopiedShape ==
  ASSUME MemShape, NEW i, NEW todo, mem' = Copied(i, todo), UNCHANGED job
  PROVE  MemShape'
<1>1. \A p : CellsOf(p)' = CellsOf(p)
  BY JobStays
<1>2. K' = K
  BY DEF job
<1>3. DOMAIN mem' = DOMAIN mem /\ \A b \in DOMAIN mem : DOMAIN (mem'[b]) = DOMAIN mem[b]
  BY DEF Copied
<1> QED
  BY <1>1, <1>2, <1>3 DEF MemShape

LEMMA SameShape ==
  ASSUME MemShape, UNCHANGED mem, UNCHANGED job PROVE MemShape'
<1>1. \A p : CellsOf(p)' = CellsOf(p)
  BY JobStays
<1>2. K' = K
  BY DEF job
<1> QED
  BY <1>1, <1>2 DEF MemShape

(* The types hold when a load begins: a file is planned with one of the    *)
(* limits of the configuration, and only paths of the item are reported.   *)
LEMMA InitTypes == Init /\ PlansRight => TypeInv
<1>1. SUFFICES ASSUME Init, PlansRight PROVE TypeInv
  OBVIOUS
<1>2. IInv
  BY <1>1, InitWorkers
<1>3. K \in Configs /\ ConfigOK(K)
  BY <1>1, LoadAssumption DEF Init
<1>4. SettledInv
  <2>1. ASSUME NEW i \in ItemSet
        PROVE  /\ plans[i].direct = DirectPlan(i) /\ plans[i].reshard = ReshardPlan(i)
    BY <1>1 DEF Init
  <2>2. ASSUME NEW i \in ItemSet PROVE plans[i].direct.missing \subseteq PathSet
    <3>1. DirectPlan(i).missing \subseteq PathsIn(i)
      BY Zenon DEF DirectPlan
    <3> QED
      BY <2>1, <3>1 DEF PathsIn
  <2>3. ASSUME NEW i \in ItemSet PROVE plans[i].reshard.missing \subseteq PathSet
    <3>1. ReshardPlan(i).missing \subseteq PathsIn(i)
      BY Zenon DEF ReshardPlan
    <3> QED
      BY <2>1, <3>1 DEF PathsIn
  <2>4. K.workers \in 1 .. MaxWorkers /\ 1 \in 1 .. MaxWorkers
    BY <1>3, LoadAssumption DEF ConfigOK
  <2>5. ASSUME NEW i \in ItemSet PROVE plans[i].reshard.limit \in 1 .. MaxWorkers
    <3>1. ReshardPlan(i).limit \in {K.workers, 1}
      BY Zenon DEF ReshardPlan
    <3> QED
      BY <2>1, <2>4, <3>1
  <2> QED
    BY <1>1, <2>2, <2>3, <2>5 DEF SettledInv
<1>5. RouteInv
  BY <1>1 DEF Init, RouteInv, InPool
<1>6. MemShape
  <2>1. mem = [b \in {K.buf[p] : p \in PathSet} |->
                 [x \in CellsOf(CHOOSE p \in PathSet : K.buf[p] = b) |-> None]]
    BY <1>1 DEF Init
  <2>2. ASSUME NEW p \in PathSet PROVE DOMAIN mem[K.buf[p]] = CellsOf(p)
    <3>1. PICK q \in PathSet : K.buf[q] = K.buf[p] /\ q = CHOOSE o \in PathSet : K.buf[o] = K.buf[p]
      OBVIOUS
    <3>2. CellsOf(q) = CellsOf(p)
      BY <1>1, <3>1 DEF PlansRight, CellsOf
    <3> QED
      BY <2>1, <3>1, <3>2
  <2> QED
    BY <2>1, <2>2 DEF MemShape
<1>7. TypeOK
  <2>1. /\ pc = "start" /\ direct = {} /\ reshard = {} /\ missing = {}
        /\ files = <<>> /\ result = <<>> /\ full = {} /\ limit = 0
        /\ busy = [w \in 1 .. MaxWorkers |-> Idle]
    BY <1>1 DEF Init
  <2>2. 0 \in 0 .. MaxWorkers
    BY LoadAssumption
  <2> QED
    BY <1>4, <2>1, <2>2, <1>6 DEF TypeOK, MemShape, SettledInv
<1> QED
  BY <1>2, <1>4, <1>5, <1>6, <1>7 DEF TypeInv

(* A step of the calling thread between the pools, or out of one.          *)
LEMMA CallerTypes ==
  ASSUME TypeInv, UNCHANGED <<job, files, result, limit, busy>>, MemShape',
         pc' \in {"items", "full", "done", "failed"}, pc' = "full" => InPool /\ item' = item,
         direct' \subseteq direct, reshard' \subseteq reshard,
         missing' \subseteq PathSet, full' \subseteq DOMAIN files,
         full' # {} => pc' \in {"full", "failed"}
  PROVE  SettledInv' /\ RouteInv' /\ TypeOK'
<1>1. SettledInv'
  BY SettledStays DEF TypeInv, job
<1>2. \A i : ShouldReshard(i)' <=> ShouldReshard(i)
  BY RouteStays DEF job
<1>3. RouteInv'
  BY <1>2 DEF TypeInv, RouteInv, InPool, job
<1>4. TypeOK'
  BY <1>1 DEF TypeInv, TypeOK, InPool, MemShape, job, SettledInv
<1> QED
  BY <1>1, <1>3, <1>4

(* Every step of the calling thread keeps the types.                       *)
LEMMA DecideTypes == ASSUME TypeInv, Decide PROVE SettledInv' /\ RouteInv' /\ MemShape' /\ TypeOK'
<1>1. /\ UNCHANGED <<job, item, missing, mem, files, result, limit, busy, full>> /\ pc = "start"
      /\ pc' \in {"failed", "items"}
      /\ \/ UNCHANGED <<direct, reshard>>
         \/ direct' = {i \in ItemSet : ~ShouldReshard(i)} /\ reshard' = ItemSet \ direct'
  BY DEF Decide
<1>2. SettledInv' /\ MemShape'
  BY <1>1, SettledStays, SameShape DEF TypeInv
<1>3. \A i : ShouldReshard(i)' <=> ShouldReshard(i)
  BY <1>1, RouteStays
<1>4. RouteInv'
  BY <1>1, <1>3 DEF TypeInv, RouteInv, InPool
<1>5. direct' \subseteq ItemSet /\ reshard' \subseteq ItemSet /\ direct' \intersect reshard' = {}
  BY <1>1 DEF TypeInv, TypeOK
<1>6. TypeOK'
  BY <1>1, <1>2, <1>5 DEF TypeInv, TypeOK, MemShape, SettledInv
<1> QED
  BY <1>2, <1>4, <1>6

LEMMA PlanItemTypes ==
  ASSUME TypeInv, PlanItem PROVE SettledInv' /\ RouteInv' /\ MemShape' /\ TypeOK'
<1>1. PICK i \in reshard :
        /\ item' = i /\ reshard' = reshard \ {i}
        /\ files' = plans[i].reshard.files
        /\ result' = [f \in DOMAIN files' |-> "todo"]
        /\ missing' = missing \union plans[i].reshard.missing
        /\ \/ pc' = "full" /\ full' = DOMAIN files' /\ limit' = 0
           \/ pc' = "offset" /\ UNCHANGED full /\ limit' = plans[i].reshard.limit
  BY DEF PlanItem
<1>2. UNCHANGED <<job, direct, mem, busy>> /\ pc = "items" /\ direct = {}
  BY DEF PlanItem
<1>3. SettledInv' /\ MemShape'
  BY <1>2, SettledStays, SameShape DEF TypeInv
<1>4. \A j : ShouldReshard(j)' <=> ShouldReshard(j)
  BY <1>2, RouteStays
<1>5. plans' = plans /\ i \in ItemSet
  BY <1>2 DEF job, TypeInv, TypeOK
<1>6. RouteInv'
  BY <1>1, <1>2, <1>4, <1>5 DEF TypeInv, RouteInv, InPool
<1>7. limit' \in 0 .. MaxWorkers /\ missing' \subseteq PathSet
  BY <1>1, <1>5, LoadAssumption DEF TypeInv, SettledInv, TypeOK
<1>8. full' \subseteq DOMAIN files'
  <2>1. full = {}
    BY <1>2 DEF TypeInv, RouteInv
  <2> QED
    BY <1>1, <2>1
<1>9. \A w \in 1 .. MaxWorkers : busy'[w] = Idle
  BY <1>2 DEF TypeInv, IInv, PoolInv, Resting, Workers
<1>10. TypeOK'
  BY <1>1, <1>2, <1>3, <1>5, <1>7, <1>8, <1>9 DEF TypeInv, TypeOK, MemShape, SettledInv
<1> QED
  BY <1>3, <1>6, <1>10

TypesKept == SettledInv' /\ RouteInv' /\ MemShape' /\ TypeOK'

LEMMA ReadDirectlyTypes == ASSUME TypeInv, ReadDirectly PROVE TypesKept
<1>1. PICK i \in direct :
        /\ direct' = direct \ {i}
        /\ \/ /\ mem' = Copied(i, plans[i].direct.copies)
              /\ missing' = missing \union plans[i].direct.missing
           \/ UNCHANGED <<mem, missing>>
        /\ pc' \in {"items", "failed"}
  BY DEF ReadDirectly
<1>2. /\ UNCHANGED <<job, reshard, item, files, result, limit, busy, full>>
      /\ pc = "items"
  BY DEF ReadDirectly
<1>3. MemShape'
  BY <1>1, <1>2, CopiedShape, SameShape DEF TypeInv
<1>4. i \in ItemSet
  BY <1>1 DEF TypeInv, TypeOK
<1>5. missing' \subseteq PathSet
  BY <1>1, <1>4 DEF TypeInv, TypeOK, SettledInv
<1>6. full' = {}
  BY <1>2 DEF TypeInv, RouteInv
<1> QED
  BY <1>1, <1>2, <1>3, <1>5, <1>6, CallerTypes DEF TypesKept

LEMMA CancelFilesTypes == ASSUME TypeInv, CancelFiles PROVE TypesKept
<1>1. /\ UNCHANGED <<job, direct, reshard, item, missing, mem, files, limit, busy, full>>
      /\ pc = "offset" /\ pc' = "drain"
      /\ result' = [f \in DOMAIN files |-> IF result[f] = "todo" THEN "cancelled" ELSE result[f]]
  BY DEF CancelFiles
<1>2. SettledInv' /\ MemShape'
  BY <1>1, SettledStays, SameShape DEF TypeInv
<1>3. \A i : ShouldReshard(i)' <=> ShouldReshard(i)
  BY <1>1, RouteStays
<1>4. RouteInv'
  BY <1>1, <1>3 DEF TypeInv, RouteInv, InPool, job
<1>5. result' \in [DOMAIN files -> {"todo", "open", "read", "full", "error", "cancelled"}]
  BY <1>1 DEF TypeInv, TypeOK
<1>6. \A w \in 1 .. MaxWorkers :
        busy[w] # Idle => w <= limit /\ result'[busy[w].file] = "open"
                          /\ busy[w].at \in DOMAIN files[busy[w].file].plans
  <2>1. SUFFICES ASSUME NEW w \in 1 .. MaxWorkers, busy[w] # Idle
                 PROVE  /\ w <= limit /\ result'[busy[w].file] = "open"
                        /\ busy[w].at \in DOMAIN files[busy[w].file].plans
    OBVIOUS
  <2>2. busy[w].file \in DOMAIN files /\ result[busy[w].file] = "open"
    BY <2>1 DEF TypeInv, IInv, WorkerInv, Workers
  <2>3. w <= limit /\ busy[w].at \in DOMAIN files[busy[w].file].plans
    BY <2>1 DEF TypeInv, TypeOK
  <2> QED
    BY <1>1, <2>2, <2>3
<1>7. TypeOK'
  BY <1>1, <1>2, <1>5, <1>6 DEF TypeInv, TypeOK, MemShape, SettledInv
<1> QED
  BY <1>2, <1>4, <1>7 DEF TypesKept

LEMMA ItemDoneTypes == ASSUME TypeInv, ItemDone PROVE TypesKept
<1>1. /\ UNCHANGED <<job, direct, reshard, missing, mem, limit, busy, full>>
      /\ pc' = "items" /\ files' = <<>> /\ result' = <<>> /\ pc = "full" /\ full = {}
  BY DEF ItemDone
<1>2. SettledInv' /\ MemShape'
  BY <1>1, SettledStays, SameShape DEF TypeInv
<1>3. \A i : ShouldReshard(i)' <=> ShouldReshard(i)
  BY <1>1, RouteStays
<1>4. RouteInv'
  BY <1>1, <1>3 DEF TypeInv, RouteInv, InPool
<1>5. \A w \in 1 .. MaxWorkers : busy[w] = Idle
  BY <1>1 DEF TypeInv, IInv, PoolInv, Resting, Workers
<1>6. TypeOK'
  BY <1>1, <1>2, <1>5 DEF TypeInv, TypeOK, MemShape, SettledInv
<1> QED
  BY <1>2, <1>4, <1>6 DEF TypesKept

LEMMA MainTypes == ASSUME TypeInv, Main PROVE TypesKept
<1>1. CASE Decide
  BY <1>1, DecideTypes DEF TypesKept
<1>2. CASE ReadDirectly
  BY <1>2, ReadDirectlyTypes
<1>3. CASE PlanItem
  BY <1>3, PlanItemTypes DEF TypesKept
<1>4. CASE CancelFiles
  BY <1>4, CancelFilesTypes
<1>5. CASE Raise \/ Return \/ StorageFails
  <2>1. /\ UNCHANGED <<job, direct, reshard, item, missing, mem, files, result, limit, busy, full>>
        /\ pc' = "failed" \/ (pc = "items" /\ pc' = "done")
    BY <1>5 DEF Raise, Return, StorageFails
  <2>2. MemShape'
    BY <2>1, SameShape DEF TypeInv
  <2>3. missing' \subseteq PathSet /\ full' \subseteq DOMAIN files
    BY <2>1 DEF TypeInv, TypeOK
  <2>4. full' # {} => pc' \in {"full", "failed"}
    BY <2>1 DEF TypeInv, RouteInv
  <2>5. pc' \in {"items", "full", "done", "failed"} /\ pc' # "full"
    BY <2>1
  <2> QED
    BY <2>1, <2>2, <2>3, <2>4, <2>5, CallerTypes DEF TypesKept
<1>6. CASE OffsetsRead
  <2>1. /\ UNCHANGED <<job, direct, reshard, item, missing, mem, files, result, limit, busy>>
        /\ pc = "offset" /\ pc' = "full" /\ full' \subseteq DOMAIN files
    BY <1>6 DEF OffsetsRead
  <2>2. MemShape'
    BY <2>1, SameShape DEF TypeInv
  <2>3. missing' \subseteq PathSet
    BY <2>1 DEF TypeInv, TypeOK
  <2>4. InPool
    BY <2>1 DEF InPool
  <2> QED
    BY <2>1, <2>2, <2>3, <2>4, CallerTypes DEF TypesKept
<1>7. CASE ReadInFull
  <2>1. PICK f \in full :
          /\ full' = full \ {f}
          /\ \/ mem' = Copied(item, files[f].plans) /\ pc' = "full"
             \/ mem' = mem /\ pc' = "failed"
    BY <1>7 DEF ReadInFull
  <2>2. /\ UNCHANGED <<job, direct, reshard, item, missing, files, result, limit, busy>>
        /\ pc = "full"
    BY <1>7 DEF ReadInFull
  <2>3. MemShape'
    BY <2>1, <2>2, CopiedShape, SameShape DEF TypeInv
  <2>4. missing' \subseteq PathSet /\ full' \subseteq DOMAIN files
    BY <2>1, <2>2 DEF TypeInv, TypeOK
  <2>5. InPool
    BY <2>2 DEF InPool
  <2> QED
    BY <2>1, <2>2, <2>3, <2>4, <2>5, CallerTypes DEF TypesKept
<1>8. CASE ItemDone
  BY <1>8, ItemDoneTypes
<1> QED
  BY <1>1, <1>2, <1>3, <1>4, <1>5, <1>6, <1>7, <1>8 DEF Main

(* The load plans of a file that is being read.                            *)
LEMMA PlansOfFile ==
  ASSUME TypeInv, InPool, NEW f \in DOMAIN files
  PROVE  files[f].plans \in Seq(LoadPlans(item)) \ {<<>>} /\ 1 \in DOMAIN files[f].plans
<1>1. item \in ItemSet /\ ReshardRight(item) /\ files = plans[item].reshard.files
  BY DEF TypeInv, TypeOK, InPool, RouteInv, SettledInv, PlansRight
<1>2. files[f].plans \in Seq(LoadPlans(item)) \ {<<>>}
  BY <1>1 DEF ReshardRight
<1> QED
  BY <1>2

(* A step of a thread.                                                     *)
LEMMA WorkerTypes ==
  ASSUME TypeInv, MemShape', InPool, IInv',
         UNCHANGED <<job, pc, direct, reshard, item, missing, files, limit, full>>,
         result' \in [DOMAIN files -> {"todo", "open", "read", "full", "error", "cancelled"}],
         \A w \in Workers : busy'[w] # Idle =>
           w <= limit /\ busy'[w].at \in DOMAIN files[busy'[w].file].plans
  PROVE  TypesKept
<1>1. SettledInv'
  BY SettledStays DEF TypeInv
<1>2. \A i : ShouldReshard(i)' <=> ShouldReshard(i)
  BY RouteStays
<1>3. RouteInv'
  BY <1>2 DEF TypeInv, RouteInv, InPool, job
<1>4. \A w \in Workers : busy'[w] # Idle => result'[busy'[w].file] = "open"
  BY DEF IInv, WorkerInv, Workers
<1>5. TypeOK'
  BY <1>1, <1>4 DEF TypeInv, TypeOK, MemShape, Workers, SettledInv
<1> QED
  BY <1>1, <1>3, <1>5 DEF TypesKept

LEMMA OpenFileTypes ==
  ASSUME TypeInv, NEW w \in Workers, OpenFile(w)
  PROVE  TypesKept /\ InPool
<1>1. PICK f \in DOMAIN files :
        /\ result[f] = "todo"
        /\ \/ /\ busy' = [busy EXCEPT ![w] = [file |-> f, at |-> 1]]
              /\ result' = [result EXCEPT ![f] = "open"]
           \/ /\ busy' = busy
              /\ result' = [result EXCEPT ![f] = Unsupported]
           \/ /\ busy' = busy
              /\ result' = [result EXCEPT ![f] = "error"]
  BY DEF OpenFile
<1>2. /\ UNCHANGED <<job, pc, direct, reshard, item, missing, mem, files, limit, full>>
      /\ w <= limit
  BY DEF OpenFile
<1>3. InPool
  <2>1. limit # 0
    BY <1>2 DEF Workers
  <2> QED
    BY <1>1, <2>1 DEF TypeInv, IInv, PoolInv, NothingToDo, InPool
<1>4. IInv' /\ MemShape'
  BY <1>2, OpenFileKeeps, SameShape DEF TypeInv
<1>5. result' \in [DOMAIN files -> {"todo", "open", "read", "full", "error", "cancelled"}]
  BY <1>1 DEF TypeInv, TypeOK, Unsupported
<1>6. ASSUME NEW v \in Workers, busy'[v] # Idle
      PROVE  v <= limit /\ busy'[v].at \in DOMAIN files[busy'[v].file].plans
  <2>1. CASE busy'[v] = busy[v]
    BY <1>6, <2>1 DEF TypeInv, TypeOK, Workers
  <2>2. CASE v = w /\ busy'[v] = [file |-> f, at |-> 1]
    BY <1>2, <1>3, <2>2, PlansOfFile
  <2>3. busy'[v] = busy[v] \/ (v = w /\ busy'[v] = [file |-> f, at |-> 1])
    BY <1>1 DEF TypeInv, IInv, ShapeInv
  <2> QED
    BY <2>1, <2>2, <2>3
<1> QED
  BY <1>2, <1>3, <1>4, <1>5, <1>6, WorkerTypes

LEMMA ReadSliceTypes ==
  ASSUME TypeInv, NEW w \in Workers, ReadSlice(w)
  PROVE  TypesKept /\ InPool
<1>1. /\ UNCHANGED <<job, pc, direct, reshard, item, missing, files, limit, full>>
      /\ busy[w] # Idle
  BY DEF ReadSlice
<1>2. \/ /\ busy' = [busy EXCEPT ![w].at = @ + 1] /\ result' = result
         /\ busy[w].at < Len(files[busy[w].file].plans)
      \/ Close(w, "read") \/ Close(w, Unsupported) \/ Close(w, "error")
  BY DEF ReadSlice
<1>3. InPool
  BY <1>1 DEF TypeInv, IInv, PoolInv, Resting, InPool
<1>4. MemShape'
  <2>1. (\E plan : mem' = Copied(item, <<plan>>)) \/ UNCHANGED mem
    BY DEF ReadSlice
  <2> QED
    BY <1>1, <2>1, CopiedShape, SameShape DEF TypeInv
<1>5. IInv'
  BY ReadSliceKeeps DEF TypeInv
<1>6. busy[w].file \in DOMAIN files /\ busy[w].at \in DOMAIN files[busy[w].file].plans /\ w <= limit
  BY <1>1 DEF TypeInv, IInv, WorkerInv, TypeOK, Workers
<1>7. result' \in [DOMAIN files -> {"todo", "open", "read", "full", "error", "cancelled"}]
  BY <1>2 DEF TypeInv, TypeOK, Close, Unsupported
<1>8. ASSUME NEW v \in Workers, busy'[v] # Idle
      PROVE  v <= limit /\ busy'[v].at \in DOMAIN files[busy'[v].file].plans
  <2>1. CASE busy'[v] = busy[v]
    BY <1>8, <2>1 DEF TypeInv, TypeOK, Workers
  <2>2. CASE v = w /\ busy' = [busy EXCEPT ![w].at = @ + 1]
             /\ busy[w].at < Len(files[busy[w].file].plans)
    <3>1. busy'[w] = [busy[w] EXCEPT !.at = @ + 1]
      BY <2>2 DEF TypeInv, IInv, ShapeInv
    <3>2. busy[w] = [file |-> busy[w].file, at |-> busy[w].at]
      BY DEF TypeInv, IInv, ShapeInv
    <3>3. busy'[w].file = busy[w].file /\ busy'[w].at = busy[w].at + 1
      BY <3>1, <3>2
    <3>4. files[busy[w].file].plans \in Seq(LoadPlans(item))
      BY <1>3, <1>6, PlansOfFile
    <3>5. busy[w].at + 1 \in DOMAIN files[busy[w].file].plans
      BY <1>6, <2>2, <3>4
    <3> QED
      BY <1>6, <2>2, <3>3, <3>5
  <2>3. busy'[v] = busy[v] \/ busy'[v] = Idle
        \/ (v = w /\ busy' = [busy EXCEPT ![w].at = @ + 1]
            /\ busy[w].at < Len(files[busy[w].file].plans))
    BY <1>2 DEF TypeInv, IInv, ShapeInv, Close
  <2> QED
    BY <1>8, <2>1, <2>2, <2>3
<1> QED
  BY <1>1, <1>3, <1>4, <1>5, <1>7, <1>8, WorkerTypes

LEMMA NextTypes == ASSUME TypeInv, [Next]_vars PROVE TypeInv'
<1>1. IInv'
  BY NextKeeps DEF TypeInv
<1>2. CASE Main
  BY <1>1, <1>2, MainTypes DEF TypeInv, TypesKept
<1>3. ASSUME NEW w \in Workers, Worker(w) PROVE TypeInv'
  BY <1>1, <1>3, OpenFileTypes, ReadSliceTypes DEF TypeInv, TypesKept, Worker
<1>4. CASE UNCHANGED vars
  <2>1. UNCHANGED <<job, pc, direct, reshard, item, missing, mem, files, result, limit, busy, full>>
    BY <1>4 DEF vars
  <2>2. SettledInv' /\ MemShape'
    BY <2>1, SettledStays, SameShape DEF TypeInv
  <2>3. \A i : ShouldReshard(i)' <=> ShouldReshard(i)
    BY <2>1, RouteStays
  <2>4. RouteInv'
    BY <2>1, <2>3 DEF TypeInv, RouteInv, InPool, job
  <2>5. TypeOK'
    BY <2>1, <2>2 DEF TypeInv, TypeOK, MemShape, SettledInv
  <2> QED
    BY <1>1, <2>2, <2>4, <2>5 DEF TypeInv
<1> QED
  BY <1>2, <1>3, <1>4 DEF Next, Workers

(* The variables of a load keep their types: a path is reported only if it *)
(* is wanted, items are read one by one and never both ways, a thread at   *)
(* work is one of those this item may have and is at a plan of an open     *)
(* file.                                                                   *)
THEOREM LoadTypeCorrect == Spec /\ PlansRight => []TypeOK
<1>1. Init /\ PlansRight => TypeInv
  BY InitTypes
<1>2. TypeInv /\ [Next]_vars => TypeInv'
  BY NextTypes
<1>3. TypeInv => TypeOK
  BY DEF TypeInv
<1> QED
  BY <1>1, <1>2, <1>3, PTL DEF Spec
-----------------------------------------------------------------------------
(* A cell, what a load plan reaches, a file, an item has been loaded.      *)
CellLoaded(p, x) == mem[K.buf[p]][x] = SavedValue(p, x, Lost)
PlanLoaded(plan) ==
  \A p \in PathsIn(item) \ Lost : \A x \in CellsOf(p) : Reaches(plan, p, x) => CellLoaded(p, x)
FileLoaded(f) == \A n \in DOMAIN files[f].plans : PlanLoaded(files[f].plans[n])
BeforeLoaded(f, at) ==
  \A n \in DOMAIN files[f].plans : n < at => PlanLoaded(files[f].plans[n])
ItemLoaded(i) ==
  Promised(i) => \A p \in PathsIn(i) \ Lost : \A x \in CellsOf(p) : CellLoaded(p, x)

Begun == ItemSet \ (direct \union reshard)
Finished(i) == i \in Begun /\ (InPool => i # item)

(* What is finished is loaded, and of the item that is being resharded:    *)
(* what threads have read, also of a file they are still at, and all but   *)
(* the files left to be read in full.                                      *)
LoadInv ==
  /\ pc \in {"items", "offset", "full", "done"} =>
       /\ missing = UNION {PlanOf(i).missing : i \in Begun}
       /\ \A i : Finished(i) => ItemLoaded(i)
  /\ pc = "offset" =>
       /\ \A f \in DOMAIN files : result[f] = "read" => FileLoaded(f)
       /\ \A w \in Workers : busy[w] # Idle => BeforeLoaded(busy[w].file, busy[w].at)
  /\ pc = "full" => \A f \in DOMAIN files \ full : FileLoaded(f)
  /\ pc = "done" => direct = {} /\ reshard = {}

(* The greatest element of a set of positions exists: the smallest bound   *)
(* of the set is in it.                                                    *)
LEMMA MaxIn ==
  ASSUME NEW n \in Nat, NEW S \in SUBSET (1 .. n), S # {}
  PROVE  Max(S) \in S
<1> DEFINE less == {ij \in Nat \X Nat : ij[1] < ij[2]}
           above == {k \in Nat : \A s \in S : s <= k}
<1>1. IsWellFoundedOn(less, Nat)
  BY NatLessThanWellFounded DEF OpToRel
<1>2. n \in above
  OBVIOUS
<1>3. above \subseteq Nat /\ above # {}
  BY <1>2
<1> HIDE DEF less
<1>4. PICK m \in above : \A k \in above : ~(<<k, m>> \in less)
  BY <1>1, <1>3, WFMin
<1>5. m \in S
  <2>1. SUFFICES ASSUME m \notin S PROVE FALSE
    OBVIOUS
  <2>2. PICK s \in S : TRUE
    OBVIOUS
  <2>3. s \in 1 .. n /\ s <= m /\ s # m
    BY <2>1, <1>4
  <2>4. m - 1 \in Nat /\ m - 1 < m
    BY <2>3
  <2>5. \A t \in S : t <= m - 1
    BY <2>1, <1>4
  <2>6. m - 1 \in above
    BY <2>4, <2>5
  <2>7. <<m - 1, m>> \in less
    BY <2>4, <1>4 DEF less
  <2> QED
    BY <2>6, <2>7, <1>4
<1>6. \E x \in S : \A y \in S : x >= y
  BY <1>4, <1>5
<1> QED
  BY <1>6 DEF Max

(* What plans of an item write is the saved value, and nothing is written  *)
(* elsewhere.                                                              *)
LEMMA CopyRight ==
  ASSUME TypeInv, InPool, NEW f \in DOMAIN files, NEW todo \in Seq(LoadPlans(item)),
         \A n \in DOMAIN todo :
           /\ \E m \in DOMAIN files[f].plans : todo[n] = files[f].plans[m]
           /\ Readable(item, todo[n]),
         mem' = Copied(item, todo)
  PROVE  /\ \A p \in PathsIn(item) \ Lost : \A x \in CellsOf(p) :
              mem'[K.buf[p]][x] = IF \E n \in DOMAIN todo : Reaches(todo[n], p, x)
                                  THEN SavedValue(p, x, Lost) ELSE mem[K.buf[p]][x]
         /\ \A p \in PathSet \ PathsIn(item) : \A x \in CellsOf(p) :
              mem'[K.buf[p]][x] = mem[K.buf[p]][x]
<1>1. item \in ItemSet /\ ReshardRight(item) /\ files = plans[item].reshard.files
  BY DEF TypeInv, TypeOK, InPool, RouteInv, SettledInv, PlansRight
<1>2. ASSUME NEW p \in PathSet, NEW x \in CellsOf(p)
      PROVE  mem'[K.buf[p]][x] =
               IF Writers(todo, K.buf[p], x) = {} THEN mem[K.buf[p]][x]
               ELSE Value(item, todo[Max(Writers(todo, K.buf[p], x))], x)
  <2>1. K.buf[p] \in DOMAIN mem /\ x \in DOMAIN mem[K.buf[p]]
    BY <1>2 DEF TypeInv, MemShape
  <2> QED
    BY <2>1 DEF Copied
<1>3. ASSUME NEW p \in PathSet, NEW x
      PROVE  Writers(todo, K.buf[p], x) = {n \in DOMAIN todo : Reaches(todo[n], p, x)}
  BY DEF Writers, Reaches
<1>4. ASSUME NEW p \in PathsIn(item) \ Lost, NEW x \in CellsOf(p),
             NEW o \in DOMAIN todo, Reaches(todo[o], p, x)
      PROVE  mem'[K.buf[p]][x] = SavedValue(p, x, Lost)
  <2> DEFINE last == Max(Writers(todo, K.buf[p], x))
  <2>1. p \in PathSet
    BY DEF PathsIn
  <2>2. o \in Writers(todo, K.buf[p], x)
    BY <1>3, <1>4, <2>1
  <2>3. last \in Writers(todo, K.buf[p], x)
    BY <2>2, MaxIn, Len(todo) \in Nat, DOMAIN todo = 1 .. Len(todo) DEF Writers
  <2>4. last \in DOMAIN todo /\ Reaches(todo[last], p, x)
    BY <1>3, <2>1, <2>3
  <2>5. Value(item, todo[last], x) = SavedValue(p, x, Lost)
    <3> HIDE DEF last
    <3>1. PICK m \in DOMAIN files[f].plans : todo[last] = files[f].plans[m]
      BY <2>4
    <3>2. Readable(item, files[f].plans[m]) /\ Reaches(files[f].plans[m], p, x)
      BY <2>4, <3>1
    <3>3. Value(item, files[f].plans[m], x) = SavedValue(p, x, Lost)
      BY <1>1, <1>4, <3>1, <3>2 DEF ReshardRight
    <3> QED
      BY <3>1, <3>3
  <2> QED
    BY <1>2, <1>4, <2>1, <2>2, <2>5
<1>5. ASSUME NEW p \in PathSet \ PathsIn(item), NEW x \in CellsOf(p)
      PROVE  Writers(todo, K.buf[p], x) = {}
  <2>1. SUFFICES ASSUME NEW n \in DOMAIN todo, K.buf[todo[n].path] = K.buf[p] PROVE FALSE
    BY DEF Writers
  <2>2. todo[n] \in LoadPlans(item)
    OBVIOUS
  <2>3. todo[n].path \in PathsIn(item)
    BY <2>2 DEF LoadPlans
  <2> QED
    BY <1>5, <2>1, <2>3 DEF PathsIn, TypeInv, SettledInv, PlansRight
<1>6. ASSUME NEW p \in PathsIn(item) \ Lost, NEW x \in CellsOf(p),
             ~\E n \in DOMAIN todo : Reaches(todo[n], p, x)
      PROVE  mem'[K.buf[p]][x] = mem[K.buf[p]][x]
  <2>1. p \in PathSet
    BY DEF PathsIn
  <2> QED
    BY <1>2, <1>3, <1>6, <2>1
<1> QED
  BY <1>2, <1>4, <1>5, <1>6

(* So what was loaded stays loaded.                                        *)
LEMMA CellsStay ==
  ASSUME UNCHANGED <<job, item, files>>,
         \A p \in PathsIn(item) \ Lost : \A x \in CellsOf(p) :
           CellLoaded(p, x) => mem'[K.buf[p]][x] = SavedValue(p, x, Lost)
  PROVE  /\ \A plan : PlanLoaded(plan) => PlanLoaded(plan)'
         /\ \A f : FileLoaded(f) => FileLoaded(f)'
         /\ \A f, at : BeforeLoaded(f, at) => BeforeLoaded(f, at)'
<1>1. K' = K
  BY DEF job
<1>2. \A p \in PathsIn(item) \ Lost : \A x \in CellsOf(p) : CellLoaded(p, x) => CellLoaded(p, x)'
  BY <1>1, JobStays DEF CellLoaded
<1>3. ASSUME NEW plan, PlanLoaded(plan) PROVE PlanLoaded(plan)'
  BY <1>2, <1>3, JobStays DEF PlanLoaded
<1> QED
  BY <1>3 DEF FileLoaded, BeforeLoaded

LEMMA ItemStays ==
  ASSUME UNCHANGED job, NEW i, ItemLoaded(i),
         \A p \in PathsIn(i) : \A x \in CellsOf(p) : mem'[K.buf[p]][x] = mem[K.buf[p]][x]
  PROVE  ItemLoaded(i)'
<1>1. K' = K
  BY DEF job
<1>2. \A p \in PathsIn(i) : \A x \in CellsOf(p) : CellLoaded(p, x) => CellLoaded(p, x)'
  BY <1>1, JobStays DEF CellLoaded
<1> QED
  BY <1>2, JobStays DEF ItemLoaded

(* A step that copies nothing.                                             *)
LEMMA NothingCopied ==
  ASSUME UNCHANGED <<job, mem>>
  PROVE  /\ \A i : ItemLoaded(i) => ItemLoaded(i)'
         /\ \A i : PlanOf(i)' = PlanOf(i)
         /\ item' = item /\ files' = files => \A plan : PlanLoaded(plan) => PlanLoaded(plan)'
         /\ item' = item /\ files' = files => \A f : FileLoaded(f) => FileLoaded(f)'
         /\ item' = item /\ files' = files =>
              \A f, at : BeforeLoaded(f, at) => BeforeLoaded(f, at)'
<1>1. \A i : ItemLoaded(i) => ItemLoaded(i)'
  BY ItemStays
<1>2. \A i : PlanOf(i)' = PlanOf(i)
  BY RouteStays DEF PlanOf, job
<1>3. ASSUME item' = item /\ files' = files
      PROVE  /\ \A plan : PlanLoaded(plan) => PlanLoaded(plan)'
             /\ \A f : FileLoaded(f) => FileLoaded(f)'
             /\ \A f, at : BeforeLoaded(f, at) => BeforeLoaded(f, at)'
  BY <1>3, CellsStay DEF CellLoaded
<1> QED
  BY <1>1, <1>2, <1>3

(* Every step of the calling thread keeps what is loaded, and adds to it   *)
(* what it has just read.                                                  *)
LEMMA DecideLoads == ASSUME TypeInv, Decide PROVE LoadInv'
<1>1. /\ UNCHANGED <<job, missing, mem>> /\ pc = "start"
      /\ \/ pc' = "failed"
         \/ /\ pc' = "items" /\ direct' = {i \in ItemSet : ~ShouldReshard(i)}
            /\ reshard' = ItemSet \ direct'
  BY DEF Decide
<1>2. missing = {}
  BY <1>1 DEF TypeInv, RouteInv
<1>3. pc' = "items" => Begun' = {}
  BY <1>1 DEF Begun
<1> QED
  BY <1>1, <1>2, <1>3 DEF LoadInv, Finished

LEMMA ReadDirectlyLoads == ASSUME TypeInv, LoadInv, ReadDirectly PROVE LoadInv'
<1>1. PICK i \in direct :
        /\ direct' = direct \ {i}
        /\ \/ /\ mem' = Copied(i, plans[i].direct.copies)
              /\ missing' = missing \union plans[i].direct.missing
              /\ pc' = "items" /\ ~plans[i].direct.refused
           \/ pc' = "failed"
  BY DEF ReadDirectly
<1>2. UNCHANGED <<job, reshard, item, files, result, limit, busy, full>> /\ pc = "items"
  BY DEF ReadDirectly
<1>3. SUFFICES ASSUME pc' = "items" PROVE LoadInv'
  BY <1>1 DEF LoadInv
<1>4. i \in ItemSet /\ ~ShouldReshard(i) /\ DirectRight(i)
  BY <1>1 DEF TypeInv, TypeOK, RouteInv, SettledInv, PlansRight
<1> DEFINE copies == plans[i].direct.copies
<1>5. copies \in Seq(LoadPlans(i))
  BY <1>4 DEF DirectRight
<1>6. ASSUME NEW p \in PathSet, NEW x \in CellsOf(p)
      PROVE  mem'[K.buf[p]][x] =
               IF Writers(copies, K.buf[p], x) = {} THEN mem[K.buf[p]][x]
               ELSE Value(i, copies[Max(Writers(copies, K.buf[p], x))], x)
  <2>1. K.buf[p] \in DOMAIN mem /\ x \in DOMAIN mem[K.buf[p]]
    BY <1>6 DEF TypeInv, MemShape
  <2> QED
    BY <1>1, <1>3, <2>1 DEF Copied
<1>7. ItemLoaded(i)'
  <2>1. ASSUME Promised(i), NEW p \in PathsIn(i) \ Lost, NEW x \in CellsOf(p)
        PROVE  mem'[K.buf[p]][x] = SavedValue(p, x, Lost)
    <3>1. p \in PathSet
      BY DEF PathsIn
    <3>2. /\ Writers(copies, K.buf[p], x) # {}
          /\ Value(i, copies[Max(Writers(copies, K.buf[p], x))], x) = SavedValue(p, x, Lost)
      BY <1>1, <1>3, <1>4, <2>1 DEF DirectRight
    <3> QED
      BY <1>6, <2>1, <3>1, <3>2
  <2>2. K' = K
    BY <1>2 DEF job
  <2> QED
    BY <1>2, <2>1, <2>2, JobStays DEF ItemLoaded, CellLoaded
<1>8. ASSUME NEW j, j # i, ItemLoaded(j) PROVE ItemLoaded(j)'
  <2>1. ASSUME NEW p \in PathsIn(j), NEW x \in CellsOf(p) PROVE mem'[K.buf[p]][x] = mem[K.buf[p]][x]
    <3>1. p \in PathSet /\ ItemOf[p] = j
      BY DEF PathsIn
    <3>2. ASSUME NEW n \in DOMAIN copies, K.buf[copies[n].path] = K.buf[p] PROVE FALSE
      <4>1. copies[n] \in LoadPlans(i)
        BY <1>5
      <4>2. copies[n].path \in PathSet /\ ItemOf[copies[n].path] = i
        BY <4>1 DEF LoadPlans, PathsIn
      <4> QED
        BY <1>8, <3>1, <3>2, <4>2 DEF TypeInv, SettledInv, PlansRight
    <3>3. Writers(copies, K.buf[p], x) = {}
      BY <3>2 DEF Writers
    <3> QED
      BY <1>6, <2>1, <3>1, <3>3
  <2> QED
    BY <1>2, <1>8, <2>1, ItemStays
<1>9. Begun' = Begun \union {i} /\ ~InPool /\ ~InPool'
  BY <1>1, <1>2, <1>3, <1>4 DEF Begun, InPool, TypeInv, TypeOK
<1>10. missing' = UNION {PlanOf(j).missing : j \in Begun'}
  <2>1. missing' = missing \union PlanOf(i).missing
    BY <1>1, <1>3, <1>4 DEF PlanOf
  <2> QED
    BY <1>2, <1>9, <2>1 DEF LoadInv
<1>11. \A j : PlanOf(j)' = PlanOf(j)
  BY <1>2, RouteStays DEF PlanOf, job
<1>12. \A j : Finished(j)' => ItemLoaded(j)'
  BY <1>2, <1>7, <1>8, <1>9 DEF LoadInv, Finished
<1> QED
  BY <1>3, <1>10, <1>11, <1>12 DEF LoadInv

LEMMA PlanItemLoads == ASSUME TypeInv, LoadInv, PlanItem PROVE LoadInv'
<1>1. PICK i \in reshard :
        /\ item' = i /\ reshard' = reshard \ {i}
        /\ files' = plans[i].reshard.files
        /\ result' = [f \in DOMAIN files' |-> "todo"]
        /\ missing' = missing \union plans[i].reshard.missing
        /\ \/ pc' = "full" /\ full' = DOMAIN files'
           \/ pc' = "offset"
  BY DEF PlanItem
<1>2. UNCHANGED <<job, direct, mem, busy>> /\ pc = "items"
  BY DEF PlanItem
<1>3. i \in ItemSet /\ ShouldReshard(i) /\ i \notin direct
  BY <1>1 DEF TypeInv, TypeOK, RouteInv
<1>4. Begun' = Begun \union {i} /\ ~InPool /\ InPool'
  BY <1>1, <1>2, <1>3 DEF Begun, InPool
<1>5. missing' = UNION {PlanOf(j).missing : j \in Begun'}
  <2>1. missing' = missing \union PlanOf(i).missing
    BY <1>1, <1>3 DEF PlanOf
  <2> QED
    BY <1>2, <1>4, <2>1 DEF LoadInv
<1>6. \A j : PlanOf(j)' = PlanOf(j)
  BY <1>2, NothingCopied
<1>7. \A j : Finished(j)' => ItemLoaded(j)'
  BY <1>1, <1>2, <1>4, NothingCopied DEF LoadInv, Finished
<1>8. \A w \in Workers : busy'[w] = Idle
  BY <1>2 DEF TypeInv, IInv, PoolInv, Resting
<1>9. pc' = "full" => DOMAIN files' \ full' = {}
  BY <1>1
<1> QED
  BY <1>1, <1>5, <1>6, <1>7, <1>8, <1>9 DEF LoadInv

LEMMA OffsetsReadLoads == ASSUME TypeInv, LoadInv, OffsetsRead PROVE LoadInv'
<1>1. /\ UNCHANGED <<job, direct, reshard, item, missing, mem, files, result>>
      /\ pc = "offset" /\ pc' = "full" /\ full' = {f \in DOMAIN files : result[f] = "full"}
      /\ \A f \in DOMAIN files : result[f] \in {"read", "full"}
  BY DEF OffsetsRead
<1>2. \A f \in DOMAIN files \ full' : FileLoaded(f)'
  BY <1>1, NothingCopied DEF LoadInv
<1>3. Begun' = Begun /\ InPool /\ InPool'
  BY <1>1 DEF Begun, InPool
<1> QED
  BY <1>1, <1>2, <1>3, NothingCopied DEF LoadInv, Finished

LEMMA ReadInFullLoads == ASSUME TypeInv, LoadInv, ReadInFull PROVE LoadInv'
<1>1. PICK f \in full :
        /\ full' = full \ {f}
        /\ \/ /\ \A n \in DOMAIN files[f].plans : Readable(item, files[f].plans[n])
              /\ mem' = Copied(item, files[f].plans) /\ pc' = "full"
           \/ pc' = "failed"
  BY DEF ReadInFull
<1>2. /\ UNCHANGED <<job, direct, reshard, item, missing, files, result>> /\ pc = "full"
  BY DEF ReadInFull
<1>3. SUFFICES ASSUME pc' = "full" PROVE LoadInv'
  BY <1>1 DEF LoadInv
<1>4. f \in DOMAIN files /\ InPool /\ InPool'
  BY <1>1, <1>2, <1>3 DEF TypeInv, TypeOK, InPool
<1>5. files[f].plans \in Seq(LoadPlans(item))
  BY <1>4, PlansOfFile
<1>6. /\ \A p \in PathsIn(item) \ Lost : \A x \in CellsOf(p) :
           mem'[K.buf[p]][x] = IF \E n \in DOMAIN files[f].plans : Reaches(files[f].plans[n], p, x)
                               THEN SavedValue(p, x, Lost) ELSE mem[K.buf[p]][x]
      /\ \A p \in PathSet \ PathsIn(item) : \A x \in CellsOf(p) :
           mem'[K.buf[p]][x] = mem[K.buf[p]][x]
  BY <1>1, <1>3, <1>4, <1>5, CopyRight
<1>7. \A e : FileLoaded(e) => FileLoaded(e)'
  BY <1>2, <1>6, CellsStay DEF CellLoaded
<1>8. FileLoaded(f)'
  <2>1. K' = K
    BY <1>2 DEF job
  <2>2. ASSUME NEW n \in DOMAIN files[f].plans PROVE PlanLoaded(files[f].plans[n])'
    BY <1>2, <1>6, <2>1, JobStays DEF PlanLoaded, CellLoaded
  <2> QED
    BY <1>2, <2>2 DEF FileLoaded
<1>9. ASSUME NEW i \in ItemSet, i # item, ItemLoaded(i) PROVE ItemLoaded(i)'
  <2>1. \A p \in PathsIn(i) : p \in PathSet \ PathsIn(item)
    BY <1>9 DEF PathsIn
  <2> QED
    BY <1>2, <1>6, <1>9, <2>1, ItemStays
<1>10. Begun' = Begun
  BY <1>2 DEF Begun
<1>11. \A i : PlanOf(i)' = PlanOf(i)
  BY <1>2, RouteStays DEF PlanOf, job
<1>12. \A i : Finished(i)' => ItemLoaded(i)'
  BY <1>2, <1>4, <1>9, <1>10 DEF LoadInv, Finished, Begun
<1>13. \A e \in DOMAIN files \ full' : FileLoaded(e)'
  BY <1>1, <1>2, <1>7, <1>8 DEF LoadInv
<1> QED
  BY <1>2, <1>3, <1>10, <1>11, <1>12, <1>13 DEF LoadInv

LEMMA ItemDoneLoads == ASSUME TypeInv, LoadInv, ItemDone PROVE LoadInv'
<1>1. /\ UNCHANGED <<job, direct, reshard, missing, mem>>
      /\ pc = "full" /\ full = {} /\ pc' = "items"
  BY DEF ItemDone
<1>2. item \in ItemSet /\ ReshardRight(item) /\ files = plans[item].reshard.files
  BY <1>1 DEF TypeInv, TypeOK, InPool, RouteInv, SettledInv, PlansRight
<1>3. ItemLoaded(item)
  <2>1. ASSUME NEW p \in PathsIn(item) \ Lost, NEW x \in CellsOf(p) PROVE CellLoaded(p, x)
    <3>1. PICK f \in DOMAIN files :
            \E n \in DOMAIN files[f].plans : Reaches(files[f].plans[n], p, x)
      BY <1>2 DEF ReshardRight
    <3>2. PICK n \in DOMAIN files[f].plans : Reaches(files[f].plans[n], p, x)
      BY <3>1
    <3>3. PlanLoaded(files[f].plans[n])
      BY <1>1, <3>1 DEF LoadInv, FileLoaded
    <3> QED
      BY <3>2, <3>3 DEF PlanLoaded
  <2> QED
    BY <2>1 DEF ItemLoaded
<1>4. Begun' = Begun /\ InPool /\ ~InPool'
  BY <1>1 DEF Begun, InPool
<1>5. \A i : Finished(i)' => ItemLoaded(i)'
  BY <1>1, <1>3, <1>4, NothingCopied DEF LoadInv, Finished
<1> QED
  BY <1>1, <1>4, <1>5, NothingCopied DEF LoadInv

LEMMA MainLoads == ASSUME TypeInv, LoadInv, Main PROVE LoadInv'
<1>1. CASE Return
  <2>1. /\ UNCHANGED <<job, direct, reshard, missing, mem>>
        /\ pc = "items" /\ pc' \in {"failed", "done"} /\ direct = {} /\ reshard = {}
    BY <1>1 DEF Return
  <2>2. Begun' = Begun /\ ~InPool /\ ~InPool'
    BY <2>1 DEF Begun, InPool
  <2> QED
    BY <2>1, <2>2, NothingCopied DEF LoadInv, Finished
<1>2. CASE CancelFiles \/ Raise \/ StorageFails
  BY <1>2 DEF CancelFiles, Raise, StorageFails, LoadInv
<1> QED
  BY <1>1, <1>2, DecideLoads, ReadDirectlyLoads, PlanItemLoads, OffsetsReadLoads,
     ReadInFullLoads, ItemDoneLoads DEF Main

(* A file that a thread opens, fails or leaves for a full read is not      *)
(* read.                                                                   *)
LEMMA OpenFileLoads ==
  ASSUME TypeInv, LoadInv, NEW w \in Workers, OpenFile(w) PROVE LoadInv'
<1>1. PICK f \in DOMAIN files, r \in {"open", "full", "error"} :
        /\ result[f] = "todo"
        /\ result' = [result EXCEPT ![f] = r]
        /\ busy' = [busy EXCEPT ![w] = [file |-> f, at |-> 1]] \/ busy' = busy
  BY DEF OpenFile, Unsupported
<1>2. UNCHANGED <<job, pc, direct, reshard, item, missing, mem, files, limit, full>>
  BY DEF OpenFile
<1>3. Begun' = Begun /\ InPool' = InPool
  BY <1>2 DEF Begun, InPool
<1>4. ASSUME NEW e \in DOMAIN files, result'[e] = "read" PROVE result[e] = "read"
  BY <1>1, <1>4 DEF TypeInv, TypeOK
<1>5. ASSUME pc = "offset", NEW v \in Workers, busy'[v] # Idle
      PROVE  BeforeLoaded(busy'[v].file, busy'[v].at)
  <2>1. busy'[v] = busy[v] \/ busy'[v] = [file |-> f, at |-> 1]
    BY <1>1 DEF TypeInv, IInv, ShapeInv
  <2>2. CASE busy'[v] = busy[v]
    BY <1>5, <2>2 DEF LoadInv
  <2>3. CASE busy'[v] = [file |-> f, at |-> 1]
    <3>1. InPool
      BY <1>5 DEF InPool
    <3>2. files[f].plans \in Seq(LoadPlans(item))
      BY <3>1, PlansOfFile
    <3>3. \A n \in DOMAIN files[f].plans : ~(n < 1)
      BY <3>2
    <3> QED
      BY <2>3, <3>3 DEF BeforeLoaded
  <2> QED
    BY <2>1, <2>2, <2>3
<1>6. pc = "offset" =>
        /\ \A e \in DOMAIN files : result'[e] = "read" => FileLoaded(e)'
        /\ \A v \in Workers : busy'[v] # Idle => BeforeLoaded(busy[v].file, busy[v].at)'
  <2>1. \A e : FileLoaded(e) => FileLoaded(e)'
    BY <1>2, NothingCopied
  <2>2. \A e, at : BeforeLoaded(e, at) => BeforeLoaded(e, at)'
    BY <1>2, NothingCopied
  <2> QED
    BY <1>4, <1>5, <2>1, <2>2 DEF LoadInv
<1>7. \A i : ItemLoaded(i) => ItemLoaded(i)'
  BY <1>2, NothingCopied
<1>8. \A i : PlanOf(i)' = PlanOf(i)
  BY <1>2, NothingCopied
<1>9. \A e : FileLoaded(e) => FileLoaded(e)'
  BY <1>2, NothingCopied
<1> QED
  BY <1>2, <1>3, <1>6, <1>7, <1>8, <1>9 DEF LoadInv, Finished

(* A thread that leaves a file as read has been at all of its plans.       *)
LEMMA ReadSliceLoads ==
  ASSUME TypeInv, LoadInv, NEW w \in Workers, ReadSlice(w) PROVE LoadInv'
<1>1. /\ UNCHANGED <<job, pc, direct, reshard, item, missing, files, limit, full>>
      /\ busy[w] # Idle
  BY DEF ReadSlice
<1>2. pc \in {"offset", "drain"}
  BY <1>1 DEF TypeInv, IInv, PoolInv, Resting
<1>3. SUFFICES ASSUME pc = "offset" PROVE LoadInv'
  BY <1>1, <1>2 DEF LoadInv
<1>4. InPool /\ InPool' /\ Begun' = Begun
  BY <1>1, <1>3 DEF InPool, Begun
<1>5. PICK f, at, plan :
        /\ f \in DOMAIN files
        /\ busy[w] = [file |-> f, at |-> at]
        /\ at \in DOMAIN files[f].plans
        /\ plan = files[f].plans[at]
  BY <1>1 DEF TypeInv, IInv, ShapeInv, WorkerInv, TypeOK, Workers
<1>6. files[f].plans \in Seq(LoadPlans(item)) /\ plan \in LoadPlans(item)
  BY <1>4, <1>5, PlansOfFile
<1>7. \/ /\ Readable(item, plan) /\ mem' = Copied(item, <<plan>>)
         /\ \/ busy' = [busy EXCEPT ![w].at = @ + 1] /\ result' = result
            \/ ~(at < Len(files[f].plans)) /\ Close(w, "read")
      \/ mem' = mem /\ \E r \in {"full", "error"} : Close(w, r)
  BY <1>5 DEF ReadSlice, Unsupported
<1>8. /\ \A i : PlanOf(i)' = PlanOf(i)
      /\ K' = K
  BY <1>1, RouteStays DEF PlanOf, job
<1>9. SUFFICES /\ \A i : Finished(i) => ItemLoaded(i)'
               /\ \A e \in DOMAIN files : result'[e] = "read" => FileLoaded(e)'
               /\ \A v \in Workers : busy'[v] # Idle => BeforeLoaded(busy[v].file, busy[v].at)'
  BY <1>1, <1>3, <1>4, <1>8 DEF LoadInv, Finished
<1>10. ASSUME mem' = mem, NEW r \in {"full", "error"}, Close(w, r)
       PROVE  /\ \A i : Finished(i) => ItemLoaded(i)'
              /\ \A e \in DOMAIN files : result'[e] = "read" => FileLoaded(e)'
              /\ \A v \in Workers : busy'[v] # Idle => BeforeLoaded(busy[v].file, busy[v].at)'
  <2>1. \A v \in Workers : busy'[v] = Idle \/ busy'[v] = busy[v]
    BY <1>10 DEF Close, TypeInv, IInv, ShapeInv
  <2>2. \A e \in DOMAIN files : result'[e] = "read" => result[e] = "read"
    BY <1>10 DEF Close, TypeInv, TypeOK
  <2>3. \A i : Finished(i) => ItemLoaded(i)'
    BY <1>1, <1>3, <1>10, NothingCopied DEF LoadInv
  <2>4. \A e : FileLoaded(e) => FileLoaded(e)'
    BY <1>1, <1>10, NothingCopied
  <2>5. \A e, a : BeforeLoaded(e, a) => BeforeLoaded(e, a)'
    BY <1>1, <1>10, NothingCopied
  <2> QED
    BY <1>3, <2>1, <2>2, <2>3, <2>4, <2>5 DEF LoadInv
<1>11. ASSUME Readable(item, plan), mem' = Copied(item, <<plan>>)
       PROVE  /\ \A i : Finished(i) => ItemLoaded(i)'
              /\ \A e : FileLoaded(e) => FileLoaded(e)'
              /\ \A e, a : BeforeLoaded(e, a) => BeforeLoaded(e, a)'
              /\ PlanLoaded(plan)'
  <2> DEFINE todo == <<plan>>
  <2>1. todo \in Seq(LoadPlans(item)) /\ DOMAIN todo = {1} /\ todo[1] = plan
    BY <1>6
  <2>2. /\ \A p \in PathsIn(item) \ Lost : \A x \in CellsOf(p) :
             mem'[K.buf[p]][x] = IF \E n \in DOMAIN todo : Reaches(todo[n], p, x)
                                 THEN SavedValue(p, x, Lost) ELSE mem[K.buf[p]][x]
        /\ \A p \in PathSet \ PathsIn(item) : \A x \in CellsOf(p) :
             mem'[K.buf[p]][x] = mem[K.buf[p]][x]
    <3>1. \A n \in DOMAIN todo :
            /\ \E m \in DOMAIN files[f].plans : todo[n] = files[f].plans[m]
            /\ Readable(item, todo[n])
      BY <1>5, <1>11, <2>1
    <3>2. mem' = Copied(item, todo)
      BY <1>11
    <3> HIDE DEF todo
    <3> QED
      BY <1>4, <1>5, <2>1, <3>1, <3>2, CopyRight
  <2>3. \A p \in PathsIn(item) \ Lost : \A x \in CellsOf(p) :
          mem'[K.buf[p]][x] = IF Reaches(plan, p, x)
                              THEN SavedValue(p, x, Lost) ELSE mem[K.buf[p]][x]
    BY <2>1, <2>2
  <2>4. PlanLoaded(plan)'
    BY <1>1, <1>8, <2>3, JobStays DEF PlanLoaded, CellLoaded
  <2>5. ASSUME NEW i \in ItemSet, i # item, ItemLoaded(i) PROVE ItemLoaded(i)'
    <3>1. \A p \in PathsIn(i) : p \in PathSet \ PathsIn(item)
      BY <2>5 DEF PathsIn
    <3> QED
      BY <1>1, <2>2, <2>5, <3>1, ItemStays
  <2>6. \A i : Finished(i) => ItemLoaded(i)'
    BY <1>3, <1>4, <2>5 DEF LoadInv, Finished, Begun
  <2>7. \A p \in PathsIn(item) \ Lost : \A x \in CellsOf(p) :
          CellLoaded(p, x) => mem'[K.buf[p]][x] = SavedValue(p, x, Lost)
    BY <2>3 DEF CellLoaded
  <2> QED
    BY <1>1, <2>4, <2>6, <2>7, CellsStay
<1>12. ASSUME PlanLoaded(plan)', \A e, a : BeforeLoaded(e, a) => BeforeLoaded(e, a)'
       PROVE  BeforeLoaded(f, at + 1)'
  <2>1. BeforeLoaded(f, at)'
    BY <1>1, <1>3, <1>5, <1>12 DEF LoadInv
  <2>2. \A n \in DOMAIN files[f].plans : n < at + 1 => n < at \/ n = at
    BY <1>5, <1>6
  <2> QED
    BY <1>1, <1>5, <1>12, <2>1, <2>2 DEF BeforeLoaded
<1>13. CASE Readable(item, plan) /\ mem' = Copied(item, <<plan>>)
            /\ busy' = [busy EXCEPT ![w].at = @ + 1] /\ result' = result
  <2>1. busy'[w] = [busy[w] EXCEPT !.at = @ + 1]
    BY <1>13 DEF TypeInv, IInv, ShapeInv
  <2>2. busy'[w].file = f /\ busy'[w].at = at + 1
    BY <1>5, <2>1
  <2>3. \A v \in Workers \ {w} : busy'[v] = busy[v]
    BY <1>13 DEF TypeInv, IInv, ShapeInv
  <2>4. ASSUME NEW v \in Workers, busy'[v] # Idle
        PROVE  BeforeLoaded(busy[v].file, busy[v].at)'
    <3>1. CASE v = w
      BY <1>11, <1>12, <1>13, <2>2, <3>1
    <3>2. CASE v # w
      BY <1>3, <1>11, <1>13, <2>3, <2>4, <3>2 DEF LoadInv
    <3> QED
      BY <3>1, <3>2
  <2>5. \A e \in DOMAIN files : result'[e] = "read" => FileLoaded(e)'
    BY <1>3, <1>11, <1>13 DEF LoadInv
  <2> QED
    BY <1>11, <1>13, <2>4, <2>5
<1>14. CASE Readable(item, plan) /\ mem' = Copied(item, <<plan>>)
            /\ ~(at < Len(files[f].plans)) /\ Close(w, "read")
  <2>1. \A v \in Workers : busy'[v] = Idle \/ busy'[v] = busy[v]
    BY <1>14 DEF Close, TypeInv, IInv, ShapeInv
  <2>2. \A e \in DOMAIN files : e = f \/ result'[e] = result[e]
    BY <1>5, <1>14 DEF Close, TypeInv, TypeOK
  <2>3. FileLoaded(f)'
    <3>1. \A n \in DOMAIN files[f].plans : n < at + 1
      BY <1>5, <1>6, <1>14
    <3>2. BeforeLoaded(f, at + 1)'
      BY <1>11, <1>12, <1>14
    <3> QED
      BY <1>1, <3>1, <3>2 DEF FileLoaded, BeforeLoaded
  <2>4. \A e \in DOMAIN files : result'[e] = "read" => FileLoaded(e)'
    BY <1>3, <1>11, <1>14, <2>2, <2>3 DEF LoadInv
  <2>5. \A v \in Workers : busy'[v] # Idle => BeforeLoaded(busy[v].file, busy[v].at)'
    BY <1>3, <1>11, <1>14, <2>1 DEF LoadInv
  <2> QED
    BY <1>11, <1>14, <2>4, <2>5
<1> QED
  BY <1>7, <1>10, <1>13, <1>14

LEMMA NextLoads == ASSUME TypeInv, LoadInv, [Next]_vars PROVE LoadInv'
<1>1. CASE Main
  BY <1>1, MainLoads
<1>2. ASSUME NEW w \in Workers, Worker(w) PROVE LoadInv'
  BY <1>2, OpenFileLoads, ReadSliceLoads DEF Worker
<1>3. CASE UNCHANGED vars
  <2>1. UNCHANGED <<job, pc, direct, reshard, item, missing, mem, files, result, limit, busy, full>>
    BY <1>3 DEF vars
  <2>2. Begun' = Begun /\ InPool' = InPool
    BY <2>1 DEF Begun, InPool
  <2> QED
    BY <2>1, <2>2, NothingCopied DEF LoadInv, Finished
<1> QED
  BY <1>1, <1>2, <1>3 DEF Next, Workers

(* For every configuration whose plans are right and every number of       *)
(* threads, whichever reads fail or are not supported: when the load       *)
(* returns, every cell of every tensor that is not reported missing has    *)
(* the value saved for it, if the user keeps the promise made by not       *)
(* resharding.                                                             *)
THEOREM LoadBringsSaved == Spec /\ PlansRight => []LoadedIsSaved
<1>1. Init /\ PlansRight => TypeInv /\ LoadInv
  BY InitTypes DEF Init, LoadInv
<1>2. TypeInv /\ LoadInv /\ [Next]_vars => TypeInv' /\ LoadInv'
  BY NextTypes, NextLoads
<1>3. ASSUME TypeInv, LoadInv PROVE LoadedIsSaved
  <2>1. SUFFICES ASSUME pc = "done" PROVE LoadedIsSaved
    BY DEF LoadedIsSaved
  <2>2. direct = {} /\ reshard = {}
    BY <1>3, <2>1 DEF LoadInv
  <2>3. Begun = ItemSet /\ ~InPool
    BY <2>1, <2>2 DEF Begun, InPool
  <2>4. missing = Lost
    BY <1>3, <2>1, <2>3 DEF LoadInv, Lost
  <2>5. ASSUME NEW p \in PathSet \ missing, Promised(ItemOf[p]), NEW x \in CellsOf(p)
        PROVE  mem[K.buf[p]][x] = SavedValue(p, x, missing)
    <3>1. ItemOf[p] \in ItemSet /\ p \in PathsIn(ItemOf[p])
      BY LoadAssumption DEF PathsIn
    <3>2. ItemLoaded(ItemOf[p])
      BY <1>3, <2>1, <2>3, <3>1 DEF LoadInv, Finished
    <3> QED
      BY <2>4, <2>5, <3>1, <3>2 DEF ItemLoaded, CellLoaded
  <2> QED
    BY <2>5 DEF LoadedIsSaved
<1> QED
  BY <1>1, <1>2, <1>3, PTL DEF Spec
=============================================================================
