------------------------- MODULE ConsolidationProofs -------------------------
(***************************************************************************)
(* Theorems about Consolidation, for any number of ranks, tensors, files   *)
(* and reader threads and every budget: what can be seen in the output     *)
(* directory is whole, and what a rank has read ahead is within its budget.*)
(*                                                                         *)
(* They take the plan as it is: that it hands out every file and every     *)
(* tensor (PlanSound) and that tensors are assembled right are facts about *)
(* pure functions, which the runs check.  What is proved is that threads   *)
(* that run ahead, failures at every step, barriers and their time-outs    *)
(* make nothing else of it.                                                *)
(*                                                                         *)
(* The budget needs the sum of a sequence of reads (Total).  What is known *)
(* of sums is proved by the smallest number at which it would be wrong     *)
(* (AllNaturals): a read is added at the end, taken from the front, or     *)
(* costs less once it is cancelled.                                        *)
(***************************************************************************)
EXTENDS Consolidation, SequenceTheorems, WellFoundedInduction, TLAPS

(* What the theorem assumes of a configuration: the plan, and that no      *)
(* tensor and no file is the same as none.                                 *)
PlanRight ==
  /\ PlanSound
  /\ None \notin Names
  /\ plan.members # {} =>
       /\ \A p \in Names : plan.tensor[p] = plan.saved[p]
       /\ \A i \in DOMAIN plan.fqns : CompleteFile(i) # None

OnRanks(f) == DOMAIN f = Ranks /\ f = [r \in Ranks |-> f[r]]

ShapeInv ==
  /\ OnRanks(pc) /\ OnRanks(todo) /\ OnRanks(next) /\ OnRanks(pending)
  /\ OnRanks(writing) /\ OnRanks(tmp)
  /\ DOMAIN arrived = Barriers /\ arrived = [b \in Barriers |-> arrived[b]]
  /\ out = [i \in DOMAIN out |-> out[i]]
  /\ plan.members # {} => DOMAIN out = DOMAIN plan.fqns
  /\ plan.members = {} => DOMAIN out = {}

(* No output file is open. *)
Idle(r) == next[r] = 0 /\ pending[r] = <<>> /\ writing[r] = None

(* All files of a rank are in place, ... *)
Done(r) == \A i \in ToSet(plan.files[r]) : out[i] # None

(* ... or those that are not are still to come. *)
Assigned(r) ==
  /\ todo[r] \in Seq(DOMAIN plan.fqns)
  /\ \A i \in ToSet(plan.files[r]) : out[i] # None \/ i \in ToSet(todo[r])

(* The reads under way are those of the tensors q[m] and on, up to place n.*)
ReadFrom(reads, q, m, n) ==
  /\ reads \in Seq([fqn : Names, state : Reading])
  /\ n = m + Len(reads) /\ n <= Len(q) + 1
  /\ \A k \in 1 .. Len(reads) : reads[k].fqn = q[m + k - 1]

(* The open file has its header and its first n tensors.                   *)
Has(r, n) ==
  tmp[r] = [header |-> Fqns(r), data |-> [k \in 1 .. n |-> plan.saved[Fqns(r)[k]]]]

Open(r) ==
  /\ todo[r] # <<>>
  /\ \E n \in Nat :
       /\ Has(r, n)
       /\ \/ /\ writing[r] = None
             /\ ReadFrom(pending[r], Fqns(r), n + 1, next[r])
          \/ /\ writing[r] # None /\ writing[r] = Fqns(r)[n + 1]
             /\ ReadFrom(pending[r], Fqns(r), n + 2, next[r])

RankInv(r) ==
  /\ pc[r] \notin Terminal \union {"start"} => r \in plan.members
  /\ pc[r] \in {"start", "join", "headers", "dir"} => Idle(r)
  /\ pc[r] \in {"dir", "write"} => Assigned(r)
  /\ pc[r] = "write" => Idle(r) \/ Open(r)
  /\ pc[r] \in {"files", "publish", "index"} => Done(r)

AllOut == \A i \in DOMAIN plan.fqns : out[i] # None

(* Who has met whom. *)
MeetingInv ==
  /\ \A r \in arrived["files"] : r \in plan.members /\ Done(r)
  /\ \A r \in Ranks : pc[r] = "publish" => AllOut
  /\ index # None => plan.members # {} /\ index = plan.file /\ AllOut

WholeInv == \A i \in DOMAIN out : out[i] # None => out[i] = CompleteFile(i)

IInv ==
  /\ PlanRight /\ ShapeInv /\ MeetingInv /\ WholeInv
  /\ \A r \in Ranks : RankInv(r)
-----------------------------------------------------------------------------
LEMMA InitWhole == Init /\ PlanRight => IInv
<1>1. SUFFICES ASSUME Init, PlanRight PROVE IInv
  OBVIOUS
<1>2. ShapeInv
  BY <1>1 DEF Init, ShapeInv, OnRanks, Barriers
<1>3. \A r \in Ranks : pc[r] = "start" /\ Idle(r)
  BY <1>1 DEF Init, Idle
<1>4. \A r \in Ranks : RankInv(r)
  BY <1>3 DEF RankInv
<1>5. arrived["files"] = {} /\ index = None /\ \A i \in DOMAIN out : out[i] = None
  BY <1>1 DEF Init, Barriers
<1>6. MeetingInv /\ WholeInv
  BY <1>3, <1>5 DEF MeetingInv, WholeInv
<1> QED
  BY <1>1, <1>2, <1>4, <1>6 DEF IInv

(* A step of one rank leaves the others alone, and takes no file away.     *)
OutStays == DOMAIN out' = DOMAIN out /\ \A i \in DOMAIN out : out[i] # None => out'[i] # None

OnlyOf(r) ==
  /\ UNCHANGED <<K, plan>> /\ OutStays
  /\ \A q \in Ranks \ {r} :
       /\ pc'[q] = pc[q] /\ todo'[q] = todo[q] /\ next'[q] = next[q]
       /\ pending'[q] = pending[q] /\ writing'[q] = writing[q] /\ tmp'[q] = tmp[q]

LEMMA OthersKeep ==
  ASSUME IInv, NEW r \in Ranks, OnlyOf(r), NEW q \in Ranks \ {r}
  PROVE  RankInv(q)'
<1>1. RankInv(q) /\ PlanSound
  BY DEF IInv, PlanRight
<1>2. /\ K' = K /\ plan' = plan /\ pc'[q] = pc[q] /\ todo'[q] = todo[q] /\ next'[q] = next[q]
      /\ pending'[q] = pending[q] /\ writing'[q] = writing[q] /\ tmp'[q] = tmp[q]
  BY DEF OnlyOf
<1>3. Idle(q) => Idle(q)'
  BY <1>2 DEF Idle
<1>4. Open(q) => Open(q)'
  <2>1. Names' = Names /\ Fqns(q)' = Fqns(q)
    BY <1>2 DEF Names, Fqns
  <2>2. \A n : Has(q, n)' = Has(q, n)
    BY <1>2, <2>1 DEF Has
  <2>3. \A reads, f, m, n : ReadFrom(reads, f, m, n)' = ReadFrom(reads, f, m, n)
    BY <2>1 DEF ReadFrom
  <2> QED
    BY <1>2, <2>1, <2>2, <2>3 DEF Open
<1>5. q \in plan.members => \A i \in ToSet(plan.files[q]) : i \in DOMAIN out
  BY <1>1 DEF PlanSound, IInv, ShapeInv, ToSet
<1>6. q \in plan.members => (Done(q) => Done(q)') /\ (Assigned(q) => Assigned(q)')
  BY <1>2, <1>5 DEF OnlyOf, OutStays, Done, Assigned
<1> QED
  BY <1>1, <1>2, <1>3, <1>4, <1>6 DEF RankInv, Terminal

LEMMA StepKeeps ==
  ASSUME IInv, NEW r \in Ranks, OnlyOf(r), ShapeInv', RankInv(r)', MeetingInv', WholeInv'
  PROVE  IInv'
<1>1. K' = K /\ plan' = plan
  BY DEF OnlyOf
<1>2. PlanRight'
  <2>1. Names' = Names /\ Ranks' = Ranks /\ PlanSound' = PlanSound
    BY <1>1 DEF Names, Ranks, PlanSound
  <2>2. \A i : CompleteFile(i)' = CompleteFile(i)
    BY <1>1 DEF CompleteFile
  <2> QED
    BY <1>1, <2>1, <2>2 DEF IInv, PlanRight
<1>3. \A q \in Ranks : RankInv(q)'
  BY OthersKeep
<1> QED
  BY <1>1, <1>2, <1>3 DEF IInv, Ranks

(* A step that publishes nothing and goes past no barrier of the files.    *)
LEMMA QuietKeeps ==
  ASSUME IInv, NEW r \in Ranks, OnlyOf(r), ShapeInv', RankInv(r)',
         UNCHANGED <<out, index>>, arrived'["files"] = arrived["files"],
         pc'[r] = "publish" => AllOut
  PROVE  IInv'
<1>1. K' = K /\ plan' = plan /\ \A q \in Ranks : q # r => pc'[q] = pc[q]
  BY DEF OnlyOf
<1>2. MeetingInv'
  BY <1>1 DEF IInv, MeetingInv, AllOut, Done, Ranks
<1>3. WholeInv'
  BY <1>1 DEF IInv, WholeInv, CompleteFile
<1> QED
  BY <1>2, <1>3, StepKeeps

(* A step that only moves a rank, and may note it at a barrier.            *)
LEMMA MovesOnly ==
  ASSUME IInv, NEW r \in Ranks, NEW place, Goto(r, place),
         UNCHANGED <<K, plan, pipeline, disk>>,
         \/ UNCHANGED arrived
         \/ \E b \in Barriers : arrived' = [arrived EXCEPT ![b] = @ \union {r}]
  PROVE  OnlyOf(r) /\ ShapeInv' /\ pc'[r] = place
<1>1. pc' = [pc EXCEPT ![r] = place]
  BY DEF Goto
<1>2. ShapeInv
  BY DEF IInv
<1>3. pc'[r] = place /\ \A q \in Ranks \ {r} : pc'[q] = pc[q]
  BY <1>1, <1>2 DEF ShapeInv, OnRanks
<1>4. OnlyOf(r)
  BY <1>3 DEF OnlyOf, OutStays, pipeline, disk
<1>5. OnRanks(pc)'
  BY <1>1, <1>2 DEF ShapeInv, OnRanks, Ranks
<1>6. DOMAIN arrived' = Barriers /\ arrived' = [b \in Barriers |-> arrived'[b]]
  BY <1>2 DEF ShapeInv
<1>7. ShapeInv'
  BY <1>2, <1>5, <1>6 DEF ShapeInv, OnRanks, Ranks, pipeline, disk
<1> QED
  BY <1>3, <1>4, <1>7
-----------------------------------------------------------------------------
(* A rank that stops where it is, with or without an error.                *)
LEMMA StopKeeps ==
  ASSUME IInv, NEW r \in Ranks, NEW place \in Terminal \union {"unwind"}, Goto(r, place),
         place = "unwind" => r \in plan.members,
         UNCHANGED <<K, plan, arrived, pipeline, disk>>
  PROVE  IInv'
<1>1. OnlyOf(r) /\ ShapeInv' /\ pc'[r] = place /\ plan' = plan
  BY MovesOnly
<1>2. RankInv(r)'
  BY <1>1 DEF RankInv, Terminal
<1>3. UNCHANGED <<out, index, arrived>>
  BY DEF disk
<1> QED
  BY <1>1, <1>2, <1>3, QuietKeeps DEF Terminal

LEMMA EnterMoves ==
  ASSUME NEW r, NEW b \in Barriers, Enter(r, b)
  PROVE  \/ Goto(r, b) /\ plan.shared /\ arrived' = [arrived EXCEPT ![b] = @ \union {r}]
         \/ Goto(r, After[b]) /\ ~plan.shared /\ UNCHANGED arrived
  BY DEF Enter

LEMMA StartKeeps == ASSUME IInv, NEW r \in Ranks, Start(r) PROVE IInv'
<1>1. UNCHANGED <<K, plan, pipeline, disk>> /\ pc[r] = "start"
  BY DEF Start
<1>2. CASE Goto(r, "raised") /\ UNCHANGED arrived
  BY <1>1, <1>2, StopKeeps DEF Terminal
<1>3. CASE Goto(r, "returned") /\ UNCHANGED arrived
  BY <1>1, <1>3, StopKeeps DEF Terminal
<1>4. ASSUME NEW place \in {"join", "headers"}, Goto(r, place), r \in plan.members,
             UNCHANGED arrived \/ arrived' = [arrived EXCEPT !["join"] = @ \union {r}]
      PROVE  IInv'
  <2>1. OnlyOf(r) /\ ShapeInv' /\ pc'[r] = place
    BY <1>1, <1>4, MovesOnly DEF Barriers
  <2>2. Idle(r)'
    BY <1>1 DEF IInv, RankInv, Idle, pipeline
  <2>3. RankInv(r)'
    BY <1>1, <1>4, <2>1, <2>2 DEF RankInv, Terminal
  <2>4. arrived'["files"] = arrived["files"]
    BY <1>4 DEF IInv, ShapeInv, Barriers
  <2> QED
    BY <1>1, <1>4, <2>1, <2>3, <2>4, QuietKeeps DEF disk
<1>5. CASE r \in plan.members /\ Enter(r, "join")
  BY <1>4, <1>5, EnterMoves DEF After, Barriers
<1>6. CASE r \in plan.members /\ Goto(r, "headers") /\ UNCHANGED arrived
  BY <1>4, <1>6
<1> QED
  BY <1>2, <1>3, <1>5, <1>6 DEF Start

LEMMA PrepareKeeps == ASSUME IInv, NEW r \in Ranks, Prepare(r) PROVE IInv'
<1>1. /\ pc[r] = "headers" /\ r \in plan.members /\ Idle(r)
      /\ UNCHANGED <<K, plan, next, pending, writing, avail, tmp, out, index>>
  BY DEF Prepare, IInv, RankInv, Terminal
<1>2. CASE Goto(r, "raised") /\ UNCHANGED <<arrived, made, todo>>
  BY <1>1, <1>2, StopKeeps DEF Terminal, pipeline, disk
<1>3. CASE Enter(r, "dir") /\ todo' = [todo EXCEPT ![r] = plan.files[r]]
  <2>1. PICK place \in {"dir", "write"} :
          /\ pc' = [pc EXCEPT ![r] = place]
          /\ UNCHANGED arrived \/ arrived' = [arrived EXCEPT !["dir"] = @ \union {r}]
    BY <1>3, EnterMoves DEF After, Barriers, Goto
  <2>2. ShapeInv
    BY DEF IInv
  <2>3. /\ pc'[r] = place /\ todo'[r] = plan.files[r]
        /\ \A q \in Ranks \ {r} : pc'[q] = pc[q] /\ todo'[q] = todo[q]
    BY <1>3, <2>1, <2>2 DEF ShapeInv, OnRanks
  <2>4. OnlyOf(r)
    BY <1>1, <2>3 DEF OnlyOf, OutStays
  <2>5. OnRanks(pc)' /\ OnRanks(todo)'
    BY <1>1, <1>3, <2>1, <2>2 DEF ShapeInv, OnRanks, Ranks
  <2>6. DOMAIN arrived' = Barriers /\ arrived' = [b \in Barriers |-> arrived'[b]]
        /\ arrived'["files"] = arrived["files"]
    BY <2>1, <2>2 DEF ShapeInv, Barriers
  <2>7. ShapeInv'
    BY <1>1, <2>2, <2>5, <2>6 DEF ShapeInv, OnRanks, Ranks
  <2>8. plan.files[r] \in Seq(DOMAIN plan.fqns)
    BY <1>1 DEF IInv, PlanRight, PlanSound
  <2>9. Assigned(r)' /\ Idle(r)'
    BY <1>1, <2>3, <2>8 DEF Assigned, Idle
  <2>10. RankInv(r)'
    BY <1>1, <2>3, <2>9 DEF RankInv, Terminal
  <2> QED
    BY <1>1, <2>3, <2>4, <2>6, <2>7, <2>10, QuietKeeps
<1> QED
  BY <1>2, <1>3 DEF Prepare

(* Whoever leaves the barrier of the files knows that they are there.      *)
LEMMA AllAreDone ==
  ASSUME IInv, NEW r \in plan.members, plan.members \subseteq arrived["files"]
  PROVE  AllOut
<1>1. PlanSound /\ \A q \in plan.members : Done(q)
  BY DEF IInv, PlanRight, MeetingInv
<1> QED
  BY <1>1 DEF PlanSound, AllOut, Done

LEMMA PassKeeps == ASSUME IInv, NEW r \in Ranks, Pass(r) PROVE IInv'
<1>1. /\ pc[r] \in Barriers /\ plan.members \subseteq arrived[pc[r]] /\ Goto(r, After[pc[r]])
      /\ UNCHANGED <<K, plan, arrived, pipeline, disk>>
  BY DEF Pass
<1>2. OnlyOf(r) /\ ShapeInv' /\ pc'[r] = After[pc[r]]
  BY <1>1, MovesOnly
<1>3. RankInv(r) /\ r \in plan.members
  BY <1>1 DEF IInv, RankInv, Barriers, Terminal
<1>4. (Idle(r) => Idle(r)') /\ (Assigned(r) => Assigned(r)') /\ (Done(r) => Done(r)')
  BY <1>1 DEF Idle, Assigned, Done, pipeline, disk
<1>5. RankInv(r)'
  BY <1>1, <1>2, <1>3, <1>4 DEF RankInv, After, Barriers, Terminal
<1>6. pc'[r] = "publish" => AllOut
  BY <1>1, <1>2, <1>3, AllAreDone DEF After, Barriers
<1> QED
  BY <1>1, <1>2, <1>5, <1>6, QuietKeeps DEF disk

(* A rank whose files are all there; alone, it has them all.               *)
LEMMA AllWrittenKeeps == ASSUME IInv, NEW r \in Ranks, AllWritten(r) PROVE IInv'
<1>1. /\ pc[r] = "write" /\ todo[r] = <<>> /\ Enter(r, "files")
      /\ UNCHANGED <<K, plan, pipeline, disk>>
  BY DEF AllWritten
<1>2. PICK place \in {"files", "publish"} :
        /\ Goto(r, place)
        /\ \/ place = "files" /\ arrived' = [arrived EXCEPT !["files"] = @ \union {r}]
           \/ place = "publish" /\ ~plan.shared /\ UNCHANGED arrived
  BY <1>1, EnterMoves DEF After, Barriers
<1>3. OnlyOf(r) /\ ShapeInv' /\ pc'[r] = place
  BY <1>1, <1>2, MovesOnly DEF Barriers
<1>4. r \in plan.members /\ Done(r)
  BY <1>1 DEF IInv, RankInv, Terminal, Assigned, Done, ToSet
<1>5. RankInv(r)'
  BY <1>1, <1>3, <1>4 DEF RankInv, Done, Terminal, disk
<1>6. place = "publish" => AllOut
  BY <1>2, <1>4 DEF IInv, PlanRight, PlanSound, Done, AllOut
<1>7. \A q \in arrived'["files"] : q \in arrived["files"] \/ q = r
  BY <1>2 DEF IInv, ShapeInv, Barriers
<1>8. MeetingInv'
  BY <1>1, <1>3, <1>4, <1>6, <1>7 DEF IInv, MeetingInv, OnlyOf, Done, AllOut, Ranks, disk
<1>9. WholeInv'
  BY <1>1 DEF IInv, WholeInv, CompleteFile, disk
<1> QED
  BY <1>3, <1>5, <1>8, <1>9, StepKeeps

LEMMA PublishKeeps == ASSUME IInv, NEW r \in Ranks, Publish(r) PROVE IInv'
<1>1. /\ pc[r] = "publish" /\ Enter(r, "index")
      /\ index' = (IF r = 0 THEN plan.file ELSE index)
      /\ UNCHANGED <<K, plan, pipeline, made, tmp, out>>
  BY DEF Publish
<1>2. PICK place \in {"index", "returned"} :
        /\ pc' = [pc EXCEPT ![r] = place]
        /\ UNCHANGED arrived \/ arrived' = [arrived EXCEPT !["index"] = @ \union {r}]
  BY <1>1, EnterMoves DEF After, Barriers, Goto
<1>3. r \in plan.members /\ Done(r) /\ AllOut /\ ShapeInv
  BY <1>1 DEF IInv, RankInv, MeetingInv, Terminal
<1>4. pc'[r] = place /\ \A q \in Ranks \ {r} : pc'[q] = pc[q]
  BY <1>2, <1>3 DEF ShapeInv, OnRanks
<1>5. OnlyOf(r)
  BY <1>1, <1>4 DEF OnlyOf, OutStays, pipeline
<1>6. OnRanks(pc)'
  BY <1>1, <1>2, <1>3 DEF ShapeInv, OnRanks, Ranks
<1>7. DOMAIN arrived' = Barriers /\ arrived' = [b \in Barriers |-> arrived'[b]]
      /\ arrived'["files"] = arrived["files"]
  BY <1>2, <1>3 DEF ShapeInv, Barriers
<1>8. ShapeInv'
  BY <1>1, <1>3, <1>6, <1>7 DEF ShapeInv, OnRanks, Ranks, pipeline
<1>9. RankInv(r)'
  BY <1>1, <1>3, <1>4 DEF RankInv, Done, Terminal
<1>10. MeetingInv'
  BY <1>1, <1>3, <1>4, <1>7 DEF IInv, MeetingInv, Done, AllOut, Ranks
<1>11. WholeInv'
  BY <1>1 DEF IInv, WholeInv, CompleteFile
<1> QED
  BY <1>5, <1>8, <1>9, <1>10, <1>11, StepKeeps
-----------------------------------------------------------------------------
(* The steps of a rank at its files change what is its own.                *)
ChangesAt(r, f, g) == g = f \/ \E v : g = [f EXCEPT ![r] = v]

LEMMA ChangeAt ==
  ASSUME NEW r \in Ranks, NEW f, NEW g, OnRanks(f), ChangesAt(r, f, g)
  PROVE  OnRanks(g) /\ \A q \in Ranks \ {r} : g[q] = f[q]
  BY DEF OnRanks, ChangesAt

LEMMA WorkChanges ==
  ASSUME IInv, NEW r \in Ranks, UNCHANGED <<K, plan, arrived>>, OutStays,
         out' = [i \in DOMAIN out |-> out'[i]],
         ChangesAt(r, pc, pc'), ChangesAt(r, todo, todo'), ChangesAt(r, next, next'),
         ChangesAt(r, pending, pending'), ChangesAt(r, writing, writing'), ChangesAt(r, tmp, tmp')
  PROVE  OnlyOf(r) /\ ShapeInv'
<1>1. ShapeInv /\ Ranks' = Ranks
  BY DEF IInv, Ranks
<1>2. OnRanks(pc') /\ \A q \in Ranks \ {r} : pc'[q] = pc[q]
  BY <1>1, ChangeAt DEF ShapeInv
<1>3. OnRanks(todo') /\ \A q \in Ranks \ {r} : todo'[q] = todo[q]
  BY <1>1, ChangeAt DEF ShapeInv
<1>4. OnRanks(next') /\ \A q \in Ranks \ {r} : next'[q] = next[q]
  BY <1>1, ChangeAt DEF ShapeInv
<1>5. OnRanks(pending') /\ \A q \in Ranks \ {r} : pending'[q] = pending[q]
  BY <1>1, ChangeAt DEF ShapeInv
<1>6. OnRanks(writing') /\ \A q \in Ranks \ {r} : writing'[q] = writing[q]
  BY <1>1, ChangeAt DEF ShapeInv
<1>7. OnRanks(tmp') /\ \A q \in Ranks \ {r} : tmp'[q] = tmp[q]
  BY <1>1, ChangeAt DEF ShapeInv
<1>8. OnlyOf(r)
  BY <1>2, <1>3, <1>4, <1>5, <1>6, <1>7 DEF OnlyOf
<1>9. ShapeInv'
  BY <1>1, <1>2, <1>3, <1>4, <1>5, <1>6, <1>7 DEF ShapeInv, OnRanks, OutStays
<1> QED
  BY <1>8, <1>9

(* One that leaves the files in place alone keeps the invariant when it    *)
(* keeps the rank's part of it.                                            *)
LEMMA WorkKeeps ==
  ASSUME IInv, NEW r \in Ranks, UNCHANGED <<K, plan, arrived, out, index>>,
         ChangesAt(r, pc, pc'), ChangesAt(r, todo, todo'), ChangesAt(r, next, next'),
         ChangesAt(r, pending, pending'), ChangesAt(r, writing, writing'), ChangesAt(r, tmp, tmp'),
         RankInv(r)', pc'[r] # "publish"
  PROVE  IInv'
<1>1. OnlyOf(r) /\ ShapeInv'
  BY WorkChanges DEF IInv, ShapeInv, OutStays
<1> QED
  BY <1>1, QuietKeeps

LEMMA CrashKeeps == ASSUME IInv, NEW r \in Ranks, Crash(r) PROVE IInv'
<1>1. /\ pc' = [pc EXCEPT ![r] = "crashed"] /\ pending' = [pending EXCEPT ![r] = <<>>]
      /\ UNCHANGED <<K, plan, arrived, todo, next, writing, avail, made, tmp, out, index>>
  BY DEF Crash, Goto, disk
<1>2. pc'[r] = "crashed"
  BY <1>1 DEF IInv, ShapeInv, OnRanks
<1>3. RankInv(r)'
  BY <1>2 DEF RankInv, Terminal
<1> QED
  BY <1>1, <1>2, <1>3, WorkKeeps DEF ChangesAt

(* What is known of a rank that is writing.                                *)
LEMMA AtWork ==
  ASSUME IInv, NEW r \in Ranks, pc[r] = "write"
  PROVE  /\ r \in plan.members /\ Assigned(r) /\ (Idle(r) \/ Open(r))
         /\ todo[r] # <<>> =>
              /\ Head(todo[r]) \in DOMAIN plan.fqns /\ Fqns(r) \in Seq(Names)
              /\ Len(Fqns(r)) \in Nat
<1>1. r \in plan.members /\ Assigned(r) /\ (Idle(r) \/ Open(r))
  BY DEF IInv, RankInv, Terminal
<1>2. ASSUME todo[r] # <<>> PROVE Head(todo[r]) \in DOMAIN plan.fqns
  BY <1>1, <1>2 DEF Assigned
<1>3. \A i \in DOMAIN plan.fqns : plan.fqns[i] \in Seq(Names)
  BY <1>1 DEF IInv, PlanRight, PlanSound
<1> QED
  BY <1>1, <1>2, <1>3 DEF Fqns

(* Reads are begun in the order of the file ...                            *)
LEMMA ReadsEmpty ==
  ASSUME NEW q, Len(q) \in Nat
  PROVE  ReadFrom(<<>>, q, 1, 1)
  BY DEF ReadFrom

LEMMA ReadsPositive ==
  ASSUME NEW reads, NEW q, NEW m \in Nat \ {0}, NEW n, ReadFrom(reads, q, m, n)
  PROVE  n \in Nat \ {0} /\ m <= n
  BY DEF ReadFrom

LEMMA ReadsAppend ==
  ASSUME NEW reads, NEW q \in Seq(Names), NEW m \in Nat \ {0}, NEW n,
         ReadFrom(reads, q, m, n), n <= Len(q)
  PROVE  ReadFrom(Append(reads, [fqn |-> q[n], state |-> "queued"]), q, m, n + 1)
<1>1. /\ reads \in Seq([fqn : Names, state : Reading]) /\ Len(reads) \in Nat
      /\ n = m + Len(reads) /\ n <= Len(q) + 1 /\ n \in 1 .. Len(q)
      /\ \A k \in 1 .. Len(reads) : reads[k].fqn = q[m + k - 1]
  BY DEF ReadFrom
<1>2. [fqn |-> q[n], state |-> "queued"] \in [fqn : Names, state : Reading]
  BY <1>1 DEF Reading
<1> DEFINE more == Append(reads, [fqn |-> q[n], state |-> "queued"])
<1>3. more \in Seq([fqn : Names, state : Reading]) /\ Len(more) = Len(reads) + 1
  BY <1>1, <1>2
<1>4. \A k \in 1 .. Len(more) : more[k].fqn = q[m + k - 1]
  <2>1. \A k \in 1 .. Len(reads) : more[k] = reads[k]
    BY <1>1, <1>2
  <2>2. more[Len(reads) + 1].fqn = q[n]
    BY <1>1, <1>2
  <2>3. m + (Len(reads) + 1) - 1 = n
    BY <1>1
  <2>4. ASSUME NEW k \in 1 .. Len(reads) PROVE more[k].fqn = q[m + k - 1]
    BY <1>1, <2>1, <2>4
  <2>5. more[Len(reads) + 1].fqn = q[m + (Len(reads) + 1) - 1]
    BY <2>2, <2>3
  <2> HIDE DEF more
  <2>6. \A k \in 1 .. Len(more) : k \in 1 .. Len(reads) \/ k = Len(reads) + 1
    BY <1>1, <1>3
  <2> QED
    BY <2>4, <2>5, <2>6
<1> HIDE DEF more
<1>5. n + 1 = m + Len(more) /\ n + 1 <= Len(q) + 1
  BY <1>1, <1>3
<1> QED
  BY <1>3, <1>4, <1>5 DEF ReadFrom, more

(* ... and taken in that order.                                            *)
LEMMA ReadsTail ==
  ASSUME NEW reads, NEW q, NEW m \in Nat \ {0}, NEW n, ReadFrom(reads, q, m, n), reads # <<>>
  PROVE  /\ Head(reads).fqn = q[m] /\ Head(reads).fqn \in Names
         /\ ReadFrom(Tail(reads), q, m + 1, n)
<1>1. /\ reads \in Seq([fqn : Names, state : Reading]) /\ Len(reads) \in Nat \ {0}
      /\ n = m + Len(reads) /\ n <= Len(q) + 1
      /\ \A k \in 1 .. Len(reads) : reads[k].fqn = q[m + k - 1]
  BY DEF ReadFrom
<1>2. Head(reads) = reads[1] /\ m + 1 - 1 = m /\ 1 \in 1 .. Len(reads)
  BY <1>1
<1>3. Head(reads).fqn = q[m] /\ Head(reads).fqn \in Names
  <2>1. reads[1] \in [fqn : Names, state : Reading]
    BY <1>1, <1>2, ElementOfSeq
  <2>2. reads[1].fqn = q[m + 1 - 1]
    BY <1>1, <1>2
  <2> QED
    BY <1>2, <2>1, <2>2
<1> DEFINE rest == Tail(reads)
<1>4. /\ rest \in Seq([fqn : Names, state : Reading]) /\ Len(rest) = Len(reads) - 1
      /\ \A k \in 1 .. Len(rest) : rest[k] = reads[k + 1]
  BY <1>1
<1> HIDE DEF rest
<1>5. \A k \in 1 .. Len(rest) : k + 1 \in 1 .. Len(reads) /\ (m + 1) + k - 1 = m + (k + 1) - 1
  BY <1>1, <1>4
<1>6. \A k \in 1 .. Len(rest) : rest[k].fqn = q[(m + 1) + k - 1]
  BY <1>1, <1>4, <1>5
<1>7. n = (m + 1) + Len(rest)
  BY <1>1, <1>4
<1> QED
  BY <1>1, <1>3, <1>4, <1>6, <1>7 DEF ReadFrom, rest

(* A reader thread only changes the state of a read.                       *)
LEMMA ReadsState ==
  ASSUME NEW reads, NEW q, NEW m \in Nat \ {0}, NEW n, ReadFrom(reads, q, m, n),
         NEW j \in DOMAIN reads, NEW s \in Reading
  PROVE  ReadFrom([reads EXCEPT ![j].state = s], q, m, n)
<1>1. /\ reads \in Seq([fqn : Names, state : Reading])
      /\ n = m + Len(reads) /\ n <= Len(q) + 1
      /\ \A k \in 1 .. Len(reads) : reads[k].fqn = q[m + k - 1]
  BY DEF ReadFrom
<1> DEFINE after == [reads EXCEPT ![j].state = s]
<1>2. j \in 1 .. Len(reads) /\ reads[j] \in [fqn : Names, state : Reading]
  <2>1. DOMAIN reads = 1 .. Len(reads)
    BY <1>1
  <2> QED
    BY <1>1, <2>1, ElementOfSeq
<1>3. [reads[j] EXCEPT !.state = s] = [fqn |-> reads[j].fqn, state |-> s]
  BY <1>2
<1>4. [fqn |-> reads[j].fqn, state |-> s] \in [fqn : Names, state : Reading]
  BY <1>2
<1>5. /\ after \in Seq([fqn : Names, state : Reading]) /\ Len(after) = Len(reads)
      /\ \A k \in 1 .. Len(reads) :
           after[k] = IF k = j THEN [fqn |-> reads[j].fqn, state |-> s] ELSE reads[k]
  BY <1>1, <1>2, <1>3, <1>4, ExceptSeq
<1>6. \A k \in 1 .. Len(reads) : after[k].fqn = reads[k].fqn
  BY <1>5
<1> HIDE DEF after
<1> QED
  BY <1>1, <1>5, <1>6 DEF ReadFrom, after
-----------------------------------------------------------------------------
(* An open file stays one.                                                 *)
LEMMA OpenKeeps ==
  ASSUME IInv, NEW r \in Ranks, pc[r] = "write", Open(r)',
         UNCHANGED <<K, plan, pc, arrived, todo, out, index>>, ChangesAt(r, next, next'),
         ChangesAt(r, pending, pending'), ChangesAt(r, writing, writing'), ChangesAt(r, tmp, tmp')
  PROVE  IInv'
<1>1. r \in plan.members /\ Assigned(r)
  BY AtWork
<1>2. RankInv(r)'
  BY <1>1 DEF RankInv, Assigned, Terminal
<1> QED
  BY <1>2, WorkKeeps DEF ChangesAt

(* What is known of an open file: its tensors and where the reads are.     *)
LEMMA AtFile ==
  ASSUME IInv, NEW r \in Ranks, Writing(r)
  PROVE  /\ r \in plan.members /\ Assigned(r) /\ todo[r] # <<>>
         /\ Head(todo[r]) \in DOMAIN plan.fqns /\ Fqns(r) \in Seq(Names) /\ Len(Fqns(r)) \in Nat
         /\ \E n \in Nat :
              /\ Has(r, n)
              /\ \/ /\ writing[r] = None
                    /\ ReadFrom(pending[r], Fqns(r), n + 1, next[r])
                 \/ /\ writing[r] # None /\ writing[r] = Fqns(r)[n + 1]
                    /\ ReadFrom(pending[r], Fqns(r), n + 2, next[r])
<1>1. pc[r] = "write" /\ next[r] # 0
  BY DEF Writing
<1>2. Open(r)
  BY <1>1, AtWork DEF Idle
<1> QED
  BY <1>1, <1>2, AtWork DEF Open

LEMMA OpenFileKeeps == ASSUME IInv, NEW r \in Ranks, OpenFile(r) PROVE IInv'
<1>1. /\ pc[r] = "write" /\ todo[r] # <<>> /\ next[r] = 0
      /\ UNCHANGED <<K, plan, arrived, todo, pending, writing, avail, made, out, index>>
  BY DEF OpenFile
<1>2. CASE Goto(r, "raised") /\ UNCHANGED <<tmp, next>>
  BY <1>1, <1>2, StopKeeps DEF Terminal, pipeline, disk
<1>3. CASE /\ tmp' = [tmp EXCEPT ![r] = NewFile(Head(todo[r]))]
           /\ next' = [next EXCEPT ![r] = 1] /\ UNCHANGED pc
  <2>1. tmp'[r] = NewFile(Head(todo[r])) /\ next'[r] = 1
    BY <1>3 DEF IInv, ShapeInv, OnRanks
  <2>2. ~Open(r)
    <3>1. \A n \in Nat : n + 1 \in Nat \ {0} /\ n + 2 \in Nat \ {0}
      OBVIOUS
    <3> QED
      BY <1>1, <3>1, ReadsPositive DEF Open
  <2>3. pending[r] = <<>> /\ writing[r] = None /\ Len(Fqns(r)) \in Nat
    BY <1>1, <2>2, AtWork DEF Idle
  <2>4. Has(r, 0)'
    BY <1>1, <2>1 DEF Has, NewFile, Fqns
  <2>5. ReadFrom(pending[r], Fqns(r), 0 + 1, next[r])'
    BY <1>1, <2>1, <2>3, ReadsEmpty DEF Fqns, ReadFrom, Names
  <2>6. Open(r)'
    BY <1>1, <2>3, <2>4, <2>5 DEF Open
  <2> QED
    BY <1>1, <1>3, <2>6, OpenKeeps DEF ChangesAt
<1> QED
  BY <1>2, <1>3 DEF OpenFile

LEMMA PrefetchKeeps == ASSUME IInv, NEW r \in Ranks, Prefetch(r) PROVE IInv'
<1> DEFINE read == [fqn |-> Fqns(r)[next[r]], state |-> "queued"]
<1>1. /\ Writing(r) /\ writing[r] = None /\ next[r] <= Len(Fqns(r))
      /\ pending' = [pending EXCEPT ![r] = Append(@, read)]
      /\ next' = [next EXCEPT ![r] = @ + 1]
      /\ UNCHANGED <<K, plan, pc, arrived, todo, writing, tmp, out, index>>
  BY DEF Prefetch, CanPrefetch, disk
<1>2. /\ todo[r] # <<>> /\ Fqns(r) \in Seq(Names)
      /\ \E n \in Nat : Has(r, n) /\ ReadFrom(pending[r], Fqns(r), n + 1, next[r])
  BY <1>1, AtFile
<1>3. PICK n \in Nat : Has(r, n) /\ ReadFrom(pending[r], Fqns(r), n + 1, next[r])
  BY <1>2
<1>4. n + 1 \in Nat \ {0}
  OBVIOUS
<1>5. ReadFrom(Append(pending[r], read), Fqns(r), n + 1, next[r] + 1)
  BY <1>1, <1>2, <1>3, <1>4, ReadsAppend
<1>6. pending'[r] = Append(pending[r], read) /\ next'[r] = next[r] + 1
  BY <1>1 DEF IInv, ShapeInv, OnRanks
<1>7. Fqns(r)' = Fqns(r) /\ Has(r, n)'
  BY <1>1, <1>3 DEF Fqns, Has
<1>8. ReadFrom(pending[r], Fqns(r), n + 1, next[r])'
  <2> HIDE DEF read
  <2> QED
    BY <1>1, <1>5, <1>6, <1>7 DEF ReadFrom, Names
<1>9. Open(r)'
  BY <1>1, <1>2, <1>7, <1>8 DEF Open
<1> QED
  BY <1>1, <1>9, OpenKeeps DEF ChangesAt, Writing

LEMMA TakeKeeps == ASSUME IInv, NEW r \in Ranks, Take(r) PROVE IInv'
<1>1. /\ Writing(r) /\ writing[r] = None /\ pending[r] # <<>>
      /\ pending' = [pending EXCEPT ![r] = Tail(@)]
      /\ UNCHANGED <<K, plan, arrived, todo, next, tmp, out, index>>
  BY DEF Take, disk
<1>2. /\ todo[r] # <<>> /\ r \in plan.members
      /\ \E n \in Nat : Has(r, n) /\ ReadFrom(pending[r], Fqns(r), n + 1, next[r])
  BY <1>1, AtFile
<1>3. CASE writing' = [writing EXCEPT ![r] = Head(pending[r]).fqn] /\ UNCHANGED pc
  <2>1. PICK n \in Nat : Has(r, n) /\ ReadFrom(pending[r], Fqns(r), n + 1, next[r])
    BY <1>2
  <2>2. n + 1 \in Nat \ {0} /\ (n + 1) + 1 = n + 2
    OBVIOUS
  <2>3. /\ Head(pending[r]).fqn = Fqns(r)[n + 1] /\ Head(pending[r]).fqn \in Names
        /\ ReadFrom(Tail(pending[r]), Fqns(r), (n + 1) + 1, next[r])
    BY <1>1, <2>1, <2>2, ReadsTail
  <2>4. pending'[r] = Tail(pending[r]) /\ writing'[r] = Head(pending[r]).fqn
    BY <1>1, <1>3 DEF IInv, ShapeInv, OnRanks
  <2>5. Fqns(r)' = Fqns(r) /\ Has(r, n)'
    BY <1>1, <2>1 DEF Fqns, Has
  <2>6. ReadFrom(pending[r], Fqns(r), n + 2, next[r])'
    BY <1>1, <2>2, <2>3, <2>4, <2>5 DEF ReadFrom, Names
  <2>7. writing'[r] # None /\ writing'[r] = Fqns(r)'[n + 1]
    BY <2>3, <2>4, <2>5 DEF IInv, PlanRight
  <2>8. Open(r)'
    BY <1>1, <1>2, <2>5, <2>6, <2>7 DEF Open
  <2> QED
    BY <1>1, <1>3, <2>8, OpenKeeps DEF ChangesAt, Writing
<1>4. CASE Goto(r, "unwind") /\ UNCHANGED writing
  <2>1. pc' = [pc EXCEPT ![r] = "unwind"] /\ pc'[r] = "unwind"
    BY <1>4 DEF Goto, IInv, ShapeInv, OnRanks
  <2>2. RankInv(r)'
    BY <1>1, <1>2, <2>1 DEF RankInv
  <2> QED
    BY <1>1, <1>4, <2>1, <2>2, WorkKeeps DEF ChangesAt
<1> QED
  BY <1>3, <1>4 DEF Take

(* The next tensor of a file follows the ones that are there.              *)
LEMMA WriteKeeps == ASSUME IInv, NEW r \in Ranks, Write(r) PROVE IInv'
<1>1. /\ Writing(r) /\ writing[r] # None
      /\ writing' = [writing EXCEPT ![r] = None]
      /\ UNCHANGED <<K, plan, arrived, todo, next, pending, out, index>>
  BY DEF Write
<1>2. /\ todo[r] # <<>> /\ r \in plan.members /\ Fqns(r) \in Seq(Names) /\ Len(Fqns(r)) \in Nat
      /\ \E n \in Nat : /\ Has(r, n) /\ writing[r] = Fqns(r)[n + 1]
                        /\ ReadFrom(pending[r], Fqns(r), n + 2, next[r])
  BY <1>1, AtFile
<1>3. CASE tmp' = [tmp EXCEPT ![r].data = Append(@, plan.tensor[writing[r]])] /\ UNCHANGED pc
  <2>1. PICK n \in Nat : /\ Has(r, n) /\ writing[r] = Fqns(r)[n + 1]
                         /\ ReadFrom(pending[r], Fqns(r), n + 2, next[r])
    BY <1>2
  <2>2. n + 2 \in Nat \ {0} /\ n + 2 = (n + 1) + 1 /\ n + 1 \in Nat
    OBVIOUS
  <2>3. n + 1 \in 1 .. Len(Fqns(r))
    <3>1. next[r] <= Len(Fqns(r)) + 1
      BY <2>1 DEF ReadFrom
    <3>2. next[r] \in Nat /\ n + 2 <= next[r]
      BY <2>1, <2>2, ReadsPositive
    <3> QED
      BY <1>2, <3>1, <3>2
  <2>4. Fqns(r)[n + 1] \in Names
    BY <1>2, <2>3, ElementOfSeq
  <2>5. plan.tensor[writing[r]] = plan.saved[Fqns(r)[n + 1]]
    BY <1>2, <2>1, <2>4 DEF IInv, PlanRight
  <2> DEFINE data == [k \in 1 .. n |-> plan.saved[Fqns(r)[k]]]
             more == [k \in 1 .. (n + 1) |-> plan.saved[Fqns(r)[k]]]
  <2>6. Append(data, plan.saved[Fqns(r)[n + 1]]) = more
    OBVIOUS
  <2>7. tmp[r] = [header |-> Fqns(r), data |-> data]
    BY <2>1 DEF Has
  <2> HIDE DEF data, more
  <2>8. tmp'[r] = [tmp[r] EXCEPT !.data = Append(tmp[r].data, plan.tensor[writing[r]])]
    BY <1>3 DEF IInv, ShapeInv, OnRanks
  <2>9. tmp'[r] = [header |-> Fqns(r), data |-> more]
    <3>1. tmp[r].data = data /\ [tmp[r] EXCEPT !.data = more] = [header |-> Fqns(r), data |-> more]
      BY <2>7
    <3> QED
      BY <2>5, <2>6, <2>8, <3>1
  <2>10. Fqns(r)' = Fqns(r) /\ writing'[r] = None /\ plan' = plan
    BY <1>1 DEF Fqns, IInv, ShapeInv, OnRanks
  <2>11. Has(r, n + 1)'
    BY <2>9, <2>10 DEF Has, more
  <2>12. ReadFrom(pending[r], Fqns(r), (n + 1) + 1, next[r])'
    BY <1>1, <2>1, <2>2, <2>10 DEF ReadFrom, Names
  <2>13. Open(r)'
    BY <1>1, <1>2, <2>2, <2>10, <2>11, <2>12 DEF Open
  <2> QED
    BY <1>1, <1>3, <2>13, OpenKeeps DEF ChangesAt, Writing
<1>4. CASE Goto(r, "unwind") /\ UNCHANGED tmp
  <2>1. pc' = [pc EXCEPT ![r] = "unwind"] /\ pc'[r] = "unwind"
    BY <1>4 DEF Goto, IInv, ShapeInv, OnRanks
  <2>2. RankInv(r)'
    BY <1>1, <1>2, <2>1 DEF RankInv
  <2> QED
    BY <1>1, <1>4, <2>1, <2>2, WorkKeeps DEF ChangesAt
<1> QED
  BY <1>3, <1>4 DEF Write

(* A file takes its place when its last tensor has been written.           *)
LEMMA RenameKeeps == ASSUME IInv, NEW r \in Ranks, Rename(r) PROVE IInv'
<1>1. /\ Writing(r) /\ writing[r] = None /\ pending[r] = <<>> /\ next[r] > Len(Fqns(r))
      /\ UNCHANGED <<K, plan, arrived, pending, writing, index>>
  BY DEF Rename
<1>2. /\ r \in plan.members /\ Assigned(r) /\ todo[r] # <<>>
      /\ Head(todo[r]) \in DOMAIN plan.fqns /\ Fqns(r) \in Seq(Names) /\ Len(Fqns(r)) \in Nat
      /\ \E n \in Nat : Has(r, n) /\ ReadFrom(pending[r], Fqns(r), n + 1, next[r])
  BY <1>1, AtFile
<1>3. CASE /\ out' = [out EXCEPT ![Head(todo[r])] = tmp[r]]
           /\ tmp' = [tmp EXCEPT ![r] = None] /\ todo' = [todo EXCEPT ![r] = Tail(@)]
           /\ next' = [next EXCEPT ![r] = 0] /\ UNCHANGED pc
  <2>1. PICK n \in Nat : Has(r, n) /\ ReadFrom(pending[r], Fqns(r), n + 1, next[r])
    BY <1>2
  <2>2. n = Len(Fqns(r))
    <3>1. next[r] = n + 1 + Len(pending[r]) /\ next[r] <= Len(Fqns(r)) + 1
      BY <2>1 DEF ReadFrom
    <3>2. Len(pending[r]) = 0
      BY <1>1
    <3>3. next[r] = n + 1
      BY <3>1, <3>2
    <3> QED
      BY <1>1, <1>2, <3>1, <3>3
  <2>3. DOMAIN Fqns(r) = 1 .. n
    BY <1>2, <2>2
  <2>4. tmp[r] = CompleteFile(Head(todo[r]))
    BY <2>1, <2>3 DEF Has, CompleteFile, Fqns
  <2>5. DOMAIN out = DOMAIN plan.fqns /\ out = [i \in DOMAIN out |-> out[i]]
    BY <1>2 DEF IInv, ShapeInv
  <2>6. /\ DOMAIN out' = DOMAIN out /\ out' = [i \in DOMAIN out |-> out'[i]]
        /\ \A i \in DOMAIN out :
             out'[i] = IF i = Head(todo[r]) THEN CompleteFile(i) ELSE out[i]
    BY <1>3, <2>4, <2>5
  <2>7. CompleteFile(Head(todo[r])) # None
    BY <1>2 DEF IInv, PlanRight
  <2>8. OutStays
    BY <2>6, <2>7 DEF OutStays
  <2>9. OnlyOf(r) /\ ShapeInv'
    BY <1>1, <1>3, <2>6, <2>8, WorkChanges DEF ChangesAt
  <2>10. todo'[r] = Tail(todo[r]) /\ next'[r] = 0 /\ pc'[r] = "write"
    BY <1>1, <1>3 DEF IInv, ShapeInv, OnRanks, Writing
  <2>11. Idle(r)'
    BY <1>1, <2>10 DEF Idle
  <2>12. todo[r] \in Seq(DOMAIN plan.fqns)
    BY <1>2 DEF Assigned
  <2>13. Tail(todo[r]) \in Seq(DOMAIN plan.fqns)
    BY <1>2, <2>12, HeadTailProperties
  <2>14. \A i \in ToSet(todo[r]) : i = Head(todo[r]) \/ i \in ToSet(Tail(todo[r]))
    <3> DEFINE s == todo[r]
    <3>1. s \in Seq(DOMAIN plan.fqns) /\ s # <<>>
      BY <1>2, <2>12
    <3>2. /\ Len(s) \in Nat \ {0} /\ DOMAIN s = 1 .. Len(s) /\ Head(s) = s[1]
          /\ Len(Tail(s)) = Len(s) - 1 /\ DOMAIN Tail(s) = 1 .. (Len(s) - 1)
          /\ \A k \in 1 .. Len(Tail(s)) : Tail(s)[k] = s[k + 1]
      BY <3>1, HeadTailProperties
    <3> HIDE DEF s
    <3>3. \A k \in DOMAIN s : k = 1 \/ (k - 1 \in DOMAIN Tail(s) /\ s[k] = Tail(s)[k - 1])
      BY <3>2
    <3>4. \A i \in ToSet(s) : i = Head(s) \/ i \in ToSet(Tail(s))
      BY <3>2, <3>3 DEF ToSet
    <3> QED
      BY <3>4 DEF s
  <2>15. \A i \in ToSet(plan.files[r]) : i \in DOMAIN out
    BY <1>2, <2>5 DEF IInv, PlanRight, PlanSound, ToSet
  <2>16. Assigned(r)'
    BY <1>1, <1>2, <2>6, <2>7, <2>10, <2>13, <2>14, <2>15 DEF Assigned
  <2>17. RankInv(r)'
    BY <1>1, <1>2, <2>10, <2>11, <2>16 DEF RankInv, Terminal
  <2>18. WholeInv'
    BY <1>1, <2>6 DEF IInv, WholeInv, CompleteFile
  <2>19. \A q \in plan.members : Done(q) => Done(q)'
    BY <1>1, <2>5, <2>8 DEF OutStays, Done, IInv, PlanRight, PlanSound, ToSet
  <2>20. AllOut => AllOut'
    BY <1>1, <2>5, <2>8 DEF OutStays, AllOut
  <2>21. MeetingInv'
    BY <1>1, <1>3, <2>19, <2>20 DEF IInv, MeetingInv, Ranks
  <2> QED
    BY <2>9, <2>17, <2>18, <2>21, StepKeeps
<1>4. CASE Goto(r, "unwind") /\ UNCHANGED <<out, tmp, todo, next>>
  <2>1. pc' = [pc EXCEPT ![r] = "unwind"] /\ pc'[r] = "unwind"
    BY <1>4 DEF Goto, IInv, ShapeInv, OnRanks
  <2>2. RankInv(r)'
    BY <1>1, <1>2, <2>1 DEF RankInv
  <2> QED
    BY <1>1, <1>4, <2>1, <2>2, WorkKeeps DEF ChangesAt
<1> QED
  BY <1>3, <1>4 DEF Rename

(* On the way out nothing is put into place.                               *)
LEMMA UnwindKeeps == ASSUME IInv, NEW r \in Ranks, CancelReads(r) \/ Unwind(r) PROVE IInv'
<1>1. pc[r] = "unwind" /\ r \in plan.members
  BY DEF CancelReads, Unwind, IInv, RankInv, Terminal
<1>2. CASE CancelReads(r)
  <2>1. /\ UNCHANGED <<K, plan, pc, arrived, todo, next, writing, tmp, out, index>>
        /\ \E reads : pending' = [pending EXCEPT ![r] = reads]
    BY <1>2 DEF CancelReads, disk
  <2>2. RankInv(r)'
    BY <1>1, <2>1 DEF RankInv
  <2> QED
    BY <1>1, <2>1, <2>2, WorkKeeps DEF ChangesAt
<1>3. CASE Unwind(r)
  <2>1. /\ UNCHANGED <<K, plan, arrived, todo, writing, out, index>>
        /\ pc' = [pc EXCEPT ![r] = "raised"] /\ pending' = [pending EXCEPT ![r] = <<>>]
        /\ next' = [next EXCEPT ![r] = 0]
        /\ tmp' = [tmp EXCEPT ![r] = None] \/ UNCHANGED tmp
    BY <1>3 DEF Unwind, Goto
  <2>2. pc'[r] = "raised"
    BY <2>1 DEF IInv, ShapeInv, OnRanks
  <2>3. RankInv(r)'
    BY <2>2 DEF RankInv, Terminal
  <2> QED
    BY <2>1, <2>2, <2>3, WorkKeeps DEF ChangesAt
<1> QED
  BY <1>2, <1>3

(* A reader thread finds a read only when a file is open or on the way out.*)
LEMMA ReaderKeeps == ASSUME IInv, NEW r \in Ranks, Reader(r) PROVE IInv'
<1>1. PICK j \in DOMAIN pending[r] : BeginRead(r, j) \/ EndRead(r, j)
  BY DEF Reader
<1>2. PICK s \in Reading :
        /\ pending' = [pending EXCEPT ![r][j].state = s]
        /\ UNCHANGED <<K, plan, pc, arrived, todo, next, writing, tmp, out, index>>
  BY <1>1 DEF BeginRead, EndRead, SetState, Reading, disk
<1>3. pending' = [pending EXCEPT ![r] = [pending[r] EXCEPT ![j].state = s]]
  BY <1>2
<1>4. pending'[r] = [pending[r] EXCEPT ![j].state = s]
  BY <1>3 DEF IInv, ShapeInv, OnRanks
<1>5. ~Idle(r) /\ RankInv(r)
  BY <1>1 DEF Idle, IInv
<1>6. ASSUME pc[r] = "write" PROVE Open(r)'
  <2>1. /\ todo[r] # <<>>
        /\ \E n \in Nat :
             /\ Has(r, n)
             /\ \/ writing[r] = None /\ ReadFrom(pending[r], Fqns(r), n + 1, next[r])
                \/ /\ writing[r] # None /\ writing[r] = Fqns(r)[n + 1]
                   /\ ReadFrom(pending[r], Fqns(r), n + 2, next[r])
    BY <1>5, <1>6 DEF RankInv, Open
  <2>2. Fqns(r)' = Fqns(r) /\ \A n \in Nat : Has(r, n) => Has(r, n)'
    BY <1>2 DEF Fqns, Has
  <2>3. ASSUME NEW m \in Nat \ {0}, ReadFrom(pending[r], Fqns(r), m, next[r])
        PROVE  ReadFrom(pending'[r], Fqns(r), m, next[r])
    BY <1>1, <1>4, <2>3, ReadsState
  <2>4. ASSUME NEW m \in Nat \ {0}, ReadFrom(pending[r], Fqns(r), m, next[r])
        PROVE  ReadFrom(pending[r], Fqns(r), m, next[r])'
    <3>1. ReadFrom(pending'[r], Fqns(r), m, next[r])
      BY <2>3, <2>4
    <3>2. Fqns(r)' = Fqns(r) /\ next' = next /\ Names' = Names
      BY <1>2, <2>2 DEF Names
    <3> QED
      BY <3>1, <3>2 DEF ReadFrom
  <2>5. \A n \in Nat : n + 1 \in Nat \ {0} /\ n + 2 \in Nat \ {0}
    OBVIOUS
  <2> QED
    BY <1>2, <2>1, <2>2, <2>4, <2>5 DEF Open
<1>7. pc'[r] = pc[r] /\ (Assigned(r) => Assigned(r)') /\ (Done(r) => Done(r)')
  BY <1>2 DEF Assigned, Done
<1>8. RankInv(r)'
  BY <1>2, <1>5, <1>6, <1>7 DEF RankInv
<1>9. pc'[r] = "publish" => AllOut
  BY <1>7 DEF IInv, MeetingInv
<1>10. OnlyOf(r) /\ ShapeInv'
  <2>1. OutStays /\ out' = [i \in DOMAIN out |-> out'[i]]
    BY <1>2 DEF IInv, ShapeInv, OutStays
  <2>2. ChangesAt(r, pending, pending')
    BY <1>3 DEF ChangesAt
  <2>3. /\ ChangesAt(r, pc, pc') /\ ChangesAt(r, todo, todo') /\ ChangesAt(r, next, next')
        /\ ChangesAt(r, writing, writing') /\ ChangesAt(r, tmp, tmp')
    BY <1>2 DEF ChangesAt
  <2>4. UNCHANGED <<K, plan, arrived>>
    BY <1>2
  <2> QED
    BY <2>1, <2>2, <2>3, <2>4, WorkChanges
<1> QED
  BY <1>2, <1>8, <1>9, <1>10, QuietKeeps
-----------------------------------------------------------------------------
LEMMA NextKeeps == ASSUME IInv, [Next]_vars PROVE IInv'
<1>1. ASSUME NEW r \in Ranks, Rank(r) PROVE IInv'
  BY <1>1, StartKeeps, PrepareKeeps, PassKeeps, AllWrittenKeeps, PublishKeeps, OpenFileKeeps,
     PrefetchKeeps, TakeKeeps, WriteKeeps, RenameKeeps, UnwindKeeps DEF Rank
<1>2. ASSUME NEW r \in Ranks, TimeOut(r) \/ TimeOutEarly(r) \/ StorageFails(r) PROVE IInv'
  BY <1>2, StopKeeps DEF TimeOut, TimeOutEarly, StorageFails, Terminal
<1>3. CASE UNCHANGED vars
  <2>1. UNCHANGED <<K, plan, pc, arrived, todo, next, pending, writing, tmp, out, index>>
    BY <1>3 DEF vars, pipeline, disk
  <2>2. /\ \A r \in Ranks : RankInv(r)' = RankInv(r)
        /\ PlanRight' = PlanRight /\ ShapeInv' = ShapeInv
        /\ MeetingInv' = MeetingInv /\ WholeInv' = WholeInv /\ Ranks' = Ranks
    BY <2>1 DEF RankInv, Idle, Open, Has, ReadFrom, Assigned, Done, AllOut, Fqns, Names, Ranks,
                PlanRight, PlanSound, CompleteFile, ShapeInv, OnRanks, MeetingInv, WholeInv
  <2> QED
    BY <2>2 DEF IInv
<1> QED
  BY <1>1, <1>2, <1>3, ReaderKeeps, CrashKeeps DEF Next

(* Whatever the ranks do and whichever of them fail, are slow or crash:    *)
(* an output file that is in place is whole, with the values that were     *)
(* saved, and once there is an index every tensor is in the file it names. *)
THEOREM ExportPublishesWhole == Spec /\ PlanRight => []PublishedIsSaved
<1>1. Init /\ PlanRight => IInv
  BY InitWhole
<1>2. IInv /\ [Next]_vars => IInv'
  BY NextKeeps
<1>3. IInv => PublishedIsSaved
  <2>1. SUFFICES ASSUME IInv PROVE PublishedIsSaved
    OBVIOUS
  <2>2. ASSUME index # None, NEW p \in Names
        PROVE  out[index[p]] # None /\ p \in ToSet(out[index[p]].header)
    <3>1. plan.members # {} /\ index = plan.file /\ AllOut
      BY <2>1, <2>2 DEF IInv, MeetingInv
    <3>2. plan.file[p] \in DOMAIN plan.fqns /\ p \in ToSet(plan.fqns[plan.file[p]])
      BY <2>1, <2>2, <3>1 DEF IInv, PlanRight, PlanSound
    <3>3. plan.file[p] \in DOMAIN out
      BY <2>1, <3>1, <3>2 DEF IInv, ShapeInv
    <3>4. out[plan.file[p]] # None /\ out[plan.file[p]].header = plan.fqns[plan.file[p]]
      BY <2>1, <3>1, <3>2, <3>3 DEF IInv, WholeInv, AllOut, CompleteFile
    <3> QED
      BY <3>1, <3>2, <3>4
  <2> QED
    BY <2>1, <2>2 DEF IInv, WholeInv, PublishedIsSaved
<1> QED
  BY <1>1, <1>2, <1>3, PTL DEF Spec
-----------------------------------------------------------------------------
(* The memory of the reads *)

(* Induction on the natural numbers, for a set of them.                    *)
LEMMA AllNaturals ==
  ASSUME NEW S, 0 \in S, \A n \in Nat : n \in S => n + 1 \in S
  PROVE  \A n \in Nat : n \in S
<1> DEFINE less == {ij \in Nat \X Nat : ij[1] < ij[2]}
<1>1. IsWellFoundedOn(less, Nat)
  BY NatLessThanWellFounded DEF OpToRel
<1> HIDE DEF less
<1>2. SUFFICES ASSUME Nat \ S # {} PROVE FALSE
  OBVIOUS
<1>3. PICK m \in Nat \ S : \A n \in Nat \ S : ~(<<n, m>> \in less)
  BY <1>1, <1>2, WFMin
<1>4. m - 1 \in Nat /\ m - 1 < m /\ (m - 1) + 1 = m
  BY <1>3
<1>5. <<m - 1, m>> \in less
  BY <1>3, <1>4 DEF less
<1>6. m - 1 \in S
  BY <1>3, <1>4, <1>5
<1> QED
  BY <1>3, <1>4, <1>6

(* g adds up the first m values of c.                                      *)
AddsUp(g, c, m) ==
  /\ g \in [0 .. m -> Nat] /\ g[0] = 0
  /\ \A n \in 1 .. m : g[n] = g[n - 1] + c[n]

LEMMA SumExists ==
  ASSUME NEW c, NEW m \in Nat, \A n \in 1 .. m : c[n] \in Nat
  PROVE  \E g : AddsUp(g, c, m)
<1> DEFINE S == {k \in Nat : k <= m => \E g : AddsUp(g, c, k)}
<1>1. 0 \in S
  <2>1. AddsUp([n \in 0 .. 0 |-> 0], c, 0)
    BY DEF AddsUp
  <2> QED
    BY <2>1
<1>2. ASSUME NEW k \in Nat, k \in S PROVE k + 1 \in S
  <2>1. SUFFICES ASSUME k + 1 <= m PROVE \E g : AddsUp(g, c, k + 1)
    OBVIOUS
  <2>2. PICK g : AddsUp(g, c, k)
    BY <1>2, <2>1
  <2> DEFINE h == [n \in 0 .. (k + 1) |-> IF n = k + 1 THEN g[k] + c[k + 1] ELSE g[n]]
  <2>3. g \in [0 .. k -> Nat] /\ g[0] = 0 /\ k \in 0 .. k /\ k + 1 \in 1 .. m
    BY <2>1, <2>2 DEF AddsUp
  <2>4. g[k] \in Nat /\ c[k + 1] \in Nat /\ g[k] + c[k + 1] \in Nat
    BY <2>3
  <2>5. \A n \in 0 .. (k + 1) : n = k + 1 \/ n \in 0 .. k
    OBVIOUS
  <2>6. h \in [0 .. (k + 1) -> Nat]
    BY <2>3, <2>4, <2>5
  <2>7. h[0] = 0 /\ h[k + 1] = g[k] + c[k + 1] /\ \A n \in 0 .. k : h[n] = g[n]
    BY <2>3
  <2> HIDE DEF h
  <2>8. ASSUME NEW n \in 1 .. (k + 1) PROVE h[n] = h[n - 1] + c[n]
    <3>1. CASE n = k + 1
      <4>1. n - 1 = k /\ h[n - 1] = g[k]
        BY <2>3, <2>7, <3>1
      <4> QED
        BY <2>7, <3>1, <4>1
    <3>2. CASE n # k + 1
      <4>1. n \in 1 .. k /\ n \in 0 .. k /\ n - 1 \in 0 .. k
        BY <3>2
      <4> QED
        BY <2>2, <2>7, <4>1 DEF AddsUp
    <3> QED
      BY <3>1, <3>2
  <2> QED
    BY <2>6, <2>7, <2>8 DEF AddsUp
<1> HIDE DEF S
<1>3. m \in S
  BY <1>1, <1>2, AllNaturals
<1> QED
  BY <1>3 DEF S

(* A sum that is nowhere larger stays the smaller one.                     *)
LEMMA SumsCompare ==
  ASSUME NEW f, NEW c, NEW g, NEW d, NEW m \in Nat,
         AddsUp(f, c, m), AddsUp(g, d, m),
         \A n \in 1 .. m : c[n] \in Nat /\ d[n] \in Nat /\ c[n] <= d[n]
  PROVE  f[m] <= g[m]
<1> DEFINE S == {k \in Nat : k <= m => f[k] <= g[k]}
<1>1. 0 \in S
  BY DEF AddsUp
<1>2. ASSUME NEW k \in Nat, k \in S PROVE k + 1 \in S
  <2>1. SUFFICES ASSUME k + 1 <= m PROVE f[k + 1] <= g[k + 1]
    OBVIOUS
  <2>2. k \in 0 .. m /\ k + 1 \in 1 .. m /\ (k + 1) - 1 = k /\ f[k] <= g[k]
    BY <1>2, <2>1
  <2>3. f[k] \in Nat /\ g[k] \in Nat /\ f[k + 1] = f[k] + c[k + 1] /\ g[k + 1] = g[k] + d[k + 1]
    BY <2>2 DEF AddsUp
  <2>4. c[k + 1] \in Nat /\ d[k + 1] \in Nat /\ c[k + 1] <= d[k + 1]
    BY <2>2
  <2> QED
    BY <2>2, <2>3, <2>4
<1> HIDE DEF S
<1>3. m \in S
  BY <1>1, <1>2, AllNaturals
<1> QED
  BY <1>3 DEF S

(* A sum without its first value.                                          *)
LEMMA SumWithoutFirst ==
  ASSUME NEW f, NEW c, NEW g, NEW d, NEW m \in Nat,
         AddsUp(f, c, m + 1), AddsUp(g, d, m),
         c[1] \in Nat, \A n \in 1 .. m : d[n] \in Nat /\ c[n + 1] = d[n]
  PROVE  f[m + 1] = c[1] + g[m]
<1> DEFINE S == {k \in Nat : k <= m => f[k + 1] = c[1] + g[k]}
<1>1. 0 \in S
  <2>1. 1 \in 1 .. (m + 1) /\ 1 - 1 = 0 /\ 0 + 1 = 1
    OBVIOUS
  <2>2. f[1] = f[0] + c[1] /\ f[0] = 0 /\ g[0] = 0
    BY <2>1 DEF AddsUp
  <2> QED
    BY <2>1, <2>2
<1>2. ASSUME NEW k \in Nat, k \in S PROVE k + 1 \in S
  <2>1. SUFFICES ASSUME k + 1 <= m PROVE f[(k + 1) + 1] = c[1] + g[k + 1]
    OBVIOUS
  <2>2. /\ k \in 0 .. m /\ k + 1 \in 1 .. m /\ (k + 1) - 1 = k /\ f[k + 1] = c[1] + g[k]
        /\ (k + 1) + 1 \in 1 .. (m + 1) /\ ((k + 1) + 1) - 1 = k + 1
    BY <1>2, <2>1
  <2>3. f[(k + 1) + 1] = f[k + 1] + c[(k + 1) + 1] /\ g[k + 1] = g[k] + d[k + 1] /\ g[k] \in Nat
    <3>1. f[(k + 1) + 1] = f[((k + 1) + 1) - 1] + c[(k + 1) + 1]
      BY <2>2 DEF AddsUp
    <3>2. g[k + 1] = g[(k + 1) - 1] + d[k + 1] /\ g[k] \in Nat
      BY <2>2 DEF AddsUp
    <3> QED
      BY <2>2, <3>1, <3>2
  <2>4. d[k + 1] \in Nat /\ c[(k + 1) + 1] = d[k + 1]
    BY <2>2
  <2> QED
    BY <2>2, <2>3, <2>4
<1> HIDE DEF S
<1>3. m \in S
  BY <1>1, <1>2, AllNaturals
<1> QED
  BY <1>3 DEF S
-----------------------------------------------------------------------------
Reads == [fqn : Names, state : Reading]
Costs(size, reads) == [n \in 1 .. Len(reads) |-> Cost(size, reads[n])]

LEMMA CostType ==
  ASSUME NEW size \in [Names -> Nat], NEW reads \in Seq(Reads)
  PROVE  Len(reads) \in Nat /\ \A n \in 1 .. Len(reads) : Costs(size, reads)[n] \in Nat
<1>1. \A n \in 1 .. Len(reads) : reads[n] \in Reads
  BY ElementOfSeq
<1>2. \A read \in Reads : Cost(size, read) \in Nat
  BY DEF Cost, Reads
<1> QED
  BY <1>1, <1>2 DEF Costs

(* Total is such a sum of what the reads cost.                             *)
LEMMA TotalAddsUp ==
  ASSUME NEW size \in [Names -> Nat], NEW reads \in Seq(Reads)
  PROVE  \E g : AddsUp(g, Costs(size, reads), Len(reads)) /\ Total(size, reads) = g[Len(reads)]
<1> DEFINE m == Len(reads)
           Upto(g) == g = [n \in 0 .. m |-> IF n = 0 THEN 0 ELSE g[n - 1] + Cost(size, reads[n])]
           upto == CHOOSE g : Upto(g)
<1>1. m \in Nat /\ \A n \in 1 .. m : Costs(size, reads)[n] \in Nat
  BY CostType
<1>2. \A n \in 1 .. m : Costs(size, reads)[n] = Cost(size, reads[n])
  BY DEF Costs
<1>3. Total(size, reads) = upto[m]
  BY DEF Total
<1> HIDE DEF m
<1>4. PICK g : AddsUp(g, Costs(size, reads), m)
  BY <1>1, SumExists
<1>5. g = [n \in 0 .. m |-> g[n]]
  BY <1>4 DEF AddsUp
<1>6. \A n \in 0 .. m : g[n] = IF n = 0 THEN 0 ELSE g[n - 1] + Cost(size, reads[n])
  <2>1. \A n \in 0 .. m : n = 0 \/ n \in 1 .. m
    BY <1>1
  <2> QED
    BY <1>2, <1>4, <2>1 DEF AddsUp
<1>7. Upto(g)
  BY <1>5, <1>6
<1>8. Upto(upto)
  BY <1>7
<1> HIDE DEF upto
<1>9. /\ DOMAIN upto = 0 .. m /\ upto = [n \in 0 .. m |-> upto[n]]
      /\ upto[0] = 0 /\ \A n \in 1 .. m : upto[n] = upto[n - 1] + Costs(size, reads)[n]
  <2>1. /\ DOMAIN upto = 0 .. m /\ upto = [n \in 0 .. m |-> upto[n]]
        /\ \A n \in 0 .. m : upto[n] = IF n = 0 THEN 0 ELSE upto[n - 1] + Cost(size, reads[n])
    BY <1>8
  <2>2. 0 \in 0 .. m /\ \A n \in 1 .. m : n \in 0 .. m /\ n # 0
    BY <1>1
  <2>3. upto[0] = 0 /\ \A n \in 1 .. m : upto[n] = upto[n - 1] + Cost(size, reads[n])
    BY <2>1, <2>2
  <2> QED
    BY <1>2, <2>1, <2>3
<1> HIDE DEF Upto
<1>10. \A n \in 0 .. m : upto[n] \in Nat
  <2> DEFINE S == {k \in Nat : k <= m => upto[k] \in Nat}
  <2>1. 0 \in S
    BY <1>9
  <2>2. ASSUME NEW k \in Nat, k \in S PROVE k + 1 \in S
    <3>1. SUFFICES ASSUME k + 1 <= m PROVE upto[k + 1] \in Nat
      OBVIOUS
    <3>2. k + 1 \in 1 .. m /\ (k + 1) - 1 = k /\ upto[k] \in Nat
      BY <1>1, <2>2, <3>1
    <3>3. upto[k + 1] = upto[k] + Costs(size, reads)[k + 1]
      BY <1>9, <3>2
    <3> QED
      BY <1>1, <3>2, <3>3
  <2> HIDE DEF S
  <2>3. \A k \in Nat : k \in S
    BY <2>1, <2>2, AllNaturals
  <2> QED
    BY <1>1, <2>3 DEF S
<1>11. AddsUp(upto, Costs(size, reads), m)
  <2>1. upto \in [0 .. m -> Nat]
    BY <1>9, <1>10
  <2> QED
    BY <1>9, <2>1 DEF AddsUp
<1> QED
  BY <1>3, <1>11 DEF m

LEMMA TotalType ==
  ASSUME NEW size \in [Names -> Nat], NEW reads \in Seq(Reads)
  PROVE  Total(size, reads) \in Nat
<1>1. PICK g : AddsUp(g, Costs(size, reads), Len(reads)) /\ Total(size, reads) = g[Len(reads)]
  BY TotalAddsUp
<1>2. Len(reads) \in Nat
  BY CostType
<1> QED
  BY <1>1, <1>2 DEF AddsUp

(* No read takes nothing, ...                                              *)
LEMMA TotalOfNothing ==
  ASSUME NEW size
  PROVE  Total(size, <<>>) = 0
<1> DEFINE Upto(g) == g = [n \in 0 .. 0 |-> IF n = 0 THEN 0 ELSE g[n - 1] + Cost(size, <<>>[n])]
           upto == CHOOSE g : Upto(g)
<1>1. Total(size, <<>>) = upto[0]
  BY DEF Total
<1>2. Upto([n \in 0 .. 0 |-> 0])
  OBVIOUS
<1>3. Upto(upto)
  BY <1>2
<1> HIDE DEF upto
<1>4. upto[0] = 0
  BY <1>3
<1> QED
  BY <1>1, <1>4

(* reads that cost no more take no more, ...                               *)
LEMMA TotalCompare ==
  ASSUME NEW size \in [Names -> Nat], NEW reads \in Seq(Reads), NEW more \in Seq(Reads),
         Len(reads) = Len(more),
         \A n \in 1 .. Len(reads) : Cost(size, reads[n]) <= Cost(size, more[n])
  PROVE  Total(size, reads) <= Total(size, more)
<1>1. PICK f : AddsUp(f, Costs(size, reads), Len(reads)) /\ Total(size, reads) = f[Len(reads)]
  BY TotalAddsUp
<1>2. PICK g : AddsUp(g, Costs(size, more), Len(reads)) /\ Total(size, more) = g[Len(reads)]
  BY TotalAddsUp
<1>3. /\ Len(reads) \in Nat
      /\ \A n \in 1 .. Len(reads) : Costs(size, reads)[n] \in Nat /\ Costs(size, more)[n] \in Nat
  BY CostType
<1>4. \A n \in 1 .. Len(reads) : Costs(size, reads)[n] <= Costs(size, more)[n]
  BY DEF Costs
<1> QED
  BY <1>1, <1>2, <1>3, <1>4, SumsCompare

(* one more adds its cost, ...                                             *)
LEMMA TotalAppend ==
  ASSUME NEW size \in [Names -> Nat], NEW reads \in Seq(Reads), NEW read \in Reads
  PROVE  Total(size, Append(reads, read)) = Total(size, reads) + Cost(size, read)
<1> DEFINE more == Append(reads, read)
           m == Len(reads)
<1>1. more \in Seq(Reads) /\ Len(more) = m + 1 /\ m \in Nat
  OBVIOUS
<1>2. more[m + 1] = read /\ \A n \in 1 .. m : more[n] = reads[n]
  OBVIOUS
<1> HIDE DEF more
<1>3. PICK f : AddsUp(f, Costs(size, reads), m) /\ Total(size, reads) = f[m]
  BY TotalAddsUp
<1>4. PICK g : AddsUp(g, Costs(size, more), m + 1) /\ Total(size, more) = g[m + 1]
  BY <1>1, TotalAddsUp
<1>5. \A n \in 1 .. m : Costs(size, reads)[n] \in Nat
  BY CostType
<1> HIDE DEF m
<1>6. \A n \in 1 .. m : Costs(size, more)[n] = Costs(size, reads)[n]
  BY <1>1, <1>2 DEF Costs, m
<1>7. Costs(size, more)[m + 1] = Cost(size, read)
  BY <1>1, <1>2 DEF Costs
<1> DEFINE part == [n \in 0 .. m |-> g[n]]
<1>8. AddsUp(part, Costs(size, more), m)
  <2>1. /\ g \in [0 .. (m + 1) -> Nat] /\ g[0] = 0
        /\ \A n \in 1 .. (m + 1) : g[n] = g[n - 1] + Costs(size, more)[n]
    BY <1>4 DEF AddsUp
  <2>2. \A n \in 0 .. m : n \in 0 .. (m + 1) /\ part[n] = g[n]
    BY <1>1
  <2>3. \A n \in 1 .. m : n \in 1 .. (m + 1) /\ n \in 0 .. m /\ n - 1 \in 0 .. m
    BY <1>1
  <2>4. part \in [0 .. m -> Nat] /\ part[0] = 0
    BY <1>1, <2>1, <2>2
  <2> HIDE DEF part
  <2> QED
    BY <2>1, <2>2, <2>3, <2>4 DEF AddsUp
<1>9. part[m] = g[m] /\ part[m] \in Nat
  BY <1>1, <1>8 DEF AddsUp
<1> HIDE DEF part
<1>10. f[m] = part[m]
  <2>1. f[m] <= part[m] /\ part[m] <= f[m]
    BY <1>1, <1>3, <1>5, <1>6, <1>8, SumsCompare
  <2>2. f[m] \in Nat
    BY <1>1, <1>3 DEF AddsUp
  <2> QED
    BY <1>9, <2>1, <2>2
<1>11. g[m + 1] = g[m] + Costs(size, more)[m + 1]
  <2>1. m + 1 \in 1 .. (m + 1) /\ (m + 1) - 1 = m
    BY <1>1
  <2> QED
    BY <1>4, <2>1 DEF AddsUp
<1> QED
  BY <1>3, <1>4, <1>7, <1>9, <1>10, <1>11 DEF more

(* and the oldest takes its cost along.                                    *)
LEMMA TotalTail ==
  ASSUME NEW size \in [Names -> Nat], NEW reads \in Seq(Reads), reads # <<>>
  PROVE  /\ Head(reads) \in Reads /\ Tail(reads) \in Seq(Reads)
         /\ Total(size, reads) = Cost(size, Head(reads)) + Total(size, Tail(reads))
<1> DEFINE rest == Tail(reads)
           m == Len(rest)
<1>1. rest \in Seq(Reads) /\ m \in Nat /\ Len(reads) = m + 1 /\ 1 \in 1 .. Len(reads)
  OBVIOUS
<1>2. Head(reads) = reads[1] /\ \A n \in 1 .. m : rest[n] = reads[n + 1]
  OBVIOUS
<1>3. Head(reads) \in Reads
  BY <1>1, <1>2, ElementOfSeq
<1> HIDE DEF rest
<1>4. PICK f : AddsUp(f, Costs(size, reads), m + 1) /\ Total(size, reads) = f[m + 1]
  BY <1>1, TotalAddsUp
<1>5. PICK g : AddsUp(g, Costs(size, rest), m) /\ Total(size, rest) = g[m]
  BY <1>1, TotalAddsUp
<1>6. /\ \A n \in 1 .. m : Costs(size, rest)[n] \in Nat
      /\ \A n \in 1 .. (m + 1) : Costs(size, reads)[n] \in Nat
  BY <1>1, CostType
<1> HIDE DEF m
<1>7. Costs(size, reads)[1] = Cost(size, Head(reads)) /\ 1 \in 1 .. (m + 1)
  BY <1>1, <1>2 DEF Costs
<1>8. ASSUME NEW n \in 1 .. m PROVE Costs(size, reads)[n + 1] = Costs(size, rest)[n]
  <2>1. n + 1 \in 1 .. Len(reads) /\ n \in 1 .. Len(rest) /\ rest[n] = reads[n + 1]
    BY <1>1, <1>2 DEF m
  <2> QED
    BY <2>1 DEF Costs
<1>9. f[m + 1] = Costs(size, reads)[1] + g[m]
  <2> DEFINE c == Costs(size, reads)
             d == Costs(size, rest)
  <2>1. /\ AddsUp(f, c, m + 1) /\ AddsUp(g, d, m) /\ c[1] \in Nat /\ m \in Nat
        /\ \A n \in 1 .. m : d[n] \in Nat /\ c[n + 1] = d[n]
    <3>1. m \in Nat
      BY <1>1 DEF m
    <3>2. c[1] \in Nat
      BY <1>6, <1>7
    <3> QED
      BY <1>4, <1>5, <1>6, <1>8, <3>1, <3>2
  <2> HIDE DEF c, d
  <2>2. f[m + 1] = c[1] + g[m]
    BY <2>1, SumWithoutFirst
  <2> QED
    BY <2>2 DEF c
<1> QED
  BY <1>1, <1>3, <1>4, <1>5, <1>7, <1>9 DEF rest
-----------------------------------------------------------------------------
(* What a rank holds at a time.  Its reader threads and its writer change  *)
(* what is outstanding and what is left of the budget together.            *)
MemoryInv(r) ==
  /\ pending[r] \in Seq(Reads) /\ writing[r] \in Names \union {None}
  /\ pending[r] # <<>> \/ writing[r] # None => plan.members # {}
  /\ avail[r] \in Int
  /\ pc[r] \notin {"unwind", "raised", "crashed"} => Budget = avail[r] + Bytes(Outstanding(r))
  /\ Len(Outstanding(r)) <= 1 \/ Bytes(Outstanding(r)) <= Budget

(* Where a rank is, and when it has a file open.                           *)
PlaceInv(r) ==
  /\ pc[r] \in Terminal \union Barriers \union {"start", "headers", "write", "unwind", "publish"}
  /\ next[r] # 0 => /\ pc[r] \in {"write", "unwind", "crashed"} /\ todo[r] # <<>>
                    /\ next[r] <= Len(Fqns(r)) + 1
  /\ writing[r] # None => pc[r] \in {"write", "crashed"}

TypeInv ==
  /\ OnRanks(avail) /\ made \in BOOLEAN
  /\ \A b \in Barriers : arrived[b] \subseteq plan.members
  /\ \A r \in Ranks : MemoryInv(r) /\ PlaceInv(r)

OutOf(reads, p) == reads \o (IF p = None THEN <<>> ELSE <<[fqn |-> p, state |-> "ok"]>>)

LEMMA OutBytes ==
  ASSUME NEW size \in [Names -> Nat], NEW reads \in Seq(Reads), NEW p \in Names \union {None},
         None \notin Names
  PROVE  /\ Len(reads) \in Nat /\ Total(size, reads) \in Nat
         /\ p = None => /\ Len(OutOf(reads, p)) = Len(reads)
                        /\ Total(size, OutOf(reads, p)) = Total(size, reads)
         /\ p # None => /\ Len(OutOf(reads, p)) = Len(reads) + 1
                        /\ Total(size, OutOf(reads, p)) = Total(size, reads) + size[p]
                        /\ size[p] \in Nat
<1>1. Len(reads) \in Nat /\ Total(size, reads) \in Nat
  BY TotalType
<1>2. CASE p = None
  <2>1. OutOf(reads, p) = reads
    BY <1>2 DEF OutOf
  <2> QED
    BY <1>1, <1>2, <2>1
<1>3. CASE p # None
  <2> DEFINE read == [fqn |-> p, state |-> "ok"]
  <2>1. p \in Names /\ size[p] \in Nat /\ read \in Reads
    BY <1>3 DEF Reads, Reading
  <2>2. OutOf(reads, p) = reads \o <<read>>
    BY <1>3 DEF OutOf
  <2>3. Cost(size, read) = size[p]
    BY DEF Cost
  <2> HIDE DEF read
  <2>4. OutOf(reads, p) = Append(reads, read)
    BY <2>1, <2>2
  <2>5. Len(Append(reads, read)) = Len(reads) + 1
    BY <2>1
  <2>6. Total(size, Append(reads, read)) = Total(size, reads) + Cost(size, read)
    BY <2>1, TotalAppend
  <2> QED
    BY <1>1, <1>3, <2>1, <2>3, <2>4, <2>5, <2>6
<1> QED
  BY <1>2, <1>3

LEMMA TheOutstanding ==
  ASSUME NEW r
  PROVE  Outstanding(r) = OutOf(pending[r], writing[r])
  BY DEF Outstanding, OutOf

(* A rank that leaves its reads alone.                                     *)
LEMMA MemoryStays ==
  ASSUME NEW r \in Ranks, MemoryInv(r), UNCHANGED <<K, plan>>,
         pending'[r] = pending[r], writing'[r] = writing[r], avail'[r] = avail[r],
         pc'[r] \in {"unwind", "raised", "crashed"} \/ pc[r] \notin {"unwind", "raised", "crashed"}
  PROVE  MemoryInv(r)'
<1>1. Outstanding(r)' = Outstanding(r) /\ Names' = Names
  BY DEF Outstanding, Names
<1>2. Bytes(Outstanding(r))' = Bytes(Outstanding(r))
  BY <1>1 DEF Bytes
<1>3. Reads' = Reads
  BY <1>1 DEF Reads
<1> QED
  BY <1>1, <1>2, <1>3 DEF MemoryInv

(* A step of one rank has to show what is about its own.                   *)
LEMMA TypeStep ==
  ASSUME IInv, TypeInv, NEW r \in Ranks, UNCHANGED <<K, plan>>,
         ChangesAt(r, pc, pc'), ChangesAt(r, todo, todo'), ChangesAt(r, next, next'),
         ChangesAt(r, pending, pending'), ChangesAt(r, writing, writing'),
         ChangesAt(r, avail, avail'),
         made' \in BOOLEAN, \A b \in Barriers : arrived'[b] \subseteq plan.members,
         MemoryInv(r)', PlaceInv(r)'
  PROVE  TypeInv'
<1>1. /\ OnRanks(pc) /\ OnRanks(todo) /\ OnRanks(next) /\ OnRanks(pending) /\ OnRanks(writing)
      /\ OnRanks(avail)
  BY DEF IInv, ShapeInv, TypeInv
<1>2. OnRanks(avail')
  BY <1>1, ChangeAt
<1>3. ASSUME NEW q \in Ranks \ {r}
      PROVE  /\ pc'[q] = pc[q] /\ todo'[q] = todo[q] /\ next'[q] = next[q]
             /\ pending'[q] = pending[q] /\ writing'[q] = writing[q] /\ avail'[q] = avail[q]
  <2>1. pc'[q] = pc[q]
    BY <1>1, ChangeAt
  <2>2. todo'[q] = todo[q]
    BY <1>1, ChangeAt
  <2>3. next'[q] = next[q]
    BY <1>1, ChangeAt
  <2>4. pending'[q] = pending[q]
    BY <1>1, ChangeAt
  <2>5. writing'[q] = writing[q]
    BY <1>1, ChangeAt
  <2>6. avail'[q] = avail[q]
    BY <1>1, ChangeAt
  <2> QED
    BY <2>1, <2>2, <2>3, <2>4, <2>5, <2>6
<1>4. ASSUME NEW q \in Ranks \ {r} PROVE MemoryInv(q)' /\ PlaceInv(q)'
  <2>1. MemoryInv(q)'
    BY <1>3, MemoryStays DEF TypeInv
  <2>2. Fqns(q)' = Fqns(q)
    BY <1>3 DEF Fqns
  <2> QED
    BY <1>3, <2>1, <2>2 DEF TypeInv, PlaceInv
<1>5. Ranks' = Ranks /\ Barriers' = Barriers /\ OnRanks(avail)'
  BY <1>2 DEF Ranks, Barriers, OnRanks
<1> QED
  BY <1>4, <1>5 DEF TypeInv

(* A step that moves a rank without an open file, or ends it.              *)
LEMMA MoveType ==
  ASSUME IInv, TypeInv, NEW r \in Ranks, NEW place, Goto(r, place),
         UNCHANGED <<K, plan, next, pending, writing, avail>>, ChangesAt(r, todo, todo'),
         pc[r] \notin {"unwind", "raised", "crashed"}, next[r] = 0, writing[r] = None,
         place \in Terminal \union Barriers \union {"headers", "write", "publish"},
         made' \in BOOLEAN, \A b \in Barriers : arrived'[b] \subseteq plan.members
  PROVE  TypeInv'
<1>1. pc' = [pc EXCEPT ![r] = place] /\ pc'[r] = place
  BY DEF Goto, IInv, ShapeInv, OnRanks
<1>2. PlaceInv(r)'
  <2>1. next'[r] = 0 /\ writing'[r] = None
    OBVIOUS
  <2> QED
    BY <1>1, <2>1 DEF PlaceInv
<1>3. MemoryInv(r)'
  BY MemoryStays DEF TypeInv
<1>4. /\ ChangesAt(r, pc, pc') /\ ChangesAt(r, next, next') /\ ChangesAt(r, pending, pending')
      /\ ChangesAt(r, writing, writing') /\ ChangesAt(r, avail, avail')
  BY <1>1 DEF ChangesAt
<1> QED
  BY <1>2, <1>3, <1>4, TypeStep

(* A rank notes itself at a barrier.                                       *)
LEMMA ArrivedType ==
  ASSUME IInv, TypeInv, NEW r \in plan.members,
         UNCHANGED arrived \/ \E b \in Barriers : arrived' = [arrived EXCEPT ![b] = @ \union {r}]
  PROVE  \A b \in Barriers : arrived'[b] \subseteq plan.members
<1>1. /\ DOMAIN arrived = Barriers /\ \A b \in Barriers : arrived[b] \subseteq plan.members
  BY DEF IInv, ShapeInv, TypeInv
<1> QED
  BY <1>1

LEMMA MovesType ==
  ASSUME IInv, TypeInv, NEW r \in Ranks,
         Start(r) \/ Prepare(r) \/ Pass(r) \/ AllWritten(r) \/ Publish(r)
         \/ TimeOut(r) \/ TimeOutEarly(r) \/ StorageFails(r)
  PROVE  TypeInv'
<1>1. /\ PlaceInv(r) /\ RankInv(r) /\ made \in BOOLEAN
      /\ \A b \in Barriers : arrived[b] \subseteq plan.members
  BY DEF TypeInv, IInv
<1>2. /\ pc[r] \in {"start", "headers", "write", "publish"} \union Barriers
      /\ pc[r] = "write" => todo[r] = <<>>
  <2>1. CASE Start(r) \/ Prepare(r) \/ Publish(r) \/ AllWritten(r)
    BY <2>1 DEF Start, Prepare, AllWritten, Publish
  <2>2. CASE Pass(r) \/ TimeOut(r) \/ TimeOutEarly(r)
    BY <2>2 DEF Pass, TimeOut, TimeOutEarly, Barriers
  <2>3. CASE StorageFails(r)
    BY <2>3 DEF StorageFails
  <2> QED
    BY <2>1, <2>2, <2>3
<1>3. pc[r] \notin {"unwind", "raised", "crashed"} /\ next[r] = 0 /\ writing[r] = None
  <2>1. CASE pc[r] = "write"
    <3>1. next[r] = 0
      BY <1>1, <1>2, <2>1 DEF PlaceInv
    <3>2. Idle(r) \/ Open(r)
      BY <1>1, <2>1 DEF RankInv
    <3> QED
      BY <1>2, <2>1, <3>1, <3>2 DEF Idle, Open
  <2>2. CASE pc[r] # "write"
    BY <1>1, <1>2, <2>2 DEF PlaceInv, Barriers
  <2> QED
    BY <2>1, <2>2
<1>4. UNCHANGED <<K, plan, next, pending, writing, avail>>
  BY DEF Start, Prepare, Pass, AllWritten, Publish, TimeOut, TimeOutEarly, StorageFails, pipeline
<1>5. made' \in BOOLEAN
  BY <1>1 DEF Start, Prepare, Pass, AllWritten, Publish, TimeOut, TimeOutEarly, StorageFails, disk
<1>6. ChangesAt(r, todo, todo')
  BY DEF Start, Prepare, Pass, AllWritten, Publish, TimeOut, TimeOutEarly, StorageFails, pipeline,
         ChangesAt
<1>7. \A b \in Barriers : After[b] \in Terminal \union {"headers", "write", "publish"}
  BY DEF After, Barriers, Terminal
<1>8. ASSUME NEW b \in Barriers, Enter(r, b), r \in plan.members PROVE TypeInv'
  <2>1. \A c \in Barriers : arrived'[c] \subseteq plan.members
    BY <1>8, EnterMoves, ArrivedType
  <2>2. PICK place \in {b, After[b]} : Goto(r, place)
    BY <1>8, EnterMoves
  <2>3. place \in Terminal \union Barriers \union {"headers", "write", "publish"}
    BY <1>7, <1>8, <2>2
  <2> QED
    BY <1>3, <1>4, <1>5, <1>6, <2>1, <2>2, <2>3, MoveType
<1>9. ASSUME NEW place \in Terminal \union Barriers \union {"headers", "write", "publish"},
             Goto(r, place), UNCHANGED arrived
      PROVE  TypeInv'
  <2>1. \A c \in Barriers : arrived'[c] \subseteq plan.members
    BY <1>1, <1>9
  <2> QED
    BY <1>3, <1>4, <1>5, <1>6, <1>9, <2>1, MoveType
<1>10. pc[r] \notin Terminal \union {"start"} => r \in plan.members
  BY <1>1 DEF RankInv
<1>11. CASE Start(r)
  BY <1>8, <1>9, <1>11 DEF Start, Terminal, Barriers
<1>12. CASE Prepare(r)
  BY <1>8, <1>9, <1>10, <1>12 DEF Prepare, Terminal, Barriers
<1>13. CASE Pass(r)
  BY <1>7, <1>9, <1>13 DEF Pass
<1>14. CASE AllWritten(r) \/ Publish(r)
  BY <1>8, <1>10, <1>14 DEF AllWritten, Publish, Terminal, Barriers
<1>15. CASE TimeOut(r) \/ TimeOutEarly(r) \/ StorageFails(r)
  BY <1>9, <1>15 DEF TimeOut, TimeOutEarly, StorageFails, Terminal
<1> QED
  BY <1>11, <1>12, <1>13, <1>14, <1>15
-----------------------------------------------------------------------------
(* The steps that take memory or give it back.                             *)
Held(reads, p) == Total(plan.bytes, reads) + (IF p = None THEN 0 ELSE plan.bytes[p])
Count(reads, p) == Len(reads) + (IF p = None THEN 0 ELSE 1)

LEMMA SizesType ==
  ASSUME IInv, plan.members # {}
  PROVE  plan.bytes \in [Names -> Nat] /\ None \notin Names /\ Budget \in Nat
  BY ConsolidationAssumption DEF IInv, PlanRight, PlanSound

LEMMA HeldBefore ==
  ASSUME IInv, NEW r \in Ranks, MemoryInv(r), plan.members # {}
  PROVE  /\ Bytes(Outstanding(r)) = Held(pending[r], writing[r])
         /\ Len(Outstanding(r)) = Count(pending[r], writing[r])
         /\ Total(plan.bytes, pending[r]) \in Nat /\ Len(pending[r]) \in Nat
         /\ writing[r] # None => plan.bytes[writing[r]] \in Nat
<1>1. pending[r] \in Seq(Reads) /\ writing[r] \in Names \union {None}
  BY DEF MemoryInv
<1> DEFINE reads == pending[r]
           p == writing[r]
<1>2. /\ Bytes(Outstanding(r)) = Total(plan.bytes, OutOf(reads, p))
      /\ Len(Outstanding(r)) = Len(OutOf(reads, p))
  BY TheOutstanding DEF Bytes
<1>3. reads \in Seq(Reads) /\ p \in Names \union {None}
  BY <1>1
<1> HIDE DEF reads, p
<1>4. /\ Total(plan.bytes, OutOf(reads, p)) = Held(reads, p) /\ Len(OutOf(reads, p)) = Count(reads, p)
      /\ Total(plan.bytes, reads) \in Nat /\ Len(reads) \in Nat
      /\ p # None => plan.bytes[p] \in Nat
  BY <1>3, SizesType, OutBytes DEF Held, Count
<1> QED
  BY <1>2, <1>4 DEF reads, p

LEMMA HeldAfter ==
  ASSUME IInv, NEW r \in Ranks, UNCHANGED <<K, plan>>, plan.members # {},
         NEW reads \in Seq(Reads), NEW p \in Names \union {None}, NEW left \in Int,
         pending'[r] = reads, writing'[r] = p, avail'[r] = left,
         pc'[r] \notin {"unwind", "raised", "crashed"} => Budget = left + Held(reads, p),
         Count(reads, p) <= 1 \/ Held(reads, p) <= Budget
  PROVE  MemoryInv(r)'
<1>1. Names' = Names /\ Reads' = Reads
  BY DEF Reads, Names
<1>2. Outstanding(r)' = OutOf(reads, p)
  BY DEF Outstanding, OutOf
<1>3. Bytes(Outstanding(r))' = Total(plan.bytes, OutOf(reads, p))
  BY <1>2 DEF Bytes
<1>4. Total(plan.bytes, OutOf(reads, p)) = Held(reads, p) /\ Len(OutOf(reads, p)) = Count(reads, p)
  BY SizesType, OutBytes DEF Held, Count
<1> QED
  BY <1>1, <1>2, <1>3, <1>4 DEF MemoryInv

LEMMA OpenFileType == ASSUME IInv, TypeInv, NEW r \in Ranks, OpenFile(r) PROVE TypeInv'
<1>1. /\ pc[r] = "write" /\ todo[r] # <<>> /\ next[r] = 0
      /\ UNCHANGED <<K, plan, arrived, todo, pending, writing, avail, made>>
  BY DEF OpenFile
<1>2. /\ made' \in BOOLEAN /\ \A b \in Barriers : arrived'[b] \subseteq plan.members
      /\ ChangesAt(r, todo, todo')
  BY <1>1 DEF TypeInv, ChangesAt
<1>3. CASE Goto(r, "raised") /\ UNCHANGED next
  <2>1. writing[r] = None
    <3>1. \A n \in Nat : n + 1 \in Nat \ {0} /\ n + 2 \in Nat \ {0}
      OBVIOUS
    <3>2. ~Open(r)
      BY <1>1, <3>1, ReadsPositive DEF Open
    <3> QED
      BY <1>1, <3>2, AtWork DEF Idle
  <2> QED
    BY <1>1, <1>2, <1>3, <2>1, MoveType DEF Terminal
<1>4. CASE next' = [next EXCEPT ![r] = 1] /\ UNCHANGED pc
  <2>1. next'[r] = 1 /\ Len(Fqns(r)) \in Nat /\ Fqns(r)' = Fqns(r)
    BY <1>1, <1>4, AtWork DEF IInv, ShapeInv, OnRanks, Fqns
  <2>2. PlaceInv(r)'
    <3>1. 1 <= Len(Fqns(r)) + 1
      BY <2>1
    <3> QED
      BY <1>1, <1>4, <2>1, <3>1 DEF PlaceInv
  <2>3. MemoryInv(r)'
    BY <1>1, <1>4, MemoryStays DEF TypeInv
  <2> QED
    BY <1>1, <1>2, <1>4, <2>2, <2>3, TypeStep DEF ChangesAt
<1> QED
  BY <1>3, <1>4 DEF OpenFile

(* A tensor is read ahead when it fits in what is left, or alone.          *)
LEMMA PrefetchType == ASSUME IInv, TypeInv, NEW r \in Ranks, Prefetch(r) PROVE TypeInv'
<1> DEFINE p == Fqns(r)[next[r]]
           read == [fqn |-> p, state |-> "queued"]
<1>1. /\ Writing(r) /\ writing[r] = None /\ next[r] <= Len(Fqns(r))
      /\ pending' = [pending EXCEPT ![r] = Append(@, read)]
      /\ avail' = [avail EXCEPT ![r] = @ - plan.bytes[p]]
      /\ next' = [next EXCEPT ![r] = @ + 1]
      /\ UNCHANGED <<K, plan, pc, arrived, todo, writing, made>>
      /\ pending[r] = <<>> \/ plan.bytes[p] <= avail[r]
  BY DEF Prefetch, CanPrefetch, Admits, disk
<1>2. /\ todo[r] # <<>> /\ Fqns(r) \in Seq(Names) /\ Len(Fqns(r)) \in Nat /\ plan.members # {}
      /\ next[r] \in 1 .. Len(Fqns(r)) /\ pc[r] = "write"
  <2>1. /\ todo[r] # <<>> /\ Fqns(r) \in Seq(Names) /\ Len(Fqns(r)) \in Nat /\ plan.members # {}
        /\ \E n \in Nat : ReadFrom(pending[r], Fqns(r), n + 1, next[r])
    BY <1>1, AtFile
  <2>2. \A n \in Nat : n + 1 \in Nat \ {0}
    OBVIOUS
  <2>3. next[r] \in Nat \ {0}
    BY <2>1, <2>2, ReadsPositive
  <2> QED
    BY <1>1, <2>1, <2>3 DEF Writing
<1>3. p \in Names /\ plan.bytes[p] \in Nat
  BY <1>2, SizesType, ElementOfSeq
<1>4. read \in Reads /\ Cost(plan.bytes, read) = plan.bytes[p]
  BY <1>3 DEF Reads, Reading, Cost
<1> HIDE DEF read
<1>5. /\ pending'[r] = Append(pending[r], read) /\ avail'[r] = avail[r] - plan.bytes[p]
      /\ next'[r] = next[r] + 1
  BY <1>1 DEF IInv, ShapeInv, TypeInv, OnRanks
<1>6. /\ MemoryInv(r) /\ pending[r] \in Seq(Reads) /\ avail[r] \in Int
      /\ Budget = avail[r] + Bytes(Outstanding(r))
  BY <1>2 DEF TypeInv, MemoryInv
<1> HIDE DEF p
<1>7. /\ Total(plan.bytes, pending[r]) \in Nat /\ Budget = avail[r] + Total(plan.bytes, pending[r])
      /\ Len(pending[r]) \in Nat
  BY <1>1, <1>2, <1>3, <1>6, HeldBefore DEF Held
<1> DEFINE more == Append(pending[r], read)
<1>8. /\ more \in Seq(Reads) /\ Len(more) = Len(pending[r]) + 1
      /\ Total(plan.bytes, more) = Total(plan.bytes, pending[r]) + plan.bytes[p]
  <2>1. more \in Seq(Reads) /\ Len(more) = Len(pending[r]) + 1
    BY <1>4, <1>6
  <2>2. plan.bytes \in [Names -> Nat]
    BY <1>2, SizesType
  <2>3. Total(plan.bytes, more) = Total(plan.bytes, pending[r]) + Cost(plan.bytes, read)
    BY <1>4, <1>6, <2>2, TotalAppend
  <2> QED
    BY <1>4, <2>1, <2>3
<1> HIDE DEF more
<1>9. /\ Budget = avail'[r] + Total(plan.bytes, more) /\ avail'[r] \in Int
      /\ Len(more) <= 1 \/ Total(plan.bytes, more) <= Budget
  <2> DEFINE size == plan.bytes[p]
             before == Total(plan.bytes, pending[r])
             after == Total(plan.bytes, more)
             left == avail[r]
  <2>1. pending[r] = <<>> => Len(more) <= 1
    BY <1>8
  <2>2. /\ size \in Nat /\ before \in Nat /\ left \in Int /\ after = before + size
        /\ Budget = left + before /\ avail'[r] = left - size
    BY <1>3, <1>5, <1>6, <1>7, <1>8
  <2>3. pending[r] = <<>> \/ size <= left
    BY <1>1
  <2> HIDE DEF size, before, after, left
  <2>4. Budget = avail'[r] + after /\ avail'[r] \in Int
    BY <2>2
  <2>5. size <= left => after <= Budget
    BY <2>2
  <2> QED
    BY <2>1, <2>3, <2>4, <2>5 DEF after
<1>10. Held(more, None) = Total(plan.bytes, more) /\ Count(more, None) = Len(more)
  <2>1. Total(plan.bytes, more) \in Nat /\ Len(more) \in Nat
    BY <1>3, <1>7, <1>8
  <2> QED
    BY <2>1 DEF Held, Count
<1>11. MemoryInv(r)'
  BY <1>1, <1>2, <1>5, <1>8, <1>9, <1>10, HeldAfter DEF more
<1>12. PlaceInv(r)'
  <2>1. next[r] + 1 <= Len(Fqns(r)) + 1 /\ Fqns(r)' = Fqns(r)
    BY <1>1, <1>2 DEF Fqns
  <2> QED
    BY <1>1, <1>2, <1>5, <2>1 DEF PlaceInv, TypeInv
<1>13. made' \in BOOLEAN /\ \A b \in Barriers : arrived'[b] \subseteq plan.members
  BY <1>1 DEF TypeInv
<1> QED
  BY <1>1, <1>11, <1>12, <1>13, TypeStep DEF ChangesAt

(* The oldest read becomes the tensor that is written, or ends the file.   *)
LEMMA TakeType == ASSUME IInv, TypeInv, NEW r \in Ranks, Take(r) PROVE TypeInv'
<1> DEFINE read == Head(pending[r])
           rest == Tail(pending[r])
<1>1. /\ Writing(r) /\ writing[r] = None /\ pending[r] # <<>>
      /\ pending' = [pending EXCEPT ![r] = rest]
      /\ UNCHANGED <<K, plan, arrived, todo, next, made>>
      /\ \/ /\ read.state = "ok" /\ writing' = [writing EXCEPT ![r] = read.fqn]
            /\ UNCHANGED <<pc, avail>>
         \/ /\ read.state = "bad" /\ pc' = [pc EXCEPT ![r] = "unwind"]
            /\ avail' = [avail EXCEPT ![r] = @ + plan.bytes[read.fqn]]
            /\ UNCHANGED writing
  BY DEF Take, Goto, disk
<1>2. pc[r] = "write" /\ plan.members # {} /\ todo[r] # <<>>
  BY <1>1, AtFile DEF Writing
<1>3. /\ MemoryInv(r) /\ PlaceInv(r) /\ pending[r] \in Seq(Reads) /\ avail[r] \in Int
      /\ Budget = avail[r] + Bytes(Outstanding(r))
      /\ Len(Outstanding(r)) <= 1 \/ Bytes(Outstanding(r)) <= Budget
  BY <1>2 DEF TypeInv, MemoryInv
<1>4. /\ read \in Reads /\ rest \in Seq(Reads) /\ Len(rest) \in Nat /\ Len(pending[r]) = Len(rest) + 1
      /\ Total(plan.bytes, pending[r]) = Cost(plan.bytes, read) + Total(plan.bytes, rest)
      /\ Total(plan.bytes, rest) \in Nat
  <2>1. read \in Reads /\ rest \in Seq(Reads)
    BY <1>1, <1>2, <1>3, SizesType, TotalTail
  <2>2. Len(rest) \in Nat /\ Len(pending[r]) = Len(rest) + 1
    BY <1>1, <1>3
  <2>3. Total(plan.bytes, pending[r]) = Cost(plan.bytes, read) + Total(plan.bytes, rest)
    BY <1>1, <1>2, <1>3, SizesType, TotalTail
  <2> QED
    BY <1>2, <2>1, <2>2, <2>3, SizesType, TotalType
<1>5. read.fqn \in Names /\ plan.bytes[read.fqn] \in Nat
  BY <1>2, <1>4, SizesType DEF Reads
<1>6. Bytes(Outstanding(r)) = Total(plan.bytes, pending[r]) /\ Len(Outstanding(r)) = Len(pending[r])
  <2>1. /\ Bytes(Outstanding(r)) = Held(pending[r], None) /\ Len(Outstanding(r)) = Count(pending[r], None)
        /\ Total(plan.bytes, pending[r]) \in Nat /\ Len(pending[r]) \in Nat
    BY <1>1, <1>2, <1>3, HeldBefore
  <2> QED
    BY <2>1 DEF Held, Count
<1>7. pending'[r] = rest
  BY <1>1 DEF IInv, ShapeInv, OnRanks
<1>8. made' \in BOOLEAN /\ \A b \in Barriers : arrived'[b] \subseteq plan.members
  BY <1>1 DEF TypeInv
<1>9. Fqns(r)' = Fqns(r)
  BY <1>1 DEF Fqns
<1>10. None \notin Names
  BY <1>2, SizesType
<1> HIDE DEF read, rest
<1>11. CASE read.state = "ok" /\ writing' = [writing EXCEPT ![r] = read.fqn] /\ UNCHANGED <<pc, avail>>
  <2>1. writing'[r] = read.fqn /\ read.fqn # None
    BY <1>5, <1>10, <1>11 DEF IInv, ShapeInv, OnRanks
  <2>2. Cost(plan.bytes, read) = plan.bytes[read.fqn]
    BY <1>11 DEF Cost
  <2>3. Held(rest, read.fqn) = Bytes(Outstanding(r)) /\ Count(rest, read.fqn) = Len(Outstanding(r))
    BY <1>4, <1>5, <1>6, <2>1, <2>2 DEF Held, Count
  <2>4. MemoryInv(r)'
    BY <1>1, <1>2, <1>3, <1>4, <1>5, <1>7, <1>11, <2>1, <2>3, HeldAfter
  <2>5. PlaceInv(r)'
    BY <1>1, <1>2, <1>3, <1>9, <1>11 DEF PlaceInv
  <2> QED
    BY <1>1, <1>8, <1>11, <2>4, <2>5, TypeStep DEF ChangesAt
<1>12. CASE /\ pc' = [pc EXCEPT ![r] = "unwind"]
            /\ avail' = [avail EXCEPT ![r] = @ + plan.bytes[read.fqn]]
            /\ UNCHANGED writing
  <2>1. /\ pc'[r] = "unwind" /\ avail'[r] = avail[r] + plan.bytes[read.fqn] /\ avail'[r] \in Int
        /\ writing'[r] = None
    BY <1>1, <1>3, <1>5, <1>12 DEF IInv, ShapeInv, TypeInv, OnRanks
  <2>2. Cost(plan.bytes, read) \in Nat
    BY <1>5 DEF Cost
  <2>3. Held(rest, None) = Total(plan.bytes, rest) /\ Count(rest, None) = Len(rest)
    BY <1>4 DEF Held, Count
  <2>4. Count(rest, None) <= 1 \/ Held(rest, None) <= Budget
    BY <1>2, <1>3, <1>4, <1>6, <2>2, <2>3, SizesType
  <2>5. MemoryInv(r)'
    BY <1>1, <1>2, <1>4, <1>7, <2>1, <2>4, HeldAfter
  <2>6. PlaceInv(r)'
    BY <1>1, <1>2, <1>3, <1>9, <2>1 DEF PlaceInv
  <2> QED
    BY <1>1, <1>8, <1>12, <2>5, <2>6, TypeStep DEF ChangesAt
<1> QED
  BY <1>1, <1>11, <1>12 DEF read

(* A tensor that has been written, or could not be, gives its memory back. *)
LEMMA WriteType == ASSUME IInv, TypeInv, NEW r \in Ranks, Write(r) PROVE TypeInv'
<1> DEFINE p == writing[r]
<1>1. /\ Writing(r) /\ p # None
      /\ writing' = [writing EXCEPT ![r] = None]
      /\ avail' = [avail EXCEPT ![r] = @ + plan.bytes[p]]
      /\ UNCHANGED <<K, plan, arrived, todo, next, pending, made>>
      /\ pc' = pc \/ pc' = [pc EXCEPT ![r] = "unwind"]
  BY DEF Write, Goto
<1>2. pc[r] = "write" /\ plan.members # {} /\ todo[r] # <<>>
  BY <1>1, AtFile DEF Writing
<1>3. /\ MemoryInv(r) /\ PlaceInv(r) /\ pending[r] \in Seq(Reads) /\ avail[r] \in Int
      /\ Budget = avail[r] + Bytes(Outstanding(r))
      /\ Len(Outstanding(r)) <= 1 \/ Bytes(Outstanding(r)) <= Budget
  BY <1>2 DEF TypeInv, MemoryInv
<1>4. /\ Bytes(Outstanding(r)) = Held(pending[r], p) /\ Len(Outstanding(r)) = Count(pending[r], p)
      /\ Total(plan.bytes, pending[r]) \in Nat /\ Len(pending[r]) \in Nat
      /\ plan.bytes[p] \in Nat
  BY <1>1, <1>2, <1>3, HeldBefore
<1>5. /\ writing'[r] = None /\ avail'[r] = avail[r] + plan.bytes[p] /\ pending'[r] = pending[r]
      /\ avail'[r] \in Int /\ pc'[r] \in {"write", "unwind"}
  BY <1>1, <1>2, <1>3, <1>4 DEF IInv, ShapeInv, TypeInv, OnRanks
<1> HIDE DEF p
<1>6. /\ Held(pending[r], p) = Total(plan.bytes, pending[r]) + plan.bytes[p]
      /\ Count(pending[r], p) = Len(pending[r]) + 1
      /\ Held(pending[r], None) = Total(plan.bytes, pending[r])
      /\ Count(pending[r], None) = Len(pending[r])
  BY <1>1, <1>4 DEF Held, Count
<1>7. /\ Budget = avail'[r] + Held(pending[r], None)
      /\ Count(pending[r], None) <= 1 \/ Held(pending[r], None) <= Budget
  BY <1>2, <1>3, <1>4, <1>5, <1>6, SizesType
<1>8. MemoryInv(r)'
  BY <1>1, <1>2, <1>3, <1>5, <1>7, HeldAfter
<1>9. PlaceInv(r)'
  <2>1. Fqns(r)' = Fqns(r)
    BY <1>1 DEF Fqns
  <2> QED
    BY <1>1, <1>2, <1>3, <1>5, <2>1 DEF PlaceInv
<1>10. made' \in BOOLEAN /\ \A b \in Barriers : arrived'[b] \subseteq plan.members
  BY <1>1 DEF TypeInv
<1> QED
  BY <1>1, <1>8, <1>9, <1>10, TypeStep DEF ChangesAt

LEMMA RenameType == ASSUME IInv, TypeInv, NEW r \in Ranks, Rename(r) PROVE TypeInv'
<1>1. /\ pc[r] = "write" /\ writing[r] = None
      /\ UNCHANGED <<K, plan, arrived, pending, writing, avail, made>>
      /\ \/ /\ todo' = [todo EXCEPT ![r] = Tail(@)] /\ next' = [next EXCEPT ![r] = 0]
            /\ UNCHANGED pc
         \/ pc' = [pc EXCEPT ![r] = "unwind"] /\ UNCHANGED <<todo, next>>
  BY DEF Rename, Writing, Goto
<1>2. MemoryInv(r) /\ PlaceInv(r)
  BY DEF TypeInv
<1>3. /\ made' \in BOOLEAN /\ \A b \in Barriers : arrived'[b] \subseteq plan.members
      /\ ChangesAt(r, pending, pending') /\ ChangesAt(r, writing, writing')
      /\ ChangesAt(r, avail, avail')
  BY <1>1 DEF TypeInv, ChangesAt
<1>4. MemoryInv(r)'
  BY <1>1, <1>2, MemoryStays
<1>5. CASE /\ todo' = [todo EXCEPT ![r] = Tail(@)] /\ next' = [next EXCEPT ![r] = 0]
           /\ UNCHANGED pc
  <2>1. next'[r] = 0 /\ writing'[r] = None
    BY <1>1, <1>5 DEF IInv, ShapeInv, OnRanks
  <2>2. PlaceInv(r)'
    BY <1>1, <1>5, <2>1 DEF PlaceInv
  <2>3. ChangesAt(r, pc, pc') /\ ChangesAt(r, todo, todo') /\ ChangesAt(r, next, next')
    BY <1>5 DEF ChangesAt
  <2> QED
    BY <1>1, <1>3, <1>4, <2>2, <2>3, TypeStep
<1>6. CASE pc' = [pc EXCEPT ![r] = "unwind"] /\ UNCHANGED <<todo, next>>
  <2>1. pc'[r] = "unwind" /\ Fqns(r)' = Fqns(r)
    BY <1>1, <1>6 DEF IInv, ShapeInv, OnRanks, Fqns
  <2>2. PlaceInv(r)'
    BY <1>1, <1>2, <1>6, <2>1 DEF PlaceInv
  <2>3. ChangesAt(r, pc, pc') /\ ChangesAt(r, todo, todo') /\ ChangesAt(r, next, next')
    BY <1>6 DEF ChangesAt
  <2> QED
    BY <1>1, <1>3, <1>4, <2>2, <2>3, TypeStep
<1> QED
  BY <1>1, <1>5, <1>6

(* Reads that change their state cost what they did, or nothing.           *)
LEMMA NoMoreHeld ==
  ASSUME IInv, NEW r \in Ranks, MemoryInv(r), plan.members # {}, UNCHANGED <<K, plan>>,
         NEW reads \in Seq(Reads), Len(reads) = Len(pending[r]),
         \A n \in 1 .. Len(reads) : Cost(plan.bytes, reads[n]) <= Cost(plan.bytes, pending[r][n]),
         pending'[r] = reads, writing'[r] = writing[r], avail'[r] \in Int,
         \/ pc'[r] \in {"unwind", "raised", "crashed"}
         \/ /\ pc'[r] = pc[r] /\ avail'[r] = avail[r]
            /\ \A n \in 1 .. Len(reads) : Cost(plan.bytes, pending[r][n]) <= Cost(plan.bytes, reads[n])
  PROVE  MemoryInv(r)'
<1> DEFINE p == writing[r]
<1>1. pending[r] \in Seq(Reads) /\ p \in Names \union {None} /\ plan.bytes \in [Names -> Nat]
  BY SizesType DEF MemoryInv
<1>2. /\ Bytes(Outstanding(r)) = Held(pending[r], p) /\ Len(Outstanding(r)) = Count(pending[r], p)
      /\ Total(plan.bytes, pending[r]) \in Nat /\ Len(pending[r]) \in Nat
      /\ p # None => plan.bytes[p] \in Nat
  BY HeldBefore
<1>3. Total(plan.bytes, reads) \in Nat /\ Total(plan.bytes, reads) <= Total(plan.bytes, pending[r])
  BY <1>1, TotalType, TotalCompare
<1>4. ASSUME \A n \in 1 .. Len(reads) : Cost(plan.bytes, pending[r][n]) <= Cost(plan.bytes, reads[n])
      PROVE  Total(plan.bytes, reads) = Total(plan.bytes, pending[r])
  <2>1. Total(plan.bytes, pending[r]) <= Total(plan.bytes, reads)
    BY <1>1, <1>4, TotalCompare
  <2> QED
    BY <1>2, <1>3, <2>1
<1> HIDE DEF p
<1>5. /\ Count(reads, p) = Count(pending[r], p) /\ Held(reads, p) <= Held(pending[r], p)
      /\ Total(plan.bytes, reads) = Total(plan.bytes, pending[r]) => Held(reads, p) = Held(pending[r], p)
      /\ Held(reads, p) \in Nat /\ Held(pending[r], p) \in Nat
  <2>1. CASE p = None
    BY <1>2, <1>3, <2>1 DEF Held, Count
  <2>2. CASE p # None
    BY <1>2, <1>3, <2>2 DEF Held, Count
  <2> QED
    BY <2>1, <2>2
<1>6. Count(reads, p) <= 1 \/ Held(reads, p) <= Budget
  BY <1>2, <1>5, SizesType DEF MemoryInv
<1>7. pc'[r] \notin {"unwind", "raised", "crashed"} => Budget = avail'[r] + Held(reads, p)
  BY <1>2, <1>4, <1>5 DEF MemoryInv
<1> QED
  BY <1>1, <1>6, <1>7, HeldAfter DEF p

LEMMA UnwindType == ASSUME IInv, TypeInv, NEW r \in Ranks, CancelReads(r) \/ Unwind(r) PROVE TypeInv'
<1>1. pc[r] = "unwind" /\ r \in plan.members
  BY DEF CancelReads, Unwind, IInv, RankInv, Terminal
<1>2. MemoryInv(r) /\ PlaceInv(r) /\ pending[r] \in Seq(Reads) /\ writing[r] = None
  BY <1>1 DEF TypeInv, MemoryInv, PlaceInv
<1>3. Budget \in Nat /\ plan.bytes \in [Names -> Nat]
  BY <1>1, SizesType
<1>4. UNCHANGED <<K, plan, arrived, todo, writing, made>>
  BY DEF CancelReads, Unwind, disk
<1>5. made' \in BOOLEAN /\ \A b \in Barriers : arrived'[b] \subseteq plan.members
  BY <1>4 DEF TypeInv
<1>6. CASE CancelReads(r)
  <2> DEFINE reads == [n \in DOMAIN pending[r] |-> Cancel(pending[r][n])]
  <2>1. /\ pending' = [pending EXCEPT ![r] = reads] /\ avail' = [avail EXCEPT ![r] = Budget]
        /\ UNCHANGED <<pc, next>>
    BY <1>6 DEF CancelReads
  <2>2. pending'[r] = reads /\ avail'[r] = Budget /\ avail'[r] \in Int
    BY <1>3, <2>1 DEF IInv, ShapeInv, TypeInv, OnRanks
  <2>3. \A read \in Reads : /\ Cancel(read) \in Reads
                            /\ Cost(plan.bytes, Cancel(read)) <= Cost(plan.bytes, read)
    BY <1>3 DEF Cancel, Reads, Reading, Cost
  <2>4. /\ DOMAIN pending[r] = 1 .. Len(pending[r]) /\ Len(pending[r]) \in Nat
        /\ \A n \in 1 .. Len(pending[r]) : pending[r][n] \in Reads
    BY <1>2, ElementOfSeq
  <2>5. /\ reads \in Seq(Reads) /\ Len(reads) = Len(pending[r])
        /\ \A n \in 1 .. Len(reads) : reads[n] = Cancel(pending[r][n])
    BY <2>3, <2>4
  <2> HIDE DEF reads
  <2>6. \A n \in 1 .. Len(reads) : Cost(plan.bytes, reads[n]) <= Cost(plan.bytes, pending[r][n])
    BY <2>3, <2>4, <2>5
  <2>7. MemoryInv(r)'
    BY <1>1, <1>2, <1>4, <2>1, <2>2, <2>5, <2>6, NoMoreHeld
  <2>8. PlaceInv(r)'
    BY <1>1, <1>2, <1>4, <2>1 DEF PlaceInv, Fqns
  <2> QED
    BY <1>4, <1>5, <2>1, <2>7, <2>8, TypeStep DEF ChangesAt
<1>7. CASE Unwind(r)
  <2>1. /\ pc' = [pc EXCEPT ![r] = "raised"] /\ pending' = [pending EXCEPT ![r] = <<>>]
        /\ next' = [next EXCEPT ![r] = 0] /\ UNCHANGED avail /\ avail[r] = Budget
    BY <1>7 DEF Unwind, Goto
  <2>2. pc'[r] = "raised" /\ pending'[r] = <<>> /\ next'[r] = 0 /\ writing'[r] = None
    BY <1>2, <1>4, <2>1 DEF IInv, ShapeInv, OnRanks
  <2>3. Count(<<>>, None) <= 1
    BY DEF Count
  <2>4. /\ <<>> \in Seq(Reads) /\ None \in Names \union {None} /\ Budget \in Int
        /\ avail'[r] = Budget /\ plan.members # {} /\ K' = K /\ plan' = plan
    BY <1>1, <1>3, <1>4, <2>1
  <2>5. MemoryInv(r)'
    BY <2>2, <2>3, <2>4, HeldAfter
  <2>6. PlaceInv(r)'
    BY <2>2 DEF PlaceInv, Terminal
  <2> QED
    BY <1>4, <1>5, <2>1, <2>5, <2>6, TypeStep DEF ChangesAt
<1> QED
  BY <1>6, <1>7

LEMMA ReaderType == ASSUME IInv, TypeInv, NEW r \in Ranks, Reader(r) PROVE TypeInv'
<1>1. PICK j \in DOMAIN pending[r] : BeginRead(r, j) \/ EndRead(r, j)
  BY DEF Reader
<1> DEFINE old == pending[r]
<1>2. PICK s \in Reading \ {"cancelled"} :
        /\ pending' = [pending EXCEPT ![r] = [old EXCEPT ![j].state = s]]
        /\ UNCHANGED <<K, plan, pc, arrived, todo, next, writing, avail, made>>
        /\ old[j].state # "cancelled"
  BY <1>1 DEF BeginRead, EndRead, SetState, Reading, disk
<1> DEFINE reads == [old EXCEPT ![j].state = s]
<1>3. MemoryInv(r) /\ PlaceInv(r) /\ old \in Seq(Reads) /\ old # <<>> /\ avail[r] \in Int
  BY <1>1 DEF TypeInv, MemoryInv
<1>4. plan.members # {} /\ plan.bytes \in [Names -> Nat]
  BY <1>3, SizesType DEF MemoryInv
<1>5. pending'[r] = reads
  BY <1>2 DEF IInv, ShapeInv, OnRanks
<1>6. Len(old) \in Nat /\ DOMAIN old = 1 .. Len(old) /\ \A n \in 1 .. Len(old) : old[n] \in Reads
  BY <1>3, ElementOfSeq
<1> HIDE DEF old
<1>7. [old[j] EXCEPT !.state = s] = [fqn |-> old[j].fqn, state |-> s]
  BY <1>1, <1>6 DEF Reads, old
<1>8. [fqn |-> old[j].fqn, state |-> s] \in Reads
  BY <1>1, <1>6 DEF Reads, old
<1>9. /\ reads \in Seq(Reads) /\ Len(reads) = Len(old)
      /\ \A n \in 1 .. Len(old) : reads[n] = IF n = j THEN [fqn |-> old[j].fqn, state |-> s] ELSE old[n]
  BY <1>1, <1>3, <1>6, <1>7, <1>8, ExceptSeq DEF old
<1> HIDE DEF reads
<1>10. \A n \in 1 .. Len(reads) : Cost(plan.bytes, reads[n]) = Cost(plan.bytes, old[n])
  BY <1>2, <1>9 DEF Cost
<1>11. \A n \in 1 .. Len(reads) : Cost(plan.bytes, old[n]) \in Nat
  <2>1. \A read \in Reads : Cost(plan.bytes, read) \in Nat
    BY <1>4 DEF Cost, Reads
  <2> QED
    BY <1>6, <1>9, <2>1
<1>12. \A n \in 1 .. Len(reads) : /\ Cost(plan.bytes, reads[n]) <= Cost(plan.bytes, old[n])
                                  /\ Cost(plan.bytes, old[n]) <= Cost(plan.bytes, reads[n])
  BY <1>10, <1>11
<1>13. MemoryInv(r)'
  BY <1>2, <1>3, <1>4, <1>5, <1>9, <1>12, NoMoreHeld DEF old
<1>14. PlaceInv(r)'
  BY <1>2, <1>3 DEF PlaceInv, Fqns
<1>15. made' \in BOOLEAN /\ \A b \in Barriers : arrived'[b] \subseteq plan.members
  BY <1>2 DEF TypeInv
<1> QED
  BY <1>2, <1>13, <1>14, <1>15, TypeStep DEF ChangesAt

LEMMA CrashType == ASSUME IInv, TypeInv, NEW r \in Ranks, Crash(r) PROVE TypeInv'
<1>1. /\ pc' = [pc EXCEPT ![r] = "crashed"] /\ pending' = [pending EXCEPT ![r] = <<>>]
      /\ UNCHANGED <<K, plan, arrived, todo, next, writing, avail, made>> /\ pc[r] \notin Terminal
  BY DEF Crash, Goto, disk
<1>2. pc'[r] = "crashed" /\ pending'[r] = <<>>
  BY <1>1 DEF IInv, ShapeInv, OnRanks
<1>3. MemoryInv(r) /\ PlaceInv(r)
  BY DEF TypeInv
<1>4. MemoryInv(r)'
  <2>1. Names' = Names /\ Reads' = Reads
    BY <1>1 DEF Names, Reads
  <2>2. Len(OutOf(<<>>, writing[r])) <= 1
    BY DEF OutOf
  <2>3. Outstanding(r)' = OutOf(<<>>, writing[r])
    BY <1>1, <1>2 DEF Outstanding, OutOf
  <2>4. <<>> \in Seq(Reads)
    OBVIOUS
  <2> QED
    BY <1>1, <1>2, <1>3, <2>1, <2>2, <2>3, <2>4 DEF MemoryInv
<1>5. PlaceInv(r)'
  BY <1>1, <1>2, <1>3 DEF PlaceInv, Fqns, Terminal
<1>6. made' \in BOOLEAN /\ \A b \in Barriers : arrived'[b] \subseteq plan.members
  BY <1>1 DEF TypeInv
<1> QED
  BY <1>1, <1>4, <1>5, <1>6, TypeStep DEF ChangesAt
-----------------------------------------------------------------------------
LEMMA InitType == Init /\ PlanRight => TypeInv
<1>1. SUFFICES ASSUME Init, PlanRight PROVE TypeInv
  OBVIOUS
<1>2. /\ pc = [r \in Ranks |-> "start"] /\ arrived = [b \in Barriers |-> {}] /\ made = FALSE
      /\ next = [r \in Ranks |-> 0] /\ pending = [r \in Ranks |-> <<>>]
      /\ writing = [r \in Ranks |-> None] /\ avail = [r \in Ranks |-> Budget]
  BY <1>1 DEF Init
<1>3. OnRanks(avail) /\ made \in BOOLEAN /\ \A b \in Barriers : arrived[b] \subseteq plan.members
  BY <1>2 DEF OnRanks
<1>4. ASSUME NEW r \in Ranks PROVE MemoryInv(r) /\ PlaceInv(r)
  <2>1. /\ pc[r] = "start" /\ next[r] = 0 /\ pending[r] = <<>> /\ writing[r] = None
        /\ avail[r] = Budget
    BY <1>2
  <2>2. Outstanding(r) = <<>> /\ Budget \in Nat
    BY <2>1, ConsolidationAssumption DEF Outstanding
  <2>3. Bytes(Outstanding(r)) = 0
    <3>1. Total(plan.bytes, <<>>) = 0
      BY TotalOfNothing
    <3> QED
      BY <2>2, <3>1 DEF Bytes
  <2>4. <<>> \in Seq(Reads)
    OBVIOUS
  <2> QED
    BY <2>1, <2>2, <2>3, <2>4 DEF MemoryInv, PlaceInv
<1> QED
  BY <1>3, <1>4 DEF TypeInv

LEMMA NextType == ASSUME IInv, TypeInv, [Next]_vars PROVE TypeInv'
<1>1. ASSUME NEW r \in Ranks, Rank(r) PROVE TypeInv'
  BY <1>1, MovesType, OpenFileType, PrefetchType, TakeType, WriteType, RenameType, UnwindType
     DEF Rank
<1>2. ASSUME NEW r \in Ranks, TimeOut(r) \/ TimeOutEarly(r) \/ StorageFails(r) PROVE TypeInv'
  BY <1>2, MovesType
<1>3. CASE UNCHANGED vars
  <2>1. UNCHANGED <<K, plan, pc, arrived, todo, next, pending, writing, avail, made>>
    BY <1>3 DEF vars, pipeline, disk
  <2>2. \A r \in Ranks : MemoryInv(r)'
    <3>1. ASSUME NEW r \in Ranks PROVE MemoryInv(r)'
      <4>1. Outstanding(r)' = Outstanding(r) /\ Names' = Names
        BY <2>1 DEF Outstanding, Names
      <4>2. Bytes(Outstanding(r))' = Bytes(Outstanding(r)) /\ Reads' = Reads
        BY <2>1, <4>1 DEF Bytes, Reads
      <4> QED
        BY <2>1, <4>1, <4>2 DEF TypeInv, MemoryInv
    <3> QED
      BY <3>1
  <2>3. \A r \in Ranks : PlaceInv(r)'
    BY <2>1 DEF TypeInv, PlaceInv, Fqns
  <2>4. Ranks' = Ranks /\ OnRanks(avail)'
    BY <2>1 DEF TypeInv, OnRanks, Ranks
  <2> QED
    BY <2>1, <2>2, <2>3, <2>4 DEF TypeInv
<1> QED
  BY <1>1, <1>2, <1>3, ReaderType, CrashType DEF Next

(* The types: no rank opens a file that it does not have to write, or      *)
(* reads past its end, and what is outstanding and what is left of the     *)
(* budget add up until an error ends the export on that rank.              *)
THEOREM ExportTypeCorrect == Spec /\ PlanRight => []TypeOK
<1>1. IInv /\ TypeInv => TypeOK
  <2>1. SUFFICES ASSUME IInv, TypeInv PROVE TypeOK
    OBVIOUS
  <2>2. PlanSound /\ DOMAIN pc = Ranks
    BY <2>1 DEF IInv, PlanRight, ShapeInv, OnRanks
  <2>3. ASSUME NEW r \in Ranks, NEW n \in DOMAIN pending[r]
        PROVE  pending[r][n].state \in Reading
    <3>1. pending[r] \in Seq(Reads)
      BY <2>1 DEF TypeInv, MemoryInv
    <3>2. n \in 1 .. Len(pending[r])
      BY <2>3, <3>1
    <3>3. pending[r][n] \in Reads
      BY <3>1, <3>2, ElementOfSeq
    <3> QED
      BY <3>3 DEF Reads
  <2>4. ASSUME NEW r \in Ranks
        PROVE  /\ PlaceInv(r)
               /\ pc[r] \in {"write", "publish", "returned"} =>
                    Budget = avail[r] + Bytes(Outstanding(r))
    BY <2>1 DEF TypeInv, MemoryInv
  <2> QED
    BY <2>1, <2>2, <2>3, <2>4 DEF TypeOK, PlaceInv, TypeInv, Fqns
<1> QED
  BY <1>1, InitWhole, NextKeeps, InitType, NextType, PTL DEF Spec

(* Whatever the ranks do and whichever of them fail, are slow or crash:    *)
(* the tensors a rank has in memory stay within its budget, but for a      *)
(* single one that is larger than it all.                                  *)
THEOREM ExportReadAheadBounded == Spec /\ PlanRight => []ReadAheadBounded
<1>1. TypeInv => ReadAheadBounded
  BY DEF TypeInv, MemoryInv, ReadAheadBounded
<1> QED
  BY <1>1, InitWhole, NextKeeps, InitType, NextType, PTL DEF Spec
=============================================================================
