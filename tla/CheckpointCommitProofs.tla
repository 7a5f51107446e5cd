----------------------- MODULE CheckpointCommitProofs -----------------------
(***************************************************************************)
(* Theorems about CheckpointCommit, for every number of ranks, of          *)
(* checkpoints, of runs of the job, every sequence of world sizes and      *)
(* every set of faults.                                                    *)
(*                                                                         *)
(* The argument: in a run of the job all ranks start at one path, so a     *)
(* sequence number stands for the same path on all of them, and the store  *)
(* counts the ranks that have reached the barrier of that path             *)
(* (BarrierInv).  The last member therefore checks in when all have, which *)
(* gives BarrierMeets.  A rank that has reached the barrier has its file   *)
(* complete, in the temporary directory (FilesInv), so what rank 0 renames *)
(* is complete, and no rank has a file open in it.  A directory that does  *)
(* not exist has no files (DirsInv), so rank 0, which does not rename a    *)
(* directory that is not there, skips the rename only if the run has no    *)
(* files.  All this needs that no trainer goes on after an error           *)
(* (NoRetry): a retry breaks the counting.                                 *)
(* What rank 0 wrote itself needs no counting: with retries, the metadata  *)
(* and the file of rank 0 are still complete in what it renames (IndexInv).*)
(***************************************************************************)
EXTENDS CheckpointCommit, FiniteSetTheorems, TLAPS

AtWork == {"open", "file", "meta", "metafile", "ready", "wait", "commit"}
Before == {"idle", "open", "file", "meta", "metafile", "ready"}

(* No rank passes more barriers than it has paths and retries.             *)
Position ==
  \A r \in Ranks :
    /\ pc[r] \in AtWork => at[r] \in Paths
    /\ pc[r] \in Before \union {"wait"} => seq[r] <= at[r] - 1 + retries[r]
    /\ pc[r] \in {"commit", "failed"} => seq[r] <= at[r] + retries[r]

TInv == TypeOK /\ Position

(* Who is in the world, who writes the metadata, who has a file open.      *)
Shape ==
  \A r \in Ranks :
    /\ r \in World(epoch) <=> pc[r] # "out"
    /\ pc[r] \in {"meta", "metafile"} => r = 0
    /\ pc[r] \in {"file", "metafile"} <=> fd[r] # "none"

(* No key of a generation to come is in the store.                         *)
Fresh ==
  \A e \in Epochs : e > epoch =>
    checkin[e] = {} /\ \A s \in Seqs : arrivals[e][s] = 0

ReachedInv ==
  \A r \in Ranks :
    /\ \A x \in reached[r] : x <= at[r]
    /\ pc[r] \in Before => at[r] \notin reached[r]
    /\ pc[r] \in {"wait", "commit"} => at[r] \in reached[r]

Arrived(p) == {r \in World(epoch) : p \in reached[r]}

(* The run of the job began with path p.                                   *)
CountedFrom(p) ==
  /\ \A r \in World(epoch) :
       /\ pc[r] \in Before \union {"wait"} => at[r] = p + seq[r]
       /\ pc[r] = "commit" => at[r] = p + seq[r] - 1 /\ seq[r] - 1 \in checkin[epoch]
  /\ \A s \in Seqs : arrivals[epoch][s] = Cardinality(Arrived(p + s))
  /\ \A s \in checkin[epoch] : Arrived(p + s) = World(epoch)

BarrierInv == WorldSize[epoch] # 1 => \E p \in 1 .. (MaxPaths + 1) : CountedFrom(p)

FilesInv ==
  /\ \A r \in Ranks : fd[r] # "final"
  /\ \A r \in World(epoch) \intersect files :
       /\ pc[r] \in {"meta", "metafile", "ready"} => tmp[at[r]][r] = epoch
       /\ \A x \in reached[r] : final[x][r] # 0 \/ tmp[x][r] = epoch
  /\ pc[0] \in {"ready", "wait", "commit"} /\ Meta \in files => tmp[at[0]][Meta] = epoch
  /\ NeverHalfWritten

IInv ==
  /\ TInv /\ Shape /\ Fresh
  /\ NoRetry => ReachedInv /\ BarrierInv /\ FilesInv
-----------------------------------------------------------------------------
(* Types *)

LEMMA InitTInv == Init => TInv
<1> SUFFICES ASSUME Init PROVE TInv
  OBVIOUS
<1> USE CommitAssumption
<1>1. TypeOK
  BY DEF Init, TypeOK, Epochs, Paths, Seqs, Files, NoFiles, Contents, Pcs, Ranks, World
<1>2. Position
  BY DEF Init, Position, AtWork, Before, Paths, World, Ranks
<1>3. QED
  BY <1>1, <1>2 DEF TInv

(* What a step of a rank changes is in its type. *)
LEMMA OpenType ==
  ASSUME TInv, NEW r \in Ranks, NEW f \in Files, NEW l \in Pcs,
         pc[r] \in AtWork, Open(r, f, l)
  PROVE  /\ pc' \in [Ranks -> Pcs]
         /\ tmp' \in [Paths -> [Files -> Contents]]
         /\ fd' \in [Ranks -> {"none", "tmp", "final"}]
         /\ pc' = [pc EXCEPT ![r] = l] \/ pc' = [pc EXCEPT ![r] = "failed"]
<1>1. at[r] \in Paths /\ -epoch \in Contents
  BY CommitAssumption DEF TInv, TypeOK, Position, Contents, Epochs
<1>2. CASE Goto(r, l) /\ tmp' = [tmp EXCEPT ![at[r]][f] = -epoch]
             /\ fd' = [fd EXCEPT ![r] = "tmp"]
  BY <1>1, <1>2 DEF Goto, TInv, TypeOK
<1>3. CASE Goto(r, "failed") /\ UNCHANGED <<tmp, fd>>
  BY <1>3 DEF Goto, TInv, TypeOK, Pcs
<1>4. QED
  BY <1>2, <1>3 DEF Open

LEMMA CloseType ==
  ASSUME TInv, NEW r \in Ranks, NEW f \in Files, pc[r] \in AtWork, Close(r, f)
  PROVE  /\ tmp' \in [Paths -> [Files -> Contents]]
         /\ final' \in [Paths -> [Files -> Contents]]
         /\ fd' \in [Ranks -> {"none", "tmp", "final"}]
<1>1. at[r] \in Paths /\ epoch \in Contents
  BY CommitAssumption DEF TInv, TypeOK, Position, Contents, Epochs
<1>2. QED
  BY <1>1 DEF Close, TInv, TypeOK

LEMMA PublishType ==
  ASSUME TInv, NEW p \in Paths, Publish(p)
  PROVE  /\ tmpDir' \in SUBSET Paths
         /\ finalDir' \in SUBSET Paths
         /\ tmp' \in [Paths -> [Files -> Contents]]
         /\ final' \in [Paths -> [Files -> Contents]]
         /\ fd' \in [Ranks -> {"none", "tmp", "final"}]
<1>1. NoFiles \in [Files -> Contents]
  BY CommitAssumption DEF NoFiles, Contents
<1>2. QED
  BY <1>1 DEF Publish, TInv, TypeOK

LEMMA ArriveType ==
  ASSUME TInv, NEW s \in Seqs, Arrive(epoch, s)
  PROVE  /\ arrivals' \in [Epochs -> [Seqs -> Nat]]
         /\ checkin' \in [Epochs -> SUBSET Seqs]
BY DEF Arrive, TInv, TypeOK

LEMMA StepTInv == TInv /\ [Next]_vars => TInv'
<1> SUFFICES ASSUME TInv, [Next]_vars PROVE TInv'
  OBVIOUS
<1> USE CommitAssumption
<1> USE DEF TInv
<1>f. /\ Meta \in Files /\ Ranks \subseteq Files
      /\ \A r \in Ranks : pc[r] \in AtWork => at[r] \in Paths
  BY DEF Meta, Files, Ranks, Position
<1>1. ASSUME NEW r \in Ranks, BeginWrite(r) PROVE TInv'
  <2>1. at[r] \in Paths
    BY <1>1 DEF BeginWrite, TypeOK, Paths
  <2>2. pc' \in [Ranks -> Pcs] /\ tmpDir' \in SUBSET Paths
    BY <1>1, <2>1 DEF BeginWrite, Goto, TypeOK, Pcs, AfterKeys
  <2>3. TypeOK'
    BY <1>1, <2>2 DEF BeginWrite, TypeOK, storeVars
  <2>4. Position'
    BY <1>1, <2>1 DEF BeginWrite, Goto, AfterKeys, TypeOK, Position, AtWork, Before, storeVars
  <2>5. QED
    BY <2>3, <2>4
<1>2. ASSUME NEW r \in Ranks, OpenFile(r) PROVE TInv'
  <2>1. pc[r] = "open" /\ Open(r, r, "file")
    BY <1>2 DEF OpenFile
  <2>2. /\ pc' \in [Ranks -> Pcs]
        /\ tmp' \in [Paths -> [Files -> Contents]]
        /\ fd' \in [Ranks -> {"none", "tmp", "final"}]
        /\ pc' = [pc EXCEPT ![r] = "file"] \/ pc' = [pc EXCEPT ![r] = "failed"]
    BY <2>1, <1>f, OpenType DEF AtWork, Pcs
  <2>3. TypeOK'
    BY <1>2, <2>2 DEF OpenFile, TypeOK, storeVars
  <2>4. Position'
    <3>1. UNCHANGED <<at, seq, retries>> /\ seq[r] <= at[r] + retries[r]
      BY <1>2, <2>1 DEF OpenFile, TypeOK, Position, Before, Seqs
    <3>2. CASE pc' = [pc EXCEPT ![r] = "file"]
      BY <2>1, <3>1, <3>2 DEF TypeOK, Position, AtWork, Before
    <3>3. CASE pc' = [pc EXCEPT ![r] = "failed"]
      BY <3>1, <3>3 DEF TypeOK, Position, AtWork, Before
    <3>4. QED
      BY <2>2, <3>2, <3>3
  <2>5. QED
    BY <2>3, <2>4
<1>3. ASSUME NEW r \in Ranks, EndFile(r) PROVE TInv'
  <2>1. pc[r] = "file" /\ Close(r, r)
    BY <1>3 DEF EndFile
  <2>2. /\ tmp' \in [Paths -> [Files -> Contents]]
        /\ final' \in [Paths -> [Files -> Contents]]
        /\ fd' \in [Ranks -> {"none", "tmp", "final"}]
    BY <2>1, <1>f, CloseType DEF AtWork
  <2>3. pc' \in [Ranks -> Pcs] /\ UNCHANGED <<tmpDir, finalDir>>
    BY <1>3, <2>1 DEF EndFile, Goto, AfterKeys, TypeOK, Pcs, Close
  <2>4. TypeOK'
    BY <1>3, <2>2, <2>3 DEF EndFile, TypeOK, storeVars
  <2>5. Position'
    BY <1>3 DEF EndFile, Goto, AfterKeys, TypeOK, Position, AtWork, Before
  <2>6. QED
    BY <2>4, <2>5
<1>4. ASSUME NEW r \in Ranks, OpenMeta(r) PROVE TInv'
  <2>1. pc[r] = "meta" /\ Open(r, Meta, "metafile")
    BY <1>4 DEF OpenMeta
  <2>2. /\ pc' \in [Ranks -> Pcs]
        /\ tmp' \in [Paths -> [Files -> Contents]]
        /\ fd' \in [Ranks -> {"none", "tmp", "final"}]
        /\ pc' = [pc EXCEPT ![r] = "metafile"] \/ pc' = [pc EXCEPT ![r] = "failed"]
    BY <2>1, <1>f, OpenType DEF AtWork, Pcs
  <2>3. TypeOK'
    BY <1>4, <2>2 DEF OpenMeta, TypeOK, storeVars
  <2>4. Position'
    <3>1. UNCHANGED <<at, seq, retries>> /\ seq[r] <= at[r] + retries[r]
      BY <1>4, <2>1 DEF OpenMeta, TypeOK, Position, Before, Seqs
    <3>2. CASE pc' = [pc EXCEPT ![r] = "metafile"]
      BY <2>1, <3>1, <3>2 DEF TypeOK, Position, AtWork, Before
    <3>3. CASE pc' = [pc EXCEPT ![r] = "failed"]
      BY <3>1, <3>3 DEF TypeOK, Position, AtWork, Before
    <3>4. QED
      BY <2>2, <3>2, <3>3
  <2>5. QED
    BY <2>3, <2>4
<1>5. ASSUME NEW r \in Ranks, EndMeta(r) PROVE TInv'
  <2>1. pc[r] = "metafile" /\ Close(r, Meta)
    BY <1>5 DEF EndMeta
  <2>2. /\ tmp' \in [Paths -> [Files -> Contents]]
        /\ final' \in [Paths -> [Files -> Contents]]
        /\ fd' \in [Ranks -> {"none", "tmp", "final"}]
    BY <2>1, <1>f, CloseType DEF AtWork
  <2>3. pc' \in [Ranks -> Pcs] /\ UNCHANGED <<tmpDir, finalDir>>
    BY <1>5, <2>1 DEF EndMeta, Goto, TypeOK, Pcs, Close
  <2>4. TypeOK'
    BY <1>5, <2>2, <2>3 DEF EndMeta, TypeOK, storeVars
  <2>5. Position'
    BY <1>5 DEF EndMeta, Goto, TypeOK, Position, AtWork, Before
  <2>6. QED
    BY <2>4, <2>5
<1>6. ASSUME NEW r \in Ranks, BarrierArrive(r) PROVE TInv'
  <2>1. /\ arrivals' \in [Epochs -> [Seqs -> Nat]]
        /\ checkin' \in [Epochs -> SUBSET Seqs]
    BY <1>6, ArriveType DEF BarrierArrive, TypeOK, storeVars, Generation
  <2>2. pc[r] = "ready" /\ at[r] \in Paths
    BY <1>6, <1>f DEF BarrierArrive, AtWork
  <2>3. \E l \in {"wait", "commit"} : pc' = [pc EXCEPT ![r] = l]
    BY <1>6 DEF BarrierArrive, Goto
  <2>4. pc' \in [Ranks -> Pcs]
    BY <2>3 DEF TypeOK, Pcs
  <2>5. reached' \in [Ranks -> SUBSET Paths]
    BY <1>6, <2>2 DEF BarrierArrive, TypeOK
  <2>6. TypeOK'
    BY <1>6, <2>1, <2>4, <2>5 DEF BarrierArrive, TypeOK, diskVars
  <2>7. Position'
    <3>1. /\ UNCHANGED <<at, seq, retries>>
          /\ seq[r] <= at[r] - 1 + retries[r] /\ seq[r] <= at[r] + retries[r]
      BY <1>6 DEF BarrierArrive, TypeOK, Position, Before, Seqs
    <3>2. CASE pc' = [pc EXCEPT ![r] = "wait"]
      BY <2>2, <3>1, <3>2 DEF TypeOK, Position, AtWork, Before
    <3>3. CASE pc' = [pc EXCEPT ![r] = "commit"]
      BY <2>2, <3>1, <3>3 DEF TypeOK, Position, AtWork, Before
    <3>4. QED
      BY <2>3, <3>2, <3>3
  <2>8. QED
    BY <2>6, <2>7
<1>7. ASSUME NEW r \in Ranks, BarrierPass(r) PROVE TInv'
  <2>1. seq[r] + 1 <= at[r] + retries[r] /\ at[r] \in Paths
    BY <1>7 DEF BarrierPass, TypeOK, Position, AtWork, Before, Paths, Seqs
  <2>2. pc' \in [Ranks -> Pcs]
    BY <1>7 DEF BarrierPass, Goto, TypeOK, Pcs
  <2>3. seq' \in [Ranks -> Seqs]
    <3>1. seq[r] \in Nat /\ at[r] <= MaxPaths /\ retries[r] \in 0 .. MaxRetries
      BY <2>1 DEF TypeOK, Paths, Seqs
    <3>2. seq[r] + 1 \in Seqs
      BY <2>1, <3>1 DEF Seqs, Paths
    <3>3. QED
      BY <1>7, <3>2 DEF BarrierPass, TypeOK
  <2>4. TypeOK'
    BY <1>7, <2>2, <2>3 DEF BarrierPass, TypeOK, storeVars, diskVars
  <2>5. Position'
    BY <1>7, <2>1 DEF BarrierPass, Goto, TypeOK, Position, AtWork, Before
  <2>6. QED
    BY <2>4, <2>5
<1>8. ASSUME NEW r \in Ranks, Commit(r) PROVE TInv'
  <2>1. at[r] \in Paths /\ pc[r] = "commit" /\ seq[r] <= at[r] + retries[r]
    BY <1>8 DEF Commit, Position, AtWork
  <2>2. /\ tmpDir' \in SUBSET Paths
        /\ finalDir' \in SUBSET Paths
        /\ tmp' \in [Paths -> [Files -> Contents]]
        /\ final' \in [Paths -> [Files -> Contents]]
        /\ fd' \in [Ranks -> {"none", "tmp", "final"}]
    <3>1. CASE Publish(at[r])
      BY <3>1, <2>1, PublishType
    <3>2. CASE UNCHANGED <<diskVars, fd>>
      BY <3>2 DEF diskVars, TypeOK
    <3>3. QED
      BY <1>8, <3>1, <3>2 DEF Commit
  <2>3. \/ /\ pc' = [pc EXCEPT ![r] = "idle"]
           /\ at' = [at EXCEPT ![r] = @ + 1]
           /\ saved' = [saved EXCEPT ![r] = @ \union {at[r]}]
        \/ /\ pc' = [pc EXCEPT ![r] = "failed"]
           /\ UNCHANGED <<at, saved>>
    BY <1>8 DEF Commit, Return, Goto
  <2>4. /\ pc' \in [Ranks -> Pcs]
        /\ at' \in [Ranks -> 1 .. (MaxPaths + 1)]
        /\ saved' \in [Ranks -> SUBSET Paths]
    <3>1. at[r] + 1 \in 1 .. (MaxPaths + 1)
      BY <2>1 DEF Paths
    <3>2. CASE /\ pc' = [pc EXCEPT ![r] = "idle"]
               /\ at' = [at EXCEPT ![r] = @ + 1]
               /\ saved' = [saved EXCEPT ![r] = @ \union {at[r]}]
      BY <2>1, <3>1, <3>2 DEF TypeOK, Pcs
    <3>3. CASE pc' = [pc EXCEPT ![r] = "failed"] /\ UNCHANGED <<at, saved>>
      BY <3>3 DEF TypeOK, Pcs
    <3>4. QED
      BY <2>3, <3>2, <3>3
  <2>5. TypeOK'
    BY <1>8, <2>2, <2>4 DEF Commit, TypeOK, storeVars
  <2>6. Position'
    <3>1. seq[r] <= (at[r] + 1) - 1 + retries[r] /\ UNCHANGED <<seq, retries>>
      BY <1>8, <2>1 DEF Commit, TypeOK, Seqs, Paths
    <3>2. CASE /\ pc' = [pc EXCEPT ![r] = "idle"]
               /\ at' = [at EXCEPT ![r] = @ + 1]
      BY <3>1, <3>2 DEF TypeOK, Position, AtWork, Before
    <3>3. CASE pc' = [pc EXCEPT ![r] = "failed"] /\ UNCHANGED at
      BY <2>1, <3>1, <3>3 DEF TypeOK, Position, AtWork, Before
    <3>4. QED
      BY <2>3, <3>2, <3>3
  <2>7. QED
    BY <2>5, <2>6
<1>9. ASSUME NEW r \in Ranks, BarrierTimeout(r) \/ WriteFails(r) \/ Die(r) PROVE TInv'
  <2>1. /\ \/ pc' = [pc EXCEPT ![r] = "dead"]
           \/ /\ pc' = [pc EXCEPT ![r] = "failed"]
              /\ pc[r] \in {"wait", "file", "metafile"}
        /\ fd' = fd \/ fd' = [fd EXCEPT ![r] = "none"]
        /\ UNCHANGED <<files, epoch, at, seq, retries, arrivals, checkin, tmpDir,
                       finalDir, tmp, final, reached, saved>>
    BY <1>9 DEF BarrierTimeout, WriteFails, Die, Goto, storeVars, diskVars, TypeOK
  <2>2. pc' \in [Ranks -> Pcs] /\ fd' \in [Ranks -> {"none", "tmp", "final"}]
    <3>1. pc' \in [Ranks -> Pcs]
      BY <2>1 DEF TypeOK, Pcs
    <3>2. fd' \in [Ranks -> {"none", "tmp", "final"}]
      BY <2>1 DEF TypeOK
    <3>3. QED
      BY <3>1, <3>2
  <2>3. TypeOK'
    BY <2>1, <2>2 DEF TypeOK
  <2>4. Position'
    <3>1. CASE pc' = [pc EXCEPT ![r] = "dead"]
      BY <2>1, <3>1 DEF TypeOK, Position, AtWork, Before
    <3>2. CASE /\ pc' = [pc EXCEPT ![r] = "failed"]
               /\ pc[r] \in {"wait", "file", "metafile"}
      <4>1. seq[r] <= at[r] - 1 + retries[r] /\ at[r] \in Paths
        BY <3>2 DEF Position, Before, AtWork
      <4>2. seq[r] \in Int /\ at[r] \in Int /\ retries[r] \in Int
        BY DEF TypeOK, Seqs
      <4>3. seq[r] <= at[r] + retries[r]
        BY <4>1, <4>2
      <4>4. pc'[r] = "failed" /\ \A q \in Ranks : q # r => pc'[q] = pc[q]
        BY <3>2 DEF TypeOK
      <4>5. QED
        BY <2>1, <4>3, <4>4 DEF Position, AtWork, Before
    <3>3. QED
      BY <2>1, <3>1, <3>2
  <2>5. QED
    BY <2>3, <2>4
<1>10. ASSUME NEW r \in Ranks, Retry(r) PROVE TInv'
  <2>1. PICK p \in {at[r], at[r] + 1} \intersect (1 .. (MaxPaths + 1)) :
          at' = [at EXCEPT ![r] = p]
    BY <1>10 DEF Retry
  <2>2. /\ pc' \in [Ranks -> Pcs]
        /\ at' \in [Ranks -> 1 .. (MaxPaths + 1)]
        /\ retries' \in [Ranks -> 0 .. MaxRetries]
    BY <1>10, <2>1 DEF Retry, Goto, TypeOK, Pcs
  <2>3. TypeOK'
    BY <1>10, <2>2 DEF Retry, TypeOK, storeVars, diskVars
  <2>4. seq[r] <= at[r] + retries[r] /\ p >= at[r]
    BY <1>10, <2>1 DEF Retry, TypeOK, Position
  <2>5. seq[r] <= p - 1 + (retries[r] + 1)
    BY <2>1, <2>4 DEF TypeOK, Seqs
  <2>6. Position'
    BY <1>10, <2>1, <2>5 DEF Retry, Goto, TypeOK, Position, AtWork, Before
  <2>7. QED
    BY <2>3, <2>6
<1>11. ASSUME NEW p \in 1 .. (MaxPaths + 1), Restart(p) PROVE TInv'
  <2>1. epoch' \in Epochs
    BY <1>11 DEF Restart, TypeOK, Epochs
  <2>2. /\ pc' \in [Ranks -> Pcs]
        /\ at' \in [Ranks -> 1 .. (MaxPaths + 1)]
        /\ seq' \in [Ranks -> Seqs]
        /\ fd' \in [Ranks -> {"none", "tmp", "final"}]
        /\ reached' \in [Ranks -> SUBSET Paths]
    BY <1>11 DEF Restart, Pcs, Seqs
  <2>3. TypeOK'
    BY <1>11, <2>1, <2>2 DEF Restart, TypeOK, storeVars, diskVars
  <2>4. Position'
    BY <1>11 DEF Restart, TypeOK, Position, AtWork, Before
  <2>5. QED
    BY <2>3, <2>4
<1>12. CASE UNCHANGED vars
  BY <1>12 DEF vars, storeVars, diskVars, TypeOK, Position
<1>13. QED
  BY <1>1, <1>2, <1>3, <1>4, <1>5, <1>6, <1>7, <1>8, <1>9, <1>10, <1>11, <1>12
     DEF Next, WriterSteps

(* The type invariant; in particular no rank ever passes more barriers     *)
(* than it has checkpoints to save and errors to retry.                    *)
THEOREM CommitTypeCorrect == Spec => []TypeOK
<1>1. Spec => []TInv
  BY InitTInv, StepTInv, PTL DEF Spec
<1>2. TInv => TypeOK
  BY DEF TInv
<1>3. QED
  BY <1>1, <1>2, PTL
-----------------------------------------------------------------------------
(* The ranks of a run *)

LEMMA ZeroIsRank == 0 \in Ranks /\ \A e \in Epochs : 0 \in World(e) /\ World(e) \subseteq Ranks
BY CommitAssumption DEF Ranks, World

LEMMA WorldFinite ==
  \A e \in Epochs : IsFiniteSet(World(e)) /\ Cardinality(World(e)) = WorldSize[e]
<1>1. SUFFICES ASSUME NEW e \in Epochs
               PROVE  IsFiniteSet(World(e)) /\ Cardinality(World(e)) = WorldSize[e]
  OBVIOUS
<1> DEFINE b == WorldSize[e] - 1
<1>2. b \in Int /\ 0 \in Int /\ ~(0 > b) /\ b - 0 + 1 = WorldSize[e]
  BY CommitAssumption
<1> HIDE DEF b
<1>3. /\ IsFiniteSet(0 .. b)
      /\ Cardinality(0 .. b) = IF 0 > b THEN 0 ELSE b - 0 + 1
  BY <1>2, FS_Interval, Zenon
<1>4. World(e) = 0 .. b
  BY DEF World, b
<1>5. QED
  BY <1>2, <1>3, <1>4
-----------------------------------------------------------------------------
(* The world, the open files and the generations *)

LEMMA InitShape == Init => Shape /\ Fresh
<1> SUFFICES ASSUME Init PROVE Shape /\ Fresh
  OBVIOUS
<1> USE CommitAssumption
<1>1. Shape
  BY DEF Init, Shape
<1>2. Fresh
  BY DEF Init, Fresh
<1>3. QED
  BY <1>1, <1>2

LEMMA StepShape == TInv /\ Shape /\ [Next]_vars => Shape'
<1> SUFFICES ASSUME TInv, Shape, [Next]_vars PROVE Shape'
  OBVIOUS
<1> USE DEF TInv
<1>1. ASSUME NEW r \in Ranks, BeginWrite(r) PROVE Shape'
  <2>1. /\ UNCHANGED <<epoch, fd>> /\ pc[r] = "idle"
        /\ \E l \in {"open", "meta", "ready"} :
             pc' = [pc EXCEPT ![r] = l] /\ (l = "meta" => r = 0)
    BY <1>1 DEF BeginWrite, Goto, AfterKeys
  <2>2. QED
    BY <2>1 DEF Shape, TypeOK
<1>2. ASSUME NEW r \in Ranks, NEW f \in Files, NEW l \in {"file", "metafile"},
             Open(r, f, l), pc[r] \in {"open", "meta"}, l = "metafile" => r = 0,
             epoch' = epoch
      PROVE  Shape'
  <2>1. CASE pc' = [pc EXCEPT ![r] = l] /\ fd' = [fd EXCEPT ![r] = "tmp"]
    BY <1>2, <2>1 DEF Shape, TypeOK
  <2>2. CASE pc' = [pc EXCEPT ![r] = "failed"] /\ fd' = fd
    BY <1>2, <2>2 DEF Shape, TypeOK
  <2>3. QED
    BY <1>2, <2>1, <2>2 DEF Open, Goto
<1>3. ASSUME NEW r \in Ranks, EndFile(r) \/ EndMeta(r) PROVE Shape'
  <2>1. /\ epoch' = epoch /\ pc[r] \in {"file", "metafile"}
        /\ fd' = [fd EXCEPT ![r] = "none"]
        /\ \E l \in {"meta", "ready"} : pc' = [pc EXCEPT ![r] = l] /\ (l = "meta" => r = 0)
    BY <1>3 DEF EndFile, EndMeta, Goto, Close, AfterKeys
  <2>2. QED
    BY <2>1 DEF Shape, TypeOK
<1>4. ASSUME NEW r \in Ranks, BarrierArrive(r) \/ BarrierPass(r) PROVE Shape'
  <2>1. /\ UNCHANGED <<epoch, fd>> /\ pc[r] \in {"ready", "wait"}
        /\ \E l \in {"wait", "commit"} : pc' = [pc EXCEPT ![r] = l]
    BY <1>4 DEF BarrierArrive, BarrierPass, Goto
  <2>2. QED
    BY <2>1 DEF Shape, TypeOK
<1>5. ASSUME NEW r \in Ranks, Commit(r) PROVE Shape'
  <2>1. /\ epoch' = epoch /\ pc[r] = "commit"
        /\ \E l \in {"idle", "failed"} : pc' = [pc EXCEPT ![r] = l]
    BY <1>5 DEF Commit, Return, Goto
  <2>2. \A q \in Ranks : fd'[q] # "none" <=> fd[q] # "none"
    BY <1>5 DEF Commit, Publish
  <2>3. QED
    BY <2>1, <2>2 DEF Shape, TypeOK
<1>6. ASSUME NEW r \in Ranks, BarrierTimeout(r) \/ WriteFails(r) \/ Die(r) PROVE Shape'
  <2>1. /\ epoch' = epoch /\ pc[r] # "out"
        /\ \E l \in {"dead", "failed"} : pc' = [pc EXCEPT ![r] = l]
        /\ fd' = [fd EXCEPT ![r] = "none"] \/ (fd' = fd /\ pc[r] = "wait")
    BY <1>6 DEF BarrierTimeout, WriteFails, Die, Goto
  <2>2. QED
    BY <2>1 DEF Shape, TypeOK
<1>7. ASSUME NEW r \in Ranks, Retry(r) PROVE Shape'
  <2>1. /\ UNCHANGED <<epoch, fd>> /\ pc[r] = "failed"
        /\ pc' = [pc EXCEPT ![r] = "idle"]
    BY <1>7 DEF Retry, Goto
  <2>2. QED
    BY <2>1 DEF Shape, TypeOK
<1>8. ASSUME NEW p \in 1 .. (MaxPaths + 1), Restart(p) PROVE Shape'
  BY <1>8 DEF Restart, Shape
<1>9. CASE UNCHANGED vars
  BY <1>9 DEF vars, Shape
<1>10. ASSUME NEW r \in Ranks, OpenFile(r) PROVE Shape'
  <2>1. r \in Files /\ pc[r] = "open" /\ Open(r, r, "file") /\ epoch' = epoch
    BY <1>10, CommitAssumption DEF OpenFile, Files, Ranks
  <2>2. QED
    BY <2>1, <1>2
<1>11. ASSUME NEW r \in Ranks, OpenMeta(r) PROVE Shape'
  <2>1. /\ Meta \in Files /\ pc[r] = "meta" /\ Open(r, Meta, "metafile") /\ epoch' = epoch
        /\ r = 0
    BY <1>11, CommitAssumption DEF OpenMeta, Files, Meta, Shape
  <2>2. QED
    BY <2>1, <1>2
<1>12. QED
  BY <1>1, <1>3, <1>4, <1>5, <1>6, <1>7, <1>8, <1>9, <1>10, <1>11 DEF Next, WriterSteps

LEMMA StepFresh == TInv /\ Fresh /\ [Next]_vars => Fresh'
<1> SUFFICES ASSUME TInv, Fresh, [Next]_vars PROVE Fresh'
  OBVIOUS
<1>1. ASSUME NEW r \in Ranks, BarrierArrive(r) PROVE Fresh'
  <2>1. CASE UNCHANGED <<epoch, storeVars>>
    BY <2>1 DEF Fresh, storeVars
  <2>2. CASE Arrive(epoch, seq[r]) /\ epoch' = epoch
    <3>1. \A e \in Epochs : e # epoch => arrivals'[e] = arrivals[e] /\ checkin'[e] = checkin[e]
      BY <2>2 DEF Arrive, TInv, TypeOK
    <3>2. \A e \in Epochs : e > epoch => e # epoch
      BY DEF TInv, TypeOK, Epochs
    <3>3. QED
      BY <2>2, <3>1, <3>2 DEF Fresh
  <2>3. QED
    BY <1>1, <2>1, <2>2 DEF BarrierArrive, Generation
<1>2. ASSUME NEW r \in Ranks, BeginWrite(r) \/ OpenFile(r) \/ EndFile(r) \/ OpenMeta(r)
                                \/ EndMeta(r) \/ BarrierPass(r) \/ Commit(r)
      PROVE  UNCHANGED <<epoch, storeVars>>
  BY <1>2 DEF BeginWrite, OpenFile, EndFile, OpenMeta, EndMeta, BarrierPass, Commit
<1>3. ASSUME NEW r \in Ranks, BarrierTimeout(r) \/ WriteFails(r) \/ Die(r) \/ Retry(r)
      PROVE  UNCHANGED <<epoch, storeVars>>
  BY <1>3 DEF BarrierTimeout, WriteFails, Die, Retry
<1>4. ASSUME NEW p \in 1 .. (MaxPaths + 1), Restart(p) PROVE Fresh'
  BY <1>4, CommitAssumption DEF Restart, Fresh, storeVars, TInv, TypeOK, Epochs
<1>5. ASSUME UNCHANGED <<epoch, storeVars>> PROVE Fresh'
  BY <1>5 DEF Fresh, storeVars
<1>6. CASE UNCHANGED vars
  BY <1>5, <1>6 DEF vars
<1>7. QED
  BY <1>1, <1>2, <1>3, <1>4, <1>5, <1>6 DEF Next, WriterSteps
-----------------------------------------------------------------------------
(* The barrier *)

Counting == ReachedInv /\ BarrierInv

(* An error that was caught is never forgotten. *)
LEMMA NoRetryBefore == TInv /\ NoRetry' /\ [Next]_vars => NoRetry /\ retries' = retries
<1> SUFFICES ASSUME TInv, NoRetry', [Next]_vars PROVE NoRetry /\ retries' = retries
  OBVIOUS
<1>1. ASSUME NEW r \in Ranks, Retry(r) PROVE FALSE
  <2>1. retries'[r] = retries[r] + 1 /\ retries[r] >= 0
    BY <1>1, CommitAssumption DEF Retry, TInv, TypeOK
  <2>2. retries'[r] = 0
    BY DEF NoRetry
  <2>3. QED
    BY <2>1, <2>2, CommitAssumption DEF TInv, TypeOK
<1>2. ASSUME NEW r \in Ranks, BeginWrite(r) \/ OpenFile(r) \/ EndFile(r) \/ OpenMeta(r)
                                \/ EndMeta(r) \/ BarrierArrive(r) \/ BarrierPass(r)
                                \/ Commit(r) \/ BarrierTimeout(r) \/ WriteFails(r) \/ Die(r)
      PROVE  retries' = retries
  BY <1>2 DEF BeginWrite, OpenFile, EndFile, OpenMeta, EndMeta, BarrierArrive, BarrierPass,
              Commit, BarrierTimeout, WriteFails, Die
<1>3. ASSUME NEW p \in 1 .. (MaxPaths + 1), Restart(p) PROVE retries' = retries
  BY <1>3 DEF Restart
<1>4. retries' = retries
  BY <1>1, <1>2, <1>3 DEF Next, WriterSteps, vars
<1>5. QED
  BY <1>4 DEF NoRetry

(* A rank that goes on towards the barrier, or that fails, disturbs the    *)
(* counting of no one.                                                     *)
LEMMA QuietStep ==
  ASSUME TInv, Counting, NEW r \in Ranks, NEW l \in Pcs,
         \/ pc[r] \in Before /\ l \in Before
         \/ l \in {"failed", "dead"},
         pc' = [pc EXCEPT ![r] = l],
         UNCHANGED <<epoch, at, seq, arrivals, checkin, reached>>
  PROVE  Counting'
<1>1. ReachedInv'
  BY DEF Counting, ReachedInv, TInv, TypeOK, Before
<1>2. ASSUME NEW p \in 1 .. (MaxPaths + 1), CountedFrom(p) PROVE CountedFrom(p)'
  <2>1. World(epoch)' = World(epoch) /\ World(epoch) \subseteq Ranks
    BY ZeroIsRank DEF TInv, TypeOK, World
  <2>2. \A x : Arrived(x)' = Arrived(x)
    BY DEF Arrived, World
  <2>3. \A q \in World(epoch)' :
          /\ pc'[q] \in Before \union {"wait"} => at'[q] = p + seq'[q]
          /\ pc'[q] = "commit" => at'[q] = p + seq'[q] - 1 /\ seq'[q] - 1 \in checkin'[epoch']
    BY <1>2, <2>1 DEF CountedFrom, TInv, TypeOK, Before
  <2>4. QED
    BY <1>2, <2>1, <2>2, <2>3 DEF CountedFrom
<1>3. BarrierInv'
  BY <1>2 DEF Counting, BarrierInv
<1>4. QED
  BY <1>1, <1>3 DEF Counting

(* An arrival at the barrier of a path, which every rank has under the     *)
(* same sequence number, is counted for that path.                         *)
LEMMA ArriveStep ==
  ASSUME TInv, Shape, Counting, NEW r \in Ranks, BarrierArrive(r)
  PROVE  Counting'
<1>1. /\ pc[r] = "ready" /\ at[r] \in Paths
      /\ reached' = [reached EXCEPT ![r] = @ \union {at[r]}]
      /\ UNCHANGED <<epoch, at, seq>>
  BY DEF BarrierArrive, TInv, Position, AtWork
<1>2. at[r] \notin reached[r] /\ r \in World(epoch)
  BY <1>1 DEF Counting, ReachedInv, Before, Shape
<1>3. \E l \in {"wait", "commit"} : pc' = [pc EXCEPT ![r] = l]
  BY DEF BarrierArrive, Goto
<1>4. ReachedInv'
  <2>1. \A q \in Ranks : reached'[q] = IF q = r THEN reached[q] \union {at[q]} ELSE reached[q]
    BY <1>1 DEF TInv, TypeOK
  <2>2. at[r] <= at[r]
    BY <1>1 DEF Paths
  <2>3. QED
    BY <1>1, <1>3, <2>1, <2>2 DEF Counting, ReachedInv, TInv, TypeOK, Before
<1>5. ASSUME WorldSize[epoch] # 1, NEW p \in 1 .. (MaxPaths + 1), CountedFrom(p)
      PROVE  CountedFrom(p)'
  <2>1. World(epoch)' = World(epoch) /\ World(epoch) \subseteq Ranks
    BY <1>1, ZeroIsRank DEF TInv, TypeOK, World
  <2>2. /\ pc' = [pc EXCEPT ![r] = "wait"]
        /\ Arrive(epoch, seq[r])
    BY <1>5 DEF BarrierArrive, Goto, Generation
  <2>3. PICK k \in Seqs : k = seq[r] /\ at[r] = p + k
    BY <1>1, <1>2, <1>5 DEF CountedFrom, Before, TInv, TypeOK
  <2>4. /\ Arrived(p + k)' = Arrived(p + k) \union {r}
        /\ r \notin Arrived(p + k)
    BY <1>1, <1>2, <2>1, <2>3 DEF Arrived, TInv, TypeOK
  <2>5. \A s \in Seqs : s # k => Arrived(p + s)' = Arrived(p + s)
    <3>1. \A s \in Seqs : s # k => p + s # at[r]
      BY <2>3 DEF Seqs
    <3>2. \A x : x # at[r] => Arrived(x)' = Arrived(x)
      BY <1>1, <2>1 DEF Arrived, TInv, TypeOK
    <3>3. QED
      BY <3>1, <3>2
  <2>6. IsFiniteSet(World(epoch)) /\ Cardinality(World(epoch)) = WorldSize[epoch]
    BY WorldFinite DEF TInv, TypeOK
  <2>7. IsFiniteSet(Arrived(p + k))
    BY <2>6, FS_Subset DEF Arrived
  <2>8. Cardinality(Arrived(p + k)') = Cardinality(Arrived(p + k)) + 1
    BY <2>4, <2>7, FS_AddElement
  <2>9. \A s \in Seqs : arrivals'[epoch'][s] = Cardinality(Arrived(p + s)')
    <3>1. \A s \in Seqs : arrivals'[epoch'][s] = IF s = k THEN arrivals[epoch][s] + 1
                                                           ELSE arrivals[epoch][s]
      BY <1>1, <2>3, <2>2 DEF Arrive, TInv, TypeOK
    <3>2. \A s \in Seqs : arrivals[epoch][s] = Cardinality(Arrived(p + s))
      BY <1>5 DEF CountedFrom
    <3>3. ASSUME NEW s \in Seqs PROVE arrivals'[epoch'][s] = Cardinality(Arrived(p + s)')
      <4>1. CASE s = k
        <5>1. Cardinality(Arrived(p + s)') = Cardinality(Arrived(p + s)) + 1
          BY <2>8, <4>1, Zenon
        <5>2. arrivals'[epoch'][s] = arrivals[epoch][s] + 1
          BY <3>1, <4>1
        <5>3. QED
          BY <3>2, <5>1, <5>2, Zenon
      <4>2. CASE s # k
        BY <2>5, <3>1, <3>2, <4>2
      <4>3. QED
        BY <4>1, <4>2
    <3>4. QED
      BY <3>3
  <2>10. \A s \in checkin'[epoch'] : Arrived(p + s)' = World(epoch)'
    <3>1. \A s \in checkin[epoch] : s \in Seqs /\ Arrived(p + s) = World(epoch)
      BY <1>5 DEF CountedFrom, TInv, TypeOK
    <3>2. \A s \in checkin[epoch] : Arrived(p + s)' = World(epoch)
      <4>1. SUFFICES ASSUME NEW s \in checkin[epoch] PROVE Arrived(p + s)' = World(epoch)
        OBVIOUS
      <4>2. CASE s = k
        BY <1>2, <2>4, <3>1, <4>2
      <4>3. CASE s # k
        BY <2>5, <3>1, <4>3
      <4>4. QED
        BY <4>2, <4>3
    <3>3. CASE arrivals'[epoch][k] = WorldSize[epoch]
      <4>1. Cardinality(Arrived(p + k)') = Cardinality(World(epoch))
        BY <1>1, <2>3, <2>6, <2>9, <3>3
      <4>2. Arrived(p + k)' \subseteq World(epoch)
        BY <2>1 DEF Arrived
      <4>3. Arrived(p + k)' = World(epoch)
        BY <2>6, <4>1, <4>2, FS_Subset
      <4>4. checkin'[epoch] = checkin[epoch] \union {k}
        BY <2>3, <2>2, <3>3 DEF Arrive, TInv, TypeOK
      <4>5. QED
        BY <1>1, <2>1, <3>2, <4>3, <4>4
    <3>4. CASE arrivals'[epoch][k] # WorldSize[epoch]
      <4>1. checkin' = checkin
        BY <2>3, <2>2, <3>4 DEF Arrive
      <4>2. QED
        BY <1>1, <2>1, <3>2, <4>1
    <3>5. QED
      BY <3>3, <3>4
  <2>11. \A q \in World(epoch)' :
          /\ pc'[q] \in Before \union {"wait"} => at'[q] = p + seq'[q]
          /\ pc'[q] = "commit" => at'[q] = p + seq'[q] - 1 /\ seq'[q] - 1 \in checkin'[epoch']
    <3>1. checkin[epoch] \subseteq checkin'[epoch]
      BY <2>2 DEF Arrive, TInv, TypeOK
    <3>2. QED
      BY <1>1, <1>5, <2>1, <2>2, <3>1 DEF CountedFrom, Before, TInv, TypeOK
  <2>12. QED
    BY <2>1, <2>9, <2>10, <2>11 DEF CountedFrom
<1>6. BarrierInv'
  BY <1>1, <1>5 DEF Counting, BarrierInv
<1>7. QED
  BY <1>4, <1>6 DEF Counting

(* Passing a barrier and returning from the save keep a rank's sequence    *)
(* number in step with its path.                                           *)
LEMMA PassStep ==
  ASSUME TInv, Counting, NEW r \in Ranks, BarrierPass(r)
  PROVE  Counting'
<1>1. /\ pc[r] = "wait" /\ pc' = [pc EXCEPT ![r] = "commit"]
      /\ seq[r] \in checkin[epoch] /\ seq' = [seq EXCEPT ![r] = @ + 1]
      /\ UNCHANGED <<epoch, at, arrivals, checkin, reached>>
  BY DEF BarrierPass, Goto, Generation, storeVars
<1>2. ReachedInv'
  BY <1>1 DEF Counting, ReachedInv, TInv, TypeOK, Before
<1>3. ASSUME NEW p \in 1 .. (MaxPaths + 1), CountedFrom(p) PROVE CountedFrom(p)'
  <2>1. World(epoch)' = World(epoch) /\ World(epoch) \subseteq Ranks
    BY <1>1, ZeroIsRank DEF TInv, TypeOK, World
  <2>2. \A x : Arrived(x)' = Arrived(x)
    BY <1>1 DEF Arrived, World
  <2>3. ASSUME NEW q \in World(epoch), q = r
        PROVE  at'[q] = p + seq'[q] - 1 /\ seq'[q] - 1 \in checkin'[epoch']
    <3>1. at[r] = p + seq[r] /\ seq[r] \in Seqs /\ seq'[r] = seq[r] + 1
      BY <1>1, <1>3, <2>3 DEF CountedFrom, TInv, TypeOK
    <3>2. (seq[r] + 1) - 1 = seq[r] /\ p + (seq[r] + 1) - 1 = p + seq[r]
      BY <3>1 DEF Seqs
    <3>3. QED
      BY <1>1, <2>3, <3>1, <3>2
  <2>4. \A q \in World(epoch)' :
          /\ pc'[q] \in Before \union {"wait"} => at'[q] = p + seq'[q]
          /\ pc'[q] = "commit" => at'[q] = p + seq'[q] - 1 /\ seq'[q] - 1 \in checkin'[epoch']
    BY <1>1, <1>3, <2>1, <2>3 DEF CountedFrom, TInv, TypeOK, Before
  <2>5. QED
    BY <1>1, <1>3, <2>1, <2>2, <2>4 DEF CountedFrom
<1>4. BarrierInv'
  BY <1>1, <1>3 DEF Counting, BarrierInv
<1>5. QED
  BY <1>2, <1>4 DEF Counting

LEMMA ReturnStep ==
  ASSUME TInv, Counting, NEW r \in Ranks, pc[r] = "commit", Return(r),
         UNCHANGED <<epoch, seq, arrivals, checkin, reached>>
  PROVE  Counting'
<1>1. /\ pc' = [pc EXCEPT ![r] = "idle"] /\ at' = [at EXCEPT ![r] = @ + 1]
      /\ at[r] \in Paths
  BY DEF Return, Goto, TInv, Position, AtWork
<1>2. ReachedInv'
  <2>1. \A x \in reached[r] : x <= at[r] /\ x \in Paths
    BY DEF Counting, ReachedInv, TInv, TypeOK
  <2>2. \A x \in reached[r] : x <= at[r] + 1 /\ x # at[r] + 1
    BY <1>1, <2>1 DEF Paths
  <2>3. at'[r] = at[r] + 1 /\ \A q \in Ranks : q # r => at'[q] = at[q] /\ pc'[q] = pc[q]
    BY <1>1 DEF TInv, TypeOK
  <2>4. pc'[r] = "idle"
    BY <1>1 DEF TInv, TypeOK
  <2>5. QED
    BY <2>2, <2>3, <2>4 DEF Counting, ReachedInv, Before
<1>3. ASSUME NEW p \in 1 .. (MaxPaths + 1), CountedFrom(p) PROVE CountedFrom(p)'
  <2>1. World(epoch)' = World(epoch) /\ World(epoch) \subseteq Ranks
    BY <1>1, ZeroIsRank DEF TInv, TypeOK, World
  <2>2. \A x : Arrived(x)' = Arrived(x)
    BY <1>1 DEF Arrived, World
  <2>3. ASSUME NEW q \in World(epoch), q = r PROVE at'[q] = p + seq'[q]
    BY <1>1, <1>3, <2>3 DEF CountedFrom, TInv, TypeOK, Seqs, Paths
  <2>4. \A q \in World(epoch)' :
          /\ pc'[q] \in Before \union {"wait"} => at'[q] = p + seq'[q]
          /\ pc'[q] = "commit" => at'[q] = p + seq'[q] - 1 /\ seq'[q] - 1 \in checkin'[epoch']
    BY <1>1, <1>3, <2>1, <2>3 DEF CountedFrom, TInv, TypeOK, Before
  <2>5. QED
    BY <1>1, <1>3, <2>1, <2>2, <2>4 DEF CountedFrom
<1>4. BarrierInv'
  BY <1>1, <1>3 DEF Counting, BarrierInv
<1>5. QED
  BY <1>2, <1>4 DEF Counting

(* A new run of the job counts under a generation the store has no key of. *)
LEMMA RestartStep ==
  ASSUME TInv, Fresh, NEW p \in 1 .. (MaxPaths + 1), Restart(p)
  PROVE  Counting'
<1>1. /\ epoch' = epoch + 1 /\ epoch' \in Epochs /\ epoch' > epoch
      /\ at' = [q \in Ranks |-> p] /\ seq' = [q \in Ranks |-> 0]
      /\ reached' = [q \in Ranks |-> {}]
      /\ pc' = [q \in Ranks |-> IF q \in World(epoch + 1) THEN "idle" ELSE "out"]
      /\ UNCHANGED <<arrivals, checkin>>
  BY CommitAssumption DEF Restart, storeVars, TInv, TypeOK, Epochs
<1>2. ReachedInv'
  BY <1>1 DEF ReachedInv, Before
<1>3. World(epoch)' \subseteq Ranks
  BY <1>1, ZeroIsRank DEF World
<1>4. \A x : Arrived(x)' = {}
  BY <1>1, <1>3 DEF Arrived
<1>5. checkin'[epoch'] = {} /\ \A s \in Seqs : arrivals'[epoch'][s] = 0
  BY <1>1 DEF Fresh
<1>6. \A q \in World(epoch)' :
        /\ pc'[q] \in Before \union {"wait"} => at'[q] = p + seq'[q]
        /\ pc'[q] # "commit"
  BY <1>1, <1>3
<1>7. CountedFrom(p)'
  BY <1>4, <1>5, <1>6, FS_EmptySet DEF CountedFrom
<1>8. QED
  BY <1>2, <1>7 DEF Counting, BarrierInv

LEMMA InitCounting == Init => Counting
<1> SUFFICES ASSUME Init PROVE Counting
  OBVIOUS
<1>1. ReachedInv
  BY DEF Init, ReachedInv
<1>2. World(epoch) \subseteq Ranks /\ 1 \in 1 .. (MaxPaths + 1) /\ epoch \in Epochs
  BY CommitAssumption, ZeroIsRank DEF Init, Epochs
<1>3. \A x : Arrived(x) = {}
  BY <1>2 DEF Init, Arrived
<1>4. CountedFrom(1)
  <2>1. \A q \in World(epoch) : pc[q] # "commit" /\ at[q] = 1 + seq[q]
    BY <1>2 DEF Init
  <2>2. checkin[epoch] = {} /\ \A s \in Seqs : arrivals[epoch][s] = 0
    BY <1>2 DEF Init
  <2>3. QED
    BY <1>3, <2>1, <2>2, FS_EmptySet DEF CountedFrom
<1>5. QED
  BY <1>1, <1>2, <1>4 DEF Counting, BarrierInv

LEMMA StepCounting ==
  ASSUME TInv, Shape, Fresh, Counting, NoRetry', [Next]_vars
  PROVE  Counting'
<1>1. ASSUME NEW r \in Ranks, BeginWrite(r) \/ OpenFile(r) \/ EndFile(r) \/ OpenMeta(r)
                                \/ EndMeta(r)
      PROVE  Counting'
  <2>1. /\ UNCHANGED <<epoch, at, seq, arrivals, checkin, reached>>
        /\ pc[r] \in Before
        /\ \E l \in (Before \union {"failed"}) \ {"idle"} : pc' = [pc EXCEPT ![r] = l]
    BY <1>1 DEF BeginWrite, OpenFile, EndFile, OpenMeta, EndMeta, Open, Goto, AfterKeys,
                storeVars, Before
  <2>2. QED
    BY <2>1, QuietStep DEF Before, Pcs
<1>2. ASSUME NEW r \in Ranks, BarrierTimeout(r) \/ WriteFails(r) \/ Die(r)
      PROVE  Counting'
  <2>1. /\ UNCHANGED <<epoch, at, seq, arrivals, checkin, reached>>
        /\ \E l \in {"failed", "dead"} : pc' = [pc EXCEPT ![r] = l]
    BY <1>2 DEF BarrierTimeout, WriteFails, Die, Goto, storeVars
  <2>2. QED
    BY <2>1, QuietStep DEF Pcs
<1>3. ASSUME NEW r \in Ranks, Commit(r) PROVE Counting'
  <2>1. UNCHANGED <<epoch, seq, arrivals, checkin, reached>> /\ pc[r] = "commit"
    BY <1>3 DEF Commit, storeVars
  <2>2. CASE Return(r)
    BY <2>1, <2>2, ReturnStep
  <2>3. CASE pc' = [pc EXCEPT ![r] = "failed"] /\ UNCHANGED at
    BY <2>1, <2>3, QuietStep DEF Pcs
  <2>4. QED
    BY <1>3, <2>2, <2>3 DEF Commit, Goto
<1>4. ASSUME NEW r \in Ranks, Retry(r) PROVE FALSE
  <2>1. retries' # retries
    BY <1>4, CommitAssumption DEF Retry, TInv, TypeOK
  <2>2. QED
    BY <2>1, NoRetryBefore
<1>5. CASE UNCHANGED vars
  <2>1. \A x : Arrived(x)' = Arrived(x)
    BY <1>5 DEF vars, Arrived, World
  <2>2. \A p : CountedFrom(p)' <=> CountedFrom(p)
    BY <1>5, <2>1 DEF vars, storeVars, CountedFrom, World
  <2>3. QED
    BY <1>5, <2>2 DEF vars, Counting, ReachedInv, BarrierInv
<1>6. QED
  BY <1>1, <1>2, <1>3, <1>4, <1>5, ArriveStep, PassStep, RestartStep DEF Next, WriterSteps

LEMMA MeetsOfCounting ==
  ASSUME TInv, Shape, NoRetry => Counting
  PROVE  BarrierMeets
<1>1. SUFFICES ASSUME NoRetry, NEW r \in Ranks, pc[r] = "commit", NEW q \in World(epoch)
               PROVE  at[r] \in reached[q]
  BY DEF BarrierMeets
<1>2. r \in World(epoch) /\ at[r] \in reached[r]
  BY <1>1 DEF Shape, Counting, ReachedInv
<1>3. CASE WorldSize[epoch] = 1
  <2>1. q = r
    BY <1>1, <1>2, <1>3 DEF World
  <2>2. QED
    BY <1>2, <2>1
<1>4. CASE WorldSize[epoch] # 1
  <2>1. PICK p \in 1 .. (MaxPaths + 1) : CountedFrom(p)
    BY <1>1, <1>4 DEF Counting, BarrierInv
  <2>2. at[r] = p + seq[r] - 1 /\ seq[r] - 1 \in checkin[epoch] /\ seq[r] \in Seqs
    BY <1>1, <1>2, <2>1 DEF CountedFrom, TInv, TypeOK
  <2>3. p + (seq[r] - 1) = at[r]
    BY <2>2 DEF Seqs
  <2>4. Arrived(at[r]) = World(epoch)
    BY <2>1, <2>2, <2>3 DEF CountedFrom
  <2>5. QED
    BY <1>1, <2>4 DEF Arrived
<1>5. QED
  BY <1>3, <1>4

CommonInv == TInv /\ Shape /\ Fresh /\ (NoRetry => Counting)

LEMMA StepCommon == CommonInv /\ [Next]_vars => CommonInv'
BY StepTInv, StepShape, StepFresh, StepCounting, NoRetryBefore DEF CommonInv

(* barriers.py, class Barrier: all ranks reach a certain point before any  *)
(* rank proceeds further, in every run of a job that does not go on after  *)
(* an error, for every world size and over the keys earlier runs left.     *)
THEOREM CommitBarrierMeets == Spec => []BarrierMeets
<1>1. Init => CommonInv
  BY InitTInv, InitShape, InitCounting DEF CommonInv
<1>2. CommonInv => BarrierMeets
  BY MeetsOfCounting DEF CommonInv
<1>3. QED
  BY <1>1, <1>2, StepCommon, PTL DEF Spec
-----------------------------------------------------------------------------
(* The files *)

(* The files that FilesInv speaks of stay when a step changes none of the  *)
(* files the ranks have completed and brings no rank past a file.          *)
LEMMA FilesKept ==
  ASSUME TInv, FilesInv, NEW r \in Ranks, NEW l \in Pcs,
         pc' = [pc EXCEPT ![r] = l],
         r \in files /\ l \in {"meta", "metafile", "ready"} => tmp'[at[r]][r] = epoch,
         r = 0 /\ Meta \in files /\ l \in {"ready", "wait", "commit"} => tmp'[at[0]][Meta] = epoch,
         \A q \in World(epoch) \intersect files :
           /\ q # r => tmp'[at[q]][q] = tmp[at[q]][q]
           /\ \A x \in reached'[q] : final[x][q] # 0 \/ tmp'[x][q] = epoch,
         r # 0 => tmp'[at[0]][Meta] = tmp[at[0]][Meta],
         \A q \in Ranks : fd'[q] # "final",
         UNCHANGED <<files, epoch, at, finalDir, final>>
  PROVE  FilesInv'
<1>1. World(epoch)' = World(epoch) /\ World(epoch) \subseteq Ranks /\ 0 \in Ranks
  BY ZeroIsRank DEF TInv, TypeOK, World
<1>2. \A q \in World(epoch) \intersect files :
        /\ pc'[q] \in {"meta", "metafile", "ready"} => tmp'[at[q]][q] = epoch
        /\ \A x \in reached'[q] : final[x][q] # 0 \/ tmp'[x][q] = epoch
  <2>1. ASSUME NEW q \in World(epoch) \intersect files,
               pc'[q] \in {"meta", "metafile", "ready"}
        PROVE  tmp'[at[q]][q] = epoch
    <3>1. CASE q = r
      BY <1>1, <2>1, <3>1 DEF TInv, TypeOK
    <3>2. CASE q # r
      BY <1>1, <2>1, <3>2 DEF TInv, TypeOK, FilesInv
    <3>3. QED
      BY <3>1, <3>2
  <2>2. QED
    BY <2>1
<1>3. pc'[0] \in {"ready", "wait", "commit"} /\ Meta \in files => tmp'[at[0]][Meta] = epoch
  <2>1. CASE r = 0
    BY <1>1, <2>1 DEF TInv, TypeOK
  <2>2. CASE r # 0
    BY <1>1, <2>2 DEF TInv, TypeOK, FilesInv
  <2>3. QED
    BY <2>1, <2>2
<1>4. NeverHalfWritten'
  BY DEF FilesInv, NeverHalfWritten, CompleteOf, FilesOf, World
<1>5. QED
  BY <1>1, <1>2, <1>3, <1>4 DEF FilesInv

LEMMA InitFiles == Init => FilesInv
<1> SUFFICES ASSUME Init PROVE FilesInv
  OBVIOUS
<1>1. World(1) \subseteq Ranks /\ 0 \in Ranks
  BY CommitAssumption, ZeroIsRank DEF Epochs
<1>2. QED
  BY <1>1 DEF Init, FilesInv, NeverHalfWritten

(* Opening a file truncates no file a rank has completed for a path: the   *)
(* rank has not reached the barrier of the path it opens a file for.       *)
LEMMA OpenFiles ==
  ASSUME TInv, Counting, FilesInv, NEW r \in Ranks, NEW f \in {r, Meta}, NEW l \in {"file", "metafile"},
         Open(r, f, l),
         \/ f = r /\ pc[r] = "open" /\ l = "file"
         \/ f = Meta /\ pc[r] = "meta" /\ l = "metafile" /\ r = 0,
         UNCHANGED <<files, epoch, at, finalDir, final, reached>>
  PROVE  FilesInv'
<1>1. /\ at[r] \in Paths /\ at[r] \notin reached[r] /\ r # Meta /\ f \in Files
      /\ Meta \notin Ranks /\ Ranks \subseteq Files /\ 0 \in Ranks
      /\ World(epoch) \subseteq Ranks
  <2>1. at[r] \in Paths /\ at[r] \notin reached[r]
    BY DEF TInv, Position, AtWork, Counting, ReachedInv, Before
  <2>2. Meta \notin Ranks /\ Ranks \subseteq Files /\ Meta \in Files /\ 0 \in Ranks
    BY CommitAssumption, ZeroIsRank DEF Meta, Ranks, Files
  <2>3. World(epoch) \subseteq Ranks
    BY CommitAssumption, ZeroIsRank DEF TInv, TypeOK
  <2>4. QED
    BY <2>1, <2>2, <2>3
<1>2. CASE Goto(r, "failed") /\ UNCHANGED <<tmp, fd>>
  BY <1>1, <1>2, FilesKept DEF Goto, FilesInv, Pcs
<1>3. CASE /\ tmp' = [tmp EXCEPT ![at[r]][f] = -epoch]
           /\ fd' = [fd EXCEPT ![r] = "tmp"] /\ Goto(r, l)
  <2>1. \A x \in Paths, g \in Files :
          tmp'[x][g] = IF x = at[r] /\ g = f THEN -epoch ELSE tmp[x][g]
    BY <1>1, <1>3 DEF TInv, TypeOK
  <2>2. \A q \in World(epoch) \intersect files :
          \A x \in reached'[q] : final[x][q] # 0 \/ tmp'[x][q] = epoch
    <3>1. SUFFICES ASSUME NEW q \in World(epoch) \intersect files, NEW x \in reached[q],
                          final[x][q] = 0
                   PROVE  tmp'[x][q] = epoch
      OBVIOUS
    <3>2. x \in Paths /\ q \in Files /\ tmp[x][q] = epoch
      BY <1>1, <3>1 DEF TInv, TypeOK, FilesInv
    <3>3. ~(x = at[r] /\ q = f)
      BY <1>1, <3>1
    <3>4. QED
      BY <2>1, <3>2, <3>3
  <2>3. \A q \in World(epoch) \intersect files : q # r => tmp'[at[q]][q] = tmp[at[q]][q]
    BY <1>1, <1>3 DEF TInv, TypeOK
  <2>4. r # 0 => tmp'[at[0]][Meta] = tmp[at[0]][Meta]
    BY <1>1, <1>3 DEF TInv, TypeOK
  <2>5. r \in files /\ l \in {"meta", "metafile", "ready"} => tmp'[at[r]][r] = epoch
    <3>1. SUFFICES ASSUME r \in files, l = "metafile" PROVE tmp'[at[r]][r] = epoch
      OBVIOUS
    <3>2. f # r /\ pc[r] = "meta" /\ r \in World(epoch)
      BY <1>1, <3>1, ZeroIsRank DEF TInv, TypeOK
    <3>3. tmp[at[r]][r] = epoch
      BY <3>1, <3>2 DEF FilesInv
    <3>4. QED
      BY <1>1, <2>1, <3>2, <3>3
  <2>6. \A q \in Ranks : fd'[q] # "final"
    BY <1>3 DEF FilesInv, TInv, TypeOK
  <2>7. QED
    BY <1>3, <2>2, <2>3, <2>4, <2>5, <2>6, FilesKept DEF Goto, Pcs
<1>4. QED
  BY <1>2, <1>3 DEF Open

(* Closing a file completes it in the temporary directory, where it is.    *)
LEMMA CloseFiles ==
  ASSUME TInv, Shape, Counting, FilesInv, NEW r \in Ranks, NEW f \in {r, Meta},
         NEW l \in {"meta", "ready"}, Close(r, f), Goto(r, l),
         \/ f = r /\ pc[r] = "file" /\ l = AfterKeys(r)
         \/ f = Meta /\ pc[r] = "metafile" /\ l = "ready",
         UNCHANGED <<files, epoch, at, reached>>
  PROVE  FilesInv' /\ final' = final
<1>1. /\ at[r] \in Paths /\ at[r] \notin reached[r] /\ r # Meta /\ f \in Files
      /\ Meta \notin Ranks /\ Ranks \subseteq Files /\ 0 \in Ranks
      /\ World(epoch) \subseteq Ranks
  <2>1. pc[r] \in {"file", "metafile"}
    OBVIOUS
  <2>2. at[r] \in Paths /\ at[r] \notin reached[r]
    BY <2>1 DEF TInv, Position, AtWork, Counting, ReachedInv, Before
  <2>3. Meta \notin Ranks /\ Ranks \subseteq Files /\ Meta \in Files
    BY CommitAssumption DEF Meta, Ranks, Files
  <2>4. QED
    BY <2>2, <2>3, ZeroIsRank DEF TInv, TypeOK
<1>2. fd[r] = "tmp"
  BY DEF Shape, FilesInv, TInv, TypeOK
<1>3. /\ tmp' = [tmp EXCEPT ![at[r]][f] = epoch]
      /\ fd' = [fd EXCEPT ![r] = "none"]
      /\ UNCHANGED <<final, finalDir>>
  BY <1>2 DEF Close
<1>4. \A x \in Paths, g \in Files :
        tmp'[x][g] = IF x = at[r] /\ g = f THEN epoch ELSE tmp[x][g]
  BY <1>1, <1>3 DEF TInv, TypeOK
<1>5. \A q \in World(epoch) \intersect files :
        \A x \in reached'[q] : final[x][q] # 0 \/ tmp'[x][q] = epoch
  <2>1. SUFFICES ASSUME NEW q \in World(epoch) \intersect files, NEW x \in reached[q],
                        final[x][q] = 0
                 PROVE  tmp'[x][q] = epoch
    OBVIOUS
  <2>2. x \in Paths /\ q \in Files /\ tmp[x][q] = epoch
    BY <1>1, <2>1 DEF TInv, TypeOK, FilesInv
  <2>3. QED
    BY <1>4, <2>2
<1>6. \A q \in World(epoch) \intersect files : q # r => tmp'[at[q]][q] = tmp[at[q]][q]
  BY <1>1, <1>3 DEF TInv, TypeOK
<1>7. r # 0 => tmp'[at[0]][Meta] = tmp[at[0]][Meta]
  <2>1. r # 0 => f = r
    BY DEF Shape
  <2>2. QED
    BY <1>1, <1>3, <2>1 DEF TInv, TypeOK
<1>8. r \in files => tmp'[at[r]][r] = epoch
  <2>1. CASE f = r
    BY <1>1, <1>4, <2>1
  <2>2. CASE f = Meta
    <3>1. pc[r] = "metafile" /\ r \in World(epoch)
      BY <1>1, <2>2 DEF Shape
    <3>2. r \in files => tmp[at[r]][r] = epoch
      BY <3>1 DEF FilesInv
    <3>3. QED
      BY <1>1, <1>4, <2>2, <3>2
  <2>3. QED
    BY <2>1, <2>2
<1>9. r = 0 /\ Meta \in files /\ l \in {"ready", "wait", "commit"} => tmp'[at[0]][Meta] = epoch
  <2>1. r = 0 /\ Meta \in files /\ l \in {"ready", "wait", "commit"} => f = Meta
    BY DEF AfterKeys
  <2>2. QED
    BY <1>1, <1>4, <2>1
<1>10. \A q \in Ranks : fd'[q] # "final"
  BY <1>3 DEF FilesInv, TInv, TypeOK
<1>11. FilesInv'
  BY <1>3, <1>5, <1>6, <1>7, <1>8, <1>9, <1>10, FilesKept DEF Goto, Pcs
<1>12. QED
  BY <1>3, <1>11

LEMMA HalfWrittenKept ==
  ASSUME NeverHalfWritten, UNCHANGED <<files, finalDir, final>>
  PROVE  NeverHalfWritten'
<1>1. \A p, e : CompleteOf(p, e)' <=> CompleteOf(p, e)
  BY DEF CompleteOf, FilesOf, World
<1>2. QED
  BY <1>1 DEF NeverHalfWritten

(* What rank 0 renames is complete, and no rank has a file open in it: all *)
(* have reached the barrier of the path.                                   *)
LEMMA PublishFiles ==
  ASSUME TInv, Shape, Counting, BarrierMeets, NoRetry, FilesInv,
         pc[0] = "commit", ~Occupied(at[0]), Publish(at[0]), Return(0),
         UNCHANGED <<files, epoch, reached>>
  PROVE  FilesInv'
<1>0. PICK p \in Paths : p = at[0]
  BY ZeroIsRank DEF TInv, Position, AtWork
<1>1. /\ p = at[0] /\ 0 \in Ranks /\ World(epoch) \subseteq Ranks
      /\ World(epoch)' = World(epoch) /\ files \subseteq Files
      /\ Ranks \subseteq Files /\ Meta \in Files /\ epoch \in Epochs
  BY <1>0, CommitAssumption, ZeroIsRank
     DEF TInv, TypeOK, World, Ranks, Files, Meta
<1>2. \A q \in World(epoch) : p \in reached[q]
  BY <1>1 DEF BarrierMeets
<1>3. \A q \in World(epoch) : at[q] = p => pc[q] \notin Before
  BY <1>1, <1>2 DEF Counting, ReachedInv
<1>4. \A q \in Ranks : fd[q] # "none" => at[q] # p
  BY <1>3 DEF Shape, Before, TInv, TypeOK
<1>5. /\ at' = [at EXCEPT ![0] = @ + 1] /\ pc' = [pc EXCEPT ![0] = "idle"]
      /\ finalDir' = finalDir \union {p}
      /\ tmp' = [tmp EXCEPT ![p] = NoFiles] /\ final' = [final EXCEPT ![p] = tmp[p]]
      /\ \A q \in Ranks : fd'[q] = IF at[q] = p /\ fd[q] = "tmp" THEN "final" ELSE fd[q]
  BY <1>1 DEF Publish, Return, Goto
<1>6. \A x \in Paths : x # p => tmp'[x] = tmp[x] /\ final'[x] = final[x]
  BY <1>5 DEF TInv, TypeOK
<1>7. \A q \in Ranks : fd'[q] # "final"
  BY <1>4, <1>5 DEF FilesInv
<1>8. ASSUME NEW q \in World(epoch) \intersect files, pc'[q] \in {"meta", "metafile", "ready"}
      PROVE  tmp'[at'[q]][q] = epoch
  <2>1. q # 0 /\ pc'[q] = pc[q] /\ at'[q] = at[q]
    BY <1>1, <1>5, <1>8 DEF TInv, TypeOK
  <2>2. at[q] # p /\ at[q] \in Paths
    BY <1>1, <1>3, <1>8, <2>1 DEF Before, AtWork, TInv, Position
  <2>3. QED
    BY <1>6, <1>8, <2>1, <2>2 DEF FilesInv
<1>c. \A f \in FilesOf(epoch) : tmp[p][f] = epoch
  <2>1. \A f \in Files : final[p][f] = 0
    BY <1>1 DEF Occupied, NoFiles
  <2>2. \A q \in World(epoch) \intersect files : tmp[p][q] = epoch
    BY <1>1, <1>2, <2>1 DEF FilesInv
  <2>3. Meta \in files => tmp[p][Meta] = epoch
    BY <1>1 DEF FilesInv
  <2>4. QED
    BY <2>2, <2>3 DEF FilesOf
<1>9. \A q \in World(epoch) \intersect files : \A x \in reached'[q] :
        final'[x][q] # 0 \/ tmp'[x][q] = epoch
  <2>1. SUFFICES ASSUME NEW q \in World(epoch) \intersect files, NEW x \in reached[q]
                 PROVE  final'[x][q] # 0 \/ tmp'[x][q] = epoch
    OBVIOUS
  <2>2. x \in Paths
    BY <1>1, <2>1 DEF TInv, TypeOK
  <2>3. CASE x = p
    <3>1. final'[x][q] = tmp[p][q] /\ q \in FilesOf(epoch)
      BY <1>1, <1>5, <2>1, <2>3 DEF TInv, TypeOK, FilesOf
    <3>2. final'[x][q] = epoch /\ epoch # 0
      BY <1>1, <1>c, <3>1 DEF Epochs
    <3>3. QED
      BY <3>2
  <2>4. CASE x # p
    BY <1>6, <2>1, <2>2, <2>4 DEF FilesInv
  <2>5. QED
    BY <2>3, <2>4
<1>10. pc'[0] = "idle"
  BY <1>1, <1>5 DEF TInv, TypeOK
<1>11. NeverHalfWritten'
  <2>1. CompleteOf(p, epoch)'
    <3>1. final'[p] = tmp[p] /\ FilesOf(epoch)' = FilesOf(epoch)
      BY <1>1, <1>5 DEF TInv, TypeOK, FilesOf
    <3>2. QED
      BY <1>c, <3>1 DEF CompleteOf
  <2>2. ASSUME NEW x \in finalDir, x # p PROVE \E e \in Epochs : CompleteOf(x, e)'
    <3>1. x \in Paths
      BY <1>1, <2>2 DEF TInv, TypeOK
    <3>2. PICK e \in Epochs : CompleteOf(x, e)
      BY <2>2 DEF FilesInv, NeverHalfWritten
    <3>3. CompleteOf(x, e)'
      BY <1>6, <2>2, <3>1, <3>2 DEF CompleteOf, FilesOf, World
    <3>4. QED
      BY <3>3
  <2>3. QED
    BY <1>1, <1>5, <2>1, <2>2 DEF NeverHalfWritten
<1>12. QED
  BY <1>1, <1>7, <1>8, <1>9, <1>10, <1>11 DEF FilesInv

FilesStep == FilesInv' /\ \A p \in finalDir : p \in finalDir' /\ (Occupied(p) => final'[p] = final[p])

LEMMA StepFiles ==
  ASSUME TInv, Shape, Counting, BarrierMeets, FilesInv, NoRetry, NoRetry', [Next]_vars
  PROVE  FilesStep
<1>1. ASSUME NEW r \in Ranks, NEW l \in Pcs, pc' = [pc EXCEPT ![r] = l],
             UNCHANGED <<files, epoch, at, tmp, finalDir, final, reached>>,
             \A q \in Ranks : fd'[q] # "final",
             l \in {"meta", "metafile", "ready"} => r \notin files,
             r = 0 /\ Meta \in files /\ l \in {"ready", "wait", "commit"}
               => tmp[at[0]][Meta] = epoch
      PROVE  FilesStep
  BY <1>1, FilesKept DEF FilesInv, FilesStep
<1>2. ASSUME NEW r \in Ranks, BeginWrite(r) PROVE FilesStep
  <2>1. /\ UNCHANGED <<files, epoch, at, tmp, finalDir, final, reached, fd>>
        /\ \E l \in {"open", "meta", "ready"} :
             /\ pc' = [pc EXCEPT ![r] = l]
             /\ l \in {"meta", "ready"} => r \notin files
             /\ l = "ready" => r # 0 \/ Meta \notin files
    BY <1>2 DEF BeginWrite, Goto, AfterKeys
  <2>2. QED
    BY <1>1, <2>1 DEF FilesInv, Pcs
<1>3. ASSUME NEW r \in Ranks, OpenFile(r) PROVE FilesStep
  <2>1. /\ pc[r] = "open" /\ Open(r, r, "file")
        /\ UNCHANGED <<files, epoch, at, finalDir, final, reached>>
    BY <1>3 DEF OpenFile
  <2>2. QED
    BY <2>1, OpenFiles DEF FilesStep
<1>4. ASSUME NEW r \in Ranks, OpenMeta(r) PROVE FilesStep
  <2>1. /\ pc[r] = "meta" /\ Open(r, Meta, "metafile") /\ r = 0
        /\ UNCHANGED <<files, epoch, at, finalDir, final, reached>>
    BY <1>4 DEF OpenMeta, Shape
  <2>2. QED
    BY <2>1, OpenFiles DEF FilesStep
<1>5. ASSUME NEW r \in Ranks, EndFile(r) PROVE FilesStep
  <2>1. /\ pc[r] = "file" /\ Close(r, r) /\ Goto(r, AfterKeys(r))
        /\ UNCHANGED <<files, epoch, at, reached, finalDir>>
        /\ AfterKeys(r) \in {"meta", "ready"}
    BY <1>5 DEF EndFile, Close, AfterKeys
  <2>2. QED
    BY <2>1, CloseFiles DEF FilesStep
<1>6. ASSUME NEW r \in Ranks, EndMeta(r) PROVE FilesStep
  <2>1. /\ pc[r] = "metafile" /\ Close(r, Meta) /\ Goto(r, "ready")
        /\ UNCHANGED <<files, epoch, at, reached, finalDir>>
    BY <1>6 DEF EndMeta, Close
  <2>2. QED
    BY <2>1, CloseFiles DEF FilesStep
<1>7. ASSUME NEW r \in Ranks, BarrierArrive(r) PROVE FilesStep
  <2>1. /\ UNCHANGED <<files, epoch, at, tmp, finalDir, final, fd>>
        /\ pc[r] = "ready" /\ reached' = [reached EXCEPT ![r] = @ \union {at[r]}]
        /\ \E l \in {"wait", "commit"} : pc' = [pc EXCEPT ![r] = l]
    BY <1>7 DEF BarrierArrive, Goto, diskVars
  <2>2. \A q \in World(epoch) \intersect files :
          \A x \in reached'[q] : final[x][q] # 0 \/ tmp'[x][q] = epoch
    BY <2>1, ZeroIsRank DEF FilesInv, TInv, TypeOK
  <2>3. r = 0 /\ Meta \in files => tmp'[at[0]][Meta] = epoch
    BY <2>1 DEF FilesInv
  <2>4. FilesInv'
    BY <2>1, <2>2, <2>3, FilesKept DEF FilesInv, Pcs
  <2>5. QED
    BY <2>1, <2>4 DEF FilesStep
<1>8. ASSUME NEW r \in Ranks, BarrierPass(r) PROVE FilesStep
  <2>1. /\ UNCHANGED <<files, epoch, at, tmp, finalDir, final, reached, fd>>
        /\ pc[r] = "wait" /\ pc' = [pc EXCEPT ![r] = "commit"]
    BY <1>8 DEF BarrierPass, Goto, diskVars
  <2>2. QED
    BY <1>1, <2>1 DEF FilesInv, Pcs
<1>9. ASSUME NEW r \in Ranks, Commit(r) PROVE FilesStep
  <2>1. pc[r] = "commit" /\ UNCHANGED <<files, epoch, reached>>
    BY <1>9 DEF Commit
  <2>2. CASE r = 0 /\ ~Occupied(at[r]) /\ Publish(at[r]) /\ Return(r)
    <3>1. FilesInv'
      BY <2>1, <2>2, PublishFiles
    <3>2. finalDir' = finalDir \union {at[0]} /\ final' = [final EXCEPT ![at[0]] = tmp[at[0]]]
      BY <2>2 DEF Publish
    <3>3. QED
      <4>1. \A p \in finalDir : Occupied(p) => p # at[0]
        BY <2>2
      <4>2. \A p \in finalDir : p # at[0] => final'[p] = final[p]
        BY <3>2 DEF TInv, TypeOK
      <4>3. QED
        BY <3>1, <3>2, <4>1, <4>2 DEF FilesStep
  <2>3. CASE pc' = [pc EXCEPT ![r] = "failed"] /\ UNCHANGED <<at, diskVars, fd>>
    BY <1>1, <2>1, <2>3 DEF FilesInv, Pcs, diskVars
  <2>4. CASE Return(r) /\ UNCHANGED <<diskVars, fd>>
    <3>1. /\ pc' = [pc EXCEPT ![r] = "idle"] /\ at' = [at EXCEPT ![r] = @ + 1]
          /\ UNCHANGED <<tmp, final, finalDir, fd>>
      BY <2>4 DEF Return, Goto, diskVars
    <3>2. World(epoch)' = World(epoch) /\ World(epoch) \subseteq Ranks /\ 0 \in Ranks
      BY <2>1, ZeroIsRank DEF TInv, TypeOK, World
    <3>3. \A q \in Ranks : q # r => pc'[q] = pc[q] /\ at'[q] = at[q]
      BY <3>1 DEF TInv, TypeOK
    <3>4. pc'[r] = "idle"
      BY <3>1 DEF TInv, TypeOK
    <3>5. NeverHalfWritten'
      BY <2>1, <3>1, HalfWrittenKept DEF FilesInv
    <3>6. FilesInv'
      BY <2>1, <2>4, <3>1, <3>2, <3>3, <3>4, <3>5 DEF FilesInv
    <3>7. QED
      BY <3>1, <3>6 DEF FilesStep
  <2>5. QED
    BY <1>9, <2>2, <2>3, <2>4 DEF Commit, Goto
<1>10. ASSUME NEW r \in Ranks, BarrierTimeout(r) \/ WriteFails(r) \/ Die(r) PROVE FilesStep
  <2>1. /\ UNCHANGED <<files, epoch, at, tmp, finalDir, final, reached>>
        /\ \E l \in {"failed", "dead"} : pc' = [pc EXCEPT ![r] = l]
        /\ fd' = fd \/ fd' = [fd EXCEPT ![r] = "none"]
    BY <1>10 DEF BarrierTimeout, WriteFails, Die, Goto, diskVars
  <2>2. \A q \in Ranks : fd'[q] # "final"
    BY <2>1 DEF FilesInv, TInv, TypeOK
  <2>3. QED
    BY <1>1, <2>1, <2>2 DEF Pcs
<1>11. ASSUME NEW r \in Ranks, Retry(r) PROVE FALSE
  <2>1. retries' # retries
    BY <1>11, CommitAssumption DEF Retry, TInv, TypeOK
  <2>2. QED
    BY <2>1, NoRetryBefore
<1>12. ASSUME NEW p \in 1 .. (MaxPaths + 1), Restart(p) PROVE FilesStep
  <2>1. /\ epoch' \in Epochs /\ UNCHANGED <<files, tmp, finalDir, final>>
        /\ fd' = [q \in Ranks |-> "none"] /\ reached' = [q \in Ranks |-> {}]
        /\ \A q \in Ranks : pc'[q] \in {"idle", "out"}
    BY <1>12, CommitAssumption DEF Restart, diskVars, TInv, TypeOK, Epochs
  <2>2. World(epoch)' \subseteq Ranks /\ 0 \in Ranks
    BY <2>1, ZeroIsRank DEF World
  <2>3. NeverHalfWritten'
    BY <2>1, HalfWrittenKept DEF FilesInv
  <2>4. FilesInv'
    BY <2>1, <2>2, <2>3 DEF FilesInv
  <2>5. QED
    BY <2>1, <2>4 DEF FilesStep
<1>13. CASE UNCHANGED vars
  <2>1. NeverHalfWritten'
    BY <1>13, HalfWrittenKept DEF vars, diskVars, FilesInv
  <2>2. FilesInv'
    BY <1>13, <2>1 DEF vars, diskVars, FilesInv, World
  <2>3. QED
    BY <1>13, <2>2 DEF vars, diskVars, FilesStep
<1>14. QED
  BY <1>2, <1>3, <1>4, <1>5, <1>6, <1>7, <1>8, <1>9, <1>10, <1>11, <1>12, <1>13
     DEF Next, WriterSteps
-----------------------------------------------------------------------------
LEMMA InitIInv == Init => IInv
BY InitTInv, InitShape, InitCounting, InitFiles DEF IInv, Counting

LEMMA StepIInv ==
  IInv /\ [Next]_vars
    => IInv' /\ (NoRetry => \A p \in finalDir : p \in finalDir' /\ (Occupied(p) => final'[p] = final[p]))
<1> SUFFICES ASSUME IInv, [Next]_vars
             PROVE  /\ IInv'
                    /\ NoRetry => \A p \in finalDir : p \in finalDir' /\ (Occupied(p) => final'[p] = final[p])
  OBVIOUS
<1>1. TInv' /\ Shape' /\ Fresh'
  BY StepTInv, StepShape, StepFresh DEF IInv
<1>2. ASSUME NoRetry' PROVE Counting' /\ FilesStep
  <2>1. TInv /\ Shape /\ Fresh /\ NoRetry /\ Counting /\ FilesInv
    BY <1>2, NoRetryBefore DEF IInv, Counting
  <2>2. BarrierMeets
    BY <2>1, MeetsOfCounting
  <2>3. QED
    BY <1>2, <2>1, <2>2, StepCounting, StepFiles
<1>3. IInv'
  BY <1>1, <1>2 DEF IInv, Counting, FilesStep
<1>4. ASSUME NoRetry, ~NoRetry' PROVE finalDir' = finalDir /\ final' = final
  <2>1. PICK r \in Ranks : Retry(r)
    <3>1. retries' # retries
      BY <1>4 DEF NoRetry
    <3>2. QED
      BY <3>1 DEF Next, WriterSteps, vars, BeginWrite, OpenFile, EndFile, OpenMeta, EndMeta,
         BarrierArrive, BarrierPass, Commit, BarrierTimeout, WriteFails, Die, Restart
  <2>2. QED
    BY <2>1 DEF Retry, diskVars
<1>5. QED
  BY <1>2, <1>3, <1>4 DEF FilesStep

LEMMA CommitInvariant == Spec => []IInv
<1>1. IInv /\ [Next]_vars => IInv'
  BY StepIInv
<1>2. QED
  BY <1>1, InitIInv, PTL DEF Spec

(* In a job that never goes on after an error, what stands at the path of  *)
(* a checkpoint is the complete work of one run, whatever failed, was      *)
(* killed and was restarted.                                               *)
THEOREM CommitPublishedComplete == Spec => []PublishedComplete
<1>1. IInv => PublishedComplete
  BY DEF IInv, FilesInv, PublishedComplete
<1>2. QED
  BY <1>1, CommitInvariant, PTL

(* In such a job a published checkpoint is never changed.                  *)
THEOREM CommitPublishedStable == Spec => PublishedStable
<1>1. IInv /\ [Next]_vars
        => [NoRetry =>
              \A p \in finalDir : p \in finalDir' /\ (Occupied(p) => final'[p] = final[p])]_vars
  BY StepIInv
<1>2. QED
  BY <1>1, CommitInvariant, PTL DEF Spec, PublishedStable
-----------------------------------------------------------------------------
(* The directories *)

(* A directory that does not exist has no files, and no rank has a file    *)
(* open in a temporary directory that does not exist.                      *)
DirsInv ==
  /\ \A p \in Paths : /\ p \notin tmpDir => tmp[p] = NoFiles
                      /\ p \notin finalDir => final[p] = NoFiles
  /\ \A r \in Ranks : fd[r] = "tmp" => at[r] \in tmpDir

LEMMA InitDirs == Init => DirsInv
  BY DEF Init, DirsInv

LEMMA StepDirs ==
  ASSUME TInv, Shape, \A r \in Ranks : fd[r] # "final", DirsInv, [Next]_vars
  PROVE  DirsInv'
<1>types. TypeOK /\ \A r \in Ranks : pc[r] \in AtWork => at[r] \in Paths
  BY DEF TInv, Position
<1>1. ASSUME tmpDir \subseteq tmpDir', UNCHANGED <<finalDir, tmp, final>>,
             \A r \in Ranks : fd'[r] = "tmp" => fd[r] = "tmp" /\ at'[r] = at[r]
      PROVE  DirsInv'
  BY <1>1 DEF DirsInv
<1>2. ASSUME NEW r \in Ranks, BeginWrite(r) \/ BarrierArrive(r) \/ BarrierPass(r)
      PROVE  DirsInv'
  <2>1. tmpDir \subseteq tmpDir' /\ UNCHANGED <<finalDir, tmp, final, fd, at>>
    BY <1>2 DEF BeginWrite, BarrierArrive, BarrierPass, diskVars
  <2>2. QED
    BY <1>1, <2>1
<1>3. ASSUME NEW r \in Ranks, NEW f \in Files, NEW l \in Pcs, Open(r, f, l), pc[r] \in AtWork,
             UNCHANGED <<at, tmpDir, finalDir, final>>
      PROVE  DirsInv'
  <2>1. CASE /\ at[r] \in tmpDir /\ tmp' = [tmp EXCEPT ![at[r]][f] = -epoch]
             /\ fd' = [fd EXCEPT ![r] = "tmp"]
    <3>1. \A p \in Paths : p \notin tmpDir => tmp'[p] = tmp[p]
      BY <1>types, <1>3, <2>1 DEF TypeOK
    <3>2. \A q \in Ranks : fd'[q] = "tmp" => q = r \/ fd[q] = "tmp"
      BY <1>types, <2>1 DEF TypeOK
    <3>3. QED
      BY <1>3, <2>1, <3>1, <3>2 DEF DirsInv
  <2>2. CASE UNCHANGED <<tmp, fd>>
    BY <1>1, <1>3, <2>2
  <2>3. QED
    BY <1>3, <2>1, <2>2 DEF Open
<1>4. ASSUME NEW r \in Ranks, NEW f \in Files, Close(r, f), pc[r] \in {"file", "metafile"},
             at' = at
      PROVE  DirsInv'
  <2>1. fd[r] = "tmp" /\ at[r] \in tmpDir /\ at[r] \in Paths
    BY <1>types, <1>4 DEF DirsInv, Shape, TypeOK, AtWork
  <2>2. /\ tmp' = [tmp EXCEPT ![at[r]][f] = epoch] /\ fd' = [fd EXCEPT ![r] = "none"]
        /\ UNCHANGED <<final, tmpDir, finalDir>>
    BY <1>4, <2>1 DEF Close
  <2>3. \A p \in Paths : p \notin tmpDir => tmp'[p] = tmp[p]
    BY <1>types, <2>1, <2>2 DEF TypeOK
  <2>4. \A q \in Ranks : fd'[q] = "tmp" => fd[q] = "tmp"
    BY <1>types, <2>2 DEF TypeOK
  <2>5. QED
    BY <1>4, <2>2, <2>3, <2>4 DEF DirsInv
<1>5. ASSUME NEW r \in Ranks, Commit(r) PROVE DirsInv'
  <2>1. pc[r] = "commit" /\ fd[r] = "none" /\ at[r] \in Paths
    BY <1>types, <1>5 DEF Commit, Shape, AtWork, TypeOK
  <2>2. \A q \in Ranks : q # r => at'[q] = at[q]
    BY <1>types, <1>5 DEF Commit, Return, TypeOK
  <2>3. CASE Publish(at[r])
    <3>1. /\ tmpDir' = tmpDir \ {at[r]} /\ finalDir' = finalDir \union {at[r]}
          /\ tmp' = [tmp EXCEPT ![at[r]] = NoFiles]
          /\ final' = [final EXCEPT ![at[r]] = tmp[at[r]]]
          /\ \A q \in Ranks : fd'[q] = "tmp" => fd[q] = "tmp" /\ at[q] # at[r]
      BY <2>3 DEF Publish
    <3>2. \A p \in Paths : /\ p \notin tmpDir' => tmp'[p] = NoFiles
                           /\ p \notin finalDir' => final'[p] = NoFiles
      BY <1>types, <2>1, <3>1 DEF TypeOK, DirsInv
    <3>3. \A q \in Ranks : fd'[q] = "tmp" => at'[q] \in tmpDir'
      BY <2>1, <2>2, <3>1 DEF DirsInv
    <3>4. QED
      BY <3>2, <3>3 DEF DirsInv
  <2>4. CASE UNCHANGED <<diskVars, fd>>
    BY <1>1, <2>1, <2>2, <2>4 DEF diskVars
  <2>5. QED
    BY <1>5, <2>3, <2>4 DEF Commit
<1>6. ASSUME NEW r \in Ranks, BarrierTimeout(r) \/ WriteFails(r) \/ Die(r) PROVE DirsInv'
  <2>1. UNCHANGED <<at, diskVars>> /\ (fd' = fd \/ fd' = [fd EXCEPT ![r] = "none"])
    BY <1>6 DEF BarrierTimeout, WriteFails, Die
  <2>2. \A q \in Ranks : fd'[q] = "tmp" => fd[q] = "tmp"
    BY <1>types, <2>1 DEF TypeOK
  <2>3. QED
    BY <1>1, <2>1, <2>2 DEF diskVars
<1>7. ASSUME NEW r \in Ranks, Retry(r) PROVE DirsInv'
  <2>1. /\ fd[r] = "none" /\ UNCHANGED <<fd, diskVars>>
        /\ \A q \in Ranks : q # r => at'[q] = at[q]
    BY <1>types, <1>7 DEF Retry, Shape, TypeOK
  <2>2. QED
    BY <1>1, <2>1 DEF diskVars
<1>8. ASSUME NEW p \in 1 .. (MaxPaths + 1), Restart(p) PROVE DirsInv'
  BY <1>1, <1>8 DEF Restart, diskVars
<1>9. CASE UNCHANGED vars
  BY <1>1, <1>9 DEF vars, diskVars
<1>10. ASSUME NEW r \in Ranks, OpenFile(r) \/ OpenMeta(r) PROVE DirsInv'
  <2>1. /\ \E f \in {r, Meta}, l \in {"file", "metafile"} : Open(r, f, l)
        /\ pc[r] \in AtWork /\ UNCHANGED <<at, tmpDir, finalDir, final>>
    BY <1>10 DEF OpenFile, OpenMeta, AtWork
  <2>2. {r, Meta} \subseteq Files
    BY CommitAssumption DEF Ranks, Files, Meta
  <2>3. QED
    BY <1>3, <2>1, <2>2 DEF Pcs
<1>11. ASSUME NEW r \in Ranks, EndFile(r) \/ EndMeta(r) PROVE DirsInv'
  <2>1. /\ \E f \in {r, Meta} : Close(r, f)
        /\ pc[r] \in {"file", "metafile"} /\ at' = at
    BY <1>11 DEF EndFile, EndMeta
  <2>2. {r, Meta} \subseteq Files
    BY CommitAssumption DEF Ranks, Files, Meta
  <2>3. QED
    BY <1>4, <2>1, <2>2
<1>12. QED
  BY <1>2, <1>5, <1>6, <1>7, <1>8, <1>9, <1>10, <1>11 DEF Next, WriterSteps
-----------------------------------------------------------------------------
(* What rank 0 reports *)

(* The barrier has met: whatever file the run has for the path is in the   *)
(* temporary directory, or a file is at the path already, so one of the    *)
(* two directories is there.                                               *)
LEMMA DirectoryAtCommit ==
  ASSUME TInv, Shape, Counting, BarrierMeets, NoRetry, FilesInv, DirsInv,
         pc[0] = "commit", FilesOf(epoch) # {}
  PROVE  at[0] \in tmpDir \/ at[0] \in finalDir
<1>1. /\ at[0] \in Paths /\ 0 \in Ranks /\ World(epoch) \subseteq Ranks
      /\ Ranks \subseteq Files /\ Meta \in Files /\ epoch # 0
  <2>1. at[0] \in Paths /\ 0 \in Ranks /\ World(epoch) \subseteq Ranks
    BY ZeroIsRank DEF TInv, TypeOK, Position, AtWork
  <2>2. Ranks \subseteq Files /\ Meta \in Files
    BY CommitAssumption DEF Ranks, Files, Meta
  <2>3. epoch # 0
    BY DEF TInv, TypeOK, Epochs
  <2>4. QED
    BY <2>1, <2>2, <2>3
<1>2. PICK f \in FilesOf(epoch) : f \in Files
  BY <1>1 DEF FilesOf
<1>3. tmp[at[0]][f] # 0 \/ final[at[0]][f] # 0
  <2>1. CASE f = Meta
    <3>1. tmp[at[0]][f] = epoch
      BY <2>1, <1>2 DEF FilesInv, FilesOf
    <3>2. QED
      BY <1>1, <3>1
  <2>2. CASE f \in World(epoch) \intersect files
    <3>1. at[0] \in reached[f]
      BY <1>1, <2>2 DEF BarrierMeets
    <3>2. final[at[0]][f] # 0 \/ tmp[at[0]][f] = epoch
      BY <2>2, <3>1 DEF FilesInv
    <3>3. QED
      BY <1>1, <3>2
  <2>3. QED
    BY <1>2, <2>1, <2>2 DEF FilesOf
<1>4. QED
  BY <1>1, <1>2, <1>3 DEF DirsInv, NoFiles

LEMMA StepSaved ==
  ASSUME TInv, Shape, Counting, BarrierMeets, NoRetry, NoRetry', FilesInv, DirsInv,
         SavedOnRankZero, [Next]_vars,
         \A p \in finalDir : p \in finalDir'
  PROVE  SavedOnRankZero'
<1> DEFINE Nothing == \E e \in 1 .. epoch : FilesOf(e) = {}
<1>types. epoch \in Nat /\ epoch >= 1 /\ 0 \in Ranks /\ saved \in [Ranks -> SUBSET Paths]
  BY ZeroIsRank, CommitAssumption DEF TInv, TypeOK, Epochs
<1>1. ASSUME UNCHANGED files, epoch' \in {epoch, epoch + 1},
             \A p \in saved'[0] : p \in saved[0] \/ p \in finalDir' \/ Nothing
      PROVE  SavedOnRankZero'
  <2>1. \A e : FilesOf(e)' = FilesOf(e)
    BY <1>1 DEF FilesOf, World
  <2>2. 1 .. epoch \subseteq 1 .. epoch'
    BY <1>types, <1>1
  <2>3. Nothing => \E e \in 1 .. epoch' : FilesOf(e)' = {}
    BY <2>1, <2>2
  <2>4. \A p \in saved'[0] : p \in finalDir' \/ Nothing
    BY <1>1 DEF SavedOnRankZero
  <2>5. QED
    BY <2>3, <2>4 DEF SavedOnRankZero
<1>2. ASSUME NEW r \in Ranks, Commit(r) PROVE SavedOnRankZero'
  <2>1. UNCHANGED <<files, epoch>> /\ pc[r] = "commit"
    BY <1>2 DEF Commit
  <2>2. CASE r # 0 \/ saved' = saved
    <3>1. saved'[0] = saved[0]
      BY <1>types, <1>2, <2>2 DEF Commit, Return
    <3>2. QED
      BY <1>1, <2>1, <3>1
  <2>3. CASE r = 0 /\ Return(r)
    <3>1. saved'[0] = saved[0] \union {at[0]}
      BY <1>types, <2>3 DEF Return
    <3>2. at[0] \in finalDir' \/ Nothing
      <4>1. CASE Publish(at[0])
        BY <4>1 DEF Publish
      <4>2. CASE at[0] \notin tmpDir
        <5>1. FilesOf(epoch) = {} \/ at[0] \in finalDir
          BY <2>1, <2>3, <4>2, DirectoryAtCommit
        <5>2. epoch \in 1 .. epoch
          BY <1>types
        <5>3. QED
          BY <5>1, <5>2
      <4>3. CASE Goto(0, "failed")
        <5>1. [pc EXCEPT ![0] = "failed"][0] # [pc EXCEPT ![0] = "idle"][0]
          BY <1>types DEF TInv, TypeOK
        <5>2. QED
          BY <2>3, <4>3, <5>1 DEF Return, Goto
      <4>4. QED
        BY <1>2, <2>3, <4>1, <4>2, <4>3 DEF Commit
    <3>3. QED
      BY <1>1, <2>1, <3>1, <3>2
  <2>4. QED
    BY <1>2, <2>2, <2>3 DEF Commit
<1>3. ASSUME NEW r \in Ranks, BeginWrite(r) \/ OpenFile(r) \/ EndFile(r) \/ OpenMeta(r)
                                \/ EndMeta(r) \/ BarrierArrive(r) \/ BarrierPass(r)
                                \/ BarrierTimeout(r) \/ WriteFails(r) \/ Die(r) \/ Retry(r)
      PROVE  UNCHANGED <<files, epoch, saved>>
  BY <1>3 DEF BeginWrite, OpenFile, EndFile, OpenMeta, EndMeta, BarrierArrive, BarrierPass,
              BarrierTimeout, WriteFails, Die, Retry
<1>4. ASSUME NEW p \in 1 .. (MaxPaths + 1), Restart(p)
      PROVE  UNCHANGED <<files, saved>> /\ epoch' = epoch + 1
  BY <1>4 DEF Restart
<1>5. CASE UNCHANGED vars
  BY <1>1, <1>5 DEF vars
<1>6. QED
  BY <1>1, <1>2, <1>3, <1>4, <1>5 DEF Next, WriterSteps

SavedInv == IInv /\ (NoRetry => DirsInv /\ SavedOnRankZero)

LEMMA StepSavedInv == SavedInv /\ [Next]_vars => SavedInv'
<1> SUFFICES ASSUME SavedInv, [Next]_vars PROVE SavedInv'
  OBVIOUS
<1>1. IInv'
  BY StepIInv DEF SavedInv
<1>2. ASSUME NoRetry' PROVE DirsInv' /\ SavedOnRankZero'
  <2>1. /\ TInv /\ Shape /\ NoRetry /\ Counting /\ FilesInv /\ DirsInv /\ SavedOnRankZero
    BY <1>2, NoRetryBefore DEF SavedInv, IInv, Counting
  <2>2. BarrierMeets
    BY <2>1, MeetsOfCounting
  <2>3. \A p \in finalDir : p \in finalDir'
    BY <2>1, StepIInv DEF SavedInv
  <2>4. DirsInv'
    BY <2>1, StepDirs DEF FilesInv
  <2>5. QED
    BY <1>2, <2>1, <2>2, <2>3, <2>4, StepSaved
<1>3. QED
  BY <1>1, <1>2 DEF SavedInv

(* In a job that never goes on after an error, what rank 0 was told is     *)
(* saved is at its path, unless the ranks of a run had nothing to save:    *)
(* rank 0 never skips the rename because a directory is late.              *)
THEOREM CommitSavedOnRankZero == Spec => []SavedOnRankZero
<1>1. Init => SavedInv
  BY InitIInv, InitDirs, ZeroIsRank DEF Init, SavedInv, SavedOnRankZero
<1>2. SavedInv => SavedOnRankZero
  BY DEF SavedInv, SavedOnRankZero
<1>3. QED
  BY <1>1, <1>2, StepSavedInv, PTL DEF Spec
-----------------------------------------------------------------------------
(* The index *)

(* What rank 0 alone guarantees, retries or not: while it is past one of   *)
(* its two files, that file is complete in the temporary directory of its  *)
(* path, which nobody else renames.                                        *)
IndexInv ==
  /\ fd[0] # "final"
  /\ pc[0] \in {"meta", "metafile", "ready", "wait", "commit"} /\ 0 \in files
       => tmp[at[0]][0] = epoch
  /\ pc[0] \in {"ready", "wait", "commit"} /\ Meta \in files => tmp[at[0]][Meta] = epoch
  /\ IndexComplete

(* The files of rank 0.                                                    *)
Index == {0, Meta}

LEMMA IndexFiles == 0 \in Ranks /\ Index \subseteq Files /\ Meta \notin Ranks /\ Meta # 0
  BY CommitAssumption, ZeroIsRank DEF Index, Files, Meta, Ranks

(* A step that leaves what stands at the paths leaves the indices there.   *)
LEMMA IndexKept ==
  ASSUME TInv, IndexComplete, UNCHANGED <<files, finalDir>>,
         \A x \in Paths, f \in Index : final'[x][f] = final[x][f]
  PROVE  IndexComplete'
<1>1. SUFFICES ASSUME NEW p \in finalDir
               PROVE  \E e \in Epochs :
                        \A f \in {0, Meta} \intersect files : final'[p][f] = e
  BY DEF IndexComplete
<1>2. p \in Paths
  BY <1>1 DEF TInv, TypeOK
<1>3. PICK e \in Epochs : \A f \in {0, Meta} \intersect files : final[p][f] = e
  BY <1>1 DEF IndexComplete
<1>4. {0, Meta} \intersect files \subseteq Index
  BY DEF Index
<1>5. QED
  BY <1>2, <1>3, <1>4

(* No other rank has a hand in the files of rank 0: it writes its own, and *)
(* renames nothing.                                                        *)
LEMMA OthersKeepIndex ==
  ASSUME TInv, Shape, NEW r \in Ranks, r # 0,
         WriterSteps(r) \/ BarrierTimeout(r) \/ WriteFails(r) \/ Die(r) \/ Retry(r)
  PROVE  /\ UNCHANGED <<files, epoch, finalDir>>
         /\ pc'[0] = pc[0] /\ at'[0] = at[0] /\ fd'[0] = fd[0]
         /\ \A x \in Paths, f \in Index : tmp'[x][f] = tmp[x][f] /\ final'[x][f] = final[x][f]
<1> DEFINE Kept == /\ UNCHANGED <<files, epoch, finalDir>>
                   /\ pc'[0] = pc[0] /\ at'[0] = at[0] /\ fd'[0] = fd[0]
                   /\ \A x \in Paths, f \in Index :
                        tmp'[x][f] = tmp[x][f] /\ final'[x][f] = final[x][f]
<1>types. /\ TypeOK /\ 0 \in Ranks /\ Index \subseteq Files /\ r \notin Index /\ r \in Files
          /\ pc[r] \in AtWork => at[r] \in Paths
  BY IndexFiles, CommitAssumption DEF TInv, Position, Index, Ranks, Files
<1>1. ASSUME BeginWrite(r) \/ BarrierArrive(r) \/ BarrierPass(r) \/ BarrierTimeout(r)
             \/ WriteFails(r) \/ Die(r) \/ Retry(r)
      PROVE  Kept
  <2>1. UNCHANGED <<files, epoch, finalDir, tmp, final>>
    BY <1>1 DEF BeginWrite, BarrierArrive, BarrierPass, BarrierTimeout, WriteFails, Die, Retry,
                diskVars
  <2>2. pc'[0] = pc[0]
    BY <1>1, <1>types DEF BeginWrite, BarrierArrive, BarrierPass, BarrierTimeout, WriteFails,
                          Die, Retry, Goto, TypeOK
  <2>3. at'[0] = at[0]
    BY <1>1, <1>types DEF BeginWrite, BarrierArrive, BarrierPass, BarrierTimeout, WriteFails,
                          Die, Retry, TypeOK
  <2>4. fd'[0] = fd[0]
    BY <1>1, <1>types DEF BeginWrite, BarrierArrive, BarrierPass, BarrierTimeout, WriteFails,
                          Die, Retry, TypeOK
  <2>5. QED
    BY <2>1, <2>2, <2>3, <2>4
<1>2. ASSUME OpenFile(r)
      PROVE  Kept
  <2>1. pc[r] = "open" /\ Open(r, r, "file") /\ UNCHANGED <<files, epoch, at, finalDir, final>>
    BY <1>2 DEF OpenFile
  <2>2. CASE /\ tmp' = [tmp EXCEPT ![at[r]][r] = -epoch]
             /\ fd' = [fd EXCEPT ![r] = "tmp"] /\ Goto(r, "file")
    BY <1>types, <2>1, <2>2 DEF Goto, TypeOK, AtWork
  <2>3. CASE Goto(r, "failed") /\ UNCHANGED <<tmp, fd>>
    BY <1>types, <2>1, <2>3 DEF Goto, TypeOK
  <2>4. QED
    BY <2>1, <2>2, <2>3 DEF Open
<1>3. ASSUME EndFile(r)
      PROVE  Kept
  <2>1. /\ pc[r] = "file" /\ Close(r, r) /\ UNCHANGED <<files, epoch, at>>
        /\ pc' = [pc EXCEPT ![r] = "ready"]
    BY <1>3 DEF EndFile, Goto, AfterKeys
  <2>2. /\ tmp' = tmp \/ tmp' = [tmp EXCEPT ![at[r]][r] = epoch]
        /\ final' = final \/ final' = [final EXCEPT ![at[r]][r] = epoch]
        /\ fd' = [fd EXCEPT ![r] = "none"] /\ finalDir' = finalDir
    BY <2>1 DEF Close
  <2>3. \A x \in Paths, f \in Index : tmp'[x][f] = tmp[x][f]
    <3>1. CASE tmp' = tmp
      BY <3>1
    <3>2. CASE tmp' = [tmp EXCEPT ![at[r]][r] = epoch]
      BY <1>types, <3>2 DEF TypeOK
    <3>3. QED
      BY <2>2, <3>1, <3>2
  <2>4. \A x \in Paths, f \in Index : final'[x][f] = final[x][f]
    <3>1. CASE final' = final
      BY <3>1
    <3>2. CASE final' = [final EXCEPT ![at[r]][r] = epoch]
      BY <1>types, <3>2 DEF TypeOK
    <3>3. QED
      BY <2>2, <3>1, <3>2
  <2>5. QED
    BY <1>types, <2>1, <2>2, <2>3, <2>4 DEF TypeOK
<1>4. ASSUME Commit(r)
      PROVE  Kept
  <2>1. Return(r) /\ UNCHANGED <<files, epoch, diskVars, fd>>
    BY <1>4 DEF Commit
  <2>2. QED
    BY <1>types, <2>1 DEF Return, Goto, diskVars, TypeOK
<1>5. ~OpenMeta(r) /\ ~EndMeta(r)
  BY DEF OpenMeta, EndMeta, Shape
<1>6. QED
  BY <1>1, <1>2, <1>3, <1>4, <1>5 DEF WriterSteps

(* Rank 0 opens and closes its file and the metadata,                      *)
LEMMA ZeroWritesIndex ==
  ASSUME TInv, Shape, IndexInv,
         OpenFile(0) \/ EndFile(0) \/ OpenMeta(0) \/ EndMeta(0)
  PROVE  IndexInv'
<1>types. /\ TypeOK /\ 0 \in Ranks /\ 0 \in Files /\ Meta \in Files /\ Meta # 0
          /\ pc[0] \in AtWork => at[0] \in Paths
  BY IndexFiles DEF TInv, Position, Index
<1>1. UNCHANGED <<files, epoch, at, finalDir>> /\ at[0] \in Paths
  BY <1>types DEF OpenFile, EndFile, OpenMeta, EndMeta, Close, AtWork
<1>2. ASSUME NEW f \in Index, NEW l \in {"file", "metafile"}, Open(0, f, l), UNCHANGED final,
             f = 0 => l = "file", f = Meta => l = "metafile" /\ pc[0] = "meta"
      PROVE  IndexInv'
  <2>1. IndexComplete'
    BY <1>1, <1>2, IndexKept DEF IndexInv
  <2>2. CASE /\ tmp' = [tmp EXCEPT ![at[0]][f] = -epoch]
             /\ fd' = [fd EXCEPT ![0] = "tmp"] /\ Goto(0, l)
    <3>1. fd'[0] = "tmp" /\ pc'[0] = l /\ (f # 0 => tmp'[at[0]][0] = tmp[at[0]][0])
      BY <1>types, <1>1, <2>2 DEF Goto, TypeOK
    <3>2. l = "metafile" /\ 0 \in files => tmp'[at[0]][0] = epoch
      BY <1>types, <1>2, <3>1 DEF IndexInv, Index
    <3>3. l \notin {"meta", "ready", "wait", "commit"} /\ fd'[0] # "final"
      BY <3>1
    <3>4. QED
      BY <1>1, <2>1, <3>1, <3>2, <3>3 DEF IndexInv
  <2>3. CASE Goto(0, "failed") /\ UNCHANGED <<tmp, fd>>
    <3>1. pc'[0] = "failed"
      BY <1>types, <2>3 DEF Goto, TypeOK
    <3>2. QED
      BY <1>1, <2>1, <2>3, <3>1 DEF IndexInv
  <2>4. QED
    BY <1>2, <2>2, <2>3 DEF Open
<1>3. ASSUME NEW f \in Index, NEW l \in {"meta", "ready"}, Close(0, f), Goto(0, l),
             \/ f = 0 /\ l = AfterKeys(0) /\ pc[0] = "file"
             \/ f = Meta /\ l = "ready" /\ pc[0] = "metafile"
      PROVE  IndexInv'
  <2>1. fd[0] = "tmp"
    BY <1>types, <1>3 DEF Shape, IndexInv, TypeOK
  <2>2. /\ tmp' = [tmp EXCEPT ![at[0]][f] = epoch] /\ final' = final
        /\ fd' = [fd EXCEPT ![0] = "none"]
    BY <1>3, <2>1 DEF Close
  <2>3. /\ tmp'[at[0]][f] = epoch /\ (f # 0 => tmp'[at[0]][0] = tmp[at[0]][0])
        /\ fd'[0] = "none" /\ pc'[0] = l
    BY <1>types, <1>1, <1>3, <2>2 DEF Goto, TypeOK, Index
  <2>4. IndexComplete'
    BY <1>1, <2>2, IndexKept DEF IndexInv
  <2>5. QED
    BY <1>1, <1>3, <2>3, <2>4 DEF IndexInv, AfterKeys
<1>4. 0 \in Index /\ Meta \in Index
  BY DEF Index
<1>5. CASE OpenFile(0)
  <2>1. Open(0, 0, "file") /\ UNCHANGED final
    BY <1>5 DEF OpenFile
  <2>2. QED
    BY <1>types, <1>2, <1>4, <2>1
<1>6. CASE EndFile(0)
  BY <1>3, <1>4, <1>6 DEF EndFile, AfterKeys
<1>7. CASE OpenMeta(0)
  BY <1>types, <1>2, <1>4, <1>7 DEF OpenMeta
<1>8. CASE EndMeta(0)
  BY <1>3, <1>4, <1>8 DEF EndMeta
<1>9. QED
  BY <1>5, <1>6, <1>7, <1>8

(* renames the directory that has both,                                    *)
LEMMA ZeroPublishesIndex ==
  ASSUME TInv, Shape, IndexInv, Commit(0)
  PROVE  IndexInv'
<1>types. TypeOK /\ 0 \in Ranks /\ at[0] \in Paths /\ pc[0] = "commit" /\ fd[0] = "none"
  BY ZeroIsRank DEF TInv, Position, AtWork, Commit, Shape
<1>1. UNCHANGED <<files, epoch>>
  BY DEF Commit
<1>2. CASE Publish(at[0]) /\ Return(0)
  <2>1. /\ pc'[0] = "idle" /\ fd'[0] # "final"
        /\ finalDir' = finalDir \union {at[0]} /\ final' = [final EXCEPT ![at[0]] = tmp[at[0]]]
    BY <1>types, <1>2 DEF Return, Goto, Publish, TypeOK, IndexInv
  <2>2. IndexComplete'
    <3>1. SUFFICES ASSUME NEW p \in finalDir'
                   PROVE  \E e \in Epochs :
                            \A f \in {0, Meta} \intersect files : final'[p][f] = e
      BY <1>1 DEF IndexComplete
    <3>2. CASE p = at[0]
      <4>1. final'[p] = tmp[at[0]] /\ epoch \in Epochs
        BY <1>types, <2>1, <3>2 DEF TypeOK
      <4>2. \A f \in {0, Meta} \intersect files : tmp[at[0]][f] = epoch
        BY <1>types DEF IndexInv
      <4>3. QED
        BY <4>1, <4>2
    <3>3. CASE p # at[0]
      <4>1. p \in finalDir /\ final'[p] = final[p]
        BY <1>types, <2>1, <3>1, <3>3 DEF TypeOK
      <4>2. PICK e \in Epochs : \A f \in {0, Meta} \intersect files : final[p][f] = e
        BY <4>1, Zenon DEF IndexInv, IndexComplete
      <4>3. \A f \in {0, Meta} \intersect files : final'[p][f] = e
        BY <4>1, <4>2
      <4>4. QED
        BY <4>3
    <3>4. QED
      BY <3>2, <3>3
  <2>3. QED
    BY <2>1, <2>2 DEF IndexInv
<1>3. CASE (Goto(0, "failed") \/ Goto(0, "idle")) /\ UNCHANGED <<diskVars, fd>>
  <2>1. pc'[0] \in {"failed", "idle"} /\ UNCHANGED <<fd, finalDir, final>>
    BY <1>types, <1>3 DEF Goto, diskVars, TypeOK
  <2>2. IndexComplete'
    BY <1>1, <2>1, IndexKept DEF IndexInv
  <2>3. QED
    BY <2>1, <2>2 DEF IndexInv
<1>4. QED
  BY <1>2, <1>3 DEF Commit, Return

(* and otherwise leaves the files alone.                                   *)
LEMMA ZeroMovesIndex ==
  ASSUME TInv, IndexInv,
         BeginWrite(0) \/ BarrierArrive(0) \/ BarrierPass(0) \/ BarrierTimeout(0)
           \/ WriteFails(0) \/ Die(0) \/ Retry(0)
  PROVE  IndexInv'
<1>types. TypeOK /\ 0 \in Ranks
  BY ZeroIsRank DEF TInv
<1>1. UNCHANGED <<files, epoch, finalDir, tmp, final>>
  BY DEF BeginWrite, BarrierArrive, BarrierPass, BarrierTimeout, WriteFails, Die, Retry, diskVars
<1>2. IndexComplete'
  BY <1>1, IndexKept DEF IndexInv
<1>3. fd'[0] \in {fd[0], "none"}
  BY <1>types DEF BeginWrite, BarrierArrive, BarrierPass, BarrierTimeout, WriteFails, Die, Retry,
                  TypeOK
<1>4. CASE BeginWrite(0)
  <2>1. at' = at
    BY <1>4 DEF BeginWrite
  <2>2. \/ pc' = [pc EXCEPT ![0] = "open"]
        \/ 0 \notin files /\ pc' = [pc EXCEPT ![0] = "meta"]
        \/ 0 \notin files /\ Meta \notin files /\ pc' = [pc EXCEPT ![0] = "ready"]
    BY <1>4 DEF BeginWrite, Goto, AfterKeys
  <2>3. pc \in [Ranks -> Pcs]
    BY <1>types DEF TypeOK
  <2>4. \/ pc'[0] = "open"
        \/ 0 \notin files /\ pc'[0] = "meta"
        \/ 0 \notin files /\ Meta \notin files /\ pc'[0] = "ready"
    <3>1. \A l \in Pcs : pc' = [pc EXCEPT ![0] = l] => pc'[0] = l
      BY <1>types, <2>3
    <3>2. "open" \in Pcs /\ "meta" \in Pcs /\ "ready" \in Pcs
      BY DEF Pcs
    <3>3. QED
      BY <2>2, <3>1, <3>2
  <2>5. QED
    BY <1>1, <1>2, <1>3, <2>1, <2>4 DEF IndexInv
<1>5. CASE BarrierArrive(0) \/ BarrierPass(0)
  <2>1. at' = at /\ pc'[0] \in {"wait", "commit"} /\ pc[0] \in {"ready", "wait"}
    BY <1>types, <1>5 DEF BarrierArrive, BarrierPass, Goto, TypeOK
  <2>2. QED
    BY <1>1, <1>2, <1>3, <2>1 DEF IndexInv
<1>6. CASE BarrierTimeout(0) \/ WriteFails(0) \/ Die(0) \/ Retry(0)
  <2>1. pc'[0] \in {"failed", "dead", "idle"}
    BY <1>types, <1>6 DEF BarrierTimeout, WriteFails, Die, Retry, Goto, TypeOK
  <2>2. QED
    BY <1>2, <1>3, <2>1 DEF IndexInv
<1>7. QED
  BY <1>4, <1>5, <1>6

LEMMA StepIndex == TInv /\ Shape /\ IndexInv /\ [Next]_vars => IndexInv'
<1> SUFFICES ASSUME TInv, Shape, IndexInv, [Next]_vars PROVE IndexInv'
  OBVIOUS
<1>1. ASSUME UNCHANGED <<files, epoch, finalDir>>,
             pc'[0] = pc[0], at'[0] = at[0], fd'[0] = fd[0], at[0] \in Paths \/ pc[0] \notin AtWork,
             \A x \in Paths, f \in Index : tmp'[x][f] = tmp[x][f] /\ final'[x][f] = final[x][f]
      PROVE  IndexInv'
  <2>1. IndexComplete'
    BY <1>1, IndexKept DEF IndexInv
  <2>2. QED
    BY <1>1, <2>1 DEF IndexInv, Index, AtWork
<1>2. at[0] \in Paths \/ pc[0] \notin AtWork
  BY ZeroIsRank DEF TInv, Position
<1>3. ASSUME NEW r \in Ranks, r # 0,
             WriterSteps(r) \/ BarrierTimeout(r) \/ WriteFails(r) \/ Die(r) \/ Retry(r)
      PROVE  IndexInv'
  BY <1>1, <1>2, <1>3, OthersKeepIndex
<1>4. ASSUME WriterSteps(0) \/ BarrierTimeout(0) \/ WriteFails(0) \/ Die(0) \/ Retry(0)
      PROVE  IndexInv'
  BY <1>4, ZeroWritesIndex, ZeroPublishesIndex, ZeroMovesIndex DEF WriterSteps
<1>5. ASSUME NEW p \in 1 .. (MaxPaths + 1), Restart(p)
      PROVE  IndexInv'
  <2>1. /\ UNCHANGED <<files, finalDir, final>> /\ pc'[0] \in {"idle", "out"}
        /\ fd'[0] = "none"
    BY <1>5, ZeroIsRank DEF Restart, diskVars
  <2>2. IndexComplete'
    BY <2>1, IndexKept DEF IndexInv
  <2>3. QED
    BY <2>1, <2>2 DEF IndexInv
<1>6. CASE UNCHANGED vars
  BY <1>1, <1>2, <1>6 DEF vars, diskVars
<1>7. QED
  BY <1>3, <1>4, <1>5, <1>6 DEF Next

(* Whatever the trainers retry, what stands at a path has the complete     *)
(* metadata and the complete file of rank 0, of one run of the job.        *)
THEOREM CommitIndexComplete == Spec => []IndexComplete
<1>1. Init => IndexInv
  <2>1. SUFFICES ASSUME Init PROVE IndexInv
    OBVIOUS
  <2>2. /\ pc = [r \in Ranks |-> IF r \in World(1) THEN "idle" ELSE "out"]
        /\ fd = [r \in Ranks |-> "none"] /\ finalDir = {} /\ 0 \in Ranks
    BY <2>1, ZeroIsRank DEF Init
  <2>3. pc[0] \in {"idle", "out"} /\ fd[0] = "none"
    BY <2>2
  <2>4. QED
    BY <2>2, <2>3 DEF IndexInv, IndexComplete
<1>2. IndexInv => IndexComplete
  BY DEF IndexInv
<1>3. QED
  BY <1>1, <1>2, InitTInv, StepTInv, InitShape, StepShape, StepIndex, PTL DEF Spec
=============================================================================
