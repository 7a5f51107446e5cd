-------------------------- MODULE MetadataManager --------------------------
(***************************************************************************)
(* How the ranks of a job agree on the metadata of a checkpoint:           *)
(* DefaultMetadataManager (metadata_manager.py) on every rank, over the    *)
(* collectives of a process group, as the savers use it                    *)
(* (_get_serialized_metadata in checkpoint_saver.py).                      *)
(*                                                                         *)
(* The training program is the same on every rank: a sequence of calls,    *)
(* each with a configuration, which says what every rank holds at that     *)
(* call.  The ranks run it at their own pace and meet only in collectives: *)
(* the nth collective a rank issues meets the nth of every other rank,     *)
(* whatever the two were issued for.                                       *)
(*                                                                         *)
(* A path stands for a path within an item that has a resharder; what a    *)
(* rank has there is a member of Shards, whose "equiv" is equivalent_ranks *)
(* (empty for None).                                                       *)
(***************************************************************************)
EXTENDS Integers, Sequences, FiniteSetsExt

CONSTANTS
  N,            \* the number of ranks
  ItemPaths,    \* the paths of the items
  Shards,       \* what a rank may hold at a path
  Layouts,      \* the files a rank may be told to write
  None,         \* nothing there
  Configs,      \* the configurations of the job
  MaxCalls,     \* bound: calls of the program
  Faults        \* subset of {"extract"}

Ranks == 0 .. (N - 1)

Locals == [ItemPaths -> Shards \union {None}]

(* equivalent_ranks is the truth: these ranks hold the same metadata.      *)
Truthful(local) ==
  \A r \in Ranks, p \in ItemPaths :
    local[r][p] # None /\ local[r][p].equiv # {} =>
      /\ r \in local[r][p].equiv
      /\ \A q \in local[r][p].equiv : local[q][p] = local[r][p]

ASSUME MetadataAssumption ==
  /\ N \in Nat \ {0, 1}
  /\ Shards \subseteq [id : Nat, equiv : SUBSET Ranks] /\ None \notin Shards
  /\ None \notin Layouts
  /\ Configs \subseteq [local : [Ranks -> Locals], layout : [Ranks -> Layouts \union {None}]]
  /\ \A c \in Configs : Truthful(c.local)
  /\ MaxCalls \in Nat

Ops == {"save", "validated", "compute", "invalidate"}
Calls == [op : Ops, conf : Configs]

Groups == [shard : Shards, ranks : SUBSET Ranks]
Globals == [groups : [ItemPaths -> SUBSET Groups], layout : [Ranks -> Layouts \union {None}]]
Caches == [local : Locals, layout : Layouts \union {None}, global : Globals]

ASSUME NoneIsNoCache == None \notin Caches

VARIABLES
  calls,        \* the program, as far as some rank has come
  pos,          \* the call each rank is in, or has completed
  pc,           \* "idle" between calls, "wait" in a collective, "stopped"
  step,         \* the collective of the protocol a rank waits in
  posted,       \* what each rank has issued on the process group
  computed,     \* _computed_metadata with _computed_layout_info
  serialized,   \* _serialized_metadata
  got           \* history: what each call of a rank came to

vars == <<calls, pos, pc, step, posted, computed, serialized, got>>
-----------------------------------------------------------------------------
(* Metadata *)

(* _compact: only the representative of a mesh sends its entry.            *)
Compact(r, local) ==
  [p \in ItemPaths |->
     IF local[p] # None /\ local[p].equiv # {} /\ r # Min(local[p].equiv)
     THEN None ELSE local[p]]

(* Mutant: the ranks of a group are those that sent it. *)
RanksThatSent(sent, p, s) == {r \in DOMAIN sent : sent[r][p] = s}

(* The ranks that hold s at p: the mesh, or all that have sent it.         *)
RanksOf(sent, p, s) ==
  IF s.equiv # {} THEN s.equiv ELSE {r \in DOMAIN sent : sent[r][p] = s}

(* _merge_object_metadata_from_ranks: group by what is held.               *)
Merge(sent) ==
  [p \in ItemPaths |->
     {[shard |-> s, ranks |-> RanksOf(sent, p, s)] :
        s \in {sent[r][p] : r \in DOMAIN sent} \ {None}}]

(* The metadata of an item that no rank has anything of is left out, with  *)
(* its layouts.                                                            *)
Aggregate(sent, layout) ==
  LET groups == Merge(sent)
  IN  [groups |-> groups,
       layout |-> IF \E p \in ItemPaths : groups[p] # {} THEN layout
                  ELSE [r \in Ranks |-> None]]

(* DistributedMetadata.__post_init__: no two ranks write one file.         *)
Valid(global) ==
  \A r, q \in Ranks :
    r # q /\ global.layout[r] # None => global.layout[r] # global.layout[q]

(* _cache_matches *)
CacheMatches(cache, local, layout) ==
  cache # None /\ cache.local = local /\ cache.layout = layout
-----------------------------------------------------------------------------
Protocol == <<"agree", "size", "metadata", "size", "layout">>

Entries ==
  [op : {"agree"}, data : BOOLEAN] \union
  [op : {"size"}, data : {0}] \union
  [op : {"metadata"}, data : Locals] \union
  [op : {"layout"}, data : Layouts \union {None}]

NoComputed == [r \in Ranks |-> None]

Results ==
  [status : {"ok"}, global : Globals] \union [status : {"done", "error"}, global : {None}]

TypeOK ==
  /\ calls \in Seq(Calls) /\ Len(calls) <= MaxCalls
  /\ pos \in [Ranks -> 0 .. MaxCalls]
  /\ pc \in [Ranks -> {"idle", "wait", "stopped"}]
  /\ step \in [Ranks -> DOMAIN Protocol]
  /\ posted \in [Ranks -> Seq(Entries)]
  /\ computed \in [Ranks -> {None} \union Caches]
  /\ serialized \in [Ranks -> {None} \union Globals]
  /\ got \in [Ranks -> Seq(Results)]

Init ==
  /\ calls = <<>>
  /\ pos = [r \in Ranks |-> 0]
  /\ pc = [r \in Ranks |-> "idle"]
  /\ step = [r \in Ranks |-> 1]
  /\ posted = [r \in Ranks |-> <<>>]
  /\ computed = NoComputed
  /\ serialized = NoComputed
  /\ got = [r \in Ranks |-> <<>>]
-----------------------------------------------------------------------------
(* The next call of r is op, with configuration c: the first rank to come  *)
(* to a call says which it is.                                             *)
Begin(r, op, c) ==
  /\ pc[r] = "idle" /\ pos[r] < MaxCalls
  /\ pos' = [pos EXCEPT ![r] = @ + 1]
  /\ \/ pos[r] < Len(calls) /\ calls[pos[r] + 1] = [op |-> op, conf |-> c] /\ UNCHANGED calls
     \/ pos[r] = Len(calls) /\ calls' = Append(calls, [op |-> op, conf |-> c])

Return(r, status, global) ==
  got' = [got EXCEPT ![r] = Append(@, [status |-> status, global |-> global])]

Matches(r, c) == CacheMatches(computed[r], c.local[r], c.layout[r])

(* Mutant: the serialized form survives. *)
ForgetComputed(r) ==
  /\ computed' = [computed EXCEPT ![r] = None]
  /\ UNCHANGED serialized

(* invalidate_computed_metadata *)
Forget(r) ==
  /\ computed' = [computed EXCEPT ![r] = None]
  /\ serialized' = [serialized EXCEPT ![r] = None]

Invalidate(r, c) ==
  /\ Begin(r, "invalidate", c)
  /\ Forget(r)
  /\ Return(r, "done", None)
  /\ UNCHANGED <<pc, step, posted>>

(* Mutant: this rank's part is serialized with the global one. *)
SerializeAll(r) ==
  LET all == IF serialized[r] = None THEN computed'[r] ELSE serialized[r]
  IN  /\ serialized' = [serialized EXCEPT ![r] = all]
      /\ Return(r, "ok", all)

(* get_serialized_computed_metadata, for a save: serialized on first use.  *)
Serialize(r) ==
  LET global == IF serialized[r] = None THEN computed'[r].global ELSE serialized[r]
  IN  /\ serialized' = [serialized EXCEPT ![r] = global]
      /\ Return(r, "ok", global)

(* Mutant: a validated save that raises also drops the cache. *)
SaveDrops(r, c) ==
  \E op \in {"save", "validated"} :
    /\ Begin(r, op, c)
    /\ computed[r] # None
    /\ UNCHANGED <<pc, step, posted>>
    /\ IF op = "validated" /\ ~Matches(r, c)
       THEN Return(r, "error", None) /\ Forget(r)
       ELSE UNCHANGED computed /\ Serialize(r)

(* _get_serialized_metadata with something cached: a validated save raises *)
(* if what this rank holds has changed.                                    *)
SaveCached(r, c) ==
  \E op \in {"save", "validated"} :
    /\ Begin(r, op, c)
    /\ computed[r] # None
    /\ UNCHANGED <<pc, step, posted, computed>>
    /\ IF op = "validated" /\ ~Matches(r, c)
       THEN Return(r, "error", None) /\ UNCHANGED serialized
       ELSE Serialize(r)

(* A call that issues collectives: a save with nothing cached, a compute.  *)
Computes(r, op) == op = "compute" \/ (op \in {"save", "validated"} /\ computed[r] = None)

Post(r, op, data) ==
  posted' = [posted EXCEPT ![r] = Append(@, [op |-> op, data |-> data])]

(* compute_distributed_metadata up to _all_ranks_agree.                    *)
StartCompute(r, c) ==
  \E op \in Ops :
    /\ Computes(r, op)
    /\ Begin(r, op, c)
    /\ pc' = [pc EXCEPT ![r] = "wait"]
    /\ step' = [step EXCEPT ![r] = 1]
    /\ Post(r, "agree", Matches(r, c))
    /\ UNCHANGED <<computed, serialized, got>>

(* A resharder raises before this rank has issued a collective.            *)
ExtractFails(r, c) ==
  \E op \in Ops :
    /\ "extract" \in Faults
    /\ Computes(r, op)
    /\ Begin(r, op, c)
    /\ pc' = [pc EXCEPT ![r] = "stopped"]
    /\ UNCHANGED <<step, posted, computed, serialized, got>>
-----------------------------------------------------------------------------
(* The collective r waits in: the last it has issued, which every rank     *)
(* has, as the same operation.  Different ones never complete.             *)
Last(r) == Len(posted[r])

Complete(r, op) ==
  /\ pc[r] = "wait" /\ Protocol[step[r]] = op
  /\ \A q \in Ranks : Len(posted[q]) >= Last(r) /\ posted[q][Last(r)].op = op

(* What every rank has given to the collective k before it.                *)
Received(r, k) == [q \in Ranks |-> posted[q][Last(r) - k].data]

Conf(r) == calls[pos[r]].conf

EndCompute(r) ==
  /\ pc' = [pc EXCEPT ![r] = "idle"]
  /\ IF calls[pos[r]].op = "compute"
     THEN Return(r, "ok", computed'[r].global) /\ UNCHANGED serialized
     ELSE Serialize(r)
  /\ UNCHANGED <<calls, pos, step, posted>>

(* Mutant: a rank looks at its own flag. *)
AgreeAlone(r) == posted[r][Last(r)].data

(* _all_ranks_agree: the minimum of the flags.                             *)
Agree(r) == \A q \in Ranks : Received(r, 0)[q]

Keep(r) ==
  /\ Complete(r, "agree") /\ Agree(r)
  /\ UNCHANGED computed
  /\ EndCompute(r)

(* Mutant: what is cached stays until it is replaced. *)
RecomputeKeeps(r) ==
  /\ Complete(r, "agree") /\ ~Agree(r)
  /\ Post(r, "size", 0)
  /\ step' = [step EXCEPT ![r] = @ + 1]
  /\ UNCHANGED <<calls, pos, pc, computed, serialized, got>>

(* Some rank has changed: forget, and gather the metadata of every rank.   *)
Recompute(r) ==
  /\ Complete(r, "agree") /\ ~Agree(r)
  /\ Forget(r)
  /\ Post(r, "size", 0)
  /\ step' = [step EXCEPT ![r] = @ + 1]
  /\ UNCHANGED <<calls, pos, pc, got>>

(* _all_gather_pickled_data pads to the largest size, then gathers.        *)
Sized(r) ==
  /\ Complete(r, "size")
  /\ step' = [step EXCEPT ![r] = @ + 1]
  /\ IF Protocol[step[r] + 1] = "metadata"
     THEN Post(r, "metadata", Compact(r, Conf(r).local[r]))
     ELSE Post(r, "layout", Conf(r).layout[r])
  /\ UNCHANGED <<calls, pos, pc, computed, serialized, got>>

Gathered(r) ==
  /\ Complete(r, "metadata")
  /\ step' = [step EXCEPT ![r] = @ + 1]
  /\ Post(r, "size", 0)
  /\ UNCHANGED <<calls, pos, pc, computed, serialized, got>>

(* _aggregate_metadata, with what the two gathers have brought.            *)
Aggregated(r) ==
  LET global == Aggregate(Received(r, 2), Received(r, 0))
  IN  /\ Complete(r, "layout")
      /\ IF Valid(global)
         THEN /\ computed' = [computed EXCEPT ![r] =
                   [local |-> Conf(r).local[r], layout |-> Conf(r).layout[r],
                    global |-> global]]
              /\ EndCompute(r)
         ELSE /\ pc' = [pc EXCEPT ![r] = "idle"]
              /\ Return(r, "error", None)
              /\ UNCHANGED <<calls, pos, step, posted, computed, serialized>>
-----------------------------------------------------------------------------
Starts(r) ==
  \E c \in Configs :
    Invalidate(r, c) \/ SaveCached(r, c) \/ StartCompute(r, c) \/ ExtractFails(r, c)

Collectives(r) == Keep(r) \/ Recompute(r) \/ Sized(r) \/ Gathered(r) \/ Aggregated(r)

Next == \E r \in Ranks : Starts(r) \/ Collectives(r)

Spec == Init /\ [][Next]_vars

(* Every rank runs its program on.                                         *)
Fairness == \A r \in Ranks : WF_vars(Starts(r)) /\ WF_vars(Collectives(r))

FairSpec == Spec /\ Fairness
-----------------------------------------------------------------------------
(* What the metadata of a configuration should be: at every path, who      *)
(* holds what.                                                             *)
Reference(c) ==
  LET groups == [p \in ItemPaths |->
        {[shard |-> s, ranks |-> {r \in Ranks : c.local[r][p] = s}] :
           s \in {c.local[r][p] : r \in Ranks} \ {None}}]
  IN  [groups |-> groups,
       layout |-> IF \E p \in ItemPaths : groups[p] # {} THEN c.layout
                  ELSE [r \in Ranks |-> None]]

Returned(r, k, status) == k <= Len(got[r]) /\ got[r][k].status = status

(* Ranks that meet in a collective have issued the same one, for the same  *)
(* step of the protocol: the decision to recompute is common, although     *)
(* each rank sees only its own changes and runs at its own pace.           *)
CollectivesMatch ==
  \A r, q \in Ranks :
    \A n \in DOMAIN posted[r] \intersect DOMAIN posted[q] :
      posted[r][n].op = posted[q][n].op

(* compute_distributed_metadata: it keeps the cache only if every rank's   *)
(* metadata and layouts still match it, and otherwise recomputes.  What    *)
(* any rank has after it is exactly who holds what now.                    *)
ComputeIsCurrent ==
  \A r \in Ranks : \A k \in DOMAIN got[r] :
    calls[k].op = "compute" /\ Returned(r, k, "ok") =>
      got[r][k].global = Reference(calls[k].conf)

(* If a validated save succeeds on every rank, the metadata it writes is   *)
(* that of what the ranks hold at this save, although it was computed at   *)
(* an earlier call and each rank has compared only its own part.           *)
ValidatedIsCurrent ==
  \A k \in DOMAIN calls :
    calls[k].op = "validated" /\ (\A r \in Ranks : Returned(r, k, "ok")) =>
      \A r \in Ranks : got[r][k].global = Reference(calls[k].conf)

(* A failed aggregation must not leave the old metadata in place: a save   *)
(* after a compute that raised writes what was computed since.             *)
FailureForgets ==
  \A r \in Ranks : \A j, k \in DOMAIN got[r] :
    j < k /\ calls[j].op = "compute" /\ Returned(r, j, "error") /\ Returned(r, k, "ok") =>
      \E i \in (j + 1) .. k : got[r][k].global = Reference(calls[i].conf)

(* No rank waits for ever in a collective that another one skips: unless   *)
(* a rank has stopped, every rank comes to the end of the program.         *)
EveryRankFinishes ==
  (\A r \in Ranks : <>(pos[r] = MaxCalls /\ pc[r] = "idle"))
    \/ <>(\E r \in Ranks : pc[r] = "stopped")
=============================================================================
