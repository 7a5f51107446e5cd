---------------------------- MODULE ReshardPlans ----------------------------
(***************************************************************************)
(* Which parts of which source files fill the tensors of a rank: the load  *)
(* plans of DefaultResharder (default_resharder.py) and what reduces them  *)
(* (resharding_utils.py).                                                  *)
(*                                                                         *)
(* The metadata of a path in a checkpoint is a sequence of groups: a       *)
(* sharding and the ranks, in order, that had it.  Foreign is a            *)
(* ShardingMetadata of another resharder.                                  *)
(***************************************************************************)
EXTENDS TensorSlices

CONSTANT Foreign

(* A LoadPlan: box is the chunk within the target's local tensor, srcOff   *)
(* where it begins in the tensor that the file of rank holds.              *)
LoadPlan(path, box, rank, srcOff) ==
  [path |-> path, box |-> box, rank |-> rank, srcOff |-> srcOff]

(* The elements of s at some places, in their order.                       *)
Selected(s, places) ==
  LET upto[n \in 0 .. Len(s)] ==
        IF n = 0 THEN <<>> ELSE IF n \in places THEN Append(upto[n - 1], s[n]) ELSE upto[n - 1]
  IN  upto[Len(s)]

(* The first elements of s of each key.                                    *)
Firsts(key, s) == Selected(s, {n \in DOMAIN s : \A m \in 1 .. (n - 1) : key[m] # key[n]})

(* The numbers of a sequence, each once.                                   *)
Different[s \in Seq(Nat)] == Firsts(s, s)

(* The shards of the groups, each with the first rank that holds it.       *)
HeldIn(g) ==
  [n \in DOMAIN g.ranks |-> [rank |-> g.ranks[n], box |-> LocalShard(g.sharding, g.ranks[n])]]
Distinct(shards) == Firsts([n \in DOMAIN shards |-> shards[n].box], shards)
SourceShards(groups) == Distinct(FlattenSeq([n \in DOMAIN groups |-> HeldIn(groups[n])]))

PlanFor(path, shard, target) ==
  LET both == Overlap(shard.box, target)
  IN  LoadPlan(path, Local(both, target.off), shard.rank, Local(both, shard.box.off).off)

(* The plans of a path: one for each source shard that meets the target.   *)
Meeting(shards, target) == Selected(shards, {n \in DOMAIN shards : Meets(shards[n].box, target)})
PlansFor(path, shards, target) == [n \in DOMAIN shards |-> PlanFor(path, shards[n], target)]
AllPlans(path, groups, target) == PlansFor(path, Meeting(SourceShards(groups), target), target)

(* Mutant: chunks are told apart by their first dimension only. *)
FirstDimension(plans) == Firsts([n \in DOMAIN plans |-> plans[n].box.off[1]], plans)

(* deduplicate_source_chunks: of the chunks that begin at the same place   *)
(* of the target, the one of the lowest rank; a place keeps its turn.      *)
Lowest(plan, all) ==
  CHOOSE p \in all :
    /\ p.box.off = plan.box.off
    /\ \A q \in all : q.box.off = plan.box.off => p.rank <= q.rank
EachLowest(first, all) == [n \in DOMAIN first |-> Lowest(first[n], all)]
Deduplicated(plans) ==
  EachLowest(Firsts([n \in DOMAIN plans |-> plans[n].box.off], plans), ToSet(plans))

(* _generate_load_plans, for one path: groups is empty when the checkpoint *)
(* does not have the path.                                                 *)
Reshardable(sharding, groups) ==
  /\ sharding # Foreign
  /\ groups # <<>>
  /\ \A i \in DOMAIN groups : groups[i].sharding # Foreign

Plans(path, sharding, groups, me) ==
  IF Reshardable(sharding, groups)
  THEN Deduplicated(AllPlans(path, groups, LocalShard(sharding, me)))
  ELSE <<>>

(* A path without a plan is reported, unless there is nothing to load.     *)
Unplanned(path, sharding, groups, me) ==
  \/ ~Reshardable(sharding, groups)
  \/ /\ Plans(path, sharding, groups, me) = <<>>
     /\ Volume(LocalShard(sharding, me).size) > 0

(* dedupe_aliased_targets: the last of the paths that share a tensor.      *)
LastOfAliases(paths, buf) ==
  {i \in DOMAIN paths : \A j \in DOMAIN paths : buf[paths[j]] = buf[paths[i]] => j <= i}
=============================================================================
