---------------------------- MODULE TensorSlices ----------------------------
(***************************************************************************)
(* The geometry of sharded tensors: which part of a tensor a rank of a     *)
(* mesh holds (dtensor_metadata.py), and the arithmetic on such parts that *)
(* loading and exporting a checkpoint rest on (default_resharder.py,       *)
(* tensor_slice.py).                                                       *)
(*                                                                         *)
(* A shape is a sequence of naturals.  A box is a region of a tensor: its  *)
(* offsets and its sizes, one of each per dimension; its cells are index   *)
(* tuples.  A sharding is the metadata of a DTensor without its dtype and  *)
(* stride: global shape, mesh and one placement per mesh dimension, the    *)
(* tensor dimension that is sharded or 0 for a replicated one.             *)
(***************************************************************************)
EXTENDS Integers, SequencesExt

Least(a, b) == IF a < b THEN a ELSE b
Most(a, b) == IF a > b THEN a ELSE b

(* The number of cells of the dimensions of a shape from the kth on. *)
VolumeFrom(shape, k) ==
  LET of[d \in 0 .. Len(shape)] ==   \* of the last d dimensions
        IF d = 0 THEN 1 ELSE shape[Len(shape) + 1 - d] * of[d - 1]
  IN  of[Len(shape) + 1 - k]

Volume(shape) == VolumeFrom(shape, 1)

Box(off, size) == [off |-> off, size |-> size]
End(box, d) == box.off[d] + box.size[d]
Whole(shape) == Box([d \in DOMAIN shape |-> 0], shape)

Inside(x, box) == \A d \in DOMAIN x : box.off[d] <= x[d] /\ x[d] < End(box, d)

Cells(box) ==
  {x \in [DOMAIN box.off -> UNION {box.off[d] .. (End(box, d) - 1) : d \in DOMAIN box.off}] :
     Inside(x, box)}

Plus(x, y) == [d \in DOMAIN x |-> x[d] + y[d]]
-----------------------------------------------------------------------------
(* Meshes *)

Replicate == 0

(* DTensorShardingMetadata: a mesh names each of its ranks once.           *)
IsSharding(s) ==
  /\ s.shape \in Seq(Nat)
  /\ s.mesh.shape \in Seq(Nat \ {0})
  /\ s.mesh.data \in Seq(Nat) /\ IsInjective(s.mesh.data)
  /\ Len(s.mesh.data) = Volume(s.mesh.shape)
  /\ s.place \in [DOMAIN s.mesh.shape -> 0 .. Len(s.shape)]

(* equivalent_ranks *)
RanksIn(s) == ToSet(s.mesh.data)

(* Row-major strides. *)
Strides(shape) == [d \in DOMAIN shape |-> VolumeFrom(shape, d + 1)]

(* get_coordinate: a mesh lists its ranks in the row-major order of their  *)
(* coordinates.                                                            *)
Coordinate(mesh, r) ==
  LET at == (CHOOSE i \in DOMAIN mesh.data : mesh.data[i] = r) - 1
  IN  [d \in DOMAIN mesh.shape |-> (at \div Strides(mesh.shape)[d]) % mesh.shape[d]]

(* The ith of the parts torch.chunk cuts n into: as long as the first one, *)
(* until the elements run out; the parts after that are empty, at the end. *)
Chunk(n, parts, i) ==
  LET full == (n + parts - 1) \div parts
      off == Least(n, full * i)
  IN  [off |-> off, size |-> Least(full, n - off)]

(* The part of box b that is left to coordinate i of a mesh dimension of   *)
(* m ranks with placement d.                                               *)
Narrow(b, d, m, i) ==
  IF d = Replicate THEN b
  ELSE LET c == Chunk(b.size[d], m, i)
       IN  Box([b.off EXCEPT ![d] = @ + c.off], [b.size EXCEPT ![d] = c.size])

(* compute_local_shard_info: the mesh dimensions cut one after the other.  *)
LocalShard(s, r) ==
  LET at == Coordinate(s.mesh, r)
      cut[k \in 0 .. Len(s.place)] ==
        IF k = 0 THEN Whole(s.shape)
        ELSE Narrow(cut[k - 1], s.place[k], s.mesh.shape[k], at[k])
  IN  cut[Len(s.place)]
-----------------------------------------------------------------------------
(* Regions *)

(* _intersect_slices finds an intersection ...                             *)
Meets(a, b) ==
  /\ Len(a.off) = Len(b.off)
  /\ \A d \in DOMAIN a.off : Most(a.off[d], b.off[d]) < Least(End(a, d), End(b, d))

(* ... which is this one.                                                  *)
Overlap(a, b) ==
  Box([d \in DOMAIN a.off |-> Most(a.off[d], b.off[d])],
      [d \in DOMAIN a.off |-> Least(End(a, d), End(b, d)) - Most(a.off[d], b.off[d])])

(* _global_to_local_slice *)
Local(box, origin) == Box([d \in DOMAIN box.off |-> box.off[d] - origin[d]], box.size)

(* _validate_source_slice_bounds *)
InBounds(shape, box) ==
  /\ Len(box.off) = Len(shape)
  /\ \A d \in DOMAIN shape : 0 <= box.off[d] /\ 0 <= box.size[d] /\ End(box, d) <= shape[d]

(* The place of a cell in a packed tensor. *)
Flat(shape, x) ==
  FoldLeft(LAMBDA n, d : n + x[d] * Strides(shape)[d], 0, [d \in DOMAIN shape |-> d])

(* Mutant: a region is contiguous when its last dimension is whole. *)
LastDimensionWhole(shape, box) ==
  Len(shape) = 0 \/ box.size[Len(shape)] = shape[Len(shape)]

(* contiguous_global_element_range: the cells of the region follow one     *)
(* another in the packed tensor.                                           *)
IsContiguous(shape, box) ==
  LET last == [d \in DOMAIN shape |-> End(box, d) - 1]
  IN  \/ Volume(box.size) = 0
      \/ Flat(shape, last) - Flat(shape, box.off) + 1 = Volume(box.size)
=============================================================================
