------------------------- MODULE TensorSlicesProofs -------------------------
(***************************************************************************)
(* The arithmetic of slices, for tensors of every shape and number of      *)
(* dimensions and meshes of every size: what resharding a checkpoint rests *)
(* on and tests can only sample.                                           *)
(*                                                                         *)
(* What a rank holds is the end of a sequence of cuts, one per dimension   *)
(* of the mesh, and so are volumes and the place of a rank in its mesh     *)
(* results of as many steps.  Recursion turns such a definition into a     *)
(* sequence of values; what every step keeps is then shown of the last by  *)
(* AllNaturals: that the part is in the tensor, that two ranks hold the    *)
(* same or are apart along a dimension, that some rank still holds a cell. *)
(* From these follows that the load plans of a target reach all of it.     *)
(***************************************************************************)
EXTENDS ReshardPlans, WellFoundedInduction, FiniteSetTheorems, TLAPS

(* The boxes of n dimensions: anywhere, and those that start in a tensor.  *)
Boxes(n) == [off : [1 .. n -> Nat], size : [1 .. n -> Nat]]
Points(n) == [1 .. n -> Nat]
-----------------------------------------------------------------------------
(* A function on 1 .. n is a sequence of n elements.                       *)
LEMMA TupleLength ==
  ASSUME NEW n \in Nat, NEW f \in [1 .. n -> Int]
  PROVE  Len(f) = n
  OBVIOUS

(* Two boxes as _intersect_slices compares them, dimension by dimension.   *)
LEMMA OverlapAt ==
  ASSUME NEW n \in Nat, NEW a \in Boxes(n), NEW b \in Boxes(n), NEW d \in 1 .. n
  PROVE  /\ a.off[d] \in Nat /\ a.size[d] \in Nat /\ End(a, d) = a.off[d] + a.size[d]
         /\ b.off[d] \in Nat /\ b.size[d] \in Nat /\ End(b, d) = b.off[d] + b.size[d]
         /\ Overlap(a, b).off[d] = Most(a.off[d], b.off[d])
         /\ Overlap(a, b).size[d] = Least(End(a, d), End(b, d)) - Most(a.off[d], b.off[d])
         /\ End(Overlap(a, b), d) = Least(End(a, d), End(b, d))
<1>1. /\ a.off[d] \in Nat /\ a.size[d] \in Nat /\ b.off[d] \in Nat /\ b.size[d] \in Nat
      /\ DOMAIN a.off = 1 .. n
  BY DEF Boxes
<1>2. End(a, d) = a.off[d] + a.size[d] /\ End(b, d) = b.off[d] + b.size[d]
  BY DEF End
<1>3. /\ Overlap(a, b).off[d] = Most(a.off[d], b.off[d])
      /\ Overlap(a, b).size[d] = Least(End(a, d), End(b, d)) - Most(a.off[d], b.off[d])
  BY <1>1 DEF Overlap, Box
<1>4. Least(End(a, d), End(b, d)) \in Int /\ Most(a.off[d], b.off[d]) \in Int
  BY <1>1, <1>2 DEF Least, Most
<1>5. End(Overlap(a, b), d) = Least(End(a, d), End(b, d))
  BY <1>3, <1>4 DEF End
<1> QED
  BY <1>1, <1>2, <1>3, <1>5

(* _intersect_slices gives exactly the cells that two regions have in      *)
(* common ...                                                              *)
THEOREM OverlapIsIntersection ==
  ASSUME NEW n \in Nat, NEW a \in Boxes(n), NEW b \in Boxes(n), NEW x \in Points(n)
  PROVE  Inside(x, Overlap(a, b)) <=> Inside(x, a) /\ Inside(x, b)
<1>1. DOMAIN x = 1 .. n /\ \A d \in 1 .. n : x[d] \in Nat
  BY DEF Points
<1>2. ASSUME NEW d \in 1 .. n
      PROVE  (Overlap(a, b).off[d] <= x[d] /\ x[d] < End(Overlap(a, b), d))
               <=> /\ a.off[d] <= x[d] /\ x[d] < End(a, d)
                   /\ b.off[d] <= x[d] /\ x[d] < End(b, d)
  <2>1. /\ a.off[d] \in Nat /\ a.size[d] \in Nat /\ End(a, d) = a.off[d] + a.size[d]
        /\ b.off[d] \in Nat /\ b.size[d] \in Nat /\ End(b, d) = b.off[d] + b.size[d]
        /\ Overlap(a, b).off[d] = Most(a.off[d], b.off[d])
        /\ End(Overlap(a, b), d) = Least(End(a, d), End(b, d))
    BY OverlapAt
  <2>2. x[d] \in Nat
    BY <1>1
  <2> QED
    BY <2>1, <2>2 DEF Least, Most
<1> QED
  BY <1>1, <1>2 DEF Inside

(* ... and finds none only when there is none: no region is skipped that   *)
(* the target needs, and none is planned that is empty.                    *)
THEOREM MeetsIsCommonCell ==
  ASSUME NEW n \in Nat, NEW a \in Boxes(n), NEW b \in Boxes(n)
  PROVE  Meets(a, b) <=> \E x \in Points(n) : Inside(x, a) /\ Inside(x, b)
<1>1. DOMAIN a.off = 1 .. n /\ Len(a.off) = Len(b.off)
  <2>1. a.off \in Seq(Nat) /\ b.off \in Seq(Nat) /\ Len(a.off) = n /\ Len(b.off) = n
    BY DEF Boxes
  <2> QED
    BY <2>1 DEF Boxes
<1>2. ASSUME Meets(a, b) PROVE \E x \in Points(n) : Inside(x, a) /\ Inside(x, b)
  <2> DEFINE x == [d \in 1 .. n |-> Most(a.off[d], b.off[d])]
  <2>1. \A d \in 1 .. n : x[d] \in Nat
    BY OverlapAt DEF Most
  <2>2. x \in Points(n) /\ DOMAIN x = 1 .. n
    BY <2>1 DEF Points
  <2>3. ASSUME NEW d \in 1 .. n
        PROVE  /\ a.off[d] <= x[d] /\ x[d] < End(a, d)
               /\ b.off[d] <= x[d] /\ x[d] < End(b, d)
    <3>1. x[d] = Most(a.off[d], b.off[d]) /\ x[d] < Least(End(a, d), End(b, d))
      BY <1>1, <1>2 DEF Meets
    <3>2. /\ a.off[d] \in Nat /\ a.size[d] \in Nat /\ End(a, d) = a.off[d] + a.size[d]
          /\ b.off[d] \in Nat /\ b.size[d] \in Nat /\ End(b, d) = b.off[d] + b.size[d]
      BY OverlapAt
    <3> QED
      BY <3>1, <3>2 DEF Least, Most
  <2> QED
    BY <2>2, <2>3 DEF Inside
<1>3. ASSUME NEW x \in Points(n), Inside(x, a), Inside(x, b) PROVE Meets(a, b)
  <2>1. DOMAIN x = 1 .. n /\ \A d \in 1 .. n : x[d] \in Nat
    BY DEF Points
  <2>2. ASSUME NEW d \in 1 .. n PROVE Most(a.off[d], b.off[d]) < Least(End(a, d), End(b, d))
    <3>1. /\ a.off[d] <= x[d] /\ x[d] < End(a, d)
          /\ b.off[d] <= x[d] /\ x[d] < End(b, d)
      BY <1>3, <2>1 DEF Inside
    <3>2. /\ a.off[d] \in Nat /\ a.size[d] \in Nat /\ End(a, d) = a.off[d] + a.size[d]
          /\ b.off[d] \in Nat /\ b.size[d] \in Nat /\ End(b, d) = b.off[d] + b.size[d]
      BY OverlapAt
    <3> QED
      BY <2>1, <3>1, <3>2 DEF Least, Most
  <2> QED
    BY <1>1, <2>2 DEF Meets
<1> QED
  BY <1>2, <1>3
-----------------------------------------------------------------------------
(* A load plan stays in the target and in the source file, and moves every *)
(* cell to where it belongs: the cell of the source shard that a cell of   *)
(* the target is filled from is the same cell of the full tensor.          *)
THEOREM PlanMovesCells ==
  ASSUME NEW n \in Nat, NEW target \in Boxes(n), NEW path, NEW rank,
         NEW origin \in Boxes(n), Meets(origin, target),
         NEW plan, plan = PlanFor(path, [rank |-> rank, box |-> origin], target)
  PROVE  /\ InBounds(target.size, plan.box)
         /\ InBounds(origin.size, Box(plan.srcOff, plan.box.size))
         /\ \A d \in 1 .. n :
              /\ plan.box.size[d] > 0
              /\ \A x \in Nat :
                   origin.off[d] + plan.srcOff[d] + (x - plan.box.off[d]) = target.off[d] + x
<1> DEFINE both == Overlap(origin, target)
<1>1. /\ plan.box = Local(both, target.off)
      /\ plan.srcOff = Local(both, origin.off).off
  BY DEF PlanFor, LoadPlan
<1>2. /\ both.off = [d \in 1 .. n |-> Most(origin.off[d], target.off[d])]
      /\ both.size = [d \in 1 .. n |-> Least(End(origin, d), End(target, d))
                                         - Most(origin.off[d], target.off[d])]
  BY DEF Overlap, Box, Boxes
<1> HIDE DEF both
<1>3. /\ plan.box.off = [d \in 1 .. n |-> both.off[d] - target.off[d]]
      /\ plan.box.size = both.size
      /\ plan.srcOff = [d \in 1 .. n |-> both.off[d] - origin.off[d]]
  <2>1. DOMAIN both.off = 1 .. n
    BY <1>2
  <2>2. ASSUME NEW o
        PROVE  Local(both, o) = [off |-> [d \in 1 .. n |-> both.off[d] - o[d]], size |-> both.size]
    BY <2>1 DEF Local, Box
  <2>3. /\ plan.box = [off |-> [d \in 1 .. n |-> both.off[d] - target.off[d]], size |-> both.size]
        /\ plan.srcOff = [d \in 1 .. n |-> both.off[d] - origin.off[d]]
    <3>1. Local(both, target.off)
            = [off |-> [d \in 1 .. n |-> both.off[d] - target.off[d]], size |-> both.size]
      BY <2>2
    <3>2. Local(both, origin.off).off = [d \in 1 .. n |-> both.off[d] - origin.off[d]]
      BY <2>2
    <3> QED
      BY <1>1, <3>1, <3>2
  <2> QED
    BY <2>3
<1>4. ASSUME NEW d \in 1 .. n
      PROVE  /\ both.off[d] \in Int /\ both.size[d] \in Int
             /\ origin.off[d] \in Nat /\ origin.size[d] \in Nat
             /\ target.off[d] \in Nat /\ target.size[d] \in Nat
             /\ both.size[d] > 0
             /\ origin.off[d] <= both.off[d] /\ target.off[d] <= both.off[d]
             /\ both.off[d] + both.size[d] <= origin.off[d] + origin.size[d]
             /\ both.off[d] + both.size[d] <= target.off[d] + target.size[d]
  <2>1. Most(origin.off[d], target.off[d]) < Least(End(origin, d), End(target, d))
    BY DEF Meets, Boxes
  <2> QED
    <3>1. /\ origin.off[d] \in Nat /\ origin.size[d] \in Nat
          /\ End(origin, d) = origin.off[d] + origin.size[d]
          /\ target.off[d] \in Nat /\ target.size[d] \in Nat
          /\ End(target, d) = target.off[d] + target.size[d]
      BY OverlapAt
    <3>2. /\ both.off[d] = Most(origin.off[d], target.off[d])
          /\ both.size[d] = Least(End(origin, d), End(target, d)) - Most(origin.off[d], target.off[d])
      BY <1>2
    <3> QED
      BY <2>1, <3>1, <3>2 DEF Least, Most
<1>5. ASSUME NEW d \in 1 .. n
      PROVE  /\ plan.box.off[d] \in Int /\ plan.box.size[d] \in Int /\ plan.srcOff[d] \in Int
             /\ plan.box.size[d] > 0
             /\ 0 <= plan.box.off[d] /\ plan.box.off[d] + plan.box.size[d] <= target.size[d]
             /\ 0 <= plan.srcOff[d] /\ plan.srcOff[d] + plan.box.size[d] <= origin.size[d]
             /\ \A x \in Nat :
                  origin.off[d] + plan.srcOff[d] + (x - plan.box.off[d]) = target.off[d] + x
  <2>1. /\ plan.box.off[d] = both.off[d] - target.off[d]
        /\ plan.box.size[d] = both.size[d]
        /\ plan.srcOff[d] = both.off[d] - origin.off[d]
    BY <1>3
  <2> QED
    BY <2>1, <1>4
<1>6. /\ DOMAIN target.size = 1 .. n /\ DOMAIN origin.size = 1 .. n
      /\ Len(target.size) = n /\ Len(origin.size) = n
      /\ Len(plan.box.off) = n /\ Len(plan.srcOff) = n
  <2>1. target.size \in [1 .. n -> Nat] /\ origin.size \in [1 .. n -> Nat]
    BY DEF Boxes
  <2>2. plan.box.off \in [1 .. n -> Int] /\ plan.srcOff \in [1 .. n -> Int]
    <3>1. \A d \in 1 .. n : both.off[d] - target.off[d] \in Int /\ both.off[d] - origin.off[d] \in Int
      BY <1>4
    <3> QED
      BY <1>3, <3>1
  <2>3. /\ DOMAIN target.size = 1 .. n /\ DOMAIN origin.size = 1 .. n
        /\ target.size \in [1 .. n -> Int] /\ origin.size \in [1 .. n -> Int]
    BY <2>1
  <2> QED
    BY <2>2, <2>3, TupleLength
<1>7. InBounds(target.size, plan.box)
  <2>1. \A d \in 1 .. n : /\ 0 <= plan.box.off[d] /\ 0 <= plan.box.size[d]
                         /\ plan.box.off[d] + plan.box.size[d] <= target.size[d]
    BY <1>5
  <2> QED
    BY <2>1, <1>6 DEF InBounds, End
<1>8. InBounds(origin.size, Box(plan.srcOff, plan.box.size))
  <2>1. \A d \in 1 .. n : /\ 0 <= plan.srcOff[d] /\ 0 <= plan.box.size[d]
                         /\ plan.srcOff[d] + plan.box.size[d] <= origin.size[d]
    BY <1>5
  <2> QED
    BY <2>1, <1>6 DEF InBounds, End, Box
<1> QED
  BY <1>5, <1>7, <1>8
-----------------------------------------------------------------------------
(* The longest part is long enough, and no longer than it needs to be.     *)
LEMMA FullChunk ==
  ASSUME NEW n \in Nat, NEW parts \in Nat \ {0}, NEW full, full = (n + parts - 1) \div parts
  PROVE  full \in Nat /\ n <= full * parts /\ (n > 0 => full > 0)
<1>1. full \in Int /\ full * parts <= n + parts - 1 /\ n + parts - 1 < full * parts + parts
  OBVIOUS
<1> QED
  BY <1>1

(* The parts that a dimension is cut into leave nothing out ...            *)
THEOREM ChunksCover ==
  ASSUME NEW n \in Nat, NEW parts \in Nat \ {0}, NEW x \in 0 .. (n - 1)
  PROVE  \E i \in 0 .. (parts - 1) :
           LET c == Chunk(n, parts, i) IN c.off <= x /\ x < c.off + c.size
<1> DEFINE full == (n + parts - 1) \div parts
           i == x \div full
<1>1. full \in Nat /\ n <= full * parts /\ full > 0
  BY FullChunk
<1> HIDE DEF full
<1>2. i \in Int /\ full * i <= x /\ x < full * i + full
  BY <1>1
<1> HIDE DEF i
<1>3. i >= 0
  BY <1>1, <1>2
<1>4. i < parts
  <2>1. SUFFICES ASSUME i >= parts PROVE FALSE
    BY <1>2
  <2>2. full * i >= full * parts
    BY <1>1, <1>2, <2>1
  <2> QED
    BY <1>1, <1>2, <2>2
<1>5. full * i \in Int /\ full * i < n
  BY <1>1, <1>2
<1>6. Chunk(n, parts, i) = [off |-> Least(n, full * i), size |-> Least(full, n - Least(n, full * i))]
  BY DEF Chunk, full
<1>7. Least(n, full * i) = full * i
  BY <1>5 DEF Least
<1>8. x < full * i + Least(full, n - full * i)
  BY <1>1, <1>2, <1>5 DEF Least
<1> QED
  BY <1>2, <1>3, <1>4, <1>6, <1>7, <1>8

(* ... and nothing twice: no two ranks hold the same cell of a dimension   *)
(* they share.                                                             *)
THEOREM ChunksApart ==
  ASSUME NEW n \in Nat, NEW parts \in Nat \ {0},
         NEW i \in 0 .. (parts - 1), NEW j \in 0 .. (parts - 1), i < j
  PROVE  Chunk(n, parts, i).off + Chunk(n, parts, i).size <= Chunk(n, parts, j).off
<1> DEFINE full == (n + parts - 1) \div parts
<1>1. full \in Nat
  BY FullChunk
<1>2. /\ Chunk(n, parts, i) = [off |-> Least(n, full * i), size |-> Least(full, n - Least(n, full * i))]
      /\ Chunk(n, parts, j).off = Least(n, full * j)
  BY DEF Chunk
<1> HIDE DEF full
<1>3. full * i \in Nat /\ full * j \in Nat /\ full * i + full <= full * j
  <2>1. full * (j - i - 1) >= 0
    BY <1>1
  <2> QED
    BY <1>1, <2>1
<1>4. Least(n, full * i) + Least(full, n - Least(n, full * i)) <= Least(n, full * j)
  BY <1>1, <1>3 DEF Least
<1> QED
  BY <1>2, <1>4
-----------------------------------------------------------------------------
(* Induction on the natural numbers, for a set of them.                    *)
LEMMA AllNaturals ==
  ASSUME NEW S, 0 \in S, \A n \in Nat : n \in S => n + 1 \in S
  PROVE  \A n \in Nat : n \in S
<1> DEFINE less == {ij \in Nat \X Nat : ij[1] < ij[2]}
<1>1. IsWellFoundedOn(less, Nat)
  BY NatLessThanWellFounded DEF OpToRel
<1> HIDE DEF less
<1>2. SUFFICES ASSUME Nat \ S # {} PROVE FALSE
  OBVIOUS
<1>3. PICK m \in Nat \ S : \A n \in Nat \ S : ~(<<n, m>> \in less)
  BY <1>1, <1>2, WFMin
<1>4. m - 1 \in Nat /\ m - 1 < m /\ (m - 1) + 1 = m
  BY <1>3
<1>5. <<m - 1, m>> \in less
  BY <1>3, <1>4 DEF less
<1>6. m - 1 \in S
  BY <1>3, <1>4, <1>5
<1> QED
  BY <1>3, <1>4, <1>6

(* f goes on from base, step by step.                                      *)
Goes(f, base, step, n) ==
  /\ DOMAIN f = 0 .. n /\ f[0] = base
  /\ \A k \in 1 .. n : f[k] = step[<<k, f[k - 1]>>]

(* Steps from a kind of values to that kind lead somewhere.                *)
LEMMA Recursion ==
  ASSUME NEW n \in Nat, NEW V, NEW base \in V, NEW step \in [(1 .. n) \X V -> V]
  PROVE  \E f \in [0 .. n -> V] : Goes(f, base, step, n)
<1> DEFINE S == {m \in Nat : m <= n => \E f \in [0 .. m -> V] : Goes(f, base, step, m)}
<1>1. 0 \in S
  <2>1. [k \in 0 .. 0 |-> base] \in [0 .. 0 -> V] /\ Goes([k \in 0 .. 0 |-> base], base, step, 0)
    BY DEF Goes
  <2> QED
    BY <2>1
<1>2. ASSUME NEW m \in Nat, m \in S PROVE m + 1 \in S
  <2>1. SUFFICES ASSUME m + 1 <= n
                 PROVE  \E f \in [0 .. (m + 1) -> V] : Goes(f, base, step, m + 1)
    OBVIOUS
  <2>2. PICK f \in [0 .. m -> V] : Goes(f, base, step, m)
    BY <1>2, <2>1
  <2> DEFINE v == step[<<m + 1, f[m]>>]
             h == [k \in 0 .. (m + 1) |-> IF k = m + 1 THEN v ELSE f[k]]
  <2>3. m \in 0 .. m /\ f[m] \in V /\ m + 1 \in 1 .. n
    BY <2>1
  <2>4. v \in V
    BY <2>3
  <2> HIDE DEF v
  <2>5. \A k \in 0 .. (m + 1) : k = m + 1 \/ k \in 0 .. m
    OBVIOUS
  <2>6. h \in [0 .. (m + 1) -> V]
    BY <2>4, <2>5
  <2>7. DOMAIN h = 0 .. (m + 1) /\ h[m + 1] = v /\ \A k \in 0 .. m : h[k] = f[k]
    OBVIOUS
  <2> HIDE DEF h
  <2>8. h[0] = base
    BY <2>2, <2>7 DEF Goes
  <2>9. ASSUME NEW k \in 1 .. (m + 1) PROVE h[k] = step[<<k, h[k - 1]>>]
    <3>1. CASE k = m + 1
      <4>1. k - 1 = m /\ h[k - 1] = f[m]
        BY <2>3, <2>7, <3>1
      <4> QED
        BY <2>7, <3>1, <4>1 DEF v
    <3>2. CASE k # m + 1
      <4>1. k \in 1 .. m /\ k \in 0 .. m /\ k - 1 \in 0 .. m
        BY <3>2
      <4>2. f[k] = step[<<k, f[k - 1]>>] /\ h[k] = f[k] /\ h[k - 1] = f[k - 1]
        BY <2>2, <2>7, <4>1 DEF Goes
      <4> QED
        BY <4>2
    <3> QED
      BY <3>1, <3>2
  <2>10. Goes(h, base, step, m + 1)
    BY <2>7, <2>8, <2>9 DEF Goes
  <2> QED
    BY <2>6, <2>10
<1> HIDE DEF S
<1>3. n \in S
  BY <1>1, <1>2, AllNaturals
<1> QED
  BY <1>3 DEF S
-----------------------------------------------------------------------------
(* The number of cells behind a dimension, and from it on.                 *)
LEMMA VolumeSteps ==
  ASSUME NEW shape \in Seq(Nat), NEW n, n = Len(shape)
  PROVE  /\ \A k \in 1 .. (n + 1) : VolumeFrom(shape, k) \in Nat
         /\ VolumeFrom(shape, n + 1) = 1
         /\ \A k \in 1 .. n : VolumeFrom(shape, k) = shape[k] * VolumeFrom(shape, k + 1)
<1> DEFINE Of(g) == g = [d \in 0 .. n |-> IF d = 0 THEN 1 ELSE shape[n + 1 - d] * g[d - 1]]
           of == CHOOSE g : Of(g)
           step == [kv \in (1 .. n) \X Nat |-> shape[n + 1 - kv[1]] * kv[2]]
<1>1. n \in Nat /\ \A k \in 1 .. n : shape[k] \in Nat
  OBVIOUS
<1>2. \A k : VolumeFrom(shape, k) = of[n + 1 - k]
  BY DEF VolumeFrom
<1>3. step \in [(1 .. n) \X Nat -> Nat]
  <2>1. \A kv \in (1 .. n) \X Nat : n + 1 - kv[1] \in 1 .. n /\ kv[2] \in Nat
    BY <1>1
  <2>2. \A kv \in (1 .. n) \X Nat : shape[n + 1 - kv[1]] * kv[2] \in Nat
    BY <1>1, <2>1
  <2> QED
    BY <2>2
<1>4. \A d \in 1 .. n, v \in Nat : step[<<d, v>>] = shape[n + 1 - d] * v
  OBVIOUS
<1> HIDE DEF step
<1>5. PICK f \in [0 .. n -> Nat] : Goes(f, 1, step, n)
  BY <1>1, <1>3, Recursion
<1>6. Of(f)
  <2>1. \A d \in 0 .. n : f[d] = IF d = 0 THEN 1 ELSE shape[n + 1 - d] * f[d - 1]
    <3>1. \A d \in 0 .. n : d # 0 => d \in 1 .. n /\ d - 1 \in 0 .. n
      BY <1>1
    <3>2. f[0] = 1 /\ \A d \in 1 .. n : f[d] = step[<<d, f[d - 1]>>]
      BY <1>5 DEF Goes
    <3>3. \A d \in 1 .. n : f[d] = shape[n + 1 - d] * f[d - 1]
      <4> TAKE d \in 1 .. n
      <4>1. f[d - 1] \in Nat
        <5>1. d - 1 \in 0 .. n
          BY <1>1
        <5> QED
          BY <1>5, <5>1
      <4>2. f[d] = step[<<d, f[d - 1]>>]
        BY <3>2
      <4> QED
        BY <1>4, <4>1, <4>2
    <3> QED
      BY <3>1, <3>2, <3>3
  <2> QED
    BY <2>1
<1>7. Of(of)
  BY <1>6
<1> HIDE DEF of
<1>8. DOMAIN of = 0 .. n /\ of[0] = 1 /\ \A d \in 1 .. n : of[d] = shape[n + 1 - d] * of[d - 1]
  <2>1. DOMAIN of = 0 .. n /\ \A d \in 0 .. n : of[d] = IF d = 0 THEN 1 ELSE shape[n + 1 - d] * of[d - 1]
    BY <1>7
  <2>2. 0 \in 0 .. n /\ \A d \in 1 .. n : d \in 0 .. n /\ d # 0
    BY <1>1
  <2> QED
    BY <2>1, <2>2
<1> HIDE DEF Of
<1>9. \A d \in 0 .. n : of[d] \in Nat
  <2> DEFINE S == {m \in Nat : m <= n => of[m] \in Nat}
  <2>1. 0 \in S
    BY <1>8
  <2>2. ASSUME NEW m \in Nat, m \in S PROVE m + 1 \in S
    <3>1. SUFFICES ASSUME m + 1 <= n PROVE of[m + 1] \in Nat
      OBVIOUS
    <3>2. m + 1 \in 1 .. n /\ (m + 1) - 1 = m /\ of[m] \in Nat /\ n + 1 - (m + 1) \in 1 .. n
      BY <1>1, <2>2, <3>1
    <3>3. of[m + 1] = shape[n + 1 - (m + 1)] * of[m]
      BY <1>8, <3>2
    <3> QED
      BY <1>1, <3>2, <3>3
  <2> HIDE DEF S
  <2>3. \A m \in Nat : m \in S
    BY <2>1, <2>2, AllNaturals
  <2> QED
    BY <1>1, <2>3 DEF S
<1>10. \A k \in 1 .. (n + 1) : n + 1 - k \in 0 .. n
  BY <1>1
<1>11. \A k \in 1 .. n : n + 1 - k \in 1 .. n /\ (n + 1 - k) - 1 = n + 1 - (k + 1) /\ n + 1 - (n + 1 - k) = k
  BY <1>1
<1>12. n + 1 - (n + 1) = 0
  BY <1>1
<1>13. \A k \in 1 .. n : of[n + 1 - k] = shape[k] * of[n + 1 - (k + 1)]
  BY <1>8, <1>11
<1> QED
  BY <1>2, <1>8, <1>9, <1>10, <1>12, <1>13

(* Without empty dimensions it is not 0.                                   *)
LEMMA VolumePositive ==
  ASSUME NEW shape \in Seq(Nat), NEW n, n = Len(shape), \A k \in 1 .. n : shape[k] > 0
  PROVE  \A k \in 1 .. (n + 1) : VolumeFrom(shape, k) \in Nat \ {0}
<1> DEFINE S == {m \in Nat : m <= n => VolumeFrom(shape, n + 1 - m) \in Nat \ {0}}
<1>1. n \in Nat
  OBVIOUS
<1>2. 0 \in S
  <2>1. n + 1 - 0 = n + 1
    BY <1>1
  <2> QED
    BY <2>1, VolumeSteps
<1>3. ASSUME NEW m \in Nat, m \in S PROVE m + 1 \in S
  <2>1. SUFFICES ASSUME m + 1 <= n PROVE VolumeFrom(shape, n + 1 - (m + 1)) \in Nat \ {0}
    OBVIOUS
  <2> DEFINE k == n + 1 - (m + 1)
  <2>2. k \in 1 .. n /\ k + 1 = n + 1 - m
    BY <1>1, <2>1
  <2>3. VolumeFrom(shape, k + 1) \in Nat \ {0}
    BY <1>1, <1>3, <2>1, <2>2
  <2> HIDE DEF k
  <2>4. VolumeFrom(shape, k) = shape[k] * VolumeFrom(shape, k + 1) /\ shape[k] \in Nat \ {0}
    BY <2>2, VolumeSteps
  <2>5. VolumeFrom(shape, k) \in Nat \ {0}
    BY <2>3, <2>4
  <2> QED
    BY <2>5 DEF k
<1> HIDE DEF S
<1>4. \A m \in Nat : m \in S
  BY <1>2, <1>3, AllNaturals
<1> TAKE k \in 1 .. (n + 1)
<1>5. n + 1 - k \in Nat /\ n + 1 - k <= n /\ n + 1 - (n + 1 - k) = k
  BY <1>1
<1> QED
  BY <1>4, <1>5 DEF S

(* The parts of tensors of a shape: they lie within it.                    *)
PartsOf(shape) ==
  {b \in Boxes(Len(shape)) : \A d \in DOMAIN shape : b.off[d] + b.size[d] <= shape[d]}

(* A part of a chunk is where and as long as the chunk says.               *)
LEMMA ChunkType ==
  ASSUME NEW n \in Nat, NEW parts \in Nat \ {0}, NEW i \in Nat
  PROVE  LET c == Chunk(n, parts, i) IN c.off \in Nat /\ c.size \in Nat /\ c.off + c.size <= n
<1> DEFINE full == (n + parts - 1) \div parts
<1>1. full \in Nat
  BY FullChunk
<1>2. Chunk(n, parts, i) = [off |-> Least(n, full * i), size |-> Least(full, n - Least(n, full * i))]
  BY DEF Chunk
<1> HIDE DEF full
<1>3. full * i \in Nat
  BY <1>1
<1>4. /\ Least(n, full * i) \in Nat /\ Least(full, n - Least(n, full * i)) \in Nat
      /\ Least(n, full * i) + Least(full, n - Least(n, full * i)) <= n
  BY <1>1, <1>3 DEF Least
<1> QED
  BY <1>2, <1>4

(* A function with one value replaced. *)
LEMMA ExceptAt ==
  ASSUME NEW n \in Nat, NEW f \in [1 .. n -> Nat], NEW d \in 1 .. n, NEW v \in Nat,
         NEW g, g = [f EXCEPT ![d] = v]
  PROVE  /\ g \in [1 .. n -> Nat]
         /\ g[d] = v
         /\ \A e \in 1 .. n : e # d => g[e] = f[e]
  OBVIOUS

(* Box b of n dimensions can be cut along dimension d into m parts, of     *)
(* which i is one.                                                         *)
Cuttable(n, b, d, m, i) ==
  n \in Nat /\ b \in Boxes(n) /\ d \in 0 .. n /\ m \in Nat \ {0} /\ i \in Nat

(* What there is of a box, and when there is one. *)
LEMMA BoxAt ==
  ASSUME NEW n, NEW b \in Boxes(n)
  PROVE  /\ b.off \in [1 .. n -> Nat] /\ b.size \in [1 .. n -> Nat]
         /\ \A e \in 1 .. n : b.off[e] \in Nat /\ b.size[e] \in Nat
BY DEF Boxes

LEMMA BoxOf ==
  ASSUME NEW n, NEW off \in [1 .. n -> Nat], NEW size \in [1 .. n -> Nat]
  PROVE  [off |-> off, size |-> size] \in Boxes(n)
BY DEF Boxes

(* What a cut leaves of a part: along the dimension that is cut, a chunk;  *)
(* along the others what there was.                                        *)
LEMMA NarrowAt ==
  ASSUME NEW n, NEW b, NEW d, NEW m, NEW i, Cuttable(n, b, d, m, i)
  PROVE  /\ Narrow(b, d, m, i) \in Boxes(n)
         /\ d # Replicate =>
              /\ Narrow(b, d, m, i).off[d] = b.off[d] + Chunk(b.size[d], m, i).off
              /\ Narrow(b, d, m, i).size[d] = Chunk(b.size[d], m, i).size
         /\ \A e \in 1 .. n : e # d => /\ Narrow(b, d, m, i).off[e] = b.off[e]
                                       /\ Narrow(b, d, m, i).size[e] = b.size[e]
<1>1. n \in Nat /\ b \in Boxes(n) /\ d \in 0 .. n /\ m \in Nat \ {0} /\ i \in Nat
  BY DEF Cuttable
<1>2. CASE d = Replicate
  <2>1. Narrow(b, d, m, i) = b
    BY <1>2 DEF Narrow
  <2> QED
    BY <1>1, <1>2, <2>1
<1>3. CASE d # Replicate
  <2>1. d \in 1 .. n /\ b.off \in [1 .. n -> Nat] /\ b.size \in [1 .. n -> Nat]
    <3>1. d \in 1 .. n
      BY <1>1, <1>3 DEF Replicate
    <3> QED
      BY <1>1, <3>1, BoxAt
  <2>2. b.off[d] \in Nat /\ b.size[d] \in Nat
    BY <1>1, <2>1, BoxAt
  <2> DEFINE c == Chunk(b.size[d], m, i)
             off == [b.off EXCEPT ![d] = b.off[d] + c.off]
             size == [b.size EXCEPT ![d] = c.size]
  <2>3. c.off \in Nat /\ c.size \in Nat
    BY <1>1, <2>1, ChunkType
  <2>4. Narrow(b, d, m, i) = [off |-> off, size |-> size]
    BY <1>3 DEF Narrow, Box
  <2> HIDE DEF c
  <2>5. b.off[d] + c.off \in Nat
    BY <2>2, <2>3
  <2>6. /\ off \in [1 .. n -> Nat] /\ off[d] = b.off[d] + c.off
        /\ \A e \in 1 .. n : e # d => off[e] = b.off[e]
    BY <1>1, <2>1, <2>5, ExceptAt
  <2>7. /\ size \in [1 .. n -> Nat] /\ size[d] = c.size
        /\ \A e \in 1 .. n : e # d => size[e] = b.size[e]
    BY <1>1, <2>1, <2>3, ExceptAt
  <2> HIDE DEF off, size
  <2>8. Narrow(b, d, m, i).off = off /\ Narrow(b, d, m, i).size = size
    BY <2>4
  <2>9. Narrow(b, d, m, i) \in Boxes(n)
    BY <2>4, <2>6, <2>7, BoxOf
  <2> QED
    BY <2>6, <2>7, <2>8, <2>9 DEF c
<1> QED
  BY <1>2, <1>3

(* It lies within the part.                                                *)
LEMMA NarrowWithin ==
  ASSUME NEW n, NEW b, NEW d, NEW m, NEW i, Cuttable(n, b, d, m, i), NEW e \in 1 .. n
  PROVE  /\ b.off[e] <= Narrow(b, d, m, i).off[e]
         /\ Narrow(b, d, m, i).off[e] + Narrow(b, d, m, i).size[e] <= b.off[e] + b.size[e]
<1> DEFINE p == Narrow(b, d, m, i)
<1>1. b.off[e] \in Nat /\ b.size[e] \in Nat /\ m \in Nat \ {0} /\ i \in Nat
  BY BoxAt DEF Cuttable
<1>2. CASE e # d
  <2>1. p.off[e] = b.off[e] /\ p.size[e] = b.size[e]
    BY <1>2, NarrowAt
  <2> QED
    BY <1>1, <2>1
<1>3. CASE e = d
  <2> DEFINE c == Chunk(b.size[d], m, i)
  <2>1. d # Replicate
    BY <1>3 DEF Replicate, Cuttable
  <2>2. c.off \in Nat /\ c.size \in Nat /\ c.off + c.size <= b.size[d]
    BY <1>1, <1>3, ChunkType
  <2>3. p.off[d] = b.off[d] + c.off /\ p.size[d] = c.size
    BY <2>1, NarrowAt
  <2> HIDE DEF c, p
  <2>4. b.off[e] <= p.off[e] /\ p.off[e] + p.size[e] <= b.off[e] + b.size[e]
    BY <1>1, <1>3, <2>2, <2>3
  <2> QED
    BY <2>4 DEF p
<1> QED
  BY <1>2, <1>3
-----------------------------------------------------------------------------
(* The coordinates of a mesh.                                              *)
Places(mesh) == {at \in [1 .. Len(mesh.shape) -> Nat] : \A d \in 1 .. Len(mesh.shape) : at[d] < mesh.shape[d]}

(* f is how a tensor is cut for a coordinate.                              *)
Cuts(s, at, f) ==
  /\ f \in [0 .. Len(s.place) -> PartsOf(s.shape)]
  /\ f[0] = Whole(s.shape)
  /\ \A k \in 1 .. Len(s.place) : f[k] = Narrow(f[k - 1], s.place[k], s.mesh.shape[k], at[k])

(* What there is of a sharding.                                            *)
LEMMA ShardingType ==
  ASSUME NEW s, IsSharding(s)
  PROVE  /\ s.shape \in Seq(Nat) /\ Len(s.shape) \in Nat /\ DOMAIN s.shape = 1 .. Len(s.shape)
         /\ s.mesh.shape \in Seq(Nat) /\ Len(s.mesh.shape) \in Nat
         /\ DOMAIN s.mesh.shape = 1 .. Len(s.mesh.shape)
         /\ \A k \in 1 .. Len(s.mesh.shape) : s.mesh.shape[k] \in Nat \ {0}
         /\ Len(s.place) = Len(s.mesh.shape)
         /\ \A k \in 1 .. Len(s.place) : s.place[k] \in 0 .. Len(s.shape)
<1>1. /\ s.shape \in Seq(Nat) /\ s.mesh.shape \in Seq(Nat \ {0})
      /\ s.place \in [DOMAIN s.mesh.shape -> 0 .. Len(s.shape)]
  BY DEF IsSharding
<1>2. Len(s.mesh.shape) \in Nat /\ DOMAIN s.mesh.shape = 1 .. Len(s.mesh.shape)
  BY <1>1
<1>3. Len(s.place) = Len(s.mesh.shape)
  <2>1. s.place \in [1 .. Len(s.mesh.shape) -> Int]
    BY <1>1, <1>2
  <2> QED
    BY <1>2, <2>1, TupleLength
<1>4. \A k \in 1 .. Len(s.mesh.shape) : s.mesh.shape[k] \in Nat \ {0}
  BY <1>1
<1>5. \A k \in 1 .. Len(s.place) : s.place[k] \in 0 .. Len(s.shape)
  BY <1>1, <1>2, <1>3
<1>6. s.mesh.shape \in Seq(Nat) /\ Len(s.shape) \in Nat /\ DOMAIN s.shape = 1 .. Len(s.shape)
  BY <1>1
<1> QED
  BY <1>1, <1>2, <1>3, <1>4, <1>5, <1>6

(* The whole tensor is a part of it, ...                                   *)
LEMMA WholeIsPart ==
  ASSUME NEW shape \in Seq(Nat)
  PROVE  /\ Whole(shape) \in PartsOf(shape)
         /\ \A d \in 1 .. Len(shape) : Whole(shape).off[d] = 0 /\ Whole(shape).size[d] = shape[d]
<1>1. Whole(shape) = [off |-> [d \in 1 .. Len(shape) |-> 0], size |-> shape]
  BY DEF Whole, Box
<1>2. shape \in [1 .. Len(shape) -> Nat] /\ [d \in 1 .. Len(shape) |-> 0] \in [1 .. Len(shape) -> Nat]
  OBVIOUS
<1>3. Whole(shape) \in Boxes(Len(shape))
  BY <1>1, <1>2, BoxOf
<1>4. \A d \in 1 .. Len(shape) : Whole(shape).off[d] = 0 /\ Whole(shape).size[d] = shape[d]
  BY <1>1
<1>5. DOMAIN shape = 1 .. Len(shape) /\ \A d \in 1 .. Len(shape) : shape[d] \in Nat
  OBVIOUS
<1> QED
  BY <1>3, <1>4, <1>5 DEF PartsOf

(* ... and what is cut from a part.                                        *)
LEMMA NarrowIsPart ==
  ASSUME NEW shape \in Seq(Nat), NEW b \in PartsOf(shape), NEW d, NEW m, NEW i,
         Cuttable(Len(shape), b, d, m, i)
  PROVE  Narrow(b, d, m, i) \in PartsOf(shape)
<1> DEFINE c == Narrow(b, d, m, i)
           n == Len(shape)
<1>1. n \in Nat /\ b \in Boxes(n) /\ DOMAIN shape = 1 .. n
  BY DEF PartsOf
<1>2. c \in Boxes(n)
  BY NarrowAt
<1>3. ASSUME NEW e \in 1 .. n PROVE c.off[e] + c.size[e] <= shape[e]
  <2>1. c.off[e] + c.size[e] <= b.off[e] + b.size[e]
    BY NarrowWithin
  <2>2. b.off[e] + b.size[e] <= shape[e] /\ shape[e] \in Nat
    BY <1>1 DEF PartsOf
  <2>3. /\ c.off[e] \in Nat /\ c.size[e] \in Nat
        /\ b.off[e] \in Nat /\ b.size[e] \in Nat
    BY <1>1, <1>2, BoxAt
  <2> HIDE DEF c
  <2> QED
    BY <2>1, <2>2, <2>3
<1> HIDE DEF c
<1>4. c \in PartsOf(shape)
  BY <1>1, <1>2, <1>3 DEF PartsOf
<1> QED
  BY <1>4 DEF c

(* What a rank of a mesh does is such a cut.                               *)
LEMMA CutAt ==
  ASSUME NEW s, IsSharding(s), NEW k \in 1 .. Len(s.place), NEW b \in PartsOf(s.shape),
         NEW i \in Nat
  PROVE  Cuttable(Len(s.shape), b, s.place[k], s.mesh.shape[k], i)
<1>1. /\ Len(s.shape) \in Nat /\ s.place[k] \in 0 .. Len(s.shape)
      /\ s.mesh.shape[k] \in Nat \ {0}
  BY ShardingType
<1>2. b \in Boxes(Len(s.shape))
  BY DEF PartsOf
<1> QED
  BY <1>1, <1>2 DEF Cuttable

(* One step of it.                                                         *)
CutStep(s, at) ==
  [kb \in (1 .. Len(s.place)) \X PartsOf(s.shape) |->
     Narrow(kb[2], s.place[kb[1]], s.mesh.shape[kb[1]], at[kb[1]])]

(* It leads from part to part.                                             *)
LEMMA CutStepType ==
  ASSUME NEW s, IsSharding(s), NEW at \in Places(s.mesh)
  PROVE  /\ CutStep(s, at) \in [(1 .. Len(s.place)) \X PartsOf(s.shape) -> PartsOf(s.shape)]
         /\ \A k \in 1 .. Len(s.place), b \in PartsOf(s.shape) :
              CutStep(s, at)[<<k, b>>] = Narrow(b, s.place[k], s.mesh.shape[k], at[k])
<1>1. ASSUME NEW k \in 1 .. Len(s.place), NEW b \in PartsOf(s.shape)
      PROVE  Narrow(b, s.place[k], s.mesh.shape[k], at[k]) \in PartsOf(s.shape)
  <2>1. s.shape \in Seq(Nat) /\ at[k] \in Nat
    BY ShardingType DEF Places
  <2>2. Cuttable(Len(s.shape), b, s.place[k], s.mesh.shape[k], at[k])
    BY <2>1, CutAt
  <2> QED
    BY <2>1, <2>2, NarrowIsPart
<1> QED
  BY <1>1 DEF CutStep

(* There is one.                                                           *)
LEMMA CutsExist ==
  ASSUME NEW s, IsSharding(s), NEW at \in Places(s.mesh)
  PROVE  \E f : Cuts(s, at, f)
<1>1. Whole(s.shape) \in PartsOf(s.shape) /\ Len(s.place) \in Nat
  BY WholeIsPart, ShardingType
<1>2. PICK f \in [0 .. Len(s.place) -> PartsOf(s.shape)] :
        Goes(f, Whole(s.shape), CutStep(s, at), Len(s.place))
  BY <1>1, CutStepType, Recursion
<1>3. ASSUME NEW k \in 1 .. Len(s.place)
      PROVE  f[k] = Narrow(f[k - 1], s.place[k], s.mesh.shape[k], at[k])
  <2>1. k - 1 \in 0 .. Len(s.place)
    BY <1>1
  <2>2. f[k - 1] \in PartsOf(s.shape) /\ f[k] = CutStep(s, at)[<<k, f[k - 1]>>]
    BY <1>2, <2>1 DEF Goes
  <2> QED
    BY <2>2, CutStepType
<1>4. Cuts(s, at, f)
  BY <1>2, <1>3 DEF Cuts, Goes
<1> QED
  BY <1>4

(* A rank of a mesh has a coordinate in it.                                *)
LEMMA CoordinateType ==
  ASSUME NEW s, IsSharding(s), NEW r \in RanksIn(s)
  PROVE  Coordinate(s.mesh, r) \in Places(s.mesh)
<1> DEFINE m == Len(s.mesh.shape)
           i == CHOOSE k \in DOMAIN s.mesh.data : s.mesh.data[k] = r
           S == Strides(s.mesh.shape)
<1>1. /\ m \in Nat /\ DOMAIN s.mesh.shape = 1 .. m /\ s.mesh.shape \in Seq(Nat)
      /\ \A k \in 1 .. m : s.mesh.shape[k] \in Nat \ {0}
  BY ShardingType
<1>2. i \in Nat
  <2>1. \E k \in DOMAIN s.mesh.data : s.mesh.data[k] = r
    BY DEF RanksIn, ToSet
  <2>2. s.mesh.data \in Seq(Nat)
    BY DEF IsSharding
  <2> QED
    BY <2>1, <2>2
<1>3. Coordinate(s.mesh, r) = [d \in 1 .. m |-> ((i - 1) \div S[d]) % s.mesh.shape[d]]
  BY <1>1 DEF Coordinate
<1>4. ASSUME NEW d \in 1 .. m PROVE ((i - 1) \div S[d]) % s.mesh.shape[d] \in 0 .. (s.mesh.shape[d] - 1)
  <2>1. S[d] = VolumeFrom(s.mesh.shape, d + 1) /\ d + 1 \in 1 .. (m + 1)
    BY <1>1 DEF Strides
  <2>2. S[d] \in Nat \ {0}
    BY <1>1, <2>1, VolumePositive
  <2> HIDE DEF S, i, m
  <2>3. (i - 1) \div S[d] \in Int
    BY <1>2, <2>2
  <2>4. s.mesh.shape[d] \in Nat \ {0}
    BY <1>1
  <2> QED
    BY <2>3, <2>4
<1> HIDE DEF i, S
<1>5. \A d \in 1 .. m : Coordinate(s.mesh, r)[d] \in 0 .. (s.mesh.shape[d] - 1)
  BY <1>3, <1>4
<1>6. ASSUME NEW d \in 1 .. m
      PROVE  Coordinate(s.mesh, r)[d] \in Nat /\ Coordinate(s.mesh, r)[d] < s.mesh.shape[d]
  <2>1. Coordinate(s.mesh, r)[d] \in 0 .. (s.mesh.shape[d] - 1) /\ s.mesh.shape[d] \in Nat
    BY <1>1, <1>5
  <2> QED
    BY <2>1
<1>7. Coordinate(s.mesh, r) = [d \in 1 .. m |-> Coordinate(s.mesh, r)[d]]
  BY <1>3
<1>8. Coordinate(s.mesh, r) \in [1 .. m -> Nat]
  BY <1>6, <1>7
<1> QED
  BY <1>6, <1>8 DEF Places

(* The shard of a rank is what is left after the cuts for its coordinate.  *)
LEMMA ShardIsCut ==
  ASSUME NEW s, IsSharding(s), NEW r \in RanksIn(s)
  PROVE  \E f : Cuts(s, Coordinate(s.mesh, r), f) /\ LocalShard(s, r) = f[Len(s.place)]
<1> DEFINE m == Len(s.place)
           at == Coordinate(s.mesh, r)
           Cut(g) == g = [k \in 0 .. m |-> IF k = 0 THEN Whole(s.shape)
                            ELSE Narrow(g[k - 1], s.place[k], s.mesh.shape[k], at[k])]
           cut == CHOOSE g : Cut(g)
           step == CutStep(s, at)
<1>1. at \in Places(s.mesh) /\ m \in Nat
  BY CoordinateType, ShardingType
<1>2. LocalShard(s, r) = cut[m]
  BY DEF LocalShard
<1> HIDE DEF at
<1>3. PICK f : Cuts(s, at, f)
  BY <1>1, CutsExist
<1>4. Cut(f)
  <2>1. f = [k \in 0 .. m |-> f[k]]
    BY <1>3 DEF Cuts
  <2>2. \A k \in 0 .. m : f[k] = IF k = 0 THEN Whole(s.shape)
                            ELSE Narrow(f[k - 1], s.place[k], s.mesh.shape[k], at[k])
    <3>1. \A k \in 0 .. m : k = 0 \/ k \in 1 .. m
      BY <1>1
    <3> QED
      BY <1>3, <3>1 DEF Cuts
  <2> QED
    BY <2>1, <2>2
<1>5. Cut(cut)
  BY <1>4
<1> HIDE DEF cut
<1>6. /\ cut = [k \in DOMAIN cut |-> cut[k]] /\ DOMAIN cut = 0 .. m /\ cut[0] = Whole(s.shape)
      /\ \A k \in 1 .. m : cut[k] = Narrow(cut[k - 1], s.place[k], s.mesh.shape[k], at[k])
  <2>1. /\ cut = [k \in DOMAIN cut |-> cut[k]] /\ DOMAIN cut = 0 .. m
        /\ \A k \in 0 .. m : cut[k] = IF k = 0 THEN Whole(s.shape)
                            ELSE Narrow(cut[k - 1], s.place[k], s.mesh.shape[k], at[k])
    BY <1>5
  <2>2. 0 \in 0 .. m /\ \A k \in 1 .. m : k \in 0 .. m /\ k # 0
    BY <1>1
  <2> QED
    BY <2>1, <2>2
<1> HIDE DEF Cut
<1>7. \A k \in 0 .. m : cut[k] \in PartsOf(s.shape)
  <2> DEFINE S == {k \in Nat : k <= m => cut[k] \in PartsOf(s.shape)}
  <2>1. 0 \in S
    BY <1>6, WholeIsPart, ShardingType
  <2>2. ASSUME NEW k \in Nat, k \in S PROVE k + 1 \in S
    <3>1. SUFFICES ASSUME k + 1 <= m PROVE cut[k + 1] \in PartsOf(s.shape)
      OBVIOUS
    <3>2. k + 1 \in 1 .. m /\ (k + 1) - 1 = k /\ cut[k] \in PartsOf(s.shape)
      BY <1>1, <2>2, <3>1
    <3>3. cut[k + 1] = Narrow(cut[k], s.place[k + 1], s.mesh.shape[k + 1], at[k + 1])
      BY <1>6, <3>2
    <3>4. s.shape \in Seq(Nat) /\ at[k + 1] \in Nat
      BY <1>1, <3>2, ShardingType DEF Places
    <3>5. Cuttable(Len(s.shape), cut[k], s.place[k + 1], s.mesh.shape[k + 1], at[k + 1])
      BY <3>2, <3>4, CutAt
    <3> QED
      BY <3>2, <3>3, <3>4, <3>5, NarrowIsPart
  <2> HIDE DEF S
  <2>3. \A k \in Nat : k \in S
    BY <2>1, <2>2, AllNaturals
  <2> QED
    BY <1>1, <2>3 DEF S
<1>8. Cuts(s, at, cut)
  BY <1>6, <1>7 DEF Cuts
<1> QED
  BY <1>2, <1>8 DEF at
-----------------------------------------------------------------------------
(* No rank holds anything outside of the tensor.                           *)
THEOREM ShardInTensor ==
  ASSUME NEW s, IsSharding(s), NEW r \in RanksIn(s)
  PROVE  LocalShard(s, r) \in PartsOf(s.shape)
<1>1. PICK f : Cuts(s, Coordinate(s.mesh, r), f) /\ LocalShard(s, r) = f[Len(s.place)]
  BY ShardIsCut
<1>2. Len(s.place) \in 0 .. Len(s.place)
  BY ShardingType
<1> QED
  BY <1>1, <1>2 DEF Cuts

(* Two parts of a tensor begin and end together in a dimension, or one is  *)
(* behind the other.                                                       *)
Aligned(a, b, d) ==
  \/ a.off[d] = b.off[d] /\ a.size[d] = b.size[d]
  \/ a.off[d] + a.size[d] <= b.off[d]
  \/ b.off[d] + b.size[d] <= a.off[d]

(* Cuts keep that so.                                                      *)
LEMMA NarrowAligned ==
  ASSUME NEW n, NEW a, NEW b, NEW d, NEW m, NEW i, NEW j,
         Cuttable(n, a, d, m, i), Cuttable(n, b, d, m, j), i < m, j < m,
         NEW e \in 1 .. n, Aligned(a, b, e)
  PROVE  Aligned(Narrow(a, d, m, i), Narrow(b, d, m, j), e)
<1> DEFINE p == Narrow(a, d, m, i)
           q == Narrow(b, d, m, j)
<1>1. /\ n \in Nat /\ d \in 0 .. n /\ m \in Nat \ {0} /\ i \in 0 .. (m - 1) /\ j \in 0 .. (m - 1)
      /\ i \in Nat /\ j \in Nat
      /\ a.off[e] \in Nat /\ a.size[e] \in Nat /\ b.off[e] \in Nat /\ b.size[e] \in Nat
  <2>1. /\ n \in Nat /\ d \in 0 .. n /\ m \in Nat \ {0} /\ i \in Nat /\ j \in Nat
        /\ a \in Boxes(n) /\ b \in Boxes(n)
    BY DEF Cuttable
  <2>2. i \in 0 .. (m - 1) /\ j \in 0 .. (m - 1)
    BY <2>1
  <2> QED
    BY <2>1, <2>2, BoxAt
<1>2. CASE e # d
  <2>1. p.off[e] = a.off[e] /\ p.size[e] = a.size[e]
    BY <1>2, NarrowAt
  <2>2. q.off[e] = b.off[e] /\ q.size[e] = b.size[e]
    BY <1>2, NarrowAt
  <2> HIDE DEF p, q
  <2>3. Aligned(p, q, e)
    BY <2>1, <2>2 DEF Aligned
  <2> QED
    BY <2>3 DEF p, q
<1>3. CASE ~(a.off[e] = b.off[e] /\ a.size[e] = b.size[e])
  <2>1. /\ a.off[e] <= p.off[e] /\ p.off[e] + p.size[e] <= a.off[e] + a.size[e]
        /\ b.off[e] <= q.off[e] /\ q.off[e] + q.size[e] <= b.off[e] + b.size[e]
    BY NarrowWithin
  <2>2. p \in Boxes(n) /\ q \in Boxes(n)
    BY NarrowAt
  <2>3. p.off[e] \in Nat /\ p.size[e] \in Nat /\ q.off[e] \in Nat /\ q.size[e] \in Nat
    BY <2>2, BoxAt
  <2> HIDE DEF p, q
  <2>4. Aligned(p, q, e)
    BY <1>1, <1>3, <2>1, <2>3 DEF Aligned
  <2> QED
    BY <2>4 DEF p, q
<1>4. CASE e = d /\ a.off[e] = b.off[e] /\ a.size[e] = b.size[e]
  <2>1. d # Replicate
    BY <1>4 DEF Replicate
  <2> DEFINE c(k) == Chunk(a.size[e], m, k)
  <2>2. /\ p.off[e] = a.off[e] + c(i).off /\ p.size[e] = c(i).size
        /\ q.off[e] = a.off[e] + c(j).off /\ q.size[e] = c(j).size
    <3>1. p.off[d] = a.off[d] + Chunk(a.size[d], m, i).off /\ p.size[d] = Chunk(a.size[d], m, i).size
      BY <2>1, NarrowAt
    <3>2. q.off[d] = b.off[d] + Chunk(b.size[d], m, j).off /\ q.size[d] = Chunk(b.size[d], m, j).size
      BY <2>1, NarrowAt
    <3> HIDE DEF p, q
    <3> QED
      BY <1>4, <3>1, <3>2
  <2>3. /\ c(i).off \in Nat /\ c(i).size \in Nat /\ c(j).off \in Nat /\ c(j).size \in Nat
    BY <1>1, ChunkType
  <2>4. /\ i < j => c(i).off + c(i).size <= c(j).off
        /\ j < i => c(j).off + c(j).size <= c(i).off
    BY <1>1, ChunksApart
  <2>5. i = j => c(i) = c(j)
    OBVIOUS
  <2> HIDE DEF c, p, q
  <2>6. i = j \/ i < j \/ j < i
    BY <1>1
  <2>7. Aligned(p, q, e)
    BY <1>1, <2>2, <2>3, <2>4, <2>5, <2>6 DEF Aligned
  <2> QED
    BY <2>7 DEF p, q
<1> QED
  BY <1>2, <1>3, <1>4

(* Two ranks of a mesh hold parts that are the same along a dimension, or  *)
(* apart: uneven splits and dimensions that are cut twice included.        *)
THEOREM ShardsAligned ==
  ASSUME NEW s, IsSharding(s), NEW q \in RanksIn(s), NEW r \in RanksIn(s),
         NEW e \in 1 .. Len(s.shape)
  PROVE  Aligned(LocalShard(s, q), LocalShard(s, r), e)
<1> DEFINE n == Len(s.shape)
           m == Len(s.place)
           at(k) == Coordinate(s.mesh, k)
<1>1. PICK f : Cuts(s, at(q), f) /\ LocalShard(s, q) = f[m]
  BY ShardIsCut
<1>2. PICK g : Cuts(s, at(r), g) /\ LocalShard(s, r) = g[m]
  BY ShardIsCut
<1>3. at(q) \in Places(s.mesh) /\ at(r) \in Places(s.mesh) /\ m \in Nat /\ n \in Nat
  BY CoordinateType, ShardingType
<1> HIDE DEF at, n
<1> DEFINE S == {k \in Nat : k <= m => Aligned(f[k], g[k], e)}
<1>4. 0 \in S
  <2>1. f[0] = g[0]
    BY <1>1, <1>2 DEF Cuts
  <2> QED
    BY <2>1 DEF Aligned
<1>5. ASSUME NEW k \in Nat, k \in S PROVE k + 1 \in S
  <2>1. SUFFICES ASSUME k + 1 <= m PROVE Aligned(f[k + 1], g[k + 1], e)
    OBVIOUS
  <2>2. /\ k + 1 \in 1 .. m /\ (k + 1) - 1 = k /\ k \in 0 .. m /\ Aligned(f[k], g[k], e)
    BY <1>3, <1>5, <2>1
  <2>3. /\ f[k + 1] = Narrow(f[k], s.place[k + 1], s.mesh.shape[k + 1], at(q)[k + 1])
        /\ g[k + 1] = Narrow(g[k], s.place[k + 1], s.mesh.shape[k + 1], at(r)[k + 1])
    BY <1>1, <1>2, <2>2 DEF Cuts
  <2>4. ASSUME NEW x \in Places(s.mesh)
        PROVE  x[k + 1] \in Nat /\ x[k + 1] < s.mesh.shape[k + 1]
    <3>1. k + 1 \in 1 .. Len(s.mesh.shape)
      BY <2>2, ShardingType
    <3> QED
      BY <3>1 DEF Places
  <2>5. f[k] \in PartsOf(s.shape) /\ g[k] \in PartsOf(s.shape)
    BY <1>1, <1>2, <2>2 DEF Cuts
  <2>6. /\ Cuttable(n, f[k], s.place[k + 1], s.mesh.shape[k + 1], at(q)[k + 1])
        /\ Cuttable(n, g[k], s.place[k + 1], s.mesh.shape[k + 1], at(r)[k + 1])
    BY <1>3, <2>2, <2>4, <2>5, CutAt DEF n
  <2>7. at(q)[k + 1] < s.mesh.shape[k + 1] /\ at(r)[k + 1] < s.mesh.shape[k + 1]
    BY <1>3, <2>4
  <2>8. e \in 1 .. n
    BY DEF n
  <2> QED
    BY <2>2, <2>3, <2>6, <2>7, <2>8, NarrowAligned
<1> HIDE DEF S
<1>6. m \in S
  BY <1>3, <1>4, <1>5, AllNaturals
<1> QED
  BY <1>1, <1>2, <1>3, <1>6 DEF S
-----------------------------------------------------------------------------
(* Induction from the last dimension to the first.                         *)
LEMMA AllDown ==
  ASSUME NEW n \in Nat, NEW S, n + 1 \in S, \A d \in 1 .. n : d + 1 \in S => d \in S
  PROVE  \A d \in 1 .. (n + 1) : d \in S
<1> DEFINE T == {k \in Nat : k <= n => n + 1 - k \in S}
<1>1. 0 \in T
  BY n + 1 - 0 = n + 1
<1>2. ASSUME NEW k \in Nat, k \in T PROVE k + 1 \in T
  <2>1. SUFFICES ASSUME k + 1 <= n PROVE n + 1 - (k + 1) \in S
    OBVIOUS
  <2>2. /\ n + 1 - (k + 1) \in 1 .. n /\ (n + 1 - (k + 1)) + 1 = n + 1 - k
        /\ n + 1 - k \in S
    BY <1>2, <2>1
  <2> QED
    BY <2>2
<1> HIDE DEF T
<1>3. \A k \in Nat : k \in T
  BY <1>1, <1>2, AllNaturals
<1> TAKE d \in 1 .. (n + 1)
<1>4. n + 1 - d \in Nat /\ n + 1 - d <= n /\ n + 1 - (n + 1 - d) = d
  OBVIOUS
<1> QED
  BY <1>3, <1>4 DEF T

(* Sums of products.                                                       *)
LEMMA SumOfProduct ==
  ASSUME NEW a \in Nat, NEW b \in Nat, NEW c \in Nat
  PROVE  a * b + c \in Nat
<1>1. a * b \in Nat
  OBVIOUS
<1> QED
  BY <1>1

(* ... in two ways.                                                        *)
LEMMA Distribute ==
  ASSUME NEW q \in Nat, NEW a \in Nat, NEW b \in Nat, NEW v \in Nat, NEW c \in Nat
  PROVE  q * (a * v) + (b * v + c) = (q * a + b) * v + c
<1>1. q * (a * v) = (q * a) * v
  OBVIOUS
<1>2. (q * a + b) * v = (q * a) * v + b * v
  <2>1. q * a \in Nat
    OBVIOUS
  <2>2. ASSUME NEW p \in Nat PROVE (p + b) * v = p * v + b * v
    OBVIOUS
  <2> QED
    BY <2>1, <2>2
<1>3. (q * a) * v \in Nat /\ b * v \in Nat
  <2>1. ASSUME NEW x \in Nat, NEW y \in Nat PROVE x * y \in Nat
    OBVIOUS
  <2> QED
    BY <2>1
<1>4. ASSUME NEW x \in Nat, NEW y \in Nat PROVE x + (y + c) = (x + y) + c
  OBVIOUS
<1> QED
  BY <1>1, <1>2, <1>3, <1>4

(* Quotient and remainder.                                                 *)
LEMMA Quotient ==
  ASSUME NEW a \in Nat, NEW b \in Nat \ {0}, NEW c \in Nat, c < b
  PROVE  (a * b + c) \div b = a /\ (a * b + c) % b = c
<1> DEFINE x == a * b + c
           q == x \div b
<1>1. a * b \in Nat
  OBVIOUS
<1>2. x \in Nat /\ x = a * b + c
  BY <1>1
<1> HIDE DEF x
<1>3. q \in Int /\ q * b <= x /\ x < q * b + b /\ x % b = x - q * b
  BY <1>2
<1> HIDE DEF q
<1>4. ~(q < a)
  <2>1. SUFFICES ASSUME q < a PROVE FALSE
    OBVIOUS
  <2>2. (q + 1) * b <= a * b
    BY <1>3, <2>1
  <2>3. q * b + b = (q + 1) * b
    BY <1>3
  <2>4. q * b \in Int /\ (q + 1) * b \in Int
    BY <1>3
  <2> HIDE DEF x, q
  <2> QED
    BY <1>1, <1>2, <1>3, <2>2, <2>3, <2>4
<1>5. ~(a < q)
  <2>1. SUFFICES ASSUME a < q PROVE FALSE
    OBVIOUS
  <2>2. (a + 1) * b <= q * b
    BY <1>3, <2>1
  <2>3. a * b + b = (a + 1) * b
    OBVIOUS
  <2>4. q * b \in Int /\ (a + 1) * b \in Int
    BY <1>3
  <2> QED
    BY <1>1, <1>2, <1>3, <2>2, <2>3, <2>4
<1>6. q = a
  BY <1>3, <1>4, <1>5
<1> QED
  BY <1>1, <1>2, <1>3, <1>6 DEF x, q

(* h is the row-major place of what at says of the dimensions from each on. *)
RowMajor(shape, at, h) ==
  LET n == Len(shape)
  IN  /\ h \in [1 .. (n + 1) -> Nat] /\ h[n + 1] = 0
      /\ \A d \in 1 .. n : h[d] = at[d] * VolumeFrom(shape, d + 1) + h[d + 1]

(* There is one.                                                           *)
LEMMA RowMajorExists ==
  ASSUME NEW shape \in Seq(Nat), NEW at \in [1 .. Len(shape) -> Nat]
  PROVE  \E h : RowMajor(shape, at, h)
<1> DEFINE n == Len(shape)
           V(d) == VolumeFrom(shape, d)
           step == [kv \in (1 .. n) \X Nat |-> at[n + 1 - kv[1]] * V(n + 1 - kv[1] + 1) + kv[2]]
<1>1. n \in Nat
  OBVIOUS
<1>2. \A d \in 1 .. (n + 1) : V(d) \in Nat
  BY VolumeSteps
<1> HIDE DEF V
<1>3. step \in [(1 .. n) \X Nat -> Nat]
  <2>1. ASSUME NEW kv \in (1 .. n) \X Nat
        PROVE  at[n + 1 - kv[1]] * V(n + 1 - kv[1] + 1) + kv[2] \in Nat
    <3>1. kv[1] \in 1 .. n /\ kv[2] \in Nat
      OBVIOUS
    <3>2. n + 1 - kv[1] \in 1 .. n /\ n + 1 - kv[1] + 1 \in 1 .. (n + 1)
      BY <1>1, <3>1
    <3>3. at[n + 1 - kv[1]] \in Nat /\ V(n + 1 - kv[1] + 1) \in Nat
      BY <1>2, <3>2
    <3> QED
      BY <3>1, <3>3, SumOfProduct
  <2> QED
    BY <2>1
<1>4. \A k \in 1 .. n, v \in Nat : step[<<k, v>>] = at[n + 1 - k] * V(n + 1 - k + 1) + v
  OBVIOUS
<1> HIDE DEF step
<1>5. PICK f \in [0 .. n -> Nat] : Goes(f, 0, step, n)
  BY <1>1, <1>3, Recursion
<1> DEFINE h == [d \in 1 .. (n + 1) |-> f[n + 1 - d]]
<1>6. \A d \in 1 .. (n + 1) : n + 1 - d \in 0 .. n
  BY <1>1
<1>7. h \in [1 .. (n + 1) -> Nat] /\ \A d \in 1 .. (n + 1) : h[d] = f[n + 1 - d]
  BY <1>5, <1>6
<1> HIDE DEF h
<1>8. h[n + 1] = 0
  <2>1. n + 1 \in 1 .. (n + 1) /\ n + 1 - (n + 1) = 0
    BY <1>1
  <2> QED
    BY <1>5, <1>7, <2>1 DEF Goes
<1>9. ASSUME NEW d \in 1 .. n PROVE h[d] = at[d] * V(d + 1) + h[d + 1]
  <2> DEFINE k == n + 1 - d
  <2>1. /\ k \in 1 .. n /\ k - 1 \in 0 .. n /\ k - 1 = n + 1 - (d + 1) /\ n + 1 - k = d
        /\ d \in 1 .. (n + 1) /\ d + 1 \in 1 .. (n + 1)
    BY <1>1
  <2>2. h[d] = f[k] /\ h[d + 1] = f[k - 1]
    BY <1>7, <2>1
  <2> HIDE DEF k
  <2>3. f[k] = step[<<k, f[k - 1]>>] /\ f[k - 1] \in Nat
    BY <1>5, <2>1 DEF Goes
  <2> QED
    BY <1>4, <2>1, <2>2, <2>3
<1>10. RowMajor(shape, at, h)
  BY <1>7, <1>8, <1>9 DEF RowMajor, V
<1> QED
  BY <1>10

(* It is below the number of cells from there on ...                       *)
LEMMA RowMajorBelow ==
  ASSUME NEW shape \in Seq(Nat), \A d \in 1 .. Len(shape) : shape[d] > 0,
         NEW at \in [1 .. Len(shape) -> Nat], \A d \in 1 .. Len(shape) : at[d] < shape[d],
         NEW h, RowMajor(shape, at, h)
  PROVE  \A d \in 1 .. (Len(shape) + 1) : h[d] < VolumeFrom(shape, d)
<1> DEFINE n == Len(shape)
           V(d) == VolumeFrom(shape, d)
           S == {d \in 1 .. (n + 1) : h[d] < V(d)}
<1>1. n \in Nat
  OBVIOUS
<1>2. /\ \A d \in 1 .. (n + 1) : V(d) \in Nat \ {0}
      /\ V(n + 1) = 1
      /\ \A d \in 1 .. n : V(d) = shape[d] * V(d + 1)
  BY VolumeSteps, VolumePositive
<1>3. /\ h \in [1 .. (n + 1) -> Nat] /\ h[n + 1] = 0
      /\ \A d \in 1 .. n : h[d] = at[d] * V(d + 1) + h[d + 1]
  BY DEF RowMajor
<1> HIDE DEF V
<1>4. n + 1 \in S
  BY <1>1, <1>2, <1>3
<1>5. ASSUME NEW d \in 1 .. n, d + 1 \in S PROVE d \in S
  <2>1. /\ d + 1 \in 1 .. (n + 1) /\ d \in 1 .. (n + 1) /\ V(d + 1) \in Nat \ {0}
        /\ h[d] = at[d] * V(d + 1) + h[d + 1] /\ V(d) = shape[d] * V(d + 1)
        /\ h[d + 1] \in Nat /\ h[d + 1] < V(d + 1) /\ at[d] \in Nat /\ shape[d] \in Nat
        /\ at[d] < shape[d]
    <3>1. d + 1 \in 1 .. (n + 1) /\ d \in 1 .. (n + 1) /\ h[d + 1] < V(d + 1)
      BY <1>1, <1>5
    <3>2. shape[d] \in Nat /\ at[d] \in Nat /\ at[d] < shape[d]
      OBVIOUS
    <3> HIDE DEF S
    <3> QED
      BY <1>2, <1>3, <3>1, <3>2
  <2>2. ASSUME NEW a \in Nat, NEW b \in Nat, NEW v \in Nat, NEW c \in Nat, a < b, c < v
        PROVE  a * v + c < b * v
    <3>1. (a + 1) * v <= b * v /\ (a + 1) * v = a * v + v
      BY <2>2
    <3>2. a * v \in Nat /\ b * v \in Nat /\ (a + 1) * v \in Nat
      OBVIOUS
    <3>3. ASSUME NEW x \in Nat, NEW y \in Nat, NEW z \in Nat, z <= y, z = x + v
          PROVE  x + c < y
      BY <2>2, <3>3
    <3> QED
      BY <3>1, <3>2, <3>3
  <2>3. h[d] < V(d)
    BY <2>1, <2>2
  <2> QED
    BY <2>1, <2>3
<1> HIDE DEF S
<1>6. \A d \in 1 .. (n + 1) : d \in S
  BY <1>1, <1>4, <1>5, AllDown
<1> QED
  BY <1>6 DEF S, V

(* ... and what it says of the dimensions before d is whole cells of those *)
(* from d on.                                                              *)
LEMMA RowMajorSplits ==
  ASSUME NEW shape \in Seq(Nat), NEW at \in [1 .. Len(shape) -> Nat], NEW h,
         RowMajor(shape, at, h), NEW d \in 1 .. (Len(shape) + 1)
  PROVE  \E q \in Nat : h[1] = q * VolumeFrom(shape, d) + h[d]
<1> DEFINE n == Len(shape)
           V(e) == VolumeFrom(shape, e)
           S == {k \in Nat : k + 1 <= n + 1 => \E q \in Nat : h[1] = q * V(k + 1) + h[k + 1]}
<1>1. n \in Nat
  OBVIOUS
<1>2. /\ \A e \in 1 .. (n + 1) : V(e) \in Nat
      /\ \A e \in 1 .. n : V(e) = shape[e] * V(e + 1) /\ shape[e] \in Nat
  BY VolumeSteps
<1>3. /\ \A e \in 1 .. (n + 1) : h[e] \in Nat
      /\ \A e \in 1 .. n : h[e] = at[e] * V(e + 1) + h[e + 1]
  BY DEF RowMajor
<1> HIDE DEF V
<1>4. 0 \in S
  <2>1. V(1) \in Nat /\ h[1] \in Nat
    BY <1>1, <1>2, <1>3
  <2>2. h[1] = 0 * V(1) + h[1]
    BY <2>1
  <2> QED
    BY <2>2
<1>5. ASSUME NEW k \in Nat, k \in S PROVE k + 1 \in S
  <2> DEFINE e == k + 1
  <2>1. SUFFICES ASSUME e + 1 <= n + 1 PROVE \E q \in Nat : h[1] = q * V(e + 1) + h[e + 1]
    OBVIOUS
  <2>2. e \in 1 .. n /\ e + 1 \in 1 .. (n + 1) /\ e \in 1 .. (n + 1) /\ e <= n + 1
    BY <1>1, <2>1
  <2>3. PICK q \in Nat : h[1] = q * V(e) + h[e]
    BY <1>5, <2>2
  <2>4. /\ V(e) = shape[e] * V(e + 1) /\ h[e] = at[e] * V(e + 1) + h[e + 1]
        /\ shape[e] \in Nat /\ at[e] \in Nat /\ V(e + 1) \in Nat /\ h[e + 1] \in Nat
    BY <1>2, <1>3, <2>2
  <2>6. q * V(e) + h[e] = q * (shape[e] * V(e + 1)) + (at[e] * V(e + 1) + h[e + 1])
    BY <2>4
  <2>7. /\ h[1] = (q * shape[e] + at[e]) * V(e + 1) + h[e + 1]
        /\ q * shape[e] + at[e] \in Nat
    <3> HIDE DEF e
    <3>1. ASSUME NEW a, NEW b, NEW v, NEW c, a = shape[e], b = at[e], v = V(e + 1), c = h[e + 1]
          PROVE  q * (a * v) + (b * v + c) = (q * a + b) * v + c
      <4>1. a \in Nat /\ b \in Nat /\ v \in Nat /\ c \in Nat
        BY <2>4, <3>1
      <4> QED
        BY <4>1, Distribute
    <3>2. q * shape[e] + at[e] \in Nat
      BY <2>4, SumOfProduct
    <3> QED
      BY <2>3, <2>6, <3>1, <3>2
  <2> QED
    BY <2>7
<1> HIDE DEF S
<1>6. \A k \in Nat : k \in S
  BY <1>4, <1>5, AllNaturals
<1>7. d - 1 \in Nat /\ (d - 1) + 1 = d /\ d <= n + 1
  BY <1>1
<1> QED
  BY <1>6, <1>7 DEF S, V
-----------------------------------------------------------------------------
(* Every coordinate of a mesh is that of a rank of the mesh.               *)
LEMMA CoordinateOnto ==
  ASSUME NEW s, IsSharding(s), NEW at \in Places(s.mesh)
  PROVE  \E r \in RanksIn(s) : Coordinate(s.mesh, r) = at
<1> DEFINE shape == s.mesh.shape
           data == s.mesh.data
           m == Len(shape)
           V(d) == VolumeFrom(shape, d)
<1>1. /\ m \in Nat /\ DOMAIN shape = 1 .. m /\ shape \in Seq(Nat)
      /\ \A k \in 1 .. m : shape[k] \in Nat \ {0} /\ shape[k] > 0
  BY ShardingType
<1>2. /\ at \in [1 .. m -> Nat] /\ \A d \in 1 .. m : at[d] < shape[d]
      /\ \A d \in 1 .. m : at[d] \in Nat
  BY DEF Places
<1>3. data \in Seq(Nat) /\ Len(data) = V(1) /\ DOMAIN data = 1 .. Len(data)
  BY DEF IsSharding, Volume
<1>4. \A i \in DOMAIN data, j \in DOMAIN data : data[i] = data[j] => i = j
  BY DEF IsSharding, IsInjective
<1>5. PICK h : RowMajor(shape, at, h)
  BY <1>1, <1>2, RowMajorExists
<1>6. \A d \in 1 .. (m + 1) : h[d] \in Nat /\ h[d] < V(d)
  BY <1>1, <1>2, <1>5, RowMajorBelow DEF RowMajor
<1>7. /\ \A d \in 1 .. (m + 1) : V(d) \in Nat \ {0}
      /\ \A d \in 1 .. m : V(d) = shape[d] * V(d + 1)
  BY <1>1, VolumeSteps, VolumePositive
<1>8. \A d \in 1 .. (m + 1) : \E q \in Nat : h[1] = q * V(d) + h[d]
  BY <1>1, <1>2, <1>5, RowMajorSplits
<1>9. \A d \in 1 .. m : h[d] = at[d] * V(d + 1) + h[d + 1]
  BY <1>5 DEF RowMajor
<1> DEFINE i == h[1] + 1
           r == data[i]
<1>10. i \in DOMAIN data /\ i - 1 = h[1] /\ i \in Nat
  <2>1. 1 \in 1 .. (m + 1)
    BY <1>1
  <2> HIDE DEF V
  <2>2. h[1] \in Nat /\ h[1] < V(1) /\ V(1) \in Nat
    BY <1>6, <1>7, <2>1
  <2> QED
    BY <1>3, <2>2
<1>11. r \in RanksIn(s)
  BY <1>10 DEF RanksIn, ToSet
<1>12. (CHOOSE k \in DOMAIN data : data[k] = r) = i
  BY <1>4, <1>10
<1>13. Coordinate(s.mesh, r) = [d \in 1 .. m |-> (h[1] \div V(d + 1)) % shape[d]]
  <2>1. \A d \in 1 .. m : Strides(shape)[d] = V(d + 1)
    BY <1>1 DEF Strides
  <2>2. Coordinate(s.mesh, r)
          = [d \in DOMAIN shape |-> (((CHOOSE k \in DOMAIN data : data[k] = r) - 1)
                                       \div Strides(shape)[d]) % shape[d]]
    BY DEF Coordinate
  <2> HIDE DEF shape, V, data, r, i
  <2>3. Coordinate(s.mesh, r) = [d \in 1 .. m |-> (h[1] \div Strides(shape)[d]) % shape[d]]
    BY <1>1, <1>10, <1>12, <2>2
  <2> QED
    BY <2>1, <2>3
<1> HIDE DEF i, r, V, shape, data
<1>14. ASSUME NEW d \in 1 .. m PROVE (h[1] \div V(d + 1)) % shape[d] = at[d]
  <2>1. d \in 1 .. (m + 1) /\ d + 1 \in 1 .. (m + 1)
    BY <1>1
  <2>2. PICK q \in Nat : h[1] = q * V(d) + h[d]
    BY <1>8, <2>1
  <2>3. /\ V(d) = shape[d] * V(d + 1) /\ h[d] = at[d] * V(d + 1) + h[d + 1]
        /\ V(d + 1) \in Nat \ {0} /\ h[d + 1] \in Nat /\ h[d + 1] < V(d + 1)
        /\ shape[d] \in Nat \ {0} /\ at[d] \in Nat /\ at[d] < shape[d]
    BY <1>1, <1>2, <1>6, <1>7, <1>9, <2>1
  <2>4. h[1] = q * (shape[d] * V(d + 1)) + (at[d] * V(d + 1) + h[d + 1])
    BY <2>2, <2>3
  <2>5. h[1] = (q * shape[d] + at[d]) * V(d + 1) + h[d + 1]
    BY <2>3, <2>4, Distribute
  <2>6. q * shape[d] + at[d] \in Nat
    BY <2>3, SumOfProduct
  <2>7. h[1] \div V(d + 1) = q * shape[d] + at[d]
    <3>1. ((q * shape[d] + at[d]) * V(d + 1) + h[d + 1]) \div V(d + 1) = q * shape[d] + at[d]
      BY <2>3, <2>6, Quotient
    <3> QED
      BY <2>5, <3>1
  <2>8. (q * shape[d] + at[d]) % shape[d] = at[d]
    BY <2>3, Quotient
  <2> QED
    BY <2>7, <2>8
<1>15. Coordinate(s.mesh, r) = at
  BY <1>2, <1>13, <1>14
<1> QED
  BY <1>11, <1>15

(* There is one way to cut for a coordinate.                               *)
LEMMA CutsUnique ==
  ASSUME NEW s, NEW at, NEW f, NEW g, Cuts(s, at, f), Cuts(s, at, g), Len(s.place) \in Nat
  PROVE  f[Len(s.place)] = g[Len(s.place)]
<1> DEFINE m == Len(s.place)
           S == {k \in Nat : k <= m => f[k] = g[k]}
<1>1. 0 \in S
  BY DEF Cuts
<1>2. ASSUME NEW k \in Nat, k \in S PROVE k + 1 \in S
  <2>1. SUFFICES ASSUME k + 1 <= m PROVE f[k + 1] = g[k + 1]
    OBVIOUS
  <2>2. k + 1 \in 1 .. m /\ (k + 1) - 1 = k /\ f[k] = g[k]
    BY <1>2, <2>1
  <2> QED
    BY <2>2 DEF Cuts
<1> HIDE DEF S
<1>3. m \in S
  BY <1>1, <1>2, AllNaturals
<1> QED
  BY <1>3 DEF S

(* A cell of a part stays in what some coordinate is left of it.           *)
LEMMA NarrowCovers ==
  ASSUME NEW n \in Nat, NEW b \in Boxes(n), NEW d \in 0 .. n, NEW m \in Nat \ {0},
         NEW x \in Points(n), Inside(x, b)
  PROVE  \E i \in 0 .. (m - 1) : Inside(x, Narrow(b, d, m, i))
<1>1. DOMAIN x = 1 .. n /\ \A e \in 1 .. n : x[e] \in Nat /\ b.off[e] \in Nat /\ b.size[e] \in Nat
  BY BoxAt DEF Points
<1>2. \A e \in 1 .. n : b.off[e] <= x[e] /\ x[e] < b.off[e] + b.size[e]
  BY <1>1 DEF Inside, End
<1>3. CASE d = Replicate
  <2>1. 0 \in 0 .. (m - 1)
    OBVIOUS
  <2>2. Narrow(b, d, m, 0) = b
    BY <1>3 DEF Narrow
  <2> QED
    BY <2>1, <2>2
<1>4. CASE d # Replicate
  <2>1. d \in 1 .. n
    BY <1>4 DEF Replicate
  <2>2. /\ b.size[d] \in Nat /\ x[d] - b.off[d] \in 0 .. (b.size[d] - 1)
        /\ x[d] \in Nat /\ b.off[d] \in Nat
    BY <1>1, <1>2, <2>1
  <2>3. PICK i \in 0 .. (m - 1) :
          LET c == Chunk(b.size[d], m, i) IN c.off <= x[d] - b.off[d] /\ x[d] - b.off[d] < c.off + c.size
    BY <2>2, ChunksCover
  <2> DEFINE c == Chunk(b.size[d], m, i)
             p == Narrow(b, d, m, i)
  <2>4. i \in Nat /\ Cuttable(n, b, d, m, i)
    BY DEF Cuttable
  <2>5. c.off \in Nat /\ c.size \in Nat /\ c.off <= x[d] - b.off[d] /\ x[d] - b.off[d] < c.off + c.size
    BY <2>2, <2>3, <2>4, ChunkType
  <2>6. p.off[d] = b.off[d] + c.off /\ p.size[d] = c.size
    BY <1>4, <2>4, NarrowAt
  <2>7. \A e \in 1 .. n : e # d => p.off[e] = b.off[e] /\ p.size[e] = b.size[e]
    BY <2>4, NarrowAt
  <2> HIDE DEF c, p
  <2>8. ASSUME NEW e \in 1 .. n PROVE p.off[e] <= x[e] /\ x[e] < p.off[e] + p.size[e]
    <3>1. CASE e = d
      BY <2>2, <2>5, <2>6, <3>1
    <3>2. CASE e # d
      BY <1>2, <2>7, <3>2
    <3> QED
      BY <3>1, <3>2
  <2>9. Inside(x, p)
    BY <1>1, <2>8 DEF Inside, End
  <2> QED
    BY <2>9 DEF p
<1> QED
  BY <1>3, <1>4

(* Every cell of the tensor is held by a rank of the mesh.                 *)
THEOREM ShardsCover ==
  ASSUME NEW s, IsSharding(s), NEW x \in Points(Len(s.shape)), Inside(x, Whole(s.shape))
  PROVE  \E r \in RanksIn(s) : Inside(x, LocalShard(s, r))
<1> DEFINE n == Len(s.shape)
           m == Len(s.place)
           Holding == {b \in PartsOf(s.shape) : Inside(x, b)}
           go(k, b, i) == Narrow(b, s.place[k], s.mesh.shape[k], i)
           way(k, b) == CHOOSE i \in 0 .. (s.mesh.shape[k] - 1) : Inside(x, go(k, b, i))
           step == [kb \in (1 .. m) \X Holding |-> go(kb[1], kb[2], way(kb[1], kb[2]))]
<1>1. n \in Nat /\ m \in Nat /\ m = Len(s.mesh.shape) /\ s.shape \in Seq(Nat)
  BY ShardingType
<1>2. \A k \in 1 .. m : s.mesh.shape[k] \in Nat \ {0} /\ s.place[k] \in 0 .. n
  BY ShardingType
<1>3. \A k \in 1 .. m, b \in Holding :
        way(k, b) \in 0 .. (s.mesh.shape[k] - 1) /\ go(k, b, way(k, b)) \in Holding
  <2> SUFFICES ASSUME NEW k \in 1 .. m, NEW b \in Holding
               PROVE  way(k, b) \in 0 .. (s.mesh.shape[k] - 1) /\ go(k, b, way(k, b)) \in Holding
    OBVIOUS
  <2>1. b \in Boxes(n) /\ b \in PartsOf(s.shape) /\ Inside(x, b)
    BY DEF PartsOf
  <2>2. \E i \in 0 .. (s.mesh.shape[k] - 1) : Inside(x, go(k, b, i))
    BY <1>1, <1>2, <2>1, NarrowCovers
  <2>3. way(k, b) \in 0 .. (s.mesh.shape[k] - 1) /\ Inside(x, go(k, b, way(k, b)))
    BY <2>2
  <2> HIDE DEF way
  <2>4. way(k, b) \in Nat
    BY <1>2, <2>3
  <2>5. go(k, b, way(k, b)) \in PartsOf(s.shape)
    BY <1>1, <2>1, <2>4, CutAt, NarrowIsPart
  <2> QED
    BY <2>3, <2>5
<1> HIDE DEF way
<1>4. Whole(s.shape) \in Holding
  BY <1>1, WholeIsPart
<1>5. step \in [(1 .. m) \X Holding -> Holding]
  BY <1>3
<1>6. \A k \in 1 .. m, b \in Holding : step[<<k, b>>] = go(k, b, way(k, b))
  OBVIOUS
<1> HIDE DEF step, Holding, go
<1>7. PICK f \in [0 .. m -> Holding] : Goes(f, Whole(s.shape), step, m)
  BY <1>1, <1>4, <1>5, Recursion
<1> DEFINE at == [k \in 1 .. m |-> way(k, f[k - 1])]
<1>8. ASSUME NEW k \in 1 .. m
      PROVE  /\ at[k] \in 0 .. (s.mesh.shape[k] - 1)
             /\ f[k] = Narrow(f[k - 1], s.place[k], s.mesh.shape[k], at[k])
  <2>1. k - 1 \in 0 .. m
    BY <1>1
  <2>2. f[k - 1] \in Holding /\ f[k] = step[<<k, f[k - 1]>>]
    BY <1>7, <2>1 DEF Goes
  <2>3. at[k] = way(k, f[k - 1])
    OBVIOUS
  <2> HIDE DEF at
  <2>4. f[k] = go(k, f[k - 1], at[k]) /\ at[k] \in 0 .. (s.mesh.shape[k] - 1)
    BY <1>3, <1>6, <2>2, <2>3
  <2> QED
    BY <2>4 DEF go
<1>9. at \in Places(s.mesh)
  <2>1. \A k \in 1 .. m : at[k] \in Nat /\ at[k] < s.mesh.shape[k]
    <3> TAKE k \in 1 .. m
    <3>1. at[k] \in 0 .. (s.mesh.shape[k] - 1) /\ s.mesh.shape[k] \in Nat \ {0}
      BY <1>2, <1>8
    <3> HIDE DEF at
    <3> QED
      BY <3>1
  <2>2. at = [k \in 1 .. m |-> at[k]]
    OBVIOUS
  <2> HIDE DEF at
  <2> QED
    BY <1>1, <2>1, <2>2 DEF Places
<1> HIDE DEF at
<1>10. f \in [0 .. m -> PartsOf(s.shape)] /\ m \in 0 .. m /\ Inside(x, f[m])
  BY <1>1, <1>7 DEF Holding
<1>11. Cuts(s, at, f)
  BY <1>7, <1>8, <1>10 DEF Cuts, Goes
<1>12. PICK r \in RanksIn(s) : Coordinate(s.mesh, r) = at
  BY <1>9, CoordinateOnto
<1>13. PICK g : Cuts(s, at, g) /\ LocalShard(s, r) = g[m]
  BY <1>12, ShardIsCut
<1>14. g[m] = f[m]
  BY <1>1, <1>11, <1>13, CutsUnique
<1> QED
  BY <1>10, <1>13, <1>14
-----------------------------------------------------------------------------
(* Parts of sequences *)

(* The elements at some places of a sequence, and no others. *)
LEMMA SelectedAt ==
  ASSUME NEW X, NEW s \in Seq(X), NEW places
  PROVE  /\ Selected(s, places) \in Seq(X)
         /\ \A v : v \in ToSet(Selected(s, places))
                     <=> \E k \in 1 .. Len(s) : k \in places /\ s[k] = v
<1> DEFINE n == Len(s)
           Of(g) == g = [k \in 0 .. n |->
                           IF k = 0 THEN <<>>
                           ELSE IF k \in places THEN Append(g[k - 1], s[k]) ELSE g[k - 1]]
           upto == CHOOSE g : Of(g)
           step == [kv \in (1 .. n) \X Seq(X) |->
                      IF kv[1] \in places THEN Append(kv[2], s[kv[1]]) ELSE kv[2]]
           Right(t, k) == \A v : v \in ToSet(t) <=> \E j \in 1 .. k : j \in places /\ s[j] = v
<1>1. n \in Nat /\ \A k \in 1 .. n : s[k] \in X
  OBVIOUS
<1>2. Selected(s, places) = upto[n]
  BY DEF Selected
<1>3. step \in [(1 .. n) \X Seq(X) -> Seq(X)]
  <2>1. \A k \in 1 .. n, t \in Seq(X) : Append(t, s[k]) \in Seq(X)
    BY <1>1
  <2> QED
    BY <2>1
<1>4. \A k \in 1 .. n, t \in Seq(X) :
        step[<<k, t>>] = IF k \in places THEN Append(t, s[k]) ELSE t
  OBVIOUS
<1> HIDE DEF step
<1>5. PICK f \in [0 .. n -> Seq(X)] : Goes(f, <<>>, step, n)
  <2>1. <<>> \in Seq(X)
    OBVIOUS
  <2> QED
    BY <1>1, <1>3, <2>1, Recursion
<1>6. \A k \in 1 .. n : f[k] = IF k \in places THEN Append(f[k - 1], s[k]) ELSE f[k - 1]
  <2> TAKE k \in 1 .. n
  <2>1. k - 1 \in 0 .. n
    BY <1>1
  <2>2. f[k - 1] \in Seq(X) /\ f[k] = step[<<k, f[k - 1]>>]
    BY <1>5, <2>1 DEF Goes
  <2> QED
    BY <1>4, <2>2
<1>7. Of(f)
  <2>1. \A k \in 0 .. n : k = 0 \/ k \in 1 .. n
    BY <1>1
  <2>2. \A k \in 0 .. n : f[k] = IF k = 0 THEN <<>>
                                 ELSE IF k \in places THEN Append(f[k - 1], s[k]) ELSE f[k - 1]
    BY <1>5, <1>6, <2>1 DEF Goes
  <2> QED
    BY <2>2
<1>8. Of(upto)
  BY <1>7
<1> HIDE DEF upto
<1>9. /\ upto[0] = <<>>
      /\ \A k \in 1 .. n : upto[k] = IF k \in places THEN Append(upto[k - 1], s[k]) ELSE upto[k - 1]
  <2>1. \A k \in 0 .. n : upto[k] = IF k = 0 THEN <<>>
                                 ELSE IF k \in places THEN Append(upto[k - 1], s[k]) ELSE upto[k - 1]
    BY <1>8
  <2>2. 0 \in 0 .. n /\ \A k \in 1 .. n : k \in 0 .. n /\ k # 0
    BY <1>1
  <2> QED
    BY <2>1, <2>2
<1> HIDE DEF Of
<1> DEFINE S == {k \in Nat : k <= n => upto[k] \in Seq(X) /\ Right(upto[k], k)}
<1>10. 0 \in S
  <2>1. <<>> \in Seq(X) /\ ToSet(<<>>) = {}
    BY DEF ToSet
  <2>2. Right(<<>>, 0)
    BY <2>1
  <2> QED
    BY <1>9, <2>1, <2>2
<1>11. ASSUME NEW k \in Nat, k \in S PROVE k + 1 \in S
  <2>1. SUFFICES ASSUME k + 1 <= n PROVE upto[k + 1] \in Seq(X) /\ Right(upto[k + 1], k + 1)
    OBVIOUS
  <2> DEFINE t == upto[k]
  <2>2. /\ k + 1 \in 1 .. n /\ (k + 1) - 1 = k /\ s[k + 1] \in X
        /\ t \in Seq(X) /\ Right(t, k)
    BY <1>1, <1>11, <2>1
  <2>3. upto[k + 1] = IF k + 1 \in places THEN Append(t, s[k + 1]) ELSE t
    BY <1>9, <2>2
  <2> HIDE DEF t
  <2>4. \A v : (\E j \in 1 .. (k + 1) : j \in places /\ s[j] = v)
                 <=> (\E j \in 1 .. k : j \in places /\ s[j] = v) \/ (k + 1 \in places /\ s[k + 1] = v)
    <3>1. \A j : j \in 1 .. (k + 1) <=> j \in 1 .. k \/ j = k + 1
      OBVIOUS
    <3> QED
      BY <3>1
  <2>5. CASE k + 1 \in places
    <3>1. upto[k + 1] = Append(t, s[k + 1]) /\ Append(t, s[k + 1]) \in Seq(X)
      BY <2>2, <2>3, <2>5
    <3>2. \A v : v \in ToSet(Append(t, s[k + 1])) <=> v \in ToSet(t) \/ v = s[k + 1]
      <4>1. /\ DOMAIN t = 1 .. Len(t) /\ Len(t) \in Nat
            /\ DOMAIN Append(t, s[k + 1]) = 1 .. (Len(t) + 1)
            /\ Append(t, s[k + 1])[Len(t) + 1] = s[k + 1]
            /\ \A j \in 1 .. Len(t) : Append(t, s[k + 1])[j] = t[j]
        BY <2>2
      <4>2. \A j : j \in 1 .. (Len(t) + 1) <=> j \in 1 .. Len(t) \/ j = Len(t) + 1
        BY <4>1
      <4> QED
        BY <4>1, <4>2 DEF ToSet
    <3>3. Right(upto[k + 1], k + 1)
      BY <2>2, <2>4, <2>5, <3>1, <3>2
    <3> QED
      BY <3>1, <3>3
  <2>6. CASE k + 1 \notin places
    <3>1. upto[k + 1] = t
      BY <2>3, <2>6
    <3>2. Right(upto[k + 1], k + 1)
      BY <2>2, <2>4, <2>6, <3>1
    <3> QED
      BY <2>2, <3>1, <3>2
  <2> QED
    BY <2>5, <2>6
<1> HIDE DEF S
<1>12. n \in S
  BY <1>1, <1>10, <1>11, AllNaturals
<1>13. upto[n] \in Seq(X) /\ Right(upto[n], n)
  BY <1>1, <1>12 DEF S
<1> QED
  BY <1>2, <1>13

(* The first number of a kind. *)
LEMMA FirstOf ==
  ASSUME NEW T \in SUBSET Nat, T # {}
  PROVE  \E m \in T : \A n \in T : m <= n
<1> DEFINE S == {n \in Nat : \A k \in Nat : k <= n => k \notin T}
<1>1. SUFFICES ASSUME \A m \in T : \E n \in T : ~(m <= n) PROVE FALSE
  OBVIOUS
<1>2. 0 \in S
  <2>1. 0 \notin T
    BY <1>1
  <2> QED
    BY <2>1
<1>3. ASSUME NEW n \in Nat, n \in S PROVE n + 1 \in S
  <2>1. n + 1 \notin T
    <3>1. SUFFICES ASSUME n + 1 \in T PROVE FALSE
      OBVIOUS
    <3>2. PICK k \in T : ~(n + 1 <= k)
      BY <1>1, <3>1
    <3>3. k \in Nat /\ k <= n
      BY <3>2
    <3> QED
      BY <1>3, <3>3
  <2>2. \A k \in Nat : k <= n + 1 => k <= n \/ k = n + 1
    OBVIOUS
  <2> QED
    BY <1>3, <2>1, <2>2
<1> HIDE DEF S
<1>4. \A n \in Nat : n \in S
  BY <1>2, <1>3, AllNaturals
<1>5. PICK t \in T : TRUE
  OBVIOUS
<1>6. t \in Nat /\ t <= t /\ t \in S
  BY <1>4
<1> QED
  BY <1>6 DEF S

(* The first elements of each key: elements, and one of every key. *)
LEMMA FirstsAre ==
  ASSUME NEW X, NEW s \in Seq(X), NEW key
  PROVE  /\ Firsts(key, s) \in Seq(X)
         /\ \A v \in ToSet(Firsts(key, s)) : \E k \in 1 .. Len(s) : s[k] = v
         /\ \A k \in 1 .. Len(s) : \E j \in 1 .. Len(s) :
              key[j] = key[k] /\ s[j] \in ToSet(Firsts(key, s))
<1> DEFINE n == Len(s)
           places == {k \in DOMAIN s : \A m \in 1 .. (k - 1) : key[m] # key[k]}
<1>1. Firsts(key, s) = Selected(s, places)
  BY DEF Firsts
<1>2. n \in Nat /\ DOMAIN s = 1 .. n
  OBVIOUS
<1>3. \A k : k \in places <=> k \in 1 .. n /\ \A m \in 1 .. (k - 1) : key[m] # key[k]
  BY <1>2
<1> HIDE DEF places
<1>4. /\ Selected(s, places) \in Seq(X)
      /\ \A v : v \in ToSet(Selected(s, places)) <=> \E k \in 1 .. n : k \in places /\ s[k] = v
  BY SelectedAt
<1>5. ASSUME NEW k \in 1 .. n
      PROVE  \E j \in 1 .. n : key[j] = key[k] /\ s[j] \in ToSet(Firsts(key, s))
  <2> DEFINE T == {j \in 1 .. n : key[j] = key[k]}
  <2>1. T \in SUBSET Nat /\ k \in T
    BY <1>2
  <2>2. PICK j \in T : \A i \in T : j <= i
    BY <2>1, FirstOf
  <2>3. j \in 1 .. n /\ key[j] = key[k]
    OBVIOUS
  <2>4. ASSUME NEW m \in 1 .. (j - 1), key[m] = key[j] PROVE FALSE
    <3>1. m \in 1 .. n /\ ~(j <= m)
      BY <1>2, <2>3
    <3>2. m \in T
      BY <2>3, <2>4, <3>1
    <3> QED
      BY <2>2, <3>1, <3>2
  <2>5. j \in places
    BY <1>3, <2>3, <2>4
  <2> QED
    BY <1>1, <1>4, <2>3, <2>5
<1> QED
  BY <1>1, <1>4, <1>5

(* What two sequences hold one after the other. *)
LEMMA ConcatHolds ==
  ASSUME NEW X, NEW s \in Seq(X), NEW t \in Seq(X)
  PROVE  s \o t \in Seq(X) /\ ToSet(s \o t) = ToSet(s) \union ToSet(t)
<1>1. /\ s \o t \in Seq(X) /\ Len(s) \in Nat /\ Len(t) \in Nat
      /\ DOMAIN s = 1 .. Len(s) /\ DOMAIN t = 1 .. Len(t) /\ DOMAIN (s \o t) = 1 .. (Len(s) + Len(t))
  OBVIOUS
<1>2. \A i \in 1 .. Len(s) : (s \o t)[i] = s[i]
  OBVIOUS
<1>3. ASSUME NEW i \in 1 .. Len(t)
      PROVE  Len(s) + i \in 1 .. (Len(s) + Len(t)) /\ (s \o t)[Len(s) + i] = t[i]
  <2>1. Len(s) + i \in 1 .. (Len(s) + Len(t)) /\ ~(Len(s) + i <= Len(s)) /\ (Len(s) + i) - Len(s) = i
    BY <1>1
  <2> QED
    BY <2>1
<1>4. ASSUME NEW i \in 1 .. (Len(s) + Len(t)), i \notin 1 .. Len(s)
      PROVE  i - Len(s) \in 1 .. Len(t) /\ (s \o t)[i] = t[i - Len(s)]
  <2>1. i - Len(s) \in 1 .. Len(t) /\ Len(s) + (i - Len(s)) = i
    BY <1>1, <1>4
  <2>2. (s \o t)[Len(s) + (i - Len(s))] = t[i - Len(s)]
    BY <1>3, <2>1
  <2> QED
    BY <2>1, <2>2
<1>5. \A i \in 1 .. Len(s) : i \in 1 .. (Len(s) + Len(t))
  BY <1>1
<1>6. ToSet(s \o t) \subseteq ToSet(s) \union ToSet(t)
  BY <1>1, <1>2, <1>4 DEF ToSet
<1>7. ToSet(s) \subseteq ToSet(s \o t)
  BY <1>1, <1>2, <1>5 DEF ToSet
<1>8. ToSet(t) \subseteq ToSet(s \o t)
  BY <1>1, <1>3 DEF ToSet
<1> QED
  BY <1>1, <1>6, <1>7, <1>8

(* What a sequence of sequences holds, flattened. *)
LEMMA FlattenHolds ==
  ASSUME NEW X, NEW n \in Nat, NEW ss \in [1 .. n -> Seq(X)]
  PROVE  /\ FlattenSeq(ss) \in Seq(X)
         /\ \A v : v \in ToSet(FlattenSeq(ss)) <=> \E k \in 1 .. n : v \in ToSet(ss[k])
<1> DEFINE Of(g) == g = [i \in 1 .. n |-> IF i = 1 THEN ss[i] ELSE g[i - 1] \o ss[i]]
           flatten == CHOOSE g : Of(g)
           step == [kv \in (1 .. n) \X Seq(X) |-> kv[2] \o ss[kv[1]]]
           Right(t, k) == \A v : v \in ToSet(t) <=> \E j \in 1 .. k : v \in ToSet(ss[j])
<1>1. ss \in Seq(Seq(X)) /\ Len(ss) = n /\ DOMAIN ss = 1 .. n /\ \A k \in 1 .. n : ss[k] \in Seq(X)
  OBVIOUS
<1>2. CASE n = 0
  <2>1. FlattenSeq(ss) = ss /\ ss = <<>>
    BY <1>1, <1>2 DEF FlattenSeq
  <2>2. <<>> \in Seq(X) /\ ToSet(<<>>) = {}
    BY DEF ToSet
  <2>3. 1 .. 0 = {}
    OBVIOUS
  <2> QED
    BY <1>2, <2>1, <2>2, <2>3
<1>3. CASE n # 0
  <2>1. FlattenSeq(ss) = flatten[n]
    BY <1>1, <1>3 DEF FlattenSeq
  <2>2. step \in [(1 .. n) \X Seq(X) -> Seq(X)]
    <3>1. \A k \in 1 .. n, t \in Seq(X) : t \o ss[k] \in Seq(X)
      BY <1>1
    <3> QED
      BY <3>1
  <2>3. \A k \in 1 .. n, t \in Seq(X) : step[<<k, t>>] = t \o ss[k]
    OBVIOUS
  <2> HIDE DEF step
  <2>4. PICK f \in [0 .. n -> Seq(X)] : Goes(f, <<>>, step, n)
    <3>1. <<>> \in Seq(X)
      OBVIOUS
    <3> QED
      BY <2>2, <3>1, Recursion
  <2>5. ASSUME NEW k \in 1 .. n PROVE f[k - 1] \in Seq(X) /\ f[k] = f[k - 1] \o ss[k]
    <3>1. k - 1 \in 0 .. n
      OBVIOUS
    <3>2. f[k - 1] \in Seq(X) /\ f[k] = step[<<k, f[k - 1]>>]
      BY <2>4, <3>1 DEF Goes
    <3> QED
      BY <2>3, <3>2
  <2> DEFINE h == [k \in 1 .. n |-> f[k]]
  <2>6. Of(h)
    <3>1. ASSUME NEW k \in 1 .. n
          PROVE  f[k] = IF k = 1 THEN ss[k] ELSE h[k - 1] \o ss[k]
      <4>1. CASE k = 1
        <5>1. f[0] = <<>> /\ f[1] = f[0] \o ss[1] /\ ss[1] \in Seq(X)
          <6>1. 1 \in 1 .. n /\ 1 - 1 = 0
            BY <4>1
          <6> QED
            BY <1>1, <2>4, <2>5, <6>1 DEF Goes
        <5>2. <<>> \o ss[1] = ss[1]
          BY <5>1
        <5> QED
          BY <4>1, <5>1, <5>2
      <4>2. CASE k # 1
        <5>1. k - 1 \in 1 .. n
          BY <4>2
        <5>2. h[k - 1] = f[k - 1]
          BY <5>1
        <5> HIDE DEF h
        <5> QED
          BY <2>5, <4>2, <5>2
      <4> QED
        BY <4>1, <4>2
    <3> QED
      BY <3>1
  <2>7. Of(flatten)
    BY <2>6
  <2> HIDE DEF flatten
  <2>8. \A k \in 1 .. n : flatten[k] = IF k = 1 THEN ss[k] ELSE flatten[k - 1] \o ss[k]
    BY <2>7
  <2> HIDE DEF Of
  <2> DEFINE S == {k \in Nat : k + 1 <= n => flatten[k + 1] \in Seq(X) /\ Right(flatten[k + 1], k + 1)}
  <2>9. 0 \in S
    <3>1. 0 + 1 = 1 /\ 1 \in 1 .. n
      BY <1>3
    <3>2. flatten[1] = ss[1] /\ ss[1] \in Seq(X)
      BY <1>1, <2>8, <3>1
    <3>3. \A j : j \in 1 .. 1 <=> j = 1
      OBVIOUS
    <3>4. Right(flatten[1], 1)
      BY <3>2, <3>3
    <3> QED
      BY <3>1, <3>2, <3>4
  <2>10. ASSUME NEW k \in Nat, k \in S PROVE k + 1 \in S
    <3> DEFINE i == k + 1
               t == flatten[i]
    <3>1. SUFFICES ASSUME i + 1 <= n PROVE flatten[i + 1] \in Seq(X) /\ Right(flatten[i + 1], i + 1)
      OBVIOUS
    <3>2. /\ i \in Nat /\ i + 1 \in 1 .. n /\ i + 1 # 1 /\ (i + 1) - 1 = i
          /\ t \in Seq(X) /\ Right(t, i)
      <4>1. i \in Nat /\ i + 1 \in 1 .. n /\ i + 1 # 1 /\ (i + 1) - 1 = i /\ k + 1 <= n
        BY <3>1
      <4>2. flatten[k + 1] \in Seq(X) /\ Right(flatten[k + 1], k + 1)
        BY <2>10, <4>1
      <4> QED
        BY <4>1, <4>2
    <3>3. flatten[i + 1] = t \o ss[i + 1] /\ ss[i + 1] \in Seq(X)
      BY <1>1, <2>8, <3>2
    <3> HIDE DEF t, i
    <3>4. t \o ss[i + 1] \in Seq(X) /\ ToSet(t \o ss[i + 1]) = ToSet(t) \union ToSet(ss[i + 1])
      BY <3>2, <3>3, ConcatHolds
    <3>5. \A j : j \in 1 .. (i + 1) <=> j \in 1 .. i \/ j = i + 1
      BY <3>2
    <3>6. Right(flatten[i + 1], i + 1)
      BY <3>2, <3>3, <3>4, <3>5
    <3> QED
      BY <3>3, <3>4, <3>6
  <2> HIDE DEF S
  <2>11. \A k \in Nat : k \in S
    BY <2>9, <2>10, AllNaturals
  <2>12. n - 1 \in Nat /\ (n - 1) + 1 = n /\ n <= n
    BY <1>3
  <2>13. flatten[n] \in Seq(X) /\ Right(flatten[n], n)
    BY <2>11, <2>12 DEF S
  <2> QED
    BY <2>1, <2>13
<1> QED
  BY <1>2, <1>3
-----------------------------------------------------------------------------
(* Load plans *)

(* The chunk of a plan, dimension by dimension. *)
LEMMA PlanBox ==
  ASSUME NEW n \in Nat, NEW b \in Boxes(n), NEW t \in Boxes(n), NEW path, NEW rank,
         NEW plan, plan = PlanFor(path, [rank |-> rank, box |-> b], t)
  PROVE  /\ plan.path = path /\ plan.rank = rank
         /\ plan.box.off = [d \in 1 .. n |-> Most(b.off[d], t.off[d]) - t.off[d]]
         /\ \A d \in 1 .. n : End(plan.box, d) = Least(End(b, d), End(t, d)) - t.off[d]
<1> DEFINE both == Overlap(b, t)
<1>1. /\ plan.box = Local(both, t.off) /\ plan.path = path /\ plan.rank = rank
  BY DEF PlanFor, LoadPlan
<1>2. /\ both.off = [d \in 1 .. n |-> Most(b.off[d], t.off[d])]
      /\ both.size = [d \in 1 .. n |-> Least(End(b, d), End(t, d)) - Most(b.off[d], t.off[d])]
  BY DEF Overlap, Box, Boxes
<1> HIDE DEF both
<1>3. plan.box.off = [d \in 1 .. n |-> both.off[d] - t.off[d]] /\ plan.box.size = both.size
  <2>1. DOMAIN both.off = 1 .. n
    BY <1>2
  <2> QED
    BY <1>1, <2>1 DEF Local, Box
<1>4. ASSUME NEW d \in 1 .. n
      PROVE  End(plan.box, d) = Least(End(b, d), End(t, d)) - t.off[d]
  <2> DEFINE lo == Most(b.off[d], t.off[d])
             hi == Least(End(b, d), End(t, d))
  <2>1. lo \in Int /\ hi \in Int /\ t.off[d] \in Int
    BY OverlapAt DEF Most, Least
  <2>2. plan.box.off[d] = lo - t.off[d] /\ plan.box.size[d] = hi - lo
    BY <1>2, <1>3
  <2> HIDE DEF lo, hi
  <2>3. End(plan.box, d) = hi - t.off[d]
    BY <2>1, <2>2 DEF End
  <2> QED
    BY <2>3 DEF hi
<1>5. plan.box.off = [d \in 1 .. n |-> Most(b.off[d], t.off[d]) - t.off[d]]
  BY <1>2, <1>3
<1> QED
  BY <1>1, <1>4, <1>5

(* Of the plans that begin at the same place one is kept. *)
LEMMA DeduplicatedKeeps ==
  ASSUME NEW X, NEW plans \in Seq(X), \A p \in X : p.rank \in Nat
  PROVE  LET kept == Deduplicated(plans)
         IN  /\ kept \in Seq(X)
             /\ \A k \in DOMAIN kept : kept[k] \in ToSet(plans)
             /\ \A p \in ToSet(plans) : \E k \in DOMAIN kept : kept[k].box.off = p.box.off
<1> DEFINE all == ToSet(plans)
           key == [k \in DOMAIN plans |-> plans[k].box.off]
           first == Firsts(key, plans)
           First(plan, p) == /\ p.box.off = plan.box.off
                             /\ \A q \in all : q.box.off = plan.box.off => p.rank <= q.rank
           lowest(plan) == CHOOSE p \in all : First(plan, p)
           kept == Deduplicated(plans)
<1>1. kept = [k \in DOMAIN first |-> lowest(first[k])]
  BY DEF Deduplicated, EachLowest, Lowest
<1>2. all \subseteq X /\ DOMAIN plans = 1 .. Len(plans) /\ \A k \in 1 .. Len(plans) : plans[k] \in all
  BY DEF ToSet
<1>3. /\ first \in Seq(X)
      /\ \A v \in ToSet(first) : \E k \in 1 .. Len(plans) : plans[k] = v
      /\ \A k \in 1 .. Len(plans) : \E j \in 1 .. Len(plans) :
           key[j] = key[k] /\ plans[j] \in ToSet(first)
  BY FirstsAre
<1>4. \A k \in 1 .. Len(plans) : key[k] = plans[k].box.off
  BY <1>2
<1> HIDE DEF all, first, key
<1>5. ASSUME NEW plan \in all
      PROVE  lowest(plan) \in all /\ lowest(plan).box.off = plan.box.off
  <2> DEFINE T == {q.rank : q \in {p \in all : p.box.off = plan.box.off}}
  <2>1. T \in SUBSET Nat /\ T # {}
    BY <1>2
  <2>2. PICK m \in T : \A i \in T : m <= i
    BY <2>1, FirstOf
  <2>3. PICK p \in all : p.box.off = plan.box.off /\ p.rank = m
    OBVIOUS
  <2>4. First(plan, p)
    BY <2>2, <2>3
  <2>5. lowest(plan) \in all /\ First(plan, lowest(plan))
    BY <2>3, <2>4
  <2> QED
    BY <2>5
<1> HIDE DEF lowest, kept
<1>6. /\ DOMAIN first = 1 .. Len(first) /\ Len(first) \in Nat
      /\ \A k \in DOMAIN first : first[k] \in ToSet(first)
      /\ \A v \in ToSet(first) : \E k \in DOMAIN first : first[k] = v
  BY <1>3 DEF ToSet
<1>7. \A v \in ToSet(first) : v \in all
  BY <1>2, <1>3
<1>8. \A k \in DOMAIN first : kept[k] \in all /\ kept[k].box.off = first[k].box.off
  BY <1>1, <1>5, <1>6, <1>7
<1>9. kept \in Seq(X) /\ DOMAIN kept = DOMAIN first
  <2>1. kept \in [1 .. Len(first) -> X]
    BY <1>1, <1>2, <1>6, <1>8
  <2> QED
    BY <1>6, <2>1
<1>10. ASSUME NEW p \in all PROVE \E k \in DOMAIN kept : kept[k].box.off = p.box.off
  <2>1. PICK i \in 1 .. Len(plans) : plans[i] = p
    BY <1>2 DEF all, ToSet
  <2>2. PICK j \in 1 .. Len(plans) : key[j] = key[i] /\ plans[j] \in ToSet(first)
    BY <1>3
  <2>3. PICK k \in DOMAIN first : first[k] = plans[j]
    BY <1>6, <2>2
  <2> QED
    BY <1>4, <1>8, <1>9, <2>1, <2>2, <2>3
<1> QED
  BY <1>8, <1>9, <1>10 DEF all, kept

(* Groups of ranks that had a tensor of this shape. *)
Grouped(groups, shape) ==
  /\ groups \in Seq(ToSet(groups))
  /\ \A n \in DOMAIN groups :
       /\ IsSharding(groups[n].sharding) /\ groups[n].sharding.shape = shape
       /\ groups[n].ranks \in Seq(Nat) /\ ToSet(groups[n].ranks) = RanksIn(groups[n].sharding)

(* Rank r is one of group n: what it holds. *)
ShardOf(groups, n, r) == [rank |-> r, box |-> LocalShard(groups[n].sharding, r)]

(* No part that a rank of the groups holds is missing among the shards.    *)
AllHeld(groups, shards) ==
  \A n \in DOMAIN groups : \A r \in RanksIn(groups[n].sharding) :
    \E v \in ToSet(shards) : v.box = LocalShard(groups[n].sharding, r)

(* The source shards are what the ranks of the groups hold, all of it.     *)
LEMMA ShardsOfGroups ==
  ASSUME NEW shape \in Seq(Nat), NEW groups, Grouped(groups, shape)
  PROVE  LET shards == SourceShards(groups)
         IN  /\ shards \in Seq([rank : Nat, box : PartsOf(shape)])
             /\ \A v \in ToSet(shards) : \E n \in DOMAIN groups :
                  v.rank \in RanksIn(groups[n].sharding) /\ v = ShardOf(groups, n, v.rank)
             /\ AllHeld(groups, shards)
<1> DEFINE Shards == [rank : Nat, box : PartsOf(shape)]
           held(g) == [n \in DOMAIN g.ranks |->
                         [rank |-> g.ranks[n], box |-> LocalShard(g.sharding, g.ranks[n])]]
           parts == [n \in DOMAIN groups |-> held(groups[n])]
           all == FlattenSeq(parts)
           key == [n \in DOMAIN all |-> all[n].box]
           N == Len(groups)
<1>1. SourceShards(groups) = Firsts(key, all)
  BY DEF SourceShards, Distinct, HeldIn
<1>2. N \in Nat /\ DOMAIN groups = 1 .. N
  BY DEF Grouped
<1>3. ASSUME NEW n \in 1 .. N
      PROVE  /\ parts[n] \in Seq(Shards)
             /\ \A v : v \in ToSet(parts[n]) <=>
                  \E r \in RanksIn(groups[n].sharding) : v = ShardOf(groups, n, r)
  <2> DEFINE g == groups[n]
  <2>1. /\ IsSharding(g.sharding) /\ g.sharding.shape = shape
        /\ g.ranks \in Seq(Nat) /\ ToSet(g.ranks) = RanksIn(g.sharding)
    BY <1>2 DEF Grouped
  <2>2. parts[n] = held(g)
    BY <1>2
  <2> HIDE DEF parts
  <2>3. DOMAIN g.ranks = 1 .. Len(g.ranks) /\ Len(g.ranks) \in Nat
    BY <2>1
  <2>4. \A k \in DOMAIN g.ranks : g.ranks[k] \in Nat /\ g.ranks[k] \in RanksIn(g.sharding)
    BY <2>1 DEF ToSet
  <2>5. \A r \in RanksIn(g.sharding) : LocalShard(g.sharding, r) \in PartsOf(shape)
    BY <2>1, ShardInTensor
  <2>6. \A r \in RanksIn(g.sharding) : \E k \in DOMAIN g.ranks : g.ranks[k] = r
    BY <2>1 DEF ToSet
  <2> HIDE DEF g
  <2>7. held(g) \in [1 .. Len(g.ranks) -> Shards]
    BY <2>3, <2>4, <2>5
  <2>8. held(g) \in Seq(Shards)
    BY <2>3, <2>7
  <2>9. \A v : v \in ToSet(held(g)) <=>
          \E k \in DOMAIN g.ranks : v = [rank |-> g.ranks[k], box |-> LocalShard(g.sharding, g.ranks[k])]
    <3>1. DOMAIN held(g) = DOMAIN g.ranks
      OBVIOUS
    <3>2. \A k \in DOMAIN g.ranks :
            held(g)[k] = [rank |-> g.ranks[k], box |-> LocalShard(g.sharding, g.ranks[k])]
      OBVIOUS
    <3> HIDE DEF held
    <3> QED
      BY <3>1, <3>2 DEF ToSet
  <2> HIDE DEF held
  <2> QED
    BY <2>2, <2>4, <2>6, <2>8, <2>9 DEF ShardOf, g
<1>4. parts \in [1 .. N -> Seq(Shards)]
  <2>1. parts = [n \in 1 .. N |-> parts[n]]
    BY <1>2
  <2> HIDE DEF parts
  <2> QED
    BY <1>3, <2>1
<1> HIDE DEF parts, held
<1>5. /\ all \in Seq(Shards)
      /\ \A v : v \in ToSet(all) <=> \E n \in 1 .. N : v \in ToSet(parts[n])
  BY <1>2, <1>4, FlattenHolds
<1>6. DOMAIN all = 1 .. Len(all) /\ \A k \in 1 .. Len(all) : all[k] \in ToSet(all) /\ key[k] = all[k].box
  BY <1>5 DEF ToSet
<1>7. \A v \in ToSet(all) : \E k \in 1 .. Len(all) : all[k] = v
  BY <1>6 DEF ToSet
<1> HIDE DEF all, key
<1>8. /\ Firsts(key, all) \in Seq(Shards)
      /\ \A v \in ToSet(Firsts(key, all)) : \E k \in 1 .. Len(all) : all[k] = v
      /\ \A k \in 1 .. Len(all) : \E j \in 1 .. Len(all) :
           key[j] = key[k] /\ all[j] \in ToSet(Firsts(key, all))
  BY <1>5, FirstsAre
<1>9. ASSUME NEW v \in ToSet(Firsts(key, all))
      PROVE  \E n \in DOMAIN groups :
               v.rank \in RanksIn(groups[n].sharding) /\ v = ShardOf(groups, n, v.rank)
  <2>1. v \in ToSet(all)
    BY <1>6, <1>8
  <2>2. PICK n \in 1 .. N : v \in ToSet(parts[n])
    BY <1>5, <2>1
  <2>3. PICK r \in RanksIn(groups[n].sharding) : v = ShardOf(groups, n, r)
    BY <1>3, <2>2
  <2>4. v.rank = r
    BY <2>3 DEF ShardOf
  <2> QED
    BY <1>2, <2>3, <2>4
<1>10. ASSUME NEW n \in DOMAIN groups, NEW r \in RanksIn(groups[n].sharding)
       PROVE  \E v \in ToSet(Firsts(key, all)) : v.box = LocalShard(groups[n].sharding, r)
  <2>1. ShardOf(groups, n, r) \in ToSet(all)
    BY <1>2, <1>3, <1>5
  <2>2. PICK k \in 1 .. Len(all) : all[k] = ShardOf(groups, n, r)
    BY <1>7, <2>1
  <2>3. PICK j \in 1 .. Len(all) : key[j] = key[k] /\ all[j] \in ToSet(Firsts(key, all))
    BY <1>8
  <2>4. all[j].box = all[k].box /\ all[k].box = LocalShard(groups[n].sharding, r)
    BY <1>6, <2>2, <2>3 DEF ShardOf
  <2> QED
    BY <2>3, <2>4
<1>11. AllHeld(groups, Firsts(key, all))
  BY <1>10 DEF AllHeld
<1> QED
  BY <1>1, <1>8, <1>9, <1>11

(* The plans of a target, before chunks are dropped: one for every source  *)
(* shard that meets it.                                                    *)
LEMMA AllPlansAre ==
  ASSUME NEW shape \in Seq(Nat), NEW groups, Grouped(groups, shape), NEW path, NEW target
  PROVE  LET plans == AllPlans(path, groups, target)
         IN  /\ plans \in Seq({PlanFor(path, v, target) : v \in ToSet(SourceShards(groups))})
             /\ \A v \in ToSet(SourceShards(groups)) :
                  Meets(v.box, target) => PlanFor(path, v, target) \in ToSet(plans)
             /\ \A p \in ToSet(plans) : \E v \in ToSet(SourceShards(groups)) :
                  Meets(v.box, target) /\ p = PlanFor(path, v, target)
<1> DEFINE shards == SourceShards(groups)
           places == {n \in DOMAIN shards : Meets(shards[n].box, target)}
           meeting == Selected(shards, places)
           plans == AllPlans(path, groups, target)
           Shards == [rank : Nat, box : PartsOf(shape)]
<1>1. plans = [n \in DOMAIN meeting |-> PlanFor(path, meeting[n], target)]
  BY DEF AllPlans, PlansFor, Meeting
<1>2. shards \in Seq(Shards) /\ DOMAIN shards = 1 .. Len(shards)
  <2>1. shards \in Seq(Shards)
    BY ShardsOfGroups
  <2> HIDE DEF shards, Shards
  <2> QED
    BY <2>1
<1>3. \A k \in 1 .. Len(shards) : k \in places <=> Meets(shards[k].box, target)
  BY <1>2
<1> HIDE DEF places
<1>4. /\ meeting \in Seq(Shards)
      /\ \A v : v \in ToSet(meeting) <=> \E k \in 1 .. Len(shards) : k \in places /\ shards[k] = v
  BY <1>2, SelectedAt
<1>5. \A v : v \in ToSet(meeting) <=> v \in ToSet(shards) /\ Meets(v.box, target)
  <2>1. \A v : v \in ToSet(shards) <=> \E k \in 1 .. Len(shards) : shards[k] = v
    BY <1>2 DEF ToSet
  <2> QED
    BY <1>3, <1>4, <2>1
<1> HIDE DEF shards, meeting, plans
<1>6. DOMAIN meeting = 1 .. Len(meeting) /\ Len(meeting) \in Nat
  BY <1>4
<1>7. \A k \in 1 .. Len(meeting) : meeting[k] \in ToSet(meeting)
  BY <1>6 DEF ToSet
<1>8. \A v \in ToSet(meeting) : \E k \in 1 .. Len(meeting) : meeting[k] = v
  BY <1>6 DEF ToSet
<1>9. DOMAIN plans = 1 .. Len(meeting)
      /\ \A k \in 1 .. Len(meeting) : plans[k] = PlanFor(path, meeting[k], target)
  BY <1>1, <1>6
<1>10. plans \in Seq({PlanFor(path, v, target) : v \in ToSet(shards)})
  <2> DEFINE P == {PlanFor(path, v, target) : v \in ToSet(shards)}
  <2>1. \A k \in 1 .. Len(meeting) : PlanFor(path, meeting[k], target) \in P
    BY <1>5, <1>7
  <2> HIDE DEF P
  <2>2. plans \in [1 .. Len(meeting) -> P]
    BY <1>1, <1>6, <2>1
  <2>3. plans \in Seq(P)
    BY <1>6, <2>2
  <2> QED
    BY <2>3 DEF P
<1>11. \A v \in ToSet(shards) : Meets(v.box, target) => PlanFor(path, v, target) \in ToSet(plans)
  BY <1>5, <1>8, <1>9 DEF ToSet
<1>12. \A p \in ToSet(plans) : \E v \in ToSet(shards) : Meets(v.box, target) /\ p = PlanFor(path, v, target)
  BY <1>5, <1>7, <1>9 DEF ToSet
<1> QED
  BY <1>10, <1>11, <1>12 DEF shards, plans

(* One cell is nowhere behind another. *)
Behind(x, y) == \A d \in DOMAIN x : x[d] <= y[d]

(* Of m cells behind some x, those of Q: where one is not good, another    *)
(* that is further on is among them.                                       *)
Climbs(n, m, at, Q, Good) ==
  /\ n \in Nat /\ m \in Nat /\ at \in [1 .. m -> [1 .. n -> Int]]
  /\ Q \subseteq 1 .. m /\ Q # {}
  /\ \A k \in Q : k \in Good \/ \E j \in Q : Behind(at[k], at[j]) /\ at[k] # at[j]

(* Then one of them is good: one behind the fewest others.                 *)
LEMMA FurthestDoes ==
  ASSUME NEW n, NEW m, NEW at, NEW Q, NEW Good, Climbs(n, m, at, Q, Good)
  PROVE  \E k \in Q : k \in Good
<1> DEFINE Above(k) == {j \in Q : Behind(at[k], at[j])}
           sizes == {Cardinality(Above(k)) : k \in Q}
<1>0. /\ n \in Nat /\ m \in Nat /\ at \in [1 .. m -> [1 .. n -> Int]]
      /\ Q \subseteq 1 .. m /\ Q # {}
      /\ \A k \in Q : k \in Good \/ \E j \in Q : Behind(at[k], at[j]) /\ at[k] # at[j]
  BY DEF Climbs
<1>1. IsFiniteSet(Q)
  <2>1. IsFiniteSet(1 .. m)
    BY <1>0, FS_Interval
  <2> QED
    BY <1>0, <2>1, FS_Subset
<1>2. \A k \in Q : IsFiniteSet(Above(k)) /\ Cardinality(Above(k)) \in Nat
  <2> TAKE k \in Q
  <2>1. Above(k) \in SUBSET Q
    OBVIOUS
  <2> HIDE DEF Above
  <2>2. IsFiniteSet(Above(k))
    BY <1>1, <2>1, FS_Subset
  <2> QED
    BY <2>2, FS_CardinalityType
<1> HIDE DEF Above
<1>3. sizes \in SUBSET Nat /\ sizes # {}
  <2>1. \A t \in sizes : t \in Nat
    BY <1>2
  <2>2. PICK k \in Q : TRUE
    BY <1>0
  <2>3. Cardinality(Above(k)) \in sizes
    OBVIOUS
  <2> QED
    BY <2>1, <2>3
<1>4. PICK s \in sizes : \A t \in sizes : s <= t
  BY <1>3, FirstOf
<1>5. PICK k \in Q : s = Cardinality(Above(k))
  OBVIOUS
<1>6. SUFFICES ASSUME k \notin Good PROVE FALSE
  OBVIOUS
<1>7. PICK j \in Q : Behind(at[k], at[j]) /\ at[k] # at[j]
  BY <1>0, <1>6
<1>8. n \in Nat /\ \A i \in Q : at[i] \in [1 .. n -> Int] /\ DOMAIN at[i] = 1 .. n
  BY <1>0
<1>9. Above(j) \subseteq Above(k)
  <2> SUFFICES ASSUME NEW i \in Q, Behind(at[j], at[i]) PROVE Behind(at[k], at[i])
    BY DEF Above
  <2>1. ASSUME NEW d \in 1 .. n PROVE at[k][d] <= at[i][d]
    <3>1. at[k][d] <= at[j][d] /\ at[j][d] <= at[i][d]
      BY <1>7, <1>8 DEF Behind
    <3>2. at[k][d] \in Int /\ at[j][d] \in Int /\ at[i][d] \in Int
      BY <1>8
    <3> QED
      BY <3>1, <3>2
  <2> QED
    BY <1>8, <2>1 DEF Behind
<1>10. k \in Above(k)
  <2>1. \A d \in 1 .. n : at[k][d] \in Int
    BY <1>8
  <2> QED
    BY <1>8, <2>1 DEF Behind, Above
<1>11. k \notin Above(j)
  <2> SUFFICES ASSUME Behind(at[j], at[k]) PROVE FALSE
    BY DEF Above
  <2>1. ASSUME NEW d \in 1 .. n PROVE at[k][d] = at[j][d]
    <3>1. at[k][d] <= at[j][d] /\ at[j][d] <= at[k][d]
      BY <1>7, <1>8 DEF Behind
    <3>2. at[k][d] \in Int /\ at[j][d] \in Int
      BY <1>8
    <3> QED
      BY <3>1, <3>2
  <2>2. at[k] = at[j]
    BY <1>8, <2>1
  <2> QED
    BY <1>7, <2>2
<1>12. Cardinality(Above(j)) <= Cardinality(Above(k)) /\ Cardinality(Above(j)) # Cardinality(Above(k))
  BY <1>2, <1>9, <1>10, <1>11, FS_Subset
<1>13. Cardinality(Above(k)) <= Cardinality(Above(j))
  BY <1>4, <1>5
<1> QED
  BY <1>2, <1>12, <1>13

(* Where in target t the chunk of a source shard b begins.                 *)
Corner(n, b, t) == [d \in 1 .. n |-> Most(b.off[d], t.off[d]) - t.off[d]]

(* What is known of cell x of target t, which is cell y of the tensor.     *)
CellOf(n, t, x, y) ==
  /\ x \in Points(n) /\ y \in Points(n)
  /\ \A d \in 1 .. n : y[d] = t.off[d] + x[d] /\ x[d] < t.size[d]

(* The corners, and the cells, are numbers.                                *)
LEMMA CornerAt ==
  ASSUME NEW n \in Nat, NEW b \in Boxes(n), NEW t \in Boxes(n), NEW d \in 1 .. n
  PROVE  /\ b.off[d] \in Nat /\ b.size[d] \in Nat /\ t.off[d] \in Nat /\ t.size[d] \in Nat
         /\ Corner(n, b, t)[d] = Most(b.off[d], t.off[d]) - t.off[d]
         /\ Corner(n, b, t)[d] \in Int
<1>1. b.off[d] \in Nat /\ b.size[d] \in Nat /\ t.off[d] \in Nat /\ t.size[d] \in Nat
  BY BoxAt
<1>2. Corner(n, b, t)[d] = Most(b.off[d], t.off[d]) - t.off[d]
  BY DEF Corner
<1>3. Most(b.off[d], t.off[d]) - t.off[d] \in Int
  BY <1>1 DEF Most
<1> QED
  BY <1>1, <1>2, <1>3

(* The chunk of a shard that has the cell does not begin after it.         *)
LEMMA HolderIsBehind ==
  ASSUME NEW n \in Nat, NEW b \in Boxes(n), NEW t \in Boxes(n), NEW x, NEW y,
         CellOf(n, t, x, y), Inside(y, b)
  PROVE  Behind(Corner(n, b, t), x) /\ Meets(b, t)
<1>1. ASSUME NEW d \in 1 .. n
      PROVE  /\ Corner(n, b, t)[d] <= x[d]
             /\ t.off[d] <= y[d] /\ y[d] < End(t, d)
  <2>1. /\ b.off[d] \in Nat /\ t.off[d] \in Nat /\ t.size[d] \in Nat
        /\ Corner(n, b, t)[d] = Most(b.off[d], t.off[d]) - t.off[d]
    BY CornerAt
  <2>2. x[d] \in Nat /\ y[d] \in Nat /\ y[d] = t.off[d] + x[d] /\ x[d] < t.size[d] /\ DOMAIN y = 1 .. n
    BY DEF CellOf, Points
  <2>3. b.off[d] <= y[d]
    BY <2>2 DEF Inside
  <2> QED
    BY <2>1, <2>2, <2>3 DEF Most, End
<1>2. DOMAIN Corner(n, b, t) = 1 .. n /\ DOMAIN y = 1 .. n /\ y \in Points(n)
  BY DEF Corner, CellOf, Points
<1>3. Inside(y, t)
  BY <1>1, <1>2 DEF Inside
<1>4. Meets(b, t)
  BY <1>2, <1>3, MeetsIsCommonCell
<1> QED
  BY <1>1, <1>2, <1>4 DEF Behind

(* Where the chunk of one shard begins before the cell and does not have   *)
(* it, that of a shard of the same mesh which does begins further on.      *)
LEMMA HolderIsFurther ==
  ASSUME NEW n \in Nat, NEW a \in Boxes(n), NEW b \in Boxes(n), NEW t \in Boxes(n), NEW x, NEW y,
         CellOf(n, t, x, y), Inside(y, b), Meets(a, t),
         \A d \in 1 .. n : Aligned(a, b, d),
         Behind(Corner(n, a, t), x),
         NEW e \in 1 .. n, ~(x[e] < Least(End(a, e), End(t, e)) - t.off[e])
  PROVE  Behind(Corner(n, a, t), Corner(n, b, t)) /\ Corner(n, a, t) # Corner(n, b, t)
<1>1. ASSUME NEW d \in 1 .. n
      PROVE  /\ Corner(n, a, t)[d] <= Corner(n, b, t)[d]
             /\ ~(x[d] < Least(End(a, d), End(t, d)) - t.off[d])
                  => Corner(n, a, t)[d] < Corner(n, b, t)[d]
  <2>1. /\ a.off[d] \in Nat /\ a.size[d] \in Nat /\ t.off[d] \in Nat /\ t.size[d] \in Nat
        /\ Corner(n, a, t)[d] = Most(a.off[d], t.off[d]) - t.off[d]
    BY CornerAt
  <2>2. /\ b.off[d] \in Nat /\ b.size[d] \in Nat
        /\ Corner(n, b, t)[d] = Most(b.off[d], t.off[d]) - t.off[d]
    BY CornerAt
  <2>3. /\ x[d] \in Nat /\ y[d] \in Nat /\ y[d] = t.off[d] + x[d] /\ x[d] < t.size[d]
        /\ DOMAIN y = 1 .. n /\ DOMAIN Corner(n, a, t) = 1 .. n
    BY DEF CellOf, Points, Corner
  <2>4. b.off[d] <= y[d] /\ y[d] < b.off[d] + b.size[d]
    BY <2>3 DEF Inside, End
  <2>5. Corner(n, a, t)[d] <= x[d]
    BY <2>3 DEF Behind
  <2>6. Most(a.off[d], t.off[d]) < Least(a.off[d] + a.size[d], t.off[d] + t.size[d])
    <3>1. DOMAIN a.off = 1 .. n
      BY BoxAt
    <3> QED
      BY <3>1 DEF Meets, End
  <2>7. a.off[d] <= y[d]
    BY <2>1, <2>3, <2>5 DEF Most
  <2>8. ~(b.off[d] + b.size[d] <= a.off[d])
    BY <2>1, <2>2, <2>3, <2>4, <2>7
  <2>9. CASE a.off[d] = b.off[d] /\ a.size[d] = b.size[d]
    <3>1. Corner(n, a, t)[d] = Corner(n, b, t)[d]
      BY <2>1, <2>2, <2>9
    <3>2. x[d] < Least(End(a, d), End(t, d)) - t.off[d]
      <4>1. t.off[d] + x[d] < a.off[d] + a.size[d] /\ t.off[d] + x[d] < t.off[d] + t.size[d]
        <5>1. y[d] < a.off[d] + a.size[d]
          BY <2>4, <2>9
        <5>2. t.off[d] + x[d] < a.off[d] + a.size[d]
          BY <2>3, <5>1
        <5>3. t.off[d] + x[d] < t.off[d] + t.size[d]
          BY <2>1, <2>3
        <5> QED
          BY <5>2, <5>3
      <4>2. t.off[d] + x[d] < Least(End(a, d), End(t, d))
        BY <4>1 DEF Least, End
      <4>3. Least(End(a, d), End(t, d)) \in Int
        BY <2>1 DEF Least, End
      <4> QED
        BY <2>1, <2>3, <4>2, <4>3
    <3>3. Corner(n, a, t)[d] \in Int
      BY CornerAt
    <3> QED
      BY <3>1, <3>2, <3>3
  <2>10. CASE a.off[d] + a.size[d] <= b.off[d]
    <3>1. Corner(n, a, t)[d] < Corner(n, b, t)[d]
      BY <2>1, <2>2, <2>6, <2>10 DEF Least, Most
    <3>2. Corner(n, a, t)[d] \in Int /\ Corner(n, b, t)[d] \in Int
      BY CornerAt
    <3> QED
      BY <3>1, <3>2
  <2> QED
    BY <2>8, <2>9, <2>10 DEF Aligned
<1>2. Corner(n, a, t)[e] \in Int /\ Corner(n, b, t)[e] \in Int
  BY CornerAt
<1>3. Corner(n, a, t)[e] # Corner(n, b, t)[e]
  BY <1>1, <1>2
<1>4. DOMAIN Corner(n, a, t) = 1 .. n
  BY DEF Corner
<1> QED
  BY <1>1, <1>3, <1>4 DEF Behind

(* What a plan is: the chunk of a shard that some rank of a group holds    *)
(* and that the target needs.                                              *)
THEOREM PlansAreOfShards ==
  ASSUME NEW sharding, IsSharding(sharding), NEW me \in RanksIn(sharding),
         NEW groups, Grouped(groups, sharding.shape), Reshardable(sharding, groups), NEW path
  PROVE  LET target == LocalShard(sharding, me)
             plans == Plans(path, sharding, groups, me)
         IN  \A k \in DOMAIN plans : \E n \in DOMAIN groups : \E r \in RanksIn(groups[n].sharding) :
               /\ Meets(LocalShard(groups[n].sharding, r), target)
               /\ plans[k] = PlanFor(path, ShardOf(groups, n, r), target)
<1> DEFINE target == LocalShard(sharding, me)
           shape == sharding.shape
           shards == SourceShards(groups)
           X == {PlanFor(path, v, target) : v \in ToSet(shards)}
           all == AllPlans(path, groups, target)
           plans == Plans(path, sharding, groups, me)
<1>1. shape \in Seq(Nat) /\ plans = Deduplicated(all)
  BY DEF Plans, IsSharding
<1> HIDE DEF plans
<1>2. /\ shards \in Seq([rank : Nat, box : PartsOf(shape)])
      /\ \A v \in ToSet(shards) : \E n \in DOMAIN groups :
           v.rank \in RanksIn(groups[n].sharding) /\ v = ShardOf(groups, n, v.rank)
  BY <1>1, ShardsOfGroups
<1>3. /\ all \in Seq(X)
      /\ \A p \in ToSet(all) : \E v \in ToSet(shards) : Meets(v.box, target) /\ p = PlanFor(path, v, target)
  BY <1>1, AllPlansAre
<1> HIDE DEF shards, all, target
<1>4. \A p \in X : p.rank \in Nat
  <2>1. ASSUME NEW v \in ToSet(shards) PROVE v.rank \in Nat
    <3>1. PICK i \in DOMAIN shards : v = shards[i]
      BY DEF ToSet
    <3> DEFINE Shards == [rank : Nat, box : PartsOf(shape)]
    <3>2. shards \in Seq(Shards)
      BY <1>2
    <3>3. Shards = [rank : Nat, box : PartsOf(shape)]
      OBVIOUS
    <3> HIDE DEF Shards
    <3>4. shards[i] \in Shards
      BY <3>1, <3>2
    <3> QED
      BY <3>1, <3>3, <3>4
  <2>2. \A v : PlanFor(path, v, target).rank = v.rank
    BY DEF PlanFor, LoadPlan
  <2> QED
    BY <2>1, <2>2
<1> HIDE DEF X
<1>5. \A k \in DOMAIN plans : plans[k] \in ToSet(all)
  BY <1>1, <1>3, <1>4, DeduplicatedKeeps
<1> SUFFICES ASSUME NEW k \in DOMAIN plans
             PROVE  \E n \in DOMAIN groups : \E r \in RanksIn(groups[n].sharding) :
                      /\ Meets(LocalShard(groups[n].sharding, r), target)
                      /\ plans[k] = PlanFor(path, ShardOf(groups, n, r), target)
  BY DEF plans, target
<1>6. PICK v \in ToSet(shards) : Meets(v.box, target) /\ plans[k] = PlanFor(path, v, target)
  BY <1>3, <1>5
<1>7. PICK n \in DOMAIN groups : v.rank \in RanksIn(groups[n].sharding) /\ v = ShardOf(groups, n, v.rank)
  BY <1>2
<1>8. v.box = LocalShard(groups[n].sharding, v.rank)
  BY <1>7 DEF ShardOf
<1> QED
  BY <1>6, <1>7, <1>8

(* The chunks of the plans leave out no cell of what the rank holds,       *)
(* whatever the meshes and placements the tensor was saved with, and       *)
(* although of the chunks that begin at one place only one is kept.  Among *)
(* the chunks that do not begin after the cell, take one behind which none *)
(* follows: the mesh it comes from has a rank that holds the cell, and the *)
(* parts of a mesh are aligned, so it is no other than the chunk of that   *)
(* rank.                                                                   *)
THEOREM PlansReachAll ==
  ASSUME NEW sharding, IsSharding(sharding), NEW me \in RanksIn(sharding),
         NEW groups, Grouped(groups, sharding.shape), Reshardable(sharding, groups), NEW path,
         NEW x \in Points(Len(sharding.shape)), Inside(x, Whole(LocalShard(sharding, me).size))
  PROVE  LET plans == Plans(path, sharding, groups, me)
         IN  \E k \in DOMAIN plans : Inside(x, plans[k].box)
<1> DEFINE t == LocalShard(sharding, me)
           shape == sharding.shape
           n == Len(shape)
           shards == SourceShards(groups)
           X == {PlanFor(path, v, t) : v \in ToSet(shards)}
           all == AllPlans(path, groups, t)
           plans == Plans(path, sharding, groups, me)
           m == Len(plans)
           at == [k \in 1 .. m |-> plans[k].box.off]
           y == [d \in 1 .. n |-> t.off[d] + x[d]]
           Part(i, r) == LocalShard(groups[i].sharding, r)
           From(k, i, r) ==
             /\ Meets(Part(i, r), t)
             /\ at[k] = Corner(n, Part(i, r), t) /\ plans[k].box.off = at[k]
             /\ \A d \in 1 .. n :
                  End(plans[k].box, d) = Least(End(Part(i, r), d), End(t, d)) - t.off[d]
<1>1. /\ shape \in Seq(Nat) /\ n \in Nat /\ plans = Deduplicated(all)
      /\ t \in PartsOf(shape)
  <2>1. shape \in Seq(Nat) /\ n \in Nat
    BY DEF IsSharding
  <2>2. plans = Deduplicated(all)
    BY DEF Plans
  <2>3. t \in PartsOf(shape)
    BY ShardInTensor
  <2> QED
    BY <2>1, <2>2, <2>3
<1>2. \A i \in DOMAIN groups :
        IsSharding(groups[i].sharding) /\ groups[i].sharding.shape = shape
  BY DEF Grouped
<1>3. 1 \in DOMAIN groups
  <2>1. groups \in Seq(ToSet(groups)) /\ groups # <<>>
    BY DEF Grouped, Reshardable
  <2> QED
    BY <2>1
<1>4. /\ shards \in Seq([rank : Nat, box : PartsOf(shape)])
      /\ \A i \in DOMAIN groups : \A r \in RanksIn(groups[i].sharding) :
           \E v \in ToSet(shards) : v.box = Part(i, r)
  <2>1. shape \in Seq(Nat) /\ Grouped(groups, shape)
    BY <1>1
  <2> HIDE DEF shape
  <2>2. shards \in Seq([rank : Nat, box : PartsOf(shape)])
    BY <2>1, ShardsOfGroups
  <2>3. \A i \in DOMAIN groups : \A r \in RanksIn(groups[i].sharding) :
          \E v \in ToSet(shards) : v.box = LocalShard(groups[i].sharding, r)
    <3>1. AllHeld(groups, shards)
      BY <2>1, ShardsOfGroups
    <3> QED
      BY <3>1 DEF AllHeld
  <2> QED
    BY <2>2, <2>3
<1>5. /\ all \in Seq(X)
      /\ \A v \in ToSet(shards) : Meets(v.box, t) => PlanFor(path, v, t) \in ToSet(all)
  <2>1. shape \in Seq(Nat) /\ Grouped(groups, shape)
    BY <1>1
  <2> HIDE DEF shape, t
  <2> QED
    BY <2>1, AllPlansAre
<1>6. \A k \in DOMAIN plans : \E i \in DOMAIN groups : \E r \in RanksIn(groups[i].sharding) :
        Meets(Part(i, r), t) /\ plans[k] = PlanFor(path, ShardOf(groups, i, r), t)
  BY PlansAreOfShards
<1>7. \A v \in ToSet(shards) : v.rank \in Nat /\ v.box \in PartsOf(shape) /\ v = [rank |-> v.rank, box |-> v.box]
  <2> SUFFICES ASSUME NEW i \in DOMAIN shards
               PROVE  shards[i].rank \in Nat /\ shards[i].box \in PartsOf(shape)
                      /\ shards[i] = [rank |-> shards[i].rank, box |-> shards[i].box]
    BY DEF ToSet
  <2> DEFINE Shards == [rank : Nat, box : PartsOf(shape)]
  <2>1. shards \in Seq(Shards)
    BY <1>4
  <2>2. Shards = [rank : Nat, box : PartsOf(shape)]
    OBVIOUS
  <2> HIDE DEF Shards
  <2>3. shards[i] \in Shards
    BY <2>1
  <2> QED
    BY <2>2, <2>3
<1> HIDE DEF shards, all, plans
<1>8. \A p \in X : p.rank \in Nat
  <2>1. \A v : PlanFor(path, v, t).rank = v.rank
    BY DEF PlanFor, LoadPlan
  <2> QED
    BY <1>7, <2>1
<1> HIDE DEF X
<1>9. /\ plans \in Seq(X)
      /\ \A p \in ToSet(all) : \E k \in DOMAIN plans : plans[k].box.off = p.box.off
  BY <1>1, <1>5, <1>8, DeduplicatedKeeps
<1>10. m \in Nat /\ DOMAIN plans = 1 .. m
  BY <1>9
<1>11. t \in Boxes(n) /\ \A d \in 1 .. n : t.off[d] + t.size[d] <= shape[d]
  BY <1>1 DEF PartsOf
<1>12. ASSUME NEW i \in DOMAIN groups, NEW r \in RanksIn(groups[i].sharding)
       PROVE  Part(i, r) \in Boxes(n)
  BY <1>2, ShardInTensor DEF PartsOf
<1>13. CellOf(n, t, x, y) /\ Inside(y, Whole(shape))
  <2>1. ASSUME NEW d \in 1 .. n
        PROVE  /\ x[d] \in Nat /\ y[d] \in Nat /\ y[d] = t.off[d] + x[d] /\ x[d] < t.size[d]
               /\ y[d] < shape[d] /\ shape[d] \in Nat
    <3> HIDE DEF t
    <3>1. t.off[d] \in Nat /\ t.size[d] \in Nat /\ x[d] \in Nat /\ y[d] = t.off[d] + x[d] /\ shape[d] \in Nat
      <4>1. t.off[d] \in Nat /\ t.size[d] \in Nat
        BY <1>11, BoxAt
      <4>2. x[d] \in Nat /\ shape[d] \in Nat
        BY <1>1 DEF Points
      <4> QED
        BY <4>1, <4>2
    <3>2. DOMAIN x = 1 .. n /\ DOMAIN t.size = 1 .. n
      BY <1>11, BoxAt DEF Points
    <3>3. 0 <= x[d] /\ x[d] < 0 + t.size[d]
      <4>1. Inside(x, Whole(t.size))
        BY DEF t
      <4>2. Whole(t.size).off[d] = 0 /\ End(Whole(t.size), d) = 0 + t.size[d]
        BY <3>2 DEF Whole, Box, End
      <4> QED
        BY <3>2, <4>1, <4>2 DEF Inside
    <3>4. t.off[d] + t.size[d] <= shape[d]
      BY <1>11
    <3> HIDE DEF y
    <3> QED
      BY <3>1, <3>3, <3>4
  <2>2. y \in Points(n) /\ DOMAIN y = 1 .. n
    BY <2>1 DEF Points
  <2>3. CellOf(n, t, x, y)
    BY <2>1, <2>2 DEF CellOf
  <2>4. \A d \in 1 .. n : Whole(shape).off[d] = 0 /\ End(Whole(shape), d) = 0 + shape[d]
    BY <1>1 DEF Whole, Box, End
  <2> HIDE DEF y, t
  <2>5. Inside(y, Whole(shape))
    BY <2>1, <2>2, <2>4 DEF Inside
  <2> QED
    BY <2>3, <2>5
<1> HIDE DEF t, y
<1>14. ASSUME NEW i \in DOMAIN groups
       PROVE  \E r \in RanksIn(groups[i].sharding), k \in 1 .. m :
                Inside(y, Part(i, r)) /\ at[k] = Corner(n, Part(i, r), t)
  <2>1. y \in Points(n)
    BY <1>13 DEF CellOf
  <2>2. PICK r \in RanksIn(groups[i].sharding) : Inside(y, Part(i, r))
    BY <1>2, <1>13, <2>1, ShardsCover
  <2>3. PICK v \in ToSet(shards) : v.box = Part(i, r)
    BY <1>4
  <2>4. Part(i, r) \in Boxes(n)
    BY <1>12
  <2> HIDE DEF Part
  <2>5. Meets(v.box, t)
    BY <1>1, <1>11, <1>13, <2>2, <2>3, <2>4, HolderIsBehind
  <2>6. PlanFor(path, v, t) \in ToSet(all)
    BY <1>5, <2>5
  <2>7. PICK k \in DOMAIN plans : plans[k].box.off = PlanFor(path, v, t).box.off
    BY <1>9, <2>6
  <2>8. v = [rank |-> v.rank, box |-> Part(i, r)]
    BY <1>7, <2>3
  <2>9. PlanFor(path, v, t).box.off = Corner(n, Part(i, r), t)
    BY <1>1, <1>11, <2>4, <2>8, PlanBox DEF Corner
  <2>10. k \in 1 .. m /\ at[k] = Corner(n, Part(i, r), t)
    BY <1>10, <2>7, <2>9
  <2> QED
    BY <2>2, <2>10
<1>15. ASSUME NEW k \in 1 .. m
       PROVE  \E i \in DOMAIN groups : \E r \in RanksIn(groups[i].sharding) : From(k, i, r)
  <2>1. PICK i \in DOMAIN groups : \E r \in RanksIn(groups[i].sharding) :
          Meets(Part(i, r), t) /\ plans[k] = PlanFor(path, ShardOf(groups, i, r), t)
    BY <1>6, <1>10
  <2> PICK r \in RanksIn(groups[i].sharding) :
          Meets(Part(i, r), t) /\ plans[k] = PlanFor(path, ShardOf(groups, i, r), t)
    BY <2>1
  <2>2. Meets(Part(i, r), t) /\ plans[k] = PlanFor(path, [rank |-> r, box |-> Part(i, r)], t)
    BY DEF ShardOf
  <2>3. Part(i, r) \in Boxes(n)
    BY <1>12
  <2> HIDE DEF Part
  <2>4. /\ plans[k].box.off = Corner(n, Part(i, r), t)
        /\ \A d \in 1 .. n : End(plans[k].box, d) = Least(End(Part(i, r), d), End(t, d)) - t.off[d]
    BY <1>1, <1>11, <2>2, <2>3, PlanBox DEF Corner
  <2>5. From(k, i, r)
    BY <2>2, <2>4
  <2> QED
    BY <2>5
<1> DEFINE Q == {k \in 1 .. m : Behind(at[k], x)}
           Good == {k \in 1 .. m : Inside(x, plans[k].box)}
<1>16. at \in [1 .. m -> [1 .. n -> Int]]
  <2>1. ASSUME NEW k \in 1 .. m PROVE at[k] \in [1 .. n -> Int]
    <3>1. PICK i \in DOMAIN groups : \E r \in RanksIn(groups[i].sharding) : From(k, i, r)
      BY <1>15
    <3> PICK r \in RanksIn(groups[i].sharding) : at[k] = Corner(n, Part(i, r), t)
      BY <3>1
    <3>2. Part(i, r) \in Boxes(n)
      BY <1>12
    <3> HIDE DEF Part
    <3>3. \A d \in 1 .. n : Corner(n, Part(i, r), t)[d] \in Int
      BY <1>1, <1>11, <3>2, CornerAt
    <3>4. Corner(n, Part(i, r), t) \in [1 .. n -> Int]
      BY <3>3 DEF Corner
    <3> QED
      BY <3>4
  <2> QED
    BY <2>1
<1> HIDE DEF at, Part
<1>17. Q # {}
  <2>1. PICK r \in RanksIn(groups[1].sharding), k \in 1 .. m :
          Inside(y, Part(1, r)) /\ at[k] = Corner(n, Part(1, r), t)
    BY <1>3, <1>14
  <2>2. Part(1, r) \in Boxes(n)
    BY <1>3, <1>12
  <2>3. Behind(at[k], x)
    BY <1>1, <1>11, <1>13, <2>1, <2>2, HolderIsBehind
  <2> QED
    BY <2>3
<1>18. ASSUME NEW k \in Q, k \notin Good
       PROVE  \E j \in Q : Behind(at[k], at[j]) /\ at[k] # at[j]
  <2> PICK i \in DOMAIN groups : \E r \in RanksIn(groups[i].sharding) : From(k, i, r)
    BY <1>15
  <2>1. PICK r \in RanksIn(groups[i].sharding) : From(k, i, r)
    OBVIOUS
  <2>2. PICK q \in RanksIn(groups[i].sharding), j \in 1 .. m :
          Inside(y, Part(i, q)) /\ at[j] = Corner(n, Part(i, q), t)
    BY <1>14
  <2>3. Part(i, q) \in Boxes(n) /\ Part(i, r) \in Boxes(n)
    BY <1>12
  <2>4. \A d \in 1 .. n : Aligned(Part(i, r), Part(i, q), d)
    BY <1>2, ShardsAligned DEF Part
  <2>5. PICK d \in 1 .. n : ~(x[d] < Least(End(Part(i, r), d), End(t, d)) - t.off[d])
    <3>1. ~Inside(x, plans[k].box)
      BY <1>18
    <3>2. DOMAIN x = 1 .. n /\ DOMAIN at[k] = 1 .. n
      BY <1>16 DEF Points
    <3>3. \A d \in 1 .. n : plans[k].box.off[d] <= x[d]
      BY <2>1, <3>2 DEF Behind
    <3> QED
      BY <2>1, <3>1, <3>2, <3>3 DEF Inside
  <2>6. Behind(at[k], x)
    BY <1>18
  <2>7. Behind(at[j], x)
    BY <1>1, <1>11, <1>13, <2>2, <2>3, HolderIsBehind
  <2>8. Behind(at[k], at[j]) /\ at[k] # at[j]
    <3> DEFINE a == Part(i, r)
               b == Part(i, q)
    <3>1. /\ a \in Boxes(n) /\ b \in Boxes(n) /\ Meets(a, t) /\ Inside(y, b)
          /\ (\A e \in 1 .. n : Aligned(a, b, e)) /\ Behind(Corner(n, a, t), x)
          /\ ~(x[d] < Least(End(a, d), End(t, d)) - t.off[d])
      BY <2>1, <2>2, <2>3, <2>4, <2>5, <2>6
    <3>2. at[k] = Corner(n, a, t) /\ at[j] = Corner(n, b, t)
      BY <2>1, <2>2
    <3> HIDE DEF a, b
    <3>3. Behind(Corner(n, a, t), Corner(n, b, t)) /\ Corner(n, a, t) # Corner(n, b, t)
      BY <1>1, <1>11, <1>13, <3>1, HolderIsFurther
    <3> QED
      BY <3>2, <3>3
  <2>9. j \in Q
    BY <2>7
  <2> QED
    BY <2>8, <2>9
<1>19. \E k \in Q : k \in Good
  <2>1. Q \subseteq 1 .. m
    OBVIOUS
  <2> HIDE DEF Q, Good, n, m
  <2>2. \A k \in Q : k \in Good \/ \E j \in Q : Behind(at[k], at[j]) /\ at[k] # at[j]
    BY <1>18
  <2> QED
    <3>1. Climbs(n, m, at, Q, Good)
      BY <1>1, <1>10, <1>16, <1>17, <2>1, <2>2 DEF Climbs
    <3> QED
      BY <3>1, FurthestDoes
<1>20. \E k \in DOMAIN plans : Inside(x, plans[k].box)
  BY <1>10, <1>19
<1> QED
  BY <1>20 DEF plans
=============================================================================
