----------------------- MODULE MetadataManagerProofs -----------------------
(***************************************************************************)
(* Theorems about MetadataManager, for every value of its constants: any   *)
(* number of ranks, any meshes and any program of calls.                   *)
(*                                                                         *)
(* A rank sees only its own calls and its own cache.  What the ranks have  *)
(* in common is a history that none of them keeps: which call's metadata   *)
(* is cached after each call of the program, and how many collectives have *)
(* been issued by then.  It exists because the flags of the ranks agree    *)
(* exactly when the cache is of the configuration of the call (SameConf),  *)
(* and what a recompute comes to is a function of the configuration        *)
(* (AggregateRight).  The invariant (IInv) says that there is such a       *)
(* history and that every rank is in its own place of it (RankInv), behind *)
(* or ahead of the others; the properties follow from it at once.          *)
(***************************************************************************)
EXTENDS MetadataManager, TLAPS, WellFoundedInduction

(* What a configuration holds.                                             *)
LEMMA ConfType ==
  ASSUME NEW c \in Configs
  PROVE  /\ c.local \in [Ranks -> Locals] /\ c.layout \in [Ranks -> Layouts \union {None}]
         /\ c = [local |-> c.local, layout |-> c.layout]
         /\ Truthful(c.local)
  BY MetadataAssumption

(* Every set of ranks has a smallest.                                      *)
LEMMA MinRank ==
  ASSUME NEW S \in SUBSET Ranks, S # {}
  PROVE  Min(S) \in S
<1> DEFINE less == {ij \in Nat \X Nat : ij[1] < ij[2]}
<1>1. IsWellFoundedOn(less, Nat)
  BY NatLessThanWellFounded DEF OpToRel
<1>2. S \subseteq Nat
  BY MetadataAssumption DEF Ranks
<1> HIDE DEF less
<1>3. PICK m \in S : \A x \in S : ~(<<x, m>> \in less)
  BY <1>1, <1>2, WFMin
<1>4. \A x \in S : <<x, m>> \in Nat \X Nat /\ ~(x < m)
  BY <1>2, <1>3 DEF less
<1>5. ASSUME NEW x \in S
      PROVE  m <= x
  <2>1. m \in Nat /\ x \in Nat /\ ~(x < m)
    BY <1>2, <1>3, <1>4
  <2> QED
    BY <2>1
<1> QED
  BY <1>5 DEF Min

(* _compact, the gathers and _aggregate_metadata together come to exactly  *)
(* who holds what: the entry that only the representative of a mesh has    *)
(* sent stands for every rank of the mesh, because equivalent_ranks is the *)
(* truth.                                                                  *)
LEMMA AggregateRight ==
  ASSUME NEW c \in Configs
  PROVE  /\ Aggregate([r \in Ranks |-> Compact(r, c.local[r])], c.layout) = Reference(c)
         /\ Reference(c) \in Globals
<1> DEFINE local == c.local
           sent == [r \in Ranks |-> Compact(r, local[r])]
           Held(p, s) == {r \in Ranks : local[r][p] = s}
<1>1. /\ local \in [Ranks -> Locals] /\ Truthful(local)
      /\ None \notin Shards /\ Shards \subseteq [id : Nat, equiv : SUBSET Ranks]
  BY ConfType, MetadataAssumption
<1> HIDE DEF local
<1>2. ASSUME NEW r \in Ranks, NEW p \in ItemPaths
      PROVE  sent[r][p] =
               IF local[r][p] # None /\ local[r][p].equiv # {} /\ r # Min(local[r][p].equiv)
               THEN None ELSE local[r][p]
  BY DEF Compact
<1>3. ASSUME NEW r \in Ranks, NEW p \in ItemPaths, local[r][p] # None, local[r][p].equiv # {}
      PROVE  LET s == local[r][p]
                 m == Min(s.equiv)
             IN  /\ m \in Ranks /\ local[m][p] = s /\ sent[m][p] = s
                 /\ s.equiv = Held(p, s)
  <2> DEFINE s == local[r][p]
             m == Min(s.equiv)
  <2>1. s \in Shards /\ s.equiv \in SUBSET Ranks
    BY <1>1, <1>3 DEF Locals
  <2>2. m \in s.equiv
    BY <1>3, <2>1, MinRank
  <2>3. r \in s.equiv /\ \A q \in s.equiv : local[q][p] = s
    BY <1>1, <1>3 DEF Truthful
  <2>4. \A q \in Ranks : local[q][p] = s => q \in s.equiv
    BY <1>1, <1>3 DEF Truthful
  <2>5. s.equiv = Held(p, s)
    BY <2>1, <2>3, <2>4
  <2>6. m \in Ranks /\ local[m][p] = s
    BY <2>1, <2>2, <2>3
  <2>7. sent[m][p] = s
    BY <1>2, <2>6
  <2> QED
    BY <2>5, <2>6, <2>7
<1>4. ASSUME NEW p \in ItemPaths
      PROVE  {sent[r][p] : r \in Ranks} \ {None} = {local[r][p] : r \in Ranks} \ {None}
  <2>1. ASSUME NEW r \in Ranks, sent[r][p] # None
        PROVE  sent[r][p] = local[r][p]
    BY <1>2, <2>1
  <2>2. ASSUME NEW r \in Ranks, local[r][p] # None
        PROVE  \E q \in Ranks : sent[q][p] = local[r][p]
    BY <1>2, <1>3, <2>2
  <2> QED
    BY <2>1, <2>2
<1>5. ASSUME NEW p \in ItemPaths, NEW r \in Ranks, local[r][p] # None
      PROVE  RanksOf(sent, p, local[r][p]) = Held(p, local[r][p])
  <2>1. CASE local[r][p].equiv # {}
    BY <1>3, <1>5, <2>1 DEF RanksOf
  <2>2. CASE local[r][p].equiv = {}
    <3>1. \A q \in Ranks : sent[q][p] = local[r][p] <=> local[q][p] = local[r][p]
      BY <1>2, <1>5, <2>2
    <3> QED
      BY <2>2, <3>1 DEF RanksOf
  <2> QED
    BY <2>1, <2>2
<1> DEFINE here(p) == {local[r][p] : r \in Ranks} \ {None}
<1> HIDE DEF sent
<1>6. ASSUME NEW p \in ItemPaths
      PROVE  {[shard |-> s, ranks |-> RanksOf(sent, p, s)] :
                s \in {sent[r][p] : r \in DOMAIN sent} \ {None}}
               = {[shard |-> s, ranks |-> Held(p, s)] : s \in here(p)}
  <2>1. {sent[r][p] : r \in DOMAIN sent} \ {None} = here(p)
    BY <1>4 DEF sent
  <2>2. \A s \in here(p) : RanksOf(sent, p, s) = Held(p, s)
    BY <1>5
  <2> HIDE DEF Held, here
  <2> QED
    BY <2>1, <2>2
<1>7. Merge(sent) =
        [p \in ItemPaths |-> {[shard |-> s, ranks |-> Held(p, s)] :
                                s \in {local[r][p] : r \in Ranks} \ {None}}]
  BY <1>6 DEF Merge
<1>8. Aggregate(sent, c.layout) = Reference(c)
  BY <1>7 DEF Aggregate, Reference, local
<1>9. \A p \in ItemPaths :
        {[shard |-> s, ranks |-> Held(p, s)] : s \in {local[r][p] : r \in Ranks} \ {None}}
          \in SUBSET Groups
  BY <1>1 DEF Locals, Groups
<1>10. Reference(c).groups \in [ItemPaths -> SUBSET Groups]
  BY <1>9 DEF Reference, local
<1>11. Reference(c).layout \in [Ranks -> Layouts \union {None}]
  BY ConfType DEF Reference
<1>12. Reference(c) = [groups |-> Reference(c).groups, layout |-> Reference(c).layout]
  BY DEF Reference
<1> QED
  BY <1>8, <1>10, <1>11, <1>12 DEF local, sent, Globals

(* Call j is of the same configuration as call k; 0 is no call.            *)
Same(cs, j, k) == j # 0 /\ cs[j].conf = cs[k].conf

(* Call k issues collectives when b is the call whose metadata is cached.  *)
Asks(cs, b, k) == cs[k].op = "compute" \/ (cs[k].op \in {"save", "validated"} /\ b = 0)

(* The call whose metadata is cached after call k, when it was b before.   *)
After(cs, b, k) ==
  CASE cs[k].op = "invalidate" -> 0
    [] Asks(cs, b, k) /\ ~Same(cs, b, k) -> IF Valid(Reference(cs[k].conf)) THEN k ELSE 0
    [] OTHER -> b

(* How many collectives call k issues: the flags, and unless they agree    *)
(* the four of the two gathers.                                            *)
Issues(cs, b, k) == IF ~Asks(cs, b, k) THEN 0 ELSE IF Same(cs, b, k) THEN 1 ELSE 5

(* The history of a program: B[k] is the call whose metadata is cached on  *)
(* every rank after k calls, and C[k] the number of collectives issued by  *)
(* then.  The last three conjuncts follow from the recursion; they are     *)
(* kept with it because they are facts about every k.                      *)
History(cs, B, C) ==
  /\ B \in [0 .. Len(cs) -> Nat] /\ C \in [0 .. Len(cs) -> Nat]
  /\ B[0] = 0 /\ C[0] = 0
  /\ \A k \in 1 .. Len(cs) :
       B[k] = After(cs, B[k - 1], k) /\ C[k] = C[k - 1] + Issues(cs, B[k - 1], k)
  /\ \A k \in 0 .. Len(cs) : B[k] <= k
  /\ \A j, k \in 0 .. Len(cs) : j <= k => C[j] <= C[k] /\ (B[j] = 0 => B[k] = 0 \/ B[k] > j)
  /\ \A n \in 1 .. C[Len(cs)] : \E k \in 1 .. Len(cs) : C[k - 1] < n /\ n <= C[k]

(* What rank r has cached when it is the metadata of call j.               *)
Mem(cs, r, j) ==
  IF j = 0 THEN None
  ELSE [local |-> cs[j].conf.local[r], layout |-> cs[j].conf.layout[r],
        global |-> Reference(cs[j].conf)]

(* What r issues at step i of the protocol in call k.                      *)
Wanted(cs, b, k, i, r) ==
  [op |-> Protocol[i],
   data |-> CASE i = 1 -> CacheMatches(Mem(cs, r, b), cs[k].conf.local[r], cs[k].conf.layout[r])
              [] i \in {2, 4} -> 0
              [] i = 3 -> Compact(r, cs[k].conf.local[r])
              [] i = 5 -> cs[k].conf.layout[r]]

(* What a rank has issued lies in the blocks that the history gives to the *)
(* calls.                                                                  *)
Posts(cs, B, C, r, s) ==
  \A k \in 1 .. Len(cs), i \in 1 .. 5 :
    C[k - 1] + i <= C[k] /\ C[k - 1] + i <= Len(s)
      => s[C[k - 1] + i] = Wanted(cs, B[k - 1], k, i, r)

(* What call k comes to when b is the call cached after it.                *)
Result(cs, b, k, r, g) ==
  /\ g.status = "ok" =>
       /\ b # 0 /\ g.global = Reference(cs[b].conf)
       /\ cs[k].op = "validated" =>
            CacheMatches(Mem(cs, r, b), cs[k].conf.local[r], cs[k].conf.layout[r])
       /\ cs[k].op = "compute" => cs[b].conf = cs[k].conf
  /\ g.status = "error" /\ cs[k].op = "compute" => b = 0

(* What a rank's calls have come to, by the history.                       *)
Gets(cs, B, r, g) == \A k \in DOMAIN g : k <= Len(cs) /\ Result(cs, B[k], k, r, g[k])

(* A rank between two calls, in a collective of a call, or stopped in one: *)
(* how far its sequences have come and what it has cached.                 *)
PlaceInv(cs, B, C, r) ==
  LET k == pos[r]
  IN  /\ k \in 0 .. Len(cs)
      /\ serialized[r] = None \/ (computed[r] # None /\ serialized[r] = computed[r].global)
      /\ pc[r] = "idle" =>
           Len(posted[r]) = C[k] /\ Len(got[r]) = k /\ computed[r] = Mem(cs, r, B[k])
      /\ pc[r] # "idle" =>
           k # 0 /\ Asks(cs, B[k - 1], k) /\ Len(got[r]) = k - 1
      /\ pc[r] = "stopped" => Len(posted[r]) = C[k - 1]
      /\ pc[r] = "wait" =>
           /\ Len(posted[r]) = C[k - 1] + step[r]
           /\ step[r] = 1 => computed[r] = Mem(cs, r, B[k - 1])
           /\ step[r] # 1 => computed[r] = None /\ ~Same(cs, B[k - 1], k)

(* A rank is in its place of the program cs.                               *)
RankInv(cs, B, C, r) ==
  PlaceInv(cs, B, C, r) /\ Posts(cs, B, C, r, posted[r]) /\ Gets(cs, B, r, got[r])

(* A sequence with one more element.                                       *)
LEMMA Appended ==
  ASSUME NEW S, NEW s \in Seq(S), NEW e \in S
  PROVE  /\ Append(s, e) \in Seq(S) /\ Len(Append(s, e)) = Len(s) + 1
         /\ Append(s, e)[Len(s) + 1] = e
         /\ \A i \in 1 .. Len(s) : Append(s, e)[i] = s[i]
         /\ Len(s) \in Nat /\ DOMAIN s = 1 .. Len(s)
         /\ DOMAIN Append(s, e) = 1 .. (Len(s) + 1)
  OBVIOUS

(* A longer program, and the same after as many calls.                     *)
Longer(cs, B, C, cs2, B2, C2) ==
  /\ Len(cs2) >= Len(cs)
  /\ \A k \in 1 .. Len(cs) : cs2[k] = cs[k]
  /\ \A k \in 0 .. Len(cs) : B2[k] = B[k] /\ C2[k] = C[k]

(* A program that grows by a call has a history that goes on from the one  *)
(* it had.                                                                 *)
LEMMA HistoryGrows ==
  ASSUME NEW cs \in Seq(Calls), NEW x \in Calls, NEW B, NEW C, History(cs, B, C)
  PROVE  \E B2, C2 :
           History(Append(cs, x), B2, C2) /\ Longer(cs, B, C, Append(cs, x), B2, C2)
<1> DEFINE n == Len(cs)
           cs2 == Append(cs, x)
           b == After(cs2, B[n], n + 1)
           c == C[n] + Issues(cs2, B[n], n + 1)
           B2 == [k \in 0 .. (n + 1) |-> IF k = n + 1 THEN b ELSE B[k]]
           C2 == [k \in 0 .. (n + 1) |-> IF k = n + 1 THEN c ELSE C[k]]
<1>1. n \in Nat /\ Len(cs2) = n + 1 /\ \A k \in 1 .. n : cs2[k] = cs[k]
  BY Appended
<1> HIDE DEF n, cs2
<1>2. /\ B \in [0 .. n -> Nat] /\ C \in [0 .. n -> Nat] /\ B[0] = 0 /\ C[0] = 0
      /\ \A k \in 1 .. n :
           B[k] = After(cs, B[k - 1], k) /\ C[k] = C[k - 1] + Issues(cs, B[k - 1], k)
      /\ \A k \in 0 .. n : B[k] <= k
      /\ \A j, k \in 0 .. n : j <= k => C[j] <= C[k] /\ (B[j] = 0 => B[k] = 0 \/ B[k] > j)
      /\ \A m \in 1 .. C[n] : \E k \in 1 .. n : C[k - 1] < m /\ m <= C[k]
  BY DEF History, n
<1>3. b \in {0, n + 1, B[n]} /\ b \in Nat /\ b <= n + 1
  BY <1>1, <1>2 DEF After
<1>4. c \in Nat /\ C[n] <= c
  BY <1>1, <1>2 DEF Issues
<1> HIDE DEF b, c
<1>5. /\ B2 \in [0 .. (n + 1) -> Nat] /\ C2 \in [0 .. (n + 1) -> Nat]
      /\ B2[n + 1] = b /\ C2[n + 1] = c
      /\ \A k \in 0 .. n : B2[k] = B[k] /\ C2[k] = C[k]
  <2>1. n + 1 \in 0 .. (n + 1) /\ \A k \in 0 .. n : k \in 0 .. (n + 1) /\ k # n + 1
    BY <1>1
  <2>2. B2[n + 1] = b /\ C2[n + 1] = c /\ \A k \in 0 .. n : B2[k] = B[k] /\ C2[k] = C[k]
    BY <2>1
  <2>3. \A k \in 0 .. (n + 1) : k = n + 1 \/ k \in 0 .. n
    BY <1>1
  <2>4. \A k \in 0 .. (n + 1) : B2[k] \in Nat /\ C2[k] \in Nat
    BY <1>2, <1>3, <1>4, <2>2, <2>3
  <2> QED
    BY <2>2, <2>4
<1> HIDE DEF B2, C2
<1>6. ASSUME NEW k \in 1 .. n
      PROVE  B2[k] = After(cs2, B2[k - 1], k) /\ C2[k] = C2[k - 1] + Issues(cs2, B2[k - 1], k)
  <2>a. k - 1 \in 0 .. n /\ k \in 0 .. n
    BY <1>1
  <2>b. B[k - 1] \in Nat /\ B[k - 1] <= k - 1
    BY <1>2, <2>a
  <2>1. k - 1 \in 0 .. n /\ k \in 0 .. n /\ B[k - 1] \in 0 .. n /\ cs2[k] = cs[k]
    BY <1>1, <2>a, <2>b
  <2>2. B[k - 1] # 0 => cs2[B[k - 1]] = cs[B[k - 1]]
    BY <1>1, <2>1
  <2>3. /\ After(cs2, B[k - 1], k) = After(cs, B[k - 1], k)
        /\ Issues(cs2, B[k - 1], k) = Issues(cs, B[k - 1], k)
    BY <2>1, <2>2 DEF After, Issues, Asks, Same
  <2> QED
    BY <1>2, <1>5, <2>1, <2>3
<1>7. B2[n + 1] = After(cs2, B2[n], n + 1) /\ C2[n + 1] = C2[n] + Issues(cs2, B2[n], n + 1)
  BY <1>1, <1>5 DEF b, c
<1>8. \A k \in 1 .. (n + 1) :
        B2[k] = After(cs2, B2[k - 1], k) /\ C2[k] = C2[k - 1] + Issues(cs2, B2[k - 1], k)
  <2> TAKE k \in 1 .. (n + 1)
  <2>1. CASE k = n + 1
    <3>1. k - 1 = n
      BY <1>1, <2>1
    <3> QED
      BY <1>7, <2>1, <3>1
  <2>2. CASE k # n + 1
    <3>1. k \in 1 .. n
      BY <1>1, <2>2
    <3> QED
      BY <1>6, <3>1
  <2> QED
    BY <2>1, <2>2
<1>9. \A k \in 0 .. (n + 1) : B2[k] <= k
  <2> TAKE k \in 0 .. (n + 1)
  <2>1. k = n + 1 \/ k \in 0 .. n
    BY <1>1
  <2> QED
    BY <1>2, <1>3, <1>5, <2>1
<1>10. ASSUME NEW j \in 0 .. (n + 1), NEW k \in 0 .. (n + 1), j <= k
       PROVE  C2[j] <= C2[k] /\ (B2[j] = 0 => B2[k] = 0 \/ B2[k] > j)
  <2>1. CASE k \in 0 .. n
    <3>1. j \in 0 .. n
      BY <1>1, <1>10, <2>1
    <3>2. C[j] <= C[k] /\ (B[j] = 0 => B[k] = 0 \/ B[k] > j)
      BY <1>2, <1>10, <2>1, <3>1
    <3> QED
      BY <1>5, <2>1, <3>1, <3>2
  <2>2. CASE k = n + 1 /\ j = n + 1
    BY <1>1, <1>3, <1>4, <1>5, <2>2
  <2>3. CASE k = n + 1 /\ j \in 0 .. n
    <3>1. C[j] <= C[n] /\ (B[j] = 0 => B[n] = 0 \/ B[n] > j)
      BY <1>1, <1>2, <2>3
    <3>2. C[j] \in Nat /\ C[n] \in Nat /\ B[n] \in Nat
      BY <1>1, <1>2, <2>3
    <3>3. B2[j] = B[j] /\ B2[k] = b /\ C2[j] = C[j] /\ C2[k] = c
      BY <1>5, <2>3
    <3>4. C2[j] <= C2[k]
      BY <1>4, <3>1, <3>2, <3>3
    <3>5. B[j] = 0 => b = 0 \/ b > j
      BY <1>1, <1>3, <2>3, <3>1, <3>2
    <3> QED
      BY <3>3, <3>4, <3>5
  <2> QED
    BY <1>1, <2>1, <2>2, <2>3
<1>11. ASSUME NEW m \in 1 .. C2[n + 1]
       PROVE  \E k \in 1 .. (n + 1) : C2[k - 1] < m /\ m <= C2[k]
  <2>1. CASE m <= C[n]
    <3>1. m \in 1 .. C[n]
      BY <1>2, <1>5, <1>1, <1>4, <2>1
    <3>2. PICK k \in 1 .. n : C[k - 1] < m /\ m <= C[k]
      BY <1>2, <3>1
    <3>3. k - 1 \in 0 .. n /\ k \in 0 .. n /\ k \in 1 .. (n + 1)
      BY <1>1
    <3> QED
      BY <1>5, <3>2, <3>3
  <2>2. CASE C[n] < m
    <3>1. (n + 1) - 1 = n /\ n \in 0 .. n /\ n + 1 \in 1 .. (n + 1)
      BY <1>1
    <3>2. C2[(n + 1) - 1] < m /\ m <= C2[n + 1]
      BY <1>4, <1>5, <2>2, <3>1
    <3> QED
      BY <3>1, <3>2
  <2> QED
    BY <1>1, <1>2, <1>4, <1>5, <2>1, <2>2
<1>12. History(cs2, B2, C2)
  <2>1. B2[0] = 0 /\ C2[0] = 0
    BY <1>1, <1>2, <1>5
  <2> QED
    BY <1>1, <1>5, <1>8, <1>9, <1>10, <1>11, <2>1 DEF History
<1>13. Longer(cs, B, C, cs2, B2, C2)
  BY <1>1, <1>5 DEF Longer, n
<1> QED
  BY <1>12, <1>13 DEF cs2

(* A rank has issued no more than its program has come to.                 *)
LEMMA PostedSoFar ==
  ASSUME NEW cs, NEW B, NEW C, NEW r \in Ranks, TypeOK, Len(cs) \in Nat,
         History(cs, B, C), RankInv(cs, B, C, r)
  PROVE  /\ pc[r] = "wait" => step[r] \in 1 .. 5 /\ C[pos[r] - 1] + step[r] <= C[pos[r]]
         /\ Len(posted[r]) <= C[pos[r]] /\ Len(posted[r]) <= C[Len(cs)]
<1> DEFINE k == pos[r]
<1>1. /\ k \in 0 .. Len(cs) /\ step[r] \in 1 .. 5 /\ pc[r] \in {"idle", "wait", "stopped"}
      /\ pc[r] = "idle" => Len(posted[r]) = C[k]
      /\ pc[r] # "idle" => k # 0 /\ Asks(cs, B[k - 1], k)
      /\ pc[r] = "stopped" => Len(posted[r]) = C[k - 1]
      /\ pc[r] = "wait" => Len(posted[r]) = C[k - 1] + step[r]
      /\ pc[r] = "wait" /\ step[r] # 1 => ~Same(cs, B[k - 1], k)
  BY DEF RankInv, PlaceInv, TypeOK, Protocol
<1> HIDE DEF k
<1>2. C[k] \in Nat /\ C[k] <= C[Len(cs)] /\ C[Len(cs)] \in Nat
  <2>1. Len(cs) \in 0 .. Len(cs) /\ k <= Len(cs)
    BY <1>1
  <2> QED
    BY <1>1, <2>1 DEF History
<1>3. ASSUME k # 0
      PROVE  C[k - 1] \in Nat /\ C[k] = C[k - 1] + Issues(cs, B[k - 1], k)
  <2>1. k \in 1 .. Len(cs) /\ k - 1 \in 0 .. Len(cs)
    BY <1>1, <1>3
  <2> QED
    BY <2>1 DEF History
<1>4. CASE pc[r] = "idle"
  BY <1>1, <1>2, <1>4 DEF k
<1>5. CASE pc[r] = "stopped"
  <2>1. Len(posted[r]) = C[k - 1] /\ k # 0
    BY <1>1, <1>5
  <2> QED
    BY <1>2, <1>3, <1>5, <2>1 DEF k, Issues
<1>6. CASE pc[r] = "wait"
  <2>1. Len(posted[r]) = C[k - 1] + step[r] /\ k # 0 /\ Asks(cs, B[k - 1], k)
    BY <1>1, <1>6
  <2>2. step[r] <= Issues(cs, B[k - 1], k)
    BY <1>1, <1>6, <2>1 DEF Issues
  <2>3. Issues(cs, B[k - 1], k) \in Nat
    BY DEF Issues
  <2>4. C[k - 1] + step[r] <= C[k]
    BY <1>1, <1>3, <2>1, <2>2, <2>3
  <2> QED
    BY <1>1, <1>2, <1>3, <2>1, <2>4 DEF k
<1> QED
  BY <1>1, <1>4, <1>5, <1>6

(* A rank keeps its place when another one comes to a new call.            *)
LEMMA RankCarries ==
  ASSUME NEW cs, NEW B, NEW C, NEW cs2, NEW B2, NEW C2, NEW r \in Ranks, TypeOK,
         Len(cs) \in Nat, Len(cs2) \in Nat,
         History(cs, B, C), History(cs2, B2, C2), Longer(cs, B, C, cs2, B2, C2),
         RankInv(cs, B, C, r)
  PROVE  RankInv(cs2, B2, C2, r)
<1> DEFINE n == Len(cs)
<1>1. /\ n \in Nat /\ Len(cs2) >= n /\ Len(cs2) \in Nat
      /\ \A k \in 1 .. n : cs2[k] = cs[k]
      /\ \A k \in 0 .. n : B2[k] = B[k] /\ C2[k] = C[k]
  BY DEF Longer
<1>a. \A k \in 0 .. n : B[k] \in 0 .. n /\ C[k] \in Nat
  <2> TAKE k \in 0 .. n
  <2>1. B[k] \in Nat /\ B[k] <= k /\ C[k] \in Nat
    BY DEF History
  <2> QED
    BY <1>1, <2>1
<1>b. \A k \in 0 .. Len(cs2) : C2[k] \in Nat
  BY DEF History
<1>c. \A j, k \in 0 .. Len(cs2) : j <= k => C2[j] <= C2[k]
  BY DEF History
<1> HIDE DEF n
<1>2. ASSUME NEW q, NEW j \in 0 .. n
      PROVE  Mem(cs2, q, j) = Mem(cs, q, j)
  BY <1>1, <1>a, <1>b, <1>c DEF Mem
<1>3. ASSUME NEW k \in 1 .. n
      PROVE  /\ k - 1 \in 0 .. n /\ k \in 0 .. n /\ cs2[k] = cs[k]
             /\ B[k - 1] \in 0 .. n /\ B2[k - 1] = B[k - 1] /\ B2[k] = B[k]
             /\ C2[k - 1] = C[k - 1] /\ C2[k] = C[k]
             /\ Same(cs2, B2[k - 1], k) = Same(cs, B[k - 1], k)
             /\ Asks(cs2, B2[k - 1], k) = Asks(cs, B[k - 1], k)
  <2>1. k - 1 \in 0 .. n /\ k \in 0 .. n
    BY <1>1, <1>a, <1>b, <1>c
  <2>2. B[k - 1] # 0 => cs2[B[k - 1]] = cs[B[k - 1]]
    BY <1>1, <1>a, <1>b, <1>c, <2>1
  <2> QED
    BY <1>1, <1>a, <1>b, <1>c, <2>1, <2>2 DEF Same, Asks
<1>4. PlaceInv(cs2, B2, C2, r)
  <2>1. PlaceInv(cs, B, C, r) /\ pos[r] \in 0 .. n /\ pos[r] \in 0 .. Len(cs2)
    BY <1>1 DEF RankInv, PlaceInv, n
  <2>2. pos[r] # 0 => pos[r] \in 1 .. n
    BY <1>1, <1>a, <1>b, <1>c, <2>1
  <2>3. B[pos[r]] \in 0 .. n
    BY <1>1, <1>a, <1>b, <1>c, <2>1
  <2>4. Mem(cs2, r, B2[pos[r]]) = Mem(cs, r, B[pos[r]]) /\ C2[pos[r]] = C[pos[r]]
    BY <1>1, <1>a, <1>b, <1>c, <1>2, <2>1, <2>3
  <2>5. pos[r] # 0 => Mem(cs2, r, B2[pos[r] - 1]) = Mem(cs, r, B[pos[r] - 1])
    BY <1>2, <1>3, <2>2
  <2>6. /\ serialized[r] = None \/ (computed[r] # None /\ serialized[r] = computed[r].global)
        /\ pc[r] = "idle" =>
             /\ Len(posted[r]) = C[pos[r]] /\ Len(got[r]) = pos[r]
             /\ computed[r] = Mem(cs, r, B[pos[r]])
        /\ pc[r] # "idle" =>
             pos[r] # 0 /\ Asks(cs, B[pos[r] - 1], pos[r]) /\ Len(got[r]) = pos[r] - 1
        /\ pc[r] = "stopped" => Len(posted[r]) = C[pos[r] - 1]
        /\ pc[r] = "wait" =>
             /\ Len(posted[r]) = C[pos[r] - 1] + step[r]
             /\ step[r] = 1 => computed[r] = Mem(cs, r, B[pos[r] - 1])
             /\ step[r] # 1 => computed[r] = None /\ ~Same(cs, B[pos[r] - 1], pos[r])
    BY <2>1 DEF PlaceInv
  <2> DEFINE same == Same(cs2, B2[pos[r] - 1], pos[r])
             asks == Asks(cs2, B2[pos[r] - 1], pos[r])
  <2>7. pos[r] # 0 => /\ same <=> Same(cs, B[pos[r] - 1], pos[r])
                      /\ asks <=> Asks(cs, B[pos[r] - 1], pos[r])
                      /\ C2[pos[r] - 1] = C[pos[r] - 1]
    BY <1>3, <2>2
  <2> QED
    BY <2>1, <2>4, <2>5, <2>6, <2>7,
       pc[r] = "wait" => pc[r] # "idle", pc[r] = "stopped" => pc[r] # "idle" DEF PlaceInv
<1>5. Posts(cs2, B2, C2, r, posted[r])
  <2>1. SUFFICES ASSUME NEW k \in 1 .. Len(cs2), NEW i \in 1 .. 5,
                        C2[k - 1] + i <= C2[k], C2[k - 1] + i <= Len(posted[r])
                 PROVE  posted[r][C2[k - 1] + i] = Wanted(cs2, B2[k - 1], k, i, r)
    BY DEF Posts
  <2>2. CASE k \in 1 .. n
    <3>1. Wanted(cs2, B2[k - 1], k, i, r) = Wanted(cs, B[k - 1], k, i, r)
      <4>1. /\ B[k - 1] \in 0 .. n /\ B2[k - 1] = B[k - 1] /\ cs2[k] = cs[k]
            /\ Mem(cs2, r, B[k - 1]) = Mem(cs, r, B[k - 1])
        BY <1>2, <1>3, <2>2
      <4> QED
        BY <4>1 DEF Wanted
    <3>2. Posts(cs, B, C, r, posted[r])
      BY DEF RankInv
    <3> QED
      BY <1>3, <2>1, <2>2, <3>1, <3>2 DEF Posts, n
  <2>3. CASE k > n
    <3>1. Len(posted[r]) <= C[n]
      BY PostedSoFar DEF n
    <3>2. C2[n] <= C2[k - 1] /\ C2[n] = C[n] /\ C2[k - 1] \in Nat
      BY <1>1, <1>a, <1>b, <1>c, <2>3
    <3>3. C2[k - 1] + i <= C[n] /\ C[n] <= C2[k - 1] /\ C[n] \in Nat
      <4> DEFINE len == Len(posted[r])
      <4>1. len \in Nat
        BY DEF TypeOK
      <4>2. n \in 0 .. n /\ C[n] \in Nat
        BY <1>1, <1>a
      <4>3. C2[k - 1] + i <= len /\ len <= C[n]
        BY <2>1, <3>1
      <4> HIDE DEF len
      <4> QED
        BY <3>2, <4>1, <4>2, <4>3
    <3> QED
      BY <3>2, <3>3
  <2> QED
    BY <1>1, <2>2, <2>3
<1>6. Gets(cs2, B2, r, got[r])
  <2>1. SUFFICES ASSUME NEW k \in DOMAIN got[r]
                 PROVE  k <= Len(cs2) /\ Result(cs2, B2[k], k, r, got[r][k])
    BY DEF Gets
  <2>2. k \in Nat \ {0}
    BY DEF TypeOK
  <2>3. k \in 1 .. n /\ Result(cs, B[k], k, r, got[r][k])
    BY <1>1, <2>2 DEF RankInv, Gets, n
  <2>4. B[k] \in 0 .. n /\ B2[k] = B[k] /\ cs2[k] = cs[k] /\ Mem(cs2, r, B2[k]) = Mem(cs, r, B[k])
    BY <1>1, <1>a, <1>2, <1>3, <2>3
  <2>5. B[k] # 0 => cs2[B2[k]] = cs[B[k]]
    BY <1>1, <2>4
  <2> QED
    BY <1>1, <2>1, <2>3, <2>4, <2>5 DEF Result
<1> QED
  BY <1>4, <1>5, <1>6 DEF RankInv

(* What a call of the program is.                                          *)
LEMMA CallAt ==
  ASSUME NEW cs \in Seq(Calls), NEW k \in 1 .. Len(cs)
  PROVE  cs[k] \in Calls /\ cs[k].op \in Ops /\ cs[k].conf \in Configs
<1>1. cs[k] \in Calls
  OBVIOUS
<1> QED
  BY <1>1 DEF Calls

(* What the history says of one call.                                      *)
LEMMA HistoryAt ==
  ASSUME NEW cs \in Seq(Calls), NEW B, NEW C, History(cs, B, C), NEW k \in 1 .. Len(cs)
  PROVE  /\ Len(cs) \in Nat /\ k - 1 \in 0 .. Len(cs) /\ k \in 0 .. Len(cs)
         /\ B[k - 1] \in 0 .. Len(cs) /\ B[k - 1] < k /\ B[k] \in 0 .. k /\ B[k] \in 0 .. Len(cs)
         /\ C[k - 1] \in Nat /\ C[k] \in Nat
         /\ B[k] = After(cs, B[k - 1], k) /\ C[k] = C[k - 1] + Issues(cs, B[k - 1], k)
         /\ cs[k] \in Calls /\ cs[k].op \in Ops /\ cs[k].conf \in Configs
<1>1. Len(cs) \in Nat /\ k - 1 \in 0 .. Len(cs) /\ k \in 0 .. Len(cs)
  OBVIOUS
<1>2. /\ B[k - 1] \in Nat /\ B[k - 1] <= k - 1 /\ B[k] \in Nat /\ B[k] <= k
      /\ C[k - 1] \in Nat /\ C[k] \in Nat
      /\ B[k] = After(cs, B[k - 1], k) /\ C[k] = C[k - 1] + Issues(cs, B[k - 1], k)
  BY <1>1 DEF History
<1> QED
  BY <1>1, <1>2, CallAt

(* What a rank may have cached.                                            *)
LEMMA MemType ==
  ASSUME NEW cs \in Seq(Calls), NEW r \in Ranks, NEW j \in 0 .. Len(cs)
  PROVE  /\ Mem(cs, r, j) \in {None} \union Caches
         /\ Mem(cs, r, j) = None <=> j = 0
         /\ j # 0 => /\ Mem(cs, r, j).global = Reference(cs[j].conf)
                     /\ Reference(cs[j].conf) \in Globals
<1>1. CASE j = 0
  BY <1>1 DEF Mem
<1>2. CASE j # 0
  <2>1. cs[j].conf \in Configs
    BY <1>2, CallAt
  <2>2. Reference(cs[j].conf) \in Globals
    BY <2>1, AggregateRight
  <2>3. cs[j].conf.local[r] \in Locals /\ cs[j].conf.layout[r] \in Layouts \union {None}
    BY <2>1, ConfType
  <2>4. Mem(cs, r, j) \in Caches
    BY <1>2, <2>2, <2>3 DEF Mem, Caches
  <2> QED
    BY <1>2, <2>2, <2>4, NoneIsNoCache DEF Mem
<1> QED
  BY <1>1, <1>2

(* Every rank finds its own part of the cache to match exactly if the      *)
(* cache is of the configuration of this call: no rank sees the whole, but *)
(* the minimum of their flags does.                                        *)
LEMMA SameConf ==
  ASSUME NEW cs \in Seq(Calls), NEW j \in 0 .. Len(cs), NEW k \in 1 .. Len(cs)
  PROVE  (\A q \in Ranks :
            CacheMatches(Mem(cs, q, j), cs[k].conf.local[q], cs[k].conf.layout[q]))
           <=> Same(cs, j, k)
<1>1. 0 \in Ranks
  BY MetadataAssumption DEF Ranks
<1>2. cs[k].conf \in Configs
  BY CallAt
<1>3. CASE j = 0
  BY <1>1, <1>3 DEF Mem, CacheMatches, Same
<1>4. CASE j # 0
  <2>1. cs[j].conf \in Configs
    BY <1>4, CallAt
  <2>2. ASSUME NEW q \in Ranks
        PROVE  CacheMatches(Mem(cs, q, j), cs[k].conf.local[q], cs[k].conf.layout[q])
                 <=> /\ cs[j].conf.local[q] = cs[k].conf.local[q]
                     /\ cs[j].conf.layout[q] = cs[k].conf.layout[q]
    <3>1. Mem(cs, q, j) # None
      BY <1>4, MemType
    <3> QED
      BY <1>4, <3>1 DEF CacheMatches, Mem
  <2>3. ASSUME NEW c \in Configs, NEW d \in Configs,
               \A q \in Ranks : c.local[q] = d.local[q] /\ c.layout[q] = d.layout[q]
        PROVE  c = d
    <3>1. c.local = d.local
      BY <2>3, ConfType
    <3>2. c.layout = d.layout
      BY <2>3, ConfType
    <3> QED
      BY <3>1, <3>2, ConfType
  <2> QED
    BY <1>2, <1>4, <2>1, <2>2, <2>3 DEF Same
<1> QED
  BY <1>3, <1>4

(* What a rank issues is an entry of its step of the protocol.             *)
LEMMA WantedType ==
  ASSUME NEW cs \in Seq(Calls), NEW b, NEW k \in 1 .. Len(cs), NEW i \in 1 .. 5, NEW r \in Ranks
  PROVE  /\ Wanted(cs, b, k, i, r) \in Entries
         /\ Wanted(cs, b, k, i, r).op = Protocol[i]
<1>1. cs[k].conf \in Configs
  BY CallAt
<1>2. cs[k].conf.local[r] \in Locals /\ cs[k].conf.layout[r] \in Layouts \union {None}
  BY <1>1, ConfType
<1>3. Compact(r, cs[k].conf.local[r]) \in Locals
  BY <1>2 DEF Compact, Locals
<1>4. CacheMatches(Mem(cs, r, b), cs[k].conf.local[r], cs[k].conf.layout[r]) \in BOOLEAN
  BY DEF CacheMatches
<1>5. Protocol[1] = "agree" /\ Protocol[2] = "size" /\ Protocol[3] = "metadata"
        /\ Protocol[4] = "size" /\ Protocol[5] = "layout"
  BY DEF Protocol
<1>6. i = 1 \/ i = 2 \/ i = 3 \/ i = 4 \/ i = 5
  OBVIOUS
<1> QED
  BY <1>2, <1>3, <1>4, <1>5, <1>6 DEF Wanted, Entries

(* The next collective of a rank extends its block.                        *)
LEMMA PostsOne ==
  ASSUME NEW cs \in Seq(Calls), NEW B, NEW C, History(cs, B, C), NEW r \in Ranks,
         NEW s \in Seq(Entries), Posts(cs, B, C, r, s),
         NEW k \in 1 .. Len(cs), NEW i \in 1 .. 5, C[k - 1] + i <= C[k], Len(s) = C[k - 1] + i - 1
  PROVE  /\ Append(s, Wanted(cs, B[k - 1], k, i, r)) \in Seq(Entries)
         /\ Len(Append(s, Wanted(cs, B[k - 1], k, i, r))) = C[k - 1] + i
         /\ Posts(cs, B, C, r, Append(s, Wanted(cs, B[k - 1], k, i, r)))
<1> DEFINE w == Wanted(cs, B[k - 1], k, i, r)
           t == Append(s, w)
<1>1. w \in Entries
  BY WantedType
<1> HIDE DEF w
<1>2. /\ t \in Seq(Entries) /\ Len(t) = Len(s) + 1 /\ t[Len(s) + 1] = w
      /\ \A m \in 1 .. Len(s) : t[m] = s[m]
  BY <1>1, Appended
<1> HIDE DEF t
<1>3. C[k - 1] \in Nat /\ C[k] \in Nat /\ Len(cs) \in Nat
  BY HistoryAt
<1>4. Len(t) = C[k - 1] + i
  BY <1>2, <1>3
<1>5. ASSUME NEW l \in 1 .. Len(cs), NEW j \in 1 .. 5,
             C[l - 1] + j <= C[l], C[l - 1] + j <= C[k - 1] + i
      PROVE  t[C[l - 1] + j] = Wanted(cs, B[l - 1], l, j, r)
  <2>1. C[l - 1] \in Nat /\ C[l] \in Nat
    BY HistoryAt
  <2> DEFINE from == C[l - 1]
             to == C[l]
             start == C[k - 1]
             end == C[k]
  <2>0. /\ from \in Nat /\ to \in Nat /\ start \in Nat /\ end \in Nat
        /\ from + j <= to /\ from + j <= start + i /\ start + i <= end
    BY <1>3, <1>5, <2>1
  <2>l. l < k => to <= start
    <3>1. SUFFICES ASSUME l < k PROVE to <= start
      OBVIOUS
    <3>2. l \in 0 .. Len(cs) /\ k - 1 \in 0 .. Len(cs) /\ l <= k - 1
      BY <1>3, <3>1
    <3> QED
      BY <3>2 DEF History
  <2>k. k < l => end <= from
    <3>1. SUFFICES ASSUME k < l PROVE end <= from
      OBVIOUS
    <3>2. k \in 0 .. Len(cs) /\ l - 1 \in 0 .. Len(cs) /\ k <= l - 1
      BY <1>3, <3>1
    <3> QED
      BY <3>2 DEF History
  <2>2. CASE from + j = start + i
    <3> HIDE DEF from, to, start, end
    <3>1. ~(l < k)
      BY <2>0, <2>2, <2>l
    <3>2. ~(k < l)
      BY <2>0, <2>2, <2>k
    <3>3. l = k
      BY <1>3, <3>1, <3>2
    <3>4. from = start
      BY <3>3 DEF from, start
    <3>5. j = i
      BY <2>0, <2>2, <3>4
    <3> QED
      BY <1>2, <1>4, <1>3, <2>2, <3>3, <3>5 DEF w, from, start
  <2>3. CASE from + j # start + i
    <3>1. from + j \in 1 .. Len(s)
      <4>1. Len(s) = start + i - 1
        OBVIOUS
      <4> HIDE DEF from, to, start, end
      <4> QED
        BY <2>0, <2>3, <4>1
    <3>2. from + j <= Len(s)
      BY <3>1
    <3>3. s[from + j] = Wanted(cs, B[l - 1], l, j, r)
      BY <1>5, <3>2 DEF Posts
    <3> QED
      BY <1>2, <3>1, <3>3
  <2> QED
    BY <2>2, <2>3
<1>6. Posts(cs, B, C, r, t)
  BY <1>4, <1>5 DEF Posts
<1> QED
  BY <1>2, <1>4, <1>6 DEF t, w

(* The result of the next call follows those of the earlier ones.          *)
LEMMA GetsOne ==
  ASSUME NEW cs \in Seq(Calls), NEW B, NEW r \in Ranks, NEW g \in Seq(Results), Gets(cs, B, r, g),
         NEW k \in 1 .. Len(cs), Len(g) = k - 1, NEW e \in Results, Result(cs, B[k], k, r, e)
  PROVE  Append(g, e) \in Seq(Results) /\ Len(Append(g, e)) = k /\ Gets(cs, B, r, Append(g, e))
<1> DEFINE h == Append(g, e)
<1>1. /\ h \in Seq(Results) /\ Len(h) = Len(g) + 1 /\ h[Len(g) + 1] = e
      /\ \A i \in 1 .. Len(g) : h[i] = g[i]
      /\ DOMAIN g = 1 .. Len(g) /\ DOMAIN h = 1 .. (Len(g) + 1)
  BY Appended
<1> HIDE DEF h
<1>2. Len(h) = k /\ h[k] = e /\ DOMAIN h = 1 .. k
  BY <1>1
<1>3. ASSUME NEW i \in 1 .. k
      PROVE  i <= Len(cs) /\ Result(cs, B[i], i, r, h[i])
  <2>1. CASE i = k
    BY <1>2, <2>1
  <2>2. CASE i # k
    <3>1. i \in 1 .. Len(g)
      BY <2>2
    <3> QED
      BY <1>1, <3>1 DEF Gets
  <2> QED
    BY <2>1, <2>2
<1> QED
  BY <1>1, <1>2, <1>3 DEF Gets, h

-----------------------------------------------------------------------------
(* Every rank is in its place of a program cs; r is the one to move.       *)
Setting(cs, B, C, r) ==
  /\ cs \in Seq(Calls) /\ Len(cs) <= MaxCalls /\ r \in Ranks /\ TypeOK
  /\ History(cs, B, C) /\ \A q \in Ranks : RankInv(cs, B, C, q)

(* The type of what r has.                                                 *)
RankType(r) ==
  /\ pos[r] \in 0 .. MaxCalls /\ pc[r] \in {"idle", "wait", "stopped"}
  /\ step[r] \in DOMAIN Protocol /\ posted[r] \in Seq(Entries)
  /\ computed[r] \in {None} \union Caches /\ serialized[r] \in {None} \union Globals
  /\ got[r] \in Seq(Results)

(* A step changes the variables of r only,                                 *)
Only(r) ==
  /\ pos' = [pos EXCEPT ![r] = pos'[r]] /\ pc' = [pc EXCEPT ![r] = pc'[r]]
  /\ step' = [step EXCEPT ![r] = step'[r]] /\ posted' = [posted EXCEPT ![r] = posted'[r]]
  /\ computed' = [computed EXCEPT ![r] = computed'[r]]
  /\ serialized' = [serialized EXCEPT ![r] = serialized'[r]]
  /\ got' = [got EXCEPT ![r] = got'[r]]

(* and leaves r in its place.                                              *)
Moves(cs, B, C, r) == Only(r) /\ RankType(r)' /\ RankInv(cs, B, C, r)'

(* r begins the next call of cs.                                           *)
Begins(cs, r, op, c) ==
  /\ pc[r] = "idle" /\ pos[r] < Len(cs)
  /\ cs[pos[r] + 1] = [op |-> op, conf |-> c]
  /\ pos' = [pos EXCEPT ![r] = @ + 1]

(* The five steps.                                                         *)
LEMMA ProtocolSteps ==
  /\ DOMAIN Protocol = 1 .. 5
  /\ Protocol[1] = "agree" /\ Protocol[2] = "size" /\ Protocol[3] = "metadata"
  /\ Protocol[4] = "size" /\ Protocol[5] = "layout"
  BY DEF Protocol

(* What a setting says of the rank to move.                                *)
LEMMA SettingType ==
  ASSUME NEW cs, NEW B, NEW C, NEW r, Setting(cs, B, C, r)
  PROVE  /\ cs \in Seq(Calls) /\ Len(cs) \in Nat /\ MaxCalls \in Nat /\ Len(cs) <= MaxCalls
         /\ r \in Ranks /\ History(cs, B, C) /\ RankType(r) /\ RankInv(cs, B, C, r)
         /\ PlaceInv(cs, B, C, r)
         /\ Posts(cs, B, C, r, posted[r]) /\ Gets(cs, B, r, got[r])
         /\ posted[r] \in Seq(Entries) /\ got[r] \in Seq(Results) /\ step[r] \in 1 .. 5
<1>1. /\ cs \in Seq(Calls) /\ Len(cs) <= MaxCalls /\ r \in Ranks /\ TypeOK
      /\ History(cs, B, C) /\ RankInv(cs, B, C, r)
  BY DEF Setting
<1>2. RankType(r) /\ step[r] \in 1 .. 5
  BY <1>1, ProtocolSteps DEF TypeOK, RankType
<1> QED
  BY <1>1, <1>2, MetadataAssumption DEF RankInv, RankType

(* Where r is as it begins the next call of cs,                            *)
LEMMA AtIdle ==
  ASSUME NEW cs, NEW B, NEW C, NEW r, NEW k, Setting(cs, B, C, r),
         pc[r] = "idle", pos[r] < Len(cs), k = pos[r] + 1
  PROVE  /\ k \in 1 .. Len(cs) /\ k \in 1 .. MaxCalls /\ k - 1 = pos[r]
         /\ Len(posted[r]) = C[k - 1] /\ Len(got[r]) = k - 1 /\ computed[r] = Mem(cs, r, B[k - 1])
         /\ serialized[r] = None \/ (computed[r] # None /\ serialized[r] = computed[r].global)
<1>1. /\ Len(cs) \in Nat /\ MaxCalls \in Nat /\ Len(cs) <= MaxCalls /\ PlaceInv(cs, B, C, r)
  BY SettingType
<1>2. pos[r] \in 0 .. Len(cs)
  BY <1>1 DEF PlaceInv
<1>3. k \in 1 .. Len(cs) /\ k \in 1 .. MaxCalls /\ k - 1 = pos[r]
  BY <1>1, <1>2
<1> QED
  BY <1>1, <1>3 DEF PlaceInv

(* and as it waits in a collective of a call.                              *)
LEMMA AtWait ==
  ASSUME NEW cs, NEW B, NEW C, NEW r, Setting(cs, B, C, r), pc[r] = "wait"
  PROVE  LET k == pos[r]
         IN  /\ k \in 1 .. Len(cs) /\ k \in 1 .. MaxCalls
             /\ Asks(cs, B[k - 1], k) /\ Len(got[r]) = k - 1
             /\ step[r] \in 1 .. 5 /\ Len(posted[r]) = C[k - 1] + step[r]
             /\ C[k - 1] + step[r] <= C[k]
             /\ step[r] = 1 => computed[r] = Mem(cs, r, B[k - 1])
             /\ step[r] # 1 => computed[r] = None /\ ~Same(cs, B[k - 1], k)
             /\ serialized[r] = None \/ (computed[r] # None /\ serialized[r] = computed[r].global)
<1>1. /\ cs \in Seq(Calls) /\ Len(cs) \in Nat /\ MaxCalls \in Nat /\ Len(cs) <= MaxCalls
      /\ PlaceInv(cs, B, C, r) /\ TypeOK /\ r \in Ranks
      /\ History(cs, B, C) /\ RankInv(cs, B, C, r)
  BY SettingType DEF Setting
<1>2. pos[r] \in 0 .. Len(cs) /\ pos[r] # 0
  BY <1>1 DEF PlaceInv
<1>3. pos[r] \in 1 .. Len(cs) /\ pos[r] \in 1 .. MaxCalls
  BY <1>1, <1>2
<1>4. step[r] \in 1 .. 5 /\ C[pos[r] - 1] + step[r] <= C[pos[r]]
  BY <1>1, PostedSoFar
<1> QED
  BY <1>1, <1>3, <1>4 DEF PlaceInv

(* How a call ends,                                                        *)
LEMMA Ends ==
  ASSUME NEW cs, NEW B, NEW C, NEW r, NEW k, Setting(cs, B, C, r), Only(r),
         k \in 1 .. Len(cs), pos'[r] = k, pc'[r] = "idle",
         step'[r] = step[r], posted'[r] = posted[r],
         Len(posted[r]) = C[k], Len(got[r]) = k - 1,
         NEW e \in Results, got'[r] = Append(got[r], e), Result(cs, B[k], k, r, e),
         computed'[r] = Mem(cs, r, B[k]),
         serialized'[r] = None \/ (B[k] # 0 /\ serialized'[r] = computed'[r].global)
  PROVE  Moves(cs, B, C, r)
<1>1. /\ cs \in Seq(Calls) /\ Len(cs) \in Nat /\ MaxCalls \in Nat /\ Len(cs) <= MaxCalls
      /\ r \in Ranks /\ History(cs, B, C) /\ RankType(r)
      /\ Posts(cs, B, C, r, posted[r]) /\ Gets(cs, B, r, got[r]) /\ got[r] \in Seq(Results)
  BY SettingType
<1>2. got'[r] \in Seq(Results) /\ Len(got'[r]) = k /\ Gets(cs, B, r, got'[r])
  BY <1>1, GetsOne
<1>3. /\ B[k] \in 0 .. Len(cs) /\ k \in 0 .. Len(cs) /\ k \in 0 .. MaxCalls
  BY <1>1, HistoryAt
<1>4. /\ computed'[r] \in {None} \union Caches /\ (computed'[r] = None <=> B[k] = 0)
      /\ B[k] # 0 => computed'[r].global \in Globals
  BY <1>1, <1>3, MemType
<1>5. RankType(r)'
  BY <1>1, <1>2, <1>3, <1>4 DEF RankType
<1>6. PlaceInv(cs, B, C, r)'
  BY <1>2, <1>3, <1>4 DEF PlaceInv
<1>7. Posts(cs, B, C, r, posted[r])' /\ Gets(cs, B, r, got[r])'
  BY <1>1, <1>2 DEF Posts, Gets
<1> QED
  BY <1>5, <1>6, <1>7 DEF Moves, RankInv

(* and how r comes to wait in its next collective.                         *)
LEMMA Waits ==
  ASSUME NEW cs, NEW B, NEW C, NEW r, NEW k, NEW i \in 1 .. 5, Setting(cs, B, C, r), Only(r),
         k \in 1 .. Len(cs), pos'[r] = k, pc'[r] = "wait", step'[r] = i,
         posted'[r] = Append(posted[r], Wanted(cs, B[k - 1], k, i, r)),
         Len(posted[r]) = C[k - 1] + i - 1, C[k - 1] + i <= C[k],
         got'[r] = got[r], Len(got[r]) = k - 1, Asks(cs, B[k - 1], k),
         i = 1 => computed'[r] = Mem(cs, r, B[k - 1]),
         i # 1 => computed'[r] = None /\ ~Same(cs, B[k - 1], k),
         computed'[r] \in {computed[r], None},
         serialized'[r] = None \/ (computed'[r] # None /\ serialized'[r] = serialized[r]
                                     /\ serialized[r] = computed'[r].global)
  PROVE  Moves(cs, B, C, r)
<1>1. /\ cs \in Seq(Calls) /\ Len(cs) \in Nat /\ MaxCalls \in Nat /\ Len(cs) <= MaxCalls
      /\ r \in Ranks /\ History(cs, B, C) /\ RankType(r)
      /\ Posts(cs, B, C, r, posted[r]) /\ Gets(cs, B, r, got[r])
      /\ posted[r] \in Seq(Entries)
  BY SettingType
<1> DEFINE t == Append(posted[r], Wanted(cs, B[k - 1], k, i, r))
<1>a. t \in Seq(Entries) /\ Len(t) = C[k - 1] + i /\ Posts(cs, B, C, r, t)
  <2>1. \A s \in Seq(Entries) : Posts(cs, B, C, r, s) /\ Len(s) = C[k - 1] + i - 1 =>
          LET u == Append(s, Wanted(cs, B[k - 1], k, i, r))
          IN  u \in Seq(Entries) /\ Len(u) = C[k - 1] + i /\ Posts(cs, B, C, r, u)
    BY <1>1, PostsOne
  <2> QED
    BY <1>1, <2>1
<1> HIDE DEF t
<1>2. /\ posted'[r] \in Seq(Entries) /\ Len(posted'[r]) = C[k - 1] + i
      /\ Posts(cs, B, C, r, posted'[r])
  <2>1. posted'[r] = t
    BY DEF t
  <2> QED
    BY <1>a, <2>1
<1>3. k \in 0 .. Len(cs) /\ k \in 0 .. MaxCalls /\ k # 0
  BY <1>1
<1>4. RankType(r)'
  BY <1>1, <1>2, <1>3, ProtocolSteps DEF RankType
<1>5. PlaceInv(cs, B, C, r)'
  BY <1>2, <1>3 DEF PlaceInv
<1>6. Posts(cs, B, C, r, posted[r])' /\ Gets(cs, B, r, got[r])'
  BY <1>1, <1>2 DEF Posts, Gets
<1> QED
  BY <1>4, <1>5, <1>6 DEF Moves, RankInv

(* A save writes the global part of what is cached.                        *)
LEMMA SerializeGives ==
  ASSUME NEW cs, NEW r \in Ranks, TypeOK, NEW b, NEW g, b # 0,
         g = Reference(cs[b].conf), computed'[r] = Mem(cs, r, b),
         serialized[r] = None \/ serialized[r] = g, Serialize(r)
  PROVE  /\ serialized' = [serialized EXCEPT ![r] = g] /\ serialized'[r] = g
         /\ serialized'[r] = computed'[r].global
         /\ got' = [got EXCEPT ![r] = Append(@, [status |-> "ok", global |-> g])]
         /\ got'[r] = Append(got[r], [status |-> "ok", global |-> g])
<1>1. computed'[r].global = g
  BY DEF Mem
<1>2. /\ serialized' = [serialized EXCEPT ![r] = g]
      /\ got' = [got EXCEPT ![r] = Append(@, [status |-> "ok", global |-> g])]
  BY <1>1 DEF Serialize, Return
<1> QED
  BY <1>1, <1>2 DEF TypeOK

-----------------------------------------------------------------------------
(* Whether r is the first to come to a call or not, it begins the next     *)
(* call of the program of the new state.                                   *)
LEMMA BeginGives ==
  ASSUME TypeOK, NEW cs, cs = calls', NEW r \in Ranks, NEW op \in Ops, NEW c \in Configs,
         Begin(r, op, c)
  PROVE  Begins(cs, r, op, c)
<1>1. calls \in Seq(Calls) /\ pos[r] \in Nat /\ [op |-> op, conf |-> c] \in Calls
  BY DEF TypeOK, Calls
<1>2. CASE pos[r] = Len(calls) /\ calls' = Append(calls, [op |-> op, conf |-> c])
  BY <1>1, <1>2, Appended DEF Begin, Begins
<1>3. CASE pos[r] < Len(calls) /\ UNCHANGED calls /\ calls[pos[r] + 1] = [op |-> op, conf |-> c]
  BY <1>3 DEF Begin, Begins
<1> QED
  BY <1>2, <1>3 DEF Begin

(* invalidate_computed_metadata keeps r in its place.                      *)
LEMMA InvalidateMoves ==
  ASSUME NEW cs, NEW B, NEW C, NEW r, NEW c \in Configs, Setting(cs, B, C, r),
         Begins(cs, r, "invalidate", c), Invalidate(r, c)
  PROVE  Moves(cs, B, C, r)
<1> DEFINE k == pos[r] + 1
           e == [status |-> "done", global |-> None]
<1>1. TypeOK /\ r \in Ranks /\ cs \in Seq(Calls) /\ History(cs, B, C)
  BY DEF Setting
<1>2. /\ k \in 1 .. Len(cs) /\ Len(posted[r]) = C[k - 1] /\ Len(got[r]) = k - 1
      /\ cs[k] = [op |-> "invalidate", conf |-> c] /\ pos' = [pos EXCEPT ![r] = k]
  BY AtIdle DEF Begins
<1>3. B[k] = 0 /\ C[k] = C[k - 1]
  <2> HIDE DEF k
  <2>1. /\ B[k] = After(cs, B[k - 1], k) /\ C[k] = C[k - 1] + Issues(cs, B[k - 1], k)
        /\ C[k - 1] \in Nat
    BY <1>1, <1>2, HistoryAt
  <2>2. After(cs, B[k - 1], k) = 0 /\ Issues(cs, B[k - 1], k) = 0
    BY <1>2 DEF After, Issues, Asks
  <2> QED
    BY <2>1, <2>2
<1>4. /\ computed' = [computed EXCEPT ![r] = None] /\ serialized' = [serialized EXCEPT ![r] = None]
      /\ got' = [got EXCEPT ![r] = Append(@, e)] /\ UNCHANGED <<pc, step, posted>> /\ pc[r] = "idle"
  BY DEF Invalidate, Forget, Return, Begins
<1>5. /\ computed'[r] = None /\ serialized'[r] = None /\ got'[r] = Append(got[r], e) /\ pos'[r] = k
      /\ pc'[r] = "idle" /\ step'[r] = step[r] /\ posted'[r] = posted[r]
  BY <1>1, <1>2, <1>4 DEF TypeOK
<1>6. Only(r)
  BY <1>1, <1>2, <1>4, <1>5 DEF Only, TypeOK
<1>7. e \in Results /\ Result(cs, B[k], k, r, e) /\ computed'[r] = Mem(cs, r, B[k])
  BY <1>3, <1>5 DEF Results, Result, Mem
<1> HIDE DEF k, e
<1> QED
  BY <1>2, <1>3, <1>5, <1>6, <1>7, Ends

(* So does a save with something cached: a validated one succeeds only if  *)
(* r's own part matches.                                                   *)
LEMMA SaveCachedMoves ==
  ASSUME NEW cs, NEW B, NEW C, NEW r, NEW c \in Configs, cs = calls', Setting(cs, B, C, r),
         SaveCached(r, c)
  PROVE  Moves(cs, B, C, r)
<1>1. TypeOK /\ r \in Ranks /\ cs \in Seq(Calls) /\ History(cs, B, C)
  BY DEF Setting
<1>2. PICK op \in {"save", "validated"} :
        /\ Begin(r, op, c)
        /\ computed[r] # None
        /\ UNCHANGED <<pc, step, posted, computed>>
        /\ IF op = "validated" /\ ~Matches(r, c)
           THEN Return(r, "error", None) /\ UNCHANGED serialized
           ELSE Serialize(r)
  BY DEF SaveCached
<1> DEFINE k == pos[r] + 1
           b == B[k - 1]
           g == Reference(cs[b].conf)
           bad == [status |-> "error", global |-> None]
           good == [status |-> "ok", global |-> g]
<1>3. Begins(cs, r, op, c)
  BY <1>1, <1>2, BeginGives DEF Ops
<1>4. /\ k \in 1 .. Len(cs) /\ Len(posted[r]) = C[k - 1] /\ Len(got[r]) = k - 1
      /\ cs[k] = [op |-> op, conf |-> c] /\ pos' = [pos EXCEPT ![r] = k]
      /\ computed[r] = Mem(cs, r, b) /\ pc[r] = "idle"
      /\ serialized[r] = None \/ serialized[r] = computed[r].global
  BY <1>3, AtIdle DEF Begins
<1>5. b \in 0 .. Len(cs) /\ b # 0 /\ computed[r].global = g /\ g \in Globals
  BY <1>1, <1>2, <1>4, HistoryAt, MemType
<1>6. B[k] = b /\ C[k] = C[k - 1]
  <2> HIDE DEF k
  <2>1. B[k] = After(cs, b, k) /\ C[k] = C[k - 1] + Issues(cs, b, k) /\ C[k - 1] \in Nat
    BY <1>1, <1>4, HistoryAt
  <2>2. ~Asks(cs, b, k) /\ cs[k].op # "invalidate"
    BY <1>2, <1>4, <1>5 DEF Asks
  <2> QED
    BY <2>1, <2>2 DEF After, Issues
<1>7. /\ computed'[r] = Mem(cs, r, b) /\ pos'[r] = k
      /\ pc'[r] = "idle" /\ step'[r] = step[r] /\ posted'[r] = posted[r]
  BY <1>1, <1>2, <1>4 DEF TypeOK
<1>8. Matches(r, c) = CacheMatches(Mem(cs, r, b), cs[k].conf.local[r], cs[k].conf.layout[r])
  BY <1>4 DEF Matches
<1>9. CASE op = "validated" /\ ~Matches(r, c)
  <2>1. got' = [got EXCEPT ![r] = Append(@, bad)] /\ UNCHANGED serialized
    BY <1>2, <1>9 DEF Return
  <2>2. got'[r] = Append(got[r], bad) /\ serialized'[r] = serialized[r]
    BY <1>1, <2>1 DEF TypeOK
  <2>3. Only(r)
    BY <1>1, <1>2, <1>4, <1>7, <2>1, <2>2 DEF Only, TypeOK
  <2>4. bad \in Results /\ Result(cs, B[k], k, r, bad)
    BY <1>4, <1>9 DEF Results, Result
  <2> HIDE DEF k, b, g, bad
  <2> QED
    BY <1>4, <1>5, <1>6, <1>7, <2>2, <2>3, <2>4, Ends
<1>10. CASE ~(op = "validated" /\ ~Matches(r, c))
  <2>1. /\ serialized' = [serialized EXCEPT ![r] = g] /\ serialized'[r] = g
        /\ serialized'[r] = computed'[r].global
        /\ got' = [got EXCEPT ![r] = Append(@, good)] /\ got'[r] = Append(got[r], good)
    BY <1>1, <1>2, <1>4, <1>5, <1>7, <1>10, SerializeGives
  <2>3. Only(r)
    BY <1>1, <1>2, <1>4, <1>7, <2>1 DEF Only, TypeOK
  <2>4. good \in Results /\ Result(cs, B[k], k, r, good)
    BY <1>2, <1>4, <1>5, <1>6, <1>8, <1>10 DEF Results, Result
  <2> HIDE DEF k, b, g, good
  <2> QED
    BY <1>4, <1>5, <1>6, <1>7, <2>1, <2>3, <2>4, Ends
<1> QED
  BY <1>9, <1>10

(* So does the start of a compute, or of a save with nothing cached.       *)
LEMMA StartComputeMoves ==
  ASSUME NEW cs, NEW B, NEW C, NEW r, NEW c \in Configs, cs = calls', Setting(cs, B, C, r),
         StartCompute(r, c)
  PROVE  Moves(cs, B, C, r)
<1>1. TypeOK /\ r \in Ranks /\ cs \in Seq(Calls) /\ History(cs, B, C)
  BY DEF Setting
<1>2. PICK op \in Ops :
        /\ Computes(r, op)
        /\ Begin(r, op, c)
        /\ pc' = [pc EXCEPT ![r] = "wait"]
        /\ step' = [step EXCEPT ![r] = 1]
        /\ Post(r, "agree", Matches(r, c))
        /\ UNCHANGED <<computed, serialized, got>>
  BY DEF StartCompute
<1> DEFINE k == pos[r] + 1
           b == B[k - 1]
           w == Wanted(cs, b, k, 1, r)
<1>3. Begins(cs, r, op, c)
  BY <1>1, <1>2, BeginGives
<1>4. /\ k \in 1 .. Len(cs) /\ Len(posted[r]) = C[k - 1] /\ Len(got[r]) = k - 1
      /\ cs[k] = [op |-> op, conf |-> c] /\ pos' = [pos EXCEPT ![r] = k]
      /\ computed[r] = Mem(cs, r, b)
      /\ serialized[r] = None \/ (computed[r] # None /\ serialized[r] = computed[r].global)
  BY <1>3, AtIdle DEF Begins
<1>5. b \in 0 .. Len(cs) /\ C[k - 1] \in Nat /\ C[k] = C[k - 1] + Issues(cs, b, k)
  BY <1>1, <1>4, HistoryAt
<1>6. Asks(cs, b, k)
  <2>1. computed[r] = None <=> b = 0
    BY <1>1, <1>4, <1>5, MemType
  <2> QED
    BY <1>2, <1>4, <2>1 DEF Asks, Computes
<1>7. C[k - 1] + 1 <= C[k] /\ Len(posted[r]) = C[k - 1] + 1 - 1
  BY <1>4, <1>5, <1>6 DEF Issues
<1>8. w = [op |-> "agree", data |-> Matches(r, c)]
  BY <1>4, ProtocolSteps DEF Wanted, Matches
<1>9. posted' = [posted EXCEPT ![r] = Append(@, w)]
  BY <1>2, <1>8 DEF Post
<1>10. /\ posted'[r] = Append(posted[r], w) /\ pc'[r] = "wait" /\ step'[r] = 1 /\ pos'[r] = k
       /\ computed'[r] = computed[r] /\ serialized'[r] = serialized[r] /\ got'[r] = got[r]
  BY <1>1, <1>2, <1>4, <1>9 DEF TypeOK
<1>11. Only(r)
  BY <1>1, <1>2, <1>4, <1>9, <1>10 DEF Only, TypeOK
<1> HIDE DEF k
<1>12. /\ computed'[r] = Mem(cs, r, b) /\ computed'[r] \in {computed[r], None}
       /\ serialized'[r] = None \/ (computed'[r] # None /\ serialized'[r] = serialized[r]
                                      /\ serialized[r] = computed'[r].global)
  BY <1>4, <1>10
<1>13. 1 \in 1 .. 5
  OBVIOUS
<1> QED
  BY <1>4, <1>6, <1>7, <1>10, <1>11, <1>12, <1>13, Waits

(* A rank whose resharder raises stops before its first collective.        *)
LEMMA ExtractFailsMoves ==
  ASSUME NEW cs, NEW B, NEW C, NEW r, NEW c \in Configs, cs = calls', Setting(cs, B, C, r),
         ExtractFails(r, c)
  PROVE  Moves(cs, B, C, r)
<1>1. /\ TypeOK /\ r \in Ranks /\ cs \in Seq(Calls) /\ History(cs, B, C)
      /\ RankType(r) /\ Posts(cs, B, C, r, posted[r]) /\ Gets(cs, B, r, got[r])
  BY SettingType DEF Setting
<1>2. PICK op \in Ops :
        /\ Computes(r, op)
        /\ Begin(r, op, c)
        /\ pc' = [pc EXCEPT ![r] = "stopped"]
        /\ UNCHANGED <<step, posted, computed, serialized, got>>
  BY DEF ExtractFails
<1> DEFINE k == pos[r] + 1
<1>3. Begins(cs, r, op, c)
  BY <1>1, <1>2, BeginGives
<1>4. /\ k \in 1 .. Len(cs) /\ k \in 1 .. MaxCalls
      /\ Len(posted[r]) = C[k - 1] /\ Len(got[r]) = k - 1
      /\ cs[k] = [op |-> op, conf |-> c] /\ pos' = [pos EXCEPT ![r] = k]
      /\ computed[r] = Mem(cs, r, B[k - 1])
      /\ serialized[r] = None \/ (computed[r] # None /\ serialized[r] = computed[r].global)
  BY <1>3, AtIdle DEF Begins
<1>5. Asks(cs, B[k - 1], k)
  <2>1. computed[r] = None <=> B[k - 1] = 0
    BY <1>1, <1>4, HistoryAt, MemType
  <2> QED
    BY <1>2, <1>4, <2>1 DEF Asks, Computes
<1>6. /\ posted'[r] = posted[r] /\ pc'[r] = "stopped" /\ step'[r] = step[r] /\ pos'[r] = k
      /\ computed'[r] = computed[r] /\ serialized'[r] = serialized[r] /\ got'[r] = got[r]
  BY <1>1, <1>2, <1>4 DEF TypeOK
<1>7. Only(r)
  BY <1>1, <1>2, <1>4, <1>6 DEF Only, TypeOK
<1> HIDE DEF k
<1>8. k \in 0 .. Len(cs) /\ k \in 0 .. MaxCalls /\ k # 0
  BY <1>4
<1>9. RankType(r)'
  BY <1>1, <1>6, <1>8 DEF RankType
<1>10. PlaceInv(cs, B, C, r)'
  BY <1>4, <1>5, <1>6, <1>8 DEF PlaceInv
<1>11. Posts(cs, B, C, r, posted[r])' /\ Gets(cs, B, r, got[r])'
  BY <1>1, <1>6 DEF Posts, Gets
<1> QED
  BY <1>7, <1>9, <1>10, <1>11 DEF Moves, RankInv

-----------------------------------------------------------------------------
(* What a rank finds in a collective that is complete: what every rank     *)
(* wants to issue at this step of this call, although each came there on   *)
(* its own.                                                                *)
LEMMA Met ==
  ASSUME NEW B, NEW C, NEW r, Setting(calls, B, C, r), NEW op, Complete(r, op)
  PROVE  /\ pc[r] = "wait" /\ Protocol[step[r]] = op
         /\ Last(r) = C[pos[r] - 1] + step[r]
         /\ \A q \in Ranks : \A i \in 1 .. step[r] :
              posted[q][C[pos[r] - 1] + i] = Wanted(calls, B[pos[r] - 1], pos[r], i, q)
<1> DEFINE k == pos[r]
<1>1. /\ TypeOK /\ r \in Ranks /\ calls \in Seq(Calls) /\ History(calls, B, C)
      /\ \A q \in Ranks : RankInv(calls, B, C, q)
  BY DEF Setting
<1>2. pc[r] = "wait" /\ Protocol[step[r]] = op /\ \A q \in Ranks : Len(posted[q]) >= Last(r)
  BY DEF Complete
<1>3. /\ k \in 1 .. Len(calls) /\ step[r] \in 1 .. 5 /\ Last(r) = C[k - 1] + step[r]
      /\ C[k - 1] + step[r] <= C[k]
  BY <1>2, AtWait DEF Last
<1>4. C[k - 1] \in Nat /\ C[k] \in Nat
  BY <1>1, <1>3, HistoryAt
<1>5. ASSUME NEW q \in Ranks, NEW i \in 1 .. step[r]
      PROVE  posted[q][C[k - 1] + i] = Wanted(calls, B[k - 1], k, i, q)
  <2>1. /\ Posts(calls, B, C, q, posted[q])
        /\ Len(posted[q]) \in Nat /\ Len(posted[q]) >= C[k - 1] + step[r]
    BY <1>1, <1>2, <1>3 DEF RankInv, TypeOK
  <2> HIDE DEF k
  <2> DEFINE from == C[k - 1]
             to == C[k]
             at == step[r]
             len == Len(posted[q])
  <2>2. /\ from \in Nat /\ to \in Nat /\ len \in Nat /\ at \in 1 .. 5 /\ i \in 1 .. at
        /\ from + at <= to /\ len >= from + at
    BY <1>3, <1>4, <2>1
  <2>3. i \in 1 .. 5 /\ from + i <= to /\ from + i <= len
    <3> HIDE DEF from, to, at, len
    <3> QED
      BY <2>2
  <2> QED
    BY <1>3, <2>1, <2>3 DEF Posts
<1> QED
  BY <1>2, <1>3, <1>5

(* The flags agree exactly if the cache is of this configuration.          *)
LEMMA AgreeIsSame ==
  ASSUME NEW B, NEW C, NEW r, Setting(calls, B, C, r), Complete(r, "agree")
  PROVE  step[r] = 1 /\ (Agree(r) <=> Same(calls, B[pos[r] - 1], pos[r]))
<1> DEFINE k == pos[r]
           w(q) == Wanted(calls, B[k - 1], k, 1, q)
<1>1. calls \in Seq(Calls) /\ History(calls, B, C)
  BY DEF Setting
<1>2. k \in 1 .. Len(calls) /\ step[r] \in 1 .. 5
  BY AtWait DEF Complete
<1>3. step[r] = 1
  BY <1>2, ProtocolSteps DEF Complete
<1>4. Last(r) - 0 = C[k - 1] + 1
  <2>1. Last(r) = C[k - 1] + 1 /\ C[k - 1] \in Nat
    BY <1>1, <1>2, <1>3, Met, HistoryAt
  <2> QED
    BY <2>1
<1>5. \A q \in Ranks : posted[q][C[k - 1] + 1] = w(q)
  BY <1>3, Met
<1>6. \A q \in Ranks : Received(r, 0)[q] = w(q).data
  BY <1>4, <1>5 DEF Received
<1>7. \A q \in Ranks :
        w(q).data =
          CacheMatches(Mem(calls, q, B[k - 1]), calls[k].conf.local[q], calls[k].conf.layout[q])
  BY DEF Wanted
<1>8. B[k - 1] \in 0 .. Len(calls)
  BY <1>1, <1>2, HistoryAt
<1>9. (\A q \in Ranks :
         CacheMatches(Mem(calls, q, B[k - 1]), calls[k].conf.local[q], calls[k].conf.layout[q]))
        <=> Same(calls, B[k - 1], k)
  BY <1>1, <1>2, <1>8, SameConf
<1> HIDE DEF k, w
<1>10. Agree(r) <=> Same(calls, B[k - 1], k)
  BY <1>6, <1>7, <1>9 DEF Agree
<1> QED
  BY <1>3, <1>10 DEF k

(* A compute, or a save that has computed, ends with the metadata of a     *)
(* call of this configuration.                                             *)
LEMMA EndComputeMoves ==
  ASSUME NEW cs, cs = calls, NEW B, NEW C, NEW r, NEW k, NEW b, Setting(cs, B, C, r),
         pc[r] = "wait", k = pos[r],
         b \in 1 .. Len(cs), B[k] = b, C[k] = C[k - 1] + step[r], cs[b].conf = cs[k].conf,
         computed' = [computed EXCEPT ![r] = Mem(cs, r, b)],
         serialized[r] = None \/ serialized[r] = Reference(cs[b].conf),
         EndCompute(r)
  PROVE  Moves(cs, B, C, r)
<1> DEFINE g == Reference(cs[b].conf)
           e == [status |-> "ok", global |-> g]
<1>1. TypeOK /\ r \in Ranks /\ cs \in Seq(Calls) /\ History(cs, B, C)
  BY DEF Setting
<1>2. /\ k \in 1 .. Len(cs) /\ Len(got[r]) = k - 1 /\ step[r] \in 1 .. 5
      /\ Len(posted[r]) = C[k]
  BY AtWait
<1>3. b # 0 /\ b \in 0 .. Len(cs)
  BY <1>1
<1>4. computed'[r] = Mem(cs, r, b) /\ Mem(cs, r, b).global = g /\ g \in Globals
  BY <1>1, <1>3, MemType DEF TypeOK
<1>5. pc' = [pc EXCEPT ![r] = "idle"] /\ UNCHANGED <<calls, pos, step, posted>>
  BY DEF EndCompute
<1>6. /\ got' = [got EXCEPT ![r] = Append(@, e)] /\ got'[r] = Append(got[r], e)
      /\ serialized' = [serialized EXCEPT ![r] = serialized'[r]]
      /\ serialized'[r] = None \/ serialized'[r] = computed'[r].global
  <2>1. CASE calls[pos[r]].op = "compute"
    <3>1. Return(r, "ok", computed'[r].global) /\ UNCHANGED serialized
      BY <2>1 DEF EndCompute
    <3> QED
      BY <1>1, <1>4, <3>1 DEF Return, TypeOK
  <2>2. CASE calls[pos[r]].op # "compute"
    <3>1. Serialize(r)
      BY <2>2 DEF EndCompute
    <3>2. /\ serialized' = [serialized EXCEPT ![r] = g] /\ serialized'[r] = g
          /\ serialized'[r] = computed'[r].global
          /\ got' = [got EXCEPT ![r] = Append(@, e)] /\ got'[r] = Append(got[r], e)
      BY <1>1, <1>3, <1>4, <3>1, SerializeGives
    <3> QED
      BY <3>2
  <2> QED
    BY <2>1, <2>2
<1>7. pos'[r] = k /\ pc'[r] = "idle" /\ step'[r] = step[r] /\ posted'[r] = posted[r]
  BY <1>1, <1>5 DEF TypeOK
<1>8. Only(r)
  BY <1>1, <1>4, <1>5, <1>6, <1>7 DEF Only, TypeOK
<1>9. e \in Results
  BY <1>4 DEF Results
<1>10. CacheMatches(Mem(cs, r, b), cs[k].conf.local[r], cs[k].conf.layout[r])
  BY <1>1, <1>2, <1>3, SameConf DEF Same
<1>11. Result(cs, B[k], k, r, e)
  BY <1>3, <1>10 DEF Result
<1> HIDE DEF g, e
<1> QED
  BY <1>2, <1>3, <1>4, <1>6, <1>7, <1>8, <1>9, <1>11, Ends

(* The ranks agree to keep what is cached,                                 *)
LEMMA KeepMoves ==
  ASSUME NEW cs, cs = calls, NEW B, NEW C, NEW r, Setting(cs, B, C, r), Keep(r)
  PROVE  Moves(cs, B, C, r)
<1> DEFINE k == pos[r]
           b == B[k - 1]
<1>1. TypeOK /\ r \in Ranks /\ cs \in Seq(Calls) /\ History(cs, B, C)
  BY DEF Setting
<1>2. Complete(r, "agree") /\ Agree(r) /\ UNCHANGED computed /\ EndCompute(r) /\ pc[r] = "wait"
  BY DEF Keep, Complete
<1>3. step[r] = 1 /\ Same(cs, b, k)
  BY <1>2, AgreeIsSame
<1>4. /\ k \in 1 .. Len(cs) /\ Asks(cs, b, k) /\ computed[r] = Mem(cs, r, b)
      /\ serialized[r] = None \/ (computed[r] # None /\ serialized[r] = computed[r].global)
  BY <1>2, <1>3, AtWait
<1>5. /\ b \in 0 .. Len(cs) /\ b # 0 /\ cs[b].conf = cs[k].conf
      /\ B[k] = After(cs, b, k) /\ C[k] = C[k - 1] + Issues(cs, b, k)
  BY <1>1, <1>3, <1>4, HistoryAt DEF Same
<1>6. B[k] = b /\ C[k] = C[k - 1] + step[r]
  BY <1>3, <1>4, <1>5 DEF After, Issues, Asks
<1>7. computed' = [computed EXCEPT ![r] = Mem(cs, r, b)]
  BY <1>1, <1>2, <1>4 DEF TypeOK
<1>8. serialized[r] = None \/ serialized[r] = Reference(cs[b].conf)
  BY <1>1, <1>4, <1>5, MemType
<1>9. b \in 1 .. Len(cs)
  BY <1>1, <1>5
<1> HIDE DEF b
<1> QED
  BY <1>2, <1>5, <1>6, <1>7, <1>8, <1>9, EndComputeMoves

(* or go on to step i of the protocol:                                     *)
LEMMA GoesOn ==
  ASSUME NEW cs, cs = calls, NEW B, NEW C, NEW r, NEW k, NEW i \in 2 .. 5,
         Setting(cs, B, C, r), pc[r] = "wait", k = pos[r],
         step[r] = i - 1, ~Same(cs, B[k - 1], k),
         step' = [step EXCEPT ![r] = i],
         posted' = [posted EXCEPT ![r] = Append(@, Wanted(cs, B[k - 1], k, i, r))],
         UNCHANGED <<pos, pc, got>>,
         computed' = [computed EXCEPT ![r] = None], serialized' = [serialized EXCEPT ![r] = None]
  PROVE  Moves(cs, B, C, r)
<1> DEFINE w == Wanted(cs, B[k - 1], k, i, r)
<1>1. TypeOK /\ r \in Ranks /\ cs \in Seq(Calls) /\ History(cs, B, C)
  BY DEF Setting
<1>2. /\ k \in 1 .. Len(cs) /\ Asks(cs, B[k - 1], k) /\ Len(got[r]) = k - 1
      /\ Len(posted[r]) = C[k - 1] + step[r]
  BY AtWait
<1>3. C[k - 1] \in Nat /\ C[k] = C[k - 1] + 5
  BY <1>1, <1>2, HistoryAt DEF Issues
<1>4. Len(posted[r]) = C[k - 1] + i - 1 /\ C[k - 1] + i <= C[k] /\ i \in 1 .. 5 /\ i # 1
  BY <1>2, <1>3
<1>5. /\ posted'[r] = Append(posted[r], w) /\ step'[r] = i /\ pos'[r] = k /\ pc'[r] = "wait"
      /\ got'[r] = got[r] /\ computed'[r] = None /\ serialized'[r] = None
  BY <1>1 DEF TypeOK
<1>6. Only(r)
  BY <1>1, <1>5 DEF Only, TypeOK
<1> QED
  BY <1>2, <1>4, <1>5, <1>6, Waits

(* to the first gather, having forgotten what was cached;                  *)
LEMMA RecomputeMoves ==
  ASSUME NEW cs, cs = calls, NEW B, NEW C, NEW r, Setting(cs, B, C, r), Recompute(r)
  PROVE  Moves(cs, B, C, r)
<1> DEFINE k == pos[r]
<1>1. TypeOK /\ r \in Ranks
  BY DEF Setting
<1>2. Complete(r, "agree") /\ ~Agree(r) /\ pc[r] = "wait"
  BY DEF Recompute, Complete
<1>3. step[r] = 1 /\ ~Same(cs, B[k - 1], k)
  BY <1>2, AgreeIsSame
<1>4. Wanted(cs, B[k - 1], k, 2, r) = [op |-> "size", data |-> 0]
  BY ProtocolSteps DEF Wanted
<1>5. /\ posted' = [posted EXCEPT ![r] = Append(@, Wanted(cs, B[k - 1], k, 2, r))]
      /\ step' = [step EXCEPT ![r] = 2] /\ UNCHANGED <<pos, pc, got>>
      /\ computed' = [computed EXCEPT ![r] = None] /\ serialized' = [serialized EXCEPT ![r] = None]
  <2>1. step' = [step EXCEPT ![r] = 2]
    <3>1. step' = [step EXCEPT ![r] = step[r] + 1]
      BY <1>1 DEF Recompute, TypeOK
    <3>2. step[r] + 1 = 2
      BY <1>3
    <3> QED
      BY <3>1, <3>2
  <2> QED
    BY <1>4, <2>1 DEF Recompute, Post, Forget
<1>6. 2 \in 2 .. 5 /\ step[r] = 2 - 1
  BY <1>3
<1> QED
  BY <1>2, <1>3, <1>5, <1>6, GoesOn

(* past the first step there is nothing cached;                            *)
LEMMA Forgotten ==
  ASSUME NEW B, NEW C, NEW r, Setting(calls, B, C, r), pc[r] = "wait", step[r] # 1
  PROVE  /\ ~Same(calls, B[pos[r] - 1], pos[r]) /\ computed[r] = None /\ serialized[r] = None
         /\ computed = [computed EXCEPT ![r] = None] /\ serialized = [serialized EXCEPT ![r] = None]
<1>1. TypeOK /\ r \in Ranks
  BY DEF Setting
<1>2. ~Same(calls, B[pos[r] - 1], pos[r]) /\ computed[r] = None /\ serialized[r] = None
  BY AtWait
<1> QED
  BY <1>1, <1>2 DEF TypeOK

(* to a gather from its sizes;                                             *)
LEMMA SizedMoves ==
  ASSUME NEW cs, cs = calls, NEW B, NEW C, NEW r, Setting(cs, B, C, r), Sized(r)
  PROVE  Moves(cs, B, C, r)
<1> DEFINE k == pos[r]
           i == step[r] + 1
<1>1. TypeOK /\ r \in Ranks
  BY DEF Setting
<1>2. Complete(r, "size") /\ pc[r] = "wait" /\ step[r] \in 1 .. 5
  BY <1>1, ProtocolSteps DEF Sized, Complete, TypeOK
<1>3. step[r] \in {2, 4}
  BY <1>2, ProtocolSteps DEF Complete
<1>4. i \in {3, 5} /\ i \in 2 .. 5 /\ step[r] = i - 1
  BY <1>3
<1>5. CASE i = 3
  <2>1. Wanted(cs, B[k - 1], k, 3, r) = [op |-> "metadata", data |-> Compact(r, Conf(r).local[r])]
    BY ProtocolSteps DEF Wanted, Conf
  <2>2. /\ posted' = [posted EXCEPT ![r] = Append(@, Wanted(cs, B[k - 1], k, 3, r))]
        /\ step' = [step EXCEPT ![r] = 3] /\ UNCHANGED <<pos, pc, got, computed, serialized>>
    BY <1>5, <2>1, ProtocolSteps DEF Sized, Post
  <2>3. 3 \in 2 .. 5 /\ step[r] = 3 - 1 /\ step[r] # 1
    BY <1>4, <1>5
  <2> QED
    BY <1>2, <2>2, <2>3, Forgotten, GoesOn
<1>6. CASE i = 5
  <2>1. Wanted(cs, B[k - 1], k, 5, r) = [op |-> "layout", data |-> Conf(r).layout[r]]
    BY ProtocolSteps DEF Wanted, Conf
  <2>2. /\ posted' = [posted EXCEPT ![r] = Append(@, Wanted(cs, B[k - 1], k, 5, r))]
        /\ step' = [step EXCEPT ![r] = 5] /\ UNCHANGED <<pos, pc, got, computed, serialized>>
    BY <1>6, <2>1, ProtocolSteps DEF Sized, Post
  <2>3. 5 \in 2 .. 5 /\ step[r] = 5 - 1 /\ step[r] # 1
    BY <1>4, <1>6
  <2> QED
    BY <1>2, <2>2, <2>3, Forgotten, GoesOn
<1> QED
  BY <1>4, <1>5, <1>6

(* to the second gather;                                                   *)
LEMMA GatheredMoves ==
  ASSUME NEW cs, cs = calls, NEW B, NEW C, NEW r, Setting(cs, B, C, r), Gathered(r)
  PROVE  Moves(cs, B, C, r)
<1> DEFINE k == pos[r]
<1>1. TypeOK /\ r \in Ranks
  BY DEF Setting
<1>2. Complete(r, "metadata") /\ pc[r] = "wait" /\ step[r] \in 1 .. 5
  BY <1>1, ProtocolSteps DEF Gathered, Complete, TypeOK
<1>3. step[r] = 3
  BY <1>2, ProtocolSteps DEF Complete
<1>4. Wanted(cs, B[k - 1], k, 4, r) = [op |-> "size", data |-> 0]
  BY ProtocolSteps DEF Wanted
<1>5. /\ posted' = [posted EXCEPT ![r] = Append(@, Wanted(cs, B[k - 1], k, 4, r))]
      /\ step' = [step EXCEPT ![r] = 4] /\ UNCHANGED <<pos, pc, got, computed, serialized>>
  <2>1. step' = [step EXCEPT ![r] = 4]
    <3>1. step' = [step EXCEPT ![r] = step[r] + 1]
      BY <1>1 DEF Gathered, TypeOK
    <3>2. step[r] + 1 = 4
      BY <1>3
    <3> QED
      BY <3>1, <3>2
  <2> QED
    BY <1>4, <2>1 DEF Gathered, Post
<1>6. 4 \in 2 .. 5 /\ step[r] = 4 - 1 /\ step[r] # 1
  BY <1>3
<1> QED
  BY <1>2, <1>5, <1>6, Forgotten, GoesOn

(* and at the end every rank has the same metadata, or raises and has      *)
(* none.                                                                   *)
LEMMA AggregatedMoves ==
  ASSUME NEW cs, cs = calls, NEW B, NEW C, NEW r, Setting(cs, B, C, r), Aggregated(r)
  PROVE  Moves(cs, B, C, r)
<1> DEFINE k == pos[r]
           c == cs[k].conf
           global == Aggregate(Received(r, 2), Received(r, 0))
           bad == [status |-> "error", global |-> None]
<1>1. TypeOK /\ r \in Ranks /\ cs \in Seq(Calls) /\ History(cs, B, C)
  BY DEF Setting
<1>2. Complete(r, "layout") /\ pc[r] = "wait" /\ step[r] \in 1 .. 5
  BY <1>1, ProtocolSteps DEF Aggregated, Complete, TypeOK
<1>3. step[r] = 5
  BY <1>2, ProtocolSteps DEF Complete
<1>4. /\ k \in 1 .. Len(cs) /\ Asks(cs, B[k - 1], k) /\ Len(got[r]) = k - 1
      /\ Len(posted[r]) = C[k - 1] + 5
  BY <1>2, <1>3, AtWait
<1>5. ~Same(cs, B[k - 1], k) /\ computed[r] = None /\ serialized[r] = None
  BY <1>2, <1>3, Forgotten
<1>6. /\ B[k] = After(cs, B[k - 1], k) /\ C[k] = C[k - 1] + Issues(cs, B[k - 1], k)
      /\ C[k - 1] \in Nat /\ c \in Configs
  <2>1. k \in 1 .. Len(cs)
    BY <1>4
  <2> HIDE DEF k
  <2>2. /\ B[k] = After(cs, B[k - 1], k) /\ C[k] = C[k - 1] + Issues(cs, B[k - 1], k)
        /\ C[k - 1] \in Nat /\ cs[k].conf \in Configs
    BY <1>1, <2>1, HistoryAt
  <2> QED
    BY <2>2
<1>7. B[k] = (IF Valid(Reference(c)) THEN k ELSE 0) /\ C[k] = C[k - 1] + 5
  BY <1>4, <1>5, <1>6 DEF After, Issues, Asks
<1>8. global = Reference(c)
  <2>1. Last(r) - 0 = C[k - 1] + 5 /\ Last(r) - 2 = C[k - 1] + 3
    <3>1. Last(r) = C[k - 1] + 5
      BY <1>2, <1>3, Met
    <3> QED
      BY <1>6, <3>1
  <2>2. \A q \in Ranks : /\ posted[q][C[k - 1] + 3] = Wanted(cs, B[k - 1], k, 3, q)
                         /\ posted[q][C[k - 1] + 5] = Wanted(cs, B[k - 1], k, 5, q)
    BY <1>2, <1>3, Met
  <2>3. \A q \in Ranks : /\ Wanted(cs, B[k - 1], k, 3, q).data = Compact(q, c.local[q])
                         /\ Wanted(cs, B[k - 1], k, 5, q).data = c.layout[q]
    BY DEF Wanted
  <2> HIDE DEF c, k
  <2>4. Received(r, 2) = [q \in Ranks |-> Compact(q, c.local[q])]
    BY <2>1, <2>2, <2>3 DEF Received
  <2>5. Received(r, 0) = c.layout
    <3>1. Received(r, 0) = [q \in Ranks |-> c.layout[q]]
      BY <2>1, <2>2, <2>3 DEF Received
    <3> QED
      BY <1>6, <3>1, ConfType
  <2> QED
    BY <1>6, <2>4, <2>5, AggregateRight
<1>9. CASE Valid(Reference(c))
  <2>1. /\ computed' = [computed EXCEPT ![r] =
              [local |-> c.local[r], layout |-> c.layout[r], global |-> Reference(c)]]
        /\ EndCompute(r)
    <3> HIDE DEF global
    <3> QED
      BY <1>8, <1>9 DEF Aggregated, Conf, global
  <2>2. computed' = [computed EXCEPT ![r] = Mem(cs, r, k)]
    <3>1. k # 0
      BY <1>4
    <3>2. Mem(cs, r, k) =
            [local |-> c.local[r], layout |-> c.layout[r], global |-> Reference(c)]
      BY <3>1 DEF Mem
    <3> HIDE DEF c, k
    <3> QED
      BY <2>1, <3>2
  <2>3. B[k] = k /\ C[k] = C[k - 1] + step[r]
    BY <1>3, <1>7, <1>9
  <2> QED
    BY <1>2, <1>4, <1>5, <2>1, <2>2, <2>3, EndComputeMoves
<1>10. CASE ~Valid(Reference(c))
  <2>1. /\ pc' = [pc EXCEPT ![r] = "idle"] /\ got' = [got EXCEPT ![r] = Append(@, bad)]
        /\ UNCHANGED <<calls, pos, step, posted, computed, serialized>>
    <3> HIDE DEF global
    <3> QED
      BY <1>8, <1>10 DEF Aggregated, Return, global
  <2>2. /\ pos'[r] = k /\ pc'[r] = "idle" /\ step'[r] = step[r] /\ posted'[r] = posted[r]
        /\ got'[r] = Append(got[r], bad) /\ computed'[r] = None /\ serialized'[r] = None
    BY <1>1, <1>5, <2>1 DEF TypeOK
  <2>3. Only(r)
    BY <1>1, <2>1, <2>2 DEF Only, TypeOK
  <2>4. B[k] = 0 /\ Len(posted[r]) = C[k]
    BY <1>4, <1>7, <1>10
  <2>5. bad \in Results /\ Result(cs, B[k], k, r, bad) /\ computed'[r] = Mem(cs, r, B[k])
    BY <2>2, <2>4 DEF Results, Result, Mem
  <2> HIDE DEF k, bad
  <2> QED
    BY <1>4, <2>2, <2>3, <2>4, <2>5, Ends
<1> QED
  BY <1>9, <1>10

-----------------------------------------------------------------------------
(* The inductive invariant: the program has a history, which no rank keeps *)
(* and which every rank follows, and every rank is in its place of it.     *)
(*  The properties are about pairs of ranks, or about what one call leaves *)
(* to a later one; the history is what they share.                         *)
IInv ==
  /\ TypeOK
  /\ \E cs, B, C : /\ cs = calls /\ History(cs, B, C)
                   /\ \A r \in Ranks : RankInv(cs, B, C, r)

(* It holds at the start: no call, no history.                             *)
LEMMA InitIInv == Init => IInv
<1> SUFFICES ASSUME Init PROVE IInv
  OBVIOUS
<1> DEFINE Z == [k \in 0 .. 0 |-> 0]
<1>1. TypeOK
  <2>1. /\ calls = <<>> /\ pos = [r \in Ranks |-> 0] /\ pc = [r \in Ranks |-> "idle"]
        /\ step = [r \in Ranks |-> 1] /\ posted = [r \in Ranks |-> <<>>]
        /\ computed = [r \in Ranks |-> None] /\ serialized = [r \in Ranks |-> None]
        /\ got = [r \in Ranks |-> <<>>]
    BY DEF Init, NoComputed
  <2>2. calls \in Seq(Calls) /\ Len(calls) = 0 /\ MaxCalls \in Nat /\ 0 \in 0 .. MaxCalls
    BY <2>1, MetadataAssumption
  <2>3. 1 \in DOMAIN Protocol
    BY ProtocolSteps
  <2> QED
    BY <2>1, <2>2, <2>3 DEF TypeOK
<1>2. PICK cs : cs = calls
  OBVIOUS
<1>3. cs = <<>> /\ Len(cs) = 0
  BY <1>2 DEF Init
<1>4. Z \in [0 .. Len(cs) -> Nat] /\ Z[0] = 0 /\ \A k \in 0 .. Len(cs) : k = 0 /\ Z[k] = 0
  BY <1>3
<1> HIDE DEF Z
<1>5. History(cs, Z, Z)
  BY <1>3, <1>4 DEF History
<1>6. ASSUME NEW r \in Ranks
      PROVE  RankInv(cs, Z, Z, r)
  <2>1. /\ pos[r] = 0 /\ pc[r] = "idle" /\ posted[r] = <<>> /\ Len(posted[r]) = 0
        /\ computed[r] = None /\ serialized[r] = None /\ got[r] = <<>>
        /\ Len(got[r]) = 0 /\ DOMAIN got[r] = {}
    BY DEF Init, NoComputed
  <2>2. PlaceInv(cs, Z, Z, r)
    BY <1>3, <1>4, <2>1 DEF PlaceInv, Mem
  <2>3. Posts(cs, Z, Z, r, posted[r]) /\ Gets(cs, Z, r, got[r])
    BY <1>3, <2>1 DEF Posts, Gets
  <2> QED
    BY <2>2, <2>3 DEF RankInv
<1> QED
  BY <1>1, <1>2, <1>5, <1>6 DEF IInv

(* A step that leaves r in its place of the program leaves every rank so.  *)
LEMMA StepPlaces ==
  ASSUME NEW cs, NEW B, NEW C, NEW r \in Ranks, cs = calls', Setting(cs, B, C, r),
         Moves(cs, B, C, r)
  PROVE  IInv'
<1>1. /\ TypeOK /\ cs \in Seq(Calls) /\ Len(cs) <= MaxCalls /\ History(cs, B, C)
      /\ \A q \in Ranks : RankInv(cs, B, C, q)
  BY DEF Setting
<1>2. Only(r) /\ RankType(r)' /\ RankInv(cs, B, C, r)'
  BY DEF Moves
<1>3. TypeOK'
  BY <1>1, <1>2 DEF TypeOK, Only, RankType
<1>4. ASSUME NEW q \in Ranks
      PROVE  RankInv(cs, B, C, q)'
  <2>1. CASE q = r
    BY <1>2, <2>1
  <2>2. CASE q # r
    <3>1. /\ pos'[q] = pos[q] /\ pc'[q] = pc[q] /\ step'[q] = step[q] /\ posted'[q] = posted[q]
          /\ computed'[q] = computed[q] /\ serialized'[q] = serialized[q] /\ got'[q] = got[q]
      BY <1>1, <1>2, <2>2 DEF Only, TypeOK
    <3>2. RankInv(cs, B, C, q)
      BY <1>1
    <3> QED
      BY <3>1, <3>2 DEF RankInv, PlaceInv
  <2> QED
    BY <2>1, <2>2
<1> QED
  BY <1>1, <1>3, <1>4 DEF IInv

(* The program of the next state is the same, or longer by one call.       *)
LEMMA CallsGrow ==
  ASSUME TypeOK, NEW r \in Ranks, NEW op \in Ops, NEW c \in Configs, Begin(r, op, c)
  PROVE  \/ UNCHANGED calls
         \/ /\ [op |-> op, conf |-> c] \in Calls /\ calls' = Append(calls, [op |-> op, conf |-> c])
            /\ Len(calls) < MaxCalls
  BY DEF Begin, Calls

(* As r begins a call, every rank is in its place of the program of the    *)
(* next state.                                                             *)
LEMMA StartsSetting ==
  ASSUME IInv, NEW r \in Ranks, NEW op \in Ops, NEW c \in Configs, Begin(r, op, c)
  PROVE  \E cs, B, C : cs = calls' /\ Setting(cs, B, C, r)
<1>1. TypeOK
  BY DEF IInv
<1>2. PICK cs, B, C : cs = calls /\ History(cs, B, C) /\ \A q \in Ranks : RankInv(cs, B, C, q)
  BY DEF IInv
<1>3. cs \in Seq(Calls) /\ Len(cs) \in Nat /\ Len(cs) <= MaxCalls /\ MaxCalls \in Nat
  BY <1>1, <1>2, MetadataAssumption DEF TypeOK
<1>4. CASE UNCHANGED calls
  <2>1. cs = calls'
    BY <1>2, <1>4
  <2> QED
    BY <1>1, <1>2, <1>3, <2>1 DEF Setting
<1>5. CASE /\ [op |-> op, conf |-> c] \in Calls /\ calls' = Append(calls, [op |-> op, conf |-> c])
           /\ Len(calls) < MaxCalls
  <2> DEFINE x == [op |-> op, conf |-> c]
  <2>1. PICK cs2 : cs2 = Append(cs, x)
    OBVIOUS
  <2>2. x \in Calls /\ calls' = cs2 /\ Len(cs) < MaxCalls
    BY <1>2, <1>5, <2>1
  <2> HIDE DEF x
  <2>3. cs2 \in Seq(Calls) /\ Len(cs2) = Len(cs) + 1 /\ Len(cs2) \in Nat /\ Len(cs2) <= MaxCalls
    BY <1>3, <2>1, <2>2, Appended
  <2>4. PICK B2, C2 : History(cs2, B2, C2) /\ Longer(cs, B, C, cs2, B2, C2)
    BY <1>2, <1>3, <2>1, <2>2, HistoryGrows
  <2>5. \A q \in Ranks : RankInv(cs2, B2, C2, q)
    BY <1>1, <1>2, <1>3, <2>3, <2>4, RankCarries
  <2> QED
    BY <1>1, <2>2, <2>3, <2>4, <2>5 DEF Setting
<1> QED
  BY <1>1, <1>4, <1>5, CallsGrow

(* A rank that begins a call keeps the invariant,                          *)
LEMMA StartsKeep ==
  ASSUME IInv, NEW r \in Ranks, Starts(r)
  PROVE  IInv'
<1>1. PICK c \in Configs :
        Invalidate(r, c) \/ SaveCached(r, c) \/ StartCompute(r, c) \/ ExtractFails(r, c)
  BY DEF Starts
<1>2. \E op \in Ops : Begin(r, op, c)
  BY <1>1 DEF Invalidate, SaveCached, StartCompute, ExtractFails, Ops
<1>3. PICK cs, B, C : cs = calls' /\ Setting(cs, B, C, r)
  BY <1>2, StartsSetting
<1>4. Moves(cs, B, C, r)
  <2>1. CASE Invalidate(r, c)
    <3>1. Begin(r, "invalidate", c) /\ "invalidate" \in Ops /\ TypeOK
      BY <2>1 DEF Invalidate, Ops, IInv
    <3>2. Begins(cs, r, "invalidate", c)
      BY <1>3, <3>1, BeginGives
    <3> QED
      BY <1>3, <2>1, <3>2, InvalidateMoves
  <2>2. CASE SaveCached(r, c)
    BY <1>3, <2>2, SaveCachedMoves
  <2>3. CASE StartCompute(r, c)
    BY <1>3, <2>3, StartComputeMoves
  <2>4. CASE ExtractFails(r, c)
    BY <1>3, <2>4, ExtractFailsMoves
  <2> QED
    BY <1>1, <2>1, <2>2, <2>3, <2>4
<1> QED
  BY <1>3, <1>4, StepPlaces

(* and so does one that goes on from a collective,                         *)
LEMMA CollectivesKeep ==
  ASSUME IInv, NEW r \in Ranks, Collectives(r)
  PROVE  IInv'
<1>1. TypeOK
  BY DEF IInv
<1>2. PICK cs, B, C : cs = calls /\ History(cs, B, C) /\ \A q \in Ranks : RankInv(cs, B, C, q)
  BY DEF IInv
<1>3. Setting(cs, B, C, r)
  BY <1>1, <1>2 DEF Setting, TypeOK
<1>4. Moves(cs, B, C, r)
  BY <1>2, <1>3, KeepMoves, RecomputeMoves, SizedMoves, GatheredMoves, AggregatedMoves
     DEF Collectives
<1>5. UNCHANGED calls
  BY DEF Collectives, Keep, Recompute, Sized, Gathered, Aggregated, EndCompute
<1>6. cs = calls'
  BY <1>2, <1>5
<1> QED
  BY <1>3, <1>4, <1>6, StepPlaces

(* and a step that changes nothing.                                        *)
LEMMA StutterKeeps ==
  ASSUME IInv, UNCHANGED vars
  PROVE  IInv'
<1>1. /\ calls' = calls /\ pos' = pos /\ pc' = pc /\ step' = step /\ posted' = posted
      /\ computed' = computed /\ serialized' = serialized /\ got' = got
  BY DEF vars
<1>2. TypeOK'
  BY <1>1 DEF IInv, TypeOK
<1>3. PICK cs, B, C : cs = calls /\ History(cs, B, C) /\ \A q \in Ranks : RankInv(cs, B, C, q)
  BY DEF IInv
<1>4. ASSUME NEW q \in Ranks
      PROVE  RankInv(cs, B, C, q)'
  <2>1. RankInv(cs, B, C, q)
    BY <1>3
  <2> QED
    BY <1>1, <2>1 DEF RankInv, PlaceInv
<1>5. cs = calls'
  BY <1>1, <1>3
<1> QED
  BY <1>2, <1>3, <1>4, <1>5 DEF IInv

(* So it is an invariant.                                                  *)
LEMMA IInvHolds == Spec => []IInv
<1>1. Init => IInv
  BY InitIInv
<1>2. IInv /\ [Next]_vars => IInv'
  <2>1. SUFFICES ASSUME IInv, [Next]_vars PROVE IInv'
    OBVIOUS
  <2>2. CASE Next
    BY <2>1, <2>2, StartsKeep, CollectivesKeep DEF Next
  <2>3. CASE UNCHANGED vars
    BY <2>1, <2>3, StutterKeeps
  <2> QED
    BY <2>1, <2>2, <2>3
<1> QED
  BY <1>1, <1>2, PTL DEF Spec

-----------------------------------------------------------------------------
(* DefaultMetadataManager: what each rank has issued, cached, serialized   *)
(* and returned is of its type, for any number of ranks and any program.   *)
THEOREM MetadataTypeCorrect == Spec => []TypeOK
<1>1. IInv => TypeOK
  BY DEF IInv
<1> QED
  BY <1>1, IInvHolds, PTL

(* The nth collective is of the same step of the same call on every rank.  *)
LEMMA PlacesMatch == IInv => CollectivesMatch
<1> SUFFICES ASSUME IInv, NEW r \in Ranks, NEW q \in Ranks,
                    NEW n \in DOMAIN posted[r] \intersect DOMAIN posted[q]
             PROVE  posted[r][n].op = posted[q][n].op
  BY DEF CollectivesMatch
<1>1. PICK cs, B, C : cs = calls /\ History(cs, B, C) /\ \A s \in Ranks : RankInv(cs, B, C, s)
  BY DEF IInv
<1>2. TypeOK /\ cs \in Seq(Calls) /\ Len(cs) \in Nat
  BY <1>1 DEF IInv, TypeOK
<1>3. ASSUME NEW s \in Ranks, n \in DOMAIN posted[s]
      PROVE  n \in Nat /\ 1 <= n /\ n <= Len(posted[s]) /\ Len(posted[s]) <= C[Len(cs)]
  <2>1. posted[s] \in Seq(Entries)
    BY <1>2 DEF TypeOK
  <2>2. n \in Nat /\ 1 <= n /\ n <= Len(posted[s])
    BY <1>3, <2>1
  <2> QED
    BY <1>1, <1>2, <2>2, PostedSoFar
<1>4. n \in 1 .. C[Len(cs)]
  <2> DEFINE len == Len(posted[r])
             most == C[Len(cs)]
  <2>1. len \in Nat /\ most \in Nat
    BY <1>1, <1>2 DEF TypeOK, History
  <2>2. n \in Nat /\ 1 <= n /\ n <= len /\ len <= most
    BY <1>3
  <2>3. n \in 1 .. most
    <3> HIDE DEF len, most
    <3> QED
      BY <2>1, <2>2
  <2> QED
    BY <2>3
<1>5. PICK k \in 1 .. Len(cs) : C[k - 1] < n /\ n <= C[k]
  BY <1>1, <1>4 DEF History
<1>6. PICK i \in 1 .. 5 : C[k - 1] + i = n
  <2> DEFINE from == C[k - 1]
             to == C[k]
  <2>1. from \in Nat /\ to = from + Issues(cs, B[k - 1], k)
    BY <1>1, <1>2, HistoryAt
  <2>2. Issues(cs, B[k - 1], k) \in {0, 1, 5}
    BY DEF Issues
  <2>3. n - from \in 1 .. 5 /\ from + (n - from) = n
    <3>1. from < n /\ n <= to
      BY <1>5
    <3> HIDE DEF from, to
    <3> QED
      BY <1>4, <2>1, <2>2, <3>1
  <2> QED
    BY <2>3
<1>7. ASSUME NEW s \in Ranks, n \in DOMAIN posted[s]
      PROVE  posted[s][n].op = Protocol[i]
  <2>1. Posts(cs, B, C, s, posted[s]) /\ n <= Len(posted[s])
    BY <1>1, <1>3, <1>7 DEF RankInv
  <2>2. C[k - 1] + i <= C[k] /\ C[k - 1] + i <= Len(posted[s])
    BY <1>5, <1>6, <2>1
  <2>3. posted[s][C[k - 1] + i] = Wanted(cs, B[k - 1], k, i, s)
    BY <2>1, <2>2 DEF Posts
  <2>4. Wanted(cs, B[k - 1], k, i, s).op = Protocol[i]
    BY <1>2, WantedType
  <2>5. posted[s][n] = Wanted(cs, B[k - 1], k, i, s)
    BY <1>6, <2>3
  <2> QED
    BY <2>4, <2>5
<1> QED
  BY <1>7

(* compute_distributed_metadata: the collectives that meet are of the same *)
(* operation, so _all_ranks_agree makes the decision to recompute a common *)
(* one; for any number of ranks and any program.                           *)
THEOREM MetadataCollectivesMatch == Spec => []CollectivesMatch
  BY PlacesMatch, IInvHolds, PTL

(* What a compute returns is of a call of the same configuration.          *)
LEMMA PlacesCurrent == IInv => ComputeIsCurrent
<1> SUFFICES ASSUME IInv, NEW r \in Ranks, NEW k \in DOMAIN got[r],
                    calls[k].op = "compute", Returned(r, k, "ok")
             PROVE  got[r][k].global = Reference(calls[k].conf)
  BY DEF ComputeIsCurrent
<1>1. PICK cs, B, C : cs = calls /\ History(cs, B, C) /\ \A s \in Ranks : RankInv(cs, B, C, s)
  BY DEF IInv
<1>2. Result(cs, B[k], k, r, got[r][k])
  BY <1>1 DEF RankInv, Gets
<1>3. got[r][k].status = "ok"
  BY DEF Returned
<1> QED
  BY <1>1, <1>2, <1>3 DEF Result

(* compute_distributed_metadata: whether it kept the cache or recomputed,  *)
(* what it returns is exactly who holds what now.                          *)
THEOREM MetadataComputeIsCurrent == Spec => []ComputeIsCurrent
  BY PlacesCurrent, IInvHolds, PTL

(* Every rank's own part matches: the cache is of this configuration.      *)
LEMMA PlacesValidated == IInv => ValidatedIsCurrent
<1> SUFFICES ASSUME IInv, NEW k \in DOMAIN calls, calls[k].op = "validated",
                    \A r \in Ranks : Returned(r, k, "ok"), NEW r \in Ranks
             PROVE  got[r][k].global = Reference(calls[k].conf)
  BY DEF ValidatedIsCurrent
<1>1. PICK cs, B, C : cs = calls /\ History(cs, B, C) /\ \A s \in Ranks : RankInv(cs, B, C, s)
  BY DEF IInv
<1>2. cs \in Seq(Calls) /\ k \in 1 .. Len(cs)
  BY <1>1 DEF IInv, TypeOK
<1>3. ASSUME NEW s \in Ranks
      PROVE  /\ B[k] # 0 /\ got[s][k].global = Reference(cs[B[k]].conf)
             /\ CacheMatches(Mem(cs, s, B[k]), cs[k].conf.local[s], cs[k].conf.layout[s])
  <2>1. got[s] \in Seq(Results) /\ k <= Len(got[s]) /\ got[s][k].status = "ok"
    BY DEF IInv, TypeOK, Returned
  <2>2. k \in DOMAIN got[s]
    BY <1>2, <2>1
  <2>3. Result(cs, B[k], k, s, got[s][k])
    BY <1>1, <2>2 DEF RankInv, Gets
  <2> QED
    BY <1>1, <2>1, <2>3 DEF Result
<1>4. B[k] \in 0 .. Len(cs)
  BY <1>1, <1>2, HistoryAt
<1>5. cs[B[k]].conf = cs[k].conf
  BY <1>2, <1>3, <1>4, SameConf DEF Same
<1> QED
  BY <1>1, <1>3, <1>5

(* _get_serialized_metadata: a validated save that no rank refuses writes  *)
(* the metadata of what the ranks hold at this save.                       *)
THEOREM MetadataValidatedIsCurrent == Spec => []ValidatedIsCurrent
  BY PlacesValidated, IInvHolds, PTL

(* Nothing is cached after a failed compute until a later call computes.   *)
LEMMA PlacesForget == IInv => FailureForgets
<1> SUFFICES ASSUME IInv, NEW r \in Ranks, NEW j \in DOMAIN got[r], NEW k \in DOMAIN got[r],
                    j < k, calls[j].op = "compute", Returned(r, j, "error"), Returned(r, k, "ok")
             PROVE  \E i \in (j + 1) .. k : got[r][k].global = Reference(calls[i].conf)
  BY DEF FailureForgets
<1>1. PICK cs, B, C : cs = calls /\ History(cs, B, C) /\ \A s \in Ranks : RankInv(cs, B, C, s)
  BY DEF IInv
<1>2. cs \in Seq(Calls) /\ Len(cs) \in Nat /\ got[r] \in Seq(Results)
  BY <1>1 DEF IInv, TypeOK
<1>3. /\ j <= Len(cs) /\ Result(cs, B[j], j, r, got[r][j])
      /\ k <= Len(cs) /\ Result(cs, B[k], k, r, got[r][k])
  BY <1>1 DEF RankInv, Gets
<1>4. j \in 1 .. Len(cs) /\ k \in 1 .. Len(cs)
  BY <1>2, <1>3
<1>5. B[j] = 0
  BY <1>1, <1>3 DEF Result, Returned
<1>6. B[k] # 0 /\ got[r][k].global = Reference(cs[B[k]].conf)
  BY <1>3 DEF Result, Returned
<1>7. j \in 0 .. Len(cs) /\ k \in 0 .. Len(cs) /\ j <= k
  BY <1>4
<1>8. B[k] > j
  BY <1>1, <1>5, <1>6, <1>7 DEF History
<1>9. B[k] \in 0 .. k
  BY <1>1, <1>2, <1>4, HistoryAt
<1>10. B[k] \in (j + 1) .. k
  BY <1>4, <1>8, <1>9
<1> QED
  BY <1>1, <1>6, <1>10

(* A save after a compute that raised writes metadata computed since: the  *)
(* old one is never written again.                                         *)
THEOREM MetadataFailureForgets == Spec => []FailureForgets
  BY PlacesForget, IInvHolds, PTL
=============================================================================
