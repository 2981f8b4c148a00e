-------------------------- MODULE DataFeedingProofs --------------------------
(***************************************************************************)
(* How samples reach the processes that train them, for any dataset, any   *)
(* number of processes of each kind, and any sizes.                        *)
(*                                                                         *)
(* First that samples are divided without a remainder getting lost or      *)
(* dealt twice.  Then a streamed dataset: what packing makes of a round,   *)
(* whose folds are unrolled into chains of values one step of the loop     *)
(* apart; that a round begins and ends with nothing under way; and that    *)
(* the packs of a pass are those that packing its rounds one after another *)
(* makes, with every sample in one of them.  Then a dataset of known       *)
(* lengths, whose parts are packed at the same time: what the master       *)
(* broadcasts is what packing one part after another makes.  Then the      *)
(* training: what each process is given, where the training is, and that   *)
(* it trains in the order of one that is never interrupted.  Last the      *)
(* epoch: the place of each item in the order, or the stream, determines   *)
(* the step, the process and the place in its batch, so that no sample is  *)
(* trained twice, and what has no place in a full step is little.          *)
(***************************************************************************)
EXTENDS DataFeeding, SequenceLemmas, FiniteSetTheorems

-----------------------------------------------------------------------------
LEMMA WorldSizeType == WorldSize \in Nat \ {0} /\ NumProcesses = WorldSize * TpSize
<1>1. NumProcesses \in Nat /\ TpSize \in Nat \ {0} /\ NumProcesses # 0
      /\ NumProcesses % TpSize = 0
  BY ShardingAssumption
<1>2. NumProcesses = (NumProcesses \div TpSize) * TpSize
      /\ NumProcesses \div TpSize \in Nat
  BY <1>1, DivMod
<1>. QED  BY <1>1, <1>2 DEF WorldSize

\* Processes that share a model have a rank among the data-parallel ones.
LEMMA RankType == ASSUME NEW p \in Processes PROVE Rank(p) \in 0..WorldSize - 1
<1>1. p \in Nat /\ p < NumProcesses  BY ShardingAssumption DEF Processes
<1>2. TpSize \in Nat \ {0}  BY ShardingAssumption
<1>3. p = (p \div TpSize) * TpSize + (p % TpSize)
      /\ p % TpSize \in 0..TpSize - 1 /\ p \div TpSize \in Nat
  BY <1>1, <1>2, DivMod
<1>4. ~(WorldSize <= p \div TpSize)
  <2>1. SUFFICES ASSUME WorldSize <= p \div TpSize PROVE FALSE  OBVIOUS
  <2>2. WorldSize * TpSize <= (p \div TpSize) * TpSize
    BY <1>2, <1>3, <2>1, WorldSizeType, TimesMonotone
  <2>3. (p \div TpSize) * TpSize \in Nat  BY <1>2, <1>3
  <2>4. (p \div TpSize) * TpSize <= p  BY <1>1, <1>2, <1>3, <2>3
  <2>. QED  BY <1>1, <2>2, <2>3, <2>4, WorldSizeType, ShardingAssumption
<1>. QED  BY <1>3, <1>4, WorldSizeType DEF Rank

LEMMA ShareSizeType ==
    ASSUME NEW n \in Nat, NEW rank \in 0..WorldSize - 1
    PROVE  ShareSize(n, rank) \in Nat
<1>1. n + WorldSize - 1 - rank \in Nat  BY WorldSizeType
<1>. QED  BY <1>1, DivMod, WorldSizeType DEF ShareSize

\* The k-th place of a rank's share is within n places exactly when k is at
\* most the size of the share.
LEMMA WithinShare ==
    ASSUME NEW n \in Nat, NEW rank \in 0..WorldSize - 1, NEW k \in Nat \ {0}
    PROVE  k <= ShareSize(n, rank) <=> (k - 1) * WorldSize + rank + 1 <= n
<1>1. n + WorldSize - 1 - rank \in Nat /\ WorldSize \in Nat \ {0}
  BY WorldSizeType
<1>2. k <= ShareSize(n, rank) <=> k * WorldSize <= n + WorldSize - 1 - rank
  BY <1>1, DivAtLeast DEF ShareSize
<1>3. (k - 1) * WorldSize = k * WorldSize - WorldSize
  BY <1>1
<1>4. k * WorldSize \in Nat  BY <1>1
<1>. QED  BY <1>1, <1>2, <1>3, <1>4

-----------------------------------------------------------------------------
\* Each of n places is dealt to a rank (BatchSamplerShard.__iter__), and to
\* one only, at one place of its share: no sample is trained by two ranks, or
\* by none, in an epoch, however the order was shuffled.
THEOREM DealtToExactlyOne ==
    ASSUME NEW n \in Nat, NEW i \in 1..n
    PROVE  /\ \E rank \in 0..WorldSize - 1 :
                 \E k \in 1..ShareSize(n, rank) :
                    i = (k - 1) * WorldSize + rank + 1
           /\ \A r1, r2 \in 0..WorldSize - 1 :
                 \A k1 \in 1..ShareSize(n, r1), k2 \in 1..ShareSize(n, r2) :
                    /\ i = (k1 - 1) * WorldSize + r1 + 1
                    /\ i = (k2 - 1) * WorldSize + r2 + 1
                    => r1 = r2 /\ k1 = k2
<1>0. WorldSize \in Nat \ {0}  BY WorldSizeType
<1>1. \E rank \in 0..WorldSize - 1 : \E k \in 1..ShareSize(n, rank) :
          i = (k - 1) * WorldSize + rank + 1
  <2>. DEFINE rank == (i - 1) % WorldSize
              k == (i - 1) \div WorldSize + 1
  <2>1. i - 1 \in Nat  OBVIOUS
  <2>2. /\ rank \in 0..WorldSize - 1 /\ k \in Nat \ {0}
        /\ i - 1 = (k - 1) * WorldSize + rank
    <3>1. (i - 1) \div WorldSize \in Nat /\ (i - 1) % WorldSize \in 0..WorldSize - 1
          /\ i - 1 = ((i - 1) \div WorldSize) * WorldSize + ((i - 1) % WorldSize)
      BY <1>0, <2>1, DivMod
    <3>2. k - 1 = (i - 1) \div WorldSize  BY <3>1
    <3>. QED  BY <3>1, <3>2
  <2>. HIDE DEF rank, k
  <2>3. (k - 1) * WorldSize + rank + 1 = i
    <3>1. (k - 1) * WorldSize \in Nat  BY <1>0, <2>2
    <3>. QED  BY <2>2, <3>1
  <2>4. k \in 1..ShareSize(n, rank)
    <3>1. k <= ShareSize(n, rank)  BY <2>2, <2>3, WithinShare
    <3>2. ShareSize(n, rank) \in Nat  BY <2>2, ShareSizeType
    <3>. QED  BY <2>2, <3>1, <3>2
  <2>. QED  BY <2>2, <2>3, <2>4
<1>2. ASSUME NEW r1 \in 0..WorldSize - 1, NEW r2 \in 0..WorldSize - 1,
             NEW k1 \in 1..ShareSize(n, r1), NEW k2 \in 1..ShareSize(n, r2),
             i = (k1 - 1) * WorldSize + r1 + 1,
             i = (k2 - 1) * WorldSize + r2 + 1
      PROVE  r1 = r2 /\ k1 = k2
  <2>1. k1 - 1 \in Nat /\ k2 - 1 \in Nat  BY ShareSizeType
  <2>2. i - 1 = (k1 - 1) * WorldSize + r1 /\ i - 1 = (k2 - 1) * WorldSize + r2
    <3>1. (k1 - 1) * WorldSize \in Nat /\ (k2 - 1) * WorldSize \in Nat
      BY <1>0, <2>1
    <3>. QED  BY <1>2, <3>1
  <2>3. /\ (i - 1) \div WorldSize = k1 - 1 /\ (i - 1) % WorldSize = r1
    <3>1. r1 \in Nat /\ r1 < WorldSize  BY <1>0
    <3>2. /\ ((k1 - 1) * WorldSize + r1) \div WorldSize = k1 - 1
          /\ ((k1 - 1) * WorldSize + r1) % WorldSize = r1
      BY <1>0, <2>1, <3>1, DivUnique
    <3>. QED  BY <2>2, <3>2
  <2>4. /\ (i - 1) \div WorldSize = k2 - 1 /\ (i - 1) % WorldSize = r2
    <3>1. r2 \in Nat /\ r2 < WorldSize  BY <1>0
    <3>2. /\ ((k2 - 1) * WorldSize + r2) \div WorldSize = k2 - 1
          /\ ((k2 - 1) * WorldSize + r2) % WorldSize = r2
      BY <1>0, <2>1, <3>1, DivUnique
    <3>. QED  BY <2>2, <3>2
  <2>. QED  BY <2>1, <2>3, <2>4
<1>. QED  BY <1>1, <1>2

\* What can be dealt evenly is dealt evenly: each rank's share then has
\* total_samples places.
THEOREM DealtEvenly ==
    ASSUME NEW n \in Nat, NEW rank \in 0..WorldSize - 1
    PROVE  ShareSize(DealtSamples(n), rank) = TotalSamples(n)
<1>0. WorldSize \in Nat \ {0}  BY WorldSizeType
<1>1. TotalSamples(n) \in Nat  BY <1>0, DivMod DEF TotalSamples
<1>2. WorldSize - 1 - rank \in Nat /\ WorldSize - 1 - rank < WorldSize
  BY <1>0
<1>3. (TotalSamples(n) * WorldSize + (WorldSize - 1 - rank)) \div WorldSize
          = TotalSamples(n)
  BY <1>0, <1>1, <1>2, DivUnique
<1>4. TotalSamples(n) * WorldSize \in Nat  BY <1>0, <1>1
<1>5. TotalSamples(n) * WorldSize + (WorldSize - 1 - rank)
          = TotalSamples(n) * WorldSize + WorldSize - 1 - rank
  BY <1>0, <1>4
<1>. QED  BY <1>3, <1>5 DEF ShareSize, DealtSamples

LEMMA CeilDivMonotone ==
    ASSUME NEW a \in Nat, NEW b \in Nat, NEW size \in Nat \ {0}, a <= b
    PROVE  CeilDiv(a, size) <= CeilDiv(b, size)
BY DivMonotone DEF CeilDiv

\* A rank never runs out of batches before the training loop has taken as
\* many as __len__ promised it, although with group_by_length an order is of
\* all samples and the shares are then not of one length: no process waits in
\* a collective for one whose epoch has ended.
THEOREM EnoughBatches ==
    ASSUME NEW n \in Nat, NEW rank \in 0..WorldSize - 1,
           NEW size \in Nat \ {0}, NEW dropLast \in BOOLEAN,
           NEW S, NEW order \in Seq(S), DealtSamples(n) <= Len(order)
    PROVE  NumBatches(n, size, dropLast)
               <= Len(Batches(Share(order, rank), size, dropLast))
<1>0. WorldSize \in Nat \ {0} /\ Len(order) \in Nat  BY WorldSizeType
<1>1. TotalSamples(n) \in Nat  BY <1>0, DivMod DEF TotalSamples
<1>2. DealtSamples(n) \in Nat  BY <1>0, <1>1 DEF DealtSamples
<1>. DEFINE m == ShareSize(Len(order), rank)
<1>3. m \in Nat  BY <1>0, ShareSizeType
<1>4. TotalSamples(n) <= m
  <2>1. ShareSize(DealtSamples(n), rank) <= m
    <3>1. DealtSamples(n) + WorldSize - 1 - rank
              <= Len(order) + WorldSize - 1 - rank
      BY <1>0, <1>2
    <3>2. /\ DealtSamples(n) + WorldSize - 1 - rank \in Nat
          /\ Len(order) + WorldSize - 1 - rank \in Nat
      BY <1>0, <1>2
    <3>. QED  BY <1>0, <3>1, <3>2, DivMonotone DEF ShareSize
  <2>. QED  BY <2>1, DealtEvenly
<1>5. Len(Share(order, rank)) = m
  BY <1>0, <1>3 DEF Share
<1>. HIDE DEF m
<1>6. CASE dropLast
  <2>1. m \div size \in Nat  BY <1>3, DivMod
  <2>2. Len(Batches(Share(order, rank), size, dropLast)) = m \div size
    BY <1>5, <1>6, <2>1 DEF Batches
  <2>3. TotalSamples(n) \div size <= m \div size
    BY <1>1, <1>3, <1>4, DivMonotone
  <2>. QED  BY <1>6, <2>2, <2>3 DEF NumBatches
<1>7. CASE ~dropLast
  <2>1. CeilDiv(m, size) \in Nat
    <3>1. m + size - 1 \in Nat  BY <1>3
    <3>. QED  BY <3>1, DivMod DEF CeilDiv
  <2>2. Len(Batches(Share(order, rank), size, dropLast)) = CeilDiv(m, size)
    BY <1>5, <1>7, <2>1 DEF Batches
  <2>3. CeilDiv(TotalSamples(n), size) <= CeilDiv(m, size)
    BY <1>1, <1>3, <1>4, CeilDivMonotone
  <2>. QED  BY <1>7, <2>2, <2>3 DEF NumBatches
<1>. QED  BY <1>6, <1>7

-----------------------------------------------------------------------------
LEMMA SplitAtType ==
    ASSUME NEW n \in Nat, NEW shards \in Nat \ {0}, NEW k \in Nat
    PROVE  SplitAt(n, shards, k) \in Nat
<1>1. k * n \in Nat  OBVIOUS
<1>. QED  BY <1>1, DivMod DEF SplitAt

LEMMA SplitAtMonotone ==
    ASSUME NEW n \in Nat, NEW shards \in Nat \ {0},
           NEW j \in Nat, NEW k \in Nat, j <= k
    PROVE  SplitAt(n, shards, j) <= SplitAt(n, shards, k)
<1>1. j * n <= k * n /\ j * n \in Nat /\ k * n \in Nat  BY TimesMonotone
<1>. QED  BY <1>1, DivMonotone DEF SplitAt

\* split_list gives each of n things to exactly one of the processes that
\* pack them, also when they do not divide.
THEOREM InExactlyOneShard ==
    ASSUME NEW n \in Nat, NEW shards \in Nat \ {0}, NEW i \in 1..n
    PROVE  /\ \E q \in 1..shards : i \in Shard(n, shards, q)
           /\ \A q1, q2 \in 1..shards :
                 i \in Shard(n, shards, q1) /\ i \in Shard(n, shards, q2)
                 => q1 = q2
<1>1. \E q \in 1..shards : i \in Shard(n, shards, q)
  <2>. DEFINE q == (i * shards + n - 1) \div n
  <2>1. n \in Nat \ {0} /\ i * shards \in Nat  OBVIOUS
  <2>2. i * shards + n - 1 \in Nat  BY <2>1
  <2>3. q \in Nat  BY <2>1, <2>2, DivMod
  <2>4. ASSUME NEW k \in Nat PROVE k <= q <=> k * n <= i * shards + n - 1
    BY <2>1, <2>2, DivAtLeast
  <2>. HIDE DEF q
  <2>5. i * shards <= q * n
    <3>1. ~(q + 1 <= q)  BY <2>3
    <3>2. ~((q + 1) * n <= i * shards + n - 1)
      <4>1. q + 1 \in Nat  BY <2>3
      <4>. QED  BY <2>4, <3>1, <4>1
    <3>3. (q + 1) * n = q * n + n /\ q * n \in Nat  BY <2>1, <2>3
    <3>. QED  BY <2>1, <3>2, <3>3
  <2>6. q * n <= i * shards + n - 1  BY <2>3, <2>4
  <2>7. 1 <= q
    <3>1. 1 <= i * shards
      <4>1. 1 * shards <= i * shards  BY TimesMonotone
      <4>. QED  BY <2>1, <4>1
    <3>2. 1 * n <= i * shards + n - 1  BY <2>1, <3>1
    <3>. QED  BY <2>4, <3>2
  <2>8. q <= shards
    <3>1. SUFFICES ASSUME shards + 1 <= q PROVE FALSE  BY <2>3
    <3>2. (shards + 1) * n <= i * shards + n - 1
      <4>1. shards + 1 \in Nat  OBVIOUS
      <4>. QED  BY <2>4, <3>1, <4>1
    <3>3. (shards + 1) * n = shards * n + n /\ shards * n \in Nat  BY <2>1
    <3>4. i * shards <= n * shards  BY TimesMonotone
    <3>5. n * shards = shards * n  OBVIOUS
    <3>. QED  BY <2>1, <3>2, <3>3, <3>4, <3>5
  <2>9. i <= SplitAt(n, shards, q)
    <3>1. q * n \in Nat  BY <2>1, <2>3
    <3>. QED  BY <2>5, <3>1, DivAtLeast DEF SplitAt
  <2>10. ~(i <= SplitAt(n, shards, q - 1))
    <3>1. q - 1 \in Nat  BY <2>3, <2>7
    <3>2. (q - 1) * n \in Nat /\ (q - 1) * n = q * n - n
      BY <2>1, <2>3, <3>1
    <3>3. ~(i * shards <= (q - 1) * n)
      <4>1. q * n \in Nat  BY <2>1, <2>3
      <4>. QED  BY <2>1, <2>6, <3>2, <4>1
    <3>. QED  BY <3>2, <3>3, DivAtLeast DEF SplitAt
  <2>11. SplitAt(n, shards, q) \in Nat /\ SplitAt(n, shards, q - 1) \in Nat
    <3>1. q - 1 \in Nat  BY <2>3, <2>7
    <3>. QED  BY <2>3, <3>1, SplitAtType
  <2>12. i \in Shard(n, shards, q)
    BY <2>9, <2>10, <2>11 DEF Shard
  <2>13. q \in 1..shards  BY <2>3, <2>7, <2>8
  <2>. QED  BY <2>12, <2>13
<1>2. ASSUME NEW q1 \in 1..shards, NEW q2 \in 1..shards, q1 < q2,
             i \in Shard(n, shards, q1), i \in Shard(n, shards, q2)
      PROVE  FALSE
  <2>1. q1 \in Nat /\ q2 - 1 \in Nat /\ q1 <= q2 - 1  BY <1>2
  <2>2. SplitAt(n, shards, q1) <= SplitAt(n, shards, q2 - 1)
    BY <2>1, SplitAtMonotone
  <2>3. i <= SplitAt(n, shards, q1) /\ SplitAt(n, shards, q2 - 1) + 1 <= i
    BY <1>2 DEF Shard
  <2>4. SplitAt(n, shards, q1) \in Nat /\ SplitAt(n, shards, q2 - 1) \in Nat
    BY <2>1, SplitAtType
  <2>. QED  BY <2>2, <2>3, <2>4
<1>3. ASSUME NEW q1 \in 1..shards, NEW q2 \in 1..shards,
             i \in Shard(n, shards, q1), i \in Shard(n, shards, q2)
      PROVE  q1 = q2
  <2>1. q1 < q2 \/ q2 < q1 \/ q1 = q2  OBVIOUS
  <2>. QED  BY <1>2, <1>3, <2>1
<1>. QED  BY <1>1, <1>3

-----------------------------------------------------------------------------
(* The folds of packing, step by step.                                      *)

\* `c` holds what is kept of the first 0, 1, 2, ... slots.
KeepsSlots(slots, n, c) ==
    /\ c[0] = <<>>
    /\ \A k \in 1..n :
           c[k] = IF slots[k] = 0 THEN c[k - 1] ELSE Append(c[k - 1], slots[k])
    /\ Kept(slots) = c[n]

LEMMA KeptByStep ==
    ASSUME NEW S, NEW n \in Nat, NEW slots \in [1..n -> S]
    PROVE  \E c : KeepsSlots(slots, n, c)
<1> DEFINE fold == [x \in Seq(S) \X (1..n) |->
                      IF slots[x[2]] = 0 THEN x[1] ELSE Append(x[1], slots[x[2]])]
           At(f, s) == IF s = {} THEN <<>>
                       ELSE IF slots[Max(s)] = 0 THEN f[s \ {Max(s)}]
                            ELSE Append(f[s \ {Max(s)}], slots[Max(s)])
           Fold(f) == f = [s \in SUBSET DOMAIN slots |-> At(f, s)]
           g == CHOOSE f : Fold(f)
           c == [k \in 0..n |-> g[1..k]]
<1>1. fold \in [Seq(S) \X (1..n) -> Seq(S)]
  <2>1. ASSUME NEW x \in Seq(S) \X (1..n) PROVE fold[x] \in Seq(S)
    <3>1. x[1] \in Seq(S) /\ slots[x[2]] \in S
      OBVIOUS
    <3>2. Append(x[1], slots[x[2]]) \in Seq(S)
      BY <3>1, AppendProperties
    <3>3. QED
      BY <3>1, <3>2
  <2>2. QED
    BY <2>1
<1>2. \E f : Fold(f)
  <2> HIDE DEF fold
  <2>1. <<>> \in Seq(S)
    OBVIOUS
  <2>2. PICK f : FoldsBy(fold, <<>>, Seq(S), n, f)
    BY <1>1, <2>1, FoldExists
  <2>3. ASSUME NEW s \in SUBSET (1..n) PROVE f[s] = At(f, s)
    <3>1. CASE s = {}
      BY <2>2, <3>1 DEF FoldsBy
    <3>2. CASE s # {}
      <4>1. Max(s) \in 1..n /\ f[s \ {Max(s)}] \in Seq(S)
        BY <2>2, <3>2, MaxProperties DEF FoldsBy
      <4>2. fold[<<f[s \ {Max(s)}], Max(s)>>]
              = IF slots[Max(s)] = 0 THEN f[s \ {Max(s)}]
                ELSE Append(f[s \ {Max(s)}], slots[Max(s)])
        BY <4>1 DEF fold
      <4>3. f[s] = fold[<<f[s \ {Max(s)}], Max(s)>>]
        BY <2>2, <3>2 DEF FoldsBy
      <4>4. QED
        BY <3>2, <4>2, <4>3
    <3>3. QED
      BY <3>1, <3>2
  <2>4. Fold(f)
    <3>1. DOMAIN f = SUBSET (1..n) /\ DOMAIN slots = 1..n
          /\ f = [s \in DOMAIN f |-> f[s]]
      BY <2>2 DEF FoldsBy
    <3> HIDE DEF At
    <3>2. [s \in SUBSET (1..n) |-> f[s]] = [s \in SUBSET (1..n) |-> At(f, s)]
      BY <2>3
    <3>3. QED
      BY <3>1, <3>2, Zenon
  <2>5. QED
    BY <2>4
<1>3. Fold(g)
  <2> HIDE DEF Fold
  <2>1. QED
    BY <1>2, Zenon
<1>4. Kept(slots) = g[DOMAIN slots]
  BY Zenon DEF Kept, FoldLeft, MapThenFoldSet
<1>5. \A s \in SUBSET (1..n) : g[s] = At(g, s)
  <2> HIDE DEF g, At
  <2>1. DOMAIN slots = 1..n
    OBVIOUS
  <2>2. QED
    BY <1>3, <2>1
<1> HIDE DEF g
<1>6. c[0] = <<>> /\ Kept(slots) = c[n]
  <2>1. 1..0 = {} /\ {} \in SUBSET (1..n)
    OBVIOUS
  <2>2. g[{}] = <<>>
    BY <1>5
  <2>3. c[0] = g[{}] /\ c[n] = g[1..n] /\ DOMAIN slots = 1..n
    BY <2>1
  <2> HIDE DEF c
  <2>4. QED
    BY <1>4, <2>2, <2>3
<1>7. ASSUME NEW k \in 1..n
      PROVE  c[k] = IF slots[k] = 0 THEN c[k - 1] ELSE Append(c[k - 1], slots[k])
  <2>1. /\ Max(1..k) = k /\ (1..k) \ {Max(1..k)} = 1..(k - 1)
        /\ 1..k # {} /\ 1..k \in SUBSET (1..n)
    BY MaxOfInterval
  <2>2. c[k] = g[1..k] /\ c[k - 1] = g[1..(k - 1)]
    OBVIOUS
  <2>3. g[1..k] = At(g, 1..k)
    BY <1>5, <2>1
  <2> HIDE DEF c
  <2>4. At(g, 1..k) = IF slots[k] = 0 THEN g[1..(k - 1)]
                      ELSE Append(g[1..(k - 1)], slots[k])
    BY <2>1, Zenon
  <2>5. QED
    BY <2>2, <2>3, <2>4
<1>8. KeepsSlots(slots, n, c)
  <2> HIDE DEF c
  <2>1. QED
    BY <1>6, <1>7 DEF KeepsSlots
<1>9. QED
  BY <1>8

-----------------------------------------------------------------------------
(* LongestFirst rearranges.                                                 *)

GoesBefore(samples, length, a, b) ==
    \/ length[samples[a]] > length[samples[b]]
    \/ length[samples[a]] = length[samples[b]] /\ a > b

Ahead(samples, length, k) ==
    {j \in DOMAIN samples : GoesBefore(samples, length, j, k)}

PlaceOf(samples, length, k) == Cardinality(Ahead(samples, length, k)) + 1

InPlace(samples, length, i) ==
    CHOOSE k \in DOMAIN samples : PlaceOf(samples, length, k) = i

LEMMA LongestFirstIs ==
    ASSUME NEW samples, NEW length
    PROVE  LongestFirst(samples, length) =
             [i \in DOMAIN samples |-> samples[InPlace(samples, length, i)]]
BY Zenon DEF LongestFirst, InPlace, PlaceOf, Ahead, GoesBefore

LEMMA PlacesAscend ==
    ASSUME NEW n \in Nat, NEW samples, DOMAIN samples = 1..n, NEW length,
           \A k \in 1..n : length[samples[k]] \in Nat
    PROVE  /\ \A k \in 1..n : PlaceOf(samples, length, k) \in 1..n
           /\ \A a, b \in 1..n :
                PlaceOf(samples, length, a) = PlaceOf(samples, length, b) => a = b
<1> DEFINE A(k) == Ahead(samples, length, k)
           P(k) == PlaceOf(samples, length, k)
<1>1. IsFiniteSet(1..n) /\ Cardinality(1..n) = n
  BY FS_Interval
<1>2. ASSUME NEW k \in 1..n
      PROVE  /\ IsFiniteSet(A(k)) /\ Cardinality(A(k)) \in Nat
             /\ P(k) = Cardinality(A(k)) + 1
             /\ A(k) \in SUBSET (1..n) /\ k \notin A(k)
  <2>1. A(k) \in SUBSET (1..n)
    BY DEF Ahead
  <2>2. k \notin A(k)
    BY DEF Ahead, GoesBefore
  <2>3. IsFiniteSet(A(k))
    BY <1>1, <2>1, FS_Subset
  <2>4. Cardinality(A(k)) \in Nat
    BY <2>3, FS_CardinalityType
  <2>5. QED
    BY <2>1, <2>2, <2>3, <2>4 DEF PlaceOf
<1>3. ASSUME NEW k \in 1..n PROVE P(k) \in 1..n
  <2>1. /\ IsFiniteSet(A(k) \cup {k})
        /\ Cardinality(A(k) \cup {k}) = Cardinality(A(k)) + 1
    <3> HIDE DEF A
    <3>1. QED
      BY <1>2, FS_AddElement
  <2>2. A(k) \cup {k} \in SUBSET (1..n)
    BY <1>2
  <2>3. Cardinality(A(k) \cup {k}) <= n
    <3> HIDE DEF A
    <3>1. QED
      BY <1>1, <2>2, FS_Subset
  <2> HIDE DEF A
  <2>4. QED
    BY <1>2, <2>1, <2>3
<1>4. ASSUME NEW a \in 1..n, NEW b \in 1..n, GoesBefore(samples, length, a, b)
      PROVE  P(a) < P(b)
  <2>1. A(a) \cup {a} \in SUBSET A(b)
    <3>1. a \in A(b)
      BY <1>4 DEF Ahead
    <3>2. ASSUME NEW j \in A(a) PROVE j \in A(b)
      <4>1. j \in 1..n /\ GoesBefore(samples, length, j, a)
        BY DEF Ahead
      <4>2. GoesBefore(samples, length, j, b)
        BY <1>4, <4>1 DEF GoesBefore
      <4>3. QED
        BY <4>1, <4>2 DEF Ahead
    <3>3. QED
      BY <3>1, <3>2
  <2> HIDE DEF A
  <2>2. Cardinality(A(a) \cup {a}) = Cardinality(A(a)) + 1
    BY <1>2, FS_AddElement
  <2>3. Cardinality(A(a) \cup {a}) <= Cardinality(A(b))
    BY <1>2, <2>1, FS_Subset
  <2>4. QED
    BY <1>2, <2>2, <2>3
<1>5. ASSUME NEW a \in 1..n, NEW b \in 1..n, P(a) = P(b) PROVE a = b
  <2>1. SUFFICES ASSUME a # b PROVE FALSE
    OBVIOUS
  <2>2. GoesBefore(samples, length, a, b) \/ GoesBefore(samples, length, b, a)
    BY <2>1 DEF GoesBefore
  <2>3. P(a) \in 1..n /\ P(b) \in 1..n
    BY <1>3
  <2>4. P(a) < P(b) \/ P(b) < P(a)
    BY <1>4, <2>2
  <2> HIDE DEF P
  <2>5. QED
    BY <1>5, <2>3, <2>4
<1>6. QED
  BY <1>3, <1>5

\* Each position is the place of one sample.
Rearranges(place, n) ==
    /\ place \in [1..n -> 1..n]
    /\ \A a, b \in 1..n : place[a] = place[b] => a = b

LEMMA PlaceTaken ==
    ASSUME NEW n \in Nat, NEW place, Rearranges(place, n), NEW i \in 1..n
    PROVE  \E k \in 1..n : place[k] = i
<1>1. SUFFICES ASSUME \A k \in 1..n : place[k] # i PROVE FALSE
  OBVIOUS
<1>2. IsFiniteSet(1..n) /\ Cardinality(1..n) = n
  BY FS_Interval
<1> DEFINE T == (1..n) \ {i}
<1>3. IsFiniteSet(T) /\ Cardinality(T) = n - 1
  BY <1>2, FS_RemoveElement
<1>4. place \in [1..n -> T]
  BY <1>1 DEF Rearranges
<1> HIDE DEF T
<1>5. Cardinality(T) < Cardinality(1..n)
  BY <1>2, <1>3
<1>6. \E a, b \in 1..n : a # b /\ place[a] = place[b]
  BY <1>2, <1>3, <1>4, <1>5, FS_PigeonHole
<1>7. QED
  BY <1>6 DEF Rearranges

\* A sequence has each of these elements, once.
Once(s, elements) ==
    /\ ToSet(s) = elements
    /\ \A i, j \in DOMAIN s : s[i] = s[j] => i = j

LEMMA LongestFirstOnce ==
    ASSUME NEW S, NEW samples \in Seq(S), NEW length,
           \A s \in S : length[s] \in Nat
    PROVE  /\ LongestFirst(samples, length) \in [1..Len(samples) -> S]
           /\ \A X : Once(samples, X) => Once(LongestFirst(samples, length), X)
<1> DEFINE n == Len(samples)
           place == [k \in 1..n |-> PlaceOf(samples, length, k)]
           order == [i \in 1..n |-> InPlace(samples, length, i)]
           sorted == LongestFirst(samples, length)
<1>1. n \in Nat /\ DOMAIN samples = 1..n /\ \A k \in 1..n : samples[k] \in S
  BY LenProperties
<1>2. \A k \in 1..n : length[samples[k]] \in Nat
  BY <1>1
<1> HIDE DEF n
<1>3. /\ place \in [1..n -> 1..n]
      /\ \A a, b \in 1..n : place[a] = place[b] => a = b
  BY <1>1, <1>2, PlacesAscend
<1>4. sorted = [i \in 1..n |-> samples[order[i]]]
  <2>1. sorted = [i \in 1..n |-> samples[InPlace(samples, length, i)]]
    BY <1>1, LongestFirstIs
  <2> HIDE DEF sorted
  <2>2. QED
    BY <2>1
<1> HIDE DEF place, sorted
<1>5. ASSUME NEW i \in 1..n PROVE order[i] \in 1..n /\ place[order[i]] = i
  <2>1. PICK k \in 1..n : place[k] = i
    <3>1. n \in Nat /\ Rearranges(place, n)
      BY <1>1, <1>3 DEF Rearranges
    <3>2. QED
      BY <3>1, PlaceTaken
  <2>2. k \in DOMAIN samples /\ PlaceOf(samples, length, k) = i
    BY <1>1, <2>1 DEF place
  <2>3. /\ InPlace(samples, length, i) \in DOMAIN samples
        /\ PlaceOf(samples, length, InPlace(samples, length, i)) = i
    BY <2>2, Zenon DEF InPlace
  <2>4. QED
    BY <1>1, <2>3 DEF place
<1>6. ASSUME NEW k \in 1..n PROVE order[place[k]] = k
  <2>1. place[k] \in 1..n
    BY <1>3
  <2>2. order[place[k]] \in 1..n /\ place[order[place[k]]] = place[k]
    BY <1>5, <2>1
  <2> HIDE DEF order
  <2>3. QED
    BY <1>3, <2>2
<1> HIDE DEF order
<1>7. sorted \in [1..n -> S]
  BY <1>1, <1>4, <1>5
<1>8. ASSUME NEW X, Once(samples, X) PROVE Once(sorted, X)
  <2>1. DOMAIN sorted = 1..n /\ \A i \in 1..n : sorted[i] = samples[order[i]]
    BY <1>4
  <2>2. ToSet(samples) = X /\ \A i, j \in 1..n : samples[i] = samples[j] => i = j
    BY <1>1, <1>8 DEF Once
  <2>3. ToSet(sorted) = X
    <3>1. \A i \in 1..n : sorted[i] \in X
      BY <1>1, <1>5, <2>1, <2>2 DEF ToSet
    <3>2. \A k \in 1..n : place[k] \in 1..n /\ samples[k] = sorted[place[k]]
      BY <1>3, <1>6, <2>1
    <3>3. /\ ToSet(sorted) = {sorted[i] : i \in 1..n}
          /\ X = {samples[k] : k \in 1..n}
      BY <1>1, <2>1, <2>2 DEF ToSet
    <3>4. QED
      BY <3>1, <3>2, <3>3
  <2>4. ASSUME NEW i \in 1..n, NEW j \in 1..n, sorted[i] = sorted[j] PROVE i = j
    <3>1. order[i] = order[j]
      BY <1>5, <2>1, <2>2, <2>4
    <3>2. QED
      BY <1>5, <3>1
  <2>5. QED
    BY <2>1, <2>3, <2>4 DEF Once
<1>9. QED
  BY <1>7, <1>8 DEF n, sorted

-----------------------------------------------------------------------------
(* The volume of a pack, and the bins.                                      *)

SumsUp(pack, length, n, c) ==
    /\ c[0] = 0
    /\ \A k \in 1..n : c[k] = c[k - 1] + length[pack[k]]
    /\ Volume(pack, length) = c[n]

LEMMA VolumeByStep ==
    ASSUME NEW S, NEW n \in Nat, NEW pack \in [1..n -> S], NEW length,
           \A s \in S : length[s] \in Nat
    PROVE  \E c \in [0..n -> Nat] : SumsUp(pack, length, n, c)
<1> DEFINE fold == [x \in Nat \X (1..n) |-> x[1] + length[pack[x[2]]]]
           At(f, s) == IF s = {} THEN 0
                       ELSE f[s \ {Max(s)}] + length[pack[Max(s)]]
           Fold(f) == f = [s \in SUBSET DOMAIN pack |-> At(f, s)]
           g == CHOOSE f : Fold(f)
           c == [k \in 0..n |-> g[1..k]]
<1>1. fold \in [Nat \X (1..n) -> Nat]
  BY SMT
<1>2. \E f : Fold(f)
  <2> HIDE DEF fold
  <2>1. 0 \in Nat
    OBVIOUS
  <2>2. PICK f : FoldsBy(fold, 0, Nat, n, f)
    BY <1>1, <2>1, FoldExists
  <2>3. ASSUME NEW s \in SUBSET (1..n) PROVE f[s] = At(f, s)
    <3>1. CASE s = {}
      BY <2>2, <3>1 DEF FoldsBy
    <3>2. CASE s # {}
      <4>1. Max(s) \in 1..n /\ f[s \ {Max(s)}] \in Nat
        BY <2>2, <3>2, MaxProperties DEF FoldsBy
      <4>2. fold[<<f[s \ {Max(s)}], Max(s)>>]
              = f[s \ {Max(s)}] + length[pack[Max(s)]]
        BY <4>1 DEF fold
      <4>3. f[s] = fold[<<f[s \ {Max(s)}], Max(s)>>]
        BY <2>2, <3>2 DEF FoldsBy
      <4>4. QED
        BY <3>2, <4>2, <4>3
    <3>3. QED
      BY <3>1, <3>2
  <2>4. Fold(f)
    <3>1. DOMAIN f = SUBSET (1..n) /\ DOMAIN pack = 1..n
          /\ f = [s \in DOMAIN f |-> f[s]]
      BY <2>2 DEF FoldsBy
    <3> HIDE DEF At
    <3>2. [s \in SUBSET (1..n) |-> f[s]] = [s \in SUBSET (1..n) |-> At(f, s)]
      BY <2>3
    <3>3. QED
      BY <3>1, <3>2, Zenon
  <2>5. QED
    BY <2>4
<1>3. Fold(g)
  <2> HIDE DEF Fold
  <2>1. QED
    BY <1>2, Zenon
<1>4. Volume(pack, length) = g[DOMAIN pack]
  BY Zenon DEF Volume, FoldLeft, MapThenFoldSet
<1>5. \A s \in SUBSET (1..n) : g[s] = At(g, s)
  <2> HIDE DEF g, At
  <2>1. DOMAIN pack = 1..n
    OBVIOUS
  <2>2. QED
    BY <1>3, <2>1
<1> HIDE DEF g
<1>6. c[0] = 0 /\ Volume(pack, length) = c[n]
  <2>1. 1..0 = {} /\ {} \in SUBSET (1..n)
    OBVIOUS
  <2>2. g[{}] = 0
    BY <1>5
  <2>3. c[0] = g[{}] /\ c[n] = g[1..n] /\ DOMAIN pack = 1..n
    BY <2>1
  <2> HIDE DEF c
  <2>4. QED
    BY <1>4, <2>2, <2>3
<1>7. ASSUME NEW k \in 1..n
      PROVE  c[k] = c[k - 1] + length[pack[k]]
  <2>1. /\ Max(1..k) = k /\ (1..k) \ {Max(1..k)} = 1..(k - 1)
        /\ 1..k # {} /\ 1..k \in SUBSET (1..n)
    BY MaxOfInterval
  <2>2. c[k] = g[1..k] /\ c[k - 1] = g[1..(k - 1)]
    OBVIOUS
  <2>3. g[1..k] = At(g, 1..k)
    BY <1>5, <2>1
  <2> HIDE DEF c
  <2>4. At(g, 1..k) = g[1..(k - 1)] + length[pack[k]]
    BY <2>1, Zenon
  <2>5. QED
    BY <2>2, <2>3, <2>4
<1>8. c \in [0..n -> Nat]
  <2> DEFINE T == {k \in 0..n : c[k] \in Nat}
  <2>1. 0 \in T /\ T \in SUBSET Nat
    <3> HIDE DEF c
    <3>1. QED
      BY <1>6
  <2>2. ASSUME NEW k \in T, k < n PROVE k + 1 \in T
    <3> HIDE DEF c
    <3>1. k + 1 \in 1..n /\ (k + 1) - 1 = k /\ c[k] \in Nat
      BY <2>2
    <3>2. c[k + 1] = c[(k + 1) - 1] + length[pack[k + 1]] /\ pack[k + 1] \in S
      BY <1>7, <3>1
    <3>3. QED
      BY <3>1, <3>2
  <2> HIDE DEF T
  <2>3. \A k \in 0..n : k \in T
    BY <2>1, <2>2, Induction
  <2>4. \A k \in 0..n : c[k] \in Nat
    BY <2>3 DEF T
  <2>5. QED
    BY <2>4
<1>9. SumsUp(pack, length, n, c)
  <2> HIDE DEF c
  <2>1. QED
    BY <1>6, <1>7 DEF SumsUp
<1>10. QED
  BY <1>8, <1>9

LEMMA VolumeType ==
    ASSUME NEW S, NEW pack \in Seq(S), NEW length, \A s \in S : length[s] \in Nat
    PROVE  Volume(pack, length) \in Nat
<1> DEFINE n == Len(pack)
<1>1. n \in Nat /\ pack \in [1..n -> S]
  BY LenProperties
<1> HIDE DEF n
<1>2. PICK c \in [0..n -> Nat] : SumsUp(pack, length, n, c)
  BY <1>1, VolumeByStep
<1>3. QED
  BY <1>1, <1>2 DEF SumsUp

LEMMA VolumeAppend ==
    ASSUME NEW S, NEW pack \in Seq(S), NEW e \in S, NEW length,
           \A s \in S : length[s] \in Nat
    PROVE  Volume(Append(pack, e), length) = Volume(pack, length) + length[e]
<1> DEFINE n == Len(pack)
           more == Append(pack, e)
<1>1. /\ n \in Nat /\ pack \in [1..n -> S] /\ more \in [1..(n + 1) -> S]
      /\ \A k \in 1..n : more[k] = pack[k]
      /\ more[n + 1] = e
  <2>1. /\ more \in Seq(S) /\ Len(more) = n + 1
        /\ \A k \in 1..n : more[k] = pack[k]
        /\ more[n + 1] = e
    BY AppendProperties
  <2>2. n \in Nat /\ pack \in [1..n -> S]
    BY LenProperties
  <2> HIDE DEF n, more
  <2>3. more \in [1..Len(more) -> S]
    BY <2>1, LenProperties
  <2>4. QED
    BY <2>1, <2>2, <2>3
<1> HIDE DEF n, more
<1>2. PICK c \in [0..n -> Nat] : SumsUp(pack, length, n, c)
  BY <1>1, VolumeByStep
<1> DEFINE l == n + 1
<1>3. PICK d \in [0..l -> Nat] : SumsUp(more, length, l, d)
  <2>1. l \in Nat /\ more \in [1..l -> S]
    BY <1>1
  <2> HIDE DEF l
  <2>2. QED
    BY <2>1, VolumeByStep
<1> DEFINE T == {k \in 0..n : d[k] = c[k]}
<1>4. 0 \in T /\ T \in SUBSET Nat
  BY <1>1, <1>2, <1>3 DEF SumsUp
<1>5. ASSUME NEW k \in T, k < n PROVE k + 1 \in T
  <2>1. /\ k + 1 \in 1..n /\ (k + 1) - 1 = k /\ d[k] = c[k]
        /\ k + 1 \in 1..(n + 1)
    BY <1>1, <1>5
  <2>2. /\ c[k + 1] = c[(k + 1) - 1] + length[pack[k + 1]]
        /\ d[k + 1] = d[(k + 1) - 1] + length[more[k + 1]]
    BY <1>2, <1>3, <2>1 DEF SumsUp
  <2>3. QED
    BY <1>1, <2>1, <2>2
<1>6. n \in T
  <2> HIDE DEF T
  <2>1. \A k \in 0..n : k \in T
    BY <1>1, <1>4, <1>5, Induction
  <2>2. QED
    BY <1>1, <2>1
<1>7. n + 1 \in 1..(n + 1) /\ (n + 1) - 1 = n
  BY <1>1
<1>8. d[n + 1] = d[(n + 1) - 1] + length[more[n + 1]]
  BY <1>3, <1>7 DEF SumsUp
<1>9. d[n + 1] = c[n] + length[e]
  BY <1>1, <1>6, <1>7, <1>8
<1>10. Volume(pack, length) = c[n] /\ Volume(more, length) = d[n + 1]
  BY <1>2, <1>3 DEF SumsUp
<1>11. QED
  BY <1>9, <1>10 DEF more

-----------------------------------------------------------------------------
\* The bin a sample goes into: a new one, or one with room for it.
LEMMA IntoBinIs ==
    ASSUME NEW S, NEW bins \in Seq(Seq(S)), NEW s \in S, NEW length,
           \A x \in S : length[x] \in Nat
    PROVE  \/ IntoBin(bins, s, length) = Append(bins, <<s>>)
           \/ \E b \in DOMAIN bins :
                /\ Volume(bins[b], length) + length[s] <= PackingLength
                /\ IntoBin(bins, s, length) = [bins EXCEPT ![b] = Append(bins[b], s)]
<1> DEFINE V(b) == Volume(bins[b], length)
           room == {b \in DOMAIN bins : V(b) + length[s] <= PackingLength}
           Fuller(b, c) == V(c) < V(b) \/ (V(c) = V(b) /\ b <= c)
           fullest == CHOOSE b \in room : \A c \in room : Fuller(b, c)
<1>1. DOMAIN bins \in SUBSET Nat /\ \A b \in DOMAIN bins : V(b) \in Nat
  <2>1. DOMAIN bins = 1..Len(bins) /\ Len(bins) \in Nat
    BY LenProperties
  <2>2. \A b \in DOMAIN bins : bins[b] \in Seq(S)
    BY <2>1, ElementOfSeq
  <2>3. QED
    BY <2>1, <2>2, VolumeType
<1>2. CASE room = {}
  BY <1>2, Zenon DEF IntoBin
<1>3. CASE room # {}
  <2>1. \E b \in room : \A c \in room : Fuller(b, c)
    <3> DEFINE T == {PackingLength - V(b) : b \in room}
    <3>1. \A b \in room : PackingLength - V(b) \in Nat /\ V(b) \in Nat
      BY <1>1, PackingLengthAssumption
    <3>2. T \in SUBSET Nat /\ T # {}
      BY <1>3, <3>1
    <3>3. PICK t \in T : \A u \in T : t <= u
      <4> HIDE DEF T
      <4>1. QED
        BY <3>2, LeastElement
    <3> DEFINE U == {b \in room : PackingLength - V(b) = t}
    <3>4. U \in SUBSET Nat /\ U # {}
      BY <1>1
    <3>5. PICK b \in U : \A c \in U : b <= c
      <4> HIDE DEF U
      <4>1. QED
        BY <3>4, LeastElement
    <3>6. ASSUME NEW c \in room PROVE Fuller(b, c)
      <4>1. t <= PackingLength - V(c) /\ t = PackingLength - V(b) /\ b \in room
        BY <3>3, <3>5
      <4>2. V(b) \in Nat /\ V(c) \in Nat /\ PackingLength \in Nat
        BY <3>1, <4>1, PackingLengthAssumption
      <4>3. V(c) < V(b) \/ V(c) = V(b)
        <5> HIDE DEF V
        <5>1. QED
          BY <4>1, <4>2
      <4>4. V(c) = V(b) => b <= c
        BY <3>5, <4>1
      <4>5. QED
        BY <4>3, <4>4
    <3>7. QED
      BY <3>5, <3>6
  <2>2. fullest \in room
    <3> HIDE DEF Fuller, room
    <3>1. QED
      BY <2>1, Zenon
  <2>3. IntoBin(bins, s, length)
          = [bins EXCEPT ![fullest] = Append(bins[fullest], s)]
    BY <1>3, Zenon DEF IntoBin
  <2> HIDE DEF fullest
  <2>4. QED
    BY <2>2, <2>3
<1>4. QED
  BY <1>2, <1>3

LEMMA IntoBinType ==
    ASSUME NEW S, NEW bins \in Seq(Seq(S)), NEW s \in S, NEW length,
           \A x \in S : length[x] \in Nat
    PROVE  /\ IntoBin(bins, s, length) \in Seq(Seq(S))
           /\ IntoBin(bins, s, length) # <<>>
<1>1. CASE IntoBin(bins, s, length) = Append(bins, <<s>>)
  <2>1. <<s>> \in Seq(S)
    OBVIOUS
  <2>2. QED
    BY <1>1, <2>1, AppendProperties
<1>2. ASSUME NEW b \in DOMAIN bins,
             IntoBin(bins, s, length) = [bins EXCEPT ![b] = Append(bins[b], s)]
      PROVE  /\ IntoBin(bins, s, length) \in Seq(Seq(S))
             /\ IntoBin(bins, s, length) # <<>>
  <2>1. b \in 1..Len(bins) /\ Len(bins) \in Nat
    BY LenProperties
  <2>2. Append(bins[b], s) \in Seq(S)
    BY <2>1, ElementOfSeq, AppendProperties
  <2> DEFINE more == Append(bins[b], s)
             next == [bins EXCEPT ![b] = more]
  <2> HIDE DEF more
  <2>3. next \in Seq(Seq(S)) /\ Len(next) = Len(bins)
    BY <2>1, <2>2, ExceptSeq DEF more
  <2> HIDE DEF next
  <2>4. Len(next) # 0
    BY <2>1, <2>3
  <2>5. next # <<>>
    BY <2>4, EmptySeq
  <2>6. QED
    BY <1>2, <2>3, <2>5 DEF next, more
<1>3. QED
  BY <1>1, <1>2, IntoBinIs

FillsBins(samples, length, n, c) ==
    /\ c[0] = <<>>
    /\ \A k \in 1..n :
           c[k] = IntoBin(c[k - 1], LongestFirst(samples, length)[k], length)
    /\ ToConstantVolume(samples, length) = c[n]

LEMMA BinsByStep ==
    ASSUME NEW S, NEW samples, NEW length, NEW n \in Nat,
           LongestFirst(samples, length) \in [1..n -> S],
           \A s \in S : length[s] \in Nat
    PROVE  \E c : FillsBins(samples, length, n, c)
<1> DEFINE order == LongestFirst(samples, length)
           A == Seq(Seq(S))
           fold == [x \in A \X (1..n) |-> IntoBin(x[1], order[x[2]], length)]
           At(f, s) == IF s = {} THEN <<>>
                       ELSE IntoBin(f[s \ {Max(s)}], order[Max(s)], length)
           Fold(f) == f = [s \in SUBSET DOMAIN order |-> At(f, s)]
           g == CHOOSE f : Fold(f)
           c == [k \in 0..n |-> g[1..k]]
<1>1. fold \in [A \X (1..n) -> A]
  <2>1. ASSUME NEW x \in A \X (1..n)
        PROVE  IntoBin(x[1], order[x[2]], length) \in A
    <3>1. x[1] \in A /\ order[x[2]] \in S
      OBVIOUS
    <3> HIDE DEF order
    <3>2. QED
      BY <3>1, IntoBinType
  <2>2. QED
    BY <2>1
<1> HIDE DEF A
<1>2. \E f : Fold(f)
  <2> HIDE DEF fold
  <2>1. <<>> \in A
    BY DEF A
  <2>2. PICK f : FoldsBy(fold, <<>>, A, n, f)
    BY <1>1, <2>1, FoldExists
  <2>3. ASSUME NEW s \in SUBSET (1..n) PROVE f[s] = At(f, s)
    <3>1. CASE s = {}
      BY <2>2, <3>1 DEF FoldsBy
    <3>2. CASE s # {}
      <4>1. Max(s) \in 1..n /\ f[s \ {Max(s)}] \in A
        BY <2>2, <3>2, MaxProperties DEF FoldsBy
      <4>2. fold[<<f[s \ {Max(s)}], Max(s)>>]
              = IntoBin(f[s \ {Max(s)}], order[Max(s)], length)
        BY <4>1 DEF fold
      <4>3. f[s] = fold[<<f[s \ {Max(s)}], Max(s)>>]
        BY <2>2, <3>2 DEF FoldsBy
      <4>4. QED
        BY <3>2, <4>2, <4>3
    <3>3. QED
      BY <3>1, <3>2
  <2>4. Fold(f)
    <3>1. DOMAIN f = SUBSET (1..n) /\ DOMAIN order = 1..n
          /\ f = [s \in DOMAIN f |-> f[s]]
      BY <2>2 DEF FoldsBy
    <3> HIDE DEF At
    <3>2. [s \in SUBSET (1..n) |-> f[s]] = [s \in SUBSET (1..n) |-> At(f, s)]
      BY <2>3
    <3>3. QED
      BY <3>1, <3>2, Zenon
  <2>5. QED
    BY <2>4
<1>3. Fold(g)
  <2> HIDE DEF Fold
  <2>1. QED
    BY <1>2, Zenon
<1>4. ToConstantVolume(samples, length) = g[DOMAIN order]
  BY Zenon DEF ToConstantVolume, FoldLeft, MapThenFoldSet
<1>5. \A s \in SUBSET (1..n) : g[s] = At(g, s)
  <2> HIDE DEF g, At
  <2>1. DOMAIN order = 1..n
    OBVIOUS
  <2>2. QED
    BY <1>3, <2>1
<1> HIDE DEF g
<1>6. c[0] = <<>> /\ ToConstantVolume(samples, length) = c[n]
  <2>1. 1..0 = {} /\ {} \in SUBSET (1..n)
    OBVIOUS
  <2>2. g[{}] = <<>>
    BY <1>5
  <2>3. c[0] = g[{}] /\ c[n] = g[1..n] /\ DOMAIN order = 1..n
    BY <2>1
  <2> HIDE DEF c
  <2>4. QED
    BY <1>4, <2>2, <2>3
<1>7. ASSUME NEW k \in 1..n
      PROVE  c[k] = IntoBin(c[k - 1], order[k], length)
  <2>1. /\ Max(1..k) = k /\ (1..k) \ {Max(1..k)} = 1..(k - 1)
        /\ 1..k # {} /\ 1..k \in SUBSET (1..n)
    BY MaxOfInterval
  <2>2. c[k] = g[1..k] /\ c[k - 1] = g[1..(k - 1)]
    OBVIOUS
  <2>3. g[1..k] = At(g, 1..k)
    BY <1>5, <2>1
  <2> HIDE DEF c
  <2>4. At(g, 1..k) = IntoBin(g[1..(k - 1)], order[k], length)
    BY <2>1, Zenon
  <2>5. QED
    BY <2>2, <2>3, <2>4
<1>8. FillsBins(samples, length, n, c)
  <2> HIDE DEF c
  <2>1. QED
    BY <1>6, <1>7 DEF FillsBins
<1>9. QED
  BY <1>8

-----------------------------------------------------------------------------
(* Packs that have each of their samples once.                              *)

LEMMA EachOnceIs ==
    ASSUME NEW packs, NEW X
    PROVE  EachOnce(packs, X) <=>
             /\ \A k \in DOMAIN packs : \A i \in DOMAIN packs[k] : packs[k][i] \in X
             /\ \A x \in X : \E k \in DOMAIN packs : \E i \in DOMAIN packs[k] :
                    packs[k][i] = x
             /\ \A k, l \in DOMAIN packs :
                  \A i \in DOMAIN packs[k], j \in DOMAIN packs[l] :
                    packs[k][i] = packs[l][j] => k = l /\ i = j
<1>1. SamplesOf(packs) = X <=>
        /\ \A k \in DOMAIN packs : \A i \in DOMAIN packs[k] : packs[k][i] \in X
        /\ \A x \in X : \E k \in DOMAIN packs : \E i \in DOMAIN packs[k] :
               packs[k][i] = x
  BY DEF SamplesOf, ToSet
<1>2. QED
  BY <1>1 DEF EachOnce

LEMMA OnceIs ==
    ASSUME NEW s, NEW X
    PROVE  Once(s, X) <=>
             /\ \A i \in DOMAIN s : s[i] \in X
             /\ \A x \in X : \E i \in DOMAIN s : s[i] = x
             /\ \A i, j \in DOMAIN s : s[i] = s[j] => i = j
BY DEF Once, ToSet

LEMMA EachOnceEmpty == EachOnce(<<>>, {})
<1>1. DOMAIN <<>> = {}
  OBVIOUS
<1>2. QED
  BY <1>1, EachOnceIs

LEMMA OnceEmpty == Once(<<>>, {})
<1>1. DOMAIN <<>> = {}
  OBVIOUS
<1>2. QED
  BY <1>1, OnceIs

LEMMA OnePackOnce ==
    ASSUME NEW S, NEW pack \in Seq(S), NEW X, Once(pack, X)
    PROVE  EachOnce(<<pack>>, X)
<1>1. DOMAIN <<pack>> = {1} /\ <<pack>>[1] = pack
  OBVIOUS
<1> DEFINE packs == <<pack>>
<1> HIDE DEF packs
<1>2. EachOnce(packs, X)
  BY <1>1, OnceIs, EachOnceIs DEF packs
<1>3. QED
  BY <1>2 DEF packs

LEMMA ConcatOnce ==
    ASSUME NEW S, NEW s \in Seq(S), NEW t \in Seq(S), NEW X, NEW Y,
           Once(s, X), Once(t, Y), X \cap Y = {}
    PROVE  Once(s \o t, X \cup Y)
<1> DEFINE m == Len(s)
           n == Len(t)
           u == s \o t
<1>1. u \in Seq(S) /\ EndToEnd(s, t, u)
  BY ConcatAt
<1>2. /\ m \in Nat /\ n \in Nat /\ DOMAIN s = 1..m /\ DOMAIN t = 1..n
      /\ Len(u) = m + n /\ DOMAIN u = 1..Len(u)
      /\ \A i \in 1..m : u[i] = s[i]
      /\ \A i \in 1..n : u[m + i] = t[i]
  BY <1>1, LenProperties DEF EndToEnd
<1> HIDE DEF m, n, u
<1>3. /\ \A i \in 1..m : s[i] \in X
      /\ \A x \in X : \E i \in 1..m : s[i] = x
      /\ \A i, j \in 1..m : s[i] = s[j] => i = j
      /\ \A i \in 1..n : t[i] \in Y
      /\ \A x \in Y : \E i \in 1..n : t[i] = x
      /\ \A i, j \in 1..n : t[i] = t[j] => i = j
  BY <1>2, OnceIs
<1>4. ASSUME NEW i \in DOMAIN u
      PROVE  \/ i \in 1..m /\ u[i] = s[i] /\ u[i] \in X
             \/ i - m \in 1..n /\ u[i] = t[i - m] /\ u[i] \in Y
  <2>1. i \in 1..m \/ (i - m \in 1..n /\ m + (i - m) = i)
    BY <1>2
  <2>2. QED
    BY <1>2, <1>3, <2>1
<1>5. ASSUME NEW i \in DOMAIN u, NEW j \in DOMAIN u, u[i] = u[j] PROVE i = j
  <2>1. i \in Int /\ j \in Int
    BY <1>2
  <2>2. \/ i \in 1..m /\ j \in 1..m /\ s[i] = s[j]
        \/ i - m \in 1..n /\ j - m \in 1..n /\ t[i - m] = t[j - m]
    BY <1>4, <1>5
  <2>3. i = j \/ i - m = j - m
    BY <1>3, <2>2
  <2>4. QED
    BY <1>2, <2>1, <2>3
<1>6. ASSUME NEW x \in X \cup Y PROVE \E i \in DOMAIN u : u[i] = x
  <2>1. CASE x \in X
    BY <1>2, <1>3, <2>1
  <2>2. CASE x \in Y
    <3>1. PICK i \in 1..n : t[i] = x
      BY <1>3, <2>2
    <3>2. m + i \in DOMAIN u /\ u[m + i] = x
      BY <1>2, <3>1
    <3>3. QED
      BY <3>2
  <2>3. QED
    BY <2>1, <2>2
<1>7. Once(u, X \cup Y)
  BY <1>4, <1>5, <1>6, OnceIs
<1>8. QED
  BY <1>7 DEF u

LEMMA ConcatEachOnce ==
    ASSUME NEW S, NEW p \in Seq(Seq(S)), NEW q \in Seq(Seq(S)), NEW X, NEW Y,
           EachOnce(p, X), EachOnce(q, Y), X \cap Y = {}
    PROVE  EachOnce(p \o q, X \cup Y)
<1> DEFINE m == Len(p)
           n == Len(q)
           u == p \o q
<1>1. u \in Seq(Seq(S)) /\ EndToEnd(p, q, u)
  BY ConcatAt
<1>2. /\ m \in Nat /\ n \in Nat /\ DOMAIN p = 1..m /\ DOMAIN q = 1..n
      /\ Len(u) = m + n /\ DOMAIN u = 1..Len(u)
      /\ \A i \in 1..m : u[i] = p[i]
      /\ \A i \in 1..n : u[m + i] = q[i]
  BY <1>1, LenProperties DEF EndToEnd
<1> HIDE DEF m, n, u
<1>3. /\ \A k \in 1..m : \A i \in DOMAIN p[k] : p[k][i] \in X
      /\ \A x \in X : \E k \in 1..m : \E i \in DOMAIN p[k] : p[k][i] = x
      /\ \A k, l \in 1..m : \A i \in DOMAIN p[k], j \in DOMAIN p[l] :
            p[k][i] = p[l][j] => k = l /\ i = j
  <2>1. /\ \A k \in DOMAIN p : \A i \in DOMAIN p[k] : p[k][i] \in X
        /\ \A x \in X : \E k \in DOMAIN p : \E i \in DOMAIN p[k] : p[k][i] = x
        /\ \A k, l \in DOMAIN p : \A i \in DOMAIN p[k], j \in DOMAIN p[l] :
              p[k][i] = p[l][j] => k = l /\ i = j
    BY EachOnceIs
  <2>2. DOMAIN p = 1..m
    BY <1>2
  <2>3. QED
    BY <2>1, <2>2, Zenon
<1>4. /\ \A k \in 1..n : \A i \in DOMAIN q[k] : q[k][i] \in Y
      /\ \A x \in Y : \E k \in 1..n : \E i \in DOMAIN q[k] : q[k][i] = x
      /\ \A k, l \in 1..n : \A i \in DOMAIN q[k], j \in DOMAIN q[l] :
            q[k][i] = q[l][j] => k = l /\ i = j
  <2>1. /\ \A k \in DOMAIN q : \A i \in DOMAIN q[k] : q[k][i] \in Y
        /\ \A x \in Y : \E k \in DOMAIN q : \E i \in DOMAIN q[k] : q[k][i] = x
        /\ \A k, l \in DOMAIN q : \A i \in DOMAIN q[k], j \in DOMAIN q[l] :
              q[k][i] = q[l][j] => k = l /\ i = j
    BY EachOnceIs
  <2>2. DOMAIN q = 1..n
    BY <1>2
  <2>3. QED
    BY <2>1, <2>2, Zenon
<1>5. ASSUME NEW k \in DOMAIN u
      PROVE  \/ k \in 1..m /\ u[k] = p[k] /\ \A i \in DOMAIN u[k] : u[k][i] \in X
             \/ k - m \in 1..n /\ u[k] = q[k - m] /\ \A i \in DOMAIN u[k] : u[k][i] \in Y
  <2>1. k \in 1..m \/ (k - m \in 1..n /\ m + (k - m) = k)
    BY <1>2
  <2>2. QED
    BY <1>2, <1>3, <1>4, <2>1
<1>6. ASSUME NEW k \in DOMAIN u, NEW l \in DOMAIN u,
             NEW i \in DOMAIN u[k], NEW j \in DOMAIN u[l], u[k][i] = u[l][j]
      PROVE  k = l /\ i = j
  <2>1. k \in Int /\ l \in Int
    BY <1>2
  <2>2. \/ k \in 1..m /\ l \in 1..m /\ u[k] = p[k] /\ u[l] = p[l]
        \/ /\ k - m \in 1..n /\ l - m \in 1..n
           /\ u[k] = q[k - m] /\ u[l] = q[l - m]
    BY <1>5, <1>6
  <2>3. (k = l \/ k - m = l - m) /\ i = j
    <3>1. CASE k \in 1..m /\ l \in 1..m /\ u[k] = p[k] /\ u[l] = p[l]
      BY <1>3, <1>6, <3>1
    <3>2. CASE /\ k - m \in 1..n /\ l - m \in 1..n
               /\ u[k] = q[k - m] /\ u[l] = q[l - m]
      BY <1>4, <1>6, <3>2
    <3>3. QED
      BY <2>2, <3>1, <3>2
  <2>4. QED
    BY <1>2, <2>1, <2>3
<1>7. ASSUME NEW x \in X \cup Y
      PROVE  \E k \in DOMAIN u : \E i \in DOMAIN u[k] : u[k][i] = x
  <2>1. CASE x \in X
    <3>1. PICK k \in 1..m : \E i \in DOMAIN p[k] : p[k][i] = x
      BY <1>3, <2>1
    <3>2. k \in DOMAIN u /\ u[k] = p[k]
      BY <1>2
    <3>3. QED
      BY <3>1, <3>2
  <2>2. CASE x \in Y
    <3>1. PICK k \in 1..n : \E i \in DOMAIN q[k] : q[k][i] = x
      BY <1>4, <2>2
    <3>2. m + k \in DOMAIN u /\ u[m + k] = q[k]
      BY <1>2
    <3>3. QED
      BY <3>1, <3>2
  <2>3. QED
    BY <2>1, <2>2
<1>8. \A k \in DOMAIN u : \A i \in DOMAIN u[k] : u[k][i] \in X \cup Y
  BY <1>5
<1>9. EachOnce(u, X \cup Y)
  BY <1>6, <1>7, <1>8, EachOnceIs
<1>10. QED
  BY <1>9 DEF u

LEMMA AppendEachOnce ==
    ASSUME NEW S, NEW p \in Seq(Seq(S)), NEW pack \in Seq(S), NEW X, NEW Y,
           EachOnce(p, X), Once(pack, Y), X \cap Y = {}
    PROVE  EachOnce(Append(p, pack), X \cup Y)
<1>1. Append(p, pack) = p \o <<pack>>
  BY AppendIsConcat
<1>2. EachOnce(<<pack>>, Y)
  BY OnePackOnce
<1> DEFINE q == <<pack>>
<1>3. q \in Seq(Seq(S)) /\ EachOnce(q, Y)
  BY <1>2
<1> HIDE DEF q
<1>4. EachOnce(p \o q, X \cup Y)
  BY <1>3, ConcatEachOnce
<1>5. QED
  BY <1>1, <1>4 DEF q

LEMMA OneOnce == ASSUME NEW x PROVE Once(<<x>>, {x})
<1>1. DOMAIN <<x>> = {1} /\ <<x>>[1] = x
  OBVIOUS
<1> DEFINE s == <<x>>
<1> HIDE DEF s
<1>2. Once(s, {x})
  BY <1>1, OnceIs DEF s
<1>3. QED
  BY <1>2 DEF s

\* A sample more in one of the packs.
LEMMA GrowEachOnce ==
    ASSUME NEW S, NEW p \in Seq(Seq(S)), NEW b \in DOMAIN p, NEW x \in S,
           NEW X, EachOnce(p, X), x \notin X
    PROVE  EachOnce([p EXCEPT ![b] = Append(p[b], x)], X \cup {x})
<1> DEFINE more == Append(p[b], x)
           m == Len(p[b])
           q == [p EXCEPT ![b] = more]
<1>1. p[b] \in Seq(S)
  BY LenProperties, ElementOfSeq
<1>2. /\ m \in Nat /\ DOMAIN p[b] = 1..m /\ DOMAIN more = 1..(m + 1)
      /\ \A i \in 1..m : more[i] = p[b][i]
      /\ more[m + 1] = x
  BY <1>1, LenProperties, AppendProperties
<1>3. /\ DOMAIN q = DOMAIN p /\ q[b] = more
      /\ \A k \in DOMAIN p : k # b => q[k] = p[k]
  OBVIOUS
<1> HIDE DEF more, m, q
<1>4. /\ \A k \in DOMAIN p : \A i \in DOMAIN p[k] : p[k][i] \in X
      /\ \A y \in X : \E k \in DOMAIN p : \E i \in DOMAIN p[k] : p[k][i] = y
      /\ \A k, l \in DOMAIN p : \A i \in DOMAIN p[k], j \in DOMAIN p[l] :
            p[k][i] = p[l][j] => k = l /\ i = j
  BY EachOnceIs
<1>5. ASSUME NEW k \in DOMAIN q, NEW i \in DOMAIN q[k]
      PROVE  \/ i \in DOMAIN p[k] /\ q[k][i] = p[k][i] /\ q[k][i] \in X
             \/ k = b /\ i = m + 1 /\ q[k][i] = x
  <2>1. CASE k # b
    BY <1>3, <1>4, <2>1
  <2>2. CASE k = b
    <3>1. i \in 1..m \/ i = m + 1
      BY <1>2, <1>3, <2>2
    <3>2. QED
      BY <1>2, <1>3, <1>4, <2>2, <3>1
  <2>3. QED
    BY <2>1, <2>2
<1>6. ASSUME NEW k \in DOMAIN p, NEW i \in DOMAIN p[k]
      PROVE  k \in DOMAIN q /\ i \in DOMAIN q[k] /\ q[k][i] = p[k][i]
  <2>1. CASE k # b
    BY <1>3, <2>1
  <2>2. CASE k = b
    BY <1>2, <1>3, <2>2
  <2>3. QED
    BY <2>1, <2>2
<1>7. b \in DOMAIN q /\ m + 1 \in DOMAIN q[b] /\ q[b][m + 1] = x
  BY <1>2, <1>3
<1>8. ASSUME NEW k \in DOMAIN q, NEW l \in DOMAIN q,
             NEW i \in DOMAIN q[k], NEW j \in DOMAIN q[l], q[k][i] = q[l][j]
      PROVE  k = l /\ i = j
  <2>1. CASE q[k][i] = x
    BY <1>5, <1>8, <2>1
  <2>2. CASE q[k][i] # x
    <3>1. /\ i \in DOMAIN p[k] /\ q[k][i] = p[k][i]
          /\ j \in DOMAIN p[l] /\ q[l][j] = p[l][j]
      BY <1>5, <1>8, <2>2
    <3>2. k \in DOMAIN p /\ l \in DOMAIN p /\ p[k][i] = p[l][j]
      BY <1>3, <1>8, <3>1
    <3>3. i \in DOMAIN p[k] /\ j \in DOMAIN p[l]
      BY <3>1
    <3>4. \A i1 \in DOMAIN p[k], j1 \in DOMAIN p[l] :
              p[k][i1] = p[l][j1] => k = l /\ i1 = j1
      BY <1>4, <3>2
    <3>5. QED
      BY <3>2, <3>3, <3>4
  <2>3. QED
    BY <2>1, <2>2
<1>9. \A y \in X \cup {x} : \E k \in DOMAIN q : \E i \in DOMAIN q[k] : q[k][i] = y
  BY <1>4, <1>6, <1>7
<1>10. \A k \in DOMAIN q : \A i \in DOMAIN q[k] : q[k][i] \in X \cup {x}
  BY <1>5
<1>11. EachOnce(q, X \cup {x})
  BY <1>8, <1>9, <1>10, EachOnceIs
<1>12. QED
  BY <1>11 DEF q, more

-----------------------------------------------------------------------------
(* What to_constant_volume makes of a sequence of samples.                  *)

Fits(pack, length) ==
    /\ pack # <<>>
    /\ Volume(pack, length) <= PackingLength \/ Len(pack) = 1
Fit(packs, length) == \A b \in DOMAIN packs : Fits(packs[b], length)

LEMMA IntoBinOnce ==
    ASSUME NEW S, NEW bins \in Seq(Seq(S)), NEW s \in S, NEW length,
           \A x \in S : length[x] \in Nat, NEW X, EachOnce(bins, X), s \notin X
    PROVE  EachOnce(IntoBin(bins, s, length), X \cup {s})
<1>1. CASE IntoBin(bins, s, length) = Append(bins, <<s>>)
  <2> DEFINE pack == <<s>>
  <2>1. Once(pack, {s}) /\ pack \in Seq(S)
    BY OneOnce
  <2> HIDE DEF pack
  <2>2. EachOnce(Append(bins, pack), X \cup {s})
    BY <2>1, AppendEachOnce
  <2>3. QED
    BY <1>1, <2>2 DEF pack
<1>2. ASSUME NEW b \in DOMAIN bins,
             IntoBin(bins, s, length) = [bins EXCEPT ![b] = Append(bins[b], s)]
      PROVE  EachOnce(IntoBin(bins, s, length), X \cup {s})
  <2>1. EachOnce([bins EXCEPT ![b] = Append(bins[b], s)], X \cup {s})
    BY GrowEachOnce
  <2>2. QED
    BY <1>2, <2>1, Zenon
<1>3. \/ IntoBin(bins, s, length) = Append(bins, <<s>>)
      \/ \E b \in DOMAIN bins :
            IntoBin(bins, s, length) = [bins EXCEPT ![b] = Append(bins[b], s)]
  BY IntoBinIs
<1>4. QED
  BY <1>1, <1>2, <1>3, Zenon

LEMMA IntoBinFits ==
    ASSUME NEW S, NEW bins \in Seq(Seq(S)), NEW s \in S, NEW length,
           \A x \in S : length[x] \in Nat, Fit(bins, length)
    PROVE  Fit(IntoBin(bins, s, length), length)
<1>1. CASE IntoBin(bins, s, length) = Append(bins, <<s>>)
  <2> DEFINE pack == <<s>>
             more == Append(bins, pack)
  <2>1. Len(pack) = 1 /\ pack \in Seq(S) /\ pack # <<>>
    OBVIOUS
  <2> HIDE DEF pack
  <2>2. /\ DOMAIN more = 1..(Len(bins) + 1)
        /\ DOMAIN bins = 1..Len(bins) /\ Len(bins) \in Nat
        /\ \A k \in 1..Len(bins) : more[k] = bins[k]
        /\ more[Len(bins) + 1] = pack
    BY <2>1, AppendProperties, LenProperties
  <2> HIDE DEF more
  <2>3. Fit(more, length)
    BY <2>1, <2>2 DEF Fit, Fits
  <2>4. QED
    BY <1>1, <2>3 DEF more, pack
<1>2. ASSUME NEW b \in DOMAIN bins,
             Volume(bins[b], length) + length[s] <= PackingLength,
             IntoBin(bins, s, length) = [bins EXCEPT ![b] = Append(bins[b], s)]
      PROVE  Fit(IntoBin(bins, s, length), length)
  <2> DEFINE grown == Append(bins[b], s)
             more == [bins EXCEPT ![b] = grown]
  <2>1. bins[b] \in Seq(S)
    BY LenProperties, ElementOfSeq
  <2>2. Volume(grown, length) <= PackingLength /\ grown # <<>>
    <3>1. Volume(grown, length) = Volume(bins[b], length) + length[s]
      BY <2>1, VolumeAppend
    <3>2. grown # <<>>
      BY <2>1, AppendProperties
    <3> HIDE DEF grown
    <3>3. QED
      BY <1>2, <3>1, <3>2
  <2> HIDE DEF grown
  <2>3. /\ DOMAIN more = DOMAIN bins /\ more[b] = grown
        /\ \A k \in DOMAIN bins : k # b => more[k] = bins[k]
    OBVIOUS
  <2> HIDE DEF more
  <2>4. Fit(more, length)
    BY <2>2, <2>3 DEF Fit, Fits
  <2>5. QED
    BY <1>2, <2>4 DEF more, grown
<1>3. QED
  BY <1>1, <1>2, IntoBinIs

LEMMA ToConstantVolumeBins ==
    ASSUME NEW S, NEW samples \in Seq(S), NEW length,
           \A s \in S : length[s] \in Nat
    PROVE  /\ ToConstantVolume(samples, length) \in Seq(Seq(S))
           /\ Fit(ToConstantVolume(samples, length), length)
           /\ samples = <<>> <=> ToConstantVolume(samples, length) = <<>>
<1> DEFINE n == Len(samples)
           order == LongestFirst(samples, length)
<1>1. n \in Nat /\ order \in [1..n -> S]
  BY LongestFirstOnce, LenProperties
<1>2. PICK c : FillsBins(samples, length, n, c)
  BY <1>1, BinsByStep
<1>3. samples = <<>> <=> n = 0
  BY EmptySeq
<1> HIDE DEF n
<1>4. /\ c[0] = <<>>
      /\ \A k \in 1..n : c[k] = IntoBin(c[k - 1], order[k], length)
      /\ ToConstantVolume(samples, length) = c[n]
  BY <1>2 DEF FillsBins
<1> HIDE DEF order
<1> DEFINE Good(k) == /\ c[k] \in Seq(Seq(S)) /\ Fit(c[k], length)
                      /\ k # 0 => c[k] # <<>>
           T == {k \in 0..n : Good(k)}
<1>5. 0 \in T /\ T \in SUBSET Nat
  <2>1. <<>> \in Seq(Seq(S)) /\ DOMAIN <<>> = {}
    OBVIOUS
  <2>2. Fit(c[0], length)
    BY <1>4, <2>1 DEF Fit
  <2>3. Good(0)
    BY <1>4, <2>1, <2>2
  <2> HIDE DEF Good
  <2>4. 0 \in 0..n
    BY <1>1
  <2>5. QED
    BY <1>1, <2>3, <2>4
<1>6. ASSUME NEW k \in T, k < n PROVE k + 1 \in T
  <2>1. /\ k + 1 \in 1..n /\ k + 1 \in 0..n /\ (k + 1) - 1 = k
        /\ c[k] \in Seq(Seq(S)) /\ Fit(c[k], length)
    BY <1>1, <1>6
  <2>2. order[k + 1] \in S
    BY <1>1, <2>1
  <2>3. c[k + 1] = IntoBin(c[k], order[k + 1], length)
    <3>1. c[k + 1] = IntoBin(c[(k + 1) - 1], order[k + 1], length)
      BY <1>4, <2>1
    <3>2. QED
      BY <2>1, <3>1
  <2>4. Good(k + 1)
    BY <2>1, <2>2, <2>3, IntoBinType, IntoBinFits
  <2>5. QED
    BY <2>1, <2>4
<1>7. n \in T
  <2> HIDE DEF T
  <2>1. \A k \in 0..n : k \in T
    BY <1>1, <1>5, <1>6, Induction
  <2>2. QED
    BY <1>1, <2>1
<1>8. QED
  BY <1>3, <1>4, <1>7

LEMMA ToConstantVolumeOnce ==
    ASSUME NEW S, NEW samples \in Seq(S), NEW length,
           \A s \in S : length[s] \in Nat, NEW X, Once(samples, X)
    PROVE  EachOnce(ToConstantVolume(samples, length), X)
<1> DEFINE n == Len(samples)
           order == LongestFirst(samples, length)
           Had(k) == {order[i] : i \in 1..k}
<1>1. n \in Nat /\ order \in [1..n -> S] /\ Once(order, X)
  BY LongestFirstOnce, LenProperties
<1>2. PICK c : FillsBins(samples, length, n, c)
  BY <1>1, BinsByStep
<1> HIDE DEF n
<1>3. /\ c[0] = <<>>
      /\ \A k \in 1..n : c[k] = IntoBin(c[k - 1], order[k], length)
      /\ ToConstantVolume(samples, length) = c[n]
  BY <1>2 DEF FillsBins
<1> HIDE DEF order
<1>4. /\ \A i, j \in 1..n : order[i] = order[j] => i = j
      /\ Had(n) = X
  <2>1. DOMAIN order = 1..n
    BY <1>1
  <2>2. QED
    BY <1>1, <2>1, OnceIs
<1> DEFINE Good(k) == c[k] \in Seq(Seq(S)) /\ EachOnce(c[k], Had(k))
           T == {k \in 0..n : Good(k)}
<1>5. 0 \in T /\ T \in SUBSET Nat
  <2>1. Had(0) = {}
    OBVIOUS
  <2> HIDE DEF Had
  <2>2. <<>> \in Seq(Seq(S))
    OBVIOUS
  <2>3. Good(0)
    BY <1>3, <2>1, <2>2, EachOnceEmpty
  <2> HIDE DEF Good
  <2>4. 0 \in 0..n
    BY <1>1
  <2>5. QED
    BY <1>1, <2>3, <2>4
<1>6. ASSUME NEW k \in T, k < n PROVE k + 1 \in T
  <2>1. /\ k \in Nat /\ k + 1 \in 1..n /\ k + 1 \in 0..n /\ (k + 1) - 1 = k
        /\ c[k] \in Seq(Seq(S)) /\ EachOnce(c[k], Had(k))
    BY <1>1, <1>6
  <2>2. order[k + 1] \in S
    BY <1>1, <2>1
  <2>3. c[k + 1] = IntoBin(c[k], order[k + 1], length)
    <3>1. c[k + 1] = IntoBin(c[(k + 1) - 1], order[k + 1], length)
      BY <1>3, <2>1
    <3>2. QED
      BY <2>1, <3>1
  <2>4. order[k + 1] \notin Had(k)
    <3>1. \A i \in 1..k : i \in 1..n /\ i # k + 1
      BY <1>1, <2>1
    <3>2. QED
      BY <1>4, <2>1, <3>1
  <2>5. Had(k + 1) = Had(k) \cup {order[k + 1]}
    <3>1. 1..(k + 1) = (1..k) \cup {k + 1}
      BY <2>1
    <3>2. QED
      BY <3>1
  <2> HIDE DEF Had
  <2>6. Good(k + 1)
    <3>1. EachOnce(c[k + 1], Had(k) \cup {order[k + 1]})
      BY <2>1, <2>2, <2>3, <2>4, IntoBinOnce
    <3>2. c[k + 1] \in Seq(Seq(S))
      BY <2>1, <2>2, <2>3, IntoBinType
    <3>3. QED
      BY <2>5, <3>1, <3>2
  <2>7. QED
    BY <2>1, <2>6
<1>7. n \in T
  <2> HIDE DEF T
  <2>1. \A k \in 0..n : k \in T
    BY <1>1, <1>5, <1>6, Induction
  <2>2. QED
    BY <1>1, <2>1
<1>8. QED
  BY <1>3, <1>4, <1>7

-----------------------------------------------------------------------------
(* What calculate_matched_group makes of a round.                           *)

\* The last of the packs, and those before it.
LEMMA LastApart ==
    ASSUME NEW S, NEW bins \in Seq(S), bins # <<>>
    PROVE  /\ Front(bins) \in Seq(S) /\ Last(bins) \in S
           /\ Front(bins) \o <<Last(bins)>> = bins
<1> DEFINE n == Len(bins)
           front == Front(bins)
           last == Last(bins)
<1>1. n \in Nat \ {0} /\ bins \in [1..n -> S]
  BY LenProperties, EmptySeq
<1>2. front = SubSeq(bins, 1, n - 1) /\ last = bins[n]
  BY DEF Front, Last
<1> HIDE DEF n
<1>3. /\ 1 \in 1..(n + 1) /\ n - 1 \in 0..n /\ n \in 1..n
      /\ (n - 1) - 1 + 1 = n - 1
  BY <1>1
<1>4. last \in S
  BY <1>1, <1>2, <1>3
<1>5. front \in Seq(S) /\ Len(front) = n - 1 /\ \A i \in 1..(n - 1) : front[i] = bins[i]
  <2> HIDE DEF front, last
  <2>1. \A i \in 1..(n - 1) : bins[i] \in S
    BY <1>1
  <2>2. QED
    BY <1>1, <1>2, <1>3, <2>1, SubSeqProperties
<1>6. front \o <<last>> = bins
  <2> HIDE DEF front, last
  <2>1. Append(front, last) = front \o <<last>>
    BY <1>4, <1>5, AppendIsConcat
  <2> DEFINE all == Append(front, last)
  <2>2. /\ all \in Seq(S) /\ Len(all) = (n - 1) + 1
        /\ \A i \in 1..(n - 1) : all[i] = front[i]
        /\ all[(n - 1) + 1] = last
    BY <1>4, <1>5, AppendProperties
  <2> HIDE DEF all
  <2>3. Len(all) = n /\ \A i \in 1..n : all[i] = bins[i]
    <3>1. \A i \in 1..n : i \in 1..(n - 1) \/ i = (n - 1) + 1
      BY <1>1
    <3>2. (n - 1) + 1 = n
      BY <1>1
    <3>3. QED
      BY <1>2, <1>5, <2>2, <3>1, <3>2
  <2>4. all = bins
    BY <1>1, <2>2, <2>3, SeqEqual
  <2>5. QED
    BY <2>1, <2>4 DEF all
<1>7. QED
  BY <1>4, <1>5, <1>6

LEMMA MatchedPacks ==
    ASSUME NEW S, NEW samples \in Seq(S), NEW length,
           \A s \in S : length[s] \in Nat, NEW isFinished \in BOOLEAN
    PROVE  LET matched == CalculateMatchedGroup(samples, length, isFinished)
           IN  /\ matched.packs \in Seq(Seq(S)) /\ matched.rest \in Seq(S)
               /\ Fit(matched.packs, length)
               /\ isFinished => matched.rest = <<>>
               /\ samples = <<>> => matched.packs = <<>>
               /\ \A X : Once(samples, X) =>
                           EachOnce(matched.packs \o <<matched.rest>>, X)
<1> DEFINE matched == CalculateMatchedGroup(samples, length, isFinished)
           bins == ToConstantVolume(samples, length)
<1>1. /\ bins \in Seq(Seq(S)) /\ Fit(bins, length)
      /\ samples = <<>> <=> bins = <<>>
      /\ \A X : Once(samples, X) => EachOnce(bins, X)
  BY ToConstantVolumeBins, ToConstantVolumeOnce
<1>2. CASE samples = <<>> \/ isFinished
  <2>1. matched = [packs |-> bins, rest |-> <<>>]
    BY <1>2 DEF CalculateMatchedGroup
  <2> HIDE DEF bins, matched
  <2>2. matched.packs = bins /\ matched.rest = <<>> /\ <<>> \in Seq(S)
    BY <2>1
  <2>3. ASSUME NEW X, Once(samples, X)
        PROVE  EachOnce(bins \o << <<>> >>, X)
    <3> DEFINE none == <<>>
               q == <<none>>
    <3>1. none \in Seq(S) /\ Once(none, {})
      BY OnceEmpty
    <3> HIDE DEF none
    <3>2. EachOnce(<<none>>, {}) /\ none \in Seq(S)
      BY <3>1, OnePackOnce
    <3>3. q \in Seq(Seq(S)) /\ EachOnce(q, {})
      BY <3>2
    <3> HIDE DEF q
    <3>4. EachOnce(bins \o q, X \cup {})
      BY <1>1, <2>3, <3>3, ConcatEachOnce
    <3>5. X \cup {} = X
      OBVIOUS
    <3>6. QED
      BY <3>4, <3>5 DEF q, none
  <2>4. QED
    BY <1>1, <2>2, <2>3 DEF matched
<1>3. CASE ~(samples = <<>> \/ isFinished)
  <2>1. matched = [packs |-> Front(bins), rest |-> Last(bins)]
    BY <1>3 DEF CalculateMatchedGroup
  <2> HIDE DEF bins, matched
  <2>2. matched.packs = Front(bins) /\ matched.rest = Last(bins)
    BY <2>1
  <2>3. /\ Front(bins) \in Seq(Seq(S)) /\ Last(bins) \in Seq(S)
        /\ Front(bins) \o <<Last(bins)>> = bins
    BY <1>1, <1>3, LastApart
  <2>4. Fit(Front(bins), length)
    <3> DEFINE front == Front(bins)
               n == Len(front)
               q == <<Last(bins)>>
    <3>1. q \in Seq(Seq(S)) /\ front \in Seq(Seq(S)) /\ front \o q = bins
      BY <2>3
    <3> HIDE DEF front, q
    <3>2. /\ Len(bins) = n + Len(q) /\ n \in Nat /\ Len(q) \in Nat
          /\ \A i \in 1..n : bins[i] = front[i]
          /\ DOMAIN bins = 1..Len(bins) /\ DOMAIN front = 1..n
      BY <1>1, <3>1, ConcatAt, LenProperties DEF EndToEnd
    <3> HIDE DEF n
    <3>3. \A i \in 1..n : i \in DOMAIN bins
      BY <3>2
    <3>4. Fit(front, length)
      BY <1>1, <3>2, <3>3 DEF Fit
    <3>5. QED
      BY <3>4 DEF front
  <2>5. QED
    BY <1>1, <1>3, <2>2, <2>3, <2>4 DEF matched
<1>4. QED
  BY <1>2, <1>3

-----------------------------------------------------------------------------
(* What is kept of the results of a round.                                  *)

NotNone(slots, n) == {slots[i] : i \in 1..n} \ {0}

LEMMA KeptOnce ==
    ASSUME NEW S, NEW n \in Nat, NEW slots \in [1..n -> S],
           \A i, j \in 1..n : slots[i] = slots[j] /\ slots[i] # 0 => i = j
    PROVE  /\ Kept(slots) \in Seq(S)
           /\ Once(Kept(slots), NotNone(slots, n))
<1>1. PICK c : KeepsSlots(slots, n, c)
  BY KeptByStep
<1>2. /\ c[0] = <<>>
      /\ \A k \in 1..n :
           c[k] = IF slots[k] = 0 THEN c[k - 1] ELSE Append(c[k - 1], slots[k])
      /\ Kept(slots) = c[n]
  BY <1>1 DEF KeepsSlots
<1> DEFINE Had(k) == {slots[i] : i \in 1..k} \ {0}
           Good(k) == c[k] \in Seq(S) /\ Once(c[k], Had(k))
           T == {k \in 0..n : Good(k)}
<1>3. 0 \in T /\ T \in SUBSET Nat
  <2>1. Had(0) = {}
    OBVIOUS
  <2>2. <<>> \in Seq(S)
    OBVIOUS
  <2> HIDE DEF Had
  <2>3. Good(0)
    BY <1>2, <2>1, <2>2, OnceEmpty
  <2> HIDE DEF Good
  <2>4. QED
    BY <2>3
<1>4. ASSUME NEW k \in T, k < n PROVE k + 1 \in T
  <2>1. /\ k \in Nat /\ k + 1 \in 1..n /\ k + 1 \in 0..n /\ (k + 1) - 1 = k
        /\ 1..(k + 1) = (1..k) \cup {k + 1}
    BY <1>4
  <2>2. Good(k)
    OBVIOUS
  <2>3. c[k + 1] = IF slots[k + 1] = 0 THEN c[k] ELSE Append(c[k], slots[k + 1])
    <3>1. c[k + 1] = IF slots[k + 1] = 0 THEN c[(k + 1) - 1]
                     ELSE Append(c[(k + 1) - 1], slots[k + 1])
      BY <1>2, <2>1
    <3>2. QED
      BY <2>1, <3>1
  <2>4. CASE slots[k + 1] = 0
    <3>1. Had(k + 1) = Had(k)
      BY <2>1, <2>4
    <3> HIDE DEF Had
    <3>2. Good(k + 1)
      BY <2>2, <2>3, <2>4, <3>1
    <3>3. QED
      BY <2>1, <3>2
  <2>5. CASE slots[k + 1] # 0
    <3> DEFINE e == slots[k + 1]
    <3>1. Had(k + 1) = Had(k) \cup {e}
      BY <2>1, <2>5
    <3>2. e \notin Had(k)
      <4>1. \A i \in 1..k : i \in 1..n /\ i # k + 1
        BY <1>4, <2>1
      <4>2. QED
        BY <2>1, <2>5, <4>1
    <3>3. e \in S
      BY <2>1
    <3> HIDE DEF Had, e
    <3>4. c[k + 1] = c[k] \o <<e>>
      <4>1. c[k + 1] = Append(c[k], e)
        BY <2>3, <2>5 DEF e
      <4>2. QED
        BY <2>2, <3>3, <4>1, AppendIsConcat
    <3> DEFINE one == <<e>>
    <3>5. one \in Seq(S) /\ Once(one, {e})
      BY <3>3, OneOnce
    <3> HIDE DEF one
    <3>6. c[k] \o one \in Seq(S)
      BY <2>2, <3>5, ConcatAt
    <3>7. Once(c[k] \o one, Had(k) \cup {e})
      <4>1. Had(k) \cap {e} = {}
        BY <3>2
      <4>2. QED
        BY <2>2, <3>5, <4>1, ConcatOnce
    <3>8. Good(k + 1)
      BY <3>1, <3>4, <3>6, <3>7 DEF one
    <3>9. QED
      BY <2>1, <3>8
  <2>6. QED
    BY <2>4, <2>5
<1>5. n \in T
  <2> HIDE DEF T
  <2>1. \A k \in 0..n : k \in T
    BY <1>3, <1>4, Induction
  <2>2. QED
    BY <2>1
<1>6. Once(Kept(slots), Had(n)) /\ Kept(slots) \in Seq(S)
  <2> HIDE DEF Had
  <2>1. QED
    BY <1>2, <1>5
<1>7. QED
  BY <1>6, Zenon DEF NotNone

-----------------------------------------------------------------------------
(* Packing in rounds, step by step.                                         *)

\* What has been packed, and what is held back, after another round.
PackedOn(state, samples, length, last) ==
    LET matched == CalculateMatchedGroup(state.rest \o samples, length, last)
    IN  [packs |-> state.packs \o matched.packs, rest |-> matched.rest]

States(S) == [packs : Seq(Seq(S)), rest : Seq(S)]
NothingPacked == [packs |-> <<>>, rest |-> <<>>]

PacksRounds(rounds, length, n, c) ==
    /\ c[0] = NothingPacked
    /\ \A k \in 1..n : c[k] = PackedOn(c[k - 1], rounds[k], length, k = n)
    /\ PackInRounds(rounds, length) = c[n].packs

LEMMA PackedOnType ==
    ASSUME NEW S, NEW state \in States(S), NEW samples \in Seq(S), NEW length,
           \A s \in S : length[s] \in Nat, NEW last \in BOOLEAN
    PROVE  PackedOn(state, samples, length, last) \in States(S)
<1> DEFINE all == state.rest \o samples
           matched == CalculateMatchedGroup(all, length, last)
<1>1. state.packs \in Seq(Seq(S)) /\ state.rest \in Seq(S)
  BY DEF States
<1>2. all \in Seq(S)
  BY <1>1, ConcatProperties
<1> HIDE DEF all
<1>3. matched.packs \in Seq(Seq(S)) /\ matched.rest \in Seq(S)
  BY <1>2, MatchedPacks
<1> HIDE DEF matched
<1>4. state.packs \o matched.packs \in Seq(Seq(S))
  BY <1>1, <1>3, ConcatProperties
<1>5. PackedOn(state, samples, length, last)
        = [packs |-> state.packs \o matched.packs, rest |-> matched.rest]
  BY DEF PackedOn, matched, all
<1>6. QED
  BY <1>3, <1>4, <1>5 DEF States

LEMMA RoundsByStep ==
    ASSUME NEW S, NEW n \in Nat, NEW rounds \in [1..n -> Seq(S)], NEW length,
           \A s \in S : length[s] \in Nat
    PROVE  \E c \in [0..n -> States(S)] : PacksRounds(rounds, length, n, c)
<1> DEFINE A == States(S)
           idx == [k \in 1..Len(rounds) |-> k]
           Round(state, k) ==
               [packs |-> state.packs
                   \o CalculateMatchedGroup(state.rest \o rounds[k], length,
                          k = Len(rounds)).packs,
                rest |-> CalculateMatchedGroup(state.rest \o rounds[k], length,
                             k = Len(rounds)).rest]
           base == [packs |-> <<>>, rest |-> <<>>]
           At(f, s) == IF s = {} THEN base ELSE Round(f[s \ {Max(s)}], idx[Max(s)])
           Fold(f) == f = [s \in SUBSET DOMAIN idx |-> At(f, s)]
           g == CHOOSE f : Fold(f)
           fold == [x \in A \X (1..n) |-> PackedOn(x[1], rounds[x[2]], length, x[2] = n)]
           c == [k \in 0..n |-> g[1..k]]
<1>1. Len(rounds) = n /\ DOMAIN idx = 1..n /\ \A k \in 1..n : idx[k] = k
  OBVIOUS
<1>2. \A state, k : Round(state, k) = PackedOn(state, rounds[k], length, k = n)
  <2>1. Len(rounds) = n
    BY <1>1
  <2>2. QED
    BY <2>1, Zenon DEF PackedOn
<1>3. base \in A /\ base = NothingPacked
  BY DEF States, NothingPacked
<1>4. fold \in [A \X (1..n) -> A]
  <2>1. ASSUME NEW x \in A \X (1..n)
        PROVE  PackedOn(x[1], rounds[x[2]], length, x[2] = n) \in A
    <3>1. x[1] \in A /\ rounds[x[2]] \in Seq(S) /\ (x[2] = n) \in BOOLEAN
      OBVIOUS
    <3>2. QED
      BY <3>1, PackedOnType
  <2> HIDE DEF A
  <2>2. QED
    BY <2>1
<1>5. PackInRounds(rounds, length) = g[DOMAIN idx].packs
  BY Zenon DEF PackInRounds, FoldLeft, MapThenFoldSet
<1> HIDE DEF A, idx, Round, base
<1>6. PICK f : FoldsBy(fold, base, A, n, f)
  <2> HIDE DEF fold
  <2>1. QED
    BY <1>3, <1>4, FoldExists
<1>7. ASSUME NEW s \in SUBSET (1..n) PROVE f[s] = At(f, s)
  <2>1. CASE s = {}
    BY <1>6, <2>1 DEF FoldsBy
  <2>2. CASE s # {}
    <3>1. Max(s) \in 1..n /\ f[s \ {Max(s)}] \in A /\ idx[Max(s)] = Max(s)
      BY <1>1, <1>6, <2>2, MaxProperties DEF FoldsBy
    <3>2. fold[<<f[s \ {Max(s)}], Max(s)>>]
            = PackedOn(f[s \ {Max(s)}], rounds[Max(s)], length, Max(s) = n)
      BY <3>1 DEF fold
    <3>3. f[s] = fold[<<f[s \ {Max(s)}], Max(s)>>]
      BY <1>6, <2>2 DEF FoldsBy
    <3>4. At(f, s) = Round(f[s \ {Max(s)}], Max(s))
      BY <2>2, <3>1
    <3>5. QED
      BY <1>2, <3>2, <3>3, <3>4
  <2>3. QED
    BY <2>1, <2>2
<1>8. Fold(f)
  <2>1. DOMAIN f = SUBSET (1..n) /\ f = [s \in DOMAIN f |-> f[s]]
    BY <1>6 DEF FoldsBy
  <2> HIDE DEF At
  <2>2. [s \in SUBSET (1..n) |-> f[s]] = [s \in SUBSET (1..n) |-> At(f, s)]
    BY <1>7
  <2>3. QED
    BY <1>1, <2>1, <2>2, Zenon
<1>9. Fold(g)
  <2> HIDE DEF Fold
  <2>1. QED
    BY <1>8, Zenon
<1>10. ASSUME NEW s \in SUBSET (1..n) PROVE g[s] = At(g, s)
  <2> HIDE DEF g, At
  <2>1. QED
    BY <1>1, <1>9
<1> HIDE DEF g
<1>11. c[0] = NothingPacked /\ PackInRounds(rounds, length) = c[n].packs
  <2>1. 1..0 = {} /\ {} \in SUBSET (1..n)
    OBVIOUS
  <2>2. g[{}] = base
    BY <1>10
  <2>3. c[0] = g[{}] /\ c[n] = g[1..n] /\ DOMAIN idx = 1..n
    BY <1>1, <2>1
  <2> HIDE DEF c
  <2>4. QED
    BY <1>3, <1>5, <2>2, <2>3
<1>12. ASSUME NEW k \in 1..n
       PROVE  c[k] = PackedOn(c[k - 1], rounds[k], length, k = n)
  <2>1. /\ Max(1..k) = k /\ (1..k) \ {Max(1..k)} = 1..(k - 1)
        /\ 1..k # {} /\ 1..k \in SUBSET (1..n)
    BY MaxOfInterval
  <2>2. c[k] = g[1..k] /\ c[k - 1] = g[1..(k - 1)] /\ idx[k] = k
    BY <1>1
  <2>3. g[1..k] = At(g, 1..k)
    BY <1>10, <2>1
  <2> HIDE DEF c
  <2>4. At(g, 1..k) = Round(g[1..(k - 1)], k)
    BY <2>1, <2>2, Zenon
  <2>5. QED
    BY <1>2, <2>2, <2>3, <2>4
<1>13. PacksRounds(rounds, length, n, c)
  <2> HIDE DEF c
  <2>1. QED
    BY <1>11, <1>12 DEF PacksRounds
<1>14. c \in [0..n -> States(S)]
  <2> DEFINE T == {k \in 0..n : c[k] \in A}
  <2>1. 0 \in T /\ T \in SUBSET Nat
    <3> HIDE DEF c
    <3>1. QED
      BY <1>3, <1>11
  <2>2. ASSUME NEW k \in T, k < n PROVE k + 1 \in T
    <3> HIDE DEF c
    <3>1. k + 1 \in 1..n /\ k + 1 \in 0..n /\ (k + 1) - 1 = k /\ c[k] \in A
      BY <2>2
    <3>2. c[k + 1] = PackedOn(c[(k + 1) - 1], rounds[k + 1], length, k + 1 = n)
      BY <1>12, <3>1
    <3>3. rounds[k + 1] \in Seq(S) /\ (k + 1 = n) \in BOOLEAN
      BY <3>1
    <3>4. c[k] \in States(S)
      BY <3>1 DEF A
    <3>5. PackedOn(c[k], rounds[k + 1], length, k + 1 = n) \in States(S)
      BY <3>3, <3>4, PackedOnType
    <3>6. c[k + 1] \in A
      BY <3>1, <3>2, <3>5 DEF A
    <3>7. QED
      BY <3>1, <3>6
  <2> HIDE DEF T
  <2>3. \A k \in 0..n : k \in T
    BY <2>1, <2>2, Induction
  <2>4. \A k \in 0..n : c[k] \in A
    BY <2>3 DEF T
  <2>5. QED
    BY <2>4 DEF A
<1>15. QED
  BY <1>13, <1>14

\* Packing on keeps every sample once.
LEMMA PackedOnOnce ==
    ASSUME NEW S, NEW state \in States(S), NEW samples \in Seq(S), NEW length,
           \A s \in S : length[s] \in Nat, NEW last \in BOOLEAN, NEW X, NEW N,
           EachOnce(state.packs \o <<state.rest>>, X), Once(samples, N),
           X \cap N = {}
    PROVE  LET next == PackedOn(state, samples, length, last)
           IN  EachOnce(next.packs \o <<next.rest>>, X \cup N)
<1> DEFINE p == state.packs
           r == state.rest
           all == r \o samples
           matched == CalculateMatchedGroup(all, length, last)
           q == <<r>>
           m == Len(p)
           u == p \o q
           P == SamplesOf(p)
           R == ToSet(r)
<1>1. p \in Seq(Seq(S)) /\ r \in Seq(S) /\ q \in Seq(Seq(S))
  BY DEF States
<1>2. /\ m \in Nat /\ DOMAIN p = 1..m /\ DOMAIN u = 1..(m + 1)
      /\ \A k \in 1..m : u[k] = p[k]
      /\ u[m + 1] = r
  <2>1. u \in Seq(Seq(S)) /\ EndToEnd(p, q, u)
    BY <1>1, ConcatAt
  <2>2. Len(q) = 1 /\ q[1] = r
    OBVIOUS
  <2>3. m \in Nat /\ DOMAIN p = 1..m /\ DOMAIN u = 1..Len(u)
    BY <1>1, <2>1, LenProperties
  <2>4. /\ Len(u) = m + Len(q)
        /\ \A k \in 1..m : u[k] = p[k]
        /\ \A k \in 1..Len(q) : u[m + k] = q[k]
    BY <2>1 DEF EndToEnd
  <2> HIDE DEF m, u, q
  <2>5. QED
    BY <2>2, <2>3, <2>4
<1> HIDE DEF m, u
<1>3. EachOnce(u, X)
  BY DEF u
<1>4. /\ \A k \in DOMAIN u : \A i \in DOMAIN u[k] : u[k][i] \in X
      /\ \A x \in X : \E k \in DOMAIN u : \E i \in DOMAIN u[k] : u[k][i] = x
      /\ \A k, l \in DOMAIN u : \A i \in DOMAIN u[k], j \in DOMAIN u[l] :
            u[k][i] = u[l][j] => k = l /\ i = j
  BY <1>3, EachOnceIs
<1>5. EachOnce(p, P)
  <2>1. \A k \in 1..m : k \in DOMAIN u
    BY <1>2
  <2>2. \A k, l \in DOMAIN p : \A i \in DOMAIN p[k], j \in DOMAIN p[l] :
            p[k][i] = p[l][j] => k = l /\ i = j
    BY <1>2, <1>4, <2>1
  <2>3. QED
    BY <2>2 DEF EachOnce
<1>6. Once(r, R)
  <2>1. m + 1 \in DOMAIN u
    BY <1>2
  <2>2. QED
    BY <1>2, <1>4, <2>1 DEF Once
<1>7. P \cup R = X /\ P \cap R = {}
  <2>1. \A k \in DOMAIN u : k \in 1..m \/ k = m + 1
    BY <1>2
  <2>2. \A k \in 1..m : k \in DOMAIN u /\ k # m + 1
    BY <1>2
  <2>3. m + 1 \in DOMAIN u
    BY <1>2
  <2>4. \A x : x \in P <=> \E k \in 1..m : \E i \in DOMAIN u[k] : u[k][i] = x
    BY <1>2 DEF SamplesOf, ToSet
  <2>5. \A x : x \in R <=> \E i \in DOMAIN u[m + 1] : u[m + 1][i] = x
    BY <1>2 DEF ToSet
  <2> HIDE DEF P, R
  <2>6. \A x \in X : x \in P \/ x \in R
    BY <1>4, <2>1, <2>4, <2>5
  <2>7. \A x \in P \cup R : x \in X
    BY <1>4, <2>2, <2>3, <2>4, <2>5
  <2>8. ASSUME NEW x \in P, x \in R PROVE FALSE
    <3>1. PICK k \in 1..m : \E i \in DOMAIN u[k] : u[k][i] = x
      BY <2>4
    <3>2. PICK i \in DOMAIN u[k] : u[k][i] = x
      BY <3>1
    <3>3. PICK j \in DOMAIN u[m + 1] : u[m + 1][j] = x
      BY <2>5, <2>8
    <3>4. k = m + 1
      BY <1>4, <2>2, <2>3, <3>2, <3>3
    <3>5. QED
      BY <2>2, <3>4
  <2>9. QED
    BY <2>6, <2>7, <2>8
<1> HIDE DEF P, R, p, r, q
<1>8. all \in Seq(S) /\ Once(all, R \cup N)
  <2>1. R \cap N = {}
    BY <1>7
  <2>2. QED
    BY <1>1, <1>6, <2>1, ConcatOnce, ConcatProperties
<1> HIDE DEF all
<1>9. /\ matched.packs \in Seq(Seq(S)) /\ matched.rest \in Seq(S)
      /\ EachOnce(matched.packs \o <<matched.rest>>, R \cup N)
  BY <1>8, MatchedPacks
<1> HIDE DEF matched
<1> DEFINE t == <<matched.rest>>
           v == matched.packs \o t
<1>10. t \in Seq(Seq(S)) /\ EachOnce(v, R \cup N)
  BY <1>9
<1> HIDE DEF t
<1>11. v \in Seq(Seq(S))
  BY <1>9, <1>10, ConcatProperties
<1> HIDE DEF v
<1>12. EachOnce(p \o v, P \cup (R \cup N))
  <2>1. P \cap (R \cup N) = {}
    BY <1>7
  <2>2. QED
    BY <1>1, <1>5, <1>10, <1>11, <2>1, ConcatEachOnce
<1>13. P \cup (R \cup N) = X \cup N
  BY <1>7
<1>14. (p \o matched.packs) \o t = p \o v
  <2> DEFINE more == matched.packs
             A == Seq(S)
  <2>1. p \in Seq(A) /\ more \in Seq(A) /\ t \in Seq(A)
    BY <1>1, <1>9, <1>10
  <2> HIDE DEF more, A
  <2>2. (p \o more) \o t = p \o (more \o t)
    BY <2>1, ConcatAssociative, SMTT(30)
  <2>3. QED
    BY <2>2 DEF more, v
<1>15. PackedOn(state, samples, length, last)
        = [packs |-> p \o matched.packs, rest |-> matched.rest]
  BY DEF PackedOn, matched, all, p, r
<1>16. EachOnce((p \o matched.packs) \o t, X \cup N)
  BY <1>12, <1>13, <1>14
<1>17. QED
  BY <1>15, <1>16 DEF t

-----------------------------------------------------------------------------
(* Packing rounds of any samples, each at most once.                        *)

\* X(k) are the samples of the first k rounds, a function.
RoundsOnce(rounds, n, X) ==
    /\ X[0] = {}
    /\ \A k \in 1..n : \E N : /\ Once(rounds[k], N)
                              /\ X[k - 1] \cap N = {}
                              /\ X[k] = X[k - 1] \cup N

LEMMA RoundsPackedOnce ==
    ASSUME NEW S, NEW n \in Nat, NEW rounds \in [1..n -> Seq(S)], NEW length,
           \A s \in S : length[s] \in Nat,
           NEW c \in [0..n -> States(S)], PacksRounds(rounds, length, n, c),
           NEW X, RoundsOnce(rounds, n, X)
    PROVE  \A k \in 0..n : EachOnce(c[k].packs \o <<c[k].rest>>, X[k])
<1> DEFINE Good(k) == EachOnce(c[k].packs \o <<c[k].rest>>, X[k])
           T == {k \in 0..n : Good(k)}
<1>1. 0 \in T /\ T \in SUBSET Nat
  <2>1. c[0].packs = <<>> /\ c[0].rest = <<>> /\ X[0] = {}
    BY DEF PacksRounds, NothingPacked, RoundsOnce
  <2> DEFINE none == <<>>
             q == <<none>>
  <2>2. EachOnce(q, {})
    <3>1. none \in Seq(S) /\ Once(none, {})
      BY OnceEmpty
    <3> HIDE DEF none
    <3>2. QED
      BY <3>1, OnePackOnce
  <2>3. none \o q = q
    <3>1. q \in Seq({none})
      OBVIOUS
    <3> HIDE DEF q
    <3>2. QED
      BY <3>1, ConcatEmptySeq
  <2> HIDE DEF q, none
  <2>4. Good(0)
    <3>1. c[0].packs = none /\ c[0].rest = none
      BY <2>1 DEF none
    <3>2. c[0].packs \o <<c[0].rest>> = q
      BY <2>3, <3>1 DEF q
    <3>3. QED
      BY <2>1, <2>2, <3>2
  <2> HIDE DEF Good
  <2>5. QED
    BY <2>4
<1>2. ASSUME NEW k \in T, k < n PROVE k + 1 \in T
  <2>1. /\ k \in Nat /\ k + 1 \in 1..n /\ k + 1 \in 0..n /\ (k + 1) - 1 = k
        /\ k \in 0..n /\ Good(k)
    BY <1>2
  <2>2. /\ c[k + 1] = PackedOn(c[k], rounds[k + 1], length, k + 1 = n)
        /\ c[k] \in States(S) /\ rounds[k + 1] \in Seq(S)
    <3>1. c[k + 1] = PackedOn(c[(k + 1) - 1], rounds[k + 1], length, k + 1 = n)
      BY <2>1 DEF PacksRounds
    <3>2. QED
      BY <2>1, <3>1
  <2>3. PICK N : /\ Once(rounds[k + 1], N) /\ X[k] \cap N = {}
                 /\ X[k + 1] = X[k] \cup N
    <3>1. PICK N : /\ Once(rounds[k + 1], N) /\ X[(k + 1) - 1] \cap N = {}
                   /\ X[k + 1] = X[(k + 1) - 1] \cup N
      BY <2>1 DEF RoundsOnce
    <3>2. QED
      BY <2>1, <3>1
  <2> DEFINE last == (k + 1 = n)
             new == rounds[k + 1]
             state == c[k]
             Y == X[k]
  <2>4. /\ EachOnce(state.packs \o <<state.rest>>, Y)
        /\ state \in States(S) /\ new \in Seq(S) /\ Once(new, N)
        /\ last \in BOOLEAN /\ Y \cap N = {}
    BY <2>1, <2>2, <2>3
  <2>5. c[k + 1] = PackedOn(state, new, length, last) /\ X[k + 1] = Y \cup N
    BY <2>2, <2>3
  <2> HIDE DEF last, new, state, Y
  <2> DEFINE next == PackedOn(state, new, length, last)
  <2>6. EachOnce(next.packs \o <<next.rest>>, Y \cup N)
    BY <2>4, PackedOnOnce
  <2> HIDE DEF next
  <2>7. c[k + 1] = next
    BY <2>5 DEF next
  <2>8. Good(k + 1)
    BY <2>5, <2>6, <2>7
  <2> HIDE DEF Good
  <2>9. QED
    BY <2>1, <2>8
<1>3. ASSUME NEW k \in 0..n PROVE k \in T
  <2> HIDE DEF T
  <2>1. QED
    BY <1>1, <1>2, Induction
<1>4. QED
  BY <1>3

LEMMA ConcatFits ==
    ASSUME NEW S, NEW p \in Seq(Seq(S)), NEW q \in Seq(Seq(S)), NEW length,
           Fit(p, length), Fit(q, length)
    PROVE  Fit(p \o q, length)
<1> DEFINE u == p \o q
           m == Len(p)
           l == Len(q)
           t == Len(u)
           A == Seq(S)
<1>1. u \in Seq(A) /\ EndToEnd(p, q, u)
  BY ConcatAt
<1>2. /\ m \in Nat /\ l \in Nat /\ DOMAIN p = 1..m /\ DOMAIN q = 1..l
      /\ t \in Nat /\ DOMAIN u = 1..t
  <2> HIDE DEF u
  <2>1. QED
    BY <1>1, LenProperties
<1>3. /\ t = m + l /\ \A i \in 1..m : u[i] = p[i]
      /\ \A i \in 1..l : u[m + i] = q[i]
  BY <1>1 DEF EndToEnd
<1> HIDE DEF u, m, l, t
<1>4. ASSUME NEW i \in 1..(m + l)
      PROVE  Fits(u[i], length)
  <2>1. CASE i \in 1..m
    BY <1>2, <1>3, <2>1 DEF Fit
  <2>2. CASE ~(i \in 1..m)
    <3>1. i - m \in 1..l /\ m + (i - m) = i
      BY <1>2, <2>2
    <3>2. u[i] = q[i - m]
      BY <1>3, <3>1
    <3>3. QED
      BY <1>2, <3>1, <3>2 DEF Fit
  <2>3. QED
    BY <2>1, <2>2
<1>5. DOMAIN u = 1..(m + l)
  BY <1>2, <1>3
<1>6. QED
  BY <1>4, <1>5 DEF Fit, u

\* Everything packed so far fits; after the last round nothing is held back.
LEMMA RoundsFit ==
    ASSUME NEW S, NEW n \in Nat, NEW rounds \in [1..n -> Seq(S)], NEW length,
           \A s \in S : length[s] \in Nat,
           NEW c \in [0..n -> States(S)], PacksRounds(rounds, length, n, c)
    PROVE  c[n].rest = <<>> /\ \A k \in 0..n : Fit(c[k].packs, length)
<1> DEFINE Good(k) == Fit(c[k].packs, length) /\ (k = n => c[k].rest = <<>>)
           T == {k \in 0..n : Good(k)}
<1>1. 0 \in T /\ T \in SUBSET Nat
  <2>1. c[0].packs = <<>> /\ c[0].rest = <<>>
    BY DEF PacksRounds, NothingPacked
  <2>2. DOMAIN c[0].packs = {}
    BY <2>1
  <2>3. Fit(c[0].packs, length)
    BY <2>2 DEF Fit
  <2>4. QED
    BY <2>1, <2>3
<1>2. ASSUME NEW k \in T, k < n PROVE k + 1 \in T
  <2>1. /\ k \in Nat /\ k + 1 \in 1..n /\ k + 1 \in 0..n /\ (k + 1) - 1 = k
        /\ k \in 0..n /\ Good(k)
    BY <1>2
  <2>2. /\ c[k + 1] = PackedOn(c[k], rounds[k + 1], length, k + 1 = n)
        /\ c[k] \in States(S) /\ rounds[k + 1] \in Seq(S)
    <3>1. c[k + 1] = PackedOn(c[(k + 1) - 1], rounds[k + 1], length, k + 1 = n)
      BY <2>1 DEF PacksRounds
    <3>2. QED
      BY <2>1, <3>1
  <2> DEFINE last == (k + 1 = n)
             p == c[k].packs
             r == c[k].rest
             all == r \o rounds[k + 1]
             matched == CalculateMatchedGroup(all, length, last)
             more == matched.packs
             rest == matched.rest
             q == p \o more
  <2>3. p \in Seq(Seq(S)) /\ r \in Seq(S) /\ Fit(p, length)
    BY <2>1, <2>2 DEF States
  <2>4. all \in Seq(S) /\ last \in BOOLEAN
    BY <2>2, <2>3, ConcatProperties
  <2>5. c[k + 1] = [packs |-> q, rest |-> rest]
    BY <2>2 DEF PackedOn
  <2> HIDE DEF all, last
  <2>6. more \in Seq(Seq(S)) /\ Fit(more, length) /\ (last => rest = <<>>)
    BY <2>4, MatchedPacks
  <2> HIDE DEF more, p, rest
  <2>7. Fit(q, length)
    BY <2>3, <2>6, ConcatFits
  <2> HIDE DEF q
  <2>8. c[k + 1].packs = q /\ c[k + 1].rest = rest
    BY <2>5
  <2>9. Good(k + 1)
    BY <2>6, <2>7, <2>8 DEF last
  <2> HIDE DEF Good
  <2>10. QED
    BY <2>1, <2>9
<1>3. ASSUME NEW k \in 0..n PROVE k \in T
  <2> HIDE DEF T
  <2>1. QED
    BY <1>1, <1>2, Induction
<1>4. n \in T
  BY <1>3
<1>5. QED
  BY <1>3, <1>4

-----------------------------------------------------------------------------
(***************************************************************************)
(* A round of a stream.  Its samples are numbered by the slots they were   *)
(* put under.  At any time each of them is in one of the queues, with a    *)
(* worker, or in its slot; and there are as many results under way as the  *)
(* iteration still has to fetch.                                           *)
(***************************************************************************)

SetupInv == args \in Setups /\ dataset = args.dataset /\ strict = args.strict

RoundType ==
    /\ phase \in {"start", "put", "fetch", "yield", "end"}
    /\ taken \in Nat /\ put \in 0..PackingInterval /\ fetched \in Nat
    /\ put <= taken /\ taken <= Len(dataset)
    /\ inQueue \in Seq(Items) /\ outQueue \in Seq(Results)
    /\ working \in [Workers -> Items \cup {Idle, Dead}]
    /\ res \in [1..PackingInterval -> Nat]

\* An item of this round, under the slot its sample belongs to.
OfRound(x) == x.i \in 1..put /\ x.sample = taken - put + x.i

WaitingOK == \A k \in DOMAIN inQueue : OfRound(inQueue[k])
WorkingOK == \A w \in Workers : working[w] \notin {Idle, Dead} => OfRound(working[w])
ResultsOK ==
    \A k \in DOMAIN outQueue :
        /\ OfRound(outQueue[k])
        /\ outQueue[k].encoded = Encodable(outQueue[k].sample)

\* Workers that have an item, or died of one.
Engaged == {w \in Workers : working[w] # Idle}

CountOK == Len(inQueue) + Len(outQueue) + Cardinality(Engaged) + fetched = put

\* The item of slot i is on its way; of a dead worker's it is not known.
OnItsWay(i) ==
    \/ \E k \in DOMAIN inQueue : inQueue[k].i = i
    \/ \E k \in DOMAIN outQueue : outQueue[k].i = i
    \/ \E w \in Engaged : working[w] = Dead \/ working[w].i = i

ValueOfSlot(i) ==
    IF i <= put /\ Encodable(taken - put + i) THEN taken - put + i ELSE 0

SlotsOK ==
    /\ phase \in {"put", "fetch", "yield"} =>
          \A i \in 1..put :
              OnItsWay(i) \/ (phase # "put" /\ res[i] = ValueOfSlot(i))
    /\ phase \in {"fetch", "yield"} =>
          \A i \in 1..PackingInterval : res[i] \in {0, ValueOfSlot(i)}

PhaseOK ==
    /\ phase \in {"start", "end"} => put = 0 /\ fetched = 0
    /\ phase = "put" => fetched = 0
    /\ phase = "yield" => fetched = put
    /\ ~args.streaming => phase = "start"

RoundInv ==
    /\ SetupInv /\ RoundType /\ WaitingOK /\ WorkingOK /\ ResultsOK
    /\ CountOK /\ SlotsOK /\ PhaseOK

-----------------------------------------------------------------------------
LEMMA SetupTypes ==
    ASSUME SetupInv
    PROVE  /\ Len(dataset) \in Nat /\ args.batchSize \in Nat \ {0}
           /\ args.streaming \in BOOLEAN /\ args.packing \in BOOLEAN
           /\ args.streaming => args.packing
           /\ \A s \in Samples : Encodable(s) \in BOOLEAN
<1>1. args \in SetupRecords
  BY DataFeedingAssumption DEF SetupInv
<1>2. args.dataset \in Seq([length : Nat, error : {"none", "too long", "other"}])
  BY <1>1 DEF SetupRecords
<1>3. Len(dataset) \in Nat
  BY <1>2, LenProperties DEF SetupInv
<1>4. QED
  BY <1>1, <1>3, DataFeedingAssumption DEF SetupInv, SetupRecords, Encodable

LEMMA WorkersFinite == IsFiniteSet(Workers)
<1>1. NumProc \in Nat
  BY PackingAssumption
<1>2. QED
  BY <1>1, FS_Interval DEF Workers

LEMMA EngagedCount ==
    /\ IsFiniteSet(Engaged) /\ Cardinality(Engaged) \in Nat
    /\ Cardinality(Engaged) = 0 => \A w \in Workers : working[w] = Idle
<1>1. IsFiniteSet(Engaged)
  BY WorkersFinite, FS_Subset DEF Engaged
<1>2. Cardinality(Engaged) \in Nat
  BY <1>1, FS_CardinalityType
<1>3. Cardinality(Engaged) = 0 => Engaged = {}
  BY <1>1, FS_EmptySet
<1>4. QED
  BY <1>1, <1>2, <1>3 DEF Engaged

\* When nothing is owed any more, nothing is under way.
LEMMA Drained ==
    ASSUME RoundInv, fetched = put
    PROVE  /\ inQueue = <<>> /\ outQueue = <<>>
           /\ \A w \in Workers : working[w] = Idle
<1> DEFINE m == Len(inQueue)
           n == Len(outQueue)
           e == Cardinality(Engaged)
<1>1. m \in Nat /\ n \in Nat /\ e \in Nat /\ put \in Nat
  BY EngagedCount, LenProperties DEF RoundInv, RoundType
<1>2. m + n + e + fetched = put
  BY DEF RoundInv, CountOK
<1> HIDE DEF m, n, e
<1>3. m = 0 /\ n = 0 /\ e = 0
  BY <1>1, <1>2
<1>4. inQueue = <<>> /\ outQueue = <<>>
  BY <1>3, EmptySeq DEF m, n, RoundInv, RoundType
<1>5. QED
  BY <1>3, <1>4, EngagedCount DEF e

LEMMA ValueIsEncoded ==
    ASSUME RoundInv, NEW i \in 1..PackingInterval
    PROVE  ValueOfSlot(i) = IF i <= put THEN Encoded(taken - put + i) ELSE 0
<1>1. CASE i <= put
  <2>1. taken - put + i \in Samples
    <3>1. /\ taken \in Nat /\ put \in 0..PackingInterval /\ put <= taken
          /\ taken <= Len(dataset) /\ Len(dataset) \in Nat
          /\ PackingInterval \in Nat
      BY SetupTypes, PackingAssumption DEF RoundInv, RoundType
    <3> DEFINE n == Len(dataset)
    <3> HIDE DEF n
    <3>2. taken - put + i \in 1..n
      BY <1>1, <3>1 DEF n
    <3>3. QED
      BY <3>2 DEF n, Samples
  <2>2. QED
    BY <1>1, <2>1 DEF ValueOfSlot, Encoded
<1>2. CASE ~(i <= put)
  BY <1>2 DEF ValueOfSlot
<1>3. QED
  BY <1>1, <1>2

\* A round that has all of its results has each in its slot.
LEMMA SlotsFilled ==
    ASSUME RoundInv, fetched = put, phase \in {"fetch", "yield"},
           NEW i \in 1..PackingInterval
    PROVE  res[i] = IF i <= put THEN Encoded(taken - put + i) ELSE 0
<1>1. /\ inQueue = <<>> /\ outQueue = <<>>
      /\ \A w \in Workers : working[w] = Idle
  BY Drained
<1>2. res[i] = ValueOfSlot(i)
  <2>1. CASE i \in 1..put
    <3>1. ~OnItsWay(i)
      BY <1>1, EmptySeq DEF OnItsWay, Engaged
    <3>2. QED
      BY <2>1, <3>1 DEF RoundInv, SlotsOK
  <2>2. CASE i \notin 1..put
    <3>1. ~(i <= put)
      BY <2>2 DEF RoundInv, RoundType
    <3>2. ValueOfSlot(i) = 0
      BY <3>1 DEF ValueOfSlot
    <3>3. QED
      BY <3>2 DEF RoundInv, SlotsOK
  <2>3. QED
    BY <2>1, <2>2
<1>3. QED
  BY <1>2, ValueIsEncoded

LEMMA RoundFollows == RoundInv => NothingBetweenRounds
<1> SUFFICES ASSUME RoundInv, phase \in {"start", "yield", "end"}
             PROVE  NothingBetweenRounds
  BY DEF NothingBetweenRounds
<1>1. fetched = put
  BY DEF RoundInv, PhaseOK
<1>2. /\ inQueue = <<>> /\ outQueue = <<>>
      /\ \A w \in Workers : working[w] = Idle
  BY <1>1, Drained
<1>3. phase = "yield" =>
        \A i \in 1..PackingInterval :
            res[i] = IF i <= put THEN Encoded(taken - put + i) ELSE 0
  BY <1>1, SlotsFilled
<1>4. QED
  BY <1>2, <1>3, Zenon DEF NothingBetweenRounds

-----------------------------------------------------------------------------
(* Every step of the pipeline preserves it.                                 *)

LEMMA RoundTypes ==
    ASSUME RoundInv
    PROVE  /\ PackingInterval \in Nat \ {0} /\ Len(dataset) \in Nat
           /\ put \in Nat /\ put <= PackingInterval /\ fetched \in Nat
           /\ taken \in Nat /\ put <= taken
           /\ inQueue \in Seq(Items) /\ outQueue \in Seq(Results)
           /\ Len(inQueue) \in Nat /\ Len(outQueue) \in Nat
           /\ DOMAIN inQueue = 1..Len(inQueue) /\ DOMAIN outQueue = 1..Len(outQueue)
BY PackingAssumption, SetupTypes, LenProperties DEF RoundInv, RoundType

\* One that leaves the queues, the workers and the round's counts alone.
LEMMA RoundMoved ==
    ASSUME RoundInv,
           UNCHANGED <<args, dataset, strict, taken, put, fetched, inQueue,
                       outQueue, working, res>>,
           phase' = phase \/ (phase = "fetch" /\ phase' = "yield" /\ fetched = put)
    PROVE  RoundInv'
<1>1. SetupInv' /\ RoundType'
  BY DEF RoundInv, SetupInv, RoundType, Items, Results, Samples
<1>2. WaitingOK' /\ WorkingOK' /\ ResultsOK' /\ CountOK'
  BY DEF RoundInv, WaitingOK, WorkingOK, ResultsOK, CountOK, OfRound, Encodable,
     Engaged
<1>3. \A i : (OnItsWay(i) <=> OnItsWay(i)') /\ ValueOfSlot(i)' = ValueOfSlot(i)
  BY DEF OnItsWay, Engaged, ValueOfSlot, Encodable
<1>4. SlotsOK'
  BY <1>3 DEF RoundInv, SlotsOK
<1>5. PhaseOK'
  BY DEF RoundInv, PhaseOK
<1>6. QED
  BY <1>1, <1>2, <1>4, <1>5 DEF RoundInv

\* The round starts over, with nothing under way.
LEMMA RoundAnew ==
    ASSUME RoundInv, put' = 0, fetched' = 0, fetched = put,
           UNCHANGED <<args, dataset, strict, inQueue, outQueue, working>>,
           taken' = taken \/ taken' = 0,
           phase' \in {"start", "put", "end"},
           ~args.streaming => phase' = "start",
           res' \in [1..PackingInterval -> Nat]
    PROVE  RoundInv'
<1>1. /\ inQueue = <<>> /\ outQueue = <<>>
      /\ \A w \in Workers : working[w] = Idle
  BY Drained
<1>2. SetupInv' /\ RoundType'
  BY RoundTypes DEF RoundInv, SetupInv, RoundType, Items, Results, Samples
<1>3. WaitingOK' /\ WorkingOK' /\ ResultsOK'
  BY <1>1, EmptySeq DEF WaitingOK, WorkingOK, ResultsOK
<1>4. CountOK'
  <2>1. Engaged' = {}
    BY <1>1 DEF Engaged
  <2>2. Len(inQueue') = 0 /\ Len(outQueue') = 0 /\ Cardinality(Engaged') = 0
    BY <1>1, <2>1, EmptySeq, FS_EmptySet
  <2>3. QED
    BY <2>2 DEF CountOK
<1>5. SlotsOK'
  BY DEF SlotsOK
<1>6. PhaseOK'
  BY DEF PhaseOK
<1>7. QED
  BY <1>2, <1>3, <1>4, <1>5, <1>6 DEF RoundInv

LEMMA IterRound == ASSUME RoundInv, Iter, args.streaming, UNCHANGED args PROVE RoundInv'
<1>1. /\ phase = "start" /\ phase' \in {"put", "end"}
      /\ UNCHANGED <<dataset, strict, taken, put, fetched, inQueue, outQueue,
                     working, res>>
  BY DEF Iter, setupVars, roundVars, workerVars, packVars
<1>2. put = 0 /\ fetched = 0
  BY <1>1 DEF RoundInv, PhaseOK
<1>3. QED
  BY <1>1, <1>2, RoundAnew DEF RoundInv, RoundType

LEMMA PutRound ==
    ASSUME RoundInv, PutDataInQueue, UNCHANGED args PROVE RoundInv'
<1> DEFINE x == [i |-> put + 1, sample |-> taken + 1]
           n == Len(inQueue)
<1>1. /\ phase = "put" /\ phase' = "put" /\ put < PackingInterval
      /\ taken < Len(dataset) /\ put' = put + 1 /\ taken' = taken + 1
      /\ inQueue' = Append(inQueue, x)
      /\ UNCHANGED <<args, dataset, strict, fetched, outQueue, working, res>>
  BY DEF PutDataInQueue, setupVars
<1>2. /\ put \in Nat /\ taken \in Nat /\ put <= taken /\ n \in Nat
      /\ Len(dataset) \in Nat /\ PackingInterval \in Nat
      /\ DOMAIN inQueue = 1..n
  BY RoundTypes
<1>3. x \in Items /\ x.i = put + 1 /\ x.sample = taken + 1
  BY <1>1, <1>2 DEF Items, Samples
<1>4. /\ inQueue' \in Seq(Items) /\ Len(inQueue') = n + 1
      /\ DOMAIN inQueue' = 1..(n + 1)
      /\ \A k \in 1..n : inQueue'[k] = inQueue[k]
      /\ inQueue'[n + 1] = x
  <2>1. inQueue \in Seq(Items)
    BY RoundTypes
  <2> HIDE DEF x
  <2>2. QED
    BY <1>1, <1>3, <2>1, AppendProperties, LenProperties
<1>5. taken' - put' = taken - put
  BY <1>1, <1>2
<1> HIDE DEF x, n
<1>6. SetupInv' /\ RoundType'
  <2>1. put' \in 0..PackingInterval /\ taken' \in Nat /\ taken' <= Len(dataset)
        /\ put' <= taken'
    BY <1>1, <1>2
  <2>2. Items' = Items /\ Results' = Results
    BY <1>1 DEF Items, Results, Samples
  <2>3. QED
    BY <1>1, <1>4, <2>1, <2>2 DEF RoundInv, SetupInv, RoundType
<1>7. ASSUME NEW y, OfRound(y)
      PROVE  y.i \in 1..put' /\ y.sample = taken' - put' + y.i
  BY <1>1, <1>2, <1>5, <1>7 DEF OfRound
<1>8. WaitingOK'
  <2>1. x.i \in 1..put' /\ x.sample = taken' - put' + x.i
    BY <1>1, <1>2, <1>3
  <2>2. ASSUME NEW k \in 1..(n + 1)
        PROVE  /\ inQueue'[k].i \in 1..put'
               /\ inQueue'[k].sample = taken' - put' + inQueue'[k].i
    <3>1. CASE k = n + 1
      BY <1>4, <2>1, <3>1
    <3>2. CASE k \in 1..n
      <4>1. OfRound(inQueue[k])
        BY <1>2, <3>2 DEF RoundInv, WaitingOK
      <4>2. QED
        BY <1>4, <1>7, <3>2, <4>1
    <3>3. QED
      BY <1>2, <3>1, <3>2
  <2>3. QED
    BY <1>4, <2>2 DEF WaitingOK, OfRound
<1>9. WorkingOK'
  BY <1>1, <1>7 DEF RoundInv, WorkingOK, OfRound
<1>14. ResultsOK'
  <2>1. ASSUME NEW k \in DOMAIN outQueue
        PROVE  /\ outQueue[k].i \in 1..put'
               /\ outQueue[k].sample = taken' - put' + outQueue[k].i
               /\ outQueue[k].encoded = Encodable(outQueue[k].sample)
    BY <1>7 DEF RoundInv, ResultsOK
  <2>2. QED
    BY <1>1, <2>1 DEF ResultsOK, OfRound, Encodable
<1>10. CountOK'
  <2> DEFINE e == Cardinality(Engaged)
             o == Len(outQueue)
  <2>1. Engaged' = Engaged
    BY <1>1 DEF Engaged
  <2>2. e \in Nat /\ o \in Nat /\ fetched \in Nat
    BY EngagedCount, RoundTypes
  <2>3. n + o + e + fetched = put
    BY DEF RoundInv, CountOK, n
  <2>4. Cardinality(Engaged)' = e /\ Len(outQueue') = o
    BY <1>1, <2>1
  <2> HIDE DEF e, o
  <2>5. (n + 1) + o + e + fetched' = put'
    BY <1>1, <1>2, <2>2, <2>3
  <2>6. QED
    BY <1>4, <2>4, <2>5 DEF CountOK
<1>11. SlotsOK'
  <2>1. ASSUME NEW i, OnItsWay(i) PROVE OnItsWay(i)'
    <3>1. CASE \E k \in DOMAIN inQueue : inQueue[k].i = i
      <4>1. PICK k \in DOMAIN inQueue : inQueue[k].i = i
        BY <3>1
      <4>2. k \in DOMAIN inQueue' /\ inQueue'[k].i = i
        BY <1>2, <1>4, <4>1
      <4>3. QED
        BY <4>2 DEF OnItsWay
    <3>2. CASE \/ \E k \in DOMAIN outQueue : outQueue[k].i = i
               \/ \E w \in Engaged : working[w] = Dead \/ working[w].i = i
      BY <1>1, <3>2 DEF OnItsWay, Engaged
    <3>3. QED
      BY <2>1, <3>1, <3>2 DEF OnItsWay
  <2>2. ASSUME NEW i, i = put + 1 PROVE OnItsWay(i)'
    <3>1. n + 1 \in DOMAIN inQueue' /\ inQueue'[n + 1].i = i
      BY <1>2, <1>3, <1>4, <2>2
    <3>2. QED
      BY <3>1 DEF OnItsWay
  <2>3. ASSUME NEW i \in 1..put' PROVE OnItsWay(i)'
    <3>1. i \in 1..put \/ i = put + 1
      BY <1>1, <1>2
    <3>2. QED
      BY <1>1, <2>1, <2>2, <3>1 DEF RoundInv, SlotsOK
  <2>4. QED
    BY <1>1, <2>3 DEF SlotsOK
<1>12. PhaseOK'
  BY <1>1 DEF RoundInv, PhaseOK
<1>13. QED
  BY <1>6, <1>8, <1>9, <1>10, <1>11, <1>12, <1>14 DEF RoundInv

\* Where the elements of a sequence are once its first has been taken, and
\* where they were.
LEMMA TailPlaces ==
    ASSUME NEW S, NEW s \in Seq(S), s # <<>>
    PROVE  /\ Tail(s) \in Seq(S) /\ Head(s) \in S /\ Head(s) = s[1]
           /\ 1 \in DOMAIN s
           /\ Len(s) \in Nat /\ Len(s) > 0 /\ Len(Tail(s)) = Len(s) - 1
           /\ \A k \in DOMAIN Tail(s) : k + 1 \in DOMAIN s /\ Tail(s)[k] = s[k + 1]
           /\ \A k \in DOMAIN s : k = 1 \/ (/\ k - 1 \in DOMAIN Tail(s)
                                           /\ Tail(s)[k - 1] = s[k])
<1> DEFINE t == Tail(s)
           n == Len(s)
<1>1. /\ t \in Seq(S) /\ Head(s) \in S /\ Len(t) = n - 1
      /\ \A i \in 1..Len(t) : t[i] = s[i + 1]
  BY HeadTailProperties
<1>2. Head(s) = s[1]
  BY DEF Head
<1>3. n \in Nat /\ n # 0 /\ DOMAIN s = 1..n /\ DOMAIN t = 1..(n - 1)
  BY <1>1, LenProperties, EmptySeq
<1> HIDE DEF t, n
<1>4. \A k \in 1..(n - 1) : k + 1 \in 1..n /\ t[k] = s[k + 1]
  BY <1>1, <1>3
<1>5. ASSUME NEW k \in 1..n, k # 1
      PROVE  k - 1 \in 1..(n - 1) /\ t[k - 1] = s[k]
  <2>1. k - 1 \in 1..(n - 1) /\ (k - 1) + 1 = k
    BY <1>3, <1>5
  <2>2. QED
    BY <1>4, <2>1
<1>6. 1 \in 1..n /\ n > 0
  BY <1>3
<1>7. QED
  BY <1>1, <1>2, <1>3, <1>4, <1>5, <1>6 DEF t, n

LEMMA AppendPlaces ==
    ASSUME NEW S, NEW s \in Seq(S), NEW e \in S
    PROVE  /\ Append(s, e) \in Seq(S) /\ Len(Append(s, e)) = Len(s) + 1
           /\ Len(s) \in Nat
           /\ \A k \in DOMAIN s : k \in DOMAIN Append(s, e) /\ Append(s, e)[k] = s[k]
           /\ \E k \in DOMAIN Append(s, e) : Append(s, e)[k] = e
           /\ \A k \in DOMAIN Append(s, e) :
                  \/ k \in DOMAIN s /\ Append(s, e)[k] = s[k]
                  \/ Append(s, e)[k] = e
<1> DEFINE t == Append(s, e)
           n == Len(s)
<1>1. /\ t \in Seq(S) /\ Len(t) = n + 1
      /\ \A i \in 1..n : t[i] = s[i]
      /\ t[n + 1] = e
  BY AppendProperties
<1>2. n \in Nat /\ DOMAIN s = 1..n /\ DOMAIN t = 1..(n + 1)
  BY <1>1, LenProperties
<1> HIDE DEF t, n
<1>3. /\ \A k \in 1..n : k \in 1..(n + 1) /\ t[k] = s[k]
      /\ n + 1 \in 1..(n + 1)
      /\ \A k \in 1..(n + 1) : k \in 1..n \/ k = n + 1
  BY <1>1, <1>2
<1>4. QED
  BY <1>1, <1>2, <1>3 DEF t, n

LEMMA StopPuttingRound ==
    ASSUME RoundInv, StopPutting, UNCHANGED args PROVE RoundInv'
<1>1. /\ phase = "put" /\ phase' = "fetch" /\ fetched' = 0 /\ res' = NoRes
      /\ UNCHANGED <<args, dataset, strict, taken, put, inQueue, outQueue, working>>
  BY DEF StopPutting, setupVars, workerVars
<1>2. fetched = 0
  BY <1>1 DEF RoundInv, PhaseOK
<1>3. SetupInv' /\ RoundType'
  BY <1>1 DEF RoundInv, SetupInv, RoundType, Items, Results, Samples, NoRes
<1>4. WaitingOK' /\ WorkingOK' /\ ResultsOK' /\ CountOK'
  BY <1>1, <1>2 DEF RoundInv, WaitingOK, WorkingOK, ResultsOK, CountOK, OfRound,
     Encodable, Engaged
<1>5. SlotsOK'
  <2>1. \A i : OnItsWay(i) => OnItsWay(i)'
    BY <1>1 DEF OnItsWay, Engaged
  <2>2. \A i \in 1..PackingInterval : res'[i] = 0
    BY <1>1 DEF NoRes
  <2>3. \A i \in 1..put : OnItsWay(i)
    BY <1>1 DEF RoundInv, SlotsOK
  <2>4. QED
    BY <1>1, <2>1, <2>2, <2>3 DEF SlotsOK
<1>6. PhaseOK'
  BY <1>1 DEF RoundInv, PhaseOK
<1>7. QED
  BY <1>3, <1>4, <1>5, <1>6 DEF RoundInv

LEMMA MatchGroupRound ==
    ASSUME RoundInv, MatchGroup, UNCHANGED args PROVE RoundInv'
<1>1. /\ phase = "fetch" /\ phase' = "yield" /\ fetched = put
      /\ UNCHANGED <<args, dataset, strict, taken, put, fetched, inQueue,
                     outQueue, working, res>>
  BY DEF MatchGroup, setupVars, workerVars
<1>2. QED
  BY <1>1, RoundMoved

LEMMA YieldRound ==
    ASSUME RoundInv, Yield, UNCHANGED args PROVE RoundInv'
<1>1. phase' = phase
      /\ UNCHANGED <<args, dataset, strict, taken, put, fetched, inQueue,
                     outQueue, working, res>>
  BY DEF Yield, setupVars, workerVars, roundVars
<1>2. QED
  BY <1>1, RoundMoved

LEMMA NextRoundRound ==
    ASSUME RoundInv, NextRound, args.streaming, UNCHANGED args PROVE RoundInv'
<1>1. /\ phase = "yield" /\ phase' \in {"put", "end"} /\ put' = 0 /\ fetched' = 0
      /\ UNCHANGED <<args, dataset, strict, taken, inQueue, outQueue, working, res>>
  BY DEF NextRound, setupVars, workerVars
<1>2. fetched = put /\ res' \in [1..PackingInterval -> Nat]
  BY <1>1 DEF RoundInv, PhaseOK, RoundType
<1>3. QED
  BY <1>1, <1>2, RoundAnew

LEMMA FetchRound ==
    ASSUME RoundInv, FetchDataOutQueue, UNCHANGED args PROVE RoundInv'
<1> DEFINE item == Head(outQueue)
           rest == Tail(outQueue)
<1>1. /\ phase = "fetch" /\ phase' = "fetch" /\ outQueue # <<>>
      /\ res' = IF item.encoded THEN [res EXCEPT ![item.i] = item.sample] ELSE res
      /\ outQueue' = rest /\ fetched' = fetched + 1
      /\ UNCHANGED <<args, dataset, strict, taken, put, inQueue, working>>
  BY DEF FetchDataOutQueue, Slot, setupVars
<1>2. /\ rest \in Seq(Results) /\ item \in Results /\ item = outQueue[1]
      /\ 1 \in DOMAIN outQueue
      /\ Len(outQueue) \in Nat /\ Len(rest) = Len(outQueue) - 1
      /\ \A k \in DOMAIN rest : k + 1 \in DOMAIN outQueue /\ rest[k] = outQueue[k + 1]
      /\ \A k \in DOMAIN outQueue :
            k = 1 \/ (k - 1 \in DOMAIN rest /\ rest[k - 1] = outQueue[k])
  <2>1. outQueue \in Seq(Results)
    BY RoundTypes
  <2>2. QED
    BY <1>1, <2>1, TailPlaces
<1>3. OfRound(item) /\ item.encoded = Encodable(item.sample)
  BY <1>2 DEF RoundInv, ResultsOK
<1>4. /\ item.i \in 1..put /\ item.sample = taken - put + item.i
      /\ item.i \in 1..PackingInterval /\ item.sample \in Nat
  BY <1>2, <1>3, RoundTypes DEF OfRound, Results, Samples
<1> HIDE DEF item, rest
<1>5. SetupInv' /\ RoundType'
  <2>1. Items' = Items /\ Results' = Results
    BY <1>1 DEF Items, Results, Samples
  <2>2. res' \in [1..PackingInterval -> Nat]
    BY <1>1, <1>4 DEF RoundInv, RoundType
  <2>3. fetched' \in Nat
    BY <1>1, RoundTypes
  <2>4. QED
    BY <1>1, <1>2, <2>1, <2>2, <2>3 DEF RoundInv, SetupInv, RoundType
<1>6. WaitingOK' /\ WorkingOK'
  BY <1>1 DEF RoundInv, WaitingOK, WorkingOK, OfRound
<1>7. ResultsOK'
  <2>1. ASSUME NEW k \in DOMAIN rest
        PROVE  /\ rest[k].i \in 1..put /\ rest[k].sample = taken - put + rest[k].i
               /\ rest[k].encoded = Encodable(rest[k].sample)
    <3>1. k + 1 \in DOMAIN outQueue /\ rest[k] = outQueue[k + 1]
      BY <1>2
    <3>2. /\ OfRound(outQueue[k + 1])
          /\ outQueue[k + 1].encoded = Encodable(outQueue[k + 1].sample)
      BY <3>1 DEF RoundInv, ResultsOK
    <3>3. QED
      BY <3>1, <3>2 DEF OfRound
  <2>2. QED
    BY <1>1, <2>1 DEF ResultsOK, OfRound, Encodable
<1>8. CountOK'
  <2> DEFINE e == Cardinality(Engaged)
             n == Len(inQueue)
             o == Len(outQueue)
  <2>1. Cardinality(Engaged)' = e /\ Len(inQueue)' = n /\ Len(outQueue') = o - 1
    BY <1>1, <1>2 DEF Engaged
  <2>2. e \in Nat /\ n \in Nat /\ o \in Nat /\ fetched \in Nat /\ put \in Nat
    BY EngagedCount, RoundTypes
  <2>3. n + o + e + fetched = put
    BY DEF RoundInv, CountOK
  <2> HIDE DEF e, n, o
  <2>4. n + (o - 1) + e + fetched' = put'
    BY <1>1, <2>2, <2>3
  <2>5. QED
    BY <2>1, <2>4 DEF CountOK
<1>9. SlotsOK'
  <2>1. /\ \A i \in 1..put : OnItsWay(i) \/ res[i] = ValueOfSlot(i)
        /\ \A i \in 1..PackingInterval : res[i] \in {0, ValueOfSlot(i)}
    BY <1>1 DEF RoundInv, SlotsOK
  <2>2. \A i : ValueOfSlot(i)' = ValueOfSlot(i)
    BY <1>1 DEF ValueOfSlot, Encodable
  <2>3. item.encoded => ValueOfSlot(item.i) = item.sample
    BY <1>3, <1>4, RoundTypes DEF ValueOfSlot
  <2>4. ~item.encoded => ValueOfSlot(item.i) = 0
    BY <1>3, <1>4 DEF ValueOfSlot
  <2>5. res'[item.i] = ValueOfSlot(item.i)
    <3>1. CASE item.encoded
      BY <1>1, <1>4, <2>3, <3>1 DEF RoundInv, RoundType
    <3>2. CASE ~item.encoded
      BY <1>1, <1>4, <2>1, <2>4, <3>2
    <3>3. QED
      BY <3>1, <3>2
  <2>6. \A i \in 1..PackingInterval : i # item.i => res'[i] = res[i]
    BY <1>1, <1>4 DEF RoundInv, RoundType
  <2>7. ASSUME NEW i \in 1..put, OnItsWay(i), i # item.i
        PROVE  OnItsWay(i)'
    <3>1. CASE \E k \in DOMAIN outQueue : outQueue[k].i = i
      <4>1. PICK k \in DOMAIN outQueue : outQueue[k].i = i
        BY <3>1
      <4>2. k # 1
        BY <1>2, <2>7, <4>1
      <4>3. k - 1 \in DOMAIN rest /\ rest[k - 1] = outQueue[k]
        BY <1>2, <4>2
      <4>4. k - 1 \in DOMAIN outQueue' /\ outQueue'[k - 1].i = i
        BY <1>1, <4>1, <4>3
      <4>5. QED
        BY <4>4 DEF OnItsWay
    <3>2. CASE \/ \E k \in DOMAIN inQueue : inQueue[k].i = i
               \/ \E w \in Engaged : working[w] = Dead \/ working[w].i = i
      BY <1>1, <3>2 DEF OnItsWay, Engaged
    <3>3. QED
      BY <2>7, <3>1, <3>2 DEF OnItsWay
  <2>8. ASSUME NEW i \in 1..put
        PROVE  OnItsWay(i)' \/ res'[i] = ValueOfSlot(i)'
    <3>1. CASE i = item.i
      BY <2>2, <2>5, <3>1
    <3>2. CASE i # item.i
      <4>1. i \in 1..PackingInterval
        BY RoundTypes
      <4>2. QED
        BY <2>1, <2>2, <2>6, <2>7, <3>2, <4>1
    <3>3. QED
      BY <3>1, <3>2
  <2>9. ASSUME NEW i \in 1..PackingInterval
        PROVE  res'[i] \in {0, ValueOfSlot(i)'}
    BY <2>1, <2>2, <2>5, <2>6
  <2>10. QED
    BY <1>1, <2>8, <2>9 DEF SlotsOK
<1>10. PhaseOK'
  BY <1>1 DEF RoundInv, PhaseOK
<1>11. QED
  BY <1>5, <1>6, <1>7, <1>8, <1>9, <1>10 DEF RoundInv

LEMMA GetItemRound ==
    ASSUME RoundInv, NEW w \in Workers, GetItem(w), UNCHANGED args PROVE RoundInv'
<1> DEFINE item == Head(inQueue)
           rest == Tail(inQueue)
<1>1. /\ working[w] = Idle /\ inQueue # <<>>
      /\ working' = [working EXCEPT ![w] = item] /\ inQueue' = rest
      /\ UNCHANGED <<args, dataset, strict, phase, taken, put, fetched, res, outQueue>>
  BY DEF GetItem, setupVars, roundVars
<1>2. /\ rest \in Seq(Items) /\ item \in Items /\ item = inQueue[1]
      /\ 1 \in DOMAIN inQueue
      /\ Len(inQueue) \in Nat /\ Len(rest) = Len(inQueue) - 1
      /\ \A k \in DOMAIN rest : k + 1 \in DOMAIN inQueue /\ rest[k] = inQueue[k + 1]
      /\ \A k \in DOMAIN inQueue :
            k = 1 \/ (k - 1 \in DOMAIN rest /\ rest[k - 1] = inQueue[k])
  <2>1. inQueue \in Seq(Items)
    BY RoundTypes
  <2>2. QED
    BY <1>1, <2>1, TailPlaces
<1>3. OfRound(item)
  BY <1>2 DEF RoundInv, WaitingOK
<1>4. item # Idle /\ item.i # 0
  BY <1>2 DEF Items, Idle
<1> HIDE DEF item, rest
<1>5. /\ working \in [Workers -> Items \cup {Idle, Dead}]
      /\ working' \in [Workers -> Items \cup {Idle, Dead}]
      /\ working'[w] = item
      /\ \A v \in Workers : v # w => working'[v] = working[v]
  BY <1>1, <1>2 DEF RoundInv, RoundType
<1>6. SetupInv' /\ RoundType'
  <2>1. Items' = Items /\ Results' = Results
    BY <1>1 DEF Items, Results, Samples
  <2>2. QED
    BY <1>1, <1>2, <1>5, <2>1 DEF RoundInv, SetupInv, RoundType
<1>7. WaitingOK'
  <2>1. ASSUME NEW k \in DOMAIN rest
        PROVE  OfRound(rest[k])
    BY <1>2 DEF RoundInv, WaitingOK
  <2>2. QED
    BY <1>1, <2>1 DEF WaitingOK, OfRound
<1>8. WorkingOK'
  <2>1. ASSUME NEW v \in Workers, working'[v] \notin {Idle, Dead}
        PROVE  OfRound(working'[v])
    <3>1. CASE v = w
      BY <1>3, <1>5, <3>1
    <3>2. CASE v # w
      <4>1. working'[v] = working[v]
        BY <1>5, <3>2
      <4>2. QED
        BY <2>1, <4>1 DEF RoundInv, WorkingOK
    <3>3. QED
      BY <3>1, <3>2
  <2>2. QED
    BY <1>1, <2>1 DEF WorkingOK, OfRound
<1>9. ResultsOK'
  BY <1>1 DEF RoundInv, ResultsOK, OfRound, Encodable
<1>10. /\ Engaged' = Engaged \cup {w} /\ w \notin Engaged
       /\ Cardinality(Engaged') = Cardinality(Engaged) + 1
  <2>1. Engaged' = Engaged \cup {w} /\ w \notin Engaged
    BY <1>1, <1>4, <1>5 DEF Engaged
  <2>2. IsFiniteSet(Engaged)
    BY EngagedCount
  <2> HIDE DEF Engaged
  <2>3. QED
    BY <2>1, <2>2, FS_AddElement
<1>11. CountOK'
  <2> DEFINE e == Cardinality(Engaged)
             n == Len(inQueue)
             o == Len(outQueue)
  <2>1. Cardinality(Engaged') = e + 1 /\ Len(outQueue') = o /\ Len(inQueue') = n - 1
    BY <1>1, <1>2, <1>10
  <2>2. e \in Nat /\ n \in Nat /\ o \in Nat /\ fetched \in Nat /\ put \in Nat
    BY EngagedCount, RoundTypes
  <2>3. n + o + e + fetched = put
    BY DEF RoundInv, CountOK
  <2> HIDE DEF e, n, o
  <2>4. (n - 1) + o + (e + 1) + fetched' = put'
    BY <1>1, <2>2, <2>3
  <2>5. QED
    BY <2>1, <2>4 DEF CountOK
<1>12. SlotsOK'
  <2>1. ASSUME NEW i, OnItsWay(i) PROVE OnItsWay(i)'
    <3>1. CASE \E k \in DOMAIN inQueue : inQueue[k].i = i
      <4>1. PICK k \in DOMAIN inQueue : inQueue[k].i = i
        BY <3>1
      <4>2. CASE k = 1
        <5>1. w \in Engaged' /\ working'[w].i = i
          BY <1>2, <1>5, <1>10, <4>1, <4>2
        <5>2. QED
          BY <5>1 DEF OnItsWay
      <4>3. CASE k # 1
        <5>1. k - 1 \in DOMAIN inQueue' /\ inQueue'[k - 1].i = i
          BY <1>1, <1>2, <4>1, <4>3
        <5>2. QED
          BY <5>1 DEF OnItsWay
      <4>4. QED
        BY <4>2, <4>3
    <3>2. CASE \E k \in DOMAIN outQueue : outQueue[k].i = i
      BY <1>1, <3>2 DEF OnItsWay
    <3>3. CASE \E v \in Engaged : working[v] = Dead \/ working[v].i = i
      <4>1. PICK v \in Engaged : working[v] = Dead \/ working[v].i = i
        BY <3>3
      <4>2. v # w /\ v \in Workers /\ v \in Engaged'
        BY <1>10 DEF Engaged
      <4>3. working'[v] = working[v]
        BY <1>5, <4>2
      <4>4. QED
        BY <4>1, <4>2, <4>3 DEF OnItsWay, Dead
    <3>4. QED
      BY <2>1, <3>1, <3>2, <3>3 DEF OnItsWay
  <2>2. \A i : ValueOfSlot(i)' = ValueOfSlot(i)
    BY <1>1 DEF ValueOfSlot, Encodable
  <2>3. QED
    BY <1>1, <2>1, <2>2 DEF RoundInv, SlotsOK
<1>13. PhaseOK'
  BY <1>1 DEF RoundInv, PhaseOK
<1>14. QED
  BY <1>6, <1>7, <1>8, <1>9, <1>11, <1>12, <1>13 DEF RoundInv

LEMMA ProcessorRound ==
    ASSUME RoundInv, NEW w \in Workers, Processor(w), UNCHANGED args PROVE RoundInv'
<1> DEFINE item == working[w]
           result == [i |-> item.i, sample |-> item.sample,
                      encoded |-> Encodable(item.sample)]
<1>1. /\ item \notin {Idle, Dead}
      /\ UNCHANGED <<args, dataset, strict, phase, taken, put, fetched, res, inQueue>>
  BY DEF Processor, setupVars, roundVars
<1>2. \/ working' = [working EXCEPT ![w] = Dead] /\ outQueue' = outQueue
      \/ /\ working' = [working EXCEPT ![w] = Idle]
         /\ outQueue' = Append(outQueue, result)
  BY DEF Processor
<1>3. OfRound(item) /\ item \in Items
  BY <1>1 DEF RoundInv, WorkingOK, RoundType
<1>4. /\ SetupInv' /\ Items' = Items /\ Results' = Results
      /\ WaitingOK' /\ PhaseOK'
  BY <1>1 DEF RoundInv, SetupInv, Items, Results, Samples, WaitingOK, OfRound, PhaseOK
<1>5. result \in Results
  BY <1>3, SetupTypes DEF Items, Results, RoundInv
<1>6. \A i : ValueOfSlot(i)' = ValueOfSlot(i)
  BY <1>1 DEF ValueOfSlot, Encodable
<1>7. /\ working \in [Workers -> Items \cup {Idle, Dead}]
      /\ outQueue \in Seq(Results)
  BY DEF RoundInv, RoundType
<1>8. CASE working' = [working EXCEPT ![w] = Dead] /\ outQueue' = outQueue
  <2>1. /\ working' \in [Workers -> Items \cup {Idle, Dead}]
        /\ working'[w] = Dead
        /\ \A v \in Workers : v # w => working'[v] = working[v]
    BY <1>7, <1>8
  <2>2. RoundType'
    BY <1>1, <1>4, <1>8, <2>1 DEF RoundInv, RoundType
  <2>3. WorkingOK' /\ ResultsOK'
    BY <1>1, <1>8, <2>1 DEF RoundInv, WorkingOK, ResultsOK, OfRound, Encodable
  <2>4. Engaged' = Engaged
    BY <1>1, <2>1 DEF Engaged, Dead, Idle
  <2>5. CountOK'
    BY <1>1, <1>8, <2>4 DEF RoundInv, CountOK
  <2>6. \A i : OnItsWay(i) => OnItsWay(i)'
    BY <1>1, <1>8, <2>1, <2>4 DEF OnItsWay, Engaged, Dead
  <2>7. SlotsOK'
    BY <1>1, <1>6, <2>6 DEF RoundInv, SlotsOK
  <2>8. QED
    BY <1>4, <2>2, <2>3, <2>5, <2>7 DEF RoundInv
<1>9. CASE /\ working' = [working EXCEPT ![w] = Idle]
           /\ outQueue' = Append(outQueue, result)
  <2>1. /\ working' \in [Workers -> Items \cup {Idle, Dead}]
        /\ working'[w] = Idle
        /\ \A v \in Workers : v # w => working'[v] = working[v]
    BY <1>7, <1>9
  <2>2. /\ result.i = item.i /\ result.sample = item.sample
        /\ result.encoded = Encodable(item.sample)
    OBVIOUS
  <2> HIDE DEF result, item
  <2>3. /\ outQueue' \in Seq(Results) /\ Len(outQueue') = Len(outQueue) + 1
        /\ \A k \in DOMAIN outQueue :
              k \in DOMAIN outQueue' /\ outQueue'[k] = outQueue[k]
        /\ \E k \in DOMAIN outQueue' : outQueue'[k] = result
        /\ \A k \in DOMAIN outQueue' :
              \/ k \in DOMAIN outQueue /\ outQueue'[k] = outQueue[k]
              \/ outQueue'[k] = result
    BY <1>5, <1>7, <1>9, AppendPlaces
  <2>4. RoundType'
    BY <1>1, <1>4, <2>1, <2>3 DEF RoundInv, RoundType
  <2>5. WorkingOK'
    BY <1>1, <2>1 DEF RoundInv, WorkingOK, OfRound
  <2>6. ResultsOK'
    <3>1. ASSUME NEW k \in DOMAIN outQueue'
          PROVE  /\ outQueue'[k].i \in 1..put
                 /\ outQueue'[k].sample = taken - put + outQueue'[k].i
                 /\ outQueue'[k].encoded = Encodable(outQueue'[k].sample)
      <4>1. CASE k \in DOMAIN outQueue /\ outQueue'[k] = outQueue[k]
        <5>1. /\ OfRound(outQueue[k])
              /\ outQueue[k].encoded = Encodable(outQueue[k].sample)
          BY <4>1 DEF RoundInv, ResultsOK
        <5>2. QED
          BY <4>1, <5>1 DEF OfRound
      <4>2. CASE outQueue'[k] = result
        BY <1>3, <2>2, <4>2 DEF OfRound
      <4>3. QED
        BY <2>3, <4>1, <4>2
    <3>2. QED
      BY <1>1, <3>1 DEF ResultsOK, OfRound, Encodable
  <2>7. /\ Engaged' = Engaged \ {w} /\ w \in Engaged
        /\ Cardinality(Engaged') = Cardinality(Engaged) - 1
    <3>1. Engaged' = Engaged \ {w} /\ w \in Engaged
      BY <1>1, <2>1 DEF Engaged, item
    <3>2. IsFiniteSet(Engaged)
      BY EngagedCount
    <3> HIDE DEF Engaged
    <3>3. QED
      BY <3>1, <3>2, FS_RemoveElement
  <2>8. CountOK'
    <3> DEFINE e == Cardinality(Engaged)
               n == Len(inQueue)
               o == Len(outQueue)
    <3>1. Cardinality(Engaged') = e - 1 /\ Len(outQueue') = o + 1 /\ Len(inQueue') = n
      BY <1>1, <2>3, <2>7
    <3>2. e \in Nat /\ n \in Nat /\ o \in Nat /\ fetched \in Nat /\ put \in Nat
      BY EngagedCount, RoundTypes
    <3>3. n + o + e + fetched = put
      BY DEF RoundInv, CountOK
    <3> HIDE DEF e, n, o
    <3>4. n + (o + 1) + (e - 1) + fetched' = put'
      BY <1>1, <3>2, <3>3
    <3>5. QED
      BY <3>1, <3>4 DEF CountOK
  <2>9. SlotsOK'
    <3>1. ASSUME NEW i, OnItsWay(i) PROVE OnItsWay(i)'
      <4>1. CASE \E k \in DOMAIN outQueue : outQueue[k].i = i
        BY <2>3, <4>1 DEF OnItsWay
      <4>2. CASE \E k \in DOMAIN inQueue : inQueue[k].i = i
        BY <1>1, <4>2 DEF OnItsWay
      <4>3. CASE \E v \in Engaged : working[v] = Dead \/ working[v].i = i
        <5>1. PICK v \in Engaged : working[v] = Dead \/ working[v].i = i
          BY <4>3
        <5>2. CASE v = w
          <6>1. item.i = i
            BY <1>1, <5>1, <5>2 DEF item
          <6>2. \E k \in DOMAIN outQueue' : outQueue'[k].i = i
            BY <2>2, <2>3, <6>1
          <6>3. QED
            BY <6>2 DEF OnItsWay
        <5>3. CASE v # w
          <6>1. v \in Engaged' /\ working'[v] = working[v]
            BY <2>1, <2>7, <5>3 DEF Engaged
          <6>2. QED
            BY <5>1, <6>1 DEF OnItsWay, Dead
        <5>4. QED
          BY <5>2, <5>3
      <4>4. QED
        BY <3>1, <4>1, <4>2, <4>3 DEF OnItsWay
    <3>2. QED
      BY <1>1, <1>6, <3>1 DEF RoundInv, SlotsOK
  <2>10. QED
    BY <1>4, <2>4, <2>5, <2>6, <2>8, <2>9 DEF RoundInv
<1>10. QED
  BY <1>2, <1>8, <1>9

LEMMA FreshRound == SetupInv /\ FreshPass /\ FreshWorkers => RoundInv
<1> SUFFICES ASSUME SetupInv, FreshPass, FreshWorkers
             PROVE  RoundInv
  OBVIOUS
<1>1. /\ phase = "start" /\ taken = 0 /\ put = 0 /\ fetched = 0 /\ res = NoRes
      /\ inQueue = <<>> /\ outQueue = <<>> /\ working = [w \in Workers |-> Idle]
  BY DEF FreshPass, FreshWorkers
<1>2. RoundType
  BY <1>1, SetupTypes, PackingAssumption DEF RoundType, NoRes
<1>3. WaitingOK /\ WorkingOK /\ ResultsOK
  BY <1>1, EmptySeq DEF WaitingOK, WorkingOK, ResultsOK
<1>4. CountOK
  <2>1. Engaged = {}
    BY <1>1 DEF Engaged
  <2>2. Len(inQueue) = 0 /\ Len(outQueue) = 0 /\ Cardinality(Engaged) = 0
    BY <1>1, <2>1, EmptySeq, FS_EmptySet
  <2>3. QED
    BY <1>1, <2>2 DEF CountOK
<1>5. SlotsOK /\ PhaseOK
  BY <1>1 DEF SlotsOK, PhaseOK
<1>6. QED
  BY <1>2, <1>3, <1>4, <1>5 DEF RoundInv

LEMMA InitRound == Init => RoundInv
BY FreshRound DEF Init, SetupInv

LEMMA PackRound == ASSUME RoundInv, Pack PROVE RoundInv'
<1>1. UNCHANGED args /\ args.streaming /\ PackingNext
  BY DEF Pack, loopVars
<1>2. QED
  BY <1>1, IterRound, PutRound, StopPuttingRound, FetchRound, MatchGroupRound,
     YieldRound, NextRoundRound, GetItemRound, ProcessorRound DEF PackingNext

LEMMA EndEpochRound == ASSUME RoundInv, EndEpoch PROVE RoundInv'
<1>1. /\ phase' = "start" /\ taken' = 0 /\ put' = 0 /\ fetched' = 0 /\ res' = NoRes
      /\ UNCHANGED <<args, dataset, strict, inQueue, outQueue, working>>
      /\ args.streaming => phase = "end"
  BY DEF EndEpoch, setupVars, workerVars, Exhausted
<1>2. fetched = put
  BY <1>1, SetupTypes DEF RoundInv, PhaseOK
<1>3. res' \in [1..PackingInterval -> Nat]
  BY <1>1 DEF NoRes
<1>4. QED
  BY <1>1, <1>2, <1>3, RoundAnew

LEMMA KillRound == ASSUME RoundInv, KillAndResume PROVE RoundInv'
<1>1. SetupInv'
  BY DEF KillAndResume, setupVars, RoundInv, SetupInv
<1>2. FreshPass' /\ FreshWorkers'
  BY DEF KillAndResume, FreshPass, FreshWorkers, NoRes
<1>3. SetupInv' /\ FreshPass' /\ FreshWorkers' => RoundInv'
  BY FreshRound, PTL
<1>4. QED
  BY <1>1, <1>2, <1>3

\* The steps of the training loop, and of the index, leave the pipeline alone,
\* except for the packs it has made.
LEMMA LoopRound ==
    ASSUME RoundInv, Next, ~Pack, ~EndEpoch, ~KillAndResume
    PROVE  RoundInv'
<1>1. phase' = phase
      /\ UNCHANGED <<args, dataset, strict, taken, put, fetched, inQueue,
                     outQueue, working, res>>
  BY DEF Next, Index, StartTraining, BeginEpoch, NothingLeft, TakeBatch, SkipGroup,
     SkipTooMuch, Scatter, StepShards, Train, packingVars, loopVars, setupVars,
     roundVars, workerVars
<1>2. QED
  BY <1>1, RoundMoved

LEMMA RoundStep == RoundInv /\ [Next]_vars => RoundInv'
<1> SUFFICES ASSUME RoundInv, [Next]_vars PROVE RoundInv'
  OBVIOUS
<1>1. CASE Next
  BY <1>1, PackRound, EndEpochRound, KillRound, LoopRound
<1>2. CASE UNCHANGED vars
  <2>1. phase' = phase
        /\ UNCHANGED <<args, dataset, strict, taken, put, fetched, inQueue,
                       outQueue, working, res>>
    BY <1>2 DEF vars, packingVars, loopVars, setupVars, roundVars, workerVars
  <2>2. QED
    BY <2>1, RoundMoved
<1>3. QED
  BY <1>1, <1>2

LEMMA RoundAlways == Spec => []RoundInv
BY InitRound, RoundStep, PTL DEF Spec

\* Whatever the workers of a stream do in between, and wherever the training
\* is interrupted, nothing is left in the queues of packing.py:140 or with a
\* worker between two rounds, and a round that has ended holds each of its
\* samples in the slot it was put under.
THEOREM NothingBetweenRoundsAlways == Spec => []NothingBetweenRounds
BY RoundAlways, RoundFollows, PTL

-----------------------------------------------------------------------------
(* The rounds of a pass over the dataset.                                   *)

NumRounds == Len(dataset) \div PackingInterval + 1

LEMMA RoundNumbers ==
    ASSUME SetupInv
    PROVE  /\ NumRounds \in Nat \ {0} /\ Len(dataset) \in Nat
           /\ Len(dataset) < NumRounds * PackingInterval
           /\ \A r \in 1..NumRounds :
                /\ r * PackingInterval \in Nat /\ (r - 1) * PackingInterval \in Nat
                /\ r * PackingInterval = (r - 1) * PackingInterval + PackingInterval
                /\ (r - 1) * PackingInterval <= Len(dataset)
                /\ r # NumRounds <=> r * PackingInterval <= Len(dataset)
<1> DEFINE n == Len(dataset)
           w == PackingInterval
           q == n \div w
<1>1. n \in Nat /\ w \in Nat \ {0}
  BY SetupTypes, PackingAssumption
<1> HIDE DEF n, w
<1>2. q \in Nat /\ n % w \in 0..w - 1 /\ n = q * w + (n % w)
  BY <1>1, DivMod
<1>3. NumRounds = q + 1
  BY DEF NumRounds, n, w
<1>4. \A k \in Nat : k <= q <=> k * w <= n
  BY <1>1, DivAtLeast
<1> HIDE DEF q
<1>5. n < (q + 1) * w
  <2>1. q + 1 \in Nat /\ ~(q + 1 <= q)
    BY <1>2
  <2>2. ~((q + 1) * w <= n) /\ (q + 1) * w \in Nat
    BY <1>1, <1>4, <2>1
  <2>3. QED
    BY <1>1, <2>2
<1>6. ASSUME NEW r \in 1..(q + 1)
      PROVE  /\ r * w \in Nat /\ (r - 1) * w \in Nat /\ r * w = (r - 1) * w + w
             /\ (r - 1) * w <= n
             /\ r # q + 1 <=> r * w <= n
  <2>1. r \in Nat /\ r - 1 \in Nat /\ r - 1 <= q
    BY <1>2
  <2>2. r * w \in Nat /\ (r - 1) * w \in Nat /\ r * w = (r - 1) * w + w
    BY <1>1, <2>1
  <2>3. (r - 1) * w <= n
    BY <1>4, <2>1
  <2>4. r # q + 1 <=> r <= q
    BY <1>2, <2>1
  <2>5. QED
    BY <1>4, <2>1, <2>2, <2>3, <2>4
<1>7. QED
  BY <1>1, <1>2, <1>3, <1>5, <1>6 DEF n, w

\* The samples of the first r rounds, and those of one of them.
SamplesUpTo(r) == {s \in Samples : s <= r * PackingInterval /\ Encodable(s)}
SamplesOfRound(r) ==
    {s \in Samples : /\ (r - 1) * PackingInterval < s /\ s <= r * PackingInterval
                     /\ Encodable(s)}

LEMMA LengthsType == ASSUME SetupInv PROVE \A s \in Samples : Lengths[s] \in Nat
<1>1. dataset \in Seq([length : Nat, error : {"none", "too long", "other"}])
  BY DataFeedingAssumption DEF SetupInv, SetupRecords
<1>2. \A s \in 1..Len(dataset) : dataset[s].length \in Nat
  <2> DEFINE R == [length : Nat, error : {"none", "too long", "other"}]
  <2>1. \A x \in R : x.length \in Nat
    OBVIOUS
  <2>2. dataset \in Seq(R)
    BY <1>1
  <2> HIDE DEF R
  <2>3. \A s \in 1..Len(dataset) : dataset[s] \in R
    BY <2>2, LenProperties
  <2>4. QED
    BY <2>1, <2>3
<1>3. QED
  BY <1>2 DEF Lengths, Samples

LEMMA RoundsAre ==
    ASSUME SetupInv
    PROVE  /\ Rounds \in [1..NumRounds -> Seq(Samples)]
           /\ \A r \in 1..NumRounds : Once(Rounds[r], SamplesOfRound(r))
<1> DEFINE w == PackingInterval
           Slots(r) == [i \in 1..w |-> Encoded((r - 1) * w + i)]
<1>1. w \in Nat \ {0} /\ NumRounds \in Nat \ {0} /\ Len(dataset) \in Nat
  BY RoundNumbers, PackingAssumption
<1>2. Rounds = [r \in 1..NumRounds |-> Kept(Slots(r))]
  BY DEF Rounds, NumRounds
<1>3. ASSUME NEW r \in 1..NumRounds
      PROVE  Kept(Slots(r)) \in Seq(Samples) /\ Once(Kept(Slots(r)), SamplesOfRound(r))
  <2> DEFINE m == (r - 1) * w
             slots == Slots(r)
             S == Samples \cup {0}
  <2>1. m \in Nat /\ r * w = m + w
    BY <1>1, <1>3, RoundNumbers
  <2>2. 0 \notin Samples /\ \A s \in Samples : s \in Nat
    BY <1>1 DEF Samples
  <2>3. slots \in [1..w -> S] /\ \A i \in 1..w : slots[i] = Encoded(m + i)
    BY DEF Encoded
  <2> HIDE DEF slots, m, w
  <2>4. \A i \in 1..w : slots[i] # 0 => slots[i] = m + i
    BY <2>3 DEF Encoded
  <2>5. \A i, j \in 1..w : slots[i] = slots[j] /\ slots[i] # 0 => i = j
    BY <1>1, <2>1, <2>4
  <2>6. {slots[i] : i \in 1..w} \ {0} = SamplesOfRound(r)
    <3>1. ASSUME NEW i \in 1..w, slots[i] # 0 PROVE slots[i] \in SamplesOfRound(r)
      <4>1. slots[i] = m + i /\ m + i \in Samples /\ Encodable(m + i)
        BY <2>3, <3>1 DEF Encoded
      <4>2. m < m + i /\ m + i <= m + w
        BY <1>1, <2>1
      <4>3. QED
        BY <2>1, <4>1, <4>2 DEF SamplesOfRound, m, w
    <3>2. ASSUME NEW s \in SamplesOfRound(r)
          PROVE  \E i \in 1..w : slots[i] = s /\ s # 0
      <4>1. s \in Samples /\ Encodable(s) /\ m < s /\ s <= m + w
        BY <2>1 DEF SamplesOfRound, m, w
      <4>2. s - m \in 1..w /\ m + (s - m) = s /\ s # 0
        BY <1>1, <2>1, <2>2, <4>1
      <4>3. slots[s - m] = s
        BY <2>3, <4>1, <4>2 DEF Encoded
      <4>4. QED
        BY <4>2, <4>3
    <3>3. {slots[i] : i \in 1..w} \ {0} \subseteq SamplesOfRound(r)
      BY <3>1
    <3>4. SamplesOfRound(r) \subseteq {slots[i] : i \in 1..w} \ {0}
      BY <3>2
    <3>5. QED
      BY <3>3, <3>4
  <2> HIDE DEF S
  <2>7. Kept(slots) \in Seq(S) /\ Once(Kept(slots), SamplesOfRound(r))
    <3>1. w \in Nat /\ slots \in [1..w -> S]
      BY <1>1, <2>3
    <3>2. /\ Kept(slots) \in Seq(S)
          /\ Once(Kept(slots), NotNone(slots, w))
      BY <2>5, <3>1, KeptOnce
    <3>3. QED
      BY <2>6, <3>2, Zenon DEF NotNone
  <2> DEFINE kept == Kept(slots)
             len == Len(kept)
  <2>8. len \in Nat /\ DOMAIN kept = 1..len /\ kept = [i \in 1..len |-> kept[i]]
    BY <2>7, LenProperties
  <2> HIDE DEF kept, len
  <2>9. \A i \in 1..len : kept[i] \in Samples
    <3>1. \A i \in DOMAIN kept : kept[i] \in SamplesOfRound(r)
      BY <2>7, OnceIs DEF kept
    <3>2. QED
      BY <2>8, <3>1 DEF SamplesOfRound
  <2>10. kept \in Seq(Samples)
    <3>1. kept \in [1..len -> Samples]
      BY <2>8, <2>9
    <3>2. QED
      BY <2>8, <3>1, SeqDef
  <2>11. QED
    BY <2>7, <2>10 DEF kept, slots
<1> HIDE DEF Slots
<1>4. QED
  BY <1>2, <1>3

-----------------------------------------------------------------------------
\* c has what has been packed, and is held back, after 0, 1, 2, ... rounds.
RoundsChain(c) ==
    /\ c \in [0..NumRounds -> States(Samples)]
    /\ PacksRounds(Rounds, Lengths, NumRounds, c)

LEMMA ChainExists == ASSUME SetupInv PROVE \E c : RoundsChain(c)
<1>1. /\ Rounds \in [1..NumRounds -> Seq(Samples)] /\ NumRounds \in Nat
      /\ \A s \in Samples : Lengths[s] \in Nat
  BY RoundsAre, RoundNumbers, LengthsType
<1>2. PICK c \in [0..NumRounds -> States(Samples)] :
            PacksRounds(Rounds, Lengths, NumRounds, c)
  BY <1>1, RoundsByStep
<1>3. QED
  BY <1>2 DEF RoundsChain

LEMMA ChainStep ==
    ASSUME SetupInv, NEW c, RoundsChain(c), NEW r \in 1..NumRounds
    PROVE  /\ c[r] = PackedOn(c[r - 1], Rounds[r], Lengths, r = NumRounds)
           /\ c[r] \in States(Samples) /\ c[r - 1] \in States(Samples)
           /\ r - 1 \in 0..NumRounds /\ r \in 0..NumRounds
<1>1. r - 1 \in 0..NumRounds /\ r \in 0..NumRounds
  BY RoundNumbers
<1>2. QED
  BY <1>1 DEF RoundsChain, PacksRounds

\* After each round the samples of the rounds so far are packed, or held back.
LEMMA ChainOnce ==
    ASSUME SetupInv, NEW c, RoundsChain(c)
    PROVE  \A r \in 0..NumRounds :
              EachOnce(c[r].packs \o <<c[r].rest>>, SamplesUpTo(r))
<1> DEFINE X == [r \in 0..NumRounds |-> SamplesUpTo(r)]
           L == NumRounds
<1>1. L \in Nat /\ Len(dataset) \in Nat /\ PackingInterval \in Nat
  BY RoundNumbers, PackingAssumption
<1>2. \A r \in 0..L : X[r] = SamplesUpTo(r)
  OBVIOUS
<1> HIDE DEF L, X
<1>3. X[0] = {}
  <2>1. 0 \in 0..L /\ 0 * PackingInterval = 0
    BY <1>1
  <2>2. \A s \in Samples : ~(s <= 0)
    BY <1>1 DEF Samples
  <2>3. QED
    BY <1>2, <2>1, <2>2 DEF SamplesUpTo
<1>4. ASSUME NEW r \in 1..L
      PROVE  /\ Once(Rounds[r], SamplesOfRound(r))
             /\ X[r - 1] \cap SamplesOfRound(r) = {}
             /\ X[r] = X[r - 1] \cup SamplesOfRound(r)
  <2> DEFINE a == (r - 1) * PackingInterval
             b == r * PackingInterval
  <2>1. r - 1 \in 0..L /\ r \in 0..L
    BY <1>1
  <2>2. a \in Nat /\ b = a + PackingInterval
    BY RoundNumbers DEF L
  <2>3. Once(Rounds[r], SamplesOfRound(r))
    BY RoundsAre DEF L
  <2>4. \A s : /\ s \in X[r - 1] <=> s \in Samples /\ s <= a /\ Encodable(s)
               /\ s \in X[r] <=> s \in Samples /\ s <= b /\ Encodable(s)
               /\ s \in SamplesOfRound(r)
                    <=> s \in Samples /\ a < s /\ s <= b /\ Encodable(s)
    BY <1>2, <2>1 DEF SamplesUpTo, SamplesOfRound
  <2>5. \A s \in Samples : s \in Nat
    BY DEF Samples
  <2> HIDE DEF a, b
  <2>6. \A s \in Samples : ~(s <= a /\ a < s) /\ (s <= a => s <= b) /\ (s <= a \/ a < s)
    BY <1>1, <2>2, <2>5
  <2>7. QED
    BY <2>3, <2>4, <2>6
<1>5. RoundsOnce(Rounds, L, X)
  BY <1>3, <1>4 DEF RoundsOnce
<1>6. /\ Rounds \in [1..L -> Seq(Samples)] /\ \A s \in Samples : Lengths[s] \in Nat
      /\ c \in [0..L -> States(Samples)] /\ PacksRounds(Rounds, Lengths, L, c)
  BY RoundsAre, LengthsType DEF RoundsChain, L
<1>7. \A r \in 0..L : EachOnce(c[r].packs \o <<c[r].rest>>, X[r])
  BY <1>1, <1>5, <1>6, RoundsPackedOnce
<1>8. QED
  BY <1>2, <1>7 DEF L

\* The packs of some rounds are the first of those of all of them.
LEMMA ChainPrefix ==
    ASSUME SetupInv, NEW c, RoundsChain(c), NEW r \in 0..NumRounds
    PROVE  Prefix(c[r].packs, c[NumRounds].packs)
<1> DEFINE L == NumRounds
           T == {k \in 0..L : k >= r => Prefix(c[r].packs, c[k].packs)}
<1>1. L \in Nat /\ r \in 0..L /\ r \in Nat
  BY RoundNumbers
<1>2. \A k \in 0..L : c[k].packs \in Seq(Seq(Samples)) /\ c[k].rest \in Seq(Samples)
  BY DEF RoundsChain, States
<1> HIDE DEF L
<1>3. \A k \in 0..L : Len(c[k].packs) \in Nat
  BY <1>2, LenProperties
<1>4. Prefix(c[r].packs, c[r].packs)
  BY <1>1, <1>3 DEF Prefix
<1>5. 0 \in T /\ T \in SUBSET Nat
  <2>1. 0 >= r => r = 0
    BY <1>1
  <2>2. QED
    BY <1>1, <1>4, <2>1
<1>6. ASSUME NEW k \in T, k < L PROVE k + 1 \in T
  <2>1. /\ k \in Nat /\ k \in 0..L /\ k + 1 \in 1..L /\ k + 1 \in 0..L
        /\ (k + 1) - 1 = k
    BY <1>1, <1>6
  <2>2. CASE k >= r
    <3> DEFINE all == c[k].rest \o Rounds[k + 1]
               new == CalculateMatchedGroup(all, Lengths, k + 1 = L).packs
               p == c[k].packs
    <3>1. c[k + 1].packs = p \o new
      <4>1. k + 1 \in 1..NumRounds
        BY <2>1 DEF L
      <4>2. c[k + 1] = PackedOn(c[(k + 1) - 1], Rounds[k + 1], Lengths, k + 1 = NumRounds)
        BY <4>1, ChainStep
      <4>3. c[k + 1] = PackedOn(c[k], Rounds[k + 1], Lengths, k + 1 = L)
        BY <2>1, <4>2 DEF L
      <4> DEFINE q == p \o new
                 rest == CalculateMatchedGroup(all, Lengths, k + 1 = L).rest
      <4>4. c[k + 1] = [packs |-> q, rest |-> rest]
        BY <4>3 DEF PackedOn
      <4> HIDE DEF q, rest
      <4>5. c[k + 1].packs = q
        BY <4>4
      <4>6. QED
        BY <4>5 DEF q
    <3>2. new \in Seq(Seq(Samples)) /\ p \in Seq(Seq(Samples))
      <4>1. /\ Rounds[k + 1] \in Seq(Samples) /\ (k + 1 = L) \in BOOLEAN
            /\ \A s \in Samples : Lengths[s] \in Nat
        BY <2>1, RoundsAre, LengthsType DEF L
      <4>2. all \in Seq(Samples)
        BY <1>2, <2>1, <4>1, ConcatProperties
      <4> HIDE DEF all
      <4>3. QED
        BY <1>2, <2>1, <4>1, <4>2, MatchedPacks
    <3> HIDE DEF new
    <3>3. Prefix(c[r].packs, p)
      BY <2>2
    <3> HIDE DEF p
    <3>4. EndToEnd(p, new, p \o new)
      BY <3>2, ConcatAt
    <3>5. Len(p) \in Nat /\ Len(new) \in Nat /\ Len(c[r].packs) \in Nat
      BY <1>1, <1>3, <3>2, LenProperties
    <3>6. Prefix(c[r].packs, p \o new)
      BY <3>3, <3>4, <3>5 DEF Prefix, EndToEnd
    <3>7. QED
      BY <2>1, <3>1, <3>6
  <2>3. CASE ~(k >= r)
    <3>1. k + 1 >= r => k + 1 = r
      BY <1>1, <2>1, <2>3
    <3>2. QED
      BY <1>4, <2>1, <3>1
  <2>4. QED
    BY <2>2, <2>3
<1>7. L \in T
  <2> HIDE DEF T
  <2>1. \A k \in 0..L : k \in T
    BY <1>1, <1>5, <1>6, Induction
  <2>2. QED
    BY <1>1, <2>1
<1>8. QED
  BY <1>1, <1>7 DEF L

\* Nothing is held back after the last round; of no samples there are no packs.
LEMMA ChainEnd ==
    ASSUME SetupInv, NEW c, RoundsChain(c)
    PROVE  /\ c[NumRounds].rest = <<>>
           /\ dataset = <<>> => c[NumRounds].packs = <<>>
           /\ PacksOfDataset = c[NumRounds].packs
           /\ c[0] = NothingPacked
<1> DEFINE L == NumRounds
           all == c[L - 1].rest \o Rounds[L]
           matched == CalculateMatchedGroup(all, Lengths, TRUE)
<1>1. L \in 1..NumRounds
  BY RoundNumbers
<1>2. /\ c[L] = PackedOn(c[L - 1], Rounds[L], Lengths, TRUE)
      /\ c[L - 1] \in States(Samples)
  <2>1. /\ c[L] = PackedOn(c[L - 1], Rounds[L], Lengths, L = NumRounds)
        /\ c[L - 1] \in States(Samples)
    BY <1>1, ChainStep
  <2>2. (L = NumRounds) = TRUE
    OBVIOUS
  <2>3. QED
    BY <2>1, <2>2, Zenon
<1>3. c[L].packs = c[L - 1].packs \o matched.packs /\ c[L].rest = matched.rest
  <2> DEFINE q == c[L - 1].packs \o matched.packs
             rest == matched.rest
  <2>1. c[L] = [packs |-> q, rest |-> rest]
    BY <1>2 DEF PackedOn
  <2> HIDE DEF q, rest
  <2>2. c[L].packs = q /\ c[L].rest = rest
    BY <2>1
  <2>3. QED
    BY <2>2 DEF q, rest
<1>4. /\ all \in Seq(Samples) /\ Rounds[L] \in Seq(Samples)
      /\ c[L - 1].rest \in Seq(Samples) /\ \A s \in Samples : Lengths[s] \in Nat
  <2>1. c[L - 1].rest \in Seq(Samples) /\ Rounds[L] \in Seq(Samples)
    BY <1>1, <1>2, RoundsAre DEF States
  <2>2. QED
    BY <2>1, LengthsType, ConcatProperties
<1>5. matched.rest = <<>> /\ (all = <<>> => matched.packs = <<>>)
  <2> HIDE DEF all
  <2>1. QED
    BY <1>4, MatchedPacks
<1>6. c[0] = NothingPacked /\ PacksOfDataset = c[NumRounds].packs
  BY DEF RoundsChain, PacksRounds, PacksOfDataset
<1>7. ASSUME dataset = <<>> PROVE c[L].packs = <<>>
  <2>1. Len(dataset) = 0 /\ Samples = {}
    BY <1>7 DEF Samples
  <2>2. L = 1
    <3>1. L \in Nat \ {0} /\ (L # L <=> L * PackingInterval <= Len(dataset))
          /\ (L - 1) * PackingInterval <= 0 /\ L * PackingInterval = (L - 1) * PackingInterval + PackingInterval
      BY <1>1, <2>1, RoundNumbers
    <3> DEFINE w == PackingInterval
    <3>2. w \in Nat \ {0}
      BY PackingAssumption
    <3> HIDE DEF w, L
    <3>3. ASSUME L >= 2 PROVE FALSE
      <4>1. 1 * w <= (L - 1) * w
        BY <3>1, <3>2, <3>3, TimesMonotone
      <4>2. QED
        BY <3>1, <3>2, <4>1 DEF w
    <3>4. QED
      BY <3>1, <3>3
  <2>3. all = <<>>
    <3>1. ASSUME NEW s \in Seq(Samples) PROVE s = <<>>
      <4>1. Len(s) \in Nat /\ \A i \in 1..Len(s) : s[i] \in {}
        BY <2>1, LenProperties
      <4>2. Len(s) = 0
        BY <4>1
      <4>3. QED
        BY <4>2, EmptySeq
    <3> HIDE DEF all
    <3>2. QED
      BY <1>4, <3>1
  <2>4. c[L - 1].packs = <<>>
    BY <1>6, <2>2 DEF NothingPacked
  <2> HIDE DEF matched, all, L
  <2>5. c[L].packs = <<>> \o <<>>
    BY <1>3, <1>5, <2>3, <2>4
  <2>6. QED
    BY <2>5, ConcatEmptySeq
<1>8. QED
  BY <1>3, <1>5, <1>6, <1>7

-----------------------------------------------------------------------------
(***************************************************************************)
(* The packs of a pass.  Between the rounds what has been packed and what  *)
(* is held back is what packing one round after another comes to; during   *)
(* one it is that of the rounds before it.                                 *)
(***************************************************************************)
PacksType == ready \in Seq(Packs) /\ yielded \in Seq(Packs) /\ data \in Packs

HeldBetween ==
    /\ phase = "start" =>
         taken = 0 /\ yielded = <<>> /\ ready = <<>> /\ data = <<>>
    /\ phase \in {"fetch", "yield"} =>
         finished = (put # PackingInterval)
         /\ (put = PackingInterval \/ taken = Len(dataset))

HeldInRound(c) ==
    phase \in {"put", "fetch"} =>
        \E r \in 1..NumRounds :
            /\ taken - put = (r - 1) * PackingInterval
            /\ yielded = c[r - 1].packs /\ data = c[r - 1].rest /\ ready = <<>>

HeldAfterRound(c) ==
    phase = "yield" =>
        \E r \in 1..NumRounds :
            /\ taken - put = (r - 1) * PackingInterval
            /\ yielded \o ready = c[r].packs /\ data = c[r].rest

HeldAtEnd(c) ==
    phase = "end" => /\ yielded = c[NumRounds].packs /\ ready = <<>> /\ data = <<>>
                     /\ taken = Len(dataset)

Held(c) == HeldInRound(c) /\ HeldAfterRound(c) /\ HeldAtEnd(c)

PacksInv ==
    /\ RoundInv /\ PacksType /\ HeldBetween
    /\ \E c : RoundsChain(c) /\ Held(c)

-----------------------------------------------------------------------------
LEMMA SamePrefix ==
    ASSUME NEW S, NEW s \in Seq(S), NEW t \in Seq(S), Prefix(s, t)
    PROVE  IsPrefix(s, t)
<1> DEFINE n == Len(s)
           a == SubSeq(s, 1, n)
           b == SubSeq(t, 1, n)
<1>1. /\ n \in Nat /\ n <= Len(t) /\ Len(t) \in Nat
      /\ \A i \in 1..n : s[i] \in S /\ t[i] \in S /\ t[i] = s[i]
  BY LenProperties DEF Prefix
<1>2. 1 <= n => n - 1 + 1 = n
  BY <1>1
<1> HIDE DEF n
<1>3. /\ a \in Seq(S) /\ b \in Seq(S)
      /\ Len(a) = Len(b)
      /\ \A i \in 1..n : a[i] = s[1 + i - 1] /\ b[i] = t[1 + i - 1]
      /\ Len(a) = n
  BY <1>1, <1>2, SubSeqProperties
<1> HIDE DEF a, b
<1>4. \A i \in 1..n : a[i] = b[i]
  <2>1. \A i \in 1..n : 1 + i - 1 = i
    BY <1>1
  <2>2. QED
    BY <1>1, <1>3, <2>1
<1>5. a = b
  BY <1>3, <1>4, SeqEqual
<1>6. QED
  BY <1>1, <1>5 DEF IsPrefix, a, b, n

LEMMA ConcatPrefix ==
    ASSUME NEW S, NEW s \in Seq(S), NEW t \in Seq(S)
    PROVE  Prefix(s, s \o t)
<1>1. EndToEnd(s, t, s \o t) /\ Len(s) \in Nat /\ Len(t) \in Nat
  BY ConcatAt, LenProperties
<1>2. QED
  BY <1>1 DEF Prefix, EndToEnd

LEMMA PrefixTransitive ==
    ASSUME NEW S, NEW s \in Seq(S), NEW t \in Seq(S), NEW u \in Seq(S),
           Prefix(s, t), Prefix(t, u)
    PROVE  Prefix(s, u)
<1>1. Len(s) \in Nat /\ Len(t) \in Nat /\ Len(u) \in Nat
  BY LenProperties
<1>2. QED
  BY <1>1 DEF Prefix

\* What is read of a round that is over.
LEMMA ReadUpTo ==
    ASSUME RoundInv, NEW r \in 1..NumRounds,
           taken - put = (r - 1) * PackingInterval,
           put = PackingInterval \/ taken = Len(dataset)
    PROVE  /\ (put # PackingInterval) <=> r = NumRounds
           /\ {s \in 1..taken : Encodable(s)} = SamplesUpTo(r)
           /\ r = NumRounds => taken = Len(dataset)
<1> DEFINE w == PackingInterval
           n == Len(dataset)
           a == (r - 1) * w
           b == r * w
<1>1. /\ a \in Nat /\ b \in Nat /\ b = a + w /\ (r # NumRounds <=> b <= n)
      /\ n \in Nat /\ w \in Nat \ {0}
  BY RoundNumbers, PackingAssumption DEF RoundInv
<1>2. taken \in Nat /\ put \in 0..w /\ taken <= n /\ taken - put = a
      /\ (put = w \/ taken = n)
  BY DEF RoundInv, RoundType
<1>3. Samples = 1..n
  BY DEF Samples
<1>4. SamplesUpTo(r) = {s \in Samples : s <= b /\ Encodable(s)}
  BY DEF SamplesUpTo
<1> HIDE DEF w, n, a, b
<1>5. put # w <=> r = NumRounds
  BY <1>1, <1>2
<1>6. \A s : s \in 1..taken <=> s \in 1..n /\ s <= b
  BY <1>1, <1>2
<1>7. r = NumRounds => taken = n
  BY <1>1, <1>2
<1>8. {s \in 1..taken : Encodable(s)} = {s \in 1..n : s <= b /\ Encodable(s)}
  BY <1>6
<1>9. QED
  BY <1>3, <1>4, <1>5, <1>7, <1>8 DEF w, n

LEMMA YieldedSoFar ==
    ASSUME PacksInv
    PROVE  /\ PacksOfDataset \in Seq(Packs) /\ yielded \in Seq(Packs)
           /\ Prefix(yielded, PacksOfDataset)
           /\ phase = "end" => yielded = PacksOfDataset
<1> DEFINE L == NumRounds
<1>1. PICK c : RoundsChain(c) /\ Held(c)
  BY DEF PacksInv
<1>2. RoundInv /\ SetupInv /\ PacksType /\ HeldBetween
  BY DEF PacksInv, RoundInv
<1>3. \A k \in 0..L : c[k].packs \in Seq(Packs) /\ c[k].rest \in Packs
  BY <1>1 DEF RoundsChain, States, Packs
<1>4. L \in Nat \ {0} /\ L \in 0..L
  BY <1>2, RoundNumbers
<1>5. PacksOfDataset = c[L].packs
  BY <1>1, <1>2, ChainEnd
<1>6. phase \in {"start", "put", "fetch", "yield", "end"}
  BY <1>2 DEF RoundInv, RoundType
<1>7. ready \in Seq(Packs) /\ yielded \in Seq(Packs) /\ data \in Packs
  BY <1>2 DEF PacksType
<1>8. \A r \in 1..L : r \in 0..L /\ r - 1 \in 0..L
  BY <1>4
<1>9. Prefix(yielded, c[L].packs)
  <2>1. CASE phase = "start"
    <3>1. Len(yielded) = 0 /\ Len(c[L].packs) \in Nat
      BY <1>2, <1>3, <1>4, <2>1, LenProperties, EmptySeq DEF HeldBetween
    <3>2. QED
      BY <3>1 DEF Prefix
  <2>2. CASE phase \in {"put", "fetch"}
    <3>1. PICK r \in 1..L : yielded = c[r - 1].packs
      BY <1>1, <2>2 DEF Held, HeldInRound
    <3>2. r - 1 \in 0..L
      BY <1>8
    <3>3. QED
      BY <1>1, <1>2, <3>1, <3>2, ChainPrefix
  <2>3. CASE phase = "yield"
    <3>1. PICK r \in 1..L : yielded \o ready = c[r].packs
      BY <1>1, <2>3 DEF Held, HeldAfterRound
    <3>2. r \in 0..L
      BY <1>8
    <3>3. Prefix(yielded, yielded \o ready)
      BY <1>7, ConcatPrefix
    <3>4. Prefix(c[r].packs, c[L].packs)
      BY <1>1, <1>2, <3>2, ChainPrefix
    <3>5. QED
      BY <1>3, <1>4, <1>7, <3>1, <3>2, <3>3, <3>4, PrefixTransitive
  <2>4. CASE phase = "end"
    <3>1. yielded = c[L].packs
      BY <1>1, <2>4 DEF Held, HeldAtEnd
    <3>2. QED
      BY <1>1, <1>2, <1>4, <3>1, ChainPrefix
  <2>5. QED
    BY <1>6, <2>1, <2>2, <2>3, <2>4
<1>10. phase = "end" => yielded = c[L].packs
  BY <1>1 DEF Held, HeldAtEnd
<1>11. QED
  BY <1>3, <1>4, <1>5, <1>7, <1>9, <1>10

LEMMA PacksFollow == PacksInv => PacksInOrder
<1> SUFFICES ASSUME PacksInv PROVE PacksInOrder
  OBVIOUS
<1> DEFINE L == NumRounds
<1>1. PICK c : RoundsChain(c) /\ Held(c)
  BY DEF PacksInv
<1>2. RoundInv /\ SetupInv /\ PacksType /\ HeldBetween
  BY DEF PacksInv, RoundInv
<1>3. \A k \in 0..L : c[k].packs \in Seq(Packs) /\ c[k].rest \in Packs
  BY <1>1 DEF RoundsChain, States, Packs
<1>4. L \in Nat \ {0} /\ L \in 0..L
  BY <1>2, RoundNumbers
<1>5. PacksOfDataset = c[L].packs
  BY <1>1, <1>2, ChainEnd
<1>6. phase \in {"start", "put", "fetch", "yield", "end"}
  BY <1>2 DEF RoundInv, RoundType
<1>7. ready \in Seq(Packs) /\ yielded \in Seq(Packs) /\ data \in Packs
  BY <1>2 DEF PacksType
<1>8. \A r \in 1..L : r \in 0..L /\ r - 1 \in 0..L
  BY <1>4
<1>9. Prefix(yielded, c[L].packs)
  BY <1>5, YieldedSoFar
<1>10. IsPrefix(yielded, PacksOfDataset)
  BY <1>3, <1>4, <1>5, <1>7, <1>9, SamePrefix
<1>11. CASE phase = "yield"
  <2>1. PICK r \in 1..L : /\ taken - put = (r - 1) * PackingInterval
                          /\ yielded \o ready = c[r].packs /\ data = c[r].rest
    BY <1>1, <1>11 DEF Held, HeldAfterRound
  <2>2. put = PackingInterval \/ taken = Len(dataset)
    BY <1>2, <1>11 DEF HeldBetween
  <2>3. {s \in 1..taken : Encodable(s)} = SamplesUpTo(r)
    BY <1>2, <2>1, <2>2, ReadUpTo
  <2>4. EachOnce(c[r].packs \o <<c[r].rest>>, SamplesUpTo(r))
    BY <1>1, <1>2, <1>8, ChainOnce
  <2>5. EachOnce(yielded \o ready \o <<data>>, {s \in 1..taken : Encodable(s)})
    BY <2>1, <2>3, <2>4
  <2>6. QED
    BY <1>10, <1>11, <2>5 DEF PacksInOrder
<1>12. CASE phase = "end"
  <2>1. /\ yielded = c[L].packs /\ ready = <<>> /\ data = <<>>
        /\ taken = Len(dataset)
    BY <1>1, <1>12 DEF Held, HeldAtEnd
  <2>2. c[L].rest = <<>>
    BY <1>1, <1>2, ChainEnd
  <2>3. yielded \o ready = yielded
    BY <1>7, <2>1, ConcatEmptySeq
  <2>4. {s \in 1..taken : Encodable(s)} = SamplesUpTo(L)
    <3> DEFINE n == Len(dataset)
               b == L * PackingInterval
    <3>1. n < b /\ n \in Nat /\ b \in Nat
      BY <1>2, <1>4, RoundNumbers, PackingAssumption
    <3>2. Samples = 1..n
      BY DEF Samples
    <3>3. SamplesUpTo(L) = {s \in 1..n : s <= b /\ Encodable(s)}
      BY <3>2 DEF SamplesUpTo
    <3> HIDE DEF b
    <3>4. \A s \in 1..n : s <= b
      BY <3>1
    <3>5. QED
      BY <2>1, <3>3, <3>4
  <2>5. EachOnce(c[L].packs \o <<c[L].rest>>, SamplesUpTo(L))
    BY <1>1, <1>2, <1>4, ChainOnce
  <2>6. EachOnce(yielded \o ready \o <<data>>, {s \in 1..taken : Encodable(s)})
    BY <2>1, <2>2, <2>3, <2>4, <2>5
  <2>7. QED
    BY <1>10, <1>12, <2>1, <2>6 DEF PacksInOrder
<1>13. CASE phase \notin {"yield", "end"}
  BY <1>10, <1>13 DEF PacksInOrder
<1>14. QED
  BY <1>11, <1>12, <1>13

-----------------------------------------------------------------------------
LEMMA ChainSame ==
    ASSUME UNCHANGED dataset
    PROVE  /\ NumRounds' = NumRounds /\ Samples' = Samples /\ Packs' = Packs
           /\ \A c : RoundsChain(c)' <=> RoundsChain(c)
<1>1. /\ Samples' = Samples /\ Lengths' = Lengths /\ NumRounds' = NumRounds
      /\ Packs' = Packs
  BY DEF Samples, Lengths, NumRounds, Packs
<1>2. \A s : Encoded(s)' = Encoded(s)
  BY DEF Encoded, Encodable, Samples
<1>3. Rounds' = Rounds
  BY <1>2 DEF Rounds
<1>4. ASSUME NEW c PROVE RoundsChain(c)' <=> RoundsChain(c)
  BY <1>1, <1>3 DEF RoundsChain, PacksRounds
<1>5. QED
  BY <1>1, <1>4

\* A step that leaves the packs alone, and may go on in a round.
LEMMA PacksMoved ==
    ASSUME PacksInv, RoundInv',
           UNCHANGED <<dataset, ready, yielded, data>>,
           \/ phase' = phase /\ UNCHANGED finished
              /\ taken' - put' = taken - put
              /\ (phase \in {"start", "fetch", "yield"} => UNCHANGED <<taken, put>>)
              /\ (phase = "end" => UNCHANGED taken)
           \/ phase = "put" /\ phase' = "fetch" /\ UNCHANGED <<taken, put>>
              /\ (put = PackingInterval \/ taken = Len(dataset))
              /\ finished' = (put # PackingInterval)
    PROVE  PacksInv'
<1>1. /\ NumRounds' = NumRounds /\ Packs' = Packs
      /\ \A c : RoundsChain(c)' <=> RoundsChain(c)
  BY ChainSame
<1>2. PICK c : RoundsChain(c) /\ Held(c)
  BY DEF PacksInv
<1>3. PacksType'
  BY <1>1 DEF PacksInv, PacksType
<1>4. HeldBetween'
  BY DEF PacksInv, HeldBetween
<1>5. Held(c)'
  <2>1. HeldInRound(c)'
    BY <1>1, <1>2 DEF Held, HeldInRound
  <2>2. HeldAfterRound(c)'
    BY <1>1, <1>2 DEF Held, HeldAfterRound
  <2>3. HeldAtEnd(c)'
    BY <1>1, <1>2 DEF Held, HeldAtEnd
  <2>4. QED
    BY <2>1, <2>2, <2>3 DEF Held
<1>6. RoundsChain(c)'
  BY <1>1, <1>2
<1>7. QED
  BY <1>3, <1>4, <1>5, <1>6 DEF PacksInv

\* A pass begins with nothing packed.
LEMMA PacksFresh ==
    ASSUME RoundInv, phase = "start", taken = 0, yielded = <<>>, ready = <<>>, data = <<>>
    PROVE  PacksInv
<1>1. PICK c : RoundsChain(c)
  BY ChainExists DEF RoundInv
<1>2. Held(c)
  BY DEF Held, HeldInRound, HeldAfterRound, HeldAtEnd
<1>3. PacksType /\ HeldBetween
  BY DEF PacksType, HeldBetween, Packs
<1>4. QED
  BY <1>1, <1>2, <1>3 DEF PacksInv

LEMMA InitPacks == Init => PacksInv
BY InitRound, PacksFresh DEF Init, FreshPass

LEMMA IterPacks == ASSUME PacksInv, Iter, RoundInv' PROVE PacksInv'
<1>1. /\ phase = "start" /\ phase' = IF dataset = <<>> THEN "end" ELSE "put"
      /\ UNCHANGED <<dataset, taken, put, finished, data, ready, yielded>>
  BY DEF Iter, setupVars, roundVars, packVars
<1>2. PICK c : RoundsChain(c)
  BY DEF PacksInv
<1>3. RoundInv /\ SetupInv /\ taken = 0 /\ yielded = <<>> /\ ready = <<>> /\ data = <<>>
  BY <1>1 DEF PacksInv, HeldBetween, RoundInv
<1>4. /\ NumRounds' = NumRounds /\ Packs' = Packs /\ RoundsChain(c)'
  BY <1>1, <1>2, ChainSame
<1>5. PacksType' /\ HeldBetween'
  BY <1>1, <1>3, <1>4 DEF PacksInv, PacksType, HeldBetween
<1>6. CASE dataset = <<>>
  <2>1. phase' = "end" /\ Len(dataset) = 0 /\ taken = 0
    BY <1>1, <1>3, <1>6, EmptySeq DEF RoundInv, RoundType
  <2>2. c[NumRounds].packs = <<>>
    BY <1>2, <1>3, <1>6, ChainEnd
  <2>3. HeldAtEnd(c)'
    BY <1>1, <1>3, <1>4, <2>1, <2>2 DEF HeldAtEnd
  <2>4. HeldInRound(c)' /\ HeldAfterRound(c)'
    BY <2>1 DEF HeldInRound, HeldAfterRound
  <2>5. QED
    BY <1>4, <1>5, <2>3, <2>4 DEF PacksInv, Held
<1>7. CASE dataset # <<>>
  <2>1. phase' = "put" /\ put = 0 /\ taken - put = 0
    <3>1. put = 0 /\ taken = 0
      BY <1>1, <1>3 DEF RoundInv, PhaseOK
    <3>2. QED
      BY <1>1, <1>7, <3>1
  <2>2. c[0] = NothingPacked
    BY <1>2, <1>3, ChainEnd
  <2>3. 1 \in 1..NumRounds /\ 1 - 1 = 0 /\ 0 * PackingInterval = 0
    BY <1>3, RoundNumbers, PackingAssumption
  <2>4. HeldInRound(c)'
    <3>1. /\ (taken' - put') = (1 - 1) * PackingInterval
          /\ yielded' = c[1 - 1].packs /\ data' = c[1 - 1].rest /\ ready' = <<>>
      BY <1>1, <1>3, <2>1, <2>2, <2>3 DEF NothingPacked
    <3>2. QED
      BY <1>4, <2>3, <3>1 DEF HeldInRound
  <2>5. HeldAtEnd(c)' /\ HeldAfterRound(c)'
    BY <2>1 DEF HeldAtEnd, HeldAfterRound
  <2>6. QED
    BY <1>4, <1>5, <2>4, <2>5 DEF PacksInv, Held
<1>8. QED
  BY <1>6, <1>7

LEMMA RoundFilled ==
    ASSUME RoundInv, fetched = put, phase = "fetch", NEW r \in 1..NumRounds,
           taken - put = (r - 1) * PackingInterval,
           put = PackingInterval \/ taken = Len(dataset)
    PROVE  Kept(res) = Rounds[r]
<1> DEFINE w == PackingInterval
           m == (r - 1) * w
<1>1. /\ w \in Nat \ {0} /\ m \in Nat /\ taken - put = m
      /\ taken \in Nat /\ put \in 0..w /\ Len(dataset) \in Nat
  BY RoundNumbers, RoundTypes DEF RoundInv
<1>2. ASSUME NEW i \in 1..w PROVE res[i] = Encoded(m + i)
  <2>1. res[i] = IF i <= put THEN Encoded(taken - put + i) ELSE 0
    BY SlotsFilled
  <2>2. CASE i <= put
    BY <1>1, <2>1, <2>2
  <2>3. CASE ~(i <= put)
    <3>1. put # w /\ taken = Len(dataset)
      BY <1>1, <2>3
    <3>2. m + i \notin Samples
      <4> HIDE DEF m
      <4>1. m + i > taken
        BY <1>1, <2>3
      <4>2. QED
        BY <1>1, <3>1, <4>1 DEF Samples
    <3>3. QED
      BY <2>1, <2>3, <3>2 DEF Encoded
  <2>4. QED
    BY <2>2, <2>3
<1>3. res = [i \in 1..w |-> Encoded(m + i)]
  <2>1. DOMAIN res = 1..w /\ res = [i \in DOMAIN res |-> res[i]]
    BY DEF RoundInv, RoundType
  <2> HIDE DEF m, w
  <2>2. [i \in 1..w |-> res[i]] = [i \in 1..w |-> Encoded(m + i)]
    BY <1>2
  <2>3. QED
    BY <2>1, <2>2, Zenon
<1> DEFINE slots == [i \in 1..w |-> Encoded(m + i)]
<1>4. Rounds[r] = Kept(slots)
  BY DEF Rounds, NumRounds
<1> HIDE DEF slots
<1>5. res = slots
  BY <1>3 DEF slots
<1>6. QED
  BY <1>4, <1>5

LEMMA MatchGroupPacks == ASSUME PacksInv, MatchGroup, RoundInv' PROVE PacksInv'
<1> DEFINE matched == CalculateMatchedGroup(LastRes, Lengths, finished)
           L == NumRounds
<1>1. /\ phase = "fetch" /\ fetched = put /\ phase' = "yield"
      /\ ready' = matched.packs /\ data' = matched.rest
      /\ UNCHANGED <<dataset, taken, put, finished, yielded>>
  BY DEF MatchGroup, setupVars
<1>2. PICK c : RoundsChain(c) /\ Held(c)
  BY DEF PacksInv
<1>3. RoundInv /\ SetupInv /\ HeldBetween /\ PacksType
  BY DEF PacksInv, RoundInv
<1>4. PICK r \in 1..L :
        /\ taken - put = (r - 1) * PackingInterval
        /\ yielded = c[r - 1].packs /\ data = c[r - 1].rest
  BY <1>1, <1>2 DEF Held, HeldInRound
<1>5. put = PackingInterval \/ taken = Len(dataset)
  BY <1>1, <1>3 DEF HeldBetween
<1>6. finished = (r = L)
  <2>1. (put # PackingInterval) <=> r = L
    BY <1>3, <1>4, <1>5, ReadUpTo
  <2>2. finished = (put # PackingInterval)
    BY <1>1, <1>3 DEF HeldBetween
  <2>3. QED
    BY <2>1, <2>2
<1>7. LastRes = c[r - 1].rest \o Rounds[r]
  <2>1. Kept(res) = Rounds[r]
    BY <1>1, <1>3, <1>4, <1>5, RoundFilled
  <2>2. QED
    BY <1>4, <2>1 DEF LastRes
<1> DEFINE all == c[r - 1].rest \o Rounds[r]
           last == (r = L)
           formed == CalculateMatchedGroup(all, Lengths, last)
           p == c[r - 1].packs \o formed.packs
           rest == formed.rest
<1>8. matched = formed
  BY <1>6, <1>7, Zenon
<1>9. c[r] = PackedOn(c[r - 1], Rounds[r], Lengths, last)
  BY <1>2, <1>3, ChainStep
<1>10. c[r] = [packs |-> p, rest |-> rest]
  BY <1>9 DEF PackedOn
<1>11. c[r].packs = p /\ c[r].rest = rest
  <2> HIDE DEF p, rest
  <2>1. QED
    BY <1>10
<1>12. formed.packs \in Seq(Packs) /\ rest \in Packs
  <2>1. /\ c[r - 1] \in States(Samples) /\ Rounds[r] \in Seq(Samples)
        /\ \A s \in Samples : Lengths[s] \in Nat
    BY <1>2, <1>3, ChainStep, RoundsAre, LengthsType
  <2>2. all \in Seq(Samples) /\ last \in BOOLEAN
    BY <2>1, ConcatProperties DEF States
  <2> HIDE DEF all, last
  <2>3. QED
    BY <2>1, <2>2, MatchedPacks DEF Packs
<1> HIDE DEF formed, matched, rest
<1>13. /\ ready' \in Seq(Packs) /\ data' \in Packs
       /\ yielded' \o ready' = c[r].packs /\ data' = c[r].rest
  BY <1>1, <1>4, <1>8, <1>11, <1>12 DEF rest
<1>14. NumRounds' = NumRounds /\ Packs' = Packs /\ RoundsChain(c)'
  BY <1>1, <1>2, ChainSame
<1>15. PacksType' /\ HeldBetween'
  BY <1>1, <1>3, <1>13, <1>14 DEF PacksType, HeldBetween
<1>16. HeldAfterRound(c)'
  BY <1>1, <1>4, <1>13, <1>14 DEF HeldAfterRound
<1>17. HeldInRound(c)' /\ HeldAtEnd(c)'
  BY <1>1 DEF HeldInRound, HeldAtEnd
<1>18. QED
  BY <1>14, <1>15, <1>16, <1>17 DEF PacksInv, Held

LEMMA YieldPacks == ASSUME PacksInv, Yield, RoundInv' PROVE PacksInv'
<1>1. /\ phase = "yield" /\ phase' = phase /\ ready # <<>>
      /\ yielded' = Append(yielded, Head(ready)) /\ ready' = Tail(ready)
      /\ UNCHANGED <<dataset, taken, put, finished, data>>
  BY DEF Yield, setupVars, roundVars
<1>2. PICK c : RoundsChain(c) /\ Held(c)
  BY DEF PacksInv
<1>3. PacksType /\ HeldBetween
  BY DEF PacksInv
<1>4. /\ ready \in Seq(Packs) /\ yielded \in Seq(Packs) /\ data \in Packs
      /\ Head(ready) \in Packs /\ Tail(ready) \in Seq(Packs)
  BY <1>1, <1>3, HeadTailProperties DEF PacksType
<1>5. Append(yielded, Head(ready)) \o Tail(ready) = yielded \o ready
  <2> DEFINE first == Head(ready)
             more == Tail(ready)
             one == <<first>>
  <2>1. first \in Packs /\ more \in Seq(Packs) /\ one \in Seq(Packs)
    BY <1>4
  <2>2. Append(yielded, first) = yielded \o one
    BY <1>4, AppendIsConcat
  <2>3. ready = one \o more
    <3> DEFINE u == one \o more
    <3>1. u \in Seq(Packs) /\ EndToEnd(one, more, u)
      BY <2>1, ConcatAt
    <3>2. Len(one) = 1 /\ one[1] = first /\ first = ready[1]
      BY <1>4
    <3>3. /\ Len(more) = Len(ready) - 1 /\ \A i \in 1..Len(more) : more[i] = ready[i + 1]
          /\ Len(ready) \in Nat /\ Len(ready) # 0
      BY <1>1, <1>4, HeadTailProperties, LenProperties, EmptySeq
    <3> HIDE DEF u, one, more, first
    <3>4. Len(u) = Len(ready)
      BY <3>1, <3>2, <3>3 DEF EndToEnd
    <3>5. ASSUME NEW i \in 1..Len(ready) PROVE u[i] = ready[i]
      <4>1. CASE i = 1
        BY <3>1, <3>2, <4>1 DEF EndToEnd
      <4>2. CASE i # 1
        <5>1. i - 1 \in 1..Len(more) /\ 1 + (i - 1) = i /\ (i - 1) + 1 = i
          BY <3>3, <4>2
        <5>2. u[1 + (i - 1)] = more[i - 1]
          BY <3>1, <3>2, <5>1 DEF EndToEnd
        <5>3. more[i - 1] = ready[(i - 1) + 1]
          BY <3>3, <5>1
        <5>4. QED
          BY <5>1, <5>2, <5>3
      <4>3. QED
        BY <4>1, <4>2
    <3>6. u = ready
      BY <1>4, <3>1, <3>4, <3>5, SeqEqual
    <3>7. QED
      BY <3>6 DEF u
  <2> HIDE DEF first, more, one
  <2>4. (yielded \o one) \o more = yielded \o (one \o more)
    BY <1>4, <2>1, ConcatAssociative
  <2>5. QED
    BY <2>2, <2>3, <2>4 DEF first, more
<1>6. /\ yielded' \in Seq(Packs) /\ ready' \in Seq(Packs)
      /\ yielded' \o ready' = yielded \o ready
  <2>1. Append(yielded, Head(ready)) \in Seq(Packs)
    BY <1>4, AppendProperties
  <2>2. QED
    BY <1>1, <1>4, <1>5, <2>1
<1>7. NumRounds' = NumRounds /\ Packs' = Packs /\ RoundsChain(c)'
  BY <1>1, <1>2, ChainSame
<1>8. PacksType' /\ HeldBetween'
  BY <1>1, <1>3, <1>4, <1>6, <1>7 DEF PacksType, HeldBetween
<1>9. HeldAfterRound(c)'
  BY <1>1, <1>2, <1>6, <1>7 DEF Held, HeldAfterRound
<1>10. HeldInRound(c)' /\ HeldAtEnd(c)'
  BY <1>1 DEF HeldInRound, HeldAtEnd
<1>11. QED
  BY <1>7, <1>8, <1>9, <1>10 DEF PacksInv, Held

LEMMA NextRoundPacks == ASSUME PacksInv, NextRound, RoundInv' PROVE PacksInv'
<1> DEFINE L == NumRounds
           w == PackingInterval
<1>1. /\ phase = "yield" /\ ready = <<>> /\ phase' = IF finished THEN "end" ELSE "put"
      /\ put' = 0
      /\ UNCHANGED <<dataset, taken, finished, data, ready, yielded>>
  BY DEF NextRound, setupVars, packVars
<1>2. PICK c : RoundsChain(c) /\ Held(c)
  BY DEF PacksInv
<1>3. RoundInv /\ SetupInv /\ HeldBetween /\ PacksType
  BY DEF PacksInv, RoundInv
<1>4. PICK r \in 1..L :
        /\ taken - put = (r - 1) * w
        /\ yielded \o ready = c[r].packs /\ data = c[r].rest
  BY <1>1, <1>2 DEF Held, HeldAfterRound
<1>5. finished = (put # w) /\ (put = w \/ taken = Len(dataset))
  BY <1>1, <1>3 DEF HeldBetween
<1>6. ((put # w) <=> r = L) /\ (r = L => taken = Len(dataset))
  BY <1>3, <1>4, <1>5, ReadUpTo
<1>7. yielded = c[r].packs
  <2>1. yielded \o ready = yielded
    BY <1>1, <1>3, ConcatEmptySeq DEF PacksType
  <2>2. QED
    BY <1>4, <2>1
<1>8. NumRounds' = NumRounds /\ Packs' = Packs /\ RoundsChain(c)'
  BY <1>1, <1>2, ChainSame
<1>9. PacksType' /\ HeldBetween'
  BY <1>1, <1>3, <1>8 DEF PacksType, HeldBetween
<1>10. CASE finished
  <2>1. phase' = "end" /\ r = L
    BY <1>1, <1>5, <1>6, <1>10
  <2>2. data = <<>>
    BY <1>2, <1>3, <1>4, <2>1, ChainEnd
  <2>3. HeldAtEnd(c)'
    BY <1>1, <1>6, <1>7, <1>8, <2>1, <2>2 DEF HeldAtEnd
  <2>4. HeldInRound(c)' /\ HeldAfterRound(c)'
    BY <2>1 DEF HeldInRound, HeldAfterRound
  <2>5. QED
    BY <1>8, <1>9, <2>3, <2>4 DEF PacksInv, Held
<1>11. CASE ~finished
  <2>1. phase' = "put" /\ r # L /\ put = w
    BY <1>1, <1>5, <1>6, <1>11
  <2>2. /\ r + 1 \in 1..L /\ (r + 1) - 1 = r
        /\ taken - 0 = r * w
    <3>1. L \in Nat /\ w \in Nat /\ taken \in Nat /\ put \in Nat
          /\ r * w = (r - 1) * w + w /\ (r - 1) * w \in Nat
      BY <1>3, RoundNumbers, RoundTypes
    <3> DEFINE a == (r - 1) * w
               b == r * w
    <3>2. taken - put = a /\ b = a + w /\ a \in Nat
      BY <1>4, <3>1
    <3> HIDE DEF a, b, L, w
    <3>3. taken - 0 = b
      BY <2>1, <3>1, <3>2
    <3>4. r + 1 \in 1..L /\ (r + 1) - 1 = r
      BY <2>1, <3>1
    <3>5. QED
      BY <3>3, <3>4 DEF b
  <2>3. HeldInRound(c)'
    <3>1. /\ taken' - put' = ((r + 1) - 1) * PackingInterval
          /\ yielded' = c[(r + 1) - 1].packs /\ data' = c[(r + 1) - 1].rest
          /\ ready' = <<>>
      BY <1>1, <1>4, <1>7, <2>2
    <3>2. r + 1 \in 1..NumRounds'
      BY <1>8, <2>2
    <3>3. QED
      BY <3>1, <3>2 DEF HeldInRound
  <2>4. HeldAtEnd(c)' /\ HeldAfterRound(c)'
    BY <2>1 DEF HeldAtEnd, HeldAfterRound
  <2>5. QED
    BY <1>8, <1>9, <2>3, <2>4 DEF PacksInv, Held
<1>12. finished \in BOOLEAN
  BY <1>5
<1>13. QED
  BY <1>10, <1>11, <1>12

LEMMA PackPacks == ASSUME PacksInv, Pack, RoundInv' PROVE PacksInv'
<1>1. PackingNext
  BY DEF Pack
<1>2. RoundInv /\ put \in Nat /\ taken \in Nat
  BY RoundTypes DEF PacksInv
<1>3. CASE PutDataInQueue
  <2>1. /\ phase = "put" /\ phase' = phase /\ put' = put + 1 /\ taken' = taken + 1
        /\ UNCHANGED <<dataset, finished, data, ready, yielded>>
    BY <1>3 DEF PutDataInQueue, setupVars, packVars
  <2>2. taken' - put' = taken - put
    BY <1>2, <2>1
  <2>3. QED
    BY <2>1, <2>2, PacksMoved
<1>4. CASE StopPutting
  <2>1. /\ phase = "put" /\ phase' = "fetch"
        /\ put = PackingInterval \/ taken = Len(dataset)
        /\ finished' = (put # PackingInterval)
        /\ UNCHANGED <<dataset, taken, put, data, ready, yielded>>
    BY <1>4 DEF StopPutting, setupVars, packVars
  <2>2. QED
    BY <2>1, PacksMoved
<1>5. ASSUME \/ FetchDataOutQueue
             \/ \E w \in Workers : GetItem(w) \/ Processor(w)
      PROVE  PacksInv'
  <2>1. UNCHANGED <<dataset, phase, taken, put, finished, data, ready, yielded>>
    BY <1>5 DEF FetchDataOutQueue, GetItem, Processor, setupVars, packVars, roundVars
  <2>2. QED
    BY <2>1, PacksMoved
<1>6. QED
  BY <1>1, <1>3, <1>4, <1>5, IterPacks, MatchGroupPacks, YieldPacks, NextRoundPacks
     DEF PackingNext

\* A pass that begins anew, in the next epoch or the next life.
LEMMA AnewPacks ==
    ASSUME PacksInv, RoundInv', EndEpoch \/ KillAndResume
    PROVE  PacksInv'
<1>1. /\ phase' = "start" /\ taken' = 0 /\ yielded' = <<>> /\ ready' = <<>>
      /\ data' = <<>> /\ dataset' = dataset
  BY DEF EndEpoch, KillAndResume, setupVars
<1>2. PICK c : RoundsChain(c)
  BY DEF PacksInv
<1>3. RoundsChain(c)'
  BY <1>1, <1>2, ChainSame
<1>4. Held(c)'
  BY <1>1 DEF Held, HeldInRound, HeldAfterRound, HeldAtEnd
<1>5. PacksType' /\ HeldBetween'
  BY <1>1 DEF PacksType, HeldBetween, Packs
<1>6. QED
  BY <1>3, <1>4, <1>5 DEF PacksInv

LEMMA LoopPacks ==
    ASSUME PacksInv, RoundInv', Next, ~Pack, ~EndEpoch, ~KillAndResume
    PROVE  PacksInv'
<1>1. UNCHANGED <<dataset, phase, taken, put, finished, data, ready, yielded>>
  BY DEF Next, Index, StartTraining, BeginEpoch, NothingLeft, TakeBatch, SkipGroup,
     SkipTooMuch, Scatter, StepShards, Train, packingVars, loopVars, setupVars,
     roundVars, workerVars, packVars
<1>2. QED
  BY <1>1, PacksMoved

LEMMA PacksAlways == Spec => []PacksInv
<1>1. RoundInv /\ [Next]_vars => RoundInv'
  BY RoundStep
<1>2. PacksInv /\ [Next]_vars => PacksInv'
  <2> SUFFICES ASSUME PacksInv, [Next]_vars PROVE PacksInv'
    OBVIOUS
  <2>1. RoundInv'
    BY <1>1 DEF PacksInv
  <2>2. CASE Next
    BY <2>1, <2>2, PackPacks, AnewPacks, LoopPacks
  <2>3. CASE UNCHANGED vars
    <3>1. UNCHANGED <<dataset, phase, taken, put, finished, data, ready, yielded>>
      BY <2>3 DEF vars, packingVars, setupVars, roundVars, packVars
    <3>2. QED
      BY <2>1, <3>1, PacksMoved
  <2>4. QED
    BY <2>2, <2>3
<1>3. QED
  BY InitPacks, <1>2, PTL DEF Spec

\* Whatever order the workers of a stream finish in, the packs of a pass come
\* out one after another as packing round after round makes them, and every
\* sample read that can be encoded is in one of them or held back, once:
\* last_res of packing.py:173 neither drops what was held back nor takes a
\* result of another round.
THEOREM PacksInOrderAlways == Spec => []PacksInOrder
BY PacksAlways, PacksFollow, PTL

-----------------------------------------------------------------------------
(* The parts of a dataset of known lengths, and their rounds.               *)

LEMMA CeilDivCovers ==
    ASSUME NEW x \in Nat, NEW size \in Nat \ {0}
    PROVE  /\ CeilDiv(x, size) \in Nat
           /\ \A k \in Nat : k >= CeilDiv(x, size) <=> k * size >= x
<1> DEFINE y == x + size - 1
           d == CeilDiv(x, size)
<1>1. y \in Nat
  OBVIOUS
<1>2. d = y \div size
  BY DEF CeilDiv
<1>3. d \in Nat /\ \A k \in Nat : k <= d <=> k * size <= y
  <2> HIDE DEF y, d
  <2>1. QED
    BY <1>1, <1>2, DivMod, DivAtLeast
<1> HIDE DEF d
<1>4. ASSUME NEW k \in Nat PROVE k >= d <=> k * size >= x
  <2>1. k + 1 \in Nat /\ (k + 1 <= d <=> (k + 1) * size <= y)
    BY <1>3
  <2>2. k * size \in Nat /\ (k + 1) * size = k * size + size
    OBVIOUS
  <2> DEFINE t == k * size
  <2>3. t \in Nat /\ (k + 1 <= d <=> t + size <= y)
    BY <2>1, <2>2
  <2> HIDE DEF t
  <2>4. t + size <= y <=> ~(t >= x)
    BY <2>3
  <2>5. k >= d <=> ~(k + 1 <= d)
    BY <1>3
  <2>6. QED
    BY <2>3, <2>4, <2>5 DEF t
<1>5. QED
  BY <1>3, <1>4 DEF d

NumParts == PackingNumProc(Len(lengths))
NumRoundsOf(q) == CeilDiv(Cardinality(Part(q)), PackingBatchSize)
PartEnd(q) == SplitAt(Len(lengths), NumParts, q)

LEMMA PartsNumber ==
    ASSUME lengths \in Seq(Nat)
    PROVE  /\ Len(lengths) \in Nat /\ PackingBatchSize \in Nat \ {0}
           /\ NumParts \in Nat /\ Procs = 1..NumParts
           /\ NumParts = 0 => Len(lengths) = 0
<1> DEFINE n == Len(lengths)
           b == CeilDiv(n, PackingBatchSize)
           w == PackingBatchSize
<1>1. n \in Nat /\ w \in Nat \ {0} /\ MaxPackingProc \in Nat \ {0}
  BY LenProperties, PackedIndexAssumption
<1>2. NumParts = IF MaxPackingProc < b THEN MaxPackingProc ELSE b
  BY DEF NumParts, PackingNumProc
<1> HIDE DEF n, w
<1>3. b \in Nat /\ (0 >= b <=> 0 * w >= n)
  BY <1>1, CeilDivCovers DEF w
<1> HIDE DEF b
<1>4. NumParts \in Nat
  BY <1>1, <1>2, <1>3
<1>5. ASSUME NumParts = 0 PROVE n = 0
  <2>1. b = 0
    BY <1>1, <1>2, <1>3, <1>5
  <2>2. 0 * w = 0
    BY <1>1
  <2>3. QED
    BY <1>1, <1>3, <2>1, <2>2
<1>6. Procs = 1..NumParts
  BY DEF Procs, NumParts
<1>7. QED
  BY <1>1, <1>4, <1>5, <1>6 DEF n, w

LEMMA PartNumbers ==
    ASSUME lengths \in Seq(Nat), NEW q \in Procs
    PROVE  /\ q \in Nat \ {0} /\ NumParts \in Nat \ {0}
           /\ PartStart(q) \in Nat /\ Cardinality(Part(q)) \in Nat
           /\ PartStart(q) + Cardinality(Part(q)) = PartEnd(q)
           /\ PartEnd(q) \in Nat /\ PartEnd(q) <= Len(lengths)
           /\ Part(q) = PartStart(q) + 1 .. PartEnd(q)
           /\ PartStart(q) <= PartEnd(q)
           /\ NumRoundsOf(q) \in Nat
<1> DEFINE n == Len(lengths)
           a == PartStart(q)
           e == PartEnd(q)
           W == Cardinality(Part(q))
<1>1. /\ n \in Nat /\ NumParts \in Nat /\ Procs = 1..NumParts
      /\ PackingBatchSize \in Nat \ {0}
  BY PartsNumber
<1>2. q \in Nat \ {0} /\ NumParts \in Nat \ {0} /\ q - 1 \in Nat /\ q - 1 <= q
      /\ q <= NumParts
  BY <1>1
<1>3. a = SplitAt(n, NumParts, q - 1) /\ e = SplitAt(n, NumParts, q)
  BY DEF PartStart, PartEnd, NumParts
<1>4. a \in Nat /\ e \in Nat /\ a <= e /\ e <= SplitAt(n, NumParts, NumParts)
  <2> HIDE DEF n, a, e
  <2>1. QED
    BY <1>1, <1>2, <1>3, SplitAtType, SplitAtMonotone
<1>5. SplitAt(n, NumParts, NumParts) = n
  <2> DEFINE t == NumParts
             z == 0
  <2>1. t \in Nat \ {0} /\ t * n = n * t + z /\ z < t /\ z \in Nat
    BY <1>1, <1>2
  <2> HIDE DEF t, z, n
  <2>2. (n * t + z) \div t = n
    BY <1>1, <2>1, DivUnique
  <2>3. SplitAt(n, t, t) = n
    BY <2>1, <2>2 DEF SplitAt
  <2>4. QED
    BY <2>3 DEF t
<1>6. Part(q) = a + 1 .. e
  BY <1>3 DEF Part, Shard, NumParts
<1> HIDE DEF n, a, e
<1>7. W \in Nat /\ a + W = e
  <2>1. a + 1 \in Int /\ e \in Int
    BY <1>4
  <2>2. Cardinality(a + 1 .. e) = IF a + 1 > e THEN 0 ELSE e - (a + 1) + 1
    BY <2>1, FS_Interval
  <2>3. QED
    BY <1>4, <1>6, <2>2
<1>8. NumRoundsOf(q) \in Nat
  BY <1>1, <1>7, CeilDivCovers DEF NumRoundsOf
<1>9. QED
  BY <1>2, <1>4, <1>5, <1>6, <1>7, <1>8 DEF n, a, e

\* The samples of a turn of the loop that begins at i.
NewSamples(q, i) ==
    {s \in 1..Len(lengths) : /\ PartStart(q) + i < s /\ s <= PartEnd(q)
                             /\ s <= PartStart(q) + i + PackingBatchSize}

LEMMA NewDataIs ==
    ASSUME lengths \in Seq(Nat), NEW q \in Procs, NEW i \in Nat
    PROVE  /\ NewData(q, i) \in Seq(1..Len(lengths))
           /\ Once(NewData(q, i), NewSamples(q, i))
           /\ NewData(q, i) = <<>> <=> i >= Cardinality(Part(q))
<1> DEFINE n == Len(lengths)
           a == PartStart(q)
           e == PartEnd(q)
           W == Cardinality(Part(q))
           w == PackingBatchSize
           upto == IF i + w <= W THEN i + w ELSE W
           m == IF upto > i THEN upto - i ELSE 0
           new == [k \in 1..m |-> a + i + k]
<1>1. /\ n \in Nat /\ w \in Nat \ {0} /\ a \in Nat /\ W \in Nat /\ e \in Nat
      /\ a + W = e /\ e <= n
  BY PartsNumber, PartNumbers
<1>2. NewData(q, i) = new
  BY DEF NewData
<1> HIDE DEF n, a, e, W, w
<1>3. m = 0 <=> i >= W
  BY <1>1
<1>4. /\ m \in Nat
      /\ \A k \in 1..m : /\ a + i < a + i + k /\ a + i + k <= e
                         /\ a + i + k <= a + i + w /\ a + i + k \in 1..n
      /\ \A s \in 1..n : a + i < s /\ s <= e /\ s <= a + i + w
                            => s - (a + i) \in 1..m
  BY <1>1
<1> HIDE DEF m
<1>6. new \in [1..m -> 1..n]
  BY <1>4
<1>7. new \in Seq(1..n)
  BY <1>4, <1>6, SeqDef
<1>8. /\ DOMAIN new = 1..m
      /\ \A k \in 1..m : new[k] \in NewSamples(q, i)
      /\ \A k, l \in 1..m : new[k] = new[l] => k = l
  <2>1. DOMAIN new = 1..m /\ \A k \in 1..m : new[k] = a + i + k
    OBVIOUS
  <2> HIDE DEF new
  <2>2. \A k \in 1..m : new[k] \in NewSamples(q, i)
    BY <1>4, <2>1 DEF NewSamples, n, a, e, w
  <2>3. \A k, l \in 1..m : new[k] = new[l] => k = l
    BY <1>1, <1>4, <2>1
  <2>4. QED
    BY <2>1, <2>2, <2>3
<1>9. ASSUME NEW s \in NewSamples(q, i) PROVE \E k \in DOMAIN new : new[k] = s
  <2>1. s \in 1..n /\ s - (a + i) \in 1..m
    BY <1>4, <1>9 DEF NewSamples, n, a, e, w
  <2>2. new[s - (a + i)] = a + i + (s - (a + i)) /\ s - (a + i) \in DOMAIN new
    BY <2>1
  <2>3. a + i + (s - (a + i)) = s
    BY <1>1, <2>1
  <2>4. QED
    BY <2>2, <2>3
<1> HIDE DEF new
<1>10. Once(new, NewSamples(q, i))
  BY <1>8, <1>9, OnceIs
<1>11. new = <<>> <=> m = 0
  <2>1. new \in [1..m -> 1..n] /\ new \in Seq(1..n)
    BY <1>6, <1>7
  <2>2. Len(new) = m
    BY <1>4, <2>1, LenProperties DEF new
  <2>3. QED
    BY <2>1, <2>2, EmptySeq, LenProperties
<1>12. QED
  BY <1>2, <1>3, <1>7, <1>10, <1>11 DEF n, W

-----------------------------------------------------------------------------
LEMMA WithoutEmptyPack ==
    ASSUME NEW S, NEW p \in Seq(Seq(S)), NEW X, EachOnce(p \o <<<<>>>>, X)
    PROVE  EachOnce(p, X)
<1> DEFINE none == <<>>
           q == <<none>>
           u == p \o q
           m == Len(p)
           t == Len(u)
           A == Seq(S)
<1>1. none \in A /\ DOMAIN none = {} /\ EachOnce(u, X)
  OBVIOUS
<1>2. q \in Seq(A) /\ Len(q) = 1 /\ q[1] = none
  BY <1>1
<1> HIDE DEF none, q
<1>3. u \in Seq(A) /\ EndToEnd(p, q, u)
  <2> HIDE DEF A
  <2>1. p \in Seq(A)
    BY DEF A
  <2>2. QED
    BY <1>2, <2>1, ConcatAt
<1>4. m \in Nat /\ DOMAIN p = 1..m /\ DOMAIN u = 1..t
  <2> HIDE DEF u
  <2>1. QED
    BY <1>3, LenProperties
<1>5. t = m + 1 /\ \A i \in 1..m : u[i] = p[i]
  BY <1>2, <1>3 DEF EndToEnd
<1>6. u[m + 1] = none
  <2>1. 1 \in 1..Len(q)
    BY <1>2
  <2>2. QED
    BY <1>2, <1>3, <2>1 DEF EndToEnd
<1> HIDE DEF u, m, t
<1>7. \A k \in DOMAIN u : k \in DOMAIN p \/ (k = m + 1 /\ DOMAIN u[k] = {})
  BY <1>1, <1>4, <1>5, <1>6
<1>8. \A k \in DOMAIN p : k \in DOMAIN u /\ u[k] = p[k]
  BY <1>4, <1>5
<1>9. /\ \A k \in DOMAIN u : \A i \in DOMAIN u[k] : u[k][i] \in X
      /\ \A x \in X : \E k \in DOMAIN u : \E i \in DOMAIN u[k] : u[k][i] = x
      /\ \A k, l \in DOMAIN u : \A i \in DOMAIN u[k], j \in DOMAIN u[l] :
            u[k][i] = u[l][j] => k = l /\ i = j
  BY <1>1, EachOnceIs
<1>10. \A x \in X : \E k \in DOMAIN p : \E i \in DOMAIN p[k] : p[k][i] = x
  <2>1. SUFFICES ASSUME NEW x \in X
                 PROVE  \E k \in DOMAIN p : \E i \in DOMAIN p[k] : p[k][i] = x
    OBVIOUS
  <2>2. PICK k \in DOMAIN u : \E i \in DOMAIN u[k] : u[k][i] = x
    BY <1>9
  <2>3. k \in DOMAIN p /\ u[k] = p[k]
    BY <1>7, <1>8, <2>2
  <2>4. QED
    BY <2>2, <2>3
<1>11. \A k \in DOMAIN p : \A i \in DOMAIN p[k] : p[k][i] \in X
  BY <1>8, <1>9
<1>12. ASSUME NEW k \in DOMAIN p, NEW l \in DOMAIN p,
              NEW i \in DOMAIN p[k], NEW j \in DOMAIN p[l], p[k][i] = p[l][j]
       PROVE  k = l /\ i = j
  BY <1>8, <1>9, <1>12
<1>13. QED
  BY <1>10, <1>11, <1>12, EachOnceIs

\* Packs of disjoint sets of samples one after another.
PartsAreOnce(parts, m, Y) ==
    /\ Y[0] = {}
    /\ \A q \in 1..m : \E N : /\ EachOnce(parts[q], N)
                              /\ Y[q - 1] \cap N = {}
                              /\ Y[q] = Y[q - 1] \cup N

LEMMA FlattenOnce ==
    ASSUME NEW S, NEW m \in Nat, NEW parts \in [1..m -> Seq(Seq(S))], NEW length,
           \A q \in 1..m : Fit(parts[q], length), NEW Y, PartsAreOnce(parts, m, Y)
    PROVE  /\ FlattenSeq(parts) \in Seq(Seq(S))
           /\ EachOnce(FlattenSeq(parts), Y[m])
           /\ Fit(FlattenSeq(parts), length)
<1> DEFINE A == Seq(S)
           Good(s, k) == s \in Seq(A) /\ EachOnce(s, Y[k]) /\ Fit(s, length)
<1>1. /\ Y[0] = {}
      /\ \A q \in 1..m : \E N : /\ EachOnce(parts[q], N)
                                /\ Y[q - 1] \cap N = {}
                                /\ Y[q] = Y[q - 1] \cup N
  BY DEF PartsAreOnce
<1>2. Len(parts) = m
  OBVIOUS
<1>3. CASE m = 0
  <2>1. FlattenSeq(parts) = parts /\ parts = <<>>
    BY <1>2, <1>3 DEF FlattenSeq
  <2> DEFINE none == <<>>
  <2>2. none \in Seq(A) /\ EachOnce(none, {})
    BY EachOnceEmpty
  <2>3. Fit(none, length)
    BY DEF Fit
  <2> HIDE DEF none
  <2>4. FlattenSeq(parts) = none
    BY <2>1 DEF none
  <2>5. QED
    BY <1>1, <1>3, <2>2, <2>3, <2>4
<1>4. CASE m # 0
  <2>1. PICK f : Concats(parts, m, f) /\ FlattenSeq(parts) = f[m]
    <3>1. Len(parts) \in Nat \ {0}
      BY <1>2, <1>4
    <3>2. \E f : Concats(parts, Len(parts), f) /\ FlattenSeq(parts) = f[Len(parts)]
      BY <3>1, FlattenConcats
    <3>3. QED
      BY <1>2, <3>2
  <2> DEFINE T == {k \in 0..m : k # 0 => Good(f[k], k)}
  <2>2. 0 \in T /\ T \in SUBSET Nat
    OBVIOUS
  <2>3. ASSUME NEW k \in T, k < m PROVE k + 1 \in T
    <3>1. k \in Nat /\ k + 1 \in 1..m /\ k + 1 \in 0..m /\ (k + 1) - 1 = k
      BY <2>3
    <3> DEFINE x == parts[k + 1]
    <3>2. x \in Seq(A) /\ Fit(x, length)
      BY <3>1
    <3>3. PICK N : EachOnce(x, N) /\ Y[k] \cap N = {} /\ Y[k + 1] = Y[k] \cup N
      <4>1. PICK N : /\ EachOnce(x, N) /\ Y[(k + 1) - 1] \cap N = {}
                     /\ Y[k + 1] = Y[(k + 1) - 1] \cup N
        BY <1>1, <3>1
      <4>2. QED
        BY <3>1, <4>1
    <3>4. CASE k = 0
      <4>1. f[k + 1] = x
        <5>1. f[1] = parts[1]
          BY <2>1, <1>4, ConcatsAt
        <5>2. QED
          BY <3>4, <5>1
      <4>2. Y[k + 1] = N
        BY <1>1, <3>3, <3>4
      <4> HIDE DEF x, A
      <4>3. Good(f[k + 1], k + 1)
        BY <3>2, <3>3, <4>1, <4>2
      <4> HIDE DEF Good
      <4>4. QED
        BY <3>1, <4>3
    <3>5. CASE k # 0
      <4>1. k \in 1..m /\ Good(f[k], k)
        BY <2>3, <3>5
      <4>2. f[k + 1] = f[k] \o x
        BY <2>1, <2>3, <4>1, ConcatsStep
      <4> HIDE DEF x
      <4>3. f[k] \in Seq(A) /\ EachOnce(f[k], Y[k]) /\ Fit(f[k], length)
        BY <4>1
      <4>4. EachOnce(f[k] \o x, Y[k] \cup N)
        BY <3>2, <3>3, <4>3, ConcatEachOnce
      <4>5. Fit(f[k] \o x, length)
        BY <3>2, <4>3, ConcatFits
      <4>6. f[k] \o x \in Seq(A)
        <5> HIDE DEF A
        <5>1. QED
          BY <3>2, <4>3, ConcatProperties
      <4> HIDE DEF A
      <4>7. Good(f[k + 1], k + 1)
        BY <3>3, <4>2, <4>4, <4>5, <4>6
      <4> HIDE DEF Good
      <4>8. QED
        BY <3>1, <4>7
    <3>6. QED
      BY <3>4, <3>5
  <2>4. Good(f[m], m)
    <3>1. m \in T
      <4> HIDE DEF T
      <4>1. \A k \in 0..m : k \in T
        BY <2>2, <2>3, Induction
      <4>2. QED
        BY <4>1
    <3> HIDE DEF Good
    <3>2. QED
      BY <1>4, <3>1
  <2>5. QED
    BY <2>1, <2>4
<1>5. QED
  BY <1>3, <1>4

-----------------------------------------------------------------------------
LEMMA LengthsNat ==
    ASSUME lengths \in Seq(Nat)
    PROVE  \A s \in 1..Len(lengths) : lengths[s] \in Nat
BY LenProperties

LEMMA PartRoundsAre ==
    ASSUME lengths \in Seq(Nat), NEW q \in Procs
    PROVE  /\ PartRounds(q) \in [1..NumRoundsOf(q) -> Seq(1..Len(lengths))]
           /\ \A k \in 1..NumRoundsOf(q) :
                /\ (k - 1) * PackingBatchSize \in Nat
                /\ k * PackingBatchSize = (k - 1) * PackingBatchSize + PackingBatchSize
                /\ PartRounds(q)[k] = NewData(q, (k - 1) * PackingBatchSize)
<1> DEFINE L == NumRoundsOf(q)
           w == PackingBatchSize
<1>1. L \in Nat /\ w \in Nat \ {0}
  BY PartNumbers, PartsNumber
<1>2. PartRounds(q) = [k \in 1..L |-> NewData(q, (k - 1) * w)]
  BY DEF PartRounds, NumRoundsOf
<1> HIDE DEF L, w
<1>3. ASSUME NEW k \in 1..L
      PROVE  (k - 1) * w \in Nat /\ k * w = (k - 1) * w + w
  <2>1. k - 1 \in Nat /\ k = (k - 1) + 1
    BY <1>1
  <2> DEFINE j == k - 1
  <2>2. j * w \in Nat /\ (j + 1) * w = j * w + w
    BY <1>1, <2>1
  <2>3. QED
    BY <2>1, <2>2
<1>4. \A k \in 1..L : NewData(q, (k - 1) * w) \in Seq(1..Len(lengths))
  BY <1>3, NewDataIs
<1>5. QED
  BY <1>2, <1>3, <1>4 DEF L, w

\* c has what process q has packed, and held back, after 0, 1, 2, ... rounds.
PartChain(q, c) ==
    /\ c \in [0..NumRoundsOf(q) -> States(1..Len(lengths))]
    /\ PacksRounds(PartRounds(q), lengths, NumRoundsOf(q), c)

LEMMA PartChainExists ==
    ASSUME lengths \in Seq(Nat), NEW q \in Procs
    PROVE  \E c : PartChain(q, c)
<1> DEFINE L == NumRoundsOf(q)
           S == 1..Len(lengths)
           rounds == PartRounds(q)
<1>1. L \in Nat /\ rounds \in [1..L -> Seq(S)] /\ \A s \in S : lengths[s] \in Nat
  BY PartNumbers, PartRoundsAre, LengthsNat
<1> HIDE DEF L, S, rounds
<1>2. \E c \in [0..L -> States(S)] : PacksRounds(rounds, lengths, L, c)
  BY <1>1, RoundsByStep
<1>3. QED
  BY <1>2 DEF PartChain, L, S, rounds

LEMMA PartOnce ==
    ASSUME lengths \in Seq(Nat), NEW q \in Procs, NEW c, PartChain(q, c)
    PROVE  LET packs == PackInRounds(PartRounds(q), lengths)
           IN  /\ packs = c[NumRoundsOf(q)].packs
               /\ packs \in Seq(Seq(1..Len(lengths)))
               /\ EachOnce(packs, Part(q))
               /\ Fit(packs, lengths)
               /\ c[NumRoundsOf(q)].rest = <<>>
<1> DEFINE L == NumRoundsOf(q)
           w == PackingBatchSize
           n == Len(lengths)
           S == 1..n
           a == PartStart(q)
           e == PartEnd(q)
           rounds == PartRounds(q)
           X == [k \in 0..L |-> {s \in S : a < s /\ s <= e /\ s <= a + k * w}]
<1>1. /\ L \in Nat /\ w \in Nat \ {0} /\ n \in Nat /\ a \in Nat /\ e \in Nat
      /\ e <= n /\ Part(q) = a + 1 .. e /\ a + Cardinality(Part(q)) = e
      /\ Cardinality(Part(q)) \in Nat
  BY PartNumbers, PartsNumber
<1>2. /\ rounds \in [1..L -> Seq(S)]
      /\ \A k \in 1..L : /\ (k - 1) * w \in Nat /\ k * w = (k - 1) * w + w
                         /\ rounds[k] = NewData(q, (k - 1) * w)
  BY PartRoundsAre
<1>3. /\ c \in [0..L -> States(S)] /\ PacksRounds(rounds, lengths, L, c)
      /\ \A s \in S : lengths[s] \in Nat
  BY LengthsNat DEF PartChain
<1>4. L * w >= Cardinality(Part(q))
  BY <1>1, CeilDivCovers, SMTT(30) DEF NumRoundsOf
<1>5. \A k \in 0..L : X[k] = {s \in S : a < s /\ s <= e /\ s <= a + k * w}
  OBVIOUS
<1> HIDE DEF L, w, a, e, rounds, X
<1>6. X[0] = {}
  <2>1. 0 \in 0..L /\ 0 * w = 0 /\ \A s \in S : ~(a < s /\ s <= a + 0)
    BY <1>1
  <2>2. QED
    BY <1>5, <2>1
<1>7. ASSUME NEW k \in 1..L
      PROVE  \E N : Once(rounds[k], N) /\ X[k - 1] \cap N = {} /\ X[k] = X[k - 1] \cup N
  <2> DEFINE i == (k - 1) * w
             N == {s \in S : a + i < s /\ s <= e /\ s <= a + i + w}
  <2>1. i \in Nat /\ k * w = i + w /\ rounds[k] = NewData(q, i)
    BY <1>2
  <2>2. k - 1 \in 0..L /\ k \in 0..L
    BY <1>1
  <2>3. /\ X[k - 1] = {s \in S : a < s /\ s <= e /\ s <= a + i}
        /\ X[k] = {s \in S : a < s /\ s <= e /\ s <= a + (i + w)}
    BY <1>5, <2>1, <2>2
  <2> HIDE DEF i
  <2>4. \A s \in S : s \in Nat
    OBVIOUS
  <2>5. N = NewSamples(q, i)
    BY DEF NewSamples, a, e, w
  <2>6. Once(rounds[k], N)
    BY <2>1, <2>5, NewDataIs
  <2>7. \A s \in S : /\ ~(s <= a + i /\ a + i < s)
                     /\ (s <= a + (i + w) <=> s <= a + i + w)
                     /\ (s <= a + i => s <= a + (i + w))
                     /\ (a + i < s => a < s) /\ (s <= a + i \/ a + i < s)
    BY <1>1, <2>1, <2>4
  <2>8. X[k - 1] \cap N = {} /\ X[k] = X[k - 1] \cup N
    BY <2>3, <2>7
  <2>9. QED
    BY <2>6, <2>8
<1>8. RoundsOnce(rounds, L, X)
  BY <1>6, <1>7 DEF RoundsOnce
<1> DEFINE p == c[L].packs
           rest == c[L].rest
<1>9. rest = <<>> /\ Fit(p, lengths) /\ EachOnce(p \o <<rest>>, X[L])
  <2>1. L \in 0..L
    BY <1>1
  <2>2. \A k \in 0..L : EachOnce(c[k].packs \o <<c[k].rest>>, X[k])
    BY <1>1, <1>2, <1>3, <1>8, RoundsPackedOnce
  <2>3. c[L].rest = <<>> /\ \A k \in 0..L : Fit(c[k].packs, lengths)
    BY <1>1, <1>2, <1>3, RoundsFit
  <2>4. QED
    BY <2>1, <2>2, <2>3
<1>10. X[L] = Part(q)
  <2> DEFINE t == L * w
  <2>1. L \in 0..L /\ t \in Nat /\ t >= Cardinality(Part(q))
    BY <1>1, <1>4
  <2>2. X[L] = {s \in S : a < s /\ s <= e /\ s <= a + t}
    BY <1>5, <2>1
  <2> HIDE DEF t
  <2>3. \A s : s \in a + 1 .. e <=> s \in 1..n /\ a < s /\ s <= e /\ s <= a + t
    BY <1>1, <2>1, SMTT(40)
  <2>4. QED
    BY <1>1, <2>2, <2>3
<1>11. p \in Seq(Seq(S)) /\ rest \in Seq(S)
  <2>1. L \in 0..L
    BY <1>1
  <2>2. QED
    BY <1>3, <2>1 DEF States
<1>12. EachOnce(p, Part(q))
  <2> HIDE DEF p
  <2>1. rest = <<>> /\ EachOnce(p \o <<rest>>, Part(q)) /\ p \in Seq(Seq(S))
    BY <1>9, <1>10, <1>11
  <2>2. QED
    BY <2>1, WithoutEmptyPack
<1>13. PackInRounds(rounds, lengths) = p
  BY <1>3 DEF PacksRounds
<1>14. QED
  BY <1>9, <1>11, <1>12, <1>13 DEF L, rounds

\* All parts together have every sample once.
LEMMA PartsOnce ==
    ASSUME lengths \in Seq(Nat)
    PROVE  /\ PacksOfParts \in Seq(Seq(1..Len(lengths)))
           /\ EachOnce(PacksOfParts, 1..Len(lengths))
           /\ Fit(PacksOfParts, lengths)
<1> DEFINE n == Len(lengths)
           m == NumParts
           parts == [q \in Procs |-> PackInRounds(PartRounds(q), lengths)]
           Y == [q \in 0..m |-> IF q = 0 THEN {} ELSE 1 .. PartEnd(q)]
<1>1. m \in Nat /\ Procs = 1..m /\ n \in Nat /\ (m = 0 => n = 0)
  BY PartsNumber
<1>2. Y[0] = {} /\ \A q \in 1..m : Y[q] = 1..PartEnd(q)
  BY <1>1
<1>3. \A q \in 1..m : /\ parts[q] \in Seq(Seq(1..n)) /\ Fit(parts[q], lengths)
                      /\ EachOnce(parts[q], Part(q))
  <2>1. SUFFICES ASSUME NEW q \in 1..m
                 PROVE  LET packs == PackInRounds(PartRounds(q), lengths)
                        IN  /\ packs \in Seq(Seq(1..n)) /\ Fit(packs, lengths)
                            /\ EachOnce(packs, Part(q))
    BY <1>1
  <2>2. q \in Procs
    BY <1>1
  <2>3. PICK c : PartChain(q, c)
    BY <2>2, PartChainExists
  <2>4. QED
    BY <2>2, <2>3, PartOnce
<1>4. PacksOfParts = FlattenSeq(parts)
  BY DEF PacksOfParts
<1>5. parts \in [1..m -> Seq(Seq(1..n))]
  BY <1>1, <1>3
<1> HIDE DEF parts, m, n, Y
<1>6. ASSUME m # 0 PROVE PartEnd(0) = 0
  <2>1. PartEnd(0) = (0 * n) \div m
    BY DEF PartEnd, SplitAt, n, m
  <2>2. 0 * n = 0 * m + 0 /\ m \in Nat \ {0} /\ 0 < m
    BY <1>1, <1>6
  <2>3. (0 * m + 0) \div m = 0
    BY <2>2, DivUnique
  <2>4. QED
    BY <2>1, <2>2, <2>3
<1>7. ASSUME NEW q \in 1..m
      PROVE  /\ EachOnce(parts[q], Part(q)) /\ Y[q - 1] \cap Part(q) = {}
             /\ Y[q] = Y[q - 1] \cup Part(q)
  <2>1. q \in Procs /\ (q - 1 \in 1..m \/ q - 1 = 0) /\ m # 0
    BY <1>1
  <2> DEFINE a == PartStart(q)
             e == PartEnd(q)
  <2>2. /\ a \in Nat /\ e \in Nat /\ a <= e /\ Part(q) = a + 1 .. e
        /\ a = PartEnd(q - 1)
    BY <2>1, PartNumbers DEF PartEnd, PartStart, NumParts
  <2>3. Y[q] = 1..e /\ Y[q - 1] = 1..a
    <3>1. a = 0 => 1..a = {}
      BY <2>2
    <3>2. QED
      BY <1>2, <1>6, <2>1, <2>2, <3>1
  <2> HIDE DEF a, e
  <2>4. QED
    BY <1>3, <2>2, <2>3
<1>8. PartsAreOnce(parts, m, Y)
  <2>1. Y[0] = {}
    BY <1>2
  <2>2. QED
    BY <1>7, <2>1 DEF PartsAreOnce
<1>9. Y[m] = 1..n
  <2>1. CASE m = 0
    BY <1>1, <1>2, <2>1
  <2>2. CASE m # 0
    <3>1. m \in 1..m /\ PartEnd(m) = (m * n) \div m
      BY <1>1, <2>2 DEF PartEnd, SplitAt, n, m
    <3>2. m * n = n * m + 0 /\ m \in Nat \ {0} /\ 0 < m
      BY <1>1, <2>2
    <3>3. (n * m + 0) \div m = n
      BY <1>1, <3>2, DivUnique
    <3>4. QED
      BY <1>2, <3>1, <3>2, <3>3
  <2>3. QED
    BY <2>1, <2>2
<1>10. /\ FlattenSeq(parts) \in Seq(Seq(1..n))
       /\ EachOnce(FlattenSeq(parts), Y[m])
       /\ Fit(FlattenSeq(parts), lengths)
  <2>1. \A q \in 1..m : Fit(parts[q], lengths)
    BY <1>3
  <2>2. QED
    BY <1>1, <1>5, <1>8, <2>1, FlattenOnce
<1>11. QED
  BY <1>4, <1>9, <1>10 DEF n

-----------------------------------------------------------------------------
(***************************************************************************)
(* The index of a packed dataset.  What the master has collected of a      *)
(* part, and then what is in its queue from the process of that part, is   *)
(* what the process has packed; and a process has been heard to the end    *)
(* when it runs no more and nothing from it is in the queue.               *)
(***************************************************************************)
Turn == [i : Nat, inputData : Seq(1..Len(lengths)), running : BOOLEAN]

IndexTypes ==
    /\ lengths \in Seq(Nat)
    /\ part \in [Procs -> Turn]
    /\ messages \in Seq(Messages)
    /\ collected \in [Procs -> Seq(Seq(1..Len(lengths)))]
    /\ \A j \in DOMAIN messages : messages[j].last => messages[j].packs = <<>>

HeardToEnd ==
    {q \in Procs : /\ ~part[q].running
                   /\ \A j \in DOMAIN messages : messages[j].rank # q}

\* The last message of a process comes after all the others, and it comes.
LastAfterOthers ==
    \A j \in DOMAIN messages : messages[j].last =>
        /\ ~part[messages[j].rank].running
        /\ \A k \in DOMAIN messages : k > j => messages[k].rank # messages[j].rank
LastToCome ==
    \A j \in DOMAIN messages : ~part[messages[j].rank].running =>
        \E k \in DOMAIN messages : /\ k >= j /\ messages[k].last
                                   /\ messages[k].rank = messages[j].rank

\* h has what the master will have collected of q after each message.
Reported(q, h) ==
    /\ h[0] = collected[q]
    /\ \A j \in 1..Len(messages) :
           h[j] = IF messages[j].rank = q THEN h[j - 1] \o messages[j].packs
                  ELSE h[j - 1]

AtRound(q, c, h, k) ==
    /\ part[q].i = k * PackingBatchSize
    /\ part[q].inputData = c[k].rest
    /\ h[Len(messages)] = c[k].packs
    /\ ~part[q].running => k = NumRoundsOf(q)

Progress(q) ==
    \E c, h : /\ PartChain(q, c) /\ Reported(q, h)
              /\ \E k \in 0..NumRoundsOf(q) : AtRound(q, c, h, k)

IndexInv ==
    /\ IndexTypes
    /\ finishedWorkers = Cardinality(HeardToEnd)
    /\ LastAfterOthers /\ LastToCome
    /\ \A q \in Procs : Progress(q)
    /\ packedIdx = NotPacked \/ packedIdx = PacksOfParts

-----------------------------------------------------------------------------
LEMMA IndexFollows == IndexInv => IndexComplete
<1> SUFFICES ASSUME IndexInv, packedIdx # NotPacked
             PROVE  /\ packedIdx = PacksOfParts
                    /\ EachOnce(packedIdx, 1..Len(lengths))
                    /\ Fit(packedIdx, lengths)
  BY DEF IndexComplete, Fit, Fits
<1>1. lengths \in Seq(Nat) /\ packedIdx = PacksOfParts
  BY DEF IndexInv, IndexTypes
<1>2. EachOnce(PacksOfParts, 1..Len(lengths)) /\ Fit(PacksOfParts, lengths)
  BY <1>1, PartsOnce
<1>3. QED
  BY <1>1, <1>2

LEMMA SameParts ==
    ASSUME UNCHANGED lengths
    PROVE  /\ Procs' = Procs /\ PacksOfParts' = PacksOfParts
           /\ Messages' = Messages /\ Turn' = Turn
           /\ \A q : NumRoundsOf(q)' = NumRoundsOf(q)
           /\ \A q, c : PartChain(q, c)' <=> PartChain(q, c)
<1>1. \A q, i : NewData(q, i)' = NewData(q, i)
  BY DEF NewData, Part, PartStart
<1>2. Procs' = Procs /\ \A q : NumRoundsOf(q)' = NumRoundsOf(q)
  BY DEF Procs, NumRoundsOf, Part
<1>3. \A q : PartRounds(q)' = PartRounds(q)
  BY <1>1 DEF PartRounds, Part
<1>4. PacksOfParts' = PacksOfParts
  BY <1>2, <1>3 DEF PacksOfParts
<1>5. \A q, c : PartChain(q, c)' <=> PartChain(q, c)
  BY <1>2, <1>3 DEF PartChain, States
<1>6. Messages' = Messages /\ Turn' = Turn
  BY <1>2 DEF Messages, Turn
<1>7. QED
  BY <1>2, <1>4, <1>5, <1>6

LEMMA IndexMoved == ASSUME IndexInv, UNCHANGED indexVars PROVE IndexInv'
<1>1. UNCHANGED <<lengths, part, messages, collected, finishedWorkers, packedIdx>>
  BY DEF indexVars
<1>2. /\ Procs' = Procs /\ PacksOfParts' = PacksOfParts
      /\ Messages' = Messages /\ Turn' = Turn
      /\ \A q : NumRoundsOf(q)' = NumRoundsOf(q)
      /\ \A q, c : PartChain(q, c)' <=> PartChain(q, c)
  BY <1>1, SameParts
<1>3. IndexTypes' /\ LastAfterOthers' /\ LastToCome' /\ HeardToEnd' = HeardToEnd
  BY <1>1, <1>2 DEF IndexInv, IndexTypes, LastAfterOthers, LastToCome, HeardToEnd
<1>4. \A q, h : Reported(q, h)' <=> Reported(q, h)
  BY <1>1 DEF Reported
<1>5. \A q, c, h, k : AtRound(q, c, h, k)' <=> AtRound(q, c, h, k)
  BY <1>1, <1>2 DEF AtRound
<1>6. \A q \in Procs' : Progress(q)'
  BY <1>2, <1>4, <1>5 DEF Progress, IndexInv
<1>7. QED
  BY <1>1, <1>2, <1>3, <1>6 DEF IndexInv, NotPacked

LEMMA FreshIndexProgress ==
    ASSUME lengths \in Seq(Nat), NEW q \in Procs, messages = <<>>,
           part[q] = [i |-> 0, inputData |-> <<>>, running |-> TRUE],
           collected[q] = <<>>
    PROVE  Progress(q)
<1>1. PICK c : PartChain(q, c)
  BY PartChainExists
<1> DEFINE none == <<>>
           h == [j \in 0..0 |-> none]
<1>2. c[0].packs = <<>> /\ c[0].rest = <<>>
  BY <1>1 DEF PartChain, PacksRounds, NothingPacked
<1>3. Len(messages) = 0 /\ 1..0 = {} /\ 0 \in 0..0
  OBVIOUS
<1>4. Reported(q, h)
  BY <1>3 DEF Reported
<1>5. 0 \in 0..NumRoundsOf(q) /\ 0 * PackingBatchSize = 0
  BY PartNumbers, PartsNumber
<1>6. AtRound(q, c, h, 0)
  <2>1. /\ part[q].i = 0 /\ part[q].inputData = <<>> /\ part[q].running = TRUE
        /\ h[0] = <<>>
    BY <1>3
  <2> HIDE DEF h
  <2>2. QED
    BY <1>2, <1>3, <1>5, <2>1 DEF AtRound
<1>7. QED
  BY <1>1, <1>4, <1>5, <1>6 DEF Progress

LEMMA FreshIndex == lengths \in Seq(Nat) /\ IndexInit => IndexInv
<1> SUFFICES ASSUME lengths \in Seq(Nat), IndexInit PROVE IndexInv
  OBVIOUS
<1>1. /\ messages = <<>> /\ DOMAIN messages = {} /\ finishedWorkers = 0
      /\ packedIdx = NotPacked
      /\ part = [q \in Procs |-> [i |-> 0, inputData |-> <<>>, running |-> TRUE]]
      /\ collected = [q \in Procs |-> <<>>]
  BY DEF IndexInit
<1>2. IndexTypes
  <2> DEFINE new == [i |-> 0, inputData |-> <<>>, running |-> TRUE]
  <2>1. new \in Turn
    BY DEF Turn
  <2> HIDE DEF new
  <2>2. part \in [Procs -> Turn]
    BY <1>1, <2>1 DEF new
  <2> DEFINE none == <<>>
  <2>3. none \in Seq(Seq(1..Len(lengths))) /\ none \in Seq(Messages)
    OBVIOUS
  <2> HIDE DEF none
  <2>4. collected \in [Procs -> Seq(Seq(1..Len(lengths)))]
    BY <1>1, <2>3 DEF none
  <2>5. QED
    BY <1>1, <2>2, <2>3, <2>4 DEF IndexTypes, none
<1>3. HeardToEnd = {}
  BY <1>1 DEF HeardToEnd
<1>4. finishedWorkers = Cardinality(HeardToEnd)
  BY <1>1, <1>3, FS_EmptySet
<1>5. LastAfterOthers /\ LastToCome
  BY <1>1 DEF LastAfterOthers, LastToCome
<1>6. \A q \in Procs : Progress(q)
  BY <1>1, FreshIndexProgress
<1>7. QED
  BY <1>1, <1>2, <1>4, <1>5, <1>6 DEF IndexInv

-----------------------------------------------------------------------------
LEMMA BroadcastIndex == ASSUME IndexInv, Broadcast PROVE IndexInv'
<1>1. /\ finishedWorkers = Cardinality(Procs)
      /\ packedIdx' = FlattenSeq(collected)
      /\ UNCHANGED <<lengths, part, messages, collected, finishedWorkers>>
  BY DEF Broadcast
<1>2. /\ Procs' = Procs /\ PacksOfParts' = PacksOfParts
      /\ Messages' = Messages /\ Turn' = Turn
      /\ \A q : NumRoundsOf(q)' = NumRoundsOf(q)
      /\ \A q, c : PartChain(q, c)' <=> PartChain(q, c)
  BY <1>1, SameParts
<1>3. HeardToEnd = Procs
  <2>1. IsFiniteSet(Procs)
    <3>1. Procs = 1..NumParts /\ NumParts \in Nat
      BY PartsNumber DEF IndexInv, IndexTypes
    <3>2. QED
      BY <3>1, FS_Interval
  <2>2. HeardToEnd \subseteq Procs
    BY DEF HeardToEnd
  <2>3. Cardinality(HeardToEnd) = Cardinality(Procs)
    BY <1>1 DEF IndexInv
  <2>4. QED
    BY <2>1, <2>2, <2>3, FS_Subset
<1>4. Len(messages) = 0
  <2> DEFINE n == Len(messages)
  <2>1. n \in Nat /\ DOMAIN messages = 1..n /\ \A j \in 1..n : messages[j] \in Messages
    BY LenProperties DEF IndexInv, IndexTypes
  <2>2. \A m \in Messages : m.rank \in Procs
    BY DEF Messages
  <2>3. \A j \in 1..n : messages[j].rank \notin HeardToEnd
    BY <2>1 DEF HeardToEnd
  <2> HIDE DEF n
  <2>4. ~(1 \in 1..n)
    BY <1>3, <2>1, <2>2, <2>3
  <2>5. QED
    BY <2>1, <2>4 DEF n
<1>5. \A q \in Procs : collected[q] = PackInRounds(PartRounds(q), lengths)
  <2>1. SUFFICES ASSUME NEW q \in Procs
                 PROVE  collected[q] = PackInRounds(PartRounds(q), lengths)
    OBVIOUS
  <2>2. PICK c, h : /\ PartChain(q, c) /\ Reported(q, h)
                    /\ \E k \in 0..NumRoundsOf(q) : AtRound(q, c, h, k)
    BY DEF IndexInv, Progress
  <2>3. PICK k \in 0..NumRoundsOf(q) : AtRound(q, c, h, k)
    BY <2>2
  <2>4. ~part[q].running
    BY <1>3 DEF HeardToEnd
  <2>5. h[0] = collected[q] /\ h[0] = c[NumRoundsOf(q)].packs
    BY <1>4, <2>2, <2>3, <2>4 DEF Reported, AtRound
  <2>6. PackInRounds(PartRounds(q), lengths) = c[NumRoundsOf(q)].packs
    BY <2>2, PartOnce DEF IndexInv, IndexTypes
  <2>7. QED
    BY <2>5, <2>6
<1>6. packedIdx' = PacksOfParts
  <2>1. collected = [q \in Procs |-> collected[q]]
    BY DEF IndexInv, IndexTypes
  <2>2. collected = [q \in Procs |-> PackInRounds(PartRounds(q), lengths)]
    BY <1>5, <2>1
  <2>3. QED
    BY <1>1, <2>2, Zenon DEF PacksOfParts
<1>7. IndexTypes' /\ LastAfterOthers' /\ LastToCome' /\ HeardToEnd' = HeardToEnd
  BY <1>1, <1>2 DEF IndexInv, IndexTypes, LastAfterOthers, LastToCome, HeardToEnd
<1>8. \A q, h : Reported(q, h)' <=> Reported(q, h)
  BY <1>1 DEF Reported
<1>9. \A q, c, h, k : AtRound(q, c, h, k)' <=> AtRound(q, c, h, k)
  BY <1>1, <1>2 DEF AtRound
<1>10. \A q \in Procs' : Progress(q)'
  BY <1>2, <1>8, <1>9 DEF Progress, IndexInv
<1>11. QED
  BY <1>1, <1>2, <1>6, <1>7, <1>10 DEF IndexInv

-----------------------------------------------------------------------------
LEMMA TailAt ==
    ASSUME NEW S, NEW s \in Seq(S), s # <<>>
    PROVE  /\ Tail(s) \in Seq(S) /\ Len(s) \in Nat \ {0} /\ Len(Tail(s)) = Len(s) - 1
           /\ Head(s) = s[1] /\ Head(s) \in S
           /\ DOMAIN s = 1..Len(s) /\ DOMAIN Tail(s) = 1..(Len(s) - 1)
           /\ \A j \in 1..(Len(s) - 1) : Tail(s)[j] = s[j + 1]
<1> DEFINE n == Len(s)
           t == Tail(s)
           l == Len(t)
<1>1. n \in Nat /\ DOMAIN s = 1..n /\ (n = 0 => s = <<>>)
  BY LenProperties, EmptySeq
<1>2. t \in Seq(S) /\ l = n - 1 /\ \A j \in 1..l : t[j] = s[j + 1]
  BY HeadTailProperties
<1>3. Head(s) = s[1] /\ Head(s) \in S
  BY HeadTailProperties, <1>1
<1>4. DOMAIN t = 1..l
  <2> HIDE DEF t
  <2>1. QED
    BY <1>2, LenProperties
<1> HIDE DEF n, t, l
<1>5. QED
  BY <1>1, <1>2, <1>3, <1>4 DEF n, t, l

LEMMA ReceiveProgress ==
    ASSUME IndexInv, Receive, NEW q \in Procs PROVE Progress(q)'
<1> DEFINE m == Head(messages)
           N == Len(messages)
<1>1. /\ messages # <<>> /\ messages' = Tail(messages)
      /\ UNCHANGED <<lengths, part, packedIdx>>
  BY DEF Receive
<1>2. IF m.last THEN collected' = collected ELSE collected' = Collect(m)
  BY DEF Receive
<1>3. /\ lengths \in Seq(Nat) /\ messages \in Seq(Messages)
      /\ collected \in [Procs -> Seq(Seq(1..Len(lengths)))]
      /\ \A j \in DOMAIN messages : messages[j].last => messages[j].packs = <<>>
  BY DEF IndexInv, IndexTypes
<1>4. /\ N \in Nat \ {0} /\ Len(messages') = N - 1 /\ m = messages[1]
      /\ DOMAIN messages = 1..N /\ m \in Messages
      /\ \A j \in 1..(N - 1) : messages'[j] = messages[j + 1]
  BY <1>1, <1>3, TailAt
<1>5. m.rank \in Procs /\ m.last \in BOOLEAN
  BY <1>4 DEF Messages
<1>6. PICK c, h : /\ PartChain(q, c) /\ Reported(q, h)
                  /\ \E k \in 0..NumRoundsOf(q) : AtRound(q, c, h, k)
  BY DEF IndexInv, Progress
<1>7. PICK k \in 0..NumRoundsOf(q) : AtRound(q, c, h, k)
  BY <1>6
<1> HIDE DEF m, N
<1>8. h[1] = IF m.rank = q THEN collected[q] \o m.packs ELSE collected[q]
  <2>1. 1 \in 1..N /\ 1 - 1 = 0
    BY <1>4
  <2>2. h[1] = IF messages[1].rank = q THEN h[1 - 1] \o messages[1].packs
               ELSE h[1 - 1]
    BY <1>6, <2>1 DEF Reported, N
  <2>3. h[0] = collected[q]
    BY <1>6 DEF Reported
  <2>4. QED
    BY <1>4, <2>1, <2>2, <2>3
<1>9. collected'[q] = h[1]
  <2>1. CASE m.last
    <3>1. m.packs = <<>> /\ collected' = collected
      <4>1. 1 \in DOMAIN messages /\ messages[1].last
        BY <1>4, <2>1
      <4>2. messages[1].packs = <<>>
        BY <1>3, <4>1
      <4>3. QED
        BY <1>2, <1>4, <2>1, <4>2
    <3> DEFINE A == Seq(1..Len(lengths))
               x == collected[q]
    <3>2. x \in Seq(A)
      BY <1>3
    <3> HIDE DEF A, x
    <3>3. x \o <<>> = x
      BY <3>2, ConcatEmptySeq
    <3>4. QED
      BY <1>8, <3>1, <3>3 DEF x
  <2>2. CASE ~m.last
    <3>1. collected' = [collected EXCEPT ![m.rank] = @ \o m.packs]
      BY <1>2, <2>2 DEF Collect
    <3> DEFINE y == collected[m.rank] \o m.packs
    <3>2. collected' = [collected EXCEPT ![m.rank] = y]
      BY <3>1
    <3> HIDE DEF y
    <3>3. collected'[q] = IF m.rank = q THEN y ELSE collected[q]
      BY <1>3, <1>5, <3>2
    <3>4. QED
      BY <1>8, <3>3 DEF y
  <2>3. QED
    BY <1>5, <2>1, <2>2
<1>10. PICK g : /\ g[0] = h[1] /\ g[N - 1] = h[N]
                /\ \A j \in 0..(N - 1) : g[j] = h[j + 1]
  <2> DEFINE g == [j \in 0..(N - 1) |-> h[j + 1]]
  <2>1. 0 \in 0..(N - 1) /\ N - 1 \in 0..(N - 1) /\ (N - 1) + 1 = N /\ 0 + 1 = 1
    BY <1>4
  <2>2. \A j \in 0..(N - 1) : g[j] = h[j + 1]
    OBVIOUS
  <2> HIDE DEF g
  <2>3. g[0] = h[0 + 1] /\ g[N - 1] = h[(N - 1) + 1]
    BY <2>1, <2>2
  <2>4. QED
    BY <2>2, <2>3, <2>1
<1>11. Reported(q, g)'
  <2>1. ASSUME NEW j \in 1..(N - 1)
        PROVE  g[j] = IF messages'[j].rank = q THEN g[j - 1] \o messages'[j].packs
                      ELSE g[j - 1]
    <3>1. /\ j + 1 \in 1..N /\ (j + 1) - 1 = j /\ j \in 0..(N - 1)
          /\ j - 1 \in 0..(N - 1) /\ (j - 1) + 1 = j
      BY <1>4
    <3>2. h[j + 1] = IF messages[j + 1].rank = q
                     THEN h[(j + 1) - 1] \o messages[j + 1].packs ELSE h[(j + 1) - 1]
      BY <1>6, <3>1 DEF Reported, N
    <3>3. g[j] = h[j + 1] /\ g[j - 1] = h[j]
      BY <1>10, <3>1
    <3>4. messages'[j] = messages[j + 1]
      BY <1>4
    <3>5. QED
      BY <3>1, <3>2, <3>3, <3>4
  <2>2. g[0] = collected'[q] /\ Len(messages') = N - 1
    BY <1>4, <1>9, <1>10
  <2>3. QED
    BY <2>1, <2>2 DEF Reported
<1>12. AtRound(q, c, g, k)'
  <2>1. part[q].i = k * PackingBatchSize /\ part[q].inputData = c[k].rest
        /\ h[N] = c[k].packs /\ (~part[q].running => k = NumRoundsOf(q))
    BY <1>7 DEF AtRound, N
  <2>2. NumRoundsOf(q)' = NumRoundsOf(q) /\ Len(messages') = N - 1
    BY <1>1, <1>4, SameParts
  <2>3. g[N - 1] = c[k].packs
    BY <1>10, <2>1
  <2>4. QED
    BY <1>1, <2>1, <2>2, <2>3 DEF AtRound
<1>13. PartChain(q, c)' /\ NumRoundsOf(q)' = NumRoundsOf(q)
  BY <1>1, <1>6, SameParts
<1>14. QED
  BY <1>11, <1>12, <1>13 DEF Progress

LEMMA ReceiveIndex == ASSUME IndexInv, Receive PROVE IndexInv'
<1> DEFINE m == Head(messages)
           N == Len(messages)
           H == HeardToEnd
<1>1. /\ messages # <<>> /\ messages' = Tail(messages)
      /\ UNCHANGED <<lengths, part, packedIdx>>
  BY DEF Receive
<1>2. IF m.last THEN finishedWorkers' = finishedWorkers + 1 /\ collected' = collected
      ELSE collected' = Collect(m) /\ finishedWorkers' = finishedWorkers
  BY DEF Receive
<1>3. /\ lengths \in Seq(Nat) /\ messages \in Seq(Messages)
      /\ collected \in [Procs -> Seq(Seq(1..Len(lengths)))]
      /\ part \in [Procs -> Turn]
      /\ \A j \in DOMAIN messages : messages[j].last => messages[j].packs = <<>>
  BY DEF IndexInv, IndexTypes
<1>4. /\ N \in Nat \ {0} /\ Len(messages') = N - 1 /\ m = messages[1]
      /\ DOMAIN messages = 1..N /\ DOMAIN messages' = 1..(N - 1) /\ m \in Messages
      /\ messages' \in Seq(Messages)
      /\ \A j \in 1..(N - 1) : messages'[j] = messages[j + 1]
  BY <1>1, <1>3, TailAt
<1>5. /\ m.rank \in Procs /\ m.last \in BOOLEAN
      /\ m.packs \in Seq(Seq(1..Len(lengths)))
  BY <1>4 DEF Messages
<1>6. /\ Procs' = Procs /\ PacksOfParts' = PacksOfParts
      /\ Messages' = Messages /\ Turn' = Turn
  BY <1>1, SameParts
<1>7. /\ \A j \in 1..N : messages[j].last =>
            /\ ~part[messages[j].rank].running
            /\ \A k \in 1..N : k > j => messages[k].rank # messages[j].rank
      /\ \A j \in 1..N : ~part[messages[j].rank].running =>
            \E k \in 1..N : /\ k >= j /\ messages[k].last
                            /\ messages[k].rank = messages[j].rank
  BY <1>4 DEF IndexInv, LastAfterOthers, LastToCome
<1> HIDE DEF m, N
<1>8. \A j \in 1..(N - 1) : j + 1 \in 1..N /\ messages'[j] = messages[j + 1]
  BY <1>4
<1>9. IndexTypes'
  <2>1. collected' \in [Procs -> Seq(Seq(1..Len(lengths)))]
    <3>1. CASE m.last
      BY <1>2, <1>3, <3>1
    <3>2. CASE ~m.last
      <4> DEFINE A == Seq(1..Len(lengths))
                 x == collected[m.rank]
                 y == x \o m.packs
      <4>1. x \in Seq(A) /\ m.packs \in Seq(A)
        BY <1>3, <1>5
      <4>2. y \in Seq(A)
        <5> HIDE DEF A, x
        <5>1. QED
          BY <4>1, ConcatProperties
      <4>3. collected' = [collected EXCEPT ![m.rank] = y]
        BY <1>2, <3>2 DEF Collect
      <4> HIDE DEF y
      <4>4. QED
        BY <1>3, <4>2, <4>3
    <3>3. QED
      BY <1>5, <3>1, <3>2
  <2>2. \A j \in DOMAIN messages' : messages'[j].last => messages'[j].packs = <<>>
    BY <1>3, <1>4, <1>8
  <2>3. QED
    BY <1>1, <1>3, <1>4, <1>6, <2>1, <2>2 DEF IndexTypes
<1>10. LastAfterOthers'
  <2>1. ASSUME NEW j \in 1..(N - 1), messages'[j].last
        PROVE  /\ ~part[messages'[j].rank].running
               /\ \A k \in 1..(N - 1) : k > j => messages'[k].rank # messages'[j].rank
    <3>1. j + 1 \in 1..N /\ messages'[j] = messages[j + 1]
      BY <1>8
    <3>2. /\ ~part[messages[j + 1].rank].running
          /\ \A k \in 1..N : k > j + 1 => messages[k].rank # messages[j + 1].rank
      BY <1>7, <2>1, <3>1
    <3>3. \A k \in 1..(N - 1) : k > j => k + 1 > j + 1
      BY <1>4
    <3>4. QED
      BY <1>8, <3>1, <3>2, <3>3
  <2>2. DOMAIN messages' = 1..(N - 1) /\ part' = part
    BY <1>1, <1>4
  <2>3. QED
    BY <2>1, <2>2 DEF LastAfterOthers
<1>11. LastToCome'
  <2>1. ASSUME NEW j \in 1..(N - 1), ~part[messages'[j].rank].running
        PROVE  \E k \in 1..(N - 1) : /\ k >= j /\ messages'[k].last
                                     /\ messages'[k].rank = messages'[j].rank
    <3>1. j + 1 \in 1..N /\ messages'[j] = messages[j + 1]
      BY <1>8
    <3>2. PICK k \in 1..N : /\ k >= j + 1 /\ messages[k].last
                            /\ messages[k].rank = messages[j + 1].rank
      BY <1>7, <2>1, <3>1
    <3>3. k - 1 \in 1..(N - 1) /\ (k - 1) + 1 = k /\ k - 1 >= j
      BY <1>4, <3>1, <3>2
    <3>4. messages'[k - 1] = messages[k]
      BY <1>8, <3>3
    <3>5. QED
      BY <3>1, <3>2, <3>3, <3>4
  <2>2. DOMAIN messages' = 1..(N - 1) /\ part' = part
    BY <1>1, <1>4
  <2>3. QED
    BY <2>1, <2>2 DEF LastToCome
<1>12. \A q \in Procs : q \in H <=> ~part[q].running
                                     /\ \A j \in 1..N : messages[j].rank # q
  BY <1>4 DEF HeardToEnd
<1>13. \A q \in Procs : q \in H' <=> ~part[q].running
                                     /\ \A j \in 1..(N - 1) : messages'[j].rank # q
  BY <1>1, <1>4, <1>6 DEF HeardToEnd
<1>14. H \subseteq Procs /\ H' \subseteq Procs
  BY <1>6 DEF HeardToEnd
<1>15. IsFiniteSet(H)
  <2>1. IsFiniteSet(Procs)
    <3>1. Procs = 1..NumParts /\ NumParts \in Nat
      BY <1>3, PartsNumber
    <3>2. QED
      BY <3>1, FS_Interval
  <2>2. QED
    BY <1>14, <2>1, FS_Subset
<1> HIDE DEF H
<1>16. finishedWorkers = Cardinality(H)
  BY DEF IndexInv, H
<1>17. \A j \in 1..N : j = 1 \/ (j - 1 \in 1..(N - 1) /\ messages[j] = messages'[j - 1])
  <2>1. \A j \in 1..N : j = 1 \/ (j - 1 \in 1..(N - 1) /\ (j - 1) + 1 = j)
    BY <1>4
  <2>2. QED
    BY <1>8, <2>1
<1>18. ASSUME NEW q \in Procs, q # m.rank PROVE q \in H' <=> q \in H
  <2>1. (\A j \in 1..N : messages[j].rank # q)
          <=> \A j \in 1..(N - 1) : messages'[j].rank # q
    <3>1. 1 \in 1..N /\ messages[1].rank # q
      BY <1>4, <1>18
    <3>2. QED
      BY <1>8, <1>17, <3>1
  <2>2. QED
    BY <1>12, <1>13, <2>1
<1>19. m.rank \notin H
  <2>1. 1 \in 1..N
    BY <1>4
  <2>2. QED
    BY <1>4, <1>5, <1>12, <2>1
<1>20. finishedWorkers' = Cardinality(H')
  <2>1. CASE m.last
    <3>1. m.rank \in H'
      <4>1. 1 \in 1..N
        BY <1>4
      <4>2. ~part[m.rank].running /\ \A k \in 1..N : k > 1 => messages[k].rank # m.rank
        BY <1>4, <1>7, <2>1, <4>1
      <4>3. \A j \in 1..(N - 1) : j + 1 > 1
        BY <1>4
      <4>4. QED
        BY <1>5, <1>8, <1>13, <4>2, <4>3
    <3>2. H' = H \cup {m.rank}
      BY <1>5, <1>14, <1>18, <3>1
    <3>3. Cardinality(H \cup {m.rank}) = Cardinality(H) + 1
      BY <1>15, <1>19, FS_AddElement
    <3>4. QED
      BY <1>2, <1>16, <2>1, <3>2, <3>3
  <2>2. CASE ~m.last
    <3>1. m.rank \notin H'
      <4>1. SUFFICES ASSUME ~part[m.rank].running
                     PROVE  \E j \in 1..(N - 1) : messages'[j].rank = m.rank
        BY <1>5, <1>13
      <4>2. 1 \in 1..N
        BY <1>4
      <4>3. PICK k \in 1..N : messages[k].last /\ messages[k].rank = m.rank
        BY <1>4, <1>7, <4>1, <4>2
      <4>4. k # 1
        BY <1>4, <2>2, <4>3
      <4>5. QED
        BY <1>17, <4>3, <4>4
    <3>2. H' = H
      BY <1>14, <1>18, <1>19, <3>1
    <3>3. QED
      BY <1>2, <1>16, <2>2, <3>2
  <2>3. QED
    BY <1>5, <2>1, <2>2
<1>21. \A q \in Procs' : Progress(q)'
  BY <1>6, ReceiveProgress
<1>22. packedIdx' = NotPacked' \/ packedIdx' = PacksOfParts'
  BY <1>1, <1>6 DEF IndexInv, NotPacked
<1>23. QED
  BY <1>9, <1>10, <1>11, <1>20, <1>21, <1>22 DEF IndexInv, H

-----------------------------------------------------------------------------
\* Where a process is before and after a turn of its loop.
LEMMA TurnOfLoop ==
    ASSUME IndexInv, NEW q \in Procs, NEW c, PartChain(q, c),
           NEW k \in 0..NumRoundsOf(q), part[q].i = k * PackingBatchSize,
           part[q].inputData = c[k].rest
    PROVE  LET input == part[q].inputData \o NewData(q, part[q].i)
               i == part[q].i + PackingBatchSize
               matched == CalculateMatchedGroup(input, lengths, IsFinished(q, i))
           IN  /\ input = <<>> <=> k = NumRoundsOf(q)
               /\ k # NumRoundsOf(q) =>
                    /\ i = (k + 1) * PackingBatchSize
                    /\ c[k + 1].packs = c[k].packs \o matched.packs
                    /\ c[k + 1].rest = matched.rest
               /\ matched.packs \in Seq(Seq(1..Len(lengths)))
               /\ matched.rest \in Seq(1..Len(lengths))
               /\ c[k].packs \in Seq(Seq(1..Len(lengths)))
<1> DEFINE w == PackingBatchSize
           L == NumRoundsOf(q)
           W == Cardinality(Part(q))
           S == 1..Len(lengths)
           a == k * w
           new == NewData(q, a)
           rest == c[k].rest
           input == rest \o new
           last == IsFinished(q, a + w)
           matched == CalculateMatchedGroup(input, lengths, last)
<1>1. lengths \in Seq(Nat)
  BY DEF IndexInv, IndexTypes
<1>2. /\ L \in Nat /\ w \in Nat \ {0} /\ W \in Nat
      /\ \A j \in Nat : j >= L <=> j * w >= W
  BY <1>1, PartNumbers, PartsNumber, CeilDivCovers DEF NumRoundsOf
<1>3. k \in Nat /\ k <= L /\ k + 1 \in Nat
  BY <1>2
<1>4. a \in Nat /\ (k + 1) * w = a + w
  BY <1>2, <1>3
<1>5. a >= W <=> k = L
  BY <1>2, <1>3
<1>6. c[k] \in States(S) /\ c[k].packs \in Seq(Seq(S)) /\ rest \in Seq(S)
  BY DEF PartChain, States
<1> HIDE DEF w, L, W, a, rest
<1>7. new \in Seq(S) /\ (new = <<>> <=> a >= W)
  BY <1>1, <1>4, NewDataIs DEF W
<1> HIDE DEF new
<1>8. input \in Seq(S)
  BY <1>6, <1>7, ConcatProperties
<1>9. last \in BOOLEAN /\ (last <=> a + w >= W)
  BY DEF IsFinished, W
<1>10. \A s \in S : lengths[s] \in Nat
  BY <1>1, LengthsNat
<1>11. input = <<>> <=> k = L
  <2>1. ASSUME k = L PROVE input = <<>>
    <3>1. new = <<>>
      BY <1>5, <1>7, <2>1
    <3>2. rest = <<>>
      <4>1. c[NumRoundsOf(q)].rest = <<>>
        BY <1>1, PartOnce
      <4>2. QED
        BY <2>1, <4>1 DEF rest, L
    <3> DEFINE none == <<>>
    <3>3. none \in Seq(S) /\ none \o none = none
      OBVIOUS
    <3> HIDE DEF none
    <3>4. rest = none /\ new = none
      BY <3>1, <3>2 DEF none
    <3>5. input = none
      BY <3>3, <3>4
    <3>6. QED
      BY <3>5 DEF none
  <2>2. ASSUME k # L PROVE input # <<>>
    <3> DEFINE n == Len(new)
               r == Len(rest)
               t == Len(input)
    <3>1. n \in Nat /\ r \in Nat /\ (n = 0 => new = <<>>)
      BY <1>6, <1>7, LenProperties, EmptySeq
    <3>2. t = r + n
      BY <1>6, <1>7, ConcatProperties
    <3>3. new # <<>>
      BY <1>5, <1>7, <2>2
    <3> HIDE DEF n, r
    <3>4. t # 0
      BY <3>1, <3>2, <3>3
    <3> HIDE DEF input
    <3>5. QED
      BY <3>4
  <2>3. QED
    BY <2>1, <2>2
<1> HIDE DEF input, last
<1>12. matched.packs \in Seq(Seq(S)) /\ matched.rest \in Seq(S)
  BY <1>8, <1>9, <1>10, MatchedPacks
<1>13. ASSUME k # L
       PROVE  c[k + 1].packs = c[k].packs \o matched.packs /\ c[k + 1].rest = matched.rest
  <2>1. k + 1 \in 1..L /\ (k + 1) - 1 = k
    BY <1>2, <1>3, <1>13
  <2>2. PartRounds(q)[k + 1] = new
    <3>1. PartRounds(q)[k + 1] = NewData(q, ((k + 1) - 1) * w)
      BY <1>1, <2>1, PartRoundsAre DEF L, w
    <3>2. QED
      BY <2>1, <3>1 DEF new, a
  <2>3. c[k + 1] = PackedOn(c[(k + 1) - 1], PartRounds(q)[k + 1], lengths, k + 1 = L)
    BY <2>1 DEF PartChain, PacksRounds, L
  <2>4. (k + 1 = L) = last
    <3>1. k + 1 >= L <=> a + w >= W
      BY <1>2, <1>3, <1>4
    <3>2. k + 1 = L <=> k + 1 >= L
      BY <1>2, <2>1
    <3>3. (k + 1 = L) \in BOOLEAN
      OBVIOUS
    <3>4. QED
      BY <1>9, <3>1, <3>2, <3>3
  <2>5. c[k + 1] = PackedOn(c[k], new, lengths, last)
    BY <2>1, <2>2, <2>3, <2>4
  <2> DEFINE packs == c[k].packs \o matched.packs
             more == matched.rest
  <2>6. c[k + 1] = [packs |-> packs, rest |-> more]
    BY <2>5, Zenon DEF PackedOn, input, rest
  <2> HIDE DEF packs, more
  <2>7. c[k + 1].packs = packs /\ c[k + 1].rest = more
    BY <2>6
  <2>8. QED
    BY <2>7 DEF packs, more
<1>14. /\ part[q].i = a /\ part[q].inputData = rest
       /\ part[q].inputData \o NewData(q, part[q].i) = input
       /\ IsFinished(q, part[q].i + PackingBatchSize) = last
  BY DEF a, rest, input, new, last, w
<1> HIDE DEF matched
<1>15. CalculateMatchedGroup(part[q].inputData \o NewData(q, part[q].i), lengths,
                             IsFinished(q, part[q].i + PackingBatchSize)) = matched
  BY <1>14 DEF matched
<1>16. QED
  BY <1>4, <1>6, <1>11, <1>12, <1>13, <1>14, <1>15 DEF w, L, S

-----------------------------------------------------------------------------
\* A process puts a message into the queue.
LEMMA AppendAt ==
    ASSUME NEW S, NEW s \in Seq(S), NEW x \in S
    PROVE  /\ Append(s, x) \in Seq(S) /\ Len(s) \in Nat
           /\ Len(Append(s, x)) = Len(s) + 1
           /\ DOMAIN s = 1..Len(s) /\ DOMAIN Append(s, x) = 1..(Len(s) + 1)
           /\ Append(s, x)[Len(s) + 1] = x
           /\ \A j \in 1..Len(s) : Append(s, x)[j] = s[j]
<1> DEFINE n == Len(s)
           t == Append(s, x)
           l == Len(t)
<1>1. n \in Nat /\ DOMAIN s = 1..n
  BY LenProperties
<1>2. t \in Seq(S) /\ l = n + 1 /\ (\A j \in 1..n : t[j] = s[j]) /\ t[n + 1] = x
  BY AppendProperties
<1>3. DOMAIN t = 1..l
  <2> HIDE DEF t
  <2>1. QED
    BY <1>2, LenProperties
<1> HIDE DEF n, t, l
<1>4. QED
  BY <1>1, <1>2, <1>3 DEF n, t, l

LEMMA PutHistory ==
    ASSUME messages \in Seq(Messages), NEW m \in Messages,
           messages' = Append(messages, m), collected' = collected,
           NEW q, NEW h, Reported(q, h)
    PROVE  \E g : /\ Reported(q, g)'
                  /\ g[Len(messages')] = IF m.rank = q
                                         THEN h[Len(messages)] \o m.packs
                                         ELSE h[Len(messages)]
<1> DEFINE N == Len(messages)
           y == IF m.rank = q THEN h[N] \o m.packs ELSE h[N]
<1>1. /\ N \in Nat /\ Len(messages') = N + 1 /\ messages'[N + 1] = m
      /\ \A j \in 1..N : messages'[j] = messages[j]
  BY AppendAt
<1>2. PICK g : g[N + 1] = y /\ \A j \in 0..N : g[j] = h[j]
  <2> DEFINE g == [j \in 0..(N + 1) |-> IF j = N + 1 THEN y ELSE h[j]]
  <2> HIDE DEF N, y
  <2>1. N + 1 \in 0..(N + 1) /\ \A j \in 0..N : j \in 0..(N + 1) /\ j # N + 1
    BY <1>1 DEF N
  <2>2. g[N + 1] = y /\ \A j \in 0..N : g[j] = h[j]
    BY <2>1
  <2> HIDE DEF g
  <2>3. QED
    BY <2>2
<1> HIDE DEF N
<1>3. ASSUME NEW j \in 1..(N + 1)
      PROVE  g[j] = IF messages'[j].rank = q THEN g[j - 1] \o messages'[j].packs
                    ELSE g[j - 1]
  <2>1. CASE j = N + 1
    <3>1. j - 1 = N /\ N \in 0..N /\ messages'[j] = m
      BY <1>1, <2>1
    <3>2. g[j - 1] = h[N] /\ g[j] = y
      BY <1>2, <2>1, <3>1
    <3>3. QED
      BY <3>1, <3>2
  <2>2. CASE j # N + 1
    <3>1. j \in 1..N /\ j \in 0..N /\ j - 1 \in 0..N
      BY <1>1, <2>2
    <3>2. h[j] = IF messages[j].rank = q THEN h[j - 1] \o messages[j].packs
                 ELSE h[j - 1]
      BY <3>1 DEF Reported, N
    <3>3. g[j] = h[j] /\ g[j - 1] = h[j - 1] /\ messages'[j] = messages[j]
      BY <1>1, <1>2, <3>1
    <3>4. QED
      BY <3>2, <3>3
  <2>3. QED
    BY <2>1, <2>2
<1>4. g[0] = collected[q]
  <2>1. 0 \in 0..N /\ h[0] = collected[q]
    BY <1>1 DEF Reported
  <2>2. QED
    BY <1>2, <2>1
<1>5. Reported(q, g)'
  BY <1>1, <1>3, <1>4 DEF Reported
<1>6. g[Len(messages')] = y
  BY <1>1, <1>2
<1>7. QED
  BY <1>5, <1>6 DEF N

LEMMA PutIndex ==
    ASSUME IndexInv, NEW p \in Procs, part[p].running,
           NEW m \in Messages, m.rank = p, m.last => m.packs = <<>>,
           NEW turn \in Turn, m.last <=> ~turn.running,
           part' = [part EXCEPT ![p] = turn],
           messages' = Append(messages, m),
           UNCHANGED <<lengths, collected, finishedWorkers, packedIdx>>
    PROVE  /\ IndexTypes' /\ LastAfterOthers' /\ LastToCome'
           /\ finishedWorkers' = Cardinality(HeardToEnd')
<1> DEFINE N == Len(messages)
           H == HeardToEnd
<1>1. /\ lengths \in Seq(Nat) /\ messages \in Seq(Messages)
      /\ collected \in [Procs -> Seq(Seq(1..Len(lengths)))]
      /\ part \in [Procs -> Turn]
      /\ \A j \in DOMAIN messages : messages[j].last => messages[j].packs = <<>>
  BY DEF IndexInv, IndexTypes
<1>2. /\ Procs' = Procs /\ Messages' = Messages /\ Turn' = Turn
  BY SameParts
<1>3. /\ messages' \in Seq(Messages) /\ N \in Nat
      /\ DOMAIN messages = 1..N /\ DOMAIN messages' = 1..(N + 1)
      /\ messages'[N + 1] = m
      /\ \A j \in 1..N : messages'[j] = messages[j]
  BY <1>1, AppendAt
<1>4. part'[p] = turn /\ \A q \in Procs : q # p => part'[q] = part[q]
  BY <1>1
<1>5. /\ \A j \in 1..N : messages[j].last =>
            /\ ~part[messages[j].rank].running
            /\ \A k \in 1..N : k > j => messages[k].rank # messages[j].rank
      /\ \A j \in 1..N : ~part[messages[j].rank].running =>
            \E k \in 1..N : /\ k >= j /\ messages[k].last
                            /\ messages[k].rank = messages[j].rank
  BY <1>3 DEF IndexInv, LastAfterOthers, LastToCome
<1>6. \A j \in 1..N : messages[j] \in Messages /\ messages[j].rank \in Procs
  <2>1. \A j \in 1..N : messages[j] \in Messages
    BY <1>1, <1>3
  <2>2. \A n \in Messages : n.rank \in Procs
    BY DEF Messages
  <2>3. QED
    BY <2>1, <2>2
<1> HIDE DEF N, H
<1>7. \A j \in 1..(N + 1) : j \in 1..N \/ j = N + 1
  BY <1>3
<1>8. N + 1 \in 1..(N + 1) /\ \A j \in 1..N : j \in 1..(N + 1) /\ N + 1 > j /\ N + 1 >= j
  BY <1>3
<1>9. IndexTypes'
  <2>1. part' \in [Procs -> Turn]
    BY <1>1
  <2>2. \A j \in DOMAIN messages' : messages'[j].last => messages'[j].packs = <<>>
    BY <1>1, <1>3, <1>7
  <2>3. QED
    BY <1>1, <1>2, <1>3, <2>1, <2>2 DEF IndexTypes
<1>10. LastAfterOthers'
  <2>1. ASSUME NEW j \in 1..(N + 1), messages'[j].last
        PROVE  /\ ~part'[messages'[j].rank].running
               /\ \A k \in 1..(N + 1) : k > j => messages'[k].rank # messages'[j].rank
    <3>1. CASE j = N + 1
      <4>1. ~part'[messages'[j].rank].running
        BY <1>3, <1>4, <2>1, <3>1
      <4>2. \A k \in 1..(N + 1) : ~(k > j)
        BY <1>3, <3>1
      <4>3. QED
        BY <4>1, <4>2
    <3>2. CASE j \in 1..N
      <4>1. messages'[j] = messages[j] /\ messages[j].last /\ messages[j].rank \in Procs
        BY <1>3, <1>6, <2>1, <3>2
      <4>2. ~part[messages[j].rank].running
        BY <1>5, <3>2, <4>1
      <4>3. messages[j].rank # p
        BY <4>2
      <4>4. ~part'[messages[j].rank].running
        BY <1>4, <4>1, <4>2, <4>3
      <4>5. \A k \in 1..(N + 1) : k > j => messages'[k].rank # messages[j].rank
        BY <1>3, <1>5, <1>7, <3>2, <4>1, <4>3
      <4>6. QED
        BY <4>1, <4>4, <4>5
    <3>3. QED
      BY <1>7, <3>1, <3>2
  <2>2. QED
    BY <1>3, <2>1 DEF LastAfterOthers
<1>11. LastToCome'
  <2>1. ASSUME NEW j \in 1..(N + 1), ~part'[messages'[j].rank].running
        PROVE  \E k \in 1..(N + 1) : /\ k >= j /\ messages'[k].last
                                     /\ messages'[k].rank = messages'[j].rank
    <3>1. CASE messages'[j].rank = p
      <4>1. messages'[N + 1].last /\ messages'[N + 1].rank = p
        BY <1>3, <1>4, <2>1, <3>1
      <4>2. N + 1 >= j
        BY <1>3
      <4>3. QED
        BY <1>8, <3>1, <4>1, <4>2
    <3>2. CASE messages'[j].rank # p
      <4>1. j \in 1..N
        BY <1>3, <1>7, <3>2
      <4>2. messages'[j] = messages[j] /\ messages[j].rank \in Procs
        BY <1>3, <1>6, <4>1
      <4>3. ~part[messages[j].rank].running
        BY <1>4, <2>1, <3>2, <4>2
      <4>4. PICK k \in 1..N : /\ k >= j /\ messages[k].last
                              /\ messages[k].rank = messages[j].rank
        BY <1>5, <4>1, <4>3
      <4>5. k \in 1..(N + 1) /\ messages'[k] = messages[k]
        BY <1>3, <1>8
      <4>6. QED
        BY <4>2, <4>4, <4>5
    <3>3. QED
      BY <3>1, <3>2
  <2>2. QED
    BY <1>3, <2>1 DEF LastToCome
<1>12. HeardToEnd' = HeardToEnd
  <2>1. ASSUME NEW q \in Procs
        PROVE  (~part'[q].running /\ \A j \in 1..(N + 1) : messages'[j].rank # q)
                 <=> (~part[q].running /\ \A j \in 1..N : messages[j].rank # q)
    <3>1. CASE q = p
      BY <1>3, <1>8, <3>1
    <3>2. CASE q # p
      <4>1. part'[q] = part[q]
        BY <1>4, <3>2
      <4>2. (\A j \in 1..(N + 1) : messages'[j].rank # q)
              <=> \A j \in 1..N : messages[j].rank # q
        BY <1>3, <1>7, <1>8, <3>2
      <4>3. QED
        BY <4>1, <4>2
    <3>3. QED
      BY <3>1, <3>2
  <2>2. QED
    BY <1>2, <1>3, <2>1 DEF HeardToEnd
<1>13. QED
  BY <1>9, <1>10, <1>11, <1>12 DEF IndexInv

\* A turn of the loop of a process: it has packed one more round, or says that
\* it is done; what is reported of the others is as it was.
LEMMA CreateIndex ==
    ASSUME IndexInv, NEW p \in Procs, CreatePackedIdx(p) PROVE IndexInv'
<1> DEFINE N == Len(messages)
           input == part[p].inputData \o NewData(p, part[p].i)
           i == part[p].i + PackingBatchSize
           matched == CalculateMatchedGroup(input, lengths, IsFinished(p, i))
           packed == matched.packs
           more == matched.rest
<1>1. part[p].running /\ UNCHANGED <<lengths, collected, finishedWorkers, packedIdx>>
  BY DEF CreatePackedIdx
<1>2. /\ lengths \in Seq(Nat) /\ messages \in Seq(Messages)
      /\ part \in [Procs -> Turn]
  BY DEF IndexInv, IndexTypes
<1>3. /\ Procs' = Procs /\ PacksOfParts' = PacksOfParts
      /\ \A q : NumRoundsOf(q)' = NumRoundsOf(q)
      /\ \A q, c : PartChain(q, c)' <=> PartChain(q, c)
  BY <1>1, SameParts
<1>4. PICK c, h : /\ PartChain(p, c) /\ Reported(p, h)
                  /\ \E k \in 0..NumRoundsOf(p) : AtRound(p, c, h, k)
  BY DEF IndexInv, Progress
<1>5. PICK k \in 0..NumRoundsOf(p) : AtRound(p, c, h, k)
  BY <1>4
<1>6. part[p].i = k * PackingBatchSize /\ part[p].inputData = c[k].rest
      /\ h[N] = c[k].packs
  BY <1>5 DEF AtRound
<1>7. /\ input = <<>> <=> k = NumRoundsOf(p)
      /\ k # NumRoundsOf(p) => /\ i = (k + 1) * PackingBatchSize
                               /\ c[k + 1].packs = c[k].packs \o packed
                               /\ c[k + 1].rest = more
      /\ packed \in Seq(Seq(1..Len(lengths))) /\ more \in Seq(1..Len(lengths))
      /\ c[k].packs \in Seq(Seq(1..Len(lengths)))
  BY <1>4, <1>6, TurnOfLoop
<1> HIDE DEF packed, more
<1>8. IF input = <<>>
      THEN /\ part' = [part EXCEPT ![p].running = FALSE]
           /\ messages' = Append(messages, [rank |-> p, packs |-> <<>>, last |-> TRUE])
      ELSE /\ part' = [part EXCEPT ![p].i = i, ![p].inputData = more]
           /\ messages' = Append(messages, [rank |-> p, packs |-> packed, last |-> FALSE])
  BY DEF CreatePackedIdx, packed, more
<1>9. part[p] \in Turn
  BY <1>2
<1>10. /\ NumRoundsOf(p) \in Nat /\ PackingBatchSize \in Nat
       /\ k \in Nat /\ part[p].i \in Nat /\ i \in Nat
  <2>1. part[p].i \in Nat
    BY <1>9 DEF Turn
  <2>2. QED
    <3>1. NumRoundsOf(p) \in Nat /\ PackingBatchSize \in Nat \ {0}
      BY <1>2, PartNumbers, PartsNumber
    <3>2. QED
      BY <2>1, <3>1
<1>11. PICK m, turn, n :
          /\ m \in Messages /\ m.rank = p /\ (m.last => m.packs = <<>>)
          /\ turn \in Turn /\ (m.last <=> ~turn.running)
          /\ part' = [part EXCEPT ![p] = turn]
          /\ messages' = Append(messages, m)
          /\ n \in 0..NumRoundsOf(p)
          /\ turn.i = n * PackingBatchSize /\ turn.inputData = c[n].rest
          /\ c[n].packs = c[k].packs \o m.packs
          /\ ~turn.running => n = NumRoundsOf(p)
  <2>1. CASE input = <<>>
    <3> DEFINE none == <<>>
               m == [rank |-> p, packs |-> none, last |-> TRUE]
               turn == [part[p] EXCEPT !.running = FALSE]
               A == Seq(1..Len(lengths))
               y == c[k].packs
    <3>1. part' = [part EXCEPT ![p] = turn] /\ messages' = Append(messages, m)
      BY <1>8, <2>1
    <3>2. none \in Seq(A) /\ y \in Seq(A)
      BY <1>7
    <3>3. y \o none = y
      <4> HIDE DEF A, y
      <4>1. QED
        BY <3>2, ConcatEmptySeq
    <3>4. turn \in Turn /\ ~turn.running /\ turn.i = part[p].i
          /\ turn.inputData = part[p].inputData
      BY <1>9 DEF Turn
    <3>5. m \in Messages /\ m.rank = p /\ m.packs = none /\ m.last
      <4> HIDE DEF none
      <4>1. QED
        BY <3>2 DEF Messages, A
    <3> HIDE DEF m, turn, y
    <3>6. k \in 0..NumRoundsOf(p) /\ k = NumRoundsOf(p)
      BY <1>7, <2>1
    <3>7. c[k].packs = c[k].packs \o m.packs
      BY <3>3, <3>5 DEF y
    <3>8. turn.i = k * PackingBatchSize /\ turn.inputData = c[k].rest
      BY <1>6, <3>4
    <3>9. QED
      BY <3>1, <3>4, <3>5, <3>6, <3>7, <3>8
  <2>2. CASE input # <<>>
    <3> DEFINE m == [rank |-> p, packs |-> packed, last |-> FALSE]
               turn == [part[p] EXCEPT !.i = i, !.inputData = more]
    <3>1. part' = [part EXCEPT ![p] = turn] /\ messages' = Append(messages, m)
      BY <1>8, <2>2
    <3> HIDE DEF input, i
    <3>2. turn \in Turn /\ turn.running = part[p].running /\ turn.i = i
          /\ turn.inputData = more
      BY <1>7, <1>9, <1>10 DEF Turn
    <3>3. m \in Messages /\ m.rank = p /\ m.packs = packed /\ m.last = FALSE
      BY <1>7 DEF Messages
    <3> HIDE DEF m, turn
    <3>4. k + 1 \in 0..NumRoundsOf(p) /\ k # NumRoundsOf(p)
      BY <1>7, <1>10, <2>2
    <3>5. /\ turn.i = (k + 1) * PackingBatchSize /\ turn.inputData = c[k + 1].rest
          /\ c[k + 1].packs = c[k].packs \o m.packs
      BY <1>7, <3>2, <3>3, <3>4
    <3>6. QED
      BY <1>1, <3>1, <3>2, <3>3, <3>4, <3>5
  <2>3. QED
    BY <2>1, <2>2
<1> HIDE DEF input, i
<1>12. /\ IndexTypes' /\ LastAfterOthers' /\ LastToCome'
       /\ finishedWorkers' = Cardinality(HeardToEnd')
  BY <1>1, <1>11, PutIndex
<1>13. part'[p] = turn /\ \A q \in Procs : q # p => part'[q] = part[q]
  BY <1>2, <1>11
<1>14. Progress(p)'
  <2>1. PICK g : /\ Reported(p, g)'
                 /\ g[Len(messages')] = h[N] \o m.packs
    <3>1. messages' = Append(messages, m) /\ collected' = collected
      BY <1>1, <1>11
    <3>2. messages \in Seq(Messages) /\ m \in Messages /\ Reported(p, h)
      BY <1>2, <1>4, <1>11
    <3>3. \E g : /\ Reported(p, g)'
                 /\ g[Len(messages')] = IF m.rank = p
                                        THEN h[Len(messages)] \o m.packs
                                        ELSE h[Len(messages)]
      BY <3>1, <3>2, PutHistory
    <3>4. m.rank = p
      BY <1>11
    <3>5. QED
      BY <3>3, <3>4
  <2>2. AtRound(p, c, g, n)'
    BY <1>3, <1>6, <1>11, <1>13, <2>1 DEF AtRound
  <2>3. QED
    BY <1>3, <1>4, <1>11, <2>1, <2>2 DEF Progress
<1>15. ASSUME NEW q \in Procs, q # p PROVE Progress(q)'
  <2>1. PICK d, e : /\ PartChain(q, d) /\ Reported(q, e)
                    /\ \E l \in 0..NumRoundsOf(q) : AtRound(q, d, e, l)
    BY DEF IndexInv, Progress
  <2>2. PICK l \in 0..NumRoundsOf(q) : AtRound(q, d, e, l)
    BY <2>1
  <2>3. PICK g : Reported(q, g)' /\ g[Len(messages')] = e[N]
    BY <1>1, <1>2, <1>11, <1>15, <2>1, PutHistory
  <2>4. AtRound(q, d, g, l)'
    BY <1>3, <1>13, <1>15, <2>2, <2>3 DEF AtRound
  <2>5. QED
    BY <1>3, <2>1, <2>3, <2>4 DEF Progress
<1>16. \A q \in Procs' : Progress(q)'
  BY <1>3, <1>14, <1>15
<1>17. packedIdx' = NotPacked' \/ packedIdx' = PacksOfParts'
  BY <1>1, <1>3 DEF IndexInv, NotPacked
<1>18. QED
  BY <1>12, <1>16, <1>17 DEF IndexInv

LEMMA IndexStepIndex == ASSUME IndexInv, IndexNext PROVE IndexInv'
BY ReceiveIndex, BroadcastIndex, CreateIndex DEF IndexNext

LEMMA InitIndex == Init => IndexInv
<1> SUFFICES ASSUME Init PROVE IndexInv
  OBVIOUS
<1>1. SetupInv /\ lengths = Lengths /\ IndexInit
  BY DEF Init, SetupInv
<1>2. lengths \in Seq(Nat)
  <2> DEFINE n == Len(dataset)
             f == [s \in 1..n |-> Lengths[s]]
  <2>1. n \in Nat
    BY <1>1, SetupTypes
  <2>2. Samples = 1..n /\ Lengths = [s \in Samples |-> dataset[s].length]
    BY DEF Samples, Lengths
  <2>3. Lengths = f
    BY <2>2
  <2>4. \A s \in 1..n : Lengths[s] \in Nat
    BY <1>1, <2>2, LengthsType
  <2> HIDE DEF n
  <2>5. f \in [1..n -> Nat]
    BY <2>4
  <2>6. QED
    BY <1>1, <2>1, <2>3, <2>5, SeqDef
<1>3. QED
  BY <1>1, <1>2, FreshIndex

LEMMA KillIndex == ASSUME IndexInv, KillAndResume PROVE IndexInv'
<1>1. lengths' = lengths /\ Procs' = Procs
  BY SameParts DEF KillAndResume
<1>2. (lengths \in Seq(Nat))'
  BY <1>1 DEF IndexInv, IndexTypes
<1>3. IndexInit'
  BY <1>1 DEF KillAndResume, IndexInit, NotPacked
<1>4. (lengths \in Seq(Nat))' /\ IndexInit' => IndexInv'
  BY FreshIndex, PTL
<1>5. QED
  BY <1>2, <1>3, <1>4

LEMMA IndexStep == IndexInv /\ [Next]_vars => IndexInv'
<1> SUFFICES ASSUME IndexInv, [Next]_vars PROVE IndexInv'
  OBVIOUS
<1>1. CASE Index
  BY <1>1, IndexStepIndex DEF Index
<1>2. CASE KillAndResume
  BY <1>2, KillIndex
<1>3. CASE UNCHANGED indexVars
  BY <1>3, IndexMoved
<1>4. ASSUME Next, ~Index, ~KillAndResume PROVE UNCHANGED indexVars
  BY <1>4 DEF Next, StartTraining, Pack, BeginEpoch, NothingLeft, TakeBatch,
     SkipGroup, SkipTooMuch, Scatter, StepShards, EndEpoch
<1>5. QED
  BY <1>1, <1>2, <1>3, <1>4 DEF vars

LEMMA IndexAlways == Spec => []IndexInv
BY InitIndex, IndexStep, PTL DEF Spec

\* Whatever order the packing processes of packing.py:77 report in, and
\* wherever the training is killed, the index that is broadcast is what packing
\* the parts one after another makes: every sample of the dataset is in it
\* once, and no pack is longer than packing_length unless a sample is.
THEOREM IndexCompleteAlways == Spec => []IndexComplete
BY IndexAlways, IndexFollows, PTL

-----------------------------------------------------------------------------
(***************************************************************************)
(* What the processes are given.  There are no more packs than samples,    *)
(* so that a permutation of either can be drawn; and every process has a   *)
(* batch of samples for every step that is asked for.                      *)
(***************************************************************************)
LEMMA PacksNumber ==
    ASSUME NEW n \in Nat, NEW packs \in Seq(Seq(1..n)), NEW X, EachOnce(packs, X),
           NEW length, Fit(packs, length)
    PROVE  Len(packs) <= n
<1> DEFINE m == Len(packs)
           S == 1..n
           f == [k \in 1..m |-> packs[k][1]]
<1>1. m \in Nat /\ DOMAIN packs = 1..m
  BY LenProperties
<1>2. ASSUME NEW k \in 1..m PROVE 1 \in DOMAIN packs[k] /\ packs[k][1] \in S
  <2> DEFINE p == packs[k]
  <2>1. p \in Seq(S) /\ p # <<>>
    BY <1>1, <1>2, ElementOfSeq DEF Fit, Fits
  <2> HIDE DEF p, S
  <2>2. Len(p) \in Nat /\ Len(p) # 0 /\ DOMAIN p = 1..Len(p)
    BY <2>1, LenProperties, EmptySeq
  <2>3. 1 \in 1..Len(p)
    BY <2>2
  <2>4. p[1] \in S
    BY <2>1, <2>3, ElementOfSeq
  <2>5. QED
    BY <2>2, <2>3, <2>4 DEF p
<1> HIDE DEF m
<1>3. f \in [1..m -> S]
  BY <1>2
<1>4. ASSUME NEW k \in 1..m, NEW l \in 1..m, f[k] = f[l] PROVE k = l
  BY <1>1, <1>2, <1>4 DEF EachOnce
<1>5. /\ IsFiniteSet(1..m) /\ Cardinality(1..m) = m
      /\ IsFiniteSet(S) /\ Cardinality(S) = n
  BY <1>1, FS_Interval
<1> HIDE DEF f, S
<1>6. ~(n < m)
  <2> DEFINE M == 1..m
  <2>1. f \in [M -> S] /\ \A k, l \in M : f[k] = f[l] => k = l
    BY <1>3, <1>4
  <2>2. IsFiniteSet(M) /\ Cardinality(M) = m
    BY <1>5
  <2> HIDE DEF M
  <2>3. SUFFICES ASSUME Cardinality(S) < Cardinality(M) PROVE FALSE
    BY <1>5, <2>2
  <2>4. \E x, y \in M : x # y /\ f[x] = f[y]
    BY <1>5, <2>1, <2>2, <2>3, FS_PigeonHole
  <2>5. QED
    BY <2>1, <2>4
<1>7. QED
  BY <1>1, <1>6 DEF m

LEMMA DealtType ==
    ASSUME NEW n \in Nat
    PROVE  DealtSamples(n) \in Nat /\ DealtSamples(n) <= n
<1>1. WorldSize \in Nat \ {0}
  BY WorldSizeType
<1>2. n \div WorldSize \in Nat /\ n % WorldSize \in Nat
      /\ n = (n \div WorldSize) * WorldSize + (n % WorldSize)
  BY <1>1, DivMod
<1> DEFINE d == (n \div WorldSize) * WorldSize
<1>3. d \in Nat
  BY <1>1, <1>2
<1>4. DealtSamples(n) = d
  BY DEF DealtSamples, TotalSamples
<1>5. n = d + (n % WorldSize)
  BY <1>2
<1> HIDE DEF d
<1>6. QED
  BY <1>2, <1>3, <1>4, <1>5

LEMMA OrderType ==
    ASSUME SetupInv, NEW n \in Nat, n <= Len(dataset), NEW s \in 0..MaxEpochs - 1
    PROVE  Order(n, s) \in Seq(1..n) /\ DealtSamples(n) <= Len(Order(n, s))
<1> DEFINE d == DealtSamples(n)
           order == Order(n, s)
<1>1. d \in Nat /\ d <= n
  BY DealtType
<1>2. Len(dataset) \in Nat
  BY SetupTypes
<1> HIDE DEF d
<1>3. \A k \in Nat : k <= Len(dataset) => Shuffled(s, k) \in [1..k -> 1..k]
  <2>1. \A k \in 0..Len(args.dataset) : Shuffled(s, k) \in [1..k -> 1..k]
    BY ShuffledAssumption DEF SetupInv
  <2>2. dataset = args.dataset
    BY DEF SetupInv
  <2>3. QED
    BY <1>2, <2>1, <2>2, SMTT(40)
<1>4. 1..d \subseteq 1..n
  BY <1>1
<1>5. order \in [1..n -> 1..n] \/ order \in [1..d -> 1..n]
  <2>1. CASE args.groupByLength
    <3>1. order = Shuffled(s, n)
      BY <2>1 DEF Order
    <3>2. QED
      BY <1>3, <3>1
  <2>2. CASE ~args.groupByLength /\ args.shuffle
    <3>1. order = Shuffled(s, d)
      BY <2>2 DEF Order, d
    <3>2. d \in Nat /\ d <= Len(dataset)
      BY <1>1, <1>2
    <3>3. Shuffled(s, d) \in [1..d -> 1..d]
      BY <1>3, <3>2
    <3> HIDE DEF order
    <3>4. QED
      BY <1>4, <3>1, <3>3
  <2>3. CASE ~args.groupByLength /\ ~args.shuffle
    <3>1. order = [k \in 1..d |-> k]
      BY <2>3 DEF Order, d
    <3>2. \A k \in 1..d : k \in 1..n
      BY <1>4
    <3> HIDE DEF order
    <3>3. order \in [1..d -> 1..n]
      BY <3>1, <3>2, Zenon
    <3>4. QED
      BY <3>3
  <2>4. QED
    BY <2>1, <2>2, <2>3
<1> HIDE DEF order
<1>6. \E l \in Nat : l >= d /\ order \in [1..l -> 1..n]
  BY <1>1, <1>5
<1>7. PICK l \in Nat : l >= d /\ order \in [1..l -> 1..n]
  BY <1>6
<1>8. order \in Seq(1..n) /\ Len(order) = l
  <2>1. order \in Seq(1..n)
    BY <1>7, SeqDef
  <2>2. DOMAIN order = 1..l
    BY <1>7
  <2>3. QED
    BY <1>7, <2>1, <2>2, LenProperties
<1>9. QED
  BY <1>7, <1>8 DEF order, d

LEMMA BatchType ==
    ASSUME NEW n \in Nat, NEW rank \in 0..WorldSize - 1,
           NEW size \in Nat \ {0}, NEW dropLast \in BOOLEAN,
           NEW S, NEW order \in Seq(S), DealtSamples(n) <= Len(order),
           NEW k \in 1..NumBatches(n, size, dropLast)
    PROVE  Batches(Share(order, rank), size, dropLast)[k] \in Seq(S)
<1> DEFINE share == Share(order, rank)
           m == ShareSize(Len(order), rank)
           batches == Batches(share, size, dropLast)
           upto == IF k * size <= Len(share) THEN k * size ELSE Len(share)
           last == IF dropLast THEN Len(share) \div size ELSE CeilDiv(Len(share), size)
<1>1. Len(order) \in Nat /\ DOMAIN order = 1..Len(order) /\ WorldSize \in Nat \ {0}
  BY LenProperties, WorldSizeType
<1>2. m \in Nat
  BY <1>1, ShareSizeType
<1>3. \A j \in 1..m : share[j] = order[(j - 1) * WorldSize + rank + 1]
  BY DEF Share
<1>4. Len(share) = m
  BY <1>2 DEF Share
<1> HIDE DEF share
<1>5. ASSUME NEW j \in 1..m PROVE share[j] \in S
  <2>1. j \in Nat \ {0} /\ j <= m
    BY <1>2
  <2>2. (j - 1) * WorldSize + rank + 1 <= Len(order)
    <3> HIDE DEF m
    <3>1. QED
      BY <1>1, <2>1, WithinShare DEF m
  <2>3. (j - 1) * WorldSize \in Nat
    BY <1>1, <2>1
  <2> DEFINE a == (j - 1) * WorldSize
  <2>4. a + rank + 1 \in 1..Len(order)
    <3>1. a \in Nat /\ a + rank + 1 <= Len(order) /\ rank \in Nat
      BY <1>1, <2>2, <2>3
    <3> HIDE DEF a
    <3>2. QED
      BY <1>1, <3>1
  <2>5. order[a + rank + 1] \in S
    BY <2>4, ElementOfSeq
  <2>6. QED
    BY <1>3, <2>5
<1> HIDE DEF m
<1>6. NumBatches(n, size, dropLast) <= Len(batches)
  BY EnoughBatches DEF share
<1>7. batches = [j \in 1..last |->
                   SubSeq(share, (j - 1) * size + 1,
                          IF j * size <= Len(share) THEN j * size ELSE Len(share))]
  BY DEF Batches
<1>8. last \in Nat
  <2>1. m \div size \in Nat /\ CeilDiv(m, size) \in Nat
    BY <1>2, DivMod, CeilDivCovers
  <2>2. QED
    BY <1>4, <2>1
<1>9. NumBatches(n, size, dropLast) \in Nat
  <2>1. TotalSamples(n) \in Nat
    BY <1>1, DivMod DEF TotalSamples
  <2>2. QED
    BY <2>1, DivMod, CeilDivCovers DEF NumBatches
<1> HIDE DEF last
<1>10. k \in 1..last
  <2>1. Len(batches) = last
    BY <1>7, <1>8
  <2> HIDE DEF batches
  <2>2. QED
    BY <1>6, <1>8, <1>9, <2>1
<1>11. batches[k] = SubSeq(share, (k - 1) * size + 1, upto)
  BY <1>7, <1>10
<1>12. (k - 1) * size \in Nat /\ k * size \in Nat
  BY <1>8, <1>10
<1> DEFINE a == (k - 1) * size
<1>13. a + 1 \in Int /\ upto \in Int /\ \A j \in (a + 1)..upto : j \in 1..m
  BY <1>2, <1>4, <1>12
<1> HIDE DEF a, upto
<1>14. SubSeq(share, a + 1, upto) \in Seq(S)
  BY <1>5, <1>13, SubSeqProperties
<1>15. QED
  BY <1>11, <1>14 DEF a, share

LEMMA FlattenSeqType ==
    ASSUME NEW S, NEW n \in Nat, NEW parts \in [1..n -> Seq(S)]
    PROVE  FlattenSeq(parts) \in Seq(S)
<1>1. CASE n = 0
  <2>1. parts = <<>> /\ Len(parts) = 0
    BY <1>1
  <2>2. FlattenSeq(parts) = <<>>
    BY <2>1 DEF FlattenSeq
  <2>3. QED
    BY <2>2
<1>2. CASE n # 0
  BY <1>2, FlattenType
<1>3. QED
  BY <1>1, <1>2

\* Each process has samples for each step of an epoch of a dataset that is
\* dealt.
LEMMA ShardedGroupType ==
    ASSUME SetupInv, NEW items \in Seq(Seq(Samples)), Len(items) <= Len(dataset),
           NEW s \in 0..MaxEpochs - 1,
           NEW k \in 1..NumBatches(Len(items), args.batchSize, args.dropLast)
    PROVE  ShardedGroup(k, items, s) \in [Processes -> Seq(Samples)]
<1> DEFINE n == Len(items)
           Group(p) == LET batch == BatchesOf(p, n, s)[k]
                       IN  FlattenSeq([j \in DOMAIN batch |-> items[batch[j]]])
<1>1. n \in Nat /\ args.batchSize \in Nat \ {0} /\ args.dropLast \in BOOLEAN
  <2>1. args.dropLast \in BOOLEAN
    BY DataFeedingAssumption DEF SetupInv, SetupRecords
  <2>2. QED
    BY <2>1, LenProperties, SetupTypes
<1>2. Order(n, s) \in Seq(1..n) /\ DealtSamples(n) <= Len(Order(n, s))
  BY <1>1, OrderType
<1>3. ASSUME NEW p \in Processes PROVE Group(p) \in Seq(Samples)
  <2> DEFINE batch == BatchesOf(p, n, s)[k]
             parts == [j \in DOMAIN batch |-> items[batch[j]]]
  <2>1. batch \in Seq(1..n)
    <3>1. Rank(p) \in 0..WorldSize - 1
      BY RankType
    <3> HIDE DEF n
    <3>2. Batches(Share(Order(n, s), Rank(p)), args.batchSize, args.dropLast)[k]
            \in Seq(1..n)
      BY <1>1, <1>2, <3>1, BatchType DEF n
    <3>3. QED
      BY <3>2 DEF BatchesOf
  <2> HIDE DEF batch
  <2>2. /\ Len(batch) \in Nat /\ DOMAIN batch = 1..Len(batch)
        /\ \A j \in 1..Len(batch) : batch[j] \in 1..n
    BY <2>1, LenProperties, ElementOfSeq
  <2>3. parts \in [1..Len(batch) -> Seq(Samples)]
    BY <2>2, ElementOfSeq
  <2> HIDE DEF parts
  <2>4. FlattenSeq(parts) \in Seq(Samples)
    BY <2>2, <2>3, FlattenSeqType
  <2>5. QED
    BY <2>4 DEF parts, batch
<1>4. ShardedGroup(k, items, s) = [p \in Processes |-> Group(p)]
  BY DEF ShardedGroup
<1> HIDE DEF Group
<1>5. QED
  BY <1>3, <1>4

-----------------------------------------------------------------------------
(***************************************************************************)
(* Where the training is.  An epoch has StepsPerEpoch steps; of a dataset  *)
(* that is dealt, as many steps have been trained as the epochs before and *)
(* the place in this one say, also after it was killed and resumed.        *)
(***************************************************************************)
StepsPerEpoch == StepsOf(Len(AllItems))

Trained == [epoch : 0..MaxEpochs - 1, group : [Processes -> Seq(Samples)]]

PipelineTypes ==
    /\ finished \in BOOLEAN /\ res \in [1..PackingInterval -> Samples \cup {0}]
    /\ loaded \in Seq(Packs) /\ Len(loaded) <= Prefetch

LoopTypes ==
    /\ pc \in {"load", "epoch", "skip", "train", "over", "failed"}
    /\ epoch \in 0..MaxEpochs /\ (pc \in {"skip", "train"} => epoch < MaxEpochs)
    /\ step \in Nat /\ skip \in Nat /\ seed \in 0..MaxEpochs - 1
    /\ group \in Seq(Seq(Samples)) /\ Len(group) <= NumProcesses
    /\ life \in 1..MaxLives /\ astray \in BOOLEAN
    /\ lengths = Lengths

HistoryTypes ==
    /\ trained \in Seq(Trained) /\ checkpoint \in Seq(Trained)
    /\ Prefix(checkpoint, trained)

DealtPlace ==
    ~args.streaming =>
        /\ pc # "skip"
        /\ pc # "load" /\ args.packing => packedIdx # NotPacked
        /\ Len(trained) <= MaxEpochs * StepsPerEpoch
        /\ pc \in {"load", "epoch"} =>
              /\ Len(trained) = epoch * StepsPerEpoch + skip
              /\ skip = 0 \/ skip < StepsPerEpoch
        /\ pc = "train" =>
              /\ Len(trained) = epoch * StepsPerEpoch + step
              /\ step <= StepsPerEpoch

FeedInv == PipelineTypes /\ LoopTypes /\ HistoryTypes /\ DealtPlace

-----------------------------------------------------------------------------
LEMMA SameItems ==
    ASSUME UNCHANGED <<dataset, lengths, args>>
    PROVE  /\ AllItems' = AllItems /\ StepsPerEpoch' = StepsPerEpoch
           /\ Samples' = Samples /\ Packs' = Packs /\ Trained' = Trained
           /\ Lengths' = Lengths
<1>1. /\ Samples' = Samples /\ Packs' = Packs /\ Trained' = Trained
      /\ Lengths' = Lengths
  BY DEF Samples, Packs, Trained, Lengths
<1>2. \A s : Encoded(s)' = Encoded(s)
  BY DEF Encoded, Encodable, Samples
<1>3. Rounds' = Rounds
  BY <1>2 DEF Rounds
<1>4. PacksOfDataset' = PacksOfDataset
  BY <1>1, <1>3 DEF PacksOfDataset
<1>5. PacksOfParts' = PacksOfParts
  BY SameParts
<1>6. AllItems' = AllItems
  BY <1>1, <1>4, <1>5 DEF AllItems
<1>7. StepsPerEpoch' = StepsPerEpoch
  BY <1>6 DEF StepsPerEpoch, StepsOf
<1>8. QED
  BY <1>1, <1>6, <1>7

\* One pack for each sample.
LEMMA SinglePacks ==
    ASSUME SetupInv
    PROVE  /\ [i \in Samples |-> <<i>>] \in Seq(Seq(Samples))
           /\ Len([i \in Samples |-> <<i>>]) = Len(dataset)
<1> DEFINE n == Len(dataset)
           A == Seq(Samples)
           f == [i \in Samples |-> <<i>>]
<1>1. n \in Nat /\ Samples = 1..n
  BY SetupTypes DEF Samples
<1>2. \A i \in Samples : <<i>> \in A
  OBVIOUS
<1> HIDE DEF n, A
<1>3. f \in [1..n -> A] /\ DOMAIN f = 1..n
  BY <1>1, <1>2
<1> HIDE DEF f
<1>4. f \in Seq(A)
  BY <1>1, <1>3, SeqDef
<1>5. Len(f) = n
  BY <1>1, <1>3, <1>4, LenProperties
<1>6. QED
  BY <1>4, <1>5 DEF f, n, A

LEMMA AllItemsType ==
    ASSUME SetupInv, lengths \in Seq(Nat), lengths = Lengths
    PROVE  /\ AllItems \in Seq(Seq(Samples))
           /\ ~args.streaming => Len(AllItems) <= Len(dataset)
           /\ StepsPerEpoch \in Nat
<1>1. Len(lengths) = Len(dataset) /\ Samples = 1..Len(lengths) /\ Len(dataset) \in Nat
  <2>1. DOMAIN lengths = 1..Len(lengths) /\ Len(lengths) \in Nat
    BY LenProperties
  <2>2. DOMAIN Lengths = 1..Len(dataset) /\ Len(dataset) \in Nat
    BY SetupTypes DEF Lengths, Samples
  <2>3. Len(lengths) = Len(dataset)
    BY <2>1, <2>2
  <2>4. QED
    BY <2>2, <2>3 DEF Samples
<1>2. PacksOfDataset \in Seq(Seq(Samples))
  <2>1. PICK c : RoundsChain(c)
    BY ChainExists
  <2>2. PacksOfDataset = c[NumRounds].packs /\ NumRounds \in 0..NumRounds
    BY <2>1, ChainEnd, RoundNumbers
  <2>3. QED
    BY <2>1, <2>2 DEF RoundsChain, States
<1>3. PacksOfParts \in Seq(Seq(Samples)) /\ Len(PacksOfParts) <= Len(dataset)
  <2>1. /\ PacksOfParts \in Seq(Seq(1..Len(lengths)))
        /\ EachOnce(PacksOfParts, 1..Len(lengths))
        /\ Fit(PacksOfParts, lengths)
    BY PartsOnce
  <2>2. Len(PacksOfParts) <= Len(lengths)
    BY <1>1, <2>1, PacksNumber
  <2>3. QED
    BY <1>1, <2>1, <2>2
<1>4. /\ [i \in Samples |-> <<i>>] \in Seq(Seq(Samples))
      /\ Len([i \in Samples |-> <<i>>]) = Len(dataset)
  BY SinglePacks
<1>5. /\ AllItems \in Seq(Seq(Samples))
      /\ ~args.streaming => Len(AllItems) <= Len(dataset)
  <2>1. CASE args.streaming
    BY <1>2, <2>1 DEF AllItems
  <2>2. CASE ~args.streaming /\ args.packing
    BY <1>3, <2>2 DEF AllItems
  <2>3. CASE ~args.streaming /\ ~args.packing
    <3>1. AllItems = [i \in Samples |-> <<i>>]
      BY <2>3 DEF AllItems
    <3> DEFINE single == [i \in Samples |-> <<i>>]
    <3>2. single \in Seq(Seq(Samples)) /\ Len(single) = Len(dataset)
      BY <1>4
    <3> HIDE DEF single
    <3>3. QED
      BY <1>1, <3>1, <3>2 DEF single
  <2>4. QED
    BY <2>1, <2>2, <2>3
<1>6. StepsPerEpoch \in Nat
  <2> DEFINE m == Len(AllItems)
  <2>1. m \in Nat /\ args.batchSize \in Nat \ {0}
    BY <1>5, LenProperties, SetupTypes
  <2>2. NumProcesses \in Nat \ {0} /\ WorldSize \in Nat \ {0}
    BY ShardingAssumption, WorldSizeType
  <2> HIDE DEF m
  <2>3. CeilDiv(m, args.batchSize) \div NumProcesses \in Nat
    BY <2>1, <2>2, DivMod, CeilDivCovers
  <2>4. NumBatches(m, args.batchSize, args.dropLast) \in Nat
    <3>1. TotalSamples(m) \in Nat
      BY <2>1, <2>2, DivMod DEF TotalSamples
    <3>2. QED
      BY <2>1, <3>1, DivMod, CeilDivCovers DEF NumBatches
  <2>5. StepsOf(m) \in Nat
    BY <2>3, <2>4 DEF StepsOf
  <2>6. QED
    BY <2>5 DEF StepsPerEpoch, m
<1>7. QED
  BY <1>5, <1>6

\* What the data loader of a dataset that is dealt indexes.
LEMMA RowsAre ==
    ASSUME IndexInv, ~args.streaming, args.packing => packedIdx # NotPacked
    PROVE  Rows = AllItems /\ StepsInEpoch = StepsPerEpoch
<1>1. Rows = AllItems
  BY DEF IndexInv, Rows, AllItems
<1>2. QED
  BY <1>1 DEF StepsInEpoch, StepsPerEpoch, StepsOf

-----------------------------------------------------------------------------
\* A batch is taken from the front of what the data loader has.
BatchLength == IF Len(loaded) < args.batchSize THEN Len(loaded) ELSE args.batchSize

LEMMA TakenBatch ==
    ASSUME SetupInv, PipelineTypes, CanTakeBatch
    PROVE  /\ BatchLength \in 1..Len(loaded) /\ Len(loaded) \in Nat
           /\ SubSeq(loaded, BatchLength + 1, Len(loaded)) \in Seq(Packs)
           /\ Len(SubSeq(loaded, BatchLength + 1, Len(loaded)))
                = Len(loaded) - BatchLength
           /\ FlattenSeq(SubSeq(loaded, 1, BatchLength)) \in Seq(Samples)
<1> DEFINE n == Len(loaded)
           b == BatchLength
<1>1. loaded \in Seq(Packs) /\ n \in Nat /\ (n = 0 => loaded = <<>>)
  BY LenProperties, EmptySeq DEF PipelineTypes
<1>2. args.batchSize \in Nat \ {0}
  BY SetupTypes
<1>3. n # 0
  <2>1. <<>> \in Seq(Packs) /\ Len(<<>>) = 0
    OBVIOUS
  <2>2. n >= args.batchSize \/ loaded # <<>>
    BY DEF CanTakeBatch
  <2>3. QED
    BY <1>1, <1>2, <2>2
<1>4. b \in 1..n
  BY <1>1, <1>2, <1>3 DEF BatchLength
<1> HIDE DEF n, b
<1>5. \A j \in 1..n : loaded[j] \in Packs
  BY <1>1, LenProperties DEF n
<1>6. /\ SubSeq(loaded, b + 1, n) \in Seq(Packs)
      /\ Len(SubSeq(loaded, b + 1, n)) = n - b
  <2>1. b + 1 \in Int /\ n \in Int /\ \A j \in (b + 1)..n : loaded[j] \in Packs
    BY <1>1, <1>4, <1>5
  <2>2. /\ SubSeq(loaded, b + 1, n) \in Seq(Packs)
        /\ Len(SubSeq(loaded, b + 1, n)) = IF b + 1 <= n THEN n - (b + 1) + 1 ELSE 0
    BY <2>1, SubSeqProperties
  <2>3. (IF b + 1 <= n THEN n - (b + 1) + 1 ELSE 0) = n - b
    BY <1>1, <1>4
  <2>4. QED
    BY <2>2, <2>3
<1>7. FlattenSeq(SubSeq(loaded, 1, b)) \in Seq(Samples)
  <2> DEFINE first == SubSeq(loaded, 1, b)
  <2>1. 1 \in Int /\ b \in Int /\ \A j \in 1..b : loaded[j] \in Packs
    BY <1>1, <1>4, <1>5
  <2>2. first \in Seq(Packs)
    BY <2>1, SubSeqProperties
  <2> HIDE DEF first
  <2>3. Len(first) \in Nat /\ first \in [1..Len(first) -> Seq(Samples)]
    BY <2>2, LenProperties DEF Packs
  <2>4. FlattenSeq(first) \in Seq(Samples)
    BY <2>3, FlattenSeqType
  <2>5. QED
    BY <2>4 DEF first
<1>8. QED
  BY <1>1, <1>4, <1>6, <1>7 DEF n, b

LEMMA TakeBatchIs ==
    ASSUME TakeBatch
    PROVE  /\ pc \in {"skip", "train"} /\ args.streaming /\ CanTakeBatch
           /\ group' = Append(group, FlattenSeq(SubSeq(loaded, 1, BatchLength)))
           /\ loaded' = SubSeq(loaded, BatchLength + 1, Len(loaded))
           /\ UNCHANGED <<setupVars, phase, taken, roundVars, workerVars, ready,
                          yielded, indexVars, args, pc, epoch, step, skip, seed,
                          trained, checkpoint, life, astray>>
BY DEF TakeBatch, BatchLength

-----------------------------------------------------------------------------
LEMMA NextSetup ==
    ASSUME [Next]_vars PROVE UNCHANGED <<dataset, strict, lengths, args>>
<1>1. CASE Index
  <2>1. UNCHANGED lengths
    BY <1>1 DEF Index, IndexNext, Receive, Broadcast, CreatePackedIdx
  <2>2. QED
    BY <1>1, <2>1 DEF Index, packingVars, loopVars, setupVars
<1>2. CASE Pack
  <2>1. UNCHANGED <<dataset, strict>>
    BY <1>2 DEF Pack, PackingNext, Iter, PutDataInQueue, StopPutting,
       FetchDataOutQueue, MatchGroup, Yield, NextRound, GetItem, Processor, setupVars
  <2>2. QED
    BY <1>2, <2>1 DEF Pack, indexVars, loopVars
<1>3. CASE Next /\ ~Index /\ ~Pack
  BY <1>3 DEF Next, StartTraining, BeginEpoch, NothingLeft, TakeBatch, SkipGroup,
     SkipTooMuch, Scatter, StepShards, Train, EndEpoch, KillAndResume, packingVars,
     setupVars, indexVars
<1>4. CASE UNCHANGED vars
  BY <1>4 DEF vars, packingVars, setupVars, indexVars, loopVars
<1>5. QED
  BY <1>1, <1>2, <1>3, <1>4

LEMMA PipelineStep ==
    ASSUME PacksInv, PipelineTypes, [Next]_vars PROVE PipelineTypes'
<1>1. Samples' = Samples /\ Packs' = Packs
  BY NextSetup DEF Samples, Packs
<1>2. SetupInv /\ RoundType /\ PacksType
  BY DEF PacksInv, RoundInv
<1>3. CASE UNCHANGED <<finished, res, loaded>>
  BY <1>1, <1>3 DEF PipelineTypes
<1>4. CASE EndEpoch \/ KillAndResume
  <2>1. finished' = FALSE /\ res' = NoRes /\ loaded' = <<>>
    BY <1>4 DEF EndEpoch, KillAndResume
  <2>2. NoRes \in [1..PackingInterval -> Samples \cup {0}]
    BY DEF NoRes
  <2> DEFINE none == <<>>
  <2>3. none \in Seq(Packs) /\ Len(none) <= Prefetch
    BY PackingAssumption
  <2> HIDE DEF none
  <2>4. QED
    BY <1>1, <2>1, <2>2, <2>3 DEF PipelineTypes, none
<1>5. CASE TakeBatch
  <2>1. /\ SubSeq(loaded, BatchLength + 1, Len(loaded)) \in Seq(Packs)
        /\ Len(SubSeq(loaded, BatchLength + 1, Len(loaded))) = Len(loaded) - BatchLength
        /\ BatchLength \in 1..Len(loaded) /\ Len(loaded) \in Nat
    BY <1>2, <1>5, TakenBatch, TakeBatchIs
  <2>2. /\ loaded' = SubSeq(loaded, BatchLength + 1, Len(loaded))
        /\ UNCHANGED <<finished, res>>
    BY <1>5, TakeBatchIs DEF roundVars
  <2>3. loaded' \in Seq(Packs) /\ Len(loaded') = Len(loaded) - BatchLength
    BY <2>1, <2>2
  <2>4. Len(loaded') <= Prefetch
    BY <2>1, <2>3, PackingAssumption DEF PipelineTypes
  <2>5. QED
    BY <1>1, <2>2, <2>3, <2>4 DEF PipelineTypes
<1>6. CASE StopPutting
  <2>1. finished' = (put # PackingInterval) /\ res' = NoRes /\ UNCHANGED loaded
    BY <1>6 DEF StopPutting, packVars
  <2>2. NoRes \in [1..PackingInterval -> Samples \cup {0}]
    BY DEF NoRes
  <2>3. QED
    BY <1>1, <2>1, <2>2 DEF PipelineTypes
<1>7. CASE FetchDataOutQueue
  <2> DEFINE item == Head(outQueue)
  <2>1. /\ outQueue # <<>> /\ UNCHANGED <<finished, loaded>>
        /\ res' = IF item.encoded THEN [res EXCEPT ![item.i] = item.sample] ELSE res
    BY <1>7 DEF FetchDataOutQueue, packVars, Slot
  <2>2. item \in Results
    BY <1>2, <2>1, HeadTailProperties DEF RoundType
  <2> HIDE DEF item
  <2>3. item.i \in 1..PackingInterval /\ item.sample \in Samples
    BY <2>2 DEF Results
  <2>4. res' \in [1..PackingInterval -> Samples \cup {0}]
    BY <2>1, <2>3 DEF PipelineTypes
  <2>5. QED
    BY <1>1, <2>1, <2>4 DEF PipelineTypes
<1>8. CASE Yield
  <2> DEFINE first == Head(ready)
  <2>1. /\ ready # <<>> /\ Len(loaded) < Prefetch
        /\ loaded' = Append(loaded, first) /\ UNCHANGED <<finished, res>>
    BY <1>8 DEF Yield, roundVars
  <2>2. first \in Packs
    BY <1>2, <2>1, HeadTailProperties DEF PacksType
  <2> HIDE DEF first
  <2>3. loaded' \in Seq(Packs) /\ Len(loaded') = Len(loaded) + 1 /\ Len(loaded) \in Nat
    BY <2>1, <2>2, AppendProperties, LenProperties DEF PipelineTypes
  <2>4. Len(loaded') <= Prefetch
    BY <2>1, <2>3, PackingAssumption
  <2>5. QED
    BY <1>1, <2>1, <2>3, <2>4 DEF PipelineTypes
<1>9. ASSUME Pack, ~StopPutting, ~FetchDataOutQueue, ~Yield
      PROVE  UNCHANGED <<finished, res, loaded>>
  BY <1>9 DEF Pack, PackingNext, Iter, PutDataInQueue, MatchGroup, NextRound, GetItem,
     Processor, roundVars, packVars
<1>10. ASSUME Next, ~Pack, ~TakeBatch, ~EndEpoch, ~KillAndResume
       PROVE  UNCHANGED <<finished, res, loaded>>
  BY <1>10 DEF Next, Index, StartTraining, BeginEpoch, NothingLeft, SkipGroup,
     SkipTooMuch, Scatter, StepShards, packingVars, roundVars, packVars
<1>11. CASE UNCHANGED vars
  BY <1>3, <1>11 DEF vars, packingVars, roundVars, packVars
<1>12. QED
  BY <1>3, <1>4, <1>5, <1>6, <1>7, <1>8, <1>9, <1>10, <1>11

-----------------------------------------------------------------------------
LEMMA FeedContext ==
    ASSUME PacksInv, IndexInv, FeedInv
    PROVE  /\ SetupInv /\ lengths \in Seq(Nat) /\ lengths = Lengths
           /\ StepsPerEpoch \in Nat /\ AllItems \in Seq(Seq(Samples))
           /\ Len(trained) \in Nat /\ Len(checkpoint) \in Nat
           /\ Len(checkpoint) <= Len(trained) /\ Len(group) \in Nat
           /\ epoch \in Nat /\ step \in Nat /\ skip \in Nat
           /\ MaxEpochs \in Nat \ {0} /\ NumProcesses \in Nat \ {0}
           /\ args.batchSize \in Nat \ {0} /\ args.streaming \in BOOLEAN
<1>1. SetupInv /\ lengths \in Seq(Nat) /\ lengths = Lengths
  BY DEF PacksInv, RoundInv, IndexInv, IndexTypes, FeedInv, LoopTypes
<1>2. StepsPerEpoch \in Nat /\ AllItems \in Seq(Seq(Samples))
  BY <1>1, AllItemsType
<1>3. /\ Len(trained) \in Nat /\ Len(checkpoint) \in Nat /\ Len(group) \in Nat
      /\ Len(checkpoint) <= Len(trained)
  BY LenProperties DEF FeedInv, LoopTypes, HistoryTypes, Prefix
<1>4. MaxEpochs \in Nat \ {0} /\ NumProcesses \in Nat \ {0}
  BY DataFeedingAssumption, ShardingAssumption
<1>5. epoch \in Nat /\ step \in Nat /\ skip \in Nat
  BY <1>4 DEF FeedInv, LoopTypes
<1>6. QED
  BY <1>1, <1>2, <1>3, <1>4, <1>5, SetupTypes

LEMMA SamePlace ==
    ASSUME LoopTypes, HistoryTypes, DealtPlace,
           UNCHANGED <<dataset, lengths, loopVars>>,
           packedIdx' = packedIdx \/ pc = "load"
    PROVE  LoopTypes' /\ HistoryTypes' /\ DealtPlace'
<1>1. UNCHANGED <<args, pc, epoch, step, skip, seed, group, trained, checkpoint,
                  life, astray>>
  BY DEF loopVars
<1>2. /\ StepsPerEpoch' = StepsPerEpoch /\ Samples' = Samples
      /\ Trained' = Trained /\ Lengths' = Lengths
  BY <1>1, SameItems
<1>3. LoopTypes'
  BY <1>1, <1>2 DEF LoopTypes
<1>4. HistoryTypes'
  BY <1>1, <1>2 DEF HistoryTypes, Prefix
<1>5. DealtPlace'
  BY <1>1, <1>2 DEF DealtPlace, NotPacked
<1>6. QED
  BY <1>3, <1>4, <1>5

\* One step more has been trained.
LEMMA TrainTypes ==
    ASSUME HistoryTypes, NEW t \in Trained, trained' = Append(trained, t),
           checkpoint' \in {checkpoint, trained'}, Trained' = Trained
    PROVE  HistoryTypes' /\ Len(trained') = Len(trained) + 1
<1>1. /\ trained \in Seq(Trained) /\ checkpoint \in Seq(Trained)
      /\ Prefix(checkpoint, trained)
  BY DEF HistoryTypes
<1>2. trained' \in Seq(Trained) /\ Len(trained') = Len(trained) + 1
  BY <1>1, AppendProperties
<1>3. Prefix(checkpoint, trained') /\ Prefix(trained', trained')
  <2>1. Prefix(checkpoint, Append(trained, t))
    BY <1>1, PrefixAppend
  <2>2. Len(trained') \in Nat
    BY <1>2, LenProperties
  <2>3. Prefix(trained', trained')
    BY <2>2 DEF Prefix
  <2>4. QED
    BY <2>1, <2>3
<1>4. checkpoint' \in Seq(Trained) /\ Prefix(checkpoint', trained')
  BY <1>1, <1>2, <1>3
<1>5. Prefix(checkpoint, trained)' <=> Prefix(checkpoint', trained')
  BY DEF Prefix
<1>6. QED
  BY <1>2, <1>4, <1>5 DEF HistoryTypes

\* Every process has a batch in a step of a dataset that is dealt.
LEMMA DealtGroup ==
    ASSUME PacksInv, IndexInv, FeedInv, StepShards
    PROVE  ShardedGroup(step + 1, Rows, seed) \in [Processes -> Seq(Samples)]
<1> DEFINE n == StepsPerEpoch
           samples == ShardedGroup(step + 1, Rows, seed)
<1>1. pc = "train" /\ ~args.streaming /\ step < StepsInEpoch
  BY DEF StepShards
<1>2. /\ SetupInv /\ n \in Nat /\ step \in Nat
      /\ AllItems \in Seq(Seq(Samples)) /\ Len(AllItems) <= Len(dataset)
  BY <1>1, FeedContext, AllItemsType
<1>3. LoopTypes /\ HistoryTypes /\ DealtPlace
  BY DEF FeedInv
<1>4. Rows = AllItems /\ StepsInEpoch = n
  BY <1>1, <1>3, RowsAre DEF DealtPlace
<1>5. samples \in [Processes -> Seq(Samples)]
  <2>1. step + 1 \in 1..NumBatches(Len(AllItems), args.batchSize, args.dropLast)
    <3>1. NumBatches(Len(AllItems), args.batchSize, args.dropLast) = n
      BY <1>1 DEF StepsPerEpoch, StepsOf
    <3> HIDE DEF n
    <3>2. step + 1 \in 1..n
      BY <1>1, <1>2, <1>4
    <3>3. QED
      BY <3>1, <3>2
  <2>2. seed \in 0..MaxEpochs - 1
    BY <1>3 DEF LoopTypes
  <2>3. ShardedGroup(step + 1, AllItems, seed) \in [Processes -> Seq(Samples)]
    BY <1>2, <2>1, <2>2, ShardedGroupType
  <2>4. QED
    BY <1>4, <2>3
<1>6. QED
  BY <1>5

LEMMA StepShardsFeed ==
    ASSUME PacksInv, IndexInv, FeedInv, StepShards
    PROVE  LoopTypes' /\ HistoryTypes' /\ DealtPlace'
<1> DEFINE n == StepsPerEpoch
           samples == ShardedGroup(step + 1, Rows, seed)
           t == [epoch |-> epoch, group |-> samples]
           a == epoch * n
<1>1. /\ pc = "train" /\ pc' \in {"train", "over"} /\ ~args.streaming
      /\ step < StepsInEpoch /\ step' = step + 1
      /\ trained' = Append(trained, t) /\ checkpoint' \in {checkpoint, trained'}
      /\ pc' = pc
      /\ UNCHANGED <<dataset, lengths, packedIdx, args, epoch, skip, seed, group,
                     life, astray>>
  BY DEF StepShards, Train, packingVars, indexVars, setupVars
<1>2. /\ SetupInv /\ n \in Nat /\ Len(trained) \in Nat /\ step \in Nat
      /\ epoch \in Nat /\ MaxEpochs \in Nat
      /\ AllItems \in Seq(Seq(Samples)) /\ Len(AllItems) <= Len(dataset)
  BY <1>1, FeedContext, AllItemsType
<1>3. LoopTypes /\ HistoryTypes /\ DealtPlace
  BY DEF FeedInv
<1>4. /\ StepsPerEpoch' = StepsPerEpoch /\ Samples' = Samples
      /\ Trained' = Trained /\ Lengths' = Lengths
  BY <1>1, SameItems
<1>5. Rows = AllItems /\ StepsInEpoch = n
  BY <1>1, <1>3, RowsAre DEF DealtPlace
<1>6. samples \in [Processes -> Seq(Samples)]
  BY DealtGroup
<1>7. epoch \in 0..MaxEpochs - 1
  BY <1>1, <1>2, <1>3 DEF LoopTypes
<1> HIDE DEF samples
<1>8. t \in Trained
  BY <1>6, <1>7 DEF Trained
<1> HIDE DEF t
<1>9. HistoryTypes' /\ Len(trained') = Len(trained) + 1
  BY <1>1, <1>3, <1>4, <1>8, TrainTypes
<1>10. LoopTypes'
  BY <1>1, <1>2, <1>3, <1>4 DEF LoopTypes
<1>11. DealtPlace'
  <2>1. Len(trained) = a + step /\ a \in Nat
    BY <1>1, <1>2, <1>3 DEF DealtPlace
  <2>2. (epoch + 1) * n <= MaxEpochs * n
    <3>1. epoch + 1 \in Nat /\ epoch + 1 <= MaxEpochs
      BY <1>2, <1>7
    <3> HIDE DEF n
    <3>2. QED
      BY <1>2, <3>1, TimesMonotone
  <2>3. (epoch + 1) * n = a + n /\ MaxEpochs * n \in Nat
    BY <1>2
  <2> DEFINE b == MaxEpochs * n
  <2> HIDE DEF a, b, n
  <2>4. Len(trained') = a + (step + 1) /\ step + 1 <= n /\ Len(trained') <= b
    <3> DEFINE before == Len(trained)
               after == Len(trained')
               c == (epoch + 1) * n
               d == MaxEpochs * n
    <3>1. before = a + step /\ after = before + 1 /\ c <= d /\ c = a + n
      BY <1>9, <2>1, <2>2, <2>3
    <3>2. step \in Nat /\ n \in Nat /\ step < n /\ a \in Nat /\ d \in Nat
      BY <1>1, <1>2, <1>5, <2>1, <2>3
    <3> HIDE DEF before, after, c, d
    <3>3. after = a + (step + 1) /\ step + 1 <= n /\ after <= d
      BY <3>1, <3>2
    <3>4. QED
      BY <3>3 DEF after, d, b
  <2>5. /\ args' = args /\ pc' = "train" /\ packedIdx' = packedIdx
        /\ epoch' = epoch /\ step' = step + 1
    BY <1>1
  <2>6. packedIdx # NotPacked \/ ~args.packing
    BY <1>1, <1>3 DEF DealtPlace
  <2>7. QED
    BY <1>4, <2>4, <2>5, <2>6 DEF DealtPlace, NotPacked, a, b, n
<1>12. QED
  BY <1>9, <1>10, <1>11

LEMMA ScatterFeed ==
    ASSUME PacksInv, IndexInv, FeedInv, Scatter
    PROVE  LoopTypes' /\ HistoryTypes' /\ DealtPlace'
<1> DEFINE samples == [p \in Processes |-> group[p + 1]]
           t == [epoch |-> epoch, group |-> samples]
           none == <<>>
<1>1. /\ pc = "train" /\ pc' \in {"train", "over"} /\ args.streaming
      /\ Len(group) = NumProcesses /\ step' = step + 1 /\ group' = none
      /\ trained' = Append(trained, t) /\ checkpoint' \in {checkpoint, trained'}
      /\ UNCHANGED <<dataset, lengths, packedIdx, args, epoch, skip, seed,
                     life, astray>>
  BY DEF Scatter, Train, packingVars, indexVars, setupVars
<1>2. step \in Nat /\ epoch \in Nat /\ MaxEpochs \in Nat /\ NumProcesses \in Nat \ {0}
  BY FeedContext
<1>3. LoopTypes /\ HistoryTypes
  BY DEF FeedInv
<1>4. Samples' = Samples /\ Trained' = Trained /\ Lengths' = Lengths
  BY <1>1, SameItems
<1>5. samples \in [Processes -> Seq(Samples)]
  <2>1. \A p \in Processes : p + 1 \in 1..Len(group)
    BY <1>1, <1>2 DEF Processes
  <2>2. group \in Seq(Seq(Samples))
    BY <1>3 DEF LoopTypes
  <2>3. \A p \in Processes : group[p + 1] \in Seq(Samples)
    BY <2>1, <2>2, ElementOfSeq
  <2>4. QED
    BY <2>3
<1>6. epoch \in 0..MaxEpochs - 1
  BY <1>1, <1>2, <1>3 DEF LoopTypes
<1> HIDE DEF samples
<1>7. t \in Trained
  BY <1>5, <1>6 DEF Trained
<1> HIDE DEF t
<1>8. HistoryTypes'
  BY <1>1, <1>3, <1>4, <1>7, TrainTypes
<1>9. none \in Seq(Seq(Samples)) /\ Len(none) <= NumProcesses
  BY <1>2
<1> HIDE DEF none
<1>10. LoopTypes'
  BY <1>1, <1>2, <1>3, <1>4, <1>9 DEF LoopTypes
<1>11. DealtPlace'
  BY <1>1 DEF DealtPlace
<1>12. QED
  BY <1>8, <1>10, <1>11

-----------------------------------------------------------------------------
\* Actions of the loop that train nothing leave the history as it is.
LEMMA SameHistory ==
    ASSUME HistoryTypes, UNCHANGED <<dataset, lengths, args, trained, checkpoint>>
    PROVE  HistoryTypes' /\ Len(trained') = Len(trained)
<1>1. Trained' = Trained
  BY SameItems
<1>2. QED
  BY <1>1 DEF HistoryTypes, Prefix

LEMMA StartsFeed ==
    ASSUME PacksInv, IndexInv, FeedInv, StartTraining \/ NothingLeft
    PROVE  LoopTypes' /\ HistoryTypes' /\ DealtPlace'
<1>1. /\ UNCHANGED <<dataset, lengths, packedIdx, args, epoch, step, skip, seed,
                     group, trained, checkpoint, life, astray>>
      /\ \/ pc = "load" /\ pc' = "epoch"
            /\ (args.packing /\ ~args.streaming => packedIdx # NotPacked)
         \/ pc = "epoch" /\ pc' = "over"
  BY DEF StartTraining, NothingLeft, packingVars, indexVars, setupVars
<1>2. LoopTypes /\ HistoryTypes /\ DealtPlace
  BY DEF FeedInv
<1>3. /\ StepsPerEpoch' = StepsPerEpoch /\ Samples' = Samples
      /\ Lengths' = Lengths
  BY <1>1, SameItems
<1>4. HistoryTypes'
  BY <1>1, <1>2, SameHistory
<1>5. LoopTypes'
  BY <1>1, <1>2, <1>3 DEF LoopTypes
<1>6. DealtPlace'
  BY <1>1, <1>2, <1>3 DEF DealtPlace, NotPacked
<1>7. QED
  BY <1>4, <1>5, <1>6

LEMMA BeginEpochFeed ==
    ASSUME PacksInv, IndexInv, FeedInv, BeginEpoch
    PROVE  LoopTypes' /\ HistoryTypes' /\ DealtPlace'
<1>1. /\ UNCHANGED <<dataset, lengths, packedIdx, args, epoch, skip, group,
                     trained, checkpoint, life, astray>>
      /\ pc = "epoch" /\ epoch < MaxEpochs /\ seed' \in {0, epoch}
      /\ step' = IF args.streaming THEN 0 ELSE skip
      /\ pc' = IF args.streaming /\ skip > 0 THEN "skip" ELSE "train"
  BY DEF BeginEpoch, SeedOfEpoch, packingVars, indexVars, setupVars
<1>2. LoopTypes /\ HistoryTypes /\ DealtPlace
  BY DEF FeedInv
<1>3. /\ StepsPerEpoch' = StepsPerEpoch /\ Samples' = Samples
      /\ Lengths' = Lengths
  BY <1>1, SameItems
<1>4. /\ epoch \in Nat /\ skip \in Nat /\ MaxEpochs \in Nat \ {0}
      /\ StepsPerEpoch \in Nat
  BY FeedContext
<1>5. HistoryTypes'
  BY <1>1, <1>2, SameHistory
<1>6. LoopTypes'
  <2>1. seed' \in 0..MaxEpochs - 1 /\ step' \in Nat /\ pc' \in {"skip", "train"}
    BY <1>1, <1>4
  <2>2. QED
    BY <1>1, <1>2, <1>3, <2>1 DEF LoopTypes
<1>7. DealtPlace'
  <2> DEFINE n == StepsPerEpoch
             a == epoch * n
             b == MaxEpochs * n
  <2>1. CASE args.streaming
    BY <1>1, <2>1 DEF DealtPlace
  <2>2. CASE ~args.streaming
    <3>1. /\ step' = skip /\ pc' = "train"
          /\ Len(trained) = a + skip /\ (skip = 0 \/ skip < n) /\ Len(trained) <= b
          /\ packedIdx # NotPacked \/ ~args.packing
      BY <1>1, <1>2, <2>2 DEF DealtPlace
    <3>2. skip <= n
      BY <1>4, <3>1
    <3> HIDE DEF a, b, n
    <3>3. QED
      BY <1>1, <1>3, <3>1, <3>2 DEF DealtPlace, NotPacked, a, b, n
  <2>3. QED
    BY <2>1, <2>2
<1>8. QED
  BY <1>5, <1>6, <1>7

LEMMA TakeBatchFeed ==
    ASSUME PacksInv, IndexInv, FeedInv, TakeBatch
    PROVE  LoopTypes' /\ HistoryTypes' /\ DealtPlace'
<1> DEFINE batch == FlattenSeq(SubSeq(loaded, 1, BatchLength))
<1>1. /\ UNCHANGED <<dataset, lengths, packedIdx, args, pc, epoch, step, skip, seed,
                     trained, checkpoint, life, astray>>
      /\ args.streaming /\ group' = Append(group, batch) /\ CanTakeBatch
  BY TakeBatchIs DEF setupVars, indexVars
<1>2. LoopTypes /\ HistoryTypes /\ PipelineTypes /\ SetupInv
  BY FeedContext DEF FeedInv
<1>3. Samples' = Samples /\ Lengths' = Lengths
  BY <1>1, SameItems
<1>4. batch \in Seq(Samples)
  BY <1>1, <1>2, TakenBatch
<1>5. Len(group) < NumProcesses /\ NumProcesses \in Nat
  BY <1>1, FeedContext DEF CanTakeBatch
<1> DEFINE A == Seq(Samples)
<1>6. group \in Seq(A) /\ batch \in A
  BY <1>2, <1>4 DEF LoopTypes
<1> HIDE DEF A, batch
<1>7. group' \in Seq(A) /\ Len(group') = Len(group) + 1 /\ Len(group) \in Nat
  BY <1>1, <1>6, AppendProperties, LenProperties
<1>8. Len(group') <= NumProcesses
  BY <1>5, <1>7
<1>9. LoopTypes'
  BY <1>1, <1>2, <1>3, <1>7, <1>8 DEF LoopTypes, A
<1>10. HistoryTypes'
  BY <1>1, <1>2, SameHistory
<1>11. DealtPlace'
  BY <1>1 DEF DealtPlace
<1>12. QED
  BY <1>9, <1>10, <1>11

LEMMA SkipFeed ==
    ASSUME PacksInv, IndexInv, FeedInv, SkipGroup \/ SkipTooMuch
    PROVE  LoopTypes' /\ HistoryTypes' /\ DealtPlace'
<1> DEFINE none == <<>>
<1>1. /\ UNCHANGED <<dataset, lengths, packedIdx, args, epoch, skip, seed,
                     trained, checkpoint, life, astray>>
      /\ group' \in {group, none} /\ step' \in {step, step + 1}
      /\ pc = "skip" /\ pc' \in {"skip", "train", "failed"}
  BY DEF SkipGroup, SkipTooMuch, packingVars, indexVars, setupVars
<1>2. LoopTypes /\ HistoryTypes /\ DealtPlace
  BY DEF FeedInv
<1>3. args.streaming
  BY <1>1, <1>2, FeedContext DEF DealtPlace
<1>4. Samples' = Samples /\ Lengths' = Lengths
  BY <1>1, SameItems
<1>5. /\ none \in Seq(Seq(Samples)) /\ Len(none) <= NumProcesses
      /\ step \in Nat
  BY FeedContext
<1> HIDE DEF none
<1>6. LoopTypes'
  <2>1. group' \in Seq(Seq(Samples)) /\ Len(group') <= NumProcesses
    BY <1>1, <1>2, <1>5 DEF LoopTypes
  <2>2. step' \in Nat
    BY <1>1, <1>5
  <2>3. epoch < MaxEpochs
    BY <1>1, <1>2 DEF LoopTypes
  <2>4. QED
    BY <1>1, <1>2, <1>4, <2>1, <2>2, <2>3 DEF LoopTypes
<1>7. HistoryTypes'
  BY <1>1, <1>2, SameHistory
<1>8. DealtPlace'
  BY <1>1, <1>3 DEF DealtPlace
<1>9. QED
  BY <1>6, <1>7, <1>8

LEMMA EndEpochFeed ==
    ASSUME PacksInv, IndexInv, FeedInv, EndEpoch
    PROVE  LoopTypes' /\ HistoryTypes' /\ DealtPlace'
<1> DEFINE none == <<>>
           n == StepsPerEpoch
<1>1. /\ UNCHANGED <<dataset, lengths, packedIdx, args, step, seed,
                     trained, checkpoint, life, astray>>
      /\ pc = "train" /\ pc' \in {"over", "epoch"}
      /\ ~args.streaming => step = StepsInEpoch
      /\ epoch' = epoch + 1 /\ skip' = 0 /\ group' = none
  BY DEF EndEpoch, setupVars, indexVars
<1>2. LoopTypes /\ HistoryTypes /\ DealtPlace
  BY DEF FeedInv
<1>3. StepsPerEpoch' = StepsPerEpoch /\ Samples' = Samples /\ Lengths' = Lengths
  BY <1>1, SameItems
<1>4. /\ none \in Seq(Seq(Samples)) /\ Len(none) <= NumProcesses
      /\ epoch \in Nat /\ MaxEpochs \in Nat \ {0} /\ n \in Nat /\ step \in Nat
  BY FeedContext
<1> HIDE DEF none
<1>5. LoopTypes'
  <2>1. epoch' \in 0..MaxEpochs
    BY <1>1, <1>2, <1>4 DEF LoopTypes
  <2>2. QED
    BY <1>1, <1>2, <1>3, <1>4, <2>1 DEF LoopTypes
<1>6. HistoryTypes'
  BY <1>1, <1>2, SameHistory
<1>7. DealtPlace'
  <2>1. CASE args.streaming
    BY <1>1, <2>1 DEF DealtPlace
  <2>2. CASE ~args.streaming
    <3> DEFINE a == epoch * n
               a1 == (epoch + 1) * n
               b == MaxEpochs * n
    <3>1. /\ Len(trained) = a + step /\ Len(trained) <= b
          /\ args.packing => packedIdx # NotPacked
      BY <1>1, <1>2, <2>2 DEF DealtPlace
    <3>2. step = n
      BY <1>1, <2>2, <3>1, RowsAre
    <3>3. a1 = a + n /\ a \in Nat
      BY <1>4
    <3>4. a1 + 0 = a + n
      BY <1>4, <3>3
    <3> HIDE DEF a, b, n
    <3>5. Len(trained) = a1 + 0
      BY <3>1, <3>2, <3>4
    <3>6. Len(trained') = (epoch' * StepsPerEpoch')  + skip'
      BY <1>1, <1>3, <3>5 DEF n
    <3>7. QED
      BY <1>1, <1>3, <3>1, <3>6 DEF DealtPlace, NotPacked, b, n
  <2>3. QED
    BY <2>1, <2>2
<1>8. QED
  BY <1>5, <1>6, <1>7

\* Of a dataset that is dealt, the steps before the checkpoint say in which
\* epoch the training is taken up, and how many of its steps are skipped.
LEMMA KillFeed ==
    ASSUME PacksInv, IndexInv, FeedInv, KillAndResume
    PROVE  LoopTypes' /\ HistoryTypes' /\ DealtPlace'
<1> DEFINE none == <<>>
           n == StepsPerEpoch
           s == Len(checkpoint)
           b == MaxEpochs * n
<1>1. /\ UNCHANGED <<dataset, lengths, args, checkpoint>>
      /\ pc' = "load" /\ step' = 0 /\ seed' = 0 /\ group' = none
      /\ life < MaxLives /\ life' = life + 1 /\ trained' = checkpoint
  BY DEF KillAndResume, setupVars
<1>2. \/ checkpoint = <<>> /\ epoch' = 0 /\ skip' = 0 /\ astray' = astray
      \/ /\ checkpoint # <<>>
         /\ epoch' = ResumeEpoch(s, n) /\ skip' = ResumeSkip(s, n)
         /\ astray' = (astray \/ CannotFollow(s, n))
  BY DEF KillAndResume, StepsPerEpoch
<1>3. LoopTypes /\ HistoryTypes /\ DealtPlace
  BY DEF FeedInv
<1>4. StepsPerEpoch' = StepsPerEpoch /\ Samples' = Samples /\ Lengths' = Lengths
      /\ Trained' = Trained
  BY <1>1, SameItems
<1>5. /\ none \in Seq(Seq(Samples)) /\ Len(none) <= NumProcesses
      /\ MaxEpochs \in Nat \ {0} /\ n \in Nat /\ s \in Nat /\ s <= Len(trained)
      /\ Len(trained) \in Nat
  BY FeedContext
<1>6. MaxLives \in Nat \ {0}
  BY DataFeedingAssumption
<1>7. s = 0 <=> checkpoint = <<>>
  BY <1>3, EmptySeq DEF HistoryTypes
<1> HIDE DEF none
<1>8. HistoryTypes'
  <2>1. trained' \in Seq(Trained)
    BY <1>1, <1>3 DEF HistoryTypes
  <2>2. Prefix(checkpoint, checkpoint)
    BY <1>5 DEF Prefix
  <2>3. Prefix(checkpoint, trained)' <=> Prefix(checkpoint', trained')
    BY DEF Prefix
  <2>4. QED
    BY <1>1, <1>3, <1>4, <2>1, <2>2, <2>3 DEF HistoryTypes
<1>9. CASE args.streaming
  <2>1. epoch' \in 0..MaxEpochs /\ skip' \in Nat
    BY <1>2, <1>5, <1>9 DEF ResumeEpoch, ResumeSkip
  <2>2. astray' \in BOOLEAN
    BY <1>2, <1>3, <1>5, <1>9 DEF LoopTypes, CannotFollow
  <2>3. life' \in 1..MaxLives
    BY <1>1, <1>3, <1>6 DEF LoopTypes
  <2>4. LoopTypes'
    BY <1>1, <1>3, <1>4, <1>5, <2>1, <2>2, <2>3 DEF LoopTypes
  <2>5. DealtPlace'
    BY <1>1, <1>9 DEF DealtPlace
  <2>6. QED
    BY <1>8, <2>4, <2>5
<1>10. CASE ~args.streaming
  <2>1. s <= b /\ b \in Nat
    <3>1. Len(trained) <= b /\ b \in Nat
      BY <1>3, <1>5, <1>10 DEF DealtPlace
    <3> HIDE DEF b
    <3>2. QED
      BY <1>5, <3>1
  <2>2. /\ epoch' \in 0..MaxEpochs /\ skip' \in Nat /\ astray' \in BOOLEAN
        /\ s = epoch' * n + skip' /\ (skip' = 0 \/ skip' < n)
    <3>1. CASE checkpoint = <<>>
      <4>1. epoch' = 0 /\ skip' = 0 /\ astray' = astray /\ s = 0
        BY <1>2, <1>7, <3>1
      <4>2. 0 * n = 0
        BY <1>5
      <4>3. s = epoch' * n + skip'
        BY <4>1, <4>2
      <4>4. QED
        BY <1>3, <1>5, <4>1, <4>3 DEF LoopTypes
    <3>2. CASE checkpoint # <<>>
      <4>1. /\ epoch' = s \div n /\ skip' = s % n
            /\ astray' = (astray \/ CannotFollow(s, n))
        BY <1>2, <1>10, <3>2 DEF ResumeEpoch, ResumeSkip
      <4>2. n # 0
        <5>1. MaxEpochs * 0 = 0
          BY <1>5
        <5>2. QED
          BY <1>5, <1>7, <2>1, <3>2, <5>1
      <4>3. /\ s \div n \in Nat /\ s % n \in 0..n - 1
            /\ s = (s \div n) * n + (s % n)
        BY <1>5, <4>2, DivMod
      <4>4. s \div n <= MaxEpochs
        <5>1. s \div n <= b \div n
          BY <1>5, <2>1, <4>2, DivMonotone
        <5>2. (MaxEpochs * n + 0) \div n = MaxEpochs
          BY <1>5, <4>2, DivUnique
        <5>3. b + 0 = b
          BY <2>1
        <5>4. b \div n = MaxEpochs
          BY <5>2, <5>3
        <5>5. QED
          BY <5>1, <5>4
      <4>5. astray' \in BOOLEAN
        BY <1>3, <4>1, <1>10 DEF LoopTypes, CannotFollow
      <4> DEFINE d == s \div n
                 m == s % n
      <4>6. epoch' = d /\ skip' = m /\ s = d * n + m
        BY <4>1, <4>3
      <4>7. d \in Nat /\ d <= MaxEpochs /\ m \in 0..n - 1
        BY <4>3, <4>4
      <4> HIDE DEF d, m
      <4>8. epoch' \in 0..MaxEpochs /\ skip' \in Nat /\ skip' < n
        BY <1>5, <4>6, <4>7
      <4>9. s = epoch' * n + skip'
        BY <4>6
      <4>10. QED
        BY <4>5, <4>8, <4>9
    <3>3. QED
      BY <3>1, <3>2
  <2>3. life' \in 1..MaxLives
    BY <1>1, <1>3, <1>6 DEF LoopTypes
  <2>4. LoopTypes'
    BY <1>1, <1>3, <1>4, <1>5, <2>2, <2>3 DEF LoopTypes
  <2>5. DealtPlace'
    <3>1. /\ Len(trained') = epoch' * StepsPerEpoch' + skip'
          /\ skip' = 0 \/ skip' < StepsPerEpoch'
          /\ Len(trained') <= MaxEpochs * StepsPerEpoch'
      BY <1>1, <1>4, <2>1, <2>2
    <3>2. args' = args /\ pc' = "load"
      BY <1>1
    <3> HIDE DEF n, s, b
    <3>3. QED
      BY <3>1, <3>2, Zenon DEF DealtPlace
  <2>6. QED
    BY <1>8, <2>4, <2>5
<1>11. QED
  BY <1>9, <1>10, FeedContext

-----------------------------------------------------------------------------
LEMMA InitFeed == Init => FeedInv
<1> SUFFICES ASSUME Init PROVE FeedInv
  OBVIOUS
<1> DEFINE none == <<>>
           n == StepsPerEpoch
<1>1. /\ loaded = none /\ finished = FALSE /\ res = NoRes
      /\ lengths = Lengths /\ args \in Setups
      /\ pc = "load" /\ epoch = 0 /\ step = 0 /\ skip = 0 /\ seed = 0
      /\ group = none /\ trained = none /\ checkpoint = none
      /\ life = 1 /\ astray = FALSE
  BY DEF Init, FreshPass
<1>2. /\ MaxEpochs \in Nat \ {0} /\ MaxLives \in Nat \ {0} /\ Prefetch \in Nat
      /\ NumProcesses \in Nat
  BY DataFeedingAssumption, PackingAssumption, ShardingAssumption
<1>3. /\ none \in Seq(Packs) /\ none \in Seq(Seq(Samples))
      /\ none \in Seq(Trained) /\ Len(none) = 0
  OBVIOUS
<1>4. NoRes \in [1..PackingInterval -> Samples \cup {0}]
  BY DEF NoRes
<1>5. Prefix(none, none)
  BY DEF Prefix
<1>6. n \in Nat
  <2>1. SetupInv
    BY DEF Init, SetupInv
  <2>2. lengths \in Seq(Nat)
    BY InitIndex DEF IndexInv, IndexTypes
  <2>3. QED
    BY <1>1, <2>1, <2>2, AllItemsType
<1>7. 0 * n = 0 /\ MaxEpochs * n \in Nat
  BY <1>2, <1>6
<1> HIDE DEF none, n
<1>8. PipelineTypes
  <2>1. res \in [1..PackingInterval -> Samples \cup {0}] /\ finished \in BOOLEAN
    BY <1>1, <1>4, Zenon
  <2>2. Len(none) <= Prefetch
    BY <1>2, <1>3
  <2>3. loaded = none
    BY <1>1
  <2>4. loaded \in Seq(Packs) /\ Len(loaded) <= Prefetch
    BY <1>3, <2>2, <2>3
  <2>5. QED
    BY <2>1, <2>4 DEF PipelineTypes
<1>9. LoopTypes
  <2>1. epoch \in 0..MaxEpochs /\ seed \in 0..MaxEpochs - 1 /\ life \in 1..MaxLives
    BY <1>1, <1>2
  <2>2. group \in Seq(Seq(Samples)) /\ Len(group) <= NumProcesses
    BY <1>1, <1>2, <1>3
  <2>3. step \in Nat /\ skip \in Nat /\ astray \in BOOLEAN
    BY <1>1
  <2>4. QED
    BY <1>1, <2>1, <2>2, <2>3 DEF LoopTypes
<1>10. HistoryTypes
  <2>1. trained = none /\ checkpoint = none
    BY <1>1
  <2>2. QED
    BY <1>3, <1>5, <2>1 DEF HistoryTypes
<1>11. DealtPlace
  BY <1>1, <1>3, <1>6, <1>7 DEF DealtPlace, n
<1>12. QED
  BY <1>8, <1>9, <1>10, <1>11 DEF FeedInv

LEMMA FeedStep ==
    ASSUME PacksInv, IndexInv, FeedInv, [Next]_vars PROVE FeedInv'
<1>1. PipelineTypes'
  BY PipelineStep DEF FeedInv
<1>2. LoopTypes' /\ HistoryTypes' /\ DealtPlace'
  <2>1. CASE Index \/ Pack
    <3>1. UNCHANGED loopVars /\ (packedIdx' = packedIdx \/ pc = "load")
      BY <2>1 DEF Index, Pack, indexVars
    <3>2. UNCHANGED <<dataset, lengths, loopVars>>
      BY <3>1, NextSetup
    <3>3. LoopTypes /\ HistoryTypes /\ DealtPlace
      BY DEF FeedInv
    <3>4. QED
      BY <3>1, <3>2, <3>3, SamePlace
  <2>2. CASE StartTraining \/ NothingLeft
    BY <2>2, StartsFeed
  <2>3. CASE BeginEpoch
    BY <2>3, BeginEpochFeed
  <2>4. CASE TakeBatch
    BY <2>4, TakeBatchFeed
  <2>5. CASE SkipGroup \/ SkipTooMuch
    BY <2>5, SkipFeed
  <2>6. CASE Scatter
    BY <2>6, ScatterFeed
  <2>7. CASE StepShards
    BY <2>7, StepShardsFeed
  <2>8. CASE EndEpoch
    BY <2>8, EndEpochFeed
  <2>9. CASE KillAndResume
    BY <2>9, KillFeed
  <2>10. CASE UNCHANGED vars
    <3>1. UNCHANGED <<dataset, lengths, loopVars>> /\ packedIdx' = packedIdx
      BY <2>10 DEF vars, packingVars, setupVars, indexVars
    <3>2. QED
      BY <3>1, SamePlace DEF FeedInv
  <2>11. QED
    BY <2>1, <2>2, <2>3, <2>4, <2>5, <2>6, <2>7, <2>8, <2>9, <2>10 DEF Next
<1>3. QED
  BY <1>1, <1>2 DEF FeedInv

LEMMA FeedAlways == Spec => []FeedInv
<1>1. PacksInv /\ IndexInv /\ FeedInv /\ [Next]_vars => FeedInv'
  BY FeedStep
<1>2. QED
  BY <1>1, InitFeed, PacksAlways, IndexAlways, PTL DEF Spec

-----------------------------------------------------------------------------
LEMMA TypeFollows ==
    ASSUME PacksInv, IndexInv, FeedInv
    PROVE  TypeOK
<1>1. RoundInv /\ PacksType /\ PipelineTypes /\ LoopTypes /\ HistoryTypes
  BY DEF PacksInv, FeedInv
<1>2. FeedTypeOK
  <2> DEFINE n == Len(checkpoint)
             T == Trained
             first == SubSeq(trained, 1, n)
  <2>1. trained \in Seq(T) /\ checkpoint \in Seq(T) /\ Prefix(checkpoint, trained)
    BY <1>1 DEF HistoryTypes
  <2>2. T = [epoch : 0..MaxEpochs - 1, group : [Processes -> Seq(Samples)]]
    BY DEF Trained
  <2>3. checkpoint = first
    <3> HIDE DEF T
    <3>1. /\ n \in Nat /\ n <= Len(trained) /\ Len(trained) \in Nat
          /\ \A i \in 1..n : checkpoint[i] = trained[i] /\ trained[i] \in T
      BY <2>1, LenProperties DEF Prefix
    <3>2. 1 \in Int /\ n \in Int /\ \A i \in 1..n : trained[i] \in T
      BY <3>1
    <3>3. /\ first \in Seq(T)
          /\ Len(first) = IF 1 <= n THEN n - 1 + 1 ELSE 0
          /\ \A i \in 1..n - 1 + 1 : first[i] = trained[1 + i - 1]
      BY <3>2, SubSeqProperties
    <3>4. Len(first) = n
      BY <3>1, <3>3
    <3>5. \A i \in 1..n : first[i] = checkpoint[i]
      <4> HIDE DEF first
      <4>1. \A i \in 1..n : i \in 1..n - 1 + 1 /\ 1 + i - 1 = i
        BY <3>1
      <4>2. QED
        BY <3>1, <3>3, <4>1
    <3> HIDE DEF first
    <3>6. QED
      BY <2>1, <3>3, <3>4, <3>5, SeqEqual
  <2>4. args \in Setups
    BY <1>1 DEF RoundInv, SetupInv
  <2>5. QED
    BY <1>1, <2>1, <2>2, <2>3, <2>4 DEF FeedTypeOK, LoopTypes
<1>3. PackingTypeOK
  <2>1. /\ RoundType /\ CountOK /\ Len(dataset) \in Nat
        /\ PackingInterval \in Nat \ {0}
    BY <1>1, SetupTypes, PackingAssumption DEF RoundInv
  <2>2. taken \in 0..Len(dataset)
    BY <2>1 DEF RoundType
  <2>3. fetched \in 0..put
    <3>1. Len(inQueue) \in Nat /\ Len(outQueue) \in Nat
      BY <2>1, LenProperties DEF RoundType
    <3>2. QED
      BY <2>1, <3>1, EngagedCount DEF CountOK, RoundType
  <2>4. QED
    BY <1>1, <2>1, <2>2, <2>3 DEF PackingTypeOK, RoundType, PacksType, PipelineTypes
<1>4. IndexTypeOK
  <2>1. /\ IndexTypes /\ finishedWorkers = Cardinality(HeardToEnd)
        /\ packedIdx = NotPacked \/ packedIdx = PacksOfParts
    BY DEF IndexInv
  <2>2. finishedWorkers \in 0..Cardinality(Procs)
    <3>1. IsFiniteSet(Procs)
      <4>1. Procs = 1..NumParts /\ NumParts \in Nat
        BY PartsNumber DEF IndexInv, IndexTypes
      <4>2. QED
        BY <4>1, FS_Interval
    <3>2. HeardToEnd \subseteq Procs
      BY DEF HeardToEnd
    <3>3. /\ Cardinality(HeardToEnd) <= Cardinality(Procs)
          /\ IsFiniteSet(HeardToEnd)
      BY <3>1, <3>2, FS_Subset
    <3>4. QED
      BY <2>1, <3>1, <3>3, FS_CardinalityType
  <2>3. PacksOfParts \in Seq(Seq(1..Len(lengths)))
    BY <2>1, PartsOnce DEF IndexTypes
  <2>4. QED
    BY <2>1, <2>2, <2>3 DEF IndexTypeOK, IndexTypes, Turn
<1>5. QED
  BY <1>2, <1>3, <1>4 DEF TypeOK

\* The variables of the streams, of the packing processes and of the training
\* loop hold what they should: no process is dealt a batch that is not there,
\* the data loader holds no more than its queue, and what a checkpoint has is
\* the beginning of what has been trained.
THEOREM TypeCorrect == Spec => []TypeOK
BY PacksAlways, IndexAlways, FeedAlways, TypeFollows, PTL

-----------------------------------------------------------------------------
(***************************************************************************)
(* What has been trained, compared with a training that is never           *)
(* interrupted.  Of a stream, the batches taken so far are the first ones  *)
(* of the packs, and what the data loader has are the packs after them; a  *)
(* training that was not led astray is where it should be, and the seed of *)
(* its sampler is that of its epoch.                                       *)
(***************************************************************************)
BatchesTaken == step * NumProcesses + Len(group)
PacksTaken == BatchesTaken * args.batchSize

BatchOfStream(b) ==
    SubSeq(PacksOfDataset, (b - 1) * args.batchSize + 1,
           IF b * args.batchSize <= Len(PacksOfDataset) THEN b * args.batchSize
           ELSE Len(PacksOfDataset))

StreamTaken ==
    args.streaming =>
        /\ pc \in {"load", "epoch"} =>
              loaded = <<>> /\ yielded = <<>> /\ group = <<>>
        /\ pc \in {"skip", "train"} =>
              /\ BatchesTaken <= CeilDiv(Len(PacksOfDataset), args.batchSize)
              /\ PacksTaken <= Len(yielded) \/ phase = "end"
              /\ loaded = SubSeq(yielded, PacksTaken + 1, Len(yielded))
              /\ \A j \in 1..Len(group) :
                    group[j] = FlattenSeq(BatchOfStream(step * NumProcesses + j))

StreamPlace ==
    args.streaming /\ ~astray =>
        /\ pc \in {"load", "epoch"} =>
              /\ Len(trained) = epoch * StepsPerEpoch + skip
              /\ skip = 0 \/ skip < StepsPerEpoch
        /\ pc = "skip" =>
              /\ Len(trained) = epoch * StepsPerEpoch + skip
              /\ step < skip /\ skip < StepsPerEpoch
        /\ pc = "train" => Len(trained) = epoch * StepsPerEpoch + step

SeedFollows ==
    ~args.streaming /\ args.shuffle /\ ~astray =>
        /\ pc \in {"load", "epoch"} /\ skip > 0 => epoch = 0
        /\ pc = "train" => seed = epoch

TrainedSoFar ==
    ~astray => /\ pc # "failed"
               /\ \A i \in 1..Len(trained) :
                     trained[i] = Uninterrupted(AllItems, StepsPerEpoch, i)

OrderInv == StreamTaken /\ StreamPlace /\ SeedFollows /\ TrainedSoFar

-----------------------------------------------------------------------------
\* What is left of a sequence after its first a elements.
LEMMA RestAt ==
    ASSUME NEW S, NEW s \in Seq(S), NEW a \in Nat
    PROVE  /\ SubSeq(s, a + 1, Len(s)) \in Seq(S)
           /\ Len(SubSeq(s, a + 1, Len(s))) = IF a <= Len(s) THEN Len(s) - a ELSE 0
           /\ \A i \in 1..Len(s) - a : SubSeq(s, a + 1, Len(s))[i] = s[a + i]
<1> DEFINE n == Len(s)
           rest == SubSeq(s, a + 1, n)
<1>1. n \in Nat /\ \A i \in 1..n : s[i] \in S
  BY LenProperties
<1> HIDE DEF n
<1>2. a + 1 \in Int /\ n \in Int /\ \A i \in a + 1..n : s[i] \in S
  BY <1>1
<1>3. /\ rest \in Seq(S)
      /\ Len(rest) = IF a + 1 <= n THEN n - (a + 1) + 1 ELSE 0
      /\ \A i \in 1..n - (a + 1) + 1 : rest[i] = s[a + 1 + i - 1]
  BY <1>2, SubSeqProperties
<1> HIDE DEF rest
<1>4. Len(rest) = IF a <= n THEN n - a ELSE 0
  BY <1>1, <1>3
<1>5. ASSUME NEW i \in 1..n - a PROVE rest[i] = s[a + i]
  <2>1. i \in 1..n - (a + 1) + 1 /\ a + 1 + i - 1 = a + i
    BY <1>1
  <2>2. QED
    BY <1>3, <2>1
<1>6. QED
  BY <1>3, <1>4, <1>5 DEF rest, n

\* The next b elements, of a sequence or of one it is the beginning of.
LEMMA FirstOfRest ==
    ASSUME NEW S, NEW s \in Seq(S), NEW t \in Seq(S), Prefix(s, t),
           NEW a \in Nat, NEW b \in Nat, a + b <= Len(s)
    PROVE  SubSeq(SubSeq(s, a + 1, Len(s)), 1, b) = SubSeq(t, a + 1, a + b)
<1> DEFINE n == Len(s)
           rest == SubSeq(s, a + 1, n)
           x == SubSeq(rest, 1, b)
           y == SubSeq(t, a + 1, a + b)
<1>1. n \in Nat /\ Len(t) \in Nat /\ n <= Len(t) /\ \A i \in 1..Len(t) : t[i] \in S
  BY LenProperties DEF Prefix
<1>2. \A i \in 1..n : t[i] = s[i]
  BY DEF Prefix
<1>3. /\ rest \in Seq(S) /\ Len(rest) = IF a <= n THEN n - a ELSE 0
      /\ \A i \in 1..n - a : rest[i] = s[a + i]
  BY RestAt
<1> HIDE DEF n, rest
<1>4. b <= Len(rest) /\ \A i \in 1..b : rest[i] \in S /\ rest[i] = s[a + i]
  <2>1. b <= Len(rest) /\ b <= n - a /\ Len(rest) \in Nat
    BY <1>1, <1>3 DEF n
  <2>2. \A i \in 1..b : i \in 1..Len(rest) /\ i \in 1..n - a
    BY <1>1, <2>1
  <2>3. \A i \in 1..Len(rest) : rest[i] \in S
    BY <1>3, LenProperties
  <2>4. QED
    BY <1>3, <2>1, <2>2, <2>3
<1>5. /\ x \in Seq(S) /\ Len(x) = IF 1 <= b THEN b - 1 + 1 ELSE 0
      /\ \A i \in 1..b - 1 + 1 : x[i] = rest[1 + i - 1]
  <2>1. 1 \in Int /\ b \in Int /\ \A i \in 1..b : rest[i] \in S
    BY <1>4
  <2>2. QED
    BY <2>1, SubSeqProperties
<1>6. /\ y \in Seq(S)
      /\ Len(y) = IF a + 1 <= a + b THEN a + b - (a + 1) + 1 ELSE 0
      /\ \A i \in 1..a + b - (a + 1) + 1 : y[i] = t[a + 1 + i - 1]
  <2>1. a + 1 \in Int /\ a + b \in Int
    OBVIOUS
  <2>2. \A i \in a + 1..a + b : t[i] \in S
    BY <1>1 DEF n
  <2>3. QED
    BY <2>1, <2>2, SubSeqProperties
<1> HIDE DEF x, y
<1>7. Len(x) = b /\ Len(y) = b
  BY <1>5, <1>6
<1>8. ASSUME NEW i \in 1..b PROVE x[i] = y[i]
  <2>1. /\ i \in 1..b - 1 + 1 /\ 1 + i - 1 = i
        /\ i \in 1..a + b - (a + 1) + 1 /\ a + 1 + i - 1 = a + i
        /\ a + i \in 1..n
    BY <1>1 DEF n
  <2>2. x[i] = rest[i] /\ y[i] = t[a + i] /\ rest[i] = s[a + i] /\ t[a + i] = s[a + i]
    BY <1>2, <1>4, <1>5, <1>6, <2>1
  <2>3. QED
    BY <2>2
<1>9. QED
  <2>1. x = y
    BY <1>5, <1>6, <1>7, <1>8, SeqEqual
  <2>2. QED
    BY <2>1 DEF x, y, rest, n

LEMMA RestOfRest ==
    ASSUME NEW S, NEW s \in Seq(S), NEW a \in Nat, NEW b \in Nat
    PROVE  SubSeq(SubSeq(s, a + 1, Len(s)), b + 1, Len(SubSeq(s, a + 1, Len(s))))
             = SubSeq(s, a + b + 1, Len(s))
<1> DEFINE n == Len(s)
           rest == SubSeq(s, a + 1, n)
           x == SubSeq(rest, b + 1, Len(rest))
           y == SubSeq(s, a + b + 1, n)
<1>1. /\ rest \in Seq(S) /\ Len(rest) = IF a <= n THEN n - a ELSE 0
      /\ \A i \in 1..n - a : rest[i] = s[a + i]
  BY RestAt
<1>2. /\ x \in Seq(S) /\ Len(x) = IF b <= Len(rest) THEN Len(rest) - b ELSE 0
      /\ \A i \in 1..Len(rest) - b : x[i] = rest[b + i]
  <2> HIDE DEF rest
  <2>1. QED
    BY <1>1, RestAt
<1>3. /\ y \in Seq(S) /\ Len(y) = IF a + b <= n THEN n - (a + b) ELSE 0
      /\ \A i \in 1..n - (a + b) : y[i] = s[a + b + i]
  <2>1. a + b \in Nat
    OBVIOUS
  <2>2. QED
    BY <2>1, RestAt
<1>4. n \in Nat
  BY LenProperties
<1> HIDE DEF n, rest, x, y
<1>5. Len(x) = Len(y)
  BY <1>1, <1>2, <1>3, <1>4
<1>6. ASSUME NEW i \in 1..Len(y) PROVE x[i] = y[i]
  <2>1. /\ i \in 1..n - (a + b) /\ i \in 1..Len(rest) - b
        /\ b + i \in 1..n - a /\ a + (b + i) = a + b + i
    BY <1>1, <1>3, <1>4
  <2>2. x[i] = rest[b + i] /\ rest[b + i] = s[a + (b + i)] /\ y[i] = s[a + b + i]
    BY <1>1, <1>2, <1>3, <2>1
  <2>3. QED
    BY <2>1, <2>2
<1>7. x = y
  BY <1>2, <1>3, <1>5, <1>6, SeqEqual
<1>8. QED
  BY <1>7 DEF x, y, rest, n

LEMMA RestAppend ==
    ASSUME NEW S, NEW s \in Seq(S), NEW e \in S, NEW a \in Nat, a <= Len(s)
    PROVE  SubSeq(Append(s, e), a + 1, Len(Append(s, e)))
             = Append(SubSeq(s, a + 1, Len(s)), e)
<1> DEFINE n == Len(s)
           t == Append(s, e)
           rest == SubSeq(s, a + 1, n)
           x == SubSeq(t, a + 1, Len(t))
           y == Append(rest, e)
<1>1. /\ rest \in Seq(S) /\ Len(rest) = IF a <= n THEN n - a ELSE 0
      /\ \A i \in 1..n - a : rest[i] = s[a + i]
  BY RestAt
<1>2. /\ n \in Nat /\ t \in Seq(S) /\ Len(t) = n + 1
      /\ \A i \in 1..n : t[i] = s[i]
      /\ t[n + 1] = e
  BY AppendProperties, LenProperties
<1> HIDE DEF t, n
<1>3. /\ x \in Seq(S) /\ Len(x) = IF a <= Len(t) THEN Len(t) - a ELSE 0
      /\ \A i \in 1..Len(t) - a : x[i] = t[a + i]
  BY <1>2, RestAt
<1> HIDE DEF rest
<1>4. /\ y \in Seq(S) /\ Len(y) = Len(rest) + 1
      /\ \A i \in 1..Len(rest) : y[i] = rest[i]
      /\ y[Len(rest) + 1] = e
  BY <1>1, AppendProperties
<1> HIDE DEF x, y
<1>5. a <= n
  BY DEF n
<1>6. Len(x) = n - a + 1 /\ Len(y) = n - a + 1 /\ Len(rest) = n - a
  BY <1>1, <1>2, <1>3, <1>4, <1>5
<1>7. ASSUME NEW i \in 1..Len(y) PROVE x[i] = y[i]
  <2>1. i \in 1..Len(t) - a
    BY <1>2, <1>5, <1>6
  <2>2. x[i] = t[a + i]
    BY <1>3, <2>1
  <2>3. CASE i <= n - a
    <3>1. i \in 1..Len(rest) /\ i \in 1..n - a /\ a + i \in 1..n
      BY <1>2, <1>5, <1>6, <2>3
    <3>2. QED
      BY <1>1, <1>2, <1>4, <2>2, <3>1
  <2>4. CASE i = n - a + 1
    <3>1. i = Len(rest) + 1 /\ a + i = n + 1
      BY <1>2, <1>5, <1>6, <2>4
    <3>2. QED
      BY <1>2, <1>4, <2>2, <3>1
  <2>5. QED
    BY <1>2, <1>5, <1>6, <2>3, <2>4
<1>8. x = y
  BY <1>3, <1>4, <1>6, <1>7, SeqEqual
<1>9. QED
  BY <1>8 DEF x, y, t, rest, n

-----------------------------------------------------------------------------
LEMMA SameSteps ==
    ASSUME UNCHANGED <<dataset, lengths, args>>
    PROVE  /\ PacksOfDataset' = PacksOfDataset
           /\ \A b : BatchOfStream(b)' = BatchOfStream(b)
           /\ \A i : Uninterrupted(AllItems, StepsPerEpoch, i)'
                        = Uninterrupted(AllItems, StepsPerEpoch, i)
<1>1. AllItems' = AllItems /\ StepsPerEpoch' = StepsPerEpoch
  BY SameItems
<1>2. PacksOfDataset' = PacksOfDataset
  <2>1. \A s : Encoded(s)' = Encoded(s)
    BY DEF Encoded, Encodable, Samples
  <2>2. Rounds' = Rounds
    BY <2>1 DEF Rounds
  <2>3. QED
    BY <2>2, SameItems DEF PacksOfDataset
<1>3. \A b : BatchOfStream(b)' = BatchOfStream(b)
  BY <1>2 DEF BatchOfStream
<1>4. \A items, e, k : ShardedStep(items, e, k)' = ShardedStep(items, e, k)
  BY DEF ShardedStep, ShardedGroup, BatchesOf, Order
<1>5. \A items, k : StreamedStep(items, k)' = StreamedStep(items, k)
  BY DEF StreamedStep
<1>6. \A items, n, i : Uninterrupted(items, n, i)' = Uninterrupted(items, n, i)
  BY <1>4, <1>5 DEF Uninterrupted
<1>7. \A i : Uninterrupted(AllItems, StepsPerEpoch, i)'
                = Uninterrupted(AllItems, StepsPerEpoch, i)
  BY <1>1, <1>6 DEF Uninterrupted, ShardedStep, ShardedGroup, BatchesOf, Order,
     StreamedStep
<1>8. QED
  BY <1>2, <1>3, <1>7

LEMMA StreamTypes ==
    ASSUME PacksInv, IndexInv, FeedInv
    PROVE  /\ PacksOfDataset \in Seq(Packs) /\ Len(PacksOfDataset) \in Nat
           /\ yielded \in Seq(Packs) /\ Len(yielded) \in Nat
           /\ loaded \in Seq(Packs) /\ Len(loaded) \in Nat
           /\ Len(group) \in Nat /\ group \in Seq(Seq(Samples))
           /\ NumProcesses \in Nat \ {0} /\ args.batchSize \in Nat \ {0}
           /\ step \in Nat /\ step * NumProcesses \in Nat
           /\ BatchesTaken \in Nat /\ PacksTaken \in Nat
           /\ Len(yielded) <= Len(PacksOfDataset)
<1>1. /\ PacksOfDataset \in Seq(Packs) /\ yielded \in Seq(Packs)
      /\ Prefix(yielded, PacksOfDataset)
  BY YieldedSoFar
<1>2. /\ Len(group) \in Nat /\ NumProcesses \in Nat \ {0}
      /\ args.batchSize \in Nat \ {0} /\ step \in Nat
  BY FeedContext
<1>3. step * NumProcesses \in Nat
  BY <1>2
<1>4. BatchesTaken \in Nat
  BY <1>2, <1>3 DEF BatchesTaken
<1>5. PacksTaken \in Nat
  BY <1>2, <1>4 DEF PacksTaken
<1>6. loaded \in Seq(Packs) /\ group \in Seq(Seq(Samples))
  BY DEF FeedInv, PipelineTypes, LoopTypes
<1>7. QED
  BY <1>1, <1>2, <1>3, <1>4, <1>5, <1>6, LenProperties DEF Prefix

\* Nothing that batches depend on has changed.
LEMMA TakenSame ==
    ASSUME StreamTaken, UNCHANGED <<dataset, lengths, args, step, group, loaded, yielded>>,
           phase = "end" => phase' = "end",
           \/ pc' = pc
           \/ pc = "load" /\ pc' = "epoch"
           \/ pc' \in {"over", "failed"}
    PROVE  StreamTaken'
<1>1. /\ PacksOfDataset' = PacksOfDataset
      /\ \A b : BatchOfStream(b)' = BatchOfStream(b)
  BY SameSteps
<1>2. BatchesTaken' = BatchesTaken /\ PacksTaken' = PacksTaken
  BY DEF BatchesTaken, PacksTaken
<1>3. CASE pc' \in {"over", "failed"}
  BY <1>3 DEF StreamTaken
<1>4. CASE pc' = pc
  BY <1>1, <1>2, <1>4 DEF StreamTaken
<1>5. CASE pc = "load" /\ pc' = "epoch"
  BY <1>5 DEF StreamTaken
<1>6. QED
  BY <1>3, <1>4, <1>5

LEMMA YieldTaken ==
    ASSUME PacksInv, IndexInv, FeedInv, StreamTaken, Pack, Yield
    PROVE  StreamTaken'
<1> DEFINE first == Head(ready)
           a == PacksTaken
<1>1. /\ pc \in {"skip", "train"} /\ args.streaming /\ phase = "yield" /\ ready # <<>>
      /\ loaded' = Append(loaded, first) /\ yielded' = Append(yielded, first)
      /\ UNCHANGED <<dataset, lengths, args, step, group, phase, pc>>
  BY DEF Pack, Yield, setupVars, indexVars, loopVars
<1>2. /\ PacksOfDataset' = PacksOfDataset
      /\ \A b : BatchOfStream(b)' = BatchOfStream(b)
  BY <1>1, SameSteps
<1>3. BatchesTaken' = BatchesTaken /\ PacksTaken' = PacksTaken
  BY <1>1 DEF BatchesTaken, PacksTaken
<1>4. first \in Packs
  <2>1. ready \in Seq(Packs)
    BY DEF PacksInv, PacksType
  <2>2. QED
    BY <1>1, <2>1, HeadTailProperties
<1> HIDE DEF first
<1>5. a <= Len(yielded) /\ loaded = SubSeq(yielded, a + 1, Len(yielded))
  BY <1>1 DEF StreamTaken
<1>6. yielded \in Seq(Packs) /\ a \in Nat /\ Len(yielded) \in Nat
  BY StreamTypes
<1> HIDE DEF a
<1>7. loaded' = SubSeq(yielded', a + 1, Len(yielded'))
  BY <1>1, <1>4, <1>5, <1>6, RestAppend
<1>8. a <= Len(yielded')
  <2>1. Len(yielded') = Len(yielded) + 1
    BY <1>1, <1>4, <1>6, AppendProperties
  <2>2. QED
    BY <1>5, <1>6, <2>1
<1>9. /\ BatchesTaken' <= CeilDiv(Len(PacksOfDataset'), args'.batchSize)
      /\ \A j \in 1..Len(group') :
            group'[j] = FlattenSeq(BatchOfStream(step * NumProcesses + j)')
  BY <1>1, <1>2, <1>3 DEF StreamTaken
<1>10. PacksTaken' = a
  BY <1>3 DEF a
<1>11. QED
  BY <1>1, <1>2, <1>7, <1>8, <1>9, <1>10 DEF StreamTaken

LEMMA PackTaken ==
    ASSUME PacksInv, IndexInv, FeedInv, StreamTaken, Pack
    PROVE  StreamTaken'
<1>1. CASE Yield
  BY <1>1, YieldTaken
<1>2. CASE ~Yield
  <2>1. UNCHANGED <<dataset, lengths, args, step, group, pc>>
    BY NextSetup DEF Pack, loopVars, Next
  <2>2. UNCHANGED <<loaded, yielded>> /\ (phase = "end" => phase' = "end")
    BY <1>2 DEF Pack, PackingNext, Iter, PutDataInQueue, StopPutting, FetchDataOutQueue,
       MatchGroup, NextRound, GetItem, Processor, packVars
  <2>3. QED
    BY <2>1, <2>2, TakenSame
<1>3. QED
  BY <1>1, <1>2

\* The next batch of a stream is taken from what the data loader has.
LEMMA TakeBatchTaken ==
    ASSUME PacksInv, IndexInv, FeedInv, StreamTaken, TakeBatch
    PROVE  StreamTaken'
<1> DEFINE b == BatchesTaken
           w == args.batchSize
           a == PacksTaken
           y == Len(yielded)
           m == Len(PacksOfDataset)
           size == BatchLength
           batch == FlattenSeq(SubSeq(loaded, 1, size))
<1>1. /\ pc \in {"skip", "train"} /\ args.streaming /\ CanTakeBatch
      /\ group' = Append(group, batch)
      /\ loaded' = SubSeq(loaded, size + 1, Len(loaded))
      /\ UNCHANGED <<dataset, lengths, args, step, pc, phase, yielded>>
  BY TakeBatchIs DEF setupVars, indexVars
<1>2. /\ PacksOfDataset' = PacksOfDataset
      /\ \A k : BatchOfStream(k)' = BatchOfStream(k)
  BY <1>1, SameSteps
<1>3. /\ PacksOfDataset \in Seq(Packs) /\ m \in Nat /\ yielded \in Seq(Packs) /\ y \in Nat
      /\ loaded \in Seq(Packs) /\ Len(loaded) \in Nat
      /\ Len(group) \in Nat /\ group \in Seq(Seq(Samples))
      /\ w \in Nat \ {0} /\ b \in Nat /\ a \in Nat /\ y <= m /\ NumProcesses \in Nat \ {0}
      /\ step * NumProcesses \in Nat
  BY StreamTypes
<1>4. Prefix(yielded, PacksOfDataset) /\ (phase = "end" => yielded = PacksOfDataset)
  BY YieldedSoFar
<1>5. /\ b <= CeilDiv(m, w) /\ (a <= y \/ phase = "end")
      /\ loaded = SubSeq(yielded, a + 1, y)
      /\ \A j \in 1..Len(group) :
            group[j] = FlattenSeq(BatchOfStream(step * NumProcesses + j))
  BY <1>1 DEF StreamTaken
<1>6. /\ size \in 1..Len(loaded) /\ batch \in Seq(Samples)
      /\ \/ Len(loaded) >= w /\ size = w
         \/ Len(loaded) < w /\ size = Len(loaded) /\ phase = "end"
  <2>1. size \in 1..Len(loaded) /\ batch \in Seq(Samples)
    BY <1>1, FeedContext, TakenBatch DEF FeedInv
  <2>2. Len(loaded) >= w \/ phase = "end"
    BY <1>1 DEF CanTakeBatch
  <2>3. size = IF Len(loaded) < w THEN Len(loaded) ELSE w
    BY DEF BatchLength
  <2> HIDE DEF size, w, batch
  <2>4. QED
    BY <1>3, <2>1, <2>2, <2>3
<1>7. Len(loaded) = IF a <= y THEN y - a ELSE 0
  BY <1>3, <1>5, RestAt
<1>8. a = b * w /\ (b + 1) * w = a + w
  <2>1. a = b * w
    BY DEF PacksTaken
  <2> HIDE DEF a, b, w
  <2>2. QED
    BY <1>3, <2>1
<1>9. a + size <= y /\ a < m
  <2> HIDE DEF a, b, w, y, m, size
  <2>1. QED
    BY <1>3, <1>6, <1>7
<1>10. BatchOfStream(b + 1) = SubSeq(PacksOfDataset, a + 1, a + size)
  <2>1. (b + 1) - 1 = b
    BY <1>3
  <2>2. BatchOfStream(b + 1)
          = SubSeq(PacksOfDataset, b * w + 1, IF (b + 1) * w <= m THEN (b + 1) * w ELSE m)
    BY <2>1 DEF BatchOfStream
  <2>3. (IF a + w <= m THEN a + w ELSE m) = a + size
    <3>1. phase = "end" => y = m
      BY <1>4
    <3> HIDE DEF a, b, w, y, m, size
    <3>2. QED
      BY <1>3, <1>6, <1>7, <1>9, <3>1
  <2> HIDE DEF a, b, w, m, size
  <2>4. QED
    BY <1>8, <2>2, <2>3
<1>11. SubSeq(loaded, 1, size) = SubSeq(PacksOfDataset, a + 1, a + size)
  <2> HIDE DEF a, size
  <2>1. size \in Nat
    BY <1>3, <1>6
  <2>2. /\ yielded \in Seq(Packs) /\ PacksOfDataset \in Seq(Packs)
        /\ Prefix(yielded, PacksOfDataset)
        /\ a \in Nat /\ a + size <= Len(yielded)
        /\ loaded = SubSeq(yielded, a + 1, Len(yielded))
    BY <1>3, <1>4, <1>5, <1>9 DEF y
  <2>3. SubSeq(SubSeq(yielded, a + 1, Len(yielded)), 1, size)
          = SubSeq(PacksOfDataset, a + 1, a + size)
    BY <2>1, <2>2, FirstOfRest
  <2>4. QED
    BY <2>2, <2>3
<1>12. batch = FlattenSeq(BatchOfStream(b + 1))
  BY <1>10, <1>11
<1>13. BatchesTaken' = b + 1 /\ Len(group') = Len(group) + 1
  <2> HIDE DEF batch
  <2>1. Len(group') = Len(group) + 1
    BY <1>1, <1>3, <1>6, AppendProperties
  <2>2. BatchesTaken' = step * NumProcesses + Len(group')
    BY <1>1 DEF BatchesTaken
  <2>3. b = step * NumProcesses + Len(group)
    BY DEF BatchesTaken
  <2> HIDE DEF b
  <2>4. QED
    BY <1>3, <2>1, <2>2, <2>3
<1>14. PacksTaken' = a + w
  <2>1. PacksTaken' = BatchesTaken' * w
    BY <1>1 DEF PacksTaken
  <2>2. QED
    BY <1>8, <1>13, <2>1
<1>15. b + 1 <= CeilDiv(m, w)
  <2>1. CeilDiv(m, w) \in Nat /\ (b >= CeilDiv(m, w) <=> b * w >= m)
    BY <1>3, CeilDivCovers
  <2>2. ~(b * w >= m)
    <3> HIDE DEF a, b, w, m
    <3>1. QED
      BY <1>3, <1>8, <1>9
  <2> DEFINE d == CeilDiv(m, w)
  <2>3. d \in Nat /\ ~(b >= d)
    BY <2>1, <2>2
  <2> HIDE DEF d, b
  <2>4. b + 1 <= d
    BY <1>3, <2>3
  <2>5. QED
    BY <2>4 DEF d
<1>16. a + w <= y \/ phase = "end"
  <2> HIDE DEF a, w, y, size
  <2>1. QED
    BY <1>3, <1>6, <1>9
<1>17. loaded' = SubSeq(yielded, a + w + 1, y)
  <2>1. loaded' = SubSeq(yielded, a + size + 1, y)
    <3> HIDE DEF a, size
    <3>1. size \in Nat
      BY <1>3, <1>6
    <3>2. QED
      BY <1>1, <1>3, <1>5, <3>1, RestOfRest DEF y
  <2>2. CASE size = w
    BY <2>1, <2>2
  <2>3. CASE size # w
    <3> HIDE DEF a, w, y, size
    <3>1. size = y - a /\ size < w
      BY <1>3, <1>6, <1>7, <1>9, <2>3
    <3>2. y < a + size + 1 /\ y < a + w + 1 /\ a + size + 1 \in Int /\ a + w + 1 \in Int
          /\ y \in Int
      BY <1>3, <3>1
    <3>3. SubSeq(yielded, a + size + 1, y) = <<>> /\ SubSeq(yielded, a + w + 1, y) = <<>>
      BY <3>2, SubSeqEmpty
    <3>4. QED
      BY <2>1, <3>3
  <2>4. QED
    BY <2>2, <2>3
<1>18. ASSUME NEW j \in 1..Len(group')
       PROVE  group'[j] = FlattenSeq(BatchOfStream(step * NumProcesses + j))
  <2> HIDE DEF batch
  <2>1. /\ \A i \in 1..Len(group) : group'[i] = group[i]
        /\ group'[Len(group) + 1] = batch
    BY <1>1, <1>3, <1>6, AppendProperties
  <2>2. CASE j \in 1..Len(group)
    BY <1>5, <2>1, <2>2
  <2>3. CASE j = Len(group) + 1
    <3>1. step * NumProcesses + j = b + 1
      <4>1. b = step * NumProcesses + Len(group)
        BY DEF BatchesTaken
      <4> HIDE DEF b
      <4>2. QED
        BY <1>3, <2>3, <4>1
    <3>2. QED
      BY <1>12, <2>1, <2>3, <3>1
  <2>4. QED
    BY <1>3, <1>13, <2>2, <2>3
<1>19. QED
  <2>1. /\ BatchesTaken' <= CeilDiv(Len(PacksOfDataset'), args'.batchSize)
        /\ PacksTaken' <= Len(yielded') \/ phase' = "end"
        /\ loaded' = SubSeq(yielded', PacksTaken' + 1, Len(yielded'))
    BY <1>1, <1>2, <1>13, <1>14, <1>15, <1>16, <1>17
  <2>2. ASSUME NEW j \in 1..Len(group')
        PROVE  group'[j] = FlattenSeq(BatchOfStream(step * NumProcesses + j)')
    <3> DEFINE k == step * NumProcesses + j
    <3>1. group'[j] = FlattenSeq(BatchOfStream(k))
      BY <1>18
    <3>2. step' = step /\ \A i : BatchOfStream(i)' = BatchOfStream(i)
      BY <1>1, <1>2
    <3>3. BatchOfStream(step * NumProcesses + j)' = BatchOfStream(k)
      BY <3>2
    <3>4. QED
      BY <3>1, <3>3
  <2>3. pc' \in {"skip", "train"}
    BY <1>1
  <2> HIDE DEF b, w, a, y, m, size, batch
  <2>4. QED
    BY <2>1, <2>2, <2>3 DEF StreamTaken

-----------------------------------------------------------------------------
LEMMA GroupTaken ==
    ASSUME PacksInv, IndexInv, FeedInv, StreamTaken, Scatter \/ SkipGroup
    PROVE  StreamTaken'
<1> DEFINE none == <<>>
<1>1. /\ pc \in {"skip", "train"} /\ pc' \in {"skip", "train", "over"}
      /\ Len(group) = NumProcesses /\ group' = none /\ step' = step + 1
      /\ UNCHANGED <<dataset, lengths, args, phase, loaded, yielded>>
  BY DEF Scatter, SkipGroup, Train, packingVars, packVars, setupVars, indexVars
<1>2. /\ PacksOfDataset' = PacksOfDataset
      /\ \A b : BatchOfStream(b)' = BatchOfStream(b)
  BY <1>1, SameSteps
<1>3. /\ Len(group) \in Nat /\ NumProcesses \in Nat /\ step \in Nat
      /\ step * NumProcesses \in Nat
  BY StreamTypes
<1>4. Len(none) = 0
  OBVIOUS
<1> HIDE DEF none
<1>5. BatchesTaken' = BatchesTaken
  <2>1. BatchesTaken' = (step + 1) * NumProcesses + 0
    BY <1>1, <1>4 DEF BatchesTaken
  <2>2. (step + 1) * NumProcesses + 0 = step * NumProcesses + NumProcesses
    BY <1>3
  <2>3. QED
    BY <1>1, <2>1, <2>2 DEF BatchesTaken
<1>6. PacksTaken' = PacksTaken
  BY <1>1, <1>5 DEF PacksTaken
<1>7. CASE pc' = "over"
  BY <1>7 DEF StreamTaken
<1>8. CASE pc' \in {"skip", "train"} /\ args.streaming
  <2>1. /\ BatchesTaken <= CeilDiv(Len(PacksOfDataset), args.batchSize)
        /\ PacksTaken <= Len(yielded) \/ phase = "end"
        /\ loaded = SubSeq(yielded, PacksTaken + 1, Len(yielded))
    BY <1>1, <1>8 DEF StreamTaken
  <2>2. \A j \in 1..Len(group') : FALSE
    BY <1>1, <1>4
  <2>3. /\ BatchesTaken' <= CeilDiv(Len(PacksOfDataset'), args'.batchSize)
        /\ PacksTaken' <= Len(yielded') \/ phase' = "end"
        /\ loaded' = SubSeq(yielded', PacksTaken' + 1, Len(yielded'))
    BY <1>1, <1>2, <1>5, <1>6, <2>1
  <2>4. QED
    BY <1>8, <2>2, <2>3 DEF StreamTaken
<1>9. CASE ~args.streaming
  BY <1>1, <1>9 DEF StreamTaken
<1>10. QED
  BY <1>1, <1>7, <1>8, <1>9

LEMMA BeginTaken ==
    ASSUME PacksInv, IndexInv, FeedInv, StreamTaken, BeginEpoch
    PROVE  StreamTaken'
<1> DEFINE none == <<>>
           m == Len(PacksOfDataset)
<1>1. /\ pc = "epoch" /\ pc' \in {"skip", "train"}
      /\ step' = IF args.streaming THEN 0 ELSE skip
      /\ UNCHANGED <<dataset, lengths, args, group, phase, loaded, yielded>>
  BY DEF BeginEpoch, packingVars, packVars, setupVars, indexVars
<1>2. PacksOfDataset' = PacksOfDataset
  BY <1>1, SameSteps
<1>3. CASE args.streaming
  <2>1. loaded' = none /\ yielded' = none /\ group' = none
    BY <1>1, <1>3 DEF StreamTaken
  <2>2. /\ m \in Nat /\ NumProcesses \in Nat /\ args.batchSize \in Nat \ {0}
    BY StreamTypes
  <2>3. Len(none) = 0 /\ SubSeq(none, 0 + 1, 0) = none
    <3>1. SubSeq(none, 0 + 1, 0) = <<>>
      BY SubSeqEmpty
    <3>2. QED
      BY <3>1
  <2> HIDE DEF none, m
  <2>4. BatchesTaken' = 0
    <3>1. BatchesTaken' = 0 * NumProcesses + 0
      BY <1>1, <1>3, <2>1, <2>3 DEF BatchesTaken
    <3>2. QED
      BY <2>2, <3>1
  <2>5. PacksTaken' = 0
    <3>1. PacksTaken' = 0 * args.batchSize
      BY <1>1, <2>4 DEF PacksTaken
    <3>2. QED
      BY <2>2, <3>1
  <2>6. 0 <= CeilDiv(m, args.batchSize)
    BY <2>2, CeilDivCovers
  <2>7. \A j \in 1..Len(group') : FALSE
    BY <2>1, <2>3
  <2>8. /\ BatchesTaken' <= CeilDiv(Len(PacksOfDataset'), args'.batchSize)
        /\ PacksTaken' <= Len(yielded')
        /\ loaded' = SubSeq(yielded', PacksTaken' + 1, Len(yielded'))
    BY <1>1, <1>2, <2>1, <2>3, <2>4, <2>5, <2>6 DEF m
  <2>9. QED
    BY <1>1, <2>7, <2>8 DEF StreamTaken
<1>4. CASE ~args.streaming
  BY <1>1, <1>4 DEF StreamTaken
<1>5. QED
  BY <1>3, <1>4

LEMMA TakenStep ==
    ASSUME PacksInv, IndexInv, FeedInv, StreamTaken, [Next]_vars
    PROVE  StreamTaken'
<1>1. UNCHANGED <<dataset, lengths, args>>
  BY NextSetup
<1>2. CASE EndEpoch \/ KillAndResume
  BY <1>2 DEF EndEpoch, KillAndResume, StreamTaken
<1>3. CASE StepShards
  BY <1>1, <1>3 DEF StepShards, StreamTaken
<1>4. CASE Index
  <2>1. UNCHANGED <<step, group, loaded, yielded, phase, pc>>
    BY <1>4 DEF Index, packingVars, packVars, loopVars
  <2>2. QED
    BY <1>1, <2>1, TakenSame
<1>5. CASE StartTraining \/ NothingLeft \/ SkipTooMuch
  <2>1. /\ UNCHANGED <<step, group, loaded, yielded, phase>>
        /\ (pc = "load" /\ pc' = "epoch") \/ pc' \in {"over", "failed"}
    BY <1>5 DEF StartTraining, NothingLeft, SkipTooMuch, packingVars, packVars
  <2>2. QED
    BY <1>1, <2>1, TakenSame
<1>6. CASE UNCHANGED vars
  <2>1. UNCHANGED <<step, group, loaded, yielded, phase, pc>>
    BY <1>6 DEF vars, packingVars, packVars, loopVars
  <2>2. QED
    BY <1>1, <2>1, TakenSame
<1>7. QED
  BY <1>2, <1>3, <1>4, <1>5, <1>6, PackTaken, TakeBatchTaken, GroupTaken, BeginTaken
     DEF Next

-----------------------------------------------------------------------------
\* A step of all processes is one of the epoch, and when the stream is
\* exhausted all of them have been made.
LEMMA StepsOfStream ==
    ASSUME PacksInv, IndexInv, FeedInv, StreamTaken, args.streaming,
           pc \in {"skip", "train"}
    PROVE  /\ Len(group) = NumProcesses => step < StepsPerEpoch
           /\ Exhausted => step = StepsPerEpoch
<1> DEFINE b == BatchesTaken
           w == args.batchSize
           m == Len(PacksOfDataset)
           d == CeilDiv(m, w)
           p == NumProcesses
<1>1. /\ m \in Nat /\ w \in Nat \ {0} /\ b \in Nat /\ p \in Nat \ {0}
      /\ step \in Nat /\ Len(group) \in Nat /\ Len(yielded) \in Nat
      /\ yielded \in Seq(Packs) /\ step * p \in Nat
  BY StreamTypes
<1>2. StepsPerEpoch = d \div p
  BY DEF StepsPerEpoch, StepsOf, AllItems
<1>3. d \in Nat /\ (b >= d <=> b * w >= m)
  BY <1>1, CeilDivCovers
<1>4. b <= d /\ b = step * p + Len(group)
  BY DEF StreamTaken, BatchesTaken
<1>5. ASSUME Len(group) = p PROVE step < StepsPerEpoch
  <2> HIDE DEF b, d, p
  <2>1. (step + 1) * p = b
    BY <1>1, <1>4, <1>5
  <2>2. step + 1 <= d \div p
    <3>1. step + 1 \in Nat /\ (step + 1) * p <= d
      BY <1>1, <1>3, <1>4, <2>1
    <3>2. QED
      BY <1>1, <1>3, <3>1, DivAtLeast
  <2>3. d \div p \in Nat
    BY <1>1, <1>3, DivMod
  <2>4. QED
    BY <1>1, <1>2, <2>2, <2>3
<1>6. ASSUME Exhausted PROVE step = StepsPerEpoch
  <2>1. phase = "end" /\ loaded = <<>> /\ Len(group) < p
    BY <1>6 DEF Exhausted
  <2>2. yielded = PacksOfDataset
    BY <2>1, YieldedSoFar
  <2>3. b * w >= m
    <3>1. loaded = SubSeq(yielded, PacksTaken + 1, Len(yielded)) /\ PacksTaken = b * w
      BY DEF StreamTaken, PacksTaken
    <3>2. PacksTaken \in Nat
      BY StreamTypes
    <3>3. Len(loaded) = IF PacksTaken <= Len(yielded) THEN Len(yielded) - PacksTaken ELSE 0
      BY <1>1, <3>1, <3>2, RestAt
    <3>4. Len(loaded) = 0
      BY <2>1
    <3>5. PacksTaken >= Len(yielded)
      BY <1>1, <3>2, <3>3, <3>4
    <3>6. QED
      BY <2>2, <3>1, <3>5
  <2> HIDE DEF b, d, p, m, w
  <2>4. b = d
    BY <1>1, <1>3, <1>4, <2>3
  <2>5. d \div p = step
    BY <1>1, <1>4, <2>1, <2>4, DivUnique
  <2>6. QED
    BY <1>2, <2>5
<1>7. QED
  BY <1>5, <1>6

\* The batches of a group are those a step of an uninterrupted training has.
LEMMA ScatteredStep ==
    ASSUME PacksInv, IndexInv, FeedInv, StreamTaken, Scatter
    PROVE  [p \in Processes |-> group[p + 1]] = StreamedStep(AllItems, step + 1)
<1>1. pc = "train" /\ args.streaming /\ Len(group) = NumProcesses
  BY DEF Scatter
<1>2. AllItems = PacksOfDataset
  BY <1>1 DEF AllItems
<1>3. step \in Nat /\ NumProcesses \in Nat \ {0} /\ step * NumProcesses \in Nat
  BY StreamTypes
<1>4. \A j \in 1..Len(group) :
            group[j] = FlattenSeq(BatchOfStream(step * NumProcesses + j))
  BY <1>1 DEF StreamTaken
<1> DEFINE Batch(b) == SubSeq(PacksOfDataset, (b - 1) * args.batchSize + 1,
                           IF b * args.batchSize <= Len(PacksOfDataset)
                           THEN b * args.batchSize ELSE Len(PacksOfDataset))
<1>5. StreamedStep(PacksOfDataset, step + 1)
        = [p \in Processes |->
              FlattenSeq(Batch(((step + 1) - 1) * NumProcesses + p + 1))]
  BY DEF StreamedStep
<1>6. \A b : Batch(b) = BatchOfStream(b)
  BY DEF BatchOfStream
<1> HIDE DEF Batch
<1>7. ASSUME NEW p \in Processes
      PROVE  group[p + 1] = FlattenSeq(Batch(((step + 1) - 1) * NumProcesses + p + 1))
  <2>1. p + 1 \in 1..Len(group) /\ p \in Nat
    BY <1>1, <1>3 DEF Processes
  <2>2. (step + 1) - 1 = step
    BY <1>3
  <2>3. step * NumProcesses + p + 1 = step * NumProcesses + (p + 1)
    BY <1>3, <2>1
  <2>4. group[p + 1] = FlattenSeq(BatchOfStream(step * NumProcesses + (p + 1)))
    BY <1>4, <2>1
  <2>5. QED
    BY <1>6, <2>2, <2>3, <2>4
<1>8. QED
  BY <1>2, <1>5, <1>7, Zenon

-----------------------------------------------------------------------------
\* The next step of an uninterrupted training that has made `step' steps of
\* an epoch.
LEMMA UninterruptedAt ==
    ASSUME NEW e \in Nat, NEW k \in Nat, NEW n \in Nat, k < n, NEW items
    PROVE  Uninterrupted(items, n, e * n + k + 1)
             = [epoch |-> e,
                group |-> IF args.streaming THEN StreamedStep(items, k + 1)
                          ELSE ShardedStep(items, e, k + 1)]
<1> DEFINE i == e * n + k + 1
<1>1. e * n \in Nat /\ i - 1 = e * n + k
  <2> DEFINE m == e * n
  <2>1. m \in Nat
    OBVIOUS
  <2>2. i = m + k + 1
    OBVIOUS
  <2> HIDE DEF m, i
  <2>3. i - 1 = m + k
    BY <2>1, <2>2
  <2>4. QED
    BY <2>1, <2>3 DEF m
<1> HIDE DEF i
<1>2. (i - 1) \div n = e /\ (i - 1) % n = k
  <2>1. n \in Nat \ {0}
    OBVIOUS
  <2>2. (e * n + k) \div n = e /\ (e * n + k) % n = k
    BY <2>1, DivUnique, Zenon
  <2>3. i - 1 = e * n + k
    BY <1>1
  <2>4. QED
    BY <2>2, <2>3, Zenon
<1>3. QED
  BY <1>2, Zenon DEF Uninterrupted, i

LEMMA SeedSame ==
    ASSUME SetupInv, NEW k, NEW items, NEW e, args.shuffle => seed = e
    PROVE  ShardedGroup(k, items, seed) = ShardedStep(items, e, k)
<1>1. CASE args.shuffle
  BY <1>1 DEF ShardedStep
<1>2. CASE ~args.shuffle
  <2>1. ~args.groupByLength
    BY <1>2, DataFeedingAssumption DEF SetupInv
  <2>2. \A n : Order(n, seed) = Order(n, e)
    BY <1>2, <2>1 DEF Order
  <2>3. \A p, n : BatchesOf(p, n, seed) = BatchesOf(p, n, e)
    BY <2>2 DEF BatchesOf
  <2>4. QED
    BY <2>3, Zenon DEF ShardedStep, ShardedGroup
<1>3. QED
  BY <1>1, <1>2

-----------------------------------------------------------------------------
\* A loop that is where it was, or has come to its end.
LEMMA PlaceSame ==
    ASSUME StreamPlace, SeedFollows, TrainedSoFar,
           UNCHANGED <<dataset, lengths, args, epoch, step, skip, seed, trained, astray>>,
           pc' = pc \/ (pc = "load" /\ pc' = "epoch") \/ pc' = "over"
    PROVE  StreamPlace' /\ SeedFollows' /\ TrainedSoFar'
<1>1. /\ StepsPerEpoch' = StepsPerEpoch
      /\ \A i : Uninterrupted(AllItems, StepsPerEpoch, i)'
                   = Uninterrupted(AllItems, StepsPerEpoch, i)
  BY SameItems, SameSteps
<1>2. TrainedSoFar'
  BY <1>1 DEF TrainedSoFar
<1>3. SeedFollows'
  BY DEF SeedFollows
<1>4. StreamPlace'
  BY <1>1 DEF StreamPlace
<1>5. QED
  BY <1>2, <1>3, <1>4

LEMMA TrainedMore ==
    ASSUME HistoryTypes, TrainedSoFar, NEW t \in Trained, trained' = Append(trained, t),
           ~astray => t = Uninterrupted(AllItems, StepsPerEpoch, Len(trained) + 1),
           UNCHANGED <<dataset, lengths, args, astray>>, pc' # "failed"
    PROVE  TrainedSoFar'
<1>1. \A i : Uninterrupted(AllItems, StepsPerEpoch, i)'
                = Uninterrupted(AllItems, StepsPerEpoch, i)
  BY SameSteps
<1>2. /\ trained \in Seq(Trained) /\ Len(trained) \in Nat
      /\ Len(trained') = Len(trained) + 1
      /\ \A i \in 1..Len(trained) : trained'[i] = trained[i]
      /\ trained'[Len(trained) + 1] = t
  BY AppendProperties, LenProperties DEF HistoryTypes
<1>3. ASSUME ~astray, NEW i \in 1..Len(trained')
      PROVE  trained'[i] = Uninterrupted(AllItems, StepsPerEpoch, i)
  <2>1. CASE i \in 1..Len(trained)
    BY <1>2, <1>3, <2>1 DEF TrainedSoFar
  <2>2. CASE i = Len(trained) + 1
    BY <1>2, <1>3, <2>2
  <2>3. QED
    BY <1>2, <2>1, <2>2
<1>4. QED
  BY <1>1, <1>3 DEF TrainedSoFar

LEMMA BeginPlace ==
    ASSUME PacksInv, IndexInv, FeedInv, OrderInv, BeginEpoch
    PROVE  StreamPlace' /\ SeedFollows' /\ TrainedSoFar'
<1>1. /\ UNCHANGED <<dataset, lengths, args, epoch, skip, trained, astray>>
      /\ pc = "epoch" /\ seed' = IF skip > 0 THEN 0 ELSE epoch
      /\ step' = IF args.streaming THEN 0 ELSE skip
      /\ pc' = IF args.streaming /\ skip > 0 THEN "skip" ELSE "train"
  BY DEF BeginEpoch, SeedOfEpoch, packingVars, indexVars, setupVars
<1>2. /\ StepsPerEpoch' = StepsPerEpoch /\ skip \in Nat /\ epoch \in Nat
      /\ StepsPerEpoch \in Nat /\ epoch * StepsPerEpoch \in Nat
  <2>1. /\ StepsPerEpoch' = StepsPerEpoch /\ skip \in Nat /\ epoch \in Nat
        /\ StepsPerEpoch \in Nat
    BY <1>1, SameItems, FeedContext
  <2>2. QED
    BY <2>1
<1>3. StreamPlace /\ SeedFollows /\ TrainedSoFar
  BY DEF OrderInv
<1>4. TrainedSoFar'
  <2>1. \A i : Uninterrupted(AllItems, StepsPerEpoch, i)'
                = Uninterrupted(AllItems, StepsPerEpoch, i)
    BY <1>1, SameSteps
  <2>2. QED
    BY <1>1, <1>3, <2>1 DEF TrainedSoFar
<1>5. SeedFollows'
  <2>1. skip > 0 \/ skip = 0
    BY <1>2
  <2>2. QED
    BY <1>1, <1>3, <2>1 DEF SeedFollows
<1>6. StreamPlace'
  <2> SUFFICES ASSUME args.streaming, ~astray PROVE StreamPlace'
    BY <1>1 DEF StreamPlace
  <2>1. /\ Len(trained) = epoch * StepsPerEpoch + skip
        /\ skip = 0 \/ skip < StepsPerEpoch
    BY <1>1, <1>3 DEF StreamPlace
  <2>2. CASE skip > 0
    <3>1. pc' = "skip" /\ step' = 0 /\ 0 < skip /\ skip < StepsPerEpoch
      BY <1>1, <1>2, <2>1, <2>2
    <3>2. QED
      BY <1>1, <1>2, <2>1, <3>1 DEF StreamPlace
  <2>3. CASE skip = 0
    <3>1. pc' = "train" /\ step' = skip
      BY <1>1, <2>3
    <3>2. QED
      BY <1>1, <1>2, <2>1, <3>1 DEF StreamPlace
  <2>4. QED
    BY <1>2, <2>2, <2>3
<1>7. QED
  BY <1>4, <1>5, <1>6

LEMMA SkipPlace ==
    ASSUME PacksInv, IndexInv, FeedInv, OrderInv, SkipGroup \/ SkipTooMuch
    PROVE  StreamPlace' /\ SeedFollows' /\ TrainedSoFar'
<1>1. /\ UNCHANGED <<dataset, lengths, args, epoch, skip, seed, trained, astray>>
      /\ pc = "skip"
      /\ \/ /\ step' = step + 1
            /\ pc' = IF step + 1 = skip THEN "train" ELSE "skip"
         \/ Exhausted /\ pc' = "failed" /\ step' = step
  BY DEF SkipGroup, SkipTooMuch, packingVars, indexVars, setupVars
<1>2. /\ StepsPerEpoch' = StepsPerEpoch /\ skip \in Nat /\ step \in Nat
      /\ StepsPerEpoch \in Nat
  BY <1>1, SameItems, FeedContext
<1>3. StreamPlace /\ TrainedSoFar /\ StreamTaken
  BY DEF OrderInv
<1>4. args.streaming
  BY <1>1, FeedContext DEF FeedInv, DealtPlace
<1>5. SeedFollows'
  BY <1>1, <1>4 DEF SeedFollows
<1>6. ASSUME ~astray
      PROVE  /\ Len(trained) = epoch * StepsPerEpoch + skip
             /\ step < skip /\ skip < StepsPerEpoch /\ pc' # "failed"
  <2>1. /\ Len(trained) = epoch * StepsPerEpoch + skip
        /\ step < skip /\ skip < StepsPerEpoch
    BY <1>1, <1>3, <1>4, <1>6 DEF StreamPlace
  <2>2. Exhausted => step = StepsPerEpoch
    BY <1>1, <1>3, <1>4, StepsOfStream
  <2>3. ~Exhausted
    BY <1>2, <2>1, <2>2
  <2>4. QED
    BY <1>1, <2>1, <2>3
<1>7. TrainedSoFar'
  <2>1. \A i : Uninterrupted(AllItems, StepsPerEpoch, i)'
                = Uninterrupted(AllItems, StepsPerEpoch, i)
    BY <1>1, SameSteps
  <2>2. QED
    BY <1>1, <1>3, <1>6, <2>1 DEF TrainedSoFar
<1>8. StreamPlace'
  <2> SUFFICES ASSUME ~astray PROVE StreamPlace'
    BY <1>1 DEF StreamPlace
  <2>1. CASE step + 1 = skip
    <3>1. pc' = "train" /\ step' = skip
      BY <1>1, <1>6, <2>1
    <3>2. QED
      BY <1>1, <1>2, <1>6, <3>1 DEF StreamPlace
  <2>2. CASE step + 1 # skip
    <3>1. pc' = "skip" /\ step' = step + 1 /\ step + 1 < skip
      BY <1>1, <1>2, <1>6, <2>2
    <3>2. QED
      BY <1>1, <1>2, <1>6, <3>1 DEF StreamPlace
  <2>3. QED
    BY <2>1, <2>2
<1>9. QED
  BY <1>5, <1>7, <1>8

LEMMA EndPlace ==
    ASSUME PacksInv, IndexInv, FeedInv, OrderInv, EndEpoch
    PROVE  StreamPlace' /\ SeedFollows' /\ TrainedSoFar'
<1>1. /\ UNCHANGED <<dataset, lengths, args, trained, astray>>
      /\ pc = "train" /\ pc' \in {"over", "epoch"}
      /\ args.streaming => Exhausted
      /\ epoch' = epoch + 1 /\ skip' = 0
  BY DEF EndEpoch, setupVars, indexVars
<1>2. /\ StepsPerEpoch' = StepsPerEpoch /\ epoch \in Nat /\ step \in Nat
      /\ StepsPerEpoch \in Nat
  BY <1>1, SameItems, FeedContext
<1>3. StreamPlace /\ TrainedSoFar /\ StreamTaken
  BY DEF OrderInv
<1>4. SeedFollows'
  BY <1>1 DEF SeedFollows
<1>5. TrainedSoFar'
  <2>1. \A i : Uninterrupted(AllItems, StepsPerEpoch, i)'
                = Uninterrupted(AllItems, StepsPerEpoch, i)
    BY <1>1, SameSteps
  <2>2. QED
    BY <1>1, <1>3, <2>1 DEF TrainedSoFar
<1>6. StreamPlace'
  <2> SUFFICES ASSUME args.streaming, ~astray PROVE StreamPlace'
    BY <1>1 DEF StreamPlace
  <2> DEFINE n == StepsPerEpoch
             l == Len(trained)
  <2>1. l = epoch * n + step
    BY <1>1, <1>3 DEF StreamPlace
  <2>2. step = n
    BY <1>1, <1>3, StepsOfStream
  <2>3. (epoch + 1) * n + 0 = epoch * n + n
    BY <1>2
  <2> HIDE DEF n, l
  <2>4. l = (epoch + 1) * n + 0
    BY <2>1, <2>2, <2>3
  <2>5. Len(trained') = epoch' * StepsPerEpoch' + skip'
    BY <1>1, <1>2, <2>4 DEF n, l
  <2>6. QED
    BY <1>1, <2>5 DEF StreamPlace
<1>7. QED
  BY <1>4, <1>5, <1>6

LEMMA ScatterPlace ==
    ASSUME PacksInv, IndexInv, FeedInv, OrderInv, Scatter
    PROVE  StreamPlace' /\ SeedFollows' /\ TrainedSoFar'
<1> DEFINE samples == [p \in Processes |-> group[p + 1]]
           t == [epoch |-> epoch, group |-> samples]
           n == StepsPerEpoch
           a == epoch * n
<1>1. /\ pc = "train" /\ pc' \in {"train", "over"} /\ args.streaming
      /\ Len(group) = NumProcesses /\ step' = step + 1
      /\ trained' = Append(trained, t)
      /\ UNCHANGED <<dataset, lengths, args, epoch, astray>>
  BY DEF Scatter, Train, packingVars, indexVars, setupVars
<1>2. /\ StepsPerEpoch' = StepsPerEpoch /\ epoch \in Nat /\ step \in Nat
      /\ n \in Nat /\ NumProcesses \in Nat \ {0} /\ MaxEpochs \in Nat
  BY <1>1, SameItems, FeedContext
<1>3. StreamPlace /\ TrainedSoFar /\ StreamTaken /\ LoopTypes /\ HistoryTypes
  BY DEF OrderInv, FeedInv
<1>4. SeedFollows'
  BY <1>1 DEF SeedFollows
<1>5. step < n
  BY <1>1, <1>3, StepsOfStream
<1>6. samples = StreamedStep(AllItems, step + 1)
  BY <1>3, ScatteredStep
<1>7. samples \in [Processes -> Seq(Samples)]
  <2>1. \A p \in Processes : p + 1 \in 1..Len(group)
    BY <1>1, <1>2 DEF Processes
  <2>2. group \in Seq(Seq(Samples))
    BY <1>3 DEF LoopTypes
  <2>3. \A p \in Processes : group[p + 1] \in Seq(Samples)
    BY <2>1, <2>2, ElementOfSeq
  <2>4. QED
    BY <2>3
<1>8. epoch \in 0..MaxEpochs - 1
  BY <1>1, <1>2, <1>3 DEF LoopTypes
<1> HIDE DEF samples
<1>9. t \in Trained
  BY <1>7, <1>8 DEF Trained
<1>10. Uninterrupted(AllItems, n, a + step + 1) = t
  <2> HIDE DEF n
  <2>1. QED
    BY <1>1, <1>2, <1>5, <1>6, UninterruptedAt
<1> HIDE DEF t
<1>11. ~astray => Len(trained) = a + step
  BY <1>1, <1>3 DEF StreamPlace
<1>12. TrainedSoFar'
  <2>1. ~astray => t = Uninterrupted(AllItems, StepsPerEpoch, Len(trained) + 1)
    <3> HIDE DEF a
    <3>1. QED
      BY <1>10, <1>11
  <2>2. QED
    BY <1>1, <1>3, <1>9, <2>1, TrainedMore
<1>13. StreamPlace'
  <2> SUFFICES ASSUME ~astray PROVE StreamPlace'
    BY <1>1 DEF StreamPlace
  <2>1. Len(trained') = Len(trained) + 1 /\ Len(trained) \in Nat
    BY <1>1, <1>3, <1>9, AppendProperties, LenProperties DEF HistoryTypes
  <2>2. Len(trained') = a + (step + 1)
    <3>1. a \in Nat
      BY <1>2
    <3> HIDE DEF a
    <3>2. QED
      BY <1>2, <1>11, <2>1, <3>1
  <2>3. QED
    BY <1>1, <1>2, <2>2 DEF StreamPlace
<1>14. QED
  BY <1>4, <1>12, <1>13

LEMMA StepShardsPlace ==
    ASSUME PacksInv, IndexInv, FeedInv, OrderInv, StepShards
    PROVE  StreamPlace' /\ SeedFollows' /\ TrainedSoFar'
<1> DEFINE samples == ShardedGroup(step + 1, Rows, seed)
           t == [epoch |-> epoch, group |-> samples]
           n == StepsPerEpoch
           a == epoch * n
<1>1. /\ pc = "train" /\ pc' = pc /\ ~args.streaming
      /\ step < StepsInEpoch
      /\ trained' = Append(trained, t)
      /\ UNCHANGED <<dataset, lengths, args, epoch, skip, seed, astray>>
  BY DEF StepShards, Train, packingVars, indexVars, setupVars
<1>2. /\ epoch \in Nat /\ step \in Nat /\ n \in Nat /\ SetupInv
  BY FeedContext
<1>3. SeedFollows /\ TrainedSoFar /\ HistoryTypes /\ DealtPlace
  BY DEF OrderInv, FeedInv
<1>4. StreamPlace'
  BY <1>1 DEF StreamPlace
<1>5. SeedFollows'
  BY <1>1, <1>3 DEF SeedFollows
<1>6. Rows = AllItems /\ StepsInEpoch = n
  BY <1>1, <1>3, RowsAre DEF DealtPlace
<1>7. Len(trained) = a + step /\ step < n
  BY <1>1, <1>3, <1>6 DEF DealtPlace
<1>8. ~astray => samples = ShardedStep(AllItems, epoch, step + 1)
  <2>1. ~astray /\ args.shuffle => seed = epoch
    BY <1>1, <1>3 DEF SeedFollows
  <2>2. ~astray => ShardedGroup(step + 1, AllItems, seed)
                     = ShardedStep(AllItems, epoch, step + 1)
    BY <1>2, <2>1, SeedSame
  <2>3. QED
    BY <1>6, <2>2
<1>9. t \in Trained
  <2>1. samples \in [Processes -> Seq(Samples)]
    BY DealtGroup
  <2>2. epoch \in 0..MaxEpochs - 1
    BY <1>1, <1>2, DataFeedingAssumption DEF FeedInv, LoopTypes
  <2> HIDE DEF samples
  <2>3. QED
    BY <2>1, <2>2 DEF Trained
<1> HIDE DEF samples
<1>10. ~args.streaming => Uninterrupted(AllItems, n, a + step + 1)
         = [epoch |-> epoch, group |-> ShardedStep(AllItems, epoch, step + 1)]
  <2> HIDE DEF n
  <2>1. QED
    BY <1>2, <1>7, UninterruptedAt
<1>11. ~astray => t = Uninterrupted(AllItems, StepsPerEpoch, Len(trained) + 1)
  <2> HIDE DEF a
  <2>1. QED
    BY <1>1, <1>7, <1>8, <1>10
<1> HIDE DEF t
<1>12. TrainedSoFar'
  BY <1>1, <1>3, <1>9, <1>11, TrainedMore
<1>13. QED
  BY <1>4, <1>5, <1>12

\* A training is taken up where its last checkpoint was made; unless it is led
\* astray, it skips no further than into the first epoch of a shuffled dataset,
\* and never past the end of a stream.
LEMMA KillPlace ==
    ASSUME PacksInv, IndexInv, FeedInv, OrderInv, KillAndResume
    PROVE  StreamPlace' /\ SeedFollows' /\ TrainedSoFar'
<1> DEFINE n == StepsPerEpoch
           s == Len(checkpoint)
<1>1. /\ UNCHANGED <<dataset, lengths, args>>
      /\ pc' = "load" /\ trained' = checkpoint
  BY DEF KillAndResume, setupVars
<1>2. \/ checkpoint = <<>> /\ epoch' = 0 /\ skip' = 0 /\ astray' = astray
      \/ /\ checkpoint # <<>>
         /\ epoch' = ResumeEpoch(s, n) /\ skip' = ResumeSkip(s, n)
         /\ astray' = (astray \/ CannotFollow(s, n))
  BY DEF KillAndResume, StepsPerEpoch
<1>3. TrainedSoFar /\ LoopTypes /\ HistoryTypes
  BY DEF OrderInv, FeedInv
<1>4. /\ StepsPerEpoch' = StepsPerEpoch /\ n \in Nat /\ s \in Nat
  BY <1>1, SameItems, FeedContext
<1>5. ~astray' => ~astray
  BY <1>2, <1>3 DEF LoopTypes
<1>6. TrainedSoFar'
  <2>1. \A i : Uninterrupted(AllItems, StepsPerEpoch, i)'
                = Uninterrupted(AllItems, StepsPerEpoch, i)
    BY <1>1, SameSteps
  <2>2. /\ \A i \in 1..s : trained[i] = checkpoint[i]
        /\ \A i \in 1..s : i \in 1..Len(trained)
    BY <1>3, <1>4, LenProperties DEF HistoryTypes, Prefix
  <2>3. QED
    BY <1>1, <1>3, <1>5, <2>1, <2>2 DEF TrainedSoFar
<1>7. StreamPlace'
  <2> SUFFICES ASSUME args.streaming, ~astray' PROVE StreamPlace'
    BY <1>1 DEF StreamPlace
  <2>1. epoch' = 0 /\ skip' = s /\ (skip' = 0 \/ skip' < n)
    <3>1. CASE checkpoint = <<>>
      BY <1>2, <3>1
    <3>2. CASE checkpoint # <<>>
      <4>1. ~CannotFollow(s, n) /\ epoch' = 0 /\ skip' = s
        BY <1>2, <1>3, <3>2 DEF ResumeEpoch, ResumeSkip, LoopTypes
      <4>2. ~(s >= n)
        BY <4>1 DEF CannotFollow
      <4>3. QED
        BY <1>4, <4>1, <4>2
    <3>3. QED
      BY <3>1, <3>2
  <2>2. 0 * n + s = s
    BY <1>4
  <2> HIDE DEF n, s
  <2>3. Len(trained') = epoch' * StepsPerEpoch' + skip'
    BY <1>1, <1>4, <2>1, <2>2 DEF n, s
  <2>4. skip' = 0 \/ skip' < StepsPerEpoch'
    BY <1>4, <2>1 DEF n
  <2>5. QED
    BY <1>1, <2>3, <2>4 DEF StreamPlace
<1>8. SeedFollows'
  <2> SUFFICES ASSUME ~args.streaming, args.shuffle, ~astray', skip' > 0
               PROVE  epoch' = 0
    BY <1>1 DEF SeedFollows
  <2> DEFINE k == skip'
             left == s % n
  <2>1. k = left /\ ~CannotFollow(s, n)
    <3>1. k > 0
      OBVIOUS
    <3> HIDE DEF k
    <3>2. k # 0
      BY <3>1
    <3> USE DEF k
    <3>3. /\ checkpoint # <<>> /\ skip' = ResumeSkip(s, n)
          /\ astray' = (astray \/ CannotFollow(s, n))
      <4> HIDE DEF s, n
      <4>1. QED
        BY <1>2, <3>2
    <3>4. ~CannotFollow(s, n)
      <4> HIDE DEF s, n
      <4>1. QED
        BY <3>3
    <3>5. ResumeSkip(s, n) = left
      <4> HIDE DEF s, n
      <4>1. QED
        BY DEF ResumeSkip
    <3>6. QED
      BY <3>3, <3>4, <3>5
  <2>2. ~(s > n)
    <3> HIDE DEF left, s, n
    <3>1. left > 0
      <4> HIDE DEF k
      <4>1. k > 0
        BY DEF k
      <4>2. QED
        BY <2>1, <4>1
    <3>2. ~(s > n /\ left > 0)
      BY <2>1 DEF CannotFollow, left
    <3>3. QED
      BY <3>1, <3>2
  <2> HIDE DEF left
  <2>3. s <= n
    <3> HIDE DEF s, n
    <3>1. QED
      BY <1>4, <2>2
  <2>4. LoopTypes' /\ DealtPlace'
    BY KillFeed
  <2>5. s = epoch' * n + skip' /\ epoch' \in Nat /\ skip' \in Nat
    <3>1. Len(trained') = epoch' * StepsPerEpoch' + skip'
      BY <1>1, <2>4 DEF DealtPlace
    <3>2. epoch' \in Nat /\ skip' \in Nat
      BY <2>4, DataFeedingAssumption DEF LoopTypes
    <3>3. QED
      BY <1>1, <1>4, <3>1, <3>2
  <2> DEFINE e == epoch'
  <2>6. s = e * n + k /\ e \in Nat /\ k \in Nat /\ k > 0 /\ s <= n
    BY <2>3, <2>5
  <2> HIDE DEF e, k, n, s
  <2>7. ASSUME e # 0 PROVE FALSE
    <3>1. 1 <= e /\ 1 \in Nat
      BY <2>6, <2>7
    <3>2. 1 * n <= e * n /\ e * n \in Nat /\ 1 * n = n
      BY <1>4, <2>6, <3>1, TimesMonotone
    <3>3. QED
      BY <1>4, <2>6, <3>2
  <2>8. QED
    BY <2>7 DEF e
<1>9. QED
  BY <1>6, <1>7, <1>8

-----------------------------------------------------------------------------
LEMMA InitOrder == Init => OrderInv
<1> SUFFICES ASSUME Init PROVE OrderInv
  OBVIOUS
<1> DEFINE none == <<>>
           n == StepsPerEpoch
<1>1. /\ loaded = none /\ yielded = none /\ group = none /\ trained = none
      /\ pc = "load" /\ epoch = 0 /\ skip = 0
  BY DEF Init, FreshPass
<1>2. n \in Nat
  BY InitFeed, InitPacks, InitIndex, FeedContext
<1>3. Len(none) = 0 /\ 0 * n + 0 = 0
  BY <1>2
<1>4. StreamTaken
  BY <1>1 DEF StreamTaken
<1> HIDE DEF none, n
<1>5. StreamPlace
  BY <1>1, <1>3 DEF StreamPlace, n
<1>6. SeedFollows
  BY <1>1 DEF SeedFollows
<1>7. TrainedSoFar
  <2>1. \A i \in 1..Len(trained) : FALSE
    BY <1>1, <1>3
  <2>2. QED
    BY <1>1, <2>1 DEF TrainedSoFar
<1>8. QED
  BY <1>4, <1>5, <1>6, <1>7 DEF OrderInv

LEMMA OrderStep ==
    ASSUME PacksInv, IndexInv, FeedInv, OrderInv, [Next]_vars PROVE OrderInv'
<1>1. StreamTaken'
  BY TakenStep DEF OrderInv
<1>2. StreamPlace' /\ SeedFollows' /\ TrainedSoFar'
  <2>1. UNCHANGED <<dataset, lengths, args>>
    BY NextSetup
  <2>2. StreamPlace /\ SeedFollows /\ TrainedSoFar
    BY DEF OrderInv
  <2>3. CASE Index \/ Pack \/ UNCHANGED vars
    <3>1. UNCHANGED <<epoch, step, skip, seed, trained, astray, pc>>
      BY <2>3 DEF Index, Pack, vars, loopVars
    <3>2. QED
      BY <2>1, <2>2, <3>1, PlaceSame
  <2>4. CASE StartTraining \/ NothingLeft \/ TakeBatch
    <3>1. /\ UNCHANGED <<epoch, step, skip, seed, trained, astray>>
          /\ pc' = pc \/ (pc = "load" /\ pc' = "epoch") \/ pc' = "over"
      BY <2>4 DEF StartTraining, NothingLeft, TakeBatch
    <3>2. QED
      BY <2>1, <2>2, <3>1, PlaceSame
  <2>5. QED
    BY <2>3, <2>4, BeginPlace, SkipPlace, EndPlace, ScatterPlace, StepShardsPlace,
       KillPlace DEF Next
<1>3. QED
  BY <1>1, <1>2 DEF OrderInv

LEMMA OrderAlways == Spec => []OrderInv
<1>1. PacksInv /\ IndexInv /\ FeedInv /\ OrderInv /\ [Next]_vars => OrderInv'
  BY OrderStep
<1>2. QED
  BY <1>1, InitOrder, PacksAlways, IndexAlways, FeedAlways, PTL DEF Spec

LEMMA OrderFollows ==
    ASSUME PacksInv, IndexInv, FeedInv, OrderInv
    PROVE  TrainedInOrder
<1>1. TrainedSoFar /\ trained \in Seq(Trained)
  BY DEF OrderInv, FeedInv, HistoryTypes
<1>2. DOMAIN trained = 1..Len(trained)
  BY <1>1, LenProperties
<1>3. StepsPerEpoch = StepsOf(Len(AllItems))
  BY DEF StepsPerEpoch
<1>4. QED
  BY <1>1, <1>2, <1>3 DEF TrainedSoFar, TrainedInOrder

\* Wherever a training is killed, and however far the loader and the workers of
\* a stream had got, what is trained in the history that survives is, step for
\* step and process for process, what a training that is never interrupted
\* trains, and skipping never fails, unless it was resumed in one of the two
\* places the loaders cannot follow.
THEOREM TrainedInOrderAlways == Spec => []TrainedInOrder
BY PacksAlways, IndexAlways, FeedAlways, OrderAlways, OrderFollows, PTL

-----------------------------------------------------------------------------
(***************************************************************************)
(* That an epoch trains every sample once.                                 *)
(***************************************************************************)
\* The epochs before this one have been trained to their end.
EpochsTrained ==
    /\ StepsPerEpoch = 0 => Len(trained) = 0
    /\ ~astray => epoch * StepsPerEpoch <= Len(trained)

LEMMA InitEpochs == Init => EpochsTrained
<1> SUFFICES ASSUME Init PROVE EpochsTrained
  OBVIOUS
<1> DEFINE n == StepsPerEpoch
<1>1. trained = <<>> /\ epoch = 0
  BY DEF Init
<1>2. n \in Nat
  BY InitFeed, InitPacks, InitIndex, FeedContext
<1>3. Len(trained) = 0
  BY <1>1
<1> HIDE DEF n
<1>4. 0 * n <= 0
  BY <1>2
<1>5. QED
  BY <1>1, <1>3, <1>4 DEF EpochsTrained, n

\* A step is trained in an epoch that has steps.
LEMMA TrainEpochs ==
    ASSUME PacksInv, IndexInv, FeedInv, OrderInv, EpochsTrained,
           Scatter \/ StepShards
    PROVE  EpochsTrained'
<1> DEFINE n == StepsPerEpoch
           before == Len(trained)
           after == Len(trained')
<1>1. /\ pc = "train" /\ UNCHANGED <<dataset, lengths, args, epoch, astray>>
      /\ \E t : trained' = Append(trained, t)
  BY DEF Scatter, StepShards, Train, packingVars, indexVars, setupVars
<1>2. /\ StepsPerEpoch' = n /\ n \in Nat /\ before \in Nat /\ epoch \in Nat
      /\ step \in Nat
  BY <1>1, SameItems, FeedContext
<1>3. after = before + 1
  <2>1. PICK t : trained' = Append(trained, t)
    BY <1>1
  <2>2. trained \in Seq(Trained \cup {t})
    <3>1. trained \in Seq(Trained)
      BY DEF FeedInv, HistoryTypes
    <3>2. DOMAIN trained = 1..before /\ trained \in [1..before -> Trained]
      BY <3>1, LenProperties
    <3>3. trained \in [1..before -> Trained \cup {t}]
      BY <3>2
    <3>4. QED
      BY <1>2, <3>3, SeqDef
  <2>3. QED
    BY <2>1, <2>2, AppendProperties
<1>4. step < n
  <2>1. CASE Scatter
    BY <1>1, <2>1, StepsOfStream DEF Scatter, OrderInv
  <2>2. CASE StepShards
    <3>1. ~args.streaming /\ step < StepsInEpoch /\ DealtPlace
      BY <2>2 DEF StepShards, FeedInv
    <3>2. StepsInEpoch = n
      BY <1>1, <3>1, RowsAre DEF DealtPlace
    <3>3. QED
      BY <3>1, <3>2
  <2>3. QED
    BY <2>1, <2>2
<1>5. ~astray => epoch * n <= before
  BY DEF EpochsTrained
<1> DEFINE a == epoch * n
<1>6. a \in Nat
  BY <1>2
<1> HIDE DEF n, before, after, a
<1>7. n # 0 /\ (~astray => a <= after)
  BY <1>2, <1>3, <1>4, <1>5, <1>6 DEF a
<1>8. QED
  BY <1>1, <1>2, <1>7 DEF EpochsTrained, n, after, a

LEMMA EndEpochs ==
    ASSUME PacksInv, IndexInv, FeedInv, OrderInv, EpochsTrained, EndEpoch
    PROVE  EpochsTrained'
<1> DEFINE n == StepsPerEpoch
           l == Len(trained)
           a == epoch * n
<1>1. /\ pc = "train" /\ UNCHANGED <<dataset, lengths, args, trained, astray>>
      /\ epoch' = epoch + 1
      /\ IF args.streaming THEN Exhausted ELSE step = StepsInEpoch
  BY DEF EndEpoch, setupVars, indexVars
<1>2. /\ StepsPerEpoch' = n /\ n \in Nat /\ l \in Nat /\ epoch \in Nat
      /\ step \in Nat
  BY <1>1, SameItems, FeedContext
<1>3. ~astray => l = a + n
  <2>1. CASE args.streaming
    <3>1. step = n
      BY <1>1, <2>1, StepsOfStream DEF OrderInv
    <3>2. ~astray => l = a + step
      BY <1>1, <2>1 DEF OrderInv, StreamPlace
    <3>3. QED
      BY <3>1, <3>2
  <2>2. CASE ~args.streaming
    <3>1. DealtPlace
      BY DEF FeedInv
    <3>2. StepsInEpoch = n
      BY <1>1, <2>2, <3>1, RowsAre DEF DealtPlace
    <3>3. QED
      BY <1>1, <2>2, <3>1, <3>2 DEF DealtPlace
  <2>3. QED
    BY <2>1, <2>2
<1>4. (epoch + 1) * n = a + n /\ a \in Nat
  BY <1>2
<1>5. EpochsTrained
  OBVIOUS
<1>6. StepsPerEpoch' = 0 => Len(trained') = 0
  BY <1>1, <1>2, <1>5 DEF EpochsTrained
<1>7. ~astray' => epoch' * StepsPerEpoch' <= Len(trained')
  <2> SUFFICES ASSUME ~astray' PROVE epoch' * StepsPerEpoch' <= Len(trained')
    OBVIOUS
  <2> HIDE DEF a, n, l
  <2>1. (epoch + 1) * n <= l
    BY <1>1, <1>2, <1>3, <1>4
  <2>2. QED
    BY <1>1, <1>2, <2>1 DEF l
<1>8. QED
  BY <1>6, <1>7 DEF EpochsTrained

\* The epoch a training is resumed in is that of its last checkpoint.
LEMMA KillEpochs ==
    ASSUME PacksInv, IndexInv, FeedInv, OrderInv, EpochsTrained, KillAndResume
    PROVE  EpochsTrained'
<1> DEFINE n == StepsPerEpoch
           s == Len(checkpoint)
<1>1. /\ UNCHANGED <<dataset, lengths, args>> /\ trained' = checkpoint
      /\ \/ epoch' = 0
         \/ checkpoint # <<>> /\ epoch' = ResumeEpoch(s, n)
  BY DEF KillAndResume, setupVars, StepsPerEpoch
<1>2. /\ StepsPerEpoch' = n /\ n \in Nat /\ s \in Nat /\ Len(trained) \in Nat
      /\ s <= Len(trained)
  BY <1>1, SameItems, FeedContext
<1>3. n = 0 => s = 0
  BY <1>2 DEF EpochsTrained
<1>4. epoch' * n <= s
  <2>1. CASE epoch' = 0
    <3> HIDE DEF n, s
    <3>1. 0 * n = 0
      BY <1>2
    <3>2. QED
      BY <1>2, <2>1, <3>1
  <2>2. CASE checkpoint # <<>> /\ epoch' = s \div n /\ epoch' # 0
    <3>1. s # 0
      BY <2>2, LenProperties DEF FeedInv, HistoryTypes
    <3> HIDE DEF n, s
    <3>2. n \in Nat \ {0}
      BY <1>2, <1>3, <3>1
    <3>3. /\ s \div n \in Nat /\ s % n \in 0..n - 1
          /\ s = (s \div n) * n + (s % n)
      BY <1>2, <3>2, DivMod
    <3>4. (s \div n) * n <= s
      <4> DEFINE q == (s \div n) * n
                 r == s % n
      <4>1. q \in Nat /\ r \in Nat /\ s = q + r
        BY <3>2, <3>3
      <4> HIDE DEF q, r
      <4>2. q <= s
        BY <4>1
      <4>3. QED
        BY <4>2 DEF q
    <3>5. QED
      BY <2>2, <3>4
  <2>3. QED
    BY <1>1, <2>1, <2>2 DEF ResumeEpoch
<1> HIDE DEF n, s
<1>5. StepsPerEpoch' = 0 => Len(trained') = 0
  BY <1>1, <1>2, <1>3 DEF s
<1>6. epoch' * StepsPerEpoch' <= Len(trained')
  BY <1>1, <1>2, <1>4 DEF s
<1>7. QED
  BY <1>5, <1>6 DEF EpochsTrained

LEMMA EpochsStep ==
    ASSUME PacksInv, IndexInv, FeedInv, OrderInv, EpochsTrained, [Next]_vars
    PROVE  EpochsTrained'
<1>1. UNCHANGED <<dataset, lengths, args>>
  BY NextSetup
<1>2. ASSUME UNCHANGED <<epoch, trained, astray>> PROVE EpochsTrained'
  <2>1. StepsPerEpoch' = StepsPerEpoch
    BY <1>1, SameItems
  <2>2. QED
    BY <1>2, <2>1 DEF EpochsTrained
<1>3. CASE Index \/ Pack \/ UNCHANGED vars
  BY <1>2, <1>3 DEF Index, Pack, vars, loopVars
<1>4. CASE \/ StartTraining \/ BeginEpoch \/ NothingLeft \/ TakeBatch \/ SkipGroup
           \/ SkipTooMuch
  BY <1>2, <1>4 DEF StartTraining, BeginEpoch, NothingLeft, TakeBatch, SkipGroup,
     SkipTooMuch
<1>5. QED
  BY <1>3, <1>4, TrainEpochs, EndEpochs, KillEpochs DEF Next

LEMMA EpochsAlways == Spec => []EpochsTrained
<1>1. PacksInv /\ IndexInv /\ FeedInv /\ OrderInv /\ EpochsTrained /\ [Next]_vars
        => EpochsTrained'
  BY EpochsStep
<1>2. QED
  BY <1>1, InitEpochs, PacksAlways, IndexAlways, FeedAlways, OrderAlways, PTL DEF Spec

-----------------------------------------------------------------------------
\* Some of the packs, each at most once, one after another.
Chosen(packs, places) == [j \in DOMAIN places |-> packs[places[j]]]

LEMMA ChosenOnce ==
    ASSUME NEW S, NEW packs \in Seq(Seq(S)), NEW X, EachOnce(packs, X),
           NEW places \in Seq(DOMAIN packs),
           \A i, j \in DOMAIN places : places[i] = places[j] => i = j
    PROVE  /\ FlattenSeq(Chosen(packs, places)) \in Seq(S)
           /\ Once(FlattenSeq(Chosen(packs, places)),
                   UNION {ToSet(packs[places[j]]) : j \in DOMAIN places})
<1> DEFINE parts == Chosen(packs, places)
           m == Len(places)
           Y(k) == UNION {ToSet(packs[places[j]]) : j \in 1..k}
           Good(s, k) == s \in Seq(S) /\ Once(s, Y(k))
<1>1. /\ m \in Nat /\ DOMAIN places = 1..m
      /\ \A j \in 1..m : places[j] \in DOMAIN packs
  BY LenProperties, ElementOfSeq
<1>2. /\ \A i, j \in 1..m : places[i] = places[j] => i = j
      /\ parts = [j \in 1..m |-> packs[places[j]]]
  BY <1>1 DEF Chosen
<1> HIDE DEF parts, m
<1>3. \A j \in 1..m : packs[places[j]] \in Seq(S)
  <2>1. DOMAIN packs = 1..Len(packs)
    BY LenProperties
  <2>2. QED
    BY <1>1, <2>1, ElementOfSeq
<1>4. ASSUME NEW j \in 1..m PROVE Once(packs[places[j]], ToSet(packs[places[j]]))
  <2>1. places[j] \in DOMAIN packs
    BY <1>1
  <2>2. QED
    BY <2>1 DEF Once, EachOnce
<1>5. ASSUME NEW j \in 1..m, NEW k \in 1..m, j # k
      PROVE  ToSet(packs[places[j]]) \cap ToSet(packs[places[k]]) = {}
  <2>1. /\ places[j] \in DOMAIN packs /\ places[k] \in DOMAIN packs
        /\ places[j] # places[k]
    BY <1>1, <1>2, <1>5
  <2>2. QED
    BY <2>1 DEF EachOnce, ToSet
<1>6. Len(parts) = m /\ parts \in [1..m -> Seq(S)]
  BY <1>1, <1>2, <1>3
<1>7. CASE m = 0
  <2> DEFINE none == <<>>
  <2>1. parts = none
    BY <1>2, <1>7
  <2>2. FlattenSeq(none) = none
    BY DEF FlattenSeq
  <2>3. Y(m) = {}
    BY <1>7
  <2>4. none \in Seq(S) /\ Once(none, {})
    BY OnceEmpty
  <2> HIDE DEF none, Y
  <2>5. Good(FlattenSeq(parts), m)
    BY <2>1, <2>2, <2>3, <2>4
  <2>6. QED
    BY <1>1, <2>5 DEF Y, parts
<1>8. CASE m # 0
  <2>1. PICK f : Concats(parts, m, f) /\ FlattenSeq(parts) = f[m]
    <3>1. Len(parts) \in Nat \ {0}
      BY <1>1, <1>6, <1>8
    <3>2. \E f : Concats(parts, Len(parts), f) /\ FlattenSeq(parts) = f[Len(parts)]
      BY <3>1, FlattenConcats
    <3>3. QED
      BY <1>6, <3>2
  <2> DEFINE T == {k \in 0..m : k # 0 => Good(f[k], k)}
  <2>2. 0 \in T /\ T \in SUBSET Nat
    BY <1>1
  <2>3. ASSUME NEW k \in T, k < m PROVE k + 1 \in T
    <3>1. k \in Nat /\ k + 1 \in 1..m /\ k + 1 \in 0..m /\ k < m
      BY <1>1, <2>3
    <3> DEFINE x == parts[k + 1]
               N == ToSet(packs[places[k + 1]])
    <3>2. x = packs[places[k + 1]] /\ x \in Seq(S) /\ Once(x, N)
      BY <1>2, <1>3, <1>4, <3>1
    <3>3. Y(k + 1) = Y(k) \cup N
      <4>1. \A j : j \in 1..k + 1 <=> j \in 1..k \/ j = k + 1
        BY <3>1
      <4>2. QED
        BY <4>1
    <3>4. Y(k) \cap N = {}
      <4>1. \A j \in 1..k : j \in 1..m /\ j # k + 1
        BY <1>1, <2>3, <3>1
      <4>2. \A j \in 1..k : ToSet(packs[places[j]]) \cap N = {}
        BY <1>5, <3>1, <4>1
      <4>3. QED
        BY <4>2
    <3>5. CASE k = 0
      <4>1. f[k + 1] = x
        <5>1. f[1] = parts[1]
          BY <1>1, <1>8, <2>1, ConcatsAt
        <5>2. QED
          BY <3>5, <5>1
      <4>2. Y(k) = {}
        BY <3>5
      <4> HIDE DEF x, N, Y
      <4>3. Good(f[k + 1], k + 1)
        BY <3>2, <3>3, <4>1, <4>2
      <4> HIDE DEF Good
      <4>4. QED
        BY <3>1, <4>3
    <3>6. CASE k # 0
      <4>1. k \in 1..m /\ Good(f[k], k)
        BY <1>1, <2>3, <3>1, <3>6
      <4>2. f[k + 1] = f[k] \o x
        <5> HIDE DEF T, Good, Y, x, N
        <5>1. k \in 1..m /\ k < m /\ Concats(parts, m, f) /\ m \in Nat
          BY <1>1, <2>1, <3>1, <4>1
        <5>2. f[k + 1] = f[k] \o parts[k + 1]
          BY <5>1, ConcatsStep
        <5> USE DEF x
        <5>3. QED
          BY <5>2
      <4> HIDE DEF x, N, Y
      <4>3. f[k] \in Seq(S) /\ Once(f[k], Y(k))
        BY <4>1
      <4>4. Once(f[k] \o x, Y(k) \cup N) /\ f[k] \o x \in Seq(S)
        BY <3>2, <3>4, <4>3, ConcatOnce, ConcatProperties
      <4>5. Good(f[k + 1], k + 1)
        BY <3>3, <4>2, <4>4
      <4> HIDE DEF Good
      <4>6. QED
        BY <3>1, <4>5
    <3>7. QED
      BY <3>5, <3>6
  <2>4. m \in T
    <3> HIDE DEF T
    <3>1. \A k \in 0..m : k \in T
      BY <1>1, <2>2, <2>3, Induction
    <3>2. QED
      BY <1>1, <3>1
  <2>5. Good(FlattenSeq(parts), m)
    <3> HIDE DEF Good
    <3>1. QED
      BY <1>8, <2>1, <2>4
  <2>6. QED
    BY <1>1, <2>5 DEF parts
<1>9. QED
  BY <1>7, <1>8

-----------------------------------------------------------------------------
\* Which of the items process p trains in the k-th step of an epoch.
StreamPlaces(k, p) ==
    LET first == ((k - 1) * NumProcesses + p) * args.batchSize
        all == Len(AllItems)
        last == IF first + args.batchSize <= all THEN first + args.batchSize
                ELSE all
    IN  [i \in 1..last - first |-> first + i]

PlacesOf(e, k, p) ==
    IF args.streaming THEN StreamPlaces(k, p)
    ELSE BatchesOf(p, Len(AllItems), e)[k]

\* A place is behind so many full batches of `size'.
LEMMA PlaceUnique ==
    ASSUME NEW w \in Nat \ {0}, NEW a \in Nat, NEW b \in Nat,
           NEW r \in Nat, NEW s \in Nat, r < w, s < w, a * w + r = b * w + s
    PROVE  a = b /\ r = s
<1>1. (a * w + r) \div w = a /\ (a * w + r) % w = r
  BY DivUnique
<1>2. (b * w + s) \div w = b /\ (b * w + s) % w = s
  BY DivUnique
<1>3. QED
  BY <1>1, <1>2

\* The order of an epoch goes through the samples that are dealt, each once.
LEMMA OrderPermutes ==
    ASSUME SetupInv, NEW n \in Nat, n <= Len(dataset), NEW s \in 0..MaxEpochs - 1
    PROVE  LET order == Order(n, s)
           IN  /\ Len(order) \in Nat /\ Len(order) <= n /\ DealtSamples(n) <= Len(order)
               /\ order \in Seq(1..n) /\ Rearranges(order, Len(order))
<1> DEFINE d == DealtSamples(n)
           order == Order(n, s)
           all == Len(dataset)
<1>1. d \in Nat /\ d <= n
  BY DealtType
<1>2. all \in Nat
  BY SetupTypes
<1>3. order \in Seq(1..n) /\ d <= Len(order)
  BY OrderType
<1> HIDE DEF d, all
<1>4. \A k \in Nat : k <= all => Rearranges(Shuffled(s, k), k)
  <2>1. \A k \in 0..all : /\ Shuffled(s, k) \in [1..k -> 1..k]
                          /\ \A i, j \in 1..k :
                               Shuffled(s, k)[i] = Shuffled(s, k)[j] => i = j
    BY ShuffledAssumption DEF SetupInv, all
  <2>2. \A k \in Nat : k <= all => k \in 0..all
    BY <1>2
  <2>3. QED
    BY <2>1, <2>2 DEF Rearranges
<1>5. \E l \in Nat : l <= n /\ Rearranges(order, l)
  <2>1. CASE args.groupByLength
    <3>1. order = Shuffled(s, n)
      BY <2>1 DEF Order
    <3> HIDE DEF order
    <3>2. Rearranges(order, n) /\ n <= n
      BY <1>4, <3>1 DEF all
    <3>3. QED
      BY <3>2
  <2>2. CASE ~args.groupByLength /\ args.shuffle
    <3>1. order = Shuffled(s, d)
      BY <2>2 DEF Order, d
    <3>2. d \in Nat /\ d <= all
      BY <1>1, <1>2 DEF all
    <3> HIDE DEF order
    <3>3. Rearranges(order, d)
      BY <1>4, <3>1, <3>2
    <3>4. QED
      BY <1>1, <3>3
  <2>3. CASE ~args.groupByLength /\ ~args.shuffle
    <3>1. order = [k \in 1..d |-> k]
      BY <2>3 DEF Order, d
    <3> HIDE DEF order
    <3>2. Rearranges(order, d)
      BY <1>1, <3>1 DEF Rearranges
    <3>3. QED
      BY <1>1, <3>2
  <2>4. QED
    BY <2>1, <2>2, <2>3
<1> HIDE DEF order
<1>6. PICK l \in Nat : l <= n /\ Rearranges(order, l)
  BY <1>5
<1>7. Len(order) = l
  <2>1. DOMAIN order = 1..l
    BY <1>6 DEF Rearranges
  <2>2. QED
    BY <1>3, <1>6, <2>1, LenProperties
<1>8. QED
  BY <1>3, <1>6, <1>7 DEF order, d

\* The place in the order of the i-th of a rank's k-th batch.
PlaceInOrder(k, i, rank, size) == ((k - 1) * size + (i - 1)) * WorldSize + rank + 1

\* A batch has what is at its places in the order, as far as that goes.
HasItsPlaces(batch, order, k, rank, size) ==
    /\ \A i \in DOMAIN batch :
          /\ i \in 1..size
          /\ PlaceInOrder(k, i, rank, size) \in 1..Len(order)
          /\ batch[i] = order[PlaceInOrder(k, i, rank, size)]
    /\ \A i \in 1..size : PlaceInOrder(k, i, rank, size) <= Len(order)
                             => i \in DOMAIN batch

LEMMA BatchPlaces ==
    ASSUME NEW n \in Nat, NEW rank \in 0..WorldSize - 1,
           NEW size \in Nat \ {0}, NEW dropLast \in BOOLEAN,
           NEW S, NEW order \in Seq(S), DealtSamples(n) <= Len(order),
           NEW k \in 1..NumBatches(n, size, dropLast)
    PROVE  LET batch == Batches(Share(order, rank), size, dropLast)[k]
           IN  batch \in Seq(S) /\ HasItsPlaces(batch, order, k, rank, size)
<1> DEFINE share == Share(order, rank)
           m == ShareSize(Len(order), rank)
           batches == Batches(share, size, dropLast)
           batch == batches[k]
           upto == IF k * size <= Len(share) THEN k * size ELSE Len(share)
           last == IF dropLast THEN Len(share) \div size ELSE CeilDiv(Len(share), size)
           a == (k - 1) * size
<1>1. Len(order) \in Nat /\ DOMAIN order = 1..Len(order) /\ WorldSize \in Nat \ {0}
  BY LenProperties, WorldSizeType
<1>2. m \in Nat
  BY <1>1, ShareSizeType
<1>3. \A j \in 1..m : share[j] = order[(j - 1) * WorldSize + rank + 1]
  BY DEF Share
<1>4. Len(share) = m
  BY <1>2 DEF Share
<1>5. batch \in Seq(S)
  BY BatchType
<1>6. NumBatches(n, size, dropLast) <= Len(batches)
  BY EnoughBatches DEF share
<1> HIDE DEF share, m
<1>7. batches = [j \in 1..last |->
                   SubSeq(share, (j - 1) * size + 1,
                          IF j * size <= Len(share) THEN j * size ELSE Len(share))]
  BY DEF Batches
<1>8. last \in Nat
  <2>1. m \div size \in Nat /\ CeilDiv(m, size) \in Nat
    BY <1>2, DivMod, CeilDivCovers
  <2>2. QED
    BY <1>4, <2>1
<1>9. NumBatches(n, size, dropLast) \in Nat
  <2>1. TotalSamples(n) \in Nat
    BY <1>1, DivMod DEF TotalSamples
  <2>2. QED
    BY <2>1, DivMod, CeilDivCovers DEF NumBatches
<1> HIDE DEF last
<1>10. k \in 1..last /\ k \in Nat \ {0}
  <2>1. Len(batches) = last
    BY <1>7, <1>8
  <2> HIDE DEF batches
  <2>2. QED
    BY <1>6, <1>8, <1>9, <2>1
<1>11. batch = SubSeq(share, (k - 1) * size + 1, upto)
  BY <1>7, <1>10
<1>12. a \in Nat /\ k * size = a + size
  BY <1>10
<1>13. upto = IF a + size <= m THEN a + size ELSE m
  BY <1>4, <1>12
<1> HIDE DEF batches, a, upto
<1>14. batch = SubSeq(share, a + 1, upto)
  BY <1>11 DEF a
<1> HIDE DEF batch
<1>15. ASSUME NEW i \in Nat \ {0}
       PROVE  i \in DOMAIN batch <=> i <= size /\ a + i <= m
  <2> DEFINE T == {share[j] : j \in 1..m}
  <2>1. a + 1 \in Int /\ upto \in Int /\ \A j \in (a + 1)..upto : j \in 1..m
    BY <1>2, <1>12, <1>13
  <2>2. \A j \in (a + 1)..upto : share[j] \in T
    BY <2>1
  <2> HIDE DEF T
  <2>3. Len(batch) = IF a + 1 <= upto THEN upto - (a + 1) + 1 ELSE 0
    BY <1>14, <2>1, <2>2, SubSeqProperties
  <2>4. DOMAIN batch = 1..Len(batch)
    BY <1>5, LenProperties DEF batch
  <2>5. QED
    BY <1>2, <1>12, <1>13, <2>3, <2>4
<1>16. ASSUME NEW i \in DOMAIN batch
       PROVE  i \in Nat \ {0} /\ i <= size /\ a + i \in 1..m /\ batch[i] = share[a + i]
  <2> DEFINE T == {share[j] : j \in 1..m}
  <2>1. a + 1 \in Int /\ upto \in Int /\ \A j \in (a + 1)..upto : j \in 1..m
    BY <1>2, <1>12, <1>13
  <2>2. \A j \in (a + 1)..upto : share[j] \in T
    BY <2>1
  <2> HIDE DEF T
  <2>3. \A j \in 1..upto - (a + 1) + 1 : batch[j] = share[(a + 1) + j - 1]
    BY <1>14, <2>1, <2>2, SubSeqProperties
  <2>4. i \in Nat \ {0}
    BY <1>5, LenProperties DEF batch
  <2>5. i <= size /\ a + i <= m
    BY <1>15, <2>4
  <2>6. i \in 1..upto - (a + 1) + 1 /\ (a + 1) + i - 1 = a + i /\ a + i \in 1..m
    BY <1>2, <1>12, <1>13, <2>4, <2>5
  <2>7. QED
    BY <2>3, <2>4, <2>5, <2>6
<1>17. ASSUME NEW i \in Nat \ {0}
       PROVE  /\ PlaceInOrder(k, i, rank, size) = ((a + i) - 1) * WorldSize + rank + 1
              /\ a + i <= m <=> PlaceInOrder(k, i, rank, size) <= Len(order)
              /\ PlaceInOrder(k, i, rank, size) \in Nat \ {0}
  <2> DEFINE x == a + i
             y == (x - 1) * WorldSize
  <2>1. x \in Nat \ {0} /\ a + (i - 1) = x - 1 /\ x - 1 \in Nat
    BY <1>12
  <2>2. PlaceInOrder(k, i, rank, size) = (a + (i - 1)) * WorldSize + rank + 1
    BY DEF PlaceInOrder, a
  <2> HIDE DEF x
  <2>3. x <= m <=> (x - 1) * WorldSize + rank + 1 <= Len(order)
    BY <1>1, <2>1, WithinShare DEF m
  <2>4. y \in Nat
    BY <1>1, <2>1
  <2>5. PlaceInOrder(k, i, rank, size) = (x - 1) * WorldSize + rank + 1
    BY <2>1, <2>2
  <2> HIDE DEF y
  <2>6. y + rank + 1 \in Nat \ {0}
    BY <1>1, <2>4
  <2>7. PlaceInOrder(k, i, rank, size) \in Nat \ {0}
    BY <2>5, <2>6 DEF y
  <2>8. x <= m <=> PlaceInOrder(k, i, rank, size) <= Len(order)
    BY <2>3, <2>5
  <2>9. QED
    BY <2>5, <2>7, <2>8 DEF x
<1>18. ASSUME NEW i \in DOMAIN batch
       PROVE  /\ i \in 1..size
              /\ PlaceInOrder(k, i, rank, size) \in 1..Len(order)
              /\ batch[i] = order[PlaceInOrder(k, i, rank, size)]
  <2>1. i \in Nat \ {0} /\ i <= size /\ a + i \in 1..m /\ batch[i] = share[a + i]
    BY <1>16
  <2>2. /\ PlaceInOrder(k, i, rank, size) = ((a + i) - 1) * WorldSize + rank + 1
        /\ PlaceInOrder(k, i, rank, size) <= Len(order)
        /\ PlaceInOrder(k, i, rank, size) \in Nat \ {0}
    BY <1>2, <1>17, <2>1
  <2> DEFINE x == a + i
  <2>3. share[x] = order[(x - 1) * WorldSize + rank + 1]
    <3>1. x \in 1..m
      BY <2>1
    <3> HIDE DEF x
    <3>2. QED
      BY <1>3, <3>1
  <2>4. batch[i] = order[PlaceInOrder(k, i, rank, size)]
    <3>1. batch[i] = share[x]
      BY <2>1
    <3>2. PlaceInOrder(k, i, rank, size) = (x - 1) * WorldSize + rank + 1
      BY <2>2
    <3> HIDE DEF x
    <3>3. QED
      BY <2>3, <3>1, <3>2
  <2>5. QED
    BY <1>1, <2>1, <2>2, <2>4
<1>19. ASSUME NEW i \in 1..size, PlaceInOrder(k, i, rank, size) <= Len(order)
       PROVE  i \in DOMAIN batch
  <2>1. i \in Nat \ {0} /\ i <= size
    OBVIOUS
  <2>2. a + i <= m
    BY <1>17, <1>19, <2>1
  <2>3. QED
    BY <1>15, <2>1, <2>2
<1>20. HasItsPlaces(batch, order, k, rank, size)
  BY <1>18, <1>19 DEF HasItsPlaces
<1>21. QED
  BY <1>5, <1>20 DEF batch, batches, share

\* As many train for themselves as there are ranks.
LEMMA FirstOfRank ==
    /\ \A r \in 0..WorldSize - 1 : /\ r * TpSize \in Processes
                                   /\ (r * TpSize) % TpSize = 0
                                   /\ Rank(r * TpSize) = r
    /\ \A p \in Processes : p % TpSize = 0 => p = Rank(p) * TpSize
<1>1. /\ WorldSize \in Nat \ {0} /\ TpSize \in Nat \ {0}
      /\ NumProcesses = WorldSize * TpSize
  BY WorldSizeType, ShardingAssumption
<1>2. ASSUME NEW r \in 0..WorldSize - 1
      PROVE  /\ r * TpSize \in Processes /\ (r * TpSize) % TpSize = 0
             /\ Rank(r * TpSize) = r
  <2> DEFINE x == r * TpSize
             y == (r + 1) * TpSize
             z == WorldSize * TpSize
  <2>1. y = x + TpSize /\ x \in Nat /\ y \in Nat /\ z \in Nat
    BY <1>1
  <2>2. y <= z
    <3>1. r + 1 <= WorldSize /\ r + 1 \in Nat
      BY <1>1
    <3>2. QED
      BY <1>1, <3>1, TimesMonotone
  <2> HIDE DEF x, y, z
  <2>3. x \in 0..z - 1
    BY <1>1, <2>1, <2>2
  <2>4. (r * TpSize + 0) \div TpSize = r /\ (r * TpSize + 0) % TpSize = 0
    BY <1>1, DivUnique
  <2>5. x + 0 = x
    BY <2>1
  <2>6. QED
    BY <1>1, <2>3, <2>4, <2>5 DEF x, z, Processes, Rank
<1>3. ASSUME NEW p \in Processes, p % TpSize = 0 PROVE p = Rank(p) * TpSize
  <2>1. p \in Nat
    BY ShardingAssumption DEF Processes
  <2>2. p = (p \div TpSize) * TpSize + (p % TpSize) /\ p \div TpSize \in Nat
    BY <1>1, <2>1, DivMod
  <2> DEFINE x == (p \div TpSize) * TpSize
  <2>3. x \in Nat
    BY <1>1, <2>2
  <2> HIDE DEF x
  <2>4. p = x
    BY <1>3, <2>2, <2>3 DEF x
  <2>5. QED
    BY <2>4 DEF x, Rank
<1>4. QED
  BY <1>2, <1>3

LEMMA TrainersNumber ==
    /\ Trainers \subseteq Processes /\ IsFiniteSet(Trainers)
    /\ Cardinality(Trainers) = IF args.streaming THEN NumProcesses ELSE WorldSize
<1>1. NumProcesses \in Nat \ {0} /\ WorldSize \in Nat \ {0}
  BY ShardingAssumption, WorldSizeType
<1>2. IsFiniteSet(Processes) /\ Cardinality(Processes) = NumProcesses
  BY <1>1, FS_Interval DEF Processes
<1>3. Trainers \subseteq Processes
  BY DEF Trainers
<1>4. IsFiniteSet(Trainers)
  BY <1>2, <1>3, FS_Subset
<1>5. CASE ~args.streaming
  <2> DEFINE R == 0..WorldSize - 1
             f == [r \in R |-> r * TpSize]
  <2>1. Trainers = {p \in Processes : p % TpSize = 0}
    BY <1>5 DEF Trainers
  <2>2. \A r \in R : f[r] = r * TpSize
    OBVIOUS
  <2> HIDE DEF f
  <2>3. f \in [R -> Trainers]
    <3>1. \A r \in R : r * TpSize \in Trainers
      BY <2>1, FirstOfRank
    <3>2. QED
      BY <3>1 DEF f
  <2>4. \A r, q \in R : f[r] = f[q] => r = q
    <3>1. \A r \in R : Rank(f[r]) = r
      BY <2>2, FirstOfRank
    <3>2. QED
      BY <3>1
  <2>5. \A p \in Trainers : \E r \in R : f[r] = p
    <3>1. \A p \in Trainers : Rank(p) \in R /\ p = Rank(p) * TpSize
      BY <2>1, RankType, FirstOfRank
    <3>2. QED
      BY <2>2, <3>1
  <2>6. IsFiniteSet(R) /\ Cardinality(R) = WorldSize
    BY <1>1, FS_Interval
  <2> HIDE DEF R
  <2>7. ExistsBijection(R, Trainers)
    <3>1. f \in Bijection(R, Trainers)
      BY <2>3, <2>4, <2>5 DEF Bijection, Injection, Surjection, IsInjective
    <3>2. QED
      BY <3>1 DEF ExistsBijection
  <2>8. Cardinality(Trainers) = Cardinality(R)
    BY <2>6, <2>7, FS_Bijection
  <2>9. QED
    BY <1>3, <1>4, <1>5, <2>6, <2>8
<1>6. CASE args.streaming
  BY <1>2, <1>3, <1>4, <1>6 DEF Trainers
<1>7. QED
  BY <1>5, <1>6

-----------------------------------------------------------------------------
\* Where in the stream, or in the order of an epoch, the i-th pack of a batch is.
PlaceIn(k, p, i) ==
    IF args.streaming THEN ((k - 1) * NumProcesses + p) * args.batchSize + i
    ELSE PlaceInOrder(k, i, Rank(p), args.batchSize)

\* What is at a place.
ItemAt(e, x) ==
    IF args.streaming THEN x ELSE Order(Len(AllItems), e)[x]
LastPlace(e) ==
    IF args.streaming THEN Len(AllItems) ELSE Len(Order(Len(AllItems), e))

LEMMA PlacesAre ==
    ASSUME PacksInv, IndexInv, FeedInv, NEW e \in 0..MaxEpochs - 1,
           NEW k \in 1..StepsPerEpoch, NEW p \in Processes
    PROVE  LET places == PlacesOf(e, k, p)
           IN  /\ places \in Seq(1..Len(AllItems))
               /\ \A i \in DOMAIN places :
                     /\ i \in 1..args.batchSize
                     /\ PlaceIn(k, p, i) \in 1..LastPlace(e)
                     /\ places[i] = ItemAt(e, PlaceIn(k, p, i))
               /\ \A i \in 1..args.batchSize : PlaceIn(k, p, i) <= LastPlace(e)
                                                 => i \in DOMAIN places
<1> DEFINE places == PlacesOf(e, k, p)
           n == Len(AllItems)
           size == args.batchSize
<1>1. /\ SetupInv /\ lengths \in Seq(Nat) /\ lengths = Lengths
      /\ size \in Nat \ {0} /\ n \in Nat /\ NumProcesses \in Nat \ {0}
      /\ StepsPerEpoch \in Nat
  BY FeedContext, LenProperties
<1>2. k \in Nat \ {0} /\ p \in Nat
  BY <1>1 DEF Processes
<1>3. CASE args.streaming
  <2> DEFINE b == (k - 1) * NumProcesses + p
             first == b * size
             last == IF first + size <= n THEN first + size ELSE n
  <2>1. b \in Nat
    BY <1>1, <1>2
  <2>2. first \in Nat
    BY <1>1, <2>1
  <2>3. places = [i \in 1..last - first |-> first + i]
    BY <1>3 DEF PlacesOf, StreamPlaces
  <2>4. \A i : PlaceIn(k, p, i) = first + i
    BY <1>3 DEF PlaceIn
  <2>5. LastPlace(e) = n /\ \A x : ItemAt(e, x) = x
    BY <1>3 DEF LastPlace, ItemAt
  <2> HIDE DEF b, first, n, size
  <2>6. \A i \in 1..last - first : i \in 1..size /\ first + i \in 1..n
    BY <1>1, <2>2
  <2>7. \A i \in 1..size : first + i <= n => i \in 1..last - first
    BY <1>1, <2>2
  <2>8. places \in Seq(1..n)
    <3> DEFINE d == IF last > first THEN last - first ELSE 0
    <3>1. d \in Nat /\ 1..last - first = 1..d
      BY <1>1, <2>2
    <3> HIDE DEF d, last, places
    <3>2. places \in [1..d -> 1..n]
      BY <2>3, <2>6, <3>1
    <3> DEFINE X == 1..n
    <3> HIDE DEF X
    <3>3. d \in Nat /\ places \in [1..d -> X]
      BY <3>1, <3>2 DEF X
    <3>4. places \in Seq(X)
      BY <3>3, SeqDef
    <3>5. QED
      BY <3>4 DEF X
  <2> HIDE DEF last
  <2>9. /\ DOMAIN places = 1..last - first
        /\ \A i \in 1..last - first : places[i] = first + i
    BY <2>3
  <2> HIDE DEF places
  <2>10. QED
    BY <2>4, <2>5, <2>6, <2>7, <2>8, <2>9 DEF places, n, size
<1>4. CASE ~args.streaming
  <2> DEFINE order == Order(n, e)
             rank == Rank(p)
  <2>1. n <= Len(dataset)
    BY <1>1, <1>4, AllItemsType
  <2>2. order \in Seq(1..n) /\ DealtSamples(n) <= Len(order)
    BY <1>1, <2>1, OrderType
  <2>3. rank \in 0..WorldSize - 1
    BY RankType
  <2>4. args.dropLast \in BOOLEAN
    BY <1>1, DataFeedingAssumption DEF SetupInv, SetupRecords
  <2>5. StepsPerEpoch = NumBatches(n, size, args.dropLast)
    BY <1>4 DEF StepsPerEpoch, StepsOf
  <2>6. places = Batches(Share(order, rank), size, args.dropLast)[k]
    BY <1>4 DEF PlacesOf, BatchesOf
  <2>7. \A i : PlaceIn(k, p, i) = PlaceInOrder(k, i, rank, size)
    BY <1>4 DEF PlaceIn
  <2>8. LastPlace(e) = Len(order) /\ \A x : ItemAt(e, x) = order[x]
    BY <1>4 DEF LastPlace, ItemAt
  <2> HIDE DEF places, n, size, order, rank
  <2>9. k \in 1..NumBatches(n, size, args.dropLast)
    BY <2>5
  <2> DEFINE batch == Batches(Share(order, rank), size, args.dropLast)[k]
  <2>10. batch \in Seq(1..n) /\ HasItsPlaces(batch, order, k, rank, size)
    BY <1>1, <2>2, <2>3, <2>4, <2>9, BatchPlaces
  <2> HIDE DEF batch
  <2>11. places = batch
    BY <2>6 DEF batch
  <2>12. QED
    BY <2>7, <2>8, <2>10, <2>11 DEF HasItsPlaces, places, n, size
<1>5. QED
  BY <1>3, <1>4

\* No two of those that train in an epoch are at the same place.
LEMMA PlaceDetermines ==
    ASSUME PacksInv, IndexInv, FeedInv,
           NEW k \in 1..StepsPerEpoch, NEW l \in 1..StepsPerEpoch,
           NEW p \in Trainers, NEW q \in Trainers,
           NEW i \in 1..args.batchSize, NEW j \in 1..args.batchSize,
           PlaceIn(k, p, i) = PlaceIn(l, q, j)
    PROVE  k = l /\ p = q /\ i = j
<1> DEFINE size == args.batchSize
<1>1. /\ size \in Nat \ {0} /\ NumProcesses \in Nat \ {0}
      /\ StepsPerEpoch \in Nat /\ WorldSize \in Nat \ {0}
  BY FeedContext, WorldSizeType
<1>2. /\ k - 1 \in Nat /\ l - 1 \in Nat /\ i - 1 \in Nat /\ j - 1 \in Nat
      /\ p \in Processes /\ q \in Processes
      /\ p \in Nat /\ q \in Nat /\ p < NumProcesses /\ q < NumProcesses
      /\ i - 1 < size /\ j - 1 < size
      /\ k \in Nat /\ l \in Nat /\ i \in Nat /\ j \in Nat
  BY <1>1, TrainersNumber DEF Processes
<1> HIDE DEF size
<1>3. CASE args.streaming
  <2> DEFINE a == (k - 1) * NumProcesses + p
             b == (l - 1) * NumProcesses + q
             x == a * size
             y == b * size
  <2>1. a \in Nat /\ b \in Nat
    BY <1>1, <1>2
  <2>2. x \in Nat /\ y \in Nat
    BY <1>1, <2>1
  <2>3. x + i = y + j
    BY <1>3 DEF PlaceIn, size
  <2>4. a = b /\ i - 1 = j - 1
    <3> HIDE DEF a, b
    <3>1. x + (i - 1) = y + (j - 1)
      <4> HIDE DEF x, y
      <4>1. QED
        BY <1>2, <2>2, <2>3
    <3>2. QED
      BY <1>1, <1>2, <2>1, <3>1, PlaceUnique
  <2>5. k - 1 = l - 1 /\ p = q
    BY <1>1, <1>2, <2>4, PlaceUnique
  <2>6. QED
    BY <1>2, <2>4, <2>5
<1>4. CASE ~args.streaming
  <2> DEFINE r == Rank(p)
             s == Rank(q)
             a == (k - 1) * size + (i - 1)
             b == (l - 1) * size + (j - 1)
             x == a * WorldSize
             y == b * WorldSize
  <2>1. r \in 0..WorldSize - 1 /\ s \in 0..WorldSize - 1
    BY <1>2, RankType
  <2>2. a \in Nat /\ b \in Nat
    BY <1>1, <1>2
  <2>3. x \in Nat /\ y \in Nat
    BY <1>1, <2>2
  <2>4. x + r + 1 = y + s + 1
    BY <1>4 DEF PlaceIn, PlaceInOrder, size
  <2> HIDE DEF r, s
  <2>5. a = b /\ r = s
    <3> HIDE DEF a, b
    <3>1. x + r = y + s
      <4> HIDE DEF x, y
      <4>1. QED
        BY <2>1, <2>3, <2>4
    <3>2. QED
      BY <1>1, <2>1, <2>2, <3>1, PlaceUnique
  <2>6. k - 1 = l - 1 /\ i - 1 = j - 1
    BY <1>1, <1>2, <2>5, PlaceUnique
  <2>7. p = q
    <3>1. p % TpSize = 0 /\ q % TpSize = 0
      BY <1>4 DEF Trainers
    <3>2. p = r * TpSize /\ q = s * TpSize
      BY <1>2, <3>1, FirstOfRank DEF r, s
    <3>3. QED
      BY <2>5, <3>2
  <2>8. QED
    BY <1>2, <2>6, <2>7
<1>5. QED
  BY <1>3, <1>4

\* How far the full steps of an epoch reach.
Reach ==
    IF args.streaming THEN (StepsPerEpoch * NumProcesses) * args.batchSize
    ELSE (StepsPerEpoch * args.batchSize) * WorldSize

\* Two digits of a number below a * b.
LEMMA Digits ==
    ASSUME NEW a \in Nat, NEW b \in Nat \ {0}, NEW x \in Nat, x < a * b
    PROVE  \E q \in 0..a - 1, r \in 0..b - 1 : x = q * b + r
<1> DEFINE q == x \div b
           r == x % b
<1>1. q \in Nat /\ r \in 0..b - 1 /\ x = q * b + r
  BY DivMod
<1> HIDE DEF q, r
<1>2. q < a
  <2>1. SUFFICES ASSUME a <= q PROVE FALSE
    BY <1>1
  <2>2. a * b <= q * b
    BY <1>1, <2>1, TimesMonotone
  <2> DEFINE y == a * b
             z == q * b
  <2>3. y \in Nat /\ z \in Nat /\ y <= z /\ x < y /\ x = z + r
    BY <1>1, <2>2
  <2> HIDE DEF y, z
  <2>4. QED
    BY <1>1, <2>3
<1>3. q \in 0..a - 1
  BY <1>1, <1>2
<1>4. QED
  BY <1>1, <1>3

\* Three digits of a number below (a * b) * c.
HasDigits(x, a, b, c) ==
    \E q \in 0..a - 1, r \in 0..b - 1, s \in 0..c - 1 : x = (q * b + r) * c + s

LEMMA ThreeDigits ==
    ASSUME NEW a \in Nat, NEW b \in Nat \ {0}, NEW c \in Nat \ {0},
           NEW x \in Nat, x < (a * b) * c
    PROVE  HasDigits(x, a, b, c)
<1> DEFINE ab == a * b
<1>1. ab \in Nat
  OBVIOUS
<1>2. \E y \in 0..ab - 1, s \in 0..c - 1 : x = y * c + s
  <2> HIDE DEF ab
  <2>1. x < ab * c
    BY DEF ab
  <2>2. QED
    BY <1>1, <2>1, Digits
<1>3. PICK y \in 0..ab - 1, s \in 0..c - 1 : x = y * c + s
  BY <1>2
<1>4. y \in Nat /\ y < a * b
  BY <1>1, <1>3
<1>5. \E q \in 0..a - 1, r \in 0..b - 1 : y = q * b + r
  <2> HIDE DEF ab
  <2>1. QED
    BY ONLY <1>4, Digits, a \in Nat, b \in Nat \ {0}
<1>6. QED
  BY <1>3, <1>5 DEF HasDigits

\* Every place within reach is one of a batch.
LEMMA PlaceReached ==
    ASSUME PacksInv, IndexInv, FeedInv, NEW x \in Nat \ {0}, x <= Reach
    PROVE  \E k \in 1..StepsPerEpoch, p \in Trainers, i \in 1..args.batchSize :
               PlaceIn(k, p, i) = x
<1> DEFINE size == args.batchSize
           n == StepsPerEpoch
<1>1. /\ size \in Nat \ {0} /\ NumProcesses \in Nat \ {0}
      /\ n \in Nat /\ WorldSize \in Nat \ {0} /\ x - 1 \in Nat
  BY FeedContext, WorldSizeType
<1> HIDE DEF size, n
<1>2. CASE args.streaming
  <2> DEFINE a == n * NumProcesses
             all == a * size
  <2>1. a \in Nat
    BY <1>1
  <2>2. all \in Nat /\ x <= all
    BY <1>1, <1>2, <2>1 DEF Reach, n, size
  <2>3. x - 1 < all
    <3> HIDE DEF all
    <3>1. QED
      BY <2>2
  <2>4. PICK l \in 0..n - 1, p \in 0..NumProcesses - 1, j \in 0..size - 1 :
            x - 1 = (l * NumProcesses + p) * size + j
    <3>1. x - 1 < (n * NumProcesses) * size
      BY <2>3
    <3> HIDE DEF a, all
    <3>2. HasDigits(x - 1, n, NumProcesses, size)
      BY <1>1, <3>1, ThreeDigits
    <3>3. QED
      BY <3>2 DEF HasDigits
  <2> DEFINE b == l * NumProcesses + p
  <2>5. b \in Nat
    BY <1>1, <2>4
  <2>7. l + 1 \in 1..n /\ (l + 1) - 1 = l /\ j + 1 \in 1..size /\ p \in Trainers
    BY <1>1, <1>2 DEF Trainers, Processes
  <2>8. PlaceIn(l + 1, p, j + 1) = b * size + (j + 1)
    <3>1. PlaceIn(l + 1, p, j + 1) = (((l + 1) - 1) * NumProcesses + p) * size + (j + 1)
      BY <1>2 DEF PlaceIn, size
    <3>2. QED
      BY <2>7, <3>1
  <2> DEFINE y == b * size
  <2>9. y \in Nat /\ x - 1 = y + j
    <3>1. x - 1 = y + j
      BY <2>4
    <3> HIDE DEF b
    <3>2. QED
      BY <1>1, <2>5, <3>1
  <2> HIDE DEF y
  <2>10. y + (j + 1) = x
    BY <1>1, <2>4, <2>9
  <2>11. PlaceIn(l + 1, p, j + 1) = x
    BY <2>8, <2>10 DEF y
  <2>12. QED
    BY <2>7, <2>11 DEF n, size
<1>3. CASE ~args.streaming
  <2> DEFINE a == n * size
             all == a * WorldSize
  <2>1. a \in Nat
    BY <1>1
  <2>2. all \in Nat /\ x <= all
    BY <1>1, <1>3, <2>1 DEF Reach, n, size
  <2>3. x - 1 < all
    <3> HIDE DEF all
    <3>1. QED
      BY <2>2
  <2>4. PICK l \in 0..n - 1, j \in 0..size - 1, r \in 0..WorldSize - 1 :
            x - 1 = (l * size + j) * WorldSize + r
    <3>1. x - 1 < (n * size) * WorldSize
      BY <2>3
    <3> HIDE DEF a, all
    <3>2. HasDigits(x - 1, n, size, WorldSize)
      BY <1>1, <3>1, ThreeDigits
    <3>3. QED
      BY <3>2 DEF HasDigits
  <2> DEFINE b == l * size + j
  <2>5. b \in Nat
    BY <1>1, <2>4
  <2> DEFINE p == r * TpSize
  <2>7. l + 1 \in 1..n /\ (l + 1) - 1 = l /\ j + 1 \in 1..size /\ (j + 1) - 1 = j
    BY <1>1
  <2>8. p \in Trainers /\ Rank(p) = r
    BY <1>3, FirstOfRank DEF Trainers
  <2> HIDE DEF p
  <2>9. PlaceIn(l + 1, p, j + 1) = b * WorldSize + r + 1
    <3>1. PlaceIn(l + 1, p, j + 1)
            = (((l + 1) - 1) * size + ((j + 1) - 1)) * WorldSize + Rank(p) + 1
      BY <1>3 DEF PlaceIn, PlaceInOrder, size
    <3>2. QED
      BY <2>7, <2>8, <3>1
  <2> DEFINE y == b * WorldSize
  <2>10. y \in Nat /\ x - 1 = y + r
    <3>1. x - 1 = y + r
      BY <2>4
    <3> HIDE DEF b
    <3>2. QED
      BY <1>1, <2>5, <3>1
  <2> HIDE DEF y
  <2>11. y + r + 1 = x
    BY <1>1, <2>4, <2>10
  <2>12. PlaceIn(l + 1, p, j + 1) = x
    BY <2>9, <2>11 DEF y
  <2>13. QED
    BY <2>7, <2>8, <2>12 DEF n, size
<1>4. QED
  BY <1>2, <1>3

\* What the full steps do not reach, and what is not dealt, is less than a batch
\* for everyone who trains.
LEMMA FewOutOfReach ==
    ASSUME PacksInv, IndexInv, FeedInv, NEW e \in 0..MaxEpochs - 1
    PROVE  LET n == Len(AllItems)
               tail == Cardinality(Trainers) * args.batchSize
           IN  /\ n \in Nat /\ LastPlace(e) \in Nat /\ Reach \in Nat /\ tail \in Nat
               /\ LastPlace(e) <= n
               /\ n < Reach + tail /\ n < LastPlace(e) + tail
<1> DEFINE size == args.batchSize
           steps == StepsPerEpoch
           n == Len(AllItems)
<1>1. /\ size \in Nat \ {0} /\ NumProcesses \in Nat \ {0} /\ n \in Nat
      /\ steps \in Nat /\ WorldSize \in Nat \ {0}
      /\ SetupInv /\ lengths \in Seq(Nat) /\ lengths = Lengths
  BY FeedContext, WorldSizeType, LenProperties
<1>2. CASE args.streaming
  <2> DEFINE d == CeilDiv(n, size)
             a == steps * NumProcesses
             reach == a * size
             tail == NumProcesses * size
  <2>1. /\ LastPlace(e) = n /\ Reach = reach
        /\ Cardinality(Trainers) * args.batchSize = tail
    BY <1>2, TrainersNumber DEF LastPlace, Reach
  <2>2. steps = d \div NumProcesses
    BY <1>2 DEF steps, StepsPerEpoch, StepsOf
  <2>3. d \in Nat /\ \A k \in Nat : k >= d <=> k * size >= n
    BY <1>1, CeilDivCovers
  <2> HIDE DEF n, size, steps, d
  <2>4. a \in Nat /\ tail \in Nat
    BY <1>1
  <2>5. reach \in Nat
    BY <1>1, <2>4
  <2>6. a + NumProcesses >= d + 1
    <3>1. d = (d \div NumProcesses) * NumProcesses + (d % NumProcesses)
          /\ d % NumProcesses \in 0..NumProcesses - 1
      BY <1>1, <2>3, DivMod
    <3>2. d = a + (d % NumProcesses)
      BY <2>2, <3>1
    <3> DEFINE r == d % NumProcesses
    <3> HIDE DEF a, r
    <3>3. r \in 0..NumProcesses - 1 /\ d = a + r
      BY <3>1, <3>2 DEF r
    <3>4. QED
      BY <1>1, <2>3, <2>4, <3>3
  <2>7. n < reach + tail
    <3> DEFINE b == a + NumProcesses - 1
    <3>1. b \in Nat /\ b >= d /\ b + 1 = a + NumProcesses
      <4> HIDE DEF a
      <4>1. QED
        BY <1>1, <2>3, <2>4, <2>6
    <3> HIDE DEF b
    <3>2. b * size >= n
      BY <2>3, <3>1
    <3>3. (b + 1) * size = b * size + size /\ b * size \in Nat
      BY <1>1, <3>1
    <3>4. (a + NumProcesses) * size = reach + tail
      <4> HIDE DEF a
      <4>1. QED
        BY <1>1, <2>4 DEF reach, tail
    <3> DEFINE y == b * size
               z == (a + NumProcesses) * size
    <3>5. z = y + size /\ y \in Nat /\ y >= n /\ z = reach + tail
      BY <3>1, <3>2, <3>3, <3>4
    <3> HIDE DEF y, z, reach, tail
    <3>6. QED
      BY <1>1, <2>4, <2>5, <3>5
  <2>8. tail >= 1
    <3>1. 1 <= NumProcesses /\ 1 \in Nat
      BY <1>1
    <3>2. 1 * size <= NumProcesses * size
      BY <1>1, <3>1, TimesMonotone
    <3>3. 1 * size = size
      BY <1>1
    <3>4. QED
      BY <1>1, <2>4, <3>2, <3>3
  <2> HIDE DEF reach, tail
  <2>9. n < n + tail
    BY <1>1, <2>4, <2>8
  <2>10. QED
    BY <1>1, <2>1, <2>4, <2>5, <2>7, <2>9 DEF n
<1>3. CASE ~args.streaming
  <2> DEFINE order == Order(n, e)
             t == TotalSamples(n)
             a == steps * size
             reach == a * WorldSize
             tail == WorldSize * size
             dealt == t * WorldSize
             l == Len(order)
  <2>1. /\ LastPlace(e) = l /\ Reach = reach
        /\ Cardinality(Trainers) * args.batchSize = tail
    BY <1>3, TrainersNumber DEF LastPlace, Reach
  <2>2. n <= Len(dataset)
    BY <1>1, <1>3, AllItemsType
  <2>3. l \in Nat /\ l <= n /\ DealtSamples(n) <= l
    BY <1>1, <2>2, OrderPermutes
  <2>4. t \in Nat /\ n % WorldSize \in 0..WorldSize - 1
        /\ n = t * WorldSize + (n % WorldSize)
    BY <1>1, DivMod DEF TotalSamples
  <2>5. dealt \in Nat /\ dealt <= l
    BY <1>1, <2>3, <2>4 DEF DealtSamples
  <2>6. steps = IF args.dropLast THEN t \div size ELSE CeilDiv(t, size)
    BY <1>3 DEF StepsPerEpoch, StepsOf, NumBatches
  <2> HIDE DEF n, size, steps, order, t, l
  <2>7. a \in Nat /\ tail \in Nat
    BY <1>1
  <2>8. reach \in Nat
    BY <1>1, <2>7
  <2>9. t + 1 <= a + size
    <3>1. CASE args.dropLast
      <4>1. t = (t \div size) * size + (t % size) /\ t % size \in 0..size - 1
        BY <1>1, <2>4, DivMod
      <4>2. t = a + (t % size)
        BY <2>6, <3>1, <4>1
      <4> DEFINE r == t % size
      <4> HIDE DEF a, r
      <4>3. r \in 0..size - 1 /\ t = a + r
        BY <4>1, <4>2 DEF r
      <4>4. QED
        BY <1>1, <2>4, <2>7, <4>3
    <3>2. CASE ~args.dropLast
      <4>1. steps >= CeilDiv(t, size)
        BY <1>1, <2>6, <3>2
      <4>2. a >= t
        BY <1>1, <2>4, <4>1, CeilDivCovers
      <4> HIDE DEF a
      <4>3. QED
        BY <1>1, <2>4, <2>7, <4>2
    <3>3. QED
      BY <3>1, <3>2
  <2> DEFINE r == n % WorldSize
             next == (t + 1) * WorldSize
  <2>10. next = dealt + WorldSize /\ next \in Nat /\ n = dealt + r
         /\ r \in 0..WorldSize - 1
    BY <1>1, <2>4, <2>5
  <2>11. next <= reach + tail
    <3>1. t + 1 \in Nat /\ a + size \in Nat
      <4> HIDE DEF a
      <4>1. QED
        BY <1>1, <2>4, <2>7
    <3>2. (t + 1) * WorldSize <= (a + size) * WorldSize
      <4> HIDE DEF a
      <4>1. QED
        BY <1>1, <2>9, <3>1, TimesMonotone
    <3>3. (a + size) * WorldSize = reach + tail
      <4> HIDE DEF a
      <4>1. QED
        BY <1>1, <2>7 DEF reach, tail
    <3>4. QED
      BY <3>2, <3>3
  <2>12. tail >= WorldSize
    <3>1. 1 <= size /\ 1 \in Nat
      BY <1>1
    <3>2. 1 * WorldSize <= size * WorldSize
      BY <1>1, <3>1, TimesMonotone
    <3>3. 1 * WorldSize = WorldSize /\ size * WorldSize = tail
      BY <1>1
    <3>4. QED
      BY <3>2, <3>3
  <2> HIDE DEF reach, tail, dealt, next, r
  <2>13. n < reach + tail /\ n < l + tail
    BY <1>1, <2>3, <2>5, <2>7, <2>8, <2>10, <2>11, <2>12
  <2>14. QED
    BY <1>1, <2>1, <2>3, <2>7, <2>8, <2>13 DEF n
<1>4. QED
  BY <1>2, <1>3

-----------------------------------------------------------------------------
\* What there is to train in an epoch has every sample that can be encoded, in
\* one place.
LEMMA AllItemsOnce ==
    ASSUME SetupInv, lengths \in Seq(Nat), lengths = Lengths
    PROVE  /\ EachOnce(AllItems, SamplesOf(AllItems))
           /\ \A s \in Samples : Encodable(s) => s \in SamplesOf(AllItems)
<1>1. SUFFICES \E X : /\ EachOnce(AllItems, X)
                      /\ \A s \in Samples : Encodable(s) => s \in X
  BY DEF EachOnce
<1>2. Len(lengths) = Len(dataset) /\ Samples = 1..Len(lengths) /\ Len(dataset) \in Nat
  <2>1. DOMAIN lengths = 1..Len(lengths) /\ Len(lengths) \in Nat
    BY LenProperties
  <2>2. DOMAIN Lengths = 1..Len(dataset) /\ Len(dataset) \in Nat
    BY SetupTypes DEF Lengths, Samples
  <2>3. Len(lengths) = Len(dataset)
    BY <2>1, <2>2
  <2>4. QED
    BY <2>2, <2>3 DEF Samples
<1>3. CASE args.streaming
  <2>1. PICK c : RoundsChain(c)
    BY ChainExists
  <2> DEFINE r == NumRounds
             packs == c[r].packs
             up == r * PackingInterval
  <2>2. AllItems = packs /\ c[r].rest = <<>> /\ r \in 0..NumRounds /\ r \in Nat
    BY <1>3, <2>1, ChainEnd, RoundNumbers DEF AllItems
  <2>3. EachOnce(packs \o <<c[r].rest>>, SamplesUpTo(r))
    BY <2>1, <2>2, ChainOnce
  <2>4. packs \in Seq(Seq(Samples))
    BY <2>1, <2>2 DEF RoundsChain, States
  <2>5. EachOnce(packs, SamplesUpTo(r))
    <3>1. EachOnce(packs \o <<<<>>>>, SamplesUpTo(r))
      BY <2>2, <2>3
    <3> HIDE DEF packs, r
    <3>2. QED
      BY <2>4, <3>1, WithoutEmptyPack
  <2>6. \A s \in Samples : Encodable(s) => s \in SamplesUpTo(r)
    <3>1. Len(dataset) <= r * PackingInterval
      BY RoundNumbers
    <3>2. r * PackingInterval \in Nat
      BY <2>2, PackingAssumption
    <3> DEFINE y == r * PackingInterval
    <3>3. SamplesUpTo(r) = {s \in Samples : s <= y /\ Encodable(s)}
      BY DEF SamplesUpTo
    <3> HIDE DEF y, r
    <3>4. \A s \in Samples : s <= y
      BY <1>2, <3>1, <3>2 DEF y, Samples
    <3>5. QED
      BY <3>3, <3>4
  <2> HIDE DEF packs, r
  <2>7. QED
    BY <2>2, <2>5, <2>6
<1>4. CASE ~args.streaming /\ args.packing
  <2>1. AllItems = PacksOfParts
    BY <1>4 DEF AllItems
  <2>2. EachOnce(PacksOfParts, 1..Len(lengths))
    BY PartsOnce
  <2>3. QED
    BY <1>2, <2>1, <2>2
<1>5. CASE ~args.streaming /\ ~args.packing
  <2> DEFINE single == [i \in Samples |-> <<i>>]
  <2>1. AllItems = single
    BY <1>5 DEF AllItems
  <2>2. DOMAIN single = Samples
    OBVIOUS
  <2>3. \A i \in Samples : DOMAIN single[i] = {1} /\ single[i][1] = i
    OBVIOUS
  <2> HIDE DEF single
  <2>4. EachOnce(single, Samples)
    BY <2>2, <2>3, EachOnceIs
  <2>5. QED
    BY <2>1, <2>4
<1>6. QED
  BY <1>3, <1>4, <1>5

\* The items of a place differ from those of another, and each item that is
\* dealt, or has come of the stream, has a place.
LEMMA ItemsOfPlaces ==
    ASSUME PacksInv, IndexInv, FeedInv, NEW e \in 0..MaxEpochs - 1
    PROVE  /\ LastPlace(e) \in Nat
           /\ \A x \in 1..LastPlace(e) : ItemAt(e, x) \in 1..Len(AllItems)
           /\ \A x, y \in 1..LastPlace(e) : ItemAt(e, x) = ItemAt(e, y) => x = y
           /\ args.streaming => LastPlace(e) = Len(AllItems)
           /\ \A a \in 1..LastPlace(e) : \E x \in 1..LastPlace(e) : ItemAt(e, x) = a
<1> DEFINE n == Len(AllItems)
<1>1. n \in Nat /\ SetupInv /\ lengths \in Seq(Nat) /\ lengths = Lengths
  BY FeedContext, LenProperties
<1>2. CASE args.streaming
  <2>1. LastPlace(e) = n /\ \A x : ItemAt(e, x) = x
    BY <1>2 DEF LastPlace, ItemAt
  <2> HIDE DEF n
  <2>2. QED
    BY <1>1, <2>1 DEF n
<1>3. CASE ~args.streaming
  <2> DEFINE order == Order(n, e)
             l == Len(order)
  <2>1. LastPlace(e) = l /\ \A x : ItemAt(e, x) = order[x]
    BY <1>3 DEF LastPlace, ItemAt
  <2>2. n <= Len(dataset)
    BY <1>1, <1>3, AllItemsType
  <2>3. l \in Nat /\ l <= n /\ Rearranges(order, l)
    BY <1>1, <2>2, OrderPermutes
  <2> HIDE DEF order, n, l
  <2>4. \A a \in 1..l : \E x \in 1..l : order[x] = a
    BY <2>3, PlaceTaken
  <2>5. \A x \in 1..l : order[x] \in 1..l /\ order[x] \in 1..n
    <3>1. \A x \in 1..l : order[x] \in 1..l
      BY <2>3 DEF Rearranges
    <3>2. \A a \in 1..l : a \in 1..n
      BY <1>1, <2>3
    <3>3. QED
      BY <3>1, <3>2
  <2>6. \A x, y \in 1..l : order[x] = order[y] => x = y
    BY <2>3 DEF Rearranges
  <2>7. LastPlace(e) \in Nat /\ \A x \in 1..LastPlace(e) : ItemAt(e, x) \in 1..n
    BY <2>1, <2>3, <2>5, Zenon
  <2>8. \A x, y \in 1..LastPlace(e) : ItemAt(e, x) = ItemAt(e, y) => x = y
    BY <2>1, <2>6, Zenon
  <2>9. \A a \in 1..LastPlace(e) : \E x \in 1..LastPlace(e) : ItemAt(e, x) = a
    BY <2>1, <2>4, Zenon
  <2>10. QED
    BY <1>3, <2>7, <2>8, <2>9, Zenon DEF n
<1>4. QED
  BY <1>2, <1>3

-----------------------------------------------------------------------------
\* The items that the full steps of an epoch do not come to.
Covered(e) ==
    {a \in 1..Len(AllItems) :
        \E k \in 1..StepsPerEpoch, p \in Trainers :
            \E i \in DOMAIN PlacesOf(e, k, p) : PlacesOf(e, k, p)[i] = a}
Uncovered(e) == (1..Len(AllItems)) \ Covered(e)

\* They are fewer than a batch for everyone who trains: each is at a place out of
\* reach, or was not dealt.
LEMMA FewUncovered ==
    ASSUME PacksInv, IndexInv, FeedInv, NEW e \in 0..MaxEpochs - 1
    PROVE  /\ IsFiniteSet(Uncovered(e))
           /\ Cardinality(Uncovered(e)) < Cardinality(Trainers) * args.batchSize
<1> DEFINE n == Len(AllItems)
           last == LastPlace(e)
           tail == Cardinality(Trainers) * args.batchSize
           c == IF last <= Reach THEN last ELSE Reach
           left == Uncovered(e)
           PlaceFor(a) == CHOOSE x \in 1..last : ItemAt(e, x) = a
           h == [a \in left |-> IF a \in 1..last THEN PlaceFor(a) ELSE a]
<1>1. /\ n \in Nat /\ last \in Nat /\ Reach \in Nat /\ tail \in Nat
      /\ last <= n /\ n < Reach + tail /\ n < last + tail
  BY FewOutOfReach
<1>2. c \in Nat /\ c <= last /\ c <= n /\ c <= Reach /\ n - c < tail
  <2> HIDE DEF n, last, tail
  <2>1. QED
    BY <1>1
<1>3. /\ \A x \in 1..last : ItemAt(e, x) \in 1..n
      /\ \A a \in 1..last : \E x \in 1..last : ItemAt(e, x) = a
  BY ItemsOfPlaces
<1>4. ASSUME NEW x \in 1..c
      PROVE  ItemAt(e, x) \in Covered(e)
  <2>1. x \in Nat \ {0} /\ x <= Reach /\ x <= last /\ x \in 1..last
    <3> HIDE DEF n, last, tail, c
    <3>1. QED
      BY <1>1, <1>2
  <2>2. PICK k \in 1..StepsPerEpoch, p \in Trainers, i \in 1..args.batchSize :
            PlaceIn(k, p, i) = x
    BY <2>1, PlaceReached
  <2>3. p \in Processes
    BY <2>2, TrainersNumber
  <2>4. /\ i \in DOMAIN PlacesOf(e, k, p)
        /\ PlacesOf(e, k, p)[i] = ItemAt(e, PlaceIn(k, p, i))
    <3>1. i \in DOMAIN PlacesOf(e, k, p)
      BY <2>1, <2>2, <2>3, PlacesAre
    <3>2. QED
      BY <2>2, <2>3, <3>1, PlacesAre
  <2>5. ItemAt(e, x) \in 1..n
    BY <1>3, <2>1
  <2>6. QED
    BY <2>2, <2>4, <2>5 DEF Covered
<1> HIDE DEF PlaceFor, n, last, tail, c, left
<1>5. \A a \in 1..last : PlaceFor(a) \in 1..last /\ ItemAt(e, PlaceFor(a)) = a
  BY <1>3 DEF PlaceFor
<1>6. \A a \in left : a \in 1..n /\ a \notin Covered(e)
  BY DEF left, Uncovered, n
<1>7. ASSUME NEW a \in left
      PROVE  h[a] \in c + 1..n
  <2>1. CASE a \in 1..last
    <3>1. h[a] = PlaceFor(a) /\ h[a] \in 1..last /\ ItemAt(e, h[a]) = a
      BY <1>5, <2>1
    <3>2. h[a] \notin 1..c
      BY <1>4, <1>6, <3>1
    <3> HIDE DEF h
    <3>3. QED
      BY <1>1, <1>2, <3>1, <3>2
  <2>2. CASE a \notin 1..last
    <3>1. h[a] = a /\ a \in 1..n
      BY <1>6, <2>2
    <3> HIDE DEF h
    <3>2. QED
      BY <1>1, <1>2, <2>2, <3>1
  <2>3. QED
    BY <2>1, <2>2
<1>8. ASSUME NEW a \in left, NEW b \in left, h[a] = h[b]
      PROVE  a = b
  <2>1. \A x \in left : /\ x \in 1..last => h[x] \in 1..last /\ ItemAt(e, h[x]) = x
                        /\ x \notin 1..last => h[x] = x
    BY <1>5
  <2> HIDE DEF h
  <2>2. QED
    BY <1>8, <2>1, Zenon
<1>9. h \in Injection(left, c + 1..n)
  <2>1. h \in [left -> c + 1..n]
    BY <1>7
  <2> HIDE DEF h
  <2>2. QED
    BY <1>8, <2>1 DEF Injection, IsInjective
<1>10. IsFiniteSet(c + 1..n) /\ Cardinality(c + 1..n) <= n - c
  <2>1. c + 1 \in Int /\ n \in Int
    BY <1>1, <1>2
  <2>2. /\ IsFiniteSet(c + 1..n)
        /\ Cardinality(c + 1..n) = IF c + 1 > n THEN 0 ELSE n - (c + 1) + 1
    BY <2>1, FS_Interval
  <2>3. QED
    BY <1>1, <1>2, <2>2
<1>11. IsFiniteSet(left) /\ Cardinality(left) <= Cardinality(c + 1..n)
  <2> HIDE DEF h
  <2>1. QED
    BY <1>9, <1>10, FS_Injection
<1>12. Cardinality(left) < tail
  <2>1. Cardinality(left) \in Nat /\ Cardinality(c + 1..n) \in Nat
    BY <1>10, <1>11, FS_CardinalityType
  <2>2. QED
    BY <1>1, <1>2, <1>10, <1>11, <2>1
<1>13. QED
  BY <1>11, <1>12 DEF left, tail

-----------------------------------------------------------------------------
\* A part of a sequence, as a function.
LEMMA PartOfSequence ==
    ASSUME NEW s, NEW a \in Nat, NEW b \in Int
    PROVE  SubSeq(s, a + 1, b) = [i \in 1..b - a |-> s[a + i]]
<1> DEFINE S == {s[k] : k \in a + 1..b}
           t == SubSeq(s, a + 1, b)
           d == b - a
<1>1. \A k \in a + 1..b : s[k] \in S
  OBVIOUS
<1>2. a + 1 \in Int /\ b \in Int /\ d \in Int /\ b - (a + 1) + 1 = d
  OBVIOUS
<1> HIDE DEF S
<1>3. /\ t \in Seq(S)
      /\ Len(t) = IF a + 1 <= b THEN b - (a + 1) + 1 ELSE 0
      /\ \A i \in 1..b - (a + 1) + 1 : t[i] = s[(a + 1) + i - 1]
  BY <1>1, <1>2, SubSeqProperties
<1> HIDE DEF t
<1>4. DOMAIN t = 1..d
  <2>1. DOMAIN t = 1..Len(t)
    BY <1>3, LenProperties
  <2>2. a + 1 <= b => Len(t) = d
    BY <1>2, <1>3
  <2>3. ~(a + 1 <= b) => 1..Len(t) = {} /\ 1..d = {}
    <3>1. ~(a + 1 <= b) => Len(t) = 0 /\ d < 1
      BY <1>3
    <3> HIDE DEF d
    <3>2. QED
      BY <1>2, <3>1
  <2>4. QED
    BY <2>1, <2>2, <2>3
<1>5. ASSUME NEW i \in 1..d PROVE t[i] = s[a + i]
  <2>1. i \in 1..b - (a + 1) + 1 /\ (a + 1) + i - 1 = a + i
    BY <1>2
  <2>2. QED
    BY <1>3, <2>1
<1>6. t = [i \in DOMAIN t |-> t[i]]
  BY <1>3
<1>7. t = [i \in 1..d |-> t[i]]
  BY <1>4, <1>6
<1>8. t = [i \in 1..d |-> s[a + i]]
  BY <1>5, <1>7
<1>9. QED
  BY <1>8 DEF t

\* What a process trains in a step of an epoch that is not interrupted.
GroupOf(e, k, p) == FlattenSeq(Chosen(AllItems, PlacesOf(e, k, p)))

LEMMA StreamedGroup ==
    ASSUME PacksInv, IndexInv, FeedInv, args.streaming,
           NEW e, NEW k \in Nat \ {0}, NEW p \in Processes
    PROVE  StreamedStep(AllItems, k)[p] = GroupOf(e, k, p)
<1> DEFINE size == args.batchSize
           all == Len(AllItems)
           before == (k - 1) * NumProcesses + p
           first == before * size
           last == IF first + size <= all THEN first + size ELSE all
           b == before + 1
           upto == IF b * size <= all THEN b * size ELSE all
           Batch(c) == SubSeq(AllItems, (c - 1) * size + 1,
                              IF c * size <= all THEN c * size ELSE all)
<1>1. size \in Nat \ {0} /\ NumProcesses \in Nat \ {0} /\ all \in Nat
  BY FeedContext, LenProperties
<1>2. p \in Nat /\ k - 1 \in Nat
  BY <1>1 DEF Processes
<1>3. before \in Nat
  <2> DEFINE y == (k - 1) * NumProcesses
  <2>1. y \in Nat
    BY <1>1, <1>2
  <2> HIDE DEF y
  <2>2. y + p \in Nat
    BY <1>2, <2>1
  <2>3. QED
    BY <2>2 DEF y
<1>4. StreamedStep(AllItems, k)[p] = FlattenSeq(Batch((k - 1) * NumProcesses + p + 1))
  BY DEF StreamedStep
<1>5. (k - 1) * NumProcesses + p + 1 = b
  OBVIOUS
<1>6. PlacesOf(e, k, p) = [i \in 1..last - first |-> first + i]
  BY DEF PlacesOf, StreamPlaces
<1> HIDE DEF before, size, all
<1>7. b - 1 = before /\ b * size = first + size /\ first \in Nat
  BY <1>1, <1>3
<1>8. upto = last /\ last \in Int
  BY <1>1, <1>7
<1>9. Batch(b) = SubSeq(AllItems, first + 1, last)
  BY <1>7, <1>8
<1>10. SubSeq(AllItems, first + 1, last) = [i \in 1..last - first |-> AllItems[first + i]]
  <2> HIDE DEF first, last
  <2>1. QED
    BY <1>7, <1>8, PartOfSequence
<1> HIDE DEF first, last, b
<1>11. Chosen(AllItems, PlacesOf(e, k, p))
         = [i \in 1..last - first |-> AllItems[first + i]]
  BY <1>6 DEF Chosen
<1>12. Batch(b) = Chosen(AllItems, PlacesOf(e, k, p))
  BY <1>9, <1>10, <1>11
<1> HIDE DEF Batch
<1>13. QED
  BY <1>4, <1>5, <1>12 DEF GroupOf

LEMMA ShardedGroupAt ==
    ASSUME ~args.streaming, NEW e, NEW k, NEW p \in Processes
    PROVE  ShardedStep(AllItems, e, k)[p] = GroupOf(e, k, p)
<1> DEFINE batch == BatchesOf(p, Len(AllItems), e)[k]
<1>1. ShardedStep(AllItems, e, k)[p]
        = FlattenSeq([j \in DOMAIN batch |-> AllItems[batch[j]]])
  BY DEF ShardedStep, ShardedGroup
<1>2. PlacesOf(e, k, p) = batch
  BY DEF PlacesOf
<1> HIDE DEF batch
<1>3. QED
  BY <1>1, <1>2 DEF GroupOf, Chosen

\* Every step in the history is a step of its epoch, with what belongs to it.
LEMMA TrainedStep ==
    ASSUME PacksInv, IndexInv, FeedInv, OrderInv, EpochsTrained, ~astray,
           NEW i \in 1..Len(trained)
    PROVE  \E e \in Nat, k \in 1..StepsPerEpoch :
               /\ i = e * StepsPerEpoch + k
               /\ trained[i].epoch = e
               /\ \A p \in Processes : trained[i].group[p] = GroupOf(e, k, p)
<1> DEFINE n == StepsPerEpoch
           e == (i - 1) \div n
           k == ((i - 1) % n) + 1
<1>1. n \in Nat \ {0} /\ i - 1 \in Nat
  BY FeedContext DEF EpochsTrained
<1> HIDE DEF n
<1>2. e \in Nat /\ k \in 1..n /\ i - 1 = e * n + (k - 1)
  <2>1. (i - 1) % n \in 0..n - 1 /\ i - 1 = e * n + ((i - 1) % n) /\ e \in Nat
    BY <1>1, DivMod
  <2> DEFINE r == (i - 1) % n
  <2> HIDE DEF e, r
  <2>2. r \in 0..n - 1 /\ i - 1 = e * n + r /\ e \in Nat
    BY <2>1 DEF r
  <2>3. r + 1 \in 1..n /\ (r + 1) - 1 = r
    BY <1>1, <2>2
  <2>4. QED
    BY <2>2, <2>3 DEF r
<1> DEFINE made == [epoch |-> e,
                    group |-> IF args.streaming THEN StreamedStep(AllItems, k)
                              ELSE ShardedStep(AllItems, e, k)]
<1>3. trained[i] = made
  <2>1. trained[i] = Uninterrupted(AllItems, n, i)
    BY DEF OrderInv, TrainedSoFar, n
  <2>2. QED
    BY <2>1, Zenon DEF Uninterrupted
<1>4. /\ made.epoch = e
      /\ made.group = IF args.streaming THEN StreamedStep(AllItems, k)
                      ELSE ShardedStep(AllItems, e, k)
  BY Zenon
<1> HIDE DEF e, k, made
<1>5. ASSUME NEW p \in Processes
      PROVE  trained[i].group[p] = GroupOf(e, k, p)
  <2>1. CASE args.streaming
    <3>1. k \in Nat \ {0}
      BY <1>1, <1>2
    <3>2. StreamedStep(AllItems, k)[p] = GroupOf(e, k, p)
      BY <2>1, <3>1, StreamedGroup
    <3>3. QED
      BY <1>3, <1>4, <2>1, <3>2
  <2>2. CASE ~args.streaming
    <3>1. ShardedStep(AllItems, e, k)[p] = GroupOf(e, k, p)
      BY <2>2, ShardedGroupAt
    <3>2. QED
      BY <1>3, <1>4, <2>2, <3>1
  <2>3. QED
    BY <2>1, <2>2
<1>6. i = e * n + k
  <2> DEFINE y == e * n
  <2>1. y \in Nat
    BY <1>1, <1>2
  <2>2. i - 1 = y + (k - 1)
    BY <1>2
  <2> HIDE DEF y
  <2>3. i = y + k
    BY <1>1, <1>2, <2>1, <2>2
  <2>4. QED
    BY <2>3 DEF y
<1>7. /\ e \in Nat /\ k \in 1..n /\ i = e * n + k /\ trained[i].epoch = e
      /\ \A p \in Processes : trained[i].group[p] = GroupOf(e, k, p)
  BY <1>2, <1>3, <1>4, <1>5, <1>6
<1>8. QED
  BY <1>7 DEF n

-----------------------------------------------------------------------------
\* What one process trains in a step has the samples of its items, each once.
LEMMA GroupOnce ==
    ASSUME PacksInv, IndexInv, FeedInv, NEW e \in 0..MaxEpochs - 1,
           NEW k \in 1..StepsPerEpoch, NEW p \in Trainers
    PROVE  LET places == PlacesOf(e, k, p)
           IN  Once(GroupOf(e, k, p),
                    UNION {ToSet(AllItems[places[j]]) : j \in DOMAIN places})
<1> DEFINE places == PlacesOf(e, k, p)
<1>1. AllItems \in Seq(Seq(Samples)) /\ DOMAIN AllItems = 1..Len(AllItems)
  BY FeedContext, LenProperties
<1>2. EachOnce(AllItems, SamplesOf(AllItems))
  BY FeedContext, AllItemsOnce
<1>3. p \in Processes
  BY TrainersNumber
<1>4. /\ places \in Seq(DOMAIN AllItems)
      /\ \A i \in DOMAIN places : /\ i \in 1..args.batchSize
                                  /\ PlaceIn(k, p, i) \in 1..LastPlace(e)
                                  /\ places[i] = ItemAt(e, PlaceIn(k, p, i))
  BY <1>1, <1>3, PlacesAre
<1>5. \A x, y \in 1..LastPlace(e) : ItemAt(e, x) = ItemAt(e, y) => x = y
  BY ItemsOfPlaces
<1> HIDE DEF places
<1>6. ASSUME NEW i \in DOMAIN places, NEW j \in DOMAIN places, places[i] = places[j]
      PROVE  i = j
  <2>1. PlaceIn(k, p, i) = PlaceIn(k, p, j)
    BY <1>4, <1>5, <1>6
  <2>2. i \in 1..args.batchSize /\ j \in 1..args.batchSize
    BY <1>4
  <2>3. QED
    BY <2>1, <2>2, PlaceDetermines
<1>7. Once(FlattenSeq(Chosen(AllItems, places)),
           UNION {ToSet(AllItems[places[j]]) : j \in DOMAIN places})
  <2> DEFINE packs == AllItems
             X == SamplesOf(packs)
  <2>1. packs \in Seq(Seq(Samples)) /\ EachOnce(packs, X)
    BY <1>1, <1>2
  <2>2. places \in Seq(DOMAIN packs)
    BY <1>4
  <2>3. \A i, j \in DOMAIN places : places[i] = places[j] => i = j
    BY <1>6
  <2> HIDE DEF packs, X
  <2>4. Once(FlattenSeq(Chosen(packs, places)),
             UNION {ToSet(packs[places[j]]) : j \in DOMAIN places})
    BY <2>1, <2>2, <2>3, ChosenOnce
  <2>5. QED
    BY <2>4 DEF packs
<1>8. QED
  BY <1>7 DEF GroupOf, places

\* A sample is trained by one process in one step of an epoch.
LEMMA OneTrains ==
    ASSUME PacksInv, IndexInv, FeedInv, NEW e \in 0..MaxEpochs - 1,
           NEW k \in 1..StepsPerEpoch, NEW l \in 1..StepsPerEpoch,
           NEW p \in Trainers, NEW q \in Trainers,
           NEW i \in DOMAIN GroupOf(e, k, p), NEW j \in DOMAIN GroupOf(e, l, q),
           GroupOf(e, k, p)[i] = GroupOf(e, l, q)[j]
    PROVE  k = l /\ p = q /\ i = j
<1> DEFINE here == PlacesOf(e, k, p)
           there == PlacesOf(e, l, q)
           x == GroupOf(e, k, p)[i]
<1>1. p \in Processes /\ q \in Processes
  BY TrainersNumber
<1>2. /\ \A u \in DOMAIN here : /\ here[u] \in 1..Len(AllItems)
                                /\ u \in 1..args.batchSize
                                /\ PlaceIn(k, p, u) \in 1..LastPlace(e)
                                /\ here[u] = ItemAt(e, PlaceIn(k, p, u))
      /\ \A u \in DOMAIN there : /\ there[u] \in 1..Len(AllItems)
                                 /\ u \in 1..args.batchSize
                                 /\ PlaceIn(l, q, u) \in 1..LastPlace(e)
                                 /\ there[u] = ItemAt(e, PlaceIn(l, q, u))
  <2>1. /\ here \in Seq(1..Len(AllItems)) /\ there \in Seq(1..Len(AllItems))
        /\ \A u \in DOMAIN here : /\ u \in 1..args.batchSize
                                  /\ PlaceIn(k, p, u) \in 1..LastPlace(e)
                                  /\ here[u] = ItemAt(e, PlaceIn(k, p, u))
        /\ \A u \in DOMAIN there : /\ u \in 1..args.batchSize
                                   /\ PlaceIn(l, q, u) \in 1..LastPlace(e)
                                   /\ there[u] = ItemAt(e, PlaceIn(l, q, u))
    BY <1>1, PlacesAre
  <2> HIDE DEF here, there
  <2>2. /\ \A u \in DOMAIN here : here[u] \in 1..Len(AllItems)
        /\ \A u \in DOMAIN there : there[u] \in 1..Len(AllItems)
    BY <2>1, ElementOfSeq, LenProperties
  <2>3. QED
    BY <2>1, <2>2
<1>3. /\ Once(GroupOf(e, k, p), UNION {ToSet(AllItems[here[u]]) : u \in DOMAIN here})
      /\ Once(GroupOf(e, l, q), UNION {ToSet(AllItems[there[u]]) : u \in DOMAIN there})
  BY GroupOnce
<1> HIDE DEF here, there
<1>4. /\ x \in UNION {ToSet(AllItems[here[u]]) : u \in DOMAIN here}
      /\ x \in UNION {ToSet(AllItems[there[u]]) : u \in DOMAIN there}
  <2>1. x = GroupOf(e, l, q)[j]
    OBVIOUS
  <2>2. QED
    BY <1>3, <2>1, OnceIs
<1>5. PICK u \in DOMAIN here : x \in ToSet(AllItems[here[u]])
  BY <1>4
<1>6. PICK v \in DOMAIN there : x \in ToSet(AllItems[there[v]])
  BY <1>4
<1>7. here[u] = there[v]
  <2>1. EachOnce(AllItems, SamplesOf(AllItems)) /\ DOMAIN AllItems = 1..Len(AllItems)
    BY FeedContext, AllItemsOnce, LenProperties
  <2>2. here[u] \in DOMAIN AllItems /\ there[v] \in DOMAIN AllItems
    BY <1>2, <1>5, <1>6, <2>1
  <2>3. /\ \E a \in DOMAIN AllItems[here[u]] : AllItems[here[u]][a] = x
        /\ \E b \in DOMAIN AllItems[there[v]] : AllItems[there[v]][b] = x
    BY <1>5, <1>6 DEF ToSet
  <2> HIDE DEF x
  <2>4. QED
    BY <2>1, <2>2, <2>3, EachOnceIs
<1>8. PlaceIn(k, p, u) = PlaceIn(l, q, v)
  <2>1. \A a, b \in 1..LastPlace(e) : ItemAt(e, a) = ItemAt(e, b) => a = b
    BY ItemsOfPlaces
  <2>2. QED
    BY <1>2, <1>5, <1>6, <1>7, <2>1
<1>9. k = l /\ p = q
  BY <1>2, <1>5, <1>6, <1>8, PlaceDetermines
<1>10. i = j
  BY <1>3, <1>9, OnceIs
<1>11. QED
  BY <1>9, <1>10

\* The steps of an epoch that has ended are all in the history.
LEMMA EpochComplete ==
    ASSUME PacksInv, IndexInv, FeedInv, OrderInv, EpochsTrained, ~astray,
           NEW e \in 0..MaxEpochs - 1, e < epoch, NEW k \in 1..StepsPerEpoch
    PROVE  \E i \in TrainedIn(e) :
               \A p \in Processes : trained[i].group[p] = GroupOf(e, k, p)
<1> DEFINE n == StepsPerEpoch
           i == e * n + k
           y == e * n
<1>1. n \in Nat \ {0} /\ Len(trained) \in Nat /\ epoch \in Nat /\ e \in Nat
      /\ MaxEpochs \in Nat
  BY FeedContext
<1>2. epoch * n <= Len(trained)
  BY DEF EpochsTrained
<1> HIDE DEF n
<1>3. i \in 1..Len(trained)
  <2>1. (e + 1) * n <= epoch * n
    BY <1>1, TimesMonotone
  <2>2. y \in Nat /\ (e + 1) * n = y + n /\ epoch * n \in Nat
    BY <1>1
  <2> DEFINE z == epoch * n
             t == (e + 1) * n
  <2>3. t <= z /\ t = y + n /\ z \in Nat /\ z <= Len(trained) /\ y \in Nat
    BY <1>2, <2>1, <2>2
  <2> HIDE DEF y, z, t
  <2>4. k \in 1..n
    BY DEF n
  <2>5. y + k \in 1..Len(trained)
    BY <1>1, <2>3, <2>4
  <2>6. QED
    BY <2>5 DEF y
<1>4. PICK d \in Nat, l \in 1..n :
            /\ i = d * n + l /\ trained[i].epoch = d
            /\ \A p \in Processes : trained[i].group[p] = GroupOf(d, l, p)
  <2> HIDE DEF i
  <2>1. QED
    BY <1>3, TrainedStep DEF n
<1>5. d = e /\ l = k
  <2>1. k \in 1..n /\ k - 1 \in Nat /\ l - 1 \in Nat /\ k - 1 < n /\ l - 1 < n
    BY <1>1, <1>4 DEF n
  <2>2. e * n + (k - 1) = d * n + (l - 1)
    <3> DEFINE z == d * n
    <3>1. y \in Nat /\ z \in Nat /\ y + k = z + l
      BY <1>1, <1>4
    <3> HIDE DEF y, z
    <3>2. y + (k - 1) = z + (l - 1)
      BY <1>1, <2>1, <3>1
    <3>3. QED
      BY <3>2 DEF y, z
  <2>3. e = d /\ k - 1 = l - 1
    BY <1>1, <1>4, <2>1, <2>2, PlaceUnique
  <2>4. QED
    BY <1>1, <1>4, <2>1, <2>3
<1> HIDE DEF i
<1>6. i \in TrainedIn(e)
  <2>1. DOMAIN trained = 1..Len(trained)
    BY LenProperties DEF FeedInv, HistoryTypes, LoopTypes
  <2>2. QED
    BY <1>3, <1>4, <1>5, <2>1 DEF TrainedIn
<1>7. QED
  BY <1>4, <1>5, <1>6

\* What an epoch that has ended left out is little.
LEMMA LittleLeft ==
    ASSUME PacksInv, IndexInv, FeedInv, OrderInv, EpochsTrained, ~astray,
           NEW e \in 0..MaxEpochs - 1, e < epoch
    PROVE  MayLeaveOut(e, AllItems)
<1> DEFINE left == Samples \ TrainedSamples(e)
           parts == {a \in DOMAIN AllItems : ToSet(AllItems[a]) \cap left # {}}
           tail == Cardinality(Trainers) * args.batchSize
<1>1. DOMAIN AllItems = 1..Len(AllItems) /\ AllItems \in Seq(Seq(Samples))
  BY FeedContext, LenProperties
<1>2. ASSUME NEW a \in Covered(e)
      PROVE  ToSet(AllItems[a]) \subseteq TrainedSamples(e)
  <2>1. PICK k \in 1..StepsPerEpoch, p \in Trainers :
            \E i \in DOMAIN PlacesOf(e, k, p) : PlacesOf(e, k, p)[i] = a
    BY <1>2 DEF Covered
  <2>2. PICK i \in TrainedIn(e) :
            \A q \in Processes : trained[i].group[q] = GroupOf(e, k, q)
    BY EpochComplete
  <2>3. p \in Processes
    BY TrainersNumber
  <2> DEFINE places == PlacesOf(e, k, p)
  <2>4. Once(GroupOf(e, k, p), UNION {ToSet(AllItems[places[j]]) : j \in DOMAIN places})
    BY GroupOnce
  <2>5. ToSet(AllItems[a]) \subseteq ToSet(GroupOf(e, k, p))
    <3>1. \E j \in DOMAIN places : places[j] = a
      BY <2>1
    <3> HIDE DEF places
    <3>2. ToSet(AllItems[a])
            \subseteq UNION {ToSet(AllItems[places[j]]) : j \in DOMAIN places}
      BY <3>1
    <3>3. QED
      BY <2>4, <3>2 DEF Once
  <2>6. trained[i].group[p] = GroupOf(e, k, p)
    BY <2>2, <2>3
  <2>7. ToSet(trained[i].group[p]) \subseteq TrainedSamples(e)
    BY <2>2, <2>3 DEF TrainedSamples
  <2>8. QED
    BY <2>5, <2>6, <2>7
<1>3. parts \subseteq Uncovered(e)
  <2>1. ASSUME NEW a \in parts PROVE a \in 1..Len(AllItems) /\ a \notin Covered(e)
    <3>1. a \in DOMAIN AllItems /\ ToSet(AllItems[a]) \cap left # {}
      OBVIOUS
    <3>2. ~(ToSet(AllItems[a]) \subseteq TrainedSamples(e))
      BY <3>1
    <3>3. QED
      BY <1>1, <1>2, <3>1, <3>2
  <2>2. QED
    BY <2>1 DEF Uncovered
<1>4. /\ IsFiniteSet(Uncovered(e)) /\ Cardinality(Uncovered(e)) < tail
  BY FewUncovered
<1>5. Cardinality(parts) < tail
  <2> HIDE DEF parts, tail
  <2>1. IsFiniteSet(parts) /\ Cardinality(parts) <= Cardinality(Uncovered(e))
    BY <1>3, <1>4, FS_Subset
  <2>2. Cardinality(parts) \in Nat /\ Cardinality(Uncovered(e)) \in Nat
    BY <1>4, <2>1, FS_CardinalityType
  <2>3. tail \in Nat
    BY FewOutOfReach DEF tail
  <2>4. QED
    BY <1>4, <2>1, <2>2, <2>3
<1>6. ASSUME NEW s \in left
      PROVE  \/ ~Encodable(s)
             \/ \E a \in parts : s \in ToSet(AllItems[a])
  <2>1. SUFFICES ASSUME Encodable(s) PROVE \E a \in parts : s \in ToSet(AllItems[a])
    OBVIOUS
  <2>2. s \in SamplesOf(AllItems)
    BY <2>1, FeedContext, AllItemsOnce
  <2>3. PICK a \in DOMAIN AllItems : s \in ToSet(AllItems[a])
    BY <2>2 DEF SamplesOf
  <2>4. a \in parts
    BY <1>6, <2>3
  <2>5. QED
    BY <2>3, <2>4
<1>7. QED
  BY <1>5, <1>6 DEF MayLeaveOut

LEMMA EpochsFollow ==
    ASSUME PacksInv, IndexInv, FeedInv, OrderInv, EpochsTrained
    PROVE  EachOnceInEpoch
<1>1. SUFFICES ASSUME ~astray, NEW e \in 0..MaxEpochs - 1
               PROVE  /\ \A k, l \in TrainedIn(e), p, q \in Trainers :
                           \A i \in DOMAIN trained[k].group[p],
                              j \in DOMAIN trained[l].group[q] :
                             trained[k].group[p][i] = trained[l].group[q][j]
                               => k = l /\ p = q /\ i = j
                      /\ e < epoch => MayLeaveOut(e, AllItems)
  BY DEF EachOnceInEpoch
<1>2. \A k \in TrainedIn(e) : \E m \in 1..StepsPerEpoch :
          /\ k = e * StepsPerEpoch + m
          /\ \A p \in Processes : trained[k].group[p] = GroupOf(e, m, p)
  <2>1. SUFFICES ASSUME NEW k \in TrainedIn(e)
                 PROVE  \E m \in 1..StepsPerEpoch :
                          /\ k = e * StepsPerEpoch + m
                          /\ \A p \in Processes :
                                trained[k].group[p] = GroupOf(e, m, p)
    OBVIOUS
  <2>2. k \in 1..Len(trained) /\ trained[k].epoch = e
    BY LenProperties DEF TrainedIn, FeedInv, HistoryTypes, LoopTypes
  <2>3. PICK d \in Nat, m \in 1..StepsPerEpoch :
            /\ k = d * StepsPerEpoch + m /\ trained[k].epoch = d
            /\ \A p \in Processes : trained[k].group[p] = GroupOf(d, m, p)
    BY <1>1, <2>2, TrainedStep
  <2>4. d = e
    BY <2>2, <2>3
  <2>5. QED
    BY <2>3, <2>4
<1>3. ASSUME NEW k \in TrainedIn(e), NEW l \in TrainedIn(e),
             NEW p \in Trainers, NEW q \in Trainers,
             NEW i \in DOMAIN trained[k].group[p], NEW j \in DOMAIN trained[l].group[q],
             trained[k].group[p][i] = trained[l].group[q][j]
      PROVE  k = l /\ p = q /\ i = j
  <2>1. p \in Processes /\ q \in Processes
    BY TrainersNumber
  <2>2. PICK a \in 1..StepsPerEpoch :
            k = e * StepsPerEpoch + a /\ trained[k].group[p] = GroupOf(e, a, p)
    BY <1>2, <2>1
  <2>3. PICK b \in 1..StepsPerEpoch :
            l = e * StepsPerEpoch + b /\ trained[l].group[q] = GroupOf(e, b, q)
    BY <1>2, <2>1
  <2>4. /\ i \in DOMAIN GroupOf(e, a, p) /\ j \in DOMAIN GroupOf(e, b, q)
        /\ GroupOf(e, a, p)[i] = GroupOf(e, b, q)[j]
    BY <1>3, <2>2, <2>3
  <2>5. a = b /\ p = q /\ i = j
    BY <2>4, OneTrains
  <2>6. QED
    BY <2>2, <2>3, <2>5
<1>4. e < epoch => MayLeaveOut(e, AllItems)
  BY <1>1, LittleLeft
<1>5. QED
  BY <1>3, <1>4

\* In an epoch no sample is trained twice, by one process or by two, in one step
\* or in two, and an epoch that has ended has left out nothing but what cannot be
\* encoded and less than a batch for everyone who trains.
THEOREM EachOnceInEpochAlways == Spec => []EachOnceInEpoch
<1>1. PacksInv /\ IndexInv /\ FeedInv /\ OrderInv /\ EpochsTrained => EachOnceInEpoch
  BY EpochsFollow
<1>2. QED
  BY <1>1, PacksAlways, IndexAlways, FeedAlways, OrderAlways, EpochsAlways, PTL

==============================================================================
