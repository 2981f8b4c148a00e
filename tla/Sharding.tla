------------------------------ MODULE Sharding ------------------------------
(***************************************************************************)
(* How samples are divided: among the data-parallel ranks by the batch     *)
(* sampler (swift/dataloader/shard.py), among processes by split_list      *)
(* (swift/utils/utils.py), and into packs of a bounded length              *)
(* (calculate_matched_group of swift/dataset/packing.py).                  *)
(***************************************************************************)
EXTENDS Naturals, Sequences, FiniteSets

CONSTANTS
    NumProcesses,   \* dist.get_world_size()
    TpSize          \* processes that share a model, and so their batches

ASSUME ShardingAssumption ==
    /\ NumProcesses \in Nat \ {0} /\ TpSize \in Nat \ {0}
    /\ NumProcesses % TpSize = 0

Processes == 0..NumProcesses - 1
WorldSize == NumProcesses \div TpSize
Rank(p) == p \div TpSize

-----------------------------------------------------------------------------
\* What BatchSamplerShard divides: the samples that can be dealt evenly.
TotalSamples(n) == n \div WorldSize
DealtSamples(n) == TotalSamples(n) * WorldSize

\* How many of n things a rank is dealt when they are dealt one by one.
ShareSize(n, rank) == (n + WorldSize - 1 - rank) \div WorldSize

\* total_idx[rank::world_size] of a sequence, which TLA+ numbers from 1.
Share_NoStride(order, rank) ==  \* mutant: total_idx[rank:]
    [k \in 1..ShareSize(Len(order), rank) |-> order[k + rank]]
Share(order, rank) ==
    [k \in 1..ShareSize(Len(order), rank) |->
        order[(k - 1) * WorldSize + rank + 1]]

CeilDiv(n, size) == (n + size - 1) \div size

\* __len__: how many batches the training loop asks a rank for.
NumBatches(n, size, dropLast) ==
    IF dropLast THEN TotalSamples(n) \div size
    ELSE CeilDiv(TotalSamples(n), size)

\* The batches that are cut from a rank's share.
Batches(share, size, dropLast) ==
    LET last == IF dropLast THEN Len(share) \div size
                ELSE CeilDiv(Len(share), size)
        upto(k) == IF k * size <= Len(share) THEN k * size ELSE Len(share)
    IN  [k \in 1..last |-> SubSeq(share, (k - 1) * size + 1, upto(k))]

-----------------------------------------------------------------------------
\* split_list: where the k-th of `shards` contiguous parts of n things ends.
SplitAt(n, shards, k) == (k * n) \div shards

\* A part of 1..n, the positions of the k-th shard.
Shard(n, shards, k) == SplitAt(n, shards, k - 1) + 1 .. SplitAt(n, shards, k)

=============================================================================
