---------------------------- MODULE PackedIndex ----------------------------
(***************************************************************************)
(* PackingDataset of swift/dataset/packing.py: the lengths of a dataset    *)
(* are known, and the master packs all of it before training.  A process   *)
(* for each contiguous part of the dataset packs it batch by batch and     *)
(* reports to one queue, from which the master collects.                   *)
(***************************************************************************)
EXTENDS Naturals, Sequences, FiniteSets, SequencesExt, MatchedGroup, Sharding

CONSTANTS
    MaxPackingProc,     \* packing_num_proc, before the dataset bounds it
    PackingBatchSize    \* PACKING_BATCH_SIZE

ASSUME PackedIndexAssumption ==
    MaxPackingProc \in Nat \ {0} /\ PackingBatchSize \in Nat \ {0}

VARIABLES
    lengths,            \* of the samples, self.dataset['lengths']
    part,               \* of each process: i and input_data
    messages,           \* self._out_queue
    collected,          \* self.packed_idx while it is a list for each process
    finishedWorkers,
    packedIdx           \* self.packed_idx, once it is complete and broadcast

indexVars == <<lengths, part, messages, collected, finishedWorkers, packedIdx>>

-----------------------------------------------------------------------------
\* self.packing_num_proc
PackingNumProc(n) ==
    LET batches == CeilDiv(n, PackingBatchSize)
    IN  IF MaxPackingProc < batches THEN MaxPackingProc ELSE batches
Procs == 1..PackingNumProc(Len(lengths))

\* The samples of process q: those of its part, from the k-th on.
Part(q) == Shard(Len(lengths), PackingNumProc(Len(lengths)), q)
PartStart(q) == SplitAt(Len(lengths), PackingNumProc(Len(lengths)), q - 1)
NewData(q, i) ==
    LET upto == IF i + PackingBatchSize <= Cardinality(Part(q))
                THEN i + PackingBatchSize ELSE Cardinality(Part(q))
    IN  [k \in 1..(IF upto > i THEN upto - i ELSE 0) |-> PartStart(q) + i + k]

Messages == [rank : Procs, packs : Seq(Seq(1..Len(lengths))), last : BOOLEAN]

NotPacked == <<0>>

IndexTypeOK ==
    /\ part \in [Procs -> [i : Nat, inputData : Seq(1..Len(lengths)),
                           running : BOOLEAN]]
    /\ messages \in Seq(Messages)
    /\ collected \in [Procs -> Seq(Seq(1..Len(lengths)))]
    /\ finishedWorkers \in 0..Cardinality(Procs)
    /\ packedIdx = NotPacked \/ packedIdx \in Seq(Seq(1..Len(lengths)))

IndexInit ==
    /\ part = [q \in Procs |-> [i |-> 0, inputData |-> <<>>, running |-> TRUE]]
    /\ messages = <<>>
    /\ collected = [q \in Procs |-> <<>>]
    /\ finishedWorkers = 0
    /\ packedIdx = NotPacked

-----------------------------------------------------------------------------
IsFinished(q, i) == i >= Cardinality(Part(q))

\* One turn of the loop of a process, and what it puts into the queue.
CreatePackedIdx(q) ==
    /\ part[q].running
    /\ \E input \in {part[q].inputData \o NewData(q, part[q].i)} :
       \E i \in {part[q].i + PackingBatchSize} :
       \E matched \in {CalculateMatchedGroup(input, lengths, IsFinished(q, i))} :
           IF input = <<>>
           THEN /\ part' = [part EXCEPT ![q].running = FALSE]
                /\ messages' = Append(messages,
                       [rank |-> q, packs |-> <<>>, last |-> TRUE])
           ELSE /\ part' = [part EXCEPT ![q].i = i,
                                        ![q].inputData = matched.rest]
                /\ messages' = Append(messages,
                       [rank |-> q, packs |-> matched.packs, last |-> FALSE])
    /\ UNCHANGED <<lengths, collected, finishedWorkers, packedIdx>>

\* self.packed_idx[rank] += ...
Collect_FirstList(message) ==   \* mutant: one list for all of them
    [collected EXCEPT ![1] = @ \o message.packs]
Collect(message) ==
    [collected EXCEPT ![message.rank] = @ \o message.packs]

Receive ==
    /\ finishedWorkers < Cardinality(Procs) /\ messages # <<>>
    /\ LET message == Head(messages)
       IN  IF message.last
           THEN finishedWorkers' = finishedWorkers + 1 /\ UNCHANGED collected
           ELSE collected' = Collect(message) /\ UNCHANGED finishedWorkers
    /\ messages' = Tail(messages)
    /\ UNCHANGED <<lengths, part, packedIdx>>

\* The lists are joined and sent to the other processes.
Broadcast ==
    /\ finishedWorkers = Cardinality(Procs) /\ packedIdx = NotPacked
    /\ packedIdx' = FlattenSeq(collected)
    /\ UNCHANGED <<lengths, part, messages, collected, finishedWorkers>>

IndexNext == Receive \/ Broadcast \/ \E q \in Procs : CreatePackedIdx(q)


-----------------------------------------------------------------------------
PartRounds(q) ==
    [k \in 1..CeilDiv(Cardinality(Part(q)), PackingBatchSize) |->
        NewData(q, (k - 1) * PackingBatchSize)]

PacksOfParts ==
    FlattenSeq([q \in Procs |-> PackInRounds(PartRounds(q), lengths)])

\* The index that all processes train from does not depend on the order in
\* which the packing processes report, has every sample once, and no pack
\* is longer than packing_length unless a single sample is.
IndexComplete ==
    packedIdx # NotPacked =>
        /\ packedIdx = PacksOfParts
        /\ EachOnce(packedIdx, 1..Len(lengths))
        /\ \A k \in DOMAIN packedIdx :
            \/ Volume(packedIdx[k], lengths) <= PackingLength
            \/ Len(packedIdx[k]) = 1

=============================================================================
