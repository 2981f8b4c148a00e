---------------------------- MODULE DataFeeding ----------------------------
(***************************************************************************)
(* The training data of the trainers that use DataLoaderMixin (supervised  *)
(* and preference training): a dataset of known length is dealt by         *)
(* BatchSamplerShard, each rank reading its own share; a streamed one is   *)
(* read, and packed, by rank 0 alone, and DataLoaderDispatcher scatters a  *)
(* batch to each process.  A training that is killed is resumed from its   *)
(* last checkpoint with a new data loader that skips what was trained.     *)
(*                                                                         *)
(* The training loop is that of transformers: it sets the epoch of its     *)
(* data loader, asks skip_first_batches for another one if batches are to  *)
(* be skipped, and takes NumBatches batches, or of a dataset of unknown    *)
(* length all there are; every process steps together with the others, as  *)
(* gradients are reduced.  One step stands for one accumulated update.     *)
(*                                                                         *)
(* Sources: swift/trainers/mixin.py, swift/dataloader/dispatcher.py and    *)
(* shard.py, and the modules this one extends.                             *)
(***************************************************************************)
EXTENDS Packing, PackedIndex

CONSTANTS
    Setups,             \* arguments and datasets
    Shuffled(_, _),     \* the permutation of 1..n that a seed generates
    MaxEpochs,
    MaxSteps,           \* max_steps, of a streamed dataset
    SaveSteps,
    MaxLives            \* how often the training is started

SetupRecords ==
    [streaming : BOOLEAN, packing : BOOLEAN, shuffle : BOOLEAN,
     groupByLength : BOOLEAN, dropLast : BOOLEAN, strict : BOOLEAN,
     batchSize : Nat \ {0},
     dataset : Seq([length : Nat, error : {"none", "too long", "other"}])]

ASSUME DataFeedingAssumption ==
    /\ Setups \subseteq SetupRecords
    /\ \A s \in Setups :
        /\ s.streaming => s.packing /\ s.batchSize <= Prefetch
        /\ s.groupByLength => s.shuffle /\ ~s.packing /\ ~s.streaming
        /\ ~s.streaming => \A k \in DOMAIN s.dataset : s.dataset[k].error = "none"
    /\ MaxEpochs \in Nat \ {0} /\ MaxSteps \in Nat \ {0}
    /\ SaveSteps \in Nat \ {0} /\ MaxLives \in Nat \ {0}

\* torch.randperm
ASSUME ShuffledAssumption ==
    \A setup \in Setups : \A n \in 0..Len(setup.dataset), s \in 0..MaxEpochs - 1 :
        /\ Shuffled(s, n) \in [1..n -> 1..n]
        /\ \A i, j \in 1..n : Shuffled(s, n)[i] = Shuffled(s, n)[j] => i = j

VARIABLES
    args,       \* the arguments of the training
    pc,         \* where the training loop is
    epoch,
    step,       \* batches of this epoch trained or skipped, in each process
    skip,       \* those to be skipped
    seed,       \* curr_seed of the batch sampler in use
    group,      \* the batches rank 0 has for the next scatter
    trained,    \* what each process has trained, in the surviving history
    checkpoint, \* `trained` as of the last checkpoint
    life,       \* how often the training was started
    astray      \* whether it was ever resumed where the loaders cannot follow

loopVars == <<args, pc, epoch, step, skip, seed, group, trained, checkpoint,
              life, astray>>
vars == <<packingVars, indexVars, loopVars>>

-----------------------------------------------------------------------------
\* What the data loader of a dataset of known length indexes.
Rows == IF args.packing THEN packedIdx ELSE [i \in Samples |-> <<i>>]

\* total_idx, before a rank takes its share.
Order(n, s) ==
    CASE args.groupByLength -> Shuffled(s, n)
      [] args.shuffle /\ ~args.groupByLength -> Shuffled(s, DealtSamples(n))
      [] OTHER -> [k \in 1..DealtSamples(n) |-> k]

BatchesOf(p, n, s) ==
    Batches(Share(Order(n, s), Rank(p)), args.batchSize, args.dropLast)

StepsInEpoch == NumBatches(Len(Rows), args.batchSize, args.dropLast)

\* Which samples the processes train in the k-th step of an epoch.
ShardedGroup(k, items, s) ==
    [p \in Processes |->
        LET batch == BatchesOf(p, Len(items), s)[k]
        IN  FlattenSeq([j \in DOMAIN batch |-> items[batch[j]]])]

-----------------------------------------------------------------------------
FeedTypeOK ==
    /\ args \in Setups
    /\ pc \in {"load", "epoch", "skip", "train", "over", "failed"}
    /\ epoch \in 0..MaxEpochs /\ step \in Nat /\ skip \in Nat
    /\ seed \in 0..MaxEpochs - 1
    /\ group \in Seq(Seq(Samples)) /\ Len(group) <= NumProcesses
    /\ trained \in Seq([epoch : 0..MaxEpochs - 1,
                        group : [Processes -> Seq(Samples)]])
    /\ checkpoint = SubSeq(trained, 1, Len(checkpoint))
    /\ life \in 1..MaxLives /\ astray \in BOOLEAN

\* The variables of the pipelines, the arguments, and the history hold what
\* they should.
TypeOK == FeedTypeOK /\ PackingTypeOK /\ IndexTypeOK

Init ==
    /\ args \in Setups
    /\ dataset = args.dataset /\ strict = args.strict
    /\ lengths = Lengths
    /\ FreshPass /\ FreshWorkers /\ IndexInit
    /\ pc = "load" /\ epoch = 0 /\ step = 0 /\ skip = 0 /\ seed = 0
    /\ group = <<>> /\ trained = <<>> /\ checkpoint = <<>>
    /\ life = 1 /\ astray = FALSE

-----------------------------------------------------------------------------
\* The dataset is made: the master packs one of known length.
Index ==
    /\ pc = "load" /\ args.packing /\ ~args.streaming
    /\ IndexNext
    /\ UNCHANGED <<packingVars, loopVars>>

StartTraining ==
    /\ pc = "load" /\ (args.packing /\ ~args.streaming => packedIdx # NotPacked)
    /\ pc' = "epoch"
    /\ UNCHANGED <<packingVars, indexVars, args, epoch, step, skip, seed, group,
                   trained, checkpoint, life, astray>>

\* The process of the data loader, while the training asks it for batches.
Pack ==
    /\ pc \in {"skip", "train"} /\ args.streaming
    /\ PackingNext
    /\ UNCHANGED <<indexVars, loopVars>>

\* The seed of a loader is data_seed plus the last epoch that was set.  The
\* one that skips batches is made by get_train_dataloader, after the epoch
\* has been set on the one it replaces.
SeedOfEpoch_Never == 0      \* mutant: set_epoch does not reach the sampler
SeedOfEpoch == IF skip > 0 THEN 0 ELSE epoch

BeginEpoch ==
    /\ pc = "epoch" /\ epoch < MaxEpochs
    /\ seed' = SeedOfEpoch
    /\ step' = IF args.streaming THEN 0 ELSE skip
    /\ pc' = IF args.streaming /\ skip > 0 THEN "skip" ELSE "train"
    /\ UNCHANGED <<packingVars, indexVars, args, epoch, skip, group, trained,
                   checkpoint, life, astray>>

\* A training whose last checkpoint is of its last step.
NothingLeft ==
    /\ pc = "epoch" /\ epoch = MaxEpochs
    /\ pc' = "over"
    /\ UNCHANGED <<packingVars, indexVars, args, epoch, step, skip, seed, group,
                   trained, checkpoint, life, astray>>

-----------------------------------------------------------------------------
\* next(base_iter), by rank 0: a batch is the next batchSize packs, or those
\* there are when the stream has ended.
CanTakeBatch_OneMore ==     \* mutant: one batch more than there are processes
    /\ Len(group) <= NumProcesses
    /\ \/ Len(loaded) >= args.batchSize
       \/ phase = "end" /\ loaded # <<>>
CanTakeBatch ==
    /\ Len(group) < NumProcesses
    /\ \/ Len(loaded) >= args.batchSize
       \/ phase = "end" /\ loaded # <<>>

TakeBatch ==
    /\ pc \in {"skip", "train"} /\ args.streaming /\ CanTakeBatch
    /\ LET size == IF Len(loaded) < args.batchSize THEN Len(loaded)
                   ELSE args.batchSize
       IN  /\ group' = Append(group, FlattenSeq(SubSeq(loaded, 1, size)))
           /\ loaded' = SubSeq(loaded, size + 1, Len(loaded))
    /\ UNCHANGED <<setupVars, phase, taken, roundVars, workerVars, ready,
                   yielded, indexVars, args, pc, epoch, step, skip, seed,
                   trained, checkpoint, life, astray>>

Exhausted_EmptyGroup ==     \* mutant: the end within a group is not seen
    phase = "end" /\ loaded = <<>> /\ group = <<>>
Exhausted == phase = "end" /\ loaded = <<>> /\ Len(group) < NumProcesses

\* _skip_batches
SkipGroup ==
    /\ pc = "skip" /\ Len(group) = NumProcesses
    /\ group' = <<>>
    /\ step' = step + 1
    /\ pc' = IF step + 1 = skip THEN "train" ELSE "skip"
    /\ UNCHANGED <<packingVars, indexVars, args, epoch, skip, seed, trained,
                   checkpoint, life, astray>>

\* StopIteration inside a generator is a RuntimeError; the other processes
\* wait for a scatter that does not come.
SkipTooMuch ==
    /\ pc = "skip" /\ Exhausted
    /\ pc' = "failed"
    /\ UNCHANGED <<packingVars, indexVars, args, epoch, step, skip, seed, group,
                   trained, checkpoint, life, astray>>

Train(samples) ==
    /\ trained' = Append(trained, [epoch |-> epoch, group |-> samples])
    /\ step' = step + 1
    /\ checkpoint' = IF Len(trained') % SaveSteps = 0 THEN trained'
                     ELSE checkpoint
    /\ pc' = IF args.streaming /\ Len(trained') = MaxSteps THEN "over" ELSE pc
    /\ UNCHANGED <<args, epoch, skip, seed, life, astray>>

\* scatter_object_list, and the step of every process.
Scatter ==
    /\ pc = "train" /\ args.streaming /\ Len(group) = NumProcesses
    /\ Train([p \in Processes |-> group[p + 1]])
    /\ group' = <<>>
    /\ UNCHANGED <<packingVars, indexVars>>

StepShards ==
    /\ pc = "train" /\ ~args.streaming /\ step < StepsInEpoch
    /\ Train(ShardedGroup(step + 1, Rows, seed))
    /\ UNCHANGED <<packingVars, indexVars, group>>

\* Rank 0 drops the batches it has when there are too few for a scatter, and
\* scatters None.  An epoch in which nothing was trained ends the training.
EndEpoch ==
    /\ pc = "train"
    /\ IF args.streaming THEN Exhausted ELSE step = StepsInEpoch
    /\ pc' = IF step = skip \/ epoch + 1 = MaxEpochs THEN "over" ELSE "epoch"
    /\ epoch' = epoch + 1
    /\ skip' = 0
    /\ group' = <<>>
    /\ phase' = "start" /\ taken' = 0
    /\ put' = 0 /\ finished' = FALSE /\ fetched' = 0 /\ res' = NoRes
    /\ data' = <<>> /\ ready' = <<>> /\ loaded' = <<>> /\ yielded' = <<>>
    /\ UNCHANGED <<setupVars, workerVars, indexVars, args, step, seed, trained,
                   checkpoint, life, astray>>

-----------------------------------------------------------------------------
\* Where a resumed training takes its data up: in the epoch its step is in,
\* or of a dataset without a length, whose epochs count MaxSteps steps, in
\* the first one.
ResumeEpoch(steps, inEpoch) == IF args.streaming THEN 0 ELSE steps \div inEpoch
ResumeSkip(steps, inEpoch) == IF args.streaming THEN steps ELSE steps % inEpoch

\* What there is to train in an epoch: the packs of the stream, those of the
\* index, or the samples.
AllItems ==
    IF args.streaming THEN PacksOfDataset
    ELSE IF args.packing THEN PacksOfParts
    ELSE [i \in Samples |-> <<i>>]

\* How many steps of all processes n items make.
StepsOf(n) ==
    IF args.streaming THEN CeilDiv(n, args.batchSize) \div NumProcesses
    ELSE NumBatches(n, args.batchSize, args.dropLast)

\* Two cases in which the loaders cannot go on where the training was: the
\* loader that skips has the seed of the first epoch; and a stream has fewer
\* batches than are to be skipped, or none left.
CannotFollow(steps, inEpoch) ==
    IF args.streaming THEN steps >= inEpoch
    ELSE args.shuffle /\ steps > inEpoch /\ steps % inEpoch > 0

KillAndResume ==
    /\ life < MaxLives /\ pc \notin {"over", "failed"}
    /\ life' = life + 1
    /\ trained' = checkpoint
    /\ IF checkpoint = <<>>
       THEN epoch' = 0 /\ skip' = 0 /\ UNCHANGED astray
       ELSE \E steps \in {Len(checkpoint)}, inEpoch \in {StepsOf(Len(AllItems))} :
                /\ epoch' = ResumeEpoch(steps, inEpoch)
                /\ skip' = ResumeSkip(steps, inEpoch)
                /\ astray' = (astray \/ CannotFollow(steps, inEpoch))
    /\ step' = 0 /\ seed' = 0 /\ group' = <<>> /\ pc' = "load"
    /\ phase' = "start" /\ taken' = 0
    /\ put' = 0 /\ finished' = FALSE /\ fetched' = 0 /\ res' = NoRes
    /\ data' = <<>> /\ ready' = <<>> /\ loaded' = <<>> /\ yielded' = <<>>
    /\ inQueue' = <<>> /\ outQueue' = <<>>
    /\ working' = [w \in Workers |-> Idle]
    /\ part' = [q \in Procs |->
                   [i |-> 0, inputData |-> <<>>, running |-> TRUE]]
    /\ messages' = <<>> /\ collected' = [q \in Procs |-> <<>>]
    /\ finishedWorkers' = 0 /\ packedIdx' = NotPacked
    /\ UNCHANGED <<setupVars, lengths, args, checkpoint>>

Next ==
    \/ Index \/ StartTraining \/ Pack \/ BeginEpoch \/ NothingLeft \/ TakeBatch
    \/ SkipGroup \/ SkipTooMuch \/ Scatter \/ StepShards \/ EndEpoch \/ KillAndResume

Spec == Init /\ [][Next]_vars

\* Processes run: the training loop on every rank, the packing processes, and
\* the data loader's.  Each of the last two has finitely many steps in a pass,
\* so that it is enough that some process of the pipeline goes on.
FairSpec ==
    /\ Spec
    /\ WF_vars(StartTraining \/ BeginEpoch \/ NothingLeft \/ TakeBatch \/ SkipGroup
               \/ SkipTooMuch \/ Scatter \/ StepShards \/ EndEpoch)
    /\ WF_vars(Pack)
    /\ WF_vars(Index)

-----------------------------------------------------------------------------
(***************************************************************************)
(* What a training that is never interrupted trains.                       *)
(***************************************************************************)
\* The k-th step of an epoch: of a sampler with the seed of the epoch, or the
\* next batch of the stream for each process.
ShardedStep(items, e, k) == ShardedGroup(k, items, e)

StreamedStep(packs, k) ==
    LET batch(b) == SubSeq(packs, (b - 1) * args.batchSize + 1,
                           IF b * args.batchSize <= Len(packs)
                           THEN b * args.batchSize ELSE Len(packs))
    IN  [p \in Processes |-> FlattenSeq(batch((k - 1) * NumProcesses + p + 1))]

Uninterrupted(items, n, i) ==
    LET e == (i - 1) \div n
        k == ((i - 1) % n) + 1
    IN  [epoch |-> e,
         group |-> IF args.streaming THEN StreamedStep(items, k)
                   ELSE ShardedStep(items, e, k)]

\* A training trains what one that is never killed would have trained, step
\* for step and process for process, unless it was resumed where the loaders
\* cannot follow (the sampler that skips batches does not know the epoch,
\* mixin.py:1155; a stream is skipped from its start, dispatcher.py:38).
TrainedInOrder ==
    ~astray =>
        /\ \A items \in {AllItems} : \A i \in DOMAIN trained :
               trained[i] = Uninterrupted(items, StepsOf(Len(items)), i)
        /\ pc # "failed"

TrainedIn(e) == {k \in DOMAIN trained : trained[k].epoch = e}
TrainedSamples(e) ==
    UNION {ToSet(trained[k].group[p]) : k \in TrainedIn(e), p \in Processes}

\* Who trains for itself: processes that share a model train the batches of
\* their rank, and the first of them stands for all (a stream is scattered to
\* each process).
Trainers ==
    IF args.streaming THEN Processes ELSE {p \in Processes : p % TpSize = 0}

\* What an epoch may leave out: what cannot be encoded, and less than a batch
\* for every process at its end (of a dataset that is dealt, the samples that
\* cannot be dealt evenly, and of each share the last short batch).
MayLeaveOut(e, items) ==
    LET left == Samples \ TrainedSamples(e)
        parts == {k \in DOMAIN items : ToSet(items[k]) \cap left # {}}
    IN  /\ Cardinality(parts) < Cardinality(Trainers) * args.batchSize
        /\ \A s \in left : \/ ~Encodable(s)
                           \/ \E k \in parts : s \in ToSet(items[k])

\* In an epoch no sample is trained twice, in one step or in two, by one process
\* or by two; and at its end only a tail that does not fill a step has not been
\* trained, although the processes draw from one shuffled order or one stream
\* without telling each other what they took.
EachOnceInEpoch ==
    ~astray =>
        \A e \in 0..MaxEpochs - 1 :
            /\ \A k, l \in TrainedIn(e), p, q \in Trainers :
                 \A i \in DOMAIN trained[k].group[p], j \in DOMAIN trained[l].group[q] :
                     trained[k].group[p][i] = trained[l].group[q][j]
                         => k = l /\ p = q /\ i = j
            /\ e < epoch => \A items \in {AllItems} : MayLeaveOut(e, items)

WorkerDied == \E w \in Workers : working[w] = Dead

\* The training comes to its end, or to the error of a skip too long, unless
\* a packing process has ended over an error of a strict dataset: its result
\* is then waited for without an end.
TrainingEnds == <>(pc \in {"over", "failed"} \/ WorkerDied)

=============================================================================
