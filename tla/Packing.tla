------------------------------ MODULE Packing ------------------------------
(***************************************************************************)
(* IterablePackingDataset of swift/dataset/packing.py: a streamed dataset  *)
(* is read in rounds of packing_interval samples.  A round puts its        *)
(* samples into a queue from which worker processes encode them, waits for *)
(* as many results as it put, in whatever order they come, and packs them  *)
(* together with what the round before held back.                          *)
(*                                                                         *)
(* A sample is its position in the dataset; of its contents only its       *)
(* encoded length and how encoding it fails are kept.                      *)
(***************************************************************************)
EXTENDS Naturals, Sequences, FiniteSets, SequencesExt, MatchedGroup

CONSTANTS
    NumProc,            \* worker processes
    PackingInterval,    \* samples in a round
    Prefetch            \* packs the data loader asks for in advance

ASSUME PackingAssumption ==
    /\ NumProc \in Nat \ {0}
    /\ PackingInterval \in Nat \ {0}
    /\ Prefetch \in Nat \ {0}

Workers == 1..NumProc

VARIABLES
    dataset,    \* length and error of each sample
    strict,     \* the attribute
    phase,      \* where __iter__ is
    taken,      \* samples that came out of the dataset's iterator
    put,        \* samples put into the queue in this round
    finished,   \* the local variable
    inQueue,    \* self._in_queue
    working,    \* what each worker encodes
    outQueue,   \* self._out_queue
    fetched,    \* results fetched in this round
    res,        \* their slots; 0 is None
    data,       \* what the round before held back
    ready,      \* packs that __iter__ has yet to yield
    loaded,     \* packs the data loader has and the training has not
    yielded     \* all packs yielded in this pass over the dataset

roundVars == <<put, finished, fetched, res, data>>
workerVars == <<inQueue, working, outQueue>>
packVars == <<ready, loaded, yielded>>
setupVars == <<dataset, strict>>
packingVars == <<setupVars, phase, taken, roundVars, workerVars, packVars>>

-----------------------------------------------------------------------------
Samples == 1..Len(dataset)
Lengths == [s \in Samples |-> dataset[s].length]
Encodable(s) == dataset[s].error = "none"

Idle == [i |-> 0, sample |-> 0]
Dead == [i |-> 1, sample |-> 0]
NoRes == [i \in 1..PackingInterval |-> 0]

\* In the queues: the slot of the round, the sample, and once encoded
\* whether there is any data.
Items == [i : 1..PackingInterval, sample : Samples]
Results == [i : 1..PackingInterval, sample : Samples, encoded : BOOLEAN]
Packs == Seq(Samples)

PackingTypeOK ==
    /\ phase \in {"start", "put", "fetch", "yield", "end"}
    /\ taken \in 0..Len(dataset)
    /\ put \in 0..PackingInterval /\ fetched \in 0..put
    /\ finished \in BOOLEAN
    /\ inQueue \in Seq(Items) /\ outQueue \in Seq(Results)
    /\ working \in [Workers -> Items \cup {Idle, Dead}]
    /\ res \in [1..PackingInterval -> Samples \cup {0}]
    /\ data \in Packs
    /\ ready \in Seq(Packs) /\ loaded \in Seq(Packs) /\ yielded \in Seq(Packs)
    /\ Len(loaded) <= Prefetch

-----------------------------------------------------------------------------
\* The generator before its first next(); the queues and the workers belong
\* to the dataset and stay from one pass over it to the next.
FreshPass ==
    /\ phase = "start" /\ taken = 0
    /\ put = 0 /\ finished = FALSE /\ fetched = 0 /\ res = NoRes
    /\ data = <<>> /\ ready = <<>> /\ loaded = <<>> /\ yielded = <<>>

FreshWorkers ==
    inQueue = <<>> /\ outQueue = <<>> /\ working = [w \in Workers |-> Idle]

Iter ==
    /\ phase = "start"
    /\ phase' = IF dataset = <<>> THEN "end" ELSE "put"
    /\ UNCHANGED <<setupVars, taken, roundVars, workerVars, packVars>>

PutDataInQueue ==
    /\ phase = "put" /\ put < PackingInterval /\ taken < Len(dataset)
    /\ inQueue' = Append(inQueue, [i |-> put + 1, sample |-> taken + 1])
    /\ put' = put + 1
    /\ taken' = taken + 1
    /\ UNCHANGED <<setupVars, phase, finished, fetched, res, data, working,
                   outQueue, packVars>>

\* The loop over the interval ends, or next(iterator) does.
StopPutting ==
    /\ phase = "put" /\ (put = PackingInterval \/ taken = Len(dataset))
    /\ phase' = "fetch"
    /\ finished' = (put # PackingInterval)
    /\ fetched' = 0
    /\ res' = NoRes
    /\ UNCHANGED <<setupVars, taken, put, data, workerVars, packVars>>

Slot_Arrival(item) == fetched + 1   \* mutant: results in the order they come
Slot(item) == item.i

FetchDataOutQueue ==
    /\ phase = "fetch" /\ fetched < put /\ outQueue # <<>>
    /\ LET item == Head(outQueue)
       IN  res' = IF item.encoded
                  THEN [res EXCEPT ![Slot(item)] = item.sample] ELSE res
    /\ outQueue' = Tail(outQueue)
    /\ fetched' = fetched + 1
    /\ UNCHANGED <<setupVars, phase, taken, put, finished, data, inQueue,
                   working, packVars>>

\* [data for data in res if data]
Kept(slots) ==
    FoldLeft(LAMBDA kept, s : IF s = 0 THEN kept ELSE Append(kept, s), <<>>, slots)

\* last_res += res
LastRes_Overwritten == Kept(res)    \* mutant: last_res = res
LastRes == data \o Kept(res)

MatchGroup ==
    /\ phase = "fetch" /\ fetched = put
    /\ \E samples \in {LastRes} :
       \E matched \in {CalculateMatchedGroup(samples, Lengths, finished)} :
            ready' = matched.packs /\ data' = matched.rest
    /\ phase' = "yield"
    /\ UNCHANGED <<setupVars, taken, put, finished, fetched, res, workerVars,
                   loaded, yielded>>

\* The generator goes on only while the data loader wants packs.
Yield ==
    /\ phase = "yield" /\ ready # <<>> /\ Len(loaded) < Prefetch
    /\ loaded' = Append(loaded, Head(ready))
    /\ yielded' = Append(yielded, Head(ready))
    /\ ready' = Tail(ready)
    /\ UNCHANGED <<setupVars, phase, taken, roundVars, workerVars>>

NextRound ==
    /\ phase = "yield" /\ ready = <<>>
    /\ phase' = IF finished THEN "end" ELSE "put"
    /\ put' = 0 /\ fetched' = 0
    /\ UNCHANGED <<setupVars, taken, finished, res, data, workerVars, packVars>>

GetItem(w) ==
    /\ working[w] = Idle /\ inQueue # <<>>
    /\ working' = [working EXCEPT ![w] = Head(inQueue)]
    /\ inQueue' = Tail(inQueue)
    /\ UNCHANGED <<setupVars, phase, taken, roundVars, outQueue, packVars>>

\* Of a strict dataset, any error but MaxLengthError ends the process.
Raises(s) == strict /\ dataset[s].error = "other"

Processor(w) ==
    /\ working[w] \notin {Idle, Dead}
    /\ LET item == working[w]
       IN  IF Raises(item.sample)
           THEN /\ working' = [working EXCEPT ![w] = Dead]
                /\ UNCHANGED outQueue
           ELSE /\ working' = [working EXCEPT ![w] = Idle]
                /\ outQueue' = Append(outQueue,
                                   [i |-> item.i, sample |-> item.sample,
                                    encoded |-> Encodable(item.sample)])
    /\ UNCHANGED <<setupVars, phase, taken, roundVars, inQueue, packVars>>

PackingNext ==
    \/ Iter \/ PutDataInQueue \/ StopPutting \/ FetchDataOutQueue
    \/ MatchGroup \/ Yield \/ NextRound
    \/ \E w \in Workers : GetItem(w) \/ Processor(w)


-----------------------------------------------------------------------------
\* What comes of the sample at a position, if there is one.
Encoded(s) == IF s \in Samples /\ Encodable(s) THEN s ELSE 0

\* The rounds of a pass: the last one is short, or empty.
Rounds ==
    [r \in 1..Len(dataset) \div PackingInterval + 1 |->
        Kept([i \in 1..PackingInterval |-> Encoded((r - 1) * PackingInterval + i)])]

PacksOfDataset == PackInRounds(Rounds, Lengths)

\* Whatever order the workers finish in, the packs of a pass come out one
\* after another as a single process would make them, so that a training that
\* is resumed can skip what it has had.  Every sample that has been read and
\* can be encoded is then in exactly one pack or held back for the next round;
\* none is lost at the end of the dataset.
PacksInOrder ==
    /\ IsPrefix(yielded, PacksOfDataset)
    /\ phase \in {"yield", "end"} =>
           EachOnce(yielded \o ready \o <<data>>, {s \in 1..taken : Encodable(s)})
    /\ phase = "end" => data = <<>> /\ taken = Len(dataset)

\* Between two rounds nothing is left in the queues or with a worker, so that
\* no round, of this pass or of one after a restart of the iteration, gets
\* results of another (iteration over the dataset resumes with the queues it
\* left, packing.py:168-172); and the round that has ended has every one of its
\* samples, each in its own slot.
NothingBetweenRounds ==
    /\ phase \in {"start", "yield", "end"} =>
        /\ inQueue = <<>> /\ outQueue = <<>>
        /\ \A w \in Workers : working[w] = Idle
    /\ phase = "yield" =>
        \A i \in 1..PackingInterval :
            res[i] = IF i <= put THEN Encoded(taken - put + i) ELSE 0

=============================================================================
