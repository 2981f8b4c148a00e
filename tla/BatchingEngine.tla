--------------------------- MODULE BatchingEngine ---------------------------
(***************************************************************************)
(* The transformers engine behind `swift deploy`.  Every HTTP handler puts *)
(* its request into one thread-safe queue and waits at a queue of its own. *)
(* A single worker thread, started by the first handler, sorts what it     *)
(* finds by request configuration, runs one batch of the oldest            *)
(* configuration at a time, and posts the answers to the handlers' queues, *)
(* all at once or chunk by chunk.                                          *)
(*                                                                         *)
(* A request is an abstract number, in the order of arrival.  Of a         *)
(* configuration only its identity, whether it streams and whether it is   *)
(* to search with beams matter; of a request, its adapter and whether the  *)
(* template can encode it.  The worker catches no exception: whatever the  *)
(* encoding or the generation of a batch raises ends it.                   *)
(*                                                                         *)
(* Sources: swift/infer_engine/transformers_engine.py, infer_engine.py,    *)
(* and the caller, swift/pipelines/infer/deploy.py.                        *)
(***************************************************************************)
EXTENDS Integers, Sequences, FiniteSets, FiniteSetsExt, SequencesExt

CONSTANTS
    NumRequests,    \* how many requests arrive
    Configs,        \* the request configurations
    Streaming,      \* those with stream = True
    Beams,          \* those with num_beams other than 1
    Adapters,       \* the adapters the server was deployed with
    Base,           \* no adapter: the model itself
    Asked,          \* what clients ask for: some of Kwargs
    Limits,         \* the values max_batch_size may have
    MaxChunks       \* chunks of a streamed batch before its last one

Kwargs == [config : Configs, adapter : Adapters \cup {Base},
           encodable : BOOLEAN]

ASSUME BatchingAssumption ==
    /\ Asked \subseteq Kwargs
    /\ NumRequests \in Nat \ {0} /\ MaxChunks \in Nat
    /\ Streaming \subseteq Configs /\ Beams \subseteq Configs
    /\ Base \notin Adapters
    /\ Limits \subseteq Int

VARIABLES
    engine,         \* the attributes strict and max_batch_size
    kwargs,         \* what each handler asks for
    handler,        \* where each handler is
    queue,          \* self._queue
    taskPool,       \* self._task_pool, a dict in order of insertion
    taskThread,     \* self._task_thread
    batch,          \* the batch the worker is running
    adaptersPool,   \* self._adapters_pool
    inbox           \* everything put into each handler's asyncio queue

handlerVars == <<kwargs, handler>>
poolVars == <<queue, taskPool>>
vars == <<engine, handlerVars, poolVars, taskThread, batch, adaptersPool,
          inbox>>

-----------------------------------------------------------------------------
Requests == 1..NumRequests

\* What a handler can be sent: a whole answer, a piece of one, its last
\* piece, the exception of the encoding, or None.  An answer is written for
\* one request, by the model under one adapter.
Replies == [kind : {"full", "delta", "last"}, of : Requests,
            adapter : Adapters \cup {Base}]
Errors == [kind : {"error"}, of : Requests]
Nothing == [kind |-> "none"]

\* An entry of the task pool: a configuration, the request whose kwargs were
\* stored with it, and the requests waiting.
Entries == [config : Configs, kwargs : Requests, data : Seq(Requests)]

Batches == [kwargs : Requests, rows : Seq(Requests), chunks : Nat,
            state : {"idle", "encode", "stream", "last"}]

NoBatch == [kwargs |-> 1, rows |-> <<>>, chunks |-> 0, state |-> "idle"]

Streams(r) == kwargs[r].config \in Streaming

TypeOK ==
    /\ engine \in [strict : BOOLEAN, max_batch_size : Limits]
    /\ \A r \in Requests : handler[r] = "new" \/ kwargs[r] \in Kwargs
    /\ handler \in [Requests -> {"new", "submitted", "waiting"}]
    /\ queue \in Seq(Requests)
    /\ taskPool \in Seq(Entries)
    /\ taskThread \in {"none", "alive", "hung", "dead"}
    /\ batch \in Batches
    /\ adaptersPool \subseteq Adapters
    /\ inbox \in [Requests -> Seq(Replies \cup Errors \cup {Nothing})]

-----------------------------------------------------------------------------
(***************************************************************************)
(* The handlers, on one event loop.                                        *)
(***************************************************************************)
\* create_chat_completion up to the sleep in infer_async.  The next request
\* to arrive is the one with the lowest number that has not.
Submit(r) ==
    /\ handler[r] = "new"
    /\ \A q \in 1..(r - 1) : handler[q] # "new"
    /\ \E k \in Asked : kwargs' = [kwargs EXCEPT ![r] = k]
    /\ handler' = [handler EXCEPT ![r] = "submitted"]
    /\ queue' = Append(queue, r)
    /\ UNCHANGED <<engine, taskPool, taskThread, batch, adaptersPool, inbox>>

\* The handler resumes after the sleep and starts the worker if there never
\* was one.
StartInferWorker(r) ==
    /\ handler[r] = "submitted"
    /\ handler' = [handler EXCEPT ![r] = "waiting"]
    /\ taskThread' = IF taskThread = "none" THEN "alive" ELSE taskThread
    /\ UNCHANGED <<engine, kwargs, poolVars, batch, adaptersPool, inbox>>

\* What the handler gets from its queue: the first item, or the items before
\* the first None.  Getting one changes nothing that anybody else reads.
Ends(r) == {k \in DOMAIN inbox[r] : Streams(r) => inbox[r][k] = Nothing}
Done(r) == handler[r] = "waiting" /\ Ends(r) # {}
LastGot(r) == LET end == Min(Ends(r))
              IN IF Streams(r) THEN end - 1 ELSE end

-----------------------------------------------------------------------------
(***************************************************************************)
(* The worker thread: sorting and batching.                                *)
(***************************************************************************)
Alive(state) == taskThread = "alive" /\ batch.state = state

EntryOf(c) == {i \in DOMAIN taskPool : taskPool[i].config = c}

\* Mutant: the newest request of a configuration is served first.
TakeRequest_Newest ==
    /\ Alive("idle")
    /\ queue # <<>>
    /\ LET r == Head(queue)
           c == kwargs[r].config
       IN taskPool' =
            IF EntryOf(c) = {}
              THEN Append(taskPool,
                          [config |-> c, kwargs |-> r, data |-> <<r>>])
              ELSE [i \in DOMAIN taskPool |->
                      IF i \in EntryOf(c)
                        THEN [taskPool[i] EXCEPT !.data = <<r>> \o @]
                        ELSE taskPool[i]]
    /\ queue' = Tail(queue)
    /\ UNCHANGED <<engine, handlerVars, taskThread, batch, adaptersPool,
                   inbox>>

\* One pass of the loop that empties the queue into the pool.
TakeRequest ==
    /\ Alive("idle")
    /\ queue # <<>>
    /\ LET r == Head(queue)
           c == kwargs[r].config
       IN taskPool' =
            IF EntryOf(c) = {}
              THEN Append(taskPool,
                          [config |-> c, kwargs |-> r, data |-> <<r>>])
              ELSE [i \in DOMAIN taskPool |->
                      IF i \in EntryOf(c)
                        THEN [taskPool[i] EXCEPT !.data = Append(@, r)]
                        ELSE taskPool[i]]
    /\ queue' = Tail(queue)
    /\ UNCHANGED <<engine, handlerVars, taskThread, batch, adaptersPool,
                   inbox>>

\* How many of n waiting requests go into the next batch.
BatchSize(n) ==
    IF engine.max_batch_size <= 0 \/ engine.max_batch_size > n
      THEN n
      ELSE engine.max_batch_size

\* Mutant: what does not fit into the batch is dropped with the entry.
FetchInferRequests_DropsRest ==
    /\ Alive("idle")
    /\ queue = <<>> /\ taskPool # <<>>
    /\ LET first == Head(taskPool)
           n == BatchSize(Len(first.data))
       IN batch' = [kwargs |-> first.kwargs,
                    rows |-> SubSeq(first.data, 1, n),
                    chunks |-> 0, state |-> "encode"]
    /\ taskPool' = Tail(taskPool)
    /\ UNCHANGED <<engine, handlerVars, queue, taskThread, adaptersPool,
                   inbox>>

\* The queue is empty: the first entry of the pool gives the batch.  What is
\* left of it keeps its place and the kwargs stored with it.
FetchInferRequests ==
    /\ Alive("idle")
    /\ queue = <<>> /\ taskPool # <<>>
    /\ LET first == Head(taskPool)
           n == BatchSize(Len(first.data))
           remain == SubSeq(first.data, n + 1, Len(first.data))
       IN /\ batch' = [kwargs |-> first.kwargs,
                       rows |-> SubSeq(first.data, 1, n),
                       chunks |-> 0, state |-> "encode"]
          /\ taskPool' = IF remain = <<>>
                           THEN Tail(taskPool)
                           ELSE [taskPool EXCEPT ![1].data = remain]
    /\ UNCHANGED <<engine, handlerVars, queue, taskThread, adaptersPool,
                   inbox>>

-----------------------------------------------------------------------------
(***************************************************************************)
(* The worker thread: one batch.                                           *)
(***************************************************************************)
\* The loop over the results of the encoding: the rows it collects, and the
\* places and exceptions of those that could not be encoded.
BatchEncode(rows) ==
    LET encoded[i \in 0..Len(rows)] ==
          IF i = 0 THEN [inputs |-> <<>>, errors |-> <<>>]
          ELSE IF kwargs[rows[i]].encodable
            THEN [encoded[i - 1] EXCEPT !.inputs = Append(@, rows[i])]
            ELSE [encoded[i - 1] EXCEPT !.errors =
                    Append(@, [place |-> i,
                               error |-> [kind |-> "error", of |-> rows[i]]])]
    IN  encoded[Len(rows)]

Good(rows) == BatchEncode(rows).inputs
ErrorList(rows) == BatchEncode(rows).errors

Fails == engine.strict /\ \E i \in DOMAIN batch.rows :
                              ~kwargs[batch.rows[i]].encodable

\* Mutant: the exceptions follow the outputs.
AddErrorList_Append(outputs, errorList) ==
    outputs \o [k \in DOMAIN errorList |-> errorList[k].error]

\* Every exception is inserted where its row was.
AddErrorList(outputs, errorList) ==
    LET inserted[k \in 0..Len(errorList)] ==
          IF k = 0 THEN outputs
          ELSE InsertAt(inserted[k - 1],
                        errorList[k].place, errorList[k].error)
    IN  inserted[Len(errorList)]

\* What a model called without adapter names may answer under.
Unnamed == IF adaptersPool = {} THEN {Base} ELSE adaptersPool

\* Mutant: the base model is never named.
AdapterNames_Unnamed(a) == IF a = Base THEN Unnamed ELSE {a}

\* The adapters a batch for a may be answered under: the one it names, and
\* '__base__' once the model carries any.
AdapterNames(a) ==
    IF a = Base /\ adaptersPool = {} THEN Unnamed ELSE {a}

\* Mutant: having no adapter is taken for one more adapter.
AddAdapter_None(a) == adaptersPool' = adaptersPool \cup {a}

AddAdapter(a) ==
    adaptersPool' = IF a = Base THEN adaptersPool ELSE adaptersPool \cup {a}

\* The place of request r in the batch.
RowOf(r) == CHOOSE i \in DOMAIN batch.rows : batch.rows[i] = r

\* The i-th output goes to the queue of the i-th request.
Put(outputs) ==
    inbox' = [r \in Requests |->
                IF r \in ToSet(batch.rows) /\ RowOf(r) \in DOMAIN outputs
                  THEN Append(inbox[r], outputs[RowOf(r)])
                  ELSE inbox[r]]

BatchAdapter == kwargs[batch.kwargs].adapter

Reply(kind, r, a) == [kind |-> kind, of |-> r, adapter |-> a]

\* A row cannot be encoded and the engine is strict: the exception leaves
\* _infer_worker, and with it the thread ends.
DieOfEncode ==
    /\ Alive("encode")
    /\ Fails
    /\ taskThread' = "dead"
    /\ UNCHANGED <<engine, handlerVars, poolVars, batch, adaptersPool, inbox>>

\* A stream that is to search with beams is refused when its first result is
\* asked for, before its adapter is looked at; one without a row to generate
\* for never gets there.
Refused == /\ Streams(batch.kwargs) /\ kwargs[batch.kwargs].config \in Beams
           /\ Good(batch.rows) # <<>>

DieOfBeams ==
    /\ Alive("encode")
    /\ ~Fails /\ Refused
    /\ taskThread' = "dead"
    /\ UNCHANGED <<engine, handlerVars, poolVars, batch, adaptersPool, inbox>>

\* What is outside this module raises in the worker's own thread: before or
\* after the model was given the adapter, in the generation of a whole
\* answer, or in what the worker does with the tokens of a stream.
DieOfGenerate ==
    /\ Good(batch.rows) # <<>>
    /\ \/ Alive("encode") /\ ~Fails /\ UNCHANGED adaptersPool
       \/ Alive("encode") /\ ~Fails /\ ~Refused /\ AddAdapter(BatchAdapter)
       \/ Alive("stream") /\ UNCHANGED adaptersPool
    /\ taskThread' = "dead"
    /\ UNCHANGED <<engine, handlerVars, poolVars, batch, inbox>>

\* The thread that generates a stream raises: nobody ends its streamer, and
\* the worker waits at it for good.
HangOnGenerate ==
    /\ Alive("stream")
    /\ Good(batch.rows) # <<>>
    /\ taskThread' = "hung"
    /\ UNCHANGED <<engine, handlerVars, poolVars, batch, adaptersPool, inbox>>

\* The batch is encoded, generated and answered at once.
InferFull ==
    /\ Alive("encode")
    /\ ~Fails /\ ~Streams(batch.kwargs)
    /\ \E a \in AdapterNames(BatchAdapter) :
        LET good == Good(batch.rows)
            outputs == [i \in DOMAIN good |-> Reply("full", good[i], a)]
        IN Put(AddErrorList(outputs, ErrorList(batch.rows)))
    /\ IF Good(batch.rows) = <<>>
         THEN UNCHANGED adaptersPool
         ELSE AddAdapter(BatchAdapter)
    /\ batch' = NoBatch
    /\ UNCHANGED <<engine, handlerVars, poolVars, taskThread>>

\* The batch is encoded and its generation started.
StartStream ==
    /\ Alive("encode")
    /\ ~Fails /\ Streams(batch.kwargs) /\ ~Refused
    /\ IF Good(batch.rows) = <<>>
         THEN UNCHANGED adaptersPool
         ELSE AddAdapter(BatchAdapter)
    /\ batch' = [batch EXCEPT !.state = "stream"]
    /\ UNCHANGED <<engine, handlerVars, poolVars, taskThread, inbox>>

\* Mutant: a result without any text is yielded as well.
StreamChunk_YieldsNothing ==
    /\ Alive("stream")
    /\ batch.chunks < MaxChunks
    /\ LET good == Good(batch.rows)
       IN \E printable \in SUBSET (DOMAIN good) :
          \E a \in AdapterNames(BatchAdapter) :
            Put(AddErrorList([i \in DOMAIN good |->
                                IF i \in printable
                                  THEN Reply("delta", good[i], a)
                                  ELSE Nothing],
                             ErrorList(batch.rows)))
    /\ batch' = [batch EXCEPT !.chunks = @ + 1]
    /\ UNCHANGED <<engine, handlerVars, poolVars, taskThread, adaptersPool>>

\* A token for every row gives some rows text to print.  The others' part of
\* the result is None; if nobody's has text, nothing is yielded.
StreamChunk ==
    /\ Alive("stream")
    /\ batch.chunks < MaxChunks
    /\ LET good == Good(batch.rows)
       IN \E printable \in SUBSET (DOMAIN good) :
          \E a \in AdapterNames(BatchAdapter) :
            /\ printable # {}
            /\ Put(AddErrorList([i \in DOMAIN good |->
                                   IF i \in printable
                                     THEN Reply("delta", good[i], a)
                                     ELSE Nothing],
                                ErrorList(batch.rows)))
    /\ batch' = [batch EXCEPT !.chunks = @ + 1]
    /\ UNCHANGED <<engine, handlerVars, poolVars, taskThread, adaptersPool>>

\* The generation has ended: every row's last piece is yielded; a batch
\* without a row yields its exceptions.
LastChunk ==
    /\ Alive("stream")
    /\ \E a \in AdapterNames(BatchAdapter) :
        LET good == Good(batch.rows)
            outputs == [i \in DOMAIN good |-> Reply("last", good[i], a)]
        IN Put(AddErrorList(outputs, ErrorList(batch.rows)))
    /\ batch' = [batch EXCEPT !.state = "last"]
    /\ UNCHANGED <<engine, handlerVars, poolVars, taskThread, adaptersPool>>

\* Mutant: only as many handlers are told as rows were generated.
EndStream_Generated ==
    /\ Alive("last")
    /\ Put([i \in DOMAIN Good(batch.rows) |-> Nothing])
    /\ batch' = NoBatch
    /\ UNCHANGED <<engine, handlerVars, poolVars, taskThread, adaptersPool>>

\* StopIteration: every handler of the batch is told with None.
EndStream ==
    /\ Alive("last")
    /\ Put([i \in DOMAIN batch.rows |-> Nothing])
    /\ batch' = NoBatch
    /\ UNCHANGED <<engine, handlerVars, poolVars, taskThread, adaptersPool>>

-----------------------------------------------------------------------------
Init ==
    /\ engine \in [strict : BOOLEAN, max_batch_size : Limits]
    /\ kwargs = [r \in Requests |-> <<>>]
    /\ handler = [r \in Requests |-> "new"]
    /\ queue = <<>> /\ taskPool = <<>>
    /\ taskThread = "none"
    /\ batch = NoBatch
    /\ adaptersPool = {}
    /\ inbox = [r \in Requests |-> <<>>]

InferWorker ==
    \/ TakeRequest \/ FetchInferRequests
    \/ DieOfEncode \/ DieOfBeams \/ DieOfGenerate \/ HangOnGenerate
    \/ InferFull
    \/ StartStream \/ StreamChunk \/ LastChunk \/ EndStream

Next ==
    \/ \E r \in Requests : Submit(r) \/ StartInferWorker(r)
    \/ InferWorker

\* The event loop runs every handler that can go on, the worker never sleeps
\* for good; nobody has to send a request.
Spec ==
    /\ Init /\ [][Next]_vars
    /\ WF_vars(InferWorker)
    /\ \A r \in Requests : WF_vars(StartInferWorker(r))

-----------------------------------------------------------------------------
\* Requests that share a pool entry with r.
Peers(r) == {q \in Requests \ {r} : /\ handler[q] # "new"
                                    /\ kwargs[q].config = kwargs[r].config}

(* A handler only ever gets its own answer, however rows that could not be *)
(* encoded shift the outputs of a batch against its queues; and one that   *)
(* does not stream gets a single item. *)
OwnAnswer == \A r \in Requests :
    /\ \A k \in DOMAIN inbox[r] : inbox[r][k] = Nothing \/ inbox[r][k].of = r
    /\ inbox[r] # <<>> /\ ~Streams(r) => Len(inbox[r]) = 1

(* Which requests the queue, the pool, the running batch and the answered  *)
(* handlers account for. *)
Queued(r) == r \in ToSet(queue)
Pooled(r) == \E i \in DOMAIN taskPool : r \in ToSet(taskPool[i].data)
Batched(r) == r \in ToSet(batch.rows)
Answered(r) == ~Batched(r) /\ inbox[r] # <<>>

(* Nothing is lost or run twice on the way from the queue through the pool *)
(* to a batch: a request that arrived is in exactly one of those places or *)
(* answered, once in it, and shares its batch only with requests of its    *)
(* configuration, at most max_batch_size of them. *)
OnePlace ==
    /\ \A r \in Requests : handler[r] # "new" =>
        Cardinality({p \in {"queue", "pool", "batch", "answered"} :
            \/ p = "queue" /\ Queued(r)
            \/ p = "pool" /\ Pooled(r)
            \/ p = "batch" /\ Batched(r)
            \/ p = "answered" /\ Answered(r)}) = 1
    /\ IsInjective(queue) /\ IsInjective(batch.rows)
    /\ \A i, j \in DOMAIN taskPool :
        i # j => taskPool[i].config # taskPool[j].config
    /\ \A i \in DOMAIN taskPool :
        /\ taskPool[i].data # <<>> /\ IsInjective(taskPool[i].data)
        /\ \A r \in ToSet(taskPool[i].data) :
            kwargs[r].config = taskPool[i].config
    /\ \A r, q \in ToSet(batch.rows) : kwargs[r].config = kwargs[q].config
    /\ engine.max_batch_size > 0 => Len(batch.rows) <= engine.max_batch_size

Waiting(r) == handler[r] # "new" /\ (Queued(r) \/ Pooled(r))

(* Requests of one configuration are served in the order they arrived in.  *)
NoOvertaking == \A r, q \in Requests :
    /\ q < r /\ handler[r] # "new" /\ ~Waiting(r)
    /\ kwargs[q].config = kwargs[r].config
    => ~Waiting(q)

(* A handler is answered under the adapter it asked for, or under that of  *)
(* an earlier request of the same configuration, whose kwargs the pool     *)
(* stored for both: never under one that was merely loaded before. *)
AdapterOfEntry == \A r \in Requests : \A k \in DOMAIN inbox[r] :
    inbox[r][k] \in Replies =>
        \E q \in Peers(r) \cup {r} :
            q <= r /\ inbox[r][k].adapter = kwargs[q].adapter

(* A stream that ended ended with its last piece or with an exception,     *)
(* unless it ran together with another stream. *)
WholeUnlessShared == \A r \in Requests :
    /\ handler[r] # "new" /\ Streams(r) /\ Done(r)
    /\ engine.max_batch_size = 1 \/ Peers(r) = {}
    => /\ LastGot(r) > 0
       /\ inbox[r][LastGot(r)].kind \in {"last", "error"}

Stopped == taskThread \in {"hung", "dead"}

(* Every handler that waits gets its whole answer, unless the worker stops *)
(* over its batch or before it: only a strict engine stops over a row it   *)
(* cannot encode, any engine may over what it generates, and none over a   *)
(* batch of which it only has exceptions to report.  Whose batch was run   *)
(* to its end has the whole answer, whatever stops the worker later. *)
EveryoneAnswered == \A r \in Requests :
    handler[r] = "waiting" ~>
        \/ Done(r)
        \/ /\ Stopped /\ (Waiting(r) \/ Batched(r))
           /\ Fails \/ Good(batch.rows) # <<>>

(* What the examples of a deployment with adapters rely on: a handler is   *)
(* answered under the adapter it asked for. *)
OwnAdapter == \A r \in Requests : \A k \in DOMAIN inbox[r] :
    inbox[r][k] \in Replies => inbox[r][k].adapter = kwargs[r].adapter

=============================================================================
