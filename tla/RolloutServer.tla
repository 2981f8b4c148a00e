---------------------------- MODULE RolloutServer ----------------------------
(***************************************************************************)
(* The rollout servers and the client by which the trainer talks to them.  *)
(*                                                                         *)
(* A server is an HTTP process whose endpoints run one at a time on one    *)
(* event loop, and a worker process per data-parallel engine, at the other *)
(* end of a pipe.  Endpoints that change weights push a command to every   *)
(* worker and return at once ("fire_and_forget"); the tensor itself        *)
(* follows by a broadcast in which the client and the workers of a server  *)
(* take part.  Endpoints with an answer ("call") wait for every worker.    *)
(* A worker that raises logs the exception and answers None.  The client   *)
(* talks to every server from a thread of its own, and raises when one of  *)
(* the threads failed.                                                     *)
(*                                                                         *)
(* Sources: swift/rlhf_trainers/vllm_client.py, pipelines/infer/rollout.py *)
(***************************************************************************)
EXTENDS Integers, Sequences, FiniteSets, SequencesExt

CONSTANTS
    Servers,        \* how many servers the client connects to
    Workers,        \* the connections of a server: its data-parallel engines
    Buckets,        \* how many updates carry one copy of the weights
    MaxVersion,     \* how often the trainer sends new weights
    MaxRequests,    \* the most requests of one call
    MaxClients,     \* how many trainers connect, one after the other
    Faults,         \* what may go wrong
    KillIn          \* the calls in which the trainer may be killed

ASSUME ServerAssumption ==
    /\ {Servers, Workers, Buckets, MaxVersion, MaxRequests, MaxClients}
         \subseteq Nat \ {0}
    /\ Faults \subseteq {"timeout", "close", "post", "load", "reset", "infer"}
    /\ KillIn \subseteq {"connect", "idle", "reset", "infer", "exit"}

VARIABLES
    call,           \* what the trainer's client is doing
    client,         \* how many clients there have been
    version,        \* the weights the trainer has trained; they are sent next
    loaded,         \* this trainer has sent weights before
    step,           \* the bucket being sent, or the server being set up
    size,           \* the number of requests of the call
    thread,         \* the client's thread for each server
    reply,          \* what infer brought back from each server
    answer,         \* what the last infer returned
    handler,        \* the endpoint each server is in
    pipe,           \* commands on their way to each worker
    result,         \* results on their way back
    comm,           \* the worker has joined the client's communicator
    tensor,         \* the bucket a worker has received and not loaded
    weights,        \* the version of each bucket in a worker's model
    cache           \* the weights behind the prefixes a worker has cached

clientVars == <<call, client, version, loaded, step, size, answer>>
workerVars == <<comm, tensor, weights, cache>>
vars == <<clientVars, thread, reply, handler, pipe, result, workerVars>>

Engines == (1..Servers) \X (1..Workers)
Of(s) == {s} \X (1..Workers)

NoTensor == [bucket |-> 0, version |-> 0]
Garbage == MaxVersion + 1
Free == [does |-> "nothing", asked |-> {}]
Starting == [does |-> "starting", asked |-> {}]
None == [ok |-> FALSE, outputs |-> <<>>]
Output(seq) == [ok |-> TRUE, outputs |-> seq]

Command(method, bucket, requests) ==
    [method |-> method, bucket |-> bucket, requests |-> requests]

(* Requests are numbered; 0 is the placeholder for a worker without any. *)
Requests(n) == [i \in 1..n |-> i]
Placeholder == <<0>>

Least(a, b) == IF a < b THEN a ELSE b

(* Mutant: rounds down. *)
ChunkSize_Floor(n) == n \div Servers

(* The client's share for server s: slices of equal length, then nothing. *)
ChunkSize(n) == (n + Servers - 1) \div Servers
Chunk(n, s) ==
    SubSeq(Requests(n), (s - 1) * ChunkSize(n) + 1, Least(s * ChunkSize(n), n))

(* The server's share for worker w: the first Len % Workers get one more. *)
ChunkList(list, w) ==
    LET k == Len(list) \div Workers
        r == Len(list) % Workers
    IN  SubSeq(list, (w - 1) * k + Least(w - 1, r) + 1, w * k + Least(w, r))

Init ==
    /\ call = "connect"
    /\ client = 1
    /\ version = 0
    /\ loaded = FALSE
    /\ step = 1
    /\ size = 0
    /\ thread = [s \in 1..Servers |-> "off"]
    /\ reply = [s \in 1..Servers |-> <<>>]
    /\ answer = <<>>
    /\ handler = [s \in 1..Servers |-> Starting]
    /\ pipe = [e \in Engines |-> <<Command("start", 0, <<>>)>>]
    /\ result = [e \in Engines |-> <<>>]
    /\ comm = [e \in Engines |-> FALSE]
    /\ tensor = [e \in Engines |-> NoTensor]
    /\ weights = [e \in Engines |-> [b \in 1..Buckets |-> 0]]
    /\ cache = [e \in Engines |-> {}]

-----------------------------------------------------------------------------
(* The server's endpoints.                                                 *)

Accepts(s) == handler[s] = Free

Send(s, command) ==
    pipe' = [e \in Engines |->
               IF e \in Of(s) THEN Append(pipe[e], command[e[2]]) ELSE pipe[e]]

ToAll(command) == [w \in 1..Workers |-> command]

InitEndpoint(s) ==
    /\ Accepts(s)
    /\ Send(s, ToAll(Command("init", 0, <<>>)))
    /\ UNCHANGED handler

UpdateEndpoint(s, bucket) ==
    /\ Accepts(s)
    /\ Send(s, ToAll(Command("update", bucket, <<>>)))
    /\ UNCHANGED handler

CloseEndpoint(s) ==
    /\ Accepts(s)
    /\ Send(s, ToAll(Command("close", 0, <<>>)))
    /\ UNCHANGED handler

ResetEndpoint(s) ==
    /\ Accepts(s)
    /\ Send(s, ToAll(Command("reset", 0, <<>>)))
    /\ handler' = [handler EXCEPT ![s] = [does |-> "reset", asked |-> 1..Workers]]

(* Mutant: does not drop the answer to the placeholder. *)
InferEndpoint_KeepsPlaceholder(s, requests) ==
    /\ Accepts(s)
    /\ Send(s, [w \in 1..Workers |->
          LET chunk == ChunkList(requests, w)
          IN  Command("infer", 0, IF chunk = <<>> THEN Placeholder ELSE chunk)])
    /\ handler' = [handler EXCEPT ![s] = [does |-> "infer", asked |-> 1..Workers]]

InferEndpoint(s, requests) ==
    /\ Accepts(s)
    /\ Send(s, [w \in 1..Workers |->
          LET chunk == ChunkList(requests, w)
          IN  Command("infer", 0, IF chunk = <<>> THEN Placeholder ELSE chunk)])
    /\ handler' = [handler EXCEPT ![s] =
          [does |-> "infer",
           asked |-> {w \in 1..Workers : ChunkList(requests, w) # <<>>}]]

(* An endpoint with an answer returns when every worker has sent its result. *)
Finish(s) ==
    LET first == [w \in 1..Workers |-> Head(result[<<s, w>>])]
        valid == \/ handler[s].does = "reset"
                 \/ \A w \in handler[s].asked : first[w].ok
        outputs == [w \in 1..Workers |->
                      IF w \in handler[s].asked THEN first[w].outputs ELSE <<>>]
    IN  /\ handler[s].does \in {"reset", "infer"}
        /\ \A e \in Of(s) : result[e] # <<>>
        /\ result' = [e \in Engines |->
                        IF e \in Of(s) THEN Tail(result[e]) ELSE result[e]]
        /\ handler' = [handler EXCEPT ![s] = Free]
        /\ IF thread[s] # "reply"       \* the client is gone
             THEN UNCHANGED <<thread, reply>>
             ELSE IF valid
                    THEN /\ thread' = [thread EXCEPT ![s] = "done"]
                         /\ reply' = [reply EXCEPT ![s] = FlattenSeq(outputs)]
                    ELSE /\ thread' = [thread EXCEPT ![s] = "failed"]
                         /\ UNCHANGED reply
        /\ UNCHANGED <<clientVars, pipe, workerVars>>

(* The application starts to serve when every worker has said it is ready. *)
Lifespan(s) ==
    /\ handler[s] = Starting
    /\ \A e \in Of(s) : result[e] # <<>>
    /\ result' = [e \in Engines |->
                    IF e \in Of(s) THEN Tail(result[e]) ELSE result[e]]
    /\ handler' = [handler EXCEPT ![s] = Free]
    /\ UNCHANGED <<clientVars, thread, reply, pipe, workerVars>>

ServerStep(s) == Finish(s) \/ Lifespan(s)

-----------------------------------------------------------------------------
(* A worker: a loop that executes the commands of its pipe in turn.        *)

Executes(e, method) ==
    /\ tensor[e] = NoTensor
    /\ pipe[e] # <<>>
    /\ Head(pipe[e]).method = method

Pop(e) == pipe' = [pipe EXCEPT ![e] = Tail(@)]

Answer(e, r) == result' = [result EXCEPT ![e] = Append(@, r)]

(* The process has started (its start is the first thing in its pipe). *)
Start(e) ==
    /\ Executes(e, "start")
    /\ Pop(e)
    /\ Answer(e, Output(<<>>))
    /\ UNCHANGED <<clientVars, thread, reply, handler, workerVars>>

(* Joining a second communicator, and receiving without one, raise before  *)
(* the collective; nobody hears of it.                                     *)
Raise(e) ==
    /\ \/ Executes(e, "init") /\ comm[e]
       \/ Executes(e, "update") /\ ~comm[e]
    /\ Pop(e)
    /\ UNCHANGED <<clientVars, thread, reply, handler, result, workerVars>>

(* load_weights of the bucket received. *)
Load(e) ==
    /\ tensor[e] # NoTensor
    /\ tensor' = [tensor EXCEPT ![e] = NoTensor]
    /\ \/ weights' = [weights EXCEPT ![e][tensor[e].bucket] = tensor[e].version]
       \/ /\ "load" \in Faults      \* raises: logged, fire_and_forget
          /\ UNCHANGED weights
    /\ UNCHANGED <<clientVars, thread, reply, handler, pipe, result, comm, cache>>

Reset(e) ==
    /\ Executes(e, "reset")
    /\ Pop(e)
    /\ \/ /\ cache' = [cache EXCEPT ![e] = {}]
          /\ Answer(e, Output(<<>>))
       \/ /\ "reset" \in Faults
          /\ Answer(e, None)
          /\ UNCHANGED cache
    /\ UNCHANGED <<clientVars, thread, reply, handler, comm, tensor, weights>>

(* Generation reads the weights and the prefixes cached, and caches more. *)
Infer(e) ==
    LET requests == Head(pipe[e]).requests
        used == cache[e] \cup {weights[e][b] : b \in 1..Buckets}
    IN  /\ Executes(e, "infer")
        /\ Pop(e)
        /\ cache' = [cache EXCEPT ![e] = used]
        /\ \/ Answer(e, Output([i \in 1..Len(requests) |->
                              [request |-> requests[i], from |-> used]]))
           \/ "infer" \in Faults /\ Answer(e, None)
        /\ UNCHANGED <<clientVars, thread, reply, handler, comm, tensor, weights>>

Close(e) ==
    /\ Executes(e, "close")
    /\ Pop(e)
    /\ comm' = [comm EXCEPT ![e] = FALSE]
    /\ UNCHANGED <<clientVars, thread, reply, handler, result, tensor, weights, cache>>

WorkerStep(e) ==
    \/ Start(e)
    \/ Raise(e)
    \/ Load(e)
    \/ Reset(e)
    \/ Infer(e)
    \/ Close(e)

(* The collectives of the client's thread and all workers of a server.     *)
AllExecute(s, method) == \A e \in Of(s) : Executes(e, method)

PopAll(s) ==
    pipe' = [e \in Engines |-> IF e \in Of(s) THEN Tail(pipe[e]) ELSE pipe[e]]

Rendezvous(s) ==
    /\ thread[s] = "rendezvous"
    /\ AllExecute(s, "init")
    /\ \A e \in Of(s) : ~comm[e]
    /\ PopAll(s)
    /\ comm' = [e \in Engines |-> comm[e] \/ e \in Of(s)]
    /\ thread' = [thread EXCEPT ![s] = "done"]
    /\ UNCHANGED <<clientVars, reply, handler, result, tensor, weights, cache>>

(* The tensor is the one the client is sending, its name is the command's. *)
Broadcast(s) ==
    /\ thread[s] = "broadcast"
    /\ AllExecute(s, "update")
    /\ \A e \in Of(s) : comm[e]
    /\ PopAll(s)
    /\ tensor' = [e \in Engines |->
          IF e \notin Of(s) THEN tensor[e]
          ELSE LET named == Head(pipe[e]).bucket
               IN  [bucket |-> named,
                    version |-> IF named = step THEN version ELSE Garbage]]
    /\ thread' = [thread EXCEPT ![s] = "done"]
    /\ UNCHANGED <<clientVars, reply, handler, result, comm, weights, cache>>

-----------------------------------------------------------------------------
(* The client.                                                             *)

All(state) == [s \in 1..Servers |-> state]
Joined == \A s \in 1..Servers : thread[s] \in {"done", "failed"}
SomeFailed == \E s \in 1..Servers : thread[s] = "failed"

(* Mutant: joins without leaving on a predecessor's behalf. *)
CheckServer_NoClose ==
    /\ call = "connect"
    /\ \A s \in 1..Servers : handler[s] # Starting
    /\ call' = "init"
    /\ UNCHANGED <<client, version, loaded, step, size, answer>>
    /\ UNCHANGED <<thread, reply, handler, pipe, result, workerVars>>

(* The start of the client: it polls /health/ until every server is up. *)
CheckServer ==
    /\ call = "connect"
    /\ \/ /\ \A s \in 1..Servers : handler[s] # Starting
          /\ call' = "close"
       \/ /\ "timeout" \in Faults
          /\ call' = "over"
    /\ UNCHANGED <<client, version, loaded, step, size, answer>>
    /\ UNCHANGED <<thread, reply, handler, pipe, result, workerVars>>

(* Leave the communicator, one server after the other.  A trainer does this *)
(* before it joins, for its predecessor's sake, and at its exit; errors are *)
(* logged. *)
CloseCommunicator ==
    /\ call \in {"close", "exit"}
    /\ \/ CloseEndpoint(step)
       \/ "close" \in Faults /\ UNCHANGED <<pipe, handler>>
    /\ step' = IF step < Servers THEN step + 1 ELSE 1
    /\ call' = IF step < Servers THEN call
               ELSE IF call = "close" THEN "init" ELSE "over"
    /\ UNCHANGED <<client, version, loaded, size, answer, thread, reply, result>>
    /\ UNCHANGED workerVars

(* Join it, one server after the other: the server's workers are told, then *)
(* all meet. *)
InitCommunicator ==
    /\ call = "init"
    /\ thread[step] = "off"
    /\ \/ /\ InitEndpoint(step)
          /\ thread' = [thread EXCEPT ![step] = "rendezvous"]
       \/ /\ "post" \in Faults
          /\ thread' = [thread EXCEPT ![step] = "failed"]
          /\ UNCHANGED <<pipe, handler>>
    /\ UNCHANGED <<clientVars, reply, result, workerVars>>

InitReturn ==
    /\ call = "init"
    /\ thread[step] \in {"done", "failed"}
    /\ IF thread[step] = "failed"
         THEN call' = "over" /\ UNCHANGED step  \* close is not registered yet
         ELSE IF step < Servers
                THEN step' = step + 1 /\ UNCHANGED call
                ELSE step' = 1 /\ call' = "idle"
    /\ UNCHANGED <<client, version, loaded, size, answer>>
    /\ UNCHANGED <<thread, reply, handler, pipe, result, workerVars>>

(* New weights, bucket by bucket, then the prefix cache. *)
MoveModel ==
    /\ call = "idle"
    /\ version < MaxVersion
    /\ call' = "update"
    /\ version' = version + 1
    /\ step' = 1
    /\ thread' = All("post")
    /\ answer' = <<>>
    /\ UNCHANGED <<client, loaded, size, reply, handler, pipe, result, workerVars>>

UpdateServer(s) ==
    /\ call = "update"
    /\ thread[s] = "post"
    /\ UpdateEndpoint(s, step)
    /\ thread' = [thread EXCEPT ![s] = "broadcast"]
    /\ UNCHANGED <<clientVars, reply, result, workerVars>>

(* Mutant: does not end with a call that waits for the workers. *)
UpdateReturn_NoReset ==
    /\ call = "update"
    /\ Joined
    /\ IF SomeFailed \/ step = Buckets
         THEN /\ call' = IF SomeFailed THEN "exit" ELSE "idle"
              /\ step' = 1
              /\ UNCHANGED thread
         ELSE /\ step' = step + 1
              /\ thread' = All("post")
              /\ UNCHANGED call
    /\ UNCHANGED <<client, version, loaded, size, answer>>
    /\ UNCHANGED <<reply, handler, pipe, result, workerVars>>

(* Mutant: sends a bucket too many. *)
UpdateReturn_OneMore ==
    /\ call = "update"
    /\ Joined
    /\ call' = IF step <= Buckets THEN "update" ELSE "reset"
    /\ step' = IF step <= Buckets THEN step + 1 ELSE 1
    /\ thread' = All("post")
    /\ UNCHANGED <<client, version, loaded, size, answer>>
    /\ UNCHANGED <<reply, handler, pipe, result, workerVars>>

UpdateReturn ==
    /\ call = "update"
    /\ Joined
    /\ IF SomeFailed
         THEN /\ call' = "exit"
              /\ step' = 1
              /\ UNCHANGED thread
         ELSE /\ call' = IF step < Buckets THEN "update" ELSE "reset"
              /\ step' = IF step < Buckets THEN step + 1 ELSE 1
              /\ thread' = All("post")
    /\ UNCHANGED <<client, version, loaded, size, answer>>
    /\ UNCHANGED <<reply, handler, pipe, result, workerVars>>

ResetServer(s) ==
    /\ call = "reset"
    /\ thread[s] = "post"
    /\ ResetEndpoint(s)
    /\ thread' = [thread EXCEPT ![s] = "reply"]
    /\ UNCHANGED <<clientVars, reply, result, workerVars>>

ResetReturn ==
    /\ call = "reset"
    /\ Joined
    /\ call' = IF SomeFailed THEN "exit" ELSE "idle"
    /\ loaded' = (loaded \/ ~SomeFailed)
    /\ UNCHANGED <<client, version, step, size, answer, thread>>
    /\ UNCHANGED <<reply, handler, pipe, result, workerVars>>

InferCall ==
    /\ call = "idle"
    /\ loaded
    /\ call' = "infer"
    /\ size' \in 1..MaxRequests
    /\ thread' = All("post")
    /\ reply' = All(<<>>)
    /\ answer' = <<>>
    /\ UNCHANGED <<client, version, loaded, step, handler, pipe, result, workerVars>>

InferServer(s) ==
    /\ call = "infer"
    /\ thread[s] = "post"
    /\ InferEndpoint(s, Chunk(size, s))
    /\ thread' = [thread EXCEPT ![s] = "reply"]
    /\ UNCHANGED <<clientVars, reply, result, workerVars>>

InferReturn ==
    /\ call = "infer"
    /\ Joined
    /\ IF SomeFailed
         THEN call' = "exit" /\ UNCHANGED answer
         ELSE call' = "idle" /\ answer' = FlattenSeq(reply)
    /\ UNCHANGED <<client, version, loaded, step, size, thread>>
    /\ UNCHANGED <<reply, handler, pipe, result, workerVars>>

(* A request that does not reach the server, or an error in return. *)
PostFails(s) ==
    /\ "post" \in Faults
    /\ thread[s] = "post"
    /\ thread' = [thread EXCEPT ![s] = "failed"]
    /\ UNCHANGED <<clientVars, reply, handler, pipe, result, workerVars>>

ThreadStep(s) ==
    \/ UpdateServer(s)
    \/ ResetServer(s)
    \/ InferServer(s)
    \/ PostFails(s)
    \/ Rendezvous(s)
    \/ Broadcast(s)

ClientStep ==
    \/ CheckServer
    \/ CloseCommunicator
    \/ InitCommunicator
    \/ InitReturn
    \/ UpdateReturn
    \/ ResetReturn
    \/ InferReturn

(* The training ends. *)
Exit ==
    /\ call = "idle"
    /\ call' = "exit"
    /\ step' = 1
    /\ UNCHANGED <<client, version, loaded, size, answer>>
    /\ UNCHANGED <<thread, reply, handler, pipe, result, workerVars>>

(* The trainer's process is killed. *)
Kill ==
    /\ call \in KillIn
    /\ call' = "over"
    /\ thread' = All("off")
    /\ UNCHANGED <<client, version, loaded, step, size, answer>>
    /\ UNCHANGED <<reply, handler, pipe, result, workerVars>>

(* Another trainer is started with the same servers. *)
Restart ==
    /\ call = "over"
    /\ client < MaxClients
    /\ client' = client + 1
    /\ call' = "connect"
    /\ loaded' = FALSE
    /\ step' = 1
    /\ thread' = All("off")
    /\ reply' = All(<<>>)
    /\ answer' = <<>>
    /\ UNCHANGED <<version, size, handler, pipe, result, workerVars>>

Next ==
    \/ ClientStep
    \/ MoveModel
    \/ InferCall
    \/ Exit
    \/ Kill
    \/ Restart
    \/ \E s \in 1..Servers : ThreadStep(s) \/ ServerStep(s)
    \/ \E e \in Engines : WorkerStep(e)

Spec == Init /\ [][Next]_vars

(* Every process and thread runs when it can.  What the trainer calls next, *)
(* its end and its restart are not obligations. *)
FairSpec ==
    /\ Spec
    /\ WF_vars(ClientStep)
    /\ \A s \in 1..Servers : WF_vars(ThreadStep(s)) /\ WF_vars(ServerStep(s))
    /\ \A e \in Engines : WF_vars(WorkerStep(e))

-----------------------------------------------------------------------------
(* Properties                                                              *)

Versions == 0..MaxVersion + 1
Completions == [request : 0..MaxRequests, from : SUBSET Versions]

(* Every variable has its type. *)
TypeOK ==
    /\ call \in {"connect", "close", "init", "idle", "update", "reset",
                 "infer", "exit", "over"}
    /\ client \in 1..MaxClients
    /\ version \in 0..MaxVersion
    /\ loaded \in BOOLEAN
    /\ step \in 1..Buckets \/ step \in 1..Servers
    /\ size \in 0..MaxRequests
    /\ thread \in [1..Servers -> {"off", "post", "rendezvous", "broadcast",
                                  "reply", "done", "failed"}]
    /\ reply \in [1..Servers -> Seq(Completions)]
    /\ answer \in Seq(Completions)
    /\ handler \in [1..Servers ->
          [does : {"nothing", "starting", "reset", "infer"},
           asked : SUBSET (1..Workers)]]
    /\ pipe \in [Engines ->
          Seq([method : {"start", "init", "update", "reset", "infer", "close"},
               bucket : 0..Buckets, requests : Seq(0..MaxRequests)])]
    /\ result \in [Engines -> Seq([ok : BOOLEAN, outputs : Seq(Completions)])]
    /\ comm \in [Engines -> BOOLEAN]
    /\ tensor \in [Engines -> [bucket : 0..Buckets, version : Versions]]
    /\ weights \in [Engines -> [1..Buckets -> Versions]]
    /\ cache \in [Engines -> SUBSET Versions]

(* Between two calls the servers do nothing for the trainer: no command is  *)
(* on its way, no result is left for the next call to take for its own, and *)
(* no bucket is being loaded.  Updates return before they are loaded; it is *)
(* the answer to reset_prefix_cache, behind them in the same pipes, that    *)
(* waits for them. *)
Quiescent ==
    call = "idle" =>
        /\ \A s \in 1..Servers : handler[s] = Free
        /\ \A e \in Engines :
             /\ pipe[e] = <<>> /\ result[e] = <<>>
             /\ tensor[e] = NoTensor
             /\ comm[e]

(* infer returns one completion for each request, in their order, however  *)
(* they were divided among servers and workers and whatever failed before: *)
(* no placeholder, no None, nothing that another call asked for. *)
InOrder ==
    answer # <<>> => [i \in 1..Len(answer) |-> answer[i].request] = Requests(size)

(* The servers do what the trainer relies on: answers are complete, in      *)
(* order, and generated by the weights sent last and nothing else, whatever *)
(* is cached, left over by an earlier trainer, or fails. *)
Service == INSTANCE RolloutService WITH
    service <- CASE call \in {"connect", "close", "init"} -> "none"
                 [] call \in {"update", "reset"} -> "sync"
                 [] call \in {"exit", "over"} -> "over"
                 [] OTHER -> call
ImplementsService == Service!Spec

(* Every call returns or fails, and so does connecting, also to servers on  *)
(* which another trainer was killed. *)
CallsReturn ==
    call \in {"connect", "close", "init", "update", "reset", "infer", "exit"}
        ~> call \in {"idle", "over"}

=============================================================================
