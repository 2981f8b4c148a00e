------------------------- MODULE RolloutServerProofs -------------------------
(***************************************************************************)
(* What RolloutServer promises, for every number of servers, workers,      *)
(* buckets, requests and clients, and for every choice of faults: between  *)
(* two calls the servers are at rest, answers come in the order of their   *)
(* requests, and, unless a worker's load or reset fails unnoticed, the     *)
(* servers are the one copy of the weights that RolloutService describes.  *)
(*                                                                         *)
(* The invariant says, for what the client is doing and for how far its    *)
(* thread for a server has come, what the server and its workers have      *)
(* before them; and which weights are in their models, received and not    *)
(* loaded, or behind a cached prefix.  Types come first, then how requests *)
(* are divided and put together again, then one lemma for each action.     *)
(***************************************************************************)
EXTENDS RolloutServer, SequenceLemmas

\* Nothing that fails unnoticed leaves old weights or prefixes in a worker.
Reliable == Faults \cap {"load", "reset"} = {}

\* The weights an answer may come from.
Sources == IF Reliable THEN {{version}} ELSE SUBSET Versions

\* The right answers to a list of requests.
AnswersTo(list) ==
    {out \in Seq(Completions) :
        /\ Len(out) = Len(list)
        /\ \A i \in 1..Len(list) : /\ out[i].request = list[i]
                                   /\ out[i].from \in Sources}

\* The requests that worker w gets of a list.
Share(list, w) ==
    IF ChunkList(list, w) = <<>> THEN Placeholder ELSE ChunkList(list, w)

-----------------------------------------------------------------------------
(* The servers, by what the client is doing.                                *)

\* A worker has a command before it, or has sent what came of it.
Busy(e, method) ==
    \/ /\ Len(pipe[e]) = 1 /\ pipe[e][1].method = method
       /\ result[e] = <<>>
    \/ pipe[e] = <<>> /\ Len(result[e]) = 1

\* Nobody waits for the server.  It starts, it finishes an endpoint for a
\* client that was killed, or it leaves communicators.
Unattended(s) ==
    \/ handler[s] = Starting /\ \A e \in Of(s) : Busy(e, "start")
    \/ /\ handler[s].does \in {"reset", "infer"}
       /\ \A e \in Of(s) : Busy(e, handler[s].does)
    \/ /\ handler[s] = Free
       /\ \A e \in Of(s) :
            /\ \A i \in 1..Len(pipe[e]) : pipe[e][i].method = "close"
            /\ result[e] = <<>>

\* The client waits for its workers to join.
Joining(s) ==
    /\ handler[s] = Free
    /\ \A e \in Of(s) :
        /\ \A i \in 1..Len(pipe[e]) :
            \/ pipe[e][i].method = "close"
            \/ i = Len(pipe[e]) /\ pipe[e][i].method = "init"
        /\ result[e] = <<>>

Member(s) == \A e \in Of(s) : comm[e]
Loaded(s) == \A e \in Of(s) : tensor[e] = NoTensor

\* Nothing is on its way to or from the server's workers.
Silent(s) ==
    /\ handler[s] = Free
    /\ \A e \in Of(s) : pipe[e] = <<>> /\ result[e] = <<>>

Receiving(s) ==
    /\ handler[s] = Free
    /\ \A e \in Of(s) :
        /\ pipe[e] = <<Command("update", step, <<>>)>>
        /\ result[e] = <<>>

Resetting(s) ==
    /\ handler[s] = [does |-> "reset", asked |-> 1..Workers]
    /\ \A e \in Of(s) : /\ Busy(e, "reset")
                        /\ (pipe[e] = <<>> => tensor[e] = NoTensor)

\* A worker has its share of the requests before it, or has answered.
InferringAt(s, w) ==
    LET e == <<s, w>>
        share == Share(Chunk(size, s), w)
    IN  \/ /\ pipe[e] = <<Command("infer", 0, share)>>
           /\ result[e] = <<>>
        \/ /\ pipe[e] = <<>> /\ Len(result[e]) = 1
           /\ result[e][1].ok => result[e][1].outputs \in AnswersTo(share)

Inferring(s) ==
    /\ handler[s] = [does |-> "infer",
                     asked |-> {w \in 1..Workers : ChunkList(Chunk(size, s), w) # <<>>}]
    /\ \A w \in 1..Workers : InferringAt(s, w)

AtInit(s) ==
    \/ s <= step /\ thread[s] = "done" /\ Silent(s) /\ Member(s) /\ Loaded(s)
    \/ s = step /\ thread[s] = "rendezvous" /\ Joining(s)
    \/ s = step /\ thread[s] \in {"off", "failed"} /\ Unattended(s)
    \/ s > step /\ thread[s] = "off" /\ Unattended(s)

AtUpdate(s) ==
    /\ Member(s)
    /\ \/ thread[s] \in {"post", "done", "failed"} /\ Silent(s)
       \/ thread[s] = "broadcast" /\ Receiving(s)

AtReset(s) ==
    /\ Member(s)
    /\ \/ thread[s] \in {"post", "failed"} /\ Silent(s)
       \/ thread[s] = "reply" /\ Resetting(s)
       \/ thread[s] = "done" /\ Silent(s) /\ Loaded(s)

AtInfer(s) ==
    /\ Member(s) /\ Loaded(s)
    /\ \/ thread[s] \in {"post", "failed"} /\ Silent(s)
       \/ thread[s] = "reply" /\ Inferring(s)
       \/ /\ thread[s] = "done" /\ Silent(s)
          /\ reply[s] \in AnswersTo(Chunk(size, s))

ServerInv(s) ==
    /\ call \in {"connect", "close"} => thread[s] = "off" /\ Unattended(s)
    /\ call \in {"exit", "over"} =>
        thread[s] \in {"off", "done", "failed"} /\ Unattended(s)
    /\ call = "init" => AtInit(s)
    /\ call = "idle" =>
        thread[s] = "done" /\ Silent(s) /\ Member(s) /\ Loaded(s)
    /\ call = "update" => AtUpdate(s)
    /\ call = "reset" => AtReset(s)
    /\ call = "infer" => AtInfer(s)

ClientInv ==
    /\ call \in {"close", "init", "exit"} => step \in 1..Servers
    /\ call \in {"connect", "idle", "reset", "infer"} => step = 1
    /\ call = "update" => step \in 1..Buckets
    /\ call = "infer" => loaded
    /\ call \in {"connect", "close", "init"} => ~loaded
    /\ answer # <<>> => answer \in AnswersTo(Requests(size))

-----------------------------------------------------------------------------
(* The weights, as long as nothing fails unnoticed.                         *)

Has(e, b) ==
    weights[e][b] = version \/ tensor[e] = [bucket |-> b, version |-> version]

Right(e) == \A b \in 1..Buckets : weights[e][b] = version

WeightInv(e) ==
    LET t == thread[e[1]] IN
    /\ call \in {"update", "reset"} =>
        tensor[e] = NoTensor \/ tensor[e] \in [bucket : 1..Buckets, version : {version}]
    /\ call = "update" =>
        \A b \in 1..Buckets : b < step \/ (b = step /\ t = "done") => Has(e, b)
    /\ call = "reset" =>
        /\ \A b \in 1..Buckets : Has(e, b)
        /\ t = "done" \/ (t = "reply" /\ pipe[e] = <<>>) => cache[e] = {}
    /\ (call = "idle" /\ loaded) \/ call = "infer" =>
        Right(e) /\ cache[e] \subseteq {version}

IInv ==
    /\ TypeOK
    /\ ClientInv
    /\ \A s \in 1..Servers : ServerInv(s)
    /\ Reliable => \A e \in Engines : WeightInv(e)

-----------------------------------------------------------------------------
(* Types.                                                                   *)

Commands ==
    [method : {"start", "init", "update", "reset", "infer", "close"},
     bucket : 0..Buckets, requests : Seq(0..MaxRequests)]
Results == [ok : BOOLEAN, outputs : Seq(Completions)]

LEMMA Sizes ==
    /\ Servers \in Nat /\ Servers >= 1 /\ Workers \in Nat /\ Workers >= 1
    /\ Buckets \in Nat /\ Buckets >= 1 /\ MaxVersion \in Nat /\ MaxVersion >= 1
    /\ MaxRequests \in Nat /\ MaxRequests >= 1
    /\ MaxClients \in Nat /\ MaxClients >= 1
BY ServerAssumption

\* The parts of TypeOK.
ClientType ==
    /\ call \in {"connect", "close", "init", "idle", "update", "reset",
                 "infer", "exit", "over"}
    /\ client \in 1..MaxClients /\ version \in 0..MaxVersion
    /\ size \in 0..MaxRequests
    /\ step \in 1..Buckets \/ step \in 1..Servers
LoadedType == loaded \in BOOLEAN
AnswerType == answer \in Seq(Completions)
States == {"off", "post", "rendezvous", "broadcast", "reply", "done", "failed"}
ThreadType == thread \in [1..Servers -> States]
ReplyType == reply \in [1..Servers -> Seq(Completions)]
HandlerType ==
    handler \in [1..Servers ->
          [does : {"nothing", "starting", "reset", "infer"},
           asked : SUBSET (1..Workers)]]
PipeType == pipe \in [Engines -> Seq(Commands)]
ResultType == result \in [Engines -> Seq(Results)]
WorkerType ==
    /\ comm \in [Engines -> BOOLEAN]
    /\ tensor \in [Engines -> [bucket : 0..Buckets, version : Versions]]
    /\ weights \in [Engines -> [1..Buckets -> Versions]]
    /\ cache \in [Engines -> SUBSET Versions]

LEMMA Types ==
    TypeOK <=> /\ ClientType /\ LoadedType /\ AnswerType /\ ThreadType
               /\ ReplyType /\ HandlerType /\ PipeType /\ ResultType /\ WorkerType
BY Zenon DEF TypeOK, ClientType, LoadedType, AnswerType, ThreadType, States, ReplyType,
    HandlerType, PipeType, Commands, ResultType, Results, WorkerType

LEMMA InitType == Init => TypeOK
<1> SUFFICES ASSUME Init PROVE TypeOK
  OBVIOUS
<1> USE Sizes
<1>1. ClientType
  <2>1. /\ call = "connect" /\ client = 1 /\ version = 0
        /\ step = 1 /\ size = 0
    BY DEF Init
  <2>2. QED
    BY <2>1 DEF ClientType
<1>2. ThreadType /\ ReplyType /\ HandlerType
  BY DEF Init, Starting, ThreadType, States, ReplyType, HandlerType
<1>3. AnswerType /\ LoadedType
  <2>1. answer = <<>> /\ loaded = FALSE
    BY Zenon DEF Init
  <2>2. AnswerType
    BY <2>1 DEF AnswerType
  <2>3. LoadedType
    BY <2>1, Zenon DEF LoadedType
  <2>4. QED
    BY <2>2, <2>3
<1>4. PipeType
  BY DEF Init, Command, Commands, PipeType
<1>5. ResultType
  BY DEF Init, ResultType
<1>6. WorkerType
  BY DEF Init, NoTensor, Versions, WorkerType
<1>7. QED
  BY <1>1, <1>2, <1>3, <1>4, <1>5, <1>6, Types

\* Nothing but the client's own variables and its threads.
LEMMA ClientOnlyTypes ==
    ASSUME TypeOK, ClientType', LoadedType', AnswerType', ThreadType', ReplyType',
           UNCHANGED <<handler, pipe, result, workerVars>>
    PROVE  TypeOK'
<1>1. HandlerType' /\ PipeType' /\ ResultType' /\ WorkerType'
  BY Types DEF workerVars, HandlerType, PipeType, ResultType, WorkerType
<1>2. QED
  BY <1>1, Types, PTL

LEMMA ClientActionTypes ==
    ASSUME TypeOK, ClientInv,
           \/ CheckServer \/ InitReturn \/ UpdateReturn \/ ResetReturn
           \/ MoveModel \/ InferCall \/ Exit \/ Kill \/ Restart
    PROVE  TypeOK'
<1> USE Sizes DEF clientVars
<1>1. ClientType'
  <2> USE Types DEF ClientType
  <2>1. CASE CheckServer
    BY <2>1 DEF CheckServer
  <2>2. CASE InitReturn
    BY <2>2 DEF InitReturn, ClientInv
  <2>3. CASE UpdateReturn
    BY <2>3 DEF UpdateReturn, ClientInv
  <2>4. CASE ResetReturn
    BY <2>4 DEF ResetReturn
  <2>5. CASE MoveModel
    BY <2>5 DEF MoveModel
  <2>6. CASE InferCall
    BY <2>6 DEF InferCall
  <2>7. CASE Exit
    BY <2>7 DEF Exit
  <2>8. CASE Kill
    BY <2>8 DEF Kill
  <2>9. CASE Restart
    BY <2>9 DEF Restart
  <2>10. QED
    BY <2>1, <2>2, <2>3, <2>4, <2>5, <2>6, <2>7, <2>8, <2>9
<1>2. /\ answer' = answer \/ answer' = <<>>
      /\ thread' = thread \/ thread' = All("post") \/ thread' = All("off")
      /\ reply' = reply \/ reply' = All(<<>>)
      /\ UNCHANGED <<handler, pipe, result, workerVars>>
  <2>1. CASE CheckServer \/ InitReturn \/ ResetReturn \/ Exit
    BY <2>1 DEF CheckServer, InitReturn, ResetReturn, Exit
  <2>2. CASE UpdateReturn
    BY <2>2 DEF UpdateReturn
  <2>3. CASE MoveModel \/ InferCall \/ Kill \/ Restart
    BY <2>3 DEF MoveModel, InferCall, Kill, Restart
  <2>4. QED
    BY <2>1, <2>2, <2>3
<1>3. ThreadType'
  <2>1. \A t \in States : All(t) \in [1..Servers -> States]
    BY DEF All
  <2>2. "post" \in States /\ "off" \in States /\ thread \in [1..Servers -> States]
    BY Types DEF States, ThreadType
  <2>3. QED
    BY <1>2, <2>1, <2>2 DEF ThreadType
<1>4. AnswerType' /\ ReplyType'
  <2>1. <<>> \in Seq(Completions)
    OBVIOUS
  <2>2. QED
    BY <1>2, <2>1, Types DEF AnswerType, ReplyType, All
<1>5. LoadedType'
  <2>1. loaded' = loaded \/ loaded' = FALSE \/ loaded' = (loaded \/ ~SomeFailed)
    BY Zenon DEF CheckServer, InitReturn, UpdateReturn, ResetReturn,
        MoveModel, InferCall, Exit, Kill, Restart
  <2>2. QED
    BY <2>1, Types, Zenon DEF LoadedType
<1>6. QED
  BY <1>1, <1>2, <1>3, <1>4, <1>5, ClientOnlyTypes

-----------------------------------------------------------------------------
(* How requests are divided.                                                *)

LEMMA Division ==
    ASSUME NEW x \in Nat, NEW d \in Nat \ {0}
    PROVE  /\ x \div d \in Nat /\ x % d \in 0..d - 1
           /\ x = (x \div d) * d + (x % d)
<1>1. /\ x \div d \in Nat /\ (x \div d) * d <= x
      /\ x < (x \div d) * d + d /\ (x \div d) * d \in Nat
  OBVIOUS
<1>2. x % d = x - (x \div d) * d
  OBVIOUS
<1> DEFINE m == x % d
           p == (x \div d) * d
<1>3. m = x - p /\ p \in Nat /\ p <= x /\ x < p + d
  BY <1>1, <1>2
<1> HIDE DEF m, p
<1>4. m \in 0..d - 1 /\ x = p + m
  BY <1>3
<1>5. QED
  BY <1>1, <1>4 DEF m, p

\* Where the parts of a list of n requests end: the servers' and the workers'.
ChunkEnds(n) == [s \in 0..Servers |-> Least(s * ChunkSize(n), n)]
ShareEnds(n) ==
    [w \in 0..Workers |-> w * (n \div Workers) + Least(w, n % Workers)]

LEMMA ChunkEndsRight ==
    ASSUME NEW n \in Nat
    PROVE  /\ ChunkEnds(n) \in [0..Servers -> 0..n]
           /\ ChunkEnds(n)[0] = 0
           /\ ChunkEnds(n)[Servers] = n
           /\ \A s \in 1..Servers : ChunkEnds(n)[s - 1] <= ChunkEnds(n)[s]
<1> DEFINE c == ChunkSize(n)
<1>1. c \in Nat /\ Servers * c >= n
  <2>1. /\ c = (n + Servers - 1) \div Servers /\ n + Servers - 1 \in Nat
    BY Sizes DEF ChunkSize
  <2> DEFINE x == n + Servers - 1
             m == x % Servers
             p == c * Servers
  <2>2. c \in Nat /\ m \in 0..Servers - 1 /\ x = p + m
    <3>1. Servers \in Nat \ {0}
      BY Sizes
    <3> HIDE DEF x
    <3>2. QED
      BY <2>1, <3>1, Division DEF x
  <2>3. p = Servers * c /\ p \in Nat
    <3> HIDE DEF c
    <3>1. QED
      BY <2>2, Sizes
  <2> HIDE DEF c, m, p
  <2>4. p >= n
    BY <2>2, <2>3, Sizes
  <2>5. QED
    BY <2>2, <2>3, <2>4
<1> HIDE DEF c
<1>2. \A s \in 0..Servers : s * c \in Nat
  BY <1>1, Sizes
<1>3. \A s \in 0..Servers : ChunkEnds(n)[s] = Least(s * c, n)
  BY DEF ChunkEnds, c
<1>4. ChunkEnds(n) \in [0..Servers -> 0..n]
  BY <1>2 DEF ChunkEnds, Least, c
<1>5. 0 * c = 0
  BY <1>1
<1>6. \A s \in 1..Servers : (s - 1) * c <= s * c
  BY <1>1, Sizes
<1>7. \A s \in 1..Servers : ChunkEnds(n)[s - 1] <= ChunkEnds(n)[s]
  BY <1>2, <1>3, <1>6, Sizes DEF Least
<1>8. QED
  BY <1>1, <1>3, <1>4, <1>5, <1>7, Sizes DEF Least

LEMMA ShareEndsRight ==
    ASSUME NEW n \in Nat
    PROVE  /\ ShareEnds(n) \in [0..Workers -> 0..n]
           /\ ShareEnds(n)[0] = 0
           /\ ShareEnds(n)[Workers] = n
           /\ \A w \in 1..Workers : ShareEnds(n)[w - 1] <= ShareEnds(n)[w]
<1> DEFINE k == n \div Workers
           r == n % Workers
<1>1. k \in Nat /\ r \in Nat /\ r < Workers /\ n = k * Workers + r
  <2>1. Workers \in Nat \ {0}
    BY Sizes
  <2>2. QED
    BY <2>1, Division
<1> HIDE DEF k, r
<1>2. \A w \in 0..Workers : ShareEnds(n)[w] = w * k + Least(w, r)
  BY DEF ShareEnds, k, r
<1>3. \A w \in 0..Workers : w * k \in Nat /\ w * k <= k * Workers
  BY <1>1, Sizes
<1>4. \A w \in 1..Workers : (w - 1) * k <= w * k
  BY <1>1, Sizes
<1>5. 0 * k = 0 /\ Workers * k = k * Workers
  BY <1>1, Sizes
<1>6. \A w \in 0..Workers : ShareEnds(n)[w] \in 0..n
  BY <1>1, <1>2, <1>3, Sizes DEF Least
<1>7. ShareEnds(n) \in [0..Workers -> 0..n]
  BY <1>6 DEF ShareEnds
<1>8. \A w \in 1..Workers : ShareEnds(n)[w - 1] <= ShareEnds(n)[w]
  BY <1>1, <1>2, <1>3, <1>4, Sizes DEF Least
<1>9. ShareEnds(n)[0] = 0
  <2>1. 0 \in 0..Workers /\ Least(0, r) = 0
    BY <1>1, Sizes DEF Least
  <2>2. ShareEnds(n)[0] = 0 * k + Least(0, r)
    BY <1>2, <2>1
  <2>3. QED
    BY <1>5, <2>1, <2>2
<1>10. ShareEnds(n)[Workers] = n
  <2>1. Workers \in 0..Workers /\ Least(Workers, r) = r
    BY <1>1, Sizes DEF Least
  <2>2. ShareEnds(n)[Workers] = Workers * k + Least(Workers, r)
    BY <1>2, <2>1
  <2>3. QED
    BY <1>1, <1>5, <2>1, <2>2
<1>11. QED
  BY <1>7, <1>8, <1>9, <1>10

\* A slice of a list, from behind place a up to place b.
LEMMA Slice ==
    ASSUME NEW S, NEW list \in Seq(S), NEW a \in Nat, NEW b \in Nat,
           a <= b, b <= Len(list)
    PROVE  /\ SubSeq(list, a + 1, b) \in Seq(S)
           /\ Len(SubSeq(list, a + 1, b)) = b - a
           /\ \A i \in 1..b - a : SubSeq(list, a + 1, b)[i] = list[a + i]
<1>1. \A i \in (a + 1)..b : list[i] \in S
  BY LenProperties, ElementOfSeq
<1>2. /\ SubSeq(list, a + 1, b) \in Seq(S)
      /\ Len(SubSeq(list, a + 1, b)) = IF a + 1 <= b THEN b - (a + 1) + 1 ELSE 0
      /\ \A i \in 1..b - (a + 1) + 1 :
            SubSeq(list, a + 1, b)[i] = list[(a + 1) + i - 1]
  BY <1>1, SubSeqProperties
<1>3. b - (a + 1) + 1 = b - a /\ \A i \in Nat : (a + 1) + i - 1 = a + i
  OBVIOUS
<1>4. QED
  BY <1>2, <1>3

LEMMA ShareRight ==
    ASSUME NEW S, NEW list \in Seq(S), NEW w \in 1..Workers
    PROVE  LET a == ShareEnds(Len(list))[w - 1]
               b == ShareEnds(Len(list))[w]
           IN  /\ ChunkList(list, w) \in Seq(S)
               /\ Len(ChunkList(list, w)) = b - a
               /\ \A i \in 1..b - a : ChunkList(list, w)[i] = list[a + i]
<1> DEFINE n == Len(list)
           a == ShareEnds(n)[w - 1]
           b == ShareEnds(n)[w]
<1>1. n \in Nat /\ w - 1 \in 0..Workers /\ w \in 0..Workers
  BY LenProperties, Sizes
<1>2. a \in 0..n /\ b \in 0..n /\ a <= b
  BY <1>1, ShareEndsRight
<1>3. /\ a = (w - 1) * (n \div Workers) + Least(w - 1, n % Workers)
      /\ b = w * (n \div Workers) + Least(w, n % Workers)
  BY <1>1 DEF ShareEnds
<1>4. ChunkList(list, w) = SubSeq(list, a + 1, b)
  BY <1>3 DEF ChunkList
<1> HIDE DEF n, a, b
<1>5. a \in Nat /\ b \in Nat /\ b <= Len(list)
  BY <1>1, <1>2 DEF n
<1>6. /\ ChunkList(list, w) \in Seq(S) /\ Len(ChunkList(list, w)) = b - a
      /\ \A i \in 1..b - a : ChunkList(list, w)[i] = list[a + i]
  BY <1>2, <1>4, <1>5, Slice
<1>7. QED
  BY <1>6 DEF n, a, b

LEMMA ChunkRight ==
    ASSUME NEW n \in Nat, NEW s \in 1..Servers
    PROVE  LET a == ChunkEnds(n)[s - 1]
               b == ChunkEnds(n)[s]
           IN  /\ Chunk(n, s) \in Seq(0..n)
               /\ Len(Chunk(n, s)) = b - a
               /\ \A i \in 1..b - a : Chunk(n, s)[i] = a + i
<1> DEFINE c == ChunkSize(n)
           a == ChunkEnds(n)[s - 1]
           b == ChunkEnds(n)[s]
<1>1. s - 1 \in 0..Servers /\ s \in 0..Servers
  BY Sizes
<1>2. a \in 0..n /\ b \in 0..n /\ a <= b
  BY <1>1, ChunkEndsRight
<1>3. a = Least((s - 1) * c, n) /\ b = Least(s * c, n)
  BY <1>1 DEF ChunkEnds
<1>4. Chunk(n, s) = SubSeq(Requests(n), (s - 1) * c + 1, b)
  BY <1>3 DEF Chunk
<1>5. /\ Requests(n) \in Seq(0..n) /\ Len(Requests(n)) = n
      /\ \A i \in 1..n : Requests(n)[i] = i
  BY DEF Requests
<1>6. c \in Nat /\ (s - 1) * c \in Nat
  <2>1. Servers \in Nat \ {0} /\ n + Servers - 1 \in Nat
    BY Sizes
  <2>2. c \in Nat
    BY <2>1 DEF ChunkSize
  <2> HIDE DEF c
  <2>3. QED
    BY <2>2
<1> DEFINE p == (s - 1) * c
<1>7. a = Least(p, n) /\ Chunk(n, s) = SubSeq(Requests(n), p + 1, b) /\ p \in Nat
  BY <1>3, <1>4, <1>6
<1> HIDE DEF p, c, a, b
<1>8. CASE p <= n
  <2>1. a = p
    BY <1>7, <1>8 DEF Least
  <2>2. /\ Chunk(n, s) \in Seq(0..n) /\ Len(Chunk(n, s)) = b - a
        /\ \A i \in 1..b - a : Chunk(n, s)[i] = Requests(n)[a + i]
    BY <1>2, <1>5, <1>7, <2>1, Slice
  <2>3. \A i \in 1..b - a : a + i \in 1..n
    BY <1>2
  <2>4. QED
    BY <1>5, <2>2, <2>3 DEF a, b
<1>9. CASE p > n
  <2>1. a = n /\ b = n
    BY <1>2, <1>7, <1>9 DEF Least
  <2>2. Chunk(n, s) = <<>>
    BY <1>7, <1>9, <2>1, SubSeqEmpty
  <2>3. Chunk(n, s) \in Seq(0..n) /\ Len(Chunk(n, s)) = 0
    BY <2>2
  <2>4. QED
    BY <2>1, <2>3 DEF a, b
<1>10. n \in Nat /\ (p <= n \/ p > n)
  BY <1>7
<1>11. QED
  BY <1>8, <1>9, <1>10 DEF a, b

LEMMA ListTypes ==
    ASSUME NEW n \in 0..MaxRequests, NEW s \in 1..Servers, NEW w \in 1..Workers
    PROVE  /\ Chunk(n, s) \in Seq(0..MaxRequests)
           /\ ChunkList(Chunk(n, s), w) \in Seq(0..MaxRequests)
           /\ Share(Chunk(n, s), w) \in Seq(0..MaxRequests)
<1>1. n \in Nat /\ 0..n \subseteq 0..MaxRequests
  BY Sizes
<1>2. Chunk(n, s) \in Seq(0..MaxRequests)
  BY <1>1, ChunkRight, SeqMonotonic
<1>3. ChunkList(Chunk(n, s), w) \in Seq(0..MaxRequests)
  BY <1>2, ShareRight
<1>4. Placeholder \in Seq(0..MaxRequests)
  BY Sizes DEF Placeholder
<1>5. QED
  BY <1>2, <1>3, <1>4 DEF Share

\* What a call to an endpoint leaves alone, and what its client's threads do.
LEMMA CallTypes ==
    ASSUME TypeOK, ClientType', ThreadType', HandlerType', PipeType',
           UNCHANGED <<client, version, loaded, size, answer, reply, result, workerVars>>
    PROVE  TypeOK'
<1>1. LoadedType' /\ AnswerType'
  BY Types, Zenon DEF LoadedType, AnswerType
<1>2. ReplyType' /\ ResultType' /\ WorkerType'
  BY Types DEF workerVars, ReplyType, ResultType, WorkerType
<1>3. QED
  BY <1>1, <1>2, Types, PTL

LEMMA PlaceOf ==
    /\ \A s \in 1..Servers, w \in 1..Workers : <<s, w>> \in Engines /\ <<s, w>> \in Of(s)
    /\ \A s \in 1..Servers : \A e \in Of(s) :
        /\ e \in Engines /\ e[1] = s /\ e[2] \in 1..Workers /\ e = <<s, e[2]>>
    /\ \A e \in Engines :
        /\ e[1] \in 1..Servers /\ e[2] \in 1..Workers /\ e \in Of(e[1])
        /\ \A s : e \in Of(s) <=> e[1] = s
BY DEF Engines, Of

LEMMA CommandTypes ==
    /\ \A m \in {"start", "init", "update", "reset", "infer", "close"} :
        \A b \in 0..Buckets, r \in Seq(0..MaxRequests) : Command(m, b, r) \in Commands
    /\ <<>> \in Seq(0..MaxRequests) /\ 0 \in 0..Buckets
BY Sizes DEF Command, Commands

LEMMA SendType ==
    ASSUME PipeType, NEW s \in 1..Servers, NEW command \in [1..Workers -> Commands],
           Send(s, command)
    PROVE  PipeType'
<1>1. \A e \in Engines : pipe[e] \in Seq(Commands)
  BY DEF PipeType
<1>2. \A e \in Engines : e \in Of(s) => command[e[2]] \in Commands
  BY PlaceOf
<1>3. QED
  BY <1>1, <1>2, AppendProperties DEF Send, PipeType

LEMMA ToAllType ==
    ASSUME NEW c \in Commands
    PROVE  ToAll(c) \in [1..Workers -> Commands]
BY DEF ToAll

LEMMA CloseCommunicatorType ==
    ASSUME TypeOK, ClientInv, CloseCommunicator
    PROVE  TypeOK'
<1>1. ClientType'
  BY Types, Sizes DEF CloseCommunicator, ClientInv, ClientType
<1>2. ThreadType' /\ HandlerType'
  BY Types DEF CloseCommunicator, CloseEndpoint, ThreadType, HandlerType
<1>3. PipeType'
  <2>1. step \in 1..Servers
    BY DEF CloseCommunicator, ClientInv
  <2>2. ToAll(Command("close", 0, <<>>)) \in [1..Workers -> Commands]
    BY CommandTypes, ToAllType
  <2>3. CASE CloseEndpoint(step)
    BY <2>1, <2>2, <2>3, Types, SendType DEF CloseEndpoint
  <2>4. CASE pipe' = pipe
    BY <2>4, Types DEF PipeType
  <2>5. QED
    BY <2>3, <2>4 DEF CloseCommunicator
<1>4. QED
  BY <1>1, <1>2, <1>3, CallTypes DEF CloseCommunicator

LEMMA InitCommunicatorType ==
    ASSUME TypeOK, ClientInv, InitCommunicator
    PROVE  TypeOK'
<1>0. step \in 1..Servers
  BY DEF InitCommunicator, ClientInv
<1>1. ClientType'
  BY Types, Sizes DEF InitCommunicator, clientVars, ClientType
<1>2. ThreadType' /\ HandlerType'
  BY <1>0, Types DEF InitCommunicator, InitEndpoint, ThreadType, States, HandlerType
<1>3. PipeType'
  <2>2. ToAll(Command("init", 0, <<>>)) \in [1..Workers -> Commands]
    BY CommandTypes, ToAllType
  <2>3. CASE InitEndpoint(step)
    BY <1>0, <2>2, <2>3, Types, SendType DEF InitEndpoint
  <2>4. CASE pipe' = pipe
    BY <2>4, Types DEF PipeType
  <2>5. QED
    BY <2>3, <2>4 DEF InitCommunicator
<1>4. QED
  BY <1>1, <1>2, <1>3, CallTypes DEF InitCommunicator, clientVars

\* The client's threads, while they talk to their servers.
LEMMA ThreadTypes ==
    ASSUME TypeOK, ClientInv, NEW s \in 1..Servers,
           UpdateServer(s) \/ ResetServer(s) \/ InferServer(s) \/ PostFails(s)
    PROVE  TypeOK'
<1>1. ClientType'
  BY Types DEF UpdateServer, ResetServer, InferServer, PostFails, clientVars, ClientType
<1>2. ThreadType'
  BY Types DEF UpdateServer, ResetServer, InferServer, PostFails, ThreadType, States
<1>3. HandlerType'
  <2> DEFINE asked == {w \in 1..Workers : ChunkList(Chunk(size, s), w) # <<>>}
  <2>1. asked \in SUBSET (1..Workers)
    OBVIOUS
  <2>2. \/ handler' = handler
        \/ handler' = [handler EXCEPT ![s] = [does |-> "reset", asked |-> 1..Workers]]
        \/ handler' = [handler EXCEPT ![s] = [does |-> "infer", asked |-> asked]]
    BY DEF UpdateServer, ResetServer, InferServer, PostFails,
        UpdateEndpoint, ResetEndpoint, InferEndpoint
  <2> HIDE DEF asked
  <2> DEFINE Handlers == [does : {"nothing", "starting", "reset", "infer"},
                          asked : SUBSET (1..Workers)]
  <2>3. /\ [does |-> "reset", asked |-> 1..Workers] \in Handlers
        /\ [does |-> "infer", asked |-> asked] \in Handlers
    BY <2>1
  <2>4. handler \in [1..Servers -> Handlers]
    BY Types DEF HandlerType
  <2> HIDE DEF Handlers
  <2>5. handler' \in [1..Servers -> Handlers]
    BY <2>2, <2>3, <2>4
  <2>6. QED
    BY <2>5 DEF Handlers, HandlerType
<1>4. PipeType'
  <2>1. CASE UpdateServer(s)
    <3>1. step \in 0..Buckets
      BY <2>1, Sizes DEF UpdateServer, ClientInv
    <3>2. ToAll(Command("update", step, <<>>)) \in [1..Workers -> Commands]
      BY <3>1, CommandTypes, ToAllType
    <3>3. QED
      BY <2>1, <3>2, Types, SendType DEF UpdateServer, UpdateEndpoint
  <2>2. CASE ResetServer(s)
    <3>2. ToAll(Command("reset", 0, <<>>)) \in [1..Workers -> Commands]
      BY CommandTypes, ToAllType
    <3>3. QED
      BY <2>2, <3>2, Types, SendType DEF ResetServer, ResetEndpoint
  <2>3. CASE InferServer(s)
    <3> DEFINE list == Chunk(size, s)
               command == [w \in 1..Workers |-> Command("infer", 0, Share(list, w))]
    <3>1. size \in 0..MaxRequests
      BY Types DEF ClientType
    <3>2. command \in [1..Workers -> Commands]
      BY <3>1, ListTypes, CommandTypes
    <3>3. Send(s, command)
      BY <2>3 DEF InferServer, InferEndpoint, Share
    <3> HIDE DEF command
    <3>4. QED
      BY <3>2, <3>3, Types, SendType
  <2>4. CASE PostFails(s)
    BY <2>4, Types DEF PostFails, PipeType
  <2>5. QED
    BY <2>1, <2>2, <2>3, <2>4
<1>5. QED
  BY <1>1, <1>2, <1>3, <1>4, CallTypes DEF UpdateServer, ResetServer, InferServer,
      PostFails, clientVars

\* What a server and its workers do leaves the trainer alone.
LEMMA ServerTypes ==
    ASSUME TypeOK, UNCHANGED clientVars, ThreadType', ReplyType', HandlerType',
           PipeType', ResultType', WorkerType'
    PROVE  TypeOK'
<1>1. ClientType'
  BY Types DEF clientVars, ClientType
<1>2. LoadedType' /\ AnswerType'
  BY Types, Zenon DEF clientVars, LoadedType, AnswerType
<1>3. QED
  BY <1>1, <1>2, Types, PTL

LEMMA PopAllType ==
    ASSUME PipeType, NEW s \in 1..Servers, PopAll(s), \A e \in Of(s) : pipe[e] # <<>>
    PROVE  PipeType'
BY HeadTailProperties DEF PopAll, PipeType

LEMMA CollectiveTypes ==
    ASSUME TypeOK, ClientInv, NEW s \in 1..Servers, Rendezvous(s) \/ Broadcast(s)
    PROVE  TypeOK'
<1>1. ThreadType'
  BY Types DEF Rendezvous, Broadcast, ThreadType, States
<1>2. PipeType'
  <2>1. PopAll(s) /\ \A e \in Of(s) : pipe[e] # <<>>
    BY DEF Rendezvous, Broadcast, AllExecute, Executes
  <2>2. QED
    BY <2>1, Types, PopAllType
<1>3. WorkerType'
  <2>1. CASE Rendezvous(s)
    BY <2>1, Types DEF Rendezvous, WorkerType
  <2>2. CASE Broadcast(s)
    <3> DEFINE T == [bucket : 0..Buckets, version : Versions]
    <3>1. version \in Versions /\ Garbage \in Versions
      BY Types, Sizes DEF ClientType, Versions, Garbage
    <3>2. \A e \in Of(s) : Head(pipe[e]).bucket \in 0..Buckets
      <4>1. \A e \in Of(s) : pipe[e] \in Seq(Commands) /\ pipe[e] # <<>>
        BY <2>2, Types, PlaceOf DEF PipeType, Broadcast, AllExecute, Executes
      <4>2. \A e \in Of(s) : Head(pipe[e]) \in Commands
        BY <4>1, HeadTailProperties
      <4>3. QED
        BY <4>2 DEF Commands
    <3>3. \A e \in Engines : tensor[e] \in T
      BY Types DEF WorkerType
    <3>4. tensor' \in [Engines -> T]
      <4>1. \A e \in Engines : tensor'[e] \in T
        BY <2>2, <3>1, <3>2, <3>3 DEF Broadcast
      <4>2. QED
        BY <2>2, <4>1 DEF Broadcast
    <3>5. QED
      BY <2>2, <3>4, Types DEF Broadcast, WorkerType
  <2>3. QED
    BY <2>1, <2>2
<1>4. ReplyType' /\ HandlerType' /\ ResultType' /\ UNCHANGED clientVars
  BY Types DEF Rendezvous, Broadcast, ReplyType, HandlerType, ResultType
<1>5. QED
  BY <1>1, <1>2, <1>3, <1>4, ServerTypes

LEMMA EndpointTypes ==
    ASSUME TypeOK, ClientInv, NEW s \in 1..Servers, Finish(s) \/ Lifespan(s)
    PROVE  TypeOK'
<1>1. ThreadType'
  BY Types DEF Finish, Lifespan, ThreadType, States
<1>2. HandlerType'
  BY Types DEF Finish, Lifespan, HandlerType, Free
<1>3. ResultType'
  <2>1. \A e \in Engines : result[e] \in Seq(Results)
    BY Types DEF ResultType
  <2>2. /\ \A e \in Of(s) : result[e] # <<>>
        /\ result' = [e \in Engines |->
                        IF e \in Of(s) THEN Tail(result[e]) ELSE result[e]]
    BY DEF Finish, Lifespan
  <2>3. QED
    BY <2>1, <2>2, HeadTailProperties DEF ResultType
<1>4. ReplyType'
  <2>1. CASE UNCHANGED reply
    BY <2>1, Types DEF ReplyType
  <2>2. CASE Finish(s)
    <3> DEFINE outputs == [w \in 1..Workers |->
                  IF w \in handler[s].asked THEN Head(result[<<s, w>>]).outputs ELSE <<>>]
    <3>1. \A w \in 1..Workers : Head(result[<<s, w>>]) \in Results
      <4>1. \A w \in 1..Workers : /\ result[<<s, w>>] \in Seq(Results)
                                  /\ result[<<s, w>>] # <<>>
        BY <2>2, Types, PlaceOf DEF ResultType, Finish
      <4>2. QED
        BY <4>1, HeadTailProperties
    <3>2. outputs \in [1..Workers -> Seq(Completions)]
      BY <3>1 DEF Results
    <3> HIDE DEF outputs
    <3>3. FlattenSeq(outputs) \in Seq(Completions)
      <4>1. Workers \in Nat \ {0}
        BY Sizes
      <4>2. QED
        BY <3>2, <4>1, FlattenType
    <3>4. UNCHANGED reply \/ reply' = [reply EXCEPT ![s] = FlattenSeq(outputs)]
      BY <2>2, Zenon DEF Finish, outputs
    <3>5. QED
      BY <2>1, <3>3, <3>4, Types DEF ReplyType
  <2>3. QED
    BY <2>1, <2>2 DEF Lifespan
<1>5. PipeType' /\ WorkerType' /\ UNCHANGED clientVars
  BY Types DEF Finish, Lifespan, PipeType, workerVars, WorkerType
<1>6. QED
  BY <1>1, <1>2, <1>3, <1>4, <1>5, ServerTypes

LEMMA InferReturnType ==
    ASSUME TypeOK, ClientInv, InferReturn
    PROVE  TypeOK'
<1>1. ClientType'
  BY Types DEF InferReturn, ClientType
<1>2. LoadedType'
  BY Types, Zenon DEF InferReturn, LoadedType
<1>3. AnswerType'
  <2>1. Servers \in Nat \ {0} /\ reply \in [1..Servers -> Seq(Completions)]
    BY Types, Sizes DEF ReplyType
  <2>2. FlattenSeq(reply) \in Seq(Completions)
    BY <2>1, FlattenType
  <2>3. QED
    BY <2>2, Types DEF InferReturn, AnswerType
<1>4. ThreadType' /\ ReplyType'
  BY Types DEF InferReturn, ThreadType, ReplyType
<1>5. QED
  BY <1>1, <1>2, <1>3, <1>4, ClientOnlyTypes DEF InferReturn

\* The commands a worker takes from its pipe, and the results it puts back.
LEMMA PopType ==
    ASSUME PipeType, NEW e \in Engines, pipe[e] # <<>>, Pop(e)
    PROVE  PipeType'
BY HeadTailProperties DEF Pop, PipeType

LEMMA AnswerResultType ==
    ASSUME ResultType, NEW e \in Engines, NEW r \in Results, Answer(e, r)
    PROVE  ResultType'
BY AppendProperties DEF Answer, ResultType

\* What generation reads: the weights of every bucket and what is cached.
Used(e) == cache[e] \cup {weights[e][b] : b \in 1..Buckets}

LEMMA UsedType ==
    ASSUME WorkerType, NEW e \in Engines
    PROVE  Used(e) \in SUBSET Versions
<1>1. weights[e] \in [1..Buckets -> Versions] /\ cache[e] \in SUBSET Versions
  BY DEF WorkerType
<1>2. \A b \in 1..Buckets : weights[e][b] \in Versions
  BY <1>1
<1>3. QED
  BY <1>1, <1>2 DEF Used

LEMMA WorkerTypes ==
    ASSUME TypeOK, NEW e \in Engines, WorkerStep(e)
    PROVE  TypeOK'
<1>1. /\ ThreadType' /\ ReplyType' /\ HandlerType' /\ UNCHANGED clientVars
  BY Types DEF WorkerStep, Start, Raise, Load, Reset, Infer, Close,
      ThreadType, ReplyType, HandlerType
<1>2. PipeType'
  <2>1. CASE Load(e)
    BY <2>1, Types DEF Load, PipeType
  <2>2. CASE Pop(e) /\ pipe[e] # <<>>
    BY <2>2, Types, PopType
  <2>3. QED
    BY <2>1, <2>2 DEF WorkerStep, Start, Raise, Reset, Infer, Close, Executes
<1>3. ResultType'
  <2>1. None \in Results /\ Output(<<>>) \in Results
    BY DEF None, Output, Results
  <2>2. CASE Start(e)
    BY <2>1, <2>2, Types, AnswerResultType DEF Start
  <2>3. CASE Raise(e) \/ Load(e) \/ Close(e)
    BY <2>3, Types DEF Raise, Load, Close, ResultType
  <2>4. CASE Reset(e)
    BY <2>1, <2>4, Types, AnswerResultType DEF Reset
  <2>5. CASE Infer(e)
    <3> DEFINE requests == Head(pipe[e]).requests
               used == Used(e)
               outputs == [i \in 1..Len(requests) |->
                              [request |-> requests[i], from |-> used]]
    <3>1. requests \in Seq(0..MaxRequests)
      <4>1. pipe[e] \in Seq(Commands) /\ pipe[e] # <<>>
        BY <2>5, Types DEF PipeType, Infer, Executes
      <4>2. Head(pipe[e]) \in Commands
        BY <4>1, HeadTailProperties
      <4>3. QED
        BY <4>2 DEF Commands
    <3>2. used \in SUBSET Versions
      BY Types, UsedType
    <3> HIDE DEF requests, used
    <3>3. outputs \in Seq(Completions)
      <4>1. Len(requests) \in Nat /\ \A i \in 1..Len(requests) : requests[i] \in 0..MaxRequests
        BY <3>1, LenProperties, ElementOfSeq
      <4>2. \A i \in 1..Len(requests) : [request |-> requests[i], from |-> used] \in Completions
        BY <3>2, <4>1 DEF Completions
      <4>3. QED
        BY <4>1, <4>2, IsASeq
    <3>4. Answer(e, Output(outputs)) \/ Answer(e, None)
      BY <2>5 DEF Infer, requests, used, Used
    <3> HIDE DEF outputs
    <3>5. Output(outputs) \in Results
      BY <3>3 DEF Output, Results
    <3>6. QED
      BY <2>1, <3>4, <3>5, Types, AnswerResultType
  <2>6. QED
    BY <2>2, <2>3, <2>4, <2>5 DEF WorkerStep
<1>4. WorkerType'
  <2>1. CASE Start(e) \/ Raise(e)
    BY <2>1, Types DEF Start, Raise, workerVars, WorkerType
  <2>2. CASE Load(e)
    <3>1. tensor'= [tensor EXCEPT ![e] = NoTensor]
      BY <2>2 DEF Load
    <3>2. NoTensor \in [bucket : 0..Buckets, version : Versions]
      BY Sizes DEF NoTensor, Versions
    <3>3. tensor' \in [Engines -> [bucket : 0..Buckets, version : Versions]]
      BY <3>1, <3>2, Types DEF WorkerType
    <3>4. weights' \in [Engines -> [1..Buckets -> Versions]]
      <4>1. \/ weights' = [weights EXCEPT ![e][tensor[e].bucket] = tensor[e].version]
            \/ weights' = weights
        BY <2>2 DEF Load
      <4>2. tensor[e].version \in Versions
        BY Types DEF WorkerType
      <4>3. weights[e] \in [1..Buckets -> Versions]
        BY Types DEF WorkerType
      <4>4. [weights[e] EXCEPT ![tensor[e].bucket] = tensor[e].version]
                \in [1..Buckets -> Versions]
        BY <4>2, <4>3
      <4>5. QED
        BY <4>1, <4>4, Types DEF WorkerType
    <3>5. QED
      BY <2>2, <3>3, <3>4, Types DEF Load, WorkerType
  <2>3. CASE Reset(e)
    BY <2>3, Types DEF Reset, WorkerType
  <2>4. CASE Infer(e)
    <3>1. Used(e) \in SUBSET Versions
      BY Types, UsedType
    <3>2. cache' = [cache EXCEPT ![e] = Used(e)]
      BY <2>4 DEF Infer, Used
    <3>3. QED
      BY <2>4, <3>1, <3>2, Types DEF Infer, WorkerType
  <2>5. CASE Close(e)
    BY <2>5, Types DEF Close, WorkerType
  <2>6. QED
    BY <2>1, <2>2, <2>3, <2>4, <2>5 DEF WorkerStep
<1>5. QED
  BY <1>1, <1>2, <1>3, <1>4, ServerTypes

LEMMA StepType ==
    ASSUME TypeOK, ClientInv, [Next]_vars
    PROVE  TypeOK'
<1>1. CASE ClientStep
  BY <1>1, ClientActionTypes, CloseCommunicatorType, InitCommunicatorType,
      InferReturnType DEF ClientStep
<1>2. CASE MoveModel \/ InferCall \/ Exit \/ Kill \/ Restart
  BY <1>2, ClientActionTypes
<1>3. ASSUME NEW s \in 1..Servers, ThreadStep(s) \/ ServerStep(s)
      PROVE  TypeOK'
  BY <1>3, ThreadTypes, CollectiveTypes, EndpointTypes DEF ThreadStep, ServerStep
<1>4. ASSUME NEW e \in Engines, WorkerStep(e)
      PROVE  TypeOK'
  BY <1>4, WorkerTypes
<1>5. CASE UNCHANGED vars
  <2>1. ThreadType' /\ ReplyType' /\ HandlerType' /\ PipeType' /\ ResultType' /\ WorkerType'
    BY <1>5, Types DEF vars, workerVars, ThreadType, ReplyType, HandlerType, PipeType,
        ResultType, WorkerType
  <2>2. UNCHANGED clientVars
    BY <1>5 DEF vars
  <2>3. QED
    BY <2>1, <2>2, ServerTypes
<1>6. QED
  BY <1>1, <1>2, <1>3, <1>4, <1>5 DEF Next

-----------------------------------------------------------------------------
(* What a step leaves alone.                                                *)

\* The server and its workers stay as they are, for all the client sees.
SameServer(s) ==
    /\ handler'[s] = handler[s]
    /\ \A e \in Of(s) :
        /\ pipe'[e] = pipe[e] /\ result'[e] = result[e]
        /\ comm'[e] = comm[e] /\ tensor'[e] = tensor[e]

LEMMA SameStates ==
    ASSUME NEW s \in 1..Servers, SameServer(s)
    PROVE  /\ Unattended(s) => Unattended(s)'
           /\ Joining(s) => Joining(s)'
           /\ Member(s) => Member(s)'
           /\ Loaded(s) => Loaded(s)'
           /\ Silent(s) => Silent(s)'
           /\ Resetting(s) => Resetting(s)'
           /\ step' = step /\ Receiving(s) => Receiving(s)'
<1> USE DEF SameServer
<1>1. Unattended(s) => Unattended(s)'
  BY DEF Unattended, Busy
<1>2. Joining(s) => Joining(s)'
  BY DEF Joining
<1>3. Member(s) => Member(s)'
  BY DEF Member
<1>4. Loaded(s) => Loaded(s)'
  BY DEF Loaded
<1>5. Silent(s) => Silent(s)'
  BY DEF Silent
<1>6. Resetting(s) => Resetting(s)'
  BY DEF Resetting, Busy
<1>7. step' = step /\ Receiving(s) => Receiving(s)'
  BY DEF Receiving
<1>8. QED
  BY <1>1, <1>2, <1>3, <1>4, <1>5, <1>6, <1>7

LEMMA SameSources ==
    ASSUME version' = version
    PROVE  /\ Sources' = Sources
           /\ \A list : AnswersTo(list)' = AnswersTo(list)
BY DEF Sources, AnswersTo

LEMMA SameInferring ==
    ASSUME NEW s \in 1..Servers, SameServer(s), size' = size, version' = version,
           Inferring(s)
    PROVE  Inferring(s)'
<1>1. \A w \in 1..Workers : /\ pipe'[<<s, w>>] = pipe[<<s, w>>]
                            /\ result'[<<s, w>>] = result[<<s, w>>]
  BY PlaceOf DEF SameServer
<1>2. \A list : AnswersTo(list)' = AnswersTo(list)
  BY SameSources
<1>3. handler'[s] = handler[s] /\ Chunk(size, s)' = Chunk(size, s)
  BY DEF SameServer, Chunk, Requests, ChunkSize, Least
<1>4. QED
  BY <1>1, <1>2, <1>3, Zenon DEF Inferring, InferringAt

\* A step of something else keeps the invariant of a server.
LEMMA Elsewhere ==
    ASSUME NEW s \in 1..Servers, ServerInv(s), SameServer(s),
           UNCHANGED <<call, step, size, version>>,
           thread'[s] = thread[s], reply'[s] = reply[s]
    PROVE  ServerInv(s)'
<1>1. /\ Unattended(s) => Unattended(s)'
      /\ Joining(s) => Joining(s)'
      /\ Member(s) => Member(s)'
      /\ Loaded(s) => Loaded(s)'
      /\ Silent(s) => Silent(s)'
      /\ Resetting(s) => Resetting(s)'
      /\ Receiving(s) => Receiving(s)'
      /\ Inferring(s) => Inferring(s)'
  BY SameStates, SameInferring
<1>2. reply[s] \in AnswersTo(Chunk(size, s)) => (reply[s] \in AnswersTo(Chunk(size, s)))'
  <2>1. Chunk(size, s)' = Chunk(size, s)
    BY DEF Chunk, Requests, ChunkSize, Least
  <2>2. QED
    BY <2>1, SameSources
<1>3. AtInit(s) => AtInit(s)'
  BY <1>1 DEF AtInit
<1>4. AtUpdate(s) => AtUpdate(s)'
  BY <1>1 DEF AtUpdate
<1>5. AtReset(s) => AtReset(s)'
  BY <1>1 DEF AtReset
<1>6. AtInfer(s) => AtInfer(s)'
  BY <1>1, <1>2 DEF AtInfer
<1>7. QED
  BY <1>1, <1>3, <1>4, <1>5, <1>6 DEF ServerInv

LEMMA ElsewhereWeights ==
    ASSUME NEW e \in Engines, WeightInv(e), UNCHANGED <<call, step, version>>,
           loaded' <=> loaded, thread'[e[1]] = thread[e[1]],
           pipe'[e] = pipe[e], tensor'[e] = tensor[e], weights'[e] = weights[e],
           cache'[e] = cache[e]
    PROVE  WeightInv(e)'
BY DEF WeightInv, Has, Right

LEMMA QueueTail ==
    ASSUME NEW S, NEW q \in Seq(S), q # <<>>
    PROVE  /\ Head(q) = q[1] /\ Len(q) \in Nat /\ Len(q) >= 1
           /\ Tail(q) \in Seq(S) /\ Len(Tail(q)) = Len(q) - 1
           /\ \A i \in 1..Len(Tail(q)) : i + 1 \in 1..Len(q) /\ Tail(q)[i] = q[i + 1]
           /\ Len(q) = 1 => Tail(q) = <<>>
<1>1. Len(q) \in Nat /\ Len(q) >= 1
  BY LenProperties, EmptySeq
<1>2. /\ Head(q) = q[1] /\ Tail(q) \in Seq(S) /\ Len(Tail(q)) = Len(q) - 1
      /\ \A i \in 1..Len(Tail(q)) : Tail(q)[i] = q[i + 1]
  BY HeadTailProperties
<1>3. Len(q) = 1 => Tail(q) = <<>>
  <2>1. Len(q) = 1 => Len(Tail(q)) = 0
    BY <1>1, <1>2
  <2>2. QED
    BY <1>2, <2>1, EmptySeq
<1>4. QED
  BY <1>1, <1>2, <1>3

LEMMA QueueAppend ==
    ASSUME NEW x
    PROVE  Len(Append(<<>>, x)) = 1 /\ Append(<<>>, x)[1] = x /\ Append(<<>>, x) = <<x>>
OBVIOUS

\* What a worker's step may do.
LEMMA WorkerMoves ==
    ASSUME TypeOK, NEW e \in Engines, WorkerStep(e)
    PROVE  /\ UNCHANGED <<handler, thread, reply, call, client, version, step, size, answer>>
           /\ loaded' <=> loaded
           /\ \A f \in Engines : f # e =>
                /\ pipe'[f] = pipe[f] /\ result'[f] = result[f]
                /\ comm'[f] = comm[f] /\ tensor'[f] = tensor[f]
                /\ weights'[f] = weights[f] /\ cache'[f] = cache[f]
           /\ \/ /\ tensor[e] # NoTensor /\ tensor'[e] = NoTensor
                 /\ pipe'[e] = pipe[e] /\ result'[e] = result[e]
                 /\ comm'[e] = comm[e] /\ cache'[e] = cache[e]
              \/ /\ tensor[e] = NoTensor /\ tensor'[e] = NoTensor
                 /\ weights'[e] = weights[e]
                 /\ pipe[e] # <<>> /\ pipe'[e] = Tail(pipe[e])
                 /\ \/ /\ \/ Head(pipe[e]).method = "init" /\ comm[e]
                          \/ Head(pipe[e]).method = "update" /\ ~comm[e]
                       /\ result'[e] = result[e] /\ comm'[e] = comm[e]
                       /\ cache'[e] = cache[e]
                    \/ /\ Head(pipe[e]).method = "close"
                       /\ result'[e] = result[e] /\ cache'[e] = cache[e]
                    \/ /\ Head(pipe[e]).method \in {"start", "reset", "infer"}
                       /\ \E r : result'[e] = Append(result[e], r)
                       /\ comm'[e] = comm[e]
<1>1. /\ pipe \in [Engines -> Seq(Commands)] /\ result \in [Engines -> Seq(Results)]
      /\ comm \in [Engines -> BOOLEAN]
      /\ tensor \in [Engines -> [bucket : 0..Buckets, version : Versions]]
      /\ weights \in [Engines -> [1..Buckets -> Versions]]
      /\ cache \in [Engines -> SUBSET Versions]
  BY Types DEF PipeType, ResultType, WorkerType
<1> USE <1>1
<1>2. /\ UNCHANGED <<handler, thread, reply, call, client, version, step, size, answer>>
  BY DEF WorkerStep, Start, Raise, Load, Reset, Infer, Close, clientVars
<1>3. loaded' <=> loaded
  <2>1. UNCHANGED clientVars
    BY Zenon DEF WorkerStep, Start, Raise, Load, Reset, Infer, Close
  <2>2. QED
    BY <2>1, Zenon DEF clientVars
<1>4. \A f \in Engines : f # e =>
                /\ pipe'[f] = pipe[f] /\ result'[f] = result[f]
                /\ comm'[f] = comm[f] /\ tensor'[f] = tensor[f]
                /\ weights'[f] = weights[f] /\ cache'[f] = cache[f]
  <2>1. CASE Start(e)
    BY <2>1 DEF Start, Pop, Answer, workerVars
  <2>2. CASE Raise(e)
    BY <2>2 DEF Raise, Pop, workerVars
  <2>3. CASE Load(e)
    BY <2>3 DEF Load
  <2>4. CASE Reset(e)
    BY <2>4 DEF Reset, Pop, Answer
  <2>5. CASE Infer(e)
    BY <2>5 DEF Infer, Pop, Answer
  <2>6. CASE Close(e)
    BY <2>6 DEF Close, Pop
  <2>7. QED
    BY <2>1, <2>2, <2>3, <2>4, <2>5, <2>6 DEF WorkerStep
<1>5. CASE Start(e)
  BY <1>2, <1>3, <1>4, <1>5 DEF Start, Executes, Pop, Answer, workerVars
<1>6. CASE Raise(e)
  BY <1>2, <1>3, <1>4, <1>6 DEF Raise, Executes, Pop, workerVars
<1>7. CASE Load(e)
  BY <1>2, <1>3, <1>4, <1>7 DEF Load
<1>8. CASE Reset(e)
  BY <1>2, <1>3, <1>4, <1>8, ZenonT(60) DEF Reset, Executes, Pop, Answer
<1>9. CASE Infer(e)
  BY <1>2, <1>3, <1>4, <1>9 DEF Infer, Executes, Pop, Answer
<1>10. CASE Close(e)
  BY <1>2, <1>3, <1>4, <1>10 DEF Close, Executes, Pop
<1>11. QED
  BY <1>5, <1>6, <1>7, <1>8, <1>9, <1>10 DEF WorkerStep

-----------------------------------------------------------------------------
(* A step of a worker.                                                      *)

LEMMA PipesAndResults ==
    ASSUME TypeOK, NEW e \in Engines
    PROVE  /\ pipe[e] \in Seq(Commands) /\ result[e] \in Seq(Results)
           /\ tensor[e] \in [bucket : 0..Buckets, version : Versions]
           /\ weights[e] \in [1..Buckets -> Versions]
           /\ cache[e] \in SUBSET Versions
BY Types DEF PipeType, ResultType, WorkerType

LEMMA BusyStep ==
    ASSUME TypeOK, NEW e \in Engines, WorkerStep(e),
           NEW m \in {"start", "reset", "infer"}, Busy(e, m)
    PROVE  Busy(e, m)'
<1>1. pipe[e] \in Seq(Commands) /\ result[e] \in Seq(Results)
  BY PipesAndResults
<1>2. CASE pipe'[e] = pipe[e] /\ result'[e] = result[e]
  BY <1>2 DEF Busy
<1>3. CASE pipe[e] # <<>> /\ pipe'[e] = Tail(pipe[e])
  <2>1. Len(pipe[e]) = 1 /\ pipe[e][1].method = m /\ result[e] = <<>>
    BY <1>3 DEF Busy
  <2>2. Head(pipe[e]).method = m /\ Tail(pipe[e]) = <<>>
    BY <1>1, <1>3, <2>1, QueueTail
  <2>3. \E r : result'[e] = Append(result[e], r)
    BY <2>2, <1>3, WorkerMoves
  <2>4. pipe'[e] = <<>> /\ Len(result'[e]) = 1
    BY <1>3, <2>1, <2>2, <2>3, QueueAppend
  <2>5. QED
    BY <2>4 DEF Busy
<1>4. QED
  BY <1>2, <1>3, WorkerMoves

\* Only loading changes nothing the client waits for.
LEMMA WorkerAtRest ==
    ASSUME TypeOK, NEW e \in Engines, WorkerStep(e), pipe[e] = <<>>
    PROVE  /\ pipe'[e] = pipe[e] /\ result'[e] = result[e] /\ comm'[e] = comm[e]
           /\ tensor[e] # NoTensor /\ tensor'[e] = NoTensor /\ cache'[e] = cache[e]
BY WorkerMoves

LEMMA WorkerUnattended ==
    ASSUME TypeOK, NEW e \in Engines, WorkerStep(e), NEW s \in 1..Servers, e \in Of(s),
           Unattended(s)
    PROVE  Unattended(s)'
<1>1. handler'[s] = handler[s]
  BY WorkerMoves
<1>2. \A f \in Of(s) : f # e => pipe'[f] = pipe[f] /\ result'[f] = result[f]
  BY WorkerMoves, PlaceOf
<1>3. ASSUME NEW m \in {"start", "reset", "infer"}, \A f \in Of(s) : Busy(f, m)
      PROVE  \A f \in Of(s) : Busy(f, m)'
  <2>1. Busy(e, m)'
    BY <1>3, BusyStep
  <2>2. \A f \in Of(s) : f # e => Busy(f, m)'
    BY <1>2, <1>3 DEF Busy
  <2>3. QED
    BY <2>1, <2>2
<1>4. CASE handler[s] = Starting /\ \A f \in Of(s) : Busy(f, "start")
  BY <1>1, <1>3, <1>4 DEF Unattended
<1>5. CASE /\ handler[s].does \in {"reset", "infer"}
           /\ \A f \in Of(s) : Busy(f, handler[s].does)
  <2>1. \A f \in Of(s) : Busy(f, handler[s].does)'
    <3>1. CASE handler[s].does = "reset"
      BY <1>1, <1>3, <1>5, <3>1
    <3>2. CASE handler[s].does = "infer"
      BY <1>1, <1>3, <1>5, <3>2
    <3>3. QED
      BY <1>5, <3>1, <3>2
  <2>2. QED
    BY <1>1, <1>5, <2>1 DEF Unattended
<1>6. CASE /\ handler[s] = Free
           /\ \A f \in Of(s) :
                /\ \A i \in 1..Len(pipe[f]) : pipe[f][i].method = "close"
                /\ result[f] = <<>>
  <2>1. /\ \A i \in 1..Len(pipe'[e]) : pipe'[e][i].method = "close"
        /\ result'[e] = <<>>
    <3>1. pipe[e] \in Seq(Commands)
      BY PipesAndResults
    <3>2. CASE pipe'[e] = pipe[e] /\ result'[e] = result[e]
      BY <1>6, <3>2
    <3>3. CASE pipe[e] # <<>> /\ pipe'[e] = Tail(pipe[e])
      <4>1. Head(pipe[e]) = pipe[e][1] /\ 1 \in 1..Len(pipe[e])
        BY <3>1, <3>3, QueueTail
      <4>2. Head(pipe[e]).method = "close"
        BY <1>6, <4>1
      <4>3. result'[e] = result[e]
        BY <3>3, <4>2, WorkerMoves
      <4>4. \A i \in 1..Len(Tail(pipe[e])) : Tail(pipe[e])[i].method = "close"
        BY <1>6, <3>1, <3>3, QueueTail
      <4>5. QED
        BY <1>6, <3>3, <4>3, <4>4
    <3>4. QED
      BY <3>2, <3>3, WorkerMoves
  <2>2. QED
    BY <1>1, <1>2, <1>6, <2>1 DEF Unattended
<1>7. QED
  BY <1>4, <1>5, <1>6 DEF Unattended

LEMMA WorkerJoining ==
    ASSUME TypeOK, NEW e \in Engines, WorkerStep(e), NEW s \in 1..Servers, e \in Of(s),
           Joining(s)
    PROVE  Joining(s)'
<1>1. handler'[s] = handler[s]
  BY WorkerMoves
<1>2. \A f \in Of(s) : f # e => pipe'[f] = pipe[f] /\ result'[f] = result[f]
  BY WorkerMoves, PlaceOf
<1>3. /\ \A i \in 1..Len(pipe'[e]) :
            \/ pipe'[e][i].method = "close"
            \/ i = Len(pipe'[e]) /\ pipe'[e][i].method = "init"
      /\ result'[e] = <<>>
  <2>1. pipe[e] \in Seq(Commands)
    BY PipesAndResults
  <2>2. CASE pipe'[e] = pipe[e] /\ result'[e] = result[e]
    BY <2>2 DEF Joining
  <2>3. CASE pipe[e] # <<>> /\ pipe'[e] = Tail(pipe[e])
    <3>1. Head(pipe[e]) = pipe[e][1] /\ 1 \in 1..Len(pipe[e])
      BY <2>1, <2>3, QueueTail
    <3>2. Head(pipe[e]).method \in {"close", "init"}
      BY <3>1 DEF Joining
    <3>3. result'[e] = result[e]
      BY <2>3, <3>2, WorkerMoves
    <3>4. \A i \in 1..Len(Tail(pipe[e])) :
            \/ Tail(pipe[e])[i].method = "close"
            \/ i = Len(Tail(pipe[e])) /\ Tail(pipe[e])[i].method = "init"
      BY <2>1, <2>3, QueueTail DEF Joining
    <3>5. QED
      BY <2>3, <3>3, <3>4 DEF Joining
  <2>4. QED
    BY <2>2, <2>3, WorkerMoves
<1>4. QED
  BY <1>1, <1>2, <1>3 DEF Joining

LEMMA WorkerLoaded ==
    ASSUME TypeOK, NEW e \in Engines, WorkerStep(e), NEW s \in 1..Servers, e \in Of(s),
           Loaded(s)
    PROVE  Loaded(s)'
BY WorkerMoves, PlaceOf DEF Loaded

LEMMA WorkerSilent ==
    ASSUME TypeOK, NEW e \in Engines, WorkerStep(e), NEW s \in 1..Servers, e \in Of(s),
           Member(s), Silent(s)
    PROVE  Member(s)' /\ Silent(s)' /\ ~Loaded(s)
<1>1. handler'[s] = handler[s]
  BY WorkerMoves
<1>2. \A f \in Of(s) : f # e =>
        pipe'[f] = pipe[f] /\ result'[f] = result[f] /\ comm'[f] = comm[f]
  BY WorkerMoves, PlaceOf
<1>3. /\ pipe'[e] = pipe[e] /\ result'[e] = result[e] /\ comm'[e] = comm[e]
      /\ tensor[e] # NoTensor
  BY WorkerAtRest DEF Silent
<1>4. QED
  BY <1>1, <1>2, <1>3 DEF Silent, Member, Loaded

LEMMA WorkerReceiving ==
    ASSUME TypeOK, NEW e \in Engines, WorkerStep(e), NEW s \in 1..Servers, e \in Of(s),
           Member(s), Receiving(s)
    PROVE  Member(s)' /\ Receiving(s)'
<1>1. handler'[s] = handler[s] /\ step' = step
  BY WorkerMoves
<1>2. \A f \in Of(s) : f # e =>
        pipe'[f] = pipe[f] /\ result'[f] = result[f] /\ comm'[f] = comm[f]
  BY WorkerMoves, PlaceOf
<1>3. pipe'[e] = pipe[e] /\ result'[e] = result[e] /\ comm'[e] = comm[e]
  <2>1. comm[e] /\ pipe[e] = <<Command("update", step, <<>>)>>
    BY DEF Member, Receiving
  <2>2. Head(pipe[e]).method = "update"
    BY <2>1 DEF Command
  <2>3. QED
    BY <2>1, <2>2, WorkerMoves
<1>4. QED
  BY <1>1, <1>2, <1>3 DEF Receiving, Member

LEMMA WorkerResetting ==
    ASSUME TypeOK, NEW e \in Engines, WorkerStep(e), NEW s \in 1..Servers, e \in Of(s),
           Member(s), Resetting(s)
    PROVE  Member(s)' /\ Resetting(s)'
<1>1. handler'[s] = handler[s]
  BY WorkerMoves
<1>2. \A f \in Of(s) : f # e =>
        /\ pipe'[f] = pipe[f] /\ result'[f] = result[f] /\ comm'[f] = comm[f]
        /\ tensor'[f] = tensor[f]
  BY WorkerMoves, PlaceOf
<1>3. Busy(e, "reset") /\ Busy(e, "reset")'
  BY BusyStep DEF Resetting
<1>4. tensor'[e] = NoTensor
  BY WorkerMoves
<1>5. comm'[e] = comm[e]
  <2>1. CASE pipe[e] = <<>>
    BY <2>1, WorkerAtRest
  <2>2. CASE pipe[e] # <<>>
    <3>1. pipe[e] \in Seq(Commands) /\ pipe[e][1].method = "reset"
      BY <1>3, <2>2, PipesAndResults DEF Busy
    <3>2. Head(pipe[e]).method = "reset"
      BY <2>2, <3>1, QueueTail
    <3>3. QED
      BY <3>2, WorkerMoves
  <2>3. QED
    BY <2>1, <2>2
<1>6. QED
  BY <1>1, <1>2, <1>3, <1>4, <1>5 DEF Resetting, Member, Busy

\* Where the answers of a worker come from, in the course of infer.
LEMMA UsedSources ==
    ASSUME TypeOK, NEW e \in Engines, Reliable => Right(e) /\ cache[e] \subseteq {version}
    PROVE  Used(e) \in Sources /\ (Reliable => Used(e) = {version})
<1>1. CASE Reliable
  <2>1. {weights[e][b] : b \in 1..Buckets} = {version}
    <3>1. 1 \in 1..Buckets /\ \A b \in 1..Buckets : weights[e][b] = version
      BY <1>1, Sizes DEF Right
    <3>2. QED
      BY <3>1
  <2>2. Used(e) = {version}
    BY <1>1, <2>1 DEF Used
  <2>3. QED
    BY <1>1, <2>2 DEF Sources
<1>2. CASE ~Reliable
  <2>1. Used(e) \in SUBSET Versions
    BY Types, UsedType
  <2>2. QED
    BY <1>2, <2>1 DEF Sources
<1>3. QED
  BY <1>1, <1>2

LEMMA AnswersRight ==
    ASSUME NEW requests \in Seq(0..MaxRequests), NEW used, used \in Sources,
           used \in SUBSET Versions
    PROVE  [i \in 1..Len(requests) |-> [request |-> requests[i], from |-> used]]
             \in AnswersTo(requests)
<1> DEFINE out == [i \in 1..Len(requests) |-> [request |-> requests[i], from |-> used]]
<1>1. Len(requests) \in Nat /\ \A i \in 1..Len(requests) : requests[i] \in 0..MaxRequests
  BY LenProperties, ElementOfSeq
<1>2. out \in Seq(Completions)
  <2>1. \A i \in 1..Len(requests) :
          [request |-> requests[i], from |-> used] \in Completions
    BY <1>1 DEF Completions
  <2>2. QED
    BY <1>1, <2>1, IsASeq
<1>3. Len(out) = Len(requests)
  BY <1>1
<1>4. \A i \in 1..Len(requests) : out[i].request = requests[i] /\ out[i].from \in Sources
  OBVIOUS
<1> HIDE DEF out
<1>5. QED
  BY <1>2, <1>3, <1>4 DEF AnswersTo, out

LEMMA WorkerInferring ==
    ASSUME TypeOK, NEW e \in Engines, WorkerStep(e), NEW s \in 1..Servers, e \in Of(s),
           Member(s), Loaded(s), Inferring(s),
           Reliable => Right(e) /\ cache[e] \subseteq {version}
    PROVE  /\ Member(s)' /\ Loaded(s)' /\ Inferring(s)'
           /\ Infer(e) /\ cache'[e] = Used(e)
<1> DEFINE v == e[2]
           list == Chunk(size, s)
<1>1. handler'[s] = handler[s] /\ size' = size /\ version' = version
  BY WorkerMoves
<1>2. \A f \in Of(s) : f # e =>
        /\ pipe'[f] = pipe[f] /\ result'[f] = result[f] /\ comm'[f] = comm[f]
        /\ tensor'[f] = tensor[f]
  BY WorkerMoves, PlaceOf
<1>3. e = <<s, v>> /\ v \in 1..Workers
  BY PlaceOf
<1>4. tensor[e] = NoTensor
  BY DEF Loaded
<1>5. pipe[e] = <<Command("infer", 0, Share(list, v))>> /\ result[e] = <<>>
  <2>1. pipe[e] # <<>>
    BY <1>4, WorkerAtRest
  <2>2. QED
    BY <1>3, <2>1 DEF Inferring, InferringAt
<1>6. /\ Head(pipe[e]) = Command("infer", 0, Share(list, v)) /\ Tail(pipe[e]) = <<>>
  BY <1>5
<1>7. Infer(e)
  <2>1. Head(pipe[e]).method = "infer"
    BY <1>6 DEF Command
  <2>2. QED
    BY <1>4, <2>1 DEF WorkerStep, Start, Raise, Load, Reset, Close, Executes
<1> DEFINE requests == Share(list, v)
           outputs == [i \in 1..Len(requests) |->
                          [request |-> requests[i], from |-> Used(e)]]
<1>8. outputs \in AnswersTo(requests)
  <2>1. requests \in Seq(0..MaxRequests)
    BY <1>3, Types, ListTypes DEF ClientType
  <2>2. Used(e) \in Sources /\ Used(e) \in SUBSET Versions
    BY Types, UsedSources, UsedType
  <2> HIDE DEF requests
  <2>3. QED
    BY <2>1, <2>2, AnswersRight
<1>9. /\ pipe'[e] = <<>> /\ cache'[e] = Used(e)
      /\ comm'[e] = comm[e] /\ tensor'[e] = tensor[e]
      /\ \E r \in {Output(outputs), None} : result'[e] = Append(result[e], r)
  <2>1. Head(pipe[e]).requests = requests
    BY <1>6 DEF Command
  <2>2. Pop(e) /\ cache' = [cache EXCEPT ![e] = Used(e)]
    BY <1>7 DEF Infer, Used
  <2>3. Answer(e, Output(outputs)) \/ Answer(e, None)
    <3> HIDE DEF requests
    <3>1. QED
      BY <1>7, <2>1, Zenon DEF Infer, Used
  <2>4. UNCHANGED <<comm, tensor>>
    BY <1>7 DEF Infer
  <2> HIDE DEF outputs
  <2>5. QED
    BY <1>6, <2>2, <2>3, <2>4, Types DEF Pop, Answer, PipeType, ResultType, WorkerType
<1> HIDE DEF outputs, requests, list, v
<1>10. /\ Len(result'[e]) = 1
       /\ result'[e][1].ok => result'[e][1].outputs \in AnswersTo(requests)
  <2>1. PICK r \in {Output(outputs), None} : result'[e] = Append(<<>>, r)
    BY <1>5, <1>9
  <2>2. Len(result'[e]) = 1 /\ result'[e][1] = r
    BY <2>1, QueueAppend
  <2>3. r.ok => r.outputs \in AnswersTo(requests)
    BY <1>8 DEF Output, None
  <2>4. QED
    BY <2>2, <2>3
<1>11. Inferring(s)'
  <2>1. \A l : AnswersTo(l)' = AnswersTo(l)
    BY <1>1, SameSources
  <2>2. Chunk(size, s)' = Chunk(size, s)
    BY <1>1 DEF Chunk, Requests, ChunkSize, Least
  <2>3. \A w \in 1..Workers : w # v =>
          pipe'[<<s, w>>] = pipe[<<s, w>>] /\ result'[<<s, w>>] = result[<<s, w>>]
    BY <1>2, <1>3, PlaceOf
  <2>4. handler'[s] = handler[s]
    BY <1>1
  <2>5. ASSUME NEW w \in 1..Workers
        PROVE  InferringAt(s, w)'
    <3>1. CASE w = v
      <4>1. /\ pipe'[<<s, w>>] = <<>> /\ Len(result'[<<s, w>>]) = 1
            /\ result'[<<s, w>>][1].ok =>
                  result'[<<s, w>>][1].outputs \in AnswersTo(Share(Chunk(size, s), w))
        BY <1>3, <1>9, <1>10, <3>1 DEF requests, list
      <4>2. QED
        BY <2>1, <2>2, <4>1, Zenon DEF InferringAt
    <3>2. CASE w # v
      BY <2>1, <2>2, <2>3, <3>2, Zenon DEF Inferring, InferringAt
    <3>3. QED
      BY <3>1, <3>2
  <2>6. QED
    BY <2>2, <2>4, <2>5, Zenon DEF Inferring
<1>12. QED
  BY <1>2, <1>7, <1>9, <1>11 DEF Member, Loaded

LEMMA WorkerServerInv ==
    ASSUME TypeOK, NEW e \in Engines, WorkerStep(e), NEW s \in 1..Servers, ServerInv(s),
           e \in Of(s), Reliable => WeightInv(e)
    PROVE  ServerInv(s)'
<1>1. call' = call /\ step' = step /\ thread' = thread /\ reply' = reply
      /\ size' = size /\ version' = version
  BY WorkerMoves
<1>2. CASE call \in {"connect", "close", "exit", "over"}
  BY <1>1, <1>2, WorkerUnattended DEF ServerInv
<1>3. CASE call = "init"
  BY <1>1, <1>3, WorkerUnattended, WorkerJoining, WorkerSilent DEF ServerInv, AtInit
<1>4. CASE call = "idle"
  BY <1>1, <1>4, WorkerSilent DEF ServerInv
<1>5. CASE call = "update"
  BY <1>1, <1>5, WorkerSilent, WorkerReceiving DEF ServerInv, AtUpdate
<1>6. CASE call = "reset"
  <2>1. AtReset(s)
    BY <1>6 DEF ServerInv
  <2>2. AtReset(s)'
    BY <1>1, <2>1, WorkerSilent, WorkerResetting DEF AtReset
  <2>3. QED
    BY <1>1, <1>6, <2>2 DEF ServerInv
<1>7. CASE call = "infer"
  <2>1. AtInfer(s)
    BY <1>7 DEF ServerInv
  <2>2. thread[s] = "reply" /\ Inferring(s) /\ Member(s) /\ Loaded(s)
    BY <2>1, WorkerSilent DEF AtInfer
  <2>3. Reliable => Right(e) /\ cache[e] \subseteq {version}
    BY <1>7 DEF WeightInv
  <2>4. Member(s)' /\ Loaded(s)' /\ Inferring(s)'
    BY <2>2, <2>3, WorkerInferring
  <2>5. AtInfer(s)'
    BY <1>1, <2>2, <2>4 DEF AtInfer
  <2>6. QED
    BY <1>1, <1>7, <2>5 DEF ServerInv
<1>8. QED
  BY <1>2, <1>3, <1>4, <1>5, <1>6, <1>7, Types DEF ClientType

LEMMA LoadKeeps ==
    ASSUME TypeOK, Reliable, NEW e \in Engines, WorkerStep(e),
           \/ tensor[e] = NoTensor
           \/ tensor[e] \in [bucket : 1..Buckets, version : {version}]
    PROVE  /\ tensor'[e] = NoTensor
           /\ \A b \in 1..Buckets : Has(e, b) => Has(e, b)'
<1>1. version' = version /\ tensor'[e] = NoTensor
  BY WorkerMoves
<1>2. CASE tensor[e] = NoTensor
  <2>1. weights'[e] = weights[e]
    BY <1>2, WorkerMoves
  <2>2. \A b \in 1..Buckets : Has(e, b) => weights[e][b] = version
    BY <1>2 DEF Has, NoTensor
  <2>3. QED
    BY <1>1, <2>1, <2>2 DEF Has
<1>3. CASE tensor[e] # NoTensor
  <2>1. tensor[e].bucket \in 1..Buckets /\ tensor[e].version = version
    BY <1>3
  <2>2. Load(e)
    BY <1>3 DEF WorkerStep, Start, Raise, Reset, Infer, Close, Executes
  <2>3. weights' = [weights EXCEPT ![e][tensor[e].bucket] = tensor[e].version]
    BY <2>2 DEF Load, Reliable
  <2>4. weights'[e] = [weights[e] EXCEPT ![tensor[e].bucket] = version]
    BY <2>1, <2>3, Types DEF WorkerType
  <2>5. weights[e] \in [1..Buckets -> Versions]
    BY PipesAndResults
  <2>6. ASSUME NEW b \in 1..Buckets, Has(e, b)
        PROVE  weights'[e][b] = version
    <3>1. CASE b = tensor[e].bucket
      BY <2>4, <2>5, <3>1
    <3>2. CASE b # tensor[e].bucket
      <4>1. weights[e][b] = version
        BY <2>6, <3>2 DEF Has
      <4>2. QED
        BY <2>4, <2>5, <3>2, <4>1
    <3>3. QED
      BY <3>1, <3>2
  <2>7. QED
    BY <1>1, <2>6 DEF Has
<1>4. QED
  BY <1>2, <1>3

LEMMA ResetClears ==
    ASSUME TypeOK, Reliable, NEW e \in Engines, WorkerStep(e), Busy(e, "reset"),
           pipe[e] = <<>> => cache[e] = {}, pipe'[e] = <<>>
    PROVE  cache'[e] = {}
<1>1. CASE pipe[e] = <<>>
  BY <1>1, WorkerAtRest
<1>2. CASE pipe[e] # <<>> /\ tensor[e] = NoTensor
  <2>1. pipe[e] \in Seq(Commands) /\ pipe[e][1].method = "reset"
    BY <1>2, PipesAndResults DEF Busy
  <2>2. Head(pipe[e]).method = "reset"
    BY <1>2, <2>1, QueueTail
  <2>3. Reset(e)
    BY <1>2, <2>2 DEF WorkerStep, Start, Raise, Load, Infer, Close, Executes
  <2>4. cache' = [cache EXCEPT ![e] = {}]
    BY <2>3 DEF Reset, Reliable
  <2>5. QED
    BY <2>4, Types DEF WorkerType
<1>3. CASE pipe[e] # <<>> /\ tensor[e] # NoTensor
  BY <1>3, WorkerMoves
<1>4. QED
  BY <1>1, <1>2, <1>3

LEMMA WorkerWeights ==
    ASSUME TypeOK, Reliable, NEW e \in Engines, WorkerStep(e), NEW s \in 1..Servers,
           ServerInv(s), e \in Of(s), WeightInv(e)
    PROVE  WeightInv(e)'
<1>1. /\ call' = call /\ step' = step /\ thread' = thread /\ version' = version
      /\ loaded' <=> loaded
  BY WorkerMoves
<1>2. e[1] = s
  BY PlaceOf
<1>3. CASE call \in {"connect", "close", "init", "exit", "over"}
  BY <1>1, <1>3 DEF WeightInv
<1>4. CASE call = "idle"
  BY <1>4, WorkerSilent DEF ServerInv
<1>5. CASE call = "update"
  <2>1. /\ tensor'[e] = NoTensor
        /\ \A b \in 1..Buckets : Has(e, b) => Has(e, b)'
    BY <1>5, LoadKeeps DEF WeightInv
  <2>2. QED
    BY <1>1, <1>5, <2>1 DEF WeightInv
<1>6. CASE call = "reset"
  <2>1. /\ tensor'[e] = NoTensor
        /\ \A b \in 1..Buckets : Has(e, b) => Has(e, b)'
    BY <1>6, LoadKeeps DEF WeightInv
  <2>2. ASSUME thread[s] = "done" \/ (thread[s] = "reply" /\ pipe'[e] = <<>>)
        PROVE  cache'[e] = {}
    <3>1. thread[s] = "reply" /\ Resetting(s)
      BY <1>6, <2>2, WorkerSilent DEF ServerInv, AtReset
    <3>2. pipe[e] = <<>> => cache[e] = {}
      BY <1>2, <1>6, <3>1 DEF WeightInv
    <3>3. QED
      BY <2>2, <3>1, <3>2, ResetClears DEF Resetting
  <2>3. QED
    BY <1>1, <1>2, <1>6, <2>1, <2>2 DEF WeightInv
<1>7. CASE call = "infer"
  <2>1. Right(e) /\ cache[e] \subseteq {version}
    BY <1>7 DEF WeightInv
  <2>2. Inferring(s) /\ Member(s) /\ Loaded(s)
    BY <1>7, WorkerSilent DEF ServerInv, AtInfer
  <2>3. Infer(e) /\ cache'[e] = Used(e) /\ Used(e) = {version}
    BY <2>1, <2>2, WorkerInferring, UsedSources
  <2>4. weights' = weights
    BY <2>3 DEF Infer
  <2>5. QED
    BY <1>1, <1>7, <2>1, <2>3, <2>4 DEF WeightInv, Right
<1>8. QED
  BY <1>3, <1>4, <1>5, <1>6, <1>7, Types DEF ClientType

LEMMA ClientInvKept ==
    ASSUME ClientInv, UNCHANGED <<call, step, size, version, answer>>, loaded' <=> loaded
    PROVE  ClientInv'
<1>1. Requests(size)' = Requests(size) /\ \A l : AnswersTo(l)' = AnswersTo(l)
  BY SameSources DEF Requests
<1>2. QED
  BY <1>1 DEF ClientInv

LEMMA WorkerStepInv ==
    ASSUME IInv, NEW e \in Engines, WorkerStep(e)
    PROVE  IInv'
<1>1. TypeOK /\ TypeOK'
  BY WorkerTypes DEF IInv
<1>2. ClientInv'
  BY <1>1, WorkerMoves, ClientInvKept DEF IInv
<1>3. ASSUME NEW s \in 1..Servers PROVE ServerInv(s)'
  <2>1. CASE e \in Of(s)
    BY <1>1, <2>1, WorkerServerInv DEF IInv
  <2>2. CASE e \notin Of(s)
    <3>1. SameServer(s)
      BY <1>1, <2>2, WorkerMoves, PlaceOf DEF SameServer
    <3>2. UNCHANGED <<call, step, size, version>> /\ thread' = thread /\ reply' = reply
      BY <1>1, WorkerMoves
    <3>3. QED
      BY <3>1, <3>2, Elsewhere DEF IInv
  <2>3. QED
    BY <2>1, <2>2
<1>4. ASSUME Reliable, NEW f \in Engines PROVE WeightInv(f)'
  <2>1. CASE f = e
    <3>1. e[1] \in 1..Servers /\ e \in Of(e[1])
      BY PlaceOf
    <3>2. QED
      BY <1>1, <1>4, <2>1, <3>1, WorkerWeights DEF IInv
  <2>2. CASE f # e
    <3>1. /\ UNCHANGED <<call, step, version>> /\ (loaded' <=> loaded) /\ thread' = thread
          /\ pipe'[f] = pipe[f] /\ tensor'[f] = tensor[f] /\ weights'[f] = weights[f]
          /\ cache'[f] = cache[f]
      BY <1>1, <2>2, WorkerMoves
    <3>2. QED
      BY <1>4, <3>1, ElsewhereWeights DEF IInv
  <2>3. QED
    BY <2>1, <2>2
<1>5. QED
  BY <1>1, <1>2, <1>3, <1>4 DEF IInv, Reliable

-----------------------------------------------------------------------------
(* What comes back is put together in the order in which it was divided.    *)

LEMMA Gather ==
    ASSUME NEW S, NEW list \in Seq(S), NEW n \in Nat \ {0},
           NEW ends \in [0..n -> 0..Len(list)], ends[0] = 0, ends[n] = Len(list),
           \A i \in 1..n : ends[i - 1] <= ends[i],
           NEW pieces,
           \A i \in 1..n :
                /\ Len(pieces[i]) = ends[i] - ends[i - 1]
                /\ \A k \in 1..ends[i] - ends[i - 1] :
                        pieces[i][k] = list[ends[i - 1] + k],
           NEW parts \in [1..n -> Seq(Completions)],
           \A i \in 1..n : parts[i] \in AnswersTo(pieces[i])
    PROVE  FlattenSeq(parts) \in AnswersTo(list)
<1> DEFINE Good(x) == {c \in Completions : c.request = x /\ c.from \in Sources}
           Allowed == [k \in 1..Len(list) |-> Good(list[k])]
<1>1. Len(list) \in Nat
  BY LenProperties
<1>2. \A i \in 1..n : /\ i - 1 \in 0..n /\ i \in 0..n
                      /\ ends[i - 1] \in 0..Len(list) /\ ends[i] \in 0..Len(list)
  OBVIOUS
<1>3. ends \in [0..n -> Nat]
  BY <1>1
<1>4. \A i \in 1..n : /\ Len(parts[i]) = Len(pieces[i])
                      /\ ends[i] = ends[i - 1] + Len(parts[i])
  <2>1. \A i \in 1..n : Len(parts[i]) = ends[i] - ends[i - 1]
    BY DEF AnswersTo
  <2>2. \A i \in 1..n : ends[i - 1] \in Nat /\ ends[i] \in Nat
    BY <1>2
  <2> HIDE DEF Good
  <2>3. \A i \in 1..n : ends[i] = ends[i - 1] + Len(parts[i])
    BY <2>1, <2>2, SMTT(30)
  <2>4. QED
    BY <2>3 DEF AnswersTo
<1>5. ASSUME NEW i \in 1..n, NEW k \in 1..Len(parts[i])
      PROVE  parts[i][k] \in Allowed[ends[i - 1] + k]
  <2>1. /\ parts[i] \in Seq(Completions) /\ k \in 1..Len(pieces[i])
        /\ parts[i][k].request = pieces[i][k] /\ parts[i][k].from \in Sources
    BY <1>4 DEF AnswersTo
  <2>2. parts[i][k] \in Completions
    BY <2>1, ElementOfSeq
  <2>3. k \in 1..ends[i] - ends[i - 1]
    BY <2>1
  <2>4. pieces[i][k] = list[ends[i - 1] + k]
    BY <2>3
  <2>5. ends[i - 1] + k \in 1..Len(list)
    BY <1>1, <1>2, <2>3, SMTT(30)
  <2>6. parts[i][k] \in Good(list[ends[i - 1] + k])
    BY <2>1, <2>2, <2>4
  <2> HIDE DEF Good
  <2>7. QED
    BY <2>5, <2>6
<1>6. \A k \in 1..Len(list) : Allowed[k] = Good(list[k])
  OBVIOUS
<1> HIDE DEF Allowed
<1>7. /\ FlattenSeq(parts) \in Seq(Completions)
      /\ Len(FlattenSeq(parts)) = Len(list)
      /\ \A k \in 1..Len(list) : FlattenSeq(parts)[k] \in Allowed[k]
  <2>1. \A i \in 1..n : \A k \in 1..Len(parts[i]) :
            parts[i][k] \in Allowed[ends[i - 1] + k]
    BY <1>5
  <2>2. \A i \in 1..n : ends[i] = ends[i - 1] + Len(parts[i])
    BY <1>4
  <2>3. /\ FlattenSeq(parts) \in Seq(Completions)
        /\ Len(FlattenSeq(parts)) = ends[n]
        /\ \A k \in 1..ends[n] : FlattenSeq(parts)[k] \in Allowed[k]
    BY <1>3, <2>1, <2>2, FlattenPlaces
  <2>4. QED
    BY <2>3
<1>8. QED
  BY <1>6, <1>7 DEF AnswersTo

LEMMA NoAnswers == <<>> \in AnswersTo(<<>>)
BY DEF AnswersTo

LEMMA GatherShares ==
    ASSUME NEW list \in Seq(0..MaxRequests), NEW outputs \in [1..Workers -> Seq(Completions)],
           \A w \in 1..Workers : outputs[w] \in AnswersTo(ChunkList(list, w))
    PROVE  FlattenSeq(outputs) \in AnswersTo(list)
<1> DEFINE n == Len(list)
           ends == ShareEnds(n)
           pieces == [w \in 1..Workers |-> ChunkList(list, w)]
<1>1. n \in Nat /\ Workers \in Nat \ {0}
  BY LenProperties, Sizes
<1>2. /\ ends \in [0..Workers -> 0..n] /\ ends[0] = 0 /\ ends[Workers] = n
      /\ \A w \in 1..Workers : ends[w - 1] <= ends[w]
  BY <1>1, ShareEndsRight
<1>3. \A w \in 1..Workers :
        /\ Len(pieces[w]) = ends[w] - ends[w - 1]
        /\ \A k \in 1..ends[w] - ends[w - 1] : pieces[w][k] = list[ends[w - 1] + k]
  BY ShareRight
<1>4. \A w \in 1..Workers : outputs[w] \in AnswersTo(pieces[w])
  OBVIOUS
<1> HIDE DEF ends, pieces
<1>5. QED
  BY <1>1, <1>2, <1>3, <1>4, Gather

LEMMA GatherChunks ==
    ASSUME NEW n \in Nat, NEW parts \in [1..Servers -> Seq(Completions)],
           \A s \in 1..Servers : parts[s] \in AnswersTo(Chunk(n, s))
    PROVE  FlattenSeq(parts) \in AnswersTo(Requests(n))
<1> DEFINE ends == ChunkEnds(n)
           pieces == [s \in 1..Servers |-> Chunk(n, s)]
           list == Requests(n)
<1>1. /\ list \in Seq(0..n) /\ Len(list) = n /\ \A i \in 1..n : list[i] = i
      /\ Servers \in Nat \ {0}
  BY Sizes DEF Requests
<1>2. /\ ends \in [0..Servers -> 0..n] /\ ends[0] = 0 /\ ends[Servers] = n
      /\ \A s \in 1..Servers : ends[s - 1] <= ends[s]
  BY ChunkEndsRight
<1>3. \A s \in 1..Servers :
        /\ Len(pieces[s]) = ends[s] - ends[s - 1]
        /\ \A k \in 1..ends[s] - ends[s - 1] : pieces[s][k] = ends[s - 1] + k
  BY ChunkRight
<1>4. \A s \in 1..Servers : parts[s] \in AnswersTo(pieces[s])
  OBVIOUS
<1> HIDE DEF ends, pieces, list
<1>5. \A s \in 1..Servers : \A k \in 1..ends[s] - ends[s - 1] :
        pieces[s][k] = list[ends[s - 1] + k]
  <2>1. \A s \in 1..Servers : ends[s - 1] \in 0..n /\ ends[s] \in 0..n
    BY <1>1, <1>2
  <2>2. \A s \in 1..Servers : \A k \in 1..ends[s] - ends[s - 1] : ends[s - 1] + k \in 1..n
    BY <2>1
  <2>3. QED
    BY <1>1, <1>3, <2>2
<1>6. FlattenSeq(parts) \in AnswersTo(list)
  <2>1. \A s \in 1..Servers : Len(pieces[s]) = ends[s] - ends[s - 1]
    BY <1>3
  <2>2. /\ list \in Seq(0..n) /\ Servers \in Nat \ {0}
        /\ ends \in [0..Servers -> 0..Len(list)] /\ ends[0] = 0
        /\ ends[Servers] = Len(list) /\ \A s \in 1..Servers : ends[s - 1] <= ends[s]
    BY <1>1, <1>2
  <2>3. \A s \in 1..Servers :
            /\ Len(pieces[s]) = ends[s] - ends[s - 1]
            /\ \A k \in 1..ends[s] - ends[s - 1] : pieces[s][k] = list[ends[s - 1] + k]
    BY <1>5, <2>1
  <2>4. QED
    BY <1>4, <2>2, <2>3, Gather
<1>7. QED
  BY <1>6 DEF list

-----------------------------------------------------------------------------
(* The end of an endpoint.                                                  *)

\* A server that has taken the result of every worker.
Returned(s) ==
    /\ \A e \in Of(s) : result[e] # <<>> /\ result'[e] = Tail(result[e])
    /\ \A e \in Of(s) : UNCHANGED <<pipe[e], comm[e], tensor[e]>>
    /\ handler'[s] = Free

LEMMA EndpointMoves ==
    ASSUME TypeOK, NEW s \in 1..Servers, Finish(s) \/ Lifespan(s)
    PROVE  /\ UNCHANGED <<call, client, version, step, size, answer>>
           /\ loaded' <=> loaded
           /\ UNCHANGED <<pipe, comm, tensor, weights, cache>>
           /\ Returned(s)
           /\ \A r \in 1..Servers : r # s =>
                SameServer(r) /\ thread'[r] = thread[r] /\ reply'[r] = reply[r]
<1>1. UNCHANGED clientVars
  BY Zenon DEF Finish, Lifespan
<1>2. loaded' <=> loaded
  BY <1>1, Zenon DEF clientVars
<1>3. UNCHANGED <<call, client, version, step, size, answer>>
  BY <1>1 DEF clientVars
<1>4. UNCHANGED <<pipe, comm, tensor, weights, cache>>
  BY DEF Finish, Lifespan, workerVars
<1>5. /\ \A e \in Of(s) : result[e] # <<>>
      /\ handler' = [handler EXCEPT ![s] = Free]
      /\ result' = [e \in Engines |-> IF e \in Of(s) THEN Tail(result[e]) ELSE result[e]]
      /\ \/ thread' = thread
         \/ \E t : thread' = [thread EXCEPT ![s] = t]
      /\ \/ reply' = reply
         \/ \E t : reply' = [reply EXCEPT ![s] = t]
  BY Zenon DEF Finish, Lifespan
<1>6. Returned(s)
  BY <1>4, <1>5, PlaceOf, Types DEF Returned, HandlerType
<1>7. ASSUME NEW r \in 1..Servers, r # s
      PROVE  SameServer(r) /\ thread'[r] = thread[r] /\ reply'[r] = reply[r]
  <2>1. thread'[r] = thread[r] /\ reply'[r] = reply[r] /\ handler'[r] = handler[r]
    BY <1>5, <1>7, Types DEF HandlerType, ThreadType, ReplyType
  <2>2. \A e \in Of(r) : e \in Engines /\ e \notin Of(s)
    BY <1>7, PlaceOf
  <2>3. QED
    BY <1>4, <1>5, <2>1, <2>2 DEF SameServer
<1>8. QED
  BY <1>2, <1>3, <1>4, <1>6, <1>7

LEMMA Drained ==
    ASSUME TypeOK, NEW s \in 1..Servers, Returned(s), NEW m, \A e \in Of(s) : Busy(e, m)
    PROVE  Unattended(s)' /\ Silent(s)' /\ \A e \in Of(s) : pipe[e] = <<>>
<1>1. \A e \in Of(s) : pipe[e] = <<>> /\ Len(result[e]) = 1 /\ result[e] \in Seq(Results)
  BY PlaceOf, PipesAndResults DEF Returned, Busy
<1>2. \A e \in Of(s) : pipe'[e] = <<>> /\ result'[e] = <<>>
  BY <1>1, QueueTail, ZenonT(60) DEF Returned
<1>3. handler'[s] = Free
  BY DEF Returned
<1>4. Silent(s)'
  BY <1>2, <1>3 DEF Silent
<1>5. Unattended(s)'
  BY <1>2, <1>3 DEF Unattended
<1>6. QED
  BY <1>1, <1>4, <1>5

LEMMA InferringBusy ==
    ASSUME NEW s \in 1..Servers, Inferring(s)
    PROVE  \A e \in Of(s) : Busy(e, "infer")
<1>1. SUFFICES ASSUME NEW w \in 1..Workers PROVE Busy(<<s, w>>, "infer")
  BY PlaceOf
<1>2. InferringAt(s, w)
  BY DEF Inferring
<1> DEFINE c == Command("infer", 0, Share(Chunk(size, s), w))
           e == <<s, w>>
<1>3. c.method = "infer"
  BY DEF Command
<1>4. /\ (pipe[e] = <<c>> /\ result[e] = <<>>) \/ (pipe[e] = <<>> /\ Len(result[e]) = 1)
  BY <1>2 DEF InferringAt
<1> HIDE DEF c, e
<1>5. pipe[e] = <<c>> => Len(pipe[e]) = 1 /\ pipe[e][1] = c
  OBVIOUS
<1>6. Busy(e, "infer")
  BY <1>3, <1>4, <1>5 DEF Busy
<1>7. QED
  BY <1>6 DEF e

LEMMA LifespanServerInv ==
    ASSUME TypeOK, NEW s \in 1..Servers, ServerInv(s), Lifespan(s)
    PROVE  ServerInv(s)'
<1>1. /\ UNCHANGED <<call, version, step, size, thread, reply>> /\ Returned(s)
  BY EndpointMoves DEF Lifespan
<1>2. handler[s] = Starting
  BY DEF Lifespan
<1>3. ~Silent(s) /\ ~Joining(s) /\ ~Receiving(s) /\ ~Resetting(s) /\ ~Inferring(s)
  BY <1>2 DEF Silent, Joining, Receiving, Resetting, Inferring, Free, Starting
<1>4. Unattended(s)
  BY <1>3, Types DEF ServerInv, AtInit, AtUpdate, AtReset, AtInfer, ClientType
<1>5. \A e \in Of(s) : Busy(e, "start")
  BY <1>2, <1>4 DEF Unattended, Starting, Free
<1>6. Unattended(s)'
  BY <1>1, <1>5, Drained
<1>7. QED
  BY <1>1, <1>3, <1>6 DEF ServerInv, AtInit, AtUpdate, AtReset, AtInfer

\* What infer puts together at a server answers its chunk.
LEMMA FinishInfer ==
    ASSUME TypeOK, NEW s \in 1..Servers, Inferring(s), Finish(s), thread[s] = "reply"
    PROVE  \/ thread'[s] = "failed"
           \/ thread'[s] = "done" /\ reply'[s] \in AnswersTo(Chunk(size, s))
<1> DEFINE list == Chunk(size, s)
           asked == handler[s].asked
           outputs == [w \in 1..Workers |->
                          IF w \in asked THEN Head(result[<<s, w>>]).outputs ELSE <<>>]
<1>1. /\ handler[s].does = "infer"
      /\ asked = {w \in 1..Workers : ChunkList(list, w) # <<>>}
  BY DEF Inferring
<1>2. \/ thread' = [thread EXCEPT ![s] = "failed"]
      \/ /\ \A w \in asked : Head(result[<<s, w>>]).ok
         /\ thread' = [thread EXCEPT ![s] = "done"]
         /\ reply' = [reply EXCEPT ![s] = FlattenSeq(outputs)]
  <2>1. ~(handler[s].does = "reset")
    BY <1>1
  <2>2. \A w \in asked : [v \in 1..Workers |-> Head(result[<<s, v>>])][w]
                          = Head(result[<<s, w>>])
    BY <1>1
  <2>3. outputs = [w \in 1..Workers |-> IF w \in asked
            THEN [v \in 1..Workers |-> Head(result[<<s, v>>])][w].outputs ELSE <<>>]
    BY <1>1
  <2> HIDE DEF outputs
  <2>4. QED
    BY <2>1, <2>2, <2>3 DEF Finish
<1>3. CASE thread' = [thread EXCEPT ![s] = "failed"]
  BY <1>3, Types DEF ThreadType
<1>4. CASE /\ \A w \in asked : Head(result[<<s, w>>]).ok
           /\ thread' = [thread EXCEPT ![s] = "done"]
           /\ reply' = [reply EXCEPT ![s] = FlattenSeq(outputs)]
  <2>1. list \in Seq(0..MaxRequests)
    <3>1. 1 \in 1..Workers /\ size \in 0..MaxRequests
      BY Types, Sizes DEF ClientType
    <3>2. QED
      BY <3>1, ListTypes
  <2>2. ASSUME NEW w \in 1..Workers
        PROVE  outputs[w] \in AnswersTo(ChunkList(list, w))
    <3>1. CASE w \in asked
      <4>1. Share(list, w) = ChunkList(list, w)
        BY <1>1, <3>1 DEF Share
      <4>2. result[<<s, w>>] # <<>> /\ result[<<s, w>>] \in Seq(Results)
        BY PlaceOf, Types DEF Finish, ResultType
      <4>3. Head(result[<<s, w>>]) = result[<<s, w>>][1]
        BY <4>2, QueueTail
      <4>4. result[<<s, w>>][1].outputs \in AnswersTo(Share(list, w))
        BY <1>4, <3>1, <4>2, <4>3 DEF Inferring, InferringAt
      <4>5. QED
        BY <3>1, <4>1, <4>3, <4>4
    <3>2. CASE w \notin asked
      <4>1. ChunkList(list, w) = <<>> /\ outputs[w] = <<>>
        BY <1>1, <3>2
      <4>2. QED
        BY <4>1, NoAnswers
    <3>3. QED
      BY <3>1, <3>2
  <2>3. outputs \in [1..Workers -> Seq(Completions)]
    <3>1. \A w \in 1..Workers : outputs[w] \in Seq(Completions)
      BY <2>2 DEF AnswersTo
    <3>2. outputs = [w \in 1..Workers |-> outputs[w]]
      OBVIOUS
    <3> HIDE DEF outputs
    <3>3. QED
      BY <3>1, <3>2
  <2> HIDE DEF outputs, list, asked
  <2>4. FlattenSeq(outputs) \in AnswersTo(list)
    BY <2>1, <2>2, <2>3, GatherShares
  <2>5. reply'[s] = FlattenSeq(outputs) /\ thread'[s] = "done"
    BY <1>4, Types DEF ReplyType, ThreadType
  <2>6. QED
    BY <2>4, <2>5 DEF list
<1>5. QED
  BY <1>2, <1>3, <1>4

LEMMA FinishServerInv ==
    ASSUME TypeOK, NEW s \in 1..Servers, ServerInv(s), Finish(s)
    PROVE  /\ ServerInv(s)'
           /\ call = "reset" /\ thread'[s] = "done" =>
                thread[s] = "reply" /\ \A e \in Of(s) : pipe[e] = <<>>
<1>1. /\ UNCHANGED <<call, version, step, size, pipe, comm, tensor>> /\ Returned(s)
  BY EndpointMoves
<1>2. handler[s].does \in {"reset", "infer"}
  BY DEF Finish
<1>3. ~Silent(s) /\ ~Joining(s) /\ ~Receiving(s)
  BY <1>2 DEF Silent, Joining, Receiving, Free
<1>4. Member(s) => Member(s)'
  BY <1>1 DEF Member
<1>5. Loaded(s) => Loaded(s)'
  BY <1>1 DEF Loaded
<1>6. ASSUME Unattended(s), thread[s] # "reply"
      PROVE  Unattended(s)' /\ thread' = thread
  <2>1. \A e \in Of(s) : Busy(e, handler[s].does)
    BY <1>2, <1>6 DEF Unattended, Starting, Free
  <2>2. Unattended(s)'
    BY <1>1, <2>1, Drained
  <2>3. QED
    BY <1>6, <2>2 DEF Finish
<1>7. CASE call \in {"connect", "close", "exit", "over"}
  BY <1>1, <1>6, <1>7 DEF ServerInv
<1>8. CASE call = "init"
  <2>1. AtInit(s)
    BY <1>8 DEF ServerInv
  <2>2. Unattended(s) /\ thread[s] # "reply"
    BY <1>3, <2>1 DEF AtInit
  <2>3. AtInit(s)'
    BY <1>1, <1>3, <1>6, <2>1, <2>2 DEF AtInit
  <2>4. QED
    BY <1>1, <1>8, <2>3 DEF ServerInv
<1>9. CASE call \in {"idle", "update"}
  BY <1>3, <1>9 DEF ServerInv, AtUpdate
<1>10. CASE call = "reset"
  <2>1. thread[s] = "reply" /\ Resetting(s) /\ Member(s)
    BY <1>3, <1>10 DEF ServerInv, AtReset
  <2>2. Silent(s)' /\ \A e \in Of(s) : pipe[e] = <<>>
    BY <1>1, <2>1, Drained DEF Resetting
  <2>3. Loaded(s)'
    BY <1>1, <2>1, <2>2 DEF Resetting, Loaded
  <2>4. thread'[s] \in {"done", "failed"}
    BY <2>1, Types DEF Finish, ThreadType
  <2>5. AtReset(s)'
    BY <1>4, <2>1, <2>2, <2>3, <2>4 DEF AtReset
  <2>6. QED
    BY <1>1, <1>10, <2>1, <2>2, <2>5 DEF ServerInv
<1>11. CASE call = "infer"
  <2>1. thread[s] = "reply" /\ Inferring(s) /\ Member(s) /\ Loaded(s)
    BY <1>3, <1>11 DEF ServerInv, AtInfer
  <2>2. Silent(s)'
    BY <1>1, <2>1, InferringBusy, Drained
  <2>3. \/ thread'[s] = "failed"
        \/ thread'[s] = "done" /\ reply'[s] \in AnswersTo(Chunk(size, s))
    BY <2>1, FinishInfer
  <2>4. (thread'[s] = "done" => (reply[s] \in AnswersTo(Chunk(size, s)))')
    <3>1. Chunk(size, s)' = Chunk(size, s)
      BY <1>1 DEF Chunk, Requests, ChunkSize, Least
    <3>2. QED
      BY <1>1, <2>3, <3>1, SameSources
  <2>5. AtInfer(s)'
    BY <1>4, <1>5, <2>1, <2>2, <2>3, <2>4 DEF AtInfer
  <2>6. QED
    BY <1>1, <1>11, <2>5 DEF ServerInv
<1>12. QED
  BY <1>7, <1>8, <1>9, <1>10, <1>11, Types DEF ClientType

LEMMA EndpointInv ==
    ASSUME IInv, NEW s \in 1..Servers, Finish(s) \/ Lifespan(s)
    PROVE  IInv'
<1>1. TypeOK /\ TypeOK'
  BY EndpointTypes DEF IInv
<1>2. /\ UNCHANGED <<call, client, version, step, size, answer>>
      /\ loaded' <=> loaded
      /\ UNCHANGED <<pipe, comm, tensor, weights, cache>>
      /\ \A r \in 1..Servers : r # s =>
            SameServer(r) /\ thread'[r] = thread[r] /\ reply'[r] = reply[r]
  BY <1>1, EndpointMoves
<1>3. ClientInv'
  BY <1>2, ClientInvKept DEF IInv
<1>4. ASSUME NEW r \in 1..Servers PROVE ServerInv(r)'
  <2>1. CASE r = s
    BY <1>1, <2>1, FinishServerInv, LifespanServerInv DEF IInv
  <2>2. CASE r # s
    BY <1>2, <2>2, Elsewhere DEF IInv
  <2>3. QED
    BY <2>1, <2>2
<1>5. ASSUME Reliable, NEW e \in Engines PROVE WeightInv(e)'
  <2>1. WeightInv(e) /\ e[1] \in 1..Servers
    BY <1>5, PlaceOf DEF IInv
  <2>2. CASE thread'[e[1]] = thread[e[1]]
    BY <1>2, <2>1, <2>2, ElsewhereWeights
  <2>3. CASE thread'[e[1]] # thread[e[1]]
    <3>1. e[1] = s /\ Finish(s) /\ e \in Of(s)
      BY <1>2, <2>1, <2>3, PlaceOf DEF Lifespan
    <3>2. call = "reset" /\ thread'[s] = "done" =>
            thread[s] = "reply" /\ pipe[e] = <<>>
      BY <1>1, <3>1, FinishServerInv DEF IInv
    <3>3. thread'[s] \in {"done", "failed"} /\ handler[s].does \in {"reset", "infer"}
      BY <1>1, <2>3, <3>1, Types DEF Finish, ThreadType
    <3>4. call # "update"
      BY <3>1, <3>3 DEF IInv, ServerInv, AtUpdate, Silent, Receiving, Free
    <3>5. QED
      BY <1>2, <2>1, <3>1, <3>2, <3>3, <3>4 DEF WeightInv, Has, Right
  <2>4. QED
    BY <2>2, <2>3
<1>6. QED
  BY <1>1, <1>3, <1>4, <1>5 DEF IInv, Reliable

-----------------------------------------------------------------------------
(* A step of one of the client's threads.                                   *)

LEMMA SendMoves ==
    ASSUME TypeOK, NEW s \in 1..Servers, NEW command, Send(s, command)
    PROVE  /\ \A e \in Engines : e \notin Of(s) => pipe'[e] = pipe[e]
           /\ \A e \in Of(s) : pipe'[e] = Append(pipe[e], command[e[2]])
           /\ Silent(s) => \A e \in Of(s) : pipe'[e] = <<command[e[2]]>>
BY PlaceOf, QueueAppend DEF Send, Silent

LEMMA SendToAll ==
    ASSUME TypeOK, NEW s \in 1..Servers, NEW c, Send(s, ToAll(c))
    PROVE  /\ \A e \in Engines : e \notin Of(s) => pipe'[e] = pipe[e]
           /\ \A e \in Of(s) : pipe'[e] = Append(pipe[e], c)
           /\ Silent(s) => \A e \in Of(s) : pipe'[e] = <<c>>
<1> DEFINE command == ToAll(c)
<1>1. \A e \in Of(s) : command[e[2]] = c
  BY PlaceOf DEF ToAll
<1> HIDE DEF command
<1>2. /\ \A e \in Engines : e \notin Of(s) => pipe'[e] = pipe[e]
      /\ \A e \in Of(s) : pipe'[e] = Append(pipe[e], command[e[2]])
      /\ Silent(s) => \A e \in Of(s) : pipe'[e] = <<command[e[2]]>>
  BY SendMoves DEF command
<1>3. QED
  BY <1>1, <1>2

LEMMA One ==
    ASSUME NEW x
    PROVE  /\ <<x>> # <<>> /\ Len(<<x>>) = 1 /\ <<x>>[1] = x
           /\ Head(<<x>>) = x /\ Tail(<<x>>) = <<>>
OBVIOUS

LEMMA ThreadMoves ==
    ASSUME TypeOK, NEW s \in 1..Servers, ThreadStep(s)
    PROVE  /\ UNCHANGED <<call, client, version, step, size, answer, reply, result>>
           /\ loaded' <=> loaded
           /\ UNCHANGED <<weights, cache>>
           /\ \A e \in Engines : e \notin Of(s) =>
                pipe'[e] = pipe[e] /\ tensor'[e] = tensor[e]
           /\ \A r \in 1..Servers : r # s => SameServer(r) /\ thread'[r] = thread[r]
<1>1. UNCHANGED clientVars
  BY Zenon DEF ThreadStep, UpdateServer, ResetServer, InferServer, PostFails,
      Rendezvous, Broadcast
<1>2. loaded' <=> loaded
  BY <1>1, Zenon DEF clientVars
<1>3. UNCHANGED <<call, client, version, step, size, answer>>
  BY <1>1 DEF clientVars
<1>4. UNCHANGED <<reply, result, weights, cache>>
  BY DEF ThreadStep, UpdateServer, ResetServer, InferServer, PostFails,
      Rendezvous, Broadcast, workerVars
<1>5. /\ \A e \in Engines : e \notin Of(s) =>
            pipe'[e] = pipe[e] /\ comm'[e] = comm[e] /\ tensor'[e] = tensor[e]
      /\ \E t : thread' = [thread EXCEPT ![s] = t]
      /\ handler' = handler \/ \E h : handler' = [handler EXCEPT ![s] = h]
  <2>1. CASE UpdateServer(s)
    BY <2>1, SendMoves DEF UpdateServer, UpdateEndpoint, workerVars
  <2>2. CASE ResetServer(s)
    BY <2>2, SendMoves DEF ResetServer, ResetEndpoint, workerVars
  <2>3. CASE InferServer(s)
    <3>1. /\ \E command : Send(s, command)
          /\ \E h : handler' = [handler EXCEPT ![s] = h]
          /\ thread' = [thread EXCEPT ![s] = "reply"] /\ UNCHANGED workerVars
      BY <2>3, Zenon DEF InferServer, InferEndpoint
    <3>2. QED
      BY <3>1, SendMoves DEF workerVars
  <2>4. CASE PostFails(s)
    BY <2>4 DEF PostFails, workerVars
  <2>5. CASE Rendezvous(s)
    BY <2>5, Types DEF Rendezvous, PopAll, WorkerType
  <2>6. CASE Broadcast(s)
    BY <2>6, Types DEF Broadcast, PopAll, WorkerType
  <2>7. QED
    BY <2>1, <2>2, <2>3, <2>4, <2>5, <2>6 DEF ThreadStep
<1>6. ASSUME NEW r \in 1..Servers, r # s
      PROVE  SameServer(r) /\ thread'[r] = thread[r]
  <2>1. thread'[r] = thread[r] /\ handler'[r] = handler[r]
    BY <1>5, <1>6, Types DEF HandlerType, ThreadType
  <2>2. \A e \in Of(r) : e \in Engines /\ e \notin Of(s)
    BY <1>6, PlaceOf
  <2>3. QED
    BY <1>4, <1>5, <2>1, <2>2 DEF SameServer
<1>7. QED
  BY <1>2, <1>3, <1>4, <1>5, <1>6

\* The endpoint is told, by a thread of the client that finds it at rest.
LEMMA UpdateServerInv ==
    ASSUME TypeOK, NEW s \in 1..Servers, ServerInv(s), UpdateServer(s)
    PROVE  ServerInv(s)'
<1>1. /\ call = "update" /\ call' = call /\ thread[s] = "post" /\ thread'[s] = "broadcast"
      /\ handler' = handler /\ result' = result /\ comm' = comm /\ step' = step
      /\ Send(s, ToAll(Command("update", step, <<>>)))
  BY Types DEF UpdateServer, UpdateEndpoint, clientVars, workerVars, ThreadType
<1>2. Member(s) /\ Silent(s)
  BY <1>1 DEF ServerInv, AtUpdate
<1>3. \A e \in Of(s) : pipe'[e] = <<Command("update", step, <<>>)>>
  BY <1>1, <1>2, SendToAll
<1>4. Receiving(s)' /\ Member(s)'
  BY <1>1, <1>2, <1>3 DEF Receiving, Member, Silent, Command
<1>5. QED
  BY <1>1, <1>4 DEF ServerInv, AtUpdate

LEMMA ResetServerInv ==
    ASSUME TypeOK, NEW s \in 1..Servers, ServerInv(s), ResetServer(s)
    PROVE  ServerInv(s)' /\ \A e \in Of(s) : pipe'[e] # <<>>
<1>1. /\ call = "reset" /\ call' = call /\ thread[s] = "post" /\ thread'[s] = "reply"
      /\ handler'[s] = [does |-> "reset", asked |-> 1..Workers]
      /\ result' = result /\ comm' = comm
      /\ Send(s, ToAll(Command("reset", 0, <<>>)))
  BY Types DEF ResetServer, ResetEndpoint, clientVars, workerVars, ThreadType, HandlerType
<1>2. Member(s) /\ Silent(s)
  BY <1>1 DEF ServerInv, AtReset
<1> DEFINE c == Command("reset", 0, <<>>)
<1>3. \A e \in Of(s) : pipe'[e] = <<c>>
  BY <1>1, <1>2, SendToAll
<1>4. c.method = "reset"
  BY DEF Command
<1> HIDE DEF c
<1>5. \A e \in Of(s) : Busy(e, "reset")' /\ pipe'[e] # <<>>
  <2>1. \A e \in Of(s) : Len(pipe'[e]) = 1 /\ pipe'[e][1] = c /\ pipe'[e] # <<>>
    BY <1>3, One
  <2>2. \A e \in Of(s) : result'[e] = <<>>
    BY <1>1, <1>2 DEF Silent
  <2>3. QED
    BY <1>4, <2>1, <2>2 DEF Busy
<1>6. Resetting(s)' /\ Member(s)'
  BY <1>1, <1>2, <1>5 DEF Resetting, Member
<1>7. QED
  BY <1>1, <1>5, <1>6 DEF ServerInv, AtReset

LEMMA InferServerInv ==
    ASSUME TypeOK, NEW s \in 1..Servers, ServerInv(s), InferServer(s)
    PROVE  ServerInv(s)'
<1> DEFINE command == [w \in 1..Workers |-> Command("infer", 0, Share(Chunk(size, s), w))]
<1>1. /\ call = "infer" /\ call' = call /\ thread[s] = "post" /\ thread'[s] = "reply"
      /\ result' = result /\ comm' = comm /\ tensor' = tensor
      /\ size' = size /\ version' = version
  BY Types DEF InferServer, clientVars, workerVars, ThreadType
<1>2. /\ handler'[s] = [does |-> "infer",
              asked |-> {w \in 1..Workers : ChunkList(Chunk(size, s), w) # <<>>}]
      /\ Send(s, command)
  BY Types DEF InferServer, InferEndpoint, HandlerType, Share
<1>3. Member(s) /\ Loaded(s) /\ Silent(s)
  BY <1>1 DEF ServerInv, AtInfer
<1> HIDE DEF command
<1>4. \A e \in Of(s) : pipe'[e] = <<command[e[2]]>>
  BY <1>2, <1>3, SendMoves
<1>5. Chunk(size, s)' = Chunk(size, s)
  BY <1>1 DEF Chunk, Requests, ChunkSize, Least
<1>6. ASSUME NEW w \in 1..Workers PROVE InferringAt(s, w)'
  <2>1. <<s, w>> \in Of(s) /\ <<s, w>>[2] = w
    BY PlaceOf
  <2>2. pipe'[<<s, w>>] = <<Command("infer", 0, Share(Chunk(size, s), w))>>
    BY <1>4, <2>1 DEF command
  <2>3. result'[<<s, w>>] = <<>>
    BY <1>1, <1>3, <2>1 DEF Silent
  <2>4. QED
    BY <1>5, <2>2, <2>3, Zenon DEF InferringAt
<1>7. Inferring(s)'
  BY <1>2, <1>5, <1>6, Zenon DEF Inferring
<1>8. Member(s)' /\ Loaded(s)'
  BY <1>1, <1>3 DEF Member, Loaded
<1>9. QED
  BY <1>1, <1>7, <1>8 DEF ServerInv, AtInfer

LEMMA PostFailsInv ==
    ASSUME TypeOK, NEW s \in 1..Servers, ServerInv(s), PostFails(s)
    PROVE  ServerInv(s)' /\ thread[s] = "post" /\ thread'[s] = "failed"
<1>1. /\ call' = call /\ thread[s] = "post" /\ thread'[s] = "failed"
      /\ UNCHANGED <<handler, result, comm, tensor, pipe>>
  BY Types DEF PostFails, clientVars, workerVars, ThreadType
<1>2. SameServer(s)
  BY <1>1 DEF SameServer
<1>3. call \in {"update", "reset", "infer"} /\ Silent(s) /\ Member(s)
        /\ (call = "infer" => Loaded(s))
  BY <1>1, Types DEF ServerInv, AtInit, AtUpdate, AtReset, AtInfer, ClientType
<1>4. Silent(s)' /\ Member(s)' /\ (call = "infer" => Loaded(s)')
  BY <1>2, <1>3, SameStates
<1>5. QED
  BY <1>1, <1>3, <1>4 DEF ServerInv, AtUpdate, AtReset, AtInfer

LEMMA RendezvousInv ==
    ASSUME TypeOK, ClientInv, NEW s \in 1..Servers, ServerInv(s), Rendezvous(s)
    PROVE  ServerInv(s)'
<1>1. /\ call' = call /\ step' = step /\ thread[s] = "rendezvous" /\ thread'[s] = "done"
      /\ UNCHANGED <<handler, result, tensor>>
      /\ \A e \in Of(s) : pipe'[e] = Tail(pipe[e])
      /\ \A e \in Of(s) : comm'[e]
      /\ \A e \in Of(s) : /\ tensor[e] = NoTensor /\ pipe[e] # <<>>
                          /\ Head(pipe[e]).method = "init"
  BY PlaceOf, Types DEF Rendezvous, clientVars, ThreadType, PopAll, AllExecute, Executes
<1>2. call = "init" /\ s = step /\ Joining(s)
  BY <1>1, Types DEF ServerInv, AtInit, AtUpdate, AtReset, AtInfer, ClientType
<1>3. \A e \in Of(s) : pipe'[e] = <<>>
  <2>1. SUFFICES ASSUME NEW e \in Of(s) PROVE pipe'[e] = <<>>
    OBVIOUS
  <2>2. pipe[e] \in Seq(Commands)
    BY PlaceOf, PipesAndResults
  <2>3. 1 \in 1..Len(pipe[e]) /\ pipe[e][1].method = "init"
    BY <1>1, <2>2, QueueTail
  <2>4. Len(pipe[e]) = 1
    BY <1>2, <2>3 DEF Joining
  <2>5. QED
    BY <1>1, <2>2, <2>4, QueueTail
<1>4. Silent(s)' /\ Member(s)' /\ Loaded(s)'
  BY <1>1, <1>2, <1>3 DEF Silent, Member, Loaded, Joining
<1>5. step \in 1..Servers
  BY <1>2 DEF ClientInv
<1>6. AtInit(s)'
  BY <1>1, <1>2, <1>4, <1>5 DEF AtInit
<1>7. QED
  BY <1>1, <1>2, <1>6 DEF ServerInv

LEMMA BroadcastInv ==
    ASSUME TypeOK, ClientInv, NEW s \in 1..Servers, ServerInv(s), Broadcast(s)
    PROVE  /\ ServerInv(s)' /\ call = "update"
           /\ \A e \in Of(s) : /\ tensor[e] = NoTensor
                               /\ tensor'[e] = [bucket |-> step, version |-> version]
<1>1. /\ call' = call /\ step' = step /\ thread[s] = "broadcast" /\ thread'[s] = "done"
      /\ UNCHANGED <<handler, result, comm>>
      /\ \A e \in Of(s) : pipe'[e] = Tail(pipe[e])
      /\ \A e \in Of(s) : tensor[e] = NoTensor
  BY PlaceOf, Types DEF Broadcast, clientVars, ThreadType, PopAll, AllExecute, Executes
<1>2. call = "update" /\ Member(s) /\ Receiving(s)
  BY <1>1, Types DEF ServerInv, AtInit, AtUpdate, AtReset, AtInfer, ClientType
<1>3. \A e \in Of(s) : pipe'[e] = <<>> /\ Head(pipe[e]).bucket = step
  <2> DEFINE c == Command("update", step, <<>>)
  <2>1. c.bucket = step
    BY DEF Command
  <2>2. \A e \in Of(s) : pipe[e] = <<c>>
    BY <1>2 DEF Receiving
  <2> HIDE DEF c
  <2>3. QED
    BY <1>1, <2>1, <2>2, One, ZenonT(60)
<1>4. \A e \in Of(s) : tensor'[e] = [bucket |-> step, version |-> version]
  BY <1>3, PlaceOf DEF Broadcast
<1>5. Silent(s)' /\ Member(s)'
  BY <1>1, <1>2, <1>3 DEF Silent, Member, Receiving
<1>6. QED
  BY <1>1, <1>2, <1>4, <1>5 DEF ServerInv, AtUpdate

LEMMA ThreadStepInv ==
    ASSUME IInv, NEW s \in 1..Servers, ThreadStep(s)
    PROVE  IInv'
<1>1. TypeOK /\ TypeOK' /\ ClientInv /\ ServerInv(s)
  BY ThreadTypes, CollectiveTypes DEF IInv, ThreadStep
<1>2. /\ UNCHANGED <<call, client, version, step, size, answer, reply, result>>
      /\ loaded' <=> loaded
      /\ UNCHANGED <<weights, cache>>
      /\ \A e \in Engines : e \notin Of(s) =>
            pipe'[e] = pipe[e] /\ tensor'[e] = tensor[e]
      /\ \A r \in 1..Servers : r # s => SameServer(r) /\ thread'[r] = thread[r]
  BY <1>1, ThreadMoves
<1>3. ClientInv'
  BY <1>1, <1>2, ClientInvKept
<1>4. ASSUME NEW r \in 1..Servers PROVE ServerInv(r)'
  <2>1. CASE r = s
    BY <1>1, <2>1, UpdateServerInv, ResetServerInv, InferServerInv, PostFailsInv,
        RendezvousInv, BroadcastInv DEF ThreadStep
  <2>2. CASE r # s
    BY <1>2, <2>2, Elsewhere DEF IInv
  <2>3. QED
    BY <2>1, <2>2
<1>5. ASSUME Reliable, NEW e \in Engines PROVE WeightInv(e)'
  <2>1. WeightInv(e) /\ e[1] \in 1..Servers /\ (e \in Of(s) <=> e[1] = s)
    BY <1>5, PlaceOf DEF IInv
  <2>2. CASE e \notin Of(s)
    BY <1>2, <2>1, <2>2, ElsewhereWeights
  <2>3. CASE e \in Of(s) /\ ~Broadcast(s)
    <3>1. tensor'[e] = tensor[e]
      BY <2>3 DEF ThreadStep, UpdateServer, ResetServer, InferServer, PostFails,
          Rendezvous, workerVars
    <3>2. /\ call \in {"update", "reset"} => thread'[s] # "done"
          /\ call = "reset" /\ thread'[s] = "reply" => pipe'[e] # <<>>
      <4>1. CASE UpdateServer(s) \/ PostFails(s)
        BY <1>1, <4>1, Types DEF UpdateServer, PostFails, ThreadType
      <4>2. CASE ResetServer(s)
        BY <1>1, <2>3, <4>2, ResetServerInv, Types DEF ResetServer, ThreadType
      <4>3. CASE InferServer(s)
        BY <4>3 DEF InferServer
      <4>4. CASE Rendezvous(s)
        BY <1>1, <4>4 DEF Rendezvous, ServerInv, AtUpdate, AtReset
      <4>5. QED
        BY <2>3, <4>1, <4>2, <4>3, <4>4 DEF ThreadStep
    <3>3. QED
      BY <1>2, <2>1, <2>3, <3>1, <3>2 DEF WeightInv, Has, Right
  <2>4. CASE e \in Of(s) /\ Broadcast(s)
    <3>1. /\ call = "update" /\ tensor[e] = NoTensor
          /\ tensor'[e] = [bucket |-> step, version |-> version]
      BY <1>1, <2>4, BroadcastInv
    <3>2. step \in 1..Buckets
      BY <1>1, <3>1 DEF ClientInv
    <3>3. \A b \in 1..Buckets : Has(e, b) => weights[e][b] = version
      BY <3>1 DEF Has, NoTensor
    <3>4. \A b \in 1..Buckets : b < step \/ b = step => Has(e, b)'
      BY <1>2, <2>1, <3>1, <3>3 DEF Has, WeightInv
    <3>5. QED
      BY <1>2, <3>1, <3>2, <3>4 DEF WeightInv
  <2>5. QED
    BY <2>2, <2>3, <2>4
<1>6. QED
  BY <1>1, <1>3, <1>4, <1>5 DEF IInv, Reliable

-----------------------------------------------------------------------------
(* A step of the client.                                                    *)

ServersUntouched == UNCHANGED <<handler, pipe, result, comm, tensor, weights, cache>>

LEMMA Untouched ==
    ASSUME UNCHANGED <<handler, pipe, result, workerVars>>, NEW s \in 1..Servers
    PROVE  /\ SameServer(s) /\ ServersUntouched
           /\ Unattended(s) => Unattended(s)'
           /\ Joining(s) => Joining(s)'
           /\ Member(s) => Member(s)'
           /\ Loaded(s) => Loaded(s)'
           /\ Silent(s) => Silent(s)'
<1>1. SameServer(s) /\ ServersUntouched
  BY DEF SameServer, ServersUntouched, workerVars
<1>2. QED
  BY <1>1, SameStates

LEMMA QuietUnattended ==
    ASSUME NEW s \in 1..Servers
    PROVE  /\ Silent(s) => Unattended(s)
           /\ Resetting(s) => Unattended(s)
           /\ Inferring(s) => Unattended(s)
<1>1. Silent(s) => Unattended(s)
  BY DEF Silent, Unattended
<1>2. Resetting(s) => Unattended(s)
  BY DEF Resetting, Unattended
<1>3. Inferring(s) => Unattended(s)
  BY InferringBusy DEF Inferring, Unattended
<1>4. QED
  BY <1>1, <1>2, <1>3

\* Whatever the client's threads wait for, the server can do without them.
LEMMA Abandoned ==
    ASSUME TypeOK, NEW s \in 1..Servers, ServerInv(s)
    PROVE  /\ call \notin {"init", "update"} => Unattended(s)
           /\ thread[s] \in {"done", "failed"} => Unattended(s)
<1>1. call \notin {"init", "update"} => Unattended(s)
  BY QuietUnattended, Types DEF ServerInv, AtReset, AtInfer, ClientType
<1>2. thread[s] \in {"done", "failed"} => Unattended(s)
  BY <1>1, QuietUnattended, Types DEF ServerInv, AtInit, AtUpdate, ClientType
<1>3. QED
  BY <1>1, <1>2

LEMMA CheckServerInv ==
    ASSUME IInv, CheckServer
    PROVE  IInv'
<1>1. TypeOK' /\ TypeOK
  BY ClientActionTypes DEF IInv
<1>2. /\ call = "connect" /\ call' \in {"close", "over"}
      /\ UNCHANGED <<version, step, size, answer, thread, handler, pipe, result, workerVars>>
  BY DEF CheckServer
<1>3. loaded' <=> loaded
  BY Zenon DEF CheckServer
<1>4. ClientInv'
  <2>1. answer # <<>> => (answer \in AnswersTo(Requests(size)))'
    BY <1>2, SameSources DEF IInv, ClientInv, Requests
  <2>2. QED
    BY <1>2, <1>3, <2>1, Sizes DEF IInv, ClientInv
<1>5. ASSUME NEW s \in 1..Servers PROVE ServerInv(s)'
  <2>1. Unattended(s) /\ thread[s] = "off"
    BY <1>2 DEF IInv, ServerInv
  <2>2. Unattended(s)' /\ thread'[s] = "off"
    BY <1>2, <2>1, Untouched
  <2>3. QED
    BY <1>2, <2>2 DEF ServerInv
<1>6. \A e \in Engines : WeightInv(e)'
  BY <1>2 DEF WeightInv
<1>7. QED
  BY <1>1, <1>4, <1>5, <1>6 DEF IInv

\* One more command to leave the communicator.
LEMMA CloseUnattended ==
    ASSUME TypeOK, NEW r \in 1..Servers, CloseEndpoint(r), UNCHANGED result,
           NEW s \in 1..Servers, Unattended(s)
    PROVE  Unattended(s)'
<1> DEFINE c == Command("close", 0, <<>>)
<1>1. c.method = "close"
  BY DEF Command
<1>2. /\ handler[r] = Free /\ handler' = handler
      /\ \A e \in Engines : e \notin Of(r) => pipe'[e] = pipe[e]
      /\ \A e \in Of(r) : pipe'[e] = Append(pipe[e], c)
  BY SendToAll DEF CloseEndpoint, Accepts
<1> HIDE DEF c
<1>3. CASE s = r
  <2>1. /\ handler[s] = Free
        /\ \A e \in Of(s) :
            /\ \A i \in 1..Len(pipe[e]) : pipe[e][i].method = "close"
            /\ result[e] = <<>>
    BY <1>2, <1>3 DEF Unattended, Free, Starting
  <2>2. ASSUME NEW e \in Of(s), NEW i \in 1..Len(pipe'[e])
        PROVE  pipe'[e][i].method = "close"
    <3>1. pipe[e] \in Seq(Commands) /\ pipe'[e] = Append(pipe[e], c)
      BY <1>2, <1>3, PlaceOf, PipesAndResults
    <3>2. \/ i \in 1..Len(pipe[e]) /\ pipe'[e][i] = pipe[e][i]
          \/ pipe'[e][i] = c
      BY <3>1
    <3>3. QED
      BY <1>1, <2>1, <3>2
  <2>3. QED
    BY <1>2, <2>1, <2>2 DEF Unattended
<1>4. CASE s # r
  <2>1. \A e \in Of(s) : pipe'[e] = pipe[e] /\ result'[e] = result[e]
    BY <1>2, <1>4, PlaceOf
  <2>2. QED
    BY <1>2, <2>1 DEF Unattended, Busy
<1>5. QED
  BY <1>3, <1>4

LEMMA CloseCommunicatorInv ==
    ASSUME IInv, CloseCommunicator
    PROVE  IInv'
<1>1. TypeOK' /\ TypeOK
  BY CloseCommunicatorType DEF IInv
<1>2. step \in 1..Servers
  BY DEF IInv, ClientInv, CloseCommunicator
<1>3. /\ call \in {"close", "exit"}
      /\ UNCHANGED <<version, size, answer, thread, result>>
      /\ step' \in 1..Servers
      /\ \/ call' = call
         \/ call = "close" /\ call' = "init" /\ step' = 1
         \/ call = "exit" /\ call' = "over"
      /\ CloseEndpoint(step) \/ UNCHANGED <<pipe, handler>>
  BY <1>2, Sizes DEF CloseCommunicator
<1>4. loaded' <=> loaded
  BY Zenon DEF CloseCommunicator
<1>5. ClientInv'
  <2>1. answer # <<>> => (answer \in AnswersTo(Requests(size)))'
    BY <1>3, SameSources DEF IInv, ClientInv, Requests
  <2>2. QED
    BY <1>3, <1>4, <2>1 DEF IInv, ClientInv
<1>6. ASSUME NEW s \in 1..Servers PROVE ServerInv(s)'
  <2>1. /\ Unattended(s) /\ (call = "close" => thread[s] = "off")
        /\ thread[s] \in {"off", "done", "failed"}
    BY <1>3 DEF IInv, ServerInv
  <2>2. Unattended(s)'
    <3>1. CASE CloseEndpoint(step)
      BY <1>1, <1>2, <1>3, <2>1, <3>1, CloseUnattended
    <3>2. CASE UNCHANGED <<pipe, handler>>
      BY <1>3, <2>1, <3>2 DEF Unattended, Busy
    <3>3. QED
      BY <1>3, <3>1, <3>2
  <2>3. call = "close" /\ call' = "init" => AtInit(s)'
    BY <1>3, <2>1, <2>2 DEF AtInit
  <2>4. QED
    BY <1>3, <2>1, <2>2, <2>3 DEF ServerInv
<1>7. \A e \in Engines : WeightInv(e)'
  BY <1>3 DEF WeightInv
<1>8. QED
  BY <1>1, <1>5, <1>6, <1>7 DEF IInv

LEMMA InitCommunicatorInv ==
    ASSUME IInv, InitCommunicator
    PROVE  IInv'
<1>1. TypeOK' /\ TypeOK
  BY InitCommunicatorType DEF IInv
<1>2. step \in 1..Servers
  BY DEF IInv, ClientInv, InitCommunicator
<1>3. /\ call = "init" /\ thread[step] = "off"
      /\ UNCHANGED <<call, version, step, size, answer, reply, result, workerVars>>
  BY DEF InitCommunicator, clientVars
<1>4. loaded' <=> loaded
  BY Zenon DEF InitCommunicator, clientVars
<1>5. ClientInv'
  BY <1>3, <1>4, ClientInvKept DEF IInv
<1>6. ASSUME NEW s \in 1..Servers PROVE ServerInv(s)'
  <2>1. AtInit(s)
    BY <1>3 DEF IInv, ServerInv
  <2>2. CASE s # step
    <3>1. SameServer(s) /\ thread'[s] = thread[s]
      <4>1. thread'[s] = thread[s] /\ handler' = handler
        BY <1>1, <2>2, Types DEF InitCommunicator, InitEndpoint, ThreadType
      <4>2. \A e \in Of(s) : pipe'[e] = pipe[e]
        <5>1. CASE InitEndpoint(step)
          BY <1>1, <1>2, <2>2, <5>1, SendToAll, PlaceOf DEF InitEndpoint
        <5>2. CASE UNCHANGED pipe
          BY <5>2
        <5>3. QED
          BY <5>1, <5>2 DEF InitCommunicator
      <4>3. QED
        BY <1>3, <4>1, <4>2 DEF SameServer, workerVars
    <3>2. QED
      BY <1>3, <3>1, Elsewhere DEF IInv
  <2>3. CASE s = step
    <3>1. Unattended(s)
      BY <1>3, <2>1, <2>3 DEF AtInit
    <3>2. CASE InitEndpoint(step) /\ thread' = [thread EXCEPT ![step] = "rendezvous"]
      <4> DEFINE c == Command("init", 0, <<>>)
      <4>1. c.method = "init"
        BY DEF Command
      <4>2. /\ handler[s] = Free /\ handler' = handler
            /\ \A e \in Of(s) : pipe'[e] = Append(pipe[e], c)
        BY <1>1, <2>3, <3>2, SendToAll DEF InitEndpoint, Accepts
      <4> HIDE DEF c
      <4>3. \A e \in Of(s) :
                /\ \A i \in 1..Len(pipe[e]) : pipe[e][i].method = "close"
                /\ result[e] = <<>>
        BY <3>1, <4>2 DEF Unattended, Free, Starting
      <4>4. ASSUME NEW e \in Of(s), NEW i \in 1..Len(pipe'[e])
            PROVE  \/ pipe'[e][i].method = "close"
                   \/ i = Len(pipe'[e]) /\ pipe'[e][i].method = "init"
        <5>1. pipe[e] \in Seq(Commands) /\ pipe'[e] = Append(pipe[e], c)
          BY <1>1, <4>2, PlaceOf, PipesAndResults
        <5>2. \/ i \in 1..Len(pipe[e]) /\ pipe'[e][i] = pipe[e][i]
              \/ i = Len(pipe'[e]) /\ pipe'[e][i] = c
          BY <5>1
        <5>3. QED
          BY <4>1, <4>3, <5>2
      <4>5. Joining(s)'
        BY <1>3, <4>2, <4>3, <4>4 DEF Joining
      <4>6. thread'[s] = "rendezvous"
        BY <1>1, <2>3, <3>2, Types DEF ThreadType
      <4>7. AtInit(s)'
        BY <1>3, <2>3, <4>5, <4>6 DEF AtInit
      <4>8. QED
        BY <1>3, <4>7 DEF ServerInv
    <3>3. CASE /\ thread' = [thread EXCEPT ![step] = "failed"]
               /\ UNCHANGED <<pipe, handler>>
      <4>1. Unattended(s)' /\ thread'[s] = "failed"
        BY <1>1, <1>3, <2>3, <3>1, <3>3, Untouched, Types DEF ThreadType
      <4>2. AtInit(s)'
        BY <1>3, <2>3, <4>1 DEF AtInit
      <4>3. QED
        BY <1>3, <4>2 DEF ServerInv
    <3>4. QED
      BY <3>2, <3>3 DEF InitCommunicator
  <2>4. QED
    BY <2>2, <2>3
<1>7. \A e \in Engines : WeightInv(e)'
  BY <1>3 DEF WeightInv
<1>8. QED
  BY <1>1, <1>5, <1>6, <1>7 DEF IInv

LEMMA InitReturnInv ==
    ASSUME IInv, InitReturn
    PROVE  IInv'
<1>1. TypeOK' /\ TypeOK
  BY ClientActionTypes DEF IInv
<1>2. step \in 1..Servers
  BY DEF IInv, ClientInv, InitReturn
<1>3. /\ call = "init" /\ UNCHANGED <<version, size, answer, thread>>
      /\ UNCHANGED <<handler, pipe, result, workerVars>>
      /\ \/ thread[step] = "failed" /\ call' = "over"
         \/ thread[step] = "done" /\ call' = "init" /\ step' = step + 1 /\ step < Servers
         \/ thread[step] = "done" /\ call' = "idle" /\ step' = 1 /\ step = Servers
  BY <1>2, Sizes DEF InitReturn
<1>4. loaded' <=> loaded
  BY Zenon DEF InitReturn
<1>5. ~loaded
  BY <1>3 DEF IInv, ClientInv
<1>6. ClientInv'
  <2>1. answer # <<>> => (answer \in AnswersTo(Requests(size)))'
    BY <1>3, SameSources DEF IInv, ClientInv, Requests
  <2>2. QED
    BY <1>2, <1>3, <1>4, <1>5, <2>1, Sizes DEF IInv, ClientInv
<1>7. ASSUME NEW s \in 1..Servers PROVE ServerInv(s)'
  <2>1. AtInit(s)
    BY <1>3 DEF IInv, ServerInv
  <2>2. /\ Unattended(s) => Unattended(s)'
        /\ Member(s) => Member(s)'
        /\ Loaded(s) => Loaded(s)'
        /\ Silent(s) => Silent(s)'
    BY <1>3, Untouched
  <2>3. CASE call' = "over"
    <3>1. thread[s] \in {"off", "done", "failed"} /\ Unattended(s)
      BY <1>2, <1>3, <2>1, <2>3, QuietUnattended DEF AtInit
    <3>2. QED
      BY <1>3, <2>2, <2>3, <3>1 DEF ServerInv
  <2>4. CASE call' = "init"
    <3>1. AtInit(s)'
      BY <1>2, <1>3, <2>1, <2>2, <2>4 DEF AtInit
    <3>2. QED
      BY <2>4, <3>1 DEF ServerInv
  <2>5. CASE call' = "idle"
    BY <1>2, <1>3, <2>1, <2>2, <2>5 DEF AtInit, ServerInv
  <2>6. QED
    BY <1>3, <2>3, <2>4, <2>5
<1>8. \A e \in Engines : WeightInv(e)'
  BY <1>3, <1>4, <1>5 DEF WeightInv
<1>9. QED
  BY <1>1, <1>6, <1>7, <1>8 DEF IInv

LEMMA AllStates ==
    /\ \A s \in 1..Servers : All("post")[s] = "post" /\ All("off")[s] = "off"
BY DEF All

LEMMA MoveModelInv ==
    ASSUME IInv, MoveModel
    PROVE  IInv'
<1>1. TypeOK' /\ TypeOK
  BY ClientActionTypes DEF IInv
<1>2. /\ call = "idle" /\ call' = "update" /\ version' = version + 1 /\ step' = 1
      /\ answer' = <<>> /\ thread' = All("post")
      /\ UNCHANGED <<handler, pipe, result, workerVars>>
  BY DEF MoveModel
<1>3. ClientInv'
  BY <1>2, Sizes DEF ClientInv
<1>4. ASSUME NEW s \in 1..Servers PROVE ServerInv(s)'
  <2>1. Silent(s)' /\ Member(s)' /\ thread'[s] = "post"
    BY <1>2, Untouched, AllStates DEF IInv, ServerInv
  <2>2. QED
    BY <1>2, <2>1 DEF ServerInv, AtUpdate
<1>5. ASSUME NEW e \in Engines PROVE WeightInv(e)'
  <2>1. e[1] \in 1..Servers /\ e \in Of(e[1])
    BY PlaceOf
  <2>2. tensor[e] = NoTensor
    BY <1>2, <2>1 DEF IInv, ServerInv, Loaded
  <2>3. tensor'[e] = NoTensor /\ thread'[e[1]] = "post"
    BY <1>2, <2>1, <2>2, AllStates DEF workerVars
  <2>4. QED
    BY <1>2, <2>3 DEF WeightInv
<1>6. QED
  BY <1>1, <1>3, <1>4, <1>5 DEF IInv

LEMMA UpdateReturnInv ==
    ASSUME IInv, UpdateReturn
    PROVE  IInv'
<1>1. TypeOK' /\ TypeOK
  BY ClientActionTypes DEF IInv
<1>2. step \in 1..Buckets
  BY DEF IInv, ClientInv, UpdateReturn
<1>3. /\ call = "update" /\ Joined
      /\ UNCHANGED <<version, size, answer, handler, pipe, result, workerVars>>
      /\ \/ call' = "exit" /\ step' = 1 /\ thread' = thread
         \/ /\ ~SomeFailed /\ thread' = All("post") /\ call' = "update"
            /\ step' = step + 1 /\ step < Buckets
         \/ /\ ~SomeFailed /\ thread' = All("post") /\ call' = "reset"
            /\ step' = 1 /\ step = Buckets
  BY <1>2, Sizes DEF UpdateReturn
<1>4. loaded' <=> loaded
  BY Zenon DEF UpdateReturn
<1>5. ClientInv'
  <2>1. answer # <<>> => (answer \in AnswersTo(Requests(size)))'
    BY <1>3, SameSources DEF IInv, ClientInv, Requests
  <2>2. QED
    BY <1>2, <1>3, <1>4, <2>1, Sizes DEF IInv, ClientInv
<1>6. ASSUME NEW s \in 1..Servers PROVE ServerInv(s)'
  <2>1. Silent(s) /\ Member(s) /\ thread[s] \in {"done", "failed"}
    BY <1>3 DEF IInv, ServerInv, AtUpdate, Joined
  <2>2. Silent(s)' /\ Member(s)' /\ Unattended(s)'
    BY <1>3, <2>1, QuietUnattended, Untouched
  <2>3. CASE call' = "exit"
    BY <1>3, <2>1, <2>2, <2>3 DEF ServerInv
  <2>4. CASE call' # "exit"
    <3>1. thread'[s] = "post"
      BY <1>3, <2>4, AllStates
    <3>2. QED
      BY <1>3, <2>2, <2>4, <3>1 DEF ServerInv, AtUpdate, AtReset
  <2>5. QED
    BY <2>3, <2>4
<1>7. ASSUME Reliable, NEW e \in Engines PROVE WeightInv(e)'
  <2>1. e[1] \in 1..Servers
    BY PlaceOf
  <2>2. CASE call' = "exit"
    BY <2>2 DEF WeightInv
  <2>3. CASE call' # "exit"
    <3>1. thread[e[1]] = "done" /\ thread'[e[1]] = "post"
      BY <1>3, <2>1, <2>3, AllStates DEF Joined, SomeFailed
    <3>2. \A b \in 1..Buckets : b < step \/ b = step => Has(e, b)'
      BY <1>3, <1>7, <3>1 DEF IInv, WeightInv, Has, workerVars
    <3>3. tensor'[e] = NoTensor \/ tensor'[e] \in [bucket : 1..Buckets, version : {version'}]
      BY <1>3, <1>7 DEF IInv, WeightInv, workerVars
    <3>4. CASE call' = "update"
      <4>1. \A b \in 1..Buckets : b < step' => b < step \/ b = step
        BY <1>2, <1>3, <3>4
      <4>2. QED
        BY <3>1, <3>2, <3>3, <3>4, <4>1 DEF WeightInv
    <3>5. CASE call' = "reset"
      <4>1. \A b \in 1..Buckets : b < step \/ b = step
        BY <1>2, <1>3, <3>5
      <4>2. QED
        BY <3>1, <3>2, <3>3, <3>5, <4>1 DEF WeightInv
    <3>6. QED
      BY <1>3, <2>3, <3>4, <3>5
  <2>4. QED
    BY <2>2, <2>3
<1>8. QED
  BY <1>1, <1>5, <1>6, <1>7 DEF IInv, Reliable

LEMMA ResetReturnInv ==
    ASSUME IInv, ResetReturn
    PROVE  IInv'
<1>1. TypeOK' /\ TypeOK
  BY ClientActionTypes DEF IInv
<1>2. step = 1
  BY DEF IInv, ClientInv, ResetReturn
<1>3. /\ call = "reset" /\ Joined
      /\ UNCHANGED <<version, step, size, answer, thread>>
      /\ UNCHANGED <<handler, pipe, result, workerVars>>
      /\ \/ call' = "exit"
         \/ ~SomeFailed /\ call' = "idle"
  BY DEF ResetReturn
<1>4. ClientInv'
  <2>1. answer # <<>> => (answer \in AnswersTo(Requests(size)))'
    BY <1>3, SameSources DEF IInv, ClientInv, Requests
  <2>2. QED
    BY <1>2, <1>3, <2>1, Sizes DEF IInv, ClientInv
<1>5. ASSUME NEW s \in 1..Servers
      PROVE  /\ ServerInv(s)'
             /\ call' = "idle" => thread[s] = "done" /\ Loaded(s)
  <2>1. /\ Silent(s) /\ Member(s) /\ thread[s] \in {"done", "failed"}
        /\ thread[s] = "done" => Loaded(s)
    BY <1>3 DEF IInv, ServerInv, AtReset, Joined
  <2>2. /\ Silent(s)' /\ Member(s)' /\ Unattended(s)'
        /\ thread[s] = "done" => Loaded(s)'
    BY <1>3, <2>1, QuietUnattended, Untouched
  <2>3. QED
    BY <1>3, <2>1, <2>2 DEF ServerInv, SomeFailed
<1>6. ASSUME Reliable, NEW e \in Engines PROVE WeightInv(e)'
  <2>1. CASE call' = "exit"
    BY <2>1 DEF WeightInv
  <2>2. CASE call' = "idle"
    <3>1. e[1] \in 1..Servers /\ e \in Of(e[1])
      BY PlaceOf
    <3>2. tensor[e] = NoTensor /\ thread[e[1]] = "done"
      BY <1>5, <2>2, <3>1 DEF Loaded
    <3>3. (\A b \in 1..Buckets : Has(e, b)) /\ cache[e] = {}
      BY <1>3, <1>6, <3>2 DEF IInv, WeightInv
    <3>4. \A b \in 1..Buckets : weights[e][b] = version
      <4>1. \A b \in 1..Buckets : NoTensor # [bucket |-> b, version |-> version]
        BY DEF NoTensor
      <4>2. QED
        BY <3>2, <3>3, <4>1 DEF Has
    <3>5. QED
      BY <1>3, <2>2, <3>3, <3>4 DEF WeightInv, Right, workerVars
  <2>3. QED
    BY <1>3, <2>1, <2>2
<1>7. QED
  BY <1>1, <1>4, <1>5, <1>6 DEF IInv, Reliable

LEMMA InferCallInv ==
    ASSUME IInv, InferCall
    PROVE  IInv'
<1>1. TypeOK' /\ TypeOK
  BY ClientActionTypes DEF IInv
<1>2. /\ call = "idle" /\ call' = "infer" /\ loaded
      /\ answer' = <<>> /\ thread' = All("post") /\ UNCHANGED <<version, step>>
      /\ UNCHANGED <<handler, pipe, result, workerVars>>
  BY DEF InferCall
<1>3. loaded'
  BY Zenon DEF InferCall
<1>4. ClientInv'
  BY <1>2, <1>3 DEF IInv, ClientInv
<1>5. ASSUME NEW s \in 1..Servers PROVE ServerInv(s)'
  <2>1. Silent(s)' /\ Member(s)' /\ Loaded(s)' /\ thread'[s] = "post"
    BY <1>2, Untouched, AllStates DEF IInv, ServerInv
  <2>2. QED
    BY <1>2, <2>1 DEF ServerInv, AtInfer
<1>6. ASSUME Reliable, NEW e \in Engines PROVE WeightInv(e)'
  <2>1. Right(e) /\ cache[e] \subseteq {version}
    BY <1>2, <1>6 DEF IInv, WeightInv
  <2>2. QED
    BY <1>2, <2>1 DEF WeightInv, Right, workerVars
<1>7. QED
  BY <1>1, <1>4, <1>5, <1>6 DEF IInv, Reliable

LEMMA InferReturnInv ==
    ASSUME IInv, InferReturn
    PROVE  IInv' /\ (call' = "idle" => answer' \in AnswersTo(Requests(size)))
<1>1. TypeOK' /\ TypeOK
  BY InferReturnType DEF IInv
<1>2. /\ call = "infer" /\ Joined
      /\ UNCHANGED <<version, step, size, thread>>
      /\ UNCHANGED <<handler, pipe, result, workerVars>>
      /\ \/ call' = "exit" /\ answer' = answer
         \/ ~SomeFailed /\ call' = "idle" /\ answer' = FlattenSeq(reply)
  BY DEF InferReturn
<1>3. loaded' <=> loaded
  BY Zenon DEF InferReturn
<1>4. ASSUME NEW s \in 1..Servers
      PROVE  /\ Silent(s) /\ Member(s) /\ Loaded(s) /\ thread[s] \in {"done", "failed"}
             /\ thread[s] = "done" => reply[s] \in AnswersTo(Chunk(size, s))
  BY <1>2 DEF IInv, ServerInv, AtInfer, Joined
<1>5. call' = "idle" => answer' \in AnswersTo(Requests(size))
  <2>1. SUFFICES ASSUME call' = "idle" PROVE answer' \in AnswersTo(Requests(size))
    OBVIOUS
  <2>2. \A s \in 1..Servers : reply[s] \in AnswersTo(Chunk(size, s))
    BY <1>2, <1>4, <2>1 DEF SomeFailed
  <2>3. size \in Nat /\ reply \in [1..Servers -> Seq(Completions)]
    BY <1>1, Types, Sizes DEF ClientType, ReplyType
  <2>4. FlattenSeq(reply) \in AnswersTo(Requests(size))
    BY <2>2, <2>3, GatherChunks
  <2>5. QED
    BY <1>2, <2>1, <2>4
<1>6. ClientInv'
  <2>1. answer' # <<>> => (answer \in AnswersTo(Requests(size)))'
    BY <1>2, <1>5, SameSources DEF IInv, ClientInv, Requests
  <2>2. step = 1
    BY <1>2 DEF IInv, ClientInv
  <2>3. QED
    BY <1>2, <1>3, <2>1, <2>2, Sizes DEF ClientInv
<1>7. ASSUME NEW s \in 1..Servers PROVE ServerInv(s)'
  <2>1. Silent(s)' /\ Member(s)' /\ Loaded(s)' /\ Unattended(s)'
    BY <1>2, <1>4, QuietUnattended, Untouched
  <2>2. QED
    BY <1>2, <1>4, <2>1 DEF ServerInv, SomeFailed
<1>8. ASSUME Reliable, NEW e \in Engines PROVE WeightInv(e)'
  BY <1>2, <1>8 DEF IInv, WeightInv, Right, workerVars
<1>9. QED
  BY <1>1, <1>5, <1>6, <1>7, <1>8 DEF IInv, Reliable

\* The end of the training, or of its process; and the next one.
LEMMA EndInv ==
    ASSUME IInv, Exit \/ Kill \/ Restart
    PROVE  IInv'
<1>1. TypeOK' /\ TypeOK
  BY ClientActionTypes DEF IInv
<1>2. /\ call \notin {"init", "update"}
      /\ UNCHANGED <<version, size, handler, pipe, result, workerVars>>
      /\ \/ /\ call = "idle" /\ call' = "exit" /\ step' = 1
            /\ thread' = thread /\ answer' = answer
         \/ call' = "over" /\ thread' = All("off") /\ answer' = answer
         \/ call' = "connect" /\ thread' = All("off") /\ answer' = <<>> /\ step' = 1
  BY ServerAssumption DEF Exit, Kill, Restart
<1>3. call' = "connect" => ~loaded'
  BY Zenon DEF Exit, Kill, Restart
<1>4. ClientInv'
  <2>1. answer # <<>> => (answer' = answer => (answer \in AnswersTo(Requests(size)))')
    BY <1>2, SameSources DEF IInv, ClientInv, Requests
  <2>2. QED
    BY <1>2, <1>3, <2>1, Sizes DEF ClientInv
<1>5. ASSUME NEW s \in 1..Servers PROVE ServerInv(s)'
  <2>1. Unattended(s) /\ (call = "idle" => thread[s] = "done")
    BY <1>1, <1>2, Abandoned DEF IInv, ServerInv
  <2>2. Unattended(s)'
    BY <1>2, <2>1, Untouched
  <2>3. thread'[s] = "off" \/ (call' = "exit" /\ thread'[s] = "done")
    BY <1>2, <2>1, AllStates
  <2>4. QED
    BY <1>2, <2>2, <2>3 DEF ServerInv
<1>6. \A e \in Engines : WeightInv(e)'
  BY <1>2 DEF WeightInv
<1>7. QED
  BY <1>1, <1>4, <1>5, <1>6 DEF IInv

-----------------------------------------------------------------------------
(* The invariant.                                                           *)

LEMMA InitInv == Init => IInv
<1> SUFFICES ASSUME Init PROVE IInv
  OBVIOUS
<1>1. TypeOK
  BY InitType
<1>2. call = "connect" /\ step = 1 /\ answer = <<>>
  BY DEF Init
<1>3. ~loaded
  BY Zenon DEF Init
<1>4. ClientInv
  BY <1>2, <1>3 DEF ClientInv
<1>5. ASSUME NEW s \in 1..Servers PROVE ServerInv(s)
  <2> DEFINE c == Command("start", 0, <<>>)
  <2>1. c.method = "start"
    BY DEF Command
  <2>2. \A e \in Of(s) : pipe[e] = <<c>> /\ result[e] = <<>>
    BY PlaceOf DEF Init
  <2>3. thread[s] = "off" /\ handler[s] = Starting
    BY DEF Init
  <2> HIDE DEF c
  <2>4. Unattended(s)
    BY <2>1, <2>2, <2>3, One DEF Unattended, Busy
  <2>5. QED
    BY <1>2, <2>3, <2>4 DEF ServerInv
<1>6. \A e \in Engines : WeightInv(e)
  BY <1>2 DEF WeightInv
<1>7. QED
  BY <1>1, <1>4, <1>5, <1>6 DEF IInv

LEMMA StutterInv ==
    ASSUME IInv, UNCHANGED vars
    PROVE  IInv'
<1>1. TypeOK'
  BY StepType DEF IInv
<1>2. UNCHANGED clientVars
  BY DEF vars
<1>3. loaded' <=> loaded
  BY <1>2, Zenon DEF clientVars
<1>4. /\ UNCHANGED <<call, client, version, step, size, answer>>
      /\ UNCHANGED <<thread, reply, handler, pipe, result, comm, tensor, weights, cache>>
  BY <1>2 DEF vars, clientVars, workerVars
<1>5. ClientInv'
  BY <1>3, <1>4, ClientInvKept DEF IInv
<1>6. \A s \in 1..Servers : ServerInv(s)'
  BY <1>4, Elsewhere DEF IInv, SameServer
<1>7. Reliable => \A e \in Engines : WeightInv(e)'
  BY <1>3, <1>4, ElsewhereWeights DEF IInv
<1>8. QED
  BY <1>1, <1>5, <1>6, <1>7 DEF IInv, Reliable

LEMMA StepInv == IInv /\ [Next]_vars => IInv'
<1> SUFFICES ASSUME IInv, [Next]_vars PROVE IInv'
  OBVIOUS
<1>1. CASE ClientStep
  BY <1>1, CheckServerInv, CloseCommunicatorInv, InitCommunicatorInv, InitReturnInv,
      UpdateReturnInv, ResetReturnInv, InferReturnInv DEF ClientStep
<1>2. CASE MoveModel \/ InferCall \/ Exit \/ Kill \/ Restart
  BY <1>2, MoveModelInv, InferCallInv, EndInv
<1>3. ASSUME NEW s \in 1..Servers, ThreadStep(s) \/ ServerStep(s)
      PROVE  IInv'
  BY <1>3, ThreadStepInv, EndpointInv DEF ServerStep
<1>4. ASSUME NEW e \in Engines, WorkerStep(e)
      PROVE  IInv'
  BY <1>4, WorkerStepInv
<1>5. CASE UNCHANGED vars
  BY <1>5, StutterInv
<1>6. QED
  BY <1>1, <1>2, <1>3, <1>4, <1>5 DEF Next

(* The invariant holds in every state the client and the servers reach. *)
THEOREM Invariance == Spec => []IInv
<1>1. QED
  BY InitInv, StepInv, PTL DEF Spec

(* Every variable keeps its type, whatever fails and whoever is killed. *)
THEOREM TypeCorrect == Spec => []TypeOK
<1>1. IInv => TypeOK
  BY DEF IInv
<1>2. QED
  BY <1>1, Invariance, PTL

(* When a call of the client has returned, its servers' workers have no     *)
(* command before them, no result left over and no bucket to load, however *)
(* many of them there are: reset_prefix_cache waits for all of it. *)
THEOREM QuiescentAlways == Spec => []Quiescent
<1>1. IInv => Quiescent
  <2>1. SUFFICES ASSUME IInv, call = "idle"
                 PROVE  /\ \A s \in 1..Servers : handler[s] = Free
                        /\ \A e \in Engines :
                             /\ pipe[e] = <<>> /\ result[e] = <<>>
                             /\ tensor[e] = NoTensor /\ comm[e]
    BY DEF Quiescent
  <2>2. \A s \in 1..Servers : Silent(s) /\ Member(s) /\ Loaded(s)
    BY <2>1 DEF IInv, ServerInv
  <2>3. \A e \in Engines : e[1] \in 1..Servers /\ e \in Of(e[1])
    BY PlaceOf
  <2>4. QED
    BY <2>2, <2>3 DEF Silent, Member, Loaded
<1>2. QED
  BY <1>1, Invariance, PTL

(* What infer returns answers the requests, one by one and in their order,  *)
(* for every number of requests, servers and workers: the two divisions of *)
(* the list and the two concatenations of the answers are each other's *)
(* inverse, and nothing of another call gets in between. *)
THEOREM InOrderAlways == Spec => []InOrder
<1>1. IInv => InOrder
  <2>1. SUFFICES ASSUME IInv, answer # <<>>
                 PROVE  [i \in 1..Len(answer) |-> answer[i].request] = Requests(size)
    BY DEF InOrder
  <2>2. answer \in AnswersTo(Requests(size)) /\ size \in Nat
    BY <2>1, Types, Sizes DEF IInv, ClientInv, ClientType
  <2>3. Len(Requests(size)) = size /\ \A i \in 1..size : Requests(size)[i] = i
    BY <2>2 DEF Requests
  <2>4. Len(answer) = size /\ \A i \in 1..size : answer[i].request = i
    BY <2>2, <2>3 DEF AnswersTo
  <2>5. QED
    BY <2>4 DEF Requests
<1>2. QED
  BY <1>1, Invariance, PTL

-----------------------------------------------------------------------------
(* The service.                                                             *)

\* What the trainer is waiting for, in terms of the service.
Serving ==
    CASE call \in {"connect", "close", "init"} -> "none"
      [] call \in {"update", "reset"} -> "sync"
      [] call \in {"exit", "over"} -> "over"
      [] OTHER -> call

LEMMA ServingIs ==
    /\ call \in {"connect", "close", "init"} => Serving = "none"
    /\ call \in {"update", "reset"} => Serving = "sync"
    /\ call \in {"exit", "over"} => Serving = "over"
    /\ call = "idle" => Serving = "idle"
    /\ call = "infer" => Serving = "infer"
BY DEF Serving

LEMMA ServingNext ==
    /\ call' \in {"connect", "close", "init"} => Serving' = "none"
    /\ call' \in {"update", "reset"} => Serving' = "sync"
    /\ call' \in {"exit", "over"} => Serving' = "over"
    /\ call' = "idle" => Serving' = "idle"
    /\ call' = "infer" => Serving' = "infer"
BY DEF Serving

\* A complete answer, from the weights sent last.
LEMMA AnswersFromLast ==
    ASSUME Reliable, NEW n \in Nat, NEW out \in AnswersTo(Requests(n))
    PROVE  out = Service!Answers(n, version)
<1>1. Len(Requests(n)) = n /\ \A i \in 1..n : Requests(n)[i] = i
  BY DEF Requests
<1>2. /\ out \in Seq(Completions) /\ Len(out) = n
      /\ \A i \in 1..n : out[i].request = i /\ out[i].from = {version}
  BY <1>1 DEF AnswersTo, Sources
<1>3. \A i \in 1..n : out[i] = [request |-> i, from |-> {version}]
  <2>1. \A i \in 1..n : out[i] \in Completions
    BY <1>2, ElementOfSeq
  <2>2. QED
    BY <1>2, <2>1 DEF Completions
<1>4. QED
  BY <1>2, <1>3 DEF Service!Answers

LEMMA ServiceStutters ==
    ASSUME Serving' = Serving, UNCHANGED <<version, size, answer>>, UNCHANGED loaded
    PROVE  UNCHANGED Service!vars
BY Zenon DEF Service!vars, Serving

LEMMA ServiceInit == Init => Service!Init
<1> SUFFICES ASSUME Init PROVE Service!Init
  OBVIOUS
<1>1. call = "connect" /\ version = 0 /\ size = 0 /\ answer = <<>>
  BY DEF Init
<1>2. loaded = FALSE
  BY Zenon DEF Init
<1>3. Serving = "none"
  BY <1>1, ServingIs
<1>4. QED
  BY <1>1, <1>2, <1>3, Zenon DEF Service!Init, Serving

LEMMA ServiceStep ==
    ASSUME Reliable, IInv, [Next]_vars
    PROVE  [Service!Next]_(Service!vars)
<1>0. TypeOK
  BY DEF IInv
<1>1. ASSUME UNCHANGED <<call, version, size, answer>>, UNCHANGED loaded
      PROVE  UNCHANGED Service!vars
  <2>1. Serving' = Serving
    BY <1>1 DEF Serving
  <2>2. QED
    BY <1>1, <2>1, ServiceStutters
<1>2. ASSUME UNCHANGED clientVars
      PROVE  UNCHANGED Service!vars
  <2>1. UNCHANGED loaded
    BY <1>2, Zenon DEF clientVars
  <2>2. UNCHANGED <<call, version, size, answer>>
    BY <1>2 DEF clientVars
  <2>3. QED
    BY <1>1, <2>1, <2>2
<1>3. ASSUME call \in {"connect", "close", "init", "update", "reset", "infer"},
             call' \in {"exit", "over"},
             UNCHANGED <<version, size, answer>>, UNCHANGED loaded
      PROVE  Service!Fail
  <2>1. Serving \in {"none", "sync", "infer"} /\ Serving' = "over"
    BY <1>3, ServingIs, ServingNext
  <2>2. QED
    BY <1>3, <2>1, Zenon DEF Service!Fail, Serving
<1>4. CASE CheckServer
  <2>1. /\ call = "connect" /\ call' \in {"close", "over"}
        /\ UNCHANGED <<version, size, answer>>
    BY <1>4 DEF CheckServer
  <2>2. UNCHANGED loaded
    BY <1>4, Zenon DEF CheckServer
  <2>3. CASE call' = "close"
    BY <2>1, <2>2, <2>3, ServingIs, ServingNext, ServiceStutters
  <2>4. CASE call' = "over"
    BY <1>3, <2>1, <2>2, <2>4 DEF Service!Next
  <2>5. QED
    BY <2>1, <2>3, <2>4
<1>5. CASE CloseCommunicator
  <2>1. /\ UNCHANGED <<version, size, answer>>
        /\ \/ call' = call
           \/ call = "close" /\ call' = "init"
           \/ call = "exit" /\ call' = "over"
    BY <1>5 DEF CloseCommunicator
  <2>2. UNCHANGED loaded
    BY <1>5, Zenon DEF CloseCommunicator
  <2>3. Serving' = Serving
    BY <2>1, ServingIs, ServingNext DEF Serving
  <2>4. QED
    BY <2>1, <2>2, <2>3, ServiceStutters
<1>6. CASE InitCommunicator
  BY <1>2, <1>6 DEF InitCommunicator
<1>7. CASE InitReturn
  <2>1. /\ call = "init" /\ call' \in {"over", "init", "idle"}
        /\ UNCHANGED <<version, size, answer>>
    BY <1>7 DEF InitReturn
  <2>2. UNCHANGED loaded
    BY <1>7, Zenon DEF InitReturn
  <2>3. CASE call' = "init"
    BY <2>1, <2>2, <2>3, ServingIs, ServingNext, ServiceStutters
  <2>4. CASE call' = "over"
    BY <1>3, <2>1, <2>2, <2>4 DEF Service!Next
  <2>5. CASE call' = "idle"
    <3>1. Serving = "none" /\ Serving' = "idle"
      BY <2>1, <2>5, ServingIs, ServingNext
    <3>2. Service!Connected
      BY <2>1, <2>2, <3>1, Zenon DEF Service!Connected, Serving
    <3>3. QED
      BY <3>2 DEF Service!Next
  <2>6. QED
    BY <2>1, <2>3, <2>4, <2>5
<1>8. CASE MoveModel
  <2>1. /\ call = "idle" /\ call' = "update" /\ version < MaxVersion
        /\ version' = version + 1 /\ answer' = <<>> /\ UNCHANGED size
    BY <1>8 DEF MoveModel
  <2>2. UNCHANGED loaded
    BY <1>8, Zenon DEF MoveModel
  <2>3. Serving = "idle" /\ Serving' = "sync"
    BY <2>1, ServingIs, ServingNext
  <2>4. Service!SyncCall
    BY <2>1, <2>2, <2>3, Zenon DEF Service!SyncCall, Serving
  <2>5. QED
    BY <2>4 DEF Service!Next
<1>9. CASE UpdateReturn
  <2>1. /\ call = "update" /\ call' \in {"exit", "update", "reset"}
        /\ UNCHANGED <<version, size, answer>>
    BY <1>9 DEF UpdateReturn
  <2>2. UNCHANGED loaded
    BY <1>9, Zenon DEF UpdateReturn
  <2>3. CASE call' = "exit"
    BY <1>3, <2>1, <2>2, <2>3 DEF Service!Next
  <2>4. CASE call' # "exit"
    BY <2>1, <2>2, <2>4, ServingIs, ServingNext, ServiceStutters
  <2>5. QED
    BY <2>3, <2>4
<1>10. CASE ResetReturn
  <2>1. /\ call = "reset" /\ UNCHANGED <<version, size, answer>>
        /\ \/ SomeFailed /\ call' = "exit"
           \/ ~SomeFailed /\ call' = "idle"
    BY <1>10 DEF ResetReturn
  <2>2. loaded' = (loaded \/ ~SomeFailed) /\ loaded \in BOOLEAN
    BY <1>0, <1>10, Types, Zenon DEF ResetReturn, LoadedType
  <2>3. CASE SomeFailed
    <3>1. UNCHANGED loaded
      BY <2>2, <2>3, Zenon
    <3>2. QED
      BY <1>3, <2>1, <2>3, <3>1 DEF Service!Next
  <2>4. CASE ~SomeFailed
    <3>1. loaded' = TRUE
      BY <2>2, <2>4, Zenon
    <3>2. Serving = "sync" /\ Serving' = "idle"
      BY <2>1, <2>4, ServingIs, ServingNext
    <3>3. Service!SyncReturn
      BY <2>1, <3>1, <3>2, Zenon DEF Service!SyncReturn, Serving
    <3>4. QED
      BY <3>3 DEF Service!Next
  <2>5. QED
    BY <2>3, <2>4
<1>11. CASE InferCall
  <2>1. /\ call = "idle" /\ call' = "infer" /\ size' \in 1..MaxRequests
        /\ answer' = <<>> /\ UNCHANGED version
    BY <1>11 DEF InferCall
  <2>2. loaded /\ UNCHANGED loaded
    BY <1>11, Zenon DEF InferCall
  <2>3. Serving = "idle" /\ Serving' = "infer"
    BY <2>1, ServingIs, ServingNext
  <2>4. Service!InferCall
    BY <2>1, <2>2, <2>3, Zenon DEF Service!InferCall, Serving
  <2>5. QED
    BY <2>4 DEF Service!Next
<1>12. CASE InferReturn
  <2>1. /\ call = "infer" /\ UNCHANGED <<version, size>>
        /\ \/ call' = "exit" /\ answer' = answer
           \/ call' = "idle"
    BY <1>12 DEF InferReturn
  <2>2. UNCHANGED loaded
    BY <1>12, Zenon DEF InferReturn
  <2>3. CASE call' = "exit"
    BY <1>3, <2>1, <2>2, <2>3 DEF Service!Next
  <2>4. CASE call' = "idle"
    <3>1. answer' \in AnswersTo(Requests(size)) /\ size \in Nat
      BY <1>0, <1>12, <2>4, InferReturnInv, Types, Sizes DEF ClientType
    <3>2. answer' = Service!Answers(size, version)
      BY <3>1, AnswersFromLast
    <3>3. Serving = "infer" /\ Serving' = "idle"
      BY <2>1, <2>4, ServingIs, ServingNext
    <3>4. Service!InferReturn
      BY <2>1, <2>2, <3>2, <3>3, Zenon DEF Service!InferReturn, Serving
    <3>5. QED
      BY <3>4 DEF Service!Next
  <2>5. QED
    BY <2>1, <2>3, <2>4
<1>13. ASSUME call = "idle", call' \in {"exit", "over"},
              UNCHANGED <<version, size, answer>>, UNCHANGED loaded
       PROVE  Service!Leave
  <2>1. Serving = "idle" /\ Serving' = "over"
    BY <1>13, ServingIs, ServingNext
  <2>2. QED
    BY <1>13, <2>1, Zenon DEF Service!Leave, Serving
<1>14. CASE Exit
  <2>1. UNCHANGED loaded
    BY <1>14, Zenon DEF Exit
  <2>2. call = "idle" /\ call' = "exit" /\ UNCHANGED <<version, size, answer>>
    BY <1>14 DEF Exit
  <2>3. QED
    BY <1>13, <2>1, <2>2 DEF Service!Next
<1>15. CASE Kill
  <2>1. UNCHANGED loaded
    BY <1>15, Zenon DEF Kill
  <2>2. /\ call \in {"connect", "idle", "reset", "infer", "exit"} /\ call' = "over"
        /\ UNCHANGED <<version, size, answer>>
    BY <1>15, ServerAssumption DEF Kill
  <2>3. CASE call \in {"connect", "reset", "infer"}
    BY <1>3, <2>1, <2>2, <2>3 DEF Service!Next
  <2>4. CASE call = "idle"
    BY <1>13, <2>1, <2>2, <2>4 DEF Service!Next
  <2>5. CASE call = "exit"
    BY <2>1, <2>2, <2>5, ServingIs, ServingNext, ServiceStutters
  <2>6. QED
    BY <2>2, <2>3, <2>4, <2>5
<1>16. CASE Restart
  <2>1. loaded' = FALSE
    BY <1>16, Zenon DEF Restart
  <2>2. /\ call = "over" /\ call' = "connect" /\ answer' = <<>>
        /\ UNCHANGED <<version, size>>
    BY <1>16 DEF Restart
  <2>3. Serving = "over" /\ Serving' = "none"
    BY <2>2, ServingIs, ServingNext
  <2>4. Service!Restart
    BY <2>1, <2>2, <2>3, Zenon DEF Service!Restart, Serving
  <2>5. QED
    BY <2>4 DEF Service!Next
<1>17. ASSUME NEW s \in 1..Servers, ThreadStep(s) \/ ServerStep(s)
       PROVE  UNCHANGED Service!vars
  <2>1. UNCHANGED clientVars
    BY <1>17, Zenon DEF ThreadStep, UpdateServer, ResetServer, InferServer, PostFails,
        Rendezvous, Broadcast, ServerStep, Finish, Lifespan
  <2>2. QED
    BY <1>2, <2>1
<1>18. ASSUME NEW e \in Engines, WorkerStep(e)
       PROVE  UNCHANGED Service!vars
  <2>1. UNCHANGED clientVars
    BY <1>18, Zenon DEF WorkerStep, Start, Raise, Load, Reset, Infer, Close
  <2>2. QED
    BY <1>2, <2>1
<1>19. CASE UNCHANGED vars
  <2>1. UNCHANGED clientVars
    BY <1>19, Zenon DEF vars
  <2>2. QED
    BY <1>2, <2>1
<1>20. QED
  BY <1>4, <1>5, <1>6, <1>7, <1>8, <1>9, <1>10, <1>11, <1>12, <1>14, <1>15, <1>16,
      <1>17, <1>18, <1>19 DEF Next, ClientStep

(* As long as no worker fails at loading a bucket or at dropping its cache  *)
(* (the client does not hear of either), the client and its servers are the *)
(* service the trainer relies on: each answer comes from the weights sent  *)
(* last and from nothing else, also with requests that fail, trainers that *)
(* are killed outside an update (KillIn) and others that connect after     *)
(* them.  One killed inside an update leaves the workers in a broadcast    *)
(* without its root: neither the model nor the theorem goes on from there. *)
THEOREM ImplementsServiceAlways ==
    ASSUME Reliable
    PROVE  Spec => ImplementsService
<1>1. IInv /\ [Next]_vars => [Service!Next]_(Service!vars)
  BY ServiceStep
<1>2. QED
  BY <1>1, ServiceInit, Invariance, PTL DEF Spec, ImplementsService, Service!Spec

=============================================================================
