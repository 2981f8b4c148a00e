--------------------------- MODULE RolloutService ---------------------------
(***************************************************************************)
(* What the trainer relies on when it talks to its rollout servers: one    *)
(* copy of the weights that is replaced as a whole, and answers that are   *)
(* complete, in the order of the requests and generated by those weights   *)
(* alone, whatever servers, worker processes, parameter buckets and prefix *)
(* caches there are.  A call either returns or fails, and after a failure  *)
(* the trainer makes no other call.                                        *)
(*                                                                         *)
(* RolloutServer, which models the client and the servers, implements it.  *)
(***************************************************************************)
EXTENDS Integers, Sequences

CONSTANTS
    MaxVersion,     \* how often the trainer sends new weights
    MaxRequests     \* the most requests of one call

VARIABLES
    service,        \* what the trainer is waiting for
    version,        \* the weights it has sent
    loaded,         \* this trainer has sent weights before
    size,           \* the number of requests of the call
    answer          \* the completions of the last call that returned

vars == <<service, version, loaded, size, answer>>

(* A completion answers a request and comes from a set of weights. *)
Answers(n, v) == [i \in 1..n |-> [request |-> i, from |-> {v}]]

Init ==
    /\ service = "none"
    /\ version = 0
    /\ loaded = FALSE
    /\ size = 0
    /\ answer = <<>>

Connected ==
    /\ service = "none"
    /\ service' = "idle"
    /\ UNCHANGED <<version, loaded, size, answer>>

SyncCall ==
    /\ service = "idle"
    /\ version < MaxVersion
    /\ service' = "sync"
    /\ version' = version + 1
    /\ answer' = <<>>
    /\ UNCHANGED <<loaded, size>>

SyncReturn ==
    /\ service = "sync"
    /\ service' = "idle"
    /\ loaded' = TRUE
    /\ UNCHANGED <<version, size, answer>>

InferCall ==
    /\ service = "idle"
    /\ loaded
    /\ service' = "infer"
    /\ size' \in 1..MaxRequests
    /\ answer' = <<>>
    /\ UNCHANGED <<version, loaded>>

InferReturn ==
    /\ service = "infer"
    /\ service' = "idle"
    /\ answer' = Answers(size, version)
    /\ UNCHANGED <<version, loaded, size>>

Fail ==
    /\ service \in {"none", "sync", "infer"}
    /\ service' = "over"
    /\ UNCHANGED <<version, loaded, size, answer>>

Leave ==
    /\ service = "idle"
    /\ service' = "over"
    /\ UNCHANGED <<version, loaded, size, answer>>

(* Another trainer connects to the same servers, with weights of its own. *)
Restart ==
    /\ service = "over"
    /\ service' = "none"
    /\ loaded' = FALSE
    /\ answer' = <<>>
    /\ UNCHANGED <<version, size>>

Next ==
    \/ Connected
    \/ SyncCall
    \/ SyncReturn
    \/ InferCall
    \/ InferReturn
    \/ Fail
    \/ Leave
    \/ Restart

Spec == Init /\ [][Next]_vars

=============================================================================
