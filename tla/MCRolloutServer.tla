--------------------------- MODULE MCRolloutServer ---------------------------
(***************************************************************************)
(* RolloutServer with two kinds of faults in one run: those after which    *)
(* every call still returns, and the loss of a request to leave the        *)
(* communicator, which is only logged.  Which of them may happen is chosen *)
(* in the initial state and kept.                                          *)
(***************************************************************************)
EXTENDS RolloutServer

(* What may go wrong in this behaviour. *)
VARIABLE fault

Setups ==
    { [faults |-> {"timeout", "post", "infer"}, requests |-> MaxRequests,
       kill |-> {"connect", "idle", "reset", "infer", "exit"}],
      [faults |-> {"close"}, requests |-> 2, kill |-> {"idle"}] }

With(f) == INSTANCE RolloutServer WITH
    Faults <- f.faults, KillIn <- f.kill, MaxRequests <- f.requests

Kept(f) == fault = f /\ fault' = f

MCInit == \E f \in Setups : fault = f /\ With(f)!Init

MCClient == \E f \in Setups : Kept(f) /\ With(f)!ClientStep
MCThread(s) == \E f \in Setups : Kept(f) /\ With(f)!ThreadStep(s)
MCServer(s) == \E f \in Setups : Kept(f) /\ With(f)!ServerStep(s)
MCWorker(e) == \E f \in Setups : Kept(f) /\ With(f)!WorkerStep(e)
MCTrainer == \E f \in Setups :
    /\ Kept(f)
    /\ \/ With(f)!MoveModel \/ With(f)!InferCall
       \/ With(f)!Exit \/ With(f)!Kill \/ With(f)!Restart

MCNext ==
    \/ MCClient \/ MCTrainer
    \/ \E s \in 1..Servers : MCThread(s) \/ MCServer(s)
    \/ \E e \in Engines : MCWorker(e)

MCvars == <<vars, fault>>

MCSpec ==
    /\ MCInit /\ [][MCNext]_MCvars
    /\ WF_MCvars(MCClient)
    /\ \A s \in 1..Servers : WF_MCvars(MCThread(s)) /\ WF_MCvars(MCServer(s))
    /\ \A e \in Engines : WF_MCvars(MCWorker(e))

-----------------------------------------------------------------------------
(* CallsReturn, as long as no request to leave the communicator is lost:   *)
(* a worker that still is in its predecessor's communicator refuses to     *)
(* join another one, and the trainer waits for it. *)
CallsReturnUnlessKept ==
    /\ "close" \notin fault.faults
    /\ call \in {"connect", "close", "init", "update", "reset", "infer",
                 "exit"}
    ~> call \in {"idle", "over"}

=============================================================================
