--------------------------- MODULE MCAsyncRollout ---------------------------
(***************************************************************************)
(* AsyncRollout under several sets of arguments in one run.  The arguments *)
(* are chosen in the initial state and kept; the module is instantiated    *)
(* with the ones chosen.                                                   *)
(***************************************************************************)
EXTENDS AsyncRollout

(* The arguments the run was started with. *)
VARIABLE args

(* Rollouts that divide into optimizer steps, with an evaluation between   *)
(* two trainings; rollouts that do not, whose tasks may raise; and         *)
(* synchronous rollouts, evaluated on start and at the end of epochs, until *)
(* max_epochs. *)
Arguments ==
    { [async |-> TRUE, mayFail |-> FALSE, onStart |-> FALSE, every |-> 2,
       maxSteps |-> 4, evalSteps |-> {1}, epochEnds |-> {}, stop |-> 0],
      [async |-> TRUE, mayFail |-> TRUE, onStart |-> FALSE, every |-> 3,
       maxSteps |-> 5, evalSteps |-> {2}, epochEnds |-> {}, stop |-> 0],
      [async |-> FALSE, mayFail |-> FALSE, onStart |-> TRUE, every |-> 2,
       maxSteps |-> 5, evalSteps |-> {}, epochEnds |-> {2, 4}, stop |-> 4] }

With(a) == INSTANCE AsyncRollout WITH
    Async <- a.async, MayFail <- a.mayFail, EvalOnStart <- a.onStart,
    GenerateEvery <- a.every, MaxSteps <- a.maxSteps,
    EvalSteps <- a.evalSteps, EpochEnds <- a.epochEnds, StopStep <- a.stop

Started(a) == args = a /\ args' = a

MCInit == \E a \in Arguments : args = a /\ With(a)!Init

MCCollective == \E a \in Arguments : Started(a) /\ With(a)!Collective
MCMainThread(r) == \E a \in Arguments : Started(a) /\ With(a)!MainThread(r)
MCWorker(r) == \E a \in Arguments : Started(a) /\ With(a)!Worker(r)

MCNext ==
    \/ MCCollective
    \/ \E r \in Ranks : MCMainThread(r) \/ MCWorker(r)
    \/ Finished /\ UNCHANGED args

MCSpec ==
    /\ MCInit /\ [][MCNext]_<<vars, args>>
    /\ WF_<<vars, args>>(MCCollective)
    /\ \A r \in Ranks :
        WF_<<vars, args>>(MCMainThread(r)) /\ WF_<<vars, args>>(MCWorker(r))

-----------------------------------------------------------------------------
(* No rollout comes from the engine's dummy weights; no training batch from *)
(* weights more optimizer steps old than the generation schedule of the    *)
(* arguments allows; and, when rollouts are synchronous, no batch of an    *)
(* evaluation from weights other than those it evaluates. *)
RightWeights ==
    /\ NeverDummyWeights
    /\ \A a \in Arguments : args = a => With(a)!TrainLag
    /\ ~args.async => EvalFresh

=============================================================================
