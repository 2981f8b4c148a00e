---------------------------- MODULE AsyncRollout ----------------------------
(***************************************************************************)
(* The rollout pipeline of the GRPO trainer: every training process (rank) *)
(* runs a main thread, a one-worker executor that generates the next batch *)
(* while the current one is trained on, and two queues that carry finished *)
(* rollouts back.  Rank Main is the only one that talks to the rollout     *)
(* server; the others contribute empty results to the same collectives.    *)
(*                                                                         *)
(* Sources: swift/rlhf_trainers/rollout_mixin.py (the pipeline),           *)
(* swift/rlhf_trainers/grpo_trainer.py (its caller), and                   *)
(* swift/trainers/patcher.py (when an evaluation is due).  The training    *)
(* loop around them belongs to transformers and is modelled from the hooks *)
(* the code implements.                                                    *)
(***************************************************************************)
EXTENDS Integers, Sequences, FiniteSets

CONSTANTS
    Ranks,          \* the training processes
    Main,           \* the main process
    Async,          \* args.async_generate
    MayFail,        \* whether a rollout task may raise
    EvalOnStart,    \* args.eval_on_start of the training loop
    MaxSteps,       \* state.max_steps: optimizer steps of the run
    GradAccum,      \* args.gradient_accumulation_steps
    GenerateEvery,  \* steps_per_generation * num_iterations, in micro-steps
    EvalSteps,      \* global steps after which an evaluation is due
    EpochEnds,      \* global steps that end an epoch, if evaluating by epoch
    StopStep,       \* global step that ends epoch args.max_epochs; 0 if unset
    EvalBatches,    \* batches of one evaluation
    MaxResample     \* args.max_resample_times; 0 without dynamic sampling

ASSUME RolloutAssumption ==
    /\ Main \in Ranks
    /\ {Async, MayFail, EvalOnStart} \subseteq BOOLEAN
    /\ {MaxSteps, GradAccum, GenerateEvery, EvalBatches} \subseteq Nat \ {0}
    /\ EvalSteps \subseteq Nat /\ EpochEnds \subseteq Nat /\ StopStep \in Nat
    /\ EvalSteps = {} \/ EpochEnds = {}    \* eval_strategy is one of the two
    /\ MaxResample \in Nat

VARIABLES
    pc,             \* where each rank's main thread is
    caller,         \* which hook started the current evaluation
    globalStep,     \* state.global_step
    microStep,      \* self._step
    lastLoaded,     \* self._last_loaded_step
    evaluating,     \* inside evaluation_loop
    shouldEvaluate, \* control.should_evaluate
    evalFlag,       \* self.eval_flag
    evalIdx,        \* batches of the current evaluation already started
    resampled,      \* resample_count of the current generation
    queue,          \* train_queue and eval_queue
    pool,           \* tasks submitted to self.executor and not finished
    busy,           \* the executor's worker is running the head of pool
    issued,         \* rollouts requested so far, which names the next one
    got,            \* the rollout taken from the queue most recently
    engine,         \* version of the weights in the rollout engine
    lost            \* some rollout task has raised

rankVars == <<caller, globalStep, microStep, evaluating, shouldEvaluate,
              evalFlag, evalIdx, resampled>>
flowVars == <<queue, pool, busy, issued, got, lost>>
syncVars == <<lastLoaded, engine>>
vars == <<pc, rankVars, flowVars, syncVars>>

-----------------------------------------------------------------------------
Datasets == {"train", "eval"}

\* The engine starts from load_format 'dummy': no step's weights.
Dummy == -1

\* A rollout: its number, the queue it goes back to, the dataset its prompts
\* come from, and the version of the weights that generated it.
Rollout == [id : Nat, dest : Datasets, of : Datasets, weights : Int]

NoRollout == [id |-> 0, dest |-> "train", of |-> "train", weights |-> Dummy]

\* The places that call a collective, and what the ranks exchange in it.
ExchangePoints == {"pf_messages", "messages", "pf_inputs", "inputs",
                   "requests", "results"}

Exchange(l) == CASE l \in {"pf_messages", "messages"} -> "messages"
                 [] l \in {"pf_inputs", "inputs"}     -> "inputs"
                 [] OTHER                             -> l

Locations == ExchangePoints \cup
    {"train_begin", "pf_sync", "pf_infer", "train_step", "sync", "submit",
     "get", "backward", "step_end", "epoch_end", "eval_wait", "eval_batch",
     "done"}

TypeOK ==
    /\ pc \in [Ranks -> Locations]
    /\ caller \in [Ranks -> {"start", "step", "epoch"}]
    /\ globalStep \in [Ranks -> Nat]
    /\ microStep \in [Ranks -> Nat]
    /\ lastLoaded \in [Ranks -> Int]
    /\ evaluating \in [Ranks -> BOOLEAN]
    /\ shouldEvaluate \in [Ranks -> BOOLEAN]
    /\ evalFlag \in [Ranks -> BOOLEAN]
    /\ evalIdx \in [Ranks -> Nat]
    /\ resampled \in [Ranks -> Nat]
    /\ queue \in [Ranks -> [Datasets -> Seq(Rollout)]]
    /\ pool \in [Ranks -> Seq(Rollout)]
    /\ busy \in [Ranks -> BOOLEAN]
    /\ issued \in [Ranks -> Nat]
    /\ got \in [Ranks -> Rollout]
    /\ engine \in Int
    /\ lost \in BOOLEAN

-----------------------------------------------------------------------------
At(r, l) == pc[r] = l
Goto(r, l) == pc' = [pc EXCEPT ![r] = l]

\* Property _queue.
CurrentQueue(r) == IF shouldEvaluate[r] THEN "eval" ELSE "train"
Waiting(r) == queue[r][CurrentQueue(r)]

\* The prompts handed to the engine: of the dataset being iterated.
NewRollout(r, w) == [id |-> issued[r] + 1, dest |-> CurrentQueue(r),
                     of |-> IF evaluating[r] THEN "eval" ELSE "train",
                     weights |-> IF r = Main THEN w ELSE Dummy]

Init ==
    /\ pc = [r \in Ranks |-> IF Async THEN "train_begin"
                             ELSE IF EvalOnStart THEN "eval_wait"
                             ELSE "train_step"]
    /\ caller = [r \in Ranks |-> "start"]
    /\ globalStep = [r \in Ranks |-> 0]
    /\ microStep = [r \in Ranks |-> 0]
    /\ lastLoaded = [r \in Ranks |-> -1]
    /\ evaluating = [r \in Ranks |-> FALSE]
    /\ shouldEvaluate = [r \in Ranks |-> FALSE]
    /\ evalFlag = [r \in Ranks |-> FALSE]
    /\ evalIdx = [r \in Ranks |-> 0]
    /\ resampled = [r \in Ranks |-> 0]
    /\ queue = [r \in Ranks |-> [d \in Datasets |-> <<>>]]
    /\ pool = [r \in Ranks |-> <<>>]
    /\ busy = [r \in Ranks |-> FALSE]
    /\ issued = [r \in Ranks |-> 0]
    /\ got = [r \in Ranks |-> NoRollout]
    /\ engine = Dummy
    /\ lost = FALSE

-----------------------------------------------------------------------------
(* Collectives.  The n-th call of every rank meets the n-th call of the     *)
(* others whatever code it was made from, so a collective takes place when  *)
(* every rank has reached one that exchanges the same thing.                *)

Meet(kind) ==
    \A r \in Ranks : pc[r] \in ExchangePoints /\ Exchange(pc[r]) = kind

\* _preprocess_inputs gathers the messages to number the prompts.
GatherMessages ==
    /\ Meet("messages")
    /\ pc' = [r \in Ranks |-> IF At(r, "messages") THEN "sync"
                              ELSE "pf_inputs"]
    /\ UNCHANGED <<rankVars, flowVars, syncVars>>

\* Every rank holds the global batch before it hands it to the executor.
GatherInputs ==
    /\ Meet("inputs")
    /\ pc' = [r \in Ranks |-> IF At(r, "inputs") THEN "submit" ELSE "pf_sync"]
    /\ UNCHANGED <<rankVars, flowVars, syncVars>>

\* Synchronous rollout: gather the requests, generate on Main.
GatherRequests ==
    /\ Meet("requests")
    /\ got' = [r \in Ranks |-> NewRollout(r, engine)]
    /\ issued' = [r \in Ranks |-> issued[r] + 1]
    /\ pc' = [r \in Ranks |-> "results"]
    /\ UNCHANGED <<rankVars, queue, pool, busy, lost, syncVars>>

\* Mutant: counts the resampling budget down from zero.
ShareResults_CountsDown ==
    /\ Meet("results")
    /\ \E again \in BOOLEAN :
        /\ again => \A r \in Ranks : ~evaluating[r] /\ resampled[r] < MaxResample
        /\ resampled' = [r \in Ranks |-> IF again THEN resampled[r] - 1 ELSE 0]
        /\ pc' = [r \in Ranks |-> IF again THEN "messages"
                                  ELSE IF evaluating[r] THEN "eval_batch"
                                  ELSE "backward"]
    /\ UNCHANGED <<caller, globalStep, microStep, evaluating, shouldEvaluate,
                   evalFlag, evalIdx, flowVars, syncVars>>

\* Mutant: each rank looks at the rewards of its own groups only.
ShareResults_LocalGroups ==
    /\ Meet("results")
    /\ \E again \in [Ranks -> BOOLEAN] :
        /\ \A r \in Ranks :
              again[r] => ~evaluating[r] /\ resampled[r] < MaxResample
        /\ resampled' = [r \in Ranks |-> IF again[r] THEN resampled[r] + 1 ELSE 0]
        /\ pc' = [r \in Ranks |-> IF again[r] THEN "messages"
                                  ELSE IF evaluating[r] THEN "eval_batch"
                                  ELSE "backward"]
    /\ UNCHANGED <<caller, globalStep, microStep, evaluating, shouldEvaluate,
                   evalFlag, evalIdx, flowVars, syncVars>>

\* Every rank receives its slice of the rollout.  Training may find too few
\* groups with a reward variance and generate again (_dynamic_sampling); the
\* groups are gathered, so all ranks decide alike.
ShareResults ==
    /\ Meet("results")
    /\ \E again \in BOOLEAN :
        /\ again => \A r \in Ranks : ~evaluating[r] /\ resampled[r] < MaxResample
        /\ resampled' = [r \in Ranks |-> IF again THEN resampled[r] + 1 ELSE 0]
        /\ pc' = [r \in Ranks |-> IF again THEN "messages"
                                  ELSE IF evaluating[r] THEN "eval_batch"
                                  ELSE "backward"]
    /\ UNCHANGED <<caller, globalStep, microStep, evaluating, shouldEvaluate,
                   evalFlag, evalIdx, flowVars, syncVars>>

Collective == GatherMessages \/ GatherInputs \/ GatherRequests \/ ShareResults

-----------------------------------------------------------------------------
(* Weight synchronisation and prefetch.                                     *)

LoadWeights(r) ==
    /\ lastLoaded' = [lastLoaded EXCEPT ![r] = globalStep[r]]
    /\ engine' = IF r = Main THEN globalStep[r] ELSE engine

\* AsyncGenerateCallback.on_train_begin starts a prefetch.
TrainBegin(r) ==
    /\ At(r, "train_begin")
    /\ Goto(r, "pf_messages")
    /\ UNCHANGED <<rankVars, flowVars, syncVars>>

\* _prefetch loads the weights without waiting for the queue.
PrefetchSync(r) ==
    /\ At(r, "pf_sync")
    /\ IF globalStep[r] # lastLoaded[r] THEN LoadWeights(r)
                                        ELSE UNCHANGED syncVars
    /\ Goto(r, "pf_infer")
    /\ UNCHANGED <<rankVars, flowVars>>

\* _prefetch generates in the main thread and queues the result itself.
PrefetchInfer(r) ==
    /\ At(r, "pf_infer")
    /\ queue' = [queue EXCEPT ![r][CurrentQueue(r)] =
                                Append(@, NewRollout(r, engine))]
    /\ issued' = [issued EXCEPT ![r] = @ + 1]
    /\ Goto(r, IF evaluating[r] THEN "eval_batch"
               ELSE IF EvalOnStart THEN "eval_wait" ELSE "train_step")
    /\ UNCHANGED <<rankVars, pool, busy, got, lost, syncVars>>

\* Mutant: does not wait for the rollout in flight.
Sync_NoWait(r) ==
    /\ At(r, "sync")
    /\ IF globalStep[r] # lastLoaded[r] THEN LoadWeights(r)
                                        ELSE UNCHANGED syncVars
    /\ Goto(r, IF Async THEN "inputs" ELSE "requests")
    /\ UNCHANGED <<rankVars, flowVars>>

\* Mutant: loads the weights once and takes them for current afterwards.
Sync_Once(r) ==
    /\ At(r, "sync")
    /\ IF lastLoaded[r] = -1 THEN LoadWeights(r) ELSE UNCHANGED syncVars
    /\ Goto(r, IF Async THEN "inputs" ELSE "requests")
    /\ UNCHANGED <<rankVars, flowVars>>

\* _move_model_to_vllm, reached from _fast_infer: once per optimizer step,
\* and with async_generate only when the current queue holds a result.
Sync(r) ==
    /\ At(r, "sync")
    /\ \/ globalStep[r] = lastLoaded[r] /\ UNCHANGED syncVars
       \/ /\ globalStep[r] # lastLoaded[r]
          /\ Async => Waiting(r) # <<>>
          /\ LoadWeights(r)
    /\ Goto(r, IF Async THEN "inputs" ELSE "requests")
    /\ UNCHANGED <<rankVars, flowVars>>

-----------------------------------------------------------------------------
(* The asynchronous rollout.                                                *)

Submit(r) ==
    /\ At(r, "submit")
    /\ pool' = [pool EXCEPT ![r] = Append(@, NewRollout(r, Dummy))]
    /\ issued' = [issued EXCEPT ![r] = @ + 1]
    /\ Goto(r, "get")
    /\ UNCHANGED <<rankVars, queue, busy, got, lost, syncVars>>

\* Mutant: takes the newest result.
Get_Newest(r) ==
    /\ At(r, "get")
    /\ Waiting(r) # <<>>
    /\ got' = [got EXCEPT ![r] = Waiting(r)[Len(Waiting(r))]]
    /\ queue' = [queue EXCEPT ![r][CurrentQueue(r)] = SubSeq(@, 1, Len(@) - 1)]
    /\ Goto(r, "results")
    /\ UNCHANGED <<rankVars, pool, busy, issued, lost, syncVars>>

\* self._queue.get() blocks while the queue is empty.
Get(r) ==
    /\ At(r, "get")
    /\ Waiting(r) # <<>>
    /\ got' = [got EXCEPT ![r] = Head(Waiting(r))]
    /\ queue' = [queue EXCEPT ![r][CurrentQueue(r)] = Tail(@)]
    /\ Goto(r, "results")
    /\ UNCHANGED <<rankVars, pool, busy, issued, lost, syncVars>>

\* The single worker takes the oldest task; Main's reaches the engine.
StartTask(r) ==
    /\ pool[r] # <<>> /\ ~busy[r]
    /\ busy' = [busy EXCEPT ![r] = TRUE]
    /\ pool' = [pool EXCEPT ![r][1].weights = IF r = Main THEN engine ELSE @]
    /\ UNCHANGED <<pc, rankVars, queue, issued, got, lost, syncVars>>

\* Mutant: looks the queue up when the task is done.
FinishTask_LateQueue(r) ==
    /\ busy[r]
    /\ busy' = [busy EXCEPT ![r] = FALSE]
    /\ pool' = [pool EXCEPT ![r] = Tail(@)]
    /\ queue' = [queue EXCEPT ![r][CurrentQueue(r)] = Append(@, Head(pool[r]))]
    /\ UNCHANGED <<pc, rankVars, issued, got, lost, syncVars>>

\* done() puts the result into the queue captured at submission.
FinishTask(r) ==
    /\ busy[r]
    /\ busy' = [busy EXCEPT ![r] = FALSE]
    /\ pool' = [pool EXCEPT ![r] = Tail(@)]
    /\ queue' = [queue EXCEPT ![r][Head(pool[r]).dest] = Append(@, Head(pool[r]))]
    /\ UNCHANGED <<pc, rankVars, issued, got, lost, syncVars>>

\* The engine raises: done() logs the exception and queues nothing.
FailTask(r) ==
    /\ MayFail /\ r = Main /\ busy[r]
    /\ busy' = [busy EXCEPT ![r] = FALSE]
    /\ pool' = [pool EXCEPT ![r] = Tail(@)]
    /\ lost' = TRUE
    /\ UNCHANGED <<pc, rankVars, queue, issued, got, syncVars>>

Worker(r) == StartTask(r) \/ FinishTask(r) \/ FailTask(r)

-----------------------------------------------------------------------------
(* The trainer's loop.                                                      *)

\* training_step waits for the evaluation's last rollout, then
\* _prepare_inputs generates every GenerateEvery micro-steps.
TrainStep(r) ==
    /\ At(r, "train_step")
    /\ Async => (evalFlag[r] => queue[r]["eval"] # <<>>)
    /\ Goto(r, IF microStep[r] % GenerateEvery = 0 THEN "messages"
               ELSE "backward")
    /\ UNCHANGED <<rankVars, flowVars, syncVars>>

\* Forward and backward of one micro-batch; the optimizer steps after
\* GradAccum of them.
Backward(r) ==
    /\ At(r, "backward")
    /\ microStep' = [microStep EXCEPT ![r] = @ + 1]
    /\ IF (microStep[r] + 1) % GradAccum = 0
       THEN /\ globalStep' = [globalStep EXCEPT ![r] = @ + 1]
            /\ Goto(r, "step_end")
       ELSE /\ Goto(r, "train_step")
            /\ UNCHANGED globalStep
    /\ UNCHANGED <<caller, evaluating, shouldEvaluate, evalFlag, evalIdx,
                   resampled, flowVars, syncVars>>

\* eval_strategy is not 'no'.
Evaluates == EvalSteps \cup EpochEnds # {}

Evaluate(r, hook) ==
    /\ shouldEvaluate' = [shouldEvaluate EXCEPT ![r] = TRUE]
    /\ caller' = [caller EXCEPT ![r] = hook]
    /\ Goto(r, "eval_wait")

\* on_step_end: an evaluation is also due after the last step of a run that
\* evaluates at all.
StepEnd(r) ==
    /\ At(r, "step_end")
    /\ IF \/ globalStep[r] \in EvalSteps
          \/ globalStep[r] = MaxSteps /\ Evaluates
       THEN Evaluate(r, "step")
       ELSE Goto(r, "epoch_end") /\ UNCHANGED <<caller, shouldEvaluate>>
    /\ UNCHANGED <<globalStep, microStep, evaluating, evalFlag, evalIdx,
                   resampled, flowVars, syncVars>>

\* should_training_stop: after max_steps, or after max_epochs.
LastStep(r) == globalStep[r] >= MaxSteps \/ globalStep[r] = StopStep

NextStep(r) == IF LastStep(r) THEN "done" ELSE "train_step"

\* on_epoch_end: an evaluation is due with eval_strategy 'epoch', and when
\* max_epochs ends a run that evaluates at all.
EpochEnd(r) ==
    /\ At(r, "epoch_end")
    /\ IF globalStep[r] \in EpochEnds \/ (globalStep[r] = StopStep /\ Evaluates)
       THEN Evaluate(r, "epoch")
       ELSE Goto(r, NextStep(r)) /\ UNCHANGED <<caller, shouldEvaluate>>
    /\ UNCHANGED <<globalStep, microStep, evaluating, evalFlag, evalIdx,
                   resampled, flowVars, syncVars>>

\* Mutant: prefetches for every evaluation.
EvalWait_AlwaysPrefetch(r) ==
    /\ At(r, "eval_wait")
    /\ Async => queue[r]["train"] # <<>>
    /\ evaluating' = [evaluating EXCEPT ![r] = TRUE]
    /\ Goto(r, IF Async THEN "pf_messages" ELSE "eval_batch")
    /\ UNCHANGED <<caller, globalStep, microStep, shouldEvaluate, evalFlag,
                   evalIdx, resampled, flowVars, syncVars>>

\* evaluation_loop waits for the training rollout in flight and prefetches
\* when the current queue is empty.
EvalWait(r) ==
    /\ At(r, "eval_wait")
    /\ Async => queue[r]["train"] # <<>>
    /\ evaluating' = [evaluating EXCEPT ![r] = TRUE]
    /\ Goto(r, IF Async /\ Waiting(r) = <<>> THEN "pf_messages"
               ELSE "eval_batch")
    /\ UNCHANGED <<caller, globalStep, microStep, shouldEvaluate, evalFlag,
                   evalIdx, resampled, flowVars, syncVars>>

\* One prediction step generates for one batch.
EvalBatch(r) ==
    /\ At(r, "eval_batch")
    /\ evalIdx[r] < EvalBatches
    /\ evalIdx' = [evalIdx EXCEPT ![r] = @ + 1]
    /\ Goto(r, "messages")
    /\ UNCHANGED <<caller, globalStep, microStep, evaluating, shouldEvaluate,
                   evalFlag, resampled, flowVars, syncVars>>

\* evaluation_loop sets eval_flag, the loop clears should_evaluate.
EvalEnd(r) ==
    /\ At(r, "eval_batch")
    /\ evalIdx[r] = EvalBatches
    /\ evalIdx' = [evalIdx EXCEPT ![r] = 0]
    /\ evaluating' = [evaluating EXCEPT ![r] = FALSE]
    /\ evalFlag' = [evalFlag EXCEPT ![r] = TRUE]
    /\ shouldEvaluate' = [shouldEvaluate EXCEPT ![r] = FALSE]
    /\ Goto(r, CASE caller[r] = "start" -> "train_step"
                 [] caller[r] = "step"  -> "epoch_end"
                 [] caller[r] = "epoch" -> NextStep(r))
    /\ UNCHANGED <<caller, globalStep, microStep, resampled, flowVars, syncVars>>

MainThread(r) ==
    \/ TrainBegin(r) \/ PrefetchSync(r) \/ PrefetchInfer(r)
    \/ Sync(r) \/ Submit(r) \/ Get(r)
    \/ TrainStep(r) \/ Backward(r) \/ StepEnd(r) \/ EpochEnd(r)
    \/ EvalWait(r) \/ EvalBatch(r) \/ EvalEnd(r)

\* The run is over; the executor may still be finishing a rollout.
Finished == (\A r \in Ranks : At(r, "done")) /\ UNCHANGED vars

Next ==
    \/ Collective
    \/ \E r \in Ranks : MainThread(r) \/ Worker(r)
    \/ Finished

Spec == Init /\ [][Next]_vars

\* Threads and processes are scheduled, and the engine answers or raises.
Fairness ==
    /\ WF_vars(Collective)
    /\ \A r \in Ranks : WF_vars(MainThread(r)) /\ WF_vars(Worker(r))

FairSpec == Spec /\ Fairness

-----------------------------------------------------------------------------
(* Properties.                                                              *)

\* The engine's weights change only while no rollout is running or waiting
\* to run on it: _wait_queue in _move_model_to_vllm, and the waits of
\* evaluation_loop and training_step around an evaluation, guarantee it.
NoSyncDuringRollout ==
    [][engine' # engine => pool[Main] = <<>>]_engine

\* A rollout is generated by weights some synchronisation loaded, never by
\* the engine's dummy ones: while it runs, waits, and is handed out.
NeverDummyWeights ==
    /\ \A d \in Datasets : \A i \in DOMAIN queue[Main][d] :
          queue[Main][d][i].weights # Dummy
    /\ busy[Main] => pool[Main][1].weights # Dummy
    /\ At(Main, "results") => got[Main].weights # Dummy

\* How many optimizer steps may pass between two generations.
Lag == IF Async THEN (GenerateEvery + GradAccum - 1) \div GradAccum ELSE 0

\* A training batch comes from the weights of this generation's step, or with
\* async_generate of the previous generation's, however evaluations and
\* resampling intervene.
TrainLag ==
    At(Main, "results") /\ ~evaluating[Main]
        => globalStep[Main] - got[Main].weights \in 0..Lag

\* The same bound for evaluation batches.
EvalLag ==
    At(Main, "results") /\ evaluating[Main]
        => globalStep[Main] - got[Main].weights \in 0..Lag

\* Evaluation generates for each batch, with the weights being evaluated.
EvalFresh ==
    At(Main, "results") /\ evaluating[Main]
        => globalStep[Main] = got[Main].weights

\* Training and evaluation consume rollouts of their own prompts.
OwnPrompts ==
    \A r \in Ranks : At(r, "results") =>
        got[r].of = (IF evaluating[r] THEN "eval" ELSE "train")

\* Every rank contributes to the same rollout, unless one was lost: the slices
\* of one generation come from one submission although each rank takes from
\* its own queue.
SameRollout ==
    ~lost => \A r, s \in Ranks : At(r, "results") /\ At(s, "results")
                                    => got[r].id = got[s].id

\* What the ranks take from their queues belongs to one submission and to the
\* loop that takes it.
RightRollout == SameRollout /\ OwnPrompts

\* When all ranks have reached a collective, they exchange the same thing.
Aligned ==
    (\A r \in Ranks : pc[r] \in ExchangePoints)
        => \A r, s \in Ranks : Exchange(pc[r]) = Exchange(pc[s])

\* Rollouts requested for a queue and not yet taken from it.
Outstanding(r, d) ==
    Len(queue[r][d]) + Cardinality({i \in DOMAIN pool[r] : pool[r][i].dest = d})

\* The pipeline is one rollout deep: a queue is never owed more than one
\* result, two between a submission and the get that follows it.
OneAhead ==
    \A r \in Ranks, d \in Datasets :
        Outstanding(r, d) <= IF At(r, "get") /\ CurrentQueue(r) = d THEN 2 ELSE 1

\* Training ends, unless a rollout was lost: no rank waits for ever for a
\* queue, the executor or another rank.
TrainingEnds == <>(lost \/ \A r \in Ranks : At(r, "done"))

\* Training gets past its first optimizer step.
TrainingStarts == <>(\A r \in Ranks : globalStep[r] > 0)
=============================================================================
