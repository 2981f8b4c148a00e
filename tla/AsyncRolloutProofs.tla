------------------------- MODULE AsyncRolloutProofs -------------------------
(***************************************************************************)
(* Proofs about AsyncRollout, for every value of its constants.            *)
(***************************************************************************)
EXTENDS AsyncRollout, SequenceTheorems, FiniteSetTheorems, TLAPS

-----------------------------------------------------------------------------
(* Facts about the sequences of rollouts that the queues and the executor   *)
(* hold.                                                                    *)

\* Replacing the oldest element keeps the type and the length.
LEMMA HeadReplaced ==
    ASSUME NEW s \in Seq(Rollout), s # <<>>, NEW w \in Int
    PROVE  /\ [s EXCEPT ![1].weights = w] \in Seq(Rollout)
           /\ Len([s EXCEPT ![1].weights = w]) = Len(s)
           /\ \A i \in 1..Len(s) :
                 /\ [s EXCEPT ![1].weights = w][i].dest = s[i].dest
                 /\ [s EXCEPT ![1].weights = w][i].of = s[i].of
                 /\ [s EXCEPT ![1].weights = w][i].id = s[i].id
<1> DEFINE e == [s[1] EXCEPT !.weights = w]
<1>1. 1 \in 1..Len(s)
  BY EmptySeq
<1>2. s[1] \in Rollout
  BY <1>1, ElementOfSeq
<1>3. e \in Rollout /\ e.dest = s[1].dest /\ e.of = s[1].of /\ e.id = s[1].id
  BY <1>2 DEF Rollout
<1>4. [s EXCEPT ![1].weights = w] = [s EXCEPT ![1] = e]
  OBVIOUS
<1>5. QED
  BY <1>1, <1>3, <1>4, ExceptSeq DEF Rollout

LEMMA NewRolloutType ==
    ASSUME TypeOK, NEW r \in Ranks, NEW w \in Int
    PROVE  /\ NewRollout(r, w) \in Rollout
           /\ CurrentQueue(r) \in Datasets
           /\ NewRollout(r, w).dest = CurrentQueue(r)
  BY DEF TypeOK, NewRollout, CurrentQueue, Rollout, Datasets, Dummy

-----------------------------------------------------------------------------
\* A busy worker has a task.
BusyOK == \A r \in Ranks : busy[r] => pool[r] # <<>>

LEMMA TakenTask ==
    ASSUME TypeOK, BusyOK, NEW r \in Ranks, busy[r]
    PROVE  /\ Head(pool[r]) \in Rollout
           /\ Head(pool[r]).dest \in Datasets
           /\ Tail(pool[r]) \in Seq(Rollout)
           /\ Len(Tail(pool[r])) = Len(pool[r]) - 1
<1>1. pool[r] \in Seq(Rollout) /\ pool[r] # <<>>
  BY DEF TypeOK, BusyOK
<1>2. Head(pool[r]) \in Rollout
  BY <1>1, HeadTailProperties
<1>3. QED
  BY <1>1, <1>2, HeadTailProperties DEF Rollout

LEMMA StartedTask ==
    ASSUME TypeOK, NEW r \in Ranks, StartTask(r)
    PROVE  \E w \in Int :
             pool' = [pool EXCEPT ![r] = [pool[r] EXCEPT ![1].weights = w]]
<1> DEFINE w == IF r = Main THEN engine ELSE pool[r][1].weights
<1>1. pool[r] \in Seq(Rollout) /\ pool[r] # <<>> /\ engine \in Int
  BY DEF TypeOK, StartTask
<1>2. pool[r][1] \in Rollout
  BY <1>1, EmptySeq, ElementOfSeq
<1>3. w \in Int
  BY <1>1, <1>2 DEF Rollout
<1>4. pool' = [pool EXCEPT ![r] = [pool[r] EXCEPT ![1].weights = w]]
  BY DEF StartTask
<1>5. QED
  BY <1>3, <1>4

\* Where a micro-batch leads.
LEMMA AfterBackward == "step_end" \in Locations /\ "train_step" \in Locations
BY DEF Locations

LEMMA InitType == Init => TypeOK
<1> SUFFICES ASSUME Init PROVE TypeOK
  OBVIOUS
<1>1. NoRollout \in Rollout /\ Dummy \in Int
  BY DEF NoRollout, Rollout, Datasets, Dummy
<1>2. pc \in [Ranks -> Locations]
  BY DEF Init, Locations
<1>3. queue \in [Ranks -> [Datasets -> Seq(Rollout)]]
  BY EmptySeq DEF Init
<1>4. pool \in [Ranks -> Seq(Rollout)] /\ got \in [Ranks -> Rollout]
  BY <1>1, EmptySeq DEF Init
<1>5. lost \in BOOLEAN
  BY Zenon DEF Init
<1>6. QED
  BY <1>1, <1>2, <1>3, <1>4, <1>5 DEF Init, TypeOK

LEMMA StepType == TypeOK /\ BusyOK /\ [Next]_vars => TypeOK'
<1> SUFFICES ASSUME TypeOK, BusyOK, [Next]_vars PROVE TypeOK'
  OBVIOUS
<1> USE DEF Goto, At, rankVars, flowVars, syncVars
<1>1. CASE GatherMessages
  BY <1>1 DEF GatherMessages, TypeOK, Locations, ExchangePoints
<1>2. CASE GatherInputs
  BY <1>2 DEF GatherInputs, TypeOK, Locations, ExchangePoints
<1>3. CASE GatherRequests
  <2>1. \A r \in Ranks : NewRollout(r, engine) \in Rollout
    BY NewRolloutType DEF TypeOK
  <2>2. got' \in [Ranks -> Rollout]
    BY <1>3, <2>1 DEF GatherRequests
  <2>3. issued' \in [Ranks -> Nat]
    BY <1>3 DEF GatherRequests, TypeOK
  <2>4. pc' \in [Ranks -> Locations]
    BY <1>3 DEF GatherRequests, Locations, ExchangePoints
  <2>5. QED
    BY <1>3, <2>2, <2>3, <2>4 DEF GatherRequests, TypeOK
<1>4. CASE ShareResults
  BY <1>4 DEF ShareResults, TypeOK, Locations, ExchangePoints
<1>5. ASSUME NEW r \in Ranks, TrainBegin(r) PROVE TypeOK'
  BY <1>5 DEF TrainBegin, TypeOK, Locations, ExchangePoints
<1>6. ASSUME NEW r \in Ranks, PrefetchSync(r) PROVE TypeOK'
  BY <1>6, SMTT(40) DEF PrefetchSync, LoadWeights, TypeOK, Locations
<1>7. ASSUME NEW r \in Ranks, PrefetchInfer(r) PROVE TypeOK'
  <2>1. queue' \in [Ranks -> [Datasets -> Seq(Rollout)]]
    BY <1>7, NewRolloutType, AppendProperties, SMTT(40) DEF PrefetchInfer, TypeOK
  <2>2. pc' \in [Ranks -> Locations]
    BY <1>7 DEF PrefetchInfer, TypeOK, Locations
  <2>3. issued' \in [Ranks -> Nat]
    BY <1>7 DEF PrefetchInfer, TypeOK
  <2>4. QED
    BY <1>7, <2>1, <2>2, <2>3 DEF PrefetchInfer, TypeOK
<1>8. ASSUME NEW r \in Ranks, Sync(r) PROVE TypeOK'
  BY <1>8, SMTT(40) DEF Sync, LoadWeights, TypeOK, Locations, ExchangePoints
<1>9. ASSUME NEW r \in Ranks, Submit(r) PROVE TypeOK'
  <2>1. pool' \in [Ranks -> Seq(Rollout)]
    BY <1>9, NewRolloutType, AppendProperties, SMTT(40) DEF Submit, TypeOK, Dummy
  <2>2. QED
    BY <1>9, <2>1, SMTT(40) DEF Submit, TypeOK, Locations
<1>10. ASSUME NEW r \in Ranks, Get(r) PROVE TypeOK'
  <2>1. CurrentQueue(r) \in Datasets
    BY DEF CurrentQueue, Datasets
  <2>2. /\ Head(Waiting(r)) \in Rollout
        /\ Tail(Waiting(r)) \in Seq(Rollout)
    BY <1>10, <2>1, HeadTailProperties DEF Get, Waiting, TypeOK
  <2>3. /\ got' \in [Ranks -> Rollout]
        /\ queue' \in [Ranks -> [Datasets -> Seq(Rollout)]]
    BY <1>10, <2>1, <2>2 DEF Get, Waiting, TypeOK
  <2>4. QED
    BY <1>10, <2>3 DEF Get, TypeOK, Locations, ExchangePoints
<1>11. ASSUME NEW r \in Ranks, StartTask(r) PROVE TypeOK'
  <2>1. PICK w \in Int :
            pool' = [pool EXCEPT ![r] = [pool[r] EXCEPT ![1].weights = w]]
    BY <1>11, StartedTask
  <2>2. pool' \in [Ranks -> Seq(Rollout)]
    BY <1>11, <2>1, HeadReplaced DEF StartTask, TypeOK
  <2>3. QED
    BY <1>11, <2>2 DEF StartTask, TypeOK
<1>12. ASSUME NEW r \in Ranks, FinishTask(r) PROVE TypeOK'
  <2>1. /\ Head(pool[r]) \in Rollout
        /\ Head(pool[r]).dest \in Datasets
        /\ Tail(pool[r]) \in Seq(Rollout)
    BY <1>12, TakenTask DEF FinishTask
  <2>2. queue' \in [Ranks -> [Datasets -> Seq(Rollout)]]
    BY <1>12, <2>1, AppendProperties, SMTT(40) DEF FinishTask, TypeOK
  <2>3. QED
    BY <1>12, <2>1, <2>2 DEF FinishTask, TypeOK
<1>13. ASSUME NEW r \in Ranks, FailTask(r) PROVE TypeOK'
  <2>1. Tail(pool[r]) \in Seq(Rollout)
    BY <1>13, TakenTask DEF FailTask
  <2>2. QED
    BY <1>13, <2>1 DEF FailTask, TypeOK
<1>14. ASSUME NEW r \in Ranks, TrainStep(r) PROVE TypeOK'
  BY <1>14 DEF TrainStep, TypeOK, Locations, ExchangePoints
<1>15. ASSUME NEW r \in Ranks, Backward(r) PROVE TypeOK'
  <2>1. \/ /\ globalStep' = [globalStep EXCEPT ![r] = @ + 1]
           /\ pc' = [pc EXCEPT ![r] = "step_end"]
        \/ /\ globalStep' = globalStep
           /\ pc' = [pc EXCEPT ![r] = "train_step"]
    BY <1>15, Zenon DEF Backward
  <2>2. /\ globalStep \in [Ranks -> Nat] /\ microStep \in [Ranks -> Nat]
        /\ pc \in [Ranks -> Locations]
    BY DEF TypeOK
  <2>3. globalStep' \in [Ranks -> Nat]
    <3>1. CASE globalStep' = [globalStep EXCEPT ![r] = @ + 1]
      BY <3>1, <2>2
    <3>2. CASE globalStep' = globalStep
      BY <3>2, <2>2
    <3>3. QED
      BY <2>1, <3>1, <3>2, Zenon
  <2>4. "step_end" \in Locations /\ "train_step" \in Locations
    BY AfterBackward
  <2>5. pc' \in [Ranks -> Locations]
    BY <2>1, <2>2, <2>4
  <2>6. microStep' = [microStep EXCEPT ![r] = @ + 1]
    BY <1>15, Zenon DEF Backward
  <2>7. microStep' \in [Ranks -> Nat]
    BY <2>2, <2>6
  <2>8. UNCHANGED <<caller, evaluating, shouldEvaluate, evalFlag, evalIdx,
                    resampled, flowVars, syncVars>>
    BY <1>15 DEF Backward
  <2>9. QED
    BY <2>3, <2>5, <2>7, <2>8 DEF TypeOK
<1>16. ASSUME NEW r \in Ranks, StepEnd(r) PROVE TypeOK'
  BY <1>16 DEF StepEnd, Evaluate, TypeOK, Locations
<1>17. ASSUME NEW r \in Ranks, EpochEnd(r) PROVE TypeOK'
  BY <1>17 DEF EpochEnd, Evaluate, NextStep, TypeOK, Locations
<1>18. ASSUME NEW r \in Ranks, EvalWait(r) PROVE TypeOK'
  BY <1>18 DEF EvalWait, TypeOK, Locations, ExchangePoints
<1>19. ASSUME NEW r \in Ranks, EvalBatch(r) PROVE TypeOK'
  BY <1>19, SMTT(40) DEF EvalBatch, TypeOK, Locations, ExchangePoints
<1>20. ASSUME NEW r \in Ranks, EvalEnd(r) PROVE TypeOK'
  BY <1>20 DEF EvalEnd, NextStep, TypeOK, Locations
<1>21. CASE UNCHANGED vars
  BY <1>21 DEF vars, TypeOK
<1>22. QED
  BY <1>1, <1>2, <1>3, <1>4, <1>5, <1>6, <1>7, <1>8, <1>9, <1>10, <1>11,
     <1>12, <1>13, <1>14, <1>15, <1>16, <1>17, <1>18, <1>19, <1>20, <1>21
     DEF Next, Collective, MainThread, Worker, Finished


LEMMA InitBusy == Init => BusyOK
BY DEF Init, BusyOK

\* Only the worker changes busy, and only it takes from the pool.
LEMMA StepBusy == TypeOK /\ BusyOK /\ [Next]_vars => BusyOK'
<1> SUFFICES ASSUME TypeOK, BusyOK, [Next]_vars, NEW s \in Ranks, busy'[s]
             PROVE  pool'[s] # <<>>
  BY DEF BusyOK
<1>1. ASSUME UNCHANGED <<pool, busy>> PROVE pool'[s] # <<>>
  BY <1>1 DEF BusyOK
<1>2. ASSUME NEW r \in Ranks, Submit(r) PROVE pool'[s] # <<>>
  <2>1. busy' = busy /\ pool' = [pool EXCEPT ![r] = Append(@, NewRollout(r, Dummy))]
    BY <1>2 DEF Submit
  <2>2. pool[r] \in Seq(Rollout)
    BY DEF TypeOK
  <2>3. NewRollout(r, Dummy) \in Rollout
    BY NewRolloutType DEF Dummy
  <2>4. Append(pool[r], NewRollout(r, Dummy)) # <<>>
    BY <2>2, <2>3, AppendProperties
  <2>5. QED
    BY <2>1, <2>4 DEF BusyOK, TypeOK
<1>3. ASSUME NEW r \in Ranks, StartTask(r) PROVE pool'[s] # <<>>
  <2>1. PICK w \in Int :
            pool' = [pool EXCEPT ![r] = [pool[r] EXCEPT ![1].weights = w]]
    BY <1>3, StartedTask
  <2>2. /\ busy' = [busy EXCEPT ![r] = TRUE]
        /\ pool[r] # <<>> /\ pool[r] \in Seq(Rollout)
    BY <1>3 DEF StartTask, TypeOK
  <2>3. [pool[r] EXCEPT ![1].weights = w] # <<>>
    BY <2>2, HeadReplaced, EmptySeq
  <2>4. QED
    BY <2>1, <2>2, <2>3 DEF BusyOK, TypeOK
<1>4. ASSUME NEW r \in Ranks, FinishTask(r) \/ FailTask(r)
      PROVE  pool'[s] # <<>>
  <2>1. /\ busy' = [busy EXCEPT ![r] = FALSE]
        /\ pool' = [pool EXCEPT ![r] = Tail(@)]
    BY <1>4 DEF FinishTask, FailTask
  <2>2. s # r
    BY <2>1 DEF TypeOK
  <2>3. QED
    BY <2>1, <2>2 DEF BusyOK, TypeOK
<1>5. CASE Collective
  BY <1>1, <1>5 DEF Collective, GatherMessages, GatherInputs, GatherRequests,
                    ShareResults, flowVars
<1>6. ASSUME NEW r \in Ranks, MainThread(r), ~Submit(r)
      PROVE  UNCHANGED <<pool, busy>>
  BY <1>6 DEF MainThread, TrainBegin, PrefetchSync, PrefetchInfer, Sync, Get,
              TrainStep, Backward, StepEnd, EpochEnd, EvalWait, EvalBatch,
              EvalEnd, flowVars
<1>7. QED
  BY <1>1, <1>2, <1>3, <1>4, <1>5, <1>6 DEF Next, Worker, Finished, vars, flowVars

\* Every variable keeps to its type for every number of ranks, every length
\* of the run and every schedule of generations and evaluations.
THEOREM TypeCorrect == Spec => []TypeOK
<1>1. TypeOK /\ BusyOK /\ [Next]_vars => (TypeOK /\ BusyOK)'
  BY StepType, StepBusy
<1>2. QED
  BY <1>1, InitType, InitBusy, PTL DEF Spec

-----------------------------------------------------------------------------
(* The inductive invariant behind NoSyncDuringRollout.                      *)

\* p is a rank's pool and q its queues: every rollout in flight goes back to
\* d, d is owed at most n, in flight or waiting, and no other queue holds more
\* than one.
Owed(p, q, d, n) ==
    /\ \A i \in DOMAIN p : p[i].dest = d
    /\ Len(p) + Len(q[d]) <= n
    /\ \A e \in Datasets : e # d => Len(q[e]) <= 1

LEMMA OwedSubmit ==
    ASSUME NEW p \in Seq(Rollout), NEW q \in [Datasets -> Seq(Rollout)],
           NEW d \in Datasets, NEW x \in Rollout, x.dest = d, Owed(p, q, d, 1)
    PROVE  Owed(Append(p, x), q, d, 2)
<1>1. /\ Len(Append(p, x)) = Len(p) + 1 /\ Len(p) \in Nat
      /\ DOMAIN Append(p, x) = 1..(Len(p) + 1) /\ DOMAIN p = 1..Len(p)
  BY AppendProperties, LenProperties
<1>2. \A i \in 1..(Len(p) + 1) :
          Append(p, x)[i] = IF i = Len(p) + 1 THEN x ELSE p[i]
  BY AppendProperties
<1>3. \A i \in DOMAIN Append(p, x) : Append(p, x)[i].dest = d
  BY <1>1, <1>2 DEF Owed
<1>4. Len(p) + Len(q[d]) <= 1 /\ \A e \in Datasets : e # d => Len(q[e]) <= 1
  BY DEF Owed
<1>5. Len(Append(p, x)) + Len(q[d]) <= 2
  BY <1>1, <1>4
<1>6. QED
  BY <1>3, <1>4, <1>5 DEF Owed

LEMMA OwedGet ==
    ASSUME NEW p \in Seq(Rollout), NEW q \in [Datasets -> Seq(Rollout)],
           NEW d \in Datasets, q[d] # <<>>, Owed(p, q, d, 2)
    PROVE  Owed(p, [q EXCEPT ![d] = Tail(@)], d, 1)
BY HeadTailProperties DEF Owed

LEMMA OwedStart ==
    ASSUME NEW p \in Seq(Rollout), p # <<>>, NEW q, NEW w \in Int, NEW d, NEW n,
           Owed(p, q, d, n)
    PROVE  Owed([p EXCEPT ![1].weights = w], q, d, n)
BY HeadReplaced DEF Owed

LEMMA OwedFail ==
    ASSUME NEW p \in Seq(Rollout), p # <<>>, NEW d \in Datasets, NEW n \in Nat,
           NEW q \in [Datasets -> Seq(Rollout)], Owed(p, q, d, n)
    PROVE  Owed(Tail(p), q, d, n)
BY HeadTailProperties DEF Owed

LEMMA OwedFinish ==
    ASSUME NEW p \in Seq(Rollout), p # <<>>, NEW d \in Datasets, NEW n \in Nat,
           NEW q \in [Datasets -> Seq(Rollout)], Owed(p, q, d, n)
    PROVE  Owed(Tail(p), [q EXCEPT ![Head(p).dest] = Append(@, Head(p))], d, n)
<1>1. /\ Head(p) = p[1] /\ 1 \in DOMAIN p
      /\ Tail(p) \in Seq(Rollout) /\ Len(Tail(p)) = Len(p) - 1
  BY HeadTailProperties, EmptySeq
<1>2. Head(p).dest = d /\ Head(p) \in Rollout
  BY <1>1, ElementOfSeq DEF Owed
<1>3. Owed(Tail(p), q, d, n)
  BY OwedFail
<1>4. Len(Append(q[d], Head(p))) = Len(q[d]) + 1
  BY <1>2, AppendProperties
<1>5. QED
  BY <1>1, <1>2, <1>3, <1>4 DEF Owed

LEMMA OwedArrived ==
    ASSUME NEW p \in Seq(Rollout), NEW q \in [Datasets -> Seq(Rollout)],
           NEW d \in Datasets, NEW e \in Datasets, q[d] # <<>>, Owed(p, q, d, 1)
    PROVE  p = <<>> /\ Owed(p, q, e, 1)
<1>1. Len(q[d]) \in Nat \ {0} /\ Len(p) \in Nat
  BY EmptySeq
<1>2. Len(p) = 0
  BY <1>1 DEF Owed
<1>3. p = <<>>
  BY <1>2, EmptySeq
<1>4. QED
  BY <1>1, <1>2, <1>3, EmptySeq DEF Owed

LEMMA OwedPrefetch ==
    ASSUME NEW q \in [Datasets -> Seq(Rollout)], NEW d \in Datasets,
           NEW x \in Rollout, q[d] = <<>>, \A e \in Datasets : Len(q[e]) <= 1
    PROVE  Owed(<<>>, [q EXCEPT ![d] = Append(@, x)], d, 1)
BY AppendProperties, EmptySeq DEF Owed

Prefetching == {"pf_messages", "pf_inputs", "pf_sync", "pf_infer"}
Generating == {"messages", "sync", "inputs", "requests", "submit", "results",
               "eval_batch"}

\* The rank holds the weights of the current step.
Loaded(r) == lastLoaded[r] = globalStep[r]

\* Some step is evaluated when it ends and again as the end of an epoch: the
\* last step of a run that evaluates by epoch, or that of epoch max_epochs.
EvaluatedTwice ==
    /\ Evaluates
    /\ \E n \in Nat : n \in EvalSteps \cup {MaxSteps} /\ n \in EpochEnds \cup {StopStep}

\* The second of them.  It may start while the last rollout of the first is
\* still in flight; it loads no weights, and nothing follows it.
Second(r) ==
    /\ EvaluatedTwice
    /\ caller[r] = "epoch" /\ shouldEvaluate[r] /\ LastStep(r) /\ Loaded(r)

Owes(r, d, n) == Owed(pool[r], queue[r], d, n)

\* The mode the rank is in: outside an evaluation should_evaluate is clear,
\* inside one it is set unless eval_on_start started it.
Mode(r) ==
    /\ pc[r] \in {"train_begin", "train_step", "backward", "step_end",
                  "epoch_end"} => ~shouldEvaluate[r] /\ ~evaluating[r]
    /\ At(r, "eval_wait") => ~evaluating[r]
    /\ At(r, "train_begin") => caller[r] = "start"
    /\ pc[r] \in Prefetching => evaluating[r] \/ caller[r] = "start"
    /\ At(r, "eval_batch") => evaluating[r]
    /\ evaluating[r] \/ At(r, "eval_wait")
          => (shouldEvaluate[r] <=> caller[r] # "start")
    /\ shouldEvaluate[r] => evaluating[r] \/ At(r, "eval_wait")
    /\ shouldEvaluate[r] /\ caller[r] = "step"
          => globalStep[r] \in EvalSteps \cup {MaxSteps}

\* From its first batch on, an evaluation holds the current weights.
Fresh(r) ==
    /\ At(r, "pf_infer") => Loaded(r)
    /\ ~evaluating[r] => evalIdx[r] = 0
    /\ At(r, "eval_batch") /\ evalIdx[r] > 0 => Loaded(r)
    /\ evaluating[r] /\ pc[r] \in {"inputs", "requests", "submit", "get",
                                   "results"} => Loaded(r)

\* What is in flight at each place of an asynchronous run.
Flow(r) ==
    /\ At(r, "train_begin") =>
          pool[r] = <<>> /\ \A d \in Datasets : queue[r][d] = <<>>
    /\ pc[r] \in Prefetching =>
          \/ Second(r)
          \/ /\ pool[r] = <<>> /\ Waiting(r) = <<>>
             /\ \A d \in Datasets : Len(queue[r][d]) <= 1
    /\ pc[r] \in Generating => Second(r) \/ Owes(r, CurrentQueue(r), 1)
    /\ At(r, "get") => Second(r) \/ Owes(r, CurrentQueue(r), 2)
    /\ pc[r] \in {"backward", "step_end"} => Owes(r, "train", 1)
    /\ At(r, "train_step") =>
          Owes(r, "train", 1) \/ (Owes(r, "eval", 1) /\ evalFlag[r])
    /\ At(r, "epoch_end") =>
          \/ Owes(r, "train", 1)
          \/ /\ Owes(r, "eval", 1) /\ evalFlag[r] /\ Loaded(r)
             /\ globalStep[r] \in EvalSteps \cup {MaxSteps}
    /\ At(r, "eval_wait") => Second(r) \/ Owes(r, "train", 1)
    /\ At(r, "done") => EvaluatedTwice \/ \E d \in Datasets : Owes(r, d, 1)

\* A synchronous run never comes near the executor.
Inline(r) ==
    /\ pc[r] \notin Prefetching \cup {"train_begin", "inputs", "submit", "get"}
    /\ pool[r] = <<>> /\ \A d \in Datasets : queue[r][d] = <<>>

RankInv(r) ==
    /\ Mode(r)
    /\ Fresh(r)
    /\ IF Async THEN Flow(r) ELSE Inline(r)

IInv == \A r \in Ranks : RankInv(r)

-----------------------------------------------------------------------------
(* Every step preserves it: first the steps that leave a rank alone.        *)

LEMMA RankUnmoved ==
    ASSUME NEW r \in Ranks, RankInv(r),
           pc'[r] = pc[r], caller'[r] = caller[r],
           globalStep'[r] = globalStep[r], lastLoaded'[r] = lastLoaded[r],
           evaluating'[r] = evaluating[r],
           shouldEvaluate'[r] = shouldEvaluate[r],
           evalFlag'[r] = evalFlag[r], evalIdx'[r] = evalIdx[r],
           queue'[r] = queue[r], pool'[r] = pool[r]
    PROVE  RankInv(r)'
<1> USE DEF At, Loaded
<1>1. Mode(r)'
  BY DEF RankInv, Mode
<1>2. Fresh(r)'
  BY DEF RankInv, Fresh
<1>3. ASSUME Async PROVE Flow(r)'
  BY <1>3 DEF RankInv, Flow, Second, LastStep, Owes, CurrentQueue, Waiting
<1>4. ASSUME ~Async PROVE Inline(r)'
  BY <1>4 DEF RankInv, Inline
<1>5. QED
  BY <1>1, <1>2, <1>3, <1>4 DEF RankInv

\* What the steps of one rank, on its own, leave of another.
LEMMA OthersKept ==
    ASSUME TypeOK, NEW r \in Ranks, NEW s \in Ranks, r # s,
           MainThread(r) \/ Worker(r)
    PROVE  /\ pc'[s] = pc[s] /\ caller'[s] = caller[s]
           /\ globalStep'[s] = globalStep[s] /\ microStep'[s] = microStep[s]
           /\ evaluating'[s] = evaluating[s]
           /\ shouldEvaluate'[s] = shouldEvaluate[s]
           /\ evalFlag'[s] = evalFlag[s] /\ evalIdx'[s] = evalIdx[s]
           /\ resampled'[s] = resampled[s] /\ issued'[s] = issued[s]
           /\ queue'[s] = queue[s] /\ pool'[s] = pool[s]
           /\ busy'[s] = busy[s] /\ got'[s] = got[s]
<1> USE DEF Goto, rankVars, flowVars, syncVars, LoadWeights, Evaluate,
        MainThread, Worker, TrainBegin, PrefetchSync, PrefetchInfer, Sync,
        Submit, Get, TrainStep, Backward, StepEnd, EpochEnd, EvalWait,
        EvalBatch, EvalEnd, StartTask, FinishTask, FailTask
<1>1. pc'[s] = pc[s] /\ caller'[s] = caller[s] /\ globalStep'[s] = globalStep[s]
  BY SMTT(60) DEF TypeOK
<1>2. /\ microStep'[s] = microStep[s] /\ evaluating'[s] = evaluating[s]
      /\ shouldEvaluate'[s] = shouldEvaluate[s]
  BY SMTT(60) DEF TypeOK
<1>3. /\ evalFlag'[s] = evalFlag[s] /\ evalIdx'[s] = evalIdx[s]
      /\ resampled'[s] = resampled[s] /\ issued'[s] = issued[s]
  BY SMTT(60) DEF TypeOK
<1>4. queue'[s] = queue[s] /\ pool'[s] = pool[s]
  BY SMTT(60) DEF TypeOK
<1>5. busy'[s] = busy[s] /\ got'[s] = got[s]
  BY SMTT(60) DEF TypeOK
<1>6. QED
  BY <1>1, <1>2, <1>3, <1>4, <1>5

LEMMA OtherRank ==
    ASSUME TypeOK, NEW r \in Ranks, NEW s \in Ranks, r # s, RankInv(s),
           MainThread(r) \/ Worker(r)
    PROVE  RankInv(s)'
<1>1. lastLoaded'[s] = lastLoaded[s]
  BY DEF MainThread, Worker, TrainBegin, PrefetchSync, PrefetchInfer, Sync,
         Submit, Get, TrainStep, Backward, StepEnd, EpochEnd, EvalWait,
         EvalBatch, EvalEnd, StartTask, FinishTask, FailTask, TypeOK,
         LoadWeights, syncVars
<1>2. QED
  BY <1>1, OthersKept, RankUnmoved

LEMMA WorkerInv ==
    ASSUME TypeOK, BusyOK, NEW r \in Ranks, RankInv(r), Worker(r)
    PROVE  RankInv(r)'
<1> USE DEF At, Loaded
<1>1. /\ pc'[r] = pc[r] /\ caller'[r] = caller[r]
      /\ globalStep'[r] = globalStep[r] /\ lastLoaded'[r] = lastLoaded[r]
      /\ evaluating'[r] = evaluating[r]
      /\ shouldEvaluate'[r] = shouldEvaluate[r]
      /\ evalFlag'[r] = evalFlag[r] /\ evalIdx'[r] = evalIdx[r]
  BY DEF Worker, StartTask, FinishTask, FailTask, rankVars, syncVars
<1>2. /\ pool[r] # <<>> /\ pool[r] \in Seq(Rollout)
      /\ queue[r] \in [Datasets -> Seq(Rollout)]
  BY DEF Worker, StartTask, FinishTask, FailTask, BusyOK, TypeOK
<1>3. ASSUME NEW d \in Datasets, NEW n \in Nat, Owes(r, d, n)
      PROVE  Owed(pool'[r], queue'[r], d, n)
  <2>1. CASE StartTask(r)
    <3>1. PICK w \in Int :
              pool' = [pool EXCEPT ![r] = [pool[r] EXCEPT ![1].weights = w]]
      BY <2>1, StartedTask
    <3>2. /\ pool'[r] = [pool[r] EXCEPT ![1].weights = w]
          /\ queue'[r] = queue[r]
      BY <2>1, <3>1 DEF StartTask, TypeOK
    <3>3. QED
      BY <1>2, <1>3, <3>2, OwedStart DEF Owes
  <2>2. CASE FinishTask(r)
    <3>1. /\ pool'[r] = Tail(pool[r])
          /\ queue'[r] = [queue[r] EXCEPT ![Head(pool[r]).dest]
                                             = Append(@, Head(pool[r]))]
      BY <2>2 DEF FinishTask, TypeOK
    <3>2. Owed(pool[r], queue[r], d, n)
      BY <1>3 DEF Owes
    <3>3. Owed(Tail(pool[r]), [queue[r] EXCEPT ![Head(pool[r]).dest]
                                      = Append(@, Head(pool[r]))], d, n)
      BY <1>2, <3>2, OwedFinish
    <3>4. QED
      BY <3>1, <3>3
  <2>3. CASE FailTask(r)
    <3>1. pool'[r] = Tail(pool[r]) /\ queue'[r] = queue[r]
      BY <2>3 DEF FailTask, TypeOK
    <3>2. QED
      BY <1>2, <1>3, <3>1, OwedFail DEF Owes
  <2>4. QED
    BY <2>1, <2>2, <2>3 DEF Worker
<1>4. Mode(r)'
  BY <1>1 DEF RankInv, Mode
<1>5. Fresh(r)'
  BY <1>1 DEF RankInv, Fresh
<1>6. ASSUME Async PROVE Flow(r)'
  <2>1. /\ CurrentQueue(r) \in Datasets /\ CurrentQueue(r)' = CurrentQueue(r)
        /\ Second(r)' = Second(r)
    BY <1>1 DEF CurrentQueue, Datasets, Second, LastStep
  <2>2. \A d \in Datasets : Owes(r, d, 1) => Owes(r, d, 1)'
    BY <1>3 DEF Owes
  <2>3. \A d \in Datasets : Owes(r, d, 2) => Owes(r, d, 2)'
    BY <1>3 DEF Owes
  <2>4. "train" \in Datasets /\ "eval" \in Datasets
    BY DEF Datasets
  <2>5. Flow(r)
    BY <1>6 DEF RankInv
  <2>6. QED
    BY <1>1, <1>2, <2>1, <2>2, <2>3, <2>4, <2>5 DEF Flow
<1>7. ASSUME ~Async PROVE Inline(r)'
  BY <1>2, <1>7 DEF RankInv, Inline
<1>8. QED
  BY <1>4, <1>5, <1>6, <1>7, SMTT(40) DEF RankInv

-----------------------------------------------------------------------------
(* The steps a rank takes on its own.                                       *)

\* The facts about a rank's own queues and pool that every step needs.
LEMMA RankTypes ==
    ASSUME TypeOK, NEW r \in Ranks
    PROVE  /\ pool[r] \in Seq(Rollout)
           /\ queue[r] \in [Datasets -> Seq(Rollout)]
           /\ "train" \in Datasets /\ "eval" \in Datasets
           /\ CurrentQueue(r) \in Datasets
           /\ caller[r] \in {"start", "step", "epoch"}
           /\ globalStep[r] \in Nat /\ evalIdx[r] \in Nat
BY DEF TypeOK, Datasets, CurrentQueue

\* A step that only moves between two places of the same kind.
LEMMA Passing ==
    ASSUME TypeOK, NEW r \in Ranks, RankInv(r),
           TrainBegin(r) \/ Submit(r) \/ Get(r) \/ EvalBatch(r)
    PROVE  RankInv(r)'
<1> USE DEF At, Goto, Loaded, rankVars, flowVars, syncVars
<1>1. /\ caller'[r] = caller[r] /\ globalStep'[r] = globalStep[r]
      /\ lastLoaded'[r] = lastLoaded[r] /\ evaluating'[r] = evaluating[r]
      /\ shouldEvaluate'[r] = shouldEvaluate[r]
      /\ evalFlag'[r] = evalFlag[r]
  BY DEF TrainBegin, Submit, Get, EvalBatch
<1>2. /\ CurrentQueue(r)' = CurrentQueue(r) /\ Second(r)' = Second(r)
      /\ Waiting(r)' = queue'[r][CurrentQueue(r)]
  BY <1>1 DEF CurrentQueue, Second, LastStep, Waiting
<1>3. CASE TrainBegin(r)
  <2>1. /\ pc[r] = "train_begin" /\ pc'[r] = "pf_messages"
        /\ evalIdx'[r] = evalIdx[r]
        /\ queue'[r] = queue[r] /\ pool'[r] = pool[r]
    BY <1>3 DEF TrainBegin, TypeOK
  <2>2. Mode(r)' /\ Fresh(r)'
    BY <1>1, <2>1 DEF RankInv, Mode, Fresh, Prefetching
  <2>3. ASSUME Async PROVE Flow(r)'
    <3>1. pool[r] = <<>> /\ \A d \in Datasets : queue[r][d] = <<>>
      BY <2>1, <2>3 DEF RankInv, Flow
    <3>2. QED
      BY <1>2, <2>1, <3>1, RankTypes, EmptySeq DEF Flow, Prefetching, Generating
  <2>4. Async
    BY <2>1 DEF RankInv, Inline
  <2>5. QED
    BY <2>2, <2>3, <2>4 DEF RankInv
<1>4. CASE Submit(r)
  <2>1. /\ pc[r] = "submit" /\ pc'[r] = "get"
        /\ evalIdx'[r] = evalIdx[r] /\ queue'[r] = queue[r]
        /\ pool'[r] = Append(pool[r], NewRollout(r, Dummy))
    BY <1>4 DEF Submit, TypeOK
  <2>2. Mode(r)' /\ Fresh(r)'
    BY <1>1, <2>1 DEF RankInv, Mode, Fresh, Prefetching
  <2>3. ASSUME Async PROVE Flow(r)'
    <3>1. Second(r) \/ Owes(r, CurrentQueue(r), 1)
      BY <2>1, <2>3 DEF RankInv, Flow, Generating
    <3>2. /\ NewRollout(r, Dummy) \in Rollout
          /\ NewRollout(r, Dummy).dest = CurrentQueue(r)
      BY NewRolloutType DEF Dummy
    <3>3. Owes(r, CurrentQueue(r), 1) => Owes(r, CurrentQueue(r), 2)'
      BY <1>2, <2>1, <3>2, RankTypes, OwedSubmit DEF Owes
    <3>4. QED
      BY <1>2, <2>1, <3>1, <3>3 DEF Flow, Prefetching, Generating
  <2>4. Async
    BY <2>1 DEF RankInv, Inline
  <2>5. QED
    BY <2>2, <2>3, <2>4 DEF RankInv
<1>5. CASE Get(r)
  <2>1. /\ pc[r] = "get" /\ pc'[r] = "results"
        /\ evalIdx'[r] = evalIdx[r] /\ pool'[r] = pool[r]
        /\ queue[r][CurrentQueue(r)] # <<>>
        /\ queue'[r] = [queue[r] EXCEPT ![CurrentQueue(r)] = Tail(@)]
    BY <1>5 DEF Get, Waiting, TypeOK
  <2>2. Mode(r)' /\ Fresh(r)'
    BY <1>1, <2>1 DEF RankInv, Mode, Fresh, Prefetching
  <2>3. ASSUME Async PROVE Flow(r)'
    <3>1. Second(r) \/ Owes(r, CurrentQueue(r), 2)
      BY <2>1, <2>3 DEF RankInv, Flow
    <3>2. ASSUME Owes(r, CurrentQueue(r), 2)
          PROVE  Owes(r, CurrentQueue(r), 1)'
      <4>1. Owed(pool[r], queue[r], CurrentQueue(r), 2)
        BY <3>2 DEF Owes
      <4>2. Owed(pool[r], [queue[r] EXCEPT ![CurrentQueue(r)] = Tail(@)],
                 CurrentQueue(r), 1)
        BY <2>1, <4>1, RankTypes, OwedGet
      <4>3. QED
        BY <1>2, <2>1, <4>2 DEF Owes
    <3>3. QED
      BY <1>2, <2>1, <3>1, <3>2 DEF Flow, Prefetching, Generating
  <2>4. Async
    BY <2>1 DEF RankInv, Inline
  <2>5. QED
    BY <2>2, <2>3, <2>4 DEF RankInv
<1>6. CASE EvalBatch(r)
  <2>1. /\ pc[r] = "eval_batch" /\ pc'[r] = "messages"
        /\ queue'[r] = queue[r] /\ pool'[r] = pool[r]
    BY <1>6 DEF EvalBatch, TypeOK
  <2>2. Mode(r)' /\ Fresh(r)'
    BY <1>1, <2>1 DEF RankInv, Mode, Fresh, Prefetching
  <2>3. ASSUME Async PROVE Flow(r)'
    BY <1>2, <2>1, <2>3 DEF RankInv, Flow, Owes, Prefetching, Generating
  <2>4. ASSUME ~Async PROVE Inline(r)'
    BY <2>1, <2>4 DEF RankInv, Inline, Prefetching
  <2>5. QED
    BY <2>2, <2>3, <2>4 DEF RankInv
<1>7. QED
  BY <1>3, <1>4, <1>5, <1>6

LEMMA SyncInv ==
    ASSUME TypeOK, NEW r \in Ranks, RankInv(r), Sync(r)
    PROVE  RankInv(r)'
<1> USE DEF At, Goto, Loaded, rankVars, flowVars, syncVars
<1>1. /\ caller'[r] = caller[r] /\ globalStep'[r] = globalStep[r]
      /\ evaluating'[r] = evaluating[r]
      /\ shouldEvaluate'[r] = shouldEvaluate[r]
      /\ evalFlag'[r] = evalFlag[r] /\ evalIdx'[r] = evalIdx[r]
      /\ queue'[r] = queue[r] /\ pool'[r] = pool[r]
      /\ pc[r] = "sync" /\ pc'[r] = IF Async THEN "inputs" ELSE "requests"
  BY DEF Sync, TypeOK
<1>2. lastLoaded'[r] = globalStep[r]
  BY DEF Sync, LoadWeights, TypeOK
<1>3. Mode(r)' /\ Fresh(r)'
  BY <1>1, <1>2 DEF RankInv, Mode, Fresh, Prefetching
<1>4. ASSUME Async PROVE Flow(r)'
  <2>1. CurrentQueue(r)' = CurrentQueue(r) /\ (Second(r) => Second(r)')
    BY <1>1, <1>2 DEF CurrentQueue, Second, LastStep
  <2>2. QED
    BY <1>1, <1>4, <2>1 DEF RankInv, Flow, Owes, Prefetching, Generating
<1>5. ASSUME ~Async PROVE Inline(r)'
  BY <1>1, <1>5 DEF RankInv, Inline, Prefetching
<1>6. QED
  BY <1>3, <1>4, <1>5 DEF RankInv

LEMMA PrefetchSyncInv ==
    ASSUME TypeOK, NEW r \in Ranks, RankInv(r), PrefetchSync(r)
    PROVE  RankInv(r)'
<1> USE DEF At, Goto, Loaded, rankVars, flowVars, syncVars
<1>1. /\ caller'[r] = caller[r] /\ globalStep'[r] = globalStep[r]
      /\ evaluating'[r] = evaluating[r]
      /\ shouldEvaluate'[r] = shouldEvaluate[r]
      /\ evalFlag'[r] = evalFlag[r] /\ evalIdx'[r] = evalIdx[r]
      /\ queue'[r] = queue[r] /\ pool'[r] = pool[r]
      /\ pc[r] = "pf_sync" /\ pc'[r] = "pf_infer"
  BY DEF PrefetchSync, TypeOK
<1>2. lastLoaded'[r] = globalStep[r]
  BY DEF PrefetchSync, LoadWeights, TypeOK
<1>3. Mode(r)' /\ Fresh(r)'
  BY <1>1, <1>2 DEF RankInv, Mode, Fresh, Prefetching
<1>4. Async
  BY <1>1 DEF RankInv, Inline, Prefetching
<1>5. Flow(r)'
  <2>1. /\ Waiting(r)' = Waiting(r) /\ (Second(r) => Second(r)')
    BY <1>1, <1>2 DEF CurrentQueue, Waiting, Second, LastStep
  <2>2. QED
    BY <1>1, <1>4, <2>1 DEF RankInv, Flow, Prefetching, Generating
<1>6. QED
  BY <1>3, <1>4, <1>5 DEF RankInv

LEMMA PrefetchInferInv ==
    ASSUME TypeOK, NEW r \in Ranks, RankInv(r), PrefetchInfer(r)
    PROVE  RankInv(r)'
<1> USE DEF At, Goto, Loaded, rankVars, flowVars, syncVars
<1> DEFINE x == NewRollout(r, engine)
<1>1. /\ caller'[r] = caller[r] /\ globalStep'[r] = globalStep[r]
      /\ evaluating'[r] = evaluating[r] /\ lastLoaded'[r] = lastLoaded[r]
      /\ shouldEvaluate'[r] = shouldEvaluate[r]
      /\ evalFlag'[r] = evalFlag[r] /\ evalIdx'[r] = evalIdx[r]
      /\ pool'[r] = pool[r] /\ pc[r] = "pf_infer"
  BY DEF PrefetchInfer
<1>2. queue'[r] = [queue[r] EXCEPT ![CurrentQueue(r)] = Append(@, x)]
  BY DEF PrefetchInfer, TypeOK
<1>3. pc'[r] = IF evaluating[r] THEN "eval_batch"
               ELSE IF EvalOnStart THEN "eval_wait" ELSE "train_step"
  BY DEF PrefetchInfer, TypeOK
<1>4. Mode(r)' /\ Fresh(r)'
  BY <1>1, <1>3 DEF RankInv, Mode, Fresh, Prefetching
<1>5. Async
  BY <1>1 DEF RankInv, Inline, Prefetching
<1>6. /\ CurrentQueue(r)' = CurrentQueue(r) /\ Second(r)' = Second(r)
      /\ evaluating[r] \/ (CurrentQueue(r) = "train" /\ ~Second(r))
  BY <1>1 DEF CurrentQueue, Second, LastStep, RankInv, Mode, Prefetching
<1>7. Second(r) \/ Owes(r, CurrentQueue(r), 1)'
  <2>1. SUFFICES ASSUME ~Second(r) PROVE Owes(r, CurrentQueue(r), 1)'
    OBVIOUS
  <2>2. /\ pool[r] = <<>> /\ queue[r][CurrentQueue(r)] = <<>>
        /\ \A d \in Datasets : Len(queue[r][d]) <= 1
    BY <1>1, <1>5, <2>1 DEF RankInv, Flow, Waiting, Prefetching
  <2>3. x \in Rollout
    BY NewRolloutType DEF TypeOK
  <2>4. Owed(<<>>, [queue[r] EXCEPT ![CurrentQueue(r)] = Append(@, x)],
             CurrentQueue(r), 1)
    BY <2>2, <2>3, RankTypes, OwedPrefetch
  <2>5. QED
    BY <1>1, <1>2, <1>6, <2>2, <2>4 DEF Owes
<1>8. Flow(r)'
  BY <1>1, <1>3, <1>6, <1>7 DEF Flow, Prefetching, Generating
<1>9. QED
  BY <1>4, <1>5, <1>8 DEF RankInv

LEMMA TrainStepInv ==
    ASSUME TypeOK, NEW r \in Ranks, RankInv(r), TrainStep(r)
    PROVE  RankInv(r)'
<1> USE DEF At, Goto, Loaded, rankVars, flowVars, syncVars
<1>1. /\ caller'[r] = caller[r] /\ globalStep'[r] = globalStep[r]
      /\ evaluating'[r] = evaluating[r] /\ lastLoaded'[r] = lastLoaded[r]
      /\ shouldEvaluate'[r] = shouldEvaluate[r]
      /\ evalFlag'[r] = evalFlag[r] /\ evalIdx'[r] = evalIdx[r]
      /\ queue'[r] = queue[r] /\ pool'[r] = pool[r] /\ pc[r] = "train_step"
  BY DEF TrainStep
<1>2. pc'[r] = "messages" \/ pc'[r] = "backward"
  <2>1. \E l \in {"messages", "backward"} : pc' = [pc EXCEPT ![r] = l]
    BY Zenon DEF TrainStep
  <2>2. QED
    BY <2>1 DEF TypeOK
<1>3. Mode(r)' /\ Fresh(r)'
  BY <1>1, <1>2 DEF RankInv, Mode, Fresh, Prefetching
<1>4. ASSUME Async PROVE Flow(r)'
  <2>1. Owes(r, "train", 1) \/ (Owes(r, "eval", 1) /\ evalFlag[r])
    BY <1>1, <1>4 DEF RankInv, Flow
  <2>2. evalFlag[r] => queue[r]["eval"] # <<>>
    BY <1>4 DEF TrainStep
  <2>3. Owes(r, "train", 1)
    BY <2>1, <2>2, RankTypes, OwedArrived DEF Owes
  <2>4. ~shouldEvaluate[r]
    BY <1>1 DEF RankInv, Mode
  <2>5. QED
    BY <1>1, <1>2, <2>3, <2>4
       DEF Flow, Owes, CurrentQueue, Prefetching, Generating
<1>5. ASSUME ~Async PROVE Inline(r)'
  BY <1>1, <1>2, <1>5 DEF RankInv, Inline, Prefetching
<1>6. QED
  BY <1>3, <1>4, <1>5 DEF RankInv

LEMMA BackwardInv ==
    ASSUME TypeOK, NEW r \in Ranks, RankInv(r), Backward(r)
    PROVE  RankInv(r)'
<1> USE DEF At, Goto, Loaded, rankVars, flowVars, syncVars
<1>1. /\ caller'[r] = caller[r] /\ lastLoaded'[r] = lastLoaded[r]
      /\ evaluating'[r] = evaluating[r]
      /\ shouldEvaluate'[r] = shouldEvaluate[r]
      /\ evalFlag'[r] = evalFlag[r] /\ evalIdx'[r] = evalIdx[r]
      /\ queue'[r] = queue[r] /\ pool'[r] = pool[r] /\ pc[r] = "backward"
  BY DEF Backward
<1>2. pc'[r] = "step_end" \/ pc'[r] = "train_step"
  <2>1. \E l \in {"step_end", "train_step"} : pc' = [pc EXCEPT ![r] = l]
    BY Zenon DEF Backward
  <2>2. QED
    BY <2>1 DEF TypeOK
<1>3. Mode(r)' /\ Fresh(r)'
  BY <1>1, <1>2 DEF RankInv, Mode, Fresh, Prefetching
<1>4. ASSUME Async PROVE Flow(r)'
  BY <1>1, <1>2, <1>4 DEF RankInv, Flow, Owes, Prefetching, Generating
<1>5. ASSUME ~Async PROVE Inline(r)'
  BY <1>1, <1>2, <1>5 DEF RankInv, Inline, Prefetching
<1>6. QED
  BY <1>3, <1>4, <1>5 DEF RankInv

LEMMA StepEndInv ==
    ASSUME TypeOK, NEW r \in Ranks, RankInv(r), StepEnd(r)
    PROVE  RankInv(r)'
<1> USE DEF At, Goto, Loaded, rankVars, flowVars, syncVars
<1>1. /\ globalStep'[r] = globalStep[r] /\ lastLoaded'[r] = lastLoaded[r]
      /\ evaluating'[r] = evaluating[r]
      /\ evalFlag'[r] = evalFlag[r] /\ evalIdx'[r] = evalIdx[r]
      /\ queue'[r] = queue[r] /\ pool'[r] = pool[r] /\ pc[r] = "step_end"
  BY DEF StepEnd
<1>2. \/ /\ pc'[r] = "eval_wait" /\ shouldEvaluate'[r] /\ caller'[r] = "step"
         /\ globalStep[r] \in EvalSteps \cup {MaxSteps}
      \/ /\ pc'[r] = "epoch_end" /\ caller'[r] = caller[r]
         /\ shouldEvaluate'[r] = shouldEvaluate[r]
  BY DEF StepEnd, Evaluate, TypeOK
<1>3. Mode(r)' /\ Fresh(r)'
  BY <1>1, <1>2 DEF RankInv, Mode, Fresh, Prefetching
<1>4. ASSUME Async PROVE Flow(r)'
  BY <1>1, <1>2, <1>4 DEF RankInv, Flow, Owes, Prefetching, Generating
<1>5. ASSUME ~Async PROVE Inline(r)'
  BY <1>1, <1>2, <1>5 DEF RankInv, Inline, Prefetching
<1>6. QED
  BY <1>3, <1>4, <1>5 DEF RankInv

\* Two evaluations of one step happen only when it is the last one, because
\* eval_strategy is 'steps' or 'epoch' and never both.
LEMMA EpochEndInv ==
    ASSUME TypeOK, NEW r \in Ranks, RankInv(r), EpochEnd(r)
    PROVE  RankInv(r)'
<1> USE DEF At, Goto, Loaded, rankVars, flowVars, syncVars
<1>1. /\ globalStep'[r] = globalStep[r] /\ lastLoaded'[r] = lastLoaded[r]
      /\ evaluating'[r] = evaluating[r]
      /\ evalFlag'[r] = evalFlag[r] /\ evalIdx'[r] = evalIdx[r]
      /\ queue'[r] = queue[r] /\ pool'[r] = pool[r] /\ pc[r] = "epoch_end"
  BY DEF EpochEnd
<1>2. \/ /\ pc'[r] = "eval_wait" /\ shouldEvaluate'[r] /\ caller'[r] = "epoch"
         /\ globalStep[r] \in EpochEnds \/ globalStep[r] = StopStep
         /\ Evaluates
      \/ /\ pc'[r] \in {"done", "train_step"} /\ caller'[r] = caller[r]
         /\ shouldEvaluate'[r] = shouldEvaluate[r]
  BY DEF EpochEnd, Evaluate, Evaluates, NextStep, TypeOK
<1>3. Mode(r)' /\ Fresh(r)'
  BY <1>1, <1>2 DEF RankInv, Mode, Fresh, Prefetching
<1>4. ASSUME Async PROVE Flow(r)'
  <2>1. \/ Owes(r, "train", 1)
        \/ /\ Owes(r, "eval", 1) /\ evalFlag[r] /\ Loaded(r)
           /\ globalStep[r] \in EvalSteps \cup {MaxSteps}
    BY <1>1, <1>4 DEF RankInv, Flow
  <2>2. CASE pc'[r] = "eval_wait"
    <3>1. ASSUME globalStep[r] \in EvalSteps \cup {MaxSteps}
          PROVE  LastStep(r) /\ EvaluatedTwice
      <4>1. globalStep[r] = MaxSteps \/ globalStep[r] = StopStep
        BY <1>2, <2>2, <3>1, RolloutAssumption
      <4>2. LastStep(r)
        BY <4>1, RolloutAssumption, RankTypes DEF LastStep
      <4>3. EvaluatedTwice
        BY <1>2, <2>2, <3>1, RankTypes DEF EvaluatedTwice
      <4>4. QED
        BY <4>2, <4>3
    <3>2. LastStep(r) /\ EvaluatedTwice /\ Loaded(r) => Second(r)'
      BY <1>1, <1>2, <2>2 DEF Second, LastStep
    <3>3. Second(r)' \/ Owes(r, "train", 1)
      BY <2>1, <3>1, <3>2
    <3>4. QED
      BY <1>1, <2>2, <3>3 DEF Flow, Owes, Prefetching, Generating
  <2>3. CASE pc'[r] \in {"done", "train_step"}
    BY <1>1, <2>1, <2>3, RankTypes DEF Flow, Owes, Prefetching, Generating
  <2>4. QED
    BY <1>2, <2>2, <2>3
<1>5. ASSUME ~Async PROVE Inline(r)'
  BY <1>1, <1>2, <1>5 DEF RankInv, Inline, Prefetching
<1>6. QED
  BY <1>3, <1>4, <1>5 DEF RankInv

LEMMA EvalWaitInv ==
    ASSUME TypeOK, NEW r \in Ranks, RankInv(r), EvalWait(r)
    PROVE  RankInv(r)'
<1> USE DEF At, Goto, Loaded, rankVars, flowVars, syncVars
<1>1. /\ caller'[r] = caller[r] /\ globalStep'[r] = globalStep[r]
      /\ lastLoaded'[r] = lastLoaded[r] /\ evaluating'[r] = TRUE
      /\ shouldEvaluate'[r] = shouldEvaluate[r]
      /\ evalFlag'[r] = evalFlag[r] /\ evalIdx'[r] = evalIdx[r]
      /\ queue'[r] = queue[r] /\ pool'[r] = pool[r] /\ pc[r] = "eval_wait"
  BY DEF EvalWait, TypeOK
<1>2. \/ pc'[r] = "pf_messages" /\ Async /\ Waiting(r) = <<>>
      \/ pc'[r] = "eval_batch" /\ (Async => Waiting(r) # <<>>)
  BY DEF EvalWait, TypeOK
<1>3. Mode(r)' /\ Fresh(r)'
  BY <1>1, <1>2 DEF RankInv, Mode, Fresh, Prefetching
<1>4. ASSUME Async PROVE Flow(r)'
  <2>1. /\ Second(r)' = Second(r) /\ CurrentQueue(r)' = CurrentQueue(r)
        /\ Waiting(r)' = Waiting(r)
    BY <1>1 DEF Second, LastStep, CurrentQueue, Waiting
  <2>2. CASE Second(r)
    BY <1>1, <1>2, <2>1, <2>2 DEF Flow, Prefetching, Generating
  <2>3. CASE ~Second(r)
    <3>1. Owes(r, "train", 1) /\ queue[r]["train"] # <<>>
      BY <1>1, <1>4, <2>3 DEF RankInv, Flow, EvalWait
    <3>2. \A d \in Datasets : pool[r] = <<>> /\ Owes(r, d, 1)
      BY <3>1, RankTypes, OwedArrived DEF Owes
    <3>3. \A d \in Datasets : Len(queue[r][d]) <= 1
      BY <3>2, RankTypes, EmptySeq DEF Owes, Owed
    <3>4. QED
      BY <1>1, <1>2, <2>1, <3>2, <3>3, RankTypes
         DEF Flow, Owes, Prefetching, Generating
  <2>4. QED
    BY <2>2, <2>3
<1>5. ASSUME ~Async PROVE Inline(r)'
  BY <1>1, <1>2, <1>5 DEF RankInv, Inline, Prefetching
<1>6. QED
  BY <1>3, <1>4, <1>5 DEF RankInv

LEMMA EvalEndInv ==
    ASSUME TypeOK, NEW r \in Ranks, RankInv(r), EvalEnd(r)
    PROVE  RankInv(r)'
<1> USE DEF At, Goto, Loaded, rankVars, flowVars, syncVars
<1>1. /\ caller'[r] = caller[r] /\ globalStep'[r] = globalStep[r]
      /\ lastLoaded'[r] = lastLoaded[r] /\ evaluating'[r] = FALSE
      /\ shouldEvaluate'[r] = FALSE /\ evalFlag'[r] = TRUE
      /\ evalIdx'[r] = 0 /\ evalIdx[r] = EvalBatches
      /\ queue'[r] = queue[r] /\ pool'[r] = pool[r] /\ pc[r] = "eval_batch"
  BY DEF EvalEnd, TypeOK
<1>2. \/ caller[r] = "start" /\ pc'[r] = "train_step"
      \/ caller[r] = "step" /\ pc'[r] = "epoch_end"
      \/ caller[r] = "epoch" /\ pc'[r] = NextStep(r)
  BY RankTypes DEF EvalEnd, TypeOK
<1>3. pc'[r] \in {"train_step", "epoch_end", "done"}
  BY <1>2 DEF NextStep
<1>4. Mode(r)' /\ Fresh(r)'
  BY <1>1, <1>3 DEF RankInv, Mode, Fresh, Prefetching
<1>5. ASSUME Async PROVE Flow(r)'
  <2>1. evaluating[r] /\ (shouldEvaluate[r] <=> caller[r] # "start")
    BY <1>1 DEF RankInv, Mode
  <2>2. Loaded(r)
    BY <1>1, RolloutAssumption DEF RankInv, Fresh
  <2>3. Second(r) \/ Owes(r, CurrentQueue(r), 1)
    BY <1>1, <1>5 DEF RankInv, Flow, Generating
  <2>4. CASE caller[r] = "start"
    BY <1>1, <1>2, <2>1, <2>3, <2>4
       DEF Flow, Owes, Second, CurrentQueue, Prefetching, Generating
  <2>5. CASE caller[r] = "step"
    <3>1. globalStep[r] \in EvalSteps \cup {MaxSteps}
      BY <2>1, <2>5 DEF RankInv, Mode
    <3>2. Owes(r, "eval", 1)
      BY <2>1, <2>3, <2>5 DEF Second, CurrentQueue
    <3>3. QED
      BY <1>1, <1>2, <2>2, <2>5, <3>1, <3>2
         DEF Flow, Owes, Prefetching, Generating
  <2>6. CASE caller[r] = "epoch"
    <3>1. Second(r) => pc'[r] = "done"
      BY <1>2, <2>6 DEF Second, NextStep
    <3>2. ~Second(r) => Owes(r, "eval", 1)
      BY <2>1, <2>3, <2>6 DEF CurrentQueue
    <3>3. pc'[r] \in {"train_step", "done"}
      BY <1>2, <2>6 DEF NextStep
    <3>4. Second(r) => EvaluatedTwice
      BY DEF Second
    <3>5. QED
      BY <1>1, <3>1, <3>2, <3>3, <3>4, RankTypes
         DEF Flow, Owes, Prefetching, Generating
  <2>7. QED
    BY <2>4, <2>5, <2>6, RankTypes
<1>6. ASSUME ~Async PROVE Inline(r)'
  BY <1>1, <1>3, <1>6 DEF RankInv, Inline, Prefetching
<1>7. QED
  BY <1>4, <1>5, <1>6 DEF RankInv

-----------------------------------------------------------------------------
(* The steps all ranks take together.                                       *)

LEMMA CollectiveInv ==
    ASSUME TypeOK, NEW r \in Ranks, RankInv(r), Collective
    PROVE  RankInv(r)'
<1> USE DEF At, Loaded, rankVars, flowVars, syncVars
<1>1. /\ caller'[r] = caller[r] /\ globalStep'[r] = globalStep[r]
      /\ lastLoaded'[r] = lastLoaded[r] /\ evaluating'[r] = evaluating[r]
      /\ shouldEvaluate'[r] = shouldEvaluate[r]
      /\ evalFlag'[r] = evalFlag[r] /\ evalIdx'[r] = evalIdx[r]
      /\ queue'[r] = queue[r] /\ pool'[r] = pool[r]
  BY DEF Collective, GatherMessages, GatherInputs, GatherRequests, ShareResults
<1>2. /\ Second(r)' = Second(r) /\ CurrentQueue(r)' = CurrentQueue(r)
      /\ Waiting(r)' = Waiting(r)
  BY <1>1 DEF Second, LastStep, CurrentQueue, Waiting
<1>3. \/ pc[r] = "pf_messages" /\ pc'[r] = "pf_inputs"
      \/ pc[r] = "messages" /\ pc'[r] = "sync"
      \/ pc[r] = "pf_inputs" /\ pc'[r] = "pf_sync"
      \/ pc[r] = "inputs" /\ pc'[r] = "submit"
      \/ pc[r] = "requests" /\ pc'[r] = "results"
      \/ /\ pc[r] = "results"
         /\ \/ pc'[r] = "messages" /\ ~evaluating[r]
            \/ pc'[r] = "eval_batch" /\ evaluating[r]
            \/ pc'[r] = "backward" /\ ~evaluating[r]
  <2>1. CASE GatherMessages
    BY <2>1 DEF GatherMessages, Meet, ExchangePoints, Exchange
  <2>2. CASE GatherInputs
    BY <2>2 DEF GatherInputs, Meet, ExchangePoints, Exchange
  <2>3. CASE GatherRequests
    BY <2>3 DEF GatherRequests, Meet, ExchangePoints, Exchange
  <2>4. CASE ShareResults
    BY <2>4 DEF ShareResults, Meet, ExchangePoints, Exchange
  <2>5. QED
    BY <2>1, <2>2, <2>3, <2>4 DEF Collective
<1>4. Mode(r)' /\ Fresh(r)'
  BY <1>1, <1>3 DEF RankInv, Mode, Fresh, Prefetching
<1>5. ASSUME Async PROVE Flow(r)'
  <2>1. pc'[r] = "backward" => ~Second(r) /\ CurrentQueue(r) = "train"
    BY <1>3 DEF RankInv, Mode, Second, CurrentQueue
  <2>2. QED
    BY <1>1, <1>2, <1>3, <1>5, <2>1
       DEF RankInv, Flow, Owes, Prefetching, Generating
<1>6. ASSUME ~Async PROVE Inline(r)'
  BY <1>1, <1>3, <1>6 DEF RankInv, Inline, Prefetching
<1>7. QED
  BY <1>4, <1>5, <1>6 DEF RankInv

LEMMA InitIInv == Init => IInv
<1> SUFFICES ASSUME Init, NEW r \in Ranks PROVE RankInv(r)
  BY DEF IInv
<1> USE DEF At
<1>1. /\ caller[r] = "start" /\ globalStep[r] = 0 /\ evaluating[r] = FALSE
      /\ shouldEvaluate[r] = FALSE /\ evalIdx[r] = 0
      /\ pool[r] = <<>> /\ \A d \in Datasets : queue[r][d] = <<>>
      /\ pc[r] = IF Async THEN "train_begin"
                 ELSE IF EvalOnStart THEN "eval_wait" ELSE "train_step"
  BY DEF Init
<1>2. Mode(r) /\ Fresh(r)
  BY <1>1 DEF Mode, Fresh, Prefetching
<1>3. ASSUME Async PROVE Flow(r)
  BY <1>1, <1>3 DEF Flow, Prefetching, Generating
<1>4. ASSUME ~Async PROVE Inline(r)
  BY <1>1, <1>4 DEF Inline, Prefetching
<1>5. QED
  BY <1>2, <1>3, <1>4 DEF RankInv

LEMMA StepIInv == TypeOK /\ BusyOK /\ IInv /\ [Next]_vars => IInv'
<1> SUFFICES ASSUME TypeOK, BusyOK, IInv, [Next]_vars, NEW s \in Ranks
             PROVE  RankInv(s)'
  BY DEF IInv
<1>1. RankInv(s)
  BY DEF IInv
<1>2. CASE Collective
  BY <1>1, <1>2, CollectiveInv
<1>3. ASSUME NEW r \in Ranks, MainThread(r) \/ Worker(r), r # s
      PROVE  RankInv(s)'
  BY <1>1, <1>3, OtherRank
<1>4. CASE Worker(s)
  BY <1>1, <1>4, WorkerInv
<1>5. CASE MainThread(s)
  BY <1>1, <1>5, Passing, SyncInv, PrefetchSyncInv, PrefetchInferInv,
     TrainStepInv, BackwardInv, StepEndInv, EpochEndInv, EvalWaitInv,
     EvalEndInv DEF MainThread
<1>6. CASE UNCHANGED vars
  BY <1>1, <1>6, RankUnmoved DEF vars, rankVars, flowVars, syncVars
<1>7. QED
  BY <1>2, <1>3, <1>4, <1>5, <1>6 DEF Next, Finished

-----------------------------------------------------------------------------
(* The weights of the engine change in two places; at both the invariant    *)
(* says that nothing of Main is in flight.                                  *)

LEMMA EngineKept ==
    ASSUME NEW r \in Ranks, MainThread(r), ~Sync(r), ~PrefetchSync(r)
    PROVE  engine' = engine
<1>1. CASE TrainBegin(r) \/ PrefetchInfer(r) \/ Submit(r) \/ Get(r)
  BY <1>1 DEF TrainBegin, PrefetchInfer, Submit, Get, syncVars
<1>2. CASE TrainStep(r) \/ Backward(r)
  BY <1>2 DEF TrainStep, Backward, syncVars
<1>3. CASE StepEnd(r) \/ EpochEnd(r)
  BY <1>3 DEF StepEnd, EpochEnd, syncVars
<1>4. CASE EvalWait(r) \/ EvalBatch(r)
  BY <1>4 DEF EvalWait, EvalBatch, syncVars
<1>5. CASE EvalEnd(r)
  BY <1>5, Zenon DEF EvalEnd, syncVars
<1>6. QED
  BY <1>1, <1>2, <1>3, <1>4, <1>5 DEF MainThread

LEMMA EngineChange ==
    ASSUME [Next]_vars, engine' # engine
    PROVE  \E r \in Ranks : Sync(r) \/ PrefetchSync(r)
<1>1. ~Collective
  BY DEF Collective, GatherMessages, GatherInputs, GatherRequests, ShareResults,
         syncVars
<1>2. \A r \in Ranks : ~Worker(r)
  BY DEF Worker, StartTask, FinishTask, FailTask, syncVars
<1>3. ~Finished /\ ~UNCHANGED vars
  BY DEF Finished, vars, syncVars
<1>4. PICK r \in Ranks : MainThread(r)
  BY <1>1, <1>2, <1>3 DEF Next
<1>5. QED
  BY <1>4, EngineKept

LEMMA QuietSync ==
    ASSUME TypeOK, BusyOK, IInv, [Next]_vars, engine' # engine
    PROVE  pool[Main] = <<>>
<1> USE DEF At, Loaded
<1>1. Main \in Ranks /\ RankInv(Main)
  BY RolloutAssumption DEF IInv
<1>2. PICK r \in Ranks : Sync(r) \/ PrefetchSync(r)
  BY EngineChange
<1>3. r = Main /\ globalStep[Main] # lastLoaded[Main]
  BY <1>2 DEF Sync, PrefetchSync, LoadWeights, syncVars
<1>4. CASE ~Async
  BY <1>1, <1>4 DEF RankInv, Inline
<1>5. CASE Async /\ Sync(Main)
  <2>1. queue[Main][CurrentQueue(Main)] # <<>> /\ pc[Main] = "sync"
    BY <1>3, <1>5 DEF Sync, Waiting, syncVars
  <2>2. Owes(Main, CurrentQueue(Main), 1)
    BY <1>1, <1>3, <1>5, <2>1 DEF RankInv, Flow, Second, Generating
  <2>3. QED
    BY <1>1, <2>1, <2>2, RankTypes, OwedArrived DEF Owes
<1>6. CASE Async /\ PrefetchSync(Main)
  BY <1>1, <1>3, <1>6 DEF RankInv, Flow, Second, Prefetching, PrefetchSync
<1>7. QED
  BY <1>2, <1>3, <1>4, <1>5, <1>6

\* The engine never receives weights while a rollout of the main process is
\* running on it or queued for it.
THEOREM WeightsAtRest == Spec => NoSyncDuringRollout
<1>1. Init => TypeOK /\ BusyOK /\ IInv
  BY InitType, InitBusy, InitIInv
<1>2. TypeOK /\ BusyOK /\ IInv /\ [Next]_vars => (TypeOK /\ BusyOK /\ IInv)'
  BY StepType, StepBusy, StepIInv
<1>3. TypeOK /\ BusyOK /\ IInv /\ [Next]_vars
        => [engine' # engine => pool[Main] = <<>>]_engine
  BY QuietSync
<1>4. QED
  BY <1>1, <1>2, <1>3, PTL DEF Spec, NoSyncDuringRollout

-----------------------------------------------------------------------------
(***************************************************************************)
(* With which weights.  Every rollout is generated by weights that were    *)
(* loaded.  The engine starts with dummy ones; that none of its rollouts   *)
(* is made with those rests on the order of the first prefetch, and, where *)
(* the weights are not loaded again, on what the trainer has noted as      *)
(* loaded.                                                                 *)
(***************************************************************************)
\* The weights of a rollout were loaded.
Loads(x) == x.weights # Dummy
AllLoaded(s) == \A i \in DOMAIN s : Loads(s[i])

LEMMA LoadedAppend ==
    ASSUME NEW s \in Seq(Rollout), NEW x \in Rollout, AllLoaded(s), Loads(x)
    PROVE  AllLoaded(Append(s, x))
<1>1. /\ DOMAIN Append(s, x) = 1..(Len(s) + 1) /\ DOMAIN s = 1..Len(s)
      /\ \A i \in 1..(Len(s) + 1) :
            Append(s, x)[i] = IF i = Len(s) + 1 THEN x ELSE s[i]
      /\ Len(s) \in Nat
  BY AppendProperties, LenProperties
<1>2. QED
  BY <1>1 DEF AllLoaded

LEMMA LoadedHeadTail ==
    ASSUME NEW s \in Seq(Rollout), s # <<>>, AllLoaded(s)
    PROVE  AllLoaded(Tail(s)) /\ Loads(Head(s))
<1>1. /\ Head(s) = s[1] /\ 1 \in DOMAIN s /\ DOMAIN s = 1..Len(s)
      /\ DOMAIN Tail(s) = 1..(Len(s) - 1) /\ Len(s) \in Nat
      /\ \A i \in 1..(Len(s) - 1) : Tail(s)[i] = s[i + 1]
  BY HeadTailProperties, EmptySeq, LenProperties
<1>2. QED
  BY <1>1 DEF AllLoaded

-----------------------------------------------------------------------------
\* Where the main process is before the first weights are loaded.
Starting == {"train_begin", "pf_messages", "pf_inputs", "pf_sync"}

\* What the trainer has noted as loaded is what the engine has.
NotedInv == engine = lastLoaded[Main]

\* The engine has weights wherever it may be asked for a rollout.
ReadyInv ==
    /\ pc[Main] = "requests" => engine # Dummy
    /\ Async => \/ engine # Dummy
                \/ pc[Main] \in Starting /\ pool[Main] = <<>>

\* No rollout that runs, waits or was handed out is of the dummy weights.
QueuedInv == \A d \in Datasets : AllLoaded(queue[Main][d])
RunningInv == busy[Main] => Loads(pool[Main][1])
TakenInv == At(Main, "results") => Loads(got[Main])

WeightsInv == NotedInv /\ ReadyInv /\ QueuedInv /\ RunningInv /\ TakenInv

LEMMA MainTypes ==
    ASSUME TypeOK
    PROVE  /\ Main \in Ranks
           /\ pool[Main] \in Seq(Rollout) /\ got[Main] \in Rollout
           /\ queue[Main] \in [Datasets -> Seq(Rollout)]
           /\ globalStep[Main] \in Nat /\ engine \in Int
           /\ CurrentQueue(Main) \in Datasets
BY RolloutAssumption, RankTypes DEF TypeOK

LEMMA InitWeights == Init => WeightsInv
<1> SUFFICES ASSUME Init PROVE WeightsInv
  OBVIOUS
<1>1. Main \in Ranks
  BY RolloutAssumption
<1>2. \A d \in Datasets : queue[Main][d] = <<>>
  BY <1>1 DEF Init
<1>3. QueuedInv
  BY <1>2 DEF QueuedInv, AllLoaded
<1>4. NotedInv
  BY <1>1 DEF Init, NotedInv, Dummy
<1>5. pool[Main] = <<>> /\ ~busy[Main]
  BY <1>1 DEF Init
<1>6. pc[Main] = IF Async THEN "train_begin"
                 ELSE IF EvalOnStart THEN "eval_wait" ELSE "train_step"
  BY <1>1 DEF Init
<1>7. QED
  BY <1>3, <1>4, <1>5, <1>6 DEF WeightsInv, ReadyInv, Starting, RunningInv, TakenInv, At

-----------------------------------------------------------------------------
(* A step that touches neither the engine nor the rollouts.                 *)

LEMMA Moved ==
    ASSUME WeightsInv,
           engine' = engine, lastLoaded'[Main] = lastLoaded[Main],
           queue'[Main] = queue[Main], pool'[Main] = pool[Main],
           busy'[Main] = busy[Main], got'[Main] = got[Main],
           pc'[Main] = pc[Main] \/ pc'[Main] \notin {"requests", "results"},
           pc[Main] \in Starting => pc'[Main] \in Starting
    PROVE  WeightsInv'
<1>1. NotedInv' /\ ReadyInv'
  BY DEF WeightsInv, NotedInv, ReadyInv
<1>2. QueuedInv'
  BY DEF WeightsInv, QueuedInv, AllLoaded, Loads
<1>3. RunningInv' /\ TakenInv'
  BY DEF WeightsInv, RunningInv, TakenInv, Loads, At
<1>4. QED
  BY <1>1, <1>2, <1>3 DEF WeightsInv

\* The other ranks touch nothing that belongs to the main process.
LEMMA MainUntouched ==
    ASSUME TypeOK, NEW r \in Ranks, r # Main, MainThread(r) \/ Worker(r)
    PROVE  /\ engine' = engine /\ lastLoaded'[Main] = lastLoaded[Main]
           /\ globalStep'[Main] = globalStep[Main]
           /\ microStep'[Main] = microStep[Main]
           /\ evaluating'[Main] = evaluating[Main]
           /\ queue'[Main] = queue[Main] /\ pool'[Main] = pool[Main]
           /\ busy'[Main] = busy[Main] /\ got'[Main] = got[Main]
           /\ pc'[Main] = pc[Main]
<1> USE DEF Goto, rankVars, flowVars, syncVars, LoadWeights, Evaluate
<1>1. Main \in Ranks
  BY MainTypes
<1>2. CASE Worker(r)
  <2>0. /\ queue \in [Ranks -> [Datasets -> Seq(Rollout)]]
        /\ pool \in [Ranks -> Seq(Rollout)] /\ busy \in [Ranks -> BOOLEAN]
    BY DEF TypeOK
  <2>1. /\ UNCHANGED <<pc, got, engine, lastLoaded>>
        /\ UNCHANGED <<globalStep, microStep, evaluating>>
    <3>1. CASE StartTask(r)
      BY <3>1 DEF StartTask
    <3>2. CASE FinishTask(r)
      BY <3>2 DEF FinishTask
    <3>3. CASE FailTask(r)
      BY <3>3 DEF FailTask
    <3>4. QED
      BY <1>2, <3>1, <3>2, <3>3 DEF Worker
  <2>2. CASE StartTask(r)
    <3>1. queue' = queue /\ busy' = [busy EXCEPT ![r] = TRUE]
      BY <2>2 DEF StartTask
    <3>2. pool'[Main] = pool[Main]
      BY <1>1, <2>0, <2>2, StartedTask
    <3>3. busy'[Main] = busy[Main]
      BY <1>1, <2>0, <3>1
    <3>4. QED
      BY <2>1, <3>1, <3>2, <3>3
  <2>3. CASE FinishTask(r)
    <3>1. /\ busy'[Main] = busy[Main] /\ pool'[Main] = pool[Main]
          /\ queue'[Main] = queue[Main]
      BY <1>1, <2>0, <2>3 DEF FinishTask
    <3>2. QED
      BY <2>1, <3>1
  <2>4. CASE FailTask(r)
    BY <1>1, <2>4 DEF FailTask
  <2>5. QED
    BY <1>2, <2>2, <2>3, <2>4 DEF Worker
<1>3. CASE MainThread(r)
  <2> USE DEF MainThread, TrainBegin, PrefetchSync, PrefetchInfer, Sync, Submit,
         Get, TrainStep, Backward, StepEnd, EpochEnd, EvalWait, EvalBatch, EvalEnd
  <2>1. pc'[Main] = pc[Main]
    BY <1>1, <1>3, SMTT(30) DEF TypeOK
  <2>2. engine' = engine /\ lastLoaded'[Main] = lastLoaded[Main]
    BY <1>1, <1>3 DEF TypeOK
  <2>3. queue'[Main] = queue[Main] /\ pool'[Main] = pool[Main]
    BY <1>1, <1>3 DEF TypeOK
  <2>4. busy'[Main] = busy[Main] /\ got'[Main] = got[Main]
    BY <1>1, <1>3 DEF TypeOK
  <2>5. /\ globalStep'[Main] = globalStep[Main]
        /\ microStep'[Main] = microStep[Main]
        /\ evaluating'[Main] = evaluating[Main]
    BY <1>1, <1>3, SMTT(30) DEF TypeOK
  <2>6. QED
    BY <2>1, <2>2, <2>3, <2>4, <2>5
<1>4. QED
  BY <1>2, <1>3

LEMMA OthersWeights ==
    ASSUME TypeOK, WeightsInv, NEW r \in Ranks, r # Main,
           MainThread(r) \/ Worker(r)
    PROVE  WeightsInv'
BY MainUntouched, Moved

-----------------------------------------------------------------------------
(* The steps of the main process.                                           *)

\* Wherever weights are needed, the engine has those of a step.
LEMMA NotedWeights ==
    ASSUME TypeOK, NotedInv, lastLoaded[Main] = globalStep[Main]
    PROVE  engine # Dummy
BY MainTypes DEF NotedInv, Dummy

LEMMA LoadedWeights ==
    ASSUME TypeOK, LoadWeights(Main)
    PROVE  engine' # Dummy /\ NotedInv'
<1>1. lastLoaded'[Main] = globalStep[Main] /\ engine' = globalStep[Main]
  BY MainTypes DEF LoadWeights, TypeOK
<1>2. QED
  BY <1>1, MainTypes DEF NotedInv, Dummy

LEMMA SyncWeights ==
    ASSUME TypeOK, WeightsInv, Sync(Main) \/ PrefetchSync(Main)
    PROVE  WeightsInv'
<1> USE DEF At, Goto
<1>1. Main \in Ranks
  BY MainTypes
<1>2. /\ queue' = queue /\ pool' = pool /\ busy' = busy /\ got' = got
      /\ globalStep' = globalStep
  BY DEF Sync, PrefetchSync, rankVars, flowVars
<1>3. engine' # Dummy /\ NotedInv'
  <2>1. CASE LoadWeights(Main)
    BY <2>1, LoadedWeights
  <2>2. CASE lastLoaded[Main] = globalStep[Main] /\ UNCHANGED syncVars
    BY <2>2, NotedWeights DEF WeightsInv, NotedInv, syncVars
  <2>3. QED
    BY <2>1, <2>2 DEF Sync, PrefetchSync
<1>4. pc'[Main] # "results"
  BY <1>1 DEF Sync, PrefetchSync, TypeOK
<1>5. QueuedInv' /\ RunningInv'
  BY <1>2 DEF WeightsInv, QueuedInv, RunningInv, AllLoaded, Loads
<1>6. ReadyInv' /\ TakenInv'
  BY <1>3, <1>4 DEF ReadyInv, TakenInv
<1>7. QED
  BY <1>3, <1>5, <1>6 DEF WeightsInv

LEMMA PrefetchWeights ==
    ASSUME TypeOK, WeightsInv, RankInv(Main), PrefetchInfer(Main)
    PROVE  WeightsInv'
<1> USE DEF At, Goto
<1> DEFINE x == NewRollout(Main, engine)
<1>1. Main \in Ranks /\ pc[Main] = "pf_infer"
  BY MainTypes DEF PrefetchInfer
<1>2. Async
  BY <1>1 DEF RankInv, Inline, Prefetching
<1>3. engine # Dummy
  BY <1>1, <1>2 DEF WeightsInv, ReadyInv, Starting
<1>4. /\ pool' = pool /\ busy' = busy /\ got' = got
      /\ engine' = engine /\ lastLoaded' = lastLoaded
  BY DEF PrefetchInfer, syncVars
<1>5. pc'[Main] \in {"eval_batch", "eval_wait", "train_step"}
  <2>1. \E l \in {"eval_batch", "eval_wait", "train_step"} :
            pc' = [pc EXCEPT ![Main] = l]
    BY Zenon DEF PrefetchInfer
  <2>2. QED
    BY <1>1, <2>1 DEF TypeOK
<1>6. queue'[Main] = [queue[Main] EXCEPT ![CurrentQueue(Main)] = Append(@, x)]
  BY <1>1 DEF PrefetchInfer, TypeOK
<1>7. x \in Rollout /\ Loads(x)
  <2>1. x \in Rollout
    BY MainTypes, NewRolloutType
  <2>2. x.weights = engine
    BY DEF NewRollout
  <2>3. QED
    BY <1>3, <2>1, <2>2 DEF Loads
<1>8. QueuedInv'
  <2>1. \A d \in Datasets : AllLoaded(queue'[Main][d])
    BY <1>6, <1>7, MainTypes, LoadedAppend DEF WeightsInv, QueuedInv
  <2>2. QED
    BY <2>1 DEF QueuedInv, AllLoaded, Loads
<1>9. NotedInv' /\ RunningInv'
  BY <1>4 DEF WeightsInv, NotedInv, RunningInv, Loads
<1>10. ReadyInv' /\ TakenInv'
  BY <1>3, <1>4, <1>5 DEF ReadyInv, TakenInv
<1>11. QED
  BY <1>8, <1>9, <1>10 DEF WeightsInv

LEMMA SubmitWeights ==
    ASSUME TypeOK, BusyOK, WeightsInv, RankInv(Main), Submit(Main)
    PROVE  WeightsInv'
<1> USE DEF At, Goto
<1> DEFINE x == NewRollout(Main, Dummy)
<1>1. Main \in Ranks /\ pc[Main] = "submit"
  BY MainTypes DEF Submit
<1>2. engine # Dummy
  BY <1>1 DEF RankInv, Inline, WeightsInv, ReadyInv, Starting
<1>3. /\ queue' = queue /\ busy' = busy /\ got' = got
      /\ engine' = engine /\ lastLoaded' = lastLoaded
  BY DEF Submit, syncVars
<1>4. pc'[Main] = "get" /\ pool'[Main] = Append(pool[Main], x)
  BY <1>1 DEF Submit, TypeOK
<1>5. x \in Rollout
  BY MainTypes, NewRolloutType DEF Dummy
<1>6. RunningInv'
  <2>1. SUFFICES ASSUME busy[Main] PROVE Loads(pool'[Main][1])
    BY <1>3 DEF RunningInv, Loads
  <2>2. pool[Main] # <<>> /\ Loads(pool[Main][1])
    BY <1>1, <2>1 DEF BusyOK, WeightsInv, RunningInv
  <2>3. 1 \in 1..Len(pool[Main]) /\ Len(pool[Main]) \in Nat
    BY <2>2, MainTypes, EmptySeq, LenProperties
  <2>4. Append(pool[Main], x)[1] = pool[Main][1]
    BY <1>5, <2>3, MainTypes, AppendProperties
  <2>5. QED
    BY <1>4, <2>2, <2>4
<1>7. QueuedInv' /\ NotedInv'
  BY <1>3 DEF WeightsInv, QueuedInv, NotedInv, AllLoaded, Loads
<1>8. ReadyInv' /\ TakenInv'
  BY <1>2, <1>3, <1>4 DEF ReadyInv, TakenInv
<1>9. QED
  BY <1>6, <1>7, <1>8 DEF WeightsInv

LEMMA GetWeights ==
    ASSUME TypeOK, WeightsInv, RankInv(Main), Get(Main)
    PROVE  WeightsInv'
<1> USE DEF At, Goto
<1> DEFINE d == CurrentQueue(Main)
<1>1. Main \in Ranks /\ pc[Main] = "get" /\ queue[Main][d] # <<>>
  BY MainTypes DEF Get, Waiting
<1>2. engine # Dummy
  BY <1>1 DEF RankInv, Inline, WeightsInv, ReadyInv, Starting
<1>3. /\ pool' = pool /\ busy' = busy
      /\ engine' = engine /\ lastLoaded' = lastLoaded
  BY DEF Get, syncVars
<1>4. /\ pc'[Main] = "results" /\ got'[Main] = Head(queue[Main][d])
      /\ queue'[Main] = [queue[Main] EXCEPT ![d] = Tail(@)]
  BY <1>1 DEF Get, Waiting, TypeOK
<1>5. AllLoaded(Tail(queue[Main][d])) /\ Loads(Head(queue[Main][d]))
  BY <1>1, MainTypes, LoadedHeadTail DEF WeightsInv, QueuedInv
<1>6. QueuedInv'
  <2>1. \A e \in Datasets : AllLoaded(queue'[Main][e])
    BY <1>4, <1>5, MainTypes DEF WeightsInv, QueuedInv
  <2>2. QED
    BY <2>1 DEF QueuedInv, AllLoaded, Loads
<1>7. TakenInv'
  BY <1>4, <1>5 DEF TakenInv, Loads
<1>8. NotedInv' /\ RunningInv'
  BY <1>3 DEF WeightsInv, NotedInv, RunningInv, Loads
<1>9. ReadyInv'
  BY <1>2, <1>3, <1>4 DEF ReadyInv
<1>10. QED
  BY <1>6, <1>7, <1>8, <1>9 DEF WeightsInv

\* The executor starts a rollout with the weights the engine has.
LEMMA StartWeights ==
    ASSUME TypeOK, WeightsInv, RankInv(Main), StartTask(Main)
    PROVE  WeightsInv'
<1>1. Main \in Ranks /\ pool[Main] \in Seq(Rollout) /\ pool[Main] # <<>>
  BY MainTypes DEF StartTask
<1>2. Async /\ engine # Dummy
  BY <1>1 DEF RankInv, Inline, WeightsInv, ReadyInv
<1>3. /\ pc' = pc /\ queue' = queue /\ got' = got
      /\ engine' = engine /\ lastLoaded' = lastLoaded
  BY DEF StartTask, syncVars
<1>4. Loads(pool'[Main][1])
  <2>1. pool' = [pool EXCEPT ![Main] = [pool[Main] EXCEPT ![1].weights = engine]]
    BY DEF StartTask
  <2>2. pool'[Main] = [pool[Main] EXCEPT ![1].weights = engine]
    BY <1>1, <2>1 DEF TypeOK
  <2>3. 1 \in DOMAIN pool[Main] /\ pool[Main][1] \in Rollout
    BY <1>1, EmptySeq, LenProperties, ElementOfSeq
  <2>4. [pool[Main] EXCEPT ![1].weights = engine][1].weights = engine
    BY <2>3 DEF Rollout
  <2>5. QED
    BY <1>2, <2>2, <2>4 DEF Loads
<1>5. QueuedInv' /\ NotedInv' /\ TakenInv'
  BY <1>3 DEF WeightsInv, QueuedInv, NotedInv, TakenInv, AllLoaded, Loads, At
<1>6. RunningInv'
  BY <1>4 DEF RunningInv, Loads
<1>7. ReadyInv'
  BY <1>2, <1>3 DEF ReadyInv
<1>8. QED
  BY <1>5, <1>6, <1>7 DEF WeightsInv

LEMMA EndedWeights ==
    ASSUME TypeOK, BusyOK, WeightsInv, FinishTask(Main) \/ FailTask(Main)
    PROVE  WeightsInv'
<1> DEFINE x == Head(pool[Main])
<1>1. /\ Main \in Ranks /\ busy[Main] /\ pool[Main] # <<>>
      /\ pool[Main] \in Seq(Rollout)
  BY MainTypes DEF FinishTask, FailTask, BusyOK
<1>2. /\ pc' = pc /\ got' = got /\ engine' = engine /\ lastLoaded' = lastLoaded
      /\ busy' = [busy EXCEPT ![Main] = FALSE]
      /\ pool' = [pool EXCEPT ![Main] = Tail(@)]
  BY DEF FinishTask, FailTask, syncVars
<1>3. x \in Rollout /\ x.dest \in Datasets /\ x = pool[Main][1]
  BY <1>1, TakenTask, HeadTailProperties
<1>4. Loads(x)
  BY <1>1, <1>3 DEF WeightsInv, RunningInv
<1>5. QueuedInv'
  <2>1. ASSUME NEW d \in Datasets PROVE AllLoaded(queue'[Main][d])
    <3>1. CASE FailTask(Main)
      BY <3>1 DEF FailTask, WeightsInv, QueuedInv
    <3>2. CASE FinishTask(Main)
      <4>1. queue'[Main] = [queue[Main] EXCEPT ![x.dest] = Append(@, x)]
        BY <1>1, <3>2 DEF FinishTask, TypeOK
      <4>2. AllLoaded(queue[Main][d]) /\ queue[Main][d] \in Seq(Rollout)
        BY MainTypes DEF WeightsInv, QueuedInv
      <4>3. AllLoaded(Append(queue[Main][d], x))
        BY <1>3, <1>4, <4>2, LoadedAppend
      <4>4. QED
        BY <1>3, <4>1, <4>2, <4>3, MainTypes
    <3>3. QED
      BY <3>1, <3>2
  <2>2. QED
    BY <2>1 DEF QueuedInv, AllLoaded, Loads
<1>6. RunningInv'
  BY <1>1, <1>2 DEF RunningInv, TypeOK
<1>7. ReadyInv'
  <2>1. pool[Main] = <<>> => FALSE
    BY <1>1
  <2>2. QED
    BY <1>2, <2>1 DEF WeightsInv, ReadyInv
<1>8. NotedInv' /\ TakenInv'
  BY <1>2 DEF WeightsInv, NotedInv, TakenInv, Loads, At
<1>9. QED
  BY <1>5, <1>6, <1>7, <1>8 DEF WeightsInv

\* The steps of the trainer's loop, which only move.
LEMMA LoopWeights ==
    ASSUME TypeOK, WeightsInv, RankInv(Main), MainThread(Main),
           ~Sync(Main), ~PrefetchSync(Main), ~PrefetchInfer(Main),
           ~Submit(Main), ~Get(Main)
    PROVE  WeightsInv'
<1> USE DEF At, Goto, Evaluate, NextStep, rankVars, flowVars, syncVars
<1> DEFINE Targets == {"pf_messages", "messages", "backward", "step_end",
                       "train_step", "eval_wait", "epoch_end", "done",
                       "eval_batch"}
<1>1. Main \in Ranks
  BY MainTypes
<1>2. UNCHANGED <<queue, pool, busy, got, engine, lastLoaded>>
  <2>1. CASE TrainBegin(Main) \/ TrainStep(Main) \/ Backward(Main)
    BY <2>1 DEF TrainBegin, TrainStep, Backward
  <2>2. CASE StepEnd(Main) \/ EpochEnd(Main)
    BY <2>2 DEF StepEnd, EpochEnd
  <2>3. CASE EvalWait(Main) \/ EvalBatch(Main)
    BY <2>3 DEF EvalWait, EvalBatch
  <2>4. CASE EvalEnd(Main)
    BY <2>4, Zenon DEF EvalEnd
  <2>5. QED
    BY <2>1, <2>2, <2>3, <2>4 DEF MainThread
<1>3. ~EvalEnd(Main) => \E l \in Targets : pc' = [pc EXCEPT ![Main] = l]
  <2>1. CASE TrainBegin(Main)
    BY <2>1 DEF TrainBegin
  <2>2. CASE TrainStep(Main)
    BY <2>2, Zenon DEF TrainStep
  <2>3. CASE Backward(Main)
    BY <2>3, Zenon DEF Backward
  <2>4. CASE StepEnd(Main)
    BY <2>4, Zenon DEF StepEnd
  <2>5. CASE EpochEnd(Main)
    BY <2>5, Zenon DEF EpochEnd
  <2>6. CASE EvalWait(Main)
    BY <2>6, Zenon DEF EvalWait
  <2>7. CASE EvalBatch(Main)
    BY <2>7 DEF EvalBatch
  <2>8. QED
    BY <2>1, <2>2, <2>3, <2>4, <2>5, <2>6, <2>7, Zenon DEF MainThread
<1>4. pc'[Main] \in Targets
  <2>1. CASE ~EvalEnd(Main)
    BY <1>1, <1>3, <2>1 DEF TypeOK
  <2>2. CASE EvalEnd(Main)
    <3>1. \/ caller[Main] = "start" /\ pc'[Main] = "train_step"
          \/ caller[Main] = "step" /\ pc'[Main] = "epoch_end"
          \/ caller[Main] = "epoch" /\ pc'[Main] = NextStep(Main)
      BY <1>1, <2>2, RankTypes DEF EvalEnd, TypeOK
    <3>2. QED
      BY <3>1
  <2>3. QED
    BY <2>1, <2>2
<1>5. pc[Main] \in Starting => pc'[Main] \in Starting
  BY <1>1 DEF MainThread, TrainBegin, TrainStep, Backward, StepEnd, EpochEnd,
              EvalWait, EvalBatch, EvalEnd, Starting, TypeOK
<1>6. QED
  BY <1>2, <1>4, <1>5, Moved

LEMMA CollectiveWeights ==
    ASSUME TypeOK, WeightsInv, Collective
    PROVE  WeightsInv'
<1> USE DEF At, rankVars, flowVars, syncVars, Meet, ExchangePoints, Exchange
<1>1. Main \in Ranks
  BY MainTypes
<1>2. CASE GatherMessages
  BY <1>1, <1>2, Moved DEF GatherMessages, Starting
<1>3. CASE GatherInputs
  BY <1>1, <1>3, Moved DEF GatherInputs, Starting
<1>4. CASE ShareResults
  BY <1>1, <1>4, Moved DEF ShareResults, Starting
<1>5. CASE GatherRequests
  <2>0. got'[Main] = NewRollout(Main, engine)
    BY <1>1, <1>5, Zenon DEF GatherRequests
  <2>1. /\ UNCHANGED <<queue, pool, busy, engine, lastLoaded>>
        /\ pc[Main] = "requests" /\ pc'[Main] = "results"
        /\ got'[Main] = NewRollout(Main, engine)
    BY <1>1, <1>5, <2>0 DEF GatherRequests
  <2>2. engine # Dummy
    BY <2>1 DEF WeightsInv, ReadyInv
  <2>3. Loads(got'[Main])
    BY <2>1, <2>2 DEF Loads, NewRollout
  <2>4. QueuedInv' /\ NotedInv' /\ RunningInv'
    BY <2>1 DEF WeightsInv, QueuedInv, NotedInv, RunningInv, AllLoaded, Loads
  <2>5. ReadyInv' /\ TakenInv'
    BY <2>1, <2>2, <2>3 DEF ReadyInv, TakenInv, Loads
  <2>6. QED
    BY <2>4, <2>5 DEF WeightsInv
<1>6. QED
  BY <1>2, <1>3, <1>4, <1>5 DEF Collective

-----------------------------------------------------------------------------
LEMMA StepWeights ==
    ASSUME TypeOK, BusyOK, IInv, WeightsInv, [Next]_vars
    PROVE  WeightsInv'
<1>1. Main \in Ranks /\ RankInv(Main)
  BY MainTypes DEF IInv
<1>2. CASE Collective
  BY <1>2, CollectiveWeights
<1>3. ASSUME NEW r \in Ranks, MainThread(r) \/ Worker(r), r # Main
      PROVE  WeightsInv'
  BY <1>3, OthersWeights
<1>4. CASE Worker(Main)
  BY <1>1, <1>4, StartWeights, EndedWeights DEF Worker
<1>5. CASE MainThread(Main)
  BY <1>1, <1>5, SyncWeights, PrefetchWeights, SubmitWeights, GetWeights,
     LoopWeights
<1>6. CASE UNCHANGED vars
  BY <1>6, Moved DEF vars, flowVars, syncVars
<1>7. QED
  BY <1>2, <1>3, <1>4, <1>5, <1>6 DEF Next, Finished

\* No rollout that runs, waits or is handed out was generated by the dummy
\* weights the engine starts with.
THEOREM LoadedAlways == Spec => []NeverDummyWeights
<1>1. Init => TypeOK /\ BusyOK /\ IInv /\ WeightsInv
  BY InitType, InitBusy, InitIInv, InitWeights
<1>2. TypeOK /\ BusyOK /\ IInv /\ WeightsInv /\ [Next]_vars
        => (TypeOK /\ BusyOK /\ IInv /\ WeightsInv)'
  BY StepType, StepBusy, StepIInv, StepWeights
<1>3. WeightsInv => NeverDummyWeights
  BY DEF WeightsInv, QueuedInv, RunningInv, TakenInv, AllLoaded, Loads,
         NeverDummyWeights
<1>4. QED
  BY <1>1, <1>2, <1>3, PTL DEF Spec

-----------------------------------------------------------------------------
(***************************************************************************)
(* How old the weights of a training batch are: TrainLag, for every number *)
(* of micro-steps between two generations and every number of micro-steps  *)
(* in an optimizer step.                                                   *)
(*                                                                         *)
(* A rollout that waits for training was requested in the generation at    *)
(* hand, or in the one before.  The weights it was made with are at least  *)
(* those of that generation's optimizer step, because the engine does not  *)
(* change under it (NoSyncDuringRollout).                                  *)
(***************************************************************************)
\* The micro-steps of the last two generations of a training at micro-step m:
\* of the last before m, and of the last up to m.
OldStep(m) == IF m = 0 THEN 0
              ELSE ((m - 1) \div GenerateEvery) * GenerateEvery
NewStep(m) == (m \div GenerateEvery) * GenerateEvery

\* Weights w are at least those the training had at micro-step m.
Since(w, m) == w >= m \div GradAccum

-----------------------------------------------------------------------------
(* Arithmetic.                                                              *)

LEMMA Schedule == GenerateEvery \in Nat \ {0} /\ GradAccum \in Nat \ {0}
BY RolloutAssumption

LEMMA Division ==
    ASSUME NEW x \in Nat, NEW d \in Nat \ {0}
    PROVE  /\ x \div d \in Nat
           /\ (x \div d) * d \in Nat /\ (x \div d) * d <= x
           /\ x < (x \div d) * d + d
           /\ x % d = x - (x \div d) * d
OBVIOUS

LEMMA Quotient ==
    ASSUME NEW x \in Nat, NEW d \in Nat \ {0}, NEW q \in Nat,
           q * d <= x, x < q * d + d
    PROVE  x \div d = q
OBVIOUS

LEMMA QuotientGrows ==
    ASSUME NEW x \in Nat, NEW y \in Nat, NEW d \in Nat \ {0}, x <= y
    PROVE  x \div d <= y \div d
<1> DEFINE p == x \div d
           q == y \div d
<1>1. p \in Nat /\ q \in Nat /\ p * d <= x /\ y < q * d + d
  BY Division
<1> HIDE DEF p, q
<1>2. SUFFICES ASSUME p >= q + 1 PROVE FALSE
  BY <1>1 DEF p, q
<1>3. p * d >= (q + 1) * d
  BY <1>1, <1>2
<1>4. (q + 1) * d = q * d + d /\ p * d \in Nat /\ q * d \in Nat
  BY <1>1
<1>5. QED
  BY <1>1, <1>3, <1>4

LEMMA Generations ==
    ASSUME NEW m \in Nat
    PROVE  /\ OldStep(m) \in Nat /\ NewStep(m) \in Nat
           /\ OldStep(m) <= NewStep(m) /\ NewStep(m) <= m
           /\ OldStep(m + 1) = NewStep(m)
           /\ m % GenerateEvery # 0 => OldStep(m) = NewStep(m)
           /\ m % GenerateEvery = 0 => m - OldStep(m) <= GenerateEvery
<1> DEFINE d == GenerateEvery
           q == m \div d
           p == (m - 1) \div d
<1>1. d \in Nat \ {0}
  BY Schedule
<1> HIDE DEF d
<1>2. /\ q \in Nat /\ q * d \in Nat /\ q * d <= m /\ m < q * d + d
      /\ m % d = m - q * d
  BY <1>1, Division
<1>3. NewStep(m) = q * d
  BY DEF NewStep, d
<1>4. OldStep(m + 1) = q * d
  BY DEF OldStep, d
<1>5. CASE m = 0
  <2>1. OldStep(m) = 0
    BY <1>5 DEF OldStep
  <2>2. q * d = 0 /\ m % d = 0
    BY <1>2, <1>5
  <2>3. QED
    BY <1>1, <1>2, <1>3, <1>4, <1>5, <2>1, <2>2 DEF d
<1>6. CASE m # 0
  <2>1. m - 1 \in Nat
    BY <1>6
  <2>2. p \in Nat /\ p * d \in Nat /\ p * d <= m - 1 /\ m - 1 < p * d + d
    BY <1>1, <2>1, Division
  <2>3. OldStep(m) = p * d
    BY <1>6 DEF OldStep, d
  <2>4. p <= q
    BY <1>1, <2>1, QuotientGrows
  <2> HIDE DEF p, q
  <2>5. p * d <= q * d
    BY <1>1, <1>2, <2>2, <2>4
  <2>6. m % d # 0 => p = q
    <3>1. SUFFICES ASSUME m % d # 0 PROVE p = q
      OBVIOUS
    <3>2. q * d <= m - 1 /\ m - 1 < q * d + d
      BY <1>1, <1>2, <2>1, <3>1
    <3>3. QED
      BY <1>1, <1>2, <2>1, <3>2, Quotient DEF p
  <2>7. m - p * d <= d
    BY <1>1, <2>2
  <2>8. QED
    BY <1>2, <1>3, <1>4, <2>2, <2>3, <2>5, <2>6, <2>7 DEF d
<1>7. QED
  BY <1>5, <1>6

LEMMA SinceWeaker ==
    ASSUME NEW w \in Int, NEW m \in Nat, NEW n \in Nat, n <= m, Since(w, m)
    PROVE  Since(w, n)
<1>1. n \div GradAccum <= m \div GradAccum
  BY Schedule, QuotientGrows
<1>2. m \div GradAccum \in Nat /\ n \div GradAccum \in Nat
  BY Schedule, Division
<1>3. QED
  BY <1>1, <1>2 DEF Since

\* Weights made at least as late as micro-step n, and not later than m, at
\* most one generation later, are at most Lag steps behind.
LEMMA LagBound ==
    ASSUME Async, NEW w \in Int, NEW m \in Nat, NEW n \in Nat,
           n <= m, m - n <= GenerateEvery,
           Since(w, n), w <= m \div GradAccum
    PROVE  (m \div GradAccum) - w \in 0..Lag
<1> DEFINE d == GradAccum
           g == GenerateEvery
           p == m \div d
           q == n \div d
           l == (g + d - 1) \div d
<1>1. d \in Nat \ {0} /\ g \in Nat \ {0}
  BY Schedule
<1>2. Lag = l
  BY DEF Lag
<1>3. q <= w /\ w <= p
  BY DEF Since
<1>4. m - n <= g
  OBVIOUS
<1> HIDE DEF d, g
<1>5. /\ p \in Nat /\ p * d \in Nat /\ p * d <= m
      /\ q \in Nat /\ q * d \in Nat /\ n < q * d + d
  BY <1>1, Division
<1>6. g + d - 1 \in Nat
  BY <1>1
<1>7. l \in Nat /\ l * d \in Nat /\ g + d - 1 < l * d + d
  BY <1>1, <1>6, Division
<1> HIDE DEF p, q, l
<1>8. p - q <= l
  <2>1. SUFFICES ASSUME p >= q + l + 1 PROVE FALSE
    BY <1>5, <1>7
  <2>2. p * d >= (q + l + 1) * d
    BY <1>1, <1>5, <1>7, <2>1
  <2>3. (q + l + 1) * d = q * d + l * d + d
    BY <1>1, <1>5, <1>7
  <2>4. QED
    BY <1>1, <1>4, <1>5, <1>7, <2>2, <2>3
<1>9. p - w \in 0..l
  BY <1>3, <1>5, <1>7, <1>8
<1>10. QED
  BY <1>2, <1>9 DEF p, d

-----------------------------------------------------------------------------
(* The inductive invariant.                                                 *)

Step == microStep[Main]
Train == queue[Main]["train"]

\* Some task in the executor goes back to the training.
TrainTask == \E i \in DOMAIN pool[Main] : pool[Main][i].dest = "train"

\* The main process generates a batch for the training.
OwnPlaces == {"messages", "sync", "inputs", "requests", "submit", "get",
              "results"}
ForTraining == pc[Main] \in OwnPlaces /\ ~evaluating[Main]

\* Optimizer steps follow micro-steps; batches are generated every
\* GenerateEvery of them.
StepInv ==
    /\ globalStep[Main] = Step \div GradAccum
    /\ ForTraining => Step % GenerateEvery = 0

\* Nothing is newer than the training, and what runs has the engine's weights.
AgeInv ==
    /\ engine <= globalStep[Main]
    /\ \A i \in DOMAIN Train : Train[i].weights <= globalStep[Main]
    /\ busy[Main] => pool[Main][1].weights = engine

\* From the synchronisation on, a generation has the current weights.
SyncedInv ==
    /\ ForTraining /\ pc[Main] \in {"inputs", "submit", "get", "results"}
          => Loaded(Main)
    /\ pc[Main] = "requests" => Loaded(Main) /\ ~Async

\* All that waits for the training, or will, is at least of micro-step m.
Kept(m) ==
    /\ \A i \in DOMAIN Train : Since(Train[i].weights, m)
    /\ TrainTask => Since(engine, m)

\* It is of the last generation; once this generation has taken its batch, of
\* this one.  Before, what is behind the head of the queue is.
KeptInv ==
    /\ Kept(OldStep(Step))
    /\ At(Main, "get") /\ ForTraining =>
          \A i \in DOMAIN Train : i > 1 => Since(Train[i].weights, NewStep(Step))
    /\ At(Main, "backward") \/ (At(Main, "results") /\ ForTraining)
          => Kept(NewStep(Step))

GotInv ==
    At(Main, "results") /\ ForTraining =>
        IF Async THEN /\ Since(got[Main].weights, OldStep(Step))
                      /\ got[Main].weights <= globalStep[Main]
                 ELSE got[Main].weights = globalStep[Main]

LagInv == StepInv /\ AgeInv /\ SyncedInv /\ (Async => KeptInv) /\ GotInv

LEMMA LagTypes ==
    ASSUME TypeOK
    PROVE  /\ Main \in Ranks
           /\ Step \in Nat /\ globalStep[Main] \in Nat /\ engine \in Int
           /\ Train \in Seq(Rollout) /\ got[Main] \in Rollout
           /\ got[Main].weights \in Int
           /\ pool[Main] \in Seq(Rollout)
           /\ evaluating[Main] \in BOOLEAN
           /\ \A i \in DOMAIN Train : Train[i].weights \in Int
<1>1. /\ Main \in Ranks /\ got[Main] \in Rollout /\ pool[Main] \in Seq(Rollout)
      /\ globalStep[Main] \in Nat /\ engine \in Int
      /\ queue[Main] \in [Datasets -> Seq(Rollout)] /\ "train" \in Datasets
  BY MainTypes, RankTypes
<1>2. Step \in Nat /\ evaluating[Main] \in BOOLEAN
  BY <1>1 DEF TypeOK, Step
<1>3. Train \in Seq(Rollout)
  BY <1>1 DEF Train
<1>4. \A i \in DOMAIN Train : Train[i] \in Rollout
  BY <1>3, ElementOfSeq, LenProperties
<1>5. QED
  BY <1>1, <1>2, <1>3, <1>4 DEF Rollout

LEMMA InitLag == Init => LagInv
<1> SUFFICES ASSUME Init PROVE LagInv
  OBVIOUS
<1>1. /\ Main \in Ranks /\ "train" \in Datasets
      /\ GenerateEvery \in Nat \ {0} /\ GradAccum \in Nat \ {0}
  BY Schedule, RolloutAssumption DEF Datasets
<1>2. /\ Step = 0 /\ globalStep[Main] = 0 /\ Train = <<>>
      /\ pool[Main] = <<>> /\ ~busy[Main] /\ engine = -1
  BY <1>1 DEF Init, Step, Train, Dummy
<1>3. pc[Main] \notin OwnPlaces /\ pc[Main] # "backward"
  BY <1>1 DEF Init, OwnPlaces
<1>4. 0 \div GradAccum = 0
  BY <1>1
<1>5. StepInv /\ AgeInv
  BY <1>2, <1>3, <1>4 DEF StepInv, AgeInv, ForTraining
<1>6. SyncedInv /\ GotInv
  BY <1>3 DEF SyncedInv, GotInv, ForTraining, OwnPlaces
<1>7. KeptInv
  BY <1>2, <1>3 DEF KeptInv, Kept, TrainTask, ForTraining, At
<1>8. QED
  BY <1>5, <1>6, <1>7 DEF LagInv

\* What the training's queue and the executor hold of a bound survives where
\* they, and the engine, do.
LEMMA KeptSame ==
    ASSUME NEW m, Kept(m), Train' = Train, pool'[Main] = pool[Main],
           engine' = engine
    PROVE  /\ \A i \in DOMAIN Train' : Since(Train'[i].weights, m)
           /\ TrainTask' => Since(engine', m)
BY DEF Kept, TrainTask

-----------------------------------------------------------------------------
(* Steps that only move.                                                    *)

LEMMA LagMoved ==
    ASSUME TypeOK, LagInv,
           engine' = engine, lastLoaded'[Main] = lastLoaded[Main],
           globalStep'[Main] = globalStep[Main], Step' = Step,
           Train' = Train, pool'[Main] = pool[Main],
           busy'[Main] = busy[Main], got'[Main] = got[Main],
           ForTraining' => Step % GenerateEvery = 0,
           pc'[Main] \notin {"get", "requests", "results"},
           ForTraining' /\ pc'[Main] \in {"inputs", "submit"} => Loaded(Main),
           pc'[Main] = "backward" => \/ At(Main, "results") /\ ForTraining
                                     \/ Step % GenerateEvery # 0
    PROVE  LagInv'
<1>1. StepInv' /\ AgeInv'
  BY DEF LagInv, StepInv, AgeInv
<1>2. SyncedInv' /\ GotInv'
  BY DEF SyncedInv, GotInv, Loaded, At
<1>3. ASSUME Async PROVE KeptInv'
  <2>1. KeptInv
    BY <1>3 DEF LagInv
  <2>2. Kept(OldStep(Step))'
    BY <2>1 DEF KeptInv, Kept, TrainTask
  <2>3. pc'[Main] = "backward" => Kept(NewStep(Step))'
    <3>1. SUFFICES ASSUME pc'[Main] = "backward" PROVE Kept(NewStep(Step))'
      OBVIOUS
    <3>2. CASE At(Main, "results") /\ ForTraining
      BY <2>1, <3>2 DEF KeptInv, Kept, TrainTask
    <3>3. CASE Step % GenerateEvery # 0
      <4>1. OldStep(Step) = NewStep(Step)
        BY <3>3, LagTypes, Generations
      <4>2. Kept(NewStep(Step))
        BY <2>1, <4>1 DEF KeptInv
      <4>3. QED
        BY <4>2 DEF Kept, TrainTask
    <3>4. QED
      BY <3>1, <3>2, <3>3
  <2>4. QED
    BY <2>2, <2>3 DEF KeptInv, At
<1>4. QED
  BY <1>1, <1>2, <1>3 DEF LagInv

LEMMA LagSame ==
    ASSUME LagInv,
           engine' = engine, lastLoaded'[Main] = lastLoaded[Main],
           globalStep'[Main] = globalStep[Main], Step' = Step,
           Train' = Train, pool'[Main] = pool[Main],
           busy'[Main] = busy[Main], got'[Main] = got[Main],
           evaluating'[Main] = evaluating[Main], pc'[Main] = pc[Main]
    PROVE  LagInv'
<1>1. StepInv' /\ AgeInv'
  BY DEF LagInv, StepInv, AgeInv, ForTraining
<1>2. SyncedInv' /\ GotInv'
  BY DEF LagInv, SyncedInv, GotInv, Loaded, At, ForTraining
<1>3. ASSUME Async PROVE KeptInv'
  BY <1>3 DEF LagInv, KeptInv, Kept, TrainTask, At, ForTraining
<1>4. QED
  BY <1>1, <1>2, <1>3 DEF LagInv

LEMMA OthersLag ==
    ASSUME TypeOK, LagInv, NEW r \in Ranks, r # Main,
           MainThread(r) \/ Worker(r)
    PROVE  LagInv'
BY MainUntouched, LagSame DEF Step, Train

LEMMA CollectiveLag ==
    ASSUME TypeOK, LagInv, Collective, ~GatherRequests
    PROVE  LagInv'
<1> USE DEF rankVars, flowVars, syncVars
<1>1. Main \in Ranks
  BY MainTypes
<1>2. /\ UNCHANGED <<engine, lastLoaded, globalStep, microStep, evaluating>>
      /\ UNCHANGED <<queue, pool, busy, got>>
  BY DEF Collective, GatherMessages, GatherInputs, ShareResults
<1>3. \/ pc[Main] = "messages" /\ pc'[Main] = "sync"
      \/ pc[Main] = "inputs" /\ pc'[Main] = "submit"
      \/ pc'[Main] \in {"pf_inputs", "pf_sync", "eval_batch"}
      \/ /\ pc[Main] = "results" /\ ~evaluating[Main]
         /\ pc'[Main] \in {"messages", "backward"}
  <2> USE DEF Meet, ExchangePoints, Exchange, At
  <2>1. CASE GatherMessages
    BY <1>1, <2>1 DEF GatherMessages
  <2>2. CASE GatherInputs
    BY <1>1, <2>2 DEF GatherInputs
  <2>3. CASE ShareResults
    BY <1>1, <2>3 DEF ShareResults
  <2>4. QED
    BY <2>1, <2>2, <2>3 DEF Collective
<1>4. Step' = Step /\ Train' = Train
  BY <1>2 DEF Step, Train
<1>5. ForTraining' => ForTraining
  BY <1>2, <1>3 DEF ForTraining, OwnPlaces
<1>6. ForTraining' => Step % GenerateEvery = 0
  BY <1>5 DEF LagInv, StepInv
<1>7. ForTraining' /\ pc'[Main] \in {"inputs", "submit"} => Loaded(Main)
  BY <1>3, <1>5 DEF LagInv, SyncedInv
<1>8. pc'[Main] = "backward" => At(Main, "results") /\ ForTraining
  BY <1>3 DEF ForTraining, OwnPlaces, At
<1>9. QED
  BY <1>2, <1>3, <1>4, <1>6, <1>7, <1>8, LagMoved

LEMMA LoopLag ==
    ASSUME TypeOK, LagInv, RankInv(Main), MainThread(Main),
           ~Sync(Main), ~PrefetchSync(Main), ~PrefetchInfer(Main),
           ~Submit(Main), ~Get(Main), ~Backward(Main)
    PROVE  LagInv'
<1> USE DEF At, Goto, Evaluate, rankVars, flowVars, syncVars
<1>1. Main \in Ranks
  BY MainTypes
<1>2. /\ UNCHANGED <<queue, pool, busy, got, engine, lastLoaded>>
      /\ UNCHANGED <<globalStep, microStep>>
  <2>1. CASE TrainBegin(Main) \/ TrainStep(Main)
    BY <2>1 DEF TrainBegin, TrainStep
  <2>2. CASE StepEnd(Main) \/ EpochEnd(Main)
    BY <2>2 DEF StepEnd, EpochEnd
  <2>3. CASE EvalWait(Main) \/ EvalBatch(Main)
    BY <2>3 DEF EvalWait, EvalBatch
  <2>4. CASE EvalEnd(Main)
    BY <2>4, Zenon DEF EvalEnd
  <2>5. QED
    BY <2>1, <2>2, <2>3, <2>4 DEF MainThread
<1>3. Step' = Step /\ Train' = Train
  BY <1>2 DEF Step, Train
<1> DEFINE Elsewhere == {"pf_messages", "eval_wait", "epoch_end", "train_step",
                         "done", "eval_batch"}
<1>4. CASE pc'[Main] \in Elsewhere
  BY <1>2, <1>3, <1>4, LagMoved DEF ForTraining, OwnPlaces
<1>5. CASE TrainStep(Main)
  <2>1. \/ Step % GenerateEvery = 0 /\ pc' = [pc EXCEPT ![Main] = "messages"]
        \/ Step % GenerateEvery # 0 /\ pc' = [pc EXCEPT ![Main] = "backward"]
    BY <1>5, Zenon DEF TrainStep, Step
  <2>2. \/ Step % GenerateEvery = 0 /\ pc'[Main] = "messages"
        \/ Step % GenerateEvery # 0 /\ pc'[Main] = "backward"
    BY <1>1, <2>1 DEF TypeOK
  <2>3. ForTraining' => Step % GenerateEvery = 0
    BY <2>2 DEF ForTraining, OwnPlaces
  <2>4. QED
    BY <1>2, <1>3, <2>2, <2>3, LagMoved
<1>6. CASE EvalBatch(Main)
  <2>1. /\ pc'[Main] = "messages" /\ evaluating' = evaluating
        /\ pc[Main] = "eval_batch"
    BY <1>1, <1>6 DEF EvalBatch, TypeOK
  <2>2. evaluating[Main]
    BY <2>1 DEF RankInv, Mode
  <2>3. QED
    BY <1>2, <1>3, <2>1, <2>2, LagMoved DEF ForTraining
<1>7. CASE TrainBegin(Main)
  BY <1>1, <1>4, <1>7 DEF TrainBegin, TypeOK
<1>8. CASE StepEnd(Main) \/ EpochEnd(Main)
  <2>1. \E l \in Elsewhere : pc' = [pc EXCEPT ![Main] = l]
    <3>1. CASE StepEnd(Main)
      BY <3>1, Zenon DEF StepEnd
    <3>2. CASE EpochEnd(Main)
      BY <3>2, Zenon DEF EpochEnd, NextStep
    <3>3. QED
      BY <1>8, <3>1, <3>2
  <2>2. QED
    BY <1>1, <1>4, <2>1 DEF TypeOK
<1>9. CASE EvalWait(Main)
  <2>1. \E l \in Elsewhere : pc' = [pc EXCEPT ![Main] = l]
    BY <1>9, Zenon DEF EvalWait
  <2>2. QED
    BY <1>1, <1>4, <2>1 DEF TypeOK
<1>10. CASE EvalEnd(Main)
  <2>1. \/ caller[Main] = "start" /\ pc'[Main] = "train_step"
        \/ caller[Main] = "step" /\ pc'[Main] = "epoch_end"
        \/ caller[Main] = "epoch" /\ pc'[Main] = NextStep(Main)
    BY <1>1, <1>10, RankTypes DEF EvalEnd, TypeOK
  <2>2. QED
    BY <1>4, <2>1 DEF NextStep
<1>11. QED
  BY <1>5, <1>6, <1>7, <1>8, <1>9, <1>10 DEF MainThread

-----------------------------------------------------------------------------
(* Steps of the engine and of the training.                                 *)

\* Weights of the current step are new enough for any generation so far.
LEMMA SinceOwn ==
    ASSUME TypeOK, LagInv, NotedInv, Loaded(Main)
    PROVE  /\ engine = globalStep[Main]
           /\ Since(engine, OldStep(Step)) /\ Since(engine, NewStep(Step))
<1>1. engine = globalStep[Main] /\ globalStep[Main] = Step \div GradAccum
  BY DEF NotedInv, Loaded, LagInv, StepInv
<1>2. Since(engine, Step)
  BY <1>1, LagTypes DEF Since
<1>3. QED
  BY <1>1, <1>2, LagTypes, Generations, SinceWeaker

LEMMA SyncLag ==
    ASSUME TypeOK, BusyOK, IInv, WeightsInv, LagInv, [Next]_vars,
           Sync(Main) \/ PrefetchSync(Main)
    PROVE  LagInv'
<1> USE DEF At, Goto
<1>1. Main \in Ranks
  BY MainTypes
<1>2. /\ UNCHANGED <<queue, pool, busy, got>>
      /\ UNCHANGED <<globalStep, microStep, evaluating>>
  BY DEF Sync, PrefetchSync, rankVars, flowVars
<1>3. Step' = Step /\ Train' = Train
  BY <1>2 DEF Step, Train
<1>4. Loaded(Main)'
  <2>1. CASE LoadWeights(Main)
    BY <1>1, <1>2, <2>1 DEF LoadWeights, Loaded, TypeOK
  <2>2. CASE globalStep[Main] = lastLoaded[Main] /\ UNCHANGED syncVars
    BY <1>2, <2>2 DEF syncVars, Loaded
  <2>3. QED
    BY <2>1, <2>2 DEF Sync, PrefetchSync
<1>5. engine' = globalStep[Main]
  <2>1. NotedInv'
    BY SyncWeights DEF WeightsInv
  <2>2. QED
    BY <1>2, <1>4, <2>1 DEF NotedInv, Loaded
<1>6. pool[Main] # <<>> => engine' = engine
  BY QuietSync
<1>7. \/ pc[Main] = "sync" /\ pc'[Main] = "inputs" /\ Async
      \/ pc[Main] = "sync" /\ pc'[Main] = "requests" /\ ~Async
      \/ pc'[Main] = "pf_infer"
  BY <1>1 DEF Sync, PrefetchSync, TypeOK
<1>8. StepInv'
  <2>1. ForTraining' => ForTraining
    BY <1>2, <1>7 DEF ForTraining, OwnPlaces
  <2>2. QED
    BY <1>2, <1>3, <2>1 DEF LagInv, StepInv
<1>9. AgeInv'
  <2>1. busy[Main] => pool[Main] # <<>>
    BY <1>1 DEF BusyOK
  <2>2. engine' <= globalStep'[Main]
    BY <1>2, <1>5, LagTypes
  <2>3. QED
    BY <1>2, <1>3, <1>6, <2>1, <2>2 DEF LagInv, AgeInv
<1>10. SyncedInv' /\ GotInv'
  BY <1>4, <1>7 DEF SyncedInv, GotInv
<1>11. ASSUME Async PROVE KeptInv'
  <2>1. Kept(OldStep(Step))
    BY <1>11 DEF LagInv, KeptInv
  <2>2. TrainTask => engine' = engine
    <3>1. TrainTask => pool[Main] # <<>>
      BY DEF TrainTask
    <3>2. QED
      BY <1>6, <3>1
  <2>3. Kept(OldStep(Step))'
    BY <1>2, <1>3, <2>1, <2>2 DEF Kept, TrainTask
  <2>4. QED
    BY <1>7, <2>3 DEF KeptInv
<1>12. QED
  BY <1>8, <1>9, <1>10, <1>11 DEF LagInv

LEMMA NextQuotient ==
    ASSUME NEW m \in Nat, NEW d \in Nat \ {0}
    PROVE  (m + 1) \div d = IF (m + 1) % d = 0 THEN m \div d + 1 ELSE m \div d
<1>0. SUFFICES ASSUME NEW n \in Nat, n = m + 1
               PROVE  n \div d = IF n % d = 0 THEN m \div d + 1 ELSE m \div d
  OBVIOUS
<1> DEFINE p == n \div d
<1>1. /\ p \in Nat /\ p * d \in Nat /\ p * d <= n /\ n < p * d + d
      /\ n % d = n - p * d
  BY Division
<1> HIDE DEF p
<1>2. CASE n % d = 0
  <2>1. p * d = m + 1
    BY <1>0, <1>1, <1>2
  <2>2. p # 0
    BY <2>1
  <2>3. p - 1 \in Nat
    BY <1>1, <2>2
  <2>4. (p - 1) * d = p * d - d
    BY <1>1
  <2>5. m \div d = p - 1
    <3>1. (p - 1) * d <= m /\ m < (p - 1) * d + d
      BY <1>1, <2>1, <2>4
    <3>2. QED
      BY <2>3, <3>1, Quotient
  <2>6. QED
    BY <1>1, <1>2, <2>5 DEF p
<1>3. CASE n % d # 0
  <2>1. p * d <= m /\ m < p * d + d
    BY <1>0, <1>1, <1>3
  <2>2. m \div d = p
    BY <1>1, <2>1, Quotient
  <2>3. QED
    BY <1>3, <2>2 DEF p
<1>4. QED
  BY <1>2, <1>3

LEMMA BackwardLag ==
    ASSUME TypeOK, LagInv, Backward(Main)
    PROVE  LagInv'
<1> USE DEF At, Goto
<1>1. Main \in Ranks /\ pc[Main] = "backward"
  BY MainTypes DEF Backward
<1>2. /\ UNCHANGED <<queue, pool, busy, got, engine, lastLoaded>>
      /\ microStep' = [microStep EXCEPT ![Main] = @ + 1]
  BY DEF Backward, flowVars, syncVars
<1>3. Step' = Step + 1 /\ Train' = Train
  BY <1>1, <1>2 DEF Step, Train, TypeOK
<1>4. \/ /\ (Step + 1) % GradAccum = 0
         /\ globalStep' = [globalStep EXCEPT ![Main] = @ + 1]
         /\ pc' = [pc EXCEPT ![Main] = "step_end"]
      \/ /\ (Step + 1) % GradAccum # 0
         /\ globalStep' = globalStep
         /\ pc' = [pc EXCEPT ![Main] = "train_step"]
  BY Zenon DEF Backward, Step
<1>5. /\ pc'[Main] \in {"step_end", "train_step"}
      /\ globalStep'[Main] = IF (Step + 1) % GradAccum = 0
                             THEN globalStep[Main] + 1 ELSE globalStep[Main]
  BY <1>1, <1>4 DEF TypeOK
<1>6. globalStep'[Main] = Step' \div GradAccum
  BY <1>3, <1>5, Schedule, LagTypes, NextQuotient DEF LagInv, StepInv
<1>7. StepInv'
  BY <1>5, <1>6 DEF StepInv, ForTraining, OwnPlaces
<1>8. AgeInv'
  <2>1. globalStep'[Main] \in Nat /\ globalStep[Main] <= globalStep'[Main]
    BY <1>5, LagTypes
  <2>2. engine' <= globalStep'[Main]
    BY <1>2, <2>1, LagTypes DEF LagInv, AgeInv
  <2>3. \A i \in DOMAIN Train' : Train'[i].weights <= globalStep'[Main]
    BY <1>3, <2>1, LagTypes DEF LagInv, AgeInv
  <2>4. busy'[Main] => pool'[Main][1].weights = engine'
    BY <1>2 DEF LagInv, AgeInv
  <2>5. QED
    BY <2>2, <2>3, <2>4 DEF AgeInv
<1>9. SyncedInv' /\ GotInv'
  BY <1>5 DEF SyncedInv, GotInv, ForTraining, OwnPlaces
<1>10. ASSUME Async PROVE KeptInv'
  <2>1. Kept(NewStep(Step))
    BY <1>1, <1>10 DEF LagInv, KeptInv
  <2>2. OldStep(Step') = NewStep(Step)
    BY <1>3, LagTypes, Generations
  <2>3. Kept(OldStep(Step))'
    BY <1>2, <1>3, <2>1, <2>2 DEF Kept, TrainTask
  <2>4. QED
    BY <1>5, <2>3 DEF KeptInv, ForTraining, OwnPlaces
<1>11. QED
  BY <1>7, <1>8, <1>9, <1>10 DEF LagInv

-----------------------------------------------------------------------------
(* Steps of the rollouts.                                                   *)

LEMMA Appended ==
    ASSUME NEW s \in Seq(Rollout), NEW x \in Rollout
    PROVE  /\ DOMAIN Append(s, x) = 1..(Len(s) + 1) /\ DOMAIN s = 1..Len(s)
           /\ Len(s) \in Nat
           /\ \A i \in DOMAIN s : Append(s, x)[i] = s[i]
           /\ Append(s, x)[Len(s) + 1] = x
<1>1. /\ DOMAIN Append(s, x) = 1..(Len(s) + 1) /\ DOMAIN s = 1..Len(s)
      /\ \A i \in 1..(Len(s) + 1) :
            Append(s, x)[i] = IF i = Len(s) + 1 THEN x ELSE s[i]
      /\ Len(s) \in Nat
  BY AppendProperties, LenProperties
<1>2. QED
  BY <1>1

LEMMA Behind ==
    ASSUME NEW s \in Seq(Rollout), s # <<>>
    PROVE  /\ Head(s) = s[1] /\ 1 \in DOMAIN s
           /\ \A i \in DOMAIN Tail(s) :
                 i + 1 \in DOMAIN s /\ i + 1 > 1 /\ Tail(s)[i] = s[i + 1]
<1>1. /\ Head(s) = s[1] /\ 1 \in DOMAIN s /\ DOMAIN s = 1..Len(s)
      /\ DOMAIN Tail(s) = 1..(Len(s) - 1) /\ Len(s) \in Nat
      /\ \A i \in 1..(Len(s) - 1) : Tail(s)[i] = s[i + 1]
  BY HeadTailProperties, EmptySeq, LenProperties
<1>2. QED
  BY <1>1

LEMMA PrefetchLag ==
    ASSUME TypeOK, RankInv(Main), WeightsInv, LagInv, PrefetchInfer(Main)
    PROVE  LagInv'
<1> USE DEF At, Goto
<1> DEFINE x == NewRollout(Main, engine)
<1>1. Main \in Ranks /\ pc[Main] = "pf_infer"
  BY MainTypes DEF PrefetchInfer
<1>2. /\ UNCHANGED <<pool, busy, got, engine, lastLoaded>>
      /\ UNCHANGED <<globalStep, microStep, evaluating>>
  BY DEF PrefetchInfer, rankVars, syncVars
<1>3. Step' = Step
  BY <1>2 DEF Step
<1>4. pc'[Main] \in {"eval_batch", "eval_wait", "train_step"}
  <2>1. \E l \in {"eval_batch", "eval_wait", "train_step"} :
            pc' = [pc EXCEPT ![Main] = l]
    BY Zenon DEF PrefetchInfer
  <2>2. QED
    BY <1>1, <2>1 DEF TypeOK
<1>5. Train' = Train \/ Train' = Append(Train, x)
  BY <1>1, MainTypes, SMTT(30) DEF PrefetchInfer, TypeOK, Train
<1>6. x \in Rollout /\ x.weights = engine
  BY MainTypes, NewRolloutType DEF NewRollout
<1>7. engine = globalStep[Main] /\ Since(engine, OldStep(Step))
  BY <1>1, SinceOwn DEF RankInv, Fresh, WeightsInv
<1>8. \A i \in DOMAIN Train' :
          (i \in DOMAIN Train /\ Train'[i] = Train[i]) \/ Train'[i] = x
  <2>1. CASE Train' = Train
    BY <2>1
  <2>2. CASE Train' = Append(Train, x)
    BY <1>6, <2>2, LagTypes, Appended
  <2>3. QED
    BY <1>5, <2>1, <2>2
<1>9. StepInv' /\ SyncedInv' /\ GotInv'
  BY <1>2, <1>3, <1>4 DEF LagInv, StepInv, SyncedInv, GotInv, ForTraining, OwnPlaces
<1>10. AgeInv'
  <2>1. \A i \in DOMAIN Train' : Train'[i].weights <= globalStep[Main]
    BY <1>6, <1>7, <1>8, LagTypes DEF LagInv, AgeInv
  <2>2. QED
    BY <1>2, <2>1 DEF LagInv, AgeInv
<1>11. ASSUME Async PROVE KeptInv'
  <2>1. Kept(OldStep(Step))
    BY <1>11 DEF LagInv, KeptInv
  <2>2. \A i \in DOMAIN Train' : Since(Train'[i].weights, OldStep(Step))
    BY <1>6, <1>7, <1>8, <2>1 DEF Kept
  <2>3. Kept(OldStep(Step))'
    BY <1>2, <1>3, <2>1, <2>2 DEF Kept, TrainTask
  <2>4. QED
    BY <1>4, <2>3 DEF KeptInv, ForTraining, OwnPlaces
<1>12. QED
  BY <1>9, <1>10, <1>11 DEF LagInv

LEMMA SubmitLag ==
    ASSUME TypeOK, BusyOK, RankInv(Main), WeightsInv, LagInv, Submit(Main)
    PROVE  LagInv'
<1> USE DEF At, Goto
<1> DEFINE x == NewRollout(Main, Dummy)
<1>1. Main \in Ranks /\ pc[Main] = "submit"
  BY MainTypes DEF Submit
<1>2. /\ UNCHANGED <<queue, busy, got, engine, lastLoaded>>
      /\ UNCHANGED <<globalStep, microStep, evaluating, shouldEvaluate>>
  BY DEF Submit, rankVars, syncVars
<1>3. Step' = Step /\ Train' = Train
  BY <1>2 DEF Step, Train
<1>4. pc'[Main] = "get" /\ pool'[Main] = Append(pool[Main], x)
  BY <1>1 DEF Submit, TypeOK
<1>5. x \in Rollout
  BY MainTypes, NewRolloutType DEF Dummy
<1>6. Loaded(Main)
  BY <1>1 DEF RankInv, Fresh, LagInv, SyncedInv, ForTraining, OwnPlaces
<1>7. Since(engine, OldStep(Step))
  BY <1>6, SinceOwn DEF WeightsInv
<1>8. StepInv'
  BY <1>1, <1>2, <1>3 DEF LagInv, StepInv, ForTraining, OwnPlaces
<1>9. AgeInv'
  <2>1. ASSUME busy[Main] PROVE pool'[Main][1].weights = engine
    <3>1. pool[Main] # <<>> /\ pool[Main][1].weights = engine
      BY <1>1, <2>1 DEF BusyOK, LagInv, AgeInv
    <3>2. 1 \in DOMAIN pool[Main]
      BY <3>1, LagTypes, EmptySeq, LenProperties
    <3>3. QED
      BY <1>4, <1>5, <3>1, <3>2, LagTypes, Appended
  <2>2. QED
    BY <1>2, <1>3, <2>1 DEF LagInv, AgeInv
<1>10. SyncedInv' /\ GotInv'
  BY <1>2, <1>4, <1>6 DEF SyncedInv, GotInv, Loaded
<1>11. ASSUME Async PROVE KeptInv'
  <2>1. Kept(OldStep(Step))
    BY <1>11 DEF LagInv, KeptInv
  <2>2. Kept(OldStep(Step))'
    BY <1>2, <1>3, <1>7, <2>1 DEF Kept
  <2>3. ASSUME ForTraining' PROVE \A i \in DOMAIN Train : ~(i > 1)
    <3>1. ~evaluating[Main]
      BY <1>2, <2>3 DEF ForTraining
    <3>2. ~shouldEvaluate[Main]
      BY <1>1, <3>1 DEF RankInv, Mode
    <3>3. Owes(Main, "train", 1)
      BY <1>1, <1>11, <3>2 DEF RankInv, Flow, Generating, Second, CurrentQueue
    <3>4. Len(pool[Main]) + Len(Train) <= 1
      BY <3>3 DEF Owes, Owed, Train
    <3>5. Len(Train) <= 1 /\ DOMAIN Train = 1..Len(Train) /\ Len(Train) \in Nat
      BY <3>4, LagTypes, LenProperties
    <3>6. QED
      BY <3>5
  <2>4. QED
    BY <1>3, <1>4, <2>2, <2>3 DEF KeptInv
<1>12. QED
  BY <1>8, <1>9, <1>10, <1>11 DEF LagInv

LEMMA GetLag ==
    ASSUME TypeOK, RankInv(Main), WeightsInv, LagInv, Get(Main)
    PROVE  LagInv'
<1> USE DEF At, Goto
<1> DEFINE d == CurrentQueue(Main)
<1>1. Main \in Ranks /\ pc[Main] = "get" /\ queue[Main][d] # <<>>
  BY MainTypes DEF Get, Waiting
<1>2. Async
  BY <1>1 DEF RankInv, Inline
<1>3. /\ UNCHANGED <<pool, busy, engine, lastLoaded>>
      /\ UNCHANGED <<globalStep, microStep, evaluating>>
  BY DEF Get, rankVars, syncVars
<1>4. Step' = Step
  BY <1>3 DEF Step
<1>5. /\ pc'[Main] = "results" /\ got'[Main] = Head(queue[Main][d])
      /\ queue'[Main] = [queue[Main] EXCEPT ![d] = Tail(@)]
  BY <1>1 DEF Get, Waiting, TypeOK
<1>6. \/ d # "train" /\ Train' = Train
      \/ /\ d = "train" /\ Train # <<>>
         /\ Train' = Tail(Train) /\ got'[Main] = Train[1]
  BY <1>1, <1>5, MainTypes, HeadTailProperties DEF Train
<1>7. ForTraining => d = "train" /\ Loaded(Main)
  BY <1>1 DEF RankInv, Mode, CurrentQueue, LagInv, SyncedInv, ForTraining
<1>8. ForTraining' <=> ForTraining
  BY <1>1, <1>3, <1>5 DEF ForTraining, OwnPlaces
<1>9. \A i \in DOMAIN Train' : \E j \in DOMAIN Train :
          Train'[i] = Train[j] /\ (d = "train" => j > 1)
  <2>1. CASE d # "train"
    BY <1>6, <2>1
  <2>2. CASE d = "train"
    BY <1>6, <2>2, LagTypes, Behind
  <2>3. QED
    BY <2>1, <2>2
<1>10. StepInv'
  BY <1>3, <1>4, <1>8 DEF LagInv, StepInv
<1>11. AgeInv'
  <2>1. \A i \in DOMAIN Train' : Train'[i].weights <= globalStep[Main]
    BY <1>9 DEF LagInv, AgeInv
  <2>2. QED
    BY <1>3, <2>1 DEF LagInv, AgeInv
<1>12. SyncedInv'
  BY <1>3, <1>5, <1>7, <1>8 DEF SyncedInv, Loaded
<1>13. Kept(OldStep(Step)) /\ KeptInv
  BY <1>2 DEF LagInv, KeptInv
<1>14. GotInv'
  <2>1. SUFFICES ASSUME ForTraining
                 PROVE  /\ Since(got'[Main].weights, OldStep(Step))
                        /\ got'[Main].weights <= globalStep[Main]
    BY <1>2, <1>3, <1>4, <1>8 DEF GotInv
  <2>2. got'[Main] = Train[1] /\ 1 \in DOMAIN Train
    BY <1>6, <1>7, <2>1, LagTypes, Behind
  <2>3. QED
    BY <1>13, <2>2 DEF Kept, LagInv, AgeInv
<1>15. KeptInv'
  <2>1. Kept(OldStep(Step))'
    <3>1. \A i \in DOMAIN Train' : Since(Train'[i].weights, OldStep(Step))
      BY <1>9, <1>13 DEF Kept
    <3>2. QED
      BY <1>3, <1>4, <1>13, <3>1 DEF Kept, TrainTask
  <2>2. ASSUME ForTraining PROVE Kept(NewStep(Step))'
    <3>1. Since(engine, NewStep(Step))
      BY <1>7, <2>2, SinceOwn DEF WeightsInv
    <3>2. \A i \in DOMAIN Train' : Since(Train'[i].weights, NewStep(Step))
      BY <1>1, <1>7, <1>9, <1>13, <2>2 DEF KeptInv
    <3>3. QED
      BY <1>3, <1>4, <3>1, <3>2 DEF Kept
  <2>3. QED
    BY <1>5, <1>8, <2>1, <2>2 DEF KeptInv
<1>16. QED
  BY <1>10, <1>11, <1>12, <1>14, <1>15 DEF LagInv

LEMMA RequestsLag ==
    ASSUME TypeOK, WeightsInv, LagInv, GatherRequests
    PROVE  LagInv'
<1> USE DEF At
<1>1. Main \in Ranks
  BY MainTypes
<1>2. /\ UNCHANGED <<queue, pool, busy, engine, lastLoaded>>
      /\ UNCHANGED <<globalStep, microStep, evaluating>>
  BY DEF GatherRequests, rankVars, syncVars
<1>3. Step' = Step /\ Train' = Train
  BY <1>2 DEF Step, Train
<1>4. pc[Main] = "requests" /\ pc'[Main] = "results"
  BY <1>1 DEF GatherRequests, Meet, ExchangePoints, Exchange
<1>5. got'[Main] = NewRollout(Main, engine)
  BY <1>1, Zenon DEF GatherRequests
<1>6. Loaded(Main) /\ ~Async
  BY <1>4 DEF LagInv, SyncedInv
<1>7. got'[Main].weights = globalStep[Main]
  <2>1. engine = globalStep[Main]
    BY <1>6, SinceOwn DEF WeightsInv
  <2>2. QED
    BY <1>5, <2>1 DEF NewRollout
<1>8. StepInv' /\ AgeInv'
  BY <1>2, <1>3, <1>4 DEF LagInv, StepInv, AgeInv, ForTraining, OwnPlaces
<1>9. SyncedInv' /\ GotInv'
  BY <1>2, <1>4, <1>6, <1>7 DEF SyncedInv, GotInv, Loaded
<1>10. QED
  BY <1>6, <1>8, <1>9 DEF LagInv

LEMMA StartLag ==
    ASSUME TypeOK, LagInv, StartTask(Main)
    PROVE  LagInv'
<1> USE DEF At
<1>1. Main \in Ranks /\ pool[Main] \in Seq(Rollout) /\ pool[Main] # <<>>
  BY MainTypes DEF StartTask
<1>2. /\ UNCHANGED <<pc, queue, got, engine, lastLoaded>>
      /\ UNCHANGED <<globalStep, microStep, evaluating>>
  BY DEF StartTask, rankVars, syncVars
<1>3. Step' = Step /\ Train' = Train
  BY <1>2 DEF Step, Train
<1>4. pool'[Main] = [pool[Main] EXCEPT ![1].weights = engine]
  <2>1. pool' = [pool EXCEPT ![Main] = [pool[Main] EXCEPT ![1].weights = engine]]
    BY DEF StartTask
  <2>2. QED
    BY <1>1, <2>1 DEF TypeOK
<1>5. /\ DOMAIN pool'[Main] = DOMAIN pool[Main]
      /\ \A i \in DOMAIN pool[Main] : pool'[Main][i].dest = pool[Main][i].dest
      /\ pool'[Main][1].weights = engine
  <2>1. 1 \in DOMAIN pool[Main] /\ \A i \in DOMAIN pool[Main] : pool[Main][i] \in Rollout
    BY <1>1, EmptySeq, LenProperties, ElementOfSeq
  <2>2. QED
    BY <1>4, <2>1 DEF Rollout
<1>6. TrainTask' => TrainTask
  BY <1>5 DEF TrainTask
<1>7. StepInv' /\ SyncedInv' /\ GotInv'
  BY <1>2, <1>3 DEF LagInv, StepInv, SyncedInv, GotInv, ForTraining, Loaded
<1>8. AgeInv'
  BY <1>2, <1>3, <1>5 DEF LagInv, AgeInv
<1>9. ASSUME Async PROVE KeptInv'
  <2>1. KeptInv
    BY <1>9 DEF LagInv
  <2>2. \A m : Kept(m) => Kept(m)'
    BY <1>2, <1>3, <1>6 DEF Kept
  <2>3. QED
    BY <1>2, <1>3, <2>1, <2>2 DEF KeptInv, ForTraining
<1>10. QED
  BY <1>7, <1>8, <1>9 DEF LagInv

LEMMA EndedLag ==
    ASSUME TypeOK, BusyOK, WeightsInv, LagInv, FinishTask(Main) \/ FailTask(Main)
    PROVE  LagInv'
<1> USE DEF At
<1> DEFINE x == Head(pool[Main])
<1>1. /\ Main \in Ranks /\ busy[Main] /\ pool[Main] # <<>>
      /\ pool[Main] \in Seq(Rollout)
  BY MainTypes DEF FinishTask, FailTask, BusyOK
<1>2. /\ UNCHANGED <<pc, got, engine, lastLoaded>>
      /\ UNCHANGED <<globalStep, microStep, evaluating>>
      /\ busy' = [busy EXCEPT ![Main] = FALSE]
      /\ pool' = [pool EXCEPT ![Main] = Tail(@)]
  BY DEF FinishTask, FailTask, rankVars, syncVars
<1>3. /\ Step' = Step /\ pool'[Main] = Tail(pool[Main]) /\ ~busy'[Main]
  BY <1>1, <1>2 DEF Step, TypeOK
<1>4. /\ x \in Rollout /\ x.dest \in Datasets /\ x.weights = engine
      /\ x = pool[Main][1] /\ 1 \in DOMAIN pool[Main]
  BY <1>1, TakenTask, Behind DEF LagInv, AgeInv
<1>5. Train' = Train \/ (Train' = Append(Train, x) /\ TrainTask)
  <2>1. CASE FailTask(Main)
    BY <2>1 DEF FailTask, Train
  <2>2. CASE FinishTask(Main)
    <3>1. queue'[Main] = [queue[Main] EXCEPT ![x.dest] = Append(@, x)]
      BY <1>1, <2>2 DEF FinishTask, TypeOK
    <3>2. CASE x.dest = "train"
      BY <1>4, <3>1, <3>2, MainTypes DEF Train, TrainTask
    <3>3. CASE x.dest # "train"
      BY <1>4, <3>1, <3>3, MainTypes DEF Train
    <3>4. QED
      BY <3>2, <3>3
  <2>3. QED
    BY <2>1, <2>2
<1>6. TrainTask' => TrainTask
  BY <1>1, <1>3, Behind DEF TrainTask
<1>7. \A i \in DOMAIN Train' : \/ i \in DOMAIN Train /\ Train'[i] = Train[i]
                               \/ Train'[i] = x /\ TrainTask
  BY <1>4, <1>5, LagTypes, Appended, SMTT(30)
<1>8. StepInv' /\ SyncedInv' /\ GotInv'
  BY <1>2, <1>3 DEF LagInv, StepInv, SyncedInv, GotInv, ForTraining, Loaded
<1>9. AgeInv'
  <2>1. \A i \in DOMAIN Train' : Train'[i].weights <= globalStep[Main]
    BY <1>4, <1>7 DEF LagInv, AgeInv
  <2>2. QED
    BY <1>2, <1>3, <2>1 DEF LagInv, AgeInv
<1>10. ASSUME Async PROVE KeptInv'
  <2>1. KeptInv
    BY <1>10 DEF LagInv
  <2>2. ASSUME NEW m, Kept(m) PROVE Kept(m)'
    <3>1. \A i \in DOMAIN Train' : Since(Train'[i].weights, m)
      BY <1>4, <1>7, <2>2 DEF Kept
    <3>2. QED
      BY <1>2, <1>6, <2>2, <3>1 DEF Kept
  <2>3. ASSUME At(Main, "get"), ForTraining, NEW i \in DOMAIN Train', i > 1
        PROVE  Since(Train'[i].weights, NewStep(Step))
    <3>1. Since(engine, NewStep(Step))
      BY <2>3, SinceOwn DEF WeightsInv, LagInv, SyncedInv
    <3>2. QED
      BY <1>4, <1>7, <2>1, <2>3, <3>1 DEF KeptInv
  <2>4. Kept(OldStep(Step))'
    BY <1>3, <2>1, <2>2 DEF KeptInv
  <2>5. At(Main, "backward") \/ (At(Main, "results") /\ ForTraining)
            => Kept(NewStep(Step))'
    BY <1>3, <2>1, <2>2 DEF KeptInv
  <2>6. QED
    BY <1>2, <1>3, <2>3, <2>4, <2>5 DEF KeptInv, ForTraining
<1>11. QED
  BY <1>8, <1>9, <1>10 DEF LagInv

-----------------------------------------------------------------------------
LEMMA StepLag ==
    ASSUME TypeOK, BusyOK, IInv, WeightsInv, LagInv, [Next]_vars
    PROVE  LagInv'
<1>1. Main \in Ranks /\ RankInv(Main)
  BY MainTypes DEF IInv
<1>2. CASE Collective
  BY <1>2, CollectiveLag, RequestsLag
<1>3. ASSUME NEW r \in Ranks, MainThread(r) \/ Worker(r), r # Main
      PROVE  LagInv'
  BY <1>3, OthersLag
<1>4. CASE Worker(Main)
  BY <1>1, <1>4, StartLag, EndedLag DEF Worker
<1>5. CASE MainThread(Main)
  BY <1>1, <1>5, SyncLag, PrefetchLag, SubmitLag, GetLag, BackwardLag, LoopLag
<1>6. CASE UNCHANGED vars
  BY <1>6, LagSame DEF vars, rankVars, flowVars, syncVars, Step, Train
<1>7. QED
  BY <1>2, <1>3, <1>4, <1>5, <1>6 DEF Next, Finished

\* What the invariant says of a batch for the training.
LEMMA LagFollows == TypeOK /\ LagInv => TrainLag
<1> SUFFICES ASSUME TypeOK, LagInv, At(Main, "results"), ~evaluating[Main]
             PROVE  globalStep[Main] - got[Main].weights \in 0..Lag
  BY DEF TrainLag
<1>1. ForTraining
  BY DEF ForTraining, OwnPlaces, At
<1>2. globalStep[Main] = Step \div GradAccum /\ Step % GenerateEvery = 0
  BY <1>1 DEF LagInv, StepInv
<1>3. CASE Async
  <2>1. /\ Since(got[Main].weights, OldStep(Step))
        /\ got[Main].weights <= Step \div GradAccum
    BY <1>1, <1>2, <1>3 DEF LagInv, GotInv
  <2>2. Step \in Nat
    BY LagTypes
  <2>3. /\ OldStep(Step) \in Nat /\ NewStep(Step) \in Nat
        /\ OldStep(Step) <= NewStep(Step) /\ NewStep(Step) <= Step
        /\ Step - OldStep(Step) <= GenerateEvery
    BY <1>2, <2>2, Generations
  <2>4. OldStep(Step) <= Step
    BY <2>2, <2>3
  <2>5. QED
    BY <1>2, <1>3, <2>1, <2>2, <2>3, <2>4, LagTypes, LagBound
<1>4. CASE ~Async
  BY <1>1, <1>4, LagTypes DEF LagInv, GotInv, Lag
<1>5. QED
  BY <1>3, <1>4

\* A batch the training takes was generated with the weights of the current
\* optimizer step, or, asynchronously, of at most the optimizer steps of one
\* generation before: for every schedule, however evaluations and resampling
\* intervene, and whichever tasks fail.
THEOREM TrainLagAlways == Spec => []TrainLag
<1>1. Init => TypeOK /\ BusyOK /\ IInv /\ WeightsInv /\ LagInv
  BY InitType, InitBusy, InitIInv, InitWeights, InitLag
<1>2. TypeOK /\ BusyOK /\ IInv /\ WeightsInv /\ LagInv /\ [Next]_vars
        => (TypeOK /\ BusyOK /\ IInv /\ WeightsInv /\ LagInv)'
  BY StepType, StepBusy, StepIInv, StepWeights, StepLag
<1>3. QED
  BY <1>1, <1>2, LagFollows, PTL DEF Spec

-----------------------------------------------------------------------------
(* One rollout ahead.  The invariant above counts what a queue is owed.     *)

LEMMA OwedOutstanding ==
    ASSUME TypeOK, NEW r \in Ranks, NEW d \in Datasets, NEW n \in Nat \ {0},
           Owes(r, d, n), NEW e \in Datasets
    PROVE  Outstanding(r, e) <= IF e = d THEN n ELSE 1
<1> DEFINE D == {i \in DOMAIN pool[r] : pool[r][i].dest = e}
<1>1. /\ DOMAIN pool[r] = 1..Len(pool[r]) /\ Len(pool[r]) \in Nat
      /\ Len(queue[r][e]) \in Nat
  BY RankTypes, LenProperties
<1>2. /\ \A i \in DOMAIN pool[r] : pool[r][i].dest = d
      /\ Len(pool[r]) + Len(queue[r][d]) <= n
      /\ e # d => Len(queue[r][e]) <= 1
  BY DEF Owes, Owed
<1>3. /\ IsFiniteSet(1..Len(pool[r])) /\ Cardinality(1..Len(pool[r])) = Len(pool[r])
  <2> DEFINE m == Len(pool[r])
  <2>1. m \in Nat
    BY <1>1
  <2> HIDE DEF m
  <2>2. IsFiniteSet(1..m) /\ Cardinality(1..m) = m
    BY <2>1, FS_Interval
  <2>3. QED
    BY <2>2 DEF m
<1>4. Cardinality(D) \in Nat /\ Cardinality(D) <= Len(pool[r])
  <2> HIDE DEF D
  <2>0. D \subseteq DOMAIN pool[r]
    BY DEF D
  <2>1. D \subseteq 1..Len(pool[r])
    BY <1>1, <2>0
  <2>2. IsFiniteSet(D) /\ Cardinality(D) <= Cardinality(1..Len(pool[r]))
    BY <1>3, <2>1, FS_Subset
  <2>3. QED
    BY <1>3, <2>2, FS_CardinalityType
<1>5. CASE e = d
  <2>1. Outstanding(r, e) = Len(queue[r][e]) + Cardinality(D)
    BY DEF Outstanding
  <2> HIDE DEF D
  <2> DEFINE c == Cardinality(D)
             m == Len(pool[r])
             l == Len(queue[r][e])
  <2>2. c \in Nat /\ c <= m /\ m \in Nat /\ l \in Nat /\ m + l <= n
    BY <1>1, <1>2, <1>4, <1>5
  <2>3. Outstanding(r, e) = l + c
    BY <2>1
  <2> HIDE DEF c, m, l
  <2>4. QED
    BY <1>5, <2>2, <2>3
<1>6. CASE e # d
  <2>1. D = {}
    BY <1>2, <1>6
  <2>2. Cardinality(D) = 0
    BY <2>1, FS_EmptySet
  <2>3. QED
    BY <1>1, <1>2, <1>6, <2>2 DEF Outstanding
<1>7. QED
  BY <1>5, <1>6

\* Nothing in the executor, and at most one result in the queue.
LEMMA IdleOutstanding ==
    ASSUME TypeOK, NEW r \in Ranks, NEW d \in Datasets,
           pool[r] = <<>>, Len(queue[r][d]) <= 1
    PROVE  Outstanding(r, d) <= 1
<1>1. {i \in DOMAIN pool[r] : pool[r][i].dest = d} = {}
  OBVIOUS
<1>2. Cardinality({i \in DOMAIN pool[r] : pool[r][i].dest = d}) = 0
  BY <1>1, FS_EmptySet
<1>3. Len(queue[r][d]) \in Nat
  BY RankTypes, LenProperties
<1>4. QED
  BY <1>2, <1>3 DEF Outstanding

LEMMA AheadFollows ==
    ASSUME TypeOK, IInv, Async => ~EvaluatedTwice
    PROVE  OneAhead
<1> SUFFICES ASSUME NEW r \in Ranks, NEW d \in Datasets
             PROVE  Outstanding(r, d)
                      <= IF At(r, "get") /\ CurrentQueue(r) = d THEN 2 ELSE 1
  BY DEF OneAhead
<1> USE DEF At
<1>1. RankInv(r)
  BY DEF IInv
<1>2. CASE ~Async
  <2>1. pool[r] = <<>> /\ queue[r][d] = <<>> /\ pc[r] # "get"
    BY <1>1, <1>2 DEF RankInv, Inline
  <2>2. Len(queue[r][d]) <= 1
    BY <2>1, EmptySeq
  <2>3. QED
    BY <2>1, <2>2, IdleOutstanding
<1>3. CASE Async
  <2>1. Flow(r) /\ ~Second(r) /\ ~EvaluatedTwice
    BY <1>1, <1>3 DEF RankInv, Second
  <2>2. CASE At(r, "get")
    <3>1. Owes(r, CurrentQueue(r), 2)
      BY <2>1, <2>2 DEF Flow
    <3>2. Outstanding(r, d) <= IF d = CurrentQueue(r) THEN 2 ELSE 1
      BY <3>1, RankTypes, OwedOutstanding
    <3>3. QED
      BY <2>2, <3>2
  <2>3. CASE pc[r] \in Prefetching \cup {"train_begin"}
    <3>1. pool[r] = <<>> /\ Len(queue[r][d]) <= 1
      BY <2>1, <2>3, EmptySeq DEF Flow
    <3>2. QED
      BY <2>3, <3>1, IdleOutstanding DEF Prefetching
  <2>4. CASE pc[r] \notin Prefetching \cup {"train_begin", "get"}
    <3>1. pc[r] \in Generating \cup {"backward", "step_end", "train_step",
                                     "epoch_end", "eval_wait", "done"}
      BY <2>4 DEF TypeOK, Locations, ExchangePoints, Prefetching, Generating
    <3>2. PICK e \in Datasets : Owes(r, e, 1)
      BY <2>1, <3>1, RankTypes DEF Flow
    <3>3. Outstanding(r, d) <= 1
      BY <3>2, OwedOutstanding
    <3>4. QED
      BY <2>4, <3>3
  <2>5. QED
    BY <2>2, <2>3, <2>4
<1>4. QED
  BY <1>2, <1>3

\* A queue is never owed more than one result, or two between a submission and
\* the get that follows it, on condition that no asynchronous run evaluates one
\* step twice.  Without it the second evaluation may find eval_queue empty only
\* because the last rollout of the first is not finished, and prefetch.
THEOREM OneAheadAlways ==
    ASSUME Async => ~EvaluatedTwice
    PROVE  Spec => []OneAhead
<1>1. Init => TypeOK /\ BusyOK /\ IInv
  BY InitType, InitBusy, InitIInv
<1>2. TypeOK /\ BusyOK /\ IInv /\ [Next]_vars => (TypeOK /\ BusyOK /\ IInv)'
  BY StepType, StepBusy, StepIInv
<1>3. TypeOK /\ IInv => OneAhead
  BY AheadFollows
<1>4. QED
  BY <1>1, <1>2, <1>3, PTL DEF Spec

-----------------------------------------------------------------------------
(* Whose prompts.  A rollout is put into the queue of the mode the rank was *)
(* in when it was requested, and carries the prompts of the loop that       *)
(* requested it; the two agree unless eval_on_start evaluates while          *)
(* control.should_evaluate is clear.                                        *)

\* The prompts of a rollout are of the dataset of its queue.
Own(x, d) == x.of = d

Loop(r) == IF evaluating[r] THEN "eval" ELSE "train"

QueuedOwn(r) ==
    \A d \in Datasets : \A i \in DOMAIN queue[r][d] : Own(queue[r][d][i], d)
FlownOwn(r) ==
    \A i \in DOMAIN pool[r] : Own(pool[r][i], pool[r][i].dest)
TakenOwn(r) == At(r, "results") => Own(got[r], Loop(r))

\* In an asynchronous run every evaluation has a hook that sets should_evaluate.
Hooked(r) == Async /\ (evaluating[r] \/ At(r, "eval_wait")) => caller[r] # "start"

PromptInv(r) == QueuedOwn(r) /\ FlownOwn(r) /\ TakenOwn(r) /\ Hooked(r)

LEMMA InitPrompts ==
    ASSUME Init, ~(Async /\ EvalOnStart), NEW r \in Ranks PROVE PromptInv(r)
<1> USE DEF At
<1>1. /\ pool[r] = <<>> /\ \A d \in Datasets : queue[r][d] = <<>>
      /\ evaluating[r] = FALSE
      /\ pc[r] = IF Async THEN "train_begin"
                 ELSE IF EvalOnStart THEN "eval_wait" ELSE "train_step"
  BY DEF Init
<1>2. QueuedOwn(r) /\ FlownOwn(r)
  BY <1>1 DEF QueuedOwn, FlownOwn
<1>3. TakenOwn(r) /\ Hooked(r)
  BY <1>1 DEF TakenOwn, Hooked
<1>4. QED
  BY <1>2, <1>3 DEF PromptInv

\* A step that moves no rollout of the rank and hands it none.
LEMMA PromptsMoved ==
    ASSUME NEW r \in Ranks, PromptInv(r),
           queue'[r] = queue[r], pool'[r] = pool[r], got'[r] = got[r],
           \/ pc'[r] = pc[r] /\ evaluating'[r] = evaluating[r]
           \/ pc'[r] # "results",
           Hooked(r)'
    PROVE  PromptInv(r)'
<1>1. QueuedOwn(r)' /\ FlownOwn(r)'
  BY DEF PromptInv, QueuedOwn, FlownOwn, Own
<1>2. TakenOwn(r)'
  BY DEF PromptInv, TakenOwn, At, Own, Loop
<1>3. QED
  BY <1>1, <1>2 DEF PromptInv

LEMMA LoopPrompts ==
    ASSUME TypeOK, NEW r \in Ranks, PromptInv(r),
           \/ TrainBegin(r) \/ PrefetchSync(r) \/ Sync(r) \/ TrainStep(r)
           \/ Backward(r) \/ StepEnd(r) \/ EpochEnd(r) \/ EvalWait(r)
           \/ EvalBatch(r) \/ EvalEnd(r)
    PROVE  PromptInv(r)'
<1> USE DEF At, Goto, Evaluate, NextStep, rankVars, flowVars, syncVars, TrainBegin, PrefetchSync, Sync,
        TrainStep, Backward, StepEnd, EpochEnd, EvalWait, EvalBatch, EvalEnd
<1>1. queue'[r] = queue[r] /\ pool'[r] = pool[r] /\ got'[r] = got[r]
  BY DEF TypeOK
<1>2. CASE \/ TrainBegin(r) \/ PrefetchSync(r) \/ Sync(r) \/ TrainStep(r)
           \/ Backward(r) \/ EvalBatch(r)
  <2>1. /\ pc'[r] \notin {"results", "eval_wait"}
        /\ evaluating'[r] = evaluating[r] /\ caller'[r] = caller[r]
    BY <1>2 DEF TypeOK
  <2>2. Hooked(r)'
    BY <2>1 DEF PromptInv, Hooked
  <2>3. QED
    BY <1>1, <2>1, <2>2, PromptsMoved
<1>3. CASE StepEnd(r) \/ EpochEnd(r)
  <2>1. /\ evaluating'[r] = evaluating[r] /\ pc'[r] # "results"
        /\ \/ caller'[r] \in {"step", "epoch"}
           \/ caller'[r] = caller[r] /\ pc'[r] # "eval_wait"
    BY <1>3 DEF TypeOK
  <2>2. Hooked(r)'
    BY <2>1 DEF PromptInv, Hooked
  <2>3. QED
    BY <1>1, <2>1, <2>2, PromptsMoved
<1>4. CASE EvalWait(r)
  <2>1. pc[r] = "eval_wait" /\ pc'[r] # "results" /\ caller'[r] = caller[r]
    BY <1>4 DEF TypeOK
  <2>2. Hooked(r)'
    BY <2>1 DEF PromptInv, Hooked
  <2>3. QED
    BY <1>1, <2>1, <2>2, PromptsMoved
<1>5. CASE EvalEnd(r)
  <2>1. evaluating'[r] = FALSE /\ caller'[r] = caller[r]
    BY <1>5 DEF TypeOK
  <2>2. pc'[r] \notin {"results", "eval_wait"}
    <3>1. caller[r] \in {"start", "step", "epoch"}
      BY DEF TypeOK
    <3>2. QED
      BY <1>5, <3>1 DEF TypeOK
  <2>3. Hooked(r)'
    BY <2>1, <2>2 DEF Hooked
  <2>4. QED
    BY <1>1, <2>2, <2>3, PromptsMoved
<1>6. QED
  BY <1>2, <1>3, <1>4, <1>5

\* Where a rollout is requested or taken, the queue is the loop's own.
LEMMA OwnQueue ==
    ASSUME TypeOK, NEW r \in Ranks, RankInv(r), PromptInv(r),
           pc[r] \in {"pf_infer", "submit", "get"}
    PROVE  Async /\ CurrentQueue(r) = Loop(r)
<1>1. Async
  BY DEF RankInv, Inline, Prefetching
<1>2. shouldEvaluate[r] <=> evaluating[r]
  BY <1>1 DEF RankInv, Mode, PromptInv, Hooked, At
<1>3. QED
  BY <1>1, <1>2 DEF CurrentQueue, Loop

LEMMA OwnRollout ==
    ASSUME NEW r \in Ranks, NEW w PROVE Own(NewRollout(r, w), Loop(r))
BY DEF Own, NewRollout, Loop

LEMMA PrefetchPrompts ==
    ASSUME TypeOK, ~(Async /\ EvalOnStart),
           NEW r \in Ranks, RankInv(r), PromptInv(r), PrefetchInfer(r)
    PROVE  PromptInv(r)'
<1> USE DEF At, Goto, rankVars, syncVars
<1> DEFINE x == NewRollout(r, engine)
           c == CurrentQueue(r)
           q == queue[r]
<1>1. /\ pool'[r] = pool[r] /\ got'[r] = got[r] /\ caller'[r] = caller[r]
      /\ evaluating'[r] = evaluating[r] /\ pc[r] = "pf_infer"
      /\ queue'[r] = [q EXCEPT ![c] = Append(@, x)]
      /\ pc'[r] = IF evaluating[r] THEN "eval_batch"
                  ELSE IF EvalOnStart THEN "eval_wait" ELSE "train_step"
  BY DEF PrefetchInfer, TypeOK
<1>2. Async /\ Own(x, c) /\ c \in Datasets
  BY <1>1, OwnQueue, OwnRollout, RankTypes
<1>3. q \in [Datasets -> Seq(Rollout)] /\ x \in Rollout
  BY RankTypes, NewRolloutType DEF TypeOK
<1> HIDE DEF x, c, q
<1>4. QueuedOwn(r)'
  <2>1. SUFFICES ASSUME NEW d \in Datasets, NEW i \in DOMAIN queue'[r][d]
                 PROVE  Own(queue'[r][d][i], d)
    BY DEF QueuedOwn, Own
  <2>2. CASE d = c
    <3>1. queue'[r][d] = Append(q[d], x)
      BY <1>1, <1>2, <1>3, <2>2
    <3>2. /\ DOMAIN Append(q[d], x) = 1..(Len(q[d]) + 1)
          /\ DOMAIN q[d] = 1..Len(q[d])
          /\ \A j \in 1..(Len(q[d]) + 1) :
                Append(q[d], x)[j] = IF j = Len(q[d]) + 1 THEN x ELSE q[d][j]
      BY <1>3, AppendProperties, LenProperties
    <3>3. i \in 1..(Len(q[d]) + 1) /\ Len(q[d]) \in Nat
      BY <1>3, <2>1, <3>1, <3>2, LenProperties
    <3>4. i = Len(q[d]) + 1 \/ i \in DOMAIN q[d]
      BY <3>2, <3>3
    <3>5. \A j \in DOMAIN q[d] : Own(q[d][j], d)
      BY DEF PromptInv, QueuedOwn, q
    <3>6. queue'[r][d][i] = IF i = Len(q[d]) + 1 THEN x ELSE q[d][i]
      BY <3>1, <3>2, <3>3
    <3>7. QED
      BY <1>2, <2>2, <3>4, <3>5, <3>6
  <2>3. CASE d # c
    <3>1. queue'[r][d] = q[d]
      BY <1>1, <1>3, <2>3
    <3>2. QED
      BY <2>1, <3>1 DEF PromptInv, QueuedOwn, q
  <2>4. QED
    BY <2>2, <2>3
<1>5. FlownOwn(r)' /\ TakenOwn(r)' /\ Hooked(r)'
  BY <1>1, <1>2 DEF PromptInv, FlownOwn, TakenOwn, Hooked, Own
<1>6. QED
  BY <1>4, <1>5 DEF PromptInv

LEMMA SubmitPrompts ==
    ASSUME TypeOK, NEW r \in Ranks, RankInv(r), PromptInv(r), Submit(r)
    PROVE  PromptInv(r)'
<1> USE DEF At, Goto, rankVars, syncVars
<1> DEFINE x == NewRollout(r, Dummy)
           p == pool[r]
<1>1. /\ pool'[r] = Append(p, x) /\ queue'[r] = queue[r]
      /\ caller'[r] = caller[r] /\ evaluating'[r] = evaluating[r]
      /\ pc[r] = "submit" /\ pc'[r] = "get"
  BY DEF Submit, TypeOK
<1>2. /\ x \in Rollout /\ Own(x, x.dest) /\ p \in Seq(Rollout)
  BY <1>1, OwnQueue, OwnRollout, NewRolloutType, RankTypes DEF Dummy
<1>3. \A j \in DOMAIN p : Own(p[j], p[j].dest)
  BY DEF PromptInv, FlownOwn
<1> HIDE DEF x, p
<1>4. FlownOwn(r)'
  <2>1. SUFFICES ASSUME NEW i \in DOMAIN pool'[r]
                 PROVE  Own(pool'[r][i], pool'[r][i].dest)
    BY DEF FlownOwn, Own
  <2>2. /\ DOMAIN Append(p, x) = 1..(Len(p) + 1)
        /\ DOMAIN p = 1..Len(p) /\ Len(p) \in Nat
        /\ \A j \in 1..(Len(p) + 1) :
              Append(p, x)[j] = IF j = Len(p) + 1 THEN x ELSE p[j]
    BY <1>2, AppendProperties, LenProperties
  <2>3. i \in 1..(Len(p) + 1)
    BY <1>1, <2>1, <2>2
  <2>4. i = Len(p) + 1 \/ i \in DOMAIN p
    BY <2>2, <2>3
  <2>5. pool'[r][i] = IF i = Len(p) + 1 THEN x ELSE p[i]
    BY <1>1, <2>2, <2>3
  <2>6. QED
    BY <1>2, <1>3, <2>4, <2>5
<1>5. QueuedOwn(r)' /\ TakenOwn(r)' /\ Hooked(r)'
  BY <1>1 DEF PromptInv, QueuedOwn, TakenOwn, Hooked, Own
<1>6. QED
  BY <1>4, <1>5 DEF PromptInv

LEMMA GetPrompts ==
    ASSUME TypeOK, NEW r \in Ranks, RankInv(r), PromptInv(r), Get(r)
    PROVE  PromptInv(r)'
<1> USE DEF At, Goto, rankVars, syncVars
<1> DEFINE c == CurrentQueue(r)
           q == queue[r]
<1>1. /\ pool'[r] = pool[r] /\ q[c] # <<>> /\ got'[r] = Head(q[c])
      /\ caller'[r] = caller[r] /\ evaluating'[r] = evaluating[r]
      /\ pc[r] = "get" /\ pc'[r] = "results"
      /\ queue'[r] = [q EXCEPT ![c] = Tail(@)]
  BY DEF Get, Waiting, TypeOK
<1>2. c = Loop(r) /\ c \in Datasets /\ q \in [Datasets -> Seq(Rollout)]
  BY <1>1, OwnQueue, RankTypes
<1>3. \A d \in Datasets : \A j \in DOMAIN q[d] : Own(q[d][j], d)
  BY DEF PromptInv, QueuedOwn
<1> HIDE DEF c, q
<1>4. /\ Head(q[c]) = q[c][1] /\ 1 \in DOMAIN q[c]
      /\ DOMAIN Tail(q[c]) = 1..(Len(q[c]) - 1) /\ DOMAIN q[c] = 1..Len(q[c])
      /\ \A j \in 1..(Len(q[c]) - 1) : Tail(q[c])[j] = q[c][j+1]
  BY <1>1, <1>2, HeadTailProperties, EmptySeq
<1>5. QueuedOwn(r)'
  <2>1. SUFFICES ASSUME NEW d \in Datasets, NEW i \in DOMAIN queue'[r][d]
                 PROVE  Own(queue'[r][d][i], d)
    BY DEF QueuedOwn, Own
  <2>2. CASE d = c
    <3>1. queue'[r][d] = Tail(q[d])
      BY <1>1, <1>2, <2>2
    <3>2. i \in 1..(Len(q[d]) - 1) /\ Len(q[d]) \in Nat
      BY <1>2, <1>4, <2>1, <2>2, <3>1, LenProperties
    <3>3. i + 1 \in DOMAIN q[d] /\ queue'[r][d][i] = q[d][i+1]
      BY <1>4, <2>2, <3>1, <3>2
    <3>4. QED
      BY <1>3, <3>3
  <2>3. CASE d # c
    <3>1. queue'[r][d] = q[d]
      BY <1>1, <1>2, <2>3
    <3>2. QED
      BY <1>3, <2>1, <3>1
  <2>4. QED
    BY <2>2, <2>3
<1>6. TakenOwn(r)'
  <2>1. Own(got'[r], Loop(r))
    BY <1>1, <1>2, <1>3, <1>4
  <2>2. QED
    BY <1>1, <2>1 DEF TakenOwn, Own, Loop
<1>7. FlownOwn(r)' /\ Hooked(r)'
  BY <1>1 DEF PromptInv, FlownOwn, Hooked, Own
<1>8. QED
  BY <1>5, <1>6, <1>7 DEF PromptInv

LEMMA CollectivePrompts ==
    ASSUME TypeOK, NEW r \in Ranks, PromptInv(r), Collective
    PROVE  PromptInv(r)'
<1> USE DEF At, rankVars, flowVars
<1>1. /\ queue'[r] = queue[r] /\ pool'[r] = pool[r]
      /\ caller'[r] = caller[r] /\ evaluating'[r] = evaluating[r]
  BY DEF Collective, GatherMessages, GatherInputs, GatherRequests, ShareResults
<1>2. CASE GatherRequests
  <2>1. pc'[r] = "results" /\ got'[r] = NewRollout(r, engine)
    BY <1>2 DEF GatherRequests
  <2>2. Own(got'[r], Loop(r))
    BY <2>1, OwnRollout
  <2>3. TakenOwn(r)'
    BY <1>1, <2>2 DEF TakenOwn, Own, Loop
  <2>4. QueuedOwn(r)' /\ FlownOwn(r)' /\ Hooked(r)'
    BY <1>1, <2>1 DEF PromptInv, QueuedOwn, FlownOwn, Hooked, Own
  <2>5. QED
    BY <2>3, <2>4 DEF PromptInv
<1>3. CASE GatherMessages \/ GatherInputs \/ ShareResults
  <2>1. got'[r] = got[r] /\ pc'[r] \notin {"results", "eval_wait"}
    BY <1>3 DEF GatherMessages, GatherInputs, ShareResults
  <2>2. Hooked(r)'
    BY <1>1, <2>1 DEF PromptInv, Hooked
  <2>3. QED
    BY <1>1, <2>1, <2>2, PromptsMoved
<1>4. QED
  BY <1>2, <1>3 DEF Collective

LEMMA WorkerPrompts ==
    ASSUME TypeOK, BusyOK, NEW r \in Ranks, PromptInv(r), Worker(r)
    PROVE  PromptInv(r)'
<1> DEFINE p == pool[r]
           q == queue[r]
<1>1. /\ got'[r] = got[r] /\ caller'[r] = caller[r]
      /\ evaluating'[r] = evaluating[r] /\ pc'[r] = pc[r]
  BY DEF Worker, StartTask, FinishTask, FailTask, rankVars
<1>2. /\ p # <<>> /\ p \in Seq(Rollout) /\ q \in [Datasets -> Seq(Rollout)]
      /\ DOMAIN p = 1..Len(p) /\ Len(p) \in Nat \ {0}
  <2>1. p # <<>> /\ p \in Seq(Rollout)
    BY DEF Worker, StartTask, FinishTask, FailTask, BusyOK, TypeOK
  <2>2. QED
    BY <2>1, RankTypes, EmptySeq, LenProperties
<1>3. /\ \A i \in DOMAIN p : Own(p[i], p[i].dest)
      /\ \A d \in Datasets : \A i \in DOMAIN q[d] : Own(q[d][i], d)
  BY DEF PromptInv, QueuedOwn, FlownOwn
<1>4. TakenOwn(r)' /\ Hooked(r)'
  BY <1>1 DEF PromptInv, TakenOwn, Hooked, Own, Loop, At
<1> HIDE DEF p, q
<1>5. ASSUME pool'[r] = Tail(p) PROVE FlownOwn(r)'
  <2>1. SUFFICES ASSUME NEW i \in DOMAIN pool'[r]
                 PROVE  Own(pool'[r][i], pool'[r][i].dest)
    BY DEF FlownOwn, Own
  <2>2. /\ DOMAIN Tail(p) = 1..(Len(p) - 1)
        /\ \A j \in 1..(Len(p) - 1) : Tail(p)[j] = p[j+1]
    BY <1>2, HeadTailProperties
  <2>3. i \in 1..(Len(p) - 1)
    BY <1>5, <2>1, <2>2
  <2>4. i + 1 \in DOMAIN p /\ pool'[r][i] = p[i+1]
    BY <1>2, <1>5, <2>2, <2>3
  <2>5. QED
    BY <1>3, <2>4
<1>6. CASE StartTask(r)
  <2>1. PICK w \in Int :
            pool' = [pool EXCEPT ![r] = [pool[r] EXCEPT ![1].weights = w]]
    BY <1>6, StartedTask
  <2>2. pool'[r] = [p EXCEPT ![1].weights = w] /\ queue'[r] = q
    BY <1>6, <2>1 DEF StartTask, TypeOK, p, q
  <2>3. /\ DOMAIN pool'[r] = 1..Len(p)
        /\ \A i \in 1..Len(p) :
              pool'[r][i].dest = p[i].dest /\ pool'[r][i].of = p[i].of
    BY <1>2, <2>2, HeadReplaced
  <2>4. FlownOwn(r)'
    BY <1>2, <1>3, <2>3 DEF FlownOwn, Own
  <2>5. QueuedOwn(r)'
    BY <1>3, <2>2 DEF QueuedOwn, Own
  <2>6. QED
    BY <1>4, <2>4, <2>5 DEF PromptInv
<1>7. CASE FinishTask(r)
  <2> DEFINE x == Head(p)
             c == Head(p).dest
  <2>1. pool'[r] = Tail(p) /\ queue'[r] = [q EXCEPT ![c] = Append(@, x)]
    BY <1>7 DEF FinishTask, TypeOK, p, q
  <2>2. x = p[1] /\ 1 \in DOMAIN p
    BY <1>2, HeadTailProperties
  <2>3. x \in Rollout /\ Own(x, c) /\ c \in Datasets
    <3>1. x \in Rollout
      BY <1>2, <2>2, ElementOfSeq
    <3>2. c \in Datasets
      BY <3>1 DEF Rollout
    <3>3. Own(x, c)
      BY <1>3, <2>2, Zenon
    <3>4. QED
      BY <3>1, <3>2, <3>3
  <2> HIDE DEF x, c
  <2>4. ASSUME NEW d \in Datasets, NEW i \in DOMAIN queue'[r][d]
        PROVE  Own(queue'[r][d][i], d)
    <3>1. CASE d = c
      <4>1. queue'[r][d] = Append(q[d], x)
        BY <1>2, <2>1, <2>3, <3>1
      <4>2. /\ DOMAIN Append(q[d], x) = 1..(Len(q[d]) + 1)
            /\ DOMAIN q[d] = 1..Len(q[d]) /\ Len(q[d]) \in Nat
            /\ \A j \in 1..(Len(q[d]) + 1) :
                  Append(q[d], x)[j] = IF j = Len(q[d]) + 1 THEN x ELSE q[d][j]
        BY <1>2, <2>3, AppendProperties, LenProperties
      <4>3. i \in 1..(Len(q[d]) + 1)
        BY <2>4, <4>1, <4>2
      <4>4. i = Len(q[d]) + 1 \/ i \in DOMAIN q[d]
        BY <4>2, <4>3
      <4>5. queue'[r][d][i] = IF i = Len(q[d]) + 1 THEN x ELSE q[d][i]
        BY <4>1, <4>2, <4>3
      <4>6. QED
        BY <1>3, <2>3, <3>1, <4>4, <4>5
    <3>2. CASE d # c
      <4>1. queue'[r][d] = q[d]
        BY <1>2, <2>1, <3>2
      <4>2. QED
        BY <1>3, <2>4, <4>1
    <3>3. QED
      BY <3>1, <3>2
  <2>5. QueuedOwn(r)'
    BY <2>4 DEF QueuedOwn, Own
  <2>6. QED
    BY <1>4, <1>5, <2>1, <2>5 DEF PromptInv
<1>8. CASE FailTask(r)
  <2>1. pool'[r] = Tail(p) /\ queue'[r] = q
    BY <1>8 DEF FailTask, TypeOK, p, q
  <2>2. QueuedOwn(r)'
    BY <1>3, <2>1 DEF QueuedOwn, Own
  <2>3. QED
    BY <1>4, <1>5, <2>1, <2>2 DEF PromptInv
<1>9. QED
  BY <1>6, <1>7, <1>8 DEF Worker

LEMMA StepPrompts ==
    ASSUME TypeOK, BusyOK, IInv, ~(Async /\ EvalOnStart), [Next]_vars,
           NEW s \in Ranks, PromptInv(s)
    PROVE  PromptInv(s)'
<1>1. RankInv(s)
  BY DEF IInv
<1>2. CASE Collective
  BY <1>2, CollectivePrompts
<1>3. ASSUME NEW r \in Ranks, MainThread(r) \/ Worker(r), r # s
      PROVE  PromptInv(s)'
  <2>1. /\ queue'[s] = queue[s] /\ pool'[s] = pool[s] /\ got'[s] = got[s]
        /\ pc'[s] = pc[s] /\ evaluating'[s] = evaluating[s]
        /\ caller'[s] = caller[s]
    BY <1>3, OthersKept
  <2>2. Hooked(s)'
    BY <2>1 DEF PromptInv, Hooked, At
  <2>3. QED
    BY <2>1, <2>2, PromptsMoved
<1>4. CASE Worker(s)
  BY <1>4, WorkerPrompts
<1>5. CASE MainThread(s)
  BY <1>1, <1>5, LoopPrompts, PrefetchPrompts, SubmitPrompts, GetPrompts
     DEF MainThread
<1>6. CASE UNCHANGED vars
  <2>1. Hooked(s)'
    BY <1>6 DEF PromptInv, Hooked, At, vars, rankVars, flowVars
  <2>2. QED
    BY <1>6, <2>1, PromptsMoved DEF vars, rankVars, flowVars
<1>7. QED
  BY <1>2, <1>3, <1>4, <1>5, <1>6 DEF Next, Finished

\* What a rank takes for training has the prompts of the training data, what
\* it takes for an evaluation those of the evaluation data, on condition that
\* no asynchronous run starts with an evaluation, which uses train_queue.
THEOREM OwnPromptsAlways ==
    ASSUME ~(Async /\ EvalOnStart)
    PROVE  Spec => []OwnPrompts
<1> DEFINE Prompts == \A r \in Ranks : PromptInv(r)
<1>1. Init => TypeOK /\ BusyOK /\ IInv /\ Prompts
  BY InitType, InitBusy, InitIInv, InitPrompts
<1>2. TypeOK /\ BusyOK /\ IInv /\ [Next]_vars => (TypeOK /\ BusyOK /\ IInv)'
  BY StepType, StepBusy, StepIInv
<1>3. TypeOK /\ BusyOK /\ IInv /\ Prompts /\ [Next]_vars => Prompts'
  BY StepPrompts
<1>4. Prompts => OwnPrompts
  BY DEF OwnPrompts, PromptInv, TakenOwn, Own, Loop
<1>5. QED
  BY <1>1, <1>2, <1>3, <1>4, PTL DEF Spec

-----------------------------------------------------------------------------
(***************************************************************************)
(* In step.  Between two collectives every rank goes on its own, some      *)
(* ahead of others; but what a rank does next depends on nothing the ranks *)
(* do not share.  So the ranks walk along the same path, none of them past *)
(* a place where it has to meet the others, and when all have come to such *)
(* a place it is the same one.                                             *)
(***************************************************************************)

\* F leads from a state of a rank to its next, except from the Stops, where
\* the rank waits for the others.  A set is closed if no walk leaves it.
Closed(Stops, F, S) == \A z \in S : z \notin Stops => F[z] \in S

\* The states a walk from y, which is not at a stop, comes to: those that are
\* in every closed set that holds the next one.
Beyond(States, Stops, F, y) ==
    {x \in States : \A S \in SUBSET States :
                        F[y] \in S /\ Closed(Stops, F, S) => x \in S}

Ahead(States, Stops, F, x, y) == y \notin Stops /\ x \in Beyond(States, Stops, F, y)

InStep(States, Stops, F, x, y) ==
    \/ x = y
    \/ Ahead(States, Stops, F, x, y)
    \/ Ahead(States, Stops, F, y, x)

\* One of the two walks on.
LEMMA WalkOn ==
    ASSUME NEW States, NEW Stops, NEW F, NEW x \in States, NEW y \in States,
           InStep(States, Stops, F, x, y), x \notin Stops, F[x] \in States
    PROVE  InStep(States, Stops, F, F[x], y)
<1>1. CASE x = y
  <2>1. F[x] \in Beyond(States, Stops, F, y)
    BY <1>1 DEF Beyond
  <2>2. QED
    BY <1>1, <2>1 DEF InStep, Ahead
<1>2. CASE Ahead(States, Stops, F, x, y)
  <2>1. SUFFICES ASSUME NEW S \in SUBSET States, F[y] \in S, Closed(Stops, F, S)
                 PROVE  F[x] \in S
    BY <1>2 DEF InStep, Ahead, Beyond
  <2>2. x \in S
    BY <1>2, <2>1 DEF Ahead, Beyond
  <2>3. QED
    BY <2>1, <2>2 DEF Closed
<1>3. CASE Ahead(States, Stops, F, y, x)
  <2> DEFINE z == F[x]
  <2>1. y \in Beyond(States, Stops, F, x)
    BY <1>3 DEF Ahead
  <2>2. CASE z \in Stops
    <3>1. Closed(Stops, F, {z}) /\ {z} \in SUBSET States /\ F[x] \in {z}
      BY <2>2 DEF Closed
    <3>2. y \in {z}
      BY <2>1, <3>1 DEF Beyond
    <3>3. QED
      BY <3>2 DEF InStep
  <2>3. CASE z \notin Stops /\ y # z
    <3>1. SUFFICES ASSUME NEW S \in SUBSET States, F[z] \in S, Closed(Stops, F, S)
                   PROVE  y \in S
      BY <2>3 DEF InStep, Ahead, Beyond
    <3>2. S \cup {z} \in SUBSET States /\ F[x] \in S \cup {z}
      OBVIOUS
    <3>3. Closed(Stops, F, S \cup {z})
      BY <3>1 DEF Closed
    <3>4. y \in S \cup {z}
      BY <2>1, <3>2, <3>3 DEF Beyond
    <3>5. QED
      BY <2>3, <3>4
  <2>4. QED
    BY <2>2, <2>3 DEF InStep
<1>4. QED
  BY <1>1, <1>2, <1>3 DEF InStep

LEMMA EitherOrder ==
    ASSUME NEW States, NEW Stops, NEW F, NEW x, NEW y,
           InStep(States, Stops, F, x, y)
    PROVE  InStep(States, Stops, F, y, x)
BY DEF InStep

\* Both have to wait for the others: they are at the same place.
LEMMA BothStopped ==
    ASSUME NEW States, NEW Stops, NEW F, NEW x \in Stops, NEW y \in Stops,
           InStep(States, Stops, F, x, y)
    PROVE  x = y
BY DEF InStep, Ahead

-----------------------------------------------------------------------------
(* The path.  What a rank does next is decided by these of its variables;   *)
(* that no result waits for the first evaluation, and that one waits for    *)
(* every later one, makes prefetching a question of eval_flag.              *)

Local(r) ==
    [pc |-> pc[r], caller |-> caller[r], globalStep |-> globalStep[r],
     microStep |-> microStep[r], evaluating |-> evaluating[r],
     shouldEvaluate |-> shouldEvaluate[r], evalFlag |-> evalFlag[r],
     evalIdx |-> evalIdx[r], resampled |-> resampled[r], issued |-> issued[r]]

LocalStates ==
    [pc : Locations, caller : {"start", "step", "epoch"}, globalStep : Nat,
     microStep : Nat, evaluating : BOOLEAN, shouldEvaluate : BOOLEAN,
     evalFlag : BOOLEAN, evalIdx : Nat, resampled : Nat, issued : Nat]

Go(x, l) == [x EXCEPT !.pc = l]
Hook(x, h) == [x EXCEPT !.shouldEvaluate = TRUE, !.caller = h, !.pc = "eval_wait"]
Issue(x, l) == [x EXCEPT !.issued = @ + 1, !.pc = l]

Onward(x) == IF x.globalStep >= MaxSteps \/ x.globalStep = StopStep
             THEN "done" ELSE "train_step"

LocalNext(x) ==
    CASE x.pc = "train_begin" -> Go(x, "pf_messages")
      [] x.pc = "pf_sync" -> Go(x, "pf_infer")
      [] x.pc = "pf_infer" ->
           Issue(x, IF x.evaluating THEN "eval_batch"
                    ELSE IF EvalOnStart THEN "eval_wait" ELSE "train_step")
      [] x.pc = "sync" -> Go(x, IF Async THEN "inputs" ELSE "requests")
      [] x.pc = "submit" -> Issue(x, "get")
      [] x.pc = "get" -> Go(x, "results")
      [] x.pc = "train_step" ->
           Go(x, IF x.microStep % GenerateEvery = 0 THEN "messages"
                 ELSE "backward")
      [] x.pc = "backward" ->
           IF (x.microStep + 1) % GradAccum = 0
           THEN [x EXCEPT !.microStep = @ + 1, !.globalStep = @ + 1,
                          !.pc = "step_end"]
           ELSE [x EXCEPT !.microStep = @ + 1, !.pc = "train_step"]
      [] x.pc = "step_end" ->
           IF \/ x.globalStep \in EvalSteps
              \/ x.globalStep = MaxSteps /\ Evaluates
           THEN Hook(x, "step") ELSE Go(x, "epoch_end")
      [] x.pc = "epoch_end" ->
           IF \/ x.globalStep \in EpochEnds
              \/ x.globalStep = StopStep /\ Evaluates
           THEN Hook(x, "epoch") ELSE Go(x, Onward(x))
      [] x.pc = "eval_wait" ->
           [x EXCEPT !.evaluating = TRUE,
                     !.pc = IF Async /\ x.shouldEvaluate /\ ~x.evalFlag
                            THEN "pf_messages" ELSE "eval_batch"]
      [] x.pc = "eval_batch" ->
           IF x.evalIdx < EvalBatches
           THEN [x EXCEPT !.evalIdx = @ + 1, !.pc = "messages"]
           ELSE [x EXCEPT !.evalIdx = 0, !.evaluating = FALSE,
                          !.evalFlag = TRUE, !.shouldEvaluate = FALSE,
                          !.pc = CASE x.caller = "start" -> "train_step"
                                   [] x.caller = "step"  -> "epoch_end"
                                   [] x.caller = "epoch" -> Onward(x)]
      [] OTHER -> x

\* An asynchronous evaluation finds eval_queue empty if it is the first, and
\* only then.
FirstEvaluation(r) ==
    ~evalFlag[r] /\ ~At(r, "done") /\ (~shouldEvaluate[r] \/ At(r, "eval_wait"))
        => queue[r]["eval"] = <<>>

\* Training holds on to the result the last evaluation left.
LeftOver(r) ==
    evalFlag[r] /\ ~evaluating[r]
        /\ pc[r] \in {"messages", "sync", "inputs", "requests", "submit", "get",
                      "results", "backward", "step_end"}
            => queue[r]["eval"] # <<>>

LaterEvaluation(r) ==
    /\ evalFlag[r] /\ At(r, "epoch_end")
          => \/ queue[r]["eval"] # <<>>
             \/ globalStep[r] \in EvalSteps \cup {MaxSteps}
    /\ evalFlag[r] /\ At(r, "eval_wait") /\ shouldEvaluate[r]
          => queue[r]["eval"] # <<>>

EvalKept(r) ==
    Async => FirstEvaluation(r) /\ LeftOver(r) /\ LaterEvaluation(r)

LEMMA LocalType == TypeOK => \A r \in Ranks : Local(r) \in LocalStates
BY DEF TypeOK, Local, LocalStates

LEMMA PlainStep ==
    ASSUME TypeOK, NEW r \in Ranks,
           TrainBegin(r) \/ PrefetchSync(r) \/ PrefetchInfer(r) \/ Sync(r)
           \/ Submit(r) \/ Get(r) \/ TrainStep(r)
    PROVE  Local(r)' = LocalNext(Local(r))
<1> USE DEF At, Goto, rankVars, flowVars, syncVars
<1>1. /\ caller'[r] = caller[r] /\ globalStep'[r] = globalStep[r]
      /\ microStep'[r] = microStep[r] /\ evaluating'[r] = evaluating[r]
      /\ shouldEvaluate'[r] = shouldEvaluate[r] /\ evalFlag'[r] = evalFlag[r]
      /\ evalIdx'[r] = evalIdx[r] /\ resampled'[r] = resampled[r]
  BY DEF TrainBegin, PrefetchSync, PrefetchInfer, Sync, Submit, Get, TrainStep
<1>2. CASE PrefetchInfer(r) \/ Submit(r)
  <2>1. /\ issued'[r] = issued[r] + 1
        /\ \/ /\ pc[r] = "submit" /\ pc'[r] = "get"
           \/ /\ pc[r] = "pf_infer"
              /\ pc'[r] = IF evaluating[r] THEN "eval_batch"
                          ELSE IF EvalOnStart THEN "eval_wait" ELSE "train_step"
    BY <1>2 DEF PrefetchInfer, Submit, TypeOK
  <2>2. QED
    BY <1>1, <2>1 DEF Local, LocalNext, Issue
<1>3. CASE TrainBegin(r) \/ PrefetchSync(r) \/ Sync(r) \/ Get(r) \/ TrainStep(r)
  <2>1. issued'[r] = issued[r]
    BY <1>3 DEF TrainBegin, PrefetchSync, Sync, Get, TrainStep
  <2>2. \/ pc[r] = "train_begin" /\ pc'[r] = "pf_messages"
        \/ pc[r] = "pf_sync" /\ pc'[r] = "pf_infer"
        \/ pc[r] = "sync" /\ pc'[r] = IF Async THEN "inputs" ELSE "requests"
        \/ pc[r] = "get" /\ pc'[r] = "results"
        \/ /\ pc[r] = "train_step"
           /\ pc'[r] = IF microStep[r] % GenerateEvery = 0 THEN "messages"
                       ELSE "backward"
    BY <1>3 DEF TrainBegin, PrefetchSync, Sync, Get, TrainStep, TypeOK
  <2>3. QED
    BY <1>1, <2>1, <2>2 DEF Local, LocalNext, Go
<1>4. QED
  BY <1>2, <1>3

LEMMA BackwardStep ==
    ASSUME TypeOK, NEW r \in Ranks, Backward(r)
    PROVE  Local(r)' = LocalNext(Local(r))
<1> USE DEF At, Goto, flowVars, syncVars
<1>1. /\ caller'[r] = caller[r] /\ evaluating'[r] = evaluating[r]
      /\ shouldEvaluate'[r] = shouldEvaluate[r] /\ evalFlag'[r] = evalFlag[r]
      /\ evalIdx'[r] = evalIdx[r] /\ resampled'[r] = resampled[r]
      /\ issued'[r] = issued[r] /\ pc[r] = "backward"
      /\ microStep'[r] = microStep[r] + 1
  BY DEF Backward, TypeOK
<1>2. IF (microStep[r] + 1) % GradAccum = 0
      THEN globalStep'[r] = globalStep[r] + 1 /\ pc'[r] = "step_end"
      ELSE globalStep'[r] = globalStep[r] /\ pc'[r] = "train_step"
  BY DEF Backward, TypeOK
<1>3. QED
  BY <1>1, <1>2 DEF Local, LocalNext

LEMMA HookStep ==
    ASSUME TypeOK, NEW r \in Ranks, StepEnd(r) \/ EpochEnd(r)
    PROVE  Local(r)' = LocalNext(Local(r))
<1> USE DEF At, Goto, Evaluate, flowVars, syncVars
<1>1. /\ globalStep'[r] = globalStep[r] /\ microStep'[r] = microStep[r]
      /\ evaluating'[r] = evaluating[r] /\ evalFlag'[r] = evalFlag[r]
      /\ evalIdx'[r] = evalIdx[r] /\ resampled'[r] = resampled[r]
      /\ issued'[r] = issued[r]
  BY DEF StepEnd, EpochEnd
<1>2. CASE StepEnd(r)
  <2>1. /\ pc[r] = "step_end"
        /\ IF \/ globalStep[r] \in EvalSteps
              \/ globalStep[r] = MaxSteps /\ Evaluates
           THEN /\ shouldEvaluate'[r] = TRUE /\ caller'[r] = "step"
                /\ pc'[r] = "eval_wait"
           ELSE /\ shouldEvaluate'[r] = shouldEvaluate[r]
                /\ caller'[r] = caller[r] /\ pc'[r] = "epoch_end"
    BY <1>2 DEF StepEnd, TypeOK
  <2>2. QED
    BY <1>1, <2>1 DEF Local, LocalNext, Hook, Go
<1>3. CASE EpochEnd(r)
  <2>1. /\ pc[r] = "epoch_end"
        /\ IF \/ globalStep[r] \in EpochEnds
              \/ globalStep[r] = StopStep /\ Evaluates
           THEN /\ shouldEvaluate'[r] = TRUE /\ caller'[r] = "epoch"
                /\ pc'[r] = "eval_wait"
           ELSE /\ shouldEvaluate'[r] = shouldEvaluate[r]
                /\ caller'[r] = caller[r] /\ pc'[r] = NextStep(r)
    BY <1>3 DEF EpochEnd, TypeOK
  <2>2. NextStep(r) = Onward(Local(r))
    BY DEF NextStep, LastStep, Onward, Local
  <2>3. QED
    BY <1>1, <2>1, <2>2 DEF Local, LocalNext, Hook, Go
<1>4. QED
  BY <1>2, <1>3

LEMMA EvalStep ==
    ASSUME TypeOK, NEW r \in Ranks, EvalBatch(r) \/ EvalEnd(r)
    PROVE  Local(r)' = LocalNext(Local(r))
<1> USE DEF At, Goto, flowVars, syncVars
<1>1. /\ caller'[r] = caller[r] /\ globalStep'[r] = globalStep[r]
      /\ microStep'[r] = microStep[r] /\ resampled'[r] = resampled[r]
      /\ issued'[r] = issued[r] /\ pc[r] = "eval_batch"
  BY DEF EvalBatch, EvalEnd
<1>2. EvalBatches \in Nat /\ evalIdx[r] \in Nat
  BY RolloutAssumption DEF TypeOK
<1>3. CASE EvalBatch(r)
  <2>1. /\ evaluating'[r] = evaluating[r] /\ evalFlag'[r] = evalFlag[r]
        /\ shouldEvaluate'[r] = shouldEvaluate[r]
        /\ evalIdx'[r] = evalIdx[r] + 1 /\ pc'[r] = "messages"
        /\ evalIdx[r] < EvalBatches
    BY <1>3 DEF EvalBatch, TypeOK
  <2>2. QED
    BY <1>1, <2>1 DEF Local, LocalNext
<1>4. CASE EvalEnd(r)
  <2>1. /\ evaluating'[r] = FALSE /\ evalFlag'[r] = TRUE
        /\ shouldEvaluate'[r] = FALSE /\ evalIdx'[r] = 0
        /\ ~(evalIdx[r] < EvalBatches)
    BY <1>2, <1>4 DEF EvalEnd, TypeOK
  <2>2. pc'[r] = CASE caller[r] = "start" -> "train_step"
                   [] caller[r] = "step"  -> "epoch_end"
                   [] caller[r] = "epoch" -> NextStep(r)
    BY <1>4, Zenon DEF EvalEnd, TypeOK
  <2>3. NextStep(r) = Onward(Local(r)) /\ caller[r] \in {"start", "step", "epoch"}
    BY DEF NextStep, LastStep, Onward, Local, TypeOK
  <2>4. QED
    BY <1>1, <2>1, <2>2, <2>3, ZenonT(60) DEF Local, LocalNext
<1>5. QED
  BY <1>3, <1>4

LEMMA EvalWaitStep ==
    ASSUME TypeOK, NEW r \in Ranks, EvalKept(r), EvalWait(r)
    PROVE  Local(r)' = LocalNext(Local(r))
<1> USE DEF At, Goto, flowVars, syncVars
<1>1. /\ caller'[r] = caller[r] /\ globalStep'[r] = globalStep[r]
      /\ microStep'[r] = microStep[r] /\ resampled'[r] = resampled[r]
      /\ shouldEvaluate'[r] = shouldEvaluate[r] /\ evalFlag'[r] = evalFlag[r]
      /\ evalIdx'[r] = evalIdx[r] /\ issued'[r] = issued[r]
      /\ evaluating'[r] = TRUE /\ pc[r] = "eval_wait"
      /\ pc'[r] = IF Async /\ Waiting(r) = <<>> THEN "pf_messages" ELSE "eval_batch"
  BY DEF EvalWait, TypeOK
<1>2. ASSUME Async PROVE Waiting(r) = <<>> <=> shouldEvaluate[r] /\ ~evalFlag[r]
  <2>1. CASE shouldEvaluate[r]
    BY <1>1, <1>2, <2>1
       DEF EvalKept, FirstEvaluation, LaterEvaluation, Waiting, CurrentQueue
  <2>2. CASE ~shouldEvaluate[r]
    BY <1>2, <2>2 DEF EvalWait, Waiting, CurrentQueue
  <2>3. QED
    BY <2>1, <2>2
<1>3. pc'[r] = IF Async /\ shouldEvaluate[r] /\ ~evalFlag[r] THEN "pf_messages"
               ELSE "eval_batch"
  BY <1>1, <1>2
<1>4. QED
  BY <1>1, <1>3 DEF Local, LocalNext

LEMMA InitKept == ASSUME Init, NEW r \in Ranks PROVE EvalKept(r)
<1>1. \A d \in Datasets : queue[r][d] = <<>>
  BY DEF Init
<1>2. queue[r]["eval"] = <<>> /\ evalFlag[r] = FALSE
  BY <1>1 DEF Init, Datasets
<1>3. QED
  BY <1>2 DEF EvalKept, FirstEvaluation, LeftOver, LaterEvaluation

\* The worker adds nothing to eval_queue before the first evaluation, and
\* takes nothing from it.
LEMMA WorkerKept ==
    ASSUME TypeOK, BusyOK, Async => ~EvaluatedTwice,
           NEW r \in Ranks, RankInv(r), EvalKept(r), Worker(r)
    PROVE  EvalKept(r)'
<1> USE DEF At
<1>1. SUFFICES ASSUME Async PROVE EvalKept(r)'
  BY DEF EvalKept
<1>2. /\ pc'[r] = pc[r] /\ evalFlag'[r] = evalFlag[r]
      /\ shouldEvaluate'[r] = shouldEvaluate[r]
      /\ evaluating'[r] = evaluating[r] /\ globalStep'[r] = globalStep[r]
  BY DEF Worker, StartTask, FinishTask, FailTask, rankVars
<1>3. \/ queue'[r]["eval"] = queue[r]["eval"]
      \/ /\ busy[r] /\ Head(pool[r]).dest = "eval"
         /\ queue'[r]["eval"] = Append(queue[r]["eval"], Head(pool[r]))
  <2>1. queue \in [Ranks -> [Datasets -> Seq(Rollout)]] /\ "eval" \in Datasets
    BY DEF TypeOK, Datasets
  <2>2. CASE StartTask(r) \/ FailTask(r)
    BY <2>2 DEF StartTask, FailTask
  <2>3. CASE FinishTask(r)
    <3> DEFINE x == Head(pool[r])
               c == Head(pool[r]).dest
               q == queue[r]
    <3>1. busy[r] /\ queue'[r] = [q EXCEPT ![c] = Append(@, x)]
      BY <2>3 DEF FinishTask, TypeOK
    <3>2. q \in [Datasets -> Seq(Rollout)]
      BY <2>1
    <3> HIDE DEF x, c, q
    <3>3. queue'[r]["eval"] = IF c = "eval" THEN Append(q["eval"], x) ELSE q["eval"]
      BY <2>1, <3>1, <3>2
    <3>4. QED
      BY <3>1, <3>3 DEF x, c, q
  <2>4. QED
    BY <2>2, <2>3 DEF Worker
<1>4. queue[r]["eval"] # <<>> => queue'[r]["eval"] # <<>>
  <2>1. CASE queue'[r]["eval"] = queue[r]["eval"]
    BY <2>1
  <2>2. CASE /\ busy[r]
             /\ queue'[r]["eval"] = Append(queue[r]["eval"], Head(pool[r]))
    <3>1. Head(pool[r]) \in Rollout /\ queue[r]["eval"] \in Seq(Rollout)
      BY <2>2, TakenTask, RankTypes
    <3>2. Append(queue[r]["eval"], Head(pool[r])) # <<>>
      BY <3>1, AppendProperties
    <3>3. QED
      BY <2>2, <3>2
  <2>3. QED
    BY <1>3, <2>1, <2>2
<1>5. ASSUME ~evalFlag[r], ~At(r, "done"),
             ~shouldEvaluate[r] \/ At(r, "eval_wait")
      PROVE  queue'[r]["eval"] = queue[r]["eval"]
  <2>1. SUFFICES ASSUME busy[r], Head(pool[r]).dest = "eval" PROVE FALSE
    BY <1>3
  <2>2. Flow(r) /\ ~Second(r) /\ Mode(r)
    BY <1>1 DEF RankInv, Second
  <2>3. pool[r] # <<>> /\ pool[r] \in Seq(Rollout)
    BY <2>1, RankTypes DEF BusyOK
  <2>4. pc[r] \notin Prefetching \cup {"train_begin"}
    BY <2>2, <2>3 DEF Flow
  <2>5. pc[r] \in Generating \cup {"get", "backward", "step_end", "train_step",
                                   "epoch_end", "eval_wait"}
    BY <1>5, <2>4 DEF TypeOK, Locations, ExchangePoints, Prefetching, Generating
  <2>6. pc[r] \in Generating \cup {"get"} => CurrentQueue(r) = "train"
    BY <1>5 DEF CurrentQueue, Generating
  <2>7. \E n \in {1, 2} : Owes(r, "train", n)
    BY <1>5, <2>2, <2>5, <2>6 DEF Flow
  <2>8. \A i \in DOMAIN pool[r] : pool[r][i].dest = "train"
    BY <2>7 DEF Owes, Owed
  <2>9. 1 \in DOMAIN pool[r] /\ Head(pool[r]) = pool[r][1]
    BY <2>3, EmptySeq, HeadTailProperties
  <2>10. QED
    BY <2>1, <2>8, <2>9
<1>6. QED
  BY <1>2, <1>4, <1>5 DEF EvalKept, FirstEvaluation, LeftOver, LaterEvaluation

LEMMA CollectiveKept ==
    ASSUME TypeOK, NEW r \in Ranks, EvalKept(r), Collective
    PROVE  EvalKept(r)'
<1> USE DEF At, Goto, rankVars, flowVars
<1>1. /\ evalFlag'[r] = evalFlag[r] /\ queue'[r] = queue[r]
      /\ shouldEvaluate'[r] = shouldEvaluate[r]
      /\ evaluating'[r] = evaluating[r] /\ globalStep'[r] = globalStep[r]
  BY DEF Collective, GatherMessages, GatherInputs, GatherRequests, ShareResults
<1>2. \/ /\ pc[r] \in ExchangePoints
         /\ pc'[r] \in {"pf_inputs", "pf_sync", "eval_batch"}
         /\ pc'[r] = "eval_batch" => evaluating[r]
      \/ /\ pc[r] \in {"messages", "inputs", "requests", "results"}
         /\ pc'[r] \in {"messages", "sync", "submit", "results", "backward"}
  <2>1. CASE GatherMessages
    BY <2>1 DEF GatherMessages, Meet, ExchangePoints, Exchange
  <2>2. CASE GatherInputs
    BY <2>2 DEF GatherInputs, Meet, ExchangePoints, Exchange
  <2>3. CASE GatherRequests
    BY <2>3 DEF GatherRequests, Meet, ExchangePoints, Exchange
  <2>4. CASE ShareResults
    BY <2>4 DEF ShareResults, Meet, ExchangePoints, Exchange
  <2>5. QED
    BY <2>1, <2>2, <2>3, <2>4 DEF Collective
<1>3. QED
  BY <1>1, <1>2 DEF EvalKept, FirstEvaluation, LeftOver, LaterEvaluation,
     ExchangePoints

\* The steps between a batch requested and the end of its training.
LEMMA BatchKept ==
    ASSUME TypeOK, NEW r \in Ranks, RankInv(r), EvalKept(r),
           TrainBegin(r) \/ PrefetchSync(r) \/ PrefetchInfer(r) \/ Sync(r)
           \/ Submit(r) \/ Get(r) \/ TrainStep(r) \/ Backward(r)
    PROVE  EvalKept(r)'
<1> USE DEF At, Goto, rankVars, flowVars
<1>1. SUFFICES ASSUME Async PROVE EvalKept(r)'
  BY DEF EvalKept
<1>2. /\ evalFlag'[r] = evalFlag[r]
      /\ shouldEvaluate'[r] = shouldEvaluate[r]
      /\ evaluating'[r] = evaluating[r]
  BY DEF TrainBegin, PrefetchSync, PrefetchInfer, Sync, Submit, Get, TrainStep,
         Backward
<1>3. Mode(r) /\ FirstEvaluation(r) /\ LeftOver(r) /\ LaterEvaluation(r)
  BY <1>1 DEF RankInv, EvalKept
<1>4. CASE PrefetchInfer(r) \/ Get(r)
  <2>1. \/ pc[r] = "get" /\ pc'[r] = "results"
        \/ /\ pc[r] = "pf_infer" /\ pc'[r] \in {"train_step", "eval_batch", "eval_wait"}
           /\ evaluating[r] => pc'[r] = "eval_batch"
    BY <1>4 DEF PrefetchInfer, Get, TypeOK
  <2>2. ~shouldEvaluate[r] => queue'[r]["eval"] = queue[r]["eval"]
    <3>1. queue \in [Ranks -> [Datasets -> Seq(Rollout)]] /\ "eval" \in Datasets
      BY DEF TypeOK, Datasets
    <3>2. ASSUME ~shouldEvaluate[r] PROVE CurrentQueue(r) = "train"
      BY <3>2 DEF CurrentQueue
    <3>3. QED
      BY <1>4, <3>1, <3>2 DEF PrefetchInfer, Get
  <2>3. shouldEvaluate[r] => evaluating[r]
    BY <1>3, <2>1 DEF Mode
  <2>4. QED
    BY <1>2, <1>3, <2>1, <2>2, <2>3
       DEF EvalKept, FirstEvaluation, LeftOver, LaterEvaluation
<1>5. CASE TrainBegin(r) \/ PrefetchSync(r) \/ Sync(r) \/ Submit(r)
  <2>1. queue'[r] = queue[r] /\ globalStep'[r] = globalStep[r]
    BY <1>5 DEF TrainBegin, PrefetchSync, Sync, Submit
  <2>2. \/ pc'[r] \in {"pf_messages", "pf_infer"} /\ pc[r] \in {"train_begin", "pf_sync"}
        \/ pc'[r] \in {"inputs", "requests"} /\ pc[r] = "sync"
        \/ pc'[r] = "get" /\ pc[r] = "submit"
    BY <1>5 DEF TrainBegin, PrefetchSync, Sync, Submit, TypeOK
  <2>3. QED
    BY <1>2, <1>3, <2>1, <2>2
       DEF EvalKept, FirstEvaluation, LeftOver, LaterEvaluation
<1>6. CASE TrainStep(r) \/ Backward(r)
  <2>1. queue'[r] = queue[r]
    BY <1>6 DEF TrainStep, Backward
  <2>2. \/ /\ pc[r] = "train_step" /\ pc'[r] \in {"messages", "backward"}
           /\ evalFlag[r] => queue[r]["eval"] # <<>>
        \/ pc[r] = "backward" /\ pc'[r] \in {"step_end", "train_step"}
    BY <1>1, <1>6 DEF TrainStep, Backward, TypeOK
  <2>3. QED
    BY <1>2, <1>3, <2>1, <2>2
       DEF EvalKept, FirstEvaluation, LeftOver, LaterEvaluation
<1>7. QED
  BY <1>4, <1>5, <1>6

LEMMA HookKept ==
    ASSUME TypeOK, Async => ~EvaluatedTwice,
           NEW r \in Ranks, RankInv(r), EvalKept(r), StepEnd(r) \/ EpochEnd(r)
    PROVE  EvalKept(r)'
<1> USE DEF At, Goto, Evaluate, rankVars, flowVars
<1>1. SUFFICES ASSUME Async PROVE EvalKept(r)'
  BY DEF EvalKept
<1>2. /\ evalFlag'[r] = evalFlag[r] /\ queue'[r] = queue[r]
      /\ evaluating'[r] = evaluating[r] /\ globalStep'[r] = globalStep[r]
  BY DEF StepEnd, EpochEnd
<1>3. Mode(r) /\ FirstEvaluation(r) /\ LeftOver(r) /\ LaterEvaluation(r)
  BY <1>1 DEF RankInv, EvalKept
<1>4. CASE StepEnd(r)
  <2>1. pc[r] = "step_end" /\ pc'[r] \in {"eval_wait", "epoch_end"}
    BY <1>4 DEF StepEnd, TypeOK
  <2>2. ~shouldEvaluate[r] /\ ~evaluating[r]
    BY <1>3, <2>1 DEF Mode
  <2>3. QED
    BY <1>2, <1>3, <2>1, <2>2
       DEF EvalKept, FirstEvaluation, LeftOver, LaterEvaluation
<1>5. CASE EpochEnd(r)
  <2>1. /\ pc[r] = "epoch_end"
        /\ \/ pc'[r] \in {"done", "train_step"}
           \/ /\ pc'[r] = "eval_wait" /\ Evaluates
              /\ globalStep[r] \in EpochEnds \cup {StopStep}
    BY <1>5 DEF EpochEnd, Evaluates, NextStep, TypeOK
  <2>2. ~shouldEvaluate[r] /\ ~evaluating[r] /\ globalStep[r] \in Nat
    BY <1>3, <2>1, RankTypes DEF Mode
  <2>3. pc'[r] = "eval_wait" => globalStep[r] \notin EvalSteps \cup {MaxSteps}
    BY <1>1, <2>1, <2>2 DEF EvaluatedTwice
  <2>4. QED
    BY <1>2, <1>3, <2>1, <2>2, <2>3
       DEF EvalKept, FirstEvaluation, LeftOver, LaterEvaluation
<1>6. QED
  BY <1>4, <1>5

LEMMA EvaluationKept ==
    ASSUME TypeOK, NEW r \in Ranks, RankInv(r), EvalKept(r),
           EvalWait(r) \/ EvalBatch(r) \/ EvalEnd(r)
    PROVE  EvalKept(r)'
<1> USE DEF At, Goto, rankVars, flowVars
<1>1. SUFFICES ASSUME Async PROVE EvalKept(r)'
  BY DEF EvalKept
<1>2. queue'[r] = queue[r] /\ globalStep'[r] = globalStep[r]
  BY DEF EvalWait, EvalBatch, EvalEnd
<1>3. Mode(r) /\ FirstEvaluation(r) /\ LeftOver(r) /\ LaterEvaluation(r)
  BY <1>1 DEF RankInv, EvalKept
<1>4. CASE EvalWait(r)
  <2>1. /\ pc[r] = "eval_wait" /\ pc'[r] \in {"pf_messages", "eval_batch"}
        /\ evaluating'[r] = TRUE /\ evalFlag'[r] = evalFlag[r]
        /\ shouldEvaluate'[r] = shouldEvaluate[r]
    BY <1>4 DEF EvalWait, TypeOK
  <2>2. QED
    BY <1>2, <1>3, <2>1
       DEF EvalKept, FirstEvaluation, LeftOver, LaterEvaluation
<1>5. CASE EvalBatch(r)
  <2>1. /\ pc[r] = "eval_batch" /\ pc'[r] = "messages"
        /\ evaluating'[r] = evaluating[r] /\ evalFlag'[r] = evalFlag[r]
        /\ shouldEvaluate'[r] = shouldEvaluate[r]
    BY <1>5 DEF EvalBatch, TypeOK
  <2>2. evaluating[r]
    BY <1>3, <2>1 DEF Mode
  <2>3. QED
    BY <1>2, <1>3, <2>1, <2>2
       DEF EvalKept, FirstEvaluation, LeftOver, LaterEvaluation
<1>6. CASE EvalEnd(r)
  <2>1. pc[r] = "eval_batch" /\ evalFlag'[r] = TRUE
    BY <1>6 DEF EvalEnd, TypeOK
  <2>2. \/ pc'[r] \in {"train_step", "done"}
        \/ pc'[r] = "epoch_end" /\ caller[r] = "step"
    <3>1. caller[r] \in {"start", "step", "epoch"}
      BY RankTypes
    <3>2. QED
      BY <1>6, <3>1 DEF EvalEnd, NextStep, TypeOK
  <2>3. caller[r] = "step" => globalStep[r] \in EvalSteps \cup {MaxSteps}
    BY <1>3, <2>1 DEF Mode
  <2>4. QED
    BY <1>2, <2>1, <2>2, <2>3
       DEF EvalKept, FirstEvaluation, LeftOver, LaterEvaluation
<1>7. QED
  BY <1>4, <1>5, <1>6

LEMMA StepKept ==
    ASSUME TypeOK, BusyOK, IInv, Async => ~EvaluatedTwice, [Next]_vars,
           NEW s \in Ranks, EvalKept(s)
    PROVE  EvalKept(s)'
<1>1. RankInv(s)
  BY DEF IInv
<1>2. CASE Collective
  BY <1>2, CollectiveKept
<1>3. ASSUME NEW r \in Ranks, MainThread(r) \/ Worker(r), r # s
      PROVE  EvalKept(s)'
  <2>1. /\ queue'[s] = queue[s] /\ pc'[s] = pc[s]
        /\ evaluating'[s] = evaluating[s] /\ evalFlag'[s] = evalFlag[s]
        /\ shouldEvaluate'[s] = shouldEvaluate[s]
        /\ globalStep'[s] = globalStep[s]
    BY <1>3, OthersKept
  <2>2. QED
    BY <2>1 DEF EvalKept, FirstEvaluation, LeftOver, LaterEvaluation, At
<1>4. CASE Worker(s)
  BY <1>1, <1>4, WorkerKept
<1>5. CASE MainThread(s)
  BY <1>1, <1>5, BatchKept, HookKept, EvaluationKept DEF MainThread
<1>6. CASE UNCHANGED vars
  BY <1>6 DEF EvalKept, FirstEvaluation, LeftOver, LaterEvaluation, At, vars,
     rankVars, flowVars
<1>7. QED
  BY <1>2, <1>3, <1>4, <1>5, <1>6 DEF Next, Finished

-----------------------------------------------------------------------------
(* The ranks on it.                                                         *)

LEMMA RankStep ==
    ASSUME TypeOK, NEW r \in Ranks, EvalKept(r), MainThread(r)
    PROVE  Local(r)' = LocalNext(Local(r)) /\ pc[r] \notin ExchangePoints
<1>1. Local(r)' = LocalNext(Local(r))
  BY PlainStep, BackwardStep, HookStep, EvalStep, EvalWaitStep DEF MainThread
<1>2. pc[r] \notin ExchangePoints
  BY DEF MainThread, TrainBegin, PrefetchSync, PrefetchInfer, Sync, Submit, Get,
     TrainStep, Backward, StepEnd, EpochEnd, EvalWait, EvalBatch, EvalEnd, At,
     ExchangePoints
<1>3. QED
  BY <1>1, <1>2

LEMMA RankStays ==
    ASSUME TypeOK, NEW r \in Ranks, Worker(r) \/ UNCHANGED vars
    PROVE  Local(r)' = Local(r)
BY DEF Worker, StartTask, FinishTask, FailTask, Local, rankVars, flowVars, vars

LEMMA OtherStays ==
    ASSUME TypeOK, NEW r \in Ranks, NEW s \in Ranks, r # s,
           MainThread(r) \/ Worker(r)
    PROVE  Local(s)' = Local(s)
BY OthersKept DEF Local

\* In a collective the ranks do the same if they were at the same place.
LEMMA MeetingStep ==
    ASSUME TypeOK, Collective, NEW r \in Ranks, NEW s \in Ranks,
           Local(r) = Local(s)
    PROVE  Local(r)' = Local(s)'
<1> USE DEF At, rankVars, flowVars
<1>1. /\ pc[r] = pc[s] /\ caller[r] = caller[s] /\ globalStep[r] = globalStep[s]
      /\ microStep[r] = microStep[s] /\ evaluating[r] = evaluating[s]
      /\ shouldEvaluate[r] = shouldEvaluate[s] /\ evalFlag[r] = evalFlag[s]
      /\ evalIdx[r] = evalIdx[s] /\ resampled[r] = resampled[s]
      /\ issued[r] = issued[s]
  BY DEF Local
<1>2. UNCHANGED <<caller, globalStep, microStep, evaluating, shouldEvaluate,
                  evalFlag, evalIdx>>
  BY DEF Collective, GatherMessages, GatherInputs, GatherRequests, ShareResults
<1>3. issued'[r] = issued'[s] /\ resampled'[r] = resampled'[s]
  <2>1. CASE GatherMessages \/ GatherInputs
    BY <1>1, <2>1 DEF GatherMessages, GatherInputs
  <2>2. CASE GatherRequests
    BY <1>1, <2>2 DEF GatherRequests
  <2>3. CASE ShareResults
    BY <1>1, <2>3 DEF ShareResults
  <2>4. QED
    BY <2>1, <2>2, <2>3 DEF Collective
<1>4. pc'[r] = pc'[s]
  <2>1. CASE GatherMessages \/ GatherInputs
    BY <1>1, <2>1 DEF GatherMessages, GatherInputs
  <2>2. CASE GatherRequests
    BY <1>1, <2>2 DEF GatherRequests
  <2>3. CASE ShareResults
    BY <1>1, <2>3 DEF ShareResults
  <2>4. QED
    BY <2>1, <2>2, <2>3 DEF Collective
<1>5. QED
  BY <1>1, <1>2, <1>3, <1>4 DEF Local

LocalStops == {x \in LocalStates : x.pc \in ExchangePoints}
LocalWalk == [x \in LocalStates |-> LocalNext(x)]
Together(x, y) == InStep(LocalStates, LocalStops, LocalWalk, x, y)

AllTogether ==
    \A r, s \in Ranks : \A x, y \in LocalStates :
        x = Local(r) /\ y = Local(s) => Together(x, y)

LEMMA InitTogether == Init => AllTogether
<1> SUFFICES ASSUME Init, NEW r \in Ranks, NEW s \in Ranks
             PROVE  Local(r) = Local(s)
  BY DEF AllTogether, Together, InStep
<1>1. QED
  BY DEF Init, Local

LEMMA StepTogether ==
    ASSUME TypeOK, TypeOK', \A r \in Ranks : EvalKept(r), [Next]_vars, AllTogether
    PROVE  AllTogether'
<1> SUFFICES ASSUME NEW s \in Ranks, NEW t \in Ranks,
                    NEW a \in LocalStates, NEW b \in LocalStates,
                    a = Local(s)', b = Local(t)'
             PROVE  Together(a, b)
  BY DEF AllTogether
<1>1. PICK x \in LocalStates : x = Local(s)
  BY LocalType
<1>2. PICK y \in LocalStates : y = Local(t)
  BY LocalType
<1>3. Together(x, y)
  BY <1>1, <1>2 DEF AllTogether
<1>4. CASE Collective
  <2>1. Meet("messages") \/ Meet("inputs") \/ Meet("requests") \/ Meet("results")
    BY <1>4 DEF Collective, GatherMessages, GatherInputs, GatherRequests,
       ShareResults
  <2>2. pc[s] \in ExchangePoints /\ pc[t] \in ExchangePoints
    BY <2>1 DEF Meet
  <2>3. x \in LocalStops /\ y \in LocalStops
    BY <1>1, <1>2, <2>2 DEF LocalStops, Local
  <2>4. x = y
    BY <1>3, <2>3, BothStopped DEF Together
  <2>5. a = b
    BY <1>1, <1>2, <1>4, <2>4, MeetingStep
  <2>6. QED
    BY <2>5 DEF Together, InStep
<1>5. ASSUME NEW r \in Ranks, MainThread(r) PROVE Together(a, b)
  <2>1. CASE s = r /\ t = r
    BY <2>1 DEF Together, InStep
  <2>2. CASE s = r /\ t # r
    <3>1. y = b
      BY <1>2, <1>5, <2>2, OtherStays
    <3>2. a = LocalWalk[x] /\ x \notin LocalStops
      BY <1>1, <1>5, <2>2, RankStep DEF LocalWalk, LocalStops, Local
    <3>3. QED
      BY <1>3, <3>1, <3>2, WalkOn DEF Together
  <2>3. CASE s # r /\ t = r
    <3>1. x = a
      BY <1>1, <1>5, <2>3, OtherStays
    <3>2. b = LocalWalk[y] /\ y \notin LocalStops
      BY <1>2, <1>5, <2>3, RankStep DEF LocalWalk, LocalStops, Local
    <3>3. Together(y, x)
      BY <1>3, EitherOrder DEF Together
    <3>4. Together(b, a)
      BY <3>1, <3>2, <3>3, WalkOn DEF Together
    <3>5. QED
      BY <3>4, EitherOrder DEF Together
  <2>4. CASE s # r /\ t # r
    <3>1. x = a /\ y = b
      BY <1>1, <1>2, <1>5, <2>4, OtherStays
    <3>2. QED
      BY <1>3, <3>1
  <2>5. QED
    BY <2>1, <2>2, <2>3, <2>4
<1>6. ASSUME NEW r \in Ranks, Worker(r) PROVE Together(a, b)
  <2>1. x = a /\ y = b
    BY <1>1, <1>2, <1>6, RankStays, OtherStays
  <2>2. QED
    BY <1>3, <2>1
<1>7. CASE UNCHANGED vars
  <2>1. x = a /\ y = b
    BY <1>1, <1>2, <1>7, RankStays
  <2>2. QED
    BY <1>3, <2>1
<1>8. QED
  BY <1>4, <1>5, <1>6, <1>7 DEF Next, Finished

LEMMA TogetherAligned == ASSUME TypeOK, AllTogether PROVE Aligned
<1> SUFFICES ASSUME \A r \in Ranks : pc[r] \in ExchangePoints,
                    NEW r \in Ranks, NEW s \in Ranks
             PROVE  pc[r] = pc[s]
  BY DEF Aligned
<1>1. Local(r) \in LocalStops /\ Local(s) \in LocalStops
  BY LocalType DEF LocalStops, Local
<1>2. Together(Local(r), Local(s))
  BY LocalType DEF AllTogether
<1>3. Local(r) = Local(s)
  BY <1>1, <1>2, BothStopped DEF Together
<1>4. QED
  BY <1>3 DEF Local

\* The collectives of the ranks always fit: when every rank has come to one,
\* they exchange the same thing, and so it takes place, on condition that no
\* asynchronous run evaluates one step twice.  Which collectives a rank calls
\* is decided by tests each makes for itself (of queues its own executor
\* fills, steps it counts, hooks it runs); that they agree holds for any
\* number of ranks and for rollouts that raise.
THEOREM AlignedAlways ==
    ASSUME Async => ~EvaluatedTwice
    PROVE  Spec => []Aligned
<1> DEFINE EvalsKept == \A r \in Ranks : EvalKept(r)
           Base == TypeOK /\ BusyOK /\ IInv
<1>1. Init => Base /\ EvalsKept /\ AllTogether
  BY InitType, InitBusy, InitIInv, InitKept, InitTogether
<1>2. Base /\ [Next]_vars => Base'
  BY StepType, StepBusy, StepIInv
<1>3. Base /\ EvalsKept /\ [Next]_vars => EvalsKept'
  BY StepKept
<1>4. Base /\ Base' /\ EvalsKept /\ AllTogether /\ [Next]_vars => AllTogether'
  BY StepTogether
<1>5. Base /\ AllTogether => Aligned
  BY TogetherAligned
<1>6. QED
  BY <1>1, <1>2, <1>3, <1>4, <1>5, PTL DEF Spec

-----------------------------------------------------------------------------
(* The same rollout.  To what a rank does next belongs what it will get:    *)
(* the numbers of the rollouts a queue is owed, those waiting in it and     *)
(* behind them those of the executor, which are all for one queue.          *)

Pending(p, d) == IF p # <<>> /\ p[1].dest = d THEN Len(p) ELSE 0

Ids(q, p, d) ==
    [i \in 1..(Len(q) + Pending(p, d)) |->
        IF i <= Len(q) THEN q[i].id ELSE p[i - Len(q)].id]

AllFor(p, d) == \A i \in DOMAIN p : p[i].dest = d

\* s lists the numbers of q and of the first k of p.
Lists(s, q, p, k) ==
    /\ s \in Seq(Nat) /\ Len(s) = Len(q) + k
    /\ \A i \in 1..Len(q) : s[i] = q[i].id
    /\ \A i \in 1..k : s[Len(q) + i] = p[i].id

LEMMA ListsOnce ==
    ASSUME NEW q \in Seq(Rollout), NEW p, NEW k \in Nat, NEW s, NEW t,
           Lists(s, q, p, k), Lists(t, q, p, k)
    PROVE  s = t
<1> DEFINE n == Len(q)
<1>1. n \in Nat
  BY LenProperties
<1>2. /\ s \in Seq(Nat) /\ Len(s) = n + k /\ t \in Seq(Nat) /\ Len(t) = n + k
      /\ \A i \in 1..n : s[i] = t[i]
      /\ \A i \in 1..k : s[n + i] = t[n + i]
  BY DEF Lists
<1> HIDE DEF n
<1>3. \A i \in 1..(n + k) : s[i] = t[i]
  <2>1. SUFFICES ASSUME NEW i \in 1..(n + k), i > n PROVE s[i] = t[i]
    BY <1>1, <1>2
  <2>2. i - n \in 1..k /\ i = n + (i - n)
    BY <1>1, <2>1
  <2>3. QED
    BY <1>2, <2>2
<1>4. QED
  BY <1>2, <1>3, SeqEqual

LEMMA IdsLists ==
    ASSUME NEW q \in Seq(Rollout), NEW p \in Seq(Rollout), NEW d
    PROVE  /\ Pending(p, d) \in Nat /\ Pending(p, d) <= Len(p)
           /\ Lists(Ids(q, p, d), q, p, Pending(p, d))
<1> DEFINE n == Len(q)
           k == Pending(p, d)
           s == Ids(q, p, d)
<1>1. n \in Nat /\ k \in Nat /\ Len(p) \in Nat /\ k <= Len(p)
  BY LenProperties DEF Pending
<1>2. \A i \in 1..n : q[i].id \in Nat
  <2>1. TAKE i \in 1..n
  <2>2. q[i] \in Rollout
    BY ElementOfSeq
  <2>3. QED
    BY <2>2 DEF Rollout
<1>3. \A i \in 1..Len(p) : p[i].id \in Nat
  <2>1. TAKE i \in 1..Len(p)
  <2>2. p[i] \in Rollout
    BY ElementOfSeq
  <2>3. QED
    BY <2>2 DEF Rollout
<1>4. s = [i \in 1..(n + k) |-> IF i <= n THEN q[i].id ELSE p[i - n].id]
  BY DEF Ids
<1> HIDE DEF n, k, s
<1>5. \A i \in 1..(n + k) : (IF i <= n THEN q[i].id ELSE p[i - n].id) \in Nat
  <2>1. TAKE i \in 1..(n + k)
  <2>2. CASE i <= n
    BY <1>1, <1>2, <2>2
  <2>3. CASE ~(i <= n)
    <3>1. i - n \in 1..Len(p)
      BY <1>1, <2>3
    <3>2. QED
      BY <1>3, <2>3, <3>1
  <2>4. QED
    BY <2>2, <2>3
<1>6. n + k \in Nat
  BY <1>1
<1>7. s \in Seq(Nat) /\ Len(s) = n + k
  <2> DEFINE m == n + k
  <2>1. s \in [1..m -> Nat]
    BY <1>4, <1>5
  <2>2. m \in Nat
    BY <1>6
  <2> HIDE DEF m
  <2>3. s \in Seq(Nat)
    BY <2>1, <2>2
  <2>4. Len(s) = m
    BY <2>1, <2>2, <2>3, LenProperties
  <2>5. QED
    BY <2>3, <2>4 DEF m
<1>8. \A i \in 1..n : s[i] = q[i].id
  BY <1>1, <1>4
<1>9. \A i \in 1..k : s[n + i] = p[i].id
  <2>1. TAKE i \in 1..k
  <2>2. n + i \in 1..(n + k) /\ ~(n + i <= n) /\ (n + i) - n = i
    BY <1>1
  <2>3. QED
    BY <1>4, <2>2
<1>10. QED
  BY <1>1, <1>7, <1>8, <1>9 DEF Lists, n, k, s

LEMMA HeadPlace ==
    ASSUME NEW S, NEW p \in Seq(S), p # <<>>
    PROVE  /\ Len(p) \in Nat \ {0} /\ DOMAIN p = 1..Len(p)
           /\ Head(p) = p[1] /\ p[1] \in S
           /\ Tail(p) \in Seq(S) /\ Len(Tail(p)) = Len(p) - 1
           /\ \A i \in 1..(Len(p) - 1) : Tail(p)[i] = p[i+1]
<1>1. Len(p) \in Nat \ {0} /\ DOMAIN p = 1..Len(p)
  BY EmptySeq, LenProperties
<1>2. Head(p) = p[1] /\ p[1] \in S
  BY <1>1, ElementOfSeq
<1>3. /\ Tail(p) \in Seq(S) /\ Len(Tail(p)) = Len(p) - 1
      /\ \A i \in 1..Len(Tail(p)) : Tail(p)[i] = p[i+1]
  BY HeadTailProperties
<1>4. QED
  BY <1>1, <1>2, <1>3

LEMMA LastPlace ==
    ASSUME NEW S, NEW p \in Seq(S), NEW x \in S
    PROVE  /\ Append(p, x) \in Seq(S) /\ Append(p, x) # <<>>
           /\ Len(Append(p, x)) = Len(p) + 1 /\ Len(p) \in Nat
           /\ \A i \in 1..Len(p) : Append(p, x)[i] = p[i]
           /\ Append(p, x)[Len(p) + 1] = x
BY AppendProperties, LenProperties

\* A result goes to the queue when nothing is in flight,
LEMMA ListsPrefetch ==
    ASSUME NEW q \in Seq(Rollout), NEW x \in Rollout, NEW p, NEW s,
           Lists(s, q, p, 0)
    PROVE  Lists(Append(s, x.id), Append(q, x), p, 0)
<1> DEFINE n == Len(q)
           t == Append(s, x.id)
           a == Append(q, x)
<1>1. /\ a \in Seq(Rollout) /\ Len(a) = n + 1 /\ n \in Nat
      /\ \A i \in 1..n : a[i] = q[i]
      /\ a[n + 1] = x
  BY LastPlace
<1>2. s \in Seq(Nat) /\ Len(s) = n + 0 /\ \A i \in 1..n : s[i] = q[i].id
  BY DEF Lists
<1>3. x.id \in Nat
  BY DEF Rollout
<1>4. /\ t \in Seq(Nat) /\ Len(t) = Len(s) + 1
      /\ \A i \in 1..Len(s) : t[i] = s[i]
      /\ t[Len(s) + 1] = x.id
  <2>1. s \in Seq(Nat)
    BY <1>2
  <2>2. QED
    BY <1>3, <2>1, LastPlace
<1> HIDE DEF n, t, a
<1>5. Len(s) = n
  BY <1>1, <1>2
<1>6. \A i \in 1..(n + 1) : t[i] = a[i].id
  <2>1. TAKE i \in 1..(n + 1)
  <2>2. i = n + 1 \/ i \in 1..n
    BY <1>1
  <2>3. QED
    BY <1>1, <1>2, <1>4, <1>5, <2>2
<1>7. t \in Seq(Nat) /\ Len(t) = Len(a) + 0
  BY <1>1, <1>4, <1>5
<1>8. QED
  BY <1>1, <1>6, <1>7 DEF Lists, t, a

\* a submission adds it to the tasks of that queue,
LEMMA ListsSubmit ==
    ASSUME NEW q \in Seq(Rollout), NEW p \in Seq(Rollout), NEW x \in Rollout,
           NEW s, Lists(s, q, p, Len(p))
    PROVE  Lists(Append(s, x.id), q, Append(p, x), Len(p) + 1)
<1> DEFINE n == Len(q)
           k == Len(p)
           t == Append(s, x.id)
           a == Append(p, x)
<1>1. /\ n \in Nat /\ k \in Nat
      /\ \A i \in 1..k : a[i] = p[i]
      /\ a[k + 1] = x
  BY LastPlace, LenProperties
<1>2. /\ s \in Seq(Nat) /\ Len(s) = n + k
      /\ \A i \in 1..n : s[i] = q[i].id
      /\ \A i \in 1..k : s[n + i] = p[i].id
  BY DEF Lists
<1>3. x.id \in Nat
  BY DEF Rollout
<1>4. /\ t \in Seq(Nat) /\ Len(t) = Len(s) + 1
      /\ \A i \in 1..Len(s) : t[i] = s[i]
      /\ t[Len(s) + 1] = x.id
  <2>1. s \in Seq(Nat)
    BY <1>2
  <2>2. QED
    BY <1>3, <2>1, LastPlace
<1> HIDE DEF n, k, t, a
<1>5. \A i \in 1..n : t[i] = q[i].id
  <2>1. TAKE i \in 1..n
  <2>2. i \in 1..Len(s)
    BY <1>1, <1>2
  <2>3. QED
    BY <1>2, <1>4, <2>2
<1>6. \A i \in 1..(k + 1) : t[n + i] = a[i].id
  <2>1. TAKE i \in 1..(k + 1)
  <2>2. CASE i = k + 1
    <3>1. n + i = Len(s) + 1
      BY <1>1, <1>2, <2>2
    <3>2. QED
      BY <1>1, <1>4, <2>2, <3>1
  <2>3. CASE i # k + 1
    <3>1. i \in 1..k /\ n + i \in 1..Len(s)
      BY <1>1, <1>2, <2>3
    <3>2. QED
      BY <1>1, <1>2, <1>4, <3>1
  <2>4. QED
    BY <2>2, <2>3
<1>7. t \in Seq(Nat) /\ Len(t) = n + (k + 1)
  BY <1>1, <1>2, <1>4
<1>8. QED
  BY <1>5, <1>6, <1>7 DEF Lists, n, k, t, a

\* a get takes the first,
LEMMA ListsGet ==
    ASSUME NEW q \in Seq(Rollout), q # <<>>, NEW p, NEW k \in Nat,
           NEW s, Lists(s, q, p, k)
    PROVE  Lists(Tail(s), Tail(q), p, k) /\ Head(s) = Head(q).id
<1> DEFINE n == Len(q)
           t == Tail(s)
           a == Tail(q)
<1>1. /\ n \in Nat \ {0} /\ Head(q) = q[1] /\ Len(a) = n - 1
      /\ \A i \in 1..(n - 1) : a[i] = q[i + 1]
  BY HeadPlace
<1>2. /\ s \in Seq(Nat) /\ Len(s) = n + k
      /\ \A i \in 1..n : s[i] = q[i].id
      /\ \A i \in 1..k : s[n + i] = p[i].id
  BY DEF Lists
<1>3. s # <<>>
  <2> HIDE DEF n
  <2>1. Len(s) # 0
    BY <1>1, <1>2
  <2>2. QED
    BY <1>2, <2>1, EmptySeq
<1>4. /\ t \in Seq(Nat) /\ Len(t) = Len(s) - 1 /\ Head(s) = s[1]
      /\ \A i \in 1..(Len(s) - 1) : t[i] = s[i + 1]
  BY <1>2, <1>3, HeadPlace
<1> HIDE DEF n, t, a
<1>5. \A i \in 1..(n - 1) : t[i] = a[i].id
  <2>1. TAKE i \in 1..(n - 1)
  <2>2. i \in 1..(Len(s) - 1) /\ i + 1 \in 1..n
    BY <1>1, <1>2
  <2>3. QED
    BY <1>1, <1>2, <1>4, <2>2
<1>6. \A i \in 1..k : t[(n - 1) + i] = p[i].id
  <2>1. TAKE i \in 1..k
  <2>2. (n - 1) + i \in 1..(Len(s) - 1) /\ ((n - 1) + i) + 1 = n + i
    BY <1>1, <1>2
  <2>3. t[(n - 1) + i] = s[n + i]
    BY <1>4, <2>2
  <2>4. QED
    BY <1>2, <2>3
<1>7. t \in Seq(Nat) /\ Len(t) = (n - 1) + k
  BY <1>1, <1>2, <1>4
<1>8. Lists(t, a, p, k)
  BY <1>1, <1>5, <1>6, <1>7 DEF Lists
<1>9. Head(s) = Head(q).id
  <2>1. 1 \in 1..n
    BY <1>1
  <2>2. QED
    BY <1>1, <1>2, <1>4, <2>1
<1>10. QED
  BY <1>8, <1>9 DEF t, a

\* and a task that is finished moves to the end of the queue.
LEMMA ListsFinish ==
    ASSUME NEW q \in Seq(Rollout), NEW p \in Seq(Rollout), p # <<>>,
           NEW s, Lists(s, q, p, Len(p))
    PROVE  Lists(s, Append(q, Head(p)), Tail(p), Len(p) - 1)
<1> DEFINE n == Len(q)
           k == Len(p)
           a == Append(q, Head(p))
           b == Tail(p)
<1>1. /\ k \in Nat \ {0} /\ Head(p) = p[1] /\ p[1] \in Rollout
      /\ \A i \in 1..(k - 1) : b[i] = p[i + 1]
  BY HeadPlace
<1>2. /\ Len(a) = n + 1 /\ n \in Nat
      /\ \A i \in 1..n : a[i] = q[i]
      /\ a[n + 1] = Head(p)
  BY <1>1, LastPlace
<1>3. /\ s \in Seq(Nat) /\ Len(s) = n + k
      /\ \A i \in 1..n : s[i] = q[i].id
      /\ \A i \in 1..k : s[n + i] = p[i].id
  BY DEF Lists
<1> HIDE DEF n, k, a, b
<1>4. \A i \in 1..(n + 1) : s[i] = a[i].id
  <2>1. TAKE i \in 1..(n + 1)
  <2>2. CASE i \in 1..n
    BY <1>2, <1>3, <2>2
  <2>3. CASE i = n + 1
    <3>1. 1 \in 1..k
      BY <1>1
    <3>2. s[n + 1] = p[1].id
      BY <1>3, <3>1
    <3>3. a[n + 1] = p[1]
      BY <1>1, <1>2
    <3>4. QED
      BY <2>3, <3>2, <3>3
  <2>4. QED
    BY <1>2, <2>2, <2>3
<1>5. \A i \in 1..(k - 1) : s[(n + 1) + i] = b[i].id
  <2>1. TAKE i \in 1..(k - 1)
  <2>2. i + 1 \in 1..k /\ (n + 1) + i = n + (i + 1)
    BY <1>1, <1>2
  <2>3. s[n + (i + 1)] = p[i + 1].id
    BY <1>3, <2>2
  <2>4. QED
    BY <1>1, <2>2, <2>3
<1>6. Len(s) = (n + 1) + (k - 1)
  BY <1>1, <1>2, <1>3
<1>7. QED
  BY <1>2, <1>3, <1>4, <1>5, <1>6 DEF Lists, k, a, b

LEMMA ListsNothing ==
    ASSUME NEW s, NEW q, NEW p, NEW o, Lists(s, q, p, 0)
    PROVE  Lists(s, q, o, 0)
BY DEF Lists

LEMMA PendingFor ==
    ASSUME NEW p \in Seq(Rollout), NEW e, NEW d, AllFor(p, e)
    PROVE  Pending(p, d) = IF d = e THEN Len(p) ELSE 0
<1>1. CASE p = <<>>
  BY <1>1, EmptySeq DEF Pending
<1>2. CASE p # <<>>
  BY <1>2, HeadPlace DEF Pending, AllFor
<1>3. QED
  BY <1>1, <1>2

LEMMA IdsSubmit ==
    ASSUME NEW q \in Seq(Rollout), NEW p \in Seq(Rollout), NEW x \in Rollout,
           AllFor(p, x.dest), NEW d
    PROVE  Ids(q, Append(p, x), d) =
               IF d = x.dest THEN Append(Ids(q, p, d), x.id) ELSE Ids(q, p, d)
<1> DEFINE a == Append(p, x)
           s == Ids(q, p, d)
           t == Ids(q, a, d)
           k == Len(p)
<1>1. /\ a \in Seq(Rollout) /\ Len(a) = k + 1 /\ k \in Nat
      /\ \A i \in 1..k : a[i] = p[i]
      /\ a[k + 1] = x
  BY LastPlace
<1>2. AllFor(a, x.dest)
  <2>1. DOMAIN a = 1..(k + 1) /\ DOMAIN p = 1..k
    <3> HIDE DEF a, k
    <3>1. DOMAIN a = 1..Len(a)
      BY <1>1, LenProperties
    <3>2. QED
      BY <1>1, <3>1, LenProperties DEF k
  <2> HIDE DEF a, k
  <2>2. \A i \in 1..(k + 1) : i = k + 1 \/ i \in 1..k
    BY <1>1
  <2>3. QED
    BY <1>1, <2>1, <2>2 DEF AllFor
<1>3. Lists(s, q, p, IF d = x.dest THEN k ELSE 0)
  BY IdsLists, PendingFor
<1>4. Lists(t, q, a, IF d = x.dest THEN k + 1 ELSE 0)
  <2> HIDE DEF a, k
  <2>1. Lists(t, q, a, Pending(a, d))
    BY <1>1, IdsLists
  <2>2. Pending(a, d) = IF d = x.dest THEN k + 1 ELSE 0
    BY <1>1, <1>2, PendingFor
  <2>3. QED
    BY <2>1, <2>2
<1>5. CASE d = x.dest
  <2>1. Lists(Append(s, x.id), q, a, k + 1)
    BY <1>3, <1>5, ListsSubmit
  <2>2. k + 1 \in Nat /\ Lists(t, q, a, k + 1)
    BY <1>1, <1>4, <1>5
  <2> HIDE DEF a, k, s, t
  <2>3. t = Append(s, x.id)
    BY <2>1, <2>2, ListsOnce
  <2>4. QED
    BY <1>5, <2>3 DEF t, s, a
<1>6. CASE d # x.dest
  <2>1. Lists(t, q, a, 0) /\ Lists(s, q, p, 0)
    BY <1>3, <1>4, <1>6
  <2> HIDE DEF a, k, s, t
  <2>2. t = s
    BY <2>1, ListsNothing, ListsOnce
  <2>3. QED
    BY <1>6, <2>2 DEF t, s, a
<1>7. QED
  BY <1>5, <1>6

LEMMA IdsPrefetch ==
    ASSUME NEW q \in Seq(Rollout), NEW x \in Rollout, NEW d
    PROVE  Ids(Append(q, x), <<>>, d) = Append(Ids(q, <<>>, d), x.id)
<1> DEFINE a == Append(q, x)
           s == Ids(q, <<>>, d)
           t == Ids(a, <<>>, d)
<1>1. a \in Seq(Rollout) /\ <<>> \in Seq(Rollout) /\ Pending(<<>>, d) = 0
  <2>1. a \in Seq(Rollout)
    BY LastPlace
  <2>2. <<>> \in Seq(Rollout)
    BY EmptySeq
  <2>3. QED
    BY <2>1, <2>2 DEF Pending
<1>2. Lists(s, q, <<>>, 0)
  BY <1>1, IdsLists
<1>3. Lists(t, a, <<>>, 0)
  <2> HIDE DEF a
  <2>1. QED
    BY <1>1, IdsLists
<1>4. Lists(Append(s, x.id), a, <<>>, 0)
  <2> HIDE DEF s
  <2>1. QED
    BY <1>2, ListsPrefetch
<1> HIDE DEF a, s, t
<1> DEFINE u == Append(s, x.id)
<1>5. t = u
  <2> HIDE DEF u
  <2>1. 0 \in Nat /\ Lists(u, a, <<>>, 0)
    BY <1>4 DEF u
  <2>2. QED
    BY <1>1, <1>3, <2>1, ListsOnce
<1>6. QED
  BY <1>5 DEF a, s, t

LEMMA IdsGet ==
    ASSUME NEW q \in Seq(Rollout), q # <<>>, NEW p \in Seq(Rollout), NEW d
    PROVE  /\ Ids(Tail(q), p, d) = Tail(Ids(q, p, d))
           /\ Head(Ids(q, p, d)) = Head(q).id
<1> DEFINE a == Tail(q)
           s == Ids(q, p, d)
           t == Ids(a, p, d)
           k == Pending(p, d)
<1>1. a \in Seq(Rollout)
  BY HeadPlace
<1>2. k \in Nat /\ Lists(s, q, p, k)
  BY IdsLists
<1>3. Lists(t, a, p, k)
  <2> HIDE DEF a
  <2>1. QED
    BY <1>1, IdsLists
<1> HIDE DEF k
<1>4. Lists(Tail(s), a, p, k) /\ Head(s) = Head(q).id
  BY <1>2, ListsGet
<1> HIDE DEF a, s, t
<1>5. t = Tail(s)
  BY <1>1, <1>2, <1>3, <1>4, ListsOnce
<1>6. QED
  BY <1>4, <1>5 DEF a, s, t

LEMMA IdsFinish ==
    ASSUME NEW q \in Seq(Rollout), NEW p \in Seq(Rollout), p # <<>>, NEW e,
           AllFor(p, e), NEW d
    PROVE  Ids(IF d = e THEN Append(q, Head(p)) ELSE q, Tail(p), d) = Ids(q, p, d)
<1> DEFINE a == Append(q, Head(p))
           b == Tail(p)
           k == Len(p)
           s == Ids(q, p, d)
<1>1. /\ k \in Nat \ {0} /\ Head(p) \in Rollout /\ b \in Seq(Rollout)
      /\ Len(b) = k - 1 /\ DOMAIN p = 1..k
      /\ \A i \in 1..(k - 1) : b[i] = p[i + 1]
  BY HeadPlace
<1>2. a \in Seq(Rollout)
  BY <1>1, LastPlace
<1>3. AllFor(b, e)
  <2>1. DOMAIN b = 1..(k - 1)
    <3> HIDE DEF b, k
    <3>1. DOMAIN b = 1..Len(b)
      BY <1>1, LenProperties
    <3>2. QED
      BY <1>1, <3>1
  <2> HIDE DEF b, k
  <2>2. \A i \in 1..(k - 1) : i + 1 \in 1..k
    BY <1>1
  <2>3. QED
    BY <1>1, <2>1, <2>2 DEF AllFor
<1>4. Lists(s, q, p, IF d = e THEN k ELSE 0)
  BY IdsLists, PendingFor
<1>5. Pending(b, d) = IF d = e THEN k - 1 ELSE 0
  <2> HIDE DEF b, k
  <2>1. QED
    BY <1>1, <1>3, PendingFor
<1>6. CASE d = e
  <2>1. Lists(s, a, b, k - 1) /\ k - 1 \in Nat
    BY <1>1, <1>4, <1>6, ListsFinish
  <2>2. Lists(Ids(a, b, d), a, b, k - 1)
    <3> HIDE DEF a, b, k
    <3>1. QED
      BY <1>1, <1>2, <1>5, <1>6, IdsLists
  <2> HIDE DEF a, b, k, s
  <2>3. Ids(a, b, d) = s
    BY <1>2, <2>1, <2>2, ListsOnce
  <2>4. QED
    BY <1>6, <2>3 DEF a, b, s
<1>7. CASE d # e
  <2>1. Lists(s, q, p, 0)
    BY <1>4, <1>7
  <2>2. Lists(Ids(q, b, d), q, b, 0)
    <3> HIDE DEF b
    <3>1. QED
      BY <1>1, <1>5, <1>7, IdsLists
  <2> HIDE DEF b, k, s
  <2>3. Ids(q, b, d) = s
    BY <2>1, <2>2, ListsNothing, ListsOnce
  <2>4. QED
    BY <1>7, <2>3 DEF b, s
<1>8. QED
  BY <1>6, <1>7

LEMMA IdsStart ==
    ASSUME NEW q \in Seq(Rollout), NEW p \in Seq(Rollout), p # <<>>,
           NEW w \in Int, NEW d
    PROVE  Ids(q, [p EXCEPT ![1].weights = w], d) = Ids(q, p, d)
<1> DEFINE a == [p EXCEPT ![1].weights = w]
           s == Ids(q, p, d)
           t == Ids(q, a, d)
           k == Pending(p, d)
<1>1. /\ a \in Seq(Rollout) /\ Len(a) = Len(p)
      /\ \A i \in 1..Len(p) : a[i].dest = p[i].dest /\ a[i].id = p[i].id
  BY HeadReplaced
<1>2. Len(p) \in Nat \ {0} /\ k \in Nat /\ k <= Len(p) /\ Lists(s, q, p, k)
  BY HeadPlace, IdsLists
<1>3. Pending(a, d) = k
  <2> HIDE DEF a
  <2>1. a # <<>> /\ 1 \in 1..Len(p)
    BY <1>1, <1>2, EmptySeq
  <2>2. QED
    BY <1>1, <2>1 DEF Pending
<1>4. Lists(t, q, a, k)
  <2> HIDE DEF a, k
  <2>1. QED
    BY <1>1, <1>3, IdsLists
<1> HIDE DEF a, s, t, k
<1>5. Lists(t, q, p, k)
  <2>1. \A i \in 1..k : i \in 1..Len(p)
    BY <1>2
  <2>2. QED
    BY <1>1, <1>4, <2>1 DEF Lists
<1>6. QED
  BY <1>2, <1>5, ListsOnce DEF a, s, t

-----------------------------------------------------------------------------
Owing(r) == [d \in Datasets |-> Ids(queue[r][d], pool[r], d)]

Full(r) == [local |-> Local(r), owed |-> Owing(r), taken |-> got[r].id]

FullStates == [local : LocalStates, owed : [Datasets -> Seq(Nat)], taken : Nat]

QueueOf(x) == IF x.shouldEvaluate THEN "eval" ELSE "train"

\* A request adds the next number to what the queue is owed, a get takes the
\* first.
FullNext(y) ==
    [local |-> LocalNext(y.local),
     owed  |-> CASE y.local.pc \in {"submit", "pf_infer"} ->
                      [y.owed EXCEPT ![QueueOf(y.local)] =
                                        Append(@, y.local.issued + 1)]
                 [] y.local.pc = "get" ->
                      [y.owed EXCEPT ![QueueOf(y.local)] = Tail(@)]
                 [] OTHER -> y.owed,
     taken |-> IF y.local.pc = "get" THEN Head(y.owed[QueueOf(y.local)])
               ELSE y.taken]

LEMMA FullType == TypeOK => \A r \in Ranks : Full(r) \in FullStates
<1> SUFFICES ASSUME TypeOK, NEW r \in Ranks PROVE Full(r) \in FullStates
  OBVIOUS
<1>1. \A d \in Datasets : Ids(queue[r][d], pool[r], d) \in Seq(Nat)
  <2>1. TAKE d \in Datasets
  <2>2. queue[r][d] \in Seq(Rollout) /\ pool[r] \in Seq(Rollout)
    BY RankTypes
  <2>3. QED
    BY <2>2, IdsLists DEF Lists
<1>2. Owing(r) \in [Datasets -> Seq(Nat)]
  BY <1>1 DEF Owing
<1>3. got[r].id \in Nat
  BY DEF TypeOK, Rollout
<1>4. QED
  BY <1>2, <1>3, LocalType DEF Full, FullStates

\* All tasks of the executor are for one queue.
LEMMA OneQueue ==
    ASSUME TypeOK, NEW r \in Ranks, RankInv(r), Async => ~EvaluatedTwice
    PROVE  \E e \in Datasets : AllFor(pool[r], e)
<1> USE DEF At
<1>1. ASSUME pool[r] = <<>> PROVE \E e \in Datasets : AllFor(pool[r], e)
  BY <1>1, RankTypes, EmptySeq DEF AllFor
<1>2. CASE ~Async
  BY <1>1, <1>2 DEF RankInv, Inline
<1>3. CASE Async
  <2>1. Flow(r) /\ ~Second(r) /\ ~EvaluatedTwice
    BY <1>3 DEF RankInv, Second
  <2>2. CASE pc[r] \in Prefetching \cup {"train_begin"}
    BY <1>1, <2>1, <2>2 DEF Flow
  <2>3. CASE pc[r] \notin Prefetching \cup {"train_begin"}
    <3>1. pc[r] \in Generating \cup {"get", "backward", "step_end",
                                     "train_step", "epoch_end", "eval_wait", "done"}
      BY <2>3 DEF TypeOK, Locations, ExchangePoints, Prefetching, Generating
    <3>2. \E e \in Datasets : Owes(r, e, 1) \/ Owes(r, e, 2)
      BY <2>1, <3>1, RankTypes DEF Flow
    <3>3. QED
      BY <3>2 DEF Owes, Owed, AllFor
  <2>4. QED
    BY <2>2, <2>3
<1>4. QED
  BY <1>2, <1>3

LEMMA SubmitOwing ==
    ASSUME TypeOK, NEW r \in Ranks, RankInv(r), Async => ~EvaluatedTwice,
           Submit(r)
    PROVE  /\ Owing(r)' = [Owing(r) EXCEPT ![CurrentQueue(r)] =
                                              Append(@, issued[r] + 1)]
           /\ got'[r] = got[r]
<1> USE DEF At, Goto, rankVars, syncVars
<1> DEFINE x == NewRollout(r, Dummy)
           c == CurrentQueue(r)
           p == pool[r]
           q == queue[r]
<1>1. /\ pc[r] = "submit" /\ queue'[r] = q /\ pool'[r] = Append(p, x)
      /\ got'[r] = got[r]
  BY DEF Submit, TypeOK
<1>2. x \in Rollout /\ x.dest = c /\ x.id = issued[r] + 1 /\ c \in Datasets
  BY NewRolloutType DEF Dummy, NewRollout
<1>3. p \in Seq(Rollout) /\ q \in [Datasets -> Seq(Rollout)]
  BY RankTypes
<1>4. AllFor(p, c)
  <2>1. Async
    BY <1>1 DEF RankInv, Inline
  <2>2. Owes(r, c, 1)
    BY <1>1, <2>1 DEF RankInv, Flow, Second, Generating
  <2>3. QED
    BY <2>2 DEF Owes, Owed, AllFor
<1>5. Owing(r)' = [d \in Datasets |-> Ids(queue'[r][d], pool'[r], d)]
  BY DEF Owing
<1>6. Owing(r) = [d \in Datasets |-> Ids(q[d], p, d)]
  BY DEF Owing
<1>7. \A d \in Datasets : Ids(q[d], Append(p, x), d) =
          IF d = c THEN Append(Ids(q[d], p, d), issued[r] + 1) ELSE Ids(q[d], p, d)
  <2> HIDE DEF x, c, p, q
  <2>1. TAKE d \in Datasets
  <2>2. q[d] \in Seq(Rollout)
    BY <1>3
  <2>3. QED
    BY <1>2, <1>3, <1>4, <2>2, IdsSubmit
<1> HIDE DEF x, c, p, q
<1>8. Owing(r)' = [d \in Datasets |-> Ids(q[d], Append(p, x), d)]
  BY <1>1, <1>5
<1>9. Owing(r)' = [Owing(r) EXCEPT ![c] = Append(@, issued[r] + 1)]
  BY <1>2, <1>6, <1>7, <1>8, ZenonT(60)
<1>10. QED
  BY <1>1, <1>9 DEF c

LEMMA PrefetchOwing ==
    ASSUME TypeOK, NEW r \in Ranks, RankInv(r), Async => ~EvaluatedTwice,
           PrefetchInfer(r)
    PROVE  /\ Owing(r)' = [Owing(r) EXCEPT ![CurrentQueue(r)] =
                                              Append(@, issued[r] + 1)]
           /\ got'[r] = got[r]
<1> USE DEF At, Goto, rankVars, syncVars
<1> DEFINE x == NewRollout(r, engine)
           c == CurrentQueue(r)
           q == queue[r]
<1>1. /\ pc[r] = "pf_infer" /\ pool'[r] = pool[r] /\ got'[r] = got[r]
      /\ queue'[r] = [q EXCEPT ![c] = Append(@, x)]
  BY DEF PrefetchInfer, TypeOK
<1>2. x \in Rollout /\ x.id = issued[r] + 1 /\ c \in Datasets
  BY NewRolloutType DEF TypeOK, NewRollout
<1>3. q \in [Datasets -> Seq(Rollout)]
  BY RankTypes
<1>4. pool[r] = <<>>
  <2>1. Async
    BY <1>1 DEF RankInv, Inline, Prefetching
  <2>2. QED
    BY <1>1, <2>1 DEF RankInv, Flow, Second, Prefetching
<1>5. Owing(r)' = [d \in Datasets |-> Ids(queue'[r][d], <<>>, d)]
  BY <1>1, <1>4 DEF Owing
<1>6. Owing(r) = [d \in Datasets |-> Ids(q[d], <<>>, d)]
  BY <1>4 DEF Owing
<1> HIDE DEF x, c, q
<1>7. \A d \in Datasets : queue'[r][d] = IF d = c THEN Append(q[d], x) ELSE q[d]
  BY <1>1, <1>2, <1>3
<1>8. \A d \in Datasets :
          Ids(Append(q[d], x), <<>>, d) = Append(Ids(q[d], <<>>, d), issued[r] + 1)
  <2>1. TAKE d \in Datasets
  <2>2. q[d] \in Seq(Rollout)
    BY <1>3
  <2>3. QED
    BY <1>2, <2>2, IdsPrefetch
<1>9. Owing(r)' = [Owing(r) EXCEPT ![c] = Append(@, issued[r] + 1)]
  BY <1>2, <1>5, <1>6, <1>7, <1>8, ZenonT(60)
<1>10. QED
  BY <1>1, <1>9 DEF c

LEMMA GetOwing ==
    ASSUME TypeOK, NEW r \in Ranks, Get(r)
    PROVE  /\ Owing(r)' = [Owing(r) EXCEPT ![CurrentQueue(r)] = Tail(@)]
           /\ got'[r].id = Head(Owing(r)[CurrentQueue(r)])
<1> USE DEF At, Goto, rankVars, syncVars
<1> DEFINE c == CurrentQueue(r)
           q == queue[r]
           p == pool[r]
<1>1. /\ pool'[r] = p /\ q[c] # <<>> /\ got'[r] = Head(q[c])
      /\ queue'[r] = [q EXCEPT ![c] = Tail(@)]
  BY DEF Get, Waiting, TypeOK
<1>2. /\ c \in Datasets /\ p \in Seq(Rollout)
      /\ q \in [Datasets -> Seq(Rollout)]
  BY RankTypes
<1>3. Owing(r)' = [d \in Datasets |-> Ids(queue'[r][d], pool'[r], d)]
  BY DEF Owing
<1>4. Owing(r) = [d \in Datasets |-> Ids(q[d], p, d)]
  BY DEF Owing
<1> HIDE DEF c, p, q
<1>5. \A d \in Datasets : queue'[r][d] = IF d = c THEN Tail(q[d]) ELSE q[d]
  BY <1>1, <1>2
<1>6. /\ Ids(Tail(q[c]), p, c) = Tail(Ids(q[c], p, c))
      /\ Head(Ids(q[c], p, c)) = Head(q[c]).id
  <2>1. q[c] \in Seq(Rollout)
    BY <1>2
  <2>2. QED
    BY <1>1, <1>2, <2>1, IdsGet
<1>7. \A d \in Datasets : Ids(queue'[r][d], pool'[r], d) =
          IF d = c THEN Tail(Ids(q[d], p, d)) ELSE Ids(q[d], p, d)
  <2>1. TAKE d \in Datasets
  <2>2. CASE d = c
    BY <1>1, <1>5, <1>6, <2>2
  <2>3. CASE d # c
    BY <1>1, <1>5, <2>3
  <2>4. QED
    BY <2>2, <2>3
<1>8. Owing(r)' = [Owing(r) EXCEPT ![c] = Tail(@)]
  BY <1>2, <1>3, <1>4, <1>7
<1>9. got'[r].id = Head(Owing(r)[c])
  BY <1>1, <1>2, <1>4, <1>6
<1>10. QED
  BY <1>8, <1>9 DEF c

LEMMA FullStep ==
    ASSUME TypeOK, NEW r \in Ranks, RankInv(r), EvalKept(r),
           Async => ~EvaluatedTwice, MainThread(r)
    PROVE  Full(r)' = FullNext(Full(r)) /\ pc[r] \notin ExchangePoints
<1> USE DEF At
<1>1. Local(r)' = LocalNext(Local(r)) /\ pc[r] \notin ExchangePoints
  BY RankStep
<1>2. /\ Full(r)' = [local |-> Local(r)', owed |-> Owing(r)', taken |-> got'[r].id]
      /\ Full(r).local = Local(r) /\ Full(r).owed = Owing(r)
      /\ Full(r).taken = got[r].id
      /\ Local(r).pc = pc[r] /\ Local(r).issued = issued[r]
      /\ QueueOf(Local(r)) = CurrentQueue(r)
  BY DEF Full, Local, QueueOf, CurrentQueue
<1>3. CASE Submit(r) \/ PrefetchInfer(r)
  <2>1. /\ Owing(r)' = [Owing(r) EXCEPT ![CurrentQueue(r)] =
                                           Append(@, issued[r] + 1)]
        /\ got'[r] = got[r]
    BY <1>3, SubmitOwing, PrefetchOwing
  <2>2. pc[r] \in {"submit", "pf_infer"}
    BY <1>3 DEF Submit, PrefetchInfer
  <2>3. QED
    BY <1>1, <1>2, <2>1, <2>2 DEF FullNext
<1>4. CASE Get(r)
  <2>1. /\ Owing(r)' = [Owing(r) EXCEPT ![CurrentQueue(r)] = Tail(@)]
        /\ got'[r].id = Head(Owing(r)[CurrentQueue(r)])
    BY <1>4, GetOwing
  <2>2. pc[r] = "get"
    BY <1>4 DEF Get
  <2>3. QED
    BY <1>1, <1>2, <2>1, <2>2 DEF FullNext
<1>5. CASE ~Submit(r) /\ ~PrefetchInfer(r) /\ ~Get(r)
  <2>1. UNCHANGED <<queue, pool, got>> /\ pc[r] \notin {"submit", "pf_infer", "get"}
    BY <1>5 DEF MainThread, TrainBegin, PrefetchSync, Sync, TrainStep, Backward,
       StepEnd, EpochEnd, EvalWait, EvalBatch, EvalEnd, flowVars
  <2>2. Owing(r)' = Owing(r) /\ got'[r] = got[r]
    BY <2>1 DEF Owing
  <2>3. QED
    BY <1>1, <1>2, <2>1, <2>2 DEF FullNext
<1>6. QED
  BY <1>3, <1>4, <1>5

\* The worker changes nothing of it, unless it loses a rollout.
LEMMA FullWorker ==
    ASSUME TypeOK, BusyOK, NEW r \in Ranks, RankInv(r),
           Async => ~EvaluatedTwice, Worker(r), ~lost'
    PROVE  Full(r)' = Full(r)
<1> DEFINE p == pool[r]
           q == queue[r]
<1>1. Local(r)' = Local(r)
  BY RankStays
<1>2. got' = got /\ ~FailTask(r)
  BY DEF Worker, StartTask, FinishTask, FailTask
<1>3. p # <<>> /\ p \in Seq(Rollout) /\ q \in [Datasets -> Seq(Rollout)]
  BY <1>2, RankTypes DEF Worker, StartTask, FinishTask, BusyOK
<1>4. Owing(r)' = [d \in Datasets |-> Ids(queue'[r][d], pool'[r], d)]
  BY DEF Owing
<1>5. Owing(r) = [d \in Datasets |-> Ids(q[d], p, d)]
  BY DEF Owing
<1>6. CASE StartTask(r)
  <2>1. PICK w \in Int :
            pool' = [pool EXCEPT ![r] = [pool[r] EXCEPT ![1].weights = w]]
    BY <1>6, StartedTask
  <2>2. pool'[r] = [p EXCEPT ![1].weights = w] /\ queue'[r] = q
    BY <1>6, <2>1 DEF StartTask, TypeOK
  <2> HIDE DEF p, q
  <2>3. \A d \in Datasets : Ids(q[d], [p EXCEPT ![1].weights = w], d) = Ids(q[d], p, d)
    <3>1. TAKE d \in Datasets
    <3>2. q[d] \in Seq(Rollout)
      BY <1>3
    <3>3. QED
      BY <1>3, <3>2, IdsStart
  <2>4. Owing(r)' = Owing(r)
    BY <1>4, <1>5, <2>2, <2>3, ZenonT(60)
  <2>5. QED
    BY <1>1, <1>2, <2>4 DEF Full
<1>7. CASE FinishTask(r)
  <2> DEFINE x == Head(p)
             e == Head(p).dest
             o == Tail(p)
  <2>1. pool'[r] = o /\ queue'[r] = [q EXCEPT ![e] = Append(@, x)]
    BY <1>7 DEF FinishTask, TypeOK
  <2>2. AllFor(p, e)
    <3>1. PICK c \in Datasets : AllFor(p, c)
      BY OneQueue
    <3> HIDE DEF p
    <3>2. Head(p) = p[1] /\ 1 \in DOMAIN p
      BY <1>3, HeadPlace
    <3>3. e = c
      BY <3>1, <3>2 DEF AllFor
    <3>4. QED
      BY <3>1, <3>3
  <2>3. \A d \in Datasets :
            Ids(IF d = e THEN Append(q[d], x) ELSE q[d], o, d) = Ids(q[d], p, d)
    <3> HIDE DEF p, q
    <3>1. TAKE d \in Datasets
    <3>2. q[d] \in Seq(Rollout)
      BY <1>3
    <3>3. QED
      BY <1>3, <2>2, <3>2, IdsFinish
  <2> HIDE DEF x, e, p, q, o
  <2>4. \A d \in Datasets : queue'[r][d] = IF d = e THEN Append(q[d], x) ELSE q[d]
    BY <1>3, <2>1
  <2>5. Owing(r)' = Owing(r)
    BY <1>4, <1>5, <2>1, <2>3, <2>4
  <2>6. QED
    BY <1>1, <1>2, <2>5 DEF Full
<1>8. QED
  BY <1>2, <1>6, <1>7 DEF Worker

-----------------------------------------------------------------------------
LEMMA FullOther ==
    ASSUME TypeOK, NEW r \in Ranks, NEW s \in Ranks, r # s,
           MainThread(r) \/ Worker(r)
    PROVE  Full(s)' = Full(s)
<1>1. queue'[s] = queue[s] /\ pool'[s] = pool[s] /\ got'[s] = got[s]
  BY OthersKept
<1>2. Owing(s)' = Owing(s)
  BY <1>1 DEF Owing
<1>3. Local(s)' = Local(s)
  BY OtherStays
<1>4. QED
  BY <1>1, <1>2, <1>3 DEF Full

LEMMA FullMeeting ==
    ASSUME TypeOK, Collective, NEW r \in Ranks, NEW s \in Ranks,
           Full(r) = Full(s)
    PROVE  Full(r)' = Full(s)'
<1>1. Local(r) = Local(s) /\ Owing(r) = Owing(s) /\ got[r].id = got[s].id
  BY DEF Full
<1>2. Local(r)' = Local(s)'
  BY <1>1, MeetingStep
<1>3. queue' = queue /\ pool' = pool
  BY DEF Collective, GatherMessages, GatherInputs, GatherRequests,
     ShareResults, rankVars, flowVars
<1>4. Owing(r)' = Owing(r) /\ Owing(s)' = Owing(s)
  BY <1>3 DEF Owing
<1>5. got'[r].id = got'[s].id
  <2>1. CASE GatherRequests
    <3>1. issued[r] = issued[s]
      BY <1>1 DEF Local
    <3>2. got'[r].id = issued[r] + 1 /\ got'[s].id = issued[s] + 1
      BY <2>1 DEF GatherRequests, NewRollout
    <3>3. QED
      BY <3>1, <3>2
  <2>2. CASE ~GatherRequests
    <3>1. got' = got
      BY <2>2 DEF Collective, GatherMessages, GatherInputs, ShareResults, flowVars
    <3>2. QED
      BY <1>1, <3>1
  <2>3. QED
    BY <2>1, <2>2
<1>6. QED
  BY <1>1, <1>2, <1>4, <1>5 DEF Full

FullStops == {x \in FullStates : x.local.pc \in ExchangePoints}
FullWalk == [x \in FullStates |-> FullNext(x)]
Abreast(x, y) == InStep(FullStates, FullStops, FullWalk, x, y)

AllAbreast ==
    ~lost => \A r, s \in Ranks : \A x, y \in FullStates :
                 x = Full(r) /\ y = Full(s) => Abreast(x, y)

LEMMA InitAbreast == Init => AllAbreast
<1> SUFFICES ASSUME Init, NEW r \in Ranks, NEW s \in Ranks
             PROVE  Full(r) = Full(s)
  BY DEF AllAbreast, Abreast, InStep
<1>1. /\ Local(r) = Local(s) /\ got[r].id = got[s].id
      /\ \A d \in Datasets : queue[r][d] = queue[s][d]
      /\ pool[r] = pool[s]
  BY DEF Init, Local
<1>2. Owing(r) = Owing(s)
  BY <1>1 DEF Owing
<1>3. QED
  BY <1>1, <1>2 DEF Full

LEMMA LostStays == ASSUME TypeOK, [Next]_vars, lost PROVE lost'
BY DEF Next, Collective, GatherMessages, GatherInputs, GatherRequests, ShareResults,
   MainThread, TrainBegin, PrefetchSync, PrefetchInfer, Sync, Submit, Get,
   TrainStep, Backward, StepEnd, EpochEnd, EvalWait, EvalBatch, EvalEnd,
   Worker, StartTask, FinishTask, FailTask, Finished, flowVars, vars

LEMMA StepAbreast ==
    ASSUME TypeOK, TypeOK', BusyOK, \A r \in Ranks : RankInv(r) /\ EvalKept(r),
           Async => ~EvaluatedTwice, [Next]_vars, AllAbreast
    PROVE  AllAbreast'
<1> SUFFICES ASSUME ~lost', NEW s \in Ranks, NEW t \in Ranks,
                    NEW a \in FullStates, NEW b \in FullStates,
                    a = Full(s)', b = Full(t)'
             PROVE  Abreast(a, b)
  BY DEF AllAbreast
<1>0. ~lost
  BY LostStays
<1>1. PICK x \in FullStates : x = Full(s)
  BY FullType
<1>2. PICK y \in FullStates : y = Full(t)
  BY FullType
<1>3. Abreast(x, y)
  BY <1>0, <1>1, <1>2 DEF AllAbreast
<1>4. CASE Collective
  <2>1. Meet("messages") \/ Meet("inputs") \/ Meet("requests") \/ Meet("results")
    BY <1>4 DEF Collective, GatherMessages, GatherInputs, GatherRequests,
       ShareResults
  <2>2. pc[s] \in ExchangePoints /\ pc[t] \in ExchangePoints
    BY <2>1 DEF Meet
  <2>3. x \in FullStops /\ y \in FullStops
    BY <1>1, <1>2, <2>2 DEF FullStops, Full, Local
  <2>4. x = y
    BY <1>3, <2>3, BothStopped DEF Abreast
  <2>5. a = b
    BY <1>1, <1>2, <1>4, <2>4, FullMeeting
  <2>6. QED
    BY <2>5 DEF Abreast, InStep
<1>5. ASSUME NEW r \in Ranks, MainThread(r) PROVE Abreast(a, b)
  <2>1. CASE s = r /\ t = r
    BY <2>1 DEF Abreast, InStep
  <2>2. CASE s = r /\ t # r
    <3>1. y = b
      BY <1>2, <1>5, <2>2, FullOther
    <3>2. a = FullWalk[x] /\ x \notin FullStops
      BY <1>1, <1>5, <2>2, FullStep DEF FullWalk, FullStops, Full, Local
    <3>3. QED
      BY <1>3, <3>1, <3>2, WalkOn DEF Abreast
  <2>3. CASE s # r /\ t = r
    <3>1. x = a
      BY <1>1, <1>5, <2>3, FullOther
    <3>2. b = FullWalk[y] /\ y \notin FullStops
      BY <1>2, <1>5, <2>3, FullStep DEF FullWalk, FullStops, Full, Local
    <3>3. Abreast(y, x)
      BY <1>3, EitherOrder DEF Abreast
    <3>4. Abreast(b, a)
      BY <3>1, <3>2, <3>3, WalkOn DEF Abreast
    <3>5. QED
      BY <3>4, EitherOrder DEF Abreast
  <2>4. CASE s # r /\ t # r
    <3>1. x = a /\ y = b
      BY <1>1, <1>2, <1>5, <2>4, FullOther
    <3>2. QED
      BY <1>3, <3>1
  <2>5. QED
    BY <2>1, <2>2, <2>3, <2>4
<1>6. ASSUME NEW r \in Ranks, Worker(r) PROVE Abreast(a, b)
  <2>1. x = a
    BY <1>1, <1>6, FullWorker, FullOther
  <2>2. y = b
    BY <1>2, <1>6, FullWorker, FullOther
  <2>3. QED
    BY <1>3, <2>1, <2>2
<1>7. CASE UNCHANGED vars
  <2>1. \A r \in Ranks : Full(r)' = Full(r)
    BY <1>7 DEF vars, flowVars, rankVars, Full, Local, Owing
  <2>2. QED
    BY <1>1, <1>2, <1>3, <2>1
<1>8. QED
  BY <1>4, <1>5, <1>6, <1>7 DEF Next, Finished

LEMMA AbreastSame == ASSUME TypeOK, AllAbreast PROVE SameRollout
<1> SUFFICES ASSUME ~lost, NEW r \in Ranks, NEW s \in Ranks,
                    At(r, "results"), At(s, "results")
             PROVE  got[r].id = got[s].id
  BY DEF SameRollout
<1>1. Full(r) \in FullStops /\ Full(s) \in FullStops
  BY FullType DEF FullStops, Full, Local, At, ExchangePoints
<1>2. Abreast(Full(r), Full(s))
  BY FullType DEF AllAbreast
<1>3. Full(r) = Full(s)
  BY <1>1, <1>2, BothStopped DEF Abreast
<1>4. QED
  BY <1>3 DEF Full

\* What the ranks take from their queues belongs to one submission, as long as
\* no rollout was lost: the slices each rank cuts out of the gathered results
\* are those of its own prompts.  Each rank keeps its own queues, filled by
\* its own executor in its own time; they agree on the order of what is owed,
\* for any number of ranks.
THEOREM SameRolloutAlways ==
    ASSUME Async => ~EvaluatedTwice
    PROVE  Spec => []SameRollout
<1> DEFINE EvalsKept == \A r \in Ranks : EvalKept(r)
           Base == TypeOK /\ BusyOK /\ IInv
<1>1. Init => Base /\ EvalsKept /\ AllAbreast
  BY InitType, InitBusy, InitIInv, InitKept, InitAbreast
<1>2. Base /\ [Next]_vars => Base'
  BY StepType, StepBusy, StepIInv
<1>3. Base /\ EvalsKept /\ [Next]_vars => EvalsKept'
  BY StepKept
<1>4. Base /\ Base' /\ EvalsKept /\ AllAbreast /\ [Next]_vars => AllAbreast'
  BY StepAbreast DEF IInv
<1>5. Base /\ AllAbreast => SameRollout
  BY AbreastSame
<1>6. QED
  BY <1>1, <1>2, <1>3, <1>4, <1>5, PTL DEF Spec

\* What the ranks take from their queues is one submission, and of the prompts
\* of the loop that takes it, in every asynchronous run that evaluates neither
\* on start nor one step twice, and in every synchronous run.
THEOREM RightRolloutAlways ==
    ASSUME Async => ~EvaluatedTwice, ~(Async /\ EvalOnStart)
    PROVE  Spec => []RightRollout
<1>1. Spec => []SameRollout
  BY SameRolloutAlways
<1>2. Spec => []OwnPrompts
  BY OwnPromptsAlways
<1>3. SameRollout /\ OwnPrompts => RightRollout
  BY DEF RightRollout
<1>4. QED
  BY <1>1, <1>2, <1>3, PTL

-----------------------------------------------------------------------------
(* Without async_generate what is taken is always of the current weights.   *)

GotFresh == At(Main, "results") => got[Main].weights = globalStep[Main]

LEMMA StepFresh ==
    ASSUME TypeOK, IInv, NotedInv, LagInv, ~Async, GotFresh, [Next]_vars
    PROVE  GotFresh'
<1> USE DEF At, Goto, rankVars, flowVars, syncVars
<1>1. Main \in Ranks /\ RankInv(Main)
  BY MainTypes DEF IInv
<1>2. CASE GatherRequests
  <2>1. got'[Main].weights = engine /\ globalStep' = globalStep
    BY <1>1, <1>2 DEF GatherRequests, NewRollout
  <2>2. pc[Main] = "requests"
    BY <1>1, <1>2 DEF GatherRequests, Meet, Exchange, ExchangePoints
  <2>3. engine = globalStep[Main]
    BY <2>2 DEF LagInv, SyncedInv, Loaded, NotedInv
  <2>4. QED
    BY <2>1, <2>3 DEF GotFresh
<1>3. CASE GatherMessages \/ GatherInputs \/ ShareResults
  <2>1. pc'[Main] # "results"
    BY <1>1, <1>3 DEF GatherMessages, GatherInputs, ShareResults
  <2>2. QED
    BY <2>1 DEF GotFresh
<1>4. ASSUME MainThread(Main) PROVE GotFresh'
  <2>1. pc[Main] # "get"
    BY <1>1 DEF RankInv, Inline
  <2>2. pc'[Main] # "results"
    BY <1>1, <1>4, <2>1 DEF MainThread, TrainBegin, PrefetchSync, PrefetchInfer,
       Sync, Submit, Get, TrainStep, Backward, StepEnd, EpochEnd, EvalWait,
       EvalBatch, EvalEnd, Evaluate, NextStep, TypeOK
  <2>3. QED
    BY <2>2 DEF GotFresh
<1>5. ASSUME Worker(Main) \/ UNCHANGED vars PROVE GotFresh'
  <2>1. pc' = pc /\ got' = got /\ globalStep' = globalStep
    BY <1>5 DEF Worker, StartTask, FinishTask, FailTask, vars
  <2>2. QED
    BY <2>1 DEF GotFresh
<1>6. ASSUME NEW r \in Ranks, r # Main, MainThread(r) \/ Worker(r) PROVE GotFresh'
  <2>1. /\ pc'[Main] = pc[Main] /\ got'[Main] = got[Main]
        /\ globalStep'[Main] = globalStep[Main]
    BY <1>1, <1>6, OthersKept
  <2>2. QED
    BY <2>1 DEF GotFresh
<1>7. QED
  BY <1>2, <1>3, <1>4, <1>5, <1>6 DEF Next, Collective, Finished

\* Without async_generate every batch, of an evaluation too and after any
\* resampling, comes from the weights of the optimizer step it is taken in:
\* what is noted as loaded (_last_loaded_step) is never out of date where the
\* engine is asked.
THEOREM FreshAlways ==
    ASSUME ~Async
    PROVE  Spec => []EvalFresh
<1> DEFINE Base == TypeOK /\ BusyOK /\ IInv /\ WeightsInv /\ LagInv
<1>1. Init => Base /\ GotFresh
  <2>1. Init => GotFresh
    BY MainTypes, InitType DEF Init, GotFresh, At
  <2>2. QED
    BY <2>1, InitType, InitBusy, InitIInv, InitWeights, InitLag
<1>2. Base /\ [Next]_vars => Base'
  BY StepType, StepBusy, StepIInv, StepWeights, StepLag
<1>3. Base /\ GotFresh /\ [Next]_vars => GotFresh'
  BY StepFresh DEF WeightsInv
<1>4. GotFresh => EvalFresh
  BY DEF GotFresh, EvalFresh
<1>5. QED
  BY <1>1, <1>2, <1>3, <1>4, PTL DEF Spec

=============================================================================
