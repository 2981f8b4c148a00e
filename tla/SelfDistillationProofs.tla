----------------------- MODULE SelfDistillationProofs -----------------------
(***************************************************************************)
(* Proofs about SelfDistillation, for every value of its constants.        *)
(*                                                                         *)
(* Ranks meet in collectives only, and which ones depends on their draws,  *)
(* on the teacher and on the window of micro-batches they are in.  The     *)
(* invariant gives each rank a view of how far it has got, made so that a  *)
(* step of its own leaves the view as it is and a collective changes all   *)
(* views alike: ranks that have the same view, and each wait in a          *)
(* collective, wait in the same one.                                       *)
(***************************************************************************)
EXTENDS SelfDistillation, TeacherHint, TokenWeights, SequenceTheorems, TLAPS

-----------------------------------------------------------------------------
(* Types.                                                                  *)

LEMMA ConstantTypes ==
    /\ Main \in Ranks
    /\ MaxSteps \in Nat /\ MaxSteps > 0
    /\ GradAccum \in Nat /\ GradAccum > 0
    /\ EpochLen \in Nat /\ EpochLen > 0
    /\ MaxLives \in Nat /\ MaxLives > 0
<1>1. /\ MaxSteps \in Nat \ {0} /\ GradAccum \in Nat \ {0}
      /\ EpochLen \in Nat \ {0} /\ MaxLives \in Nat \ {0}
  BY DistillationAssumption
<1>2. QED
  BY <1>1, DistillationAssumption

LEMMA RankTypes ==
    ASSUME TypeOK, NEW r \in Ranks
    PROVE  /\ pc[r] \in {"batch", "sync", "requests", "forward", "backward",
                         "ema", "end", "over", "failed"}
           /\ step[r] \in 0..MaxSteps
           /\ micro[r] \in 0..GradAccum - 1
           /\ position[r] \in 0..EpochLen - 1
           /\ student[r] \in Weights
           /\ teacher[r] \in Seq(Weights)
           /\ lastLoaded[r] \in -1..MaxSteps
           /\ response[r] \in [source : Sources, by : Weights]
  BY DEF TypeOK

LEMMA UpdatedType ==
    ASSUME TypeOK, NEW w \in Weights
    PROVE  Updated(w) \in Weights
<1>1. life \in 0..MaxLives
  BY ConstantTypes DEF TypeOK
<1>2. QED
  BY <1>1, AppendProperties DEF Updated, Weights

LEMMA AverageType ==
    ASSUME TypeOK, NEW r \in Ranks
    PROVE  Average(r) \in Seq(Weights)
<1>1. teacher[r] \in Seq(Weights) /\ student[r] \in Weights
  BY DEF TypeOK
<1>2. Append(teacher[r], student[r]) \in Seq(Weights)
  BY <1>1, AppendProperties
<1>3. QED
  BY <1>1, <1>2 DEF Average

LEMMA LossType ==
    ASSUME TypeOK, NEW r \in Ranks
    PROVE  Loss(r) \in [source : Sources, by : Weights, student : Weights,
                        teacher : Seq(Weights), micro : 0..GradAccum - 1]
  BY DEF TypeOK, Loss

LEMMA NextPositionType ==
    ASSUME TypeOK, NEW r \in Ranks
    PROVE  NextPosition(r) \in 0..EpochLen - 1
  BY ConstantTypes, RankTypes DEF NextPosition

(* A rank is over exactly when it has made the last step. *)
OverOK == \A r \in Ranks : pc[r] = "over" <=> step[r] = MaxSteps

LEMMA InitType == Init => TypeOK
<1> SUFFICES ASSUME Init PROVE TypeOK
  OBVIOUS
<1>1. <<>> \in Weights /\ <<>> \in Seq(Weights)
  BY EmptySeq DEF Weights
<1>2. Unknown \in Weights
  BY ConstantTypes DEF Unknown, Weights
<1>3. Dataset \in [source : Sources, by : Weights]
  BY <1>1 DEF Dataset, Sources
<1>4. draw \in [0..MaxSteps - 1 -> BOOLEAN]
  BY DEF Init
<1>5. checkpoint \in [step : 0..MaxSteps, student : Weights,
                      position : 0..EpochLen - 1]
  BY <1>1, ConstantTypes DEF Init, Start
<1>6. QED
  BY <1>1, <1>2, <1>3, <1>4, <1>5, ConstantTypes DEF Init, TypeOK

LEMMA StepType == TypeOK /\ OverOK /\ [Next]_vars => TypeOK'
<1> SUFFICES ASSUME TypeOK, OverOK, [Next]_vars PROVE TypeOK'
  OBVIOUS
<1> USE DEF Goto, At, loopVars, engineVars, lifeVars
<1>0. Main \in Ranks
  BY ConstantTypes
<1>1. ASSUME NEW r \in Ranks, ChooseSource(r) PROVE TypeOK'
  <2>1. Dataset \in [source : Sources, by : Weights]
    BY EmptySeq DEF Dataset, Sources, Weights
  <2>2. pc' \in [Ranks -> {"batch", "sync", "requests", "forward", "backward",
                          "ema", "end", "over", "failed"}]
    <3>1. \E l \in {"sync", "failed", "forward"} : pc' = [pc EXCEPT ![r] = l]
      BY <1>1, Zenon DEF ChooseSource
    <3>2. QED
      BY <3>1 DEF TypeOK
  <2>3. QED
    BY <1>1, <2>1, <2>2 DEF ChooseSource, TypeOK
<1>2. ASSUME NEW r \in Ranks, Sync(r) PROVE TypeOK'
  <2>1. /\ lastLoaded' \in [Ranks -> -1..MaxSteps] /\ engine' \in Weights
    <3>1. CASE NeedsWeights(r)
      <4>1. lastLoaded' = [lastLoaded EXCEPT ![r] = step[r]]
        BY <1>2, <3>1 DEF Sync
      <4>2. engine' = student[r] \/ engine' = engine
        BY <1>2, <3>1, Zenon DEF Sync
      <4>3. step[r] \in -1..MaxSteps
        BY RankTypes, ConstantTypes
      <4>4. QED
        BY <4>1, <4>2, <4>3, RankTypes DEF TypeOK
    <3>2. CASE ~NeedsWeights(r)
      BY <1>2, <3>2 DEF Sync, TypeOK
    <3>3. QED
      BY <3>1, <3>2
  <2>2. QED
    BY <1>2, <2>1 DEF Sync, TypeOK
<1>3. CASE Rollout
  <2>1. Student(engine) \in [source : Sources, by : Weights]
    BY DEF TypeOK, Student, Sources
  <2>2. QED
    BY <1>3, <2>1 DEF Rollout, TypeOK
<1>4. ASSUME NEW r \in Ranks, Forward(r) PROVE TypeOK'
  BY <1>4, LossType DEF Forward, TypeOK
<1>5. CASE ForwardSharded
  BY <1>5, LossType DEF ForwardSharded, TypeOK
<1>6. ASSUME NEW r \in Ranks, Backward(r) PROVE TypeOK'
  BY <1>6 DEF Backward, AfterBackward, TypeOK
<1>7. CASE Reduce
  <2>1. student' \in [Ranks -> Weights]
    BY <1>7, UpdatedType DEF Reduce, TypeOK
  <2>2. QED
    BY <1>7, <2>1 DEF Reduce, AfterBackward, TypeOK
<1>8. ASSUME NEW r \in Ranks, EmaUpdate(r) PROVE TypeOK'
  BY <1>8, AverageType DEF EmaUpdate, TypeOK
<1>9. CASE EmaUpdateSharded
  BY <1>0, <1>9, AverageType DEF EmaUpdateSharded, TypeOK
<1>10. ASSUME NEW r \in Ranks, Accumulate(r) PROVE TypeOK'
  <2>1. micro[r] + 1 \in 0..GradAccum - 1
    BY <1>10, ConstantTypes, RankTypes DEF Accumulate, Boundary
  <2>2. QED
    BY <1>10, <2>1, NextPositionType DEF Accumulate, TypeOK
<1>11. ASSUME NEW r \in Ranks, OptimizerStep(r) PROVE TypeOK'
  <2> DEFINE trained == IF DeepSpeed THEN student[r] ELSE Updated(student[r])
             written == [step |-> step[r] + 1, student |-> trained,
                         position |-> NextPosition(r)]
  <2>1. step[r] + 1 \in 0..MaxSteps
    <3>1. step[r] # MaxSteps
      BY <1>11 DEF OptimizerStep, OverOK
    <3>2. QED
      BY <3>1, RankTypes, ConstantTypes
  <2>2. trained \in Weights
    BY RankTypes, UpdatedType
  <2>3. written \in [step : 0..MaxSteps, student : Weights,
                     position : 0..EpochLen - 1]
    BY <2>1, <2>2, NextPositionType
  <2>4. checkpoint' = written \/ checkpoint' = checkpoint
    BY <1>11, Zenon DEF OptimizerStep
  <2>5. pc' \in [Ranks -> {"batch", "sync", "requests", "forward", "backward",
                          "ema", "end", "over", "failed"}]
    BY <1>11 DEF OptimizerStep, TypeOK
  <2>6. 0 \in 0..GradAccum - 1
    BY ConstantTypes
  <2>7. QED
    BY <1>11, <2>1, <2>2, <2>3, <2>4, <2>5, <2>6, NextPositionType
       DEF OptimizerStep, TypeOK
<1>12. CASE Resume
  <2>1. Dataset \in [source : Sources, by : Weights] /\ <<>> \in Seq(Weights)
    BY EmptySeq DEF Dataset, Sources, Weights
  <2>2. QED
    <3>1. /\ checkpoint.step \in 0..MaxSteps
          /\ checkpoint.student \in Weights
          /\ checkpoint.position \in 0..EpochLen - 1
      BY DEF TypeOK
    <3>2. 0 \in 0..GradAccum - 1 /\ -1 \in -1..MaxSteps
      BY ConstantTypes
    <3>3. life' \in 1..MaxLives
      BY <1>12, ConstantTypes DEF Resume, TypeOK
    <3>4. QED
      BY <1>12, <2>1, <3>1, <3>2, <3>3 DEF Resume, TypeOK
<1>13. CASE UNCHANGED vars
  BY <1>13 DEF vars, TypeOK
<1>14. QED
  BY <1>1, <1>2, <1>3, <1>4, <1>5, <1>6, <1>7, <1>8, <1>9, <1>10, <1>11,
     <1>12, <1>13 DEF Next, RankStep, Collective

LEMMA InitOver == Init => OverOK
  BY ConstantTypes DEF Init, OverOK

LEMMA StepOver == TypeOK /\ OverOK /\ [Next]_vars => OverOK'
<1> SUFFICES ASSUME TypeOK, OverOK, [Next]_vars PROVE OverOK'
  OBVIOUS
<1> USE DEF Goto, At, loopVars, engineVars, lifeVars
<1>1. ASSUME NEW r \in Ranks, NEW l \in {"sync", "failed", "forward", "requests",
                                      "backward", "ema", "end", "batch"},
             pc[r] # "over", pc' = [pc EXCEPT ![r] = l], UNCHANGED step
      PROVE  OverOK'
  BY <1>1 DEF TypeOK, OverOK
<1>2. ASSUME NEW l \in {"forward", "backward", "ema", "end"},
             \A r \in Ranks : pc[r] # "over", pc' = [r \in Ranks |-> l],
             UNCHANGED step
      PROVE  OverOK'
  BY <1>2 DEF TypeOK, OverOK
<1>3. ASSUME NEW kind, Meet(kind), kind # "none"
      PROVE  \A r \in Ranks : pc[r] # "over"
  BY <1>3 DEF Meet, Exchange
<1>4. ASSUME NEW r \in Ranks, RankStep(r), ~OptimizerStep(r) PROVE OverOK'
  <2>1. \E l \in {"sync", "failed", "forward", "requests", "backward", "ema",
                  "end", "batch"} : pc' = [pc EXCEPT ![r] = l]
    BY <1>4, Zenon DEF RankStep, ChooseSource, Sync, Forward, Backward,
       EmaUpdate, Accumulate, AfterBackward
  <2>2. pc[r] # "over" /\ UNCHANGED step
    BY <1>4 DEF RankStep, ChooseSource, Sync, Forward, Backward, EmaUpdate,
       Accumulate
  <2>3. QED
    BY <1>1, <2>1, <2>2
<1>5. CASE Collective
  <2>1. UNCHANGED step
    BY <1>5 DEF Collective, Rollout, ForwardSharded, Reduce, EmaUpdateSharded
  <2>2. \E l \in {"forward", "backward", "ema", "end"} : pc' = [r \in Ranks |-> l]
    BY <1>5, Zenon DEF Collective, Rollout, ForwardSharded, Reduce,
       EmaUpdateSharded, AfterBackward
  <2>3. QED
    BY <1>2, <1>3, <1>5, <2>1, <2>2
       DEF Collective, Rollout, ForwardSharded, Reduce, EmaUpdateSharded
<1>6. ASSUME NEW r \in Ranks, OptimizerStep(r) PROVE OverOK'
  <2>1. /\ pc' = [pc EXCEPT ![r] = IF step[r] + 1 = MaxSteps THEN "over" ELSE "batch"]
        /\ step' = [step EXCEPT ![r] = @ + 1]
    BY <1>6 DEF OptimizerStep
  <2>2. QED
    BY <2>1 DEF TypeOK, OverOK
<1>7. CASE Resume
  BY <1>7 DEF Resume, OverOK
<1>8. CASE UNCHANGED vars
  BY <1>8 DEF vars, OverOK
<1>9. QED
  BY <1>4, <1>5, <1>6, <1>7, <1>8 DEF Next

(* Every reachable state is well typed. *)
THEOREM TypeCorrect == Spec => []TypeOK
<1>1. Init => TypeOK /\ OverOK
  BY InitType, InitOver
<1>2. TypeOK /\ OverOK /\ [Next]_vars => (TypeOK /\ OverOK)'
  BY StepType, StepOver
<1>3. QED
  BY <1>1, <1>2, PTL DEF Spec

-----------------------------------------------------------------------------
(* The view of a rank.                                                     *)

(* The gradients of this optimizer step have been reduced. *)
Flushed(r) == Boundary(r) /\ pc[r] \in {"ema", "end"}

(* Gradients reduced so far. *)
Passed(r) == IF Flushed(r) THEN step[r] + 1 ELSE step[r]

(* Where in the epoch the current window began. *)
Window(r) == IF Flushed(r) THEN NextPosition(r) ELSE position[r] - micro[r]

(* The student after the gradients reduced so far. *)
Trained(r) ==
    IF Flushed(r) /\ ~DeepSpeed THEN Updated(student[r]) ELSE student[r]

One(b) == IF b THEN 1 ELSE 0

(* Rollouts of the current window. *)
Rolled(r) ==
    IF Flushed(r) THEN 0
    ELSE micro[r] + One(pc[r] \in {"forward", "backward", "ema", "end"})

(* Forward passes of the teacher in the current window. *)
Taught(r) ==
    IF Flushed(r) THEN 0
    ELSE micro[r] + One(pc[r] \in {"backward", "ema", "end"})

(* Updates of the teacher in the current window; the last one of a window  *)
(* comes after its reduction. *)
Averaged(r) ==
    IF Flushed(r) THEN One(pc[r] = "end") - 1
    ELSE micro[r] + One(pc[r] = "end")

Rolls(r) == Passed(r) < MaxSteps /\ draw[Passed(r)]

(* What two ranks agree on, each part as far as a collective makes them. *)
SameView(r, q) ==
    /\ Passed(r) = Passed(q)
    /\ Window(r) = Window(q)
    /\ Trained(r) = Trained(q)
    /\ Rolls(r) => Rolled(r) = Rolled(q)
    /\ Sharded => Taught(r) = Taught(q)
    /\ Sharded /\ Ema => Averaged(r) = Averaged(q)

-----------------------------------------------------------------------------
(* What a rank knows by itself.                                            *)

Source(r) == IF draw[step[r]] THEN "student" ELSE "dataset"

(* It is where its draw sends it, and has finished when it says so. *)
Place(r) ==
    /\ pc[r] \in {"sync", "requests"} => draw[step[r]]
    /\ pc[r] = "ema" => Ema

(* It has a response of its own student to take the loss of. *)
Fits(r, x) ==
    /\ x.source = Source(r)
    /\ Source(r) = "student" => x.by = student[r]

Answered(r) == pc[r] = "forward" => Fits(r, response[r])

(* Its gradient is of its own student. *)
Losses(r) ==
    /\ \A loss \in gradient[r] : Fits(r, loss) /\ loss.student = student[r]
    /\ Flushed(r) => gradient[r] = {}

(* The engine holds the main process's student from the time it is loaded  *)
(* until that student is trained further. *)
EngineLoaded ==
    /\ lastLoaded[Main] <= step[Main]
    /\ lastLoaded[Main] = step[Main] /\ ~Flushed(Main) => engine = student[Main]
    /\ pc[Main] = "requests" => lastLoaded[Main] = step[Main]

IInv ==
    /\ \A r \in Ranks : Place(r) /\ Answered(r) /\ Losses(r)
    /\ \A r, q \in Ranks : SameView(r, q)
    /\ EngineLoaded

-----------------------------------------------------------------------------
(* A rank's own steps keep its view.                                       *)

ViewKept(r) ==
    /\ Passed(r)' = Passed(r)
    /\ Window(r)' = Window(r)
    /\ Trained(r)' = Trained(r)
    /\ Rolls(r)' <=> Rolls(r)
    /\ Rolls(r) => Rolled(r)' = Rolled(r)
    /\ Sharded => Taught(r)' = Taught(r)
    /\ Sharded /\ Ema => Averaged(r)' = Averaged(r)

LEMMA ViewsKept ==
    ASSUME NEW r \in Ranks, NEW q \in Ranks, SameView(r, q),
           ViewKept(r), ViewKept(q)
    PROVE  SameView(r, q)'
<1>1. Rolls(r) => Rolls(q)
  BY DEF SameView, Rolls
<1>2. QED
  BY <1>1 DEF SameView, ViewKept

(* A step of another rank, and of this one between two places that count   *)
(* the same. *)
LEMMA Unmoved ==
    ASSUME NEW r \in Ranks, pc'[r] = pc[r], step'[r] = step[r],
           micro'[r] = micro[r], position'[r] = position[r],
           student'[r] = student[r], UNCHANGED <<draw, life>>
    PROVE  ViewKept(r) /\ (Flushed(r)' <=> Flushed(r))
  BY DEF ViewKept, Passed, Window, Trained, Rolls, Rolled, Taught, Averaged,
         Flushed, Boundary, NextPosition, Updated

LEMMA Moved ==
    ASSUME NEW r \in Ranks, step'[r] = step[r],
           micro'[r] = micro[r], position'[r] = position[r],
           student'[r] = student[r], UNCHANGED <<draw, life>>,
           pc[r] \in {"ema", "end"} /\ Boundary(r) <=> pc'[r] \in {"ema", "end"} /\ Boundary(r),
           Rolls(r) => (pc[r] \in {"forward", "backward", "ema", "end"}
                          <=> pc'[r] \in {"forward", "backward", "ema", "end"}),
           Sharded => (pc[r] \in {"backward", "ema", "end"}
                          <=> pc'[r] \in {"backward", "ema", "end"}),
           Sharded /\ Ema => (pc[r] = "end" <=> pc'[r] = "end")
    PROVE  ViewKept(r) /\ (Flushed(r)' <=> Flushed(r))
<1>1. Boundary(r)' <=> Boundary(r)
  BY DEF Boundary
<1>2. Flushed(r)' <=> Flushed(r)
  BY <1>1 DEF Flushed
<1>3. Passed(r)' = Passed(r) /\ Window(r)' = Window(r)
  BY <1>2 DEF Passed, Window, NextPosition
<1>4. Trained(r)' = Trained(r)
  BY <1>2 DEF Trained, Updated
<1>5. Rolls(r)' <=> Rolls(r)
  BY <1>3 DEF Rolls
<1>6. Rolls(r) => Rolled(r)' = Rolled(r)
  BY <1>2 DEF Rolled, One
<1>7. Sharded => Taught(r)' = Taught(r)
  BY <1>2 DEF Taught, One
<1>8. Sharded /\ Ema => Averaged(r)' = Averaged(r)
  BY <1>2 DEF Averaged, One
<1>9. QED
  BY <1>2, <1>3, <1>4, <1>5, <1>6, <1>7, <1>8 DEF ViewKept

LEMMA RankKeepsView ==
    ASSUME TypeOK, OverOK, NEW r \in Ranks, Place(r), RankStep(r)
    PROVE  ViewKept(r)
<1> USE DEF Goto, At, loopVars, engineVars, lifeVars
<1>0. /\ step[r] \in 0..MaxSteps /\ micro[r] \in 0..GradAccum - 1
      /\ position[r] \in 0..EpochLen - 1
  BY RankTypes
<1>1. CASE ChooseSource(r)
  <2>1. /\ pc[r] = "batch" /\ step[r] < MaxSteps
        /\ UNCHANGED <<step, micro, position, student, draw, life>>
    BY <1>0, <1>1, ConstantTypes DEF ChooseSource, OverOK
  <2>2. pc'[r] \in {"sync", "failed", "forward"}
    <3>1. \E l \in {"sync", "failed", "forward"} : pc' = [pc EXCEPT ![r] = l]
      BY <1>1, Zenon DEF ChooseSource
    <3>2. QED
      BY <3>1 DEF TypeOK
  <2>3. OnPolicy(r) => pc'[r] # "forward"
    <3>1. OnPolicy(r) => pc' = [pc EXCEPT ![r] = IF UseVllm THEN "sync" ELSE "failed"]
      BY <1>1, Zenon DEF ChooseSource
    <3>2. QED
      BY <3>1 DEF TypeOK
  <2>4. Rolls(r) => OnPolicy(r)
    BY <2>1 DEF Rolls, OnPolicy, Passed, Flushed
  <2>5. QED
    BY <2>1, <2>2, <2>3, <2>4, Moved
<1>2. CASE Sync(r)
  <2>1. pc'[r] = "requests"
    BY <1>2 DEF Sync, TypeOK
  <2>2. QED
    BY <1>2, <2>1, Moved DEF Sync
<1>3. CASE Forward(r)
  <2>1. pc'[r] = "backward"
    BY <1>3 DEF Forward, TypeOK
  <2>2. QED
    BY <1>3, <2>1, Moved DEF Forward
<1>4. CASE Backward(r)
  <2>1. pc'[r] = AfterBackward
    BY <1>4 DEF Backward, TypeOK
  <2>2. QED
    BY <1>4, <2>1, Moved DEF Backward, AfterBackward
<1>5. CASE EmaUpdate(r)
  <2>1. pc'[r] = "end"
    BY <1>5 DEF EmaUpdate, TypeOK
  <2>2. QED
    BY <1>5, <2>1, Moved DEF EmaUpdate
<1>6. CASE Accumulate(r)
  <2>1. /\ pc[r] = "end" /\ pc'[r] = "batch" /\ step'[r] = step[r]
        /\ micro'[r] = micro[r] + 1 /\ position'[r] = position[r] + 1
        /\ student'[r] = student[r] /\ draw' = draw
        /\ ~Boundary(r)
    BY <1>6 DEF Accumulate, TypeOK, NextPosition, Boundary
  <2>2. ~Flushed(r) /\ ~Flushed(r)'
    BY <2>1 DEF Flushed
  <2>3. QED
    BY <1>0, <2>1, <2>2
       DEF ViewKept, Passed, Window, Trained, Rolls, Rolled, Taught, Averaged, One
<1>7. CASE OptimizerStep(r)
  <2>1. /\ pc[r] = "end" /\ pc'[r] \in {"over", "batch"} /\ step'[r] = step[r] + 1
        /\ micro'[r] = 0 /\ position'[r] = NextPosition(r)
        /\ student'[r] = IF DeepSpeed THEN student[r] ELSE Updated(student[r])
        /\ draw' = draw /\ Boundary(r)
    BY <1>7 DEF OptimizerStep, TypeOK
  <2>2. Flushed(r) /\ ~Flushed(r)'
    BY <2>1 DEF Flushed
  <2>3. Trained(r)' = Trained(r)
    BY <2>1, <2>2 DEF Trained
  <2>4. NextPosition(r) \in 0..EpochLen - 1
    BY NextPositionType
  <2>5. QED
    BY <1>0, <2>1, <2>2, <2>3, <2>4
       DEF ViewKept, Passed, Window, Rolls, Rolled, Taught, Averaged, One
<1>8. QED
  BY <1>1, <1>2, <1>3, <1>4, <1>5, <1>6, <1>7 DEF RankStep

(* The other ranks do not move. *)
LEMMA OthersKeepView ==
    ASSUME TypeOK, NEW r \in Ranks, NEW q \in Ranks, q # r, RankStep(r)
    PROVE  /\ ViewKept(q)
           /\ Flushed(q)' <=> Flushed(q)
           /\ pc'[q] = pc[q] /\ step'[q] = step[q] /\ student'[q] = student[q]
           /\ response'[q] = response[q] /\ gradient'[q] = gradient[q]
           /\ lastLoaded'[q] = lastLoaded[q] /\ micro'[q] = micro[q]
<1> USE DEF Goto, At, loopVars, engineVars, lifeVars
<1>1. /\ pc'[q] = pc[q] /\ step'[q] = step[q] /\ student'[q] = student[q]
      /\ micro'[q] = micro[q] /\ position'[q] = position[q]
      /\ response'[q] = response[q] /\ gradient'[q] = gradient[q]
      /\ UNCHANGED <<draw, life>>
  BY DEF RankStep, ChooseSource, Sync, Forward, Backward, EmaUpdate,
         Accumulate, OptimizerStep, TypeOK
<1>2. lastLoaded'[q] = lastLoaded[q]
  BY DEF RankStep, ChooseSource, Sync, Forward, Backward, EmaUpdate,
         Accumulate, OptimizerStep, TypeOK
<1>3. QED
  BY <1>1, <1>2, Unmoved

-----------------------------------------------------------------------------
(* Ranks with the same view that wait in collectives wait in the same one. *)

LEMMA NotFlushed ==
    ASSUME NEW r \in Ranks, ~Flushed(r)
    PROVE  /\ Passed(r) = step[r]
           /\ Window(r) = position[r] - micro[r]
           /\ Trained(r) = student[r]
           /\ Rolled(r) = micro[r] + One(pc[r] \in {"forward", "backward", "ema", "end"})
           /\ Taught(r) = micro[r] + One(pc[r] \in {"backward", "ema", "end"})
           /\ Averaged(r) = micro[r] + One(pc[r] = "end")
  BY DEF Passed, Window, Trained, Rolled, Taught, Averaged

(* One of them at the boundary of a window, the other one micro-batch on:  *)
(* there is no such micro-batch. *)
LEMMA NoMicroBatchAfterBoundary ==
    ASSUME TypeOK, NEW r \in Ranks, NEW q \in Ranks, Boundary(q),
           position[r] - micro[r] = position[q] - micro[q]
    PROVE  micro[r] # micro[q] + 1
  BY RankTypes, ConstantTypes DEF Boundary

LEMMA SameBoundary ==
    ASSUME TypeOK, NEW r \in Ranks, NEW q \in Ranks, Boundary(r), Boundary(q),
           position[r] - micro[r] = position[q] - micro[q]
    PROVE  micro[r] = micro[q] /\ position[r] = position[q]
  BY RankTypes, ConstantTypes DEF Boundary

LEMMA Places ==
    ASSUME NEW r \in Ranks
    PROVE  /\ Exchange(r) = "requests" <=> pc[r] = "requests"
           /\ Exchange(r) = "teacher" <=> pc[r] = "forward" /\ Sharded
           /\ Exchange(r) = "gradients" <=> pc[r] = "backward" /\ Boundary(r)
           /\ Exchange(r) = "average" <=> pc[r] = "ema" /\ Sharded
           /\ Exchange(r) \in {"requests", "teacher", "gradients", "average", "none"}
  BY Zenon DEF Exchange, At

LEMMA PairAligned ==
    ASSUME TypeOK, OverOK, NEW r \in Ranks, NEW q \in Ranks,
           Place(r), Place(q), SameView(r, q), SameView(q, r)
    PROVE  /\ ~(Exchange(r) = "requests" /\ Exchange(q) = "teacher")
           /\ ~(Exchange(r) = "requests" /\ Exchange(q) = "gradients")
           /\ ~(Exchange(r) = "requests" /\ Exchange(q) = "average")
           /\ ~(Exchange(r) = "teacher" /\ Exchange(q) = "gradients")
           /\ ~(Exchange(r) = "teacher" /\ Exchange(q) = "average")
           /\ ~(Exchange(r) = "gradients" /\ Exchange(q) = "average")
<1>0. /\ micro[r] \in Nat /\ micro[q] \in Nat
      /\ position[r] \in Nat /\ position[q] \in Nat
      /\ step[r] \in 0..MaxSteps
  BY RankTypes, ConstantTypes
<1>1. pc[r] = "requests" => Rolls(r) /\ ~Flushed(r)
  <2> SUFFICES ASSUME pc[r] = "requests" PROVE Rolls(r) /\ ~Flushed(r)
    OBVIOUS
  <2>1. ~Flushed(r) /\ step[r] # MaxSteps
    BY DEF Flushed, OverOK
  <2>2. Passed(r) = step[r] /\ step[r] < MaxSteps
    BY <1>0, <2>1, ConstantTypes DEF Passed
  <2>3. QED
    BY <2>1, <2>2 DEF Rolls, Place
<1>2. /\ pc[r] \in {"requests", "forward", "backward"} => ~Flushed(r)
      /\ pc[q] \in {"requests", "forward", "backward"} => ~Flushed(q)
  BY DEF Flushed
<1>3. ASSUME pc[q] = "ema", Sharded, ~Flushed(r), pc[r] # "end"
      PROVE  ~Flushed(q) /\ micro[r] = micro[q]
  <2>1. Averaged(r) = Averaged(q)
    BY <1>3 DEF Place, SameView
  <2>2. Averaged(r) = micro[r]
    BY <1>0, <1>3, NotFlushed DEF One
  <2>3. Averaged(q) = IF Flushed(q) THEN -1 ELSE micro[q]
    BY <1>0, <1>3 DEF Averaged, One
  <2>4. micro[r] # -1
    BY <1>0
  <2>5. ~Flushed(q)
    BY <2>1, <2>2, <2>3, <2>4
  <2>6. QED
    BY <2>1, <2>2, <2>3, <2>5
<1>4. ~(pc[r] = "requests" /\ pc[q] = "forward" /\ Sharded)
  BY <1>0, <1>1, <1>2, NotFlushed DEF SameView, One
<1>5. ~(pc[r] = "requests" /\ pc[q] = "backward" /\ Boundary(q))
  <2> SUFFICES ASSUME pc[r] = "requests", pc[q] = "backward", Boundary(q)
               PROVE  FALSE
    OBVIOUS
  <2>1. /\ micro[r] = micro[q] + 1
        /\ position[r] - micro[r] = position[q] - micro[q]
    BY <1>0, <1>1, <1>2, NotFlushed DEF SameView, One
  <2>2. QED
    BY <2>1, NoMicroBatchAfterBoundary
<1>6. ~(pc[r] = "requests" /\ pc[q] = "ema" /\ Sharded)
  BY <1>0, <1>2, <1>3, NotFlushed DEF SameView, One
<1>7. ~(pc[r] = "forward" /\ Sharded /\ pc[q] = "backward" /\ Boundary(q))
  <2> SUFFICES ASSUME pc[r] = "forward", Sharded, pc[q] = "backward", Boundary(q)
               PROVE  FALSE
    OBVIOUS
  <2>1. /\ micro[r] = micro[q] + 1
        /\ position[r] - micro[r] = position[q] - micro[q]
    BY <1>0, <1>2, NotFlushed DEF SameView, One
  <2>2. QED
    BY <2>1, NoMicroBatchAfterBoundary
<1>8. ~(pc[r] = "forward" /\ Sharded /\ pc[q] = "ema")
  BY <1>0, <1>2, <1>3, NotFlushed DEF SameView, One
<1>9. ~(pc[r] = "backward" /\ Boundary(r) /\ pc[q] = "ema" /\ Sharded)
  <2> SUFFICES ASSUME pc[r] = "backward", Boundary(r), pc[q] = "ema", Sharded
               PROVE  FALSE
    OBVIOUS
  <2>1. ~Flushed(q) /\ micro[r] = micro[q] /\ ~Flushed(r)
    BY <1>2, <1>3
  <2>2. position[r] = position[q]
    BY <1>0, <2>1, NotFlushed DEF SameView
  <2>3. Boundary(q)
    BY <2>1, <2>2 DEF Boundary
  <2>4. QED
    BY <2>1, <2>3 DEF Flushed
<1>10. QED
  BY <1>4, <1>5, <1>6, <1>7, <1>8, <1>9, Places

LEMMA AllAligned == TypeOK /\ OverOK /\ IInv => Aligned
<1> SUFFICES ASSUME TypeOK, OverOK, IInv, NEW r \in Ranks, NEW q \in Ranks,
                    Exchange(r) # "none", Exchange(q) # "none"
             PROVE  Exchange(r) = Exchange(q)
  BY DEF Aligned
<1>1. /\ Place(r) /\ Place(q) /\ SameView(r, q) /\ SameView(q, r)
  BY DEF IInv
<1>2. QED
  BY <1>1, PairAligned, Places

-----------------------------------------------------------------------------
(* A collective changes all views alike.                                   *)

LEMMA CollectiveKeepsSameView ==
    ASSUME TypeOK, IInv, Collective, NEW r \in Ranks, NEW q \in Ranks
    PROVE  SameView(r, q)'
<1> USE DEF loopVars, engineVars, lifeVars
<1>0. /\ micro[r] \in 0..GradAccum - 1 /\ micro[q] \in 0..GradAccum - 1
      /\ position[r] \in 0..EpochLen - 1 /\ position[q] \in 0..EpochLen - 1
      /\ step[r] \in 0..MaxSteps /\ step[q] \in 0..MaxSteps
      /\ SameView(r, q) /\ Place(r) /\ Place(q)
  BY RankTypes DEF IInv
<1>1. CASE Rollout
  <2>1. /\ pc[r] = "requests" /\ pc[q] = "requests"
        /\ pc'[r] = "forward" /\ pc'[q] = "forward"
        /\ UNCHANGED <<step, micro, position, student, draw, life>>
    BY <1>1, Places DEF Rollout, Meet
  <2>2. ~Flushed(r) /\ ~Flushed(q) /\ ~Flushed(r)' /\ ~Flushed(q)'
    BY <2>1 DEF Flushed
  <2>3. QED
    BY <1>0, <2>1, <2>2
       DEF SameView, Passed, Window, Trained, Rolls, Rolled, Taught, Averaged, One
<1>2. CASE ForwardSharded
  <2>1. /\ pc[r] = "forward" /\ pc[q] = "forward" /\ Sharded
        /\ pc'[r] = "backward" /\ pc'[q] = "backward"
        /\ UNCHANGED <<step, micro, position, student, draw, life>>
    BY <1>2, Places DEF ForwardSharded, Meet
  <2>2. ~Flushed(r) /\ ~Flushed(q) /\ ~Flushed(r)' /\ ~Flushed(q)'
    BY <2>1 DEF Flushed
  <2>3. QED
    BY <1>0, <2>1, <2>2
       DEF SameView, Passed, Window, Trained, Rolls, Rolled, Taught, Averaged, One
<1>3. CASE Reduce
  <2>1. /\ pc[r] = "backward" /\ pc[q] = "backward" /\ Boundary(r) /\ Boundary(q)
        /\ pc'[r] = AfterBackward /\ pc'[q] = AfterBackward
        /\ UNCHANGED <<step, micro, position, draw, life>>
        /\ student'[r] = IF DeepSpeed THEN Updated(student[r]) ELSE student[r]
        /\ student'[q] = IF DeepSpeed THEN Updated(student[q]) ELSE student[q]
    BY <1>3, Places DEF Reduce, Meet
  <2>2. /\ ~Flushed(r) /\ ~Flushed(q) /\ Flushed(r)' /\ Flushed(q)'
        /\ pc'[r] = pc'[q]
    BY <2>1 DEF Flushed, Boundary, AfterBackward
  <2>3. /\ step[r] = step[q] /\ student[r] = student[q]
        /\ position[r] - micro[r] = position[q] - micro[q]
    BY <1>0, <2>2, NotFlushed DEF SameView
  <2>4. micro[r] = micro[q] /\ position[r] = position[q]
    BY <2>1, <2>3, SameBoundary
  <2>5. Passed(r)' = Passed(q)' /\ Window(r)' = Window(q)'
    BY <2>1, <2>2, <2>3, <2>4 DEF Passed, Window, NextPosition
  <2>6. Trained(r)' = Trained(q)'
    BY <2>1, <2>2, <2>3 DEF Trained, Updated
  <2>7. /\ Rolled(r)' = Rolled(q)' /\ Taught(r)' = Taught(q)'
        /\ Averaged(r)' = Averaged(q)'
    BY <2>2 DEF Rolled, Taught, Averaged
  <2>8. QED
    BY <2>5, <2>6, <2>7 DEF SameView
<1>4. CASE EmaUpdateSharded
  <2>1. /\ pc[r] = "ema" /\ pc[q] = "ema" /\ Sharded /\ Ema
        /\ pc'[r] = "end" /\ pc'[q] = "end"
        /\ UNCHANGED <<step, micro, position, student, draw, life>>
    BY <1>0, <1>4, Places DEF EmaUpdateSharded, Meet, Place
  <2>2. /\ Flushed(r) <=> Boundary(r)
        /\ Flushed(q) <=> Boundary(q)
        /\ Flushed(r)' <=> Boundary(r)
        /\ Flushed(q)' <=> Boundary(q)
    BY <2>1 DEF Flushed, Boundary
  <2>3. Averaged(r) = Averaged(q)
    BY <1>0, <2>1 DEF SameView
  <2>4. Boundary(r) <=> Boundary(q)
    BY <1>0, <2>1, <2>2, <2>3 DEF Averaged, One
  <2>5. Averaged(r)' = Averaged(q)'
    BY <1>0, <2>1, <2>2, <2>3, <2>4 DEF Averaged, One
  <2>6. /\ Passed(r)' = Passed(r) /\ Passed(q)' = Passed(q)
        /\ Window(r)' = Window(r) /\ Window(q)' = Window(q)
        /\ Trained(r)' = Trained(r) /\ Trained(q)' = Trained(q)
        /\ Rolled(r)' = Rolled(r) /\ Rolled(q)' = Rolled(q)
        /\ Taught(r)' = Taught(r) /\ Taught(q)' = Taught(q)
    BY <2>1, <2>2 DEF Passed, Window, Trained, Updated, NextPosition, Rolled,
                      Taught, One
  <2>7. Rolls(r)' <=> Rolls(r)
    BY <2>1, <2>6 DEF Rolls
  <2>8. QED
    BY <1>0, <2>5, <2>6, <2>7 DEF SameView
<1>5. QED
  BY <1>1, <1>2, <1>3, <1>4 DEF Collective

-----------------------------------------------------------------------------
(* What a rank knows by itself stays true.                                 *)

Known(r) == Place(r) /\ Answered(r) /\ Losses(r)

LEMMA StillKnown ==
    ASSUME NEW r \in Ranks, Known(r), pc'[r] = pc[r], step'[r] = step[r],
           student'[r] = student[r], response'[r] = response[r],
           gradient'[r] = gradient[r], draw' = draw, Flushed(r)' <=> Flushed(r)
    PROVE  Known(r)'
<1>1. Source(r)' = Source(r)
  BY DEF Source
<1>2. \A x : Fits(r, x)' <=> Fits(r, x)
  BY <1>1 DEF Fits
<1>3. Place(r)'
  BY DEF Known, Place
<1>4. Answered(r)'
  BY <1>1 DEF Known, Answered, Fits
<1>5. Losses(r)'
  BY <1>1 DEF Known, Losses, Fits
<1>6. QED
  BY <1>3, <1>4, <1>5 DEF Known

(* A rank that goes on within its micro-batch or to the next one of the    *)
(* same step. *)
LEMMA KnownWithin ==
    ASSUME NEW r \in Ranks, Known(r), step'[r] = step[r],
           student'[r] = student[r], draw' = draw, gradient'[r] = gradient[r],
           pc'[r] \in {"sync", "requests"} => draw[step[r]],
           pc'[r] = "ema" => Ema,
           pc'[r] = "forward" => Fits(r, response'[r]),
           Flushed(r)' => Flushed(r)
    PROVE  Known(r)'
<1>1. Source(r)' = Source(r)
  BY DEF Source
<1>2. Place(r)'
  BY DEF Known, Place
<1>3. Answered(r)'
  BY <1>1 DEF Known, Answered, Fits
<1>4. Losses(r)'
  BY <1>1 DEF Known, Losses, Fits
<1>5. QED
  BY <1>2, <1>3, <1>4 DEF Known

(* The loss of a response that fits. *)
LEMMA KnownForward ==
    ASSUME NEW r \in Ranks, Known(r), pc[r] = "forward", pc'[r] = "backward",
           step'[r] = step[r], student'[r] = student[r], draw' = draw,
           gradient'[r] = gradient[r] \cup {Loss(r)}
    PROVE  Known(r)'
<1>1. Source(r)' = Source(r)
  BY DEF Source
<1>2. Fits(r, Loss(r)) /\ Loss(r).student = student[r]
  BY DEF Known, Answered, Fits, Loss
<1>3. Losses(r)'
  <2>1. \A loss \in gradient'[r] : Fits(r, loss) /\ loss.student = student[r]
    BY <1>2 DEF Known, Losses
  <2>2. QED
    BY <1>1, <2>1 DEF Losses, Fits, Flushed
<1>4. QED
  BY <1>3 DEF Known, Place, Answered

LEMMA RankKnown ==
    ASSUME TypeOK, OverOK, NEW r \in Ranks, Known(r), RankStep(r)
    PROVE  Known(r)'
<1> USE DEF Goto, At, loopVars, engineVars, lifeVars
<1>1. CASE ChooseSource(r)
  <2>1. /\ pc[r] = "batch" /\ response'[r] = Dataset
        /\ UNCHANGED <<step, micro, position, student, draw, gradient>>
    BY <1>1 DEF ChooseSource, TypeOK
  <2>2. pc'[r] \in {"sync", "failed", "forward"}
    <3>1. \E l \in {"sync", "failed", "forward"} : pc' = [pc EXCEPT ![r] = l]
      BY <1>1, Zenon DEF ChooseSource
    <3>2. QED
      BY <3>1 DEF TypeOK
  <2>3. draw[step[r]] => pc'[r] # "forward"
    <3>1. OnPolicy(r) => pc' = [pc EXCEPT ![r] = IF UseVllm THEN "sync" ELSE "failed"]
      BY <1>1, Zenon DEF ChooseSource
    <3>2. QED
      BY <3>1 DEF TypeOK, OnPolicy
  <2>4. ~draw[step[r]] => pc'[r] # "sync"
    <3>1. ~OnPolicy(r) => pc' = [pc EXCEPT ![r] = IF SeqKd THEN "failed" ELSE "forward"]
      BY <1>1, Zenon DEF ChooseSource
    <3>2. QED
      BY <3>1 DEF TypeOK, OnPolicy
  <2>5. pc'[r] = "forward" => Fits(r, response'[r])
    BY <2>1, <2>3 DEF Fits, Source, Dataset
  <2>6. ~Flushed(r)'
    BY <2>2 DEF Flushed
  <2>7. QED
    BY <2>1, <2>2, <2>4, <2>5, <2>6, KnownWithin
<1>2. CASE Sync(r)
  <2>1. pc[r] = "sync" /\ pc'[r] = "requests"
    BY <1>2 DEF Sync, TypeOK
  <2>2. QED
    BY <1>2, <2>1, KnownWithin DEF Sync, Flushed, Known, Place
<1>3. CASE Forward(r)
  <2>1. pc'[r] = "backward" /\ gradient'[r] = gradient[r] \cup {Loss(r)}
    BY <1>3 DEF Forward, TypeOK
  <2>2. QED
    BY <1>3, <2>1, KnownForward DEF Forward
<1>4. CASE Backward(r)
  <2>1. pc'[r] = AfterBackward /\ ~Flushed(r)'
    BY <1>4 DEF Backward, TypeOK, Flushed, Boundary
  <2>2. QED
    BY <1>4, <2>1, KnownWithin DEF Backward, AfterBackward
<1>5. CASE EmaUpdate(r)
  <2>1. pc[r] = "ema" /\ pc'[r] = "end"
    BY <1>5 DEF EmaUpdate, TypeOK
  <2>2. Flushed(r)' => Flushed(r)
    BY <1>5, <2>1 DEF EmaUpdate, Flushed, Boundary
  <2>3. QED
    BY <1>5, <2>1, <2>2, KnownWithin DEF EmaUpdate
<1>6. CASE Accumulate(r)
  <2>1. pc'[r] = "batch" /\ ~Flushed(r)'
    BY <1>6 DEF Accumulate, TypeOK, Flushed
  <2>2. QED
    BY <1>6, <2>1, KnownWithin DEF Accumulate
<1>7. CASE OptimizerStep(r)
  <2>1. /\ pc[r] = "end" /\ Boundary(r) /\ pc'[r] \in {"over", "batch"}
        /\ micro'[r] = 0 /\ gradient'[r] = gradient[r]
    BY <1>7 DEF OptimizerStep, TypeOK
  <2>2. gradient'[r] = {}
    BY <2>1 DEF Known, Losses, Flushed
  <2>3. QED
    BY <2>1, <2>2 DEF Known, Place, Answered, Losses
<1>8. QED
  BY <1>1, <1>2, <1>3, <1>4, <1>5, <1>6, <1>7 DEF RankStep

(* In the collectives; the answers of a rollout are the student's, whose   *)
(* weights the engine holds. *)
LEMMA CollectiveKnown ==
    ASSUME TypeOK, IInv, Collective, NEW r \in Ranks
    PROVE  Known(r)'
<1> USE DEF loopVars, engineVars, lifeVars
<1>0. Known(r) /\ Main \in Ranks /\ SameView(r, Main)
  BY ConstantTypes DEF IInv, Known
<1>1. CASE Rollout
  <2>1. /\ pc[r] = "requests" /\ pc[Main] = "requests" /\ pc'[r] = "forward"
        /\ response'[r] = Student(engine)
        /\ UNCHANGED <<step, micro, position, student, draw, gradient>>
    BY <1>0, <1>1, Places DEF Rollout, Meet
  <2>2. ~Flushed(r) /\ ~Flushed(Main) /\ ~Flushed(r)'
    BY <2>1 DEF Flushed
  <2>3. engine = student[Main]
    BY <2>1, <2>2 DEF IInv, EngineLoaded
  <2>4. student[Main] = student[r]
    BY <1>0, <2>2, NotFlushed DEF SameView
  <2>5. Fits(r, response'[r])
    BY <1>0, <2>1, <2>3, <2>4 DEF Known, Place, Fits, Source, Student
  <2>6. QED
    BY <1>0, <2>1, <2>2, <2>5, KnownWithin
<1>2. CASE ForwardSharded
  <2>1. /\ pc[r] = "forward" /\ pc'[r] = "backward"
        /\ gradient'[r] = gradient[r] \cup {Loss(r)}
        /\ UNCHANGED <<step, student, draw>>
    BY <1>2, Places DEF ForwardSharded, Meet
  <2>2. QED
    BY <1>0, <2>1, KnownForward
<1>3. CASE Reduce
  <2>1. /\ pc'[r] = AfterBackward /\ gradient'[r] = {}
    BY <1>3 DEF Reduce
  <2>2. QED
    BY <2>1 DEF Known, Place, Answered, Losses, AfterBackward
<1>4. CASE EmaUpdateSharded
  <2>1. /\ pc[r] = "ema" /\ pc'[r] = "end"
        /\ UNCHANGED <<step, micro, position, student, draw, gradient>>
    BY <1>4, Places DEF EmaUpdateSharded, Meet
  <2>2. Flushed(r)' => Flushed(r)
    BY <2>1 DEF Flushed, Boundary
  <2>3. QED
    BY <1>0, <2>1, <2>2, KnownWithin
<1>5. QED
  BY <1>1, <1>2, <1>3, <1>4 DEF Collective

-----------------------------------------------------------------------------
(* The engine.                                                             *)

LEMMA EngineKept ==
    ASSUME Main \in Ranks, EngineLoaded, engine' = engine,
           lastLoaded'[Main] = lastLoaded[Main], step'[Main] = step[Main],
           student'[Main] = student[Main], Flushed(Main) => Flushed(Main)',
           pc'[Main] = "requests" => pc[Main] = "requests"
    PROVE  EngineLoaded'
  BY DEF EngineLoaded

LEMMA MainKeepsEngine ==
    ASSUME TypeOK, OverOK, EngineLoaded, RankStep(Main)
    PROVE  EngineLoaded'
<1> USE DEF Goto, At, loopVars, engineVars, lifeVars
<1>0. Main \in Ranks /\ step[Main] \in 0..MaxSteps /\ lastLoaded[Main] \in -1..MaxSteps
  BY ConstantTypes, RankTypes
<1>1. CASE ChooseSource(Main)
  <2>1. pc[Main] = "batch" /\ pc'[Main] \in {"sync", "failed", "forward"}
    <3>1. \E l \in {"sync", "failed", "forward"} : pc' = [pc EXCEPT ![Main] = l]
      BY <1>1, Zenon DEF ChooseSource
    <3>2. QED
      BY <1>0, <1>1, <3>1 DEF ChooseSource, TypeOK
  <2>2. QED
    BY <1>0, <1>1, <2>1, EngineKept DEF ChooseSource, Flushed
<1>2. CASE Sync(Main)
  <2>1. /\ pc[Main] = "sync" /\ pc'[Main] = "requests" /\ ~Flushed(Main)
        /\ UNCHANGED <<step, student>>
    BY <1>0, <1>2 DEF Sync, TypeOK, Flushed
  <2>2. CASE NeedsWeights(Main)
    <3>1. lastLoaded'[Main] = step[Main] /\ engine' = student[Main]
      BY <1>0, <1>2, <2>2 DEF Sync, TypeOK
    <3>2. QED
      BY <1>0, <2>1, <3>1 DEF EngineLoaded
  <2>3. CASE ~NeedsWeights(Main)
    <3>1. lastLoaded[Main] = step[Main] /\ UNCHANGED <<lastLoaded, engine>>
      BY <1>2, <2>3 DEF Sync, NeedsWeights
    <3>2. QED
      BY <2>1, <3>1 DEF EngineLoaded
  <2>4. QED
    BY <2>2, <2>3
<1>3. CASE Forward(Main)
  <2>1. pc[Main] = "forward" /\ pc'[Main] = "backward"
    BY <1>0, <1>3 DEF Forward, TypeOK
  <2>2. QED
    BY <1>0, <1>3, <2>1, EngineKept DEF Forward, Flushed
<1>4. CASE Backward(Main)
  <2>1. pc[Main] = "backward" /\ pc'[Main] = AfterBackward
    BY <1>0, <1>4 DEF Backward, TypeOK
  <2>2. QED
    BY <1>0, <1>4, <2>1, EngineKept DEF Backward, Flushed, AfterBackward
<1>5. CASE EmaUpdate(Main)
  <2>1. pc'[Main] = "end"
    BY <1>0, <1>5 DEF EmaUpdate, TypeOK
  <2>2. Flushed(Main) => Flushed(Main)'
    BY <1>5, <2>1 DEF EmaUpdate, Flushed, Boundary
  <2>3. QED
    BY <1>0, <1>5, <2>1, <2>2, EngineKept DEF EmaUpdate
<1>6. CASE Accumulate(Main)
  <2>1. pc'[Main] = "batch" /\ ~Flushed(Main)
    BY <1>0, <1>6 DEF Accumulate, TypeOK, Flushed
  <2>2. QED
    BY <1>0, <1>6, <2>1, EngineKept DEF Accumulate
<1>7. CASE OptimizerStep(Main)
  <2>1. /\ step'[Main] = step[Main] + 1 /\ lastLoaded'[Main] = lastLoaded[Main]
        /\ pc'[Main] \in {"over", "batch"}
    BY <1>0, <1>7 DEF OptimizerStep, TypeOK
  <2>2. lastLoaded'[Main] < step'[Main]
    BY <1>0, <2>1 DEF EngineLoaded
  <2>3. lastLoaded'[Main] <= step'[Main] /\ lastLoaded'[Main] # step'[Main]
    BY <1>0, <2>1, <2>2
  <2>4. QED
    BY <2>1, <2>3 DEF EngineLoaded
<1>8. QED
  BY <1>1, <1>2, <1>3, <1>4, <1>5, <1>6, <1>7 DEF RankStep

LEMMA RankKeepsEngine ==
    ASSUME TypeOK, OverOK, EngineLoaded, NEW r \in Ranks, RankStep(r)
    PROVE  EngineLoaded'
<1>1. CASE r = Main
  BY <1>1, MainKeepsEngine
<1>2. CASE r # Main
  <2>1. engine' = engine
    BY <1>2 DEF RankStep, ChooseSource, Sync, Forward, Backward, EmaUpdate,
       Accumulate, OptimizerStep, engineVars
  <2>2. QED
    BY <1>2, <2>1, ConstantTypes, OthersKeepView, EngineKept
<1>3. QED
  BY <1>1, <1>2

LEMMA CollectiveKeepsEngine ==
    ASSUME TypeOK, EngineLoaded, Collective
    PROVE  EngineLoaded'
<1> USE DEF loopVars, engineVars, lifeVars
<1>0. Main \in Ranks
  BY ConstantTypes
<1>1. CASE Rollout
  <2>1. pc[Main] = "requests" /\ pc'[Main] = "forward"
    BY <1>0, <1>1, Places DEF Rollout, Meet
  <2>2. QED
    BY <1>0, <1>1, <2>1, EngineKept DEF Rollout, Flushed
<1>2. CASE ForwardSharded
  <2>1. pc[Main] = "forward" /\ pc'[Main] = "backward"
    BY <1>0, <1>2, Places DEF ForwardSharded, Meet
  <2>2. QED
    BY <1>0, <1>2, <2>1, EngineKept DEF ForwardSharded, Flushed
<1>3. CASE Reduce
  <2>1. /\ Boundary(Main) /\ pc'[Main] = AfterBackward
        /\ UNCHANGED <<step, micro, position, lastLoaded>>
    BY <1>0, <1>3, Places DEF Reduce, Meet
  <2>2. Flushed(Main)' /\ pc'[Main] # "requests"
    BY <2>1 DEF Flushed, Boundary, AfterBackward
  <2>3. QED
    BY <2>1, <2>2 DEF EngineLoaded
<1>4. CASE EmaUpdateSharded
  <2>1. /\ pc'[Main] = "end" /\ UNCHANGED <<step, micro, position, student, lastLoaded, engine>>
    BY <1>0, <1>4 DEF EmaUpdateSharded
  <2>2. Flushed(Main) => Flushed(Main)'
    BY <2>1 DEF Flushed, Boundary
  <2>3. QED
    BY <1>0, <2>1, <2>2, EngineKept
<1>5. QED
  BY <1>1, <1>2, <1>3, <1>4 DEF Collective

-----------------------------------------------------------------------------
(* The invariant.                                                          *)

(* At the start of a life all ranks are alike. *)
LEMMA Fresh ==
    ASSUME NEW l \in {"batch", "over"}, NEW s \in 0..MaxSteps, NEW p, NEW w,
           \A r \in Ranks : /\ pc[r] = l /\ step[r] = s /\ micro[r] = 0
                            /\ position[r] = p /\ student[r] = w
                            /\ gradient[r] = {} /\ lastLoaded[r] = -1
    PROVE  IInv
<1>1. \A r \in Ranks : ~Flushed(r)
  BY DEF Flushed
<1>2. \A r \in Ranks : Place(r) /\ Answered(r) /\ Losses(r)
  BY <1>1 DEF Place, Answered, Losses
<1>3. \A r, q \in Ranks : SameView(r, q)
  BY <1>1 DEF SameView, Passed, Window, Trained, Rolls, Rolled, Taught, Averaged
<1>4. EngineLoaded
  <2>1. lastLoaded[Main] = -1 /\ step[Main] = s /\ pc[Main] # "requests"
    BY ConstantTypes
  <2>2. QED
    BY <2>1, ConstantTypes DEF EngineLoaded
<1>5. QED
  BY <1>2, <1>3, <1>4 DEF IInv

LEMMA InitIInv == Init => IInv
<1> SUFFICES ASSUME Init PROVE IInv
  OBVIOUS
<1>1. 0 \in 0..MaxSteps
  BY ConstantTypes
<1>2. QED
  BY <1>1, Fresh DEF Init

LEMMA ResumeIInv == TypeOK /\ Resume => IInv'
<1> SUFFICES ASSUME TypeOK, Resume PROVE IInv'
  OBVIOUS
<1> DEFINE l == IF checkpoint.step = MaxSteps THEN "over" ELSE "batch"
           s == checkpoint.step
           p == checkpoint.position
           w == checkpoint.student
<1>1. l \in {"batch", "over"} /\ s \in 0..MaxSteps
  BY DEF TypeOK
<1>2. \A r \in Ranks : /\ pc'[r] = l /\ step'[r] = s /\ micro'[r] = 0
                       /\ position'[r] = p /\ student'[r] = w
                       /\ gradient'[r] = {} /\ lastLoaded'[r] = -1
  BY DEF Resume
<1> HIDE DEF l, s, p, w
<1>3. \A r \in Ranks : ~Flushed(r)'
  BY <1>1, <1>2 DEF Flushed
<1>4. \A r \in Ranks : Place(r)' /\ Answered(r)' /\ Losses(r)'
  BY <1>1, <1>2, <1>3 DEF Place, Answered, Losses
<1>5. \A r, q \in Ranks : SameView(r, q)'
  BY <1>1, <1>2, <1>3
     DEF SameView, Passed, Window, Trained, Rolls, Rolled, Taught, Averaged
<1>6. EngineLoaded'
  <2>1. lastLoaded'[Main] = -1 /\ step'[Main] = s /\ pc'[Main] # "requests"
    BY <1>1, <1>2, ConstantTypes
  <2>2. QED
    BY <1>1, <2>1, ConstantTypes DEF EngineLoaded
<1>7. QED
  BY <1>4, <1>5, <1>6 DEF IInv

LEMMA StepIInv == TypeOK /\ OverOK /\ IInv /\ [Next]_vars => IInv'
<1> SUFFICES ASSUME TypeOK, OverOK, IInv, [Next]_vars PROVE IInv'
  OBVIOUS
<1>1. ASSUME NEW r \in Ranks, RankStep(r) PROVE IInv'
  <2>1. ASSUME NEW q \in Ranks PROVE ViewKept(q)
    BY <1>1, <2>1, RankKeepsView, OthersKeepView DEF IInv
  <2>2. ASSUME NEW q \in Ranks PROVE Known(q)'
    <3>1. Known(q)
      BY <2>2 DEF IInv, Known
    <3>2. CASE q = r
      BY <1>1, <3>1, <3>2, RankKnown
    <3>3. CASE q # r
      <4>1. draw' = draw
        BY <1>1 DEF RankStep, ChooseSource, Sync, Forward, Backward, EmaUpdate,
           Accumulate, OptimizerStep, lifeVars
      <4>2. QED
        BY <1>1, <2>2, <3>1, <3>3, <4>1, OthersKeepView, StillKnown
    <3>4. QED
      BY <3>2, <3>3
  <2>3. ASSUME NEW q \in Ranks, NEW t \in Ranks PROVE SameView(q, t)'
    BY <2>1, <2>3, ViewsKept DEF IInv
  <2>4. EngineLoaded'
    BY <1>1, RankKeepsEngine DEF IInv
  <2>5. QED
    BY <2>2, <2>3, <2>4 DEF IInv, Known
<1>2. CASE Collective
  <2>1. EngineLoaded'
    BY <1>2, CollectiveKeepsEngine DEF IInv
  <2>2. QED
    BY <1>2, <2>1, CollectiveKnown, CollectiveKeepsSameView DEF IInv, Known
<1>3. CASE Resume
  BY <1>3, ResumeIInv
<1>4. CASE UNCHANGED vars
  <2>1. UNCHANGED <<pc, step, micro, position, draw, student, lastLoaded,
                    engine, response, gradient, life>>
    BY <1>4 DEF vars, loopVars, engineVars, lifeVars
  <2>2. \A q \in Ranks : ViewKept(q) /\ (Flushed(q)' <=> Flushed(q))
    BY <2>1, Unmoved
  <2>3. \A q \in Ranks : Known(q)'
    BY <2>1, <2>2, StillKnown DEF IInv, Known
  <2>4. \A q, t \in Ranks : SameView(q, t)'
    BY <2>2, ViewsKept DEF IInv
  <2>5. EngineLoaded'
    BY <2>1, <2>2, ConstantTypes, EngineKept DEF IInv
  <2>6. QED
    BY <2>3, <2>4, <2>5 DEF IInv, Known
<1>5. QED
  BY <1>1, <1>2, <1>3, <1>4 DEF Next

(* The induction that both theorems below rest on. *)
LEMMA Inductive == Spec => [](TypeOK /\ OverOK /\ IInv)
<1>1. Init => TypeOK /\ OverOK /\ IInv
  BY InitType, InitOver, InitIInv
<1>2. (TypeOK /\ OverOK /\ IInv) /\ [Next]_vars => (TypeOK /\ OverOK /\ IInv)'
  BY StepType, StepOver, StepIInv
<1>3. QED
  BY <1>1, <1>2, PTL DEF Spec

(* Ranks that wait in a collective wait in the same one, for any number of *)
(* ranks, steps and micro-batches and any draw of the on-policy steps. *)
THEOREM AlignedAlways == Spec => []Aligned
<1>1. TypeOK /\ OverOK /\ IInv => Aligned
  BY AllAligned
<1>2. QED
  BY <1>1, Inductive, PTL

LEMMA OfOneStudent == TypeOK /\ OverOK /\ IInv => OneGradient
<1> SUFFICES ASSUME TypeOK, OverOK, IInv, Meet("gradients")
             PROVE  \E w \in {student[r] : r \in Ranks}, source \in Sources :
                        \A r \in Ranks : \A loss \in gradient[r] :
                            /\ loss.student = w
                            /\ loss.source = source
                            /\ source = "student" => loss.by = w
  BY DEF OneGradient
<1>1. ASSUME NEW r \in Ranks
      PROVE  student[r] = student[Main] /\ Source(r) = Source(Main)
  <2>1. ~Flushed(r) /\ ~Flushed(Main)
    BY <1>1, ConstantTypes, Places DEF Meet, Flushed
  <2>2. SameView(r, Main)
    BY <1>1, ConstantTypes DEF IInv
  <2>3. step[r] = step[Main] /\ student[r] = student[Main]
    BY <2>1, <2>2, ConstantTypes, NotFlushed DEF SameView
  <2>4. QED
    BY <2>3 DEF Source
<1>2. ASSUME NEW r \in Ranks, NEW loss \in gradient[r]
      PROVE  /\ loss.student = student[Main]
             /\ loss.source = Source(Main)
             /\ Source(Main) = "student" => loss.by = student[Main]
  BY <1>1, <1>2 DEF IInv, Losses, Fits
<1>3. student[Main] \in {student[r] : r \in Ranks} /\ Source(Main) \in Sources
  BY ConstantTypes DEF Source, Sources
<1>4. QED
  BY <1>2, <1>3

(* What the ranks reduce into one gradient is the loss of one student on   *)
(* responses of one source, the student's own if that source is the        *)
(* student: also over restarts, with the draws of _get_random_num and the  *)
(* loading of the engine at _last_loaded_step as they are. *)
THEOREM OneGradientAlways == Spec => []OneGradient
<1>1. TypeOK /\ OverOK /\ IInv => OneGradient
  BY OfOneStudent
<1>2. QED
  BY <1>1, Inductive, PTL

-----------------------------------------------------------------------------
(* The teacher that ranks with the same view have.                         *)

(* What n averages of the student s make of the teacher b. *)
Smoothed(b, s, n) == IF Ema /\ SameNames THEN b \o [k \in 1..n |-> s] ELSE b

LEMMA Repeated ==
    ASSUME NEW s \in Weights, NEW n \in Nat
    PROVE  LET c == [k \in 1..n |-> s]
           IN  c \in Seq(Weights) /\ Len(c) = n /\ \A k \in 1..n : c[k] = s
  OBVIOUS

LEMMA SmoothedNone ==
    ASSUME NEW b \in Seq(Weights), NEW s
    PROVE  Smoothed(b, s, 0) = b
<1>1. [k \in 1..0 |-> s] = <<>>
  OBVIOUS
<1>2. b \o <<>> = b
  BY ConcatEmptySeq
<1>3. QED
  BY <1>1, <1>2 DEF Smoothed

LEMMA SmoothedOnce ==
    ASSUME NEW b \in Seq(Weights), NEW s \in Weights, NEW n \in Nat, Ema, SameNames
    PROVE  Append(Smoothed(b, s, n), s) = Smoothed(b, s, n + 1)
<1> DEFINE c == [k \in 1..n |-> s]
           m == n + 1
           d == [k \in 1..m |-> s]
<1>0. m \in Nat
  OBVIOUS
<1> HIDE DEF m
<1>1. c \in Seq(Weights) /\ Len(c) = n /\ \A k \in 1..n : c[k] = s
  BY Repeated
<1>2. d \in Seq(Weights) /\ Len(d) = m /\ \A k \in 1..m : d[k] = s
  BY <1>0, Repeated
<1> HIDE DEF c, d
<1>3. /\ b \o c \in Seq(Weights) /\ Len(b \o c) = Len(b) + n
      /\ \A k \in 1..Len(b) + n : (b \o c)[k] = IF k <= Len(b) THEN b[k] ELSE c[k - Len(b)]
  BY <1>1, ConcatProperties
<1>4. /\ b \o d \in Seq(Weights) /\ Len(b \o d) = Len(b) + m
      /\ \A k \in 1..Len(b) + m :
            (b \o d)[k] = IF k <= Len(b) THEN b[k] ELSE d[k - Len(b)]
  BY <1>2, ConcatProperties
<1> DEFINE u == Append(b \o c, s)
           v == b \o d
           l == Len(b)
<1>5. /\ u \in Seq(Weights) /\ Len(u) = Len(b \o c) + 1
      /\ \A k \in 1..Len(b \o c) : u[k] = (b \o c)[k]
      /\ u[Len(b \o c) + 1] = s
  BY <1>3, AppendProperties
<1>6. l \in Nat /\ m = n + 1
  BY LenProperties DEF m
<1>7. Len(u) = (l + n) + 1 /\ Len(v) = l + m
  BY <1>3, <1>4, <1>5
<1>8. ASSUME NEW k \in 1..(l + n) + 1
      PROVE  u[k] = v[k]
  <2> HIDE DEF u, v
  <2>1. CASE k <= l
    <3>1. u[k] = (b \o c)[k] /\ (b \o c)[k] = b[k] /\ v[k] = b[k]
      BY <1>3, <1>4, <1>5, <1>6, <2>1, SMTT(30) DEF l, v
    <3>2. QED
      BY <3>1
  <2>2. CASE k > l
    <3>1. k - l \in 1..m /\ ~(k <= l) /\ k \in 1..l + m
      BY <1>6, <2>2
    <3>2. v[k] = s
      BY <1>2, <1>4, <3>1 DEF l, v
    <3>3. CASE k = (l + n) + 1
      BY <1>3, <1>5, <3>2, <3>3 DEF l
    <3>4. CASE k # (l + n) + 1
      <4>1. k \in 1..l + n /\ k - l \in 1..n
        BY <1>6, <2>2, <3>4
      <4>2. u[k] = (b \o c)[k] /\ (b \o c)[k] = c[k - l]
        BY <1>3, <1>5, <3>1, <4>1 DEF l
      <4>3. QED
        BY <1>1, <3>2, <4>1, <4>2
    <3>5. QED
      BY <3>3, <3>4
  <2>3. QED
    BY <1>6, <2>1, <2>2
<1>9. u = v
  <2> HIDE DEF u, v
  <2>1. v \in Seq(Weights) /\ Len(u) = Len(v)
    BY <1>4, <1>6, <1>7 DEF v
  <2>2. \A k \in 1..Len(u) : u[k] = v[k]
    BY <1>7, <1>8
  <2>3. u \in Seq(Weights)
    BY <1>5
  <2>4. QED
    BY <2>1, <2>2, <2>3, SeqEqual
<1>10. QED
  BY <1>9 DEF Smoothed, u, v, c, d, m

(* How often the teacher has moved in the window that the view begins. *)
Averages(r) == IF Flushed(r) THEN 0 ELSE micro[r] + One(pc[r] = "end")

(* Rank r began the window with the teacher b, and each loss it holds is    *)
(* of the teacher that its micro-batch comes to. *)
TaughtBy(r, b) ==
    /\ pc[r] = "ema" /\ Flushed(r) => Average(r) = b
    /\ ~(pc[r] = "ema" /\ Flushed(r)) =>
            teacher[r] = Smoothed(b, student[r], Averages(r))
    /\ \A loss \in gradient[r] : loss.teacher = Smoothed(b, student[r], loss.micro)

TeacherInv == \E b \in Seq(Weights) : \A r \in Ranks : TaughtBy(r, b)

LEMMA AverageSmoothed ==
    ASSUME NEW b \in Seq(Weights), NEW r \in Ranks, NEW n \in Nat, Ema,
           student[r] \in Weights, teacher[r] = Smoothed(b, student[r], n)
    PROVE  Average(r) = Smoothed(b, student[r], n + 1)
<1>1. CASE SameNames
  BY <1>1, SmoothedOnce DEF Average
<1>2. CASE ~SameNames
  BY <1>2 DEF Average, Smoothed
<1>3. QED
  BY <1>1, <1>2

(* Nothing of this changes: steps of other ranks, and steps of this one    *)
(* that move neither teacher nor micro-batch. *)
LEMMA StillTaught ==
    ASSUME NEW r \in Ranks, NEW b, TaughtBy(r, b), UNCHANGED <<teacher[r], student[r]>>,
           gradient'[r] \subseteq gradient[r],
           (pc[r] = "ema" /\ Flushed(r)) <=> (pc'[r] = "ema" /\ Flushed(r)'),
           Averages(r)' = Averages(r)
    PROVE  TaughtBy(r, b)'
BY DEF TaughtBy, Average

LEMMA ForwardTaught ==
    ASSUME TypeOK, NEW r \in Ranks, NEW b, TaughtBy(r, b), pc[r] = "forward",
           gradient'[r] = gradient[r] \cup {Loss(r)}, pc'[r] = "backward",
           UNCHANGED <<teacher[r], student[r], micro[r]>>
    PROVE  TaughtBy(r, b)'
<1>1. ~Flushed(r) /\ ~Flushed(r)'
  BY DEF Flushed
<1>2. micro[r] \in Nat
  BY RankTypes, ConstantTypes
<1>3. Averages(r) = micro[r] /\ Averages(r)' = micro[r]
  BY <1>1, <1>2 DEF Averages, One
<1>4. teacher[r] = Smoothed(b, student[r], micro[r])
  BY <1>1, <1>3 DEF TaughtBy
<1>5. Loss(r).teacher = teacher[r] /\ Loss(r).micro = micro[r]
  BY DEF Loss
<1>6. QED
  BY <1>1, <1>3, <1>4, <1>5 DEF TaughtBy

LEMMA SameAppended ==
    ASSUME NEW S, NEW s \in Seq(S), NEW t \in Seq(S), NEW e \in S,
           Append(s, e) = Append(t, e)
    PROVE  s = t
<1> DEFINE u == Append(s, e)
           m == Len(s)
           n == Len(t)
<1>1. /\ Len(u) = m + 1 /\ \A k \in 1..m : u[k] = s[k]
  BY AppendProperties
<1>2. /\ Len(u) = n + 1 /\ \A k \in 1..n : u[k] = t[k]
  BY AppendProperties
<1>3. m \in Nat /\ n \in Nat
  BY LenProperties
<1> HIDE DEF u
<1>4. m = n
  <2> HIDE DEF m, n
  <2>1. QED
    BY <1>1, <1>2, <1>3
<1>5. \A k \in 1..Len(s) : s[k] = t[k]
  BY <1>1, <1>2, <1>4
<1>6. Len(s) = Len(t)
  BY <1>4
<1>7. QED
  BY <1>5, <1>6, SeqEqual

LEMMA RankTaught ==
    ASSUME TypeOK, OverOK, NEW r \in Ranks, Known(r), RankStep(r),
           NEW b \in Seq(Weights), TaughtBy(r, b)
    PROVE  TaughtBy(r, b)'
<1> USE DEF Goto, At, loopVars, engineVars, lifeVars
<1>0. micro[r] \in Nat /\ student[r] \in Weights
  BY RankTypes, ConstantTypes
<1>1. CASE ChooseSource(r)
  <2>1. pc[r] = "batch" /\ pc'[r] \in {"sync", "failed", "forward"}
    <3>1. \E l \in {"sync", "failed", "forward"} : pc' = [pc EXCEPT ![r] = l]
      BY <1>1, Zenon DEF ChooseSource
    <3>2. QED
      BY <1>1, <3>1 DEF TypeOK, ChooseSource
  <2>2. ~Flushed(r) /\ ~Flushed(r)' /\ Averages(r)' = Averages(r)
    BY <1>1, <2>1 DEF Flushed, Averages, One, ChooseSource
  <2>3. QED
    BY <1>1, <2>1, <2>2, StillTaught DEF ChooseSource
<1>2. CASE Sync(r)
  <2>1. pc[r] = "sync" /\ pc'[r] = "requests"
    BY <1>2 DEF Sync, TypeOK
  <2>2. ~Flushed(r) /\ ~Flushed(r)' /\ Averages(r)' = Averages(r)
    BY <1>2, <2>1 DEF Flushed, Averages, One, Sync
  <2>3. QED
    BY <1>2, <2>1, <2>2, StillTaught DEF Sync
<1>3. CASE Forward(r)
  <2>1. /\ pc[r] = "forward" /\ pc'[r] = "backward"
        /\ gradient'[r] = gradient[r] \cup {Loss(r)}
    BY <1>3 DEF Forward, TypeOK
  <2>2. QED
    BY <1>3, <2>1, ForwardTaught DEF Forward
<1>4. CASE Backward(r)
  <2>1. /\ pc[r] = "backward" /\ pc'[r] = AfterBackward /\ ~Boundary(r)
        /\ ~Flushed(r) /\ ~Flushed(r)'
    BY <1>4 DEF Backward, TypeOK, Flushed, Boundary
  <2>2. CASE Ema
    <3>1. Averages(r)' = Averages(r)
      BY <1>4, <2>1, <2>2 DEF Averages, One, AfterBackward, Backward
    <3>2. QED
      BY <1>4, <2>1, <3>1, StillTaught DEF Backward
  <2>3. CASE ~Ema
    BY <1>4, <2>1, <2>3 DEF Backward, TaughtBy, Smoothed
  <2>4. QED
    BY <2>2, <2>3
<1>5. CASE EmaUpdate(r)
  <2>1. /\ pc[r] = "ema" /\ pc'[r] = "end" /\ teacher'[r] = Average(r) /\ Ema
        /\ (Flushed(r)' <=> Flushed(r))
        /\ UNCHANGED <<micro, student, gradient>>
    BY <1>5 DEF EmaUpdate, TypeOK, Known, Place, Flushed, Boundary
  <2>2. teacher'[r] = Smoothed(b, student[r], Averages(r)')
    <3>1. CASE Flushed(r)
      <4>1. Averages(r)' = 0 /\ teacher'[r] = b
        BY <2>1, <3>1 DEF Averages, TaughtBy
      <4>2. QED
        BY <4>1, SmoothedNone
    <3>2. CASE ~Flushed(r)
      <4>1. Averages(r) = micro[r] /\ Averages(r)' = micro[r] + 1
        BY <1>0, <2>1, <3>2 DEF Averages, One
      <4>2. teacher[r] = Smoothed(b, student[r], micro[r])
        BY <3>2, <4>1 DEF TaughtBy
      <4>3. QED
        BY <1>0, <2>1, <4>1, <4>2, AverageSmoothed
    <3>3. QED
      BY <3>1, <3>2
  <2>3. \A loss \in gradient'[r] : loss.teacher = Smoothed(b, student[r], loss.micro)
    BY <2>1 DEF TaughtBy
  <2>4. student'[r] = student[r] /\ pc'[r] # "ema"
    BY <2>1
  <2>5. QED
    BY <2>2, <2>3, <2>4 DEF TaughtBy
<1>6. CASE Accumulate(r)
  <2>1. /\ pc[r] = "end" /\ pc'[r] = "batch" /\ micro'[r] = micro[r] + 1
        /\ ~Flushed(r) /\ ~Flushed(r)'
        /\ UNCHANGED <<teacher, student, gradient>>
    BY <1>6 DEF Accumulate, TypeOK, Flushed
  <2>2. Averages(r)' = Averages(r)
    BY <1>0, <2>1 DEF Averages, One
  <2>3. QED
    BY <2>1, <2>2, StillTaught
<1>7. CASE OptimizerStep(r)
  <2>1. /\ pc[r] = "end" /\ Flushed(r) /\ pc'[r] \in {"over", "batch"}
        /\ micro'[r] = 0 /\ UNCHANGED <<teacher, gradient>>
    BY <1>7 DEF OptimizerStep, TypeOK, Flushed
  <2>2. teacher[r] = b
    <3>1. Averages(r) = 0
      BY <2>1 DEF Averages
    <3>2. QED
      BY <2>1, <3>1, SmoothedNone DEF TaughtBy
  <2>3. gradient'[r] = {}
    BY <2>1 DEF Known, Losses
  <2>4. ~Flushed(r)' /\ Averages(r)' = 0 /\ pc'[r] # "ema"
    BY <2>1 DEF Flushed, Averages, One
  <2>5. teacher'[r] = Smoothed(b, student'[r], 0)
    BY <2>1, <2>2, SmoothedNone
  <2>6. QED
    BY <2>3, <2>4, <2>5 DEF TaughtBy
<1>8. QED
  BY <1>1, <1>2, <1>3, <1>4, <1>5, <1>6, <1>7 DEF RankStep

(* The other ranks. *)
LEMMA OthersTaught ==
    ASSUME TypeOK, NEW r \in Ranks, NEW q \in Ranks, q # r, RankStep(r),
           NEW b \in Seq(Weights), TaughtBy(q, b)
    PROVE  TaughtBy(q, b)'
<1>1. /\ pc'[q] = pc[q] /\ student'[q] = student[q] /\ micro'[q] = micro[q]
      /\ gradient'[q] = gradient[q] /\ (Flushed(q)' <=> Flushed(q))
  BY OthersKeepView
<1>2. teacher'[q] = teacher[q]
  BY DEF RankStep, ChooseSource, Sync, Forward, Backward, EmaUpdate,
         Accumulate, OptimizerStep, TypeOK
<1>3. Averages(q)' = Averages(q)
  BY <1>1 DEF Averages
<1>4. QED
  BY <1>1, <1>2, <1>3, StillTaught

(* Ranks that wait for the average are as far in the window, and have the  *)
(* same student. *)
LEMMA SameAverage ==
    ASSUME TypeOK, IInv, Meet("average"), NEW r \in Ranks, NEW q \in Ranks
    PROVE  /\ pc[r] = "ema" /\ Sharded /\ Ema
           /\ Flushed(r) <=> Flushed(q)
           /\ student[r] = student[q]
           /\ ~Flushed(r) => micro[r] = micro[q]
<1>1. /\ pc[r] = "ema" /\ pc[q] = "ema" /\ Sharded /\ Ema
  BY Places DEF Meet, IInv, Place
<1>2. micro[r] \in Nat /\ micro[q] \in Nat
  BY RankTypes, ConstantTypes
<1>3. SameView(r, q)
  BY DEF IInv
<1>4. Averaged(r) = Averaged(q)
  BY <1>1, <1>3 DEF SameView
<1>5. /\ Averaged(r) = IF Flushed(r) THEN -1 ELSE micro[r]
      /\ Averaged(q) = IF Flushed(q) THEN -1 ELSE micro[q]
  BY <1>1, <1>2 DEF Averaged, One
<1>6. Flushed(r) <=> Flushed(q)
  <2>1. micro[r] # -1 /\ micro[q] # -1
    BY <1>2
  <2>2. QED
    BY <1>4, <1>5, <2>1, Zenon
<1>7. ~Flushed(r) => micro[r] = micro[q]
  BY <1>2, <1>4, <1>5, <1>6
<1>8. student[r] = student[q]
  <2>1. Trained(r) = Trained(q)
    BY <1>3 DEF SameView
  <2>2. CASE Flushed(r) /\ ~DeepSpeed
    <3>1. Append(student[r], life) = Append(student[q], life)
      BY <1>6, <2>1, <2>2 DEF Trained, Updated
    <3>2. student[r] \in Seq(0..MaxLives) /\ student[q] \in Seq(0..MaxLives)
      BY RankTypes DEF Weights
    <3>3. life \in 0..MaxLives
      BY ConstantTypes DEF TypeOK
    <3>4. QED
      BY <3>1, <3>2, <3>3, SameAppended
  <2>3. CASE ~(Flushed(r) /\ ~DeepSpeed)
    BY <1>6, <2>1, <2>3 DEF Trained
  <2>4. QED
    BY <2>2, <2>3
<1>9. QED
  BY <1>1, <1>6, <1>7, <1>8

(* With equal views, the main process's teacher is everybody's. *)
LEMMA CollectiveTaught ==
    ASSUME TypeOK, IInv, Collective, TeacherInv
    PROVE  TeacherInv'
<1> USE DEF loopVars, engineVars, lifeVars
<1>0. /\ Main \in Ranks
      /\ \A r \in Ranks : micro[r] \in Nat /\ student[r] \in Weights
                          /\ teacher[r] \in Seq(Weights)
  BY RankTypes, ConstantTypes
<1>1. PICK b \in Seq(Weights) : \A r \in Ranks : TaughtBy(r, b)
  BY DEF TeacherInv
<1>2. CASE Rollout
  <2>1. ASSUME NEW r \in Ranks
        PROVE  TaughtBy(r, b)'
    <3>1. pc[r] = "requests" /\ pc'[r] = "forward"
      BY <1>2, Places DEF Rollout, Meet
    <3>2. ~Flushed(r) /\ ~Flushed(r)' /\ Averages(r)' = Averages(r)
      BY <1>2, <3>1 DEF Flushed, Averages, One, Rollout
    <3>3. QED
      BY <1>1, <1>2, <3>1, <3>2, StillTaught DEF Rollout
  <2>2. QED
    BY <2>1 DEF TeacherInv
<1>3. CASE ForwardSharded
  <2>1. ASSUME NEW r \in Ranks
        PROVE  TaughtBy(r, b)'
    <3>1. pc[r] = "forward" /\ pc'[r] = "backward"
      BY <1>3, Places DEF ForwardSharded, Meet
    <3>2. gradient'[r] = gradient[r] \cup {Loss(r)}
      BY <1>3 DEF ForwardSharded
    <3>3. QED
      BY <1>1, <1>3, <3>1, <3>2, ForwardTaught DEF ForwardSharded
  <2>2. QED
    BY <2>1 DEF TeacherInv
<1>4. CASE Reduce
  <2>1. ASSUME NEW r \in Ranks
        PROVE  /\ Flushed(r)' /\ gradient'[r] = {}
               /\ pc'[r] = AfterBackward
               /\ teacher'[r] = teacher[Main] /\ student'[r] = student'[Main]
               /\ student'[r] \in Weights
    <3>1. /\ pc[r] = "backward" /\ pc[Main] = "backward"
          /\ Boundary(r) /\ Boundary(Main)
      BY <1>0, <1>4, Places DEF Reduce, Meet
    <3>2. /\ pc'[r] = AfterBackward /\ gradient'[r] = {}
          /\ UNCHANGED <<micro, position, teacher, life>>
          /\ student' = IF DeepSpeed THEN [q \in Ranks |-> Updated(student[q])]
                                     ELSE student
      BY <1>4 DEF Reduce
    <3>3. ~Flushed(r) /\ ~Flushed(Main) /\ Flushed(r)'
      BY <3>1, <3>2 DEF Flushed, Boundary, AfterBackward
    <3>4. /\ student[r] = student[Main]
          /\ position[r] - micro[r] = position[Main] - micro[Main]
      BY <1>0, <3>3, NotFlushed DEF IInv, SameView
    <3>5. micro[r] = micro[Main]
      BY <1>0, <3>1, <3>4, SameBoundary
    <3>6. /\ teacher[r] = Smoothed(b, student[r], micro[r])
          /\ teacher[Main] = Smoothed(b, student[Main], micro[Main])
      <4>1. Averages(r) = micro[r] /\ Averages(Main) = micro[Main]
        BY <1>0, <3>1, <3>3 DEF Averages, One
      <4>2. QED
        BY <1>0, <1>1, <3>1, <4>1 DEF TaughtBy
    <3>7. teacher'[r] = teacher[Main]
      BY <3>2, <3>4, <3>5, <3>6
    <3>8. student'[r] = student'[Main] /\ student'[r] \in Weights
      BY <1>0, <3>2, <3>4, UpdatedType
    <3>9. QED
      BY <3>2, <3>3, <3>7, <3>8
  <2>2. CASE ~Ema
    <3>1. PICK c \in Seq(Weights) : c = teacher[Main]
      BY <1>0
    <3>2. ASSUME NEW r \in Ranks
          PROVE  TaughtBy(r, c)'
      <4>1. /\ pc'[r] = "end" /\ teacher'[r] = c /\ gradient'[r] = {}
        BY <2>1, <2>2, <3>1 DEF AfterBackward
      <4>2. QED
        BY <2>2, <4>1 DEF TaughtBy, Smoothed
    <3>3. QED
      BY <3>2 DEF TeacherInv
  <2>3. CASE Ema
    <3> DEFINE c == IF SameNames THEN Append(teacher[Main], student'[Main])
                    ELSE teacher[Main]
    <3>1. c \in Seq(Weights)
      BY <1>0, <2>1, AppendProperties
    <3>2. ASSUME NEW r \in Ranks
          PROVE  /\ pc'[r] = "ema" /\ Flushed(r)' /\ gradient'[r] = {}
                 /\ Average(r)' = c
      BY <2>1, <2>3 DEF AfterBackward, Average
    <3>3. PICK d \in Seq(Weights) : d = c
      BY <3>1
    <3>4. \A r \in Ranks : TaughtBy(r, d)'
      <4> HIDE DEF c
      <4>1. QED
        BY <3>2, <3>3 DEF TaughtBy
    <3>5. QED
      BY <3>4 DEF TeacherInv
  <2>4. QED
    BY <2>2, <2>3
<1>5. CASE EmaUpdateSharded
  <2>1. ASSUME NEW r \in Ranks
        PROVE  TaughtBy(r, b)'
    <3>1. /\ pc[r] = "ema" /\ pc[Main] = "ema" /\ Ema
          /\ Flushed(r) <=> Flushed(Main)
          /\ student[r] = student[Main]
          /\ ~Flushed(r) => micro[r] = micro[Main]
      BY <1>0, <1>5, SameAverage DEF EmaUpdateSharded
    <3>2. /\ pc'[r] = "end" /\ teacher'[r] = Average(Main)
          /\ UNCHANGED <<micro, position, student, gradient>>
      BY <1>5 DEF EmaUpdateSharded
    <3>3. Flushed(r)' <=> Flushed(r)
      BY <3>1, <3>2 DEF Flushed, Boundary
    <3>4. Average(Main) = Smoothed(b, student[r], Averages(r)')
      <4>1. CASE Flushed(r)
        <5>1. Averages(r)' = 0 /\ Average(Main) = b
          BY <1>0, <1>1, <3>1, <3>3, <4>1 DEF Averages, TaughtBy
        <5>2. QED
          BY <5>1, SmoothedNone
      <4>2. CASE ~Flushed(r)
        <5>1. /\ Averages(Main) = micro[Main] /\ micro[Main] = micro[r]
              /\ Averages(r)' = micro[r] + 1
          BY <1>0, <3>1, <3>2, <3>3, <4>2 DEF Averages, One
        <5>2. teacher[Main] = Smoothed(b, student[Main], micro[Main])
          BY <1>0, <1>1, <3>1, <4>2, <5>1 DEF TaughtBy
        <5>3. Average(Main) = Smoothed(b, student[Main], micro[Main] + 1)
          BY <1>0, <3>1, <5>2, AverageSmoothed
        <5>4. QED
          BY <3>1, <5>1, <5>3
      <4>3. QED
        BY <4>1, <4>2
    <3>5. \A loss \in gradient'[r] : loss.teacher = Smoothed(b, student[r], loss.micro)
      BY <1>1, <3>2 DEF TaughtBy
    <3>6. student'[r] = student[r] /\ pc'[r] # "ema"
      BY <3>2
    <3>7. QED
      BY <3>2, <3>4, <3>5, <3>6 DEF TaughtBy
  <2>2. QED
    BY <2>1 DEF TeacherInv
<1>6. QED
  BY <1>2, <1>3, <1>4, <1>5 DEF Collective

LEMMA InitTaught == Init => TeacherInv
<1> SUFFICES ASSUME Init PROVE TeacherInv
  OBVIOUS
<1>1. <<>> \in Seq(Weights)
  BY EmptySeq
<1>2. ASSUME NEW r \in Ranks PROVE TaughtBy(r, <<>>)
  <2>1. /\ pc[r] = "batch" /\ micro[r] = 0 /\ gradient[r] = {}
        /\ teacher[r] = <<>> /\ student[r] = <<>>
    BY <1>2 DEF Init
  <2>2. ~Flushed(r) /\ Averages(r) = 0
    BY <2>1 DEF Flushed, Averages, One
  <2>3. Smoothed(<<>>, student[r], 0) = <<>>
    BY <1>1, SmoothedNone
  <2>4. QED
    BY <2>1, <2>2, <2>3 DEF TaughtBy
<1>3. QED
  BY <1>1, <1>2 DEF TeacherInv

LEMMA ResumeTaught == Resume => TeacherInv'
<1> SUFFICES ASSUME Resume PROVE TeacherInv'
  OBVIOUS
<1>1. <<>> \in Seq(Weights)
  BY EmptySeq
<1>2. ASSUME NEW r \in Ranks PROVE TaughtBy(r, <<>>)'
  <2>1. /\ pc'[r] \in {"over", "batch"} /\ micro'[r] = 0 /\ gradient'[r] = {}
        /\ teacher'[r] = <<>>
    BY <1>2 DEF Resume
  <2>2. ~Flushed(r)' /\ Averages(r)' = 0 /\ pc'[r] # "ema"
    BY <2>1 DEF Flushed, Averages, One
  <2>3. Smoothed(<<>>, student'[r], 0) = <<>>
    BY <1>1, SmoothedNone
  <2>4. QED
    BY <2>1, <2>2, <2>3 DEF TaughtBy
<1>3. QED
  BY <1>1, <1>2 DEF TeacherInv

LEMMA StepTaught ==
    TypeOK /\ OverOK /\ IInv /\ TeacherInv /\ [Next]_vars => TeacherInv'
<1> SUFFICES ASSUME TypeOK, OverOK, IInv, TeacherInv, [Next]_vars
             PROVE  TeacherInv'
  OBVIOUS
<1>1. ASSUME NEW r \in Ranks, RankStep(r) PROVE TeacherInv'
  <2>1. PICK b \in Seq(Weights) : \A q \in Ranks : TaughtBy(q, b)
    BY DEF TeacherInv
  <2>2. ASSUME NEW q \in Ranks PROVE TaughtBy(q, b)'
    <3>1. Known(r)
      BY <1>1 DEF IInv, Known
    <3>2. QED
      BY <1>1, <2>1, <2>2, <3>1, RankTaught, OthersTaught
  <2>3. QED
    BY <2>2 DEF TeacherInv
<1>2. CASE Collective
  BY <1>2, CollectiveTaught
<1>3. CASE Resume
  BY <1>3, ResumeTaught
<1>4. CASE UNCHANGED vars
  BY <1>4 DEF vars, loopVars, engineVars, lifeVars, TeacherInv, TaughtBy,
     Average, Averages, Flushed, Boundary
<1>5. QED
  BY <1>1, <1>2, <1>3, <1>4 DEF Next

LEMMA OneTeacher == TypeOK /\ IInv /\ TeacherInv => SameTeacher
<1> SUFFICES ASSUME TypeOK, IInv, TeacherInv, NEW r \in Ranks, NEW q \in Ranks,
                    NEW a \in gradient[r], NEW c \in gradient[q],
                    step[r] = step[q], a.micro = c.micro
             PROVE  a.teacher = c.teacher
  BY DEF SameTeacher
<1>1. PICK b \in Seq(Weights) : TaughtBy(r, b) /\ TaughtBy(q, b)
  BY DEF TeacherInv
<1>2. ~Flushed(r) /\ ~Flushed(q)
  BY DEF IInv, Losses
<1>3. student[r] = student[q]
  BY <1>2, NotFlushed DEF IInv, SameView
<1>4. QED
  BY <1>1, <1>3 DEF TaughtBy

(* All ranks are taught by the same teacher in each micro-batch, although  *)
(* each may keep a copy of it, which moves after every micro-batch, and    *)
(* ranks may be a window apart: with and without sharding, parameter names *)
(* in common, or a restart.                                                *)
THEOREM SameTeacherAlways == Spec => []SameTeacher
<1> DEFINE All == TypeOK /\ OverOK /\ IInv
<1>1. Init => TeacherInv
  BY InitTaught
<1>2. All /\ TeacherInv /\ [Next]_vars => TeacherInv'
  BY StepTaught
<1>3. All /\ TeacherInv => SameTeacher
  BY OneTeacher
<1>4. Spec => []All
  BY Inductive
<1> HIDE DEF All
<1>5. QED
  BY <1>1, <1>2, <1>3, <1>4, PTL DEF Spec

-----------------------------------------------------------------------------
(* What the teacher has averaged.                                          *)

(* The students that rank r's teacher has averaged, the past of a student, *)
(* and the students between the first and this one.                        *)
Seen(r) == {teacher[r][k] : k \in DOMAIN teacher[r]}
Pasts(w) == {SubSeq(w, 1, n) : n \in 0..Len(w)}
Between(w) == {SubSeq(w, 1, n) : n \in 1..Len(w) - 1}

LEMMA PastOfItself ==
    ASSUME NEW w \in Weights
    PROVE  w \in Pasts(w)
<1>1. w \in Seq(0..MaxLives)
  BY DEF Weights
<1>2. SubSeq(w, 1, Len(w)) = w /\ Len(w) \in 0..Len(w)
  BY <1>1, SubSeqFull, LenProperties
<1>3. QED
  BY <1>2 DEF Pasts

LEMMA PastOfAppend ==
    ASSUME NEW w \in Weights, NEW e \in 0..MaxLives, NEW n \in 0..Len(w)
    PROVE  SubSeq(Append(w, e), 1, n) = SubSeq(w, 1, n)
<1> DEFINE l == Len(w)
           u == Append(w, e)
           a == SubSeq(u, 1, n)
           b == SubSeq(w, 1, n)
           S == 0..MaxLives
<1>1. w \in Seq(S) /\ l \in Nat /\ n \in Nat /\ n <= l
  BY LenProperties DEF Weights
<1>2. /\ u \in Seq(S) /\ Len(u) = l + 1 /\ \A k \in 1..l : u[k] = w[k]
  BY <1>1, AppendProperties
<1> HIDE DEF l, u, S
<1>3. \A k \in 1..n : u[k] \in S /\ w[k] \in S /\ u[k] = w[k]
  <2>1. \A k \in 1..n : k \in 1..l /\ k \in 1..Len(u)
    BY <1>1, <1>2
  <2>2. QED
    BY <1>1, <1>2, <2>1, ElementOfSeq DEF l
<1>4. /\ a \in Seq(S) /\ Len(a) = IF 1 <= n THEN n - 1 + 1 ELSE 0
      /\ \A k \in 1..n - 1 + 1 : a[k] = u[1 + k - 1]
  BY <1>1, <1>2, <1>3, SubSeqProperties
<1>5. /\ b \in Seq(S) /\ Len(b) = IF 1 <= n THEN n - 1 + 1 ELSE 0
      /\ \A k \in 1..n - 1 + 1 : b[k] = w[1 + k - 1]
  BY <1>1, <1>3, SubSeqProperties
<1> HIDE DEF a, b
<1>6. Len(a) = n /\ Len(b) = n /\ \A k \in 1..n : a[k] = b[k]
  BY <1>1, <1>3, <1>4, <1>5
<1>7. QED
  BY <1>4, <1>5, <1>6, SeqEqual DEF a, b, u

LEMMA PastsGrow ==
    ASSUME NEW w \in Weights, NEW e \in 0..MaxLives
    PROVE  /\ Pasts(w) \subseteq Pasts(Append(w, e))
           /\ Between(Append(w, e)) \subseteq Between(w) \cup (IF w = <<>> THEN {} ELSE {w})
<1> DEFINE l == Len(w)
           u == Append(w, e)
<1>1. l \in Nat /\ Len(u) = l + 1
  <2>1. w \in Seq(0..MaxLives)
    BY DEF Weights
  <2>2. QED
    BY <2>1, LenProperties, AppendProperties
<1>2. \A n \in 0..l : SubSeq(u, 1, n) = SubSeq(w, 1, n)
  BY PastOfAppend
<1>3. SubSeq(w, 1, l) = w
  <2>1. w \in Seq(0..MaxLives)
    BY DEF Weights
  <2>2. QED
    BY <2>1, SubSeqFull
<1>4. l = 0 <=> w = <<>>
  <2>1. w \in Seq(0..MaxLives)
    BY DEF Weights
  <2>2. QED
    BY <2>1, EmptySeq
<1> HIDE DEF l, u
<1>5. \A n \in 0..l : n \in 0..l + 1
  BY <1>1
<1>6. Pasts(w) \subseteq Pasts(u)
  BY <1>1, <1>2, <1>5 DEF Pasts, l
<1>7. ASSUME NEW x \in Between(u)
      PROVE  x \in Between(w) \cup (IF w = <<>> THEN {} ELSE {w})
  <2>1. PICK n \in 1..l : x = SubSeq(w, 1, n)
    <3>1. PICK n \in 1..(l + 1) - 1 : x = SubSeq(u, 1, n)
      BY <1>1, <1>7 DEF Between
    <3>2. n \in 1..l /\ n \in 0..l
      BY <1>1
    <3>3. QED
      BY <1>2, <3>1, <3>2
  <2>2. w # <<>>
    BY <1>1, <1>4, <2>1
  <2>3. CASE n = l
    BY <1>3, <2>1, <2>2, <2>3
  <2>4. CASE n # l
    <3>1. n \in 1..l - 1
      BY <1>1, <2>4
    <3>2. QED
      BY <2>1, <3>1 DEF Between, l
  <2>5. QED
    BY <2>3, <2>4
<1>8. QED
  BY <1>6, <1>7 DEF u

(* A student is replaced only after the teacher has averaged it: before    *)
(* the optimizer steps outside of training_step, and with DeepSpeed from   *)
(* the average after its reduction on.                                     *)
PastInv(r) ==
    /\ Seen(r) \subseteq Pasts(student[r])
    /\ Between(student[r]) \subseteq Seen(r)
    /\ pc[r] = "end" => student[r] \in Seen(r)
    /\ DeepSpeed /\ student[r] # <<>> =>
            student[r] \in Seen(r) \/ (pc[r] = "ema" /\ Flushed(r))

PastsInv == life = 1 => \A r \in Ranks : PastInv(r)

LEMMA SeenAverage ==
    ASSUME TypeOK, NEW r \in Ranks, SameNames, teacher'[r] = Append(teacher[r], student[r])
    PROVE  Seen(r)' = Seen(r) \cup {student[r]}
<1> DEFINE t == teacher[r]
           n == Len(t)
           u == Append(t, student[r])
<1>1. t \in Seq(Weights) /\ student[r] \in Weights
  BY RankTypes
<1>2. n \in Nat /\ DOMAIN t = 1..n
  BY <1>1, LenProperties
<1>3. /\ u \in Seq(Weights) /\ Len(u) = n + 1
      /\ \A k \in 1..n : u[k] = t[k]
      /\ u[n + 1] = student[r]
  BY <1>1, AppendProperties
<1>4. DOMAIN u = 1..Len(u)
  BY <1>3, LenProperties
<1> HIDE DEF n, u, t
<1>5. DOMAIN u = 1..n + 1
  BY <1>3, <1>4
<1>6. Seen(r) = {t[k] : k \in 1..n}
  BY <1>2 DEF Seen, t
<1>7. Seen(r)' = {u[k] : k \in 1..n + 1}
  BY <1>5 DEF Seen, u, t
<1>8. {u[k] : k \in 1..n + 1} = {t[k] : k \in 1..n} \cup {student[r]}
  <2>1. \A k \in 1..n + 1 : k \in 1..n \/ k = n + 1
    BY <1>2
  <2>2. n + 1 \in 1..n + 1 /\ \A k \in 1..n : k \in 1..n + 1
    BY <1>2
  <2>3. ASSUME NEW x \in {u[k] : k \in 1..n + 1}
        PROVE  x \in {t[k] : k \in 1..n} \cup {student[r]}
    BY <1>3, <2>1, <2>3
  <2>4. ASSUME NEW x \in {t[k] : k \in 1..n} \cup {student[r]}
        PROVE  x \in {u[k] : k \in 1..n + 1}
    <3>1. CASE x = student[r]
      BY <1>3, <2>2, <3>1
    <3>2. CASE x # student[r]
      <4>1. PICK k \in 1..n : x = t[k]
        BY <2>4, <3>2
      <4>2. QED
        BY <1>3, <2>2, <4>1
    <3>3. QED
      BY <3>1, <3>2
  <2>5. QED
    BY <2>3, <2>4
<1>9. QED
  BY <1>6, <1>7, <1>8

(* The three ways in which an action may concern rank r.                   *)
LEMMA PastKept ==
    ASSUME NEW r \in Ranks, PastInv(r), UNCHANGED <<teacher[r], student[r]>>,
           pc'[r] = "end" => pc[r] = "end",
           pc[r] = "ema" /\ Flushed(r) => pc'[r] = "ema" /\ Flushed(r)'
    PROVE  PastInv(r)'
<1>1. Seen(r)' = Seen(r)
  BY DEF Seen
<1>2. QED
  BY <1>1 DEF PastInv

LEMMA PastAveraged ==
    ASSUME TypeOK, NEW r \in Ranks, SameNames, PastInv(r),
           teacher'[r] = Append(teacher[r], student[r]), student'[r] = student[r]
    PROVE  PastInv(r)'
<1>1. Seen(r)' = Seen(r) \cup {student[r]}
  BY SeenAverage
<1>2. student[r] \in Pasts(student[r])
  BY RankTypes, PastOfItself
<1>3. QED
  BY <1>1, <1>2 DEF PastInv

LEMMA PastTrained ==
    ASSUME TypeOK, NEW r \in Ranks, PastInv(r), teacher'[r] = teacher[r],
           student'[r] = Updated(student[r]),
           student[r] # <<>> => student[r] \in Seen(r),
           pc'[r] # "end", DeepSpeed => pc'[r] = "ema" /\ Flushed(r)'
    PROVE  PastInv(r)'
<1>1. Seen(r)' = Seen(r)
  BY DEF Seen
<1>2. life \in 0..MaxLives /\ student[r] \in Weights
  BY RankTypes, ConstantTypes DEF TypeOK
<1>3. /\ Pasts(student[r]) \subseteq Pasts(Updated(student[r]))
      /\ Between(Updated(student[r])) \subseteq
            Between(student[r]) \cup (IF student[r] = <<>> THEN {} ELSE {student[r]})
  BY <1>2, PastsGrow DEF Updated
<1>4. Seen(r)' \subseteq Pasts(student'[r])
  BY <1>1, <1>3 DEF PastInv
<1>5. Between(student'[r]) \subseteq Seen(r)'
  BY <1>1, <1>3 DEF PastInv
<1>6. QED
  BY <1>4, <1>5 DEF PastInv

LEMMA RankPast ==
    ASSUME TypeOK, NEW r \in Ranks, Place(r), RankStep(r), Ema, SameNames, PastInv(r)
    PROVE  PastInv(r)'
<1> USE DEF Goto, At, loopVars, engineVars, lifeVars
<1>1. CASE ChooseSource(r)
  <2>1. pc[r] = "batch" /\ pc'[r] \in {"sync", "failed", "forward"}
    <3>1. \E l \in {"sync", "failed", "forward"} : pc' = [pc EXCEPT ![r] = l]
      BY <1>1, Zenon DEF ChooseSource
    <3>2. QED
      BY <1>1, <3>1 DEF TypeOK, ChooseSource
  <2>2. QED
    BY <1>1, <2>1, PastKept DEF ChooseSource
<1>2. CASE Sync(r)
  <2>1. pc[r] = "sync" /\ pc'[r] = "requests"
    BY <1>2 DEF Sync, TypeOK
  <2>2. QED
    BY <1>2, <2>1, PastKept DEF Sync
<1>3. CASE Forward(r)
  <2>1. pc[r] = "forward" /\ pc'[r] = "backward"
    BY <1>3 DEF Forward, TypeOK
  <2>2. QED
    BY <1>3, <2>1, PastKept DEF Forward
<1>4. CASE Backward(r)
  <2>1. pc[r] = "backward" /\ pc'[r] = "ema"
    BY <1>4 DEF Backward, TypeOK, AfterBackward
  <2>2. QED
    BY <1>4, <2>1, PastKept DEF Backward
<1>5. CASE EmaUpdate(r)
  <2>1. teacher'[r] = Append(teacher[r], student[r])
    BY <1>5 DEF EmaUpdate, TypeOK, Average
  <2>2. QED
    BY <1>5, <2>1, PastAveraged DEF EmaUpdate
<1>6. CASE Accumulate(r)
  <2>1. pc[r] = "end" /\ pc'[r] = "batch"
    BY <1>6 DEF Accumulate, TypeOK
  <2>2. QED
    BY <1>6, <2>1, PastKept DEF Accumulate
<1>7. CASE OptimizerStep(r)
  <2>1. /\ pc[r] = "end" /\ pc'[r] \in {"over", "batch"} /\ teacher'[r] = teacher[r]
        /\ student'[r] = IF DeepSpeed THEN student[r] ELSE Updated(student[r])
    BY <1>7 DEF OptimizerStep, TypeOK
  <2>2. student[r] \in Seen(r)
    BY <2>1 DEF PastInv
  <2>3. CASE DeepSpeed
    BY <2>1, <2>3, PastKept
  <2>4. CASE ~DeepSpeed
    BY <2>1, <2>2, <2>4, PastTrained
  <2>5. QED
    BY <2>3, <2>4
<1>8. QED
  BY <1>1, <1>2, <1>3, <1>4, <1>5, <1>6, <1>7 DEF RankStep

LEMMA OthersPast ==
    ASSUME TypeOK, NEW r \in Ranks, NEW q \in Ranks, q # r, RankStep(r), PastInv(q)
    PROVE  PastInv(q)'
<1>1. /\ pc'[q] = pc[q] /\ student'[q] = student[q] /\ (Flushed(q)' <=> Flushed(q))
  BY OthersKeepView
<1>2. teacher'[q] = teacher[q]
  BY DEF RankStep, ChooseSource, Sync, Forward, Backward, EmaUpdate,
         Accumulate, OptimizerStep, TypeOK
<1>3. QED
  BY <1>1, <1>2, PastKept

(* The teacher that the main process writes into every rank's partition is *)
(* what the rank's own average would have been.                            *)
LEMMA CollectivePast ==
    ASSUME TypeOK, IInv, Collective, Ema, SameNames, NEW r \in Ranks, PastInv(r),
           Sharded => teacher[r] = teacher[Main]
    PROVE  PastInv(r)'
<1> USE DEF loopVars, engineVars, lifeVars
<1>1. CASE Rollout
  <2>1. pc[r] = "requests" /\ pc'[r] = "forward"
    BY <1>1, Places DEF Rollout, Meet
  <2>2. QED
    BY <1>1, <2>1, PastKept DEF Rollout
<1>2. CASE ForwardSharded
  <2>1. pc[r] = "forward" /\ pc'[r] = "backward"
    BY <1>2, Places DEF ForwardSharded, Meet
  <2>2. QED
    BY <1>2, <2>1, PastKept DEF ForwardSharded
<1>3. CASE Reduce
  <2>1. /\ pc[r] = "backward" /\ Boundary(r) /\ pc'[r] = "ema"
        /\ teacher'[r] = teacher[r]
        /\ student'[r] = IF DeepSpeed THEN Updated(student[r]) ELSE student[r]
        /\ UNCHANGED <<micro, position>>
    BY <1>3, Places DEF Reduce, Meet, AfterBackward
  <2>2. Flushed(r)'
    BY <2>1 DEF Flushed, Boundary
  <2>3. CASE DeepSpeed
    <3>1. student[r] # <<>> => student[r] \in Seen(r)
      BY <2>1, <2>3 DEF PastInv
    <3>2. QED
      BY <2>1, <2>2, <2>3, <3>1, PastTrained
  <2>4. CASE ~DeepSpeed
    BY <2>1, <2>4, PastKept
  <2>5. QED
    BY <2>3, <2>4
<1>4. CASE EmaUpdateSharded
  <2>1. Sharded /\ student[r] = student[Main]
    BY <1>4, SameAverage, ConstantTypes DEF EmaUpdateSharded
  <2>2. /\ teacher'[r] = Append(teacher[r], student[r])
        /\ student'[r] = student[r]
    BY <1>4, <2>1 DEF EmaUpdateSharded, Average
  <2>3. QED
    BY <2>2, PastAveraged
<1>5. QED
  BY <1>1, <1>2, <1>3, <1>4 DEF Collective

(* There is one teacher when it is sharded.                                *)
ShardedTeacher == Sharded => \A r \in Ranks : teacher[r] = teacher[Main]

LEMMA StepSharded == ShardedTeacher /\ [Next]_vars => ShardedTeacher'
<1> SUFFICES ASSUME ShardedTeacher, [Next]_vars, Sharded, NEW r \in Ranks
             PROVE  teacher'[r] = teacher'[Main]
  BY DEF ShardedTeacher
<1>1. teacher[r] = teacher[Main] /\ Main \in Ranks
  BY ConstantTypes DEF ShardedTeacher
<1>2. ASSUME NEW q \in Ranks, RankStep(q) PROVE teacher' = teacher
  BY <1>2 DEF RankStep, ChooseSource, Sync, Forward, Backward, EmaUpdate,
              Accumulate, OptimizerStep
<1>3. CASE Collective
  BY <1>1, <1>3 DEF Collective, Rollout, ForwardSharded, Reduce, EmaUpdateSharded
<1>4. CASE Resume
  BY <1>1, <1>4 DEF Resume
<1>5. CASE UNCHANGED vars
  BY <1>1, <1>5 DEF vars
<1>6. QED
  BY <1>1, <1>2, <1>3, <1>4, <1>5 DEF Next

LEMMA InitPasts == Init => PastsInv /\ ShardedTeacher
<1> SUFFICES ASSUME Init PROVE PastsInv /\ ShardedTeacher
  OBVIOUS
<1>1. ASSUME NEW r \in Ranks PROVE PastInv(r)
  <2>1. pc[r] = "batch" /\ teacher[r] = <<>> /\ student[r] = <<>>
    BY <1>1 DEF Init
  <2>2. Seen(r) = {}
    BY <2>1 DEF Seen
  <2>3. Between(<<>>) = {}
    BY DEF Between
  <2>4. QED
    BY <2>1, <2>2, <2>3 DEF PastInv
<1>2. ShardedTeacher
  BY ConstantTypes DEF Init, ShardedTeacher
<1>3. QED
  BY <1>1, <1>2 DEF PastsInv

LEMMA StepPasts ==
    ASSUME Ema, SameNames, TypeOK, IInv, PastsInv, ShardedTeacher, [Next]_vars
    PROVE  PastsInv'
<1>1. CASE Resume
  BY <1>1 DEF Resume, PastsInv, TypeOK
<1>2. ASSUME NEW r \in Ranks, RankStep(r) PROVE PastsInv'
  <2>1. life' = life /\ Place(r)
    BY <1>2 DEF RankStep, ChooseSource, Sync, Forward, Backward, EmaUpdate,
                Accumulate, OptimizerStep, lifeVars, IInv
  <2>2. ASSUME NEW q \in Ranks, PastInv(q) PROVE PastInv(q)'
    BY <1>2, <2>1, <2>2, RankPast, OthersPast
  <2>3. QED
    BY <2>1, <2>2 DEF PastsInv
<1>3. CASE Collective
  <2>1. life' = life
    BY <1>3 DEF Collective, Rollout, ForwardSharded, Reduce, EmaUpdateSharded, lifeVars
  <2>2. ASSUME NEW q \in Ranks, PastInv(q) PROVE PastInv(q)'
    BY <1>3, <2>2, CollectivePast DEF ShardedTeacher
  <2>3. QED
    BY <2>1, <2>2 DEF PastsInv
<1>4. CASE UNCHANGED vars
  BY <1>4 DEF vars, loopVars, lifeVars, PastsInv, PastInv, Seen, Flushed, Boundary
<1>5. QED
  BY <1>1, <1>2, <1>3, <1>4 DEF Next

LEMMA PastsAveraged == PastsInv => FirstTeacherAverages
<1> SUFFICES ASSUME life = 1, NEW r \in Ranks, PastInv(r)
             PROVE  /\ Seen(r) \subseteq {SubSeq(student[r], 1, n) : n \in 0..Len(student[r])}
                    /\ {SubSeq(student[r], 1, n) : n \in 1..Len(student[r]) - 1}
                         \subseteq Seen(r)
  BY DEF PastsInv, FirstTeacherAverages, TeacherAverages, Seen
<1>1. QED
  BY DEF PastInv, Pasts, Between

(* Until the training is killed for the first time, the teacher is an      *)
(* average of the student's past that leaves no step of it out: in both    *)
(* orders of optimizer and average, sharded or not, if the student's       *)
(* parameters have the names of the teacher's.                             *)
THEOREM FirstTeacherAveragesAlways ==
    ASSUME SameNames
    PROVE  Spec => []FirstTeacherAverages
<1>1. CASE ~Ema
  <2>1. FirstTeacherAverages
    BY <1>1 DEF FirstTeacherAverages, TeacherAverages
  <2>2. QED
    BY <2>1, PTL
<1>2. CASE Ema
  <2> DEFINE All == TypeOK /\ OverOK /\ IInv
             More == PastsInv /\ ShardedTeacher
  <2>1. Init => More
    BY InitPasts
  <2>2. All /\ More /\ [Next]_vars => More'
    BY <1>2, StepPasts, StepSharded
  <2>3. More => FirstTeacherAverages
    BY PastsAveraged
  <2>4. Spec => []All
    BY Inductive
  <2> HIDE DEF All, More
  <2>5. QED
    BY <2>1, <2>2, <2>3, <2>4, PTL DEF Spec
<1>3. QED
  BY <1>1, <1>2

-----------------------------------------------------------------------------
(* What the teacher is shown and told (TeacherHint).                       *)

\* zoom_in and adaptive: the middle of the target is always shown, however
\* near the border it is.
THEOREM CentreShown ==
    ASSUME NEW lo \in Nat, NEW hi \in Nat, NEW size \in Nat, NEW pad \in Nat,
           IsTarget(lo, hi, size), pad > 0
    PROVE  Shown(Centre(lo, hi), lo, hi, size, pad)
<1>1. Centre(lo, hi) \in Nat /\ lo <= Centre(lo, hi) /\ Centre(lo, hi) < hi
  BY DEF Centre, IsTarget
<1>2. QED
  BY <1>1 DEF Shown, From, To, AtLeast, AtMost, IsTarget

\* zoom_in: all of the target is shown if it is no larger than the region.
THEOREM ZoomShowsTarget ==
    ASSUME NEW lo \in Nat, NEW hi \in Nat, NEW size \in Nat,
           IsTarget(lo, hi, size), hi - lo <= 2 * ZoomPad(size)
    PROVE  \A p \in lo .. (hi - 1) : Shown(p, lo, hi, size, ZoomPad(size))
<1> DEFINE c == Centre(lo, hi)
           pad == ZoomPad(size)
<1>1. c \in Nat /\ 2 * c <= lo + hi /\ lo + hi <= 2 * c + 1
  BY DEF Centre
<1>2. pad \in Nat
  BY DEF ZoomPad
<1> HIDE DEF c, pad
<1>3. hi - lo <= 2 * pad
  BY DEF pad
<1>4. c - pad <= lo /\ hi <= c + pad
  BY <1>1, <1>2, <1>3
<1>5. \A p \in lo .. (hi - 1) : Shown(p, lo, hi, size, pad)
  BY <1>1, <1>2, <1>4 DEF Shown, From, To, AtLeast, AtMost, IsTarget, c
<1>6. QED
  BY <1>5 DEF pad

\* zoom_in: of a target that is larger, its first pixels are hidden.
THEOREM ZoomCutsLargeTarget ==
    ASSUME NEW lo \in Nat, NEW hi \in Nat, NEW size \in Nat,
           IsTarget(lo, hi, size), hi - lo > 2 * ZoomPad(size) + 1
    PROVE  ~Shown(lo, lo, hi, size, ZoomPad(size))
<1> DEFINE c == Centre(lo, hi)
           pad == ZoomPad(size)
<1>1. c \in Nat /\ lo + hi <= 2 * c + 1
  BY DEF Centre
<1>2. pad \in Nat
  BY DEF ZoomPad
<1> HIDE DEF c, pad
<1>3. hi - lo > 2 * pad + 1
  BY DEF pad
<1>4. c - pad > lo
  BY <1>1, <1>2, <1>3
<1>5. ~Shown(lo, lo, hi, size, pad)
  BY <1>1, <1>2, <1>4 DEF Shown, From, To, AtLeast, AtMost, c
<1>6. QED
  BY <1>5 DEF pad

\* adaptive: with a ratio of at least one, the target is shown whole.
THEOREM AdaptiveShowsTarget ==
    ASSUME NEW lo \in Nat, NEW hi \in Nat, NEW size \in Nat,
           NEW num \in Nat, NEW den \in Nat \ {0}, NEW minHalf \in Nat,
           IsTarget(lo, hi, size), num >= den
    PROVE  \A p \in lo .. (hi - 1) :
              Shown(p, lo, hi, size, AdaptivePad(lo, hi, num, den, minHalf))
<1> DEFINE c == Centre(lo, hi)
           w == hi - lo
           pad == AdaptivePad(lo, hi, num, den, minHalf)
<1>1. c \in Nat /\ lo <= c /\ c < hi
  BY DEF Centre, IsTarget
<1>2. w \in Nat
  BY DEF IsTarget
<1>3. (w * num) \div den \in Nat /\ (w * num) \div den >= w
  <2> HIDE DEF w
  <2>1. w * num \in Nat /\ w * den \in Nat /\ w * num >= w * den
    BY <1>2
  <2>2. QED
    BY <1>2, <2>1
<1>4. pad \in Nat /\ pad >= w
  BY <1>2, <1>3 DEF AdaptivePad, AtLeast
<1> HIDE DEF c, pad
<1>5. c - pad <= lo /\ hi <= c + pad
  BY <1>1, <1>4
<1>6. \A p \in lo .. (hi - 1) : Shown(p, lo, hi, size, pad)
  BY <1>1, <1>4, <1>5 DEF Shown, From, To, AtLeast, AtMost, IsTarget, c
<1>7. QED
  BY <1>6 DEF pad

\* adaptive: the region is twice minHalf wide, unless the border of the image
\* cuts it; it then keeps at least half of that.  In a corner, a quarter of
\* the area remains that opsd_min_area_frac asks for.
THEOREM RegionKeepsHalf ==
    ASSUME NEW lo \in Nat, NEW hi \in Nat, NEW size \in Nat, NEW pad \in Nat,
           IsTarget(lo, hi, size), pad <= size
    PROVE  /\ To(lo, hi, size, pad) - From(lo, hi, pad) >= pad
           /\ pad <= Centre(lo, hi) /\ Centre(lo, hi) + pad <= size
                 => To(lo, hi, size, pad) - From(lo, hi, pad) = 2 * pad
<1>1. Centre(lo, hi) \in Nat /\ Centre(lo, hi) < size
  BY DEF Centre, IsTarget
<1>2. QED
  BY <1>1 DEF From, To, AtLeast, AtMost

\* The frame surrounds the target and covers none of it.
THEOREM FrameOutsideTarget ==
    ASSUME NEW left \in Nat, NEW right \in Nat, NEW top \in Nat, NEW bottom \in Nat,
           NEW x \in left .. (right - 1), NEW y \in top .. (bottom - 1)
    PROVE  ~Framed(x, y, left, right, top, bottom)
  BY DEF Framed, InFrame, LineWidth

\* gt: the answer the teacher is told lies in the target, if that is at least
\* three thousandths of the image wide.  (Of a narrower one it may be beside it.)
THEOREM AnswerInTarget ==
    ASSUME NEW lo \in Nat, NEW hi \in Nat, NEW size \in Nat \ {0},
           NEW a \in Nat, NEW b \in Nat,
           IsTarget(lo, hi, size), (hi - lo) * 1000 >= 3 * size,
           IsThousandth(a, lo, size), IsThousandth(b, hi, size)
    PROVE  /\ lo * 1000 <= Answer(a, b) * size
           /\ Answer(a, b) * size <= hi * 1000
           /\ Answer(a, b) \in 0..1000
<1> DEFINE m == Answer(a, b)
<1>1. /\ a * size <= lo * 1000
      /\ lo * 1000 <= (a + 1) * size
      /\ b * size <= hi * 1000
      /\ hi * 1000 <= (b + 1) * size
  BY DEF IsThousandth
<1>2. m = (a + b) \div 2
  BY DEF Answer
<1>3. hi * 1000 <= size * 1000 /\ hi * 1000 - lo * 1000 >= 3 * size
  BY DEF IsTarget
<1> HIDE DEF m
<1>4. b >= a + 2
  <2>1. SUFFICES ASSUME b + 1 <= a + 2 PROVE FALSE
    OBVIOUS
  <2>2. (b + 1) * size <= (a + 2) * size
    BY <2>1
  <2>3. (a + 2) * size = a * size + 2 * size
    OBVIOUS
  <2>4. a * size \in Nat /\ (b + 1) * size \in Nat
    OBVIOUS
  <2>5. hi * 1000 <= lo * 1000 + 2 * size
    BY <1>1, <2>2, <2>3, <2>4
  <2>6. QED
    BY <1>3, <2>5
<1>5. m \in Nat /\ m >= a + 1 /\ m <= b
  BY <1>2, <1>4
<1>6. (a + 1) * size <= m * size /\ m * size <= b * size
  BY <1>5
<1>7. lo * 1000 <= m * size /\ m * size <= hi * 1000
  <2>1. m * size \in Nat /\ (a + 1) * size \in Nat /\ b * size \in Nat
    BY <1>5
  <2>2. QED
    BY <1>1, <1>6, <2>1
<1>8. m <= 1000
  <2>1. SUFFICES ASSUME b >= 1001 PROVE FALSE
    BY <1>5
  <2>2. b * size >= 1001 * size
    BY <2>1
  <2>3. b * size \in Nat
    OBVIOUS
  <2>4. b * size <= size * 1000
    BY <1>1, <1>3, <2>3
  <2>5. QED
    BY <2>2, <2>3, <2>4
<1>9. m \in 0..1000
  BY <1>5, <1>8
<1>10. /\ lo * 1000 <= m * size
       /\ m * size <= hi * 1000
       /\ m \in 0..1000
  BY <1>7, <1>9
<1>11. QED
  BY <1>10 DEF m

-----------------------------------------------------------------------------
(* The weights of tokens.                                                 *)

(* Everything left of the scan is weighed for good, because no number      *)
(* extends over the place the scan has reached. *)
ScanInv ==
    /\ digit \in [1..Tokens -> BOOLEAN]
    /\ scanning \in BOOLEAN
    /\ i \in 1..Tokens + 1
    /\ j \in 1..Tokens + 1
    /\ DOMAIN weight = 1..Tokens
    /\ \A p \in 1..i - 1 : Weighed(p)
    /\ i > 1 /\ IsDigit(i) => ~digit[i - 1]
    /\ \A p \in i..Tokens : weight[p] = OtherWeight
    /\ scanning => i < j + 1 /\ IsDigit(i) /\ \A p \in i..j - 1 : digit[p]

LEMMA InitScanInv == ASSUME Tokens \in Nat PROVE ScanInit => ScanInv
<1> SUFFICES ASSUME ScanInit PROVE ScanInv
  OBVIOUS
<1>1. /\ digit \in [1..Tokens -> BOOLEAN] /\ scanning \in BOOLEAN
      /\ i = 1 /\ j = 1 /\ ~scanning
      /\ weight = [p \in 1..Tokens |-> OtherWeight]
  BY DEF ScanInit
<1>2. i \in 1..Tokens + 1 /\ j \in 1..Tokens + 1 /\ ~(i > 1)
  BY <1>1
<1>3. \A p \in 1..i - 1 : Weighed(p)
  BY <1>1
<1>4. /\ DOMAIN weight = 1..Tokens
      /\ \A p \in i..Tokens : weight[p] = OtherWeight
  BY <1>1
<1>5. QED
  BY <1>1, <1>2, <1>3, <1>4 DEF ScanInv

(* What the code computes for a place of a run is its distance from the    *)
(* end, up to the limit, because no place is farther away than the first.  *)
LEMMA RunWeight ==
    ASSUME Tokens \in Nat, MaxDigitLen \in Int, ScanInv, WeighRun,
           NEW p \in i..j - 1
    PROVE  p \in 1..Tokens /\ weight'[p] = Capped(j - p)
<1>1. /\ i \in Int /\ j \in Int /\ p \in Int /\ i <= p /\ p < j
      /\ p \in 1..Tokens
  BY DEF ScanInv
<1>2. weight'[p] = Least(j - p, IF MaxDigitLen > 0 THEN Least(j - i, MaxDigitLen)
                                                   ELSE j - i)
  BY <1>1 DEF WeighRun
<1>3. QED
  BY <1>1, <1>2 DEF Least, Capped

LEMMA RunWeighed ==
    ASSUME Tokens \in Nat, MaxDigitLen \in Int, ScanInv, WeighRun,
           NEW p \in i..j - 1
    PROVE  Weighed(p)'
<1>1. /\ i \in Int /\ j \in Int /\ p \in Int /\ i <= p /\ p < j
      /\ p \in 1..Tokens /\ digit[p] /\ digit' = digit
      /\ scanning /\ ~IsDigit(j)
  BY DEF ScanInv, WeighRun
<1>2. weight'[p] = Capped(j - p)
  BY RunWeight
<1>3. CASE p = j - 1
  <2>1. ~IsDigit(p + 1)' /\ weight'[p] = 1
    BY <1>1, <1>2, <1>3 DEF IsDigit, Capped, Least
  <2>2. QED
    BY <1>1, <2>1 DEF Weighed
<1>4. CASE p # j - 1
  <2>1. p + 1 \in i..j - 1
    BY <1>1, <1>4
  <2>2. weight'[p + 1] = Capped(j - (p + 1))
    BY <2>1, RunWeight
  <2>3. IsDigit(p + 1)'
    BY <1>1, <2>1 DEF ScanInv, IsDigit
  <2>4. Capped(j - p) = Capped(Capped(j - (p + 1)) + 1)
    BY <1>1, <1>4 DEF Capped, Least
  <2>5. Capped(weight'[p + 1] + 1) = weight'[p]
    BY <1>2, <2>2, <2>4
  <2>6. QED
    BY <1>1, <2>3, <2>5 DEF Weighed, Capped
<1>5. QED
  BY <1>3, <1>4

LEMMA StepScanInv ==
    ASSUME Tokens \in Nat, MaxDigitLen \in Int
    PROVE  ScanInv /\ [ScanNext]_scanVars => ScanInv'
<1> SUFFICES ASSUME ScanInv, [ScanNext]_scanVars PROVE ScanInv'
  OBVIOUS
<1>1. CASE Skip
  <2>1. \A p \in 1..i : Weighed(p)'
    BY <1>1 DEF Skip, ScanInv, Weighed, IsDigit, Capped
  <2>2. QED
    BY <1>1, <2>1 DEF Skip, ScanInv, IsDigit
<1>2. CASE EnterRun
  BY <1>2 DEF EnterRun, ScanInv, Weighed, IsDigit, Capped
<1>3. CASE Extend
  BY <1>3 DEF Extend, ScanInv, Weighed, IsDigit, Capped
<1>4. CASE WeighRun
  <2>1. /\ i' = j /\ j' = j /\ digit' = digit /\ scanning' = FALSE
        /\ DOMAIN weight' = 1..Tokens /\ i \in Int /\ j \in Int /\ i <= j
        /\ \A p \in 1..Tokens : p \notin i..j - 1 => weight'[p] = weight[p]
    BY <1>4 DEF WeighRun, ScanInv
  <2>2. ASSUME NEW p \in 1..j - 1 PROVE Weighed(p)'
    <3>1. CASE p < i
      <4>1. /\ Weighed(p) /\ p \in 1..Tokens /\ weight'[p] = weight[p]
        BY <2>1, <2>2, <3>1 DEF ScanInv
      <4>2. digit[p] /\ IsDigit(p + 1) => weight'[p + 1] = weight[p + 1]
        BY <1>4, <2>1, <2>2, <3>1 DEF WeighRun, ScanInv, IsDigit
      <4>3. QED
        BY <2>1, <4>1, <4>2 DEF Weighed, IsDigit, Capped
    <3>2. CASE p >= i
      BY <1>4, <2>1, <2>2, <3>2, RunWeighed
    <3>3. QED
      BY <2>1, <2>2, <3>1, <3>2
  <2>3. /\ i' \in 1..Tokens + 1 /\ j' \in 1..Tokens + 1
        /\ digit' \in [1..Tokens -> BOOLEAN] /\ scanning' \in BOOLEAN
    BY <2>1 DEF ScanInv
  <2>4. \A p \in 1..i' - 1 : Weighed(p)'
    BY <2>1, <2>2
  <2>5. ~IsDigit(i)'
    BY <1>4, <2>1 DEF WeighRun, IsDigit
  <2>6. \A p \in i'..Tokens : weight'[p] = OtherWeight
    BY <2>1 DEF ScanInv
  <2>7. DOMAIN weight' = 1..Tokens /\ ~scanning'
    BY <2>1
  <2>8. QED
    BY <2>3, <2>4, <2>5, <2>6, <2>7 DEF ScanInv
<1>5. CASE UNCHANGED scanVars
  BY <1>5 DEF scanVars, ScanInv, Weighed, IsDigit, Capped
<1>6. QED
  BY <1>1, <1>2, <1>3, <1>4, <1>5 DEF ScanNext

(* The scan gives every token the weight its place in its number calls     *)
(* for, whatever the tokens, the limit and the weight of other tokens.     *)
THEOREM ScanWeighsAll ==
    ASSUME Tokens \in Nat, MaxDigitLen \in Int
    PROVE  ScanSpec => []AllWeighed
<1>1. ScanInv => AllWeighed
  BY DEF ScanInv, AllWeighed, ScanDone
<1>2. QED
  BY <1>1, InitScanInv, StepScanInv, PTL DEF ScanSpec

=============================================================================
