-------------------------- MODULE SelfDistillation --------------------------
(***************************************************************************)
(* On-policy self-distillation (OPSD).  Every rank trains the student on   *)
(* micro-batches of responses, which are generated by the student itself   *)
(* or come from the dataset, and lets the teacher, an exponential moving   *)
(* average of the student, judge them.  GradAccum micro-batches make one   *)
(* optimizer step, but the teacher moves after every micro-batch; the      *)
(* weights of the rollout engine are those of the last step at which they  *)
(* were loaded; and what a rank does next depends on a random number it    *)
(* draws by itself.                                                        *)
(*                                                                         *)
(* The weights of a student are written as the history that made them: one *)
(* element for each optimizer step, the life (start of the training) that  *)
(* took it.  A teacher is written as the sequence of students it averages. *)
(*                                                                         *)
(* Source: swift/rlhf_trainers/opsd_trainer.py.  The training loop, the    *)
(* optimizer and the checkpoint belong to transformers and DeepSpeed.      *)
(***************************************************************************)
EXTENDS Integers, Sequences, FiniteSets

CONSTANTS
    Ranks,          \* the training processes
    Main,           \* the main process
    UseVllm,        \* args.use_vllm
    SeqKd,          \* args.seq_kd
    Ema,            \* args.opsd_ema_decay > 0
    Sharded,        \* is_teacher_ds3: the teacher's parameters are gathered
    DeepSpeed,      \* the optimizer steps inside training_step
    SameNames,      \* student and teacher name their parameters alike
    MaxSteps,       \* state.max_steps
    GradAccum,      \* args.gradient_accumulation_steps
    EpochLen,       \* micro-batches of an epoch
    SaveSteps,      \* global steps after which a checkpoint is written
    MaxLives        \* how often the training is started

ASSUME DistillationAssumption ==
    /\ Main \in Ranks
    /\ {UseVllm, SeqKd, Ema, Sharded, DeepSpeed, SameNames} \subseteq BOOLEAN
    /\ {MaxSteps, GradAccum, EpochLen, MaxLives} \subseteq Nat \ {0}
    /\ SaveSteps \subseteq Nat

VARIABLES
    pc,             \* where each rank is in training_step and around it
    step,           \* state.global_step
    micro,          \* micro-batches of this optimizer step already done
    position,       \* micro-batches of this epoch already done
    draw,           \* whether the random number of a step is at most lmbda
    student,        \* each rank's copy of the student
    teacher,        \* each rank's copy of the teacher
    lastLoaded,     \* self._last_loaded_step
    engine,         \* the student in the rollout engine
    response,       \* who wrote the response of the micro-batch
    gradient,       \* what the gradient accumulated so far comes from
    life,           \* how often the training has been started
    checkpoint      \* the last checkpoint on disk

loopVars == <<step, micro, position>>
engineVars == <<lastLoaded, engine>>
lifeVars == <<draw, life, checkpoint>>
vars == <<pc, loopVars, student, teacher, engineVars, response, gradient, lifeVars>>

-----------------------------------------------------------------------------
(* Weights that no student has: what the server was started with. *)
Unknown == <<0>>

Dataset == [source |-> "dataset", by |-> <<>>]
Student(w) == [source |-> "student", by |-> w]

Start == [step |-> 0, position |-> 0, student |-> <<>>]

Init ==
    /\ pc = [r \in Ranks |-> "batch"]
    /\ step = [r \in Ranks |-> 0]
    /\ micro = [r \in Ranks |-> 0]
    /\ position = [r \in Ranks |-> 0]
    /\ draw \in [0..MaxSteps - 1 -> BOOLEAN]
    /\ student = [r \in Ranks |-> <<>>]
    /\ teacher = [r \in Ranks |-> <<>>]
    /\ lastLoaded = [r \in Ranks |-> -1]
    /\ engine = Unknown
    /\ response = [r \in Ranks |-> Dataset]
    /\ gradient = [r \in Ranks |-> {}]
    /\ life = 1
    /\ checkpoint = Start

At(r, l) == pc[r] = l
Goto(r, l) == pc' = [pc EXCEPT ![r] = l]

(* The optimizer steps after GradAccum micro-batches, and after those that *)
(* are left at the end of an epoch. *)
Boundary(r) == micro[r] = GradAccum - 1 \/ position[r] = EpochLen - 1

(* The collective a rank is in.  Parameters of a sharded teacher are       *)
(* gathered for its forward pass and for its update; gradients are reduced *)
(* when the optimizer is about to step. *)
Exchange(r) ==
    CASE At(r, "requests")                   -> "requests"
      [] At(r, "forward") /\ Sharded         -> "teacher"
      [] At(r, "backward") /\ Boundary(r)    -> "gradients"
      [] At(r, "ema") /\ Sharded             -> "average"
      [] OTHER                               -> "none"

Meet(kind) == \A r \in Ranks : Exchange(r) = kind

-----------------------------------------------------------------------------
(* training_step *)

(* Mutant: seeded by the rank as well. *)
OnPolicy_PerRank(r) == draw[(step[r] + IF r = Main THEN 0 ELSE 1) % MaxSteps]

(* _get_random_num() <= lmbda, seeded by the global step only. *)
OnPolicy(r) == draw[step[r]]

(* Where the response comes from.  Without vLLM the student, and with      *)
(* seq_kd the teacher, generates from inputs['input_ids']; the batch that  *)
(* _prepare_batch_inputs returns has no such key. *)
ChooseSource(r) ==
    /\ At(r, "batch")
    /\ Goto(r, CASE OnPolicy(r) /\ UseVllm  -> "sync"
                 [] OnPolicy(r) /\ ~UseVllm -> "failed"
                 [] ~OnPolicy(r) /\ SeqKd   -> "failed"
                 [] OTHER                   -> "forward")
    /\ response' = [response EXCEPT ![r] = Dataset]
    /\ UNCHANGED <<loopVars, student, teacher, engineVars, gradient, lifeVars>>

(* Mutant: nothing is loaded before the first step. *)
NeedsWeights_AfterFirst(r) == step[r] # lastLoaded[r] /\ step[r] # 0

NeedsWeights(r) == step[r] # lastLoaded[r]

(* _fast_infer: the main process sends its student to the engine. *)
Sync(r) ==
    /\ At(r, "sync")
    /\ IF NeedsWeights(r)
         THEN /\ lastLoaded' = [lastLoaded EXCEPT ![r] = step[r]]
              /\ engine' = IF r = Main THEN student[r] ELSE engine
         ELSE UNCHANGED engineVars
    /\ Goto(r, "requests")
    /\ UNCHANGED <<loopVars, student, teacher, response, gradient, lifeVars>>

(* The requests are gathered, the main process has them answered, and every *)
(* rank gets its answers. *)
Rollout ==
    /\ Meet("requests")
    /\ response' = [r \in Ranks |-> Student(engine)]
    /\ pc' = [r \in Ranks |-> "forward"]
    /\ UNCHANGED <<loopVars, student, teacher, engineVars, gradient, lifeVars>>

(* compute_loss: what the micro-batch adds to the gradient. *)
Loss(r) == [source |-> response[r].source, by |-> response[r].by,
            student |-> student[r], teacher |-> teacher[r], micro |-> micro[r]]

Forward(r) ==
    /\ At(r, "forward") /\ ~Sharded
    /\ gradient' = [gradient EXCEPT ![r] = @ \cup {Loss(r)}]
    /\ Goto(r, "backward")
    /\ UNCHANGED <<loopVars, student, teacher, engineVars, response, lifeVars>>

ForwardSharded ==
    /\ Meet("teacher")
    /\ gradient' = [r \in Ranks |-> gradient[r] \cup {Loss(r)}]
    /\ pc' = [r \in Ranks |-> "backward"]
    /\ UNCHANGED <<loopVars, student, teacher, engineVars, response, lifeVars>>

AfterBackward == IF Ema THEN "ema" ELSE "end"
Updated(w) == Append(w, life)

Backward(r) ==
    /\ At(r, "backward") /\ ~Boundary(r)
    /\ Goto(r, AfterBackward)
    /\ UNCHANGED <<loopVars, student, teacher, engineVars, response, gradient, lifeVars>>

(* The last backward pass of a step: the ranks' gradients become one. *)
Reduce ==
    /\ Meet("gradients")
    /\ student' = IF DeepSpeed THEN [r \in Ranks |-> Updated(student[r])]
                               ELSE student
    /\ gradient' = [r \in Ranks |-> {}]
    /\ pc' = [r \in Ranks |-> AfterBackward]
    /\ UNCHANGED <<loopVars, teacher, engineVars, response, lifeVars>>

(* Mutant: only the main process changes the teacher, sharded or not. *)
Average_MainOnly(r) ==
    IF SameNames /\ r = Main THEN Append(teacher[r], student[r]) ELSE teacher[r]

(* Every parameter of the teacher that the student has by the same name. *)
Average(r) ==
    IF SameNames THEN Append(teacher[r], student[r]) ELSE teacher[r]

EmaUpdate(r) ==
    /\ At(r, "ema") /\ ~Sharded
    /\ teacher' = [teacher EXCEPT ![r] = Average(r)]
    /\ Goto(r, "end")
    /\ UNCHANGED <<loopVars, student, engineVars, response, gradient, lifeVars>>

(* Mutant: the teacher moves only while gradients are being accumulated. *)
EmaUpdateSharded_AfterReduce ==
    /\ Meet("average")
    /\ teacher' = [r \in Ranks |->
         IF Boundary(Main) THEN teacher[r] ELSE Average(Main)]
    /\ pc' = [r \in Ranks |-> "end"]
    /\ UNCHANGED <<loopVars, student, engineVars, response, gradient, lifeVars>>

(* The main process changes the gathered parameters, which are then       *)
(* partitioned again. *)
EmaUpdateSharded ==
    /\ Meet("average")
    /\ teacher' = [r \in Ranks |-> Average(Main)]
    /\ pc' = [r \in Ranks |-> "end"]
    /\ UNCHANGED <<loopVars, student, engineVars, response, gradient, lifeVars>>

-----------------------------------------------------------------------------
(* The training loop *)

(* Mutant: the epoch has no end. *)
NextPosition_NoWrap(r) == position[r] + 1

NextPosition(r) == IF position[r] = EpochLen - 1 THEN 0 ELSE position[r] + 1

(* Another micro-batch of the same step. *)
Accumulate(r) ==
    /\ At(r, "end") /\ ~Boundary(r)
    /\ micro' = [micro EXCEPT ![r] = @ + 1]
    /\ position' = [position EXCEPT ![r] = NextPosition(r)]
    /\ Goto(r, "batch")
    /\ UNCHANGED <<step, student, teacher, engineVars, response, gradient, lifeVars>>

(* The optimizer steps, unless DeepSpeed has done it; a checkpoint is     *)
(* saved when due and after the last step. *)
OptimizerStep(r) ==
    LET trained == IF DeepSpeed THEN student[r] ELSE Updated(student[r])
        due == step[r] + 1 \in SaveSteps \/ step[r] + 1 = MaxSteps
    IN  /\ At(r, "end") /\ Boundary(r)
        /\ student' = [student EXCEPT ![r] = trained]
        /\ step' = [step EXCEPT ![r] = @ + 1]
        /\ micro' = [micro EXCEPT ![r] = 0]
        /\ position' = [position EXCEPT ![r] = NextPosition(r)]
        /\ checkpoint' = IF r = Main /\ due
                           THEN [step |-> step[r] + 1, student |-> trained,
                                 position |-> NextPosition(r)]
                           ELSE checkpoint
        /\ Goto(r, IF step[r] + 1 = MaxSteps THEN "over" ELSE "batch")
        /\ UNCHANGED <<teacher, engineVars, response, gradient, draw, life>>

(* All processes are killed, or end because one has failed, and are        *)
(* started again from the last checkpoint.  The teacher is not part of it: *)
(* it is loaded from args.teacher_model.  The rollout server goes on. *)
Resume ==
    /\ life < MaxLives
    /\ \E r \in Ranks : ~At(r, "over")
    /\ life' = life + 1
    /\ pc' = [r \in Ranks |-> IF checkpoint.step = MaxSteps THEN "over" ELSE "batch"]
    /\ step' = [r \in Ranks |-> checkpoint.step]
    /\ micro' = [r \in Ranks |-> 0]
    /\ position' = [r \in Ranks |-> checkpoint.position]
    /\ student' = [r \in Ranks |-> checkpoint.student]
    /\ teacher' = [r \in Ranks |-> <<>>]
    /\ lastLoaded' = [r \in Ranks |-> -1]
    /\ response' = [r \in Ranks |-> Dataset]
    /\ gradient' = [r \in Ranks |-> {}]
    /\ UNCHANGED <<draw, engine, checkpoint>>

RankStep(r) ==
    \/ ChooseSource(r)
    \/ Sync(r)
    \/ Forward(r)
    \/ Backward(r)
    \/ EmaUpdate(r)
    \/ Accumulate(r)
    \/ OptimizerStep(r)

Collective == Rollout \/ ForwardSharded \/ Reduce \/ EmaUpdateSharded

Next == (\E r \in Ranks : RankStep(r)) \/ Collective \/ Resume

Spec == Init /\ [][Next]_vars

(* Processes run, and a collective happens once every rank is in it. *)
FairSpec ==
    /\ Spec
    /\ \A r \in Ranks : WF_vars(RankStep(r))
    /\ WF_vars(Collective)

-----------------------------------------------------------------------------
(* Properties *)

Weights == Seq(0..MaxLives)
Sources == {"student", "dataset"}

(* Every variable has its type. *)
TypeOK ==
    /\ pc \in [Ranks -> {"batch", "sync", "requests", "forward", "backward",
                         "ema", "end", "over", "failed"}]
    /\ step \in [Ranks -> 0..MaxSteps]
    /\ micro \in [Ranks -> 0..GradAccum - 1]
    /\ position \in [Ranks -> 0..EpochLen - 1]
    /\ draw \in [0..MaxSteps - 1 -> BOOLEAN]
    /\ student \in [Ranks -> Weights]
    /\ teacher \in [Ranks -> Seq(Weights)]
    /\ lastLoaded \in [Ranks -> -1..MaxSteps]
    /\ engine \in Weights
    /\ response \in [Ranks -> [source : Sources, by : Weights]]
    /\ gradient \in [Ranks -> SUBSET [source : Sources, by : Weights,
                                      student : Weights, teacher : Seq(Weights),
                                      micro : 0..GradAccum - 1]]
    /\ life \in 1..MaxLives
    /\ checkpoint \in [step : 0..MaxSteps, student : Weights,
                       position : 0..EpochLen - 1]

(* Ranks that wait in a collective wait in the same one, although each has *)
(* drawn its own random number to decide whether to generate: the draws of *)
(* _get_random_num agree on all of them, also after a restart. *)
Aligned ==
    \A r, q \in Ranks :
        "none" \notin {Exchange(r), Exchange(q)} => Exchange(r) = Exchange(q)

(* What the ranks sum into one gradient belongs together: every loss in it *)
(* is a loss of the same student, on responses from the same source, and   *)
(* those the student is said to have written were written by that very     *)
(* student and not by an earlier step's, another start's or the server's   *)
(* own weights. *)
OneGradient ==
    Meet("gradients") =>
        \E w \in {student[r] : r \in Ranks}, source \in Sources :
            \A r \in Ranks : \A loss \in gradient[r] :
                /\ loss.student = w
                /\ loss.source = source
                /\ source = "student" => loss.by = w

(* In each micro-batch all ranks are taught by the same teacher, although  *)
(* it moves between micro-batches and every rank may keep a copy. *)
SameTeacher ==
    \A r, q \in Ranks : \A a \in gradient[r], b \in gradient[q] :
        step[r] = step[q] /\ a.micro = b.micro => a.teacher = b.teacher

(* The docstring of _ema_update_teacher: the teacher is an average of the  *)
(* student.  It averages the current student's own past, and leaves none   *)
(* of its steps out: no optimizer step replaces a student that the teacher *)
(* has not averaged yet, in whichever order optimizer and average come.    *)
TeacherAverages ==
    Ema => \A r \in Ranks :
        LET After(n) == SubSeq(student[r], 1, n)
            trained == Len(student[r])
            averaged == {teacher[r][i] : i \in DOMAIN teacher[r]}
        IN  /\ averaged \subseteq {After(n) : n \in 0..trained}
            /\ {After(n) : n \in 1..trained - 1} \subseteq averaged

(* Until the training is killed for the first time, that is so with every  *)
(* order of optimizer step and average. *)
FirstTeacherAverages == life = 1 => TeacherAverages

(* Every rank reaches the end of the training, however often all of them   *)
(* are killed and start again. *)
TrainingEnds == <>(\A r \in Ranks : At(r, "over"))

=============================================================================
