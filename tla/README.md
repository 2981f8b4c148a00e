# A verification project for GUI-SD

GUI-SD trains models that ground natural-language instructions in screenshots.
It is a fork of ms-swift: a training framework in which several processes
("ranks") train a model with PyTorch while a vLLM engine, in a server of its
own or inside the training processes, generates the completions ("rollouts")
the model is trained on.  What the fork adds is on-policy self-distillation
(OPSD): the teacher is an exponential moving average of the student.

The code that is hard to get right is not the numerical code.  It is the
control around it: which weights generated a rollout, who waits for whom, which
collective every rank enters next, what remains after one of several steps
fails.  That is what is modelled here.

## The system

| Part | State it keeps | Operations | Talks to |
|---|---|---|---|
| Rollout pipeline (`rlhf_trainers/rollout_mixin.py`, `grpo_trainer.py`) | `_last_loaded_step`, `_step`, `eval_flag`, `train_queue`, `eval_queue`, executor | `_fast_infer`, `_prefetch`, `_move_model_to_vllm`, `async_generate_rollout`, `evaluation_loop`, `training_step` | other ranks by collectives, its executor by queues, the rollout engine |
| Flow control (`trainers/patcher.py`) | `control.should_evaluate`, `should_training_stop` | `on_step_end`, `on_epoch_end` | the training loop of transformers, the pipeline |
| Rollout client (`rlhf_trainers/vllm_client.py`) | one NCCL group per server | `infer`, `update_*`, `reset_prefix_cache` | one thread and one HTTP connection per server |
| Rollout server (`pipelines/infer/rollout.py`) | a pipe to each worker, the worker's weights | `/infer/`, `/update_*`, `llm_worker` | the client by HTTP and NCCL, its workers by pipes |
| Self-distillation (`rlhf_trainers/opsd_trainer.py`, `gkd_trainer.py`) | teacher weights, where the teacher is loaded | `training_step`, `_ema_update_teacher`, `load_teacher_model_context` | the rollout pipeline, the optimizer |
| Engine synchronisation (`rollout_mixin.py`, `utils.py`) | engine asleep or awake, base weights synchronised, adapter merged, model offloaded | `_fast_infer`, `_move_full_model_to_vllm`, `_move_adapter_to_vllm`, `offload_context` | the training process it lives in |
| Multi-turn rollouts (`rollout/multi_turn.py`, `rollout_mixin.py`) | requests still running, token ids and masks of past turns | `MultiTurnScheduler.run`, `_colocate_multi_turn_infer` | the engine, environments |
| Batching engine (`infer_engine/transformers_engine.py`) | a request queue, a worker thread | `infer_async`, `_fetch_infer_requests`, `_infer_worker` | callers by asyncio queues |
| Data feeding (`dataloader/`, `dataset/packing.py`, `trainers/mixin.py`) | sampler seed and position, the pack being filled, the samples being encoded | `__iter__`, `create_packed_idx`, `_processor`, `skip_first_batches` | ranks by scatter, worker processes by queues |

### What is hard

* **Three schedules meet.**  Rollouts are generated every `steps_per_generation *
  num_iterations` micro-batches, weights change every
  `gradient_accumulation_steps` micro-batches, evaluations happen every so many
  steps or at the end of an epoch.  `_last_loaded_step` is the only thing that
  ties the engine's weights to any of them.
* **A thread generates while another trains** and later replaces the weights
  the first one generates with.
* **Every rank must make the same sequence of collective calls**, although each
  decides by its own queue and its own flags.
* **Failures are logged** in the executor, in the server's workers and in the
  client's threads, and the steps after them go on.
* **Order against the optimizer**: the teacher's moving average, the student's
  gradient accumulation and the weight synchronisation each count steps their
  own way.

## Modules

### `AsyncRollout`: the rollout pipeline

One record of the program counter per rank (`pc`) walks through the code of the
main thread: `_prepare_inputs`, `_generate_and_score_completions`,
`_dynamic_sampling`, `_fast_infer`, `_prefetch`, `evaluation_loop`,
`training_step`, and the training loop's hooks.  A second thread per rank, the
executor, runs the tasks of `pool`; `queue[r]["train"]` and `queue[r]["eval"]`
are `train_queue` and `eval_queue`.

| In the model | In the code |
|---|---|
| `pc[r]` | where the main thread of rank r is |
| `globalStep`, `microStep`, `lastLoaded` | `state.global_step`, `self._step`, `self._last_loaded_step` |
| `shouldEvaluate`, `evalFlag`, `evaluating` | `control.should_evaluate`, `self.eval_flag`, whether `evaluation_loop` is running |
| `queue`, `pool`, `busy` | the two queues, the tasks handed to `self.executor`, its worker thread |
| `engine` | the step whose weights the rollout engine holds, `Dummy` before the first load |
| a rollout `[id, dest, of, weights]` | a `DataCache`, with which submission it is, the queue `done` puts it into, the data set its prompts came from and the weights that generated it |
| `GatherMessages`, `GatherInputs`, `GatherRequests`, `ShareResults` | `gather_object` and `broadcast_object_list`: a collective happens when every rank is at one, and the ranks are then moved on together |

A collective matches by position, not by name, in PyTorch: the property
`Aligned` says that ranks that meet exchange the same thing.  The training loop
belongs to transformers; the model has of it the order of the hooks the code
implements (`on_step_end`, evaluation, `on_epoch_end`, evaluation), the optimizer
step after `GradAccum` micro-batches, and that `control.should_evaluate` is
cleared after the evaluation it asked for but is not set for `eval_on_start`.

`MCAsyncRollout` puts three sets of arguments into one run and chooses between
them in the initial state: asynchronous with evaluations; asynchronous with
generations that do not divide into optimizer steps and tasks that raise;
synchronous with `eval_on_start`, evaluation by epoch and `max_epochs`.  No
asynchronous run among them evaluates a step twice.  One that does (evaluation by epoch,
where the last step also ends an epoch, or `max_epochs` at a step evaluated by
`eval_steps`) has two evaluations in a row: a rank whose last rollout of the first is
still running prefetches, one whose result is queued already does not
(`grpo_trainer.py:1848`), and the ranks come apart: TLC refutes `Aligned`, and
`TrainingEnds` under `FairSpec`, with `EvalSteps = {2}`, `EpochEnds = {}`, `StopStep = 2` or
`EvalSteps = {}`, `EpochEnds = {2, 4}`, `MaxSteps = 4` (`EvalBatches = 1`).  The training
then hangs before the model is saved.  It is the reason for the assumption of three
theorems below.

Bounds: `MaxSteps` (the run's length), `EvalBatches`, `MaxResample`.  They are
parameters of the program as well, so no run is cut short: TLC explores complete
trainings.  Two ranks are enough for every disagreement between the main process
and the others, which all behave alike; four to seven optimizer steps contain
an evaluation between two trainings, one after the last step, and at least two
generations after each.

Fairness (`FairSpec`): each rank's main thread and executor take a step when
they can (threads are preemptively scheduled, and a rollout task ends, by an
answer or an exception, because the client has a timeout), and a collective
happens when all ranks have reached it.

### `AsyncRolloutProofs`

Theorems about `AsyncRollout`, for every value of its constants allowed by
`RolloutAssumption`.

* `TypeCorrect`: `Spec => []TypeOK`.  `TypeOK` needs one more conjunct to be
  inductive, `BusyOK` (the worker runs only what is in the pool).
* `WeightsAtRest`: `Spec => NoSyncDuringRollout`.  The property says when the engine
  may change; the proof must know how many rollouts are in flight at each place
  of the code and where they will go.  `RankInv` says so:
  * `Mode`: which of `should_evaluate`, `evaluating` and the hook that started
    the evaluation go together at each place;
  * `Fresh`: from its first batch on, an evaluation holds the current weights;
  * `Flow`: at each place, `Owes(r, d, n)`: everything in flight goes to queue
    `d`, in flight and waiting together are at most `n`, the other queue holds at
    most one.  A wait for a non-empty queue then implies an empty pool
    (`OwedArrived`), and this is what makes the polling loops of the code
    sufficient.  The exception is `Second`: an evaluation at the end of the last
    epoch that follows one at the end of the same step may prefetch while a
    rollout is running.  It cannot move weights, which are current by then, so that
    this theorem needs no assumption about it; those on the order of rollouts
    do.  That no third thing follows is where the assumption is used that
    `eval_strategy` is either `steps` or `epoch`;
  * `Inline`: a synchronous run never uses the executor.

  `RankInv` of a rank is preserved by its own steps (one lemma for each), by its
  worker (`WorkerInv`), by other ranks (`OtherRank`) and by collectives
  (`CollectiveInv`), even when the ranks are out of step.

With which weights rollouts are generated is proved on top of these invariants, for every
schedule, resampling, evaluation and failing task:

* `LoadedAlways`: `Spec => []NeverDummyWeights`.  The invariant `WeightsInv` adds that the
  engine has what the trainer noted as loaded (`NotedInv`), and that it has something
  wherever a rollout may be started (`ReadyInv`): asynchronously, once the first prefetch
  has synchronised; in between nothing is in the executor.
* `TrainLagAlways`: `Spec => []TrainLag`.  A training batch is at most
  `ceil(GenerateEvery / GradAccum)` optimizer steps old with `async_generate`, and not old
  at all without.  `LagInv` follows the bound through the pipeline: what is queued for the
  training, or running for it, is of the last generation (`KeptInv`), by count of
  micro-steps; behind the head of the queue it is of this one, and so is all that is left
  once the batch is taken.  Tasks that run keep their weights because the engine changes
  only when none does (`QuietSync`, the lemma behind `WeightsAtRest`).  `Generations` and
  `LagBound` are the arithmetic.  The bound does not need `GenerateEvery` to be a multiple of
  `GradAccum`, or the evaluations to leave the schedule alone.
* `FreshAlways`: without `async_generate`, `Spec => []EvalFresh`, and the same of training
  batches: the engine is only asked where `_last_loaded_step` was just compared.

Which rollouts the ranks take, and whether they stay together:

* `OneAheadAlways`: `Spec => []OneAhead`, from `Flow`, which counts what is owed.
* `OwnPromptsAlways`: `Spec => []OwnPrompts`.  The queue is chosen by
  `control.should_evaluate`, the prompts by the loop that iterates; `PromptInv` carries along
  that a rollout's prompts are of the data set of the queue it is, or will be, in.
* `AlignedAlways`: `Spec => []Aligned`, for any number of ranks.  Between two collectives
  the ranks run freely and may be many statements apart, so no relation of two program
  counters is enough.  What is proved instead is that a rank's next step is a function
  `LocalNext` of its own place and counters (`RankStep`): tests of queues, which
  depend on how far an executor is, come out as the counters say (`Waiting` is
  non-empty where a wait was passed, and empty at an evaluation's prefetch exactly the first
  time; `EvalKept`).  Any two ranks are then on one path, one of them ahead or both at the
  same place (`Together`), and no rank goes past a collective alone; if both are at
  collectives, they are at the same state (`BothStopped`).  That a state lies ahead on the
  path is stated without induction, as membership in every set of states closed under
  the walk (`Beyond`).
* `SameRolloutAlways`: `Spec => []SameRollout`.  The same argument with a larger state
  (`Full`): the numbers of the rollouts each queue is owed, those that wait in it followed by
  those of the executor.  A submission appends to it and a get takes its first; an executor
  that finishes a task moves the boundary within it and leaves it as it is (`FullWorker`), so
  that it does not matter when it does.

`OneAheadAlways`, `AlignedAlways` and `SameRolloutAlways` assume of an asynchronous run
that it evaluates no step twice (`EvaluatedTwice`), and `OwnPromptsAlways` that it has no
`eval_on_start`: with those arguments the code does otherwise, as TLC shows (above, and in
the finding `eval_on_start_hang`).  Of synchronous runs nothing is assumed.
`RightRolloutAlways` puts `SameRollout` and `OwnPrompts` together, as the run checks them.
`SameRollout` says nothing once a task has raised: `done` then queues nothing, and the
main process takes later rollouts than the others.

### `EngineSync`: the weights of an engine

`AsyncRollout` has one number for the weights an engine holds; this module has how they
get there, for an engine in the trainer's process as for one on a server.  Weights
are named by the student that was merged into them (its optimizer steps, each with
the life of the training that took it), or `Base`.

| In the model | In the code |
|---|---|
| `pc` | where `_fast_infer` is, the loop of `_move_full_model_to_vllm` included |
| `setup` | `vllm_mode`, `tuner_type`, `move_model_batches`, `rollout_enable_lora`, FSDP2, `sleep_level`, whether `wake_up` takes tags, `offload_model`; `zero`: the first adapter is initialised to add nothing |
| `params[g]`, `lora`, `cache`, `asleep` | the engine: what its adapted layers hold by group of `parameter_groups`, its adapter, whose weights its cached prefixes are of, what of it sleeps |
| `merged`, `baseSyncDone`, `lastLoaded` | groups whose adapter is merged in the student, `base_sync_done`, `_last_loaded_step` |
| `onDevice` | `offload_context` |
| `first`, `added` | history: the student sent in full first, whether this life sent an adapter |

`GeneratesWithStudent` has four provisos, `Plain`, each a way in which the code does not
keep the promise; without any of them TLC refutes it.  `Filtered` is the finding
`engine_batched_adapters`: `split_batches` is called before `rollout_enable_lora` is known.
`FromZero`: an adapter merged into the first synchronisation is added once more by
every later one, when training was resumed.  `NeverMerged`: with FSDP2 and adapters,
`_merge_lora_into_state_dict` looks for names without `.base_layer` and merges nothing;
at sleep level 2, where adapters are never sent, the engine stays at the base model.
`Leftover`: a server uses the adapter of a trainer that was killed until it gets another.

Bounds: two groups are the least with a group before and after; two optimizer
steps, two lives; generations and turns without bound; all 198 combinations of
arguments.  A failed synchronisation or generation ends the training, which is
why `failed` only leads to `Restart`.  `CHECK_DEADLOCK FALSE`: the last life may fail.

`EngineSyncProofs` proves all three invariants for any number of groups, steps and
lives.  The invariant `LoadInv` says what the engine holds at each place: what was sent
so far of a synchronisation in full (`FullInv`); that adapters follow exactly one of
them, which left the first student or `Base` in the parameters (`FirstInv`); whose prefixes are
cached (`AwakeInv`); and that from a synchronisation to the next optimizer step the
engine is the student's, unless it slept at level 2 (`RightInv`).

### `RolloutServer` and `RolloutService`: the servers the rollouts come from

`RolloutService` is what the trainer relies on, in a page: one copy of the
weights, replaced as a whole (`SyncCall`, `SyncReturn`); `infer`, which returns one
completion per request, in order, generated by those weights and nothing else
(`InferCall`, `InferReturn`); a failure ends the trainer (`Fail`), and another
one may connect (`Restart`).

`RolloutServer` is how the code does it.

| In the model | In the code |
|---|---|
| `call`, `step`, `size`, `thread[s]`, `reply[s]`, `answer` | the method of `VLLMClient` being executed, its loop counter, and its thread, HTTP response and result per server |
| `handler[s]` | the endpoint the server's event loop is in; `asked` are the connections it sent requests to |
| `pipe[e]`, `result[e]` | the two directions of the `multiprocessing.Pipe` of worker `e` |
| `comm[e]`, `tensor[e]`, `weights[e]`, `cache[e]` | the worker's `pynccl_comm`, the tensor it has received, the model's parameters by bucket, its prefix cache (by the weights the prefixes were computed with) |
| `UpdateEndpoint`, `Broadcast`, `Load` | the endpoint answers once the command is in the pipes; the tensor follows by NCCL; the worker loads it |
| `ResetEndpoint`, `InferEndpoint`, `Finish` | a `call`: the endpoint blocks the event loop until every worker has answered |
| `ChunkSize`, `Chunk`, `ChunkList` | how requests are divided among servers (ceiling) and among workers (`trl`'s `chunk_list`), the placeholder for a worker without one |
| `CheckServer`, `CloseCommunicator`, `InitCommunicator`, `Rendezvous` | a client that connects polls `/health/`, closes the communicator for a predecessor that may not have, and joins |

The refinement mapping (`Service`) reads `call`: connecting is `"none"`, updating and
resetting are `"sync"`, so the buckets, pipes and caches behind one `SyncCall` are
stutters.  What makes the refinement hold is that `_move_model_to_vllm` ends with
`reset_prefix_cache`: the updates return before they are loaded, and the answer
to the reset, behind them in the same pipes, is the only thing that waits
(`Quiescent`; the mutant without it breaks that).

`Faults` names what may go wrong: `timeout` (a server does not get healthy), `post` (a
request fails), `infer` (a worker raises while generating), and three that only
get logged: `close`, `load`, `reset`.  `MCRolloutServer` puts two settings of it into one
run and chooses between them in the initial state: the first three together,
under which the service is implemented and every call returns; and `close` alone,
under which the service is still implemented, but a worker that never left its
predecessor's communicator makes the next trainer wait for ever (the proviso of
`CallsReturnUnlessKept`).  A failed `load` is in neither: it goes unnoticed
(`rollout.py:268`), and the engine goes on with the weights it has, although the
endpoint "updates the model weights with the provided tensor" (line 464).  `KillIn` names the calls in which the
trainer may be killed.  `update`, `close` and `init` are not among them: the workers
would stay in an NCCL collective without its root, which has no time limit, and
the servers must be started again.

Fairness: every worker, endpoint and client thread goes on when it can (they are
processes and threads of their own, and HTTP requests have time limits).  What
the trainer calls next is its own choice.  `CHECK_DEADLOCK FALSE`: after the last
trainer nothing happens any more.

Bounds: two servers of two workers are the least in which shares differ (three
requests: two and one; one and one) and in which workers or whole servers get none
(fewer requests); up to four requests give each worker one; two buckets are the
least with a "between"; two trainers, one restart.

### `RolloutServerProofs`

For every number of servers, workers, buckets, requests and trainers, every set of
`Faults` and every `KillIn` that `ServerAssumption` allows:

* `TypeCorrect`: `Spec => []TypeOK`.
* `QuiescentAlways`: `Spec => []Quiescent`.
* `InOrderAlways`: `Spec => []InOrder`.
* `ImplementsServiceAlways`: `Reliable => (Spec => Service!Spec)`.  `Reliable` excludes
  the two faults that only get logged after the update has been confirmed, `load` and
  `reset`; with either the weights behind an answer are not those the trainer
  sent, and `MCRolloutServer` excludes them too.  A trainer that is killed inside an update
  is outside the theorem as it is outside the run (`KillIn`).

`Quiescent` speaks of the moment between two calls, and is true because of all that
happened inside the last one.  The invariant `IInv` therefore says, for each call and for
how far the client's thread for a server has come (`ServerInv`), what the server
has before it: nothing (`Silent`), a command in the pipes of workers that have
not taken it, a tensor received and not loaded (`Receiving`), a reset behind the last
tensor (`Resetting`), or shares that some workers have answered (`Inferring`, with
what each answer is).  `WeightInv` says which buckets a worker's model has, so that when the
reset has been answered all of them are `version`, and no cached prefix is older.

The order of the answers is a fact about sequences: the client cuts the requests into
shares of `ChunkSize`, each server cuts its share by `chunk_list`, fills up with
placeholders, drops what they return, and everything is concatenated again.
`ChunkEnds` and `ShareEnds` are where the parts end, and `Gather` (from `FlattenPlaces` of
`SequenceLemmas`) puts answers to the parts together to answers to the whole.

`ServiceStep` takes the refinement action by action: a step of the service when the call
changes, or a stutter.

### `SequenceLemmas`

What the proofs need of sequences, for any set of elements: `FlattenSeq`, `InsertAt`,
concatenation and prefixes, and induction.  The library states induction for an
operator `P(_)`, which the provers cannot instantiate; but its `WFMin` (a
well-founded relation has a minimal element in every non-empty set) is about a set, and
gives `LeastElement` and `Induction`: a set of numbers that has 0 and is closed under
successor has all of them.

### `SelfDistillation`: OPSD

`OPSDTrainer.training_step` and the training loop around it.  Weights are written as
the history that made them: a student is the sequence of its optimizer steps,
each with the life (start of the training) that took it, and a teacher is the
sequence of students it has averaged.  Two weights are equal when they were made
alike; a student of a life that was lost differs from the one that repeats its steps.

| In the model | In the code |
|---|---|
| `pc[r]` | where rank r is: `batch` (the draw), `sync` and `requests` (`_fast_infer`), `forward`, `backward`, `ema` (`_ema_update_teacher`), `end` (of `training_step`), `over`, `failed` |
| `draw` | for each global step, whether `_get_random_num() <= lmbda`: any function of the step, which is what the seed depends on |
| `step`, `micro`, `position` | `state.global_step`, micro-batches of the window, batches of the epoch |
| `student[r]`, `teacher[r]` | the rank's copies |
| `engine`, `lastLoaded[r]` | the student in the server, `_last_loaded_step` |
| `response[r]`, `gradient[r]` | who wrote the batch's responses; the losses accumulated |
| `checkpoint`, `life`, `Resume` | the last checkpoint, how often the training was started; the teacher is not in it |
| `Rollout`, `ForwardSharded`, `Reduce`, `EmaUpdateSharded` | collectives: requests gathered and answers broadcast; the forward pass and the update of a ZeRO-3 teacher; the reduction of gradients |

`Sharded` is `teacher_deepspeed` at stage 3, `DeepSpeed` whether the optimizer steps
inside the last backward pass of a window (DeepSpeed) or after `training_step`
(the teacher is then averaged before it).  `UseVllm = FALSE` and `SeqKd = TRUE` lead
steps to `failed`: `generate_on_policy_outputs` reads `inputs['input_ids']`, which the
batch of `_prepare_batch_inputs` does not have.  `SameNames = FALSE` is a student
wrapped by PEFT, of whose parameters none has a name of the teacher's; with it
TLC refutes `TeacherAverages`, as the average then does nothing.

Bounds: four optimizer steps of two micro-batches in epochs of three, so that a
window is cut short by the end of an epoch and windows of both lengths follow
each other; one checkpoint in the middle and one at the end; up to two
restarts, so that a life can find a server with weights of the life before and a
checkpoint of the one before that.  All sixteen sequences of draws.  `MCSelfDistillation`
chooses in the initial state between DeepSpeed with a sharded teacher (`train.sh`),
with a replicated one, and neither, because optimizer step, moving average and
collectives come in another order in each.  Step numbers are
the program's own parameters: TLC explores complete trainings.

Fairness (`FairSpec`): processes run, and a collective happens once every rank
is in it; being killed is not fair and is bounded by `MaxLives`.
`CHECK_DEADLOCK FALSE`: a finished training stops.

### `SelfDistillationProofs`

For every value of the constants (`DistillationAssumption` asks for positive
numbers and a main process among the ranks, nothing more: any number of ranks,
with or without sharding, DeepSpeed, vLLM, moving average, restarts):

* `TypeCorrect`: `Spec => []TypeOK`, with `OverOK` (a rank is over exactly
  after its last step).
* `AlignedAlways`: `Spec => []Aligned`.
* `OneGradientAlways`: `Spec => []OneGradient`.

The ranks are not in lock-step: between collectives one may be several micro-batches,
an optimizer step and a draw ahead of another (without sharding and rollouts it
meets the others only once in a window).  `Aligned` is therefore not inductive,
and neither is "same step, same micro-batch".  The invariant `IInv` gives each
rank a *view*: how many gradients it has reduced (`Passed`), where its window began
(`Window`), the student that results (`Trained`), and how many rollouts, teacher
passes and averages of the window it has made (`Rolled`, `Taught`, `Averaged`), each
as far as it is made by a collective.  They are defined so that

* a rank's own steps leave its view as it is (`RankKeepsView`): for instance
  the optimizer step moves a reduction from the window to the step counter;
* a collective changes the views of all ranks alike (`CollectiveKeepsSameView`);
* two ranks with the same view that both wait in a collective wait in the same
  one (`PairAligned`).

`Known` says what a rank knows by itself (it is where its draw sends it; the
losses it holds are of its own student, answered as its draw says), and
`EngineLoaded` that the engine holds the main process's student from the time it is
loaded until that student is trained further.  With equal views the main
process's student is everybody's.

On top of `IInv`:

* `SameTeacherAlways`: `Spec => []SameTeacher`.  The teacher is not part of the view, because
  without sharding every rank moves its copy by itself.  `TeacherInv` says that there is one
  teacher `b` with which all ranks began the window: a rank's teacher is `b` moved as often
  as the rank has averaged since (`Smoothed`), and a loss was taken under `b` moved as often as
  its micro-batch says.  `b` changes only in the collective that ends the window.
* `FirstTeacherAveragesAlways`: `SameNames => (Spec => []FirstTeacherAverages)`.  `PastInv` adds
  when the student itself has been averaged: at the end of `training_step`, and with
  DeepSpeed, whose optimizer steps earlier, at all times but between the reduction and the
  average.

### `TokenWeights`

The loop of `compute_loss` over runs of digits (mode `linear`): `i`, `j`, `weight` are
its variables and the actions its branches; the innermost loop over `k` is one
assignment to the places of the run.  What the weights should be is defined without a
scan (`Weighed`): a number's last digit weighs 1, any other one more than its right
neighbour up to `MaxDigitLen`, and what is no digit `OtherWeight`.

The module has no run of its own: `ScanWeighsAll` (in `SelfDistillationProofs`) proves
`ScanSpec => []AllWeighed` for every
response, length and limit.  The inductive invariant says that what is left of the scan
is weighed for good, because no number extends over the place the scan has reached
(two digits next to each other are never in different runs), and what is right of it is
not weighed yet.  `RunWeight` is the arithmetic: `min(N - k, effective_N)` is the
capped distance from the end, since no place is farther from it than `N`.

### `TeacherHint`

What the teacher is shown of a target and told of it: `mask_processor` (modes `zoom_in`
and `adaptive`, and the green frame of every mode but `no_mask`) and the answer of hint
mode `gt`.  The code does the same horizontally and vertically, so the definitions are
about one axis: an image of `size` pixels, a target from `lo` up to `hi`.  Quotients of
floating point numbers that are cut to integers are what `IsThousandth` allows: the
whole number below, or one less where the division leaves no remainder.

There is no state and no run; the theorems (in `SelfDistillationProofs`) are the content,
for every image and target:

- the centre of the target is visible (`CentreShown`), and all of it is, in `zoom_in` if
  it is no larger than half of the screen (`ZoomShowsTarget`) and in `adaptive` if the
  ratio is at least one (`AdaptiveShowsTarget`);
- a larger target is cut by `zoom_in` (`ZoomCutsLargeTarget`), although the frame around
  it is still drawn: the teacher is told that the answer is in a rectangle of which it
  sees the middle;
- `adaptive` exposes `opsd_min_area_frac` of the screen ("at least", says the comment at
  `opsd_trainer.py:330`) only where the border does not cut the region; of each axis
  half remains, in a corner a quarter of the area (`RegionKeepsHalf`);
- the frame covers no pixel of the target (`FrameOutsideTarget`);
- the point that `gt` tells lies in a target at least three thousandths of the screen
  wide (`AnswerInTarget`); of a narrower one the rounding may leave it outside.

Left out: mode `gaussian`, whose weights are real numbers.

### `BatchingEngine`: requests batched by a worker thread

`TransformersEngine.infer_async` as `swift deploy` calls it: every HTTP handler puts its
request into one `queue.Queue` and waits at an `asyncio.Queue` of its own; one thread,
started by the first handler, batches them.

| In the model | In the code |
|---|---|
| `handler[r]`, `kwargs[r]` | where the handler of request r is; its configuration, adapter, and whether the template can encode it |
| `queue`, `taskPool` | `self._queue`, and `self._task_pool`, a dict in order of insertion |
| `taskThread` | `self._task_thread`: never started, alive, ended by an exception, or waiting for good at the streamer of a generation that raised |
| `batch` | what `_infer_worker` is running, with the kwargs it runs it with |
| `adaptersPool` | the adapters the model was given by `_add_adapter` |
| `inbox[r]` | everything put into the handler's queue |
| `Submit`, `StartInferWorker` | `infer_async` before and after its first `await` |
| `TakeRequest`, `FetchInferRequests` | the two halves of `_fetch_infer_requests` |
| `InferFull`; `StartStream`, `StreamChunk`, `LastChunk`, `EndStream` | the branches of `_infer_worker` |
| `DieOfEncode`, `DieOfBeams`, `DieOfGenerate`, `HangOnGenerate` | the exceptions that leave `_infer_worker` (lines 154 and 159 have no handler), and the one that leaves `_model_generate` |

What the properties depend on and no test looks at: requests are pooled by the
hash of their configuration, so an adapter is that of the first request of the
entry (`AdapterOfEntry`; that it is the caller's own is the finding `batching_adapters`);
the exceptions of rows that could not be encoded are inserted back at their
places, so that every row is answered in its own queue (`OwnAnswer`); in a streamed
batch a row without text is sent `None`, which its handler takes for the end, while
`tests/infer/test_infer.py:47` skips `None` (`WholeUnlessShared` says which streams are
whole).

Whatever a batch raises ends the worker thread, which is never started again: in
a strict engine, as `swift deploy` makes it, a row that cannot be encoded; in any
engine a stream with `num_beams` other than 1, which a client may ask for and
`_infer_stream` refuses (line 222); and any error of the generation or of what is done
with its tokens.  An error in the thread that generates a stream does not end the worker,
but nobody ends its streamer, and the worker waits there for good.  That handlers
then wait for ever is what the code does.
`EveryoneAnswered` says how far this goes: only over a batch with a row it cannot encode
(if it is strict) or with something to generate can the worker stop, only the handlers of
that batch and those behind it are left without an answer, and everybody whose batch
was run to its end has the whole of it.  Two more disagreements need no run:
`max_batch_size` is commented "0/1: no limit" (`transformers_engine.py:53`) but 1 means
batches of one, and `_infer_stream` never gives its `logits_streamer` a value, so that
log-probabilities are not streamed.

Bounds: three requests are the least in which one overtakes, joins or follows
another's batch; batch sizes without limit, 1 and 2; one chunk before the last; one configuration of
each kind (whole answers, a stream, a stream with beams).
Fairness: the worker thread, and every handler after its `await`; no generation has to fail.
`CHECK_DEADLOCK FALSE`: no request has to be sent, and a worker that stopped stays so.

### `BatchingEngineProofs`

For any number of requests, configurations and adapters, and any limit of a batch
(`BatchingAssumption`), all invariants of the run `batching` are proved: `TypeCorrect`,
`OwnAnswerAlways`, `OnePlaceAlways`, `NoOvertakingAlways`, `AdapterOfEntryAlways`,
`WholeUnlessSharedAlways`.

The first part is what the two loops compute, `_batch_encode` (the function in
`BatchEncode`) and `_add_error_list`: whichever rows could not be encoded, the outputs
with the errors inserted have, at each place, what belongs to the row of that place.
Both are inductions over the number of rows or errors processed.

The invariant `IInv` rests on one observation: requests are numbered in the order in
which they arrive (`ArrivalInv`), so queue,
entry and batch are increasing sequences, and being first is being least.  Then
`QueueInv` says that the queue is behind all that was taken from it, `EntryInv` that an
entry's kwargs are those of a request that is no later than any of its rows (not of its
first row: a batch may have taken that), `PlaceInv` that whoever left the batch is
answered, `InboxInv` that what was sent is about its handler's request, and `WholeInv`
how much of a stream that runs alone has been sent.  There is one lemma for each
action, and below it one step for each conjunct; the four ways to stop leave all that the
invariant reads as it was (`StoppingKeeps`).

### `Sharding`, `MatchedGroup`, `Packing`, `PackedIndex`, `DataFeeding`: from samples to steps

`Sharding` is arithmetic: what `BatchSamplerShard` deals to each data-parallel rank
(`total_idx[rank::world_size]`), how it cuts batches, and `split_list`.  `MatchedGroup` is
`calculate_matched_group`.  The two packings use it: `Packing` streams, in rounds of
`packing_interval` samples that worker processes encode in any order; `PackedIndex`
packs a dataset of known lengths before training, a process for each part.
`DataFeeding` composes them with the loaders and the training loop of transformers,
which is external.

| In the model | In the code |
|---|---|
| `inQueue`, `working`, `outQueue`, `res`, `data` | `_in_queue`, `_processor`, `_out_queue`, the slots of a round and what is held back for the next |
| `part`, `messages`, `collected`, `packedIdx` | `create_packed_idx`, its queue, and `self.packed_idx` before and after it is broadcast |
| `ready`, `loaded`, `group` | packs the generator has yet to yield, what the DataLoader has fetched ahead, rank 0's batches for the next scatter |
| `seed`, `skip` | `curr_seed` of the sampler in use, batches to be skipped |
| `trained`, `checkpoint`, `life` | what each process trained, in the history that survives; as of the last checkpoint; restarts |

A training that is killed and resumed must train what an uninterrupted one does
(`TrainedInOrder`).  It does not in two cases, which the variable `astray` marks where
they happen: the loader that skips the batches of a *later* epoch is a new one
and gets the seed of the first (`trainers/mixin.py:1155`); and a stream is skipped
from its start, so that beyond its first pass there is not enough to skip.
`TrainingEnds` excepts a worker of a strict dataset that ended over an error, whose
result is then awaited for ever.

Bounds: streams with a short last round, an empty one and none at all, with
samples that cannot be encoded; datasets of five to seven samples that do not
divide into two ranks and batches; two epochs, a checkpoint at every step, three
lives.  Fairness: the training loop, the packing processes, the loader.

### `DataFeedingProofs`

For any numbers of samples, processes, tensor-parallel size and batch size: every sample
that is dealt is dealt to exactly one rank (`DealtToExactlyOne`), all ranks are dealt equally
many (`DealtEvenly`), each has as many batches as `__len__` promises (`EnoughBatches`), and
`split_list` puts each position into exactly one shard (`InExactlyOneShard`).

For any streamed dataset, interval, pack length and number of workers, and wherever the
training is killed, `NothingBetweenRoundsAlways` and `PacksInOrderAlways`.  The invariant
`RoundInv` numbers the samples of a round by the slots they were put under: each is in one of
the queues, with a worker, or in its slot, and as many results are under way as are still
to be fetched, so that a round that has fetched them all has left nothing behind.

What a round is packed into is the result of folds (`IntoBin`, `ToConstantVolume`,
`PackInRounds`), about which nothing can be proved by induction directly.  A lemma of
`SequenceLemmas` (`FoldExists`) unrolls a fold into a chain of its intermediate values, and
what a step of the loop preserves then holds of every link, by the well-ordering of the
numbers: binpacking fills packs that fit, unless a single sample does not, and has each
sample once (`ToConstantVolumeOnce`); so does `calculate_matched_group` with what it holds back
(`MatchedPacks`).  The invariant `PacksInv` says how far along the chain of rounds the
iteration is.

For any packed dataset of known lengths and number of packing processes,
`IndexCompleteAlways`.  The same chain runs through each part.  The invariant `IndexInv` says,
of a process, that what the master has collected of it, and then what is in the queue from
it, is what the chain has packed up to the round the process is at; and that the
processes the master has counted as finished are those that run no more and have nothing in the
queue.  When all are, the lists that are joined are those of whole parts, and a part ends
where the next one begins.

For any training of either, `TypeCorrect`: `Spec => []TypeOK`.  That each process has a batch
of samples in every step rests on the theorems about dealing, on there being no more packs
than samples (so that the permutation `Shuffled` that is drawn of them is one of those
`ShuffledAssumption` is about), and on `DealtPlace`, the conjunct of the invariant `FeedInv` that
says where a training is: as many steps have been trained as the epochs before and the place
in this one say, also when it was killed and its epoch and place were computed from the
checkpoint.

And `TrainedInOrderAlways`: `Spec => []TrainedInOrder`.  The invariant `OrderInv` has four
parts.  `StreamTaken` says of a stream that the batches gathered for the next scatter and
the packs still loaded are, one after another, those of the packs yielded that follow the
steps taken in this pass; `StreamPlace`, that the steps skipped or trained in it are those the
uninterrupted training would have behind it; `SeedFollows`, that a sampler has the seed of the epoch it
is in whenever it matters (a loader that skips has that of the first epoch, and unless the
training is led astray, it is in the first epoch when it skips); and `TrainedSoFar`, that
each step trained is that of the uninterrupted training.  A kill cuts the history back to a
checkpoint, which is a beginning of it.

From these `EachOnceInEpochAlways`: `Spec => []EachOnceInEpoch`.  `EpochsTrained` adds that the
epochs before the present one are in the history to their last step; the rest is about an
epoch that is not interrupted.  Each item trained has a *place* in the order of the epoch, or in
the stream (`PlaceIn`), and step, process and position in the batch are its digits:
`((step - 1) * batchSize + position - 1) * WorldSize + rank + 1` of a dataset that is dealt,
`((step - 1) * NumProcesses + process) * batchSize + position` of a stream.  So the place
determines them (`PlaceDetermines`), every place within the reach of the full steps is one
(`PlaceReached`), an order puts each item at one place at most (`ItemsOfPlaces`), and an item
has each of its samples in no other item (`AllItemsOnce`).  What is left is at a place out of
reach or was not dealt: fewer items than a batch for everyone who trains (`FewUncovered`).  The
proof showed for which processes the property can be stated: those that share a model by tensor
parallelism train the same batches, so that "no process trains what another one does" is true
of one of each (`Trainers`).

### `MultiTurn` and `TrainedTurns`: dialogues of several turns

The loop exists twice, as `_colocate_multi_turn_infer`, which every rank runs for its
dialogues together with its tensor-parallel group, and as `MultiTurnScheduler.run`, a
task for each dialogue on a server.  A *runner* is either.

| In the model | In the code |
|---|---|
| `pc[r]`, `turn[r]` | where the runner is, `current_turn` |
| `indexToInfer[r]`, `outputs[r]` | the dialogues still running and their answers, at the same positions |
| `requests[d]` | messages, and the ids, loss masks and log-probabilities kept of the turns |
| `results[d]` | its `RolloutOutput` |
| `Rollout`, `Gather`, `Turn` | the generation of a group and its slices; `gather_object([has_local_data])`; what the loop does with an answer, `step` of the scheduler included |

A scheduler's step is a `Style`: whether the model goes on with its message, whether
the answer is shortened or added to, and which of ids, mask and log-probabilities are
returned.  `TrainedTurns` is what the trainer makes of a result: `replace_assistant_
response_with_ids`, counting from the last message; `loss_scale`; and log-probabilities,
which are used when there are as many as trained tokens.  Tokens are named by
their turn, so that the properties can say that ids, masks and log-probabilities belong
to the text they stand for.

The code keeps this promise for some schedulers only.  `Regular` names them: ids
in every turn (beside masks, or without any while the model goes on with one
message), or none.  `LosesLastTurn` are dialogues of the server's loop, which lacks the branch
of the colocated one (`rollout_mixin.py:816`) that keeps the ids of a last turn after
a user's; the ids of the turns before are then put one message too late, while
`infer_engine/protocol.py:466` promises "Token IDs generated at each rollout turn."
Log-probabilities that were dropped for their number come back as those of the
last answer (`rollout_mixin.py:1128`); only their number can tell, and without masks it
may agree by chance (the provisos of `LogprobsOfTheirTokens`).

Bounds: three turns, answers of one or two tokens, every pair of seven kinds of
steps, colocated and on a server, with either `loss_scale`; and batches of two
dialogues on each of two ranks of a group, and of four ranks in two groups,
that end in any order.  Fairness: some runner goes on, and a collective happens
when all have come to it.

Proved in `TrainedTurnsProofs`, for any number of runners, dialogues and turns, any
scheduler that steps as `Styles` describe and any size of a tensor-parallel group: `TypeOK`,
`OwnTurns`, `TrainsWhatWasSaid` and `LogprobsOfTheirTokens` hold always.  The last two say what
they say with their provisos: `TrainsWhatWasSaid` of `Regular` schedulers,
`LogprobsOfTheirTokens` of those that return ids with masks or not at all, and both not of the
dialogues of `LosesLastTurn`, in which a server breaks the first.  None of the three
is inductive; `TurnsInv` is, and has three parts:

* `RunnersInv`: the ranks of a colocated rollout are in the same round, and a runner that is
  to take its turn has, place by place, the answers to its own dialogues.  `Rollout` keeps it
  because the slice of a rank begins where those of the ranks before it end, and the ranks of
  a group agree on the group (`FlattenSlice`, `GroupFacts`);
* `DialoguesInv`: before turn `t` (`Talk`) the messages of a dialogue say exactly what was
  answered in the turns before; the ids that every step has returned are the texts of the
  model's messages; their masks fit them; and there are at least as many log-probabilities
  as trained ids, which they are of when there are as many - a list that was once too long
  never fits again;
* `ResultsInv`: every result has the three properties.  That the ids are laid into the
  messages from the back (`FromTheBackFinds`, `LaidIsMasked`) is by induction over the
  messages.

The assumptions are those of `MultiTurn`: what the documentation asks of `step`, dialogues
that are one runner's, ranks that fill their groups, and a dummy message without a text.

## Runs

| Run | What it asks | States |
|---|---|---|
| `async_rollout` | the pipeline under three sets of arguments: what a rollout is generated from, who waits for whom, and that it ends | 38 600 |
| `stale_evaluation` | finding: an evaluation scores what the previous one left in `eval_queue` | |
| `eval_on_start_hang` | finding: after an evaluation on start, training waits for ever | |
| `servers` | client and servers implement `RolloutService`, with failures and restarts | 201 800 |
| `opsd` | the training step in three setups, killed twice and resumed: the ranks stay together, the teacher averages every student | 43 700 |
| `opsd_lost_teacher` | finding: a resumed training starts with a teacher that has averaged nothing | |
| `batching` | every request is answered by its own answer, in order, whole, and under an adapter that can be explained, unless the worker stopped over its batch or before | 396 300 |
| `batching_adapters` | finding: a request is answered under the adapter of another one | |
| `data_feeding` | packs and batches come in the order of a training that is never interrupted, and each sample once an epoch | 14 700 |
| `engine_sync` | the engine generates with the student, whatever was sent, slept or failed before, and they share the device in turns | 202 500 |
| `engine_batched_adapters` | finding: adapters and batches together leave the engine with dummy weights | |
| `multi_turn` | what is kept of the turns is what was said (with the provisos above), and no rank is left behind | 16 600 |

Every property of a passing run is broken by a mutant of a definition it depends
on (`X_Y` is a mutant of `X`, next to it in the module).

## Proved and model-checked

Proved for all values of the constants, in eight modules: `AsyncRolloutProofs`,
`RolloutServerProofs`, `SelfDistillationProofs` (with the theorems about `TeacherHint` and
`TokenWeights`), `EngineSyncProofs`, `BatchingEngineProofs`, `DataFeedingProofs`,
`TrainedTurnsProofs`, and the lemmas of `SequenceLemmas`.

Only model-checked:

* everything that must eventually happen: liveness under fairness, and with it `ENABLED`, is
  out of the proof system's reach;
* `RightWeights` of `MCAsyncRollout` and `AlignedWith` of `MCSelfDistillation` by name: they
  state, of the arguments a run has chosen, `TrainLag` and `EvalFresh` of `AsyncRollout` and
  `Aligned` of `SelfDistillation`, which are proved.

## Not modelled

Numerical code (losses, advantages, optimizers, sequence parallelism), per-model
tables, templates and patches, arguments (the combinations they allow are the
assumptions of the modules), Megatron and Ray (other implementations of the same
training), user interfaces and drivers of external libraries.  `transformers`,
DeepSpeed, `torch.distributed`, NCCL, vLLM and `uvicorn` are external: of each the
models have the order of calls the code relies on, nothing else.

Left out of parts that are modelled: rollouts with another number of outputs than
requests, teacher offloading, what gathering (ZeRO-3) and merging do to tensors, entropy
weights, tensor-parallel ranks inside a worker, log completions; schedulers that
replace `run` (`ThinkingModelTipsScheduler`, `GYMScheduler`); the synchronous `infer` of the
batching engine; cyclic datasets, which nothing asks for, `LazyLLMDataset`, and the
sampler of sequence parallelism.

Weaknesses of the self-distillation trainer that no property covers, because they
are about data the model abstracts from: a hint image is written under a name made of the
sample alone (`opsd_trainer.py:394`), so that two ranks may write and read the same file;
resampling asks whether the student's prompt can be encoded and not the teacher's
longer one (line 500); `_template_context` is entered within itself (line 555); a student
under ZeRO-3 is not gathered before it is averaged (line 604); `load_teacher_model_context`
does not take the teacher back when the forward pass raises (line 660).

## Plan

1. *Done:* `AsyncRollout` (the pipeline, where most of the interleaving is) with
   its proofs; `RolloutService` and `RolloutServer`; `SelfDistillation` with its proofs;
   `TokenWeights`, proved; `BatchingEngine`; `Sharding`, proved, `Packing`, `PackedIndex` and
   `DataFeeding`; `MultiTurn` and `TrainedTurns`; `EngineSync` with its proofs;
   `TeacherHint`, proved.
   `RolloutServer` implements `RolloutService`, proved with `Quiescent` and `InOrder`; the
   invariants of `BatchingEngine`, proved; the safety properties of `AsyncRollout`, proved; those
   of `Packing`, `PackedIndex` and `DataFeeding`, and of `TrainedTurns`, proved.
2. Nothing is left of the proofs that were planned: what is not proved is said above, under
   "Only model-checked".
