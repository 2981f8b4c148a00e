----------------------------- MODULE EngineSync -----------------------------
(***************************************************************************)
(* How a trainer brings its student into a rollout engine that shares its  *)
(* device, or runs as a server.  The engine may sleep between generations, *)
(* keeping its weights (level 1) or not (level 2); the student may be moved *)
(* out of the way while the engine generates.  Weights are sent in full,   *)
(* group by group, a LoRA adapter merged into each group while it is sent; *)
(* or, if the engine can load adapters, in full once and after that as an  *)
(* adapter of the engine's own.  The model follows the layers that have an *)
(* adapter (all of them, without LoRA).                                    *)
(*                                                                         *)
(* A student is the sequence of its optimizer steps, each with the life of *)
(* the training that took it.  What a group of the engine's parameters     *)
(* holds is named by the student that was merged into it, or Base.         *)
(*                                                                         *)
(* Sources: swift/rlhf_trainers/rollout_mixin.py, gkd_trainer.py,          *)
(* swift/infer_engine/grpo_vllm_engine.py.                                 *)
(***************************************************************************)
EXTENDS Integers, Sequences

CONSTANTS
    NumGroups,      \* parameter groups, if there are batches
    MaxSteps,       \* optimizer steps of the training
    MaxLives,       \* how often the training is started
    Base,           \* the model without an adapter
    None,           \* no weights, no adapter
    Setups          \* the arguments to choose from

SetupRecords ==
    [colocate : BOOLEAN,
     lora : BOOLEAN,            \* tuner_type
     batches : BOOLEAN,         \* move_model_batches is set
     enableLora : BOOLEAN,      \* self.rollout_enable_lora
     fsdp2 : BOOLEAN,
     sleepLevel : 0..2,
     tags : BOOLEAN,            \* wake_up takes tags
     offload : BOOLEAN,         \* offload_model
     zero : BOOLEAN]            \* the first adapter adds nothing

ASSUME EngineAssumption ==
    /\ NumGroups \in Nat \ {0} /\ MaxSteps \in Nat /\ MaxLives \in Nat \ {0}
    /\ Setups \subseteq SetupRecords
    /\ \A s \in Setups : /\ s.enableLora => s.lora
                         /\ ~s.colocate => s.sleepLevel = 0 /\ ~s.offload

\* Neither Base nor None is a student.
ASSUME NamesAssumption ==
    /\ Base # None
    /\ Base \notin Seq(1..MaxLives) /\ None \notin Seq(1..MaxLives)

VARIABLES
    setup,
    pc,             \* where _fast_infer is
    student,        \* the trainer's weights
    merged,         \* the groups whose LoraLayers are merged
    group,          \* the group being sent
    baseSyncDone,   \* self.base_sync_done
    lastLoaded,     \* self._last_loaded_step
    onDevice,       \* the student is in device memory
    params,         \* what each group of the engine's parameters holds
    lora,           \* the adapter the engine holds, one at most
    cache,          \* the weights the cached prefixes were computed with
    asleep,         \* the parts of the engine that were put to sleep
    first,          \* the student this life sent in full first
    added,          \* this life has sent an adapter
    checkpoint, life

trainerVars == <<student, checkpoint, life>>
loadVars == <<merged, group, baseSyncDone, first, added>>
engineVars == <<params, lora, cache, asleep>>
vars == <<setup, pc, trainerVars, loadVars, lastLoaded, onDevice, engineVars>>

-----------------------------------------------------------------------------
Groups == 1..NumGroups
Students == Seq(1..MaxLives)
Parts == {"weights", "kv_cache"}
GlobalStep == Len(student)

Sleeps == setup.colocate /\ setup.sleepLevel > 0

\* Weights that a merge with the adapter of w leaves as they are.
Zero(w) == w = Base \/ (w = <<>> /\ setup.lora /\ setup.zero)

\* Whether, after a first time, adapters are sent instead of weights.
AdapterSync == setup.lora /\ setup.enableLora /\ setup.sleepLevel # 2

EngineWeights == [params |-> params, lora |-> lora]

Contents == [Groups -> Students \cup {Base, None}]

TypeOK ==
    /\ setup \in Setups
    /\ pc \in {"idle", "load", "merge", "send", "unmerge", "raise", "adapter", "reset",
               "offload", "kv", "generate", "sleep", "return", "failed"}
    /\ student \in Students /\ checkpoint \in Students
    /\ merged \subseteq Groups /\ group \in Groups
    /\ baseSyncDone \in BOOLEAN /\ added \in BOOLEAN /\ onDevice \in BOOLEAN
    /\ lastLoaded \in Int
    /\ params \in Contents
    /\ lora \in Students \cup {None} /\ first \in Students \cup {None}
    /\ cache \subseteq [params : Contents, lora : Students \cup {None}]
    /\ asleep \subseteq Parts
    /\ life \in 1..MaxLives

\* _prepare_vllm: the engine is made of dummy weights and put to sleep.
NewEngine ==
    /\ params' = [g \in Groups |-> None] /\ lora' = None /\ cache' = {}
    /\ asleep' = IF Sleeps THEN Parts ELSE {}

Init ==
    /\ setup \in Setups
    /\ pc = "idle"
    /\ student = <<>> /\ checkpoint = <<>> /\ life = 1
    /\ merged = {} /\ group = 1 /\ baseSyncDone = FALSE /\ lastLoaded = -1
    /\ first = None /\ added = FALSE /\ onDevice = TRUE
    /\ params = [g \in Groups |-> None] /\ lora = None /\ cache = {}
    /\ asleep = IF Sleeps THEN Parts ELSE {}

-----------------------------------------------------------------------------
\* An optimizer step, and perhaps a checkpoint.  There may be any number of
\* generations between two of them, or none.
Train ==
    /\ pc = "idle" /\ GlobalStep < MaxSteps
    /\ student' = Append(student, life)
    /\ checkpoint' \in {checkpoint, student'}
    /\ UNCHANGED <<setup, pc, life, loadVars, lastLoaded, onDevice, engineVars>>

\* _fast_infer: an engine that sleeps is woken, its weights alone if it can.
FastInfer ==
    /\ pc = "idle"
    /\ asleep' = IF ~Sleeps THEN asleep
                 ELSE IF setup.tags THEN asleep \ {"weights"} ELSE {}
    /\ pc' = "load"
    /\ UNCHANGED <<setup, trainerVars, loadVars, lastLoaded, onDevice, params, lora, cache>>

NeedsLoading_StepOnly == GlobalStep # lastLoaded  \* mutant: at level 2 as well
NeedsLoading == GlobalStep # lastLoaded \/ setup.sleepLevel = 2

\* _move_model_to_vllm: which of the two ways it takes.
InFull == ~setup.lora \/ ~baseSyncDone \/ setup.sleepLevel = 2 \/ ~setup.enableLora
MoveModel ==
    /\ pc = "load"
    /\ pc' = IF ~NeedsLoading THEN "offload" ELSE IF InFull THEN "merge" ELSE "adapter"
    /\ group' = 1
    /\ UNCHANGED <<setup, trainerVars, merged, baseSyncDone, first, added, lastLoaded,
                   onDevice, engineVars>>

\* The layers of the group being sent.
Current == IF setup.batches THEN {group} ELSE Groups

\* merge_adapter, restricted to these layers.
Merge ==
    /\ pc = "merge"
    /\ merged' = IF setup.lora /\ ~setup.fsdp2 THEN Current ELSE {}
    /\ pc' = "send"
    /\ UNCHANGED <<setup, trainerVars, group, baseSyncDone, first, added, lastLoaded,
                   onDevice, engineVars>>

\* split_batches asks whether the engine loads adapters before that is known,
\* and prepares the names of an engine that does not: of one that does, the
\* layers with an adapter are then filtered out of what is sent.
Filtered == setup.batches /\ setup.enableLora

\* What is sent of a group.  FSDP2 merges tensors, and by names that the
\* parameters have only if the engine does not load adapters.
Collected(g) ==
    IF ~setup.lora \/ g \in merged \/ (setup.fsdp2 /\ ~setup.enableLora)
    THEN student ELSE Base

Send ==
    /\ pc = "send"
    /\ params' = IF Filtered THEN params
                 ELSE [g \in Groups |-> IF g \in Current THEN Collected(g) ELSE params[g]]
    /\ pc' = "unmerge"
    /\ UNCHANGED <<setup, trainerVars, loadVars, lastLoaded, onDevice, lora, cache, asleep>>

SendFails ==
    /\ pc = "send"
    /\ pc' = "raise"
    /\ UNCHANGED <<setup, trainerVars, loadVars, lastLoaded, onDevice, engineVars>>

MoreGroups_OnePast == setup.batches /\ group <= NumGroups  \* mutant
MoreGroups == setup.batches /\ group < NumGroups

\* finally: unmerge_adapter.
Unmerge ==
    /\ merged' = {}
    /\ \/ /\ pc = "raise" /\ pc' = "failed"
          /\ UNCHANGED <<group, baseSyncDone, first>>
       \/ /\ pc = "unmerge" /\ MoreGroups
          /\ pc' = "merge" /\ group' = group + 1
          /\ UNCHANGED <<baseSyncDone, first>>
       \/ /\ pc = "unmerge" /\ ~MoreGroups
          /\ pc' = "reset"
          /\ baseSyncDone' = (baseSyncDone \/ setup.lora)
          /\ first' = IF first = None THEN student ELSE first
          /\ UNCHANGED group
    /\ UNCHANGED <<setup, trainerVars, added, lastLoaded, onDevice, engineVars>>

\* _move_adapter_to_vllm: the engine keeps the newest adapter.
MoveAdapter ==
    /\ pc = "adapter"
    /\ lora' = student
    /\ added' = TRUE
    /\ pc' = "reset"
    /\ UNCHANGED <<setup, trainerVars, merged, group, baseSyncDone, first, lastLoaded,
                   onDevice, params, cache, asleep>>

\* reset_prefix_cache, and the step is remembered.
Reset ==
    /\ pc = "reset"
    /\ cache' = {}
    /\ lastLoaded' = GlobalStep
    /\ pc' = "offload"
    /\ UNCHANGED <<setup, trainerVars, loadVars, onDevice, params, lora, asleep>>

\* offload_context is entered, and what still sleeps of the engine is woken.
Offload ==
    /\ pc = "offload"
    /\ onDevice' = ~setup.offload
    /\ pc' = "kv"
    /\ UNCHANGED <<setup, trainerVars, loadVars, lastLoaded, engineVars>>

WakeKvCache ==
    /\ pc = "kv"
    /\ asleep' = IF setup.colocate /\ setup.tags THEN asleep \ {"kv_cache"} ELSE asleep
    /\ pc' = "generate"
    /\ UNCHANGED <<setup, trainerVars, loadVars, lastLoaded, onDevice, params, lora, cache>>

\* The engine answers: any number of turns.  It takes the adapter it has.
Generate ==
    /\ pc = "generate"
    /\ cache' = cache \cup {EngineWeights}
    /\ pc' \in {"generate", "sleep"}
    /\ UNCHANGED <<setup, trainerVars, loadVars, lastLoaded, onDevice, params, lora, asleep>>

\* It raises: the student comes back, and the training ends.
GenerateFails ==
    /\ pc = "generate"
    /\ onDevice' = TRUE
    /\ pc' = "failed"
    /\ UNCHANGED <<setup, trainerVars, loadVars, lastLoaded, engineVars>>

\* Still inside offload_context.
Sleep_Return ==  \* mutant: after the context, when the student is back
    /\ pc = "sleep"
    /\ onDevice' = TRUE
    /\ pc' = "return"
    /\ UNCHANGED <<setup, trainerVars, loadVars, lastLoaded, engineVars>>
Sleep ==
    /\ pc = "sleep"
    /\ IF Sleeps
       THEN /\ cache' = {} /\ asleep' = Parts
            /\ params' = IF setup.sleepLevel = 2 THEN [g \in Groups |-> None] ELSE params
       ELSE UNCHANGED <<cache, asleep, params>>
    /\ pc' = "return"
    /\ UNCHANGED <<setup, trainerVars, loadVars, lastLoaded, onDevice, lora>>

Return ==
    /\ pc = "return"
    /\ onDevice' = TRUE
    /\ pc' = "idle"
    /\ UNCHANGED <<setup, trainerVars, loadVars, lastLoaded, engineVars>>

\* Killed, or ended by an error, and started again.  A server lives on, if
\* it was not waiting for weights, or is started again as well.
Restart ==
    /\ life < MaxLives
    /\ life' = life + 1
    /\ student' = checkpoint
    /\ pc' = "idle" /\ merged' = {} /\ group' = 1 /\ baseSyncDone' = FALSE
    /\ lastLoaded' = -1 /\ first' = None /\ added' = FALSE /\ onDevice' = TRUE
    /\ \/ NewEngine
       \/ /\ ~setup.colocate /\ pc \notin {"send", "adapter", "raise"}
          /\ UNCHANGED engineVars
    /\ UNCHANGED <<setup, checkpoint>>

Next ==
    \/ Train \/ FastInfer \/ MoveModel \/ Merge \/ Send \/ SendFails \/ Unmerge
    \/ MoveAdapter \/ Reset \/ Offload \/ WakeKvCache \/ Generate \/ GenerateFails
    \/ Sleep \/ Return \/ Restart

Spec == Init /\ [][Next]_vars

-----------------------------------------------------------------------------
\* The engine's weights are the student's: merged into the parameters, or
\* added to parameters into which nothing was merged.
IsStudent(g) ==
    \/ params[g] = student /\ (lora = None \/ Zero(lora))
    \/ params[g] # None /\ Zero(params[g]) /\ lora = student
    \/ params[g] = Base /\ Zero(student) /\ (lora = None \/ Zero(lora))

\* Besides, the engine adds up something else in three cases.  Adapters are
\* sent after a first student that had one: it was merged into the parameters
\* and stays there, or with FSDP2 it was left out.  FSDP2 leaves out the
\* adapter at sleep level 2 as well, where it is never sent by itself.  And a
\* server still holds the adapter of a trainer before.
FromZero == AdapterSync /\ first # None => Zero(first)
NeverMerged == setup.fsdp2 /\ setup.enableLora /\ setup.sleepLevel = 2
Leftover == lora # None /\ ~added
Plain == ~Filtered /\ FromZero /\ ~NeverMerged /\ ~Leftover

\* That the names are filtered by whether the engine loads adapters, as
\* split_batches says: when it generates, the engine has been given all of its
\* weights.
HasAllWeights == pc = "generate" => \A g \in Groups : params[g] # None

\* Whenever the engine generates, and it may do so often between two optimizer
\* steps, or not for many, before and after it slept, it does with the
\* student's weights of that step and prefixes computed with nothing else.
GeneratesWithStudent ==
    pc = "generate" /\ Plain =>
        /\ "weights" \notin asleep
        /\ \A g \in Groups : IsStudent(g)
        /\ cache \subseteq {EngineWeights}

\* The engine's cache and the student, when it is to be offloaded, are never in
\* device memory together, and training has the device to itself, without an
\* adapter that was left in the student's weights.
TakesTurns ==
    /\ Sleeps /\ setup.tags /\ setup.offload /\ pc # "failed" =>
        "kv_cache" \in asleep \/ ~onDevice
    /\ pc = "idle" => onDevice /\ merged = {} /\ (Sleeps => asleep = Parts)

=============================================================================
