-------------------------- MODULE EngineSyncProofs --------------------------
(***************************************************************************)
(* For any number of groups, steps and restarts: EngineSync is well typed, *)
(* engine and student take turns on the device, and the engine generates   *)
(* with the student.                                                       *)
(***************************************************************************)
EXTENDS EngineSync, TLAPS

LEMMA Constants ==
    /\ NumGroups \in Nat \ {0} /\ MaxLives \in Nat \ {0} /\ MaxSteps \in Nat
    /\ Base # None /\ Base \notin Students /\ None \notin Students
  BY EngineAssumption, NamesAssumption DEF Students

\* What the arguments promise each other.
LEMMA SetupType ==
    ASSUME setup \in Setups
    PROVE  /\ setup.colocate \in BOOLEAN /\ setup.lora \in BOOLEAN
           /\ setup.batches \in BOOLEAN /\ setup.enableLora \in BOOLEAN
           /\ setup.fsdp2 \in BOOLEAN /\ setup.sleepLevel \in 0..2
           /\ setup.tags \in BOOLEAN /\ setup.offload \in BOOLEAN
           /\ setup.zero \in BOOLEAN
           /\ setup.enableLora => setup.lora
           /\ ~setup.colocate => setup.sleepLevel = 0 /\ ~setup.offload
  BY EngineAssumption DEF SetupRecords

-----------------------------------------------------------------------------
(* Types.                                                                  *)

LEMMA GroupType == 1 \in Groups
  BY Constants DEF Groups

LEMMA NoContents == [g \in Groups |-> None] \in Contents
  BY DEF Contents

LEMMA TypeInit == Init => TypeOK
<1> SUFFICES ASSUME Init PROVE TypeOK
  OBVIOUS
<1>1. <<>> \in Students /\ 1 \in 1..MaxLives
  BY Constants DEF Students
<1>2. asleep \subseteq Parts
  BY DEF Init
<1>3. lastLoaded \in Int /\ pc = "idle" /\ cache = {} /\ merged = {}
  BY DEF Init
<1>4. QED
  BY <1>1, <1>2, <1>3, GroupType, NoContents DEF Init, TypeOK

LEMMA EngineType ==
    ASSUME TypeOK
    PROVE  /\ EngineWeights \in [params : Contents, lora : Students \cup {None}]
           /\ GlobalStep \in Nat
  BY DEF TypeOK, EngineWeights, GlobalStep, Students

LEMMA CollectedType ==
    ASSUME TypeOK, NEW g \in Groups PROVE Collected(g) \in Students \cup {Base, None}
  BY DEF TypeOK, Collected

LEMMA TypeTrain == TypeOK /\ Train => TypeOK'
<1> SUFFICES ASSUME TypeOK, Train PROVE TypeOK'
  OBVIOUS
<1>1. student' \in Students
  BY DEF TypeOK, Train, Students
<1>2. checkpoint' \in Students
  BY <1>1 DEF TypeOK, Train
<1>3. QED
  BY <1>1, <1>2 DEF TypeOK, Train, loadVars, engineVars

LEMMA TypeSend == TypeOK /\ Send => TypeOK'
<1> SUFFICES ASSUME TypeOK, Send PROVE TypeOK'
  OBVIOUS
<1>1. params' \in Contents
  <2>1. CASE Filtered
    BY <2>1 DEF TypeOK, Send
  <2>2. CASE ~Filtered
    <3>1. \A g \in Groups :
              (IF g \in Current THEN Collected(g) ELSE params[g]) \in Students \cup {Base, None}
      BY CollectedType DEF TypeOK, Contents
    <3>2. params' = [g \in Groups |-> IF g \in Current THEN Collected(g) ELSE params[g]]
      BY <2>2 DEF Send
    <3>3. QED
      BY <3>1, <3>2 DEF Contents
  <2>3. QED
    BY <2>1, <2>2
<1>2. QED
  BY <1>1 DEF TypeOK, Send, trainerVars, loadVars

LEMMA TypeUnmerge == TypeOK /\ Unmerge => TypeOK'
<1> SUFFICES ASSUME TypeOK, Unmerge PROVE TypeOK'
  OBVIOUS
<1>1. group' \in Groups
  BY Constants DEF TypeOK, Unmerge, MoreGroups, Groups
<1>2. baseSyncDone' \in BOOLEAN
  BY DEF TypeOK, Unmerge
<1>3. first' \in Students \cup {None}
  BY DEF TypeOK, Unmerge
<1>4. pc' \in {"failed", "merge", "reset"}
  BY DEF Unmerge
<1>5. merged' \subseteq Groups
  BY DEF Unmerge
<1>6. QED
  BY <1>1, <1>2, <1>3, <1>4, <1>5 DEF TypeOK, Unmerge, trainerVars, engineVars

LEMMA TypeRestart == TypeOK /\ Restart => TypeOK'
<1> SUFFICES ASSUME TypeOK, Restart PROVE TypeOK'
  OBVIOUS
<1>1. life' \in 1..MaxLives
  BY Constants DEF TypeOK, Restart
<1>2. /\ params' \in Contents /\ lora' \in Students \cup {None} /\ asleep' \subseteq Parts
      /\ cache' \subseteq [params : Contents, lora : Students \cup {None}]
  <2>1. CASE NewEngine
    BY <2>1, NoContents DEF NewEngine
  <2>2. CASE UNCHANGED engineVars
    BY <2>2 DEF engineVars, TypeOK
  <2>3. QED
    BY <2>1, <2>2 DEF Restart
<1>3. /\ pc' = "idle" /\ merged' = {} /\ group' = 1 /\ baseSyncDone' = FALSE
      /\ lastLoaded' = -1 /\ first' = None /\ added' = FALSE /\ onDevice' = TRUE
      /\ student' = checkpoint /\ UNCHANGED <<setup, checkpoint>>
  BY DEF Restart
<1>4. /\ setup' \in Setups /\ student' \in Students /\ checkpoint' \in Students
      /\ merged' \subseteq Groups /\ group' \in Groups /\ lastLoaded' \in Int
  BY <1>3, GroupType DEF TypeOK
<1>5. QED
  BY <1>1, <1>2, <1>3, <1>4 DEF TypeOK

LEMMA TypeStep == TypeOK /\ [Next]_vars => TypeOK'
<1> SUFFICES ASSUME TypeOK, [Next]_vars PROVE TypeOK'
  OBVIOUS
<1>1. CASE Train
  BY <1>1, TypeTrain
<1>2. CASE FastInfer
  BY <1>2 DEF TypeOK, FastInfer, trainerVars, loadVars
<1>3. CASE MoveModel
  BY <1>3, GroupType DEF TypeOK, MoveModel, trainerVars, engineVars
<1>4. CASE Merge
  <2>1. merged' \subseteq Groups
    BY <1>4 DEF TypeOK, Merge, Current
  <2>2. QED
    BY <1>4, <2>1 DEF TypeOK, Merge, trainerVars, engineVars
<1>5. CASE Send
  BY <1>5, TypeSend
<1>6. CASE SendFails
  BY <1>6 DEF TypeOK, SendFails, trainerVars, loadVars, engineVars
<1>7. CASE Unmerge
  BY <1>7, TypeUnmerge
<1>8. CASE MoveAdapter
  BY <1>8 DEF TypeOK, MoveAdapter, trainerVars
<1>9. CASE Reset
  <2>1. lastLoaded' \in Int /\ cache' = {}
    BY <1>9, EngineType DEF Reset
  <2>2. QED
    BY <1>9, <2>1 DEF TypeOK, Reset, trainerVars, loadVars
<1>10. CASE Offload
  <2>1. onDevice' \in BOOLEAN
    BY <1>10, SetupType DEF TypeOK, Offload
  <2>2. QED
    BY <1>10, <2>1 DEF TypeOK, Offload, trainerVars, loadVars, engineVars
<1>11. CASE WakeKvCache
  BY <1>11 DEF TypeOK, WakeKvCache, trainerVars, loadVars
<1>12. CASE Generate
  <2>1. cache' \subseteq [params : Contents, lora : Students \cup {None}]
    BY <1>12, EngineType DEF TypeOK, Generate
  <2>2. QED
    BY <1>12, <2>1 DEF TypeOK, Generate, trainerVars, loadVars
<1>13. CASE GenerateFails
  BY <1>13 DEF TypeOK, GenerateFails, trainerVars, loadVars, engineVars
<1>14. CASE Sleep
  <2>1. params' \in Contents /\ asleep' \subseteq Parts
    BY <1>14, NoContents DEF TypeOK, Sleep
  <2>2. cache' \subseteq [params : Contents, lora : Students \cup {None}]
    BY <1>14 DEF TypeOK, Sleep
  <2>3. QED
    BY <1>14, <2>1, <2>2 DEF TypeOK, Sleep, trainerVars, loadVars
<1>15. CASE Return
  BY <1>15 DEF TypeOK, Return, trainerVars, loadVars, engineVars
<1>16. CASE Restart
  BY <1>16, TypeRestart
<1>17. CASE UNCHANGED vars
  BY <1>17 DEF TypeOK, vars, trainerVars, loadVars, engineVars
<1>18. QED
  BY <1>1, <1>2, <1>3, <1>4, <1>5, <1>6, <1>7, <1>8, <1>9, <1>10, <1>11, <1>12,
     <1>13, <1>14, <1>15, <1>16, <1>17 DEF Next

\* Every reachable state is well typed: _fast_infer, the synchronisation and
\* the training around them.
THEOREM TypeCorrect == Spec => []TypeOK
  BY TypeInit, TypeStep, PTL DEF Spec
-----------------------------------------------------------------------------
(* Whose turn it is on the device.                                         *)

\* Before the student leaves, and after it.
Before == {"idle", "load", "merge", "send", "unmerge", "raise", "adapter", "reset", "offload"}
After == {"kv", "generate", "sleep", "return"}

TurnInv ==
    /\ merged # {} => pc \in {"send", "unmerge", "raise"}
    /\ pc \in Before => onDevice
    /\ pc \in After => (onDevice <=> ~setup.offload)
    /\ Sleeps /\ pc \in {"idle", "return"} => asleep = Parts
    /\ Sleeps /\ setup.tags /\ pc \in Before \cup {"kv"} => "kv_cache" \in asleep

LEMMA TurnInit == Init => TurnInv
  BY SetupType DEF Init, TurnInv, Before, After, Parts

LEMMA TurnStep == TypeOK /\ TurnInv /\ [Next]_vars => TurnInv'
<1> SUFFICES ASSUME TypeOK, TurnInv, [Next]_vars PROVE TurnInv'
  OBVIOUS
<1> USE DEF TurnInv, Before, After, Sleeps
<1>0. setup' = setup
  BY DEF Next, vars, Train, FastInfer, MoveModel, Merge, Send, SendFails, Unmerge,
         MoveAdapter, Reset, Offload, WakeKvCache, Generate, GenerateFails, Sleep,
         Return, Restart
<1>1. CASE Train
  BY <1>1 DEF Train, loadVars, engineVars
<1>2. CASE FastInfer
  BY <1>0, <1>2 DEF FastInfer, loadVars, Parts
<1>3. CASE MoveModel
  BY <1>3 DEF MoveModel, engineVars
<1>4. CASE Merge
  BY <1>4 DEF Merge, engineVars
<1>5. CASE Send
  BY <1>5 DEF Send, loadVars
<1>6. CASE SendFails
  BY <1>6 DEF SendFails, loadVars, engineVars
<1>7. CASE Unmerge
  BY <1>7 DEF Unmerge, engineVars
<1>8. CASE MoveAdapter
  BY <1>8 DEF MoveAdapter
<1>9. CASE Reset
  BY <1>9 DEF Reset, loadVars
<1>10. CASE Offload
  BY <1>10, SetupType DEF TypeOK, Offload, loadVars, engineVars
<1>11. CASE WakeKvCache
  BY <1>11 DEF WakeKvCache, loadVars
<1>12. CASE Generate
  BY <1>12 DEF Generate, loadVars
<1>13. CASE GenerateFails
  BY <1>13 DEF GenerateFails, loadVars, engineVars
<1>14. CASE Sleep
  BY <1>14 DEF Sleep, loadVars
<1>15. CASE Return
  BY <1>15 DEF Return, loadVars, engineVars, Parts
<1>16. CASE Restart
  BY <1>16, SetupType DEF TypeOK, Restart, NewEngine, Parts
<1>17. CASE UNCHANGED vars
  BY <1>17 DEF vars, loadVars, engineVars
<1>18. QED
  BY <1>1, <1>2, <1>3, <1>4, <1>5, <1>6, <1>7, <1>8, <1>9, <1>10, <1>11, <1>12,
     <1>13, <1>14, <1>15, <1>16, <1>17 DEF Next

LEMMA TurnImplies == TypeOK /\ TurnInv => TakesTurns
  BY DEF TypeOK, TurnInv, TakesTurns, Before, After, Parts

\* The engine's cache and an offloaded student are never on the device at once,
\* and training starts again with all of the student and none of the engine.
THEOREM TakesTurnsAlways == Spec => []TakesTurns
<1>1. TypeOK /\ TurnInv /\ [Next]_vars => (TypeOK /\ TurnInv)'
  BY TypeStep, TurnStep
<1>2. Init => TypeOK /\ TurnInv
  BY TypeInit, TurnInit
<1>3. QED
  BY <1>1, <1>2, TurnImplies, PTL DEF Spec
-----------------------------------------------------------------------------
(* What the engine holds.                                                  *)

Syncing == {"merge", "send", "unmerge"}
Generating == {"offload", "kv", "generate", "sleep"}

AllStudent == \A g \in Groups : IsStudent(g)

\* What a synchronisation in full leaves in the engine.
Full == IF setup.lora /\ setup.fsdp2 /\ setup.enableLora THEN Base ELSE student

\* The groups that it has sent so far.
Done(g) == g < group \/ (pc = "unmerge" /\ g \in Current)

\* An engine whose weights are used is awake, and the prefixes it keeps
\* belong to what was loaded last.
AwakeInv ==
    /\ ~Sleeps => asleep = {}
    /\ pc \in Syncing \cup Generating \cup {"load", "raise", "adapter", "reset"}
          => "weights" \notin asleep
    /\ pc \in Generating \cup {"idle", "load", "return"} /\ lastLoaded # -1
          => cache \subseteq {EngineWeights}
    /\ pc \in Generating => lastLoaded # -1
    /\ lastLoaded <= GlobalStep

\* Adapters follow one synchronisation in full, which left the first student
\* in the parameters, or Base.
FirstInv ==
    /\ AdapterSync => (first = None <=> ~baseSyncDone)
    /\ AdapterSync /\ pc \in Syncing => ~baseSyncDone
    /\ pc = "adapter" => AdapterSync
    /\ pc = "adapter" \/ added => baseSyncDone
    /\ added => AdapterSync
    /\ ~Filtered /\ AdapterSync /\ first # None
          => \A g \in Groups : params[g] \in {first, Base}

FullInv ==
    /\ pc = "send" => merged = IF setup.lora /\ ~setup.fsdp2 THEN Current ELSE {}
    /\ ~Filtered /\ pc \in Syncing => \A g \in Groups : Done(g) => params[g] = Full

\* Between a synchronisation and the next optimizer step the engine holds the
\* student, unless it slept at level 2.
RightInv ==
    Plain => /\ pc \in Generating \cup {"reset"} => AllStudent
             /\ /\ pc \in {"idle", "load", "return"}
                /\ lastLoaded = GlobalStep /\ setup.sleepLevel # 2
                => AllStudent

LoadInv == AwakeInv /\ FirstInv /\ FullInv /\ RightInv
LEMMA LoadInit == Init => LoadInv
<1> SUFFICES ASSUME Init PROVE LoadInv
  OBVIOUS
<1>1. GlobalStep = 0 /\ lastLoaded = -1 /\ pc = "idle"
  BY DEF Init, GlobalStep
<1>2. AwakeInv
  BY <1>1 DEF Init, AwakeInv, Syncing, Generating
<1>3. FirstInv
  BY DEF Init, FirstInv, Syncing
<1>4. FullInv
  BY <1>1 DEF FullInv, Syncing
<1>5. RightInv
  BY <1>1 DEF RightInv, Generating
<1>6. QED
  BY <1>2, <1>3, <1>4, <1>5 DEF LoadInv

LEMMA Arguments == [Next]_vars => setup' = setup
  BY DEF Next, vars, Train, FastInfer, MoveModel, Merge, Send, SendFails, Unmerge,
         MoveAdapter, Reset, Offload, WakeKvCache, Generate, GenerateFails, Sleep,
         Return, Restart

LEMMA StepType ==
    ASSUME TypeOK, TypeOK'
    PROVE  GlobalStep \in Nat /\ GlobalStep' \in Nat /\ lastLoaded \in Int /\ lastLoaded' \in Int
  BY DEF TypeOK, GlobalStep, Students

LEMMA AwakeStep == TypeOK /\ TypeOK' /\ AwakeInv /\ [Next]_vars => AwakeInv'
<1> SUFFICES ASSUME TypeOK, TypeOK', AwakeInv, [Next]_vars PROVE AwakeInv'
  OBVIOUS
<1>0. setup' = setup /\ (Sleeps' <=> Sleeps)
  BY Arguments DEF Sleeps
<1> USE <1>0, StepType DEF AwakeInv, Syncing, Generating
<1>1. CASE Train
  <2>1. GlobalStep' = GlobalStep + 1
    BY <1>1 DEF Train, GlobalStep, TypeOK, Students
  <2>2. UNCHANGED <<asleep, lastLoaded, cache, pc>> /\ EngineWeights' = EngineWeights
    BY <1>1 DEF Train, engineVars, EngineWeights
  <2>3. QED
    BY <2>1, <2>2
<1>2. CASE FastInfer
  BY <1>2 DEF FastInfer, GlobalStep, EngineWeights, trainerVars, loadVars, engineVars
<1>3. CASE MoveModel
  BY <1>3 DEF MoveModel, NeedsLoading, GlobalStep, EngineWeights, trainerVars, loadVars, engineVars
<1>4. CASE Merge
  BY <1>4 DEF Merge, GlobalStep, EngineWeights, trainerVars, loadVars, engineVars
<1>5. CASE Send
  BY <1>5 DEF Send, GlobalStep, EngineWeights, trainerVars, loadVars, engineVars
<1>6. CASE SendFails
  BY <1>6 DEF SendFails, GlobalStep, EngineWeights, trainerVars, loadVars, engineVars
<1>7. CASE Unmerge
  BY <1>7 DEF Unmerge, GlobalStep, EngineWeights, trainerVars, loadVars, engineVars
<1>8. CASE MoveAdapter
  BY <1>8 DEF MoveAdapter, GlobalStep, EngineWeights, trainerVars, loadVars, engineVars
<1>9. CASE Reset
  BY <1>9 DEF Reset, GlobalStep, EngineWeights, trainerVars, loadVars, engineVars
<1>10. CASE Offload
  BY <1>10 DEF Offload, GlobalStep, EngineWeights, trainerVars, loadVars, engineVars
<1>11. CASE WakeKvCache
  BY <1>11 DEF WakeKvCache, GlobalStep, EngineWeights, trainerVars, loadVars, engineVars
<1>12. CASE Generate
  BY <1>12 DEF Generate, GlobalStep, EngineWeights, trainerVars, loadVars, engineVars
<1>13. CASE GenerateFails
  BY <1>13 DEF GenerateFails, GlobalStep, EngineWeights, trainerVars, loadVars, engineVars
<1>14. CASE Sleep
  BY <1>14 DEF Sleep, GlobalStep, EngineWeights, trainerVars, loadVars, engineVars
<1>15. CASE Return
  BY <1>15 DEF Return, GlobalStep, EngineWeights, trainerVars, loadVars, engineVars
<1>16. CASE Restart
  BY <1>16, SetupType DEF TypeOK, Restart, NewEngine, Sleeps, engineVars
<1>17. CASE UNCHANGED vars
  BY <1>17 DEF vars, GlobalStep, EngineWeights, trainerVars, loadVars, engineVars
<1>18. QED
  BY <1>1, <1>2, <1>3, <1>4, <1>5, <1>6, <1>7, <1>8, <1>9, <1>10, <1>11, <1>12,
     <1>13, <1>14, <1>15, <1>16, <1>17 DEF Next
LEMMA FirstStep == TypeOK /\ TypeOK' /\ FirstInv /\ FullInv /\ [Next]_vars => FirstInv'
<1> SUFFICES ASSUME TypeOK, TypeOK', FirstInv, FullInv, [Next]_vars PROVE FirstInv'
  OBVIOUS
<1>0. /\ setup' = setup /\ (AdapterSync' <=> AdapterSync) /\ (Filtered' <=> Filtered)
      /\ Groups' = Groups
  BY Arguments DEF AdapterSync, Filtered, Groups
<1> USE <1>0 DEF FirstInv, Syncing
<1>1. CASE Train
  BY <1>1 DEF Train, loadVars, engineVars
<1>2. CASE FastInfer
  BY <1>2 DEF FastInfer, loadVars, engineVars
<1>3. CASE MoveModel
  <2>1. pc' = "merge" /\ AdapterSync => ~baseSyncDone
    BY <1>3 DEF MoveModel, InFull, AdapterSync
  <2>2. pc' = "adapter" => AdapterSync /\ baseSyncDone
    BY <1>3, SetupType DEF TypeOK, MoveModel, InFull, AdapterSync
  <2>3. /\ pc' \in {"offload", "merge", "adapter"}
        /\ UNCHANGED <<baseSyncDone, first, added, params>>
    BY <1>3 DEF MoveModel, engineVars
  <2>4. QED
    BY <2>1, <2>2, <2>3
<1>4. CASE Merge
  BY <1>4 DEF Merge, loadVars, engineVars
<1>5. CASE Send
  <2>1. AdapterSync => first = None
    BY <1>5 DEF Send
  <2>2. pc' = "unmerge" /\ UNCHANGED <<baseSyncDone, first, added>>
    BY <1>5 DEF Send, loadVars
  <2>3. QED
    BY <1>5, <2>1, <2>2 DEF Send
<1>6. CASE SendFails
  BY <1>6 DEF SendFails, loadVars, engineVars
<1>7. CASE Unmerge
  <2>1. CASE pc' # "reset"
    BY <1>7, <2>1 DEF Unmerge, engineVars
  <2>2. CASE pc' = "reset"
    <3>1. /\ pc = "unmerge" /\ ~MoreGroups /\ UNCHANGED <<params, added>>
          /\ baseSyncDone' = (baseSyncDone \/ setup.lora)
          /\ first' = IF first = None THEN student ELSE first
      BY <1>7, <2>2 DEF Unmerge, engineVars
    <3>2. AdapterSync => first' = student /\ first' # None /\ baseSyncDone'
      BY <3>1, Constants DEF AdapterSync, TypeOK
    <3>3. \A g \in Groups : Done(g)
      BY <3>1, Constants DEF Done, Current, MoreGroups, Groups, TypeOK
    <3>4. ~Filtered => \A g \in Groups : params[g] \in {student, Base}
      BY <3>1, <3>3 DEF FullInv, Full, Syncing
    <3>5. added' => baseSyncDone'
      BY <3>1
    <3>6. ~Filtered /\ AdapterSync => \A g \in Groups : params'[g] \in {first', Base}
      BY <3>1, <3>2, <3>4
    <3>7. QED
      BY <2>2, <3>1, <3>2, <3>5, <3>6
  <2>3. QED
    BY <2>1, <2>2
<1>8. CASE MoveAdapter
  BY <1>8 DEF MoveAdapter, loadVars, engineVars
<1>9. CASE Reset
  BY <1>9 DEF Reset, loadVars, engineVars
<1>10. CASE Offload
  BY <1>10 DEF Offload, loadVars, engineVars
<1>11. CASE WakeKvCache
  BY <1>11 DEF WakeKvCache, loadVars, engineVars
<1>12. CASE Generate
  BY <1>12 DEF Generate, loadVars, engineVars
<1>13. CASE GenerateFails
  BY <1>13 DEF GenerateFails, loadVars, engineVars
<1>14. CASE Sleep
  BY <1>14 DEF Sleep, AdapterSync, loadVars
<1>15. CASE Return
  BY <1>15 DEF Return, loadVars, engineVars
<1>16. CASE Restart
  BY <1>16 DEF Restart
<1>17. CASE UNCHANGED vars
  BY <1>17 DEF vars, loadVars, engineVars
<1>18. QED
  BY <1>1, <1>2, <1>3, <1>4, <1>5, <1>6, <1>7, <1>8, <1>9, <1>10, <1>11, <1>12,
     <1>13, <1>14, <1>15, <1>16, <1>17 DEF Next

LEMMA FullStep == TypeOK /\ TypeOK' /\ FullInv /\ [Next]_vars => FullInv'
<1> SUFFICES ASSUME TypeOK, TypeOK', FullInv, [Next]_vars PROVE FullInv'
  OBVIOUS
<1>0. setup' = setup /\ (Filtered' <=> Filtered) /\ Groups' = Groups
  BY Arguments DEF Filtered, Groups
<1> USE <1>0 DEF FullInv, Syncing
<1>1. CASE Train
  BY <1>1 DEF Train
<1>2. CASE FastInfer
  BY <1>2 DEF FastInfer
<1>3. CASE MoveModel
  <2>1. pc' \in {"offload", "merge", "adapter"} /\ group' = 1
    BY <1>3 DEF MoveModel
  <2>2. \A g \in Groups : ~Done(g)'
    BY <2>1 DEF Done, Groups
  <2>3. QED
    BY <2>1, <2>2
<1>4. CASE Merge
  <2>1. /\ pc = "merge" /\ pc' = "send" /\ UNCHANGED <<group, params, student>>
        /\ merged' = IF setup.lora /\ ~setup.fsdp2 THEN Current ELSE {}
    BY <1>4 DEF Merge, trainerVars, engineVars
  <2>2. Full' = Full /\ Current' = Current
    BY <2>1 DEF Full, Current, Groups
  <2>3. \A g \in Groups : Done(g)' <=> Done(g)
    BY <2>1 DEF Done
  <2>4. QED
    BY <2>1, <2>2, <2>3
<1>5. CASE Send
  <2>1. /\ pc = "send" /\ pc' = "unmerge" /\ UNCHANGED <<group, student>>
        /\ ~Filtered => params' = [g \in Groups |->
                                    IF g \in Current THEN Collected(g) ELSE params[g]]
    BY <1>5 DEF Send, trainerVars, loadVars
  <2>2. Full' = Full /\ Current' = Current
    BY <2>1 DEF Full, Current, Groups
  <2>3. \A g \in Groups : Done(g)' => Done(g) \/ g \in Current
    BY <2>1, <2>2 DEF Done
  <2>4. \A g \in Current : Collected(g) = Full
    BY <2>1 DEF Collected, Full
  <2>5. ~Filtered => \A g \in Groups : Done(g)' => params'[g] = Full'
    BY <2>1, <2>2, <2>3, <2>4
  <2>6. QED
    BY <2>1, <2>5
<1>6. CASE SendFails
  BY <1>6 DEF SendFails
<1>7. CASE Unmerge
  <2>1. CASE pc' # "merge"
    BY <1>7, <2>1 DEF Unmerge
  <2>2. CASE pc' = "merge"
    <3>1. /\ pc = "unmerge" /\ setup.batches /\ group' = group + 1
          /\ UNCHANGED <<params, student>>
      BY <1>7, <2>2 DEF Unmerge, MoreGroups, trainerVars, engineVars
    <3>2. Full' = Full
      BY <3>1 DEF Full
    <3>3. \A g \in Groups : Done(g)' => Done(g)
      BY <2>2, <3>1 DEF Done, Current, Groups, TypeOK
    <3>4. QED
      BY <2>2, <3>1, <3>2, <3>3
  <2>3. QED
    BY <2>1, <2>2
<1>8. CASE MoveAdapter
  BY <1>8 DEF MoveAdapter
<1>9. CASE Reset
  BY <1>9 DEF Reset
<1>10. CASE Offload
  BY <1>10 DEF Offload
<1>11. CASE WakeKvCache
  BY <1>11 DEF WakeKvCache
<1>12. CASE Generate
  BY <1>12 DEF Generate
<1>13. CASE GenerateFails
  BY <1>13 DEF GenerateFails
<1>14. CASE Sleep
  BY <1>14 DEF Sleep
<1>15. CASE Return
  BY <1>15 DEF Return
<1>16. CASE Restart
  BY <1>16 DEF Restart
<1>17. CASE UNCHANGED vars
  BY <1>17 DEF vars, trainerVars, loadVars, engineVars, Full, Done, Current
<1>18. QED
  BY <1>1, <1>2, <1>3, <1>4, <1>5, <1>6, <1>7, <1>8, <1>9, <1>10, <1>11, <1>12,
     <1>13, <1>14, <1>15, <1>16, <1>17 DEF Next
\* What IsStudent and Plain read.
LEMMA SameWeights ==
    ASSUME UNCHANGED <<setup, student, params, lora, first, added>>
    PROVE  (Plain' <=> Plain) /\ (AllStudent' <=> AllStudent) /\ GlobalStep' = GlobalStep
<1>1. (Plain' <=> Plain) /\ GlobalStep' = GlobalStep
  BY DEF Plain, Filtered, FromZero, AdapterSync, Zero, NeverMerged, Leftover, GlobalStep
<1>2. \A g \in Groups : IsStudent(g)' <=> IsStudent(g)
  BY DEF IsStudent, Zero
<1>3. QED
  BY <1>1, <1>2 DEF AllStudent, Groups

\* After the last group of a synchronisation in full.
LEMMA RightUnmerge ==
    ASSUME TypeOK, FirstInv, FullInv, Unmerge, pc' = "reset", Plain'
    PROVE  AllStudent'
<1>1. /\ pc = "unmerge" /\ ~MoreGroups
      /\ UNCHANGED <<setup, student, params, lora, added>>
      /\ first' = IF first = None THEN student ELSE first
  BY DEF Unmerge, trainerVars, engineVars
<1>2. \A g \in Groups : Done(g)
  BY <1>1, Constants DEF Done, Current, MoreGroups, Groups, TypeOK
<1>3. ~Filtered /\ ~NeverMerged /\ ~(lora # None /\ ~added) /\ FromZero'
  BY <1>1 DEF Plain, Filtered, NeverMerged, Leftover
<1>4. \A g \in Groups : params[g] = Full
  BY <1>1, <1>2, <1>3 DEF FullInv, Syncing
<1>5. AdapterSync => ~baseSyncDone /\ first = None
  BY <1>1 DEF FirstInv, Syncing
<1>6. lora = None
  BY <1>3, <1>5 DEF FirstInv
<1>7. CASE setup.lora /\ setup.fsdp2 /\ setup.enableLora
  <2>1. AdapterSync
    BY <1>3, <1>7 DEF NeverMerged, AdapterSync
  <2>2. first' = student /\ student # None
    BY <1>1, <1>5, <2>1, Constants DEF TypeOK
  <2>3. AdapterSync'
    BY <1>1, <2>1 DEF AdapterSync
  <2>4. Zero(student)'
    BY <1>1, <1>3, <2>2, <2>3 DEF FromZero, Zero
  <2>5. \A g \in Groups : IsStudent(g)'
    BY <1>1, <1>4, <1>6, <1>7, <2>4 DEF IsStudent, Full
  <2>6. QED
    BY <2>5 DEF AllStudent, Groups
<1>8. CASE ~(setup.lora /\ setup.fsdp2 /\ setup.enableLora)
  <2>1. \A g \in Groups : IsStudent(g)'
    BY <1>1, <1>4, <1>6, <1>8 DEF IsStudent, Full
  <2>2. QED
    BY <2>1 DEF AllStudent, Groups
<1>9. QED
  BY <1>7, <1>8

\* After an adapter was sent.
LEMMA RightAdapter ==
    ASSUME TypeOK, FirstInv, MoveAdapter, Plain'
    PROVE  AllStudent'
<1>1. /\ pc = "adapter" /\ UNCHANGED <<setup, student, params, first>> /\ lora' = student
  BY DEF MoveAdapter, trainerVars
<1>2. AdapterSync /\ baseSyncDone /\ first # None
  BY <1>1 DEF FirstInv
<1>3. ~Filtered /\ AdapterSync' /\ FromZero'
  BY <1>1, <1>2 DEF Plain, Filtered, AdapterSync
<1>4. Zero(first)' /\ Zero(Base)'
  BY <1>1, <1>2, <1>3 DEF FromZero, Zero
<1>5. \A g \in Groups : params[g] \in {first, Base}
  BY <1>2, <1>3 DEF FirstInv
<1>6. \A g \in Groups : params[g] # None /\ Zero(params[g])'
  BY <1>1, <1>2, <1>4, <1>5, Constants DEF Zero
<1>7. \A g \in Groups : IsStudent(g)'
  BY <1>1, <1>6 DEF IsStudent, Zero
<1>8. QED
  BY <1>7 DEF AllStudent, Groups

LEMMA RightStep ==
    TypeOK /\ TypeOK' /\ AwakeInv /\ FirstInv /\ FullInv /\ RightInv /\ [Next]_vars => RightInv'
<1> SUFFICES ASSUME TypeOK, TypeOK', AwakeInv, FirstInv, FullInv, RightInv, [Next]_vars
             PROVE  RightInv'
  OBVIOUS
<1>0. setup' = setup
  BY Arguments
<1> USE <1>0 DEF RightInv, Generating
<1>1. CASE Train
  <2>1. GlobalStep' = GlobalStep + 1 /\ GlobalStep \in Nat /\ lastLoaded \in Int
    BY <1>1 DEF Train, GlobalStep, TypeOK, Students
  <2>2. lastLoaded' # GlobalStep' /\ pc' = "idle"
    BY <1>1, <2>1 DEF Train, AwakeInv
  <2>3. QED
    BY <2>2
<1>2. CASE FastInfer
  <2>1. UNCHANGED <<setup, student, params, lora, first, added>>
    BY <1>2 DEF FastInfer, trainerVars, loadVars, engineVars
  <2>2. QED
    BY <1>2, <2>1, SameWeights DEF FastInfer
<1>3. CASE MoveModel
  <2>1. UNCHANGED <<setup, student, params, lora, first, added>>
    BY <1>3 DEF MoveModel, trainerVars, engineVars
  <2>2. pc = "load" /\ pc' \in {"offload", "merge", "adapter"}
    BY <1>3 DEF MoveModel
  <2>3. pc' = "offload" => lastLoaded = GlobalStep /\ setup.sleepLevel # 2
    BY <1>3 DEF MoveModel, NeedsLoading
  <2>4. QED
    BY <2>1, <2>2, <2>3, SameWeights
<1>4. CASE Merge
  BY <1>4 DEF Merge
<1>5. CASE Send
  BY <1>5 DEF Send
<1>6. CASE SendFails
  BY <1>6 DEF SendFails
<1>7. CASE Unmerge
  <2>1. pc' \in {"failed", "merge", "reset"}
    BY <1>7 DEF Unmerge
  <2>2. QED
    BY <1>7, <2>1, RightUnmerge
<1>8. CASE MoveAdapter
  <2>1. pc' = "reset"
    BY <1>8 DEF MoveAdapter
  <2>2. QED
    BY <1>8, <2>1, RightAdapter
<1>9. CASE Reset
  <2>1. UNCHANGED <<setup, student, params, lora, first, added>>
    BY <1>9 DEF Reset, trainerVars, loadVars, engineVars
  <2>2. QED
    BY <1>9, <2>1, SameWeights DEF Reset
<1>10. CASE Offload
  <2>1. UNCHANGED <<setup, student, params, lora, first, added>>
    BY <1>10 DEF Offload, trainerVars, loadVars, engineVars
  <2>2. QED
    BY <1>10, <2>1, SameWeights DEF Offload
<1>11. CASE WakeKvCache
  <2>1. UNCHANGED <<setup, student, params, lora, first, added>>
    BY <1>11 DEF WakeKvCache, trainerVars, loadVars, engineVars
  <2>2. QED
    BY <1>11, <2>1, SameWeights DEF WakeKvCache
<1>12. CASE Generate
  <2>1. UNCHANGED <<setup, student, params, lora, first, added>>
    BY <1>12 DEF Generate, trainerVars, loadVars, engineVars
  <2>2. QED
    BY <1>12, <2>1, SameWeights DEF Generate
<1>13. CASE GenerateFails
  BY <1>13 DEF GenerateFails
<1>14. CASE Sleep
  <2>1. pc = "sleep" /\ pc' = "return"
    BY <1>14 DEF Sleep
  <2>2. CASE setup.sleepLevel = 2
    BY <2>1, <2>2
  <2>3. CASE setup.sleepLevel # 2
    <3>1. UNCHANGED <<setup, student, params, lora, first, added>>
      BY <1>14, <2>3 DEF Sleep, trainerVars, loadVars
    <3>2. QED
      BY <2>1, <3>1, SameWeights
  <2>4. QED
    BY <2>2, <2>3
<1>15. CASE Return
  <2>1. UNCHANGED <<setup, student, params, lora, first, added>>
    BY <1>15 DEF Return, trainerVars, loadVars, engineVars
  <2>2. QED
    BY <1>15, <2>1, SameWeights DEF Return
<1>16. CASE Restart
  <2>1. pc' = "idle" /\ lastLoaded' = -1 /\ GlobalStep' \in Nat
    BY <1>16, StepType DEF Restart
  <2>2. QED
    BY <2>1
<1>17. CASE UNCHANGED vars
  <2>1. UNCHANGED <<setup, student, params, lora, first, added, pc, lastLoaded>>
    BY <1>17 DEF vars, trainerVars, loadVars, engineVars
  <2>2. QED
    BY <2>1, SameWeights
<1>18. QED
  BY <1>1, <1>2, <1>3, <1>4, <1>5, <1>6, <1>7, <1>8, <1>9, <1>10, <1>11, <1>12,
     <1>13, <1>14, <1>15, <1>16, <1>17 DEF Next

LEMMA LoadImplies == LoadInv => GeneratesWithStudent
<1> SUFFICES ASSUME LoadInv, pc = "generate", Plain
             PROVE  /\ "weights" \notin asleep
                    /\ \A g \in Groups : IsStudent(g)
                    /\ cache \subseteq {EngineWeights}
  BY DEF GeneratesWithStudent
<1>1. "weights" \notin asleep /\ cache \subseteq {EngineWeights}
  BY DEF LoadInv, AwakeInv, Generating
<1>2. AllStudent
  BY DEF LoadInv, RightInv, Generating
<1>3. QED
  BY <1>1, <1>2 DEF AllStudent

\* Whatever the order of optimizer steps, generations, sleeps, failures and
\* restarts, the engine generates with the student's weights and with prefixes
\* of these weights, apart from the four cases that Plain excludes.
THEOREM GeneratesWithStudentAlways == Spec => []GeneratesWithStudent
<1>1. Init => TypeOK /\ LoadInv
  BY TypeInit, LoadInit
<1>2. TypeOK /\ LoadInv /\ [Next]_vars => (TypeOK /\ LoadInv)'
  <2> SUFFICES ASSUME TypeOK, LoadInv, [Next]_vars PROVE TypeOK' /\ LoadInv'
    OBVIOUS
  <2>1. TypeOK'
    BY TypeStep
  <2>2. AwakeInv' /\ FirstInv' /\ FullInv' /\ RightInv'
    BY <2>1, AwakeStep, FirstStep, FullStep, RightStep DEF LoadInv
  <2>3. QED
    BY <2>1, <2>2 DEF LoadInv
<1>3. QED
  BY <1>1, <1>2, LoadImplies, PTL DEF Spec
=============================================================================
