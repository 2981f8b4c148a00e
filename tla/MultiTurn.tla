----------------------------- MODULE MultiTurn -----------------------------
(***************************************************************************)
(* Rollouts of several turns.  After each answer a scheduler either ends   *)
(* the dialogue or prepares its next turn: it may shorten the answer, add  *)
(* to it and let the model go on, or let a user speak.  The token ids, the *)
(* loss masks and the log-probabilities of the turns are collected beside  *)
(* the messages, and the trainer later puts them in their places.          *)
(*                                                                         *)
(* The loop exists twice.  With a colocated engine every rank runs it for  *)
(* its dialogues at once, the ranks of a tensor-parallel group generating  *)
(* together (_colocate_multi_turn_infer of                                 *)
(* swift/rlhf_trainers/rollout_mixin.py); on a rollout server it is a task *)
(* for each dialogue (MultiTurnScheduler.run of                            *)
(* swift/rollout/multi_turn.py).  Either is a "runner" here.               *)
(*                                                                         *)
(* A token is named by its dialogue, its turn and its place, 0 for what a  *)
(* scheduler adds; a log-probability by the token it is of.                *)
(***************************************************************************)
EXTENDS Integers, Sequences, SequencesExt

CONSTANTS
    None,       \* the content of a dummy message
    Setups,     \* modes, schedulers and dialogues
    TpSize      \* vllm_tensor_parallel_size, of colocated engines

\* What a scheduler's step does to an answer and what it returns beside it.
Styles == [continues : BOOLEAN, truncates : BOOLEAN, adds : BOOLEAN,
           ids : BOOLEAN, mask : BOOLEAN, logprobs : BOOLEAN]

SetupRecords ==
    [colocate : BOOLEAN,
     dialogues : Seq(Seq(Nat)),       \* those of each runner
     scheduler : Seq(Styles),         \* by the turn that has been taken
     maxTurns : Nat \ {0},
     lengths : SUBSET (Nat \ {0}),    \* how many tokens an answer has
     logprobs : BOOLEAN,              \* whether they are asked for
     lastRound : BOOLEAN]             \* loss_scale: last_round or default

\* Masks only beside ids, and an answer that is shortened is returned with its
\* own log-probabilities, as the documentation of step asks.
ASSUME MultiTurnAssumption ==
    /\ TpSize \in Nat \ {0}
    /\ Setups \subseteq SetupRecords
    /\ \A s \in Setups :
        /\ s.lengths # {}
        /\ Len(s.scheduler) = s.maxTurns - 1
        /\ s.colocate => Len(s.dialogues) % TpSize = 0
        /\ ~s.colocate => \A r \in DOMAIN s.dialogues : Len(s.dialogues[r]) = 1
        /\ \A d1, d2 \in DOMAIN s.dialogues :
            ToSet(s.dialogues[d1]) \cap ToSet(s.dialogues[d2]) # {} => d1 = d2
        /\ \A t \in DOMAIN s.scheduler : LET style == s.scheduler[t] IN
            /\ style.mask => style.ids
            /\ style.truncates => style.ids /\ style.logprobs

\* A dummy message has no text.
ASSUME NoneAssumption == None \notin Seq([of : Nat, turn : Nat, place : Nat])

VARIABLES
    setup,
    pc,         \* where each runner is
    indexToInfer, \* the dialogues it has to continue
    turn,       \* its current_turn
    outputs,    \* the answers to those dialogues
    requests,   \* for each dialogue, its messages and what is kept of its turns
    results     \* its RolloutOutput

vars == <<setup, pc, indexToInfer, turn, outputs, requests, results>>

Runners == DOMAIN setup.dialogues
Dialogues == UNION {ToSet(setup.dialogues[r]) : r \in Runners}

Message(role, content) == [role |-> role, content |-> content]
Dummy == Message("assistant", None)

RemoveResponse(messages) ==
    IF Last(messages).role = "assistant" THEN Front(messages) ELSE messages

NewRequest ==
    [messages |-> <<Message("user", <<>>)>>, continues |-> FALSE,
     ids |-> <<>>, mask |-> <<>>, logprobs |-> <<>>]

NoResult == [turns |-> 0]

\* The first turn is rolled out before a colocated runner enters its loop.
Init ==
    /\ setup \in Setups
    /\ pc = [r \in Runners |-> "rollout"]
    /\ indexToInfer = setup.dialogues
    /\ turn = [r \in Runners |-> 1]
    /\ outputs = [r \in Runners |-> <<>>]
    /\ requests = [d \in Dialogues |-> NewRequest]
    /\ results = [d \in Dialogues |-> NoResult]

-----------------------------------------------------------------------------
\* The ranks that generate together, in their order; a task of the server is on
\* its own.
GroupSize == IF setup.colocate THEN TpSize ELSE 1
LocalRank(r) == (r - 1) % GroupSize
Group(r) == [k \in 1..GroupSize |-> r - 1 - LocalRank(r) + k]

\* sum(all_input_lengths[:local_rank_in_group])
StartIdx_OneEach(r) == LocalRank(r)  \* mutant: as if every rank had one dialogue
StartIdx(r) ==
    Len(FlattenSeq([k \in 1..LocalRank(r) |-> indexToInfer[Group(r)[k]]]))

\* The n tokens that the engine generates for a dialogue in a turn.
Generated(d, t, n) == [k \in 1..n |-> [of |-> d, turn |-> t, place |-> k]]

\* _rollout: the dialogues of a group are generated in the order of its ranks,
\* and each rank takes its own slice of the answers.
Rollout(r) ==
    LET group == Group(r)
        gathered == FlattenSeq([k \in 1..GroupSize |-> indexToInfer[group[k]]])
    IN  /\ \A k \in 1..GroupSize : pc[group[k]] = "rollout"
        /\ \E n \in [DOMAIN gathered -> setup.lengths] :
            LET answers == [k \in DOMAIN gathered |->
                    Generated(gathered[k], turn[r], n[k])]
            IN  outputs' = [q \in Runners |-> IF q \in ToSet(group)
                    THEN SubSeq(answers, StartIdx(q) + 1,
                                StartIdx(q) + Len(indexToInfer[q]))
                    ELSE outputs[q]]
        /\ pc' = [q \in Runners |->
            IF q \notin ToSet(group) THEN pc[q]
            ELSE IF setup.colocate THEN "gather" ELSE "turn"]
        /\ UNCHANGED <<setup, indexToInfer, turn, requests, results>>

\* gather_object([has_local_data]): all ranks go on while one has data.
Gather_OwnData ==  \* mutant: each rank by its own data
    /\ setup.colocate
    /\ \A r \in Runners : pc[r] \in {"gather", "done"}
    /\ \E r \in Runners : pc[r] = "gather"
    /\ pc' = [r \in Runners |->
        IF pc[r] = "gather" /\ indexToInfer[r] # <<>> THEN "turn" ELSE "done"]
    /\ UNCHANGED <<setup, indexToInfer, turn, outputs, requests, results>>
Gather ==
    /\ setup.colocate
    /\ \A r \in Runners : pc[r] = "gather"
    /\ pc' = [r \in Runners |->
        IF \E q \in Runners : indexToInfer[q] # <<>> THEN "turn" ELSE "done"]
    /\ UNCHANGED <<setup, indexToInfer, turn, outputs, requests, results>>

-----------------------------------------------------------------------------
\* `parts[-1].extend(new)`, and the choice between this and a part of its own.
ExtendLast(parts, new) == [parts EXCEPT ![Len(parts)] = @ \o new]
Track_NewPart(parts, new, continues) == Append(parts, new)  \* mutant
Track(parts, new, continues) ==
    IF continues /\ parts # <<>> THEN ExtendLast(parts, new) ELSE Append(parts, new)

Ones(tokens) == [k \in DOMAIN tokens |-> TRUE]

\* The elements of a sequence that a mask keeps; how many ones there are in masks.
Selected(s, mask) == FlattenSeq([k \in DOMAIN s |-> IF mask[k] THEN <<s[k]>> ELSE <<>>])
CountOnes(masks) == Len(Selected(FlattenSeq(masks), FlattenSeq(masks)))

\* _extract_logprobs_from_choice
LogprobsOf(answer) == IF setup.logprobs THEN answer ELSE <<>>

\* The answer joins the message it continues, or becomes one.
TakeAnswer_AfterDummy(request, answer) ==  \* mutant: the dummy is not removed
    [request EXCEPT !.messages = Append(@, Message("assistant", answer)),
                    !.continues = FALSE]
TakeAnswer(request, answer) ==
    LET before == IF Last(request.messages).content = None
                  THEN RemoveResponse(request.messages) ELSE request.messages
        continues == Last(before).role = "assistant"
    IN  [request EXCEPT
            !.messages = IF continues
                         THEN [before EXCEPT ![Len(before)].content = @ \o answer]
                         ELSE Append(before, Message("assistant", answer)),
            !.continues = continues]

\* What is kept of the last turn.  Only the colocated loop has the last case.
KeepLastTurn(request, answer) ==
    LET firstIds == request.ids = <<>>
        goesOn == request.continues /\ ~firstIds
        kept(parts, new) ==
            CASE new = <<>> \/ (goesOn /\ parts = <<>>) -> parts
              [] new # <<>> /\ goesOn /\ parts # <<>> -> ExtendLast(parts, new)
              [] new # <<>> /\ firstIds -> <<new>>
              [] OTHER -> IF setup.colocate THEN Append(parts, new) ELSE parts
    IN  [request EXCEPT !.ids = kept(@, answer),
                        !.mask = kept(@, Ones(answer)),
                        !.logprobs = kept(@, LogprobsOf(answer))]

\* Log-probabilities that are too few or too many for what is trained are dropped.
CompleteLogprobs(request) ==
    LET count == Len(FlattenSeq(request.logprobs))
        needed == IF request.mask # <<>> THEN CountOnes(request.mask)
                  ELSE Len(FlattenSeq(request.ids))
    IN  IF request.ids # <<>> /\ count = needed THEN request.logprobs ELSE <<>>

RolloutOutput(request, answer, t) ==
    [turns |-> t, messages |-> request.messages, ids |-> request.ids,
     mask |-> request.mask, logprobs |-> CompleteLogprobs(request),
     lastLogprobs |-> LogprobsOf(answer)]

-----------------------------------------------------------------------------
\* The loss mask of a turn: what was generated is trained, what was added is not.
LossMask_TipsFirst(kept, tip) ==  \* mutant: in the other order
    [k \in DOMAIN tip |-> FALSE] \o Ones(kept)
LossMask(kept, tip) == Ones(kept) \o [k \in DOMAIN tip |-> FALSE]

\* The scheduler's step: what it does to the last message and what it returns.
Step(request, answer, style, d, t) ==
    LET cut == IF style.truncates /\ Len(answer) > 1 THEN 1 ELSE 0
        tip == IF style.adds THEN <<[of |-> d, turn |-> t, place |-> 0]>> ELSE <<>>
        kept == SubSeq(answer, 1, Len(answer) - cut)
        said == Last(request.messages).content
        edited == [request.messages EXCEPT ![Len(request.messages)].content =
                        SubSeq(said, 1, Len(said) - cut) \o tip]
    IN  [messages |-> IF style.continues THEN edited
                      ELSE Append(edited, Message("user", <<>>)),
         ids |-> kept \o tip,
         mask |-> LossMask(kept, tip),
         logprobs |-> LogprobsOf(IF style.logprobs THEN kept ELSE answer)]

\* What the loop keeps of a turn that is not the last.
KeepTurn(request, answer, style, d, t) ==
    LET returned == Step(request, answer, style, d, t)
        goesOn == request.continues
    IN  [request EXCEPT
            !.messages = IF Last(returned.messages).role = "assistant"
                         THEN Append(returned.messages, Dummy) ELSE returned.messages,
            !.ids = IF style.ids THEN Track(@, returned.ids, goesOn) ELSE @,
            !.mask = IF style.mask THEN Track(@, returned.mask, goesOn) ELSE @,
            !.logprobs = IF returned.logprobs # <<>>
                         THEN Track(@, returned.logprobs, goesOn) ELSE @]

\* A runner's turn: its answers are taken, and each of its dialogues ends here,
\* by the scheduler's decision or at max_turns, or is prepared for the next turn.
Turn(r) ==
    LET batch == indexToInfer[r]
        t == turn[r]
        answer(d) == outputs[r][CHOOSE k \in DOMAIN batch : batch[k] = d]
        taken == [d \in ToSet(batch) |-> TakeAnswer(requests[d], answer(d))]
    IN  /\ pc[r] = "turn"
        /\ \E finished \in SUBSET ToSet(batch) :
            LET stops == IF t >= setup.maxTurns THEN ToSet(batch) ELSE finished
                after == [d \in ToSet(batch) |->
                    IF d \in stops THEN KeepLastTurn(taken[d], answer(d))
                    ELSE KeepTurn(taken[d], answer(d), setup.scheduler[t], d, t)]
                next == Selected(batch, [k \in DOMAIN batch |-> batch[k] \notin stops])
            IN  /\ t >= setup.maxTurns => finished = {}
                /\ requests' = [d \in Dialogues |->
                    IF d \in ToSet(batch) THEN after[d] ELSE requests[d]]
                /\ results' = [d \in Dialogues |-> IF d \in stops
                    THEN RolloutOutput(after[d], answer(d), t) ELSE results[d]]
                /\ indexToInfer' = [indexToInfer EXCEPT ![r] = next]
                /\ pc' = [pc EXCEPT ![r] =
                    IF ~setup.colocate /\ next = <<>> THEN "done" ELSE "rollout"]
        /\ turn' = [turn EXCEPT ![r] = t + 1]
        /\ outputs' = [outputs EXCEPT ![r] = <<>>]
        /\ UNCHANGED setup

AllDone == \A r \in Runners : pc[r] = "done"

Next ==
    \/ \E r \in Runners : Rollout(r) \/ Turn(r)
    \/ Gather

Spec == Init /\ [][Next]_vars

\* The engine answers, and no rank stops running.
FairSpec ==
    /\ Spec
    /\ WF_vars(Gather)
    /\ WF_vars(\E r \in Runners : Rollout(r) \/ Turn(r))

=============================================================================
