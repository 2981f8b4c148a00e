---------------------------- MODULE TrainedTurns ----------------------------
(***************************************************************************)
(* What the trainer makes of a rollout of several turns: the token ids are *)
(* put into the assistant messages, from the last one backwards, loss      *)
(* masks and loss_scale say which tokens are trained, and the              *)
(* log-probabilities of the rollout are laid over these if there are as    *)
(* many.  The text of a message is encoded into the tokens it was decoded  *)
(* from, or nothing here could be compared; ids exist because real         *)
(* encodings do not always agree.                                          *)
(*                                                                         *)
(* Sources: swift/rlhf_trainers/rollout_mixin.py, utils.py and             *)
(* grpo_trainer.py, swift/loss_scale/base.py.                              *)
(***************************************************************************)
EXTENDS MultiTurn

\* What the trainer keeps of the log-probabilities: those of the last answer
\* stand in for ones that are missing, or were dropped.
MergedLogprobs(out) ==
    CASE out.logprobs # <<>> -> out.logprobs
      [] out.logprobs = <<>> /\ out.lastLogprobs # <<>> -> <<out.lastLogprobs>>
      [] OTHER -> <<>>

\* How many assistant messages there are from the k-th one on.
FromTheBack(messages, k) ==
    Cardinality({j \in k..Len(messages) : messages[j].role = "assistant"})

\* The assertion of replace_assistant_response_with_ids.
SameLengths(ids, mask) ==
    /\ Len(ids) = Len(mask)
    /\ \A k \in DOMAIN ids : Len(ids[k]) = Len(mask[k])
IdsReplaceable(out) ==
    out.ids # <<>> /\ out.mask # <<>> => SameLengths(out.ids, out.mask)

IsReplaced(out, k) ==
    /\ out.messages[k].role = "assistant"
    /\ FromTheBack(out.messages, k) <= Len(out.ids)

\* Which part of the ids goes into the k-th message.
PartOf(out, k) == Len(out.ids) + 1 - FromTheBack(out.messages, k)

TokensOf(out, k) ==
    IF IsReplaced(out, k) THEN out.ids[PartOf(out, k)] ELSE out.messages[k].content

\* loss_scale: a mask that came with the ids, or else the strategy, which trains
\* every assistant message or those after the last user's.
TrainedOf(out, k) ==
    LET masked == IsReplaced(out, k) /\ out.mask # <<>>
        last == \A j \in k..Len(out.messages) : out.messages[j].role # "user"
    IN  IF out.messages[k].role # "assistant" THEN <<>>
        ELSE IF masked
        THEN Selected(TokensOf(out, k), out.mask[PartOf(out, k)])
        ELSE IF ~setup.lastRound \/ last THEN TokensOf(out, k) ELSE <<>>

CompletionTokens(out) ==
    FlattenSeq([k \in DOMAIN out.messages |-> TrainedOf(out, k)])

\* rollout_per_token_logps is filled when the counts agree.
UsesLogprobs(out) ==
    /\ IdsReplaceable(out)
    /\ MergedLogprobs(out) # <<>>
    /\ Len(FlattenSeq(MergedLogprobs(out))) = Len(CompletionTokens(out))

-----------------------------------------------------------------------------
Tokens == [of : Dialogues, turn : 1..setup.maxTurns, place : Nat]

\* Types: a runner has as many answers as dialogues when it takes its turn, a
\* dummy message is the last one, and stands only where an answer is awaited.
TypeOK ==
    /\ setup \in Setups
    /\ pc \in [Runners -> {"rollout", "gather", "turn", "done"}]
    /\ turn \in [Runners -> Nat \ {0}]
    /\ \A r \in Runners :
        /\ outputs[r] \in Seq(Seq(Tokens))
        /\ pc[r] \in {"gather", "turn"} => Len(outputs[r]) = Len(indexToInfer[r])
    /\ \A d \in Dialogues : LET q == requests[d] IN
        /\ q.ids \in Seq(Seq(Tokens)) /\ q.logprobs \in Seq(Seq(Tokens))
        /\ q.mask \in Seq(Seq(BOOLEAN))
        /\ \A k \in DOMAIN q.messages :
            q.messages[k].content = None =>
                k = Len(q.messages) /\ results[d] = NoResult

Finished == {d \in Dialogues : results[d] # NoResult}

\* The answers to a dialogue, turn after turn, are all in its messages, whatever
\* was done to them, and nothing of another dialogue is: no rank takes another's
\* slice of what its group generated, and no turn is skipped or taken twice.
OwnTurns ==
    \A d \in Finished :
        LET out == results[d]
            said == FlattenSeq([k \in DOMAIN out.messages |-> out.messages[k].content])
        IN  /\ out.turns <= setup.maxTurns
            /\ \A j \in DOMAIN said : said[j].of = d
            /\ \A t \in 1..out.turns :
                \E j \in DOMAIN said : said[j].turn = t /\ said[j].place = 1
            /\ \A j \in DOMAIN said : said[j].turn <= out.turns
            /\ \A i, j \in DOMAIN said : i < j => said[i].turn <= said[j].turn

StepsTaken(out) == {setup.scheduler[t] : t \in 1..out.turns - 1}

\* A server keeps nothing of a last turn that does not continue a message when
\* earlier ones returned ids: what it kept then gets into other messages.
LosesLastTurn(out) ==
    /\ ~setup.colocate /\ out.turns > 1
    /\ ~setup.scheduler[out.turns - 1].continues
    /\ \E style \in StepsTaken(out) : style.ids

\* The schedulers that can be trusted with ids: they return them in every turn,
\* beside masks, or without any while the model goes on with one message; or
\* they return none, and leave every message as it was generated.
Regular(out) ==
    LET steps == StepsTaken(out) IN
    \/ \A style \in steps : ~style.ids /\ ~style.continues
    \/ /\ \A style \in steps : style.ids
       /\ \/ \A style \in steps : style.mask
          \/ \A style \in steps : ~style.mask /\ style.continues

\* The tokens that are trained on are those of the conversation: the ids, which
\* are put into messages by counting from the last, come to stand for the text
\* of those messages, and masks fit their ids, also after turns that were
\* shortened or added to.  This is so for Regular schedulers, and not of a
\* dialogue on a server that LosesLastTurn, where the code breaks it.
TrainsWhatWasSaid ==
    \A d \in Finished :
        LET out == results[d] IN
        Regular(out) /\ ~LosesLastTurn(out) =>
            /\ IdsReplaceable(out)
            /\ \A k \in DOMAIN out.messages : TokensOf(out, k) = out.messages[k].content

\* Wherever the trainer lays log-probabilities over trained tokens, which it
\* does when there are as many of one as of the other, they are of those tokens;
\* also with a scheduler that returns ids in some turns only.  Left out are ids
\* without masks and dialogues on a server that LosesLastTurn, where the numbers
\* may agree by chance.
LogprobsOfTheirTokens ==
    \A d \in Finished :
        LET out == results[d] IN
        /\ UsesLogprobs(out)
        /\ ~LosesLastTurn(out)
        /\ \A style \in StepsTaken(out) : style.ids => style.mask
        => FlattenSeq(MergedLogprobs(out)) = CompletionTokens(out)

\* Every dialogue ends and no rank is left in a collective: a rank whose
\* dialogues have ended keeps generating nothing with its group until all have.
EveryoneFinishes == <>(AllDone /\ Finished = Dialogues)

=============================================================================
