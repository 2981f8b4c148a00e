---------------------------- MODULE MCMultiTurn ----------------------------
(***************************************************************************)
(* One dialogue under every pair of kinds of steps, with answers of two    *)
(* lengths; and several dialogues that end at different turns, of the two  *)
(* ranks of a tensor-parallel group and of two such groups.                *)
(***************************************************************************)
EXTENDS TrainedTurns

Style(continues, truncates, adds, returned) ==
    [continues |-> continues, truncates |-> truncates, adds |-> adds,
     ids |-> "ids" \in returned, mask |-> "mask" \in returned,
     logprobs |-> "logprobs" \in returned]

MathTips == Style(TRUE, TRUE, TRUE, {"ids", "mask", "logprobs"})
ToolCall == Style(TRUE, FALSE, TRUE, {"ids", "mask"})
ToolNoMask == Style(TRUE, FALSE, TRUE, {"ids"})
ToolText == Style(TRUE, FALSE, TRUE, {})
User == Style(FALSE, FALSE, FALSE, {})
UserIds == Style(FALSE, FALSE, FALSE, {"ids"})
UserMask == Style(FALSE, FALSE, FALSE, {"ids", "mask"})

Kinds == {MathTips, ToolCall, ToolNoMask, ToolText, User, UserIds, UserMask}

Dialogue(colocate, scheduler, lastRound) ==
    [colocate |-> colocate,
     dialogues |-> IF colocate THEN <<<<1>>, <<>>>> ELSE <<<<1>>>>,
     scheduler |-> scheduler, maxTurns |-> 3, lengths |-> {1, 2},
     logprobs |-> TRUE, lastRound |-> lastRound]

Batch(dialogues, scheduler, logprobs) ==
    [colocate |-> TRUE, dialogues |-> dialogues, scheduler |-> scheduler,
     maxTurns |-> 3, lengths |-> {1}, logprobs |-> logprobs, lastRound |-> FALSE]

MCSetups ==
    {Dialogue(colocate, <<first, second>>, lastRound) :
        colocate \in BOOLEAN, lastRound \in BOOLEAN, first \in Kinds, second \in Kinds}
    \cup {Batch(<<<<1, 2>>, <<3, 4>>>>, <<ToolCall, UserMask>>, TRUE),
          Batch(<<<<1>>, <<2>>, <<3>>, <<4>>>>, <<User, User>>, FALSE)}

=============================================================================
