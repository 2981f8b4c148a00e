------------------------- MODULE MCSelfDistillation -------------------------
(***************************************************************************)
(* SelfDistillation with DeepSpeed and a sharded teacher (train.sh), with  *)
(* DeepSpeed and a replicated one, and with neither, in one run: the order *)
(* of optimizer, average and collectives depends on it.  It is chosen in   *)
(* the initial state and kept, also through restarts.                      *)
(***************************************************************************)
EXTENDS SelfDistillation

(* How the training was set up. *)
VARIABLE setup

(* Only DeepSpeed shards a teacher. *)
Setups == {s \in [deepSpeed : BOOLEAN, sharded : BOOLEAN] :
               s.sharded => s.deepSpeed}

With(s) == INSTANCE SelfDistillation WITH
    DeepSpeed <- s.deepSpeed, Sharded <- s.sharded

SetUp(s) == setup = s /\ setup' = s

MCInit == setup \in Setups /\ Init

MCRankStep(r) == \E s \in Setups : SetUp(s) /\ With(s)!RankStep(r)
MCCollective == \E s \in Setups : SetUp(s) /\ With(s)!Collective
MCResume == Resume /\ UNCHANGED setup

MCNext == (\E r \in Ranks : MCRankStep(r)) \/ MCCollective \/ MCResume

MCSpec ==
    /\ MCInit /\ [][MCNext]_<<vars, setup>>
    /\ WF_<<vars, setup>>(MCCollective)
    /\ \A r \in Ranks : WF_<<vars, setup>>(MCRankStep(r))

-----------------------------------------------------------------------------
(* Aligned in the setup chosen: ranks that wait in a collective wait in    *)
(* the same one. *)
AlignedWith == \A s \in Setups : setup = s => With(s)!Aligned

=============================================================================
