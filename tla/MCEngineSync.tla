---------------------------- MODULE MCEngineSync ----------------------------
(***************************************************************************)
(* Every combination of arguments: in the trainer's process and as a       *)
(* server, full weights and adapters, each sleep level.                    *)
(***************************************************************************)
EXTENDS EngineSync

MCSetups ==
    {s \in SetupRecords :
        /\ s.enableLora => s.lora
        /\ s.fsdp2 => s.lora
        /\ s.zero => s.lora
        /\ ~s.colocate => s.sleepLevel = 0 /\ ~s.offload /\ ~s.tags
        /\ s.sleepLevel = 0 => ~s.tags}

\* Adapters, on a model that is sent in batches.
BatchedAdapters == {s \in MCSetups : s.enableLora /\ s.batches}

=============================================================================
