-------------------------- MODULE MCBatchingEngine --------------------------
(***************************************************************************)
(* Clients that ask for a whole answer of the model or of an adapter, for  *)
(* a stream of either, or a stream searched with beams, or send what the   *)
(* template cannot encode.                                                 *)
(***************************************************************************)
EXTENDS BatchingEngine

Ask(config, adapter, encodable) ==
    [config |-> config, adapter |-> adapter, encodable |-> encodable]

Full == CHOOSE c \in Configs : c \notin Streaming
Stream == CHOOSE c \in Streaming \ Beams : TRUE
BeamStream == CHOOSE c \in Streaming \cap Beams : TRUE
Lora == CHOOSE a \in Adapters : TRUE

MCAsked == {Ask(Full, Base, TRUE), Ask(Full, Lora, FALSE),
            Ask(Stream, Base, TRUE), Ask(Stream, Lora, TRUE),
            Ask(Stream, Base, FALSE), Ask(BeamStream, Base, TRUE)}

\* Clients that only differ in the adapter they name.
MCNamed == {Ask(Full, a, TRUE) : a \in Adapters \cup {Base}}

=============================================================================
