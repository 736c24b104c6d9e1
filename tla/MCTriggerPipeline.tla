------------------------- MODULE MCTriggerPipeline -------------------------
(***************************************************************************)
(* Instances of TriggerPipeline for TLC.                                   *)
(***************************************************************************)
EXTENDS TriggerPipeline
=============================================================================
