----------------------------- MODULE MCAssistant -----------------------------
(***************************************************************************)
(* Instances of AssistantRuns for TLC.                                     *)
(***************************************************************************)
EXTENDS AssistantProperties, TLC

=============================================================================
