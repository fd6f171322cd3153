------------------------------ MODULE MCSessions ------------------------------
(***************************************************************************)
(* Instances of BffSessions for TLC.                                       *)
(***************************************************************************)
EXTENDS SessionProperties, TLC

=============================================================================
