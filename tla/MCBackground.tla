----------------------------- MODULE MCBackground -----------------------------
(***************************************************************************)
(* Instances of BackgroundWork for TLC.                                    *)
(***************************************************************************)
EXTENDS BackgroundWork

=============================================================================
