----------------------------- MODULE MCIngestion -----------------------------
(***************************************************************************)
(* Instances of IngestionPipeline for TLC.                                 *)
(***************************************************************************)
EXTENDS IngestionProperties, TLC

CONSTANTS j1, j2, r1, r2, o1, o2

MCOwnerEach == r1 :> o1 @@ r2 :> o2
MCOwnerOne == [r \in Runs |-> o1]
MCNull == [j \in Jobs |-> 0]

=============================================================================
