------------------------------ MODULE MCCommands ------------------------------
(***************************************************************************)
(* Instances of ApiCommands for TLC.                                       *)
(***************************************************************************)
EXTENDS CommandProperties, TLC

CONSTANTS checkout1, checkout2, save1, save2

Alike == Permutations({checkout1, checkout2}) \union Permutations({save1, save2})

=============================================================================
