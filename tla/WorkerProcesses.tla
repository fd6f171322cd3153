---------------------------- MODULE WorkerProcesses ----------------------------
(***************************************************************************)
(* What the periodic and queued jobs of the worker application have in     *)
(* common: several identical processes, and faults.                        *)
(***************************************************************************)
EXTENDS Naturals, FiniteSets

CONSTANTS
  Workers,     \* worker processes
  MaxFaults    \* BOUND: crashes, stalls and errors

ASSUME WorkerAssumption == MaxFaults \in Nat

=============================================================================
