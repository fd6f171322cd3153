----------------------------- MODULE PlatformJobs -----------------------------
(***************************************************************************)
(* What the jobs of "papadata-platform-jobs" that write objects have in    *)
(* common: the parameters of their queue, and faults.  One report and one  *)
(* privacy request are modelled, each with one job.                        *)
(***************************************************************************)
EXTENDS WorkerProcesses

CONSTANTS
  JobAttempts,   \* job option "attempts" (5 in platform-queue.service.ts)
  JobStalls,     \* BullMQ's maxStalledCount
  NoProcess,
  MaxJobFaults   \* BOUND: crashes, stalls, failed calls, dropped jobs

ASSUME PlatformJobAssumption ==
  /\ JobAttempts \in Nat \ {0}
  /\ JobStalls \in Nat
  /\ MaxJobFaults \in Nat
  /\ NoProcess \notin Workers

TheJob == 1

=============================================================================
