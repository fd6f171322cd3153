------------------------------ MODULE SyncJobs ------------------------------
(***************************************************************************)
(* What every part of the ingestion system talks about: the sync jobs of   *)
(* one integration connection, and the timeline of the provider they read. *)
(* A position of the timeline is one record version; a larger position was *)
(* updated later.                                                          *)
(***************************************************************************)
EXTENDS Naturals

CONSTANTS
  Jobs,      \* the sync jobs: a row of app.sync_jobs each
  Runs,      \* slots in which a worker process executes one delivery
  NoRun,     \* no run
  MaxHead    \* BOUND: the newest position the provider's timeline reaches

ASSUME SyncJobsAssumption ==
  /\ NoRun \notin Runs
  /\ MaxHead \in Nat

Positions == 1 .. MaxHead

(* A page cursor: 0 for null, else a position or a count of records, or    *)
(* the first page of the next stream.                                      *)
NextStream == MaxHead + 2
Cursors == 0 .. NextStream

=============================================================================
