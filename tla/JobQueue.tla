------------------------------ MODULE JobQueue ------------------------------
(***************************************************************************)
(* A BullMQ queue between the API and the worker processes: first of all   *)
(* "papadata-integrations", and by INSTANCE "papadata-platform-jobs".      *)
(* BullMQ is a library: what is modelled is the contract that the queue    *)
(* and worker services rely on.  Delivery is at least once: a delivery     *)
(* holds a lock that the worker renews, a job whose lock expires is        *)
(* "stalled" and goes back to the queue (once, by default), and a result   *)
(* reported without the lock is ignored.                                   *)
(***************************************************************************)
EXTENDS SyncJobs

CONSTANTS
  MaxAttempts,  \* job option "attempts" (5 in queue.service.ts)
  MaxStalls     \* BullMQ's maxStalledCount

ASSUME QueueAssumption ==
  /\ MaxAttempts \in Nat \ {0}
  /\ MaxStalls \in Nat

VARIABLES
  q,        \* where the queue keeps the job
  holder,   \* the run that holds the lock of the active delivery
  made,     \* job.attemptsMade
  stalls    \* how often the job stalled

queueVars == <<q, holder, made, stalls>>

-----------------------------------------------------------------------------
QueueStates == {"none", "waiting", "delayed", "active", "completed", "failed"}

QueueTypeOK ==
  /\ q \in [Jobs -> QueueStates]
  /\ holder \in [Jobs -> Runs \union {NoRun}]
  /\ made \in [Jobs -> Nat]
  /\ stalls \in [Jobs -> 0 .. MaxStalls]

QueueInit ==
  /\ q = [j \in Jobs |-> "none"]
  /\ holder = [j \in Jobs |-> NoRun]
  /\ made = [j \in Jobs |-> 0]
  /\ stalls = [j \in Jobs |-> 0]

(* queue.add with jobId: a second add of the same id is ignored. *)
Add(j) ==
  /\ q[j] = "none"
  /\ q' = [q EXCEPT ![j] = "waiting"]
  /\ UNCHANGED <<holder, made, stalls>>

Deliver(j, r) ==
  /\ q[j] = "waiting"
  /\ q' = [q EXCEPT ![j] = "active"]
  /\ holder' = [holder EXCEPT ![j] = r]
  /\ UNCHANGED <<made, stalls>>

(* The processor of run r returned. *)
Complete(j, r) ==
  /\ q' = IF holder[j] = r THEN [q EXCEPT ![j] = "completed"] ELSE q
  /\ holder' = IF holder[j] = r THEN [holder EXCEPT ![j] = NoRun] ELSE holder
  /\ UNCHANGED <<made, stalls>>

(* The processor of run r threw: back off and retry, or give up. *)
FailAttempt(j, r) ==
  IF holder[j] = r
  THEN /\ made' = [made EXCEPT ![j] = @ + 1]
       /\ q' = [q EXCEPT ![j] = IF made[j] + 1 < MaxAttempts
                                THEN "delayed" ELSE "failed"]
       /\ holder' = [holder EXCEPT ![j] = NoRun]
       /\ UNCHANGED stalls
  ELSE UNCHANGED queueVars

(* The backoff ended, or cancel() promoted the delayed job. *)
Promote(j) ==
  /\ q[j] = "delayed"
  /\ q' = [q EXCEPT ![j] = "waiting"]
  /\ UNCHANGED <<holder, made, stalls>>

(* The lock of an active delivery expired. *)
Stall(j) ==
  /\ q[j] = "active"
  /\ q' = [q EXCEPT ![j] = IF stalls[j] < MaxStalls THEN "waiting" ELSE "failed"]
  /\ stalls' = [stalls EXCEPT ![j] = IF @ < MaxStalls THEN @ + 1 ELSE @]
  /\ holder' = [holder EXCEPT ![j] = NoRun]
  /\ UNCHANGED made

(* job.retry(): only a job the queue has given up on. *)
RetryFailed(j) ==
  /\ q[j] = "failed"
  /\ q' = [q EXCEPT ![j] = "waiting"]
  /\ UNCHANGED <<holder, made, stalls>>

(* The processes executing the runs in dead are gone; their locks remain   *)
(* until they expire.                                                      *)
Orphan(dead) ==
  /\ holder' = [j \in Jobs |-> IF holder[j] \in dead THEN NoRun ELSE holder[j]]
  /\ UNCHANGED <<q, made, stalls>>

=============================================================================
