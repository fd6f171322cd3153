---------------------------- MODULE SyncJobStore ----------------------------
(***************************************************************************)
(* The row of app.sync_jobs, seen through the SQL statements that read and *)
(* write it: those of DurableIntegrationIngestionRepository (the worker)   *)
(* and those of the API (createJob, markJobCancelled, retryJob).  Every    *)
(* statement is one transaction, hence one atomic operator here; each      *)
(* operator is the statement's WHERE clause and its SET list.              *)
(***************************************************************************)
EXTENDS SyncJobs

CONSTANTS
  Owners,    \* lease owners: "worker:<hostname>:<pid>", one per process
  NoOwner    \* lease_owner IS NULL

ASSUME StoreAssumption == NoOwner \notin Owners

VARIABLES
  status,       \* sync_jobs.status
  leaseOwner,   \* sync_jobs.lease_owner
  lapsed,       \* lease_expires_at < now()
  cancelAt,     \* cancel_requested_at IS NOT NULL
  resume,       \* sync_jobs.resume_page_cursor, 0 when NULL
  deadLetters   \* jobs with a row in integration_dead_letter_jobs

rowVars == <<status, leaseOwner, lapsed, cancelAt, resume, deadLetters>>

-----------------------------------------------------------------------------
(* The statuses a run walks through while it holds the lease. *)
InProgress == {"leased", "fetching", "persisting_source", "normalizing",
               "writing_canonical", "reconciling"}

(* What markFailed writes; also what the API's retry accepts. *)
Failures == {"retryable_failed", "terminal_failed", "dead_lettered"}

Statuses == InProgress \union Failures \union
            {"absent", "queued", "cancel_requested", "succeeded", "cancelled"}

StoreTypeOK ==
  /\ status \in [Jobs -> Statuses]
  /\ leaseOwner \in [Jobs -> Owners \union {NoOwner}]
  /\ lapsed \in [Jobs -> BOOLEAN]
  /\ cancelAt \in [Jobs -> BOOLEAN]
  /\ resume \in [Jobs -> Cursors]
  /\ deadLetters \in SUBSET Jobs

StoreInit ==
  /\ status = [j \in Jobs |-> "absent"]
  /\ leaseOwner = [j \in Jobs |-> NoOwner]
  /\ lapsed = [j \in Jobs |-> FALSE]
  /\ cancelAt = [j \in Jobs |-> FALSE]
  /\ resume = [j \in Jobs |-> 0]
  /\ deadLetters = {}

-----------------------------------------------------------------------------
(* The worker's statements. *)

Leasable(j) ==
  \/ status[j] \in {"queued", "retryable_failed"}
  \/ status[j] \in InProgress /\ lapsed[j]

AcquireLease(j, o) ==
  /\ Leasable(j)
  /\ status' = [status EXCEPT ![j] = "leased"]
  /\ leaseOwner' = [leaseOwner EXCEPT ![j] = o]
  /\ lapsed' = [lapsed EXCEPT ![j] = FALSE]
  /\ UNCHANGED <<cancelAt, resume, deadLetters>>

Renewable(j, o) ==
  /\ leaseOwner[j] = o
  /\ ~cancelAt[j]
  /\ status[j] \in InProgress

RenewLease(j, o) ==
  /\ Renewable(j, o)
  /\ lapsed' = [lapsed EXCEPT ![j] = FALSE]
  /\ UNCHANGED <<status, leaseOwner, cancelAt, resume, deadLetters>>

(* now() passes lease_expires_at: the clock, not a statement. *)
LapseLease(j) ==
  /\ status[j] \in InProgress
  /\ ~lapsed[j]
  /\ lapsed' = [lapsed EXCEPT ![j] = TRUE]
  /\ UNCHANGED <<status, leaseOwner, cancelAt, resume, deadLetters>>

MayTransition(j, o, from) ==
  leaseOwner[j] = o /\ status[j] = from

TransitionJobState(j, o, from, to) ==
  /\ MayTransition(j, o, from)
  /\ status' = [status EXCEPT ![j] = to]
  /\ UNCHANGED <<leaseOwner, lapsed, cancelAt, resume, deadLetters>>

IsCancelRequested(j) ==
  status[j] = "cancel_requested" \/ cancelAt[j]

(* An UPDATE that matches no row is not an error: nothing changes. *)
WriteResumePageCursor(j, o, cursor) ==
  /\ resume' = IF leaseOwner[j] = o
               THEN [resume EXCEPT ![j] = cursor] ELSE resume
  /\ UNCHANGED <<status, leaseOwner, lapsed, cancelAt, deadLetters>>

CanFinalizeWhateverStatus(j, o) == leaseOwner[j] = o

CanFinalize(j, o) == leaseOwner[j] = o /\ status[j] = "reconciling"

FinalizeSucceeded(j, o) ==
  /\ CanFinalize(j, o)
  /\ status' = [status EXCEPT ![j] = "succeeded"]
  /\ UNCHANGED <<leaseOwner, lapsed, cancelAt, resume, deadLetters>>

MarkCancelled(j, o) ==
  /\ status' = IF leaseOwner[j] = o
               THEN [status EXCEPT ![j] = "cancelled"] ELSE status
  /\ UNCHANGED <<leaseOwner, lapsed, cancelAt, resume, deadLetters>>

MarkFailedUnfenced(j, o, failure) ==
  /\ status' = [status EXCEPT ![j] = failure]
  /\ deadLetters' = IF failure = "dead_lettered"
                    THEN deadLetters \union {j} ELSE deadLetters
  /\ UNCHANGED <<leaseOwner, lapsed, cancelAt, resume>>

(* The dead letter is inserted whether or not the UPDATE matched the row. *)
MarkFailed(j, o, failure) ==
  /\ status' = IF leaseOwner[j] = o
               THEN [status EXCEPT ![j] = failure] ELSE status
  /\ deadLetters' = IF failure = "dead_lettered"
                    THEN deadLetters \union {j} ELSE deadLetters
  /\ UNCHANGED <<leaseOwner, lapsed, cancelAt, resume>>

-----------------------------------------------------------------------------
(* The API's statements. *)

CreateJob(j) ==
  /\ status[j] = "absent"
  /\ status' = [status EXCEPT ![j] = "queued"]
  /\ UNCHANGED <<leaseOwner, lapsed, cancelAt, resume, deadLetters>>

MarkJobCancelled(j) ==
  /\ status[j] \in InProgress \union {"queued"}
  /\ status' = [status EXCEPT ![j] = "cancel_requested"]
  /\ cancelAt' = [cancelAt EXCEPT ![j] = TRUE]
  /\ UNCHANGED <<leaseOwner, lapsed, resume, deadLetters>>

RequeueFailedJobStillCancelled(j) ==
  /\ status[j] \in Failures
  /\ status' = [status EXCEPT ![j] = "queued"]
  /\ leaseOwner' = [leaseOwner EXCEPT ![j] = NoOwner]
  /\ lapsed' = [lapsed EXCEPT ![j] = FALSE]
  /\ UNCHANGED <<cancelAt, resume, deadLetters>>

(* retryJob's UPDATE.  The statement compares the status with the one the  *)
(* handler read before, so the read and the write count as one step.       *)
RequeueFailedJob(j) ==
  /\ status[j] \in Failures
  /\ status' = [status EXCEPT ![j] = "queued"]
  /\ leaseOwner' = [leaseOwner EXCEPT ![j] = NoOwner]
  /\ lapsed' = [lapsed EXCEPT ![j] = FALSE]
  /\ cancelAt' = [cancelAt EXCEPT ![j] = FALSE]
  /\ UNCHANGED <<resume, deadLetters>>

(* retryJob's compensation: only while no worker has taken the row. *)
RestoreFailure(j, failure) ==
  /\ status' = IF status[j] = "queued"
               THEN [status EXCEPT ![j] = failure] ELSE status
  /\ UNCHANGED <<leaseOwner, lapsed, cancelAt, resume, deadLetters>>

=============================================================================
