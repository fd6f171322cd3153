------------------------- MODULE IngestionProperties -------------------------
(***************************************************************************)
(* What integration ingestion is expected to do.                           *)
(***************************************************************************)
EXTENDS IngestionPipeline

(* No two runs share a lease owner: one delivery at a time per process.    *)
OwnersDistinct == \A r, s \in Runs : Owner[r] = Owner[s] => r = s

(* Every job is an incremental sync: request.from and request.to are null. *)
AllIncremental == \A j \in Jobs : From[j] = 0 /\ To[j] = 0

-----------------------------------------------------------------------------
(* Records. *)

(* No record below the stream's checkpoint is missing from source_records: *)
(* the checkpoint moves with the last page, "once every page of this fetch *)
(* window has landed" (ingestion-pipeline.ts), however the pages, retries  *)
(* and resumes of several jobs interleave.  The next incremental sync will *)
(* not ask for those records again.                                        *)
WatermarkCoversSource == 1 .. watermark \subseteq source

(* What a resumed attempt skips is done: the pages below the resume cursor *)
(* are "fetched, persisted, normalized, canonicalized and reconciled",     *)
(* although other jobs re-batch the same rows in between.                  *)
ResumeCoversCanonical ==
  \A j \in Jobs : skipped[j] \subseteq canonical

(* Once every job asked for has succeeded, what the next incremental sync  *)
(* will skip is in canonical_records.                                      *)
SuccessCoversWatermark ==
  (\A j \in Jobs : status[j] = "succeeded") => 1 .. watermark \subseteq canonical

-----------------------------------------------------------------------------
(* The life of a job. *)

(* A job whose cancellation was asked for, and not withdrawn by a retry,   *)
(* never succeeds, wherever the request falls between a run's cancel check *)
(* and its next write.                                                     *)
NoSuccessAfterCancel == \A j \in Jobs : cancelAt[j] => status[j] # "succeeded"

(* Nothing moves a job out of "succeeded" or "cancelled", not even a run   *)
(* that lost its lease and fails late (allowedTransitions).                *)
SettledIsFinal ==
  [][\A j \in Jobs :
       status[j] \in {"succeeded", "cancelled"} => status'[j] = status[j]]_vars

(* The phase of the abstract life a row's status stands for. *)
Phase(s) ==
  CASE s = "absent" -> "absent"
    [] s = "queued" -> "waiting"
    [] s \in InProgress -> "running"
    [] s = "cancel_requested" -> "stopping"
    [] s = "retryable_failed" -> "pausing"
    [] s \in {"terminal_failed", "dead_lettered"} -> "failed"
    [] s \in {"succeeded", "cancelled"} -> s

Lifecycle == INSTANCE SyncJobLifecycle WITH
  phase <- [j \in Jobs |-> Phase(status[j])],
  wish  <- cancelAt

(* The rows live the life SyncJobLifecycle describes. *)
ImplementsLifecycle == Lifecycle!LifeSpec

-----------------------------------------------------------------------------
(* Progress. *)

(* A failure that is to be retried does not stay: the queue delivers the   *)
(* job again, or has used up its attempts, whatever crashed or was not     *)
(* acknowledged in between.                                                *)
RetryableFailureIsRetried ==
  \A j \in Jobs :
    status[j] = "retryable_failed" ~>
      status[j] # "retryable_failed" \/ q[j] = "failed"

(* A requested cancellation ends the job: "The worker observes             *)
(* cancel_requested_at at safe checkpoints and records the terminal state" *)
(* (queue.service.ts).                                                     *)
CancelRequestSettles ==
  \A j \in Jobs :
    status[j] = "cancel_requested" ~> status[j] # "cancel_requested"

=============================================================================
