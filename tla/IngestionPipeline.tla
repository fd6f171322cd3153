-------------------------- MODULE IngestionPipeline --------------------------
(***************************************************************************)
(* Integration ingestion: the API creates a job row and a queue entry;     *)
(* worker processes take deliveries from the queue and execute             *)
(* DurableIngestionPipeline.run, one await per action, against the job     *)
(* row, the record tables and the provider; heartbeats, lease expiry,      *)
(* stalled deliveries, failures, crashes and the user's cancel and retry   *)
(* come in between.                                                        *)
(***************************************************************************)
EXTENDS SyncJobStore, JobQueue, IngestionData

CONSTANTS
  NoJob,       \* the job of an idle run
  Owner,       \* leaseOwner of the process each run slot belongs to
  Faults,      \* which faults happen: a subset of FaultKinds
  MaxFaults,   \* BOUND: errors, lost acknowledgements and crashes, in all
  MaxRequests  \* BOUND: cancelJob and retryJob calls, in all

(* "error"   a statement or the provider throws before it took effect      *)
(* "lostAck" a statement commits and then throws                           *)
(* "crash"   a worker process dies                                         *)
(* "pause"   a live process does not renew its lease and its lock in time  *)
FaultKinds == {"error", "lostAck", "crash", "pause"}

ASSUME PipelineAssumption ==
  /\ NoJob \notin Jobs
  /\ Owner \in [Runs -> Owners]
  /\ Faults \in SUBSET FaultKinds
  /\ MaxFaults \in Nat
  /\ MaxRequests \in Nat

VARIABLES
  run,         \* the local state of DurableIngestionPipeline.run, per slot
  retrying,    \* the failure a retryJob call in flight read, or "none"
  requests,    \* cancelJob and retryJob calls so far
  faults,      \* faults so far
  skipped      \* HISTORY: the records of the pages that resume[j] skips

localVars == <<run, retrying, requests, faults, skipped>>
vars == <<rowVars, queueVars, dataVars, localVars>>

-----------------------------------------------------------------------------
(* The next await of a run. *)
Steps == {"idle", "lease", "check", "cancelling", "checkpoint", "cursor",
          "transition", "work", "resume", "finalize", "failing",
          "return", "rethrow"}

RunStates == [
  pc        : Steps,
  job       : Jobs \union {NoJob},
  attempt   : Nat,
  stage     : InProgress,            \* currentState
  lost      : BOOLEAN,               \* leaseLost
  chk       : 0 .. MaxHead,          \* checkpoint
  cur       : Cursors,               \* pageCursor
  first     : Nat \ {0},             \* the fetched page
  last      : 0 .. MaxHead,
  next      : Cursors,               \* fetchResult.nextPageCursor
  nextCk    : 0 .. MaxHead,          \* fetchResult.nextCheckpoint
  nrm       : Nat,                   \* normalized.count
  can       : Nat,                   \* canonical.count
  done      : SUBSET Positions,      \* HISTORY: see skipped
  retryable : BOOLEAN ]              \* classification of the thrown error

IdleRun == [pc |-> "idle", job |-> NoJob, attempt |-> 0, stage |-> "leased",
            lost |-> FALSE, chk |-> 0, cur |-> 0, first |-> 1, last |-> 0,
            next |-> 0, nextCk |-> 0, nrm |-> 0, can |-> 0, done |-> {},
            retryable |-> TRUE]

Live(r) == run[r].pc # "idle"

(* The loop of run(): currentState and the state it moves to. *)
NextStage(stage) ==
  CASE stage = "leased"            -> "fetching"
    [] stage = "fetching"          -> "persisting_source"
    [] stage = "persisting_source" -> "normalizing"
    [] stage = "normalizing"       -> "writing_canonical"
    [] stage = "writing_canonical" -> "reconciling"
    [] stage = "reconciling"       -> "fetching"

RunTypeOK ==
  /\ run \in [Runs -> RunStates]
  /\ \A r \in Runs : Live(r) => run[r].job \in Jobs

CallTypeOK ==
  /\ retrying \in [Jobs -> Failures \union {"none"}]
  /\ requests \in Nat
  /\ faults \in Nat
  /\ skipped \in [Jobs -> SUBSET Positions]

TypeOK ==
  StoreTypeOK /\ QueueTypeOK /\ DataTypeOK /\ RunTypeOK /\ CallTypeOK

Init ==
  /\ StoreInit
  /\ QueueInit
  /\ DataInit
  /\ run = [r \in Runs |-> IdleRun]
  /\ retrying = [j \in Jobs |-> "none"]
  /\ requests = 0
  /\ faults = 0
  /\ skipped = [j \in Jobs |-> {}]

apiVars == <<retrying, requests>>

-----------------------------------------------------------------------------
(* The API. *)

Submit(j) ==
  /\ CreateJob(j)
  /\ UNCHANGED <<queueVars, dataVars, localVars>>

(* queue.enqueue after createJob; a request repeated with the same         *)
(* idempotency key finds the row and enqueues again.                       *)
Enqueue(j) ==
  /\ status[j] # "absent"
  /\ Add(j)
  /\ UNCHANGED <<rowVars, dataVars, localVars>>

Request ==
  /\ requests < MaxRequests
  /\ requests' = requests + 1

(* cancelJob: the row, then queue.cancel, which promotes a delayed job;    *)
(* that call may fail, and comes late when the backoff ends before it.     *)
RequestCancel(j) ==
  /\ Request
  /\ MarkJobCancelled(j)
  /\ Promote(j) \/ UNCHANGED queueVars
  /\ UNCHANGED <<dataVars, run, retrying, faults, skipped>>

(* retryJob: the row first ... *)
PrepareRetry(j) ==
  /\ retrying[j] = "none"
  /\ Request
  /\ RequeueFailedJob(j)
  /\ retrying' = [retrying EXCEPT ![j] = status[j]]
  /\ UNCHANGED <<queueVars, dataVars, run, faults, skipped>>

(* ... then queue.retry ... *)
QueueRetry(j) ==
  /\ retrying[j] # "none"
  /\ RetryFailed(j)
  /\ retrying' = [retrying EXCEPT ![j] = "none"]
  /\ UNCHANGED <<rowVars, dataVars, run, requests, faults, skipped>>

(* ... whose answer may be lost ... *)
QueueRetryUnacknowledged(j) ==
  /\ "lostAck" \in Faults /\ faults < MaxFaults
  /\ retrying[j] # "none"
  /\ RetryFailed(j)
  /\ faults' = faults + 1
  /\ UNCHANGED <<rowVars, dataVars, run, apiVars, skipped>>

(* ... and the compensation: BullMQ refuses a job it has not given up on,  *)
(* and may fail.                                                           *)
AbortRetry(j) ==
  /\ retrying[j] # "none"
  /\ IF q[j] # "failed" THEN UNCHANGED faults
     ELSE /\ "error" \in Faults /\ faults < MaxFaults
          /\ faults' = faults + 1
  /\ RestoreFailure(j, retrying[j])
  /\ retrying' = [retrying EXCEPT ![j] = "none"]
  /\ UNCHANGED <<queueVars, dataVars, run, requests, skipped>>

-----------------------------------------------------------------------------
(* DurableIngestionPipeline.run. *)

At(r, pc) == run[r].pc = pc
Working(r, stage) == At(r, "work") /\ run[r].stage = stage

(* The locals of run r become s. *)
Become(r, s) == run' = [run EXCEPT ![r] = s]

Goto(r, pc) == Become(r, [run[r] EXCEPT !.pc = pc])

(* run() is over; the worker has yet to report its outcome to the queue.   *)
Leave(r, outcome) ==
  Become(r, [IdleRun EXCEPT !.pc = outcome, !.job = run[r].job])

(* throw: on to the catch block, where the locals of the try block are     *)
(* out of scope.                                                           *)
FailedRun(r, retryable) ==
  [IdleRun EXCEPT !.pc = "failing", !.job = run[r].job,
                  !.attempt = run[r].attempt, !.lost = run[r].lost,
                  !.retryable = retryable]

Fail(r, retryable) == Become(r, FailedRun(r, retryable))

(* WorkerService.process *)
TakeJob(r) ==
  /\ At(r, "idle")
  /\ \E j \in Jobs :
       /\ Deliver(j, r)
       /\ Become(r, [IdleRun EXCEPT !.pc = "lease", !.job = j,
                                    !.attempt = made[j] + 1])
  /\ UNCHANGED <<rowVars, dataVars, apiVars, faults, skipped>>

Lease(r) ==
  /\ At(r, "lease")
  /\ AcquireLease(run[r].job, Owner[r])
  /\ Goto(r, "check")
  /\ UNCHANGED <<queueVars, dataVars, apiVars, faults, skipped>>

(* "not_leased" is a result, not an error: the delivery completes. *)
NotLeased(r) ==
  /\ At(r, "lease")
  /\ ~Leasable(run[r].job)
  /\ Leave(r, "return")
  /\ UNCHANGED <<rowVars, queueVars, dataVars, apiVars, faults, skipped>>

(* cancelIfRequested: before the first stage, after each but the last. *)
CheckCancel(r) ==
  /\ At(r, "check")
  /\ Goto(r, IF IsCancelRequested(run[r].job) THEN "cancelling"
             ELSE IF run[r].stage = "leased" THEN "checkpoint"
             ELSE "transition")
  /\ UNCHANGED <<rowVars, queueVars, dataVars, apiVars, faults, skipped>>

Cancel(r) ==
  /\ At(r, "cancelling")
  /\ MarkCancelled(run[r].job, Owner[r])
  /\ Leave(r, "return")
  /\ UNCHANGED <<queueVars, dataVars, apiVars, faults, skipped>>

ReadCheckpoint(r) ==
  /\ At(r, "checkpoint")
  /\ Become(r, [run[r] EXCEPT !.pc = "cursor", !.chk = watermark])
  /\ UNCHANGED <<rowVars, queueVars, dataVars, apiVars, faults, skipped>>

ReadResumePageCursor(r) ==
  /\ At(r, "cursor")
  /\ Become(r, [run[r] EXCEPT !.pc = "transition",
                              !.cur = resume[run[r].job],
                              !.done = skipped[run[r].job]])
  /\ UNCHANGED <<rowVars, queueVars, dataVars, apiVars, faults, skipped>>

Transition(r) ==
  /\ At(r, "transition")
  /\ LET from == run[r].stage
         to   == NextStage(from)
     IN  IF MayTransition(run[r].job, Owner[r], from)
         THEN /\ TransitionJobState(run[r].job, Owner[r], from, to)
              /\ Become(r, [run[r] EXCEPT !.pc = "work", !.stage = to])
         ELSE /\ Fail(r, TRUE)
              /\ UNCHANGED rowVars
  /\ UNCHANGED <<queueVars, dataVars, apiVars, faults, skipped>>

(* HISTORY: the records between the page asked for and the one after it.   *)
Passed(j, chk, cur) ==
  LET start == PageStart(j, chk, cur)
      next  == NextCursor(j, chk, cur)
      end   == IF next \in {0, NextStream} THEN PageEnd(j, start)
                                           ELSE PageStart(j, chk, next) - 1
  IN  {p \in Positions : start <= p /\ p <= end}

(* adapter.fetch, then the one place where leaseLost is looked at. *)
Fetch(r) ==
  /\ Working(r, "fetching")
  /\ LET j     == run[r].job
         start == PageStart(j, run[r].chk, run[r].cur)
     IN  IF run[r].lost THEN Fail(r, TRUE)
         ELSE Become(r, [run[r] EXCEPT
                !.pc     = "check",
                !.first  = start,
                !.last   = PageEnd(j, start),
                !.next   = NextCursor(j, run[r].chk, run[r].cur),
                !.nextCk = NextCheckpoint,
                !.done   = @ \union Passed(j, run[r].chk, run[r].cur)])
  /\ UNCHANGED <<rowVars, queueVars, dataVars, apiVars, faults, skipped>>

Page(r) == run[r].first .. run[r].last
IsLastPage(r) == run[r].next = 0

Persist(r) ==
  /\ Working(r, "persisting_source")
  /\ PersistFetchedPage(r, Page(r), IsLastPage(r), run[r].nextCk)
  /\ Goto(r, "check")
  /\ UNCHANGED <<rowVars, queueVars, apiVars, faults, skipped>>

Normalize(r) ==
  /\ Working(r, "normalizing")
  /\ NormalizeBatch(r)
  /\ Become(r, [run[r] EXCEPT !.pc = "check",
                              !.nrm = Cardinality(BatchRows(r))])
  /\ UNCHANGED <<rowVars, queueVars, apiVars, faults, skipped>>

WriteCanonical(r) ==
  /\ Working(r, "writing_canonical")
  /\ WriteCanonicalRecords(r)
  /\ Become(r, [run[r] EXCEPT !.pc = "check",
                              !.can = Cardinality(CanonicalRows(r))])
  /\ UNCHANGED <<rowVars, queueVars, apiVars, faults, skipped>>

CountsAgreeOnNormalized(r) == run[r].nrm = Cardinality(Page(r))

(* reconciliationStatus and assertSuccessfulReconciliation: the counts of  *)
(* the fetched, the normalized and the canonical rows agree.               *)
CountsAgree(r) ==
  LET fetched == Cardinality(Page(r))
  IN  run[r].nrm = fetched /\ run[r].can = fetched

Reconcile(r) ==
  /\ Working(r, "reconciling")
  /\ WriteReconciliation(run[r].job, CountsAgree(r))
  /\ IF CountsAgree(r)
     THEN Goto(r, IF IsLastPage(r) THEN "finalize" ELSE "resume")
     ELSE Fail(r, TRUE)
  /\ UNCHANGED <<rowVars, queueVars, apiVars, faults, skipped>>

WriteResume(r) ==
  /\ At(r, "resume")
  /\ WriteResumePageCursor(run[r].job, Owner[r], run[r].next)
  /\ skipped' = IF leaseOwner[run[r].job] = Owner[r]
                THEN [skipped EXCEPT ![run[r].job] = run[r].done]
                ELSE skipped
  /\ Become(r, [run[r] EXCEPT !.pc = "transition", !.cur = run[r].next])
  /\ UNCHANGED <<queueVars, dataVars, apiVars, faults>>

Finalizable(r) ==
  /\ CanFinalize(run[r].job, Owner[r])
  /\ run[r].job \in passed

Finalize(r) ==
  /\ At(r, "finalize")
  /\ IF Finalizable(r)
     THEN /\ FinalizeSucceeded(run[r].job, Owner[r])
          /\ Leave(r, "return")
     ELSE /\ Fail(r, TRUE)
          /\ UNCHANGED rowVars
  /\ UNCHANGED <<queueVars, dataVars, apiVars, faults, skipped>>

(* classifyFailure *)
Verdict(r) ==
  IF ~run[r].retryable THEN "terminal_failed"
  ELSE IF run[r].attempt >= MaxAttempts THEN "dead_lettered"
  ELSE "retryable_failed"

(* The catch block, which rethrows. *)
RecordFailure(r) ==
  /\ At(r, "failing")
  /\ MarkFailed(run[r].job, Owner[r], Verdict(r))
  /\ Leave(r, "rethrow")
  /\ UNCHANGED <<queueVars, dataVars, apiVars, faults, skipped>>

ReportSwallowed(r) ==
  /\ At(r, "return") \/ At(r, "rethrow")
  /\ Complete(run[r].job, r)
  /\ Become(r, IdleRun)
  /\ UNCHANGED <<rowVars, dataVars, apiVars, faults, skipped>>

(* The BullMQ worker reports how the processor ended. *)
Report(r) ==
  /\ \/ At(r, "return") /\ Complete(run[r].job, r)
     \/ At(r, "rethrow") /\ FailAttempt(run[r].job, r)
  /\ Become(r, IdleRun)
  /\ UNCHANGED <<rowVars, dataVars, apiVars, faults, skipped>>

(* Between acquireLease and the end of the try statement. *)
Leasing(r) == run[r].pc \notin {"idle", "lease", "return", "rethrow"}

(* The heartbeat's timer, once the row's lease has lapsed or the row is no *)
(* longer the run's to renew.                                              *)
Heartbeat(r) ==
  /\ Leasing(r) /\ ~run[r].lost
  /\ LET j == run[r].job
     IN  \/ /\ lapsed[j]
            /\ RenewLease(j, Owner[r])
            /\ UNCHANGED run
         \/ /\ ~Renewable(j, Owner[r])
            /\ Become(r, [run[r] EXCEPT !.lost = TRUE])
            /\ UNCHANGED rowVars
  /\ UNCHANGED <<queueVars, dataVars, apiVars, faults, skipped>>

-----------------------------------------------------------------------------
(* Time and faults. *)

RunsOf(o) == {r \in Runs : Live(r) /\ Owner[r] = o}

(* now() passes lease_expires_at. *)
LeaseExpires(j) ==
  /\ \/ "pause" \in Faults
     \/ \A r \in RunsOf(leaseOwner[j]) : run[r].job # j
  /\ LapseLease(j)
  /\ UNCHANGED <<queueVars, dataVars, localVars>>

DeliveryStalls(j) ==
  /\ "pause" \in Faults \/ holder[j] = NoRun
  /\ Stall(j)
  /\ UNCHANGED <<rowVars, dataVars, localVars>>

BackoffEnds(j) ==
  /\ Promote(j)
  /\ UNCHANGED <<rowVars, dataVars, localVars>>

Grow ==
  /\ Produce
  /\ UNCHANGED <<rowVars, queueVars, localVars>>

Fault(kind) ==
  /\ kind \in Faults
  /\ faults < MaxFaults
  /\ faults' = faults + 1

(* A statement, the adapter or the provider throws.  Only the adapter and  *)
(* the provider throw what is not worth a retry.                           *)
Throw(r) ==
  /\ Fault("error")
  /\ Leasing(r) /\ ~At(r, "failing")
  /\ \/ Fail(r, TRUE)
     \/ /\ At(r, "checkpoint") \/ Working(r, "fetching")
        /\ Fail(r, FALSE)
  /\ UNCHANGED <<rowVars, queueVars, dataVars, apiVars, skipped>>

(* acquireLease and markFailed are not in the try block: the delivery      *)
(* fails and the row is not told.                                          *)
ThrowUnrecorded(r) ==
  /\ Fault("error")
  /\ At(r, "lease") \/ At(r, "failing")
  /\ Leave(r, "rethrow")
  /\ UNCHANGED <<rowVars, queueVars, dataVars, apiVars, skipped>>

(* renewLease throws: the run takes its lease for lost. *)
RenewalThrows(r) ==
  /\ Fault("error")
  /\ Leasing(r) /\ ~run[r].lost
  /\ Become(r, [run[r] EXCEPT !.lost = TRUE])
  /\ UNCHANGED <<rowVars, queueVars, dataVars, apiVars, skipped>>

(* The statements whose commit the catch block, or the lack of one, makes  *)
(* matter.  Elsewhere it is a Throw of the next step.                      *)
LoseAck(r) ==
  /\ Fault("lostAck")
  /\ \/ /\ At(r, "lease")
        /\ AcquireLease(run[r].job, Owner[r])
        /\ Leave(r, "rethrow")
     \/ /\ At(r, "cancelling")
        /\ MarkCancelled(run[r].job, Owner[r])
        /\ Fail(r, TRUE)
     \/ /\ At(r, "finalize")
        /\ Finalizable(r)
        /\ FinalizeSucceeded(run[r].job, Owner[r])
        /\ Fail(r, TRUE)
  /\ UNCHANGED <<queueVars, dataVars, apiVars, skipped>>

(* A worker process dies with every run it executes. *)
Crash(o) ==
  /\ Fault("crash")
  /\ RunsOf(o) # {}
  /\ run' = [r \in Runs |-> IF Owner[r] = o THEN IdleRun ELSE run[r]]
  /\ Orphan(RunsOf(o))
  /\ UNCHANGED <<rowVars, dataVars, apiVars, skipped>>

-----------------------------------------------------------------------------
RunStep(r) ==
  \/ Lease(r) \/ NotLeased(r)
  \/ CheckCancel(r) \/ Cancel(r)
  \/ ReadCheckpoint(r) \/ ReadResumePageCursor(r)
  \/ Transition(r)
  \/ Fetch(r) \/ Persist(r) \/ Normalize(r) \/ WriteCanonical(r) \/ Reconcile(r)
  \/ WriteResume(r)
  \/ Finalize(r)
  \/ RecordFailure(r)
  \/ Report(r)

RunFault(r) ==
  Throw(r) \/ ThrowUnrecorded(r) \/ RenewalThrows(r) \/ LoseAck(r)

ApiStep(j) ==
  \/ Submit(j) \/ Enqueue(j)
  \/ RequestCancel(j)
  \/ PrepareRetry(j) \/ QueueRetry(j) \/ QueueRetryUnacknowledged(j)
  \/ AbortRetry(j)

TimeStep(j) ==
  LeaseExpires(j) \/ DeliveryStalls(j) \/ BackoffEnds(j)

Next ==
  \/ \E r \in Runs : TakeJob(r) \/ RunStep(r) \/ Heartbeat(r) \/ RunFault(r)
  \/ \E j \in Jobs : ApiStep(j) \/ TimeStep(j)
  \/ \E o \in Owners : Crash(o)
  \/ Grow

Spec == Init /\ [][Next]_vars

(* A worker that lives goes on, the queue delivers what waits, timers end. *)
Fairness ==
  /\ \A r \in Runs : WF_vars(RunStep(r)) /\ WF_vars(TakeJob(r))
  /\ \A j \in Jobs : /\ WF_vars(LeaseExpires(j))
                      /\ WF_vars(DeliveryStalls(j))
                      /\ WF_vars(BackoffEnds(j))

FairSpec == Spec /\ Fairness

=============================================================================
