# PapaData Platform: formal specification

TLA+ models of the stateful, concurrent parts of PapaData Platform, the TLC
runs that check them on small instances, and TLAPS proofs about them. Paths are
relative to the repository's root (`src/` in PROJECT.json).

## 1. The system

A web application talks to a backend-for-frontend (`apps/bff`), which talks to
the API (`apps/api`). API and workers (`apps/worker`, several processes, each
with several concurrent jobs) share PostgreSQL and two BullMQ queues in Redis.
Nearly all coordination is by rows: a status column, a lease, an idempotency
key, an advisory lock.

### 1.1 Inventory

| Component | State | Operations | What is hard |
|---|---|---|---|
| **Ingestion pipeline** `worker/.../ingestion-pipeline.ts`, `worker.service.ts` | locals of `run`: stage, leaseLost, checkpoint, page cursor, counts | lease, heartbeat, cancel check, read checkpoint and resume cursor, fetch → persist → normalize → canonical → reconcile per page, resume cursor, finalize, classify and record the failure | a run that lost its lease and goes on; cancel, failure, crash or redelivery between any two awaits |
| **Sync job row** `app.sync_jobs` (`packages/database/src/production.ts`) | status, lease owner and expiry, cancel request, resume cursor; dead letters | one UPDATE each, fenced by owner and/or status | which statements are fenced by what |
| **Ingestion API** `integration.service.ts` | none besides row and queue | start (create row, then enqueue), cancel, retry with compensation | two stores, no transaction over both |
| **Integration queue** BullMQ, `queue.service.ts` | place of a job, lock, attempts, stalls | add, deliver, complete, fail, back off, stall, promote, retry | at-least-once delivery |
| **Paging adapters** `shopify.ts`, `woocommerce.ts` | none; the provider's data moves | fetch one page of one stream of the window | page cursors against a moving window |
| **Record tables** source, normalized, canonical records, reconciliation runs, `sync_checkpoints` | rows and their latest batch; checkpoint per stream | persist page (+ checkpoint), normalize, canonicalize, reconcile | several jobs upsert the same rows; the checkpoint is last-writer-wins |
| **Sync dispatch scheduler** `sync-dispatch-scheduler.service.ts` | last job per connection | find due connections, create job, enqueue | crash between row and queue, two schedulers |
| **Provider webhooks** `webhook.service.ts` | receipts | reserve receipt, start sync | receipt kept when the sync never started |
| **Assistant runs** `assistant-run.service.ts`, `platform-worker.service.ts`, `papa-runtime` | run status, lease, message, cost | start (advisory lock, one active run), claim, heartbeat, generate, store, charge, complete, fail, cancel | no owner in the fencing; cancel read apart from the failure update |
| **Commands** `command-execution.interceptor.ts` | execution row per key, audit events | reserve, replay, take over after 15 min, complete, fail | unfenced outcome, crash between handler and outcome |
| **Settings, team and billing operations** `operation-store.ts`, `billing-operations.service.ts` | receipts, versions, checkout rows, Stripe's sessions | save with expected version; intent, Stripe call, record | a call of Stripe between two transactions |
| **Billing webhooks and projection** `stripe-billing-projection.ts` | events seen, subscription row | project the current subscription | events out of order, early, repeated |
| **Platform scheduler, metric reprocessing** `scheduler.service.ts` | schedule runs, reprocess jobs | singleton enqueue, detect, claim, resolve, release | enqueue inside a transaction, claim without lease |
| **Access mail outbox** `access-mail-worker.service.ts` | mail row: status, attempts, available_at, body | claim, prepare, send, settle, retry, expire | two-minute claim, unfenced settlement |
| **Reports, retention, privacy** `platform-worker.service.ts`, `report.service.ts`, `privacy.service.ts` | report rows, request and target rows, objects | generate, sweep; approve, evidence, targets | an object store beside the transactions |
| **BFF sessions** `session-store.ts`, `identity-session.service.ts`, `session-assurance.service.ts` | session record, refresh token, user index | login, refresh, select, step up, revoke, revoke all | read-modify-write of one record |
| Rate limiters, audit, step-up proofs, invitation tokens | counters, single-use rows | one atomic statement each | little |
| Identity and access, read models, AI runtime, web application | — | request handlers, pure projections, user interface | not concurrency |

Bold parts are modelled.

How they interact: the API writes a `sync_jobs` row and then a queue entry; a
worker process takes the delivery and executes `run` against the row, the
provider and the record tables; the user's cancel and retry write the row and
then the queue. Webhooks and the dispatch scheduler are further creators of
jobs. Assistant runs, reports and privacy requests go through the second queue
(`papadata-platform-jobs`) in the same row-then-queue way.

### 1.2 What makes each part correct

* **Sync job**: it lives a sensible life (SyncJobLifecycle below); a cancelled job
  never succeeds; a settled job stays settled; a failure to be retried is
  retried; a cancel request settles.
* **Records**: nothing below the checkpoint is missing, for it will never be
  asked for again; what a resume skips is finished; what a successful sync
  covers is canonical.
* **Assistant run**: one active run per workspace; one worker generates while the
  lease is renewed; a cancelled run stays cancelled; what is completed is
  answered, what was paid is charged; a run settles.
* **Command**: one execution at a time within 15 minutes; what is replayed as a
  success was done and audited; no save is lost; one checkout can be paid.
* **Billing projection**: the row never shows a state the subscription has not
  had, never goes back, and covers every applied event.
* **Scheduler, outbox, webhook, dispatch**: a claimed thing is settled or claimed
  again; an accepted event is acted upon; one job per hour; one body per mail.
* **Objects**: row and object agree although no transaction spans them.
* **Session**: a revoked session stays revoked; a refresh token is good once; an
  honest browser is never taken for a thief.

All hazards, each at its line and with its property or the reason why it has
none, are in PROJECT.json.

## 2. Plan

1. **Ingestion**: the core of the product and its most concurrent part. Done.
2. **Assistant runs**: API, queue, workers, provider. Done.
3. **Commands** with two kinds of handler, settings saves and checkouts. Done.
4. **Sync dispatch** with webhooks, **metric reprocessing**, **schedule**. Done.
5. **Mail outbox**, **Stripe projection**, **BFF sessions**, **reports** and
   **privacy requests**. Done.
6. **Proofs.** Done: types and every safety property the passing runs check, action
   properties included, and the refinements of BillingMirror and SyncJobLifecycle.
   What is left could be stated more widely:
   * CheckpointIsSafe covers one cursor kind and requests without a later stream; the
     two other cases are violated (runs `page_offset`, `later_stream`).
   * OutcomesOfJobsAreFinal and RowsLiveTheLifecycle exclude lost acknowledgements,
     and runs of one job that share an owner. Both exclusions are needed, see section 5.

## 3. Modules

| Module | Models | Code |
|---|---|---|
| `SyncJobs` | constants: jobs, run slots, the provider's timeline, cursors | — |
| `SyncJobStore` | `app.sync_jobs`: one operator per SQL statement, WHERE and SET | `packages/database/src/production.ts` 449-596, 1136-1398, 1650-1819; `integration.service.ts` 248-286 |
| `JobQueue` | the BullMQ contract (external) | as used by `queue.service.ts`, `worker.service.ts` |
| `IngestionData` | record tables, checkpoint, provider, `fetch` of the paging adapters | `production.ts` 1310-1343, 1400-1648, 1822-2036; `shopify.ts`, `woocommerce.ts` |
| `IngestionPipeline` | composes the three with `run`, one action per await, the API's calls, time and faults | `ingestion-pipeline.ts` 178-612, `worker.service.ts` 104-140, `integration.service.ts` 248-416 |
| `SyncJobLifecycle` | abstract: the life of a job as a watcher of its row sees it | — |
| `IngestionProperties` | the properties, and the refinement mapping to SyncJobLifecycle | — |
| `MCIngestion` | values of the constants for TLC | — |
| `AssistantRuns`, `AssistantProperties`, `MCAssistant` | generation runs: API, queue, workers, provider, conversation, cost | `assistant-run.service.ts` 133-258; `platform-worker.service.ts` 69-347; `assistant-generation.policy.ts`; `papa-runtime/src/index.ts` 388-581, 1564-1678 |
| `BffSessions`, `SessionProperties`, `MCSessions` | records, tokens and index of one user's sessions, one Redis command a step; the browsers' cookies | `session-store.ts`, `identity-session.service.ts`, `session-assurance.service.ts`, `authRefreshCoordinator.ts` |
| `Commands` | rows of `app.command_executions` | `command-execution.interceptor.ts` |
| `OperationStore` | `operation()`: receipt, version, write | `operation-store.ts`, `settings-operations.service.ts` |
| `BillingCheckout` | checkout rows, Stripe's sessions, the mapped subscription | `billing-operations.service.ts` |
| `ApiCommands`, `CommandProperties`, `MCCommands` | composes the three: the interceptor around the handlers, faults, the customer | `command-execution.interceptor.ts` 40-200 |
| `WorkerProcesses`, `PlatformJobs` | constants of the worker's background work | — |
| `AccessMail` | the mail outbox | `access-mail-worker.service.ts` |
| `MetricReprocessing` | detection and drain of reprocess jobs | `scheduler.service.ts` |
| `PlatformSchedule` | `enqueueSingleton`, and the job's end in `completeSchedule` | `scheduler.service.ts`, `platform-worker.service.ts` 523-650 |
| `StripeProjection` | webhook, queue and `projectStripeBilling` | `stripe-webhook.service.ts`, `stripe-billing-projection.ts` |
| `BillingMirror` | abstract: a row that follows the subscription | — |
| `SyncDispatch` | dispatcher and provider webhooks, both creating syncs | `sync-dispatch-scheduler.service.ts`, `webhook.service.ts`, `integration.service.ts` 307-416 |
| `ReportExports` | one report's row and object: create, generate, sweep | `report.service.ts`, `platform-worker.service.ts` 349-447, 542-600 |
| `PrivacyRequests` | one request: approve, evidence, targets | `privacy.service.ts` 80-161, `platform-worker.service.ts` 448-519 |
| `BackgroundWork`, `MCBackground` | the seven parts above, one per behaviour | — |
| `IngestionTypes`, `IngestionRecordProofs`, `IngestionOutcomeProofs` | proofs about IngestionPipeline: its types, its records, and how a job may end, with the refinement of SyncJobLifecycle | — |
| `StripeProofs` | proofs about StripeProjection, with the refinement of BillingMirror | — |
| `CommandProofs` | proofs about ApiCommands | — |
| `SessionProofs`, `AssistantProofs` | proofs about BffSessions and AssistantRuns | — |
| `BackgroundProofs` | proofs about BackgroundWork and its parts, on top of StripeProofs | — |

`JobQueue` serves every queue: the later modules instantiate it with their own
jobs, attempts and stall limits.

Definitions keep the names of the functions they model. Operators named like
`MarkFailedUnfenced`, standing before `MarkFailed`, are slips a programmer could
make in that statement; nothing uses them but the mutation test of the property
PROJECT.json names.

### 3.1 How state and actions correspond to the code

* A **run** is a slot of a worker process executing one delivery: `pc` is the
  next await of `run`, `stage` is `currentState`, `lost` is `leaseLost`, the
  rest are the function's locals. Every await that reads or writes shared state
  is one action; synchronous code between two awaits belongs to the action
  before it (the check of `leaseLost` to `Fetch`, the classification of an
  error to `RecordFailure`, `assertSuccessfulReconciliation` to `Reconcile`).
  Every repository method is one transaction, hence one step.
* The **row** keeps the columns that guard something. `lapsed` is
  `lease_expires_at < now()`; `LapseLease` is the clock. `attempts`,
  `heartbeat_at` and the texts are left out: no statement reads them.
* **Fencing** is that of the WHERE clauses: an UPDATE that matches no row
  changes nothing and is an error only where the code says so.
  `persistFetchedPage`, `normalizeBatch` and `writeCanonicalRecords` are not
  fenced at all, and neither are they here.
* A **record** is a position on the provider's timeline, i.e. one version of a
  provider object; larger positions were updated later. The checkpoint is the
  newest position at the time of the call of `fetch`: the adapters take the
  clock at its start, so fetching and reading the clock in one step is no
  stronger than the code. `updated_at >= checkpoint` becomes "after the last
  position before the checkpoint".
* **source_batch_id** becomes "the run whose latest batch this row is in":
  `normalizeBatch` and `writeCanonicalRecords` only ever select the batch of
  the run that calls them.
* A **page cursor** is a position (Shopify's `endCursor`, orders sorted by
  UPDATED_AT), or a count from the start of the window (WooCommerce's page
  number) when `OffsetCursor`. Without the header x-wp-totalpages (`CountsPages`) the
  WooCommerce adapter asks for one more, empty, page after a full last one. `MoreStreams` makes the request go on with a
  further stream, whose pages hold none of the records modelled.
* `skipped` and `done` are **history variables**: the records between the pages
  asked for, so that a property can say what a resume cursor skips.

In the other modules the same conventions hold: `work[w]`, `tick[w]`, `drain[w]`,
`making[w]` and the like are the handler or process in slot w, its `pc` the next
await and the rest the locals it read earlier; each transaction, Redis command
or call is one action; a crash empties the slot; what the code does after an
error is the action of its catch block, and an error before a statement stands
for one after it wherever the code cannot tell. In particular:

* **AssistantRuns.** The claim compares status and lease; heartbeat, completion and
  settlement do not name the claimer, so nothing in their guards does. The claim and
  the read of the status after it stand before the try block: what throws there
  (ClaimThrows) reaches the queue and no catch block, unlike Throw. Storing
  the message and recording the cost are two transactions. The provider's answer
  is a choice (an answer, a refusal by the budget, a failure).
* **BffSessions.** A handler copies the record when it reads it and writes the
  copy back. The tabs of a browser keep to one refresh at a time when it has Web
  Locks (`WebLocks`). Otherwise `authRefreshCoordinator.ts:149-167` reads, writes and
  reads again an entry of the local storage, which another tab can do in
  between, whose ten seconds may be over before the reply, and which counts as taken when
  the storage throws; so there the model lets tabs refresh at any time, and
  `raced` notes sessions where two did. `overlapped` notes sessions whose record some handler held while
  they were revoked, `redeemed` the tokens already exchanged.
* **ApiCommands.** Requests for the same command are repeated at will. `aged` is
  "created 15 minutes ago"; `overran` notes commands whose reservation aged
  under a live handler. In BillingCheckout `over` is `expires_at`, one instant for
  the row and for Stripe, which gets it as the session's expiry.
* **StripeProjection.** States of the subscription are numbered by its changes;
  the advisory lock, the read of Stripe and the commit are three steps.
* **ReportExports, PrivacyRequests.** Artifacts and evidence contain the time, so
  each rendering is a new number; a checksum in a row is the number it was
  computed from. The artifact is put while the transaction holds the row; the
  sweep selects and deletes without holding it.
* **BackgroundWork.** The parts share the processes and nothing else, so a behaviour
  picks one part.

### 3.2 Abstractions a reader should know

* One connection, one checkpoint stream. The connection stays active.
* In `retryJob` the read and the UPDATE are one step (the UPDATE compares the
  status with the one read); one retry call is in flight per job.
* `cancelJob` updates the row and promotes a delayed queue entry, or does not
  (the call fails, or comes after the backoff ended).
* A lost acknowledgement is modelled where the code after it makes it differ
  from an error: acquireLease, markCancelled, finalizeSucceeded, queue.retry.
  Elsewhere it equals an error of the following step.
* Statuses that no code path writes to these rows (`running`, `rate_limited`,
  `retry_wait`, `failed`) are left out. No adapter returns `partial: true`.
* Duplicate external ids within a page, payload contents, and the removal of
  old entries from the queue are left out.

## 4. Runs

The first seven runs instantiate `MCIngestion` with one or two jobs and two run slots in two
processes (`o1`, `o2`): two is the least number at which a lease can be
taken over. `MaxAttempts = 2` (the code's 5) makes one failure retryable and the
second exhaust the queue; `MaxStalls = 1` is BullMQ's default. `MaxFaults`
bounds errors, lost acknowledgements and crashes in all; `MaxRequests` the
user's cancels and retries; `MaxHead` the records. Pauses (a lease or a lock
that expires under a live process) are bounded by the attempts, not by
`MaxFaults`. Deadlock is not checked: jobs end, bounds are reached, and nothing
is left to do.

| Run | Instance | Shows |
|---|---|---|
| `lease` | 1 job, no records, error + crash + pause, 1 fault, 2 requests | NoSuccessAfterCancel, SettledIsFinal, ImplementsLifecycle. Data does not guard the row's life (an empty page goes through every stage), hence no records; two requests are cancel and retry, and cancel of the second life; the processes overtake each other at every await. 2.4 M states |
| `pages` | 2 jobs, 3 records, pages of 1, 1 error | WatermarkCoversSource, ResumeCoversCanonical. Three pages are a first, a middle and a last; two jobs re-batch each other's rows; an error makes either resume. 3.2 M states |
| `progress` | 1 job, 1 record, error + lost ack + crash, 3 faults, 2 requests, fair | RetryableFailureIsRetried. Three faults are two that exhaust the attempts and one in the retry. 0.4 M states |
| `cancel_queued` | 1 job, no faults, fair | violation, see below |
| `lost_canonical` | 1 job, 1 error | violation |
| `page_offset` | 1 job, 3 records, 1 error, OffsetCursor | violation; the same without `CountsPages` |
| `later_stream` | 1 job, 2 records, no faults, MoreStreams | violation |

| `assistant` | 2 runs, 2 workers, 2 attempts, 1 stall, 2 faults, faults and cancels on the first run | ExclusiveWhileLeased, CancelStands, OneActiveRun, CompletedIsAnswered, PaidAnswerIsCharged, OutcomeIsFinal, EveryRunSettles. Two runs are needed for "one active"; two workers for a takeover; two faults are two errors, which exhaust the attempts of an undisrupted run, or an error and a disruption; faults on one run suffice, as runs share only the lock of start(). 0.42 M states |
| `sessions` | 2 sessions, 2 handlers, 3 requests, 1 fault, Web Locks in the first browser only | RevocationStands, StepUpStaysInItsWorkspace, NoFalseReuse, TokenIsSpentOnce. A revocation, the handler it overlaps and the request that profits are three requests; the second session is the one revoked from elsewhere and asks only refresh and select. 5.7 M states |
| `revived_session` | 1 session, 2 handlers, a refresh and a sign-out of all sessions, no fault | violation |
| `commands` | 2 checkouts, 2 saves, 2 handlers, 4 requests, 2 faults, symmetry | OneExecution, SuccessIsBacked, NoLostUpdate, OneOpenCheckout, PaidOnce. Each checkout may be asked for twice; two faults lose one response each. The commands of a kind are interchangeable, and no property distinguishes them, so symmetry is sound (invariants only). 7.1 M states |
| `background` | 2 processes, see below, fair | the twelve properties of the seven parts, TypeOK, and StripeIsMirrored, the refinement of BillingMirror. 0.3 M states |

The parts of `background`: 1 mail, 5 attempts, 2 faults; 2 metric codes, 2
reprocess jobs; 2 hours, 2 attempts, 1 stall; 3 Stripe events (the checkout's, the
creation's, one more change), 2 attempts, 1 stall, 1 fault; 2 intervals, 1 webhook
event, 2 receivers, 1 fault; one report and one privacy request with 3 targets (the
code's 8), 2 attempts, 1 stall, 2 faults. Two processes are what an overlap needs; two
attempts make one failure retryable and the next one final. By themselves the
parts were also explored further: 2 mails, 2 Stripe faults, 2 webhook events.

ResumeCoversCanonical is about what was skipped, SuccessCoversWatermark about
what the checkpoint passed; the first holds, the second does not.

**Fairness**. In ingestion (`FairSpec`, for the two runs about progress): weak fairness of each
run's next step (a live worker's awaits return), of taking a waiting job
(the queue delivers), of the lapse of an unrenewed lease, of the stalled
check and of the end of a backoff (timers fire). None of the user's calls, of the
heartbeat, or of faults. A crashed process is replaced: its slots become idle.

In `assistant`: of each worker's next step, of the API's enqueue and of its
compensation, of backoff and delivery. In `background`: of the mail worker's tick and
steps and of the two-minute clock; of each process's drain; of Stripe's and the queue's deliveries
and the projection's steps; of the dispatcher's cron, of each webhook request's
steps, and of the queue that runs syncs; of approve(), the queue and the handler
of privacy requests. Each is an await that returns, a timer that fires or a queue that
delivers; a crash or error disables the step and is not required. Users,
providers and faults have no fairness anywhere. `sessions` and `commands` have no
liveness property: every step of theirs belongs to a user's request.

### 4.1 Where code and comments differ

* **A queued job that is cancelled never settles** (`cancel_queued`).
  `markJobCancelled` accepts a queued job; `acquireLease` never leases
  `cancel_requested`, so no worker "observes cancel_requested_at ... and records
  the terminal state" (`queue.service.ts:85-86`).
* **A failure after the last page is persisted loses its canonical records**
  (`lost_canonical`). The checkpoint moves in the transaction that persists
  the last page; the retry starts from behind that page
  (`ingestion-pipeline.ts:306-312`).
* **Page numbers under a moved checkpoint** (`page_offset`). A resumed WooCommerce
  job counts its page from the checkpoint read now, not from the one under which
  the cursor was written. With one job the checkpoint moves when the
  last page was persisted and a later step of the same attempt failed.
* **The last stream's clock becomes every stream's checkpoint** (`later_stream`). No
  fault is needed, only an order that changes after the orders' last page and
  before the last page of the next stream.
* **A refresh brings a revoked session back** (`revived_session`). It writes the whole
  record that it read before the rotation; `session-store.ts:79-84` calls that "second
  write" not "security-critical", since only "one of two identical expiresAt values wins".
  Every handler that saves a record does the same, without that comment.

Two more differences have no run of their own, but the passing runs reach them:

* "under normal use should never happen" (`identity-session.service.ts:212`): without
  Web Locks two tabs of one browser can present one token, and the user loses all
  sessions. NoFalseReuse excepts exactly `raced \ WebLocks`; without that exception TLC
  finds the case in `sessions`, with no fault.
* "once they are exhausted this always fails" (`assistant-generation.policy.ts:37-38`): a
  claim that throws at the last attempt leaves its run active. EveryRunSettles counts it
  as disrupted; without that TLC finds the case in `assistant`.

WatermarkCoversSource therefore is checked, in the passing runs, and proved,
under position cursors and a request with one stream; the two violations say
that both conditions are needed.

### 4.2 What the properties except

Several properties hold only outside a window in which the code really does
not keep them, and say so with a history variable. But for the first and for what
4.1 says of it and of the assistant's attempts, no document of the repository speaks of
these cases, so they are not findings:

* a revoked session comes back when a handler that held its record writes it
  back (RevocationStands; `revived_session` is the case without the exception);
* a browser without Web Locks whose tabs refresh at once may be taken for a thief
  (NoFalseReuse);
* an assistant run that threw may overwrite a cancel that came between the
  catch block's read and its update (CancelStands);
* a paid answer stays uncharged when a failure comes between the message and
  the governance event: the retry finds the message and returns (PaidAnswerIsCharged);
* an assistant delivery that comes before the lease lapsed gives the run up, and so
  does a claim that throws at the last attempt or whose commit is not
  acknowledged (EveryRunSettles);
* a late tick puts a mail with used-up attempts back to `queued`, where only the
  seven-day deletion finds it (EveryMailEnds);
* reprocess jobs claimed by a process that fails stay `running` (FreshJobIsResolved);
* a scheduled job may overtake the commit of its reservation, whose row then says
  `enqueued` for good (RowTellsTheRun);
* a webhook's receipt is kept when the sync did not start (EveryEventIsSynced);
* a report regenerated without being recorded, or regenerated while a sweep
  deletes it, leaves row and object apart (RowMatchesObject);
* a privacy request whose enqueue failed stays `approved`, with its verification
  used up (ApprovedEndsPartial);
* a second checkout can be paid when the first payment's webhook was not
  processed before that checkout was over (PaidOnce).

## 5. Proofs

`IngestionTypes` proves `TypeCorrect == Spec => []TypeOK`, for all values of the
constants that satisfy the named assumptions: one lemma per statement of
the row, the queue and the tables, then one step per action. The prover needs
the page arithmetic (FetchTypes) and that a failed run's locals are typed.

`IngestionRecordProofs` proves

    THEOREM CheckpointIsSafe ==
      ASSUME AllIncremental, ~OffsetCursor, ~MoreStreams
      PROVE  Spec => []WatermarkCoversSource

WatermarkCoversSource alone is not inductive: the checkpoint takes the value a
run carries, so one must know that everything below it is there before the last
page is written. The invariant `NoGaps` says of the checkpoint, of every row's
resume cursor and of every run's checkpoint, cursor and current page that no
record below it is missing from source_records; that a run past its persist
has its page in there; and that a page's end is its next checkpoint when it is
the last one, and lies just before the next cursor otherwise. Source rows are
never deleted, so what holds of one run survives the steps of all others;
that is why the checkpoint is safe although no lease fences it. The
theorem holds under every fault of the model, including runs that lost their
lease, and for any number of jobs.

`IngestionOutcomeProofs` proves how a job may end and what a resumed attempt skips:

    THEOREM CancelledJobsDoNotSucceed ==
      Spec /\ []OwnersApart => []NoSuccessAfterCancel
    THEOREM OutcomesOfJobsAreFinal ==
      ASSUME "lostAck" \notin Faults
      PROVE  Spec /\ []OwnersApart => SettledIsFinal
    THEOREM RowsLiveTheLifecycle ==
      ASSUME "lostAck" \notin Faults
      PROVE  Spec /\ []OwnersApart => ImplementsLifecycle
    THEOREM ResumesSkipWhatIsWritten == Spec => []ResumeCoversCanonical

OwnersApart says that no process executes two deliveries of one job at the same
time. A lease owner names a process, and a process has `WORKER_CONCURRENCY`
(4, `config.ts:106`) slots, so several jobs may share an owner at any time; one job does
only when its lock lapses under a live process and the same process is handed the
redelivery. `ProcessesDoNotShareAJob` proves []OwnersApart when every process has one
slot, or when a live process renews its locks (no "pause"); its invariant LockHeld says
that the queue's lock of a job is held by the one run that executes it.

The arguments rest on what one step may do to a row: RunRowEffect and ApiRowEffect
reduce every step to taking a row, advancing it, ending it, or one of the API's
four changes.

* CancelInv: a row whose cancel stamp is set is never past the first stage. A cancel
  moves the row out of the way of its run; a cancelled row that failed can be leased
  again, but the run that owns it finds the stamp before it may start a stage.
* LeaseInv: a run that owns its row, and is between acquireLease and the end of the
  try and catch blocks, finds it in progress or cancel_requested, so only such rows get
  an outcome; a row that waits has no owner.
* ResumeInv, which needs neither owners nor faults: what a run carries as done is in
  canonical_records or on the page in its hands; its batch is a part of that page, however
  many rows others took into batches of their own; so when the count of canonical rows
  is the count of the page, the page is written.

The exclusions are needed. A finalize or a cancel whose acknowledgement is lost is
followed by markFailed, which does not look at the status; and a run that failed late
overwrites the outcome of another run with the same owner, for the same reason.
TLC shows the second with `Owner <- MCOwnerOne` in `lease.cfg`: cancelled becomes
retryable_failed. NoSuccessAfterCancel survives there on that instance (3.0 M states),
but CancelInv does not, and a proof would have to bound how many runs of one job a
process can hold.

Assumptions: the named ASSUMEs of the modules (types of the constants, NoRun and
NoJob are not members of their sets); TLC evaluates them in every run.

`StripeProofs` proves for any number of events, workers, attempts and faults that
StripeSpec keeps its types, that the row covers every applied event
(`EventsAreCovered`), and that it implements BillingMirror (`ProjectionIsMirror`).
The invariant says who holds the advisory lock: only the worker between
LockSubscription and its commit, so what that worker read from Stripe is
at least as new as the row, and every event a worker processes reports a change
that has happened. Hence a commit never takes the row back.

`CommandProofs` proves all invariants of ApiCommands for any number of commands,
handlers, requests and faults, along four inductive invariants over TypeInv:

* ReservedInv: whoever executes a command that has not overrun holds its
  reservation, and is the only one (`OneAtATime`);
* StoreInv: either nothing was written, or one save wrote version 1 and holds
  the only receipt (`SavesAreKept`);
* BackedInv: a handler at the audit has done its work, and one that is about to
  succeed has also audited; work is never undone (`SuccessesAreBacked`);
* RowInv and CallInv: at most one checkout is Live (its row neither expired nor
  over), what Stripe holds open is Live, a row is written before Stripe is
  called, and as long as no payment was late a paid checkout is Alone
  (`OneCheckoutIsOpen`, `CheckoutsArePaidOnce`). That a handler may die between any
  two of its steps costs nothing, since RowInv speaks of rows and Stripe only.

`SessionProofs` proves types, the three invariants and the action property of
BffSessions for any number of sessions, handlers, requests and faults:

* StepUpInv: every copy of a record, in Redis or in a handler's hands, has its
  step-up issued in its own workspace, so it does not matter which copy is
  written last (`StepUpsStayInTheirWorkspace`);
* TokenInv: `redeemed` holds only tokens older than the one Redis has, so the
  compare-and-set that succeeds cannot name a spent one (`TokensAreSpentOnce`);
* ReuseInv: for each session outside `faulted` and `raced \ WebLocks` at most one refresh
  is under way (with Web Locks because of the lock, without them because it would have
  raced), its answer carries the token Redis has, and the
  browser's cookie is that token unless such an answer is still to come
  (`TokensAreNotFalselyReused`);
* RevocationInv: a handler that may still write a revoked session's record held it
  when it was revoked, hence the session is in `overlapped`; a sweep has
  before it every live session it listed; a session that no login finished is
  known to nobody (`RevocationsStand`).

`AssistantProofs` proves all invariants and the action property of AssistantRuns
for any number of runs, workers, attempts and faults:

* LeaseInv: a run outside `overran` is Guarded: at most one worker executes it,
  and while one does, its lease has not lapsed and its status is none that a claim
  or a start accepts (`OneWorkerWhileLeased`);
* CancelInv: as long as no attempt has thrown, a worker gives a run up only because
  it was cancelled, and settles it as cancelled (`CancelledRunsStayCancelled`); so a
  row becomes active only in start(), under the lock that counted (`OneRunIsActive`);
* AnswerInv and ChargeInv: between the message and the cost there is a worker at the
  governance event whose `paid` is that of the message, or the run was
  disrupted (`CompletedRunsAreAnswered`, `PaidAnswersAreCharged`).

`BackgroundProofs` takes each part of BackgroundWork by itself, with an invariant
that every step of that part keeps, and combines them: a step of one part leaves
the others alone (PartSteps).

* MailInv: a mail outside `overran` is Owned (one tick works on it, its row is
  `sending`, not due and younger than seven days, and the tick's body is the row's)
  and Asked (nothing but the row's body was handed over while the row may be claimed
  again). The claim picks a due row, hence one nobody owns; the sweep spares owned
  rows (`RetriesCarryTheSameBody`).
* ReprocessInv: while a detection holds the advisory lock after its look there is no
  open job, and the drains' claims are disjoint and running
  (`ReprocessingDoesNotPileUp`).
* ScheduleInv: completions, running deliveries and the delivery the queue may still
  make are together at most one more than the stalls (`HoursRunOnce`); the holder of the
  lock has an hour that is not taken, and adds the job before it commits
  (`ScheduledRunsAreTold`).
* ReportInv, PrivacyInv: as long as nothing has overlapped there is one attempt, what it
  put last is what is stored, and the targets before its next one refer to it
  (`ReportRowsMatchTheBucket`, `PrivacyEvidenceIsStored`).

Every inductive invariant above was checked by TLC on the instance of the component's
run before it was proved.

Only model-checked: the liveness properties, which are beyond the prover:
RetryableFailureIsRetried, EveryRunSettles, EveryMailEnds, FreshJobIsResolved,
EveryEventIsApplied, DueConnectionIsDispatched, EveryEventIsSynced and
ApprovedEndsPartial. What the five violation runs refute is of course not proved.

## 6. Not modelled

* Single atomic statements: rate limiters, step-up proofs, invitation tokens, audit
  entries. Pure data transformation: metric formulas, projections, provider
  mapping, one-shot adapters (one page, so neither paging nor resume). The AI
  runtime's content, the web application (but for its rule of one refresh at a
  time), infrastructure, generated contracts; these and the tests are most of the
  repository's lines.
* Identity and access lifecycle: request handlers of one transaction each, whose
  interplay is that of the commands around them. Decisions, saved reports and
  support tickets: a change is one transaction under the workspace's advisory lock,
  and refuses a version other than the one the caller read; a notification is
  changed by one statement.
* External behaviour that the models take for granted: `queue.add` of BullMQ accepts the
  job ids it is given. `scheduler.service.ts:212` makes one with colons, which
  `platform-queue.service.ts:77-79` replaces elsewhere; AddRun lets the call fail at times but
  not always.
* A second connection: the key of a webhook's sync (`webhook.service.ts:88`) has the
  provider and its event but not the connection, so what two connections with one event id
  do to each other is not covered; SyncDispatch has one.
* Of modelled parts: the limit of 25 claimed reprocess jobs, the seven days of a
  webhook receipt, the removal of old sync jobs from their queue, the conflict branch of
  session assurance, a key reused with another body, the billing portal,
  the monthly AI allocation, the sliding expiry of a session, payload versions of one
  record, report formats that are refused, legal holds.
