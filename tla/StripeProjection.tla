--------------------------- MODULE StripeProjection ---------------------------
(***************************************************************************)
(* Stripe's events of one subscription on their way into                   *)
(* app.workspace_subscriptions: StripeWebhookService.receive puts each on  *)
(* "papadata-platform-jobs" under a job id made of the event id, and       *)
(* projectStripeBilling applies it in one transaction.  The states of the  *)
(* subscription are numbered by its changes.  Event 1 reports the          *)
(* completed checkout and event 2 the creation of the subscription, both   *)
(* due to change 1; event e > 2 reports change e - 1.                      *)
(***************************************************************************)
EXTENDS WorkerProcesses

CONSTANTS
  MaxEvents,      \* BOUND: events of the subscription
  EventAttempts,  \* job option "attempts" (5 in platform-queue.service.ts)
  EventStalls,    \* BullMQ's maxStalledCount
  NoWorker,
  MaxStripeFaults \* BOUND: crashes, stalls, repeated deliveries, failed calls

ASSUME StripeAssumption ==
  /\ MaxEvents \in Nat
  /\ EventAttempts \in Nat \ {0}
  /\ EventStalls \in Nat
  /\ MaxStripeFaults \in Nat
  /\ NoWorker \notin Workers

VARIABLES
  sub,           \* EXTERNAL: the changes of the subscription so far
  saved,         \* the checkout's row has its stripe_session_id
  row,           \* the state in workspace_subscriptions, 0 when not mapped
  seen,          \* what each worker's transaction read from Stripe
  at,            \* where each worker's processor is
  event,         \* the event each worker processes, 0 when none
  applied,       \* event ids in billing_provider_events
  lock,          \* holder of the advisory lock billing-project:<subscription>
  job, jobHolder, tries, jobStalls,   \* the platform queue, see JobQueue
  stripeFaults   \* crashes, stalls, repeated deliveries and failed calls so far

jobVars == <<job, jobHolder, tries, jobStalls>>
stripeVars == <<sub, saved, row, seen, at, event, applied, lock, jobVars, stripeFaults>>

-----------------------------------------------------------------------------
Events == 1 .. MaxEvents

ChangeOf(e) == IF e <= 2 THEN 1 ELSE e - 1

Queue == INSTANCE JobQueue
           WITH Jobs <- Events, Runs <- Workers, NoRun <- NoWorker, MaxHead <- 0,
                MaxAttempts <- EventAttempts, MaxStalls <- EventStalls,
                q <- job, holder <- jobHolder, made <- tries, stalls <- jobStalls

StripeTypeOK ==
  /\ sub \in Nat
  /\ saved \in BOOLEAN
  /\ row \in Nat
  /\ seen \in [Workers -> Nat]
  /\ at \in [Workers -> {"idle", "begin", "locked", "read", "committed"}]
  /\ event \in [Workers -> Nat]
  /\ applied \in SUBSET Events
  /\ lock \in Workers \union {NoWorker}
  /\ Queue!QueueTypeOK
  /\ stripeFaults \in 0 .. MaxStripeFaults

StripeInit ==
  /\ sub = 0
  /\ saved = FALSE
  /\ row = 0
  /\ seen = [w \in Workers |-> 0]
  /\ at = [w \in Workers |-> "idle"]
  /\ event = [w \in Workers |-> 0]
  /\ applied = {}
  /\ lock = NoWorker
  /\ Queue!QueueInit
  /\ stripeFaults = 0

Faulty == stripeFaults < MaxStripeFaults /\ stripeFaults' = stripeFaults + 1

-----------------------------------------------------------------------------
(* Stripe, the API and the queue. *)

(* The customer pays, or the subscription changes. *)
SubscriptionChanges ==
  /\ sub + 1 < MaxEvents
  /\ sub' = sub + 1
  /\ UNCHANGED <<saved, row, seen, at, event, applied, lock, jobVars, stripeFaults>>

(* The API stores Stripe's answer to the checkout request; the customer    *)
(* may have paid before.                                                   *)
SaveCheckout ==
  /\ ~saved
  /\ saved' = TRUE
  /\ UNCHANGED <<sub, row, seen, at, event, applied, lock, jobVars, stripeFaults>>

(* Stripe delivers events in any order. *)
ReceiveEvent(e) ==
  /\ ChangeOf(e) <= sub
  /\ Queue!Add(e)
  /\ UNCHANGED <<sub, saved, row, seen, at, event, applied, lock, stripeFaults>>

(* Stripe delivers an event again when the queue has dropped its job       *)
(* (removeOnComplete, removeOnFail); before, the job id makes it a no-op.  *)
ReceiveAgain(e) ==
  /\ job[e] \in {"completed", "failed"}
  /\ Faulty
  /\ job' = [job EXCEPT ![e] = "waiting"]
  /\ tries' = [tries EXCEPT ![e] = 0]
  /\ jobStalls' = [jobStalls EXCEPT ![e] = 0]
  /\ UNCHANGED <<sub, saved, row, seen, at, event, applied, lock, jobHolder>>

(* The queue's lock on an active job expires, after its worker died or     *)
(* while it is still at it.                                                *)
Orphaned(e) == job[e] = "active" /\ jobHolder[e] = NoWorker

StallEvent(e) ==
  /\ Queue!Stall(e)
  /\ IF Orphaned(e) THEN UNCHANGED stripeFaults ELSE Faulty
  /\ UNCHANGED <<sub, saved, row, seen, at, event, applied, lock>>

RetryEvent(e) ==
  /\ Queue!Promote(e)
  /\ UNCHANGED <<sub, saved, row, seen, at, event, applied, lock, stripeFaults>>

-----------------------------------------------------------------------------
(* projectStripeBilling *)

StartEvent(w, e) ==
  /\ at[w] = "idle"
  /\ Queue!Deliver(e, w)
  /\ at' = [at EXCEPT ![w] = "begin"]
  /\ event' = [event EXCEPT ![w] = e]
  /\ UNCHANGED <<sub, saved, row, seen, applied, lock, stripeFaults>>

(* MUTANT: the projection runs without the advisory lock. *)
WithoutLock == TRUE

LockFree == lock = NoWorker

Mapped(e) == IF e = 1 THEN saved ELSE row # 0

(* BEGIN, the advisory lock, the look for a duplicate and the mapping of   *)
(* the event to its workspace.                                             *)
LockSubscription(w) ==
  LET e == event[w] IN
  /\ at[w] = "begin"
  /\ LockFree
  /\ IF e \in applied
     THEN at' = [at EXCEPT ![w] = "committed"] /\ UNCHANGED lock
     ELSE /\ Mapped(e)
          /\ lock' = w
          /\ at' = [at EXCEPT ![w] = "locked"]
  /\ UNCHANGED <<sub, saved, row, seen, event, applied, jobVars, stripeFaults>>

(* MUTANT: the state is taken from the event, not asked for. *)
EventState(w) == ChangeOf(event[w])

CurrentState(w) == sub

(* GET /subscriptions/<id> *)
ReadSubscription(w) ==
  /\ at[w] = "locked"
  /\ seen' = [seen EXCEPT ![w] = CurrentState(w)]
  /\ at' = [at EXCEPT ![w] = "read"]
  /\ UNCHANGED <<sub, saved, row, event, applied, lock, jobVars, stripeFaults>>

(* The upsert, the event's row, COMMIT. *)
CommitProjection(w) ==
  /\ at[w] = "read"
  /\ row' = seen[w]
  /\ applied' = applied \union {event[w]}
  /\ lock' = NoWorker
  /\ at' = [at EXCEPT ![w] = "committed"]
  /\ UNCHANGED <<sub, saved, seen, event, jobVars, stripeFaults>>

(* What the queue makes of an attempt that is over. *)
GoIdle(w) ==
  /\ at' = [at EXCEPT ![w] = "idle"]
  /\ event' = [event EXCEPT ![w] = 0]

Released(w) == IF lock = w THEN NoWorker ELSE lock

ReportDone(w) ==
  /\ at[w] = "committed"
  /\ Queue!Complete(event[w], w)
  /\ GoIdle(w)
  /\ UNCHANGED <<sub, saved, row, seen, applied, lock, stripeFaults>>

(* MUTANT: an event that cannot be mapped yet is reported as done. *)
RollBackIgnored(w) ==
  /\ Queue!Complete(event[w], w)
  /\ lock' = Released(w)
  /\ GoIdle(w)
  /\ UNCHANGED <<sub, saved, row, seen, applied>>

(* ROLLBACK, and the attempt has failed. *)
RollBack(w) ==
  /\ Queue!FailAttempt(event[w], w)
  /\ lock' = Released(w)
  /\ GoIdle(w)
  /\ UNCHANGED <<sub, saved, row, seen, applied>>

(* The checkout is not persisted yet, or the subscription not mapped yet. *)
NotMapped(w) ==
  /\ at[w] = "begin"
  /\ LockFree
  /\ event[w] \notin applied
  /\ ~Mapped(event[w])
  /\ RollBack(w)
  /\ UNCHANGED stripeFaults

(* A call of Stripe or a statement fails, COMMIT included. *)
ProjectionThrows(w) ==
  /\ at[w] \in {"begin", "locked", "read"}
  /\ Faulty
  /\ RollBack(w)

(* The process dies: its transaction rolls back, the queue waits for the   *)
(* lock on the job to expire.                                              *)
CrashProjection(w) ==
  /\ at[w] # "idle"
  /\ Faulty
  /\ lock' = Released(w)
  /\ Queue!Orphan({w})
  /\ GoIdle(w)
  /\ UNCHANGED <<sub, saved, row, seen, applied>>

-----------------------------------------------------------------------------
Project(w) ==
  \/ LockSubscription(w) \/ ReadSubscription(w) \/ CommitProjection(w)
  \/ ReportDone(w) \/ NotMapped(w)

StripeNext ==
  \/ SubscriptionChanges \/ SaveCheckout
  \/ \E e \in Events : ReceiveEvent(e) \/ ReceiveAgain(e) \/ StallEvent(e) \/ RetryEvent(e)
  \/ \E w \in Workers :
       \/ \E e \in Events : StartEvent(w, e)
       \/ Project(w) \/ ProjectionThrows(w) \/ CrashProjection(w)

(* Stripe delivers what happened, the queue what waits. *)
StripeSteps ==
  \/ \E e \in Events : ReceiveEvent(e) \/ RetryEvent(e) \/ (Orphaned(e) /\ StallEvent(e))
  \/ \E w \in Workers : Project(w) \/ \E e \in Events : StartEvent(w, e)

StripeSpec == StripeInit /\ [][StripeNext]_stripeVars /\ WF_stripeVars(StripeSteps)

-----------------------------------------------------------------------------
(* Arrival order never becomes business order: once an event is applied    *)
(* the row is at least as new as the change it reports, whatever events    *)
(* are applied before, after or at the same time, and however often.       *)
RowCoversApplied ==
  \A e \in applied : row >= ChangeOf(e)

(* The row implements the mirror of BillingMirror: it never goes back to   *)
(* an older state of the subscription.                                     *)
Mirror == INSTANCE BillingMirror WITH truth <- sub, shown <- row

StripeIsMirrored == Mirror!MirrorSpec

(* Every event is applied in the end, unless its attempts are used up:     *)
(* then the row may miss a change until a later event comes.               *)
EveryEventIsApplied ==
  \A e \in Events :
    ChangeOf(e) <= sub ~> (e \in applied \/ job[e] = "failed")

=============================================================================
