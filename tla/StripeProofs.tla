----------------------------- MODULE StripeProofs -----------------------------
(***************************************************************************)
(* Theorems of StripeProjection, for any number of workers, events,        *)
(* attempts and faults.                                                    *)
(***************************************************************************)
EXTENDS StripeProjection, TLAPS

-----------------------------------------------------------------------------
(* What the queue may do with a job it knows.                              *)
QueueOperation(e, w) ==
  \/ Queue!Deliver(e, w) \/ Queue!Complete(e, w) \/ Queue!FailAttempt(e, w)
  \/ Queue!Promote(e) \/ Queue!Stall(e) \/ Queue!Orphan({w})

(* An event is in the queue only because Stripe delivered it.              *)
Known(e) == job[e] # "none"

(* Only what is in the queue is held by a worker.                          *)
QueueInv ==
  /\ Queue!QueueTypeOK
  /\ \A e \in Events : jobHolder[e] # NoWorker => Known(e)

(* The queue keeps its invariant and the set of known events.              *)
LEMMA QueueKeepsTypes ==
  ASSUME QueueInv, NEW e \in Events, NEW w \in Workers, QueueOperation(e, w)
  PROVE  /\ QueueInv'
         /\ \A f \in Events : Known(f)' <=> Known(f)
<1> USE StripeAssumption DEF QueueInv, Queue!QueueTypeOK, Queue!QueueStates, Known
<1>1. CASE Queue!Deliver(e, w)
  BY <1>1 DEF Queue!Deliver
<1>2. CASE Queue!Complete(e, w)
  BY <1>2 DEF Queue!Complete
<1>3. CASE Queue!FailAttempt(e, w)
  <2>1. CASE jobHolder[e] = w
    BY <1>3, <2>1 DEF Queue!FailAttempt
  <2>2. CASE jobHolder[e] # w
    BY <1>3, <2>2 DEF Queue!FailAttempt, Queue!queueVars
  <2> QED  BY <2>1, <2>2
<1>4. CASE Queue!Promote(e)
  BY <1>4 DEF Queue!Promote
<1>5. CASE Queue!Stall(e)
  BY <1>5 DEF Queue!Stall
<1>6. CASE Queue!Orphan({w})
  BY <1>6 DEF Queue!Orphan
<1> QED  BY <1>1, <1>2, <1>3, <1>4, <1>5, <1>6 DEF QueueOperation

(* Adding an event makes that event known and no other.                    *)
LEMMA QueueAdds ==
  ASSUME QueueInv, NEW e \in Events, Queue!Add(e)
  PROVE  /\ QueueInv'
         /\ \A f \in Events : Known(f)' <=> (Known(f) \/ f = e)
BY StripeAssumption DEF QueueInv, Queue!QueueTypeOK, Queue!QueueStates, Known, Queue!Add

-----------------------------------------------------------------------------
(* The inductive invariant.  The row never runs ahead of Stripe; whatever  *)
(* is in the queue or in a worker's hands has happened at Stripe; only the *)
(* holder of the lock is between the lock and COMMIT; and what it read     *)
(* there is no older than the row and than the event it applies.           *)
StripeInv ==
  /\ StripeTypeOK
  /\ QueueInv
  /\ row <= sub
  /\ \A e \in Events : Known(e) => ChangeOf(e) <= sub
  /\ \A w \in Workers : at[w] # "idle" => event[w] \in Events /\ Known(event[w])
  /\ \A w \in Workers : at[w] \in {"locked", "read"} => lock = w
  /\ \A w \in Workers : at[w] = "read" =>
       row <= seen[w] /\ seen[w] <= sub /\ ChangeOf(event[w]) <= seen[w]
  /\ RowCoversApplied

LEMMA ChangeType == ASSUME NEW e \in Events PROVE ChangeOf(e) \in Nat
BY StripeAssumption DEF Events, ChangeOf

LEMMA StripeInitially == StripeInit => StripeInv
<1> SUFFICES ASSUME StripeInit PROVE StripeInv
  OBVIOUS
<1> USE StripeAssumption DEF StripeInit
<1>1. QueueInv
  BY DEF QueueInv, Known, Queue!QueueInit, Queue!QueueTypeOK, Queue!QueueStates
<1>2. StripeTypeOK
  <2>1. saved \in BOOLEAN /\ applied \in SUBSET Events
    OBVIOUS
  <2>2. stripeFaults \in 0 .. MaxStripeFaults /\ Queue!QueueTypeOK
    BY <1>1 DEF QueueInv
  <2>3. sub \in Nat /\ row \in Nat /\ lock \in Workers \union {NoWorker}
    OBVIOUS
  <2>4. /\ at \in [Workers -> {"idle", "begin", "locked", "read", "committed"}]
        /\ seen \in [Workers -> Nat]
        /\ event \in [Workers -> Nat]
    OBVIOUS
  <2> QED  BY <2>1, <2>2, <2>3, <2>4 DEF StripeTypeOK
<1>3. \A e \in Events : ~Known(e)
  BY DEF Known, Queue!QueueInit
<1>4. RowCoversApplied
  BY DEF RowCoversApplied
<1> QED  BY <1>1, <1>2, <1>3, <1>4 DEF StripeInv

(* What happens to the queue alone keeps the invariant, when it makes only *)
(* events known that have happened and forgets none.                       *)
LEMMA QueueStepsKeep ==
  ASSUME StripeInv, QueueInv', stripeFaults' \in 0 .. MaxStripeFaults,
         \A e \in Events : Known(e) => Known(e)',
         \A e \in Events : Known(e)' => Known(e) \/ ChangeOf(e) <= sub,
         UNCHANGED <<sub, saved, row, seen, at, event, applied, lock>>
  PROVE  StripeInv'
BY DEF StripeInv, StripeTypeOK, QueueInv, RowCoversApplied

(* A worker that is done with its event, or dies, keeps the invariant.     *)
LEMMA GoIdleKeeps ==
  ASSUME StripeInv, NEW w \in Workers, GoIdle(w), QueueInv',
         stripeFaults' \in 0 .. MaxStripeFaults,
         \A e \in Events : Known(e)' <=> Known(e),
         \/ lock' = Released(w)
         \/ lock' = lock /\ at[w] \notin {"locked", "read"},
         UNCHANGED <<sub, saved, row, seen, applied>>
  PROVE  StripeInv'
<1> USE StripeAssumption DEF GoIdle, StripeInv
<1>1. StripeTypeOK'
  BY DEF StripeTypeOK, QueueInv, Released
<1>2. \A v \in Workers : at'[v] # "idle" =>
        v # w /\ at'[v] = at[v] /\ event'[v] = event[v]
  BY DEF StripeTypeOK
<1>3. \A v \in Workers : v # w /\ lock = v => lock' = v
  BY DEF Released
<1>4. RowCoversApplied'
  BY DEF RowCoversApplied
<1> QED  BY <1>1, <1>2, <1>3, <1>4 DEF QueueInv

-----------------------------------------------------------------------------
(* One lemma for Stripe and the API, one for the queue, one for the        *)
(* processor.                                                              *)
LEMMA CheckoutKeeps ==
  ASSUME StripeInv, SubscriptionChanges \/ SaveCheckout
  PROVE  StripeInv'
<1> USE StripeAssumption
<1>1. CASE SubscriptionChanges
  <2>1. QueueInv' /\ \A f \in Events : Known(f)' <=> Known(f)
    BY <1>1 DEF SubscriptionChanges, StripeInv, QueueInv, Queue!QueueTypeOK, Known, jobVars
  <2>2. StripeTypeOK' /\ sub <= sub' /\ UNCHANGED <<row, seen, at, event, applied, lock>>
    BY <1>1, <2>1 DEF SubscriptionChanges, StripeInv, StripeTypeOK, QueueInv
  <2>3. \A f \in Events : Known(f)' => ChangeOf(f) <= sub'
    BY <2>1, <2>2, ChangeType DEF StripeInv, StripeTypeOK
  <2>4. \A w \in Workers : seen[w] <= sub => seen[w] <= sub'
    BY <2>2 DEF StripeInv, StripeTypeOK
  <2> QED  BY <2>1, <2>2, <2>3, <2>4 DEF StripeInv, StripeTypeOK, RowCoversApplied
<1>2. CASE SaveCheckout
  <2>1. QueueInv' /\ \A f \in Events : Known(f)' <=> Known(f)
    BY <1>2 DEF SaveCheckout, StripeInv, QueueInv, Queue!QueueTypeOK, Known, jobVars
  <2> QED  BY <1>2, <2>1 DEF SaveCheckout, StripeInv, StripeTypeOK, QueueInv, RowCoversApplied
<1> QED  BY <1>1, <1>2

LEMMA QueueKeeps ==
  ASSUME StripeInv, NEW e \in Events,
         ReceiveEvent(e) \/ ReceiveAgain(e) \/ StallEvent(e) \/ RetryEvent(e)
  PROVE  StripeInv'
<1> USE StripeAssumption
<1>1. CASE ReceiveEvent(e)
  <2>1. QueueInv' /\ \A f \in Events : Known(f)' <=> (Known(f) \/ f = e)
    BY <1>1, QueueAdds DEF ReceiveEvent, StripeInv
  <2> QED  BY <1>1, <2>1, QueueStepsKeep DEF ReceiveEvent, StripeInv, StripeTypeOK
<1>2. CASE ReceiveAgain(e)
  <2>1. QueueInv' /\ \A f \in Events : Known(f)' <=> Known(f)
    BY <1>2 DEF ReceiveAgain, StripeInv, QueueInv, Queue!QueueTypeOK, Queue!QueueStates, Known
  <2>2. stripeFaults' \in 0 .. MaxStripeFaults
    BY <1>2 DEF ReceiveAgain, Faulty, StripeInv, StripeTypeOK
  <2> QED  BY <1>2, <2>1, <2>2, QueueStepsKeep DEF ReceiveAgain
<1>3. CASE StallEvent(e)
  <2>1. QueueInv' /\ \A f \in Events : Known(f)' <=> Known(f)
    BY <1>3 DEF StallEvent, StripeInv, QueueInv, Queue!QueueTypeOK, Queue!QueueStates, Known, Queue!Stall
  <2>2. stripeFaults' \in 0 .. MaxStripeFaults
    BY <1>3 DEF StallEvent, Faulty, StripeInv, StripeTypeOK
  <2> QED  BY <1>3, <2>1, <2>2, QueueStepsKeep DEF StallEvent
<1>4. CASE RetryEvent(e)
  <2>1. QueueInv' /\ \A f \in Events : Known(f)' <=> Known(f)
    BY <1>4 DEF RetryEvent, StripeInv, QueueInv, Queue!QueueTypeOK, Queue!QueueStates, Known, Queue!Promote
  <2> QED  BY <1>4, <2>1, QueueStepsKeep DEF RetryEvent, StripeInv, StripeTypeOK
<1> QED  BY <1>1, <1>2, <1>3, <1>4

LEMMA ProcessorKeeps ==
  ASSUME StripeInv, NEW w \in Workers,
         \/ \E e \in Events : StartEvent(w, e)
         \/ Project(w) \/ ProjectionThrows(w) \/ CrashProjection(w)
  PROVE  StripeInv'
<1> USE StripeAssumption
<1>0. QueueInv /\ StripeTypeOK
  BY DEF StripeInv
<1>1. ASSUME NEW e \in Events, StartEvent(w, e)
      PROVE  StripeInv'
  <2>1. QueueInv' /\ \A f \in Events : Known(f)' <=> Known(f)
    BY <1>0, <1>1, QueueKeepsTypes DEF StartEvent, QueueOperation
  <2>2. Known(e)
    BY <1>1 DEF StartEvent, Queue!Deliver, Known
  <2>3. StripeTypeOK'
    BY <1>0, <1>1, <2>1 DEF StartEvent, StripeTypeOK, QueueInv, Events
  <2>4. \A v \in Workers : /\ at'[v] = IF v = w THEN "begin" ELSE at[v]
                           /\ event'[v] = IF v = w THEN e ELSE event[v]
    BY <1>0, <1>1 DEF StartEvent, StripeTypeOK
  <2> QED  BY <1>1, <2>1, <2>2, <2>3, <2>4 DEF StartEvent, StripeInv, RowCoversApplied
<1>2. CASE LockSubscription(w) \/ ReadSubscription(w) \/ CommitProjection(w)
  <2>1. QueueInv' /\ \A f \in Events : Known(f)' <=> Known(f)
    BY <1>2, <1>0 DEF LockSubscription, ReadSubscription, CommitProjection, QueueInv,
       Queue!QueueTypeOK, Known, jobVars
  <2>2. at[w] # "idle" /\ event[w] \in Events /\ ChangeOf(event[w]) <= sub
    BY <1>2 DEF LockSubscription, ReadSubscription, CommitProjection, StripeInv
  <2>3. CASE LockSubscription(w)
    <3>1. StripeTypeOK'
      BY <1>0, <2>1, <2>3 DEF LockSubscription, StripeTypeOK, QueueInv
    <3>2. \A v \in Workers : v # w => at'[v] = at[v]
      BY <1>0, <2>3 DEF LockSubscription, StripeTypeOK
    <3>3. \/ at'[w] = "committed" /\ lock' = lock
          \/ at'[w] = "locked" /\ lock' = w
      BY <1>0, <2>3 DEF LockSubscription, StripeTypeOK
    <3>4. lock = NoWorker
      BY <2>3 DEF LockSubscription, LockFree
    <3> QED  BY <2>1, <2>2, <2>3, <3>1, <3>2, <3>3, <3>4
             DEF LockSubscription, StripeInv, RowCoversApplied
  <2>4. CASE ReadSubscription(w)
    <3>1. StripeTypeOK'
      BY <1>0, <2>1, <2>4 DEF ReadSubscription, CurrentState, StripeTypeOK, QueueInv
    <3>2. \A v \in Workers : v # w => at'[v] = at[v] /\ seen'[v] = seen[v]
      BY <1>0, <2>4 DEF ReadSubscription, StripeTypeOK
    <3>3. at[w] = "locked" /\ at'[w] = "read" /\ seen'[w] = sub
      BY <1>0, <2>4 DEF ReadSubscription, CurrentState, StripeTypeOK
    <3>4. sub <= sub
      BY <1>0 DEF StripeTypeOK
    <3> QED  BY <2>1, <2>2, <2>4, <3>1, <3>2, <3>3, <3>4
             DEF ReadSubscription, StripeInv, RowCoversApplied
  <2>5. CASE CommitProjection(w)
    <3>1. row <= seen[w] /\ seen[w] <= sub /\ ChangeOf(event[w]) <= seen[w] /\ lock = w
      BY <2>5 DEF CommitProjection, StripeInv
    <3>2. StripeTypeOK'
      BY <1>0, <2>1, <2>2, <2>5 DEF CommitProjection, StripeTypeOK, QueueInv
    <3>3. \A v \in Workers : v # w => at'[v] = at[v] /\ at[v] \notin {"locked", "read"}
      BY <1>0, <2>5, <3>1 DEF CommitProjection, StripeTypeOK, StripeInv
    <3>4. at'[w] = "committed"
      BY <1>0, <2>5 DEF CommitProjection, StripeTypeOK
    <3>5. RowCoversApplied'
      <4>1. ASSUME NEW e \in applied PROVE seen[w] >= ChangeOf(e)
        BY <1>0, <3>1, ChangeType DEF StripeInv, StripeTypeOK, RowCoversApplied
      <4> QED  BY <1>0, <2>2, <2>5, <3>1, <4>1, ChangeType
               DEF CommitProjection, RowCoversApplied, StripeTypeOK
    <3>6. row' <= sub'
      BY <2>5, <3>1 DEF CommitProjection
    <3> QED  BY <2>1, <2>2, <2>5, <3>2, <3>3, <3>4, <3>5, <3>6
             DEF CommitProjection, StripeInv
  <2> QED  BY <1>2, <2>3, <2>4, <2>5
<1>3. CASE ReportDone(w) \/ NotMapped(w) \/ ProjectionThrows(w) \/ CrashProjection(w)
  <2>1. event[w] \in Events
    BY <1>3 DEF ReportDone, NotMapped, ProjectionThrows, CrashProjection, StripeInv
  <2>2. QueueInv' /\ \A f \in Events : Known(f)' <=> Known(f)
    <3>1. QueueOperation(event[w], w)
      BY <1>3 DEF ReportDone, NotMapped, ProjectionThrows, CrashProjection, RollBack,
         QueueOperation
    <3> QED  BY <1>0, <2>1, <3>1, QueueKeepsTypes
  <2>3. stripeFaults' \in 0 .. MaxStripeFaults
    BY <1>0, <1>3 DEF ReportDone, NotMapped, ProjectionThrows, CrashProjection, Faulty,
       StripeTypeOK
  <2>4. /\ GoIdle(w)
        /\ UNCHANGED <<sub, saved, row, seen, applied>>
        /\ \/ lock' = Released(w)
           \/ lock' = lock /\ at[w] \notin {"locked", "read"}
    BY <1>3 DEF ReportDone, NotMapped, ProjectionThrows, CrashProjection, RollBack
  <2> QED  BY <2>2, <2>3, <2>4, GoIdleKeeps
<1> QED  BY <1>1, <1>2, <1>3 DEF Project

-----------------------------------------------------------------------------
LEMMA StripeInductive == StripeInv /\ [StripeNext]_stripeVars => StripeInv'
<1> SUFFICES ASSUME StripeInv, [StripeNext]_stripeVars
             PROVE  StripeInv'
  OBVIOUS
<1>1. CASE UNCHANGED stripeVars
  BY <1>1 DEF stripeVars, jobVars, StripeInv, StripeTypeOK, QueueInv, Known,
     RowCoversApplied, Queue!QueueTypeOK
<1>2. CASE \E e \in Events :
             ReceiveEvent(e) \/ ReceiveAgain(e) \/ StallEvent(e) \/ RetryEvent(e)
  BY <1>2, QueueKeeps
<1>3. CASE SubscriptionChanges \/ SaveCheckout
  BY <1>3, CheckoutKeeps
<1>4. CASE \E w \in Workers :
             \/ \E e \in Events : StartEvent(w, e)
             \/ Project(w) \/ ProjectionThrows(w) \/ CrashProjection(w)
  BY <1>4, ProcessorKeeps
<1> QED  BY <1>1, <1>2, <1>3, <1>4 DEF StripeNext

THEOREM StripeInvariant == StripeSpec => []StripeInv
BY StripeInitially, StripeInductive, PTL DEF StripeSpec

(* The types, which include those of the queue.                            *)
THEOREM StripeTypes == StripeSpec => []StripeTypeOK
<1>1. StripeInv => StripeTypeOK
  BY DEF StripeInv
<1> QED  BY <1>1, StripeInvariant, PTL

(* Arrival order never becomes business order, whatever the order of the   *)
(* events, the interleaving of the workers, and the crashes and retries.   *)
THEOREM EventsAreCovered == StripeSpec => []RowCoversApplied
<1>1. StripeInv => RowCoversApplied
  BY DEF StripeInv
<1> QED  BY <1>1, StripeInvariant, PTL

-----------------------------------------------------------------------------
(* Every step of the projection is one of the mirror's, or stutters.       *)
LEMMA StepIsMirrored ==
  ASSUME StripeInv, [StripeNext]_stripeVars
  PROVE  [Mirror!Change \/ Mirror!CatchUp]_<<sub, row>>
<1>0. sub \in Nat /\ row \in Nat
  BY DEF StripeInv, StripeTypeOK
<1>1. CASE SubscriptionChanges
  BY <1>1 DEF SubscriptionChanges, Mirror!Change
<1>2. ASSUME NEW w \in Workers, CommitProjection(w)
      PROVE  Mirror!CatchUp
  <2>1. row <= seen[w] /\ seen[w] <= sub /\ seen[w] \in Nat
    BY <1>2 DEF CommitProjection, StripeInv, StripeTypeOK
  <2> QED  BY <1>0, <1>2, <2>1 DEF CommitProjection, Mirror!CatchUp
<1>3. CASE \/ SaveCheckout
           \/ \E e \in Events :
                ReceiveEvent(e) \/ ReceiveAgain(e) \/ StallEvent(e) \/ RetryEvent(e)
  BY <1>3 DEF SaveCheckout, ReceiveEvent, ReceiveAgain, StallEvent, RetryEvent
<1>4. ASSUME NEW w \in Workers,
             \/ \E e \in Events : StartEvent(w, e)
             \/ LockSubscription(w) \/ ReadSubscription(w) \/ ReportDone(w)
             \/ NotMapped(w) \/ ProjectionThrows(w) \/ CrashProjection(w)
      PROVE  UNCHANGED <<sub, row>>
  BY <1>4 DEF StartEvent, LockSubscription, ReadSubscription, ReportDone, NotMapped,
     ProjectionThrows, CrashProjection, RollBack
<1> QED  BY <1>1, <1>2, <1>3, <1>4 DEF StripeNext, Project, stripeVars

(* The row implements BillingMirror: it only moves forward, and never      *)
(* shows a state the subscription has not had.                             *)
THEOREM ProjectionIsMirror == StripeSpec => StripeIsMirrored
<1>1. StripeInit => Mirror!MirrorInit
  BY DEF StripeInit, Mirror!MirrorInit
<1> QED  BY <1>1, StepIsMirrored, StripeInvariant, PTL
         DEF StripeSpec, StripeIsMirrored, Mirror!MirrorSpec

=============================================================================
