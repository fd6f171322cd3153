----------------------- MODULE IngestionOutcomeProofs -----------------------
(***************************************************************************)
(* How a sync job may end, for any number of jobs, runs and records: a     *)
(* cancelled job never succeeds, an outcome is final, the rows live the    *)
(* abstract life of SyncJobLifecycle, and what a resumed attempt skips has *)
(* been written.                                                           *)
(*                                                                         *)
(* The row is fenced by its lease: a statement of a run whose process no   *)
(* longer owns the row changes nothing.  So the invariants speak of the    *)
(* runs that own their row, and need that no two runs of a job share an    *)
(* owner: the owner names the process, and a process that stalled may be   *)
(* delivered its own job again.  The records are not fenced; there the     *)
(* invariant speaks of every run.                                          *)
(***************************************************************************)
EXTENDS IngestionTypes

Owns(r) == leaseOwner[run[r].job] = Owner[r]

(* No process executes two deliveries of one job at the same time.  Other  *)
(* jobs it may execute: it has several slots, and one owner name.          *)
OwnersApart ==
  \A r, s \in Runs :
    /\ Live(r) /\ Live(s)
    /\ run[r].job = run[s].job /\ Owner[r] = Owner[s]
    => r = s

(* A delivery's run holds the queue's lock. *)
LockHeld ==
  \A r \in Runs : Live(r) => q[run[r].job] = "active" /\ holder[run[r].job] = r

-----------------------------------------------------------------------------
(* Whose locals and which rows a step changes. *)

(* The page is saved, or the job finished, in the last stage only. *)
SavesLast ==
  \A r \in Runs :
    run[r].pc \in {"resume", "finalize"} => run[r].stage = "reconciling"

(* A run that checked for a cancellation and has not started a stage yet. *)
MayStart(s) ==
  s.pc \in {"checkpoint", "cursor", "transition"} /\ s.stage = "leased"

(* What a cancellation shuts out: the stages after the first cancel check. *)
Underway == (InProgress \ {"leased"}) \union {"succeeded"}

CancelInv ==
  /\ SavesLast
  /\ \A j \in Jobs : cancelAt[j] => status[j] \notin Underway
  /\ \A r \in Runs :
       MayStart(run[r]) /\ Owns(r) /\ status[run[r].job] = "leased"
         => ~cancelAt[run[r].job]

(* A run that owns its row finds it at work or to be cancelled, until it   *)
(* has written the outcome; a row that nobody took has no owner.           *)
LeaseInv ==
  /\ \A r \in Runs :
       Leasing(r) /\ Owns(r)
         => status[run[r].job] \in InProgress \union {"cancel_requested"}
  /\ \A r \in Runs :
       At(r, "cancelling") /\ Owns(r) => cancelAt[run[r].job]
  /\ \A j \in Jobs : status[j] \in {"absent", "queued"} => leaseOwner[j] = NoOwner
  /\ \A j \in Jobs : status[j] = "cancel_requested" => cancelAt[j]

-----------------------------------------------------------------------------
(* Resumed pages. *)

(* The run has no page in hand that is not in canonical_records yet. *)
BetweenPages(s) ==
  \/ s.stage = "leased"
  \/ s.stage = "fetching" /\ s.pc = "work"
  \/ s.stage = "reconciling" /\ s.pc # "work"

(* The run's batch is the page it fetched, as far as it still is its batch. *)
Batched(s) ==
  \/ s.stage = "persisting_source" /\ s.pc # "work"
  \/ s.stage = "normalizing"
  \/ s.stage = "writing_canonical" /\ s.pc = "work"

(* canonical.count is known, and not compared yet. *)
Counted(s) ==
  \/ s.stage = "writing_canonical" /\ s.pc # "work"
  \/ s.stage = "reconciling" /\ s.pc = "work"

PagesWritten(s, B, C) ==
  /\ s.done \subseteq C \union (s.first .. s.last)
  /\ BetweenPages(s) => s.done \subseteq C
  /\ Batched(s) => B \subseteq s.first .. s.last
  /\ Counted(s) /\ s.can = Cardinality(s.first .. s.last)
       => s.first .. s.last \subseteq C

ResumeInv ==
  /\ SavesLast
  /\ ResumeCoversCanonical
  /\ \A r \in Runs : PagesWritten(run[r], BatchRows(r), canonical)

-----------------------------------------------------------------------------
(* A step of run r changes no other run's locals. *)
LEMMA OthersStay ==
  ASSUME TypeOK, NEW r \in Runs,
         RunStep(r) \/ Heartbeat(r) \/ RunFault(r) \/ TakeJob(r)
  PROVE  \A s \in Runs \ {r} : run'[s] = run[s]
<1>1. (\E x : Become(r, x)) \/ UNCHANGED run
  BY DEF RunStep, RunFault, Lease, NotLeased, CheckCancel, Cancel,
     ReadCheckpoint, ReadResumePageCursor, Transition, Fetch, Persist,
     Normalize, WriteCanonical, Reconcile, WriteResume, Finalize,
     RecordFailure, Report, Heartbeat, Throw, ThrowUnrecorded, RenewalThrows,
     LoseAck, TakeJob, Goto, Leave, Fail
<1> QED  BY <1>1 DEF Become, TypeOK, RunTypeOK

(* Only these steps of a run touch the fields of its row that matter here. *)
RowSteps(r) ==
  \/ Lease(r) \/ Cancel(r) \/ Transition(r) \/ Finalize(r) \/ RecordFailure(r)
  \/ LoseAck(r)

LEMMA RowStays ==
  ASSUME NEW r \in Runs,
         RunStep(r) \/ Heartbeat(r) \/ RunFault(r) \/ TakeJob(r),
         ~RowSteps(r)
  PROVE  UNCHANGED <<status, leaseOwner, cancelAt>>
  BY DEF RowSteps, RunStep, RunFault, NotLeased, CheckCancel,
     ReadCheckpoint, ReadResumePageCursor, Fetch, Persist,
     Normalize, WriteCanonical, Reconcile, WriteResume, WriteResumePageCursor,
     Report, Heartbeat, RenewLease, Throw, ThrowUnrecorded, RenewalThrows,
     TakeJob, rowVars

(* The locals of run r after a step that gives them a value. *)
LEMMA Becomes ==
  ASSUME TypeOK, NEW r \in Runs, NEW s, Become(r, s)
  PROVE  run'[r] = s
  BY DEF Become, TypeOK, RunTypeOK

(* Where a run goes, and which of its locals survive. *)
LEMMA GotoMoves ==
  ASSUME TypeOK, NEW r \in Runs, NEW pc, Goto(r, pc)
  PROVE  /\ run'[r].pc = pc
         /\ run'[r].stage = run[r].stage
         /\ run'[r].job = run[r].job
         /\ run'[r].done = run[r].done
         /\ run'[r].first = run[r].first
         /\ run'[r].last = run[r].last
         /\ run'[r].can = run[r].can
<1>1. run[r] \in RunStates
  BY DEF TypeOK, RunTypeOK
<1>2. run'[r] = [run[r] EXCEPT !.pc = pc]
  BY Becomes DEF Goto
<1> QED  BY <1>1, <1>2 DEF RunStates

LEMMA LeaveMoves ==
  ASSUME TypeOK, NEW r \in Runs, NEW pc, Leave(r, pc)
  PROVE  /\ run'[r].pc = pc
         /\ run'[r].stage = "leased"
         /\ run'[r].job = run[r].job
         /\ run'[r].done = {}
<1>1. run'[r] = [IdleRun EXCEPT !.pc = pc, !.job = run[r].job]
  BY Becomes DEF Leave
<1> QED  BY <1>1 DEF IdleRun

LEMMA FailMoves ==
  ASSUME TypeOK, NEW r \in Runs, NEW b \in BOOLEAN, Fail(r, b)
  PROVE  /\ run'[r].pc = "failing"
         /\ run'[r].stage = "leased"
         /\ run'[r].job = run[r].job
         /\ run'[r].done = {}
<1>1. run'[r] = FailedRun(r, b)
  BY Becomes DEF Fail
<1> QED  BY <1>1 DEF FailedRun, IdleRun

(* The steps that read or write more than the place they go to. *)
LEMMA TransitionMoves ==
  ASSUME TypeOK, NEW r \in Runs, Transition(r), ~Fail(r, TRUE)
  PROVE  /\ MayTransition(run[r].job, Owner[r], run[r].stage)
         /\ TransitionJobState(run[r].job, Owner[r], run[r].stage,
                               NextStage(run[r].stage))
         /\ run'[r].pc = "work"
         /\ run'[r].stage = NextStage(run[r].stage)
         /\ run'[r].job = run[r].job
         /\ run'[r].done = run[r].done
         /\ run'[r].first = run[r].first
         /\ run'[r].last = run[r].last
         /\ run'[r].can = run[r].can
<1>1. run[r] \in RunStates
  BY DEF TypeOK, RunTypeOK
<1>2. /\ MayTransition(run[r].job, Owner[r], run[r].stage)
      /\ TransitionJobState(run[r].job, Owner[r], run[r].stage,
                            NextStage(run[r].stage))
      /\ Become(r, [run[r] EXCEPT !.pc = "work", !.stage = NextStage(run[r].stage)])
  BY DEF Transition
<1>3. run'[r] = [run[r] EXCEPT !.pc = "work", !.stage = NextStage(run[r].stage)]
  BY <1>2, Becomes
<1> QED  BY <1>1, <1>2, <1>3 DEF RunStates

LEMMA FetchMoves ==
  ASSUME TypeOK, NEW r \in Runs, Fetch(r), ~Fail(r, TRUE),
         NEW j, j = run[r].job
  PROVE  /\ run'[r].pc = "check"
         /\ run'[r].stage = run[r].stage
         /\ run'[r].job = j
         /\ run'[r].first = PageStart(j, run[r].chk, run[r].cur)
         /\ run'[r].last = PageEnd(j, PageStart(j, run[r].chk, run[r].cur))
         /\ run'[r].done = run[r].done \union Passed(j, run[r].chk, run[r].cur)
<1>1. run[r] \in RunStates
  BY DEF TypeOK, RunTypeOK
<1> DEFINE start == PageStart(j, run[r].chk, run[r].cur)
           end   == PageEnd(j, start)
           next  == NextCursor(j, run[r].chk, run[r].cur)
           done  == run[r].done \union Passed(j, run[r].chk, run[r].cur)
<1>2. Become(r, [run[r] EXCEPT !.pc = "check", !.first = start, !.last = end,
                   !.next = next, !.nextCk = NextCheckpoint, !.done = done])
  BY DEF Fetch
<1> HIDE DEF start, end, next, done
<1>3. run'[r] = [run[r] EXCEPT !.pc = "check", !.first = start, !.last = end,
                   !.next = next, !.nextCk = NextCheckpoint, !.done = done]
  BY <1>2, Becomes
<1>4. /\ run'[r].pc = "check" /\ run'[r].stage = run[r].stage /\ run'[r].job = j
      /\ run'[r].first = start /\ run'[r].last = end /\ run'[r].done = done
  BY <1>1, <1>3 DEF RunStates
<1> QED  BY <1>4 DEF start, end, done

LEMMA CursorMoves ==
  ASSUME TypeOK, NEW r \in Runs, ReadResumePageCursor(r)
  PROVE  /\ run'[r].pc = "transition"
         /\ run'[r].stage = run[r].stage
         /\ run'[r].job = run[r].job
         /\ run'[r].done = skipped[run[r].job]
         /\ run'[r].first = run[r].first
         /\ run'[r].last = run[r].last
         /\ run'[r].can = run[r].can
<1>1. run[r] \in RunStates
  BY DEF TypeOK, RunTypeOK
<1>2. run'[r] = [run[r] EXCEPT !.pc = "transition", !.cur = resume[run[r].job],
                              !.done = skipped[run[r].job]]
  BY Becomes DEF ReadResumePageCursor
<1> QED  BY <1>1, <1>2 DEF RunStates

(* The steps that change a local no property here depends on. *)
LEMMA QuietMoves ==
  ASSUME TypeOK, NEW r \in Runs,
         \/ ReadCheckpoint(r) \/ Normalize(r) \/ WriteResume(r)
         \/ Heartbeat(r) \/ RenewalThrows(r)
  PROVE  /\ run'[r].stage = run[r].stage
         /\ run'[r].job = run[r].job
         /\ run'[r].done = run[r].done
         /\ run'[r].first = run[r].first
         /\ run'[r].last = run[r].last
         /\ run'[r].can = run[r].can
         /\ \/ run'[r].pc = run[r].pc
            \/ ReadCheckpoint(r) /\ At(r, "checkpoint") /\ run'[r].pc = "cursor"
            \/ Normalize(r) /\ Working(r, "normalizing") /\ run'[r].pc = "check"
            \/ WriteResume(r) /\ At(r, "resume") /\ run'[r].pc = "transition"
<1>1. run[r] \in RunStates
  BY DEF TypeOK, RunTypeOK
<1>2. CASE ReadCheckpoint(r)
  <2>1. Become(r, [run[r] EXCEPT !.pc = "cursor", !.chk = watermark])
    BY <1>2 DEF ReadCheckpoint
  <2>2. run'[r] = [run[r] EXCEPT !.pc = "cursor", !.chk = watermark]
    BY <2>1, Becomes
  <2> QED  BY <1>1, <1>2, <2>2 DEF ReadCheckpoint, RunStates, At, Working
<1>3. CASE Normalize(r)
  <2> DEFINE n == Cardinality(BatchRows(r))
  <2>1. Become(r, [run[r] EXCEPT !.pc = "check", !.nrm = n])
    BY <1>3 DEF Normalize
  <2>2. run'[r] = [run[r] EXCEPT !.pc = "check", !.nrm = n]
    BY <2>1, Becomes
  <2>3. Working(r, "normalizing")
    BY <1>3 DEF Normalize
  <2> HIDE DEF n
  <2> QED  BY <1>1, <1>3, <2>2, <2>3 DEF RunStates
<1>4. CASE WriteResume(r)
  <2>1. Become(r, [run[r] EXCEPT !.pc = "transition", !.cur = run[r].next])
    BY <1>4 DEF WriteResume
  <2>2. run'[r] = [run[r] EXCEPT !.pc = "transition", !.cur = run[r].next]
    BY <2>1, Becomes
  <2> QED  BY <1>1, <1>4, <2>2 DEF WriteResume, RunStates, At, Working
<1>5. CASE Heartbeat(r) \/ RenewalThrows(r)
  <2>1. UNCHANGED run \/ Become(r, [run[r] EXCEPT !.lost = TRUE])
    BY <1>5 DEF Heartbeat, RenewalThrows
  <2>2. run'[r] = run[r] \/ run'[r] = [run[r] EXCEPT !.lost = TRUE]
    BY <2>1, Becomes
  <2> QED  BY <1>1, <2>2 DEF RunStates
<1> QED  BY <1>2, <1>3, <1>4, <1>5

LEMMA BeatMoves ==
  ASSUME TypeOK, NEW r \in Runs, Heartbeat(r) \/ RenewalThrows(r)
  PROVE  run'[r].pc = run[r].pc /\ run'[r].job = run[r].job
<1>1. run[r] \in RunStates
  BY DEF TypeOK, RunTypeOK
<1>2. UNCHANGED run \/ Become(r, [run[r] EXCEPT !.lost = TRUE])
  BY DEF Heartbeat, RenewalThrows
<1>3. run'[r] = run[r] \/ run'[r] = [run[r] EXCEPT !.lost = TRUE]
  BY <1>2, Becomes
<1> QED  BY <1>1, <1>3 DEF RunStates

LEMMA CanonicalMoves ==
  ASSUME TypeOK, NEW r \in Runs, WriteCanonical(r)
  PROVE  /\ run'[r].pc = "check"
         /\ run'[r].stage = run[r].stage
         /\ run'[r].job = run[r].job
         /\ run'[r].done = run[r].done
         /\ run'[r].first = run[r].first
         /\ run'[r].last = run[r].last
         /\ run'[r].can = Cardinality(CanonicalRows(r))
<1>1. run[r] \in RunStates
  BY DEF TypeOK, RunTypeOK
<1> DEFINE n == Cardinality(CanonicalRows(r))
<1>2. Become(r, [run[r] EXCEPT !.pc = "check", !.can = n])
  BY DEF WriteCanonical
<1> HIDE DEF n
<1>3. run'[r] = [run[r] EXCEPT !.pc = "check", !.can = n]
  BY <1>2, Becomes
<1>4. /\ run'[r].pc = "check" /\ run'[r].stage = run[r].stage
      /\ run'[r].job = run[r].job /\ run'[r].done = run[r].done
      /\ run'[r].first = run[r].first /\ run'[r].last = run[r].last
      /\ run'[r].can = n
  BY <1>1, <1>3 DEF RunStates
<1> QED  BY <1>4 DEF n

LEMMA SavesLastStep ==
  ASSUME TypeOK, SavesLast, [Next]_vars
  PROVE  SavesLast'
<1>1. ASSUME NEW r \in Runs,
             RunStep(r) \/ Heartbeat(r) \/ RunFault(r) \/ TakeJob(r)
      PROVE  SavesLast'
  <2> DEFINE me == run[r]
             L(x) == x.pc \in {"resume", "finalize"} => x.stage = "reconciling"
  <2>1. me \in RunStates /\ L(me)
    BY DEF TypeOK, RunTypeOK, SavesLast
  <2>2. L(run'[r])
    <3>1. CASE \E b \in BOOLEAN : Fail(r, b)
      BY <3>1, FailMoves
    <3>2. CASE Leave(r, "return") \/ Leave(r, "rethrow")
      BY <3>2, LeaveMoves
    <3>3. CASE Lease(r) \/ NotLeased(r) \/ Cancel(r) \/ Persist(r)
      BY <3>2, <3>3, GotoMoves DEF Lease, NotLeased, Cancel, Persist
    <3>4. CASE CheckCancel(r)
      BY <3>4, GotoMoves DEF CheckCancel
    <3>5. CASE ReadCheckpoint(r)
      BY <2>1, <3>5, QuietMoves DEF ReadCheckpoint, At
    <3>6. CASE ReadResumePageCursor(r)
      BY <3>6, CursorMoves
    <3>7. CASE Transition(r)
      BY <3>1, <3>7, TransitionMoves
    <3>8. CASE Fetch(r)
      BY <3>1, <3>8, FetchMoves
    <3>9. CASE Normalize(r)
      BY <2>1, <3>9, QuietMoves DEF Normalize, Working, At
    <3>10. CASE WriteCanonical(r)
      BY <3>10, CanonicalMoves
    <3>11. CASE Reconcile(r)
      BY <3>1, <3>11, GotoMoves DEF Reconcile, Working
    <3>12. CASE WriteResume(r)
      BY <2>1, <3>12, QuietMoves DEF WriteResume, At
    <3>13. CASE Finalize(r) \/ RecordFailure(r)
      BY <3>1, <3>2, <3>13 DEF Finalize, RecordFailure
    <3>14. CASE Report(r)
      <4>1. run'[r] = IdleRun
        BY <3>14, Becomes DEF Report
      <4> QED  BY <4>1 DEF IdleRun
    <3>15. CASE Heartbeat(r) \/ RenewalThrows(r)
      BY <2>1, <3>15, QuietMoves DEF At
    <3>16. CASE RunFault(r) /\ ~RenewalThrows(r)
      BY <3>1, <3>2, <3>16 DEF RunFault, Throw, ThrowUnrecorded, LoseAck
    <3>17. CASE TakeJob(r)
      <4>1. \E j \in Jobs : run'[r] = [IdleRun EXCEPT !.pc = "lease", !.job = j,
                                                    !.attempt = made[j] + 1]
        BY <3>17, Becomes DEF TakeJob
      <4> QED  BY <4>1 DEF IdleRun
    <3> QED  BY <1>1, <3>3, <3>4, <3>5, <3>6, <3>7, <3>8, <3>9, <3>10, <3>11, <3>12,
                <3>13, <3>14, <3>15, <3>16, <3>17 DEF RunStep
  <2> QED  BY <1>1, <2>2, OthersStay DEF SavesLast
<1>2. ASSUME NEW o \in Owners, Crash(o)
      PROVE  SavesLast'
  BY <1>2 DEF Crash, SavesLast, IdleRun
<1>3. CASE UNCHANGED run
  BY <1>3 DEF SavesLast
<1>4. ASSUME NEW j \in Jobs, ApiStep(j) \/ TimeStep(j)
      PROVE  UNCHANGED run
  BY <1>4 DEF ApiStep, TimeStep, Submit, Enqueue, RequestCancel, PrepareRetry,
     QueueRetry, QueueRetryUnacknowledged, AbortRetry, LeaseExpires,
     DeliveryStalls, BackoffEnds, localVars
<1> QED  BY <1>1, <1>2, <1>3, <1>4 DEF Next, Grow, localVars, vars

-----------------------------------------------------------------------------
(* The row. *)

Same(j) ==
  status'[j] = status[j] /\ leaseOwner'[j] = leaseOwner[j] /\ cancelAt'[j] = cancelAt[j]

(* What a step of run r may do to the row of its job j: take the lease, or *)
(* as its owner write the next stage or the outcome.                       *)
Takes(r, j) ==
  /\ Leasable(j)
  /\ status'[j] = "leased" /\ leaseOwner'[j] = Owner[r]

Advances(r, j) ==
  /\ At(r, "transition")
  /\ status[j] = run[r].stage
  /\ status'[j] = NextStage(run[r].stage)
  /\ run'[r].pc = "work"

Ends(r, j) ==
  /\ \/ /\ At(r, "finalize") /\ status[j] = "reconciling"
        /\ status'[j] = "succeeded"
     \/ At(r, "cancelling") /\ status'[j] = "cancelled"
     \/ At(r, "failing") /\ status'[j] \in Failures
  /\ LoseAck(r) \/ ~Leasing(r)'

RowEffect(r, j) ==
  /\ cancelAt' = cancelAt
  /\ \A i \in Jobs \ {j} : Same(i)
  /\ \/ Same(j)
     \/ Takes(r, j)
     \/ /\ leaseOwner[j] = Owner[r] /\ leaseOwner'[j] = Owner[r]
        /\ Advances(r, j) \/ Ends(r, j)

(* What the API may do to the row of job j. *)
Creates(j) ==
  /\ status[j] = "absent" /\ status'[j] = "queued"
  /\ leaseOwner'[j] = leaseOwner[j] /\ cancelAt'[j] = cancelAt[j]

AsksToCancel(j) ==
  /\ status[j] \in InProgress \union {"queued"} /\ status'[j] = "cancel_requested"
  /\ leaseOwner'[j] = leaseOwner[j] /\ cancelAt'[j] = TRUE

Requeues(j) ==
  /\ status[j] \in Failures /\ status'[j] = "queued"
  /\ leaseOwner'[j] = NoOwner /\ cancelAt'[j] = FALSE

Restores(j) ==
  /\ status[j] = "queued" /\ status'[j] \in Failures
  /\ leaseOwner'[j] = leaseOwner[j] /\ cancelAt'[j] = cancelAt[j]

ApiEffect(j) ==
  /\ \A i \in Jobs \ {j} : Same(i)
  /\ Same(j) \/ Creates(j) \/ AsksToCancel(j) \/ Requeues(j) \/ Restores(j)

LEMMA SameRows ==
  ASSUME UNCHANGED <<status, leaseOwner, cancelAt>>
  PROVE  \A j \in Jobs : Same(j)
  BY DEF Same

LEMMA RunRowEffect ==
  ASSUME TypeOK, NEW r \in Runs, RowSteps(r), NEW j, j = run[r].job
  PROVE  j \in Jobs /\ RowEffect(r, j)
<1>1. Live(r)
  BY DEF RowSteps, Lease, Cancel, Transition, Finalize, RecordFailure, LoseAck,
     At, Live
<1>2. j \in Jobs /\ Owner[r] \in Owners
  BY <1>1, LiveRun DEF TypeOK
<1> USE <1>2 DEF TypeOK, StoreTypeOK
<1>3. ASSUME AcquireLease(j, Owner[r])  PROVE RowEffect(r, j)
  BY <1>3 DEF AcquireLease, RowEffect, Same, Takes
<1>4. ASSUME At(r, "cancelling"), MarkCancelled(j, Owner[r]),
             LoseAck(r) \/ ~Leasing(r)'
      PROVE  RowEffect(r, j)
  BY <1>4 DEF MarkCancelled, RowEffect, Same, Ends
<1>5. ASSUME At(r, "finalize"), FinalizeSucceeded(j, Owner[r]),
             LoseAck(r) \/ ~Leasing(r)'
      PROVE  RowEffect(r, j)
  BY <1>5 DEF FinalizeSucceeded, CanFinalize, RowEffect, Same, Ends
<1>6. ASSUME UNCHANGED rowVars  PROVE RowEffect(r, j)
  BY <1>6 DEF rowVars, RowEffect, Same
<1>7. ASSUME NEW pc \in {"return", "rethrow"}, Leave(r, pc)
      PROVE  ~Leasing(r)'
  BY <1>7, LeaveMoves DEF Leasing
<1>8. CASE Lease(r)
  BY <1>3, <1>8 DEF Lease
<1>9. CASE Cancel(r)
  BY <1>4, <1>7, <1>9 DEF Cancel
<1>10. CASE Transition(r)
  <2>1. CASE Fail(r, TRUE)
    <3>1. run'[r].pc = "failing"
      BY <2>1, FailMoves
    <3>2. CASE ~MayTransition(j, Owner[r], run[r].stage)
      BY <1>6, <1>10, <3>2 DEF Transition
    <3>3. CASE MayTransition(j, Owner[r], run[r].stage)
      <4>1. Become(r, [run[r] EXCEPT !.pc = "work", !.stage = NextStage(run[r].stage)])
        BY <1>10, <3>3 DEF Transition
      <4>2. run[r] \in RunStates
        BY DEF RunTypeOK
      <4>3. run'[r].pc = "work"
        BY <4>1, <4>2, Becomes DEF RunStates
      <4> QED  BY <3>1, <4>3
    <3> QED  BY <3>2, <3>3
  <2>2. CASE ~Fail(r, TRUE)
    <3>1. /\ MayTransition(j, Owner[r], run[r].stage)
          /\ TransitionJobState(j, Owner[r], run[r].stage, NextStage(run[r].stage))
          /\ run'[r].pc = "work"
      BY <1>10, <2>2, TransitionMoves
    <3>2. At(r, "transition")
      BY <1>10 DEF Transition
    <3> QED
      BY <3>1, <3>2 DEF TransitionJobState, MayTransition, RowEffect, Same, Advances
  <2> QED  BY <2>1, <2>2
<1>11. CASE Finalize(r)
  BY <1>5, <1>6, <1>7, <1>11 DEF Finalize
<1>12. CASE RecordFailure(r)
  <2>1. Verdict(r) \in Failures
    BY <1>1, LiveRun
  <2>2. At(r, "failing") /\ MarkFailed(j, Owner[r], Verdict(r)) /\ ~Leasing(r)'
    BY <1>7, <1>12 DEF RecordFailure
  <2> QED  BY <2>1, <2>2 DEF MarkFailed, RowEffect, Same, Ends
<1>13. CASE LoseAck(r)
  BY <1>3, <1>4, <1>5, <1>13 DEF LoseAck
<1> QED  BY <1>8, <1>9, <1>10, <1>11, <1>12, <1>13 DEF RowSteps

LEMMA ApiRowEffect ==
  ASSUME TypeOK, NEW j \in Jobs, ApiStep(j) \/ TimeStep(j)
  PROVE  ApiEffect(j) /\ UNCHANGED run
<1> USE DEF TypeOK, StoreTypeOK
<1>1. \/ CreateJob(j) \/ MarkJobCancelled(j) \/ RequeueFailedJob(j)
      \/ retrying[j] # "none" /\ RestoreFailure(j, retrying[j])
      \/ UNCHANGED <<status, leaseOwner, cancelAt>>
  BY DEF ApiStep, TimeStep, Submit, Enqueue, RequestCancel, PrepareRetry,
     QueueRetry, QueueRetryUnacknowledged, AbortRetry, LeaseExpires, LapseLease,
     DeliveryStalls, BackoffEnds, rowVars
<1>2. UNCHANGED run
  BY DEF ApiStep, TimeStep, Submit, Enqueue, RequestCancel, PrepareRetry,
     QueueRetry, QueueRetryUnacknowledged, AbortRetry, LeaseExpires,
     DeliveryStalls, BackoffEnds, localVars
<1>3. CASE CreateJob(j)
  BY <1>2, <1>3 DEF CreateJob, ApiEffect, Same, Creates
<1>4. CASE MarkJobCancelled(j)
  BY <1>2, <1>4 DEF MarkJobCancelled, ApiEffect, Same, AsksToCancel
<1>5. CASE RequeueFailedJob(j)
  BY <1>2, <1>5 DEF RequeueFailedJob, ApiEffect, Same, Requeues
<1>6. CASE retrying[j] # "none" /\ RestoreFailure(j, retrying[j])
  <2>1. retrying[j] \in Failures
    BY <1>6 DEF CallTypeOK
  <2> QED  BY <1>2, <1>6, <2>1 DEF RestoreFailure, ApiEffect, Same, Restores
<1>7. CASE UNCHANGED <<status, leaseOwner, cancelAt>>
  BY <1>2, <1>7 DEF ApiEffect, Same
<1> QED  BY <1>1, <1>2, <1>3, <1>4, <1>5, <1>6, <1>7

-----------------------------------------------------------------------------
(* Who executes a job. *)

LEMMA JobStays ==
  ASSUME TypeOK, NEW r \in Runs, RunStep(r) \/ Heartbeat(r) \/ RunFault(r), ~Report(r)
  PROVE  Live(r) /\ run'[r].job = run[r].job /\ UNCHANGED queueVars
<1>1. Live(r) /\ UNCHANGED queueVars
  BY DEF RunStep, RunFault, Lease, NotLeased, CheckCancel, Cancel,
     ReadCheckpoint, ReadResumePageCursor, Transition, Fetch, Persist,
     Normalize, WriteCanonical, Reconcile, WriteResume, Finalize,
     RecordFailure, Heartbeat, Throw, ThrowUnrecorded, RenewalThrows,
     LoseAck, At, Working, Live, Leasing
<1>2. ASSUME NEW b \in BOOLEAN, Fail(r, b)  PROVE run'[r].job = run[r].job
  BY <1>2, FailMoves
<1>3. ASSUME NEW pc, Goto(r, pc) \/ Leave(r, pc)  PROVE run'[r].job = run[r].job
  BY <1>3, GotoMoves, LeaveMoves
<1>4. run'[r].job = run[r].job
  <2>1. CASE Transition(r)
    BY <1>2, <2>1, TransitionMoves
  <2>2. CASE Fetch(r)
    BY <1>2, <2>2, FetchMoves
  <2>3. CASE ReadResumePageCursor(r)
    BY <2>3, CursorMoves
  <2>4. CASE WriteCanonical(r)
    BY <2>4, CanonicalMoves
  <2>5. CASE \/ ReadCheckpoint(r) \/ Normalize(r) \/ WriteResume(r)
             \/ Heartbeat(r) \/ RenewalThrows(r)
    BY <2>5, QuietMoves
  <2>6. CASE \/ Lease(r) \/ NotLeased(r) \/ CheckCancel(r) \/ Cancel(r) \/ Persist(r)
             \/ Finalize(r) \/ RecordFailure(r)
             \/ Throw(r) \/ ThrowUnrecorded(r) \/ LoseAck(r)
    BY <1>2, <1>3, <2>6 DEF Lease, NotLeased, CheckCancel, Cancel, Persist, Finalize,
       RecordFailure, Throw, ThrowUnrecorded, LoseAck
  <2>7. CASE Reconcile(r)
    BY <1>2, <1>3, <2>7 DEF Reconcile
  <2> QED  BY <2>1, <2>2, <2>3, <2>4, <2>5, <2>6, <2>7 DEF RunStep, RunFault
<1> QED  BY <1>1, <1>4

LEMMA LockStep ==
  ASSUME "pause" \notin Faults, TypeOK, LockHeld, [Next]_vars
  PROVE  LockHeld'
<1> USE DEF TypeOK, QueueTypeOK
<1>1. \A s \in Runs : Live(s) => run[s].job \in Jobs /\ s # NoRun
  BY SyncJobsAssumption DEF RunTypeOK
<1>2. ASSUME NEW j \in Jobs, \A i \in Jobs \ {j} : q'[i] = q[i] /\ holder'[i] = holder[i],
             \A s \in Runs : Live(s)' => run'[s] = run[s] /\ run[s].job # j
      PROVE  LockHeld'
  BY <1>1, <1>2 DEF LockHeld, Live
<1>3. ASSUME NEW r \in Runs, TakeJob(r)
      PROVE  LockHeld'
  <2>1. PICK j \in Jobs :
          /\ Deliver(j, r)
          /\ run'[r] = [IdleRun EXCEPT !.pc = "lease", !.job = j, !.attempt = made[j] + 1]
    BY <1>3, Becomes DEF TakeJob
  <2>2. run'[r].job = j
    BY <2>1 DEF IdleRun
  <2>3. \A s \in Runs \ {r} : run'[s] = run[s]
    BY <1>3, OthersStay
  <2>4. \A s \in Runs : Live(s) => run[s].job # j
    BY <2>1 DEF Deliver, LockHeld
  <2>5. /\ q'[j] = "active" /\ holder'[j] = r
        /\ \A i \in Jobs \ {j} : q'[i] = q[i] /\ holder'[i] = holder[i]
    BY <2>1 DEF Deliver
  <2>6. \A s \in Runs \ {r} : Live(s)' => q'[run'[s].job] = "active" /\ holder'[run'[s].job] = s
    BY <1>1, <2>3, <2>4, <2>5 DEF LockHeld, Live
  <2> QED  BY <2>2, <2>5, <2>6 DEF LockHeld
<1>4. ASSUME NEW r \in Runs, Report(r)
      PROVE  LockHeld'
  <2> DEFINE j == run[r].job
  <2>1. j \in Jobs /\ holder[j] = r
    BY <1>1, <1>4 DEF Report, At, Live, LockHeld
  <2>2. ~Live(r)'
    <3>1. run'[r] = IdleRun
      BY <1>4, Becomes DEF Report
    <3> QED  BY <3>1 DEF Live, IdleRun
  <2>3. \A s \in Runs \ {r} : run'[s] = run[s]
    BY <1>4, OthersStay DEF RunStep
  <2>4. \A i \in Jobs \ {j} : q'[i] = q[i] /\ holder'[i] = holder[i]
    BY <1>4, <2>1 DEF Report, Complete, FailAttempt, queueVars
  <2> HIDE DEF j
  <2>5. \A s \in Runs \ {r} : Live(s) => run[s].job # j
    BY <2>1 DEF LockHeld
  <2> QED  BY <1>2, <2>1, <2>2, <2>3, <2>4, <2>5 DEF Live
<1>5. ASSUME NEW r \in Runs, RunStep(r) \/ Heartbeat(r) \/ RunFault(r), ~Report(r)
      PROVE  LockHeld'
  BY <1>5, JobStays, OthersStay DEF LockHeld, Live, queueVars
<1>6. ASSUME NEW j \in Jobs, ApiStep(j) \/ TimeStep(j)
      PROVE  LockHeld'
  <2>1. UNCHANGED run
    BY <1>6, ApiRowEffect
  <2>2. \/ Add(j) \/ Promote(j) \/ RetryFailed(j)
        \/ holder[j] = NoRun /\ Stall(j)
        \/ UNCHANGED queueVars
    BY <1>6 DEF ApiStep, TimeStep, Submit, Enqueue, RequestCancel, PrepareRetry,
       QueueRetry, QueueRetryUnacknowledged, AbortRetry, LeaseExpires,
       DeliveryStalls, BackoffEnds
  <2>3. CASE UNCHANGED queueVars
    BY <2>1, <2>3 DEF LockHeld, Live, queueVars
  <2>4. CASE ~UNCHANGED queueVars
    <3>1. \A i \in Jobs \ {j} : q'[i] = q[i] /\ holder'[i] = holder[i]
      BY <2>2, <2>4 DEF Add, Promote, RetryFailed, Stall
    <3>2. q[j] # "active" \/ holder[j] = NoRun
      BY <2>2, <2>4 DEF Add, Promote, RetryFailed
    <3>3. \A s \in Runs : Live(s) => run[s].job # j
      BY <1>1, <3>2 DEF LockHeld
    <3> QED  BY <1>2, <2>1, <3>1, <3>3 DEF Live
  <2> QED  BY <2>3, <2>4
<1>7. ASSUME NEW o \in Owners, Crash(o)
      PROVE  LockHeld'
  <2>1. \A s \in Runs : Live(s)' => run'[s] = run[s] /\ Owner[s] # o /\ Live(s)
    BY <1>7 DEF Crash, Live, IdleRun
  <2>2. /\ q' = q
        /\ \A i \in Jobs : holder[i] \notin RunsOf(o) => holder'[i] = holder[i]
    BY <1>7 DEF Crash, Orphan
  <2>3. \A s \in Runs : Owner[s] # o => s \notin RunsOf(o)
    BY DEF RunsOf
  <2> QED  BY <1>1, <2>1, <2>2, <2>3 DEF LockHeld
<1>8. Grow \/ UNCHANGED vars => LockHeld'
  BY DEF Grow, vars, localVars, queueVars, LockHeld, Live
<1> QED  BY <1>3, <1>4, <1>5, <1>6, <1>7, <1>8 DEF Next

(* No process executes one job twice at a time, if every process executes  *)
(* one delivery at a time, or if a live process always renews its locks:   *)
(* then only the lock of a dead one expires.                               *)
THEOREM ProcessesDoNotShareAJob ==
  ASSUME OwnersDistinct \/ "pause" \notin Faults
  PROVE  Spec => []OwnersApart
<1>1. CASE OwnersDistinct
  <2>1. OwnersApart
    BY <1>1 DEF OwnersDistinct, OwnersApart
  <2> QED  BY <2>1, PTL
<1>2. CASE "pause" \notin Faults
  <2>1. Init => LockHeld
    BY DEF Init, LockHeld, Live, IdleRun
  <2>2. TypeOK /\ LockHeld /\ [Next]_vars => LockHeld'
    BY <1>2, LockStep
  <2>3. LockHeld => OwnersApart
    BY DEF LockHeld, OwnersApart
  <2> QED  BY <2>1, <2>2, <2>3, TypeCorrect, PTL DEF Spec
<1> QED  BY <1>1, <1>2

-----------------------------------------------------------------------------
(* A cancelled job does not succeed. *)

(* A run may only start a stage after it found its job not cancelled. *)
LEMMA MayStartStep ==
  ASSUME TypeOK, SavesLast, NEW r \in Runs,
         RunStep(r) \/ Heartbeat(r) \/ RunFault(r) \/ TakeJob(r),
         MayStart(run'[r])
  PROVE  /\ ~RowSteps(r)
         /\ run'[r].job = run[r].job
         /\ MayStart(run[r]) \/ ~cancelAt[run[r].job]
<1> USE DEF MayStart
<1>1. ASSUME NEW b \in BOOLEAN  PROVE ~Fail(r, b)
  BY FailMoves
<1>2. ~Leave(r, "return") /\ ~Leave(r, "rethrow") /\ ~Goto(r, "check")
      /\ ~Goto(r, "resume") /\ ~Goto(r, "finalize")
  BY LeaveMoves, GotoMoves
<1>3. ~Lease(r) /\ ~NotLeased(r) /\ ~Cancel(r) /\ ~Persist(r) /\ ~Finalize(r)
      /\ ~RecordFailure(r) /\ ~Throw(r) /\ ~ThrowUnrecorded(r) /\ ~LoseAck(r)
  BY <1>1, <1>2 DEF Lease, NotLeased, Cancel, Persist, Finalize, RecordFailure,
     Throw, ThrowUnrecorded, LoseAck
<1>4. ~Reconcile(r)
  BY <1>1, <1>2 DEF Reconcile
<1>5. ~Transition(r)
  <2>1. Transition(r) => run'[r].pc = "work"
    BY <1>1, TransitionMoves
  <2> QED  BY <2>1
<1>6. ~Fetch(r) /\ ~WriteCanonical(r)
  <2>1. Fetch(r) => run'[r].pc = "check"
    BY <1>1, FetchMoves
  <2>2. WriteCanonical(r) => run'[r].pc = "check"
    BY CanonicalMoves
  <2> QED  BY <2>1, <2>2
<1>7. ~Report(r) /\ ~TakeJob(r)
  <2>1. Report(r) => run'[r] = IdleRun
    BY Becomes DEF Report
  <2>2. TakeJob(r) => run'[r].pc = "lease"
    <3>1. ASSUME NEW j \in Jobs
          PROVE  [IdleRun EXCEPT !.pc = "lease", !.job = j,
                                 !.attempt = made[j] + 1].pc = "lease"
      BY DEF IdleRun
    <3> QED  BY <3>1, Becomes DEF TakeJob
  <2> QED  BY <2>1, <2>2 DEF IdleRun
<1>8. ~RowSteps(r)
  BY <1>3, <1>5 DEF RowSteps
<1>9. CASE CheckCancel(r)
  <2>1. run'[r].job = run[r].job
    BY <1>9, GotoMoves DEF CheckCancel
  <2>2. ~IsCancelRequested(run[r].job)
    BY <1>9, GotoMoves DEF CheckCancel
  <2> QED  BY <1>8, <2>1, <2>2 DEF IsCancelRequested
<1>10. CASE ReadResumePageCursor(r)
  <2>1. At(r, "cursor")
    BY <1>10 DEF ReadResumePageCursor
  <2> QED  BY <1>8, <1>10, <2>1, CursorMoves DEF At
<1>11. CASE \/ ReadCheckpoint(r) \/ Normalize(r) \/ WriteResume(r)
            \/ Heartbeat(r) \/ RenewalThrows(r)
  BY <1>8, <1>11, QuietMoves DEF SavesLast, At
<1> QED  BY <1>3, <1>4, <1>5, <1>6, <1>7, <1>9, <1>10, <1>11 DEF RunStep, RunFault

(* The stage a run moves to is one a cancellation shuts out. *)
LEMMA NextStageUnderway ==
  ASSUME NEW stage \in InProgress
  PROVE  NextStage(stage) \in Underway /\ NextStage(stage) # "leased"
  BY DEF NextStage, Underway, InProgress

LEMMA CancelStep ==
  ASSUME OwnersApart, TypeOK, CancelInv, [Next]_vars
  PROVE  CancelInv'
<1>1. SavesLast'
  BY SavesLastStep DEF CancelInv
<1>2. ASSUME NEW r \in Runs,
             RunStep(r) \/ Heartbeat(r) \/ RunFault(r) \/ TakeJob(r), ~RowSteps(r)
      PROVE  CancelInv'
  <2>1. \A j \in Jobs : Same(j)
    BY <1>2, RowStays, SameRows
  <2>2. UNCHANGED <<status, leaseOwner, cancelAt>>
    BY <1>2, RowStays
  <2>3. \A s \in Runs \ {r} : run'[s] = run[s]
    BY <1>2, OthersStay
  <2>4. MayStart(run'[r]) =>
          /\ run'[r].job = run[r].job
          /\ MayStart(run[r]) \/ ~cancelAt[run[r].job]
    BY <1>2, MayStartStep DEF CancelInv
  <2> QED  BY <1>1, <2>1, <2>2, <2>3, <2>4 DEF CancelInv, Same, Owns
<1>3. ASSUME NEW r \in Runs, RowSteps(r)
      PROVE  CancelInv'
  <2> DEFINE j == run[r].job
  <2>1. j \in Jobs /\ RowEffect(r, j)
    BY <1>3, RunRowEffect
  <2>2. RunStep(r) \/ RunFault(r)
    BY <1>3 DEF RowSteps, RunStep, RunFault
  <2>3. ~MayStart(run'[r])
    BY <1>3, <2>2, MayStartStep DEF CancelInv
  <2>4. \A s \in Runs \ {r} : run'[s] = run[s]
    BY <2>2, OthersStay
  <2>5. cancelAt' = cancelAt /\ \A i \in Jobs \ {j} : Same(i)
    BY <2>1 DEF RowEffect
  <2>6. \A s \in Runs : MayStart(run[s]) => run[s].job \in Jobs
    BY DEF TypeOK, RunTypeOK, Live, MayStart
  <2>7. Live(r)
    BY <1>3 DEF RowSteps, Lease, Cancel, Transition, Finalize, RecordFailure,
       LoseAck, At, Live
  <2> HIDE DEF j
  <2>8. ASSUME NEW i \in Jobs, cancelAt'[i]
        PROVE  status'[i] \notin Underway
    <3>1. cancelAt[i] /\ status[i] \notin Underway
      BY <1>3, <2>5, <2>8 DEF CancelInv
    <3>2. CASE Same(i)
      BY <3>1, <3>2 DEF Same
    <3>3. CASE i = j /\ Takes(r, j)
      BY <3>3 DEF Takes, Underway, InProgress
    <3>4. CASE i = j /\ leaseOwner[j] = Owner[r] /\ Advances(r, j)
      <4>1. run[r].stage \in InProgress
        BY DEF TypeOK, RunTypeOK, RunStates
      <4>2. run[r].stage = "leased"
        BY <3>1, <3>4, <4>1 DEF Advances, Underway
      <4>3. MayStart(run[r]) /\ Owns(r) /\ status[run[r].job] = "leased"
        BY <3>4, <4>2 DEF Advances, At, MayStart, Owns, j
      <4> QED  BY <3>1, <3>4, <4>3 DEF CancelInv, j
    <3>5. CASE i = j /\ Ends(r, j)
      BY <3>1, <3>5 DEF Ends, Underway, InProgress, Failures
    <3> QED  BY <2>1, <2>5, <3>2, <3>3, <3>4, <3>5 DEF RowEffect
  <2>9. ASSUME NEW s \in Runs, MayStart(run'[s]), Owns(s)',
               status'[run'[s].job] = "leased"
        PROVE  ~cancelAt'[run'[s].job]
    <3>1. s # r /\ run'[s] = run[s]
      BY <2>3, <2>4, <2>9
    <3>2. MayStart(run[s]) /\ leaseOwner'[run[s].job] = Owner[s] /\ run[s].job \in Jobs
      BY <2>6, <2>9, <3>1 DEF Owns
    <3>3. run[s].job = j => Owner[s] # Owner[r]
      BY <2>7, <3>1, <3>2 DEF OwnersApart, MayStart, Live, j
    <3>4. Same(run[s].job)
      BY <2>1, <2>5, <3>2, <3>3 DEF RowEffect, Takes
    <3>5. Owns(s) /\ status[run[s].job] = "leased"
      BY <2>9, <3>1, <3>2, <3>4 DEF Same, Owns
    <3>6. ~cancelAt[run[s].job]
      BY <3>2, <3>5 DEF CancelInv
    <3> QED  BY <2>5, <3>1, <3>6
  <2> QED  BY <1>1, <2>8, <2>9 DEF CancelInv
<1>4. ASSUME NEW j \in Jobs, ApiStep(j) \/ TimeStep(j)
      PROVE  CancelInv'
  <2>1. ApiEffect(j) /\ UNCHANGED run
    BY <1>4, ApiRowEffect
  <2>2. \A s \in Runs : MayStart(run[s]) => run[s].job \in Jobs
    BY DEF TypeOK, RunTypeOK, Live, MayStart
  <2>3. \A i \in Jobs :
          Same(i) \/ status'[i] \in Failures \union {"queued", "cancel_requested"}
    BY <2>1 DEF ApiEffect, Creates, AsksToCancel, Requeues, Restores
  <2>4. \A i \in Jobs :
          Same(i) \/ (status'[i] # "leased" /\ status'[i] \notin Underway)
    BY <2>3 DEF Failures, Underway, InProgress
  <2> QED  BY <1>1, <2>1, <2>2, <2>4 DEF CancelInv, Same, Owns
<1>5. ASSUME UNCHANGED <<status, leaseOwner, cancelAt>>,
             \A s \in Runs : run'[s] = run[s] \/ run'[s] = IdleRun
      PROVE  CancelInv'
  <2>1. ~MayStart(IdleRun)
    BY DEF MayStart, IdleRun
  <2> QED  BY <1>1, <1>5, <2>1 DEF CancelInv, Owns
<1>6. ASSUME NEW o \in Owners, Crash(o)
      PROVE  CancelInv'
  BY <1>5, <1>6 DEF Crash, rowVars
<1>7. Grow \/ UNCHANGED vars => CancelInv'
  BY <1>5 DEF Grow, vars, rowVars, localVars
<1> QED  BY <1>2, <1>3, <1>4, <1>6, <1>7 DEF Next

(* A job whose cancellation was asked for, and not withdrawn, does not     *)
(* succeed: wherever the request falls, the run that owns the row meets it *)
(* in the row's status, or took the row after it and then looks for it.    *)
THEOREM CancelledJobsDoNotSucceed ==
  Spec /\ []OwnersApart => []NoSuccessAfterCancel
<1>1. Init => CancelInv
  BY DEF Init, StoreInit, CancelInv, SavesLast, MayStart, IdleRun
<1>2. TypeOK /\ OwnersApart /\ CancelInv /\ [Next]_vars => CancelInv'
  BY CancelStep
<1>3. CancelInv => NoSuccessAfterCancel
  BY DEF CancelInv, NoSuccessAfterCancel, Underway
<1> QED  BY <1>1, <1>2, <1>3, TypeCorrect, PTL DEF Spec

-----------------------------------------------------------------------------
(* An outcome is final. *)

(* Whatever a run does in its try statement, it entered it with the lease. *)
LEMMA LeasingStep ==
  ASSUME TypeOK, NEW r \in Runs,
         RunStep(r) \/ Heartbeat(r) \/ RunFault(r) \/ TakeJob(r),
         Leasing(r)', NEW j, j = run[r].job
  PROVE  /\ run'[r].job = j
         /\ Leasing(r) \/ Takes(r, j)
         /\ At(r, "cancelling")' =>
              ~RowSteps(r) /\ (At(r, "cancelling") \/ IsCancelRequested(j))
<1> USE DEF Leasing, At, Working
<1>1. ~Leave(r, "return") /\ ~Leave(r, "rethrow")
  BY LeaveMoves
<1>2. ~NotLeased(r) /\ ~Cancel(r) /\ ~RecordFailure(r) /\ ~ThrowUnrecorded(r)
  BY <1>1 DEF NotLeased, Cancel, RecordFailure, ThrowUnrecorded
<1>3. ~Report(r) /\ ~TakeJob(r)
  <2>1. Report(r) => run'[r] = IdleRun
    BY Becomes DEF Report
  <2>2. TakeJob(r) => run'[r].pc = "lease"
    <3>1. ASSUME NEW i \in Jobs
          PROVE  [IdleRun EXCEPT !.pc = "lease", !.job = i,
                                 !.attempt = made[i] + 1].pc = "lease"
      BY DEF IdleRun
    <3> QED  BY <3>1, Becomes DEF TakeJob
  <2> QED  BY <2>1, <2>2 DEF IdleRun
<1>4. ASSUME NEW b \in BOOLEAN, Fail(r, b)
      PROVE  run'[r].job = j /\ run'[r].pc = "failing"
  BY <1>4, FailMoves
<1>5. At(r, "cancelling")' => ~RowSteps(r)
  <2>1. ASSUME NEW b \in BOOLEAN, Fail(r, b) PROVE run'[r].pc = "failing"
    BY <2>1, FailMoves
  <2>2. Transition(r) => run'[r].pc # "cancelling"
    BY <2>1, TransitionMoves
  <2>3. Lease(r) => run'[r].pc = "check"
    BY GotoMoves DEF Lease
  <2> QED  BY <1>1, <1>2, <2>1, <2>2, <2>3 DEF RowSteps, Finalize, LoseAck
<1>6. CASE Lease(r)
  <2>1. run'[r].job = j /\ run'[r].pc = "check"
    BY <1>6, GotoMoves DEF Lease
  <2>2. run[r].pc = "lease" /\ AcquireLease(j, Owner[r])
    BY <1>6 DEF Lease
  <2>3. j \in Jobs
    BY <2>2 DEF TypeOK, RunTypeOK, Live
  <2>4. Takes(r, j)
    BY <2>2, <2>3 DEF AcquireLease, Takes, TypeOK, StoreTypeOK
  <2> QED  BY <2>1, <2>4
<1>7. CASE CheckCancel(r)
  <2>1. run'[r].job = j /\ run[r].pc = "check"
    BY <1>7, GotoMoves DEF CheckCancel
  <2>2. run'[r].pc = "cancelling" => IsCancelRequested(j)
    BY <1>7, GotoMoves DEF CheckCancel
  <2> QED  BY <1>5, <2>1, <2>2
<1>8. CASE Persist(r)
  <2>1. run'[r].job = j /\ run'[r].pc = "check" /\ run[r].pc = "work"
    BY <1>8, GotoMoves DEF Persist
  <2> QED  BY <2>1
<1>9. CASE ReadResumePageCursor(r)
  <2>1. run'[r].job = j /\ run'[r].pc = "transition" /\ run[r].pc = "cursor"
    BY <1>9, CursorMoves DEF ReadResumePageCursor
  <2> QED  BY <2>1
<1>10. CASE Transition(r)
  <2>1. run'[r].job = j /\ run'[r].pc # "cancelling" /\ run[r].pc = "transition"
    BY <1>4, <1>10, TransitionMoves DEF Transition
  <2> QED  BY <2>1
<1>11. CASE Fetch(r)
  <2>1. run'[r].job = j /\ run'[r].pc # "cancelling" /\ run[r].pc = "work"
    BY <1>4, <1>11, FetchMoves DEF Fetch
  <2> QED  BY <2>1
<1>12. CASE WriteCanonical(r)
  <2>1. run'[r].job = j /\ run'[r].pc = "check" /\ run[r].pc = "work"
    BY <1>12, CanonicalMoves DEF WriteCanonical
  <2> QED  BY <2>1
<1>13. CASE Reconcile(r)
  <2>1. run'[r].job = j /\ run'[r].pc # "cancelling" /\ run[r].pc = "work"
    <3>1. Goto(r, "finalize") \/ Goto(r, "resume") \/ Fail(r, TRUE)
      BY <1>13 DEF Reconcile
    <3>2. run[r].pc = "work"
      BY <1>13 DEF Reconcile
    <3>3. CASE Goto(r, "finalize")
      BY <3>2, <3>3, GotoMoves
    <3>4. CASE Goto(r, "resume")
      BY <3>2, <3>4, GotoMoves
    <3>5. CASE Fail(r, TRUE)
      BY <1>4, <3>2, <3>5
    <3> QED  BY <3>1, <3>3, <3>4, <3>5
  <2> QED  BY <2>1
<1>14. CASE Finalize(r)
  <2>1. run'[r].job = j /\ run'[r].pc # "cancelling" /\ run[r].pc = "finalize"
    BY <1>1, <1>4, <1>14 DEF Finalize
  <2> QED  BY <2>1
<1>15. CASE ReadCheckpoint(r) \/ Normalize(r) \/ WriteResume(r)
  <2>1. run'[r].job = j /\ run'[r].pc # "cancelling"
        /\ run[r].pc \in {"checkpoint", "work", "resume"}
    BY <1>15, QuietMoves DEF ReadCheckpoint, Normalize, WriteResume
  <2> QED  BY <2>1
<1>16. CASE Heartbeat(r) \/ RenewalThrows(r)
  <2>1. /\ run'[r].job = j /\ run'[r].pc = run[r].pc
        /\ Leasing(r)
    BY <1>16, BeatMoves DEF Heartbeat, RenewalThrows
  <2> QED  BY <1>5, <2>1
<1>17. CASE Throw(r)
  <2>1. run'[r].job = j /\ run'[r].pc = "failing" /\ Leasing(r)
    BY <1>4, <1>17 DEF Throw
  <2> QED  BY <2>1
<1>18. CASE LoseAck(r)
  <2>1. run'[r].job = j /\ run'[r].pc = "failing" /\ Leasing(r)
    BY <1>1, <1>4, <1>18 DEF LoseAck
  <2> QED  BY <2>1
<1> QED  BY <1>2, <1>3, <1>5, <1>6, <1>7, <1>8, <1>9, <1>10, <1>11, <1>12, <1>13, <1>14,
            <1>15, <1>16, <1>17, <1>18 DEF RunStep, RunFault

LEMMA LeaseStep ==
  ASSUME OwnersApart, "lostAck" \notin Faults, TypeOK, LeaseInv, [Next]_vars
  PROVE  LeaseInv'
<1>1. \A s \in Runs :
        /\ Leasing(s) \/ At(s, "cancelling") => Leasing(s) /\ run[s].job \in Jobs
        /\ Owner[s] # NoOwner
  BY StoreAssumption, PipelineAssumption
  DEF TypeOK, RunTypeOK, Live, Leasing, At
<1>2. ASSUME NEW r \in Runs,
             RunStep(r) \/ Heartbeat(r) \/ RunFault(r) \/ TakeJob(r), ~RowSteps(r)
      PROVE  LeaseInv'
  <2> DEFINE j == run[r].job
  <2>1. UNCHANGED <<status, leaseOwner, cancelAt>>
    BY <1>2, RowStays
  <2>2. \A s \in Runs \ {r} : run'[s] = run[s]
    BY <1>2, OthersStay
  <2>3. Leasing(r)' => /\ run'[r].job = j
                       /\ Leasing(r) \/ Takes(r, j)
                       /\ At(r, "cancelling")' =>
                            At(r, "cancelling") \/ IsCancelRequested(j)
    BY <1>2, LeasingStep
  <2>4. At(r, "cancelling")' => Leasing(r)'
    BY DEF At, Leasing
  <2>5. ASSUME Leasing(r)', Owns(r)'
        PROVE  /\ status'[run'[r].job] \in InProgress \union {"cancel_requested"}
               /\ At(r, "cancelling")' => cancelAt'[run'[r].job]
    <3> HIDE DEF j
    <3>1. run'[r].job = j /\ status'[j] = status[j] /\ cancelAt'[j] = cancelAt[j]
      BY <2>1, <2>3, <2>5
    <3>2. leaseOwner[run[r].job] = Owner[r]
      BY <2>1, <2>5, <3>1 DEF Owns, j
    <3>3. status[j] \in InProgress \union {"cancel_requested"}
      <4>1. Takes(r, j) => status[j] \in InProgress
        BY <2>1 DEF Takes, InProgress
      <4> QED  BY <2>3, <2>5, <3>2, <4>1 DEF LeaseInv, Owns, j
    <3>4. At(r, "cancelling")' => cancelAt[j]
      <4>1. (j \in Jobs /\ Leasing(r)) \/ Takes(r, j)
        BY <1>1, <2>3, <2>5 DEF j
      <4>2. At(r, "cancelling") => cancelAt[j]
        BY <3>2 DEF LeaseInv, Owns, j
      <4>3. status[j] = "cancel_requested" => cancelAt[j]
        BY <2>1, <4>1 DEF LeaseInv, Takes
      <4> QED  BY <2>3, <2>5, <4>2, <4>3 DEF IsCancelRequested
    <3> QED  BY <3>1, <3>3, <3>4
  <2>6. ASSUME NEW s \in Runs \ {r}
        PROVE  /\ Leasing(s)' = Leasing(s) /\ Owns(s)' = Owns(s)
               /\ At(s, "cancelling")' = At(s, "cancelling")
               /\ run'[s].job = run[s].job
    BY <2>1, <2>2 DEF Leasing, Owns, At
  <2> QED  BY <2>1, <2>4, <2>5, <2>6 DEF LeaseInv
<1>3. ASSUME NEW r \in Runs, RowSteps(r)
      PROVE  LeaseInv'
  <2> DEFINE j == run[r].job
  <2>1. j \in Jobs /\ RowEffect(r, j)
    BY <1>3, RunRowEffect
  <2>2. RunStep(r) \/ RunFault(r)
    BY <1>3 DEF RowSteps, RunStep, RunFault
  <2>3. \A s \in Runs \ {r} : run'[s] = run[s]
    BY <2>2, OthersStay
  <2>4. Leasing(r)' => /\ run'[r].job = j
                       /\ Leasing(r) \/ Takes(r, j)
                       /\ ~At(r, "cancelling")'
    BY <1>3, <2>2, LeasingStep
  <2>5. At(r, "cancelling")' => Leasing(r)'
    BY DEF At, Leasing
  <2>6. cancelAt' = cancelAt /\ \A i \in Jobs \ {j} : Same(i)
    BY <2>1 DEF RowEffect
  <2>7. Ends(r, j) => ~Leasing(r)'
    BY DEF Ends, LoseAck, Fault
  <2>8. run[r].stage \in InProgress /\ NextStage(run[r].stage) \in InProgress
    <3>1. run[r].stage \in InProgress
      BY DEF TypeOK, RunTypeOK, RunStates
    <3> QED  BY <3>1 DEF NextStage, InProgress
  <2> HIDE DEF j
  <2>9. ASSUME Leasing(r)', Owns(r)'
        PROVE  status'[run'[r].job] \in InProgress \union {"cancel_requested"}
    <3>1. run'[r].job = j /\ leaseOwner'[j] = Owner[r]
      BY <2>4, <2>9 DEF Owns
    <3>2. CASE Takes(r, j)
      BY <3>1, <3>2 DEF Takes, InProgress
    <3>3. CASE Same(j) /\ Leasing(r)
      <4>1. Owns(r)
        BY <3>1, <3>3 DEF Same, Owns, j
      <4> QED  BY <3>1, <3>3, <4>1 DEF LeaseInv, Same, j
    <3>4. CASE Advances(r, j)
      BY <2>8, <3>1, <3>4 DEF Advances
    <3> QED  BY <2>1, <2>4, <2>7, <2>9, <3>2, <3>3, <3>4 DEF RowEffect
  <2>10. ASSUME NEW s \in Runs \ {r}, Leasing(s)', Owns(s)'
         PROVE  /\ status'[run'[s].job] \in InProgress \union {"cancel_requested"}
                /\ At(s, "cancelling")' => cancelAt'[run'[s].job]
    <3>1. run'[s] = run[s]
      BY <2>3
    <3>2. Leasing(s) /\ run[s].job \in Jobs /\ leaseOwner'[run[s].job] = Owner[s]
      BY <1>1, <2>10, <3>1 DEF Leasing, Owns
    <3>3. run[s].job = j => Owner[s] # Owner[r]
      <4>1. Live(r) /\ Live(s)
        BY <1>3, <3>2 DEF RowSteps, Lease, Cancel, Transition, Finalize,
           RecordFailure, LoseAck, At, Live, Leasing
      <4> QED  BY <4>1 DEF OwnersApart, j
    <3>4. Same(run[s].job)
      BY <2>1, <2>6, <3>2, <3>3 DEF RowEffect, Takes
    <3>5. Owns(s)
      BY <3>2, <3>4 DEF Owns, Same
    <3> QED  BY <3>1, <3>2, <3>4, <3>5 DEF LeaseInv, Same, At
  <2>11. ASSUME NEW i \in Jobs
         PROVE  /\ status'[i] \in {"absent", "queued"} => leaseOwner'[i] = NoOwner
                /\ status'[i] = "cancel_requested" => cancelAt'[i]
    <3>1. CASE Same(i)
      BY <3>1 DEF LeaseInv, Same
    <3>2. CASE i = j /\ Takes(r, j)
      BY <3>2 DEF Takes
    <3>3. CASE i = j /\ (Advances(r, j) \/ Ends(r, j))
      BY <2>8, <3>3 DEF Advances, Ends, InProgress, Failures
    <3> QED  BY <2>1, <2>6, <3>1, <3>2, <3>3 DEF RowEffect
  <2> QED  BY <2>4, <2>5, <2>9, <2>10, <2>11, <1>1 DEF LeaseInv, Leasing, At
<1>4. ASSUME NEW j \in Jobs, ApiStep(j) \/ TimeStep(j)
      PROVE  LeaseInv'
  <2>1. ApiEffect(j) /\ UNCHANGED run
    BY <1>4, ApiRowEffect
  <2>2. ASSUME NEW s \in Runs, Leasing(s), leaseOwner'[run[s].job] = Owner[s]
        PROVE  /\ status'[run[s].job] \in InProgress \union {"cancel_requested"}
               /\ At(s, "cancelling") => cancelAt'[run[s].job]
    <3> DEFINE i == run[s].job
    <3>1. i \in Jobs /\ Owner[s] # NoOwner
      BY <1>1, <2>2
    <3> HIDE DEF i
    <3>2. ASSUME leaseOwner[i] = Owner[s]
          PROVE  /\ status[i] \in InProgress \union {"cancel_requested"}
                 /\ At(s, "cancelling") => cancelAt[i]
                 /\ status[i] \notin {"absent", "queued"}
      BY <2>2, <3>1, <3>2 DEF LeaseInv, Owns, i
    <3>3. ~Requeues(i) /\ leaseOwner'[i] = Owner[s]
      BY <2>2, <3>1 DEF Requeues, i
    <3>4. CASE Same(i)
      BY <3>2, <3>3, <3>4 DEF Same, i
    <3>5. CASE AsksToCancel(i)
      BY <3>5 DEF AsksToCancel, i
    <3>6. ~Creates(i) /\ ~Restores(i)
      BY <3>2, <3>3 DEF Creates, Restores
    <3> QED  BY <2>1, <3>1, <3>3, <3>4, <3>5, <3>6 DEF ApiEffect
  <2>3. ASSUME NEW i \in Jobs
        PROVE  /\ status'[i] \in {"absent", "queued"} => leaseOwner'[i] = NoOwner
               /\ status'[i] = "cancel_requested" => cancelAt'[i]
    <3>1. Same(i) \/ Creates(i) \/ AsksToCancel(i) \/ Requeues(i) \/ Restores(i)
      BY <2>1 DEF ApiEffect
    <3> QED
      BY <3>1 DEF LeaseInv, Same, Creates, AsksToCancel, Requeues, Restores, Failures
  <2> QED  BY <1>1, <2>1, <2>2, <2>3 DEF LeaseInv, Leasing, Owns, At
<1>5. ASSUME UNCHANGED <<status, leaseOwner, cancelAt>>,
             \A s \in Runs : run'[s] = run[s] \/ run'[s] = IdleRun
      PROVE  LeaseInv'
  <2>1. IdleRun.pc = "idle"
    BY DEF IdleRun
  <2>2. \A s \in Runs : Leasing(s)' \/ At(s, "cancelling")' => run'[s] = run[s]
    BY <1>5, <2>1 DEF Leasing, At
  <2> QED  BY <1>5, <2>2 DEF LeaseInv, Leasing, At, Owns
<1>6. ASSUME NEW o \in Owners, Crash(o)
      PROVE  LeaseInv'
  BY <1>5, <1>6 DEF Crash, rowVars
<1>7. Grow \/ UNCHANGED vars => LeaseInv'
  BY <1>5 DEF Grow, vars, rowVars, localVars
<1> QED  BY <1>2, <1>3, <1>4, <1>6, <1>7 DEF Next

(* The outcome of a job is written once.  A run that lost its lease does   *)
(* not own the row any more, and one that owns it has not written yet: so  *)
(* it holds as long as no statement's acknowledgement is lost.             *)
THEOREM OutcomesOfJobsAreFinal ==
  ASSUME "lostAck" \notin Faults
  PROVE  Spec /\ []OwnersApart => SettledIsFinal
<1>1. LeaseInv /\ TypeOK /\ [Next]_vars
        => [\A j \in Jobs :
              status[j] \in {"succeeded", "cancelled"} => status'[j] = status[j]]_vars
  <2> SUFFICES ASSUME LeaseInv, TypeOK, [Next]_vars, NEW j \in Jobs,
                      status[j] \in {"succeeded", "cancelled"}
               PROVE  status'[j] = status[j]
    OBVIOUS
  <2>1. ASSUME NEW r \in Runs, RowSteps(r)
        PROVE  status'[j] = status[j]
    <3>1. run[r].job \in Jobs /\ RowEffect(r, run[r].job)
      BY <2>1, RunRowEffect
    <3>2. ~Takes(r, j)
      BY DEF Takes, Leasable, InProgress
    <3>3. ASSUME j = run[r].job, leaseOwner[j] = Owner[r]
          PROVE  ~Advances(r, j) /\ ~Ends(r, j)
      <4>1. ~Leasing(r)
        BY <3>3 DEF LeaseInv, Owns, InProgress
      <4> QED  BY <4>1 DEF Advances, Ends, Leasing, At
    <3> QED  BY <3>1, <3>2, <3>3 DEF RowEffect, Same
  <2>2. ASSUME NEW r \in Runs,
               RunStep(r) \/ Heartbeat(r) \/ RunFault(r) \/ TakeJob(r), ~RowSteps(r)
        PROVE  status'[j] = status[j]
    BY <2>2, RowStays
  <2>3. ASSUME NEW i \in Jobs, ApiStep(i) \/ TimeStep(i)
        PROVE  status'[j] = status[j]
    BY <2>3, ApiRowEffect
    DEF ApiEffect, Same, Creates, AsksToCancel, Requeues, Restores, InProgress, Failures
  <2>4. (\E o \in Owners : Crash(o)) \/ Grow \/ UNCHANGED vars => status' = status
    BY DEF Crash, Grow, vars, rowVars
  <2> QED  BY <2>1, <2>2, <2>3, <2>4 DEF Next
<1>2. Init => LeaseInv
  BY DEF Init, StoreInit, LeaseInv, Leasing, At, IdleRun
<1>3. TypeOK /\ OwnersApart /\ LeaseInv /\ [Next]_vars => LeaseInv'
  BY LeaseStep
<1> QED  BY <1>1, <1>2, <1>3, TypeCorrect, PTL DEF Spec, SettledIsFinal

-----------------------------------------------------------------------------
(* The abstract life of a job. *)

LEMMA PhaseValues ==
  /\ \A s \in InProgress : Phase(s) = "running"
  /\ \A s \in Failures : Phase(s) \in {"pausing", "failed"}
  /\ Phase("absent") = "absent" /\ Phase("queued") = "waiting"
  /\ Phase("cancel_requested") = "stopping"
  /\ Phase("succeeded") = "succeeded" /\ Phase("cancelled") = "cancelled"
  /\ Phase("retryable_failed") = "pausing"
  BY DEF Phase, InProgress, Failures

(* The row of one job changes, and its phase and wish with it. *)
LEMMA LifeOfOne ==
  ASSUME TypeOK, NEW j \in Jobs, \A i \in Jobs \ {j} : Same(i),
         status' \in [Jobs -> Statuses], cancelAt' \in [Jobs -> BOOLEAN]
  PROVE  /\ Lifecycle!Become(j, Phase(status'[j]))
         /\ cancelAt'[j] = cancelAt[j] => cancelAt' = cancelAt
         /\ cancelAt' = [cancelAt EXCEPT ![j] = cancelAt'[j]]
         /\ Phase(status'[j]) = Phase(status[j]) /\ cancelAt'[j] = cancelAt[j]
              => UNCHANGED Lifecycle!lifeVars
<1> USE DEF Same, TypeOK, StoreTypeOK
<1>1. \A i \in Jobs \ {j} : Phase(status'[i]) = Phase(status[i])
  OBVIOUS
<1>2. [i \in Jobs |-> Phase(status'[i])] =
        [[i \in Jobs |-> Phase(status[i])] EXCEPT ![j] = Phase(status'[j])]
  BY <1>1
<1>3. Phase(status'[j]) = Phase(status[j])
        => [i \in Jobs |-> Phase(status'[i])] = [i \in Jobs |-> Phase(status[i])]
  BY <1>1
<1>4. cancelAt'[j] = cancelAt[j] => cancelAt' = cancelAt
  OBVIOUS
<1>5. cancelAt' = [cancelAt EXCEPT ![j] = cancelAt'[j]]
  OBVIOUS
<1> QED  BY <1>2, <1>3, <1>4, <1>5 DEF Lifecycle!Become, Lifecycle!lifeVars

LEMMA RunLivesTheLife ==
  ASSUME TypeOK, TypeOK', CancelInv, LeaseInv, NEW r \in Runs, RowSteps(r)
  PROVE  Lifecycle!LifeNext \/ UNCHANGED Lifecycle!lifeVars
<1> DEFINE j == run[r].job
<1>1. j \in Jobs /\ RowEffect(r, j)
  BY RunRowEffect
<1>2. cancelAt' = cancelAt /\ \A i \in Jobs \ {j} : Same(i)
  BY <1>1 DEF RowEffect
<1>3. run[r].stage \in InProgress /\ NextStage(run[r].stage) \in InProgress
  <2>1. run[r].stage \in InProgress
    BY DEF TypeOK, RunTypeOK, RunStates
  <2> QED  BY <2>1 DEF NextStage, InProgress
<1>4. leaseOwner[j] = Owner[r] => Owns(r)
  BY DEF Owns
<1>5. Leasing(r) /\ Owns(r) =>
        /\ status[j] \in InProgress \union {"cancel_requested"}
        /\ At(r, "cancelling") => cancelAt[j]
  BY DEF LeaseInv
<1> HIDE DEF j
<1>6. /\ Lifecycle!Become(j, Phase(status'[j]))
      /\ Phase(status'[j]) = Phase(status[j]) => UNCHANGED Lifecycle!lifeVars
  BY <1>1, <1>2, LifeOfOne DEF TypeOK, StoreTypeOK
<1>7. CASE Same(j)
  BY <1>6, <1>7 DEF Same
<1>8. CASE Takes(r, j)
  <2>1. Phase(status'[j]) = "running"
    BY <1>8, PhaseValues DEF Takes, InProgress
  <2>2. Phase(status[j]) \in {"waiting", "pausing", "running"}
    BY <1>8, PhaseValues DEF Takes, Leasable
  <2>3. CASE Phase(status[j]) = "running"
    BY <1>6, <2>1, <2>3
  <2>4. CASE Phase(status[j]) \in {"waiting", "pausing"}
    <3>1. Lifecycle!Begins(j)
      BY <1>1, <1>2, <1>6, <2>1, <2>4 DEF Lifecycle!Begins
    <3> QED  BY <1>1, <3>1 DEF Lifecycle!LifeNext
  <2> QED  BY <2>2, <2>3, <2>4
<1>9. CASE Advances(r, j)
  BY <1>3, <1>6, <1>9, PhaseValues DEF Advances
<1>10. CASE leaseOwner[j] = Owner[r] /\ Ends(r, j)
  <2>1. /\ status[j] \in InProgress \union {"cancel_requested"}
        /\ At(r, "cancelling") => cancelAt[j]
    BY <1>4, <1>5, <1>10 DEF Ends, Leasing, At
  <2>2. Phase(status[j]) \in {"running", "stopping"}
    BY <2>1, PhaseValues
  <2>3. CASE status[j] = "reconciling" /\ status'[j] = "succeeded"
    <3>1. ~cancelAt[j] /\ status[j] \in InProgress
      BY <1>1, <2>3 DEF CancelInv, Underway, InProgress
    <3>2. Phase(status[j]) = "running" /\ Phase(status'[j]) = "succeeded"
      BY <2>3, <3>1, PhaseValues
    <3>3. Lifecycle!Succeeds(j)
      BY <1>1, <1>2, <1>6, <3>1, <3>2 DEF Lifecycle!Succeeds
    <3> QED  BY <1>1, <3>3 DEF Lifecycle!LifeNext
  <2>4. CASE At(r, "cancelling") /\ status'[j] = "cancelled"
    <3>1. Phase(status'[j]) = "cancelled"
      BY <2>4, PhaseValues
    <3>2. Lifecycle!Cancels(j)
      BY <1>1, <1>2, <1>6, <2>1, <2>2, <2>4, <3>1 DEF Lifecycle!Cancels
    <3> QED  BY <1>1, <3>2 DEF Lifecycle!LifeNext
  <2>5. CASE status'[j] \in Failures
    <3>1. Phase(status'[j]) \in {"pausing", "failed"}
      BY <2>5, PhaseValues
    <3>2. Lifecycle!Fails(j)
      BY <1>1, <1>2, <1>6, <2>2, <3>1 DEF Lifecycle!Fails
    <3> QED  BY <1>1, <3>2 DEF Lifecycle!LifeNext
  <2> QED  BY <1>10, <2>3, <2>4, <2>5 DEF Ends
<1> QED  BY <1>1, <1>7, <1>8, <1>9, <1>10 DEF RowEffect

LEMMA ApiLivesTheLife ==
  ASSUME TypeOK, TypeOK', NEW j \in Jobs, ApiStep(j) \/ TimeStep(j)
  PROVE  Lifecycle!LifeNext \/ UNCHANGED Lifecycle!lifeVars
<1>1. ApiEffect(j)
  BY ApiRowEffect
<1>2. /\ Lifecycle!Become(j, Phase(status'[j]))
      /\ cancelAt'[j] = cancelAt[j] => cancelAt' = cancelAt
      /\ cancelAt' = [cancelAt EXCEPT ![j] = cancelAt'[j]]
      /\ Phase(status'[j]) = Phase(status[j]) /\ cancelAt'[j] = cancelAt[j]
           => UNCHANGED Lifecycle!lifeVars
  BY <1>1, LifeOfOne DEF ApiEffect, TypeOK, StoreTypeOK
<1>3. CASE Same(j)
  BY <1>2, <1>3 DEF Same
<1>4. CASE Creates(j)
  <2>1. Lifecycle!Submitted(j)
    BY <1>2, <1>4, PhaseValues DEF Creates, Lifecycle!Submitted
  <2> QED  BY <2>1 DEF Lifecycle!LifeNext
<1>5. CASE AsksToCancel(j)
  <2>1. Phase(status[j]) \in {"waiting", "running"} /\ Phase(status'[j]) = "stopping"
    BY <1>5, PhaseValues DEF AsksToCancel
  <2>2. Lifecycle!CancelAsked(j)
    BY <1>2, <1>5, <2>1 DEF AsksToCancel, Lifecycle!CancelAsked
  <2> QED  BY <2>2 DEF Lifecycle!LifeNext
<1>6. CASE Requeues(j)
  <2>1. Phase(status[j]) \in {"pausing", "failed"} /\ Phase(status'[j]) = "waiting"
    BY <1>6, PhaseValues DEF Requeues
  <2>2. Lifecycle!RetryAsked(j)
    BY <1>2, <1>6, <2>1 DEF Requeues, Lifecycle!RetryAsked
  <2> QED  BY <2>2 DEF Lifecycle!LifeNext
<1>7. CASE Restores(j)
  <2>1. Phase(status[j]) = "waiting" /\ Phase(status'[j]) \in {"pausing", "failed"}
    BY <1>7, PhaseValues DEF Restores
  <2>2. Lifecycle!RetryRefused(j)
    BY <1>2, <1>7, <2>1 DEF Restores, Lifecycle!RetryRefused
  <2> QED  BY <2>2 DEF Lifecycle!LifeNext
<1> QED  BY <1>1, <1>3, <1>4, <1>5, <1>6, <1>7 DEF ApiEffect

(* The rows live the life SyncJobLifecycle describes: statements that are  *)
(* fenced by the lease map to its steps, the stages of a run to stutters.  *)
THEOREM RowsLiveTheLifecycle ==
  ASSUME "lostAck" \notin Faults
  PROVE  Spec /\ []OwnersApart => ImplementsLifecycle
<1>1. Init => Lifecycle!LifeInit
  <2> SUFFICES ASSUME Init PROVE Lifecycle!LifeInit
    OBVIOUS
  <2>1. \A j \in Jobs : Phase(status[j]) = "absent"
    BY PhaseValues DEF Init, StoreInit
  <2> QED  BY <2>1 DEF Lifecycle!LifeInit, Init, StoreInit
<1>2. TypeOK /\ TypeOK' /\ CancelInv /\ LeaseInv /\ [Next]_vars
        => [Lifecycle!LifeNext]_(Lifecycle!lifeVars)
  <2> SUFFICES ASSUME TypeOK, TypeOK', CancelInv, LeaseInv, [Next]_vars
               PROVE  Lifecycle!LifeNext \/ UNCHANGED Lifecycle!lifeVars
    OBVIOUS
  <2>1. ASSUME UNCHANGED <<status, cancelAt>>
        PROVE  UNCHANGED Lifecycle!lifeVars
    BY <2>1 DEF Lifecycle!lifeVars
  <2>2. ASSUME NEW r \in Runs, RowSteps(r)
        PROVE  Lifecycle!LifeNext \/ UNCHANGED Lifecycle!lifeVars
    BY <2>2, RunLivesTheLife
  <2>3. ASSUME NEW r \in Runs,
               RunStep(r) \/ Heartbeat(r) \/ RunFault(r) \/ TakeJob(r), ~RowSteps(r)
        PROVE  UNCHANGED <<status, cancelAt>>
    BY <2>3, RowStays
  <2>4. ASSUME NEW j \in Jobs, ApiStep(j) \/ TimeStep(j)
        PROVE  Lifecycle!LifeNext \/ UNCHANGED Lifecycle!lifeVars
    BY <2>4, ApiLivesTheLife
  <2>5. (\E o \in Owners : Crash(o)) \/ Grow \/ UNCHANGED vars
          => UNCHANGED <<status, cancelAt>>
    BY DEF Crash, Grow, vars, rowVars
  <2> QED  BY <2>1, <2>2, <2>3, <2>4, <2>5 DEF Next
<1>3. Init => CancelInv /\ LeaseInv
  BY DEF Init, StoreInit, CancelInv, LeaseInv, SavesLast, MayStart, Leasing, At, IdleRun
<1>4. TypeOK /\ OwnersApart /\ CancelInv /\ LeaseInv /\ [Next]_vars
        => CancelInv' /\ LeaseInv'
  BY CancelStep, LeaseStep
<1> QED
  BY <1>1, <1>2, <1>3, <1>4, TypeCorrect, PTL
  DEF Spec, ImplementsLifecycle, Lifecycle!LifeSpec

-----------------------------------------------------------------------------
(* What a resumed attempt skips. *)

(* The records between a page cursor and the next one are the page's. *)
LEMMA PassedAreOnThePage ==
  ASSUME TypeOK, NEW j \in Jobs, NEW chk \in 0 .. MaxHead, NEW cur \in Cursors,
         NEW start, start = PageStart(j, chk, cur)
  PROVE  Passed(j, chk, cur) \subseteq start .. PageEnd(j, start)
<1> USE SyncJobsAssumption, DataAssumption
<1> DEFINE first == WindowStart(j, chk)
           next  == NextCursor(j, chk, cur)
           end   == WindowEnd(j)
<1>1. first \in Nat \ {0} /\ end \in 0 .. MaxHead /\ start \in Nat \ {0}
  BY FetchTypes DEF TypeOK
<1>2. start = IF OffsetCursor THEN first + cur ELSE IF cur < first THEN first ELSE cur
  BY DEF PageStart, Larger
<1>3. next = IF \/ start + PageSize <= end
                \/ OffsetCursor /\ ~CountsPages /\ start + PageSize - 1 = end
             THEN IF OffsetCursor THEN start + PageSize - first ELSE start + PageSize
             ELSE IF MoreStreams /\ cur # NextStream THEN NextStream ELSE 0
  BY DEF NextCursor, HasNextPage
<1>4. PageEnd(j, start) = IF start + PageSize - 1 < end THEN start + PageSize - 1 ELSE end
  BY DEF PageEnd, Smaller
<1>5. PageStart(j, chk, next) =
        IF OffsetCursor THEN first + next ELSE IF next < first THEN first ELSE next
  BY DEF PageStart, Larger
<1>6. cur \in Nat
  BY DEF Cursors, NextStream
<1>7. Passed(j, chk, cur) =
        {p \in Positions : /\ start <= p
                           /\ p <= IF next \in {0, NextStream} THEN PageEnd(j, start)
                                   ELSE PageStart(j, chk, next) - 1}
  BY DEF Passed
<1> HIDE DEF first, next, end
<1>8. CASE next \in {0, NextStream}
  BY <1>7, <1>8, <1>1, <1>4 DEF Positions
<1>9. CASE next \notin {0, NextStream}
  <2>1. /\ start + PageSize - 1 <= end
        /\ next = IF OffsetCursor THEN start + PageSize - first ELSE start + PageSize
    <3>1. ~(\/ start + PageSize <= end
            \/ OffsetCursor /\ ~CountsPages /\ start + PageSize - 1 = end)
            => next \in {0, NextStream}
      BY <1>3
    <3> QED  BY <1>1, <1>3, <1>9, <3>1
  <2>2. PageStart(j, chk, next) = start + PageSize
    <3>1. CASE OffsetCursor
      BY <1>1, <1>5, <2>1, <3>1
    <3>2. CASE ~OffsetCursor
      BY <1>1, <1>2, <1>5, <1>6, <2>1, <3>2
    <3> QED  BY <3>1, <3>2
  <2>3. PageEnd(j, start) = start + PageSize - 1
    BY <1>1, <1>4, <2>1
  <2> QED  BY <1>1, <1>7, <1>9, <2>2, <2>3 DEF Positions
<1> QED  BY <1>8, <1>9

(* Other runs only take rows away from a run's batch, and canonical_records *)
(* only grows.                                                              *)
LEMMA BatchesShrink ==
  ASSUME TypeOK, NEW r \in Runs,
         RunStep(r) \/ Heartbeat(r) \/ RunFault(r) \/ TakeJob(r)
  PROVE  /\ canonical \subseteq canonical'
         /\ \A s \in Runs \ {r} : BatchRows(s)' \subseteq BatchRows(s)
         /\ ~Persist(r) => BatchRows(r)' = BatchRows(r)
         /\ ~WriteCanonical(r) => canonical' = canonical
<1>1. CASE Persist(r)
  <2>1. canonical' = canonical
    BY <1>1 DEF Persist, PersistFetchedPage
  <2>2. \A p \in Positions : batchOf'[p] \in {r, NoRun, batchOf[p]}
    BY <1>1 DEF Persist, PersistFetchedPage
  <2>3. \A s \in Runs \ {r} : BatchRows(s)' \subseteq BatchRows(s)
    BY <2>2, SyncJobsAssumption DEF BatchRows
  <2> QED  BY <1>1, <2>1, <2>3
<1>2. CASE ~Persist(r)
  <2>1. batchOf' = batchOf
    BY <1>2 DEF RunStep, RunFault, Lease, NotLeased, CheckCancel, Cancel,
       ReadCheckpoint, ReadResumePageCursor, Transition, Fetch, Normalize,
       NormalizeBatch, WriteCanonical, WriteCanonicalRecords, Reconcile,
       WriteReconciliation, WriteResume, Finalize, RecordFailure, Report, Heartbeat,
       Throw, ThrowUnrecorded, RenewalThrows, LoseAck, TakeJob, dataVars
  <2>2. ~WriteCanonical(r) => canonical' = canonical
    BY <1>2 DEF RunStep, RunFault, Lease, NotLeased, CheckCancel, Cancel,
       ReadCheckpoint, ReadResumePageCursor, Transition, Fetch, Normalize,
       NormalizeBatch, Reconcile,
       WriteReconciliation, WriteResume, Finalize, RecordFailure, Report, Heartbeat,
       Throw, ThrowUnrecorded, RenewalThrows, LoseAck, TakeJob, dataVars
  <2>3. WriteCanonical(r) => canonical \subseteq canonical'
    BY DEF WriteCanonical, WriteCanonicalRecords
  <2> QED  BY <1>2, <2>1, <2>2, <2>3 DEF BatchRows
<1> QED  BY <1>1, <1>2

LEMMA StillWritten ==
  ASSUME NEW s, NEW B, NEW A \in SUBSET B, NEW C, NEW D, C \subseteq D,
         PagesWritten(s, B, C)
  PROVE  PagesWritten(s, A, D)
  BY DEF PagesWritten

(* The locals that PagesWritten looks at. *)
LEMMA SamePages ==
  ASSUME NEW s, NEW t, NEW B, NEW C,
         t.done = s.done, t.first = s.first, t.last = s.last, t.can = s.can,
         BetweenPages(t) => BetweenPages(s),
         Batched(t) => Batched(s),
         Counted(t) => Counted(s),
         PagesWritten(s, B, C)
  PROVE  PagesWritten(t, B, C)
  BY DEF PagesWritten

LEMMA NothingInHand ==
  ASSUME NEW t, NEW B, NEW C, t.done = {}, t.stage = "leased"
  PROVE  PagesWritten(t, B, C)
  BY DEF PagesWritten, Batched, Counted

(* Equal counts of the page and of its canonical rows: all of it is there. *)
LEMMA CountedIsWritten ==
  ASSUME NEW first \in Nat, NEW last \in Nat, NEW B, NEW N,
         B \subseteq first .. last,
         Cardinality(B \intersect N) = Cardinality(first .. last)
  PROVE  first .. last \subseteq B \intersect N
<1>1. IsFiniteSet(first .. last)
  BY FS_Interval
<1>2. B \intersect N \subseteq first .. last
  OBVIOUS
<1> QED  BY <1>1, <1>2, FS_Subset

LEMMA RunKeepsPages ==
  ASSUME TypeOK, ResumeInv, NEW r \in Runs,
         RunStep(r) \/ Heartbeat(r) \/ RunFault(r) \/ TakeJob(r)
  PROVE  PagesWritten(run'[r], BatchRows(r)', canonical')
<1> DEFINE me == run[r]
<1>1. me \in RunStates /\ PagesWritten(me, BatchRows(r), canonical)
  BY DEF TypeOK, RunTypeOK, ResumeInv
<1>2. me.pc \in {"resume", "finalize"} => me.stage = "reconciling"
  BY DEF ResumeInv, SavesLast
<1> USE DEF At, Working
<1>3. ASSUME NEW b \in BOOLEAN, Fail(r, b)
      PROVE  PagesWritten(run'[r], BatchRows(r)', canonical')
  BY <1>3, FailMoves, NothingInHand
<1>4. ASSUME NEW pc \in {"return", "rethrow"}, Leave(r, pc)
      PROVE  PagesWritten(run'[r], BatchRows(r)', canonical')
  BY <1>4, LeaveMoves, NothingInHand
<1>5. ASSUME ~Persist(r), PagesWritten(run'[r], BatchRows(r), canonical)
      PROVE  PagesWritten(run'[r], BatchRows(r)', canonical')
  BY <1>5, BatchesShrink, StillWritten
<1>6. ASSUME run'[r].done = me.done, run'[r].first = me.first,
             run'[r].last = me.last, run'[r].can = me.can,
             BetweenPages(run'[r]) => BetweenPages(me),
             Batched(run'[r]) => Batched(me),
             Counted(run'[r]) => Counted(me), ~Persist(r)
      PROVE  PagesWritten(run'[r], BatchRows(r)', canonical')
  BY <1>1, <1>5, <1>6, SamePages
<1> USE DEF BetweenPages, Batched, Counted
<1>7. CASE NotLeased(r) \/ Cancel(r) \/ RecordFailure(r) \/ ThrowUnrecorded(r)
  BY <1>4, <1>7 DEF NotLeased, Cancel, RecordFailure, ThrowUnrecorded
<1>8. CASE Throw(r)
  BY <1>3, <1>8 DEF Throw
<1>9. CASE LoseAck(r)
  BY <1>3, <1>4, <1>9 DEF LoseAck
<1>10. CASE Report(r)
  <2>1. run'[r] = IdleRun
    BY <1>10, Becomes DEF Report
  <2> QED  BY <2>1, NothingInHand DEF IdleRun
<1>11. CASE TakeJob(r)
  <2>1. PICK j \in Jobs : run'[r] = [IdleRun EXCEPT !.pc = "lease", !.job = j,
                                                   !.attempt = made[j] + 1]
    BY <1>11, Becomes DEF TakeJob
  <2>2. run'[r].done = {} /\ run'[r].stage = "leased"
    BY <2>1 DEF IdleRun
  <2> QED  BY <2>2, NothingInHand
<1>12. CASE Lease(r) \/ CheckCancel(r)
  <2>1. \E pc \in {"check", "cancelling", "checkpoint", "transition"} : Goto(r, pc)
    BY <1>12 DEF Lease, CheckCancel
  <2>2. /\ run'[r].done = me.done /\ run'[r].first = me.first
        /\ run'[r].last = me.last /\ run'[r].can = me.can
        /\ run'[r].stage = me.stage /\ run'[r].pc # "work"
    BY <2>1, GotoMoves
  <2>3. me.pc # "work" /\ ~Persist(r)
    BY <1>12 DEF Lease, CheckCancel, Persist
  <2> QED  BY <1>6, <2>2, <2>3
<1>13. CASE Heartbeat(r) \/ RenewalThrows(r)
  <2>1. /\ run'[r].done = me.done /\ run'[r].first = me.first
        /\ run'[r].last = me.last /\ run'[r].can = me.can
        /\ run'[r].stage = me.stage /\ run'[r].pc = me.pc
    BY <1>13, QuietMoves, BeatMoves
  <2>2. Persist(r) => run'[r].pc = "check" /\ me.pc = "work"
    BY GotoMoves DEF Persist
  <2> QED  BY <1>6, <2>1, <2>2
<1>14. CASE ReadCheckpoint(r) \/ Normalize(r) \/ WriteResume(r)
  <2>1. /\ run'[r].done = me.done /\ run'[r].first = me.first
        /\ run'[r].last = me.last /\ run'[r].can = me.can
        /\ run'[r].stage = me.stage
    BY <1>14, QuietMoves
  <2>2. /\ \/ me.pc # "work" /\ run'[r].pc # "work"
           \/ me.stage = "normalizing"
        /\ ~Persist(r)
    BY <1>14, QuietMoves DEF ReadCheckpoint, Normalize, WriteResume, Persist
  <2> QED  BY <1>6, <2>1, <2>2
<1>15. CASE ReadResumePageCursor(r)
  <2>1. /\ run'[r].done = skipped[me.job] /\ run'[r].first = me.first
        /\ run'[r].last = me.last /\ run'[r].can = me.can
        /\ run'[r].stage = me.stage /\ run'[r].pc # "work" /\ me.pc # "work"
        /\ me.pc # "idle"
    BY <1>15, CursorMoves DEF ReadResumePageCursor
  <2>2. skipped[me.job] \subseteq canonical /\ ~Persist(r)
    BY <2>1, LiveRun DEF ResumeInv, ResumeCoversCanonical, Persist, Live, TypeOK
  <2>3. PagesWritten(run'[r], BatchRows(r), canonical)
    BY <1>1, <2>1, <2>2 DEF PagesWritten
  <2> QED  BY <1>5, <2>2, <2>3
<1>16. CASE Transition(r)
  <2>1. CASE Fail(r, TRUE)
    BY <1>3, <2>1
  <2>2. CASE ~Fail(r, TRUE)
    <3>1. /\ run'[r].done = me.done /\ run'[r].first = me.first
          /\ run'[r].last = me.last /\ run'[r].can = me.can
          /\ run'[r].stage = NextStage(me.stage) /\ run'[r].pc = "work"
      BY <1>16, <2>2, TransitionMoves
    <3>2. me.pc = "transition" /\ me.stage \in InProgress /\ ~Persist(r)
      BY <1>1, <1>16 DEF Transition, RunStates, Persist
    <3>3. /\ BetweenPages(run'[r]) => BetweenPages(me)
          /\ Batched(run'[r]) => Batched(me)
          /\ Counted(run'[r]) => Counted(me)
      BY <3>1, <3>2 DEF NextStage, InProgress
    <3> QED  BY <1>6, <3>1, <3>2, <3>3
  <2> QED  BY <2>1, <2>2
<1>17. CASE Fetch(r)
  <2>1. CASE Fail(r, TRUE)
    BY <1>3, <2>1
  <2>2. CASE ~Fail(r, TRUE)
    <3> DEFINE j == me.job
               start == PageStart(j, me.chk, me.cur)
    <3>1. me.pc = "work" /\ me.stage = "fetching" /\ ~Persist(r)
      BY <1>17 DEF Fetch, Persist
    <3>2. /\ run'[r].done = me.done \union Passed(j, me.chk, me.cur)
          /\ run'[r].first = start /\ run'[r].last = PageEnd(j, start)
          /\ run'[r].stage = "fetching" /\ run'[r].pc = "check"
      BY <1>17, <2>2, <3>1, FetchMoves
    <3>3. j \in Jobs /\ me.chk \in 0 .. MaxHead /\ me.cur \in Cursors
      BY <1>1, <3>1, LiveRun DEF Live, RunStates, TypeOK
    <3>4. Passed(j, me.chk, me.cur) \subseteq start .. PageEnd(j, start)
      BY <3>3, PassedAreOnThePage
    <3>5. me.done \subseteq canonical
      BY <1>1, <3>1 DEF PagesWritten
    <3> HIDE DEF start, j
    <3>6. PagesWritten(run'[r], BatchRows(r), canonical)
      BY <3>2, <3>4, <3>5 DEF PagesWritten
    <3> QED  BY <1>5, <3>1, <3>6
  <2> QED  BY <2>1, <2>2
<1>18. CASE Persist(r)
  <2>1. /\ run'[r].done = me.done /\ run'[r].first = me.first
        /\ run'[r].last = me.last /\ run'[r].stage = "persisting_source"
        /\ run'[r].pc = "check"
    BY <1>18, GotoMoves DEF Persist
  <2>2. canonical' = canonical /\ BatchRows(r)' \subseteq me.first .. me.last
    BY <1>18, SyncJobsAssumption DEF Persist, PersistFetchedPage, BatchRows, Page
  <2> QED  BY <1>1, <2>1, <2>2 DEF PagesWritten
<1>19. CASE WriteCanonical(r)
  <2>1. /\ run'[r].done = me.done /\ run'[r].first = me.first
        /\ run'[r].last = me.last /\ run'[r].can = Cardinality(CanonicalRows(r))
        /\ run'[r].stage = me.stage /\ run'[r].pc = "check"
    BY <1>19, CanonicalMoves
  <2>2. /\ me.stage = "writing_canonical" /\ me.pc = "work"
        /\ canonical' = canonical \union CanonicalRows(r)
    BY <1>19 DEF WriteCanonical, WriteCanonicalRecords
  <2>3. BatchRows(r) \subseteq me.first .. me.last
    BY <1>1, <2>2 DEF PagesWritten
  <2>4. me.first \in Nat /\ me.last \in Nat
    BY <1>1 DEF RunStates
  <2>5. run'[r].can = Cardinality(me.first .. me.last)
          => me.first .. me.last \subseteq CanonicalRows(r)
    BY <2>1, <2>3, <2>4, CountedIsWritten DEF CanonicalRows
  <2> QED  BY <1>1, <2>1, <2>2, <2>5 DEF PagesWritten
<1>20. CASE Reconcile(r)
  <2>1. CASE Fail(r, TRUE)
    BY <1>3, <2>1
  <2>2. CASE ~Fail(r, TRUE)
    <3>1. /\ CountsAgree(r) /\ me.stage = "reconciling" /\ me.pc = "work"
          /\ Goto(r, "finalize") \/ Goto(r, "resume")
      BY <1>20, <2>2 DEF Reconcile
    <3>2. /\ run'[r].done = me.done /\ run'[r].first = me.first
          /\ run'[r].last = me.last
          /\ run'[r].stage = "reconciling" /\ run'[r].pc # "work"
      BY <3>1, GotoMoves
    <3>3. me.first .. me.last \subseteq canonical
      BY <1>1, <3>1 DEF PagesWritten, CountsAgree, Page
    <3>4. me.done \subseteq canonical
      BY <1>1, <3>3 DEF PagesWritten
    <3>5. PagesWritten(run'[r], BatchRows(r), canonical) /\ ~Persist(r)
      BY <3>1, <3>2, <3>4 DEF PagesWritten, Persist
    <3> QED  BY <1>5, <3>5
  <2> QED  BY <2>1, <2>2
<1>21. CASE Finalize(r)
  BY <1>3, <1>4, <1>21 DEF Finalize
<1> QED  BY <1>7, <1>8, <1>9, <1>10, <1>11, <1>12, <1>13, <1>14, <1>15, <1>16, <1>17,
            <1>18, <1>19, <1>20, <1>21 DEF RunStep, RunFault

LEMMA ResumeStep ==
  ASSUME TypeOK, ResumeInv, [Next]_vars
  PROVE  ResumeInv'
<1>1. SavesLast'
  BY SavesLastStep DEF ResumeInv
<1>2. ASSUME NEW r \in Runs,
             RunStep(r) \/ Heartbeat(r) \/ RunFault(r) \/ TakeJob(r)
      PROVE  ResumeInv'
  <2>1. canonical \subseteq canonical'
    BY <1>2, BatchesShrink
  <2>2. ASSUME NEW s \in Runs
        PROVE  PagesWritten(run'[s], BatchRows(s)', canonical')
    <3>1. CASE s = r
      BY <1>2, <3>1, RunKeepsPages
    <3>2. CASE s # r
      <4>1. run'[s] = run[s] /\ BatchRows(s)' \subseteq BatchRows(s)
        BY <1>2, <3>2, OthersStay, BatchesShrink
      <4>2. PagesWritten(run[s], BatchRows(s), canonical)
        BY DEF ResumeInv
      <4> QED  BY <2>1, <4>1, <4>2, StillWritten
    <3> QED  BY <3>1, <3>2
  <2>3. ASSUME NEW j \in Jobs
        PROVE  skipped'[j] \subseteq canonical
    <3>1. skipped[j] \subseteq canonical
      BY DEF ResumeInv, ResumeCoversCanonical
    <3>2. CASE WriteResume(r)
      <4>1. run[r].done \subseteq canonical
        <5>1. run[r].pc = "resume" /\ run[r].stage = "reconciling"
          BY <3>2 DEF WriteResume, At, ResumeInv, SavesLast
        <5> QED  BY <5>1 DEF ResumeInv, PagesWritten, BetweenPages
      <4>2. skipped'[j] = run[r].done \/ skipped'[j] = skipped[j]
        BY <3>2 DEF WriteResume, TypeOK, CallTypeOK
      <4> QED  BY <3>1, <4>1, <4>2
    <3>3. CASE ~WriteResume(r)
      <4>1. skipped' = skipped
        BY <1>2, <3>3 DEF RunStep, RunFault, Lease, NotLeased, CheckCancel, Cancel,
           ReadCheckpoint, ReadResumePageCursor, Transition, Fetch, Persist,
           Normalize, WriteCanonical, Reconcile, Finalize, RecordFailure, Report,
           Heartbeat, Throw, ThrowUnrecorded, RenewalThrows, LoseAck, TakeJob
      <4> QED  BY <3>1, <4>1
    <3> QED  BY <3>2, <3>3
  <2> QED  BY <1>1, <2>1, <2>2, <2>3 DEF ResumeInv, ResumeCoversCanonical
<1>3. ASSUME UNCHANGED <<batchOf, canonical, skipped>>,
             \A s \in Runs : run'[s] = run[s] \/ run'[s] = IdleRun
      PROVE  ResumeInv'
  <2>1. \A s \in Runs : BatchRows(s)' = BatchRows(s)
    BY <1>3 DEF BatchRows
  <2>2. \A s \in Runs : PagesWritten(IdleRun, BatchRows(s), canonical)
    BY NothingInHand DEF IdleRun
  <2>3. \A s \in Runs : PagesWritten(run'[s], BatchRows(s), canonical)
    BY <1>3, <2>2 DEF ResumeInv
  <2> QED  BY <1>1, <1>3, <2>1, <2>3 DEF ResumeInv, ResumeCoversCanonical
<1>4. ASSUME NEW j \in Jobs, ApiStep(j) \/ TimeStep(j)
      PROVE  UNCHANGED <<batchOf, canonical, skipped, run>>
  BY <1>4 DEF ApiStep, TimeStep, Submit, Enqueue, RequestCancel, PrepareRetry,
     QueueRetry, QueueRetryUnacknowledged, AbortRetry, LeaseExpires,
     DeliveryStalls, BackoffEnds, localVars, dataVars
<1>5. ASSUME NEW o \in Owners, Crash(o)
      PROVE  ResumeInv'
  BY <1>3, <1>5 DEF Crash, dataVars
<1>6. Grow \/ UNCHANGED vars => ResumeInv'
  BY <1>3 DEF Grow, Produce, vars, dataVars, localVars
<1> QED  BY <1>2, <1>3, <1>4, <1>5, <1>6 DEF Next

(* The pages below a resume cursor are in canonical_records, whoever wrote *)
(* the cursor and whatever other runs did to the same rows: the counts a   *)
(* run compares may be spoilt by a run that takes its rows into a batch of *)
(* its own, but then they do not agree, and equal counts mean the page.    *)
THEOREM ResumesSkipWhatIsWritten == Spec => []ResumeCoversCanonical
<1>1. Init => ResumeInv
  <2> SUFFICES ASSUME Init PROVE ResumeInv
    OBVIOUS
  <2>1. \A r \in Runs : PagesWritten(run[r], BatchRows(r), canonical)
    BY NothingInHand DEF Init, IdleRun
  <2> QED
    BY <2>1 DEF Init, ResumeInv, SavesLast, IdleRun, ResumeCoversCanonical
<1>2. TypeOK /\ ResumeInv /\ [Next]_vars => ResumeInv'
  BY ResumeStep
<1>3. ResumeInv => ResumeCoversCanonical
  BY DEF ResumeInv
<1> QED  BY <1>1, <1>2, <1>3, TypeCorrect, PTL DEF Spec

=============================================================================
