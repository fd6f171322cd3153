--------------------------- MODULE IngestionTypes ---------------------------
(***************************************************************************)
(* Type correctness of integration ingestion, for any number of jobs, runs *)
(* and records and any mix of faults.  Each table, and the runs' locals,   *)
(* has a lemma of its own: every step either applies one of the operators  *)
(* of its module or leaves it alone.                                       *)
(***************************************************************************)
EXTENDS IngestionProperties, FiniteSetTheorems, TLAPS

-----------------------------------------------------------------------------
(* The job row. *)

(* Each statement on the row writes values of the row's types. *)
LEMMA StoreOperators ==
  ASSUME StoreTypeOK, NEW j \in Jobs, NEW o \in Owners, NEW f \in Failures,
         NEW from \in InProgress, NEW to \in InProgress, NEW c \in Cursors,
         \/ AcquireLease(j, o) \/ RenewLease(j, o) \/ LapseLease(j)
         \/ TransitionJobState(j, o, from, to)
         \/ WriteResumePageCursor(j, o, c)
         \/ FinalizeSucceeded(j, o) \/ MarkCancelled(j, o) \/ MarkFailed(j, o, f)
         \/ CreateJob(j) \/ MarkJobCancelled(j)
         \/ RequeueFailedJob(j) \/ RestoreFailure(j, f)
         \/ UNCHANGED rowVars
  PROVE  StoreTypeOK'
<1> USE DEF StoreTypeOK, Statuses, InProgress, Failures
<1>1. CASE AcquireLease(j, o)  BY <1>1 DEF AcquireLease
<1>2. CASE RenewLease(j, o)  BY <1>2 DEF RenewLease
<1>3. CASE LapseLease(j)  BY <1>3 DEF LapseLease
<1>4. CASE TransitionJobState(j, o, from, to)  BY <1>4 DEF TransitionJobState
<1>5. CASE WriteResumePageCursor(j, o, c)  BY <1>5 DEF WriteResumePageCursor
<1>6. CASE FinalizeSucceeded(j, o)  BY <1>6 DEF FinalizeSucceeded
<1>7. CASE MarkCancelled(j, o)  BY <1>7 DEF MarkCancelled
<1>8. CASE MarkFailed(j, o, f)  BY <1>8 DEF MarkFailed
<1>9. CASE CreateJob(j)  BY <1>9 DEF CreateJob
<1>10. CASE MarkJobCancelled(j)  BY <1>10 DEF MarkJobCancelled
<1>11. CASE RequeueFailedJob(j)  BY <1>11 DEF RequeueFailedJob
<1>12. CASE RestoreFailure(j, f)  BY <1>12 DEF RestoreFailure
<1>13. CASE UNCHANGED rowVars  BY <1>13 DEF rowVars
<1> QED  BY <1>1, <1>2, <1>3, <1>4, <1>5, <1>6, <1>7, <1>8, <1>9, <1>10,
            <1>11, <1>12, <1>13

(* The types of a live run's locals, which the statements are called with. *)
LEMMA LiveRun ==
  ASSUME RunTypeOK, NEW r \in Runs, Live(r)
  PROVE  /\ run[r].job \in Jobs
         /\ run[r].stage \in InProgress
         /\ NextStage(run[r].stage) \in InProgress
         /\ run[r].next \in Cursors
         /\ run[r].nextCk \in 0 .. MaxHead
         /\ Verdict(r) \in Failures
         /\ Owner[r] \in Owners
<1>1. run[r].job \in Jobs  BY DEF RunTypeOK
<1>2. run[r] \in RunStates  BY DEF RunTypeOK
<1>3. run[r].stage \in InProgress  BY <1>2 DEF RunStates
<1>4. NextStage(run[r].stage) \in InProgress
  BY <1>3 DEF InProgress, NextStage
<1>5. run[r].next \in Cursors /\ run[r].nextCk \in 0 .. MaxHead
  BY <1>2 DEF RunStates
<1>6. Verdict(r) \in Failures  BY DEF Verdict, Failures
<1>7. Owner[r] \in Owners  BY PipelineAssumption
<1> QED  BY <1>1, <1>3, <1>4, <1>5, <1>6, <1>7

LEMMA StoreStep ==
  ASSUME TypeOK, [Next]_vars
  PROVE  StoreTypeOK'
<1> USE DEF TypeOK
<1>1. CASE UNCHANGED rowVars
  BY <1>1 DEF StoreTypeOK, rowVars
<1>2. ASSUME NEW r \in Runs, RunStep(r) \/ Heartbeat(r) \/ RunFault(r)
      PROVE  StoreTypeOK'
  <2>1. CASE UNCHANGED rowVars  BY <2>1, <1>1
  <2>2. CASE Live(r)
    <3> DEFINE j == run[r].job
               o == Owner[r]
    <3>1. \/ AcquireLease(j, o) \/ RenewLease(j, o)
          \/ TransitionJobState(j, o, run[r].stage, NextStage(run[r].stage))
          \/ WriteResumePageCursor(j, o, run[r].next)
          \/ FinalizeSucceeded(j, o) \/ MarkCancelled(j, o)
          \/ MarkFailed(j, o, Verdict(r))
          \/ UNCHANGED rowVars
      BY <1>2 DEF RunStep, RunFault, Lease, NotLeased, CheckCancel, Cancel,
         ReadCheckpoint, ReadResumePageCursor, Transition, Fetch, Persist,
         Normalize, WriteCanonical, Reconcile, WriteResume, Finalize,
         RecordFailure, Report, Heartbeat, Throw, ThrowUnrecorded, RenewalThrows,
         LoseAck
    <3> HIDE DEF j, o
    <3> QED  BY <2>2, <3>1, LiveRun, StoreOperators DEF j, o
  <2>3. ~Live(r) => UNCHANGED rowVars
    BY <1>2 DEF RunStep, RunFault, Lease, NotLeased, CheckCancel, Cancel,
       ReadCheckpoint, ReadResumePageCursor, Transition, Fetch, Persist,
       Normalize, WriteCanonical, Reconcile, WriteResume, Finalize,
       RecordFailure, Report, Heartbeat, Throw, ThrowUnrecorded, RenewalThrows,
       LoseAck,
       At, Working, Live, Leasing
  <2> QED  BY <2>1, <2>2, <2>3
<1>3. ASSUME NEW j \in Jobs, ApiStep(j) \/ TimeStep(j)
      PROVE  StoreTypeOK'
  <2>1. \/ LapseLease(j) \/ CreateJob(j) \/ MarkJobCancelled(j)
        \/ RequeueFailedJob(j)
        \/ retrying[j] # "none" /\ RestoreFailure(j, retrying[j])
        \/ UNCHANGED rowVars
    BY <1>3 DEF ApiStep, TimeStep, Submit, Enqueue, RequestCancel, PrepareRetry,
       QueueRetry, QueueRetryUnacknowledged, AbortRetry, LeaseExpires,
       DeliveryStalls, BackoffEnds
  <2>2. retrying[j] # "none" => retrying[j] \in Failures
    BY DEF CallTypeOK
  <2>3. CASE retrying[j] # "none" /\ RestoreFailure(j, retrying[j])
    BY <2>2, <2>3 DEF RestoreFailure, StoreTypeOK, Statuses
  <2>4. CASE MarkJobCancelled(j)
    BY <2>4 DEF MarkJobCancelled, StoreTypeOK, Statuses
  <2>5. CASE LapseLease(j) \/ CreateJob(j) \/ RequeueFailedJob(j)
    BY <2>5 DEF LapseLease, CreateJob, RequeueFailedJob, StoreTypeOK, Statuses
  <2> QED  BY <2>1, <2>3, <2>4, <2>5, <1>1
<1>4. (\E r \in Runs : TakeJob(r)) \/ (\E o \in Owners : Crash(o)) \/ Grow
        => UNCHANGED rowVars
  BY DEF TakeJob, Crash, Grow
<1> QED  BY <1>1, <1>2, <1>3, <1>4 DEF Next, vars

-----------------------------------------------------------------------------
(* The queue. *)

LEMMA QueueStep ==
  ASSUME TypeOK, [Next]_vars
  PROVE  QueueTypeOK'
<1> USE QueueAssumption, SyncJobsAssumption DEF TypeOK, QueueTypeOK, QueueStates
<1>1. CASE UNCHANGED queueVars
  BY <1>1 DEF queueVars
<1>2. ASSUME NEW j \in Jobs, NEW r \in Runs,
             \/ Add(j) \/ Deliver(j, r) \/ Complete(j, r) \/ FailAttempt(j, r)
             \/ Promote(j) \/ Stall(j) \/ RetryFailed(j)
      PROVE  QueueTypeOK'
  <2>1. CASE Add(j)  BY <2>1 DEF Add
  <2>2. CASE Deliver(j, r)  BY <2>2 DEF Deliver
  <2>3. CASE Complete(j, r)  BY <2>3 DEF Complete
  <2>4. CASE FailAttempt(j, r)  BY <2>4 DEF FailAttempt, queueVars
  <2>5. CASE Promote(j)  BY <2>5 DEF Promote
  <2>6. CASE Stall(j)  BY <2>6 DEF Stall
  <2>7. CASE RetryFailed(j)  BY <2>7 DEF RetryFailed
  <2> QED  BY <1>2, <2>1, <2>2, <2>3, <2>4, <2>5, <2>6, <2>7
<1>3. ASSUME NEW o \in Owners, Crash(o)
      PROVE  QueueTypeOK'
  BY <1>3 DEF Crash, Orphan
<1>4. ASSUME NEW r \in Runs, Report(r)
      PROVE  QueueTypeOK'
  <2>1. run[r].job \in Jobs
    BY <1>4, LiveRun DEF Report, At, Live
  <2> QED  BY <1>2, <1>4, <2>1 DEF Report
<1>5. ASSUME NEW r \in Runs, TakeJob(r)
      PROVE  QueueTypeOK'
  BY <1>2, <1>5 DEF TakeJob
<1>6. ASSUME NEW j \in Jobs, ApiStep(j) \/ TimeStep(j)
      PROVE  QueueTypeOK'
  <2>1. \/ Add(j) \/ Promote(j) \/ Stall(j) \/ RetryFailed(j)
        \/ UNCHANGED queueVars
    BY <1>6 DEF ApiStep, TimeStep, Submit, Enqueue, RequestCancel, PrepareRetry,
       QueueRetry, QueueRetryUnacknowledged, AbortRetry, LeaseExpires,
       DeliveryStalls, BackoffEnds
  <2>2. CASE Add(j)  BY <2>2 DEF Add
  <2>3. CASE Promote(j)  BY <2>3 DEF Promote
  <2>4. CASE Stall(j)  BY <2>4 DEF Stall
  <2>5. CASE RetryFailed(j)  BY <2>5 DEF RetryFailed
  <2> QED  BY <1>1, <2>1, <2>2, <2>3, <2>4, <2>5
<1>7. ASSUME NEW r \in Runs,
             (RunStep(r) /\ ~Report(r)) \/ Heartbeat(r) \/ RunFault(r)
      PROVE  UNCHANGED queueVars
  BY <1>7 DEF RunStep, RunFault, Lease, NotLeased, CheckCancel, Cancel,
     ReadCheckpoint, ReadResumePageCursor, Transition, Fetch, Persist,
     Normalize, WriteCanonical, Reconcile, WriteResume, Finalize,
     RecordFailure, Heartbeat, Throw, ThrowUnrecorded, RenewalThrows,
     LoseAck
<1> QED  BY <1>1, <1>3, <1>4, <1>5, <1>6, <1>7 DEF Next, Grow, vars

-----------------------------------------------------------------------------
(* The records. *)

LEMMA CountsAreNatural ==
  ASSUME NEW S \in SUBSET Positions
  PROVE  Cardinality(S) \in Nat
<1>1. IsFiniteSet(Positions)
  BY FS_Interval, SyncJobsAssumption DEF Positions
<1> QED  BY <1>1, FS_Subset, FS_CardinalityType

LEMMA DataStep ==
  ASSUME TypeOK, [Next]_vars
  PROVE  DataTypeOK'
<1> USE SyncJobsAssumption DEF TypeOK, DataTypeOK
<1>1. CASE UNCHANGED dataVars
  BY <1>1 DEF dataVars
<1>2. ASSUME NEW r \in Runs, Persist(r)
      PROVE  DataTypeOK'
  <2>1. run[r] \in RunStates  BY DEF RunTypeOK
  <2>2. Page(r) \in SUBSET Positions
    BY <2>1 DEF Page, Positions, RunStates
  <2>3. run[r].nextCk \in 0 .. MaxHead
    BY <2>1 DEF RunStates
  <2> QED  BY <1>2, <2>2, <2>3 DEF Persist, PersistFetchedPage
<1>3. ASSUME NEW r \in Runs, Normalize(r) \/ WriteCanonical(r)
      PROVE  DataTypeOK'
  BY <1>3 DEF Normalize, WriteCanonical, NormalizeBatch, WriteCanonicalRecords,
     BatchRows, CanonicalRows
<1>4. ASSUME NEW r \in Runs, Reconcile(r)
      PROVE  DataTypeOK'
  <2>1. run[r].job \in Jobs
    BY <1>4, LiveRun DEF Reconcile, Working, At, Live
  <2> QED  BY <1>4, <2>1 DEF Reconcile, WriteReconciliation
<1>5. CASE Grow
  BY <1>5 DEF Grow, Produce
<1>6. ASSUME NEW r \in Runs,
             \/ /\ RunStep(r)
                /\ ~Persist(r) /\ ~Normalize(r) /\ ~WriteCanonical(r)
                /\ ~Reconcile(r)
             \/ Heartbeat(r) \/ RunFault(r) \/ TakeJob(r)
      PROVE  UNCHANGED dataVars
  BY <1>6 DEF RunStep, RunFault, Lease, NotLeased, CheckCancel, Cancel,
     ReadCheckpoint, ReadResumePageCursor, Transition, Fetch, WriteResume,
     Finalize, RecordFailure, Report, Heartbeat, Throw, ThrowUnrecorded,
     RenewalThrows, LoseAck, TakeJob
<1>7. ASSUME NEW j \in Jobs, ApiStep(j) \/ TimeStep(j)
      PROVE  UNCHANGED dataVars
  BY <1>7 DEF ApiStep, TimeStep, Submit, Enqueue, RequestCancel, PrepareRetry,
     QueueRetry, QueueRetryUnacknowledged, AbortRetry, LeaseExpires,
     DeliveryStalls, BackoffEnds
<1>8. ASSUME NEW o \in Owners, Crash(o)
      PROVE  UNCHANGED dataVars
  BY <1>8 DEF Crash
<1> QED  BY <1>1, <1>2, <1>3, <1>4, <1>5, <1>6, <1>7, <1>8 DEF Next, vars

-----------------------------------------------------------------------------
(* The runs. *)

LEMMA IdleRunType == IdleRun \in RunStates
  BY SyncJobsAssumption
  DEF IdleRun, RunStates, Steps, Cursors, NextStream, InProgress

(* What fetch() answers has the types of the locals that keep it. *)
LEMMA FetchTypes ==
  ASSUME DataTypeOK, NEW j \in Jobs, NEW chk \in 0 .. MaxHead, NEW cur \in Cursors,
         NEW start, start = PageStart(j, chk, cur)
  PROVE  /\ WindowStart(j, chk) \in Nat \ {0}
         /\ WindowEnd(j) \in 0 .. MaxHead
         /\ start \in Nat \ {0}
         /\ PageEnd(j, start) \in 0 .. MaxHead
         /\ NextCursor(j, chk, cur) \in Cursors
         /\ NextCheckpoint \in 0 .. MaxHead
<1> USE SyncJobsAssumption, DataAssumption DEF DataTypeOK, Cursors, NextStream
<1>1. WindowStart(j, chk) \in Nat \ {0}
  BY DEF WindowStart
<1>2. WindowEnd(j) \in 0 .. MaxHead
  BY DEF WindowEnd, Smaller
<1>3. start \in Nat \ {0} /\ (OffsetCursor => start >= WindowStart(j, chk))
  BY <1>1 DEF PageStart, Larger
<1>4. PageEnd(j, start) \in 0 .. MaxHead
  BY <1>2, <1>3 DEF PageEnd, Smaller
<1>5. NextCursor(j, chk, cur) \in Cursors
  <2>1. CASE HasNextPage(j, start)
    <3>1. ~OffsetCursor => start + PageSize \in 0 .. MaxHead
      BY <1>2, <1>3, <2>1 DEF HasNextPage
    <3>2. OffsetCursor => start + PageSize - WindowStart(j, chk) \in 0 .. MaxHead
      BY <1>1, <1>2, <1>3, <2>1 DEF HasNextPage
    <3>3. NextCursor(j, chk, cur) =
            IF OffsetCursor THEN start + PageSize - WindowStart(j, chk)
                            ELSE start + PageSize
      BY <2>1 DEF NextCursor
    <3> QED  BY <3>1, <3>2, <3>3
  <2>2. CASE ~HasNextPage(j, start)
    BY <2>2 DEF NextCursor
  <2> QED  BY <2>1, <2>2
<1>6. NextCheckpoint \in 0 .. MaxHead
  BY DEF NextCheckpoint
<1> QED  BY <1>1, <1>2, <1>3, <1>4, <1>5, <1>6

(* The locals of run r change to well-typed ones, the others stay. *)
LEMMA BecomeType ==
  ASSUME RunTypeOK, NEW r \in Runs, NEW s \in RunStates,
         s.pc # "idle" => s.job \in Jobs,
         Become(r, s)
  PROVE  RunTypeOK'
  BY DEF Become, RunTypeOK, Live

LEMMA GotoType ==
  ASSUME RunTypeOK, NEW r \in Runs, Live(r), NEW pc \in Steps \ {"idle"},
         Goto(r, pc) \/ Leave(r, pc)
  PROVE  RunTypeOK'
<1>1. run[r].job \in Jobs /\ run[r] \in RunStates
  BY DEF RunTypeOK
<1>2. CASE Goto(r, pc)
  <2> DEFINE s == [run[r] EXCEPT !.pc = pc]
  <2>1. s \in RunStates /\ s.job = run[r].job
    BY <1>1 DEF RunStates
  <2> QED  BY <1>1, <1>2, <2>1, BecomeType DEF Goto
<1>3. CASE Leave(r, pc)
  <2> DEFINE s == [IdleRun EXCEPT !.pc = pc, !.job = run[r].job]
  <2>1. s \in RunStates /\ s.job = run[r].job
    BY <1>1, IdleRunType DEF RunStates
  <2> QED  BY <1>1, <1>3, <2>1, BecomeType DEF Leave
<1> QED  BY <1>2, <1>3

LEMMA FailType ==
  ASSUME RunTypeOK, NEW r \in Runs, Live(r), NEW b \in BOOLEAN, Fail(r, b)
  PROVE  RunTypeOK'
<1>1. run[r].job \in Jobs /\ run[r] \in RunStates
  BY DEF RunTypeOK
<1>2. FailedRun(r, b) \in RunStates /\ FailedRun(r, b).job = run[r].job
  BY <1>1, IdleRunType DEF FailedRun, RunStates, Steps
<1> QED  BY <1>1, <1>2, BecomeType DEF Fail

LEMMA RunsStep ==
  ASSUME TypeOK, [Next]_vars
  PROVE  RunTypeOK'
<1> USE DEF TypeOK
<1>1. CASE UNCHANGED run
  BY <1>1 DEF RunTypeOK, Live
<1>2. ASSUME NEW r \in Runs, TakeJob(r)
      PROVE  RunTypeOK'
  <2>1. PICK j \in Jobs :
          Become(r, [IdleRun EXCEPT !.pc = "lease", !.job = j,
                                    !.attempt = made[j] + 1])
    BY <1>2 DEF TakeJob
  <2> DEFINE s == [IdleRun EXCEPT !.pc = "lease", !.job = j,
                                  !.attempt = made[j] + 1]
  <2>2. made[j] + 1 \in Nat
    BY DEF QueueTypeOK
  <2>3. s \in RunStates /\ s.job = j
    BY <2>2, IdleRunType DEF RunStates, Steps
  <2> QED  BY <2>1, <2>3, BecomeType
<1>3. ASSUME NEW r \in Runs, RunStep(r) \/ Heartbeat(r) \/ RunFault(r)
      PROVE  RunTypeOK'
  <2>0. Live(r)
    BY <1>3 DEF RunStep, RunFault, Lease, NotLeased, CheckCancel, Cancel,
       ReadCheckpoint, ReadResumePageCursor, Transition, Fetch, Persist,
       Normalize, WriteCanonical, Reconcile, WriteResume, Finalize,
       RecordFailure, Report, Heartbeat, Throw, ThrowUnrecorded, RenewalThrows,
       LoseAck,
       At, Working, Live, Leasing
  <2> DEFINE me == run[r]
             j  == me.job
  <2>j. j \in Jobs /\ me \in RunStates
    BY <2>0 DEF RunTypeOK
  <2>k. /\ me.chk \in 0 .. MaxHead /\ me.cur \in Cursors
        /\ me.next \in Cursors /\ me.done \in SUBSET Positions
    BY <2>j DEF RunStates
  <2>s. /\ "check" \in Steps /\ "cancelling" \in Steps /\ "checkpoint" \in Steps
        /\ "cursor" \in Steps /\ "transition" \in Steps /\ "work" \in Steps
        /\ "resume" \in Steps /\ "finalize" \in Steps /\ "failing" \in Steps
        /\ "return" \in Steps /\ "rethrow" \in Steps
    BY DEF Steps
  <2>1. CASE Lease(r) \/ NotLeased(r) \/ CheckCancel(r) \/ Cancel(r)
    BY <2>0, <2>1, <2>s, GotoType DEF Lease, NotLeased, CheckCancel, Cancel
  <2>2. CASE ReadCheckpoint(r)
    <3> DEFINE s == [me EXCEPT !.pc = "cursor", !.chk = watermark]
    <3>1. s \in RunStates /\ s.job = j
      BY <2>j, <2>s DEF DataTypeOK, RunStates
    <3> QED  BY <2>2, <2>j, <3>1, BecomeType DEF ReadCheckpoint
  <2>3. CASE ReadResumePageCursor(r)
    <3> DEFINE s == [me EXCEPT !.pc = "transition", !.cur = resume[j],
                               !.done = skipped[j]]
    <3>1. resume[j] \in Cursors /\ skipped[j] \in SUBSET Positions
      BY <2>j DEF StoreTypeOK, CallTypeOK
    <3>2. s \in RunStates /\ s.job = j
      BY <2>j, <2>s, <3>1 DEF RunStates
    <3> QED  BY <2>3, <2>j, <3>2, BecomeType DEF ReadResumePageCursor
  <2>4. CASE Transition(r)
    <3> DEFINE s == [me EXCEPT !.pc = "work", !.stage = NextStage(me.stage)]
    <3>1. s \in RunStates /\ s.job = j
      BY <2>0, <2>j, <2>s, LiveRun DEF RunStates
    <3>2. CASE Fail(r, TRUE)  BY <2>0, <3>2, FailType
    <3>3. CASE Become(r, s)  BY <2>j, <3>1, <3>3, BecomeType
    <3> QED  BY <2>4, <3>2, <3>3 DEF Transition
  <2>5. CASE Fetch(r)
    <3> DEFINE start == PageStart(j, me.chk, me.cur)
               s == [me EXCEPT
                       !.pc     = "check",
                       !.first  = start,
                       !.last   = PageEnd(j, start),
                       !.next   = NextCursor(j, me.chk, me.cur),
                       !.nextCk = NextCheckpoint,
                       !.done   = @ \union Passed(j, me.chk, me.cur)]
    <3>1. /\ start \in Nat \ {0}
          /\ PageEnd(j, start) \in 0 .. MaxHead
          /\ NextCursor(j, me.chk, me.cur) \in Cursors
          /\ NextCheckpoint \in 0 .. MaxHead
      BY <2>j, <2>k, FetchTypes
    <3>2. s \in RunStates /\ s.job = j
      <4> HIDE DEF start
      <4>1. me.done \union Passed(j, me.chk, me.cur) \in SUBSET Positions
        BY <2>k DEF Passed
      <4> QED  BY <2>j, <2>k, <2>s, <3>1, <4>1 DEF RunStates
    <3>3. CASE Fail(r, TRUE)  BY <2>0, <3>3, FailType
    <3>4. CASE Become(r, s)  BY <2>j, <3>2, <3>4, BecomeType
    <3> QED  BY <2>5, <3>3, <3>4 DEF Fetch
  <2>6. CASE Persist(r)
    BY <2>0, <2>6, <2>s, GotoType DEF Persist
  <2>7. CASE Normalize(r)
    <3> DEFINE n == Cardinality(BatchRows(r))
               s == [me EXCEPT !.pc = "check", !.nrm = n]
    <3>1. n \in Nat
      BY CountsAreNatural DEF BatchRows
    <3>2. s \in RunStates /\ s.job = j
      <4> HIDE DEF n
      <4> QED  BY <2>j, <2>s, <3>1 DEF RunStates
    <3> QED  BY <2>7, <2>j, <3>2, BecomeType DEF Normalize
  <2>8. CASE WriteCanonical(r)
    <3> DEFINE n == Cardinality(CanonicalRows(r))
               s == [me EXCEPT !.pc = "check", !.can = n]
    <3>1. n \in Nat
      BY CountsAreNatural DEF BatchRows, CanonicalRows
    <3>2. s \in RunStates /\ s.job = j
      <4> HIDE DEF n
      <4> QED  BY <2>j, <2>s, <3>1 DEF RunStates
    <3> QED  BY <2>8, <2>j, <3>2, BecomeType DEF WriteCanonical
  <2>9. CASE Reconcile(r)
    BY <2>0, <2>9, <2>s, GotoType, FailType DEF Reconcile
  <2>10. CASE WriteResume(r)
    <3> DEFINE s == [me EXCEPT !.pc = "transition", !.cur = me.next]
    <3>1. s \in RunStates /\ s.job = j
      BY <2>j, <2>k, <2>s DEF RunStates
    <3> QED  BY <2>10, <2>j, <3>1, BecomeType DEF WriteResume
  <2>11. CASE Finalize(r) \/ RecordFailure(r)
    BY <2>0, <2>11, <2>s, GotoType, FailType DEF Finalize, RecordFailure
  <2>12. CASE Report(r)
    <3>1. Become(r, IdleRun)  BY <2>12 DEF Report
    <3>2. IdleRun.pc = "idle"  BY DEF IdleRun
    <3> QED  BY <3>1, <3>2, IdleRunType, BecomeType
  <2>13. CASE Heartbeat(r) \/ RenewalThrows(r)
    <3> DEFINE s == [me EXCEPT !.lost = TRUE]
    <3>1. s \in RunStates /\ s.job = j
      BY <2>j DEF RunStates
    <3>2. CASE UNCHANGED run  BY <1>1, <3>2
    <3>3. CASE Become(r, s)  BY <2>j, <3>1, <3>3, BecomeType
    <3> QED  BY <2>13, <3>2, <3>3 DEF Heartbeat, RenewalThrows
  <2>14. CASE RunFault(r) /\ ~RenewalThrows(r)
    <3>1. \/ \E b \in BOOLEAN : Fail(r, b)
          \/ Leave(r, "rethrow")
      BY <2>14 DEF RunFault, Throw, ThrowUnrecorded, LoseAck
    <3> QED  BY <2>0, <2>s, <3>1, GotoType, FailType
  <2> QED  BY <1>3, <2>1, <2>2, <2>3, <2>4, <2>5, <2>6, <2>7, <2>8, <2>9, <2>10,
              <2>11, <2>12, <2>13, <2>14 DEF RunStep
<1>4. ASSUME NEW o \in Owners, Crash(o)
      PROVE  RunTypeOK'
  BY <1>4, IdleRunType DEF Crash, RunTypeOK, Live, IdleRun
<1>5. ASSUME NEW j \in Jobs, ApiStep(j) \/ TimeStep(j)
      PROVE  UNCHANGED run
  BY <1>5 DEF ApiStep, TimeStep, Submit, Enqueue, RequestCancel, PrepareRetry,
     QueueRetry, QueueRetryUnacknowledged, AbortRetry, LeaseExpires,
     DeliveryStalls, BackoffEnds, localVars
<1> QED  BY <1>1, <1>2, <1>3, <1>4, <1>5 DEF Next, Grow, localVars, vars

-----------------------------------------------------------------------------
(* What is left, and the theorem. *)

LEMMA CallsStep ==
  ASSUME TypeOK, [Next]_vars
  PROVE  CallTypeOK'
<1> USE DEF TypeOK, CallTypeOK
<1>1. CASE UNCHANGED <<apiVars, faults, skipped>>
  BY <1>1 DEF apiVars
<1>2. ASSUME NEW r \in Runs, RunStep(r)
      PROVE  CallTypeOK'
  <2>1. CASE WriteResume(r)
    <3>1. run[r] \in RunStates  BY DEF RunTypeOK
    <3>2. run[r].done \in SUBSET Positions  BY <3>1 DEF RunStates
    <3> QED  BY <2>1, <3>2 DEF WriteResume, apiVars
  <2>2. ~WriteResume(r) => UNCHANGED <<apiVars, faults, skipped>>
    BY <1>2 DEF RunStep, Lease, NotLeased, CheckCancel, Cancel, ReadCheckpoint,
       ReadResumePageCursor, Transition, Fetch, Persist, Normalize,
       WriteCanonical, Reconcile, Finalize, RecordFailure, Report
  <2> QED  BY <1>1, <2>1, <2>2
<1>3. ASSUME NEW r \in Runs, RunFault(r)
      PROVE  CallTypeOK'
  <2>1. UNCHANGED <<apiVars, skipped>> /\ faults' = faults + 1
    BY <1>3 DEF RunFault, Throw, ThrowUnrecorded, RenewalThrows,
       LoseAck, Fault
  <2> QED  BY <2>1 DEF apiVars
<1>4. ASSUME NEW o \in Owners, Crash(o)
      PROVE  CallTypeOK'
  BY <1>4 DEF Crash, Fault, apiVars
<1>5. ASSUME NEW j \in Jobs, PrepareRetry(j)
      PROVE  CallTypeOK'
  BY <1>5 DEF PrepareRetry, RequeueFailedJob, Request
<1>6. ASSUME NEW j \in Jobs,
             ApiStep(j) \/ TimeStep(j), ~PrepareRetry(j)
      PROVE  CallTypeOK'
  BY <1>6 DEF ApiStep, TimeStep, Submit, Enqueue, RequestCancel, QueueRetry,
     QueueRetryUnacknowledged, AbortRetry, LeaseExpires, DeliveryStalls,
     BackoffEnds, Request, localVars, apiVars
<1>7. ASSUME NEW r \in Runs, TakeJob(r) \/ Heartbeat(r)
      PROVE  UNCHANGED <<apiVars, faults, skipped>>
  BY <1>7 DEF TakeJob, Heartbeat
<1> QED  BY <1>1, <1>2, <1>3, <1>4, <1>5, <1>6, <1>7
         DEF Next, Grow, localVars, apiVars, vars

LEMMA InitialTypes == Init => TypeOK
<1> SUFFICES ASSUME Init PROVE TypeOK
  OBVIOUS
<1> USE SyncJobsAssumption, QueueAssumption DEF Init
<1>1. StoreTypeOK
  BY DEF StoreInit, StoreTypeOK, Statuses, Cursors, NextStream
<1>2. QueueTypeOK
  BY DEF QueueInit, QueueTypeOK, QueueStates
<1>3. DataTypeOK
  BY DEF DataInit, DataTypeOK
<1>4. RunTypeOK
  BY IdleRunType DEF RunTypeOK, Live, IdleRun
<1>5. CallTypeOK
  BY DEF CallTypeOK
<1> QED  BY <1>1, <1>2, <1>3, <1>4, <1>5 DEF TypeOK

(* Whatever happens to jobs, queue, processes and provider, every variable *)
(* keeps its type: in particular every page lies within the provider's     *)
(* timeline and every row written from one is a record of it.              *)
THEOREM TypeCorrect == Spec => []TypeOK
<1>1. TypeOK /\ [Next]_vars => TypeOK'
  BY StoreStep, QueueStep, DataStep, RunsStep, CallsStep DEF TypeOK
<1> QED  BY InitialTypes, <1>1, PTL DEF Spec

=============================================================================
