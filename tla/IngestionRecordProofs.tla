----------------------- MODULE IngestionRecordProofs -----------------------
(***************************************************************************)
(* The stream's checkpoint never passes a record that was not persisted,   *)
(* for incremental syncs whose page cursor names a place in the timeline,  *)
(* whatever is paused, lost, repeated or crashes, and however many jobs    *)
(* and processes page through the stream at the same time.                 *)
(*                                                                         *)
(* The checkpoint is written from a run's locals, so the invariant says of *)
(* every local that will end up in the checkpoint, or that decides where   *)
(* the next page starts, that nothing below it is missing.  It holds of    *)
(* stale runs too: their writes are not fenced, and need not be.           *)
(***************************************************************************)
EXTENDS IngestionTypes

(* Every record up to position n is in S. *)
Covers(S, n) == 1 .. n \subseteq S

(* The run has persisted the page it fetched last. *)
Persisted(s) ==
  \/ s.stage \in {"normalizing", "writing_canonical", "reconciling"}
  \/ s.stage = "persisting_source" /\ s.pc # "work"

SoundLocals(s, S) ==
  /\ Covers(S, s.chk)
  /\ Covers(S, s.cur - 1)
  /\ Covers(S, s.first - 1)
  /\ s.next = 0 => s.nextCk = s.last
  /\ s.next # 0 => s.next = s.last + 1
  /\ Persisted(s) => Covers(S, s.last)
  /\ s.pc \in {"resume", "finalize"} => s.stage = "reconciling"

NoGaps ==
  /\ Covers(source, watermark)
  /\ \A j \in Jobs : Covers(source, resume[j] - 1)
  /\ \A r \in Runs : SoundLocals(run[r], source)

-----------------------------------------------------------------------------
LEMMA Monotone ==
  ASSUME NEW s, NEW S, NEW T, S \subseteq T, SoundLocals(s, S)
  PROVE  SoundLocals(s, T)
  BY DEF SoundLocals, Covers

LEMMA IdleRunSound == \A S : SoundLocals(IdleRun, S)
  BY DEF SoundLocals, Covers, Persisted, IdleRun

(* A thrown error takes the locals of the try block with it, a result too. *)
LEMMA EndedRunSound ==
  ASSUME TypeOK, NEW r \in Runs, NEW S, NEW b \in BOOLEAN,
         NEW pc \in {"return", "rethrow"}
  PROVE  /\ SoundLocals(FailedRun(r, b), S)
         /\ SoundLocals([IdleRun EXCEPT !.pc = pc, !.job = run[r].job], S)
  BY DEF SoundLocals, Covers, Persisted, IdleRun, FailedRun

(* source_records only grows. *)
LEMMA SourceGrows ==
  ASSUME TypeOK, [Next]_vars
  PROVE  source \subseteq source'
<1>1. ASSUME NEW r \in Runs,
             RunStep(r) \/ Heartbeat(r) \/ RunFault(r) \/ TakeJob(r)
      PROVE  source \subseteq source'
  BY <1>1 DEF RunStep, RunFault, Lease, NotLeased, CheckCancel, Cancel,
     ReadCheckpoint, ReadResumePageCursor, Transition, Fetch, Persist,
     PersistFetchedPage, Normalize, NormalizeBatch, WriteCanonical,
     WriteCanonicalRecords, Reconcile, WriteReconciliation, WriteResume,
     Finalize, RecordFailure, Report, Heartbeat, Throw, ThrowUnrecorded,
     RenewalThrows, LoseAck, TakeJob, dataVars
<1>2. ASSUME NEW j \in Jobs, ApiStep(j) \/ TimeStep(j)
      PROVE  source \subseteq source'
  BY <1>2 DEF ApiStep, TimeStep, Submit, Enqueue, RequestCancel, PrepareRetry,
     QueueRetry, QueueRetryUnacknowledged, AbortRetry, LeaseExpires,
     DeliveryStalls, BackoffEnds, dataVars
<1> QED  BY <1>1, <1>2 DEF Next, Crash, Grow, Produce, dataVars, vars

(* What fetch() answers to a run with sound locals. *)
LEMMA FetchSound ==
  ASSUME AllIncremental, ~OffsetCursor, ~MoreStreams, TypeOK,
         NEW j \in Jobs, NEW chk \in 0 .. MaxHead, NEW cur \in Cursors,
         Covers(source, chk), Covers(source, cur - 1),
         NEW start, start = PageStart(j, chk, cur)
  PROVE  /\ Covers(source, start - 1)
         /\ NextCursor(j, chk, cur) = 0 => NextCheckpoint = PageEnd(j, start)
         /\ NextCursor(j, chk, cur) # 0
              => NextCursor(j, chk, cur) = PageEnd(j, start) + 1
<1> USE SyncJobsAssumption, DataAssumption
<1>1. head \in 0 .. MaxHead
  BY DEF TypeOK, DataTypeOK
<1>2. WindowStart(j, chk) = chk + 1 /\ WindowEnd(j) = head
  BY DEF AllIncremental, WindowStart, WindowEnd
<1>3. start = cur \/ start = chk + 1
  BY <1>2 DEF PageStart, Larger
<1>4. start \in Nat \ {0}
  BY <1>1, FetchTypes DEF TypeOK
<1>5. Covers(source, start - 1)
  BY <1>3 DEF Covers, Cursors
<1>6. PageSize \in Nat \ {0} /\ head \in Nat
  BY <1>1
<1>7. HasNextPage(j, start) <=> start + PageSize <= head
  BY <1>2 DEF HasNextPage
<1>8. PageEnd(j, start) =
        IF start + PageSize - 1 < head THEN start + PageSize - 1 ELSE head
  BY <1>2 DEF PageEnd, Smaller
<1>9. NextCursor(j, chk, cur) =
        IF HasNextPage(j, start) THEN start + PageSize ELSE 0
  BY DEF NextCursor
<1>10. CASE start + PageSize <= head
  <2>1. NextCursor(j, chk, cur) = start + PageSize
    BY <1>7, <1>9, <1>10
  <2>2. PageEnd(j, start) = start + PageSize - 1
    BY <1>4, <1>6, <1>8, <1>10
  <2> QED  BY <1>4, <1>5, <1>6, <2>1, <2>2
<1>11. CASE ~(start + PageSize <= head)
  <2>1. NextCursor(j, chk, cur) = 0
    BY <1>7, <1>9, <1>11
  <2>2. PageEnd(j, start) = head
    BY <1>4, <1>6, <1>8, <1>11
  <2> QED  BY <1>5, <2>1, <2>2 DEF NextCheckpoint
<1> QED  BY <1>10, <1>11

-----------------------------------------------------------------------------
(* A step of run r leaves its locals sound. *)
LEMMA RunStaysSound ==
  ASSUME AllIncremental, ~OffsetCursor, ~MoreStreams, TypeOK, NoGaps,
         NEW r \in Runs,
         RunStep(r) \/ Heartbeat(r) \/ RunFault(r), source \subseteq source'
  PROVE  /\ SoundLocals(run'[r], source')
         /\ \A s \in Runs \ {r} : run'[s] = run[s]
<1> DEFINE me == run[r]
           j  == me.job
           S  == source'
<1>0. Live(r)
  BY DEF RunStep, RunFault, Lease, NotLeased, CheckCancel, Cancel,
     ReadCheckpoint, ReadResumePageCursor, Transition, Fetch, Persist,
     Normalize, WriteCanonical, Reconcile, WriteResume, Finalize,
     RecordFailure, Report, Heartbeat, Throw, ThrowUnrecorded, RenewalThrows, LoseAck,
     At, Working, Live, Leasing
<1>1. me \in RunStates /\ j \in Jobs /\ run \in [Runs -> RunStates]
  BY <1>0 DEF TypeOK, RunTypeOK
<1>2. SoundLocals(me, S)
  BY Monotone DEF NoGaps
<1>3. ASSUME NEW s, Become(r, s), SoundLocals(s, S)
      PROVE  /\ SoundLocals(run'[r], S)
             /\ \A t \in Runs \ {r} : run'[t] = run[t]
  BY <1>1, <1>3 DEF Become
<1>4. ASSUME NEW b \in BOOLEAN, Fail(r, b)
      PROVE  /\ SoundLocals(run'[r], S)
             /\ \A t \in Runs \ {r} : run'[t] = run[t]
  BY <1>3, <1>4, EndedRunSound DEF Fail
<1>5. ASSUME NEW pc \in {"return", "rethrow"}, Leave(r, pc)
      PROVE  /\ SoundLocals(run'[r], S)
             /\ \A t \in Runs \ {r} : run'[t] = run[t]
  BY <1>3, <1>5, EndedRunSound DEF Leave
<1>6. ASSUME NEW pc \in Steps \ {"work", "resume", "finalize"}, Goto(r, pc),
             me.stage # "persisting_source" \/ me.pc # "work"
      PROVE  /\ SoundLocals(run'[r], S)
             /\ \A t \in Runs \ {r} : run'[t] = run[t]
  <2> DEFINE s == [me EXCEPT !.pc = pc]
  <2>1. SoundLocals(s, S)
    BY <1>1, <1>2, <1>6 DEF SoundLocals, RunStates, Persisted
  <2> QED  BY <1>3, <1>6, <2>1 DEF Goto
<1>7. CASE Lease(r) \/ CheckCancel(r)
  <2>1. \/ Goto(r, "check") /\ me.pc = "lease"
        \/ \E pc \in {"cancelling", "checkpoint", "transition"} :
             Goto(r, pc) /\ me.pc = "check"
    BY <1>7 DEF Lease, CheckCancel, At
  <2> QED  BY <1>6, <2>1 DEF Steps
<1>8. CASE NotLeased(r) \/ Cancel(r) \/ RecordFailure(r)
  BY <1>5, <1>8 DEF NotLeased, Cancel, RecordFailure
<1>9. CASE ReadCheckpoint(r)
  <2> DEFINE s == [me EXCEPT !.pc = "cursor", !.chk = watermark]
  <2>1. Covers(S, watermark)
    BY DEF NoGaps, Covers
  <2>2. SoundLocals(s, S)
    BY <1>1, <1>2, <1>9, <2>1
    DEF SoundLocals, RunStates, Persisted, ReadCheckpoint, At
  <2> QED  BY <1>3, <1>9, <2>2 DEF ReadCheckpoint
<1>10. CASE ReadResumePageCursor(r)
  <2> DEFINE s == [me EXCEPT !.pc = "transition", !.cur = resume[j],
                             !.done = skipped[j]]
  <2>1. Covers(S, resume[j] - 1)
    BY <1>1 DEF NoGaps, Covers
  <2>2. SoundLocals(s, S)
    BY <1>1, <1>2, <1>10, <2>1
    DEF SoundLocals, RunStates, Persisted, ReadResumePageCursor, At
  <2> QED  BY <1>3, <1>10, <2>2 DEF ReadResumePageCursor
<1>11. CASE Transition(r)
  <2> DEFINE to == NextStage(me.stage)
             s  == [me EXCEPT !.pc = "work", !.stage = to]
  <2>1. /\ me.stage \in InProgress
        /\ me.stage = "leased" => to = "fetching"
        /\ me.stage = "fetching" => to = "persisting_source"
        /\ me.stage = "persisting_source" => to = "normalizing"
        /\ me.stage = "normalizing" => to = "writing_canonical"
        /\ me.stage = "writing_canonical" => to = "reconciling"
        /\ me.stage = "reconciling" => to = "fetching"
    <3>1. me.stage \in InProgress  BY <1>1 DEF RunStates
    <3> QED  BY <3>1 DEF NextStage, InProgress
  <2>2. Persisted(s) => Persisted(me)
    <3>1. s.stage = to /\ s.pc = "work"
      BY <1>1 DEF RunStates
    <3>2. me.pc = "transition"
      BY <1>11 DEF Transition, At
    <3> HIDE DEF to, s
    <3> QED  BY <2>1, <3>1, <3>2 DEF Persisted, InProgress
  <2>3. SoundLocals(s, S)
    <3>1. s.chk = me.chk /\ s.cur = me.cur /\ s.first = me.first
      BY <1>1 DEF RunStates
    <3>2. s.last = me.last /\ s.next = me.next /\ s.nextCk = me.nextCk
      BY <1>1 DEF RunStates
    <3>3. s.pc = "work"
      BY <1>1 DEF RunStates
    <3> HIDE DEF s
    <3> QED  BY <1>2, <2>2, <3>1, <3>2, <3>3 DEF SoundLocals
  <2>4. CASE Fail(r, TRUE)  BY <1>4, <2>4
  <2>5. CASE Become(r, s)  BY <1>3, <2>3, <2>5
  <2> QED  BY <1>11, <2>4, <2>5 DEF Transition
<1>12. CASE Fetch(r)
  <2> DEFINE start == PageStart(j, me.chk, me.cur)
             s == [me EXCEPT
                     !.pc     = "check",
                     !.first  = start,
                     !.last   = PageEnd(j, start),
                     !.next   = NextCursor(j, me.chk, me.cur),
                     !.nextCk = NextCheckpoint,
                     !.done   = @ \union Passed(j, me.chk, me.cur)]
  <2>1. /\ me.chk \in 0 .. MaxHead /\ me.cur \in Cursors
        /\ Covers(source, me.chk) /\ Covers(source, me.cur - 1)
    BY <1>1 DEF RunStates, NoGaps, SoundLocals
  <2>2. /\ Covers(source, start - 1)
        /\ NextCursor(j, me.chk, me.cur) = 0 => NextCheckpoint = PageEnd(j, start)
        /\ NextCursor(j, me.chk, me.cur) # 0
             => NextCursor(j, me.chk, me.cur) = PageEnd(j, start) + 1
    BY <1>1, <2>1, FetchSound
  <2>3. SoundLocals(s, S)
    <3> HIDE DEF start
    <3>1. /\ s.chk = me.chk /\ s.cur = me.cur /\ s.stage = me.stage
          /\ s.pc = "check" /\ s.first = start /\ s.last = PageEnd(j, start)
          /\ s.next = NextCursor(j, me.chk, me.cur) /\ s.nextCk = NextCheckpoint
      BY <1>1 DEF RunStates
    <3>2. me.stage = "fetching"
      BY <1>12 DEF Fetch, Working
    <3> HIDE DEF s
    <3>3. Covers(S, s.first - 1)
      BY <2>2, <3>1 DEF Covers
    <3> QED  BY <1>2, <2>2, <3>1, <3>2, <3>3 DEF SoundLocals, Persisted
  <2>4. CASE Fail(r, TRUE)  BY <1>4, <2>4
  <2>5. CASE Become(r, s)  BY <1>3, <2>3, <2>5
  <2> QED  BY <1>12, <2>4, <2>5 DEF Fetch
<1>13. CASE Persist(r)
  <2> DEFINE s == [me EXCEPT !.pc = "check"]
  <2>1. S = source \union Page(r)
    BY <1>13 DEF Persist, PersistFetchedPage
  <2>2. me.first \in Nat \ {0} /\ me.last \in 0 .. MaxHead
    BY <1>1 DEF RunStates
  <2>3. Covers(S, me.last)
    BY <1>2, <2>1, <2>2, SyncJobsAssumption DEF SoundLocals, Covers, Page
  <2>4. SoundLocals(s, S)
    BY <1>1, <1>2, <2>3 DEF SoundLocals, RunStates, Persisted
  <2> QED  BY <1>3, <1>13, <2>4 DEF Persist, Goto
<1>14. CASE Normalize(r)
  <2> DEFINE s == [me EXCEPT !.pc = "check", !.nrm = Cardinality(BatchRows(r))]
  <2>1. SoundLocals(s, S)
    BY <1>1, <1>2, <1>14
    DEF SoundLocals, RunStates, Persisted, Normalize, Working, At
  <2> QED  BY <1>3, <1>14, <2>1 DEF Normalize
<1>15. CASE WriteCanonical(r)
  <2> DEFINE s == [me EXCEPT !.pc = "check", !.can = Cardinality(CanonicalRows(r))]
  <2>1. SoundLocals(s, S)
    BY <1>1, <1>2, <1>15
    DEF SoundLocals, RunStates, Persisted, WriteCanonical, Working, At
  <2> QED  BY <1>3, <1>15, <2>1 DEF WriteCanonical
<1>16. CASE Reconcile(r)
  <2>1. ASSUME NEW pc \in {"finalize", "resume"}, Goto(r, pc)
        PROVE  /\ SoundLocals(run'[r], S)
               /\ \A t \in Runs \ {r} : run'[t] = run[t]
    <3> DEFINE s == [me EXCEPT !.pc = pc]
    <3>1. SoundLocals(s, S)
      BY <1>1, <1>2, <1>16
      DEF SoundLocals, RunStates, Persisted, Reconcile, Working
    <3> QED  BY <1>3, <2>1, <3>1 DEF Goto
  <2> QED  BY <1>4, <1>16, <2>1 DEF Reconcile
<1>17. CASE WriteResume(r)
  <2> DEFINE s == [me EXCEPT !.pc = "transition", !.cur = me.next]
  <2>1. Covers(S, me.last) /\ me.stage = "reconciling"
    BY <1>2, <1>17 DEF SoundLocals, Persisted, WriteResume, At
  <2>2. me.next \in Nat /\ me.last \in Nat
    BY <1>1, SyncJobsAssumption DEF RunStates, Cursors
  <2>3. Covers(S, me.next - 1)
    BY <1>2, <2>1, <2>2 DEF SoundLocals, Covers
  <2>4. SoundLocals(s, S)
    BY <1>1, <1>2, <2>1, <2>3 DEF SoundLocals, RunStates, Persisted
  <2> QED  BY <1>3, <1>17, <2>4 DEF WriteResume
<1>18. CASE Finalize(r)
  BY <1>4, <1>5, <1>18 DEF Finalize
<1>19. CASE Report(r)
  BY <1>3, <1>19, IdleRunSound DEF Report
<1>20. CASE Heartbeat(r) \/ RenewalThrows(r)
  <2> DEFINE s == [me EXCEPT !.lost = TRUE]
  <2>1. SoundLocals(s, S)
    BY <1>1, <1>2 DEF SoundLocals, RunStates, Persisted
  <2>2. CASE UNCHANGED run  BY <1>2, <2>2
  <2>3. CASE Become(r, s)  BY <1>3, <2>1, <2>3
  <2> QED  BY <1>20, <2>2, <2>3 DEF Heartbeat, RenewalThrows
<1>21. CASE RunFault(r) /\ ~RenewalThrows(r)
  <2>1. (\E b \in BOOLEAN : Fail(r, b)) \/ Leave(r, "rethrow")
    BY <1>21 DEF RunFault, Throw, ThrowUnrecorded, LoseAck
  <2> QED  BY <1>4, <1>5, <2>1
<1> QED
  BY <1>7, <1>8, <1>9, <1>10, <1>11, <1>12, <1>13, <1>14, <1>15, <1>16, <1>17,
     <1>18, <1>19, <1>20, <1>21 DEF RunStep

(* A step leaves the checkpoint and the resume cursors below any gap. *)
LEMMA CursorsStaySound ==
  ASSUME TypeOK, NoGaps, [Next]_vars, source \subseteq source'
  PROVE  /\ Covers(source', watermark')
         /\ \A j \in Jobs : Covers(source', resume'[j] - 1)
<1>1. CASE UNCHANGED <<watermark, resume>>
  BY <1>1 DEF NoGaps, Covers
<1>2. ASSUME NEW r \in Runs, Persist(r)
      PROVE  UNCHANGED resume /\ Covers(source', watermark')
  <2>1. run[r] \in RunStates  BY DEF TypeOK, RunTypeOK
  <2>2. /\ run[r].first \in Nat \ {0} /\ run[r].last \in 0 .. MaxHead
        /\ run[r].next = 0 => run[r].nextCk = run[r].last
        /\ Covers(source, run[r].first - 1)
    BY <2>1 DEF NoGaps, SoundLocals, RunStates
  <2>3. source' = source \union Page(r)
    BY <1>2 DEF Persist, PersistFetchedPage
  <2>4. Covers(source', run[r].last)
    BY <2>2, <2>3, SyncJobsAssumption DEF Covers, Page
  <2>5. CASE IsLastPage(r)
    <3>1. watermark' = run[r].last
      BY <1>2, <2>2, <2>5 DEF Persist, PersistFetchedPage, IsLastPage
    <3> QED  BY <1>2, <2>4, <3>1 DEF Persist, rowVars
  <2>6. CASE ~IsLastPage(r)
    <3>1. watermark' = watermark
      BY <1>2, <2>6 DEF Persist, PersistFetchedPage
    <3> QED  BY <1>2, <3>1 DEF Persist, rowVars, NoGaps, Covers
  <2> QED  BY <2>5, <2>6
<1>3. ASSUME NEW r \in Runs, WriteResume(r)
      PROVE  UNCHANGED watermark /\ \A j \in Jobs : Covers(source', resume'[j] - 1)
  <2>1. run[r] \in RunStates /\ run[r].job \in Jobs /\ resume \in [Jobs -> Cursors]
    BY <1>3 DEF TypeOK, RunTypeOK, StoreTypeOK, WriteResume, At, Live
  <2>2. run[r].next \in Nat /\ run[r].last \in Nat
    BY <2>1, SyncJobsAssumption DEF RunStates, Cursors
  <2>3. Covers(source, run[r].next - 1)
    BY <1>3, <2>2 DEF NoGaps, SoundLocals, Persisted, Covers, WriteResume, At
  <2>4. \A j \in Jobs : resume'[j] = resume[j] \/ resume'[j] = run[r].next
    BY <1>3, <2>1 DEF WriteResume, WriteResumePageCursor
  <2> QED  BY <1>3, <2>3, <2>4 DEF WriteResume, dataVars, NoGaps, Covers
<1>4. ASSUME NEW r \in Runs,
             \/ RunStep(r) /\ ~Persist(r) /\ ~WriteResume(r)
             \/ Heartbeat(r) \/ RunFault(r) \/ TakeJob(r)
      PROVE  UNCHANGED <<watermark, resume>>
  BY <1>4 DEF RunStep, RunFault, Lease, NotLeased, CheckCancel, Cancel,
     ReadCheckpoint, ReadResumePageCursor, Transition, Fetch, Normalize,
     NormalizeBatch, WriteCanonical, WriteCanonicalRecords, Reconcile,
     WriteReconciliation, Finalize, RecordFailure, Report, Heartbeat, Throw,
     ThrowUnrecorded, RenewalThrows, LoseAck, TakeJob, AcquireLease, RenewLease,
     TransitionJobState, FinalizeSucceeded, MarkCancelled, MarkFailed,
     dataVars, rowVars
<1>5. ASSUME NEW j \in Jobs, ApiStep(j) \/ TimeStep(j)
      PROVE  UNCHANGED <<watermark, resume>>
  BY <1>5 DEF ApiStep, TimeStep, Submit, Enqueue, RequestCancel, PrepareRetry,
     QueueRetry, QueueRetryUnacknowledged, AbortRetry, LeaseExpires,
     DeliveryStalls, BackoffEnds, CreateJob, MarkJobCancelled,
     RequeueFailedJob, RestoreFailure, LapseLease, dataVars, rowVars
<1>6. (\E o \in Owners : Crash(o)) \/ Grow => UNCHANGED <<watermark, resume>>
  BY DEF Crash, Grow, Produce, dataVars, rowVars
<1>7. CASE UNCHANGED vars
  BY <1>1, <1>7 DEF vars, rowVars, dataVars
<1> QED
  <2>1. CASE \E r \in Runs : Persist(r)
    BY <1>2, <2>1 DEF NoGaps, Covers
  <2>2. CASE \E r \in Runs : WriteResume(r)
    BY <1>3, <2>2 DEF NoGaps, Covers
  <2>3. CASE ~(\E r \in Runs : Persist(r)) /\ ~(\E r \in Runs : WriteResume(r))
    BY <1>1, <1>4, <1>5, <1>6, <1>7, <2>3 DEF Next
  <2> QED  BY <2>1, <2>2, <2>3

-----------------------------------------------------------------------------
LEMMA NoGapsInductive ==
  ASSUME AllIncremental, ~OffsetCursor, ~MoreStreams, TypeOK, NoGaps,
         [Next]_vars
  PROVE  NoGaps'
<1>1. source \subseteq source'
  BY SourceGrows
<1>2. ASSUME NEW r \in Runs
      PROVE  SoundLocals(run'[r], source')
  <2>1. CASE UNCHANGED run
    BY <1>1, <2>1, Monotone DEF NoGaps
  <2>2. ASSUME NEW s \in Runs, RunStep(s) \/ Heartbeat(s) \/ RunFault(s)
        PROVE  SoundLocals(run'[r], source')
    <3>1. CASE r = s
      BY <1>1, <2>2, <3>1, RunStaysSound
    <3>2. CASE r # s
      BY <1>1, <2>2, <3>2, RunStaysSound, Monotone DEF NoGaps
    <3> QED  BY <3>1, <3>2
  <2>3. ASSUME NEW s \in Runs, TakeJob(s)
        PROVE  SoundLocals(run'[r], source')
    <3>1. PICK j \in Jobs :
            Become(s, [IdleRun EXCEPT !.pc = "lease", !.job = j,
                                      !.attempt = made[j] + 1])
      BY <2>3 DEF TakeJob
    <3>2. SoundLocals([IdleRun EXCEPT !.pc = "lease", !.job = j,
                                      !.attempt = made[j] + 1], source')
      BY DEF SoundLocals, Covers, Persisted, IdleRun
    <3>3. run \in [Runs -> RunStates]
      BY DEF TypeOK, RunTypeOK
    <3>4. CASE r = s  BY <3>1, <3>2, <3>3, <3>4 DEF Become
    <3>5. CASE r # s
      BY <1>1, <3>1, <3>3, <3>5, Monotone DEF Become, NoGaps
    <3> QED  BY <3>4, <3>5
  <2>4. ASSUME NEW o \in Owners, Crash(o)
        PROVE  SoundLocals(run'[r], source')
    <3>1. run'[r] = IdleRun \/ run'[r] = run[r]
      BY <2>4 DEF Crash
    <3> QED  BY <1>1, <3>1, IdleRunSound, Monotone DEF NoGaps
  <2>5. ASSUME NEW j \in Jobs, ApiStep(j) \/ TimeStep(j)
        PROVE  UNCHANGED run
    BY <2>5 DEF ApiStep, TimeStep, Submit, Enqueue, RequestCancel, PrepareRetry,
       QueueRetry, QueueRetryUnacknowledged, AbortRetry, LeaseExpires,
       DeliveryStalls, BackoffEnds, localVars
  <2> QED  BY <2>1, <2>2, <2>3, <2>4, <2>5 DEF Next, Grow, localVars, vars
<1> QED  BY <1>1, <1>2, CursorsStaySound DEF NoGaps

LEMMA NoGapsInitially == Init => NoGaps
  BY IdleRunSound DEF Init, StoreInit, DataInit, NoGaps, Covers

(* For incremental syncs with absolute page cursors, no record below the   *)
(* stream's checkpoint is missing from source_records, in every reachable  *)
(* state and for every number of jobs, runs and faults: a page that was    *)
(* skipped, re-read, persisted twice or persisted by a run that had lost   *)
(* its lease never lets the checkpoint pass a record nobody stored.        *)
THEOREM CheckpointIsSafe ==
  ASSUME AllIncremental, ~OffsetCursor, ~MoreStreams
  PROVE  Spec => []WatermarkCoversSource
<1>1. NoGaps => WatermarkCoversSource
  BY DEF NoGaps, Covers, WatermarkCoversSource
<1>2. TypeOK /\ TypeOK' /\ NoGaps /\ [Next]_vars => NoGaps'
  BY NoGapsInductive
<1> QED  BY TypeCorrect, NoGapsInitially, <1>1, <1>2, PTL DEF Spec

=============================================================================
