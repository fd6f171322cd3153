---------------------------- MODULE BackgroundProofs ----------------------------
(***************************************************************************)
(* Theorems of the worker's background work, for any set of workers and    *)
(* any number of mails, jobs, hours, attempts and faults.                  *)
(***************************************************************************)
EXTENDS BackgroundWork, StripeProofs, FiniteSetTheorems, WellFoundedInduction, TLAPS

(* Reprocess jobs: one detection holds the lock, and there is no open job  *)
(* while it does; a claimed job is running, and claimed by one drain.      *)
ReprocessInv ==
  /\ ReprocessTypeOK
  /\ \A v, w \in Workers : detector[v].locked /\ detector[w].locked => v = w
  /\ \A w \in Workers : detector[w].locked => ~HasOpenJob
  /\ \A v, w \in Workers : v # w => drain[v].claimed \intersect drain[w].claimed = {}
  /\ \A w \in Workers :
       /\ drain[w].checked \subseteq drain[w].claimed
       /\ \A j \in drain[w].claimed : reprocess[j].status = "running"
  /\ OneOpenJob

(* The hour's job: whoever runs it, ran it, or may be given it.            *)
Running(h) == {w \in Workers : runner[w] = h}
Deliverable(h) == IF runJob[h] \in {"none", "waiting", "delayed"} THEN 1 ELSE 0

Counted(h) ==
  /\ IsFiniteSet(Running(h))
  /\ completed[h] + Cardinality(Running(h)) + Deliverable(h) <= 1 + runStalls[h]

Settled(h) == h \in early \/ reserved[h] \in {"completed", "failed"}

RowsInv ==
  /\ \A v, w \in Workers : cron[v].pc # "idle" /\ cron[w].pc # "idle" => v = w
  /\ \A w \in Workers :
       /\ cron[w].pc # "idle" => cron[w].hour \in Hours /\ ~Taken(cron[w].hour)
       /\ cron[w].pc = "added" => runJob[cron[w].hour] # "none"
       /\ runner[w] # 0 => runJob[runner[w]] # "none"
       /\ runner[w] # 0 /\ marked[w] => Settled(runner[w])
  /\ \A h \in Hours :
       /\ reserved[h] # "none" => runJob[h] # "none"
       /\ runJob[h] = "completed" => Settled(h)

ScheduleInv == ScheduleTypeOK /\ RowsInv /\ \A h \in Hours : Counted(h)

(* Reports: one attempt holds the row; as long as no attempt and no sweep  *)
(* have overlapped, each of them knows what is in the bucket.              *)
ReportInv ==
  /\ ReportTypeOK
  /\ \A v, w \in Workers : Making(v) /\ Making(w) => v = w
  /\ ~met =>
       /\ (\E w \in Workers : Making(w)) => ~Sweeping
       /\ \A w \in Workers :
            /\ making[w].pc = "put" => object = making[w].artifact
            /\ sweep[w] # "idle" => report.expired
            /\ sweep[w] = "deleted" => object = 0
  /\ RowMatchesObject

(* Privacy requests: an attempt that overlaps with no other has written    *)
(* the targets before the one it comes to with the evidence it stored.     *)
PrivacyInv ==
  /\ PrivacyTypeOK
  /\ ~shared =>
       /\ \A v, w \in Workers : Handling(v) /\ Handling(w) => v = w
       /\ \A w \in Workers : handling[w].pc = "targets" =>
            /\ handling[w].artifact = evidence
            /\ handling[w].next >= 1
            /\ \A t \in Targets : t < handling[w].next => target[t] = evidence
  /\ EvidenceIsStored

(* Mails: unless its two minutes ran out under a live tick, one tick works *)
(* on a mail, its row is what that tick read or stored, and nothing but    *)
(* the body in the row was handed to the provider.                         *)
Owned(m) ==
  /\ \A v, w \in Workers : Claiming(v, m) /\ Claiming(w, m) => v = w
  /\ \A w \in Workers : Claiming(w, m) =>
       /\ outbox[m].status = "sending" /\ ~outbox[m].due /\ outbox[m].age < 2
       /\ tick[w].pc \in {"claimed", "prepared", "accepted"} => tick[w].body = outbox[m].body
       /\ tick[w].pc \in {"prepared", "accepted"} => tick[w].body # 0

Asked(m) ==
  /\ outbox[m].status \in {"absent", "queued", "sending"} =>
       asked[m] \subseteq {outbox[m].body} \ {0}
  /\ \E b \in Nat : asked[m] \subseteq {b}

MailInv ==
  /\ MailTypeOK
  /\ \A w \in Workers : tick[w].pc # "idle" => tick[w].mail \in Mails
  /\ \A m \in Mails : outbox[m].status = "absent" => outbox[m].body = 0
  /\ \A m \in Mails \ overran : Owned(m) /\ Asked(m)

-----------------------------------------------------------------------------
(* Reprocess jobs. *)

LEMMA ReprocessTypesKept ==
  ASSUME ReprocessTypeOK, ReprocessNext
  PROVE  ReprocessTypeOK'
<1> USE WorkerAssumption, ReprocessAssumption DEF ReprocessTypeOK
<1>1. CASE BeginRequest
  BY <1>1 DEF BeginRequest
<1>2. ASSUME NEW codes \in SUBSET Codes, ChangeFormula(codes)
      PROVE  ReprocessTypeOK'
  BY <1>2 DEF ChangeFormula
<1>3. ASSUME NEW codes \in SUBSET Codes, NEW old \in BOOLEAN, PersistSnapshots(codes, old)
      PROVE  ReprocessTypeOK'
  <2>1. reprocess' \in [ReprocessJobs -> JobRows]
    BY <1>3 DEF PersistSnapshots, JobRows
  <2> QED  BY <1>3, <2>1 DEF PersistSnapshots, NoRequest
<1>4. ASSUME NEW w \in Workers, Detect(w) PROVE ReprocessTypeOK'
  BY <1>4 DEF Detect
<1>5. ASSUME NEW w \in Workers, QueueJob(w) PROVE ReprocessTypeOK'
  <2>1. detector[w].codes \in SUBSET Codes
    OBVIOUS
  <2>2. reprocess' \in [ReprocessJobs -> JobRows]
    BY <1>5, <2>1 DEF QueueJob, JobRows, Open
  <2> QED  BY <1>5, <2>2 DEF QueueJob, NoDetection
<1>6. ASSUME NEW w \in Workers, DetectionFails(w) PROVE ReprocessTypeOK'
  BY <1>6 DEF DetectionFails, Failing, NoDetection
<1>7. ASSUME NEW w \in Workers, ClaimJobs(w) PROVE ReprocessTypeOK'
  <2>1. reprocess' \in [ReprocessJobs -> JobRows]
    BY <1>7 DEF ClaimJobs, JobRows, Open
  <2>2. drain' \in [Workers -> Drains]
    BY <1>7 DEF ClaimJobs, NoDrain, Drains
  <2> QED  BY <1>7, <2>1, <2>2 DEF ClaimJobs
<1>8. ASSUME NEW w \in Workers, DrainFails(w) PROVE ReprocessTypeOK'
  BY <1>8 DEF DrainFails, Failing, NoDrain, Drains
<1>9. ASSUME NEW w \in Workers, NEW j \in ReprocessJobs, CheckJob(w, j)
      PROVE  ReprocessTypeOK'
  <2> DEFINE found == IF AllFresh(j) THEN {j} ELSE {}
  <2>1. found \in SUBSET ReprocessJobs /\ {j} \in SUBSET ReprocessJobs
    OBVIOUS
  <2>2. drain' = [drain EXCEPT ![w].checked = {j}, ![w].allFresh = found]
    BY <1>9 DEF CheckJob
  <2> HIDE DEF found
  <2>3. drain' \in [Workers -> Drains]
    <3> DEFINE x == [drain[w] EXCEPT !.checked = {j}, !.allFresh = found]
    <3>1. x \in Drains
      BY <2>1 DEF Drains
    <3>2. drain' = [drain EXCEPT ![w] = x]
      BY <2>2
    <3> HIDE DEF x
    <3> QED  BY <3>1, <3>2
  <2> QED  BY <1>9, <2>3 DEF CheckJob
<1>10. ASSUME NEW w \in Workers, NEW j \in ReprocessJobs, ResolveJob(w, j)
       PROVE  ReprocessTypeOK'
  <2>1. Resolution(w, j) \in {"succeeded", "queued"}
    BY DEF Resolution
  <2>2. reprocess' \in [ReprocessJobs -> JobRows]
    BY <1>10, <2>1 DEF ResolveJob, JobRows, Open
  <2>3. drain' \in [Workers -> Drains]
    BY <1>10 DEF ResolveJob, NoDrain, Drains
  <2> QED  BY <1>10, <2>2, <2>3 DEF ResolveJob
<1> QED
  BY <1>1, <1>2, <1>3, <1>4, <1>5, <1>6, <1>7, <1>8, <1>9, <1>10 DEF ReprocessNext

(* Nothing but the end of a detection makes a job open.                    *)
LEMMA ReprocessKept ==
  ASSUME ReprocessInv, [ReprocessNext]_reprocessVars
  PROVE  ReprocessInv'
<1>0. CASE UNCHANGED reprocessVars
  BY <1>0 DEF reprocessVars, ReprocessInv, ReprocessTypeOK, HasOpenJob, OneOpenJob
<1> SUFFICES ASSUME ReprocessNext PROVE ReprocessInv'
  BY <1>0
<1>1. ReprocessTypeOK /\ ReprocessTypeOK'
  BY ReprocessTypesKept DEF ReprocessInv
<1>2. ASSUME UNCHANGED <<detector, drain>>,
             \A j \in ReprocessJobs : reprocess'[j].status = reprocess[j].status
      PROVE  ReprocessInv'
  <2>1. \A w \in Workers : drain[w].claimed \subseteq ReprocessJobs
    BY <1>1 DEF ReprocessTypeOK, Drains
  <2> QED  BY <1>1, <1>2, <2>1 DEF ReprocessInv, HasOpenJob, OneOpenJob
<1>3. CASE BeginRequest
  BY <1>2, <1>3 DEF BeginRequest
<1>4. ASSUME NEW codes \in SUBSET Codes,
             ChangeFormula(codes) \/ \E old \in BOOLEAN : PersistSnapshots(codes, old)
      PROVE  ReprocessInv'
  <2>1. \A j \in ReprocessJobs : reprocess'[j].status = reprocess[j].status
    BY <1>1, <1>4 DEF ChangeFormula, PersistSnapshots, ReprocessTypeOK, JobRows
  <2> QED  BY <1>2, <1>4, <2>1 DEF ChangeFormula, PersistSnapshots
<1>5. ASSUME NEW w \in Workers, Detect(w) PROVE ReprocessInv'
  BY <1>1, <1>5
  DEF Detect, DetectLockFree, ReprocessInv, ReprocessTypeOK, HasOpenJob, OneOpenJob
<1>6. ASSUME NEW w \in Workers, QueueJob(w) PROVE ReprocessInv'
  <2>1. \A v \in Workers : ~detector'[v].locked
    BY <1>1, <1>6 DEF QueueJob, NoDetection, ReprocessInv, ReprocessTypeOK
  <2>2. PICK j \in ReprocessJobs :
          /\ ~Exists(j)
          /\ reprocess' = [reprocess EXCEPT ![j] =
               [status |-> "queued", codes |-> detector[w].codes, fresh |-> {}]]
    BY <1>6 DEF QueueJob
  <2>3. \A i \in ReprocessJobs : i # j => reprocess'[i] = reprocess[i]
    BY <1>1, <2>2 DEF ReprocessTypeOK
  <2>4. \A i \in ReprocessJobs : reprocess[i].status \notin Open
    BY <1>6 DEF QueueJob, ReprocessInv, HasOpenJob
  <2>5. OneOpenJob'
    BY <2>3, <2>4 DEF OneOpenJob
  <2>6. \A v \in Workers : drain[v].claimed = {}
    <3>1. \A v \in Workers : drain[v].claimed \subseteq ReprocessJobs
      BY <1>1 DEF ReprocessTypeOK, Drains
    <3>2. \A v \in Workers : \A i \in drain[v].claimed : reprocess[i].status \in Open
      BY DEF ReprocessInv, Open
    <3> QED  BY <2>4, <3>1, <3>2
  <2>7. UNCHANGED drain
    BY <1>6 DEF QueueJob
  <2> QED  BY <1>1, <2>1, <2>5, <2>6, <2>7 DEF ReprocessInv
<1>7. ASSUME NEW w \in Workers, DetectionFails(w) PROVE ReprocessInv'
  BY <1>1, <1>7
  DEF DetectionFails, NoDetection, ReprocessInv, ReprocessTypeOK, HasOpenJob, OneOpenJob
<1>8. ASSUME NEW w \in Workers, ClaimJobs(w) PROVE ReprocessInv'
  <2> DEFINE queued == {j \in ReprocessJobs : reprocess[j].status = "queued"}
  <2>1. /\ drain'[w].claimed = queued /\ drain'[w].checked = {}
        /\ \A v \in Workers : v # w => drain'[v] = drain[v]
    BY <1>1, <1>8 DEF ClaimJobs, NoDrain, ReprocessTypeOK
  <2>2. \A j \in ReprocessJobs :
          reprocess'[j].status = IF j \in queued THEN "running" ELSE reprocess[j].status
    BY <1>1, <1>8 DEF ClaimJobs, ReprocessTypeOK, JobRows
  <2>3. \A j \in ReprocessJobs : reprocess'[j].status \in Open <=> reprocess[j].status \in Open
    BY <2>2 DEF Open
  <2>4. \A v \in Workers : drain[v].claimed \intersect queued = {}
    BY DEF ReprocessInv
  <2>5. \A v \in Workers : drain[v].claimed \subseteq ReprocessJobs
    BY <1>1 DEF ReprocessTypeOK, Drains
  <2>6. UNCHANGED detector
    BY <1>8 DEF ClaimJobs
  <2> HIDE DEF queued
  <2>7. \A v, u \in Workers : v # u => drain'[v].claimed \intersect drain'[u].claimed = {}
    BY <2>1, <2>4 DEF ReprocessInv
  <2>8. \A v \in Workers :
          /\ drain'[v].checked \subseteq drain'[v].claimed
          /\ \A j \in drain'[v].claimed : reprocess'[j].status = "running"
    <3>1. queued \subseteq ReprocessJobs
      BY DEF queued
    <3> QED  BY <2>1, <2>2, <2>5, <3>1 DEF ReprocessInv
  <2>9. OneOpenJob' /\ (HasOpenJob' => HasOpenJob)
    BY <2>3 DEF ReprocessInv, OneOpenJob, HasOpenJob
  <2> QED  BY <1>1, <2>6, <2>7, <2>8, <2>9 DEF ReprocessInv
<1>9. ASSUME NEW w \in Workers, DrainFails(w) PROVE ReprocessInv'
  BY <1>1, <1>9
  DEF DrainFails, NoDrain, ReprocessInv, ReprocessTypeOK, HasOpenJob, OneOpenJob
<1>10. ASSUME NEW w \in Workers, NEW j \in ReprocessJobs, CheckJob(w, j)
       PROVE  ReprocessInv'
  <2>1. /\ drain'[w].claimed = drain[w].claimed /\ drain'[w].checked = {j}
        /\ \A v \in Workers : v # w => drain'[v] = drain[v]
    BY <1>1, <1>10 DEF CheckJob, ReprocessTypeOK, Drains
  <2>2. UNCHANGED <<detector, reprocess>> /\ j \in drain[w].claimed
    BY <1>10 DEF CheckJob
  <2>3. \A v \in Workers :
          drain'[v].claimed = drain[v].claimed /\ drain'[v].checked \subseteq drain[v].claimed
    BY <2>1, <2>2 DEF ReprocessInv
  <2> QED
    BY <1>1, <2>2, <2>3 DEF ReprocessInv, HasOpenJob, OneOpenJob
<1>11. ASSUME NEW w \in Workers, NEW j \in ReprocessJobs, ResolveJob(w, j)
       PROVE  ReprocessInv'
  <2>1. /\ drain'[w].claimed = drain[w].claimed \ {j} /\ drain'[w].checked = {}
        /\ \A v \in Workers : v # w => drain'[v] = drain[v]
    BY <1>1, <1>11 DEF ResolveJob, NoDrain, ReprocessTypeOK
  <2>2. j \in drain[w].claimed /\ reprocess[j].status = "running"
    BY <1>11 DEF ResolveJob, ReprocessInv
  <2>3. \A i \in ReprocessJobs : i # j => reprocess'[i] = reprocess[i]
    BY <1>1, <1>11 DEF ResolveJob, ReprocessTypeOK
  <2>4. \A v \in Workers : drain[v].claimed \subseteq ReprocessJobs
    BY <1>1 DEF ReprocessTypeOK, Drains
  <2>5. \A v \in Workers : v # w => j \notin drain[v].claimed
    BY <2>2 DEF ReprocessInv
  <2>6. UNCHANGED detector
    BY <1>11 DEF ResolveJob
  <2>7. OneOpenJob' /\ (HasOpenJob' => HasOpenJob)
    BY <2>2, <2>3 DEF ReprocessInv, OneOpenJob, HasOpenJob, Open
  <2>8. \A v \in Workers :
          /\ drain'[v].checked \subseteq drain'[v].claimed
          /\ \A i \in drain'[v].claimed : reprocess'[i].status = "running"
    BY <2>1, <2>3, <2>4, <2>5 DEF ReprocessInv
  <2>9. \A v, u \in Workers : v # u => drain'[v].claimed \intersect drain'[u].claimed = {}
    BY <2>1 DEF ReprocessInv
  <2> QED  BY <1>1, <2>6, <2>7, <2>8, <2>9 DEF ReprocessInv
<1> QED
  BY <1>3, <1>4, <1>5, <1>6, <1>7, <1>8, <1>9, <1>10, <1>11 DEF ReprocessNext

LEMMA ReprocessInitially == ReprocessInit => ReprocessInv
BY WorkerAssumption
DEF ReprocessInit, ReprocessInv, ReprocessTypeOK, JobRows, NoJob, Open, NoRequest, NoDetection,
    Drains, NoDrain, HasOpenJob, OneOpenJob

-----------------------------------------------------------------------------
(* The hourly schedule. *)

LEMMA RunQueueTypes ==
  ASSUME RunQueue!QueueTypeOK, NEW h \in Hours, NEW w \in Workers,
         \/ RunQueue!Add(h) \/ RunQueue!Deliver(h, w) \/ RunQueue!Complete(h, w)
         \/ RunQueue!FailAttempt(h, w) \/ RunQueue!Promote(h) \/ RunQueue!Stall(h)
         \/ RunQueue!Orphan({w})
  PROVE  /\ RunQueue!QueueTypeOK'
         /\ \A g \in Hours : runJob[g] # "none" => runJob'[g] # "none"
         /\ \A g \in Hours : runJob[g] # "completed" /\ runJob'[g] = "completed" =>
              RunQueue!Complete(h, w) /\ g = h
<1> USE ScheduleAssumption DEF RunQueue!QueueTypeOK, RunQueue!QueueStates
<1>1. CASE RunQueue!Add(h) \/ RunQueue!Deliver(h, w)
  BY <1>1 DEF RunQueue!Add, RunQueue!Deliver
<1>2. CASE RunQueue!Complete(h, w)
  BY <1>2 DEF RunQueue!Complete
<1>3. CASE RunQueue!FailAttempt(h, w)
  <2>1. CASE runHolder[h] = w
    BY <1>3, <2>1 DEF RunQueue!FailAttempt
  <2>2. CASE runHolder[h] # w
    BY <1>3, <2>2 DEF RunQueue!FailAttempt, RunQueue!queueVars
  <2> QED  BY <2>1, <2>2
<1>4. CASE RunQueue!Promote(h)
  BY <1>4 DEF RunQueue!Promote
<1>5. CASE RunQueue!Stall(h)
  BY <1>5 DEF RunQueue!Stall
<1>6. CASE RunQueue!Orphan({w})
  BY <1>6 DEF RunQueue!Orphan
<1> QED  BY <1>1, <1>2, <1>3, <1>4, <1>5, <1>6

LEMMA ScheduleTypesKept ==
  ASSUME ScheduleTypeOK, RowsInv, ScheduleNext
  PROVE  ScheduleTypeOK'
<1> USE WorkerAssumption, ScheduleAssumption DEF ScheduleTypeOK
<1>1. ASSUME UNCHANGED runJobVars PROVE RunQueue!QueueTypeOK'
  BY <1>1 DEF runJobVars, RunQueue!QueueTypeOK
<1>2. ASSUME NEW w \in Workers, NEW h \in Hours, Reserve(w, h) PROVE ScheduleTypeOK'
  BY <1>1, <1>2 DEF Reserve, runnerVars
<1>3. ASSUME NEW w \in Workers, NEW h \in Hours, StartRun(w, h) PROVE ScheduleTypeOK'
  BY <1>3, RunQueueTypes DEF StartRun
<1>4. ASSUME NEW w \in Workers, AddRun(w) PROVE ScheduleTypeOK'
  <2>1. cron[w].hour \in Hours
    BY <1>4 DEF AddRun, RowsInv
  <2>2. RunQueue!QueueTypeOK'
    BY <1>1, <1>4, <2>1, RunQueueTypes DEF AddRun
  <2> QED  BY <1>4, <2>2 DEF AddRun, runnerVars
<1>5. ASSUME NEW w \in Workers, CommitReservation(w) PROVE ScheduleTypeOK'
  BY <1>1, <1>5 DEF CommitReservation, IdleCron, runnerVars
<1>6. ASSUME NEW w \in Workers, CronFails(w) PROVE ScheduleTypeOK'
  BY <1>1, <1>6 DEF CronFails, CronFault, IdleCron, runnerVars
<1>7. ASSUME NEW w \in Workers, MarkRow(w) PROVE ScheduleTypeOK'
  <2>1. runner[w] \in Hours
    BY <1>7 DEF MarkRow
  <2> QED  BY <1>1, <1>7, <2>1 DEF MarkRow, RowOf
<1>8. ASSUME NEW w \in Workers, FinishRun(w) PROVE ScheduleTypeOK'
  <2>1. runner[w] \in Hours
    BY <1>8 DEF FinishRun
  <2>2. RunQueue!QueueTypeOK'
    BY <1>8, <2>1, RunQueueTypes DEF FinishRun
  <2> QED  BY <1>8, <2>1, <2>2 DEF FinishRun
<1>9. ASSUME NEW w \in Workers, RunThrows(w) PROVE ScheduleTypeOK'
  <2>1. runner[w] \in Hours
    BY <1>9 DEF RunThrows
  <2>2. RunQueue!QueueTypeOK'
    BY <1>9, <2>1, RunQueueTypes DEF RunThrows
  <2> QED  BY <1>9, <2>1, <2>2 DEF RunThrows, CronFault
<1>10. ASSUME NEW w \in Workers, RunCrashes(w) PROVE ScheduleTypeOK'
  <2>1. runner[w] \in Hours
    BY <1>10 DEF RunCrashes
  <2>2. RunQueue!QueueTypeOK'
    BY <1>10, <2>1, RunQueueTypes DEF RunCrashes
  <2> QED  BY <1>10, <2>1, <2>2 DEF RunCrashes, CronFault
<1>11. ASSUME NEW h \in Hours, StallRun(h) \/ RetryRun(h) PROVE ScheduleTypeOK'
  <2>1. RunQueue!QueueTypeOK'
    <3>1. CASE RunQueue!Stall(h)
      BY <3>1 DEF RunQueue!Stall, RunQueue!QueueTypeOK, RunQueue!QueueStates
    <3>2. CASE RunQueue!Promote(h)
      BY <3>2 DEF RunQueue!Promote, RunQueue!QueueTypeOK, RunQueue!QueueStates
    <3> QED  BY <1>11, <3>1, <3>2 DEF StallRun, RetryRun
  <2>2. cronFaults' \in 0 .. MaxFaults
    BY <1>11 DEF StallRun, RetryRun, CronFault
  <2> QED  BY <1>11, <2>1, <2>2 DEF StallRun, RetryRun, runnerVars
<1> QED
  BY <1>2, <1>3, <1>4, <1>5, <1>6, <1>7, <1>8, <1>9, <1>10, <1>11 DEF ScheduleNext

(* A worker less, or a worker more, runs the job of an hour.               *)
LEMMA RunnerLeaves ==
  ASSUME ScheduleTypeOK, NEW h \in Hours, NEW w \in Workers, IsFiniteSet(Running(h)),
         runner' = [runner EXCEPT ![w] = 0]
  PROVE  /\ IsFiniteSet(Running(h)')
         /\ Cardinality(Running(h)') \in Nat /\ Cardinality(Running(h)) \in Nat
         /\ Cardinality(Running(h)') <= Cardinality(Running(h))
         /\ runner[w] = h => Cardinality(Running(h)') + 1 = Cardinality(Running(h))
<1>1. Running(h)' = Running(h) \ {w}
  BY DEF Running, Hours, ScheduleTypeOK
<1>2. runner[w] = h <=> w \in Running(h)
  BY DEF Running
<1>3. /\ IsFiniteSet(Running(h) \ {w})
      /\ Cardinality(Running(h) \ {w}) =
           IF w \in Running(h) THEN Cardinality(Running(h)) - 1 ELSE Cardinality(Running(h))
  BY FS_RemoveElement
<1>4. Cardinality(Running(h)) \in Nat /\ Cardinality(Running(h) \ {w}) \in Nat
  BY <1>3, FS_CardinalityType
<1> HIDE DEF Running
<1> QED  BY <1>1, <1>2, <1>3, <1>4

LEMMA RunnerComes ==
  ASSUME ScheduleTypeOK, NEW h \in Hours, NEW w \in Workers, NEW g \in Hours,
         IsFiniteSet(Running(h)), runner[w] = 0, runner' = [runner EXCEPT ![w] = g]
  PROVE  /\ IsFiniteSet(Running(h)')
         /\ Cardinality(Running(h)) \in Nat
         /\ Cardinality(Running(h)') = Cardinality(Running(h)) + (IF g = h THEN 1 ELSE 0)
<1>1. w \notin Running(h)
  BY DEF Running, Hours
<1>2. CASE g = h
  <2>1. Running(h)' = Running(h) \union {w}
    BY <1>2 DEF Running, ScheduleTypeOK
  <2> QED  BY <1>1, <1>2, <2>1, FS_AddElement, FS_CardinalityType
<1>3. CASE g # h
  <2>1. Running(h)' = Running(h)
    BY <1>1, <1>3 DEF Running, ScheduleTypeOK
  <2> QED  BY <1>3, <2>1, FS_CardinalityType
<1> QED  BY <1>2, <1>3

(* The job of an hour ends, is running or can be delivered: once, and once *)
(* more for each stall.                                                    *)
LEMMA RunsAreCounted ==
  ASSUME ScheduleTypeOK, RowsInv, ScheduleNext, NEW h \in Hours, Counted(h)
  PROVE  Counted(h)'
<1> USE DEF Counted
<1>1. /\ completed[h] \in Nat /\ runStalls[h] \in Nat /\ Deliverable(h) \in {0, 1}
      /\ Cardinality(Running(h)) \in Nat
  BY ScheduleAssumption, FS_CardinalityType
  DEF ScheduleTypeOK, RunQueue!QueueTypeOK, Deliverable
<1>2. ASSUME UNCHANGED <<runner, completed>>, Deliverable(h)' <= Deliverable(h) \/ runStalls'[h] > runStalls[h],
             Deliverable(h)' \in {0, 1}, runStalls'[h] \in Nat, runStalls'[h] >= runStalls[h]
      PROVE  Counted(h)'
  <2>1. Running(h)' = Running(h)
    BY <1>2 DEF Running
  <2> HIDE DEF Running, Deliverable
  <2> QED  BY <1>1, <1>2, <2>1
<1>3. ASSUME NEW w \in Workers,
             \/ \E g \in Hours : Reserve(w, g)
             \/ CommitReservation(w) \/ CronFails(w) \/ MarkRow(w)
      PROVE  Counted(h)'
  <2>1. UNCHANGED <<runJob, runStalls, runner, completed>>
    BY <1>3 DEF Reserve, CommitReservation, CronFails, MarkRow, runJobVars, runnerVars
  <2> QED  BY <1>1, <1>2, <2>1 DEF Deliverable
<1>4. ASSUME NEW w \in Workers, AddRun(w) PROVE Counted(h)'
  <2>1. UNCHANGED <<runStalls, runner, completed>>
    BY <1>4 DEF AddRun, RunQueue!Add, runJobVars, runnerVars
  <2>2. Deliverable(h)' = Deliverable(h)
    BY <1>4 DEF AddRun, RunQueue!Add, runJobVars, Deliverable, ScheduleTypeOK, RunQueue!QueueTypeOK
  <2> QED  BY <1>1, <1>2, <2>1, <2>2
<1>5. ASSUME NEW w \in Workers, NEW g \in Hours, StartRun(w, g) PROVE Counted(h)'
  <2>1. /\ IsFiniteSet(Running(h)')
        /\ Cardinality(Running(h)') = Cardinality(Running(h)) + (IF g = h THEN 1 ELSE 0)
    BY <1>5, RunnerComes DEF StartRun
  <2>2. UNCHANGED <<runStalls, completed>>
    BY <1>5 DEF StartRun, RunQueue!Deliver
  <2>3. Deliverable(h)' = Deliverable(h) - (IF g = h THEN 1 ELSE 0)
    BY <1>5 DEF StartRun, RunQueue!Deliver, Deliverable, ScheduleTypeOK, RunQueue!QueueTypeOK
  <2> HIDE DEF Running, Deliverable
  <2> QED  BY <1>1, <2>1, <2>2, <2>3
<1>6. ASSUME NEW w \in Workers, runner[w] # 0, FinishRun(w) \/ RunThrows(w) \/ RunCrashes(w)
      PROVE  Counted(h)'
  <2>1. /\ IsFiniteSet(Running(h)')
        /\ Cardinality(Running(h)') \in Nat
        /\ Cardinality(Running(h)') <= Cardinality(Running(h))
        /\ runner[w] = h => Cardinality(Running(h)') + 1 = Cardinality(Running(h))
    BY <1>6, RunnerLeaves DEF FinishRun, RunThrows, RunCrashes
  <2>2. runner[w] \in Hours
    BY <1>6 DEF ScheduleTypeOK
  <2>3. runStalls' = runStalls
    BY <1>6
    DEF FinishRun, RunThrows, RunCrashes, RunQueue!Complete, RunQueue!FailAttempt,
        RunQueue!Orphan, RunQueue!queueVars
  <2>4. \/ /\ runner[w] = h
           /\ \/ completed'[h] = completed[h] + 1 /\ Deliverable(h)' <= Deliverable(h)
              \/ completed'[h] = completed[h] /\ Deliverable(h)' <= 1
        \/ completed'[h] = completed[h] /\ Deliverable(h)' <= Deliverable(h)
    <3>1. CASE FinishRun(w)
      <4>1. Deliverable(h)' <= Deliverable(h)
        BY <2>2, <3>1
        DEF FinishRun, RunQueue!Complete, Deliverable, ScheduleTypeOK, RunQueue!QueueTypeOK
      <4> QED  BY <2>2, <3>1, <4>1 DEF FinishRun, ScheduleTypeOK
    <3>2. CASE RunThrows(w)
      <4>1. completed'[h] = completed[h]
        BY <3>2 DEF RunThrows
      <4>2. Deliverable(h)' <= 1
        BY DEF Deliverable
      <4>3. runner[w] # h => Deliverable(h)' = Deliverable(h)
        BY <2>2, <3>2
        DEF RunThrows, RunQueue!FailAttempt, RunQueue!queueVars, Deliverable, ScheduleTypeOK,
            RunQueue!QueueTypeOK
      <4> QED  BY <1>1, <4>1, <4>2, <4>3
    <3>3. CASE RunCrashes(w)
      <4>1. completed'[h] = completed[h] /\ runJob' = runJob
        BY <3>3 DEF RunCrashes, RunQueue!Orphan
      <4> QED  BY <1>1, <4>1 DEF Deliverable
    <3> QED  BY <1>6, <3>1, <3>2, <3>3
  <2>5. Deliverable(h)' \in {0, 1}
    BY DEF Deliverable
  <2> HIDE DEF Running, Deliverable
  <2> QED  BY <1>1, <2>1, <2>3, <2>4, <2>5
<1>7. ASSUME NEW g \in Hours, StallRun(g) PROVE Counted(h)'
  <2>1. UNCHANGED <<runner, completed>>
    BY <1>7 DEF StallRun, runnerVars
  <2>2. Deliverable(h)' \in {0, 1}
    BY DEF Deliverable
  <2>3. /\ runStalls'[h] \in Nat /\ runStalls'[h] >= runStalls[h]
        /\ Deliverable(h)' <= Deliverable(h) \/ runStalls'[h] > runStalls[h]
    <3>1. runStalls \in [Hours -> 0 .. RunStallLimit] /\ runJob \in [Hours -> RunQueue!QueueStates]
      BY DEF ScheduleTypeOK, RunQueue!QueueTypeOK
    <3>2. CASE g = h
      BY <1>1, <1>7, <3>1, <3>2, ScheduleAssumption DEF StallRun, RunQueue!Stall, Deliverable
    <3>3. CASE g # h
      BY <1>1, <1>7, <3>1, <3>3 DEF StallRun, RunQueue!Stall, Deliverable
    <3> QED  BY <3>2, <3>3
  <2> QED  BY <1>2, <2>1, <2>2, <2>3
<1>8. ASSUME NEW g \in Hours, RetryRun(g) PROVE Counted(h)'
  <2>1. UNCHANGED <<runStalls, runner, completed>>
    BY <1>8 DEF RetryRun, RunQueue!Promote, runnerVars
  <2>2. Deliverable(h)' = Deliverable(h)
    BY <1>8 DEF RetryRun, RunQueue!Promote, Deliverable, ScheduleTypeOK, RunQueue!QueueTypeOK
  <2> QED  BY <1>1, <1>2, <2>1, <2>2
<1> QED
  BY <1>3, <1>4, <1>5, <1>6, <1>7, <1>8 DEF ScheduleNext, FinishRun, RunThrows, RunCrashes

(* The row of an hour is settled before its job can be complete, unless    *)
(* the row came after the job: only one process can be about to commit it. *)
LEMMA RowsKept ==
  ASSUME ScheduleTypeOK, RowsInv, ScheduleNext
  PROVE  RowsInv'
<1>1. \A w \in Workers : runner[w] # 0 => runner[w] \in Hours
  BY DEF ScheduleTypeOK
<1>2. ASSUME NEW w \in Workers, NEW h \in Hours, Reserve(w, h) PROVE RowsInv'
  <2>1. cron'[w].pc = "reserved" /\ cron'[w].hour = h /\ ~Taken(h)
    BY <1>2 DEF Reserve, ScheduleTypeOK
  <2>2. \A v \in Workers : v # w => cron'[v] = cron[v] /\ cron[v].pc = "idle"
    BY <1>2 DEF Reserve, CronLockFree, ScheduleTypeOK
  <2>3. UNCHANGED <<reserved, runJob, runner, marked, early>>
    BY <1>2 DEF Reserve, runJobVars, runnerVars
  <2> QED  BY <2>1, <2>2, <2>3 DEF RowsInv, Taken, Settled
<1>3. ASSUME NEW w \in Workers, AddRun(w) PROVE RowsInv'
  <2>1. /\ cron'[w].pc = "added" /\ cron'[w].hour = cron[w].hour /\ cron[w].pc = "reserved"
        /\ \A v \in Workers : v # w => cron'[v] = cron[v]
    BY <1>3 DEF AddRun, ScheduleTypeOK
  <2>2. UNCHANGED <<reserved, runner, marked, early>>
    BY <1>3 DEF AddRun, runnerVars
  <2>3. cron[w].hour \in Hours
    BY <2>1 DEF RowsInv
  <2>4. /\ runJob'[cron[w].hour] # "none"
        /\ \A g \in Hours :
             /\ runJob[g] # "none" => runJob'[g] # "none"
             /\ runJob'[g] = "completed" => runJob[g] = "completed"
    BY <1>3, <2>3
    DEF AddRun, RunQueue!Add, runJobVars, ScheduleTypeOK, RunQueue!QueueTypeOK
  <2> QED  BY <1>1, <2>1, <2>2, <2>3, <2>4 DEF RowsInv, Taken, Settled
<1>4. ASSUME NEW w \in Workers, CommitReservation(w) PROVE RowsInv'
  <2>1. /\ cron'[w].pc = "idle" /\ cron[w].pc = "added"
        /\ \A v \in Workers : v # w => cron'[v] = cron[v] /\ cron[v].pc = "idle"
    BY <1>4 DEF CommitReservation, IdleCron, ScheduleTypeOK, RowsInv
  <2>2. UNCHANGED <<runJob, runner, marked, early>>
    BY <1>4 DEF CommitReservation, runJobVars, runnerVars
  <2>3. cron[w].hour \in Hours /\ reserved[cron[w].hour] = "none" /\ runJob[cron[w].hour] # "none"
    BY <2>1 DEF RowsInv, Taken
  <2>4. \A g \in Hours :
          reserved'[g] = IF g = cron[w].hour THEN "enqueued" ELSE reserved[g]
    BY <1>4 DEF CommitReservation, ScheduleTypeOK
  <2>5. \A g \in Hours : Settled(g) => Settled(g)'
    BY <2>2, <2>3, <2>4 DEF Settled
  <2>6. \A v \in Workers : cron'[v].pc = "idle"
    BY <2>1
  <2>7. \A g \in Hours : reserved'[g] # "none" => runJob'[g] # "none"
    BY <2>2, <2>3, <2>4 DEF RowsInv
  <2> QED  BY <1>1, <2>2, <2>5, <2>6, <2>7 DEF RowsInv
<1>5. ASSUME NEW w \in Workers, CronFails(w) PROVE RowsInv'
  <2>1. /\ cron'[w].pc = "idle"
        /\ \A v \in Workers : v # w => cron'[v] = cron[v]
    BY <1>5 DEF CronFails, IdleCron, ScheduleTypeOK
  <2>2. UNCHANGED <<reserved, runJob, runner, marked, early>>
    BY <1>5 DEF CronFails, runJobVars, runnerVars
  <2> QED  BY <2>1, <2>2 DEF RowsInv, Taken, Settled
<1>6. ASSUME NEW w \in Workers, NEW h \in Hours, StartRun(w, h) PROVE RowsInv'
  <2>1. UNCHANGED <<reserved, cron, early>>
    BY <1>6 DEF StartRun
  <2>2. /\ runner'[w] = h /\ ~marked'[w]
        /\ \A v \in Workers : v # w => runner'[v] = runner[v] /\ marked'[v] = marked[v]
    BY <1>6 DEF StartRun, ScheduleTypeOK
  <2>3. \A g \in Hours :
          /\ g = h => runJob'[g] # "none"
          /\ runJob[g] # "none" => runJob'[g] # "none"
          /\ runJob'[g] = "completed" => runJob[g] = "completed"
    BY <1>6 DEF StartRun, RunQueue!Deliver, ScheduleTypeOK, RunQueue!QueueTypeOK
  <2> QED  BY <1>1, <2>1, <2>2, <2>3 DEF RowsInv, Taken, Settled
<1>7. ASSUME NEW w \in Workers, MarkRow(w) PROVE RowsInv'
  <2>1. runner[w] \in Hours /\ runner[w] # 0
    BY <1>1, <1>7 DEF MarkRow
  <2>2. UNCHANGED <<cron, runJob, runner>>
    BY <1>7 DEF MarkRow, runJobVars
  <2>3. /\ \A g \in Hours : (reserved'[g] # "none" <=> reserved[g] # "none")
        /\ \A g \in Hours : Settled(g) => Settled(g)'
        /\ Settled(runner[w])'
    <3>1. CASE Taken(runner[w])
      <4>1. PICK outcome \in {"completed", "failed"} :
              reserved' = [reserved EXCEPT ![runner[w]] = outcome] /\ UNCHANGED early
        BY <1>7, <3>1 DEF MarkRow, RowOf
      <4> QED  BY <2>1, <2>2, <3>1, <4>1 DEF Taken, Settled, ScheduleTypeOK
    <3>2. CASE ~Taken(runner[w])
      <4>1. early' = early \union {runner[w]} /\ UNCHANGED reserved
        BY <1>7, <3>2 DEF MarkRow, RowOf
      <4> QED  BY <2>2, <4>1 DEF Settled
    <3> QED  BY <3>1, <3>2
  <2>4. \A v \in Workers : v # w => marked'[v] = marked[v]
    BY <1>7 DEF MarkRow, ScheduleTypeOK
  <2>5. \A v \in Workers : runner[v] # 0 /\ marked'[v] => Settled(runner[v])'
    <3> TAKE v \in Workers
    <3>1. CASE v = w
      BY <2>3, <3>1
    <3>2. CASE v # w
      BY <1>1, <2>2, <2>3, <2>4, <3>2 DEF RowsInv, Settled
    <3> QED  BY <3>1, <3>2
  <2> QED  BY <2>2, <2>3, <2>5 DEF RowsInv, Taken
<1>8. ASSUME NEW w \in Workers, runner[w] # 0, FinishRun(w) \/ RunThrows(w) \/ RunCrashes(w)
      PROVE  RowsInv'
  <2>1. UNCHANGED <<reserved, cron, marked, early>>
    BY <1>8 DEF FinishRun, RunThrows, RunCrashes
  <2>2. runner' = [runner EXCEPT ![w] = 0]
    BY <1>8 DEF FinishRun, RunThrows, RunCrashes
  <2>3. \A v \in Workers : runner'[v] # 0 => v # w /\ runner'[v] = runner[v]
    BY <2>2 DEF ScheduleTypeOK
  <2>4. runner[w] \in Hours
    BY <1>1, <1>8
  <2>5. \A g \in Hours :
          /\ runJob[g] # "none" => runJob'[g] # "none"
          /\ runJob[g] # "completed" /\ runJob'[g] = "completed" => FinishRun(w) /\ g = runner[w]
    <3>1. CASE FinishRun(w)
      <4>1. RunQueue!Complete(runner[w], w)
        BY <3>1 DEF FinishRun
      <4> QED
        BY <2>4, <3>1, <4>1 DEF RunQueue!Complete, ScheduleTypeOK, RunQueue!QueueTypeOK
    <3>2. CASE RunThrows(w)
      <4>1. RunQueue!FailAttempt(runner[w], w)
        BY <3>2 DEF RunThrows
      <4> QED
        BY <2>4, <4>1
        DEF RunQueue!FailAttempt, RunQueue!queueVars, ScheduleTypeOK, RunQueue!QueueTypeOK
    <3>3. CASE RunCrashes(w)
      BY <3>3 DEF RunCrashes, RunQueue!Orphan
    <3> QED  BY <1>8, <3>1, <3>2, <3>3
  <2>6. \A g \in Hours : Settled(g)' <=> Settled(g)
    BY <2>1 DEF Settled
  <2>7. FinishRun(w) => Settled(runner[w])
    BY DEF FinishRun, RowsInv
  <2>8. \A g \in Hours : runJob'[g] = "completed" => Settled(g)'
    BY <2>5, <2>6, <2>7 DEF RowsInv
  <2>9. \A v \in Workers :
          /\ cron[v].pc = "added" => runJob'[cron[v].hour] # "none"
          /\ runner'[v] # 0 => runJob'[runner'[v]] # "none"
          /\ (runner[v] # 0 /\ marked[v] => Settled(runner[v]))'
    <3> TAKE v \in Workers
    <3>1. cron[v].pc = "added" => runJob'[cron[v].hour] # "none"
      BY <2>5 DEF RowsInv
    <3>2. runner'[v] # 0 => runJob'[runner'[v]] # "none"
      BY <1>1, <2>3, <2>5 DEF RowsInv
    <3>3. (runner[v] # 0 /\ marked[v] => Settled(runner[v]))'
      BY <1>1, <2>1, <2>3 DEF RowsInv, Settled
    <3> QED  BY <3>1, <3>2, <3>3
  <2> QED  BY <2>1, <2>5, <2>8, <2>9 DEF RowsInv, Taken
<1>9. ASSUME NEW h \in Hours, StallRun(h) \/ RetryRun(h) PROVE RowsInv'
  <2>1. UNCHANGED <<reserved, cron, runner, marked, early>>
    BY <1>9 DEF StallRun, RetryRun, runnerVars
  <2>2. \A g \in Hours :
          /\ runJob[g] # "none" => runJob'[g] # "none"
          /\ runJob'[g] = "completed" => runJob[g] = "completed"
    BY <1>9
    DEF StallRun, RetryRun, RunQueue!Stall, RunQueue!Promote, ScheduleTypeOK, RunQueue!QueueTypeOK
  <2> QED  BY <1>1, <2>1, <2>2 DEF RowsInv, Taken, Settled
<1> QED
  BY <1>2, <1>3, <1>4, <1>5, <1>6, <1>7, <1>8, <1>9
  DEF ScheduleNext, FinishRun, RunThrows, RunCrashes

LEMMA ScheduleKept ==
  ASSUME ScheduleInv, [ScheduleNext]_scheduleVars
  PROVE  ScheduleInv'
<1>1. CASE UNCHANGED scheduleVars
  <2>1. UNCHANGED <<reserved, cron, runJob, runHolder, runTries, runStalls, runner, marked,
                    completed, early, cronFaults>>
    BY <1>1 DEF scheduleVars, runJobVars, runnerVars
  <2>2. \A h \in Hours : Running(h)' = Running(h) /\ Deliverable(h)' = Deliverable(h)
    BY <2>1 DEF Running, Deliverable
  <2>3. \A h \in Hours : Counted(h) => Counted(h)'
    BY <2>1, <2>2 DEF Counted
  <2>4. ScheduleTypeOK'
    BY <2>1 DEF ScheduleInv, ScheduleTypeOK, RunQueue!QueueTypeOK
  <2>5. RowsInv'
    BY <2>1 DEF ScheduleInv, RowsInv, Taken, Settled
  <2> QED  BY <2>3, <2>4, <2>5 DEF ScheduleInv
<1>2. CASE ScheduleNext
  BY <1>2, ScheduleTypesKept, RowsKept, RunsAreCounted DEF ScheduleInv
<1> QED  BY <1>1, <1>2

LEMMA ScheduleInitially == ScheduleInit => ScheduleInv
<1> SUFFICES ASSUME ScheduleInit PROVE ScheduleInv
  OBVIOUS
<1> USE DEF ScheduleInit, RunQueue!QueueInit
<1>1. ScheduleTypeOK
  BY WorkerAssumption, ScheduleAssumption
  DEF ScheduleTypeOK, IdleCron, RunQueue!QueueTypeOK, RunQueue!QueueStates
<1>2. RowsInv
  BY DEF RowsInv, IdleCron, Taken
<1>3. ASSUME NEW h \in Hours PROVE Counted(h)
  <2>1. Running(h) = {}
    BY DEF Running, Hours
  <2>2. completed[h] = 0 /\ runStalls[h] = 0 /\ Deliverable(h) = 1
    BY DEF Deliverable
  <2>3. IsFiniteSet(Running(h)) /\ Cardinality(Running(h)) = 0
    BY <2>1, FS_EmptySet
  <2> HIDE DEF Running, Deliverable
  <2> QED  BY <2>2, <2>3 DEF Counted
<1> QED  BY <1>1, <1>2, <1>3 DEF ScheduleInv

-----------------------------------------------------------------------------
(* Report exports. *)

LEMMA ReportQueueTypes ==
  ASSUME ReportQueue!QueueTypeOK, NEW w \in Workers,
         \/ ReportQueue!Add(TheJob) \/ ReportQueue!Deliver(TheJob, w)
         \/ ReportQueue!Complete(TheJob, w) \/ ReportQueue!FailAttempt(TheJob, w)
         \/ ReportQueue!Orphan({w}) \/ UNCHANGED reportJobVars
  PROVE  ReportQueue!QueueTypeOK'
<1> USE PlatformJobAssumption DEF ReportQueue!QueueTypeOK, ReportQueue!QueueStates
<1>1. CASE ReportQueue!Add(TheJob) \/ ReportQueue!Deliver(TheJob, w)
  BY <1>1 DEF ReportQueue!Add, ReportQueue!Deliver
<1>2. CASE ReportQueue!Complete(TheJob, w)
  BY <1>2 DEF ReportQueue!Complete
<1>3. CASE ReportQueue!FailAttempt(TheJob, w)
  <2>1. CASE reportHolder[TheJob] = w
    BY <1>3, <2>1 DEF ReportQueue!FailAttempt
  <2>2. CASE reportHolder[TheJob] # w
    BY <1>3, <2>2 DEF ReportQueue!FailAttempt, ReportQueue!queueVars
  <2> QED  BY <2>1, <2>2
<1>4. CASE ReportQueue!Orphan({w})
  BY <1>4 DEF ReportQueue!Orphan
<1>5. CASE UNCHANGED reportJobVars
  BY <1>5 DEF reportJobVars
<1> QED  BY <1>1, <1>2, <1>3, <1>4, <1>5

LEMMA ReportTypesKept ==
  ASSUME ReportTypeOK, ReportNext
  PROVE  ReportTypeOK'
<1> USE PlatformJobAssumption DEF ReportTypeOK, ReportRows, NotMaking
<1>1. ASSUME UNCHANGED reportJobVars PROVE ReportQueue!QueueTypeOK'
  BY <1>1 DEF reportJobVars, ReportQueue!QueueTypeOK
<1>2. CASE SnapshotsArrive \/ RequestReport \/ RequestFails \/ ReportExpires
  <2>1. ReportQueue!QueueTypeOK'
    BY <1>1, <1>2 DEF SnapshotsArrive, RequestReport, RequestFails, ReportExpires
  <2>2. report' \in ReportRows
    BY <1>2 DEF SnapshotsArrive, RequestReport, RequestFails, ReportExpires
  <2>3. CASE SnapshotsArrive
    BY <2>1, <2>3 DEF SnapshotsArrive
  <2>4. CASE RequestReport
    BY <2>1, <2>2, <2>4 DEF RequestReport
  <2>5. CASE RequestFails
    <3>1. reportFaults' \in 0 .. MaxJobFaults
      BY <2>5 DEF RequestFails, ReportFault
    <3> QED  BY <2>1, <2>5, <3>1 DEF RequestFails
  <2>6. CASE ReportExpires
    BY <2>1, <2>2, <2>6 DEF ReportExpires
  <2> QED  BY <1>2, <2>3, <2>4, <2>5, <2>6
<1>3. CASE EnqueueReport \/ RetryReport \/ StallReport \/ DropReportJob
  <2>1. ReportQueue!QueueTypeOK'
    <3> USE DEF ReportQueue!QueueTypeOK, ReportQueue!QueueStates
    <3>1. CASE ReportQueue!Add(TheJob)
      BY <3>1 DEF ReportQueue!Add
    <3>2. CASE ReportQueue!Promote(TheJob)
      BY <3>2 DEF ReportQueue!Promote
    <3>3. CASE ReportQueue!Stall(TheJob)
      BY <3>3 DEF ReportQueue!Stall
    <3>4. CASE DropReportJob
      BY <3>4 DEF DropReportJob
    <3>5. CASE UNCHANGED reportJobVars
      BY <1>1, <3>5
    <3> QED
      BY <1>3, <3>1, <3>2, <3>3, <3>4, <3>5 DEF EnqueueReport, RetryReport, StallReport
  <2>2. reportFaults' \in 0 .. MaxJobFaults
    BY <1>3 DEF EnqueueReport, RetryReport, StallReport, DropReportJob, ReportFault
  <2>3. /\ creating' \in BOOLEAN
        /\ UNCHANGED <<report, object, rendered, snapshots, making, sweep, overwritten, met>>
    BY <1>3 DEF EnqueueReport, RetryReport, StallReport, DropReportJob
  <2> QED  BY <2>1, <2>2, <2>3
<1>4. ASSUME NEW w \in Workers, MakeSteps(w) PROVE ReportTypeOK'
  <2>1. ReportQueue!QueueTypeOK'
    BY <1>1, <1>4, ReportQueueTypes
    DEF MakeSteps, StartReport, ReadReport, FailReport, PutArtifact, CommitReport, CompleteReport
  <2>2. CASE StartReport(w) \/ CompleteReport(w)
    BY <2>1, <2>2 DEF StartReport, CompleteReport
  <2>3. CASE ReadReport(w) \/ FailReport(w)
    BY <2>1, <2>3 DEF ReadReport, FailReport
  <2>4. CASE PutArtifact(w)
    BY <2>1, <2>4 DEF PutArtifact
  <2>5. CASE CommitReport(w)
    BY <2>1, <2>5 DEF CommitReport
  <2> QED  BY <1>4, <2>2, <2>3, <2>4, <2>5 DEF MakeSteps
<1>5. ASSUME NEW w \in Workers, ReportThrows(w) \/ CrashReport(w) PROVE ReportTypeOK'
  <2>1. ReportQueue!QueueTypeOK'
    BY <1>5, ReportQueueTypes DEF ReportThrows, CrashReport
  <2> QED  BY <1>5, <2>1 DEF ReportThrows, CrashReport, ReportFault
<1>6. ASSUME NEW w \in Workers, SweepSteps(w) \/ SweepFails(w) PROVE ReportTypeOK'
  <2>1. ReportQueue!QueueTypeOK'
    BY <1>1, <1>6 DEF SweepSteps, SelectExpired, DeleteArtifact, MarkExpired, SweepFails
  <2>2. CASE SelectExpired(w)
    BY <2>1, <2>2 DEF SelectExpired
  <2>3. CASE DeleteArtifact(w)
    BY <2>1, <2>3 DEF DeleteArtifact
  <2>4. CASE MarkExpired(w)
    BY <2>1, <2>4 DEF MarkExpired
  <2>5. CASE SweepFails(w)
    BY <2>1, <2>5 DEF SweepFails, ReportFault
  <2> QED  BY <1>6, <2>2, <2>3, <2>4, <2>5 DEF SweepSteps
<1> QED  BY <1>2, <1>3, <1>4, <1>5, <1>6 DEF ReportNext

LEMMA ReportKept ==
  ASSUME ReportInv, [ReportNext]_reportVars
  PROVE  ReportInv'
<1>0. CASE UNCHANGED reportVars
  BY <1>0
  DEF reportVars, reportJobVars, ReportInv, ReportTypeOK, ReportQueue!QueueTypeOK, Making,
      Sweeping, RowMatchesObject
<1> SUFFICES ASSUME ReportNext PROVE ReportInv'
  BY <1>0
<1>1. ReportTypeOK /\ ReportTypeOK'
  BY ReportTypesKept DEF ReportInv
<1>2. CASE UNCHANGED <<report, object, making, sweep, overwritten, met>>
  BY <1>1, <1>2 DEF ReportInv, Making, Sweeping, RowMatchesObject
<1>3. CASE RequestReport
  <2>1. UNCHANGED <<object, making, sweep, overwritten, met>>
    BY <1>3 DEF RequestReport
  <2>2. /\ report'.expired = report.expired /\ report'.sum = report.sum
        /\ report'.status = report.status \/ report'.status = "queued"
    BY <1>1, <1>3 DEF RequestReport, ReportTypeOK, ReportRows
  <2> QED  BY <1>1, <2>1, <2>2 DEF ReportInv, Making, Sweeping, RowMatchesObject
<1>4. CASE ReportExpires
  <2>1. UNCHANGED <<object, making, sweep, overwritten, met>>
    BY <1>4 DEF ReportExpires
  <2>2. report'.expired /\ report'.status = "ready"
    BY <1>1, <1>4 DEF ReportExpires, ReportTypeOK, ReportRows
  <2> QED  BY <1>1, <2>1, <2>2 DEF ReportInv, Making, Sweeping, RowMatchesObject
<1>5. ASSUME NEW w \in Workers, StartReport(w) PROVE ReportInv'
  <2>1. UNCHANGED <<report, object, sweep, overwritten, met>>
    BY <1>5 DEF StartReport
  <2>2. /\ making'[w].pc = "begin"
        /\ \A v \in Workers : v # w => making'[v] = making[v]
    BY <1>1, <1>5 DEF StartReport, ReportTypeOK
  <2> QED  BY <1>1, <2>1, <2>2 DEF ReportInv, Making, Sweeping, RowMatchesObject
<1>6. ASSUME NEW w \in Workers, ReadReport(w) PROVE ReportInv'
  <2>1. UNCHANGED <<report, object, sweep, overwritten>> /\ met' = (met \/ Sweeping)
    BY <1>6 DEF ReadReport
  <2>2. /\ making'[w].pc = "locked"
        /\ \A v \in Workers : v # w => making'[v] = making[v] /\ ~Making(v)
    BY <1>1, <1>6 DEF ReadReport, RowFree, ReportTypeOK
  <2> QED  BY <1>1, <2>1, <2>2 DEF ReportInv, Making, Sweeping, RowMatchesObject
<1>7. ASSUME NEW w \in Workers, FailReport(w) PROVE ReportInv'
  <2>1. UNCHANGED <<object, sweep, overwritten, met>>
    BY <1>7 DEF FailReport
  <2>2. /\ making'[w].pc = "committed"
        /\ \A v \in Workers : v # w => making'[v] = making[v]
    BY <1>1, <1>7 DEF FailReport, ReportTypeOK
  <2>3. report'.status = "failed" /\ report'.expired = report.expired
    BY <1>1, <1>7 DEF FailReport, ReportTypeOK, ReportRows
  <2> QED  BY <1>1, <2>1, <2>2, <2>3 DEF ReportInv, Making, Sweeping, RowMatchesObject
<1>8. ASSUME NEW w \in Workers, PutArtifact(w) PROVE ReportInv'
  <2>1. UNCHANGED <<report, sweep, met>>
    BY <1>8 DEF PutArtifact
  <2>2. overwritten' = (overwritten \/ report.status \in {"ready", "expired"})
    BY <1>8 DEF PutArtifact
  <2>3. /\ Making(w) /\ making'[w].pc = "put" /\ making'[w].artifact = object'
        /\ \A v \in Workers : v # w => making'[v] = making[v] /\ ~Making(v)
    BY <1>1, <1>8 DEF PutArtifact, Making, ReportTypeOK, ReportInv
  <2>4. ~met => \A v \in Workers : sweep[v] = "idle"
    BY <2>3 DEF ReportInv, Sweeping
  <2> QED
    BY <1>1, <2>1, <2>2, <2>3, <2>4 DEF ReportInv, Making, Sweeping, RowMatchesObject
<1>9. ASSUME NEW w \in Workers, CommitReport(w) PROVE ReportInv'
  <2>1. UNCHANGED <<object, sweep, met>>
    BY <1>9 DEF CommitReport
  <2>2. /\ Making(w) /\ making[w].pc = "put" /\ making'[w].pc = "committed"
        /\ \A v \in Workers : v # w => making'[v] = making[v] /\ ~Making(v)
    BY <1>1, <1>9 DEF CommitReport, Making, ReportTypeOK, ReportInv
  <2>3. ~met => \A v \in Workers : sweep[v] = "idle"
    BY <2>2 DEF ReportInv, Sweeping
  <2>4. ~met => object = making[w].artifact
    BY <2>2 DEF ReportInv
  <2>5. report'.status = "ready" /\ report'.sum = making[w].artifact
    BY <1>9 DEF CommitReport
  <2> QED
    BY <1>1, <2>1, <2>2, <2>3, <2>4, <2>5 DEF ReportInv, Making, Sweeping, RowMatchesObject
<1>10. ASSUME NEW w \in Workers, CompleteReport(w) \/ ReportThrows(w) PROVE ReportInv'
  <2>1. UNCHANGED <<report, object, sweep, overwritten, met>>
    BY <1>10 DEF CompleteReport, ReportThrows
  <2>2. /\ making'[w].pc = "idle"
        /\ \A v \in Workers : v # w => making'[v] = making[v]
    BY <1>1, <1>10 DEF CompleteReport, ReportThrows, NotMaking, ReportTypeOK
  <2> QED  BY <1>1, <2>1, <2>2 DEF ReportInv, Making, Sweeping, RowMatchesObject
<1>11. ASSUME NEW w \in Workers, CrashReport(w) PROVE ReportInv'
  <2>1. UNCHANGED <<report, object, overwritten, met>>
    BY <1>11 DEF CrashReport
  <2>2. /\ making'[w].pc = "idle" /\ sweep'[w] = "idle"
        /\ \A v \in Workers : v # w => making'[v] = making[v] /\ sweep'[v] = sweep[v]
    BY <1>1, <1>11 DEF CrashReport, NotMaking, ReportTypeOK
  <2> QED  BY <1>1, <2>1, <2>2 DEF ReportInv, Making, Sweeping, RowMatchesObject
<1>12. ASSUME NEW w \in Workers, SelectExpired(w) PROVE ReportInv'
  <2>1. UNCHANGED <<report, object, making, overwritten>> /\ met' = (met \/ ~RowFree)
    BY <1>12 DEF SelectExpired
  <2>2. /\ sweep'[w] = "found" /\ report.expired
        /\ \A v \in Workers : v # w => sweep'[v] = sweep[v]
    BY <1>1, <1>12 DEF SelectExpired, IsExpired, ReportTypeOK
  <2> QED
    BY <1>1, <2>1, <2>2 DEF ReportInv, Making, Sweeping, RowMatchesObject, RowFree
<1>13. ASSUME NEW w \in Workers, DeleteArtifact(w) PROVE ReportInv'
  <2>1. UNCHANGED <<report, making, overwritten, met>> /\ object' = 0
    BY <1>13 DEF DeleteArtifact
  <2>2. /\ sweep[w] = "found" /\ sweep'[w] = "deleted"
        /\ \A v \in Workers : v # w => sweep'[v] = sweep[v]
    BY <1>1, <1>13 DEF DeleteArtifact, ReportTypeOK
  <2>3. ~met => report.expired /\ \A v \in Workers : ~Making(v)
    BY <2>2 DEF ReportInv, Sweeping
  <2> QED
    BY <1>1, <2>1, <2>2, <2>3 DEF ReportInv, Making, Sweeping, RowMatchesObject
<1>14. ASSUME NEW w \in Workers, MarkExpired(w) PROVE ReportInv'
  <2>1. UNCHANGED <<object, making, overwritten, met>>
    BY <1>14 DEF MarkExpired
  <2>2. /\ sweep[w] = "deleted" /\ sweep'[w] = "idle"
        /\ \A v \in Workers : v # w => sweep'[v] = sweep[v]
    BY <1>1, <1>14 DEF MarkExpired, ReportTypeOK
  <2>3. /\ report'.expired = report.expired /\ report'.status # "ready"
        /\ report'.status = report.status \/ report'.status = "expired"
    BY <1>1, <1>14 DEF MarkExpired, ReportTypeOK, ReportRows
  <2>4. ~met => object = 0
    BY <2>2 DEF ReportInv
  <2> QED
    BY <1>1, <2>1, <2>2, <2>3, <2>4 DEF ReportInv, Making, Sweeping, RowMatchesObject
<1>15. ASSUME NEW w \in Workers, SweepFails(w) PROVE ReportInv'
  <2>1. UNCHANGED <<report, object, making, overwritten, met>>
    BY <1>15 DEF SweepFails
  <2>2. /\ sweep'[w] = "idle"
        /\ \A v \in Workers : v # w => sweep'[v] = sweep[v]
    BY <1>1, <1>15 DEF SweepFails, ReportTypeOK
  <2> QED  BY <1>1, <2>1, <2>2 DEF ReportInv, Making, Sweeping, RowMatchesObject
<1>16. CASE \/ SnapshotsArrive \/ EnqueueReport \/ RequestFails \/ DropReportJob
            \/ StallReport \/ RetryReport
  BY <1>2, <1>16
  DEF SnapshotsArrive, EnqueueReport, RequestFails, DropReportJob, StallReport, RetryReport
<1> QED
  BY <1>3, <1>4, <1>5, <1>6, <1>7, <1>8, <1>9, <1>10, <1>11, <1>12, <1>13, <1>14, <1>15, <1>16
  DEF ReportNext, MakeSteps, SweepSteps

LEMMA ReportInitially == ReportInit => ReportInv
<1> SUFFICES ASSUME ReportInit PROVE ReportInv
  OBVIOUS
<1> USE DEF ReportInit, NotMaking
<1>1. ReportQueue!QueueTypeOK
  BY PlatformJobAssumption
  DEF ReportQueue!QueueInit, ReportQueue!QueueTypeOK, ReportQueue!QueueStates
<1>2. ReportTypeOK
  <2>1. reportFaults \in 0 .. MaxJobFaults
    BY PlatformJobAssumption
  <2>2. report \in ReportRows
    BY DEF ReportRows
  <2>3. making \in [Workers -> [pc : {"idle", "begin", "locked", "put", "committed"},
                               artifact : Nat]]
    OBVIOUS
  <2> QED  BY <1>1, <2>1, <2>2, <2>3 DEF ReportTypeOK
<1> QED  BY <1>2 DEF ReportInv, Making, Sweeping, RowMatchesObject

-----------------------------------------------------------------------------
(* Privacy requests. *)

LEMMA PrivacyQueueTypes ==
  ASSUME PrivacyQueue!QueueTypeOK, NEW w,
         \/ PrivacyQueue!Add(TheJob) \/ PrivacyQueue!Promote(TheJob) \/ PrivacyQueue!Stall(TheJob)
         \/ w \in Workers /\ PrivacyQueue!Deliver(TheJob, w)
         \/ PrivacyQueue!Complete(TheJob, w) \/ PrivacyQueue!FailAttempt(TheJob, w)
         \/ PrivacyQueue!Orphan({w}) \/ UNCHANGED privacyJobVars
  PROVE  PrivacyQueue!QueueTypeOK'
<1> USE PlatformJobAssumption DEF PrivacyQueue!QueueTypeOK, PrivacyQueue!QueueStates
<1>1. CASE PrivacyQueue!Add(TheJob) \/ PrivacyQueue!Promote(TheJob)
  BY <1>1 DEF PrivacyQueue!Add, PrivacyQueue!Promote
<1>2. CASE PrivacyQueue!Complete(TheJob, w)
  BY <1>2 DEF PrivacyQueue!Complete
<1>3. CASE PrivacyQueue!FailAttempt(TheJob, w)
  <2>1. CASE privacyHolder[TheJob] = w
    BY <1>3, <2>1 DEF PrivacyQueue!FailAttempt
  <2>2. CASE privacyHolder[TheJob] # w
    BY <1>3, <2>2 DEF PrivacyQueue!FailAttempt, PrivacyQueue!queueVars
  <2> QED  BY <2>1, <2>2
<1>4. CASE PrivacyQueue!Orphan({w})
  BY <1>4 DEF PrivacyQueue!Orphan
<1>5. CASE PrivacyQueue!Stall(TheJob)
  BY <1>5 DEF PrivacyQueue!Stall
<1>6. CASE w \in Workers /\ PrivacyQueue!Deliver(TheJob, w)
  BY <1>6 DEF PrivacyQueue!Deliver
<1>7. CASE UNCHANGED privacyJobVars
  BY <1>7 DEF privacyJobVars
<1> QED  BY <1>1, <1>2, <1>3, <1>4, <1>5, <1>6, <1>7

LEMMA PrivacyTypesKept ==
  ASSUME PrivacyTypeOK, PrivacyNext
  PROVE  PrivacyTypeOK'
<1> USE DEF PrivacyTypeOK
<1>1. PrivacyQueue!QueueTypeOK'
  <2>1. CASE Approve \/ EnqueuePrivacy \/ MarkQueued \/ ApproveFails \/ StallPrivacy \/ RetryPrivacy
    BY <2>1, PrivacyQueueTypes
    DEF Approve, EnqueuePrivacy, MarkQueued, ApproveFails, StallPrivacy, RetryPrivacy
  <2>2. ASSUME NEW w \in Workers, HandleSteps(w) \/ PrivacyThrows(w) \/ CrashPrivacy(w)
        PROVE  PrivacyQueue!QueueTypeOK'
    BY <2>2, PrivacyQueueTypes
    DEF HandleSteps, StartPrivacy, PutEvidence, UpdateTarget, MarkPartial, CompletePrivacy,
        PrivacyThrows, CrashPrivacy
  <2> QED  BY <2>1, <2>2 DEF PrivacyNext
<1>2. ASSUME PrivacyFault PROVE privacyFaults' \in 0 .. MaxJobFaults
  BY <1>2, PlatformJobAssumption DEF PrivacyFault
<1>3. CASE Approve \/ EnqueuePrivacy \/ MarkQueued
  BY <1>1, <1>3 DEF Approve, EnqueuePrivacy, MarkQueued, IsApproved
<1>4. CASE ApproveFails
  BY <1>1, <1>2, <1>4 DEF ApproveFails
<1>5. CASE StallPrivacy \/ RetryPrivacy
  BY <1>1, <1>2, <1>5 DEF StallPrivacy, RetryPrivacy
<1>6. ASSUME NEW w \in Workers, HandleSteps(w) PROVE PrivacyTypeOK'
  <2>1. CASE StartPrivacy(w)
    BY <1>1, <2>1 DEF StartPrivacy
  <2>2. CASE PutEvidence(w)
    BY <1>1, <2>2 DEF PutEvidence
  <2>3. CASE UpdateTarget(w)
    BY <1>1, <2>3 DEF UpdateTarget, Evidence
  <2>4. CASE MarkPartial(w)
    BY <1>1, <2>4 DEF MarkPartial
  <2>5. CASE CompletePrivacy(w)
    BY <1>1, <2>5 DEF CompletePrivacy, NotHandling
  <2> QED  BY <1>6, <2>1, <2>2, <2>3, <2>4, <2>5 DEF HandleSteps
<1>7. ASSUME NEW w \in Workers, PrivacyThrows(w) \/ CrashPrivacy(w) PROVE PrivacyTypeOK'
  <2>1. /\ handling' = [handling EXCEPT ![w] = NotHandling]
        /\ unsettled' = (unsettled \/ Handling(w))
        /\ UNCHANGED <<privacy, approving, target, approvalLost, shared>>
    BY <1>7 DEF PrivacyThrows, CrashPrivacy, Abandon
  <2>2. handling' \in [Workers -> [pc : {"idle", "put", "targets", "done"},
                                   next : Nat, artifact : Nat]]
    BY <2>1 DEF NotHandling
  <2>3. unsettled' \in BOOLEAN
    BY <2>1
  <2>4. evidence' \in Nat /\ evaluated' \in Nat
    BY <1>7 DEF PrivacyThrows, CrashPrivacy
  <2>5. privacyFaults' \in 0 .. MaxJobFaults
    BY <1>2, <1>7 DEF PrivacyThrows, CrashPrivacy
  <2> QED  BY <1>1, <2>1, <2>2, <2>3, <2>4, <2>5
<1> QED  BY <1>3, <1>4, <1>5, <1>6, <1>7 DEF PrivacyNext

LEMMA PrivacyKept ==
  ASSUME PrivacyInv, [PrivacyNext]_privacyVars
  PROVE  PrivacyInv'
<1>0. CASE UNCHANGED privacyVars
  BY <1>0
  DEF privacyVars, privacyJobVars, PrivacyInv, PrivacyTypeOK, PrivacyQueue!QueueTypeOK, Handling,
      EvidenceIsStored
<1> SUFFICES ASSUME PrivacyNext PROVE PrivacyInv'
  BY <1>0
<1>1. PrivacyTypeOK /\ PrivacyTypeOK'
  BY PrivacyTypesKept DEF PrivacyInv
<1>2. CASE \/ Approve \/ EnqueuePrivacy \/ MarkQueued \/ ApproveFails
           \/ StallPrivacy \/ RetryPrivacy
  <2>1. /\ UNCHANGED <<evidence, target, handling, unsettled, shared>>
        /\ privacy' = "partial" => privacy = "partial"
    BY <1>2
    DEF Approve, EnqueuePrivacy, MarkQueued, ApproveFails, StallPrivacy, RetryPrivacy
  <2> QED  BY <1>1, <2>1 DEF PrivacyInv, Handling, EvidenceIsStored
<1>3. ASSUME NEW w \in Workers, StartPrivacy(w) PROVE PrivacyInv'
  <2>1. /\ UNCHANGED <<privacy, evidence, target, unsettled>>
        /\ shared' = (shared \/ \E v \in Workers : Handling(v))
    BY <1>3 DEF StartPrivacy
  <2>2. /\ handling'[w].pc = "put"
        /\ \A v \in Workers : v # w => handling'[v] = handling[v]
    BY <1>1, <1>3 DEF StartPrivacy, PrivacyTypeOK
  <2> QED  BY <1>1, <2>1, <2>2 DEF PrivacyInv, Handling, EvidenceIsStored
<1>4. ASSUME NEW w \in Workers, PutEvidence(w) PROVE PrivacyInv'
  <2>1. UNCHANGED <<privacy, target, unsettled, shared>>
    BY <1>4 DEF PutEvidence
  <2>2. /\ Handling(w) /\ handling'[w].pc = "targets" /\ handling'[w].next = 1
        /\ handling'[w].artifact = evidence'
        /\ \A v \in Workers : v # w => handling'[v] = handling[v]
    BY <1>1, <1>4 DEF PutEvidence, Handling, PrivacyTypeOK
  <2>3. \A t \in Targets : ~(t < 1)
    BY PrivacyAssumption DEF Targets
  <2> QED  BY <1>1, <2>1, <2>2, <2>3 DEF PrivacyInv, Handling, EvidenceIsStored
<1>5. ASSUME NEW w \in Workers, UpdateTarget(w) PROVE PrivacyInv'
  <2>1. UNCHANGED <<privacy, evidence, unsettled, shared>>
    BY <1>5 DEF UpdateTarget
  <2>2. /\ Handling(w) /\ handling[w].pc = "targets" /\ handling'[w].pc = "targets"
        /\ handling[w].next \in Targets
        /\ handling'[w].next = handling[w].next + 1
        /\ handling'[w].artifact = handling[w].artifact
        /\ \A v \in Workers : v # w => handling'[v] = handling[v]
    BY <1>1, <1>5 DEF UpdateTarget, Handling, PrivacyTypeOK
  <2>3. \A t \in Targets :
          target'[t] = IF t = handling[w].next THEN handling[w].artifact ELSE target[t]
    BY <1>1, <1>5 DEF UpdateTarget, Evidence, PrivacyTypeOK
  <2>4. Targets \subseteq Nat
    BY PrivacyAssumption DEF Targets
  <2>5. ASSUME ~shared
        PROVE  /\ handling'[w].artifact = evidence
               /\ handling'[w].next >= 1
               /\ \A t \in Targets : t < handling'[w].next => target'[t] = evidence
    <3>1. /\ handling[w].artifact = evidence
          /\ \A t \in Targets : t < handling[w].next => target[t] = evidence
      BY <2>2, <2>5 DEF PrivacyInv
    <3> DEFINE n == handling[w].next
    <3>0. n \in Nat
      BY <2>2, <2>4
    <3> HIDE DEF n
    <3>2. \A t \in Targets : t < n + 1 => t < n \/ t = n
      BY <2>4, <3>0
    <3>3. n + 1 >= 1
      BY <3>0
    <3>4. ASSUME NEW t \in Targets, t < handling'[w].next PROVE target'[t] = evidence
      <4>1. CASE t = handling[w].next
        BY <2>3, <3>1, <4>1
      <4>2. CASE t # handling[w].next
        <5>1. t < n
          BY <2>2, <3>2, <3>4, <4>2 DEF n
        <5> QED  BY <2>3, <3>1, <4>2, <5>1 DEF n
      <4> QED  BY <4>1, <4>2
    <3> QED  BY <2>2, <3>1, <3>3, <3>4 DEF n
  <2>6. ~shared => \A v \in Workers : v # w => ~Handling(v)
    BY <2>2 DEF PrivacyInv
  <2> QED  BY <1>1, <2>1, <2>2, <2>5, <2>6 DEF PrivacyInv, Handling, EvidenceIsStored
<1>6. ASSUME NEW w \in Workers, MarkPartial(w) PROVE PrivacyInv'
  <2>1. UNCHANGED <<evidence, target, shared>>
    BY <1>6 DEF MarkPartial
  <2>2. /\ handling[w].pc = "targets" /\ handling'[w].pc = "done"
        /\ handling[w].next \notin Targets /\ handling[w].next \in Nat
        /\ \A v \in Workers : v # w => handling'[v] = handling[v]
    BY <1>1, <1>6 DEF MarkPartial, PrivacyTypeOK
  <2>3. ASSUME ~shared PROVE \A t \in Targets : target[t] = evidence
    <3>1. /\ handling[w].next >= 1
          /\ \A t \in Targets : t < handling[w].next => target[t] = evidence
      BY <2>2, <2>3 DEF PrivacyInv
    <3>2. \A t \in Targets : t < handling[w].next
      BY <2>2, <3>1, PrivacyAssumption DEF Targets
    <3> QED  BY <3>1, <3>2
  <2> QED  BY <1>1, <2>1, <2>2, <2>3 DEF PrivacyInv, Handling, EvidenceIsStored
<1>7. ASSUME NEW w \in Workers, CompletePrivacy(w) PROVE PrivacyInv'
  <2>1. UNCHANGED <<privacy, evidence, target, unsettled, shared>> /\ ~Handling(w)
    BY <1>7 DEF CompletePrivacy, Handling
  <2>2. /\ handling'[w].pc = "idle"
        /\ \A v \in Workers : v # w => handling'[v] = handling[v]
    BY <1>1, <1>7 DEF CompletePrivacy, NotHandling, PrivacyTypeOK
  <2> QED  BY <1>1, <2>1, <2>2 DEF PrivacyInv, Handling, EvidenceIsStored
<1>8. ASSUME NEW w \in Workers, PrivacyThrows(w) \/ CrashPrivacy(w) PROVE PrivacyInv'
  <2>1. /\ handling' = [handling EXCEPT ![w] = NotHandling]
        /\ unsettled' = (unsettled \/ Handling(w))
        /\ UNCHANGED <<privacy, target, shared>>
    BY <1>8 DEF PrivacyThrows, CrashPrivacy, Abandon
  <2>2. /\ handling'[w].pc = "idle"
        /\ \A v \in Workers : v # w => handling'[v] = handling[v]
    BY <1>1, <2>1 DEF NotHandling, PrivacyTypeOK
  <2>3. ~Handling(w) => evidence' = evidence
    BY <1>8 DEF PrivacyThrows, CrashPrivacy
  <2>4. CASE Handling(w)
    BY <1>1, <2>1, <2>2, <2>4 DEF PrivacyInv, Handling, EvidenceIsStored
  <2>5. CASE ~Handling(w)
    BY <1>1, <2>1, <2>2, <2>3, <2>5 DEF PrivacyInv, Handling, EvidenceIsStored
  <2> QED  BY <2>4, <2>5
<1> QED
  BY <1>2, <1>3, <1>4, <1>5, <1>6, <1>7, <1>8 DEF PrivacyNext, HandleSteps

LEMMA PrivacyInitially == PrivacyInit => PrivacyInv
<1> SUFFICES ASSUME PrivacyInit PROVE PrivacyInv
  OBVIOUS
<1> USE DEF PrivacyInit, NotHandling
<1>1. PrivacyQueue!QueueTypeOK
  BY PlatformJobAssumption
  DEF PrivacyQueue!QueueInit, PrivacyQueue!QueueTypeOK, PrivacyQueue!QueueStates
<1>2. privacyFaults \in 0 .. MaxJobFaults
  BY PlatformJobAssumption
<1>3. PrivacyTypeOK
  BY <1>1, <1>2 DEF PrivacyTypeOK
<1> QED  BY <1>3 DEF PrivacyInv, Handling, EvidenceIsStored

-----------------------------------------------------------------------------
(* Mails. *)

LEMMA MinIsLeast ==
  ASSUME NEW S \in SUBSET Nat, S # {}
  PROVE  Min(S) \in S
<1>1. PICK x \in S : \A y \in S : <<y, x>> \notin OpToRel(<, Nat)
  BY NatLessThanWellFounded, WFMin
<1>2. \A y \in S : x <= y
  <2>1. \A y \in S : y < x => <<y, x>> \in OpToRel(<, Nat)
    BY DEF OpToRel
  <2>2. \A y \in S : ~(y < x)
    BY <1>1, <2>1
  <2> QED  BY <2>2
<1> QED  BY <1>2 DEF Min

LEMMA RowTypes ==
  ASSUME NEW r \in Rows
  PROVE  /\ \A s \in {"sent", "failed", "deleted"} : Final(r, s) \in Rows
         /\ SweptMail(r) \in Rows
         /\ r.attempts < MailAttempts => Claimed(r) \in Rows
         /\ [NoRow EXCEPT !.status = "queued", !.due = TRUE, !.addressed = TRUE] \in Rows
         /\ [r EXCEPT !.due = FALSE] \in Rows
         /\ [r EXCEPT !.status = "queued"] \in Rows
         /\ \A b \in Nat : [r EXCEPT !.body = b] \in Rows
<1>1. \A s \in {"sent", "failed", "deleted"} : Final(r, s) \in Rows
  BY DEF Final, Rows
<1>2. SweptMail(r) \in Rows
  <2>1. (IF Exhausted(r) THEN Final(r, "failed") ELSE r) \in Rows
    BY <1>1
  <2>2. \A x \in Rows : Final(x, "deleted") \in Rows
    BY DEF Final, Rows
  <2> QED  BY <2>1, <2>2 DEF SweptMail, Deleted
<1>3. r.attempts < MailAttempts => Claimed(r) \in Rows
  <2>1. r.attempts < MailAttempts => r.attempts + 1 \in 0 .. MailAttempts
    BY MailAssumption DEF Rows
  <2> QED  BY <2>1 DEF Claimed, Rows
<1>4. [NoRow EXCEPT !.status = "queued", !.due = TRUE, !.addressed = TRUE] \in Rows
  <2>1. NoRow \in Rows
    BY MailAssumption DEF NoRow, Rows
  <2>2. \A x \in Rows : [x EXCEPT !.status = "queued", !.due = TRUE, !.addressed = TRUE] \in Rows
    BY DEF Rows
  <2> QED  BY <2>1, <2>2
<1>5. [r EXCEPT !.due = FALSE] \in Rows
  BY DEF Rows
<1>6. [r EXCEPT !.status = "queued"] \in Rows
  BY DEF Rows
<1>7. \A b \in Nat : [r EXCEPT !.body = b] \in Rows
  BY DEF Rows
<1> QED  BY <1>1, <1>2, <1>3, <1>4, <1>5, <1>6, <1>7

(* The sweep leaves a row as it is, or ends it.                            *)
LEMMA SweepEndsOrKeeps ==
  ASSUME NEW r \in Rows
  PROVE  /\ SweptMail(r) = r \/ SweptMail(r).status \in {"failed", "deleted"}
         /\ r.status \in Gone => SweptMail(r) = r
         /\ r.status = "sending" /\ ~r.due /\ r.age < 2 => SweptMail(r) = r
         /\ DueMail(SweptMail(r)) => SweptMail(r) = r /\ r.age < 2
BY DEF SweptMail, Deleted, Exhausted, Final, Gone, DueMail, Rows

LEMMA MailTypesKept ==
  ASSUME MailInv, MailNext
  PROVE  MailTypeOK'
<1>1. MailTypeOK /\ \A w \in Workers : tick[w].pc # "idle" => tick[w].mail \in Mails
  BY DEF MailInv
<1> USE <1>1, WorkerAssumption, MailAssumption DEF MailTypeOK
<1>2. ASSUME NEW m \in Mails, EnqueueMail(m) PROVE MailTypeOK'
  <2>1. [NoRow EXCEPT !.status = "queued", !.due = TRUE, !.addressed = TRUE] \in Rows
    BY RowTypes
  <2> QED  BY <1>2, <2>1 DEF EnqueueMail
<1>3. ASSUME NEW m \in Mails, TwoMinutes(m) PROVE MailTypeOK'
  <2>1. mailFaults' \in 0 .. MaxFaults
    BY <1>3 DEF TwoMinutes
  <2>2. overran' \in SUBSET Mails
    BY <1>3 DEF TwoMinutes
  <2> QED  BY <1>3, <2>1, <2>2 DEF TwoMinutes, Rows
<1>4. ASSUME NEW m \in Mails, GrowOld(m) PROVE MailTypeOK'
  <2>1. outbox[m].age + 1 \in 0 .. 2
    BY <1>4 DEF GrowOld, Rows
  <2>2. outbox' \in [Mails -> Rows]
    BY <1>4, <2>1 DEF GrowOld, Rows
  <2> QED  BY <1>4, <2>2 DEF GrowOld
<1>5. ASSUME NEW m \in Mails, Obsolete(m) PROVE MailTypeOK'
  BY <1>5 DEF Obsolete
<1>6. ASSUME NEW w \in Workers, Tick(w) PROVE MailTypeOK'
  <2>1. SweptOutbox \in [Mails -> Rows]
    BY RowTypes DEF SweptOutbox
  <2> DEFINE claimable == {m \in Mails : DueMail(SweptOutbox[m])}
  <2>2. CASE claimable = {}
    BY <1>6, <2>1, <2>2 DEF Tick
  <2>3. CASE claimable # {}
    <3> DEFINE m == Min(claimable)
    <3>1. m \in Mails /\ DueMail(SweptOutbox[m])
      <4>1. claimable \in SUBSET Nat
        BY DEF Mails
      <4>2. m \in claimable
        BY <2>3, <4>1, MinIsLeast
      <4> QED  BY <4>2
    <3>2. /\ outbox' = [SweptOutbox EXCEPT ![m] = Claimed(@)]
          /\ tick' = [tick EXCEPT ![w] =
               [pc |-> "claimed", mail |-> m, body |-> SweptOutbox[m].body,
                addressed |-> SweptOutbox[m].addressed, before |-> SweptOutbox[m].attempts]]
          /\ UNCHANGED <<needed, links, asked, mailFaults, overran>>
      BY <1>6, <2>3 DEF Tick
    <3> HIDE DEF m
    <3>3. SweptOutbox[m] \in Rows
      BY <2>1, <3>1
    <3>4. Claimed(SweptOutbox[m]) \in Rows
      BY <3>1, <3>3, RowTypes DEF DueMail
    <3>5. outbox' \in [Mails -> Rows]
      BY <2>1, <3>1, <3>2, <3>4
    <3>6. tick' \in [Workers -> Ticks]
      BY <3>1, <3>2, <3>3 DEF Rows, Ticks
    <3> QED  BY <3>2, <3>5, <3>6
  <2> QED  BY <2>2, <2>3
<1>7. ASSUME NEW w \in Workers, TooOld(w) PROVE MailTypeOK'
  BY <1>7 DEF TooOld, Advance, Ticks
<1>8. ASSUME NEW w \in Workers, NEW m \in Mails, NEW r \in Rows, UpdateRow(m, r)
      PROVE  outbox' \in [Mails -> Rows]
  BY <1>8 DEF UpdateRow
<1>9. ASSUME NEW w \in Workers, Prepare(w) PROVE MailTypeOK'
  <2> DEFINE m == tick[w].mail
  <2>1. m \in Mails /\ outbox[m] \in Rows /\ links[m] + 1 \in Nat
    BY <1>9 DEF Prepare
  <2>2. [outbox[m] EXCEPT !.body = links[m] + 1] \in Rows /\ Final(outbox[m], "sent") \in Rows
    <3>1. [outbox[m] EXCEPT !.body = links[m] + 1] \in Rows
      BY <2>1, RowTypes
    <3> QED  BY <2>1, <3>1, RowTypes
  <2>3. outbox' \in [Mails -> Rows]
    <3>1. \/ UNCHANGED outbox
          \/ UpdateRow(m, [outbox[m] EXCEPT !.body = links[m] + 1])
          \/ UpdateRow(m, Final(outbox[m], "sent"))
      BY <1>9 DEF Prepare, Prepared
    <3> QED  BY <1>8, <2>1, <2>2, <3>1
  <2>4. links' \in [Mails -> Nat]
    BY <1>9, <2>1 DEF Prepare
  <2>5. tick' \in [Workers -> Ticks]
    <3>1. \/ tick' = [tick EXCEPT ![w].pc = "prepared", ![w].body = links[m] + 1]
          \/ tick' = [tick EXCEPT ![w] = IdleTick]
          \/ tick' = [tick EXCEPT ![w].pc = "prepared"]
          \/ tick' = [tick EXCEPT ![w].pc = "failing"]
      BY <1>9 DEF Prepare, Advance
    <3>2. IdleTick \in Ticks
      BY DEF IdleTick, Ticks
    <3> HIDE DEF m
    <3> QED  BY <2>1, <3>1, <3>2 DEF Ticks
  <2> QED  BY <1>9, <2>3, <2>4, <2>5 DEF Prepare
<1>10. ASSUME NEW w \in Workers, DeliverMail(w) PROVE MailTypeOK'
  <2>1. tick[w].mail \in Mails /\ tick[w].body \in Nat
    BY <1>10 DEF DeliverMail, Ticks
  <2>2. asked' \in [Mails -> SUBSET Nat]
    BY <1>10, <2>1 DEF DeliverMail
  <2>3. tick' \in [Workers -> Ticks]
    BY <1>10 DEF DeliverMail, Advance, Ticks
  <2> QED  BY <1>10, <2>2, <2>3 DEF DeliverMail
<1>11. ASSUME NEW w \in Workers, MarkSent(w) PROVE MailTypeOK'
  <2>1. tick[w].mail \in Mails
    BY <1>11 DEF MarkSent
  <2>2. outbox' \in [Mails -> Rows]
    BY <1>8, <1>11, <2>1, RowTypes DEF MarkSent
  <2> QED  BY <1>11, <2>2 DEF MarkSent, IdleTick, Ticks
<1>12. ASSUME NEW w \in Workers, MarkFailed(w) PROVE MailTypeOK'
  <2> DEFINE r == [outbox[tick[w].mail] EXCEPT !.due = FALSE]
  <2>1. tick[w].mail \in Mails
    BY <1>12 DEF MarkFailed
  <2>2. r \in Rows /\ [r EXCEPT !.status = "queued"] \in Rows
    <3>1. r \in Rows
      BY <2>1, RowTypes
    <3> HIDE DEF r
    <3> QED  BY <3>1, RowTypes
  <2>3. Final(r, "failed") \in Rows
    BY <2>2, RowTypes
  <2>4. UpdateRow(tick[w].mail, IF GivesUp(w) THEN Final(r, "failed")
                                ELSE [r EXCEPT !.status = "queued"])
    BY <1>12 DEF MarkFailed
  <2> HIDE DEF r
  <2>5. outbox' \in [Mails -> Rows]
    BY <1>8, <2>1, <2>2, <2>3, <2>4
  <2> QED  BY <1>12, <2>5 DEF MarkFailed, IdleTick, Ticks
<1>13. ASSUME NEW w \in Workers, AbandonTick(w) \/ TickThrows(w) PROVE MailTypeOK'
  <2>1. tick' \in [Workers -> Ticks]
    <3>1. CASE AbandonTick(w)
      BY <3>1 DEF AbandonTick, IdleTick, Ticks
    <3>2. CASE TickThrows(w)
      BY <3>2 DEF TickThrows, Advance, Ticks
    <3> QED  BY <1>13, <3>1, <3>2
  <2>2. mailFaults' \in 0 .. MaxFaults
    BY <1>13 DEF AbandonTick, TickThrows
  <2> QED  BY <1>13, <2>1, <2>2 DEF AbandonTick, TickThrows
<1> QED
  BY <1>2, <1>3, <1>4, <1>5, <1>6, <1>7, <1>9, <1>10, <1>11, <1>12, <1>13
  DEF MailNext, Work

(* A mail that a step leaves alone, and whose ticks it leaves alone.       *)
LEMMA OtherMails ==
  ASSUME NEW m \in Mails, Owned(m), Asked(m),
         outbox'[m] = outbox[m] \/ (outbox'[m].status \in {"sent", "failed", "deleted"}
                                      /\ \A v \in Workers : ~Claiming(v, m)),
         asked'[m] = asked[m],
         \A v \in Workers :
           tick'[v].pc # "idle" /\ tick'[v].mail = m => tick'[v] = tick[v]
  PROVE  Owned(m)' /\ Asked(m)'
<1>1. \A v \in Workers : Claiming(v, m)' => Claiming(v, m) /\ tick'[v] = tick[v]
  BY DEF Claiming
<1>2. Owned(m)'
  BY <1>1 DEF Owned
<1>3. Asked(m)'
  BY DEF Asked
<1> QED  BY <1>2, <1>3

(* A step of the tick w on its own mail.                                   *)
LEMMA OwnMail ==
  ASSUME MailInv, MailTypeOK', NEW w \in Workers, tick[w].pc # "idle",
         NEW m \in Mails, tick[w].mail = m, UNCHANGED overran,
         \A v \in Workers : v # w => tick'[v] = tick[v],
         tick'[w].pc # "idle" => tick'[w].mail = m,
         \A n \in Mails : n # m =>
           outbox'[n] = outbox[n] /\ asked'[n] = asked[n],
         outbox'[m].status = "absent" =>
           outbox'[m] = outbox[m],
         m \notin overran =>
           /\ Asked(m)'
           /\ tick'[w].pc # "idle" =>
                /\ outbox'[m].status = "sending"
                /\ ~outbox'[m].due
                /\ outbox'[m].age < 2
                /\ tick'[w].pc \in {"claimed", "prepared", "accepted"} =>
                     tick'[w].body = outbox'[m].body
                /\ tick'[w].pc \in {"prepared", "accepted"} => tick'[w].body # 0
  PROVE  MailInv'
<1>1. \A v \in Workers : tick'[v].pc # "idle" => tick'[v].mail \in Mails
  BY DEF MailInv
<1>2. \A n \in Mails : outbox'[n].status = "absent" => outbox'[n].body = 0
  BY DEF MailInv
<1>3. ASSUME NEW n \in Mails \ overran, n # m PROVE Owned(n)' /\ Asked(n)'
  <2>1. Owned(n) /\ Asked(n)
    BY DEF MailInv
  <2> QED  BY <1>3, <2>1, OtherMails
<1>4. ASSUME m \notin overran PROVE Owned(m)' /\ Asked(m)'
  <2>1. \A v \in Workers : Claiming(v, m) => v = w
    BY <1>4 DEF MailInv, Owned, Claiming
  <2>2. \A v \in Workers : tick'[v].pc # "idle" /\ tick'[v].mail = m => v = w
    BY <2>1 DEF Claiming
  <2> QED  BY <1>4, <2>2 DEF Owned, Claiming
<1> QED  BY <1>1, <1>2, <1>3, <1>4 DEF MailInv

(* The sweep and the claim, which takes a row that no tick works on.       *)
LEMMA TickKeeps ==
  ASSUME MailInv, MailTypeOK', NEW w \in Workers, Tick(w)
  PROVE  MailInv'
<1> DEFINE claimable == {m \in Mails : DueMail(SweptOutbox[m])}
<1>1. /\ MailTypeOK /\ outbox \in [Mails -> Rows]
      /\ tick[w].pc = "idle"
      /\ UNCHANGED <<asked, overran>>
  BY DEF MailInv, MailTypeOK, Tick
<1>2. \A m \in Mails : SweptOutbox[m] = SweptMail(outbox[m])
  BY DEF SweptOutbox
<1>3. ASSUME NEW m \in Mails
      PROVE  /\ SweptMail(outbox[m]) = outbox[m]
                  \/ SweptMail(outbox[m]).status \in {"failed", "deleted"}
             /\ outbox[m].status = "sending" /\ ~outbox[m].due /\ outbox[m].age < 2 =>
                  SweptMail(outbox[m]) = outbox[m]
             /\ DueMail(SweptMail(outbox[m])) =>
                  SweptMail(outbox[m]) = outbox[m] /\ outbox[m].age < 2
  BY <1>1, SweepEndsOrKeeps
<1>4. ASSUME NEW m \in Mails \ overran, outbox'[m] = SweptMail(outbox[m]),
             \A v \in Workers :
               tick'[v].pc # "idle" /\ tick'[v].mail = m => tick'[v] = tick[v]
      PROVE  Owned(m)' /\ Asked(m)'
  <2>1. Owned(m) /\ Asked(m)
    BY DEF MailInv
  <2>2. \/ outbox'[m] = outbox[m]
        \/ /\ outbox'[m].status \in {"sent", "failed", "deleted"}
           /\ \A v \in Workers : ~Claiming(v, m)
    BY <1>3, <1>4, <2>1 DEF Owned
  <2> QED  BY <1>1, <1>4, <2>1, <2>2, OtherMails
<1>5. CASE claimable = {}
  <2>1. outbox' = SweptOutbox /\ UNCHANGED tick
    BY <1>5 DEF Tick
  <2>2. \A m \in Mails \ overran : Owned(m)' /\ Asked(m)'
    BY <1>2, <1>4, <2>1
  <2>3. \A m \in Mails : outbox'[m].status = "absent" => outbox'[m].body = 0
    BY <1>2, <1>3, <2>1 DEF MailInv
  <2> QED  BY <1>1, <2>1, <2>2, <2>3 DEF MailInv
<1>6. CASE claimable # {}
  <2>1. PICK m \in Mails : m = Min(claimable) /\ DueMail(SweptOutbox[m])
    <3>1. claimable \in SUBSET Nat
      BY DEF Mails
    <3>2. Min(claimable) \in claimable
      BY <1>6, <3>1, MinIsLeast
    <3> QED  BY <3>2
  <2>2. /\ outbox' = [SweptOutbox EXCEPT ![m] = Claimed(@)]
        /\ tick' = [tick EXCEPT ![w] =
             [pc |-> "claimed", mail |-> m, body |-> SweptOutbox[m].body,
              addressed |-> SweptOutbox[m].addressed, before |-> SweptOutbox[m].attempts]]
    BY <1>6, <2>1 DEF Tick
  <2>3. SweptOutbox[m] = outbox[m] /\ outbox[m].due /\ outbox[m].age < 2
    BY <1>2, <1>3, <2>1 DEF DueMail
  <2>4. outbox'[m] = Claimed(outbox[m]) /\ \A n \in Mails : n # m => outbox'[n] = SweptMail(outbox[n])
    BY <1>2, <2>1, <2>2, <2>3 DEF SweptOutbox
  <2>5. /\ outbox'[m].status = "sending" /\ ~outbox'[m].due
        /\ outbox'[m].age = outbox[m].age /\ outbox'[m].body = outbox[m].body
    BY <1>1, <2>1, <2>4 DEF Claimed, Rows
  <2>6. /\ tick'[w].pc = "claimed" /\ tick'[w].mail = m /\ tick'[w].body = outbox[m].body
        /\ \A v \in Workers : v # w => tick'[v] = tick[v]
    BY <1>1, <2>2, <2>3 DEF MailTypeOK
  <2>7. \A v \in Workers : tick'[v].pc # "idle" => tick'[v].mail \in Mails
    BY <2>1, <2>6 DEF MailInv
  <2>8. \A n \in Mails : outbox'[n].status = "absent" => outbox'[n].body = 0
    BY <1>3, <2>4, <2>5 DEF MailInv
  <2>9. ASSUME NEW n \in Mails \ overran, n # m PROVE Owned(n)' /\ Asked(n)'
    BY <1>4, <2>4, <2>6, <2>9
  <2>10. ASSUME m \notin overran PROVE Owned(m)' /\ Asked(m)'
    <3>1. Owned(m) /\ Asked(m)
      BY <2>1, <2>10 DEF MailInv
    <3>2. \A v \in Workers : ~Claiming(v, m)
      BY <2>3, <3>1 DEF Owned
    <3>3. \A v \in Workers : tick'[v].pc # "idle" /\ tick'[v].mail = m => v = w
      BY <2>6, <3>2 DEF Claiming
    <3>4. Owned(m)'
      BY <2>3, <2>5, <2>6, <3>3 DEF Owned, Claiming
    <3>5. outbox[m].status \in {"queued", "sending"}
      BY <2>1, <2>3 DEF DueMail
    <3>6. Asked(m)'
      BY <1>1, <2>5, <3>1, <3>5 DEF Asked
    <3> QED  BY <3>4, <3>6
  <2> QED  BY <1>1, <2>7, <2>8, <2>9, <2>10 DEF MailInv
<1> QED  BY <1>5, <1>6

LEMMA MailKept ==
  ASSUME MailInv, [MailNext]_mailVars
  PROVE  MailInv'
<1>0. CASE UNCHANGED mailVars
  BY <1>0 DEF mailVars, MailInv, MailTypeOK, Owned, Asked, Claiming
<1> SUFFICES ASSUME MailNext PROVE MailInv'
  BY <1>0
<1>1. MailTypeOK' /\ MailTypeOK
  BY MailTypesKept DEF MailInv
<1>2. ASSUME NEW m \in Mails, m \notin overran, NEW w \in Workers, Claiming(w, m)
      PROVE  /\ outbox[m].status = "sending" /\ ~outbox[m].due /\ outbox[m].age < 2
             /\ tick[w].pc \in {"claimed", "prepared", "accepted"} =>
                  tick[w].body = outbox[m].body
             /\ tick[w].pc \in {"prepared", "accepted"} => tick[w].body # 0
             /\ Asked(m) /\ asked[m] \subseteq {outbox[m].body} \ {0}
  BY <1>2 DEF MailInv, Owned, Asked
<1>3. ASSUME NEW w \in Workers, tick[w].pc # "idle"
      PROVE  tick[w].mail \in Mails /\ Claiming(w, tick[w].mail)
  BY <1>3 DEF MailInv, Claiming
<1>4. ASSUME NEW m \in Mails, EnqueueMail(m) PROVE MailInv'
  <2>1. /\ outbox[m].status = "absent" /\ outbox[m].body = 0
        /\ outbox'[m].status = "queued" /\ outbox'[m].body = 0
        /\ \A n \in Mails : n # m => outbox'[n] = outbox[n]
        /\ UNCHANGED <<asked, tick, overran>>
    BY <1>1, <1>4 DEF EnqueueMail, NoRow, MailInv, MailTypeOK
  <2>2. ASSUME NEW n \in Mails \ overran PROVE Owned(n)' /\ Asked(n)'
    <3>1. Owned(n) /\ Asked(n)
      BY DEF MailInv
    <3>2. CASE n = m
      BY <2>1, <3>1, <3>2 DEF Owned, Asked, Claiming
    <3>3. CASE n # m
      BY <2>1, <3>1, <3>3, OtherMails
    <3> QED  BY <3>2, <3>3
  <2> QED  BY <1>1, <2>1, <2>2 DEF MailInv
<1>5. ASSUME NEW m \in Mails, TwoMinutes(m) PROVE MailInv'
  <2>1. /\ outbox'[m].status = outbox[m].status /\ outbox'[m].body = outbox[m].body
        /\ \A n \in Mails : n # m => outbox'[n] = outbox[n]
        /\ UNCHANGED <<asked, tick>>
        /\ overran \subseteq overran'
        /\ m \notin overran' => \A w \in Workers : ~Claiming(w, m)
    BY <1>1, <1>5 DEF TwoMinutes, MailTypeOK, Rows
  <2>2. ASSUME NEW n \in Mails \ overran' PROVE Owned(n)' /\ Asked(n)'
    <3>1. Owned(n) /\ Asked(n)
      BY <2>1 DEF MailInv
    <3>2. CASE n = m
      BY <2>1, <2>2, <3>1, <3>2 DEF Owned, Asked, Claiming
    <3>3. CASE n # m
      BY <2>1, <3>1, <3>3, OtherMails
    <3> QED  BY <3>2, <3>3
  <2> QED  BY <1>1, <2>1, <2>2 DEF MailInv
<1>6. ASSUME NEW m \in Mails, GrowOld(m) PROVE MailInv'
  <2>1. /\ outbox'[m].status = outbox[m].status /\ outbox'[m].body = outbox[m].body
        /\ outbox'[m].due = outbox[m].due
        /\ \A n \in Mails : n # m => outbox'[n] = outbox[n]
        /\ UNCHANGED <<asked, tick, overran>>
    BY <1>1, <1>6 DEF GrowOld, MailTypeOK, Rows
  <2>2. (\E w \in Workers : Claiming(w, m)) => outbox'[m].age < 2
    <3>1. outbox[m].age \in {0, 1} /\ outbox'[m].age = outbox[m].age + 1
      BY <1>1, <1>6 DEF GrowOld, MailTypeOK, Rows
    <3>2. (\E w \in Workers : Claiming(w, m)) => outbox[m].age # 1
      BY <1>6 DEF GrowOld
    <3> QED  BY <3>1, <3>2
  <2>3. ASSUME NEW n \in Mails \ overran PROVE Owned(n)' /\ Asked(n)'
    <3>1. Owned(n) /\ Asked(n)
      BY DEF MailInv
    <3>2. CASE n = m
      BY <2>1, <2>2, <3>1, <3>2 DEF Owned, Asked, Claiming
    <3>3. CASE n # m
      BY <2>1, <3>1, <3>3, OtherMails
    <3> QED  BY <3>2, <3>3
  <2> QED  BY <1>1, <2>1, <2>3 DEF MailInv
<1>7. ASSUME NEW m \in Mails, Obsolete(m) PROVE MailInv'
  BY <1>1, <1>7 DEF Obsolete, MailInv, Owned, Asked, Claiming
<1>8. ASSUME NEW w \in Workers, Tick(w) PROVE MailInv'
  BY <1>1, <1>8, TickKeeps
<1>9. ASSUME NEW w \in Workers, NEW pc \in {"prepared", "accepted", "failing", "giveup"},
             tick[w].pc # "idle", Advance(w, pc),
             pc = "prepared" => tick[w].pc = "claimed" /\ tick[w].body # 0,
             pc = "accepted" => tick[w].pc = "prepared",
             UNCHANGED <<outbox, overran>>,
             \A n \in Mails : asked'[n] \subseteq asked[n] \union {tick[w].body},
             UNCHANGED asked \/ (tick[w].pc = "prepared"
                                  /\ \A n \in Mails : n # tick[w].mail => asked'[n] = asked[n])
      PROVE  MailInv'
  <2>1. PICK m \in Mails : m = tick[w].mail /\ Claiming(w, m)
    BY <1>3, <1>9
  <2>2. /\ tick'[w].pc = pc /\ tick'[w].mail = m /\ tick'[w].body = tick[w].body
        /\ \A v \in Workers : v # w => tick'[v] = tick[v]
    BY <1>1, <1>9, <2>1 DEF Advance, MailTypeOK, Ticks
  <2>3. \A n \in Mails : n # m => outbox'[n] = outbox[n] /\ asked'[n] = asked[n]
    BY <1>9, <2>1
  <2>4. outbox[m].body \in Nat
    BY <1>1 DEF MailTypeOK, Rows
  <2>5. m \notin overran => Asked(m)'
    <3> SUFFICES ASSUME m \notin overran PROVE Asked(m)'
      OBVIOUS
    <3>1. Asked(m) /\ asked[m] \subseteq {outbox[m].body} \ {0}
      BY <1>2, <2>1
    <3>2. asked'[m] \subseteq {outbox[m].body} \ {0}
      BY <1>2, <1>9, <2>1, <3>1
    <3> QED  BY <1>9, <2>4, <3>2 DEF Asked
  <2>6. m \notin overran =>
          /\ outbox'[m].status = "sending" /\ ~outbox'[m].due /\ outbox'[m].age < 2
          /\ tick'[w].pc \in {"claimed", "prepared", "accepted"} =>
               tick'[w].body = outbox'[m].body
          /\ tick'[w].pc \in {"prepared", "accepted"} => tick'[w].body # 0
    BY <1>2, <1>9, <2>1, <2>2
  <2> QED  BY <1>1, <1>9, <2>1, <2>2, <2>3, <2>5, <2>6, OwnMail
<1>10. ASSUME NEW w \in Workers, NEW r, tick[w].pc # "idle", UpdateRow(tick[w].mail, r),
              tick' = [tick EXCEPT ![w] = IdleTick], UNCHANGED <<asked, overran>>,
              \/ r.status \in {"sent", "failed"}
              \/ r.status = "queued" /\ r.body = outbox[tick[w].mail].body
       PROVE  MailInv'
  <2>1. PICK m \in Mails : m = tick[w].mail /\ Claiming(w, m)
    BY <1>3, <1>10
  <2>2. /\ tick'[w].pc = "idle"
        /\ \A v \in Workers : v # w => tick'[v] = tick[v]
    BY <1>1, <1>10 DEF IdleTick, MailTypeOK
  <2>3. /\ \A n \in Mails : n # m => outbox'[n] = outbox[n] /\ asked'[n] = asked[n]
        /\ outbox'[m] = IF outbox[m].status \in Gone THEN outbox[m] ELSE r
    BY <1>1, <1>10, <2>1 DEF UpdateRow, MailTypeOK
  <2>4. outbox'[m].status = "absent" => outbox'[m] = outbox[m]
    BY <1>10, <2>3
  <2>5. m \notin overran => Asked(m)'
    <3> SUFFICES ASSUME m \notin overran PROVE Asked(m)'
      OBVIOUS
    <3>1. Asked(m) /\ outbox[m].status = "sending" /\ asked[m] \subseteq {outbox[m].body} \ {0}
      BY <1>2, <2>1
    <3>2. outbox'[m] = r
      BY <2>3, <3>1 DEF Gone
    <3> QED  BY <1>10, <2>1, <3>1, <3>2 DEF Asked
  <2> QED  BY <1>1, <1>10, <2>1, <2>2, <2>3, <2>4, <2>5, OwnMail
<1>11. ASSUME NEW w \in Workers, TooOld(w) PROVE MailInv'
  BY <1>9, <1>11 DEF TooOld
<1>12. ASSUME NEW w \in Workers, Prepare(w) PROVE MailInv'
  <2>1. PICK m \in Mails : m = tick[w].mail /\ Claiming(w, m)
    BY <1>3, <1>12 DEF Prepare
  <2>2. tick[w].pc = "claimed" /\ UNCHANGED <<asked, overran>> /\ links[m] + 1 \in Nat \ {0}
    BY <1>1, <1>12 DEF Prepare, MailTypeOK
  <2>3. \/ tick[w].body # 0 /\ Advance(w, "prepared") /\ UNCHANGED outbox
        \/ Advance(w, "failing") /\ UNCHANGED outbox
        \/ /\ UpdateRow(m, Final(outbox[m], "sent"))
           /\ tick' = [tick EXCEPT ![w] = IdleTick]
        \/ /\ tick[w].body = 0
           /\ UpdateRow(m, [outbox[m] EXCEPT !.body = links[m] + 1])
           /\ tick' = [tick EXCEPT ![w].pc = "prepared", ![w].body = links[m] + 1]
    BY <1>12, <2>1 DEF Prepare, Prepared
  <2>4. CASE tick[w].body # 0 /\ Advance(w, "prepared") /\ UNCHANGED outbox
    BY <1>9, <2>2, <2>4
  <2>5. CASE Advance(w, "failing") /\ UNCHANGED outbox
    BY <1>9, <2>2, <2>5
  <2>6. CASE /\ UpdateRow(m, Final(outbox[m], "sent"))
             /\ tick' = [tick EXCEPT ![w] = IdleTick]
    <3>1. Final(outbox[m], "sent").status = "sent"
      BY <1>1 DEF Final, MailTypeOK, Rows
    <3> QED  BY <1>10, <2>1, <2>2, <2>6, <3>1
  <2>7. CASE /\ tick[w].body = 0
             /\ UpdateRow(m, [outbox[m] EXCEPT !.body = links[m] + 1])
             /\ tick' = [tick EXCEPT ![w].pc = "prepared", ![w].body = links[m] + 1]
    <3>1. /\ tick'[w].pc = "prepared" /\ tick'[w].mail = m /\ tick'[w].body = links[m] + 1
          /\ \A v \in Workers : v # w => tick'[v] = tick[v]
      BY <1>1, <2>1, <2>7 DEF MailTypeOK, Ticks
    <3>2. \A n \in Mails : n # m => outbox'[n] = outbox[n] /\ asked'[n] = asked[n]
      BY <1>1, <2>2, <2>7 DEF UpdateRow, MailTypeOK
    <3>3. /\ outbox'[m].status = "absent" => outbox'[m] = outbox[m]
          /\ outbox[m].status = "sending" =>
               /\ outbox'[m].status = "sending" /\ outbox'[m].due = outbox[m].due
               /\ outbox'[m].age = outbox[m].age /\ outbox'[m].body = links[m] + 1
      BY <1>1, <2>7 DEF UpdateRow, MailTypeOK, Rows, Gone
    <3>4. m \notin overran =>
            /\ outbox'[m].status = "sending" /\ ~outbox'[m].due /\ outbox'[m].age < 2
            /\ outbox'[m].body = links[m] + 1
            /\ Asked(m)'
      <4> SUFFICES ASSUME m \notin overran
                   PROVE  /\ outbox'[m].status = "sending" /\ ~outbox'[m].due
                          /\ outbox'[m].age < 2 /\ outbox'[m].body = links[m] + 1
                          /\ Asked(m)'
        OBVIOUS
      <4>1. /\ outbox[m].status = "sending" /\ ~outbox[m].due /\ outbox[m].age < 2
            /\ outbox[m].body = 0 /\ asked[m] = {}
        BY <1>2, <2>1, <2>2, <2>7
      <4>2. asked'[m] = {}
        BY <2>2, <4>1
      <4> QED  BY <3>3, <4>1, <4>2 DEF Asked
    <3> QED  BY <1>1, <2>1, <2>2, <3>1, <3>2, <3>3, <3>4, OwnMail
  <2> QED  BY <2>3, <2>4, <2>5, <2>6, <2>7
<1>13. ASSUME NEW w \in Workers, DeliverMail(w) PROVE MailInv'
  <2>1. tick[w].mail \in Mails
    BY <1>3, <1>13 DEF DeliverMail
  <2>2. \/ UNCHANGED asked
        \/ asked' = [asked EXCEPT ![tick[w].mail] = @ \union {tick[w].body}]
    BY <1>13 DEF DeliverMail
  <2>3. /\ \A n \in Mails : asked'[n] \subseteq asked[n] \union {tick[w].body}
        /\ \A n \in Mails : n # tick[w].mail => asked'[n] = asked[n]
    BY <1>1, <2>1, <2>2 DEF MailTypeOK
  <2>4. /\ tick[w].pc = "prepared" /\ UNCHANGED <<outbox, overran>>
        /\ Advance(w, "accepted") \/ Advance(w, "failing")
    BY <1>13 DEF DeliverMail
  <2> QED  BY <1>9, <2>3, <2>4
<1>14. ASSUME NEW w \in Workers, MarkSent(w) PROVE MailInv'
  <2>1. tick[w].mail \in Mails
    BY <1>3, <1>14 DEF MarkSent
  <2>2. Final(outbox[tick[w].mail], "sent").status = "sent"
    BY <1>1, <2>1 DEF Final, MailTypeOK, Rows
  <2> QED  BY <1>10, <1>14, <2>2 DEF MarkSent
<1>15. ASSUME NEW w \in Workers, MarkFailed(w) PROVE MailInv'
  <2> DEFINE r == [outbox[tick[w].mail] EXCEPT !.due = FALSE]
             s == IF GivesUp(w) THEN Final(r, "failed") ELSE [r EXCEPT !.status = "queued"]
  <2>1. tick[w].mail \in Mails
    BY <1>3, <1>15 DEF MarkFailed
  <2>2. r \in Rows /\ r.body = outbox[tick[w].mail].body
    <3>1. outbox[tick[w].mail] \in Rows
      BY <1>1, <2>1 DEF MailTypeOK
    <3>2. r.body = outbox[tick[w].mail].body
      BY <3>1 DEF Rows
    <3> QED  BY <3>1, <3>2, RowTypes
  <2>3. UpdateRow(tick[w].mail, s) /\ tick' = [tick EXCEPT ![w] = IdleTick]
        /\ UNCHANGED <<asked, overran>> /\ tick[w].pc # "idle"
    BY <1>15 DEF MarkFailed
  <2> HIDE DEF r
  <2>4. s.status = "failed" \/ (s.status = "queued" /\ s.body = r.body)
    BY <2>2 DEF Final, Rows
  <2> HIDE DEF s
  <2> QED  BY <1>10, <2>2, <2>3, <2>4
<1>16. ASSUME NEW w \in Workers, AbandonTick(w) PROVE MailInv'
  <2>1. PICK m \in Mails : m = tick[w].mail /\ Claiming(w, m)
    BY <1>3, <1>16 DEF AbandonTick
  <2>2. /\ tick'[w].pc = "idle" /\ tick[w].pc # "idle"
        /\ \A v \in Workers : v # w => tick'[v] = tick[v]
        /\ UNCHANGED <<outbox, asked, overran>>
    BY <1>1, <1>16 DEF AbandonTick, IdleTick, MailTypeOK
  <2>3. m \notin overran => Asked(m)'
    BY <1>2, <2>1, <2>2 DEF Asked
  <2> QED  BY <1>1, <2>1, <2>2, <2>3, OwnMail
<1>17. ASSUME NEW w \in Workers, TickThrows(w) PROVE MailInv'
  BY <1>9, <1>17 DEF TickThrows
<1> QED
  BY <1>4, <1>5, <1>6, <1>7, <1>8, <1>11, <1>12, <1>13, <1>14, <1>15, <1>16, <1>17
  DEF MailNext, Work

LEMMA MailInitially == MailInit => MailInv
<1> SUFFICES ASSUME MailInit PROVE MailInv
  OBVIOUS
<1>1. NoRow \in Rows /\ IdleTick \in Ticks /\ mailFaults \in 0 .. MaxFaults
  BY WorkerAssumption, MailAssumption DEF MailInit, Rows, NoRow, Ticks, IdleTick
<1>2. MailTypeOK
  BY <1>1 DEF MailInit, MailTypeOK
<1>3. /\ \A w \in Workers : tick[w].pc = "idle"
      /\ \A m \in Mails : outbox[m].body = 0 /\ asked[m] = {}
  BY DEF MailInit, NoRow, IdleTick
<1> QED  BY <1>2, <1>3 DEF MailInv, Owned, Asked, Claiming

LEMMA OneBody == MailInv => OneBodyPerMail
<1> SUFFICES ASSUME MailInv, NEW m \in Mails \ overran PROVE Cardinality(asked[m]) <= 1
  BY DEF OneBodyPerMail
<1>1. PICK b \in Nat : asked[m] \subseteq {b}
  BY DEF MailInv, Asked
<1>2. IsFiniteSet({b}) /\ Cardinality({b}) = 1
  BY FS_Singleton
<1> QED  BY <1>1, <1>2, FS_Subset

-----------------------------------------------------------------------------
(* The dispatch of syncs: a dispatcher and a request that are busy know    *)
(* their interval and their event.                                         *)
DispatchInv ==
  /\ DispatchTypeOK
  /\ \A w \in Workers : dispatch[w].pc # "idle" => dispatch[w].bucket \in Buckets
  /\ \A r \in Receivers : receive[r].pc # "idle" => receive[r].event \in WebhookEvents

LEMMA DispatchKept ==
  ASSUME DispatchInv, [DispatchNext]_dispatchVars
  PROVE  DispatchInv'
<1>0. CASE UNCHANGED dispatchVars
  BY <1>0 DEF dispatchVars, DispatchInv, DispatchTypeOK
<1> SUFFICES ASSUME DispatchNext PROVE DispatchInv'
  BY <1>0
<1> USE DispatchAssumption DEF DispatchInv, DispatchTypeOK
<1>1. \A b \in Buckets : DispatchKey(b) \in Keys
  BY DEF DispatchKey, Keys
<1>2. \A e \in WebhookEvents : WebhookKey(e) \in Keys
  BY DEF WebhookKey, Keys
<1>3. ASSUME NEW k \in Keys, CreateJob(k) \/ UNCHANGED rows PROVE rows' \in SUBSET Keys
  BY <1>3 DEF CreateJob
<1>4. ASSUME NEW k \in Keys, AddToQueue(k)
      PROVE  syncJob' \in [Keys -> {"none", "waiting", "completed", "failed"}]
  BY <1>4 DEF AddToQueue
<1>5. Buckets \subseteq 0 .. MaxBuckets
  BY DEF Buckets
<1>6. DispatchFault => dispatchFaults' \in 0 .. MaxDispatchFaults
  BY DEF DispatchFault
<1> USE DEF NoDispatch, NoReceive, Dispatches, Receives
<1>7. ASSUME NEW w \in Workers, FindDue(w) PROVE DispatchInv'
  BY <1>5, <1>7 DEF FindDue
<1>8. ASSUME NEW w \in Workers, CreateDispatch(w) PROVE DispatchInv'
  <2>1. rows' \in SUBSET Keys
    BY <1>1, <1>3, <1>8 DEF CreateDispatch
  <2> QED  BY <1>8, <2>1 DEF CreateDispatch
<1>9. ASSUME NEW w \in Workers, AddDispatch(w) PROVE DispatchInv'
  <2>1. syncJob' \in [Keys -> {"none", "waiting", "completed", "failed"}]
    BY <1>1, <1>4, <1>9 DEF AddDispatch
  <2> QED  BY <1>9, <2>1 DEF AddDispatch
<1>10. ASSUME NEW w \in Workers, DispatchFails(w) PROVE DispatchInv'
  BY <1>6, <1>10 DEF DispatchFails
<1>11. ASSUME NEW r \in Receivers, NEW e \in WebhookEvents, BeginReceive(r, e)
       PROVE  DispatchInv'
  BY <1>11 DEF BeginReceive
<1>12. ASSUME NEW r \in Receivers, ReserveEvent(r) PROVE DispatchInv'
  BY <1>12 DEF ReserveEvent
<1>13. ASSUME NEW r \in Receivers, StartSync(r) PROVE DispatchInv'
  <2>1. receive[r].event \in WebhookEvents
    BY <1>13 DEF StartSync
  <2>2. rows' \in SUBSET Keys
    BY <1>2, <1>3, <1>13, <2>1 DEF StartSync
  <2>3. interrupted' \in SUBSET WebhookEvents
    BY <1>13, <2>1 DEF StartSync
  <2> QED  BY <1>13, <2>2, <2>3 DEF StartSync
<1>14. ASSUME NEW r \in Receivers, EnqueueSync(r) PROVE DispatchInv'
  <2>1. syncJob' \in [Keys -> {"none", "waiting", "completed", "failed"}]
    BY <1>2, <1>4, <1>14 DEF EnqueueSync
  <2> QED  BY <1>14, <2>1 DEF EnqueueSync
<1>15. ASSUME NEW r \in Receivers, ReceiveFails(r) PROVE DispatchInv'
  <2>1. interrupted' \in SUBSET WebhookEvents
    BY <1>15 DEF ReceiveFails
  <2> QED  BY <1>6, <1>15, <2>1 DEF ReceiveFails
<1>16. ASSUME NEW k \in Keys, RunSync(k) PROVE DispatchInv'
  <2>1. syncedIn' \in 0 .. MaxBuckets
    BY <1>5, <1>16 DEF RunSync
  <2> QED  BY <1>16, <2>1 DEF RunSync
<1>17. CASE NextBucket
  <2>1. bucket' \in Buckets
    BY <1>17 DEF NextBucket, Buckets
  <2> QED  BY <1>17, <2>1 DEF NextBucket
<1>18. CASE BecomeDue \/ Connect
  BY <1>18 DEF BecomeDue, Connect
<1>19. CASE Disconnect
  BY <1>6, <1>19 DEF Disconnect
<1> QED
  BY <1>7, <1>8, <1>9, <1>10, <1>11, <1>12, <1>13, <1>14, <1>15, <1>16, <1>17,
     <1>18, <1>19 DEF DispatchNext, DispatchWork, ReceiveWork

LEMMA DispatchInitially == DispatchInit => DispatchInv
<1> SUFFICES ASSUME DispatchInit PROVE DispatchInv
  OBVIOUS
<1>1. bucket \in Buckets /\ syncedIn \in 0 .. MaxBuckets
      /\ dispatchFaults \in 0 .. MaxDispatchFaults
  BY DispatchAssumption DEF DispatchInit, Buckets
<1>2. NoDispatch \in Dispatches /\ NoReceive \in Receives
  BY DispatchAssumption DEF NoDispatch, NoReceive, Dispatches, Receives
<1> QED
  BY <1>1, <1>2 DEF DispatchInit, DispatchInv, DispatchTypeOK, NoDispatch, NoReceive

-----------------------------------------------------------------------------
(* The specification: each part keeps its invariant, whichever part acts.  *)

BackgroundInv ==
  /\ part \in Parts
  /\ MailInv
  /\ ReprocessInv
  /\ ScheduleInv
  /\ StripeInv
  /\ DispatchInv
  /\ ReportInv
  /\ PrivacyInv

LEMMA PartSteps ==
  ASSUME [Next]_vars
  PROVE  /\ UNCHANGED part
         /\ [MailNext]_mailVars
         /\ [ReprocessNext]_reprocessVars
         /\ [ScheduleNext]_scheduleVars
         /\ [StripeNext]_stripeVars
         /\ [DispatchNext]_dispatchVars
         /\ [ReportNext]_reportVars
         /\ [PrivacyNext]_privacyVars
BY DEF Next, vars, MailPart, ReprocessPart, SchedulePart, StripePart, DispatchPart,
       ReportPart, PrivacyPart

(* The inductive invariant of the specification.                           *)
LEMMA BackgroundInvariant == Spec => []BackgroundInv
<1>1. Init => BackgroundInv
  BY MailInitially, ReprocessInitially, ScheduleInitially, StripeInitially,
     DispatchInitially, ReportInitially, PrivacyInitially DEF Init, BackgroundInv
<1>2. BackgroundInv /\ [Next]_vars => BackgroundInv'
  <2> SUFFICES ASSUME BackgroundInv, [Next]_vars PROVE BackgroundInv'
    OBVIOUS
  <2>1. part' \in Parts
    BY PartSteps DEF BackgroundInv
  <2>2. MailInv' /\ ReprocessInv' /\ ScheduleInv'
    BY PartSteps, MailKept, ReprocessKept, ScheduleKept DEF BackgroundInv
  <2>3. StripeInv' /\ DispatchInv'
    BY PartSteps, StripeInductive, DispatchKept DEF BackgroundInv
  <2>4. ReportInv' /\ PrivacyInv'
    BY PartSteps, ReportKept, PrivacyKept DEF BackgroundInv
  <2> QED  BY <2>1, <2>2, <2>3, <2>4 DEF BackgroundInv
<1> QED  BY <1>1, <1>2, PTL DEF Spec

(* Every variable of every part keeps its type: a row, a queue entry, a    *)
(* process and each history variable.                                      *)
THEOREM BackgroundTypes == Spec => []TypeOK
<1>1. BackgroundInv => TypeOK
  BY DEF BackgroundInv, TypeOK, MailInv, ReprocessInv, ScheduleInv, StripeInv,
         DispatchInv, ReportInv, PrivacyInv
<1> QED  BY <1>1, BackgroundInvariant, PTL

(* The provider is handed no two bodies under one mail's idempotency key   *)
(* by AccessMailWorker.tick, through crashes, lost answers and retries,    *)
(* unless a tick outlived the two minutes of its claim.                    *)
THEOREM RetriesCarryTheSameBody == Spec => []OneBodyPerMail
<1>1. BackgroundInv => OneBodyPerMail
  BY OneBody DEF BackgroundInv
<1> QED  BY <1>1, BackgroundInvariant, PTL

(* processMetricReprocessing of several workers never leaves two open jobs *)
(* for one organisation: the look and the INSERT are one advisory lock's.  *)
THEOREM ReprocessingDoesNotPileUp == Spec => []OneOpenJob
<1>1. BackgroundInv => OneOpenJob
  BY DEF BackgroundInv, ReprocessInv
<1> QED  BY <1>1, BackgroundInvariant, PTL

(* However many schedulers fire in an hour and however often a worker dies,*)
(* the hour's job completes once, and once more per stalled delivery.      *)
THEOREM HoursRunOnce == Spec => []ScheduledOncePerHour
<1> SUFFICES BackgroundInv => ScheduledOncePerHour
  BY BackgroundInvariant, PTL
<1> SUFFICES ASSUME BackgroundInv, NEW h \in Hours
             PROVE  completed[h] <= 1 + runStalls[h]
  BY DEF ScheduledOncePerHour
<1>1. Counted(h) /\ ScheduleTypeOK
  BY DEF BackgroundInv, ScheduleInv
<1>2. completed[h] \in Nat /\ runStalls[h] \in Nat
  BY <1>1, ScheduleAssumption DEF ScheduleTypeOK, RunQueue!QueueTypeOK
<1>3. Cardinality(Running(h)) \in Nat /\ Deliverable(h) \in Nat
  BY <1>1, FS_CardinalityType DEF Counted, Deliverable
<1> HIDE DEF Running, Deliverable
<1> QED  BY <1>1, <1>2, <1>3 DEF Counted

(* A reserved hour stands for a job of the queue, and the row says how a   *)
(* completed job ended, whichever of scheduler and processor was faster,   *)
(* unless the job overtook the commit of its reservation.                  *)
THEOREM ScheduledRunsAreTold == Spec => []RowTellsTheRun
<1>1. BackgroundInv => RowTellsTheRun
  BY DEF BackgroundInv, ScheduleInv, RowsInv, Settled, RowTellsTheRun
<1> QED  BY <1>1, BackgroundInvariant, PTL

(* What a report's row says of its object is so: a ready row's checksum is *)
(* the stored object's and an expired row has none, unless attempts or     *)
(* sweeps overlapped or an upload of a failed attempt replaced the object. *)
THEOREM ReportRowsMatchTheBucket == Spec => []RowMatchesObject
<1>1. BackgroundInv => RowMatchesObject
  BY DEF BackgroundInv, ReportInv
<1> QED  BY <1>1, BackgroundInvariant, PTL

(* A finished privacy request's targets refer to the evidence that is      *)
(* stored, although processPrivacy writes them one transaction at a time   *)
(* and the queue redelivers.                                               *)
THEOREM PrivacyEvidenceIsStored == Spec => []EvidenceIsStored
<1>1. BackgroundInv => EvidenceIsStored
  BY DEF BackgroundInv, PrivacyInv
<1> QED  BY <1>1, BackgroundInvariant, PTL

=============================================================================
