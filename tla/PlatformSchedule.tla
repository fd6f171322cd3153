---------------------------- MODULE PlatformSchedule ----------------------------
(***************************************************************************)
(* One periodic job (reconciliation, retention) of the platform: the cron  *)
(* of every worker process calls enqueueSingleton, which reserves the hour *)
(* in app.platform_schedule_runs and adds the job within the reserving     *)
(* transaction; whichever worker takes the job marks the hour's row.       *)
(***************************************************************************)
EXTENDS WorkerProcesses

CONSTANTS
  MaxHours,      \* BOUND: the hours for which the cron fires
  RunAttempts,   \* job option "attempts" (5 in enqueueSingleton)
  RunStallLimit, \* BullMQ's maxStalledCount
  NoRunner

ASSUME ScheduleAssumption ==
  /\ MaxHours \in Nat
  /\ RunAttempts \in Nat \ {0}
  /\ RunStallLimit \in Nat
  /\ NoRunner \notin Workers

VARIABLES
  reserved,     \* platform_schedule_runs.status by hour, as committed
  cron,         \* enqueueSingleton of each worker: its step and its hour
  runJob, runHolder, runTries, runStalls,   \* the platform queue, see JobQueue
  runner,       \* the hour whose job each worker runs, 0 when none
  marked,       \* the worker has marked the row, or found none
  completed,    \* HISTORY: how often the hour's job ran to its end
  early,        \* HISTORY: hours whose job was marked before its row was there
  cronFaults

runJobVars == <<runJob, runHolder, runTries, runStalls>>
runnerVars == <<runner, marked, completed, early>>
scheduleVars == <<reserved, cron, runJobVars, runnerVars, cronFaults>>

-----------------------------------------------------------------------------
Hours == 1 .. MaxHours

RunQueue == INSTANCE JobQueue
              WITH Jobs <- Hours, Runs <- Workers, NoRun <- NoRunner, MaxHead <- 0,
                   MaxAttempts <- RunAttempts, MaxStalls <- RunStallLimit,
                   q <- runJob, holder <- runHolder, made <- runTries,
                   stalls <- runStalls

IdleCron == [pc |-> "idle", hour |-> 0]

ScheduleTypeOK ==
  /\ reserved \in [Hours -> {"none", "enqueued", "completed", "failed"}]
  /\ cron \in [Workers -> [pc : {"idle", "reserved", "added"},
                           hour : {0} \union Hours]]
  /\ RunQueue!QueueTypeOK
  /\ runner \in [Workers -> {0} \union Hours]
  /\ marked \in [Workers -> BOOLEAN]
  /\ completed \in [Hours -> Nat]
  /\ early \in SUBSET Hours
  /\ cronFaults \in 0 .. MaxFaults

ScheduleInit ==
  /\ reserved = [h \in Hours |-> "none"]
  /\ cron = [w \in Workers |-> IdleCron]
  /\ RunQueue!QueueInit
  /\ runner = [w \in Workers |-> 0]
  /\ marked = [w \in Workers |-> FALSE]
  /\ completed = [h \in Hours |-> 0]
  /\ early = {}
  /\ cronFaults = 0

CronFault == cronFaults < MaxFaults /\ cronFaults' = cronFaults + 1

-----------------------------------------------------------------------------
(* enqueueSingleton: every process fires in the same hour, not at the same *)
(* instant.  The lock is pg_try_advisory_xact_lock: who does not get it    *)
(* leaves the hour to its holder.                                          *)

Taken(h) == reserved[h] # "none"

CronLockFree == \A w \in Workers : cron[w].pc = "idle"

Reserve(w, h) ==
  /\ cron[w].pc = "idle"
  /\ CronLockFree
  /\ ~Taken(h)
  /\ cron' = [cron EXCEPT ![w] = [pc |-> "reserved", hour |-> h]]
  /\ UNCHANGED <<reserved, runJobVars, runnerVars, cronFaults>>

(* MUTANT: each attempt to schedule adds a job of its own. *)
AddAnotherRun(w) ==
  LET h == cron[w].hour IN
  /\ cron[w].pc = "reserved"
  /\ runJob' = [runJob EXCEPT ![h] = IF @ = "active" THEN @ ELSE "waiting"]
  /\ cron' = [cron EXCEPT ![w].pc = "added"]
  /\ UNCHANGED <<reserved, runHolder, runTries, runStalls, runnerVars, cronFaults>>

(* queue.add under the job id of the hour, which may be there already: an  *)
(* earlier transaction can have added it and then failed.                  *)
AddRun(w) ==
  LET h == cron[w].hour IN
  /\ cron[w].pc = "reserved"
  /\ RunQueue!Add(h) \/ (runJob[h] # "none" /\ UNCHANGED runJobVars)
  /\ cron' = [cron EXCEPT ![w].pc = "added"]
  /\ UNCHANGED <<reserved, runnerVars, cronFaults>>

CommitReservation(w) ==
  /\ cron[w].pc = "added"
  /\ reserved' = [reserved EXCEPT ![cron[w].hour] = "enqueued"]
  /\ cron' = [cron EXCEPT ![w] = IdleCron]
  /\ UNCHANGED <<runJobVars, runnerVars, cronFaults>>

(* The process dies, a statement or queue.add fails: the reservation is    *)
(* rolled back (after a failed add it is deleted first).                   *)
CronFails(w) ==
  /\ cron[w].pc # "idle"
  /\ CronFault
  /\ cron' = [cron EXCEPT ![w] = IdleCron]
  /\ UNCHANGED <<reserved, runJobVars, runnerVars>>

-----------------------------------------------------------------------------
(* processReconciliation, processRetention *)

StartRun(w, h) ==
  /\ runner[w] = 0
  /\ RunQueue!Deliver(h, w)
  /\ runner' = [runner EXCEPT ![w] = h]
  /\ marked' = [marked EXCEPT ![w] = FALSE]
  /\ UNCHANGED <<reserved, cron, completed, early, cronFaults>>

(* MUTANT: completeSchedule marks the latest reservation, not its own. *)
LatestReservation(h) ==
  LET rows == {g \in Hours : Taken(g)} IN
  IF rows = {} THEN h ELSE CHOOSE g \in rows : \A f \in rows : f <= g

RowOf(h) == h

(* completeSchedule: the UPDATE matches nothing while the reservation is   *)
(* not committed; the outcome is "failed" when artifacts were left over.   *)
MarkRow(w) ==
  LET h == RowOf(runner[w]) IN
  /\ runner[w] # 0
  /\ ~marked[w]
  /\ marked' = [marked EXCEPT ![w] = TRUE]
  /\ IF Taken(h)
     THEN \E outcome \in {"completed", "failed"} :
            reserved' = [reserved EXCEPT ![h] = outcome] /\ UNCHANGED early
     ELSE early' = early \union {h} /\ UNCHANGED reserved
  /\ UNCHANGED <<cron, runJobVars, runner, completed, cronFaults>>

FinishRun(w) ==
  /\ marked[w] /\ runner[w] # 0
  /\ RunQueue!Complete(runner[w], w)
  /\ completed' = [completed EXCEPT ![runner[w]] = @ + 1]
  /\ runner' = [runner EXCEPT ![w] = 0]
  /\ UNCHANGED <<reserved, cron, marked, early, cronFaults>>

RunThrows(w) ==
  /\ runner[w] # 0 /\ ~marked[w]
  /\ CronFault
  /\ RunQueue!FailAttempt(runner[w], w)
  /\ runner' = [runner EXCEPT ![w] = 0]
  /\ UNCHANGED <<reserved, cron, marked, completed, early>>

RunCrashes(w) ==
  /\ runner[w] # 0
  /\ CronFault
  /\ RunQueue!Orphan({w})
  /\ runner' = [runner EXCEPT ![w] = 0]
  /\ UNCHANGED <<reserved, cron, marked, completed, early>>

OrphanedRun(h) == runJob[h] = "active" /\ runHolder[h] = NoRunner

StallRun(h) ==
  /\ RunQueue!Stall(h)
  /\ IF OrphanedRun(h) THEN UNCHANGED cronFaults ELSE CronFault
  /\ UNCHANGED <<reserved, cron, runnerVars>>

RetryRun(h) ==
  /\ RunQueue!Promote(h)
  /\ UNCHANGED <<reserved, cron, runnerVars, cronFaults>>

-----------------------------------------------------------------------------
ScheduleNext ==
  \/ \E w \in Workers :
       \/ \E h \in Hours : Reserve(w, h) \/ StartRun(w, h)
       \/ AddRun(w) \/ CommitReservation(w) \/ CronFails(w)
       \/ MarkRow(w) \/ FinishRun(w) \/ RunThrows(w) \/ RunCrashes(w)
  \/ \E h \in Hours : StallRun(h) \/ RetryRun(h)

ScheduleSpec == ScheduleInit /\ [][ScheduleNext]_scheduleVars

-----------------------------------------------------------------------------
(* Several processes fire for the same hour, and some die between adding   *)
(* the job and committing the reservation: the hour's job still runs once, *)
(* but for the redeliveries of the queue.                                  *)
ScheduledOncePerHour ==
  \A h \in Hours : completed[h] <= 1 + runStalls[h]

(* A committed hour stands for a job that the queue was given, and once    *)
(* that job has run the row says how it ended, unless the job overtook the *)
(* commit of its reservation: then the row says "enqueued" for good.       *)
RowTellsTheRun ==
  \A h \in Hours :
    /\ reserved[h] # "none" => runJob[h] # "none"
    /\ runJob[h] = "completed" /\ reserved[h] # "none" /\ h \notin early
         => reserved[h] \in {"completed", "failed"}

=============================================================================
