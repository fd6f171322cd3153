----------------------------- MODULE ReportExports -----------------------------
(***************************************************************************)
(* One row of app.assistant_report_exports and the artifact under its      *)
(* object key, which is a function of the row's id: ReportService.create   *)
(* inserts the row and then enqueues its job; processReport renders,       *)
(* stores and records the artifact in one transaction that holds the row;  *)
(* processRetention deletes expired artifacts and then marks their rows.   *)
(* Every rendering differs (generatedAt), so artifacts are numbered.       *)
(***************************************************************************)
EXTENDS PlatformJobs

VARIABLES
  report,       \* the row, as committed
  object,       \* the artifact in the bucket, 0 when there is none
  rendered,     \* artifacts so far
  snapshots,    \* the period has metric snapshots; they are never deleted
  creating,        \* create() has inserted or found the row, queue.add is next
  making,       \* processReport of each worker: its step and its artifact
  sweep,        \* processRetention of each worker, as far as this row goes
  reportJob, reportHolder, reportTries, reportStalls,  \* see JobQueue
  overwritten,  \* HISTORY: an attempt has replaced the artifact of a settled
                \* row, and no attempt has recorded an artifact since
  met,          \* HISTORY: an attempt and a sweep have overlapped
  reportFaults

reportJobVars == <<reportJob, reportHolder, reportTries, reportStalls>>
reportVars == <<report, object, rendered, snapshots, creating, making, sweep,
                reportJobVars, overwritten, met, reportFaults>>

-----------------------------------------------------------------------------
ReportQueue == INSTANCE JobQueue
                 WITH Jobs <- {TheJob}, Runs <- Workers, NoRun <- NoProcess,
                      MaxHead <- 0, MaxAttempts <- JobAttempts,
                      MaxStalls <- JobStalls, q <- reportJob,
                      holder <- reportHolder, made <- reportTries,
                      stalls <- reportStalls

(* sum: checksum_sha256.  expired: expires_at <= now(). *)
ReportRows == [status : {"absent", "queued", "failed", "ready", "expired"},
               sum : Nat, expired : BOOLEAN]

NotMaking == [pc |-> "idle", artifact |-> 0]

ReportTypeOK ==
  /\ report \in ReportRows
  /\ object \in Nat
  /\ rendered \in Nat
  /\ snapshots \in BOOLEAN
  /\ creating \in BOOLEAN
  /\ making \in [Workers ->
                  [pc : {"idle", "begin", "locked", "put", "committed"},
                   artifact : Nat]]
  /\ sweep \in [Workers -> {"idle", "found", "deleted"}]
  /\ ReportQueue!QueueTypeOK
  /\ overwritten \in BOOLEAN
  /\ met \in BOOLEAN
  /\ reportFaults \in 0 .. MaxJobFaults

ReportInit ==
  /\ report = [status |-> "absent", sum |-> 0, expired |-> FALSE]
  /\ object = 0
  /\ rendered = 0
  /\ snapshots \in BOOLEAN
  /\ creating = FALSE
  /\ making = [w \in Workers |-> NotMaking]
  /\ sweep = [w \in Workers |-> "idle"]
  /\ ReportQueue!QueueInit
  /\ overwritten = FALSE
  /\ met = FALSE
  /\ reportFaults = 0

ReportFault == reportFaults < MaxJobFaults /\ reportFaults' = reportFaults + 1

SnapshotsArrive ==
  /\ ~snapshots
  /\ snapshots' = TRUE
  /\ UNCHANGED <<report, object, rendered, creating, making, sweep, reportJobVars,
                 overwritten, met, reportFaults>>

-----------------------------------------------------------------------------
(* ReportService.create, any number of times with one idempotency key. *)

RequestReport ==
  /\ ~creating
  /\ creating' = TRUE
  /\ report' = IF report.status = "absent"
               THEN [report EXCEPT !.status = "queued"] ELSE report
  /\ UNCHANGED <<object, rendered, snapshots, making, sweep, reportJobVars,
                 overwritten, met, reportFaults>>

EnqueueReport ==
  /\ creating
  /\ creating' = FALSE
  /\ \/ ReportQueue!Add(TheJob)
     \/ reportJob[TheJob] # "none" /\ UNCHANGED reportJobVars
  /\ UNCHANGED <<report, object, rendered, snapshots, making, sweep,
                 overwritten, met, reportFaults>>

(* queue.add fails, or the API dies before it. *)
RequestFails ==
  /\ creating
  /\ ReportFault
  /\ creating' = FALSE
  /\ UNCHANGED <<report, object, rendered, snapshots, making, sweep,
                 reportJobVars, overwritten, met>>

(* The queue removes an old job (removeOnComplete, removeOnFail).          *)
DropReportJob ==
  /\ reportJob[TheJob] \in {"completed", "failed"}
  /\ ReportFault
  /\ reportJob' = [reportJob EXCEPT ![TheJob] = "none"]
  /\ reportTries' = [reportTries EXCEPT ![TheJob] = 0]
  /\ reportStalls' = [reportStalls EXCEPT ![TheJob] = 0]
  /\ UNCHANGED <<report, object, rendered, snapshots, creating, making, sweep,
                 reportHolder, overwritten, met>>

-----------------------------------------------------------------------------
(* processReport: whatever the row's status is, it is generated again. *)

Making(w) == making[w].pc \in {"locked", "put"}

Sweeping == \E w \in Workers : sweep[w] # "idle"

StartReport(w) ==
  /\ making[w].pc = "idle"
  /\ ReportQueue!Deliver(TheJob, w)
  /\ making' = [making EXCEPT ![w].pc = "begin"]
  /\ UNCHANGED <<report, object, rendered, snapshots, creating, sweep,
                 overwritten, met, reportFaults>>

RowFree == \A w \in Workers : ~Making(w)

(* BEGIN, SELECT ... FOR UPDATE, and the metric snapshots of the period. *)
ReadReport(w) ==
  /\ making[w].pc = "begin"
  /\ RowFree
  /\ snapshots
  /\ making' = [making EXCEPT ![w].pc = "locked"]
  /\ met' = (met \/ Sweeping)
  /\ UNCHANGED <<report, object, rendered, snapshots, creating, sweep,
                 reportJobVars, overwritten, reportFaults>>

(* NO_REPORT_DATA *)
FailReport(w) ==
  /\ making[w].pc = "begin"
  /\ RowFree
  /\ ~snapshots
  /\ report' = [report EXCEPT !.status = "failed"]
  /\ making' = [making EXCEPT ![w].pc = "committed"]
  /\ UNCHANGED <<object, rendered, snapshots, creating, sweep, reportJobVars,
                 overwritten, met, reportFaults>>

PutArtifact(w) ==
  /\ making[w].pc = "locked"
  /\ rendered' = rendered + 1
  /\ object' = rendered + 1
  /\ making' = [making EXCEPT ![w] = [pc |-> "put", artifact |-> rendered + 1]]
  /\ overwritten' = (overwritten \/ report.status \in {"ready", "expired"})
  /\ UNCHANGED <<report, snapshots, creating, sweep, reportJobVars, met, reportFaults>>

CommitReport(w) ==
  /\ making[w].pc = "put"
  /\ report' = [status |-> "ready", sum |-> making[w].artifact, expired |-> FALSE]
  /\ making' = [making EXCEPT ![w].pc = "committed"]
  /\ overwritten' = FALSE
  /\ UNCHANGED <<object, rendered, snapshots, creating, sweep, reportJobVars, met,
                 reportFaults>>

CompleteReport(w) ==
  /\ making[w].pc = "committed"
  /\ ReportQueue!Complete(TheJob, w)
  /\ making' = [making EXCEPT ![w] = NotMaking]
  /\ UNCHANGED <<report, object, rendered, snapshots, creating, sweep,
                 overwritten, met, reportFaults>>

(* A statement, the upload or COMMIT fails: ROLLBACK.  The upload may have *)
(* happened.                                                               *)
ReportThrows(w) ==
  /\ making[w].pc \in {"begin", "locked", "put"}
  /\ ReportFault
  /\ ReportQueue!FailAttempt(TheJob, w)
  /\ making' = [making EXCEPT ![w] = NotMaking]
  /\ UNCHANGED <<report, object, rendered, snapshots, creating, sweep,
                 overwritten, met>>

(* The process dies, with the sweep it may have under way. *)
CrashReport(w) ==
  /\ making[w].pc # "idle" \/ sweep[w] # "idle"
  /\ ReportFault
  /\ ReportQueue!Orphan({w})
  /\ making' = [making EXCEPT ![w] = NotMaking]
  /\ sweep' = [sweep EXCEPT ![w] = "idle"]
  /\ UNCHANGED <<report, object, rendered, snapshots, creating, overwritten, met>>

OrphanedReport ==
  reportJob[TheJob] = "active" /\ reportHolder[TheJob] = NoProcess

StallReport ==
  /\ ReportQueue!Stall(TheJob)
  /\ IF OrphanedReport THEN UNCHANGED reportFaults ELSE ReportFault
  /\ UNCHANGED <<report, object, rendered, snapshots, creating, making, sweep,
                 overwritten, met>>

RetryReport ==
  /\ ReportQueue!Promote(TheJob)
  /\ UNCHANGED <<report, object, rendered, snapshots, creating, making, sweep,
                 overwritten, met, reportFaults>>

-----------------------------------------------------------------------------
(* processRetention *)

ReportExpires ==
  /\ report.status = "ready" /\ ~report.expired
  /\ report' = [report EXCEPT !.expired = TRUE]
  /\ UNCHANGED <<object, rendered, snapshots, creating, making, sweep,
                 reportJobVars, overwritten, met, reportFaults>>

(* MUTANT: ready reports are swept whatever their expires_at. *)
IsReady == report.status = "ready"

IsExpired == report.status = "ready" /\ report.expired

SelectExpired(w) ==
  /\ sweep[w] = "idle"
  /\ IsExpired
  /\ sweep' = [sweep EXCEPT ![w] = "found"]
  /\ met' = (met \/ ~RowFree)
  /\ UNCHANGED <<report, object, rendered, snapshots, creating, making,
                 reportJobVars, overwritten, reportFaults>>

(* deleteAllVersions *)
DeleteArtifact(w) ==
  /\ sweep[w] = "found"
  /\ object' = 0
  /\ sweep' = [sweep EXCEPT ![w] = "deleted"]
  /\ UNCHANGED <<report, rendered, snapshots, creating, making, reportJobVars,
                 overwritten, met, reportFaults>>

(* The UPDATE, which waits for the row, and the ledger. *)
MarkExpired(w) ==
  /\ sweep[w] = "deleted"
  /\ RowFree
  /\ report' = IF report.status = "ready"
               THEN [report EXCEPT !.status = "expired"] ELSE report
  /\ sweep' = [sweep EXCEPT ![w] = "idle"]
  /\ UNCHANGED <<object, rendered, snapshots, creating, making, reportJobVars,
                 overwritten, met, reportFaults>>

(* The storage or the database fails: this row is left to a later sweep. *)
SweepFails(w) ==
  /\ sweep[w] # "idle"
  /\ ReportFault
  /\ sweep' = [sweep EXCEPT ![w] = "idle"]
  /\ UNCHANGED <<report, object, rendered, snapshots, creating, making,
                 reportJobVars, overwritten, met>>

-----------------------------------------------------------------------------
SweepSteps(w) == SelectExpired(w) \/ DeleteArtifact(w) \/ MarkExpired(w)

MakeSteps(w) ==
  \/ StartReport(w) \/ ReadReport(w) \/ FailReport(w) \/ PutArtifact(w)
  \/ CommitReport(w) \/ CompleteReport(w)

ReportNext ==
  \/ SnapshotsArrive \/ RequestReport \/ EnqueueReport \/ RequestFails
  \/ DropReportJob \/ StallReport \/ RetryReport \/ ReportExpires
  \/ \E w \in Workers :
       \/ MakeSteps(w) \/ ReportThrows(w) \/ CrashReport(w)
       \/ SweepSteps(w) \/ SweepFails(w)

ReportSpec == ReportInit /\ [][ReportNext]_reportVars

-----------------------------------------------------------------------------
(* Row and bucket agree although no transaction spans them: a report that  *)
(* can be downloaded is the one whose checksum the row has, and of a       *)
(* report that is marked expired nothing is left.  Two windows are         *)
(* excepted, in which the code does not keep this: after an attempt has    *)
(* replaced the artifact of a settled row without recording it, and after  *)
(* an attempt and a sweep have overlapped.                                 *)
RowMatchesObject ==
  ~overwritten /\ ~met =>
    /\ report.status = "ready" /\ ~report.expired => object = report.sum
    /\ report.status = "expired" => object = 0

=============================================================================
