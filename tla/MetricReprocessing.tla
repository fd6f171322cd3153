-------------------------- MODULE MetricReprocessing --------------------------
(***************************************************************************)
(* Reprocess jobs of one workspace: scheduleMetricReprocessDetection       *)
(* queues a job for the metrics whose snapshots have an outdated           *)
(* definition version, drainMetricReprocessJobs resolves it once requests  *)
(* of the API have written fresh snapshots.  Snapshots are only ever       *)
(* inserted.  A job is a number in the order of created_at.                *)
(***************************************************************************)
EXTENDS WorkerProcesses

CONSTANTS
  Codes,      \* metric codes
  MaxJobs     \* BOUND: reprocess jobs

ASSUME ReprocessAssumption == MaxJobs \in Nat

VARIABLES
  stored,      \* codes with a snapshot of the workspace
  outdated,    \* codes with a snapshot whose version is not the current one
  reprocess,   \* the rows of app.reprocess_jobs
  request,     \* an API request: the jobs there were at its generatedAt
  detector,    \* scheduleMetricReprocessDetection of each worker
  drain,       \* drainMetricReprocessJobs of each worker
  reprocessFaults,   \* failures so far
  stranded           \* HISTORY: jobs that a drain had claimed when it failed

reprocessVars ==
  <<stored, outdated, reprocess, request, detector, drain, reprocessFaults,
    stranded>>

-----------------------------------------------------------------------------
ReprocessJobs == 1 .. MaxJobs

Open == {"queued", "running"}

(* codes: affected_metric_codes.  fresh: the codes with a snapshot whose   *)
(* generated_at is later than created_at.                                  *)
JobRows == [status : {"absent", "succeeded"} \union Open,
            codes : SUBSET Codes, fresh : SUBSET Codes]

NoJob == [status |-> "absent", codes |-> {}, fresh |-> {}]

(* claimed: jobs still to be resolved.  allFresh: the jobs of which the    *)
(* SELECT in progress found every code fresh.                              *)
Drains == [claimed : SUBSET ReprocessJobs, allFresh : SUBSET ReprocessJobs,
           checked : SUBSET ReprocessJobs]

NoDrain == [claimed |-> {}, allFresh |-> {}, checked |-> {}]

ReprocessTypeOK ==
  /\ stored \in SUBSET Codes
  /\ outdated \in SUBSET stored
  /\ reprocess \in [ReprocessJobs -> JobRows]
  /\ request \in [busy : BOOLEAN, since : SUBSET ReprocessJobs]
  /\ detector \in [Workers -> [locked : BOOLEAN, codes : SUBSET Codes]]
  /\ drain \in [Workers -> Drains]
  /\ reprocessFaults \in 0 .. MaxFaults
  /\ stranded \in SUBSET ReprocessJobs

NoRequest == [busy |-> FALSE, since |-> {}]
NoDetection == [locked |-> FALSE, codes |-> {}]

ReprocessInit ==
  /\ stored = {}
  /\ outdated = {}
  /\ reprocess = [j \in ReprocessJobs |-> NoJob]
  /\ request = NoRequest
  /\ detector = [w \in Workers |-> NoDetection]
  /\ drain = [w \in Workers |-> NoDrain]
  /\ reprocessFaults = 0
  /\ stranded = {}

Failing == reprocessFaults < MaxFaults /\ reprocessFaults' = reprocessFaults + 1

-----------------------------------------------------------------------------
(* The API. *)

Exists(j) == reprocess[j].status # "absent"

(* A dashboard request: generatedAt is taken when it begins. *)
BeginRequest ==
  /\ ~request.busy
  /\ request' = [busy |-> TRUE, since |-> {j \in ReprocessJobs : Exists(j)}]
  /\ UNCHANGED <<stored, outdated, reprocess, detector, drain, reprocessFaults, stranded>>

(* insertSnapshots, one transaction for the codes of the request; it is    *)
(* not awaited and may fail.  Two versions of the API may run side by      *)
(* side: old means that the snapshots have the outdated version.           *)
PersistSnapshots(codes, old) ==
  /\ request.busy
  /\ stored' = stored \union codes
  /\ outdated' = IF old THEN outdated \union codes ELSE outdated
  /\ reprocess' = [j \in ReprocessJobs |->
       IF j \in request.since
       THEN [reprocess[j] EXCEPT !.fresh = @ \union codes] ELSE reprocess[j]]
  /\ request' = NoRequest
  /\ UNCHANGED <<detector, drain, reprocessFaults, stranded>>

(* A new definition version of these codes is seeded. *)
ChangeFormula(codes) ==
  /\ codes # {}
  /\ ~(codes \intersect stored \subseteq outdated)
  /\ outdated' = outdated \union (codes \intersect stored)
  /\ UNCHANGED <<stored, reprocess, request, detector, drain, reprocessFaults, stranded>>

-----------------------------------------------------------------------------
(* scheduleMetricReprocessDetection: the lock metric-reprocess:detect, the *)
(* snapshot of INSERT ... SELECT, then COMMIT.                             *)

(* MUTANT: detection without the advisory lock. *)
DetectUnlocked == TRUE

DetectLockFree == \A w \in Workers : ~detector[w].locked

HasOpenJob == \E j \in ReprocessJobs : reprocess[j].status \in Open

Detect(w) ==
  /\ ~detector[w].locked
  /\ DetectLockFree
  /\ outdated # {}
  /\ ~HasOpenJob
  /\ detector' = [detector EXCEPT ![w] = [locked |-> TRUE, codes |-> outdated]]
  /\ UNCHANGED <<stored, outdated, reprocess, request, drain, reprocessFaults, stranded>>

QueueJob(w) ==
  /\ detector[w].locked
  /\ \E j \in ReprocessJobs :
       /\ ~Exists(j)
       /\ \A i \in 1 .. j - 1 : Exists(i)
       /\ reprocess' = [reprocess EXCEPT ![j] =
            [status |-> "queued", codes |-> detector[w].codes, fresh |-> {}]]
  /\ detector' = [detector EXCEPT ![w] = NoDetection]
  /\ UNCHANGED <<stored, outdated, request, drain, reprocessFaults, stranded>>

(* The transaction fails or its process dies. *)
DetectionFails(w) ==
  /\ detector[w].locked
  /\ Failing
  /\ detector' = [detector EXCEPT ![w] = NoDetection]
  /\ UNCHANGED <<stored, outdated, reprocess, request, drain, stranded>>

-----------------------------------------------------------------------------
(* drainMetricReprocessJobs *)

(* The claim under the lock metric-reprocess:drain, one transaction. *)
ClaimJobs(w) ==
  LET queued == {j \in ReprocessJobs : reprocess[j].status = "queued"} IN
  /\ drain[w] = NoDrain
  /\ queued # {}
  /\ reprocess' = [j \in ReprocessJobs |->
       IF j \in queued THEN [reprocess[j] EXCEPT !.status = "running"]
       ELSE reprocess[j]]
  /\ drain' = [drain EXCEPT ![w] = [NoDrain EXCEPT !.claimed = queued]]
  /\ UNCHANGED <<stored, outdated, request, detector, reprocessFaults, stranded>>

AllFresh(j) == reprocess[j].codes \subseteq reprocess[j].fresh

(* resolveMetricReprocessJob: the SELECT ... *)
CheckJob(w, j) ==
  /\ j \in drain[w].claimed
  /\ drain[w].checked = {}
  /\ drain' = [drain EXCEPT ![w].checked = {j},
                            ![w].allFresh = IF AllFresh(j) THEN {j} ELSE {}]
  /\ UNCHANGED <<stored, outdated, reprocess, request, detector, reprocessFaults, stranded>>

(* MUTANT: a job that is not fresh keeps its claim. *)
SucceedsOrStays(w, j) ==
  IF j \in drain[w].allFresh THEN "succeeded" ELSE "running"

Resolution(w, j) ==
  IF j \in drain[w].allFresh THEN "succeeded" ELSE "queued"

(* ... and the UPDATE. *)
ResolveJob(w, j) ==
  /\ j \in drain[w].checked
  /\ reprocess' = [reprocess EXCEPT ![j].status = Resolution(w, j)]
  /\ drain' = [drain EXCEPT ![w] = [NoDrain EXCEPT !.claimed = drain[w].claimed \ {j}]]
  /\ UNCHANGED <<stored, outdated, request, detector, reprocessFaults, stranded>>

(* A statement fails or the process dies: the loop ends, and the jobs it   *)
(* has not resolved stay "running".                                        *)
DrainFails(w) ==
  /\ drain[w].claimed # {}
  /\ Failing
  /\ drain' = [drain EXCEPT ![w] = NoDrain]
  /\ stranded' = stranded \union drain[w].claimed
  /\ UNCHANGED <<stored, outdated, reprocess, request, detector>>

-----------------------------------------------------------------------------
ReprocessNext ==
  \/ BeginRequest
  \/ \E codes \in SUBSET Codes :
       \/ ChangeFormula(codes)
       \/ \E old \in BOOLEAN : PersistSnapshots(codes, old)
  \/ \E w \in Workers :
       \/ Detect(w) \/ QueueJob(w) \/ DetectionFails(w)
       \/ ClaimJobs(w) \/ DrainFails(w)
       \/ \E j \in ReprocessJobs : CheckJob(w, j) \/ ResolveJob(w, j)

(* Each worker's drain goes on once begun, and the cron begins another.    *)
DrainSteps(w) ==
  ClaimJobs(w) \/ \E j \in ReprocessJobs : CheckJob(w, j) \/ ResolveJob(w, j)

ReprocessSpec ==
  /\ ReprocessInit /\ [][ReprocessNext]_reprocessVars
  /\ \A w \in Workers : WF_reprocessVars(DrainSteps(w))

-----------------------------------------------------------------------------
(* Two detections at once, in two workers, do not queue two jobs for one   *)
(* workspace, and no detection does so while a drain has the job claimed.  *)
OneOpenJob ==
  \A i, j \in ReprocessJobs :
    reprocess[i].status \in Open /\ reprocess[j].status \in Open => i = j

(* A job all of whose metrics are fresh gets resolved, unless a drain that *)
(* failed had claimed it: nothing releases that claim, and as the job      *)
(* counts as open no other is queued.                                      *)
FreshJobIsResolved ==
  \A j \in ReprocessJobs :
    Exists(j) /\ AllFresh(j) ~> (reprocess[j].status = "succeeded" \/ j \in stranded)

=============================================================================
