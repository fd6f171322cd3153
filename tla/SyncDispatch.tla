----------------------------- MODULE SyncDispatch -----------------------------
(***************************************************************************)
(* What starts the incremental syncs of one integration connection apart   *)
(* from the user: the dispatcher of every worker process, every 15 minutes *)
(* while the connection is due, and the provider's webhooks.  Both create  *)
(* a row of app.sync_jobs under an idempotency key and then add the row's  *)
(* id to the queue.  What a sync does is IngestionPipeline's; here it ends *)
(* well, and the connection is not due any more, or it fails for good.     *)
(***************************************************************************)
EXTENDS WorkerProcesses

CONSTANTS
  MaxBuckets,     \* BOUND: intervals of SYNC_INTERVAL_HOURS
  WebhookEvents,  \* provider event ids
  Receivers,      \* requests that the API handles at once
  NoEvent,
  MaxDispatchFaults   \* BOUND: failures and disconnections

ASSUME DispatchAssumption ==
  /\ MaxBuckets \in Nat \ {0} /\ MaxDispatchFaults \in Nat
  /\ NoEvent \notin WebhookEvents

VARIABLES
  bucket,        \* the current interval
  due,           \* no checkpoint, or the newest is older than the interval
  syncedIn,      \* the interval in which the newest checkpoint was written
  active,        \* integration_connections.status = 'active'
  rows,          \* app.sync_jobs, by idempotency key: one row, one id per key
  syncJob,       \* EXTERNAL: where the queue keeps the job of each row
  dispatch,      \* dispatchOne of each worker
  receipts,      \* app.webhook_replay_receipts
  receive,       \* WebhookService.receive of each request
  dispatchFaults,
  covered,       \* HISTORY: events received before some sync began
  interrupted    \* HISTORY: events whose first request did not end well

dispatchVars ==
  <<bucket, due, syncedIn, active, rows, syncJob, dispatch, receipts, receive,
    dispatchFaults, covered, interrupted>>

-----------------------------------------------------------------------------
Buckets == 1 .. MaxBuckets

DispatchKey(b) == <<"dispatch", b>>

(* MUTANT: one key for everything that starts a sync in an interval. *)
WebhookKeyPerInterval(e) == DispatchKey(bucket)

WebhookKey(e) == <<"webhook", e>>

Keys == ({"dispatch"} \X Buckets) \union ({"webhook"} \X WebhookEvents)

Dispatches == [pc : {"idle", "due", "created"}, bucket : 0 .. MaxBuckets]
Receives == [pc : {"idle", "reserve", "start", "created"},
             event : WebhookEvents \union {NoEvent}]

NoDispatch == [pc |-> "idle", bucket |-> 0]
NoReceive == [pc |-> "idle", event |-> NoEvent]

DispatchTypeOK ==
  /\ bucket \in Buckets
  /\ due \in BOOLEAN
  /\ syncedIn \in 0 .. MaxBuckets
  /\ active \in BOOLEAN
  /\ rows \in SUBSET Keys
  /\ syncJob \in [Keys -> {"none", "waiting", "completed", "failed"}]
  /\ dispatch \in [Workers -> Dispatches]
  /\ receipts \in SUBSET WebhookEvents
  /\ receive \in [Receivers -> Receives]
  /\ dispatchFaults \in 0 .. MaxDispatchFaults
  /\ covered \in SUBSET WebhookEvents
  /\ interrupted \in SUBSET WebhookEvents

DispatchInit ==
  /\ bucket = 1
  /\ due = TRUE
  /\ syncedIn = 0
  /\ active = FALSE
  /\ rows = {}
  /\ syncJob = [k \in Keys |-> "none"]
  /\ dispatch = [w \in Workers |-> NoDispatch]
  /\ receipts = {}
  /\ receive = [r \in Receivers |-> NoReceive]
  /\ dispatchFaults = 0
  /\ covered = {}
  /\ interrupted = {}

DispatchFault ==
  dispatchFaults < MaxDispatchFaults /\ dispatchFaults' = dispatchFaults + 1

-----------------------------------------------------------------------------
(* createJob: INSERT ... ON CONFLICT(idempotency_key) DO UPDATE ... the    *)
(* answer is the id of the key's row, old or new.                          *)
CreateJob(k) == rows' = rows \union {k}

(* queue.add under the row's id: an id that is there already is ignored. *)
AddToQueue(k) ==
  syncJob' = [syncJob EXCEPT ![k] = IF @ = "none" THEN "waiting" ELSE @]

(* dispatchDueSyncs: findDueConnections and the time bucket ... *)
FindDue(w) ==
  /\ dispatch[w].pc = "idle"
  /\ due /\ active
  /\ dispatch' = [dispatch EXCEPT ![w] = [pc |-> "due", bucket |-> bucket]]
  /\ UNCHANGED <<bucket, due, syncedIn, active, rows, syncJob, receipts, receive,
                 dispatchFaults, covered, interrupted>>

(* MUTANT: a row that exists has been added to the queue by its creator. *)
CreateDispatchOnce(w) ==
  LET k == DispatchKey(dispatch[w].bucket) IN
  /\ dispatch[w].pc = "due"
  /\ CreateJob(k)
  /\ dispatch' = [dispatch EXCEPT ![w] =
       IF k \in rows THEN NoDispatch ELSE [@ EXCEPT !.pc = "created"]]
  /\ UNCHANGED <<bucket, due, syncedIn, active, syncJob, receipts, receive,
                 dispatchFaults, covered, interrupted>>

(* ... dispatchOne: the row ... *)
CreateDispatch(w) ==
  /\ dispatch[w].pc = "due"
  /\ CreateJob(DispatchKey(dispatch[w].bucket))
  /\ dispatch' = [dispatch EXCEPT ![w].pc = "created"]
  /\ UNCHANGED <<bucket, due, syncedIn, active, syncJob, receipts, receive,
                 dispatchFaults, covered, interrupted>>

(* ... and the queue. *)
AddDispatch(w) ==
  /\ dispatch[w].pc = "created"
  /\ AddToQueue(DispatchKey(dispatch[w].bucket))
  /\ dispatch' = [dispatch EXCEPT ![w] = NoDispatch]
  /\ UNCHANGED <<bucket, due, syncedIn, active, rows, receipts, receive,
                 dispatchFaults, covered, interrupted>>

(* A statement or queue.add throws, or the process dies. *)
DispatchFails(w) ==
  /\ dispatch[w].pc # "idle"
  /\ DispatchFault
  /\ dispatch' = [dispatch EXCEPT ![w] = NoDispatch]
  /\ UNCHANGED <<bucket, due, syncedIn, active, rows, syncJob, receipts, receive,
                 covered, interrupted>>

-----------------------------------------------------------------------------
(* WebhookService.receive: the signature is valid, the connection known.   *)
BeginReceive(r, e) ==
  /\ receive[r].pc = "idle"
  /\ receive' = [receive EXCEPT ![r] = [pc |-> "reserve", event |-> e]]
  /\ UNCHANGED <<bucket, due, syncedIn, active, rows, syncJob, dispatch, receipts,
                 dispatchFaults, covered, interrupted>>

(* receipts.reserve: a repeated event is answered as a duplicate. *)
ReserveEvent(r) ==
  LET e == receive[r].event IN
  /\ receive[r].pc = "reserve"
  /\ receipts' = receipts \union {e}
  /\ receive' = [receive EXCEPT ![r] =
       IF e \in receipts THEN NoReceive ELSE [@ EXCEPT !.pc = "start"]]
  /\ UNCHANGED <<bucket, due, syncedIn, active, rows, syncJob, dispatch,
                 dispatchFaults, covered, interrupted>>

(* startSync: refused unless the connection is active. *)
StartSync(r) ==
  LET e == receive[r].event IN
  /\ receive[r].pc = "start"
  /\ IF active
     THEN /\ CreateJob(WebhookKey(e))
          /\ receive' = [receive EXCEPT ![r].pc = "created"]
          /\ UNCHANGED interrupted
     ELSE /\ interrupted' = interrupted \union {e}
          /\ receive' = [receive EXCEPT ![r] = NoReceive]
          /\ UNCHANGED rows
  /\ UNCHANGED <<bucket, due, syncedIn, active, syncJob, dispatch, receipts,
                 dispatchFaults, covered>>

EnqueueSync(r) ==
  /\ receive[r].pc = "created"
  /\ AddToQueue(WebhookKey(receive[r].event))
  /\ receive' = [receive EXCEPT ![r] = NoReceive]
  /\ UNCHANGED <<bucket, due, syncedIn, active, rows, dispatch, receipts,
                 dispatchFaults, covered, interrupted>>

(* The credentials are not readable, a statement or the queue fails, or    *)
(* the process dies.  The provider's next delivery finds the receipt.      *)
ReceiveFails(r) ==
  LET e == receive[r].event IN
  /\ receive[r].pc # "idle"
  /\ DispatchFault
  /\ interrupted' = IF receive[r].pc = "reserve" THEN interrupted
                    ELSE interrupted \union {e}
  /\ receive' = [receive EXCEPT ![r] = NoReceive]
  /\ UNCHANGED <<bucket, due, syncedIn, active, rows, syncJob, dispatch, receipts,
                 covered>>

-----------------------------------------------------------------------------
(* The worker, the clock and the user. *)

(* A sync reads what the provider has when it begins. *)
RunSync(k) ==
  /\ syncJob[k] = "waiting"
  /\ covered' = covered \union receipts
  /\ \/ /\ syncJob' = [syncJob EXCEPT ![k] = "completed"]
        /\ due' = FALSE
        /\ syncedIn' = bucket
     \/ /\ syncJob' = [syncJob EXCEPT ![k] = "failed"]
        /\ UNCHANGED <<due, syncedIn>>
  /\ UNCHANGED <<bucket, active, rows, dispatch, receipts, receive, dispatchFaults,
                 interrupted>>

NextBucket ==
  /\ bucket < MaxBuckets
  /\ bucket' = bucket + 1
  /\ UNCHANGED <<due, syncedIn, active, rows, syncJob, dispatch, receipts, receive,
                 dispatchFaults, covered, interrupted>>

(* An interval is as long as a bucket. *)
BecomeDue ==
  /\ ~due
  /\ bucket > syncedIn
  /\ due' = TRUE
  /\ UNCHANGED <<bucket, syncedIn, active, rows, syncJob, dispatch, receipts, receive,
                 dispatchFaults, covered, interrupted>>

(* The user connects the provider, or the connection is lost. *)
Connect ==
  /\ ~active
  /\ active' = TRUE
  /\ UNCHANGED <<bucket, due, syncedIn, rows, syncJob, dispatch, receipts, receive,
                 dispatchFaults, covered, interrupted>>

Disconnect ==
  /\ active
  /\ DispatchFault
  /\ active' = FALSE
  /\ UNCHANGED <<bucket, due, syncedIn, rows, syncJob, dispatch, receipts, receive,
                 covered, interrupted>>

-----------------------------------------------------------------------------
DispatchWork(w) == CreateDispatch(w) \/ AddDispatch(w)
ReceiveWork(r) == ReserveEvent(r) \/ StartSync(r) \/ EnqueueSync(r)

DispatchNext ==
  \/ \E w \in Workers : FindDue(w) \/ DispatchWork(w) \/ DispatchFails(w)
  \/ \E r \in Receivers :
       \/ \E e \in WebhookEvents : BeginReceive(r, e)
       \/ ReceiveWork(r) \/ ReceiveFails(r)
  \/ \E k \in Keys : RunSync(k)
  \/ NextBucket \/ BecomeDue \/ Connect \/ Disconnect

(* The cron fires, a request of the API goes on, the queue delivers. *)
DispatcherSteps == \E w \in Workers : FindDue(w) \/ DispatchWork(w)
SyncSteps == \E k \in Keys : RunSync(k)

DispatchFairness ==
  /\ WF_dispatchVars(DispatcherSteps)
  /\ \A r \in Receivers : WF_dispatchVars(ReceiveWork(r))
  /\ WF_dispatchVars(SyncSteps)

DispatchSpec == DispatchInit /\ [][DispatchNext]_dispatchVars /\ DispatchFairness

-----------------------------------------------------------------------------
(* A due connection gets a sync job in the current interval although the   *)
(* dispatcher that created its row may die before the queue has it: until  *)
(* the job was added, every tick tries again.                              *)
DueConnectionIsDispatched ==
  \A b \in Buckets :
    bucket = b /\ due /\ active
      ~> (syncJob[DispatchKey(b)] # "none" \/ bucket # b \/ ~due \/ ~active)

(* Every received event is followed by a sync that begins after its        *)
(* receipt, however often it is delivered and at whatever pace, unless the *)
(* request that reserved the receipt did not get to the queue: the         *)
(* provider's retries are then taken for duplicates.                       *)
EveryEventIsSynced ==
  \A e \in WebhookEvents : e \in receipts ~> (e \in covered \/ e \in interrupted)

=============================================================================
