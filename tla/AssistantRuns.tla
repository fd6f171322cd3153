---------------------------- MODULE AssistantRuns ----------------------------
(***************************************************************************)
(* The generation runs of one workspace's assistant: the API inserts a row *)
(* of app.assistant_generation_runs and then adds a job to the platform    *)
(* queue; worker processes claim the row, call the AI provider through     *)
(* generatePapaAnswer, store the answer in the conversation, record what   *)
(* the call cost and settle the row.  One await per action; heartbeats,    *)
(* lapsed leases, stalled deliveries, errors, crashes and the user's       *)
(* cancel come in between.                                                 *)
(***************************************************************************)
EXTENDS Naturals, FiniteSets

CONSTANTS
  MaxGenerations, \* BOUND: the runs, rows of app.assistant_generation_runs
  Slots,          \* how many deliveries the worker processes execute at once
  MaxAttempts,    \* job option "attempts" (5 in platform-queue.service.ts)
  MaxStalls,      \* BullMQ's maxStalledCount
  MaxFaults,      \* BOUND: errors, and the first disruption of each run
  Troubled        \* BOUND: the runs with errors, disruptions or cancels

(* An error: a statement or a provider call throws, or the authority of a  *)
(* run in progress is lost.  A disruption: a process dies, a live worker   *)
(* renews its lease or its lock too late, or a throw ends a delivery after *)
(* which nobody settles the row (ClaimThrows, SettleFails).                *)

ASSUME AssistantAssumption ==
  /\ MaxGenerations \in Nat
  /\ Slots \in Nat
  /\ MaxAttempts \in Nat \ {0}
  /\ MaxStalls \in Nat
  /\ MaxFaults \in Nat
  /\ Troubled \in SUBSET Nat

(* Runs are named in the order in which they are started. *)
Generations == 1 .. MaxGenerations
NoGeneration == 0

Workers == 1 .. Slots
NoWorker == 0

VARIABLES
  q, holder, made, stalls,  \* the queue "papadata-platform-jobs", see JobQueue
  status,       \* assistant_generation_runs.status
  lapsed,       \* status = 'running' and lease_expires_at < now()
  starting,     \* the API's start() between its commit and its answer
  message,      \* the assistant message stored under the key run:<id>
  cost,         \* the cost in the run's provider governance event
  work,         \* the local state of processAssistantGeneration, per slot
  errors,       \* errors so far
  disrupted,    \* the runs disrupted so far
  stopped,      \* HISTORY: the runs the user cancelled
  overran       \* HISTORY: the runs whose lease lapsed under a live worker

Queue == INSTANCE JobQueue
           WITH Jobs <- Generations, Runs <- Workers, NoRun <- NoWorker,
                MaxHead <- 0

queueVars == <<q, holder, made, stalls>>
rowVars == <<status, lapsed>>
answerVars == <<message, cost>>
ledger == <<errors, disrupted, stopped, overran>>
vars == <<queueVars, rowVars, starting, answerVars, work, ledger>>

-----------------------------------------------------------------------------
Active == {"queued", "running", "interrupted"}     \* not terminal(status)
Statuses == Active \union {"absent", "completed", "failed", "cancelled"}

GenerationSteps == {"find", "budget", "provider", "append", "govern", "complete"}

Steps == GenerationSteps \union
         {"idle", "claim", "failing", "settle", "return", "rethrow"}

Decisions == {"cancel", "fail", "retry"}

WorkStates == [
  pc        : Steps,
  run       : Generations \union {NoGeneration},
  attempt   : Nat,         \* job.attemptsMade of the delivery
  aborted   : BOOLEAN,     \* controller.signal.aborted
  paid      : BOOLEAN,     \* providerCall is not null
  retryable : BOOLEAN,     \* classification of the thrown error
  decision  : Decisions ]

Idle == [pc |-> "idle", run |-> NoGeneration, attempt |-> 0, aborted |-> FALSE,
         paid |-> FALSE, retryable |-> TRUE, decision |-> "cancel"]

TypeOK ==
  /\ Queue!QueueTypeOK
  /\ status \in [Generations -> Statuses]
  /\ lapsed \in [Generations -> BOOLEAN]
  /\ starting \in [Generations -> {"no", "enqueue", "undo"}]
  /\ message \in [Generations -> {"none", "refusal", "answer"}]
  /\ cost \in [Generations -> {"none", "unreported", "reported"}]
  /\ work \in [Workers -> WorkStates]
  /\ \A w \in Workers : work[w].pc # "idle" => work[w].run \in Generations
  /\ errors \in Nat
  /\ disrupted \in SUBSET Generations
  /\ stopped \in SUBSET Generations
  /\ overran \in SUBSET Generations

Init ==
  /\ Queue!QueueInit
  /\ status = [g \in Generations |-> "absent"]
  /\ lapsed = [g \in Generations |-> FALSE]
  /\ starting = [g \in Generations |-> "no"]
  /\ message = [g \in Generations |-> "none"]
  /\ cost = [g \in Generations |-> "none"]
  /\ work = [w \in Workers |-> Idle]
  /\ errors = 0
  /\ disrupted = {}
  /\ stopped = {}
  /\ overran = {}

MayFault(g) == g \in Troubled /\ errors + Cardinality(disrupted) < MaxFaults

CountError(g) ==
  /\ MayFault(g)
  /\ errors' = errors + 1

Err(g) ==
  /\ CountError(g)
  /\ UNCHANGED <<disrupted, stopped, overran>>

Disrupt(g) ==
  /\ g \in disrupted \/ MayFault(g)
  /\ disrupted' = disrupted \union {g}
  /\ UNCHANGED <<errors, stopped>>

(* A row that is not running has no lease that could lapse. *)
SetStatus(g, s) ==
  /\ status' = [status EXCEPT ![g] = s]
  /\ lapsed' = [lapsed EXCEPT ![g] = FALSE]

-----------------------------------------------------------------------------
(* The API. *)

(* MUTANT: interrupted and running rows are not counted. *)
NothingQueued == \A h \in Generations : status[h] # "queued"

WorkspaceIsFree == \A h \in Generations : status[h] \notin Active

(* start(), in one transaction under the workspace's advisory lock.  A     *)
(* repeated request finds the row and changes nothing; it does not enqueue *)
(* again.                                                                  *)
Start(g) ==
  /\ status[g] = "absent"
  /\ \A h \in 1 .. (g - 1) : status[h] # "absent"
  /\ WorkspaceIsFree
  /\ status' = [status EXCEPT ![g] = "queued"]
  /\ starting' = [starting EXCEPT ![g] = "enqueue"]
  /\ UNCHANGED <<queueVars, lapsed, answerVars, work, ledger>>

(* ... then, after the commit, queue.enqueue ... *)
Enqueue(g) ==
  /\ starting[g] = "enqueue"
  /\ Queue!Add(g)
  /\ starting' = [starting EXCEPT ![g] = "no"]
  /\ UNCHANGED <<rowVars, answerVars, work, ledger>>

(* ... which may throw, having added the job or not ... *)
EnqueueFails(g) ==
  /\ starting[g] = "enqueue"
  /\ Err(g)
  /\ Queue!Add(g) \/ UNCHANGED queueVars
  /\ starting' = [starting EXCEPT ![g] = "undo"]
  /\ UNCHANGED <<rowVars, answerVars, work>>

(* ... and then start() fails the row, if no worker claimed it meanwhile. *)
UndoStart(g) ==
  /\ starting[g] = "undo"
  /\ status' = IF status[g] = "queued" THEN [status EXCEPT ![g] = "failed"]
                                       ELSE status
  /\ starting' = [starting EXCEPT ![g] = "no"]
  /\ UNCHANGED <<queueVars, lapsed, answerVars, work, ledger>>

(* The API process dies after the commit. *)
ApiDies(g) ==
  /\ starting[g] # "no"
  /\ Disrupt(g)
  /\ starting' = [starting EXCEPT ![g] = "no"]
  /\ UNCHANGED <<queueVars, rowVars, answerVars, work, overran>>

(* cancel(): the UPDATE repeats the check of the read before it. *)
Cancel(g) ==
  /\ g \in Troubled
  /\ status[g] \in Active
  /\ SetStatus(g, "cancelled")
  /\ stopped' = stopped \union {g}
  /\ UNCHANGED <<queueVars, starting, answerVars, work,
                 errors, disrupted, overran>>

-----------------------------------------------------------------------------
(* processAssistantGeneration, in worker slot w. *)

At(w, pc) == work[w].pc = pc
Go(w, pc) == work' = [work EXCEPT ![w].pc = pc]

(* Into the catch block: the signal was aborted, or something threw. *)
Fail(w, aborted, retryable) ==
  work' = [work EXCEPT ![w] = [Idle EXCEPT !.pc = "failing", !.run = work[w].run,
                                           !.attempt = work[w].attempt,
                                           !.aborted = aborted,
                                           !.retryable = retryable]]

(* The processor returns or throws; its local state is gone. *)
Finish(w, pc) ==
  work' = [work EXCEPT ![w] = [Idle EXCEPT !.pc = pc, !.run = work[w].run]]

(* Slots are alike: a delivery takes the first idle one. *)
Deliver(w, g) ==
  /\ At(w, "idle")
  /\ \A v \in 1 .. (w - 1) : ~At(v, "idle")
  /\ Queue!Deliver(g, w)
  /\ work' = [work EXCEPT ![w] = [Idle EXCEPT !.pc = "claim", !.run = g,
                                               !.attempt = made[g]]]
  /\ UNCHANGED <<rowVars, starting, answerVars, ledger>>

(* MUTANT: a redelivery takes over a run whose lease is still good. *)
ClaimableWhateverLease(g) == status[g] \in Active

Claimable(g) ==
  \/ status[g] \in {"queued", "interrupted"}
  \/ status[g] = "running" /\ lapsed[g]

Claim(w) ==
  LET g == work[w].run IN
  /\ At(w, "claim")
  /\ \/ /\ Claimable(g)
        /\ SetStatus(g, "running")
        /\ Go(w, "find")
        /\ UNCHANGED queueVars
     \/ /\ ~Claimable(g)
        /\ Queue!Complete(g, w)
        /\ work' = [work EXCEPT ![w] = Idle]
        /\ UNCHANGED rowVars
  /\ UNCHANGED <<starting, answerVars, ledger>>

(* The claim's transaction, or the read of the status after it, throws:    *)
(* that is outside the try block, so nobody settles the row.  A lost       *)
(* acknowledgement leaves it running with nobody at it, and the last       *)
(* attempt leaves it as it is.                                             *)
ClaimThrows(w) ==
  LET g == work[w].run
      isLast == work[w].attempt + 1 >= MaxAttempts
  IN
  /\ At(w, "claim")
  /\ CountError(g)
  /\ \/ /\ Claimable(g)
        /\ SetStatus(g, "running")
        /\ disrupted' = disrupted \union {g}
     \/ /\ disrupted' = disrupted \union IF isLast THEN {g} ELSE {}
        /\ UNCHANGED rowVars
  /\ Finish(w, "rethrow")
  /\ UNCHANGED <<queueVars, starting, answerVars, stopped, overran>>

(* The membership is read again: without the capability the run aborts     *)
(* itself.  Then findMessageByIdempotencyKey: an answer that an earlier    *)
(* attempt stored is returned as it is.                                    *)
FindMessage(w) ==
  /\ At(w, "find")
  /\ \/ /\ Go(w, IF message[work[w].run] = "none" THEN "budget" ELSE "complete")
        /\ UNCHANGED ledger
     \/ Fail(w, TRUE, FALSE) /\ Err(work[w].run)
  /\ UNCHANGED <<queueVars, rowVars, starting, answerVars>>

(* appendMessage: the key is unique, the first content stays. *)
AppendMessage(g, content) ==
  message' = [message EXCEPT ![g] = IF @ = "none" THEN content ELSE @]

(* No usable grounding, or the budget is exceeded: the answer is a refusal *)
(* and the provider is not called.                                         *)
Refuse(w) ==
  /\ At(w, "budget")
  /\ AppendMessage(work[w].run, "refusal")
  /\ Go(w, "govern")
  /\ UNCHANGED <<queueVars, rowVars, starting, cost, ledger>>

CallProvider(w) ==
  /\ At(w, "budget")
  /\ \/ work[w].aborted /\ Fail(w, TRUE, FALSE)
     \/ ~work[w].aborted /\ Go(w, "provider")
  /\ UNCHANGED <<queueVars, rowVars, starting, answerVars, ledger>>

(* MUTANT: the row is completed before the answer is stored. *)
ProviderAnswersForTheRowOnly(w) ==
  /\ At(w, "provider")
  /\ ~work[w].aborted
  /\ Go(w, "complete")
  /\ UNCHANGED <<queueVars, rowVars, starting, answerVars, ledger>>

(* The provider's answer is complete; the signal is looked at once more.   *)
(* An aborted call throws at the latest when the provider times out.       *)
ProviderAnswers(w) ==
  /\ At(w, "provider")
  /\ \/ work[w].aborted /\ Fail(w, TRUE, FALSE)
     \/ ~work[w].aborted
        /\ work' = [work EXCEPT ![w].pc = "append", ![w].paid = TRUE]
  /\ UNCHANGED <<queueVars, rowVars, starting, answerVars, ledger>>

(* MUTANT: the cost of the call is not recorded. *)
StoreAnswerWithoutCost(w) ==
  /\ At(w, "append")
  /\ AppendMessage(work[w].run, "answer")
  /\ Go(w, "complete")
  /\ UNCHANGED <<queueVars, rowVars, starting, cost, ledger>>

StoreAnswer(w) ==
  /\ At(w, "append")
  /\ AppendMessage(work[w].run, "answer")
  /\ Go(w, "govern")
  /\ UNCHANGED <<queueVars, rowVars, starting, cost, ledger>>

(* appendAssistantProviderGovernanceEvent: again the first one stays. *)
RecordCost(w) ==
  LET g == work[w].run IN
  /\ At(w, "govern")
  /\ cost' = [cost EXCEPT ![g] = IF @ # "none" THEN @
                                 ELSE IF work[w].paid THEN "reported"
                                 ELSE "unreported"]
  /\ work' = [work EXCEPT ![w].pc = "complete", ![w].paid = FALSE]
  /\ UNCHANGED <<queueVars, rowVars, starting, message, ledger>>

(* MUTANT: completed whatever the row says by now. *)
CompleteRunAnyway(g) == SetStatus(g, "completed")

CompleteRun(g) ==
  IF status[g] = "running" THEN SetStatus(g, "completed") ELSE UNCHANGED rowVars

Complete(w) ==
  /\ At(w, "complete")
  /\ \/ work[w].aborted /\ Fail(w, TRUE, FALSE) /\ UNCHANGED rowVars
     \/ ~work[w].aborted /\ CompleteRun(work[w].run) /\ Finish(w, "return")
  /\ UNCHANGED <<queueVars, starting, answerVars, ledger>>

(* Inside the try block a statement or the provider throws, in a way that  *)
(* is worth another attempt or not.                                        *)
Throw(w) ==
  /\ work[w].pc \in GenerationSteps
  /\ Err(work[w].run)
  /\ \E retryable \in BOOLEAN :
       Fail(w, work[w].aborted, retryable /\ ~work[w].aborted)
  /\ UNCHANGED <<queueVars, rowVars, starting, answerVars>>

(* decideAssistantGenerationFailure, with what the row says now. *)
Decide(w) ==
  LET cancelled == work[w].aborted \/ status[work[w].run] = "cancelled"
      exhausted == work[w].attempt + 1 >= MaxAttempts
  IN IF cancelled THEN "cancel"
     ELSE IF exhausted \/ ~work[w].retryable THEN "fail" ELSE "retry"

DecideFailure(w) ==
  /\ At(w, "failing")
  /\ work' = [work EXCEPT ![w] = [Idle EXCEPT !.pc = "settle", !.run = work[w].run,
                                               !.decision = Decide(w)]]
  /\ UNCHANGED <<queueVars, rowVars, starting, answerVars, ledger>>

(* MUTANT: the decision is written as it is. *)
OutcomeAsDecided(decision) == decision

Outcome(decision) ==
  CASE decision = "cancel" -> "cancelled"
    [] decision = "fail"   -> "failed"
    [] decision = "retry"  -> "interrupted"

(* MUTANT: a late worker settles a run that another one completed. *)
SettleRunAnyway(g, decision) == SetStatus(g, Outcome(decision))

SettleRun(g, decision) ==
  IF status[g] \in {"running", "interrupted", "cancelled"}
  THEN SetStatus(g, Outcome(decision)) ELSE UNCHANGED rowVars

(* MUTANT: the processor returns although the run is to be retried. *)
SettleSwallowed(w) ==
  /\ At(w, "settle")
  /\ SettleRun(work[w].run, work[w].decision)
  /\ Finish(w, "return")
  /\ UNCHANGED <<queueVars, starting, answerVars, ledger>>

(* The row as it is by then, whatever was read for the decision. *)
Settle(w) ==
  /\ At(w, "settle")
  /\ SettleRun(work[w].run, work[w].decision)
  /\ Finish(w, IF work[w].decision = "retry" THEN "rethrow" ELSE "return")
  /\ UNCHANGED <<queueVars, starting, answerVars, ledger>>

(* A statement of the catch block throws: nobody settles the row. *)
SettleFails(w) ==
  /\ work[w].pc \in {"failing", "settle"}
  /\ Disrupt(work[w].run)
  /\ Finish(w, "rethrow")
  /\ UNCHANGED <<queueVars, rowVars, starting, answerVars, overran>>

Report(w) ==
  /\ \/ At(w, "return") /\ Queue!Complete(work[w].run, w)
     \/ At(w, "rethrow") /\ Queue!FailAttempt(work[w].run, w)
  /\ work' = [work EXCEPT ![w] = Idle]
  /\ UNCHANGED <<rowVars, starting, answerVars, ledger>>

(* The interval of a claimed run, and each delta of the stream: the row's  *)
(* status is read, then its lease renewed.  A changed policy version or an *)
(* error of the heartbeat aborts as well as a cancelled row does.          *)
Executing(w, g) ==
  work[w].run = g /\ work[w].pc \in GenerationSteps \union {"failing", "settle"}

Heartbeat(w) ==
  LET g == work[w].run IN
  /\ Executing(w, g)
  /\ ~At(w, "settle")
  /\ ~work[w].aborted
  /\ \/ /\ work' = [work EXCEPT ![w].aborted = TRUE]
        /\ \/ status[g] = "cancelled" /\ UNCHANGED ledger
           \/ Err(g)
        /\ UNCHANGED lapsed
     \/ /\ status[g] = "running"
        /\ lapsed' = [lapsed EXCEPT ![g] = FALSE]
        /\ UNCHANGED <<work, ledger>>
  /\ UNCHANGED <<queueVars, status, starting, answerVars>>

-----------------------------------------------------------------------------
(* Time and faults. *)

(* lease_expires_at passes: a disruption if a live worker had to renew it. *)
Lapse(g) ==
  /\ status[g] = "running"
  /\ ~lapsed[g]
  /\ lapsed' = [lapsed EXCEPT ![g] = TRUE]
  /\ IF \E w \in Workers : Executing(w, g)
     THEN Disrupt(g) /\ overran' = overran \union {g}
     ELSE UNCHANGED ledger
  /\ UNCHANGED <<queueVars, status, starting, answerVars, work>>

(* The lock of a delivery expires; likewise. *)
StallJob(g) ==
  /\ Queue!Stall(g)
  /\ IF holder[g] # NoWorker THEN Disrupt(g) /\ UNCHANGED overran
                             ELSE UNCHANGED ledger
  /\ UNCHANGED <<rowVars, starting, answerVars, work>>

Backoff(g) ==
  /\ Queue!Promote(g)
  /\ UNCHANGED <<rowVars, starting, answerVars, work, ledger>>

(* The process of slot w dies. *)
Crash(w) ==
  /\ ~At(w, "idle")
  /\ Disrupt(work[w].run)
  /\ work' = [work EXCEPT ![w] = Idle]
  /\ Queue!Orphan({w})
  /\ UNCHANGED <<rowVars, starting, answerVars, overran>>

-----------------------------------------------------------------------------
Api(g) == \/ Start(g) \/ Enqueue(g) \/ EnqueueFails(g) \/ UndoStart(g)
          \/ ApiDies(g) \/ Cancel(g)

Work(w) == \/ Claim(w) \/ FindMessage(w) \/ Refuse(w)
           \/ CallProvider(w) \/ ProviderAnswers(w) \/ StoreAnswer(w)
           \/ RecordCost(w) \/ Complete(w) \/ DecideFailure(w) \/ Settle(w)
           \/ Report(w)

Next ==
  \/ \E g \in Generations : Api(g) \/ Lapse(g) \/ StallJob(g) \/ Backoff(g)
  \/ \E w \in Workers : \/ Work(w) \/ ClaimThrows(w) \/ Throw(w) \/ SettleFails(w)
                        \/ Heartbeat(w) \/ Crash(w)
  \/ \E w \in Workers, g \in Generations : Deliver(w, g)

(* A live process goes on, a provider call ends (its timeout), the API     *)
(* finishes its request, and the queue delivers what waits.                *)
Fairness ==
  /\ \A w \in Workers : WF_vars(Work(w))
  /\ WF_vars(\E g \in Generations : Enqueue(g) \/ UndoStart(g))
  /\ WF_vars(\E g \in Generations : Backoff(g))
  /\ WF_vars(\E w \in Workers, g \in Generations : Deliver(w, g))

Spec == Init /\ [][Next]_vars /\ Fairness

=============================================================================
