---------------------------- MODULE AssistantProofs ----------------------------
(***************************************************************************)
(* Theorems of the assistant's generation runs, for any number of runs, of *)
(* worker slots, of attempts, of errors and of disruptions.                *)
(***************************************************************************)
EXTENDS AssistantProperties, TLAPS

(* While the lease of a run has not lapsed under a live worker, one worker *)
(* executes it at most, and no delivery can claim it.                      *)
Guarded(g) ==
  /\ \A v, w \in Workers : Executing(v, g) /\ Executing(w, g) => v = w
  /\ \A w \in Workers : Executing(w, g) =>
       status[g] \notin {"absent", "queued", "interrupted"} /\ ~lapsed[g]

LeaseInv == \A g \in Generations \ overran : Guarded(g)

(* Without an error a worker gives a run up only because it was cancelled. *)
DecisionInv ==
  \A w \in Workers :
    /\ work[w].pc = "failing" => work[w].aborted
    /\ work[w].pc = "settle" => work[w].decision = "cancel"

CancelInv == errors = 0 => DecisionInv /\ CancelStands /\ OneActiveRun

(* Between an answer and its governance event is a worker, or was.         *)
Governing(w, g) == work[w].run = g /\ work[w].pc = "govern"

Governed(g) ==
  \/ cost[g] # "none"
  \/ \E w \in Workers : Governing(w, g)
  \/ errors > 0 \/ g \in disrupted

AnswerInv ==
  /\ \A g \in Generations : IF message[g] = "none" THEN cost[g] = "none" ELSE Governed(g)
  /\ \A g \in Generations : status[g] = "completed" => message[g] # "none"
  /\ \A w \in Workers :
       /\ work[w].pc \in {"govern", "complete"} => message[work[w].run] # "none"
       /\ work[w].pc = "append" => work[w].paid
       /\ work[w].pc \notin {"append", "govern"} => ~work[w].paid

(* Of an undisturbed run the worker knows whether its answer was paid for. *)
Charged(g) ==
  /\ \A w \in Workers : work[w].run = g =>
       /\ work[w].pc \in {"budget", "provider", "append"} => message[g] = "none"
       /\ work[w].pc = "govern" /\ message[g] = "answer" => work[w].paid
  /\ message[g] = "answer" =>
       \/ cost[g] = "reported"
       \/ cost[g] = "none" /\ \E w \in Workers : Governing(w, g)

ChargeInv ==
  /\ overran \subseteq disrupted
  /\ errors = 0 => \A g \in Generations \ disrupted : Charged(g)

-----------------------------------------------------------------------------
(* Types. *)

(* One worker moves, or something else happens and no worker moves.        *)
Works(w) ==
  \/ Work(w) \/ ClaimThrows(w) \/ Throw(w) \/ SettleFails(w) \/ Heartbeat(w) \/ Crash(w)
  \/ \E g \in Generations : Deliver(w, g)

Outside(g) == Api(g) \/ Lapse(g) \/ StallJob(g) \/ Backoff(g)

LEMMA NextSteps ==
  ASSUME [Next]_vars
  PROVE  \/ \E w \in Workers : Works(w)
         \/ \E g \in Generations : Outside(g)
         \/ UNCHANGED vars
BY DEF Next, Works, Outside

Moves(w, x) ==
  /\ x \in WorkStates /\ (x.pc # "idle" => x.run \in Generations)
  /\ work' = [work EXCEPT ![w] = x]

LEMMA WorkerMoves ==
  ASSUME TypeOK, NEW w \in Workers, Works(w)
  PROVE  \E x : Moves(w, x)
<1> USE DEF Moves, WorkStates, Steps, GenerationSteps, Decisions
<1>1. work[w] \in WorkStates /\ (work[w].pc # "idle" => work[w].run \in Generations)
  BY DEF TypeOK
<1>2. Moves(w, Idle) \/ work' # [work EXCEPT ![w] = Idle]
  BY DEF Idle
<1>3. ASSUME NEW aborted \in BOOLEAN, NEW retryable \in BOOLEAN,
             work[w].pc # "idle", Fail(w, aborted, retryable)
      PROVE  \E x : Moves(w, x)
  <2> DEFINE x == [Idle EXCEPT !.pc = "failing", !.run = work[w].run,
                               !.attempt = work[w].attempt,
                               !.aborted = aborted, !.retryable = retryable]
  <2>1. Moves(w, x)
    BY <1>1, <1>3 DEF Idle, Fail
  <2> QED  BY <2>1
<1>4. ASSUME NEW pc \in {"return", "rethrow"}, work[w].pc # "idle", Finish(w, pc)
      PROVE  \E x : Moves(w, x)
  <2> DEFINE x == [Idle EXCEPT !.pc = pc, !.run = work[w].run]
  <2>1. Moves(w, x)
    BY <1>1, <1>4 DEF Idle, Finish
  <2> QED  BY <2>1
<1>5. ASSUME NEW pc \in Steps, work[w].pc # "idle", Go(w, pc)
      PROVE  \E x : Moves(w, x)
  <2> DEFINE x == [work[w] EXCEPT !.pc = pc]
  <2>1. Moves(w, x)
    BY <1>1, <1>5 DEF Go
  <2> QED  BY <2>1
<1>6. CASE \E g \in Generations : Deliver(w, g)
  <2>1. PICK g \in Generations : Deliver(w, g)
    BY <1>6
  <2> DEFINE x == [Idle EXCEPT !.pc = "claim", !.run = g, !.attempt = made[g]]
  <2>2. made[g] \in Nat
    BY DEF TypeOK, Queue!QueueTypeOK
  <2>3. Moves(w, x)
    BY <2>1, <2>2 DEF Deliver, Idle
  <2> QED  BY <2>3
<1>7. CASE Claim(w)
  BY <1>2, <1>5, <1>7 DEF Claim, At
<1>8. CASE FindMessage(w)
  BY <1>3, <1>5, <1>8 DEF FindMessage, At
<1>9. CASE Refuse(w) \/ StoreAnswer(w)
  BY <1>5, <1>9 DEF Refuse, StoreAnswer, At
<1>10. CASE CallProvider(w)
  BY <1>3, <1>5, <1>10 DEF CallProvider, At
<1>11. CASE ProviderAnswers(w)
  <2>1. CASE work' = [work EXCEPT ![w].pc = "append", ![w].paid = TRUE]
    <3> DEFINE x == [work[w] EXCEPT !.pc = "append", !.paid = TRUE]
    <3>1. Moves(w, x)
      BY <1>1, <1>11, <2>1 DEF ProviderAnswers, At
    <3> QED  BY <3>1
  <2> QED  BY <1>3, <1>11, <2>1 DEF ProviderAnswers, At
<1>12. CASE RecordCost(w)
  <2> DEFINE x == [work[w] EXCEPT !.pc = "complete", !.paid = FALSE]
  <2>1. Moves(w, x)
    BY <1>1, <1>12 DEF RecordCost, At
  <2> QED  BY <2>1
<1>13. CASE Complete(w)
  BY <1>3, <1>4, <1>13 DEF Complete, At
<1>14. CASE Throw(w)
  <2>1. PICK retryable \in BOOLEAN : Fail(w, work[w].aborted, retryable /\ ~work[w].aborted)
    BY <1>14 DEF Throw
  <2>2. work[w].aborted \in BOOLEAN /\ (retryable /\ ~work[w].aborted) \in BOOLEAN
    BY <1>1
  <2> QED  BY <1>3, <1>14, <2>1, <2>2 DEF Throw
<1>15. CASE DecideFailure(w)
  <2> DEFINE x == [Idle EXCEPT !.pc = "settle", !.run = work[w].run, !.decision = Decide(w)]
  <2>1. Decide(w) \in Decisions
    BY DEF Decide
  <2>2. Moves(w, x)
    BY <1>1, <1>15, <2>1 DEF DecideFailure, At, Idle
  <2> QED  BY <2>2
<1>16. CASE Settle(w)
  BY <1>4, <1>16 DEF Settle, At
<1>17. CASE SettleFails(w) \/ ClaimThrows(w)
  BY <1>4, <1>17 DEF SettleFails, ClaimThrows, At
<1>18. CASE Report(w) \/ Crash(w)
  BY <1>2, <1>18 DEF Report, Crash
<1>19. CASE Heartbeat(w)
  <2>1. CASE work' = [work EXCEPT ![w].aborted = TRUE]
    <3> DEFINE x == [work[w] EXCEPT !.aborted = TRUE]
    <3>1. Moves(w, x)
      BY <1>1, <2>1
    <3> QED  BY <3>1
  <2>2. CASE UNCHANGED work
    <3>1. Moves(w, work[w])
      BY <1>1, <2>2 DEF TypeOK
    <3> QED  BY <3>1
  <2> QED  BY <1>19, <2>1, <2>2 DEF Heartbeat
<1> QED
  BY <1>6, <1>7, <1>8, <1>9, <1>10, <1>11, <1>12, <1>13, <1>14, <1>15, <1>16, <1>17, <1>18, <1>19
  DEF Works, Work

LEMMA QueueMoves ==
  ASSUME TypeOK, NEW g \in Generations, NEW w \in Workers,
         \/ Queue!Add(g) \/ Queue!Deliver(g, w) \/ Queue!Complete(g, w)
         \/ Queue!FailAttempt(g, w) \/ Queue!Promote(g) \/ Queue!Stall(g)
         \/ Queue!Orphan({w}) \/ UNCHANGED queueVars
  PROVE  Queue!QueueTypeOK'
<1> USE AssistantAssumption DEF TypeOK, Queue!QueueTypeOK, Queue!QueueStates
<1>1. CASE Queue!Add(g) \/ Queue!Deliver(g, w) \/ Queue!Complete(g, w)
  BY <1>1 DEF Queue!Add, Queue!Deliver, Queue!Complete
<1>2. CASE Queue!FailAttempt(g, w)
  <2>1. CASE holder[g] = w
    BY <1>2, <2>1 DEF Queue!FailAttempt
  <2>2. CASE holder[g] # w
    BY <1>2, <2>2 DEF Queue!FailAttempt, Queue!queueVars
  <2> QED  BY <2>1, <2>2
<1>3. CASE Queue!Promote(g)
  BY <1>3 DEF Queue!Promote
<1>4. CASE Queue!Stall(g)
  BY <1>4 DEF Queue!Stall
<1>5. CASE Queue!Orphan({w})
  BY <1>5 DEF Queue!Orphan
<1>6. CASE UNCHANGED queueVars
  BY <1>6 DEF queueVars
<1> QED  BY <1>1, <1>2, <1>3, <1>4, <1>5, <1>6

LEMMA TypesInitially == Init => TypeOK
BY AssistantAssumption
DEF Init, TypeOK, Queue!QueueInit, Queue!QueueTypeOK, Queue!QueueStates, Statuses, Active,
    WorkStates, Idle, Steps, GenerationSteps, Decisions, NoGeneration, NoWorker, Workers

(* What the steps of a worker do to what it shares.                        *)
LEMMA WorkerTypes ==
  ASSUME TypeOK, NEW w \in Workers, Works(w)
  PROVE  TypeOK'
<1> USE AssistantAssumption
<1>1. work[w] \in WorkStates /\ (work[w].pc # "idle" => work[w].run \in Generations)
  BY DEF TypeOK
<1>2. /\ work' \in [Workers -> WorkStates]
      /\ \A v \in Workers : work'[v].pc # "idle" => work'[v].run \in Generations
  <2>1. PICK x : Moves(w, x)
    BY WorkerMoves
  <2> QED  BY <2>1 DEF Moves, TypeOK
<1>3. Queue!QueueTypeOK'
  <2>1. CASE \E g \in Generations : Deliver(w, g)
    BY <2>1, QueueMoves DEF Deliver
  <2>2. CASE Claim(w) \/ Report(w)
    <3>1. work[w].run \in Generations
      BY <1>1, <2>2 DEF Claim, Report, At
    <3> QED  BY <2>2, <3>1, QueueMoves DEF Claim, Report
  <2>3. CASE Crash(w)
    <3>1. work[w].run \in Generations
      BY <1>1, <2>3 DEF Crash, At
    <3> QED  BY <2>3, <3>1, QueueMoves DEF Crash
  <2>4. CASE UNCHANGED queueVars
    BY <2>4 DEF queueVars, TypeOK, Queue!QueueTypeOK
  <2> QED
    BY <2>1, <2>2, <2>3, <2>4
    DEF Works, Work, FindMessage, Refuse, CallProvider, ProviderAnswers, StoreAnswer,
        RecordCost, Complete, Throw, DecideFailure, Settle, SettleFails, Heartbeat,
        ClaimThrows
<1>4. status' \in [Generations -> Statuses] /\ lapsed' \in [Generations -> BOOLEAN]
  <2>1. CASE Claim(w) \/ ClaimThrows(w)
    BY <2>1 DEF Claim, ClaimThrows, SetStatus, TypeOK, Statuses, Active, rowVars
  <2>2. CASE Complete(w)
    BY <2>2 DEF Complete, CompleteRun, SetStatus, TypeOK, Statuses, rowVars
  <2>3. CASE Settle(w)
    <3>1. Outcome(work[w].decision) \in Statuses
      BY <1>1 DEF Outcome, WorkStates, Decisions, Statuses, Active
    <3>2. SettleRun(work[w].run, work[w].decision)
      BY <2>3 DEF Settle
    <3>3. ASSUME NEW g, NEW s \in Statuses, SetStatus(g, s)
          PROVE  status' \in [Generations -> Statuses] /\ lapsed' \in [Generations -> BOOLEAN]
      BY <3>3 DEF SetStatus, TypeOK
    <3>4. UNCHANGED rowVars =>
            status' \in [Generations -> Statuses] /\ lapsed' \in [Generations -> BOOLEAN]
      BY DEF rowVars, TypeOK
    <3> QED  BY <3>1, <3>2, <3>3, <3>4 DEF SettleRun
  <2>4. CASE Heartbeat(w)
    BY <2>4 DEF Heartbeat, TypeOK
  <2>5. CASE UNCHANGED rowVars
    BY <2>5 DEF TypeOK, rowVars
  <2> QED
    BY <2>1, <2>2, <2>3, <2>4, <2>5
    DEF Works, Work, Deliver, FindMessage, Refuse, CallProvider, ProviderAnswers, StoreAnswer,
        RecordCost, Throw, DecideFailure, SettleFails, Report, Crash
<1>5. /\ message' \in [Generations -> {"none", "refusal", "answer"}]
      /\ cost' \in [Generations -> {"none", "unreported", "reported"}]
  <2>1. CASE Refuse(w) \/ StoreAnswer(w)
    BY <2>1 DEF Refuse, StoreAnswer, AppendMessage, TypeOK
  <2>2. CASE RecordCost(w)
    BY <2>2 DEF RecordCost, TypeOK
  <2>3. CASE UNCHANGED answerVars
    BY <2>3 DEF TypeOK, answerVars
  <2> QED
    BY <2>1, <2>2, <2>3
    DEF Works, Work, Deliver, Claim, FindMessage, CallProvider, ProviderAnswers, Complete,
        ClaimThrows, Throw, DecideFailure, Settle, SettleFails, Report, Heartbeat, Crash
<1>6. /\ errors' \in Nat
      /\ disrupted' \in SUBSET Generations /\ stopped' \in SUBSET Generations
      /\ overran' \in SUBSET Generations
  <2>1. CASE Err(work[w].run)
    BY <2>1 DEF Err, CountError, TypeOK
  <2>2. CASE SettleFails(w) \/ Crash(w)
    <3>1. work[w].run \in Generations
      BY <1>1, <2>2 DEF SettleFails, Crash, At
    <3> QED  BY <2>2, <3>1 DEF SettleFails, Crash, Disrupt, TypeOK
  <2>3. CASE UNCHANGED ledger
    BY <2>3 DEF TypeOK, ledger
  <2>4. CASE ClaimThrows(w)
    <3>1. work[w].run \in Generations
      BY <1>1, <2>4 DEF ClaimThrows, At
    <3> QED  BY <2>4, <3>1 DEF ClaimThrows, CountError, TypeOK
  <2> QED
    BY <2>1, <2>2, <2>3, <2>4
    DEF Works, Work, Deliver, Claim, FindMessage, Refuse, CallProvider, ProviderAnswers,
        StoreAnswer, RecordCost, Complete, Throw, DecideFailure, Settle, Report, Heartbeat
<1>7. UNCHANGED starting
  BY DEF Works, Work, Deliver, Claim, FindMessage, Refuse, CallProvider, ProviderAnswers,
         StoreAnswer, RecordCost, Complete, ClaimThrows, Throw, DecideFailure, Settle, SettleFails,
         Report, Heartbeat, Crash
<1> QED  BY <1>2, <1>3, <1>4, <1>5, <1>6, <1>7 DEF TypeOK

LEMMA OutsideTypes ==
  ASSUME TypeOK, NEW g \in Generations, Outside(g)
  PROVE  TypeOK'
<1> USE AssistantAssumption
<1>1. UNCHANGED <<work, answerVars>>
  BY DEF Outside, Api, Start, Enqueue, EnqueueFails, UndoStart, ApiDies, Cancel, Lapse,
         StallJob, Backoff
<1>2. Queue!QueueTypeOK'
  <2>1. CASE Queue!Add(g)
    BY <2>1 DEF TypeOK, Queue!Add, Queue!QueueTypeOK, Queue!QueueStates
  <2>2. CASE Queue!Promote(g)
    BY <2>2 DEF TypeOK, Queue!Promote, Queue!QueueTypeOK, Queue!QueueStates
  <2>3. CASE Queue!Stall(g)
    BY <2>3 DEF TypeOK, Queue!Stall, Queue!QueueTypeOK, Queue!QueueStates
  <2>4. CASE UNCHANGED queueVars
    BY <2>4 DEF queueVars, TypeOK, Queue!QueueTypeOK
  <2> QED
    BY <2>1, <2>2, <2>3, <2>4
    DEF Outside, Api, Start, Enqueue, EnqueueFails, UndoStart, ApiDies, Cancel, Lapse,
        StallJob, Backoff
<1>3. status' \in [Generations -> Statuses] /\ lapsed' \in [Generations -> BOOLEAN]
  <2>1. CASE Start(g) \/ UndoStart(g)
    BY <2>1 DEF Start, UndoStart, TypeOK, Statuses, Active
  <2>2. CASE Cancel(g) \/ Lapse(g)
    BY <2>2 DEF Cancel, Lapse, SetStatus, TypeOK, Statuses
  <2>3. CASE UNCHANGED rowVars
    BY <2>3 DEF TypeOK, rowVars
  <2> QED
    BY <2>1, <2>2, <2>3 DEF Outside, Api, Enqueue, EnqueueFails, ApiDies, StallJob, Backoff
<1>4. starting' \in [Generations -> {"no", "enqueue", "undo"}]
  BY DEF Outside, Api, Start, Enqueue, EnqueueFails, UndoStart, ApiDies, Cancel, Lapse,
         StallJob, Backoff, TypeOK
<1>5. /\ errors' \in Nat
      /\ disrupted' \in SUBSET Generations /\ stopped' \in SUBSET Generations
      /\ overran' \in SUBSET Generations
  <2>1. CASE EnqueueFails(g) \/ ApiDies(g) \/ Cancel(g)
    BY <2>1 DEF EnqueueFails, ApiDies, Cancel, Err, CountError, Disrupt, TypeOK
  <2>2. CASE Lapse(g) \/ StallJob(g)
    BY <2>2 DEF Lapse, StallJob, Disrupt, TypeOK, ledger
  <2>3. CASE UNCHANGED ledger
    BY <2>3 DEF TypeOK, ledger
  <2> QED
    BY <2>1, <2>2, <2>3 DEF Outside, Api, Start, Enqueue, UndoStart, Backoff
<1> QED  BY <1>1, <1>2, <1>3, <1>4, <1>5 DEF TypeOK, answerVars

LEMMA TypesKept == TypeOK /\ [Next]_vars => TypeOK'
<1> SUFFICES ASSUME TypeOK, [Next]_vars PROVE TypeOK'
  OBVIOUS
<1>1. CASE UNCHANGED vars
  BY <1>1 DEF vars, queueVars, rowVars, answerVars, ledger, TypeOK, Queue!QueueTypeOK
<1> QED  BY <1>1, NextSteps, WorkerTypes, OutsideTypes

(* Rows, deliveries, workers and the histories keep their types, and a     *)
(* busy worker has a run.                                                  *)
THEOREM AssistantTypes == Spec => []TypeOK
BY TypesInitially, TypesKept, PTL DEF Spec

(* What a claim that throws leaves behind.                                 *)
LEMMA ThrownClaims ==
  ASSUME TypeOK, NEW w \in Workers, ClaimThrows(w)
  PROVE  /\ work[w].pc = "claim" /\ work[w].run \in Generations
         /\ work'[w].pc = "rethrow" /\ work'[w].run = work[w].run /\ ~work'[w].paid
         /\ errors' > 0 /\ UNCHANGED <<message, cost, stopped, overran>>
         /\ disrupted \subseteq disrupted'
         /\ \A g \in Generations :
              \/ status'[g] = status[g] /\ lapsed'[g] = lapsed[g]
              \/ work[w].run = g /\ Claimable(g) /\ status'[g] = "running"
<1>1. work[w].pc = "claim" /\ work[w].run \in Generations
  BY DEF ClaimThrows, At, TypeOK
<1>2. work'[w].pc = "rethrow" /\ work'[w].run = work[w].run /\ ~work'[w].paid
  BY DEF ClaimThrows, Finish, Idle, TypeOK
<1>3. errors' > 0 /\ UNCHANGED <<message, cost, stopped, overran>>
  BY DEF ClaimThrows, CountError, answerVars, TypeOK
<1>4. disrupted \subseteq disrupted'
  BY DEF ClaimThrows
<1>5. \A g \in Generations :
        \/ status'[g] = status[g] /\ lapsed'[g] = lapsed[g]
        \/ work[w].run = g /\ Claimable(g) /\ status'[g] = "running"
  BY <1>1 DEF ClaimThrows, SetStatus, rowVars, TypeOK
<1> QED  BY <1>1, <1>2, <1>3, <1>4, <1>5

-----------------------------------------------------------------------------
(* Outcomes. *)

(* What is stored, charged or settled stays as it is in every step.        *)
Final ==
  \A g \in Generations :
    /\ message[g] # "none" => message'[g] = message[g]
    /\ cost[g] # "none" => cost'[g] = cost[g]
    /\ status[g] \in {"completed", "failed"} => status'[g] = status[g]

LEMMA EveryStepIsFinal == TypeOK /\ [Next]_vars => Final
<1> SUFFICES ASSUME TypeOK, [Next]_vars, NEW g \in Generations
             PROVE  /\ message[g] # "none" => message'[g] = message[g]
                    /\ cost[g] # "none" => cost'[g] = cost[g]
                    /\ status[g] \in {"completed", "failed"} => status'[g] = status[g]
  BY DEF Final
<1>1. ASSUME NEW w \in Workers, Works(w)
      PROVE  message[g] # "none" => message'[g] = message[g]
  <2>1. CASE Refuse(w) \/ StoreAnswer(w)
    BY <2>1 DEF Refuse, StoreAnswer, AppendMessage, TypeOK
  <2>2. CASE UNCHANGED message
    BY <2>2
  <2> QED
    BY <1>1, <2>1, <2>2, ThrownClaims
    DEF Works, Work, Deliver, Claim, FindMessage, CallProvider, ProviderAnswers, RecordCost,
        Complete, Throw, DecideFailure, Settle, SettleFails, Report, Heartbeat, Crash,
        answerVars
<1>2. ASSUME NEW w \in Workers, Works(w)
      PROVE  cost[g] # "none" => cost'[g] = cost[g]
  <2>1. CASE RecordCost(w)
    BY <2>1 DEF RecordCost, TypeOK
  <2>2. CASE UNCHANGED cost
    BY <2>2
  <2> QED
    BY <1>2, <2>1, <2>2, ThrownClaims
    DEF Works, Work, Deliver, Claim, FindMessage, Refuse, CallProvider, ProviderAnswers,
        StoreAnswer, Complete, Throw, DecideFailure, Settle, SettleFails, Report, Heartbeat,
        Crash, answerVars
<1>3. ASSUME NEW w \in Workers, Works(w)
      PROVE  status[g] \in {"completed", "failed"} => status'[g] = status[g]
  <2>1. CASE Claim(w)
    BY <2>1 DEF Claim, Claimable, SetStatus, TypeOK, rowVars
  <2>2. CASE Complete(w)
    BY <2>2 DEF Complete, CompleteRun, SetStatus, TypeOK, rowVars
  <2>3. CASE Settle(w)
    BY <2>3 DEF Settle, SettleRun, SetStatus, TypeOK, rowVars
  <2>4. CASE UNCHANGED status
    BY <2>4
  <2>5. CASE ClaimThrows(w)
    BY <2>5, ThrownClaims DEF Claimable
  <2> QED
    BY <1>3, <2>1, <2>2, <2>3, <2>4, <2>5
    DEF Works, Work, Deliver, FindMessage, Refuse, CallProvider, ProviderAnswers, StoreAnswer,
        RecordCost, Throw, DecideFailure, SettleFails, Report, Heartbeat, Crash, rowVars
<1>4. ASSUME NEW h \in Generations, Outside(h)
      PROVE  /\ UNCHANGED answerVars
             /\ status[g] \in {"completed", "failed"} => status'[g] = status[g]
  <2>1. UNCHANGED answerVars
    BY <1>4 DEF Outside, Api, Start, Enqueue, EnqueueFails, UndoStart, ApiDies, Cancel, Lapse,
                StallJob, Backoff
  <2>2. CASE Start(h) \/ UndoStart(h)
    BY <2>1, <2>2 DEF Start, UndoStart, TypeOK
  <2>3. CASE Cancel(h)
    BY <2>1, <2>3 DEF Cancel, SetStatus, Active, TypeOK
  <2>4. CASE UNCHANGED status
    BY <2>1, <2>4
  <2> QED
    BY <1>4, <2>1, <2>2, <2>3, <2>4
    DEF Outside, Api, Enqueue, EnqueueFails, ApiDies, Lapse, StallJob, Backoff, rowVars
<1>5. CASE UNCHANGED vars
  BY <1>5 DEF vars, rowVars, answerVars
<1> QED  BY <1>1, <1>2, <1>3, <1>4, <1>5, NextSteps DEF answerVars

(* The stored answer, its governance event and a completed or failed row   *)
(* are never changed again, whatever worker comes late.                    *)
THEOREM OutcomesAreFinal == Spec => OutcomeIsFinal
<1>1. TypeOK /\ [Next]_vars => [Final]_vars
  BY EveryStepIsFinal
<1> QED  BY <1>1, AssistantTypes, PTL DEF Spec, OutcomeIsFinal, Final

-----------------------------------------------------------------------------
(* Leases. *)

(* What the helpers do to the state of a worker.                           *)
LEMMA Going ==
  ASSUME TypeOK, NEW w \in Workers, NEW pc, Go(w, pc)
  PROVE  /\ work'[w].pc = pc /\ work'[w].run = work[w].run
         /\ work'[w].aborted = work[w].aborted /\ work'[w].paid = work[w].paid
BY DEF TypeOK, Go, WorkStates

LEMMA Failing ==
  ASSUME TypeOK, NEW w \in Workers, NEW aborted, NEW retryable, Fail(w, aborted, retryable)
  PROVE  /\ work'[w].pc = "failing" /\ work'[w].run = work[w].run
         /\ work'[w].aborted = aborted /\ ~work'[w].paid
BY DEF TypeOK, Fail, Idle

LEMMA Finishing ==
  ASSUME TypeOK, NEW w \in Workers, NEW pc, Finish(w, pc)
  PROVE  work'[w].pc = pc /\ work'[w].run = work[w].run /\ ~work'[w].paid
BY DEF TypeOK, Finish, Idle

(* What a worker executes it has claimed before.                           *)
LEMMA ExecutionBegins ==
  ASSUME TypeOK, NEW w \in Workers, Works(w), NEW v \in Workers, NEW g \in Generations,
         Executing(v, g)'
  PROVE  \/ Executing(v, g)
         \/ v = w /\ Claim(w) /\ work[w].run = g /\ Claimable(g)
<1> USE DEF Executing, GenerationSteps
<1>1. work[w] \in WorkStates
  BY DEF TypeOK
<1>2. CASE v # w
  <2>1. work'[v] = work[v]
    BY <1>2, WorkerMoves DEF Moves, TypeOK
  <2> QED  BY <2>1
<1>3. CASE v = w
  <2> USE <1>1, <1>3
  <2>1. ~\E h \in Generations : Deliver(w, h)
    BY DEF Deliver, Idle, TypeOK
  <2>2. CASE Claim(w)
    <3>1. CASE Claimable(work[w].run)
      <4>1. Go(w, "find")
        BY <2>2, <3>1 DEF Claim
      <4>2. work'[w].run = work[w].run
        BY <4>1, Going
      <4> QED  BY <2>2, <3>1, <4>2
    <3>2. CASE ~Claimable(work[w].run)
      <4>1. work' = [work EXCEPT ![w] = Idle]
        BY <2>2, <3>2 DEF Claim
      <4> QED  BY <4>1 DEF Idle, TypeOK
    <3> QED  BY <3>1, <3>2
  <2>3. CASE FindMessage(w)
    BY <2>3, Going, Failing DEF FindMessage, At
  <2>4. CASE Refuse(w) \/ StoreAnswer(w)
    BY <2>4, Going DEF Refuse, StoreAnswer, At
  <2>5. CASE CallProvider(w)
    BY <2>5, Going, Failing DEF CallProvider, At
  <2>6. CASE ProviderAnswers(w)
    <3>1. Executing(w, work[w].run)
      BY <2>6 DEF ProviderAnswers, At
    <3>2. work'[w].run = work[w].run
      <4>1. CASE Fail(w, TRUE, FALSE)
        BY <4>1, Failing
      <4>2. CASE work' = [work EXCEPT ![w].pc = "append", ![w].paid = TRUE]
        BY <4>2 DEF TypeOK, WorkStates
      <4> QED  BY <2>6, <4>1, <4>2 DEF ProviderAnswers
    <3> QED  BY <3>1, <3>2
  <2>7. CASE RecordCost(w)
    BY <2>7 DEF RecordCost, At, TypeOK, WorkStates
  <2>8. CASE Complete(w)
    BY <2>8, Failing, Finishing DEF Complete, At
  <2>9. CASE Throw(w) \/ ClaimThrows(w)
    BY <2>9, Failing, ThrownClaims DEF Throw
  <2>10. CASE DecideFailure(w)
    BY <2>10 DEF DecideFailure, At, Idle, TypeOK
  <2>11. CASE Settle(w) \/ SettleFails(w)
    BY <2>11, Finishing DEF Settle, SettleFails
  <2>12. CASE Report(w) \/ Crash(w)
    BY <2>12 DEF Report, Crash, Idle, TypeOK
  <2>13. CASE Heartbeat(w)
    BY <2>13 DEF Heartbeat, TypeOK, WorkStates
  <2> QED
    BY <2>1, <2>2, <2>3, <2>4, <2>5, <2>6, <2>7, <2>8, <2>9, <2>10, <2>11, <2>12, <2>13
    DEF Works, Work
<1> QED  BY <1>2, <1>3

LEMMA LeaseKept == TypeOK /\ LeaseInv /\ [Next]_vars => LeaseInv'
<1> SUFFICES ASSUME TypeOK, LeaseInv, [Next]_vars, NEW g \in Generations \ overran'
             PROVE  Guarded(g)'
  BY DEF LeaseInv
<1>1. g \in Generations
  OBVIOUS
<1>2. ASSUME g \notin overran, UNCHANGED status, lapsed'[g] => lapsed[g],
             \A v \in Workers : Executing(v, g)' => Executing(v, g)
      PROVE  Guarded(g)'
  BY <1>1, <1>2 DEF LeaseInv, Guarded
<1>3. ASSUME NEW w \in Workers, Works(w) PROVE Guarded(g)'
  <2>1. overran' = overran
    BY <1>3, ThrownClaims
    DEF Works, Work, Deliver, Claim, FindMessage, Refuse, CallProvider, ProviderAnswers,
        StoreAnswer, RecordCost, Complete, Throw, DecideFailure, Settle, SettleFails, Report,
        Heartbeat, Crash, Err, ledger
  <2>2. Guarded(g)
    BY <1>1, <2>1 DEF LeaseInv
  <2>3. CASE Claim(w) /\ work[w].run = g /\ Claimable(g)
    <3>1. \A v \in Workers : ~Executing(v, g)
      BY <2>2, <2>3 DEF Claimable, Guarded
    <3>2. \A v \in Workers : Executing(v, g)' => v = w
      BY <1>3, <3>1, ExecutionBegins
    <3>3. status'[g] = "running" /\ ~lapsed'[g]
      BY <1>1, <2>3 DEF Claim, SetStatus, TypeOK
    <3> QED  BY <3>2, <3>3 DEF Guarded
  <2>4. CASE ~(Claim(w) /\ work[w].run = g /\ Claimable(g))
    <3>1. \A v \in Workers : Executing(v, g)' => Executing(v, g)
      BY <1>1, <1>3, <2>4, ExecutionBegins
    <3>2. CASE status'[g] = status[g] /\ (lapsed'[g] => lapsed[g])
      BY <2>2, <3>1, <3>2 DEF Guarded
    <3>3. CASE (Complete(w) \/ Settle(w)) /\ work[w].run = g /\ work'[w].pc # "failing"
      <4>1. Executing(w, g)
        BY <3>3 DEF Complete, Settle, At, Executing, GenerationSteps
      <4>2. work'[w].pc \in {"return", "rethrow"}
        BY <3>3, Finishing, Failing DEF Complete, Settle
      <4>3. \A v \in Workers : ~Executing(v, g)'
        BY <2>2, <3>1, <4>1, <4>2 DEF Guarded, Executing, GenerationSteps
      <4> QED  BY <4>3 DEF Guarded
    <3>5. CASE ClaimThrows(w) /\ work[w].run = g /\ Claimable(g)
      <4>1. \A v \in Workers : ~Executing(v, g)'
        BY <2>2, <3>1, <3>5 DEF Claimable, Guarded
      <4> QED  BY <4>1 DEF Guarded
    <3>4. \/ status'[g] = status[g] /\ (lapsed'[g] => lapsed[g])
          \/ (Complete(w) \/ Settle(w)) /\ work[w].run = g /\ work'[w].pc # "failing"
          \/ ClaimThrows(w) /\ work[w].run = g /\ Claimable(g)
      <4>1. CASE Claim(w)
        BY <1>1, <2>4, <4>1 DEF Claim, SetStatus, TypeOK, rowVars
      <4>2. CASE Complete(w)
        <5>1. CASE UNCHANGED rowVars
          BY <5>1 DEF rowVars
        <5>2. CASE CompleteRun(work[w].run) /\ Finish(w, "return")
          <6>1. work'[w].pc = "return"
            BY <5>2, Finishing
          <6> QED  BY <1>1, <4>2, <5>2, <6>1 DEF CompleteRun, SetStatus, TypeOK, rowVars
        <5> QED  BY <4>2, <5>1, <5>2 DEF Complete
      <4>3. CASE Settle(w)
        BY <1>1, <4>3, Finishing DEF Settle, SettleRun, SetStatus, TypeOK, rowVars
      <4>4. CASE Heartbeat(w)
        BY <1>1, <4>4 DEF Heartbeat, TypeOK
      <4>5. CASE UNCHANGED rowVars
        BY <4>5 DEF rowVars
      <4>6. CASE ClaimThrows(w)
        BY <1>1, <4>6, ThrownClaims
      <4> QED
        BY <1>3, <4>1, <4>2, <4>3, <4>4, <4>5, <4>6
        DEF Works, Work, Deliver, FindMessage, Refuse, CallProvider, ProviderAnswers,
            StoreAnswer, RecordCost, Throw, DecideFailure, SettleFails, Report, Crash
    <3> QED  BY <3>2, <3>3, <3>4, <3>5
  <2> QED  BY <2>3, <2>4
<1>4. ASSUME NEW h \in Generations, Outside(h) PROVE Guarded(g)'
  <2>1. UNCHANGED work /\ overran \subseteq overran'
    BY <1>4 DEF Outside, Api, Start, Enqueue, EnqueueFails, UndoStart, ApiDies, Cancel, Lapse,
                StallJob, Backoff, Err, Disrupt, ledger
  <2>2. Guarded(g) /\ \A v \in Workers : Executing(v, g)' <=> Executing(v, g)
    BY <1>1, <2>1 DEF LeaseInv, Executing
  <2>3. CASE Start(h)
    BY <1>1, <2>2, <2>3 DEF Start, Guarded, TypeOK
  <2>4. CASE UndoStart(h)
    BY <1>1, <2>2, <2>4 DEF UndoStart, Guarded, TypeOK
  <2>5. CASE Cancel(h)
    BY <1>1, <2>2, <2>5 DEF Cancel, SetStatus, Guarded, TypeOK
  <2>6. CASE Lapse(h)
    <3>1. g = h => \A v \in Workers : ~Executing(v, g)
      BY <2>6 DEF Lapse
    <3> QED  BY <1>1, <2>2, <2>6, <3>1 DEF Lapse, Guarded, TypeOK
  <2>7. CASE UNCHANGED rowVars
    BY <2>2, <2>7 DEF rowVars, Guarded
  <2> QED
    BY <1>4, <2>3, <2>4, <2>5, <2>6, <2>7
    DEF Outside, Api, Enqueue, EnqueueFails, ApiDies, StallJob, Backoff
<1>5. CASE UNCHANGED vars
  BY <1>5 DEF vars, rowVars, ledger, LeaseInv, Guarded, Executing
<1> QED  BY <1>3, <1>4, <1>5, NextSteps

LEMMA LeasesAlways == Spec => [](TypeOK /\ LeaseInv)
<1>1. Init => LeaseInv
  BY DEF Init, Idle, LeaseInv, Guarded, Executing, GenerationSteps
<1> QED  BY <1>1, LeaseKept, AssistantTypes, PTL DEF Spec

(* Two workers generate the answer of one run only after its lease lapsed  *)
(* under one of them: deliveries, stalls and crashes alone start no second *)
(* provider call.                                                          *)
THEOREM OneWorkerWhileLeased == Spec => []ExclusiveWhileLeased
<1>1. TypeOK /\ LeaseInv => ExclusiveWhileLeased
  BY DEF LeaseInv, Guarded, ExclusiveWhileLeased, Generating, Executing
<1> QED  BY <1>1, LeasesAlways, PTL

-----------------------------------------------------------------------------
(* Cancelled runs. *)

(* A step after which there still was no error: no worker threw, nobody    *)
(* was cancelled, and a worker that fails was aborted.                     *)
LEMMA WithoutError ==
  ASSUME TypeOK, NEW w \in Workers, Works(w), errors' = 0
  PROVE  /\ errors = 0 /\ stopped' = stopped
         /\ ~Throw(w) /\ ~ClaimThrows(w) /\ ~Err(work[w].run)
<1>1. errors \in Nat
  BY DEF TypeOK
<1>2. ~Err(work[w].run) /\ ~ClaimThrows(w)
  BY <1>1 DEF Err, CountError, ClaimThrows
<1>3. CASE Throw(w)
  BY <1>2, <1>3 DEF Throw
<1>4. CASE SettleFails(w) \/ Crash(w)
  BY <1>2, <1>4 DEF SettleFails, Crash, Disrupt, Throw, GenerationSteps, Err, CountError
<1>5. CASE UNCHANGED ledger
  BY <1>1, <1>2, <1>5 DEF ledger, Throw
<1> QED
  BY <1>2, <1>3, <1>4, <1>5
  DEF Works, Work, Deliver, Claim, FindMessage, Refuse, CallProvider, ProviderAnswers,
      StoreAnswer, RecordCost, Complete, DecideFailure, Settle, Report, Heartbeat

LEMMA DecisionsKept ==
  ASSUME TypeOK, DecisionInv, NEW w \in Workers, Works(w), errors' = 0
  PROVE  DecisionInv'
<1>1. work[w] \in WorkStates
  BY DEF TypeOK
<1>2. ASSUME NEW v \in Workers, v # w
      PROVE  work'[v] = work[v]
  BY <1>2, WorkerMoves DEF Moves, TypeOK
<1>3. /\ work'[w].pc = "failing" => work'[w].aborted
      /\ work'[w].pc = "settle" => work'[w].decision = "cancel"
  <2> USE <1>1
  <2>0. ASSUME Fail(w, TRUE, FALSE)
        PROVE  work'[w].pc = "failing" /\ work'[w].aborted
    BY <2>0 DEF Fail, Idle, TypeOK
  <2>1. CASE \E h \in Generations : Deliver(w, h)
    BY <2>1 DEF Deliver, Idle, TypeOK
  <2>2. CASE Claim(w) \/ Report(w) \/ Crash(w)
    <3>1. CASE work' = [work EXCEPT ![w] = Idle]
      BY <3>1 DEF Idle, TypeOK
    <3> QED  BY <2>2, <3>1, Going DEF Claim, Report, Crash
  <2>3. CASE FindMessage(w)
    <3>1. CASE Fail(w, TRUE, FALSE)
      BY <2>0, <3>1
    <3>2. CASE Go(w, IF message[work[w].run] = "none" THEN "budget" ELSE "complete")
      BY <3>2, Going
    <3> QED  BY <2>3, <3>1, <3>2 DEF FindMessage
  <2>4. CASE Refuse(w) \/ StoreAnswer(w)
    BY <2>4, Going DEF Refuse, StoreAnswer
  <2>5. CASE CallProvider(w)
    <3>1. CASE Fail(w, TRUE, FALSE)
      BY <2>0, <3>1
    <3>2. CASE Go(w, "provider")
      BY <3>2, Going
    <3> QED  BY <2>5, <3>1, <3>2 DEF CallProvider
  <2>6. CASE ProviderAnswers(w)
    <3>1. CASE Fail(w, TRUE, FALSE)
      BY <2>0, <3>1
    <3>2. CASE work' = [work EXCEPT ![w].pc = "append", ![w].paid = TRUE]
      BY <3>2 DEF TypeOK, WorkStates
    <3> QED  BY <2>6, <3>1, <3>2 DEF ProviderAnswers
  <2>7. CASE RecordCost(w)
    BY <2>7 DEF RecordCost, TypeOK, WorkStates
  <2>8. CASE Complete(w)
    <3>1. CASE Fail(w, TRUE, FALSE)
      BY <2>0, <3>1
    <3>2. CASE Finish(w, "return")
      BY <3>2, Finishing
    <3> QED  BY <2>8, <3>1, <3>2 DEF Complete
  <2>9. CASE DecideFailure(w)
    <3>1. work[w].aborted
      BY <2>9 DEF DecideFailure, At, DecisionInv
    <3>2. Decide(w) = "cancel"
      BY <3>1 DEF Decide
    <3> QED  BY <2>9, <3>2 DEF DecideFailure, Idle, TypeOK
  <2>10. CASE Settle(w) \/ SettleFails(w)
    BY <2>10, Finishing DEF Settle, SettleFails
  <2>11. CASE Heartbeat(w)
    <3>1. CASE work' = [work EXCEPT ![w].aborted = TRUE]
      BY <2>11, <3>1 DEF Heartbeat, At, TypeOK, WorkStates
    <3>2. CASE UNCHANGED work
      BY <3>2 DEF DecisionInv
    <3> QED  BY <2>11, <3>1, <3>2 DEF Heartbeat
  <2> QED
    BY <2>1, <2>2, <2>3, <2>4, <2>5, <2>6, <2>7, <2>8, <2>9, <2>10, <2>11, WithoutError
    DEF Works, Work
<1> QED  BY <1>2, <1>3 DEF DecisionInv

(* What workers do to a row, as long as there was no error.                *)
LEMMA RowsOfWorkers ==
  ASSUME TypeOK, DecisionInv, NEW w \in Workers, Works(w), NEW g \in Generations
  PROVE  /\ status[g] = "cancelled" => status'[g] = "cancelled"
         /\ status'[g] \in Active => status[g] \in Active
<1>1. CASE Claim(w)
  BY <1>1 DEF Claim, Claimable, SetStatus, Active, TypeOK, rowVars
<1>2. CASE Complete(w)
  BY <1>2 DEF Complete, CompleteRun, SetStatus, Active, TypeOK, rowVars
<1>3. CASE Settle(w)
  <2>1. Outcome(work[w].decision) = "cancelled"
    BY <1>3 DEF Settle, At, DecisionInv, Outcome
  <2> QED  BY <1>3, <2>1 DEF Settle, SettleRun, SetStatus, Active, TypeOK, rowVars
<1>4. CASE UNCHANGED status
  BY <1>4
<1>5. CASE ClaimThrows(w)
  BY <1>5, ThrownClaims DEF Claimable, Active
<1> QED
  BY <1>1, <1>2, <1>3, <1>4, <1>5
  DEF Works, Work, Deliver, FindMessage, Refuse, CallProvider, ProviderAnswers, StoreAnswer,
      RecordCost, Throw, DecideFailure, SettleFails, Report, Heartbeat, Crash, rowVars

LEMMA CancelKept == TypeOK /\ CancelInv /\ [Next]_vars => CancelInv'
<1> SUFFICES ASSUME TypeOK, CancelInv, [Next]_vars, errors' = 0
             PROVE  DecisionInv' /\ CancelStands' /\ OneActiveRun'
  BY DEF CancelInv
<1>1. ASSUME NEW w \in Workers, Works(w)
      PROVE  DecisionInv' /\ CancelStands' /\ OneActiveRun'
  <2>1. errors = 0 /\ stopped' = stopped
    BY <1>1, WithoutError
  <2>2. DecisionInv /\ CancelStands /\ OneActiveRun
    BY <2>1 DEF CancelInv
  <2>3. DecisionInv'
    BY <1>1, <2>2, DecisionsKept
  <2>4. \A g \in Generations :
          /\ status[g] = "cancelled" => status'[g] = "cancelled"
          /\ status'[g] \in Active => status[g] \in Active
    BY <1>1, <2>2, RowsOfWorkers
  <2>5. CancelStands'
    BY <2>1, <2>2, <2>4 DEF CancelStands, TypeOK
  <2>6. OneActiveRun'
    BY <2>1, <2>2, <2>4 DEF OneActiveRun
  <2> QED  BY <2>3, <2>5, <2>6
<1>2. ASSUME NEW h \in Generations, Outside(h)
      PROVE  DecisionInv' /\ CancelStands' /\ OneActiveRun'
  <2>1. UNCHANGED work /\ errors = 0 /\ ~EnqueueFails(h)
    BY <1>2 DEF Outside, Api, Start, Enqueue, EnqueueFails, UndoStart, ApiDies, Cancel, Lapse,
                StallJob, Backoff, Err, CountError, Disrupt, ledger, TypeOK
  <2>2. DecisionInv /\ CancelStands /\ OneActiveRun
    BY <2>1 DEF CancelInv
  <2>3. DecisionInv'
    BY <2>1, <2>2 DEF DecisionInv
  <2>4. CASE Start(h)
    <3>1. stopped' = stopped
      BY <2>4 DEF Start, ledger
    <3>2. status[h] = "absent" /\ \A g \in Generations : status[g] \notin Active
      BY <2>4 DEF Start, WorkspaceIsFree
    <3>3. status' = [status EXCEPT ![h] = "queued"]
      BY <2>4 DEF Start
    <3>4. CancelStands'
      BY <2>1, <2>2, <3>1, <3>2, <3>3 DEF CancelStands, TypeOK
    <3>5. OneActiveRun'
      BY <3>2, <3>3 DEF OneActiveRun, TypeOK
    <3> QED  BY <2>3, <3>4, <3>5
  <2>5. CASE UndoStart(h)
    <3>1. stopped' = stopped
      BY <2>5 DEF UndoStart, ledger
    <3>2. \A g \in Generations :
            /\ status[g] = "cancelled" => status'[g] = "cancelled"
            /\ status'[g] \in Active => status[g] \in Active
      BY <2>5 DEF UndoStart, Active, TypeOK
    <3>3. CancelStands' /\ OneActiveRun'
      BY <2>1, <2>2, <3>1, <3>2 DEF CancelStands, OneActiveRun, TypeOK
    <3> QED  BY <2>3, <3>3
  <2>6. CASE Cancel(h)
    <3>1. stopped' = stopped \union {h}
      BY <2>6 DEF Cancel
    <3>2. \A g \in Generations :
            status'[g] = IF g = h THEN "cancelled" ELSE status[g]
      BY <2>6 DEF Cancel, SetStatus, TypeOK
    <3>3. CancelStands'
      BY <2>1, <2>2, <3>1, <3>2 DEF CancelStands, TypeOK
    <3>4. OneActiveRun'
      BY <2>1, <2>2, <3>2 DEF OneActiveRun, Active
    <3> QED  BY <2>3, <3>3, <3>4
  <2>7. CASE UNCHANGED <<status, stopped>>
    BY <2>1, <2>2, <2>3, <2>7 DEF CancelStands, OneActiveRun
  <2> QED
    BY <1>2, <2>1, <2>4, <2>5, <2>6, <2>7
    DEF Outside, Api, Enqueue, ApiDies, Lapse, StallJob, Backoff, Disrupt, rowVars, ledger
<1>3. CASE UNCHANGED vars
  BY <1>3 DEF vars, rowVars, ledger, CancelInv, DecisionInv, CancelStands, OneActiveRun
<1> QED  BY <1>1, <1>2, <1>3, NextSteps

LEMMA CancelAlways == Spec => []CancelInv
<1>1. Init => CancelInv
  BY DEF Init, Idle, Active, CancelInv, DecisionInv, CancelStands, OneActiveRun
<1> QED  BY <1>1, CancelKept, AssistantTypes, PTL DEF Spec

(* As long as no attempt has thrown, a run the user cancelled stays        *)
(* cancelled: a worker that settles late writes "cancelled" again.         *)
THEOREM CancelledRunsStayCancelled == Spec => []CancelStands
<1>1. CancelInv => CancelStands
  BY DEF CancelInv, CancelStands
<1> QED  BY <1>1, CancelAlways, PTL

(* As long as no attempt has thrown, the workspace has one active run at   *)
(* most, although workers change rows without start()'s lock.              *)
THEOREM OneRunIsActive == Spec => []OneActiveRun
<1>1. CancelInv => OneActiveRun
  BY DEF CancelInv, OneActiveRun
<1> QED  BY <1>1, CancelAlways, PTL

-----------------------------------------------------------------------------
(* Answers and their cost. *)

(* Who stores an answer and who records its cost.                          *)
LEMMA AnswerBegins ==
  ASSUME TypeOK, NEW w \in Workers, Works(w), NEW g \in Generations
  PROVE  /\ message'[g] # message[g] =>
              /\ work[w].run = g /\ message[g] = "none"
              /\ (Refuse(w) /\ message'[g] = "refusal") \/ (StoreAnswer(w) /\ message'[g] = "answer")
              /\ Governing(w, g)' /\ work'[w].paid = work[w].paid
         /\ cost'[g] # cost[g] => RecordCost(w) /\ work[w].run = g /\ cost'[g] # "none"
<1>1. CASE Refuse(w)
  <2>1. Go(w, "govern")
    BY <1>1 DEF Refuse
  <2>2. /\ work'[w].pc = "govern" /\ work'[w].run = work[w].run
        /\ work'[w].paid = work[w].paid
    BY <2>1, Going
  <2> QED  BY <1>1, <2>2 DEF Refuse, AppendMessage, Governing, TypeOK
<1>2. CASE StoreAnswer(w)
  <2>1. Go(w, "govern")
    BY <1>2 DEF StoreAnswer
  <2>2. /\ work'[w].pc = "govern" /\ work'[w].run = work[w].run
        /\ work'[w].paid = work[w].paid
    BY <2>1, Going
  <2> QED  BY <1>2, <2>2 DEF StoreAnswer, AppendMessage, Governing, TypeOK
<1>3. CASE RecordCost(w)
  BY <1>3 DEF RecordCost, TypeOK
<1>4. CASE UNCHANGED answerVars
  BY <1>4 DEF answerVars
<1> QED
  BY <1>1, <1>2, <1>3, <1>4, ThrownClaims
  DEF Works, Work, Deliver, Claim, FindMessage, CallProvider, ProviderAnswers, Complete, Throw,
      DecideFailure, Settle, SettleFails, Report, Heartbeat, Crash, answerVars

(* How the writing of a governance event ends.                             *)
LEMMA GoverningEnds ==
  ASSUME TypeOK, NEW w \in Workers, Works(w), NEW g \in Generations, Governing(w, g)
  PROVE  \/ Governing(w, g)' /\ work'[w].paid = work[w].paid
         \/ RecordCost(w)
         \/ errors' > 0
         \/ g \in disrupted'
<1> USE DEF Governing
<1>1. CASE Throw(w) \/ ClaimThrows(w)
  BY <1>1, ThrownClaims DEF Throw, Err, CountError, TypeOK
<1>2. CASE Crash(w)
  BY <1>2 DEF Crash, Disrupt
<1>3. CASE Heartbeat(w)
  BY <1>3 DEF Heartbeat, TypeOK, WorkStates
<1> QED
  BY <1>1, <1>2, <1>3
  DEF Works, Work, At, Deliver, Claim, FindMessage, Refuse, CallProvider, ProviderAnswers,
      StoreAnswer, Complete, DecideFailure, Settle, SettleFails, Report

(* Errors and disruptions are never forgotten, nor taken back.             *)
LEMMA LedgerGrows ==
  ASSUME TypeOK, [Next]_vars
  PROVE  (errors > 0 => errors' > 0) /\ disrupted \subseteq disrupted'
<1>1. ASSUME NEW g, Err(g)
      PROVE  (errors > 0 => errors' > 0) /\ disrupted \subseteq disrupted'
  BY <1>1 DEF Err, CountError, TypeOK
<1>2. ASSUME NEW g, Disrupt(g)
      PROVE  (errors > 0 => errors' > 0) /\ disrupted \subseteq disrupted'
  BY <1>2 DEF Disrupt
<1>3. ASSUME UNCHANGED <<errors, disrupted>>
      PROVE  (errors > 0 => errors' > 0) /\ disrupted \subseteq disrupted'
  BY <1>3
<1>4. ASSUME NEW w \in Workers, Works(w)
      PROVE  (errors > 0 => errors' > 0) /\ disrupted \subseteq disrupted'
  BY <1>1, <1>2, <1>3, <1>4, ThrownClaims
  DEF Works, Work, Deliver, Claim, FindMessage, Refuse, CallProvider, ProviderAnswers,
      StoreAnswer, RecordCost, Complete, Throw, DecideFailure, Settle, SettleFails, Report,
      Heartbeat, Crash, ledger
<1>5. ASSUME NEW g \in Generations, Outside(g)
      PROVE  (errors > 0 => errors' > 0) /\ disrupted \subseteq disrupted'
  BY <1>1, <1>2, <1>3, <1>5
  DEF Outside, Api, Start, Enqueue, EnqueueFails, UndoStart, ApiDies, Cancel, Lapse, StallJob,
      Backoff, ledger
<1>6. CASE UNCHANGED vars
  BY <1>3, <1>6 DEF vars, ledger
<1> QED  BY <1>4, <1>5, <1>6, NextSteps

(* What a worker knows about its own run.                                  *)
Knows(w) ==
  /\ work[w].pc \in {"govern", "complete"} => message[work[w].run] # "none"
  /\ work[w].pc = "append" => work[w].paid
  /\ work[w].pc \notin {"append", "govern"} => ~work[w].paid

LEMMA WorkerKnows ==
  ASSUME TypeOK, NEW w \in Workers, Knows(w), Works(w), Final
  PROVE  Knows(w)'
<1>1. work[w] \in WorkStates /\ (work[w].pc # "idle" => work[w].run \in Generations)
  BY DEF TypeOK
<1>2. ASSUME work'[w].pc \notin {"append", "govern", "complete"}, ~work'[w].paid
      PROVE  Knows(w)'
  BY <1>2 DEF Knows
<1>3. ASSUME NEW aborted, NEW retryable, Fail(w, aborted, retryable)
      PROVE  Knows(w)'
  BY <1>2, <1>3, Failing
<1>4. ASSUME NEW pc \in {"return", "rethrow"}, Finish(w, pc)
      PROVE  Knows(w)'
  BY <1>2, <1>4, Finishing
<1>5. ASSUME work' = [work EXCEPT ![w] = Idle]
      PROVE  Knows(w)'
  BY <1>2, <1>5 DEF Idle, TypeOK
<1>6. CASE \E h \in Generations : Deliver(w, h)
  BY <1>2, <1>6 DEF Deliver, Idle, TypeOK
<1>7. CASE Claim(w)
  <2>1. CASE Go(w, "find")
    BY <1>2, <1>7, <2>1, Going DEF Claim, At, Knows
  <2> QED  BY <1>5, <1>7, <2>1 DEF Claim
<1>8. CASE FindMessage(w)
  <2>1. CASE Go(w, IF message[work[w].run] = "none" THEN "budget" ELSE "complete")
    <3>1. UNCHANGED message
      BY <1>8 DEF FindMessage, answerVars
    <3>2. /\ work'[w].pc = IF message[work[w].run] = "none" THEN "budget" ELSE "complete"
          /\ work'[w].run = work[w].run /\ work'[w].paid = work[w].paid
      BY <2>1, Going
    <3> QED  BY <1>8, <3>1, <3>2 DEF FindMessage, At, Knows
  <2>2. CASE Fail(w, TRUE, FALSE)
    BY <1>3, <2>2
  <2> QED  BY <1>8, <2>1, <2>2 DEF FindMessage
<1>9. CASE Refuse(w) \/ StoreAnswer(w)
  <2>1. /\ work'[w].pc = "govern" /\ work'[w].run = work[w].run
    BY <1>9, Going DEF Refuse, StoreAnswer
  <2>2. message'[work[w].run] # "none"
    BY <1>1, <1>9 DEF Refuse, StoreAnswer, AppendMessage, At, TypeOK
  <2> QED  BY <2>1, <2>2 DEF Knows
<1>10. CASE CallProvider(w)
  <2>1. CASE Go(w, "provider")
    BY <1>2, <1>10, <2>1, Going DEF CallProvider, At, Knows
  <2>2. CASE Fail(w, TRUE, FALSE)
    BY <1>3, <2>2
  <2> QED  BY <1>10, <2>1, <2>2 DEF CallProvider
<1>11. CASE ProviderAnswers(w)
  <2>1. CASE work' = [work EXCEPT ![w].pc = "append", ![w].paid = TRUE]
    BY <1>1, <2>1 DEF Knows, TypeOK, WorkStates
  <2>2. CASE Fail(w, TRUE, FALSE)
    BY <1>3, <2>2
  <2> QED  BY <1>11, <2>1, <2>2 DEF ProviderAnswers
<1>12. CASE RecordCost(w)
  <2>1. /\ work'[w].pc = "complete" /\ work'[w].run = work[w].run /\ ~work'[w].paid
    BY <1>1, <1>12 DEF RecordCost, TypeOK, WorkStates
  <2>2. message'[work[w].run] # "none"
    BY <1>12 DEF RecordCost, At, Knows
  <2> QED  BY <2>1, <2>2 DEF Knows
<1>13. CASE Complete(w)
  <2>1. CASE Fail(w, TRUE, FALSE)
    BY <1>3, <2>1
  <2>2. CASE Finish(w, "return")
    BY <1>4, <2>2
  <2> QED  BY <1>13, <2>1, <2>2 DEF Complete
<1>14. CASE Throw(w)
  BY <1>3, <1>14 DEF Throw
<1>15. CASE DecideFailure(w)
  BY <1>2, <1>15 DEF DecideFailure, Idle, TypeOK
<1>16. CASE Settle(w)
  <2>1. PICK pc \in {"return", "rethrow"} : Finish(w, pc)
    BY <1>16 DEF Settle
  <2> QED  BY <1>4, <2>1
<1>17. CASE SettleFails(w) \/ ClaimThrows(w)
  BY <1>4, <1>17 DEF SettleFails, ClaimThrows
<1>18. CASE Report(w) \/ Crash(w)
  BY <1>5, <1>18 DEF Report, Crash
<1>19. CASE Heartbeat(w)
  <2>1. UNCHANGED message
    BY <1>19 DEF Heartbeat, answerVars
  <2>2. /\ work'[w].pc = work[w].pc /\ work'[w].run = work[w].run
        /\ work'[w].paid = work[w].paid
    BY <1>1, <1>19 DEF Heartbeat, TypeOK, WorkStates
  <2> QED  BY <2>1, <2>2 DEF Knows
<1> QED
  BY <1>6, <1>7, <1>8, <1>9, <1>10, <1>11, <1>12, <1>13, <1>14, <1>15, <1>16, <1>17, <1>18, <1>19
  DEF Works, Work

LEMMA AnswerKept == TypeOK /\ AnswerInv /\ [Next]_vars => AnswerInv'
<1> SUFFICES ASSUME TypeOK, AnswerInv, [Next]_vars PROVE AnswerInv'
  OBVIOUS
<1>1. Final /\ (errors > 0 => errors' > 0) /\ disrupted \subseteq disrupted'
  BY EveryStepIsFinal, LedgerGrows
<1>2. \A w \in Workers : Knows(w)
  BY DEF AnswerInv, Knows
<1>3. ASSUME NEW w \in Workers, Works(w) PROVE AnswerInv'
  <2>1. \A v \in Workers : v # w => work'[v] = work[v]
    BY <1>3, WorkerMoves DEF Moves, TypeOK
  <2>2. ASSUME NEW v \in Workers PROVE Knows(v)'
    <3>1. CASE v = w
      BY <1>1, <1>2, <1>3, <3>1, WorkerKnows
    <3>2. CASE v # w
      <4>1. work'[v] = work[v] /\ (work[v].pc # "idle" => work[v].run \in Generations)
        BY <2>1, <3>2 DEF TypeOK
      <4>2. work[v].run \in Generations => (message[work[v].run] # "none" => message'[work[v].run] # "none")
        BY <1>1 DEF Final
      <4> QED  BY <1>2, <4>1, <4>2 DEF Knows
    <3> QED  BY <3>1, <3>2
  <2>3. ASSUME NEW g \in Generations, status'[g] = "completed"
        PROVE  message'[g] # "none"
    <3>1. status[g] = "completed" \/ message[g] # "none"
      <4>1. CASE Complete(w) /\ work[w].run = g
        BY <4>1 DEF Complete, At, AnswerInv
      <4>2. CASE Complete(w) /\ work[w].run # g
        BY <2>3, <4>2 DEF Complete, CompleteRun, SetStatus, rowVars, TypeOK
      <4>3. CASE Claim(w)
        BY <2>3, <4>3 DEF Claim, SetStatus, rowVars, TypeOK
      <4>4. CASE Settle(w)
        <5>1. Outcome(work[w].decision) # "completed"
          BY DEF TypeOK, WorkStates, Decisions, Outcome
        <5> QED  BY <2>3, <4>4, <5>1 DEF Settle, SettleRun, SetStatus, rowVars, TypeOK
      <4>5. CASE UNCHANGED status
        BY <2>3, <4>5
      <4>6. CASE ClaimThrows(w)
        BY <2>3, <4>6, ThrownClaims
      <4> QED
        BY <1>3, <4>1, <4>2, <4>3, <4>4, <4>5, <4>6
        DEF Works, Work, Deliver, FindMessage, Refuse, CallProvider, ProviderAnswers,
            StoreAnswer, RecordCost, Throw, DecideFailure, SettleFails, Report, Heartbeat,
            Crash, rowVars
    <3>2. message[g] # "none"
      BY <3>1 DEF AnswerInv
    <3> QED  BY <1>1, <3>2 DEF Final
  <2>4. ASSUME NEW g \in Generations, message'[g] = "none"
        PROVE  cost'[g] = "none"
    <3>1. message[g] = "none" /\ cost[g] = "none"
      BY <1>1, <2>4 DEF Final, AnswerInv
    <3>2. ~(RecordCost(w) /\ work[w].run = g)
      BY <1>2, <3>1 DEF RecordCost, At, Knows
    <3> QED  BY <1>3, <3>1, <3>2, AnswerBegins
  <2>5. ASSUME NEW g \in Generations, message'[g] # "none"
        PROVE  Governed(g)'
    <3>1. CASE message[g] = "none"
      BY <1>3, <2>5, <3>1, AnswerBegins DEF Governed
    <3>2. CASE message[g] # "none"
      <4>1. CASE cost[g] # "none"
        BY <1>1, <4>1 DEF Final, Governed
      <4>2. CASE errors > 0 \/ g \in disrupted
        BY <1>1, <4>2 DEF Governed
      <4>3. ASSUME NEW v \in Workers, Governing(v, g)
            PROVE  Governed(g)'
        <5>1. CASE v # w
          BY <2>1, <4>3, <5>1 DEF Governed, Governing
        <5>2. CASE v = w /\ RecordCost(w)
          BY <4>3, <5>2 DEF Governed, Governing, RecordCost, TypeOK
        <5>3. CASE v = w /\ ~RecordCost(w)
          BY <1>3, <4>3, <5>3, GoverningEnds DEF Governed
        <5> QED  BY <5>1, <5>2, <5>3
      <4>4. Governed(g)
        BY <3>2 DEF AnswerInv
      <4> QED  BY <4>1, <4>2, <4>3, <4>4 DEF Governed
    <3> QED  BY <3>1, <3>2
  <2> QED  BY <2>2, <2>3, <2>4, <2>5 DEF AnswerInv, Knows
<1>4. ASSUME NEW h \in Generations, Outside(h) PROVE AnswerInv'
  <2>1. UNCHANGED <<work, answerVars>>
    BY <1>4 DEF Outside, Api, Start, Enqueue, EnqueueFails, UndoStart, ApiDies, Cancel, Lapse,
                StallJob, Backoff
  <2>2. \A g \in Generations : status'[g] = "completed" => status[g] = "completed"
    <3>1. CASE Start(h) \/ UndoStart(h) \/ Cancel(h)
      BY <3>1 DEF Start, UndoStart, Cancel, SetStatus, TypeOK
    <3>2. CASE UNCHANGED status
      BY <3>2
    <3> QED
      BY <1>4, <3>1, <3>2
      DEF Outside, Api, Enqueue, EnqueueFails, ApiDies, Lapse, StallJob, Backoff, rowVars
  <2>3. \A g \in Generations : Governed(g) => Governed(g)'
    BY <1>1, <2>1 DEF Governed, Governing, answerVars
  <2> QED  BY <2>1, <2>2, <2>3 DEF AnswerInv, answerVars
<1>5. CASE UNCHANGED vars
  BY <1>5 DEF vars, rowVars, answerVars, ledger, AnswerInv, Governed, Governing
<1> QED  BY <1>3, <1>4, <1>5, NextSteps

LEMMA AnswersAlways == Spec => []AnswerInv
<1>1. Init => AnswerInv
  BY DEF Init, Idle, AnswerInv
<1> QED  BY <1>1, AnswerKept, AssistantTypes, PTL DEF Spec

(* A run is reported completed only when its answer is stored, and the     *)
(* answer's governance event is written, being written, or was lost to an  *)
(* error or a disruption.                                                  *)
THEOREM CompletedRunsAreAnswered == Spec => []CompletedIsAnswered
<1>1. AnswerInv => CompletedIsAnswered
  BY DEF AnswerInv, Governed, Governing, CompletedIsAnswered, At
<1> QED  BY <1>1, AnswersAlways, PTL

(* A lease that lapsed under a live worker was a disruption.               *)
LEMMA OverrunsAreDisruptions ==
  ASSUME TypeOK, overran \subseteq disrupted, [Next]_vars
  PROVE  overran' \subseteq disrupted'
<1>1. ASSUME NEW w \in Workers, Works(w) PROVE overran' = overran
  BY <1>1, ThrownClaims
  DEF Works, Work, Deliver, Claim, FindMessage, Refuse, CallProvider, ProviderAnswers,
      StoreAnswer, RecordCost, Complete, Throw, DecideFailure, Settle, SettleFails, Report,
      Heartbeat, Crash, Err, ledger
<1>2. ASSUME NEW g \in Generations, Outside(g) PROVE overran' \subseteq disrupted'
  <2>1. CASE Lapse(g)
    BY <2>1 DEF Lapse, Disrupt, ledger
  <2>2. CASE UNCHANGED overran
    BY <2>2, LedgerGrows
  <2> QED
    BY <1>2, <2>1, <2>2
    DEF Outside, Api, Start, Enqueue, EnqueueFails, UndoStart, ApiDies, Cancel, StallJob,
        Backoff, Err, ledger
<1>3. CASE UNCHANGED vars
  BY <1>3 DEF vars, ledger
<1> QED  BY <1>1, <1>2, <1>3, LedgerGrows, NextSteps

(* How a worker comes to generate: it has seen that there is no answer.    *)
LEMMA GenerationBegins ==
  ASSUME TypeOK, NEW w \in Workers, Works(w),
         work'[w].pc \in {"budget", "provider", "append"}
  PROVE  /\ work'[w].run = work[w].run /\ UNCHANGED message
         /\ \/ work[w].pc \in {"budget", "provider", "append"}
            \/ message[work[w].run] = "none"
<1>1. work[w] \in WorkStates
  BY DEF TypeOK
<1>2. ~\E h \in Generations : Deliver(w, h)
  BY DEF Deliver, Idle, TypeOK
<1>3. ~Fail(w, TRUE, FALSE)
  BY Failing
<1>4. CASE Claim(w)
  <2>1. CASE Go(w, "find")
    BY <2>1, Going
  <2>2. CASE work' = [work EXCEPT ![w] = Idle]
    BY <2>2 DEF Idle, TypeOK
  <2> QED  BY <1>4, <2>1, <2>2 DEF Claim
<1>5. CASE FindMessage(w)
  <2>1. Go(w, IF message[work[w].run] = "none" THEN "budget" ELSE "complete")
    BY <1>3, <1>5 DEF FindMessage
  <2>2. /\ work'[w].pc = IF message[work[w].run] = "none" THEN "budget" ELSE "complete"
        /\ work'[w].run = work[w].run
    BY <2>1, Going
  <2> QED  BY <1>5, <2>2 DEF FindMessage, answerVars
<1>6. CASE Refuse(w) \/ StoreAnswer(w)
  <2>1. Go(w, "govern")
    BY <1>6 DEF Refuse, StoreAnswer
  <2> QED  BY <2>1, Going
<1>7. CASE CallProvider(w)
  <2>1. Go(w, "provider")
    BY <1>3, <1>7 DEF CallProvider
  <2>2. work'[w].run = work[w].run
    BY <2>1, Going
  <2> QED  BY <1>7, <2>2 DEF CallProvider, At, answerVars
<1>8. CASE ProviderAnswers(w)
  <2>1. work' = [work EXCEPT ![w].pc = "append", ![w].paid = TRUE]
    BY <1>3, <1>8 DEF ProviderAnswers
  <2> QED  BY <1>1, <1>8, <2>1 DEF ProviderAnswers, At, answerVars, TypeOK, WorkStates
<1>9. CASE RecordCost(w)
  BY <1>1, <1>9 DEF RecordCost, TypeOK, WorkStates
<1>10. CASE Complete(w)
  <2>1. Finish(w, "return")
    BY <1>3, <1>10 DEF Complete
  <2> QED  BY <2>1, Finishing
<1>11. CASE Throw(w) \/ ClaimThrows(w)
  BY <1>11, Failing, ThrownClaims DEF Throw
<1>12. CASE DecideFailure(w)
  BY <1>12 DEF DecideFailure, Idle, TypeOK
<1>13. CASE Settle(w) \/ SettleFails(w)
  BY <1>13, Finishing DEF Settle, SettleFails
<1>14. CASE Report(w) \/ Crash(w)
  BY <1>14 DEF Report, Crash, Idle, TypeOK
<1>15. CASE Heartbeat(w)
  <2>1. UNCHANGED message
    BY <1>15 DEF Heartbeat, answerVars
  <2>2. work'[w].pc = work[w].pc /\ work'[w].run = work[w].run
    BY <1>1, <1>15 DEF Heartbeat, TypeOK, WorkStates
  <2> QED  BY <2>1, <2>2
<1> QED
  BY <1>2, <1>4, <1>5, <1>6, <1>7, <1>8, <1>9, <1>10, <1>11, <1>12, <1>13, <1>14, <1>15
  DEF Works, Work

(* How a worker comes to write a governance event, or goes on with it.     *)
LEMMA GoverningBegins ==
  ASSUME TypeOK, NEW w \in Workers, Works(w), work'[w].pc = "govern"
  PROVE  /\ work'[w].run = work[w].run
         /\ work'[w].paid = work[w].paid
         /\ Refuse(w) \/ StoreAnswer(w) \/ (work[w].pc = "govern" /\ UNCHANGED message)
<1>1. work[w] \in WorkStates
  BY DEF TypeOK
<1>2. ~\E h \in Generations : Deliver(w, h)
  BY DEF Deliver, Idle, TypeOK
<1>3. ~Fail(w, TRUE, FALSE)
  BY Failing
<1>4. CASE Claim(w)
  <2>1. CASE Go(w, "find")
    BY <2>1, Going
  <2>2. CASE work' = [work EXCEPT ![w] = Idle]
    BY <2>2 DEF Idle, TypeOK
  <2> QED  BY <1>4, <2>1, <2>2 DEF Claim
<1>5. CASE FindMessage(w)
  <2>1. Go(w, IF message[work[w].run] = "none" THEN "budget" ELSE "complete")
    BY <1>3, <1>5 DEF FindMessage
  <2> QED  BY <2>1, Going
<1>6. CASE Refuse(w) \/ StoreAnswer(w)
  <2>1. Go(w, "govern")
    BY <1>6 DEF Refuse, StoreAnswer
  <2> QED  BY <1>6, <2>1, Going
<1>7. CASE CallProvider(w)
  <2>1. Go(w, "provider")
    BY <1>3, <1>7 DEF CallProvider
  <2> QED  BY <2>1, Going
<1>8. CASE ProviderAnswers(w)
  <2>1. work' = [work EXCEPT ![w].pc = "append", ![w].paid = TRUE]
    BY <1>3, <1>8 DEF ProviderAnswers
  <2> QED  BY <1>1, <2>1 DEF TypeOK, WorkStates
<1>9. CASE RecordCost(w)
  BY <1>1, <1>9 DEF RecordCost, TypeOK, WorkStates
<1>10. CASE Complete(w)
  <2>1. Finish(w, "return")
    BY <1>3, <1>10 DEF Complete
  <2> QED  BY <2>1, Finishing
<1>11. CASE Throw(w) \/ ClaimThrows(w)
  BY <1>11, Failing, ThrownClaims DEF Throw
<1>12. CASE DecideFailure(w)
  BY <1>12 DEF DecideFailure, Idle, TypeOK
<1>13. CASE Settle(w) \/ SettleFails(w)
  BY <1>13, Finishing DEF Settle, SettleFails
<1>14. CASE Report(w) \/ Crash(w)
  BY <1>14 DEF Report, Crash, Idle, TypeOK
<1>15. CASE Heartbeat(w)
  <2>1. UNCHANGED message
    BY <1>15 DEF Heartbeat, answerVars
  <2>2. /\ work'[w].pc = work[w].pc /\ work'[w].run = work[w].run
        /\ work'[w].paid = work[w].paid
    BY <1>1, <1>15 DEF Heartbeat, TypeOK, WorkStates
  <2> QED  BY <2>1, <2>2
<1> QED
  BY <1>2, <1>4, <1>5, <1>6, <1>7, <1>8, <1>9, <1>10, <1>11, <1>12, <1>13, <1>14, <1>15
  DEF Works, Work

LEMMA ChargeKept == TypeOK /\ LeaseInv /\ AnswerInv /\ ChargeInv /\ [Next]_vars => ChargeInv'
<1> SUFFICES ASSUME TypeOK, LeaseInv, AnswerInv, ChargeInv, [Next]_vars PROVE ChargeInv'
  OBVIOUS
<1>1. overran' \subseteq disrupted'
  BY OverrunsAreDisruptions DEF ChargeInv
<1>2. ASSUME errors' = 0, NEW g \in Generations \ disrupted'
      PROVE  Charged(g)'
  <2>1. errors = 0 /\ g \notin disrupted
    BY <1>2, LedgerGrows DEF TypeOK
  <2>2. Charged(g) /\ Guarded(g)
    BY <1>2, <2>1 DEF ChargeInv, LeaseInv
  <2>3. Final /\ \A v \in Workers : Knows(v)
    BY EveryStepIsFinal DEF AnswerInv, Knows
  <2>4. ASSUME NEW w \in Workers, Works(w) PROVE Charged(g)'
    <3>1. ASSUME NEW v \in Workers, v # w
          PROVE  work'[v] = work[v]
      BY <2>4, <3>1, WorkerMoves DEF Moves, TypeOK
    <3>2. ASSUME message'[g] # message[g]
          PROVE  Executing(w, g)
      BY <1>2, <2>4, <3>2, AnswerBegins
      DEF Refuse, StoreAnswer, At, Executing, GenerationSteps
    <3>3. ASSUME NEW v \in Workers, v # w, Executing(v, g)
          PROVE  UNCHANGED <<message[g], cost[g]>>
      <4>1. ~Executing(w, g)
        BY <2>2, <3>3 DEF Guarded
      <4>2. ~(RecordCost(w) /\ work[w].run = g)
        BY <4>1 DEF RecordCost, At, Executing, GenerationSteps
      <4>3. message'[g] = message[g]
        BY <3>2, <4>1
      <4>4. cost'[g] = cost[g]
        BY <1>2, <2>4, <4>2, AnswerBegins
      <4> QED  BY <4>3, <4>4
    <3>4. ASSUME NEW v \in Workers, work'[v].run = g,
                 work'[v].pc \in {"budget", "provider", "append"}
          PROVE  message'[g] = "none"
      <4>1. CASE v = w
        BY <2>2, <2>4, <3>4, <4>1, GenerationBegins DEF Charged
      <4>2. CASE v # w
        BY <2>2, <3>1, <3>3, <3>4, <4>2 DEF Charged, Executing, GenerationSteps
      <4> QED  BY <4>1, <4>2
    <3>5. ASSUME NEW v \in Workers, work'[v].run = g,
                 work'[v].pc = "govern", message'[g] = "answer"
          PROVE  work'[v].paid
      <4>1. CASE v = w
        <5>1. work[w].run = g /\ work'[w].paid = work[w].paid
          BY <2>4, <3>5, <4>1, GoverningBegins
        <5>2. ~Refuse(w)
          BY <1>2, <2>2, <3>5, <5>1 DEF Refuse, AppendMessage, At, Charged, TypeOK
        <5>3. CASE StoreAnswer(w)
          BY <2>3, <4>1, <5>1, <5>3 DEF StoreAnswer, At, Knows
        <5>4. CASE work[w].pc = "govern" /\ UNCHANGED message
          BY <2>2, <3>5, <4>1, <5>1, <5>4 DEF Charged
        <5> QED  BY <2>4, <3>5, <4>1, <5>2, <5>3, <5>4, GoverningBegins
      <4>2. CASE v # w
        BY <2>2, <3>1, <3>3, <3>5, <4>2 DEF Charged, Executing, GenerationSteps
      <4> QED  BY <4>1, <4>2
    <3>6. ASSUME message'[g] = "answer"
          PROVE  \/ cost'[g] = "reported"
                 \/ cost'[g] = "none" /\ \E v \in Workers : Governing(v, g)'
      <4>1. CASE message[g] # "answer"
        <5>1. /\ message[g] = "none" /\ Governing(w, g)'
              /\ Refuse(w) \/ StoreAnswer(w)
          BY <1>2, <2>4, <3>6, <4>1, AnswerBegins
        <5>2. cost'[g] = cost[g]
          BY <5>1 DEF Refuse, StoreAnswer
        <5>3. cost[g] = "none"
          BY <1>2, <5>1 DEF AnswerInv
        <5> QED  BY <5>1, <5>2, <5>3
      <4>2. CASE message[g] = "answer" /\ cost[g] = "reported"
        BY <1>2, <2>3, <4>2 DEF Final
      <4>3. ASSUME message[g] = "answer", cost[g] = "none",
                   NEW v \in Workers, Governing(v, g)
            PROVE  \/ cost'[g] = "reported"
                   \/ cost'[g] = "none" /\ \E u \in Workers : Governing(u, g)'
        <5>1. Executing(v, g)
          BY <4>3 DEF Governing, Executing, GenerationSteps
        <5>2. CASE v # w
          <6>1. cost'[g] = "none"
            BY <3>3, <4>3, <5>1, <5>2
          <6>2. Governing(v, g)'
            BY <3>1, <4>3, <5>2 DEF Governing
          <6> QED  BY <6>1, <6>2
        <5>3. CASE v = w /\ RecordCost(w)
          <6>1. work[w].run = g /\ work[w].paid
            BY <2>2, <4>3, <5>3 DEF Charged, Governing
          <6> QED  BY <1>2, <4>3, <5>3, <6>1 DEF RecordCost, TypeOK
        <5>4. CASE v = w /\ ~RecordCost(w)
          <6>1. Governing(w, g)'
            BY <1>2, <2>4, <4>3, <5>4, GoverningEnds
          <6>2. cost'[g] = "none"
            BY <1>2, <2>4, <4>3, <5>4, AnswerBegins
          <6> QED  BY <6>1, <6>2
        <5> QED  BY <5>2, <5>3, <5>4
      <4> QED  BY <2>2, <4>1, <4>2, <4>3 DEF Charged
    <3> QED  BY <3>4, <3>5, <3>6 DEF Charged, Governing
  <2>5. ASSUME NEW h \in Generations, Outside(h) PROVE Charged(g)'
    <3>1. UNCHANGED <<work, answerVars>>
      BY <2>5 DEF Outside, Api, Start, Enqueue, EnqueueFails, UndoStart, ApiDies, Cancel, Lapse,
                  StallJob, Backoff
    <3> QED  BY <2>2, <3>1 DEF Charged, Governing, answerVars
  <2>6. CASE UNCHANGED vars
    BY <2>2, <2>6 DEF vars, answerVars, Charged, Governing
  <2> QED  BY <2>4, <2>5, <2>6, NextSteps
<1> QED  BY <1>1, <1>2 DEF ChargeInv

LEMMA ChargesAlways == Spec => [](ChargeInv /\ AnswerInv)
<1>1. Init => ChargeInv
  BY DEF Init, Idle, ChargeInv, Charged
<1> QED  BY <1>1, ChargeKept, AnswersAlways, LeasesAlways, PTL DEF Spec

(* Without an error or a disruption of its run, an answer the provider was *)
(* paid for is charged to the workspace, or about to be.                   *)
THEOREM PaidAnswersAreCharged == Spec => []PaidAnswerIsCharged
<1>1. ChargeInv /\ AnswerInv => PaidAnswerIsCharged
  BY DEF ChargeInv, Charged, AnswerInv, Governing, PaidAnswerIsCharged, At
<1> QED  BY <1>1, ChargesAlways, PTL

=============================================================================
