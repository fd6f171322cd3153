------------------------- MODULE AssistantProperties -------------------------
(***************************************************************************)
(* What the assistant's generation runs promise, and until when.           *)
(***************************************************************************)
EXTENDS AssistantRuns

(* Two workers generate the answer of one run only after its lease lapsed  *)
(* under a live worker: a stalled delivery alone, with the lease renewed,  *)
(* must not start a second provider call                                   *)
(* (processAssistantGeneration's claim).                                   *)
Generating(w, g) == work[w].run = g /\ work[w].pc \in GenerationSteps

ExclusiveWhileLeased ==
  \A g \in Generations :
    (\E v, w \in Workers : v # w /\ Generating(v, g) /\ Generating(w, g))
      => g \in overran

(* As long as no attempt has thrown and no settlement was lost, a run the  *)
(* user cancelled stays cancelled, whatever workers, late deliveries and   *)
(* heartbeats do (the catch block settles a row it read earlier).          *)
CancelStands ==
  errors = 0 => \A g \in stopped : status[g] = "cancelled"

(* start() counts the active runs of the workspace under a lock; the rows  *)
(* it counts are written by workers without that lock.  As long as no      *)
(* attempt has thrown, at most one run of the workspace is active.         *)
OneActiveRun ==
  errors = 0 => \A g, h \in Generations :
                  status[g] \in Active /\ status[h] \in Active => g = h

(* A run is reported completed only when its answer is in the conversation *)
(* and the answer's governance event is written or still being written by  *)
(* a worker, or a disruption took that worker away.                        *)
CompletedIsAnswered ==
  \A g \in Generations :
    status[g] = "completed" =>
      /\ message[g] # "none"
      /\ \/ cost[g] # "none"
         \/ \E w \in Workers : work[w].run = g /\ At(w, "govern")
         \/ errors > 0 \/ g \in disrupted

(* An answer the provider was paid for is charged to the workspace's       *)
(* budget, unless an error or a disruption came between storing the answer *)
(* and recording its cost (RecordCost is a transaction of its own).        *)
PaidAnswerIsCharged ==
  errors = 0 =>
    \A g \in Generations \ disrupted :
      message[g] = "answer" =>
        \/ cost[g] = "reported"
        \/ \E w \in Workers : work[w].run = g /\ At(w, "govern") /\ work[w].paid

(* The answer of a run is final, whoever else generates one, and so is a   *)
(* completed or failed row, however late a worker settles it.              *)
OutcomeIsFinal ==
  [][ \A g \in Generations :
        /\ message[g] # "none" => message'[g] = message[g]
        /\ cost[g] # "none" => cost'[g] = cost[g]
        /\ status[g] \in {"completed", "failed"} => status'[g] = status[g] ]_vars

(* A started run settles: attempts end, and the queue delivers each        *)
(* interrupted run again until the attempts are used up, which fails it.   *)
(* After a disruption it need not: a redelivery that comes before the      *)
(* lease lapses gives the run up, a claim that throws at the last attempt  *)
(* leaves it as it is, and nobody looks again until the user cancels.      *)
EveryRunSettles ==
  \A g \in Generations :
    status[g] \in Active ~> (status[g] \notin Active \/ g \in disrupted)

=============================================================================
