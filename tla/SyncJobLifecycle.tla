-------------------------- MODULE SyncJobLifecycle --------------------------
(***************************************************************************)
(* What a sync job promises to whoever watches its row: the life of a job  *)
(* as the API and the user see it, without leases, queue, workers or data. *)
(* "pausing" is a failure that will be retried by itself.                  *)
(***************************************************************************)
CONSTANT Jobs

VARIABLES
  phase,   \* where the job is in its life
  wish     \* the user asked to cancel, and has not asked for a retry since

lifeVars == <<phase, wish>>

Phases == {"absent", "waiting", "running", "stopping", "succeeded",
           "cancelled", "pausing", "failed"}

LifeInit ==
  /\ phase = [j \in Jobs |-> "absent"]
  /\ wish = [j \in Jobs |-> FALSE]

Become(j, p) == phase' = [phase EXCEPT ![j] = p]

Submitted(j) ==
  phase[j] = "absent" /\ Become(j, "waiting") /\ UNCHANGED wish

(* A job that failed once runs again even when its cancellation was asked  *)
(* for: it then has to notice.                                             *)
Begins(j) ==
  phase[j] \in {"waiting", "pausing"} /\ Become(j, "running") /\ UNCHANGED wish

Succeeds(j) ==
  phase[j] = "running" /\ ~wish[j] /\ Become(j, "succeeded") /\ UNCHANGED wish

Fails(j) ==
  /\ phase[j] \in {"running", "stopping"}
  /\ \E p \in {"pausing", "failed"} : Become(j, p)
  /\ UNCHANGED wish

CancelAsked(j) ==
  /\ phase[j] \in {"waiting", "running"}
  /\ Become(j, "stopping")
  /\ wish' = [wish EXCEPT ![j] = TRUE]

Cancels(j) ==
  /\ phase[j] \in {"running", "stopping"}
  /\ wish[j]
  /\ Become(j, "cancelled")
  /\ UNCHANGED wish

RetryAsked(j) ==
  /\ phase[j] \in {"pausing", "failed"}
  /\ Become(j, "waiting")
  /\ wish' = [wish EXCEPT ![j] = FALSE]

RetryRefused(j) ==
  /\ phase[j] = "waiting"
  /\ \E p \in {"pausing", "failed"} : Become(j, p)
  /\ UNCHANGED wish

LifeNext ==
  \E j \in Jobs :
    \/ Submitted(j) \/ Begins(j) \/ Succeeds(j) \/ Fails(j)
    \/ CancelAsked(j) \/ Cancels(j)
    \/ RetryAsked(j) \/ RetryRefused(j)

LifeSpec == LifeInit /\ [][LifeNext]_lifeVars

=============================================================================
