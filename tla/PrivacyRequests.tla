---------------------------- MODULE PrivacyRequests ----------------------------
(***************************************************************************)
(* One row of app.privacy_requests, its rows of privacy_request_targets    *)
(* and the evidence object: PrivacyService.approve commits the approval,   *)
(* enqueues the job and then marks the row queued; processPrivacy stores   *)
(* the evidence and writes one target after the other, each in a           *)
(* transaction of its own that nothing fences.  Every evaluation differs   *)
(* (evaluatedAt), so evidence is numbered.                                 *)
(***************************************************************************)
EXTENDS PlatformJobs

CONSTANT Systems   \* how many systems a request has as its targets

ASSUME PrivacyAssumption == Systems \in Nat

VARIABLES
  privacy,      \* status of the request
  approving,    \* what approve() does next
  evidence,     \* the object under the request's evidence key, 0 when none
  evaluated,    \* evidence stored so far
  target,       \* the evidence each target's row refers to, 0 when none
  handling,     \* processPrivacy of each worker: its step and its evidence
  privacyJob, privacyHolder, privacyTries, privacyStalls,   \* see JobQueue
  approvalLost, \* HISTORY: approve() ended before it reached the queue
  unsettled,    \* HISTORY: an attempt has replaced the evidence and ended early
  shared,       \* HISTORY: two attempts have overlapped
  privacyFaults

privacyJobVars == <<privacyJob, privacyHolder, privacyTries, privacyStalls>>
privacyVars == <<privacy, approving, evidence, evaluated, target, handling,
                 privacyJobVars, approvalLost, unsettled, shared, privacyFaults>>

-----------------------------------------------------------------------------
PrivacyQueue == INSTANCE JobQueue
                  WITH Jobs <- {TheJob}, Runs <- Workers, NoRun <- NoProcess,
                       MaxHead <- 0, MaxAttempts <- JobAttempts,
                       MaxStalls <- JobStalls, q <- privacyJob,
                       holder <- privacyHolder, made <- privacyTries,
                       stalls <- privacyStalls

(* targets in privacy.service.ts, in the order in which processPrivacy     *)
(* writes them.                                                            *)
Targets == 1 .. Systems

NotHandling == [pc |-> "idle", next |-> 0, artifact |-> 0]

PrivacyTypeOK ==
  /\ privacy \in
       {"identity_verification_pending", "approved", "queued", "partial"}
  /\ approving \in {"idle", "enqueue", "mark"}
  /\ evidence \in Nat
  /\ evaluated \in Nat
  /\ target \in [Targets -> Nat]
  /\ handling \in [Workers -> [pc : {"idle", "put", "targets", "done"},
                               next : Nat, artifact : Nat]]
  /\ PrivacyQueue!QueueTypeOK
  /\ approvalLost \in BOOLEAN
  /\ unsettled \in BOOLEAN
  /\ shared \in BOOLEAN
  /\ privacyFaults \in 0 .. MaxJobFaults

PrivacyInit ==
  /\ privacy = "identity_verification_pending"
  /\ approving = "idle"
  /\ evidence = 0
  /\ evaluated = 0
  /\ target = [t \in Targets |-> 0]
  /\ handling = [w \in Workers |-> NotHandling]
  /\ PrivacyQueue!QueueInit
  /\ approvalLost = FALSE
  /\ unsettled = FALSE
  /\ shared = FALSE
  /\ privacyFaults = 0

PrivacyFault ==
  privacyFaults < MaxJobFaults /\ privacyFaults' = privacyFaults + 1

-----------------------------------------------------------------------------
(* PrivacyService.approve *)

(* The approval and the verification it consumes, one transaction under    *)
(* FOR UPDATE of both: a second approval is refused.                       *)
Approve ==
  /\ privacy = "identity_verification_pending"
  /\ privacy' = "approved"
  /\ approving' = "enqueue"
  /\ UNCHANGED <<evidence, evaluated, target, handling, privacyJobVars,
                 approvalLost, unsettled, shared, privacyFaults>>

EnqueuePrivacy ==
  /\ approving = "enqueue"
  /\ PrivacyQueue!Add(TheJob)
  /\ approving' = "mark"
  /\ UNCHANGED <<privacy, evidence, evaluated, target, handling,
                 approvalLost, unsettled, shared, privacyFaults>>

(* MUTANT: markQueued does not look at the status. *)
AnyStatus == TRUE

IsApproved == privacy = "approved"

(* markQueued: a worker may have finished the request by then. *)
MarkQueued ==
  /\ approving = "mark"
  /\ approving' = "idle"
  /\ privacy' = IF IsApproved THEN "queued" ELSE privacy
  /\ UNCHANGED <<evidence, evaluated, target, handling, privacyJobVars,
                 approvalLost, unsettled, shared, privacyFaults>>

(* A call fails or the API dies: nothing repeats the rest of approve(), as *)
(* the request is no longer pending.                                       *)
ApproveFails ==
  /\ approving # "idle"
  /\ PrivacyFault
  /\ approving' = "idle"
  /\ approvalLost' = (approvalLost \/ approving = "enqueue")
  /\ UNCHANGED <<privacy, evidence, evaluated, target, handling,
                 privacyJobVars, unsettled, shared>>

-----------------------------------------------------------------------------
(* processPrivacy *)

Handling(w) == handling[w].pc \in {"put", "targets"}

StartPrivacy(w) ==
  /\ handling[w].pc = "idle"
  /\ PrivacyQueue!Deliver(TheJob, w)
  /\ handling' = [handling EXCEPT ![w].pc = "put"]
  /\ shared' = (shared \/ \E v \in Workers : Handling(v))
  /\ UNCHANGED <<privacy, approving, evidence, evaluated, target,
                 approvalLost, unsettled, privacyFaults>>

PutEvidence(w) ==
  /\ handling[w].pc = "put"
  /\ evaluated' = evaluated + 1
  /\ evidence' = evaluated + 1
  /\ handling' = [handling EXCEPT
       ![w] = [pc |-> "targets", next |-> 1, artifact |-> evaluated + 1]]
  /\ UNCHANGED <<privacy, approving, target, privacyJobVars, approvalLost,
                 unsettled, shared, privacyFaults>>

(* MUTANT: a target that has evidence is left alone. *)
IfMissing(t, artifact) == IF target[t] = 0 THEN artifact ELSE target[t]

Evidence(t, artifact) == artifact

(* updateTarget, one transaction per system. *)
UpdateTarget(w) ==
  LET t == handling[w].next IN
  /\ handling[w].pc = "targets"
  /\ t \in Targets
  /\ target' = [target EXCEPT ![t] = Evidence(t, handling[w].artifact)]
  /\ handling' = [handling EXCEPT ![w].next = @ + 1]
  /\ UNCHANGED <<privacy, approving, evidence, evaluated, privacyJobVars,
                 approvalLost, unsettled, shared, privacyFaults>>

(* The last UPDATE has no condition on the status. *)
MarkPartial(w) ==
  /\ handling[w].pc = "targets"
  /\ handling[w].next \notin Targets
  /\ privacy' = "partial"
  /\ handling' = [handling EXCEPT ![w].pc = "done"]
  /\ unsettled' = FALSE
  /\ UNCHANGED <<approving, evidence, evaluated, target, privacyJobVars,
                 approvalLost, shared, privacyFaults>>

CompletePrivacy(w) ==
  /\ handling[w].pc = "done"
  /\ PrivacyQueue!Complete(TheJob, w)
  /\ handling' = [handling EXCEPT ![w] = NotHandling]
  /\ UNCHANGED <<privacy, approving, evidence, evaluated, target,
                 approvalLost, unsettled, shared, privacyFaults>>

(* What remains of an attempt that ends early. *)
Abandon(w) ==
  /\ handling' = [handling EXCEPT ![w] = NotHandling]
  /\ unsettled' = (unsettled \/ Handling(w))
  /\ UNCHANGED <<privacy, approving, target, approvalLost, shared>>

(* A statement fails, or the upload: it may have happened. *)
PrivacyThrows(w) ==
  /\ Handling(w)
  /\ PrivacyFault
  /\ PrivacyQueue!FailAttempt(TheJob, w)
  /\ Abandon(w)
  /\ \/ UNCHANGED <<evidence, evaluated>>
     \/ /\ handling[w].pc = "put"
        /\ evaluated' = evaluated + 1
        /\ evidence' = evaluated + 1

CrashPrivacy(w) ==
  /\ handling[w].pc # "idle"
  /\ PrivacyFault
  /\ PrivacyQueue!Orphan({w})
  /\ Abandon(w)
  /\ UNCHANGED <<evidence, evaluated>>

OrphanedPrivacy ==
  privacyJob[TheJob] = "active" /\ privacyHolder[TheJob] = NoProcess

StallPrivacy ==
  /\ PrivacyQueue!Stall(TheJob)
  /\ IF OrphanedPrivacy THEN UNCHANGED privacyFaults ELSE PrivacyFault
  /\ UNCHANGED <<privacy, approving, evidence, evaluated, target, handling,
                 approvalLost, unsettled, shared>>

RetryPrivacy ==
  /\ PrivacyQueue!Promote(TheJob)
  /\ UNCHANGED <<privacy, approving, evidence, evaluated, target, handling,
                 approvalLost, unsettled, shared, privacyFaults>>

-----------------------------------------------------------------------------
HandleSteps(w) ==
  \/ StartPrivacy(w) \/ PutEvidence(w) \/ UpdateTarget(w)
  \/ MarkPartial(w) \/ CompletePrivacy(w)

PrivacyNext ==
  \/ Approve \/ EnqueuePrivacy \/ MarkQueued \/ ApproveFails
  \/ StallPrivacy \/ RetryPrivacy
  \/ \E w \in Workers : HandleSteps(w) \/ PrivacyThrows(w) \/ CrashPrivacy(w)

(* approve() goes on, the queue delivers, an attempt's calls return. *)
PrivacySteps ==
  \/ EnqueuePrivacy \/ MarkQueued \/ RetryPrivacy
  \/ (OrphanedPrivacy /\ StallPrivacy)
  \/ \E w \in Workers : HandleSteps(w)

PrivacySpec ==
  PrivacyInit /\ [][PrivacyNext]_privacyVars /\ WF_privacyVars(PrivacySteps)

-----------------------------------------------------------------------------
(* The evidence that the targets refer to by checksum is the one that is   *)
(* stored: although object and targets are written one by one, a retry or  *)
(* a redelivery of the job ends with all of them at its own evidence.      *)
(* Excepted are attempts that ended early after the request was done, and  *)
(* attempts of two workers that overlapped.                                *)
EvidenceIsStored ==
  /\ privacy = "partial"
  /\ \A w \in Workers : ~Handling(w)
  /\ ~unsettled /\ ~shared
  => \A t \in Targets : target[t] = evidence

(* An approved request ends, and stays, partial, whichever of the worker   *)
(* and approve() is the faster: unless its job fails for good, or approve  *)
(* never reached the queue; nothing makes up for that.                     *)
ApprovedEndsPartial ==
  privacy = "approved" ~>
    [](privacy = "partial" \/ privacyJob[TheJob] = "failed" \/ approvalLost)

=============================================================================
