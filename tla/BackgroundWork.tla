---------------------------- MODULE BackgroundWork ----------------------------
(***************************************************************************)
(* The worker's background work, one part per behaviour: the mail outbox,  *)
(* the reprocess jobs, the hourly schedule, the projection of Stripe's     *)
(* events, the dispatch of syncs, report exports and privacy requests.     *)
(* The parts share processes but no state, so that no interleaving of two  *)
(* of them shows more than each part by itself: a behaviour picks one      *)
(* part, and the other parts stand still.                                  *)
(***************************************************************************)
EXTENDS AccessMail, MetricReprocessing, PlatformSchedule, StripeProjection,
        SyncDispatch, ReportExports, PrivacyRequests

VARIABLE part

vars == <<part, mailVars, reprocessVars, scheduleVars, stripeVars, dispatchVars,
          reportVars, privacyVars>>

Parts == {"mail", "reprocess", "schedule", "stripe", "dispatch", "report", "privacy"}

TypeOK ==
  /\ part \in Parts
  /\ MailTypeOK
  /\ ReprocessTypeOK
  /\ ScheduleTypeOK
  /\ StripeTypeOK
  /\ DispatchTypeOK
  /\ ReportTypeOK
  /\ PrivacyTypeOK

Init ==
  /\ part \in Parts
  /\ MailInit
  /\ ReprocessInit
  /\ ScheduleInit
  /\ StripeInit
  /\ DispatchInit
  /\ ReportInit /\ (part # "report" => ~snapshots)
  /\ PrivacyInit

MailPart ==
  /\ part = "mail" /\ MailNext
  /\ UNCHANGED <<part, reprocessVars, scheduleVars, stripeVars, dispatchVars,
                 reportVars, privacyVars>>

ReprocessPart ==
  /\ part = "reprocess" /\ ReprocessNext
  /\ UNCHANGED <<part, mailVars, scheduleVars, stripeVars, dispatchVars,
                 reportVars, privacyVars>>

SchedulePart ==
  /\ part = "schedule" /\ ScheduleNext
  /\ UNCHANGED <<part, mailVars, reprocessVars, stripeVars, dispatchVars,
                 reportVars, privacyVars>>

StripePart ==
  /\ part = "stripe" /\ StripeNext
  /\ UNCHANGED <<part, mailVars, reprocessVars, scheduleVars, dispatchVars,
                 reportVars, privacyVars>>

DispatchPart ==
  /\ part = "dispatch" /\ DispatchNext
  /\ UNCHANGED <<part, mailVars, reprocessVars, scheduleVars, stripeVars,
                 reportVars, privacyVars>>

ReportPart ==
  /\ part = "report" /\ ReportNext
  /\ UNCHANGED <<part, mailVars, reprocessVars, scheduleVars, stripeVars,
                 dispatchVars, privacyVars>>

PrivacyPart ==
  /\ part = "privacy" /\ PrivacyNext
  /\ UNCHANGED <<part, mailVars, reprocessVars, scheduleVars, stripeVars,
                 dispatchVars, reportVars>>

Next ==
  \/ MailPart \/ ReprocessPart \/ SchedulePart \/ StripePart \/ DispatchPart
  \/ ReportPart \/ PrivacyPart

(* The fairness of each part, for the behaviours in which it acts. *)
Fairness ==
  /\ WF_mailVars(part = "mail" /\ MailSteps)
  /\ \A w \in Workers : WF_reprocessVars(part = "reprocess" /\ DrainSteps(w))
  /\ WF_stripeVars(part = "stripe" /\ StripeSteps)
  /\ WF_dispatchVars(part = "dispatch" /\ DispatcherSteps)
  /\ \A r \in Receivers : WF_dispatchVars(part = "dispatch" /\ ReceiveWork(r))
  /\ WF_dispatchVars(part = "dispatch" /\ SyncSteps)
  /\ WF_privacyVars(part = "privacy" /\ PrivacySteps)

Spec == Init /\ [][Next]_vars /\ Fairness

=============================================================================
