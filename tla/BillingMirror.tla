----------------------------- MODULE BillingMirror -----------------------------
(***************************************************************************)
(* What the projection of Stripe's events promises: the workspace's row    *)
(* shows a state that the subscription has had, and never an older one     *)
(* than it showed before.                                                  *)
(***************************************************************************)
EXTENDS Naturals

VARIABLES
  truth,   \* how often the subscription has changed at Stripe
  shown    \* the change after which the row's state was current, 0: no row

MirrorInit == truth = 0 /\ shown = 0

Change == truth' = truth + 1 /\ UNCHANGED shown

CatchUp == shown' \in shown .. truth /\ UNCHANGED truth

MirrorSpec == MirrorInit /\ [][Change \/ CatchUp]_<<truth, shown>>

=============================================================================
