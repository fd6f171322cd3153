---------------------------- MODULE BillingCheckout ----------------------------
(***************************************************************************)
(* The checkout of one workspace: the rows of                              *)
(* app.billing_checkout_sessions, one per request id, the checkout         *)
(* sessions that Stripe holds under that request's idempotency key, and    *)
(* the workspace's subscription.  Each operator is one transaction or one  *)
(* call of Stripe.  StripeProjection has the webhook's side in detail.     *)
(***************************************************************************)
EXTENDS Naturals, FiniteSets

CONSTANTS
  Checkouts,   \* request ids
  NoCheckout

ASSUME CheckoutAssumption == NoCheckout \notin Checkouts

VARIABLES
  attempt,   \* billing_checkout_sessions.status
  sid,       \* stripe_session_id IS NOT NULL
  over,      \* expires_at <= now(), the same instant for the row and Stripe
  stripe,    \* EXTERNAL: the status of Stripe's checkout session
  url,       \* the checkouts whose URL a user has
  mapped,    \* the checkout that workspace_subscriptions points to
  late       \* HISTORY: checkouts that were paid for, but not mapped, when over

checkoutVars == <<attempt, sid, over, stripe, url, mapped, late>>

CheckoutTypeOK ==
  /\ attempt \in [Checkouts ->
                    {"none", "preparing", "open", "complete", "expired"}]
  /\ sid \in [Checkouts -> BOOLEAN]
  /\ over \in [Checkouts -> BOOLEAN]
  /\ stripe \in [Checkouts -> {"none", "open", "complete", "expired"}]
  /\ url \in SUBSET Checkouts
  /\ mapped \in Checkouts \union {NoCheckout}
  /\ late \in SUBSET Checkouts

CheckoutInit ==
  /\ attempt = [c \in Checkouts |-> "none"]
  /\ sid = [c \in Checkouts |-> FALSE]
  /\ over = [c \in Checkouts |-> FALSE]
  /\ stripe = [c \in Checkouts |-> "none"]
  /\ url = {}
  /\ mapped = NoCheckout
  /\ late = {}

-----------------------------------------------------------------------------
(* session(): the transaction under the workspace's row lock. *)

(* MUTANT: an attempt counts once Stripe has answered. *)
BlocksOnceAnswered(c) ==
  attempt[c] = "complete" \/ (attempt[c] = "open" /\ ~over[c])

Blocks(c) ==
  attempt[c] = "complete" \/ (attempt[c] \in {"preparing", "open"} /\ ~over[c])

Admissible(c) ==
  /\ mapped = NoCheckout
  /\ \A d \in Checkouts \ {c} : ~Blocks(d)
  /\ attempt[c] # "expired" /\ ~over[c]

Intent(c) ==
  /\ Admissible(c)
  /\ attempt' = [attempt EXCEPT ![c] = IF @ = "none" THEN "preparing" ELSE @]
  /\ UNCHANGED <<sid, over, stripe, url, mapped, late>>

(* POST /checkout/sessions with the request's idempotency key: Stripe      *)
(* creates the session or repeats its first answer, in which it is open.   *)
(* It creates none that is over already.                                   *)
Creatable(c) == stripe[c] # "none" \/ ~over[c]

CreateSession(c) ==
  /\ Creatable(c)
  /\ stripe' = [stripe EXCEPT ![c] = IF @ = "none" THEN "open" ELSE @]
  /\ UNCHANGED <<attempt, sid, over, url, mapped, late>>

(* The UPDATE with Stripe's answer, whatever the row's status is by now. *)
RecordSession(c, answer) ==
  /\ sid' = [sid EXCEPT ![c] = TRUE]
  /\ attempt' = [attempt EXCEPT ![c] = answer]
  /\ UNCHANGED <<over, stripe, url, mapped, late>>

HandOut(c) ==
  /\ url' = url \union {c}
  /\ UNCHANGED <<attempt, sid, over, stripe, mapped, late>>

-----------------------------------------------------------------------------
(* The customer, the clock and the worker. *)

Pay(c) ==
  /\ c \in url
  /\ stripe[c] = "open"
  /\ stripe' = [stripe EXCEPT ![c] = "complete"]
  /\ UNCHANGED <<attempt, sid, over, url, mapped, late>>

Expire(c) ==
  /\ attempt[c] # "none"
  /\ ~over[c]
  /\ over' = [over EXCEPT ![c] = TRUE]
  /\ stripe' = [stripe EXCEPT ![c] = IF @ = "open" THEN "expired" ELSE @]
  /\ late' = IF stripe[c] = "complete" /\ mapped # c THEN late \union {c} ELSE late
  /\ UNCHANGED <<attempt, sid, url, mapped>>

(* projectStripeBilling of checkout.session.completed. *)
MapSubscription(c) ==
  /\ stripe[c] = "complete"
  /\ sid[c]
  /\ mapped' = c
  /\ attempt' = [attempt EXCEPT ![c] = "complete"]
  /\ UNCHANGED <<sid, over, stripe, url, late>>

=============================================================================
