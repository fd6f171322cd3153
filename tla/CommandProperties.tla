-------------------------- MODULE CommandProperties --------------------------
(***************************************************************************)
(* What repeated, concurrent and interrupted commands may not do.          *)
(***************************************************************************)
EXTENDS ApiCommands

(* "An identical command is already in progress": two handlers execute one *)
(* command only after the first took longer than the 15 minutes for which  *)
(* reserve() waits.                                                        *)
OneExecution ==
  \A c \in Commands :
    (\E v, w \in Workers : v # w /\ Executes(v, c) /\ Executes(w, c))
      => c \in overran

(* A command is recorded as succeeded only after its audit event and its   *)
(* work: whatever interceptor overwrites the row, no execution that        *)
(* failed or was interrupted is replayed to the user as a success.         *)
SuccessIsBacked ==
  \A c \in Commands : cmd[c] = "succeeded" =>
    /\ c \in audited
    /\ c \in Saves => receipt[c] # 0
    /\ c \in Checkouts => sid[c]

(* "Settings changed in another session": of the requests of users who     *)
(* looked at the same version at most one is applied, once, and repeating  *)
(* that one is answered with what it did (operation(), save()).            *)
NoLostUpdate ==
  \A c, d \in Saves : writes[c] > 0 =>
    /\ receipt[c] = ExpectedVersion + 1
    /\ writes[d] = IF c = d THEN 1 ELSE 0

(* At most one of the workspace's checkouts can be paid at any time        *)
(* ("Commit the intent BEFORE contacting Stripe"), whichever responses     *)
(* were lost and processes died between intent, session and record.        *)
OneOpenCheckout ==
  \A c, d \in Checkouts : stripe[c] = "open" /\ stripe[d] = "open" => c = d

(* A customer who pays is never left without a row to map the payment to   *)
(* (the webhook finds the workspace by stripe_session_id alone), and pays  *)
(* for one subscription only, unless the webhook of the first payment had  *)
(* not been processed when its checkout was over.                          *)
PaidOnce ==
  /\ \A c \in Checkouts : stripe[c] = "complete" => sid[c]
  /\ Cardinality({c \in Checkouts : stripe[c] = "complete"}) > 1 => late # {}

=============================================================================
