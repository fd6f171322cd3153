----------------------------- MODULE ApiCommands -----------------------------
(***************************************************************************)
(* State-changing requests in the API: CommandExecutionInterceptor around  *)
(* the handlers of two operations, one whose work is a single transaction  *)
(* with a receipt (the save of a settings document) and one that calls     *)
(* Stripe between two transactions (a billing checkout).  Requests are     *)
(* repeated at will by users and browsers; handlers interleave at every    *)
(* await, throw and die.                                                   *)
(***************************************************************************)
EXTENDS Commands, OperationStore, BillingCheckout

CONSTANTS
  Slots,      \* BOUND: requests in progress at once
  MaxRequests,\* BOUND: requests, in all
  MaxFaults   \* BOUND: errors and crashes, in all

ASSUME ApiAssumption ==
  /\ Slots \in Nat
  /\ MaxRequests \in Nat
  /\ MaxFaults \in Nat
  /\ Saves \intersect Checkouts = {}
  /\ Commands = Saves \union Checkouts
  /\ Rerunnable = Checkouts
  /\ NoCheckout \notin Commands

NoCommand == NoCheckout
Workers == 1 .. Slots

VARIABLES
  work,     \* the requests in progress
  requests, \* requests so far
  faults,   \* errors and crashes so far
  overran   \* HISTORY: the commands reserved for 15 minutes by a live handler

faultVars == <<faults, overran>>
vars == <<commandVars, storeVars, checkoutVars, work, requests, faultVars>>

-----------------------------------------------------------------------------
Executing == {"execute", "intent", "call", "record", "audit", "succeed", "fail"}

WorkStates == [
  pc     : {"idle", "reserve"} \union Executing,
  c      : Commands \union {NoCommand},
  known  : BOOLEAN,                         \* the intent has a session id
  answer : {"none", "open", "complete", "expired"} ]   \* Stripe's

Idle == [pc |-> "idle", c |-> NoCommand, known |-> FALSE, answer |-> "none"]

TypeOK ==
  /\ CommandsTypeOK
  /\ StoreTypeOK
  /\ CheckoutTypeOK
  /\ work \in [Workers -> WorkStates]
  /\ \A w \in Workers : work[w].pc # "idle" => work[w].c \in Commands
  /\ requests \in Nat
  /\ faults \in Nat
  /\ overran \in SUBSET Commands

Init ==
  /\ CommandsInit
  /\ StoreInit
  /\ CheckoutInit
  /\ work = [w \in Workers |-> Idle]
  /\ requests = 0
  /\ faults = 0
  /\ overran = {}

Executes(w, c) == work[w].c = c /\ work[w].pc \in Executing

At(w, pc) == work[w].pc = pc
Go(w, pc) == work' = [work EXCEPT ![w].pc = pc]
End(w) == work' = [work EXCEPT ![w] = Idle]

(* Into the interceptor's catchError. *)
Fail(w) == work' = [work EXCEPT ![w] = [Idle EXCEPT !.pc = "fail", !.c = work[w].c]]

-----------------------------------------------------------------------------
(* intercept(). *)

(* Slots are alike: a request takes the first idle one. *)
Request(w, c) ==
  /\ At(w, "idle")
  /\ \A v \in 1 .. (w - 1) : ~At(v, "idle")
  /\ requests < MaxRequests
  /\ requests' = requests + 1
  /\ work' = [work EXCEPT ![w] = [Idle EXCEPT !.pc = "reserve", !.c = c]]
  /\ UNCHANGED <<commandVars, storeVars, checkoutVars, faultVars>>

(* reserve(): execute the command, repeat its response, or 409. *)
ReserveCommand(w) ==
  LET c == work[w].c IN
  /\ At(w, "reserve")
  /\ \/ Reserve(c) /\ Go(w, IF c \in Saves THEN "execute" ELSE "intent")
     \/ (Replays(c) \/ InProgress(c)) /\ End(w) /\ UNCHANGED commandVars
  /\ UNCHANGED <<storeVars, checkoutVars, requests, faultVars>>

(* MUTANT: an audit event that cannot be written is skipped. *)
AuditBestEffort(w) ==
  /\ At(w, "audit")
  /\ AuditSuccess(work[w].c) \/ UNCHANGED commandVars
  /\ Go(w, "succeed")
  /\ UNCHANGED <<storeVars, checkoutVars, requests, faultVars>>

(* complete(): the audit event, then the row; the answer goes out. *)
Audit(w) ==
  /\ At(w, "audit")
  /\ AuditSuccess(work[w].c)
  /\ Go(w, "succeed")
  /\ UNCHANGED <<storeVars, checkoutVars, requests, faultVars>>

Succeed(w) ==
  LET c == work[w].c IN
  /\ At(w, "succeed")
  /\ SetOutcome(c, "succeeded")
  /\ IF c \in Checkouts THEN HandOut(c) ELSE UNCHANGED checkoutVars
  /\ End(w)
  /\ UNCHANGED <<storeVars, requests, faultVars>>

FailCommand(w) ==
  /\ At(w, "fail")
  /\ SetOutcome(work[w].c, "failed")
  /\ End(w)
  /\ UNCHANGED <<storeVars, checkoutVars, requests, faultVars>>

-----------------------------------------------------------------------------
(* The handlers. *)

SaveSettings(w) ==
  LET c == work[w].c IN
  /\ At(w, "execute")
  /\ \/ (Save(c) \/ Repeat(c)) /\ Go(w, "audit")
     \/ Refused(c) /\ Fail(w)
  /\ UNCHANGED <<commandVars, checkoutVars, requests, faultVars>>

CommitIntent(w) ==
  LET c == work[w].c IN
  /\ At(w, "intent")
  /\ \/ /\ Intent(c)
        /\ work' = [work EXCEPT ![w].pc = "call", ![w].known = sid[c]]
     \/ ~Admissible(c) /\ Fail(w) /\ UNCHANGED checkoutVars
  /\ UNCHANGED <<commandVars, storeVars, requests, faultVars>>

CallStripe(w) ==
  LET c == work[w].c
      Answered(answer) ==
        work' = [work EXCEPT ![w].pc = "record", ![w].known = FALSE,
                             ![w].answer = answer]
  IN
  /\ At(w, "call")
  /\ \/ work[w].known /\ Answered(stripe[c]) /\ UNCHANGED checkoutVars
     \/ ~work[w].known /\ CreateSession(c) /\ Answered("open")
     \/ ~work[w].known /\ ~Creatable(c) /\ Fail(w) /\ UNCHANGED checkoutVars
  /\ UNCHANGED <<commandVars, storeVars, requests, faultVars>>

(* MUTANT: the session id is not stored before the URL is handed out. *)
RecordNothing(w) ==
  /\ At(w, "record")
  /\ work' = [work EXCEPT ![w].pc = "audit", ![w].answer = "none"]
  /\ UNCHANGED <<commandVars, storeVars, checkoutVars, requests, faultVars>>

Record(w) ==
  LET c == work[w].c IN
  /\ At(w, "record")
  /\ RecordSession(c, work[w].answer)
  /\ IF work[w].answer = "open"
     THEN work' = [work EXCEPT ![w].pc = "audit", ![w].answer = "none"]
     ELSE Fail(w)
  /\ UNCHANGED <<commandVars, storeVars, requests, faultVars>>

-----------------------------------------------------------------------------
(* Faults. *)

Fault(w) ==
  /\ work[w].pc \in Executing
  /\ faults < MaxFaults
  /\ faults' = faults + 1

(* A statement or a call of Stripe throws, done or not done (then the      *)
(* throw comes before the next step); without the UPDATE of fail() the row *)
(* stays reserved.                                                         *)
Throw(w) ==
  /\ Fault(w)
  /\ IF At(w, "fail") THEN End(w) ELSE Fail(w)
  /\ UNCHANGED <<commandVars, storeVars, checkoutVars, requests, overran>>

Crash(w) ==
  /\ Fault(w)
  /\ End(w)
  /\ UNCHANGED <<commandVars, storeVars, checkoutVars, requests, overran>>

Age(c) ==
  /\ Grow(c)
  /\ overran' = IF \E w \in Workers : Executes(w, c)
                THEN overran \union {c} ELSE overran
  /\ UNCHANGED <<storeVars, checkoutVars, work, requests, faults>>

Environment ==
  /\ \E c \in Checkouts : Pay(c) \/ Expire(c) \/ MapSubscription(c)
  /\ UNCHANGED <<commandVars, storeVars, work, requests, faultVars>>

-----------------------------------------------------------------------------
Handle(w) ==
  \/ ReserveCommand(w) \/ Audit(w) \/ Succeed(w) \/ FailCommand(w)
  \/ SaveSettings(w) \/ CommitIntent(w) \/ CallStripe(w) \/ Record(w)

Next ==
  \/ \E w \in Workers : Handle(w) \/ Throw(w) \/ Crash(w)
  \/ \E w \in Workers, c \in Commands : Request(w, c)
  \/ \E c \in Commands : Age(c)
  \/ Environment

Spec == Init /\ [][Next]_vars

=============================================================================
