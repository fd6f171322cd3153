----------------------------- MODULE CommandProofs -----------------------------
(***************************************************************************)
(* Theorems of ApiCommands, for any number of requests, slots and faults.  *)
(***************************************************************************)
EXTENDS CommandProperties, FiniteSetTheorems, TLAPS

-----------------------------------------------------------------------------
(* A handler has a command, and is at a step of that command's operation.  *)
Fits(s) ==
  /\ s \in WorkStates
  /\ s.pc # "idle" => s.c \in Commands
  /\ s.pc = "execute" => s.c \in Saves
  /\ s.pc \in {"intent", "call", "record"} => s.c \in Checkouts

TypeInv ==
  /\ TypeOK
  /\ \A w \in Workers : Fits(work[w])

(* The steps of one handler, for proofs that look at one at a time. *)
Step(w) ==
  \/ ReserveCommand(w) \/ Audit(w) \/ Succeed(w) \/ FailCommand(w)
  \/ SaveSettings(w) \/ CommitIntent(w) \/ CallStripe(w) \/ Record(w)
  \/ Throw(w) \/ Crash(w) \/ \E c \in Commands : Request(w, c)

LEMMA TypesInitially == Init => TypeInv
<1> SUFFICES ASSUME Init PROVE TypeInv
  OBVIOUS
<1> USE ApiAssumption, CommandsAssumption, CheckoutAssumption DEF Init
<1>1. CommandsTypeOK
  BY DEF CommandsInit, CommandsTypeOK
<1>2. StoreTypeOK
  BY DEF StoreInit, StoreTypeOK
<1>3. CheckoutTypeOK
  BY DEF CheckoutInit, CheckoutTypeOK
<1>4. Idle \in WorkStates
  BY DEF Idle, WorkStates, NoCommand
<1>5. \A w \in Workers : work[w] = Idle
  OBVIOUS
<1> QED  BY <1>1, <1>2, <1>3, <1>4, <1>5 DEF TypeInv, TypeOK, Idle, Fits

(* The rows of the commands keep their types. *)
LEMMA CommandsTyped ==
  ASSUME CommandsTypeOK, NEW c \in Commands,
         \/ Reserve(c) \/ AuditSuccess(c) \/ Grow(c) \/ UNCHANGED commandVars
         \/ \E outcome \in {"succeeded", "failed"} : SetOutcome(c, outcome)
  PROVE  CommandsTypeOK'
BY DEF CommandsTypeOK, Reserve, AuditSuccess, Grow, SetOutcome, commandVars

LEMMA StoreTyped ==
  ASSUME StoreTypeOK, NEW c \in Saves,
         Save(c) \/ Repeat(c) \/ Refused(c)
  PROVE  StoreTypeOK'
BY DEF StoreTypeOK, Save, Repeat, Refused, storeVars

LEMMA CheckoutTyped ==
  ASSUME CheckoutTypeOK, NEW c \in Checkouts,
         \/ Intent(c) \/ CreateSession(c) \/ HandOut(c) \/ Pay(c) \/ Expire(c)
         \/ MapSubscription(c)
         \/ \E answer \in {"none", "open", "complete", "expired"} :
              RecordSession(c, answer)
  PROVE  CheckoutTypeOK'
<1> USE DEF CheckoutTypeOK
<1>1. CASE Intent(c)
  BY <1>1 DEF Intent
<1>2. CASE CreateSession(c)
  BY <1>2 DEF CreateSession
<1>3. CASE HandOut(c)
  BY <1>3 DEF HandOut
<1>4. CASE Pay(c)
  BY <1>4 DEF Pay
<1>5. CASE Expire(c)
  BY <1>5 DEF Expire
<1>6. CASE MapSubscription(c)
  BY <1>6 DEF MapSubscription
<1>7. CASE \E answer \in {"none", "open", "complete", "expired"} :
             RecordSession(c, answer)
  BY <1>7 DEF RecordSession
<1> QED  BY <1>1, <1>2, <1>3, <1>4, <1>5, <1>6, <1>7

(* A step leaves the other handlers where they are, and its own handler at *)
(* a step that fits its command.                                           *)
LEMMA WorkTyped ==
  ASSUME TypeInv, NEW w \in Workers, Step(w)
  PROVE  work' = [work EXCEPT ![w] = work'[w]] /\ Fits(work'[w])
<1> DEFINE S == work[w]
<1>1. Fits(S) /\ work \in [Workers -> WorkStates]
  BY DEF TypeInv, TypeOK
<1>2. ASSUME NEW s, Fits(s), work' = [work EXCEPT ![w] = s]
      PROVE  work' = [work EXCEPT ![w] = work'[w]] /\ Fits(work'[w])
  BY <1>1, <1>2
<1>3. Fits(Idle)
  BY DEF Fits, Idle, WorkStates, NoCommand, Executing
<1>4. ASSUME S.pc # "idle" PROVE Fits([Idle EXCEPT !.pc = "fail", !.c = S.c])
  BY <1>1, <1>4 DEF Fits, Idle, WorkStates, Executing
<1>5. CASE ReserveCommand(w)
  <2>1. CASE End(w)
    BY <1>2, <1>3, <2>1 DEF End
  <2>2. CASE Go(w, IF S.c \in Saves THEN "execute" ELSE "intent")
    <3>1. Fits([S EXCEPT !.pc = IF S.c \in Saves THEN "execute" ELSE "intent"])
      BY <1>1, <1>5, ApiAssumption DEF Fits, ReserveCommand, At, WorkStates, Executing
    <3> QED  BY <1>2, <2>2, <3>1 DEF Go
  <2> QED  BY <1>5, <2>1, <2>2 DEF ReserveCommand
<1>6. CASE Audit(w)
  <2>1. Fits([S EXCEPT !.pc = "succeed"])
    BY <1>1, <1>6 DEF Fits, Audit, At, WorkStates, Executing
  <2> QED  BY <1>2, <1>6, <2>1 DEF Audit, Go
<1>7. CASE Succeed(w) \/ FailCommand(w) \/ Crash(w)
  BY <1>2, <1>3, <1>7 DEF Succeed, FailCommand, Crash, End
<1>8. CASE SaveSettings(w)
  <2>1. Fits([S EXCEPT !.pc = "audit"]) /\ S.pc # "idle"
    BY <1>1, <1>8 DEF Fits, SaveSettings, At, WorkStates, Executing
  <2> QED  BY <1>2, <1>4, <1>8, <2>1 DEF SaveSettings, Go, Fail
<1>9. CASE CommitIntent(w)
  <2>1. S.pc = "intent" /\ sid[S.c] \in BOOLEAN
    BY <1>1, <1>9 DEF CommitIntent, At, Fits, TypeInv, TypeOK, CheckoutTypeOK
  <2>2. Fits([S EXCEPT !.pc = "call", !.known = sid[S.c]])
    BY <1>1, <2>1 DEF Fits, WorkStates, Executing
  <2> QED  BY <1>2, <1>4, <1>9, <2>1, <2>2 DEF CommitIntent, Fail
<1>10. CASE CallStripe(w)
  <2>1. S.pc = "call" /\ stripe[S.c] \in {"none", "open", "complete", "expired"}
    BY <1>1, <1>10 DEF CallStripe, At, Fits, TypeInv, TypeOK, CheckoutTypeOK
  <2>2. ASSUME NEW a \in {"none", "open", "complete", "expired"}
        PROVE  Fits([S EXCEPT !.pc = "record", !.known = FALSE, !.answer = a])
    BY <1>1, <2>1, <2>2 DEF Fits, WorkStates, Executing
  <2>3. CASE work' = [work EXCEPT ![w].pc = "record", ![w].known = FALSE,
                                  ![w].answer = stripe[S.c]]
    BY <1>2, <2>1, <2>2, <2>3
  <2>4. CASE work' = [work EXCEPT ![w].pc = "record", ![w].known = FALSE,
                                  ![w].answer = "open"]
    BY <1>2, <2>2, <2>4
  <2>5. CASE Fail(w)
    BY <1>2, <1>4, <2>1, <2>5 DEF Fail
  <2> QED  BY <1>10, <2>3, <2>4, <2>5 DEF CallStripe
<1>11. CASE Record(w)
  <2>1. Fits([S EXCEPT !.pc = "audit", !.answer = "none"]) /\ S.pc # "idle"
    BY <1>1, <1>11 DEF Fits, Record, At, WorkStates, Executing
  <2> QED  BY <1>2, <1>4, <1>11, <2>1 DEF Record, Fail
<1>12. CASE Throw(w)
  <2>1. S.pc # "idle"
    BY <1>12 DEF Throw, Fault, Executing
  <2> QED  BY <1>2, <1>3, <1>4, <1>12, <2>1 DEF Throw, Fail, End
<1>13. CASE \E c \in Commands : Request(w, c)
  <2>1. PICK c \in Commands : Request(w, c)
    BY <1>13
  <2>2. Fits([Idle EXCEPT !.pc = "reserve", !.c = c])
    BY DEF Fits, Idle, WorkStates, Executing
  <2> QED  BY <1>2, <2>1, <2>2 DEF Request
<1> QED
  BY <1>5, <1>6, <1>7, <1>8, <1>9, <1>10, <1>11, <1>12, <1>13 DEF Step

(* What a step does besides moving its handler.                            *)
LEMMA NextSteps ==
  ASSUME [Next]_vars
  PROVE  \/ \E w \in Workers : Step(w)
         \/ \E c \in Commands : Age(c)
         \/ Environment
         \/ UNCHANGED vars
BY DEF Next, Handle, Step

LEMMA TypesKept == TypeInv /\ [Next]_vars => TypeInv'
<1> SUFFICES ASSUME TypeInv, [Next]_vars PROVE TypeInv'
  OBVIOUS
<1> USE ApiAssumption DEF TypeInv, TypeOK
<1>1. CASE \E w \in Workers : Step(w)
  <2>1. PICK w \in Workers : Step(w)
    BY <1>1
  <2>2. work' \in [Workers -> WorkStates] /\ \A v \in Workers : Fits(work'[v])
    BY <2>1, WorkTyped DEF Fits
  <2>3. Fits(work[w]) /\ work[w] \in WorkStates
    OBVIOUS
  <2>4. CommandsTypeOK'
    <3>1. CASE ReserveCommand(w)
      BY <2>3, <3>1, CommandsTyped DEF ReserveCommand, At, Fits
    <3>2. CASE Audit(w)
      BY <2>3, <3>2, CommandsTyped DEF Audit, At, Fits
    <3>3. CASE Succeed(w)
      BY <2>3, <3>3, CommandsTyped DEF Succeed, At, Fits
    <3>4. CASE FailCommand(w)
      BY <2>3, <3>4, CommandsTyped DEF FailCommand, At, Fits
    <3>5. CASE UNCHANGED commandVars
      BY <3>5 DEF CommandsTypeOK, commandVars
    <3> QED
      BY <2>1, <3>1, <3>2, <3>3, <3>4, <3>5
      DEF Step, SaveSettings, CommitIntent, CallStripe, Record, Throw, Crash, Request
  <2>5. StoreTypeOK'
    <3>1. CASE SaveSettings(w)
      BY <2>3, <3>1, StoreTyped DEF SaveSettings, At, Fits
    <3>2. CASE UNCHANGED storeVars
      BY <3>2 DEF StoreTypeOK, storeVars
    <3> QED
      BY <2>1, <3>1, <3>2
      DEF Step, ReserveCommand, Audit, Succeed, FailCommand, CommitIntent, CallStripe,
          Record, Throw, Crash, Request
  <2>6. CheckoutTypeOK'
    <3>1. CASE Succeed(w)
      BY <2>3, <3>1, CheckoutTyped DEF Succeed, At, Fits, checkoutVars, CheckoutTypeOK
    <3>2. CASE CommitIntent(w)
      BY <2>3, <3>2, CheckoutTyped DEF CommitIntent, At, Fits, checkoutVars, CheckoutTypeOK
    <3>3. CASE CallStripe(w)
      BY <2>3, <3>3, CheckoutTyped DEF CallStripe, At, Fits, checkoutVars, CheckoutTypeOK
    <3>4. CASE Record(w)
      BY <2>3, <3>4, CheckoutTyped DEF Record, At, Fits, WorkStates
    <3>5. CASE UNCHANGED checkoutVars
      BY <3>5 DEF CheckoutTypeOK, checkoutVars
    <3> QED
      BY <2>1, <3>1, <3>2, <3>3, <3>4, <3>5
      DEF Step, ReserveCommand, Audit, FailCommand, SaveSettings, Throw, Crash, Request
  <2>7. requests' \in Nat /\ faults' \in Nat /\ overran' = overran
    <3>1. CASE Throw(w) \/ Crash(w)
      BY <3>1 DEF Throw, Crash, Fault
    <3>2. CASE \E c \in Commands : Request(w, c)
      BY <3>2 DEF Request, faultVars
    <3> QED
      BY <2>1, <3>1, <3>2
      DEF Step, ReserveCommand, Audit, Succeed, FailCommand, SaveSettings, CommitIntent,
          CallStripe, Record, faultVars
  <2> QED  BY <2>2, <2>4, <2>5, <2>6, <2>7 DEF Fits
<1>2. CASE \E c \in Commands : Age(c)
  <2>1. PICK c \in Commands : Age(c)
    BY <1>2
  <2>2. CommandsTypeOK'
    BY <2>1, CommandsTyped DEF Age
  <2>3. UNCHANGED <<storeVars, checkoutVars, work, requests, faults>>
        /\ overran' \in SUBSET Commands
    BY <2>1 DEF Age
  <2> QED  BY <2>2, <2>3 DEF StoreTypeOK, CheckoutTypeOK, storeVars, checkoutVars
<1>3. CASE Environment
  <2>1. CheckoutTypeOK'
    BY <1>3, CheckoutTyped DEF Environment
  <2> QED
    BY <1>3, <2>1
    DEF Environment, StoreTypeOK, CommandsTypeOK, storeVars, commandVars, faultVars
<1>4. CASE UNCHANGED vars
  BY <1>4
  DEF vars, commandVars, storeVars, checkoutVars, faultVars, StoreTypeOK, CommandsTypeOK,
      CheckoutTypeOK
<1> QED  BY <1>1, <1>2, <1>3, <1>4, NextSteps

LEMMA TypesAlways == Spec => []TypeInv
BY TypesInitially, TypesKept, PTL DEF Spec

(* The rows, the requests in progress and the histories keep their types.  *)
THEOREM CommandTypes == Spec => []TypeOK
<1>1. TypeInv => TypeOK
  BY DEF TypeInv
<1> QED  BY <1>1, TypesAlways, PTL

-----------------------------------------------------------------------------
(* A step leaves the other handlers where they are, and begins an execution *)
(* only where reserve() granted it.                                        *)
LEMMA Moves ==
  ASSUME TypeInv, NEW w \in Workers, Step(w)
  PROVE  /\ \A v \in Workers \ {w} : work'[v] = work[v]
         /\ work'[w].pc \in Executing =>
              /\ work'[w].c = work[w].c
              /\ \/ work[w].pc \in Executing
                 \/ At(w, "reserve") /\ Reserve(work[w].c)
<1>1. work \in [Workers -> WorkStates] /\ work[w] \in WorkStates
  BY DEF TypeInv, TypeOK
<1>2. \A v \in Workers \ {w} : work'[v] = work[v]
  BY <1>1, WorkTyped
<1>3. CASE ReserveCommand(w)
  BY <1>1, <1>2, <1>3 DEF ReserveCommand, Go, End, Idle, Executing, WorkStates
<1>4. CASE Audit(w) \/ Succeed(w) \/ FailCommand(w)
  BY <1>1, <1>2, <1>4
  DEF Audit, Succeed, FailCommand, At, Go, End, Idle, Executing, WorkStates
<1>5. ASSUME Fail(w) \/ End(w), work[w].pc \in Executing
      PROVE  work'[w].pc \in Executing => work'[w].c = work[w].c
  <2>1. CASE End(w)
    BY <1>1, <2>1 DEF End, Idle, Executing
  <2>2. CASE Fail(w)
    <3>1. work'[w] = [Idle EXCEPT !.pc = "fail", !.c = work[w].c]
      BY <1>1, <2>2 DEF Fail
    <3> QED  BY <3>1 DEF Idle
  <2> QED  BY <1>5, <2>1, <2>2
<1>6. CASE SaveSettings(w)
  <2>1. work[w].pc \in Executing
    BY <1>6 DEF SaveSettings, At, Executing
  <2>2. CASE Go(w, "audit")
    BY <1>1, <1>2, <2>1, <2>2 DEF Go, WorkStates
  <2> QED  BY <1>2, <1>5, <1>6, <2>1, <2>2 DEF SaveSettings
<1>7. CASE CommitIntent(w)
  <2>1. work[w].pc \in Executing
    BY <1>7 DEF CommitIntent, At, Executing
  <2>2. CASE work' = [work EXCEPT ![w].pc = "call", ![w].known = sid[work[w].c]]
    BY <1>1, <1>2, <2>1, <2>2 DEF WorkStates
  <2> QED  BY <1>2, <1>5, <1>7, <2>1, <2>2 DEF CommitIntent
<1>8. CASE CallStripe(w)
  <2>1. work[w].pc \in Executing
    BY <1>8 DEF CallStripe, At, Executing
  <2>2. ASSUME NEW answer,
               work' = [work EXCEPT ![w].pc = "record", ![w].known = FALSE,
                                    ![w].answer = answer]
        PROVE  work'[w].c = work[w].c
    BY <1>1, <2>2 DEF WorkStates
  <2> QED  BY <1>2, <1>5, <1>8, <2>1, <2>2 DEF CallStripe
<1>9. CASE Record(w)
  <2>1. work[w].pc \in Executing
    BY <1>9 DEF Record, At, Executing
  <2>2. CASE work' = [work EXCEPT ![w].pc = "audit", ![w].answer = "none"]
    BY <1>1, <1>2, <2>1, <2>2 DEF WorkStates
  <2> QED  BY <1>2, <1>5, <1>9, <2>1, <2>2 DEF Record
<1>10. CASE Throw(w) \/ Crash(w)
  BY <1>2, <1>5, <1>10 DEF Throw, Crash, Fault
<1>11. CASE \E c \in Commands : Request(w, c)
  BY <1>1, <1>2, <1>11 DEF Request, Idle, Executing, WorkStates
<1> QED  BY <1>3, <1>4, <1>6, <1>7, <1>8, <1>9, <1>10, <1>11 DEF Step

-----------------------------------------------------------------------------
(* While no execution of a command has outlived its reservation, whoever   *)
(* executes it holds the reservation, and is the only one.                 *)
ReservedInv ==
  \A w \in Workers, c \in Commands : Executes(w, c) /\ c \notin overran =>
    /\ InProgress(c)
    /\ \A v \in Workers : Executes(v, c) => v = w

LEMMA ReservedKept == TypeInv /\ ReservedInv /\ [Next]_vars => ReservedInv'
<1> SUFFICES ASSUME TypeInv, ReservedInv, [Next]_vars,
                    NEW u \in Workers, NEW c \in Commands,
                    Executes(u, c)', c \notin overran'
             PROVE  /\ InProgress(c)'
                    /\ \A v \in Workers : Executes(v, c)' => v = u
  BY DEF ReservedInv
<1>1. CASE \E w \in Workers : Step(w)
  <2>1. PICK w \in Workers : Step(w)
    BY <1>1
  <2>2. overran' = overran /\ CommandsTypeOK
    BY <2>1
    DEF Step, ReserveCommand, Audit, Succeed, FailCommand, SaveSettings, CommitIntent,
        CallStripe, Record, Throw, Crash, Request, faultVars, TypeInv, TypeOK
  <2>3. CASE At(w, "reserve") /\ Reserve(c) /\ work[w].c = c
    <3>1. \A v \in Workers : ~Executes(v, c)
      BY <2>2, <2>3 DEF ReservedInv, Reserve
    <3>2. \A v \in Workers : Executes(v, c)' => v = w
      BY <2>1, <3>1, Moves DEF Executes
    <3> QED  BY <2>2, <2>3, <3>2 DEF Reserve, InProgress, CommandsTypeOK
  <2>4. CASE ~(At(w, "reserve") /\ Reserve(c) /\ work[w].c = c)
    <3>1. \A v \in Workers : Executes(v, c)' => Executes(v, c)
      BY <2>1, <2>4, Moves DEF Executes
    <3>2. InProgress(c) /\ \A v \in Workers : Executes(v, c) => v = u
      BY <2>2, <3>1 DEF ReservedInv
    <3>3. CASE UNCHANGED <<cmd, aged>>
      BY <3>1, <3>2, <3>3 DEF InProgress
    <3>4. CASE ReserveCommand(w)
      BY <2>2, <2>4, <3>1, <3>2, <3>4
      DEF ReserveCommand, Reserve, InProgress, CommandsTypeOK, commandVars
    <3>5. CASE Succeed(w) \/ FailCommand(w)
      <4>1. Executes(w, work[w].c) /\ ~Executes(w, c)'
        BY <3>5 DEF Succeed, FailCommand, At, End, Executes, Executing, Idle, TypeInv, TypeOK
      <4>2. work[w].c # c
        BY <3>1, <3>2, <4>1
      <4> QED  BY <2>2, <3>1, <3>2, <3>5, <4>2
          DEF Succeed, FailCommand, SetOutcome, InProgress, CommandsTypeOK
    <3> QED
      BY <2>1, <3>3, <3>4, <3>5
      DEF Step, Audit, AuditSuccess, SaveSettings, CommitIntent, CallStripe, Record,
          Throw, Crash, Request, commandVars
  <2> QED  BY <2>3, <2>4
<1>2. CASE \E d \in Commands : Age(d)
  <2>1. PICK d \in Commands : Age(d)
    BY <1>2
  <2>2. \A v \in Workers : Executes(v, c)' <=> Executes(v, c)
    BY <2>1 DEF Age, Executes
  <2>3. c # d /\ c \notin overran
    BY <2>1, <2>2 DEF Age
  <2> QED  BY <2>1, <2>2, <2>3
      DEF ReservedInv, Age, Grow, InProgress, TypeInv, TypeOK, CommandsTypeOK
<1>3. CASE Environment \/ UNCHANGED vars
  <2>1. UNCHANGED <<cmd, aged, work, overran>>
    BY <1>3 DEF Environment, vars, commandVars, faultVars
  <2> QED  BY <2>1 DEF ReservedInv, Executes, InProgress
<1> QED  BY <1>1, <1>2, <1>3, NextSteps

(* A command is executed by two handlers at once only when it has run for  *)
(* longer than reserve() waits.                                            *)
THEOREM OneAtATime == Spec => []OneExecution
<1>1. Init => ReservedInv
  BY DEF Init, ReservedInv, Executes, Executing, Idle
<1>2. ReservedInv => OneExecution
  BY DEF ReservedInv, OneExecution
<1> QED  BY <1>1, <1>2, ReservedKept, TypesAlways, PTL DEF Spec

-----------------------------------------------------------------------------
(* Of the saves at most one has written, and it wrote version 1.           *)
StoreInv ==
  \/ /\ version = 0
     /\ \A c \in Saves : receipt[c] = 0 /\ writes[c] = 0
  \/ /\ version = 1
     /\ \E c \in Saves :
          /\ receipt[c] = 1 /\ writes[c] = 1
          /\ \A d \in Saves \ {c} : receipt[d] = 0 /\ writes[d] = 0

(* The document changes by Save alone. *)
LEMMA StoreSteps ==
  ASSUME TypeInv, [Next]_vars
  PROVE  UNCHANGED storeVars \/ \E c \in Saves : Save(c)
<1>1. CASE \E w \in Workers : Step(w)
  <2>1. PICK w \in Workers : Step(w)
    BY <1>1
  <2>2. CASE SaveSettings(w)
    <3>1. work[w].c \in Saves
      BY <2>2 DEF SaveSettings, At, TypeInv, Fits
    <3> QED  BY <2>2, <3>1 DEF SaveSettings, Repeat, Refused
  <2> QED
    BY <2>1, <2>2
    DEF Step, ReserveCommand, Audit, Succeed, FailCommand, CommitIntent, CallStripe,
        Record, Throw, Crash, Request
<1>2. CASE ~\E w \in Workers : Step(w)
  BY <1>2, NextSteps DEF Age, Environment, vars
<1> QED  BY <1>1, <1>2

LEMMA StoreKept == TypeInv /\ StoreInv /\ [Next]_vars => StoreInv'
<1> SUFFICES ASSUME TypeInv, StoreInv, [Next]_vars PROVE StoreInv'
  OBVIOUS
<1>1. CASE UNCHANGED storeVars
  BY <1>1 DEF StoreInv, storeVars
<1>2. ASSUME NEW c \in Saves, Save(c) PROVE StoreInv'
  <2>1. version = 0 /\ \A d \in Saves : receipt[d] = 0 /\ writes[d] = 0
    BY <1>2 DEF StoreInv, Save, UpToDate, ExpectedVersion
  <2>2. StoreTypeOK
    BY DEF TypeInv, TypeOK
  <2>3. version' = 1 /\ receipt'[c] = 1 /\ writes'[c] = 1
    BY <1>2, <2>1, <2>2 DEF Save, StoreTypeOK
  <2>4. \A d \in Saves \ {c} : receipt'[d] = 0 /\ writes'[d] = 0
    BY <1>2, <2>1, <2>2 DEF Save, StoreTypeOK
  <2> QED  BY <2>3, <2>4 DEF StoreInv
<1> QED  BY <1>1, <1>2, StoreSteps

(* Saves of users who looked at the same version do not overwrite one      *)
(* another, nor does a repeated save write twice.                          *)
THEOREM SavesAreKept == Spec => []NoLostUpdate
<1>1. Init => StoreInv
  BY DEF Init, StoreInit, StoreInv
<1>2. StoreInv => NoLostUpdate
  BY DEF StoreInv, NoLostUpdate, ExpectedVersion
<1> QED  BY <1>1, <1>2, StoreKept, TypesAlways, PTL DEF Spec

-----------------------------------------------------------------------------
(* The work of a command, which is never undone. *)
Done(c) ==
  /\ c \in Saves => receipt[c] # 0
  /\ c \in Checkouts => sid[c]

(* A handler that is past its work has done it, and one that is about to   *)
(* record the success has written the audit event.                         *)
BackedInv ==
  /\ \A w \in Workers, c \in Commands : work[w].c = c =>
       /\ work[w].pc \in {"audit", "succeed"} => Done(c)
       /\ work[w].pc = "succeed" => c \in audited
  /\ SuccessIsBacked

LEMMA RecordedIdsStay ==
  ASSUME TypeInv, [Next]_vars, NEW c \in Checkouts, sid[c]
  PROVE  sid'[c]
<1>1. CASE \E w \in Workers : Record(w)
  BY <1>1 DEF Record, RecordSession, TypeInv, TypeOK, CheckoutTypeOK
<1>2. CASE ~\E w \in Workers : Record(w)
  <2>1. sid' = sid
    BY <1>2, NextSteps
    DEF Step, ReserveCommand, Audit, Succeed, FailCommand, SaveSettings, CommitIntent,
        CallStripe, Throw, Crash, Request, Age, Environment, Intent, CreateSession,
        HandOut, Pay, Expire, MapSubscription, checkoutVars, vars
  <2> QED  BY <2>1
<1> QED  BY <1>1, <1>2

LEMMA WorkStays ==
  ASSUME TypeInv, [Next]_vars, NEW c \in Commands
  PROVE  /\ Done(c) => Done(c)'
         /\ c \in audited => c \in audited'
<1>1. Done(c) => Done(c)'
  <2>1. CASE UNCHANGED storeVars
    BY <2>1, RecordedIdsStay DEF Done, storeVars
  <2>2. CASE \E d \in Saves : Save(d)
    <3>1. PICK d \in Saves : Save(d)
      BY <2>2
    <3>2. c \in Saves /\ receipt[c] # 0 => receipt'[c] # 0
      BY <3>1 DEF Save, TypeInv, TypeOK, StoreTypeOK
    <3> QED  BY <3>2, RecordedIdsStay DEF Done
  <2> QED  BY <2>1, <2>2, StoreSteps
<1>2. c \in audited => c \in audited'
  BY NextSteps
  DEF Step, ReserveCommand, Audit, Succeed, FailCommand, SaveSettings, CommitIntent,
      CallStripe, Record, Throw, Crash, Request, Age, Environment, Reserve,
      AuditSuccess, SetOutcome, Grow, commandVars, vars
<1> QED  BY <1>1, <1>2

(* A row becomes "succeeded" in Succeed alone. *)
LEMMA Successes ==
  ASSUME TypeInv, [Next]_vars, NEW c \in Commands, cmd'[c] = "succeeded"
  PROVE  cmd[c] = "succeeded" \/ \E w \in Workers : At(w, "succeed") /\ work[w].c = c
<1> USE DEF TypeInv, TypeOK, CommandsTypeOK
<1>1. CASE \E w \in Workers : Step(w)
  <2>1. PICK w \in Workers : Step(w)
    BY <1>1
  <2>2. CASE Succeed(w) \/ FailCommand(w)
    BY <2>2 DEF Succeed, FailCommand, SetOutcome, At
  <2>3. CASE ReserveCommand(w)
    BY <2>3 DEF ReserveCommand, Reserve, commandVars
  <2> QED
    BY <2>1, <2>2, <2>3
    DEF Step, Audit, AuditSuccess, SaveSettings, CommitIntent, CallStripe, Record, Throw,
        Crash, Request, commandVars
<1>2. CASE ~\E w \in Workers : Step(w)
  BY <1>2, NextSteps DEF Age, Grow, Environment, commandVars, vars
<1> QED  BY <1>1, <1>2

(* A handler that is at a step of its work has not failed or ended. *)
LEMMA GoesOn ==
  ASSUME TypeInv, NEW w \in Workers,
         work'[w].pc \in {"call", "record", "audit", "succeed"}
  PROVE  ~Fail(w) /\ ~End(w)
<1>1. work \in [Workers -> WorkStates]
  BY DEF TypeInv, TypeOK
<1>2. ~End(w)
  BY <1>1 DEF End, Idle
<1>3. ASSUME Fail(w) PROVE FALSE
  <2>1. work'[w] = [Idle EXCEPT !.pc = "fail", !.c = work[w].c]
    BY <1>1, <1>3 DEF Fail
  <2> QED  BY <2>1 DEF Idle
<1> QED  BY <1>2, <1>3

(* Where a handler comes from that is past its work. *)
LEMMA Arrivals ==
  ASSUME TypeInv, NEW w \in Workers, Step(w), work'[w].pc \in {"audit", "succeed"}
  PROVE  /\ ~Fail(w)
         /\ work'[w].pc = "succeed" => At(w, "audit") /\ Audit(w)
         /\ work'[w].pc = "audit" => SaveSettings(w) \/ Record(w)
<1>1. work \in [Workers -> WorkStates] /\ work[w] \in WorkStates
  BY DEF TypeInv, TypeOK
<1>2. ~Fail(w) /\ ~End(w)
  BY GoesOn
<1>3. ~ReserveCommand(w)
  <2>1. ~Go(w, IF work[w].c \in Saves THEN "execute" ELSE "intent")
    BY <1>1 DEF Go, WorkStates
  <2> QED  BY <1>2, <2>1 DEF ReserveCommand
<1>4. CASE Audit(w)
  BY <1>1, <1>2, <1>4 DEF Audit, Go, WorkStates
<1>5. CASE SaveSettings(w)
  BY <1>1, <1>2, <1>5 DEF SaveSettings, Go, WorkStates
<1>6. ~CommitIntent(w) /\ ~CallStripe(w)
  <2>1. \A known : work' # [work EXCEPT ![w].pc = "call", ![w].known = known]
    BY <1>1 DEF WorkStates
  <2>2. \A answer : work' # [work EXCEPT ![w].pc = "record", ![w].known = FALSE,
                                        ![w].answer = answer]
    BY <1>1 DEF WorkStates
  <2> QED  BY <1>2, <2>1, <2>2 DEF CommitIntent, CallStripe
<1>7. CASE Record(w)
  BY <1>1, <1>2, <1>7 DEF Record, WorkStates
<1>8. CASE \E c \in Commands : Request(w, c)
  BY <1>1, <1>2, <1>8 DEF Request, Idle
<1> QED
  BY <1>2, <1>3, <1>4, <1>5, <1>6, <1>7, <1>8
  DEF Step, Succeed, FailCommand, Throw, Crash

LEMMA BackedKept == TypeInv /\ BackedInv /\ [Next]_vars => BackedInv'
<1> SUFFICES ASSUME TypeInv, BackedInv, [Next]_vars PROVE BackedInv'
  OBVIOUS
<1>1. SuccessIsBacked'
  <2> SUFFICES ASSUME NEW c \in Commands, cmd'[c] = "succeeded"
               PROVE  c \in audited' /\ Done(c)'
    BY DEF SuccessIsBacked, Done
  <2>1. c \in audited /\ Done(c)
    BY Successes DEF BackedInv, SuccessIsBacked, Done, At
  <2> QED  BY <2>1, WorkStays
<1>2. ASSUME NEW w \in Workers, NEW c \in Commands, work'[w].c = c
      PROVE  /\ work'[w].pc \in {"audit", "succeed"} => Done(c)'
             /\ work'[w].pc = "succeed" => c \in audited'
  <2>1. CASE work'[w] = work[w]
    BY <1>2, <2>1, WorkStays DEF BackedInv
  <2>2. CASE work'[w] # work[w] /\ work'[w].pc \in {"audit", "succeed"}
    <3>1. Step(w)
      <4>1. PICK v \in Workers : Step(v)
        BY <2>2, NextSteps DEF Age, Environment, vars
      <4> QED  BY <2>2, <4>1, Moves
    <3>2. work[w].c = c /\ work[w].pc # "idle"
      BY <1>2, <2>2, <3>1, Arrivals, Moves DEF Executing, At, SaveSettings, Record
    <3>3. CASE work'[w].pc = "succeed"
      <4>1. At(w, "audit") /\ Audit(w)
        BY <2>2, <3>1, <3>3, Arrivals
      <4>2. Done(c) /\ c \in audited'
        BY <3>2, <4>1 DEF BackedInv, Audit, AuditSuccess, At
      <4> QED  BY <4>2, WorkStays
    <3>4. CASE work'[w].pc = "audit"
      <4>1. CASE SaveSettings(w)
        <5>1. c \in Saves /\ c \notin Checkouts /\ (Save(c) \/ Repeat(c))
          BY <2>2, <3>1, <3>2, <4>1, Arrivals, ApiAssumption
          DEF SaveSettings, At, Fits, TypeInv
        <5>2. StoreTypeOK
          BY DEF TypeInv, TypeOK
        <5>3. receipt'[c] # 0
          BY <5>1, <5>2 DEF Save, Repeat, storeVars, StoreTypeOK
        <5> QED  BY <3>4, <5>1, <5>3 DEF Done
      <4>2. CASE Record(w)
        <5>1. c \in Checkouts /\ c \notin Saves
          BY <3>2, <4>2, ApiAssumption DEF Record, At, Fits, TypeInv
        <5> QED
          BY <3>2, <3>4, <4>2, <5>1
          DEF Record, RecordSession, Done, TypeInv, TypeOK, CheckoutTypeOK
      <4> QED  BY <2>2, <3>1, <3>4, <4>1, <4>2, Arrivals
    <3> QED  BY <2>2, <3>3, <3>4
  <2> QED  BY <2>1, <2>2
<1> QED  BY <1>1, <1>2 DEF BackedInv

(* What is replayed to the user as a success has been done and audited,    *)
(* whichever handlers of the command failed, died or overlapped.           *)
THEOREM SuccessesAreBacked == Spec => []SuccessIsBacked
<1>1. Init => BackedInv
  BY DEF Init, CommandsInit, BackedInv, SuccessIsBacked, Idle
<1>2. BackedInv => SuccessIsBacked
  BY DEF BackedInv
<1> QED  BY <1>1, <1>2, BackedKept, TypesAlways, PTL DEF Spec

-----------------------------------------------------------------------------
(* A checkout that can still be paid, as far as its row tells. *)
Live(c) == attempt[c] \notin {"none", "expired"} /\ ~over[c]

(* Checkout c is the only one that anybody paid for or can pay for. *)
Alone(c) ==
  /\ mapped = NoCheckout => ~over[c]
  /\ \A d \in Checkouts \ {c} : ~Live(d) /\ stripe[d] # "complete"

RowInv ==
  /\ \A c \in Checkouts :
       /\ attempt[c] = "none" => stripe[c] = "none"
       /\ sid[c] => stripe[c] # "none"
       /\ stripe[c] = "open" => ~over[c]
       /\ stripe[c] = "expired" \/ attempt[c] = "expired" => over[c]
       /\ c \in url \/ stripe[c] = "complete" => sid[c]
  /\ \A c, d \in Checkouts : Live(c) /\ Live(d) => c = d
  /\ late = {} => \A c \in Checkouts : stripe[c] = "complete" => Alone(c)

(* What a handler that talks to Stripe knows of the rows. *)
CallInv ==
  \A w \in Workers, c \in Checkouts : work[w].c = c =>
    /\ work[w].pc = "call" => attempt[c] # "none" /\ (work[w].known => sid[c])
    /\ work[w].pc = "record" =>
         /\ stripe[c] # "none" /\ work[w].answer # "none"
         /\ work[w].answer = "expired" => over[c]

CheckoutInv == TypeInv /\ BackedInv /\ RowInv /\ CallInv

(* Who changes the rows, and what the changer knows. *)
LEMMA CheckoutSteps ==
  ASSUME CheckoutInv, [Next]_vars
  PROVE  \/ UNCHANGED checkoutVars
         \/ \E c \in Checkouts :
              \/ Intent(c) \/ Pay(c) \/ Expire(c) \/ MapSubscription(c)
              \/ CreateSession(c) /\ attempt[c] # "none"
              \/ HandOut(c) /\ sid[c]
              \/ /\ stripe[c] # "none"
                 /\ \E answer \in {"open", "complete", "expired"} :
                      /\ RecordSession(c, answer)
                      /\ answer = "expired" => over[c]
<1> USE DEF CheckoutInv
<1>1. CASE \E w \in Workers : Step(w)
  <2>1. PICK w \in Workers : Step(w)
    BY <1>1
  <2>2. Fits(work[w])
    BY DEF TypeInv
  <2>3. CASE Succeed(w)
    <3>1. work[w].c \in Checkouts => HandOut(work[w].c) /\ sid[work[w].c]
      BY <2>2, <2>3, ApiAssumption DEF Succeed, At, BackedInv, Done
    <3> QED  BY <2>3, <3>1 DEF Succeed
  <2>4. CASE CommitIntent(w)
    BY <2>2, <2>4 DEF CommitIntent, At, Fits
  <2>5. CASE CallStripe(w)
    BY <2>2, <2>5 DEF CallStripe, At, Fits, CallInv
  <2>6. CASE Record(w)
    <3>1. /\ work[w].c \in Checkouts
          /\ work[w].answer \in {"open", "complete", "expired"}
      BY <2>2, <2>6 DEF Record, At, Fits, CallInv, WorkStates
    <3> QED  BY <2>6, <3>1 DEF Record, At, CallInv
  <2> QED
    BY <2>1, <2>3, <2>4, <2>5, <2>6
    DEF Step, ReserveCommand, Audit, FailCommand, SaveSettings, Throw, Crash, Request
<1>2. CASE ~\E w \in Workers : Step(w)
  BY <1>2, NextSteps DEF Age, Environment, vars
<1> QED  BY <1>1, <1>2

(* What a row, Stripe or the clock once said stays said. *)
LEMMA RowsStay ==
  ASSUME CheckoutInv, [Next]_vars, NEW c \in Checkouts
  PROVE  /\ attempt[c] # "none" => attempt'[c] # "none"
         /\ stripe[c] # "none" => stripe'[c] # "none"
         /\ sid[c] => sid'[c]
         /\ over[c] => over'[c]
<1>1. CheckoutTypeOK
  BY DEF CheckoutInv, TypeInv, TypeOK
<1> QED
  BY <1>1, CheckoutSteps
  DEF CheckoutTypeOK, Intent, CreateSession, RecordSession, HandOut, Pay, Expire,
      MapSubscription, checkoutVars

LEMMA RowsKept == CheckoutInv /\ [Next]_vars => RowInv'
<1> SUFFICES ASSUME CheckoutInv, [Next]_vars PROVE RowInv'
  OBVIOUS
<1>1. CheckoutTypeOK /\ RowInv
  BY DEF CheckoutInv, TypeInv, TypeOK
<1>2. ASSUME NEW c \in Checkouts, Live(c)'
      PROVE  Live(c) \/ Intent(c)
  BY <1>1, <1>2, CheckoutSteps
  DEF CheckoutTypeOK, RowInv, Live, Intent, CreateSession, RecordSession, HandOut, Pay,
      Expire, MapSubscription, checkoutVars
<1>3. ASSUME NEW c \in Checkouts, Intent(c)
      PROVE  RowInv'
  <2>1. /\ UNCHANGED <<sid, over, stripe, url, mapped, late>>
        /\ \A d \in Checkouts \ {c} : attempt'[d] = attempt[d] /\ ~Live(d)
        /\ attempt'[c] # "none" /\ ~over[c]
        /\ attempt'[c] # "expired"
    BY <1>1, <1>3 DEF CheckoutTypeOK, Intent, Admissible, Blocks, Live
  <2>2. ASSUME NEW d \in Checkouts, stripe[d] = "complete", late = {}
        PROVE  d = c
    <3>1. ~over[d] /\ attempt[d] # "none" /\ attempt[d] # "expired"
      BY <1>1, <1>3, <2>2 DEF RowInv, Alone, Intent, Admissible
    <3> QED  BY <2>1, <3>1 DEF Live
  <2> QED  BY <1>1, <2>1, <2>2 DEF RowInv, Alone, Live
<1>4. ASSUME NEW c \in Checkouts, Pay(c)
      PROVE  RowInv'
  <2>1. /\ UNCHANGED <<attempt, sid, over, url, mapped, late>>
        /\ c \in url /\ stripe[c] = "open"
        /\ stripe'[c] = "complete"
        /\ \A d \in Checkouts \ {c} : stripe'[d] = stripe[d]
    BY <1>1, <1>4 DEF CheckoutTypeOK, Pay
  <2>2. Live(c) /\ ~over[c] /\ sid[c]
    BY <1>1, <2>1 DEF RowInv, Live
  <2>3. \A d \in Checkouts \ {c} : ~Live(d)
    BY <1>1, <2>2 DEF RowInv
  <2>4. late = {} => \A d \in Checkouts \ {c} : stripe[d] # "complete"
    BY <1>1, <2>2 DEF RowInv, Alone
  <2> QED  BY <1>1, <2>1, <2>2, <2>3, <2>4 DEF RowInv, Alone, Live
<1>5. ASSUME NEW c \in Checkouts, Expire(c)
      PROVE  RowInv'
  <2>1. /\ UNCHANGED <<attempt, sid, url, mapped>>
        /\ attempt[c] # "none"
        /\ over'[c] /\ stripe'[c] = IF stripe[c] = "open" THEN "expired" ELSE stripe[c]
        /\ \A d \in Checkouts \ {c} : stripe'[d] = stripe[d] /\ over'[d] = over[d]
        /\ late' = {} => late = {} /\ (stripe[c] = "complete" => mapped = c)
    BY <1>1, <1>5 DEF CheckoutTypeOK, Expire
  <2> QED  BY <1>1, <2>1, CheckoutAssumption DEF RowInv, Alone, Live
<1>6. ASSUME NEW c \in Checkouts, MapSubscription(c)
      PROVE  RowInv'
  <2>1. /\ UNCHANGED <<sid, over, stripe, url, late>>
        /\ stripe[c] = "complete" /\ mapped' # NoCheckout
        /\ attempt'[c] = "complete"
        /\ \A d \in Checkouts \ {c} : attempt'[d] = attempt[d]
    BY <1>1, <1>6, CheckoutAssumption DEF CheckoutTypeOK, MapSubscription
  <2>2. \A d \in Checkouts : Live(d)' => Live(d)
    BY <1>2, <1>6, <2>1 DEF Intent, Admissible, MapSubscription
  <2> QED  BY <1>1, <2>1, <2>2 DEF RowInv, Alone, Live
<1>7. ASSUME NEW c \in Checkouts, CreateSession(c), attempt[c] # "none"
      PROVE  RowInv'
  <2>1. /\ UNCHANGED <<attempt, sid, over, url, mapped, late>>
        /\ \/ stripe' = stripe
           \/ ~over[c] /\ stripe[c] = "none" /\ stripe'[c] = "open"
        /\ \A d \in Checkouts \ {c} : stripe'[d] = stripe[d]
    BY <1>1, <1>7 DEF CheckoutTypeOK, CreateSession, Creatable
  <2> QED  BY <1>1, <1>7, <2>1 DEF RowInv, Alone, Live
<1>8. ASSUME NEW c \in Checkouts, HandOut(c), sid[c]
      PROVE  RowInv'
  BY <1>1, <1>8 DEF HandOut, RowInv, Alone, Live
<1>9. ASSUME NEW c \in Checkouts, stripe[c] # "none",
             NEW answer \in {"open", "complete", "expired"},
             RecordSession(c, answer), answer = "expired" => over[c]
      PROVE  RowInv'
  <2>1. /\ UNCHANGED <<over, stripe, url, mapped, late>>
        /\ sid'[c] /\ attempt'[c] = answer
        /\ \A d \in Checkouts \ {c} : attempt'[d] = attempt[d] /\ sid'[d] = sid[d]
    BY <1>1, <1>9 DEF CheckoutTypeOK, RecordSession
  <2>2. \A d \in Checkouts : Live(d)' => Live(d)
    BY <1>1, <1>9, <2>1 DEF RowInv, Live
  <2> QED  BY <1>1, <1>9, <2>1, <2>2 DEF RowInv, Alone
<1>10. CASE UNCHANGED checkoutVars
  BY <1>1, <1>10 DEF checkoutVars, RowInv, Alone, Live
<1> QED
  BY <1>3, <1>4, <1>5, <1>6, <1>7, <1>8, <1>9, <1>10, CheckoutSteps

(* How a handler comes to call Stripe, and to record the answer. *)
LEMMA Calls ==
  ASSUME TypeInv, NEW w \in Workers, Step(w), work'[w].pc \in {"call", "record"}
  PROVE  /\ work'[w].c = work[w].c
         /\ work'[w].pc = "call" =>
              Intent(work[w].c) /\ work'[w].known = sid[work[w].c]
         /\ work'[w].pc = "record" =>
              /\ At(w, "call")
              /\ \/ /\ ~work[w].known /\ CreateSession(work[w].c)
                    /\ work'[w].answer = "open"
                 \/ /\ work[w].known /\ UNCHANGED checkoutVars
                    /\ work'[w].answer = stripe[work[w].c]
<1>1. work \in [Workers -> WorkStates] /\ work[w] \in WorkStates
  BY DEF TypeInv, TypeOK
<1>2. ~Fail(w) /\ ~End(w)
  BY GoesOn
<1>3. \A pc \in {"execute", "intent", "audit", "succeed"} : ~Go(w, pc)
  BY <1>1 DEF Go, WorkStates
<1>4. ~Record(w)
  <2>1. work' # [work EXCEPT ![w].pc = "audit", ![w].answer = "none"]
    BY <1>1 DEF WorkStates
  <2> QED  BY <1>2, <2>1 DEF Record
<1>5. ~\E c \in Commands : Request(w, c)
  BY <1>1 DEF Request, Idle
<1>6. CASE CommitIntent(w)
  <2>1. Intent(work[w].c)
        /\ work' = [work EXCEPT ![w].pc = "call", ![w].known = sid[work[w].c]]
    BY <1>2, <1>6 DEF CommitIntent
  <2>2. work'[w].pc = "call" /\ work'[w].c = work[w].c
        /\ work'[w].known = sid[work[w].c]
    BY <1>1, <2>1 DEF WorkStates
  <2> QED  BY <2>1, <2>2
<1>7. CASE CallStripe(w)
  <2>1. ASSUME NEW answer,
               work' = [work EXCEPT ![w].pc = "record", ![w].known = FALSE,
                                    ![w].answer = answer]
        PROVE  /\ work'[w].c = work[w].c /\ work'[w].pc = "record"
               /\ work'[w].answer = answer
    BY <1>1, <2>1 DEF WorkStates
  <2> QED  BY <1>2, <1>7, <2>1 DEF CallStripe
<1> QED
  BY <1>2, <1>3, <1>4, <1>5, <1>6, <1>7
  DEF Step, ReserveCommand, Audit, Succeed, FailCommand, SaveSettings, Throw, Crash

LEMMA CallsKept == CheckoutInv /\ [Next]_vars => CallInv'
<1> SUFFICES ASSUME CheckoutInv, [Next]_vars,
                    NEW w \in Workers, NEW c \in Checkouts, work'[w].c = c,
                    work'[w].pc \in {"call", "record"}
             PROVE  /\ work'[w].pc = "call" =>
                         attempt'[c] # "none" /\ (work'[w].known => sid'[c])
                    /\ work'[w].pc = "record" =>
                         /\ stripe'[c] # "none" /\ work'[w].answer # "none"
                         /\ work'[w].answer = "expired" => over'[c]
  BY DEF CallInv
<1>1. TypeInv /\ CheckoutTypeOK /\ RowInv /\ CallInv
  BY DEF CheckoutInv, TypeInv, TypeOK
<1>2. CASE work'[w] = work[w]
  BY <1>1, <1>2, RowsStay DEF CallInv
<1>3. CASE work'[w] # work[w]
  <2>1. Step(w)
    <3>1. PICK v \in Workers : Step(v)
      BY <1>3, NextSteps DEF Age, Environment, vars
    <3> QED  BY <1>1, <1>3, <3>1, Moves
  <2>2. CASE work'[w].pc = "call"
    <3>1. Intent(c) /\ work'[w].known = sid[c]
      BY <1>1, <2>1, <2>2, Calls
    <3> QED  BY <1>1, <2>2, <3>1 DEF Intent, CheckoutTypeOK
  <2>3. CASE work'[w].pc = "record"
    <3>1. /\ At(w, "call") /\ work[w].c = c
          /\ \/ CreateSession(c) /\ work'[w].answer = "open"
             \/ /\ work[w].known /\ UNCHANGED checkoutVars
                /\ work'[w].answer = stripe[c]
      BY <1>1, <2>1, <2>3, Calls
    <3>2. CASE CreateSession(c) /\ work'[w].answer = "open"
      BY <1>1, <2>3, <3>2 DEF CreateSession, CheckoutTypeOK
    <3>3. CASE /\ work[w].known /\ UNCHANGED checkoutVars
               /\ work'[w].answer = stripe[c]
      <4>1. sid[c]
        BY <1>1, <3>1, <3>3 DEF CallInv, At
      <4> QED  BY <1>1, <2>3, <3>3, <4>1 DEF RowInv, checkoutVars
    <3> QED  BY <3>1, <3>2, <3>3
  <2> QED  BY <2>2, <2>3
<1> QED  BY <1>2, <1>3

LEMMA CheckoutsAlways == Spec => []CheckoutInv
<1>1. Init => CheckoutInv
  BY TypesInitially
  DEF Init, CommandsInit, CheckoutInit, CheckoutInv, BackedInv, SuccessIsBacked, RowInv,
      CallInv, Live, Idle
<1>2. CheckoutInv /\ [Next]_vars => CheckoutInv'
  BY TypesKept, BackedKept, RowsKept, CallsKept DEF CheckoutInv
<1> QED  BY <1>1, <1>2, PTL DEF Spec

(* However many checkouts are asked for, and whichever handler fails       *)
(* between its two transactions, only one can be paid.                     *)
THEOREM OneCheckoutIsOpen == Spec => []OneOpenCheckout
<1>1. CheckoutInv => OneOpenCheckout
  <2> SUFFICES ASSUME CheckoutInv, NEW c \in Checkouts, NEW d \in Checkouts,
                      stripe[c] = "open", stripe[d] = "open"
               PROVE  c = d
    BY DEF OneOpenCheckout
  <2> QED  BY DEF CheckoutInv, RowInv, Live
<1> QED  BY <1>1, CheckoutsAlways, PTL

(* A payment can be mapped, and there is one, unless the first was mapped  *)
(* too late.                                                               *)
THEOREM CheckoutsArePaidOnce == Spec => []PaidOnce
<1>1. ASSUME CheckoutInv PROVE PaidOnce
  <2> DEFINE Paid == {c \in Checkouts : stripe[c] = "complete"}
  <2>1. RowInv
    BY <1>1 DEF CheckoutInv
  <2>2. ASSUME late = {} PROVE ~(Cardinality(Paid) > 1)
    <3>1. CASE Paid = {}
      BY <3>1, FS_EmptySet
    <3>2. CASE Paid # {}
      <4>1. PICK c \in Paid : TRUE
        BY <3>2
      <4>2. Paid = {c}
        BY <2>1, <2>2, <4>1 DEF RowInv, Alone
      <4>3. Cardinality({c}) = 1
        BY FS_Singleton
      <4> QED  BY <4>2, <4>3
    <3> QED  BY <3>1, <3>2
  <2> QED  BY <2>1, <2>2 DEF PaidOnce, RowInv
<1> QED  BY <1>1, CheckoutsAlways, PTL

=============================================================================
