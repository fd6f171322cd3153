------------------------------ MODULE AccessMail ------------------------------
(***************************************************************************)
(* The outbox of verification and recovery mails: AccessMailService of the *)
(* API inserts a row, AccessMailWorker.tick of every worker process claims *)
(* the oldest due row for two minutes and delivers it.  A mail is a number *)
(* in the order of created_at.  A later request of the same digest (kind,  *)
(* address and minute) inserts nothing, so a mail stands for its digest.   *)
(***************************************************************************)
EXTENDS WorkerProcesses, FiniteSetsExt

CONSTANTS
  MaxMails,       \* BOUND: mails requested
  MailAttempts    \* 5 in access-mail-worker.service.ts

ASSUME MailAssumption == MaxMails \in Nat /\ MailAttempts \in Nat \ {0}

VARIABLES
  outbox,      \* the rows of app.access_mail_outbox
  needed,      \* the account is active and, for "verify", not verified yet
  links,       \* how many tokens were created for the mail
  asked,       \* EXTERNAL: the bodies the provider was handed under the mail's key
  tick,        \* the tick of each worker process; "idle" when not busy
  mailFaults,  \* crashes, stalls and database errors so far
  overran      \* HISTORY: mails whose two minutes ran out under a live tick

mailVars == <<outbox, needed, links, asked, tick, mailFaults, overran>>

-----------------------------------------------------------------------------
Mails == 1 .. MaxMails

(* age: 0, over an hour (1), over seven days (2).  body: the sealed        *)
(* payload, named by the token its link carries, 0 when NULL.  addressed:  *)
(* encrypted_address is not ''.                                            *)
Rows == [status : {"absent", "queued", "sending", "sent", "failed", "deleted"},
         due : BOOLEAN, attempts : 0 .. MailAttempts, age : 0 .. 2,
         body : Nat, addressed : BOOLEAN]

NoRow == [status |-> "absent", due |-> FALSE, attempts |-> 0, age |-> 0,
          body |-> 0, addressed |-> FALSE]

Gone == {"absent", "deleted"}

(* body, addressed and before: the row as the claim's SELECT saw it. *)
IdleTick == [pc |-> "idle", mail |-> 0, body |-> 0, addressed |-> FALSE, before |-> 0]

Ticks == [pc : {"idle", "claimed", "prepared", "accepted", "failing", "giveup"},
          mail : {0} \union Mails, body : Nat, addressed : BOOLEAN, before : Nat]

MailTypeOK ==
  /\ outbox \in [Mails -> Rows]
  /\ needed \in [Mails -> BOOLEAN]
  /\ links \in [Mails -> Nat]
  /\ asked \in [Mails -> SUBSET Nat]
  /\ tick \in [Workers -> Ticks]
  /\ mailFaults \in 0 .. MaxFaults
  /\ overran \in SUBSET Mails

MailInit ==
  /\ outbox = [m \in Mails |-> NoRow]
  /\ needed = [m \in Mails |-> TRUE]
  /\ links = [m \in Mails |-> 0]
  /\ asked = [m \in Mails |-> {}]
  /\ tick = [w \in Workers |-> IdleTick]
  /\ mailFaults = 0
  /\ overran = {}

-----------------------------------------------------------------------------
(* The API. *)

EnqueueMail(m) ==
  /\ outbox[m].status = "absent"
  /\ \A n \in 1 .. m - 1 : outbox[n].status # "absent"
  /\ outbox' = [outbox EXCEPT ![m] = [NoRow EXCEPT !.status = "queued",
                                                   !.due = TRUE, !.addressed = TRUE]]
  /\ UNCHANGED <<needed, links, asked, tick, mailFaults, overran>>

-----------------------------------------------------------------------------
(* tick() *)

Final(r, status) == [r EXCEPT !.status = status, !.body = 0, !.addressed = FALSE]

Exhausted(r) == r.status = "sending" /\ r.due /\ r.attempts >= MailAttempts

Deleted(r) ==
  IF r.status \notin Gone /\ r.age = 2 THEN Final(r, "deleted") ELSE r

(* The statements before the claim: give up what used up its attempts,     *)
(* delete what is older than seven days.                                   *)
SweptMail(r) == Deleted(IF Exhausted(r) THEN Final(r, "failed") ELSE r)

SweptOutbox == [m \in Mails |-> SweptMail(outbox[m])]

(* MUTANT: the claim does not look at the attempts. *)
DueWhateverAttempts(r) == r.status \in {"queued", "sending"} /\ r.due

DueMail(r) ==
  /\ r.status \in {"queued", "sending"}
  /\ r.due
  /\ r.attempts < MailAttempts

Claimed(r) ==
  [r EXCEPT !.status = "sending", !.attempts = @ + 1, !.due = FALSE]

Tick(w) ==
  /\ tick[w].pc = "idle"
  /\ LET rows == SweptOutbox
         claimable == {m \in Mails : DueMail(rows[m])}
     IN IF claimable = {}
        THEN outbox' = rows /\ UNCHANGED tick
        ELSE LET m == Min(claimable)
             IN /\ outbox' = [rows EXCEPT ![m] = Claimed(@)]
                /\ tick' = [tick EXCEPT ![w] =
                     [pc |-> "claimed", mail |-> m, body |-> rows[m].body,
                      addressed |-> rows[m].addressed, before |-> rows[m].attempts]]
  /\ UNCHANGED <<needed, links, asked, mailFaults, overran>>

Claiming(w, m) == tick[w].pc # "idle" /\ tick[w].mail = m

Advance(w, pc) == tick' = [tick EXCEPT ![w].pc = pc]

(* The row is older than an hour: MAIL_QUEUE_EXPIRED, which is final. *)
TooOld(w) ==
  /\ tick[w].pc = "claimed"
  /\ outbox[tick[w].mail].age > 0
  /\ Advance(w, "giveup")
  /\ UNCHANGED <<outbox, needed, links, asked, mailFaults, overran>>

UpdateRow(m, r) ==
  outbox' = [outbox EXCEPT ![m] = IF @.status \in Gone THEN @ ELSE r]

(* MUTANT: the prepared payload is handed over before it is stored. *)
PreparedUnstored(w, m) == UNCHANGED outbox

Prepared(w, m) == UpdateRow(m, [outbox[m] EXCEPT !.body = links[m] + 1])

(* No payload yet: look the user up, create a token and store the payload  *)
(* that carries it.  The claim may have read an empty address: that of a   *)
(* final row which a late tick had put back.                               *)
Prepare(w) ==
  LET m == tick[w].mail IN
  /\ tick[w].pc = "claimed"
  /\ outbox[m].age = 0
  /\ UNCHANGED <<needed, asked, mailFaults, overran>>
  /\ \/ /\ tick[w].body # 0
        /\ Advance(w, "prepared")
        /\ UNCHANGED <<outbox, links>>
     \/ /\ tick[w].body = 0 /\ tick[w].addressed /\ needed[m]
        /\ links' = [links EXCEPT ![m] = @ + 1]
        /\ Prepared(w, m)
        /\ tick' = [tick EXCEPT ![w].pc = "prepared", ![w].body = links[m] + 1]
     \/ /\ tick[w].body = 0 /\ tick[w].addressed /\ ~needed[m]
        /\ UpdateRow(m, Final(outbox[m], "sent"))
        /\ tick' = [tick EXCEPT ![w] = IdleTick]
        /\ UNCHANGED links
     \/ /\ tick[w].body = 0 /\ ~tick[w].addressed
        /\ Advance(w, "failing")
        /\ UNCHANGED <<outbox, links>>

(* deliverAuthMail: the provider has the body and says so, or has it while *)
(* the answer is lost, or never got it.                                    *)
DeliverMail(w) ==
  LET m == tick[w].mail IN
  /\ tick[w].pc = "prepared"
  /\ UNCHANGED <<outbox, needed, links, mailFaults, overran>>
  /\ \/ /\ asked' = [asked EXCEPT ![m] = @ \union {tick[w].body}]
        /\ \E pc \in {"accepted", "failing"} : Advance(w, pc)
     \/ Advance(w, "failing") /\ UNCHANGED asked

(* The UPDATE after a delivery, and the DELETE that ends the tick.  It     *)
(* names the row and nothing else: whoever claimed it since is overruled.  *)
MarkSent(w) ==
  /\ tick[w].pc = "accepted"
  /\ UpdateRow(tick[w].mail, Final(outbox[tick[w].mail], "sent"))
  /\ tick' = [tick EXCEPT ![w] = IdleTick]
  /\ UNCHANGED <<needed, links, asked, mailFaults, overran>>

(* MUTANT: the last attempt puts the row back like any other. *)
GivesUpOnlyWhenExpired(w) == tick[w].pc = "giveup"

GivesUp(w) ==
  tick[w].pc = "giveup" \/ tick[w].before >= MailAttempts - 1

(* The catch block. *)
MarkFailed(w) ==
  LET m == tick[w].mail
      r == [outbox[m] EXCEPT !.due = FALSE] IN
  /\ tick[w].pc \in {"failing", "giveup"}
  /\ UpdateRow(m, IF GivesUp(w) THEN Final(r, "failed")
                  ELSE [r EXCEPT !.status = "queued"])
  /\ tick' = [tick EXCEPT ![w] = IdleTick]
  /\ UNCHANGED <<needed, links, asked, mailFaults, overran>>

-----------------------------------------------------------------------------
(* The clock, the user and the faults. *)

(* available_at passes.  Under a live tick that is a stall of over two     *)
(* minutes: the calls of a tick time out after fifteen seconds each.       *)
TwoMinutes(m) ==
  LET live == \E w \in Workers : Claiming(w, m) IN
  /\ outbox[m].status \in {"queued", "sending"}
  /\ ~outbox[m].due
  /\ live => mailFaults < MaxFaults
  /\ mailFaults' = IF live THEN mailFaults + 1 ELSE mailFaults
  /\ overran' = IF live THEN overran \union {m} ELSE overran
  /\ outbox' = [outbox EXCEPT ![m].due = TRUE]
  /\ UNCHANGED <<needed, links, asked, tick>>

GrowOld(m) ==
  /\ outbox[m].status \notin Gone
  /\ outbox[m].age < 2
  /\ outbox[m].age = 1 => \A w \in Workers : ~Claiming(w, m)
  /\ outbox' = [outbox EXCEPT ![m].age = @ + 1]
  /\ UNCHANGED <<needed, links, asked, tick, mailFaults, overran>>

(* The address is verified by another link, or the account goes. *)
Obsolete(m) ==
  /\ needed[m]
  /\ needed' = [needed EXCEPT ![m] = FALSE]
  /\ UNCHANGED <<outbox, links, asked, tick, mailFaults, overran>>

(* The process dies, or a statement of the catch block or the final UPDATE *)
(* fails: the tick ends and leaves the row to its two minutes.             *)
AbandonTick(w) ==
  /\ tick[w].pc # "idle"
  /\ mailFaults < MaxFaults
  /\ mailFaults' = mailFaults + 1
  /\ tick' = [tick EXCEPT ![w] = IdleTick]
  /\ UNCHANGED <<outbox, needed, links, asked, overran>>

(* A statement fails before the delivery is known to have succeeded. *)
TickThrows(w) ==
  /\ tick[w].pc \in {"claimed", "prepared", "accepted"}
  /\ mailFaults < MaxFaults
  /\ mailFaults' = mailFaults + 1
  /\ Advance(w, "failing")
  /\ UNCHANGED <<outbox, needed, links, asked, overran>>

-----------------------------------------------------------------------------
Work(w) == TooOld(w) \/ Prepare(w) \/ DeliverMail(w) \/ MarkSent(w) \/ MarkFailed(w)

MailNext ==
  \/ \E m \in Mails : EnqueueMail(m) \/ TwoMinutes(m) \/ GrowOld(m) \/ Obsolete(m)
  \/ \E w \in Workers : Tick(w) \/ Work(w) \/ AbandonTick(w) \/ TickThrows(w)

(* The interval fires, a tick's calls end, two minutes pass. *)
MailSteps == (\E w \in Workers : Tick(w) \/ Work(w)) \/ (\E m \in Mails : TwoMinutes(m))

MailSpec == MailInit /\ [][MailNext]_mailVars /\ WF_mailVars(MailSteps)

-----------------------------------------------------------------------------
(* The provider is asked under one idempotency key per mail, which makes a *)
(* retry harmless only if the retry carries the same body (the same link). *)
(* Through crashes, lost answers and retries it does, because the payload  *)
(* is stored before it is sent and the claim keeps other ticks away for    *)
(* two minutes; only a tick that outlived its claim may send another.      *)
OneBodyPerMail ==
  \A m \in Mails \ overran : Cardinality(asked[m]) <= 1

(* A requested mail does not stay in the outbox: it is sent or given up    *)
(* after at most MailAttempts claims, although a worker that died releases *)
(* no claim.  A tick that outlived its claim may leave a row "queued" with *)
(* its attempts used up, which no statement but the DELETE touches again.  *)
EveryMailEnds ==
  \A m \in Mails :
    outbox[m].status \in {"queued", "sending"}
      ~> (outbox[m].status \in {"sent", "failed", "deleted"} \/ m \in overran)

=============================================================================
