----------------------------- MODULE BffSessions -----------------------------
(***************************************************************************)
(* The sessions of one user in the BFF: a record per session, a set of the *)
(* user's session ids and a refresh token per session, each under its own  *)
(* Redis key.  Every handler reads the record, decides, and writes the     *)
(* whole record back; a revocation reads and writes it too.  One Redis     *)
(* command per action, so that handlers of several tabs and browsers       *)
(* interleave between any two of them.  The browsers' side is the cookie   *)
(* jar and authRefreshCoordinator's rule of one refresh at a time, which   *)
(* only a browser with Web Locks can keep.                                 *)
(* The sliding expiresAt is left out: it only makes requests fail.         *)
(***************************************************************************)
EXTENDS Naturals

CONSTANTS
  MaxSessions,  \* BOUND: logins; each is made by a browser of its own
  Slots,        \* BOUND: requests in progress at once
  MaxRequests,  \* BOUND: requests after login, in all
  MaxFaults,    \* BOUND: requests that throw or whose reply is lost
  WebLocks,     \* the sessions whose browser has Web Locks
  Expiring,     \* BOUND: the sessions whose absoluteExpiresAt passes
  Kinds,        \* BOUND: the requests of the first session's browser
  OtherKinds    \* BOUND: the requests of the other sessions' browsers

AllKinds == {"refresh", "select", "verify", "confirm", "disable", "step-up",
             "reauth", "logout", "logout-all", "revoke", "reset", "list"}

CookieKinds == {"refresh", "logout", "logout-all", "disable"}

ASSUME SessionsAssumption ==
  /\ MaxSessions \in Nat
  /\ Slots \in Nat
  /\ MaxRequests \in Nat
  /\ MaxFaults \in Nat
  /\ WebLocks \in SUBSET Nat
  /\ Expiring \in SUBSET Nat
  /\ Kinds \in SUBSET AllKinds
  /\ OtherKinds \in SUBSET AllKinds

Sessions == 1 .. MaxSessions
NoSession == 0
Workers == 1 .. Slots
Workspaces == {1, 2}        \* the user's memberships
NoWorkspace == 0
NoToken == 0

VARIABLES
  rec,         \* <prefix>:session:<id>
  index,       \* <prefix>:user-sessions:<userId>
  tok,         \* <prefix>:session:<id>:refresh, tokens numbered as issued
  cookie,      \* the refresh cookie of the session's browser
  work,        \* the handlers in progress
  logins,      \* logins so far; a login opens session number logins + 1
  requests,    \* requests so far
  faults,      \* faults so far
  faulted,     \* HISTORY: the sessions with a faulty refresh
  raced,       \* HISTORY: the sessions with two refreshes at once
  suspect,     \* HISTORY: the sessions whose refresh was taken for a reuse
  redeemed,    \* HISTORY: the tokens that were rotated, with their session
  ended,       \* HISTORY: the sessions covered by a revocation that finished
  overlapped   \* HISTORY: those a handler held while they ended or expired

redisVars == <<rec, index, tok>>
counters == <<logins, requests, faults>>
history == <<faulted, raced, suspect, redeemed, ended, overlapped>>
vars == <<redisVars, cookie, work, counters, history>>

-----------------------------------------------------------------------------
(* "lapsed" is authLevel "step_up" with a stepUpExpiresAt in the past;     *)
(* proof is the workspace that the step-up was issued in.                  *)
Records == [
  state : {"absent", "live", "revoked"},
  level : {"session", "mfa", "step_up", "lapsed"},
  ws    : Workspaces,
  proof : Workspaces \union {NoWorkspace} ]

NoRecord == [state |-> "absent", level |-> "session", ws |-> 1,
             proof |-> NoWorkspace]

NewRecord == [NoRecord EXCEPT !.state = "live"]

(* Nobody looks at the other fields of a revoked record. *)
Revoked == [NoRecord EXCEPT !.state = "revoked"]

WorkStates == [
  pc    : {"idle", "read", "rotate", "set", "index", "token", "members",
           "find", "mark", "unindex", "scan", "prune", "reply"},
  kind  : AllKinds \union {"login"},
  s     : Sessions \union {NoSession},  \* of the session cookie
  token : Nat,              \* presented, then the one to answer with
  copy  : Records,          \* the record to be written
  cur   : Sessions \union {NoSession},  \* the session being revoked
  todo  : SUBSET Sessions,  \* the session ids still to be looked at
  stale : SUBSET Sessions,  \* those found to be pruned
  held  : SUBSET Sessions,  \* HISTORY: the sessions this is to revoke
  lost  : BOOLEAN ]         \* the browser does not wait for the reply

Idle == [pc |-> "idle", kind |-> "login", s |-> NoSession, token |-> NoToken,
         copy |-> NoRecord, cur |-> NoSession, todo |-> {}, stale |-> {},
         held |-> {}, lost |-> FALSE]

TypeOK ==
  /\ rec \in [Sessions -> Records]
  /\ \A s \in Sessions :
       rec[s].proof # NoWorkspace <=> rec[s].level \in {"step_up", "lapsed"}
  /\ index \in SUBSET Sessions
  /\ tok \in [Sessions -> Nat]
  /\ cookie \in [Sessions -> Nat]
  /\ work \in [Workers -> WorkStates]
  /\ logins \in 0 .. MaxSessions
  /\ requests \in Nat
  /\ faults \in Nat
  /\ faulted \in SUBSET Sessions
  /\ raced \in SUBSET Sessions
  /\ suspect \in SUBSET Sessions
  /\ redeemed \in SUBSET (Sessions \X Nat)
  /\ ended \in SUBSET Sessions
  /\ overlapped \in SUBSET Sessions

Init ==
  /\ rec = [s \in Sessions |-> NoRecord]
  /\ index = {}
  /\ tok = [s \in Sessions |-> NoToken]
  /\ cookie = [s \in Sessions |-> NoToken]
  /\ work = [w \in Workers |-> Idle]
  /\ logins = 0
  /\ requests = 0
  /\ faults = 0
  /\ faulted = {}
  /\ raced = {}
  /\ suspect = {}
  /\ redeemed = {}
  /\ ended = {}
  /\ overlapped = {}

At(w, pc) == work[w].pc = pc
Go(w, pc) == work' = [work EXCEPT ![w].pc = pc]
End(w) == work' = [work EXCEPT ![w] = Idle]

FirstIdle(w) == At(w, "idle") /\ \A v \in 1 .. (w - 1) : ~At(v, "idle")

-----------------------------------------------------------------------------
(* The browsers. *)

(* A tab has sent a refresh and waits for the reply. *)
RefreshUnderWay(s) ==
  \E w \in Workers : work[w].kind = "refresh" /\ work[w].s = s /\ ~work[w].lost

(* MUTANT: another tab does not wait for the refresh in progress. *)
MayRefreshAnyTime(s) == TRUE

(* The tabs of a browser share an exclusive lock, which is free again when *)
(* the reply has arrived or is given up.  Without Web Locks it is an entry *)
(* of the local storage, read, written and read again, with a lifetime of  *)
(* ten seconds, and granted when the storage throws: that keeps nobody out *)
(* for sure.                                                               *)
MayRefresh(s) == s \in WebLocks => ~RefreshUnderWay(s)

Login(w) ==
  /\ FirstIdle(w)
  /\ logins < MaxSessions
  /\ logins' = logins + 1
  /\ work' = [work EXCEPT ![w] = [Idle EXCEPT !.pc = "set", !.s = logins + 1,
                                               !.copy = NewRecord]]
  /\ UNCHANGED <<redisVars, cookie, requests, faults, history>>

(* A tab of the browser of session s sends a request; "revoke" names one   *)
(* of the other sessions, as it found them in a list.                      *)
Request(w, s, kind) ==
  /\ FirstIdle(w)
  /\ requests < MaxRequests
  /\ cookie[s] # NoToken
  /\ kind \in IF s = 1 THEN Kinds ELSE OtherKinds
  /\ kind = "refresh" => MayRefresh(s)
  /\ \E t \in IF kind = "revoke" THEN index \ {s} ELSE {s} :
       work' = [work EXCEPT ![w] =
                  [Idle EXCEPT !.pc = "read", !.kind = kind, !.s = s,
                     !.token = IF kind = "refresh" THEN cookie[s] ELSE NoToken,
                     !.todo = IF kind \in {"logout", "revoke"} THEN {t} ELSE {}]]
  /\ requests' = requests + 1
  /\ raced' = IF kind = "refresh" /\ RefreshUnderWay(s)
              THEN raced \union {s} ELSE raced
  /\ UNCHANGED <<redisVars, cookie, logins, faults, faulted, suspect, redeemed,
                 ended, overlapped>>

(* A password reset needs no session; it revokes all of them.              *)
ResetPassword(w) ==
  /\ FirstIdle(w)
  /\ requests < MaxRequests
  /\ requests' = requests + 1
  /\ work' = [work EXCEPT ![w] = [Idle EXCEPT !.pc = "members", !.kind = "reset"]]
  /\ UNCHANGED <<redisVars, cookie, logins, faults, history>>

(* The Set-Cookie headers arrive; NoToken clears the cookies.              *)
Reply(w) ==
  /\ At(w, "reply")
  /\ cookie' = IF work[w].lost THEN cookie
               ELSE [cookie EXCEPT ![work[w].s] = work[w].token]
  /\ End(w)
  /\ UNCHANGED <<redisVars, counters, history>>

-----------------------------------------------------------------------------
(* The handlers, up to their first write. *)

(* MUTANT: the step-up survives the change of workspace. *)
SelectedKeepingStepUp(r) == [r EXCEPT !.ws = 3 - @]

Selected(r) ==
  [r EXCEPT !.ws = 3 - @, !.proof = NoWorkspace,
            !.level = IF @ \in {"step_up", "lapsed"} THEN "mfa" ELSE @]

(* MUTANT: stepUpExpiresAt is kept. *)
ConfirmedKeepingStepUp(r) == [r EXCEPT !.level = "mfa"]

Confirmed(r) == [r EXCEPT !.level = "mfa", !.proof = NoWorkspace]

Verified(r) == [r EXCEPT !.level = IF @ = "session" THEN "mfa" ELSE @]

SteppedUp(r) == [r EXCEPT !.level = "step_up", !.proof = r.ws]

(* hasMfaAssurance and hasStepUpAssurance; a reauthentication starts at    *)
(* the API, which accepts a lapsed step-up as "mfa".                       *)
Admitted(kind, r) ==
  /\ kind = "step-up" => r.level \in {"mfa", "step_up"}
  /\ kind = "disable" => r.level = "step_up"
  /\ kind = "reauth"  => r.level # "session"

(* findSession, requireSession's or refresh()'s check of the record, and   *)
(* the call of the API where there is one.                                 *)
Read(w) ==
  LET k == work[w].kind
      r == rec[work[w].s]
      Continue(pc, copy) == work' = [work EXCEPT ![w].pc = pc, ![w].copy = copy]
  IN
  /\ At(w, "read")
  /\ \/ /\ r.state # "live"
        /\ IF k = "refresh"
           THEN work' = [work EXCEPT ![w].pc = "reply", ![w].token = NoToken]
           ELSE End(w)
     \/ r.state = "live" /\ ~Admitted(k, r) /\ End(w)
     \/ /\ r.state = "live" /\ Admitted(k, r)
        /\ \/ k = "refresh"               /\ Continue("rotate", r)
           \/ k = "select"                /\ Continue("set", Selected(r))
           \/ k = "verify"                /\ Continue("set", Verified(r))
           \/ k = "confirm"               /\ Continue("set", Confirmed(r))
           \/ k \in {"step-up", "reauth"} /\ Continue("set", SteppedUp(r))
           \/ k \in {"logout", "revoke"}
              /\ work' = [work EXCEPT ![w].pc = "find",
                                      ![w].held = work[w].todo]
           \/ k \in {"logout-all", "disable", "list"} /\ Go(w, "members")
  /\ UNCHANGED <<redisVars, cookie, counters, history>>

(* MUTANT: the token before the current one is accepted as well. *)
MatchesRecent(s, token) == token <= tok[s] /\ tok[s] <= token + 1

Matches(s, token) == token = tok[s]

(* compareAndRotateRefreshTokenHash, one script. *)
Rotate(w) ==
  LET s == work[w].s
      token == work[w].token
  IN
  /\ At(w, "rotate")
  /\ \/ /\ tok[s] = NoToken
        /\ work' = [work EXCEPT ![w].pc = "reply", ![w].token = NoToken,
                                ![w].copy = NoRecord]
        /\ UNCHANGED <<tok, history>>
     \/ /\ tok[s] # NoToken /\ ~Matches(s, token)
        /\ suspect' = suspect \union {s}
        /\ work' = [work EXCEPT ![w].pc = "members", ![w].token = NoToken,
                                ![w].copy = NoRecord]
        /\ UNCHANGED <<tok, faulted, raced, redeemed, ended, overlapped>>
     \/ /\ tok[s] # NoToken /\ Matches(s, token)
        /\ tok' = [tok EXCEPT ![s] = @ + 1]
        /\ redeemed' = redeemed \union {<<s, token>>}
        /\ work' = [work EXCEPT ![w].pc = "set", ![w].token = tok[s] + 1]
        /\ UNCHANGED <<faulted, raced, suspect, ended, overlapped>>
  /\ UNCHANGED <<rec, index, cookie, counters>>

-----------------------------------------------------------------------------
(* saveSession: SET, SADD; then what the handler does next. *)

SaveRecord(w) ==
  /\ At(w, "set")
  /\ rec' = [rec EXCEPT ![work[w].s] = work[w].copy]
  /\ work' = [work EXCEPT ![w].pc = "index", ![w].copy = NoRecord]
  /\ UNCHANGED <<index, tok, cookie, counters, history>>

(* MUTANT: only a later save puts a new session into the user's set. *)
AddExisting(w) ==
  index' = IF work[w].kind = "login" THEN index ELSE index \union {work[w].s}

AddToIndex(w) == index' = index \union {work[w].s}

SaveIndex(w) ==
  LET k == work[w].kind IN
  /\ At(w, "index")
  /\ AddToIndex(w)
  /\ \/ k = "login"   /\ Go(w, "token")
     \/ k = "refresh" /\ Go(w, "reply")
     \/ k = "confirm" /\ Go(w, "members")
     \/ k \notin {"login", "refresh", "confirm"} /\ End(w)
  /\ UNCHANGED <<rec, tok, cookie, counters, history>>

IssueToken(w) ==
  /\ At(w, "token")
  /\ tok' = [tok EXCEPT ![work[w].s] = 1]
  /\ work' = [work EXCEPT ![w].pc = "reply", ![w].token = 1]
  /\ UNCHANGED <<rec, index, cookie, counters, history>>

-----------------------------------------------------------------------------
(* revokeAllSessionsForUser and revokeSession; listSessionsForUser. *)

(* The sessions a user is logged in with. *)
Open == {s \in Sessions : rec[s].state = "live" /\ tok[s] # NoToken}

Members(w) ==
  LET k == work[w].kind
      kept == IF k = "confirm" THEN {work[w].s} ELSE {}
  IN
  /\ At(w, "members")
  /\ work' = [work EXCEPT
       ![w].pc = IF k = "list" THEN "scan" ELSE "find",
       ![w].todo = index \ kept,
       ![w].held = IF k = "list" THEN {} ELSE Open \ kept]
  /\ UNCHANGED <<redisVars, cookie, counters, history>>

Find(w) ==
  /\ At(w, "find")
  /\ \E s \in work[w].todo :
       IF rec[s].state = "absent"
       THEN work' = [work EXCEPT ![w].todo = @ \ {s}]
       ELSE work' = [work EXCEPT
              ![w].pc = "mark", ![w].cur = s,
              ![w].copy = Revoked]
  /\ UNCHANGED <<redisVars, cookie, counters, history>>

(* Some handler has read the record of s and is still to write it. *)
Pending(s) ==
  \E w \in Workers : work[w].s = s /\ work[w].pc \in {"rotate", "set"}

Overlap(s) == overlapped' = overlapped \union IF Pending(s) THEN {s} ELSE {}

MarkRevoked(w) ==
  LET s == work[w].cur IN
  /\ At(w, "mark")
  /\ rec' = [rec EXCEPT ![s] = work[w].copy]
  /\ Overlap(s)
  /\ work' = [work EXCEPT ![w].pc = "unindex", ![w].copy = NoRecord]
  /\ UNCHANGED <<index, tok, cookie, counters, faulted, raced, suspect, redeemed,
                 ended>>

Unindex(w) ==
  LET s == work[w].cur IN
  /\ At(w, "unindex")
  /\ index' = index \ {s}
  /\ work' = [work EXCEPT ![w].pc = "find", ![w].cur = NoSession,
                          ![w].todo = @ \ {s}]
  /\ UNCHANGED <<rec, tok, cookie, counters, history>>

(* All are revoked; handlers that end the caller's own session clear its   *)
(* cookies.                                                                *)
Swept(w) ==
  /\ At(w, "find")
  /\ work[w].todo = {}
  /\ ended' = ended \union work[w].held
  /\ IF work[w].kind \in CookieKinds
     THEN work' = [work EXCEPT ![w].pc = "reply", ![w].held = {}]
     ELSE End(w)
  /\ UNCHANGED <<redisVars, cookie, counters, faulted, raced, suspect, redeemed,
                 overlapped>>

Scan(w) ==
  /\ At(w, "scan")
  /\ \/ \E s \in work[w].todo :
          work' = [work EXCEPT
            ![w].todo = @ \ {s},
            ![w].stale = IF rec[s].state = "live" THEN @ ELSE @ \union {s}]
     \/ work[w].todo = {} /\ work[w].stale # {} /\ Go(w, "prune")
     \/ work[w].todo = {} /\ work[w].stale = {} /\ End(w)
  /\ UNCHANGED <<redisVars, cookie, counters, history>>

Prune(w) ==
  /\ At(w, "prune")
  /\ index' = index \ work[w].stale
  /\ End(w)
  /\ UNCHANGED <<rec, tok, cookie, counters, history>>

-----------------------------------------------------------------------------
(* Time and faults. *)

(* stepUpExpiresAt passes, of the record and of every copy of it. *)
StepUpLapses(s) ==
  /\ rec[s].level = "step_up"
  /\ rec' = [rec EXCEPT ![s].level = "lapsed"]
  /\ work' = [w \in Workers |->
       IF /\ s \in {work[w].s, work[w].cur} /\ work[w].copy.level = "step_up"
          /\ work[w].kind \notin {"step-up", "reauth"}
       THEN [work[w] EXCEPT !.copy.level = "lapsed"] ELSE work[w]]
  /\ UNCHANGED <<index, tok, cookie, counters, history>>

(* absoluteExpiresAt passes: the keys of the session are gone. *)
Expire(s) ==
  /\ s \in Expiring
  /\ rec[s].state # "absent" /\ tok[s] # NoToken
  /\ rec' = [rec EXCEPT ![s] = NoRecord]
  /\ tok' = [tok EXCEPT ![s] = NoToken]
  /\ Overlap(s)
  /\ UNCHANGED <<index, cookie, work, counters, faulted, raced, suspect, redeemed,
                 ended>>

Fault(w) ==
  /\ ~At(w, "idle")
  /\ faults < MaxFaults
  /\ faults' = faults + 1
  /\ faulted' = IF work[w].kind = "refresh" THEN faulted \union {work[w].s}
                                           ELSE faulted
  /\ UNCHANGED <<logins, requests, raced, suspect, redeemed, ended, overlapped>>

(* A Redis command times out, applied or not, or the process dies. *)
Throw(w) ==
  /\ Fault(w)
  /\ End(w)
  /\ UNCHANGED <<redisVars, cookie>>

(* The connection breaks, or the tab is closed; the handler goes on.  Only *)
(* a reply that changes the cookies is missed.                             *)
LoseReply(w) ==
  /\ work[w].kind \in CookieKinds \union {"login"}
  /\ Fault(w)
  /\ ~work[w].lost
  /\ work' = [work EXCEPT ![w].lost = TRUE]
  /\ UNCHANGED <<redisVars, cookie>>

-----------------------------------------------------------------------------
Handle(w) ==
  \/ Read(w) \/ Rotate(w)
  \/ SaveRecord(w) \/ SaveIndex(w) \/ IssueToken(w)
  \/ Members(w) \/ Find(w) \/ MarkRevoked(w) \/ Unindex(w) \/ Swept(w)
  \/ Scan(w) \/ Prune(w) \/ Reply(w)

Next ==
  \/ \E w \in Workers : \/ Login(w) \/ Handle(w)
                        \/ Throw(w) \/ LoseReply(w)
                        \/ "reset" \in Kinds /\ ResetPassword(w)
  \/ \E w \in Workers, s \in Sessions, kind \in AllKinds \ {"reset"} :
       Request(w, s, kind)
  \/ \E s \in Sessions : StepUpLapses(s) \/ Expire(s)

Spec == Init /\ [][Next]_vars

=============================================================================
