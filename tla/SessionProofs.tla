----------------------------- MODULE SessionProofs -----------------------------
(***************************************************************************)
(* Theorems of the BFF's sessions, for any number of sessions, of handlers *)
(* at once, of requests and of faults, and any kinds of requests.          *)
(***************************************************************************)
EXTENDS SessionProperties, TLAPS

(* What a handler may hold as the record it is going to write.             *)
Fits(r) ==
  /\ r \in Records
  /\ r.proof # NoWorkspace <=> r.level \in {"step_up", "lapsed"}

Placed(x) ==
  /\ Fits(x.copy)
  /\ x.pc = "idle" => x = Idle
  /\ x.pc # "idle" /\ x.kind # "reset" => x.s \in Sessions
  /\ x.kind = "reset" => x.s = NoSession /\ x.pc \in {"members", "find", "mark", "unindex"}
  /\ x.kind = "login" => x.pc \in {"idle", "set", "index", "token", "reply"}
  /\ x.pc \in {"mark", "unindex"} => x.cur \in Sessions
  /\ x.pc = "rotate" => x.kind = "refresh"
  /\ x.pc = "token" => x.kind = "login"

TypeInv ==
  /\ TypeOK
  /\ \A w \in Workers : Placed(work[w])

(* A step-up that a handler is about to write back is worth something only *)
(* in the workspace it was issued in.                                      *)
Sound(r) == r.level = "step_up" => r.proof = r.ws

StepUpInv ==
  /\ StepUpStaysInItsWorkspace
  /\ \A w \in Workers : Sound(work[w].copy)

(* The login of a session ends before its browser has a cookie, and before *)
(* that nobody else sends a request of it.                                 *)
LoggingIn(w, s) == work[w].kind = "login" /\ work[w].s = s

LoginInv ==
  /\ \A w \in Workers : work[w].s <= logins
  /\ \A s \in Sessions : cookie[s] # NoToken =>
       s <= logins /\ \A w \in Workers : ~LoggingIn(w, s)
  /\ \A s \in Sessions : \A v, w \in Workers :
       LoggingIn(w, s) /\ work[v].s = s => v = w

(* No token of s was issued yet.                                           *)
Unissued(s) ==
  \/ s > logins
  \/ \E w \in Workers : LoggingIn(w, s) /\ work[w].pc \in {"set", "index", "token"}

TokenInv ==
  /\ \A s \in Sessions : Unissued(s) =>
       tok[s] = NoToken /\ \A x \in redeemed : x[1] # s
  /\ \A x \in redeemed : tok[x[1]] = NoToken \/ x[2] < tok[x[1]]

(* A browser whose refreshes were neither faulty nor at once has the       *)
(* current token, unless a refresh that rotated it brings the new one.     *)
Excused == faulted \union (raced \ WebLocks)

Refreshing(w, s) == work[w].kind = "refresh" /\ work[w].s = s

Bringing(w, s) == Refreshing(w, s) /\ work[w].pc \in {"set", "index", "reply"}

Current(s, token) == tok[s] # NoToken => token = tok[s]

(* What a handler has to answer with, or has presented.                    *)
Answers(w) ==
  /\ work[w].kind = "refresh" =>
       /\ work[w].lost => work[w].s \in Excused
       /\ work[w].pc \in {"members", "find", "mark", "unindex"} => work[w].s \in suspect
       /\ work[w].pc \notin {"scan", "prune"}
       /\ work[w].s \in Excused \/ Current(work[w].s, work[w].token)
            \/ (work[w].pc = "reply" /\ work[w].token = NoToken)
  /\ work[w].kind = "login" /\ work[w].pc = "reply" => Current(work[w].s, work[w].token)
  /\ work[w].kind \notin {"refresh", "login"} => work[w].token = NoToken

Unsuspected == suspect \subseteq Excused

OneRefresh(s) == \A v, w \in Workers : Refreshing(v, s) /\ Refreshing(w, s) => v = w

CookieFits(s) ==
  cookie[s] = NoToken \/ Current(s, cookie[s]) \/ \E w \in Workers : Bringing(w, s)

ReuseInv ==
  /\ Unsuspected
  /\ \A w \in Workers : Answers(w)
  /\ \A s \in Sessions \ Excused : OneRefresh(s) /\ CookieFits(s)

(* Nothing refers to a session before its record is written.               *)
Unborn(s) ==
  \/ s > logins
  \/ \E w \in Workers : LoggingIn(w, s) /\ work[w].pc = "set"

Untraced(s) ==
  /\ rec[s].state = "absent"
  /\ s \notin index \union ended
  /\ \A w \in Workers : /\ s \notin work[w].todo \union work[w].stale \union work[w].held
                        /\ work[w].cur # s

(* Closed for good, but for a handler that held the record when it was.    *)
Closed(s) == rec[s].state # "live" \/ s \in overlapped

Writes(w) ==
  /\ work[w].pc \in {"rotate", "set"} =>
       /\ work[w].copy.state = "live"
       /\ \/ work[w].kind = "login"
          \/ rec[work[w].s].state = "live" \/ work[w].s \in overlapped
  /\ work[w].pc = "mark" => work[w].copy.state # "live"

Sweeps(w) ==
  /\ work[w].pc = "token" => Closed(work[w].s) \/ work[w].s \in index
  /\ work[w].pc = "unindex" => Closed(work[w].cur)
  /\ \A s \in work[w].stale : Closed(s)
  /\ work[w].pc \in {"find", "mark", "unindex"} =>
       \A s \in work[w].held : Closed(s) \/ s \in work[w].todo

RevocationInv ==
  /\ RevocationStands
  /\ \A s \in Sessions : Unborn(s) => Untraced(s)
  /\ \A s \in Sessions : Closed(s) \/ tok[s] = NoToken \/ s \in index
  /\ \A w \in Workers : Writes(w) /\ Sweeps(w)

-----------------------------------------------------------------------------
(* Types. *)

LEMMA RecordChanges ==
  ASSUME NEW r, Fits(r)
  PROVE  /\ Fits(Selected(r)) /\ Fits(Verified(r)) /\ Fits(Confirmed(r))
         /\ Fits(SteppedUp(r)) /\ Fits(NoRecord) /\ Fits(NewRecord) /\ Fits(Revoked)
<1> USE DEF Fits, Records, Workspaces, NoWorkspace
<1>1. Fits(NoRecord) /\ Fits(NewRecord) /\ Fits(Revoked)
  BY DEF NoRecord, NewRecord, Revoked
<1>2. Fits(Selected(r))
  <2>1. Selected(r) \in Records
    <3>1. r.ws \in {1, 2} /\ 3 - r.ws \in {1, 2}
      OBVIOUS
    <3> QED  BY <3>1 DEF Selected
  <2>2. Selected(r).proof = NoWorkspace /\ Selected(r).level \notin {"step_up", "lapsed"}
    BY DEF Selected
  <2> QED  BY <2>1, <2>2
<1>3. Fits(Verified(r))
  BY DEF Verified
<1>4. Fits(Confirmed(r))
  BY DEF Confirmed
<1>5. Fits(SteppedUp(r))
  <2>1. SteppedUp(r) \in Records
    BY DEF SteppedUp
  <2>2. SteppedUp(r).proof = r.ws /\ SteppedUp(r).level = "step_up"
    BY DEF SteppedUp
  <2> QED  BY <2>1, <2>2
<1> QED  BY <1>1, <1>2, <1>3, <1>4, <1>5

LEMMA IdleTyped == Idle \in WorkStates /\ Placed(Idle)
BY DEF Idle, WorkStates, Placed, Fits, Records, NoRecord, Workspaces, NoWorkspace,
       NoSession, NoToken

(* One handler moves, the others stay.                                     *)
Moves(w, x) == x \in WorkStates /\ Placed(x) /\ work' = [work EXCEPT ![w] = x]

LEMMA HandlerTyped ==
  ASSUME TypeInv, NEW w \in Workers, NEW x, Moves(w, x)
  PROVE  work' \in [Workers -> WorkStates] /\ \A v \in Workers : Placed(work'[v])
BY DEF TypeInv, TypeOK, Moves

LEMMA ReadTyped ==
  ASSUME TypeInv, NEW w \in Workers, Read(w)
  PROVE  \E x : Moves(w, x)
<1> DEFINE r == rec[work[w].s]
           k == work[w].kind
<1> USE DEF TypeInv, TypeOK
<1>1. work[w] \in WorkStates /\ Placed(work[w]) /\ Fits(r) /\ At(w, "read")
  BY DEF Read, At, Placed, Fits, NoSession
<1>2. ASSUME work' = [work EXCEPT ![w] = Idle] PROVE Moves(w, Idle)
  BY <1>2, IdleTyped DEF Moves
<1>3. ASSUME NEW pc \in {"rotate", "set"}, NEW copy, Fits(copy),
             pc = "rotate" => k = "refresh",
             work' = [work EXCEPT ![w].pc = pc, ![w].copy = copy]
      PROVE  Moves(w, [work[w] EXCEPT !.pc = pc, !.copy = copy])
  BY <1>1, <1>3 DEF Moves, WorkStates, Placed, Fits, At
<1>4. ASSUME work' = [work EXCEPT ![w].pc = "reply", ![w].token = NoToken]
      PROVE  Moves(w, [work[w] EXCEPT !.pc = "reply", !.token = NoToken])
  BY <1>1, <1>4 DEF Moves, WorkStates, Placed, At, NoToken
<1>5. ASSUME work' = [work EXCEPT ![w].pc = "find", ![w].held = work[w].todo]
      PROVE  Moves(w, [work[w] EXCEPT !.pc = "find", !.held = work[w].todo])
  BY <1>1, <1>5 DEF Moves, WorkStates, Placed, At
<1>6. ASSUME Go(w, "members")
      PROVE  Moves(w, [work[w] EXCEPT !.pc = "members"])
  BY <1>1, <1>6 DEF Moves, WorkStates, Placed, At, Go
<1>7. Fits(Selected(r)) /\ Fits(Verified(r)) /\ Fits(Confirmed(r)) /\ Fits(SteppedUp(r))
  BY <1>1, RecordChanges
<1>8. \/ k = "refresh" /\ work' = [work EXCEPT ![w].pc = "reply", ![w].token = NoToken]
      \/ work' = [work EXCEPT ![w] = Idle]
      \/ k = "refresh" /\ work' = [work EXCEPT ![w].pc = "rotate", ![w].copy = r]
      \/ work' = [work EXCEPT ![w].pc = "set", ![w].copy = Selected(r)]
      \/ work' = [work EXCEPT ![w].pc = "set", ![w].copy = Verified(r)]
      \/ work' = [work EXCEPT ![w].pc = "set", ![w].copy = Confirmed(r)]
      \/ work' = [work EXCEPT ![w].pc = "set", ![w].copy = SteppedUp(r)]
      \/ work' = [work EXCEPT ![w].pc = "find", ![w].held = work[w].todo]
      \/ Go(w, "members")
  BY DEF Read, End
<1> HIDE DEF r, k, TypeInv, TypeOK
<1> QED  BY <1>1, <1>2, <1>3, <1>4, <1>5, <1>6, <1>7, <1>8

(* A step of a handler changes that handler alone. *)
Handles(w) ==
  \/ Login(w) \/ Handle(w) \/ Throw(w) \/ LoseReply(w) \/ ResetPassword(w)
  \/ \E s \in Sessions, kind \in AllKinds \ {"reset"} : Request(w, s, kind)

LEMMA HandlerMoves ==
  ASSUME TypeInv, NEW w \in Workers, Handles(w)
  PROVE  \E x : Moves(w, x)
<1> USE SessionsAssumption DEF TypeInv, TypeOK
<1>1. work[w] \in WorkStates /\ Placed(work[w])
  OBVIOUS
<1>2. CASE End(w)
  BY <1>2, IdleTyped DEF Moves, End
<1>3. CASE Login(w)
  <2> DEFINE x == [Idle EXCEPT !.pc = "set", !.s = logins + 1, !.copy = NewRecord]
  <2>1. logins + 1 \in Sessions
    BY <1>3 DEF Login, Sessions
  <2>2. Fits(NewRecord)
    BY IdleTyped, RecordChanges DEF Placed
  <2>3. x \in WorkStates
    BY <2>1, <2>2, IdleTyped DEF WorkStates, Idle, Fits
  <2>4. Placed(x)
    BY <2>1, <2>2 DEF Placed, Idle
  <2> QED  BY <1>3, <2>3, <2>4 DEF Moves, Login
<1>4. CASE \E s \in Sessions, kind \in AllKinds \ {"reset"} : Request(w, s, kind)
  <2>1. PICK s \in Sessions, kind \in AllKinds \ {"reset"} : Request(w, s, kind)
    BY <1>4
  <2>2. PICK t \in IF kind = "revoke" THEN index \ {s} ELSE {s} :
          work' = [work EXCEPT ![w] =
                  [Idle EXCEPT !.pc = "read", !.kind = kind, !.s = s,
                     !.token = IF kind = "refresh" THEN cookie[s] ELSE NoToken,
                     !.todo = IF kind \in {"logout", "revoke"} THEN {t} ELSE {}]]
    BY <2>1 DEF Request
  <2> DEFINE token == IF kind = "refresh" THEN cookie[s] ELSE NoToken
             todo == IF kind \in {"logout", "revoke"} THEN {t} ELSE {}
             x == [Idle EXCEPT !.pc = "read", !.kind = kind, !.s = s,
                               !.token = token, !.todo = todo]
  <2>3. token \in Nat /\ todo \in SUBSET Sessions /\ work' = [work EXCEPT ![w] = x]
    BY <2>2 DEF NoToken
  <2> HIDE DEF token, todo
  <2>4. x \in WorkStates
    BY <2>3, IdleTyped DEF WorkStates, Idle
  <2>5. Placed(x)
    <3>1. Fits(NoRecord)
      BY IdleTyped DEF Placed, Idle
    <3>2. kind # "reset" /\ kind # "login"
      BY <2>1 DEF AllKinds
    <3> QED  BY <3>1, <3>2 DEF Placed, Idle
  <2> QED  BY <2>3, <2>4, <2>5 DEF Moves
<1>5. CASE ResetPassword(w)
  <2> DEFINE x == [Idle EXCEPT !.pc = "members", !.kind = "reset"]
  <2>1. x \in WorkStates /\ Placed(x)
    BY IdleTyped DEF WorkStates, Placed, Idle, AllKinds, NoSession
  <2> QED  BY <1>5, <2>1 DEF Moves, ResetPassword
<1>6. CASE Read(w)
  BY <1>6, ReadTyped
<1>7. CASE Rotate(w)
  <2>1. work[w].s \in Sessions /\ tok[work[w].s] + 1 \in Nat
    BY <1>1, <1>7 DEF Rotate, At, Placed
  <2>2. Fits(NoRecord) /\ NoRecord \in Records
    BY IdleTyped DEF Placed, Idle, Fits
  <2>3. CASE work' = [work EXCEPT ![w].pc = "reply", ![w].token = NoToken, ![w].copy = NoRecord]
    <3>1. Moves(w, [work[w] EXCEPT !.pc = "reply", !.token = NoToken, !.copy = NoRecord])
      BY <1>1, <1>7, <2>1, <2>2, <2>3 DEF Moves, WorkStates, Placed, Rotate, At, NoToken
    <3> QED  BY <3>1
  <2>4. CASE work' = [work EXCEPT ![w].pc = "members", ![w].token = NoToken, ![w].copy = NoRecord]
    <3>1. Moves(w, [work[w] EXCEPT !.pc = "members", !.token = NoToken, !.copy = NoRecord])
      BY <1>1, <1>7, <2>1, <2>2, <2>4 DEF Moves, WorkStates, Placed, Rotate, At, NoToken
    <3> QED  BY <3>1
  <2>5. CASE work' = [work EXCEPT ![w].pc = "set", ![w].token = tok[work[w].s] + 1]
    <3>1. Moves(w, [work[w] EXCEPT !.pc = "set", !.token = tok[work[w].s] + 1])
      BY <1>1, <1>7, <2>1, <2>5 DEF Moves, WorkStates, Placed, Rotate, At
    <3> QED  BY <3>1
  <2> QED  BY <1>7, <2>3, <2>4, <2>5 DEF Rotate
<1>8. CASE SaveRecord(w)
  <2> DEFINE x == [work[w] EXCEPT !.pc = "index", !.copy = NoRecord]
  <2>1. Moves(w, x)
    <3>1. Fits(NoRecord) /\ NoRecord \in Records
      BY IdleTyped DEF Placed, Idle, Fits
    <3>2. x \in WorkStates
      BY <1>1, <3>1 DEF WorkStates
    <3>3. Placed(x)
      BY <1>1, <1>8, <3>1 DEF WorkStates, Placed, SaveRecord, At
    <3>4. work' = [work EXCEPT ![w] = x]
      BY <1>8 DEF SaveRecord
    <3> QED  BY <3>2, <3>3, <3>4 DEF Moves
  <2> QED  BY <2>1
<1>9. CASE work[w].kind = "login" /\ Go(w, "token") /\ SaveIndex(w)
  <2>1. Moves(w, [work[w] EXCEPT !.pc = "token"])
    BY <1>1, <1>9 DEF Moves, WorkStates, Placed, SaveIndex, At, Go
  <2> QED  BY <2>1
<1>10. CASE Go(w, "reply") /\ SaveIndex(w)
  <2>1. Moves(w, [work[w] EXCEPT !.pc = "reply"])
    BY <1>1, <1>10 DEF Moves, WorkStates, Placed, SaveIndex, At, Go
  <2> QED  BY <2>1
<1>11. CASE work[w].kind = "confirm" /\ Go(w, "members") /\ SaveIndex(w)
  <2>1. Moves(w, [work[w] EXCEPT !.pc = "members"])
    BY <1>1, <1>11 DEF Moves, WorkStates, Placed, SaveIndex, At, Go
  <2> QED  BY <2>1
<1>12. CASE IssueToken(w)
  <2>1. Moves(w, [work[w] EXCEPT !.pc = "reply", !.token = 1])
    BY <1>1, <1>12 DEF Moves, WorkStates, Placed, IssueToken, At
  <2> QED  BY <2>1
<1>13. CASE Members(w)
  <2> DEFINE kept == IF work[w].kind = "confirm" THEN {work[w].s} ELSE {}
  <2>1. work' = [work EXCEPT
       ![w].pc = IF work[w].kind = "list" THEN "scan" ELSE "find",
       ![w].todo = index \ kept,
       ![w].held = IF work[w].kind = "list" THEN {} ELSE Open \ kept]
    BY <1>13 DEF Members
  <2> DEFINE held == IF work[w].kind = "list" THEN {} ELSE Open \ kept
  <2>3. index \ kept \in SUBSET Sessions /\ held \in SUBSET Sessions
    BY DEF Open
  <2> DEFINE pc == IF work[w].kind = "list" THEN "scan" ELSE "find"
             todo == index \ kept
             x == [work[w] EXCEPT !.pc = pc, !.todo = todo, !.held = held]
  <2>4. pc \in {"scan", "find"} /\ (work[w].kind = "reset" => pc = "find")
    OBVIOUS
  <2>5. work[w].pc = "members" /\ work' = [work EXCEPT ![w] = x]
    BY <1>1, <1>13, <2>1 DEF Members, At
  <2> HIDE DEF kept, held, pc, todo
  <2>6. x \in WorkStates
    BY <1>1, <2>3, <2>4 DEF WorkStates, todo
  <2>7. Placed(x)
    BY <1>1, <2>4, <2>5 DEF WorkStates, Placed
  <2> QED  BY <2>5, <2>6, <2>7 DEF Moves
<1>14. CASE Find(w)
  <2>1. PICK s \in work[w].todo :
       IF rec[s].state = "absent"
       THEN work' = [work EXCEPT ![w].todo = @ \ {s}]
       ELSE work' = [work EXCEPT
              ![w].pc = "mark", ![w].cur = s,
              ![w].copy = Revoked]
    BY <1>14 DEF Find
  <2>2. s \in Sessions /\ Fits(Revoked)
    BY <1>1, RecordChanges, IdleTyped DEF WorkStates, Placed, Idle
  <2>3. CASE work' = [work EXCEPT ![w].todo = @ \ {s}]
    <3>1. Moves(w, [work[w] EXCEPT !.todo = @ \ {s}])
      BY <1>1, <1>14, <2>3 DEF Moves, WorkStates, Placed, Find, At
    <3> QED  BY <3>1
  <2>4. CASE work' = [work EXCEPT ![w].pc = "mark", ![w].cur = s, ![w].copy = Revoked]
    <3>1. Moves(w, [work[w] EXCEPT !.pc = "mark", !.cur = s, !.copy = Revoked])
      BY <1>1, <1>14, <2>2, <2>4 DEF Moves, WorkStates, Placed, Find, At, Fits
    <3> QED  BY <3>1
  <2> QED  BY <2>1, <2>3, <2>4
<1>15. CASE MarkRevoked(w)
  <2> DEFINE x == [work[w] EXCEPT !.pc = "unindex", !.copy = NoRecord]
  <2>1. Moves(w, x)
    <3>1. Fits(NoRecord) /\ NoRecord \in Records
      BY IdleTyped DEF Placed, Idle, Fits
    <3>2. x \in WorkStates
      BY <1>1, <3>1 DEF WorkStates
    <3>3. Placed(x)
      BY <1>1, <1>15, <3>1 DEF WorkStates, Placed, MarkRevoked, At
    <3>4. work' = [work EXCEPT ![w] = x]
      BY <1>15 DEF MarkRevoked
    <3> QED  BY <3>2, <3>3, <3>4 DEF Moves
  <2> QED  BY <2>1
<1>16. CASE Unindex(w)
  <2>1. Moves(w, [work[w] EXCEPT !.pc = "find", !.cur = NoSession, !.todo = @ \ {work[w].cur}])
    BY <1>1, <1>16 DEF Moves, WorkStates, Placed, Unindex, At
  <2> QED  BY <2>1
<1>17. CASE Swept(w)
  <2>1. CASE work' = [work EXCEPT ![w].pc = "reply", ![w].held = {}]
             /\ work[w].kind \in CookieKinds
    <3>1. Moves(w, [work[w] EXCEPT !.pc = "reply", !.held = {}])
      BY <1>1, <1>17, <2>1 DEF Moves, WorkStates, Placed, Swept, At, CookieKinds
    <3> QED  BY <3>1
  <2> QED  BY <1>2, <1>17, <2>1 DEF Swept
<1>18. CASE Scan(w)
  <2>1. ASSUME NEW s \in work[w].todo,
          work' = [work EXCEPT
            ![w].todo = @ \ {s},
            ![w].stale = IF rec[s].state = "live" THEN @ ELSE @ \union {s}]
        PROVE  Moves(w, [work[w] EXCEPT !.todo = @ \ {s},
                 !.stale = IF rec[s].state = "live" THEN @ ELSE @ \union {s}])
    <3> DEFINE stale == IF rec[s].state = "live" THEN work[w].stale ELSE work[w].stale \union {s}
    <3>1. work[w].todo \ {s} \in SUBSET Sessions /\ stale \in SUBSET Sessions
      BY <1>1, <2>1 DEF WorkStates
    <3>2. work' = [work EXCEPT ![w].todo = @ \ {s}, ![w].stale = stale]
      BY <2>1
    <3> HIDE DEF stale
    <3>3. Moves(w, [work[w] EXCEPT !.todo = @ \ {s}, !.stale = stale])
      BY <1>1, <1>18, <3>1, <3>2 DEF Moves, WorkStates, Placed, Scan, At
    <3> QED  BY <3>3 DEF stale
  <2>2. CASE Go(w, "prune")
    <3>1. Moves(w, [work[w] EXCEPT !.pc = "prune"])
      BY <1>1, <1>18, <2>2 DEF Moves, WorkStates, Placed, Scan, At, Go
    <3> QED  BY <3>1
  <2> QED  BY <1>2, <1>18, <2>1, <2>2 DEF Scan
<1>19. CASE LoseReply(w)
  <2>1. Moves(w, [work[w] EXCEPT !.lost = TRUE])
    BY <1>1, <1>19 DEF Moves, WorkStates, Placed, LoseReply, Fault, At
  <2> QED  BY <2>1
<1> QED
  BY <1>2, <1>3, <1>4, <1>5, <1>6, <1>7, <1>8, <1>9, <1>10, <1>11, <1>12, <1>13, <1>14,
     <1>15, <1>16, <1>17, <1>18, <1>19
  DEF Handles, Handle, Throw, Reply, SaveIndex, Prune

(* The clock's steps. *)
LEMMA LapseMoves ==
  ASSUME TypeInv, NEW s \in Sessions, StepUpLapses(s)
  PROVE  /\ work' \in [Workers -> WorkStates]
         /\ \A w \in Workers : Placed(work'[w])
         /\ rec' \in [Sessions -> Records]
         /\ \A t \in Sessions : Fits(rec'[t]) /\ rec'[t].state = rec[t].state
         /\ \A w \in Workers :
              /\ work'[w].copy.state = work[w].copy.state
              /\ work'[w].copy.level = "step_up" => work'[w].copy = work[w].copy
              /\ \E copy : work'[w] = [work[w] EXCEPT !.copy = copy]
<1> USE DEF TypeInv, TypeOK
<1>1. rec[s] \in Records /\ Fits(rec[s]) /\ rec[s].level = "step_up"
  BY DEF StepUpLapses, Fits
<1>2. /\ Fits([rec[s] EXCEPT !.level = "lapsed"])
      /\ [rec[s] EXCEPT !.level = "lapsed"].state = rec[s].state
  BY <1>1 DEF Fits, Records
<1>3. ASSUME NEW w \in Workers, work[w].copy.level = "step_up"
      PROVE  /\ [work[w] EXCEPT !.copy.level = "lapsed"] \in WorkStates
             /\ Placed([work[w] EXCEPT !.copy.level = "lapsed"])
  <2>1. work[w] \in WorkStates /\ Placed(work[w]) /\ work[w] # Idle
    BY <1>3 DEF Idle, NoRecord
  <2>2. Fits([work[w].copy EXCEPT !.level = "lapsed"])
    BY <1>3, <2>1 DEF Fits, Records, Placed
  <2>3. [work[w] EXCEPT !.copy.level = "lapsed"] \in WorkStates
    BY <2>1, <2>2 DEF WorkStates, Fits
  <2> QED  BY <2>1, <2>2, <2>3 DEF Placed, WorkStates
<1>4. work' = [w \in Workers |->
       IF /\ s \in {work[w].s, work[w].cur} /\ work[w].copy.level = "step_up"
          /\ work[w].kind \notin {"step-up", "reauth"}
       THEN [work[w] EXCEPT !.copy.level = "lapsed"] ELSE work[w]]
  BY DEF StepUpLapses
<1>5. \A w \in Workers :
        \/ work'[w] = work[w]
        \/ /\ work[w].copy.level = "step_up"
           /\ work'[w] = [work[w] EXCEPT !.copy.level = "lapsed"]
  BY <1>4
<1>6. work' \in [Workers -> WorkStates] /\ \A w \in Workers : Placed(work'[w])
  BY <1>3, <1>4
<1>7. \A t \in Sessions : rec'[t] = IF t = s THEN [rec[s] EXCEPT !.level = "lapsed"] ELSE rec[t]
  BY DEF StepUpLapses
<1>8. \A t \in Sessions : Fits(rec'[t]) /\ rec'[t].state = rec[t].state
  BY <1>1, <1>2, <1>7 DEF Fits
<1>9. rec' \in [Sessions -> Records]
  BY <1>8 DEF StepUpLapses, Fits
<1>10. ASSUME NEW w \in Workers
       PROVE  /\ work'[w].copy.state = work[w].copy.state
              /\ work'[w].copy.level = "step_up" => work'[w].copy = work[w].copy
              /\ \E copy : work'[w] = [work[w] EXCEPT !.copy = copy]
  <2>1. work[w] \in WorkStates /\ work[w].copy \in Records
    BY DEF WorkStates
  <2>2. CASE work'[w] = work[w]
    <3>1. work'[w] = [work[w] EXCEPT !.copy = work[w].copy]
      BY <2>1, <2>2 DEF WorkStates
    <3> QED  BY <2>2, <3>1
  <2>3. CASE work'[w] = [work[w] EXCEPT !.copy.level = "lapsed"]
    <3> DEFINE copy == [work[w].copy EXCEPT !.level = "lapsed"]
    <3>1. work'[w] = [work[w] EXCEPT !.copy = copy]
      BY <2>3
    <3>2. copy.state = work[w].copy.state /\ copy.level = "lapsed"
      BY <2>1 DEF Records
    <3>3. work'[w].copy = copy
      BY <2>1, <3>1 DEF WorkStates
    <3> HIDE DEF copy
    <3> QED  BY <3>1, <3>2, <3>3
  <2> QED  BY <1>5, <2>2, <2>3
<1> QED  BY <1>6, <1>8, <1>9, <1>10

LEMMA NextSteps ==
  ASSUME [Next]_vars
  PROVE  \/ \E w \in Workers : Handles(w)
         \/ \E s \in Sessions : StepUpLapses(s) \/ Expire(s)
         \/ UNCHANGED vars
BY DEF Next, Handles

LEMMA TypesInitially == Init => TypeInv
<1> SUFFICES ASSUME Init PROVE TypeInv
  OBVIOUS
<1> USE SessionsAssumption DEF Init
<1>1. Fits(NoRecord) /\ NoRecord \in Records
  BY IdleTyped DEF Placed, Idle, Fits
<1>2. \A s \in Sessions : Fits(rec[s])
  BY <1>1
<1>3. TypeOK
  BY <1>1, <1>2, IdleTyped DEF TypeOK, Fits, NoToken
<1> QED  BY <1>3, IdleTyped DEF TypeInv

LEMMA TypesKept == TypeInv /\ [Next]_vars => TypeInv'
<1> SUFFICES ASSUME TypeInv, [Next]_vars PROVE TypeInv'
  OBVIOUS
<1> USE SessionsAssumption
<1>1. CASE \E w \in Workers : Handles(w)
  <2>1. PICK w \in Workers : Handles(w)
    BY <1>1
  <2>2. work' \in [Workers -> WorkStates] /\ \A v \in Workers : Placed(work'[v])
    BY <2>1, HandlerMoves, HandlerTyped
  <2>3. work[w] \in WorkStates /\ Placed(work[w])
    BY DEF TypeInv, TypeOK
  <2>4. rec' \in [Sessions -> Records] /\ \A s \in Sessions : Fits(rec'[s])
    <3>1. rec \in [Sessions -> Records] /\ \A s \in Sessions : Fits(rec[s])
      BY DEF TypeInv, TypeOK, Fits
    <3>2. CASE SaveRecord(w) \/ MarkRevoked(w)
      <4>1. PICK s \in Sessions : rec' = [rec EXCEPT ![s] = work[w].copy]
        BY <2>3, <3>2 DEF SaveRecord, MarkRevoked, At, Placed
      <4>2. Fits(work[w].copy) /\ work[w].copy \in Records
        BY <2>3 DEF Placed, Fits
      <4> QED  BY <3>1, <4>1, <4>2
    <3>3. CASE UNCHANGED rec
      BY <3>1, <3>3
    <3> QED
      BY <2>1, <3>2, <3>3
      DEF Handles, Login, Request, ResetPassword, Handle, Read, Rotate, SaveIndex,
          IssueToken, Members, Find, Unindex, Swept, Scan, Prune, Reply, Throw, LoseReply,
          redisVars
  <2>5. index' \in SUBSET Sessions
    <3>1. CASE SaveIndex(w)
      BY <2>3, <3>1 DEF SaveIndex, AddToIndex, TypeInv, TypeOK, At, Placed
    <3>2. CASE Unindex(w) \/ Prune(w)
      BY <3>2 DEF Unindex, Prune, TypeInv, TypeOK
    <3>3. CASE UNCHANGED index
      BY <3>3 DEF TypeInv, TypeOK
    <3> QED
      BY <2>1, <3>1, <3>2, <3>3
      DEF Handles, Login, Request, ResetPassword, Handle, Read, Rotate, SaveRecord,
          IssueToken, Members, Find, MarkRevoked, Swept, Scan, Reply, Throw, LoseReply,
          redisVars
  <2>6. tok' \in [Sessions -> Nat] /\ redeemed' \in SUBSET (Sessions \X Nat)
    <3>1. CASE Rotate(w)
      <4>1. work[w].s \in Sessions /\ work[w].token \in Nat
        BY <2>3, <3>1 DEF Rotate, At, Placed, WorkStates
      <4> QED  BY <3>1, <4>1 DEF Rotate, TypeInv, TypeOK, history
    <3>2. CASE IssueToken(w)
      BY <3>2 DEF IssueToken, TypeInv, TypeOK, history
    <3>3. CASE UNCHANGED <<tok, redeemed>>
      BY <3>3 DEF TypeInv, TypeOK
    <3> QED
      BY <2>1, <3>1, <3>2, <3>3
      DEF Handles, Login, Request, ResetPassword, Handle, Read, SaveRecord, SaveIndex,
          Members, Find, MarkRevoked, Unindex, Swept, Scan, Prune, Reply, Throw, LoseReply,
          Fault, redisVars, history
  <2>7. cookie' \in [Sessions -> Nat]
    <3>1. CASE Reply(w)
      BY <2>3, <3>1 DEF Reply, TypeInv, TypeOK, WorkStates
    <3>2. CASE UNCHANGED cookie
      BY <3>2 DEF TypeInv, TypeOK
    <3> QED
      BY <2>1, <3>1, <3>2
      DEF Handles, Login, Request, ResetPassword, Handle, Read, Rotate, SaveRecord,
          SaveIndex, IssueToken, Members, Find, MarkRevoked, Unindex, Swept, Scan, Prune,
          Throw, LoseReply
  <2>8. logins' \in 0 .. MaxSessions /\ requests' \in Nat /\ faults' \in Nat
    <3> USE DEF TypeInv, TypeOK
    <3>1. CASE Login(w)
      BY <3>1 DEF Login
    <3>2. CASE Throw(w) \/ LoseReply(w)
      BY <3>2 DEF Throw, LoseReply, Fault
    <3>3. CASE \E s \in Sessions, kind \in AllKinds \ {"reset"} : Request(w, s, kind)
      <4>1. logins' = logins /\ requests' = requests + 1 /\ faults' = faults
        BY <3>3 DEF Request
      <4> QED  BY <4>1
    <3>5. CASE ResetPassword(w)
      BY <3>5 DEF ResetPassword
    <3>4. CASE UNCHANGED counters
      BY <3>4 DEF counters
    <3> HIDE DEF TypeInv, TypeOK
    <3> QED
      BY <2>1, <3>1, <3>2, <3>3, <3>4, <3>5
      DEF Handles, Handle, Read, Rotate, SaveRecord,
          SaveIndex, IssueToken, Members, Find, MarkRevoked, Unindex, Swept, Scan, Prune,
          Reply
  <2>9. /\ faulted' \in SUBSET Sessions /\ suspect' \in SUBSET Sessions
        /\ raced' \in SUBSET Sessions
        /\ ended' \in SUBSET Sessions /\ overlapped' \in SUBSET Sessions
    <3>1. CASE Throw(w) \/ LoseReply(w)
      <4>1. work[w].kind = "refresh" => work[w].s \in Sessions
        BY <2>3, <3>1 DEF Throw, LoseReply, Fault, At, Placed
      <4> QED  BY <3>1, <4>1 DEF Throw, LoseReply, Fault, TypeInv, TypeOK
    <3>2. CASE Rotate(w) \/ MarkRevoked(w) \/ Swept(w)
      <4>1. At(w, "rotate") => work[w].s \in Sessions
        BY <2>3 DEF At, Placed
      <4>2. At(w, "mark") => work[w].cur \in Sessions
        BY <2>3 DEF At, Placed
      <4>3. work[w].held \in SUBSET Sessions
        BY <2>3 DEF WorkStates
      <4> QED
        BY <3>2, <4>1, <4>2, <4>3
        DEF Rotate, MarkRevoked, Swept, Overlap, TypeInv, TypeOK, history
    <3>3. CASE UNCHANGED history
      BY <3>3 DEF history, TypeInv, TypeOK
    <3>4. CASE \E s \in Sessions, kind \in AllKinds \ {"reset"} : Request(w, s, kind)
      <4>1. PICK s \in Sessions : raced' \in {raced, raced \union {s}}
        BY <3>4 DEF Request
      <4>2. UNCHANGED <<faulted, suspect, ended, overlapped>>
        BY <3>4 DEF Request
      <4> QED  BY <4>1, <4>2 DEF TypeInv, TypeOK
    <3> QED
      BY <2>1, <3>1, <3>2, <3>3, <3>4
      DEF Handles, Login, ResetPassword, Handle, Read, SaveRecord, SaveIndex,
          IssueToken, Members, Find, Unindex, Scan, Prune, Reply
  <2> QED  BY <2>2, <2>4, <2>5, <2>6, <2>7, <2>8, <2>9 DEF TypeInv, TypeOK, Fits
<1>2. CASE \E s \in Sessions : StepUpLapses(s)
  <2>1. PICK s \in Sessions : StepUpLapses(s)
    BY <1>2
  <2>2. UNCHANGED <<index, tok, cookie, counters, history>>
    BY <2>1 DEF StepUpLapses
  <2> QED
    BY <2>1, <2>2, LapseMoves DEF TypeInv, TypeOK, Fits, counters, history
<1>3. CASE \E s \in Sessions : Expire(s)
  <2>1. PICK s \in Sessions : Expire(s)
    BY <1>3
  <2>2. rec' \in [Sessions -> Records] /\ \A t \in Sessions : Fits(rec'[t])
    <3>1. \A t \in Sessions : Fits(rec[t])
      BY DEF TypeInv, TypeOK, Fits
    <3>2. Fits(NoRecord) /\ NoRecord \in Records
      BY IdleTyped DEF Placed, Idle, Fits
    <3> QED  BY <2>1, <3>1, <3>2 DEF Expire, TypeInv, TypeOK
  <2>3. tok' \in [Sessions -> Nat] /\ overlapped' \in SUBSET Sessions
    BY <2>1 DEF Expire, Overlap, TypeInv, TypeOK, NoToken
  <2>4. UNCHANGED <<index, cookie, work, counters, faulted, raced, suspect, redeemed, ended>>
    BY <2>1 DEF Expire
  <2> QED  BY <2>2, <2>3, <2>4 DEF TypeInv, TypeOK, Fits, counters
<1>4. CASE UNCHANGED vars
  BY <1>4 DEF vars, redisVars, counters, history, TypeInv, TypeOK, Placed
<1> QED  BY <1>1, <1>2, <1>3, <1>4, NextSteps

LEMMA TypesAlways == Spec => []TypeInv
BY TypesInitially, TypesKept, PTL DEF Spec

(* Records, handlers and the histories of the sessions keep their types,   *)
(* and a step-up always names the workspace it was issued in.              *)
THEOREM SessionTypes == Spec => []TypeOK
<1>1. TypeInv => TypeOK
  BY DEF TypeInv
<1> QED  BY <1>1, TypesAlways, PTL

-----------------------------------------------------------------------------
(* Step-ups. *)

LEMMA SoundChanges ==
  ASSUME NEW r, Fits(r), Sound(r)
  PROVE  /\ Sound(Selected(r)) /\ Sound(Verified(r)) /\ Sound(Confirmed(r))
         /\ Sound(SteppedUp(r)) /\ Sound(NoRecord) /\ Sound(NewRecord) /\ Sound(Revoked)
<1> USE DEF Fits, Records, Sound
<1>1. Sound(NoRecord) /\ Sound(NewRecord) /\ Sound(Revoked)
  BY DEF NoRecord, NewRecord, Revoked
<1>2. Sound(Selected(r)) /\ Sound(Verified(r)) /\ Sound(Confirmed(r))
  BY DEF Selected, Verified, Confirmed
<1>3. Sound(SteppedUp(r))
  BY DEF SteppedUp
<1> QED  BY <1>1, <1>2, <1>3

(* What a handler does to the record it is going to write.                 *)
LEMMA CopyMoves ==
  ASSUME TypeInv, NEW w \in Workers, Handles(w)
  PROVE  /\ \A v \in Workers \ {w} : work'[v] = work[v]
         /\ \/ work'[w].copy \in {work[w].copy, NoRecord, NewRecord, Revoked}
            \/ /\ Read(w) /\ work[w].s \in Sessions
               /\ LET r == rec[work[w].s] IN
                  work'[w].copy \in
                    {r, Selected(r), Verified(r), Confirmed(r), SteppedUp(r)}
<1> USE DEF TypeInv, TypeOK
<1>1. work[w] \in WorkStates /\ Placed(work[w])
  OBVIOUS
<1>2. \A v \in Workers \ {w} : work'[v] = work[v]
  BY HandlerMoves DEF Moves
<1>3. CASE Read(w)
  <2>1. work[w].s \in Sessions
    BY <1>1, <1>3 DEF Read, At, Placed
  <2> QED  BY <1>2, <1>3, <2>1 DEF Read, End, Go, Idle, WorkStates
<1>4. CASE Login(w) \/ ResetPassword(w)
  BY <1>2, <1>4 DEF Login, ResetPassword, Idle
<1>5. CASE \E s \in Sessions, kind \in AllKinds \ {"reset"} : Request(w, s, kind)
  BY <1>2, <1>5 DEF Request, Idle
<1>6. CASE Rotate(w)
  BY <1>1, <1>2, <1>6 DEF Rotate, Go, End, Idle, WorkStates
<1>7. CASE SaveRecord(w)
  BY <1>1, <1>2, <1>7 DEF SaveRecord, Go, End, Idle, WorkStates
<1>8. CASE SaveIndex(w)
  BY <1>1, <1>2, <1>8 DEF SaveIndex, Go, End, Idle, WorkStates
<1>9. CASE IssueToken(w)
  BY <1>1, <1>2, <1>9 DEF IssueToken, Go, End, Idle, WorkStates
<1>10. CASE Members(w)
  BY <1>1, <1>2, <1>10 DEF Members, Go, End, Idle, WorkStates
<1>11. CASE Find(w)
  BY <1>1, <1>2, <1>11 DEF Find, Go, End, Idle, WorkStates
<1>12. CASE MarkRevoked(w)
  BY <1>1, <1>2, <1>12 DEF MarkRevoked, Go, End, Idle, WorkStates
<1>13. CASE Unindex(w)
  BY <1>1, <1>2, <1>13 DEF Unindex, Go, End, Idle, WorkStates
<1>14. CASE Swept(w)
  BY <1>1, <1>2, <1>14 DEF Swept, Go, End, Idle, WorkStates
<1>15. CASE Scan(w)
  <2>1. ASSUME NEW s \in work[w].todo, NEW stale,
               work' = [work EXCEPT ![w].todo = @ \ {s}, ![w].stale = stale]
        PROVE  work'[w].copy = work[w].copy
    BY <1>1, <2>1 DEF WorkStates
  <2>2. CASE Go(w, "prune")
    BY <1>1, <2>2 DEF Go, WorkStates
  <2>3. CASE End(w)
    BY <2>3 DEF End, Idle
  <2>4. \/ \E s \in work[w].todo : \E stale :
             work' = [work EXCEPT ![w].todo = @ \ {s}, ![w].stale = stale]
        \/ Go(w, "prune") \/ End(w)
    BY <1>15 DEF Scan
  <2> QED  BY <1>2, <2>1, <2>2, <2>3, <2>4
<1>16. CASE Prune(w)
  BY <1>1, <1>2, <1>16 DEF Prune, Go, End, Idle, WorkStates
<1>17. CASE Reply(w)
  BY <1>1, <1>2, <1>17 DEF Reply, Go, End, Idle, WorkStates
<1>18. CASE Throw(w)
  BY <1>1, <1>2, <1>18 DEF Throw, Go, End, Idle, WorkStates
<1>19. CASE LoseReply(w)
  BY <1>1, <1>2, <1>19 DEF LoseReply, Go, End, Idle, WorkStates
<1> QED
  BY <1>3, <1>4, <1>5, <1>6, <1>7, <1>8, <1>9, <1>10, <1>11, <1>12, <1>13, <1>14, <1>15, <1>16, <1>17, <1>18, <1>19
  DEF Handles, Handle

LEMMA StepUpKept == TypeInv /\ StepUpInv /\ [Next]_vars => StepUpInv'
<1> SUFFICES ASSUME TypeInv, StepUpInv, [Next]_vars PROVE StepUpInv'
  OBVIOUS
<1>1. CASE \E w \in Workers : Handles(w)
  <2>1. PICK w \in Workers : Handles(w)
    BY <1>1
  <2>2. ASSUME NEW s \in Sessions PROVE Fits(rec[s]) /\ Sound(rec[s])
    BY DEF TypeInv, TypeOK, Fits, StepUpInv, StepUpStaysInItsWorkspace, Sound
  <2>3. Fits(NoRecord) /\ Sound(NoRecord) /\ Sound(NewRecord) /\ Sound(Revoked)
    <3>1. Fits(NoRecord)
      BY IdleTyped DEF Placed, Idle
    <3> QED  BY <3>1 DEF Sound, NoRecord, NewRecord, Revoked
  <2>4. \A v \in Workers : Sound(work'[v].copy)
    BY <2>1, <2>2, <2>3, CopyMoves, SoundChanges DEF StepUpInv
  <2>5. \A s \in Sessions : Sound(rec'[s])
    <3>1. CASE SaveRecord(w) \/ MarkRevoked(w)
      BY <2>2, <3>1 DEF SaveRecord, MarkRevoked, StepUpInv, TypeInv, TypeOK
    <3>2. CASE UNCHANGED rec
      BY <2>2, <3>2
    <3> QED
      BY <2>1, <3>1, <3>2
      DEF Handles, Login, Request, ResetPassword, Handle, Read, Rotate, SaveIndex,
          IssueToken, Members, Find, Unindex, Swept, Scan, Prune, Reply, Throw, LoseReply,
          redisVars
  <2> QED  BY <2>4, <2>5 DEF StepUpInv, StepUpStaysInItsWorkspace, Sound
<1>2. CASE \E s \in Sessions : StepUpLapses(s)
  <2>1. PICK s \in Sessions : StepUpLapses(s)
    BY <1>2
  <2>2. \A t \in Sessions : rec'[t].level = "step_up" => rec'[t] = rec[t]
    BY <2>1 DEF StepUpLapses, TypeInv, TypeOK, Records
  <2>3. \A w \in Workers : work'[w].copy.level = "step_up" => work'[w].copy = work[w].copy
    BY <2>1, LapseMoves
  <2> QED  BY <2>2, <2>3 DEF StepUpInv, StepUpStaysInItsWorkspace, Sound
<1>3. CASE \E s \in Sessions : Expire(s)
  BY <1>3 DEF Expire, NoRecord, TypeInv, TypeOK, StepUpInv, StepUpStaysInItsWorkspace, Sound
<1>4. CASE UNCHANGED vars
  BY <1>4 DEF vars, redisVars, StepUpInv, StepUpStaysInItsWorkspace
<1> QED  BY <1>1, <1>2, <1>3, <1>4, NextSteps

(* However handlers interleave and write back what they read before, the   *)
(* stored step-up is one of the workspace that is stored with it.          *)
THEOREM StepUpsStayInTheirWorkspace == Spec => []StepUpStaysInItsWorkspace
<1>1. Init => StepUpInv
  BY DEF Init, Idle, NoRecord, StepUpInv, StepUpStaysInItsWorkspace, Sound
<1>2. StepUpInv => StepUpStaysInItsWorkspace
  BY DEF StepUpInv
<1> QED  BY <1>1, <1>2, StepUpKept, TypesAlways, PTL DEF Spec

-----------------------------------------------------------------------------
(* Logins. *)

Continues(w) ==
  /\ work[w].pc # "idle" /\ work'[w].pc # "idle"
  /\ work'[w].kind = work[w].kind
  /\ work'[w].s = work[w].s

(* Whose request a handler handles changes when it begins or ends.         *)
LEMMA Identity ==
  ASSUME TypeInv, NEW w \in Workers, Handles(w)
  PROVE  \/ work'[w] = Idle
         \/ Continues(w)
         \/ /\ Login(w) \/ ResetPassword(w)
               \/ \E s \in Sessions, kind \in AllKinds \ {"reset"} : Request(w, s, kind)
            /\ work[w] = Idle
<1> USE DEF TypeInv, TypeOK
<1>1. work[w] \in WorkStates /\ Placed(work[w])
  OBVIOUS
<1>2. CASE \/ Login(w) \/ ResetPassword(w)
           \/ \E s \in Sessions, kind \in AllKinds \ {"reset"} : Request(w, s, kind)
  BY <1>1, <1>2 DEF Login, ResetPassword, Request, FirstIdle, At, Placed
<1>3. CASE End(w)
  BY <1>3 DEF End
<1>4. CASE Read(w)
  BY <1>1, <1>3, <1>4 DEF Read, At, Go, Continues, WorkStates
<1>5. CASE Rotate(w)
  BY <1>1, <1>3, <1>5 DEF Rotate, At, Go, Continues, WorkStates
<1>6. CASE SaveRecord(w)
  BY <1>1, <1>3, <1>6 DEF SaveRecord, At, Go, Continues, WorkStates
<1>7. CASE SaveIndex(w)
  BY <1>1, <1>3, <1>7 DEF SaveIndex, At, Go, Continues, WorkStates
<1>8. CASE IssueToken(w)
  BY <1>1, <1>3, <1>8 DEF IssueToken, At, Go, Continues, WorkStates
<1>9. CASE Members(w)
  BY <1>1, <1>3, <1>9 DEF Members, At, Go, Continues, WorkStates
<1>10. CASE Find(w)
  BY <1>1, <1>3, <1>10 DEF Find, At, Go, Continues, WorkStates
<1>11. CASE MarkRevoked(w)
  BY <1>1, <1>3, <1>11 DEF MarkRevoked, At, Go, Continues, WorkStates
<1>12. CASE Unindex(w)
  BY <1>1, <1>3, <1>12 DEF Unindex, At, Go, Continues, WorkStates
<1>13. CASE Swept(w)
  BY <1>1, <1>3, <1>13 DEF Swept, At, Go, Continues, WorkStates
<1>14. CASE Scan(w)
  <2>1. ASSUME NEW s \in work[w].todo, NEW stale,
               work' = [work EXCEPT ![w].todo = @ \ {s}, ![w].stale = stale]
        PROVE  Continues(w)
    BY <1>1, <1>14, <2>1 DEF Scan, At, Continues, WorkStates
  <2>2. CASE Go(w, "prune")
    BY <1>1, <1>14, <2>2 DEF Scan, At, Go, Continues, WorkStates
  <2> QED  BY <1>3, <1>14, <2>1, <2>2 DEF Scan
<1>15. CASE LoseReply(w)
  BY <1>1, <1>15 DEF LoseReply, Fault, At, Continues, WorkStates
<1> QED
  BY <1>2, <1>3, <1>4, <1>5, <1>6, <1>7, <1>8, <1>9, <1>10, <1>11, <1>12, <1>13, <1>14, <1>15
  DEF Handles, Handle, Prune, Reply, Throw

(* Only Reply changes a cookie, only a login the number of logins.         *)
LEMMA CookieMoves ==
  ASSUME TypeInv, NEW w \in Workers, Handles(w)
  PROVE  /\ \/ UNCHANGED cookie
            \/ /\ Reply(w) /\ ~work[w].lost /\ work'[w] = Idle
               /\ cookie' = [cookie EXCEPT ![work[w].s] = work[w].token]
         /\ \/ UNCHANGED logins
            \/ Login(w) /\ logins' = logins + 1
<1>1. CASE Reply(w)
  BY <1>1 DEF Reply, End, counters, TypeInv, TypeOK
<1>2. CASE Login(w)
  BY <1>2 DEF Login
<1> QED
  BY <1>1, <1>2
  DEF Handles, Request, ResetPassword, Handle, Read, Rotate, SaveRecord,
      SaveIndex, IssueToken, Members, Find, MarkRevoked, Unindex, Swept, Scan, Prune,
      Throw, LoseReply, Fault, counters

LEMMA LoginKept == TypeInv /\ LoginInv /\ [Next]_vars => LoginInv'
<1> SUFFICES ASSUME TypeInv, LoginInv, [Next]_vars PROVE LoginInv'
  OBVIOUS
<1>1. CASE \E w \in Workers : Handles(w)
  <2>1. PICK w \in Workers : Handles(w)
    BY <1>1
  <2>2. \A v \in Workers \ {w} : work'[v] = work[v]
    BY <2>1, HandlerMoves DEF Moves, TypeInv, TypeOK
  <2>3. /\ logins \in Nat /\ cookie \in [Sessions -> Nat]
        /\ \A v \in Workers : /\ work[v] \in WorkStates /\ Placed(work[v])
                              /\ work[v].s \in Sessions \union {NoSession}
    BY SessionsAssumption DEF TypeInv, TypeOK, WorkStates
  <2>4. Idle.s = NoSession /\ Idle.kind = "login" /\ NoSession \notin Sessions
        /\ NoSession <= logins /\ Sessions \subseteq Nat
    BY <2>3 DEF Idle, NoSession, Sessions
  <2>5. CASE work'[w] = Idle
    <3>1. UNCHANGED logins
      <4>1. Login(w) => work'[w].pc = "set"
        BY DEF Login, Idle, TypeInv, TypeOK
      <4>2. Idle.pc = "idle"
        BY DEF Idle
      <4> QED  BY <2>1, <2>5, <4>1, <4>2, CookieMoves
    <3>2. ASSUME NEW s \in Sessions, cookie'[s] # NoToken
          PROVE  cookie[s] # NoToken \/ (s = work[w].s /\ Reply(w))
      BY <2>1, <2>3, <3>2, CookieMoves
    <3>3. ASSUME NEW s \in Sessions, s = work[w].s
          PROVE  s <= logins /\ \A v \in Workers : ~LoggingIn(v, s)'
      BY <2>2, <2>4, <2>5, <3>3 DEF LoginInv, LoggingIn
    <3> QED
      BY <2>2, <2>3, <2>4, <2>5, <3>1, <3>2, <3>3 DEF LoginInv, LoggingIn
  <2>6. CASE Continues(w)
    <3>1. UNCHANGED cookie
      BY <2>1, <2>6, CookieMoves DEF Continues, Idle
    <3>2. UNCHANGED logins
      BY <2>1, <2>6, CookieMoves DEF Continues, Login, FirstIdle, At
    <3> QED  BY <2>2, <2>6, <3>1, <3>2 DEF LoginInv, LoggingIn, Continues
  <2>7. CASE Login(w)
    <3>1. logins' = logins + 1 /\ UNCHANGED cookie
          /\ work'[w].s = logins + 1 /\ work'[w].kind = "login"
      BY <2>7 DEF Login, Idle, TypeInv, TypeOK
    <3>2. \A v \in Workers \ {w} : /\ work'[v].s \in Nat /\ work'[v].s <= logins
                                     /\ work'[v].s # logins + 1
      <4>1. NoSession \in Nat
        BY DEF NoSession
      <4>2. \A v \in Workers : work[v].s \in Nat
        BY <2>3, <2>4, <4>1
      <4>3. \A v \in Workers : work[v].s <= logins
        BY DEF LoginInv
      <4> QED  BY <2>2, <2>3, <4>2, <4>3
    <3>3. \A s \in Sessions : cookie'[s] # NoToken =>
            /\ s <= logins /\ s # logins + 1
            /\ \A v \in Workers \ {w} : ~LoggingIn(v, s)'
      BY <2>2, <2>3, <2>4, <3>1 DEF LoginInv, LoggingIn
    <3>4. (\A v \in Workers : work[v].s <= logins)'
      BY <2>3, <2>4, <3>1, <3>2
    <3>5. (\A s \in Sessions : cookie[s] # NoToken =>
             s <= logins /\ \A v \in Workers : ~LoggingIn(v, s))'
      <4> SUFFICES ASSUME NEW s \in Sessions, cookie'[s] # NoToken, NEW v \in Workers
                   PROVE  s <= logins' /\ ~LoggingIn(v, s)'
        BY <2>3, <2>4, <3>1, <3>3
      <4>1. s \in Nat /\ s <= logins /\ s # logins + 1
        BY <2>4, <3>3
      <4>2. CASE v = w
        BY <2>3, <3>1, <4>1, <4>2 DEF LoggingIn
      <4>3. CASE v # w
        BY <2>3, <3>1, <3>3, <4>1, <4>3
      <4> QED  BY <4>2, <4>3
    <3>6. (\A s \in Sessions : \A u, v \in Workers :
             LoggingIn(v, s) /\ work[u].s = s => u = v)'
      BY <2>2, <3>1, <3>2 DEF LoginInv, LoggingIn
    <3> QED  BY <3>4, <3>5, <3>6 DEF LoginInv
  <2>8. CASE ResetPassword(w)
    <3>1. UNCHANGED <<logins, cookie>> /\ work'[w].s = NoSession
      BY <2>8 DEF ResetPassword, Idle, TypeInv, TypeOK
    <3> QED  BY <2>2, <2>3, <2>4, <3>1 DEF LoginInv, LoggingIn
  <2>9. CASE \E s \in Sessions, kind \in AllKinds \ {"reset"} : Request(w, s, kind)
    <3>1. PICK s \in Sessions, kind \in AllKinds \ {"reset"} : Request(w, s, kind)
      BY <2>9
    <3>2. UNCHANGED <<logins, cookie>> /\ work'[w].s = s /\ work'[w].kind = kind
      BY <3>1 DEF Request, Idle, TypeInv, TypeOK
    <3>3. kind # "login" /\ cookie[s] # NoToken
      BY <3>1 DEF Request, AllKinds
    <3> QED  BY <2>2, <2>3, <2>4, <3>2, <3>3 DEF LoginInv, LoggingIn
  <2> QED  BY <2>1, <2>5, <2>6, <2>7, <2>8, <2>9, Identity
<1>2. CASE \E s \in Sessions : StepUpLapses(s)
  <2>1. PICK s \in Sessions : StepUpLapses(s)
    BY <1>2
  <2>2. UNCHANGED <<logins, cookie>>
        /\ \A w \in Workers : work'[w].kind = work[w].kind /\ work'[w].s = work[w].s
    BY <2>1, LapseMoves DEF StepUpLapses, counters, TypeInv, TypeOK, WorkStates
  <2> QED  BY <2>2 DEF LoginInv, LoggingIn
<1>3. CASE \E s \in Sessions : Expire(s)
  BY <1>3 DEF Expire, counters, LoginInv, LoggingIn
<1>4. CASE UNCHANGED vars
  BY <1>4 DEF vars, counters, LoginInv, LoggingIn
<1> QED  BY <1>1, <1>2, <1>3, <1>4, NextSteps

LEMMA LoginsAlways == Spec => [](TypeInv /\ LoginInv)
<1>1. Init => LoginInv
  BY SessionsAssumption DEF Init, Idle, LoginInv, LoggingIn, NoSession, NoToken, Sessions
<1> QED  BY <1>1, LoginKept, TypesAlways, PTL DEF Spec

-----------------------------------------------------------------------------
(* Tokens. *)

(* The way of a handler, and what it has to answer with.                   *)
LEMMA Progress ==
  ASSUME TypeInv, NEW w \in Workers, Handles(w), Continues(w)
  PROVE  /\ \/ work'[w].pc = work[w].pc /\ work'[w].copy = work[w].copy
            \/ Read(w) /\ work[w].pc = "read" /\ work[w].kind # "login"
                 /\ work'[w].pc \in {"reply", "rotate", "set", "find", "members"}
                 /\ (work[w].kind = "refresh" => work'[w].pc \in {"reply", "rotate"})
            \/ Rotate(w) /\ work[w].pc = "rotate"
            \/ SaveRecord(w) /\ work[w].pc = "set" /\ work'[w].pc = "index"
            \/ SaveIndex(w) /\ work[w].pc = "index"
                 /\ work'[w].pc = CASE work[w].kind = "login" -> "token"
                                     [] work[w].kind = "refresh" -> "reply"
                                     [] OTHER -> "members"
            \/ IssueToken(w) /\ work[w].pc = "token" /\ work'[w].pc = "reply"
            \/ Members(w) /\ work[w].pc = "members"
                 /\ work'[w].pc = IF work[w].kind = "list" THEN "scan" ELSE "find"
            \/ Find(w) /\ work[w].pc = "find" /\ work'[w].pc = "mark"
            \/ MarkRevoked(w) /\ work[w].pc = "mark" /\ work'[w].pc = "unindex"
            \/ Unindex(w) /\ work[w].pc = "unindex" /\ work'[w].pc = "find"
            \/ Swept(w) /\ work[w].pc = "find" /\ work'[w].pc = "reply"
            \/ Scan(w) /\ work[w].pc = "scan" /\ work'[w].pc = "prune"
         /\ work'[w].lost = work[w].lost \/ LoseReply(w)
         /\ \/ work'[w].token = work[w].token
            \/ Rotate(w) \/ IssueToken(w)
            \/ Read(w) /\ work'[w].pc = "reply" /\ work'[w].token = NoToken
<1> USE DEF TypeInv, TypeOK
<1>1. work[w] \in WorkStates /\ Placed(work[w]) /\ work[w].pc # "idle" /\ work'[w].pc # "idle"
  BY DEF Continues
<1>2. ~End(w)
  BY <1>1 DEF End, Idle
<1>3. CASE Read(w)
  BY <1>1, <1>2, <1>3 DEF Read, At, Go, WorkStates, Placed
<1>4. CASE Rotate(w)
  BY <1>1, <1>2, <1>4 DEF Rotate, At, WorkStates
<1>5. CASE SaveRecord(w)
  BY <1>1, <1>2, <1>5 DEF SaveRecord, At, Go, WorkStates, Placed
<1>6. CASE SaveIndex(w)
  BY <1>1, <1>2, <1>6 DEF SaveIndex, At, Go, WorkStates, Placed
<1>7. CASE IssueToken(w)
  BY <1>1, <1>2, <1>7 DEF IssueToken, At, Go, WorkStates, Placed
<1>8. CASE Members(w)
  <2>1. ASSUME NEW pc, NEW todo, NEW held,
               work' = [work EXCEPT ![w].pc = pc, ![w].todo = todo, ![w].held = held]
        PROVE  /\ work'[w].pc = pc /\ work'[w].lost = work[w].lost
               /\ work'[w].token = work[w].token
    BY <1>1, <2>1 DEF WorkStates
  <2> DEFINE kept == IF work[w].kind = "confirm" THEN {work[w].s} ELSE {}
             pc == IF work[w].kind = "list" THEN "scan" ELSE "find"
             todo == index \ kept
             held == IF work[w].kind = "list" THEN {} ELSE Open \ kept
  <2>2. /\ work' = [work EXCEPT ![w].pc = pc, ![w].todo = todo, ![w].held = held]
        /\ work[w].pc = "members"
    BY <1>8 DEF Members, At
  <2> HIDE DEF kept, pc, todo, held
  <2>4. /\ work'[w].pc = pc /\ work'[w].lost = work[w].lost
        /\ work'[w].token = work[w].token
    BY <2>1, <2>2
  <2> QED  BY <1>8, <2>2, <2>4 DEF pc
<1>9. CASE Find(w)
  <2>1. PICK s \in work[w].todo :
          \/ work' = [work EXCEPT ![w].todo = @ \ {s}]
          \/ work' = [work EXCEPT ![w].pc = "mark", ![w].cur = s, ![w].copy = Revoked]
    BY <1>9 DEF Find
  <2>2. work[w].pc = "find"
    BY <1>9 DEF Find, At
  <2>3. \/ work'[w].pc = work[w].pc /\ work'[w].copy = work[w].copy
        \/ work'[w].pc = "mark"
    BY <1>1, <2>1 DEF WorkStates
  <2>4. work'[w].lost = work[w].lost /\ work'[w].token = work[w].token
    BY <1>1, <2>1 DEF WorkStates
  <2> QED  BY <1>9, <2>2, <2>3, <2>4
<1>10. CASE MarkRevoked(w)
  BY <1>1, <1>2, <1>10 DEF MarkRevoked, At, Go, WorkStates, Placed
<1>11. CASE Unindex(w)
  BY <1>1, <1>2, <1>11 DEF Unindex, At, Go, WorkStates, Placed
<1>12. CASE Swept(w)
  BY <1>1, <1>2, <1>12 DEF Swept, At, Go, WorkStates, Placed
<1>13. CASE Scan(w)
  <2>1. ASSUME NEW s \in work[w].todo, NEW stale,
               work' = [work EXCEPT ![w].todo = @ \ {s}, ![w].stale = stale]
        PROVE  /\ work'[w].pc = work[w].pc /\ work'[w].lost = work[w].lost
               /\ work'[w].token = work[w].token /\ work'[w].copy = work[w].copy
    BY <1>1, <2>1 DEF WorkStates
  <2>2. ASSUME Go(w, "prune")
        PROVE  /\ work'[w].pc = "prune" /\ work'[w].lost = work[w].lost
               /\ work'[w].token = work[w].token
    BY <1>1, <2>2 DEF Go, WorkStates
  <2> QED  BY <1>2, <1>13, <2>1, <2>2 DEF Scan, At
<1>14. CASE LoseReply(w)
  BY <1>1, <1>14 DEF LoseReply, WorkStates
<1>15. ~Login(w) /\ ~ResetPassword(w)
       /\ ~\E s \in Sessions, kind \in AllKinds \ {"reset"} : Request(w, s, kind)
  BY <1>1 DEF Login, ResetPassword, Request, FirstIdle, At
<1> QED
  BY <1>2, <1>3, <1>4, <1>5, <1>6, <1>7, <1>8, <1>9, <1>10, <1>11, <1>12, <1>13, <1>14, <1>15
  DEF Handles, Handle, Prune, Reply, Throw

(* compareAndRotateRefreshTokenHash answers one of three things.           *)
LEMMA Rotation ==
  ASSUME TypeInv, NEW w \in Workers, Rotate(w)
  PROVE  /\ work[w].s \in Sessions /\ work[w].kind = "refresh" /\ work[w].pc = "rotate"
         /\ work[w].token \in Nat
         /\ \/ /\ tok[work[w].s] = NoToken /\ work'[w].pc = "reply"
               /\ work'[w].token = NoToken
               /\ UNCHANGED <<tok, redeemed, suspect>>
            \/ /\ tok[work[w].s] # NoToken /\ work[w].token # tok[work[w].s]
               /\ work'[w].pc = "members" /\ work'[w].token = NoToken
               /\ suspect' = suspect \union {work[w].s}
               /\ UNCHANGED <<tok, redeemed>>
            \/ /\ tok[work[w].s] # NoToken /\ work[w].token = tok[work[w].s]
               /\ work'[w].pc = "set" /\ work'[w].token = tok[work[w].s] + 1
               /\ tok' = [tok EXCEPT ![work[w].s] = @ + 1]
               /\ redeemed' = redeemed \union {<<work[w].s, work[w].token>>}
               /\ UNCHANGED suspect
<1> USE DEF TypeInv, TypeOK
<1>1. work[w] \in WorkStates /\ Placed(work[w]) /\ work[w].pc = "rotate"
  BY DEF Rotate, At
<1>2. work[w].s \in Sessions /\ work[w].kind = "refresh" /\ work[w].token \in Nat
  BY <1>1 DEF Placed, WorkStates
<1>3. CASE tok[work[w].s] = NoToken
  BY <1>1, <1>2, <1>3 DEF Rotate, history, WorkStates
<1>4. CASE tok[work[w].s] # NoToken /\ work[w].token # tok[work[w].s]
  BY <1>1, <1>2, <1>4 DEF Rotate, Matches, WorkStates
<1>5. CASE tok[work[w].s] # NoToken /\ work[w].token = tok[work[w].s]
  BY <1>1, <1>2, <1>5 DEF Rotate, Matches, WorkStates
<1> QED  BY <1>1, <1>2, <1>3, <1>4, <1>5

LEMMA TokenMoves ==
  ASSUME TypeInv, NEW w \in Workers, Handles(w)
  PROVE  \/ Rotate(w)
         \/ /\ IssueToken(w) /\ tok' = [tok EXCEPT ![work[w].s] = 1]
            /\ work[w].pc = "token" /\ work[w].kind = "login" /\ work[w].s \in Sessions
            /\ work'[w].pc = "reply" /\ work'[w].token = 1
            /\ UNCHANGED <<redeemed, suspect>>
         \/ UNCHANGED <<tok, redeemed, suspect>>
<1>1. CASE IssueToken(w)
  BY <1>1 DEF IssueToken, At, Placed, history, TypeInv, TypeOK, WorkStates
<1> QED
  BY <1>1
  DEF Handles, Login, Request, ResetPassword, Handle, Read, SaveRecord, SaveIndex,
      Members, Find, MarkRevoked, Unindex, Swept, Scan, Prune, Reply, Throw, LoseReply,
      Fault, redisVars, history

(* A session once issued a token stays so. *)
LEMMA IssuedStays ==
  ASSUME TypeInv, NEW w \in Workers, Handles(w), NEW s \in Sessions, Unissued(s)'
  PROVE  Unissued(s)
<1>1. \A v \in Workers \ {w} : work'[v] = work[v]
  BY HandlerMoves DEF Moves, TypeInv, TypeOK
<1>2. logins \in Nat /\ s \in Nat
  BY SessionsAssumption DEF TypeInv, TypeOK, Sessions
<1>3. CASE s > logins'
  BY <1>2, <1>3, CookieMoves DEF Unissued
<1>4. ASSUME NEW v \in Workers, LoggingIn(v, s)', work'[v].pc \in {"set", "index", "token"}
      PROVE  Unissued(s)
  <2>1. CASE v # w
    BY <1>1, <1>4, <2>1 DEF Unissued, LoggingIn
  <2>2. CASE v = w /\ Continues(w)
    <3>1. work[w].pc \in {"set", "index", "token", "reply"} /\ LoggingIn(w, s)
      BY <1>4, <2>2 DEF Continues, LoggingIn, TypeInv, Placed
    <3>2. work[w].pc \in {"set", "index", "token"}
      BY <1>4, <2>2, <3>1, Progress
    <3> QED  BY <3>1, <3>2 DEF Unissued
  <2>3. CASE v = w /\ work'[w] = Idle
    BY <1>4, <2>3 DEF Idle
  <2>4. CASE v = w /\ Login(w)
    <3>1. s = logins + 1
      BY <1>4, <2>4 DEF Login, Idle, LoggingIn, TypeInv, TypeOK
    <3> QED  BY <1>2, <3>1 DEF Unissued
  <2>5. CASE v = w /\ ResetPassword(w)
    BY <1>4, <2>5 DEF ResetPassword, Idle, LoggingIn, TypeInv, TypeOK
  <2>6. CASE v = w /\ \E t \in Sessions, kind \in AllKinds \ {"reset"} : Request(w, t, kind)
    <3>1. work'[w].pc = "read"
      BY <2>6 DEF Request, Idle, TypeInv, TypeOK
    <3> QED  BY <1>4, <2>6, <3>1
  <2> QED  BY <2>1, <2>2, <2>3, <2>4, <2>5, <2>6, Identity
<1> QED  BY <1>3, <1>4 DEF Unissued

LEMMA TokenKept == TypeInv /\ LoginInv /\ TokenInv /\ [Next]_vars => TokenInv'
<1> SUFFICES ASSUME TypeInv, LoginInv, TokenInv, [Next]_vars PROVE TokenInv'
  OBVIOUS
<1>1. CASE \E w \in Workers : Handles(w)
  <2>1. PICK w \in Workers : Handles(w)
    BY <1>1
  <2>2. tok \in [Sessions -> Nat] /\ redeemed \subseteq Sessions \X Nat
    BY DEF TypeInv, TypeOK
  <2>3. \A s \in Sessions : Unissued(s)' => Unissued(s)
    BY <2>1, IssuedStays
  <2>4. CASE UNCHANGED <<tok, redeemed>>
    BY <2>3, <2>4 DEF TokenInv
  <2>5. CASE IssueToken(w)
    <3> PICK s : s = work[w].s
      OBVIOUS
    <3>1. /\ tok' = [tok EXCEPT ![s] = 1] /\ redeemed' = redeemed
          /\ s \in Sessions /\ Unissued(s) /\ LoggingIn(w, s)
          /\ work'[w].pc = "reply"
      <4>1. ~Rotate(w) /\ tok' = [tok EXCEPT ![s] = 1] 
        BY <2>5 DEF IssueToken, Rotate, At
      <4>2. /\ redeemed' = redeemed /\ work'[w].pc = "reply" /\ work[w].pc = "token"
            /\ work[w].kind = "login" /\ work[w].s \in Sessions
        <5>1. work[w] \in WorkStates /\ Placed(work[w])
          BY DEF TypeInv, TypeOK
        <5> QED  BY <2>5, <5>1 DEF IssueToken, At, Placed, history, WorkStates, TypeInv, TypeOK
      <4> QED  BY <4>1, <4>2 DEF Unissued, LoggingIn
    <3>2. ~Unissued(s)'
      <4>1. \A v \in Workers \ {w} : work'[v] = work[v]
        BY <2>5 DEF IssueToken, TypeInv, TypeOK
      <4>2. \A v \in Workers : LoggingIn(v, s)' => v = w
        BY <3>1, <4>1 DEF LoginInv, LoggingIn
      <4>3. s <= logins /\ logins' = logins
        BY <3>1, <2>5 DEF LoginInv, IssueToken, counters
      <4>4. s \in Nat /\ logins \in Nat
        BY <3>1, SessionsAssumption DEF Sessions, TypeInv, TypeOK
      <4> QED  BY <3>1, <4>2, <4>3, <4>4 DEF Unissued
    <3>3. \A x \in redeemed : x[1] # s
      BY <3>1 DEF TokenInv
    <3>4. ASSUME NEW t \in Sessions, Unissued(t)'
          PROVE  tok'[t] = NoToken /\ \A x \in redeemed' : x[1] # t
      BY <2>2, <2>3, <3>1, <3>2, <3>4 DEF TokenInv
    <3>5. ASSUME NEW x \in redeemed'
          PROVE  tok'[x[1]] = NoToken \/ x[2] < tok'[x[1]]
      <4>1. x \in redeemed /\ x[1] \in Sessions /\ x[1] # s
        BY <2>2, <3>1, <3>3, <3>5
      <4> QED  BY <2>2, <3>1, <4>1 DEF TokenInv
    <3> QED  BY <3>4, <3>5 DEF TokenInv
  <2>6. CASE Rotate(w)
    <3> PICK s : s = work[w].s
      OBVIOUS
    <3>1. s \in Sessions /\ ~Unissued(s)
      <4>1. s \in Sessions /\ work[w].kind = "refresh" /\ s <= logins /\ logins \in Nat
        BY <2>6, Rotation DEF LoginInv, TypeInv, TypeOK
      <4> QED  BY <4>1 DEF Unissued, LoggingIn, LoginInv, Sessions
    <3>2. CASE UNCHANGED <<tok, redeemed>>
      BY <2>4, <3>2
    <3>3. CASE /\ tok[s] # NoToken /\ tok' = [tok EXCEPT ![s] = @ + 1]
               /\ redeemed' = redeemed \union {<<s, tok[s]>>}
      <4>1. tok[s] \in Nat /\ \A t \in Sessions : tok'[t] = IF t = s THEN tok[s] + 1 ELSE tok[t]
        BY <2>2, <3>1, <3>3
      <4>2. ASSUME NEW t \in Sessions, Unissued(t)'
            PROVE  tok'[t] = NoToken /\ \A x \in redeemed' : x[1] # t
        BY <2>3, <3>1, <3>3, <4>1, <4>2 DEF TokenInv
      <4>3. ASSUME NEW x \in redeemed'
            PROVE  tok'[x[1]] = NoToken \/ x[2] < tok'[x[1]]
        <5>1. CASE x = <<s, tok[s]>>
          BY <3>1, <4>1, <5>1
        <5>2. CASE x \in redeemed
          <6>1. x[1] \in Sessions /\ x[2] \in Nat /\ tok[x[1]] \in Nat
            BY <2>2, <5>2
          <6>2. tok[x[1]] = NoToken \/ x[2] < tok[x[1]]
            BY <5>2 DEF TokenInv
          <6>3. CASE x[1] # s
            BY <4>1, <6>1, <6>2, <6>3
          <6>4. CASE x[1] = s
            <7>1. tok[s] # NoToken
              BY <3>3
            <7> QED  BY <4>1, <6>1, <6>2, <6>4, <7>1
          <6> QED  BY <6>3, <6>4
        <5> QED  BY <3>3, <4>3, <5>1, <5>2
      <4> QED  BY <4>2, <4>3 DEF TokenInv
    <3> QED  BY <2>6, <3>2, <3>3, Rotation
  <2> QED  BY <2>1, <2>4, <2>5, <2>6, TokenMoves
<1>2. CASE \E s \in Sessions : StepUpLapses(s)
  <2>1. PICK s \in Sessions : StepUpLapses(s)
    BY <1>2
  <2>2. UNCHANGED <<logins, tok, redeemed>>
        /\ \A w \in Workers : /\ work'[w].kind = work[w].kind /\ work'[w].s = work[w].s
                              /\ work'[w].pc = work[w].pc
    BY <2>1, LapseMoves DEF StepUpLapses, counters, history, TypeInv, TypeOK, WorkStates
  <2> QED  BY <2>2 DEF TokenInv, Unissued, LoggingIn
<1>3. CASE \E s \in Sessions : Expire(s)
  BY <1>3 DEF Expire, counters, TokenInv, Unissued, LoggingIn, TypeInv, TypeOK
<1>4. CASE UNCHANGED vars
  BY <1>4 DEF vars, redisVars, counters, history, TokenInv, Unissued, LoggingIn
<1> QED  BY <1>1, <1>2, <1>3, <1>4, NextSteps

LEMMA TokensAlways == Spec => [](TypeInv /\ LoginInv /\ TokenInv)
<1>1. Init => TokenInv
  BY DEF Init, Idle, TokenInv, Unissued, LoggingIn
<1> QED  BY <1>1, TokenKept, LoginsAlways, PTL DEF Spec

(* A refresh token is exchanged at most once, whatever requests present it *)
(* at the same time, before or after the session expires.                  *)
THEOREM TokensAreSpentOnce == Spec => TokenIsSpentOnce
<1> DEFINE SpentOnce ==
      \A w \in Workers :
        At(w, "rotate") /\ work'[w].pc = "set" => <<work[w].s, work[w].token>> \notin redeemed
<1>1. TypeInv /\ TokenInv /\ [Next]_vars => [SpentOnce]_vars
  <2> SUFFICES ASSUME TypeInv, TokenInv, [Next]_vars, NEW w \in Workers,
                      At(w, "rotate"), work'[w].pc = "set"
               PROVE  <<work[w].s, work[w].token>> \notin redeemed
    OBVIOUS
  <2>1. Rotate(w)
    <3>1. CASE \E v \in Workers : Handles(v)
      <4>1. PICK v \in Workers : Handles(v)
        BY <3>1
      <4>2. v = w
        BY <4>1, HandlerMoves DEF Moves, At, TypeInv, TypeOK
      <4>3. Continues(w)
        BY <4>1, <4>2, Identity DEF At, Idle
      <4> QED  BY <4>1, <4>2, <4>3, Progress DEF At
    <3>2. CASE \E s \in Sessions : StepUpLapses(s)
      BY <3>2, LapseMoves DEF At, TypeInv, TypeOK, WorkStates
    <3>3. CASE \E s \in Sessions : Expire(s)
      BY <3>3 DEF Expire, At
    <3>4. CASE UNCHANGED vars
      BY <3>4 DEF vars, At
    <3> QED  BY <3>1, <3>2, <3>3, <3>4, NextSteps
  <2>2. /\ work[w].s \in Sessions /\ tok[work[w].s] # NoToken
        /\ work[w].token = tok[work[w].s] /\ tok[work[w].s] \in Nat
    BY <2>1, Rotation DEF TypeInv, TypeOK
  <2> QED  BY <2>2 DEF TokenInv
<1> QED  BY <1>1, TokensAlways, PTL DEF Spec, TokenIsSpentOnce

-----------------------------------------------------------------------------
(* Reuse of a token. *)

LEMMA FaultMoves ==
  ASSUME TypeInv, NEW w \in Workers, Handles(w)
  PROVE  /\ Excused \subseteq Excused'
         /\ Throw(w) \/ LoseReply(w) => (work[w].kind = "refresh" => work[w].s \in Excused')
<1>1. CASE Throw(w) \/ LoseReply(w)
  BY <1>1 DEF Throw, LoseReply, Fault, Excused
<1>2. CASE \E s \in Sessions, kind \in AllKinds \ {"reset"} : Request(w, s, kind)
  BY <1>2 DEF Request, Throw, LoseReply, Fault, Excused
<1> QED
  BY <1>1, <1>2
  DEF Handles, Login, ResetPassword, Handle, Read, Rotate, SaveRecord, SaveIndex,
      IssueToken, Members, Find, MarkRevoked, Unindex, Swept, Scan, Prune, Reply, history,
      Excused

(* A refresh ends with its reply, or with a fault.                         *)
LEMMA RefreshEnds ==
  ASSUME TypeInv, NEW w \in Workers, Handles(w), work'[w] = Idle,
         work[w].kind = "refresh", work[w].pc \notin {"scan", "prune"}
  PROVE  Reply(w) \/ Throw(w)
<1> USE DEF TypeInv, TypeOK
<1>1. work[w] \in WorkStates /\ work[w].pc # "idle" /\ Idle.pc = "idle" /\ work'[w].pc = "idle"
  BY DEF Placed, Idle
<1>2. ~Read(w)
  BY <1>1 DEF Read, Admitted, WorkStates, Go, At
<1>3. ~Rotate(w)
  BY <1>1 DEF Rotate, WorkStates
<1>4. ~SaveRecord(w) /\ ~SaveIndex(w) /\ ~IssueToken(w)
  BY <1>1 DEF SaveRecord, SaveIndex, IssueToken, Go, WorkStates
<1>5. ~Members(w)
  BY <1>1 DEF Members, WorkStates
<1>6. ~Find(w)
  <2> SUFFICES ASSUME Find(w) PROVE FALSE
    OBVIOUS
  <2>1. PICK s \in work[w].todo :
          \/ work' = [work EXCEPT ![w].todo = @ \ {s}]
          \/ work' = [work EXCEPT ![w].pc = "mark", ![w].cur = s, ![w].copy = Revoked]
    BY DEF Find
  <2>2. work'[w].pc \in {work[w].pc, "mark"}
    BY <1>1, <2>1 DEF WorkStates
  <2> QED  BY <1>1, <2>2
<1>7. ~MarkRevoked(w) /\ ~Unindex(w)
  BY <1>1 DEF MarkRevoked, Unindex, WorkStates
<1>8. ~Swept(w)
  BY <1>1 DEF Swept, CookieKinds, WorkStates
<1>9. ~Scan(w) /\ ~Prune(w)
  BY DEF Scan, Prune, At
<1>10. ~LoseReply(w)
  BY <1>1 DEF LoseReply, WorkStates
<1>11. ~Login(w) /\ ~ResetPassword(w)
       /\ ~\E s \in Sessions, kind \in AllKinds \ {"reset"} : Request(w, s, kind)
  BY <1>1 DEF Login, ResetPassword, Request, FirstIdle, At
<1> QED
  BY <1>2, <1>3, <1>4, <1>5, <1>6, <1>7, <1>8, <1>9, <1>10, <1>11 DEF Handles, Handle

(* A browser begins a refresh when it has none in progress.                *)
LEMMA RefreshBegins ==
  ASSUME TypeInv, ReuseInv, NEW w \in Workers, Handles(w),
         NEW s \in Sessions, Refreshing(w, s)'
  PROVE  \/ Continues(w) /\ Refreshing(w, s)
         \/ /\ s \notin Excused' => \A v \in Workers : ~Refreshing(v, s)
            /\ UNCHANGED <<tok, cookie>>
            /\ cookie[s] # NoToken /\ work'[w].token = cookie[s]
            /\ work'[w].pc = "read" /\ ~work'[w].lost
<1> USE DEF TypeInv, TypeOK
<1>1. CASE Continues(w)
  BY <1>1 DEF Continues, Refreshing
<1>2. CASE work'[w] = Idle
  BY <1>2 DEF Idle, Refreshing
<1>3. CASE Login(w) \/ ResetPassword(w)
  BY <1>3 DEF Login, ResetPassword, Idle, Refreshing
<1>4. CASE \E t \in Sessions, kind \in AllKinds \ {"reset"} : Request(w, t, kind)
  <2>1. PICK t \in Sessions, kind \in AllKinds \ {"reset"} : Request(w, t, kind)
    BY <1>4
  <2>7. PICK u \in IF kind = "revoke" THEN index \ {t} ELSE {t} :
          work' = [work EXCEPT ![w] =
                  [Idle EXCEPT !.pc = "read", !.kind = kind, !.s = t,
                     !.token = IF kind = "refresh" THEN cookie[t] ELSE NoToken,
                     !.todo = IF kind \in {"logout", "revoke"} THEN {u} ELSE {}]]
    BY <2>1 DEF Request
  <2> DEFINE token == IF kind = "refresh" THEN cookie[t] ELSE NoToken
             todo == IF kind \in {"logout", "revoke"} THEN {u} ELSE {}
  <2>2. /\ work'[w] = [Idle EXCEPT !.pc = "read", !.kind = kind, !.s = t,
                                   !.token = token, !.todo = todo]
        /\ kind = "refresh" => token = cookie[t]
    BY <2>7
  <2> HIDE DEF token, todo
  <2>3. work'[w].kind = kind /\ work'[w].s = t /\ work'[w].token = token
        /\ work'[w].pc = "read" /\ ~work'[w].lost
    BY <2>2 DEF Idle
  <2>4. kind = "refresh" /\ t = s
    BY <2>3 DEF Refreshing
  <2>5. MayRefresh(s) /\ cookie[s] # NoToken /\ UNCHANGED <<tok, cookie>>
    BY <2>1, <2>4 DEF Request, redisVars
  <2>6. s \notin Excused' => \A v \in Workers : ~Refreshing(v, s)
    <3>1. s \notin Excused' => s \notin Excused /\ ~RefreshUnderWay(s)
      BY <2>1, <2>4, <2>5 DEF Request, MayRefresh, Excused
    <3> QED  BY <3>1 DEF RefreshUnderWay, Refreshing, ReuseInv, Answers
  <2> QED  BY <2>2, <2>3, <2>4, <2>5, <2>6
<1> QED  BY <1>1, <1>2, <1>3, <1>4, Identity

LEMMA ReuseKept ==
  TypeInv /\ LoginInv /\ ReuseInv /\ [Next]_vars => ReuseInv'
<1> SUFFICES ASSUME TypeInv, LoginInv, ReuseInv, [Next]_vars PROVE ReuseInv'
  OBVIOUS
<1>1. ASSUME NEW w \in Workers, Handles(w) PROVE ReuseInv'
  <2>1. \A v \in Workers \ {w} : work'[v] = work[v]
    BY <1>1, HandlerMoves DEF Moves, TypeInv, TypeOK
  <2>2. /\ tok \in [Sessions -> Nat] /\ cookie \in [Sessions -> Nat]
        /\ \A v \in Workers : work[v].kind = "refresh" => work[v].s \in Sessions
    BY DEF TypeInv, TypeOK, Placed, Idle
  <2>3. Excused \subseteq Excused' /\ suspect \subseteq suspect'
    BY <1>1, FaultMoves, TokenMoves, Rotation
  <2>4. suspect' \subseteq Excused'
    <3>1. CASE Rotate(w)
      BY <2>3, <3>1, Rotation DEF ReuseInv, Unsuspected, Answers, Current
    <3>2. CASE UNCHANGED suspect
      BY <2>3, <3>2 DEF ReuseInv, Unsuspected
    <3> QED  BY <1>1, <3>1, <3>2, TokenMoves
  <2>5. \A s \in Sessions : \/ tok'[s] = tok[s]
                            \/ s = work[w].s /\ (Rotate(w) \/ IssueToken(w))
    BY <1>1, <2>2, TokenMoves, Rotation
  <2>6. ASSUME NEW v \in Workers \ {w} PROVE Answers(v)'
    <3>1. ASSUME \/ work[v].kind = "refresh" /\ work[v].s \notin Excused
                 \/ work[v].kind = "login" /\ work[v].pc = "reply"
          PROVE  tok'[work[v].s] = tok[work[v].s]
      <4>1. work[v].s \in Sessions
        BY <3>1 DEF TypeInv, TypeOK, Placed, Idle
      <4>2. work[v].kind = "login" => work[w].s # work[v].s
        BY <4>1 DEF LoginInv, LoggingIn
      <4>3. IssueToken(w) => work[w].kind = "login" /\ work[w].s \in Sessions
        BY DEF IssueToken, At, TypeInv, TypeOK, Placed
      <4>4. IssueToken(w) => work[w].s # work[v].s
        BY <4>3 DEF LoginInv, LoggingIn
      <4>5. Rotate(w) => work[w].kind = "refresh"
        BY Rotation
      <4>6. Rotate(w) => work[w].s # work[v].s
        BY <3>1, <4>1, <4>2, <4>5 DEF ReuseInv, OneRefresh, Refreshing
      <4> QED  BY <2>5, <4>1, <4>4, <4>6
    <3>2. Answers(v)
      BY DEF ReuseInv
    <3>3. work'[v] = work[v]
      BY <2>1
    <3>4. ASSUME work[v].kind = "refresh" PROVE Answers(v)'
      <4>1. \/ work[v].s \in Excused' \/ Current(work[v].s, work[v].token)'
            \/ (work[v].pc = "reply" /\ work[v].token = NoToken)
        <5>1. \/ work[v].s \in Excused \/ Current(work[v].s, work[v].token)
              \/ (work[v].pc = "reply" /\ work[v].token = NoToken)
          BY <3>2, <3>4 DEF Answers
        <5>2. CASE work[v].s \notin Excused
          <6>1. tok'[work[v].s] = tok[work[v].s]
            BY <3>1, <3>4, <5>2
          <6> QED  BY <3>3, <5>1, <5>2, <6>1 DEF Current
        <5> QED  BY <2>3, <5>2
      <4> QED  BY <2>3, <3>2, <3>3, <3>4, <4>1 DEF Answers
    <3>5. ASSUME work[v].kind # "refresh" PROVE Answers(v)'
      BY <3>1, <3>2, <3>3, <3>5 DEF Answers, Current
    <3> QED  BY <3>4, <3>5
  <2>7. Answers(w)'
    <3>1. Answers(w)
      BY DEF ReuseInv
    <3>2. CASE work'[w] = Idle
      BY <3>2 DEF Answers, Idle
    <3>3. CASE Continues(w)
      <4>1. work'[w].kind = work[w].kind /\ work'[w].s = work[w].s
        BY <3>3 DEF Continues
      <4>2. CASE work[w].kind = "refresh"
        <5>1. work'[w].lost => work[w].s \in Excused'
          BY <1>1, <2>3, <3>1, <3>3, <4>2, Progress, FaultMoves DEF Answers
        <5>2. work'[w].pc \in {"members", "find", "mark", "unindex"} => work[w].s \in suspect'
          BY <1>1, <2>3, <3>1, <3>3, <4>2, Progress, Rotation DEF Answers
        <5>3. work'[w].pc \notin {"scan", "prune"}
          BY <1>1, <3>1, <3>3, <4>2, Progress, Rotation DEF Answers
        <5>4. \/ work[w].s \in Excused' \/ Current(work[w].s, work[w].token)'
              \/ (work'[w].pc = "reply" /\ work'[w].token = NoToken)
          <6>1. CASE Rotate(w)
            <7>1. CASE work'[w].pc = "set"
              BY <2>2, <4>1, <6>1, <7>1, Rotation DEF Current
            <7>2. CASE work'[w].pc = "members"
              BY <2>4, <6>1, <7>2, Rotation
            <7> QED  BY <6>1, <7>1, <7>2, Rotation
          <6>2. CASE ~Rotate(w)
            <7>1. ~IssueToken(w)
              BY <4>2 DEF IssueToken, At, TypeInv, Placed
            <7>2. tok'[work[w].s] = tok[work[w].s]
              BY <2>2, <2>5, <4>2, <6>2, <7>1
            <7>3. work'[w].token = work[w].token
                  \/ (work'[w].pc = "reply" /\ work'[w].token = NoToken)
              BY <1>1, <3>3, <6>2, <7>1, Progress
            <7>4. work[w].pc = "reply" => work'[w].pc = "reply"
              BY <1>1, <3>3, <6>2, Progress
            <7>5. \/ work[w].s \in Excused \/ Current(work[w].s, work[w].token)
                  \/ (work[w].pc = "reply" /\ work[w].token = NoToken)
              BY <3>1, <4>2 DEF Answers
            <7> QED  BY <2>3, <4>1, <7>2, <7>3, <7>4, <7>5 DEF Current
          <6> QED  BY <6>1, <6>2
        <5> QED  BY <4>1, <4>2, <5>1, <5>2, <5>3, <5>4 DEF Answers
      <4>3. CASE work[w].kind = "login"
        <5>1. ~Rotate(w) /\ ~Read(w)
          BY <4>3, Rotation DEF Read, At, TypeInv, Placed
        <5>2. work[w].s \in Sessions /\ work[w].pc \in {"set", "index", "token", "reply"}
          BY <3>3, <4>3 DEF Continues, TypeInv, Placed
        <5>3. CASE IssueToken(w)
          <6>1. tok'[work[w].s] = 1
            BY <2>2, <5>2, <5>3 DEF IssueToken
          <6>2. work'[w].token = 1
            BY <5>3 DEF IssueToken, TypeInv, TypeOK, WorkStates
          <6> QED  BY <4>1, <4>3, <6>1, <6>2 DEF Answers, Current
        <5>4. CASE ~IssueToken(w)
          <6>1. work'[w].pc = "reply" => work[w].pc = "reply"
            BY <1>1, <3>3, <4>3, <5>1, <5>2, <5>4, Progress
          <6>2. work'[w].token = work[w].token
            BY <1>1, <3>3, <5>1, <5>4, Progress
          <6>3. tok'[work[w].s] = tok[work[w].s]
            BY <2>5, <5>1, <5>2, <5>4
          <6> QED  BY <3>1, <4>1, <4>3, <6>1, <6>2, <6>3 DEF Answers, Current
        <5> QED  BY <5>3, <5>4
      <4>4. CASE work[w].kind \notin {"refresh", "login"}
        <5>1. ~Rotate(w) /\ ~IssueToken(w)
          BY <4>4, Rotation DEF IssueToken, At, TypeInv, Placed
        <5> QED  BY <1>1, <3>1, <3>3, <4>1, <4>4, <5>1, Progress DEF Answers
      <4> QED  BY <4>2, <4>3, <4>4
    <3>4. CASE Login(w)
      BY <3>4 DEF Login, Idle, Answers, TypeInv, TypeOK
    <3>5. CASE ResetPassword(w)
      BY <3>5 DEF ResetPassword, Idle, Answers, TypeInv, TypeOK
    <3>6. CASE \E s \in Sessions, kind \in AllKinds \ {"reset"} : Request(w, s, kind)
      <4>1. PICK s \in Sessions, kind \in AllKinds \ {"reset"} : Request(w, s, kind)
        BY <3>6
      <4>2. /\ work'[w].kind = kind /\ work'[w].s = s /\ kind # "login"
            /\ kind # "refresh" => work'[w].token = NoToken
        BY <4>1 DEF Request, Idle, AllKinds, TypeInv, TypeOK
      <4>3. CASE kind = "refresh"
        <5>1. ~Continues(w)
          BY <4>1 DEF Request, FirstIdle, At, Continues
        <5>2. /\ s \notin Excused' => \A v \in Workers : ~Refreshing(v, s)
              /\ UNCHANGED <<tok, cookie>>
              /\ cookie[s] # NoToken /\ work'[w].token = cookie[s]
              /\ work'[w].pc = "read" /\ ~work'[w].lost
          BY <1>1, <4>2, <4>3, <5>1, RefreshBegins DEF Refreshing
        <5>3. s \in Excused' \/ Current(s, cookie[s])
          BY <2>3, <5>2 DEF ReuseInv, CookieFits, Bringing
        <5> QED  BY <2>3, <4>2, <4>3, <5>2, <5>3 DEF Answers, Current
      <4> QED  BY <4>2, <4>3 DEF Answers
    <3> QED  BY <1>1, <3>2, <3>3, <3>4, <3>5, <3>6, Identity
  <2>8. ASSUME NEW s \in Sessions \ Excused' PROVE OneRefresh(s)'
    <3>1. s \in Sessions \ Excused /\ OneRefresh(s)
      BY <2>3, <2>8 DEF ReuseInv
    <3>2. Refreshing(w, s)' => Refreshing(w, s) \/ \A v \in Workers : ~Refreshing(v, s)
      BY <1>1, <3>1, RefreshBegins
    <3>3. \A v \in Workers \ {w} : Refreshing(v, s)' <=> Refreshing(v, s)
      BY <2>1 DEF Refreshing
    <3> QED  BY <3>1, <3>2, <3>3 DEF OneRefresh
  <2>9. ASSUME NEW s \in Sessions \ Excused' PROVE CookieFits(s)'
    <3>1. s \in Sessions \ Excused /\ CookieFits(s) /\ Answers(w)
      BY <2>3, <2>9 DEF ReuseInv
    <3>2. CASE Reply(w) /\ ~work[w].lost /\ work[w].s = s
      <4>1. cookie'[s] = work[w].token /\ work[w].pc = "reply" /\ UNCHANGED tok
        BY <2>2, <3>1, <3>2 DEF Reply, At, redisVars
      <4>2. Current(s, work[w].token) \/ work[w].token = NoToken
        BY <3>1, <3>2, <4>1 DEF Answers
      <4> QED  BY <4>1, <4>2 DEF CookieFits, Current
    <3>3. CASE cookie'[s] = cookie[s] /\ ~(Reply(w) /\ ~work[w].lost /\ work[w].s = s)
      <4>1. CASE cookie[s] = NoToken
        BY <3>3, <4>1 DEF CookieFits
      <4>2. CASE tok'[s] # tok[s] /\ cookie[s] # NoToken
        <5>1. Rotate(w) /\ work[w].s = s
          <6>1. IssueToken(w) => LoggingIn(w, work[w].s)
            BY DEF IssueToken, At, TypeInv, Placed, LoggingIn
          <6> QED  BY <2>5, <3>1, <4>2, <6>1 DEF LoginInv
        <5>2. work'[w].pc = "set" /\ Continues(w) /\ work[w].kind = "refresh"
          BY <1>1, <4>2, <5>1, Rotation, Identity DEF Idle
        <5> QED  BY <5>1, <5>2 DEF CookieFits, Bringing, Refreshing, Continues
      <4>3. CASE tok'[s] = tok[s] /\ Current(s, cookie[s])
        BY <3>3, <4>3 DEF CookieFits, Current
      <4>4. ASSUME NEW v \in Workers, Bringing(v, s) PROVE CookieFits(s)'
        <5>1. CASE v # w
          BY <2>1, <4>4, <5>1 DEF CookieFits, Bringing, Refreshing
        <5>2. CASE v = w
          <6>1. work[w].kind = "refresh" /\ work[w].s = s /\ work[w].pc \in {"set", "index", "reply"}
            BY <4>4, <5>2 DEF Bringing, Refreshing
          <6>2. work'[w] # Idle
            <7>1. ~Throw(w)
              BY <1>1, <2>9, <6>1, FaultMoves
            <7>2. ~work[w].lost
              BY <3>1, <6>1 DEF Answers
            <7> QED  BY <1>1, <3>3, <6>1, <7>1, <7>2, RefreshEnds
          <6>3. work[w] # Idle
            BY <6>1 DEF Idle
          <6>4. Continues(w)
            BY <1>1, <6>2, <6>3, Identity
          <6>5. work'[w].pc \in {"set", "index", "reply"}
            BY <1>1, <6>1, <6>4, Progress
          <6> QED  BY <6>1, <6>4, <6>5 DEF CookieFits, Bringing, Refreshing, Continues
        <5> QED  BY <5>1, <5>2
      <4> QED  BY <3>1, <4>1, <4>2, <4>3, <4>4 DEF CookieFits
    <3>4. UNCHANGED cookie \/ (Reply(w) /\ ~work[w].lost
                               /\ cookie' = [cookie EXCEPT ![work[w].s] = work[w].token])
      BY <1>1, CookieMoves
    <3> QED  BY <2>2, <3>2, <3>3, <3>4
  <2> QED  BY <2>4, <2>6, <2>7, <2>8, <2>9 DEF ReuseInv, Unsuspected
<1>2. CASE \E s \in Sessions : StepUpLapses(s)
  <2>1. PICK s \in Sessions : StepUpLapses(s)
    BY <1>2
  <2>2. UNCHANGED <<tok, cookie, Excused, suspect>>
    BY <2>1 DEF StepUpLapses, history, Excused
  <2>3. \A w \in Workers : /\ work'[w].kind = work[w].kind /\ work'[w].s = work[w].s
                           /\ work'[w].pc = work[w].pc /\ work'[w].token = work[w].token
                           /\ work'[w].lost = work[w].lost
    <3> SUFFICES ASSUME NEW w \in Workers
                 PROVE  /\ work'[w].kind = work[w].kind /\ work'[w].s = work[w].s
                        /\ work'[w].pc = work[w].pc /\ work'[w].token = work[w].token
                        /\ work'[w].lost = work[w].lost
      OBVIOUS
    <3>1. PICK copy : work'[w] = [work[w] EXCEPT !.copy = copy]
      BY <2>1, LapseMoves
    <3> QED  BY <3>1 DEF TypeInv, TypeOK, WorkStates
  <2>4. \A w \in Workers : Answers(w)'
    BY <2>2, <2>3 DEF ReuseInv, Answers, Current
  <2>5. \A t \in Sessions \ Excused : OneRefresh(t)' /\ CookieFits(t)'
    BY <2>2, <2>3 DEF ReuseInv, OneRefresh, CookieFits, Refreshing, Bringing, Current
  <2> QED  BY <2>2, <2>4, <2>5 DEF ReuseInv, Unsuspected
<1>3. CASE \E s \in Sessions : Expire(s)
  <2>1. UNCHANGED <<cookie, Excused, suspect, work>>
    BY <1>3 DEF Expire, Excused
  <2>2. \A s \in Sessions : tok'[s] \in {tok[s], NoToken}
    BY <1>3 DEF Expire, TypeInv, TypeOK
  <2>3. \A w \in Workers : Answers(w)'
    <3>1. \A w \in Workers : /\ work[w].kind = "refresh" => work[w].s \in Sessions
                             /\ work[w].kind = "login" /\ work[w].pc = "reply" =>
                                  work[w].s \in Sessions
      BY DEF TypeInv, TypeOK, Placed, Idle
    <3> QED  BY <2>1, <2>2, <3>1 DEF ReuseInv, Answers, Current
  <2>4. \A t \in Sessions \ Excused : OneRefresh(t)' /\ CookieFits(t)'
    BY <2>1, <2>2 DEF ReuseInv, OneRefresh, CookieFits, Refreshing, Bringing, Current
  <2> QED  BY <2>1, <2>3, <2>4 DEF ReuseInv, Unsuspected
<1>4. CASE UNCHANGED vars
  BY <1>4 DEF vars, redisVars, history, Excused, ReuseInv, Unsuspected, Answers, OneRefresh,
              CookieFits, Refreshing, Bringing, Current
<1> QED  BY <1>1, <1>2, <1>3, <1>4, NextSteps

(* A browser is never taken for a thief, however many tabs and handlers it *)
(* has, and whatever expires, unless a refresh of its session lost its     *)
(* reply, or it lacks Web Locks and two of its refreshes met.              *)
THEOREM TokensAreNotFalselyReused == Spec => []NoFalseReuse
<1>1. Init => ReuseInv
  BY DEF Init, Idle, ReuseInv, Unsuspected, Answers, OneRefresh, CookieFits, Refreshing
<1>2. ReuseInv => NoFalseReuse
  BY DEF ReuseInv, Unsuspected, Excused, NoFalseReuse
<1> QED  BY <1>1, <1>2, ReuseKept, LoginsAlways, PTL DEF Spec

-----------------------------------------------------------------------------
(* Revocations. *)

(* Who writes a record, and what.                                          *)
Saves(w, s) == SaveRecord(w) /\ work[w].pc = "set" /\ s = work[w].s

Revokes(w, s) ==
  /\ MarkRevoked(w) /\ work[w].pc = "mark" /\ s = work[w].cur
  /\ Pending(s) => s \in overlapped'

LEMMA RecordMoves ==
  ASSUME TypeInv, NEW w \in Workers, Handles(w)
  PROVE  /\ overlapped \subseteq overlapped'
         /\ \A s \in Sessions :
              \/ rec'[s] = rec[s]
              \/ (Saves(w, s) \/ Revokes(w, s)) /\ rec'[s] = work[w].copy
<1> USE DEF TypeInv, TypeOK
<1>1. CASE SaveRecord(w)
  BY <1>1 DEF SaveRecord, At, Saves, history
<1>2. CASE MarkRevoked(w)
  BY <1>2 DEF MarkRevoked, At, Revokes, Overlap
<1>3. CASE UNCHANGED <<rec, overlapped>>
  BY <1>3
<1> QED
  BY <1>1, <1>2, <1>3
  DEF Handles, Login, Request, ResetPassword, Handle, Read, Rotate, SaveIndex, IssueToken,
      Members, Find, Unindex, Swept, Scan, Prune, Reply, Throw, LoseReply, Fault,
      redisVars, history

LEMMA IndexMoves ==
  ASSUME TypeInv, NEW w \in Workers, Handles(w)
  PROVE  /\ \/ UNCHANGED index
            \/ /\ SaveIndex(w) /\ work[w].pc = "index" /\ index' = index \union {work[w].s}
            \/ /\ Unindex(w) /\ work[w].pc = "unindex" /\ index' = index \ {work[w].cur}
               /\ UNCHANGED <<rec, overlapped>>
            \/ /\ Prune(w) /\ index' = index \ work[w].stale
               /\ UNCHANGED <<rec, overlapped>>
         /\ \/ UNCHANGED ended
            \/ /\ Swept(w) /\ work[w].pc = "find" /\ work[w].todo = {}
               /\ ended' = ended \union work[w].held
               /\ UNCHANGED <<rec, overlapped>>
<1>1. CASE SaveIndex(w)
  BY <1>1 DEF SaveIndex, AddToIndex, At, history
<1>2. CASE Unindex(w) \/ Prune(w)
  BY <1>2 DEF Unindex, Prune, At, history
<1>3. CASE Swept(w)
  BY <1>3 DEF Swept, At, redisVars
<1>4. CASE UNCHANGED <<index, ended>>
  BY <1>4
<1> QED
  BY <1>1, <1>2, <1>3, <1>4
  DEF Handles, Login, Request, ResetPassword, Handle, Read, Rotate, SaveRecord, IssueToken,
      Members, Find, MarkRevoked, Scan, Reply, Throw, LoseReply, Fault, redisVars, history

(* What a handler does with its lists of sessions.                         *)
Has(w, todo, stale, held, cur) ==
  /\ work'[w].todo = todo
  /\ work'[w].stale = stale
  /\ work'[w].held = held
  /\ work'[w].cur = cur

Keeps(w) ==
  /\ Has(w, work[w].todo, work[w].stale, work[w].held, work[w].cur)
  /\ \/ work'[w].pc \notin {"find", "mark", "unindex"}
     \/ work'[w].pc = work[w].pc
     \/ MarkRevoked(w) /\ work[w].pc = "mark" /\ work'[w].pc = "unindex"

Starts(w) ==
  /\ work'[w].pc \notin {"find", "mark", "unindex"}
  /\ \E todo : /\ Has(w, todo, {}, {}, NoSession)
               /\ \A x \in todo : x \in index \/ cookie[x] # NoToken

Takes(w) ==
  /\ Has(w, work[w].todo, work[w].stale, work[w].todo, work[w].cur)
  /\ work'[w].pc \notin {"mark", "unindex"}

Gathers(w) ==
  /\ work'[w].pc \notin {"mark", "unindex"}
  /\ UNCHANGED <<rec, index, overlapped>>
  /\ \E kept : /\ work'[w].todo = index \ kept
               /\ work'[w].stale = work[w].stale
               /\ work'[w].held \subseteq Open \ kept
               /\ work'[w].cur = work[w].cur

Skips(w) ==
  /\ work[w].pc = "find" /\ work'[w].pc = "find"
  /\ UNCHANGED <<rec, overlapped>>
  /\ \E x \in work[w].todo :
       rec[x].state # "live" /\ Has(w, work[w].todo \ {x}, work[w].stale, work[w].held, work[w].cur)

Chooses(w) ==
  /\ work[w].pc = "find" /\ work'[w].pc = "mark" /\ work'[w].copy = Revoked
  /\ \E x \in work[w].todo : Has(w, work[w].todo, work[w].stale, work[w].held, x)

Drops(w) ==
  /\ work[w].pc = "unindex" /\ work'[w].pc = "find"
  /\ UNCHANGED <<rec, overlapped>>
  /\ Has(w, work[w].todo \ {work[w].cur}, work[w].stale, work[w].held, NoSession)

Finishes(w) ==
  /\ work'[w].pc = "reply"
  /\ Has(w, work[w].todo, work[w].stale, {}, work[w].cur)

Checks(w) ==
  /\ work'[w].pc \notin {"find", "mark", "unindex"}
  /\ UNCHANGED <<rec, overlapped>>
  /\ \E x \in work[w].todo :
       \/ Has(w, work[w].todo \ {x}, work[w].stale, work[w].held, work[w].cur)
       \/ /\ rec[x].state # "live"
          /\ Has(w, work[w].todo \ {x}, work[w].stale \union {x}, work[w].held, work[w].cur)

LEMMA ListMoves ==
  ASSUME TypeInv, NEW w \in Workers, Handles(w)
  PROVE  \/ Keeps(w) \/ Starts(w) \/ Takes(w) \/ Gathers(w) \/ Skips(w)
         \/ Chooses(w) \/ Drops(w) \/ Finishes(w) \/ Checks(w)
<1> USE DEF TypeInv, TypeOK
<1>1. work[w] \in WorkStates /\ Placed(work[w])
  OBVIOUS
<1>2. CASE work'[w] = Idle
  <2>1. work'[w].pc = "idle" /\ Has(w, {}, {}, {}, NoSession)
    BY <1>2 DEF Idle, Has
  <2> QED  BY <2>1 DEF Starts
<1>3. CASE Login(w) \/ ResetPassword(w)
  <2>1. work'[w].pc \in {"set", "members"} /\ Has(w, {}, {}, {}, NoSession)
    <3>1. CASE Login(w)
      BY <3>1 DEF Login, Idle, Has
    <3>2. CASE ResetPassword(w)
      BY <3>2 DEF ResetPassword, Idle, Has
    <3> QED  BY <1>3, <3>1, <3>2
  <2> QED  BY <2>1 DEF Starts
<1>4. CASE \E s \in Sessions, kind \in AllKinds \ {"reset"} : Request(w, s, kind)
  <2>1. PICK s \in Sessions, kind \in AllKinds \ {"reset"} : Request(w, s, kind)
    BY <1>4
  <2>2. PICK u \in IF kind = "revoke" THEN index \ {s} ELSE {s} :
          work' = [work EXCEPT ![w] =
                  [Idle EXCEPT !.pc = "read", !.kind = kind, !.s = s,
                     !.token = IF kind = "refresh" THEN cookie[s] ELSE NoToken,
                     !.todo = IF kind \in {"logout", "revoke"} THEN {u} ELSE {}]]
    BY <2>1 DEF Request
  <2> DEFINE token == IF kind = "refresh" THEN cookie[s] ELSE NoToken
             todo == IF kind \in {"logout", "revoke"} THEN {u} ELSE {}
  <2>3. /\ work'[w] = [Idle EXCEPT !.pc = "read", !.kind = kind, !.s = s,
                                   !.token = token, !.todo = todo]
        /\ \A x \in todo : x \in index \/ x = s
    BY <2>2
  <2> HIDE DEF token, todo
  <2>4. work'[w].pc = "read" /\ Has(w, todo, {}, {}, NoSession)
    BY <2>3 DEF Idle, Has
  <2>5. cookie[s] # NoToken
    BY <2>1 DEF Request
  <2> QED  BY <2>3, <2>4, <2>5 DEF Starts
<1>5. CASE Read(w)
  <2>1. CASE work' = [work EXCEPT ![w].pc = "find", ![w].held = work[w].todo]
    <3>1. Takes(w)
      BY <1>1, <2>1 DEF Takes, Has, WorkStates
    <3> QED  BY <3>1
  <2>2. CASE \/ work' = [work EXCEPT ![w].pc = "reply", ![w].token = NoToken]
             \/ Go(w, "members")
    <3>1. Keeps(w)
      BY <1>1, <2>2 DEF Keeps, Has, Go, WorkStates
    <3> QED  BY <3>1
  <2>3. ASSUME NEW pc \in {"rotate", "set"}, NEW copy,
               work' = [work EXCEPT ![w].pc = pc, ![w].copy = copy]
        PROVE  Keeps(w)
    BY <1>1, <2>3 DEF Keeps, Has, WorkStates
  <2>4. CASE End(w)
    BY <1>2, <2>4 DEF End
  <2> QED  BY <1>5, <2>1, <2>2, <2>3, <2>4 DEF Read
<1>6. CASE Rotate(w)
  <2>1. Keeps(w)
    BY <1>1, <1>6 DEF Rotate, Keeps, Has, WorkStates
  <2> QED  BY <2>1
<1>7. CASE SaveRecord(w)
  <2>1. Keeps(w)
    BY <1>1, <1>7 DEF SaveRecord, Keeps, Has, WorkStates
  <2> QED  BY <2>1
<1>8. CASE SaveIndex(w) /\ work'[w] # Idle
  <2>1. Keeps(w)
    BY <1>1, <1>8 DEF SaveIndex, Go, End, Keeps, Has, WorkStates
  <2> QED  BY <2>1
<1>9. CASE IssueToken(w)
  <2>1. Keeps(w)
    BY <1>1, <1>9 DEF IssueToken, Keeps, Has, WorkStates
  <2> QED  BY <2>1
<1>10. CASE Members(w)
  <2> DEFINE kept == IF work[w].kind = "confirm" THEN {work[w].s} ELSE {}
             pc == IF work[w].kind = "list" THEN "scan" ELSE "find"
             todo == index \ kept
             held == IF work[w].kind = "list" THEN {} ELSE Open \ kept
  <2>1. /\ work' = [work EXCEPT ![w].pc = pc, ![w].todo = todo, ![w].held = held]
        /\ UNCHANGED <<rec, index, overlapped>>
    BY <1>10 DEF Members, redisVars, history
  <2>2. held \subseteq Open \ kept /\ pc \notin {"mark", "unindex"}
    OBVIOUS
  <2> HIDE DEF kept, pc, held
  <2>3. Gathers(w)
    BY <1>1, <2>1, <2>2 DEF Gathers, WorkStates
  <2> QED  BY <2>3
<1>11. CASE Find(w)
  <2>1. PICK x \in work[w].todo :
          \/ /\ work' = [work EXCEPT ![w].todo = @ \ {x}]
             /\ rec[x].state = "absent"
          \/ work' = [work EXCEPT ![w].pc = "mark", ![w].cur = x, ![w].copy = Revoked]
    BY <1>11 DEF Find
  <2>2. work[w].pc = "find" /\ UNCHANGED <<rec, overlapped>>
    BY <1>11 DEF Find, At, redisVars, history
  <2>3. CASE work' = [work EXCEPT ![w].todo = @ \ {x}] /\ rec[x].state = "absent"
    <3>1. Skips(w)
      BY <1>1, <2>2, <2>3 DEF Skips, Has, WorkStates
    <3> QED  BY <3>1
  <2>4. CASE work' = [work EXCEPT ![w].pc = "mark", ![w].cur = x, ![w].copy = Revoked]
    <3>1. Chooses(w)
      BY <1>1, <2>2, <2>4 DEF Chooses, Has, WorkStates
    <3> QED  BY <3>1
  <2> QED  BY <2>1, <2>3, <2>4
<1>12. CASE MarkRevoked(w)
  <2>1. Keeps(w)
    BY <1>1, <1>12 DEF MarkRevoked, At, Keeps, Has, WorkStates
  <2> QED  BY <2>1
<1>13. CASE Unindex(w)
  <2>1. Drops(w)
    BY <1>1, <1>13 DEF Unindex, At, Drops, Has, WorkStates, history
  <2> QED  BY <2>1
<1>14. CASE Swept(w) /\ work'[w] # Idle
  <2>1. Finishes(w)
    BY <1>1, <1>14 DEF Swept, End, Finishes, Has, WorkStates
  <2> QED  BY <2>1
<1>15. CASE Scan(w) /\ work'[w] # Idle
  <2>1. work[w].pc = "scan" /\ UNCHANGED <<rec, overlapped>>
    BY <1>15 DEF Scan, At, redisVars, history
  <2>2. ASSUME NEW x \in work[w].todo, NEW stale,
               work' = [work EXCEPT ![w].todo = @ \ {x}, ![w].stale = stale],
               stale = work[w].stale \/ (rec[x].state # "live" /\ stale = work[w].stale \union {x})
        PROVE  Checks(w)
    <3>1. Has(w, work[w].todo \ {x}, stale, work[w].held, work[w].cur)
          /\ work'[w].pc = "scan"
      BY <1>1, <2>1, <2>2 DEF Has, WorkStates
    <3> QED  BY <2>1, <2>2, <3>1 DEF Checks
  <2>3. CASE Go(w, "prune")
    <3>1. Keeps(w)
      BY <1>1, <2>3 DEF Keeps, Has, Go, WorkStates
    <3> QED  BY <3>1
  <2>4. CASE \E x \in work[w].todo :
          work' = [work EXCEPT
            ![w].todo = @ \ {x},
            ![w].stale = IF rec[x].state = "live" THEN @ ELSE @ \union {x}]
    <3>1. PICK x \in work[w].todo :
          work' = [work EXCEPT
            ![w].todo = @ \ {x},
            ![w].stale = IF rec[x].state = "live" THEN @ ELSE @ \union {x}]
      BY <2>4
    <3> DEFINE stale == IF rec[x].state = "live" THEN work[w].stale ELSE work[w].stale \union {x}
    <3>2. /\ work' = [work EXCEPT ![w].todo = @ \ {x}, ![w].stale = stale]
          /\ stale = work[w].stale \/ (rec[x].state # "live" /\ stale = work[w].stale \union {x})
      BY <3>1
    <3> HIDE DEF stale
    <3> QED  BY <2>2, <3>2
  <2> QED  BY <1>15, <2>3, <2>4 DEF Scan, End
<1>16. CASE LoseReply(w)
  <2>1. Keeps(w)
    BY <1>1, <1>16 DEF LoseReply, Keeps, Has, WorkStates
  <2> QED  BY <2>1
<1>17. CASE Prune(w) \/ Reply(w) \/ Throw(w)
  <2>1. work'[w] = Idle
    BY <1>17 DEF Prune, Reply, Throw, End
  <2> QED  BY <1>2, <2>1
<1> QED
  BY <1>2, <1>3, <1>4, <1>5, <1>6, <1>7, <1>8, <1>9, <1>10, <1>11, <1>12, <1>13, <1>14,
     <1>15, <1>16, <1>17 DEF Handles, Handle

(* A session once written down stays so. *)
LEMMA BornStays ==
  ASSUME TypeInv, NEW w \in Workers, Handles(w), NEW s \in Sessions, Unborn(s)'
  PROVE  Unborn(s)
<1>1. \A v \in Workers \ {w} : work'[v] = work[v]
  BY HandlerMoves DEF Moves, TypeInv, TypeOK
<1>2. logins \in Nat /\ s \in Nat
  BY SessionsAssumption DEF TypeInv, TypeOK, Sessions
<1>3. CASE s > logins'
  BY <1>2, <1>3, CookieMoves DEF Unborn
<1>4. ASSUME NEW v \in Workers, LoggingIn(v, s)', work'[v].pc = "set"
      PROVE  Unborn(s)
  <2>1. CASE v # w
    BY <1>1, <1>4, <2>1 DEF Unborn, LoggingIn
  <2>2. CASE v = w /\ Continues(w)
    <3>1. LoggingIn(w, s)
      BY <1>4, <2>2 DEF Continues, LoggingIn
    <3>2. work[w].pc = "set"
      BY <1>4, <2>2, <3>1, Progress, Rotation DEF LoggingIn
    <3> QED  BY <3>1, <3>2 DEF Unborn
  <2>3. CASE v = w /\ work'[w] = Idle
    BY <1>4, <2>3 DEF Idle
  <2>4. CASE v = w /\ Login(w)
    <3>1. s = logins + 1
      BY <1>4, <2>4 DEF Login, Idle, LoggingIn, TypeInv, TypeOK
    <3> QED  BY <1>2, <3>1 DEF Unborn
  <2>5. CASE v = w /\ ResetPassword(w)
    BY <1>4, <2>5 DEF ResetPassword, Idle, LoggingIn, TypeInv, TypeOK
  <2>6. CASE v = w /\ \E t \in Sessions, kind \in AllKinds \ {"reset"} : Request(w, t, kind)
    <3>1. work'[w].pc = "read"
      BY <2>6 DEF Request, Idle, TypeInv, TypeOK
    <3> QED  BY <1>4, <2>6, <3>1
  <2> QED  BY <2>1, <2>2, <2>3, <2>4, <2>5, <2>6, Identity
<1> QED  BY <1>3, <1>4 DEF Unborn

(* Until then no other handler handles a request of it, and it has neither *)
(* a token nor a cookie.                                                   *)
LEMMA UnbornIsAlone ==
  ASSUME TypeInv, LoginInv, TokenInv, NEW s \in Sessions, Unborn(s)
  PROVE  /\ \A w \in Workers : work[w].s = s => LoggingIn(w, s) /\ work[w].pc = "set"
         /\ tok[s] = NoToken /\ cookie[s] = NoToken
<1>1. logins \in Nat /\ s \in Nat
  BY SessionsAssumption DEF TypeInv, TypeOK, Sessions
<1>2. \A w \in Workers : work[w].s = s => LoggingIn(w, s) /\ work[w].pc = "set"
  BY <1>1 DEF Unborn, LoginInv, LoggingIn
<1>3. tok[s] = NoToken
  BY DEF Unborn, Unissued, TokenInv
<1>4. cookie[s] = NoToken
  BY <1>1 DEF Unborn, LoginInv
<1> QED  BY <1>2, <1>3, <1>4

(* What is closed stays closed: the only record that a handler brings to   *)
(* life is the one of a login.                                             *)
LEMMA ClosedStays ==
  ASSUME TypeInv, RevocationInv, NEW w \in Workers, Handles(w),
         NEW s \in Sessions, Closed(s), ~Unborn(s)
  PROVE  Closed(s)'
<1>1. overlapped \subseteq overlapped'
  BY RecordMoves
<1>2. CASE rec'[s] = rec[s]
  BY <1>1, <1>2 DEF Closed
<1>3. CASE Saves(w, s) /\ rec'[s] = work[w].copy
  <2>1. work[w].kind # "login"
    BY <1>3 DEF Saves, Unborn, LoggingIn
  <2>2. s \in overlapped
    BY <1>3, <2>1 DEF Saves, RevocationInv, Writes, Closed
  <2> QED  BY <1>1, <2>2 DEF Closed
<1>4. CASE Revokes(w, s) /\ rec'[s] = work[w].copy
  BY <1>4 DEF Revokes, RevocationInv, Writes, Closed
<1> QED  BY <1>2, <1>3, <1>4, RecordMoves

(* The record that a handler holds to write it was live when it was read.  *)
LEMMA ReadIsLive ==
  ASSUME TypeInv, NEW w \in Workers, Read(w), work'[w].pc \in {"rotate", "set"}
  PROVE  /\ work'[w].copy.state = "live" /\ work'[w].s = work[w].s
         /\ rec[work[w].s].state = "live"
         /\ UNCHANGED <<rec, overlapped>>
<1> USE DEF TypeInv, TypeOK
<1>1. work[w] \in WorkStates /\ work[w].s \in Sessions /\ rec[work[w].s] \in Records
  BY DEF Read, At, Placed
<1>2. UNCHANGED <<rec, overlapped>>
  BY DEF Read, redisVars, history
<1>3. rec[work[w].s].state = "live"
  BY <1>1 DEF Read, End, Idle, WorkStates
<1>4. ASSUME NEW pc, NEW copy, copy.state = "live",
             work' = [work EXCEPT ![w].pc = pc, ![w].copy = copy]
      PROVE  work'[w].copy.state = "live" /\ work'[w].s = work[w].s
  BY <1>1, <1>4 DEF WorkStates
<1> DEFINE r == rec[work[w].s]
<1>5. /\ Selected(r).state = r.state /\ Verified(r).state = r.state
      /\ Confirmed(r).state = r.state /\ SteppedUp(r).state = r.state
  BY <1>1 DEF Selected, Verified, Confirmed, SteppedUp, Records
<1>6. ~End(w) /\ ~Go(w, "members")
  BY <1>1 DEF End, Idle, Go, WorkStates
<1>7. work' # [work EXCEPT ![w].pc = "find", ![w].held = work[w].todo]
      /\ work' # [work EXCEPT ![w].pc = "reply", ![w].token = NoToken]
  BY <1>1 DEF WorkStates
<1>8. \/ work' = [work EXCEPT ![w].pc = "rotate", ![w].copy = r]
      \/ work' = [work EXCEPT ![w].pc = "set", ![w].copy = Selected(r)]
      \/ work' = [work EXCEPT ![w].pc = "set", ![w].copy = Verified(r)]
      \/ work' = [work EXCEPT ![w].pc = "set", ![w].copy = Confirmed(r)]
      \/ work' = [work EXCEPT ![w].pc = "set", ![w].copy = SteppedUp(r)]
  BY <1>6, <1>7 DEF Read
<1>9. r.state = "live"
  BY <1>3
<1> HIDE DEF r, TypeInv, TypeOK
<1>10. work'[w].copy.state = "live" /\ work'[w].s = work[w].s
  BY <1>4, <1>5, <1>8, <1>9
<1> QED  BY <1>2, <1>3, <1>10

LEMMA RevocationKept ==
  TypeInv /\ LoginInv /\ TokenInv /\ RevocationInv /\ [Next]_vars => RevocationInv'
<1> SUFFICES ASSUME TypeInv, LoginInv, TokenInv, RevocationInv, [Next]_vars
             PROVE  RevocationInv'
  OBVIOUS
<1>1. ASSUME NEW w \in Workers, Handles(w) PROVE RevocationInv'
  <2>1. \A v \in Workers \ {w} : work'[v] = work[v]
    BY <1>1, HandlerMoves DEF Moves, TypeInv, TypeOK
  <2>2. /\ \A v \in Workers :
             /\ work[v] \in WorkStates /\ Placed(work[v])
             /\ work[v].todo \union work[v].stale \union work[v].held \subseteq Sessions
             /\ work[v].pc \in {"rotate", "set", "token"} => work[v].s \in Sessions
             /\ work[v].pc \in {"mark", "unindex"} => work[v].cur \in Sessions
        /\ index \union ended \union overlapped \subseteq Sessions /\ NoSession \notin Sessions
    BY DEF TypeInv, TypeOK, WorkStates, Placed, NoSession, Sessions
  <2>3. overlapped \subseteq overlapped'
    BY <1>1, RecordMoves
  <2>4. \A v \in Workers : Writes(v) /\ Sweeps(v)
    BY DEF RevocationInv
  <2>5. \A s \in Sessions : Unborn(s) => Untraced(s)
    BY DEF RevocationInv
  <2>6. ASSUME NEW s \in Sessions, Closed(s),
               \/ s \in index \union ended
               \/ \E v \in Workers :
                    s \in work[v].todo \union work[v].stale \union work[v].held \union {work[v].cur}
        PROVE  Closed(s)'
    <3>1. ~Unborn(s)
      BY <2>5, <2>6 DEF Untraced
    <3> QED  BY <1>1, <2>6, <3>1, ClosedStays
  <2>7. ASSUME NEW s \in index, s \notin index' PROVE Closed(s)'
    <3>1. CASE Unindex(w) /\ work[w].pc = "unindex" /\ s = work[w].cur /\ UNCHANGED <<rec, overlapped>>
      BY <2>4, <3>1 DEF Sweeps, Closed
    <3>2. CASE s \in work[w].stale /\ UNCHANGED <<rec, overlapped>>
      BY <2>4, <3>2 DEF Sweeps, Closed
    <3> QED  BY <1>1, <2>7, <3>1, <3>2, IndexMoves
  <2>8. RevocationStands'
    <3> SUFFICES ASSUME NEW s \in ended' \ overlapped' PROVE rec'[s].state # "live"
      BY DEF RevocationStands
    <3>1. CASE s \in ended
      <4>1. Closed(s)
        BY <2>3, <3>1 DEF RevocationInv, RevocationStands, Closed
      <4> QED  BY <2>2, <2>6, <3>1, <4>1 DEF Closed
    <3>2. CASE s \notin ended
      <4>1. /\ work[w].pc = "find" /\ work[w].todo = {} /\ s \in work[w].held
            /\ UNCHANGED <<rec, overlapped>>
        BY <1>1, <3>2, IndexMoves
      <4> QED  BY <2>4, <4>1 DEF Sweeps, Closed
    <3> QED  BY <3>1, <3>2
  <2>9. ASSUME NEW s \in Sessions, Unborn(s)' PROVE Untraced(s)'
    <3>1. Unborn(s)
      BY <1>1, <2>9, BornStays
    <3>2. /\ Untraced(s) /\ cookie[s] = NoToken
          /\ \A v \in Workers : work[v].s = s => LoggingIn(v, s) /\ work[v].pc = "set"
      BY <2>5, <3>1, UnbornIsAlone
    <3>3. ~Saves(w, s)
      <4> SUFFICES ASSUME Saves(w, s) PROVE FALSE
        OBVIOUS
      <4>1. LoggingIn(w, s) /\ s <= logins /\ logins' = logins
        BY <3>2 DEF Saves, SaveRecord, counters, LoginInv
      <4>2. work'[w].pc = "index"
        BY <2>2 DEF Saves, SaveRecord, TypeInv, TypeOK, WorkStates
      <4>3. logins \in Nat /\ s \in Nat
        BY SessionsAssumption DEF TypeInv, TypeOK, Sessions
      <4>4. PICK v \in Workers : LoggingIn(v, s)' /\ work'[v].pc = "set"
        BY <2>9, <4>1, <4>3 DEF Unborn
      <4>5. v # w /\ LoggingIn(v, s)
        BY <2>1, <4>2, <4>4 DEF LoggingIn
      <4> QED  BY <4>1, <4>5 DEF LoginInv, LoggingIn
    <3>4. rec'[s] = rec[s]
      BY <1>1, <3>2, <3>3, RecordMoves DEF Untraced, Revokes
    <3>5. s \notin index' /\ s \notin ended'
      BY <1>1, <3>2, IndexMoves DEF Untraced
    <3>6. \A v \in Workers : /\ s \notin work[v].todo /\ s \notin work[v].stale
                             /\ s \notin work[v].held /\ work[v].cur # s
      BY <3>2 DEF Untraced
    <3>7. s \notin index /\ s \notin Open /\ s # NoSession /\ cookie[s] = NoToken
      BY <2>2, <3>2 DEF Untraced, Open
    <3>8. /\ s \notin work'[w].todo /\ s \notin work'[w].stale
          /\ s \notin work'[w].held /\ work'[w].cur # s
      <4>1. CASE Keeps(w) \/ Takes(w)
        BY <3>6, <4>1 DEF Keeps, Takes, Has
      <4>2. CASE Starts(w)
        BY <3>7, <4>2 DEF Starts, Has
      <4>3. CASE Gathers(w)
        BY <3>6, <3>7, <4>3 DEF Gathers
      <4>4. CASE Skips(w) \/ Chooses(w)
        BY <3>6, <4>4 DEF Skips, Chooses, Has
      <4>5. CASE Drops(w) \/ Finishes(w) \/ Checks(w)
        BY <3>6, <3>7, <4>5 DEF Drops, Finishes, Checks, Has
      <4> QED  BY <1>1, <4>1, <4>2, <4>3, <4>4, <4>5, ListMoves
    <3>9. \A v \in Workers : /\ s \notin work'[v].todo /\ s \notin work'[v].stale
                             /\ s \notin work'[v].held /\ work'[v].cur # s
      BY <2>1, <3>6, <3>8
    <3> QED  BY <3>2, <3>4, <3>5, <3>9 DEF Untraced
  <2>10. ASSUME NEW s \in Sessions
         PROVE  Closed(s)' \/ tok'[s] = NoToken \/ s \in index'
    <3>1. CASE Unborn(s)
      <4>1. tok[s] = NoToken /\ (work[w].s = s => work[w].pc = "set")
        BY <3>1, UnbornIsAlone
      <4>2. tok \in [Sessions -> Nat]
        BY DEF TypeInv, TypeOK
      <4> QED  BY <1>1, <4>1, <4>2, TokenMoves, Rotation
    <3>2. CASE ~Unborn(s) /\ Closed(s)
      BY <1>1, <3>2, ClosedStays
    <3>3. CASE ~Closed(s) /\ s \in index
      BY <2>7, <3>3
    <3>4. CASE ~Closed(s) /\ s \notin index
      <4>1. tok[s] = NoToken /\ tok \in [Sessions -> Nat]
        BY <3>4 DEF RevocationInv, TypeInv, TypeOK
      <4>2. IssueToken(w) => work[w].s # s
        BY <2>4, <3>4 DEF IssueToken, At, Sweeps
      <4> QED  BY <1>1, <4>1, <4>2, TokenMoves, Rotation
    <3> QED  BY <3>1, <3>2, <3>3, <3>4 DEF RevocationInv
  <2>11. ASSUME NEW v \in Workers \ {w} PROVE Writes(v)' /\ Sweeps(v)'
    <3>1. work'[v] = work[v] /\ Writes(v) /\ Sweeps(v)
      BY <2>1, <2>4
    <3>2. Writes(v)'
      <4>1. ASSUME work[v].pc \in {"rotate", "set"}, rec[work[v].s].state = "live"
            PROVE  rec'[work[v].s].state = "live" \/ work[v].s \in overlapped'
        <5>1. work[v].s \in Sessions
          BY <2>2, <4>1
        <5>2. CASE Saves(w, work[v].s) /\ rec'[work[v].s] = work[w].copy
          BY <2>4, <5>2 DEF Saves, Writes
        <5>3. CASE Revokes(w, work[v].s)
          BY <4>1, <5>3 DEF Revokes, Pending
        <5> QED  BY <1>1, <4>1, <5>1, <5>2, <5>3, RecordMoves
      <4> QED  BY <2>3, <3>1, <4>1 DEF Writes
    <3>3. work[v].pc = "token" => Closed(work[v].s)' \/ work[v].s \in index'
      <4> SUFFICES ASSUME work[v].pc = "token"
                   PROVE  Closed(work[v].s)' \/ work[v].s \in index'
        OBVIOUS
      <4>1. PICK s : s = work[v].s
        OBVIOUS
      <4>2. s \in Sessions /\ ~Unborn(s)
        BY <2>2, <4>1, UnbornIsAlone
      <4>3. Closed(s) => Closed(s)'
        BY <1>1, <4>2, ClosedStays
      <4> QED  BY <2>7, <3>1, <4>1, <4>3 DEF Sweeps, Closed
    <3>4. work[v].pc = "unindex" => Closed(work[v].cur)'
      BY <2>2, <2>6, <3>1 DEF Sweeps, Closed
    <3>5. \A s \in work[v].stale : Closed(s)'
      BY <2>2, <2>6, <3>1 DEF Sweeps
    <3>6. work[v].pc \in {"find", "mark", "unindex"} =>
            \A s \in work[v].held : Closed(s)' \/ s \in work[v].todo
      BY <2>2, <2>6, <3>1 DEF Sweeps
    <3> QED  BY <3>1, <3>2, <3>3, <3>4, <3>5, <3>6 DEF Sweeps, Closed
  <2>12. Writes(w)'
    <3>1. CASE work'[w] = Idle
      BY <3>1 DEF Idle, Writes
    <3>2. CASE Login(w)
      BY <3>2 DEF Login, Idle, NewRecord, NoRecord, Writes, TypeInv, TypeOK
    <3>3. CASE \/ ResetPassword(w)
               \/ \E s \in Sessions, kind \in AllKinds \ {"reset"} : Request(w, s, kind)
      <4>1. ResetPassword(w) => work'[w].pc = "members"
        BY DEF ResetPassword, Idle, TypeInv, TypeOK
      <4>2. ASSUME NEW s \in Sessions, NEW kind, Request(w, s, kind)
            PROVE  work'[w].pc = "read"
        BY <4>2 DEF Request, Idle, TypeInv, TypeOK
      <4> QED  BY <3>3, <4>1, <4>2 DEF Writes
    <3>4. CASE Continues(w) /\ work'[w].pc \in {"rotate", "set"}
      <4>1. work'[w].kind = work[w].kind /\ work'[w].s = work[w].s
        BY <3>4 DEF Continues
      <4>2. CASE Read(w)
        BY <3>4, <4>1, <4>2, ReadIsLive DEF Writes
      <4>3. CASE Rotate(w)
        <5>1. work'[w].pc = "set" /\ work[w].pc = "rotate" /\ UNCHANGED <<rec, overlapped>>
          BY <3>4, <4>3, Rotation DEF Rotate
        <5>2. work'[w].copy = work[w].copy
          BY <2>2, <4>3, <5>1 DEF Rotate, WorkStates, TypeInv, TypeOK
        <5> QED  BY <2>4, <4>1, <5>1, <5>2 DEF Writes
      <4>4. CASE work'[w].pc = work[w].pc /\ work'[w].copy = work[w].copy
        <5>1. work[w].s \in Sessions /\ Writes(w) /\ work[w].pc \in {"rotate", "set"}
          BY <2>2, <2>4, <3>4, <4>4
        <5>2. ~Saves(w, work[w].s) /\ ~Revokes(w, work[w].s)
          <6>1. SaveRecord(w) => work'[w].pc = "index"
            BY <2>2 DEF SaveRecord, TypeInv, TypeOK, WorkStates
          <6> QED  BY <3>4, <4>4, <5>1, <6>1 DEF Saves, Revokes
        <5>3. rec'[work[w].s] = rec[work[w].s]
          BY <1>1, <5>1, <5>2, RecordMoves
        <5> QED  BY <2>3, <3>4, <4>1, <4>4, <5>1, <5>3 DEF Writes
      <4> QED  BY <1>1, <3>4, <4>2, <4>3, <4>4, Progress
    <3>5. CASE Continues(w) /\ work'[w].pc = "mark"
      <4>1. CASE work'[w].pc = work[w].pc /\ work'[w].copy = work[w].copy
        BY <2>4, <3>5, <4>1 DEF Writes
      <4>2. CASE work[w].pc = "find"
        <5>1. Chooses(w)
          BY <1>1, <3>5, <4>2, ListMoves
          DEF Keeps, Starts, Takes, Gathers, Skips, Drops, Finishes, Checks
        <5> QED  BY <3>5, <5>1 DEF Chooses, Revoked, NoRecord, Writes
      <4> QED  BY <1>1, <3>5, <4>1, <4>2, Progress, Rotation
    <3>6. CASE work'[w].pc \notin {"rotate", "set", "mark"}
      BY <3>6 DEF Writes
    <3> QED  BY <1>1, <3>1, <3>2, <3>3, <3>4, <3>5, <3>6, Identity
  <2>13. Sweeps(w)'
    <3>1. (work[w].pc = "token" => Closed(work[w].s) \/ work[w].s \in index)'
      <4> SUFFICES ASSUME work'[w].pc = "token"
                   PROVE  (Closed(work[w].s) \/ work[w].s \in index)'
        OBVIOUS
      <4>1. Continues(w)
        <5>1. ResetPassword(w) => work'[w].pc = "members"
          BY DEF ResetPassword, Idle, TypeInv, TypeOK
        <5>2. ASSUME NEW s \in Sessions, NEW kind, Request(w, s, kind)
              PROVE  work'[w].pc = "read"
          BY <5>2 DEF Request, Idle, TypeInv, TypeOK
        <5>3. Login(w) => work'[w].pc = "set"
          BY DEF Login, Idle, TypeInv, TypeOK
        <5> QED  BY <1>1, <5>1, <5>2, <5>3, Identity DEF Idle
      <4>2. work'[w].s = work[w].s
        BY <4>1 DEF Continues
      <4>3. CASE SaveIndex(w)
        BY <4>2, <4>3 DEF SaveIndex, AddToIndex
      <4>4. CASE work[w].pc = "token"
        <5>1. PICK s : s = work[w].s
          OBVIOUS
        <5>2. s \in Sessions /\ ~Unborn(s)
          BY <2>2, <4>4, <5>1, UnbornIsAlone
        <5>3. Closed(s) => Closed(s)'
          BY <1>1, <5>2, ClosedStays
        <5>4. Closed(s) \/ s \in index
          BY <2>4, <4>4, <5>1 DEF Sweeps
        <5>5. Closed(s)' \/ s \in index'
          BY <2>7, <5>3, <5>4
        <5> QED  BY <4>2, <5>1, <5>5 DEF Closed
      <4> QED  BY <1>1, <4>1, <4>3, <4>4, Progress, Rotation
    <3>2. (work[w].pc = "unindex" => Closed(work[w].cur))'
      <4> SUFFICES ASSUME work'[w].pc = "unindex" PROVE Closed(work[w].cur)'
        OBVIOUS
      <4>1. /\ work'[w].cur = work[w].cur
            /\ work[w].pc = "unindex" \/ (MarkRevoked(w) /\ work[w].pc = "mark")
        BY <1>1, ListMoves
        DEF Keeps, Starts, Takes, Gathers, Skips, Chooses, Drops, Finishes, Checks, Has
      <4>2. PICK s : s = work[w].cur
        OBVIOUS
      <4>3. s \in Sessions
        BY <2>2, <4>1, <4>2
      <4>4. CASE work[w].pc = "unindex"
        <5>1. Closed(s)'
          BY <2>4, <2>6, <4>2, <4>3, <4>4 DEF Sweeps
        <5> QED  BY <4>1, <4>2, <5>1 DEF Closed
      <4>5. CASE MarkRevoked(w) /\ work[w].pc = "mark"
        <5>1. rec'[s] = work[w].copy /\ work[w].copy.state # "live"
          BY <2>4, <4>2, <4>3, <4>5 DEF MarkRevoked, Writes, TypeInv, TypeOK
        <5> QED  BY <4>1, <4>2, <5>1 DEF Closed
      <4> QED  BY <4>1, <4>4, <4>5
    <3>3. ASSUME NEW s \in work[w].stale PROVE Closed(s)'
      BY <2>2, <2>4, <2>6, <3>3 DEF Sweeps
    <3>4. ASSUME NEW s \in work'[w].stale PROVE Closed(s)'
      <4>1. CASE s \in work[w].stale
        BY <3>3, <4>1
      <4>2. CASE s \notin work[w].stale
        <5>1. Checks(w)
          BY <1>1, <3>4, <4>2, ListMoves
          DEF Keeps, Starts, Takes, Gathers, Skips, Chooses, Drops, Finishes, Has
        <5> QED  BY <3>4, <4>2, <5>1 DEF Checks, Has, Closed
      <4> QED  BY <4>1, <4>2
    <3>5. ASSUME NEW s \in work[w].held, work[w].pc \in {"find", "mark", "unindex"}
          PROVE  Closed(s)' \/ s \in work[w].todo
      BY <2>2, <2>4, <2>6, <3>5 DEF Sweeps
    <3>6. ASSUME work'[w].pc \in {"find", "mark", "unindex"}, NEW s \in work'[w].held
          PROVE  Closed(s)' \/ s \in work'[w].todo
      <4>1. CASE Keeps(w)
        BY <3>5, <3>6, <4>1 DEF Keeps, Has
      <4>2. CASE Takes(w)
        BY <3>6, <4>2 DEF Takes, Has
      <4>3. CASE Gathers(w)
        <5>1. PICK kept : work'[w].todo = index \ kept /\ work'[w].held \subseteq Open \ kept
          BY <4>3 DEF Gathers
        <5>2. s \in Sessions /\ tok[s] # NoToken /\ s \notin kept
          BY <3>6, <5>1 DEF Open
        <5>3. Closed(s) => Closed(s)'
          BY <4>3 DEF Gathers, Closed
        <5> QED  BY <5>1, <5>2, <5>3 DEF RevocationInv
      <4>4. CASE Skips(w)
        BY <3>5, <3>6, <4>4 DEF Skips, Has, Closed
      <4>5. CASE Chooses(w)
        BY <3>5, <3>6, <4>5 DEF Chooses, Has
      <4>6. CASE Drops(w)
        <5>1. CASE s = work[w].cur
          BY <2>4, <4>6, <5>1 DEF Drops, Sweeps, Closed
        <5> QED  BY <3>5, <3>6, <4>6, <5>1 DEF Drops, Has
      <4>7. ~Starts(w) /\ ~Finishes(w) /\ ~Checks(w)
        BY <3>6 DEF Starts, Finishes, Checks
      <4> QED  BY <1>1, <4>1, <4>2, <4>3, <4>4, <4>5, <4>6, <4>7, ListMoves
    <3> QED  BY <3>1, <3>2, <3>4, <3>6 DEF Sweeps
  <2> QED  BY <2>8, <2>9, <2>10, <2>11, <2>12, <2>13 DEF RevocationInv
<1>2. CASE \E s \in Sessions : StepUpLapses(s)
  <2>1. PICK s \in Sessions : StepUpLapses(s)
    BY <1>2
  <2>2. UNCHANGED <<index, tok, logins, ended, overlapped>>
        /\ \A t \in Sessions : rec'[t].state = rec[t].state
    BY <2>1, LapseMoves DEF StepUpLapses, counters, history
  <2>3. ASSUME NEW w \in Workers
        PROVE  /\ work'[w].copy.state = work[w].copy.state
               /\ work'[w].kind = work[w].kind /\ work'[w].s = work[w].s
               /\ work'[w].pc = work[w].pc /\ work'[w].cur = work[w].cur
               /\ work'[w].todo = work[w].todo /\ work'[w].stale = work[w].stale
               /\ work'[w].held = work[w].held
    <3>1. PICK copy : work'[w] = [work[w] EXCEPT !.copy = copy]
      BY <2>1, LapseMoves
    <3>2. work'[w].copy.state = work[w].copy.state
      BY <2>1, LapseMoves
    <3> QED  BY <3>1, <3>2 DEF TypeInv, TypeOK, WorkStates
  <2>4. \A t \in Sessions : (Closed(t)' <=> Closed(t)) /\ (Unborn(t)' <=> Unborn(t))
    BY <2>2, <2>3 DEF Closed, Unborn, LoggingIn
  <2>5. \A t \in Sessions : Untraced(t) => Untraced(t)'
    BY <2>2, <2>3 DEF Untraced
  <2>6. ASSUME NEW w \in Workers PROVE Writes(w)' /\ Sweeps(w)'
    <3>1. Writes(w) /\ Sweeps(w) /\ Placed(work[w]) /\ work[w] \in WorkStates
      BY DEF RevocationInv, TypeInv, TypeOK
    <3>2. Writes(w)'
      BY <2>2, <2>3, <3>1 DEF Writes, Placed
    <3>3. Sweeps(w)'
      BY <2>2, <2>3, <3>1 DEF Sweeps, Closed, Placed, WorkStates
    <3> QED  BY <3>2, <3>3
  <2> QED  BY <2>2, <2>4, <2>5, <2>6 DEF RevocationInv, RevocationStands, TypeInv, TypeOK
<1>3. CASE \E s \in Sessions : Expire(s)
  <2>1. PICK s \in Sessions : Expire(s)
    BY <1>3
  <2>2. UNCHANGED <<index, work, logins, ended>>
    BY <2>1 DEF Expire, counters
  <2>3. /\ overlapped \subseteq overlapped' /\ (Pending(s) => s \in overlapped')
        /\ rec'[s].state = "absent" /\ tok'[s] = NoToken
        /\ \A t \in Sessions \ {s} : rec'[t] = rec[t] /\ tok'[t] = tok[t]
    BY <2>1 DEF Expire, Overlap, NoRecord, TypeInv, TypeOK
  <2>4. \A t \in Sessions : Closed(t) => Closed(t)'
    BY <2>3 DEF Closed
  <2>5. \A t \in Sessions : Unborn(t)' => Unborn(t) /\ Untraced(t)'
    BY <2>2, <2>3 DEF Unborn, LoggingIn, RevocationInv, Untraced
  <2>6. ASSUME NEW w \in Workers PROVE Writes(w)' /\ Sweeps(w)'
    <3>1. Writes(w) /\ Sweeps(w) /\ Placed(work[w]) /\ work[w] \in WorkStates
      BY DEF RevocationInv, TypeInv, TypeOK
    <3>2. Writes(w)'
      BY <2>2, <2>3, <3>1 DEF Writes, Placed, Pending
    <3>3. Sweeps(w)'
      BY <2>2, <2>3, <3>1 DEF Sweeps, Closed, Placed, WorkStates
    <3> QED  BY <3>2, <3>3
  <2>7. RevocationStands'
    BY <2>2, <2>3 DEF RevocationInv, RevocationStands, TypeInv, TypeOK
  <2>8. \A t \in Sessions : Closed(t)' \/ tok'[t] = NoToken \/ t \in index'
    BY <2>2, <2>3, <2>4 DEF RevocationInv
  <2> QED  BY <2>5, <2>6, <2>7, <2>8 DEF RevocationInv
<1>4. CASE UNCHANGED vars
  BY <1>4 DEF vars, redisVars, history, counters, RevocationInv, RevocationStands, Unborn, Untraced,
              LoggingIn, Closed, Writes, Sweeps
<1> QED  BY <1>1, <1>2, <1>3, <1>4, NextSteps

(* When a revocation has finished, the sessions that it was to end are     *)
(* closed and stay so, but for those whose record a handler held.          *)
THEOREM RevocationsStand == Spec => []RevocationStands
<1>1. Init => RevocationInv
  BY DEF Init, Idle, NoRecord, RevocationInv, RevocationStands, Unborn, Untraced, LoggingIn,
         Closed, Writes, Sweeps, NoSession, Sessions
<1>2. RevocationInv => RevocationStands
  BY DEF RevocationInv
<1> QED  BY <1>1, <1>2, RevocationKept, TokensAlways, PTL DEF Spec

=============================================================================
