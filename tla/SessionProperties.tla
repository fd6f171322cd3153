-------------------------- MODULE SessionProperties --------------------------
(***************************************************************************)
(* What the BFF's sessions promise when handlers overlap.                  *)
(***************************************************************************)
EXTENDS BffSessions

(* Logout, "sign out everywhere", a password reset, a disabled or newly    *)
(* confirmed second factor: when the request has finished, every session   *)
(* that was open when it listed the user's sessions is closed, and stays   *)
(* closed, unless another handler held that session's record at the time   *)
(* it was revoked and writes the old record back (saveSession writes the   *)
(* whole record; revokeAllSessionsForUser finds sessions by the index).    *)
RevocationStands ==
  \A s \in ended \ overlapped : rec[s].state # "live"

(* The same without exception: the record that a refresh writes back is    *)
(* taken for harmless (session-store.ts: "that second write isn't          *)
(* security-critical (... just means one of two identical expiresAt values *)
(* wins ...)"), so a session whose revocation has finished stays revoked.  *)
RevokedStaysRevoked ==
  \A s \in ended : rec[s].state # "live"

(* A step-up is worth something only in the workspace it was issued in     *)
(* (selectWorkspace drops it), however selections, step-ups and stale      *)
(* write-backs of one session interleave.                                  *)
StepUpStaysInItsWorkspace ==
  \A s \in Sessions : rec[s].level = "step_up" => rec[s].proof = rec[s].ws

(* "under normal use should never happen" (refresh(), on a mismatch): a    *)
(* browser is never taken for one that reuses a token, whatever its tabs   *)
(* do at the same time, unless a refresh of its session lost its reply, or *)
(* it has no Web Locks and the fallback of authRefreshCoordinator let two  *)
(* of its tabs refresh at once.                                            *)
NoFalseReuse == suspect \subseteq faulted \union (raced \ WebLocks)

(* Each refresh token is exchanged for a new one at most once, however     *)
(* many requests present it ("two concurrent refresh calls presenting the  *)
(* same still-valid token could both ... believe they won").               *)
TokenIsSpentOnce ==
  [][ \A w \in Workers :
        At(w, "rotate") /\ work'[w].pc = "set"
          => <<work[w].s, work[w].token>> \notin redeemed ]_vars

=============================================================================
