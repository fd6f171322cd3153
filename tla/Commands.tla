------------------------------- MODULE Commands -------------------------------
(***************************************************************************)
(* The rows of app.command_executions as CommandExecutionInterceptor reads *)
(* and writes them.  A command is a tenant, workspace, operation and       *)
(* Idempotency-Key; every request that repeats it comes from the same      *)
(* actor with the same body.  Each operator is one transaction.            *)
(***************************************************************************)
EXTENDS Naturals, FiniteSets

CONSTANTS
  Commands,
  Rerunnable   \* those of "billing.operations.session.create"

ASSUME CommandsAssumption == Rerunnable \subseteq Commands

VARIABLES
  cmd,      \* command_executions.status
  aged,     \* created_at is 15 minutes ago or more
  audited   \* the commands with a "success" audit event

commandVars == <<cmd, aged, audited>>

CommandsTypeOK ==
  /\ cmd \in [Commands -> {"absent", "reserved", "succeeded", "failed"}]
  /\ aged \in [Commands -> BOOLEAN]
  /\ audited \in SUBSET Commands

CommandsInit ==
  /\ cmd = [c \in Commands |-> "absent"]
  /\ aged = [c \in Commands |-> FALSE]
  /\ audited = {}

-----------------------------------------------------------------------------
Replays(c) == cmd[c] = "succeeded" /\ c \notin Rerunnable

(* MUTANT: whoever finds the row reserved executes it again. *)
InProgressNever(c) == FALSE

InProgress(c) == cmd[c] = "reserved" /\ ~aged[c]

(* The INSERT, or the UPDATE of a failed, forgotten or rerunnable row. *)
Reserve(c) ==
  /\ ~Replays(c)
  /\ ~InProgress(c)
  /\ cmd' = [cmd EXCEPT ![c] = "reserved"]
  /\ aged' = [aged EXCEPT ![c] = FALSE]
  /\ UNCHANGED audited

AuditSuccess(c) ==
  /\ audited' = audited \union {c}
  /\ UNCHANGED <<cmd, aged>>

(* Neither UPDATE looks at the status it overwrites. *)
SetOutcome(c, outcome) ==
  /\ cmd' = [cmd EXCEPT ![c] = outcome]
  /\ UNCHANGED <<aged, audited>>

(* now() passes created_at + 15 minutes. *)
Grow(c) ==
  /\ cmd[c] = "reserved" /\ ~aged[c]
  /\ aged' = [aged EXCEPT ![c] = TRUE]
  /\ UNCHANGED <<cmd, audited>>

=============================================================================
