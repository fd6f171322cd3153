---------------------------- MODULE OperationStore ----------------------------
(***************************************************************************)
(* operation(): a transaction that looks for a receipt of the request and  *)
(* otherwise does its work and writes the receipt.  The work here is the   *)
(* save of one settings document, or the change of one membership: both    *)
(* compare the document's version with the one the user was looking at.    *)
(***************************************************************************)
EXTENDS Naturals

CONSTANT Saves   \* the requests, all made by a user who looked at version 0

VARIABLES
  version,   \* platform_setting_documents.version, memberships.operation_version
  receipt,   \* platform_operation_receipts.response: the version, 0 if none
  writes     \* HISTORY: how often each request wrote the document

storeVars == <<version, receipt, writes>>

StoreTypeOK ==
  /\ version \in Nat
  /\ receipt \in [Saves -> Nat]
  /\ writes \in [Saves -> Nat]

StoreInit ==
  /\ version = 0
  /\ receipt = [c \in Saves |-> 0]
  /\ writes = [c \in Saves |-> 0]

-----------------------------------------------------------------------------
ExpectedVersion == 0

(* MUTANT: the last save wins. *)
UpToDateAnyway(c) == TRUE

UpToDate(c) == version = ExpectedVersion

(* The receipt of an earlier execution is the answer. *)
Repeat(c) == receipt[c] # 0 /\ UNCHANGED storeVars

Save(c) ==
  /\ receipt[c] = 0
  /\ UpToDate(c)
  /\ version' = version + 1
  /\ receipt' = [receipt EXCEPT ![c] = version + 1]
  /\ writes' = [writes EXCEPT ![c] = @ + 1]

Refused(c) == receipt[c] = 0 /\ ~UpToDate(c) /\ UNCHANGED storeVars

=============================================================================
