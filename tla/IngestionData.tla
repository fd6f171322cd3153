--------------------------- MODULE IngestionData ---------------------------
(***************************************************************************)
(* The tables one connection's records pass through (source_records,       *)
(* normalized_records, canonical_records, integration_reconciliation_runs) *)
(* and the stream's row of sync_checkpoints, with the repository's         *)
(* transactions on them; and fetch() of the adapters that page             *)
(* (ShopifyAdapter, WooCommerceAdapter).  The records are those of one     *)
(* stream of one connection, the first of request.streams; the pages of a  *)
(* later stream carry none of them and stand for one empty page.           *)
(*                                                                         *)
(* A record is its position on the provider's timeline.  source_batch_id   *)
(* of a row is modelled by the run whose latest batch it is: a row of an   *)
(* older batch is never selected again, so it points to no run.            *)
(***************************************************************************)
EXTENDS SyncJobs, FiniteSets

CONSTANTS
  PageSize,      \* records of one provider page
  From, To,      \* request.from and request.to of each job, 0 for null
  OffsetCursor,  \* page cursors count from the window's start (WooCommerce's
                 \* page number) or name a place in the timeline (Shopify)
  CountsPages,   \* WooCommerce's answers carry x-wp-totalpages
  MoreStreams    \* request.streams goes on after the stream modelled here

ASSUME DataAssumption ==
  /\ PageSize \in Nat \ {0}
  /\ From \in [Jobs -> 0 .. MaxHead]
  /\ To \in [Jobs -> 0 .. MaxHead]
  /\ OffsetCursor \in BOOLEAN
  /\ CountsPages \in BOOLEAN
  /\ MoreStreams \in BOOLEAN

VARIABLES
  head,        \* the provider's newest position
  source,      \* positions with a row in source_records
  batchOf,     \* source_records.source_batch_id, as the run of that batch
  normalized,  \* positions with a row in normalized_records
  canonical,   \* positions with a row in canonical_records
  watermark,   \* sync_checkpoints.cursor of the stream, 0 when there is none
  passed       \* jobs with a 'passed' row in integration_reconciliation_runs

dataVars == <<head, source, batchOf, normalized, canonical, watermark, passed>>

-----------------------------------------------------------------------------
DataTypeOK ==
  /\ head \in 0 .. MaxHead
  /\ source \in SUBSET Positions
  /\ batchOf \in [Positions -> Runs \union {NoRun}]
  /\ normalized \in SUBSET Positions
  /\ canonical \in SUBSET Positions
  /\ watermark \in 0 .. MaxHead
  /\ passed \in SUBSET Jobs

DataInit ==
  /\ head = 0
  /\ source = {}
  /\ batchOf = [p \in Positions |-> NoRun]
  /\ normalized = {}
  /\ canonical = {}
  /\ watermark = 0
  /\ passed = {}

-----------------------------------------------------------------------------
(* The provider. *)

Produce ==
  /\ head < MaxHead
  /\ head' = head + 1
  /\ UNCHANGED <<source, batchOf, normalized, canonical, watermark, passed>>

Larger(a, b) == IF a < b THEN b ELSE a
Smaller(a, b) == IF a < b THEN a ELSE b

(* from = request.from ?? checkpointDate(request.checkpoint) *)
WindowStart(j, chk) == IF From[j] # 0 THEN From[j] ELSE chk + 1
WindowEnd(j) == IF To[j] # 0 THEN Smaller(To[j], head) ELSE head

(* A page of the next stream has none of this stream's records: it starts  *)
(* beyond them.                                                            *)
PageStart(j, chk, cur) ==
  IF OffsetCursor THEN WindowStart(j, chk) + cur
                  ELSE Larger(cur, WindowStart(j, chk))

PageEnd(j, start) == Smaller(start + PageSize - 1, WindowEnd(j))

(* A full page may be the last one; WooCommerce's adapter only knows from  *)
(* the total, and without it asks for one more page, which is empty.       *)
HasNextPage(j, start) ==
  \/ start + PageSize <= WindowEnd(j)
  \/ OffsetCursor /\ ~CountsPages /\ start + PageSize - 1 = WindowEnd(j)

(* nextPageCursor: the stream's next page, else the next stream's first,   *)
(* else null.                                                              *)
NextCursor(j, chk, cur) ==
  LET start == PageStart(j, chk, cur)
  IN  IF HasNextPage(j, start)
      THEN IF OffsetCursor THEN start + PageSize - WindowStart(j, chk)
                           ELSE start + PageSize
      ELSE IF MoreStreams /\ cur # NextStream THEN NextStream ELSE 0

(* nextCheckpoint is the clock when the page was asked for, whatever the   *)
(* window was.                                                             *)
NextCheckpoint == head

-----------------------------------------------------------------------------
(* The repository's transactions. *)

BatchRows(r) == {p \in Positions : batchOf[p] = r}

PersistFetchedPageEarlyCheckpoint(r, page, isLastPage, nextCheckpoint) ==
  /\ source' = source \union page
  /\ batchOf' = [p \in Positions |->
                   IF p \in page THEN r
                   ELSE IF batchOf[p] = r THEN NoRun ELSE batchOf[p]]
  /\ watermark' = nextCheckpoint
  /\ UNCHANGED <<head, normalized, canonical, passed>>

(* persistFetchedPage: a new batch, its rows, and on the last page the     *)
(* stream's checkpoint.  Neither the rows nor the checkpoint is fenced by  *)
(* the lease.                                                              *)
PersistFetchedPage(r, page, isLastPage, nextCheckpoint) ==
  /\ source' = source \union page
  /\ batchOf' = [p \in Positions |->
                   IF p \in page THEN r
                   ELSE IF batchOf[p] = r THEN NoRun ELSE batchOf[p]]
  /\ watermark' = IF isLastPage THEN nextCheckpoint ELSE watermark
  /\ UNCHANGED <<head, normalized, canonical, passed>>

NormalizeBatch(r) ==
  /\ normalized' = normalized \union BatchRows(r)
  /\ UNCHANGED <<head, source, batchOf, canonical, watermark, passed>>

(* The rows of the batch that have a normalized row. *)
CanonicalRows(r) == BatchRows(r) \intersect normalized

WriteCanonicalRecords(r) ==
  /\ canonical' = canonical \union CanonicalRows(r)
  /\ UNCHANGED <<head, source, batchOf, normalized, watermark, passed>>

WriteReconciliation(j, ok) ==
  /\ passed' = IF ok THEN passed \union {j} ELSE passed
  /\ UNCHANGED <<head, source, batchOf, normalized, canonical, watermark>>

=============================================================================
