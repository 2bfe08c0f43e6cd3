---------------------------- MODULE BatchTables ----------------------------
(***************************************************************************)
(* The rows of the tables batches and batch_chunks, and what the workers'  *)
(* statements do to a chunk row.  There is one batch; its chunks are the   *)
(* constant Chunks, each of ChunkItems prompt lines.                       *)
(*                                                                         *)
(* A row is written through SQLAlchemy's unit of work: an UPDATE carries   *)
(* only the columns whose new value differs from the value that this       *)
(* session loaded (Emit below), and overwrites them whatever another       *)
(* transaction committed in between (READ COMMITTED, no version column).   *)
(***************************************************************************)
EXTENDS Integers, FiniteSets

CONSTANTS
    Chunks,             \* the chunk rows of the batch
    ChunkItems,         \* prompt lines per chunk
    ChunkMaxAttempts    \* settings.chunk_max_attempts

ASSUME ChunksAssumption   == IsFiniteSet(Chunks) /\ Chunks # {}
ASSUME ItemsAssumption    == ChunkItems \in Nat \ {0}
ASSUME AttemptsAssumption == ChunkMaxAttempts \in Nat \ {0}

BatchStatus == {"pending", "running", "completed", "failed", "cancelled"}
Terminal    == {"completed", "failed", "cancelled"}

(* "absent" stands for a row create_chunk_rows has not inserted yet.       *)
ChunkStatus == {"absent", "pending", "leased", "succeeded", "failed"}

(* leased_until, against the clock: null, in the future, in the past.      *)
Lease == {"none", "live", "expired"}

(* ok_count is ChunkItems - fail_count and is not kept apart.              *)
ChunkRow == [status     : ChunkStatus,
             lease      : Lease,
             attempts   : Nat,
             result_key : BOOLEAN,
             fail_count : 0 .. ChunkItems]

Progress == [completed_items : Nat, failed_items : Nat, retry_count : Nat]

NoRow  == [status |-> "absent", lease |-> "none", attempts |-> 0,
           result_key |-> FALSE, fail_count |-> 0]
NewRow == [NoRow EXCEPT !.status = "pending"]

NoProgress == [completed_items |-> 0, failed_items |-> 0, retry_count |-> 0]

----------------------------------------------------------------------------
(* What reaches the database for one column: the value in the row (cur),   *)
(* unless the handler changed what it had loaded (seen) to new.            *)
Emit(seen, new, cur) == IF new = seen THEN cur ELSE new

(* The three early returns of _lease_chunk; TRUE when none is taken.       *)
CanLease(row) ==
    /\ row.status # "succeeded"
    /\ ~(row.attempts >= ChunkMaxAttempts /\ row.status = "failed")
    /\ ~(row.status = "leased" /\ row.lease = "live")

(* The lease taken on a row that was loaded as seen and now is cur; the    *)
(* increment of attempts is computed from the loaded value.                *)
Leased(seen, cur) ==
    [cur EXCEPT !.status   = Emit(seen.status, "leased", @),
                !.lease    = "live",
                !.attempts = seen.attempts + 1]

(* A mutant: the key of the object is forgotten.                           *)
SucceededNoKey(row, failures) ==
    [row EXCEPT !.status = "succeeded", !.lease = "none",
                !.fail_count = failures]

(* The row the success path flushes.                                       *)
Succeeded(row, failures) ==
    [row EXCEPT !.status = "succeeded", !.lease = "none",
                !.result_key = TRUE, !.fail_count = failures]

(* A mutant: the key goes with the lease.                                  *)
FailedNoKey(seen, cur, status) ==
    [cur EXCEPT !.status = Emit(seen.status, status, @),
                !.lease  = Emit(seen.lease, "none", @), !.result_key = FALSE]

(* The row the except path writes with the given status.                   *)
Failed(seen, cur, status) ==
    [cur EXCEPT !.status = Emit(seen.status, status, @),
                !.lease  = Emit(seen.lease, "none", @)]

(* Back to pending without a lease: cancellation, reclaim and requeue.     *)
Released(row) == [row EXCEPT !.status = "pending", !.lease = "none"]

(* The UPDATE of reclaim_expired_leases over all rows.                     *)
Lapsed(row) == row.status = "leased" /\ row.lease = "expired"
Reclaimed(rows) ==
    [c \in Chunks |-> IF Lapsed(rows[c]) THEN Released(rows[c]) ELSE rows[c]]

WithStatus(rows, S) == {c \in Chunks : rows[c].status \in S}

----------------------------------------------------------------------------
(* _recompute_batch_counters.  Each of its three sums is the cardinality   *)
(* of what it counts: the lines of succeeded chunks, the failed ones among *)
(* them, and the leases after a chunk's first.                             *)
DoneLines(rows) == WithStatus(rows, {"succeeded"}) \X (1 .. ChunkItems)
FailedLines(rows) == {x \in DoneLines(rows) : x[2] <= rows[x[1]].fail_count}
Retries(rows) == UNION {{c} \X (2 .. rows[c].attempts) : c \in Chunks}

(* A mutant: the retries are summed without max(0, attempts - 1).          *)
RecomputedUnclipped(rows) ==
    [completed_items |-> Cardinality(DoneLines(rows)),
     failed_items    |-> Cardinality(FailedLines(rows)),
     retry_count     |-> Cardinality(Retries(rows))
                         - Cardinality({c \in Chunks : rows[c].attempts = 0})]
Recomputed(rows) ==
    [completed_items |-> Cardinality(DoneLines(rows)),
     failed_items    |-> Cardinality(FailedLines(rows)),
     retry_count     |-> Cardinality(Retries(rows))]
============================================================================
