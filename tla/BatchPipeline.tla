--------------------------- MODULE BatchPipeline ---------------------------
(***************************************************************************)
(* One batch on its way through the arq workers (app/workers/jobs.py): the *)
(* job queue in Redis, the two tables in Postgres, the objects in Spaces,  *)
(* and the handlers orchestrate_batch, process_chunk,                      *)
(* check_batch_completion, finalize_batch and reclaim_leases_cron, with    *)
(* the API calls that replay the creation of a batch or cancel it.         *)
(*                                                                         *)
(* A handler is cut where another one can come between: at each commit,    *)
(* each write to Spaces and each enqueue.  What a handler read before such *)
(* a cut it still uses after it (the fields saw, row, tally of a slot).    *)
(***************************************************************************)
EXTENDS BatchTables

CONSTANTS
    Slots,        \* the jobs that can run at the same time (max_jobs)
    FailCounts,   \* numbers of failed lines a chunk's inference may end with
    NoObject,     \* an object that is not in Spaces
    MaxCopies,    \* bound: copies of one job the queue tells apart
    Budget        \* bound: how often each fault may occur

Faults == {"crash", "drop", "raise", "redis", "replay", "cancel", "slow"}

ControlJob == {"orchestrate_batch", "check_batch_completion", "finalize_batch"}

(* A chunk stands for the job process_chunk(batch, chunk).                 *)
Job   == Chunks \cup ControlJob
NoJob == "no_job"

ASSUME JobsAssumption   == Chunks \cap (ControlJob \cup {NoJob}) = {}
ASSUME CountsAssumption ==
    FailCounts \subseteq 0 .. ChunkItems /\ NoObject \notin 0 .. ChunkItems
ASSUME BoundsAssumption == MaxCopies \in Nat \ {0} /\ Budget \in [Faults -> Nat]

VARIABLES
    batch,        \* the row of the batch: status and whether results_key is set
    progress,     \* its completed_items, failed_items, retry_count
    chunk,        \* the rows of batch_chunks
    object,       \* Spaces: the failed lines in each chunk's result object
    results,      \* Spaces: the same, per chunk, in the concatenated object
    queue,        \* Redis: copies of each job
    notified,     \* the webhook events handed to deliver_batch_webhook
    worker,       \* what each slot is doing
    cancelling,   \* a cancel request has read the batch and not yet committed
    left          \* the faults still to come

vars == <<batch, progress, chunk, object, results, queue, notified, worker,
          cancelling, left>>

tables == <<batch, progress, chunk>>
spaces == <<object, results>>

PC == {"idle", "orchestrate", "fanout", "rearm",                 \* orchestrate
       "lease", "guard", "release", "infer", "flush", "commit",  \* process
       "nudge", "except", "retry", "notify",
       "reclaim", "count", "fail", "to_finalize",                \* check
       "requeue", "requeue_commit",
       "concat", "publish"}                                      \* finalize

Event == {"batch.completed", "batch.failed"}

(* A slot: saw is the status of the batch and row the row of the chunk the *)
(* handler loaded; failures what its inference ended with; tally the sums  *)
(* its UPDATE took from its statement's snapshot; out the chunks it has to *)
(* enqueue or to concatenate; lapsed those it sets back to pending when it *)
(* commits.                                                                *)
SlotState == [pc : PC, job : Job \cup {NoJob}, saw : BatchStatus,
              row : ChunkRow, failures : 0 .. ChunkItems, tally : Progress,
              out : SUBSET Chunks, lapsed : SUBSET Chunks]

Idle == [pc |-> "idle", job |-> NoJob, saw |-> "pending", row |-> NoRow,
         failures |-> 0, tally |-> NoProgress, out |-> {}, lapsed |-> {}]

TypeOK ==
    /\ batch \in [status : BatchStatus, results_key : BOOLEAN]
    /\ progress \in Progress
    /\ chunk \in [Chunks -> ChunkRow]
    /\ object \in [Chunks -> 0 .. ChunkItems \cup {NoObject}]
    /\ results \in [Chunks -> 0 .. ChunkItems \cup {NoObject}]
    /\ queue \in [Job -> 0 .. MaxCopies]
    /\ notified \subseteq Event
    /\ worker \in [Slots -> SlotState]
    /\ cancelling \in BOOLEAN
    /\ left \in [Faults -> Nat]

(* create_batch has committed and its endpoint has enqueued the job.       *)
Init ==
    /\ batch = [status |-> "pending", results_key |-> FALSE]
    /\ progress = NoProgress
    /\ chunk = [c \in Chunks |-> NoRow]
    /\ object = [c \in Chunks |-> NoObject]
    /\ results = [c \in Chunks |-> NoObject]
    /\ queue = [j \in Job |-> IF j = "orchestrate_batch" THEN 1 ELSE 0]
    /\ notified = {}
    /\ worker = [s \in Slots |-> Idle]
    /\ cancelling = FALSE
    /\ left = Budget

----------------------------------------------------------------------------
(* Shared by the handlers                                                  *)

(* Copies beyond MaxCopies are not told apart: a job is idempotent enough  *)
(* that what matters is whether another copy is still to come.             *)
Plus(n) == IF n < MaxCopies THEN n + 1 ELSE n
Enqueue(j)  == queue' = [queue EXCEPT ![j] = Plus(@)]
Dequeue(j)  == queue[j] > 0 /\ queue' = [queue EXCEPT ![j] = @ - 1]

At(s, pc)    == worker[s].pc = pc
Goto(s, pc)  == worker' = [worker EXCEPT ![s] = [Idle EXCEPT !.pc = pc,
                                                   !.job = worker[s].job]]
Return(s)    == worker' = [worker EXCEPT ![s] = Idle]

(* A chunk row written and not committed is locked; writers wait for it.   *)
Writes(s, c)   == \/ At(s, "commit") /\ worker[s].job = c
                  \/ At(s, "count") /\ c \in worker[s].lapsed
Locked(c)      == \E s \in Slots : Writes(s, c)
NoneLocked(S)  == \A c \in S : ~Locked(c)
LapsedChunks   == {c \in Chunks : Lapsed(chunk[c])}

(* The rows once those of S are back to pending.                           *)
SetBack(S) == [c \in Chunks |-> IF c \in S THEN Released(chunk[c]) ELSE chunk[c]]

(* The sends that end a handler: to the completion check after a success   *)
(* or from a loop, to finalize_batch, and of a failed chunk to itself.     *)
Nudge(s)         == At(s, "nudge") /\ Enqueue("check_batch_completion")
Rearm(s)         == At(s, "rearm") /\ Enqueue("check_batch_completion")
StartFinalize(s) == At(s, "to_finalize") /\ Enqueue("finalize_batch")
EnqueueRetry(s)  == At(s, "retry") /\ Enqueue(worker[s].job)

HandOff(s) ==
    /\ Nudge(s) \/ Rearm(s) \/ StartFinalize(s) \/ EnqueueRetry(s)
    /\ Return(s)
    /\ UNCHANGED <<tables, spaces, notified, cancelling, left>>

(* The event that a handler sends at its end.                              *)
EventOf(job) == IF job = "finalize_batch" THEN "batch.completed" ELSE "batch.failed"

Notify(s) ==
    /\ At(s, "notify")
    /\ notified' = notified \cup {EventOf(worker[s].job)}
    /\ Return(s)
    /\ UNCHANGED <<tables, spaces, queue, cancelling, left>>

(* One process_chunk job enqueued from the loops of orchestrate_batch and  *)
(* check_batch_completion (the rows are read in no particular order).      *)
AfterFanout(w) ==
    IF w.lapsed # {} THEN "requeue_commit" ELSE "rearm"

Fanout(s) ==
    /\ At(s, "fanout")
    /\ \E c \in worker[s].out :
         LET rest == worker[s].out \ {c}
         IN /\ Enqueue(c)
            /\ worker' = [worker EXCEPT ![s].out = rest,
                                        ![s].pc = IF rest = {}
                                                  THEN AfterFanout(worker[s])
                                                  ELSE "fanout"]
    /\ UNCHANGED <<tables, spaces, notified, cancelling, left>>

(* A mutant: with nothing to enqueue, the check is not scheduled again.    *)
StartFanoutOrQuit(s, out, lapsed) ==
    worker' = [worker EXCEPT ![s] =
        IF out = {} THEN Idle
        ELSE [Idle EXCEPT !.pc = "fanout", !.job = worker[s].job,
                          !.out = out, !.lapsed = lapsed]]

(* Enter the loop over out, or pass it by.                                 *)
StartFanout(s, out, lapsed) ==
    worker' = [worker EXCEPT ![s] = [Idle EXCEPT
                 !.pc = IF out = {} THEN "rearm" ELSE "fanout",
                 !.job = worker[s].job, !.out = out, !.lapsed = lapsed]]

----------------------------------------------------------------------------
(* A job leaves the queue.  The first reads of its handler come with it.   *)

(* The early returns on what is read first.                                *)
ChunkIgnored(c)     == batch.status \in Terminal \/ ~CanLease(chunk[c])
CompletionIgnored   == batch.status \in Terminal
FinalizeIgnored     == batch.status \in {"completed", "cancelled"}
OrchestrateIgnored  == batch.status \in Terminal

Ignored(j) ==
    \/ j \in Chunks /\ ChunkIgnored(j)
    \/ j = "check_batch_completion" /\ CompletionIgnored
    \/ j = "finalize_batch" /\ FinalizeIgnored
    \/ j = "orchestrate_batch" /\ OrchestrateIgnored

Ignore(s, j) ==
    /\ At(s, "idle")
    /\ Dequeue(j)
    /\ Ignored(j)
    /\ UNCHANGED <<tables, spaces, notified, worker, cancelling, left>>

(* finalize_batch goes on only over succeeded chunks, and then only with   *)
(* the keys of their objects; it leaves the rest to the completion check.  *)
AllSucceeded == \A c \in Chunks : chunk[c].status = "succeeded"

(* A mutant: the key is published before the objects are concatenated.     *)
FirstPCPublish(j) ==
    IF j \in Chunks THEN "lease"
    ELSE IF j = "orchestrate_batch" THEN "orchestrate"
    ELSE IF j = "check_batch_completion" THEN "reclaim"
    ELSE IF AllSucceeded THEN "publish" ELSE "rearm"
FirstPC(j) ==
    IF j \in Chunks THEN "lease"
    ELSE IF j = "orchestrate_batch" THEN "orchestrate"
    ELSE IF j = "check_batch_completion" THEN "reclaim"
    ELSE IF AllSucceeded THEN "concat" ELSE "rearm"

Begin(s, j) ==
    /\ At(s, "idle")
    /\ Dequeue(j)
    /\ ~Ignored(j)
    /\ worker' = [worker EXCEPT ![s] = [Idle EXCEPT
         !.pc  = FirstPC(j),
         !.job = j,
         !.saw = IF j = "orchestrate_batch" THEN batch.status ELSE "pending",
         !.row = IF j \in Chunks THEN chunk[j] ELSE NoRow,
         !.out = IF FirstPC(j) = "concat"
                 THEN {c \in Chunks : chunk[c].result_key} ELSE {}]]
    /\ UNCHANGED <<tables, spaces, notified, cancelling, left>>

----------------------------------------------------------------------------
(* orchestrate_batch                                                       *)

Rows == [c \in Chunks |-> IF chunk[c].status = "absent" THEN NewRow ELSE chunk[c]]

(* The status written over whatever it is by now, the rows inserted if     *)
(* there are none, the lapsed leases reclaimed, in one transaction.        *)
Orchestrate(s) ==
    /\ At(s, "orchestrate")
    /\ NoneLocked(LapsedChunks)
    /\ batch' = [batch EXCEPT !.status = Emit(worker[s].saw, "running", @)]
    /\ chunk' = Reclaimed(Rows)
    /\ StartFanout(s, Chunks \ WithStatus(Rows, {"succeeded"}), {})
    /\ UNCHANGED <<progress, spaces, queue, notified, cancelling, left>>

----------------------------------------------------------------------------
(* process_chunk(c), up to the commit of its results                       *)

Works(s, c, pc) == At(s, pc) /\ worker[s].job = c

(* The lease and, after a first attempt, the live bump of retry_count.     *)
LeaseChunk(s, c) ==
    /\ Works(s, c, "lease")
    /\ ~Locked(c)
    /\ chunk' = [chunk EXCEPT ![c] = Leased(worker[s].row, @)]
    /\ progress' = [progress EXCEPT !.retry_count =
                      IF worker[s].row.attempts > 0 THEN @ + 1 ELSE @]
    /\ Goto(s, "guard")
    /\ UNCHANGED <<batch, spaces, queue, notified, cancelling, left>>

(* A mutant: the row is written before the object.                         *)
CheckCancelledNoWrite(s, c) ==
    /\ Works(s, c, "guard")
    /\ Goto(s, IF batch.status = "cancelled" THEN "release" ELSE "flush")
    /\ UNCHANGED <<tables, spaces, queue, notified, cancelling, left>>

(* run_one looks at the batch before it calls the provider.                *)
CheckCancelled(s, c) ==
    /\ Works(s, c, "guard")
    /\ Goto(s, IF batch.status = "cancelled" THEN "release" ELSE "infer")
    /\ UNCHANGED <<tables, spaces, queue, notified, cancelling, left>>

ReleaseCancelled(s, c) ==
    /\ Works(s, c, "release")
    /\ ~Locked(c)
    /\ chunk' = [chunk EXCEPT ![c] = Released(@)]
    /\ Return(s)
    /\ UNCHANGED <<batch, progress, spaces, queue, notified, cancelling, left>>

(* The outcomes are gathered and the chunk's object is written.            *)
Infer(s, c) ==
    /\ Works(s, c, "infer")
    /\ \E f \in FailCounts :
         /\ object' = [object EXCEPT ![c] = f]
         /\ worker' = [worker EXCEPT ![s].pc = "flush", ![s].failures = f]
    /\ UNCHANGED <<tables, results, queue, notified, cancelling, left>>

(* The row is flushed, which locks it, and the UPDATE of the batch starts: *)
(* its sums see this transaction's row and every committed one, and not a  *)
(* row that another success path has flushed only.                         *)
Flush(s, c) ==
    /\ Works(s, c, "flush")
    /\ ~Locked(c)
    /\ worker' = [worker EXCEPT
         ![s].pc = "commit",
         ![s].tally = Recomputed([chunk EXCEPT
                        ![c] = Succeeded(@, worker[s].failures)])]
    /\ UNCHANGED <<tables, spaces, queue, notified, cancelling, left>>

(* A mutant: counters bumped by this chunk's lines instead of recomputed.  *)
CommitByAdding(s, c) ==
    /\ Works(s, c, "commit")
    /\ chunk' = [chunk EXCEPT ![c] = Succeeded(@, worker[s].failures)]
    /\ progress' = [progress EXCEPT !.completed_items = @ + ChunkItems,
                                    !.failed_items = @ + worker[s].failures]
    /\ Goto(s, "nudge")
    /\ UNCHANGED <<batch, spaces, queue, notified, cancelling, left>>
Commit(s, c) ==
    /\ Works(s, c, "commit")
    /\ chunk' = [chunk EXCEPT ![c] = Succeeded(@, worker[s].failures)]
    /\ progress' = worker[s].tally
    /\ Goto(s, "nudge")
    /\ UNCHANGED <<batch, spaces, queue, notified, cancelling, left>>

----------------------------------------------------------------------------
(* process_chunk(c), the except path.  An exception may come anywhere in   *)
(* the try block, the nudge after the commit included.                     *)

Tried == {"guard", "release", "infer", "flush", "commit", "nudge"}

Spend(f) == left[f] > 0 /\ left' = [left EXCEPT ![f] = @ - 1]

Raise(s, c) ==
    /\ worker[s].job = c /\ worker[s].pc \in Tried
    /\ Spend("raise")
    /\ worker' = [worker EXCEPT ![s] = [Idle EXCEPT
                    !.pc = "except", !.job = c,
                    !.saw = batch.status, !.row = chunk[c]]]
    /\ UNCHANGED <<tables, spaces, queue, notified, cancelling>>

Exhausted(row) == row.attempts >= ChunkMaxAttempts

RetryChunk(s, c) ==
    /\ Works(s, c, "except")
    /\ ~Exhausted(worker[s].row)
    /\ ~Locked(c)
    /\ chunk' = [chunk EXCEPT ![c] = Failed(worker[s].row, @, "pending")]
    /\ Goto(s, "retry")
    /\ UNCHANGED <<batch, progress, spaces, queue, notified, cancelling, left>>

FailBatch(s, c) ==
    /\ Works(s, c, "except")
    /\ Exhausted(worker[s].row) /\ worker[s].saw = "running"
    /\ ~Locked(c)
    /\ chunk' = [chunk EXCEPT ![c] = Failed(worker[s].row, @, "failed")]
    /\ batch' = [batch EXCEPT !.status = "failed"]
    /\ Goto(s, "notify")
    /\ UNCHANGED <<progress, spaces, queue, notified, cancelling, left>>

(* No commit on this path: the changes to the chunk are rolled back.       *)
AbandonChunk(s, c) ==
    /\ Works(s, c, "except")
    /\ Exhausted(worker[s].row) /\ worker[s].saw # "running"
    /\ Return(s)
    /\ UNCHANGED <<tables, spaces, queue, notified, cancelling, left>>

----------------------------------------------------------------------------
(* check_batch_completion, after it has read the batch                     *)

Unfinished == {"pending", "leased"}
AnyIn(rows, S) == WithStatus(rows, S) # {}

(* A mutant: a batch without unfinished chunks is taken for a failed one.  *)
MustFailDone(rows) == ~AnyIn(rows, Unfinished)

(* When the check does what, on the rows after the reclaim.  A third       *)
(* return, for a batch without rows, is out of reach: orchestrate_batch    *)
(* commits the rows before it enqueues the first check.                    *)
MustFail(rows)     == AnyIn(rows, {"failed"}) /\ ~AnyIn(rows, Unfinished)
MayFinalize(rows)  == WithStatus(rows, {"succeeded"}) = Chunks
MustRequeue(rows)  == AnyIn(rows, Unfinished)

(* The leases that have run out are reclaimed; the rows stay locked until  *)
(* the transaction ends.                                                   *)
Reclaim(s) ==
    /\ At(s, "reclaim")
    /\ NoneLocked(LapsedChunks)
    /\ worker' = [worker EXCEPT ![s].pc = "count", ![s].lapsed = LapsedChunks]
    /\ UNCHANGED <<tables, spaces, queue, notified, cancelling, left>>

(* The counts see what is committed by now, and this transaction's own     *)
(* rows.  A verdict other than failure writes nothing to the batch, and    *)
(* commits.  If leases were reclaimed, pending chunks are counted whatever *)
(* else is, so the counts and that commit may be taken together.           *)
Count(s) ==
    /\ At(s, "count")
    /\ chunk' = SetBack(worker[s].lapsed)
    /\ \/ MustFail(chunk') /\ Goto(s, "fail")
       \/ MayFinalize(chunk') /\ Goto(s, "to_finalize")
       \/ MustRequeue(chunk') /\ Goto(s, "requeue")
    /\ UNCHANGED <<batch, progress, spaces, queue, notified, cancelling, left>>

(* The verdict is written over whatever the batch is by now: its session   *)
(* loaded it unfinished.                                                   *)
FailCounted(s) ==
    /\ At(s, "fail")
    /\ batch' = [batch EXCEPT !.status = "failed"]
    /\ Goto(s, "notify")
    /\ UNCHANGED <<progress, chunk, spaces, queue, notified, cancelling, left>>

(* The pending chunks are read, and those whose lease has run out since.   *)
Requeue(s) ==
    /\ At(s, "requeue")
    /\ StartFanout(s, WithStatus(chunk, {"pending"}) \cup LapsedChunks,
                   LapsedChunks)
    /\ UNCHANGED <<tables, spaces, queue, notified, cancelling, left>>

(* Only after its job is enqueued is a lapsed chunk set back to pending.   *)
RequeueCommit(s) ==
    /\ At(s, "requeue_commit")
    /\ NoneLocked(worker[s].lapsed)
    /\ chunk' = SetBack(worker[s].lapsed)
    /\ Goto(s, "rearm")
    /\ UNCHANGED <<batch, progress, spaces, queue, notified, cancelling, left>>

----------------------------------------------------------------------------
(* finalize_batch, after its reads                                         *)

Concatenate(s) ==
    /\ At(s, "concat")
    /\ results' = [c \in Chunks |-> IF c \in worker[s].out THEN object[c]
                                    ELSE NoObject]
    /\ Goto(s, "publish")
    /\ UNCHANGED <<tables, object, queue, notified, cancelling, left>>

Publish(s) ==
    /\ At(s, "publish")
    /\ batch' = [status |-> "completed", results_key |-> TRUE]
    /\ Goto(s, "notify")
    /\ UNCHANGED <<progress, chunk, spaces, queue, notified, cancelling, left>>

----------------------------------------------------------------------------
(* Time, the cron job and the API                                          *)

(* The slots that hold the lease of c and have not let go of it.           *)
Holds(s, c) == worker[s].job = c /\ worker[s].pc \in Tried \cup {"except"}

ExpireLease(c) ==
    /\ chunk[c].lease = "live"
    /\ \A s \in Slots : ~Holds(s, c)
    /\ chunk' = [chunk EXCEPT ![c].lease = "expired"]
    /\ UNCHANGED <<batch, progress, spaces, queue, notified, worker, cancelling, left>>

(* A lease of 300 s is shorter than the job timeout of 600 s.              *)
OutliveLease(c) ==
    /\ chunk[c].lease = "live"
    /\ \E s \in Slots : Holds(s, c)
    /\ Spend("slow")
    /\ chunk' = [chunk EXCEPT ![c].lease = "expired"]
    /\ UNCHANGED <<batch, progress, spaces, queue, notified, worker, cancelling>>

(* reclaim_leases_cron: sets the rows back and enqueues nothing.           *)
CronReclaim ==
    /\ LapsedChunks # {}
    /\ NoneLocked(LapsedChunks)
    /\ chunk' = Reclaimed(chunk)
    /\ UNCHANGED <<batch, progress, spaces, queue, notified, worker, cancelling, left>>

(* A POST with the same idempotency key returns the batch and enqueues     *)
(* orchestrate_batch once more.                                            *)
Replay ==
    /\ Spend("replay")
    /\ Enqueue("orchestrate_batch")
    /\ UNCHANGED <<tables, spaces, notified, worker, cancelling>>

CancelRead ==
    /\ batch.status \notin Terminal
    /\ ~cancelling
    /\ Spend("cancel")
    /\ cancelling' = TRUE
    /\ UNCHANGED <<tables, spaces, queue, notified, worker>>

CancelCommit ==
    /\ cancelling
    /\ batch' = [batch EXCEPT !.status = "cancelled"]
    /\ cancelling' = FALSE
    /\ UNCHANGED <<progress, chunk, spaces, queue, notified, worker, left>>

----------------------------------------------------------------------------
(* Faults of the worker processes and of Redis                             *)

(* The process dies: its transaction rolls back and arq delivers the job   *)
(* again, unless Redis has lost it.                                        *)
Crash(s) ==
    /\ ~At(s, "idle")
    /\ Spend("crash")
    /\ \/ Enqueue(worker[s].job)
       \/ left["redis"] < Budget["redis"] /\ UNCHANGED queue
    /\ Return(s)
    /\ UNCHANGED <<tables, spaces, notified, cancelling>>

(* The job times out (job_timeout), or an exception leaves a handler other *)
(* than process_chunk: arq records the failure and does not run it again.  *)
Drop(s) ==
    /\ ~At(s, "idle")
    /\ Spend("drop")
    /\ Return(s)
    /\ UNCHANGED <<tables, spaces, queue, notified, cancelling>>

RestartRedis ==
    /\ Spend("redis")
    /\ queue' = [j \in Job |-> 0]
    /\ UNCHANGED <<tables, spaces, notified, worker, cancelling>>

----------------------------------------------------------------------------
ProcessChunk(s, c) ==
    \/ LeaseChunk(s, c) \/ CheckCancelled(s, c) \/ ReleaseCancelled(s, c)
    \/ Infer(s, c) \/ Flush(s, c) \/ Commit(s, c)
    \/ RetryChunk(s, c) \/ FailBatch(s, c) \/ AbandonChunk(s, c)

(* What a slot does with the job it has.                                   *)
Step(s) ==
    \/ Orchestrate(s)
    \/ Fanout(s)
    \/ \E c \in Chunks : ProcessChunk(s, c)
    \/ Reclaim(s) \/ Count(s) \/ FailCounted(s)
    \/ Requeue(s) \/ RequeueCommit(s)
    \/ Concatenate(s) \/ Publish(s)
    \/ HandOff(s) \/ Notify(s)

Take(s, j) == Begin(s, j) \/ Ignore(s, j)

Fault ==
    \/ \E s \in Slots : Crash(s) \/ Drop(s) \/ \E c \in Chunks : Raise(s, c)
    \/ RestartRedis
    \/ \E c \in Chunks : OutliveLease(c)

Next ==
    \/ \E s \in Slots : Step(s) \/ \E j \in Job : Take(s, j)
    \/ CronReclaim
    \/ \E c \in Chunks : ExpireLease(c)
    \/ Replay \/ CancelRead \/ CancelCommit
    \/ Fault

Spec == Init /\ [][Next]_vars

(* A handler that is running goes on; the queue is ordered by the time a   *)
(* job was due, so no job waits for ever while slots become free; a lease  *)
(* nobody holds runs out.                                                  *)
Fairness ==
    /\ \A s \in Slots : WF_vars(Step(s))
    /\ \A j \in Job : SF_vars(\E s \in Slots : Take(s, j))
    /\ \A c \in Chunks : WF_vars(ExpireLease(c))

FairSpec == Spec /\ Fairness

----------------------------------------------------------------------------
(* Properties                                                              *)

(* A chunk marked succeeded has its checkpoint in Spaces and its key in    *)
(* the row: the object is written before the row, and no path takes it     *)
(* away again, whatever crashes, races or redeliveries come between.       *)
CheckpointBeforeSuccess ==
    \A c \in Chunks : chunk[c].status = "succeeded" =>
        chunk[c].result_key /\ object[c] # NoObject

(* Whoever sees results_key, a completed batch or the webhook              *)
(* batch.completed can read results in which no chunk is missing, even     *)
(* when finalize_batch ran twice or the status was overwritten since.      *)
ResultsWhole ==
    /\ batch.status = "completed" => batch.results_key
    /\ "batch.completed" \in notified => batch.results_key
    /\ batch.results_key => \A c \in Chunks : results[c] # NoObject

(* The chunks whose results are recorded.                                  *)
Done == {c \in Chunks : chunk[c].result_key}

(* The progress the API reports is earned: it counts no more lines than    *)
(* those of chunks whose results are recorded, whichever leases race,      *)
(* however late a sum is written and however often a success path runs     *)
(* again.                                                                  *)
EarnedBy(p, S) ==
    /\ p.failed_items <= p.completed_items
    /\ p.completed_items <= ChunkItems * Cardinality(S)

ProgressEarned == EarnedBy(progress, Done)

(* As long as no job was lost, an unfinished batch has a control job that  *)
(* will look at it again: queued, or running and not past its last send.   *)
(* Crashes, cancellations, replays and exhausted leases do not break the   *)
(* chain of checks.                                                        *)
Armed == \/ \E j \in ControlJob : queue[j] > 0
         \/ \E s \in Slots : worker[s].job \in ControlJob /\ ~At(s, "notify")

NoJobLost == left["drop"] = Budget["drop"] /\ left["redis"] = Budget["redis"]

RecoveryArmed == NoJobLost /\ batch.status \notin Terminal => Armed

(* As long as no creation is replayed, an unfinished batch becomes failed  *)
(* only while a chunk of it is failed: no check gives up a batch whose     *)
(* chunks can still be finished, and no verdict on counts that another     *)
(* worker has overtaken ends a batch that is still running.  (Of a batch   *)
(* that has ended meanwhile this does not hold: its status is written      *)
(* over.  A replay may set a failed batch running again behind a slot that *)
(* has read it failed.)                                                    *)
NoReplay == left["replay"] = Budget["replay"]

FailsWithAChunk ==
    [][NoReplay /\ batch.status \notin Terminal /\ batch'.status = "failed" =>
         WithStatus(chunk', {"failed"}) # {}]_vars

(* The pipeline does what BatchPromise says: nothing before its start,     *)
(* done and published for good, and no event of what has not happened.     *)
(* The event that a handler is about to send is due.                       *)
Promise == INSTANCE BatchPromise WITH
    status    <- batch.status,
    done      <- Done,
    published <- batch.results_key,
    due       <- {EventOf(worker[s].job) : s \in {t \in Slots : At(t, "notify")}},
    told      <- notified

KeepsBatchPromise == Promise!Spec

(* Every batch comes to an end unless a loss breaks its chain of checks    *)
(* for good, whatever else is lost: jobs of chunks with Redis or with a    *)
(* time limit, leases with their holders, attempts with exceptions.        *)
Terminates ==
    <>[](batch.status \in Terminal \/ Armed \/ NoJobLost) =>
        (batch.status \notin Terminal ~> batch.status \in Terminal)

----------------------------------------------------------------------------
(* What CheckpointBeforeSuccess and ResultsWhole rest on: which job each   *)
(* point of a handler belongs to, and what has already been written when a *)
(* handler stands there.                                                   *)
ProcessPC == Tried \cup {"lease", "except", "retry"}

JobsMatch ==
    \A s \in Slots :
        /\ worker[s].pc \in ProcessPC => worker[s].job \in Chunks
        /\ worker[s].pc \in {"reclaim", "count", "fail"} =>
               worker[s].job = "check_batch_completion"
        /\ At(s, "orchestrate") => worker[s].job = "orchestrate_batch"
        /\ At(s, "idle") => worker[s].job = NoJob
        /\ worker[s].pc \in {"concat", "publish"} => worker[s].job = "finalize_batch"

KeysHaveObjects == \A c \in Chunks : chunk[c].result_key => object[c] # NoObject

KeysMatchStatus ==
    \A c \in Chunks : /\ chunk[c].status = "succeeded" => chunk[c].result_key
                      /\ chunk[c].status = "absent" => ~chunk[c].result_key

Staged ==
    \A s \in Slots :
        /\ worker[s].pc \in {"flush", "commit"} => object[worker[s].job] # NoObject
        /\ At(s, "concat") => /\ worker[s].out = Chunks
                              /\ \A c \in Chunks : chunk[c].result_key
        /\ At(s, "publish") => \A c \in Chunks : /\ results[c] # NoObject
                                                /\ chunk[c].result_key
        /\ At(s, "notify") /\ worker[s].job = "finalize_batch" => batch.results_key

(* Before orchestrate_batch has set the batch running, nothing else has    *)
(* happened to it.                                                         *)
PendingUntouched ==
    batch.status = "pending" =>
        /\ chunk = [c \in Chunks |-> NoRow] /\ notified = {}
        /\ \A j \in Job : j # "orchestrate_batch" => queue[j] = 0
        /\ \A s \in Slots : \/ At(s, "idle")
                            \/ At(s, "orchestrate") /\ worker[s].saw = "pending"

(* No handler is past a write that it, or the reader of what it publishes, *)
(* relies on: the inductive invariant of jobs.py:280-299 and 426-469.      *)
CheckpointInv ==
    JobsMatch /\ KeysHaveObjects /\ KeysMatchStatus /\ Staged /\ ResultsWhole
============================================================================
