# Verification of batch-inference

TLA+ specifications of the batch pipeline in this repository, checked with TLC on
small instances and proved with TLAPS for every instance. Line numbers refer to
the Python sources under `app/`.

## 1. Inventory

| Component | State it keeps | Operations | Hard behaviour |
|---|---|---|---|
| Pipeline jobs, `app/workers/jobs.py`, `main.py` | rows of `batches` and `batch_chunks`; result objects | `orchestrate_batch`, `process_chunk`, `check_batch_completion`, `finalize_batch`, `deliver_batch_webhook`, `reclaim_leases_cron` | several workers, soft leases, at-least-once delivery, a transaction per step, state read before an await and written after it |
| Batch service, `app/services/batches.py` | none of its own | `create_batch`, `cancel_batch`, `plan_chunks`, `create_chunk_rows` | idempotency lookup then insert; cancel races; several sources in one request |
| HTTP API, `app/api/` | none | create, upload, read, results, cancel | commit, then enqueue; the upload form has no validation |
| Queue (arq on Redis, external) | jobs with a due time | `enqueue_job`, deferred jobs, cron | redelivery after a crash, loss after a timeout, an exception or a Redis restart |
| Database (Postgres, external) | the rows | transactions at READ COMMITTED | statement snapshots, row locks, changed-column updates |
| Object storage, `app/core/spaces.py` | prompts, a result object per chunk, the concatenated results, the manifest | whole-object put, copy, count, line-range read, concatenation | not transactional with the rows; lines cut across blocks of bytes |
| Rate limiter, `app/rate_limit/` | token buckets and pauses in Redis, semaphores per process | `acquire`, `pause`, `gate.get` | clocks of several workers, fractional rates |
| Providers and backoff, `app/providers/`, `core/backoff.py` | the registry of each worker | `infer`, `classify_status`, `build_providers` | retries within a chunk; a registry that lacks what the API chose |
| Webhooks, `app/services/webhooks.py` | `webhook_status`, `webhook_attempts` | signed delivery, retry, dead letter | concurrent deliveries |
| Model routing, `app/services/routing.py` | the catalogue | `resolve_model` | ranking, ties, fallbacks and defaults |
| Application shell, `app/main.py`, `core/config.py` | settings of each process | start-up, settings | API and workers configured apart |

How they interact: the API commits a batch row and enqueues `orchestrate_batch`.
That job inserts the chunk rows, enqueues one `process_chunk` per chunk and the
first `check_batch_completion`. A chunk job leases its row, runs the items,
writes the chunk's object, then its row and the batch's counters, and nudges the
check. The check reclaims leases, requeues what is pending and enqueues itself
again, until it fails the batch or enqueues `finalize_batch`, which concatenates
the objects, publishes `results_key` and enqueues the webhook. The rows, the
queue and the objects are the only things the handlers share.

What makes each part correct:

- *Pipeline*: a succeeded chunk has its checkpoint; a completed batch has whole
  results; progress is earned by recorded results and counts every succeeded chunk; an
  unfinished batch is always watched by a job and comes to an end, and fails only
  with a chunk; terminal statuses are final.
- *Service and API*: one batch per idempotency key; the chunk plan partitions the
  lines; what was validated runs; the lines are those of one source.
- *Routing*: the model fits the tier or was asked for by name; the mock answers
  only what was meant for it.
- *Object storage*: counting and range reading agree on what a line is.
- *Rate limiter*: no more than capacity + rate · time tokens are issued, and a
  waiting caller gets one.
- *Items*: at most three attempts, never more than the concurrency limit at once,
  one outcome per line; few calls after the provider asked for a pause.
- *Webhooks*: an event is given up only after the full number of requests, a status
  *delivered* or *dead* says what happened to an event, retries stop at the limit.

The hazards are listed line by line in `PROJECT.json`, each with the properties
that would catch it.

## 2. Modules

| Module | Contents |
|---|---|
| `BatchTables` | the rows and the pure operators on them: what each statement of a handler does to a chunk row, and the sums of `_recompute_batch_counters` |
| `BatchPipeline` | the handlers, the queue, the objects, time, the API's cancel and replay, the faults; fairness; the properties that hold; the inductive invariant |
| `BatchPromise` | the promise of one batch: nothing before its start, done and published for good, no event of what has not happened; `BatchPipeline` refines it |
| `DocumentedClaims` | statements of the documents about the pipeline that the code does not keep |
| `CreateOnce` | the promise of POST /v1/batches: one batch per idempotency key |
| `BatchCreation` | how the endpoints and `create_batch` keep it, statement by statement; refines `CreateOnce` |
| `LineStore` | `stream_lines` over any cut of the object into blocks, with `read_line_range` as its consumer |
| `ChunkPlan` | from the bytes of the prompts to the result lines: upload or copy, count, plan, range read, index, concatenation |
| `ModelRouting` | `resolve_model` and its catalogue, as operators |
| `Admission` | from a request to a batch a worker can serve: validation, sources, routing, defaults, registry |
| `ItemRunner` | `run_one` and the gather around it, the concurrency gate, the provider's answers |
| `TokenBucket` | the Lua scripts, `acquire` and `pause`, and the clocks of the callers |
| `WebhookDelivery` | `deliver_batch_webhook` and the row it keeps |
| `MC...` | for each of them the values of the TLC instance |
| `...Proofs` | for each of them the theorems |

The modules meet where the handlers hand over. `BatchCreation` ends with a row
and a queued `orchestrate_batch`, which is `BatchPipeline`'s `Init`; its `Send`
of a request that failed is the pipeline's `Replay`. `Admission` is what happens
to the request's values meanwhile, up to the first places where a worker uses
them. `LineStore` is the reader in `ChunkPlan`, which is what
`Orchestrate` inserts and what an object of the pipeline holds. `ItemRunner` is
the pipeline's `Infer` (and the `Raise` out of it), seen item by item; its
`Acquire` and `Pause` are those of `TokenBucket`. What the pipeline adds to
`notified` is `Notify` of `WebhookDelivery`.

### State of the pipeline

| Variable | In the program |
|---|---|
| `batch` | `batches.status`, and whether `results_key` is set |
| `progress` | `completed_items`, `failed_items`, `retry_count` |
| `chunk` | the rows of `batch_chunks`; `leased_until` is *none*, *live* (in the future) or *expired*; `absent` before the row is inserted; `ok_count` is what `fail_count` leaves of the chunk |
| `object`, `results` | the chunk objects and the concatenated object, as the number of failed lines in each chunk |
| `queue` | arq's queue, copies per job and no order |
| `notified` | events handed to `deliver_batch_webhook` |
| `worker` | for each slot (a job running in some worker process) its position `pc` and the values its handler has loaded |
| `cancelling` | the cancel endpoint stands between its read and its commit |
| `left` | the faults still to come |

A chunk constant `c` also names the job `process_chunk(batch, c)`.

### Where handlers are cut

A handler is one action between two points at which another process can act on
what it uses: a commit, a put, an enqueue. A handler that returns on its first
reads is the single action `Ignore`.

| Handler | Actions in order |
|---|---|
| `orchestrate_batch` | `Begin` (reads), `Orchestrate` (rows, status, reclaim, commit), `Fanout`*, `HandOff` |
| `process_chunk` | `Begin` (reads batch and row), `LeaseChunk`, `CheckCancelled`, then `ReleaseCancelled`, or `Infer` (items run, object put), `Flush` (row locked, sums read), `Commit`, `HandOff` |
| its except path | `Raise` (at any point of the `try` block, with the reads of 315-316), then `RetryChunk` and `HandOff`, or `FailBatch` and `Notify`, or `AbandonChunk` |
| `check_batch_completion` | `Begin`, `Reclaim` (rows locked), `Count` (verdict; commit unless it is failure), then `FailCounted` and `Notify`, or `HandOff` to finalize, or `Requeue`, `Fanout`*, `RequeueCommit`, `HandOff` |
| `finalize_batch` | `Begin` (reads), `Concatenate`, `Publish`, `Notify`; or `HandOff` when a chunk is not succeeded |
| `reclaim_leases_cron` | `CronReclaim` |
| cancel endpoint | `CancelRead`, `CancelCommit` |
| repeated POST with the idempotency key | `Replay` |

The database is modelled by what its isolation level and the ORM do:

- `Emit`: SQLAlchemy updates only the columns that differ from what the session
  loaded, whatever has been committed since. So leasing a row that was loaded as
  *leased* and has become *pending* leaves it *pending* with a live lease.
- `attempts += 1` is computed from the loaded value (a lost update is possible);
  `retry_count + 1` is computed by the database.
- The sums of the recompute come from the snapshot its UPDATE starts with
  (`Flush`), the write waits for the row of the batch and happens with the commit
  (`Commit`). At READ COMMITTED the subqueries are not evaluated again after that
  wait, so commits may come between the two.
- A chunk row that was flushed, or reclaimed by a check, is locked until the commit
  (`Locked`); other writers of the row wait. A crash or an exception rolls back and
  unlocks.
- Each statement sees what is committed when it starts: between the counts of the
  check (`Count`) and the commit of its verdict (`FailCounted`) other handlers go on.

Faults are budgeted by `Budget`: a worker dies and its job is delivered again
(`Crash`); a job is dropped, by the job timeout or by an exception in a handler
without an except path (`Drop`); an exception in `process_chunk` (`Raise`); Redis
restarts empty (`RestartRedis`); a chunk outlives its lease (`OutliveLease`); a
creation is replayed; a cancellation. A run whose budget has no `OutliveLease`
lets a lease run out only once no slot holds it.

### The other modules

- `BatchCreation`. `request[r].pc` is the next thing the request does: look its
  key up, upload or copy, count, flush the insert, commit, enqueue, answer. The
  unique index makes a flush wait for an uncommitted insert of the key
  (`Inserting`) and fail if there is a row. An empty key is not looked up
  (`LookedUp`) but is under the index like any other. A crash (or an exception of Spaces,
  Postgres or Redis) rolls back and the client sends the request again.
- `LineStore`. A line is the position of its first byte, a byte a newline, a
  carriage return or text. `reader.start .. reader.fetched` is the buffer; a block
  has any length up to `BlockSize`.
- `ChunkPlan`. A line has an index (its own, or its number if it was uploaded
  without one) or none (in a copied object). A result remembers its line, which
  the program does not store. Chunk jobs read one after another: the object does
  not change, so what one reads does not depend on another. The chunk objects are joined
  one `ReadPart` at a time (`part` is the next, `parts` what has been read) while chunks
  may be processed again; a joining job that is lost starts over (`Concatenate`).
- `ModelRouting`. A text is a name, absent, empty or blank. `ByName` and `ByEntry`
  are the two orders in which the code settles ties.
- `Admission`. A request is of the JSON or the upload form; `lines` gives the
  prompt lines of each source it names. The API and the workers have settings of
  their own, and `Redeploy` starts a worker with others while batches wait. Default
  numbers are any integers, since config.py gives them no bounds; `Worker` is what
  `build_providers` reads, the mock flag and the providers with a key or a base URL.
  One look at the registry (`Serve`) stands for those of all the attempts of a chunk.
- `ItemRunner`. A run is an execution of `process_chunk` in one worker process,
  of any chunk of the batch, retries included; all share the batch's semaphore
  (`holders`). `item[t].pc` is the next thing the item does; from `ready` to
  `backoff` it holds a permit. An exception ends the gather (`GatherRaises`) and
  leaves its other items running, a job timeout cancels them (`TimeOut`). `late`
  is kept for `PauseHolds`: the call that brought the pause on and those begun
  since.
- `TokenBucket`. Time is counted in ticks and the level in what a tick refills,
  so that a token costs `Cost` and fractional levels are whole numbers. Each caller
  brings the rate of its own batch, and a capacity of a second of it. A caller
  reads its clock (`Acquire`, `Retry`, `ReadPause`) and runs its script up to
  `MaxDelay` ticks later. `rewound` and `contended` are kept for the properties.
- `WebhookDelivery`. `worker[s].loaded` is the row as the job read it before the
  request. `posts` and `confirmed` are what the receiver and the job saw.

## 3. Runs

The bounds are in the `.cfg` files.

| Run | Instance and faults | Shows |
|---|---|---|
| `safety` | two chunks, two slots, two attempts; any two of a crash, a dropped job, two exceptions, a Redis restart, an outlived lease, a cancellation, a replay | `TypeOK`, `CheckpointBeforeSuccess`, `ProgressEarned`, `ResultsWhole`, `RecoveryArmed`, `CheckpointInv`, `FailsWithAChunk`, `KeepsBatchPromise` |
| `liveness` | one chunk; any two of a crash, a dropped job, two exceptions, a Redis restart, a replay, an outlived lease | `Terminates` |
| `creation` | two requests with one key, one with an empty key; a named object; 1 crash, 1 overwrite | one batch per key (`KeepsPromise`), `JobsHaveRows`, `TotalsMatchPrompts`, `AcceptedIsStarted`, `KeyedBatchStarts` |
| `webhook` | two slots, two events, limit 3; 3 hand-overs, 2 crashes, 1 dropped job, 1 Redis restart | `NoEventAbandoned`, `StatusIsHonest`, `Settles`, `RetriesStop` |
| `bucket` | two callers, one of twice the other's rate, with clocks one tick apart, scripts up to a tick late, buckets of three and of one and a half tokens; 1 pause, 1 reset | `IssueBound`, `TimeoutIsContention` |
| `items` | two runs of two items, two permits, two calls; a cancellation, an exception or a timeout | `ConcurrencyCapped`, `OutcomesEarned`, `PauseHolds`, `RunsEnd`, `PermitsFree` |
| `chunks` | objects of up to six bytes, uploaded or copied, with any indices, in blocks of one or two bytes; sizes -1 to 3; chunks run in any order and again, while their objects are joined, and the joining starts over | `RangeExact`, `TotalIsCount`, `PlanCovers`, `OneResultPerLine`, `NumberedInOrder` |
| `admission` | part of the catalogue; requests that vary in what is routed, in sources and in numbers; configurations of three default providers, three models and two tiers, and of default numbers of either sign and 0; workers with and without keys and mock | `RoutedWithinTier`, `CheckedRowsRun`, `ServedAsConfigured`, `SourceHonoured` |

Why these are enough. *Pipeline*: two chunks and two slots are the smallest
instance in which two chunks race for the counters, two workers for one chunk,
and a control job with either; `MaxCopies = 1` still lets a job run in two slots,
because a copy that is taken makes room for the next. `ChunkItems = 1` with the
single outcome of one failed line keeps `failed_items` and `completed_items` both
moving. `MaxFaults` (the constraint `FewFaults`) lets every pair of faults happen
at any points of any handlers. *Creation*: `MaxIds = 3` lets two requests
upload and one of them start over, or one of each key upload. *Webhook*: the limit of 3 is passed by
overlapping deliveries of two events; `PostBound` is one above it. *Bucket*: several
script calls of each caller within `MaxTime`, refusals, sleeps and timeouts included;
with one and a half tokens the cap, the draw and the refusal all leave
fractions, and the slower caller's refusal cuts the faster one's bucket down.
*Items*: a third item always waits at the gate while an abandoned run and its
retry compete, and two calls are the first and the last one; one fault, since two
abandoned runs need a third one beside them to differ. *Chunks*: six bytes make
three lines, or two with a blank one between them; lines that span blocks, end
with them, or end the object without a newline; sizes that divide the number of
lines, that do not, and one that no plan exists for. *Admission*: the catalogue
has a provider with a tie, one with nothing in the economy tier, one with a single
model, and the request may name one that is not listed; numbers lie below their ranges,
in them and, for sizes and inline prompts, above them; so do the defaults, below 1 and above.

The next four find what the documents promise, or the API accepts, and the code
does not do; each trace is summarised under `findings`.

| Run | Claim | What happens |
|---|---|---|
| `terminal_status` | terminal statuses are final (design.md:296) | `orchestrate_batch` writes `running` over a cancellation |
| `completed_counts` | the recompute counts all succeeded chunks (design.md:302, 439) | two chunks commit together, the later write has the older snapshot; no fault needed |
| `redis_restart` | the poll recovers work after a Redis restart (design.md:324) | the poll is itself a lost job; the cron job enqueues nothing |
| `bucket_slow` | `rate_limit_rps` may be any number above 0 (schemas.py:19) | capacity = rate < 1 never holds the one token an item asks for: every item times out |

Deadlock checking is off: a finished batch leaves nothing to do, bounded clocks,
ids and faults run out, a request is served or refused once, and a batch with a
negative `chunk_size` has no plan.

**Fairness.** Pipeline: `WF(Step(s))`, a running handler goes on (it waits for
nothing but row locks, which their holders release); `SF` of taking each job, for
a slot may be busy whenever another job is due, but arq orders the queue by due
time and a job keeps its place, so it is not passed over for ever;
`WF(ExpireLease(c))`, clocks advance. Webhook: the same two; the request has a
timeout of 30 s. Creation: a request that has arrived is handled, a client sends
a failed one again (which is what the key of design.md:78 is for), and a worker takes
the job. Items: the event loop runs every item and gather that can go on, the
provider answers or times out after 120 s, pauses end; a semaphore serves its
waiters in order, and since each item passes it once, weak fairness of each item
is enough. Nothing is assumed of the cron job, the cancel endpoint or the faults.
`Terminates` asks for the batch to end only if, from some point on, it has ended,
a control job is there (`Armed`), or no job was lost: a loss that takes the last
control job is what `redis_restart` shows. It does cover losses of chunk jobs,
leases that lapse with their holder, and restarts that a replay makes up for.
Symmetry is used in runs without liveness only.

## 4. Theorems

All are proved from the named assumptions of the modules, for any number of
chunks, slots, requests, callers, items and faults.

`BatchPipelineProofs`

- `TypeCorrect`: `[]TypeOK`. The counters need a lemma, `RecomputedType`: each sum
  is stated as the cardinality of what it counts, which is finite.
- `CheckpointInvariant`: `[]CheckpointInv`, and from it `CheckpointSafe` and
  `ResultsSafe`. `CheckpointBeforeSuccess` is not inductive alone: `Commit` needs
  to know that a handler past its put has an object (`Staged`), and `Publish`
  that a handler past its concatenation has whole results, which in turn needs
  that keys are never taken back and always have objects (`KeysHaveObjects`),
  that `finalize_batch` collected every key (`KeysMatchStatus`), and which job
  stands at which point (`JobsMatch`). Most steps write none of this and leave
  every slot *plain*; one lemma, `PlainPreserves`, does for all of them, and the
  six that do write have a proof each.
- `ProgressSafe`: `[]ProgressEarned`, by the invariant that a tally not committed
  yet is earned too, once its own chunk is counted in (`ProgressInv`). It rests on
  `CheckpointInv` (what `Flush` counts as succeeded has a key), on `KeysStay`, and on
  `RecomputedEarned`, which turns the sums into the cardinality of a product. It does
  not say that the tally is current, which run `completed_counts` refutes.
- `CountedUnlessRaced`: `Spec /\ []OneSuccess => []CountsCurrent`. As long as no two
  success paths stand between their sums and their commits at once, the counters of
  a batch whose chunks are all succeeded are those of the whole batch, in spite of
  lost leases, demoted chunks and repeated jobs. So the trace of `completed_counts`
  needs that overlap, and a lock on the row of the batch before the sums are read would
  exclude it. (A chunk demoted after `finalize_batch` found all of them succeeded may
  still lower the counters of a completed batch.) The invariant `CountInv` says of a tally about to
  be committed that it counts everything if all chunks but its own are recorded;
  only another commit in between could make that true too late.
- `RecoverySafe`: `[]RecoveryArmed`, with the invariant that budgets never grow
  (so that a lost job stays on record) and the checkpoint invariant's
  `JobsMatch`. A control job that leaves the queue is in a slot; one that leaves
  its slot has enqueued a successor or ended the batch; the only step that brings
  a batch back to life, `Orchestrate`, is itself a control job with its send to
  come.
- `PromiseKept`: `BatchPipeline` implements `BatchPromise`. The abstract variables
  are the status, the chunks that have a key, whether `results_key` is set, the
  events of handlers that stand before their enqueue, and the events handed over.
  Most steps stutter; `Commit` is `Finish` (the key is there because nothing takes
  one back, not even the except path of a worker that lost its lease),
  `Publish` needs `CheckpointInv` to know that every chunk is done, and
  `PendingUntouched` says that no handler but the orchestration works on a batch
  that is still pending. A handler that dies before its enqueue is `Lose`. The
  status itself may be overwritten by anyone, and the abstract specification says
  so: `terminal_status` shows that more is not kept.
- `FailsTogether`: an unfinished batch becomes failed only while a chunk of it is
  failed (`FailsWithAChunk`), if it is not replayed. The invariant `FailInv` has three
  parts. One orchestration at a time
  (`OneOrchestration`), so that a slot that read the batch pending is the first to
  touch it (`FirstOrchestration`), so that a batch with a failed chunk neither
  runs again nor has been seen running by a slot about to fail it
  (`FailedTogether`). The last also says of a check that has counted a failed chunk
  that the batch has ended by then: only the except path records a failed chunk, and
  it ends the batch in the same commit. So the check's verdict never ends a running
  batch, and when `FailCounted` is taken there is nothing left to show of it. Over a
  batch that has ended, the verdict may come when no chunk is failed any more: with
  three slots, a chunk held by two workers and a cancellation, one worker fails the
  chunk, the cancellation commits over *failed*, the check counts, the other worker
  commits the chunk as succeeded, and the check writes *failed*. TLC finds this as a
  trace of 26 states, without a replay, if the condition that the batch is unfinished
  is left out and the instance has three slots; the theorem holds for any number of slots.
  With a replay a stale orchestration can set a failed batch
  running again; its failed chunk is leased once more, and the batch fails a
  second time while that chunk is pending. TLC finds this in 22 steps if the
  condition `NoReplay` is left out.

`BatchCreationProofs`: `CreationInvariant` is the conjunction of what is needed of
ids (`FreshIds`), of the key (`KeyUnique`: at most one row or one insert about to
commit, which is what the wait in `Inserting` buys), of counts (`TotalsCounted`)
and of jobs (`JobsHaveRows`, `Enqueued`); from it `TotalsCorrect`, `JobsCorrect`,
`AcceptedCorrect`, and `CreationRefines`: `Commit` is `Create`, `Respond` is
`Answer`, `Orchestrate` is `Start` or a stutter, every other step a stutter.

`ChunkPlanProofs`: `PlanPartitions`, the partition of the lines for any number of
lines and any chunk size. `CeilReaches` says that the rounded-up number of chunks
reaches the last line and no chunk more would be needed, `Later` that a later
chunk starts at least one chunk size further on; with them a line's chunk is its
position divided by the size, and two chunks that share a line are one.
`TotalIsExact` and `ReadsItsRange` rest on `LineStoreProofs`: a reader always stands
at the start of a piece, having counted the lines before it and taken those in
its range (`AtPieceStart`); `OnePiece` says that a piece between two newlines has
at most one line, which starts where the piece does, `StreamStep` that no cut of
the blocks disturbs this. Counting is then reading with a range nobody leaves, and
`NormalisedLines` says that an upload has a line for each piece it was split in.

From there to the results: `ChunkTypeCorrect`, `EachLineOnce` and `ResultsInOrder`
follow from `ResultsInv`. A list *holds a range* (`HoldsRange`) if it has exactly the
results of the lines whose numbers lie in it, one each, and in their order if the
lines are numbered; the chunk that is being read is a planned one (`ReadingInv`), every
object holds its chunk's range (`ObjectsInv`), the parts read so far hold the range up to
the next chunk (`PartsInv`), and the joined results the range of all lines
(`JoinedInv`). That an object may be written again between two reads does no harm, because
whatever attempt wrote it holds the same range. The lemmas: `SortedLists`, that a
finite set of results has an ordered list (each is placed by the number of those before
it), which holds each once; `IncreasingFills`, that as many growing numbers as an interval
has are its numbers in order; `RangesMeet`, that a list of one range followed by
one of the next range is one of both; `PlanCounts`, that the last chunk ends with the last
line.

`AdmissionProofs`: `AdmissionInv` (the row is what `create_batch` made of an accepted
request, the registry what `build_providers` made of the worker's settings) gives
`ChecksSuffice`, `AnsweredByTheRightOne`, `SourceIsHonoured` and `AdmissionTypes`.
`ChecksSuffice` assumes nothing of the configured defaults but that they are integers:
the numbers that JSON requests send are kept as they are because their ranges exclude
0 and below (`InRangeKept`), and a batch can be lost only for a default. `TierKept` also
needs that a least rank exists among any models
(`LeastExists`, by well-founded induction on the numbers) and that ties do not
matter for it.

`ItemRunnerProofs`: `ItemInvariant`; `ConcurrencySafe` follows because the items in
flight are permit holders (`PermitsKept`), `OutcomesSafe` because an item is only
done after a last answer and calls once per round (`Consistent`). `PauseSafe` from
`LateInvariant`: an item that calls after a 429 either asked for the pause or drew
its token before it, so it held a permit then, and since no item gets a token
during a pause, those items and the ones now in flight are together within
max_concurrency; each makes at most `MaxCalls` calls.

`TokenBucketProofs`: `IssueBounded` from `LedgerHolds`, the ledger that balances
tokens drawn and tokens left against the time the bucket has seen. The ledger
needs that no reading is ahead of the fastest clock; a script that sets the time
back by d adds d to `rewound`, and exactly that may be refilled twice. The bound
is thus what the code keeps of design.md:423 ("Sustained RPS is the bucket"):
without `rewound` it does not hold. The rate in it is the fastest of the batches
that share the bucket.

`ServedUnlessContended`: `[]TimeoutIsContention` for every `m` with `Patient(m)`: no rate
is below `m`, a bucket of any of the rates holds a token, and a token at rate `m` comes
within `MaxWait` less what clocks and delays may take. With the code's 120 s this holds
for all rates from one per second on, and `bucket` has it for `m = 1`; below, it fails as
`bucket_slow` shows. The invariant `WaitInv` says of a waiting caller that nobody got in
the way of that no pause outlasts its first reading (`Clear`), and that since then the
bucket has gained at least `m` for every tick of *its own* time, whichever caller's rate
refilled it; a script that sets that time back keeps this true (`RefusalRefills`). When the
wait that a refusal computes would pass the deadline, that gain is already a token
(`NotTimedOut`).

`WebhookProofs`: `WebhookInvariant`, that no counter (stored or loaded) is ahead of
the requests made; then `StatusHonest`, and `EventsKept`, since a job that gives
up has counted to the limit and no counter runs ahead.

Model-checked only: liveness (`Terminates`, `KeyedBatchStarts`, `Settles`,
`RetriesStop`, `RunsEnd`, `PermitsFree`), which is outside the prover's reach. All
invariants and action properties of the passing runs, and both refinements, are
proved. `Sorted` and the concatenation are not recursive here (a list is chosen by what
it must satisfy, the joining loop takes steps), which is what brings them within reach.

Proved and not run: the type invariants of `BatchCreation`, `WebhookDelivery`,
`ItemRunner` and `Admission`, and `LateInv`, from which `PauseHolds` follows.

## 5. Not modelled

- In `BatchPipeline`, the items of a chunk: `Infer` has any outcome in
  `FailCounts` or is left by an exception. `ItemRunner` does not write rows.
- Postgres deadlocks between row locks: one side fails, which is a `Raise` or a `Drop`.
- A read and the flush that follows it at once in `Flush` and `ReleaseCancelled`
  are one step.
- The statements of `orchestrate_batch`'s transaction (jobs.py:66-69) are one step. Of
  two orchestrations that insert rows at once one fails on the unique index of
  (batch_id, chunk_index), which is a `Drop`; a chunk that succeeds between the read
  of the rows and the commit is enqueued once more, and that job is ignored.
- The counts of `check_batch_completion` and the commit of a verdict other than
  failure are one step (`Count`). If rows were reclaimed, they are counted as pending
  and locked until the commit, so the verdict is to requeue, whatever the others are;
  if not, that commit writes nothing.
- In `Admission`, rates below one: numbers are whole. `TokenBucket` has them.
- Several batches: they share the rate limiter and the queue only.
- An exception before the gather of `process_chunk` (the read of its lines): no
  item has started, and the pipeline's `Raise` covers it.
- Lines that do not parse as JSON when a chunk reads them: an exception before the
  gather, see above. The upload's splitting at line ends other than newline and
  carriage return.
- The token bucket's rate of zero or less (never limited), floating-point rounding,
  and the lower bound of 10 ms on a sleep. In `bucket` no rate is below a token per
  second: with such neighbours on the same bucket a caller may wait in vain, as
  `bucket_slow` shows for one alone.
- Payloads and signatures of webhooks, request and answer payloads of providers, the
  mock provider's answers, signed URLs, the manifest's text, timestamps, error
  texts, metrics, logs, health checks: data no property is about, or reads only.
- Migrations, the load script and the container files: nothing of them runs in the
  program.

Read while modelling and not kept as runs:

- The attempt budget bounds only attempts that end in the except path (jobs.py:144,
  320). scaling.md:16 says "Exhaustion → batch `failed`"; a chunk whose worker dies
  each time is leased without limit. In the pipeline's model `attempts` exceeds
  `ChunkMaxAttempts` with a single crash.
- Of two requests with an empty `Idempotency-Key` the second fails on the unique
  index (batches.py:47), and a client that repeats the first after a crash of the
  API fails for ever. `KeyedBatchStarts` leaves that key out.
- A success whose nudge fails is demoted to pending or failed by the except path
  (jobs.py:302, 332), where design.md:323 says "never recomputed". Its object and its
  key stay, which is what `KeepsBatchPromise` says of it.
- A configured model that the catalogue of the provider does not list is used in
  every tier (routing.py:95), a model of another provider included.
- A failed verdict of `check_batch_completion` (jobs.py:365) is written over a
  cancellation committed since its read, and may then leave a failed batch without a
  failed chunk; see `FailsTogether`.
- With `DEFAULT_CHUNK_SIZE=-1` a JSON batch without a `chunk_size` is accepted with 202
  and lost in `plan_chunks`: config.py:37, 56 and 57 have no bounds. `CheckedRowsRun`
  names this exception.
- test.md:336 says that creates with an unregistered provider "typically fail with an
  unknown/unregistered provider error", test.md:548 "Create fails — mock not registered". The create is accepted, as design.md:386 says,
  and the chunks fail in the worker; so do batches waiting for the stand-in mock when
  a worker is given its first key. `ServedAsConfigured` says when.
- Under two leases of a chunk the published lines and the counters may come from
  different attempts (jobs.py:280, 290); each is right by itself.
- `retry_count` may be erased or bumped twice (jobs.py:123, 155), a shorter pause
  overwrites a longer one (rate_limit:50), and a webhook request whose worker dies
  before its commit is not counted (jobs.py:516).

They are in the list of hazards.
