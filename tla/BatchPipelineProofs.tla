------------------------ MODULE BatchPipelineProofs ------------------------
(***************************************************************************)
(* Theorems about BatchPipeline, for every set of chunks and of slots,     *)
(* every retry budget and every number of faults.                          *)
(***************************************************************************)
EXTENDS BatchPipeline, FiniteSetTheorems, TLAPS

----------------------------------------------------------------------------
(* Row operators                                                           *)

(* The counters _recompute_batch_counters writes are natural numbers.      *)
LEMMA RecomputedType ==
    ASSUME NEW rows \in [Chunks -> ChunkRow]
    PROVE  Recomputed(rows) \in Progress
<1> DEFINE lease(c) == {c} \X (2 .. rows[c].attempts)
<1>1. IsFiniteSet(DoneLines(rows))
  <2>1. IsFiniteSet(WithStatus(rows, {"succeeded"}))
    BY ChunksAssumption, FS_Subset DEF WithStatus
  <2>2. IsFiniteSet(1 .. ChunkItems)
    BY ItemsAssumption, FS_Interval
  <2> QED BY <2>1, <2>2, FS_Product DEF DoneLines
<1>2. IsFiniteSet(FailedLines(rows))
  BY <1>1, FS_Subset DEF FailedLines
<1>3. IsFiniteSet(Retries(rows))
  <2>1. \A c \in Chunks : IsFiniteSet(lease(c))
    <3> SUFFICES ASSUME NEW c \in Chunks PROVE IsFiniteSet(lease(c))
      OBVIOUS
    <3>1. rows[c].attempts \in Int
      BY DEF ChunkRow
    <3>2. IsFiniteSet(2 .. rows[c].attempts)
      BY <3>1, FS_Interval
    <3>3. IsFiniteSet({c})
      BY FS_Singleton
    <3> QED BY <3>2, <3>3, FS_Product
  <2>2. IsFiniteSet({lease(c) : c \in Chunks})
    <3> DEFINE all == {lease(c) : c \in Chunks}
               f == [c \in Chunks |-> lease(c)]
    <3>1. f \in [Chunks -> all]
      OBVIOUS
    <3>2. \A T \in all : \E c \in Chunks : f[c] = T
      OBVIOUS
    <3>3. f \in Surjection(Chunks, all)
      BY <3>1, <3>2 DEF Surjection
    <3> HIDE DEF all, f
    <3>4. IsFiniteSet(all)
      BY <3>3, ChunksAssumption, FS_Surjection
    <3> QED BY <3>4 DEF all
  <2>3. \A T \in {lease(c) : c \in Chunks} : IsFiniteSet(T)
    BY <2>1
  <2>4. IsFiniteSet(UNION {lease(c) : c \in Chunks})
    BY <2>2, <2>3, FS_UNION
  <2> QED BY <2>4 DEF Retries
<1> QED BY <1>1, <1>2, <1>3, FS_CardinalityType DEF Recomputed, Progress

(* Every operator that rewrites a chunk row gives a chunk row.             *)
LEMMA RowTypes ==
    ASSUME NEW seen \in ChunkRow, NEW cur \in ChunkRow
    PROVE  /\ Leased(seen, cur) \in ChunkRow
           /\ \A f \in 0 .. ChunkItems : Succeeded(cur, f) \in ChunkRow
           /\ \A st \in {"pending", "failed"} : Failed(seen, cur, st) \in ChunkRow
           /\ Released(cur) \in ChunkRow
<1>1. Leased(seen, cur) \in ChunkRow
  <2>1. Emit(seen.status, "leased", cur.status) \in ChunkStatus
    BY DEF ChunkRow, ChunkStatus, Emit
  <2>2. seen.attempts + 1 \in Nat
    BY DEF ChunkRow
  <2> QED BY <2>1, <2>2 DEF ChunkRow, Lease, Leased
<1>2. \A f \in 0 .. ChunkItems : Succeeded(cur, f) \in ChunkRow
  BY DEF ChunkRow, ChunkStatus, Lease, Succeeded
<1>3. \A st \in {"pending", "failed"} : Failed(seen, cur, st) \in ChunkRow
  BY DEF ChunkRow, ChunkStatus, Lease, Failed, Emit
<1>4. Released(cur) \in ChunkRow
  BY DEF ChunkRow, ChunkStatus, Lease, Released
<1> QED BY <1>1, <1>2, <1>3, <1>4

LEMMA NoRowType == NoRow \in ChunkRow /\ NewRow \in ChunkRow
<1>1. NoRow \in ChunkRow
  BY ItemsAssumption DEF NoRow, ChunkRow, ChunkStatus, Lease
<1>2. NewRow \in ChunkRow
  BY <1>1 DEF NewRow, ChunkRow, ChunkStatus
<1> QED BY <1>1, <1>2

LEMMA ReclaimedType ==
    ASSUME NEW rows \in [Chunks -> ChunkRow]
    PROVE  Reclaimed(rows) \in [Chunks -> ChunkRow]
<1>1. \A c \in Chunks : Released(rows[c]) \in ChunkRow
  BY RowTypes
<1> QED BY <1>1 DEF Reclaimed

LEMMA IdleType == Idle \in SlotState
BY NoRowType, ItemsAssumption
   DEF Idle, SlotState, PC, BatchStatus, Progress, NoProgress

(* A slot that moves to another point of its handler, or returns.          *)
LEMMA GotoType ==
    ASSUME TypeOK, NEW s \in Slots, NEW pc \in PC
    PROVE  /\ Goto(s, pc) => worker' \in [Slots -> SlotState]
           /\ Return(s) => worker' \in [Slots -> SlotState]
<1>1. Idle \in SlotState
  BY IdleType
<1>2. [Idle EXCEPT !.pc = pc, !.job = worker[s].job] \in SlotState
  BY <1>1 DEF SlotState, TypeOK
<1> QED BY <1>1, <1>2 DEF TypeOK, Goto, Return

LEMMA FanoutType ==
    ASSUME TypeOK, NEW s \in Slots,
           NEW out \in SUBSET Chunks, NEW lapsed \in SUBSET Chunks,
           StartFanout(s, out, lapsed)
    PROVE  worker' \in [Slots -> SlotState]
<1>1. Idle \in SlotState
  BY IdleType
<1>2. [Idle EXCEPT !.pc = IF out = {} THEN "rearm" ELSE "fanout",
          !.job = worker[s].job, !.out = out, !.lapsed = lapsed] \in SlotState
  BY <1>1 DEF SlotState, TypeOK, PC
<1> QED BY <1>2 DEF TypeOK, StartFanout

LEMMA QueueType ==
    ASSUME TypeOK, NEW j
    PROVE  /\ Enqueue(j) => queue' \in [Job -> 0 .. MaxCopies]
           /\ j \in Job /\ Dequeue(j) => queue' \in [Job -> 0 .. MaxCopies]
<1>1. \A n \in 0 .. MaxCopies : Plus(n) \in 0 .. MaxCopies
  BY BoundsAssumption DEF Plus
<1> QED BY <1>1, BoundsAssumption DEF TypeOK, Enqueue, Dequeue

LEMMA SpendType ==
    ASSUME TypeOK, NEW f \in Faults, Spend(f)
    PROVE  left' \in [Faults -> Nat]
BY DEF TypeOK, Spend

----------------------------------------------------------------------------
(* Every step preserves the types.                                         *)

LEMMA TypeOKInit == Init => TypeOK
<1> SUFFICES ASSUME Init PROVE TypeOK
  OBVIOUS
<1>1. chunk \in [Chunks -> ChunkRow]
  BY NoRowType DEF Init
<1>2. worker \in [Slots -> SlotState]
  BY IdleType DEF Init
<1>3. queue \in [Job -> 0 .. MaxCopies]
  BY BoundsAssumption DEF Init
<1> QED BY <1>1, <1>2, <1>3, BoundsAssumption
        DEF Init, TypeOK, BatchStatus, Progress, NoProgress

(* The steps that send a job or an event.                                  *)
LEMMA TypeOKSends ==
    ASSUME TypeOK, NEW s \in Slots
    PROVE  /\ HandOff(s) => TypeOK'
           /\ Notify(s) => TypeOK'
           /\ Fanout(s) => TypeOK'
           /\ \A j \in Job : Take(s, j) => TypeOK'
<1>1. ASSUME HandOff(s) PROVE TypeOK'
  <2>1. queue' \in [Job -> 0 .. MaxCopies]
    BY <1>1, QueueType DEF HandOff, Nudge, Rearm, StartFinalize, EnqueueRetry
  <2>2. worker' \in [Slots -> SlotState]
    BY <1>1, GotoType DEF HandOff, PC
  <2> QED BY <1>1, <2>1, <2>2 DEF HandOff, TypeOK, tables, spaces
<1>2. ASSUME Notify(s) PROVE TypeOK'
  <2>1. notified' \subseteq Event
    BY <1>2 DEF Notify, TypeOK, Event, EventOf
  <2>2. worker' \in [Slots -> SlotState]
    BY <1>2, GotoType DEF Notify, PC
  <2> QED BY <1>2, <2>1, <2>2 DEF Notify, TypeOK, tables, spaces
<1>3. ASSUME Fanout(s) PROVE TypeOK'
  <2>1. queue' \in [Job -> 0 .. MaxCopies]
    BY <1>3, QueueType DEF Fanout
  <2>2. worker' \in [Slots -> SlotState]
    <3>1. worker[s] \in SlotState
      BY DEF TypeOK
    <3>2. PICK c \in worker[s].out :
            worker' = [worker EXCEPT ![s].out = worker[s].out \ {c},
                                     ![s].pc = IF worker[s].out \ {c} = {}
                                               THEN AfterFanout(worker[s])
                                               ELSE "fanout"]
      BY <1>3 DEF Fanout
    <3>3. [worker[s] EXCEPT !.out = worker[s].out \ {c},
                            !.pc = IF worker[s].out \ {c} = {}
                                   THEN AfterFanout(worker[s])
                                   ELSE "fanout"] \in SlotState
      BY <3>1 DEF SlotState, PC, AfterFanout
    <3> QED BY <3>2, <3>3 DEF TypeOK
  <2> QED BY <1>3, <2>1, <2>2 DEF Fanout, TypeOK, tables, spaces
<1>4. ASSUME NEW j \in Job, Begin(s, j) PROVE TypeOK'
  <2>1. queue' \in [Job -> 0 .. MaxCopies]
    BY <1>4, QueueType DEF Begin
  <2>2. worker' \in [Slots -> SlotState]
    <3> DEFINE saw == IF j = "orchestrate_batch" THEN batch.status ELSE "pending"
               row == IF j \in Chunks THEN chunk[j] ELSE NoRow
               out == IF FirstPC(j) = "concat"
                      THEN {c \in Chunks : chunk[c].result_key} ELSE {}
    <3>1. saw \in BatchStatus
      BY DEF TypeOK, BatchStatus
    <3>2. row \in ChunkRow
      BY NoRowType DEF TypeOK
    <3>3. out \in SUBSET Chunks
      OBVIOUS
    <3>4. FirstPC(j) \in PC
      BY DEF FirstPC, PC
    <3>5. [Idle EXCEPT !.pc = FirstPC(j), !.job = j, !.saw = saw,
                       !.row = row, !.out = out] \in SlotState
      <4> HIDE DEF saw, row, out
      <4> QED BY <3>1, <3>2, <3>3, <3>4, IdleType DEF SlotState
    <3> QED BY <1>4, <3>5 DEF Begin, TypeOK
  <2> QED BY <1>4, <2>1, <2>2 DEF Begin, TypeOK, tables, spaces
<1>5. ASSUME NEW j \in Job, Ignore(s, j) PROVE TypeOK'
  <2>1. queue' \in [Job -> 0 .. MaxCopies]
    BY <1>5, QueueType DEF Ignore
  <2> QED BY <1>5, <2>1 DEF Ignore, TypeOK, tables, spaces
<1> QED BY <1>1, <1>2, <1>3, <1>4, <1>5 DEF Take

(* The steps of process_chunk.                                             *)
LEMMA TypeOKProcess ==
    ASSUME TypeOK, NEW s \in Slots, NEW c \in Chunks
    PROVE  /\ ProcessChunk(s, c) => TypeOK'
           /\ Raise(s, c) => TypeOK'
<1>0. chunk[c] \in ChunkRow /\ worker[s] \in SlotState
  BY DEF TypeOK
<1>w. worker[s].row \in ChunkRow /\ worker[s].failures \in 0 .. ChunkItems
      /\ worker[s].tally \in Progress
  BY <1>0 DEF SlotState
<1>t. Succeeded(chunk[c], worker[s].failures) \in ChunkRow
  BY <1>0, <1>w, RowTypes
<1>1. ASSUME LeaseChunk(s, c) PROVE TypeOK'
  <2>1. Leased(worker[s].row, chunk[c]) \in ChunkRow
    BY <1>0, <1>w, RowTypes
  <2>2. chunk' \in [Chunks -> ChunkRow]
    BY <1>1, <2>1 DEF LeaseChunk, TypeOK
  <2>3. progress' \in Progress
    BY <1>1 DEF LeaseChunk, TypeOK, Progress
  <2>4. worker' \in [Slots -> SlotState]
    BY <1>1, GotoType DEF LeaseChunk, PC
  <2> QED BY <1>1, <2>2, <2>3, <2>4 DEF LeaseChunk, TypeOK, spaces
<1>2. ASSUME CheckCancelled(s, c) PROVE TypeOK'
  <2>1. worker' \in [Slots -> SlotState]
    BY <1>2, GotoType DEF CheckCancelled, PC
  <2> QED BY <1>2, <2>1 DEF CheckCancelled, TypeOK, tables, spaces
<1>3. ASSUME ReleaseCancelled(s, c) PROVE TypeOK'
  <2>1. Released(chunk[c]) \in ChunkRow
    BY <1>0, RowTypes
  <2>2. chunk' \in [Chunks -> ChunkRow]
    BY <1>3, <2>1 DEF ReleaseCancelled, TypeOK
  <2>3. worker' \in [Slots -> SlotState]
    BY <1>3, GotoType DEF ReleaseCancelled, PC
  <2> QED BY <1>3, <2>2, <2>3 DEF ReleaseCancelled, TypeOK, spaces
<1>4. ASSUME Infer(s, c) PROVE TypeOK'
  <2>1. PICK f \in FailCounts :
          /\ object' = [object EXCEPT ![c] = f]
          /\ worker' = [worker EXCEPT ![s].pc = "flush", ![s].failures = f]
    BY <1>4 DEF Infer
  <2>2. f \in 0 .. ChunkItems
    BY CountsAssumption
  <2>3. [worker[s] EXCEPT !.pc = "flush", !.failures = f] \in SlotState
    BY <1>0, <2>2 DEF SlotState, PC
  <2>4. worker' \in [Slots -> SlotState]
    BY <2>1, <2>3 DEF TypeOK
  <2> QED BY <1>4, <2>1, <2>2, <2>4 DEF Infer, TypeOK, tables
<1>5. ASSUME Flush(s, c) PROVE TypeOK'
  <2> DEFINE rows == [chunk EXCEPT ![c] = Succeeded(@, worker[s].failures)]
  <2>1. rows \in [Chunks -> ChunkRow]
    BY <1>t DEF TypeOK
  <2>2. Recomputed(rows) \in Progress
    BY <2>1, RecomputedType
  <2>3. worker' = [worker EXCEPT ![s].pc = "commit", ![s].tally = Recomputed(rows)]
    BY <1>5 DEF Flush
  <2> HIDE DEF rows
  <2>4. [worker[s] EXCEPT !.pc = "commit", !.tally = Recomputed(rows)] \in SlotState
    BY <1>0, <2>2 DEF SlotState, PC
  <2>5. worker' \in [Slots -> SlotState]
    BY <2>3, <2>4 DEF TypeOK
  <2> QED BY <1>5, <2>5 DEF Flush, TypeOK, tables, spaces
<1>6. ASSUME Commit(s, c) PROVE TypeOK'
  <2>1. chunk' \in [Chunks -> ChunkRow]
    BY <1>6, <1>t DEF Commit, TypeOK
  <2>2. worker' \in [Slots -> SlotState]
    BY <1>6, GotoType DEF Commit, PC
  <2> QED BY <1>6, <1>w, <2>1, <2>2 DEF Commit, TypeOK, spaces
<1>7. ASSUME RetryChunk(s, c) PROVE TypeOK'
  <2>1. Failed(worker[s].row, chunk[c], "pending") \in ChunkRow
    BY <1>0, <1>w, RowTypes
  <2>2. chunk' \in [Chunks -> ChunkRow]
    BY <1>7, <2>1 DEF RetryChunk, TypeOK
  <2>3. worker' \in [Slots -> SlotState]
    BY <1>7, GotoType DEF RetryChunk, PC
  <2> QED BY <1>7, <2>2, <2>3 DEF RetryChunk, TypeOK, spaces
<1>8. ASSUME FailBatch(s, c) PROVE TypeOK'
  <2>1. Failed(worker[s].row, chunk[c], "failed") \in ChunkRow
    BY <1>0, <1>w, RowTypes
  <2>2. chunk' \in [Chunks -> ChunkRow]
    BY <1>8, <2>1 DEF FailBatch, TypeOK
  <2>3. worker' \in [Slots -> SlotState]
    BY <1>8, GotoType DEF FailBatch, PC
  <2> QED BY <1>8, <2>2, <2>3 DEF FailBatch, TypeOK, spaces, BatchStatus
<1>9. ASSUME AbandonChunk(s, c) PROVE TypeOK'
  <2>1. worker' \in [Slots -> SlotState]
    BY <1>9, GotoType DEF AbandonChunk, PC
  <2> QED BY <1>9, <2>1 DEF AbandonChunk, TypeOK, tables, spaces
<1>10. ASSUME Raise(s, c) PROVE TypeOK'
  <2>1. left' \in [Faults -> Nat]
    BY <1>10, SpendType DEF Raise, Faults
  <2>2. [Idle EXCEPT !.pc = "except", !.job = c, !.saw = batch.status,
                     !.row = chunk[c]] \in SlotState
    BY <1>0, IdleType DEF SlotState, PC, Job, TypeOK
  <2>3. worker' \in [Slots -> SlotState]
    BY <1>10, <2>2 DEF Raise, TypeOK
  <2> QED BY <1>10, <2>1, <2>3 DEF Raise, TypeOK, tables, spaces
<1> QED BY <1>1, <1>2, <1>3, <1>4, <1>5, <1>6, <1>7, <1>8, <1>9, <1>10
        DEF ProcessChunk

(* The steps of the handlers that steer the batch.                         *)
LEMMA TypeOKControl ==
    ASSUME TypeOK, NEW s \in Slots
    PROVE  /\ Orchestrate(s) => TypeOK'
           /\ Reclaim(s) => TypeOK'
           /\ Count(s) => TypeOK'
           /\ FailCounted(s) => TypeOK'
           /\ Requeue(s) => TypeOK'
           /\ RequeueCommit(s) => TypeOK'
           /\ Concatenate(s) => TypeOK'
           /\ Publish(s) => TypeOK'
<1>1. ASSUME Orchestrate(s) PROVE TypeOK'
  <2>1. Rows \in [Chunks -> ChunkRow]
    BY NoRowType DEF Rows, TypeOK
  <2>2. chunk' \in [Chunks -> ChunkRow]
    BY <1>1, <2>1, ReclaimedType DEF Orchestrate
  <2>3. worker' \in [Slots -> SlotState]
    <3>1. Chunks \ WithStatus(Rows, {"succeeded"}) \in SUBSET Chunks
      OBVIOUS
    <3> QED BY <1>1, <3>1, FanoutType DEF Orchestrate
  <2>4. batch' \in [status : BatchStatus, results_key : BOOLEAN]
    BY <1>1 DEF Orchestrate, TypeOK, Emit, BatchStatus
  <2> QED BY <1>1, <2>2, <2>3, <2>4 DEF Orchestrate, TypeOK, spaces
<1>0. \A S : SetBack(S) \in [Chunks -> ChunkRow]
  BY RowTypes DEF SetBack, TypeOK
<1>2. ASSUME Reclaim(s) PROVE TypeOK'
  <2>1. [worker[s] EXCEPT !.pc = "count", !.lapsed = LapsedChunks] \in SlotState
    <3>1. worker[s] \in SlotState
      BY DEF TypeOK
    <3>2. "count" \in PC /\ LapsedChunks \in SUBSET Chunks
      BY DEF PC, LapsedChunks
    <3> QED BY <3>1, <3>2, Zenon DEF SlotState
  <2>2. worker' = [worker EXCEPT ![s] =
                     [worker[s] EXCEPT !.pc = "count", !.lapsed = LapsedChunks]]
    BY <1>2 DEF Reclaim, TypeOK
  <2>3. worker' \in [Slots -> SlotState]
    BY <2>1, <2>2 DEF TypeOK
  <2> QED BY <1>2, <2>3 DEF Reclaim, TypeOK, tables, spaces
<1>7. ASSUME Count(s) PROVE TypeOK'
  <2>1. worker' \in [Slots -> SlotState]
    BY <1>7, GotoType DEF Count, PC
  <2> QED BY <1>0, <1>7, <2>1 DEF Count, TypeOK, spaces
<1>8. ASSUME FailCounted(s) PROVE TypeOK'
  <2>1. worker' \in [Slots -> SlotState]
    BY <1>8, GotoType DEF FailCounted, PC
  <2>2. batch' \in [status : BatchStatus, results_key : BOOLEAN]
    BY <1>8 DEF FailCounted, TypeOK, BatchStatus
  <2> QED BY <1>8, <2>1, <2>2 DEF FailCounted, TypeOK, spaces
<1>3. ASSUME Requeue(s) PROVE TypeOK'
  <2>1. /\ WithStatus(chunk, {"pending"}) \cup LapsedChunks \in SUBSET Chunks
        /\ LapsedChunks \in SUBSET Chunks
    BY DEF WithStatus, LapsedChunks
  <2>2. worker' \in [Slots -> SlotState]
    BY <1>3, <2>1, FanoutType DEF Requeue
  <2> QED BY <1>3, <2>2 DEF Requeue, TypeOK, tables, spaces
<1>4. ASSUME RequeueCommit(s) PROVE TypeOK'
  <2>2. chunk' \in [Chunks -> ChunkRow]
    BY <1>0, <1>4 DEF RequeueCommit
  <2>3. worker' \in [Slots -> SlotState]
    BY <1>4, GotoType DEF RequeueCommit, PC
  <2> QED BY <1>4, <2>2, <2>3 DEF RequeueCommit, TypeOK, spaces
<1>5. ASSUME Concatenate(s) PROVE TypeOK'
  <2>1. results' \in [Chunks -> 0 .. ChunkItems \cup {NoObject}]
    BY <1>5 DEF Concatenate, TypeOK
  <2>2. worker' \in [Slots -> SlotState]
    BY <1>5, GotoType DEF Concatenate, PC
  <2> QED BY <1>5, <2>1, <2>2 DEF Concatenate, TypeOK, tables
<1>6. ASSUME Publish(s) PROVE TypeOK'
  <2>1. worker' \in [Slots -> SlotState]
    BY <1>6, GotoType DEF Publish, PC
  <2>2. batch' \in [status : BatchStatus, results_key : BOOLEAN]
    BY <1>6 DEF Publish, BatchStatus
  <2> QED BY <1>6, <2>1, <2>2 DEF Publish, TypeOK, spaces
<1> QED BY <1>1, <1>2, <1>3, <1>4, <1>5, <1>6, <1>7, <1>8

(* Time, the cron job, the API and the faults.                             *)
LEMMA TypeOKEnvironment ==
    ASSUME TypeOK
    PROVE  /\ CronReclaim => TypeOK'
           /\ \A c \in Chunks : ExpireLease(c) \/ OutliveLease(c) => TypeOK'
           /\ Replay \/ CancelRead \/ CancelCommit \/ RestartRedis => TypeOK'
           /\ \A s \in Slots : Crash(s) \/ Drop(s) => TypeOK'
<1>1. ASSUME CronReclaim PROVE TypeOK'
  <2>1. chunk' \in [Chunks -> ChunkRow]
    BY <1>1, ReclaimedType DEF CronReclaim, TypeOK
  <2> QED BY <1>1, <2>1 DEF CronReclaim, TypeOK, spaces
<1>2. ASSUME NEW c \in Chunks, ExpireLease(c) \/ OutliveLease(c) PROVE TypeOK'
  <2>1. [chunk[c] EXCEPT !.lease = "expired"] \in ChunkRow
    BY DEF TypeOK, ChunkRow, Lease
  <2>2. chunk' \in [Chunks -> ChunkRow]
    BY <1>2, <2>1 DEF ExpireLease, OutliveLease, TypeOK
  <2>3. left' \in [Faults -> Nat]
    BY <1>2, SpendType DEF ExpireLease, OutliveLease, Faults, TypeOK
  <2> QED BY <1>2, <2>2, <2>3 DEF ExpireLease, OutliveLease, TypeOK, spaces
<1>3. ASSUME Replay PROVE TypeOK'
  <2>1. left' \in [Faults -> Nat] /\ queue' \in [Job -> 0 .. MaxCopies]
    BY <1>3, SpendType, QueueType DEF Replay, Faults
  <2> QED BY <1>3, <2>1 DEF Replay, TypeOK, tables, spaces
<1>4. ASSUME CancelRead PROVE TypeOK'
  <2>1. left' \in [Faults -> Nat]
    BY <1>4, SpendType DEF CancelRead, Faults
  <2> QED BY <1>4, <2>1 DEF CancelRead, TypeOK, tables, spaces
<1>5. ASSUME CancelCommit PROVE TypeOK'
  BY <1>5 DEF CancelCommit, TypeOK, spaces, BatchStatus
<1>6. ASSUME RestartRedis PROVE TypeOK'
  <2>1. left' \in [Faults -> Nat]
    BY <1>6, SpendType DEF RestartRedis, Faults
  <2>2. queue' \in [Job -> 0 .. MaxCopies]
    BY <1>6, BoundsAssumption DEF RestartRedis
  <2> QED BY <1>6, <2>1, <2>2 DEF RestartRedis, TypeOK, tables, spaces
<1>7. ASSUME NEW s \in Slots, Crash(s) \/ Drop(s) PROVE TypeOK'
  <2>1. left' \in [Faults -> Nat]
    BY <1>7, SpendType DEF Crash, Drop, Faults
  <2>2. queue' \in [Job -> 0 .. MaxCopies]
    BY <1>7, QueueType DEF Crash, Drop, TypeOK
  <2>3. worker' \in [Slots -> SlotState]
    BY <1>7, GotoType DEF Crash, Drop, PC
  <2> QED BY <1>7, <2>1, <2>2, <2>3 DEF Crash, Drop, TypeOK, tables, spaces
<1> QED BY <1>1, <1>2, <1>3, <1>4, <1>5, <1>6, <1>7

(* The rows, the queue, the objects and every slot keep their types:       *)
(* in particular the counters the API reports are never negative.          *)
THEOREM TypeCorrect == Spec => []TypeOK
<1>1. TypeOK /\ [Next]_vars => TypeOK'
  <2> SUFFICES ASSUME TypeOK, [Next]_vars PROVE TypeOK'
    OBVIOUS
  <2>1. CASE \E s \in Slots : Step(s)
    BY <2>1, TypeOKSends, TypeOKProcess, TypeOKControl DEF Step
  <2>2. CASE \E s \in Slots : \E j \in Job : Take(s, j)
    BY <2>2, TypeOKSends
  <2>3. CASE CronReclaim \/ (\E c \in Chunks : ExpireLease(c))
             \/ Replay \/ CancelRead \/ CancelCommit
    BY <2>3, TypeOKEnvironment
  <2>4. CASE Fault
    BY <2>4, TypeOKEnvironment, TypeOKProcess DEF Fault
  <2>5. CASE UNCHANGED vars
    BY <2>5 DEF vars, TypeOK
  <2> QED BY <2>1, <2>2, <2>3, <2>4, <2>5 DEF Next
<1> QED BY TypeOKInit, <1>1, PTL DEF Spec

----------------------------------------------------------------------------
(* The checkpoint invariant                                                *)

LEMMA CheckpointInit == Init => CheckpointInv
BY ChunksAssumption
   DEF Init, CheckpointInv, JobsMatch, KeysHaveObjects, KeysMatchStatus, Staged,
       ResultsWhole, At, Idle, NoRow, ProcessPC, Tried

(* A slot of which the invariant asks no more than a job that fits.        *)
Plain(w) ==
    /\ w.pc \notin {"flush", "commit", "concat", "publish"}
    /\ w.pc \in ProcessPC => w.job \in Chunks
    /\ w.pc \in {"reclaim", "count", "fail"} => w.job = "check_batch_completion"
    /\ w.pc = "orchestrate" => w.job = "orchestrate_batch"
    /\ w.pc = "idle" => w.job = NoJob
    /\ ~(w.pc = "notify" /\ w.job = "finalize_batch")

(* A step that stores no object, marks no chunk succeeded, publishes       *)
(* nothing and leaves every slot as it was or plain.                       *)
PlainRows ==
    \A c \in Chunks :
        /\ chunk'[c].result_key = chunk[c].result_key
        /\ chunk'[c].status \in {"succeeded", "absent"} =>
               chunk'[c].status = chunk[c].status
PlainSlots == \A t \in Slots : worker'[t] = worker[t] \/ Plain(worker'[t])
PlainBatch ==
    /\ batch'.results_key = batch.results_key
    /\ batch'.status = "completed" => batch.status = "completed"
PlainStep == PlainRows /\ PlainSlots /\ PlainBatch /\ UNCHANGED <<spaces, notified>>

LEMMA PlainPreserves ==
    ASSUME CheckpointInv, PlainStep
    PROVE  CheckpointInv'
<1> USE DEF PlainStep
<1>1. JobsMatch'
  BY DEF CheckpointInv, JobsMatch, PlainSlots, Plain, At
<1>2. KeysHaveObjects'
  BY DEF CheckpointInv, KeysHaveObjects, PlainRows, spaces
<1>3. KeysMatchStatus'
  BY DEF CheckpointInv, KeysMatchStatus, PlainRows
<1>4. Staged'
  BY DEF CheckpointInv, Staged, PlainSlots, Plain, PlainRows, PlainBatch, spaces, At
<1>5. ResultsWhole'
  BY DEF CheckpointInv, ResultsWhole, PlainBatch, spaces
<1> QED BY <1>1, <1>2, <1>3, <1>4, <1>5 DEF CheckpointInv

(* What Goto, Return and StartFanout leave is plain, if the point is.      *)
LEMMA PlainMoves ==
    ASSUME TypeOK, NEW s \in Slots
    PROVE  /\ Return(s) => PlainSlots
           /\ \A pc : Goto(s, pc) /\ Plain([Idle EXCEPT !.pc = pc, !.job = worker[s].job])
                 => PlainSlots
           /\ \A out, lapsed : StartFanout(s, out, lapsed) => PlainSlots
<1>1. Plain(Idle)
  BY DEF Plain, Idle, ProcessPC, Tried
<1>2. ASSUME Return(s) PROVE PlainSlots
  BY <1>1, <1>2 DEF Return, PlainSlots, TypeOK
<1>3. ASSUME NEW pc, Goto(s, pc),
             Plain([Idle EXCEPT !.pc = pc, !.job = worker[s].job])
      PROVE  PlainSlots
  BY <1>3 DEF Goto, PlainSlots, TypeOK
<1>4. ASSUME NEW out, NEW lapsed, StartFanout(s, out, lapsed) PROVE PlainSlots
  <2> DEFINE w == [Idle EXCEPT !.pc = IF out = {} THEN "rearm" ELSE "fanout",
                     !.job = worker[s].job, !.out = out, !.lapsed = lapsed]
  <2>1. Plain(w)
    BY DEF Plain, Idle, ProcessPC, Tried
  <2>2. worker' = [worker EXCEPT ![s] = w]
    BY <1>4 DEF StartFanout
  <2> HIDE DEF w
  <2> QED BY <2>1, <2>2 DEF PlainSlots, TypeOK
<1> QED BY <1>2, <1>3, <1>4

LEMMA PlainProcess ==
    ASSUME TypeOK, CheckpointInv, NEW s \in Slots, NEW c \in Chunks
    PROVE  /\ LeaseChunk(s, c) => PlainStep
           /\ CheckCancelled(s, c) => PlainStep
           /\ ReleaseCancelled(s, c) => PlainStep
           /\ RetryChunk(s, c) => PlainStep
           /\ FailBatch(s, c) => PlainStep
           /\ AbandonChunk(s, c) => PlainStep
           /\ Raise(s, c) => PlainStep
<1>0. /\ chunk[c] \in ChunkRow
      /\ c # "finalize_batch" /\ c # "check_batch_completion"
  BY JobsAssumption DEF TypeOK, ControlJob
<1>1. ASSUME NEW pc \in {"guard", "release", "infer", "retry", "notify"},
             worker[s].job = c
      PROVE  Plain([Idle EXCEPT !.pc = pc, !.job = worker[s].job])
  BY <1>0, <1>1 DEF Plain, Idle
<1>2. ASSUME LeaseChunk(s, c) PROVE PlainStep
  <2>1. PlainSlots
    BY <1>1, <1>2, PlainMoves DEF LeaseChunk, Works
  <2>2. PlainRows
    BY <1>0, <1>2 DEF LeaseChunk, PlainRows, Leased, Emit, TypeOK, ChunkRow
  <2> QED BY <1>2, <2>1, <2>2 DEF LeaseChunk, PlainStep, PlainBatch, spaces
<1>3. ASSUME CheckCancelled(s, c) PROVE PlainStep
  <2>1. PlainSlots
    BY <1>1, <1>3, PlainMoves DEF CheckCancelled, Works
  <2> QED BY <1>3, <2>1
          DEF CheckCancelled, PlainStep, PlainBatch, PlainRows, tables
<1>4. ASSUME ReleaseCancelled(s, c) PROVE PlainStep
  <2>1. PlainSlots
    BY <1>4, PlainMoves DEF ReleaseCancelled
  <2>2. PlainRows
    BY <1>0, <1>4 DEF ReleaseCancelled, PlainRows, Released, TypeOK, ChunkRow
  <2> QED BY <1>4, <2>1, <2>2 DEF ReleaseCancelled, PlainStep, PlainBatch
<1>5. ASSUME RetryChunk(s, c) PROVE PlainStep
  <2>1. PlainSlots
    BY <1>1, <1>5, PlainMoves DEF RetryChunk, Works
  <2>2. PlainRows
    BY <1>0, <1>5 DEF RetryChunk, PlainRows, Failed, Emit, TypeOK, ChunkRow
  <2> QED BY <1>5, <2>1, <2>2 DEF RetryChunk, PlainStep, PlainBatch
<1>6. ASSUME FailBatch(s, c) PROVE PlainStep
  <2>1. PlainSlots
    BY <1>1, <1>6, PlainMoves DEF FailBatch, Works
  <2>2. PlainRows
    BY <1>0, <1>6 DEF FailBatch, PlainRows, Failed, Emit, TypeOK, ChunkRow
  <2>3. PlainBatch
    BY <1>6 DEF FailBatch, PlainBatch, TypeOK
  <2> QED BY <1>6, <2>1, <2>2, <2>3 DEF FailBatch, PlainStep
<1>7. ASSUME AbandonChunk(s, c) PROVE PlainStep
  <2>1. PlainSlots
    BY <1>7, PlainMoves DEF AbandonChunk
  <2> QED BY <1>7, <2>1 DEF AbandonChunk, PlainStep, PlainBatch, PlainRows, tables
<1>8. ASSUME Raise(s, c) PROVE PlainStep
  <2> DEFINE w == [Idle EXCEPT !.pc = "except", !.job = c,
                     !.saw = batch.status, !.row = chunk[c]]
  <2>1. Plain(w)
    BY <1>0 DEF Plain, Idle
  <2>2. worker' = [worker EXCEPT ![s] = w]
    BY <1>8 DEF Raise
  <2> HIDE DEF w
  <2>3. PlainSlots
    BY <2>1, <2>2 DEF PlainSlots, TypeOK
  <2> QED BY <1>8, <2>3 DEF Raise, PlainStep, PlainBatch, PlainRows, tables
<1> QED BY <1>2, <1>3, <1>4, <1>5, <1>6, <1>7, <1>8

LEMMA PlainControl ==
    ASSUME TypeOK, CheckpointInv, NEW s \in Slots
    PROVE  /\ HandOff(s) => PlainStep
           /\ Fanout(s) => PlainStep
           /\ Orchestrate(s) => PlainStep
           /\ Reclaim(s) => PlainStep
           /\ Count(s) => PlainStep
           /\ FailCounted(s) => PlainStep
           /\ Requeue(s) => PlainStep
           /\ RequeueCommit(s) => PlainStep
<1>1. ASSUME HandOff(s) PROVE PlainStep
  <2>1. PlainSlots
    BY <1>1, PlainMoves DEF HandOff, Nudge, Rearm, StartFinalize, EnqueueRetry
  <2> QED BY <1>1, <2>1 DEF HandOff, PlainStep, PlainBatch, PlainRows, tables
<1>2. ASSUME Fanout(s) PROVE PlainStep
  <2>1. PICK c \in worker[s].out :
          worker' = [worker EXCEPT ![s].out = worker[s].out \ {c},
                                   ![s].pc = IF worker[s].out \ {c} = {}
                                             THEN AfterFanout(worker[s])
                                             ELSE "fanout"]
    BY <1>2 DEF Fanout
  <2>2. worker'[s].pc \in {"fanout", "rearm", "requeue_commit"}
    BY <2>1 DEF AfterFanout, TypeOK, SlotState
  <2>3. Plain(worker'[s])
    BY <2>2 DEF Plain, ProcessPC, Tried
  <2>4. PlainSlots
    BY <2>1, <2>3 DEF PlainSlots, TypeOK
  <2> QED BY <1>2, <2>4 DEF Fanout, PlainStep, PlainBatch, PlainRows, tables
<1>3. ASSUME Orchestrate(s) PROVE PlainStep
  <2>1. PlainSlots
    BY <1>3, PlainMoves DEF Orchestrate
  <2>2. PlainRows
    <3> SUFFICES ASSUME NEW c \in Chunks
                 PROVE  /\ chunk'[c].result_key = chunk[c].result_key
                        /\ chunk'[c].status \in {"succeeded", "absent"} =>
                             chunk'[c].status = chunk[c].status
      BY DEF PlainRows
    <3>1. chunk'[c] = IF Lapsed(Rows[c]) THEN Released(Rows[c]) ELSE Rows[c]
      BY <1>3 DEF Orchestrate, Reclaimed
    <3>2. Rows[c] = IF chunk[c].status = "absent" THEN NewRow ELSE chunk[c]
      BY DEF Rows
    <3>3. chunk[c] \in ChunkRow
      BY DEF TypeOK
    <3>4. chunk[c].status = "absent" => chunk[c].result_key = FALSE
      BY <3>3 DEF CheckpointInv, KeysMatchStatus, ChunkRow
    <3>5. NewRow.result_key = FALSE /\ NewRow.status = "pending" /\ NewRow.lease = "none"
      BY DEF NewRow, NoRow
    <3>6. CASE chunk[c].status = "absent"
      BY <3>1, <3>2, <3>4, <3>5, <3>6 DEF Lapsed
    <3>7. CASE chunk[c].status # "absent"
      BY <3>1, <3>2, <3>3, <3>7 DEF Released, ChunkRow
    <3> QED BY <3>6, <3>7
  <2>3. PlainBatch
    BY <1>3 DEF Orchestrate, PlainBatch, Emit, TypeOK
  <2> QED BY <1>3, <2>1, <2>2, <2>3 DEF Orchestrate, PlainStep
<1>c. At(s, "reclaim") \/ At(s, "count") \/ At(s, "fail")
        => worker[s].job = "check_batch_completion"
  BY DEF CheckpointInv, JobsMatch, At
<1>b. \A S : chunk' = SetBack(S) => PlainRows
  <2> SUFFICES ASSUME NEW S, chunk' = SetBack(S), NEW c \in Chunks
               PROVE  /\ chunk'[c].result_key = chunk[c].result_key
                      /\ chunk'[c].status \in {"succeeded", "absent"} =>
                           chunk'[c].status = chunk[c].status
    BY DEF PlainRows
  <2>1. chunk[c] \in ChunkRow /\ chunk'[c] \in {chunk[c], Released(chunk[c])}
    BY DEF SetBack, TypeOK
  <2> QED BY <2>1 DEF Released, ChunkRow
<1>4. ASSUME Reclaim(s) PROVE PlainStep
  <2>1. worker'[s].pc = "count" /\ worker'[s].job = worker[s].job
    BY <1>4 DEF Reclaim, TypeOK, SlotState
  <2>2. Plain(worker'[s])
    BY <1>4, <1>c, <2>1 DEF Plain, ProcessPC, Tried, Reclaim
  <2>3. PlainSlots
    BY <1>4, <2>2 DEF PlainSlots, Reclaim, TypeOK
  <2> QED BY <1>4, <2>3 DEF Reclaim, PlainStep, PlainBatch, PlainRows, tables
<1>7. ASSUME Count(s) PROVE PlainStep
  <2>1. \A pc \in {"fail", "to_finalize", "requeue"} :
          Plain([Idle EXCEPT !.pc = pc, !.job = worker[s].job])
    BY <1>7, <1>c DEF Count, Plain, Idle, ProcessPC, Tried
  <2>2. PlainSlots
    BY <1>7, <2>1, PlainMoves DEF Count
  <2> QED BY <1>7, <1>b, <2>2 DEF Count, PlainStep, PlainBatch
<1>8. ASSUME FailCounted(s) PROVE PlainStep
  <2>1. Plain([Idle EXCEPT !.pc = "notify", !.job = worker[s].job])
    BY <1>8, <1>c DEF FailCounted, Plain, Idle, ProcessPC, Tried
  <2>2. PlainSlots
    BY <1>8, <2>1, PlainMoves DEF FailCounted
  <2>3. PlainBatch
    BY <1>8 DEF FailCounted, PlainBatch, TypeOK
  <2> QED BY <1>8, <2>2, <2>3 DEF FailCounted, PlainStep, PlainRows
<1>5. ASSUME Requeue(s) PROVE PlainStep
  <2>1. PlainSlots
    BY <1>5, PlainMoves DEF Requeue
  <2> QED BY <1>5, <2>1 DEF Requeue, PlainStep, PlainBatch, PlainRows, tables
<1>6. ASSUME RequeueCommit(s) PROVE PlainStep
  <2>1. PlainSlots
    <3>1. Plain([Idle EXCEPT !.pc = "rearm", !.job = worker[s].job])
      BY DEF Plain, Idle, ProcessPC, Tried
    <3> QED BY <1>6, <3>1, PlainMoves DEF RequeueCommit
  <2>2. PlainRows
    BY <1>6, <1>b DEF RequeueCommit
  <2> QED BY <1>6, <2>1, <2>2 DEF RequeueCommit, PlainStep, PlainBatch
<1> QED BY <1>1, <1>2, <1>3, <1>4, <1>5, <1>6, <1>7, <1>8

LEMMA PlainEnvironment ==
    ASSUME TypeOK
    PROVE  /\ CronReclaim => PlainStep
           /\ \A c \in Chunks : ExpireLease(c) \/ OutliveLease(c) => PlainStep
           /\ Replay \/ CancelRead \/ CancelCommit \/ RestartRedis => PlainStep
           /\ \A s \in Slots : Crash(s) \/ Drop(s) => PlainStep
<1>1. ASSUME CronReclaim PROVE PlainStep
  BY <1>1 DEF CronReclaim, PlainStep, PlainBatch, PlainSlots, PlainRows,
              Reclaimed, Released, TypeOK, ChunkRow
<1>2. ASSUME NEW c \in Chunks, ExpireLease(c) \/ OutliveLease(c) PROVE PlainStep
  <2>1. PlainRows
    <3>1. chunk' = [chunk EXCEPT ![c].lease = "expired"]
      BY <1>2 DEF ExpireLease, OutliveLease
    <3>2. \A d \in Chunks : /\ chunk'[d].result_key = chunk[d].result_key
                            /\ chunk'[d].status = chunk[d].status
      BY <3>1 DEF TypeOK, ChunkRow
    <3> QED BY <3>2 DEF PlainRows
  <2> QED BY <1>2, <2>1 DEF ExpireLease, OutliveLease, PlainStep, PlainBatch, PlainSlots
<1>3. ASSUME Replay \/ CancelRead \/ RestartRedis PROVE PlainStep
  BY <1>3 DEF Replay, CancelRead, RestartRedis, PlainStep, PlainBatch,
              PlainSlots, PlainRows, tables
<1>4. ASSUME CancelCommit PROVE PlainStep
  BY <1>4 DEF CancelCommit, PlainStep, PlainBatch, PlainSlots, PlainRows, TypeOK
<1>5. ASSUME NEW s \in Slots, Crash(s) \/ Drop(s) PROVE PlainStep
  <2>1. PlainSlots
    BY <1>5, PlainMoves DEF Crash, Drop
  <2> QED BY <1>5, <2>1 DEF Crash, Drop, PlainStep, PlainBatch, PlainRows, tables
<1> QED BY <1>1, <1>2, <1>3, <1>4, <1>5

(* The steps that write an object, a row or an event that is relied upon.  *)
LEMMA CheckpointTakes ==
    ASSUME TypeOK, CheckpointInv, NEW s \in Slots, NEW j \in Job, Take(s, j)
    PROVE  CheckpointInv'
<1>1. CASE Ignore(s, j)
  <2>1. PlainStep
    BY <1>1 DEF Ignore, PlainStep, PlainBatch, PlainSlots, PlainRows, tables
  <2> QED BY <2>1, PlainPreserves
<1>2. CASE Begin(s, j)
  <2>1. /\ worker'[s].pc = FirstPC(j)
        /\ worker'[s].job = j
        /\ worker'[s].out = IF FirstPC(j) = "concat"
                            THEN {c \in Chunks : chunk[c].result_key} ELSE {}
        /\ \A t \in Slots : t # s => worker'[t] = worker[t]
    BY <1>2 DEF Begin, TypeOK, Idle
  <2>2. CASE FirstPC(j) # "concat"
    <3>1. Plain(worker'[s])
      BY <2>1, <2>2, JobsAssumption DEF Plain, FirstPC, ProcessPC, Tried, Job, ControlJob
    <3>2. PlainSlots
      BY <2>1, <3>1 DEF PlainSlots
    <3>3. PlainStep
      BY <1>2, <3>2 DEF Begin, PlainStep, PlainBatch, PlainRows, tables
    <3> QED BY <3>3, PlainPreserves
  <2>3. CASE FirstPC(j) = "concat"
    <3>1. \A c \in Chunks : chunk[c].result_key
      BY <2>3 DEF FirstPC, AllSucceeded, CheckpointInv, KeysMatchStatus
    <3>2. JobsMatch'
      <4>1. j = "finalize_batch"
        BY <2>3 DEF FirstPC, Job, ControlJob
      <4> QED BY <2>1, <2>3, <4>1 DEF CheckpointInv, JobsMatch, ProcessPC, Tried, At
    <3>3. Staged'
      BY <1>2, <2>1, <2>3, <3>1
         DEF Begin, CheckpointInv, Staged, At, tables, spaces
    <3> QED BY <1>2, <3>2, <3>3 DEF Begin, CheckpointInv, KeysHaveObjects,
               KeysMatchStatus, ResultsWhole, tables, spaces
  <2> QED BY <2>2, <2>3
<1> QED BY <1>1, <1>2 DEF Take

LEMMA CheckpointWrites ==
    ASSUME TypeOK, CheckpointInv, NEW s \in Slots, NEW c \in Chunks
    PROVE  /\ Infer(s, c) => CheckpointInv'
           /\ Flush(s, c) => CheckpointInv'
           /\ Commit(s, c) => CheckpointInv'
<1>1. ASSUME Infer(s, c) PROVE CheckpointInv'
  <2>1. PICK f \in FailCounts :
          /\ object' = [object EXCEPT ![c] = f]
          /\ worker' = [worker EXCEPT ![s].pc = "flush", ![s].failures = f]
    BY <1>1 DEF Infer
  <2>2. \A d \in Chunks : object[d] # NoObject => object'[d] # NoObject
    BY <2>1, CountsAssumption DEF TypeOK
  <2>3. object'[c] # NoObject
    BY <2>1, CountsAssumption DEF TypeOK
  <2>4. /\ worker'[s].pc = "flush" /\ worker'[s].job = c
        /\ \A t \in Slots : t # s => worker'[t] = worker[t]
    BY <1>1, <2>1 DEF Infer, Works, TypeOK, SlotState
  <2>5. JobsMatch'
    BY <2>4 DEF CheckpointInv, JobsMatch, At
  <2>6. KeysHaveObjects'
    BY <1>1, <2>2 DEF CheckpointInv, KeysHaveObjects, Infer, tables
  <2>7. Staged'
    <3>1. \A t \in Slots : worker[t].pc \in {"flush", "commit"} => worker[t].job \in Chunks
      BY DEF CheckpointInv, JobsMatch, ProcessPC, Tried
    <3> QED BY <1>1, <2>2, <2>3, <2>4, <3>1 DEF CheckpointInv, Staged, At, Infer, tables
  <2> QED BY <1>1, <2>5, <2>6, <2>7
          DEF CheckpointInv, KeysMatchStatus, ResultsWhole, Infer, tables
<1>2. ASSUME Flush(s, c) PROVE CheckpointInv'
  <2>1. /\ worker'[s].pc = "commit" /\ worker'[s].job = c
        /\ \A t \in Slots : t # s => worker'[t] = worker[t]
    BY <1>2 DEF Flush, Works, At, TypeOK, SlotState
  <2>2. JobsMatch'
    BY <2>1 DEF CheckpointInv, JobsMatch, At
  <2>3. Staged'
    <3>1. UNCHANGED <<batch, chunk, object, results>>
      BY <1>2 DEF Flush, tables, spaces
    <3>2. object[c] # NoObject
      BY <1>2 DEF CheckpointInv, Staged, Flush, Works, At
    <3>3. CheckpointInv => Staged
      BY DEF CheckpointInv
    <3> QED BY <2>1, <3>1, <3>2, <3>3 DEF Staged, At
  <2> QED BY <1>2, <2>2, <2>3 DEF CheckpointInv, KeysHaveObjects, KeysMatchStatus,
             ResultsWhole, Flush, tables, spaces
<1>3. ASSUME Commit(s, c) PROVE CheckpointInv'
  <2>1. object[c] # NoObject
    BY <1>3 DEF CheckpointInv, Staged, Commit, Works, At
  <2>2. /\ chunk'[c].result_key /\ chunk'[c].status = "succeeded"
        /\ \A d \in Chunks : d # c => chunk'[d] = chunk[d]
    BY <1>3 DEF Commit, Succeeded, TypeOK, ChunkRow
  <2>3. PlainSlots
    <3>1. Plain([Idle EXCEPT !.pc = "nudge", !.job = worker[s].job])
      BY <1>3 DEF Plain, Idle, Commit, Works
    <3> QED BY <1>3, <3>1, PlainMoves DEF Commit
  <2>4. JobsMatch'
    BY <2>3 DEF CheckpointInv, JobsMatch, PlainSlots, Plain, At
  <2>5. KeysHaveObjects'
    BY <1>3, <2>1, <2>2 DEF CheckpointInv, KeysHaveObjects, Commit, spaces
  <2>6. KeysMatchStatus'
    BY <2>2 DEF CheckpointInv, KeysMatchStatus
  <2>7. Staged'
    BY <1>3, <2>2, <2>3 DEF CheckpointInv, Staged, PlainSlots, Plain, At, Commit, spaces
  <2> QED BY <1>3, <2>4, <2>5, <2>6, <2>7
          DEF CheckpointInv, ResultsWhole, Commit, spaces
<1> QED BY <1>1, <1>2, <1>3

LEMMA CheckpointPublishes ==
    ASSUME TypeOK, CheckpointInv, NEW s \in Slots
    PROVE  /\ Concatenate(s) => CheckpointInv'
           /\ Publish(s) => CheckpointInv'
           /\ Notify(s) => CheckpointInv'
<1>1. ASSUME Concatenate(s) PROVE CheckpointInv'
  <2>1. \A c \in Chunks : results'[c] # NoObject
    BY <1>1 DEF Concatenate, CheckpointInv, Staged, KeysHaveObjects
  <2>2. /\ worker'[s].pc = "publish" /\ worker'[s].job = worker[s].job
        /\ \A t \in Slots : t # s => worker'[t] = worker[t]
    BY <1>1 DEF Concatenate, Goto, TypeOK, Idle
  <2>3. JobsMatch'
    BY <1>1, <2>2 DEF Concatenate, CheckpointInv, JobsMatch, At, ProcessPC, Tried
  <2>4. Staged'
    BY <1>1, <2>1, <2>2 DEF CheckpointInv, Staged, At, Concatenate, tables
  <2> QED BY <1>1, <2>1, <2>3, <2>4 DEF CheckpointInv, KeysHaveObjects,
             KeysMatchStatus, ResultsWhole, Concatenate, tables
<1>2. ASSUME Publish(s) PROVE CheckpointInv'
  <2>1. batch'.results_key /\ \A c \in Chunks : results[c] # NoObject
    BY <1>2 DEF Publish, CheckpointInv, Staged
  <2>2. /\ worker'[s].pc = "notify"
        /\ \A t \in Slots : t # s => worker'[t] = worker[t]
    BY <1>2 DEF Publish, Goto, TypeOK, Idle
  <2>3. JobsMatch'
    BY <2>2 DEF CheckpointInv, JobsMatch, At, ProcessPC, Tried
  <2>4. Staged'
    BY <1>2, <2>1, <2>2 DEF CheckpointInv, Staged, At, Publish, spaces
  <2> QED BY <1>2, <2>1, <2>3, <2>4 DEF CheckpointInv, KeysHaveObjects,
             KeysMatchStatus, ResultsWhole, Publish, spaces
<1>3. ASSUME Notify(s) PROVE CheckpointInv'
  <2>1. "batch.completed" \in notified' => batch.results_key
    BY <1>3 DEF Notify, EventOf, CheckpointInv, Staged, ResultsWhole, At
  <2>2. PlainSlots
    BY <1>3, PlainMoves DEF Notify
  <2>3. JobsMatch'
    BY <2>2 DEF CheckpointInv, JobsMatch, PlainSlots, Plain, At
  <2>4. Staged'
    BY <1>3, <2>2 DEF CheckpointInv, Staged, PlainSlots, Plain, At, Notify, tables, spaces
  <2> QED BY <1>3, <2>1, <2>3, <2>4 DEF CheckpointInv, KeysHaveObjects,
             KeysMatchStatus, ResultsWhole, Notify, tables, spaces
<1> QED BY <1>1, <1>2, <1>3

(* The checkpoint invariant holds in every state, for any number of        *)
(* chunks, slots and faults.                                               *)
THEOREM CheckpointInvariant == Spec => []CheckpointInv
<1>1. TypeOK /\ CheckpointInv /\ [Next]_vars => CheckpointInv'
  <2> SUFFICES ASSUME TypeOK, CheckpointInv, [Next]_vars PROVE CheckpointInv'
    OBVIOUS
  <2>1. ASSUME NEW s \in Slots, Step(s) PROVE CheckpointInv'
    BY <2>1, PlainControl, PlainProcess, PlainPreserves, CheckpointWrites,
       CheckpointPublishes DEF Step, ProcessChunk
  <2>2. ASSUME NEW s \in Slots, NEW j \in Job, Take(s, j) PROVE CheckpointInv'
    BY <2>2, CheckpointTakes
  <2>3. CASE CronReclaim \/ (\E c \in Chunks : ExpireLease(c))
             \/ Replay \/ CancelRead \/ CancelCommit
    BY <2>3, PlainEnvironment, PlainPreserves
  <2>4. CASE Fault
    BY <2>4, PlainEnvironment, PlainProcess, PlainPreserves DEF Fault
  <2>5. CASE UNCHANGED vars
    <3>1. PlainStep
      BY <2>5 DEF vars, PlainStep, PlainBatch, PlainSlots, PlainRows, spaces
    <3> QED BY <3>1, PlainPreserves
  <2> QED BY <2>1, <2>2, <2>3, <2>4, <2>5 DEF Next
<1> QED BY CheckpointInit, TypeCorrect, <1>1, PTL DEF Spec

(* design.md's promise for a worker crash: whatever dies, races or is      *)
(* delivered twice, a chunk recorded as succeeded has its checkpoint.      *)
THEOREM CheckpointSafe == Spec => []CheckpointBeforeSuccess
<1>1. CheckpointInv => CheckpointBeforeSuccess
  BY DEF CheckpointInv, KeysHaveObjects, KeysMatchStatus, CheckpointBeforeSuccess
<1> QED BY CheckpointInvariant, <1>1, PTL

(* No reader of results_key, of a completed batch or of the webhook        *)
(* batch.completed is sent to results that miss a chunk.                   *)
THEOREM ResultsSafe == Spec => []ResultsWhole
<1>1. CheckpointInv => ResultsWhole
  BY DEF CheckpointInv
<1> QED BY CheckpointInvariant, <1>1, PTL

----------------------------------------------------------------------------
(* Progress                                                                *)

(* What a recompute writes is earned by the chunks it saw succeeded: its   *)
(* sums count their lines, and failed ones among these.                    *)
LEMMA RecomputedEarned ==
    ASSUME NEW rows, NEW S, IsFiniteSet(S), WithStatus(rows, {"succeeded"}) \subseteq S
    PROVE  EarnedBy(Recomputed(rows), S)
<1> DEFINE all == S \X (1 .. ChunkItems)
<1>1. IsFiniteSet(1 .. ChunkItems) /\ Cardinality(1 .. ChunkItems) = ChunkItems
  BY ItemsAssumption, FS_Interval
<1>2. /\ IsFiniteSet(all)
      /\ Cardinality(all) = Cardinality(S) * Cardinality(1 .. ChunkItems)
  BY <1>1, FS_Product
<1>3. DoneLines(rows) \subseteq all
  BY DEF DoneLines
<1> HIDE DEF all
<1>4. /\ IsFiniteSet(DoneLines(rows))
      /\ Cardinality(DoneLines(rows)) <= Cardinality(all)
  BY <1>2, <1>3, FS_Subset
<1>5. FailedLines(rows) \subseteq DoneLines(rows)
  BY DEF FailedLines
<1>6. Cardinality(FailedLines(rows)) <= Cardinality(DoneLines(rows))
  BY <1>4, <1>5, FS_Subset
<1>7. Cardinality(S) \in Nat
  BY FS_CardinalityType
<1>8. Cardinality(all) = ChunkItems * Cardinality(S)
  BY <1>1, <1>2, <1>7, ItemsAssumption
<1> QED BY <1>4, <1>6, <1>8 DEF EarnedBy, Recomputed

(* Counters that are earned, and so are those that a success path has      *)
(* computed and not committed yet, if its own chunk is counted in.         *)
ProgressInv ==
    /\ ProgressEarned
    /\ \A s \in Slots : EarnedBy(worker[s].tally, Done \cup {worker[s].job})

LEMMA DoneFinite ==
    /\ IsFiniteSet(Done) /\ Cardinality(Done) \in Nat
    /\ \A x : IsFiniteSet(Done \cup {x})
<1>1. IsFiniteSet(Done)
  BY ChunksAssumption, FS_Subset DEF Done
<1> QED BY <1>1, FS_CardinalityType, FS_AddElement

LEMMA NothingEarned ==
    ASSUME NEW S, IsFiniteSet(S)
    PROVE  EarnedBy(NoProgress, S)
<1>1. Cardinality(S) \in Nat
  BY FS_CardinalityType
<1> QED BY <1>1, ItemsAssumption DEF EarnedBy, NoProgress

(* What is earned stays earned when more chunks are done.                  *)
LEMMA EarnedMore ==
    ASSUME NEW p \in Progress, NEW S, NEW T, S \subseteq T, IsFiniteSet(T),
           EarnedBy(p, S)
    PROVE  EarnedBy(p, T)
<1>1. Cardinality(S) <= Cardinality(T) /\ IsFiniteSet(S)
  BY FS_Subset
<1>2. Cardinality(S) \in Nat /\ Cardinality(T) \in Nat
  BY <1>1, FS_CardinalityType
<1>3. ChunkItems * Cardinality(S) <= ChunkItems * Cardinality(T)
  BY <1>1, <1>2, ItemsAssumption
<1>4. p.completed_items \in Nat
  BY DEF Progress
<1> QED BY <1>2, <1>3, <1>4, ItemsAssumption DEF EarnedBy

(* Only a commit stores a key or marks a chunk succeeded.                  *)
LEMMA RowsMove ==
    ASSUME TypeOK, CheckpointInv, [Next]_vars,
           ~\E s \in Slots, c \in Chunks : Commit(s, c)
    PROVE  PlainRows
<1>1. ASSUME UNCHANGED chunk PROVE PlainRows
  BY <1>1 DEF PlainRows
<1>2. ASSUME NEW s \in Slots, Step(s) PROVE PlainRows
  <2>1. ASSUME NEW c \in Chunks, ProcessChunk(s, c) PROVE PlainRows
    BY <1>1, <2>1, PlainProcess DEF ProcessChunk, Infer, Flush, tables, PlainStep
  <2>2. CASE ~\E c \in Chunks : ProcessChunk(s, c)
    BY <1>1, <1>2, <2>2, PlainControl
       DEF Step, Concatenate, Publish, Notify, tables, PlainStep
  <2> QED BY <2>1, <2>2
<1>3. CASE ~\E s \in Slots : Step(s)
  BY <1>1, <1>3, PlainEnvironment, PlainProcess
     DEF Next, Take, Begin, Ignore, Fault, tables, vars, PlainStep
<1> QED BY <1>2, <1>3

LEMMA CommitMoves ==
    ASSUME TypeOK, NEW s \in Slots, NEW c \in Chunks, Commit(s, c)
    PROVE  /\ worker[s].pc = "commit" /\ worker[s].job = c
           /\ progress' = worker[s].tally
           /\ chunk'[c].status = "succeeded"
           /\ \A d \in Chunks : d # c => chunk'[d] = chunk[d]
           /\ Done' = Done \cup {c}
<1>1. /\ chunk'[c].result_key /\ chunk'[c].status = "succeeded"
      /\ \A d \in Chunks : d # c => chunk'[d] = chunk[d]
  BY DEF Commit, Succeeded, TypeOK, ChunkRow
<1>2. Done' = Done \cup {c}
  BY <1>1 DEF Done
<1> QED BY <1>1, <1>2 DEF Commit, Works, At

(* No step takes a key back.                                               *)
LEMMA KeysStay ==
    ASSUME TypeOK, CheckpointInv, [Next]_vars
    PROVE  Done \subseteq Done'
<1>1. CASE \E s \in Slots, c \in Chunks : Commit(s, c)
  BY <1>1, CommitMoves
<1>2. CASE ~\E s \in Slots, c \in Chunks : Commit(s, c)
  BY <1>2, RowsMove DEF PlainRows, Done
<1> QED BY <1>1, <1>2

(* Only a commit changes what is counted as completed or failed.           *)
LEMMA ProgressMoves ==
    ASSUME TypeOK, [Next]_vars, ~\E s \in Slots, c \in Chunks : Commit(s, c)
    PROVE  /\ progress'.completed_items = progress.completed_items
           /\ progress'.failed_items = progress.failed_items
<1>1. ASSUME NEW s \in Slots, NEW c \in Chunks, ProcessChunk(s, c), ~LeaseChunk(s, c)
      PROVE  UNCHANGED progress
  BY <1>1 DEF ProcessChunk, CheckCancelled, ReleaseCancelled, Infer, Flush,
              RetryChunk, FailBatch, AbandonChunk, tables
<1>2. ASSUME NEW s \in Slots, NEW c \in Chunks, LeaseChunk(s, c)
      PROVE  /\ progress'.completed_items = progress.completed_items
             /\ progress'.failed_items = progress.failed_items
  BY <1>2 DEF LeaseChunk, TypeOK, Progress
<1>3. ASSUME NEW s \in Slots, Step(s), ~\E c \in Chunks : ProcessChunk(s, c)
      PROVE  UNCHANGED progress
  BY <1>3 DEF Step, Orchestrate, Fanout, Reclaim, Count, FailCounted, Requeue,
              RequeueCommit, Concatenate, Publish, HandOff, Notify, tables
<1>4. CASE ~\E s \in Slots : Step(s)
  BY <1>4 DEF Next, Take, Begin, Ignore, Fault, Raise, Crash, Drop,
     RestartRedis, OutliveLease, CronReclaim, ExpireLease, Replay,
     CancelRead, CancelCommit, tables, vars
<1> QED BY <1>1, <1>2, <1>3, <1>4

(* Only Flush computes a tally; every other step clears it, or keeps it    *)
(* with the job.                                                           *)
LEMMA TallyKept ==
    ASSUME TypeOK, [Next]_vars, NEW t \in Slots
    PROVE  \/ worker'[t].tally = NoProgress
           \/ worker'[t].tally = worker[t].tally /\ worker'[t].job = worker[t].job
           \/ \E c \in Chunks :
                /\ Flush(t, c) /\ worker'[t].job = c
                /\ worker'[t].tally = Recomputed(
                     [chunk EXCEPT ![c] = Succeeded(@, worker[t].failures)])
<1> DEFINE Kept == \/ worker'[t].tally = NoProgress
                   \/ worker'[t].tally = worker[t].tally /\ worker'[t].job = worker[t].job
<1>0. \A s \in Slots : worker[s] \in SlotState
  BY DEF TypeOK
<1>1. ASSUME NEW s \in Slots, Return(s) \/ \E pc : Goto(s, pc) PROVE Kept
  <2>1. CASE Return(s)
    BY <2>1 DEF Return, Idle, TypeOK
  <2>2. ASSUME NEW pc, Goto(s, pc) PROVE Kept
    <3>1. worker' = [worker EXCEPT ![s] = [Idle EXCEPT !.pc = pc, !.job = worker[s].job]]
      BY <2>2 DEF Goto
    <3>2. [Idle EXCEPT !.pc = pc, !.job = worker[s].job].tally = NoProgress
      BY DEF Idle
    <3> QED BY <3>1, <3>2 DEF TypeOK
  <2> QED BY <1>1, <2>1, <2>2
<1>2. ASSUME NEW s \in Slots, NEW out, NEW lapsed, StartFanout(s, out, lapsed)
      PROVE  Kept
  <2> DEFINE w == [Idle EXCEPT !.pc = IF out = {} THEN "rearm" ELSE "fanout",
                     !.job = worker[s].job, !.out = out, !.lapsed = lapsed]
  <2>1. w.tally = NoProgress
    BY DEF Idle
  <2>2. worker' = [worker EXCEPT ![s] = w]
    BY <1>2 DEF StartFanout
  <2> HIDE DEF w
  <2> QED BY <2>1, <2>2 DEF TypeOK
<1>3. ASSUME NEW s \in Slots, HandOff(s) \/ Notify(s) \/ Crash(s) \/ Drop(s) PROVE Kept
  BY <1>1, <1>3 DEF HandOff, Notify, Crash, Drop
<1>4. ASSUME NEW s \in Slots, Fanout(s) PROVE Kept
  <2>1. PICK c \in worker[s].out :
          worker' = [worker EXCEPT ![s].out = worker[s].out \ {c},
                                   ![s].pc = IF worker[s].out \ {c} = {}
                                             THEN AfterFanout(worker[s])
                                             ELSE "fanout"]
    BY <1>4 DEF Fanout
  <2> QED BY <1>0, <2>1 DEF TypeOK, SlotState
<1>5. ASSUME NEW s \in Slots, NEW j \in Job, Take(s, j) PROVE Kept
  <2>1. CASE Ignore(s, j)
    BY <2>1 DEF Ignore
  <2>2. CASE Begin(s, j)
    BY <2>2 DEF Begin, Idle, TypeOK
  <2> QED BY <1>5, <2>1, <2>2 DEF Take
<1>6. ASSUME NEW s \in Slots, Orchestrate(s) \/ Requeue(s) PROVE Kept
  BY <1>2, <1>6 DEF Orchestrate, Requeue
<1>7. ASSUME NEW s \in Slots,
             \/ Count(s) \/ FailCounted(s) \/ RequeueCommit(s)
             \/ Concatenate(s) \/ Publish(s)
      PROVE  Kept
  BY <1>1, <1>7 DEF Count, FailCounted, RequeueCommit, Concatenate, Publish
<1>r. ASSUME NEW s \in Slots, Reclaim(s) PROVE Kept
  BY <1>0, <1>r DEF Reclaim, TypeOK, SlotState
<1>8. ASSUME NEW s \in Slots, NEW c \in Chunks,
             \/ LeaseChunk(s, c) \/ CheckCancelled(s, c) \/ ReleaseCancelled(s, c)
             \/ Commit(s, c) \/ RetryChunk(s, c) \/ FailBatch(s, c) \/ AbandonChunk(s, c)
      PROVE  Kept
  BY <1>1, <1>8 DEF LeaseChunk, CheckCancelled, ReleaseCancelled, Commit,
                    RetryChunk, FailBatch, AbandonChunk
<1>9. ASSUME NEW s \in Slots, NEW c \in Chunks, Infer(s, c) PROVE Kept
  BY <1>0, <1>9 DEF Infer, TypeOK, SlotState
<1>10. ASSUME NEW s \in Slots, NEW c \in Chunks, Raise(s, c) PROVE Kept
  BY <1>10 DEF Raise, Idle, TypeOK
<1>11. ASSUME NEW s \in Slots, NEW c \in Chunks, Flush(s, c)
       PROVE  \/ Kept
              \/ /\ Flush(t, c) /\ worker'[t].job = c
                 /\ worker'[t].tally = Recomputed(
                      [chunk EXCEPT ![c] = Succeeded(@, worker[t].failures)])
  <2>1. CASE t = s
    <3>1. worker[t].job = c
      BY <1>11, <2>1 DEF Flush, Works
    <3>2. /\ worker'[t].job = worker[t].job
          /\ worker'[t].tally = Recomputed(
               [chunk EXCEPT ![c] = Succeeded(@, worker[t].failures)])
      BY <1>0, <1>11, <2>1 DEF Flush, TypeOK, SlotState
    <3> QED BY <1>11, <2>1, <3>1, <3>2
  <2>2. CASE t # s
    BY <1>11, <2>2 DEF Flush, TypeOK
  <2> QED BY <2>1, <2>2
<1>12. ASSUME UNCHANGED worker PROVE Kept
  BY <1>12
<1> QED
  BY <1>3, <1>4, <1>5, <1>6, <1>7, <1>r, <1>8, <1>9, <1>10, <1>11, <1>12
     DEF Next, Step, ProcessChunk, Fault, CronReclaim, ExpireLease, OutliveLease,
         Replay, CancelRead, CancelCommit, RestartRedis, vars

(* The progress the API reports counts only chunks whose results are       *)
(* recorded, for any number of racing leases and repeated success paths.   *)
THEOREM ProgressSafe == Spec => []ProgressEarned
<1>1. Init => ProgressInv
  <2> SUFFICES ASSUME Init PROVE ProgressInv
    OBVIOUS
  <2>1. progress = NoProgress /\ \A s \in Slots : worker[s].tally = NoProgress
    BY DEF Init, Idle
  <2>2. \A S : IsFiniteSet(S) => EarnedBy(NoProgress, S)
    BY NothingEarned
  <2> QED BY <2>1, <2>2, DoneFinite DEF ProgressInv, ProgressEarned
<1>2. TypeOK /\ TypeOK' /\ CheckpointInv /\ ProgressInv /\ [Next]_vars => ProgressInv'
  <2> SUFFICES ASSUME TypeOK, TypeOK', CheckpointInv, ProgressInv, [Next]_vars
               PROVE  ProgressInv'
    OBVIOUS
  <2>0. /\ Done \subseteq Done'
        /\ IsFiniteSet(Done') /\ \A x : IsFiniteSet(Done' \cup {x})
    <3>1. IsFiniteSet(Done')
      BY ChunksAssumption, FS_Subset DEF Done
    <3> QED BY <3>1, KeysStay, FS_AddElement
  <2>1. ASSUME NEW t \in Slots
        PROVE  EarnedBy(worker'[t].tally, Done' \cup {worker'[t].job})
    <3>1. CASE worker'[t].tally = NoProgress
      BY <2>0, <3>1, NothingEarned
    <3>2. CASE worker'[t].tally = worker[t].tally /\ worker'[t].job = worker[t].job
      <4>1. worker[t].tally \in Progress
        BY DEF TypeOK, SlotState
      <4>2. EarnedBy(worker[t].tally, Done \cup {worker[t].job})
        BY DEF ProgressInv
      <4>3. Done \cup {worker[t].job} \subseteq Done' \cup {worker[t].job}
        BY <2>0
      <4>4. EarnedBy(worker[t].tally, Done' \cup {worker[t].job})
        BY <2>0, <4>1, <4>2, <4>3, EarnedMore
      <4> QED BY <3>2, <4>4
    <3>3. ASSUME NEW c \in Chunks, Flush(t, c), worker'[t].job = c,
                 worker'[t].tally = Recomputed(
                   [chunk EXCEPT ![c] = Succeeded(@, worker[t].failures)])
          PROVE  EarnedBy(worker'[t].tally, Done' \cup {worker'[t].job})
      <4> DEFINE rows == [chunk EXCEPT ![c] = Succeeded(@, worker[t].failures)]
      <4>1. \A d \in Chunks : rows[d].status = "succeeded" => d \in Done \cup {c}
        BY DEF TypeOK, CheckpointInv, KeysMatchStatus, Done
      <4>2. WithStatus(rows, {"succeeded"}) \subseteq Done' \cup {c}
        BY <2>0, <4>1 DEF WithStatus
      <4> HIDE DEF rows
      <4>3. worker'[t].tally = Recomputed(rows)
        BY <3>3 DEF rows
      <4> QED BY <2>0, <3>3, <4>2, <4>3, RecomputedEarned
    <3> QED BY <3>1, <3>2, <3>3, TallyKept
  <2>2. ProgressEarned'
    <3>1. CASE \E s \in Slots, c \in Chunks : Commit(s, c)
      <4>1. PICK s \in Slots, c \in Chunks : Commit(s, c)
        BY <3>1
      <4>2. progress' = worker[s].tally /\ worker[s].job = c /\ Done' = Done \cup {c}
        BY <4>1, CommitMoves
      <4> QED BY <4>2 DEF ProgressInv, ProgressEarned
    <3>2. CASE ~\E s \in Slots, c \in Chunks : Commit(s, c)
      <4>1. EarnedBy(progress, Done')
        BY <2>0, EarnedMore DEF TypeOK, ProgressInv, ProgressEarned
      <4> QED BY <3>2, <4>1, ProgressMoves DEF EarnedBy, ProgressEarned
    <3> QED BY <3>1, <3>2
  <2> QED BY <2>1, <2>2 DEF ProgressInv
<1>3. ProgressInv => ProgressEarned
  BY DEF ProgressInv
<1> QED BY TypeCorrect, CheckpointInvariant, <1>1, <1>2, <1>3, PTL DEF Spec

(* The race that lets a completed batch report too few items takes two     *)
(* success paths between their sums and their commits at once.             *)
OneSuccess ==
    \A s, t \in Slots : At(s, "commit") /\ At(t, "commit") => s = t

AllCounted(p) == p.completed_items = ChunkItems * Cardinality(Chunks)
CountsCurrent == AllSucceeded => AllCounted(progress)

(* A sum that is about to be written counts every chunk, if all but its    *)
(* own are recorded.                                                       *)
CountInv ==
    /\ CountsCurrent
    /\ \A s \in Slots :
         /\ At(s, "commit")
         /\ \A c \in Chunks : c # worker[s].job => chunk[c].status = "succeeded"
         => AllCounted(worker[s].tally)

LEMMA RecomputedAll ==
    ASSUME NEW rows, WithStatus(rows, {"succeeded"}) = Chunks
    PROVE  AllCounted(Recomputed(rows))
<1>1. IsFiniteSet(1 .. ChunkItems) /\ Cardinality(1 .. ChunkItems) = ChunkItems
  BY ItemsAssumption, FS_Interval
<1>2. Cardinality(Chunks \X (1 .. ChunkItems))
        = Cardinality(Chunks) * Cardinality(1 .. ChunkItems)
  BY <1>1, ChunksAssumption, FS_Product
<1>3. Cardinality(Chunks) \in Nat
  BY ChunksAssumption, FS_CardinalityType
<1>4. DoneLines(rows) = Chunks \X (1 .. ChunkItems)
  BY DEF DoneLines
<1>5. Cardinality(DoneLines(rows)) = Cardinality(Chunks) * ChunkItems
  BY <1>1, <1>2, <1>4
<1>6. Cardinality(DoneLines(rows)) = ChunkItems * Cardinality(Chunks)
  BY <1>3, <1>5, ItemsAssumption
<1> QED BY <1>6 DEF AllCounted, Recomputed

(* Only a flush brings a slot before its commit.                           *)
LEMMA CommitReached ==
    ASSUME TypeOK, CheckpointInv, [Next]_vars, NEW t \in Slots, At(t, "commit")'
    PROVE  worker'[t] = worker[t] \/ \E c \in Chunks : Flush(t, c)
<1>0. \A s \in Slots : worker[s] \in SlotState
  BY DEF TypeOK
<1>1. ASSUME PlainSlots PROVE worker'[t] = worker[t]
  BY <1>1 DEF PlainSlots, Plain, At
<1>2. ASSUME NEW s \in Slots, Step(s)
      PROVE  worker'[t] = worker[t] \/ \E c \in Chunks : Flush(t, c)
  <2>1. ASSUME NEW c \in Chunks, Infer(s, c) PROVE worker'[t] = worker[t]
    BY <1>0, <2>1 DEF Infer, TypeOK, SlotState, At
  <2>2. ASSUME NEW c \in Chunks, Flush(s, c), s # t PROVE worker'[t] = worker[t]
    BY <2>2 DEF Flush, TypeOK
  <2>3. ASSUME NEW pc, pc # "commit", Goto(s, pc) PROVE worker'[t] = worker[t]
    BY <2>3 DEF Goto, Idle, TypeOK, At
  <2>4. ASSUME Return(s) PROVE worker'[t] = worker[t]
    BY <2>4 DEF Return, Idle, TypeOK, At
  <2>5. ASSUME NEW c \in Chunks, ProcessChunk(s, c)
        PROVE  worker'[t] = worker[t] \/ \E d \in Chunks : Flush(t, d)
    BY <1>1, <2>1, <2>2, <2>3, <2>5, PlainProcess DEF ProcessChunk, Commit, PlainStep
  <2>6. CASE ~\E c \in Chunks : ProcessChunk(s, c)
    BY <1>1, <1>2, <2>3, <2>4, <2>6, PlainControl
       DEF Step, Concatenate, Publish, Notify, PlainStep
  <2> QED BY <2>5, <2>6
<1>3. ASSUME NEW s \in Slots, NEW j \in Job, Take(s, j) PROVE worker'[t] = worker[t]
  <2>1. CASE Ignore(s, j)
    BY <2>1 DEF Ignore
  <2>2. CASE Begin(s, j)
    <3>1. /\ worker'[s].pc = FirstPC(j)
          /\ \A r \in Slots : r # s => worker'[r] = worker[r]
      BY <2>2 DEF Begin, Idle, TypeOK
    <3>2. FirstPC(j) # "commit"
      BY DEF FirstPC
    <3> QED BY <3>1, <3>2 DEF At
  <2> QED BY <1>3, <2>1, <2>2 DEF Take
<1>4. CASE ~\E s \in Slots : Step(s) \/ \E j \in Job : Take(s, j)
  BY <1>1, <1>4, PlainEnvironment, PlainProcess DEF Next, Fault, vars, PlainStep
<1> QED BY <1>2, <1>3, <1>4

(* docs/design.md:302 of the recompute: while no two success paths stand   *)
(* between their sums and their commits at once, the counters of a batch   *)
(* whose chunks are all recorded as succeeded are those of the whole       *)
(* batch, whatever leases are lost, chunks demoted or jobs delivered       *)
(* twice.                                                                  *)
THEOREM CountedUnlessRaced == Spec /\ []OneSuccess => []CountsCurrent
<1>1. Init => CountInv
  <2> SUFFICES ASSUME Init PROVE CountInv
    OBVIOUS
  <2>1. ~AllSucceeded
    BY ChunksAssumption DEF Init, AllSucceeded, NoRow
  <2>2. \A s \in Slots : ~At(s, "commit")
    BY DEF Init, At, Idle
  <2> QED BY <2>1, <2>2 DEF CountInv, CountsCurrent
<1>2. TypeOK /\ CheckpointInv /\ OneSuccess /\ CountInv /\ [Next]_vars => CountInv'
  <2> SUFFICES ASSUME TypeOK, CheckpointInv, OneSuccess, CountInv, [Next]_vars
               PROVE  CountInv'
    OBVIOUS
  <2>1. CASE \E s \in Slots, c \in Chunks : Commit(s, c)
    <3>1. PICK s \in Slots, c \in Chunks : Commit(s, c)
      BY <2>1
    <3>2. /\ worker[s].pc = "commit" /\ worker[s].job = c
          /\ progress' = worker[s].tally
          /\ \A d \in Chunks : d # c => chunk'[d] = chunk[d]
      BY <3>1, CommitMoves
    <3>3. CountsCurrent'
      BY <3>2 DEF CountsCurrent, AllSucceeded, CountInv, AllCounted, At
    <3>4. \A t \in Slots : ~At(t, "commit")'
      BY <3>1, <3>2 DEF Commit, Goto, Idle, TypeOK, OneSuccess, At
    <3> QED BY <3>3, <3>4 DEF CountInv
  <2>2. CASE ~\E s \in Slots, c \in Chunks : Commit(s, c)
    <3>1. \A d \in Chunks : chunk'[d].status = "succeeded" => chunk[d].status = "succeeded"
      BY <2>2, RowsMove DEF PlainRows
    <3>2. CountsCurrent'
      BY <2>2, <3>1, ProgressMoves DEF CountInv, CountsCurrent, AllSucceeded, AllCounted
    <3>3. ASSUME NEW t \in Slots, At(t, "commit")',
                 \A d \in Chunks : d # worker'[t].job => chunk'[d].status = "succeeded"
          PROVE  AllCounted(worker'[t].tally)
      <4>1. CASE worker'[t] = worker[t]
        BY <3>1, <3>3, <4>1 DEF CountInv, At
      <4>2. ASSUME NEW c \in Chunks, Flush(t, c) PROVE AllCounted(worker'[t].tally)
        <5> DEFINE rows == [chunk EXCEPT ![c] = Succeeded(@, worker[t].failures)]
        <5>1. worker'[t].tally = Recomputed(rows) /\ worker'[t].job = c
          BY <4>2 DEF Flush, Works, TypeOK, SlotState
        <5>2. \A d \in Chunks : rows[d].status = "succeeded"
          BY <3>1, <3>3, <5>1 DEF Succeeded, TypeOK, ChunkRow
        <5>3. WithStatus(rows, {"succeeded"}) = Chunks
          BY <5>2 DEF WithStatus
        <5> HIDE DEF rows
        <5> QED BY <5>1, <5>3, RecomputedAll
      <4> QED BY <3>3, <4>1, <4>2, CommitReached
    <3> QED BY <3>2, <3>3 DEF CountInv
  <2> QED BY <2>1, <2>2
<1>3. CountInv => CountsCurrent
  BY DEF CountInv
<1> QED BY TypeCorrect, CheckpointInvariant, <1>1, <1>2, <1>3, PTL DEF Spec

----------------------------------------------------------------------------
(* Recovery                                                                *)

ArmedSlot(w) == w.job \in ControlJob /\ w.pc # "notify"

(* Faults only ever use up their budget; the chain of checks is intact.    *)
RecoveryInv ==
    /\ \A f \in Faults : left[f] <= Budget[f]
    /\ RecoveryArmed

(* A step that takes no control job away and disarms no slot.              *)
KeepsArmed ==
    /\ \A j \in ControlJob : queue[j] > 0 => queue'[j] > 0
    /\ \A t \in Slots : ArmedSlot(worker[t]) => ArmedSlot(worker'[t])

LEMMA ArmedKept ==
    ASSUME Armed, KeepsArmed
    PROVE  Armed'
BY DEF Armed, KeepsArmed, ArmedSlot, At

LEMMA EnqueueKeeps ==
    ASSUME TypeOK, NEW j, Enqueue(j)
    PROVE  /\ \A k \in ControlJob : queue[k] > 0 => queue'[k] > 0
           /\ j \in Job => queue'[j] > 0
BY BoundsAssumption DEF TypeOK, Enqueue, Plus, Job

(* The budgets never grow, so a lost job stays on record.                  *)
LEMMA BudgetKept ==
    ASSUME TypeOK, \A f \in Faults : left[f] <= Budget[f], [Next]_vars
    PROVE  /\ \A f \in Faults : left'[f] <= Budget[f]
           /\ NoJobLost' => NoJobLost
           /\ NoReplay' => NoReplay /\ ~Replay
           /\ RestartRedis \/ (\E s \in Slots : Drop(s)) => ~NoJobLost'
<1>0. /\ left \in [Faults -> Nat] /\ Budget \in [Faults -> Nat]
      /\ "drop" \in Faults /\ "redis" \in Faults /\ "replay" \in Faults
  BY BoundsAssumption DEF TypeOK, Faults
<1>1. ASSUME NEW f \in Faults, Spend(f)
      PROVE  /\ \A g \in Faults : left'[g] <= left[g]
             /\ left'[f] < left[f]
  BY <1>0, <1>1 DEF Spend
<1>2. UNCHANGED left \/ \E f \in Faults : Spend(f)
  <2>1. ASSUME NEW s \in Slots, Step(s) PROVE UNCHANGED left
    BY <2>1 DEF Step, ProcessChunk, Orchestrate, Fanout, LeaseChunk, CheckCancelled,
       ReleaseCancelled, Infer, Flush, Commit, RetryChunk, FailBatch, AbandonChunk,
       Reclaim, Count, FailCounted, Requeue, RequeueCommit, Concatenate, Publish,
       HandOff, Notify
  <2>2. ASSUME NEW s \in Slots, NEW j \in Job, Take(s, j) PROVE UNCHANGED left
    BY <2>2 DEF Take, Begin, Ignore
  <2>3. CASE CronReclaim \/ (\E c \in Chunks : ExpireLease(c)) \/ CancelCommit
             \/ UNCHANGED vars
    BY <2>3 DEF CronReclaim, ExpireLease, CancelCommit, vars
  <2>4. CASE Fault \/ Replay \/ CancelRead
    BY <2>4 DEF Fault, Crash, Drop, Raise, RestartRedis, OutliveLease, Replay,
       CancelRead, Faults
  <2> QED BY <2>1, <2>2, <2>3, <2>4 DEF Next
<1>3. \A g \in Faults : left'[g] <= left[g] /\ left'[g] \in Nat
  <2>1. left' \in [Faults -> Nat]
    BY <1>0, <1>2, SpendType
  <2> QED BY <1>0, <1>1, <1>2, <2>1
<1>4. NoJobLost' => NoJobLost
  BY <1>0, <1>3 DEF NoJobLost
<1>5. RestartRedis \/ (\E s \in Slots : Drop(s)) => ~NoJobLost'
  BY <1>0, <1>1, <1>3 DEF RestartRedis, Drop, NoJobLost
<1>6. \A g \in Faults : left'[g] <= Budget[g]
  BY <1>0, <1>3
<1>7. NoReplay' => NoReplay /\ ~Replay
  BY <1>0, <1>1, <1>3 DEF Replay, NoReplay
<1> QED BY <1>4, <1>5, <1>6, <1>7

(* A slot that processes a chunk is never the armed one.                   *)
LEMMA ChunkNotControl == \A c \in Chunks : c \notin ControlJob
BY JobsAssumption

LEMMA ArmedMoves ==
    ASSUME TypeOK, NEW s \in Slots
    PROVE  /\ worker[s].job \notin ControlJob /\ Return(s) =>
                \A t \in Slots : ArmedSlot(worker[t]) => ArmedSlot(worker'[t])
           /\ \A pc : Goto(s, pc) /\ (pc # "notify" \/ worker[s].job \notin ControlJob) =>
                \A t \in Slots : ArmedSlot(worker[t]) => ArmedSlot(worker'[t])
           /\ \A out, lapsed : StartFanout(s, out, lapsed) =>
                /\ \A t \in Slots : ArmedSlot(worker[t]) => ArmedSlot(worker'[t])
                /\ worker[s].job \in ControlJob => ArmedSlot(worker'[s])
<1>1. ASSUME worker[s].job \notin ControlJob, Return(s), NEW t \in Slots,
             ArmedSlot(worker[t])
      PROVE  ArmedSlot(worker'[t])
  BY <1>1 DEF ArmedSlot, Return, TypeOK
<1>2. ASSUME NEW pc, Goto(s, pc), pc # "notify" \/ worker[s].job \notin ControlJob,
             NEW t \in Slots, ArmedSlot(worker[t])
      PROVE  ArmedSlot(worker'[t])
  BY <1>2 DEF ArmedSlot, Goto, TypeOK, Idle
<1>3. ASSUME NEW out, NEW lapsed, StartFanout(s, out, lapsed)
      PROVE  /\ \A t \in Slots : ArmedSlot(worker[t]) => ArmedSlot(worker'[t])
             /\ worker[s].job \in ControlJob => ArmedSlot(worker'[s])
  <2> DEFINE w == [Idle EXCEPT !.pc = IF out = {} THEN "rearm" ELSE "fanout",
                     !.job = worker[s].job, !.out = out, !.lapsed = lapsed]
  <2>1. w.job = worker[s].job /\ w.pc # "notify"
    BY DEF Idle
  <2>2. worker' = [worker EXCEPT ![s] = w]
    BY <1>3 DEF StartFanout
  <2> HIDE DEF w
  <2> QED BY <2>1, <2>2 DEF ArmedSlot, TypeOK
<1> QED BY <1>1, <1>2, <1>3

(* Each step of a slot keeps the batch armed or ends it.                   *)
LEMMA StepKeepsArmed ==
    ASSUME TypeOK, CheckpointInv, NEW s \in Slots, Step(s),
           batch.status \notin Terminal => Armed, batch'.status \notin Terminal
    PROVE  Armed'
<1>q. ASSUME queue' = queue, Armed,
             \A t \in Slots : ArmedSlot(worker[t]) => ArmedSlot(worker'[t])
      PROVE  Armed'
  BY <1>q, ArmedKept DEF KeepsArmed
<1>1. CASE Orchestrate(s)
  <2>1. worker[s].job \in ControlJob
    BY <1>1 DEF Orchestrate, CheckpointInv, JobsMatch, ControlJob
  <2>2. ArmedSlot(worker'[s])
    BY <1>1, <2>1, ArmedMoves DEF Orchestrate
  <2> QED BY <2>2 DEF Armed, ArmedSlot, At
<1>2. CASE Fanout(s)
  <2>1. PICK c \in worker[s].out :
          /\ Enqueue(c)
          /\ worker' = [worker EXCEPT ![s].out = worker[s].out \ {c},
                                      ![s].pc = IF worker[s].out \ {c} = {}
                                                THEN AfterFanout(worker[s])
                                                ELSE "fanout"]
    BY <1>2 DEF Fanout
  <2>2. \A t \in Slots : ArmedSlot(worker[t]) => ArmedSlot(worker'[t])
    BY <2>1 DEF ArmedSlot, AfterFanout, TypeOK, SlotState
  <2>3. Armed
    BY <1>2 DEF Fanout, tables
  <2> QED BY <2>1, <2>2, <2>3, EnqueueKeeps, ArmedKept DEF KeepsArmed
<1>3. ASSUME NEW c \in Chunks, ProcessChunk(s, c) PROVE Armed'
  <2>1. worker[s].job \notin ControlJob
    BY <1>3, ChunkNotControl
       DEF ProcessChunk, LeaseChunk, CheckCancelled, ReleaseCancelled, Infer, Flush,
           Commit, RetryChunk, FailBatch, AbandonChunk, Works
  <2>2. queue' = queue
    BY <1>3 DEF ProcessChunk, LeaseChunk, CheckCancelled, ReleaseCancelled, Infer,
           Flush, Commit, RetryChunk, FailBatch, AbandonChunk
  <2>3. batch'.status = batch.status \/ FailBatch(s, c)
    BY <1>3 DEF ProcessChunk, LeaseChunk, CheckCancelled, ReleaseCancelled, Infer,
           Flush, Commit, RetryChunk, AbandonChunk, tables
  <2>4. Armed
    BY <2>3 DEF FailBatch, TypeOK, Terminal
  <2>5. CASE Infer(s, c) \/ Flush(s, c)
    <3>1. \A t \in Slots : t # s => worker'[t] = worker[t]
      BY <2>5 DEF Infer, Flush, TypeOK
    <3> QED BY <1>q, <2>1, <2>2, <2>4, <3>1 DEF ArmedSlot
  <2>6. CASE ~(Infer(s, c) \/ Flush(s, c))
    <3>1. Return(s) \/ \E pc : Goto(s, pc)
      BY <1>3, <2>6 DEF ProcessChunk, LeaseChunk, CheckCancelled, ReleaseCancelled,
             Commit, RetryChunk, FailBatch, AbandonChunk
    <3> QED BY <1>q, <2>1, <2>2, <2>4, <3>1, ArmedMoves
  <2> QED BY <2>5, <2>6
<1>4. CASE Reclaim(s)
  <2>1. \A t \in Slots : worker'[t].job = worker[t].job
                       /\ (worker'[t].pc = "notify" => worker[t].pc = "notify")
    BY <1>4 DEF Reclaim, TypeOK, SlotState
  <2>2. \A t \in Slots : ArmedSlot(worker[t]) => ArmedSlot(worker'[t])
    BY <2>1 DEF ArmedSlot
  <2> QED BY <1>4, <1>q, <2>2 DEF Reclaim, tables
<1>10. CASE Count(s)
  <2>1. \E pc : Goto(s, pc) /\ pc # "notify"
    BY <1>10 DEF Count
  <2> QED BY <1>10, <1>q, <2>1, ArmedMoves DEF Count
<1>11. CASE FailCounted(s)
  <2>1. batch'.status = "failed"
    BY <1>11 DEF FailCounted, TypeOK
  <2> QED BY <2>1 DEF Terminal
<1>5. CASE Requeue(s)
  BY <1>5, <1>q, ArmedMoves DEF Requeue, tables
<1>6. CASE RequeueCommit(s) \/ Concatenate(s)
  <2>1. /\ batch'.status = batch.status /\ queue' = queue
        /\ \E pc : Goto(s, pc) /\ pc # "notify"
    BY <1>6 DEF RequeueCommit, Concatenate, tables
  <2> QED BY <1>q, <2>1, ArmedMoves
<1>7. CASE Publish(s)
  BY <1>7 DEF Publish, Terminal
<1>8. CASE HandOff(s)
  <2>1. Armed
    BY <1>8 DEF HandOff, tables
  <2>2. CASE Enqueue("check_batch_completion") \/ Enqueue("finalize_batch")
    BY <2>2, EnqueueKeeps DEF Armed, Job, ControlJob
  <2>3. CASE At(s, "retry") /\ Enqueue(worker[s].job)
    <3>1. worker[s].job \notin ControlJob
      BY <2>3, ChunkNotControl DEF CheckpointInv, JobsMatch, At, ProcessPC
    <3>2. \A t \in Slots : ArmedSlot(worker[t]) => ArmedSlot(worker'[t])
      BY <1>8, <3>1, ArmedMoves DEF HandOff, Nudge, Rearm, StartFinalize, EnqueueRetry
    <3> QED BY <2>1, <2>3, <3>2, EnqueueKeeps, ArmedKept DEF KeepsArmed
  <2> QED BY <1>8, <2>2, <2>3 DEF HandOff, Nudge, Rearm, StartFinalize, EnqueueRetry
<1>9. CASE Notify(s)
  <2>1. Armed /\ queue' = queue
    BY <1>9 DEF Notify, tables
  <2>2. \A t \in Slots : ArmedSlot(worker[t]) => ArmedSlot(worker'[t])
    BY <1>9 DEF Notify, Return, ArmedSlot, At, TypeOK
  <2> QED BY <1>q, <2>1, <2>2
<1> QED BY <1>1, <1>2, <1>3, <1>4, <1>5, <1>6, <1>7, <1>8, <1>9, <1>10, <1>11 DEF Step

(* So does each job taken from the queue.                                  *)
LEMMA TakeKeepsArmed ==
    ASSUME TypeOK, CheckpointInv, NEW s \in Slots, NEW j \in Job, Take(s, j),
           batch.status \notin Terminal => Armed, batch'.status \notin Terminal
    PROVE  Armed'
<1>1. Armed /\ \A k \in Job : k # j => queue'[k] = queue[k]
  BY DEF Take, Begin, Ignore, Dequeue, tables, TypeOK
<1>2. CASE Begin(s, j)
  <2>1. /\ worker'[s].job = j /\ worker'[s].pc # "notify"
        /\ \A t \in Slots : t # s => worker'[t] = worker[t]
    BY <1>2 DEF Begin, TypeOK, Idle, FirstPC
  <2>2. \A t \in Slots : ArmedSlot(worker[t]) => ArmedSlot(worker'[t]) \/ t = s
    BY <2>1
  <2>3. CASE j \in ControlJob
    BY <2>1, <2>3 DEF Armed, At
  <2>4. CASE j \notin ControlJob
    <3>1. worker[s].job \notin ControlJob
      BY <1>2 DEF Begin, CheckpointInv, JobsMatch, ControlJob, NoJob
    <3> QED BY <1>1, <2>1, <2>4, <3>1 DEF Armed, At, Job
  <2> QED BY <2>3, <2>4
<1>3. CASE Ignore(s, j)
  <2>1. j \notin ControlJob
    BY <1>3, JobsAssumption DEF Ignore, Ignored, FinalizeIgnored,
       CompletionIgnored, OrchestrateIgnored, Terminal, tables, ControlJob
  <2> QED BY <1>1, <1>3, <2>1 DEF Armed, At, Ignore, Job
<1> QED BY <1>2, <1>3 DEF Take

(* design.md:322 for every instance: as long as no job is lost, whatever   *)
(* crashes, races or is cancelled and revived, an unfinished batch has a   *)
(* control job that will look at it again.                                 *)
THEOREM RecoverySafe == Spec => []RecoveryArmed
<1>1. Init => RecoveryInv
  <2> SUFFICES ASSUME Init PROVE RecoveryInv
    OBVIOUS
  <2>1. \A f \in Faults : left[f] <= Budget[f]
    BY BoundsAssumption DEF Init
  <2>2. queue["orchestrate_batch"] > 0
    BY DEF Init, Job, ControlJob
  <2> QED BY <2>1, <2>2 DEF RecoveryInv, RecoveryArmed, Armed, ControlJob
<1>2. TypeOK /\ CheckpointInv /\ RecoveryInv /\ [Next]_vars => RecoveryInv'
  <2> SUFFICES ASSUME TypeOK, CheckpointInv, RecoveryInv, [Next]_vars
               PROVE  RecoveryInv'
    OBVIOUS
  <2>1. /\ \A f \in Faults : left'[f] <= Budget[f]
        /\ NoJobLost' => NoJobLost
        /\ RestartRedis \/ (\E s \in Slots : Drop(s)) => ~NoJobLost'
    BY BudgetKept DEF RecoveryInv
  <2>2. ASSUME NoJobLost', batch'.status \notin Terminal PROVE Armed'
    <3>0. batch.status \notin Terminal => Armed
      BY <2>1, <2>2 DEF RecoveryInv, RecoveryArmed
    <3>q. ASSUME queue' = queue, worker' = worker, batch' = batch PROVE Armed'
      BY <2>2, <3>0, <3>q DEF Armed, At
    <3>1. ASSUME NEW s \in Slots, Step(s) PROVE Armed'
      BY <2>2, <3>0, <3>1, StepKeepsArmed
    <3>2. ASSUME NEW s \in Slots, NEW j \in Job, Take(s, j) PROVE Armed'
      BY <2>2, <3>0, <3>2, TakeKeepsArmed
    <3>3. CASE CronReclaim \/ (\E c \in Chunks : ExpireLease(c) \/ OutliveLease(c))
               \/ CancelRead \/ UNCHANGED vars
      BY <3>3, <3>q DEF CronReclaim, ExpireLease, OutliveLease, CancelRead, tables, vars
    <3>4. CASE CancelCommit
      BY <2>2, <3>4 DEF CancelCommit, Terminal, TypeOK
    <3>5. CASE Replay
      BY <3>5, EnqueueKeeps DEF Replay, Armed, Job, ControlJob
    <3>6. ASSUME NEW s \in Slots, NEW c \in Chunks, Raise(s, c) PROVE Armed'
      <4>1. worker[s].job \notin ControlJob
        BY <3>6, ChunkNotControl DEF Raise
      <4>2. \A t \in Slots : t # s => worker'[t] = worker[t]
        BY <3>6 DEF Raise, TypeOK
      <4>3. batch' = batch /\ queue' = queue
        BY <3>6 DEF Raise, tables
      <4> QED BY <2>2, <3>0, <4>1, <4>2, <4>3, ArmedKept DEF KeepsArmed, ArmedSlot
    <3>7. ASSUME NEW s \in Slots, Crash(s) PROVE Armed'
      <4>0. Enqueue(worker[s].job)
        BY <2>1, <2>2, <3>7, BoundsAssumption DEF Crash, NoJobLost, TypeOK, Faults
      <4>1. batch' = batch
        BY <3>7 DEF Crash, tables
      <4>2. CASE worker[s].job \in ControlJob
        <5>1. queue'[worker[s].job] > 0
          BY <4>0, <4>2, EnqueueKeeps DEF Job
        <5> QED BY <4>2, <5>1 DEF Armed
      <4>3. CASE worker[s].job \notin ControlJob
        <5>1. \A t \in Slots : ArmedSlot(worker[t]) => ArmedSlot(worker'[t])
          BY <3>7, <4>3, ArmedMoves DEF Crash
        <5>2. \A k \in ControlJob : queue[k] > 0 => queue'[k] > 0
          BY <4>0, EnqueueKeeps
        <5> QED BY <2>2, <3>0, <4>1, <5>1, <5>2, ArmedKept DEF KeepsArmed
      <4> QED BY <4>2, <4>3
    <3>8. CASE RestartRedis \/ \E s \in Slots : Drop(s)
      BY <2>1, <2>2, <3>8
    <3> QED BY <3>1, <3>2, <3>3, <3>4, <3>5, <3>6, <3>7, <3>8 DEF Next, Fault
  <2> QED BY <2>1, <2>2 DEF RecoveryInv, RecoveryArmed
<1>3. RecoveryInv => RecoveryArmed
  BY DEF RecoveryInv
<1> QED BY TypeCorrect, CheckpointInvariant, <1>1, <1>2, <1>3, PTL DEF Spec
----------------------------------------------------------------------------
(* The promise                                                             *)

LEMMA PendingInitial == Init => PendingUntouched
BY DEF Init, PendingUntouched, At, Idle

LEMMA PendingStep ==
    TypeOK /\ CheckpointInv /\ PendingUntouched /\ [Next]_vars => PendingUntouched'
<1> SUFFICES ASSUME TypeOK, CheckpointInv, PendingUntouched, [Next]_vars,
                    batch'.status = "pending"
             PROVE  PendingUntouched'
  BY DEF PendingUntouched
<1>0. /\ \A s \in Slots : At(s, "orchestrate") => worker[s].job = "orchestrate_batch"
      /\ \A c \in Chunks : c \notin ControlJob
  BY JobsAssumption DEF CheckpointInv, JobsMatch
<1>1. batch.status = "pending"
  <2>1. ASSUME NEW s \in Slots, Step(s), batch.status # "pending" PROVE FALSE
    <3>0. \A st \in BatchStatus : [batch EXCEPT !.status = st].status = st
      BY DEF TypeOK
    <3>1. batch' # batch
      BY <2>1
    <3>2. Orchestrate(s) \/ FailCounted(s) \/ Publish(s) \/ \E c \in Chunks : FailBatch(s, c)
      BY <2>1, <3>1 DEF Step, ProcessChunk, Fanout, LeaseChunk, CheckCancelled, Reclaim, Count,
         ReleaseCancelled, Infer, Flush, Commit, RetryChunk, AbandonChunk, Requeue,
         RequeueCommit, Concatenate, HandOff, Notify, tables
    <3>3. ~Orchestrate(s)
      BY <2>1, <3>0 DEF Orchestrate, Emit, TypeOK, BatchStatus
    <3>4. FailCounted(s) \/ (\E c \in Chunks : FailBatch(s, c))
            => batch' = [batch EXCEPT !.status = "failed"]
      BY DEF FailCounted, FailBatch
    <3>5. Publish(s) => batch'.status = "completed"
      BY DEF Publish
    <3> QED BY <3>0, <3>2, <3>3, <3>4, <3>5 DEF BatchStatus
  <2>2. ASSUME ~\E s \in Slots : Step(s), batch.status # "pending" PROVE FALSE
    BY <2>2 DEF Next, Take, Begin, Ignore, Fault, Crash, Drop, Raise, RestartRedis,
       OutliveLease, CronReclaim, ExpireLease, Replay, CancelRead, CancelCommit, tables,
       vars, TypeOK
  <2> QED BY <2>1, <2>2
<1>2. /\ chunk = [c \in Chunks |-> NoRow] /\ notified = {}
      /\ \A j \in Job : j # "orchestrate_batch" => queue[j] = 0
      /\ \A s \in Slots : \/ At(s, "idle")
                          \/ At(s, "orchestrate") /\ worker[s].saw = "pending"
  BY <1>1 DEF PendingUntouched
<1>3. ASSUME NEW s \in Slots, Step(s) PROVE FALSE
  <2>1. ~Orchestrate(s)
    <3>1. batch' = [batch EXCEPT !.status = "running"] => batch'.status = "running"
      BY DEF TypeOK
    <3> QED BY <1>1, <1>2, <3>1 DEF Orchestrate, Emit, At
  <2> QED BY <1>2, <1>3, <2>1
          DEF Step, ProcessChunk, Fanout, LeaseChunk, CheckCancelled, ReleaseCancelled,
              Infer, Flush, Commit, RetryChunk, FailBatch, AbandonChunk, Reclaim, Count,
              FailCounted, Requeue,
              RequeueCommit, Concatenate, Publish, HandOff, Nudge, Rearm, StartFinalize,
              EnqueueRetry, Notify, Works, At
<1>4. ASSUME NEW s \in Slots, NEW j \in Job, Take(s, j) PROVE PendingUntouched'
  <2>1. j = "orchestrate_batch" /\ \A k \in Job : k # j => queue'[k] = queue[k]
    BY <1>2, <1>4 DEF Take, Begin, Ignore, Dequeue, TypeOK
  <2>2. UNCHANGED <<chunk, notified>>
    BY <1>4 DEF Take, Begin, Ignore, tables
  <2>3. CASE Ignore(s, j)
    BY <1>2, <2>1, <2>2, <2>3 DEF Ignore, PendingUntouched, At
  <2>4. CASE Begin(s, j)
    <3>1. /\ worker'[s].pc = "orchestrate" /\ worker'[s].saw = "pending"
          /\ \A t \in Slots : t # s => worker'[t] = worker[t]
      BY <1>0, <1>1, <2>1, <2>4 DEF Begin, FirstPC, Idle, TypeOK, ControlJob
    <3> QED BY <1>2, <2>1, <2>2, <3>1 DEF PendingUntouched, At
  <2> QED BY <1>4, <2>3, <2>4 DEF Take
<1>5. ASSUME NEW s \in Slots, Crash(s) \/ Drop(s) PROVE PendingUntouched'
  <2>1. worker[s].job = "orchestrate_batch"
    BY <1>0, <1>2, <1>5 DEF Crash, Drop
  <2>2. \A k \in Job : k # "orchestrate_batch" => queue'[k] = queue[k]
    BY <1>5, <2>1 DEF Crash, Drop, Enqueue, TypeOK
  <2>3. worker'[s].pc = "idle" /\ \A t \in Slots : t # s => worker'[t] = worker[t]
    BY <1>5 DEF Crash, Drop, Return, Idle, TypeOK
  <2>4. UNCHANGED <<chunk, notified>>
    BY <1>5 DEF Crash, Drop, tables
  <2> QED BY <1>2, <2>2, <2>3, <2>4 DEF PendingUntouched, At
<1>6. ASSUME NEW s \in Slots, NEW c \in Chunks, Raise(s, c) PROVE FALSE
  BY <1>2, <1>6 DEF Raise, Tried, At
<1>7. CASE RestartRedis
  BY <1>2, <1>7 DEF RestartRedis, PendingUntouched, At, tables
<1>8. ~CronReclaim /\ \A c \in Chunks : ~ExpireLease(c) /\ ~OutliveLease(c)
  BY <1>2 DEF CronReclaim, LapsedChunks, Lapsed, NoRow, ExpireLease, OutliveLease
<1>9. CASE Replay
  <2>1. \A k \in Job : k # "orchestrate_batch" => queue'[k] = queue[k]
    BY <1>9 DEF Replay, Enqueue, TypeOK
  <2> QED BY <1>2, <1>9, <2>1 DEF Replay, PendingUntouched, At, tables
<1>10. CASE CancelRead \/ UNCHANGED vars
  BY <1>2, <1>10 DEF CancelRead, PendingUntouched, At, tables, vars
<1>11. ~CancelCommit
  BY DEF CancelCommit, TypeOK
<1> QED BY <1>3, <1>4, <1>5, <1>6, <1>7, <1>8, <1>9, <1>10, <1>11 DEF Next, Fault

LEMMA PendingInvariant == Spec => []PendingUntouched
BY PendingInitial, PendingStep, TypeCorrect, CheckpointInvariant, PTL DEF Spec

(* The promise's view of the pipeline.                                     *)
Due   == {EventOf(worker[s].job) : s \in {t \in Slots : At(t, "notify")}}
View  == <<batch.status, Done, batch.results_key, Due, notified>>

LEMMA DueSame ==
    ASSUME \A t \in Slots : \/ worker'[t] = worker[t]
                            \/ ~At(t, "notify") /\ ~At(t, "notify")'
    PROVE  Due' = Due
BY DEF Due, At

LEMMA DueGains ==
    ASSUME NEW s \in Slots, ~At(s, "notify"), At(s, "notify")',
           \A t \in Slots : t # s => worker'[t] = worker[t]
    PROVE  Due' = Due \cup {EventOf(worker'[s].job)}
BY DEF Due, At

LEMMA DueLoses ==
    ASSUME NEW s \in Slots, At(s, "notify"), ~At(s, "notify")',
           \A t \in Slots : t # s => worker'[t] = worker[t]
    PROVE  LET e == EventOf(worker[s].job)
           IN  e \in Due /\ (Due' = Due \/ Due' = Due \ {e})
<1> DEFINE e == EventOf(worker[s].job)
<1>1. e \in Due
  BY DEF Due
<1>2. \A x : x \in Due' => x \in Due
  BY DEF Due, At
<1>3. \A x : x \in Due /\ x # e => x \in Due'
  BY DEF Due, At
<1> QED BY <1>1, <1>2, <1>3

(* A slot that goes on and is not about to tell an event.                  *)
LEMMA QuietMoves ==
    ASSUME TypeOK, NEW s \in Slots, ~At(s, "notify")
    PROVE  /\ Return(s) => Due' = Due
           /\ \A pc : Goto(s, pc) /\ pc # "notify" => Due' = Due
           /\ \A out, lapsed : StartFanout(s, out, lapsed) => Due' = Due
<1>1. ASSUME Return(s) PROVE Due' = Due
  BY <1>1, DueSame DEF Return, At, Idle, TypeOK
<1>2. ASSUME NEW pc, Goto(s, pc), pc # "notify" PROVE Due' = Due
  BY <1>2, DueSame DEF Goto, At, Idle, TypeOK
<1>3. ASSUME NEW out, NEW lapsed, StartFanout(s, out, lapsed) PROVE Due' = Due
  <2>1. worker'[s].pc # "notify" /\ \A t \in Slots : t # s => worker'[t] = worker[t]
    BY <1>3 DEF StartFanout, Idle, TypeOK
  <2> QED BY <2>1, DueSame DEF At
<1> QED BY <1>1, <1>2, <1>3

LEMMA MoveToNotify ==
    ASSUME TypeOK, NEW s \in Slots, ~At(s, "notify"), Goto(s, "notify")
    PROVE  Due' = Due \cup {EventOf(worker[s].job)}
<1>1. /\ worker'[s].pc = "notify" /\ worker'[s].job = worker[s].job
      /\ \A t \in Slots : t # s => worker'[t] = worker[t]
  BY DEF Goto, Idle, TypeOK
<1> QED BY <1>1, DueGains DEF At

(* No step but a commit changes which keys are set.                        *)
LEMMA DoneKept ==
    ASSUME CheckpointInv, TypeOK,
           \A c \in Chunks : chunk'[c].result_key = chunk[c].result_key
    PROVE  Done' = Done
BY DEF Done

(* The steps of process_chunk.                                             *)
LEMMA PromiseProcess ==
    ASSUME TypeOK, CheckpointInv, PendingUntouched, NEW s \in Slots, NEW c \in Chunks,
           ProcessChunk(s, c)
    PROVE  [Promise!Next]_View
<1>1. batch.status # "pending" /\ EventOf(c) = "batch.failed"
  BY JobsAssumption
     DEF PendingUntouched, ProcessChunk, LeaseChunk, CheckCancelled, ReleaseCancelled, Infer,
         Flush, Commit, RetryChunk, FailBatch, AbandonChunk, Works, At, EventOf, ControlJob
<1>2. worker[s].job = c /\ ~At(s, "notify")
  BY DEF ProcessChunk, LeaseChunk, CheckCancelled, ReleaseCancelled, Infer,
         Flush, Commit, RetryChunk, FailBatch, AbandonChunk, Works, At
<1>3. CASE Commit(s, c)
  <2>1. Due' = Due
    BY <1>2, <1>3, QuietMoves DEF Commit
  <2>2. /\ chunk'[c].result_key
        /\ \A d \in Chunks : d # c => chunk'[d].result_key = chunk[d].result_key
    BY <1>3 DEF Commit, Succeeded, TypeOK, ChunkRow
  <2>3. Done' = Done \cup {c}
    BY <2>2 DEF Done
  <2>4. Promise!Finish(c)
    BY <1>1, <1>3, <2>1, <2>3 DEF Promise!Finish, Commit, Due, Done
  <2> QED BY <2>4 DEF Promise!Next
<1>4. CASE FailBatch(s, c)
  <2>1. Due' = Due \cup {"batch.failed"}
    BY <1>1, <1>2, <1>4, MoveToNotify DEF FailBatch
  <2>2. \A d \in Chunks : chunk'[d].result_key = chunk[d].result_key
    BY <1>4 DEF FailBatch, Failed, TypeOK, ChunkRow
  <2>3. batch'.status = "failed" /\ batch'.results_key = batch.results_key
    BY <1>4 DEF FailBatch, TypeOK
  <2>4. Promise!Fail
    BY <1>1, <1>4, <2>1, <2>2, <2>3, DoneKept DEF Promise!Fail, FailBatch, Due, Done
  <2> QED BY <2>4 DEF Promise!Next
<1>5. CASE ~Commit(s, c) /\ ~FailBatch(s, c)
  <2>1. batch' = batch /\ notified' = notified
    BY <1>5 DEF ProcessChunk, LeaseChunk, CheckCancelled, ReleaseCancelled, Infer,
       Flush, RetryChunk, AbandonChunk, tables
  <2>2. \A d \in Chunks : chunk'[d].result_key = chunk[d].result_key
    BY <1>5, PlainProcess DEF ProcessChunk, Infer, Flush, tables, PlainStep, PlainRows
  <2>3. Due' = Due
    <3>1. CASE Infer(s, c) \/ Flush(s, c)
      <4>1. worker'[s].pc # "notify" /\ \A t \in Slots : t # s => worker'[t] = worker[t]
        BY <3>1 DEF Infer, Flush, TypeOK, SlotState
      <4> QED BY <1>2, <4>1, DueSame DEF At
    <3>2. CASE ~(Infer(s, c) \/ Flush(s, c))
      <4>1. Return(s) \/ \E pc : Goto(s, pc) /\ pc # "notify"
        BY <1>5, <3>2 DEF ProcessChunk, LeaseChunk, CheckCancelled, ReleaseCancelled,
           RetryChunk, AbandonChunk
      <4> QED BY <1>2, <4>1, QuietMoves
    <3> QED BY <3>1, <3>2
  <2> QED BY <2>1, <2>2, <2>3, DoneKept DEF View
<1> QED BY <1>3, <1>4, <1>5

(* The steps of the control jobs.                                          *)
LEMMA PromiseControl ==
    ASSUME TypeOK, CheckpointInv, PendingUntouched, NEW s \in Slots,
           Orchestrate(s) \/ Fanout(s) \/ Reclaim(s) \/ Count(s) \/ FailCounted(s)
           \/ Requeue(s) \/ RequeueCommit(s) \/ Concatenate(s) \/ Publish(s) \/ HandOff(s) \/ Notify(s)
    PROVE  [Promise!Next]_View
<1>k. ASSUME UNCHANGED chunk PROVE Done' = Done
  BY <1>k DEF Done
<1>1. CASE Orchestrate(s)
  <2>1. Due' = Due /\ notified' = notified
    BY <1>1, QuietMoves DEF Orchestrate, At
  <2>2. \A c \in Chunks : chunk'[c].result_key = chunk[c].result_key
    BY <1>1, PlainControl DEF PlainStep, PlainRows
  <2>3. /\ batch'.results_key = batch.results_key
        /\ batch'.status = "running" \/ batch'.status = batch.status
    BY <1>1 DEF Orchestrate, Emit, TypeOK
  <2>4. Promise!Start \/ UNCHANGED View
    BY <2>1, <2>2, <2>3, DoneKept DEF Promise!Start, View, Due, Done
  <2> QED BY <2>4 DEF Promise!Next
<1>2. CASE Fanout(s)
  <2>1. worker'[s].pc # "notify" /\ \A t \in Slots : t # s => worker'[t] = worker[t]
    <3>1. PICK c \in worker[s].out :
            worker' = [worker EXCEPT ![s].out = worker[s].out \ {c},
                                     ![s].pc = IF worker[s].out \ {c} = {}
                                               THEN AfterFanout(worker[s])
                                               ELSE "fanout"]
      BY <1>2 DEF Fanout
    <3>2. worker'[s].pc \in {"fanout", "requeue_commit", "rearm"}
      BY <3>1 DEF AfterFanout, TypeOK, SlotState
    <3>3. \A t \in Slots : t # s => worker'[t] = worker[t]
      BY <3>1 DEF TypeOK
    <3> QED BY <3>2, <3>3
  <2>2. Due' = Due
    BY <1>2, <2>1, DueSame DEF At, Fanout
  <2> QED BY <1>2, <1>k, <2>2 DEF Fanout, View, tables
<1>3. CASE Reclaim(s)
  <2>1. /\ worker'[s].pc = "count" /\ worker[s].pc = "reclaim"
        /\ \A t \in Slots : t # s => worker'[t] = worker[t]
    BY <1>3 DEF Reclaim, At, TypeOK, SlotState
  <2>2. Due' = Due
    BY <2>1, DueSame DEF At
  <2> QED BY <1>3, <1>k, <2>2 DEF Reclaim, View, tables
<1>10. CASE Count(s)
  <2>1. \A c \in Chunks : chunk'[c].result_key = chunk[c].result_key
    BY <1>10, PlainControl DEF PlainStep, PlainRows
  <2>2. Due' = Due
    <3>1. ~At(s, "notify") /\ \E pc : Goto(s, pc) /\ pc # "notify"
      BY <1>10 DEF Count, At
    <3> QED BY <3>1, QuietMoves
  <2> QED BY <1>10, <2>1, <2>2, DoneKept DEF Count, View
<1>11. CASE FailCounted(s)
  <2>1. EventOf(worker[s].job) = "batch.failed" /\ batch.status # "pending"
    BY <1>11 DEF FailCounted, CheckpointInv, JobsMatch, EventOf, PendingUntouched, At
  <2>2. Due' = Due \cup {"batch.failed"}
    BY <1>11, <2>1, MoveToNotify DEF FailCounted, At
  <2>3. batch'.status = "failed" /\ batch'.results_key = batch.results_key
    BY <1>11 DEF FailCounted, TypeOK
  <2>4. Promise!Fail
    BY <1>11, <1>k, <2>1, <2>2, <2>3 DEF FailCounted, Promise!Fail, Due, Done
  <2> QED BY <2>4 DEF Promise!Next
<1>4. CASE Requeue(s)
  BY <1>4, <1>k, QuietMoves DEF Requeue, At, View, tables
<1>5. CASE RequeueCommit(s)
  <2>1. \A c \in Chunks : chunk'[c].result_key = chunk[c].result_key
    BY <1>5, PlainControl DEF PlainStep, PlainRows
  <2>2. Due' = Due
    BY <1>5, QuietMoves DEF RequeueCommit, At
  <2> QED BY <1>5, <2>1, <2>2, DoneKept DEF RequeueCommit, View
<1>6. CASE Concatenate(s)
  BY <1>6, <1>k, QuietMoves DEF Concatenate, At, View, tables
<1>7. CASE Publish(s)
  <2>1. worker[s].job = "finalize_batch" /\ \A c \in Chunks : chunk[c].result_key
    BY <1>7 DEF Publish, CheckpointInv, JobsMatch, Staged, At
  <2>2. Due' = Due \cup {"batch.completed"}
    BY <1>7, <2>1, MoveToNotify DEF Publish, At, EventOf
  <2>3. Done = Chunks
    BY <2>1 DEF Done
  <2>4. Promise!Publish
    BY <1>7, <1>k, <2>2, <2>3 DEF Promise!Publish, Publish, Due, Done
  <2> QED BY <2>4 DEF Promise!Next
<1>8. CASE HandOff(s)
  BY <1>8, <1>k, QuietMoves
     DEF HandOff, Nudge, Rearm, StartFinalize, EnqueueRetry, At, View, tables
<1>9. CASE Notify(s)
  <2> DEFINE e == EventOf(worker[s].job)
  <2>1. worker'[s].pc = "idle" /\ \A t \in Slots : t # s => worker'[t] = worker[t]
    BY <1>9 DEF Notify, Return, Idle, TypeOK
  <2>2. e \in Due /\ (Due' = Due \/ Due' = Due \ {e})
    BY <1>9, <2>1, DueLoses DEF Notify, At
  <2>3. Promise!Tell(e)
    BY <1>9, <1>k, <2>2 DEF Promise!Tell, Notify, tables, Due, Done
  <2> QED BY <2>2, <2>3 DEF Promise!Next, Due
<1> QED BY <1>1, <1>2, <1>3, <1>4, <1>5, <1>6, <1>7, <1>8, <1>9, <1>10, <1>11

(* A job taken from the queue, the API, the clock and the faults.          *)
LEMMA PromiseOthers ==
    ASSUME TypeOK, CheckpointInv, [Next]_vars, ~\E s \in Slots : Step(s)
    PROVE  [Promise!Next]_View
<1>k. ASSUME UNCHANGED chunk PROVE Done' = Done
  BY <1>k DEF Done
<1>w. ASSUME UNCHANGED worker PROVE Due' = Due
  BY <1>w DEF Due, At
<1>1. ASSUME NEW s \in Slots, NEW j \in Job, Take(s, j) PROVE UNCHANGED View
  <2>1. Due' = Due
    <3>1. CASE Ignore(s, j)
      BY <1>w, <3>1 DEF Ignore
    <3>2. CASE Begin(s, j)
      <4>1. /\ worker[s].pc # "notify" /\ worker'[s].pc # "notify"
            /\ \A t \in Slots : t # s => worker'[t] = worker[t]
        BY <3>2 DEF Begin, FirstPC, Idle, TypeOK, At
      <4> QED BY <4>1, DueSame DEF At
    <3> QED BY <1>1, <3>1, <3>2 DEF Take
  <2> QED BY <1>1, <1>k, <2>1 DEF Take, Begin, Ignore, View, tables
<1>2. ASSUME CronReclaim \/ \E c \in Chunks : ExpireLease(c) \/ OutliveLease(c)
      PROVE  UNCHANGED View
  <2>1. \A c \in Chunks : chunk'[c].result_key = chunk[c].result_key
    BY <1>2, PlainEnvironment DEF PlainStep, PlainRows
  <2> QED BY <1>2, <1>w, <2>1, DoneKept DEF CronReclaim, ExpireLease, OutliveLease, View
<1>3. ASSUME Replay \/ CancelRead \/ RestartRedis \/ UNCHANGED vars PROVE UNCHANGED View
  BY <1>3, <1>k, <1>w DEF Replay, CancelRead, RestartRedis, vars, tables, View
<1>4. ASSUME CancelCommit PROVE Promise!Cancel
  BY <1>4, <1>k, <1>w DEF CancelCommit, Promise!Cancel, TypeOK, Due, Done
<1>5. ASSUME NEW s \in Slots, NEW c \in Chunks, Raise(s, c) PROVE UNCHANGED View
  <2>1. /\ worker[s].pc # "notify" /\ worker'[s].pc # "notify"
        /\ \A t \in Slots : t # s => worker'[t] = worker[t]
    BY <1>5 DEF Raise, Tried, Idle, TypeOK
  <2> QED BY <1>5, <1>k, <2>1, DueSame DEF Raise, At, View, tables
<1>6. ASSUME NEW s \in Slots, Crash(s) \/ Drop(s) PROVE [Promise!Next]_View
  <2> DEFINE e == EventOf(worker[s].job)
  <2>1. worker'[s].pc = "idle" /\ \A t \in Slots : t # s => worker'[t] = worker[t]
    BY <1>6 DEF Crash, Drop, Return, Idle, TypeOK
  <2>2. UNCHANGED <<batch, notified>> /\ Done' = Done
    BY <1>6, <1>k DEF Crash, Drop, tables
  <2>3. CASE At(s, "notify")
    <3>1. e \in Due /\ (Due' = Due \/ Due' = Due \ {e})
      BY <2>1, <2>3, DueLoses DEF At
    <3>2. Promise!Lose(e) \/ UNCHANGED View
      BY <2>2, <3>1 DEF Promise!Lose, View, Due, Done
    <3> QED BY <3>1, <3>2 DEF Promise!Next, Due
  <2>4. CASE ~At(s, "notify")
    <3>1. Due' = Due
      BY <2>1, <2>4, DueSame DEF At
    <3> QED BY <2>2, <3>1 DEF View
  <2> QED BY <2>3, <2>4
<1> QED BY <1>1, <1>2, <1>3, <1>4, <1>5, <1>6 DEF Next, Fault, Promise!Next

(* Whatever crashes, races or is lost, the pipeline keeps its promise:     *)
(* nothing before the start, done and published for good, no event of what *)
(* has not happened.                                                       *)
THEOREM PromiseKept == Spec => KeepsBatchPromise
<1>1. Init => Promise!Init
  BY DEF Init, Promise!Init, NoRow, Idle, At, Done
<1>2. TypeOK /\ CheckpointInv /\ PendingUntouched /\ [Next]_vars
        => [Promise!Next]_Promise!vars
  <2> SUFFICES ASSUME TypeOK, CheckpointInv, PendingUntouched, [Next]_vars
               PROVE  [Promise!Next]_Promise!vars
    OBVIOUS
  <2>1. [Promise!Next]_View
    BY PromiseProcess, PromiseControl, PromiseOthers DEF Step
  <2> QED BY <2>1 DEF Promise!vars, View, Done, Due
<1> QED BY <1>1, <1>2, TypeCorrect, CheckpointInvariant, PendingInvariant, PTL
        DEF Spec, KeepsBatchPromise, Promise!Spec
----------------------------------------------------------------------------
(* Failing                                                                 *)

Orchestrates(s) == worker[s].job = "orchestrate_batch"

(* Without a replay there is one orchestration at a time, ...              *)
OneOrchestration ==
    /\ queue["orchestrate_batch"] <= 1
    /\ \A s, t \in Slots : Orchestrates(s) /\ Orchestrates(t) => s = t
    /\ (\E s \in Slots : Orchestrates(s)) => queue["orchestrate_batch"] = 0

(* ... so a slot that has read the batch pending is the first to touch it, *)
FirstOrchestration ==
    \A s \in Slots : At(s, "orchestrate") =>
        /\ worker[s].saw \in {"pending", "running"}
        /\ worker[s].saw = "pending" =>
             /\ chunk = [c \in Chunks |-> NoRow]
             /\ \A j \in Job : j # "orchestrate_batch" => queue[j] = 0
             /\ \A t \in Slots : t # s => At(t, "idle")

(* ... a batch with a failed chunk never runs again, even if a check has   *)
(* counted that chunk and it is not failed any more, and no slot has seen  *)
(* the two together.                                                       *)
FailedTogether ==
    /\ \A c \in Chunks : chunk[c].status = "failed" =>
          batch.status \notin {"pending", "running"}
    /\ \A s \in Slots : At(s, "fail") => batch.status \notin {"pending", "running"}
    /\ \A s \in Slots : At(s, "except") /\ worker[s].row.status = "failed" =>
          worker[s].saw # "running"

FailInv ==
    /\ \A f \in Faults : left[f] <= Budget[f]
    /\ NoReplay => OneOrchestration /\ FirstOrchestration /\ FailedTogether

LEMMA FailInitial == Init => FailInv
<1> SUFFICES ASSUME Init PROVE FailInv
  OBVIOUS
<1>1. \A f \in Faults : left[f] <= Budget[f]
  BY BoundsAssumption DEF Init
<1>2. queue["orchestrate_batch"] = 1
  BY DEF Init, Job, ControlJob
<1>3. \A s \in Slots : worker[s].pc = "idle" /\ worker[s].job # "orchestrate_batch"
  BY DEF Init, Idle, NoJob
<1>4. \A c \in Chunks : chunk[c].status = "absent"
  BY DEF Init, NoRow
<1> QED BY <1>1, <1>2, <1>3, <1>4
        DEF FailInv, OneOrchestration, FirstOrchestration, FailedTogether, Orchestrates, At

(* What each step does to the slots' jobs and to the queue of the first.   *)
LEMMA OrchestrationKept ==
    ASSUME TypeOK, CheckpointInv, OneOrchestration, [Next]_vars, ~Replay
    PROVE  OneOrchestration'
<1> DEFINE o == "orchestrate_batch"
<1>0. /\ o \in Job /\ queue[o] \in Nat
      /\ \A c \in Chunks : c # o
      /\ \A s \in Slots : worker[s].pc \in ProcessPC => worker[s].job \in Chunks
      /\ \A s \in Slots : At(s, "idle") => worker[s].job = NoJob
  BY JobsAssumption DEF Job, ControlJob, TypeOK, CheckpointInv, JobsMatch
<1>1. ASSUME queue'[o] = queue[o], \A s \in Slots : Orchestrates(s)' => Orchestrates(s)
      PROVE  OneOrchestration'
  BY <1>1 DEF OneOrchestration
<1>g. ASSUME NEW s \in Slots
      PROVE  /\ Return(s) => \A t \in Slots : Orchestrates(t)' => Orchestrates(t)
             /\ \A pc : Goto(s, pc) => \A t \in Slots : Orchestrates(t)' => Orchestrates(t)
             /\ \A out, lapsed : StartFanout(s, out, lapsed) =>
                  \A t \in Slots : Orchestrates(t)' => Orchestrates(t)
  <2>1. ASSUME Return(s) PROVE \A t \in Slots : Orchestrates(t)' => Orchestrates(t)
    BY <2>1 DEF Return, Orchestrates, Idle, NoJob, TypeOK
  <2>2. ASSUME NEW pc, Goto(s, pc) PROVE \A t \in Slots : Orchestrates(t)' => Orchestrates(t)
    BY <2>2 DEF Goto, Orchestrates, Idle, TypeOK
  <2>3. ASSUME NEW out, NEW lapsed, StartFanout(s, out, lapsed)
        PROVE  \A t \in Slots : Orchestrates(t)' => Orchestrates(t)
    <3>1. worker'[s].job = worker[s].job /\ \A t \in Slots : t # s => worker'[t] = worker[t]
      BY <2>3 DEF StartFanout, Idle, TypeOK
    <3> QED BY <3>1 DEF Orchestrates
  <2> QED BY <2>1, <2>2, <2>3
<1>2. ASSUME NEW s \in Slots, Step(s) PROVE OneOrchestration'
  <2>1. queue'[o] = queue[o]
    <3>1. CASE HandOff(s)
      <4>1. CASE EnqueueRetry(s)
        <5>1. worker[s].job \in Chunks /\ worker[s].job # o
          BY <1>0, <4>1 DEF EnqueueRetry, ProcessPC, At
        <5> QED BY <1>0, <4>1, <5>1 DEF EnqueueRetry, Enqueue, TypeOK
      <4>2. CASE Nudge(s) \/ Rearm(s) \/ StartFinalize(s)
        BY <1>0, <4>2 DEF Nudge, Rearm, StartFinalize, Enqueue, TypeOK
      <4> QED BY <3>1, <4>1, <4>2 DEF HandOff
    <3>2. CASE Fanout(s)
      <4>1. PICK c \in worker[s].out : Enqueue(c)
        BY <3>2 DEF Fanout
      <4>2. c \in Chunks
        BY <4>1 DEF TypeOK, SlotState
      <4> QED BY <1>0, <4>1, <4>2 DEF Enqueue, TypeOK
    <3>3. CASE ~HandOff(s) /\ ~Fanout(s)
      BY <1>2, <3>3 DEF Step, ProcessChunk, Orchestrate, LeaseChunk, CheckCancelled,
         ReleaseCancelled, Infer, Flush, Commit, RetryChunk, FailBatch, AbandonChunk,
         Reclaim, Count, FailCounted, Requeue, RequeueCommit, Concatenate, Publish, Notify
    <3> QED BY <3>1, <3>2, <3>3
  <2>2. \A t \in Slots : Orchestrates(t)' => Orchestrates(t)
    <3>1. CASE Fanout(s)
      <4>1. PICK c \in worker[s].out :
            worker' = [worker EXCEPT ![s].out = worker[s].out \ {c},
                                     ![s].pc = IF worker[s].out \ {c} = {}
                                               THEN AfterFanout(worker[s])
                                               ELSE "fanout"]
        BY <3>1 DEF Fanout
      <4>2. worker'[s].job = worker[s].job /\ \A t \in Slots : t # s => worker'[t] = worker[t]
        BY <4>1 DEF TypeOK, SlotState
      <4> QED BY <4>2 DEF Orchestrates
    <3>2. CASE \E c \in Chunks : Infer(s, c) \/ Flush(s, c)
      <4>1. worker'[s].job = worker[s].job /\ \A t \in Slots : t # s => worker'[t] = worker[t]
        BY <3>2 DEF Infer, Flush, TypeOK, SlotState
      <4> QED BY <4>1 DEF Orchestrates
    <3>3. CASE Reclaim(s)
      <4>1. worker'[s].job = worker[s].job /\ \A t \in Slots : t # s => worker'[t] = worker[t]
        BY <3>3 DEF Reclaim, TypeOK, SlotState
      <4> QED BY <4>1 DEF Orchestrates
    <3>4. CASE ~Fanout(s) /\ ~Reclaim(s) /\ ~\E c \in Chunks : Infer(s, c) \/ Flush(s, c)
      <4>1. \/ Return(s) \/ \E pc : Goto(s, pc)
            \/ \E out, lapsed : StartFanout(s, out, lapsed)
        BY <1>2, <3>4 DEF Step, ProcessChunk, Orchestrate, LeaseChunk, CheckCancelled,
           ReleaseCancelled, Commit, RetryChunk, FailBatch, AbandonChunk, Count,
           FailCounted, Requeue, RequeueCommit, Concatenate, Publish, Notify, HandOff
      <4> QED BY <4>1, <1>g
    <3> QED BY <3>1, <3>2, <3>3, <3>4
  <2> QED BY <1>1, <2>1, <2>2
<1>3. ASSUME NEW s \in Slots, NEW j \in Job, Begin(s, j) PROVE OneOrchestration'
  <2>1. /\ worker'[s].job = j /\ \A t \in Slots : t # s => worker'[t] = worker[t]
        /\ queue[j] > 0 /\ queue' = [queue EXCEPT ![j] = @ - 1]
    BY <1>3 DEF Begin, Dequeue, Idle, TypeOK
  <2>2. CASE j = o
    <3>1. queue'[o] = 0 /\ \A t \in Slots : ~Orchestrates(t)
      BY <1>0, <2>1, <2>2 DEF OneOrchestration, TypeOK
    <3> QED BY <2>1, <3>1 DEF OneOrchestration, Orchestrates
  <2>3. CASE j # o
    <3>1. queue'[o] = queue[o]
      BY <2>1, <2>3, <1>0 DEF TypeOK
    <3> QED BY <1>1, <2>1, <2>3, <3>1 DEF Orchestrates
  <2> QED BY <2>2, <2>3
<1>4. ASSUME NEW s \in Slots, NEW j \in Job, Ignore(s, j) PROVE OneOrchestration'
  <2>1. /\ worker' = worker /\ queue[j] > 0 /\ queue' = [queue EXCEPT ![j] = @ - 1]
    BY <1>4 DEF Ignore, Dequeue
  <2>2. queue'[o] <= queue[o] /\ queue'[o] >= 0
    BY <1>0, <2>1 DEF TypeOK
  <2> QED BY <1>0, <2>1, <2>2 DEF OneOrchestration, Orchestrates
<1>5. ASSUME NEW s \in Slots, Crash(s) \/ Drop(s) PROVE OneOrchestration'
  <2>1. /\ worker'[s].job = NoJob /\ \A t \in Slots : t # s => worker'[t] = worker[t]
        /\ Enqueue(worker[s].job) \/ queue' = queue
    BY <1>5 DEF Crash, Drop, Return, Idle, TypeOK
  <2>2. CASE Orchestrates(s)
    <3>1. \A t \in Slots : ~Orchestrates(t)'
      BY <2>1, <2>2 DEF OneOrchestration, Orchestrates, NoJob
    <3>2. queue[o] = 0 /\ queue'[o] <= 1
      <4>1. queue[o] = 0
        BY <2>2 DEF OneOrchestration
      <4>2. Plus(queue[o]) <= 1
        BY <4>1 DEF Plus
      <4> QED BY <1>0, <2>1, <2>2, <4>1, <4>2 DEF Orchestrates, Enqueue, TypeOK
    <3> QED BY <3>1, <3>2 DEF OneOrchestration
  <2>3. CASE ~Orchestrates(s)
    <3>1. queue'[o] = queue[o]
      BY <1>0, <2>1, <2>3 DEF Orchestrates, Enqueue, TypeOK
    <3> QED BY <1>1, <2>1, <3>1 DEF Orchestrates, NoJob
  <2> QED BY <2>2, <2>3
<1>6. ASSUME NEW s \in Slots, NEW c \in Chunks, Raise(s, c) PROVE OneOrchestration'
  <2>1. /\ worker'[s].job = c /\ \A t \in Slots : t # s => worker'[t] = worker[t]
        /\ queue' = queue
    BY <1>6 DEF Raise, Idle, TypeOK
  <2> QED BY <1>0, <1>1, <2>1 DEF Orchestrates
<1>7. CASE RestartRedis
  <2>1. queue'[o] = 0 /\ worker' = worker
    BY <1>0, <1>7 DEF RestartRedis
  <2> QED BY <2>1 DEF OneOrchestration, Orchestrates
<1>8. CASE CronReclaim \/ (\E c \in Chunks : ExpireLease(c) \/ OutliveLease(c))
           \/ CancelRead \/ CancelCommit \/ UNCHANGED vars
  BY <1>1, <1>8 DEF CronReclaim, ExpireLease, OutliveLease, CancelRead, CancelCommit, vars,
     Orchestrates
<1> QED BY <1>2, <1>3, <1>4, <1>5, <1>6, <1>7, <1>8 DEF Next, Fault, Take

(* A step of one slot leaves the others alone.                             *)
LEMMA OthersKept ==
    ASSUME TypeOK, NEW t \in Slots,
           \/ Step(t) \/ Crash(t) \/ Drop(t)
           \/ (\E c \in Chunks : Raise(t, c)) \/ \E j \in Job : Take(t, j)
    PROVE  \A v \in Slots : v # t => worker'[v] = worker[v]
<1>1. CASE Crash(t) \/ Drop(t)
  BY <1>1 DEF Crash, Drop, Return, TypeOK
<1>2. CASE \E c \in Chunks : Raise(t, c)
  BY <1>2 DEF Raise, TypeOK
<1>3. CASE \E j \in Job : Take(t, j)
  BY <1>3 DEF Take, Begin, Ignore, TypeOK
<1>4. CASE Fanout(t)
  BY <1>4 DEF Fanout, TypeOK
<1>5. CASE \E c \in Chunks : Infer(t, c) \/ Flush(t, c)
  BY <1>5 DEF Infer, Flush, TypeOK
<1>7. CASE Reclaim(t)
  BY <1>7 DEF Reclaim, TypeOK
<1>6. CASE Step(t) /\ ~Fanout(t) /\ ~Reclaim(t) /\ ~\E c \in Chunks : Infer(t, c) \/ Flush(t, c)
  <2>1. \/ Return(t) \/ (\E pc : Goto(t, pc))
        \/ \E out, lapsed : StartFanout(t, out, lapsed)
    BY <1>6 DEF Step, ProcessChunk, Orchestrate, LeaseChunk, CheckCancelled,
       ReleaseCancelled, Commit, RetryChunk, FailBatch, AbandonChunk,
       Count, FailCounted, Requeue, RequeueCommit, Concatenate, Publish, Notify, HandOff
  <2> QED BY <2>1 DEF Return, Goto, StartFanout, TypeOK
<1> QED BY <1>1, <1>2, <1>3, <1>4, <1>5, <1>6, <1>7

(* No step but a first orchestration makes rows, and no other sets the     *)
(* batch running.                                                          *)
LEMMA FirstKept ==
    ASSUME TypeOK, CheckpointInv, PendingUntouched, OneOrchestration, FirstOrchestration,
           [Next]_vars, ~Replay
    PROVE  FirstOrchestration'
<1> SUFFICES ASSUME NEW s \in Slots, At(s, "orchestrate")'
             PROVE  /\ worker'[s].saw \in {"pending", "running"}
                    /\ worker'[s].saw = "pending" =>
                         /\ chunk' = [c \in Chunks |-> NoRow]
                         /\ \A j \in Job : j # "orchestrate_batch" => queue'[j] = 0
                         /\ \A t \in Slots : t # s => At(t, "idle")'
  BY DEF FirstOrchestration
<1>0. /\ "orchestrate_batch" \in Job /\ \A c \in Chunks : c # "orchestrate_batch"
      /\ \A t \in Slots : At(t, "orchestrate") => worker[t].job = "orchestrate_batch"
  BY JobsAssumption DEF Job, ControlJob, CheckpointInv, JobsMatch
<1>1. CASE \E j \in Job : Begin(s, j)
  <2>1. PICK j \in Job : Begin(s, j)
    BY <1>1
  <2>2. j = "orchestrate_batch"
    BY <2>1 DEF Begin, FirstPC, At, Idle, TypeOK, Job, ControlJob
  <2>3. /\ worker'[s].saw = batch.status /\ batch.status \notin Terminal
        /\ \A t \in Slots : t # s => worker'[t] = worker[t]
    BY <1>0, <2>1, <2>2 DEF Begin, Ignored, OrchestrateIgnored, Idle, TypeOK
  <2>4. batch.status \in {"pending", "running"}
    BY <2>3 DEF TypeOK, BatchStatus, Terminal
  <2>5. ASSUME batch.status = "pending"
        PROVE  /\ chunk' = [c \in Chunks |-> NoRow]
               /\ \A k \in Job : k # "orchestrate_batch" => queue'[k] = 0
               /\ \A t \in Slots : t # s => At(t, "idle")'
    <3>1. queue["orchestrate_batch"] > 0 /\ \A t \in Slots : ~At(t, "orchestrate")
      BY <1>0, <2>1, <2>2 DEF Begin, Dequeue, OneOrchestration, Orchestrates
    <3> QED BY <2>1, <2>2, <2>3, <2>5, <3>1
            DEF PendingUntouched, Begin, Dequeue, tables, At, TypeOK
  <2> QED BY <2>3, <2>4, <2>5
<1>2. CASE ~\E j \in Job : Begin(s, j)
  <2>1. worker'[s] = worker[s]
    <3> SUFFICES ASSUME worker'[s] # worker[s] PROVE FALSE
      OBVIOUS
    <3>1. PICK t \in Slots : \/ Step(t) \/ Crash(t) \/ Drop(t)
                             \/ (\E c \in Chunks : Raise(t, c)) \/ \E j \in Job : Take(t, j)
      BY DEF Next, Fault, CronReclaim, ExpireLease, OutliveLease, Replay, CancelRead,
             CancelCommit, RestartRedis, vars
    <3>m. /\ Return(t) => worker'[t].pc = "idle"
          /\ \A pc : Goto(t, pc) => worker'[t].pc = pc
          /\ \A out, lapsed : StartFanout(t, out, lapsed) => worker'[t].pc \in {"rearm", "fanout"}
      <4>1. Return(t) => worker'[t].pc = "idle"
        BY DEF Return, Idle, TypeOK
      <4>2. ASSUME NEW pc, Goto(t, pc) PROVE worker'[t].pc = pc
        BY <4>2 DEF Goto, Idle, TypeOK
      <4>3. ASSUME NEW out, NEW lapsed, StartFanout(t, out, lapsed)
            PROVE  worker'[t].pc \in {"rearm", "fanout"}
        BY <4>3 DEF StartFanout, Idle, TypeOK
      <4> QED BY <4>1, <4>2, <4>3
    <3>o. \A v \in Slots : v # t => worker'[v] = worker[v]
      BY <3>1, OthersKept
    <3>2. CASE Crash(t) \/ Drop(t)
      BY <3>2, <3>m, <3>o DEF Crash, Drop, At
    <3>3. CASE \E c \in Chunks : Raise(t, c)
      <4>1. worker'[t].pc = "except"
        BY <3>3 DEF Raise, Idle, TypeOK
      <4> QED BY <3>o, <4>1 DEF At
    <3>4. CASE \E j \in Job : Take(t, j)
      BY <1>2, <3>4, <3>o DEF Take, Ignore
    <3>5. CASE Step(t)
      <4>1. CASE Fanout(t)
        <5>1. PICK c \in worker[t].out :
            worker' = [worker EXCEPT ![t].out = worker[t].out \ {c},
                                     ![t].pc = IF worker[t].out \ {c} = {}
                                               THEN AfterFanout(worker[t])
                                               ELSE "fanout"]
          BY <4>1 DEF Fanout
        <5>2. worker'[t].pc \in {"fanout", "requeue_commit", "rearm"}
          BY <5>1 DEF AfterFanout, TypeOK, SlotState
        <5> QED BY <3>o, <5>2 DEF At
      <4>2. CASE \E c \in Chunks : Infer(t, c) \/ Flush(t, c)
        <5>1. worker'[t].pc \in {"flush", "commit"}
          BY <4>2 DEF Infer, Flush, TypeOK, SlotState
        <5> QED BY <3>o, <5>1 DEF At
      <4>4. CASE Reclaim(t)
        <5>1. worker'[t].pc = "count"
          BY <4>4 DEF Reclaim, TypeOK, SlotState
        <5> QED BY <3>o, <5>1 DEF At
      <4>3. CASE ~Fanout(t) /\ ~Reclaim(t) /\ ~\E c \in Chunks : Infer(t, c) \/ Flush(t, c)
        <5>1. \/ Return(t) \/ \E pc : Goto(t, pc) /\ pc # "orchestrate"
              \/ \E out, lapsed : StartFanout(t, out, lapsed)
          BY <3>5, <4>3 DEF Step, ProcessChunk, Orchestrate, LeaseChunk, CheckCancelled,
             ReleaseCancelled, Commit, RetryChunk, FailBatch, AbandonChunk,
             Count, FailCounted, Requeue, RequeueCommit, Concatenate, Publish, Notify, HandOff
        <5> QED BY <3>m, <3>o, <5>1 DEF At
      <4> QED BY <4>1, <4>2, <4>3, <4>4
    <3> QED BY <3>1, <3>2, <3>3, <3>4, <3>5
  <2>2. At(s, "orchestrate") /\ Orchestrates(s)
    BY <1>0, <2>1 DEF At, Orchestrates
  <2>3. ASSUME worker[s].saw = "pending"
        PROVE  /\ chunk' = chunk
               /\ \A j \in Job : j # "orchestrate_batch" => queue'[j] = 0
               /\ \A t \in Slots : t # s => At(t, "idle")'
    <3>1. /\ chunk = [c \in Chunks |-> NoRow]
          /\ \A j \in Job : j # "orchestrate_batch" => queue[j] = 0
          /\ \A t \in Slots : t # s => At(t, "idle")
          /\ queue["orchestrate_batch"] = 0
      BY <2>2, <2>3 DEF FirstOrchestration, OneOrchestration
    <3>2. \A t \in Slots, j \in Job : ~Take(t, j)
      BY <3>1 DEF Take, Begin, Ignore, Dequeue
    <3>3. \A t \in Slots : ~Step(t) /\ ~Crash(t) /\ ~Drop(t) /\ \A c \in Chunks : ~Raise(t, c)
      <4> SUFFICES ASSUME NEW t \in Slots
                   PROVE  ~Step(t) /\ ~Crash(t) /\ ~Drop(t) /\ \A c \in Chunks : ~Raise(t, c)
        OBVIOUS
      <4>1. CASE t = s
        <5>1. worker'[s].pc = "orchestrate" /\ worker[s].pc = "orchestrate"
          BY <2>1, <2>2 DEF At
        <5>2. ~Orchestrate(s)
          <6>1. \A out, lapsed : StartFanout(s, out, lapsed) =>
                   worker'[s].pc \in {"rearm", "fanout"}
            BY DEF StartFanout, Idle, TypeOK
          <6> QED BY <5>1, <6>1 DEF Orchestrate
        <5>3. ~Crash(s) /\ ~Drop(s)
          BY <5>1 DEF Crash, Drop, Return, Idle, TypeOK
        <5> QED BY <4>1, <5>1, <5>2, <5>3
             DEF Step, ProcessChunk, Fanout, LeaseChunk, CheckCancelled,
                 ReleaseCancelled, Infer, Flush, Commit, RetryChunk, FailBatch, AbandonChunk,
                 Reclaim, Count, FailCounted, Requeue, RequeueCommit, Concatenate, Publish,
                 HandOff, Nudge, Rearm,
                 StartFinalize, EnqueueRetry, Notify, Works, At, Raise, Tried
      <4>2. CASE t # s
        <5>1. worker[t].pc = "idle"
          BY <3>1, <4>2 DEF At
        <5> QED BY <5>1
             DEF Step, ProcessChunk, Orchestrate, Fanout, LeaseChunk, CheckCancelled,
                 ReleaseCancelled, Infer, Flush, Commit, RetryChunk, FailBatch, AbandonChunk,
                 Reclaim, Count, FailCounted, Requeue, RequeueCommit, Concatenate, Publish,
                 HandOff, Nudge, Rearm,
                 StartFinalize, EnqueueRetry, Notify, Works, At, Raise, Tried, Crash, Drop
      <4> QED BY <4>1, <4>2
    <3>4. ~CronReclaim /\ \A c \in Chunks : ~ExpireLease(c) /\ ~OutliveLease(c)
      BY <3>1 DEF CronReclaim, LapsedChunks, Lapsed, NoRow, ExpireLease, OutliveLease
    <3>5. worker' = worker /\ chunk' = chunk /\ (queue' = queue \/ queue' = [j \in Job |-> 0])
      BY <3>2, <3>3, <3>4 DEF Next, Fault, RestartRedis, CancelRead, CancelCommit, vars, tables
    <3> QED BY <3>1, <3>5 DEF At
  <2> QED BY <2>1, <2>2, <2>3 DEF FirstOrchestration
<1> QED BY <1>1, <1>2

(* A slot that is about to write a failed verdict has just counted.        *)
LEMMA VerdictReached ==
    ASSUME TypeOK, [Next]_vars, NEW s \in Slots, At(s, "fail")', ~At(s, "fail")
    PROVE  Count(s) /\ MustFail(chunk')
<1>1. \A pc : Goto(s, pc) => worker'[s].pc = pc
  BY DEF Goto, Idle, TypeOK
<1>2. Return(s) => worker'[s].pc = "idle"
  BY DEF Return, Idle, TypeOK
<1>3. \A out, lapsed : StartFanout(s, out, lapsed) => worker'[s].pc \in {"rearm", "fanout"}
  BY DEF StartFanout, Idle, TypeOK
<1>4. worker'[s].pc = "fail" /\ worker'[s] # worker[s]
  BY DEF At
<1>5. PICK t \in Slots : \/ Step(t) \/ Crash(t) \/ Drop(t)
                         \/ (\E c \in Chunks : Raise(t, c)) \/ \E j \in Job : Take(t, j)
  BY <1>4 DEF Next, Fault, CronReclaim, ExpireLease, OutliveLease, Replay, CancelRead,
     CancelCommit, RestartRedis, vars
<1>6. t = s
  BY <1>4, <1>5, OthersKept
<1>7. ~Crash(s) /\ ~Drop(s)
  BY <1>2, <1>4 DEF Crash, Drop
<1>8. \A c \in Chunks : ~Raise(s, c)
  <2> SUFFICES ASSUME NEW c \in Chunks, Raise(s, c) PROVE FALSE
    OBVIOUS
  <2>1. worker'[s].pc = "except"
    BY DEF Raise, Idle, TypeOK
  <2> QED BY <1>4, <2>1
<1>9. \A j \in Job : ~Take(s, j)
  <2> SUFFICES ASSUME NEW j \in Job, Take(s, j) PROVE FALSE
    OBVIOUS
  <2>1. FirstPC(j) # "fail"
    BY DEF FirstPC
  <2>2. Begin(s, j) => worker'[s].pc = FirstPC(j)
    BY DEF Begin, Idle, TypeOK
  <2> QED BY <1>4, <2>1, <2>2 DEF Take, Ignore
<1>10. ~Fanout(s)
  <2> SUFFICES ASSUME Fanout(s) PROVE FALSE
    OBVIOUS
  <2>1. PICK c \in worker[s].out :
          worker' = [worker EXCEPT ![s].out = worker[s].out \ {c},
                                   ![s].pc = IF worker[s].out \ {c} = {}
                                             THEN AfterFanout(worker[s])
                                             ELSE "fanout"]
    BY DEF Fanout
  <2> QED BY <1>4, <2>1 DEF AfterFanout, TypeOK, SlotState
<1>11. ~Reclaim(s) /\ \A c \in Chunks : ~Infer(s, c) /\ ~Flush(s, c)
  BY <1>4 DEF Reclaim, Infer, Flush, TypeOK, SlotState
<1>12. ASSUME ~Count(s) PROVE FALSE
  <2>1. \/ Return(s) \/ (\E pc : Goto(s, pc) /\ pc # "fail")
        \/ \E out, lapsed : StartFanout(s, out, lapsed)
    BY <1>5, <1>6, <1>7, <1>8, <1>9, <1>10, <1>11, <1>12
       DEF Step, ProcessChunk, Orchestrate, LeaseChunk, CheckCancelled, ReleaseCancelled,
           Commit, RetryChunk, FailBatch, AbandonChunk, FailCounted, Requeue,
           RequeueCommit, Concatenate, Publish, Notify, HandOff
  <2> QED BY <1>1, <1>2, <1>3, <1>4, <2>1
<1> QED BY <1>1, <1>4, <1>12 DEF Count

(* A chunk becomes failed only with its batch, and the batch runs again    *)
(* only by an orchestration, which has nothing to revive.                  *)
LEMMA FailedKept ==
    ASSUME TypeOK, CheckpointInv, FirstOrchestration, FailedTogether, [Next]_vars
    PROVE  FailedTogether'
<1>0. /\ \A st \in BatchStatus : [batch EXCEPT !.status = st].status = st
      /\ \A c \in Chunks : chunk[c] \in ChunkRow
  BY DEF TypeOK
<1>1. ASSUME NEW c \in Chunks, chunk'[c].status = "failed", chunk[c].status # "failed"
      PROVE  batch'.status = "failed"
  <2>1. \E s \in Slots : FailBatch(s, c)
    <3> SUFFICES ASSUME ~\E s \in Slots : FailBatch(s, c) PROVE FALSE
      OBVIOUS
    <3>0. ~\E s \in Slots : FailBatch(s, c)
      OBVIOUS
    <3>1. \A cur \in ChunkRow, seen \in ChunkRow : cur.status # "failed" =>
            /\ Leased(seen, cur).status # "failed"
            /\ (\A f : Succeeded(cur, f).status # "failed")
            /\ Failed(seen, cur, "pending").status # "failed"
            /\ Released(cur).status # "failed"
      BY DEF ChunkRow, Leased, Succeeded, Failed, Released, Emit
    <3>2. \A s \in Slots : worker[s].row \in ChunkRow
      BY DEF TypeOK, SlotState
    <3>3. \A s \in Slots, d \in Chunks : ~ProcessChunk(s, d)
      <4> SUFFICES ASSUME NEW s \in Slots, NEW d \in Chunks, ProcessChunk(s, d) PROVE FALSE
        OBVIOUS
      <4>1. CASE LeaseChunk(s, d)
        BY <1>0, <1>1, <3>1, <3>2, <4>1 DEF LeaseChunk, TypeOK
      <4>2. CASE ReleaseCancelled(s, d)
        BY <1>0, <1>1, <3>1, <3>2, <4>2 DEF ReleaseCancelled, TypeOK
      <4>3. CASE Commit(s, d)
        BY <1>0, <1>1, <3>1, <3>2, <4>3 DEF Commit, TypeOK
      <4>4. CASE RetryChunk(s, d)
        BY <1>0, <1>1, <3>1, <3>2, <4>4 DEF RetryChunk, TypeOK
      <4>5. CASE FailBatch(s, d)
        <5>1. d # c
          BY <3>0, <4>5
        <5> QED BY <1>1, <4>5, <5>1 DEF FailBatch, TypeOK
      <4>6. CASE UNCHANGED chunk
        BY <1>1, <4>6
      <4> QED BY <4>1, <4>2, <4>3, <4>4, <4>5, <4>6
              DEF ProcessChunk, CheckCancelled, Infer, Flush, AbandonChunk, tables
    <3>4. Reclaimed(chunk)[c].status # "failed" /\ Reclaimed(Rows)[c].status # "failed"
      BY <1>0, <1>1, <3>1, NoRowType DEF Reclaimed, Rows, NewRow, NoRow
    <3>5. \A s \in Slots : ~Step(s)
      <4> SUFFICES ASSUME NEW s \in Slots, Step(s) PROVE FALSE
        OBVIOUS
      <4>1. CASE RequeueCommit(s)
        BY <1>0, <1>1, <3>1, <4>1 DEF RequeueCommit, SetBack
      <4>2. CASE Orchestrate(s)
        BY <1>1, <3>4, <4>2 DEF Orchestrate
      <4>3. CASE Count(s)
        BY <1>0, <1>1, <3>1, <4>3 DEF Count, SetBack
      <4> QED BY <1>1, <3>3, <4>1, <4>2, <4>3 DEF Step, Fanout, Reclaim, FailCounted,
               Requeue, Concatenate, Publish, HandOff, Notify, tables
    <3>6. CASE CronReclaim
      BY <1>1, <3>4, <3>6 DEF CronReclaim
    <3>7. ASSUME NEW d \in Chunks, ExpireLease(d) \/ OutliveLease(d) PROVE FALSE
      BY <1>0, <1>1, <3>7 DEF ExpireLease, OutliveLease, TypeOK, ChunkRow
    <3> QED BY <1>1, <3>5, <3>6, <3>7 DEF Next, Fault, Take, Begin, Ignore, Crash, Drop,
            Raise, RestartRedis, Replay, CancelRead, CancelCommit, tables, vars
  <2> QED BY <1>0, <2>1 DEF FailBatch, BatchStatus
<1>2. ASSUME \/ \E c \in Chunks : chunk[c].status = "failed"
             \/ \E t \in Slots : At(t, "fail")
      PROVE  batch'.status \notin {"pending", "running"}
  <2>1. batch.status \notin {"pending", "running"}
    BY <1>2 DEF FailedTogether
  <2>2. ASSUME NEW s \in Slots, Orchestrate(s) PROVE batch' = batch
    <3>1. worker[s].saw = "running"
      BY <1>2, <2>2 DEF Orchestrate, FirstOrchestration, At, NoRow
    <3> QED BY <2>2, <3>1 DEF Orchestrate, Emit, TypeOK
  <2>3. \/ batch' = batch \/ batch'.status = "completed"
        \/ (\E st \in {"failed", "cancelled"} : batch' = [batch EXCEPT !.status = st])
    <3>1. ASSUME NEW s \in Slots, Step(s)
          PROVE  \/ batch' = batch \/ batch'.status = "completed"
                 \/ \E st \in {"failed", "cancelled"} : batch' = [batch EXCEPT !.status = st]
      <4>1. CASE Orchestrate(s)
        BY <2>2, <4>1
      <4>2. CASE \E d \in Chunks : FailBatch(s, d)
        BY <4>2 DEF FailBatch
      <4>3. CASE \E d \in Chunks : ProcessChunk(s, d) /\ ~FailBatch(s, d)
        BY <4>3 DEF ProcessChunk, LeaseChunk, CheckCancelled, ReleaseCancelled, Infer,
           Flush, Commit, RetryChunk, AbandonChunk, tables
      <4>4. CASE FailCounted(s)
        BY <4>4 DEF FailCounted
      <4>5. CASE Publish(s)
        BY <4>5 DEF Publish
      <4>6. CASE Fanout(s) \/ Reclaim(s) \/ Count(s) \/ Requeue(s) \/ RequeueCommit(s)
                 \/ Concatenate(s) \/ HandOff(s) \/ Notify(s)
        BY <4>6 DEF Fanout, Reclaim, Count, Requeue, RequeueCommit, Concatenate, HandOff, Notify, tables
      <4> QED BY <3>1, <4>1, <4>2, <4>3, <4>4, <4>5, <4>6 DEF Step
    <3>2. ASSUME ~\E s \in Slots : Step(s)
          PROVE  batch' = batch \/ batch' = [batch EXCEPT !.status = "cancelled"]
      BY <3>2 DEF Next, Fault, Take, Begin, Ignore, Crash, Drop, Raise, RestartRedis,
         OutliveLease, CronReclaim, ExpireLease, Replay, CancelRead, CancelCommit, tables, vars
    <3> QED BY <3>1, <3>2
  <2> QED BY <1>0, <2>1, <2>3 DEF BatchStatus
<1>3. ASSUME NEW s \in Slots, At(s, "except")', worker'[s].row.status = "failed"
      PROVE  worker'[s].saw # "running"
  <2>1. CASE worker'[s] = worker[s]
    BY <1>3, <2>1 DEF FailedTogether, At
  <2>2. CASE \E c \in Chunks : Raise(s, c)
    <3>1. PICK c \in Chunks : Raise(s, c)
      BY <2>2
    <3>2. worker'[s].row = chunk[c] /\ worker'[s].saw = batch.status
      BY <3>1 DEF Raise, Idle, TypeOK
    <3> QED BY <1>3, <3>2 DEF FailedTogether
  <2>3. ASSUME worker'[s] # worker[s], ~\E c \in Chunks : Raise(s, c) PROVE FALSE
    <3>1. PICK t \in Slots : \/ Step(t) \/ Crash(t) \/ Drop(t)
                             \/ (\E c \in Chunks : Raise(t, c)) \/ \E j \in Job : Take(t, j)
      BY <2>3 DEF Next, Fault, CronReclaim, ExpireLease, OutliveLease, Replay, CancelRead,
             CancelCommit, RestartRedis, vars
    <3>2. worker'[t].pc # "except" \/ \E c \in Chunks : Raise(t, c)
      <4>1. \A pc : Goto(t, pc) => worker'[t].pc = pc
        BY DEF Goto, Idle, TypeOK
      <4>2. Return(t) => worker'[t].pc # "except"
        BY DEF Return, Idle, TypeOK
      <4>3. \A out, lapsed : StartFanout(t, out, lapsed) => worker'[t].pc # "except"
        BY DEF StartFanout, Idle, TypeOK
      <4>4. CASE \E j \in Job : Take(t, j)
        <5>1. PICK j \in Job : Take(t, j)
          BY <4>4
        <5>2. FirstPC(j) # "except"
          BY DEF FirstPC
        <5>3. Begin(t, j) => worker'[t].pc = FirstPC(j)
          BY DEF Begin, Idle, TypeOK
        <5>4. Ignore(t, j) => worker'[t].pc = "idle"
          BY DEF Ignore, At
        <5> QED BY <5>1, <5>2, <5>3, <5>4 DEF Take
      <4>5. CASE Fanout(t)
        <5>1. PICK c \in worker[t].out :
            worker' = [worker EXCEPT ![t].out = worker[t].out \ {c},
                                     ![t].pc = IF worker[t].out \ {c} = {}
                                               THEN AfterFanout(worker[t])
                                               ELSE "fanout"]
          BY <4>5 DEF Fanout
        <5> QED BY <5>1 DEF AfterFanout, TypeOK, SlotState
      <4>6. CASE \E c \in Chunks : Infer(t, c) \/ Flush(t, c)
        BY <4>6 DEF Infer, Flush, TypeOK, SlotState
      <4>8. CASE Reclaim(t)
        BY <4>8 DEF Reclaim, TypeOK, SlotState
      <4>7. ASSUME Step(t), ~Fanout(t), ~Reclaim(t), ~\E c \in Chunks : Infer(t, c) \/ Flush(t, c)
            PROVE  worker'[t].pc # "except"
        <5>1. \/ Return(t) \/ (\E pc : Goto(t, pc) /\ pc # "except")
              \/ \E out, lapsed : StartFanout(t, out, lapsed)
          BY <4>7 DEF Step, ProcessChunk, Orchestrate, LeaseChunk, CheckCancelled,
             ReleaseCancelled, Commit, RetryChunk, FailBatch, AbandonChunk,
             Count, FailCounted, Requeue, RequeueCommit, Concatenate, Publish, Notify, HandOff
        <5> QED BY <4>1, <4>2, <4>3, <5>1
      <4> QED BY <3>1, <4>2, <4>4, <4>5, <4>6, <4>7, <4>8 DEF Crash, Drop
    <3>3. \A v \in Slots : v # t => worker'[v] = worker[v]
      BY <3>1, OthersKept
    <3> QED BY <1>3, <2>3, <3>2, <3>3 DEF At
  <2> QED BY <2>1, <2>2, <2>3
<1>4. ASSUME NEW s \in Slots, At(s, "fail")'
      PROVE  batch'.status \notin {"pending", "running"}
  <2>1. CASE At(s, "fail")
    BY <1>2, <2>1
  <2>2. CASE ~At(s, "fail")
    <3>1. Count(s) /\ MustFail(chunk')
      BY <1>4, <2>2, VerdictReached
    <3>2. \E c \in Chunks : chunk'[c].status = "failed"
      BY <3>1 DEF MustFail, AnyIn, WithStatus
    <3>3. \A c \in Chunks : SetBack(worker[s].lapsed)[c].status \in {"pending", chunk[c].status}
      BY <1>0 DEF SetBack, Released, ChunkRow
    <3>4. \E c \in Chunks : chunk[c].status = "failed"
      BY <3>1, <3>2, <3>3 DEF Count
    <3> QED BY <1>2, <3>4
  <2> QED BY <2>1, <2>2
<1> QED BY <1>1, <1>2, <1>3, <1>4 DEF FailedTogether

LEMMA FailStep ==
    ASSUME TypeOK, CheckpointInv, PendingUntouched, FailInv, [Next]_vars
    PROVE  FailInv'
<1>1. /\ \A f \in Faults : left'[f] <= Budget[f]
      /\ NoReplay' => NoReplay /\ ~Replay
  BY BudgetKept DEF FailInv
<1>2. ASSUME NoReplay' PROVE (OneOrchestration /\ FirstOrchestration /\ FailedTogether)'
  <2>1. NoReplay /\ ~Replay /\ OneOrchestration /\ FirstOrchestration /\ FailedTogether
    BY <1>1, <1>2 DEF FailInv
  <2> QED BY <2>1, OrchestrationKept, FirstKept, FailedKept
<1> QED BY <1>1, <1>2 DEF FailInv

(* The batch becomes failed in two places.  The except path saw it running *)
(* and so did not see the chunk failed: the status it writes is emitted.   *)
(* The completion check has counted a failed chunk, with which the batch   *)
(* ended: its verdict comes too late for a batch that has not.             *)
LEMMA FailingStep ==
    ASSUME TypeOK, FailedTogether, Next,
           batch.status \notin Terminal, batch'.status = "failed"
    PROVE  WithStatus(chunk', {"failed"}) # {}
<1>0. /\ \A st : [batch EXCEPT !.status = st].status = st
      /\ \A c \in Chunks : chunk[c] \in ChunkRow
      /\ \A s \in Slots : worker[s].row \in ChunkRow
  BY DEF TypeOK, SlotState
<1>1. ASSUME NEW s \in Slots, NEW c \in Chunks, FailBatch(s, c)
      PROVE  WithStatus(chunk', {"failed"}) # {}
  <2>1. worker[s].row.status # "failed"
    BY <1>1 DEF FailBatch, Works, FailedTogether, At
  <2>2. Failed(worker[s].row, chunk[c], "failed").status = "failed"
    BY <1>0, <2>1 DEF Failed, Emit, ChunkRow
  <2>3. chunk'[c].status = "failed"
    BY <1>1, <2>2 DEF FailBatch, TypeOK
  <2> QED BY <2>3 DEF WithStatus
<1>u. batch.status \in {"pending", "running"}
  BY DEF TypeOK, BatchStatus, Terminal
<1>2. ASSUME NEW s \in Slots, FailCounted(s) PROVE FALSE
  BY <1>2, <1>u DEF FailCounted, FailedTogether
<1>3. ASSUME ~\E s \in Slots : FailCounted(s) \/ \E c \in Chunks : FailBatch(s, c)
      PROVE  FALSE
  <2>1. ASSUME NEW s \in Slots, Orchestrate(s) PROVE FALSE
    BY <1>0, <1>u, <2>1 DEF Orchestrate, Emit, TypeOK
  <2>2. ASSUME NEW s \in Slots, Step(s) PROVE FALSE
    <3>1. CASE \E c \in Chunks : ProcessChunk(s, c)
      <4>1. PICK c \in Chunks : ProcessChunk(s, c) /\ ~FailBatch(s, c)
        BY <1>3, <3>1
      <4>2. batch' = batch
        BY <4>1 DEF ProcessChunk, LeaseChunk, CheckCancelled, ReleaseCancelled, Infer,
           Flush, Commit, RetryChunk, AbandonChunk, tables
      <4> QED BY <1>u, <4>2
    <3>2. CASE Publish(s)
      BY <3>2 DEF Publish
    <3>3. CASE Fanout(s) \/ Reclaim(s) \/ Count(s) \/ Requeue(s) \/ RequeueCommit(s)
               \/ Concatenate(s) \/ HandOff(s) \/ Notify(s)
      BY <1>u, <3>3 DEF Fanout, Reclaim, Count, Requeue, RequeueCommit, Concatenate, HandOff, Notify, tables
    <3> QED BY <1>3, <2>1, <2>2, <3>1, <3>2, <3>3 DEF Step
  <2>3. CASE CancelCommit
    BY <1>0, <2>3 DEF CancelCommit
  <2> QED BY <1>u, <2>2, <2>3 DEF Next, Fault, Take, Begin, Ignore, Crash, Drop, Raise,
          RestartRedis, OutliveLease, CronReclaim, ExpireLease, Replay, CancelRead, tables
<1> QED BY <1>1, <1>2, <1>3

(* As long as no creation is replayed, an unfinished batch fails only      *)
(* while a chunk of it is failed (jobs.py:130-165 and 343-404), for any    *)
(* number of slots and chunks, though a check writes its verdict later     *)
(* than it has counted.                                                    *)
THEOREM FailsTogether == Spec => FailsWithAChunk
<1>1. TypeOK /\ FailInv /\ [Next]_vars =>
        [NoReplay /\ batch.status \notin Terminal /\ batch'.status = "failed" =>
           WithStatus(chunk', {"failed"}) # {}]_vars
  BY FailingStep DEF FailInv
<1>2. TypeOK /\ CheckpointInv /\ PendingUntouched /\ FailInv /\ [Next]_vars => FailInv'
  BY FailStep
<1> QED BY <1>1, <1>2, FailInitial, TypeCorrect, CheckpointInvariant, PendingInvariant, PTL
        DEF Spec, FailsWithAChunk
============================================================================
