-------------------------- MODULE DocumentedClaims --------------------------
(***************************************************************************)
(* What the documents and comments of the repository say of the pipeline   *)
(* and BatchPipeline does not do.  Each has a run of its own that shows    *)
(* how it fails.                                                           *)
(***************************************************************************)
EXTENDS BatchPipeline

(* design.md:156 and 296: completed, failed and cancelled are terminal.    *)
(* orchestrate_batch, finalize_batch and the cancel endpoint write the     *)
(* status over whatever it became since they read it.                      *)
TerminalIsFinal ==
    [][batch.status \in Terminal => batch'.status = batch.status]_vars

(* design.md:302 and 439: the recompute is the source of truth, so a batch *)
(* is completed with all its items counted.  Two success paths that commit *)
(* together each sum a snapshot without the other's row (READ COMMITTED),  *)
(* and nothing recomputes afterwards.                                      *)
CompletedCountsAll ==
    batch.status = "completed" =>
        progress.completed_items = ChunkItems * Cardinality(Chunks)

(* design.md:324: after a Redis restart, pending leases and the completion *)
(* poll recover the work.  The poll is itself a deferred job and is lost;  *)
(* the cron job reclaims leases and enqueues nothing.                      *)
RedisRestartRecovers == batch.status = "running" ~> batch.status \in Terminal
============================================================================
