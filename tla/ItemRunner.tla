----------------------------- MODULE ItemRunner -----------------------------
(***************************************************************************)
(* The items of a chunk: run_one and the gather around it (process_chunk   *)
(* in app/workers/jobs.py), the concurrency gate they share, and the token *)
(* bucket and the provider as far as an item sees them.  The runs are the  *)
(* executions of process_chunk for one batch in one worker process: its    *)
(* chunks, and the retries of a chunk.  An exception in one item ends the  *)
(* gather but not the other items, which go on beside the retry.           *)
(***************************************************************************)
EXTENDS Naturals, FiniteSets

CONSTANTS
    Runs,            \* executions of process_chunk
    Items,           \* the lines of a chunk
    MaxConcurrency,  \* max_concurrency of the batch
    MaxCalls,        \* range(3)
    Budget           \* bound: cancellations, exceptions, job timeouts

Faults == {"cancel", "raise", "timeout"}

ASSUME GateAssumption   == MaxConcurrency \in Nat \ {0}
ASSUME CallsAssumption  == MaxCalls \in Nat \ {0}
ASSUME BudgetAssumption == Budget \in [Faults -> Nat]

VARIABLES
    run,         \* what has become of each run
    item,        \* where each item stands, how often it called, its outcome
    holders,     \* the items that hold a permit of the semaphore
    cancelled,   \* the batch is cancelled
    paused,      \* the bucket is paused
    late,        \* the call that brought the pause on, and those begun since
    left         \* the faults still to come

vars == <<run, item, holders, cancelled, paused, late, left>>

Tasks   == Runs \X Items
RunPC   == {"idle", "running", "returned", "released", "raised", "gone"}
ItemPC  == {"none", "new", "wait", "acquire", "ready", "call", "pause",
            "backoff", "done", "raised", "dropped"}
Outcome == {"none", "final", "retryable", "cancelled"}
ItemState == [pc : ItemPC, calls : 0 .. MaxCalls, last : Outcome]

TypeOK ==
    /\ run \in [Runs -> RunPC]
    /\ item \in [Tasks -> ItemState]
    /\ holders \subseteq Tasks
    /\ cancelled \in BOOLEAN
    /\ paused \in BOOLEAN
    /\ late \subseteq Tasks \X (1 .. MaxCalls)
    /\ left \in [Faults -> Nat]

Fresh(pc) == [pc |-> pc, calls |-> 0, last |-> "none"]

Init ==
    /\ run = [r \in Runs |-> "idle"]
    /\ item = [t \in Tasks |-> Fresh("none")]
    /\ holders = {}
    /\ cancelled = FALSE
    /\ paused = FALSE
    /\ late = {}
    /\ left = Budget

----------------------------------------------------------------------------
At(t, pc)   == item[t].pc = pc
Goto(t, pc) == item' = [item EXCEPT ![t].pc = pc]
Spend(f)    == left[f] > 0 /\ left' = [left EXCEPT ![f] = @ - 1]
Of(r)       == {t \in Tasks : t[1] = r}

(* gather starts an item for every line.                                   *)
Start(r) ==
    /\ run[r] = "idle"
    /\ run' = [run EXCEPT ![r] = "running"]
    /\ item' = [t \in Tasks |-> IF t \in Of(r) THEN Fresh("new") ELSE item[t]]
    /\ UNCHANGED <<holders, cancelled, paused, late, left>>

(* The item reads the batch: a cancelled one ends it before the gate.      *)
Begin(t) ==
    /\ At(t, "new")
    /\ IF cancelled
       THEN item' = [item EXCEPT ![t] = [@ EXCEPT !.pc = "done", !.last = "cancelled"]]
       ELSE Goto(t, "wait")
    /\ UNCHANGED <<run, holders, cancelled, paused, late, left>>

(* async with sem.  A mutant: every job makes a semaphore of its own.      *)
FreeOfRun(t) == Cardinality(holders \cap Of(t[1])) < MaxConcurrency
Free(t)      == Cardinality(holders) < MaxConcurrency

Enter(t) ==
    /\ At(t, "wait") /\ Free(t)
    /\ holders' = holders \cup {t}
    /\ Goto(t, "acquire")
    /\ UNCHANGED <<run, cancelled, paused, late, left>>

(* limiter.acquire.  A mutant: the pause is not looked at.                 *)
AcquirePaused(t) ==
    /\ At(t, "acquire")
    /\ Goto(t, "ready")
    /\ UNCHANGED <<run, holders, cancelled, paused, late, left>>
Acquire(t) ==
    /\ At(t, "acquire") /\ ~paused
    /\ Goto(t, "ready")
    /\ UNCHANGED <<run, holders, cancelled, paused, late, left>>

Infer(t) ==
    /\ At(t, "ready")
    /\ item' = [item EXCEPT ![t] = [@ EXCEPT !.pc = "call", !.calls = item[t].calls + 1]]
    /\ late' = IF paused THEN late \cup {<<t, item[t].calls + 1>>} ELSE late
    /\ UNCHANGED <<run, holders, cancelled, paused, left>>

(* The item leaves the gate with its last answer.  A mutant: it keeps its  *)
(* permit.                                                                 *)
FinishedInside(t, kind) ==
    /\ item' = [item EXCEPT ![t] = [@ EXCEPT !.pc = "done", !.last = kind]]
    /\ holders' = holders
Finished(t, kind) ==
    /\ item' = [item EXCEPT ![t] = [@ EXCEPT !.pc = "done", !.last = kind]]
    /\ holders' = holders \ {t}

(* The provider's answer: 429, 5xx and transport errors are retryable, any *)
(* other status from 400 is terminal; it ends the loop as an output does.  *)
Answer(t) ==
    /\ At(t, "call")
    /\ Finished(t, "final")
    /\ UNCHANGED <<run, cancelled, paused, late, left>>

(* A retryable one, with a Retry-After or without.                         *)
AnswerRetryable(t) ==
    /\ At(t, "call")
    /\ \E pc \in {"pause", "backoff"} :
         item' = [item EXCEPT ![t] = [@ EXCEPT !.pc = pc, !.last = "retryable"]]
    /\ UNCHANGED <<run, holders, cancelled, paused, late, left>>

(* limiter.pause, or an exception in it, which is swallowed.               *)
Pause(t) ==
    /\ At(t, "pause")
    /\ \/ UNCHANGED <<paused, late>>
       \/ /\ paused' = TRUE
          /\ late' = IF paused THEN late ELSE {<<t, item[t].calls>>}
    /\ Goto(t, "backoff")
    /\ UNCHANGED <<run, holders, cancelled, left>>

(* After its sleep the loop calls again, without a token, or is through.   *)
(* A mutant: the loop makes one call less.                                 *)
MoreEarly(t) == item[t].calls + 1 < MaxCalls
More(t)      == item[t].calls < MaxCalls

BackOff(t) ==
    /\ At(t, "backoff")
    /\ IF More(t) THEN Goto(t, "ready") /\ UNCHANGED holders
       ELSE Finished(t, "retryable")
    /\ UNCHANGED <<run, cancelled, paused, late, left>>

----------------------------------------------------------------------------
(* An exception: the session fails, acquire gives up after 120 s, or the   *)
(* answer does not parse.  A mutant: the permit is not given back.         *)
RaiseKeepingPermit(t) ==
    /\ At(t, "new") \/ At(t, "acquire") \/ At(t, "call")
    /\ Spend("raise")
    /\ Goto(t, "raised")
    /\ UNCHANGED <<run, holders, cancelled, paused, late>>
Raise(t) ==
    /\ At(t, "new") \/ At(t, "acquire") \/ At(t, "call")
    /\ Spend("raise")
    /\ Goto(t, "raised")
    /\ holders' = holders \ {t}
    /\ UNCHANGED <<run, cancelled, paused, late>>

Item(t) == \/ Begin(t) \/ Enter(t) \/ Acquire(t) \/ Infer(t) \/ Answer(t)
           \/ AnswerRetryable(t) \/ Pause(t) \/ BackOff(t)

(* gather returns when all items are done; a cancelled one releases the    *)
(* chunk.  It raises as soon as one item has.                              *)
AnyCancelled(r) == \E t \in Of(r) : item[t].last = "cancelled"

Return(r) ==
    /\ run[r] = "running"
    /\ \A t \in Of(r) : At(t, "done")
    /\ run' = [run EXCEPT ![r] = IF AnyCancelled(r) THEN "released" ELSE "returned"]
    /\ UNCHANGED <<item, holders, cancelled, paused, late, left>>

GatherRaises(r) ==
    /\ run[r] = "running"
    /\ \E t \in Of(r) : At(t, "raised")
    /\ run' = [run EXCEPT ![r] = "raised"]
    /\ UNCHANGED <<item, holders, cancelled, paused, late, left>>

(* The job timeout cancels the gather and with it every item under way.    *)
TimeOut(r) ==
    /\ run[r] = "running"
    /\ Spend("timeout")
    /\ run' = [run EXCEPT ![r] = "gone"]
    /\ item' = [t \in Tasks |->
         IF t \in Of(r) /\ ~At(t, "done") /\ ~At(t, "raised")
         THEN [item[t] EXCEPT !.pc = "dropped"] ELSE item[t]]
    /\ holders' = holders \ Of(r)
    /\ UNCHANGED <<cancelled, paused, late>>

Cancel ==
    /\ Spend("cancel")
    /\ cancelled' = TRUE
    /\ UNCHANGED <<run, item, holders, paused, late>>

(* The pause ends.                                                         *)
Unpause ==
    /\ paused
    /\ paused' = FALSE
    /\ late' = {}
    /\ UNCHANGED <<run, item, holders, cancelled, left>>

Gather(r) == Return(r) \/ GatherRaises(r)

Next ==
    \/ \E r \in Runs : Start(r) \/ Gather(r) \/ TimeOut(r)
    \/ \E t \in Tasks : Item(t) \/ Raise(t)
    \/ Cancel
    \/ Unpause

Spec == Init /\ [][Next]_vars

(* The event loop runs every item and gather that can go on, the semaphore *)
(* and the bucket serve their waiters in turn, a provider answers or times *)
(* out, and a pause ends.                                                  *)
Fairness ==
    /\ \A t \in Tasks : WF_vars(Item(t))
    /\ \A r \in Runs : WF_vars(Gather(r))
    /\ WF_vars(Unpause)

FairSpec == Spec /\ Fairness

----------------------------------------------------------------------------
(* Properties                                                              *)

(* Never more provider calls at once than max_concurrency, items that were *)
(* abandoned by a failed gather and the retries beside them included.      *)
InFlight == {t \in Tasks : item[t].pc \in {"ready", "call", "pause", "backoff"}}
ConcurrencyCapped == Cardinality(InFlight) <= MaxConcurrency

(* No permit leaks: whichever way an item ends, by an answer, an exception *)
(* or a job timeout, it no longer holds one, and while it is past the gate *)
(* it does.                                                                *)
PermitsKept ==
    /\ Cardinality(holders) <= MaxConcurrency
    /\ \A t \in Tasks :
         t \in holders <=> item[t].pc \in {"acquire", "ready", "call", "pause", "backoff"}

(* A chunk that is counted has an outcome for every line, and a line fails *)
(* only with a terminal answer or with its last permitted call: none is    *)
(* given up early, and none is counted that did not run to its end.        *)
OutcomesEarned ==
    \A r \in Runs : run[r] = "returned" =>
        \A t \in Of(r) :
            /\ At(t, "done")
            /\ item[t].last \in {"final", "retryable"}
            /\ item[t].last = "retryable" => item[t].calls = MaxCalls

(* A pause stops the items that have no token yet, but not those that drew *)
(* one before it, nor the next calls of the one that was told to wait: all *)
(* their calls come without a token.  They stay within the calls of        *)
(* max_concurrency items, that of the first 429 included, however many     *)
(* runs of the batch the worker has.                                       *)
PauseHolds == Cardinality(late) <= MaxConcurrency * MaxCalls

(* What these rest on, item by item.                                       *)
Consistent(t) ==
    /\ item[t].pc \in {"new", "wait", "acquire"} => item[t].calls = 0
    /\ At(t, "ready") => item[t].calls < MaxCalls
    /\ item[t].pc \in {"call", "pause", "backoff"} => item[t].calls > 0
    /\ item[t].last = "cancelled" => cancelled
    /\ At(t, "done") =>
         /\ item[t].last # "none"
         /\ item[t].last = "retryable" => item[t].calls = MaxCalls
    /\ At(t, "none") <=> run[t[1]] = "idle"

(* The items that have made late calls, and those past the bucket that may *)
(* still make some, have never been more than the gate lets in.            *)
Late    == {t \in Tasks : \E k \in 1 .. MaxCalls : <<t, k>> \in late}
LateInv ==
    /\ IsFiniteSet(Late \cup InFlight)
    /\ Cardinality(Late \cup InFlight) <= MaxConcurrency
    /\ ~paused => late = {}

ItemInv ==
    /\ IsFiniteSet(holders)
    /\ PermitsKept
    /\ \A t \in Tasks : Consistent(t)
    /\ OutcomesEarned

(* Every run comes to an end, by its last item, an exception or a timeout, *)
(* and the items it abandoned give their permits back.                     *)
RunsEnd     == \A r \in Runs : run[r] = "running" ~> run[r] # "running"
PermitsFree == <>[](holders = {})
=============================================================================
