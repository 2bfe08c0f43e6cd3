---------------------------- MODULE TokenBucket ----------------------------
(***************************************************************************)
(* The token bucket of app/rate_limit: a hash in Redis that the coroutines *)
(* of all workers draw from.  The scripts are atomic, but each caller      *)
(* reads a clock of its own first and runs the script later, so the times  *)
(* the bucket sees need not come in order.  The script takes the rate and  *)
(* the capacity from the caller: the batches of a model share its bucket,  *)
(* each with its own rate_limit_rps.                                       *)
(*                                                                         *)
(* Time is in ticks, and the level of the bucket in the amount that is     *)
(* refilled per tick, of which a token costs Cost.                         *)
(***************************************************************************)
EXTENDS Integers

CONSTANTS
    Callers,      \* coroutines that draw from the bucket
    Offset,       \* how far the clock of each is ahead of the slowest one
    Ahead,        \* the largest offset
    Rate,         \* ARGV[2] of each caller, per tick
    MaxRate,      \* the largest rate
    Second,       \* ticks per second
    Cost,         \* ARGV[3], one token
    MaxWait,      \* max_wait
    Nap,          \* the longest sleep between two tries
    Pauses,       \* the Retry-After values of the provider
    MaxDelay,     \* bound: from reading the clock to running the script
    MaxTime,      \* bound: the clock stops here
    Budget        \* bound: pauses, and resets of the key

Faults == {"pause", "reset"}

ASSUME ClockAssumption  == /\ Ahead \in Nat
                           /\ Offset \in [Callers -> 0 .. Ahead]
ASSUME BucketAssumption == /\ MaxRate \in Nat
                           /\ Rate \in [Callers -> 1 .. MaxRate]
                           /\ Second \in Nat
                           /\ Cost \in Nat \ {0}
ASSUME WaitAssumption   == /\ MaxWait \in Nat
                           /\ Nap \in Nat
                           /\ Pauses \subseteq Nat
ASSUME BoundsAssumption == /\ MaxDelay \in Nat
                           /\ MaxTime \in Nat
                           /\ Budget \in [Faults -> Nat]

VARIABLES
    clock,        \* the slowest of the clocks
    bucket,       \* the hash in Redis
    caller,       \* where each coroutine stands
    issued,       \* tokens drawn so far, at their cost
    rewound,      \* how far script calls have set the bucket's time back
    contended,    \* waiting callers in whose way another has got
    left          \* the pauses and resets still to come

vars == <<clock, bucket, caller, issued, rewound, contended, left>>

(* ARGV[1]: process_chunk passes the rate as the capacity, a second's worth *)
(* of tokens.                                                              *)
Capacity(c) == Second * Rate[c]
MaxCapacity == Second * MaxRate

(* A fresh bucket has no level yet; its ts keeps the one before a reset.   *)
Nil    == -1
Bucket == [tokens : (0 .. MaxCapacity) \cup {Nil}, ts : Nat, pause : Nat]
PC     == {"idle", "script", "asleep", "timedout", "pausing"}
Caller == [pc : PC, now : Nat, deadline : Nat, wake : Nat, until : Nat]

Resting(pc) == [pc |-> pc, now |-> 0, deadline |-> 0, wake |-> 0, until |-> 0]

TypeOK ==
    /\ clock \in 0 .. MaxTime
    /\ bucket \in Bucket
    /\ caller \in [Callers -> Caller]
    /\ issued \in Nat
    /\ rewound \in Nat
    /\ contended \subseteq Callers
    /\ left \in [Faults -> Nat]

Init ==
    /\ clock = 0
    /\ bucket = [tokens |-> Nil, ts |-> 0, pause |-> 0]
    /\ caller = [c \in Callers |-> Resting("idle")]
    /\ issued = 0
    /\ rewound = 0
    /\ contended = {}
    /\ left = Budget

----------------------------------------------------------------------------
At(c, pc) == caller[c].pc = pc
Smaller(a, b) == IF a < b THEN a ELSE b
Larger(a, b)  == IF a < b THEN b ELSE a
Time(c)   == clock + Offset[c]
Spend(f)  == left[f] > 0 /\ left' = [left EXCEPT ![f] = @ - 1]

Tick ==
    /\ clock < MaxTime
    /\ \A c \in Callers : At(c, "script") => Time(c) < caller[c].now + MaxDelay
    /\ clock' = clock + 1
    /\ UNCHANGED <<bucket, caller, issued, rewound, contended, left>>

(* acquire: the deadline on the monotonic clock, and the first reading.    *)
Acquire(c) ==
    /\ At(c, "idle") \/ At(c, "timedout")
    /\ caller' = [caller EXCEPT ![c] =
         [Resting("script") EXCEPT !.now = Time(c), !.deadline = clock + MaxWait]]
    /\ contended' = IF bucket.pause > Time(c) THEN contended \cup {c}
                    ELSE contended \ {c}
    /\ UNCHANGED <<clock, bucket, issued, rewound, left>>

(* The script.  What the bucket holds at the caller's time:                *)
Paused(c)  == bucket.pause > caller[c].now
Elapsed(c) == Larger(0, caller[c].now - bucket.ts)
(* A mutant: the level is not capped.                                      *)
LevelUncapped(c) ==
    IF bucket.tokens = Nil THEN Capacity(c) ELSE bucket.tokens + Elapsed(c) * Rate[c]
Level(c) ==
    IF bucket.tokens = Nil THEN Capacity(c)
    ELSE Smaller(Capacity(c), bucket.tokens + Elapsed(c) * Rate[c])

(* HMSET: the new level as of the caller's time, be it earlier than ts.    *)
(* Mutants: the refill is stored without its time, the time without it.    *)
StoreNoTime(c, level) ==
    /\ bucket' = [bucket EXCEPT !.tokens = level]
    /\ rewound' = rewound
StoreNoLevel(c, level) ==
    /\ bucket' = [bucket EXCEPT !.ts = caller[c].now,
         !.tokens = IF @ = Nil THEN level ELSE Smaller(@, level)]
    /\ rewound' = rewound + Larger(0, bucket.ts - caller[c].now)
Store(c, level) ==
    /\ bucket' = [bucket EXCEPT !.tokens = level, !.ts = caller[c].now]
    /\ rewound' = rewound + Larger(0, bucket.ts - caller[c].now)

(* The caller is done, and has got in the way of those that still wait.    *)
Waiting == {d \in Callers : At(d, "script") \/ At(d, "asleep")}
Leave(c) ==
    /\ caller' = [caller EXCEPT ![c] = Resting("idle")]
    /\ contended' = (contended \cup Waiting) \ {c}

(* The caller is refused and told how long to wait; it gives up if that is *)
(* past its deadline, and else sleeps, but not longer than a nap.          *)
Refused(c, wait) ==
    caller' = [caller EXCEPT ![c] =
        IF clock + wait > @.deadline THEN Resting("timedout")
        ELSE [@ EXCEPT !.pc = "asleep", !.now = 0,
                       !.wake = clock + Smaller(wait, Nap)]]

RefusePaused(c) ==
    /\ At(c, "script") /\ Paused(c)
    /\ Refused(c, bucket.pause - caller[c].now)
    /\ UNCHANGED <<clock, bucket, issued, rewound, contended, left>>

(* The wait for the missing amount, rounded up.                            *)
Wait(c) == (Cost - Level(c) + Rate[c] - 1) \div Rate[c]

RefuseEmpty(c) ==
    /\ At(c, "script") /\ ~Paused(c) /\ Level(c) < Cost
    /\ Store(c, Level(c))
    /\ Refused(c, Wait(c))
    /\ UNCHANGED <<clock, issued, contended, left>>

Draw(c) ==
    /\ At(c, "script") /\ ~Paused(c) /\ Level(c) >= Cost
    /\ Store(c, Level(c) - Cost)
    /\ issued' = issued + Cost
    /\ Leave(c)
    /\ UNCHANGED <<clock, left>>

Retry(c) ==
    /\ At(c, "asleep") /\ clock >= caller[c].wake
    /\ caller' = [caller EXCEPT ![c] = [@ EXCEPT !.pc = "script", !.now = Time(c),
                                                 !.wake = 0]]
    /\ UNCHANGED <<clock, bucket, issued, rewound, contended, left>>

(* pause, by a coroutine whose request the provider answered with a        *)
(* Retry-After: the end by its own clock, then the script, which writes it *)
(* over any pause that is set.                                             *)
ReadPause(c) ==
    /\ At(c, "idle")
    /\ Spend("pause")
    /\ \E s \in Pauses :
         caller' = [caller EXCEPT ![c] =
             [Resting("pausing") EXCEPT !.until = Time(c) + s]]
    /\ UNCHANGED <<clock, bucket, issued, rewound, contended>>

Pause(c) ==
    /\ At(c, "pausing")
    /\ bucket' = [bucket EXCEPT !.pause = caller[c].until]
    /\ Leave(c)
    /\ UNCHANGED <<clock, issued, rewound, left>>

(* The key is gone: Redis restarted, or the bucket was unused for an hour. *)
Reset ==
    /\ Spend("reset")
    /\ bucket' = [bucket EXCEPT !.tokens = Nil, !.pause = 0]
    /\ UNCHANGED <<clock, caller, issued, rewound, contended>>

Next ==
    \/ Tick
    \/ \E c \in Callers : \/ Acquire(c) \/ RefusePaused(c) \/ RefuseEmpty(c)
                          \/ Draw(c) \/ Retry(c) \/ ReadPause(c) \/ Pause(c)
    \/ Reset

Spec == Init /\ [][Next]_vars

----------------------------------------------------------------------------
(* Properties                                                              *)

Resets == Budget["reset"] - left["reset"]

(* What is drawn is what a full bucket held, one more for each time the    *)
(* key was lost, and what the clocks let in at the fastest rate; time that *)
(* a late script call sets back lets the same amount in once more, and     *)
(* nothing else does, however callers of different rates interleave.       *)
IssueBound ==
    issued <= MaxRate * (Second * (1 + Resets) + clock + Ahead + rewound)

(* A caller that gives up had somebody to blame: another caller drew a     *)
(* token while it waited, or the provider asked for a pause.  Otherwise it *)
(* is served, though refused callers of a slower batch refill the bucket   *)
(* at their own rate meanwhile (no rate is below a token per second here). *)
TimeoutIsContention ==
    \A c \in Callers : At(c, "timedout") => c \in contended

(* What IssueBound rests on: no caller's time is ahead of the fastest      *)
(* clock, and tokens drawn and tokens left are covered by the time that    *)
(* the bucket has seen.                                                    *)
Held == IF bucket.tokens = Nil THEN MaxCapacity ELSE bucket.tokens

LedgerInv ==
    /\ bucket.ts <= clock + Ahead
    /\ \A c \in Callers : At(c, "script") => caller[c].now <= clock + Ahead
    /\ left["reset"] <= Budget["reset"]
    /\ issued + Held <= MaxRate * (Second * (1 + Resets) + bucket.ts + rewound)

(* A rate_limit_rps above 0 is accepted (schemas.py:19): a caller without  *)
(* competitors gets its token (run with less than one request per second). *)
SlowRateServed == TimeoutIsContention
=============================================================================
