------------------------- MODULE TokenBucketProofs -------------------------
(***************************************************************************)
(* Theorems about TokenBucket for any callers, clocks, rates and delays:   *)
(* how much the bucket can issue.                                          *)
(***************************************************************************)
EXTENDS TokenBucket, TLAPS

Inv == TypeOK /\ LedgerInv

LEMMA RateType ==
    ASSUME NEW c \in Callers
    PROVE  /\ Rate[c] \in Nat \ {0} /\ Rate[c] <= MaxRate /\ MaxRate \in Nat
           /\ Capacity(c) \in 0 .. MaxCapacity /\ MaxCapacity \in Nat
<1>1. Rate[c] \in Nat \ {0} /\ Rate[c] <= MaxRate /\ MaxRate \in Nat /\ Second \in Nat
  BY BucketAssumption
<1>2. \A x, y, z \in Nat : x <= y => z * x <= z * y /\ z * x \in Nat /\ z * y \in Nat
  OBVIOUS
<1>3. Second * Rate[c] <= Second * MaxRate /\ Second * Rate[c] \in Nat
      /\ Second * MaxRate \in Nat
  BY <1>1, <1>2
<1> QED BY <1>1, <1>3 DEF Capacity, MaxCapacity

LEMMA MaxCapacityType == MaxCapacity \in Nat /\ MaxCapacity = MaxRate * Second
BY BucketAssumption DEF MaxCapacity

LEMMA InvInit == Init => Inv
<1> SUFFICES ASSUME Init PROVE Inv
  OBVIOUS
<1> USE DEF Init
<1>1. Resting("idle") \in Caller /\ Resting("idle").pc = "idle"
  BY DEF Resting, Caller, PC
<1>2. TypeOK
  <2>1. bucket \in Bucket
    BY BucketAssumption DEF Bucket
  <2> QED BY <1>1, <2>1, BoundsAssumption DEF TypeOK
<1>3. LedgerInv
  <2>1. Resets = 0 /\ left["reset"] \in Nat
    BY BoundsAssumption DEF Resets, Faults
  <2>2. Held = MaxRate * Second /\ bucket.ts = 0
    BY MaxCapacityType DEF Held
  <2>3. MaxRate * (Second * (1 + Resets) + bucket.ts + rewound) = MaxRate * Second
    BY <2>1, <2>2, BucketAssumption
  <2>4. \A c \in Callers : ~At(c, "script")
    BY <1>1 DEF At
  <2> QED BY <2>1, <2>2, <2>3, <2>4, MaxCapacityType, ClockAssumption DEF LedgerInv
<1> QED BY <1>2, <1>3 DEF Inv

LEMMA TimeType ==
    ASSUME TypeOK, NEW c \in Callers
    PROVE  Time(c) \in Nat /\ Time(c) <= clock + Ahead
BY ClockAssumption DEF TypeOK, Time

LEMMA CallerType ==
    ASSUME TypeOK, NEW c \in Callers
    PROVE  /\ caller[c] \in Caller
           /\ caller[c].now \in Nat /\ caller[c].until \in Nat
BY DEF TypeOK, Caller

LEMMA LevelType ==
    ASSUME TypeOK, NEW c \in Callers
    PROVE  Level(c) \in 0 .. MaxCapacity /\ Level(c) \in Nat
<1>1. bucket.tokens \in Nat \cup {Nil} /\ bucket.ts \in Nat
  BY MaxCapacityType DEF TypeOK, Bucket
<1>2. Elapsed(c) \in Nat
  BY <1>1, CallerType DEF Elapsed, Larger
<1>3. Elapsed(c) * Rate[c] \in Nat
  BY <1>2, RateType
<1> QED BY <1>1, <1>3, RateType DEF Level, Smaller

(* The level is covered by what was held and the time that was let in.     *)
LEMMA LevelBound ==
    ASSUME TypeOK, NEW c \in Callers
    PROVE  Level(c) <= Held + MaxRate * Larger(0, caller[c].now - bucket.ts)
<1>1. /\ bucket.tokens \in Nat \cup {Nil} /\ bucket.ts \in Nat
      /\ caller[c].now \in Nat
  BY CallerType, MaxCapacityType DEF TypeOK, Bucket
<1> DEFINE e == Larger(0, caller[c].now - bucket.ts)
<1>2. e \in Nat /\ e = Elapsed(c)
  BY <1>1 DEF Larger, Elapsed
<1> HIDE DEF e
<1>m. \A x, y, z \in Nat : x <= y => z * x <= y * z /\ z * x \in Nat /\ y * z \in Nat
  OBVIOUS
<1>3. e * Rate[c] <= MaxRate * e /\ e * Rate[c] \in Nat /\ MaxRate * e \in Nat
  BY <1>2, <1>m, RateType
<1>4. Level(c) <= Held + MaxRate * e
  BY <1>1, <1>2, <1>3, RateType, MaxCapacityType DEF Level, Held, Smaller
<1> QED BY <1>4 DEF e

(* So HMSET keeps the ledger: the time it lets in is the time it adds.     *)
LEMMA StoreKeepsLedger ==
    ASSUME Inv, NEW c \in Callers, NEW level \in 0 .. Level(c), Store(c, level),
           left' = left
    PROVE  /\ bucket' \in Bucket
           /\ bucket'.ts = caller[c].now
           /\ rewound' \in Nat
           /\ Held' = level
           /\ issued + (Level(c) - level) + Held' <=
                MaxRate * (Second * (1 + Resets') + bucket'.ts + rewound')
<1>1. /\ bucket.ts \in Nat /\ caller[c].now \in Nat /\ rewound \in Nat /\ issued \in Nat
      /\ Level(c) \in 0 .. MaxCapacity /\ Held \in Nat
  BY CallerType, LevelType, MaxCapacityType DEF Inv, TypeOK, Bucket, Held
<1>2. bucket' = [bucket EXCEPT !.tokens = level, !.ts = caller[c].now]
  BY DEF Store
<1>a. level \in 0 .. MaxCapacity
  BY <1>1, MaxCapacityType
<1>b. bucket \in Bucket
  BY DEF Inv, TypeOK
<1>3. /\ bucket' \in Bucket /\ bucket'.ts = caller[c].now
      /\ bucket'.tokens = level
  BY <1>1, <1>2, <1>a, <1>b DEF Bucket
<1>4. Held' = level
  BY <1>1, <1>3, <1>a, MaxCapacityType DEF Held, Nil
<1>5. rewound' = rewound + Larger(0, bucket.ts - caller[c].now)
  BY DEF Store
<1>6. rewound' \in Nat
  BY <1>1, <1>5 DEF Larger
<1> DEFINE e == Larger(0, caller[c].now - bucket.ts)
           full   == Second * (1 + Resets)
           before == full + bucket.ts + rewound
           after  == full + bucket'.ts + rewound'
<1>8. full \in Int /\ Resets' = Resets
  BY BucketAssumption, BoundsAssumption DEF Resets, Inv, TypeOK, Faults
<1> HIDE DEF full
<1>7. e \in Nat /\ before \in Int /\ after = before + e
  <2>1. caller[c].now \in Int /\ bucket.ts \in Int /\ rewound \in Int
    BY <1>1
  <2>2. after = full + caller[c].now + rewound'
    BY <1>3
  <2>3. CASE bucket.ts <= caller[c].now
    <3>1. e = caller[c].now - bucket.ts /\ rewound' = rewound
      BY <1>5, <2>1, <2>3 DEF Larger
    <3> QED BY <1>8, <2>1, <2>2, <2>3, <3>1
  <2>4. CASE caller[c].now < bucket.ts
    <3>1. e = 0 /\ rewound' = rewound + (bucket.ts - caller[c].now)
      BY <1>5, <2>1, <2>4 DEF Larger
    <3> QED BY <1>8, <2>1, <2>2, <2>4, <3>1
  <2> QED BY <2>1, <2>3, <2>4
<1>9. issued + Held <= MaxRate * before /\ Level(c) <= Held + MaxRate * e
  BY LevelBound DEF Inv, LedgerInv, full
<1> HIDE DEF e, before, after
<1>10. /\ MaxRate * after = MaxRate * before + MaxRate * e
       /\ MaxRate * before \in Int /\ MaxRate * e \in Int
  BY <1>7, BucketAssumption
<1>11. issued + Level(c) <= MaxRate * after
  BY <1>1, <1>9, <1>10
<1>12. issued + (Level(c) - level) + level <= MaxRate * after
  BY <1>1, <1>a, <1>11
<1>13. after = Second * (1 + Resets') + bucket'.ts + rewound'
  BY <1>8 DEF after, full
<1> QED BY <1>3, <1>4, <1>6, <1>12, <1>13

(* What a coroutine writes about itself and the others.                    *)
LEMMA RestingType ==
    ASSUME NEW pc \in PC
    PROVE  Resting(pc) \in Caller /\ Resting(pc).pc = pc
BY DEF Resting, Caller

LEMMA LeaveType ==
    ASSUME TypeOK, NEW c \in Callers, Leave(c)
    PROVE  /\ caller' \in [Callers -> Caller] /\ contended' \subseteq Callers
           /\ \A d \in Callers : caller'[d].pc = "script" =>
                caller[d].pc = "script" /\ caller'[d].now = caller[d].now
<1>1. Resting("idle") \in Caller /\ Resting("idle").pc = "idle"
  BY RestingType DEF PC
<1> QED BY <1>1 DEF Leave, Waiting, TypeOK

LEMMA RefusedType ==
    ASSUME TypeOK, NEW c \in Callers, NEW wait \in Nat, Refused(c, wait)
    PROVE  /\ caller' \in [Callers -> Caller]
           /\ \A d \in Callers : caller'[d].pc = "script" =>
                caller[d].pc = "script" /\ caller'[d].now = caller[d].now
<1>1. /\ caller[c] \in Caller
      /\ clock + Smaller(wait, Nap) \in Nat
  BY WaitAssumption DEF TypeOK, Caller, Smaller
<1>2. Resting("timedout") \in Caller /\ Resting("timedout").pc = "timedout"
  BY RestingType DEF PC
<1> DEFINE sleep == [caller[c] EXCEPT !.pc = "asleep", !.now = 0,
                                      !.wake = clock + Smaller(wait, Nap)]
<1>4. sleep \in Caller /\ sleep.pc = "asleep"
  BY <1>1 DEF Caller, PC
<1>5. /\ caller' = [caller EXCEPT ![c] = caller'[c]]
      /\ caller'[c] \in {Resting("timedout"), sleep}
  BY DEF Refused, TypeOK
<1> HIDE DEF sleep
<1> QED BY <1>2, <1>4, <1>5 DEF TypeOK

LEMMA InvStep == Inv /\ [Next]_vars => Inv'
<1> SUFFICES ASSUME Inv, [Next]_vars PROVE Inv'
  OBVIOUS
<1> USE DEF Inv
<1>a. /\ clock \in Nat /\ Ahead \in Nat /\ bucket.ts \in Nat
      /\ \A c \in Callers : caller[c].now \in Nat
  BY ClockAssumption, BoundsAssumption, CallerType DEF TypeOK, Bucket
<1>1. CASE UNCHANGED vars
  BY <1>1 DEF vars, TypeOK, LedgerInv, Held, Resets, At
<1>2. CASE Tick
  BY <1>2, <1>a, BoundsAssumption DEF Tick, TypeOK, LedgerInv, Held, Resets, At
<1>b. ASSUME caller' \in [Callers -> Caller], UNCHANGED <<clock, bucket, issued, rewound>>,
             contended' \subseteq Callers,
             left' \in [Faults -> Nat], left'["reset"] = left["reset"],
             \A d \in Callers : At(d, "script")' => caller'[d].now <= clock + Ahead
      PROVE  Inv'
  BY <1>b DEF TypeOK, LedgerInv, Held, Resets
<1>3. ASSUME NEW c \in Callers, Acquire(c) PROVE Inv'
  <2> DEFINE new == [Resting("script") EXCEPT
                        !.now = Time(c), !.deadline = clock + MaxWait]
  <2>a. Resting("script") \in Caller
    BY RestingType DEF PC
  <2>b. Time(c) \in Nat /\ clock + MaxWait \in Nat
    BY TimeType, WaitAssumption, <1>a
  <2>1. new \in Caller /\ new.now = Time(c)
    BY <2>a, <2>b DEF Caller
  <2>2. caller' = [caller EXCEPT ![c] = new]
    BY <1>3 DEF Acquire
  <2> HIDE DEF new
  <2> QED BY <1>3, <1>b, <2>1, <2>2, TimeType DEF Acquire, TypeOK, LedgerInv, At
<1>4. ASSUME NEW c \in Callers, RefusePaused(c) PROVE Inv'
  <2>1. bucket.pause - caller[c].now \in Nat
    BY <1>4, <1>a DEF RefusePaused, Paused, TypeOK, Bucket
  <2> QED BY <1>4, <1>b, <2>1, RefusedType DEF RefusePaused, TypeOK, LedgerInv, At
<1>5. ASSUME NEW c \in Callers, RefuseEmpty(c) PROVE Inv'
  <2>1. Level(c) \in 0 .. Level(c) /\ Store(c, Level(c)) /\ left' = left
    BY <1>5, LevelType DEF RefuseEmpty
  <2>2. Wait(c) \in Nat
    <3>1. Cost - Level(c) \in Nat /\ Rate[c] \in Nat \ {0}
      BY <1>5, LevelType, RateType, BucketAssumption DEF RefuseEmpty
    <3>2. \A x \in Nat, y \in Nat \ {0} : (x + y - 1) \div y \in Nat
      OBVIOUS
    <3> QED BY <3>1, <3>2 DEF Wait
  <2>3. /\ caller' \in [Callers -> Caller]
        /\ \A d \in Callers : caller'[d].pc = "script" =>
             caller[d].pc = "script" /\ caller'[d].now = caller[d].now
    BY <1>5, <2>2, RefusedType DEF RefuseEmpty
  <2>4. TypeOK'
    BY <1>5, <2>1, <2>3, StoreKeepsLedger DEF RefuseEmpty, TypeOK
  <2>5. bucket'.ts <= clock' + Ahead
    BY <1>5, <2>1, StoreKeepsLedger DEF RefuseEmpty, LedgerInv
  <2>6. issued' + Held' <= MaxRate * (Second * (1 + Resets') + bucket'.ts + rewound')
    <3>1. issued + (Level(c) - Level(c)) + Held' <=
            MaxRate * (Second * (1 + Resets') + bucket'.ts + rewound')
      BY <2>1, StoreKeepsLedger
    <3>2. issued + (Level(c) - Level(c)) = issued /\ issued' = issued
      BY <1>5, LevelType DEF RefuseEmpty, TypeOK
    <3> QED BY <3>1, <3>2
  <2> QED BY <1>5, <2>3, <2>4, <2>5, <2>6 DEF RefuseEmpty, LedgerInv, At
<1>6. ASSUME NEW c \in Callers, Draw(c) PROVE Inv'
  <2>1. /\ Level(c) \in Nat /\ Level(c) - Cost \in 0 .. Level(c)
        /\ Store(c, Level(c) - Cost) /\ left' = left
    BY <1>6, LevelType, BucketAssumption DEF Draw
  <2>2. TypeOK'
    BY <1>6, <2>1, StoreKeepsLedger, LeaveType, BucketAssumption DEF Draw, TypeOK
  <2>3. bucket'.ts <= clock' + Ahead
    BY <1>6, <2>1, StoreKeepsLedger DEF Draw, LedgerInv
  <2>4. issued' + Held' <= MaxRate * (Second * (1 + Resets') + bucket'.ts + rewound')
    <3>1. issued + (Level(c) - (Level(c) - Cost)) + Held' <=
            MaxRate * (Second * (1 + Resets') + bucket'.ts + rewound')
      BY <2>1, StoreKeepsLedger
    <3>2. issued + (Level(c) - (Level(c) - Cost)) = issued'
      BY <1>6, <2>1, BucketAssumption DEF Draw, TypeOK
    <3> QED BY <3>1, <3>2
  <2>5. \A d \in Callers : At(d, "script")' => caller'[d].now <= clock' + Ahead
    BY <1>6, LeaveType DEF Draw, LedgerInv, At
  <2> QED BY <1>6, <2>2, <2>3, <2>4, <2>5 DEF Draw, LedgerInv
<1>7. ASSUME NEW c \in Callers, Retry(c) PROVE Inv'
  <2>1. [caller[c] EXCEPT !.pc = "script", !.now = Time(c), !.wake = 0] \in Caller
    BY CallerType, TimeType DEF Caller, PC
  <2> QED BY <1>7, <1>b, <2>1, CallerType, TimeType
          DEF Retry, TypeOK, LedgerInv, At, Caller
<1>8. ASSUME NEW c \in Callers, ReadPause(c) PROVE Inv'
  <2>1. PICK s \in Pauses :
          caller' = [caller EXCEPT ![c] =
              [Resting("pausing") EXCEPT !.until = Time(c) + s]]
    BY <1>8 DEF ReadPause
  <2> DEFINE new == [Resting("pausing") EXCEPT !.until = Time(c) + s]
  <2>2. new \in Caller /\ new.pc = "pausing"
    BY TimeType, WaitAssumption DEF Resting, Caller, PC
  <2>3. caller' = [caller EXCEPT ![c] = new]
    BY <2>1
  <2> HIDE DEF new
  <2>4. left' \in [Faults -> Nat] /\ left'["reset"] = left["reset"]
    BY <1>8 DEF ReadPause, Spend, TypeOK, Faults
  <2> QED BY <1>8, <1>b, <2>2, <2>3, <2>4 DEF ReadPause, TypeOK, LedgerInv, At
<1>9. ASSUME NEW c \in Callers, Pause(c) PROVE Inv'
  <2>1. /\ bucket' \in Bucket /\ bucket'.ts = bucket.ts
        /\ bucket'.tokens = bucket.tokens
    BY <1>9, CallerType DEF Pause, TypeOK, Bucket
  <2>3. \A d \in Callers : At(d, "script")' => caller'[d].now <= clock + Ahead
    BY <1>9, LeaveType DEF Pause, LedgerInv, At
  <2> QED BY <1>9, <2>1, <2>3, LeaveType DEF Pause, TypeOK, LedgerInv, Held, Resets
<1>10. CASE Reset
  <2>a. /\ bucket' \in Bucket /\ bucket'.ts = bucket.ts /\ bucket'.tokens = Nil
    BY <1>10, BucketAssumption DEF Reset, TypeOK, Bucket
  <2>b. left["reset"] \in Nat /\ Budget["reset"] \in Nat
    BY BoundsAssumption DEF TypeOK, Faults
  <2>c. left' \in [Faults -> Nat] /\ left'["reset"] = left["reset"] - 1
    BY <1>10, <2>b DEF Reset, Spend, TypeOK, Faults
  <2>1. /\ bucket' \in Bucket /\ bucket'.ts = bucket.ts /\ bucket'.tokens = Nil
        /\ left' \in [Faults -> Nat] /\ left'["reset"] = left["reset"] - 1
        /\ left["reset"] \in Nat /\ Budget["reset"] \in Nat
    BY <2>a, <2>b, <2>c
  <2>2. Resets \in Nat /\ Resets' = Resets + 1
    BY <2>1 DEF Resets, LedgerInv
  <2> DEFINE seen == Second * (1 + Resets) + bucket.ts + rewound
  <2>3. /\ seen \in Nat
        /\ Second * (1 + Resets') + bucket.ts + rewound = seen + Second
    BY <1>a, <2>2, BucketAssumption DEF TypeOK
  <2> HIDE DEF seen
  <2>4. MaxRate * (seen + Second) = MaxRate * seen + MaxRate * Second
    BY <2>3, BucketAssumption
  <2>5. Held' = MaxRate * Second /\ Held \in Nat /\ issued \in Nat
    BY <2>1, MaxCapacityType DEF Held, TypeOK, Bucket
  <2>7. issued + Held <= MaxRate * seen
    BY DEF LedgerInv, seen
  <2>8. MaxRate * seen \in Nat /\ MaxRate * Second \in Nat
    BY <2>3, BucketAssumption
  <2>6. issued + Held' <= MaxRate * (Second * (1 + Resets') + bucket.ts + rewound)
    BY <2>3, <2>4, <2>5, <2>7, <2>8
  <2> QED BY <1>10, <2>1, <2>6 DEF Reset, TypeOK, LedgerInv, At
<1> QED
  BY <1>1, <1>2, <1>3, <1>4, <1>5, <1>6, <1>7, <1>8, <1>9, <1>10 DEF Next

LEMMA InvAlways == Spec => []Inv
BY InvInit, InvStep, PTL DEF Spec

----------------------------------------------------------------------------
(* Every variable keeps its type; the level stays within the capacity.     *)
THEOREM BucketTypeCorrect == Spec => []TypeOK
<1>1. Inv => TypeOK
  BY DEF Inv
<1> QED BY <1>1, InvAlways, PTL

(* The ledger of tokens drawn, tokens left and time let in balances.       *)
THEOREM LedgerHolds == Spec => []LedgerInv
<1>1. Inv => LedgerInv
  BY DEF Inv
<1> QED BY <1>1, InvAlways, PTL

(* The bucket issues at most a full one and what the time that passed      *)
(* refills at the fastest rate, plus the time that late script calls set   *)
(* back: the rate is kept when the callers' times arrive in order.         *)
THEOREM IssueBounded == Spec => []IssueBound
<1>1. Inv => IssueBound
  <2> SUFFICES ASSUME Inv PROVE IssueBound
    OBVIOUS
  <2>1. /\ bucket.ts \in Nat /\ rewound \in Nat /\ clock \in Nat /\ Ahead \in Nat
        /\ bucket.ts <= clock + Ahead /\ issued \in Nat /\ Held \in Nat
    BY ClockAssumption, BoundsAssumption, MaxCapacityType
       DEF Inv, TypeOK, Bucket, LedgerInv, Held
  <2> DEFINE full == Second * (1 + Resets)
             seen == full + bucket.ts + rewound
             d    == clock + Ahead - bucket.ts
  <2>5. full \in Int
    BY BucketAssumption, BoundsAssumption DEF Resets, Inv, TypeOK, Faults
  <2> HIDE DEF full
  <2>2. d \in Nat /\ seen \in Int /\ full + clock + Ahead + rewound = seen + d
    BY <2>1, <2>5
  <2>6. issued + Held <= MaxRate * seen
    BY DEF Inv, LedgerInv, full
  <2> HIDE DEF seen, d
  <2>3. MaxRate * (full + clock + Ahead + rewound) = MaxRate * seen + MaxRate * d
    BY <2>2, BucketAssumption
  <2>4. MaxRate * d \in Nat /\ MaxRate * seen \in Int
    BY <2>2, BucketAssumption
  <2>7. issued <= MaxRate * (full + clock + Ahead + rewound)
    BY <2>1, <2>3, <2>4, <2>6
  <2> QED BY <2>7 DEF IssueBound, full
<1> QED BY <1>1, InvAlways, PTL

----------------------------------------------------------------------------
(* No rate is below m, a bucket of any rate holds a token, and a token at  *)
(* that rate comes within max_wait, less what clocks and delays may take.  *)
Patient(m) ==
    /\ m \in Nat \ {0}
    /\ \A c \in Callers : m <= Rate[c] /\ Cost <= Capacity(c)
    /\ Cost <= m * (MaxWait - Ahead - MaxDelay)

(* The time at which a waiting caller called acquire.                      *)
Asked(c) == caller[c].deadline - MaxWait

(* For a waiting caller that nobody got in the way of there is no pause,   *)
(* and every step of the bucket's time since it asked has brought its      *)
(* refill at the slowest rate.                                             *)
Clear(m, c) ==
    /\ bucket.pause <= Asked(c) + Offset[c]
    /\ bucket.tokens # Nil =>
         m * bucket.ts <= bucket.tokens + m * (Asked(c) + Ahead)

Stands(m, c) ==
    /\ At(c, "timedout") => c \in contended
    /\ c \in Waiting =>
         /\ Asked(c) \in 0 .. clock
         /\ At(c, "script") => /\ Asked(c) + Offset[c] <= caller[c].now
                               /\ Time(c) <= caller[c].now + MaxDelay
         /\ c \in contended \/ Clear(m, c)

WaitInv(m) == \A c \in Callers : Stands(m, c)

(* The types that the arithmetic needs.                                    *)
LEMMA WaitTypes ==
    ASSUME Inv, NEW m \in Nat \ {0}, Patient(m), NEW c \in Callers
    PROVE  /\ clock \in Nat /\ Ahead \in Nat /\ MaxDelay \in Nat /\ MaxWait \in Nat
           /\ Offset[c] \in Nat /\ Offset[c] <= Ahead /\ Cost \in Nat \ {0}
           /\ Rate[c] \in Nat /\ m <= Rate[c] /\ Cost <= Capacity(c) /\ Capacity(c) \in Nat
           /\ bucket.ts \in Nat /\ bucket.tokens \in Nat \cup {Nil} /\ bucket.pause \in Nat
           /\ caller[c].now \in Nat /\ caller[c].deadline \in Nat /\ Asked(c) \in Int
<1>1. caller[c].now \in Nat /\ caller[c].deadline \in Nat
  BY DEF Inv, TypeOK, Caller
<1>2. bucket.ts \in Nat /\ bucket.tokens \in Nat \cup {Nil} /\ bucket.pause \in Nat
  BY MaxCapacityType DEF Inv, TypeOK, Bucket
<1>3. clock \in Nat /\ Offset[c] \in Nat /\ Offset[c] <= Ahead /\ Ahead \in Nat
  BY ClockAssumption, BoundsAssumption DEF Inv, TypeOK
<1>4. Asked(c) \in Int
  BY <1>1, WaitAssumption DEF Asked
<1>5. Rate[c] \in Nat /\ Capacity(c) \in Nat
  BY RateType
<1> QED BY <1>1, <1>2, <1>3, <1>4, <1>5, BucketAssumption, WaitAssumption,
           BoundsAssumption DEF Patient

(* A refusal lets in at least what the slowest rate brings for the time    *)
(* that it moves the bucket on.                                            *)
LEMMA RefusalRefills ==
    ASSUME Inv, NEW m \in Nat \ {0}, Patient(m), NEW c \in Callers,
           Level(c) < Cost
    PROVE  /\ bucket.tokens \in Nat /\ Level(c) \in Nat
           /\ bucket.tokens + m * caller[c].now <= Level(c) + m * bucket.ts
<1> DEFINE e == Elapsed(c)
<1>0. Nil = -1
  BY DEF Nil
<1>1. /\ bucket.ts \in Nat /\ caller[c].now \in Nat /\ Rate[c] \in Nat /\ m <= Rate[c]
      /\ bucket.tokens \in Nat \cup {Nil} /\ Capacity(c) \in Nat /\ Cost <= Capacity(c)
      /\ Cost \in Nat
  BY WaitTypes
<1>2. bucket.tokens \in Nat
  BY <1>1 DEF Level
<1>3. e \in Nat /\ caller[c].now - bucket.ts <= e
  BY <1>1 DEF Elapsed, Larger
<1> HIDE DEF e
<1>4. e * Rate[c] \in Nat
  BY <1>1, <1>3
<1>5. Level(c) = bucket.tokens + e * Rate[c]
  <2>1. Level(c) = Smaller(Capacity(c), bucket.tokens + e * Rate[c])
    BY <1>0, <1>2 DEF Level, e
  <2> QED BY <1>1, <1>2, <1>4, <2>1 DEF Smaller
<1>6. m * e <= e * Rate[c] /\ m * e \in Nat
  <2>1. \A x, y, z \in Nat : x <= y => x * z <= z * y /\ x * z \in Nat
    OBVIOUS
  <2> QED BY <1>1, <1>3, <2>1
<1>7. m * caller[c].now <= m * bucket.ts + m * e
  <2>1. \A x, y, z \in Nat : x - y <= z => m * x <= m * y + m * z
    <3> TAKE x, y, z \in Nat
    <3> HAVE x - y <= z
    <3>1. x <= y + z
      OBVIOUS
    <3>2. m * x <= m * (y + z)
      BY <3>1
    <3> QED BY <3>2
  <2> QED BY <1>1, <1>3, <2>1
<1>8. m * caller[c].now \in Int /\ m * bucket.ts \in Int
  BY <1>1
<1> QED BY <1>2, <1>4, <1>5, <1>6, <1>7, <1>8

(* So a caller in whose way nobody got is told to wait for a time that it  *)
(* has: had it to wait longer, the refill since it asked would have been   *)
(* lost somewhere.                                                         *)
LEMMA NotTimedOut ==
    ASSUME Inv, NEW m \in Nat \ {0}, Patient(m), NEW c \in Callers,
           WaitInv(m), At(c, "script"), c \notin contended, Level(c) < Cost
    PROVE  clock + Wait(c) <= caller[c].deadline
<1>1. /\ clock \in Nat /\ Ahead \in Nat /\ MaxDelay \in Nat /\ MaxWait \in Nat
      /\ Offset[c] \in Nat /\ Cost \in Nat \ {0} /\ Rate[c] \in Nat /\ m <= Rate[c]
      /\ bucket.ts \in Nat /\ caller[c].now \in Nat /\ caller[c].deadline \in Nat
      /\ Asked(c) \in Int
  BY WaitTypes
<1>2. /\ bucket.tokens \in Nat /\ Level(c) \in Nat
      /\ bucket.tokens + m * caller[c].now <= Level(c) + m * bucket.ts
  BY RefusalRefills
<1>3. /\ Asked(c) \in 0 .. clock /\ Time(c) <= caller[c].now + MaxDelay
      /\ m * bucket.ts <= bucket.tokens + m * (Asked(c) + Ahead)
  BY <1>2 DEF WaitInv, Stands, Waiting, Clear, Nil
<1> DEFINE K == MaxWait - Ahead - MaxDelay
           x == clock - Asked(c) - Ahead - MaxDelay
           R == Rate[c]
<1>4. K \in Int /\ x \in Int /\ Cost <= m * K /\ m * K \in Int
  BY <1>1, <1>3 DEF Patient
<1>5. m * x <= Level(c) /\ m * x \in Int
  <2>1. x <= caller[c].now - (Asked(c) + Ahead)
    BY <1>1, <1>3 DEF Time
  <2>2. m * x <= m * (caller[c].now - (Asked(c) + Ahead))
    BY <1>1, <1>3, <1>4, <2>1
  <2>3. m * (caller[c].now - (Asked(c) + Ahead)) = m * caller[c].now - m * (Asked(c) + Ahead)
    BY <1>1, <1>3
  <2>4. m * caller[c].now \in Int /\ m * (Asked(c) + Ahead) \in Int /\ m * bucket.ts \in Int
        /\ m * x \in Int
    BY <1>1, <1>3, <1>4
  <2> HIDE DEF x
  <2> QED BY <1>2, <1>3, <2>2, <2>3, <2>4
<1>6. Wait(c) = (Cost - Level(c) + R - 1) \div R
  BY DEF Wait
<1>7. caller[c].deadline - clock = K - x
  BY <1>1 DEF Asked
<1> HIDE DEF K, x, R
<1>8. x < K
  <2>1. m * x < m * K
    BY <1>2, <1>4, <1>5, <1>1
  <2> SUFFICES ASSUME K <= x PROVE FALSE
    BY <1>4
  <2>2. m * K <= m * x
    BY <1>4
  <2> QED BY <1>4, <1>5, <2>1, <2>2
<1>9. Cost - Level(c) <= (K - x) * R /\ R \in Nat \ {0} /\ m <= R
  <2>1. R \in Nat \ {0} /\ m <= R
    BY <1>1 DEF R
  <2>2. Cost - Level(c) <= m * (K - x)
    <3>1. m * (K - x) = m * K - m * x
      BY <1>4
    <3> QED BY <1>1, <1>2, <1>4, <1>5, <3>1
  <2>3. m * (K - x) <= (K - x) * R /\ m * (K - x) \in Int /\ (K - x) * R \in Int
    <3>1. \A a, b, d \in Nat : a <= b => a * d <= d * b /\ a * d \in Int /\ d * b \in Int
      OBVIOUS
    <3>2. K - x \in Nat
      BY <1>4, <1>8
    <3> QED BY <2>1, <3>1, <3>2
  <2> QED BY <1>1, <1>2, <2>1, <2>2, <2>3
<1>10. (Cost - Level(c) + R - 1) \div R <= K - x
  <2> DEFINE a == Cost - Level(c) + R - 1
             w == a \div R
             b == K - x
  <2>1. a \in Nat /\ b \in Int /\ a < b * R + R
    <3>1. b * R \in Int
      BY <1>4, <1>9
    <3> QED BY <1>1, <1>2, <1>4, <1>9, <3>1
  <2> HIDE DEF a, b
  <2>2. w \in Int /\ R * w <= a
    BY <1>9, <2>1
  <2> HIDE DEF w
  <2> SUFFICES ASSUME b + 1 <= w PROVE FALSE
    BY <2>1, <2>2 DEF w, a, b
  <2>3. R * (b + 1) <= R * w
    BY <1>9, <2>1, <2>2
  <2>4. R * (b + 1) = b * R + R
    BY <1>9, <2>1
  <2>5. R * w \in Int /\ b * R \in Int
    BY <1>9, <2>1, <2>2
  <2> QED BY <1>9, <2>1, <2>2, <2>3, <2>4, <2>5
<1>11. Wait(c) \in Int /\ Wait(c) <= K - x
  BY <1>1, <1>2, <1>6, <1>9, <1>10
<1> QED BY <1>1, <1>4, <1>7, <1>11

LEMMA WaitInitial == ASSUME NEW m \in Nat \ {0}, Init PROVE WaitInv(m)
BY DEF Init, Resting, WaitInv, Stands, Waiting, At

(* A caller that does not move keeps where it stands, unless the bucket's  *)
(* level falls behind or the pause is moved.                               *)
LEMMA OthersStand ==
    ASSUME NEW m \in Nat \ {0}, NEW d \in Callers, Stands(m, d),
           UNCHANGED clock, caller'[d] = caller[d],
           d \in contended => d \in contended',
           Clear(m, d) /\ d \in Waiting => Clear(m, d)' \/ d \in contended'
    PROVE  Stands(m, d)'
BY DEF Stands, Waiting, At, Asked, Time

(* One that is done leaves everybody who waits with somebody to blame.     *)
LEMMA LeaveStands ==
    ASSUME NEW m \in Nat \ {0}, Inv, WaitInv(m), NEW c \in Callers, Leave(c),
           UNCHANGED clock
    PROVE  WaitInv(m)'
<1>1. Resting("idle").pc = "idle"
  BY DEF Resting
<1>2. caller'[c].pc = "idle" /\ \A d \in Callers \ {c} : caller'[d] = caller[d]
  BY <1>1 DEF Leave, Inv, TypeOK
<1>3. \A d \in Callers \ {c} : (d \in contended \/ d \in Waiting) => d \in contended'
  BY DEF Leave
<1>4. ASSUME NEW d \in Callers \ {c} PROVE Stands(m, d)'
  BY <1>2, <1>3, OthersStand DEF WaitInv
<1>5. Stands(m, c)'
  BY <1>2 DEF Stands, Waiting, At
<1> QED BY <1>4, <1>5 DEF WaitInv

(* A refused caller sleeps until its deadline, or has given up.            *)
LEMMA RefusedStands ==
    ASSUME NEW m \in Nat \ {0}, Inv, WaitInv(m), NEW c \in Callers, At(c, "script"),
           NEW wait, Refused(c, wait), UNCHANGED <<clock, contended>>,
           c \in contended \/ (clock + wait <= caller[c].deadline /\ wait \in Nat),
           \A d \in Waiting : Asked(d)' = Asked(d) /\ Clear(m, d) => Clear(m, d)'
    PROVE  WaitInv(m)'
<1>1. /\ caller[c] \in Caller /\ clock \in Nat /\ caller[c].deadline \in Nat
      /\ \A d \in Callers \ {c} : caller'[d] = caller[d]
  BY BoundsAssumption DEF Refused, Inv, TypeOK, Caller
<1>2. ASSUME NEW d \in Callers \ {c} PROVE Stands(m, d)'
  <2>1. Asked(d)' = Asked(d)
    BY <1>1 DEF Asked
  <2> QED BY <1>1, <2>1, OthersStand DEF WaitInv
<1>3. \/ caller'[c] = Resting("timedout") /\ c \in contended
      \/ caller'[c].pc = "asleep" /\ caller'[c].deadline = caller[c].deadline
  <2>1. CASE clock + wait > caller[c].deadline
    <3>1. caller'[c] = Resting("timedout")
      BY <2>1 DEF Refused, Inv, TypeOK
    <3>2. c \in contended
      BY <1>1, <2>1
    <3> QED BY <3>1, <3>2
  <2>2. CASE ~(clock + wait > caller[c].deadline)
    <3>1. caller'[c] = [caller[c] EXCEPT !.pc = "asleep", !.now = 0,
                                         !.wake = clock + Smaller(wait, Nap)]
      BY <2>2 DEF Refused, Inv, TypeOK
    <3> QED BY <1>1, <3>1 DEF Caller
  <2> QED BY <2>1, <2>2
<1>4. Stands(m, c)'
  <2>1. CASE caller'[c] = Resting("timedout") /\ c \in contended
    BY <2>1 DEF Stands, Waiting, At, Resting
  <2>2. CASE caller'[c].pc = "asleep" /\ caller'[c].deadline = caller[c].deadline
    <3>1. c \in Waiting /\ Asked(c)' = Asked(c)
      BY <2>2 DEF Waiting, Asked
    <3>2. Asked(c) \in 0 .. clock /\ (c \in contended \/ Clear(m, c))
      BY <3>1 DEF WaitInv, Stands
    <3>3. c \in contended' \/ Clear(m, c)'
      BY <3>1, <3>2
    <3> QED BY <2>2, <3>1, <3>2, <3>3 DEF Stands, At
  <2> QED BY <1>3, <2>1, <2>2
<1> QED BY <1>2, <1>4 DEF WaitInv

LEMMA WaitStep ==
    ASSUME NEW m \in Nat \ {0}, Patient(m), Inv, WaitInv(m), [Next]_vars
    PROVE  WaitInv(m)'
<1>1. CASE UNCHANGED vars
  BY <1>1 DEF vars, WaitInv, Stands, Waiting, At, Asked, Time, Clear
<1>2. CASE Tick
  <2> SUFFICES ASSUME NEW d \in Callers PROVE Stands(m, d)'
    BY DEF WaitInv
  <2>1. clock' = clock + 1 /\ UNCHANGED <<bucket, caller, contended>>
    BY <1>2 DEF Tick
  <2>2. At(d, "script") => Time(d)' <= caller[d].now + MaxDelay
    <3>1. At(d, "script") => Time(d) < caller[d].now + MaxDelay
      BY <1>2 DEF Tick
    <3>2. /\ Time(d) \in Int /\ Time(d)' = Time(d) + 1
          /\ caller[d].now + MaxDelay \in Int
      BY <2>1, WaitTypes DEF Time
    <3> QED BY <3>1, <3>2
  <2>3. Asked(d)' = Asked(d) /\ (Clear(m, d) => Clear(m, d)')
    BY <2>1 DEF Asked, Clear
  <2>4. Asked(d) \in 0 .. clock => Asked(d) \in 0 .. clock'
    BY <2>1, WaitTypes
  <2> QED BY <2>1, <2>2, <2>3, <2>4 DEF WaitInv, Stands, Waiting, At
<1>3. ASSUME NEW c \in Callers, Acquire(c) PROVE WaitInv(m)'
  <2>1. /\ caller'[c].pc = "script" /\ caller'[c].now = Time(c)
        /\ caller'[c].deadline = clock + MaxWait
        /\ \A d \in Callers \ {c} : caller'[d] = caller[d]
        /\ UNCHANGED <<clock, bucket>>
    BY <1>3 DEF Acquire, Inv, TypeOK, Resting
  <2>2. \A d \in Callers \ {c} : d \in contended => d \in contended'
    BY <1>3 DEF Acquire
  <2>3. ASSUME NEW d \in Callers \ {c} PROVE Stands(m, d)'
    <3>1. Clear(m, d) => Clear(m, d)'
      BY <2>1 DEF Clear, Asked
    <3> QED BY <2>1, <2>2, <3>1, OthersStand DEF WaitInv
  <2>4. Asked(c)' = clock /\ Time(c)' = Time(c) /\ Time(c) = clock + Offset[c]
    BY <2>1, WaitTypes DEF Asked, Time
  <2>5. c \in contended' \/ Clear(m, c)'
    <3>1. bucket.ts <= clock + Ahead
      BY DEF Inv, LedgerInv
    <3>2. m * bucket.ts <= m * (clock + Ahead)
          /\ m * bucket.ts \in Int /\ m * (clock + Ahead) \in Int
      BY <3>1, WaitTypes
    <3>3. bucket.tokens # Nil => bucket.tokens \in Nat
      BY WaitTypes
    <3>4. CASE bucket.pause <= Time(c)
      <4>1. bucket.tokens # Nil => m * bucket.ts <= bucket.tokens + m * (clock + Ahead)
        BY <3>2, <3>3
      <4> QED BY <2>1, <2>4, <3>4, <4>1 DEF Clear
    <3>5. CASE ~(bucket.pause <= Time(c))
      <4>1. bucket.pause > Time(c)
        BY <2>4, <3>5, WaitTypes
      <4> QED BY <1>3, <4>1 DEF Acquire
    <3> QED BY <3>4, <3>5
  <2>6. Stands(m, c)'
    <3>1. clock \in Nat /\ MaxDelay \in Nat /\ Offset[c] \in Nat
      BY WaitTypes
    <3>2. Asked(c)' \in 0 .. clock'
      BY <2>1, <2>4, <3>1
    <3>3. Asked(c)' + Offset[c] <= caller'[c].now /\ Time(c)' <= caller'[c].now + MaxDelay
      BY <2>1, <2>4, <3>1
    <3> QED BY <2>1, <2>5, <3>2, <3>3 DEF Stands, At
  <2> QED BY <2>3, <2>6 DEF WaitInv
<1>4. ASSUME NEW c \in Callers, RefusePaused(c) PROVE WaitInv(m)'
  <2>1. At(c, "script") /\ bucket.pause > caller[c].now /\ UNCHANGED <<clock, bucket, contended>>
    BY <1>4 DEF RefusePaused, Paused
  <2>2. c \in contended
    <3>1. Asked(c) + Offset[c] <= caller[c].now /\ (c \in contended \/ Clear(m, c))
      BY <2>1 DEF WaitInv, Stands, Waiting
    <3> QED BY <2>1, <3>1, WaitTypes DEF Clear
  <2>3. ASSUME NEW d \in Waiting, Asked(d)' = Asked(d), Clear(m, d) PROVE Clear(m, d)'
    BY <2>1, <2>3 DEF Clear
  <2> QED BY <1>4, <2>1, <2>2, <2>3, RefusedStands DEF RefusePaused
<1>5. ASSUME NEW c \in Callers, RefuseEmpty(c) PROVE WaitInv(m)'
  <2>1. At(c, "script") /\ Level(c) < Cost /\ UNCHANGED <<clock, contended>>
    BY <1>5 DEF RefuseEmpty
  <2>2. /\ bucket'.tokens = Level(c) /\ bucket'.ts = caller[c].now
        /\ bucket'.pause = bucket.pause
    BY <1>5 DEF RefuseEmpty, Store, Inv, TypeOK, Bucket
  <2>3. /\ bucket.tokens \in Nat /\ Level(c) \in Nat
        /\ bucket.tokens + m * caller[c].now <= Level(c) + m * bucket.ts
    BY <2>1, RefusalRefills
  <2>4. ASSUME NEW d \in Waiting, Asked(d)' = Asked(d), Clear(m, d) PROVE Clear(m, d)'
    <3>1. m * bucket.ts <= bucket.tokens + m * (Asked(d) + Ahead)
      BY <2>3, <2>4 DEF Clear, Nil
    <3>2. /\ m * caller[c].now \in Int /\ m * bucket.ts \in Int
          /\ m * (Asked(d) + Ahead) \in Int
      <4>1. caller[c].now \in Int /\ bucket.ts \in Int
        BY WaitTypes
      <4>2. Asked(d) + Ahead \in Int
        BY WaitTypes DEF Waiting
      <4> QED BY <4>1, <4>2
    <3>3. m * caller[c].now <= Level(c) + m * (Asked(d) + Ahead)
      BY <2>3, <3>1, <3>2
    <3>4. /\ bucket'.pause <= Asked(d)' + Offset[d]
          /\ m * bucket'.ts <= bucket'.tokens + m * (Asked(d)' + Ahead)
      <4>1. bucket.pause <= Asked(d) + Offset[d]
        BY <2>4 DEF Clear
      <4> QED BY <2>2, <2>4, <3>3, <4>1
    <3> QED BY <3>4 DEF Clear
  <2>5. c \in contended \/ (clock + Wait(c) <= caller[c].deadline /\ Wait(c) \in Nat)
    <3>1. Wait(c) \in Nat
      <4>1. Cost - Level(c) \in Nat /\ Rate[c] \in Nat \ {0}
        BY <2>1, <2>3, WaitTypes
      <4>2. \A x \in Nat, y \in Nat \ {0} : (x + y - 1) \div y \in Nat
        OBVIOUS
      <4> QED BY <4>1, <4>2 DEF Wait
    <3> QED BY <2>1, <3>1, NotTimedOut
  <2> QED BY <1>5, <2>1, <2>4, <2>5, RefusedStands DEF RefuseEmpty
<1>6. ASSUME NEW c \in Callers, Draw(c) \/ Pause(c) PROVE WaitInv(m)'
  BY <1>6, LeaveStands DEF Draw, Pause
<1>7. ASSUME NEW c \in Callers, Retry(c) PROVE WaitInv(m)'
  <2>1. /\ At(c, "asleep") /\ caller'[c].pc = "script" /\ caller'[c].now = Time(c)
        /\ caller'[c].deadline = caller[c].deadline
        /\ \A d \in Callers \ {c} : caller'[d] = caller[d]
        /\ UNCHANGED <<clock, bucket, contended>>
    BY <1>7 DEF Retry, Inv, TypeOK, Caller
  <2>2. \A d \in Callers : Asked(d)' = Asked(d) /\ (Clear(m, d) => Clear(m, d)')
    BY <2>1 DEF Asked, Clear
  <2>3. ASSUME NEW d \in Callers \ {c} PROVE Stands(m, d)'
    BY <2>1, <2>2, OthersStand DEF WaitInv
  <2>4. Stands(m, c)'
    <3>1. Asked(c) \in 0 .. clock /\ (c \in contended \/ Clear(m, c))
      BY <2>1 DEF WaitInv, Stands, Waiting
    <3>2. Asked(c) + Offset[c] <= Time(c) /\ Time(c) <= Time(c) + MaxDelay
      BY <3>1, WaitTypes DEF Time
    <3>3. Time(c)' = Time(c)
      BY <2>1 DEF Time
    <3> QED BY <2>1, <2>2, <3>1, <3>2, <3>3 DEF Stands, At
  <2> QED BY <2>3, <2>4 DEF WaitInv
<1>8. ASSUME NEW c \in Callers, ReadPause(c) PROVE WaitInv(m)'
  <2>1. /\ caller'[c].pc = "pausing" /\ UNCHANGED <<clock, bucket, contended>>
        /\ \A d \in Callers \ {c} : caller'[d] = caller[d]
    BY <1>8 DEF ReadPause, Resting, Inv, TypeOK
  <2>2. ASSUME NEW d \in Callers \ {c} PROVE Stands(m, d)'
    <3>1. Clear(m, d) => Clear(m, d)'
      BY <2>1 DEF Clear, Asked
    <3> QED BY <2>1, <3>1, OthersStand DEF WaitInv
  <2>3. Stands(m, c)'
    BY <2>1 DEF Stands, Waiting, At
  <2> QED BY <2>2, <2>3 DEF WaitInv
<1>9. CASE Reset
  <2>1. /\ bucket'.tokens = Nil /\ bucket'.pause = 0
        /\ UNCHANGED <<clock, caller, contended>>
    BY <1>9 DEF Reset, Inv, TypeOK, Bucket
  <2> SUFFICES ASSUME NEW d \in Callers PROVE Stands(m, d)'
    BY DEF WaitInv
  <2>2. d \in Waiting => Clear(m, d)'
    <3>1. d \in Waiting => 0 <= Asked(d) + Offset[d]
      BY WaitTypes DEF WaitInv, Stands
    <3> QED BY <2>1, <3>1 DEF Clear, Asked
  <2> QED BY <2>1, <2>2, OthersStand DEF WaitInv
<1> QED BY <1>1, <1>2, <1>3, <1>4, <1>5, <1>6, <1>7, <1>8, <1>9 DEF Next

(* A caller gives up only if another drew a token or set a pause while it  *)
(* waited, or a pause was on when it asked: for any number of callers,     *)
(* rates, clocks and delays, if no rate is so low that max_wait does not   *)
(* bring a token, or a bucket does not hold one.                           *)
THEOREM ServedUnlessContended ==
    ASSUME NEW CONSTANT m \in Nat \ {0}, Patient(m)
    PROVE  Spec => []TimeoutIsContention
<1>1. Init => WaitInv(m)
  BY WaitInitial
<1>2. Inv /\ WaitInv(m) /\ [Next]_vars => WaitInv(m)'
  BY WaitStep
<1>3. WaitInv(m) => TimeoutIsContention
  BY DEF WaitInv, Stands, TimeoutIsContention
<1> QED BY <1>1, <1>2, <1>3, InvAlways, PTL DEF Spec
============================================================================
