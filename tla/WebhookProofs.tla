--------------------------- MODULE WebhookProofs ---------------------------
(***************************************************************************)
(* Theorems about WebhookDelivery for any number of slots, events,         *)
(* attempts and faults.                                                    *)
(***************************************************************************)
EXTENDS WebhookDelivery, TLAPS

(* The parts of a slot's state, and of the one it goes back to.            *)
LEMMA SlotType ==
    ASSUME TypeOK, NEW s \in Slots
    PROVE  /\ worker[s] \in SlotState
           /\ worker[s].loaded.attempts \in Nat
           /\ Attempts(s) \in Nat
           /\ Idle \in SlotState
<1>1. worker[s] \in SlotState
  BY DEF TypeOK
<1>2. worker[s].loaded.attempts \in Nat
  BY <1>1 DEF SlotState, Row
<1>3. Idle \in SlotState
  BY DEF Idle, SlotState, PC, Row, WebhookStatus
<1> QED BY <1>1, <1>2, <1>3 DEF Attempts

(* What the two kinds of write leave in the row.                           *)
LEMMA WriteType ==
    ASSUME TypeOK, NEW s \in Slots, NEW st \in WebhookStatus, Write(s, st)
    PROVE  row' \in Row
BY SlotType DEF Write, Row, TypeOK

(* Types and Busy are proved together: confirmed holds events only because *)
(* a slot that posts has one.                                              *)
Typed == TypeOK /\ Busy

LEMMA TypedInit == Init => Typed
<1> SUFFICES ASSUME Init PROVE Typed
  OBVIOUS
<1>1. Idle \in SlotState
  BY DEF Idle, SlotState, PC, Row, WebhookStatus
<1>2. TypeOK
  BY <1>1, BudgetAssumption, PostsAssumption, AttemptsAssumption
     DEF Init, TypeOK, Row, WebhookStatus
<1>3. Busy
  BY DEF Init, Busy, At, Idle
<1> QED BY <1>2, <1>3 DEF Typed

LEMMA TypedStep == Typed /\ [Next]_vars => Typed'
<1> SUFFICES ASSUME TypeOK, Busy, [Next]_vars PROVE Typed'
  BY DEF Typed
<1> USE DEF Typed
<1>1. CASE UNCHANGED vars
  BY <1>1 DEF vars, TypeOK, Busy, At
<1>2. ASSUME NEW e \in Events, Notify(e) PROVE Typed'
  <2>1. queue' \in [Events -> Nat] /\ left' \in [Faults -> Nat]
    BY <1>2 DEF Notify, Spend, Enqueue, TypeOK, Faults
  <2> QED BY <1>2, <2>1 DEF Notify, TypeOK, Busy, At
<1>3. ASSUME NEW s \in Slots, NEW e \in Events, Load(s, e) PROVE Typed'
  <2>1. queue' \in [Events -> Nat]
    BY <1>3 DEF Load, Dequeue, TypeOK
  <2>2. [pc |-> "post", event |-> e, loaded |-> row, ok |-> FALSE] \in SlotState
    BY DEF TypeOK, SlotState, PC
  <2>3. worker' \in [Slots -> SlotState]
    BY <1>3, <2>2, SlotType DEF Load, TypeOK
  <2>4. Busy'
    BY <1>3, EventsAssumption DEF Load, Busy, At, Idle, TypeOK, Skipped
  <2> QED BY <1>3, <2>1, <2>3, <2>4 DEF Load, TypeOK
<1>4. ASSUME NEW s \in Slots, Post(s) PROVE Typed'
  <2>1. posts' \in 0 .. PostBound
    BY <1>4, PostsAssumption DEF Post, TypeOK
  <2>2. worker[s].event \in Events
    BY <1>4, SlotType DEF Post, Busy, At, SlotState
  <2>3. worker' \in [Slots -> SlotState]
    <3>1. PICK ok \in BOOLEAN :
            worker' = [worker EXCEPT ![s] = [@ EXCEPT !.pc = "commit", !.ok = ok]]
      BY <1>4 DEF Post, TypeOK
    <3>2. [worker[s] EXCEPT !.pc = "commit", !.ok = ok] \in SlotState
      BY SlotType DEF SlotState, PC
    <3> QED BY <3>1, <3>2 DEF TypeOK
  <2>4. Busy'
    BY <1>4 DEF Post, Busy, At, TypeOK
  <2> QED BY <1>4, <2>1, <2>2, <2>3, <2>4 DEF Post, TypeOK
<1>5. ASSUME NEW s \in Slots, Delivered(s) PROVE Typed'
  <2>1. row' \in Row /\ row'.status # "none"
    BY <1>5, WriteType DEF Delivered, Write, WebhookStatus, Busy, At
  <2>2. worker' \in [Slots -> SlotState]
    BY <1>5, SlotType DEF Delivered, Return, TypeOK
  <2>3. Busy'
    BY <1>5, <2>1 DEF Delivered, Return, Busy, At, Idle, TypeOK
  <2> QED BY <1>5, <2>1, <2>2, <2>3 DEF Delivered, TypeOK
<1>6. ASSUME NEW s \in Slots, GiveUp(s) PROVE Typed'
  <2>1. row' \in Row /\ row'.status # "none"
    BY <1>6, WriteType DEF GiveUp, Write, WebhookStatus, Busy, At
  <2>2. worker' \in [Slots -> SlotState]
    BY <1>6, SlotType DEF GiveUp, Return, TypeOK
  <2>3. Busy'
    BY <1>6, <2>1 DEF GiveUp, Return, Busy, At, Idle, TypeOK
  <2> QED BY <1>6, <2>1, <2>2, <2>3 DEF GiveUp, TypeOK
<1>7. ASSUME NEW s \in Slots, Count(s) PROVE Typed'
  <2>1. row' \in Row /\ row'.status = row.status
    BY <1>7, SlotType DEF Count, Row, TypeOK
  <2>2. worker' \in [Slots -> SlotState]
    BY <1>7, SlotType DEF Count, SlotState, PC, TypeOK
  <2>3. Busy'
    BY <1>7, <2>1 DEF Count, Busy, At, TypeOK
  <2> QED BY <1>7, <2>1, <2>2, <2>3 DEF Count, TypeOK
<1>8. ASSUME NEW s \in Slots, Requeue(s) \/ Crash(s) PROVE Typed'
  <2>1. worker[s].event \in Events
    BY <1>8, SlotType DEF Requeue, Crash, Busy, At, SlotState
  <2>2. queue' \in [Events -> Nat] /\ left' \in [Faults -> Nat]
    BY <1>8, <2>1 DEF Requeue, Crash, Spend, Enqueue, TypeOK, Faults
  <2>3. worker' \in [Slots -> SlotState]
    BY <1>8, SlotType DEF Requeue, Crash, Return, TypeOK
  <2>4. Busy'
    BY <1>8 DEF Requeue, Crash, Return, Busy, At, Idle, TypeOK
  <2> QED BY <1>8, <2>2, <2>3, <2>4 DEF Requeue, Crash, TypeOK
<1>9. ASSUME NEW s \in Slots, Drop(s) PROVE Typed'
  <2>1. left' \in [Faults -> Nat] /\ worker' \in [Slots -> SlotState]
    BY <1>9, SlotType DEF Drop, Return, Spend, TypeOK, Faults
  <2>2. Busy'
    BY <1>9 DEF Drop, Return, Busy, At, Idle, TypeOK
  <2> QED BY <1>9, <2>1, <2>2 DEF Drop, TypeOK
<1>10. CASE RestartRedis
  <2>1. left' \in [Faults -> Nat] /\ queue' \in [Events -> Nat]
    BY <1>10 DEF RestartRedis, Spend, TypeOK, Faults
  <2> QED BY <1>10, <2>1 DEF RestartRedis, TypeOK, Busy, At
<1> QED
  BY <1>1, <1>2, <1>3, <1>4, <1>5, <1>6, <1>7, <1>8, <1>9, <1>10
     DEF Next, Step, Fault

(* Every variable keeps its type, whatever jobs and faults come.           *)
THEOREM WebhookTypeCorrect == Spec => []TypeOK
<1>1. Spec => []Typed
  BY TypedInit, TypedStep, PTL DEF Spec
<1> QED BY <1>1, PTL DEF Typed

----------------------------------------------------------------------------
(* The inductive invariant.  In a step that neither posts nor writes, the  *)
(* counters, the posts and the slots' loaded rows only get older.          *)

(* More posts leave a count behind the posts, and one more post makes room *)
(* for one more attempt.                                                   *)
LEMMA CountedGrows ==
    ASSUME TypeOK, NEW n \in Nat, Counted(n), posts' \in 0 .. PostBound, posts' >= posts
    PROVE  Counted(n)'
BY DEF Counted, TypeOK

LEMMA EnoughCounted ==
    ASSUME TypeOK, NEW n \in Nat, Counted(n), n >= WebhookMaxAttempts
    PROVE  posts >= WebhookMaxAttempts
BY PostsAssumption, AttemptsAssumption DEF Counted, TypeOK

LEMMA WebhookInvInit == Init => WebhookInv
<1> SUFFICES ASSUME Init PROVE WebhookInv
  OBVIOUS
<1>1. Busy
  BY TypedInit DEF Typed
<1> QED
  BY <1>1 DEF Init, WebhookInv, SlotCounted, Counted, StatusIsHonest, At, Idle

(* A slot that keeps its state or goes idle keeps its part.                *)
LEMMA SlotUntouched ==
    ASSUME TypeOK, TypeOK', NEW s \in Slots, SlotCounted(s),
           worker'[s] = worker[s] \/ worker'[s] = Idle,
           posts' >= posts, confirmed \subseteq confirmed'
    PROVE  SlotCounted(s)'
<1>1. Counted(0)'
  BY DEF Counted, TypeOK
<1>2. CASE worker'[s] = Idle
  BY <1>1, <1>2 DEF SlotCounted, At, Idle
<1>3. CASE worker'[s] = worker[s]
  BY <1>3, SlotType, CountedGrows DEF SlotCounted, At, Attempts, TypeOK
<1> QED BY <1>2, <1>3

LEMMA WebhookInvStep == Typed /\ Typed' /\ WebhookInv /\ [Next]_vars => WebhookInv'
<1> SUFFICES ASSUME TypeOK, TypeOK', Busy', WebhookInv, [Next]_vars
             PROVE  WebhookInv'
  BY DEF Typed
<1> USE DEF WebhookInv
<1>a. /\ row.attempts \in Nat /\ posts \in Nat
      /\ row'.attempts \in Nat
  BY DEF TypeOK, Row
<1>1. CASE UNCHANGED vars
  BY <1>1 DEF vars, SlotCounted, Counted, Attempts, StatusIsHonest, At
<1>2. ASSUME NEW e \in Events, Notify(e) PROVE WebhookInv'
  BY <1>2 DEF Notify, SlotCounted, Counted, Attempts, StatusIsHonest, At
<1>3. ASSUME NEW s \in Slots, NEW e \in Events, Load(s, e) PROVE WebhookInv'
  <2>1. \A t \in Slots \ {s} : SlotCounted(t)'
    BY <1>3, SlotUntouched DEF Load, TypeOK
  <2>2. SlotCounted(s)'
    <3>1. CASE Skipped
      BY <1>3, <3>1, SlotUntouched DEF Load, TypeOK
    <3>2. CASE ~Skipped
      BY <1>3, <3>2 DEF Load, TypeOK, SlotCounted, At, Counted
    <3> QED BY <3>1, <3>2
  <2> QED BY <1>3, <2>1, <2>2 DEF Load, Counted, StatusIsHonest
<1>4. ASSUME NEW s \in Slots, Post(s) PROVE WebhookInv'
  <2>1. posts' \in 0 .. PostBound /\ posts' >= posts /\ confirmed \subseteq confirmed'
    BY <1>4 DEF Post, TypeOK
  <2>2. \A t \in Slots \ {s} : SlotCounted(t)'
    BY <1>4, <2>1, SlotUntouched DEF Post, TypeOK
  <2>3. /\ worker'[s].pc = "commit"
        /\ worker'[s].event = worker[s].event
        /\ worker'[s].loaded = worker[s].loaded
        /\ worker'[s].ok => worker[s].event \in confirmed'
    BY <1>4 DEF Post, TypeOK
  <2>4. Counted(worker[s].loaded.attempts)' /\ Counted(Attempts(s))'
    BY <1>4, <2>1, <2>3, SlotType, PostsAssumption
       DEF Post, SlotCounted, Counted, Attempts, TypeOK
  <2>5. SlotCounted(s)'
    BY <2>3, <2>4 DEF SlotCounted
  <2>6. Counted(row.attempts)'
    BY <1>4, <2>1, <1>a, CountedGrows DEF Post
  <2>7. StatusIsHonest'
    BY <1>4, <2>1, <1>a, AttemptsAssumption DEF Post, StatusIsHonest
  <2> QED BY <2>2, <2>5, <2>6, <2>7
<1>5. ASSUME NEW s \in Slots, Delivered(s) PROVE WebhookInv'
  <2>1. \A t \in Slots : SlotCounted(t)'
    BY <1>5, <1>a, SlotUntouched DEF Delivered, Return, TypeOK
  <2>2. Counted(row.attempts)'
    BY <1>5 DEF Delivered, Write, SlotCounted, Counted
  <2>3. StatusIsHonest'
    BY <1>5 DEF Delivered, Write, SlotCounted, StatusIsHonest
  <2> QED BY <2>1, <2>2, <2>3
<1>6. ASSUME NEW s \in Slots, GiveUp(s) PROVE WebhookInv'
  <2>1. \A t \in Slots : SlotCounted(t)'
    BY <1>6, <1>a, SlotUntouched DEF GiveUp, Return, TypeOK
  <2>2. Counted(row.attempts)'
    BY <1>6 DEF GiveUp, Write, SlotCounted, Counted
  <2>3. StatusIsHonest'
    BY <1>6, SlotType, EnoughCounted
       DEF GiveUp, Exhausted, Write, SlotCounted, StatusIsHonest
  <2> QED BY <2>1, <2>2, <2>3
<1>7. ASSUME NEW s \in Slots, Count(s) PROVE WebhookInv'
  <2>1. \A t \in Slots \ {s} : SlotCounted(t)'
    BY <1>7, <1>a, SlotUntouched DEF Count, TypeOK
  <2>2. SlotCounted(s)'
    BY <1>7 DEF Count, SlotCounted, Counted, At, TypeOK
  <2>3. Counted(row.attempts)'
    BY <1>7 DEF Count, SlotCounted, Counted, TypeOK, Row
  <2>4. StatusIsHonest'
    BY <1>7 DEF Count, StatusIsHonest, TypeOK, Row
  <2> QED BY <2>1, <2>2, <2>3, <2>4
<1>8. ASSUME NEW s \in Slots, Requeue(s) \/ Crash(s) \/ Drop(s) PROVE WebhookInv'
  <2>1. \A t \in Slots : SlotCounted(t)'
    BY <1>8, <1>a, SlotUntouched DEF Requeue, Crash, Drop, Return, TypeOK
  <2> QED BY <1>8, <2>1 DEF Requeue, Crash, Drop, Counted, StatusIsHonest
<1>9. CASE RestartRedis
  BY <1>9 DEF RestartRedis, SlotCounted, Counted, Attempts, StatusIsHonest, At
<1> QED
  BY <1>1, <1>2, <1>3, <1>4, <1>5, <1>6, <1>7, <1>8, <1>9 DEF Next, Step, Fault

(* No counter runs ahead of the requests that were made.                   *)
THEOREM WebhookInvariant == Spec => []WebhookInv
<1>1. Init => Typed /\ WebhookInv
  BY TypedInit, WebhookInvInit
<1>2. Typed /\ WebhookInv /\ [Next]_vars => Typed' /\ WebhookInv'
  BY TypedStep, WebhookInvStep
<1> QED BY <1>1, <1>2, PTL DEF Spec

(* A webhook is reported delivered only after a job saw it accepted, and   *)
(* dead only after the full number of requests.                            *)
THEOREM StatusHonest == Spec => []StatusIsHonest
<1>1. WebhookInv => StatusIsHonest
  BY DEF WebhookInv
<1> QED BY <1>1, WebhookInvariant, PTL

----------------------------------------------------------------------------
(* No event is abandoned                                                   *)

(* The budget of a fault only shrinks, so a lost job stays on record.      *)
LeftWithin == \A f \in Faults : left[f] <= Budget[f]

Kept == Typed /\ WebhookInv /\ LeftWithin /\ NoEventAbandoned

LEMMA KeptInit == Init => Kept
<1> SUFFICES ASSUME Init PROVE Kept
  OBVIOUS
<1>1. LeftWithin
  BY BudgetAssumption DEF Init, LeftWithin
<1>2. NoEventAbandoned
  BY DEF Init, NoEventAbandoned
<1> QED BY <1>1, <1>2, TypedInit, WebhookInvInit DEF Kept

(* No step puts a fault back.                                              *)
LEMMA LeftStep ==
    ASSUME TypeOK, LeftWithin, [Next]_vars
    PROVE  LeftWithin' /\ (NoJobLost' => NoJobLost)
<1>1. left' = left \/ \E f \in Faults : Spend(f)
  BY DEF Next, Step, Fault, vars, Notify, Load, Post, Delivered, GiveUp, Count,
         Requeue, Crash, Drop, RestartRedis, Faults
<1>2. CASE left' = left
  BY <1>2 DEF LeftWithin, NoJobLost
<1>3. ASSUME NEW f \in Faults, Spend(f) PROVE LeftWithin' /\ (NoJobLost' => NoJobLost)
  <2>1. \A g \in Faults : left'[g] <= left[g] /\ left[g] \in Nat /\ left'[g] \in Nat
    BY <1>3 DEF Spend, TypeOK
  <2>2. \A g \in Faults : Budget[g] \in Nat
    BY BudgetAssumption
  <2> QED BY <2>1, <2>2 DEF LeftWithin, NoJobLost, Faults
<1> QED BY <1>1, <1>2, <1>3

(* Nothing is abandoned if each event handed over is pending afterwards,   *)
(* or was not pending before, or is confirmed or has had its requests.     *)
LEMMA NothingAbandoned ==
    ASSUME TypeOK, TypeOK', NoEventAbandoned, NoJobLost' => NoJobLost,
           row'.status # "none" => row.status # "none",
           posts' >= posts, confirmed \subseteq confirmed',
           \A e \in handed' :
             \/ Pending(e)'
             \/ e \in handed /\ ~Pending(e)
             \/ e \in confirmed' \/ posts' >= WebhookMaxAttempts
    PROVE  NoEventAbandoned'
<1>1. posts \in Nat /\ posts' \in Nat /\ WebhookMaxAttempts \in Nat
  BY PostsAssumption, AttemptsAssumption DEF TypeOK
<1> QED BY <1>1 DEF NoEventAbandoned

LEMMA KeptStep == Kept /\ [Next]_vars => Kept'
<1> SUFFICES ASSUME Kept, [Next]_vars PROVE Kept'
  OBVIOUS
<1>a. Typed' /\ WebhookInv' /\ LeftWithin'
  BY TypedStep, WebhookInvStep, LeftStep DEF Kept, Typed
<1>b. NoEventAbandoned'
  <2>a. /\ TypeOK /\ TypeOK' /\ Busy /\ WebhookInv /\ NoEventAbandoned
        /\ NoJobLost' => NoJobLost
        /\ posts \in Nat
    BY <1>a, LeftStep DEF Kept, Typed, TypeOK
  <2>1. CASE UNCHANGED vars
    BY <2>1, <2>a DEF vars, NoEventAbandoned, Pending, NoJobLost
  <2>2. ASSUME NEW e \in Events, Notify(e) PROVE NoEventAbandoned'
    <3>1. /\ posts' >= posts
          /\ \A f \in Events : Pending(f) => Pending(f)'
      <4>1. \A f \in Events : queue[f] > 0 => queue'[f] > 0
        BY <2>2, <2>a DEF Notify, Enqueue, TypeOK
      <4> QED BY <2>2, <2>a, <4>1 DEF Notify, Pending
    <3>2. Pending(e)'
      BY <2>2, <2>a DEF Notify, Enqueue, Pending, TypeOK
    <3>3. \A f \in handed' : Pending(f)' \/ (f \in handed /\ ~Pending(f))
      BY <2>2, <2>a, <3>1, <3>2 DEF Notify, TypeOK
    <3> QED BY <2>2, <2>a, <3>1, <3>3, NothingAbandoned DEF Notify
  <2>3. ASSUME NEW s \in Slots, NEW e \in Events, Load(s, e) PROVE NoEventAbandoned'
    <3>1. CASE Skipped
      BY <2>3, <3>1 DEF Load, Skipped, NoEventAbandoned
    <3>2. CASE ~Skipped
      <4>1. \A f \in Events : Pending(f) => Pending(f)'
        BY <2>3, <2>a, <3>2, EventsAssumption
           DEF Load, Dequeue, Pending, TypeOK, Busy, At
      <4>2. \A f \in handed' : Pending(f)' \/ (f \in handed /\ ~Pending(f))
        BY <2>3, <2>a, <4>1 DEF Load, TypeOK
      <4> QED BY <2>3, <2>a, <4>2, NothingAbandoned DEF Load
    <3> QED BY <3>1, <3>2
  <2>4. ASSUME NEW s \in Slots, Post(s) PROVE NoEventAbandoned'
    <3>1. posts' >= posts /\ confirmed \subseteq confirmed'
      BY <2>4, <2>a DEF Post, TypeOK
    <3>2. \A f \in Events : Pending(f) => Pending(f)'
      <4>1. \A t \in Slots : worker'[t].event = worker[t].event
        <5>1. PICK ok \in BOOLEAN :
                worker' = [worker EXCEPT ![s] = [@ EXCEPT !.pc = "commit", !.ok = ok]]
          BY <2>4, <2>a DEF Post, TypeOK
        <5>2. worker[s] \in SlotState
          BY <2>a, SlotType
        <5> QED BY <2>a, <5>1, <5>2 DEF TypeOK, SlotState
      <4> QED BY <2>4, <4>1 DEF Post, Pending
    <3>3. \A f \in handed' : Pending(f)' \/ (f \in handed /\ ~Pending(f))
      BY <2>4, <2>a, <3>2 DEF Post, TypeOK
    <3> QED BY <2>4, <2>a, <3>1, <3>3, NothingAbandoned DEF Post
  <2>5. ASSUME NEW s \in Slots, Delivered(s) PROVE NoEventAbandoned'
    <3>1. worker[s].event \in confirmed'
      BY <2>5, <2>a DEF Delivered, WebhookInv, SlotCounted
    <3>2. \A f \in Events \ {worker[s].event} : Pending(f) => Pending(f)'
      BY <2>5, <2>a DEF Delivered, Return, Pending, TypeOK
    <3>3. \A f \in handed' : \/ Pending(f)' \/ (f \in handed /\ ~Pending(f))
                             \/ f \in confirmed'
      BY <2>5, <2>a, <3>1, <3>2 DEF Delivered, TypeOK
    <3>4. row.status # "none"
      BY <2>5, <2>a DEF Delivered, Busy, At
    <3> QED BY <2>5, <2>a, <3>3, <3>4, NothingAbandoned DEF Delivered
  <2>6. ASSUME NEW s \in Slots, GiveUp(s) PROVE NoEventAbandoned'
    <3>1. posts' >= WebhookMaxAttempts
      BY <2>6, <2>a, SlotType, EnoughCounted
         DEF GiveUp, Exhausted, WebhookInv, SlotCounted
    <3>2. row.status # "none"
      BY <2>6, <2>a DEF GiveUp, Busy, At
    <3> QED BY <2>6, <2>a, <3>1, <3>2, NothingAbandoned DEF GiveUp
  <2>7. ASSUME NEW s \in Slots, Count(s) PROVE NoEventAbandoned'
    <3>1. \A f \in Events : Pending(f) => Pending(f)'
      <4>1. \A t \in Slots : worker'[t].event = worker[t].event
        BY <2>7 DEF Count, TypeOK
      <4> QED BY <2>7, <4>1 DEF Count, Pending
    <3>2. \A f \in handed' : Pending(f)' \/ (f \in handed /\ ~Pending(f))
      BY <2>7, <2>a, <3>1 DEF Count, TypeOK
    <3>3. row'.status = row.status
      BY <2>7, <2>a DEF Count, TypeOK, Row
    <3> QED BY <2>7, <2>a, <3>2, <3>3, NothingAbandoned DEF Count
  <2>8. ASSUME NEW s \in Slots, Requeue(s) \/ Crash(s) PROVE NoEventAbandoned'
    <3>1. worker[s].event \in Events
      BY <2>8, <2>a, SlotType DEF Requeue, Crash, Busy, At, SlotState
    <3>2. \A f \in Events : Pending(f) => Pending(f)'
      BY <2>8, <2>a, <3>1 DEF Requeue, Crash, Return, Enqueue, Pending, TypeOK
    <3>3. \A f \in handed' : Pending(f)' \/ (f \in handed /\ ~Pending(f))
      BY <2>8, <2>a, <3>2 DEF Requeue, Crash, TypeOK
    <3> QED BY <2>8, <2>a, <3>3, NothingAbandoned DEF Requeue, Crash
  <2>9. ASSUME NEW f \in {"drop", "redis"}, Spend(f) PROVE NoEventAbandoned'
    <3>1. f \in Faults /\ left[f] \in Nat /\ Budget[f] \in Nat /\ left[f] <= Budget[f]
      BY <2>a, BudgetAssumption DEF Faults, TypeOK, Kept, LeftWithin
    <3>2. left'[f] # Budget[f]
      BY <2>9, <2>a, <3>1 DEF Spend, TypeOK
    <3> QED BY <3>2 DEF NoEventAbandoned, NoJobLost
  <2> QED
    BY <2>1, <2>2, <2>3, <2>4, <2>5, <2>6, <2>7, <2>8, <2>9
       DEF Next, Step, Fault, Drop, RestartRedis
<1> QED BY <1>a, <1>b DEF Kept

(* As long as no job is lost, an event that was handed over is let go of   *)
(* only when it was accepted or the requests for its batch are used up.    *)
THEOREM EventsKept == Spec => []NoEventAbandoned
<1>1. Kept => NoEventAbandoned
  BY DEF Kept
<1> QED BY <1>1, KeptInit, KeptStep, PTL DEF Spec
============================================================================
