-------------------------- MODULE ItemRunnerProofs --------------------------
(***************************************************************************)
(* Theorems about ItemRunner for any number of runs, items and faults: the *)
(* gate, the outcomes and the pause.                                       *)
(***************************************************************************)
EXTENDS ItemRunner, FiniteSetTheorems, TLAPS

Inv == TypeOK /\ ItemInv

LEMMA InvInit == Init => Inv
<1> SUFFICES ASSUME Init PROVE Inv
  OBVIOUS
<1> USE DEF Init
<1>1. Fresh("none") \in ItemState
  BY CallsAssumption DEF Fresh, ItemState, ItemPC, Outcome
<1>2. TypeOK
  BY <1>1, BudgetAssumption DEF TypeOK, RunPC
<1>3. \A t \in Tasks : At(t, "none") /\ item[t].last = "none" /\ run[t[1]] = "idle"
  BY DEF At, Fresh, Tasks
<1>4. ItemInv
  BY <1>3, FS_EmptySet, GateAssumption
     DEF ItemInv, PermitsKept, Consistent, OutcomesEarned, At
<1> QED BY <1>2, <1>4 DEF Inv

LEMMA ItemType ==
    ASSUME TypeOK, NEW t \in Tasks
    PROVE  /\ item[t] \in ItemState
           /\ item[t].calls \in 0 .. MaxCalls /\ item[t].calls \in Nat
BY CallsAssumption DEF TypeOK, ItemState

(* What a step of one item changes of it, and that it changes no other.    *)
LEMMA ItemMoves ==
    ASSUME TypeOK, NEW t \in Tasks, Consistent(t), Item(t) \/ Raise(t)
    PROVE  /\ item' \in [Tasks -> ItemState]
           /\ \A u \in Tasks \ {t} : item'[u] = item[u]
           /\ run' = run
           /\ cancelled' = cancelled
           /\ Consistent(t)'
           /\ item[t].pc \notin {"none", "done", "raised", "dropped"}
<1> USE DEF Consistent, At
<1>a. /\ item[t] \in ItemState /\ item[t].calls \in Nat
      /\ item[t].calls <= MaxCalls /\ MaxCalls \in Nat
  BY ItemType, CallsAssumption
<1>b. ASSUME NEW new \in ItemState, item' = [item EXCEPT ![t] = new]
      PROVE  /\ item' \in [Tasks -> ItemState]
             /\ item'[t] = new
             /\ \A u \in Tasks \ {t} : item'[u] = item[u]
  BY <1>b DEF TypeOK
<1>c. ASSUME NEW pc \in ItemPC, Goto(t, pc)
      PROVE  /\ item' \in [Tasks -> ItemState]
             /\ item'[t].pc = pc
             /\ item'[t].calls = item[t].calls /\ item'[t].last = item[t].last
             /\ \A u \in Tasks \ {t} : item'[u] = item[u]
  <2>1. [item[t] EXCEPT !.pc = pc] \in ItemState
    BY <1>a DEF ItemState
  <2>2. item' = [item EXCEPT ![t] = [item[t] EXCEPT !.pc = pc]]
    BY <1>c DEF Goto
  <2> QED BY <1>a, <1>b, <2>1, <2>2 DEF ItemState
<1>d. ASSUME NEW kind \in Outcome, Finished(t, kind)
      PROVE  /\ item' \in [Tasks -> ItemState]
             /\ item'[t].pc = "done"
             /\ item'[t].calls = item[t].calls /\ item'[t].last = kind
             /\ \A u \in Tasks \ {t} : item'[u] = item[u]
  <2>1. [item[t] EXCEPT !.pc = "done", !.last = kind] \in ItemState
    BY <1>a DEF ItemState, ItemPC
  <2>2. item' = [item EXCEPT ![t] = [item[t] EXCEPT !.pc = "done", !.last = kind]]
    BY <1>d DEF Finished
  <2> QED BY <1>a, <1>b, <2>1, <2>2 DEF ItemState
<1>1. CASE Begin(t)
  <2>1. CASE cancelled
    <3>1. [item[t] EXCEPT !.pc = "done", !.last = "cancelled"] \in ItemState
      BY <1>a DEF ItemState, ItemPC, Outcome
    <3>2. item' = [item EXCEPT ![t] = [item[t] EXCEPT !.pc = "done", !.last = "cancelled"]]
      BY <1>1, <2>1 DEF Begin
    <3>3. run' = run /\ cancelled' = cancelled /\ item[t].pc = "new"
      BY <1>1 DEF Begin
    <3> QED BY <1>a, <1>b, <2>1, <3>1, <3>2, <3>3 DEF ItemState
  <2>2. CASE ~cancelled
    <3>1. Goto(t, "wait")
      BY <1>1, <2>2 DEF Begin
    <3>2. run' = run /\ cancelled' = cancelled /\ item[t].pc = "new"
      BY <1>1 DEF Begin
    <3> QED BY <1>c, <3>1, <3>2 DEF ItemPC
  <2> QED BY <2>1, <2>2
<1>2. CASE Enter(t)
  BY <1>2, <1>c DEF Enter, ItemPC
<1>3. CASE Acquire(t)
  <2>1. item[t].calls < MaxCalls
    BY <1>3, CallsAssumption DEF Acquire
  <2> QED BY <1>3, <1>c, <2>1 DEF Acquire, ItemPC
<1>4. CASE Infer(t)
  <2> DEFINE new == [item[t] EXCEPT !.pc = "call", !.calls = item[t].calls + 1]
  <2>1. item[t].pc = "ready" /\ item[t].calls < MaxCalls
    BY <1>4 DEF Infer
  <2>2. item[t].calls + 1 \in 0 .. MaxCalls
    BY <1>a, <2>1
  <2>3. new \in ItemState
    BY <1>a, <2>2 DEF ItemState, ItemPC
  <2>4. new.pc = "call" /\ new.calls = item[t].calls + 1 /\ new.last = item[t].last
    BY <1>a DEF ItemState
  <2>5. item' = [item EXCEPT ![t] = new] /\ run' = run /\ cancelled' = cancelled
    BY <1>4 DEF Infer
  <2> HIDE DEF new
  <2>6. /\ item' \in [Tasks -> ItemState] /\ item'[t] = new
        /\ \A u \in Tasks \ {t} : item'[u] = item[u]
    BY <1>b, <2>3, <2>5
  <2>7. item'[t].calls > 0 /\ item'[t].pc = "call"
    BY <1>a, <2>4, <2>6
  <2>8. item'[t].last = "cancelled" => cancelled'
    BY <2>4, <2>5, <2>6
  <2>9. run'[t[1]] # "idle"
    BY <2>1, <2>5
  <2> QED BY <2>1, <2>5, <2>6, <2>7, <2>8, <2>9
<1>5. CASE Answer(t)
  BY <1>5, <1>d DEF Answer, Outcome
<1>6. CASE AnswerRetryable(t)
  <2>1. PICK pc \in {"pause", "backoff"} :
          item' = [item EXCEPT ![t] = [item[t] EXCEPT !.pc = pc, !.last = "retryable"]]
    BY <1>6 DEF AnswerRetryable
  <2>2. [item[t] EXCEPT !.pc = pc, !.last = "retryable"] \in ItemState
    BY <1>a DEF ItemState, ItemPC, Outcome
  <2>3. run' = run /\ cancelled' = cancelled /\ item[t].pc = "call"
    BY <1>6 DEF AnswerRetryable
  <2> QED BY <1>a, <1>b, <2>1, <2>2, <2>3 DEF ItemState
<1>7. CASE Pause(t)
  BY <1>7, <1>c DEF Pause, ItemPC
<1>8. CASE BackOff(t)
  <2>1. CASE More(t)
    BY <1>8, <1>c, <2>1 DEF BackOff, More, ItemPC
  <2>2. CASE ~More(t)
    <3>1. item[t].calls = MaxCalls
      BY <1>a, <2>2 DEF More
    <3> QED BY <1>8, <1>d, <2>2, <3>1 DEF BackOff, Outcome
  <2> QED BY <2>1, <2>2
<1>9. CASE Raise(t)
  BY <1>9, <1>c DEF Raise, ItemPC
<1> QED BY <1>1, <1>2, <1>3, <1>4, <1>5, <1>6, <1>7, <1>8, <1>9 DEF Item

(* What it does to the permits.                                            *)
LEMMA ItemPermits ==
    ASSUME Inv, NEW t \in Tasks, Item(t) \/ Raise(t)
    PROVE  PermitsKept' /\ IsFiniteSet(holders')
<1> DEFINE gate == {"acquire", "ready", "call", "pause", "backoff"}
<1>a. /\ IsFiniteSet(holders) /\ Cardinality(holders) \in Nat
      /\ Cardinality(holders) <= MaxConcurrency /\ holders \subseteq Tasks
      /\ \A u \in Tasks : u \in holders <=> item[u].pc \in gate
      /\ MaxConcurrency \in Nat /\ item[t] \in ItemState
  BY FS_CardinalityType, ItemType, GateAssumption DEF Inv, TypeOK, ItemInv, PermitsKept
<1>b. \A u \in Tasks \ {t} : item'[u] = item[u]
  BY ItemMoves DEF Inv, ItemInv
<1>c. t \in DOMAIN item /\ item[t].pc = item[t].pc
  BY DEF Inv, TypeOK
<1>d. ASSUME holders' = holders, item[t].pc \in gate <=> item'[t].pc \in gate
      PROVE  PermitsKept' /\ IsFiniteSet(holders')
  BY <1>a, <1>b, <1>d DEF PermitsKept
<1>e. ASSUME holders' = holders \ {t}, item'[t].pc \notin gate
      PROVE  PermitsKept' /\ IsFiniteSet(holders')
  <2>1. IsFiniteSet(holders') /\ Cardinality(holders') <= Cardinality(holders)
    BY <1>a, <1>e, FS_Subset
  <2>2. Cardinality(holders') <= MaxConcurrency
    BY <1>a, <2>1, FS_CardinalityType
  <2>3. \A u \in Tasks : u \in holders' <=> item'[u].pc \in gate
    BY <1>a, <1>b, <1>e
  <2> QED BY <2>1, <2>2, <2>3 DEF PermitsKept
<1>f. \A pc \in ItemPC : Goto(t, pc) => item'[t].pc = pc
  BY <1>a, <1>c DEF Goto, ItemState
<1>g. \A kind \in Outcome : Finished(t, kind) =>
        item'[t].pc = "done" /\ holders' = holders \ {t}
  BY <1>a, <1>c DEF Finished, ItemState
<1>1. CASE Begin(t)
  <2>1. item[t].pc = "new" /\ holders' = holders
    BY <1>1 DEF Begin, At
  <2>2. CASE cancelled
    <3>1. item' = [item EXCEPT ![t] = [item[t] EXCEPT !.pc = "done", !.last = "cancelled"]]
      BY <1>1, <2>2 DEF Begin
    <3>2. item'[t].pc = "done"
      BY <1>a, <1>c, <3>1 DEF ItemState
    <3> QED BY <1>d, <2>1, <3>2
  <2>3. CASE ~cancelled
    <3>1. Goto(t, "wait")
      BY <1>1, <2>3 DEF Begin
    <3> QED BY <1>d, <1>f, <2>1, <3>1 DEF ItemPC
  <2> QED BY <2>2, <2>3
<1>2. CASE Enter(t)
  <2>1. /\ item[t].pc = "wait" /\ item'[t].pc = "acquire"
        /\ holders' = holders \cup {t} /\ Cardinality(holders) < MaxConcurrency
    BY <1>2, <1>f DEF Enter, At, Free, ItemPC
  <2>2. t \notin holders
    BY <1>a, <2>1
  <2>3. IsFiniteSet(holders') /\ Cardinality(holders') = Cardinality(holders) + 1
    BY <1>a, <2>1, <2>2, FS_AddElement
  <2>4. Cardinality(holders') <= MaxConcurrency
    BY <1>a, <2>1, <2>3
  <2>5. \A u \in Tasks : u \in holders' <=> item'[u].pc \in gate
    BY <1>a, <1>b, <2>1
  <2> QED BY <2>3, <2>4, <2>5 DEF PermitsKept
<1>3. CASE Acquire(t) \/ Infer(t) \/ AnswerRetryable(t) \/ Pause(t)
  <2>1. item[t].pc \in gate /\ item'[t].pc \in gate /\ holders' = holders
    BY <1>3, <1>a, <1>c, <1>f
       DEF Acquire, Infer, AnswerRetryable, Pause, At, ItemState, ItemPC
  <2> QED BY <1>d, <2>1
<1>4. CASE Answer(t)
  BY <1>4, <1>e, <1>g DEF Answer, Outcome
<1>5. CASE BackOff(t)
  <2>1. CASE More(t)
    <3>1. item[t].pc \in gate /\ item'[t].pc \in gate /\ holders' = holders
      BY <1>5, <2>1, <1>f DEF BackOff, At, ItemPC
    <3> QED BY <1>d, <3>1
  <2>2. CASE ~More(t)
    BY <1>5, <2>2, <1>e, <1>g DEF BackOff, Outcome
  <2> QED BY <2>1, <2>2
<1>6. CASE Raise(t)
  BY <1>6, <1>e, <1>f DEF Raise, ItemPC
<1> QED BY <1>1, <1>2, <1>3, <1>4, <1>5, <1>6 DEF Item

LEMMA InvStep == Inv /\ [Next]_vars => Inv'
<1> SUFFICES ASSUME Inv, [Next]_vars PROVE Inv'
  OBVIOUS
<1> USE DEF Inv
<1>a. TypeOK /\ PermitsKept /\ IsFiniteSet(holders) /\ OutcomesEarned
      /\ \A t \in Tasks : Consistent(t)
  BY DEF ItemInv
<1>1. CASE UNCHANGED vars
  BY <1>1 DEF vars, TypeOK, ItemInv, PermitsKept, Consistent, OutcomesEarned, At
<1>b. ASSUME NEW t \in Tasks, Item(t) \/ Raise(t)
      PROVE  /\ holders' \subseteq Tasks
             /\ cancelled' \in BOOLEAN /\ paused' \in BOOLEAN
             /\ late' \subseteq Tasks \X (1 .. MaxCalls)
             /\ left' \in [Faults -> Nat]
  <2>1. holders' \subseteq Tasks
    BY <1>b DEF Item, Begin, Enter, Acquire, Infer, Answer, AnswerRetryable, Pause,
                BackOff, Raise, Finished, TypeOK
  <2>2. cancelled' \in BOOLEAN
    BY <1>b, ItemMoves DEF TypeOK, ItemInv
  <2>3. paused' \in BOOLEAN
    <3>1. CASE Pause(t)
      BY <3>1 DEF Pause, TypeOK
    <3>2. CASE ~Pause(t)
      BY <1>b, <3>2 DEF Item, Begin, Enter, Acquire, Infer, Answer, AnswerRetryable,
                        BackOff, Raise, TypeOK
    <3> QED BY <3>1, <3>2
  <2>5. left' \in [Faults -> Nat]
    <3>1. CASE Raise(t)
      BY <3>1 DEF Raise, Spend, TypeOK, Faults
    <3>2. CASE Item(t)
      <4>1. left' = left
        BY <3>2 DEF Item, Begin, Enter, Acquire, Infer, Answer, AnswerRetryable, Pause,
                    BackOff
      <4> QED BY <4>1 DEF TypeOK
    <3> QED BY <1>b, <3>1, <3>2
  <2>6. late' \subseteq Tasks \X (1 .. MaxCalls)
    <3>0. /\ late \subseteq Tasks \X (1 .. MaxCalls) /\ item[t].calls \in Nat
          /\ MaxCalls \in Nat
      BY ItemType, CallsAssumption DEF TypeOK
    <3>1. CASE Infer(t)
      <4>1. item[t].calls + 1 \in 1 .. MaxCalls
        BY <1>a, <3>0, <3>1 DEF Infer, Consistent, At
      <4> QED BY <3>0, <3>1, <4>1 DEF Infer
    <3>2. CASE Pause(t)
      <4>1. item[t].calls \in 1 .. MaxCalls
        BY <1>a, <3>2, ItemType DEF Pause, Consistent, At
      <4> QED BY <3>0, <3>2, <4>1 DEF Pause
    <3>3. CASE ~Infer(t) /\ ~Pause(t)
      BY <1>b, <3>0, <3>3 DEF Item, Begin, Enter, Acquire, Answer, AnswerRetryable,
                        BackOff, Raise
    <3> QED BY <3>1, <3>2, <3>3
  <2> QED BY <2>1, <2>2, <2>3, <2>5, <2>6
<1>2. ASSUME NEW t \in Tasks, Item(t) \/ Raise(t) PROVE Inv'
  <2>1. TypeOK'
    BY <1>a, <1>b, <1>2, ItemMoves DEF TypeOK
  <2>2. PermitsKept' /\ IsFiniteSet(holders')
    BY <1>2, ItemPermits
  <2>3. \A u \in Tasks : Consistent(u)'
    BY <1>a, <1>2, ItemMoves DEF Consistent, At
  <2>4. \A r \in Runs, u \in Tasks : At(u, "done") /\ u \in Of(r) => item'[u] = item[u]
    BY <1>a, <1>2, ItemMoves DEF At
  <2>5. OutcomesEarned'
    BY <1>a, <1>2, <2>4, ItemMoves DEF OutcomesEarned, At, Of
  <2> QED BY <2>1, <2>2, <2>3, <2>5 DEF ItemInv
<1>3. ASSUME NEW r \in Runs, Start(r) PROVE Inv'
  <2>1. Fresh("new") \in ItemState /\ Fresh("new").pc = "new"
        /\ Fresh("new").calls = 0 /\ Fresh("new").last = "none"
    BY CallsAssumption DEF Fresh, ItemState, ItemPC, Outcome
  <2>2. \A t \in Tasks : item'[t] = IF t \in Of(r) THEN Fresh("new") ELSE item[t]
    BY <1>3 DEF Start
  <2>3. \A q \in Runs : run'[q] = IF q = r THEN "running" ELSE run[q]
    BY <1>3 DEF Start, TypeOK
  <2>4. TypeOK'
    BY <1>3, <2>1, <1>a DEF Start, TypeOK, RunPC
  <2>5. \A t \in Tasks : t \in Of(r) => item[t].pc = "none"
    BY <1>a, <1>3 DEF Start, Of, Consistent, At
  <2>6. PermitsKept' /\ IsFiniteSet(holders')
    BY <1>a, <1>3, <2>1, <2>2, <2>5 DEF Start, PermitsKept
  <2>7. ASSUME NEW t \in Tasks PROVE Consistent(t)'
    <3>1. t[1] \in Runs /\ (t \in Of(r) <=> t[1] = r)
      BY DEF Tasks, Of
    <3>2. CASE t[1] = r
      BY <3>1, <3>2, <2>1, <2>2, <2>3, CallsAssumption DEF Consistent, At
    <3>3. CASE t[1] # r
      BY <3>1, <3>3, <1>3, <1>a, <2>2, <2>3 DEF Start, Consistent, At
    <3> QED BY <3>2, <3>3
  <2>8. OutcomesEarned'
    BY <1>a, <1>3, <2>2, <2>3 DEF Start, OutcomesEarned, Of, At
  <2> QED BY <2>4, <2>6, <2>7, <2>8 DEF ItemInv
<1>4. ASSUME NEW r \in Runs, Return(r) PROVE Inv'
  <2>1. /\ item' = item /\ holders' = holders /\ cancelled' = cancelled
        /\ run' = [run EXCEPT ![r] = run'[r]]
        /\ run[r] = "running"
        /\ run'[r] = IF AnyCancelled(r) THEN "released" ELSE "returned"
        /\ \A t \in Of(r) : At(t, "done")
    BY <1>4 DEF Return, TypeOK
  <2>2. TypeOK'
    BY <1>4, <2>1 DEF Return, TypeOK, RunPC
  <2>3. PermitsKept' /\ IsFiniteSet(holders')
    BY <1>a, <2>1 DEF PermitsKept
  <2>4. \A t \in Tasks : Consistent(t)'
    BY <1>a, <2>1 DEF Consistent, At, TypeOK, Tasks
  <2>5. ASSUME NEW q \in Runs, run'[q] = "returned", NEW t \in Of(q)
        PROVE  /\ At(t, "done")'
               /\ item'[t].last \in {"final", "retryable"}
               /\ item'[t].last = "retryable" => item'[t].calls = MaxCalls
    <3>1. CASE q # r
      BY <1>a, <2>1, <2>5, <3>1 DEF OutcomesEarned, TypeOK, At
    <3>2. CASE q = r
      <4>1. t \in Tasks /\ At(t, "done") /\ item[t].last # "cancelled"
        BY <2>1, <2>5, <3>2 DEF AnyCancelled, Of
      <4> QED BY <1>a, <2>1, <4>1, ItemType DEF Consistent, ItemState, Outcome, At
    <3> QED BY <3>1, <3>2
  <2>6. OutcomesEarned'
    BY <2>5 DEF OutcomesEarned, Of
  <2> QED BY <2>2, <2>3, <2>4, <2>6 DEF ItemInv
<1>5. ASSUME NEW r \in Runs, GatherRaises(r) PROVE Inv'
  <2>1. /\ item' = item /\ holders' = holders /\ cancelled' = cancelled
        /\ run' = [run EXCEPT ![r] = "raised"] /\ run[r] = "running"
    BY <1>5 DEF GatherRaises
  <2>2. TypeOK'
    BY <1>5, <2>1 DEF GatherRaises, TypeOK, RunPC
  <2>3. \A t \in Tasks : Consistent(t)'
    BY <1>a, <2>1 DEF Consistent, At, TypeOK, Tasks
  <2> QED BY <1>a, <2>1, <2>2, <2>3
          DEF ItemInv, PermitsKept, OutcomesEarned, At, TypeOK, Of
<1>6. ASSUME NEW r \in Runs, TimeOut(r) PROVE Inv'
  <2> DEFINE ended(t) == t \in Of(r) /\ ~At(t, "done") /\ ~At(t, "raised")
             gate == {"acquire", "ready", "call", "pause", "backoff"}
  <2>1. /\ holders' = holders \ Of(r) /\ cancelled' = cancelled
        /\ run' = [run EXCEPT ![r] = "gone"] /\ run[r] = "running"
        /\ item' \in [Tasks -> ItemState]
        /\ \A t \in Tasks : ended(t) =>
             /\ item'[t].pc = "dropped"
             /\ item'[t].last = item[t].last /\ item'[t].calls = item[t].calls
        /\ \A t \in Tasks : ~ended(t) => item'[t] = item[t]
    BY <1>6, ItemType DEF TimeOut, TypeOK, ItemState, ItemPC
  <2>2. TypeOK'
    BY <1>6, <2>1 DEF TimeOut, TypeOK, RunPC, Spend, Faults
  <2>3. IsFiniteSet(holders') /\ Cardinality(holders') <= MaxConcurrency
    <3>1. IsFiniteSet(holders') /\ Cardinality(holders') <= Cardinality(holders)
      BY <1>a, <2>1, FS_Subset
    <3> QED BY <1>a, <3>1, FS_CardinalityType, GateAssumption DEF PermitsKept
  <2>4. \A t \in Tasks : t \in holders' <=> item'[t].pc \in gate
    <3>1. \A t \in Tasks : ended(t) => item'[t].pc \notin gate /\ t \notin holders'
      BY <2>1
    <3>2. \A t \in Tasks : ~ended(t) /\ t \in Of(r) => item'[t].pc \notin gate /\ t \notin holders'
      BY <2>1 DEF At
    <3>3. \A t \in Tasks : t \notin Of(r) => (t \in holders' <=> item'[t].pc \in gate)
      BY <1>a, <2>1 DEF PermitsKept
    <3> QED BY <3>1, <3>2, <3>3
  <2>5. \A t \in Tasks : Consistent(t)'
    BY <1>a, <2>1 DEF Consistent, At, TypeOK, Tasks, Of
  <2>6. OutcomesEarned'
    BY <1>a, <2>1 DEF OutcomesEarned, TypeOK, Of, At
  <2> QED BY <2>2, <2>3, <2>4, <2>5, <2>6 DEF ItemInv, PermitsKept
<1>7. CASE Cancel
  <2>1. TypeOK'
    BY <1>7 DEF Cancel, TypeOK, Spend, Faults
  <2> QED BY <1>7, <1>a, <2>1 DEF Cancel, ItemInv, PermitsKept, Consistent, OutcomesEarned, At
<1>8. CASE Unpause
  BY <1>8 DEF Unpause, TypeOK, ItemInv, PermitsKept, Consistent, OutcomesEarned, At
<1> QED
  BY <1>1, <1>2, <1>3, <1>4, <1>5, <1>6, <1>7, <1>8 DEF Next, Gather

LEMMA InvAlways == Spec => []Inv
BY InvInit, InvStep, PTL DEF Spec

----------------------------------------------------------------------------
(* Every variable keeps its type; no item calls more than MaxCalls times.  *)
THEOREM ItemTypeCorrect == Spec => []TypeOK
<1>1. Inv => TypeOK
  BY DEF Inv
<1> QED BY <1>1, InvAlways, PTL

(* Permits, outcomes and cancellations agree.                              *)
THEOREM ItemInvariant == Spec => []ItemInv
<1>1. Inv => ItemInv
  BY DEF Inv
<1> QED BY <1>1, InvAlways, PTL

(* The provider sees at most max_concurrency calls of a batch at once from *)
(* a worker, with any number of abandoned items beside their retries.      *)
THEOREM ConcurrencySafe == Spec => []ConcurrencyCapped
<1>1. ItemInv => ConcurrencyCapped
  <2> SUFFICES ASSUME ItemInv PROVE ConcurrencyCapped
    OBVIOUS
  <2>1. InFlight \subseteq holders
    BY DEF ItemInv, PermitsKept, InFlight
  <2>2. /\ Cardinality(InFlight) \in Nat /\ Cardinality(holders) \in Nat
        /\ Cardinality(InFlight) <= Cardinality(holders)
    BY <2>1, FS_Subset, FS_CardinalityType DEF ItemInv
  <2> QED BY <2>2, GateAssumption DEF ItemInv, PermitsKept, ConcurrencyCapped
<1> QED BY <1>1, ItemInvariant, PTL

(* A counted chunk has an earned outcome for every line.                   *)
THEOREM OutcomesSafe == Spec => []OutcomesEarned
<1>1. ItemInv => OutcomesEarned
  BY DEF ItemInv
<1> QED BY <1>1, ItemInvariant, PTL

----------------------------------------------------------------------------
(* The pause                                                               *)

(* Whoever makes a late call is inside the gate.                           *)
LEMMA GateBounds ==
    ASSUME Inv
    PROVE  IsFiniteSet(InFlight) /\ Cardinality(InFlight) <= MaxConcurrency
<1>1. InFlight \subseteq holders
  BY DEF Inv, ItemInv, PermitsKept, InFlight
<1>2. /\ IsFiniteSet(InFlight)
      /\ Cardinality(InFlight) \in Nat /\ Cardinality(holders) \in Nat
      /\ Cardinality(InFlight) <= Cardinality(holders)
  BY <1>1, FS_Subset, FS_CardinalityType DEF Inv, ItemInv
<1> QED BY <1>2, GateAssumption DEF Inv, ItemInv, PermitsKept

LEMMA LateStep ==
    ASSUME Inv, Inv', LateInv, [Next]_vars
    PROVE  LateInv'
<1>a. /\ IsFiniteSet(InFlight') /\ Cardinality(InFlight') <= MaxConcurrency
      /\ TypeOK
  <2>1. (IsFiniteSet(InFlight) /\ Cardinality(InFlight) <= MaxConcurrency)'
    BY GateBounds, PTL
  <2> QED BY <2>1 DEF Inv
<1>b. ASSUME Late' \subseteq InFlight', ~paused' => late' = {} PROVE LateInv'
  <2>1. Late' \cup InFlight' = InFlight'
    BY <1>b
  <2> QED BY <1>a, <1>b, <2>1 DEF LateInv
<1>c. ASSUME Late' \cup InFlight' \subseteq Late \cup InFlight, ~paused' => late' = {}
      PROVE  LateInv'
  <2>1. /\ IsFiniteSet(Late' \cup InFlight')
        /\ Cardinality(Late' \cup InFlight') <= Cardinality(Late \cup InFlight)
        /\ Cardinality(Late' \cup InFlight') \in Nat
        /\ Cardinality(Late \cup InFlight) \in Nat
    BY <1>c, FS_Subset, FS_CardinalityType DEF LateInv
  <2> QED BY <1>c, <2>1, GateAssumption DEF LateInv
<1>1. CASE ~paused'
  <2>1. late' = {}
    <3>1. ASSUME NEW t \in Tasks, Item(t) PROVE paused' \/ (late' = late /\ paused' = paused)
      BY <1>1, <3>1 DEF Item, Begin, Enter, Acquire, Infer, Answer, AnswerRetryable,
                        Pause, BackOff, TypeOK
    <3> QED BY <1>1, <3>1 DEF LateInv, Next, Start, Gather, Return, GatherRaises, TimeOut,
                              Raise, Cancel, Unpause, vars
  <2>2. Late' = {}
    BY <2>1 DEF Late
  <2> QED BY <1>b, <2>1, <2>2
<1>2. CASE paused' /\ ~paused
  <2>1. PICK t \in Tasks : Pause(t)
    BY <1>2 DEF Next, Start, Gather, Return, GatherRaises, TimeOut, Raise, Cancel, Unpause,
                Item, Begin, Enter, Acquire, Infer, Answer, AnswerRetryable, BackOff, vars
  <2>2. late' = {<<t, item[t].calls>>}
    BY <1>2, <2>1 DEF Pause
  <2>3. item'[t].pc = "backoff"
    BY <1>a, <2>1, ItemType DEF Pause, Goto, TypeOK, ItemState
  <2>4. Late' \subseteq InFlight'
    BY <2>2, <2>3 DEF Late, InFlight
  <2> QED BY <1>2, <1>b, <2>4
<1>3. CASE paused' /\ paused
  <2>1. ASSUME NEW t \in Tasks, Item(t) \/ Raise(t)
        PROVE  /\ InFlight' \subseteq InFlight
               /\ late' = late \/ Infer(t)
    <3>1. item'[t].pc \in {"ready", "call", "pause", "backoff"} => t \in InFlight
      <4>0. item[t] \in ItemState
        BY <1>a, ItemType
      <4>1. \A pc : Goto(t, pc) => item'[t].pc = pc
        BY <1>a, <4>0 DEF Goto, TypeOK, ItemState
      <4>2. CASE Begin(t)
        <5>1. CASE cancelled
          <6>1. item' = [item EXCEPT ![t] = [item[t] EXCEPT !.pc = "done", !.last = "cancelled"]]
            BY <4>2, <5>1 DEF Begin
          <6>2. t \in DOMAIN item
            BY <1>a DEF TypeOK
          <6>3. item'[t].pc = "done"
            BY <4>0, <6>1, <6>2 DEF ItemState
          <6> QED BY <6>3
        <5>2. CASE ~cancelled
          BY <4>1, <4>2, <5>2 DEF Begin
        <5> QED BY <5>1, <5>2
      <4>3. CASE Enter(t) \/ Acquire(t) \/ Raise(t)
        BY <1>3, <4>1, <4>3 DEF Enter, Acquire, Raise
      <4>4. CASE item[t].pc \in {"ready", "call", "pause", "backoff"}
        BY <4>4 DEF InFlight
      <4> QED BY <2>1, <4>2, <4>3, <4>4 DEF Item, Infer, Answer, AnswerRetryable, Pause,
                                             BackOff, At
    <3>2. \A u \in Tasks \ {t} : item'[u] = item[u]
      BY <2>1, ItemMoves DEF Inv, ItemInv
    <3>3. InFlight' \subseteq InFlight
      BY <3>1, <3>2 DEF InFlight
    <3>4. late' = late \/ Infer(t)
      BY <1>3, <2>1 DEF Item, Begin, Enter, Acquire, Answer, AnswerRetryable, Pause,
                        BackOff, Raise
    <3> QED BY <3>3, <3>4
  <2>2. ASSUME NEW t \in Tasks, Infer(t) PROVE Late' \subseteq Late \cup InFlight
    <3>1. t \in InFlight /\ late' = late \cup {<<t, item[t].calls + 1>>}
      BY <1>3, <2>2 DEF Infer, At, InFlight
    <3> QED BY <3>1 DEF Late
  <2>3. ASSUME UNCHANGED late PROVE Late' = Late
    BY <2>3 DEF Late
  <2>4. CASE \E t \in Tasks : Item(t) \/ Raise(t)
    BY <1>3, <1>c, <2>1, <2>2, <2>3, <2>4
  <2>5. CASE ~\E t \in Tasks : Item(t) \/ Raise(t)
    <3>1. late' = late
      BY <1>3, <2>5 DEF Next, Start, Gather, Return, GatherRaises, TimeOut, Cancel, Unpause, vars
    <3>2. InFlight' \subseteq InFlight
      <4>1. ASSUME NEW r \in Runs, Start(r) PROVE InFlight' \subseteq InFlight
        BY <4>1 DEF Start, InFlight, Fresh
      <4>2. ASSUME NEW r \in Runs, TimeOut(r) PROVE InFlight' \subseteq InFlight
        <5>1. \A t \in Tasks : item'[t].pc = "dropped" \/ item'[t] = item[t]
          BY <1>a, <4>2, ItemType DEF TimeOut, ItemState
        <5> QED BY <5>1 DEF InFlight
      <4>3. item' = item => InFlight' \subseteq InFlight
        BY DEF InFlight
      <4> QED BY <1>3, <2>5, <4>1, <4>2, <4>3
              DEF Next, Gather, Return, GatherRaises, Cancel, Unpause, vars
    <3> QED BY <1>3, <1>c, <2>3, <3>1, <3>2
  <2> QED BY <2>4, <2>5
<1> QED BY <1>1, <1>2, <1>3

(* The items that call without a token while the bucket is paused are      *)
(* never more than the gate lets in.                                       *)
THEOREM LateInvariant == Spec => []LateInv
<1>1. Init => LateInv
  <2> SUFFICES ASSUME Init PROVE LateInv
    OBVIOUS
  <2>1. Late \cup InFlight = {}
    BY DEF Init, Late, InFlight, Fresh
  <2> QED BY <2>1, FS_EmptySet, GateAssumption DEF LateInv, Init
<1> QED BY <1>1, LateStep, InvAlways, PTL DEF Spec

(* A provider that asked for a pause gets at most the calls of             *)
(* max_concurrency items until it ends (jobs.py:225-250): for any number   *)
(* of runs, items and attempts.                                            *)
THEOREM PauseSafe == Spec => []PauseHolds
<1>1. Inv /\ LateInv => PauseHolds
  <2> SUFFICES ASSUME Inv, LateInv PROVE PauseHolds
    OBVIOUS
  <2> DEFINE S == Late \cup InFlight
             C == 1 .. MaxCalls
  <2>1. late \subseteq S \X C
    BY DEF Late, Inv, TypeOK
  <2>2. /\ IsFiniteSet(C) /\ Cardinality(C) = MaxCalls
        /\ IsFiniteSet(S) /\ Cardinality(S) \in Nat /\ Cardinality(S) <= MaxConcurrency
    <3>1. 1 \in Int /\ MaxCalls \in Int /\ ~(1 > MaxCalls) /\ MaxCalls - 1 + 1 = MaxCalls
      BY CallsAssumption
    <3>2. IsFiniteSet(C) /\ Cardinality(C) = MaxCalls
      BY <3>1, FS_Interval
    <3>3. IsFiniteSet(S) /\ Cardinality(S) <= MaxConcurrency
      BY DEF LateInv
    <3> QED BY <3>2, <3>3, FS_CardinalityType
  <2>3. IsFiniteSet(S \X C) /\ Cardinality(S \X C) = Cardinality(S) * MaxCalls
    BY <2>2, FS_Product
  <2>4. /\ Cardinality(late) <= Cardinality(S \X C)
        /\ Cardinality(late) \in Nat
    BY <2>1, <2>3, FS_Subset, FS_CardinalityType
  <2>5. \A m, n, k \in Nat : m <= n => m * k <= n * k
    OBVIOUS
  <2>6. Cardinality(S) * MaxCalls <= MaxConcurrency * MaxCalls
    BY <2>2, <2>5, CallsAssumption, GateAssumption
  <2> HIDE DEF S, C
  <2>7. Cardinality(S) * MaxCalls \in Nat /\ MaxConcurrency * MaxCalls \in Nat
    BY <2>2, CallsAssumption, GateAssumption
  <2>8. Cardinality(late) <= MaxConcurrency * MaxCalls
    BY <2>3, <2>4, <2>6, <2>7
  <2> QED BY <2>8 DEF PauseHolds
<1> QED BY <1>1, InvAlways, LateInvariant, PTL
=============================================================================
