------------------------ MODULE BatchCreationProofs ------------------------
(***************************************************************************)
(* Theorems about BatchCreation for any requests, keys, ids and faults: it *)
(* keeps the promise of CreateOnce.                                        *)
(***************************************************************************)
EXTENDS BatchCreation, TLAPS

Inv == TypeOK /\ CreationInv

LEMMA InvInit == Init => Inv
<1> SUFFICES ASSUME Init PROVE Inv
  OBVIOUS
<1> USE DEF Init
<1>1. TypeOK
  BY BoundsAssumption DEF TypeOK, RequestState, PC, Ids, NoId
<1>2. CreationInv
  BY DEF CreationInv, FreshIds, KeyUnique, TotalsCounted, TotalsMatchPrompts,
         JobsHaveRows, Enqueued, Fresh, At
<1> QED BY <1>1, <1>2 DEF Inv

LEMMA RequestType ==
    ASSUME TypeOK, NEW r \in Requests
    PROVE  /\ request[r] \in RequestState
           /\ request[r].pc \in PC
           /\ request[r].id \in Ids \cup {NoId}
           /\ request[r].total \in Nat
BY DEF TypeOK, RequestState

(* The id of a request that has generated one.                             *)
LEMMA OwnId ==
    ASSUME TypeOK, FreshIds, NEW r \in Requests, Fresh(r)
    PROVE  request[r].id \in Ids
BY BoundsAssumption DEF TypeOK, FreshIds, Ids

LEMMA RowId ==
    ASSUME TypeOK, Enqueued, NEW r \in Requests,
           request[r].pc \in {"enqueue", "respond", "accepted"}
    PROVE  request[r].id \in Ids
<1>1. PICK b \in rows : b.id = request[r].id
  BY DEF Enqueued
<1>2. b \in Row
  BY DEF TypeOK
<1> QED BY <1>1, <1>2 DEF Row

LEMMA TypeStep == Inv /\ [Next]_vars => TypeOK'
<1> SUFFICES ASSUME TypeOK, FreshIds, Enqueued, [Next]_vars PROVE TypeOK'
  BY DEF Inv, CreationInv
<1>1. CASE UNCHANGED vars
  BY <1>1 DEF vars, TypeOK
<1>2. ASSUME NEW r \in Requests, Send(r) PROVE TypeOK'
  <2>1. [pc |-> "lookup", id |-> NoId, total |-> 0] \in RequestState
    BY DEF RequestState, PC
  <2> QED BY <1>2, <2>1 DEF Send, TypeOK
<1>3. ASSUME NEW r \in Requests, NEW pc \in PC, Goto(r, pc)
      PROVE  request' \in [Requests -> RequestState]
  BY <1>3, RequestType DEF Goto, RequestState, TypeOK
<1>4. ASSUME NEW r \in Requests, Found(r) PROVE TypeOK'
  <2>1. PICK b \in Existing(r) :
          request' = [request EXCEPT ![r] = [@ EXCEPT !.pc = "enqueue", !.id = b.id]]
    BY <1>4 DEF Found, TypeOK
  <2>2. b.id \in Ids
    BY DEF Existing, SameKey, TypeOK, Row
  <2>3. [request[r] EXCEPT !.pc = "enqueue", !.id = b.id] \in RequestState
    BY <2>2, RequestType DEF RequestState, PC
  <2> QED BY <1>4, <2>1, <2>3 DEF Found, TypeOK
<1>5. ASSUME NEW r \in Requests, NotFound(r) PROVE TypeOK'
  <2>1. ids' \in 0 .. MaxIds /\ ids + 1 \in Ids
    BY <1>5, BoundsAssumption DEF NotFound, TypeOK, Ids
  <2>2. [request[r] EXCEPT !.pc = "upload", !.id = ids + 1] \in RequestState
    BY <2>1, RequestType DEF RequestState, PC
  <2>3. request' = [request EXCEPT ![r] = [@ EXCEPT !.pc = "upload", !.id = ids + 1]]
    BY <1>5 DEF NotFound, TypeOK
  <2> QED BY <1>5, <2>1, <2>2, <2>3 DEF NotFound, TypeOK
<1>6. ASSUME NEW r \in Requests, Upload(r) PROVE TypeOK'
  <2>1. object' \in [Ids -> Nat]
    <3>1. PICK n \in Lines \cup {source} : object' = [object EXCEPT ![request[r].id] = n]
      BY <1>6 DEF Upload
    <3>2. n \in Nat
      BY LinesAssumption DEF TypeOK
    <3> QED BY <3>1, <3>2 DEF TypeOK
  <2>2. request' \in [Requests -> RequestState]
    <3>1. Goto(r, "count")
      BY <1>6 DEF Upload
    <3> QED BY <1>3, <3>1 DEF PC
  <2>3. UNCHANGED <<rows, source, ids, queue, started, left>>
    BY <1>6 DEF Upload
  <2> QED BY <2>1, <2>2, <2>3 DEF TypeOK
<1>7. ASSUME NEW r \in Requests, Count(r) PROVE TypeOK'
  <2>1. Counted(r) \in Nat
    BY <1>7, OwnId DEF Count, Counted, Fresh, At, TypeOK
  <2>2. PICK pc \in {"rejected", "insert"} :
          request' = [request EXCEPT ![r] = [@ EXCEPT !.total = Counted(r), !.pc = pc]]
    BY <1>7 DEF Count, TypeOK
  <2>3. [request[r] EXCEPT !.total = Counted(r), !.pc = pc] \in RequestState
    BY <2>1, RequestType DEF RequestState, PC
  <2> QED BY <1>7, <2>2, <2>3 DEF Count, TypeOK
<1>8. ASSUME NEW r \in Requests, Insert(r) PROVE TypeOK'
  BY <1>3, <1>8 DEF Insert, TypeOK, PC
<1>9. ASSUME NEW r \in Requests, Commit(r) PROVE TypeOK'
  <2>1. [id |-> request[r].id, key |-> KeyOf[r], total_items |-> request[r].total] \in Row
    BY <1>9, OwnId, RequestType DEF Commit, Fresh, At, Row, Key
  <2> QED BY <1>3, <1>9, <2>1 DEF Commit, TypeOK, PC
<1>10. ASSUME NEW r \in Requests, Enqueue(r) PROVE TypeOK'
  BY <1>3, <1>10, RowId DEF Enqueue, At, TypeOK, PC
<1>11. ASSUME NEW r \in Requests, Respond(r) PROVE TypeOK'
  BY <1>3, <1>11 DEF Respond, TypeOK, PC
<1>12. ASSUME NEW r \in Requests, Crash(r) PROVE TypeOK'
  <2>1. left' \in [Faults -> Nat]
    BY <1>12 DEF Crash, Spend, TypeOK, Faults
  <2> QED BY <1>3, <1>12, <2>1 DEF Crash, TypeOK, PC
<1>13. ASSUME NEW i \in Ids, Orchestrate(i) PROVE TypeOK'
  BY <1>13 DEF Orchestrate, TypeOK
<1>14. CASE Overwrite
  <2>1. left' \in [Faults -> Nat]
    BY <1>14 DEF Overwrite, Spend, TypeOK, Faults
  <2> QED BY <1>14, <2>1 DEF Overwrite, TypeOK
<1> QED
  BY <1>1, <1>2, <1>4, <1>5, <1>6, <1>7, <1>8, <1>9, <1>10, <1>11, <1>12,
     <1>13, <1>14 DEF Next, Handle

----------------------------------------------------------------------------
(* CreationInv, one conjunct at a time.  What each step does to the        *)
(* request that takes it, and to no other:                                 *)
LEMMA Others ==
    ASSUME TypeOK, NEW r \in Requests, Send(r) \/ Handle(r) \/ Crash(r)
    PROVE  \A q \in Requests \ {r} : request'[q] = request[q]
BY DEF TypeOK, Send, Handle, Crash, Found, NotFound, Upload, Count, Insert,
       Commit, Enqueue, Respond, Goto

(* What it does to that request.                                           *)
LEMMA Moves ==
    ASSUME TypeOK, NEW r \in Requests
    PROVE  /\ Send(r) => request'[r].pc = "lookup"
           /\ Found(r) => /\ request'[r].pc = "enqueue"
                          /\ \E b \in Existing(r) : request'[r].id = b.id
           /\ NotFound(r) => request'[r].pc = "upload" /\ request'[r].id = ids + 1
           /\ Count(r) => /\ request'[r].id = request[r].id
                          /\ request'[r].total = Counted(r)
                          /\ request'[r].pc = IF Counted(r) < 1 THEN "rejected"
                                              ELSE "insert"
           /\ \A pc \in PC : Goto(r, pc) =>
                 /\ request'[r].pc = pc
                 /\ request'[r].id = request[r].id
                 /\ request'[r].total = request[r].total
<1> DEFINE old == request[r]
<1>1. old \in RequestState /\ r \in DOMAIN request
  BY DEF TypeOK
<1>2. Send(r) => request'[r].pc = "lookup"
  BY <1>1 DEF Send
<1>3. Found(r) => request'[r].pc = "enqueue" /\ \E b \in Existing(r) : request'[r].id = b.id
  BY <1>1 DEF Found, RequestState
<1>4. NotFound(r) => request'[r].pc = "upload" /\ request'[r].id = ids + 1
  BY <1>1 DEF NotFound, RequestState
<1>5. Count(r) => /\ request'[r].id = request[r].id
                  /\ request'[r].total = Counted(r)
                  /\ request'[r].pc = IF Counted(r) < 1 THEN "rejected" ELSE "insert"
  BY <1>1 DEF Count, RequestState
<1>6. \A pc \in PC : Goto(r, pc) =>
        /\ request'[r].pc = pc
        /\ request'[r].id = request[r].id
        /\ request'[r].total = request[r].total
  BY <1>1 DEF Goto, RequestState
<1> QED BY <1>2, <1>3, <1>4, <1>5, <1>6

(* A request that leaves fresh, or stays where it has its id, and leaves   *)
(* the rows alone, keeps the ids apart.                                    *)
LEMMA FreshStep == Inv /\ [Next]_vars => FreshIds'
<1> SUFFICES ASSUME TypeOK, FreshIds, Enqueued, [Next]_vars PROVE FreshIds'
  BY DEF Inv, CreationInv
<1>a. ids \in Nat /\ (\A b \in rows : b.id \in Nat) /\ \A r \in Requests : request[r].id \in Nat
  BY RequestType DEF TypeOK, Row, Ids, NoId
<1>1. CASE UNCHANGED vars
  BY <1>1 DEF vars, FreshIds, Fresh
<1>2. ASSUME NEW r \in Requests, rows' = rows, ids' = ids,
             \A q \in Requests \ {r} : request'[q] = request[q],
             Fresh(r)' => Fresh(r) /\ request'[r].id = request[r].id
      PROVE  FreshIds'
  BY <1>2 DEF FreshIds, Fresh
<1>3. ASSUME NEW r \in Requests, Send(r) \/ Found(r) \/ Crash(r) PROVE FreshIds'
  <2>1. ~Fresh(r)'
    BY <1>3, Moves DEF Crash, Fresh, PC
  <2> QED BY <1>2, <1>3, <2>1, Others DEF Handle, Send, Found, Crash
<1>4. ASSUME NEW r \in Requests, NotFound(r) PROVE FreshIds'
  <2>1. /\ ids' = ids + 1 /\ rows' = rows
        /\ request'[r].id = ids + 1
        /\ \A q \in Requests \ {r} : request'[q] = request[q]
    BY <1>4, Others, Moves DEF NotFound, Handle
  <2> QED BY <2>1, <1>a DEF FreshIds, Fresh
<1>5. ASSUME NEW r \in Requests, Upload(r) \/ Count(r) \/ Insert(r) PROVE FreshIds'
  <2>1. Fresh(r) /\ request'[r].id = request[r].id
    BY <1>5, Moves DEF Upload, Count, Insert, At, Fresh, PC
  <2> QED BY <1>2, <1>5, <2>1, Others DEF Handle, Upload, Count, Insert
<1>6. ASSUME NEW r \in Requests, Commit(r) PROVE FreshIds'
  <2>1. /\ Fresh(r) /\ ~Fresh(r)'
        /\ rows' = rows \cup {[id |-> request[r].id, key |-> KeyOf[r],
                               total_items |-> request[r].total]}
        /\ ids' = ids
        /\ \A q \in Requests \ {r} : request'[q] = request[q]
    BY <1>6, Others, Moves DEF Commit, Handle, At, Fresh, PC
  <2>2. request[r].id <= ids
    BY <2>1 DEF FreshIds
  <2> QED BY <2>1, <2>2, <1>a DEF FreshIds, Fresh
<1>7. ASSUME NEW r \in Requests, Enqueue(r) \/ Respond(r) PROVE FreshIds'
  <2>1. ~Fresh(r)'
    BY <1>7, Moves DEF Enqueue, Respond, Fresh, PC
  <2> QED BY <1>2, <1>7, <2>1, Others DEF Handle, Enqueue, Respond
<1>8. CASE Overwrite \/ \E i \in Ids : Orchestrate(i)
  BY <1>8 DEF Overwrite, Orchestrate, FreshIds, Fresh
<1> QED
  BY <1>1, <1>3, <1>4, <1>5, <1>6, <1>7, <1>8 DEF Next, Handle

LEMMA KeyStep == Inv /\ [Next]_vars => KeyUnique'
<1> SUFFICES ASSUME TypeOK, KeyUnique, [Next]_vars PROVE KeyUnique'
  BY DEF Inv, CreationInv
<1>1. CASE UNCHANGED vars
  BY <1>1 DEF vars, KeyUnique, At, SameKey
<1>2. ASSUME NEW r \in Requests, rows' = rows,
             \A q \in Requests \ {r} : request'[q] = request[q],
             ~At(r, "commit")'
      PROVE  KeyUnique'
  BY <1>2 DEF KeyUnique, At, SameKey
<1>3. ASSUME NEW r \in Requests,
             Send(r) \/ Found(r) \/ NotFound(r) \/ Upload(r) \/ Count(r)
               \/ Enqueue(r) \/ Respond(r) \/ Crash(r)
      PROVE  KeyUnique'
  <2>1. rows' = rows /\ ~At(r, "commit")'
    BY <1>3, Moves DEF Send, Found, NotFound, Upload, Count, Enqueue, Respond,
                       Crash, At, PC
  <2> QED BY <1>2, <1>3, <2>1, Others DEF Handle
<1>4. ASSUME NEW r \in Requests, Insert(r) PROVE KeyUnique'
  <2>1. CASE Keyed(r) /\ SameKey(r) # {}
    <3>1. rows' = rows /\ ~At(r, "commit")'
      BY <1>4, <2>1, Moves DEF Insert, At, PC
    <3> QED BY <1>2, <1>4, <3>1, Others DEF Handle
  <2>2. CASE ~(Keyed(r) /\ SameKey(r) # {})
    <3>1. /\ rows' = rows
          /\ \A q \in Requests \ {r} : request'[q] = request[q]
          /\ Keyed(r) => \A q \in Requests : At(q, "commit") => KeyOf[q] # KeyOf[r]
      BY <1>4, Others DEF Insert, Inserting, Handle
    <3> QED BY <2>2, <3>1 DEF KeyUnique, At, SameKey, Keyed
  <2> QED BY <2>1, <2>2
<1>5. ASSUME NEW r \in Requests, Commit(r) PROVE KeyUnique'
  <2> DEFINE new == [id |-> request[r].id, key |-> KeyOf[r],
                     total_items |-> request[r].total]
  <2>1. /\ At(r, "commit") /\ ~At(r, "commit")'
        /\ rows' = rows \cup {new}
        /\ \A q \in Requests \ {r} : request'[q] = request[q]
    BY <1>5, Others, Moves DEF Commit, Handle, At, PC
  <2>2. \A b \in rows : b.key = new.key => new.key = NoKey
    BY <2>1 DEF KeyUnique, SameKey, Keyed
  <2>3. \A a, b \in rows' : a.key = b.key /\ a.key # NoKey => a = b
    BY <2>1, <2>2 DEF KeyUnique
  <2>4. ASSUME NEW q \in Requests, At(q, "commit")', Keyed(q)
        PROVE  /\ SameKey(q)' = {}
               /\ \A p \in Requests : At(p, "commit")' /\ KeyOf[p] = KeyOf[q] => p = q
    <3>1. q # r /\ At(q, "commit")
      BY <2>1, <2>4 DEF At
    <3>2. KeyOf[q] # KeyOf[r]
      BY <2>1, <2>4, <3>1 DEF KeyUnique
    <3>3. SameKey(q) = {} /\ SameKey(q)' = {}
      BY <2>1, <2>4, <3>1, <3>2 DEF KeyUnique, SameKey
    <3> QED BY <2>1, <2>4, <3>1, <3>3 DEF KeyUnique, At
  <2> QED BY <2>3, <2>4 DEF KeyUnique, Keyed
<1>6. CASE Overwrite \/ \E i \in Ids : Orchestrate(i)
  BY <1>6 DEF Overwrite, Orchestrate, KeyUnique, At, SameKey
<1> QED
  BY <1>1, <1>3, <1>4, <1>5, <1>6 DEF Next, Handle

LEMMA TotalsStep == Inv /\ [Next]_vars => TotalsCounted'
<1> SUFFICES ASSUME TypeOK, FreshIds, TotalsCounted, [Next]_vars PROVE TotalsCounted'
  BY DEF Inv, CreationInv
<1> USE DEF TotalsCounted, TotalsMatchPrompts
<1>1. CASE UNCHANGED vars
  BY <1>1 DEF vars, At
<1>2. ASSUME NEW r \in Requests, rows' = rows, object' = object,
             \A q \in Requests \ {r} : request'[q] = request[q],
             ~At(r, "insert")', ~At(r, "commit")'
      PROVE  TotalsCounted'
  BY <1>2 DEF At
<1>3. ASSUME NEW r \in Requests,
             Send(r) \/ Found(r) \/ NotFound(r) \/ Enqueue(r) \/ Respond(r) \/ Crash(r)
      PROVE  TotalsCounted'
  <2>1. /\ rows' = rows /\ object' = object
        /\ ~At(r, "insert")' /\ ~At(r, "commit")'
    BY <1>3, Moves DEF Send, Found, NotFound, Enqueue, Respond, Crash, At, PC
  <2> QED BY <1>2, <1>3, <2>1, Others DEF Handle
<1>4. ASSUME NEW r \in Requests, Upload(r) PROVE TotalsCounted'
  <2>1. Fresh(r) /\ ~At(r, "insert")' /\ ~At(r, "commit")' /\ rows' = rows
    BY <1>4, Moves DEF Upload, At, Fresh, PC
  <2>2. \A i \in Ids \ {request[r].id} : object'[i] = object[i]
    BY <1>4 DEF Upload, TypeOK
  <2>3. \A b \in rows : object'[b.id] = object[b.id]
    BY <2>1, <2>2 DEF FreshIds, TypeOK, Row
  <2>4. \A q \in Requests \ {r} : At(q, "insert") \/ At(q, "commit") =>
          object'[request[q].id] = object[request[q].id]
    BY <2>1, <2>2, OwnId DEF FreshIds, Fresh, At
  <2> QED BY <1>4, <2>1, <2>3, <2>4, Others DEF Handle, At
<1>5. ASSUME NEW r \in Requests, Count(r) PROVE TotalsCounted'
  <2>a. Fresh(r)
    BY <1>5 DEF Count, At, Fresh
  <2>1. Counted(r) \in Nat
    BY <2>a, OwnId DEF Counted, TypeOK
  <2>2. At(r, "insert")' => request'[r].total = object[request'[r].id] /\ request'[r].total > 0
    BY <1>5, <2>1, Moves DEF At, Counted
  <2>3. ~At(r, "commit")'
    BY <1>5, Moves DEF At
  <2>4. rows' = rows /\ object' = object
    BY <1>5 DEF Count
  <2> QED BY <1>5, <2>2, <2>3, <2>4, Others DEF Handle, At
<1>6. ASSUME NEW r \in Requests, Insert(r) PROVE TotalsCounted'
  <2>1. /\ At(r, "insert") /\ rows' = rows /\ object' = object
        /\ request'[r].id = request[r].id /\ request'[r].total = request[r].total
    BY <1>6, Moves DEF Insert, PC
  <2> QED BY <1>6, <2>1, Others DEF Handle, At
<1>7. ASSUME NEW r \in Requests, Commit(r) PROVE TotalsCounted'
  <2>1. /\ At(r, "commit") /\ ~At(r, "commit")' /\ ~At(r, "insert")'
        /\ rows' = rows \cup {[id |-> request[r].id, key |-> KeyOf[r],
                               total_items |-> request[r].total]}
        /\ object' = object
    BY <1>7, Moves DEF Commit, At, PC
  <2>2. TotalsMatchPrompts'
    BY <2>1
  <2> QED BY <1>7, <2>1, <2>2, Others DEF Handle, At
<1>8. CASE Overwrite \/ \E i \in Ids : Orchestrate(i)
  BY <1>8 DEF Overwrite, Orchestrate, At
<1> QED
  BY <1>1, <1>3, <1>4, <1>5, <1>6, <1>7, <1>8 DEF Next, Handle

LEMMA EnqueuedStep == Inv /\ [Next]_vars => JobsHaveRows' /\ Enqueued'
<1> SUFFICES ASSUME TypeOK, JobsHaveRows, Enqueued, [Next]_vars
             PROVE  JobsHaveRows' /\ Enqueued'
  BY DEF Inv, CreationInv
<1> DEFINE past == {"enqueue", "respond", "accepted"}
<1>1. CASE UNCHANGED vars
  BY <1>1 DEF vars, JobsHaveRows, Enqueued
<1>2. ASSUME NEW r \in Requests, rows \subseteq rows', queue' = queue, started' = started,
             \A q \in Requests \ {r} : request'[q] = request[q],
             request'[r].pc \notin past
      PROVE  JobsHaveRows' /\ Enqueued'
  BY <1>2 DEF JobsHaveRows, Enqueued
<1>3. ASSUME NEW r \in Requests,
             Send(r) \/ NotFound(r) \/ Upload(r) \/ Count(r) \/ Insert(r) \/ Crash(r)
      PROVE  JobsHaveRows' /\ Enqueued'
  <2>1. /\ rows' = rows /\ queue' = queue /\ started' = started
        /\ request'[r].pc \notin past
    BY <1>3, Moves DEF Send, NotFound, Upload, Count, Insert, Crash, PC
  <2> QED BY <1>2, <1>3, <2>1, Others DEF Handle
<1>4. ASSUME NEW r \in Requests, Found(r) PROVE JobsHaveRows' /\ Enqueued'
  <2>1. /\ rows' = rows /\ queue' = queue /\ started' = started
        /\ request'[r].pc = "enqueue"
        /\ \E b \in rows : b.id = request'[r].id /\ b.key = KeyOf[r]
    BY <1>4, Moves DEF Found, Existing, SameKey
  <2> QED BY <1>4, <2>1, Others DEF Handle, JobsHaveRows, Enqueued
<1>5. ASSUME NEW r \in Requests, Commit(r) PROVE JobsHaveRows' /\ Enqueued'
  <2> DEFINE new == [id |-> request[r].id, key |-> KeyOf[r],
                     total_items |-> request[r].total]
  <2>1. /\ rows' = rows \cup {new} /\ queue' = queue /\ started' = started
        /\ request'[r].pc = "enqueue" /\ request'[r].id = new.id
    BY <1>5, Moves DEF Commit, PC
  <2>2. JobsHaveRows'
    BY <2>1 DEF JobsHaveRows
  <2>3. new \in rows' /\ new.id = request'[r].id /\ new.key = KeyOf[r]
    BY <2>1
  <2>4. \A q \in Requests \ {r} : request'[q] = request[q]
    BY <1>5, Others DEF Handle
  <2>5. rows \subseteq rows'
    BY <2>1
  <2> HIDE DEF new
  <2> QED BY <2>1, <2>2, <2>3, <2>4, <2>5 DEF Enqueued
<1>6. ASSUME NEW r \in Requests, Enqueue(r) \/ Respond(r) PROVE JobsHaveRows' /\ Enqueued'
  <2>1. /\ rows' = rows /\ started' = started
        /\ queue \subseteq queue' /\ queue' \subseteq queue \cup {request[r].id}
        /\ request[r].pc \in past /\ request[r].id \in queue' \cup started'
        /\ request'[r].pc \in past /\ request'[r].id = request[r].id
    BY <1>6, Moves DEF Enqueue, Respond, At, PC, Enqueued
  <2> QED BY <1>6, <2>1, Others DEF Handle, JobsHaveRows, Enqueued
<1>7. ASSUME NEW i \in Ids, Orchestrate(i) PROVE JobsHaveRows' /\ Enqueued'
  <2>1. rows' = rows /\ request' = request /\ queue' = queue \ {i} /\ started' = started \cup {i}
    BY <1>7 DEF Orchestrate, JobsHaveRows
  <2> QED BY <2>1 DEF JobsHaveRows, Enqueued
<1>8. CASE Overwrite
  BY <1>8 DEF Overwrite, JobsHaveRows, Enqueued
<1> QED
  BY <1>1, <1>3, <1>4, <1>5, <1>6, <1>7, <1>8 DEF Next, Handle

LEMMA InvAlways == Spec => []Inv
<1>1. Inv /\ [Next]_vars => Inv'
  BY TypeStep, FreshStep, KeyStep, TotalsStep, EnqueuedStep DEF Inv, CreationInv
<1> QED BY InvInit, <1>1, PTL DEF Spec

----------------------------------------------------------------------------
(* Every variable keeps its type.                                          *)
THEOREM CreationTypeCorrect == Spec => []TypeOK
<1>1. Inv => TypeOK
  BY DEF Inv
<1> QED BY <1>1, InvAlways, PTL

(* The rows, the jobs and the requests in flight agree.                    *)
THEOREM CreationInvariant == Spec => []CreationInv
<1>1. Inv => CreationInv
  BY DEF Inv
<1> QED BY <1>1, InvAlways, PTL

(* A batch has as many items as its own copy of the prompts has lines.     *)
THEOREM TotalsCorrect == Spec => []TotalsMatchPrompts
<1>1. CreationInv => TotalsMatchPrompts
  BY DEF CreationInv, TotalsCounted
<1> QED BY <1>1, CreationInvariant, PTL

(* Every orchestrate_batch job names a committed row.                      *)
THEOREM JobsCorrect == Spec => []JobsHaveRows
<1>1. CreationInv => JobsHaveRows
  BY DEF CreationInv
<1> QED BY <1>1, CreationInvariant, PTL

(* An accepted batch is queued or started.                                 *)
THEOREM AcceptedCorrect == Spec => []AcceptedIsStarted
<1>1. CreationInv => AcceptedIsStarted
  BY DEF CreationInv, Enqueued, AcceptedIsStarted, At
<1> QED BY <1>1, CreationInvariant, PTL

----------------------------------------------------------------------------
(* Refinement.  Commit creates, Respond answers, Orchestrate starts; every *)
(* other step stutters.                                                    *)
Known  == {[id |-> b.id, key |-> b.key] : b \in rows}
Answers == [r \in Requests |-> IF At(r, "accepted") THEN request[r].id ELSE NoId]

LEMMA PromiseInit == Init => Promise!Init
BY DEF Init, Promise!Init, At

LEMMA PromiseStep == Inv /\ [Next]_vars => [Promise!Next]_(Promise!vars)
<1> SUFFICES ASSUME TypeOK, FreshIds, KeyUnique, JobsHaveRows, Enqueued, [Next]_vars
             PROVE  [Promise!Next]_(Promise!vars)
  BY DEF Inv, CreationInv
<1>a. ASSUME rows' = rows, started' = started, Answers' = Answers
      PROVE  UNCHANGED Promise!vars
  BY <1>a DEF Promise!vars, Answers
<1>b. ASSUME NEW r \in Requests, \A q \in Requests \ {r} : request'[q] = request[q],
             ~At(r, "accepted"), ~At(r, "accepted")'
      PROVE  Answers' = Answers
  BY <1>b DEF Answers, At
<1>1. CASE UNCHANGED vars
  BY <1>1, <1>a DEF vars, Answers, At
<1>2. ASSUME NEW r \in Requests,
             Send(r) \/ Found(r) \/ NotFound(r) \/ Upload(r) \/ Count(r) \/ Insert(r)
               \/ Enqueue(r) \/ Crash(r)
      PROVE  UNCHANGED Promise!vars
  <2>1. /\ rows' = rows /\ started' = started
        /\ ~At(r, "accepted") /\ ~At(r, "accepted")'
    BY <1>2, Moves DEF Send, Found, NotFound, Upload, Count, Insert, Enqueue,
                       Crash, At, PC
  <2> QED BY <1>2, <2>1, <1>a, <1>b, Others DEF Handle
<1>3. ASSUME NEW r \in Requests, Commit(r) PROVE Promise!Create(r)
  <2> DEFINE new == [id |-> request[r].id, key |-> KeyOf[r],
                     total_items |-> request[r].total]
  <2>1. /\ At(r, "commit") /\ Fresh(r) /\ request[r].id \in Ids
        /\ rows' = rows \cup {new} /\ started' = started
        /\ ~At(r, "accepted") /\ ~At(r, "accepted")'
    BY <1>3, Moves, OwnId DEF Commit, At, PC, Fresh
  <2>2. Answers' = Answers
    BY <1>3, <2>1, <1>b, Others DEF Handle
  <2>3. KeyOf[r] # NoKey => \A b \in rows : b.key # KeyOf[r]
    BY <2>1 DEF KeyUnique, SameKey, Keyed
  <2>4. \A b \in rows : b.id # request[r].id
    BY <2>1 DEF FreshIds
  <2>5. Known' = Known \cup {[id |-> request[r].id, key |-> KeyOf[r]]}
    <3> DEFINE f(b) == [id |-> b.id, key |-> b.key]
    <3>1. f(new) = [id |-> request[r].id, key |-> KeyOf[r]]
      OBVIOUS
    <3>2. Known = {f(b) : b \in rows} /\ Known' = {f(b) : b \in rows'}
      BY DEF Known
    <3> HIDE DEF f, new
    <3> QED BY <2>1, <3>1, <3>2
  <2>6. KeyOf[r] # NoKey => \A b \in Known : b.key # KeyOf[r]
    BY <2>3 DEF Known
  <2>7. \A b \in Known : b.id # request[r].id
    BY <2>4 DEF Known
  <2> QED BY <2>1, <2>2, <2>5, <2>6, <2>7 DEF Promise!Create, Known, Answers
<1>4. ASSUME NEW r \in Requests, Respond(r) PROVE Promise!Answer(r)
  <2>1. /\ rows' = rows /\ started' = started
        /\ ~At(r, "accepted") /\ At(r, "accepted")'
        /\ request'[r].id = request[r].id
    BY <1>4, Moves DEF Respond, At, PC
  <2>2. PICK b \in rows : b.id = request[r].id /\ b.key = KeyOf[r]
    BY <1>4 DEF Respond, At, Enqueued
  <2>3. Answers' = [Answers EXCEPT ![r] = b.id]
    BY <1>4, <2>1, <2>2, Others DEF Answers, At, Handle
  <2>4. Answers[r] = NoId
    BY <2>1 DEF Answers
  <2>5. [id |-> b.id, key |-> b.key] \in Known
    BY DEF Known
  <2> QED BY <2>1, <2>2, <2>3, <2>4, <2>5 DEF Promise!Answer, Known, Answers
<1>5. ASSUME NEW i \in Ids, Orchestrate(i) PROVE Promise!Start
  <2>1. PICK b \in rows : b.id = i
    BY <1>5 DEF Orchestrate, JobsHaveRows
  <2>2. rows' = rows /\ started' = started \cup {b.id} /\ Answers' = Answers
    BY <1>5, <2>1 DEF Orchestrate, Answers, At
  <2>3. [id |-> b.id, key |-> b.key] \in Known
    BY DEF Known
  <2> QED BY <2>2, <2>3 DEF Promise!Start, Known, Answers
<1>6. CASE Overwrite
  BY <1>6, <1>a DEF Overwrite, Answers, At
<1> QED
  BY <1>1, <1>2, <1>3, <1>4, <1>5, <1>6 DEF Next, Handle, Promise!Next

(* However requests with one key race, crash and are sent again, the API   *)
(* behaves as if batches were created once per key, in one step each.      *)
THEOREM CreationRefines == Spec => KeepsPromise
<1> QED BY InvAlways, PromiseInit, PromiseStep, PTL DEF Spec, KeepsPromise, Promise!Spec
============================================================================
