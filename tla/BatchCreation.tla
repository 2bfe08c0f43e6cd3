--------------------------- MODULE BatchCreation ---------------------------
(***************************************************************************)
(* The creation of batches (create_batch in app/services/batches.py and    *)
(* the two POST endpoints in app/api/routes.py).  Each request runs in an  *)
(* API process and a transaction of its own: it looks its key up, uploads  *)
(* the prompts, inserts the row, commits, enqueues orchestrate_batch and   *)
(* answers.  Any request may die between two of these, and its client may  *)
(* send it again.                                                          *)
(***************************************************************************)
EXTENDS Naturals

CONSTANTS
    Requests,     \* the POST requests, each sent again until it is answered
    KeyOf,        \* the Idempotency-Key of each
    NoKey,        \* a request without one
    EmptyKey,     \* a request whose header is empty
    Copies,       \* the requests that name an object (prompts_key)
    Lines,        \* line counts a prompts object may have
    MaxIds,       \* bound: batch ids that are generated
    Budget        \* bound: crashes, and overwrites of the named object

Faults == {"crash", "overwrite"}
Ids    == 1 .. MaxIds
NoId   == 0

ASSUME CopiesAssumption == Copies \subseteq Requests
ASSUME LinesAssumption  == Lines \subseteq Nat
ASSUME BoundsAssumption == MaxIds \in Nat /\ Budget \in [Faults -> Nat]

VARIABLES
    rows,         \* the committed rows of batches
    object,       \* the line count of the prompts uploaded for each id
    source,       \* the line count of the object the client named
    request,      \* where each request stands
    ids,          \* ids generated so far
    queue,        \* orchestrate_batch jobs in Redis
    started,      \* batches whose orchestrate_batch has run
    left          \* the faults still to come

vars == <<rows, object, source, request, ids, queue, started, left>>

PC == {"idle", "lookup", "upload", "count", "insert", "commit", "enqueue",
       "respond", "accepted", "rejected", "failed"}

Key        == {KeyOf[r] : r \in Requests}
Row        == [id : Ids, key : Key, total_items : Nat]
RequestState == [pc : PC, id : Ids \cup {NoId}, total : Nat]

TypeOK ==
    /\ rows \subseteq Row
    /\ object \in [Ids -> Nat]
    /\ source \in Lines
    /\ request \in [Requests -> RequestState]
    /\ ids \in 0 .. MaxIds
    /\ queue \subseteq Ids
    /\ started \subseteq Ids
    /\ left \in [Faults -> Nat]

Init ==
    /\ rows = {}
    /\ object = [i \in Ids |-> 0]
    /\ source \in Lines
    /\ request = [r \in Requests |-> [pc |-> "idle", id |-> NoId, total |-> 0]]
    /\ ids = 0
    /\ queue = {}
    /\ started = {}
    /\ left = Budget

----------------------------------------------------------------------------
At(r, pc)    == request[r].pc = pc
Goto(r, pc)  == request' = [request EXCEPT ![r].pc = pc]
(* An empty key is stored and unique like any other, but not looked up.    *)
Keyed(r)     == KeyOf[r] # NoKey
LookedUp(r)  == Keyed(r) /\ KeyOf[r] # EmptyKey
SameKey(r)   == {b \in rows : b.key = KeyOf[r]}
Existing(r)  == IF LookedUp(r) THEN SameKey(r) ELSE {}

(* The client sends the request, for the first time or after it has seen   *)
(* it fail.                                                                *)
Send(r) ==
    /\ At(r, "idle") \/ At(r, "failed")
    /\ request' = [request EXCEPT ![r] = [pc |-> "lookup", id |-> NoId, total |-> 0]]
    /\ UNCHANGED <<rows, object, source, ids, queue, started, left>>

(* A mutant: a batch that is found has been enqueued already.              *)
FoundAndQueued(r) ==
    /\ At(r, "lookup")
    /\ \E b \in Existing(r) :
         request' = [request EXCEPT ![r] = [@ EXCEPT !.pc = "respond", !.id = b.id]]
    /\ UNCHANGED <<rows, object, source, ids, queue, started, left>>

(* The key is known: the batch it names is returned, and enqueued again.   *)
Found(r) ==
    /\ At(r, "lookup")
    /\ \E b \in Existing(r) :
         request' = [request EXCEPT ![r] = [@ EXCEPT !.pc = "enqueue", !.id = b.id]]
    /\ UNCHANGED <<rows, object, source, ids, queue, started, left>>

(* It is not: new_batch_id.                                                *)
NotFound(r) ==
    /\ At(r, "lookup")
    /\ Existing(r) = {}
    /\ ids < MaxIds
    /\ ids' = ids + 1
    /\ request' = [request EXCEPT ![r] = [@ EXCEPT !.pc = "upload", !.id = ids + 1]]
    /\ UNCHANGED <<rows, object, source, queue, started, left>>

(* The prompts of the request, or a copy of the named object as it is now. *)
Upload(r) ==
    /\ At(r, "upload")
    /\ \E n \in IF r \in Copies THEN {source} ELSE Lines :
         object' = [object EXCEPT ![request[r].id] = n]
    /\ Goto(r, "count")
    /\ UNCHANGED <<rows, source, ids, queue, started, left>>

(* A mutant: the lines are counted in the object that was copied.          *)
CountedSource(r) == IF r \in Copies THEN source ELSE object[request[r].id]
(* The lines are counted in the copy.                                      *)
Counted(r) == object[request[r].id]

Count(r) ==
    /\ At(r, "count")
    /\ request' = [request EXCEPT ![r] = [@ EXCEPT
         !.total = Counted(r),
         !.pc = IF Counted(r) < 1 THEN "rejected" ELSE "insert"]]
    /\ UNCHANGED <<rows, object, source, ids, queue, started, left>>

(* The flush.  The unique index on idempotency_key makes it wait for a     *)
(* transaction that has inserted the key, and fail if the key is there.    *)
Inserting(r) == Keyed(r) /\ \E q \in Requests : At(q, "commit") /\ KeyOf[q] = KeyOf[r]

(* Mutants: no unique index; and the endpoint forgets its commit.          *)
InsertUnchecked(r) ==
    /\ At(r, "insert")
    /\ Goto(r, "commit")
    /\ UNCHANGED <<rows, object, source, ids, queue, started, left>>
InsertUncommitted(r) ==
    /\ At(r, "insert")
    /\ Goto(r, "enqueue")
    /\ UNCHANGED <<rows, object, source, ids, queue, started, left>>
Insert(r) ==
    /\ At(r, "insert")
    /\ ~Inserting(r)
    /\ Goto(r, IF Keyed(r) /\ SameKey(r) # {} THEN "failed" ELSE "commit")
    /\ UNCHANGED <<rows, object, source, ids, queue, started, left>>

Commit(r) ==
    /\ At(r, "commit")
    /\ rows' = rows \cup {[id |-> request[r].id, key |-> KeyOf[r],
                           total_items |-> request[r].total]}
    /\ Goto(r, "enqueue")
    /\ UNCHANGED <<object, source, ids, queue, started, left>>

Enqueue(r) ==
    /\ At(r, "enqueue")
    /\ queue' = queue \cup {request[r].id}
    /\ Goto(r, "respond")
    /\ UNCHANGED <<rows, object, source, ids, started, left>>

Respond(r) ==
    /\ At(r, "respond")
    /\ Goto(r, "accepted")
    /\ UNCHANGED <<rows, object, source, ids, queue, started, left>>

(* orchestrate_batch finds the row and starts the batch.                   *)
Orchestrate(i) ==
    /\ i \in queue
    /\ queue' = queue \ {i}
    /\ started' = IF \E b \in rows : b.id = i THEN started \cup {i} ELSE started
    /\ UNCHANGED <<rows, object, source, request, ids, left>>

----------------------------------------------------------------------------
(* The API process dies, or a call to Spaces, Postgres or Redis raises: an *)
(* uncommitted insert is rolled back, and the client sees no answer.       *)
Spend(f) == left[f] > 0 /\ left' = [left EXCEPT ![f] = @ - 1]

Crash(r) ==
    /\ request[r].pc \in {"lookup", "upload", "count", "insert", "commit",
                          "enqueue", "respond"}
    /\ Spend("crash")
    /\ Goto(r, "failed")
    /\ UNCHANGED <<rows, object, source, ids, queue, started>>

(* The client writes another object under the name it gave.                *)
Overwrite ==
    /\ Spend("overwrite")
    /\ source' \in Lines
    /\ UNCHANGED <<rows, object, request, ids, queue, started>>

Handle(r) == \/ Found(r) \/ NotFound(r) \/ Upload(r) \/ Count(r) \/ Insert(r)
             \/ Commit(r) \/ Enqueue(r) \/ Respond(r)

Next ==
    \/ \E r \in Requests : Send(r) \/ Handle(r) \/ Crash(r)
    \/ \E i \in Ids : Orchestrate(i)
    \/ Overwrite

Spec == Init /\ [][Next]_vars

(* A request that has arrived is handled (it waits only for a row another  *)
(* request is about to commit), a client sends a failed request again, and *)
(* a worker takes the job.                                                 *)
Fairness ==
    /\ \A r \in Requests : WF_vars(Handle(r)) /\ WF_vars(Send(r))
    /\ \A i \in Ids : WF_vars(Orchestrate(i))

FairSpec == Spec /\ Fairness

----------------------------------------------------------------------------
(* Properties                                                              *)

(* The promise of CreateOnce, of the rows, the answers and the starts.     *)
Promise == INSTANCE CreateOnce WITH
    known  <- {[id |-> b.id, key |-> b.key] : b \in rows},
    answer <- [r \in Requests |-> IF At(r, "accepted") THEN request[r].id ELSE NoId]

KeepsPromise == Promise!Spec

(* Whoever takes an orchestrate_batch job finds the row it names: no job   *)
(* runs ahead of the commit, however requests with one key interleave.     *)
JobsHaveRows == \A i \in queue : \E b \in rows : b.id = i

(* A batch has as many items as its prompts object has lines, even when    *)
(* the client overwrites the named object meanwhile: the chunk plan covers *)
(* exactly the lines that were copied.                                     *)
TotalsMatchPrompts ==
    \A b \in rows : b.total_items = object[b.id] /\ b.total_items > 0

(* An accepted batch is on its way: its job is queued or has run.          *)
AcceptedIsStarted ==
    \A r \in Requests : At(r, "accepted") => request[r].id \in queue \cup started

(* With a key, a crash between commit and enqueue does no lasting harm:    *)
(* the client sends the request again until its batch is started.  (With   *)
(* an empty one the request fails for ever on the row it has left.)        *)
KeyedBatchStarts ==
    \A i \in Ids :
        (\E b \in rows : b.id = i /\ b.key \notin {NoKey, EmptyKey}) ~> i \in started

(* What the above rest on: the ids in use are distinct, an insert that is  *)
(* about to commit is the only one of its key, what was counted is what    *)
(* was uploaded, and a request past its commit has a row, past its enqueue *)
(* a job that is queued or has run.                                        *)
Fresh(r) == request[r].pc \in {"upload", "count", "insert", "commit"}

FreshIds ==
    /\ \A b \in rows : b.id <= ids
    /\ \A r \in Requests : Fresh(r) =>
         /\ request[r].id \in 1 .. ids
         /\ \A b \in rows : b.id # request[r].id
         /\ \A q \in Requests : Fresh(q) /\ request[q].id = request[r].id => q = r

KeyUnique ==
    /\ \A a, b \in rows : a.key = b.key /\ a.key # NoKey => a = b
    /\ \A r \in Requests : At(r, "commit") /\ Keyed(r) =>
         /\ SameKey(r) = {}
         /\ \A q \in Requests : At(q, "commit") /\ KeyOf[q] = KeyOf[r] => q = r

TotalsCounted ==
    /\ TotalsMatchPrompts
    /\ \A r \in Requests : At(r, "insert") \/ At(r, "commit") =>
         request[r].total = object[request[r].id] /\ request[r].total > 0

Enqueued ==
    /\ \A r \in Requests : request[r].pc \in {"enqueue", "respond", "accepted"} =>
         \E b \in rows : b.id = request[r].id /\ b.key = KeyOf[r]
    /\ \A r \in Requests : request[r].pc \in {"respond", "accepted"} =>
         request[r].id \in queue \cup started

CreationInv == FreshIds /\ KeyUnique /\ TotalsCounted /\ JobsHaveRows /\ Enqueued
=============================================================================
