-------------------------- MODULE WebhookDelivery --------------------------
(***************************************************************************)
(* deliver_batch_webhook (app/workers/jobs.py) and the row it keeps.  The  *)
(* pipeline hands over events of one batch; every delivery job loads the   *)
(* row, posts the event while the row may change under it, and writes the  *)
(* row back, computed from what it loaded.  One counter of attempts serves *)
(* all deliveries of the batch.                                            *)
(***************************************************************************)
EXTENDS Naturals

CONSTANTS
    Slots,               \* the jobs that can run at the same time
    Events,              \* batch.completed, batch.failed
    WebhookMaxAttempts,  \* WEBHOOK_MAX_ATTEMPTS
    PostBound,           \* bound: the receiver stops counting posts here
    Budget               \* bound: events handed over, and each fault

Faults == {"notify", "crash", "drop", "redis"}
None   == "no_event"

ASSUME AttemptsAssumption == WebhookMaxAttempts \in Nat \ {0}
ASSUME PostsAssumption    == PostBound \in Nat /\ PostBound >= WebhookMaxAttempts
ASSUME EventsAssumption   == None \notin Events
ASSUME BudgetAssumption   == Budget \in [Faults -> Nat]

VARIABLES
    row,        \* webhook_status and webhook_attempts of the batch
    queue,      \* Redis: delivery jobs per event, due or deferred
    worker,     \* what each slot is doing
    posts,      \* HTTP requests made for the batch
    confirmed,  \* the events for which some job saw a 2xx answer
    handed,     \* the events the pipeline has handed over
    left        \* the hand-overs and faults still to come

vars == <<row, queue, worker, posts, confirmed, handed, left>>

WebhookStatus == {"none", "pending", "delivered", "dead"}
Row       == [status : WebhookStatus, attempts : Nat]
PC        == {"idle", "post", "commit", "requeue"}
SlotState == [pc : PC, event : Events \cup {None}, loaded : Row, ok : BOOLEAN]

Idle == [pc |-> "idle", event |-> None, ok |-> FALSE,
         loaded |-> [status |-> "none", attempts |-> 0]]

TypeOK ==
    /\ row \in Row
    /\ queue \in [Events -> Nat]
    /\ worker \in [Slots -> SlotState]
    /\ posts \in 0 .. PostBound
    /\ confirmed \subseteq Events
    /\ handed \subseteq Events
    /\ left \in [Faults -> Nat]

(* create_batch: pending with a webhook_url, none without.                 *)
Init ==
    /\ row \in [status : {"none", "pending"}, attempts : {0}]
    /\ queue = [e \in Events |-> 0]
    /\ worker = [s \in Slots |-> Idle]
    /\ posts = 0
    /\ confirmed = {}
    /\ handed = {}
    /\ left = Budget

At(s, pc)   == worker[s].pc = pc
Return(s)   == worker' = [worker EXCEPT ![s] = Idle]
Enqueue(e)  == queue' = [queue EXCEPT ![e] = @ + 1]
Dequeue(e)  == queue[e] > 0 /\ queue' = [queue EXCEPT ![e] = @ - 1]
Spend(f)    == left[f] > 0 /\ left' = [left EXCEPT ![f] = @ - 1]

----------------------------------------------------------------------------
(* The pipeline fails or completes the batch and enqueues the delivery; it *)
(* may hand over the same event twice, and both events one after another.  *)
Notify(e) ==
    /\ Spend("notify")
    /\ Enqueue(e)
    /\ handed' = handed \cup {e}
    /\ UNCHANGED <<row, worker, posts, confirmed>>

(* The job starts: it ends at once for a batch without a webhook_url.      *)
(* A mutant: it also ends if the webhook was settled by another event.     *)
SkippedUnlessPending == row.status # "pending"
Skipped              == row.status = "none"

Load(s, e) ==
    /\ At(s, "idle")
    /\ Dequeue(e)
    /\ worker' = [worker EXCEPT ![s] =
         IF Skipped THEN Idle
         ELSE [pc |-> "post", event |-> e, loaded |-> row, ok |-> FALSE]]
    /\ UNCHANGED <<row, posts, confirmed, handed, left>>

(* deliver_webhook: the answer is 2xx, or it is not, or none comes in time *)
(* (whatever the receiver has done with the event).                        *)
Post(s) ==
    /\ At(s, "post")
    /\ posts' = IF posts < PostBound THEN posts + 1 ELSE posts
    /\ \E ok \in BOOLEAN :
         /\ confirmed' = IF ok THEN confirmed \cup {worker[s].event} ELSE confirmed
         /\ worker' = [worker EXCEPT ![s].pc = "commit", ![s].ok = ok]
    /\ UNCHANGED <<row, queue, handed, left>>

(* The write of the row: attempts from the loaded value, and the status    *)
(* only if it differs from the loaded one (the ORM emits changed columns). *)
(* Mutants: the request is counted before and after it, or not at all.     *)
AttemptsTwice(s) == worker[s].loaded.attempts + 2
AttemptsNever(s) == worker[s].loaded.attempts
Attempts(s)      == worker[s].loaded.attempts + 1
(* A mutant: the attempt that is being made is counted twice.              *)
ExhaustedEarly(s) == Attempts(s) + 1 >= WebhookMaxAttempts
Exhausted(s)      == Attempts(s) >= WebhookMaxAttempts
Write(s, status) ==
    row' = [status   |-> IF worker[s].loaded.status = status THEN row.status
                         ELSE status,
            attempts |-> Attempts(s)]

Delivered(s) ==
    /\ At(s, "commit") /\ worker[s].ok
    /\ Write(s, "delivered")
    /\ Return(s)
    /\ UNCHANGED <<queue, posts, confirmed, handed, left>>

(* A mutant: the last failure returns without a commit.                    *)
GiveUpSilently(s) ==
    /\ At(s, "commit") /\ ~worker[s].ok /\ Exhausted(s)
    /\ Return(s)
    /\ UNCHANGED <<row, queue, posts, confirmed, handed, left>>
GiveUp(s) ==
    /\ At(s, "commit") /\ ~worker[s].ok /\ Exhausted(s)
    /\ Write(s, "dead")
    /\ Return(s)
    /\ UNCHANGED <<queue, posts, confirmed, handed, left>>

Count(s) ==
    /\ At(s, "commit") /\ ~worker[s].ok /\ ~Exhausted(s)
    /\ row' = [row EXCEPT !.attempts = Attempts(s)]
    /\ worker' = [worker EXCEPT ![s].pc = "requeue"]
    /\ UNCHANGED <<queue, posts, confirmed, handed, left>>

(* The next try, deferred by the backoff.                                  *)
Requeue(s) ==
    /\ At(s, "requeue")
    /\ Enqueue(worker[s].event)
    /\ Return(s)
    /\ UNCHANGED <<row, posts, confirmed, handed, left>>

----------------------------------------------------------------------------
(* Faults: the worker dies and arq delivers the job again, unless Redis    *)
(* has lost it; the job times out or its commit raises and arq drops it;   *)
(* Redis restarts empty.                                                   *)
Crash(s) ==
    /\ ~At(s, "idle")
    /\ Spend("crash")
    /\ Enqueue(worker[s].event)
    /\ Return(s)
    /\ UNCHANGED <<row, posts, confirmed, handed>>

Drop(s) ==
    /\ ~At(s, "idle")
    /\ Spend("drop")
    /\ Return(s)
    /\ UNCHANGED <<row, queue, posts, confirmed, handed>>

RestartRedis ==
    /\ Spend("redis")
    /\ queue' = [e \in Events |-> 0]
    /\ UNCHANGED <<row, worker, posts, confirmed, handed>>

Step(s) == Post(s) \/ Delivered(s) \/ GiveUp(s) \/ Count(s) \/ Requeue(s)

Fault ==
    \/ \E s \in Slots : Crash(s) \/ Drop(s)
    \/ RestartRedis

Next ==
    \/ \E e \in Events : Notify(e)
    \/ \E s \in Slots : Step(s) \/ \E e \in Events : Load(s, e)
    \/ Fault

Spec == Init /\ [][Next]_vars

(* A running job goes on (the request has a timeout of 30 s); a due job is *)
(* not passed over for ever, because arq takes jobs in the order they were *)
(* due.                                                                    *)
Fairness ==
    /\ \A s \in Slots : WF_vars(Step(s))
    /\ \A e \in Events : SF_vars(\E s \in Slots : Load(s, e))

FairSpec == Spec /\ Fairness

----------------------------------------------------------------------------
(* Properties                                                              *)

NoJobLost == left["drop"] = Budget["drop"] /\ left["redis"] = Budget["redis"]

Pending(e) == queue[e] > 0 \/ \E s \in Slots : worker[s].event = e

(* An event that was handed over is not let go of until some job saw it    *)
(* accepted or as many requests as WEBHOOK_MAX_ATTEMPTS were made for the  *)
(* batch: neither a crash between a request and its commit nor a counter   *)
(* that another delivery wrote back makes a job give up early.             *)
NoEventAbandoned ==
    NoJobLost /\ row.status # "none" =>
        \A e \in handed :
            Pending(e) \/ e \in confirmed \/ posts >= WebhookMaxAttempts

(* What the API reports of the webhook is true of the requests that were   *)
(* made: delivered was seen by some job, dead took the full number of      *)
(* requests, although each job computes both from the row it had loaded    *)
(* before its own request.                                                 *)
StatusIsHonest ==
    /\ row.status = "delivered" => confirmed # {}
    /\ row.status = "dead" => posts >= WebhookMaxAttempts

(* A batch with a webhook that has an event to deliver is in the end       *)
(* reported delivered or dead, unless a job is lost.                       *)
Settles == row.status = "pending" /\ handed # {} ~> row.status # "pending" \/ ~NoJobLost

(* Retries stop: in the end no delivery is queued or running, although     *)
(* deliveries that run side by side set the counter back for one another.  *)
RetriesStop == <>[](\A e \in Events : ~Pending(e))

(* A slot has an event exactly while it runs, and none runs for a batch    *)
(* without a webhook.                                                      *)
Busy ==
    /\ \A s \in Slots : At(s, "idle") <=> worker[s].event = None
    /\ row.status = "none" => \A s \in Slots : At(s, "idle")

(* What StatusIsHonest and NoEventAbandoned rest on: no counter, in the    *)
(* row or loaded from it, is ahead of the requests made, and a job that is *)
(* about to commit has made one more than it loaded.                       *)
Counted(n) == n <= posts \/ posts = PostBound

SlotCounted(s) ==
    /\ Counted(worker[s].loaded.attempts)
    /\ At(s, "commit") => /\ Counted(Attempts(s))
                          /\ worker[s].ok => worker[s].event \in confirmed

WebhookInv ==
    /\ Busy
    /\ Counted(row.attempts)
    /\ \A s \in Slots : SlotCounted(s)
    /\ StatusIsHonest
=============================================================================
