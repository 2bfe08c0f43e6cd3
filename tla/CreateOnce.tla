----------------------------- MODULE CreateOnce -----------------------------
(***************************************************************************)
(* What POST /v1/batches promises, whatever the API does inside: a key     *)
(* names at most one batch, every request with the key is answered with    *)
(* that batch, and only batches that exist are started.                    *)
(***************************************************************************)
CONSTANTS
    Requests,     \* the POST requests
    KeyOf,        \* the Idempotency-Key of each
    NoKey,        \* a request without one
    Ids,          \* the batch ids
    NoId          \* no answer yet

VARIABLES
    known,        \* the batches: an id and the key it was created under
    answer,       \* the id a request was answered with
    started       \* the batches orchestrate_batch has begun

vars == <<known, answer, started>>

Init ==
    /\ known = {}
    /\ answer = [r \in Requests |-> NoId]
    /\ started = {}

Create(r) ==
    /\ KeyOf[r] # NoKey => \A b \in known : b.key # KeyOf[r]
    /\ \E id \in Ids :
         /\ \A b \in known : b.id # id
         /\ known' = known \cup {[id |-> id, key |-> KeyOf[r]]}
    /\ UNCHANGED <<answer, started>>

Answer(r) ==
    /\ answer[r] = NoId
    /\ \E b \in known : /\ b.key = KeyOf[r]
                        /\ answer' = [answer EXCEPT ![r] = b.id]
    /\ UNCHANGED <<known, started>>

Start ==
    /\ \E b \in known : started' = started \cup {b.id}
    /\ UNCHANGED <<known, answer>>

Next == Start \/ \E r \in Requests : Create(r) \/ Answer(r)

Spec == Init /\ [][Next]_vars
=============================================================================
