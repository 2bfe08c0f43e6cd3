---------------------------- MODULE BatchPromise ----------------------------
(***************************************************************************)
(* What one batch promises to its client, whatever the workers do inside:  *)
(* nothing is done before the batch is started, and it is never as good as *)
(* new again; a chunk that is done stays done; results are published once  *)
(* every chunk is done, and stay published; an event is told only of what  *)
(* has happened.  The status is the word of whoever wrote it last, and the *)
(* telling of an event may be lost.                                        *)
(***************************************************************************)
CONSTANT Chunks

VARIABLES
    status,       \* of the batch
    done,         \* the chunks whose results are kept
    published,    \* whether the results of the batch are out
    due,          \* the events that have happened and are about to be told
    told          \* the events that have been told

vars == <<status, done, published, due, told>>

Init ==
    /\ status = "pending"
    /\ done = {}
    /\ published = FALSE
    /\ due = {} /\ told = {}

Start  == status' = "running" /\ UNCHANGED <<done, published, due, told>>
Cancel == status' = "cancelled" /\ UNCHANGED <<done, published, due, told>>

Finish(c) ==
    /\ status # "pending"
    /\ done' = done \cup {c}
    /\ UNCHANGED <<status, published, due, told>>

Fail ==
    /\ status # "pending"
    /\ status' = "failed"
    /\ due' = due \cup {"batch.failed"}
    /\ UNCHANGED <<done, published, told>>

Publish ==
    /\ done = Chunks
    /\ status' = "completed" /\ published' = TRUE
    /\ due' = due \cup {"batch.completed"}
    /\ UNCHANGED <<done, told>>

Tell(e) ==
    /\ told' = told \cup {e}
    /\ due' = due \/ due' = due \ {e}
    /\ UNCHANGED <<status, done, published>>

Lose(e) ==
    /\ due' = due \ {e}
    /\ UNCHANGED <<status, done, published, told>>

Next ==
    \/ Start \/ Cancel \/ Fail \/ Publish
    \/ \E c \in Chunks : Finish(c)
    \/ \E e \in due : Tell(e) \/ Lose(e)

Spec == Init /\ [][Next]_vars
=============================================================================
