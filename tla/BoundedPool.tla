----------------------------- MODULE BoundedPool -----------------------------
(***************************************************************************)
(* What the sweep expects of runWithConcurrency: every task is run at most *)
(* once, no more than Limit tasks are in flight, the pool resolves only    *)
(* when every task has delivered its result, and it rejects only because a *)
(* task did.  Nothing is said of workers or of an index.                   *)
(***************************************************************************)
EXTENDS Naturals, FiniteSets

CONSTANTS Tasks, Limit

VARIABLES todo, running, finished, lost, promise

vars == <<todo, running, finished, lost, promise>>

Init ==
    /\ todo = Tasks
    /\ running = {}
    /\ finished = {}
    /\ lost = {}
    /\ promise = "pending"

\* A task may begin even after the pool has rejected: rejection abandons no work.
Start(t) ==
    /\ t \in todo
    /\ Cardinality(running) < Limit
    /\ todo' = todo \ {t}
    /\ running' = running \union {t}
    /\ UNCHANGED <<finished, lost, promise>>

Finish(t) ==
    /\ t \in running
    /\ running' = running \ {t}
    /\ finished' = finished \union {t}
    /\ UNCHANGED <<todo, lost, promise>>

Lose(t) ==
    /\ t \in running
    /\ running' = running \ {t}
    /\ lost' = lost \union {t}
    /\ UNCHANGED <<todo, finished, promise>>

Resolve ==
    /\ promise = "pending"
    /\ finished = Tasks
    /\ promise' = "resolved"
    /\ UNCHANGED <<todo, running, finished, lost>>

Reject ==
    /\ promise = "pending"
    /\ lost # {}
    /\ promise' = "rejected"
    /\ UNCHANGED <<todo, running, finished, lost>>

Next ==
    \/ \E t \in Tasks : Start(t) \/ Finish(t) \/ Lose(t)
    \/ Resolve
    \/ Reject

Spec == Init /\ [][Next]_vars

=============================================================================
