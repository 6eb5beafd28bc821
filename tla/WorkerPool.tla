------------------------------ MODULE WorkerPool ------------------------------
(***************************************************************************)
(* runWithConcurrency (src/server/src/utils/concurrency.ts): a sweep's     *)
(* checks shared out among Limit workers, each an async function that      *)
(* loops "take the next index, await the task at it".                      *)
(*                                                                         *)
(* Taking an index has no await inside it, so it is one step; the task     *)
(* runs across awaits, so starting it and delivering its result are two.   *)
(* A value is identified with the task that produced it, which is what the *)
(* order of the result array is about.                                     *)
(***************************************************************************)
EXTENDS Naturals, FiniteSets

CONSTANTS NumTasks,    \* tasks.length
          Limit,       \* MONITOR_CONCURRENCY
          CanReject    \* whether a task may reject

ASSUME PoolAssumption ==
    /\ NumTasks \in Nat
    /\ Limit \in Nat \ {0}
    /\ CanReject \in BOOLEAN

Tasks    == 0 .. NumTasks - 1
Workers  == 1 .. (IF Limit < NumTasks THEN Limit ELSE NumTasks)
NoTask   == NumTasks
NoResult == NumTasks

VARIABLES nextIndex,   \* the shared cursor of the closures
          worker,      \* what each worker is at, and its index
          results,     \* the result array, by the task whose value it holds
          started,     \* how often each task has been called
          promise      \* the promise runWithConcurrency returned

poolVars == <<nextIndex, worker, results, started, promise>>

WorkerState == [pc : {"take", "await", "returned", "rejected"}, task : Tasks \union {NoTask}]

PoolTypeOK ==
    /\ nextIndex \in Nat
    /\ worker \in [Workers -> WorkerState]
    /\ results \in [Tasks -> Tasks \union {NoResult}]
    /\ started \in [Tasks -> Nat]
    /\ promise \in {"pending", "resolved", "rejected"}

PoolInit ==
    /\ nextIndex = 0
    /\ worker = [w \in Workers |-> [pc |-> "take", task |-> NoTask]]
    /\ results = [t \in Tasks |-> NoResult]
    /\ started = [t \in Tasks |-> 0]
    /\ promise = "pending"

-----------------------------------------------------------------------------
(* One iteration of the loop, in its synchronous pieces.                   *)

\* index = nextIndex; nextIndex += 1; task = tasks[index]; task() is called
Take(w) ==
    /\ worker[w].pc = "take"
    /\ nextIndex < NumTasks
    /\ nextIndex' = nextIndex + 1
    /\ worker' = [worker EXCEPT ![w] = [pc |-> "await", task |-> nextIndex]]
    /\ started' = [started EXCEPT ![nextIndex] = @ + 1]
    /\ UNCHANGED <<results, promise>>

ReturnWaits(w) ==         \* a worker that finds no task left waits for its fellows
    /\ worker[w].pc = "take"
    /\ nextIndex >= NumTasks
    /\ \A v \in Workers \ {w} : worker[v].pc = "returned"
    /\ nextIndex' = nextIndex + 1
    /\ worker' = [worker EXCEPT ![w] = [pc |-> "returned", task |-> NoTask]]
    /\ UNCHANGED <<results, started, promise>>

\* index >= tasks.length: the cursor still moves, the worker returns
Return(w) ==
    /\ worker[w].pc = "take"
    /\ nextIndex >= NumTasks
    /\ nextIndex' = nextIndex + 1
    /\ worker' = [worker EXCEPT ![w] = [pc |-> "returned", task |-> NoTask]]
    /\ UNCHANGED <<results, started, promise>>

\* results[index] = await task(), and round the loop again
Deliver(w) ==
    /\ worker[w].pc = "await"
    /\ results' = [results EXCEPT ![worker[w].task] = worker[w].task]
    /\ worker' = [worker EXCEPT ![w] = [pc |-> "take", task |-> NoTask]]
    /\ UNCHANGED <<nextIndex, started, promise>>

\* The task rejects: nothing catches it, so the worker's own promise rejects.
Reject(w) ==
    /\ CanReject
    /\ worker[w].pc = "await"
    /\ worker' = [worker EXCEPT ![w].pc = "rejected"]
    /\ UNCHANGED <<nextIndex, results, started, promise>>

SettleMutant ==           \* Promise.race instead of Promise.all
    /\ promise = "pending"
    /\ \/ /\ \E w \in Workers : worker[w].pc = "returned"
          /\ promise' = "resolved"
       \/ /\ \E w \in Workers : worker[w].pc = "rejected"
          /\ promise' = "rejected"
    /\ UNCHANGED <<nextIndex, worker, results, started>>

\* await Promise.all(workers): all of them returned, or the first rejection.
\* With no task there is no worker and the empty array is returned at once.
Settle ==
    /\ promise = "pending"
    /\ \/ /\ \A w \in Workers : worker[w].pc = "returned"
          /\ promise' = "resolved"
       \/ /\ \E w \in Workers : worker[w].pc = "rejected"
          /\ promise' = "rejected"
    /\ UNCHANGED <<nextIndex, worker, results, started>>

WorkerStep(w) == Take(w) \/ Return(w) \/ Deliver(w) \/ Reject(w)

PoolNext == (\E w \in Workers : WorkerStep(w)) \/ Settle

PoolSpec == PoolInit /\ [][PoolNext]_poolVars

\* The event loop runs every continuation that is ready, and every check ends
\* because each of its requests carries a timeout.
FairPoolSpec == PoolSpec /\ WF_poolVars(Settle) /\ \A w \in Workers : WF_poolVars(WorkerStep(w))

-----------------------------------------------------------------------------
(* Properties *)

Awaiting == {w \in Workers : worker[w].pc = "await"}

\* No task of the sweep is called twice, whatever the workers' interleaving:
\* two workers never come away from the shared cursor with the same index.
EachTaskOnce == \A t \in Tasks : started[t] <= 1

\* "Results come back in the order the tasks were given, regardless of the
\* order they finish" (concurrency.ts:8-9).
ResultsInTaskOrder == \A t \in Tasks : results[t] \in {t, NoResult}

\* The array handed back to the sweep has no hole: its summary counts every
\* site that was due.  Promise.all may not settle while a worker is awaiting.
ResolvedIsComplete == promise = "resolved" => \A t \in Tasks : results[t] = t

\* A sweep's pool always settles, so its finally block runs.
PoolSettles == <>(promise # "pending")

\* The strengthening of EachTaskOnce that is inductive, in named parts.
Holding(w) == worker[w].pc \in {"await", "rejected"}

\* The tasks called are exactly those below the cursor, once each.
CalledBelowCursor == \A t \in Tasks : started[t] = IF t < nextIndex THEN 1 ELSE 0

\* A worker holds a task that was called and has not delivered, and no other
\* worker holds the same one.
HoldersApart ==
    \A w \in Workers : Holding(w) =>
        /\ worker[w].task \in Tasks
        /\ worker[w].task < nextIndex
        /\ results[worker[w].task] = NoResult
        /\ \A v \in Workers : Holding(v) /\ worker[v].task = worker[w].task => v = w

\* A task that was called is delivered in its place or still in a worker's hands.
NoTaskDropped ==
    \A t \in Tasks :
        /\ results[t] \in {t, NoResult}
        /\ results[t] = t => t < nextIndex
        /\ t < nextIndex => results[t] = t \/ \E w \in Workers : Holding(w) /\ worker[w].task = t

\* A worker leaves only past the end; the pool resolves only when all have left.
ReturnsAtEnd ==
    /\ \A w \in Workers : worker[w].pc = "returned" => nextIndex >= NumTasks
    /\ promise = "resolved" => \A w \in Workers : worker[w].pc = "returned"

PoolInv == PoolTypeOK /\ CalledBelowCursor /\ HoldersApart /\ NoTaskDropped /\ ReturnsAtEnd

\* The pool the sweep relies on, with the workers hidden.
Pool == INSTANCE BoundedPool WITH
    todo     <- {t \in Tasks : started[t] = 0},
    running  <- {worker[w].task : w \in Awaiting},
    finished <- {t \in Tasks : results[t] # NoResult},
    lost     <- {worker[w].task : w \in {v \in Workers : worker[v].pc = "rejected"}}

\* runWithConcurrency implements the bounded pool.
ImplementsPool == Pool!Spec

=============================================================================
