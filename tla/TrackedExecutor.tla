-------------------------- MODULE TrackedExecutor --------------------------
(***************************************************************************)
(* The executor of the server: a ThreadPoolExecutor whose submit counts    *)
(* the tasks that wait and the tasks that run, for the status panel        *)
(* (bishon_kernel/monitoring/tracked_executor.py).                         *)
(*                                                                         *)
(* Tasks are the ingestion jobs of uploads, whose futures are dropped, and *)
(* the "next" calls of a streamed answer: when the client goes away the    *)
(* await is cancelled, and with it the future if no worker holds it yet.   *)
(***************************************************************************)
EXTENDS Integers, Sequences, FiniteSets

CONSTANTS
    Tasks,        \* tasks that will be submitted
    Cancellable,  \* those somebody awaits and may cancel
    Workers,      \* threads of the pool (4 in the code)
    NoTask        \* what an idle worker holds

ASSUME TasksAssumption ==
    /\ IsFiniteSet(Tasks)
    /\ Cancellable \subseteq Tasks
    /\ NoTask \notin Tasks

VARIABLES
    pending,  \* _pending_count
    active,   \* _active_count
    queue,    \* work items, those of cancelled futures included
    state,    \* task -> how far it got
    worker,   \* worker -> the task it holds
    open      \* shutdown was not called

pool == <<pending, active, queue, state, worker, open>>

TaskStates == {"new", "counted", "queued", "taken", "running", "done",
               "cancelled", "refused"}

PoolTypeOK ==
    /\ pending \in Nat /\ active \in Nat
    /\ queue \in Seq(Tasks)
    /\ state \in [Tasks -> TaskStates]
    /\ worker \in [Workers -> Tasks \cup {NoTask}]
    /\ open \in BOOLEAN

PoolInit ==
    /\ pending = 0 /\ active = 0
    /\ queue = <<>>
    /\ state = [t \in Tasks |-> "new"]
    /\ worker = [w \in Workers |-> NoTask]
    /\ open = TRUE

-----------------------------------------------------------------------------
(* submit: the count goes up under the lock, then the task is queued.      *)

\* Faulty variant: the count goes up after the task is queued, in Enqueue.
CountPendingLater(t) ==
    /\ state[t] = "new"
    /\ state' = [state EXCEPT ![t] = "counted"]
    /\ UNCHANGED <<pending, active, queue, worker, open>>

CountPending(t) ==
    /\ state[t] = "new"
    /\ pending' = pending + 1
    /\ state' = [state EXCEPT ![t] = "counted"]
    /\ UNCHANGED <<active, queue, worker, open>>

Enqueue(t) ==
    /\ state[t] = "counted"
    /\ open
    /\ queue' = Append(queue, t)
    /\ state' = [state EXCEPT ![t] = "queued"]
    /\ UNCHANGED <<pending, active, worker, open>>

\* The pool was shut down: the count is taken back and RuntimeError raised.
Refuse(t) ==
    /\ state[t] = "counted"
    /\ ~open
    /\ pending' = pending - 1
    /\ state' = [state EXCEPT ![t] = "refused"]
    /\ UNCHANGED <<active, queue, worker, open>>

\* Future.cancel: only a future no worker has marked running.
Cancel(t) ==
    /\ t \in Cancellable
    /\ state[t] = "queued"
    /\ state' = [state EXCEPT ![t] = "cancelled"]
    /\ UNCHANGED <<pending, active, queue, worker, open>>

-----------------------------------------------------------------------------
(* A worker takes an item, drops it when its future was cancelled, and     *)
(* else runs _tracked_fn.                                                  *)

Take(w) ==
    /\ worker[w] = NoTask
    /\ queue # <<>>
    /\ queue' = Tail(queue)
    /\ IF state[Head(queue)] = "cancelled"
       THEN UNCHANGED <<state, worker>>
       ELSE /\ state' = [state EXCEPT ![Head(queue)] = "taken"]
            /\ worker' = [worker EXCEPT ![w] = Head(queue)]
    /\ UNCHANGED <<pending, active, open>>

Begin(w) ==
    /\ worker[w] # NoTask
    /\ state[worker[w]] = "taken"
    /\ pending' = pending - 1
    /\ active' = active + 1
    /\ state' = [state EXCEPT ![worker[w]] = "running"]
    /\ UNCHANGED <<queue, worker, open>>

\* Faulty variant: a task that raises skips the decrement (no finally).
FinishWithoutFinally(w) ==
    /\ worker[w] # NoTask
    /\ state[worker[w]] = "running"
    /\ active' \in {active, active - 1}
    /\ state' = [state EXCEPT ![worker[w]] = "done"]
    /\ worker' = [worker EXCEPT ![w] = NoTask]
    /\ UNCHANGED <<pending, queue, open>>

\* fn returned or raised.
Finish(w) ==
    /\ worker[w] # NoTask
    /\ state[worker[w]] = "running"
    /\ active' = active - 1
    /\ state' = [state EXCEPT ![worker[w]] = "done"]
    /\ worker' = [worker EXCEPT ![w] = NoTask]
    /\ UNCHANGED <<pending, queue, open>>

Close ==
    /\ open
    /\ open' = FALSE
    /\ UNCHANGED <<pending, active, queue, state, worker>>

\* What shutdown(wait=True) waits for.
Drained == queue = <<>> /\ \A w \in Workers : worker[w] = NoTask

Work(w) == Take(w) \/ Begin(w) \/ Finish(w)

PoolNext ==
    \/ \E t \in Tasks : CountPending(t) \/ Enqueue(t) \/ Refuse(t) \/ Cancel(t)
    \/ \E w \in Workers : Work(w)
    \/ Close

PoolSpec == PoolInit /\ [][PoolNext]_pool

-----------------------------------------------------------------------------
(* Properties.                                                             *)

In(states) == {t \in Tasks : state[t] \in states}
Waiting == In({"counted", "queued", "taken"})

\* The counters the status panel shows never lose a task: each one that waits
\* or runs is counted once, whatever submitters, workers, failing tasks and
\* cancellations do in between; pending exceeds the tasks that wait by the
\* cancelled ones exactly.
CountersAccount ==
    /\ pending = Cardinality(Waiting) + Cardinality(In({"cancelled"}))
    /\ active = Cardinality(In({"running"}))
=============================================================================
