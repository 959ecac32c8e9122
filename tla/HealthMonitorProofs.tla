------------------------ MODULE HealthMonitorProofs ------------------------
(***************************************************************************)
(* For any tasks, workers and services: the counters of the executor       *)
(* account for every task, the snapshot of the queue misses none that was  *)
(* there all the time, and a shutdown drops none.                          *)
(***************************************************************************)
EXTENDS HealthMonitor, FiniteSetTheorems, TLAPS

\* The queue holds each task that is queued, and no task twice.
QueueInv ==
    /\ \A i \in 1 .. Len(queue) : state[queue[i]] \in {"queued", "cancelled"}
    /\ \A i, j \in 1 .. Len(queue) : queue[i] = queue[j] => i = j
    /\ \A t \in Tasks : state[t] = "queued" => \E i \in 1 .. Len(queue) : queue[i] = t

\* A task that was taken is in the hands of a worker.
WorkerInv ==
    \A t \in Tasks : state[t] \in {"taken", "running"} => \E w \in Workers : worker[w] = t

PoolInv == PoolTypeOK /\ CountersAccount /\ QueueInv /\ WorkerInv

-----------------------------------------------------------------------------
(* Counting tasks by their state.                                          *)

LEMMA CountIsNat ==
    ASSUME TasksAssumption, NEW S
    PROVE  IsFiniteSet(In(S)) /\ Cardinality(In(S)) \in Nat
<1>1. In(S) \subseteq Tasks
  BY DEF In
<1> QED
  BY <1>1, FS_Subset, FS_CardinalityType DEF TasksAssumption

LEMMA Stays ==
    ASSUME PoolTypeOK, NEW t \in Tasks, NEW s \in TaskStates, NEW S,
           state' = [state EXCEPT ![t] = s], state[t] \in S <=> s \in S
    PROVE  In(S)' = In(S)
BY DEF In, PoolTypeOK

LEMMA Enters ==
    ASSUME TasksAssumption, PoolTypeOK, NEW t \in Tasks, NEW s \in TaskStates, NEW S,
           state' = [state EXCEPT ![t] = s], state[t] \notin S, s \in S
    PROVE  /\ In(S)' = In(S) \cup {t}
           /\ Cardinality(In(S)') = Cardinality(In(S)) + 1
<1>1. In(S)' = In(S) \cup {t}
  BY DEF In, PoolTypeOK
<1>2. t \notin In(S)
  BY DEF In
<1> QED
  BY <1>1, <1>2, CountIsNat, FS_AddElement

LEMMA Leaves ==
    ASSUME TasksAssumption, PoolTypeOK, NEW t \in Tasks, NEW s \in TaskStates, NEW S,
           state' = [state EXCEPT ![t] = s], state[t] \in S, s \notin S
    PROVE  /\ In(S)' = In(S) \ {t}
           /\ Cardinality(In(S)') = Cardinality(In(S)) - 1
<1>1. In(S)' = In(S) \ {t}
  BY DEF In, PoolTypeOK
<1>2. t \in In(S)
  BY DEF In
<1> QED
  BY <1>1, <1>2, CountIsNat, FS_RemoveElement

\* The counters stay typed because they count.
LEMMA CountersTyped ==
    ASSUME TasksAssumption, CountersAccount'
    PROVE  pending' \in Nat /\ active' \in Nat
<1> DEFINE N(S) == Cardinality(In(S)')
<1>1. ASSUME NEW S PROVE N(S) \in Nat
  <2>1. In(S)' \subseteq Tasks
    BY DEF In
  <2> QED
    BY <2>1, FS_Subset, FS_CardinalityType DEF TasksAssumption
<1>2. /\ N({"counted", "queued", "taken"}) \in Nat
      /\ N({"cancelled"}) \in Nat
      /\ N({"running"}) \in Nat
  BY <1>1
<1> QED
  BY <1>2 DEF CountersAccount, Waiting

-----------------------------------------------------------------------------
(* Each step of the pool preserves the invariant.                          *)

LEMMA PoolInitInv == ASSUME TasksAssumption, PoolInit PROVE PoolInv
<1>1. ASSUME NEW S, "new" \notin S PROVE Cardinality(In(S)) = 0
  <2>1. In(S) = {}
    BY <1>1 DEF In, PoolInit
  <2> QED
    BY <2>1, FS_EmptySet
<1>2. CountersAccount
  BY <1>1 DEF CountersAccount, Waiting, PoolInit
<1> QED
  BY <1>2 DEF PoolInv, PoolTypeOK, PoolInit, QueueInv, WorkerInv, TaskStates, TasksAssumption

LEMMA CountPendingInv ==
    ASSUME TasksAssumption, PoolInv, NEW t \in Tasks, CountPending(t)
    PROVE  PoolInv'
<1> USE DEF PoolInv
<1> state' = [state EXCEPT ![t] = "counted"] /\ state[t] = "new" /\ "counted" \in TaskStates
  BY DEF CountPending, TaskStates
<1>1. CountersAccount'
  <2>1. Cardinality(Waiting') = Cardinality(Waiting) + 1
    BY Enters DEF Waiting
  <2>2. In({"cancelled"})' = In({"cancelled"}) /\ In({"running"})' = In({"running"})
    BY Stays
  <2>3. Cardinality(Waiting) \in Nat /\ Cardinality(In({"cancelled"})) \in Nat
    BY CountIsNat DEF Waiting
  <2> QED
    BY <2>1, <2>2, <2>3 DEF CountPending, CountersAccount
<1>2. QueueInv' /\ WorkerInv'
  BY DEF CountPending, QueueInv, WorkerInv, PoolTypeOK
<1> QED
  BY <1>1, <1>2, CountersTyped DEF PoolTypeOK, CountPending

LEMMA EnqueueInv ==
    ASSUME TasksAssumption, PoolInv, NEW t \in Tasks, Enqueue(t)
    PROVE  PoolInv'
<1> USE DEF PoolInv
<1> state' = [state EXCEPT ![t] = "queued"] /\ state[t] = "counted" /\ "queued" \in TaskStates
  BY DEF Enqueue, TaskStates
<1>1. CountersAccount'
  <2>1. /\ Waiting' = Waiting
        /\ In({"cancelled"})' = In({"cancelled"}) /\ In({"running"})' = In({"running"})
    BY Stays DEF Waiting
  <2> QED
    BY <2>1 DEF Enqueue, CountersAccount
<1>2. queue \in Seq(Tasks) /\ queue' = Append(queue, t)
  BY DEF Enqueue, PoolTypeOK
<1>3. /\ Len(queue') = Len(queue) + 1 /\ queue'[Len(queue) + 1] = t
      /\ \A i \in 1 .. Len(queue) : queue'[i] = queue[i] /\ queue[i] \in Tasks /\ queue[i] # t
  BY <1>2 DEF QueueInv
<1>4. QueueInv'
  <2>1. \A i \in 1 .. Len(queue') : i \in 1 .. Len(queue) \/ i = Len(queue) + 1
    BY <1>2, <1>3
  <2>2. \A i \in 1 .. Len(queue') : state'[queue'[i]] \in {"queued", "cancelled"}
    BY <1>3, <2>1 DEF QueueInv, PoolTypeOK
  <2>3. \A i, j \in 1 .. Len(queue') : queue'[i] = queue'[j] => i = j
    BY <1>3, <2>1 DEF QueueInv
  <2>4. Len(queue) \in Nat
    BY <1>2
  <2>5. ASSUME NEW u \in Tasks, state'[u] = "queued"
        PROVE  \E i \in 1 .. Len(queue') : queue'[i] = u
    <3>1. CASE u = t
      BY <3>1, <1>3, <2>4
    <3>2. CASE u # t
      BY <3>2, <1>3, <2>4, <2>5 DEF QueueInv, PoolTypeOK
    <3> QED
      BY <3>1, <3>2
  <2> QED
    BY <2>2, <2>3, <2>5 DEF QueueInv
<1>5. WorkerInv'
  BY DEF Enqueue, WorkerInv, PoolTypeOK
<1> QED
  BY <1>1, <1>2, <1>4, <1>5 DEF PoolTypeOK, Enqueue

LEMMA RefuseInv ==
    ASSUME TasksAssumption, PoolInv, NEW t \in Tasks, Refuse(t)
    PROVE  PoolInv'
<1> USE DEF PoolInv
<1> state' = [state EXCEPT ![t] = "refused"] /\ state[t] = "counted" /\ "refused" \in TaskStates
  BY DEF Refuse, TaskStates
<1>1. CountersAccount'
  <2>1. Cardinality(Waiting') = Cardinality(Waiting) - 1
    BY Leaves DEF Waiting
  <2>2. In({"cancelled"})' = In({"cancelled"}) /\ In({"running"})' = In({"running"})
    BY Stays
  <2>3. Cardinality(Waiting) \in Nat /\ Cardinality(In({"cancelled"})) \in Nat
    BY CountIsNat DEF Waiting
  <2> QED
    BY <2>1, <2>2, <2>3 DEF Refuse, CountersAccount
<1>2. QueueInv' /\ WorkerInv'
  BY DEF Refuse, QueueInv, WorkerInv, PoolTypeOK
<1> QED
  BY <1>1, <1>2, CountersTyped DEF PoolTypeOK, Refuse

LEMMA CancelInv ==
    ASSUME TasksAssumption, PoolInv, NEW t \in Tasks, Cancel(t)
    PROVE  PoolInv'
<1> USE DEF PoolInv
<1> state' = [state EXCEPT ![t] = "cancelled"] /\ state[t] = "queued" /\ "cancelled" \in TaskStates
  BY DEF Cancel, TaskStates
<1>1. CountersAccount'
  <2>1. Cardinality(Waiting') = Cardinality(Waiting) - 1
    BY Leaves DEF Waiting
  <2>2. Cardinality(In({"cancelled"})') = Cardinality(In({"cancelled"})) + 1
    BY Enters
  <2>3. In({"running"})' = In({"running"})
    BY Stays
  <2>4. Cardinality(Waiting) \in Nat /\ Cardinality(In({"cancelled"})) \in Nat
    BY CountIsNat DEF Waiting
  <2> QED
    BY <2>1, <2>2, <2>3, <2>4 DEF Cancel, CountersAccount
<1>2. QueueInv' /\ WorkerInv'
  BY DEF Cancel, QueueInv, WorkerInv, PoolTypeOK
<1> QED
  BY <1>1, <1>2, CountersTyped DEF PoolTypeOK, Cancel

LEMMA TakeInv ==
    ASSUME TasksAssumption, PoolInv, NEW w \in Workers, Take(w)
    PROVE  PoolInv'
<1> USE DEF PoolInv
<1> DEFINE t == Head(queue)
<1>1. /\ queue \in Seq(Tasks) /\ queue # <<>> /\ queue' = Tail(queue)
      /\ Len(queue) \in Nat \ {0} /\ t = queue[1] /\ t \in Tasks
  BY DEF Take, PoolTypeOK
<1>2. /\ queue' \in Seq(Tasks) /\ Len(queue') = Len(queue) - 1
      /\ \A i \in 1 .. Len(queue') : i + 1 \in 1 .. Len(queue) /\ queue'[i] = queue[i + 1]
  BY <1>1
<1>3. state[t] \in {"queued", "cancelled"}
  BY <1>1 DEF QueueInv
<1>4. \A i \in 1 .. Len(queue') : queue'[i] # t
  BY <1>1, <1>2 DEF QueueInv
<1>5. \A i, j \in 1 .. Len(queue') : queue'[i] = queue'[j] => i = j
  <2> SUFFICES ASSUME NEW i \in 1 .. Len(queue'), NEW j \in 1 .. Len(queue'),
                      queue'[i] = queue'[j]
               PROVE  i = j
    OBVIOUS
  <2>1. i + 1 = j + 1
    BY <1>2 DEF QueueInv
  <2> QED
    BY <2>1
<1>6. \A u \in Tasks \ {t} : state[u] = "queued" => \E i \in 1 .. Len(queue') : queue'[i] = u
  <2> SUFFICES ASSUME NEW u \in Tasks \ {t}, state[u] = "queued"
               PROVE  \E i \in 1 .. Len(queue') : queue'[i] = u
    OBVIOUS
  <2>1. PICK i \in 1 .. Len(queue) : queue[i] = u
    BY DEF QueueInv
  <2>2. i # 1
    BY <1>1, <2>1
  <2>3. i - 1 \in 1 .. Len(queue') /\ queue'[i - 1] = u
    BY <1>1, <1>2, <2>1, <2>2
  <2> QED
    BY <2>3
<1>7. CASE state[t] = "cancelled"
  <2>1. state' = state /\ worker' = worker
    BY <1>7 DEF Take
  <2>2. QueueInv'
    <3>1. \A i \in 1 .. Len(queue') : state'[queue'[i]] \in {"queued", "cancelled"}
      BY <1>2, <2>1 DEF QueueInv
    <3>2. \A u \in Tasks : state'[u] = "queued" => \E i \in 1 .. Len(queue') : queue'[i] = u
      BY <1>6, <1>7, <2>1
    <3> QED
      BY <1>5, <3>1, <3>2 DEF QueueInv
  <2>3. CountersAccount'
    BY <2>1 DEF CountersAccount, Waiting, In, Take
  <2> QED
    BY <1>2, <2>1, <2>2, <2>3 DEF Take, PoolTypeOK, WorkerInv
<1>8. CASE state[t] = "queued"
  <2>1. /\ state' = [state EXCEPT ![t] = "taken"] /\ "taken" \in TaskStates
        /\ worker' = [worker EXCEPT ![w] = t] /\ worker[w] = NoTask
    BY <1>8 DEF Take, TaskStates
  <2>2. QueueInv'
    <3>1. \A i \in 1 .. Len(queue') : state'[queue'[i]] \in {"queued", "cancelled"}
      <4> SUFFICES ASSUME NEW i \in 1 .. Len(queue')
                   PROVE  state'[queue'[i]] \in {"queued", "cancelled"}
        OBVIOUS
      <4>1. queue'[i] \in Tasks \ {t} /\ state[queue'[i]] \in {"queued", "cancelled"}
        BY <1>1, <1>2, <1>4 DEF QueueInv
      <4> QED
        BY <4>1, <2>1 DEF PoolTypeOK
    <3>2. \A u \in Tasks : state'[u] = "queued" => \E i \in 1 .. Len(queue') : queue'[i] = u
      BY <1>1, <1>6, <2>1 DEF PoolTypeOK
    <3> QED
      BY <1>5, <3>1, <3>2 DEF QueueInv
  <2>3. CountersAccount'
    <3>1. /\ Waiting' = Waiting
          /\ In({"cancelled"})' = In({"cancelled"}) /\ In({"running"})' = In({"running"})
      BY Stays, <1>1, <1>8, <2>1 DEF Waiting
    <3> QED
      BY <3>1 DEF Take, CountersAccount
  <2>4. WorkerInv'
    <3> SUFFICES ASSUME NEW u \in Tasks, state'[u] \in {"taken", "running"}
                 PROVE  \E v \in Workers : worker'[v] = u
      BY DEF WorkerInv
    <3>1. CASE u = t
      BY <2>1, <3>1 DEF PoolTypeOK
    <3>2. CASE u # t
      <4>1. state[u] \in {"taken", "running"}
        BY <2>1, <3>2 DEF PoolTypeOK
      <4>2. PICK v \in Workers : worker[v] = u
        BY <4>1 DEF WorkerInv
      <4>3. v # w
        BY <2>1, <4>2 DEF TasksAssumption
      <4> QED
        BY <2>1, <4>2, <4>3 DEF PoolTypeOK
    <3> QED
      BY <3>1, <3>2
  <2>5. PoolTypeOK'
    BY <1>1, <1>2, <2>1 DEF Take, PoolTypeOK
  <2> QED
    BY <2>2, <2>3, <2>4, <2>5
<1> QED
  BY <1>3, <1>7, <1>8

\* _tracked_fn begins: the worker's task moves from one counter to the other.
LEMMA BeginInv ==
    ASSUME TasksAssumption, PoolInv, NEW w \in Workers, Begin(w)
    PROVE  PoolInv'
<1> USE DEF PoolInv
<1> DEFINE t == worker[w]
<1> t \in Tasks /\ state[t] = "taken"
  BY DEF Begin, PoolTypeOK
<1> state' = [state EXCEPT ![t] = "running"] /\ "running" \in TaskStates
  BY DEF Begin, TaskStates
<1> HIDE DEF t
<1>1. CountersAccount'
  <2>1. Cardinality(Waiting') = Cardinality(Waiting) - 1
    BY Leaves DEF Waiting
  <2>2. Cardinality(In({"running"})') = Cardinality(In({"running"})) + 1
    BY Enters
  <2>3. In({"cancelled"})' = In({"cancelled"})
    BY Stays
  <2>4. /\ Cardinality(Waiting) \in Nat /\ Cardinality(In({"cancelled"})) \in Nat
        /\ Cardinality(In({"running"})) \in Nat
    BY CountIsNat DEF Waiting
  <2> QED
    BY <2>1, <2>2, <2>3, <2>4 DEF Begin, CountersAccount
<1>2. QueueInv' /\ WorkerInv'
  BY DEF Begin, QueueInv, WorkerInv, PoolTypeOK
<1> QED
  BY <1>1, <1>2, CountersTyped DEF PoolTypeOK, Begin

\* The task returned or raised: "finally" takes it out of the active ones.
LEMMA FinishInv ==
    ASSUME TasksAssumption, PoolInv, NEW w \in Workers, Finish(w)
    PROVE  PoolInv'
<1> USE DEF PoolInv
<1>1. PICK t \in Tasks :
        /\ worker[w] = t /\ state[t] = "running"
        /\ worker' = [worker EXCEPT ![w] = NoTask]
        /\ state' = [state EXCEPT ![t] = "done"]
  BY DEF Finish, PoolTypeOK
<1>2. "done" \in TaskStates
  BY DEF TaskStates
<1>3. CountersAccount'
  <2>1. Cardinality(In({"running"})') = Cardinality(In({"running"})) - 1
    <3> DEFINE S == {"running"}
    <3>1. state[t] \in S /\ "done" \notin S
      BY <1>1
    <3> HIDE DEF S
    <3>2. Cardinality(In(S)') = Cardinality(In(S)) - 1
      BY <3>1, <1>1, <1>2, Leaves
    <3> QED
      BY <3>2 DEF S
  <2>2. Waiting' = Waiting /\ In({"cancelled"})' = In({"cancelled"})
    BY <1>1, <1>2, Stays DEF Waiting
  <2>3. Cardinality(In({"running"})) \in Nat
    BY CountIsNat
  <2> QED
    BY <2>1, <2>2, <2>3 DEF Finish, CountersAccount
<1>4. QueueInv'
  BY <1>1 DEF Finish, QueueInv, PoolTypeOK
<1>5. WorkerInv'
  <2> SUFFICES ASSUME NEW u \in Tasks, state'[u] \in {"taken", "running"}
               PROVE  \E v \in Workers : worker'[v] = u
    BY DEF WorkerInv
  <2>1. u # t /\ state[u] \in {"taken", "running"}
    BY <1>1 DEF PoolTypeOK
  <2>2. PICK v \in Workers : worker[v] = u
    BY <2>1 DEF WorkerInv
  <2> QED
    BY <1>1, <2>1, <2>2 DEF PoolTypeOK
<1> QED
  BY <1>1, <1>2, <1>3, <1>4, <1>5, CountersTyped DEF PoolTypeOK, Finish

LEMMA PoolStep ==
    ASSUME TasksAssumption, PoolInv, [PoolNext]_pool
    PROVE  PoolInv'
<1>1. ASSUME NEW t \in Tasks, CountPending(t) \/ Enqueue(t) \/ Refuse(t) \/ Cancel(t)
      PROVE  PoolInv'
  BY <1>1, CountPendingInv, EnqueueInv, RefuseInv, CancelInv
<1>2. ASSUME NEW w \in Workers, Work(w) PROVE PoolInv'
  BY <1>2, TakeInv, BeginInv, FinishInv DEF Work
<1>3. CASE Close
  BY <1>3 DEF Close, PoolInv, PoolTypeOK, CountersAccount, Waiting, In, QueueInv, WorkerInv
<1>4. CASE UNCHANGED pool
  BY <1>4 DEF pool, PoolInv, PoolTypeOK, CountersAccount, Waiting, In, QueueInv, WorkerInv
<1> QED
  BY <1>1, <1>2, <1>3, <1>4 DEF PoolNext

-----------------------------------------------------------------------------
(* What a step of the pool may do to a task.                               *)

\* Tasks go forward: none becomes new again, and only a new one begins to wait.
LEMMA NoReturn ==
    ASSUME TasksAssumption, PoolInv, [PoolNext]_pool
    PROVE  In({"new"})' \subseteq In({"new"}) /\ Waiting' \subseteq Waiting \cup In({"new"})
<1> USE DEF PoolInv, PoolTypeOK, Waiting, In
<1>1. ASSUME NEW t \in Tasks, CountPending(t) \/ Enqueue(t) \/ Refuse(t) \/ Cancel(t)
      PROVE  In({"new"})' \subseteq In({"new"}) /\ Waiting' \subseteq Waiting \cup In({"new"})
  BY <1>1 DEF CountPending, Enqueue, Refuse, Cancel
<1>2. ASSUME NEW w \in Workers, Take(w)
      PROVE  In({"new"})' \subseteq In({"new"}) /\ Waiting' \subseteq Waiting \cup In({"new"})
  <2>1. state' = state \/ state[Head(queue)] = "queued"
    <3>1. 1 \in 1 .. Len(queue) /\ Head(queue) = queue[1]
      BY <1>2 DEF Take
    <3> QED
      BY <1>2, <3>1 DEF Take, QueueInv
  <2> QED
    BY <1>2, <2>1 DEF Take
<1>3. ASSUME NEW w \in Workers, Begin(w) \/ Finish(w)
      PROVE  In({"new"})' \subseteq In({"new"}) /\ Waiting' \subseteq Waiting \cup In({"new"})
  BY <1>3 DEF Begin, Finish
<1>4. CASE Close \/ UNCHANGED pool
  BY <1>4 DEF Close, pool
<1> QED
  BY <1>1, <1>2, <1>3, <1>4 DEF PoolNext, Work

\* Only the count of a submit brings a task into the executor.
LEMMA NoneComes ==
    ASSUME TasksAssumption, PoolInv,
           \/ \E t \in Tasks : Enqueue(t)
           \/ \E w \in Workers : Work(w)
           \/ Close
           \/ UNCHANGED pool
    PROVE  Held' \subseteq Held /\ In({"counted"})' \subseteq In({"counted"})
<1> USE DEF PoolInv, PoolTypeOK, Held, Waiting, In
<1>1. ASSUME NEW t \in Tasks, Enqueue(t)
      PROVE  Held' \subseteq Held /\ In({"counted"})' \subseteq In({"counted"})
  BY <1>1 DEF Enqueue
<1>2. ASSUME NEW w \in Workers, Take(w)
      PROVE  Held' \subseteq Held /\ In({"counted"})' \subseteq In({"counted"})
  <2>1. state' = state \/ state[Head(queue)] = "queued"
    <3>1. 1 \in 1 .. Len(queue) /\ Head(queue) = queue[1]
      BY <1>2 DEF Take
    <3> QED
      BY <1>2, <3>1 DEF Take, QueueInv
  <2> QED
    BY <1>2, <2>1 DEF Take
<1>3. ASSUME NEW w \in Workers, Begin(w) \/ Finish(w)
      PROVE  Held' \subseteq Held /\ In({"counted"})' \subseteq In({"counted"})
  BY <1>3 DEF Begin, Finish
<1>4. CASE Close \/ UNCHANGED pool
  BY <1>4 DEF Close, pool
<1> QED
  BY <1>1, <1>2, <1>3, <1>4 DEF Work

-----------------------------------------------------------------------------
(* The panel and the lifespan.                                             *)

PanelTypeOK ==
    /\ up \in [SetOf(Services) \ Disabled -> BOOLEAN]
    /\ status \in [SetOf(Services) -> Statuses]
    /\ checker \in [await : {"none", "timer", "probe", "answer", "read1", "read2"},
                    at : 1 .. Len(Services), answer : Answers]
    /\ seen \in [pending : Nat, active : Nat] /\ stats \in [pending : Nat, active : Nat]
    /\ held \subseteq Tasks /\ watched \subseteq Tasks
    /\ life \in {"up", "stopping", "closing", "down"}
    /\ checker.answer = "none" => checker.await # "answer"

\* Between the reads: the tasks held at the first were not new, and those of
\* them that still wait were counted as pending.
SnapshotInv ==
    /\ checker.await = "read2" =>
          held \cap In({"new"}) = {} /\ Cardinality(held \cap Waiting) <= seen.pending
    /\ SnapshotMissesNothing

LifeInv ==
    /\ life # "up" => In({"counted"}) = {}
    /\ DownMeansDone

IInv == PoolInv /\ PanelTypeOK /\ SnapshotInv /\ LifeInv

\* What no step of the pool changes.
Panel == <<up, panel, life>>

THEOREM InitIInv == ASSUME TasksAssumption, ServicesAssumption, Init PROVE IInv
<1>1. PoolInv
  BY PoolInitInv DEF Init
<1>2. Services \in Seq(SetOf(Services)) /\ 1 \in 1 .. Len(Services)
  BY DEF ServicesAssumption
<1>3. PanelTypeOK
  BY <1>2 DEF Init, PanelTypeOK, NoCounts, Answers, Statuses
<1>4. SnapshotInv
  BY FS_EmptySet DEF Init, NoCounts, SnapshotInv, SnapshotMissesNothing
<1>5. LifeInv
  BY DEF Init, LifeInv, DownMeansDone
<1> QED
  BY <1>1, <1>3, <1>4, <1>5 DEF IInv

\* Every step is one of the pool or leaves it alone.
LEMMA NextIsPoolStep == ASSUME [Next]_vars PROVE [PoolNext]_pool
<1>1. CASE Next
  BY <1>1 DEF Next, Flip, JobOutcome, ChatOutcome, RecordOutcome, Check, StartRound, ProbeEnds,
              RecordProbe, ReadPending, RecordQueueStats, Submit, FinishSubmit, CancelTask, WorkOn,
              StopChecker, Shutdown, CloseExecutor, ShutdownEnds, PoolNext
<1>2. CASE UNCHANGED vars
  BY <1>2 DEF vars
<1> QED
  BY <1>1, <1>2

LEMMA PanelTyped ==
    ASSUME TasksAssumption, ServicesAssumption, IInv, [Next]_vars
    PROVE  PanelTypeOK'
<1> USE DEF IInv, PanelTypeOK, Answers, Statuses
<1>1. Services \in Seq(SetOf(Services)) /\ 1 \in 1 .. Len(Services) /\ Len(Services) \in Nat
  BY DEF ServicesAssumption
<1>2. \A i \in 1 .. Len(Services) : Services[i] \in SetOf(Services)
  BY <1>1
<1>3. ASSUME NEW s \in SetOf(Services) \ Disabled, Flip(s) PROVE PanelTypeOK'
  BY <1>3 DEF Flip, panel
<1>4. ASSUME NEW s \in SetOf(Services), NEW success \in BOOLEAN, RecordOutcome(s, success)
      PROVE  PanelTypeOK'
  BY <1>4 DEF RecordOutcome
<1>5. CASE StartRound
  BY <1>1, <1>5 DEF StartRound, CheckerAt
<1>6. CASE ProbeEnds
  BY <1>1, <1>6 DEF ProbeEnds, CheckerAt
<1>7. CASE RecordProbe
  <2>1. checker.answer \in {"healthy", "unhealthy", "disabled"}
    BY <1>7 DEF RecordProbe
  <2>2. checker' \in [await : {"none", "timer", "probe", "answer", "read1", "read2"},
                      at : 1 .. Len(Services), answer : Answers]
        /\ (checker.answer = "none" => checker.await # "answer")'
    BY <1>1, <1>7 DEF RecordProbe, NextProbe, CheckerAt
  <2> QED
    BY <1>2, <1>7, <2>1, <2>2 DEF RecordProbe
<1>8. CASE ReadPending
  BY <1>1, <1>8 DEF ReadPending, Counters, CheckerAt, Held, Waiting, In, PoolInv, PoolTypeOK
<1>9. CASE RecordQueueStats
  BY <1>1, <1>9 DEF RecordQueueStats, Snapshot, Counters, NoCounts, CheckerAt, PoolInv, PoolTypeOK
<1>10. CASE StopChecker
  BY <1>1, <1>10 DEF StopChecker, CheckerAt
<1>11. CASE Shutdown
  BY <1>11 DEF Shutdown, CloseExecutor, ShutdownEnds, panel
<1>12. CASE UNCHANGED Panel
  BY <1>12 DEF Panel, panel
<1>13. ASSUME NEW w \in Workers, NEW s \in JobServices, NEW success \in BOOLEAN,
              JobOutcome(w, s, success)
       PROVE  PanelTypeOK'
  BY <1>4, <1>13 DEF JobOutcome, ServicesAssumption
<1>14. ASSUME NEW success \in BOOLEAN, ChatOutcome(success) PROVE PanelTypeOK'
  BY <1>4, <1>14 DEF ChatOutcome, ServicesAssumption
<1>15. CASE \E t \in Tasks : Submit(t) \/ FinishSubmit(t) \/ CancelTask(t)
  BY <1>12, <1>15 DEF Submit, FinishSubmit, CancelTask, Panel
<1>16. CASE \E w \in Workers : WorkOn(w)
  BY <1>12, <1>16 DEF WorkOn, Panel
<1>17. CASE UNCHANGED vars
  BY <1>12, <1>17 DEF vars, Panel
<1> QED
  BY <1>3, <1>5, <1>6, <1>7, <1>8, <1>9, <1>10, <1>11, <1>13, <1>14, <1>15, <1>16, <1>17
     DEF Next, Check

\* The counts of the snapshot, when nothing is read or recorded.
LEMMA SnapshotKept ==
    ASSUME TasksAssumption, ServicesAssumption, IInv, [Next]_vars,
           UNCHANGED <<seen, held, stats, watched>>, checker'.await = "read2" => checker.await = "read2"
    PROVE  SnapshotInv'
<1> USE DEF IInv, SnapshotInv
<1>1. In({"new"})' \subseteq In({"new"}) /\ Waiting' \subseteq Waiting \cup In({"new"})
  BY NoReturn, NextIsPoolStep
<1>2. CASE checker'.await = "read2"
  <2>1. held \cap In({"new"}) = {} /\ Cardinality(held \cap Waiting) <= seen.pending
    BY <1>2
  <2>2. (held \cap Waiting)' \subseteq held \cap Waiting /\ (held \cap In({"new"}))' = {}
    BY <1>1, <2>1
  <2>3. IsFiniteSet(held \cap Waiting) /\ Cardinality(held \cap Waiting) \in Nat
    BY CountIsNat, FS_Subset, FS_CardinalityType DEF Waiting
  <2>4. /\ Cardinality((held \cap Waiting)') <= Cardinality(held \cap Waiting)
        /\ Cardinality((held \cap Waiting)') \in Nat
    BY <2>2, <2>3, FS_Subset, FS_CardinalityType
  <2>5. seen.pending \in Nat /\ seen' = seen
    BY DEF PanelTypeOK
  <2> QED
    BY <2>1, <2>2, <2>3, <2>4, <2>5 DEF SnapshotMissesNothing
<1>3. CASE checker'.await # "read2"
  BY <1>3 DEF SnapshotMissesNothing
<1> QED
  BY <1>2, <1>3

LEMMA SnapshotBegins ==
    ASSUME TasksAssumption, IInv, ReadPending
    PROVE  SnapshotInv'
<1> USE DEF IInv, SnapshotInv
<1>1. /\ held' = Held /\ seen'.pending = pending
      /\ state' = state /\ stats' = stats /\ watched' = watched
  BY DEF ReadPending, Counters, pool
<1>2. In({"new"})' = In({"new"}) /\ Waiting' = Waiting
  BY <1>1 DEF In, Waiting
<1>3. Held \cap In({"new"}) = {} /\ Held \cap Waiting = Waiting
  BY DEF Held, Waiting, In
<1>4. Cardinality(Waiting) <= pending
  <2>1. Cardinality(Waiting) \in Nat /\ Cardinality(In({"cancelled"})) \in Nat
    BY CountIsNat DEF Waiting
  <2> QED
    BY <2>1 DEF PoolInv, CountersAccount
<1> QED
  BY <1>1, <1>2, <1>3, <1>4 DEF SnapshotMissesNothing

\* A task held at both moments still waits, and was counted at the first, or
\* runs, and is counted at the second.
LEMMA SnapshotEnds ==
    ASSUME TasksAssumption, IInv, RecordQueueStats
    PROVE  SnapshotInv'
<1> USE DEF IInv, SnapshotInv
<1> DEFINE Still == held \cap Waiting
           Now   == In({"running"})
<1>1. /\ stats' = [pending |-> seen.pending, active |-> active]
      /\ watched' = held \cap Held /\ checker'.await = "timer"
      /\ seen.pending \in Nat /\ Cardinality(Still) <= seen.pending
  BY DEF RecordQueueStats, Snapshot, Counters, CheckerAt, PanelTypeOK
<1>2. IsFiniteSet(Still) /\ IsFiniteSet(Now) /\ active = Cardinality(Now)
  BY CountIsNat, FS_Subset DEF Waiting, PoolInv, CountersAccount
<1>3. /\ IsFiniteSet(Still \cup Now)
      /\ Cardinality(Still \cup Now)
            = Cardinality(Still) + Cardinality(Now) - Cardinality(Still \cap Now)
      /\ Cardinality(Still \cap Now) \in Nat
      /\ Cardinality(Still) \in Nat /\ Cardinality(Now) \in Nat
  BY <1>2, FS_Union, FS_Intersection, FS_CardinalityType
<1>4. held \cap Held \subseteq Still \cup Now
  BY DEF Held
<1>5. Cardinality(held \cap Held) <= Cardinality(Still \cup Now)
      /\ Cardinality(held \cap Held) \in Nat
  BY <1>3, <1>4, FS_Subset, FS_CardinalityType
<1>6. seen.pending + active >= Cardinality(held \cap Held)
  <2> HIDE DEF Still, Now
  <2> QED
    BY <1>1, <1>2, <1>3, <1>5
<1> QED
  BY <1>1, <1>6 DEF SnapshotMissesNothing

LEMMA SnapshotPreserved ==
    ASSUME TasksAssumption, ServicesAssumption, IInv, [Next]_vars
    PROVE  SnapshotInv'
<1>1. CASE ReadPending
  BY <1>1, SnapshotBegins
<1>2. CASE RecordQueueStats
  BY <1>2, SnapshotEnds
<1>3. CASE StartRound \/ ProbeEnds \/ RecordProbe \/ StopChecker
  <2>1. /\ UNCHANGED <<seen, held, stats, watched>>
        /\ checker'.await \in {"none", "probe", "answer", "read1"}
    BY <1>3 DEF StartRound, ProbeEnds, RecordProbe, StopChecker, NextProbe, CheckerAt
  <2> QED
    BY <2>1, SnapshotKept
<1>4. CASE UNCHANGED panel
  BY <1>4, SnapshotKept DEF panel
<1>5. CASE UNCHANGED <<checker, seen, held, stats, watched>>
  BY <1>5, SnapshotKept
<1>6. \A s : Flip(s) => UNCHANGED panel
  BY DEF Flip
<1>7. \A s, b : RecordOutcome(s, b) => UNCHANGED <<checker, seen, held, stats, watched>>
  BY DEF RecordOutcome
<1>8. Shutdown => UNCHANGED panel
  BY DEF Shutdown, CloseExecutor, ShutdownEnds
<1>9. (\E t \in Tasks : Submit(t) \/ FinishSubmit(t) \/ CancelTask(t)) => UNCHANGED panel
  BY DEF Submit, FinishSubmit, CancelTask
<1>10. (\E w \in Workers : WorkOn(w)) => UNCHANGED panel
  BY DEF WorkOn
<1>11. (UNCHANGED vars) => UNCHANGED panel
  BY DEF vars
<1> QED
  BY <1>1, <1>2, <1>3, <1>4, <1>5, <1>6, <1>7, <1>8, <1>9, <1>10, <1>11
     DEF Next, Check, JobOutcome, ChatOutcome

-----------------------------------------------------------------------------
(* The shutdown.                                                           *)

\* Once the queue is empty and no worker holds a task, none waits or runs.
LEMMA DrainedHoldsNone ==
    ASSUME TasksAssumption, PoolInv, Drained, In({"counted"}) = {}
    PROVE  Held = {}
<1> SUFFICES ASSUME NEW t \in Held PROVE FALSE
  OBVIOUS
<1>1. t \in Tasks /\ state[t] \in {"counted", "queued", "taken", "running"}
  BY DEF Held, Waiting, In
<1>2. state[t] # "counted"
  BY <1>1 DEF In
<1>3. state[t] # "queued"
  <2> SUFFICES ASSUME state[t] = "queued" PROVE FALSE
    OBVIOUS
  <2>1. PICK i \in 1 .. Len(queue) : queue[i] = t
    BY <1>1 DEF PoolInv, QueueInv
  <2> QED
    BY <2>1 DEF Drained
<1>4. state[t] \notin {"taken", "running"}
  BY <1>1 DEF PoolInv, WorkerInv, Drained, TasksAssumption
<1> QED
  BY <1>1, <1>2, <1>3, <1>4

LEMMA LifePreserved ==
    ASSUME TasksAssumption, ServicesAssumption, IInv, [Next]_vars
    PROVE  LifeInv'
<1> USE DEF IInv, LifeInv, DownMeansDone
<1>1. CASE UNCHANGED pool /\ life' = life
  BY <1>1 DEF pool, Held, Waiting, In
<1>2. CASE life' = "up"
  BY <1>2
<1>3. CASE StopChecker
  BY <1>3 DEF StopChecker, LoopFree, pool, In
<1>4. CASE ShutdownEnds
  <2>1. Held = {} /\ In({"counted"}) = {}
    BY <1>4, DrainedHoldsNone DEF ShutdownEnds
  <2> QED
    BY <1>4, <2>1 DEF ShutdownEnds, pool, Held, Waiting, In
<1>5. ASSUME life # "up", (life' # "down" \/ life = "down"),
             Held' \subseteq Held /\ In({"counted"})' \subseteq In({"counted"})
      PROVE  LifeInv'
  BY <1>5
<1>6. CASE CloseExecutor
  BY <1>5, <1>6, NoneComes DEF CloseExecutor
<1>7. CASE \E t \in Tasks : FinishSubmit(t)
  BY <1>2, <1>5, <1>7, NoneComes DEF FinishSubmit
<1>8. CASE \E w \in Workers : WorkOn(w)
  BY <1>2, <1>5, <1>8, NoneComes DEF WorkOn
<1>9. CASE \E t \in Tasks : Submit(t) \/ CancelTask(t)
  BY <1>2, <1>9 DEF Submit, CancelTask
<1>10. CASE Check \/ UNCHANGED vars
  BY <1>1, <1>10 DEF Check, StartRound, ProbeEnds, RecordProbe, ReadPending, RecordQueueStats, vars
<1>11. CASE \E s \in SetOf(Services) \ Disabled : Flip(s)
  BY <1>1, <1>11 DEF Flip
<1>12. \A s, b : RecordOutcome(s, b) => LifeInv'
  BY <1>1 DEF RecordOutcome
<1> QED
  BY <1>3, <1>4, <1>6, <1>7, <1>8, <1>9, <1>10, <1>11, <1>12
     DEF Next, Shutdown, JobOutcome, ChatOutcome

-----------------------------------------------------------------------------

THEOREM Invariant == ASSUME TasksAssumption, ServicesAssumption PROVE Spec => []IInv
<1>1. Init => IInv
  BY InitIInv
<1>2. IInv /\ [Next]_vars => IInv'
  <2> SUFFICES ASSUME IInv, [Next]_vars PROVE IInv'
    OBVIOUS
  <2>1. PoolInv'
    BY PoolStep, NextIsPoolStep DEF IInv
  <2> QED
    BY <2>1, PanelTyped, SnapshotPreserved, LifePreserved DEF IInv
<1> QED
  BY <1>1, <1>2, PTL DEF Spec

\* Counters, queue, workers, statuses and lifespan keep their types.
THEOREM TypeCorrect == ASSUME TasksAssumption, ServicesAssumption PROVE Spec => []TypeOK
<1>1. IInv => TypeOK
  BY DEF IInv, PoolInv, PanelTypeOK, TypeOK
<1> QED
  BY <1>1, Invariant, PTL

\* The counters of the status panel account for every task, whatever
\* submitters, workers, failing tasks and cancellations do in between.
THEOREM CountersAlwaysAccount ==
    ASSUME TasksAssumption, ServicesAssumption PROVE Spec => []CountersAccount
<1>1. IInv => CountersAccount
  BY DEF IInv, PoolInv
<1> QED
  BY <1>1, Invariant, PTL

\* The double read of the counters misses no task that waited or ran all the
\* time in between.
THEOREM SnapshotsMissNothing ==
    ASSUME TasksAssumption, ServicesAssumption PROVE Spec => []SnapshotMissesNothing
<1>1. IInv => SnapshotMissesNothing
  BY DEF IInv, SnapshotInv
<1> QED
  BY <1>1, Invariant, PTL

\* When the application is down, every task it accepted was run or cancelled.
THEOREM ShutdownDropsNothing ==
    ASSUME TasksAssumption, ServicesAssumption PROVE Spec => []DownMeansDone
<1>1. IInv => DownMeansDone
  BY DEF IInv, LifeInv
<1> QED
  BY <1>1, Invariant, PTL
=============================================================================
