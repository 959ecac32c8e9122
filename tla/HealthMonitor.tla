--------------------------- MODULE HealthMonitor ---------------------------
(***************************************************************************)
(* The status panel of the server: ServiceStatusStore, the HealthChecker   *)
(* task that probes every service in turn and snapshots the executor, the  *)
(* outcomes that jobs and chats record in between, and the lifespan that   *)
(* starts and stops it all (bishon_kernel/monitoring, bishon_server/app).  *)
(*                                                                         *)
(* record_probe is one step: it writes under the store's lock.  Times,     *)
(* latencies and details are left out.                                     *)
(***************************************************************************)
EXTENDS TrackedExecutor

CONSTANTS
    Services,     \* the sequence of services in ALL_PROBES
    Disabled,     \* services switched off by configuration (rerank)
    JobServices,  \* services whose outcome ingestion jobs record
    ChatService   \* the service whose outcome chats record

SetOf(seq) == {seq[i] : i \in DOMAIN seq}

ASSUME ServicesAssumption ==
    /\ Services \in Seq(SetOf(Services)) /\ Services # <<>>
    /\ Disabled \subseteq SetOf(Services)
    /\ JobServices \subseteq SetOf(Services) \ Disabled
    /\ ChatService \in SetOf(Services) \ Disabled

VARIABLES
    up,       \* service -> a probe of it would succeed
    status,   \* service -> the status the store shows
    checker,  \* the _periodic_check task: its await and the probe it is at
    seen,     \* the counters when the snapshot of the queue began
    held,     \* tasks that waited or ran at that moment
    stats,    \* the recorded snapshot
    watched,  \* tasks that waited or ran all through that snapshot
    life      \* the lifespan of the application

panel == <<status, checker, seen, held, stats, watched>>
vars  == <<pool, up, panel, life>>

Statuses == {"healthy", "unhealthy", "unknown", "disabled"}
NoCounts == [pending |-> 0, active |-> 0]
Answers  == {"none", "healthy", "unhealthy", "disabled"}

TypeOK ==
    /\ PoolTypeOK
    /\ up \in [SetOf(Services) \ Disabled -> BOOLEAN]
    /\ status \in [SetOf(Services) -> Statuses]
    /\ checker \in [await : {"none", "timer", "probe", "answer", "read1", "read2"},
                    at : 1 .. Len(Services), answer : Answers]
    /\ seen \in [pending : Nat, active : Nat] /\ stats \in [pending : Nat, active : Nat]
    /\ held \subseteq Tasks /\ watched \subseteq Tasks
    /\ life \in {"up", "stopping", "closing", "down"}

\* The task is created by the startup and has not run yet.
Init ==
    /\ PoolInit
    /\ up \in [SetOf(Services) \ Disabled -> BOOLEAN]
    /\ status = [s \in SetOf(Services) |-> "unknown"]
    /\ checker = [await |-> "timer", at |-> 1, answer |-> "none"]
    /\ seen = NoCounts /\ held = {}
    /\ stats = NoCounts /\ watched = {}
    /\ life = "up"

Held == Waiting \cup In({"running"})

\* The event loop runs one handler or task at a time: a submit or a snapshot
\* begun in one of its steps ends before the next.
LoopFree == In({"counted"}) = {} /\ checker.await \notin {"read1", "read2"}

-----------------------------------------------------------------------------
(* Services come and go; jobs, on a worker, and chats, on the event loop,  *)
(* record what became of their calls.                                      *)

Flip(s) ==
    /\ up' = [up EXCEPT ![s] = ~@]
    /\ UNCHANGED <<pool, panel, life>>

RecordOutcome(s, success) ==
    /\ status' = [status EXCEPT ![s] = IF success THEN "healthy" ELSE "unhealthy"]
    /\ UNCHANGED <<pool, up, checker, seen, held, stats, watched, life>>

JobOutcome(w, s, success) ==
    /\ worker[w] # NoTask
    /\ worker[w] \notin Cancellable
    /\ state[worker[w]] = "running"
    /\ RecordOutcome(s, success)

ChatOutcome(success) ==
    /\ life = "up"
    /\ LoopFree
    /\ RecordOutcome(ChatService, success)

-----------------------------------------------------------------------------
(* HealthChecker._periodic_check and _run_probes.  Between two awaits the  *)
(* task is one step, but for the two reads of the counters, which workers  *)
(* change in parallel.                                                     *)

CheckerAt(await, at, answer) == checker' = [await |-> await, at |-> at, answer |-> answer]

\* The first round, and one CHECK_INTERVAL_SECONDS after each round: the first
\* probe goes to the probe executor.
StartRound ==
    /\ life = "up"
    /\ LoopFree
    /\ checker.await = "timer"
    /\ CheckerAt("probe", 1, "none")
    /\ UNCHANGED <<pool, up, status, seen, held, stats, watched, life>>

\* In a probe thread; a probe that raises counts as unhealthy.
ProbeEnds ==
    /\ checker.await = "probe"
    /\ LET s == Services[checker.at] IN
          CheckerAt("answer", checker.at,
                    IF s \in Disabled THEN "disabled"
                    ELSE IF up[s] THEN "healthy" ELSE "unhealthy")
    /\ UNCHANGED <<pool, up, status, seen, held, stats, watched, life>>

NextProbe ==
    IF checker.at < Len(Services) THEN CheckerAt("probe", checker.at + 1, "none")
                                  ELSE CheckerAt("read1", 1, "none")

\* Faulty variant: an exception of a probe ends the task.
RecordProbeOrDie ==
    /\ life = "up"
    /\ LoopFree
    /\ checker.await = "answer"
    /\ status' = [status EXCEPT ![Services[checker.at]] = checker.answer]
    /\ NextProbe \/ (checker.answer = "unhealthy" /\ CheckerAt("none", 1, "none"))
    /\ UNCHANGED <<pool, up, seen, held, stats, watched, life>>

\* The answer is recorded and the next probe, or the snapshot, begun.
RecordProbe ==
    /\ life = "up"
    /\ LoopFree
    /\ checker.await = "answer"
    /\ status' = [status EXCEPT ![Services[checker.at]] = checker.answer]
    /\ NextProbe
    /\ UNCHANGED <<pool, up, seen, held, stats, watched, life>>

Counters == [pending |-> pending, active |-> active]

\* The snapshot, from the counters at the first and at the second read.
\* Faulty variant: active_count is read first.
SnapshotActiveFirst(early, late) == [pending |-> late.pending, active |-> early.active]
Snapshot(early, late) == [pending |-> early.pending, active |-> late.active]

ReadPending ==
    /\ checker.await = "read1"
    /\ seen' = Counters
    /\ held' = Held
    /\ CheckerAt("read2", 1, "none")
    /\ UNCHANGED <<pool, up, status, stats, watched, life>>

RecordQueueStats ==
    /\ checker.await = "read2"
    /\ stats' = Snapshot(seen, Counters)
    /\ watched' = held \cap Held
    /\ seen' = NoCounts /\ held' = {}
    /\ CheckerAt("timer", 1, "none")
    /\ UNCHANGED <<pool, up, status, life>>

-----------------------------------------------------------------------------
(* Requests submit tasks while the application is up; the shutdown cancels *)
(* the checker at its await, then closes the executor and waits for it.    *)

Submit(t) ==
    /\ life = "up"
    /\ LoopFree
    /\ CountPending(t)
    /\ UNCHANGED <<up, panel, life>>

FinishSubmit(t) == Enqueue(t) /\ UNCHANGED <<up, panel, life>>

CancelTask(t) == life = "up" /\ LoopFree /\ Cancel(t) /\ UNCHANGED <<up, panel, life>>

WorkOn(w) == Work(w) /\ UNCHANGED <<up, panel, life>>

\* Faulty variant: stop() waits for the task without cancelling it.
StopCheckerUncancelled ==
    /\ life = "up"
    /\ LoopFree
    /\ life' = "stopping"
    /\ UNCHANGED <<pool, up, panel>>

StopChecker ==
    /\ life = "up"
    /\ LoopFree
    /\ life' = "stopping"
    /\ CheckerAt("none", 1, "none")
    /\ UNCHANGED <<pool, up, status, seen, held, stats, watched>>

CloseExecutor ==
    /\ life = "stopping"
    /\ checker.await = "none"
    /\ Close
    /\ life' = "closing"
    /\ UNCHANGED <<up, panel>>

\* Faulty variant: executor.shutdown(wait=False).
ShutdownEndsAtOnce ==
    /\ life = "closing"
    /\ life' = "down"
    /\ UNCHANGED <<pool, up, panel>>

ShutdownEnds ==
    /\ life = "closing"
    /\ Drained
    /\ life' = "down"
    /\ UNCHANGED <<pool, up, panel>>

Check == StartRound \/ ProbeEnds \/ RecordProbe \/ ReadPending \/ RecordQueueStats

Shutdown == CloseExecutor \/ ShutdownEnds

Next ==
    \/ \E s \in SetOf(Services) \ Disabled : Flip(s)
    \/ \E w \in Workers, s \in JobServices, success \in BOOLEAN : JobOutcome(w, s, success)
    \/ \E success \in BOOLEAN : ChatOutcome(success)
    \/ Check
    \/ \E t \in Tasks : Submit(t) \/ FinishSubmit(t) \/ CancelTask(t)
    \/ \E w \in Workers : WorkOn(w)
    \/ StopChecker
    \/ Shutdown

Spec == Init /\ [][Next]_vars

\* Threads run, probes time out, timers fire and the event loop goes on.
FairSpec ==
    /\ Spec
    /\ WF_vars(Check)
    /\ WF_vars(Shutdown)
    /\ \A t \in Tasks : WF_vars(FinishSubmit(t))
    /\ \A w \in Workers : WF_vars(WorkOn(w))

-----------------------------------------------------------------------------
(* Properties.                                                             *)

\* The snapshot of the queue reads two counters at two moments: a task that
\* waited or ran all the time in between is in it, even if it moved from one
\* counter to the other, so a busy executor never looks idle.
SnapshotMissesNothing == stats.pending + stats.active >= Cardinality(watched)

\* When the application is down every accepted task was run or cancelled:
\* uploads answered with success are not dropped by the shutdown.
DownMeansDone == life = "down" => Held = {}

\* A service that stays up, or stays down, is shown so again and again, as
\* long as the application is up: no probe that fails stops the checks.
StatusFollowsService ==
    \A s \in SetOf(Services) \ Disabled :
        /\ <>[](up[s] /\ life = "up") => []<>(status[s] = "healthy")
        /\ <>[](~up[s] /\ life = "up") => []<>(status[s] = "unhealthy")

\* A shutdown that has begun ends.
ShutdownTerminates == life = "stopping" ~> life = "down"
=============================================================================
