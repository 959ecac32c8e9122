-------------------------- MODULE IngestionProofs --------------------------
(***************************************************************************)
(* For any files, uploads, deletions, workers and faults: statuses tell    *)
(* what the store holds, settled deletions are complete, no file is        *)
(* stranded and a deleted knowledge base stays empty.                      *)
(***************************************************************************)
EXTENDS Ingestion, TLAPS

\* Where a file may be on its way to the store.
LocalOf(r) == SeqRange(upload[r].local)
Queued     == UNION {SeqRange(queue[i].files) : i \in DOMAIN queue}
TodoOf(w)  == SeqRange(worker[w].todo)
FilesOf(w) == SeqRange(worker[w].files)

\* How a worker may be: idle, or with something to do, of its own job.
GoodWorker(rec) ==
    /\ rec.stage = "idle" => rec = Idle
    /\ rec.stage # "idle" => rec.todo # <<>>
    /\ SeqRange(rec.todo) \subseteq SeqRange(rec.files)

\* An upload has something to read exactly while it reads.
Shape ==
    /\ \A r \in Requests :
          /\ upload[r].phase = "reading" <=> upload[r].todo # {}
          /\ upload[r].phase # "reading" => upload[r].local = <<>>
    /\ \A w \in Workers : GoodWorker(worker[w])

\* What was recorded and not yet given up has a row.
OnItsWay(f) ==
    \/ \E r \in Requests : f \in LocalOf(r)
    \/ f \in Queued
    \/ \E w \in Workers : f \in FilesOf(w)
HeldHaveRows == \A f \in Files : OnItsWay(f) => status[f] # "none"

\* What is still to be read has none.
Unread(f) ==
    \E r \in Requests : \/ upload[r].phase = "new" /\ f \in SeqRange(BatchOf[r])
                        \/ \E i \in upload[r].todo : f = BatchOf[r][i]
UnreadHaveNone == \A f \in Files : Unread(f) => status[f] = "none"

\* No file is in two places, or in one place twice.
UploadsApart ==
    \A r \in Requests :
        /\ Distinct(upload[r].local) /\ LocalOf(r) \subseteq SeqRange(BatchOf[r])
        /\ LocalOf(r) \cap Queued = {}
        /\ \A w \in Workers : LocalOf(r) \cap FilesOf(w) = {}
QueueApart ==
    \A i \in DOMAIN queue :
        /\ Distinct(queue[i].files)
        /\ \A j \in DOMAIN queue :
              i # j => SeqRange(queue[i].files) \cap SeqRange(queue[j].files) = {}
WorkersApart ==
    \A w \in Workers :
        /\ Distinct(worker[w].files) /\ Distinct(worker[w].todo)
        /\ FilesOf(w) \cap Queued = {}
        /\ \A v \in Workers : w # v => FilesOf(w) \cap FilesOf(v) = {}
Apart == UploadsApart /\ QueueApart /\ WorkersApart

\* The handlers of a deleted knowledge base are done, or at the last commit.
KbInv ==
    /\ kb = "deleted" => loop.step \in {"idle", "fileRows"}
    /\ DeletedKbIsEmpty

Working == {"split", "embed", "insert"}
Marking == {"green", "yellow"}

\* The files of a worker no row update of this job was begun for.
Pending(w) ==
    IF worker[w].stage \in Working THEN TodoOf(w)
    ELSE IF worker[w].stage \in Marking THEN SeqRange(Tail(worker[w].todo))
    ELSE {}

\* A file nothing was inserted of yet.
Waits(f) ==
    \/ \E r \in Requests : f \in LocalOf(r)
    \/ f \in Queued
    \/ \E w \in Workers : f \in Pending(w)

Neither(f) == live[f] = "no" /\ durable[f] = "no"

\* The row of a file nothing is inserted of says so, and so does the store;
\* the row of another says what the store holds, unless it is to be deleted.
FileTold(f) ==
    /\ Waits(f) => status[f] = "gray"
    /\ (status[f] = "none" \/ Waits(f)) => Neither(f)
    /\ f \notin chosen =>
          /\ status[f] = "green" => live[f] = "all" /\ durable[f] = "all"
          /\ status[f] = "yellow" => live[f] # "all" /\ durable[f] # "all"
          /\ status[f] = "red" /\ f \notin raised => Neither(f)

\* A worker about to write a row knows what it inserted.
WorkerKnows(w) ==
    /\ worker[w].stage \in Marking =>
          LET f == Head(worker[w].todo) IN
          /\ status[f] = "gray"
          /\ f \notin chosen /\ worker[w].stage = "green" => live[f] = "all" /\ durable[f] = "all"
          /\ f \notin chosen /\ worker[w].stage = "yellow" => live[f] # "all" /\ durable[f] # "all"
    /\ worker[w].stage = "fallback" => TodoOf(w) \subseteq raised

StoreInv == (\A f \in Files : FileTold(f)) /\ (\A w \in Workers : WorkerKnows(w))

DoomedAreChosen ==
    /\ loop.step \in {"vectors", "rows", "sweep"} => loop.files \subseteq chosen
    /\ loop.step \in {"collect", "sweep", "kbRow", "fileRows"} =>
          \A f \in Files : status[f] # "none" => f \in chosen

\* A settled file has a row, and nothing of it is inserted any more.
SettledQuiet == \A f \in settled : f \in Files /\ status[f] # "none" /\ ~Waits(f)

\* How far a deletion got, and what of the settled files is left by then.
DeletionInv ==
    /\ \A f \in Files : live[f] = "no" => durable[f] = "no"
    /\ \A f \in erased \cap settled : live[f] = "no"
    /\ loop.step = "rows" => \A f \in loop.files \cap settled : live[f] = "no"
    /\ loop.step = "sweep" => \A f \in settled : live[f] # "no" => f \in loop.files
    /\ loop.step \in {"kbRow", "fileRows"} => \A f \in settled : live[f] = "no"
SettledInv == ~saveFailed => DeletionInv

IsHeld(f) ==
    \/ \E r \in Requests : f \in LocalOf(r)
    \/ f \in Queued
    \/ \E w \in Workers : f \in TodoOf(w)
GrayIsHeldOrLost == \A f \in Present : status[f] = "gray" => IsHeld(f) \/ f \in lost

-----------------------------------------------------------------------------
(* Sequences of files, and of jobs.                                        *)

LEMMA RangeIn == ASSUME NEW S, NEW s \in Seq(S) PROVE SeqRange(s) \subseteq S
  BY DEF SeqRange

LEMMA EmptyRange == SeqRange(<<>>) = {} /\ Distinct(<<>>)
  BY DEF SeqRange, Distinct

LEMMA AppendRange ==
    ASSUME NEW S, NEW s \in Seq(S), NEW e \in S
    PROVE  /\ Append(s, e) \in Seq(S)
           /\ SeqRange(Append(s, e)) = SeqRange(s) \cup {e}
           /\ Distinct(s) /\ e \notin SeqRange(s) => Distinct(Append(s, e))
  <1>1. /\ Append(s, e) \in Seq(S) /\ Len(Append(s, e)) = Len(s) + 1 /\ Len(s) \in Nat
        /\ \A i \in 1 .. Len(s) : Append(s, e)[i] = s[i]
        /\ Append(s, e)[Len(s) + 1] = e
        /\ DOMAIN s = 1 .. Len(s) /\ DOMAIN Append(s, e) = 1 .. Len(s) + 1
    OBVIOUS
  <1>2. 1 .. Len(s) + 1 = 1 .. Len(s) \cup {Len(s) + 1}
    BY <1>1
  <1>3. SeqRange(Append(s, e)) = SeqRange(s) \cup {e}
    BY <1>1, <1>2 DEF SeqRange
  <1>4. Distinct(s) /\ e \notin SeqRange(s) => Distinct(Append(s, e))
    BY <1>1, <1>2 DEF SeqRange, Distinct
  <1> QED
    BY <1>1, <1>3, <1>4

LEMMA TailRange ==
    ASSUME NEW S, NEW s \in Seq(S), s # <<>>
    PROVE  /\ Head(s) \in S /\ Tail(s) \in Seq(S)
           /\ SeqRange(s) = SeqRange(Tail(s)) \cup {Head(s)}
           /\ Distinct(s) => Distinct(Tail(s)) /\ Head(s) \notin SeqRange(Tail(s))
  <1>1. /\ Len(s) \in Nat /\ Len(s) > 0 /\ Tail(s) \in Seq(S) /\ Len(Tail(s)) = Len(s) - 1
        /\ Head(s) = s[1] /\ \A i \in 1 .. Len(s) - 1 : Tail(s)[i] = s[i + 1]
        /\ DOMAIN s = 1 .. Len(s) /\ DOMAIN Tail(s) = 1 .. Len(s) - 1
    OBVIOUS
  <1>2. \A j \in 1 .. Len(s) : j = 1 \/ (j - 1 \in 1 .. Len(s) - 1 /\ Tail(s)[j - 1] = s[j])
    BY <1>1
  <1>3. SeqRange(s) = SeqRange(Tail(s)) \cup {Head(s)}
    <2>1. ASSUME NEW e \in SeqRange(s), e # Head(s) PROVE e \in SeqRange(Tail(s))
      <3>1. PICK j \in 1 .. Len(s) : e = s[j]
        BY <1>1 DEF SeqRange
      <3>2. j - 1 \in DOMAIN Tail(s) /\ Tail(s)[j - 1] = e
        BY <1>1, <1>2, <2>1, <3>1
      <3> QED
        BY <3>2 DEF SeqRange
    <2>2. \A e \in SeqRange(Tail(s)) : e \in SeqRange(s)
      BY <1>1 DEF SeqRange
    <2> QED
      BY <1>1, <2>1, <2>2, SMTT(20) DEF SeqRange
  <1>4. Distinct(s) => Distinct(Tail(s)) /\ Head(s) \notin SeqRange(Tail(s))
    BY <1>1 DEF SeqRange, Distinct
  <1> QED
    BY <1>1, <1>3, <1>4

\* The files of the queue, when a job is handed over.
LEMMA QueueGrows ==
    ASSUME queue \in Seq(Job), NEW job \in Job, queue' = Append(queue, job)
    PROVE  /\ Queued' = Queued \cup SeqRange(job.files)
           /\ DOMAIN queue' = DOMAIN queue \cup {Len(queue) + 1}
           /\ \A i \in DOMAIN queue : queue'[i] = queue[i]
           /\ queue'[Len(queue) + 1] = job /\ Len(queue) + 1 \notin DOMAIN queue
  <1>1. /\ DOMAIN queue' = DOMAIN queue \cup {Len(queue) + 1}
        /\ \A i \in DOMAIN queue : queue'[i] = queue[i]
        /\ queue'[Len(queue) + 1] = job /\ Len(queue) + 1 \notin DOMAIN queue
    OBVIOUS
  <1>2. Queued' = Queued \cup SeqRange(job.files)
    BY <1>1 DEF Queued, SeqRange
  <1> QED
    BY <1>1, <1>2

\* And when one is taken.
LEMMA QueueShrinks ==
    ASSUME queue \in Seq(Job), queue # <<>>, queue' = Tail(queue)
    PROVE  /\ Head(queue) \in Job /\ queue' \in Seq(Job)
           /\ Queued = Queued' \cup SeqRange(Head(queue).files)
           /\ 1 \in DOMAIN queue /\ queue[1] = Head(queue)
           /\ \A i \in DOMAIN queue' : i # 0 /\ i + 1 \in DOMAIN queue /\ queue'[i] = queue[i + 1]
  <1>1. /\ Len(queue) \in Nat /\ Len(queue) > 0 /\ Len(queue') = Len(queue) - 1
        /\ Head(queue) = queue[1] /\ Head(queue) \in Job /\ queue' \in Seq(Job)
        /\ \A i \in 1 .. Len(queue) - 1 : queue'[i] = queue[i + 1]
        /\ DOMAIN queue = 1 .. Len(queue) /\ DOMAIN queue' = 1 .. Len(queue) - 1
    OBVIOUS
  <1>2. \A j \in 1 .. Len(queue) :
            j = 1 \/ (j - 1 \in 1 .. Len(queue) - 1 /\ queue'[j - 1] = queue[j])
    BY <1>1
  <1>3. Queued = Queued' \cup SeqRange(Head(queue).files)
    <2>1. \A f \in Queued : f \in SeqRange(Head(queue).files) \/ f \in Queued'
      BY <1>1, <1>2 DEF Queued
    <2>2. \A f \in Queued' : f \in Queued
      BY <1>1 DEF Queued
    <2> QED
      BY <1>1, <2>1, <2>2 DEF Queued
  <1> QED
    BY <1>1, <1>3

-----------------------------------------------------------------------------
(* Types and shapes.                                                       *)

Typed == TypeOK /\ Shape

LEMMA InitTyped == ASSUME ConstantsAssumption, Init PROVE Typed
  <1> USE DEF Init
  <1>1. upload \in [Requests -> UploadState] /\ loop \in LoopState /\ queue \in Seq(Job)
    BY DEF UploadState, LoopState, LoopIdle
  <1>2. worker \in [Workers -> WorkerState] /\ GoodWorker(Idle)
    BY EmptyRange DEF WorkerState, Idle, GoodWorker
  <1> QED
    BY <1>1, <1>2 DEF Typed, TypeOK, Shape, Amount

\* An upload goes on, or hands over its job.
LEMMA ContinueTyped ==
    ASSUME ConstantsAssumption, Typed, NEW r \in Requests,
           NEW todo \in SUBSET DOMAIN BatchOf[r], NEW local \in Seq(Files),
           Continue(r, todo, local)
    PROVE  /\ upload' \in [Requests -> UploadState] /\ queue' \in Seq(Job)
           /\ \A q \in Requests :
                 /\ upload'[q].todo \subseteq DOMAIN BatchOf[q]
                 /\ upload'[q].phase = "reading" <=> upload'[q].todo # {}
                 /\ upload'[q].phase # "reading" => upload'[q].local = <<>>
  <1>1. todo \in SUBSET Nat
    BY DEF ConstantsAssumption
  <1>2. UploadDone \in UploadState /\ UploadDone.todo = {} /\ UploadDone.local = <<>>
        /\ UploadDone.phase = "done"
    BY DEF UploadDone, UploadState
  <1>3. CASE todo = {}
    <2>1. upload' = [upload EXCEPT ![r] = UploadDone]
          /\ queue' = Append(queue, [files |-> local, safe |-> TRUE])
      BY <1>3 DEF Continue
    <2>2. [files |-> local, safe |-> TRUE] \in Job
      BY DEF Job
    <2> QED
      BY <1>2, <2>1, <2>2 DEF Typed, TypeOK, Shape
  <1>4. CASE todo # {}
    <2> DEFINE u == [phase |-> "reading", todo |-> todo, local |-> local]
    <2>1. upload' = [upload EXCEPT ![r] = u] /\ queue' = queue
      BY <1>4 DEF Continue
    <2>2. u \in UploadState /\ u.todo = todo /\ u.phase = "reading"
      BY <1>1 DEF UploadState
    <2> HIDE DEF u
    <2> QED
      BY <1>4, <2>1, <2>2 DEF Typed, TypeOK, Shape
  <1> QED
    BY <1>3, <1>4

\* A worker that looks at the next of its files.
LEMMA AtTyped ==
    ASSUME NEW todo \in Seq(Files), NEW files \in Seq(Files), NEW safe \in BOOLEAN,
           SeqRange(todo) \subseteq SeqRange(files)
    PROVE  /\ At(todo, files, safe) \in WorkerState
           /\ At(todo, files, safe).todo = todo
           /\ At(todo, files, safe).stage = "idle" <=> todo = <<>>
           /\ At(todo, files, safe).stage = "idle" => At(todo, files, safe) = Idle
           /\ At(todo, files, safe).stage # "idle" =>
                 At(todo, files, safe) = [stage |-> "split", todo |-> todo, files |-> files, safe |-> safe]
           /\ SeqRange(At(todo, files, safe).todo) \subseteq SeqRange(At(todo, files, safe).files)
  BY DEF At, Idle, WorkerState

\* Only worker w is somewhere else, in a good state.
Becomes(w, rec) ==
    /\ worker' = [worker EXCEPT ![w] = rec]
    /\ rec \in WorkerState /\ GoodWorker(rec)

\* What a worker holds after it took a job.
Taken == At(Head(queue).files, Head(queue).files, Head(queue).safe)

LEMMA TakeJobTyped ==
    ASSUME Typed, NEW w \in Workers, TakeJob(w)
    PROVE  /\ Becomes(w, Taken) /\ queue' \in Seq(Job)
           /\ queue # <<>> /\ queue' = Tail(queue) /\ Head(queue) \in Job
  <1>1. /\ queue # <<>> /\ queue' = Tail(queue)
        /\ worker' = [worker EXCEPT ![w] = Taken]
    BY DEF TakeJob, Taken
  <1>2. Head(queue) \in Job /\ queue' \in Seq(Job)
    BY <1>1, QueueShrinks DEF Typed, TypeOK
  <1>3. Taken \in WorkerState /\ GoodWorker(Taken)
    BY <1>2, AtTyped DEF Taken, Job, GoodWorker
  <1> QED
    BY <1>1, <1>2, <1>3 DEF Becomes

\* The facts on the current file of a worker that is not idle.
LEMMA CurrentFile ==
    ASSUME Typed, NEW w \in Workers, worker[w].stage # "idle"
    PROVE  /\ worker[w] \in WorkerState
           /\ worker[w].todo \in Seq(Files) /\ worker[w].todo # <<>>
           /\ worker[w].files \in Seq(Files)
           /\ Head(worker[w].todo) \in Files /\ Tail(worker[w].todo) \in Seq(Files)
           /\ TodoOf(w) = SeqRange(Tail(worker[w].todo)) \cup {Head(worker[w].todo)}
           /\ TodoOf(w) \subseteq FilesOf(w)
  <1>1. /\ worker[w] \in WorkerState /\ GoodWorker(worker[w])
        /\ worker[w].todo \in Seq(Files) /\ worker[w].files \in Seq(Files)
    BY DEF Typed, TypeOK, Shape, WorkerState
  <1>2. worker[w].todo # <<>>
    BY <1>1 DEF GoodWorker
  <1> QED
    BY <1>1, <1>2, TailRange DEF GoodWorker, TodoOf, FilesOf

LEMMA NextFileTyped ==
    ASSUME Typed, NEW w \in Workers, worker[w].stage # "idle", NextFile(w)
    PROVE  Becomes(w, At(Tail(worker[w].todo), worker[w].files, worker[w].safe))
  <1>1. SeqRange(Tail(worker[w].todo)) \subseteq SeqRange(worker[w].files)
    BY CurrentFile DEF TodoOf, FilesOf
  <1>2. worker[w].safe \in BOOLEAN
    BY CurrentFile DEF WorkerState
  <1> DEFINE rec == At(Tail(worker[w].todo), worker[w].files, worker[w].safe)
  <1>3. worker' = [worker EXCEPT ![w] = rec]
    BY DEF NextFile, Typed, TypeOK
  <1>4. Tail(worker[w].todo) \in Seq(Files) /\ worker[w].files \in Seq(Files)
    BY CurrentFile
  <1>5. rec \in WorkerState /\ GoodWorker(rec)
    BY <1>1, <1>2, <1>4, AtTyped, ZenonT(60) DEF GoodWorker
  <1> QED
    BY <1>3, <1>5 DEF Becomes

LEMMA StageTyped ==
    ASSUME Typed, NEW w \in Workers, worker[w].stage # "idle",
           NEW s \in {"split", "embed", "insert", "green", "yellow", "fallback"}, Stage(w, s)
    PROVE  Becomes(w, [worker[w] EXCEPT !.stage = s])
  BY CurrentFile DEF Stage, Becomes, GoodWorker, Typed, TypeOK, WorkerState, TodoOf, FilesOf

\* What the fallback of a job begins with, and goes on with.
Fallback(w) == [worker[w] EXCEPT !.stage = "fallback", !.todo = worker[w].files]
FallbackNext(w) ==
    LET rest == Tail(worker[w].todo) IN
    IF rest = <<>> THEN Idle ELSE [worker[w] EXCEPT !.todo = rest]

LEMMA IdleTyped == Idle \in WorkerState /\ GoodWorker(Idle)
  BY EmptyRange DEF Idle, WorkerState, GoodWorker

LEMMA JobRaisesTyped ==
    ASSUME Typed, NEW w \in Workers, JobRaises(w)
    PROVE  Becomes(w, IF worker[w].safe THEN Fallback(w) ELSE Idle)
  <1>1. worker[w].stage # "idle"
    BY DEF JobRaises
  <1>2. worker[w].files # <<>>
    BY <1>1, CurrentFile, EmptyRange DEF TodoOf, FilesOf
  <1>3. Fallback(w) \in WorkerState /\ GoodWorker(Fallback(w))
    BY <1>1, <1>2, CurrentFile DEF Fallback, WorkerState, GoodWorker
  <1> QED
    BY <1>3, IdleTyped DEF JobRaises, Becomes, Fallback, Typed, TypeOK

LEMMA NextFallbackTyped ==
    ASSUME Typed, NEW w \in Workers, worker[w].stage = "fallback", NextFallback(w)
    PROVE  Becomes(w, FallbackNext(w))
  <1>1. worker' = [worker EXCEPT ![w] = FallbackNext(w)]
    BY DEF NextFallback, FallbackNext, Typed, TypeOK
  <1>2. CASE Tail(worker[w].todo) = <<>>
    BY <1>1, <1>2, IdleTyped DEF FallbackNext, Becomes
  <1>3. CASE Tail(worker[w].todo) # <<>>
    <2> DEFINE rec == [worker[w] EXCEPT !.todo = Tail(worker[w].todo)]
    <2>1. rec \in WorkerState /\ GoodWorker(rec)
      BY <1>3, CurrentFile DEF WorkerState, GoodWorker, TodoOf, FilesOf
    <2>2. FallbackNext(w) = rec
      BY <1>3 DEF FallbackNext
    <2> HIDE DEF rec
    <2> QED
      BY <1>1, <2>1, <2>2 DEF Becomes
  <1> QED
    BY <1>2, <1>3

-----------------------------------------------------------------------------
(* The steps, sorted by what they leave alone.                             *)

\* Requests about knowledge bases, and deletions.
Admin ==
    \/ NewKnowledgeBase
    \/ \E files \in DeleteLists : DeleteDocs(files)
    \/ \E s \in Statuses : CleanFilesByStatus(s)
    \/ DeleteKnowledgeBase
    \/ Delete

LEMMA AdminKeeps ==
    ASSUME Admin
    PROVE  UNCHANGED <<status, upload, queue, worker, raised, lost, crashes>>
  BY DEF Admin, NewKnowledgeBase, DeleteDocs, CleanFilesByStatus, DeleteKnowledgeBase, Begin,
         Delete, DeleteVectors, SweepPartition, RemoveVectors, DeleteRaises, DeleteRows,
         CollectPartition, MarkKbRow, MarkFileRows, rows, aux

LEMMA WorkKeeps ==
    ASSUME NEW w \in Workers, Work(w)
    PROVE  UNCHANGED <<kb, erased, upload, loop, chosen, settled, crashes>>
  BY DEF Work, TakeJob, Advance, MarkRed, InsertSucceeds, InsertFails, MarkStored, JobRaises,
         FallbackRed, FallbackFails, rows, aux

\* How a step of a worker ends.
LEMMA WorkTyped ==
    ASSUME Typed, NEW w \in Workers, Work(w)
    PROVE  /\ Becomes(w, worker'[w])
           /\ TakeJob(w) \/ (queue' = queue /\ worker[w].stage # "idle")
           /\ queue' \in Seq(Job)
  <1>1. CASE TakeJob(w)
    BY <1>1, TakeJobTyped DEF Becomes, Typed, TypeOK
  <1>2. CASE Advance(w) \/ InsertSucceeds(w) \/ InsertFails(w)
    <2>1. PICK s \in {"split", "embed", "insert", "green", "yellow", "fallback"} : Stage(w, s)
      BY <1>2 DEF Advance, InsertSucceeds, InsertFails
    <2>2. worker[w].stage # "idle" /\ queue' = queue
      BY <1>2 DEF Advance, InsertSucceeds, InsertFails
    <2> QED
      BY <2>1, <2>2, StageTyped DEF Becomes, Typed, TypeOK
  <1>3. CASE MarkRed(w) \/ MarkStored(w)
    <2>1. worker[w].stage # "idle" /\ queue' = queue /\ NextFile(w)
      BY <1>3 DEF MarkRed, MarkStored
    <2> QED
      BY <2>1, NextFileTyped DEF Becomes, Typed, TypeOK
  <1>4. CASE JobRaises(w)
    <2>1. worker[w].stage # "idle" /\ queue' = queue
      BY <1>4 DEF JobRaises
    <2> QED
      BY <1>4, <2>1, JobRaisesTyped DEF Becomes, Typed, TypeOK
  <1>5. CASE FallbackRed(w) \/ FallbackFails(w)
    <2>1. worker[w].stage = "fallback" /\ queue' = queue /\ NextFallback(w)
      BY <1>5 DEF FallbackRed, FallbackFails
    <2> QED
      BY <2>1, NextFallbackTyped DEF Becomes, Typed, TypeOK
  <1> QED
    BY <1>1, <1>2, <1>3, <1>4, <1>5 DEF Work

\* What a worker writes: the row and the store of its current file.
LEMMA WorkWrites ==
    ASSUME Typed, NEW w \in Workers, Work(w)
    PROVE  /\ status' \in [Files -> Statuses \cup {"none"}]
           /\ live' \in [Files -> Amount] /\ durable' \in [Files -> Amount]
           /\ raised' \subseteq Files /\ lost' \subseteq Files /\ saveFailed' \in BOOLEAN
           /\ \A f \in Files : status'[f] # status[f] =>
                 worker[w].stage # "idle" /\ f = Head(worker[w].todo) /\ status'[f] # "none"
  <1> USE DEF Typed, TypeOK, Statuses, Amount
  <1>1. CASE TakeJob(w) \/ Advance(w)
    BY <1>1 DEF TakeJob, Advance, rows, store, aux
  <1>2. CASE MarkRed(w) \/ MarkStored(w) \/ FallbackRed(w)
    BY <1>2, CurrentFile DEF MarkRed, MarkStored, FallbackRed, store, aux
  <1>3. CASE InsertSucceeds(w) \/ InsertFails(w)
    BY <1>3, CurrentFile, ZenonT(60) DEF InsertSucceeds, InsertFails, Grown, rows, aux
  <1>4. CASE JobRaises(w)
    <2>1. worker[w].stage # "idle" /\ UNCHANGED <<status, durable>>
      BY <1>4 DEF JobRaises, rows
    <2>2. TodoOf(w) \subseteq Files /\ FilesOf(w) \subseteq Files
      BY <2>1, CurrentFile, RangeIn DEF TodoOf, FilesOf
    <2>3. live' \in [Files -> Amount]
      BY <1>4 DEF JobRaises, Grown
    <2> QED
      BY <1>4, <2>1, <2>2, <2>3 DEF JobRaises, TodoOf, FilesOf
  <1>5. CASE FallbackFails(w)
    BY <1>5, CurrentFile DEF FallbackFails, rows, store
  <1> QED
    BY <1>1, <1>2, <1>3, <1>4, <1>5 DEF Work

LEMMA CrashKeeps ==
    ASSUME ConstantsAssumption, Typed, Crash
    PROVE  /\ UNCHANGED <<kb, status, erased, durable, chosen, settled, raised, saveFailed>>
           /\ queue' = <<>> /\ loop' = LoopIdle /\ live' = durable
           /\ \A w \in Workers : worker'[w] = Idle
           /\ \A r \in Requests : upload'[r].todo = {} /\ upload'[r].local = <<>>
           /\ \A r \in Requests : upload'[r].phase # "reading"
           /\ \A r \in Requests : upload'[r].phase = "new" => upload[r].phase = "new"
  BY DEF Crash, UploadDone, Typed, Shape, rows

LEMMA ContinueMoves ==
    ASSUME Typed, NEW r \in Requests, NEW todo, NEW local \in Seq(Files), Continue(r, todo, local)
    PROVE  /\ \A q \in Requests : q # r => upload'[q] = upload[q]
           /\ upload'[r].todo = todo /\ upload'[r].phase # "new"
           /\ \/ /\ upload'[r] = UploadDone
                 /\ queue' = Append(queue, [files |-> local, safe |-> TRUE])
                 /\ Queued' = Queued \cup SeqRange(local)
              \/ /\ upload'[r] = [phase |-> "reading", todo |-> todo, local |-> local]
                 /\ queue' = queue
  <1>1. CASE todo = {}
    <2> DEFINE job == [files |-> local, safe |-> TRUE]
    <2>1. job \in Job /\ job.files = local
      BY DEF Job
    <2>2. upload' = [upload EXCEPT ![r] = UploadDone] /\ queue' = Append(queue, job)
      BY <1>1 DEF Continue
    <2> HIDE DEF job
    <2>3. Queued' = Queued \cup SeqRange(local)
      BY <2>1, <2>2, QueueGrows DEF Typed, TypeOK
    <2> QED
      BY <1>1, <2>2, <2>3 DEF Typed, TypeOK, UploadDone, job
  <1>2. CASE todo # {}
    BY <1>2 DEF Continue, Typed, TypeOK
  <1> QED
    BY <1>1, <1>2

\* A file was read and recorded.
LEMMA RecordMoves ==
    ASSUME ConstantsAssumption, Typed, NEW r \in Requests, Record(r)
    PROVE  \E i \in upload[r].todo :
              /\ i \in DOMAIN BatchOf[r] /\ BatchOf[r][i] \in Files
              /\ BatchOf[r][i] \in SeqRange(BatchOf[r])
              /\ status' = [status EXCEPT ![BatchOf[r][i]] = "gray"]
              /\ Append(upload[r].local, BatchOf[r][i]) \in Seq(Files)
              /\ SeqRange(Append(upload[r].local, BatchOf[r][i])) = LocalOf(r) \cup {BatchOf[r][i]}
              /\ Continue(r, upload[r].todo \ {i}, Append(upload[r].local, BatchOf[r][i]))
  <1>1. PICK i \in upload[r].todo :
           /\ status' = [status EXCEPT ![BatchOf[r][i]] = "gray"]
           /\ Continue(r, upload[r].todo \ {i}, Append(upload[r].local, BatchOf[r][i]))
    BY DEF Record
  <1>2. i \in DOMAIN BatchOf[r] /\ BatchOf[r][i] \in Files
    BY DEF Typed, TypeOK, ConstantsAssumption
  <1>3. BatchOf[r][i] \in SeqRange(BatchOf[r])
    BY <1>2 DEF SeqRange
  <1>4. upload[r].local \in Seq(Files)
    BY DEF Typed, TypeOK, UploadState
  <1>5. /\ Append(upload[r].local, BatchOf[r][i]) \in Seq(Files)
        /\ SeqRange(Append(upload[r].local, BatchOf[r][i])) = LocalOf(r) \cup {BatchOf[r][i]}
    BY <1>2, <1>4, AppendRange DEF LocalOf
  <1> QED
    BY <1>1, <1>2, <1>3, <1>5

\* Everything in flight is a file.
LEMMA InFlightIn ==
    ASSUME ConstantsAssumption, Typed
    PROVE  /\ \A r \in Requests : /\ LocalOf(r) \subseteq Files
                                  /\ \A i \in upload[r].todo : BatchOf[r][i] \in Files
           /\ Queued \subseteq Files
           /\ \A w \in Workers : TodoOf(w) \subseteq FilesOf(w) /\ FilesOf(w) \subseteq Files
  <1> USE DEF Typed, TypeOK
  <1>1. \A r \in Requests : LocalOf(r) \subseteq Files
    BY RangeIn DEF LocalOf, UploadState
  <1>2. \A r \in Requests : \A i \in upload[r].todo : BatchOf[r][i] \in Files
    BY DEF ConstantsAssumption
  <1>3. ASSUME NEW i \in DOMAIN queue PROVE SeqRange(queue[i].files) \subseteq Files
    <2>1. queue[i] \in Job
      OBVIOUS
    <2>2. queue[i].files \in Seq(Files)
      BY <2>1 DEF Job
    <2> QED
      BY <2>2, RangeIn
  <1>4. Queued \subseteq Files
    BY <1>3 DEF Queued
  <1>5. \A w \in Workers : TodoOf(w) \subseteq FilesOf(w) /\ FilesOf(w) \subseteq Files
    BY RangeIn, ZenonT(60) DEF TodoOf, FilesOf, WorkerState, Shape, GoodWorker
  <1> QED
    BY <1>1, <1>2, <1>4, <1>5

LEMMA InFlightParts ==
    ASSUME NEW f
    PROVE  f \in InFlight <=>
              \/ \E r \in Requests : f \in LocalOf(r) \/ \E i \in upload[r].todo : f = BatchOf[r][i]
              \/ f \in Queued
              \/ \E w \in Workers : f \in TodoOf(w)
  <1> DEFINE Reads == UNION {{BatchOf[r][i] : i \in upload[r].todo} \cup LocalOf(r) : r \in Requests}
             Works == UNION {TodoOf(w) : w \in Workers}
  <1>1. InFlight = Reads \cup Queued \cup Works
    BY DEF InFlight, LocalOf, Queued, TodoOf
  <1>2. f \in Reads <=> \E r \in Requests : f \in LocalOf(r) \/ \E i \in upload[r].todo : f = BatchOf[r][i]
    OBVIOUS
  <1>3. f \in Works <=> \E w \in Workers : f \in TodoOf(w)
    OBVIOUS
  <1> HIDE DEF Reads, Works
  <1> QED
    BY <1>1, <1>2, <1>3

LEMMA TypedStays ==
    ASSUME ConstantsAssumption, Typed, [Next]_vars
    PROVE  Typed'
  <1> USE DEF Typed
  <1>1. ASSUME NEW r \in Requests, BeginUpload(r) PROVE Typed'
    <2>1. PICK fresh \in SUBSET DOMAIN BatchOf[r] : Continue(r, fresh, <<>>)
      BY <1>1 DEF BeginUpload
    <2>2. UNCHANGED <<rows, store, loop, worker, aux>>
      BY <1>1 DEF BeginUpload
    <2>3. <<>> \in Seq(Files)
      OBVIOUS
    <2>4. Shape' /\ upload' \in [Requests -> UploadState] /\ queue' \in Seq(Job)
          /\ \A q \in Requests : upload'[q].todo \subseteq DOMAIN BatchOf[q]
      BY <2>1, <2>2, <2>3, ContinueTyped DEF Shape
    <2> QED
      BY <2>2, <2>4 DEF TypeOK, rows, store, aux
  <1>2. ASSUME NEW r \in Requests, RecordFile(r) PROVE Typed'
    <2>1. PICK i \in upload[r].todo :
              /\ BatchOf[r][i] \in Files
              /\ status' = [status EXCEPT ![BatchOf[r][i]] = "gray"]
              /\ Append(upload[r].local, BatchOf[r][i]) \in Seq(Files)
              /\ Continue(r, upload[r].todo \ {i}, Append(upload[r].local, BatchOf[r][i]))
      BY <1>2, RecordMoves DEF RecordFile
    <2>2. upload[r].todo \ {i} \in SUBSET DOMAIN BatchOf[r]
      BY DEF TypeOK
    <2>3. UNCHANGED <<kb, erased, store, loop, worker, aux>>
      BY <1>2 DEF RecordFile
    <2>4. status' \in [Files -> Statuses \cup {"none"}]
      BY <2>1 DEF TypeOK, Statuses
    <2>5. Shape' /\ upload' \in [Requests -> UploadState] /\ queue' \in Seq(Job)
          /\ \A q \in Requests : upload'[q].todo \subseteq DOMAIN BatchOf[q]
      BY <2>1, <2>2, <2>3, ContinueTyped DEF Shape
    <2> QED
      BY <2>3, <2>4, <2>5 DEF TypeOK, store, aux
  <1>3. ASSUME NEW r \in Requests, UploadFails(r) PROVE Typed'
    <2>1. /\ status' \in [Files -> Statuses \cup {"none"}] /\ lost' \subseteq Files
          /\ upload' = [upload EXCEPT ![r] = UploadDone]
      <3>1. LocalOf(r) \subseteq Files /\ \A i \in upload[r].todo : BatchOf[r][i] \in Files
        BY InFlightIn
      <3>2. lost' = lost \cup LocalOf(r) \/ \E i \in upload[r].todo : lost' = lost \cup LocalOf(r) \cup {BatchOf[r][i]}
        BY <1>3 DEF UploadFails, LocalOf
      <3>3. status' = status \/ \E i \in upload[r].todo : status' = [status EXCEPT ![BatchOf[r][i]] = "gray"]
        BY <1>3 DEF UploadFails
      <3>4. upload' = [upload EXCEPT ![r] = UploadDone]
        BY <1>3 DEF UploadFails
      <3>5. status' \in [Files -> Statuses \cup {"none"}]
        BY <3>1, <3>3 DEF TypeOK, Statuses
      <3>6. lost' \subseteq Files
        BY <3>1, <3>2 DEF TypeOK
      <3> QED
        BY <3>4, <3>5, <3>6
    <2>2. UploadDone \in UploadState /\ UploadDone.todo = {} /\ UploadDone.local = <<>>
          /\ UploadDone.phase = "done"
      BY DEF UploadDone, UploadState
    <2>3. UNCHANGED <<kb, erased, store, loop, queue, worker, chosen, settled, raised,
                      saveFailed, crashes>>
      BY <1>3 DEF UploadFails
    <2> QED
      BY <2>1, <2>2, <2>3 DEF TypeOK, Shape, store
  <1>4. ASSUME NEW f \in Weblinks, UploadWeblink(f) PROVE Typed'
    <2>1. f \in Files /\ [files |-> <<f>>, safe |-> FALSE] \in Job
      BY DEF ConstantsAssumption, Job
    <2>2. queue' \in Seq(Job)
      BY <1>4, <2>1 DEF UploadWeblink, TypeOK
    <2> QED
      BY <1>4, <2>1, <2>2 DEF UploadWeblink, TypeOK, Shape, Statuses, store, aux
  <1>5. CASE Admin
    <2>1. ASSUME NEW step, NEW files \in SUBSET Files, NEW doomed \in SUBSET Files,
                 step \in {"vectors", "collect"}, Begin(step, files, doomed)
          PROVE  Typed'
      BY <2>1 DEF Begin, TypeOK, Shape, LoopState, rows, store
    <2>2. ASSUME NEW files \in DeleteLists, DeleteDocs(files) PROVE Typed'
      BY <2>1, <2>2 DEF DeleteDocs, ConstantsAssumption
    <2>3. ASSUME NEW s, CleanFilesByStatus(s) PROVE Typed'
      BY <2>1, <2>3 DEF CleanFilesByStatus, Present
    <2>4. CASE DeleteKnowledgeBase
      BY <2>1, <2>4 DEF DeleteKnowledgeBase
    <2>5. CASE NewKnowledgeBase
      BY <2>5 DEF NewKnowledgeBase, TypeOK, Shape, store, aux
    <2>6. ASSUME NEW next \in {"rows", "kbRow"}, RemoveVectors(next) PROVE Typed'
      <3>1. live' \in [Files -> Amount] /\ durable' \in [Files -> Amount]
        BY <2>6 DEF RemoveVectors, Forget, TypeOK, Amount
      <3>2. loop' \in LoopState
        BY <2>6 DEF RemoveVectors, TypeOK, LoopState
      <3> QED
        BY <2>6, <3>1, <3>2 DEF RemoveVectors, TypeOK, Shape, rows, aux
    <2>7. CASE DeleteVectors \/ SweepPartition
      BY <2>6, <2>7 DEF DeleteVectors, SweepPartition
    <2>8. CASE DeleteRaises
      BY <2>8 DEF DeleteRaises, Forget, TypeOK, Shape, Amount, LoopIdle, LoopState, rows
    <2>9. CASE DeleteRows \/ CollectPartition \/ MarkKbRow \/ MarkFileRows
      BY <2>9, SMTT(20) DEF DeleteRows, CollectPartition, MarkKbRow, MarkFileRows, TypeOK, Shape,
                  LoopIdle, LoopState, rows, store, aux
    <2> QED
      BY <1>5, <2>2, <2>3, <2>4, <2>5, <2>7, <2>8, <2>9 DEF Admin, Delete
  <1>6. ASSUME NEW w \in Workers, Work(w) PROVE Typed'
    <2>1. worker' \in [Workers -> WorkerState] /\ \A v \in Workers : GoodWorker(worker'[v])
      BY <1>6, WorkTyped DEF Becomes, TypeOK, Shape
    <2>2. queue' \in Seq(Job)
      BY <1>6, WorkTyped
    <2> QED
      BY <1>6, <2>1, <2>2, WorkWrites, WorkKeeps DEF TypeOK, Shape
  <1>7. CASE Crash
    <2>1. upload' \in [Requests -> UploadState]
      BY <1>7 DEF Crash, TypeOK, UploadDone, UploadState
    <2>2. worker' \in [Workers -> WorkerState] /\ \A w \in Workers : GoodWorker(worker'[w])
      BY <1>7, IdleTyped DEF Crash
    <2>3. InFlight \subseteq Files
      BY InFlightIn, InFlightParts
    <2>4. crashes' \in Nat /\ lost' \subseteq Files
      BY <1>7, <2>3 DEF Crash, TypeOK
    <2>5. loop' \in LoopState /\ queue' \in Seq(Job)
      BY <1>7 DEF Crash, LoopIdle, LoopState
    <2>6. /\ UNCHANGED <<rows, durable, chosen, settled, raised, saveFailed>> /\ live' = durable
          /\ \A r \in Requests : /\ upload'[r].todo = {} /\ upload'[r].local = <<>>
                                  /\ upload'[r].phase # "reading"
      BY <1>7 DEF Crash, UploadDone, Shape, rows
    <2>7. Shape'
      BY <2>2, <2>6 DEF Shape
    <2> QED
      BY <2>1, <2>2, <2>4, <2>5, <2>6, <2>7 DEF TypeOK, rows
  <1>8. CASE UNCHANGED vars
    BY <1>8 DEF vars, rows, store, aux, TypeOK, Shape
  <1> QED
    BY <1>1, <1>2, <1>3, <1>4, <1>5, <1>6, <1>7, <1>8 DEF Next, Handle, Admin

-----------------------------------------------------------------------------
(* Where files go.                                                         *)

\* A worker's step takes a job, or goes on with the files it has.
LEMMA WorkMoves ==
    ASSUME ConstantsAssumption, Typed, NEW w \in Workers, Work(w)
    PROVE  /\ \A v \in Workers : v # w => worker'[v] = worker[v]
           /\ \A r \in Requests : LocalOf(r)' = LocalOf(r)
           /\ \/ /\ queue # <<>> /\ queue' = Tail(queue)
                 /\ Queued = Queued' \cup SeqRange(Head(queue).files)
                 /\ FilesOf(w)' = SeqRange(Head(queue).files)
                 /\ TodoOf(w)' = FilesOf(w)' /\ TodoOf(w) = {}
              \/ /\ queue' = queue /\ Queued' = Queued
                 /\ TodoOf(w)' \subseteq FilesOf(w)' /\ FilesOf(w)' \subseteq FilesOf(w)
                 /\ \A f \in TodoOf(w) : f \in TodoOf(w)' \/ f \in lost' \/ status'[f] # "gray"
  <1>1. \A v \in Workers : v # w => worker'[v] = worker[v]
    BY WorkTyped DEF Becomes, Typed, TypeOK
  <1>2. \A r \in Requests : LocalOf(r)' = LocalOf(r)
    BY WorkKeeps DEF LocalOf
  <1>3. CASE TakeJob(w)
    <2>1. /\ worker'[w] = Taken /\ queue # <<>> /\ queue' = Tail(queue)
          /\ Head(queue) \in Job
      BY <1>3, TakeJobTyped DEF Becomes, Typed, TypeOK
    <2>2. worker[w].stage = "idle"
      BY <1>3 DEF TakeJob
    <2>3. Taken.files = Head(queue).files /\ Taken.todo = Head(queue).files
      BY <2>1 DEF Taken, At, Idle
    <2>4. TodoOf(w) = {}
      BY <2>2, EmptyRange DEF Typed, Shape, GoodWorker, Idle, TodoOf
    <2>5. Queued = Queued' \cup SeqRange(Head(queue).files)
      BY <2>1, QueueShrinks DEF Typed, TypeOK
    <2> QED
      BY <1>1, <1>2, <2>1, <2>3, <2>4, <2>5 DEF TodoOf, FilesOf
  <1>4. CASE queue' = queue /\ worker[w].stage # "idle"
    <2>1. Queued' = Queued
      BY <1>4 DEF Queued
    <2>2. TodoOf(w)' \subseteq FilesOf(w)'
      BY WorkTyped DEF Becomes, GoodWorker, TodoOf, FilesOf
    <2> DEFINE rest == Tail(worker[w].todo)
    <2>3. /\ rest \in Seq(Files) /\ worker[w].files \in Seq(Files) /\ worker[w].safe \in BOOLEAN
          /\ TodoOf(w) = SeqRange(rest) \cup {Head(worker[w].todo)}
          /\ TodoOf(w) \subseteq FilesOf(w) /\ worker[w].todo # <<>>
          /\ worker[w] \in WorkerState /\ Head(worker[w].todo) \in Files
      BY <1>4, CurrentFile DEF WorkerState
    <2>4. ASSUME worker'[w] = At(rest, worker[w].files, worker[w].safe)
          PROVE  TodoOf(w)' = SeqRange(rest) /\ FilesOf(w)' \subseteq FilesOf(w)
      <3>1. CASE rest = <<>>
        <4>1. worker'[w].todo = <<>> /\ worker'[w].files = <<>>
          BY <2>4, <3>1 DEF At, Idle
        <4> QED
          BY <3>1, <4>1, EmptyRange DEF TodoOf, FilesOf
      <3>2. CASE rest # <<>>
        BY <2>4, <3>2 DEF At, TodoOf, FilesOf
      <3> QED
        BY <3>1, <3>2
    <2>5. CASE Advance(w) \/ InsertSucceeds(w) \/ InsertFails(w)
      <3>1. PICK s : Stage(w, s)
        BY <2>5 DEF Advance, InsertSucceeds, InsertFails
      <3>2. worker'[w] = [worker[w] EXCEPT !.stage = s]
        BY <3>1 DEF Stage, Typed, TypeOK
      <3>3. worker'[w].todo = worker[w].todo /\ worker'[w].files = worker[w].files
        BY <2>3, <3>2 DEF WorkerState
      <3> QED
        BY <1>1, <1>2, <1>4, <2>1, <2>2, <3>3 DEF TodoOf, FilesOf
    <2>6. CASE MarkRed(w) \/ MarkStored(w)
      <3>1. NextFile(w) /\ status'[Head(worker[w].todo)] # "gray"
        BY <2>3, <2>6 DEF MarkRed, MarkStored, Typed, TypeOK
      <3>2. worker'[w] = At(rest, worker[w].files, worker[w].safe)
        BY <3>1 DEF NextFile, Typed, TypeOK
      <3> QED
        BY <1>1, <1>2, <1>4, <2>1, <2>2, <2>3, <2>4, <3>1, <3>2
    <2>7. CASE JobRaises(w) /\ worker[w].safe
      <3>1. worker'[w] = [worker[w] EXCEPT !.stage = "fallback", !.todo = worker[w].files]
        BY <2>7 DEF JobRaises, Typed, TypeOK
      <3>2. worker'[w].todo = worker[w].files /\ worker'[w].files = worker[w].files
        BY <2>3, <3>1 DEF WorkerState
      <3> QED
        BY <1>1, <1>2, <1>4, <2>1, <2>2, <2>3, <3>2 DEF TodoOf, FilesOf
    <2>8. CASE JobRaises(w) /\ ~worker[w].safe
      <3>1. worker'[w] = Idle /\ lost' = lost \cup TodoOf(w)
        BY <2>8 DEF JobRaises, Typed, TypeOK, TodoOf
      <3>2. TodoOf(w)' = {} /\ FilesOf(w)' = {}
        BY <3>1, EmptyRange DEF Idle, TodoOf, FilesOf
      <3> QED
        BY <1>1, <1>2, <1>4, <2>1, <2>2, <3>1, <3>2
    <2>9. CASE FallbackRed(w) \/ FallbackFails(w)
      <3>1. /\ NextFallback(w)
            /\ status'[Head(worker[w].todo)] # "gray" \/ Head(worker[w].todo) \in lost'
        BY <2>3, <2>9 DEF FallbackRed, FallbackFails, Typed, TypeOK
      <3>2. worker'[w] = IF rest = <<>> THEN Idle ELSE [worker[w] EXCEPT !.todo = rest]
        BY <3>1 DEF NextFallback, Typed, TypeOK
      <3>3. TodoOf(w)' = SeqRange(rest) /\ FilesOf(w)' \subseteq FilesOf(w)
        <4>1. CASE rest = <<>>
          <5>1. worker'[w].todo = <<>> /\ worker'[w].files = <<>>
            BY <3>2, <4>1 DEF Idle
          <5> QED
            BY <4>1, <5>1, EmptyRange DEF TodoOf, FilesOf
        <4>2. CASE rest # <<>>
          <5>1. worker'[w].todo = rest /\ worker'[w].files = worker[w].files
            BY <2>3, <3>2, <4>2 DEF WorkerState
          <5> QED
            BY <5>1 DEF TodoOf, FilesOf
        <4> QED
          BY <4>1, <4>2
      <3> QED
        BY <1>1, <1>2, <1>4, <2>1, <2>2, <2>3, <3>1, <3>3
    <2> QED
      BY <1>4, <2>5, <2>6, <2>7, <2>8, <2>9 DEF Work, TakeJob
  <1> QED
    BY <1>3, <1>4, WorkTyped

\* No step of an upload touches a worker, and what it had is in its list or
\* in the queue.
LEMMA ContinueHolds ==
    ASSUME Typed, NEW r \in Requests, NEW todo, NEW local \in Seq(Files), Continue(r, todo, local)
    PROVE  /\ \A q \in Requests : q # r => LocalOf(q)' = LocalOf(q)
           /\ \/ LocalOf(r)' = {} /\ Queued' = Queued \cup SeqRange(local)
              \/ LocalOf(r)' = SeqRange(local) /\ Queued' = Queued
  <1>1. \A q \in Requests : q # r => LocalOf(q)' = LocalOf(q)
    BY ContinueMoves DEF LocalOf
  <1>2. CASE upload'[r] = UploadDone /\ Queued' = Queued \cup SeqRange(local)
    <2>1. upload'[r].local = <<>>
      BY <1>2 DEF UploadDone
    <2> QED
      BY <1>1, <1>2, <2>1, EmptyRange DEF LocalOf
  <1>3. CASE upload'[r] = [phase |-> "reading", todo |-> todo, local |-> local] /\ queue' = queue
    <2>1. upload'[r].local = local
      BY <1>3
    <2>2. Queued' = Queued
      BY <1>3 DEF Queued
    <2> QED
      BY <1>1, <2>1, <2>2 DEF LocalOf
  <1>4. \/ upload'[r] = UploadDone /\ Queued' = Queued \cup SeqRange(local)
        \/ upload'[r] = [phase |-> "reading", todo |-> todo, local |-> local] /\ queue' = queue
    BY ContinueMoves
  <1> QED
    BY <1>2, <1>3, <1>4

LEMMA WeblinkHolds ==
    ASSUME ConstantsAssumption, Typed, NEW f \in Weblinks, UploadWeblink(f)
    PROVE  /\ f \in Files /\ Queued' = Queued \cup {f}
           /\ queue' = Append(queue, [files |-> <<f>>, safe |-> FALSE])
           /\ [files |-> <<f>>, safe |-> FALSE] \in Job
  <1> DEFINE job == [files |-> <<f>>, safe |-> FALSE]
  <1>1. f \in Files /\ job \in Job /\ SeqRange(job.files) = {f}
    BY DEF ConstantsAssumption, Job, SeqRange
  <1>2. queue' = Append(queue, job)
    BY DEF UploadWeblink
  <1> HIDE DEF job
  <1>3. Queued' = Queued \cup {f}
    BY <1>1, <1>2, QueueGrows DEF Typed, TypeOK
  <1> QED
    BY <1>1, <1>2, <1>3 DEF job

\* A handler that neither reads nor hands over a file leaves all in place.
LEMMA HeldStays ==
    ASSUME UNCHANGED <<upload, queue, worker>>
    PROVE  /\ \A r \in Requests : LocalOf(r)' = LocalOf(r)
           /\ Queued' = Queued
           /\ \A w \in Workers : TodoOf(w)' = TodoOf(w) /\ FilesOf(w)' = FilesOf(w)
  BY DEF LocalOf, Queued, TodoOf, FilesOf

LEMMA GrayInit == ASSUME Init PROVE GrayIsHeldOrLost
  BY DEF Init, GrayIsHeldOrLost, Present

LEMMA GrayStays ==
    ASSUME ConstantsAssumption, Typed, GrayIsHeldOrLost, [Next]_vars
    PROVE  GrayIsHeldOrLost'
  <1> SUFFICES ASSUME NEW f \in Files, status'[f] = "gray", f \notin erased'
               PROVE  IsHeld(f)' \/ f \in lost'
    BY DEF GrayIsHeldOrLost, Present
  <1>1. ASSUME erased' = erased, status'[f] = status[f] PROVE IsHeld(f) \/ f \in lost
    BY <1>1 DEF GrayIsHeldOrLost, Present
  <1>2. ASSUME NEW r \in Requests, BeginUpload(r) PROVE IsHeld(f)' \/ f \in lost'
    <2>1. PICK fresh : Continue(r, fresh, <<>>)
      BY <1>2 DEF BeginUpload
    <2>2. LocalOf(r) = {} /\ <<>> \in Seq(Files)
      BY <1>2, EmptyRange DEF BeginUpload, Typed, Shape, LocalOf
    <2>3. UNCHANGED <<status, erased, lost, worker>>
      BY <1>2 DEF BeginUpload, rows, aux
    <2> QED
      BY <1>1, <2>1, <2>2, <2>3, ContinueHolds DEF IsHeld, TodoOf
  <1>3. ASSUME NEW r \in Requests, RecordFile(r) PROVE IsHeld(f)' \/ f \in lost'
    <2>1. PICK i \in upload[r].todo :
              /\ BatchOf[r][i] \in Files
              /\ status' = [status EXCEPT ![BatchOf[r][i]] = "gray"]
              /\ Append(upload[r].local, BatchOf[r][i]) \in Seq(Files)
              /\ SeqRange(Append(upload[r].local, BatchOf[r][i])) = LocalOf(r) \cup {BatchOf[r][i]}
              /\ Continue(r, upload[r].todo \ {i}, Append(upload[r].local, BatchOf[r][i]))
      BY <1>3, RecordMoves DEF RecordFile
    <2>2. UNCHANGED <<erased, lost, worker>>
      BY <1>3 DEF RecordFile, aux
    <2>3. /\ \A q \in Requests : q # r => LocalOf(q)' = LocalOf(q)
          /\ \/ LocalOf(r)' = {} /\ Queued' = Queued \cup (LocalOf(r) \cup {BatchOf[r][i]})
             \/ LocalOf(r)' = LocalOf(r) \cup {BatchOf[r][i]} /\ Queued' = Queued
      BY <2>1, ContinueHolds
    <2>4. f = BatchOf[r][i] \/ IsHeld(f) \/ f \in lost
      BY <1>1, <2>1, <2>2 DEF Typed, TypeOK
    <2> QED
      BY <2>2, <2>3, <2>4 DEF IsHeld, TodoOf
  <1>4. ASSUME NEW r \in Requests, UploadFails(r) PROVE IsHeld(f)' \/ f \in lost'
    <2>1. /\ \A q \in Requests : q # r => LocalOf(q)' = LocalOf(q)
          /\ UNCHANGED <<queue, worker, erased>>
          /\ LocalOf(r) \subseteq lost' /\ lost \subseteq lost'
          /\ status'[f] = status[f] \/ f \in lost'
      BY <1>4 DEF UploadFails, Typed, TypeOK, LocalOf
    <2> QED
      BY <1>1, <2>1 DEF IsHeld, TodoOf, Queued
  <1>5. ASSUME NEW g \in Weblinks, UploadWeblink(g) PROVE IsHeld(f)' \/ f \in lost'
    <2>1. UNCHANGED <<erased, lost, upload, worker>> /\ (f = g \/ status'[f] = status[f])
      BY <1>5 DEF UploadWeblink, aux, Typed, TypeOK
    <2>2. Queued' = Queued \cup {g}
      BY <1>5, WeblinkHolds
    <2> QED
      BY <1>1, <2>1, <2>2 DEF IsHeld, TodoOf, LocalOf
  <1>6. CASE Admin
    <2>1. f \notin erased
      BY <1>6 DEF Admin, NewKnowledgeBase, DeleteDocs, CleanFilesByStatus, DeleteKnowledgeBase,
                  Begin, Delete, DeleteVectors, SweepPartition, RemoveVectors, DeleteRaises,
                  DeleteRows, CollectPartition, MarkKbRow, MarkFileRows, rows
    <2>2. IsHeld(f) \/ f \in lost
      BY <1>6, <2>1, AdminKeeps DEF GrayIsHeldOrLost, Present
    <2> QED
      BY <1>6, <2>2, AdminKeeps, HeldStays DEF IsHeld
  <1>7. ASSUME NEW w \in Workers, Work(w) PROVE IsHeld(f)' \/ f \in lost'
    <2>1. IsHeld(f) \/ f \in lost
      <3>1. erased' = erased
        BY <1>7, WorkKeeps
      <3>2. CASE status'[f] = status[f]
        BY <1>1, <3>1, <3>2
      <3>3. CASE status'[f] # status[f]
        <4>1. f = Head(worker[w].todo) /\ worker[w].stage # "idle"
          BY <1>7, <3>3, WorkWrites
        <4> QED
          BY <4>1, CurrentFile DEF IsHeld
      <3> QED
        BY <3>2, <3>3
    <2>2. lost \subseteq lost'
      BY <1>7 DEF Work, TakeJob, Advance, MarkRed, InsertSucceeds, InsertFails, MarkStored,
                  JobRaises, FallbackRed, FallbackFails, rows, aux
    <2>3. \A v \in Workers : v # w => TodoOf(v)' = TodoOf(v)
      BY <1>7, WorkMoves DEF TodoOf
    <2> QED
      BY <1>7, <2>1, <2>2, <2>3, WorkMoves DEF IsHeld
  <1>8. CASE Crash
    <2>1. IsHeld(f) \/ f \in lost
      BY <1>1, <1>8 DEF Crash, rows
    <2>2. IsHeld(f) => f \in InFlight
      BY InFlightParts DEF IsHeld
    <2> QED
      BY <1>8, <2>1, <2>2 DEF Crash
  <1>9. CASE UNCHANGED vars
    BY <1>1, <1>9, HeldStays DEF vars, rows, aux, IsHeld
  <1> QED
    BY <1>2, <1>3, <1>4, <1>5, <1>6, <1>7, <1>8, <1>9 DEF Next, Handle, Admin

-----------------------------------------------------------------------------
(* Which files have a row.                                                 *)

\* What a failing upload leaves.
LEMMA FailureMoves ==
    ASSUME ConstantsAssumption, Typed, NEW r \in Requests, UploadFails(r)
    PROVE  /\ upload' = [upload EXCEPT ![r] = UploadDone]
           /\ LocalOf(r)' = {} /\ upload'[r].todo = {} /\ upload'[r].phase = "done"
           /\ \A q \in Requests : q # r => LocalOf(q)' = LocalOf(q) /\ upload'[q] = upload[q]
           /\ UNCHANGED <<queue, worker, kb, erased, store, loop, chosen, settled, raised,
                          saveFailed, crashes>>
           /\ \/ kb # "live" /\ status' = status
              \/ /\ kb = "live"
                 /\ \E i \in upload[r].todo :
                       /\ i \in DOMAIN BatchOf[r] /\ BatchOf[r][i] \in Files
                       /\ status' = [status EXCEPT ![BatchOf[r][i]] = "gray"]
  <1>1. upload' = [upload EXCEPT ![r] = UploadDone]
    BY DEF UploadFails
  <1>2. upload'[r] = UploadDone /\ \A q \in Requests : q # r => upload'[q] = upload[q]
    BY <1>1 DEF Typed, TypeOK
  <1>3. upload'[r].todo = {} /\ upload'[r].phase = "done" /\ upload'[r].local = <<>>
    BY <1>2 DEF UploadDone
  <1>4. \A i \in upload[r].todo : i \in DOMAIN BatchOf[r] /\ BatchOf[r][i] \in Files
    BY InFlightIn DEF Typed, TypeOK
  <1> QED
    BY <1>1, <1>2, <1>3, <1>4, EmptyRange DEF UploadFails, LocalOf

LEMMA RowsStay ==
    ASSUME ConstantsAssumption, Typed, [Next]_vars
    PROVE  \A f \in Files : status[f] # "none" => status'[f] # "none"
  <1> USE DEF Typed, TypeOK
  <1>1. ASSUME NEW r \in Requests, BeginUpload(r) PROVE status' = status
    BY <1>1 DEF BeginUpload, rows
  <1>2. ASSUME NEW r \in Requests, RecordFile(r) PROVE \E g \in Files : status' = [status EXCEPT ![g] = "gray"]
    BY <1>2, RecordMoves DEF RecordFile
  <1>3. ASSUME NEW r \in Requests, UploadFails(r)
        PROVE  status' = status \/ \E g \in Files : status' = [status EXCEPT ![g] = "gray"]
    BY <1>3, FailureMoves
  <1>4. ASSUME NEW g \in Weblinks, UploadWeblink(g) PROVE g \in Files /\ status' = [status EXCEPT ![g] = "gray"]
    BY <1>4, WeblinkHolds DEF UploadWeblink
  <1>5. CASE Admin \/ Crash \/ UNCHANGED vars
    BY <1>5, AdminKeeps DEF Crash, rows, vars
  <1>6. ASSUME NEW w \in Workers, Work(w)
        PROVE  \A f \in Files : status'[f] # status[f] => status'[f] # "none"
    BY <1>6, WorkWrites
  <1> QED
    BY <1>1, <1>2, <1>3, <1>4, <1>5, <1>6 DEF Next, Handle, Admin

\* What comes on its way was recorded in that step.
LEMMA OnlyRecordedSetOut ==
    ASSUME ConstantsAssumption, Typed, [Next]_vars, NEW f \in Files, OnItsWay(f)', ~OnItsWay(f)
    PROVE  status'[f] = "gray"
  <1> USE DEF OnItsWay
  <1>1. ASSUME NEW r \in Requests, BeginUpload(r) PROVE FALSE
    <2>1. PICK fresh : Continue(r, fresh, <<>>)
      BY <1>1 DEF BeginUpload
    <2>2. <<>> \in Seq(Files) /\ worker' = worker
      BY <1>1 DEF BeginUpload
    <2>3. Queued' \subseteq Queued /\ \A q \in Requests : LocalOf(q)' \subseteq LocalOf(q)
      <3>1. /\ \A q \in Requests : q # r => LocalOf(q)' = LocalOf(q)
            /\ \/ LocalOf(r)' = {} /\ Queued' = Queued \cup SeqRange(<<>>)
               \/ LocalOf(r)' = SeqRange(<<>>) /\ Queued' = Queued
        BY <2>1, <2>2, ContinueHolds
      <3> QED
        BY <3>1, EmptyRange
    <2> QED
      BY <2>2, <2>3 DEF FilesOf
  <1>2. ASSUME NEW r \in Requests, RecordFile(r) PROVE status'[f] = "gray"
    <2>1. PICK i \in upload[r].todo :
              /\ BatchOf[r][i] \in Files
              /\ status' = [status EXCEPT ![BatchOf[r][i]] = "gray"]
              /\ Append(upload[r].local, BatchOf[r][i]) \in Seq(Files)
              /\ SeqRange(Append(upload[r].local, BatchOf[r][i])) = LocalOf(r) \cup {BatchOf[r][i]}
              /\ Continue(r, upload[r].todo \ {i}, Append(upload[r].local, BatchOf[r][i]))
      BY <1>2, RecordMoves DEF RecordFile
    <2>2. /\ \A q \in Requests : q # r => LocalOf(q)' = LocalOf(q)
          /\ \/ LocalOf(r)' = {} /\ Queued' = Queued \cup (LocalOf(r) \cup {BatchOf[r][i]})
             \/ LocalOf(r)' = LocalOf(r) \cup {BatchOf[r][i]} /\ Queued' = Queued
      BY <2>1, ContinueHolds
    <2>3. worker' = worker
      BY <1>2 DEF RecordFile
    <2>4. f = BatchOf[r][i]
      BY <2>2, <2>3 DEF FilesOf
    <2> QED
      BY <2>1, <2>4 DEF Typed, TypeOK
  <1>3. ASSUME NEW r \in Requests, UploadFails(r) PROVE FALSE
    BY <1>3, FailureMoves DEF FilesOf, Queued
  <1>4. ASSUME NEW g \in Weblinks, UploadWeblink(g) PROVE status'[f] = "gray"
    <2>1. status' = [status EXCEPT ![g] = "gray"] /\ UNCHANGED <<upload, worker>>
      BY <1>4 DEF UploadWeblink
    <2>2. f = g
      BY <1>4, <2>1, WeblinkHolds DEF FilesOf, LocalOf
    <2> QED
      BY <2>1, <2>2 DEF Typed, TypeOK
  <1>5. CASE Admin \/ UNCHANGED vars
    BY <1>5, AdminKeeps, HeldStays DEF vars
  <1>6. ASSUME NEW w \in Workers, Work(w) PROVE FALSE
    <2>1. \A v \in Workers : v # w => FilesOf(v)' = FilesOf(v)
      BY <1>6, WorkMoves DEF FilesOf
    <2> QED
      BY <1>6, <2>1, WorkMoves
  <1>7. CASE Crash
    <2>1. \A r \in Requests : LocalOf(r)' = {}
      <3>1. \A r \in Requests : upload'[r].local = <<>>
        BY <1>7, CrashKeeps
      <3> QED
        BY <3>1, EmptyRange DEF LocalOf
    <2>2. Queued' = {}
      <3>1. queue' = <<>> /\ DOMAIN <<>> = {}
        BY <1>7, CrashKeeps
      <3> QED
        BY <3>1 DEF Queued
    <2>3. \A w \in Workers : FilesOf(w)' = {}
      BY <1>7, CrashKeeps, EmptyRange DEF FilesOf, Idle
    <2> QED
      BY <2>1, <2>3, <2>2
  <1> QED
    BY <1>1, <1>2, <1>3, <1>4, <1>5, <1>6, <1>7 DEF Next, Handle, Admin

LEMMA HeldRowsStay ==
    ASSUME ConstantsAssumption, Typed, HeldHaveRows, [Next]_vars
    PROVE  HeldHaveRows'
  BY RowsStay, OnlyRecordedSetOut DEF HeldHaveRows

\* Nothing comes to be unread, and what was read is so no more.
LEMMA UnreadShrinks ==
    ASSUME ConstantsAssumption, Typed, HeldHaveRows, [Next]_vars,
           UnreadHaveNone, NEW f \in Files, Unread(f)'
    PROVE  Unread(f) /\ status'[f] = status[f]
  <1> USE DEF Unread
  <1>1. ASSUME NEW r \in Requests, BeginUpload(r) PROVE Unread(f) /\ status'[f] = status[f]
    <2>1. PICK fresh \in SUBSET DOMAIN BatchOf[r] : Continue(r, fresh, <<>>)
      BY <1>1 DEF BeginUpload
    <2>2. <<>> \in Seq(Files) /\ status' = status /\ upload[r].phase = "new"
      BY <1>1 DEF BeginUpload, rows
    <2>3. /\ \A q \in Requests : q # r => upload'[q] = upload[q]
          /\ upload'[r].todo = fresh /\ upload'[r].phase # "new"
      BY <2>1, <2>2, ContinueMoves
    <2>4. \A i \in fresh : BatchOf[r][i] \in SeqRange(BatchOf[r])
      BY DEF SeqRange
    <2> QED
      BY <2>2, <2>3, <2>4
  <1>2. ASSUME NEW r \in Requests, NEW i \in upload[r].todo,
               i \in DOMAIN BatchOf[r], BatchOf[r][i] \in Files,
               status' = [status EXCEPT ![BatchOf[r][i]] = "gray"],
               \A q \in Requests : q # r => upload'[q] = upload[q],
               upload'[r].todo \subseteq upload[r].todo \ {i}, upload'[r].phase # "new"
        PROVE  Unread(f) /\ status'[f] = status[f]
    <2>1. PICK q \in Requests : \/ upload'[q].phase = "new" /\ f \in SeqRange(BatchOf[q])
                                \/ \E j \in upload'[q].todo : f = BatchOf[q][j]
      OBVIOUS
    <2>2. \A p \in Requests : \A j \in upload[p].todo : j \in DOMAIN BatchOf[p] /\ BatchOf[p][j] \in SeqRange(BatchOf[p])
      BY DEF SeqRange, Typed, TypeOK
    <2>3. CASE q = r
      BY <1>2, <2>1, <2>2, <2>3 DEF ConstantsAssumption, Distinct, Typed, TypeOK
    <2>4. CASE q # r
      <3>1. Unread(f) /\ f \in SeqRange(BatchOf[q])
        BY <1>2, <2>1, <2>2, <2>4
      <3>2. f # BatchOf[r][i]
        BY <2>2, <2>4, <3>1 DEF ConstantsAssumption
      <3> QED
        BY <1>2, <3>1, <3>2 DEF Typed, TypeOK
    <2> QED
      BY <2>3, <2>4
  <1>3. ASSUME NEW r \in Requests, RecordFile(r) PROVE Unread(f) /\ status'[f] = status[f]
    <2>1. PICK i \in upload[r].todo :
              /\ i \in DOMAIN BatchOf[r] /\ BatchOf[r][i] \in Files
              /\ status' = [status EXCEPT ![BatchOf[r][i]] = "gray"]
              /\ Append(upload[r].local, BatchOf[r][i]) \in Seq(Files)
              /\ Continue(r, upload[r].todo \ {i}, Append(upload[r].local, BatchOf[r][i]))
      BY <1>3, RecordMoves DEF RecordFile
    <2>2. /\ \A q \in Requests : q # r => upload'[q] = upload[q]
          /\ upload'[r].todo = upload[r].todo \ {i} /\ upload'[r].phase # "new"
      BY <2>1, ContinueMoves
    <2> QED
      BY <1>2, <2>1, <2>2
  <1>4. ASSUME NEW r \in Requests, UploadFails(r) PROVE Unread(f) /\ status'[f] = status[f]
    <2>1. CASE status' = status
      BY <1>4, <2>1, FailureMoves
    <2>2. CASE status' # status
      BY <1>2, <1>4, <2>2, FailureMoves
    <2> QED
      BY <2>1, <2>2
  <1>5. ASSUME NEW g \in Weblinks, UploadWeblink(g) PROVE Unread(f) /\ status'[f] = status[f]
    <2>1. upload' = upload /\ status' = [status EXCEPT ![g] = "gray"]
      BY <1>5 DEF UploadWeblink
    <2>2. \A r \in Requests : \A i \in upload[r].todo : BatchOf[r][i] \in SeqRange(BatchOf[r])
      BY DEF SeqRange, Typed, TypeOK
    <2>3. \A r \in Requests : g \notin SeqRange(BatchOf[r])
      BY DEF ConstantsAssumption
    <2> QED
      BY <2>1, <2>2, <2>3 DEF Typed, TypeOK
  <1>6. CASE Admin \/ UNCHANGED vars
    BY <1>6, AdminKeeps DEF vars, rows
  <1>7. ASSUME NEW w \in Workers, Work(w), ~(Unread(f) /\ status'[f] = status[f])
        PROVE  Unread(f) /\ status[f] # "none"
    <2>1. upload' = upload
      BY <1>7, WorkKeeps
    <2>2. worker[w].stage # "idle" /\ f = Head(worker[w].todo)
      BY <1>7, <2>1, WorkWrites
    <2>3. f \in FilesOf(w)
      BY <2>2, CurrentFile
    <2> QED
      BY <2>1, <2>3 DEF HeldHaveRows, OnItsWay
  <1>8. CASE Crash
    <2>1. status' = status
      BY <1>8, CrashKeeps
    <2>2. \A r \in Requests : upload'[r].todo = {} /\ (upload'[r].phase = "new" => upload[r].phase = "new")
      BY <1>8, CrashKeeps
    <2> QED
      BY <2>1, <2>2
  <1> QED
    BY <1>1, <1>3, <1>4, <1>5, <1>6, <1>7, <1>8 DEF Next, Handle, Admin, UnreadHaveNone

LEMMA UnreadStays ==
    ASSUME ConstantsAssumption, Typed, HeldHaveRows, UnreadHaveNone, [Next]_vars
    PROVE  UnreadHaveNone'
  BY UnreadShrinks DEF UnreadHaveNone

LEMMA KbStays ==
    ASSUME ConstantsAssumption, Typed, HeldHaveRows, KbInv, [Next]_vars
    PROVE  KbInv'
  <1>1. ASSUME kb = "deleted", kb' = kb, erased \subseteq erased',
               crashes' = 0 => crashes = 0,
               loop'.step = "fileRows" \/ (loop'.step = "idle" /\ loop.step = "idle"),
               \A f \in Files : status'[f] # "none" => status[f] # "none"
        PROVE  KbInv'
    BY <1>1 DEF KbInv, DeletedKbIsEmpty, Present
  <1>2. ASSUME kb' # "deleted" PROVE KbInv'
    BY <1>2 DEF KbInv, DeletedKbIsEmpty
  <1>3. ASSUME NEW r \in Requests, BeginUpload(r) \/ RecordFile(r) PROVE KbInv'
    BY <1>2, <1>3 DEF BeginUpload, RecordFile, rows
  <1>4. ASSUME NEW r \in Requests, UploadFails(r) PROVE KbInv'
    <2>1. CASE kb = "deleted"
      <3>1. status' = status /\ UNCHANGED <<kb, erased, loop, crashes>> /\ loop.step = "idle"
        BY <1>4, <2>1, FailureMoves DEF UploadFails, LoopIdle
      <3> QED
        BY <1>1, <2>1, <3>1
    <2> QED
      BY <1>2, <1>4, <2>1, FailureMoves
  <1>5. ASSUME NEW f \in Weblinks, UploadWeblink(f) PROVE KbInv'
    BY <1>2, <1>5 DEF UploadWeblink
  <1>6. CASE NewKnowledgeBase \/ (\E files \in DeleteLists : DeleteDocs(files))
             \/ (\E s \in Statuses : CleanFilesByStatus(s)) \/ DeleteKnowledgeBase
    BY <1>2, <1>6 DEF NewKnowledgeBase, DeleteDocs, CleanFilesByStatus, DeleteKnowledgeBase, Begin, rows
  <1>7. CASE DeleteVectors \/ DeleteRaises \/ DeleteRows \/ CollectPartition \/ SweepPartition
    <2>1. kb' = kb /\ loop.step \notin {"idle", "fileRows"}
      BY <1>7 DEF DeleteVectors, SweepPartition, RemoveVectors, DeleteRaises, DeleteRows,
                  CollectPartition, rows
    <2> QED
      BY <1>2, <2>1 DEF KbInv
  <1>8. CASE MarkKbRow
    BY <1>8 DEF MarkKbRow, KbInv, DeletedKbIsEmpty, Typed, TypeOK, LoopState
  <1>9. CASE MarkFileRows
    BY <1>9 DEF MarkFileRows, KbInv, DeletedKbIsEmpty, Present, LoopIdle
  <1>10. ASSUME NEW w \in Workers, Work(w) PROVE KbInv'
    <2>1. UNCHANGED <<kb, erased, loop, crashes>>
      BY <1>10, WorkKeeps
    <2>2. ASSUME NEW f \in Files, status'[f] # status[f] PROVE status[f] # "none"
      <3>1. worker[w].stage # "idle" /\ f = Head(worker[w].todo)
        BY <1>10, <2>2, WorkWrites
      <3>2. f \in FilesOf(w)
        BY <3>1, CurrentFile
      <3> QED
        BY <3>2 DEF HeldHaveRows, OnItsWay
    <2>3. \A f \in Files : status'[f] # "none" => status[f] # "none"
      BY <2>2
    <2>4. CASE kb = "deleted"
      <3>1. loop'.step = "fileRows" \/ (loop'.step = "idle" /\ loop.step = "idle")
        BY <2>1, <2>4 DEF KbInv
      <3>2. kb' = kb /\ erased \subseteq erased' /\ (crashes' = 0 => crashes = 0)
        BY <2>1
      <3> QED
        BY <1>1, <2>3, <2>4, <3>1, <3>2
    <2> QED
      BY <1>2, <2>1, <2>4
  <1>11. CASE Crash
    <2>1. crashes' # 0 /\ loop'.step = "idle"
      BY <1>11 DEF Crash, Typed, TypeOK, LoopIdle
    <2> QED
      BY <2>1 DEF KbInv, DeletedKbIsEmpty
  <1>12. CASE UNCHANGED vars
    BY <1>12 DEF vars, rows, aux, KbInv, DeletedKbIsEmpty, Present
  <1> QED
    BY <1>3, <1>4, <1>5, <1>6, <1>7, <1>8, <1>9, <1>10, <1>11, <1>12 DEF Next, Handle, Delete

-----------------------------------------------------------------------------
(* No file is in two places.                                               *)

LEMMA JobJoins ==
    ASSUME queue \in Seq(Job), QueueApart, NEW job \in Job, queue' = Append(queue, job),
           Distinct(job.files), SeqRange(job.files) \cap Queued = {}
    PROVE  QueueApart'
  <1>1. /\ DOMAIN queue' = DOMAIN queue \cup {Len(queue) + 1}
        /\ \A i \in DOMAIN queue : queue'[i] = queue[i]
        /\ queue'[Len(queue) + 1] = job /\ Len(queue) + 1 \notin DOMAIN queue
    BY QueueGrows
  <1>2. \A i \in DOMAIN queue : SeqRange(queue[i].files) \subseteq Queued
    BY DEF Queued
  <1> QED
    BY <1>1, <1>2, ZenonT(60) DEF QueueApart

LEMMA JobLeaves ==
    ASSUME queue \in Seq(Job), QueueApart, queue # <<>>, queue' = Tail(queue)
    PROVE  /\ QueueApart' /\ Distinct(Head(queue).files)
           /\ SeqRange(Head(queue).files) \cap Queued' = {}
  <1>1. /\ 1 \in DOMAIN queue /\ queue[1] = Head(queue)
        /\ \A i \in DOMAIN queue' : i # 0 /\ i + 1 \in DOMAIN queue /\ queue'[i] = queue[i + 1]
    BY QueueShrinks
  <1>2. \A i \in DOMAIN queue' : i \in Nat
    BY QueueShrinks
  <1>3. ASSUME NEW i \in DOMAIN queue'
        PROVE  /\ Distinct(queue'[i].files)
               /\ SeqRange(Head(queue).files) \cap SeqRange(queue'[i].files) = {}
    <2>1. i + 1 \in DOMAIN queue /\ i + 1 # 1 /\ queue'[i] = queue[i + 1]
      BY <1>1, <1>2
    <2> QED
      BY <1>1, <2>1 DEF QueueApart
  <1>4. ASSUME NEW i \in DOMAIN queue', NEW j \in DOMAIN queue', i # j
        PROVE  SeqRange(queue'[i].files) \cap SeqRange(queue'[j].files) = {}
    <2>1. i + 1 \in DOMAIN queue /\ j + 1 \in DOMAIN queue /\ i + 1 # j + 1
      BY <1>1, <1>2, <1>4
    <2>2. queue'[i] = queue[i + 1] /\ queue'[j] = queue[j + 1]
      BY <1>1
    <2> QED
      BY <2>1, <2>2 DEF QueueApart
  <1>5. QueueApart'
    BY <1>3, <1>4 DEF QueueApart
  <1>6. SeqRange(Head(queue).files) \cap Queued' = {}
    BY <1>3 DEF Queued
  <1> QED
    BY <1>1, <1>5, <1>6 DEF QueueApart

\* An upload that goes on with files found nowhere else keeps all apart.
LEMMA ContinueApart ==
    ASSUME ConstantsAssumption, Typed, Apart, NEW r \in Requests, NEW todo, NEW local \in Seq(Files),
           Continue(r, todo, local), worker' = worker,
           Distinct(local), SeqRange(local) \subseteq SeqRange(BatchOf[r]),
           SeqRange(local) \cap Queued = {},
           \A w \in Workers : SeqRange(local) \cap FilesOf(w) = {}
    PROVE  Apart'
  <1>1. /\ \A w \in Workers : FilesOf(w)' = FilesOf(w)
        /\ \A q \in Requests : q # r =>
              /\ LocalOf(q)' = LocalOf(q) /\ upload'[q] = upload[q]
              /\ LocalOf(q) \cap SeqRange(local) = {}
    <2>1. \A w \in Workers : FilesOf(w)' = FilesOf(w)
      BY DEF FilesOf
    <2>2. \A q \in Requests : q # r => LocalOf(q)' = LocalOf(q)
      BY ContinueHolds
    <2>3. \A q \in Requests : q # r => upload'[q] = upload[q]
      BY ContinueMoves
    <2>4. \A q \in Requests : q # r => LocalOf(q) \cap SeqRange(local) = {}
      BY DEF Apart, UploadsApart, ConstantsAssumption
    <2> QED
      BY <2>1, <2>2, <2>3, <2>4
  <1>2. CASE upload'[r] = UploadDone /\ queue' = Append(queue, [files |-> local, safe |-> TRUE])
              /\ Queued' = Queued \cup SeqRange(local)
    <2> DEFINE job == [files |-> local, safe |-> TRUE]
    <2>1. job \in Job /\ job.files = local
      BY DEF Job
    <2>2. queue' = Append(queue, job)
      BY <1>2
    <2> HIDE DEF job
    <2>3. QueueApart'
      BY <2>1, <2>2, JobJoins DEF Typed, TypeOK, Apart
    <2>4. upload'[r].local = <<>>
      BY <1>2 DEF UploadDone
    <2>5. LocalOf(r)' = {} /\ Distinct(upload'[r].local)
      BY <2>4, EmptyRange DEF LocalOf
    <2>6. UploadsApart'
      BY <1>1, <1>2, <2>5 DEF Apart, UploadsApart
    <2>7. WorkersApart'
      BY <1>1, <1>2 DEF Apart, WorkersApart
    <2> QED
      BY <2>3, <2>6, <2>7 DEF Apart
  <1>3. CASE upload'[r] = [phase |-> "reading", todo |-> todo, local |-> local] /\ queue' = queue
    <2>1. upload'[r].local = local
      BY <1>3
    <2>2. LocalOf(r)' = SeqRange(local) /\ Distinct(upload'[r].local) /\ Queued' = Queued
      BY <1>3, <2>1 DEF LocalOf, Queued
    <2>3. UploadsApart'
      BY <1>1, <2>2, SMTT(20) DEF Apart, UploadsApart
    <2>4. QueueApart' /\ WorkersApart'
      BY <1>1, <1>3, <2>2 DEF Apart, QueueApart, WorkersApart
    <2> QED
      BY <2>3, <2>4 DEF Apart
  <1> QED
    BY <1>2, <1>3, ContinueMoves

\* The two lists of a worker after a step of a job.
LEMMA WorkRecord ==
    ASSUME ConstantsAssumption, Typed, NEW w \in Workers, Work(w), ~TakeJob(w)
    PROVE  /\ worker'[w].files \in {worker[w].files, <<>>}
           /\ worker'[w].todo \in {worker[w].todo, Tail(worker[w].todo), worker[w].files, <<>>}
  <1>1. worker[w].stage # "idle" /\ worker[w] \in WorkerState
    BY WorkTyped DEF Typed, TypeOK
  <1>2. CASE Advance(w) \/ InsertSucceeds(w) \/ InsertFails(w)
    <2>1. PICK s : Stage(w, s)
      BY <1>2 DEF Advance, InsertSucceeds, InsertFails
    <2> QED
      BY <1>1, <2>1 DEF Stage, Typed, TypeOK, WorkerState
  <1>3. CASE MarkRed(w) \/ MarkStored(w)
    BY <1>1, <1>3 DEF MarkRed, MarkStored, NextFile, At, Idle, Typed, TypeOK, WorkerState
  <1>4. CASE JobRaises(w)
    BY <1>1, <1>4 DEF JobRaises, Idle, Typed, TypeOK, WorkerState
  <1>5. CASE FallbackRed(w) \/ FallbackFails(w)
    BY <1>1, <1>5 DEF FallbackRed, FallbackFails, NextFallback, Idle, Typed, TypeOK, WorkerState
  <1> QED
    BY <1>2, <1>3, <1>4, <1>5 DEF Work

LEMMA WorkApart ==
    ASSUME ConstantsAssumption, Typed, Apart, NEW w \in Workers, Work(w)
    PROVE  Apart'
  <1>1. /\ \A v \in Workers : v # w => worker'[v] = worker[v] /\ FilesOf(v)' = FilesOf(v)
        /\ \A r \in Requests : upload'[r] = upload[r] /\ LocalOf(r)' = LocalOf(r)
    BY WorkMoves, WorkKeeps DEF FilesOf
  <1>2. CASE TakeJob(w)
    <2>1. /\ worker'[w] = Taken /\ queue # <<>> /\ queue' = Tail(queue) /\ queue \in Seq(Job)
      BY <1>2, TakeJobTyped DEF Becomes, Typed, TypeOK
    <2>2. Taken.files = Head(queue).files /\ Taken.todo = Head(queue).files
      BY DEF Taken, At, Idle
    <2>3. QueueApart' /\ Distinct(Head(queue).files) /\ SeqRange(Head(queue).files) \cap Queued' = {}
      BY <2>1, JobLeaves DEF Apart
    <2>4. Queued = Queued' \cup SeqRange(Head(queue).files)
      BY <2>1, QueueShrinks
    <2>5. FilesOf(w)' = SeqRange(Head(queue).files)
      BY <2>1, <2>2 DEF FilesOf
    <2>6. UploadsApart'
      BY <1>1, <2>4, <2>5 DEF Apart, UploadsApart
    <2>7. WorkersApart'
      BY <1>1, <2>1, <2>2, <2>3, <2>4, <2>5 DEF Apart, WorkersApart
    <2> QED
      BY <2>3, <2>6, <2>7 DEF Apart
  <1>3. CASE ~TakeJob(w)
    <2>1. /\ worker'[w].files \in {worker[w].files, <<>>}
          /\ worker'[w].todo \in {worker[w].todo, Tail(worker[w].todo), worker[w].files, <<>>}
      BY <1>3, WorkRecord
    <2>2. queue' = queue /\ worker[w].stage # "idle"
      BY <1>3, WorkTyped
    <2>3. Distinct(worker[w].files) /\ Distinct(worker[w].todo)
      BY DEF Apart, WorkersApart
    <2>4. Distinct(Tail(worker[w].todo))
      BY <2>2, <2>3, CurrentFile, TailRange
    <2>5. Distinct(worker'[w].files) /\ Distinct(worker'[w].todo)
      BY <2>1, <2>3, <2>4, EmptyRange
    <2>6. FilesOf(w)' \subseteq FilesOf(w)
      BY <2>1, EmptyRange DEF FilesOf
    <2>7. Queued' = Queued /\ QueueApart'
      BY <2>2, SMTT(20) DEF Queued, Apart, QueueApart
    <2>8. UploadsApart'
      BY <1>1, <2>6, <2>7 DEF Apart, UploadsApart
    <2>9. WorkersApart'
      BY <1>1, <2>5, <2>6, <2>7 DEF Apart, WorkersApart
    <2> QED
      BY <2>7, <2>8, <2>9 DEF Apart
  <1> QED
    BY <1>2, <1>3

LEMMA ApartInit == ASSUME ConstantsAssumption, Init PROVE Apart
  <1>1. /\ queue = <<>> /\ Queued = {}
        /\ \A r \in Requests : upload[r].local = <<>>
        /\ \A w \in Workers : worker[w].files = <<>> /\ worker[w].todo = <<>>
    BY DEF Init, Queued, Idle
  <1>2. /\ \A r \in Requests : LocalOf(r) = {}
        /\ \A w \in Workers : FilesOf(w) = {}
    BY <1>1, EmptyRange DEF LocalOf, FilesOf
  <1> QED
    BY <1>1, <1>2, EmptyRange DEF Apart, UploadsApart, QueueApart, WorkersApart

LEMMA ApartStays ==
    ASSUME ConstantsAssumption, Typed, HeldHaveRows, UnreadHaveNone, Apart, [Next]_vars
    PROVE  Apart'
  <1>1. ASSUME NEW r \in Requests, BeginUpload(r) PROVE Apart'
    <2>1. PICK fresh : Continue(r, fresh, <<>>)
      BY <1>1 DEF BeginUpload
    <2>2. <<>> \in Seq(Files) /\ worker' = worker
      BY <1>1 DEF BeginUpload
    <2> QED
      BY <2>1, <2>2, EmptyRange, ContinueApart
  <1>2. ASSUME NEW r \in Requests, RecordFile(r) PROVE Apart'
    <2>1. PICK i \in upload[r].todo :
              /\ BatchOf[r][i] \in Files /\ BatchOf[r][i] \in SeqRange(BatchOf[r])
              /\ Append(upload[r].local, BatchOf[r][i]) \in Seq(Files)
              /\ SeqRange(Append(upload[r].local, BatchOf[r][i])) = LocalOf(r) \cup {BatchOf[r][i]}
              /\ Continue(r, upload[r].todo \ {i}, Append(upload[r].local, BatchOf[r][i]))
      BY <1>2, RecordMoves DEF RecordFile
    <2>2. ~OnItsWay(BatchOf[r][i])
      BY <2>1 DEF UnreadHaveNone, Unread, HeldHaveRows
    <2> DEFINE new == Append(upload[r].local, BatchOf[r][i])
    <2>3. Distinct(new)
      BY <2>1, <2>2, AppendRange DEF Typed, TypeOK, UploadState, OnItsWay, LocalOf, Apart, UploadsApart
    <2>4. /\ SeqRange(new) \subseteq SeqRange(BatchOf[r]) /\ SeqRange(new) \cap Queued = {}
          /\ \A w \in Workers : SeqRange(new) \cap FilesOf(w) = {}
      BY <2>1, <2>2 DEF OnItsWay, Apart, UploadsApart
    <2>5. worker' = worker
      BY <1>2 DEF RecordFile
    <2>6. new \in Seq(Files) /\ Continue(r, upload[r].todo \ {i}, new)
      BY <2>1
    <2> HIDE DEF new
    <2> QED
      BY <2>3, <2>4, <2>5, <2>6, ContinueApart
  <1>3. ASSUME NEW r \in Requests, UploadFails(r) PROVE Apart'
    <2>1. /\ \A q \in Requests : q # r => LocalOf(q)' = LocalOf(q) /\ upload'[q] = upload[q]
          /\ LocalOf(r)' = {} /\ upload' = [upload EXCEPT ![r] = UploadDone]
          /\ UNCHANGED <<queue, worker>>
      BY <1>3, FailureMoves
    <2>2. upload'[r].local = <<>>
      BY <2>1 DEF UploadDone, Typed, TypeOK
    <2>3. Queued' = Queued /\ \A w \in Workers : FilesOf(w)' = FilesOf(w)
      BY <2>1 DEF Queued, FilesOf
    <2>4. UploadsApart'
      BY <2>1, <2>2, <2>3, EmptyRange DEF Apart, UploadsApart
    <2> QED
      BY <2>1, <2>3, <2>4 DEF Apart, QueueApart, WorkersApart
  <1>4. ASSUME NEW f \in Weblinks, UploadWeblink(f) PROVE Apart'
    <2> DEFINE job == [files |-> <<f>>, safe |-> FALSE]
    <2>1. f \in Files /\ job \in Job /\ queue' = Append(queue, job) /\ Queued' = Queued \cup {f}
      BY <1>4, WeblinkHolds
    <2>2. SeqRange(job.files) = {f} /\ Distinct(job.files)
      BY DEF SeqRange, Distinct
    <2>3. ~OnItsWay(f) /\ UNCHANGED <<upload, worker>>
      BY <1>4, <2>1 DEF UploadWeblink, HeldHaveRows
    <2> HIDE DEF job
    <2>4. QueueApart'
      BY <2>1, <2>2, <2>3, JobJoins DEF Typed, TypeOK, Apart, OnItsWay
    <2>5. /\ \A r \in Requests : LocalOf(r)' = LocalOf(r) /\ f \notin LocalOf(r)
          /\ \A w \in Workers : FilesOf(w)' = FilesOf(w) /\ f \notin FilesOf(w)
      BY <2>3 DEF OnItsWay, LocalOf, FilesOf
    <2>6. UploadsApart'
      BY <2>1, <2>3, <2>5 DEF Apart, UploadsApart
    <2>7. WorkersApart'
      BY <2>1, <2>3, <2>5 DEF Apart, WorkersApart
    <2> QED
      BY <2>4, <2>6, <2>7 DEF Apart
  <1>5. CASE Admin \/ UNCHANGED vars
    <2>1. UNCHANGED <<upload, queue, worker>>
      BY <1>5, AdminKeeps DEF vars
    <2>2. /\ Queued' = Queued /\ \A r \in Requests : LocalOf(r)' = LocalOf(r)
          /\ \A w \in Workers : FilesOf(w)' = FilesOf(w)
      BY <2>1, HeldStays
    <2>3. UploadsApart'
      BY <2>1, <2>2 DEF Apart, UploadsApart
    <2>4. WorkersApart'
      BY <2>1, <2>2 DEF Apart, WorkersApart
    <2> QED
      BY <2>1, <2>3, <2>4 DEF Apart, QueueApart
  <1>6. ASSUME NEW w \in Workers, Work(w) PROVE Apart'
    BY <1>6, WorkApart
  <1>7. CASE Crash
    <2>1. /\ queue' = <<>> /\ \A r \in Requests : upload'[r].local = <<>>
          /\ \A w \in Workers : worker'[w] = Idle
      BY <1>7, CrashKeeps
    <2>2. Queued' = {} /\ \A w \in Workers : worker'[w].files = <<>> /\ worker'[w].todo = <<>>
      BY <2>1 DEF Queued, Idle
    <2>3. /\ \A r \in Requests : LocalOf(r)' = {}
          /\ \A w \in Workers : FilesOf(w)' = {}
      BY <2>1, <2>2, EmptyRange DEF LocalOf, FilesOf
    <2> QED
      BY <2>1, <2>2, <2>3, EmptyRange DEF Apart, UploadsApart, QueueApart, WorkersApart
  <1> QED
    BY <1>1, <1>2, <1>3, <1>4, <1>5, <1>6, <1>7 DEF Next, Handle, Admin

-----------------------------------------------------------------------------
(* What the rows tell of the store.                                        *)

\* A step that leaves the row of a file as it is and of its vectors, at most,
\* has one copy become the other; or forgets what is to be deleted.
Mild(f) ==
    /\ status'[f] = status[f]
    /\ Neither(f) => live'[f] = "no" /\ durable'[f] = "no"
    /\ f \in chosen' \/ {live'[f], durable'[f]} \subseteq {live[f], durable[f]}
Grows == chosen \subseteq chosen' /\ raised \subseteq raised'

LEMMA FileFrame ==
    ASSUME NEW f, FileTold(f), Mild(f), Waits(f)' => Waits(f), Grows
    PROVE  FileTold(f)'
  BY DEF FileTold, Mild, Grows, Neither

LEMMA WorkerFrame ==
    ASSUME NEW w \in Workers, WorkerKnows(w), worker'[w] = worker[w], Grows,
           worker[w].stage \in Marking => Mild(Head(worker[w].todo))
    PROVE  WorkerKnows(w)'
  BY DEF WorkerKnows, Mild, Grows, TodoOf

LEMMA PendingIn ==
    ASSUME Typed, NEW w \in Workers
    PROVE  Pending(w) \subseteq TodoOf(w)
  BY CurrentFile DEF Pending, Working, Marking

LEMMA HeadIn ==
    ASSUME Typed, NEW w \in Workers, worker[w].stage \in Marking
    PROVE  Head(worker[w].todo) \in Files /\ Head(worker[w].todo) \in FilesOf(w)
  BY CurrentFile DEF Marking

\* Handlers and a crash insert nothing and record at most one file.
LEMMA LoopTells ==
    ASSUME Typed, StoreInv, Grows, NEW new \in SUBSET Files,
           \A f \in Files \ new : Mild(f) /\ (Waits(f)' => Waits(f)),
           \A f \in new : status[f] = "none" /\ status'[f] = "gray" /\ live'[f] = live[f] /\ durable'[f] = durable[f],
           \A w \in Workers : worker'[w] = worker[w] \/ worker'[w] = Idle
    PROVE  StoreInv'
  <1>1. ASSUME NEW f \in Files PROVE FileTold(f)'
    <2>1. CASE f \in new
      BY <2>1 DEF StoreInv, FileTold, Neither
    <2>2. CASE f \notin new
      BY <2>2, FileFrame DEF StoreInv
    <2> QED
      BY <2>1, <2>2
  <1>2. ASSUME NEW w \in Workers PROVE WorkerKnows(w)'
    <2>1. CASE worker'[w] = Idle
      BY <2>1 DEF WorkerKnows, Idle, Marking
    <2>2. CASE worker'[w] = worker[w]
      <3>1. worker[w].stage \in Marking => Mild(Head(worker[w].todo))
        BY HeadIn DEF StoreInv, WorkerKnows
      <3> QED
        BY <2>2, <3>1, WorkerFrame DEF StoreInv
    <2> QED
      BY <2>1, <2>2
  <1> QED
    BY <1>1, <1>2 DEF StoreInv

\* A worker's step touches the row and the vectors of its current file only.
LEMMA WorkTells ==
    ASSUME ConstantsAssumption, Typed, Apart, StoreInv, Grows, NEW w \in Workers,
           \A v \in Workers : v # w => worker'[v] = worker[v],
           worker[w].stage # "idle", NEW g \in Files, g = Head(worker[w].todo),
           UNCHANGED <<upload, queue>>,
           \A f \in Files : f # g => Mild(f),
           Pending(w)' \subseteq Pending(w),
           FileTold(g)', WorkerKnows(w)'
    PROVE  StoreInv'
  <1>1. ASSUME NEW f \in Files, f # g PROVE FileTold(f)'
    <2>1. Waits(f)' => Waits(f)
      <3>1. \A v \in Workers : Pending(v)' \subseteq Pending(v)
        BY DEF Pending, TodoOf
      <3>2. Queued' = Queued /\ \A r \in Requests : LocalOf(r)' = LocalOf(r)
        BY DEF Queued, LocalOf
      <3> QED
        BY <3>1, <3>2 DEF Waits
    <2> QED
      BY <1>1, <2>1, FileFrame DEF StoreInv
  <1>2. ASSUME NEW v \in Workers, v # w PROVE WorkerKnows(v)'
    <2>1. g \in FilesOf(w)
      BY CurrentFile
    <2>2. worker[v].stage \in Marking => Mild(Head(worker[v].todo))
      BY <1>2, <2>1, HeadIn DEF Apart, WorkersApart
    <2> QED
      BY <1>2, <2>2, WorkerFrame DEF StoreInv
  <1> QED
    BY <1>1, <1>2 DEF StoreInv

\* The current file, once no more pending, waits nowhere.
LEMMA NoMoreWaits ==
    ASSUME ConstantsAssumption, Typed, Apart, NEW w \in Workers, worker[w].stage # "idle",
           NEW f \in Files, f = Head(worker[w].todo), UNCHANGED <<upload, queue>>,
           \A v \in Workers : v # w => worker'[v] = worker[v],
           Pending(w)' \subseteq SeqRange(Tail(worker[w].todo))
    PROVE  ~Waits(f)'
  <1>1. f \in FilesOf(w) /\ f \notin SeqRange(Tail(worker[w].todo))
    BY CurrentFile, TailRange DEF Apart, WorkersApart
  <1>2. Queued' = Queued /\ \A r \in Requests : LocalOf(r)' = LocalOf(r)
    BY DEF Queued, LocalOf
  <1>3. f \notin Queued /\ \A r \in Requests : f \notin LocalOf(r)
    BY <1>1 DEF Apart, WorkersApart, UploadsApart
  <1>4. ASSUME NEW v \in Workers, v # w PROVE f \notin Pending(v)'
    <2>1. Pending(v)' = Pending(v)
      BY <1>4 DEF Pending, TodoOf
    <2>2. Pending(v) \subseteq FilesOf(v)
      BY PendingIn, InFlightIn
    <2> QED
      BY <1>1, <1>4, <2>1, <2>2 DEF Apart, WorkersApart
  <1> QED
    BY <1>1, <1>2, <1>3, <1>4 DEF Waits

LEMMA NextGrows == ASSUME [Next]_vars PROVE Grows
  BY DEF Grows, Next, Handle, NewKnowledgeBase, BeginUpload, RecordFile, UploadFails, UploadWeblink,
         DeleteDocs, CleanFilesByStatus, DeleteKnowledgeBase, Begin, Delete, DeleteVectors,
         SweepPartition, RemoveVectors, DeleteRaises, DeleteRows, CollectPartition, MarkKbRow,
         MarkFileRows, Work, TakeJob, Advance, MarkRed, InsertSucceeds, InsertFails, MarkStored,
         JobRaises, FallbackRed, FallbackFails, Crash, vars, aux

\* Files no worker is at are waited for as before when a worker moves on.
LEMMA TakeTells ==
    ASSUME ConstantsAssumption, Typed, StoreInv, NEW w \in Workers, TakeJob(w)
    PROVE  StoreInv'
  <1>1. /\ UNCHANGED <<status, live, durable, chosen, raised, upload>>
        /\ worker' = [worker EXCEPT ![w] = Taken]
    BY DEF TakeJob, Taken, rows, store, aux
  <1>2. /\ \A v \in Workers : v # w => worker'[v] = worker[v]
        /\ \A r \in Requests : LocalOf(r)' = LocalOf(r)
        /\ Queued = Queued' \cup TodoOf(w)'
    <2>1. \A v \in Workers : v # w => worker'[v] = worker[v]
      BY <1>1
    <2>2. \A r \in Requests : LocalOf(r)' = LocalOf(r)
      BY <1>1 DEF LocalOf
    <2>3. worker'[w].todo = Head(queue).files
      BY <1>1 DEF Taken, At, Idle, Typed, TypeOK
    <2>4. Queued = Queued' \cup SeqRange(Head(queue).files)
      BY TakeJobTyped, QueueShrinks DEF Typed, TypeOK
    <2> QED
      BY <2>1, <2>2, <2>3, <2>4 DEF TodoOf
  <1>3. worker'[w].stage \in {"idle", "split"}
    BY <1>1 DEF Taken, At, Idle, Typed, TypeOK
  <1>4. Pending(w)' \subseteq TodoOf(w)'
    BY <1>1, <1>3 DEF Pending, Working, Marking
  <1>5. ASSUME NEW f \in Files PROVE FileTold(f)'
    <2>1. \A v \in Workers : v # w => Pending(v)' = Pending(v)
      BY <1>2 DEF Pending, TodoOf
    <2>2. Waits(f)' => Waits(f)
      BY <1>2, <1>4, <2>1 DEF Waits
    <2>3. Mild(f) /\ Grows
      BY <1>1 DEF Mild, Grows, Neither
    <2> QED
      BY <2>2, <2>3, FileFrame DEF StoreInv
  <1>6. ASSUME NEW v \in Workers PROVE WorkerKnows(v)'
    <2>1. CASE v = w
      BY <1>1, <1>3, <2>1 DEF WorkerKnows, Marking
    <2>2. CASE v # w
      <3>1. Grows /\ (worker[v].stage \in Marking => Mild(Head(worker[v].todo)))
        BY <1>1, HeadIn DEF Mild, Grows, Neither
      <3> QED
        BY <1>2, <2>2, <3>1, WorkerFrame DEF StoreInv
    <2> QED
      BY <2>1, <2>2
  <1> QED
    BY <1>5, <1>6 DEF StoreInv

\* What a worker at a file knows of it, and its other files.
LEMMA AtFile ==
    ASSUME ConstantsAssumption, Typed, StoreInv, NEW w \in Workers, worker[w].stage # "idle"
    PROVE  \E g \in Files :
              /\ g = Head(worker[w].todo) /\ g \in TodoOf(w)
              /\ FileTold(g) /\ WorkerKnows(w)
              /\ worker[w].stage \in Working => status[g] = "gray" /\ Neither(g)
  <1>1. /\ Head(worker[w].todo) \in Files
        /\ Head(worker[w].todo) \in TodoOf(w)
    BY CurrentFile
  <1>2. worker[w].stage \in Working => Waits(Head(worker[w].todo))
    BY <1>1 DEF Waits, Pending
  <1> QED
    BY <1>1, <1>2 DEF StoreInv, FileTold

\* Where the loop over the files stands after the current one.
LEMMA NextFileAt ==
    ASSUME Typed, NEW w \in Workers, worker[w].stage # "idle", NextFile(w)
    PROVE  /\ worker'[w].stage \in {"idle", "split"}
           /\ Pending(w)' \subseteq SeqRange(Tail(worker[w].todo))
  <1> DEFINE rest == Tail(worker[w].todo)
  <1>1. worker'[w] = At(rest, worker[w].files, worker[w].safe)
    BY DEF NextFile, Typed, TypeOK
  <1>2. rest \in Seq(Files) /\ SeqRange(rest) \subseteq SeqRange(worker[w].files)
        /\ worker[w].files \in Seq(Files) /\ worker[w].safe \in BOOLEAN
    BY CurrentFile DEF TodoOf, FilesOf, WorkerState
  <1>3. worker'[w].todo = rest
    <2>1. CASE rest = <<>>
      <3>1. worker'[w] = Idle /\ Idle.todo = <<>>
        BY <1>1, <2>1 DEF At, Idle
      <3> QED
        BY <2>1, <3>1
    <2>2. CASE rest # <<>>
      BY <1>1, <2>2 DEF At
    <2> QED
      BY <2>1, <2>2
  <1>4. worker'[w].stage \in {"idle", "split"}
    BY <1>1 DEF At, Idle
  <1> QED
    BY <1>3, <1>4 DEF Pending, Working, Marking, TodoOf

LEMMA StageAt ==
    ASSUME Typed, NEW w \in Workers, worker[w].stage # "idle", NEW s, Stage(w, s)
    PROVE  worker'[w].stage = s /\ worker'[w].todo = worker[w].todo
  <1>1. worker'[w] = [worker[w] EXCEPT !.stage = s] /\ worker[w] \in WorkerState
    BY CurrentFile DEF Stage, Typed, TypeOK
  <1> QED
    BY <1>1 DEF WorkerState

\* No step of a job has a file wait that did not.
LEMMA PendingShrinks ==
    ASSUME ConstantsAssumption, Typed, NEW w \in Workers, Work(w), ~TakeJob(w)
    PROVE  Pending(w)' \subseteq Pending(w)
  <1>1. worker[w].stage # "idle" /\ worker[w] \in WorkerState
    BY WorkTyped DEF Typed, TypeOK
  <1>2. SeqRange(Tail(worker[w].todo)) \subseteq TodoOf(w)
    BY <1>1, CurrentFile
  <1>3. CASE Advance(w)
    <2>1. /\ worker'[w].stage \in Working /\ worker'[w].todo = worker[w].todo
          /\ worker[w].stage \in Working
      BY <1>1, <1>3, StageAt DEF Advance, Working
    <2> QED
      BY <2>1 DEF Pending, TodoOf
  <1>4. CASE InsertSucceeds(w) \/ InsertFails(w)
    <2>1. /\ worker'[w].stage \in Marking /\ worker'[w].todo = worker[w].todo
          /\ worker[w].stage \in Working
      BY <1>1, <1>4, StageAt DEF InsertSucceeds, InsertFails, Working, Marking
    <2> QED
      BY <1>2, <2>1 DEF Pending, Working, Marking
  <1>5. CASE MarkRed(w) \/ MarkStored(w)
    <2>1. worker[w].stage \in Working \cup Marking /\ NextFile(w)
      BY <1>5 DEF MarkRed, MarkStored, Working, Marking
    <2>2. Pending(w)' \subseteq SeqRange(Tail(worker[w].todo))
      BY <1>1, <2>1, NextFileAt
    <2> QED
      BY <1>2, <2>1, <2>2 DEF Pending
  <1>6. CASE JobRaises(w) \/ FallbackRed(w) \/ FallbackFails(w)
    <2>1. worker'[w].stage \in {"idle", "fallback"}
      BY <1>1, <1>6 DEF JobRaises, FallbackRed, FallbackFails, NextFallback, Idle, Typed, TypeOK,
                        WorkerState
    <2> QED
      BY <2>1 DEF Pending, Working, Marking
  <1> QED
    BY <1>3, <1>4, <1>5, <1>6 DEF Work

LEMMA WorkStoreStays ==
    ASSUME ConstantsAssumption, Typed, Apart, StoreInv, NEW w \in Workers, Work(w), ~TakeJob(w)
    PROVE  StoreInv'
  <1>1. /\ worker[w].stage # "idle" /\ queue' = queue /\ UNCHANGED <<upload, chosen>>
        /\ \A v \in Workers : v # w => worker'[v] = worker[v]
    BY WorkTyped, WorkMoves, WorkKeeps
  <1>2. Grows
    BY <1>1 DEF Grows, Work, Advance, MarkRed, InsertSucceeds, InsertFails, MarkStored,
                JobRaises, FallbackRed, FallbackFails, aux
  <1>3. PICK g \in Files :
           /\ g = Head(worker[w].todo) /\ g \in TodoOf(w)
           /\ FileTold(g) /\ WorkerKnows(w)
           /\ worker[w].stage \in Working => status[g] = "gray" /\ Neither(g)
    BY <1>1, AtFile
  <1>4. SeqRange(Tail(worker[w].todo)) \subseteq TodoOf(w)
    BY <1>1, CurrentFile
  <1>5. Pending(w)' \subseteq SeqRange(Tail(worker[w].todo)) => ~Waits(g)'
    BY <1>1, <1>3, NoMoreWaits
  <1>6. SUFFICES /\ \A f \in Files : f # g => Mild(f)
                 /\ FileTold(g)' /\ WorkerKnows(w)'
    BY <1>1, <1>2, <1>3, PendingShrinks, WorkTells
  <1>7. ASSUME UNCHANGED <<status, live, durable>> PROVE \A f \in Files : Mild(f)
    BY <1>7 DEF Mild, Neither
  <1>8. ASSUME UNCHANGED <<live, durable>>, NEW s, status' = [status EXCEPT ![g] = s]
        PROVE  \A f \in Files : f # g => Mild(f)
    BY <1>8 DEF Mild, Neither, Typed, TypeOK
  <1>9. ASSUME status' = status, NEW a, live' = [live EXCEPT ![g] = a], durable' \in {durable, live'}
        PROVE  \A f \in Files : f # g => Mild(f)
    BY <1>9 DEF Mild, Neither, Typed, TypeOK
  <1>10. CASE Advance(w)
    <2>1. /\ worker'[w].stage \in {"embed", "insert"} /\ worker'[w].todo = worker[w].todo
          /\ worker[w].stage \in Working /\ UNCHANGED <<status, live, durable>>
      BY <1>1, <1>10, StageAt DEF Advance, Working, rows, store
    <2>2. WorkerKnows(w)'
      BY <2>1 DEF WorkerKnows, Marking
    <2>3. FileTold(g)'
      BY <1>1, <1>2, <1>3, <2>1 DEF FileTold, Neither
    <2> QED
      BY <1>7, <2>1, <2>2, <2>3
  <1>11. CASE MarkRed(w)
    <2>1. /\ worker[w].stage \in Working /\ NextFile(w) /\ UNCHANGED <<live, durable>>
          /\ status' = [status EXCEPT ![g] = "red"]
      BY <1>3, <1>11 DEF MarkRed, Working, store
    <2>2. worker'[w].stage \in {"idle", "split"} /\ Pending(w)' \subseteq SeqRange(Tail(worker[w].todo))
      BY <1>1, <2>1, NextFileAt
    <2>3. WorkerKnows(w)'
      BY <2>2 DEF WorkerKnows, Marking
    <2>4. FileTold(g)'
      BY <1>3, <1>5, <2>1, <2>2 DEF FileTold, Neither, Typed, TypeOK
    <2> QED
      BY <1>8, <2>1, <2>3, <2>4
  <1>12. CASE InsertSucceeds(w) \/ InsertFails(w)
    <2>1. /\ worker[w].stage \in Working /\ status' = status
          /\ \/ /\ Stage(w, "green") /\ live' = [live EXCEPT ![g] = "all"] /\ durable' = live'
             \/ /\ Stage(w, "yellow") /\ durable' = durable
                /\ \E a \in {"no", "part"} : live' = [live EXCEPT ![g] = a]
      BY <1>3, <1>12 DEF InsertSucceeds, InsertFails, Grown, Working, rows
    <2>2. worker'[w].stage \in Marking /\ worker'[w].todo = worker[w].todo
      BY <1>1, <2>1, StageAt DEF Marking
    <2>3. Pending(w)' = SeqRange(Tail(worker[w].todo))
      BY <2>2 DEF Pending, Working, Marking
    <2>4. FileTold(g)'
      BY <1>3, <1>5, <2>1, <2>3 DEF FileTold
    <2>5. /\ worker'[w].stage = "green" => live'[g] = "all" /\ durable'[g] = "all"
          /\ worker'[w].stage = "yellow" => live'[g] # "all" /\ durable'[g] # "all"
          /\ status'[g] = "gray" /\ g = Head(worker'[w].todo)
      BY <1>1, <1>3, <2>1, <2>2, StageAt DEF Neither, Typed, TypeOK
    <2>6. WorkerKnows(w)'
      BY <2>2, <2>5 DEF WorkerKnows, Marking
    <2>7. \A f \in Files : f # g => Mild(f)
      BY <1>9, <2>1
    <2> QED
      BY <2>4, <2>6, <2>7
  <1>13. CASE MarkStored(w)
    <2>1. /\ worker[w].stage \in Marking /\ NextFile(w) /\ UNCHANGED <<live, durable>>
          /\ status' = [status EXCEPT ![g] = worker[w].stage]
      BY <1>3, <1>13 DEF MarkStored, Marking, store
    <2>2. worker'[w].stage \in {"idle", "split"} /\ Pending(w)' \subseteq SeqRange(Tail(worker[w].todo))
      BY <1>1, <2>1, NextFileAt
    <2>3. WorkerKnows(w)'
      BY <2>2 DEF WorkerKnows, Marking
    <2>4. /\ worker[w].stage = "green" /\ g \notin chosen => live[g] = "all" /\ durable[g] = "all"
          /\ worker[w].stage = "yellow" /\ g \notin chosen => live[g] # "all" /\ durable[g] # "all"
      BY <1>3 DEF WorkerKnows, Marking
    <2>5. FileTold(g)'
      BY <1>1, <1>5, <2>1, <2>2, <2>4 DEF FileTold, Marking, Typed, TypeOK
    <2> QED
      BY <1>8, <2>1, <2>3, <2>5
  <1>14. CASE JobRaises(w)
    <2>1. /\ worker[w].stage \in Working \cup Marking /\ UNCHANGED <<status, durable>>
          /\ \/ worker[w].stage = "insert" /\ \E a \in Amount : live' = [live EXCEPT ![g] = a]
             \/ worker[w].stage # "insert" /\ live' = live
      BY <1>3, <1>14 DEF JobRaises, Grown, Working, Marking, rows
    <2>2. /\ worker'[w].stage \in {"idle", "fallback"}
          /\ worker'[w].stage = "fallback" => TodoOf(w)' \subseteq raised'
      <3>1. worker[w] \in WorkerState
        BY DEF Typed, TypeOK
      <3>2. CASE worker[w].safe
        <4>1. /\ worker'[w] = [worker[w] EXCEPT !.stage = "fallback", !.todo = worker[w].files]
              /\ raised' = raised \cup SeqRange(worker[w].files)
          BY <1>14, <3>2 DEF JobRaises, Typed, TypeOK
        <4>2. worker'[w].stage = "fallback" /\ worker'[w].todo = worker[w].files
          BY <3>1, <4>1 DEF WorkerState
        <4> QED
          BY <4>1, <4>2 DEF TodoOf
      <3>3. CASE ~worker[w].safe
        BY <1>14, <3>3 DEF JobRaises, Idle, Typed, TypeOK
      <3> QED
        BY <3>2, <3>3
    <2>3. Pending(w)' = {}
      BY <2>2 DEF Pending, Working, Marking
    <2>4. WorkerKnows(w)'
      BY <2>2 DEF WorkerKnows, Marking
    <2>5. FileTold(g)'
      <3>1. CASE worker[w].stage = "insert"
        BY <1>3, <1>5, <2>1, <2>3, <3>1 DEF FileTold, Working
      <3>2. CASE worker[w].stage # "insert"
        BY <1>1, <1>2, <1>3, <1>5, <2>1, <2>3, <3>2 DEF FileTold, Neither, Grows
      <3> QED
        BY <3>1, <3>2
    <2>6. \A f \in Files : f # g => Mild(f)
      BY <1>7, <1>9, <2>1
    <2> QED
      BY <2>4, <2>5, <2>6
  <1>15. CASE FallbackRed(w) \/ FallbackFails(w)
    <2>1. /\ worker[w].stage = "fallback" /\ NextFallback(w) /\ UNCHANGED <<live, durable, raised>>
          /\ status' = status \/ status' = [status EXCEPT ![g] = "red"]
      BY <1>3, <1>15 DEF FallbackRed, FallbackFails, store, rows, aux
    <2> DEFINE rest == Tail(worker[w].todo)
    <2>2. /\ worker'[w].stage \in {"idle", "fallback"}
          /\ worker'[w].stage = "fallback" => worker'[w].todo = rest
      <3>1. worker[w] \in WorkerState /\ worker'[w] = IF rest = <<>> THEN Idle ELSE [worker[w] EXCEPT !.todo = rest]
        BY <2>1 DEF NextFallback, Typed, TypeOK
      <3>2. CASE rest = <<>>
        BY <3>1, <3>2 DEF Idle
      <3>3. CASE rest # <<>>
        BY <2>1, <3>1, <3>3 DEF WorkerState
      <3> QED
        BY <3>2, <3>3
    <2>3. Pending(w)' = {}
      BY <2>2 DEF Pending, Working, Marking
    <2>4. TodoOf(w) \subseteq raised
      BY <1>3, <2>1 DEF WorkerKnows
    <2>5. WorkerKnows(w)'
      BY <1>4, <2>1, <2>2, <2>4 DEF WorkerKnows, Marking, TodoOf
    <2>6. g \in raised' /\ ~Waits(g)' /\ chosen' = chosen
      BY <1>1, <1>3, <1>5, <2>1, <2>3, <2>4
    <2>7. FileTold(g)'
      BY <1>3, <2>1, <2>6 DEF FileTold, Neither, Typed, TypeOK
    <2>8. \A f \in Files : f # g => Mild(f)
      BY <1>7, <1>8, <2>1
    <2> QED
      BY <2>5, <2>7, <2>8
  <1> QED
    BY <1>10, <1>11, <1>12, <1>13, <1>14, <1>15 DEF Work

\* Where no worker moves, files wait as they are in lists and in the queue.
LEMMA WaitsStay ==
    ASSUME worker' = worker, NEW f,
           \A r \in Requests : f \in LocalOf(r)' => f \in LocalOf(r) \/ f \in Queued,
           f \in Queued' => f \in Queued \/ \E r \in Requests : f \in LocalOf(r)
    PROVE  Waits(f)' => Waits(f)
  <1>1. \A w \in Workers : Pending(w)' = Pending(w)
    BY DEF Pending, TodoOf
  <1> QED
    BY <1>1 DEF Waits

\* A file comes to wait when it is recorded, and not before.
LEMMA WaitsShrink ==
    ASSUME ConstantsAssumption, Typed, UnreadHaveNone, [Next]_vars, NEW f \in Files,
           Waits(f)', ~Waits(f)
    PROVE  status[f] = "none" /\ status'[f] = "gray"
  <1>1. ASSUME NEW r \in Requests, BeginUpload(r) PROVE FALSE
    <2>1. PICK fresh : Continue(r, fresh, <<>>)
      BY <1>1 DEF BeginUpload
    <2>2. <<>> \in Seq(Files) /\ worker' = worker
      BY <1>1 DEF BeginUpload
    <2>3. /\ \A q \in Requests : q # r => LocalOf(q)' = LocalOf(q)
          /\ \/ LocalOf(r)' = {} /\ Queued' = Queued \cup SeqRange(<<>>)
             \/ LocalOf(r)' = SeqRange(<<>>) /\ Queued' = Queued
      BY <2>1, <2>2, ContinueHolds
    <2> QED
      BY <2>2, <2>3, EmptyRange, WaitsStay
  <1>2. ASSUME NEW r \in Requests, RecordFile(r) PROVE status[f] = "none" /\ status'[f] = "gray"
    <2>1. PICK i \in upload[r].todo :
              /\ BatchOf[r][i] \in Files
              /\ status' = [status EXCEPT ![BatchOf[r][i]] = "gray"]
              /\ Append(upload[r].local, BatchOf[r][i]) \in Seq(Files)
              /\ SeqRange(Append(upload[r].local, BatchOf[r][i])) = LocalOf(r) \cup {BatchOf[r][i]}
              /\ Continue(r, upload[r].todo \ {i}, Append(upload[r].local, BatchOf[r][i]))
      BY <1>2, RecordMoves DEF RecordFile
    <2>2. /\ \A q \in Requests : q # r => LocalOf(q)' = LocalOf(q)
          /\ \/ LocalOf(r)' = {} /\ Queued' = Queued \cup (LocalOf(r) \cup {BatchOf[r][i]})
             \/ LocalOf(r)' = LocalOf(r) \cup {BatchOf[r][i]} /\ Queued' = Queued
      BY <2>1, ContinueHolds
    <2>3. worker' = worker
      BY <1>2 DEF RecordFile
    <2>4. f = BatchOf[r][i]
      BY <2>2, <2>3, WaitsStay
    <2> QED
      BY <2>1, <2>4 DEF UnreadHaveNone, Unread, Typed, TypeOK
  <1>3. ASSUME NEW r \in Requests, UploadFails(r) PROVE FALSE
    <2>1. /\ \A q \in Requests : q # r => LocalOf(q)' = LocalOf(q)
          /\ LocalOf(r)' = {} /\ UNCHANGED <<queue, worker>>
      BY <1>3, FailureMoves
    <2>2. Queued' = Queued
      BY <2>1 DEF Queued
    <2> QED
      BY <2>1, <2>2, WaitsStay
  <1>4. ASSUME NEW g \in Weblinks, UploadWeblink(g) PROVE status[f] = "none" /\ status'[f] = "gray"
    <2>1. /\ UNCHANGED <<worker, upload>> /\ status[g] = "none"
          /\ status' = [status EXCEPT ![g] = "gray"]
      BY <1>4 DEF UploadWeblink
    <2>2. Queued' = Queued \cup {g} /\ \A r \in Requests : LocalOf(r)' = LocalOf(r)
      BY <1>4, <2>1, WeblinkHolds DEF LocalOf
    <2>3. f = g
      BY <2>1, <2>2, WaitsStay
    <2> QED
      BY <2>1, <2>3 DEF Typed, TypeOK
  <1>5. CASE Admin \/ UNCHANGED vars
    <2>1. UNCHANGED <<upload, queue, worker>>
      BY <1>5, AdminKeeps DEF vars
    <2> QED
      BY <2>1, HeldStays, WaitsStay
  <1>6. ASSUME NEW w \in Workers, Work(w) PROVE FALSE
    <2>1. /\ \A v \in Workers : v # w => worker'[v] = worker[v]
          /\ \A r \in Requests : LocalOf(r)' = LocalOf(r)
      BY <1>6, WorkMoves
    <2>2. \A v \in Workers : v # w => Pending(v)' = Pending(v)
      BY <2>1 DEF Pending, TodoOf
    <2>3. CASE TakeJob(w)
      <3>1. worker'[w] = Taken
        BY <2>3, TakeJobTyped DEF Becomes, Typed, TypeOK
      <3>2. worker'[w].stage \in {"idle", "split"} /\ worker'[w].todo = Head(queue).files
        BY <3>1 DEF Taken, At, Idle
      <3>3. Pending(w)' \subseteq SeqRange(Head(queue).files)
        BY <3>2 DEF Pending, Working, Marking, TodoOf
      <3>4. Queued = Queued' \cup SeqRange(Head(queue).files)
        BY <2>3, TakeJobTyped, QueueShrinks DEF Typed, TypeOK
      <3> QED
        BY <2>1, <2>2, <3>3, <3>4 DEF Waits
    <2>4. CASE ~TakeJob(w)
      <3>1. Pending(w)' \subseteq Pending(w)
        BY <1>6, <2>4, PendingShrinks
      <3>2. Queued' = Queued
        BY <1>6, <2>4, WorkTyped DEF Queued
      <3> QED
        BY <2>1, <2>2, <3>1, <3>2 DEF Waits
    <2> QED
      BY <2>3, <2>4
  <1>7. CASE Crash
    <2>1. \A r \in Requests : upload'[r].local = <<>>
      BY <1>7, CrashKeeps
    <2>2. queue' = <<>> /\ \A w \in Workers : worker'[w] = Idle
      BY <1>7, CrashKeeps
    <2>3. \A r \in Requests : LocalOf(r)' = {}
      BY <2>1, EmptyRange DEF LocalOf
    <2>4. Queued' = {}
      BY <2>2 DEF Queued
    <2>5. \A w \in Workers : Pending(w)' = {}
      BY <2>2 DEF Pending, Idle, Working, Marking
    <2> QED
      BY <2>3, <2>4, <2>5 DEF Waits
  <1> QED
    BY <1>1, <1>2, <1>3, <1>4, <1>5, <1>6, <1>7 DEF Next, Handle, Admin

\* An upload leaves the store alone and records at most one unread file.
LEMMA UploadWrites ==
    ASSUME ConstantsAssumption, Typed, UnreadHaveNone, NEW r \in Requests,
           BeginUpload(r) \/ RecordFile(r) \/ UploadFails(r)
    PROVE  /\ UNCHANGED <<live, durable, worker>>
           /\ \/ status' = status
              \/ \E g \in Files : status[g] = "none" /\ status' = [status EXCEPT ![g] = "gray"]
  <1>1. UNCHANGED <<live, durable, worker>>
    BY DEF BeginUpload, RecordFile, UploadFails, store
  <1>2. \A i \in upload[r].todo : BatchOf[r][i] \in Files /\ status[BatchOf[r][i]] = "none"
    BY InFlightIn DEF UnreadHaveNone, Unread
  <1>3. CASE BeginUpload(r)
    BY <1>1, <1>3 DEF BeginUpload, rows
  <1>4. CASE RecordFile(r)
    BY <1>1, <1>2, <1>4, RecordMoves DEF RecordFile
  <1>5. CASE UploadFails(r)
    BY <1>1, <1>2, <1>5, FailureMoves
  <1> QED
    BY <1>3, <1>4, <1>5

LEMMA RecordStoreStays ==
    ASSUME ConstantsAssumption, Typed, UnreadHaveNone, StoreInv, [Next]_vars, Grows,
           UNCHANGED <<live, durable, worker>>,
           NEW g \in Files, status[g] = "none", status' = [status EXCEPT ![g] = "gray"]
    PROVE  StoreInv'
  <1>1. /\ \A f \in Files : f # g => status'[f] = status[f]
        /\ status'[g] = "gray"
    BY DEF Typed, TypeOK
  <1>2. {g} \in SUBSET Files /\ \A f \in Files \ {g} : Mild(f) /\ (Waits(f)' => Waits(f))
    BY <1>1, WaitsShrink DEF Mild, Neither
  <1>3. \A f \in {g} : status[f] = "none" /\ status'[f] = "gray" /\ live'[f] = live[f] /\ durable'[f] = durable[f]
    BY <1>1
  <1> QED
    BY <1>2, <1>3, LoopTells

LEMMA QuietStoreStays ==
    ASSUME ConstantsAssumption, Typed, UnreadHaveNone, StoreInv, [Next]_vars, Grows,
           UNCHANGED <<status, live, durable, worker>>
    PROVE  StoreInv'
  <1>1. \A f \in Files : Mild(f) /\ (Waits(f)' => Waits(f))
    BY WaitsShrink DEF Mild, Neither
  <1> QED
    BY <1>1, LoopTells

LEMMA AdminStoreStays ==
    ASSUME ConstantsAssumption, Typed, StoreInv, DoomedAreChosen, Grows, Admin
    PROVE  StoreInv'
  <1>1. UNCHANGED <<status, upload, queue, worker>>
    BY AdminKeeps
  <1>2. \A f \in Files : Waits(f)' => Waits(f)
    BY <1>1, HeldStays, WaitsStay
  <1>3. \A f \in Files : Mild(f)
    <2>1. CASE UNCHANGED <<live, durable>>
      BY <1>1, <2>1 DEF Mild, Neither
    <2>2. ASSUME loop.step \in {"vectors", "sweep"}, live' = Forget(loop.files),
                 durable' = durable \/ durable' = live'
          PROVE  \A f \in Files : Mild(f)
      <3>1. loop.files \subseteq chosen'
        BY <2>2 DEF DoomedAreChosen, Grows
      <3> QED
        BY <1>1, <2>2, <3>1 DEF Mild, Neither, Forget, Typed, TypeOK
    <2> QED
      BY <2>1, <2>2 DEF Admin, NewKnowledgeBase, DeleteDocs, CleanFilesByStatus, DeleteKnowledgeBase,
                Begin, Delete, DeleteVectors, SweepPartition, RemoveVectors, DeleteRaises,
                DeleteRows, CollectPartition, MarkKbRow, MarkFileRows, store
  <1> QED
    BY <1>1, <1>2, <1>3, LoopTells

LEMMA CrashStoreStays ==
    ASSUME ConstantsAssumption, Typed, StoreInv, Grows, Crash
    PROVE  StoreInv'
  <1>1. /\ status' = status /\ durable' = durable /\ live' = durable
        /\ \A w \in Workers : worker'[w] = Idle
        /\ queue' = <<>> /\ \A r \in Requests : upload'[r].local = <<>>
    BY CrashKeeps
  <1>2. /\ \A r \in Requests : LocalOf(r)' = {}
        /\ Queued' = {}
        /\ \A w \in Workers : Pending(w)' = {}
    <2>1. \A r \in Requests : LocalOf(r)' = {}
      BY <1>1, EmptyRange DEF LocalOf
    <2>2. Queued' = {}
      BY <1>1 DEF Queued
    <2>3. \A w \in Workers : Pending(w)' = {}
      BY <1>1 DEF Pending, Idle, Working, Marking
    <2> QED
      BY <2>1, <2>2, <2>3
  <1>3. \A f \in Files : Mild(f) /\ (Waits(f)' => Waits(f))
    BY <1>1, <1>2 DEF Mild, Neither, Waits
  <1> QED
    BY <1>1, <1>3, LoopTells

LEMMA StoreStays ==
    ASSUME ConstantsAssumption, Typed, UnreadHaveNone, Apart, StoreInv, DoomedAreChosen, [Next]_vars
    PROVE  StoreInv'
  <1>1. Grows
    BY NextGrows
  <1>2. ASSUME NEW r \in Requests, BeginUpload(r) \/ RecordFile(r) \/ UploadFails(r) PROVE StoreInv'
    BY <1>1, <1>2, UploadWrites, RecordStoreStays, QuietStoreStays
  <1>3. ASSUME NEW f \in Weblinks, UploadWeblink(f) PROVE StoreInv'
    <2>1. f \in Files /\ UNCHANGED <<live, durable, worker>> /\ status[f] = "none"
          /\ status' = [status EXCEPT ![f] = "gray"]
      BY <1>3, WeblinkHolds DEF UploadWeblink, store
    <2> QED
      BY <1>1, <2>1, RecordStoreStays
  <1>4. CASE UNCHANGED vars
    BY <1>1, <1>4, QuietStoreStays DEF vars, rows, store
  <1> QED
    BY <1>1, <1>2, <1>3, <1>4, AdminStoreStays, CrashStoreStays, TakeTells, WorkStoreStays
    DEF Next, Handle, Admin

LEMMA DoomedStays ==
    ASSUME ConstantsAssumption, Typed, HeldHaveRows, StoreInv, DoomedAreChosen, [Next]_vars
    PROVE  DoomedAreChosen'
  <1> USE DEF DoomedAreChosen
  <1>1. Grows
    BY NextGrows
  <1>2. ASSUME loop'.step = "idle" PROVE DoomedAreChosen'
    BY <1>2
  <1>3. ASSUME NEW r \in Requests, BeginUpload(r) \/ RecordFile(r) \/ UploadFails(r) PROVE DoomedAreChosen'
    BY <1>2, <1>3 DEF BeginUpload, RecordFile, UploadFails, LoopIdle
  <1>4. ASSUME NEW f \in Weblinks, UploadWeblink(f) PROVE DoomedAreChosen'
    BY <1>2, <1>4 DEF UploadWeblink, LoopIdle
  <1>5. CASE NewKnowledgeBase
    BY <1>2, <1>5 DEF NewKnowledgeBase, LoopIdle
  <1>6. CASE (\E files \in DeleteLists : DeleteDocs(files)) \/ (\E s \in Statuses : CleanFilesByStatus(s))
    BY <1>6 DEF DeleteDocs, CleanFilesByStatus, Begin
  <1>7. CASE DeleteKnowledgeBase
    BY <1>7 DEF DeleteKnowledgeBase, Begin, rows
  <1>8. CASE DeleteVectors \/ SweepPartition
    <2>1. PICK next \in {"rows", "kbRow"} :
            /\ next = "kbRow" => loop.step = "sweep"
            /\ next = "rows" => loop.step = "vectors"
            /\ loop' = [loop EXCEPT !.step = next] /\ UNCHANGED <<status, chosen>>
      BY <1>8 DEF DeleteVectors, SweepPartition, RemoveVectors, rows, aux
    <2>2. loop'.step = next /\ loop'.files = loop.files
      BY <2>1 DEF Typed, TypeOK, LoopState
    <2> QED
      BY <2>1, <2>2
  <1>9. CASE CollectPartition
    <2>1. /\ loop.step = "collect" /\ UNCHANGED <<status, chosen>>
          /\ loop'.files = {f \in Files : live[f] # "no"} /\ loop'.step \in {"kbRow", "sweep"}
      BY <1>9 DEF CollectPartition, rows, aux
    <2>2. \A f \in Files : live[f] # "no" => status[f] # "none"
      BY DEF StoreInv, FileTold, Neither
    <2> QED
      BY <2>1, <2>2
  <1>10. CASE MarkKbRow
    <2>1. /\ loop.step = "kbRow" /\ UNCHANGED <<status, chosen>> /\ loop'.step = "fileRows"
      BY <1>10 DEF MarkKbRow, aux, Typed, TypeOK, LoopState
    <2> QED
      BY <2>1
  <1>11. CASE DeleteRaises \/ DeleteRows \/ MarkFileRows \/ Crash
    BY <1>2, <1>11 DEF DeleteRaises, DeleteRows, MarkFileRows, Crash, LoopIdle
  <1>12. ASSUME NEW w \in Workers, Work(w) PROVE DoomedAreChosen'
    <2>1. loop' = loop /\ chosen' = chosen
      BY <1>12, WorkKeeps
    <2>2. ASSUME NEW f \in Files, status'[f] # status[f] PROVE status[f] # "none"
      <3>1. worker[w].stage # "idle" /\ f = Head(worker[w].todo)
        BY <1>12, <2>2, WorkWrites
      <3>2. f \in FilesOf(w)
        BY <3>1, CurrentFile
      <3> QED
        BY <3>2 DEF HeldHaveRows, OnItsWay
    <2> QED
      BY <2>1, <2>2
  <1>13. CASE UNCHANGED vars
    BY <1>13 DEF vars, rows, aux
  <1> QED
    BY <1>3, <1>4, <1>5, <1>6, <1>7, <1>8, <1>9, <1>10, <1>11, <1>12, <1>13 DEF Next, Handle, Delete

-----------------------------------------------------------------------------
(* What a deletion leaves.                                                 *)

\* Files are chosen when nobody holds them.
LEMMA BeginSettles ==
    ASSUME ConstantsAssumption, Typed, NEW step, NEW files, NEW doomed \in SUBSET Files,
           Begin(step, files, doomed)
    PROVE  /\ \A f \in settled' : f \in settled \/ (f \in Files /\ status[f] # "none" /\ ~Waits(f) /\ f \notin erased)
           /\ loop' = [step |-> step, files |-> files]
           /\ UNCHANGED <<status, erased, live, durable, upload, queue, worker, saveFailed>>
  <1>1. \A f \in Files : f \notin InFlight => ~Waits(f)
    BY InFlightParts, PendingIn DEF Waits
  <1> QED
    BY <1>1 DEF Begin, Present, rows, store

\* Every deletion begins so.
LEMMA ChosenByBegin ==
    ASSUME ConstantsAssumption, Typed,
           (\E files \in DeleteLists : DeleteDocs(files)) \/ (\E s \in Statuses : CleanFilesByStatus(s))
              \/ DeleteKnowledgeBase
    PROVE  \E step \in {"vectors", "collect"} : \E files, doomed \in SUBSET Files : Begin(step, files, doomed)
  <1>1. ASSUME NEW files \in DeleteLists, DeleteDocs(files) PROVE Begin("vectors", files, files) /\ files \in SUBSET Files
    BY <1>1 DEF DeleteDocs, ConstantsAssumption
  <1>2. ASSUME NEW t, CleanFilesByStatus(t)
        PROVE  LET files == {f \in Present : status[f] = t} IN
               Begin("vectors", files, files) /\ files \in SUBSET Files
    BY <1>2 DEF CleanFilesByStatus, Present
  <1>3. CASE DeleteKnowledgeBase
    <2>1. Begin("collect", {}, {f \in Files : status[f] # "none"})
      BY <1>3 DEF DeleteKnowledgeBase
    <2> QED
      BY <2>1
  <1> QED
    BY <1>1, <1>2, <1>3

LEMMA QuietStays ==
    ASSUME ConstantsAssumption, Typed, UnreadHaveNone, SettledQuiet, [Next]_vars
    PROVE  SettledQuiet'
  <1>1. ASSUME NEW f \in Files, status[f] # "none", ~Waits(f) PROVE status'[f] # "none" /\ ~Waits(f)'
    BY <1>1, RowsStay, WaitsShrink
  <1>2. ASSUME NEW f \in settled' PROVE f \in Files /\ status[f] # "none" /\ ~Waits(f)
    <2>1. CASE settled' = settled
      BY <1>2, <2>1 DEF SettledQuiet
    <2>2. CASE (\E files \in DeleteLists : DeleteDocs(files)) \/ (\E s \in Statuses : CleanFilesByStatus(s))
                  \/ DeleteKnowledgeBase
      BY <1>2, <2>2, ChosenByBegin, BeginSettles DEF SettledQuiet
    <2> QED
      BY <2>1, <2>2 DEF Next, Handle, NewKnowledgeBase, BeginUpload, RecordFile, UploadFails,
          UploadWeblink, Delete, DeleteVectors, SweepPartition, RemoveVectors, DeleteRaises,
          DeleteRows, CollectPartition, MarkKbRow, MarkFileRows, Work, TakeJob, Advance, MarkRed,
          InsertSucceeds, InsertFails, MarkStored, JobRaises, FallbackRed, FallbackFails, Crash,
          vars, aux
  <1> QED
    BY <1>1, <1>2 DEF SettledQuiet

\* A worker inserts of files that wait, and of those nothing is saved yet.
LEMMA WorkStores ==
    ASSUME ConstantsAssumption, Typed, StoreInv, NEW w \in Workers, Work(w), saveFailed' = FALSE,
           \A f \in Files : live[f] = "no" => durable[f] = "no"
    PROVE  /\ saveFailed = FALSE
           /\ \A f \in Files : live'[f] # live[f] => Waits(f)
           /\ \A f \in Files : live'[f] = "no" => durable'[f] = "no"
  <1>1. CASE TakeJob(w) \/ Advance(w) \/ MarkRed(w) \/ MarkStored(w) \/ FallbackRed(w) \/ FallbackFails(w)
    BY <1>1 DEF TakeJob, Advance, MarkRed, MarkStored, FallbackRed, FallbackFails, store, aux
  <1>2. CASE JobRaises(w)
    BY <1>2 DEF JobRaises
  <1>3. CASE InsertSucceeds(w) \/ InsertFails(w)
    <2>1. worker[w].stage \in Working /\ saveFailed' = saveFailed
      BY <1>3 DEF InsertSucceeds, InsertFails, Working, aux
    <2>2. PICK g \in Files : g = Head(worker[w].todo) /\ g \in TodoOf(w) /\ Neither(g)
      BY <2>1, AtFile DEF Working
    <2>3. Waits(g)
      BY <2>1, <2>2 DEF Waits, Pending
    <2>4. \E a : live' = [live EXCEPT ![g] = a]
      BY <1>3, <2>2 DEF InsertSucceeds, InsertFails, Grown
    <2>5. durable' = live' \/ durable' = durable
      BY <1>3 DEF InsertSucceeds, InsertFails
    <2> QED
      BY <2>1, <2>2, <2>3, <2>4, <2>5 DEF Neither, Typed, TypeOK
  <1> QED
    BY <1>1, <1>2, <1>3 DEF Work

LEMMA RemovalDeletes ==
    ASSUME Typed, DeletionInv, NEW next, RemoveVectors(next)
    PROVE  /\ live' = Forget(loop.files) /\ UNCHANGED <<status, erased, settled, saveFailed>>
           /\ loop'.step = next /\ loop'.files = loop.files
           /\ \A f \in Files : live'[f] = "no" => durable'[f] = "no"
           /\ \A f \in Files : f \in loop.files => live'[f] = "no"
           /\ \A f \in Files : live[f] = "no" => live'[f] = "no"
  <1>1. /\ live' = Forget(loop.files) /\ UNCHANGED <<status, erased, settled, saveFailed>>
        /\ loop' = [loop EXCEPT !.step = next]
    BY DEF RemoveVectors, rows, aux
  <1>2. loop'.step = next /\ loop'.files = loop.files
    BY <1>1 DEF Typed, TypeOK, LoopState
  <1>3. \A f \in Files : live'[f] = "no" => durable'[f] = "no"
    <2>1. CASE \E f \in Files : live[f] # "no"
      BY <2>1 DEF RemoveVectors
    <2>2. CASE ~ \E f \in Files : live[f] # "no"
      BY <2>2 DEF RemoveVectors, DeletionInv
    <2> QED
      BY <2>1, <2>2
  <1> QED
    BY <1>1, <1>2, <1>3 DEF Forget

LEMMA SettledStays ==
    ASSUME ConstantsAssumption, Typed, HeldHaveRows, UnreadHaveNone, StoreInv, SettledQuiet, SettledInv, [Next]_vars
    PROVE  SettledInv'
  <1>1. saveFailed' \in BOOLEAN
    BY TypedStays DEF Typed, TypeOK
  <1> SUFFICES ASSUME saveFailed' = FALSE PROVE DeletionInv'
    BY <1>1 DEF SettledInv
  <1>2. ASSUME saveFailed = FALSE PROVE DeletionInv
    BY <1>2 DEF SettledInv
  <1>3. settled \subseteq Files
    BY DEF Typed, TypeOK
  <1>4. ASSUME UNCHANGED <<erased, live, durable, settled, saveFailed>>,
               loop'.step \in {"idle", "vectors", "collect"}
        PROVE  DeletionInv'
    BY <1>2, <1>4 DEF DeletionInv
  <1>5. ASSUME NEW r \in Requests, BeginUpload(r) \/ RecordFile(r) \/ UploadFails(r) PROVE DeletionInv'
    BY <1>4, <1>5 DEF BeginUpload, RecordFile, UploadFails, rows, store, aux, LoopIdle
  <1>6. ASSUME NEW f \in Weblinks, UploadWeblink(f) PROVE DeletionInv'
    BY <1>4, <1>6 DEF UploadWeblink, store, aux, LoopIdle
  <1>7. CASE NewKnowledgeBase
    BY <1>4, <1>7 DEF NewKnowledgeBase, store, aux, LoopIdle
  <1>8. CASE (\E files \in DeleteLists : DeleteDocs(files)) \/ (\E s \in Statuses : CleanFilesByStatus(s))
                \/ DeleteKnowledgeBase
    <2>1. PICK step \in {"vectors", "collect"} : \E files, doomed \in SUBSET Files : Begin(step, files, doomed)
      BY <1>8, ChosenByBegin
    <2>2. /\ \A f \in settled' : f \in settled \/ f \notin erased
          /\ loop'.step = step /\ UNCHANGED <<erased, live, durable, saveFailed>>
      BY <2>1, BeginSettles
    <2> QED
      BY <1>2, <2>2 DEF DeletionInv
  <1>9. CASE DeleteVectors
    <2>1. RemoveVectors("rows")
      BY <1>9 DEF DeleteVectors
    <2>2. DeletionInv
      BY <1>2, <2>1 DEF RemoveVectors, aux
    <2>3. /\ erased' = erased /\ settled' = settled /\ loop'.step = "rows" /\ loop'.files = loop.files
          /\ \A f \in Files : live'[f] = "no" => durable'[f] = "no"
          /\ \A f \in settled : f \in loop.files => live'[f] = "no"
          /\ \A f \in settled : live[f] = "no" => live'[f] = "no"
      BY <1>3, <2>1, <2>2, RemovalDeletes
    <2> QED
      BY <2>2, <2>3 DEF DeletionInv
  <1>10. CASE SweepPartition
    <2>1. RemoveVectors("kbRow") /\ loop.step = "sweep"
      BY <1>10 DEF SweepPartition
    <2>2. saveFailed = FALSE
      BY <2>1 DEF RemoveVectors, aux
    <2> QED
      BY <1>2, <1>3, <2>1, <2>2, RemovalDeletes DEF DeletionInv
  <1>11. CASE DeleteRaises
    BY <1>11 DEF DeleteRaises
  <1>12. CASE DeleteRows
    <2>1. /\ loop.step = "rows" /\ loop'.step = "idle" /\ erased' \subseteq erased \cup loop.files
          /\ UNCHANGED <<live, durable, settled, saveFailed>>
      BY <1>12 DEF DeleteRows, LoopIdle, store, aux
    <2> QED
      BY <1>2, <2>1 DEF DeletionInv
  <1>13. CASE CollectPartition
    <2>1. /\ loop'.files = {f \in Files : live[f] # "no"} /\ UNCHANGED <<erased, live, durable, settled, saveFailed>>
          /\ \/ loop'.step = "sweep"
             \/ loop'.step = "kbRow" /\ loop'.files = {}
      BY <1>13 DEF CollectPartition, rows, store, aux
    <2> QED
      BY <1>2, <1>3, <2>1 DEF DeletionInv
  <1>14. CASE MarkKbRow
    <2>1. /\ loop.step = "kbRow" /\ loop'.step = "fileRows" /\ UNCHANGED <<erased, live, durable, settled, saveFailed>>
      BY <1>14 DEF MarkKbRow, store, aux, Typed, TypeOK, LoopState
    <2> QED
      BY <1>2, <2>1 DEF DeletionInv
  <1>15. CASE MarkFileRows
    <2>1. /\ loop.step = "fileRows" /\ loop'.step = "idle" /\ UNCHANGED <<live, durable, settled, saveFailed>>
      BY <1>15 DEF MarkFileRows, store, aux, LoopIdle
    <2> QED
      BY <1>2, <2>1 DEF DeletionInv
  <1>16. ASSUME NEW w \in Workers, Work(w) PROVE DeletionInv'
    <2>1. UNCHANGED <<erased, loop, settled>>
      BY <1>16, WorkKeeps
    <2>2. saveFailed = FALSE
      BY <1>16 DEF Work, TakeJob, Advance, MarkRed, InsertSucceeds, InsertFails, MarkStored,
                   JobRaises, FallbackRed, FallbackFails, aux
    <2>3. DeletionInv
      BY <1>2, <2>2
    <2>4. /\ \A f \in Files : live'[f] # live[f] => Waits(f)
          /\ \A f \in Files : live'[f] = "no" => durable'[f] = "no"
      BY <1>16, <2>3, WorkStores DEF DeletionInv
    <2>5. \A f \in settled : live'[f] = live[f]
      BY <1>3, <2>4 DEF SettledQuiet
    <2> QED
      BY <2>1, <2>3, <2>4, <2>5 DEF DeletionInv
  <1>17. CASE Crash
    <2>1. /\ UNCHANGED <<erased, durable, settled, saveFailed>> /\ live' = durable /\ loop' = LoopIdle
      BY <1>17, CrashKeeps
    <2> QED
      BY <1>2, <1>3, <2>1 DEF DeletionInv, LoopIdle
  <1>18. CASE UNCHANGED vars
    BY <1>2, <1>18 DEF DeletionInv, vars, rows, store, aux
  <1> QED
    BY <1>5, <1>6, <1>7, <1>8, <1>9, <1>10, <1>11, <1>12, <1>13, <1>14, <1>15, <1>16, <1>17, <1>18
    DEF Next, Handle, Delete

-----------------------------------------------------------------------------
(* The theorems.                                                           *)

IInv ==
    /\ Typed
    /\ HeldHaveRows /\ UnreadHaveNone /\ Apart
    /\ KbInv /\ GrayIsHeldOrLost
    /\ StoreInv /\ DoomedAreChosen
    /\ SettledQuiet /\ SettledInv

LEMMA NothingThere ==
    ASSUME ConstantsAssumption, Init
    PROVE  /\ \A r \in Requests : LocalOf(r) = {} /\ upload[r].todo = {}
           /\ Queued = {}
           /\ \A w \in Workers : worker[w].stage = "idle" /\ FilesOf(w) = {} /\ Pending(w) = {}
  <1>1. /\ \A r \in Requests : upload[r].local = <<>> /\ upload[r].todo = {}
        /\ \A w \in Workers : worker[w].stage = "idle" /\ worker[w].files = <<>>
        /\ queue = <<>>
    BY DEF Init, Idle
  <1>2. Queued = {}
    BY <1>1 DEF Queued
  <1>3. \A r \in Requests : LocalOf(r) = {}
    BY <1>1, EmptyRange DEF LocalOf
  <1>4. \A w \in Workers : FilesOf(w) = {} /\ Pending(w) = {}
    BY <1>1, EmptyRange DEF FilesOf, Pending, Working, Marking
  <1> QED
    BY <1>1, <1>2, <1>3, <1>4

LEMMA IInvInit == ASSUME ConstantsAssumption, Init PROVE IInv
  <1>1. HeldHaveRows
    BY NothingThere DEF HeldHaveRows, OnItsWay
  <1>2. UnreadHaveNone
    BY DEF UnreadHaveNone, Init
  <1>3. KbInv
    BY DEF KbInv, DeletedKbIsEmpty, Init
  <1>4. \A f \in Files : status[f] = "none" /\ Neither(f) /\ ~Waits(f)
    BY NothingThere DEF Init, Neither, Waits
  <1>5. StoreInv
    BY <1>4, NothingThere DEF StoreInv, FileTold, WorkerKnows, Marking
  <1>6. DoomedAreChosen /\ SettledQuiet /\ SettledInv
    BY DEF DoomedAreChosen, SettledQuiet, SettledInv, DeletionInv, Init, LoopIdle
  <1> QED
    BY <1>1, <1>2, <1>3, <1>5, <1>6, InitTyped, ApartInit, GrayInit DEF IInv

LEMMA IInvStays == ASSUME ConstantsAssumption, IInv, [Next]_vars PROVE IInv'
  BY TypedStays, HeldRowsStay, UnreadStays, ApartStays, KbStays, GrayStays, StoreStays, DoomedStays,
     QuietStays, SettledStays DEF IInv

\* Where every file is, what its row and the store say of it, and how far a
\* deletion got, for any uploads, deletions, workers and faults.
THEOREM Invariant == ASSUME ConstantsAssumption PROVE Spec => []IInv
  <1>1. Init => IInv
    BY IInvInit
  <1>2. IInv /\ [Next]_vars => IInv'
    BY IInvStays
  <1> QED
    BY <1>1, <1>2, PTL DEF Spec

\* Rows, store, uploads, queue, jobs and the deletion in progress keep their
\* shape.
THEOREM TypeCorrect == ASSUME ConstantsAssumption PROVE Spec => []TypeOK
  <1>1. IInv => TypeOK
    BY DEF IInv, Typed
  <1> QED
    BY <1>1, Invariant, PTL

\* What the user is shown of a file is what the store holds of it, whatever
\* jobs, deletions of other files, failing saves and crashes come in between.
THEOREM StatusesTellStore == ASSUME ConstantsAssumption PROVE Spec => []StatusTellsStore
  <1>1. IInv => StatusTellsStore
    BY DEF IInv, StoreInv, FileTold, Neither, StatusTellsStore, Present
  <1> QED
    BY <1>1, Invariant, PTL

\* A deletion of files nobody held leaves nothing of them, in memory or on
\* disk, unless some save failed.
THEOREM SettledDeletionsComplete == ASSUME ConstantsAssumption PROVE Spec => []SettledDeletionIsComplete
  <1>1. IInv => SettledDeletionIsComplete
    BY DEF IInv, Typed, TypeOK, SettledInv, DeletionInv, SettledDeletionIsComplete
  <1> QED
    BY <1>1, Invariant, PTL

\* No file is stranded: a gray one is still held by an upload or a job, or its
\* upload or job died.
THEOREM NothingIsStranded == ASSUME ConstantsAssumption PROVE Spec => []GrayIsInFlightOrLost
  <1>1. IInv => GrayIsInFlightOrLost
    BY InFlightParts DEF IInv, GrayIsHeldOrLost, IsHeld, GrayIsInFlightOrLost
  <1> QED
    BY <1>1, Invariant, PTL

\* A deleted knowledge base stays empty, whatever uploads were waiting for data
\* when it was deleted.
THEOREM DeletedKbStaysEmpty == ASSUME ConstantsAssumption PROVE Spec => []DeletedKbIsEmpty
  <1>1. IInv => DeletedKbIsEmpty
    BY DEF IInv, KbInv
  <1> QED
    BY <1>1, Invariant, PTL

=============================================================================
