----------------------------- MODULE Ingestion -----------------------------
(***************************************************************************)
(* How documents enter and leave one knowledge base: the upload and delete *)
(* handlers on the event loop (bishon_server/handler.py), the File and     *)
(* KnowledgeBase rows in SQLite (sqlite_client.py), the executor workers   *)
(* running insert_files_to_milvus (core/local_doc_qa.py) and the vector    *)
(* store, seen as VectorStore.tla describes it.                            *)
(*                                                                         *)
(* The event loop runs one handler at a time and switches only at an       *)
(* await; workers run in parallel with it.  A handler that makes several   *)
(* calls without an await is several steps here, because workers and a     *)
(* crash may come in between, and "loop" keeps other handlers out.         *)
(***************************************************************************)
EXTENDS Integers, Sequences, FiniteSets

CONSTANTS
    Files,       \* file ids add_file will give out
    Requests,    \* upload_files requests
    BatchOf,     \* request -> its sequence of files
    SoftMode,    \* the requests and web links uploaded in mode soft
    NameOf,      \* file -> its name (for a web link, the URL)
    Weblinks,    \* the files uploaded by upload_weblink
    DeleteLists, \* the lists of files that delete_files requests name
    Workers,     \* threads of the executor (4 in the code)
    Faults,      \* which of "crash", "raise" and "save" may happen
    MaxCrashes   \* bound on the number of process restarts

SeqRange(s) == {s[i] : i \in DOMAIN s}
Distinct(s) == \A i, j \in DOMAIN s : s[i] = s[j] => i = j

\* An id is given out once.
ASSUME ConstantsAssumption ==
    /\ BatchOf \in [Requests -> Seq(Files)]
    /\ \A r \in Requests : Distinct(BatchOf[r])
    /\ \A r, q \in Requests : r # q => SeqRange(BatchOf[r]) \cap SeqRange(BatchOf[q]) = {}
    /\ SoftMode \subseteq Requests \cup Weblinks
    /\ Weblinks \subseteq Files
    /\ \A r \in Requests : SeqRange(BatchOf[r]) \cap Weblinks = {}
    /\ DeleteLists \subseteq SUBSET Files
    /\ Faults \subseteq {"crash", "raise", "save"}
    /\ MaxCrashes \in Nat

VARIABLES
    kb,        \* the KnowledgeBase row
    status,    \* the status column of each File row, "none" without a row
    erased,    \* files whose row has deleted = 1
    live,      \* how much of a file the client's memory holds
    durable,   \* how much of it the saved files hold
    upload,    \* request -> how far upload_files got
    loop,      \* the deletion handler the event loop is in the middle of
    queue,     \* jobs waiting for a worker
    worker,    \* worker -> the job it runs and where it is
    chosen,    \* files some deletion was asked for
    settled,   \* those of them no upload or job held at that moment
    raised,    \* files of a job an exception ended
    lost,      \* files whose job, or upload before its job, died
    saveFailed,
    crashes

rows   == <<kb, status, erased>>
store  == <<live, durable>>
aux    == <<chosen, settled, raised, lost, saveFailed, crashes>>
vars   == <<rows, store, upload, loop, queue, worker, aux>>

Statuses == {"gray", "green", "red", "yellow"}
Amount   == {"no", "part", "all"}

Job == [files : Seq(Files), safe : BOOLEAN]
\* todo: files still to process, the current one first; files: all of the job.
WorkerState == [stage : {"idle", "split", "embed", "insert", "green", "yellow", "fallback"},
                todo : Seq(Files), files : Seq(Files), safe : BOOLEAN]
Idle == [stage |-> "idle", todo |-> <<>>, files |-> <<>>, safe |-> FALSE]

\* todo: positions of the files still to be read; local: the recorded ones.
UploadState == [phase : {"new", "reading", "done"}, todo : SUBSET Nat, local : Seq(Files)]
UploadDone == [phase |-> "done", todo |-> {}, local |-> <<>>]
LoopState == [step : {"idle", "vectors", "rows", "collect", "sweep", "kbRow", "fileRows"},
              files : SUBSET Files]
LoopIdle == [step |-> "idle", files |-> {}]

TypeOK ==
    /\ kb \in {"absent", "live", "deleted"}
    /\ status \in [Files -> Statuses \cup {"none"}]
    /\ erased \subseteq Files
    /\ live \in [Files -> Amount] /\ durable \in [Files -> Amount]
    /\ upload \in [Requests -> UploadState]
    /\ \A r \in Requests : upload[r].todo \subseteq DOMAIN BatchOf[r]
    /\ loop \in LoopState
    /\ queue \in Seq(Job)
    /\ worker \in [Workers -> WorkerState]
    /\ chosen \subseteq Files /\ settled \subseteq Files
    /\ raised \subseteq Files /\ lost \subseteq Files
    /\ saveFailed \in BOOLEAN
    /\ crashes \in Nat

Init ==
    /\ kb = "absent"
    /\ status = [f \in Files |-> "none"] /\ erased = {}
    /\ live = [f \in Files |-> "no"] /\ durable = [f \in Files |-> "no"]
    /\ upload = [r \in Requests |-> [phase |-> "new", todo |-> {}, local |-> <<>>]]
    /\ loop = LoopIdle
    /\ queue = <<>>
    /\ worker = [w \in Workers |-> Idle]
    /\ chosen = {} /\ settled = {} /\ raised = {} /\ lost = {}
    /\ saveFailed = FALSE
    /\ crashes = 0

Present == {f \in Files : status[f] # "none"} \ erased

\* Files some upload has yet to hand over or some job has yet to finish.
InFlight ==
    (UNION {{BatchOf[r][i] : i \in upload[r].todo} \cup SeqRange(upload[r].local) : r \in Requests})
        \cup (UNION {SeqRange(queue[i].files) : i \in DOMAIN queue})
        \cup (UNION {SeqRange(worker[w].todo) : w \in Workers})

-----------------------------------------------------------------------------
(* new_knowledge_base                                                      *)

NewKnowledgeBase ==
    /\ loop = LoopIdle
    /\ kb = "absent"
    /\ kb' = "live"
    /\ UNCHANGED <<status, erased, store, upload, loop, queue, worker, aux>>

-----------------------------------------------------------------------------
(* upload_files: the knowledge base and, in soft mode, the names are       *)
(* checked once; then each file is read (an await) and recorded.  The      *)
(* list goes to the executor in the step that records the last file.       *)

\* Where upload r is once "todo" is still to be read and "local" is recorded.
Continue(r, todo, local) ==
    IF todo = {}
    THEN /\ upload' = [upload EXCEPT ![r] = UploadDone]
         /\ queue' = Append(queue, [files |-> local, safe |-> TRUE])
    ELSE /\ upload' = [upload EXCEPT ![r] = [phase |-> "reading", todo |-> todo, local |-> local]]
         /\ UNCHANGED queue

BeginUpload(r) ==
    /\ loop = LoopIdle
    /\ upload[r].phase = "new"
    /\ kb = "live"
    /\ LET taken == {NameOf[f] : f \in Present}
           fresh == {i \in DOMAIN BatchOf[r] : r \in SoftMode => NameOf[BatchOf[r][i]] \notin taken}
       IN  Continue(r, fresh, <<>>)
    /\ UNCHANGED <<rows, store, loop, worker, aux>>

\* The next file was read: a row is added, and the upload goes on.
First(i, todo) == i \in todo /\ \A j \in todo : i <= j

Record(r) ==
    \E i \in upload[r].todo :
        LET f == BatchOf[r][i] IN
        /\ First(i, upload[r].todo)
        /\ status' = [status EXCEPT ![f] = "gray"]
        /\ Continue(r, upload[r].todo \ {i}, Append(upload[r].local, f))

\* Faulty variant: the check made before the await is trusted after it.
RecordFileUnchecked(r) ==
    /\ loop = LoopIdle
    /\ upload[r].phase = "reading"
    /\ Record(r)
    /\ UNCHANGED <<kb, erased, store, loop, worker, aux>>

\* add_file, the copy on disk, LocalFile, update_file_size.
RecordFile(r) ==
    /\ loop = LoopIdle
    /\ upload[r].phase = "reading"
    /\ kb = "live"
    /\ Record(r)
    /\ UNCHANGED <<kb, erased, store, loop, worker, aux>>

\* The knowledge base was deleted during the await, so add_file returns no id
\* and os.path.join raises; or the copy cannot be written, after the row was.
\* The files recorded before never reach the executor.
UploadFails(r) ==
    LET recorded == SeqRange(upload[r].local) IN
    /\ loop = LoopIdle
    /\ upload[r].phase = "reading"
    /\ \/ /\ kb # "live"
          /\ lost' = lost \cup recorded
          /\ UNCHANGED status
       \/ /\ kb = "live" /\ "raise" \in Faults
          /\ \E i \in upload[r].todo :
                /\ First(i, upload[r].todo)
                /\ status' = [status EXCEPT ![BatchOf[r][i]] = "gray"]
                /\ lost' = lost \cup recorded \cup {BatchOf[r][i]}
    /\ upload' = [upload EXCEPT ![r] = UploadDone]
    /\ UNCHANGED <<kb, erased, store, loop, queue, worker, chosen, settled, raised,
                   saveFailed, crashes>>

\* upload_weblink: no await, and the bare insert_files_to_milvus is submitted.
UploadWeblink(f) ==
    /\ loop = LoopIdle
    /\ kb = "live"
    /\ status[f] = "none"
    /\ f \in SoftMode => NameOf[f] \notin {NameOf[g] : g \in Present}
    /\ status' = [status EXCEPT ![f] = "gray"]
    /\ queue' = Append(queue, [files |-> <<f>>, safe |-> FALSE])
    /\ UNCHANGED <<kb, erased, store, upload, loop, worker, aux>>

-----------------------------------------------------------------------------
(* delete_docs and clean_files_by_status choose files, then delete their   *)
(* vectors, then mark their rows; delete_knowledge_base collects the files *)
(* of the partition, deletes their vectors, marks the row of the knowledge *)
(* base and, with a second commit, those of its files.                     *)

Begin(step, files, doomed) ==
    /\ loop' = [step |-> step, files |-> files]
    /\ chosen' = chosen \cup doomed
    /\ settled' = settled \cup ((doomed \cap Present) \ InFlight)
    /\ UNCHANGED <<rows, store, upload, queue, worker, raised, lost, saveFailed, crashes>>

DeleteDocs(files) ==
    /\ loop = LoopIdle
    /\ kb = "live"
    /\ files \cap Present # {}
    /\ Begin("vectors", files, files)

CleanFilesByStatus(s) ==
    /\ loop = LoopIdle
    /\ kb = "live"
    /\ LET files == {f \in Present : status[f] = s} IN
          /\ files # {}
          /\ Begin("vectors", files, files)

Forget(files) == [f \in Files |-> IF f \in files THEN "no" ELSE live[f]]

\* Faulty variant: the deletion is not saved.
RemoveVectorsUnsaved(next) ==
    /\ live' = Forget(loop.files)
    /\ loop' = [loop EXCEPT !.step = next]
    /\ UNCHANGED <<rows, durable, upload, queue, worker, aux>>

\* delete_files of the client: with no metadata at all it returns at once,
\* otherwise it saves what is left.
RemoveVectors(next) ==
    /\ live' = Forget(loop.files)
    /\ IF \E f \in Files : live[f] # "no" THEN durable' = live' ELSE UNCHANGED durable
    /\ loop' = [loop EXCEPT !.step = next]
    /\ UNCHANGED <<rows, upload, queue, worker, aux>>

DeleteVectors == loop.step = "vectors" /\ RemoveVectors("rows")

\* The save raises: the handler ends there.
DeleteRaises ==
    /\ loop.step \in {"vectors", "sweep"}
    /\ "save" \in Faults
    /\ \E f \in Files : live[f] # "no"
    /\ live' = Forget(loop.files)
    /\ loop' = LoopIdle
    /\ saveFailed' = TRUE
    /\ UNCHANGED <<rows, durable, upload, queue, worker, chosen, settled, raised, lost, crashes>>

\* kb_manager.delete_files
DeleteRows ==
    /\ loop.step = "rows"
    /\ erased' = erased \cup {f \in loop.files : status[f] # "none"}
    /\ loop' = LoopIdle
    /\ UNCHANGED <<kb, status, store, upload, queue, worker, aux>>

DeleteKnowledgeBase ==
    /\ loop = LoopIdle
    /\ kb = "live"
    /\ Begin("collect", {}, {f \in Files : status[f] # "none"})

CollectPartition ==
    /\ loop.step = "collect"
    /\ LET found == {f \in Files : live[f] # "no"} IN
          loop' = [step |-> IF found = {} THEN "kbRow" ELSE "sweep", files |-> found]
    /\ UNCHANGED <<rows, store, upload, queue, worker, aux>>

SweepPartition == loop.step = "sweep" /\ RemoveVectors("kbRow")

MarkKbRow ==
    /\ loop.step = "kbRow"
    /\ kb' = "deleted"
    /\ loop' = [loop EXCEPT !.step = "fileRows"]
    /\ UNCHANGED <<status, erased, store, upload, queue, worker, aux>>

MarkFileRows ==
    /\ loop.step = "fileRows"
    /\ erased' = {f \in Files : status[f] # "none"}
    /\ loop' = LoopIdle
    /\ UNCHANGED <<kb, status, store, upload, queue, worker, aux>>

-----------------------------------------------------------------------------
(* A worker runs insert_files_to_milvus, for uploads inside _safe_insert.  *)
(* Row updates go by file id alone, whether or not the row is deleted.     *)

At(todo, files, safe) ==
    IF todo = <<>> THEN Idle
    ELSE [stage |-> "split", todo |-> todo, files |-> files, safe |-> safe]

Stage(w, s) == worker' = [worker EXCEPT ![w].stage = s]

\* The current file got its status: the next one, or the end of the job.
NextFile(w) ==
    worker' = [worker EXCEPT ![w] = At(Tail(@.todo), @.files, @.safe)]

TakeJob(w) ==
    /\ worker[w].stage = "idle"
    /\ queue # <<>>
    /\ worker' = [worker EXCEPT ![w] = At(Head(queue).files, Head(queue).files, Head(queue).safe)]
    /\ queue' = Tail(queue)
    /\ UNCHANGED <<rows, store, upload, loop, aux>>

\* split_file_to_docs or create_embedding succeeded.
Advance(w) ==
    /\ \/ worker[w].stage = "split" /\ Stage(w, "embed")
       \/ worker[w].stage = "embed" /\ Stage(w, "insert")
    /\ UNCHANGED <<rows, store, upload, loop, queue, aux>>

\* Faulty variant: the loop over the files ends at the first bad one.
MarkRedAndStop(w) ==
    /\ worker[w].stage \in {"split", "embed"}
    /\ status' = [status EXCEPT ![Head(worker[w].todo)] = "red"]
    /\ worker' = [worker EXCEPT ![w] = Idle]
    /\ UNCHANGED <<kb, erased, store, upload, loop, queue, aux>>

\* Faulty variant: the job goes on, but the row is not written.
MarkRedUnmarked(w) ==
    /\ worker[w].stage \in {"split", "embed"}
    /\ NextFile(w)
    /\ UNCHANGED <<rows, store, upload, loop, queue, aux>>

\* Splitting or embedding raised: the file turns red, the job goes on.
MarkRed(w) ==
    /\ worker[w].stage \in {"split", "embed"}
    /\ status' = [status EXCEPT ![Head(worker[w].todo)] = "red"]
    /\ NextFile(w)
    /\ UNCHANGED <<kb, erased, store, upload, loop, queue, aux>>

Grown(w, amount) == [live EXCEPT ![Head(worker[w].todo)] = amount]

\* Faulty variant: the file counts as stored before the store was asked.
InsertTooEarly(w) ==
    /\ worker[w].stage = "embed"
    /\ UNCHANGED store
    /\ Stage(w, "green")
    /\ UNCHANGED <<rows, upload, loop, queue, aux>>

InsertSucceeds(w) ==
    /\ worker[w].stage = "insert"
    /\ live' = Grown(w, "all")
    /\ durable' = live'
    /\ Stage(w, "green")
    /\ UNCHANGED <<rows, upload, loop, queue, aux>>

\* A batch could not be added: False, no save, earlier batches stay.
InsertFails(w) ==
    /\ worker[w].stage = "insert"
    /\ \E a \in {"no", "part"} : live' = Grown(w, a)
    /\ Stage(w, "yellow")
    /\ UNCHANGED <<rows, durable, upload, loop, queue, aux>>

\* Faulty variant: the row is written while the store is still being asked.
MarkStoredEarly(w) ==
    /\ worker[w].stage \in {"insert", "green", "yellow"}
    /\ status' = [status EXCEPT ![Head(worker[w].todo)] = worker[w].stage]
    /\ NextFile(w)
    /\ UNCHANGED <<kb, erased, store, upload, loop, queue, aux>>

MarkStored(w) ==
    /\ worker[w].stage \in {"green", "yellow"}
    /\ status' = [status EXCEPT ![Head(worker[w].todo)] = worker[w].stage]
    /\ NextFile(w)
    /\ UNCHANGED <<kb, erased, store, upload, loop, queue, aux>>

\* An exception leaves insert_files_to_milvus: a row update or, at "insert",
\* the save raised.  _safe_insert goes on to mark every file of the job red;
\* for a web link the future that holds the exception is dropped.
JobRaises(w) ==
    /\ "raise" \in Faults
    /\ worker[w].stage \in {"split", "embed", "insert", "green", "yellow"}
    /\ IF worker[w].stage = "insert"
       THEN /\ \E a \in Amount : live' = Grown(w, a)
            /\ saveFailed' = TRUE
       ELSE UNCHANGED <<live, saveFailed>>
    /\ IF worker[w].safe
       THEN /\ worker' = [worker EXCEPT ![w].stage = "fallback", ![w].todo = worker[w].files]
            /\ raised' = raised \cup SeqRange(worker[w].files)
            /\ UNCHANGED lost
       ELSE /\ worker' = [worker EXCEPT ![w] = Idle]
            /\ lost' = lost \cup SeqRange(worker[w].todo)
            /\ UNCHANGED raised
    /\ UNCHANGED <<rows, durable, upload, loop, queue, chosen, settled, crashes>>

NextFallback(w) ==
    LET rest == Tail(worker[w].todo) IN
    worker' = [worker EXCEPT ![w] = IF rest = <<>> THEN Idle ELSE [@ EXCEPT !.todo = rest]]

FallbackRed(w) ==
    /\ worker[w].stage = "fallback"
    /\ status' = [status EXCEPT ![Head(worker[w].todo)] = "red"]
    /\ NextFallback(w)
    /\ UNCHANGED <<kb, erased, store, upload, loop, queue, aux>>

\* That row update raises too: it is logged, the row stays as it was.
FallbackFails(w) ==
    /\ worker[w].stage = "fallback"
    /\ "raise" \in Faults
    /\ lost' = lost \cup {Head(worker[w].todo)}
    /\ NextFallback(w)
    /\ UNCHANGED <<rows, store, upload, loop, queue, chosen, settled, raised,
                   saveFailed, crashes>>

-----------------------------------------------------------------------------
(* The process dies and comes back: requests, queue and jobs are gone, the *)
(* store reloads what was saved, the rows stay.                            *)

Crash ==
    /\ "crash" \in Faults
    /\ crashes < MaxCrashes
    /\ crashes' = crashes + 1
    /\ live' = durable
    /\ upload' = [r \in Requests |-> IF upload[r].phase = "reading" THEN UploadDone ELSE upload[r]]
    /\ loop' = LoopIdle
    /\ queue' = <<>>
    /\ worker' = [w \in Workers |-> Idle]
    /\ lost' = lost \cup InFlight
    /\ UNCHANGED <<rows, durable, chosen, settled, raised, saveFailed>>

Work(w) == \/ TakeJob(w) \/ Advance(w) \/ MarkRed(w)
           \/ InsertSucceeds(w) \/ InsertFails(w) \/ MarkStored(w)
           \/ JobRaises(w) \/ FallbackRed(w) \/ FallbackFails(w)

Delete == \/ DeleteVectors \/ DeleteRaises \/ DeleteRows
          \/ CollectPartition \/ SweepPartition \/ MarkKbRow \/ MarkFileRows

\* What runs on the event loop.
Handle ==
    \/ NewKnowledgeBase
    \/ \E r \in Requests : BeginUpload(r) \/ RecordFile(r) \/ UploadFails(r)
    \/ \E f \in Weblinks : UploadWeblink(f)
    \/ \E files \in DeleteLists : DeleteDocs(files)
    \/ \E s \in Statuses : CleanFilesByStatus(s)
    \/ DeleteKnowledgeBase
    \/ Delete

Next == Handle \/ (\E w \in Workers : Work(w)) \/ Crash

Spec == Init /\ [][Next]_vars

-----------------------------------------------------------------------------
(* Properties.                                                             *)

\* The status the user sees is what the store holds: a green file is stored
\* whole, in memory and on disk, a yellow one is not stored whole, a red one
\* is not stored at all unless an exception ended its job after it was.
StatusTellsStore ==
    \A f \in Present \ chosen :
        /\ status[f] = "green" => live[f] = "all" /\ durable[f] = "all"
        /\ status[f] = "yellow" => live[f] # "all"
        /\ status[f] = "red" /\ f \notin raised => live[f] = "no"

\* A deletion of files nobody was still processing, once its rows are marked,
\* leaves nothing of them in memory or on disk, unless some save failed.
SettledDeletionIsComplete ==
    ~saveFailed => \A f \in erased \cap settled : live[f] = "no" /\ durable[f] = "no"

\* A gray row is being processed, or its upload or job died: one bad file, or
\* an exception in its job, strands no other file of the same upload.
GrayIsInFlightOrLost ==
    \A f \in Present : status[f] = "gray" => f \in InFlight \cup lost

\* A deleted knowledge base has no file left, however the uploads that were
\* waiting for data when it was deleted go on.
DeletedKbIsEmpty ==
    kb = "deleted" /\ loop.step # "fileRows" /\ crashes = 0 => Present = {}

\* Every recorded file gets a final status, unless its upload or job died.
GraySettles == \A f \in Files : status[f] = "gray" ~> (status[f] # "gray" \/ f \in lost)

\* docs/design/testing-design.md: a deleted file is not found by a search.
DeletedUnsearchable == \A f \in erased : live[f] = "no"
=============================================================================
