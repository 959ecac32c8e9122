---------------------------- MODULE KnowledgeBases ----------------------------
(***************************************************************************)
(* The metadata of all users (sqlite_client.py) under every request that   *)
(* reads or writes it (handler.py): users, their knowledge bases and the   *)
(* files in them, next to the copies on disk and the vectors of each user. *)
(* What a job does with a file is Ingestion.tla's; here it is one step.    *)
(*                                                                         *)
(* Each query and each commit of a handler is a step, because the workers  *)
(* update rows meanwhile and the process may die in between; "loop" keeps  *)
(* other handlers out until the handler ends or awaits.                    *)
(***************************************************************************)
EXTENDS Integers, Sequences, FiniteSets

CONSTANTS
    Users,
    Kbs,         \* ids new_knowledge_base will give out, in order (a uuid in the code)
    Files,       \* ids add_file will give out, in order
    KbNames, NoName,
    NameLists,   \* the names an upload_files request may come with
    Urls,        \* names that begin with http
    OddNames,    \* names with "..", "/" or a backslash
    Outcomes,    \* how insert_files_to_milvus may leave a file
    Faults       \* which of "crash" and "raise" may happen

Server == "server"

ASSUME ConstantsAssumption ==
    /\ Server \notin Users
    /\ Kbs \subseteq Nat \ {0} /\ Files \subseteq Nat
    /\ NoName \in KbNames
    /\ Urls \cap OddNames = {}
    /\ Outcomes \subseteq {"green", "yellow", "red"}
    /\ Faults \subseteq {"crash", "raise"}

VARIABLES
    users,     \* rows of User
    kb,        \* KnowledgeBase: id -> its row
    file,      \* File: id -> its row
    copies,    \* files whose content is under UPLOAD_ROOT_PATH
    vectors,   \* files whose chunks are in the index of their user
    upload,    \* user -> the upload_files request of this user that awaits data
    jobs,      \* lists of files handed to the executor and not done
    loop,      \* the handler the event loop is in the middle of
    counted,   \* files of a knowledge base get_total_status has counted
    touched,   \* pairs of a user and a knowledge base whose rows a request of it wrote
    named,     \* files a request of their user wanted deleted
    broken     \* files that turned red after they had another final status

tables == <<users, kb, file>>
aux    == <<touched, named, broken>>
others == <<named, broken>>
vars   == <<tables, copies, vectors, upload, jobs, loop, counted, aux>>

NoKb     == [owner |-> Server, name |-> NoName, deleted |-> 0]
NoFile   == [kb |-> 0, name |-> "", status |-> "none", deleted |-> 0]
NoUpload == [kb |-> 0, todo |-> <<>>, local |-> {}]
\* kbs, files: what the handler is about; left: knowledge bases it has not done.
LoopIdle == [step |-> "idle", user |-> Server, kbs |-> {}, files |-> {}, left |-> {}, next |-> 0]
\* files: of the whole job; left: not settled; safe: run inside _safe_insert.
Job(files, safe) == [files |-> files, left |-> files, safe |-> safe]

Init ==
    /\ users = {}
    /\ kb = [k \in Kbs |-> NoKb]
    /\ file = [f \in Files |-> NoFile]
    /\ copies = {} /\ vectors = {}
    /\ upload = [u \in Users |-> NoUpload]
    /\ jobs = {}
    /\ loop = LoopIdle
    /\ counted = {}
    /\ touched = {} /\ named = {} /\ broken = {}

-----------------------------------------------------------------------------
(* Queries.                                                                *)

KbRows   == {k \in Kbs : kb[k] # NoKb}
FileRows == {f \in Files : file[f] # NoFile}
Owner(f) == kb[file[f].kb].owner

\* Faulty variant: anybody's knowledge base will do.
CheckKbExistOfAnyone(u, ks) == \A k \in ks : k \in KbRows /\ kb[k].deleted = 0

\* The knowledge bases exist, belong to the user and are not deleted.
CheckKbExist(u, ks) == \A k \in ks : k \in KbRows /\ kb[k].owner = u /\ kb[k].deleted = 0

GetKnowledgeBases(u) == {k \in KbRows : kb[k].owner = u /\ kb[k].deleted = 0}

\* What list_files shows: whether the knowledge base is deleted is not asked.
GetFiles(u, k) ==
    {f \in FileRows : file[f].kb = k /\ Owner(f) = u /\ file[f].deleted = 0}

GetFileByStatus(ks, s) ==
    {f \in FileRows : file[f].kb \in ks /\ file[f].deleted = 0 /\ file[f].status = s}

CheckFileExist(u, k, files) == GetFiles(u, k) \cap files
CheckFileExistByName(u, k) == {file[f].name : f \in GetFiles(u, k)}

\* download_file: no user is asked for.
Download(f) ==
    IF f \notin FileRows \/ file[f].deleted = 1 THEN "missing"
    ELSE IF file[f].name \in Urls THEN "redirect"
    ELSE IF file[f].name \in OddNames \/ f \notin copies THEN "missing"
    ELSE "file"

-----------------------------------------------------------------------------
(* Knowledge bases.                                                        *)

Touch(u, ks) == touched' = touched \cup ({u} \X ks)
NextId(ids, rows) == CHOOSE i \in ids \ rows : \A j \in ids \ rows : i <= j

\* new_milvus_base adds the user first, with a commit of its own.
NewKnowledgeBase(u, name) ==
    /\ loop = LoopIdle
    /\ Kbs \ KbRows # {}
    /\ users' = users \cup {u}
    /\ kb' = [kb EXCEPT ![NextId(Kbs, KbRows)] = [owner |-> u, name |-> name, deleted |-> 0]]
    /\ Touch(u, {NextId(Kbs, KbRows)})
    /\ UNCHANGED <<file, copies, vectors, upload, jobs, loop, counted, others>>

\* The process dies between the two commits, or the second raises.
NewKnowledgeBaseRaises(u) ==
    /\ loop = LoopIdle
    /\ "raise" \in Faults
    /\ Kbs \ KbRows # {}
    /\ users' = users \cup {u}
    /\ UNCHANGED <<kb, file, copies, vectors, upload, jobs, loop, counted, aux>>

RenameKnowledgeBase(u, k, name) ==
    /\ loop = LoopIdle
    /\ CheckKbExist(u, {k})
    /\ kb' = [kb EXCEPT ![k].name = name]
    /\ Touch(u, {k})
    /\ UNCHANGED <<users, file, copies, vectors, upload, jobs, loop, counted, others>>

-----------------------------------------------------------------------------
(* Uploads.                                                                *)

\* add_file
AddFile(u, k, name) ==
    /\ Touch(u, {k})
    /\ file' = [file EXCEPT ![NextId(Files, FileRows)] =
                   [kb |-> k, name |-> name, status |-> "gray", deleted |-> 0]]

UploadWeblink(u, k, url, mode) ==
    /\ loop = LoopIdle
    /\ Files \ FileRows # {}
    /\ CheckKbExist(u, {k})
    /\ mode = "soft" => url \notin CheckFileExistByName(u, k)
    /\ u \in users
    /\ AddFile(u, k, url)
    /\ jobs' = jobs \cup {Job({NextId(Files, FileRows)}, FALSE)}
    /\ UNCHANGED <<users, kb, copies, vectors, upload, loop, counted, others>>

\* The checks of upload_files; names already taken are left out in mode soft.
UploadFiles(u, k, names, mode) ==
    /\ loop = LoopIdle
    /\ upload[u] = NoUpload
    /\ Cardinality(Files \ FileRows) >= Len(names)
    /\ CheckKbExist(u, {k})
    /\ LET taken == IF mode = "soft" THEN CheckFileExistByName(u, k) ELSE {}
           todo  == SelectSeq(names, LAMBDA n : n \notin taken)
       IN  /\ todo # <<>>
           /\ upload' = [upload EXCEPT ![u] = [kb |-> k, todo |-> todo, local |-> {}]]
    /\ UNCHANGED <<tables, copies, vectors, jobs, loop, counted, aux>>

\* Faulty variant: a copy that cannot be written does not end the request.
ReadFileUncopied(u) ==
    LET f    == NextId(Files, FileRows)
        rest == Tail(upload[u].todo)
        all  == upload[u].local \cup {f}
    IN
    /\ loop = LoopIdle
    /\ upload[u] # NoUpload
    /\ Files \ FileRows # {}
    /\ u \in users /\ CheckKbExist(u, {upload[u].kb})
    /\ AddFile(u, upload[u].kb, Head(upload[u].todo))
    /\ copies' = copies \/ copies' = copies \cup {f}
    /\ IF rest = <<>>
       THEN jobs' = jobs \cup {Job(all, TRUE)} /\ upload' = [upload EXCEPT ![u] = NoUpload]
       ELSE /\ upload' = [upload EXCEPT ![u] = [kb |-> @.kb, todo |-> rest, local |-> all]]
            /\ UNCHANGED jobs
    /\ UNCHANGED <<users, kb, vectors, loop, counted, others>>

\* A file was read; its row is added and its copy written.  After the last
\* one the list goes to the executor.
ReadFile(u) ==
    LET f    == NextId(Files, FileRows)
        rest == Tail(upload[u].todo)
        all  == upload[u].local \cup {f}
    IN
    /\ loop = LoopIdle
    /\ upload[u] # NoUpload
    /\ Files \ FileRows # {}
    /\ u \in users /\ CheckKbExist(u, {upload[u].kb})
    /\ AddFile(u, upload[u].kb, Head(upload[u].todo))
    /\ copies' = copies \cup {f}
    /\ IF rest = <<>>
       THEN jobs' = jobs \cup {Job(all, TRUE)} /\ upload' = [upload EXCEPT ![u] = NoUpload]
       ELSE /\ upload' = [upload EXCEPT ![u] = [kb |-> @.kb, todo |-> rest, local |-> all]]
            /\ UNCHANGED jobs
    /\ UNCHANGED <<users, kb, vectors, loop, counted, others>>

\* add_file refuses because the knowledge base is gone, or the copy cannot be
\* written: the request ends, the files before never reach the executor.
UploadRaises(u) ==
    /\ loop = LoopIdle
    /\ upload[u] # NoUpload
    /\ \/ /\ ~CheckKbExist(u, {upload[u].kb})
          /\ UNCHANGED <<file, touched>>
       \/ /\ CheckKbExist(u, {upload[u].kb})
          /\ Files \ FileRows # {} /\ "raise" \in Faults
          /\ AddFile(u, upload[u].kb, Head(upload[u].todo))
    /\ upload' = [upload EXCEPT ![u] = NoUpload]
    /\ UNCHANGED <<users, kb, copies, vectors, jobs, loop, counted, others>>

-----------------------------------------------------------------------------
(* Deletions.  Vectors are deleted in the client of the user, which knows  *)
(* the files of all its knowledge bases.                                   *)

Begin(u, step, ks, files, doomed) ==
    /\ loop = LoopIdle
    /\ loop' = [step |-> step, user |-> u, kbs |-> ks, files |-> files, left |-> ks, next |-> 0]
    /\ named' = named \cup {f \in doomed \cap FileRows : Owner(f) = u}
    /\ UNCHANGED <<tables, copies, vectors, upload, jobs, counted, touched, broken>>

OfUser(files) == {f \in files \cap FileRows : Owner(f) = loop.user}

\* delete_files: one of the files must be in the knowledge base.
DeleteDocs(u, k, files) ==
    /\ CheckKbExist(u, {k})
    /\ CheckFileExist(u, k, files) # {}
    /\ Begin(u, "vectors", {k}, files, files)

\* Faulty variant: the status alone chooses the files.
CleanFilesByStatusOfAll(u, ks, s) ==
    LET asked == IF ks = {} THEN GetKnowledgeBases(u) ELSE ks
        files == {f \in FileRows : file[f].status = s} IN
    /\ CheckKbExist(u, ks)
    /\ files # {}
    /\ Begin(u, "vectors", asked, files, GetFileByStatus(asked, s))

CleanFilesByStatus(u, ks, s) ==
    LET asked == IF ks = {} THEN GetKnowledgeBases(u) ELSE ks
        files == GetFileByStatus(asked, s) IN
    /\ CheckKbExist(u, ks)
    /\ files # {}
    /\ Begin(u, "vectors", asked, files, files)

DeleteVectors ==
    /\ loop.step = "vectors"
    /\ vectors' = vectors \ OfUser(loop.files)
    /\ \/ loop' = [loop EXCEPT !.step = "rows"]
       \/ "raise" \in Faults /\ loop' = LoopIdle  \* the save raised
    /\ UNCHANGED <<tables, copies, upload, jobs, counted, aux>>

\* kb_manager.delete_files, one knowledge base at a time.
DeleteRows ==
    /\ loop.step = "rows"
    /\ \E k \in loop.left :
          /\ file' = [f \in Files |-> IF f \in loop.files /\ file[f].kb = k
                                      THEN [file[f] EXCEPT !.deleted = 1] ELSE file[f]]
          /\ loop' = IF loop.left = {k} THEN LoopIdle ELSE [loop EXCEPT !.left = @ \ {k}]
          /\ Touch(loop.user, IF file' = file THEN {} ELSE {k})
    /\ UNCHANGED <<users, kb, copies, vectors, upload, jobs, counted, others>>

DeleteKnowledgeBase(u, ks) ==
    /\ ks # {} /\ CheckKbExist(u, ks)
    /\ Begin(u, "partitions", ks, {}, {f \in FileRows : file[f].kb \in ks})

DeletePartition ==
    /\ loop.step = "partitions"
    /\ \E k \in loop.left :
          /\ vectors' = vectors \ {f \in OfUser(vectors) : file[f].kb = k}
          /\ \/ loop' = IF loop.left = {k} THEN [loop EXCEPT !.step = "kbRows"]
                         ELSE [loop EXCEPT !.left = @ \ {k}]
             \/ "raise" \in Faults /\ loop' = LoopIdle  \* the save raised
    /\ UNCHANGED <<tables, copies, upload, jobs, counted, aux>>

\* kb_manager.delete_knowledge_base commits twice.
MarkKbRows ==
    /\ loop.step = "kbRows"
    /\ kb' = [k \in Kbs |-> IF k \in loop.kbs /\ kb[k].owner = loop.user
                            THEN [kb[k] EXCEPT !.deleted = 1] ELSE kb[k]]
    /\ loop' = [loop EXCEPT !.step = "fileRows"]
    /\ Touch(loop.user, {k \in Kbs : kb'[k] # kb[k]})
    /\ UNCHANGED <<users, file, copies, vectors, upload, jobs, counted, others>>

MarkFileRows ==
    /\ loop.step = "fileRows"
    /\ file' = [f \in Files |-> IF f \in OfUser(Files) /\ file[f].kb \in loop.kbs
                                THEN [file[f] EXCEPT !.deleted = 1] ELSE file[f]]
    /\ loop' = LoopIdle
    /\ Touch(loop.user, {file[f].kb : f \in {g \in Files : file'[g] # file[g]}})
    /\ UNCHANGED <<users, kb, copies, vectors, upload, jobs, counted, others>>

-----------------------------------------------------------------------------
(* get_total_status: for each knowledge base four queries, one per status. *)

\* Faulty variant: the statuses in the order of the answer's fields.
StatusOrderOfAnswer == <<"green", "yellow", "red", "gray">>

StatusOrder == <<"gray", "red", "yellow", "green">>

GetTotalStatus(u) ==
    /\ loop = LoopIdle
    /\ GetKnowledgeBases(u) # {}
    /\ loop' = [step |-> "count", user |-> u, kbs |-> GetKnowledgeBases(u), files |-> {},
                left |-> GetKnowledgeBases(u), next |-> 1]
    /\ UNCHANGED <<tables, copies, vectors, upload, jobs, counted, aux>>

CountedKb == CHOOSE k \in loop.left : \A j \in loop.left : k <= j
Totalled == loop.step = "count" /\ loop.next > Len(StatusOrder)

CountStatus ==
    /\ loop.step = "count" /\ loop.next <= Len(StatusOrder)
    /\ counted' = counted \cup GetFileByStatus({CountedKb}, StatusOrder[loop.next])
    /\ loop' = [loop EXCEPT !.next = @ + 1]
    /\ UNCHANGED <<tables, copies, vectors, upload, jobs, aux>>

\* The counts go under name and id, which raises without a name; then the
\* next knowledge base.
AddTotal ==
    /\ Totalled
    /\ counted' = {}
    /\ loop' = IF kb[CountedKb].name = NoName \/ loop.left = {CountedKb} THEN LoopIdle
                ELSE [loop EXCEPT !.left = @ \ {CountedKb}, !.next = 1]
    /\ UNCHANGED <<tables, copies, vectors, upload, jobs, aux>>

-----------------------------------------------------------------------------
(* Workers and the end of the process.                                     *)

\* insert_files_to_milvus stored a file, or could not, and wrote its status.
SettleFile(j, f, s) ==
    /\ file' = [file EXCEPT ![f].status = s]
    /\ vectors' = IF s = "green" THEN vectors \cup {f} ELSE vectors
    /\ jobs' = (jobs \ {j}) \cup (IF j.left = {f} THEN {} ELSE {[j EXCEPT !.left = @ \ {f}]})
    /\ UNCHANGED <<users, kb, copies, upload, loop, counted, aux>>

\* The job raises: _safe_insert turns all its files red; a web link's is dropped.
JobRaises(j) ==
    /\ "raise" \in Faults
    /\ file' = IF j.safe
               THEN [f \in Files |-> IF f \in j.files THEN [file[f] EXCEPT !.status = "red"]
                                     ELSE file[f]]
               ELSE file
    /\ broken' = broken \cup {f \in j.files : j.safe /\ file[f].status \in {"green", "yellow"}}
    /\ jobs' = jobs \ {j}
    /\ UNCHANGED <<users, kb, copies, vectors, upload, loop, counted, touched, named>>

Crash ==
    /\ "crash" \in Faults
    /\ upload' = [u \in Users |-> NoUpload]
    /\ jobs' = {} /\ loop' = LoopIdle /\ counted' = {}
    /\ UNCHANGED <<tables, copies, vectors, touched, named, broken>>

Modes == {"soft", "strong"}
Statuses == {"gray", "green", "red", "yellow"}
Steps == {"idle", "vectors", "rows", "partitions", "kbRows", "fileRows", "count"}

Request(u) ==
    \/ \E name \in KbNames : NewKnowledgeBase(u, name)
    \/ NewKnowledgeBaseRaises(u)
    \/ \E k \in Kbs, name \in KbNames : RenameKnowledgeBase(u, k, name)
    \/ \E k \in Kbs, url \in Urls, mode \in Modes : UploadWeblink(u, k, url, mode)
    \/ \E k \in Kbs, names \in NameLists, mode \in Modes : UploadFiles(u, k, names, mode)
    \/ ReadFile(u)
    \/ UploadRaises(u)
    \/ \E k \in Kbs, files \in SUBSET Files : DeleteDocs(u, k, files)
    \/ \E ks \in SUBSET Kbs, s \in Statuses : CleanFilesByStatus(u, ks, s)
    \/ \E ks \in SUBSET Kbs : DeleteKnowledgeBase(u, ks)
    \/ GetTotalStatus(u)

Handle ==
    \/ DeleteVectors \/ DeleteRows
    \/ DeletePartition \/ MarkKbRows \/ MarkFileRows
    \/ CountStatus \/ AddTotal

Work ==
    \E j \in jobs :
        \/ \E f \in j.left, s \in Outcomes : SettleFile(j, f, s)
        \/ JobRaises(j)

Next == (\E u \in Users : Request(u)) \/ Handle \/ Work \/ Crash

Spec == Init /\ [][Next]_vars

-----------------------------------------------------------------------------
(* Properties.                                                             *)

IsFile(r) ==
    /\ r = [kb |-> r.kb, name |-> r.name, status |-> r.status, deleted |-> r.deleted]
    /\ r.kb \in Kbs \cup {0} /\ r.status \in Statuses \cup {"none"} /\ r.deleted \in {0, 1}

IsUpload(r) ==
    r = [kb |-> r.kb, todo |-> r.todo, local |-> r.local] /\ r.local \in SUBSET Files

KbRecords == [owner : Users \cup {Server}, name : KbNames, deleted : {0, 1}]
Loops == [step : Steps, user : Users \cup {Server}, kbs : SUBSET Kbs,
          files : SUBSET Files, left : SUBSET Kbs, next : 0 .. Len(StatusOrder) + 1]
Jobs == [files : SUBSET Files, left : SUBSET Files, safe : BOOLEAN]

TypeOK ==
    /\ users \subseteq Users
    /\ kb \in [Kbs -> KbRecords]
    /\ file = [f \in Files |-> file[f]] /\ \A f \in Files : IsFile(file[f])
    /\ copies \subseteq Files /\ vectors \subseteq Files
    /\ upload = [u \in Users |-> upload[u]] /\ \A u \in Users : IsUpload(upload[u])
    /\ jobs \subseteq Jobs
    /\ loop \in Loops
    /\ loop.step # "idle" => loop.user \in Users

\* No request of a user writes a row of another's knowledge base or of a file
\* in it, whichever ids it names and whatever the other's requests do meanwhile.
UsersApart == \A u \in Users, k \in Kbs : <<u, k>> \in touched => kb[k].owner = u

\* A file shown green is in the index of its user, unless a deletion named it:
\* no deletion reaches beyond the knowledge bases and files it was asked for,
\* and a crash in the middle of one does not either.
GreenIsStored ==
    \A f \in FileRows :
        file[f].deleted = 0 /\ file[f].status = "green" /\ f \notin named => f \in vectors

\* The list of a knowledge base and the download agree: what can be downloaded
\* is listed, and a listed file with a final status can be downloaded, as its
\* copy was written before its job began; only a name that the download refuses
\* is in the way.  Interrupted uploads and deletions do not change that.
SettledIsDownloadable ==
    \A f \in FileRows :
        LET listed == f \in GetFiles(Owner(f), file[f].kb) IN
        /\ Download(f) # "missing" => listed
        /\ listed /\ file[f].status # "gray" /\ Download(f) = "missing"
              => file[f].name \in OddNames

\* The totals of a knowledge base leave no file out, although workers change
\* statuses between its queries: a file leaves the status queried next only for
\* one that is queried later, unless its job raised after it was stored.
TotalMissesNothing ==
    Totalled => GetFiles(loop.user, CountedKb) \ broken \subseteq counted
=============================================================================
