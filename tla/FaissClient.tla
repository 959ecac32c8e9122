---------------------------- MODULE FaissClient ----------------------------
(***************************************************************************)
(* The vector store of one user: the FaissClient objects of the server     *)
(* process and the two files, {user}.faiss and {user}.meta.json, they all  *)
(* load from and save to (bishon_kernel/connector/database/faiss).         *)
(*                                                                         *)
(* A client loads the pair when it is constructed and never again; it then *)
(* works on its memory under its own lock and rewrites the whole pair with *)
(* every save.  LocalDocQA keeps one client per list of knowledge bases,   *)
(* so a user with several knowledge bases has several clients.             *)
(*                                                                         *)
(* A file is submitted once (its id is a fresh uuid) by an executor worker;*)
(* deletions run on the event loop, one at a time.  Vectors carry the text *)
(* they embed ("chunk"), so that a search answering with other text shows. *)
(* Writing one temporary file is one step: a torn temporary file is never  *)
(* read, for a load removes it first.                                      *)
(***************************************************************************)
EXTENDS Integers, FiniteSets

CONSTANTS
    Clients,     \* FaissClient objects of this user that a process may make
    Files,       \* file ids
    Kbs,         \* knowledge base ids
    KbOf,        \* the knowledge base a file is inserted for
    Size,        \* how many chunks splitting a file yields
    BatchSize,   \* chunks added to the index per batch (1000 in the code)
    Faults,      \* which of "crash", "save" and "load" may happen
    MaxCrashes,  \* bound on the number of process restarts
    Missing      \* a file that is not on disk

ASSUME ConstantsAssumption ==
    /\ KbOf \in [Files -> Kbs]
    /\ Size \in [Files -> Nat]
    /\ BatchSize \in Nat \ {0}
    /\ Faults \subseteq {"crash", "save", "load"}
    /\ MaxCrashes \in Nat

VARIABLES
    index,      \* client -> set of vectors, each with its id and the text it embeds
    meta,       \* client -> _chunk_meta, a dict from id to chunk
    nextId,     \* client -> _next_id
    pc,         \* client -> where its construction or its save is; "free": lock is free
    op,         \* client -> the operation holding the lock
    sweep,      \* client -> the files delete_partition collected, lock released
    disk,       \* the file pair, its temporary files and its backups
    submitted,  \* files handed to insert_files
    acked,      \* files for which some insert_files returned True
    mine,       \* client -> files it acknowledged in its lifetime and still should hold
    deleted,    \* files whose deletion some client started
    gone,       \* files submitted before a deletion of them that returned normally
    saveFailed, \* some _save raised
    crashes

mem  == <<index, meta, nextId>>
ctl  == <<pc, op, sweep>>
hist == <<submitted, acked, mine, deleted, gone, saveFailed, crashes>>
vars == <<mem, ctl, disk, hist>>

Chunk  == [file : Files, part : Nat]
Vector == [id : Nat, chunk : Chunk]
ChunksOf(f) == {[file |-> f, part |-> p] : p \in 0 .. Size[f] - 1}
FilesIn(kb) == {f \in Files : KbOf[f] = kb}

EmptyMeta == [i \in {} |-> i]
IsMeta(m) == /\ m = [i \in DOMAIN m |-> m[i]]
             /\ DOMAIN m \subseteq Nat
             /\ \A i \in DOMAIN m : m[i] \in Chunk

NoOp == [kind |-> "none", files |-> {}]
Op   == [kind : {"none", "insert", "delete"}, files : SUBSET Files]

Loading == {"loadIndex", "loadMeta"}
Saving  == {"writeIndex", "writeMeta", "swapIndex", "swapMeta"}

TypeOK ==
    /\ index \in [Clients -> SUBSET Vector]
    /\ meta = [c \in Clients |-> meta[c]] /\ \A c \in Clients : IsMeta(meta[c])
    /\ nextId \in [Clients -> Nat]
    /\ pc \in [Clients -> {"absent", "free"} \cup Loading \cup Saving]
    /\ op \in [Clients -> Op]
    /\ sweep \in [Clients -> SUBSET Files]
    /\ DOMAIN disk = {"index", "meta", "indexTmp", "metaTmp", "indexBak", "metaBak"}
    /\ \A n \in {"index", "indexTmp", "indexBak"} :
          disk[n] = Missing \/ disk[n] \in SUBSET Vector
    /\ \A n \in {"meta", "metaTmp", "metaBak"} : disk[n] = Missing \/ IsMeta(disk[n])
    /\ submitted \subseteq Files /\ acked \subseteq Files
    /\ deleted \subseteq Files /\ gone \subseteq Files
    /\ mine \in [Clients -> SUBSET Files]
    /\ saveFailed \in BOOLEAN
    /\ crashes \in Nat

Init ==
    /\ index = [c \in Clients |-> {}]
    /\ meta = [c \in Clients |-> EmptyMeta]
    /\ nextId = [c \in Clients |-> 0]
    /\ pc = [c \in Clients |-> "absent"]
    /\ op = [c \in Clients |-> NoOp]
    /\ sweep = [c \in Clients |-> {}]
    /\ disk = [index |-> Missing, meta |-> Missing, indexTmp |-> Missing,
               metaTmp |-> Missing, indexBak |-> Missing, metaBak |-> Missing]
    /\ submitted = {} /\ acked = {} /\ deleted = {} /\ gone = {}
    /\ mine = [c \in Clients |-> {}]
    /\ saveFailed = FALSE
    /\ crashes = 0

-----------------------------------------------------------------------------
(* Ids: the next id is one more than the largest in use, 0 when none is.   *)

\* Faulty variants: the number of entries taken for the largest id plus one;
\* the largest id itself, -1 when there is none.
NextFreeByCount(ids) == {Cardinality(ids)}
NextFreeNotPlusOne(ids) == {n \in {-1} \cup ids : \A i \in ids : i <= n}

NextFree(ids) == {n \in {0} \cup {i + 1 : i \in ids} : \A i \in ids : i < n}

-----------------------------------------------------------------------------
(* __init__ and _load_or_create: no lock is held and the files are read    *)
(* one after the other.                                                    *)

CreateNew(c) ==
    /\ index' = [index EXCEPT ![c] = {}]
    /\ nextId' = [nextId EXCEPT ![c] = 0]
    /\ UNCHANGED meta
    /\ pc' = [pc EXCEPT ![c] = "free"]

NoTmp == [disk EXCEPT !.indexTmp = Missing, !.metaTmp = Missing]

BackedUp(d) ==
    [d EXCEPT !.index = Missing, !.meta = Missing,
              !.indexBak = IF d.index = Missing THEN @ ELSE d.index,
              !.metaBak  = IF d.meta = Missing THEN @ ELSE d.meta]

Construct(c) ==
    /\ pc[c] = "absent"
    /\ IF disk.index # Missing /\ disk.meta # Missing
       THEN /\ disk' = NoTmp
            /\ pc' = [pc EXCEPT ![c] = "loadIndex"]
            /\ UNCHANGED mem
       ELSE /\ disk' = BackedUp(NoTmp)
            /\ CreateNew(c)
    /\ UNCHANGED <<op, sweep, hist>>

LoadIndex(c) ==
    /\ pc[c] = "loadIndex"
    /\ disk.index # Missing
    /\ index' = [index EXCEPT ![c] = disk.index]
    /\ pc' = [pc EXCEPT ![c] = "loadMeta"]
    /\ UNCHANGED <<meta, nextId, op, sweep, disk, hist>>

LoadMeta(c) ==
    /\ pc[c] = "loadMeta"
    /\ disk.meta # Missing
    /\ meta' = [meta EXCEPT ![c] = disk.meta]
    /\ \E n \in NextFree(DOMAIN disk.meta) : nextId' = [nextId EXCEPT ![c] = n]
    /\ pc' = [pc EXCEPT ![c] = "free"]
    /\ UNCHANGED <<index, op, sweep, disk, hist>>

\* The file vanished since it was tested for, could not be read, or has
\* another dimension: an empty index replaces it.
LoadFails(c) ==
    /\ \/ pc[c] = "loadIndex" /\ (disk.index = Missing \/ "load" \in Faults)
       \/ pc[c] = "loadMeta" /\ (disk.meta = Missing \/ "load" \in Faults)
    /\ CreateNew(c)
    /\ UNCHANGED <<op, sweep, disk, hist>>

-----------------------------------------------------------------------------
(* _save: two temporary files, then two renames.  The caller holds the     *)
(* client's lock, which another client of the same files does not share.   *)

StartSave(c, kind, files) ==
    /\ pc' = [pc EXCEPT ![c] = "writeIndex"]
    /\ op' = [op EXCEPT ![c] = [kind |-> kind, files |-> files]]

WriteIndexTmp(c) ==
    /\ pc[c] = "writeIndex"
    /\ disk' = [disk EXCEPT !.indexTmp = index[c]]
    /\ pc' = [pc EXCEPT ![c] = "writeMeta"]
    /\ UNCHANGED <<mem, op, sweep, hist>>

WriteMetaTmp(c) ==
    /\ pc[c] = "writeMeta"
    /\ disk' = [disk EXCEPT !.metaTmp = meta[c]]
    /\ pc' = [pc EXCEPT ![c] = "swapIndex"]
    /\ UNCHANGED <<mem, op, sweep, hist>>

SwapIndex(c) ==
    /\ pc[c] = "swapIndex"
    /\ disk.indexTmp # Missing
    /\ disk' = [disk EXCEPT !.index = disk.indexTmp, !.indexTmp = Missing]
    /\ pc' = [pc EXCEPT ![c] = "swapMeta"]
    /\ UNCHANGED <<mem, op, sweep, hist>>

\* The last rename; insert_files then returns True, delete_files returns.
SwapMeta(c) ==
    /\ pc[c] = "swapMeta"
    /\ disk.metaTmp # Missing
    /\ disk' = [disk EXCEPT !.meta = disk.metaTmp, !.metaTmp = Missing]
    /\ pc' = [pc EXCEPT ![c] = "free"]
    /\ op' = [op EXCEPT ![c] = NoOp]
    /\ IF op[c].kind = "insert"
       THEN /\ acked' = acked \cup op[c].files
            /\ mine' = [mine EXCEPT ![c] = @ \cup op[c].files]
            /\ UNCHANGED gone
       ELSE /\ gone' = gone \cup op[c].files
            /\ UNCHANGED <<acked, mine>>
    /\ UNCHANGED <<mem, sweep, submitted, deleted, saveFailed, crashes>>

\* A write failed (disk full), or a load of another client removed the
\* temporary file, or its save renamed it: the exception leaves the lock.
SaveRaises(c) ==
    /\ \/ pc[c] \in {"writeIndex", "writeMeta"} /\ "save" \in Faults
       \/ pc[c] = "swapIndex" /\ disk.indexTmp = Missing
       \/ pc[c] = "swapMeta" /\ disk.metaTmp = Missing
    /\ pc' = [pc EXCEPT ![c] = "free"]
    /\ op' = [op EXCEPT ![c] = NoOp]
    /\ saveFailed' = TRUE
    /\ UNCHANGED <<mem, sweep, disk, submitted, acked, mine, deleted, gone, crashes>>

-----------------------------------------------------------------------------
(* insert_files: the whole call holds the lock; chunks get consecutive ids *)
(* and enter the index and the dict batch by batch.                        *)

Entries(c, f, k) ==
    [i \in nextId[c] .. nextId[c] + k - 1 |-> [file |-> f, part |-> i - nextId[c]]]

VectorsOf(entries) == {[id |-> i, chunk |-> entries[i]] : i \in DOMAIN entries}

Updated(m, entries) ==
    [i \in DOMAIN m \cup DOMAIN entries |->
        IF i \in DOMAIN entries THEN entries[i] ELSE m[i]]

AddChunks(c, f, k) ==
    /\ index' = [index EXCEPT ![c] = @ \cup VectorsOf(Entries(c, f, k))]
    /\ meta' = [meta EXCEPT ![c] = Updated(@, Entries(c, f, k))]

\* Faulty variant: True is returned with no save.
InsertFilesUnsaved(c, f) ==
    /\ pc[c] = "free"
    /\ f \notin submitted
    /\ submitted' = submitted \cup {f}
    /\ AddChunks(c, f, Size[f])
    /\ nextId' = [nextId EXCEPT ![c] = @ + Size[f]]
    /\ acked' = acked \cup {f}
    /\ UNCHANGED <<ctl, disk, mine, deleted, gone, saveFailed, crashes>>

\* Faulty variant: the counter stays where it was.
InsertFilesSameIds(c, f) ==
    /\ pc[c] = "free"
    /\ f \notin submitted
    /\ submitted' = submitted \cup {f}
    /\ AddChunks(c, f, Size[f])
    /\ StartSave(c, "insert", {f})
    /\ UNCHANGED <<nextId, sweep, disk, acked, mine, deleted, gone, saveFailed, crashes>>

InsertFiles(c, f) ==
    /\ pc[c] = "free"
    /\ f \notin submitted
    /\ submitted' = submitted \cup {f}
    /\ AddChunks(c, f, Size[f])
    /\ nextId' = [nextId EXCEPT ![c] = @ + Size[f]]
    /\ StartSave(c, "insert", {f})
    /\ UNCHANGED <<sweep, disk, acked, mine, deleted, gone, saveFailed, crashes>>

\* Faulty variant: the failure of a batch is swallowed and True returned.
InsertFailsUnnoticed(c, f) ==
    /\ pc[c] = "free"
    /\ f \notin submitted
    /\ submitted' = submitted \cup {f}
    /\ \E k \in {j \in 0 .. Size[f] - 1 : j % BatchSize = 0} :
          /\ AddChunks(c, f, k)
          /\ nextId' = [nextId EXCEPT ![c] = @ + k]
    /\ acked' = acked \cup {f}
    /\ UNCHANGED <<ctl, disk, mine, deleted, gone, saveFailed, crashes>>

\* add_with_ids raises for the batch that starts at chunk k: the call returns
\* False with no save, the batches before it stay in memory.
InsertFails(c, f) ==
    /\ pc[c] = "free"
    /\ f \notin submitted
    /\ submitted' = submitted \cup {f}
    /\ \E k \in {j \in 0 .. Size[f] - 1 : j % BatchSize = 0} :
          /\ AddChunks(c, f, k)
          /\ nextId' = [nextId EXCEPT
                ![c] = @ + IF k + BatchSize < Size[f] THEN k + BatchSize ELSE Size[f]]
    /\ UNCHANGED <<ctl, disk, acked, mine, deleted, gone, saveFailed, crashes>>

-----------------------------------------------------------------------------
(* delete_files and delete_partition, called on the event loop.            *)

LoopIdle == \A c \in Clients : sweep[c] = {} /\ op[c].kind # "delete"

IdsOf(c, files) == {i \in DOMAIN meta[c] : meta[c][i].file \in files}

\* Faulty variant: only the dict forgets the deleted chunks.
RemoveMetaOnly(c, files) ==
    LET kept == DOMAIN meta[c] \ IdsOf(c, files) IN
    /\ meta' = [meta EXCEPT ![c] = [i \in kept |-> meta[c][i]]]
    /\ \E n \in NextFree(kept) : nextId' = [nextId EXCEPT ![c] = n]
    /\ UNCHANGED index

Remove(c, files) ==
    LET kept == DOMAIN meta[c] \ IdsOf(c, files) IN
    /\ meta' = [meta EXCEPT ![c] = [i \in kept |-> meta[c][i]]]
    /\ index' = [index EXCEPT
          ![c] = IF kept = {} THEN {} ELSE {v \in @ : v.id \notin IdsOf(c, files)}]
    /\ \E n \in NextFree(kept) : nextId' = [nextId EXCEPT ![c] = n]

\* Faulty variant: the deletion is not saved.
DeleteLockedUnsaved(c, files) ==
    /\ pc[c] = "free"
    /\ deleted' = deleted \cup files
    /\ mine' = [mine EXCEPT ![c] = @ \ files]
    /\ gone' = gone \cup (files \cap submitted)
    /\ Remove(c, files)
    /\ UNCHANGED <<pc, op, disk, submitted, acked, saveFailed, crashes>>

DeleteLocked(c, files) ==
    /\ pc[c] = "free"
    /\ deleted' = deleted \cup files
    /\ mine' = [mine EXCEPT ![c] = @ \ files]
    /\ IF DOMAIN meta[c] = {}
       THEN /\ gone' = gone \cup (files \cap submitted)
            /\ UNCHANGED <<mem, pc, op>>
       ELSE /\ StartSave(c, "delete", files \cap submitted)
            /\ IF IdsOf(c, files) = {} THEN UNCHANGED mem ELSE Remove(c, files)
            /\ UNCHANGED gone
    /\ UNCHANGED <<disk, submitted, acked, saveFailed, crashes>>

DeleteFiles(c, files) ==
    /\ LoopIdle
    /\ DeleteLocked(c, files)
    /\ UNCHANGED sweep

\* First half of delete_partition: collect the files, release the lock.
CollectPartition(c, kb) ==
    /\ LoopIdle
    /\ pc[c] = "free"
    /\ LET found == {meta[c][i].file : i \in DOMAIN meta[c]} \cap FilesIn(kb) IN
          /\ found # {}
          /\ sweep' = [sweep EXCEPT ![c] = found]
    /\ UNCHANGED <<mem, pc, op, disk, hist>>

\* Second half: delete_files on what was collected.
DeletePartition(c) ==
    /\ sweep[c] # {}
    /\ DeleteLocked(c, sweep[c])
    /\ sweep' = [sweep EXCEPT ![c] = {}]

-----------------------------------------------------------------------------
(* The process dies: memory, locks and calls are lost, the files stay.     *)

Crash ==
    /\ "crash" \in Faults
    /\ crashes < MaxCrashes
    /\ crashes' = crashes + 1
    /\ index' = [c \in Clients |-> {}]
    /\ meta' = [c \in Clients |-> EmptyMeta]
    /\ nextId' = [c \in Clients |-> 0]
    /\ pc' = [c \in Clients |-> "absent"]
    /\ op' = [c \in Clients |-> NoOp]
    /\ sweep' = [c \in Clients |-> {}]
    /\ mine' = [c \in Clients |-> {}]
    /\ UNCHANGED <<disk, submitted, acked, deleted, gone, saveFailed>>

Load(c) == Construct(c) \/ LoadIndex(c) \/ LoadMeta(c) \/ LoadFails(c)

Save(c) == \/ WriteIndexTmp(c) \/ WriteMetaTmp(c)
           \/ SwapIndex(c) \/ SwapMeta(c) \/ SaveRaises(c)

Next ==
    \/ \E c \in Clients :
          \/ Load(c)
          \/ Save(c)
          \/ \E f \in Files : InsertFiles(c, f) \/ InsertFails(c, f)
          \/ \E files \in SUBSET Files \ {{}} : DeleteFiles(c, files)
          \/ \E kb \in Kbs : CollectPartition(c, kb)
          \/ DeletePartition(c)
    \/ Crash

Spec == Init /\ [][Next]_vars
=============================================================================
