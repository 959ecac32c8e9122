-------------------------- MODULE FaissProperties --------------------------
(***************************************************************************)
(* Correctness of the vector store of FaissClient.tla.                     *)
(***************************************************************************)
EXTENDS FaissClient

\* Chunks that client c finds and returns under their own text.
Searchable(c) == {meta[c][i] : i \in {j \in DOMAIN meta[c] :
                                        [id |-> j, chunk |-> meta[c][j]] \in index[c]}}

\* Chunks that search_emb_async of client c can return at all.
Returned(c) == {meta[c][v.id] : v \in {w \in index[c] : w.id \in DOMAIN meta[c]}}

\* Chunks that a load of the files as they are now would make searchable.
Recoverable ==
    IF disk.index = Missing \/ disk.meta = Missing THEN {}
    ELSE {disk.meta[i] : i \in {j \in DOMAIN disk.meta :
                                  [id |-> j, chunk |-> disk.meta[j]] \in disk.index}}

\* A file that insert_files acknowledged stays searchable, chunk by chunk and
\* under its own text, in the client that acknowledged it, until that client
\* deletes it or the process dies: no reuse of ids after a deletion, failed
\* batch, failed save or mismatched load overwrites or removes its entries.
AckedSearchable == \A c \in Clients : \A f \in mine[c] : ChunksOf(f) \subseteq Searchable(c)

\* A file that insert_files acknowledged and nobody deleted is recovered by a
\* restart at any moment, between the two renames of a save included.
AckedDurable == \A f \in acked \ deleted : ChunksOf(f) \subseteq Recoverable

\* Once a deletion returned, no search returns a chunk of the file, in this
\* process or after a restart, unless some save failed in between.
DeletedStaysGone ==
    ~saveFailed => \A c \in Clients : \A ch \in Returned(c) : ch.file \notin gone

\* Until the first restart every vector answers with the text it embeds, and
\* the index and the dict of a client hold the same ids.
AttributedUntilCrash ==
    crashes = 0 => \A c \in Clients :
        /\ {v.id : v \in index[c]} = DOMAIN meta[c]
        /\ \A v \in index[c] : meta[c][v.id] = v.chunk

\* The abstract store, seen through a single client.
TheClient == CHOOSE c \in Clients : TRUE

Store == INSTANCE VectorStore WITH
    live <- Searchable(TheClient),
    durable <- Recoverable,
    promised <- acked \ deleted,
    up <- pc[TheClient] \notin {"absent"} \cup Loading

\* The single client of a user implements the abstract vector store.
ImplementsVectorStore == Store!Spec
=============================================================================
