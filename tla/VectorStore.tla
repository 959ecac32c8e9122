---------------------------- MODULE VectorStore ----------------------------
(***************************************************************************)
(* What the vector store of one user promises to the rest of the server:   *)
(* a set of chunks that searches see, a set of chunks that a restart would *)
(* bring back, and the files whose insertion was acknowledged.  A save may *)
(* take effect in two steps, removals first, but an acknowledged file is   *)
(* always among what a restart brings back.                                *)
(***************************************************************************)
EXTENDS Integers

CONSTANTS Files, Size

VARIABLES
    live,      \* chunks a search can return
    durable,   \* chunks a restart recovers
    promised,  \* files acknowledged and not deleted since
    up         \* the store is loaded

vars == <<live, durable, promised, up>>

ChunksOf(f) == {[file |-> f, part |-> p] : p \in 0 .. Size[f] - 1}
ChunksOfAll(files) == UNION {ChunksOf(f) : f \in files}

Init == live = {} /\ durable = {} /\ promised = {} /\ up = FALSE

Start ==
    /\ ~up /\ up' = TRUE
    /\ live' = durable
    /\ UNCHANGED <<durable, promised>>

\* A prefix of the file's chunks becomes visible (all of them on success).
Insert(f) ==
    /\ up
    /\ \E k \in 0 .. Size[f] :
          live' = live \cup {[file |-> f, part |-> p] : p \in 0 .. k - 1}
    /\ UNCHANGED <<durable, promised, up>>

Delete(files) ==
    /\ up
    /\ live' = {ch \in live : ch.file \notin files}
    /\ promised' = promised \ files
    /\ UNCHANGED <<durable, up>>

\* Removals reach the disk, additions do not yet.
PersistRemovals ==
    /\ up
    /\ durable' = durable \cap live
    /\ UNCHANGED <<live, promised, up>>

\* All of it does, and files wholly stored may be acknowledged.
PersistAll ==
    /\ up
    /\ durable' = live
    /\ \E files \in SUBSET Files :
          /\ ChunksOfAll(files) \subseteq durable'
          /\ promised' = promised \cup files
    /\ UNCHANGED <<live, up>>

Stop ==
    /\ up' = FALSE
    /\ live' = {}
    /\ UNCHANGED <<durable, promised>>

Next ==
    \/ Start \/ PersistRemovals \/ PersistAll \/ Stop
    \/ \E f \in Files : Insert(f)
    \/ \E files \in SUBSET Files : Delete(files)

Spec == Init /\ [][Next]_vars

\* What was acknowledged and not deleted survives a restart.
PromiseKept == ChunksOfAll(promised) \subseteq durable
=============================================================================
