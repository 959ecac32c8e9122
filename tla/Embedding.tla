------------------------------ MODULE Embedding ------------------------------
(***************************************************************************)
(* Ingestion with the embedding of a file in detail (openai_embedding.py). *)
(* create_embedding submits the texts of a file, in batches, to a pool of  *)
(* threads of its own.  Each batch is one request to the embedding         *)
(* service, tried again after a failure; the job gathers the results in    *)
(* the order of the batches, and leaves the pool when all have ended.      *)
(*                                                                         *)
(* An embedding is represented by the number of the text it embeds.        *)
(***************************************************************************)
EXTENDS Ingestion, Functions

CONSTANTS
    TextsOf,     \* file -> the number of its chunks
    BatchSize,   \* EMBEDDING_BATCH_SIZE
    MaxWorkers,  \* EMBEDDING_MAX_WORKERS
    MaxRetries   \* EMBEDDING_MAX_RETRIES

ASSUME EmbeddingAssumption ==
    /\ TextsOf \in [Files -> Nat]
    /\ {BatchSize, MaxWorkers, MaxRetries} \subseteq Nat \ {0}

VARIABLE call  \* worker -> its _get_len_safe_embeddings, the pool's batches with it

NoCall == [phase |-> "idle", batches |-> <<>>, embs |-> <<>>]

allVars == <<vars, call>>

EmbeddingInit == Init /\ call = [w \in Workers |-> NoCall]

-----------------------------------------------------------------------------
(* The job's thread.                                                       *)

Current(w) == Head(worker[w].todo)
Batches(w) == call[w].batches
Embedding(w, phase) == worker[w].stage = "embed" /\ call[w].phase = phase

Ended(batch) == batch.state \in {"answered", "gathered", "failed"}
AllEnded(w) == \A b \in DOMAIN Batches(w) : Ended(Batches(w)[b])

NumBatches(f) == (TextsOf[f] + BatchSize - 1) \div BatchSize

\* The texts of batch b, in order: a slice from "skipped" on, which the end of
\* the texts cuts short.
Texts(f, b) ==
    LET skipped == (b - 1) * BatchSize
        left == TextsOf[f] - skipped
    IN  [i \in 1 .. (IF left < BatchSize THEN left ELSE BatchSize) |-> skipped + i]

\* All batches are submitted; that threads begin before the last one is leaves
\* nothing different.
SubmitBatches(w) ==
    /\ Embedding(w, "idle")
    /\ call' = [call EXCEPT
          ![w] = [phase |-> "gather", embs |-> <<>>,
                  batches |-> [b \in 1 .. NumBatches(Current(w)) |->
                                  [state |-> "queued", tries |-> 0]]]]
    /\ UNCHANGED vars

Gathered(w, b) ==
    call' = [call EXCEPT ![w].batches[b].state = "gathered",
                         ![w].embs = @ \o Texts(Current(w), b)]

\* The next batch whose result() is asked for.
IsNext(w, b) ==
    /\ b \in DOMAIN Batches(w)
    /\ Batches(w)[b].state # "gathered"
    /\ \A a \in DOMAIN Batches(w) : a < b => Batches(w)[a].state = "gathered"

\* Faulty variant: results are gathered as they come (as_completed).
GatherAsCompleted(w) ==
    /\ Embedding(w, "gather")
    /\ \E b \in DOMAIN Batches(w) : Batches(w)[b].state = "answered" /\ Gathered(w, b)
    /\ UNCHANGED vars

Gather(w) ==
    /\ Embedding(w, "gather")
    /\ \E b \in DOMAIN Batches(w) :
          IsNext(w, b) /\ Batches(w)[b].state = "answered" /\ Gathered(w, b)
    /\ UNCHANGED vars

\* result() raises what the last try of the batch did.
GatherRaises(w) ==
    /\ Embedding(w, "gather")
    /\ \E b \in DOMAIN Batches(w) : IsNext(w, b) /\ Batches(w)[b].state = "failed"
    /\ call' = [call EXCEPT ![w].phase = "raise"]
    /\ UNCHANGED vars

\* What goes on in the pool once it is left.
Unended(w) == Restrict(Batches(w), {b \in DOMAIN Batches(w) : ~Ended(Batches(w)[b])})

Return(w) ==
    /\ Embedding(w, "gather")
    /\ \A b \in DOMAIN Batches(w) : Batches(w)[b].state = "gathered"
    /\ Advance(w)
    /\ call' = [call EXCEPT ![w].phase = "idle", ![w].batches = Unended(w)]

\* Faulty variant: the pool is left without waiting for it.
RaiseAtOnce(w) ==
    /\ Embedding(w, "raise")
    /\ MarkRed(w) \/ JobRaises(w)
    /\ call' = [call EXCEPT ![w] = [NoCall EXCEPT !.batches = Unended(w)]]

\* Leaving the pool waits for the batches behind the failed one; then the file
\* turns red, or that raises as well.
Raise(w) ==
    /\ Embedding(w, "raise")
    /\ AllEnded(w)
    /\ MarkRed(w) \/ JobRaises(w)
    /\ call' = [call EXCEPT ![w] = [NoCall EXCEPT !.batches = Unended(w)]]

\* All a worker does for a file but its embedding.
OtherWork(w) ==
    /\ worker[w].stage # "embed"
    /\ Work(w)
    /\ call' = [call EXCEPT ![w].embs = <<>>]

-----------------------------------------------------------------------------
(* The threads of the pool: _get_embedding.                                *)

Set(w, b, state, tries) ==
    /\ call' = [call EXCEPT ![w].batches[b] = [state |-> state, tries |-> tries]]
    /\ UNCHANGED vars

StartBatch(w, b) ==
    /\ Batches(w)[b].state = "queued"
    /\ \A a \in DOMAIN Batches(w) : a < b => Batches(w)[a].state # "queued"
    /\ Cardinality({a \in DOMAIN Batches(w) : Batches(w)[a].state = "asking"}) < MaxWorkers
    /\ Set(w, b, "asking", 1)

Answer(w, b) ==
    /\ Batches(w)[b].state = "asking"
    /\ Set(w, b, "answered", Batches(w)[b].tries)

\* The request fails; the thread sleeps and tries again, up to MaxRetries times.
RequestFails(w, b) ==
    LET tries == Batches(w)[b].tries IN
    /\ Batches(w)[b].state = "asking"
    /\ IF tries < MaxRetries THEN Set(w, b, "asking", tries + 1) ELSE Set(w, b, "failed", tries)

-----------------------------------------------------------------------------

\* A step of the job, and of its pool.
Thread(w) == SubmitBatches(w) \/ Gather(w) \/ GatherRaises(w) \/ Return(w) \/ Raise(w) \/ OtherWork(w)

Pool(w) == \E b \in DOMAIN Batches(w) : StartBatch(w, b) \/ Answer(w, b) \/ RequestFails(w, b)

-----------------------------------------------------------------------------
(* Properties.                                                             *)

\* Whatever order the batches end in, and after any failures that a retry
\* mended, a file goes to the store with one embedding for each of its chunks,
\* in their order: insert_files pairs them by position.
EmbeddingsInOrder ==
    \A w \in Workers :
        worker[w].stage = "insert" => call[w].embs = [i \in 1 .. TextsOf[Current(w)] |-> i]

\* Once a file is embedded or has failed, no request for it is running or still
\* to be sent: the next file does not find the service busy with the last one.
NothingLeftRunning ==
    \A w \in Workers : worker[w].stage # "embed" => AllEnded(w)
=============================================================================
