------------------------------ MODULE Retrieval ------------------------------
(***************************************************************************)
(* From a question to the documents of its prompt: the search in the       *)
(* user's vector store with its context expansion (faiss_client.py) and    *)
(* the ranking, reranking and trimming of get_knowledge_based_answer       *)
(* (local_doc_qa.py, rerank_client.py).  It runs on an executor worker,    *)
(* while other workers insert files into the store and the event loop      *)
(* deletes them; the search copies the metadata under the client's lock    *)
(* and releases it.                                                        *)
(*                                                                         *)
(* A chunk is a part of a file; what embedding, reranker and tokenizer     *)
(* compute is any choice from a set of numbers.  Scores are inner products *)
(* (One stands for 1.0): the distance a search reports is One less the     *)
(* product, and the score of a document One less the distance.  A text of  *)
(* n units is n characters and n tokens.  Variables are emptied with the   *)
(* last step that reads them.                                              *)
(***************************************************************************)
EXTENDS Integers, Sequences, FiniteSets, SequencesExt

CONSTANTS
    Files,         \* file ids, ordered: search results are grouped in their order
    Asked,         \* files of the knowledge bases the question names
    Tables,        \* csv and xlsx files, whose chunks are not expanded
    TextOf,        \* file -> its chunks' texts, in order
    SizeOf,        \* text -> its length
    Similarities,  \* inner products of question and chunk
    One,
    Orphans,       \* vectors of the index without metadata
    TopK,          \* 100 in the code
    Threshold,     \* largest distance of a candidate
    Window,        \* CONTEXT_EXPAND_WINDOW
    ChunkSize,     \* CHUNK_SIZE
    RerankScores,  \* probabilities a reranker gives, or NaN
    NaN,
    RerankBatch,   \* LOCAL_RERANK_BATCH
    Limits,        \* tokens that window, question, history and template may leave
    TruncateLen,   \* truncate_len
    Overhead,      \* tokens num_tokens_from_messages adds (3 in the code)
    MinMean        \* DOC_SCORE_THRESHOLD

ASSUME ConstantsAssumption ==
    /\ Files \subseteq Nat /\ IsFiniteSet(Files)
    /\ Tables \subseteq Files /\ Asked \subseteq Files
    /\ TextOf \in [Files -> Seq(DOMAIN SizeOf)]
    /\ SizeOf \in [DOMAIN SizeOf -> Nat]
    /\ Similarities \subseteq Int
    /\ RerankScores \ {NaN} \subseteq Int
    /\ Limits \subseteq Int
    /\ {One, Orphans, Threshold, ChunkSize, Overhead, MinMean} \subseteq Nat
    /\ {TopK, Window, RerankBatch, TruncateLen} \subseteq Nat \ {0}

VARIABLES
    store,    \* chunks the index and the metadata of the client hold
    stage,    \* how far the question is
    seen,     \* the copy of the metadata the search took
    found,    \* candidate -> its inner product with the question
    docs,     \* documents so far, the best first once ranked
    scores,   \* what the reranker returned so far
    limit,    \* tokens left for documents
    kept,     \* documents taken into the prompt so far
    sources   \* documents of the prompt

question == <<seen, found, docs, scores, limit, kept, sources>>
vars == <<store, stage, question>>

ChunksOf(f) == {[file |-> f, part |-> p] : p \in DOMAIN TextOf[f]}
Nothing == [c \in {} |-> 0]

\* The client was made for the knowledge bases asked; it loaded the files of
\* its user, which hold the other knowledge bases as well.
Init ==
    /\ \E loaded \in SUBSET Files : store = UNION {ChunksOf(f) : f \in loaded}
    /\ stage = "idle"
    /\ seen = {} /\ found = Nothing
    /\ docs = <<>> /\ scores = <<>> /\ limit = 0 /\ kept = <<>> /\ sources = <<>>

-----------------------------------------------------------------------------
(* Other threads use the same client.  Once a search is expanded nothing of *)
(* the question depends on the store: what happens to it later is left to  *)
(* the next question (a bound on interleavings that commute).              *)

StoreMatters == stage \in {"idle", "expand"}

\* insert_files, whose batches before a failing one stay.
Insert(f) ==
    /\ f \in Asked
    /\ StoreMatters
    /\ ChunksOf(f) \cap store = {}
    /\ \E n \in 1 .. Len(TextOf[f]) :
          store' = store \cup {c \in ChunksOf(f) : c.part <= n}
    /\ UNCHANGED <<stage, question>>

Delete(f) ==
    /\ StoreMatters
    /\ ChunksOf(f) \cap store # {}
    /\ store' = store \ ChunksOf(f)
    /\ UNCHANGED <<stage, question>>

-----------------------------------------------------------------------------
(* search_emb_async: the nearest vectors and the copy of the metadata,     *)
(* under the lock.  A vector without metadata takes a place and is skipped.*)

Lesser(a, b) == IF a < b THEN a ELSE b

Search ==
    /\ stage = "idle"
    /\ \E nearest \in SUBSET store, skipped \in 0 .. Orphans :
          /\ Cardinality(nearest) + skipped = Lesser(TopK, Cardinality(store) + Orphans)
          /\ \E product \in [nearest -> Similarities] : found' = product
    /\ seen' = store
    /\ stage' = "expand"
    /\ UNCHANGED <<store, docs, scores, limit, kept, sources>>

\* The candidates near enough, all of them when none is.
Valid ==
    LET near == {c \in DOMAIN found : One - found[c] <= Threshold}
    IN  IF near = {} THEN DOMAIN found ELSE near

Largest(S) == CHOOSE x \in S : \A y \in S : y <= x
Size(f, p) == SizeOf[TextOf[f][p]]
PartsIn(f, chunks) == {c.part : c \in chunks \cap ChunksOf(f)}

\* The numbers of a set, sorted.
Ascending(S) == CHOOSE s \in SetToSeqs(S) : \A i, j \in DOMAIN s : i < j => s[i] < s[j]

\* Faulty variant: a gap of one does not separate.
SeparateListTwice(ids) ==
    {{m \in ids : n <= m /\ \A k \in n .. m - 1 : {k, k + 1} \cap ids # {}}
        : n \in {k \in ids : {k - 1, k - 2} \cap ids = {}}}

\* separate_list: the numbers cut wherever they skip one.
SeparateList(ids) ==
    {{m \in ids : n <= m /\ n .. m \subseteq ids} : n \in {k \in ids : k - 1 \notin ids}}

\* Faulty variant: each neighbour is compared with the candidate alone.
TryUncounted(g, f, q, known) ==
    IF g.full \/ q \notin known THEN g
    ELSE IF g.size + Size(f, q) > ChunkSize THEN [g EXCEPT !.full = TRUE]
    ELSE [g EXCEPT !.parts = @ \cup {q}]

\* The neighbour q of a candidate is joined unless the text would get too long.
Try(g, f, q, known) ==
    IF g.full \/ q \notin known THEN g
    ELSE IF g.size + Size(f, q) > ChunkSize THEN [g EXCEPT !.full = TRUE]
    ELSE [g EXCEPT !.size = @ + Size(f, q), !.parts = @ \cup {q}]

\* Candidate p and its neighbours, the next before the previous, nearest first.
Widened(f, p, known) ==
    LET upTo[k \in 0 .. Window - 1] ==
            IF k = 0 THEN [size |-> Size(f, p), parts |-> {p}, full |-> FALSE]
            ELSE Try(Try(upTo[k - 1], f, p + k, known), f, p - k, known)
    IN  upTo[Window - 1].parts

\* parts: the consecutive chunks whose texts it joins; kernel: the candidates
\* among them; cut: units cut off its text; by: who scored it.
Doc(f, parts, kernel) ==
    [file |-> f, parts |-> parts, kernel |-> kernel, cut |-> 0, by |-> "search",
     score |-> Largest({found[[file |-> f, part |-> p]] : p \in kernel})]

\* process_group: the documents of a file.  Chunks come from the given metadata; a
\* run with a chunk that is not there raises and is skipped.
ProcessGroup(f, chunks) ==
    LET known == PartsIn(f, chunks)
        cands == PartsIn(f, Valid)
        runs  == SeparateList(UNION {Widened(f, p, known) : p \in cands})
    IN  {Doc(f, Ascending(run), run \cap cands) : run \in {r \in runs : r \subseteq known}}

Earlier(d, e) == d.file < e.file \/ (d.file = e.file /\ Head(d.parts) < Head(e.parts))

ExpandCandDocs(chunks) ==
    LET groups == {c.file : c \in Valid} \ Tables
    IN  CHOOSE s \in SetToSeqs(UNION {ProcessGroup(f, chunks) : f \in groups}) :
            \A i, j \in DOMAIN s : i < j => Earlier(s[i], s[j])

\* The rows of tables as the search returns them: the nearest first.
RowOrders ==
    LET rows == {Doc(c.file, <<c.part>>, {c.part}) : c \in {v \in Valid : v.file \in Tables}}
    IN  {s \in SetToSeqs(rows) : \A i, j \in DOMAIN s : i < j => s[i].score >= s[j].score}

\* Faulty variant: the metadata as it is now, not as it was searched.
ExpandLive ==
    /\ stage = "expand"
    /\ \E rows \in RowOrders : docs' = rows \o ExpandCandDocs(store)
    /\ stage' = "deduplicate"
    /\ UNCHANGED <<store, seen, found, scores, limit, kept, sources>>

Expand ==
    /\ stage = "expand"
    /\ \E rows \in RowOrders : docs' = rows \o ExpandCandDocs(seen)
    /\ stage' = "deduplicate"
    /\ UNCHANGED <<store, seen, found, scores, limit, kept, sources>>

-----------------------------------------------------------------------------
(* deduplicate_documents and the sort; rerank when the request asks for it,*)
(* the backend is enabled and the question is short enough.                *)

Content(d) == [i \in DOMAIN d.parts |-> TextOf[d.file][d.parts[i]]]

\* Of documents with the same text the first is kept.
Deduplicated(ds) ==
    LET firsts == Ascending({i \in DOMAIN ds :
                      \A j \in 1 .. i - 1 : Content(ds[j]) # Content(ds[i])})
    IN  [i \in DOMAIN firsts |-> ds[firsts[i]]]

Better(ds, i, j) == ds[i].score > ds[j].score \/ (ds[i].score = ds[j].score /\ i < j)

\* Best score first, equal ones in the order they had.
Ranked(ds) ==
    LET order == CHOOSE s \in SetToSeqs(DOMAIN ds) :
                    \A i, j \in DOMAIN s : i < j => Better(ds, s[i], s[j])
    IN  [i \in DOMAIN ds |-> ds[order[i]]]

\* reprocess_source_documents begins with what question, history and template
\* leave of the window.
StartTrim == stage' = "trim" /\ limit' \in Limits

Deduplicate ==
    /\ stage = "deduplicate"
    /\ docs' = Ranked(Deduplicated(docs))
    /\ \/ Len(docs') > 1 /\ stage' = "rerank" /\ UNCHANGED limit
       \/ StartTrim
    /\ seen' = {} /\ found' = Nothing
    /\ UNCHANGED <<store, scores, kept, sources>>

\* predict: the passages are scored batch by batch.
ScoreBatch ==
    /\ stage = "rerank"
    /\ Len(scores) < Len(docs)
    /\ \E batch \in [1 .. Lesser(RerankBatch, Len(docs) - Len(scores)) -> RerankScores] :
          scores' = scores \o batch
    /\ UNCHANGED <<store, stage, seen, found, docs, limit, kept, sources>>

Rescored(ds, by) ==
    [i \in DOMAIN ds |-> [ds[i] EXCEPT !.score = by[i], !.by = "rerank"]]

\* Sorting with a NaN among the keys may leave any order.
ApplyScores ==
    /\ stage = "rerank"
    /\ Len(scores) = Len(docs)
    /\ IF NaN \in ToSet(scores)
       THEN \E order \in SetToSeqs(DOMAIN docs) :
               docs' = [i \in DOMAIN docs |-> Rescored(docs, scores)[order[i]]]
       ELSE docs' = Ranked(Rescored(docs, scores))
    /\ scores' = <<>>
    /\ StartTrim
    /\ UNCHANGED <<store, seen, found, kept, sources>>

\* Faulty variant: the batches scored before the failure are applied.
RerankRaisesHalfway ==
    /\ stage = "rerank"
    /\ docs' = [i \in DOMAIN docs |->
          IF i <= Len(scores) THEN Rescored(SubSeq(docs, 1, Len(scores)), scores)[i] ELSE docs[i]]
    /\ scores' = <<>>
    /\ StartTrim
    /\ UNCHANGED <<store, seen, found, kept, sources>>

\* An exception in predict leaves the documents as they were.
RerankRaises ==
    /\ stage = "rerank"
    /\ scores' = <<>>
    /\ StartTrim
    /\ UNCHANGED <<store, seen, found, docs, kept, sources>>

-----------------------------------------------------------------------------
(* reprocess_source_documents: documents are taken while they fit; the     *)
(* first that does not is cut at both ends until it does, and ends the list*)

SumTo(ns) ==
    LET sum[n \in 0 .. Len(ns)] == IF n = 0 THEN 0 ELSE sum[n - 1] + ns[n]
    IN  sum
Sum(ns) == SumTo(ns)[Len(ns)]

\* Length of the text: the chunks, joined by a space.
Tokens(d) ==
    Sum([i \in DOMAIN d.parts |-> Size(d.file, d.parts[i])]) + Len(d.parts) - 1 - d.cut
Used(ds) == Sum([i \in DOMAIN ds |-> Tokens(ds[i])])

NextDoc == docs[Len(kept) + 1]
Left  == limit - Used(kept)
Trimming == stage = "trim" /\ Len(kept) < Len(docs)

KeepWhole ==
    /\ Trimming
    /\ Tokens(NextDoc) <= Left
    /\ kept' = Append(kept, NextDoc)
    /\ UNCHANGED <<store, stage, seen, found, docs, scores, limit, sources>>

\* Faulty variant: the whole limit is taken for what is left of it.
CutToFitLimit(size) ==
    LET Rest(n) == size - 2 * TruncateLen * n
        Fits(n) == Rest(n) + Overhead <= limit
        n == CHOOSE k \in 0 .. size :
                /\ Fits(k) \/ Rest(k) <= 2 * TruncateLen
                /\ \A j \in 0 .. k - 1 : ~Fits(j) /\ Rest(j) > 2 * TruncateLen
    IN  IF Fits(n) THEN Rest(n) ELSE 0

\* What is left of a text of this size after truncate_len is cut off both ends
\* as often as needed; nothing when it gets too short to cut.
CutToFit(size) ==
    LET Rest(n) == size - 2 * TruncateLen * n
        Fits(n) == Rest(n) + Overhead <= Left
        n == CHOOSE k \in 0 .. size :
                /\ Fits(k) \/ Rest(k) <= 2 * TruncateLen
                /\ \A j \in 0 .. k - 1 : ~Fits(j) /\ Rest(j) > 2 * TruncateLen
    IN  IF Fits(n) THEN Rest(n) ELSE 0

\* Faulty variant: the list goes on after a document was cut.
CutAndGoOn ==
    /\ Trimming
    /\ Tokens(NextDoc) > Left
    /\ kept' = Append(kept, [NextDoc EXCEPT !.cut = @ + Tokens(NextDoc) - CutToFit(Tokens(NextDoc))])
    /\ UNCHANGED <<store, stage, seen, found, docs, scores, limit, sources>>

CutLast ==
    /\ Trimming
    /\ Tokens(NextDoc) > Left
    /\ kept' = Append(kept, [NextDoc EXCEPT !.cut = @ + Tokens(NextDoc) - CutToFit(Tokens(NextDoc))])
    /\ stage' = "filter"
    /\ UNCHANGED <<store, seen, found, docs, scores, limit, sources>>

AllKept ==
    /\ stage = "trim" /\ Len(kept) = Len(docs)
    /\ stage' = "filter"
    /\ UNCHANGED <<store, question>>

-----------------------------------------------------------------------------
(* Documents scored NaN are dropped; when those left score too low on      *)
(* average, or none is left, the model is asked the bare question.         *)

Filter ==
    LET scored == SelectSeq(kept, LAMBDA d : d.score # NaN)
        total  == Sum([i \in DOMAIN scored |-> scored[i].score])
    IN
    /\ stage = "filter"
    /\ sources' = IF scored = <<>> \/ total < MinMean * Len(scored) THEN <<>> ELSE scored
    /\ stage' = "generate"
    /\ docs' = <<>> /\ limit' = 0 /\ kept' = <<>>
    /\ UNCHANGED <<store, seen, found, scores>>

\* The language model is asked and answers.
Generate ==
    /\ stage = "generate"
    /\ stage' = "answering"
    /\ sources' = <<>>
    /\ UNCHANGED <<store, seen, found, docs, scores, limit, kept>>

Answered ==
    /\ stage = "answering"
    /\ stage' = "idle"
    /\ UNCHANGED <<store, question>>

Retrieve ==
    \/ \E f \in Files : Insert(f) \/ Delete(f)
    \/ Search \/ Expand \/ Deduplicate
    \/ ScoreBatch \/ ApplyScores \/ RerankRaises
    \/ KeepWhole \/ CutLast \/ AllKept
    \/ Filter

Next == Retrieve \/ Generate \/ Answered

Spec == Init /\ [][Next]_vars

-----------------------------------------------------------------------------
(* Properties.                                                             *)

Searched == stage = "deduplicate"

\* However insertions and deletions go on after the search, every candidate
\* is the kernel of exactly one document of the result, and every document
\* has one: the expansion reads the metadata the search copied.
EveryCandidateOnce ==
    Searched =>
        /\ \A c \in Valid : Cardinality({i \in DOMAIN docs :
                               docs[i].file = c.file /\ c.part \in docs[i].kernel}) = 1
        /\ \A i \in DOMAIN docs : docs[i].kernel # {}

\* The documents of one file are passages of it: consecutive chunks, no chunk
\* in two of them and none that could be joined to the next.
PassagesApart ==
    Searched =>
        \A i, j \in DOMAIN docs :
            /\ docs[i].file \in Files \ Tables
            /\ docs[j].file = docs[i].file
            => /\ docs[i].parts = [k \in DOMAIN docs[i].parts |-> Head(docs[i].parts) + k - 1]
               /\ i < j => Last(docs[i].parts) + 1 < Head(docs[j].parts)

\* What expansion allows a candidate: the chunk size, or its own when it is longer,
\* as a chunk may be (the splitter counts tokens).
Allowance(f, p) == IF ChunkSize < Size(f, p) THEN Size(f, p) ELSE ChunkSize

\* Expansion never joins more text than is allowed to the candidates.
PassageSizeBounded ==
    Searched =>
        \A d \in ToSet(docs) :
            Sum([k \in DOMAIN d.parts |-> Size(d.file, d.parts[k])])
                <= Sum([k \in DOMAIN d.parts |->
                          IF d.parts[k] \in d.kernel THEN Allowance(d.file, d.parts[k]) ELSE 0])

\* What a search answers comes from the knowledge bases asked
\* (docs/API.md:254).
AnswersFromAsked == Searched => \A i \in DOMAIN docs : docs[i].file \in Asked

\* Documents are ranked by scores of one scale: a reranker that fails after
\* some batches leaves no probabilities among the inner products.
OneScale == stage # "rerank" => \A d, e \in ToSet(docs) : d.by = e.by

\* The documents fit the window: they take no more tokens than the question,
\* the history and the template leave, none when these leave none.
FitsWindow ==
    stage \in {"trim", "filter"} => Used(kept) <= IF limit < 0 THEN 0 ELSE limit

\* No document is passed over for a worse one: the prompt has the best ones
\* whole, and only the last of them may be cut, then for want of room.
BestKeptWhole ==
    stage \in {"trim", "filter"} =>
        /\ Len(kept) <= Len(docs)
        /\ \A i \in DOMAIN kept :
              \/ kept[i] = docs[i]
              \/ stage = "filter" /\ i = Len(kept) /\ Used(SubSeq(docs, 1, i)) > limit
        /\ stage = "filter" => Len(kept) = Len(docs) \/ Used(SubSeq(docs, 1, Len(kept))) > limit
=============================================================================
