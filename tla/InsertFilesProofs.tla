------------------------- MODULE InsertFilesProofs -------------------------
(***************************************************************************)
(* For any files, sites, batches, workers and faults: the jobs in detail   *)
(* are jobs of Ingestion, a file goes to the store with its embeddings in  *)
(* order, no request outlives the file it is for, and a crawl is complete. *)
(***************************************************************************)
EXTENDS InsertFiles, IngestionProofs, FiniteSetTheorems

Batch == [state : {"queued", "asking", "answered", "gathered", "failed"}, tries : Nat]
Call  == [phase : {"idle", "gather", "raise"}, batches : Seq(Batch), embs : Seq(Nat)]

\* The embeddings of the first n texts, and how many k batches hold.
FirstTexts(n) == [i \in 1 .. n |-> i]
Reached(f, k) == IF k * BatchSize < TextsOf[f] THEN k * BatchSize ELSE TextsOf[f]

\* The results of the first k batches are gathered, and no other's.
GatheredSoFar(f, c, k) ==
    /\ \A b \in DOMAIN c.batches : c.batches[b].state = "gathered" <=> b <= k
    /\ c.embs = FirstTexts(Reached(f, k))

\* The call of create_embedding of a worker at "stage", whose file is f.
CallFits(stage, f, c) ==
    /\ c.phase = "idle" => c.batches = <<>>
    /\ c.phase # "idle" =>
          /\ stage = "embed"
          /\ Len(c.batches) = NumBatches(f)
          /\ \E k \in 0 .. NumBatches(f) : GatheredSoFar(f, c, k)
    /\ stage = "insert" => c.embs = FirstTexts(TextsOf[f])

EmbeddingInv ==
    /\ call \in [Workers -> Call]
    /\ \A w \in Workers : CallFits(worker[w].stage, Current(w), call[w])

Below(p) == Links[p] \cap Under[p]
Openers == Directories \cup {Root}

ChildCall  == [page : Pages, todo : SUBSET Pages]
CrawlState == [running : BOOLEAN, calls : Seq(ChildCall), visited : SUBSET Pages, loaded : Seq(Pages)]

Times(p, s) == Cardinality({i \in DOMAIN s : s[i] = p})

\* A page visited is loaded, and a directory again when it is entered.
LoadedOf(visited, p) == IF p \notin visited THEN 0 ELSE IF p \in Directories \ {Root} THEN 2 ELSE 1

InSomeTodo(q, calls) == \E i \in DOMAIN calls : q \in calls[i].todo

\* What was visited is offered, and so is what is still to be looked at; what
\* is below an entered page was visited, or is still to be.
CrawlFits(calls, visited, loaded) ==
    /\ Root \in visited /\ visited \subseteq Offered
    /\ \A q \in Pages : InSomeTodo(q, calls) => q \in Offered
    /\ \A p \in visited \cap Openers : \A q \in Below(p) \ visited : InSomeTodo(q, calls)
    /\ \A p \in Pages : Times(p, loaded) = LoadedOf(visited, p)

CrawlInv ==
    /\ crawl \in [Workers -> CrawlState]
    /\ \A w \in Workers :
          /\ crawl[w].calls # <<>> => crawl[w].running
          /\ crawl[w].running => CrawlFits(crawl[w].calls, crawl[w].visited, crawl[w].loaded)

-----------------------------------------------------------------------------
(* The jobs in detail are jobs of Ingestion.                               *)

LEMMA JobStepWorks ==
    ASSUME NEW w \in Workers, JobStep(w)
    PROVE  Work(w) \/ UNCHANGED vars
  <1>1. CASE CrawlStep(w)
    BY <1>1 DEF CrawlStep, allVars
  <1>2. CASE CrawlEnds(w) \/ CrawlRaises(w)
    BY <1>2 DEF CrawlEnds, CrawlRaises, Work
  <1>3. CASE Thread(w)
    BY <1>3 DEF Thread, SubmitBatches, Gather, GatherRaises, Return, Raise, OtherWork, Work
  <1> QED
    BY <1>1, <1>2, <1>3 DEF JobStep

LEMMA PoolLeaves == ASSUME NEW w \in Workers, Pool(w) PROVE UNCHANGED vars
  BY DEF Pool, StartBatch, Answer, RequestFails, Set

LEMMA JobsStep == ASSUME [JobsNext]_jobVars PROVE [Next]_vars
  <1>1. CASE UNCHANGED jobVars
    BY <1>1 DEF jobVars, allVars
  <1>2. CASE JobsNext
    BY <1>2, JobStepWorks, PoolLeaves DEF JobsNext, Next
  <1> QED
    BY <1>1, <1>2

LEMMA JobsStart == ASSUME JobsInit PROVE Init
  BY DEF JobsInit, EmbeddingInit

\* Crawls and batches add nothing to what a job does to rows and store: what
\* is proved of Ingestion holds of the jobs in detail.
THEOREM JobsImplementIngestion == JobsSpec => Spec
  BY JobsStart, JobsStep, PTL DEF JobsSpec, Spec

\* So statuses tell the truth, settled deletions are complete and no file is
\* stranded, whatever a crawl or the embedding service does.
THEOREM JobsKeepPromises ==
    ASSUME ConstantsAssumption
    PROVE  JobsSpec => /\ []StatusTellsStore
                       /\ []SettledDeletionIsComplete
                       /\ []GrayIsInFlightOrLost
                       /\ []DeletedKbIsEmpty
  BY JobsImplementIngestion, StatusesTellStore, SettledDeletionsComplete, NothingIsStranded,
     DeletedKbStaysEmpty, PTL

-----------------------------------------------------------------------------
(* Batches and the texts they hold.                                        *)

LEMMA Division ==
    ASSUME NEW a \in Nat, NEW b \in Nat \ {0}
    PROVE  a \div b \in Nat /\ b * (a \div b) <= a /\ a < b * (a \div b) + b
  OBVIOUS

LEMMA Monotone ==
    ASSUME NEW a \in Nat, NEW b \in Nat, NEW c \in Nat, a <= b
    PROVE  a * c <= b * c /\ a * c \in Nat
  OBVIOUS

\* No batch but the last is short of texts, and all have them all.
LEMMA BatchesCover ==
    ASSUME EmbeddingAssumption, NEW f \in Files
    PROVE  /\ TextsOf[f] \in Nat /\ BatchSize \in Nat \ {0} /\ NumBatches(f) \in Nat
           /\ TextsOf[f] <= NumBatches(f) * BatchSize
           /\ \A k \in Nat : k < NumBatches(f) => k * BatchSize \in Nat /\ k * BatchSize < TextsOf[f]
  <1>1. TextsOf[f] \in Nat /\ BatchSize \in Nat \ {0}
    BY DEF EmbeddingAssumption
  <1> DEFINE t == TextsOf[f]
             n == NumBatches(f)
  <1>2. t + BatchSize - 1 \in Nat /\ n = (t + BatchSize - 1) \div BatchSize
    BY <1>1 DEF NumBatches
  <1>3. n \in Nat /\ BatchSize * n <= t + BatchSize - 1 /\ t + BatchSize - 1 < BatchSize * n + BatchSize
    BY <1>1, <1>2, Division
  <1> HIDE DEF t, n
  <1>4. t <= n * BatchSize
    BY <1>1, <1>3 DEF t
  <1>5. ASSUME NEW k \in Nat, k < n PROVE k * BatchSize \in Nat /\ k * BatchSize < t
    <2>1. (k + 1) * BatchSize <= n * BatchSize /\ k * BatchSize \in Nat
      BY <1>1, <1>3, <1>5, Monotone
    <2>2. (k + 1) * BatchSize = k * BatchSize + BatchSize
      BY <1>1
    <2> QED
      BY <1>1, <1>3, <2>1, <2>2 DEF t
  <1> QED
    BY <1>1, <1>3, <1>4, <1>5 DEF t, n

LEMMA FirstTextsSeq == ASSUME NEW n \in Nat PROVE FirstTexts(n) \in Seq(Nat) /\ Len(FirstTexts(n)) = n
  BY DEF FirstTexts

\* The texts of a batch come after those of the batches before it.
LEMMA TextsFollow ==
    ASSUME EmbeddingAssumption, NEW f \in Files, NEW b \in 1 .. NumBatches(f)
    PROVE  /\ Reached(f, b - 1) \in Nat /\ Reached(f, b) \in Nat
           /\ FirstTexts(Reached(f, b - 1)) \o Texts(f, b) = FirstTexts(Reached(f, b))
  <1> DEFINE s == (b - 1) * BatchSize
             t == TextsOf[f]
             m == IF t - s < BatchSize THEN t - s ELSE BatchSize
  <1>1. t \in Nat /\ BatchSize \in Nat \ {0} /\ s \in Nat /\ s < t
    <2>1. b - 1 \in Nat /\ b - 1 < NumBatches(f)
      BY BatchesCover
    <2> QED
      BY <2>1, BatchesCover
  <1>2. b * BatchSize = s + BatchSize
    BY <1>1
  <1>3. Texts(f, b) = [i \in 1 .. m |-> s + i]
    BY DEF Texts
  <1>4. Reached(f, b - 1) = s
    BY <1>1 DEF Reached
  <1>5. Reached(f, b) = IF s + BatchSize < t THEN s + BatchSize ELSE t
    BY <1>2 DEF Reached
  <1> HIDE DEF s, t
  <1>6. m \in Nat /\ Reached(f, b) = s + m
    BY <1>1, <1>5
  <1> HIDE DEF m
  <1>7. FirstTexts(s) \o [i \in 1 .. m |-> s + i] = FirstTexts(s + m)
    BY <1>1, <1>6 DEF FirstTexts
  <1>8. s + m \in Nat
    BY <1>1, <1>6
  <1>9. FirstTexts(Reached(f, b - 1)) \o Texts(f, b) = FirstTexts(Reached(f, b))
    BY <1>3, <1>4, <1>6, <1>7, Zenon
  <1> QED
    BY <1>1, <1>4, <1>6, <1>8, <1>9

-----------------------------------------------------------------------------
(* What a step makes of the call it is in.                                 *)

LEMMA SeqUpdated ==
    ASSUME NEW S, NEW s \in Seq(S), NEW i \in DOMAIN s, NEW e \in S
    PROVE  LET t == [s EXCEPT ![i] = e] IN
           /\ t \in Seq(S) /\ Len(t) = Len(s) /\ DOMAIN t = DOMAIN s
           /\ t[i] = e /\ \A j \in DOMAIN s : j # i => t[j] = s[j]
  OBVIOUS

\* The call in its new state.
Submitted(f) ==
    [phase |-> "gather", embs |-> <<>>,
     batches |-> [b \in 1 .. NumBatches(f) |-> [state |-> "queued", tries |-> 0]]]
WithBatch(c, b, batch) == [c EXCEPT !.batches[b] = batch]
WithGathered(f, c, b) ==
    [WithBatch(c, b, [c.batches[b] EXCEPT !.state = "gathered"]) EXCEPT !.embs = c.embs \o Texts(f, b)]

LEMMA CallUpdated ==
    ASSUME NEW c \in Call, NEW b, NEW batch
    PROVE  WithBatch(c, b, batch)
               = [phase |-> c.phase, batches |-> [c.batches EXCEPT ![b] = batch], embs |-> c.embs]
  <1> DEFINE bs == [c.batches EXCEPT ![b] = batch]
  <1>1. WithBatch(c, b, batch) = [c EXCEPT !.batches = bs]
    BY DEF WithBatch
  <1> HIDE DEF bs
  <1>2. [c EXCEPT !.batches = bs] = [phase |-> c.phase, batches |-> bs, embs |-> c.embs]
    BY DEF Call
  <1> QED
    BY <1>1, <1>2 DEF bs

LEMMA EmbsSet ==
    ASSUME NEW p, NEW bs, NEW es, NEW embs
    PROVE  [[phase |-> p, batches |-> bs, embs |-> es] EXCEPT !.embs = embs]
               = [phase |-> p, batches |-> bs, embs |-> embs]
  OBVIOUS

LEMMA CallFields ==
    ASSUME NEW p, NEW bs, NEW es
    PROVE  LET d == [phase |-> p, batches |-> bs, embs |-> es] IN
           /\ d.phase = p /\ d.batches = bs /\ d.embs = es
           /\ p \in {"idle", "gather", "raise"} /\ bs \in Seq(Batch) /\ es \in Seq(Nat) => d \in Call
  BY DEF Call

LEMMA NoCallFits ==
    ASSUME NEW stage, stage # "insert", NEW f
    PROVE  NoCall \in Call /\ CallFits(stage, f, NoCall)
  BY DEF NoCall, Call, CallFits

LEMMA SubmittedFits ==
    ASSUME EmbeddingAssumption, NEW f \in Files
    PROVE  Submitted(f) \in Call /\ CallFits("embed", f, Submitted(f))
  <1> DEFINE c == Submitted(f)
  <1>1. NumBatches(f) \in Nat /\ TextsOf[f] \in Nat /\ BatchSize \in Nat \ {0}
    BY BatchesCover
  <1> DEFINE n == NumBatches(f)
             fresh == [state |-> "queued", tries |-> 0]
  <1>2. fresh \in Batch /\ fresh.state = "queued"
    BY DEF Batch
  <1> HIDE DEF n, fresh
  <1> DEFINE bs == [b \in 1 .. n |-> fresh]
  <1>3. n \in Nat /\ c = [phase |-> "gather", batches |-> bs, embs |-> <<>>]
    BY <1>1 DEF n, fresh, Submitted
  <1> HIDE DEF c
  <1>4. /\ bs \in Seq(Batch) /\ Len(bs) = n /\ DOMAIN bs = 1 .. n
        /\ \A b \in 1 .. n : bs[b].state = "queued"
    BY <1>2, <1>3
  <1> HIDE DEF bs
  <1>5. c \in Call /\ c.phase = "gather" /\ c.batches = bs /\ c.embs = <<>>
    <2>1. <<>> \in Seq(Nat)
      OBVIOUS
    <2> QED
      BY <1>3, <1>4, <2>1, CallFields, Zenon
  <1>6. <<>> = FirstTexts(Reached(f, 0))
    BY <1>1 DEF FirstTexts, Reached
  <1>7. GatheredSoFar(f, c, 0)
    BY <1>3, <1>4, <1>5, <1>6 DEF GatheredSoFar
  <1> QED
    BY <1>3, <1>4, <1>5, <1>7 DEF CallFits, n, c

\* The batches of a call that is under way.
LEMMA CallUnderWay ==
    ASSUME EmbeddingAssumption, NEW f \in Files, NEW c \in Call, NEW stage, CallFits(stage, f, c),
           c.phase # "idle"
    PROVE  /\ c.batches \in Seq(Batch) /\ Len(c.batches) = NumBatches(f) /\ NumBatches(f) \in Nat
           /\ DOMAIN c.batches = 1 .. NumBatches(f)
           /\ c.embs \in Seq(Nat) /\ stage = "embed"
           /\ \E k \in 0 .. NumBatches(f) : GatheredSoFar(f, c, k)
  BY BatchesCover DEF CallFits, Call

\* The next result is that of the batch behind those gathered.
LEMMA NextGathered ==
    ASSUME EmbeddingAssumption, NEW f \in Files, NEW c \in Call, NEW k \in 0 .. NumBatches(f),
           GatheredSoFar(f, c, k), DOMAIN c.batches = 1 .. NumBatches(f), NumBatches(f) \in Nat,
           NEW b \in DOMAIN c.batches, c.batches[b].state # "gathered",
           \A a \in DOMAIN c.batches : a < b => c.batches[a].state = "gathered"
    PROVE  b = k + 1
  <1>1. b > k
    BY DEF GatheredSoFar
  <1>2. ~ b > k + 1
    BY <1>1 DEF GatheredSoFar
  <1> QED
    BY <1>1, <1>2

LEMMA GatheredFits ==
    ASSUME EmbeddingAssumption, NEW f \in Files, NEW c \in Call, CallFits("embed", f, c),
           c.phase = "gather", NEW b \in DOMAIN c.batches, c.batches[b].state # "gathered",
           \A a \in DOMAIN c.batches : a < b => c.batches[a].state = "gathered"
    PROVE  WithGathered(f, c, b) \in Call /\ CallFits("embed", f, WithGathered(f, c, b))
  <1> DEFINE n == NumBatches(f)
             d == WithGathered(f, c, b)
             batch == [c.batches[b] EXCEPT !.state = "gathered"]
             after == [c.batches EXCEPT ![b] = batch]
  <1>1. /\ c.batches \in Seq(Batch) /\ Len(c.batches) = n /\ n \in Nat
        /\ DOMAIN c.batches = 1 .. n /\ c.embs \in Seq(Nat)
    BY CallUnderWay
  <1>2. PICK k \in 0 .. n : GatheredSoFar(f, c, k)
    BY CallUnderWay
  <1>3. b = k + 1
    BY <1>1, <1>2, NextGathered
  <1>4. c.embs \o Texts(f, b) = FirstTexts(Reached(f, k + 1)) /\ Reached(f, k + 1) \in Nat
    <2>1. b \in 1 .. n /\ k = b - 1 /\ k + 1 = b
      BY <1>1, <1>3
    <2>2. c.embs = FirstTexts(Reached(f, b - 1))
      BY <1>2, <2>1 DEF GatheredSoFar
    <2> QED
      BY <2>1, <2>2, TextsFollow
  <1>5. /\ after \in Seq(Batch) /\ Len(after) = n /\ DOMAIN after = 1 .. n
        /\ after[b].state = "gathered"
        /\ \A a \in 1 .. n : a # b => after[a] = c.batches[a]
    <2>1. c.batches[b] \in Batch
      BY <1>1
    <2>2. batch \in Batch /\ batch.state = "gathered"
      BY <2>1 DEF Batch
    <2> HIDE DEF batch
    <2> QED
      BY <1>1, <2>2, SeqUpdated
  <1> HIDE DEF after
  <1>6. d = [phase |-> "gather", batches |-> after, embs |-> c.embs \o Texts(f, b)]
    <2> HIDE DEF batch
    <2>1. WithBatch(c, b, batch) = [phase |-> c.phase, batches |-> after, embs |-> c.embs]
      BY CallUpdated DEF after
    <2>2. d = [WithBatch(c, b, batch) EXCEPT !.embs = c.embs \o Texts(f, b)]
      BY DEF WithGathered, batch
    <2> HIDE DEF d
    <2>3. d = [[phase |-> c.phase, batches |-> after, embs |-> c.embs] EXCEPT !.embs = c.embs \o Texts(f, b)]
      BY <2>1, <2>2, Zenon
    <2>4. d = [phase |-> c.phase, batches |-> after, embs |-> c.embs \o Texts(f, b)]
      BY <2>3, EmbsSet
    <2> QED
      BY <2>4
  <1> HIDE DEF d
  <1>7. d \in Call /\ d.phase = "gather" /\ d.batches = after /\ d.embs = FirstTexts(Reached(f, k + 1))
    <2>1. FirstTexts(Reached(f, k + 1)) \in Seq(Nat)
      BY <1>4, FirstTextsSeq
    <2>2. d = [phase |-> "gather", batches |-> after, embs |-> FirstTexts(Reached(f, k + 1))]
      BY <1>4, <1>6
    <2> HIDE DEF n
    <2> QED
      BY <1>5, <2>1, <2>2, CallFields, Zenon
  <1>8. \A a \in 1 .. n : after[a].state = "gathered" <=> a <= k + 1
    <2>1. \A a \in 1 .. n : c.batches[a].state = "gathered" <=> a <= k
      BY <1>1, <1>2 DEF GatheredSoFar
    <2>2. TAKE a \in 1 .. n
    <2>3. CASE a = b
      BY <1>3, <1>5, <2>3
    <2>4. CASE a # b
      BY <1>3, <1>5, <2>1, <2>4
    <2> QED
      BY <2>3, <2>4
  <1>9. GatheredSoFar(f, d, k + 1) /\ k + 1 \in 0 .. n
    BY <1>1, <1>3, <1>5, <1>7, <1>8 DEF GatheredSoFar
  <1> QED
    BY <1>5, <1>7, <1>9 DEF CallFits, d

\* When every batch is gathered, so is every text.
LEMMA AllGathered ==
    ASSUME EmbeddingAssumption, NEW f \in Files, NEW c \in Call, CallFits("embed", f, c),
           c.phase = "gather", \A b \in DOMAIN c.batches : c.batches[b].state = "gathered"
    PROVE  c.embs = FirstTexts(TextsOf[f])
  <1> DEFINE n == NumBatches(f)
  <1>1. n \in Nat /\ DOMAIN c.batches = 1 .. n
    BY CallUnderWay
  <1>2. PICK k \in 0 .. n : GatheredSoFar(f, c, k)
    BY CallUnderWay
  <1>3. k = n
    BY <1>1, <1>2 DEF GatheredSoFar
  <1>4. Reached(f, n) = TextsOf[f]
    <2>1. TextsOf[f] \in Nat /\ BatchSize \in Nat \ {0} /\ TextsOf[f] <= n * BatchSize
      BY BatchesCover
    <2>2. n * BatchSize \in Nat
      BY <1>1, <2>1, Monotone
    <2> QED
      BY <2>1, <2>2 DEF Reached
  <1> QED
    BY <1>2, <1>3, <1>4 DEF GatheredSoFar

\* A thread of the pool gathers nothing.
LEMMA BatchMovesFits ==
    ASSUME EmbeddingAssumption, NEW f \in Files, NEW c \in Call, NEW stage, CallFits(stage, f, c),
           c.phase # "idle", NEW b \in DOMAIN c.batches, c.batches[b].state # "gathered",
           NEW batch \in Batch, batch.state # "gathered"
    PROVE  WithBatch(c, b, batch) \in Call /\ CallFits(stage, f, WithBatch(c, b, batch))
  <1> DEFINE n == NumBatches(f)
             d == WithBatch(c, b, batch)
             after == [c.batches EXCEPT ![b] = batch]
  <1>1. /\ c.batches \in Seq(Batch) /\ Len(c.batches) = n /\ n \in Nat
        /\ DOMAIN c.batches = 1 .. n /\ c.embs \in Seq(Nat) /\ stage = "embed"
    BY CallUnderWay
  <1>2. PICK k \in 0 .. n : GatheredSoFar(f, c, k)
    BY CallUnderWay
  <1>3. /\ after \in Seq(Batch) /\ Len(after) = n /\ DOMAIN after = 1 .. n
        /\ after[b] = batch /\ \A a \in 1 .. n : a # b => after[a] = c.batches[a]
    BY <1>1
  <1> HIDE DEF after
  <1>4. d = [phase |-> c.phase, batches |-> after, embs |-> c.embs]
    BY CallUpdated DEF after
  <1> HIDE DEF d
  <1>5. d \in Call /\ d.phase = c.phase /\ d.batches = after /\ d.embs = c.embs
    <2>1. c.phase \in {"idle", "gather", "raise"}
      BY DEF Call
    <2> QED
      BY <1>1, <1>3, <1>4, <2>1, CallFields, Zenon
  <1>6. GatheredSoFar(f, d, k)
    BY <1>1, <1>2, <1>3, <1>5 DEF GatheredSoFar
  <1> QED
    BY <1>1, <1>2, <1>3, <1>5, <1>6 DEF CallFits, d

\* When all batches have ended, nothing of them is left to the pool.
LEMMA NothingUnended ==
    ASSUME NEW w, \A b \in DOMAIN Batches(w) : Ended(Batches(w)[b])
    PROVE  Unended(w) = <<>>
  <1>1. {b \in DOMAIN Batches(w) : ~Ended(Batches(w)[b])} = {}
    OBVIOUS
  <1> QED
    BY <1>1 DEF Unended, Restrict

-----------------------------------------------------------------------------
(* The embedding, step by step.                                            *)

LEMMA HandleLeaves == ASSUME Handle PROVE worker' = worker
  BY DEF Handle, NewKnowledgeBase, BeginUpload, RecordFile, UploadFails, UploadWeblink, DeleteDocs,
         CleanFilesByStatus, DeleteKnowledgeBase, Begin, Delete, DeleteVectors, SweepPartition,
         RemoveVectors, DeleteRaises, DeleteRows, CollectPartition, MarkKbRow, MarkFileRows

\* How a worker that is not embedding goes on, and one whose file failed.
LEMMA OnlyEmbeddedInsert ==
    ASSUME Typed, NEW w \in Workers, Work(w), worker[w].stage # "embed" \/ MarkRed(w) \/ JobRaises(w)
    PROVE  worker'[w].stage # "insert"
  <1> USE DEF Typed, TypeOK
  <1>1. \A todo, files, safe : At(todo, files, safe).stage \in {"idle", "split"}
    BY DEF At, Idle
  <1>2. CASE TakeJob(w) \/ MarkRed(w) \/ MarkStored(w)
    BY <1>1, <1>2, SMTT(20) DEF TakeJob, MarkRed, MarkStored, NextFile
  <1>3. CASE Advance(w) /\ worker[w].stage # "embed"
    BY <1>3 DEF Advance, Stage, WorkerState
  <1>4. CASE InsertSucceeds(w) \/ InsertFails(w)
    BY <1>4 DEF InsertSucceeds, InsertFails, Stage, WorkerState
  <1>5. CASE JobRaises(w)
    BY <1>5 DEF JobRaises, Idle, WorkerState
  <1>6. CASE FallbackRed(w) \/ FallbackFails(w)
    BY <1>6, SMTT(20) DEF FallbackRed, FallbackFails, NextFallback, Idle, WorkerState
  <1> QED
    BY <1>2, <1>3, <1>5, <1>6, <1>4 DEF Work

LEMMA EmbeddingFrame ==
    ASSUME EmbeddingInv, NEW w \in Workers, NEW c \in Call, call' = [call EXCEPT ![w] = c],
           \A v \in Workers : v # w => worker'[v] = worker[v],
           CallFits(worker'[w].stage, Head(worker'[w].todo), c)
    PROVE  EmbeddingInv'
  <1>1. call' \in [Workers -> Call] /\ call'[w] = c /\ \A v \in Workers : v # w => call'[v] = call[v]
    BY DEF EmbeddingInv
  <1>2. ASSUME NEW v \in Workers PROVE CallFits(worker'[v].stage, Head(worker'[v].todo), call'[v])
    <2>1. CASE v = w
      BY <1>1, <2>1
    <2>2. CASE v # w
      BY <1>1, <2>2 DEF EmbeddingInv, Current
    <2> QED
      BY <2>1, <2>2
  <1> QED
    BY <1>1, <1>2 DEF EmbeddingInv, Current

\* A worker whose call is over, or which has none.
LEMMA IdleCall ==
    ASSUME NEW stage, NEW f, NEW c \in Call, c.phase = "idle", c.batches = <<>>, stage # "insert"
    PROVE  CallFits(stage, f, c)
  BY DEF CallFits

\* The state of a worker's call, and of its file while it embeds.
LEMMA Embeds ==
    ASSUME Typed, EmbeddingInv, NEW w \in Workers
    PROVE  /\ call[w] \in Call /\ call[w] = [phase |-> call[w].phase, batches |-> call[w].batches,
                                             embs |-> call[w].embs]
           /\ CallFits(worker[w].stage, Current(w), call[w])
           /\ worker[w].stage # "idle" => Current(w) \in Files
           /\ worker[w].stage # "embed" => call[w].phase = "idle" /\ call[w].batches = <<>>
  <1>1. call[w] \in Call /\ CallFits(worker[w].stage, Current(w), call[w])
    BY DEF EmbeddingInv
  <1>2. worker[w].stage # "idle" => Current(w) \in Files
    BY CurrentFile DEF Current
  <1>3. worker[w].stage # "embed" => call[w].phase = "idle" /\ call[w].batches = <<>>
    BY <1>1 DEF CallFits
  <1>4. call[w] = [phase |-> call[w].phase, batches |-> call[w].batches, embs |-> call[w].embs]
    BY <1>1 DEF Call
  <1> QED
    BY <1>1, <1>2, <1>3, <1>4

LEMMA SubmitStays ==
    ASSUME EmbeddingAssumption, Typed, EmbeddingInv, NEW w \in Workers, SubmitBatches(w)
    PROVE  EmbeddingInv'
  <1>1. worker' = worker /\ worker[w].stage = "embed"
    BY DEF SubmitBatches, Embedding, vars
  <1>2. call' = [call EXCEPT ![w] = Submitted(Current(w))]
    BY DEF SubmitBatches, Submitted
  <1>3. Submitted(Current(w)) \in Call /\ CallFits("embed", Current(w), Submitted(Current(w)))
    BY <1>1, Embeds, SubmittedFits
  <1> QED
    BY <1>1, <1>2, <1>3, EmbeddingFrame DEF Current

LEMMA GatherStays ==
    ASSUME EmbeddingAssumption, Typed, EmbeddingInv, NEW w \in Workers, Gather(w)
    PROVE  EmbeddingInv'
  <1>1. worker' = worker /\ worker[w].stage = "embed" /\ call[w].phase = "gather"
    BY DEF Gather, Embedding, vars
  <1> DEFINE f == Current(w)
             c == call[w]
  <1>2. PICK b \in DOMAIN c.batches : IsNext(w, b) /\ Gathered(w, b)
    BY DEF Gather, Batches
  <1>3. c \in Call /\ f \in Files /\ CallFits("embed", f, c)
    BY <1>1, Embeds
  <1>4. /\ c.batches[b].state # "gathered"
        /\ \A a \in DOMAIN c.batches : a < b => c.batches[a].state = "gathered"
    BY <1>2 DEF IsNext, Batches
  <1>5. WithGathered(f, c, b) \in Call /\ CallFits("embed", f, WithGathered(f, c, b))
    BY <1>1, <1>3, <1>4, GatheredFits
  <1>6. call' = [call EXCEPT ![w] = WithGathered(f, c, b)]
    <2>1. WithBatch(c, b, [c.batches[b] EXCEPT !.state = "gathered"]).embs = c.embs
      BY <1>3, CallUpdated, CallFields
    <2> QED
      BY <1>2, <2>1 DEF Gathered, WithGathered, WithBatch, EmbeddingInv
  <1> HIDE DEF c
  <1> QED
    BY <1>1, <1>5, <1>6, EmbeddingFrame DEF Current

LEMMA GatherRaisesStays ==
    ASSUME EmbeddingAssumption, Typed, EmbeddingInv, NEW w \in Workers, GatherRaises(w)
    PROVE  EmbeddingInv'
  <1> DEFINE c == [phase |-> "raise", batches |-> call[w].batches, embs |-> call[w].embs]
  <1>1. /\ worker' = worker /\ worker[w].stage = "embed" /\ call[w].phase = "gather"
        /\ call' = [call EXCEPT ![w].phase = "raise"]
    BY DEF GatherRaises, Embedding, vars
  <1>2. call[w] \in Call /\ Current(w) \in Files /\ CallFits("embed", Current(w), call[w])
    BY <1>1, Embeds
  <1>3. call[w].batches \in Seq(Batch) /\ call[w].embs \in Seq(Nat)
    BY <1>2 DEF Call
  <1>4. c \in Call /\ c.phase = "raise" /\ c.batches = call[w].batches /\ c.embs = call[w].embs
    BY <1>3, CallFields
  <1>5. call' = [call EXCEPT ![w] = c]
    <2>1. call[w] = [phase |-> call[w].phase, batches |-> call[w].batches, embs |-> call[w].embs]
      BY Embeds
    <2>2. [call[w] EXCEPT !.phase = "raise"] = c
      BY <2>1
    <2> QED
      BY <1>1, <2>2
  <1> HIDE DEF c
  <1>6. CallFits("embed", Current(w), c)
    BY <1>1, <1>2, <1>4 DEF CallFits, GatheredSoFar
  <1> QED
    BY <1>1, <1>4, <1>5, <1>6, EmbeddingFrame DEF Current

LEMMA ReturnStays ==
    ASSUME EmbeddingAssumption, Typed, EmbeddingInv, NEW w \in Workers, Return(w)
    PROVE  EmbeddingInv'
  <1> DEFINE c == [phase |-> "idle", batches |-> <<>>, embs |-> call[w].embs]
  <1>1. /\ worker[w].stage = "embed" /\ call[w].phase = "gather"
        /\ \A b \in DOMAIN call[w].batches : call[w].batches[b].state = "gathered"
        /\ Advance(w)
        /\ call' = [call EXCEPT ![w].phase = "idle", ![w].batches = Unended(w)]
    BY DEF Return, Embedding, Batches
  <1>2. call[w] \in Call /\ Current(w) \in Files /\ CallFits("embed", Current(w), call[w])
    BY <1>1, Embeds
  <1>3. call[w].embs = FirstTexts(TextsOf[Current(w)])
    BY <1>1, <1>2, AllGathered
  <1>4. Unended(w) = <<>>
    BY <1>1, NothingUnended DEF Ended, Batches
  <1>5. c \in Call /\ c.phase = "idle" /\ c.batches = <<>> /\ c.embs = call[w].embs
    <2>1. <<>> \in Seq(Batch) /\ call[w].embs \in Seq(Nat)
      BY <1>2 DEF Call
    <2> QED
      BY <2>1, CallFields
  <1>6. call' = [call EXCEPT ![w] = c]
    <2> DEFINE p == call[w].phase
               bs == call[w].batches
               es == call[w].embs
    <2>1. call[w] = [phase |-> p, batches |-> bs, embs |-> es]
      BY Embeds
    <2> HIDE DEF p, bs, es
    <2>2. [call[w] EXCEPT !.phase = "idle"] = [phase |-> "idle", batches |-> bs, embs |-> es]
      BY <2>1
    <2>3. [[phase |-> "idle", batches |-> bs, embs |-> es] EXCEPT !.batches = <<>>] = c
      BY DEF es
    <2>4. [[call[w] EXCEPT !.phase = "idle"] EXCEPT !.batches = <<>>] = c
      BY <2>2, <2>3, Zenon
    <2>5. call' = [call EXCEPT ![w] = [[call[w] EXCEPT !.phase = "idle"] EXCEPT !.batches = <<>>]]
      BY <1>1, <1>4 DEF EmbeddingInv
    <2> QED
      BY <2>4, <2>5
  <1> HIDE DEF c
  <1>7. /\ \A v \in Workers : v # w => worker'[v] = worker[v]
        /\ worker'[w].stage = "insert" /\ worker'[w].todo = worker[w].todo
    BY <1>1 DEF Advance, Stage, Typed, TypeOK, WorkerState
  <1>8. CallFits("insert", Current(w), c)
    BY <1>3, <1>5 DEF CallFits
  <1> QED
    BY <1>5, <1>6, <1>7, <1>8, EmbeddingFrame DEF Current

LEMMA OthersStay ==
    ASSUME Typed, NEW w \in Workers, Work(w)
    PROVE  \A v \in Workers : v # w => worker'[v] = worker[v]
  BY WorkTyped DEF Becomes, Typed, TypeOK

LEMMA RaiseStays ==
    ASSUME Typed, EmbeddingInv, NEW w \in Workers, Raise(w)
    PROVE  EmbeddingInv'
  <1>1. Work(w) /\ (MarkRed(w) \/ JobRaises(w))
    BY DEF Raise, Work
  <1>2. call' = [call EXCEPT ![w] = NoCall]
    <2>1. Unended(w) = <<>>
      BY NothingUnended DEF Raise, AllEnded
    <2>2. [NoCall EXCEPT !.batches = <<>>] = NoCall
      BY DEF NoCall
    <2> QED
      BY <2>1, <2>2 DEF Raise
  <1>3. worker'[w].stage # "insert"
    BY <1>1, OnlyEmbeddedInsert
  <1>4. NoCall \in Call /\ CallFits(worker'[w].stage, Head(worker'[w].todo), NoCall)
    BY <1>3, NoCallFits
  <1> QED
    BY <1>1, <1>2, <1>4, OthersStay, EmbeddingFrame

LEMMA OtherWorkStays ==
    ASSUME Typed, EmbeddingInv, NEW w \in Workers, OtherWork(w)
    PROVE  EmbeddingInv'
  <1>1. Work(w) /\ worker[w].stage # "embed" /\ call' = [call EXCEPT ![w].embs = <<>>]
    BY DEF OtherWork
  <1>2. call' = [call EXCEPT ![w] = NoCall]
    <2>1. call[w] = [phase |-> "idle", batches |-> <<>>, embs |-> call[w].embs]
      BY <1>1, Embeds
    <2>2. [call[w] EXCEPT !.embs = <<>>] = NoCall
      BY <2>1 DEF NoCall
    <2> QED
      BY <1>1, <2>2
  <1>3. worker'[w].stage # "insert"
    BY <1>1, OnlyEmbeddedInsert
  <1>4. NoCall \in Call /\ CallFits(worker'[w].stage, Head(worker'[w].todo), NoCall)
    BY <1>3, NoCallFits
  <1> QED
    BY <1>1, <1>2, <1>4, OthersStay, EmbeddingFrame

\* A thread of the pool moves one batch of a call that is under way.
LEMMA PoolStays ==
    ASSUME EmbeddingAssumption, Typed, EmbeddingInv, NEW w \in Workers, Pool(w)
    PROVE  EmbeddingInv'
  <1> DEFINE c == call[w]
  <1>1. PICK b \in DOMAIN c.batches : StartBatch(w, b) \/ Answer(w, b) \/ RequestFails(w, b)
    BY DEF Pool, Batches
  <1>2. c \in Call /\ CallFits(worker[w].stage, Current(w), c)
    BY Embeds
  <1>3. c.phase # "idle"
    BY <1>1, <1>2 DEF CallFits
  <1>4. worker[w].stage = "embed" /\ Current(w) \in Files
    BY <1>2, <1>3, Embeds DEF CallFits
  <1>5. c.batches[b] \in Batch
    BY <1>2 DEF Call
  <1>6. worker' = worker
    BY PoolLeaves DEF vars
  <1>7. PICK batch \in Batch :
            /\ batch.state # "gathered" /\ c.batches[b].state # "gathered"
            /\ call' = [call EXCEPT ![w].batches[b] = batch]
    <2>1. MaxRetries \in Nat /\ c.batches[b].tries \in Nat
      BY <1>5 DEF Batch, EmbeddingAssumption
    <2>2. PICK state \in {"asking", "answered", "failed"}, tries \in Nat : Set(w, b, state, tries)
      BY <1>1, <2>1 DEF StartBatch, Answer, RequestFails, Batches
    <2>3. c.batches[b].state # "gathered"
      BY <1>1 DEF StartBatch, Answer, RequestFails, Batches
    <2>4. /\ [state |-> state, tries |-> tries] \in Batch
          /\ [state |-> state, tries |-> tries].state # "gathered"
      BY <2>2 DEF Batch
    <2> QED
      BY <2>2, <2>3, <2>4 DEF Set
  <1>8. WithBatch(c, b, batch) \in Call /\ CallFits(worker[w].stage, Current(w), WithBatch(c, b, batch))
    BY <1>2, <1>3, <1>4, <1>7, BatchMovesFits
  <1>9. call' = [call EXCEPT ![w] = WithBatch(c, b, batch)]
    BY <1>7 DEF WithBatch
  <1> HIDE DEF c
  <1> QED
    BY <1>6, <1>8, <1>9, EmbeddingFrame DEF Current

\* A crawl leaves the call alone, and it is not there to be left.
LEMMA CrawlingStays ==
    ASSUME Typed, EmbeddingInv, NEW w \in Workers, CrawlStep(w) \/ CrawlEnds(w) \/ CrawlRaises(w)
    PROVE  EmbeddingInv'
  <1>1. CASE CrawlStep(w)
    BY <1>1 DEF CrawlStep, allVars, vars, EmbeddingInv, Current
  <1>2. CASE CrawlEnds(w) \/ CrawlRaises(w)
    <2>1. Work(w) /\ worker[w].stage = "split" /\ call' = call
      BY <1>2 DEF CrawlEnds, CrawlRaises, Crawling, Splitting, Work
    <2>2. call[w] \in Call /\ call[w].phase = "idle" /\ call[w].batches = <<>>
      BY <2>1, Embeds
    <2>3. CallFits(worker'[w].stage, Head(worker'[w].todo), call[w])
      BY <2>1, <2>2, OnlyEmbeddedInsert, IdleCall
    <2>4. call' = [call EXCEPT ![w] = call[w]]
      BY <2>1 DEF EmbeddingInv
    <2> QED
      BY <2>1, <2>2, <2>3, <2>4, OthersStay, EmbeddingFrame
  <1> QED
    BY <1>1, <1>2

LEMMA EmbeddingStarts == ASSUME JobsInit PROVE EmbeddingInv
  <1>1. call = [w \in Workers |-> NoCall] /\ worker = [w \in Workers |-> Idle]
    BY DEF JobsInit, EmbeddingInit, Init
  <1>2. \A w \in Workers : worker[w].stage # "insert" /\ call[w] = NoCall
    BY <1>1 DEF Idle
  <1> QED
    BY <1>1, <1>2, NoCallFits DEF EmbeddingInv, NoCall

LEMMA EmbeddingStays ==
    ASSUME EmbeddingAssumption, Typed, EmbeddingInv, [JobsNext]_jobVars
    PROVE  EmbeddingInv'
  <1>1. CASE UNCHANGED jobVars
    BY <1>1 DEF jobVars, allVars, vars, EmbeddingInv, Current
  <1>2. CASE Handle /\ UNCHANGED <<call, crawl>>
    BY <1>2, HandleLeaves DEF EmbeddingInv, Current
  <1>3. ASSUME NEW w \in Workers, JobStep(w) PROVE EmbeddingInv'
    BY <1>3, CrawlingStays, SubmitStays, GatherStays, GatherRaisesStays, ReturnStays, RaiseStays,
       OtherWorkStays DEF JobStep, Thread
  <1>4. ASSUME NEW w \in Workers, Pool(w) PROVE EmbeddingInv'
    BY <1>4, PoolStays
  <1>5. CASE Crash /\ call' = [w \in Workers |-> NoCall]
    <2>1. \A w \in Workers : worker'[w].stage # "insert" /\ call'[w] = NoCall
      BY <1>5 DEF Crash, Idle
    <2> QED
      BY <1>5, <2>1, NoCallFits DEF EmbeddingInv, Current
  <1> QED
    BY <1>1, <1>2, <1>3, <1>4, <1>5 DEF JobsNext

-----------------------------------------------------------------------------
(* Pages, and what a site offers.                                          *)

LEMMA OfferedClosed ==
    ASSUME SiteAssumption
    PROVE  /\ Root \in Offered /\ Offered \subseteq Pages
           /\ \A p \in Offered \cap Openers : Below(p) \subseteq Offered
  BY DEF SiteAssumption, Offered, Openers, Below

LEMMA OfferedLeast ==
    ASSUME NEW S \in SUBSET Pages, Root \in S, \A p \in S \cap Openers : Below(p) \subseteq S
    PROVE  Offered \subseteq S
  BY DEF Offered, Openers, Below

LEMMA TimesNone == \A p : Times(p, <<>>) = 0
  <1>1. \A p : {i \in DOMAIN <<>> : <<>>[i] = p} = {}
    OBVIOUS
  <1> QED
    BY <1>1, FS_EmptySet DEF Times

LEMMA TimesAppend ==
    ASSUME NEW s \in Seq(Pages), NEW e \in Pages, NEW p
    PROVE  /\ Times(p, s) \in Nat
           /\ Times(p, Append(s, e)) = IF p = e THEN Times(p, s) + 1 ELSE Times(p, s)
  <1> DEFINE old == {i \in DOMAIN s : s[i] = p}
             new == {i \in DOMAIN Append(s, e) : Append(s, e)[i] = p}
             n == Len(s) + 1
  <1>1. /\ n \in Nat /\ DOMAIN s = 1 .. Len(s) /\ DOMAIN Append(s, e) = 1 .. n
        /\ Append(s, e)[n] = e /\ \A i \in 1 .. Len(s) : Append(s, e)[i] = s[i]
        /\ 1 .. n = 1 .. Len(s) \cup {n} /\ n \notin 1 .. Len(s)
    OBVIOUS
  <1>2. IsFiniteSet(old)
    <2>1. IsFiniteSet(1 .. Len(s)) /\ old \subseteq 1 .. Len(s)
      BY <1>1, FS_Interval
    <2> QED
      BY <2>1, FS_Subset
  <1>3. new = IF p = e THEN old \cup {n} ELSE old
    BY <1>1
  <1>4. n \notin old
    BY <1>1
  <1> HIDE DEF old, new, n
  <1>5. Cardinality(old) \in Nat
    BY <1>2, FS_CardinalityType
  <1>6. Cardinality(new) = IF p = e THEN Cardinality(old) + 1 ELSE Cardinality(old)
    BY <1>2, <1>3, <1>4, FS_AddElement
  <1> QED
    BY <1>5, <1>6 DEF Times, old, new

-----------------------------------------------------------------------------
(* The calls a crawl is in.                                                *)

LEMMA TodoOfAppend ==
    ASSUME NEW calls \in Seq(ChildCall), NEW e \in ChildCall
    PROVE  /\ Append(calls, e) \in Seq(ChildCall)
           /\ \A q : InSomeTodo(q, Append(calls, e)) <=> InSomeTodo(q, calls) \/ q \in e.todo
  <1> DEFINE n == Len(calls) + 1
  <1>1. /\ n \in Nat /\ DOMAIN calls = 1 .. Len(calls) /\ DOMAIN Append(calls, e) = 1 .. n
        /\ Append(calls, e)[n] = e /\ \A i \in 1 .. Len(calls) : Append(calls, e)[i] = calls[i]
        /\ 1 .. n = 1 .. Len(calls) \cup {n} /\ Append(calls, e) \in Seq(ChildCall)
    OBVIOUS
  <1> HIDE DEF n
  <1> QED
    BY <1>1 DEF InSomeTodo

LEMMA TodoOfFront ==
    ASSUME NEW calls \in Seq(ChildCall), calls # <<>>
    PROVE  /\ Front(calls) \in Seq(ChildCall) /\ Last(calls) \in ChildCall
           /\ \A q : InSomeTodo(q, calls) <=> InSomeTodo(q, Front(calls)) \/ q \in Last(calls).todo
  <1> DEFINE n == Len(calls)
             front == SubSeq(calls, 1, n - 1)
  <1>1. /\ n \in Nat /\ n > 0 /\ DOMAIN calls = 1 .. n /\ calls[n] \in ChildCall
        /\ 1 .. n = 1 .. n - 1 \cup {n}
    OBVIOUS
  <1>2. /\ front \in Seq(ChildCall) /\ DOMAIN front = 1 .. n - 1
        /\ \A i \in 1 .. n - 1 : front[i] = calls[i]
    BY <1>1
  <1>3. Front(calls) = front /\ Last(calls) = calls[n]
    BY DEF Front, Last
  <1> HIDE DEF n, front
  <1> QED
    BY <1>1, <1>2, <1>3 DEF InSomeTodo

LEMMA EnteredTyped ==
    ASSUME SiteAssumption, NEW p \in Pages
    PROVE  Entered(p) \in ChildCall /\ Entered(p).todo = Below(p)
  BY DEF SiteAssumption, Entered, ChildCall, Below

\* The call a link was taken from.
LEMMA TodoOfLeft ==
    ASSUME NEW w, crawl[w].calls \in Seq(ChildCall), crawl[w].calls # <<>>, NEW p
    PROVE  /\ LeftBy(w, p) \in Seq(ChildCall)
           /\ \A q : InSomeTodo(q, LeftBy(w, p)) => InSomeTodo(q, crawl[w].calls)
           /\ \A q : q # p /\ InSomeTodo(q, crawl[w].calls) => InSomeTodo(q, LeftBy(w, p))
  <1> DEFINE calls == crawl[w].calls
             e == [Last(calls) EXCEPT !.todo = @ \ {p}]
  <1>1. /\ Front(calls) \in Seq(ChildCall) /\ Last(calls) \in ChildCall
        /\ \A q : InSomeTodo(q, calls) <=> InSomeTodo(q, Front(calls)) \/ q \in Last(calls).todo
    BY TodoOfFront
  <1>2. e \in ChildCall /\ e.todo = Last(calls).todo \ {p}
    BY <1>1 DEF ChildCall
  <1>3. LeftBy(w, p) = Append(Front(calls), e)
    BY DEF LeftBy, Top
  <1> HIDE DEF calls, e
  <1>4. /\ LeftBy(w, p) \in Seq(ChildCall)
        /\ \A q : InSomeTodo(q, LeftBy(w, p)) <=> InSomeTodo(q, Front(calls)) \/ q \in e.todo
    BY <1>1, <1>2, <1>3, TodoOfAppend
  <1> QED
    BY <1>1, <1>2, <1>4 DEF calls

-----------------------------------------------------------------------------
(* The crawl, step by step.                                                *)

LEMMA LoadedOnce ==
    ASSUME NEW visited \in SUBSET Pages, NEW loaded \in Seq(Pages), NEW p \in Pages, p \notin visited,
           p \notin Directories \ {Root}, \A q \in Pages : Times(q, loaded) = LoadedOf(visited, q)
    PROVE  /\ Append(loaded, p) \in Seq(Pages)
           /\ \A q \in Pages : Times(q, Append(loaded, p)) = LoadedOf(visited \cup {p}, q)
  <1>1. ASSUME NEW q \in Pages PROVE Times(q, Append(loaded, p)) = LoadedOf(visited \cup {p}, q)
    <2>1. Times(q, Append(loaded, p)) = IF q = p THEN LoadedOf(visited, q) + 1 ELSE LoadedOf(visited, q)
      BY TimesAppend
    <2> QED
      BY <2>1 DEF LoadedOf
  <1>2. Append(loaded, p) \in Seq(Pages)
    OBVIOUS
  <1> QED
    BY <1>1, <1>2

LEMMA LoadedTwice ==
    ASSUME NEW visited \in SUBSET Pages, NEW loaded \in Seq(Pages), NEW p \in Pages, p \notin visited,
           p \in Directories \ {Root}, \A q \in Pages : Times(q, loaded) = LoadedOf(visited, q)
    PROVE  /\ loaded \o <<p, p>> \in Seq(Pages)
           /\ \A q \in Pages : Times(q, loaded \o <<p, p>>) = LoadedOf(visited \cup {p}, q)
  <1> DEFINE once == Append(loaded, p)
  <1>1. once \in Seq(Pages) /\ loaded \o <<p, p>> = Append(once, p) /\ Append(once, p) \in Seq(Pages)
    OBVIOUS
  <1>2. ASSUME NEW q \in Pages PROVE Times(q, Append(once, p)) = LoadedOf(visited \cup {p}, q)
    <2>1. Times(q, once) = IF q = p THEN LoadedOf(visited, q) + 1 ELSE LoadedOf(visited, q)
      BY TimesAppend
    <2> HIDE DEF once
    <2>2. Times(q, Append(once, p)) = IF q = p THEN Times(q, once) + 1 ELSE Times(q, once)
      BY <1>1, TimesAppend
    <2> QED
      BY <2>1, <2>2 DEF LoadedOf
  <1> HIDE DEF once
  <1> QED
    BY <1>1, <1>2

LEMMA StartFits ==
    ASSUME SiteAssumption
    PROVE  /\ <<Entered(Root)>> \in Seq(ChildCall) /\ {Root} \in SUBSET Pages /\ <<Root>> \in Seq(Pages)
           /\ CrawlFits(<<Entered(Root)>>, {Root}, <<Root>>)
  <1>1. Root \in Pages /\ Root \in Offered /\ Root \in Openers /\ Below(Root) \subseteq Offered
    BY OfferedClosed DEF SiteAssumption, Openers
  <1>2. Entered(Root) \in ChildCall /\ Entered(Root).todo = Below(Root)
    BY <1>1, EnteredTyped
  <1> DEFINE calls == <<Entered(Root)>>
             loaded == <<Root>>
  <1>3. calls \in Seq(ChildCall) /\ DOMAIN calls = {1} /\ calls[1] = Entered(Root)
    BY <1>2
  <1>4. \A q : InSomeTodo(q, calls) <=> q \in Below(Root)
    BY <1>2, <1>3 DEF InSomeTodo
  <1>5. loaded \in Seq(Pages) /\ \A q \in Pages : Times(q, loaded) = LoadedOf({Root}, q)
    <2>1. <<>> \in Seq(Pages) /\ loaded = Append(<<>>, Root)
      BY <1>1
    <2>2. \A q \in Pages : Times(q, <<>>) = LoadedOf({}, q)
      BY TimesNone DEF LoadedOf
    <2> HIDE DEF loaded
    <2>3. Append(<<>>, Root) \in Seq(Pages)
          /\ \A q \in Pages : Times(q, Append(<<>>, Root)) = LoadedOf({} \cup {Root}, q)
      BY <1>1, <2>1, <2>2, LoadedOnce
    <2>4. \A q : LoadedOf({} \cup {Root}, q) = LoadedOf({Root}, q)
      BY DEF LoadedOf
    <2> QED
      BY <2>1, <2>3, <2>4
  <1> HIDE DEF calls, loaded
  <1>6. CrawlFits(calls, {Root}, loaded)
    BY <1>1, <1>4, <1>5 DEF CrawlFits
  <1> QED
    BY <1>1, <1>3, <1>5, <1>6 DEF calls, loaded

LEMMA PutStays ==
    ASSUME CrawlInv, NEW w \in Workers, NEW calls \in Seq(ChildCall), NEW visited \in SUBSET Pages,
           NEW loaded \in Seq(Pages), CrawlFits(calls, visited, loaded), Crawlers = Workers,
           Put(w, calls, visited, loaded)
    PROVE  CrawlInv'
  <1> DEFINE c == [running |-> TRUE, calls |-> calls, visited |-> visited, loaded |-> loaded]
  <1>1. c \in CrawlState /\ c.running /\ c.calls = calls /\ c.visited = visited /\ c.loaded = loaded
    BY DEF CrawlState
  <1>2. crawl' = [crawl EXCEPT ![w] = c]
    BY DEF Put
  <1> HIDE DEF c
  <1>3. /\ crawl' \in [Workers -> CrawlState] /\ crawl'[w] = c
        /\ \A v \in Workers : v # w => crawl'[v] = crawl[v]
    BY <1>1, <1>2 DEF CrawlInv
  <1>4. ASSUME NEW v \in Workers
        PROVE  /\ crawl'[v].calls # <<>> => crawl'[v].running
               /\ crawl'[v].running => CrawlFits(crawl'[v].calls, crawl'[v].visited, crawl'[v].loaded)
    <2>1. CASE v = w
      BY <1>1, <1>3, <2>1
    <2>2. CASE v # w
      BY <1>3, <2>2 DEF CrawlInv
    <2> QED
      BY <2>1, <2>2
  <1> QED
    BY <1>3, <1>4 DEF CrawlInv

\* What is known of a crawl that has calls: only a running one has.
LEMMA Crawls ==
    ASSUME CrawlInv, NEW w \in Workers, crawl[w].running
    PROVE  /\ crawl[w].calls \in Seq(ChildCall) /\ crawl[w].visited \in SUBSET Pages
           /\ crawl[w].loaded \in Seq(Pages)
           /\ CrawlFits(crawl[w].calls, crawl[w].visited, crawl[w].loaded)
  BY DEF CrawlInv, CrawlState

\* A page visited before: the link is passed over.
LEMMA SeenFits ==
    ASSUME SiteAssumption, CrawlInv, NEW w \in Workers, crawl[w].running, crawl[w].calls # <<>>,
           NEW p \in crawl[w].visited
    PROVE  CrawlFits(LeftBy(w, p), crawl[w].visited, crawl[w].loaded)
  BY Crawls, TodoOfLeft DEF CrawlFits

\* A page of its own is loaded.
LEMMA PageFits ==
    ASSUME SiteAssumption, CrawlInv, NEW w \in Workers, crawl[w].running, crawl[w].calls # <<>>,
           NEW p \in Offered, p \notin crawl[w].visited, p \notin Directories
    PROVE  /\ Append(crawl[w].loaded, p) \in Seq(Pages)
           /\ CrawlFits(LeftBy(w, p), crawl[w].visited \cup {p}, Append(crawl[w].loaded, p))
  <1> DEFINE calls == crawl[w].calls
             visited == crawl[w].visited
             loaded == crawl[w].loaded
  <1>1. calls \in Seq(ChildCall) /\ visited \in SUBSET Pages /\ loaded \in Seq(Pages)
        /\ CrawlFits(calls, visited, loaded)
    BY Crawls
  <1>2. p \in Pages /\ p \notin Openers /\ p \notin Directories \ {Root}
    BY <1>1, OfferedClosed DEF CrawlFits, Openers
  <1>3. Append(loaded, p) \in Seq(Pages)
        /\ \A q \in Pages : Times(q, Append(loaded, p)) = LoadedOf(visited \cup {p}, q)
    BY <1>1, <1>2, LoadedOnce DEF CrawlFits
  <1>4. /\ \A q : InSomeTodo(q, LeftBy(w, p)) => InSomeTodo(q, calls)
        /\ \A q : q # p /\ InSomeTodo(q, calls) => InSomeTodo(q, LeftBy(w, p))
    BY <1>1, TodoOfLeft
  <1> HIDE DEF calls, visited, loaded
  <1>5. CrawlFits(LeftBy(w, p), visited \cup {p}, Append(loaded, p))
    BY <1>1, <1>2, <1>3, <1>4 DEF CrawlFits
  <1> QED
    BY <1>3, <1>5 DEF visited, loaded

\* A directory is loaded and entered.
LEMMA DirectoryFits ==
    ASSUME SiteAssumption, CrawlInv, NEW w \in Workers, crawl[w].running, crawl[w].calls # <<>>,
           NEW p \in Offered, p \notin crawl[w].visited, p \in Directories
    PROVE  /\ Append(LeftBy(w, p), Entered(p)) \in Seq(ChildCall)
           /\ crawl[w].loaded \o <<p, p>> \in Seq(Pages)
           /\ CrawlFits(Append(LeftBy(w, p), Entered(p)), crawl[w].visited \cup {p},
                        crawl[w].loaded \o <<p, p>>)
  <1> DEFINE calls == crawl[w].calls
             visited == crawl[w].visited
             loaded == crawl[w].loaded
             after == Append(LeftBy(w, p), Entered(p))
             more == loaded \o <<p, p>>
  <1>1. calls \in Seq(ChildCall) /\ visited \in SUBSET Pages /\ loaded \in Seq(Pages)
        /\ CrawlFits(calls, visited, loaded)
    BY Crawls
  <1>2. p \in Pages /\ p \in Openers /\ p \in Directories \ {Root} /\ Below(p) \subseteq Offered
    BY <1>1, OfferedClosed DEF CrawlFits, Openers
  <1>3. more \in Seq(Pages) /\ \A q \in Pages : Times(q, more) = LoadedOf(visited \cup {p}, q)
    BY <1>1, <1>2, LoadedTwice DEF CrawlFits
  <1>4. /\ LeftBy(w, p) \in Seq(ChildCall)
        /\ \A q : InSomeTodo(q, LeftBy(w, p)) => InSomeTodo(q, calls)
        /\ \A q : q # p /\ InSomeTodo(q, calls) => InSomeTodo(q, LeftBy(w, p))
    BY <1>1, TodoOfLeft
  <1>5. after \in Seq(ChildCall)
        /\ \A q : InSomeTodo(q, after) <=> InSomeTodo(q, LeftBy(w, p)) \/ q \in Below(p)
    BY <1>2, <1>4, EnteredTyped, TodoOfAppend
  <1> HIDE DEF calls, visited, loaded, after, more
  <1>6. CrawlFits(after, visited \cup {p}, more)
    BY <1>1, <1>2, <1>3, <1>4, <1>5 DEF CrawlFits
  <1> QED
    BY <1>3, <1>5, <1>6 DEF visited, loaded, after, more

\* A call without further links is left.
LEMMA LeaveFits ==
    ASSUME CrawlInv, NEW w \in Workers, crawl[w].running, crawl[w].calls # <<>>, Top(w).todo = {}
    PROVE  /\ Front(crawl[w].calls) \in Seq(ChildCall)
           /\ CrawlFits(Front(crawl[w].calls), crawl[w].visited, crawl[w].loaded)
  BY Crawls, TodoOfFront DEF Top, CrawlFits

LEMMA CrawlMoves ==
    ASSUME SiteAssumption, Crawlers = Workers, CrawlInv, NEW w \in Workers, Crawl(w)
    PROVE  CrawlInv'
  <1>1. CASE StartCrawl(w)
    BY <1>1, StartFits, PutStays DEF StartCrawl
  <1>2. CASE FollowLink(w)
    <2> DEFINE c == crawl[w]
    <2>1. c.calls # <<>> /\ c.running
      BY <1>2 DEF FollowLink, CrawlInv
    <2>2. /\ c.calls \in Seq(ChildCall) /\ c.visited \in SUBSET Pages /\ c.loaded \in Seq(Pages)
          /\ CrawlFits(c.calls, c.visited, c.loaded)
      BY <2>1, Crawls
    <2>3. PICK p \in Top(w).todo :
              IF p \in c.visited
              THEN Put(w, LeftBy(w, p), c.visited, c.loaded)
              ELSE IF p \in Directories
              THEN Put(w, Append(LeftBy(w, p), Entered(p)), c.visited \cup {p}, c.loaded \o <<p, p>>)
              ELSE Put(w, LeftBy(w, p), c.visited \cup {p}, Append(c.loaded, p))
      BY <1>2 DEF FollowLink
    <2>4. p \in Offered /\ p \in Pages
      <3>1. InSomeTodo(p, c.calls) /\ Last(c.calls) \in ChildCall
        BY <2>1, <2>2, <2>3, TodoOfFront DEF Top
      <3>2. p \in Pages
        BY <2>3, <3>1 DEF Top, ChildCall
      <3> QED
        BY <2>2, <3>1, <3>2 DEF CrawlFits
    <2>5. LeftBy(w, p) \in Seq(ChildCall) /\ c.visited \cup {p} \in SUBSET Pages
      BY <2>1, <2>2, <2>4, TodoOfLeft
    <2>6. CASE p \in c.visited
      BY <2>1, <2>2, <2>3, <2>5, <2>6, SeenFits, PutStays
    <2>7. CASE p \notin c.visited /\ p \in Directories
      BY <2>1, <2>2, <2>3, <2>4, <2>5, <2>7, DirectoryFits, PutStays
    <2>8. CASE p \notin c.visited /\ p \notin Directories
      BY <2>1, <2>2, <2>3, <2>4, <2>5, <2>8, PageFits, PutStays
    <2> QED
      BY <2>6, <2>7, <2>8
  <1>3. CASE LeaveCall(w)
    <2>1. crawl[w].running /\ crawl[w].calls # <<>> /\ Top(w).todo = {}
      BY <1>3 DEF LeaveCall, CrawlInv
    <2> QED
      BY <1>3, <2>1, Crawls, LeaveFits, PutStays DEF LeaveCall
  <1> QED
    BY <1>1, <1>2, <1>3 DEF Crawl

LEMMA CrawlEnded ==
    ASSUME Crawlers = Workers, CrawlInv, NEW w \in Workers, EndCrawl(w)
    PROVE  CrawlInv'
  <1>1. NoCrawl \in CrawlState /\ ~NoCrawl.running /\ NoCrawl.calls = <<>>
    BY DEF NoCrawl, CrawlState
  <1>2. /\ crawl' \in [Workers -> CrawlState] /\ crawl'[w] = NoCrawl
        /\ \A v \in Workers : v # w => crawl'[v] = crawl[v]
    BY <1>1 DEF EndCrawl, CrawlInv
  <1>3. ASSUME NEW v \in Workers
        PROVE  /\ crawl'[v].calls # <<>> => crawl'[v].running
               /\ crawl'[v].running => CrawlFits(crawl'[v].calls, crawl'[v].visited, crawl'[v].loaded)
    <2>1. CASE v = w
      BY <1>1, <1>2, <2>1
    <2>2. CASE v # w
      BY <1>2, <2>2 DEF CrawlInv
    <2> QED
      BY <2>1, <2>2
  <1> QED
    BY <1>2, <1>3 DEF CrawlInv

LEMMA CrawlStarts == ASSUME Crawlers = Workers, JobsInit PROVE CrawlInv
  <1>1. NoCrawl \in CrawlState /\ ~NoCrawl.running /\ NoCrawl.calls = <<>>
    BY DEF NoCrawl, CrawlState
  <1> QED
    BY <1>1 DEF JobsInit, CrawlInit, CrawlInv

LEMMA CrawlStays ==
    ASSUME SiteAssumption, Crawlers = Workers, CrawlInv, [JobsNext]_jobVars
    PROVE  CrawlInv'
  <1>1. CASE UNCHANGED crawl
    BY <1>1 DEF CrawlInv
  <1>2. ASSUME NEW w \in Workers, CrawlStep(w) PROVE CrawlInv'
    BY <1>2, CrawlMoves DEF CrawlStep
  <1>3. ASSUME NEW w \in Workers, CrawlEnds(w) \/ CrawlRaises(w) PROVE CrawlInv'
    BY <1>3, CrawlEnded DEF CrawlEnds, CrawlRaises
  <1>4. CASE crawl' = [w \in Workers |-> NoCrawl]
    <2>1. NoCrawl \in CrawlState /\ ~NoCrawl.running /\ NoCrawl.calls = <<>>
      BY DEF NoCrawl, CrawlState
    <2> QED
      BY <1>4, <2>1 DEF CrawlInv
  <1> QED
    BY <1>1, <1>2, <1>3, <1>4 DEF JobsNext, JobStep, jobVars

-----------------------------------------------------------------------------
(* The theorems.                                                           *)

JobsInv == Typed /\ EmbeddingInv /\ CrawlInv

LEMMA JobsInvariant ==
    ASSUME ConstantsAssumption, EmbeddingAssumption, SiteAssumption, CrawlersAreWorkers
    PROVE  JobsSpec => []JobsInv
  <1>1. JobsInit => JobsInv
    BY JobsStart, InitTyped, EmbeddingStarts, CrawlStarts DEF JobsInv, CrawlersAreWorkers
  <1>2. JobsInv /\ [JobsNext]_jobVars => JobsInv'
    <2>1. ASSUME JobsInv, [JobsNext]_jobVars PROVE Typed'
      BY <2>1, JobsStep, TypedStays DEF JobsInv
    <2>2. ASSUME JobsInv, [JobsNext]_jobVars PROVE EmbeddingInv'
      BY <2>2, EmbeddingStays DEF JobsInv
    <2>3. ASSUME JobsInv, [JobsNext]_jobVars PROVE CrawlInv'
      BY <2>3, CrawlStays DEF JobsInv, CrawlersAreWorkers
    <2> QED
      BY <2>1, <2>2, <2>3 DEF JobsInv
  <1> QED
    BY <1>1, <1>2, PTL DEF JobsSpec

\* Whatever order batches end in and whichever of them are tried again, the
\* store gets the embeddings of a file's chunks, all of them, in their order.
THEOREM EmbeddingsKeepOrder ==
    ASSUME ConstantsAssumption, EmbeddingAssumption, SiteAssumption, CrawlersAreWorkers
    PROVE  JobsSpec => []EmbeddingsInOrder
  <1>1. JobsInv => EmbeddingsInOrder
    BY DEF JobsInv, EmbeddingInv, CallFits, FirstTexts, EmbeddingsInOrder
  <1> QED
    BY <1>1, JobsInvariant, PTL

\* No request outlives the file it is for, even when an earlier one failed.
THEOREM NothingRunsOn ==
    ASSUME ConstantsAssumption, EmbeddingAssumption, SiteAssumption, CrawlersAreWorkers
    PROVE  JobsSpec => []NothingLeftRunning
  <1>1. JobsInv => NothingLeftRunning
    <2>1. ASSUME JobsInv, NEW w \in Workers, worker[w].stage # "embed" PROVE AllEnded(w)
      <3>1. call[w].batches = <<>>
        BY <2>1, Embeds DEF JobsInv
      <3> QED
        BY <3>1 DEF AllEnded, Batches
    <2> QED
      BY <2>1 DEF NothingLeftRunning
  <1> QED
    BY <1>1, JobsInvariant, PTL

\* A crawl that ends has loaded the pages the site offers below its root and no
\* others, whatever they link and in whatever order their links are followed.
THEOREM CrawlsAreComplete ==
    ASSUME ConstantsAssumption, EmbeddingAssumption, SiteAssumption, CrawlersAreWorkers
    PROVE  JobsSpec => []CrawlIsComplete
  <1>1. JobsInv => CrawlIsComplete
    <2>1. ASSUME JobsInv, NEW w \in Workers, Crawled(w), NEW p \in Pages
          PROVE  Times(p, crawl[w].loaded) = LoadedOf(Offered, p)
      <3>1. /\ crawl[w].visited \in SUBSET Pages
            /\ CrawlFits(<<>>, crawl[w].visited, crawl[w].loaded)
        BY <2>1, Crawls DEF JobsInv, Crawled
      <3>2. \A q : ~InSomeTodo(q, <<>>)
        BY DEF InSomeTodo
      <3>3. crawl[w].visited = Offered
        BY <3>1, <3>2, OfferedLeast DEF CrawlFits
      <3> QED
        BY <3>1, <3>3 DEF CrawlFits
    <2> QED
      BY <2>1 DEF CrawlIsComplete, Times, LoadedOf, CrawlersAreWorkers
  <1> QED
    BY <1>1, JobsInvariant, PTL

=============================================================================
