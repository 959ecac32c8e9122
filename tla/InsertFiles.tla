----------------------------- MODULE InsertFiles -----------------------------
(***************************************************************************)
(* Ingestion with what a job does for a file in detail: the crawl of a web *)
(* link, which is how split_file_to_docs reads one, and the embedding.     *)
(***************************************************************************)
EXTENDS Embedding, UrlLoader

ASSUME CrawlersAreWorkers == Crawlers = Workers

jobVars == <<allVars, crawl>>

JobsInit == EmbeddingInit /\ CrawlInit

Splitting(w) == worker[w].stage = "split"
Crawling(w) == Splitting(w) /\ Current(w) \in Weblinks

CrawlStep(w) ==
    /\ Crawling(w)
    /\ Crawl(w)
    /\ UNCHANGED allVars

\* The pages are split and become the chunks of the file.
CrawlEnds(w) ==
    /\ Crawling(w) /\ Crawled(w)
    /\ Advance(w)
    /\ EndCrawl(w)
    /\ UNCHANGED call

\* A page cannot be loaded, or the pages not be split.
CrawlRaises(w) ==
    /\ Crawling(w) /\ crawl[w].running
    /\ MarkRed(w) \/ JobRaises(w)
    /\ EndCrawl(w)
    /\ UNCHANGED call

JobStep(w) ==
    \/ CrawlStep(w) \/ CrawlEnds(w) \/ CrawlRaises(w)
    \/ ~Crawling(w) /\ Thread(w) /\ UNCHANGED crawl

JobsNext ==
    \/ Handle /\ UNCHANGED <<call, crawl>>
    \/ \E w \in Workers : JobStep(w) \/ (Pool(w) /\ UNCHANGED crawl)
    \/ /\ Crash
       /\ call' = [w \in Workers |-> NoCall]
       /\ crawl' = [w \in Workers |-> NoCrawl]

\* Threads of both pools run, as requests to the embedding service and to sites
\* have timeouts; the event loop finishes the handler it is in and, its ready
\* queue being first in, first out, resumes an upload however many other
\* requests keep arriving.
JobsSpec ==
    /\ JobsInit /\ [][JobsNext]_jobVars
    /\ \A w \in Workers : WF_jobVars(JobStep(w)) /\ WF_jobVars(Pool(w) /\ UNCHANGED crawl)
    /\ WF_jobVars(Delete /\ UNCHANGED <<call, crawl>>)
    /\ \A r \in Requests :
          SF_jobVars((RecordFile(r) \/ UploadFails(r)) /\ UNCHANGED <<call, crawl>>)
=============================================================================
