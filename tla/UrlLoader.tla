------------------------------ MODULE UrlLoader ------------------------------
(***************************************************************************)
(* The crawl of a web link: MyRecursiveUrlLoader (utils/loader), one for   *)
(* each worker that splits such a file.  A page is an element of Pages; the*)
(* links it has, fragments removed, and which addresses begin with its own *)
(* are given.  LocalFile sets neither a depth nor directories to exclude.  *)
(***************************************************************************)
EXTENDS Sequences, FiniteSets, SequencesExt

CONSTANTS
    Crawlers,
    Pages,
    Root,         \* the page the user gave
    Links,        \* page -> the pages it links
    Under,        \* page -> the pages whose address begins with its own
    Directories   \* pages whose address ends with a slash

ASSUME SiteAssumption ==
    /\ Root \in Pages /\ Directories \subseteq Pages
    /\ Links \in [Pages -> SUBSET Pages] /\ Under \in [Pages -> SUBSET Pages]

VARIABLE crawl  \* worker -> the calls of get_child_links_recursive it is in

\* todo: the links of a call not yet looked at.
NoCrawl == [running |-> FALSE, calls |-> <<>>, visited |-> {}, loaded |-> <<>>]

CrawlInit == crawl = [w \in Crawlers |-> NoCrawl]

Put(w, calls, visited, loaded) ==
    crawl' = [crawl EXCEPT ![w] = [running |-> TRUE, calls |-> calls,
                                   visited |-> visited, loaded |-> loaded]]

\* The call for a page loads it and takes its links.
Entered(p) == [page |-> p, todo |-> Links[p] \cap Under[p]]

StartCrawl(w) ==
    /\ ~crawl[w].running
    /\ Put(w, <<Entered(Root)>>, {Root}, <<Root>>)

Top(w) == Last(crawl[w].calls)
LeftBy(w, p) == Append(Front(crawl[w].calls), [Top(w) EXCEPT !.todo = @ \ {p}])

\* Faulty variant: a page that was visited ends the loop over the links.
FollowLinkToVisited(w) ==
    /\ crawl[w].calls # <<>>
    /\ \E p \in Top(w).todo :
          LET c == crawl[w] IN
          IF p \in c.visited
          THEN Put(w, Front(c.calls), c.visited, c.loaded)
          ELSE IF p \in Directories
          THEN Put(w, Append(LeftBy(w, p), Entered(p)), c.visited \cup {p}, c.loaded \o <<p, p>>)
          ELSE Put(w, LeftBy(w, p), c.visited \cup {p}, Append(c.loaded, p))

\* The links come in any order.  A page not visited is loaded, and a directory
\* is entered, which loads it again.
FollowLink(w) ==
    /\ crawl[w].calls # <<>>
    /\ \E p \in Top(w).todo :
          LET c == crawl[w] IN
          IF p \in c.visited
          THEN Put(w, LeftBy(w, p), c.visited, c.loaded)
          ELSE IF p \in Directories
          THEN Put(w, Append(LeftBy(w, p), Entered(p)), c.visited \cup {p}, c.loaded \o <<p, p>>)
          ELSE Put(w, LeftBy(w, p), c.visited \cup {p}, Append(c.loaded, p))

LeaveCall(w) ==
    /\ crawl[w].calls # <<>> /\ Top(w).todo = {}
    /\ Put(w, Front(crawl[w].calls), crawl[w].visited, crawl[w].loaded)

Crawl(w) == StartCrawl(w) \/ FollowLink(w) \/ LeaveCall(w)

Crawled(w) == crawl[w].running /\ crawl[w].calls = <<>>

\* The documents were taken, or an exception ended the crawl.
EndCrawl(w) == crawl' = [crawl EXCEPT ![w] = NoCrawl]

-----------------------------------------------------------------------------
(* Property.                                                               *)

\* Pages a site offers below its root: what any set holds that has the root
\* and, with it or a directory, the pages below that it links.
Offered ==
    LET closed == {S \in SUBSET Pages :
                      /\ Root \in S
                      /\ \A p \in S \cap (Directories \cup {Root}) : Links[p] \cap Under[p] \subseteq S}
    IN  {p \in Pages : \A S \in closed : p \in S}

\* In whatever order the links of a site are followed, and although pages link
\* each other, a crawl loads exactly the pages below the root that directories
\* lead to, each once, but directories other than the root twice.
CrawlIsComplete ==
    \A w \in Crawlers : Crawled(w) =>
        \A p \in Pages :
            Cardinality({i \in DOMAIN crawl[w].loaded : crawl[w].loaded[i] = p})
                = IF p \notin Offered THEN 0
                  ELSE IF p \in Directories \ {Root} THEN 2 ELSE 1
=============================================================================
