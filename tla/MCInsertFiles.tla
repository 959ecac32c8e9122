---------------------------- MODULE MCInsertFiles ----------------------------
(* An upload of a file of three batches and the link of a site: a root,    *)
(* a directory, a page below both and one elsewhere.                       *)
EXTENDS InsertFiles

CONSTANTS f1, f3, r1

MCBatchOf == [r \in Requests |-> <<f1>>]
MCNameOf == [f \in Files |-> IF f = f1 THEN "a.txt" ELSE "root/"]
MCTextsOf == [f \in Files |-> IF f = f1 THEN 5 ELSE 1]

MCLinks ==
    [root |-> {"root", "dir", "page", "else"},
     dir  |-> {"root", "dir", "page"},
     page |-> {"dir"}, else |-> {"root"}]
MCUnder ==
    [root |-> {"root", "dir", "page"},
     dir  |-> {"dir", "page"}, page |-> {"page"}, else |-> {"else"}]
=============================================================================
