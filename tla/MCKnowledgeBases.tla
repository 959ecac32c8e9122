-------------------------- MODULE MCKnowledgeBases --------------------------
(* Two users; an upload of two files of which one name the download refuses, *)
(* and web links.                                                            *)
EXTENDS KnowledgeBases, TLC

MCNameLists == {<<"a.txt", "b..txt">>}

CONSTANTS u1, u2

AnyUser == Permutations(Users)
=============================================================================
