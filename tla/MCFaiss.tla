------------------------------ MODULE MCFaiss ------------------------------
(* Bounded instances of the vector store of one user.                      *)
EXTENDS FaissProperties, TLC

CONSTANTS f1, f2, f3, kb1, kb2

\* A file of two chunks and another file in one knowledge base, a third in another.
SingleKbOf == (f1 :> kb1) @@ (f2 :> kb1) @@ (f3 :> kb2)
SingleSize == (f1 :> 2) @@ (f2 :> 1) @@ (f3 :> 1)

\* Two knowledge bases of the same user, one file each.
SharedKbOf == (f1 :> kb1) @@ (f2 :> kb2)
SharedSize == (f1 :> 1) @@ (f2 :> 1)
=============================================================================
