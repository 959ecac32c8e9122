---------------------------- MODULE MCAnswering ----------------------------
(* A file of four chunks, the last longer than an expansion may get, one of *)
(* a single chunk with the text of the other's first, and a table of one   *)
(* row; a second chat.                                                     *)
EXTENDS Answering

MCTextOf == <<<<"a", "b", "c", "d">>, <<"a">>, <<"r">>>>
MCSizeOf == [t \in {"a", "b", "c", "d", "r"} |-> IF t = "d" THEN 5 ELSE 2]
MCSimilarities == {-2, 8}
MCLimits == {-1, 5, 20}
MCChunks == {<<"word">>, <<"open", "thought">>, <<"close", "space", "word">>,
             <<"open", "thought", "close", "space", "word">>,
             <<"word", "open1">>, <<"open2", "thought">>}
=============================================================================
