------------------------------ MODULE Answering ------------------------------
(***************************************************************************)
(* get_knowledge_based_answer as a whole: the documents of a question are  *)
(* retrieved, then its prompt goes to the adapter that the other chats use *)
(* as well.  What is retrieved and what is generated share no state, so    *)
(* other chats stream only while this one does (a bound), and the next     *)
(* question is searched when their streams have ended.                     *)
(***************************************************************************)
EXTENDS Retrieval, LlmAdapters

CONSTANT Main  \* the chat whose retrieval is followed

ASSUME MainAssumption == Main \in Chats

allVars == <<vars, llmVars>>

AnsweringInit == Init /\ LlmInit

AskModel == Generate /\ (Request(Main) \/ PlainRequest(Main))

Others == Chats \ {Main}

EndAnswer ==
    /\ \A c \in Others : stream[c].phase = "idle"
    /\ Answered
    /\ Close(Main) \/ Abandon(Main)

Stream ==
    /\ stage = "answering"
    /\ \/ ContentChunk(Main) \/ ReasoningChunk(Main) \/ Finish(Main) \/ Fail(Main)
       \/ \E c \in Others : LlmNext(c)
    /\ UNCHANGED vars

AnsweringNext == (Retrieve /\ UNCHANGED llmVars) \/ AskModel \/ EndAnswer \/ Stream

AnsweringSpec == AnsweringInit /\ [][AnsweringNext]_allVars
=============================================================================
