----------------------------- MODULE ChatStream -----------------------------
(***************************************************************************)
(* A conversation: the chat view of the front end (components/Chat.vue,    *)
(* utils/typewriter.ts) and the streamed answers of the server             *)
(* (local_doc_chat, LLM.generatorAnswer and the adapters).                 *)
(*                                                                         *)
(* A question is a number, in the order asked; asking the same text again  *)
(* (reAnswer) is another question.  A delta is one character of the        *)
(* answer.  Every callback of the view is one step of the browser's event  *)
(* loop.  Retrieval, prompts, the text itself, likes, sources as shown and *)
(* scrolling are left out.                                                 *)
(***************************************************************************)
EXTENDS Naturals, SequencesExt

CONSTANTS
    Asked,   \* how many questions the user asks at most
    Length,  \* how many deltas an answer has at most
    Habits,  \* what the user does besides asking and waiting
    Faults   \* what goes wrong

ASSUME ConversationAssumption ==
    /\ Asked \in Nat \ {0} /\ Length \in Nat
    /\ Habits \subseteq {"stop", "clear", "toggle", "hurry", "reload"}
    /\ Faults \subseteq {"refuse", "raise", "llm", "break"}

VARIABLES
    list,     \* QA_List: questions and answers as shown
    history,  \* the turns sent as context of the next question
    control,  \* whether turns are sent at all (multi-turn)
    loading,  \* showLoading
    ctrl,     \* the question whose request the abort controller is for
    typist,   \* the typewriter: its queue, and timers that are pending
    conn,     \* question -> state of its request
    wire,     \* question -> messages on their way to the browser
    answer,   \* question -> the server's generator for it
    calm      \* history variable: nothing was cleared or asked during an answer

view == <<list, history, control, loading, ctrl, typist, calm>>
vars == <<view, conn, wire, answer>>

Questions == 1 .. Asked
Deltas    == Questions \X (0 .. Length)   \* 0: "LLM Error: ..."
Turns     == [question : Questions, answer : Seq(Deltas)]

Messages ==
    [kind : {"stream", "json", "other", "close", "broken"}]
    \cup [kind : {"delta"}, text : Deltas]
    \cup [kind : {"final"}, history : Seq(Turns), sources : BOOLEAN]
    \cup [kind : {"error"}, history : Seq(Turns)]

Running == {"asked", "open", "refused"}
InProgress(q) == conn[q] \in Running

TypeOK ==
    /\ list \in Seq([ai : BOOLEAN, question : Questions, shown : Seq(Deltas), tools : BOOLEAN])
    /\ history \in Seq(Turns)
    /\ control \in BOOLEAN /\ loading \in BOOLEAN /\ calm \in BOOLEAN
    /\ ctrl \in 0 .. Asked
    /\ typist \in [queue : Seq(Deltas), consuming : BOOLEAN, tracked : BOOLEAN, loose : Nat]
    /\ conn \in [Questions -> Running \cup {"none", "closed", "failed", "aborted"}]
    /\ wire \in [Questions -> Seq(Messages)]
    /\ answer \in [Questions -> [phase : {"none", "open", "done"}, text : Seq(Deltas),
                                 sent : Seq(Turns), history : Seq(Turns)]]

Init ==
    /\ list = <<>> /\ history = <<>>
    /\ control = TRUE /\ loading = FALSE /\ calm = TRUE
    /\ ctrl = 0
    /\ typist = [queue |-> <<>>, consuming |-> FALSE, tracked |-> FALSE, loose |-> 0]
    /\ conn = [q \in Questions |-> "none"]
    /\ wire = [q \in Questions |-> <<>>]
    /\ answer = [q \in Questions |->
                    [phase |-> "none", text |-> <<>>, sent |-> <<>>, history |-> <<>>]]

-----------------------------------------------------------------------------
(* The server.  It answers a request whether or not the view still reads   *)
(* it; what it sends after an abort reaches nobody and is left out.        *)

Put(q, messages) == wire' = [wire EXCEPT ![q] = @ \o messages]

\* generatorAnswer: the turn is written over the last one of the history
\* given, or is the first.
Recorded(turns, q, text) ==
    LET turn == [question |-> q, answer |-> text] IN
    IF turns = <<>> THEN <<turn>> ELSE [turns EXCEPT ![Len(turns)] = turn]

\* A JSON answer (a knowledge base is missing, nothing was asked), or a
\* failure of the handler before it streams.
Refuse(q) ==
    /\ "refuse" \in Faults
    /\ conn[q] = "asked" /\ answer[q].phase = "none"
    /\ \E kind \in {"json", "other"} : Put(q, <<[kind |-> kind], [kind |-> "close"]>>)
    /\ answer' = [answer EXCEPT ![q].phase = "done"]
    /\ UNCHANGED <<view, conn>>

StartStream(q) ==
    /\ conn[q] = "asked" /\ answer[q].phase = "none"
    /\ Put(q, <<[kind |-> "stream"]>>)
    /\ answer' = [answer EXCEPT ![q].phase = "open"]
    /\ UNCHANGED <<view, conn>>

Answering(q) == InProgress(q) /\ answer[q].phase = "open"

\* The adapters turn an exception of the call into a last delta.
LLMFailed(q) == <<q, 0>> \in Range(answer[q].text)

SendDelta(q, i) ==
    /\ Answering(q) /\ ~LLMFailed(q)
    /\ LET text == Append(answer[q].text, <<q, i>>) IN
          answer' = [answer EXCEPT ![q].text = text,
                                   ![q].history = Recorded(@, q, text)]
    /\ Put(q, <<[kind |-> "delta", text |-> <<q, i>>]>>)
    /\ UNCHANGED <<view, conn>>

Generate(q) == Len(answer[q].text) < Length /\ SendDelta(q, Len(answer[q].text) + 1)

LLMError(q) == "llm" \in Faults /\ SendDelta(q, 0)

\* The message of [DONE].
Final(q, sources) ==
    [kind |-> "final", history |-> Recorded(answer[q].history, q, answer[q].text),
     sources |-> sources]

\* The language model decides when its answer ends.
Finish(q) ==
    /\ Answering(q)
    /\ \E sources \in BOOLEAN : Put(q, <<Final(q, sources), [kind |-> "close"]>>)
    /\ answer' = [answer EXCEPT ![q].phase = "done",
                                ![q].history = Recorded(@, q, answer[q].text)]
    /\ UNCHANGED <<view, conn>>

\* Retrieval or the prompt raises in the first call of next.
Raise(q) ==
    /\ "raise" \in Faults
    /\ Answering(q) /\ answer[q].text = <<>>
    /\ Put(q, <<[kind |-> "error", history |-> answer[q].sent], [kind |-> "close"]>>)
    /\ answer' = [answer EXCEPT ![q].phase = "done"]
    /\ UNCHANGED <<view, conn>>

Break(q) ==
    /\ "break" \in Faults
    /\ InProgress(q) /\ answer[q].phase # "done"
    /\ Put(q, <<[kind |-> "broken"]>>)
    /\ answer' = [answer EXCEPT ![q].phase = "done"]
    /\ UNCHANGED <<view, conn>>

Serve(q) == Refuse(q) \/ StartStream(q) \/ Generate(q) \/ LLMError(q) \/ Finish(q)
            \/ Raise(q) \/ Break(q)

-----------------------------------------------------------------------------
(* What is shown: typing goes to the last entry of the list, whatever it   *)
(* is, and throws when the list is empty.                                  *)

Type(items, text) ==
    IF text = <<>> THEN items ELSE [items EXCEPT ![Len(items)].shown = @ \o text]

ShowTools(items) ==
    IF items = <<>> THEN items ELSE [items EXCEPT ![Len(items)].tools = TRUE]

Item(ai, q) == [ai |-> ai, question |-> q, shown |-> <<>>, tools |-> FALSE]

Throws == list = <<>> /\ typist.queue # <<>>

FirstTyped(n) == SubSeq(typist.queue, 1, Min({n, Len(typist.queue)}))
FromThen(n)   == SubSeq(typist.queue, n + 1, Len(typist.queue))

\* Typewriter.done: consuming is over and the last timer cleared before the
\* queue is shown at once; if that throws the queue is kept.
\* Faulty variant: the queue stays.
DoneKeeping ==
    /\ typist' = [typist EXCEPT !.consuming = FALSE, !.tracked = FALSE]
    /\ list' = IF Throws THEN list ELSE ShowTools(Type(list, typist.queue))
\* Faulty variant: the queue is dropped.
DoneDropping ==
    /\ typist' = [typist EXCEPT !.consuming = FALSE, !.tracked = FALSE, !.queue = <<>>]
    /\ list' = IF Throws THEN list ELSE ShowTools(list)
Done ==
    /\ typist' = [typist EXCEPT !.consuming = FALSE, !.tracked = FALSE,
                                !.queue = IF Throws THEN @ ELSE <<>>]
    /\ list' = IF Throws THEN list ELSE ShowTools(Type(list, typist.queue))

\* A timer of the typewriter: two characters and the next timer while it is
\* consuming.  A timer that a later start has replaced cannot be cleared.
Tick(tracked) ==
    /\ IF tracked THEN typist.tracked ELSE typist.loose > 0
    /\ LET others == IF tracked THEN [typist EXCEPT !.tracked = FALSE]
                                ELSE [typist EXCEPT !.loose = @ - 1]
           next   == [others EXCEPT !.tracked = TRUE,
                                    !.loose = IF others.tracked THEN @ + 1 ELSE @]
           chars  == IF typist.consuming THEN 2 ELSE 1
       IN IF Throws
          THEN /\ typist' = [others EXCEPT !.queue = Tail(@)]
               /\ UNCHANGED list
          ELSE /\ typist' = [(IF typist.consuming THEN next ELSE others)
                                EXCEPT !.queue = FromThen(chars)]
               /\ list' = Type(list, FirstTyped(chars))
    /\ UNCHANGED <<history, control, loading, ctrl, calm, conn, wire, answer>>

-----------------------------------------------------------------------------
(* The user.                                                               *)

\* Requests end: q itself as given, and the one the controller is for, if it
\* is aborted and still runs.  Nothing is read from them any more.
Ended(q, how, aborting) ==
    LET after == [p \in Questions |->
                     IF p = q THEN how
                     ELSE IF aborting /\ p = ctrl /\ InProgress(p) THEN "aborted"
                     ELSE conn[p]]
    IN /\ conn' = after
       /\ wire' = [p \in Questions |-> IF after[p] \in Running THEN wire[p] ELSE <<>>]

AnyInProgress == \E q \in Questions : InProgress(q)

\* The button is disabled while loading; the enter key and "regenerate" of an
\* earlier answer are not.
Send(q) ==
    /\ conn[q] = "none" /\ \A p \in 1 .. q - 1 : conn[p] # "none"
    /\ loading => "hurry" \in Habits
    /\ LET turns == IF Len(history) >= 3 THEN <<>> ELSE history
           sent  == IF control THEN turns ELSE <<>>
       IN /\ history' = turns
          /\ answer' = [answer EXCEPT ![q].sent = sent, ![q].history = sent]
    /\ list' = Append(list, Item(FALSE, q))
    /\ loading' = TRUE
    /\ ctrl' = q
    /\ conn' = [conn EXCEPT ![q] = "asked"]
    /\ calm' = (calm /\ ~AnyInProgress)
    /\ UNCHANGED <<control, typist, wire>>

\* Faulty variant: the request is not aborted.
StopChatUnaborted ==
    /\ "stop" \in Habits /\ loading
    /\ Done
    /\ loading' = Throws
    /\ UNCHANGED <<history, control, ctrl, calm, conn, wire, answer>>

StopChat ==
    /\ "stop" \in Habits /\ loading
    /\ Ended(ctrl, IF InProgress(ctrl) THEN "aborted" ELSE conn[ctrl], FALSE)
    /\ Done
    /\ loading' = Throws
    /\ UNCHANGED <<history, control, ctrl, calm, answer>>

\* The dialog of deleteChat is confirmed.
ClearChat ==
    /\ "clear" \in Habits
    /\ list # <<>>
    /\ list' = <<>> /\ history' = <<>>
    /\ calm' = (calm /\ ~AnyInProgress)
    /\ UNCHANGED <<control, loading, ctrl, typist, conn, wire, answer>>

ControlChat ==
    /\ "toggle" \in Habits
    /\ control' = ~control
    /\ UNCHANGED <<list, history, loading, ctrl, typist, calm, conn, wire, answer>>

\* The page is loaded again: only the list is kept, in localStorage.
Reload ==
    /\ "reload" \in Habits
    /\ conn' = [q \in Questions |-> IF InProgress(q) THEN "aborted" ELSE conn[q]]
    /\ wire' = [q \in Questions |-> <<>>]
    /\ history' = <<>> /\ control' = TRUE /\ loading' = FALSE /\ ctrl' = 0
    /\ typist' = [queue |-> <<>>, consuming |-> FALSE, tracked |-> FALSE, loose |-> 0]
    /\ UNCHANGED <<list, calm, answer>>

-----------------------------------------------------------------------------
(* The callbacks of fetchEventSource for the request of q.                 *)

Arrives(q, kind) == InProgress(q) /\ wire[q] # <<>> /\ Head(wire[q]).kind = kind
Taken(q) == wire' = [wire EXCEPT ![q] = Tail(@)]

\* onopen of an event stream: start types at once what the queue holds.
OpenStream(q) ==
    /\ Arrives(q, "stream") /\ Taken(q)
    /\ list' = Type(Append(list, Item(TRUE, q)), FirstTyped(1))
    /\ typist' = [queue |-> FromThen(1), consuming |-> TRUE, tracked |-> TRUE,
                  loose |-> IF typist.tracked THEN typist.loose + 1 ELSE typist.loose]
    /\ conn' = [conn EXCEPT ![q] = "open"]
    /\ UNCHANGED <<history, control, loading, ctrl, calm, answer>>

\* onopen of a JSON answer, whose body is read before the request ends.
OpenJson(q) ==
    /\ Arrives(q, "json") /\ Taken(q)
    /\ loading' = FALSE
    /\ conn' = [conn EXCEPT ![q] = "refused"]
    /\ UNCHANGED <<list, history, control, ctrl, typist, calm, answer>>

\* onopen of anything else does nothing.
OpenOther(q) ==
    /\ Arrives(q, "other") /\ Taken(q)
    /\ conn' = [conn EXCEPT ![q] = "open"]
    /\ UNCHANGED <<view, answer>>

\* onclose and onerror: both abort the newest request, not their own; what
\* throws in done leaves everything after it undone.
\* Faulty variant: loading is left to the user's stop.
CloseLoading(q, how) ==
    /\ Ended(q, how, ~Throws)
    /\ Done
    /\ UNCHANGED <<loading, history, control, ctrl, calm, answer>>
Close(q, how) ==
    /\ Ended(q, how, ~Throws)
    /\ Done
    /\ loading' = (loading /\ Throws)
    /\ UNCHANGED <<history, control, ctrl, calm, answer>>

\* Faulty variant: a delta brings the history as far as it is.
OnDeltaLearning(q) ==
    /\ Arrives(q, "delta") /\ Taken(q)
    /\ typist' = [typist EXCEPT !.queue = Append(@, Head(wire[q]).text)]
    /\ history' = answer[q].history
    /\ UNCHANGED <<list, control, loading, ctrl, calm, conn, answer>>

OnDelta(q) ==
    /\ Arrives(q, "delta") /\ Taken(q)
    /\ typist' = [typist EXCEPT !.queue = Append(@, Head(wire[q]).text)]
    /\ UNCHANGED <<list, history, control, loading, ctrl, calm, conn, answer>>

\* Faulty variant: turns answered outside a conversation are not kept.
LearnIfMulti(turns) == history' = IF turns = <<>> \/ ~control THEN history ELSE turns
\* An empty history is not taken over.
Learn(turns) == history' = IF turns = <<>> THEN history ELSE turns

\* Sources are set on the last entry of the list, which throws if there is none.
OnFinal(q) ==
    /\ Arrives(q, "final")
    /\ ~(Head(wire[q]).sources /\ list = <<>>)
    /\ Taken(q)
    /\ Learn(Head(wire[q]).history)
    /\ UNCHANGED <<list, control, loading, ctrl, typist, calm, conn, answer>>

OnFinalThrows(q) ==
    /\ Arrives(q, "final")
    /\ Head(wire[q]).sources /\ list = <<>>
    /\ Close(q, "failed")

OnError(q) ==
    /\ Arrives(q, "error") /\ Taken(q)
    /\ Learn(Head(wire[q]).history)
    /\ UNCHANGED <<list, control, loading, ctrl, typist, calm, conn, answer>>

OnClose(q)  == Arrives(q, "close")  /\ Close(q, "closed")
OnBroken(q) == Arrives(q, "broken") /\ Close(q, "failed")

Read(q) == OpenStream(q) \/ OpenJson(q) \/ OpenOther(q) \/ OnDelta(q) \/ OnFinal(q)
           \/ OnFinalThrows(q) \/ OnError(q) \/ OnClose(q) \/ OnBroken(q)

Next ==
    \/ \E q \in Questions : Serve(q) \/ Send(q) \/ Read(q)
    \/ \E tracked \in BOOLEAN : Tick(tracked)
    \/ StopChat \/ ClearChat \/ ControlChat \/ Reload

Spec == Init /\ [][Next]_vars

\* The server goes on (the calls to the language model have timeouts) and the
\* browser delivers what arrives.
FairSpec == Spec /\ \A q \in Questions : WF_vars(Serve(q)) /\ WF_vars(Read(q))

-----------------------------------------------------------------------------
(* Properties.                                                             *)

Answers == {i \in DOMAIN list : list[i].ai}

\* The server answered q, be it with "LLM Error", and the browser read it all.
Answered(q) == conn[q] = "closed" /\ answer[q].history # answer[q].sent

\* As long as the user neither clears the list nor asks again during an
\* answer, no character of one answer is ever shown under another question,
\* twice or out of order, whatever was stopped, refused or broken before.
AnswersAreOwn ==
    calm => \A i \in Answers : IsPrefix(list[i].shown, answer[list[i].question].text)

\* An answer whose request was closed by the server is shown to the end: the
\* typewriter, slower than the stream, loses nothing.
ClosedIsComplete ==
    calm => \A i \in Answers :
        conn[list[i].question] = "closed" => list[i].shown = answer[list[i].question].text

\* Once an answer has its tools (copy, regenerate) its text does not change.
FinishedIsFinal ==
    [][calm' => \A i \in DOMAIN list \cap DOMAIN list' :
           list[i].tools /\ list[i].question = list'[i].question
           => list'[i].shown = list[i].shown]_vars

\* "Whether an answer is currently in progress" (Chat.vue): loading is shown
\* during an answer and only then.  A refused request is over for the user
\* before its body was read.
LoadingMeansInProgress ==
    calm => loading = \E q \in Questions : conn[q] \in {"asked", "open"}

\* The context of the next question holds whole answers only, never the part
\* of one that was stopped or broken.
ContextIsWhole ==
    \A turn \in Range(history) :
        /\ answer[turn.question].phase = "done"
        /\ turn.answer = answer[turn.question].text

\* After an answer, unless everything was cleared since, the next question is
\* asked in its context.
ContextIsLatest ==
    calm /\ history # <<>> =>
        \A q \in Questions : Answered(q) => q <= Last(history).question

\* The loading sign goes away by itself, unless the user cleared the list or
\* asked again during an answer.
LoadingEnds == loading ~> (~loading \/ ~calm)

\* "Conversation history (context for the next turn)" (Chat.vue): an answer in
\* a conversation leaves the turns it was given in the history and adds its own.
HistoryKeepsTurns ==
    \A q \in Questions :
        Answered(q) => answer[q].history =
            Append(answer[q].sent, [question |-> q, answer |-> answer[q].text])
=============================================================================
