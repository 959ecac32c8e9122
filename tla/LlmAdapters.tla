----------------------------- MODULE LlmAdapters -----------------------------
(***************************************************************************)
(* The adapters that turn what a language model sends into the deltas of   *)
(* an answer (connector/llm/adapters): the OpenAI-compatible one, Ollama's *)
(* and MiniMax's, which filters what the model thinks aloud.  One adapter  *)
(* serves all chats of the process; each chat pulls its stream from a      *)
(* worker of its own choosing, one delta at a time.                        *)
(*                                                                         *)
(* Text is a sequence of pieces: words of the answer, words of thinking,   *)
(* spaces, thinking tags whole, and tags split by the end of a chunk.      *)
(***************************************************************************)
EXTENDS Integers, Sequences, FiniteSets, SequencesExt

CONSTANTS
    Chats,
    Providers,   \* which of "openai", "ollama" and "minimax" may be configured
    Chunks,      \* texts the model may send as one chunk
    MaxChunks    \* bound on the chunks of an answer

Pieces == {"word", "space", "thought", "open", "close",
           "open1", "open2", "close1", "close2", "error"}

ASSUME AdaptersAssumption ==
    /\ Providers \subseteq {"openai", "ollama", "minimax"}
    /\ Chunks \subseteq Seq(Pieces)

VARIABLES
    provider,    \* LLM_PROVIDER, read once at start
    inThink,     \* the adapter's _in_think
    stream       \* chat -> its request to the model

llmVars == <<provider, inThink, stream>>

\* phase; the mode the model writes in; how many chunks came; clean: every chunk
\* was orderly, and no other stream, running or abandoned before, had a part in
\* the flag.  While it is clean: what the model has sent in "content" and in
\* "reasoning" and what the deltas given to the chat add up to.
Silent == [phase |-> "idle", content |-> <<>>, reasoning |-> <<>>, mode |-> "answer",
           shown |-> <<>>, chunks |-> 0, clean |-> TRUE]

Running(c) == stream[c].phase = "streaming"

LlmInit ==
    /\ provider \in Providers
    /\ inThink = FALSE
    /\ stream = [c \in Chats |-> Silent]

-----------------------------------------------------------------------------
(* Text is read piece by piece.                                            *)

\* The states of a reader after each piece: step takes <<state, piece>>.
States(step, start, text) ==
    LET state[n \in 0 .. Len(text)] ==
            IF n = 0 THEN start ELSE step[<<state[n - 1], text[n]>>]
    IN  state
FinalState(step, start, text) == States(step, start, text)[Len(text)]

-----------------------------------------------------------------------------
(* The model: it thinks inside tags, once or several times, and answers    *)
(* outside; a chunk may end within a tag.                                  *)

NextMode(mode, piece) ==
    CASE mode = "answer" /\ piece \in {"word", "space"}   -> "answer"
      [] mode = "answer" /\ piece = "open"                -> "think"
      [] mode = "answer" /\ piece = "open1"               -> "open"
      [] mode = "open"   /\ piece = "open2"               -> "think"
      [] mode = "think"  /\ piece \in {"thought", "space"} -> "think"
      [] mode = "think"  /\ piece = "close"               -> "answer"
      [] mode = "think"  /\ piece = "close1"              -> "close"
      [] mode = "close"  /\ piece = "close2"              -> "answer"
      [] OTHER -> "bad"  \* the model would not write it

Modes == {"answer", "think", "open", "close", "bad"}

\* The mode after a chunk.
ModeReader == [x \in Modes \X Pieces |-> NextMode(x[1], x[2])]
ModeAfter(mode, chunk) == FinalState(ModeReader, mode, chunk)

\* Chunks that a filter which looks at one chunk at a time can read: tags whole,
\* at most one block, and no text before the block.
Orderly(chunk) ==
    \A i \in DOMAIN chunk :
        /\ chunk[i] \notin {"open1", "open2", "close1", "close2"}
        /\ chunk[i] = "open" => i = 1

Tags == {"open", "close", "open1", "open2", "close1", "close2"}
Holds(text, piece) == \E i \in DOMAIN text : text[i] = piece

-----------------------------------------------------------------------------
(* What the adapters make of a chunk.                                      *)

FirstIndex(text, piece) ==
    CHOOSE i \in DOMAIN text : text[i] = piece /\ \A j \in 1 .. i - 1 : text[j] # piece

After(text, piece) == SubSeq(text, FirstIndex(text, piece) + 1, Len(text))

\* Text without the spaces at its ends.
Strip(text) ==
    LET inner == {i \in DOMAIN text : text[i] # "space"}
        first == CHOOSE i \in inner : \A j \in inner : i <= j
        last  == CHOOSE i \in inner : \A j \in inner : j <= i
    IN  IF inner = {} THEN <<>> ELSE SubSeq(text, first, last)

\* OpenAI's _process_stream_chunk: reasoning is shown when there is no content.
OpenAIChunk(content, reasoning) == IF content # <<>> THEN content ELSE reasoning

\* Ollama's _chat_stream was told not to think and reads the content alone.
OllamaChunk(content) == content

\* Faulty variant: the text after a closing tag is not looked for.
StreamChunkTagAlone(flag, chunk) ==
    LET thinking == flag \/ Holds(chunk, "open")
    IN  IF chunk = <<>> THEN [flag |-> flag, text |-> <<>>]
        ELSE IF ~thinking THEN [flag |-> FALSE, text |-> Strip(chunk)]
        ELSE IF Holds(chunk, "close") THEN [flag |-> FALSE, text |-> <<>>]
        ELSE [flag |-> TRUE, text |-> <<>>]

\* MiniMax's _process_stream_chunk: the flag it leaves and the text it returns.
StreamChunk(flag, chunk) ==
    LET thinking == flag \/ Holds(chunk, "open")
    IN  IF chunk = <<>> THEN [flag |-> flag, text |-> <<>>]
        ELSE IF ~thinking THEN [flag |-> FALSE, text |-> Strip(chunk)]
        ELSE IF Holds(chunk, "close")
             THEN [flag |-> FALSE, text |-> Strip(After(chunk, "close"))]
        ELSE [flag |-> TRUE, text |-> <<>>]

\* What a chunk becomes under the configured adapter.
Processed(flag, content, reasoning) ==
    CASE provider = "minimax" -> StreamChunk(flag, content)
      [] provider = "ollama"  -> [flag |-> flag, text |-> OllamaChunk(content)]
      [] OTHER                -> [flag |-> flag, text |-> OpenAIChunk(content, reasoning)]

\* The text with split tags joined.
TagReader ==
    [x \in Seq(Pieces) \X Pieces |->
        IF x[1] # <<>> /\ Last(x[1]) \in {"open1", "close1"}
        THEN Append(Front(x[1]), IF x[2] = "open2" THEN "open" ELSE "close")
        ELSE Append(x[1], x[2])]
Whole(text) == FinalState(TagReader, <<>>, text)

\* Pieces outside whole thinking blocks, a block's trailing spaces with it: a
\* block that is never closed stays.
BlockReader ==
    [x \in [out : Seq(Pieces), block : Seq(Pieces), trim : BOOLEAN] \X Pieces |->
        LET s == x[1]  piece == x[2] IN
        IF s.block # <<>>
        THEN IF piece = "close" THEN [s EXCEPT !.block = <<>>, !.trim = TRUE]
             ELSE [s EXCEPT !.block = Append(@, piece)]
        ELSE IF piece = "open" THEN [s EXCEPT !.block = <<piece>>]
        ELSE IF piece = "space" /\ s.trim THEN s
        ELSE [s EXCEPT !.out = Append(@, piece), !.trim = FALSE]]
Unread == [out |-> <<>>, block |-> <<>>, trim |-> FALSE]

WithoutThinking(text) ==
    LET end == FinalState(BlockReader, Unread, Whole(text)) IN Strip(end.out \o end.block)

\* _extract_content_nonstream of OpenAI's adapter, which MiniMax's builds upon.
PlainOpenAI(content, reasoning) == IF content = <<>> THEN reasoning ELSE content

\* What _chat_nonstream answers when the model sends this.
PlainAnswer(content, reasoning) ==
    CASE provider = "minimax" -> WithoutThinking(PlainOpenAI(content, reasoning))
      [] provider = "ollama"  -> content
      [] OTHER                -> PlainOpenAI(content, reasoning)

-----------------------------------------------------------------------------
(* A chat's requests.                                                      *)

\* What it was sent is of no more interest.
Disturbed(s) ==
    [s EXCEPT !.clean = FALSE, !.content = <<>>, !.reasoning = <<>>, !.shown = <<>>]

\* chat(stream = True): the request is sent.
Request(c) ==
    /\ stream[c].phase = "idle"
    /\ stream' = [d \in Chats |->
          IF d = c THEN [Silent EXCEPT !.phase = "streaming",
                                       !.clean = ~inThink /\ \A e \in Chats : ~Running(e)]
          ELSE IF Running(d) THEN Disturbed(stream[d]) ELSE stream[d]]
    /\ UNCHANGED <<provider, inThink>>

\* The chat with its next delta.
Given(c, text) ==
    [stream[c] EXCEPT !.shown = IF stream[c].clean THEN @ \o text ELSE @, !.chunks = @ + 1]

\* The model sends a chunk of content; empty text is not passed on.
ContentChunk(c) ==
    /\ Running(c)
    /\ stream[c].chunks < MaxChunks
    /\ \E chunk \in Chunks :
          LET s    == stream[c]
              mode == ModeAfter(s.mode, chunk)
              out  == Processed(inThink, chunk, <<>>)
          IN  /\ mode # "bad"
              /\ provider = "ollama" => ~\E t \in Tags : Holds(chunk, t)
              /\ inThink' = out.flag
              /\ stream' = [stream EXCEPT
                    ![c] = IF s.clean /\ (provider = "minimax" => Orderly(chunk))
                           THEN [Given(c, out.text) EXCEPT !.content = @ \o chunk, !.mode = mode]
                           ELSE [Disturbed(Given(c, out.text)) EXCEPT !.mode = mode]]
    /\ UNCHANGED provider

\* A chunk of reasoning beside empty content.
ReasoningChunk(c) ==
    /\ Running(c)
    /\ stream[c].chunks < MaxChunks
    /\ LET out == Processed(inThink, <<>>, <<"thought">>)
       IN  /\ inThink' = out.flag
           /\ stream' = [stream EXCEPT
                 ![c] = [Given(c, out.text) EXCEPT !.reasoning =
                            IF stream[c].clean THEN Append(@, "thought") ELSE @]]
    /\ UNCHANGED provider

\* The stream ends and [DONE] follows.
Finish(c) ==
    /\ Running(c)
    /\ stream[c].mode = "answer"
    /\ stream' = [stream EXCEPT ![c].phase = "done"]
    /\ UNCHANGED <<provider, inThink>>

\* The request or the stream raises: the error is one more delta, [DONE] follows.
Fail(c) ==
    /\ Running(c)
    /\ stream' = [stream EXCEPT ![c] = [Given(c, <<"error">>) EXCEPT !.phase = "failed"]]
    /\ UNCHANGED <<provider, inThink>>

\* The browser went away: nobody pulls the stream any more.
Abandon(c) ==
    /\ Running(c)
    /\ stream' = [stream EXCEPT ![c] = Silent]
    /\ UNCHANGED <<provider, inThink>>

\* chat(stream = False): a single answer, or the error.
PlainRequest(c) ==
    /\ stream[c].phase = "idle"
    /\ \/ \E content \in Chunks \cup {<<>>}, reasoning \in {<<>>, <<"thought">>} :
             /\ ModeAfter("answer", content) = "answer"
             /\ stream' = [stream EXCEPT
                   ![c] = [Silent EXCEPT !.phase = "done",
                              !.content = content, !.reasoning = reasoning,
                              !.shown = PlainAnswer(content, reasoning)]]
       \/ stream' = [stream EXCEPT ![c] = [Silent EXCEPT !.phase = "failed", !.shown = <<"error">>]]
    /\ UNCHANGED <<provider, inThink>>

\* The chat has its answer.
Close(c) ==
    /\ stream[c].phase \in {"done", "failed"}
    /\ stream' = [stream EXCEPT ![c] = Silent]
    /\ UNCHANGED <<provider, inThink>>

LlmNext(c) ==
    \/ Request(c) \/ PlainRequest(c) \/ ContentChunk(c) \/ ReasoningChunk(c)
    \/ Finish(c) \/ Fail(c) \/ Abandon(c) \/ Close(c)

-----------------------------------------------------------------------------
(* Properties.                                                             *)

WordReader ==
    [x \in Seq(Pieces) \X Pieces |-> IF x[2] = "space" THEN x[1] ELSE Append(x[1], x[2])]
Words(text) == FinalState(WordReader, <<>>, text)

\* With orderly chunks, a single chat on the adapter, and a model that puts its
\* answer either into content or into reasoning, a streamed answer reads as the
\* plain one would: nothing of the thinking shows, no word of the answer is
\* missing.  (MiniMax's filter also strips each delta, so spaces may be.)
StreamMatchesPlain ==
    \A c \in Chats :
        LET s == stream[c] IN
        /\ s.phase = "done" /\ s.clean
        /\ provider = "openai" => s.content = <<>> \/ s.reasoning = <<>>
        => LET plain == PlainAnswer(s.content, s.reasoning) IN
           IF provider = "minimax" /\ s.content # <<>>
           THEN Words(s.shown) = Words(plain)
           ELSE s.shown = plain \/ (provider = "minimax" /\ s.shown = <<>>)
=============================================================================
