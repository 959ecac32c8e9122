-------------------------- MODULE ChatStreamProofs --------------------------
(***************************************************************************)
(* Theorems about conversations of any number of questions and deltas.     *)
(***************************************************************************)
EXTENDS ChatStream, SequenceTheorems, TLAPS

-----------------------------------------------------------------------------
(* Sequences, and what is typed.                                           *)

Entry == [ai : BOOLEAN, question : Questions, shown : Seq(Deltas), tools : BOOLEAN]
Typewriter == [queue : Seq(Deltas), consuming : BOOLEAN, tracked : BOOLEAN, loose : Nat]
Generator == [phase : {"none", "open", "done"}, text : Seq(Deltas),
              sent : Seq(Turns), history : Seq(Turns)]

\* A character or two leave the queue, in order, and the rest stays.
LEMMA QueueSplit ==
    ASSUME typist.queue \in Seq(Deltas), NEW n \in {1, 2}
    PROVE  \E m \in 0 .. Len(typist.queue) :
              /\ FirstTyped(n) \in Seq(Deltas) /\ Len(FirstTyped(n)) = m
              /\ \A i \in 1 .. m : FirstTyped(n)[i] = typist.queue[i]
              /\ FromThen(n) \in Seq(Deltas) /\ Len(FromThen(n)) = Len(typist.queue) - m
              /\ \A i \in 1 .. Len(typist.queue) - m : FromThen(n)[i] = typist.queue[m + i]
  <1> DEFINE s == typist.queue
  <1> HIDE DEF s
  <1>1. s \in Seq(Deltas) /\ Len(s) \in Nat /\ \A i \in 1 .. Len(s) : s[i] \in Deltas
    BY LenProperties, ElementOfSeq DEF s
  <1>2. PICK m \in Nat : m = Min({n, Len(s)}) /\ m = IF n <= Len(s) THEN n ELSE Len(s)
    <2> DEFINE m == IF n <= Len(s) THEN n ELSE Len(s)
    <2>1. m \in {n, Len(s)} /\ \A y \in {n, Len(s)} : m <= y
      BY <1>1
    <2>2. \A x \in {n, Len(s)} : (\A y \in {n, Len(s)} : x <= y) => x = m
      BY <1>1
    <2>3. Min({n, Len(s)}) = m
      BY <2>1, <2>2 DEF Min
    <2> QED  BY <1>1, <2>3
  <1>3. /\ m \in 0 .. Len(s) /\ m <= Len(s)
        /\ n <= Len(s) => m = n
        /\ ~(n <= Len(s)) => m = Len(s)
    <2>1. m = IF n <= Len(s) THEN n ELSE Len(s)
      BY <1>2
    <2> QED  BY <1>1, <2>1
  <1>4. FirstTyped(n) = SubSeq(s, 1, m) /\ FromThen(n) = SubSeq(s, n + 1, Len(s))
    BY <1>2 DEF FirstTyped, FromThen, s
  <1>5. /\ SubSeq(s, 1, m) \in Seq(Deltas) /\ Len(SubSeq(s, 1, m)) = m
        /\ \A i \in 1 .. m : SubSeq(s, 1, m)[i] = s[i]
    <2>1. 1 \in Int /\ m \in Int /\ \A i \in 1 .. m : s[i] \in Deltas
      BY <1>1, <1>3
    <2>2. /\ SubSeq(s, 1, m) \in Seq(Deltas)
          /\ Len(SubSeq(s, 1, m)) = IF 1 <= m THEN m - 1 + 1 ELSE 0
          /\ \A i \in 1 .. m - 1 + 1 : SubSeq(s, 1, m)[i] = s[1 + i - 1]
      BY <2>1, SubSeqProperties
    <2>3. m - 1 + 1 = m /\ \A i \in 1 .. m : 1 + i - 1 = i
      OBVIOUS
    <2>4. Len(SubSeq(s, 1, m)) = m
      BY <2>2
    <2> QED  BY <2>2, <2>3, <2>4
  <1>6. /\ SubSeq(s, n + 1, Len(s)) \in Seq(Deltas)
        /\ Len(SubSeq(s, n + 1, Len(s))) = Len(s) - m
        /\ \A i \in 1 .. Len(s) - m : SubSeq(s, n + 1, Len(s))[i] = s[m + i]
    <2>1. n + 1 \in Int /\ Len(s) \in Int /\ \A i \in n + 1 .. Len(s) : s[i] \in Deltas
      BY <1>1
    <2>2. /\ SubSeq(s, n + 1, Len(s)) \in Seq(Deltas)
          /\ Len(SubSeq(s, n + 1, Len(s))) =
                IF n + 1 <= Len(s) THEN Len(s) - (n + 1) + 1 ELSE 0
          /\ \A i \in 1 .. Len(s) - (n + 1) + 1 :
                SubSeq(s, n + 1, Len(s))[i] = s[n + 1 + i - 1]
      BY <2>1, SubSeqProperties
    <2>3. CASE n <= Len(s)
      <3>1. m = n /\ Len(s) - (n + 1) + 1 = Len(s) - m
        BY <1>1, <1>3, <2>3
      <3>2. \A i \in 1 .. Len(s) - m : n + 1 + i - 1 = m + i
        BY <1>1, <3>1
      <3>3. Len(SubSeq(s, n + 1, Len(s))) = Len(s) - m
        <4>1. ASSUME NEW l \in Nat, n <= l PROVE n + 1 <= l \/ (l = n /\ l - n = 0)
          BY <4>1
        <4>2. n + 1 <= Len(s) \/ (Len(s) = n /\ Len(s) - m = 0)
          BY <1>1, <2>3, <3>1, <4>1
        <4> QED  BY <2>2, <3>1, <4>2
      <3> QED  BY <2>2, <3>1, <3>2, <3>3
    <2>4. CASE ~(n <= Len(s))
      <3>1. m = Len(s) /\ ~(n + 1 <= Len(s))
        BY <1>1, <1>3, <2>4
      <3> QED  BY <1>1, <2>2, <3>1
    <2> QED  BY <2>3, <2>4
  <1> QED  BY <1>3, <1>4, <1>5, <1>6 DEF s

\* Typing changes what the last entry shows, and nothing else.
LEMMA TypeFacts ==
    ASSUME NEW items \in Seq(Entry), NEW text \in Seq(Deltas), items # <<>> \/ text = <<>>
    PROVE  /\ Type(items, text) \in Seq(Entry) /\ Len(Type(items, text)) = Len(items)
           /\ \A i \in 1 .. Len(items) :
                 LET new == Type(items, text)[i] IN
                 /\ i # Len(items) => new = items[i]
                 /\ new.ai = items[i].ai /\ new.question = items[i].question
                 /\ new.tools = items[i].tools
                 /\ i = Len(items) => new.shown = items[i].shown \o text
  <1>1. CASE text = <<>>
    <2>1. \A i \in 1 .. Len(items) : items[i].shown \o <<>> = items[i].shown
      BY ElementOfSeq, ConcatEmptySeq DEF Entry
    <2> QED  BY <1>1, <2>1 DEF Type
  <1>2. CASE text # <<>>
    <2> DEFINE n == Len(items)
               last == [items[n] EXCEPT !.shown = @ \o text]
    <2>1. n \in 1 .. Len(items) /\ items[n] \in Entry
      BY <1>2, EmptySeq, LenProperties, ElementOfSeq
    <2>2. items[n].shown \o text \in Seq(Deltas)
      BY <2>1, ConcatProperties DEF Entry
    <2>3. /\ last \in Entry /\ last.shown = items[n].shown \o text
          /\ last.ai = items[n].ai /\ last.question = items[n].question
          /\ last.tools = items[n].tools
      BY <2>1, <2>2 DEF Entry
    <2>4. Type(items, text) = [items EXCEPT ![n] = last]
      BY <1>2 DEF Type
    <2> HIDE DEF n, last
    <2>5. /\ [items EXCEPT ![n] = last] \in Seq(Entry)
          /\ Len([items EXCEPT ![n] = last]) = Len(items)
          /\ \A j \in 1 .. Len(items) :
                [items EXCEPT ![n] = last][j] = IF j = n THEN last ELSE items[j]
      BY <2>1, <2>3, ExceptSeq
    <2> QED  BY <2>3, <2>4, <2>5 DEF n
  <1> QED  BY <1>1, <1>2

\* The tools are shown under the last entry, and nothing else changes.
LEMMA ShowToolsFacts ==
    ASSUME NEW items \in Seq(Entry)
    PROVE  /\ ShowTools(items) \in Seq(Entry) /\ Len(ShowTools(items)) = Len(items)
           /\ \A i \in 1 .. Len(items) :
                 LET new == ShowTools(items)[i] IN
                 /\ i # Len(items) => new = items[i]
                 /\ new.ai = items[i].ai /\ new.question = items[i].question
                 /\ new.shown = items[i].shown
  <1>1. CASE items = <<>>
    BY <1>1 DEF ShowTools
  <1>2. CASE items # <<>>
    <2> DEFINE n == Len(items)
               last == [items[n] EXCEPT !.tools = TRUE]
    <2>1. n \in 1 .. Len(items) /\ items[n] \in Entry
      BY <1>2, EmptySeq, LenProperties, ElementOfSeq
    <2>2. /\ last \in Entry /\ last.shown = items[n].shown
          /\ last.ai = items[n].ai /\ last.question = items[n].question
      BY <2>1 DEF Entry
    <2>3. ShowTools(items) = [items EXCEPT ![n] = last]
      BY <1>2 DEF ShowTools
    <2> HIDE DEF n, last
    <2>4. /\ [items EXCEPT ![n] = last] \in Seq(Entry)
          /\ Len([items EXCEPT ![n] = last]) = Len(items)
          /\ \A j \in 1 .. Len(items) :
                [items EXCEPT ![n] = last][j] = IF j = n THEN last ELSE items[j]
      BY <2>1, <2>2, ExceptSeq
    <2> QED  BY <2>2, <2>3, <2>4 DEF n
  <1> QED  BY <1>1, <1>2

\* Messages are added after those on their way, and taken from the front.
LEMMA PutFacts ==
    ASSUME wire \in [Questions -> Seq(Messages)], NEW q \in Questions,
           NEW messages \in Seq(Messages), Put(q, messages)
    PROVE  /\ wire' \in [Questions -> Seq(Messages)]
           /\ \A p \in Questions \ {q} : wire'[p] = wire[p]
           /\ Len(wire'[q]) = Len(wire[q]) + Len(messages)
           /\ \A i \in 1 .. Len(wire[q]) : wire'[q][i] = wire[q][i]
           /\ \A i \in 1 .. Len(messages) : wire'[q][Len(wire[q]) + i] = messages[i]
  <1>1. wire[q] \in Seq(Messages)
    OBVIOUS
  <1> DEFINE w == wire[q]  all == w \o messages
  <1>2. wire' = [wire EXCEPT ![q] = all]
    BY DEF Put
  <1> HIDE DEF w
  <1>3. w \in Seq(Messages) /\ Len(w) \in Nat /\ Len(messages) \in Nat
    BY <1>1, LenProperties DEF w
  <1>4. /\ all \in Seq(Messages) /\ Len(all) = Len(w) + Len(messages)
        /\ \A i \in 1 .. Len(w) + Len(messages) :
              all[i] = IF i <= Len(w) THEN w[i] ELSE messages[i - Len(w)]
    BY <1>3, ConcatProperties
  <1> HIDE DEF all
  <1>5. \A i \in 1 .. Len(w) : all[i] = w[i]
    BY <1>3, <1>4
  <1>6. ASSUME NEW i \in 1 .. Len(messages) PROVE all[Len(w) + i] = messages[i]
    <2>1. /\ Len(w) + i \in 1 .. Len(w) + Len(messages) /\ ~(Len(w) + i <= Len(w))
          /\ (Len(w) + i) - Len(w) = i
      BY <1>3
    <2> QED  BY <1>4, <2>1
  <1> QED  BY <1>2, <1>4, <1>5, <1>6 DEF w

LEMMA TakenFacts ==
    ASSUME wire \in [Questions -> Seq(Messages)], NEW q \in Questions, wire[q] # <<>>, Taken(q)
    PROVE  /\ wire' \in [Questions -> Seq(Messages)]
           /\ \A p \in Questions \ {q} : wire'[p] = wire[p]
           /\ Len(wire[q]) \in Nat \ {0} /\ Len(wire'[q]) = Len(wire[q]) - 1
           /\ \A i \in 1 .. Len(wire[q]) - 1 : wire'[q][i] = wire[q][i + 1]
  <1>1. wire[q] \in Seq(Messages) /\ wire' = [wire EXCEPT ![q] = Tail(@)]
    BY DEF Taken
  <1>2. /\ Tail(wire[q]) \in Seq(Messages) /\ Len(Tail(wire[q])) = Len(wire[q]) - 1
        /\ \A i \in 1 .. Len(Tail(wire[q])) : Tail(wire[q])[i] = wire[q][i + 1]
    BY <1>1, HeadTailProperties
  <1>3. Len(wire[q]) \in Nat \ {0}
    BY <1>1, EmptySeq
  <1> QED  BY <1>1, <1>2, <1>3

\* The first message, if it is of a kind, has the fields of that kind.
LEMMA ArrivesFacts ==
    ASSUME wire \in [Questions -> Seq(Messages)], NEW q \in Questions, NEW kind,
           Arrives(q, kind)
    PROVE  /\ InProgress(q) /\ wire[q] # <<>> /\ Len(wire[q]) \in Nat \ {0}
           /\ Head(wire[q]) = wire[q][1] /\ wire[q][1].kind = kind
           /\ kind = "delta" => wire[q][1].text \in Deltas
           /\ kind \in {"final", "error"} => wire[q][1].history \in Seq(Turns)
  <1>1. wire[q] \in Seq(Messages) /\ wire[q] # <<>> /\ InProgress(q)
    BY DEF Arrives
  <1>2. Len(wire[q]) \in Nat \ {0} /\ Head(wire[q]) = wire[q][1] /\ wire[q][1].kind = kind
    BY <1>1, EmptySeq DEF Arrives
  <1>3. wire[q][1] \in Messages
    BY <1>1, <1>2, ElementOfSeq
  <1> QED  BY <1>1, <1>2, <1>3 DEF Messages

\* The turn of q becomes the last of the turns, the others stay.
LEMMA RecordedFacts ==
    ASSUME NEW turns \in Seq(Turns), NEW q \in Questions, NEW text \in Seq(Deltas)
    PROVE  LET r == Recorded(turns, q, text) IN
           /\ r \in Seq(Turns) /\ Len(r) \in Nat \ {0} /\ r # <<>>
           /\ Len(r) = IF turns = <<>> THEN 1 ELSE Len(turns)
           /\ r[Len(r)].question = q /\ r[Len(r)].answer = text
           /\ \A i \in 1 .. Len(r) - 1 : r[i] = turns[i]
  <1> DEFINE turn == [question |-> q, answer |-> text]
             r == Recorded(turns, q, text)
  <1>1. turn \in Turns
    BY DEF Turns
  <1>2. CASE turns = <<>>
    BY <1>1, <1>2 DEF Recorded
  <1>3. CASE turns # <<>>
    <2>1. Len(turns) \in 1 .. Len(turns) /\ Len(turns) \in Nat \ {0}
      BY <1>3, EmptySeq
    <2>2. r = [turns EXCEPT ![Len(turns)] = turn]
      BY <1>3 DEF Recorded
    <2> HIDE DEF turn, r
    <2>3. /\ r \in Seq(Turns) /\ Len(r) = Len(turns)
          /\ \A j \in 1 .. Len(turns) : r[j] = IF j = Len(turns) THEN turn ELSE turns[j]
      BY <1>1, <2>1, <2>2, ExceptSeq
    <2>4. turn.question = q /\ turn.answer = text
      BY DEF turn
    <2>5. r[Len(r)] = turn /\ \A i \in 1 .. Len(r) - 1 : r[i] = turns[i]
      BY <2>1, <2>3
    <2>6. r # <<>>
      BY <2>1, <2>3
    <2> QED  BY <1>3, <2>1, <2>3, <2>4, <2>5, <2>6 DEF r
  <1> QED  BY <1>2, <1>3

-----------------------------------------------------------------------------
(* Type correctness.                                                       *)

LEMMA TypeInit == Init => TypeOK
  <1> SUFFICES ASSUME Init PROVE TypeOK
    OBVIOUS
  <1> USE ConversationAssumption
  <1>1. \A S : <<>> \in Seq(S)
    BY EmptySeq
  <1>2. wire \in [Questions -> Seq(Messages)] /\ conn \in [Questions -> {"none"}]
    BY <1>1 DEF Init
  <1>3. answer \in [Questions -> [phase : {"none"}, text : Seq(Deltas),
                                  sent : Seq(Turns), history : Seq(Turns)]]
    BY <1>1 DEF Init
  <1>4. typist \in Typewriter /\ list = <<>> /\ history = <<>> /\ ctrl = 0
        /\ control \in BOOLEAN /\ loading \in BOOLEAN /\ calm \in BOOLEAN
    BY <1>1 DEF Init, Typewriter
  <1> QED  BY <1>1, <1>2, <1>3, <1>4 DEF TypeOK, Typewriter

\* What a step of the server does to its generator, and what it sends.
LEMMA ServeEffect ==
    ASSUME TypeOK, ConversationAssumption, NEW q \in Questions, Serve(q)
    PROVE  /\ view' = view /\ conn' = conn /\ InProgress(q) /\ answer[q].phase # "done"
           /\ answer' \in [Questions -> Generator]
           /\ \A p \in Questions \ {q} : answer'[p] = answer[p]
           /\ answer'[q].sent = answer[q].sent /\ \E messages : Put(q, messages)
           /\ \/ /\ conn[q] = "asked" /\ answer[q].phase = "none"
                 /\ \E kind \in {"json", "other"} : Put(q, <<[kind |-> kind], [kind |-> "close"]>>)
                 /\ answer'[q].phase = "done" /\ answer'[q].text = answer[q].text
                 /\ answer'[q].history = answer[q].history
              \/ /\ conn[q] = "asked" /\ answer[q].phase = "none"
                 /\ Put(q, <<[kind |-> "stream"]>>)
                 /\ answer'[q].phase = "open" /\ answer'[q].text = answer[q].text
                 /\ answer'[q].history = answer[q].history
              \/ /\ answer[q].phase = "open" /\ answer'[q].phase = "open"
                 /\ \E delta \in Deltas :
                       /\ Put(q, <<[kind |-> "delta", text |-> delta]>>)
                       /\ answer'[q].text = Append(answer[q].text, delta)
                       /\ answer'[q].history =
                             Recorded(answer[q].history, q, answer'[q].text)
              \/ /\ answer[q].phase = "open" /\ answer'[q].phase = "done"
                 /\ \E sources \in BOOLEAN :
                       Put(q, <<Final(q, sources), [kind |-> "close"]>>)
                 /\ answer'[q].text = answer[q].text
                 /\ answer'[q].history = Recorded(answer[q].history, q, answer[q].text)
              \/ /\ answer[q].phase = "open" /\ answer'[q].phase = "done"
                 /\ answer[q].text = <<>>
                 /\ Put(q, <<[kind |-> "error", history |-> answer[q].sent], [kind |-> "close"]>>)
                 /\ answer'[q].text = answer[q].text /\ answer'[q].history = answer[q].history
              \/ /\ Put(q, <<[kind |-> "broken"]>>)
                 /\ answer'[q].phase = "done"
                 /\ answer'[q].text = answer[q].text /\ answer'[q].history = answer[q].history
  <1>1. answer \in [Questions -> Generator] /\ answer[q] \in Generator
    BY DEF TypeOK, Generator
  <1>2. ASSUME NEW i \in 0 .. Length, SendDelta(q, i)
        PROVE  /\ view' = view /\ conn' = conn /\ InProgress(q) /\ answer[q].phase = "open"
               /\ answer' \in [Questions -> Generator]
               /\ \A p \in Questions \ {q} : answer'[p] = answer[p]
               /\ answer'[q].sent = answer[q].sent /\ answer'[q].phase = "open"
               /\ \E delta \in Deltas :
                     /\ Put(q, <<[kind |-> "delta", text |-> delta]>>)
                     /\ answer'[q].text = Append(answer[q].text, delta)
                     /\ answer'[q].history = Recorded(answer[q].history, q, answer'[q].text)
    <2> DEFINE delta == <<q, i>>
               text == Append(answer[q].text, delta)
               turns == Recorded(answer[q].history, q, text)
    <2>1. delta \in Deltas
      BY DEF Deltas
    <2>2. text \in Seq(Deltas)
      BY <1>1, <2>1, AppendProperties DEF Generator
    <2>3. turns \in Seq(Turns)
      BY <1>1, <2>2, RecordedFacts, ZenonT(60) DEF Generator
    <2>4. /\ answer' = [answer EXCEPT ![q].text = text, ![q].history = turns]
          /\ Put(q, <<[kind |-> "delta", text |-> delta]>>)
          /\ view' = view /\ conn' = conn /\ InProgress(q) /\ answer[q].phase = "open"
      BY <1>2 DEF SendDelta, Answering
    <2> HIDE DEF delta, text, turns
    <2>5. /\ answer' \in [Questions -> Generator]
          /\ \A p \in Questions \ {q} : answer'[p] = answer[p]
          /\ answer'[q].sent = answer[q].sent /\ answer'[q].phase = "open"
          /\ answer'[q].text = text /\ answer'[q].history = turns
      BY <1>1, <2>2, <2>3, <2>4 DEF Generator
    <2> QED  BY <2>1, <2>4, <2>5 DEF text, turns
  <1>3. CASE Refuse(q)
    BY <1>1, <1>3 DEF Refuse, Generator, InProgress, Running
  <1>4. CASE StartStream(q)
    BY <1>1, <1>4 DEF StartStream, Generator, InProgress, Running
  <1>5. CASE Generate(q)
    <2>1. Len(answer[q].text) + 1 \in 0 .. Length
      BY <1>1, <1>5, LenProperties DEF Generate, Generator
    <2> QED  BY <1>2, <1>5, <2>1 DEF Generate
  <1>6. CASE LLMError(q)
    <2>1. 0 \in 0 .. Length
      OBVIOUS
    <2> QED  BY <1>2, <1>6, <2>1 DEF LLMError
  <1>7. CASE Finish(q)
    <2> DEFINE turns == Recorded(answer[q].history, q, answer[q].text)
    <2>1. turns \in Seq(Turns)
      BY <1>1, RecordedFacts DEF Generator
    <2>2. answer' = [answer EXCEPT ![q].phase = "done", ![q].history = turns]
      BY <1>7 DEF Finish
    <2> HIDE DEF turns
    <2>3. /\ answer' \in [Questions -> Generator]
          /\ \A p \in Questions \ {q} : answer'[p] = answer[p]
          /\ answer'[q].sent = answer[q].sent /\ answer'[q].phase = "done"
          /\ answer'[q].text = answer[q].text /\ answer'[q].history = turns
      BY <1>1, <2>1, <2>2 DEF Generator
    <2> QED  BY <1>7, <2>3 DEF Finish, Answering, turns
  <1>8. CASE Raise(q)
    BY <1>1, <1>8 DEF Raise, Answering, Generator
  <1>9. CASE Break(q)
    BY <1>1, <1>9 DEF Break, Generator
  <1>10. \E messages : Put(q, messages)
    BY DEF Serve, Refuse, StartStream, Generate, LLMError, SendDelta, Finish, Raise, Break
  <1> QED  BY <1>3, <1>4, <1>5, <1>6, <1>7, <1>8, <1>9, <1>10 DEF Serve

\* Types of the parts, under short names.
LEMMA TypeParts ==
    /\ TypeOK <=> /\ list \in Seq(Entry) /\ history \in Seq(Turns)
                  /\ control \in BOOLEAN /\ loading \in BOOLEAN /\ calm \in BOOLEAN
                  /\ ctrl \in 0 .. Asked /\ typist \in Typewriter
                  /\ conn \in [Questions -> Running \cup {"none", "closed", "failed", "aborted"}]
                  /\ wire \in [Questions -> Seq(Messages)]
                  /\ answer \in [Questions -> Generator]
    /\ TypeOK' <=> /\ list' \in Seq(Entry) /\ history' \in Seq(Turns)
                   /\ control' \in BOOLEAN /\ loading' \in BOOLEAN /\ calm' \in BOOLEAN
                   /\ ctrl' \in 0 .. Asked /\ typist' \in Typewriter
                   /\ conn' \in [Questions -> Running \cup {"none", "closed", "failed", "aborted"}]
                   /\ wire' \in [Questions -> Seq(Messages)]
                   /\ answer' \in [Questions -> Generator]
  BY DEF TypeOK, Entry, Typewriter, Generator

\* What a step of the server sends are messages.
LEMMA ServePut ==
    ASSUME TypeOK, ConversationAssumption, NEW q \in Questions, Serve(q)
    PROVE  \E messages \in Seq(Messages) : Put(q, messages)
  <1>1. \A m1, m2 \in Messages : <<m1>> \in Seq(Messages) /\ <<m1, m2>> \in Seq(Messages)
    OBVIOUS
  <1>2. \A sources \in BOOLEAN : Final(q, sources) \in Messages
    BY TypeParts, RecordedFacts DEF Final, Messages, Generator
  <1>3. /\ \A kind \in {"stream", "json", "other", "close", "broken"} : [kind |-> kind] \in Messages
        /\ \A delta \in Deltas : [kind |-> "delta", text |-> delta] \in Messages
        /\ [kind |-> "error", history |-> answer[q].sent] \in Messages
    BY TypeParts DEF Messages, Generator
  <1>4. ASSUME NEW kind \in {"json", "other"}
        PROVE  <<[kind |-> kind], [kind |-> "close"]>> \in Seq(Messages)
    BY <1>1, <1>3
  <1>5. <<[kind |-> "stream"]>> \in Seq(Messages) /\ <<[kind |-> "broken"]>> \in Seq(Messages)
    BY <1>1, <1>3
  <1>6. \A delta \in Deltas : <<[kind |-> "delta", text |-> delta]>> \in Seq(Messages)
    BY <1>1, <1>3
  <1>7. \A sources \in BOOLEAN : <<Final(q, sources), [kind |-> "close"]>> \in Seq(Messages)
    BY <1>1, <1>2, <1>3
  <1>8. <<[kind |-> "error", history |-> answer[q].sent], [kind |-> "close"]>> \in Seq(Messages)
    BY <1>1, <1>3
  <1> QED  BY <1>4, <1>5, <1>6, <1>7, <1>8, ServeEffect

LEMMA ServeType ==
    ASSUME TypeOK, ConversationAssumption, NEW q \in Questions, Serve(q)
    PROVE  TypeOK'
  <1>1. wire' \in [Questions -> Seq(Messages)]
    BY ServePut, PutFacts, TypeParts
  <1>2. view' = view /\ conn' = conn /\ answer' \in [Questions -> Generator]
    BY ServeEffect
  <1> QED  BY <1>1, <1>2, TypeParts DEF view

\* Done empties the queue into the last entry, or throws and keeps it.
LEMMA DoneFacts ==
    ASSUME list \in Seq(Entry), typist \in Typewriter, Done
    PROVE  /\ list' \in Seq(Entry) /\ typist' \in Typewriter /\ Len(list') = Len(list)
           /\ Throws => list' = list /\ typist'.queue = typist.queue
           /\ ~Throws =>
                 /\ typist'.queue = <<>>
                 /\ \A i \in 1 .. Len(list) :
                       /\ i # Len(list) => list'[i] = list[i]
                       /\ list'[i].ai = list[i].ai /\ list'[i].question = list[i].question
                       /\ i = Len(list) => list'[i].shown = list[i].shown \o typist.queue
  <1> USE DEF Typewriter
  <1>1. typist' \in Typewriter
    <2>1. <<>> \in Seq(Deltas)
      BY EmptySeq
    <2> QED  BY <2>1 DEF Done
  <1>2. CASE Throws
    BY <1>1, <1>2 DEF Done
  <1>3. CASE ~Throws
    <2> DEFINE typed == Type(list, typist.queue)
    <2>1. /\ typed \in Seq(Entry) /\ Len(typed) = Len(list)
          /\ \A i \in 1 .. Len(list) :
                /\ i # Len(list) => typed[i] = list[i]
                /\ typed[i].ai = list[i].ai /\ typed[i].question = list[i].question
                /\ i = Len(list) => typed[i].shown = list[i].shown \o typist.queue
      BY <1>3, TypeFacts DEF Throws
    <2>2. list' = ShowTools(typed) /\ typist'.queue = <<>>
      BY <1>3 DEF Done
    <2> HIDE DEF typed
    <2>3. /\ list' \in Seq(Entry) /\ Len(list') = Len(typed)
          /\ \A i \in 1 .. Len(typed) :
                /\ i # Len(typed) => list'[i] = typed[i]
                /\ list'[i].ai = typed[i].ai /\ list'[i].question = typed[i].question
                /\ list'[i].shown = typed[i].shown
      BY <2>1, <2>2, ShowToolsFacts
    <2> QED  BY <1>1, <1>3, <2>1, <2>2, <2>3
  <1> QED  BY <1>2, <1>3

\* A timer types, or throws and loses a character.
LEMMA TickFacts ==
    ASSUME list \in Seq(Entry), typist \in Typewriter, NEW tracked \in BOOLEAN, Tick(tracked)
    PROVE  /\ list' \in Seq(Entry) /\ typist' \in Typewriter
           /\ UNCHANGED <<history, control, loading, ctrl, calm, conn, wire, answer>>
           /\ ~Throws => \E n \in {1, 2} : /\ list' = Type(list, FirstTyped(n))
                                           /\ typist'.queue = FromThen(n)
  <1> DEFINE others == IF tracked THEN [typist EXCEPT !.tracked = FALSE]
                                  ELSE [typist EXCEPT !.loose = @ - 1]
             next   == [others EXCEPT !.tracked = TRUE,
                                      !.loose = IF others.tracked THEN @ + 1 ELSE @]
             chars  == IF typist.consuming THEN 2 ELSE 1
  <1>1. others \in Typewriter /\ others.queue = typist.queue
    <2>1. CASE tracked
      <3>1. others = [typist EXCEPT !.tracked = FALSE]
        BY <2>1
      <3> HIDE DEF others
      <3> QED  BY <3>1 DEF Typewriter
    <2>2. CASE ~tracked
      <3>1. typist.loose \in Nat /\ typist.loose > 0
        BY <2>2 DEF Tick, Typewriter
      <3>2. typist.loose - 1 \in Nat /\ others = [typist EXCEPT !.loose = @ - 1]
        BY <2>2, <3>1
      <3> HIDE DEF others
      <3> QED  BY <3>2 DEF Typewriter
    <2> QED  BY <2>1, <2>2
  <1>2. next \in Typewriter
    <2> DEFINE later == IF others.tracked THEN others.loose + 1 ELSE others.loose
    <2>1. next = [others EXCEPT !.tracked = TRUE, !.loose = later]
      OBVIOUS
    <2> HIDE DEF others, next
    <2>2. later \in Nat
      BY <1>1 DEF Typewriter
    <2> HIDE DEF later
    <2> QED  BY <1>1, <2>1, <2>2 DEF Typewriter
  <1>3. chars \in {1, 2} /\ UNCHANGED <<history, control, loading, ctrl, calm, conn, wire, answer>>
    BY DEF Tick
  <1>4. CASE Throws
    <2>1. Tail(others.queue) \in Seq(Deltas)
      BY <1>1, <1>4, HeadTailProperties DEF Throws, Typewriter
    <2>2. typist' = [others EXCEPT !.queue = Tail(@)] /\ list' = list
      BY <1>4 DEF Tick
    <2> HIDE DEF others
    <2> QED  BY <1>1, <1>3, <1>4, <2>1, <2>2 DEF Typewriter
  <1>5. CASE ~Throws
    <2>1. /\ typist' = [(IF typist.consuming THEN next ELSE others) EXCEPT !.queue = FromThen(chars)]
          /\ list' = Type(list, FirstTyped(chars))
      BY <1>5 DEF Tick
    <2> HIDE DEF chars, next, others
    <2>2. FirstTyped(chars) \in Seq(Deltas) /\ FromThen(chars) \in Seq(Deltas)
          /\ (typist.queue = <<>> => FirstTyped(chars) = <<>>)
      <3>1. PICK m \in 0 .. Len(typist.queue) :
               /\ FirstTyped(chars) \in Seq(Deltas) /\ Len(FirstTyped(chars)) = m
               /\ FromThen(chars) \in Seq(Deltas)
        BY <1>3, QueueSplit DEF Typewriter
      <3>2. typist.queue = <<>> => m = 0
        OBVIOUS
      <3> QED  BY <3>1, <3>2, EmptySeq
    <2>3. typist' \in Typewriter /\ typist'.queue = FromThen(chars)
      BY <1>1, <1>2, <2>1, <2>2 DEF Typewriter
    <2>4. list' \in Seq(Entry)
      BY <1>5, <2>1, <2>2, TypeFacts DEF Throws
    <2> QED  BY <1>3, <2>1, <2>3, <2>4
  <1> QED  BY <1>4, <1>5

LEMMA AppendEntry ==
    ASSUME NEW items \in Seq(Entry), NEW entry \in Entry
    PROVE  /\ Append(items, entry) \in Seq(Entry) /\ Append(items, entry) # <<>>
           /\ Len(Append(items, entry)) = Len(items) + 1
           /\ \A i \in 1 .. Len(items) : Append(items, entry)[i] = items[i]
           /\ Append(items, entry)[Len(items) + 1] = entry
  BY AppendProperties

\* A request ends, and the newest one with it if it is aborted.
LEMMA EndedFacts ==
    ASSUME TypeOK, NEW q \in Questions, NEW how \in {"none", "closed", "failed", "aborted"},
           NEW aborting \in BOOLEAN, Ended(q, how, aborting)
    PROVE  /\ conn' \in [Questions -> Running \cup {"none", "closed", "failed", "aborted"}]
           /\ wire' \in [Questions -> Seq(Messages)]
           /\ conn'[q] = how
           /\ \A p \in Questions \ {q} :
                 conn'[p] = conn[p] \/ (InProgress(p) /\ conn'[p] = "aborted")
           /\ \A p \in Questions : wire'[p] = IF conn'[p] \in Running THEN wire[p] ELSE <<>>
  <1> DEFINE after(p) == IF p = q THEN how
                         ELSE IF aborting /\ p = ctrl /\ InProgress(p) THEN "aborted"
                         ELSE conn[p]
  <1>1. /\ conn' = [p \in Questions |-> after(p)]
        /\ wire' = [p \in Questions |-> IF conn'[p] \in Running THEN wire[p] ELSE <<>>]
    BY DEF Ended
  <1>2. \A p \in Questions : after(p) \in Running \cup {"none", "closed", "failed", "aborted"}
    BY DEF TypeOK
  <1>3. /\ after(q) = how
        /\ \A p \in Questions \ {q} : after(p) = conn[p] \/ (InProgress(p) /\ after(p) = "aborted")
    OBVIOUS
  <1>4. \A p \in Questions : wire[p] \in Seq(Messages) /\ <<>> \in Seq(Messages)
    BY EmptySeq DEF TypeOK
  <1> HIDE DEF after
  <1> QED  BY <1>1, <1>2, <1>3, <1>4

LEMMA CloseType ==
    ASSUME TypeOK, NEW q \in Questions, NEW how \in {"closed", "failed"}, Close(q, how)
    PROVE  TypeOK'
  <1>1. Ended(q, how, ~Throws) /\ Done /\ loading' = (loading /\ Throws)
        /\ UNCHANGED <<history, control, ctrl, calm, answer>>
    BY DEF Close
  <1>2. loading' \in BOOLEAN
    BY <1>1 DEF TypeOK
  <1>3. /\ conn' \in [Questions -> Running \cup {"none", "closed", "failed", "aborted"}]
        /\ wire' \in [Questions -> Seq(Messages)]
    <2>1. (~Throws) \in BOOLEAN
      OBVIOUS
    <2> QED  BY <1>1, <2>1, EndedFacts
  <1>4. list' \in Seq(Entry) /\ typist' \in Typewriter
    BY <1>1, DoneFacts, TypeParts
  <1> QED  BY <1>1, <1>2, <1>3, <1>4, TypeParts

\* What opening the stream of q appends and types at once.
LEMMA OpenStreamFacts ==
    ASSUME TypeOK, NEW q \in Questions, OpenStream(q)
    PROVE  LET items == Append(list, Item(TRUE, q)) IN
           /\ items \in Seq(Entry) /\ items # <<>> /\ Len(items) = Len(list) + 1
           /\ \A i \in 1 .. Len(list) : items[i] = list[i]
           /\ items[Len(list) + 1] = Item(TRUE, q)
           /\ list' = Type(items, FirstTyped(1)) /\ list' \in Seq(Entry)
           /\ typist'.queue = FromThen(1) /\ typist' \in Typewriter
  <1> DEFINE items == Append(list, Item(TRUE, q))
  <1>1. list \in Seq(Entry) /\ typist \in Typewriter
    BY TypeParts
  <1>2. Item(TRUE, q) \in Entry
    BY EmptySeq DEF Item, Entry
  <1>3. /\ items \in Seq(Entry) /\ items # <<>> /\ Len(items) = Len(list) + 1
        /\ \A i \in 1 .. Len(list) : items[i] = list[i]
        /\ items[Len(list) + 1] = Item(TRUE, q)
    BY <1>1, <1>2, AppendEntry
  <1>4. FirstTyped(1) \in Seq(Deltas) /\ FromThen(1) \in Seq(Deltas)
    BY <1>1, QueueSplit DEF Typewriter
  <1>5. list' = Type(items, FirstTyped(1))
    BY DEF OpenStream
  <1>6. typist' \in Typewriter /\ typist'.queue = FromThen(1)
    <2> DEFINE l == IF typist.tracked THEN typist.loose + 1 ELSE typist.loose
    <2>1. l \in Nat
      BY <1>1 DEF Typewriter
    <2>2. typist' = [queue |-> FromThen(1), consuming |-> TRUE, tracked |-> TRUE, loose |-> l]
      BY DEF OpenStream
    <2> HIDE DEF l
    <2> QED  BY <1>4, <2>1, <2>2 DEF Typewriter
  <1>7. list' \in Seq(Entry)
    <2> HIDE DEF items
    <2> QED  BY <1>3, <1>4, <1>5, TypeFacts
  <1> QED  BY <1>3, <1>5, <1>6, <1>7

LEMMA ReadType ==
    ASSUME TypeOK, NEW q \in Questions, Read(q)
    PROVE  TypeOK'
  <1> USE TypeParts
  <1>1. ASSUME NEW kind, Arrives(q, kind), Taken(q)
        PROVE  wire' \in [Questions -> Seq(Messages)]
    BY <1>1, ArrivesFacts, TakenFacts
  <1>2. ASSUME NEW state \in Running, conn' = [conn EXCEPT ![q] = state]
        PROVE  conn' \in [Questions -> Running \cup {"none", "closed", "failed", "aborted"}]
    BY <1>2
  <1>3. CASE OpenStream(q)
    BY <1>1, <1>2, <1>3, OpenStreamFacts DEF OpenStream, Running
  <1>4. CASE OpenJson(q)
    BY <1>1, <1>2, <1>4 DEF OpenJson, Running
  <1>5. CASE OpenOther(q)
    BY <1>1, <1>2, <1>5 DEF OpenOther, Running, view
  <1>6. CASE OnDelta(q)
    <2>1. Head(wire[q]).text \in Deltas
      BY <1>6, ArrivesFacts DEF OnDelta
    <2>2. Append(typist.queue, Head(wire[q]).text) \in Seq(Deltas)
      BY <2>1, AppendProperties DEF Typewriter
    <2>3. typist' \in Typewriter
      BY <1>6, <2>2 DEF OnDelta, Typewriter
    <2> QED  BY <1>1, <1>6, <2>3 DEF OnDelta
  <1>7. ASSUME Arrives(q, "final") \/ Arrives(q, "error"), Learn(Head(wire[q]).history)
        PROVE  history' \in Seq(Turns)
    <2>1. Head(wire[q]).history \in Seq(Turns)
      BY <1>7, ArrivesFacts
    <2> QED  BY <1>7, <2>1 DEF Learn
  <1>8. CASE OnFinal(q)
    BY <1>1, <1>7, <1>8 DEF OnFinal
  <1>9. CASE OnError(q)
    BY <1>1, <1>7, <1>9 DEF OnError
  <1>10. CASE OnFinalThrows(q) \/ OnClose(q) \/ OnBroken(q)
    BY <1>10, CloseType DEF OnFinalThrows, OnClose, OnBroken
  <1> QED  BY <1>3, <1>4, <1>5, <1>6, <1>8, <1>9, <1>10 DEF Read

\* What asking does.
LEMMA SendFacts ==
    ASSUME TypeOK, NEW q \in Questions, Send(q)
    PROVE  /\ conn[q] = "none" /\ \A p \in 1 .. q - 1 : conn[p] # "none"
           /\ list' = Append(list, Item(FALSE, q)) /\ list' \in Seq(Entry)
           /\ Len(list') = Len(list) + 1 /\ list'[Len(list) + 1] = Item(FALSE, q)
           /\ \A i \in 1 .. Len(list) : list'[i] = list[i]
           /\ history' = history \/ history' = <<>>
           /\ conn' = [conn EXCEPT ![q] = "asked"] /\ ctrl' = q /\ loading' = TRUE
           /\ calm' = (calm /\ ~AnyInProgress)
           /\ UNCHANGED <<control, typist, wire>>
           /\ answer' \in [Questions -> Generator]
           /\ \A p \in Questions \ {q} : answer'[p] = answer[p]
           /\ answer'[q].phase = answer[q].phase /\ answer'[q].text = answer[q].text
           /\ answer'[q].sent \in {<<>>, history'} /\ answer'[q].history = answer'[q].sent
  <1> DEFINE turns == IF Len(history) >= 3 THEN <<>> ELSE history
             sent  == IF control THEN turns ELSE <<>>
  <1> USE TypeParts
  <1>1. turns \in {<<>>, history} /\ sent \in {<<>>, turns}
    OBVIOUS
  <1>2. /\ history' = turns
        /\ answer' = [answer EXCEPT ![q].sent = sent, ![q].history = sent]
    BY DEF Send
  <1> HIDE DEF turns, sent
  <1>3. sent \in Seq(Turns)
    BY <1>1, EmptySeq
  <1>4. /\ answer' \in [Questions -> Generator]
        /\ \A p \in Questions \ {q} : answer'[p] = answer[p]
        /\ answer'[q].phase = answer[q].phase /\ answer'[q].text = answer[q].text
        /\ answer'[q].sent = sent /\ answer'[q].history = sent
    BY <1>2, <1>3, ZenonT(60) DEF Generator
  <1>5. Item(FALSE, q) \in Entry
    BY EmptySeq DEF Item, Entry
  <1>6. /\ list' = Append(list, Item(FALSE, q)) /\ list' \in Seq(Entry)
        /\ Len(list') = Len(list) + 1 /\ list'[Len(list) + 1] = Item(FALSE, q)
        /\ \A i \in 1 .. Len(list) : list'[i] = list[i]
    <2>1. list' = Append(list, Item(FALSE, q))
      BY DEF Send
    <2> QED  BY <1>5, <2>1, AppendEntry
  <1> QED  BY <1>1, <1>2, <1>4, <1>6 DEF Send

LEMMA TypeNext == ASSUME ConversationAssumption PROVE TypeOK /\ [Next]_vars => TypeOK'
  <1> SUFFICES ASSUME TypeOK, [Next]_vars PROVE TypeOK'
    OBVIOUS
  <1> USE TypeParts
  <1>1. ASSUME NEW q \in Questions, Serve(q) \/ Send(q) \/ Read(q) PROVE TypeOK'
    <2>1. CASE Send(q)
      <3>1. calm' = (calm /\ ~AnyInProgress) /\ ctrl' = q /\ (history' = history \/ history' = <<>>)
        BY <2>1, SendFacts
      <3>2. calm' \in BOOLEAN /\ ctrl' \in 0 .. Asked
        BY <3>1, ConversationAssumption DEF Questions
      <3>3. conn' \in [Questions -> Running \cup {"none", "closed", "failed", "aborted"}]
        BY <2>1, SendFacts DEF Running
      <3>4. history' \in Seq(Turns)
        BY <3>1, EmptySeq
      <3> QED  BY <2>1, <3>2, <3>3, <3>4, SendFacts
    <2> QED  BY <1>1, <2>1, ServeType, ReadType, ConversationAssumption
  <1>2. ASSUME NEW tracked \in BOOLEAN, Tick(tracked) PROVE TypeOK'
    BY <1>2, TickFacts
  <1>3. CASE StopChat
    <2>1. list' \in Seq(Entry) /\ typist' \in Typewriter
      BY <1>3, DoneFacts DEF StopChat
    <2>2. loading' \in BOOLEAN /\ UNCHANGED <<history, control, ctrl, calm, answer>>
      BY <1>3 DEF StopChat, Throws
    <2>3. /\ conn' \in [Questions -> Running \cup {"none", "closed", "failed", "aborted"}]
          /\ wire' \in [Questions -> Seq(Messages)]
      <3> DEFINE how == IF InProgress(ctrl) THEN "aborted" ELSE conn[ctrl]
                 after(p) == IF p = ctrl THEN how ELSE conn[p]
      <3>1. /\ conn' = [p \in Questions |-> after(p)]
            /\ wire' = [p \in Questions |-> IF after(p) \in Running THEN wire[p] ELSE <<>>]
        BY <1>3 DEF StopChat, Ended
      <3>2. \A p \in Questions : after(p) \in Running \cup {"none", "closed", "failed", "aborted"}
        OBVIOUS
      <3>3. \A p \in Questions : wire[p] \in Seq(Messages) /\ <<>> \in Seq(Messages)
        BY EmptySeq
      <3> HIDE DEF after
      <3> QED  BY <3>1, <3>2, <3>3
    <2> QED  BY <2>1, <2>2, <2>3
  <1>4. CASE ClearChat
    BY <1>4, EmptySeq DEF ClearChat
  <1>5. CASE ControlChat
    BY <1>5 DEF ControlChat
  <1>6. CASE Reload
    <2>1. \A S : <<>> \in Seq(S)
      BY EmptySeq
    <2>2. wire' \in [Questions -> Seq(Messages)] /\ history' \in Seq(Turns)
      BY <1>6, <2>1 DEF Reload
    <2>3. conn' \in [Questions -> Running \cup {"none", "closed", "failed", "aborted"}]
      BY <1>6 DEF Reload
    <2>4. typist' \in Typewriter
      BY <1>6, <2>1 DEF Reload, Typewriter
    <2>5. ctrl' \in 0 .. Asked
      BY <1>6, ConversationAssumption DEF Reload
    <2> QED  BY <1>6, <2>2, <2>3, <2>4, <2>5 DEF Reload
  <1>7. CASE UNCHANGED vars
    BY <1>7 DEF vars, view
  <1> QED  BY <1>1, <1>2, <1>3, <1>4, <1>5, <1>6, <1>7 DEF Next

-----------------------------------------------------------------------------
(* The context: what holds whatever the user does.                         *)

\* The first n turns are whole answers of the generators.
Whole(generators, turns, n) ==
    \A i \in 1 .. n : /\ generators[turns[i].question].phase = "done"
                      /\ turns[i].answer = generators[turns[i].question].text

\* Questions are asked in order, and nothing arrives of a request that ended.
RequestsInOrder ==
    /\ \A p, q \in Questions : p < q /\ conn[q] # "none" => conn[p] # "none"
    /\ \A q \in Questions : ~InProgress(q) => wire[q] = <<>>

\* A generator has recorded no turn before its first delta, and until it is
\* done only the last turn of its history is its own.
GeneratorsRecord ==
    \A q \in Questions :
        /\ conn[q] = "none" => answer[q].phase = "none"
        /\ answer[q].phase = "none" => answer[q].text = <<>>
        /\ answer[q].phase # "done" =>
              /\ answer[q].text = <<>> => answer[q].history = answer[q].sent
              /\ Whole(answer, answer[q].history, Len(answer[q].history) - 1)

\* Everything the history is ever taken from is whole.
SourcesWhole ==
    /\ Whole(answer, history, Len(history))
    /\ \A q \in Questions :
          /\ Whole(answer, answer[q].sent, Len(answer[q].sent))
          /\ \A i \in DOMAIN wire[q] :
                wire[q][i].kind \in {"final", "error"} =>
                    Whole(answer, wire[q][i].history, Len(wire[q][i].history))

ContextInv == TypeOK /\ RequestsInOrder /\ GeneratorsRecord /\ SourcesWhole

\* What is whole stays whole as long as no finished generator changes.
LEMMA WholeStays ==
    ASSUME NEW old \in [Questions -> Generator], NEW new \in [Questions -> Generator],
           \A p \in Questions : old[p].phase = "done" =>
                               new[p].phase = "done" /\ new[p].text = old[p].text,
           NEW turns \in Seq(Turns), NEW n \in Int, n <= Len(turns), Whole(old, turns, n)
    PROVE  Whole(new, turns, n)
  <1> SUFFICES ASSUME NEW i \in 1 .. n
               PROVE  /\ new[turns[i].question].phase = "done"
                      /\ turns[i].answer = new[turns[i].question].text
    BY DEF Whole
  <1>1. Len(turns) \in Nat
    BY LenProperties
  <1>2. turns[i] \in Turns
    BY <1>1, ElementOfSeq
  <1>3. turns[i].question \in Questions
    BY <1>2 DEF Turns
  <1> QED  BY <1>3 DEF Whole

\* A turn added to whole turns, of a generator that is done, is whole too.
LEMMA RecordedWhole ==
    ASSUME NEW gens \in [Questions -> Generator], NEW q \in Questions, gens[q].phase = "done",
           NEW turns \in Seq(Turns), Whole(gens, turns, Len(turns) - 1)
    PROVE  LET r == Recorded(turns, q, gens[q].text) IN Whole(gens, r, Len(r))
  <1> DEFINE r == Recorded(turns, q, gens[q].text)
  <1>1. gens[q].text \in Seq(Deltas)
    BY DEF Generator
  <1>2. /\ Len(r) \in Nat \ {0} /\ Len(r) = IF turns = <<>> THEN 1 ELSE Len(turns)
        /\ r[Len(r)].question = q /\ r[Len(r)].answer = gens[q].text
        /\ \A i \in 1 .. Len(r) - 1 : r[i] = turns[i]
    BY <1>1, RecordedFacts
  <1> HIDE DEF r
  <1>3. ASSUME NEW i \in 1 .. Len(r) - 1
        PROVE  /\ gens[r[i].question].phase = "done"
               /\ r[i].answer = gens[r[i].question].text
    <2>1. i \in 1 .. Len(turns) - 1 /\ r[i] = turns[i]
      BY <1>2
    <2> QED  BY <2>1 DEF Whole
  <1>4. \A i \in 1 .. Len(r) : i \in 1 .. Len(r) - 1 \/ i = Len(r)
    BY <1>2
  <1>5. Whole(gens, r, Len(r))
    BY <1>2, <1>3, <1>4 DEF Whole
  <1> QED  BY <1>5 DEF r

\* What the steps that are neither the server's nor a question do.
OtherStep == \/ \E tracked \in BOOLEAN : Tick(tracked)
             \/ StopChat \/ ClearChat \/ ControlChat \/ Reload \/ UNCHANGED vars

\* They start no request, and of what is on its way they take away some; the
\* history is kept, cleared or comes with a message.
OnlyConsumes ==
    /\ answer' = answer
    /\ \A p \in Questions :
          /\ conn'[p] = "none" <=> conn[p] = "none"
          /\ conn'[p] \notin Running => wire'[p] = <<>>
          /\ \A i \in DOMAIN wire'[p] : \E j \in DOMAIN wire[p] : wire'[p][i] = wire[p][j]
    /\ \/ history' \in {<<>>, history}
       \/ \E q \in Questions : /\ wire[q] # <<>> /\ history' = wire[q][1].history
                               /\ wire[q][1].kind \in {"final", "error"}

LEMMA OthersConsume ==
    ASSUME TypeOK, RequestsInOrder, OtherStep \/ \E q \in Questions : Read(q)
    PROVE  OnlyConsumes
  <1> USE TypeParts DEF InProgress
  <1>1. CASE UNCHANGED <<conn, wire, answer>> /\ history' \in {<<>>, history}
    BY <1>1 DEF RequestsInOrder, OnlyConsumes
  <1>2. ASSUME /\ answer' = answer /\ history' \in {<<>>, history}
               /\ \A p \in Questions :
                     /\ conn'[p] = conn[p] \/ (conn'[p] \notin Running \cup {"none"} /\ InProgress(p))
                     /\ conn'[p] \notin Running => wire'[p] = <<>>
                     /\ conn'[p] \in Running => wire'[p] = wire[p]
        PROVE  OnlyConsumes
    <2>1. \A p \in Questions : conn'[p] = "none" <=> conn[p] = "none"
      BY <1>2 DEF Running
    <2> QED  BY <1>2, <2>1 DEF OnlyConsumes
  <1>3. ASSUME NEW tracked \in BOOLEAN, Tick(tracked) PROVE OnlyConsumes
    BY <1>1, <1>3 DEF Tick
  <1>4. CASE ClearChat \/ ControlChat \/ UNCHANGED vars
    BY <1>1, <1>4 DEF ClearChat, ControlChat, vars, view
  <1>5. CASE Reload
    BY <1>2, <1>5 DEF Reload, Running
  <1>6. CASE StopChat
    BY <1>2, <1>6 DEF StopChat, Ended, Running
  <1>7. ASSUME NEW q \in Questions, NEW how \in {"closed", "failed"}, Close(q, how), InProgress(q)
        PROVE  OnlyConsumes
    <2>1. Ended(q, how, ~Throws) /\ answer' = answer /\ history' = history /\ (~Throws) \in BOOLEAN
      BY <1>7 DEF Close
    <2>2. /\ conn'[q] = how
          /\ \A p \in Questions \ {q} :
                 conn'[p] = conn[p] \/ (InProgress(p) /\ conn'[p] = "aborted")
          /\ \A p \in Questions : wire'[p] = IF conn'[p] \in Running THEN wire[p] ELSE <<>>
      BY <2>1, EndedFacts
    <2> QED  BY <1>2, <1>7, <2>1, <2>2 DEF Running
  <1>8. ASSUME NEW q \in Questions, NEW kind, Arrives(q, kind), Taken(q), answer' = answer,
               \A p \in Questions : conn'[p] = conn[p] \/ (p = q /\ conn'[p] \in {"open", "refused"}),
               history' \in {<<>>, history} \/ (/\ history' = wire[q][1].history
                                                /\ wire[q][1].kind \in {"final", "error"})
        PROVE  OnlyConsumes
    <2>1. InProgress(q) /\ wire[q] # <<>>
      BY <1>8, ArrivesFacts
    <2>2. /\ \A p \in Questions \ {q} : wire'[p] = wire[p]
          /\ wire'[q] \in Seq(Messages)
          /\ Len(wire[q]) \in Nat \ {0} /\ Len(wire'[q]) = Len(wire[q]) - 1
          /\ \A i \in 1 .. Len(wire[q]) - 1 : wire'[q][i] = wire[q][i + 1]
      BY <1>8, <2>1, TakenFacts
    <2>3. ASSUME NEW i \in DOMAIN wire'[q] PROVE \E j \in DOMAIN wire[q] : wire'[q][i] = wire[q][j]
      <3>1. i \in 1 .. Len(wire[q]) - 1 /\ i + 1 \in DOMAIN wire[q]
        BY <2>2, LenProperties
      <3> QED  BY <2>2, <3>1
    <2>4. ASSUME NEW p \in Questions PROVE conn'[p] = "none" <=> conn[p] = "none"
      BY <1>8, <2>1 DEF Running
    <2>5. ASSUME NEW p \in Questions, conn'[p] \notin Running PROVE wire'[p] = <<>>
      BY <1>8, <2>1, <2>2, <2>5 DEF Running, RequestsInOrder
    <2>6. \A p \in Questions : \A i \in DOMAIN wire'[p] : \E j \in DOMAIN wire[p] : wire'[p][i] = wire[p][j]
      BY <2>2, <2>3
    <2> QED  BY <1>8, <2>1, <2>4, <2>5, <2>6 DEF OnlyConsumes
  <1>9. ASSUME NEW q \in Questions, Read(q) PROVE OnlyConsumes
    <2>1. CASE OpenStream(q)
      BY <1>8, <2>1 DEF OpenStream
    <2>2. CASE OpenJson(q)
      BY <1>8, <2>2 DEF OpenJson
    <2>3. CASE OpenOther(q)
      BY <1>8, <2>3 DEF OpenOther, view
    <2>4. CASE OnDelta(q)
      BY <1>8, <2>4 DEF OnDelta
    <2>5. ASSUME Arrives(q, "final") \/ Arrives(q, "error"), Learn(Head(wire[q]).history)
          PROVE  history' = history \/ (/\ history' = wire[q][1].history
                                        /\ wire[q][1].kind \in {"final", "error"})
      BY <2>5, ArrivesFacts DEF Learn
    <2>6. CASE OnFinal(q)
      BY <1>8, <2>5, <2>6 DEF OnFinal
    <2>7. CASE OnError(q)
      BY <1>8, <2>5, <2>7 DEF OnError
    <2>8. CASE OnFinalThrows(q) \/ OnClose(q) \/ OnBroken(q)
      BY <1>7, <2>8 DEF OnFinalThrows, OnClose, OnBroken, Arrives
    <2> QED  BY <1>9, <2>1, <2>2, <2>3, <2>4, <2>6, <2>7, <2>8 DEF Read
  <1> QED  BY <1>3, <1>4, <1>5, <1>6, <1>9 DEF OtherStep

LEMMA ContextOther ==
    ASSUME ContextInv, TypeOK', OnlyConsumes
    PROVE  ContextInv'
  <1> USE DEF ContextInv
  <1>1. answer' = answer
    BY DEF OnlyConsumes
  <1>2. RequestsInOrder'
    BY DEF RequestsInOrder, OnlyConsumes, InProgress
  <1>3. GeneratorsRecord'
    BY DEF GeneratorsRecord, OnlyConsumes
  <1>4. Whole(answer, history', Len(history'))
    <2>1. CASE history' = history
      BY <2>1 DEF SourcesWhole
    <2>2. CASE history' = <<>>
      BY <2>2 DEF Whole
    <2>3. ASSUME NEW q \in Questions, wire[q] # <<>>, history' = wire[q][1].history,
                 wire[q][1].kind \in {"final", "error"}
          PROVE  Whole(answer, history', Len(history'))
      <3>1. 1 \in DOMAIN wire[q]
        BY <2>3, LenProperties, EmptySeq, TypeParts
      <3> QED  BY <2>3, <3>1 DEF SourcesWhole
    <2> QED  BY <2>1, <2>2, <2>3 DEF OnlyConsumes
  <1>5. SourcesWhole'
    BY <1>1, <1>4 DEF SourcesWhole, OnlyConsumes
  <1> QED  BY <1>2, <1>3, <1>5

LEMMA ContextSend ==
    ASSUME ContextInv, TypeOK', NEW q \in Questions, Send(q)
    PROVE  ContextInv'
  <1> USE DEF ContextInv
  <1>1. /\ conn[q] = "none" /\ \A p \in 1 .. q - 1 : conn[p] # "none"
        /\ history' = history \/ history' = <<>>
        /\ conn' = [conn EXCEPT ![q] = "asked"] /\ wire' = wire
        /\ \A p \in Questions \ {q} : answer'[p] = answer[p]
        /\ answer'[q].phase = answer[q].phase /\ answer'[q].text = answer[q].text
        /\ answer'[q].sent \in {<<>>, history'} /\ answer'[q].history = answer'[q].sent
    BY SendFacts
  <1>2. /\ conn \in [Questions -> Running \cup {"none", "closed", "failed", "aborted"}]
        /\ answer \in [Questions -> Generator] /\ answer' \in [Questions -> Generator]
        /\ history \in Seq(Turns) /\ wire \in [Questions -> Seq(Messages)]
    BY TypeParts
  <1>3. answer[q].phase = "none"
    BY <1>1 DEF GeneratorsRecord
  <1>4. ASSUME NEW turns \in Seq(Turns), NEW n \in Int, n <= Len(turns), Whole(answer, turns, n)
        PROVE  Whole(answer', turns, n)
    BY <1>1, <1>2, <1>3, <1>4, WholeStays
  <1>5. \A turns \in Seq(Turns) : Len(turns) \in Int /\ Len(turns) - 1 \in Int
    BY LenProperties
  <1>6. Whole(answer', history', Len(history'))
    <2>1. CASE history' = history
      <3>1. Len(history) \in Int /\ Len(history) <= Len(history) /\ Whole(answer, history, Len(history))
        BY <1>2, LenProperties DEF SourcesWhole
      <3>2. Whole(answer', history, Len(history))
        BY <1>2, <1>4, <3>1
      <3> QED  BY <2>1, <3>2
    <2>2. CASE history' = <<>>
      <3>1. Len(history') = 0
        BY <2>2
      <3> QED  BY <3>1 DEF Whole
    <2> QED  BY <1>1, <2>1, <2>2
  <1>7. RequestsInOrder'
    <2>1. ASSUME NEW p \in Questions, NEW r \in Questions, p < r, conn'[r] # "none"
          PROVE  conn'[p] # "none"
      <3>1. r = q => p \in 1 .. q - 1
        BY <2>1, ConversationAssumption DEF Questions
      <3> QED  BY <1>1, <1>2, <2>1, <3>1 DEF RequestsInOrder
    <2>2. ASSUME NEW p \in Questions, conn'[p] \notin Running PROVE wire'[p] = <<>>
      BY <1>1, <1>2, <2>2 DEF RequestsInOrder, InProgress, Running
    <2> QED  BY <2>1, <2>2 DEF RequestsInOrder, InProgress
  <1>8. GeneratorsRecord'
    <2> SUFFICES ASSUME NEW p \in Questions
                 PROVE  /\ conn'[p] = "none" => answer'[p].phase = "none"
                        /\ answer'[p].phase = "none" => answer'[p].text = <<>>
                        /\ answer'[p].phase # "done" =>
                              /\ answer'[p].text = <<>> => answer'[p].history = answer'[p].sent
                              /\ Whole(answer', answer'[p].history, Len(answer'[p].history) - 1)
      BY DEF GeneratorsRecord
    <2>1. CASE p = q
      <3>1. CASE answer'[q].sent = <<>>
        BY <1>1, <1>2, <1>3, <2>1, <3>1 DEF Whole, GeneratorsRecord
      <3>2. CASE answer'[q].sent = history'
        <4>1. Len(history') \in Nat
          BY TypeParts, LenProperties
        <4>2. Whole(answer', history', Len(history') - 1)
          BY <1>6, <4>1 DEF Whole
        <4> QED  BY <1>1, <1>2, <1>3, <2>1, <3>2, <4>2 DEF GeneratorsRecord
      <3> QED  BY <1>1, <3>1, <3>2
    <2>2. CASE p # q
      <3>1. answer'[p] = answer[p] /\ conn'[p] = conn[p] /\ answer[p].history \in Seq(Turns)
        BY <1>1, <1>2, <2>2 DEF Generator
      <3>2. answer[p].phase # "done" => Whole(answer', answer[p].history, Len(answer[p].history) - 1)
        BY <1>4, <1>5, <3>1 DEF GeneratorsRecord
      <3> QED  BY <3>1, <3>2 DEF GeneratorsRecord
    <2> QED  BY <2>1, <2>2
  <1>9. SourcesWhole'
    <2>1. ASSUME NEW p \in Questions PROVE Whole(answer', answer'[p].sent, Len(answer'[p].sent))
      <3>1. CASE p # q
        <4>1. answer'[p] = answer[p] /\ answer[p].sent \in Seq(Turns)
          BY <1>1, <1>2, <3>1 DEF Generator
        <4> QED  BY <1>4, <1>5, <4>1 DEF SourcesWhole
      <3>2. CASE p = q /\ answer'[q].sent = <<>>
        BY <3>2 DEF Whole
      <3>3. CASE p = q /\ answer'[q].sent = history'
        BY <1>6, <3>3
      <3> QED  BY <1>1, <3>1, <3>2, <3>3
    <2>2. ASSUME NEW p \in Questions, NEW i \in DOMAIN wire[p],
                 wire[p][i].kind \in {"final", "error"}
          PROVE  Whole(answer', wire[p][i].history, Len(wire[p][i].history))
      <3>1. wire[p][i] \in Messages
        BY <1>2, LenProperties, ElementOfSeq
      <3>2. wire[p][i].history \in Seq(Turns)
        BY <2>2, <3>1 DEF Messages
      <3> QED  BY <1>4, <1>5, <2>2, <3>2 DEF SourcesWhole
    <2> QED  BY <1>1, <1>6, <2>1, <2>2 DEF SourcesWhole
  <1> QED  BY <1>7, <1>8, <1>9

LEMMA ContextServe ==
    ASSUME ContextInv, ConversationAssumption, TypeOK', NEW q \in Questions, Serve(q)
    PROVE  ContextInv'
  <1> USE DEF ContextInv
  <1>1. /\ history' = history /\ conn' = conn /\ InProgress(q) /\ answer[q].phase # "done"
        /\ \A p \in Questions \ {q} : answer'[p] = answer[p]
        /\ answer'[q].sent = answer[q].sent
    BY ServeEffect DEF view
  <1>2. /\ conn \in [Questions -> Running \cup {"none", "closed", "failed", "aborted"}]
        /\ answer \in [Questions -> Generator] /\ answer' \in [Questions -> Generator]
        /\ history \in Seq(Turns) /\ wire \in [Questions -> Seq(Messages)]
        /\ wire' \in [Questions -> Seq(Messages)]
    BY TypeParts
  <1>3. /\ answer[q].text \in Seq(Deltas) /\ answer'[q].text \in Seq(Deltas)
        /\ answer[q].history \in Seq(Turns) /\ answer[q].sent \in Seq(Turns)
    BY <1>2 DEF Generator
  <1>4. ASSUME NEW turns \in Seq(Turns), NEW n \in Int, n <= Len(turns), Whole(answer, turns, n)
        PROVE  Whole(answer', turns, n)
    BY <1>1, <1>2, <1>4, WholeStays
  <1>5. \A turns \in Seq(Turns) : Len(turns) \in Nat
    BY LenProperties
  <1>6. Whole(answer', answer[q].history, Len(answer[q].history) - 1)
    BY <1>1, <1>3, <1>4, <1>5 DEF GeneratorsRecord
  <1>7. RequestsInOrder' /\ \A p \in Questions \ {q} : wire'[p] = wire[p]
    <2>1. PICK messages : Put(q, messages)
      BY ServeEffect
    <2>2. \A p \in Questions \ {q} : wire'[p] = wire[p]
      BY <1>2, <2>1 DEF Put
    <2> QED  BY <1>1, <1>2, <2>2 DEF RequestsInOrder, InProgress
  <1>8. \/ answer'[q].phase = "done"
        \/ /\ answer'[q].phase = "open" /\ answer'[q].history = answer[q].history
           /\ answer'[q].text = answer[q].text /\ answer[q].phase = "none"
        \/ /\ answer'[q].phase = "open" /\ answer'[q].text # <<>>
           /\ answer'[q].history = Recorded(answer[q].history, q, answer'[q].text)
    <2>1. \A delta \in Deltas : Append(answer[q].text, delta) # <<>>
      BY <1>3, AppendProperties
    <2>2. \/ answer'[q].phase = "done"
          \/ /\ answer'[q].phase = "open" /\ answer'[q].history = answer[q].history
             /\ answer'[q].text = answer[q].text /\ answer[q].phase = "none"
          \/ /\ answer'[q].phase = "open"
             /\ \E delta \in Deltas : answer'[q].text = Append(answer[q].text, delta)
             /\ answer'[q].history = Recorded(answer[q].history, q, answer'[q].text)
      BY ServeEffect
    <2> QED  BY <2>1, <2>2
  <1>9. GeneratorsRecord'
    <2> SUFFICES ASSUME NEW p \in Questions
                 PROVE  /\ conn'[p] = "none" => answer'[p].phase = "none"
                        /\ answer'[p].phase = "none" => answer'[p].text = <<>>
                        /\ answer'[p].phase # "done" =>
                              /\ answer'[p].text = <<>> => answer'[p].history = answer'[p].sent
                              /\ Whole(answer', answer'[p].history, Len(answer'[p].history) - 1)
      BY DEF GeneratorsRecord
    <2>1. CASE p # q
      <3>1. answer'[p] = answer[p] /\ conn'[p] = conn[p] /\ answer[p].history \in Seq(Turns)
        BY <1>1, <1>2, <2>1 DEF Generator
      <3>2. answer[p].phase # "done" => Whole(answer', answer[p].history, Len(answer[p].history) - 1)
        BY <1>4, <1>5, <3>1 DEF GeneratorsRecord
      <3> QED  BY <3>1, <3>2 DEF GeneratorsRecord
    <2>2. CASE p = q
      <3>1. conn[q] # "none"
        BY <1>1 DEF InProgress, Running
      <3>2. CASE answer'[q].phase = "done"
        BY <1>1, <2>2, <3>1, <3>2
      <3>3. CASE /\ answer'[q].phase = "open" /\ answer'[q].history = answer[q].history
                 /\ answer'[q].text = answer[q].text /\ answer[q].phase = "none"
        BY <1>1, <1>6, <2>2, <3>1, <3>3 DEF GeneratorsRecord
      <3>4. CASE /\ answer'[q].phase = "open" /\ answer'[q].text # <<>>
                 /\ answer'[q].history = Recorded(answer[q].history, q, answer'[q].text)
        <4> DEFINE text == answer'[q].text
                   r == Recorded(answer[q].history, q, text)
        <4>1. answer'[q].history = r
          BY <3>4
        <4> HIDE DEF text
        <4>2. /\ Len(r) \in Nat \ {0}
              /\ Len(r) = IF answer[q].history = <<>> THEN 1 ELSE Len(answer[q].history)
              /\ \A i \in 1 .. Len(r) - 1 : r[i] = answer[q].history[i]
          <5> DEFINE turns == answer[q].history
          <5>1. text \in Seq(Deltas) /\ turns \in Seq(Turns)
            BY <1>3 DEF text
          <5> HIDE DEF turns
          <5>2. LET s == Recorded(turns, q, text) IN
                /\ Len(s) \in Nat \ {0}
                /\ Len(s) = IF turns = <<>> THEN 1 ELSE Len(turns)
                /\ \A i \in 1 .. Len(s) - 1 : s[i] = turns[i]
            BY <5>1, RecordedFacts
          <5> QED  BY <5>2 DEF turns
        <4> HIDE DEF r
        <4>3. ASSUME NEW i \in 1 .. Len(r) - 1
              PROVE  i \in 1 .. Len(answer[q].history) - 1 /\ r[i] = answer[q].history[i]
          BY <4>2
        <4>4. Whole(answer', r, Len(r) - 1)
          BY <1>6, <4>3 DEF Whole
        <4> QED  BY <1>1, <2>2, <3>1, <3>4, <4>1, <4>4
      <3> QED  BY <1>8, <3>2, <3>3, <3>4
    <2> QED  BY <2>1, <2>2
  <1>10. ASSUME NEW p \in Questions, NEW i \in DOMAIN wire[p],
                wire[p][i].kind \in {"final", "error"}
         PROVE  Whole(answer', wire[p][i].history, Len(wire[p][i].history))
    <2>1. wire[p][i] \in Messages
      BY <1>2, LenProperties, ElementOfSeq
    <2>2. wire[p][i].history \in Seq(Turns)
      BY <1>10, <2>1 DEF Messages
    <2> QED  BY <1>4, <1>5, <1>10, <2>2 DEF SourcesWhole
  <1> DEFINE Fine(m) == m.kind \in {"final", "error"} => Whole(answer', m.history, Len(m.history))
  <1>11. \E messages \in Seq(Messages) :
            Put(q, messages) /\ \A i \in 1 .. Len(messages) : Fine(messages[i])
    <2> DEFINE plain == {"stream", "json", "other", "close", "broken", "delta"}
               end == [kind |-> "close"]
               error == [kind |-> "error", history |-> answer[q].sent]
    <2>1. /\ \A kind \in {"stream", "json", "other", "close", "broken"} :
                /\ [kind |-> kind] \in Messages /\ [kind |-> kind].kind \in plain
          /\ \A delta \in Deltas : /\ [kind |-> "delta", text |-> delta] \in Messages
                                 /\ [kind |-> "delta", text |-> delta].kind \in plain
          /\ end \in Messages /\ end.kind \in plain
          /\ error \in Messages /\ error.history = answer[q].sent
      BY <1>3 DEF Messages
    <2>2. ASSUME NEW m \in Messages, m.kind \in plain PROVE Fine(m)
      BY <2>2
    <2>3. Fine(error)
      <3>1. Whole(answer', answer[q].sent, Len(answer[q].sent))
        <4>1. /\ Len(answer[q].sent) \in Int /\ Len(answer[q].sent) <= Len(answer[q].sent)
              /\ Whole(answer, answer[q].sent, Len(answer[q].sent))
          BY <1>3, <1>5 DEF SourcesWhole
        <4> QED  BY <1>3, <1>4, <4>1
      <3> QED  BY <2>1, <3>1
    <2>4. ASSUME NEW sources \in BOOLEAN, answer'[q].phase = "done", answer'[q].text = answer[q].text
          PROVE  Final(q, sources) \in Messages /\ Fine(Final(q, sources))
      <3> DEFINE r == Recorded(answer[q].history, q, answer[q].text)
      <3>1. r \in Seq(Turns)
        BY <1>3, RecordedFacts
      <3>2. Whole(answer', r, Len(r))
        BY <1>2, <1>3, <1>6, <2>4, RecordedWhole
      <3>3. /\ Final(q, sources) = [kind |-> "final", history |-> r, sources |-> sources]
        BY DEF Final
      <3> HIDE DEF r
      <3>4. Final(q, sources) \in Messages /\ Final(q, sources).history = r
        BY <3>1, <3>3 DEF Messages
      <3> QED  BY <3>2, <3>4
    <2> HIDE DEF Fine, end, error, plain
    <2>5. ASSUME NEW m \in Messages, Fine(m), Put(q, <<m>>)
          PROVE  \E messages \in Seq(Messages) :
                    Put(q, messages) /\ \A i \in 1 .. Len(messages) : Fine(messages[i])
      <3>1. <<m>> \in Seq(Messages) /\ \A i \in 1 .. Len(<<m>>) : <<m>>[i] = m
        OBVIOUS
      <3> QED  BY <2>5, <3>1
    <2>6. ASSUME NEW m \in Messages, NEW n \in Messages, Fine(m), Fine(n), Put(q, <<m, n>>)
          PROVE  \E messages \in Seq(Messages) :
                    Put(q, messages) /\ \A i \in 1 .. Len(messages) : Fine(messages[i])
      <3>1. <<m, n>> \in Seq(Messages) /\ \A i \in 1 .. Len(<<m, n>>) : <<m, n>>[i] \in {m, n}
        OBVIOUS
      <3> QED  BY <2>6, <3>1
    <2>7. Fine(end) /\ end \in Messages
      BY <2>1, <2>2
    <2>8. CASE \E kind \in {"json", "other"} : Put(q, <<[kind |-> kind], [kind |-> "close"]>>)
      <3>1. PICK kind \in {"json", "other"} : Put(q, <<[kind |-> kind], end>>)
        BY <2>8 DEF end
      <3>2. [kind |-> kind] \in Messages /\ Fine([kind |-> kind])
        BY <2>1, <2>2
      <3> QED  BY <2>6, <2>7, <3>1, <3>2
    <2>9. CASE Put(q, <<[kind |-> "stream"]>>) \/ Put(q, <<[kind |-> "broken"]>>)
      <3>1. \A kind \in {"stream", "broken"} : [kind |-> kind] \in Messages /\ Fine([kind |-> kind])
        BY <2>1, <2>2
      <3> QED  BY <2>5, <2>9, <3>1
    <2>10. CASE \E delta \in Deltas : Put(q, <<[kind |-> "delta", text |-> delta]>>)
      <3>1. PICK delta \in Deltas : Put(q, <<[kind |-> "delta", text |-> delta]>>)
        BY <2>10
      <3>2. /\ [kind |-> "delta", text |-> delta] \in Messages
            /\ Fine([kind |-> "delta", text |-> delta])
        BY <2>1, <2>2
      <3> QED  BY <2>5, <3>1, <3>2
    <2>11. CASE /\ answer'[q].phase = "done" /\ answer'[q].text = answer[q].text
                /\ \E sources \in BOOLEAN : Put(q, <<Final(q, sources), [kind |-> "close"]>>)
      <3>1. PICK sources \in BOOLEAN : Put(q, <<Final(q, sources), end>>)
        BY <2>11 DEF end
      <3>2. Final(q, sources) \in Messages /\ Fine(Final(q, sources))
        BY <2>4, <2>11
      <3> QED  BY <2>6, <2>7, <3>1, <3>2
    <2>12. CASE Put(q, <<error, end>>)
      BY <2>1, <2>3, <2>6, <2>7, <2>12
    <2>13. \/ \E kind \in {"json", "other"} : Put(q, <<[kind |-> kind], [kind |-> "close"]>>)
           \/ Put(q, <<[kind |-> "stream"]>>) \/ Put(q, <<[kind |-> "broken"]>>)
           \/ \E delta \in Deltas : Put(q, <<[kind |-> "delta", text |-> delta]>>)
           \/ /\ answer'[q].phase = "done" /\ answer'[q].text = answer[q].text
              /\ \E sources \in BOOLEAN : Put(q, <<Final(q, sources), [kind |-> "close"]>>)
           \/ Put(q, <<error, end>>)
      BY ServeEffect DEF error, end
    <2> QED  BY <2>8, <2>9, <2>10, <2>11, <2>12, <2>13
  <1>12. ASSUME NEW i \in DOMAIN wire'[q] PROVE Fine(wire'[q][i])
    <2>1. PICK messages \in Seq(Messages) :
             Put(q, messages) /\ \A j \in 1 .. Len(messages) : Fine(messages[j])
      BY <1>11
    <2>2. /\ Len(wire'[q]) = Len(wire[q]) + Len(messages)
          /\ \A j \in 1 .. Len(wire[q]) : wire'[q][j] = wire[q][j]
          /\ \A j \in 1 .. Len(messages) : wire'[q][Len(wire[q]) + j] = messages[j]
      BY <1>2, <2>1, PutFacts
    <2>3. /\ Len(wire[q]) \in Nat /\ Len(messages) \in Nat /\ DOMAIN wire[q] = 1 .. Len(wire[q])
          /\ i \in 1 .. Len(wire'[q])
      BY <1>2, LenProperties
    <2>4. CASE i <= Len(wire[q])
      <3>1. i \in 1 .. Len(wire[q]) /\ i \in DOMAIN wire[q] /\ wire'[q][i] = wire[q][i]
        BY <2>2, <2>3, <2>4
      <3> QED  BY <1>10, <3>1
    <2>5. CASE ~(i <= Len(wire[q]))
      <3>1. PICK j \in 1 .. Len(messages) : i = Len(wire[q]) + j
        <4>1. i - Len(wire[q]) \in 1 .. Len(messages) /\ i = Len(wire[q]) + (i - Len(wire[q]))
          BY <2>2, <2>3, <2>5, SMTT(20)
        <4> QED  BY <4>1
      <3>2. wire'[q][i] = messages[j] /\ Fine(messages[j])
        BY <2>1, <2>2, <3>1
      <3> QED  BY <3>2
    <2> QED  BY <2>4, <2>5
  <1>13. SourcesWhole'
    <2>1. ASSUME NEW p \in Questions PROVE Whole(answer', answer'[p].sent, Len(answer'[p].sent))
      <3>1. answer'[p].sent = answer[p].sent /\ answer[p].sent \in Seq(Turns)
        BY <1>1, <1>2 DEF Generator
      <3> QED  BY <1>4, <1>5, <3>1 DEF SourcesWhole
    <2>2. Whole(answer', history', Len(history'))
      BY <1>1, <1>2, <1>4, <1>5 DEF SourcesWhole
    <2>3. ASSUME NEW p \in Questions, NEW i \in DOMAIN wire'[p] PROVE Fine(wire'[p][i])
      BY <1>7, <1>10, <1>12
    <2> QED  BY <2>1, <2>2, <2>3 DEF SourcesWhole
  <1> QED  BY <1>7, <1>9, <1>13

LEMMA ContextInit == Init => ContextInv
  <1> SUFFICES ASSUME Init PROVE ContextInv
    OBVIOUS
  <1>1. TypeOK
    BY TypeInit
  <1>2. /\ conn = [q \in Questions |-> "none"] /\ wire = [q \in Questions |-> <<>>]
        /\ answer = [q \in Questions |->
                       [phase |-> "none", text |-> <<>>, sent |-> <<>>, history |-> <<>>]]
        /\ history = <<>>
    BY DEF Init
  <1>3. /\ Len(<<>>) = 0 /\ DOMAIN <<>> = {}
        /\ \A generators, turns : Whole(generators, turns, 0) /\ Whole(generators, turns, 0 - 1)
    BY DEF Whole
  <1>4. RequestsInOrder /\ GeneratorsRecord /\ SourcesWhole
    BY <1>2, <1>3 DEF RequestsInOrder, GeneratorsRecord, SourcesWhole
  <1> QED  BY <1>1, <1>4 DEF ContextInv

LEMMA ContextNext == ContextInv /\ [Next]_vars => ContextInv'
  <1> SUFFICES ASSUME ContextInv, [Next]_vars PROVE ContextInv'
    OBVIOUS
  <1>1. TypeOK /\ TypeOK' /\ RequestsInOrder
    BY ConversationAssumption, TypeNext DEF ContextInv
  <1>2. CASE \E q \in Questions : Serve(q)
    BY <1>1, <1>2, ContextServe, ConversationAssumption
  <1>3. CASE \E q \in Questions : Send(q)
    BY <1>1, <1>3, ContextSend
  <1>4. CASE OtherStep \/ \E q \in Questions : Read(q)
    BY <1>1, <1>4, OthersConsume, ContextOther
  <1> QED  BY <1>2, <1>3, <1>4 DEF Next, OtherStep

\* Whatever the user does and whatever breaks, the variables keep the types
\* the view and the server give them: what is learned from a message is a
\* history, what is typed is part of an answer.
THEOREM TypeCorrect == Spec => []TypeOK
  <1>1. ContextInv => TypeOK
    BY DEF ContextInv
  <1> QED  BY <1>1, ContextInit, ContextNext, PTL DEF Spec

\* The context of the next question (history_) holds whole answers only: what
\* generatorAnswer records of an answer that was stopped, broken or asked
\* twice never reaches it, calm or not.
THEOREM ContextWhole == Spec => []ContextIsWhole
  <1>1. ASSUME ContextInv PROVE ContextIsWhole
    <2> SUFFICES ASSUME NEW turn \in Range(history)
                 PROVE  /\ answer[turn.question].phase = "done"
                        /\ turn.answer = answer[turn.question].text
      BY DEF ContextIsWhole
    <2>1. history \in Seq(Turns) /\ Whole(answer, history, Len(history))
      BY <1>1, TypeParts DEF ContextInv, SourcesWhole
    <2>2. PICK i \in 1 .. Len(history) : turn = history[i]
      BY <2>1, LenProperties DEF Range
    <2> QED  BY <2>1, <2>2 DEF Whole
  <1> QED  BY <1>1, ContextInit, ContextNext, PTL DEF Spec

-----------------------------------------------------------------------------
(* A calm conversation: one answer at a time.                              *)

Begins(s, t) == Len(s) <= Len(t) /\ \A i \in 1 .. Len(s) : s[i] = t[i]

OneAtATime ==
    \A q \in Questions : InProgress(q) =>
        /\ ctrl = q /\ list # <<>>
        /\ \A p \in Questions : conn[p] # "none" => p <= q
        /\ \A p \in Questions : InProgress(p) => p = q

\* The entry that is being typed is the last one, and only it is unfinished.
EntryFollows(i) ==
    LET entry == list[i]
        q     == entry.question IN
    entry.ai =>
        /\ conn[q] \notin {"none", "asked", "refused"}
        /\ conn[q] = "open" => i = Len(list) /\ ~entry.tools
        /\ Begins(entry.shown, answer[q].text)
        /\ conn[q] = "closed" => entry.shown = answer[q].text

EntriesFollow == \A i \in 1 .. Len(list) : EntryFollows(i)

Typed(items, q) ==
    items # <<>> /\ items[Len(items)].ai /\ items[Len(items)].question = q

LastShown(items) == items[Len(items)].shown

\* What is in the queue of the typewriter comes after what is shown.
QueueFollows(shown, queue, text) ==
    /\ Len(shown) + Len(queue) <= Len(text)
    /\ \A i \in 1 .. Len(queue) : queue[i] = text[Len(shown) + i]

QueueIsTyped == typist.queue # <<>> => \E q \in Questions : conn[q] = "open" /\ Typed(list, q)

LastIs(turns, q) == turns # <<>> /\ turns[Len(turns)].question = q

\* The turn of q, if its generator recorded one, was learned.
Learned(generator, turns, q) == generator.history = generator.sent \/ LastIs(turns, q)

\* After the first h messages come the deltas of the text after the first s.
Delivers(text, messages, h, s) ==
    /\ s <= Len(text) /\ h + (Len(text) - s) <= Len(messages)
    /\ \A i \in 1 .. Len(text) - s :
          messages[h + i].kind = "delta" /\ messages[h + i].text = text[s + i]

\* After the first n messages comes the end of the answer of q.
Ends(generator, messages, n, turns, q) ==
    \/ generator.phase = "open" /\ Len(messages) = n
    \/ /\ generator.phase = "done"
       /\ \/ Len(messages) = n + 1 /\ messages[n + 1].kind = "broken"
          \/ /\ Len(messages) = 1 /\ n = 0 /\ messages[1].kind = "close"
             /\ Learned(generator, turns, q)
          \/ /\ Len(messages) = n + 2 /\ messages[n + 2].kind = "close"
             /\ messages[n + 1].kind = "final" /\ LastIs(messages[n + 1].history, q)
          \/ /\ Len(messages) = n + 2 /\ messages[n + 2].kind = "close"
             /\ messages[n + 1].kind = "error"
             /\ messages[n + 1].history = generator.sent
             /\ generator.history = generator.sent

Rest(generator, messages, turns, q, h, s) ==
    /\ Delivers(generator.text, messages, h, s)
    /\ Ends(generator, messages, h + (Len(generator.text) - s), turns, q)

\* The server answered without a stream.
NoStream(generator) == generator.phase = "done" /\ generator.text = <<>>
                       /\ generator.history = generator.sent

AskedWire(generator, messages, turns, q) ==
    \/ generator.phase = "none" /\ messages = <<>>
    \/ NoStream(generator) /\ Len(messages) = 1 /\ messages[1].kind = "broken"
    \/ /\ NoStream(generator) /\ Len(messages) = 2 /\ messages[1].kind \in {"json", "other"}
       /\ messages[2].kind = "close"
    \/ /\ Len(messages) > 0 /\ messages[1].kind = "stream"
       /\ Rest(generator, messages, turns, q, 1, 0)

ClosesOnly(generator, messages) ==
    NoStream(generator) /\ Len(messages) = 1 /\ messages[1].kind = "close"

OpenWire(generator, messages, turns, items, queue, q) ==
    \/ ClosesOnly(generator, messages) /\ queue = <<>>
    \/ /\ Typed(items, q) /\ QueueFollows(LastShown(items), queue, generator.text)
       /\ Rest(generator, messages, turns, q, 0, Len(LastShown(items)) + Len(queue))

WireFollows ==
    \A q \in Questions :
        /\ conn[q] = "asked"   => AskedWire(answer[q], wire[q], history, q)
        /\ conn[q] = "refused" => ClosesOnly(answer[q], wire[q])
        /\ conn[q] = "open"    =>
              OpenWire(answer[q], wire[q], history, list, typist.queue, q)

\* What is learned is later than what was learned before.
AnswersLearned ==
    history # <<>> => \A q \in Questions : Answered(q) => q <= history[Len(history)].question

ContextFollows ==
    /\ \A q \in Questions : InProgress(q) =>
          \/ answer[q].sent = <<>> \/ answer[q].sent = history
          \/ Len(wire[q]) = 1 /\ wire[q][1].kind = "close"
    /\ AnswersLearned

LoadingFollows == loading = \E q \in Questions : conn[q] \in {"asked", "open"}

CalmInv ==
    calm => /\ LoadingFollows /\ OneAtATime /\ EntriesFollow
            /\ QueueIsTyped /\ WireFollows /\ ContextFollows

Inv == ContextInv /\ CalmInv

-----------------------------------------------------------------------------
(* Messages that are read or added.                                        *)

LEMMA LenNat == ASSUME NEW S, NEW s \in Seq(S)
                PROVE  /\ Len(s) \in Nat /\ DOMAIN s = 1 .. Len(s)
                       /\ \A i \in 1 .. Len(s) : s[i] \in S
                       /\ s = <<>> <=> Len(s) = 0
  BY LenProperties, ElementOfSeq, EmptySeq

\* The first message is read.
LEMMA DeliversShift ==
    ASSUME NEW text \in Seq(Deltas), NEW w \in Seq(Messages), NEW v \in Seq(Messages),
           Len(w) > 0, Len(v) = Len(w) - 1, \A i \in 1 .. Len(w) - 1 : v[i] = w[i + 1],
           NEW h \in Nat, NEW s \in Nat, Delivers(text, w, h, s)
    PROVE  /\ h > 0 => Delivers(text, v, h - 1, s)
           /\ h = 0 /\ s < Len(text) => Delivers(text, v, 0, s + 1)
  <1>1. Len(text) \in Nat /\ Len(w) \in Nat /\ Len(v) \in Nat
    BY LenNat
  <1>2. /\ s <= Len(text) /\ h + (Len(text) - s) <= Len(w)
        /\ \A i \in 1 .. Len(text) - s :
              w[h + i].kind = "delta" /\ w[h + i].text = text[s + i]
    BY DEF Delivers
  <1>3. ASSUME h > 0 PROVE Delivers(text, v, h - 1, s)
    <2>1. ASSUME NEW i \in 1 .. Len(text) - s PROVE v[h - 1 + i] = w[h + i]
      <3>1. h - 1 + i \in 1 .. Len(w) - 1 /\ (h - 1 + i) + 1 = h + i
        BY <1>1, <1>2, <1>3
      <3> QED  BY <3>1
    <2>2. (h - 1) + (Len(text) - s) <= Len(v)
      BY <1>1, <1>2
    <2> QED  BY <1>2, <2>1, <2>2 DEF Delivers
  <1>4. ASSUME h = 0, s < Len(text) PROVE Delivers(text, v, 0, s + 1)
    <2>1. ASSUME NEW i \in 1 .. Len(text) - (s + 1)
          PROVE  v[0 + i].kind = "delta" /\ v[0 + i].text = text[(s + 1) + i]
      <3>1. Len(text) - s <= Len(w)
        BY <1>1, <1>2, <1>4
      <3>2. /\ i \in 1 .. Len(w) - 1 /\ i + 1 \in 1 .. Len(text) - s
            /\ h + (i + 1) = i + 1 /\ s + (i + 1) = (s + 1) + i /\ 0 + i = i
        <4>1. ASSUME NEW a \in Nat, NEW b \in Nat, a - s <= b, i \in 1 .. a - (s + 1)
              PROVE  /\ i \in 1 .. b - 1 /\ i + 1 \in 1 .. a - s
                     /\ s + (i + 1) = (s + 1) + i /\ 0 + i = i
          BY <4>1
        <4> QED  BY <1>1, <1>4, <3>1, <4>1
      <3>3. v[i] = w[h + (i + 1)]
        BY <3>2
      <3> QED  BY <1>2, <3>2, <3>3
    <2>2. s + 1 <= Len(text) /\ 0 + (Len(text) - (s + 1)) <= Len(v)
      BY <1>1, <1>2, <1>4
    <2> QED  BY <2>1, <2>2 DEF Delivers
  <1> QED  BY <1>3, <1>4

LEMMA EndsShift ==
    ASSUME NEW generator, NEW w \in Seq(Messages), NEW v \in Seq(Messages),
           Len(w) > 0, Len(v) = Len(w) - 1, \A i \in 1 .. Len(w) - 1 : v[i] = w[i + 1],
           NEW n \in Nat \ {0}, NEW turns, NEW q, Ends(generator, w, n, turns, q)
    PROVE  Ends(generator, v, n - 1, turns, q)
  <1>1. Len(w) \in Nat /\ Len(v) \in Nat
    BY LenNat
  <1>2. CASE Len(w) = n
    BY <1>1, <1>2 DEF Ends
  <1>3. CASE Len(w) = n + 1
    <2>1. v[(n - 1) + 1] = w[n + 1] /\ Len(v) = (n - 1) + 1 /\ n + 1 # 1
      <3>1. n \in 1 .. Len(w) - 1 /\ (n - 1) + 1 = n
        BY <1>3
      <3> QED  BY <1>3, <3>1
    <2> QED  BY <1>3, <2>1 DEF Ends
  <1>4. CASE Len(w) = n + 2
    <2>1. /\ v[(n - 1) + 1] = w[n + 1] /\ v[(n - 1) + 2] = w[n + 2]
          /\ Len(v) = (n - 1) + 2 /\ n + 2 # 1
      <3>1. /\ n \in 1 .. Len(w) - 1 /\ n + 1 \in 1 .. Len(w) - 1
            /\ (n - 1) + 1 = n /\ (n - 1) + 2 = n + 1 /\ (n + 1) + 1 = n + 2
        BY <1>4
      <3> QED  BY <1>4, <3>1
    <2> QED  BY <1>4, <2>1 DEF Ends
  <1>5. Len(w) = n \/ Len(w) = n + 1 \/ Len(w) = n + 2
    BY DEF Ends
  <1> QED  BY <1>2, <1>3, <1>4, <1>5

\* What the first message is when the rest of the answer comes.
LEMMA RestFirst ==
    ASSUME NEW g \in Generator, NEW w \in Seq(Messages), Len(w) > 0, NEW turns, NEW q,
           NEW s \in Nat, Rest(g, w, turns, q, 0, s)
    PROVE  /\ w[1].kind \in {"delta", "broken", "close", "final", "error"}
           /\ w[1].kind = "delta" => s < Len(g.text) /\ w[1].text = g.text[s + 1]
           /\ w[1].kind # "delta" => s = Len(g.text) /\ g.phase = "done"
           /\ w[1].kind = "close" => Learned(g, turns, q)
           /\ w[1].kind = "final" => /\ Len(w) = 2 /\ w[2].kind = "close"
                                     /\ LastIs(w[1].history, q)
           /\ w[1].kind = "error" => /\ Len(w) = 2 /\ w[2].kind = "close"
                                     /\ w[1].history = g.sent /\ g.history = g.sent
  <1>1. g.text \in Seq(Deltas) /\ Len(g.text) \in Nat /\ Len(w) \in Nat
    BY LenNat DEF Generator
  <1>2. /\ s <= Len(g.text) /\ 0 + (Len(g.text) - s) <= Len(w)
        /\ \A i \in 1 .. Len(g.text) - s :
              w[0 + i].kind = "delta" /\ w[0 + i].text = g.text[s + i]
        /\ Ends(g, w, 0 + (Len(g.text) - s), turns, q)
    BY DEF Rest, Delivers
  <1>3. CASE s < Len(g.text)
    <2>1. 1 \in 1 .. Len(g.text) - s /\ 0 + 1 = 1
      BY <1>1, <1>3
    <2>2. w[1].kind = "delta" /\ w[1].text = g.text[s + 1]
      BY <1>2, <2>1
    <2> QED  BY <1>3, <2>2
  <1>4. CASE s = Len(g.text)
    <2>1. 0 + (Len(g.text) - s) = 0 /\ 0 + 1 = 1 /\ 0 + 2 = 2
      BY <1>1, <1>4
    <2>2. Ends(g, w, 0, turns, q)
      BY <1>2, <2>1
    <2> QED  BY <1>1, <1>4, <2>1, <2>2 DEF Ends
  <1> QED  BY <1>1, <1>2, <1>3, <1>4

\* A delta is added.
LEMMA RestDelta ==
    ASSUME NEW g \in Generator, NEW k \in Generator, NEW d \in Deltas,
           g.phase = "open", k.phase = "open", k.text = Append(g.text, d),
           NEW w \in Seq(Messages), NEW v \in Seq(Messages), Len(v) = Len(w) + 1,
           \A i \in 1 .. Len(w) : v[i] = w[i],
           v[Len(w) + 1].kind = "delta", v[Len(w) + 1].text = d,
           NEW turns, NEW q, NEW h \in Nat, NEW s \in Nat, Rest(g, w, turns, q, h, s)
    PROVE  Rest(k, v, turns, q, h, s)
  <1> DEFINE t == g.text  u == k.text
  <1>1. t \in Seq(Deltas) /\ Len(t) \in Nat /\ Len(w) \in Nat
    BY LenNat DEF Generator
  <1>2. /\ Len(u) = Len(t) + 1 /\ u[Len(t) + 1] = d
        /\ \A i \in 1 .. Len(t) : u[i] = t[i]
    BY <1>1, AppendProperties
  <1>3. /\ s <= Len(t) /\ Len(w) = h + (Len(t) - s)
        /\ \A i \in 1 .. Len(t) - s : w[h + i].kind = "delta" /\ w[h + i].text = t[s + i]
    BY DEF Rest, Delivers, Ends
  <1> HIDE DEF t, u
  <1>4. ASSUME NEW i \in 1 .. Len(u) - s
        PROVE  v[h + i].kind = "delta" /\ v[h + i].text = u[s + i]
    <2>1. CASE i \in 1 .. Len(t) - s
      <3>1. h + i \in 1 .. Len(w) /\ s + i \in 1 .. Len(t)
        BY <1>1, <1>3, <2>1
      <3> QED  BY <1>2, <1>3, <2>1, <3>1
    <2>2. CASE i = Len(t) - s + 1
      <3>1. h + i = Len(w) + 1 /\ s + i = Len(t) + 1
        BY <1>1, <1>3, <2>2
      <3> QED  BY <1>2, <3>1
    <2>3. i \in 1 .. Len(t) - s \/ i = Len(t) - s + 1
      BY <1>1, <1>2, <1>3
    <2> QED  BY <2>1, <2>2, <2>3
  <1>5. s <= Len(u) /\ Len(v) = h + (Len(u) - s)
    BY <1>1, <1>2, <1>3
  <1>6. k.text = u
    BY DEF u
  <1>7. h + (Len(u) - s) <= Len(v)
    BY <1>1, <1>2, <1>3, <1>5
  <1> HIDE DEF u
  <1>8. Delivers(k.text, v, h, s)
    BY <1>4, <1>5, <1>6, <1>7 DEF Delivers
  <1>9. Ends(k, v, h + (Len(k.text) - s), turns, q)
    BY <1>5, <1>6 DEF Ends
  <1> QED  BY <1>8, <1>9 DEF Rest

\* The end of the answer is added.
LEMMA RestEnd ==
    ASSUME NEW g \in Generator, NEW k \in Generator, NEW q,
           g.phase = "open", k.phase = "done", k.text = g.text, k.sent = g.sent,
           NEW w \in Seq(Messages), NEW v \in Seq(Messages), \A i \in 1 .. Len(w) : v[i] = w[i],
           \/ Len(v) = Len(w) + 1 /\ v[Len(w) + 1].kind = "broken"
           \/ /\ Len(v) = Len(w) + 2 /\ v[Len(w) + 2].kind = "close"
              /\ v[Len(w) + 1].kind = "final" /\ LastIs(v[Len(w) + 1].history, q)
           \/ /\ Len(v) = Len(w) + 2 /\ v[Len(w) + 2].kind = "close"
              /\ v[Len(w) + 1].kind = "error" /\ v[Len(w) + 1].history = k.sent
              /\ k.history = k.sent,
           NEW turns, NEW h \in Nat, NEW s \in Nat, Rest(g, w, turns, q, h, s)
    PROVE  Rest(k, v, turns, q, h, s)
  <1> DEFINE t == g.text
  <1>1. t \in Seq(Deltas) /\ Len(t) \in Nat /\ Len(w) \in Nat
    BY LenNat DEF Generator
  <1>2. /\ s <= Len(t) /\ Len(w) = h + (Len(t) - s)
        /\ \A i \in 1 .. Len(t) - s : w[h + i].kind = "delta" /\ w[h + i].text = t[s + i]
    BY DEF Rest, Delivers, Ends
  <1> HIDE DEF t
  <1>3. ASSUME NEW i \in 1 .. Len(t) - s
        PROVE  v[h + i].kind = "delta" /\ v[h + i].text = t[s + i]
    <2>1. h + i \in 1 .. Len(w)
      BY <1>1, <1>2
    <2> QED  BY <1>2, <2>1
  <1>4. k.text = t /\ h + (Len(t) - s) <= Len(v)
    BY <1>1, <1>2 DEF t
  <1>5. Delivers(k.text, v, h, s)
    BY <1>2, <1>3, <1>4 DEF Delivers
  <1>6. Ends(k, v, Len(w), turns, q)
    BY DEF Ends
  <1> QED  BY <1>2, <1>4, <1>5, <1>6 DEF Rest

-----------------------------------------------------------------------------
(* What the invariant says of a calm conversation.                         *)

LEMMA CalmFacts ==
    ASSUME CalmInv, calm
    PROVE  /\ LoadingFollows /\ OneAtATime /\ EntriesFollow /\ QueueIsTyped /\ WireFollows
           /\ ContextFollows /\ ~Throws
           /\ typist.queue # <<>> => \E q \in Questions : conn[q] = "open" /\ Typed(list, q)
           /\ \A q \in Questions : InProgress(q) =>
                 /\ \A p \in Questions : InProgress(p) => p = q
                 /\ list # <<>> /\ ctrl = q
                 /\ conn[q] # "open" => typist.queue = <<>>
           /\ ~AnyInProgress => typist.queue = <<>>
  <1>1. /\ LoadingFollows /\ OneAtATime /\ EntriesFollow /\ QueueIsTyped /\ WireFollows
        /\ ContextFollows
    BY DEF CalmInv
  <1>2. ~Throws
    BY <1>1 DEF QueueIsTyped, Throws, Typed
  <1>3. ASSUME typist.queue # <<>>
        PROVE  \E q \in Questions : conn[q] = "open" /\ Typed(list, q)
    BY <1>1, <1>3 DEF QueueIsTyped
  <1>4. ASSUME NEW q \in Questions, InProgress(q)
        PROVE  /\ \A p \in Questions : InProgress(p) => p = q
               /\ list # <<>> /\ ctrl = q
    BY <1>1, <1>4 DEF OneAtATime
  <1>5. ASSUME NEW q \in Questions, InProgress(q), typist.queue # <<>> PROVE conn[q] = "open"
    BY <1>3, <1>4, <1>5 DEF InProgress, Running
  <1>6. AnyInProgress \/ typist.queue = <<>>
    BY <1>3 DEF AnyInProgress, InProgress, Running
  <1> QED  BY <1>1, <1>2, <1>3, <1>4, <1>5, <1>6

Shown == Len(LastShown(list)) + Len(typist.queue)

LEMMA ShownNat ==
    ASSUME TypeOK, list # <<>>
    PROVE  /\ LastShown(list) \in Seq(Deltas) /\ Len(LastShown(list)) \in Nat
           /\ typist.queue \in Seq(Deltas) /\ Len(typist.queue) \in Nat
           /\ Shown \in Nat /\ Len(list) \in 1 .. Len(list) /\ Len(list) \in Nat
           /\ list[Len(list)] \in Entry
  <1>1. list \in Seq(Entry) /\ typist.queue \in Seq(Deltas) /\ typist \in Typewriter
    BY TypeParts DEF Typewriter
  <1>2. Len(list) \in 1 .. Len(list) /\ Len(list) \in Nat
    BY <1>1, EmptySeq
  <1>3. list[Len(list)] \in Entry
    BY <1>1, <1>2, LenNat
  <1>4. LastShown(list) \in Seq(Deltas)
    BY <1>3 DEF LastShown, Entry
  <1>5. Len(LastShown(list)) \in Nat /\ Len(typist.queue) \in Nat
    BY <1>1, <1>4, LenNat
  <1> QED  BY <1>1, <1>2, <1>3, <1>4, <1>5 DEF Shown

\* A first message tells how far the answer is.
LEMMA FirstMessage ==
    ASSUME TypeOK, CalmInv, calm, NEW q \in Questions, NEW kind, Arrives(q, kind)
    PROVE  /\ kind = "stream" => /\ conn[q] = "asked"
                                 /\ Rest(answer[q], wire[q], history, q, 1, 0)
           /\ kind \in {"json", "other"} =>
                 /\ conn[q] = "asked" /\ NoStream(answer[q])
                 /\ Len(wire[q]) = 2 /\ wire[q][2].kind = "close"
           /\ kind \in {"delta", "final", "error"} =>
                 /\ conn[q] = "open" /\ Typed(list, q)
                 /\ QueueFollows(LastShown(list), typist.queue, answer[q].text)
                 /\ Rest(answer[q], wire[q], history, q, 0, Shown)
           /\ kind = "close" =>
                 \/ conn[q] = "refused" /\ NoStream(answer[q])
                 \/ conn[q] = "open" /\ NoStream(answer[q]) /\ typist.queue = <<>>
                 \/ /\ conn[q] = "open" /\ Typed(list, q)
                    /\ QueueFollows(LastShown(list), typist.queue, answer[q].text)
                    /\ Rest(answer[q], wire[q], history, q, 0, Shown)
  <1>1. /\ InProgress(q) /\ Len(wire[q]) \in Nat \ {0} /\ wire[q][1].kind = kind
        /\ wire[q] \in Seq(Messages) /\ wire[q] # <<>>
        /\ answer[q] \in Generator
    BY ArrivesFacts, TypeParts
  <1>2. WireFollows
    BY CalmFacts
  <1>3. CASE conn[q] = "asked"
    <2>1. AskedWire(answer[q], wire[q], history, q)
      BY <1>2, <1>3 DEF WireFollows
    <2> QED  BY <1>1, <1>3, <2>1 DEF AskedWire
  <1>4. CASE conn[q] = "refused"
    BY <1>1, <1>2, <1>4 DEF WireFollows, ClosesOnly
  <1>5. CASE conn[q] = "open"
    <2>1. OpenWire(answer[q], wire[q], history, list, typist.queue, q)
      BY <1>2, <1>5 DEF WireFollows
    <2>2. CASE ClosesOnly(answer[q], wire[q]) /\ typist.queue = <<>>
      BY <1>1, <1>5, <2>2 DEF ClosesOnly
    <2>3. CASE /\ Typed(list, q)
               /\ QueueFollows(LastShown(list), typist.queue, answer[q].text)
               /\ Rest(answer[q], wire[q], history, q, 0, Shown)
      <3>1. Shown \in Nat
        BY <2>3, ShownNat DEF Typed
      <3>2. wire[q][1].kind \in {"delta", "broken", "close", "final", "error"}
        BY <1>1, <2>3, <3>1, RestFirst
      <3> QED  BY <1>1, <1>5, <2>3, <3>2
    <2> QED  BY <2>1, <2>2, <2>3 DEF OpenWire, Shown
  <1> QED  BY <1>1, <1>3, <1>4, <1>5 DEF InProgress, Running

\* While the answer of q goes on, it is the only one.
LEMMA OneMoves ==
    ASSUME TypeOK, CalmInv, calm, NEW q \in Questions, InProgress(q),
           conn' \in [Questions -> Running \cup {"none", "closed", "failed", "aborted"}],
           conn'[q] \in Running, \A p \in Questions \ {q} : conn'[p] = conn[p],
           ctrl' = ctrl, list' # <<>>
    PROVE  /\ OneAtATime'
           /\ loading' = (conn'[q] # "refused") => LoadingFollows'
           /\ /\ conn'[q] = "asked"   => AskedWire(answer'[q], wire'[q], history', q)
              /\ conn'[q] = "refused" => ClosesOnly(answer'[q], wire'[q])
              /\ conn'[q] = "open"    =>
                    OpenWire(answer'[q], wire'[q], history', list', typist'.queue, q)
              => WireFollows'
           /\ history' = history /\ (\A p \in Questions \ {q} : answer'[p] = answer[p])
              => AnswersLearned'
           /\ answer'[q].sent = <<>> \/ answer'[q].sent = history'
              \/ (Len(wire'[q]) = 1 /\ wire'[q][1].kind = "close")
              => (ContextFollows' <=> AnswersLearned')
  <1>1. OneAtATime /\ \A p \in Questions : InProgress(p) => p = q
    BY CalmFacts
  <1>2. \A p \in Questions \ {q} : conn'[p] \notin Running
    BY <1>1 DEF InProgress
  <1>3. OneAtATime'
    <2>1. ctrl = q /\ \A p \in Questions : conn[p] # "none" => p <= q
      BY <1>1 DEF OneAtATime
    <2>2. conn[q] # "none" /\ conn'[q] # "none"
      BY DEF InProgress, Running
    <2> QED  BY <1>2, <2>1, <2>2 DEF OneAtATime, InProgress
  <1>4. ASSUME loading' = (conn'[q] # "refused") PROVE LoadingFollows'
    BY <1>2, <1>4 DEF LoadingFollows, Running
  <1>5. ASSUME /\ conn'[q] = "asked"   => AskedWire(answer'[q], wire'[q], history', q)
               /\ conn'[q] = "refused" => ClosesOnly(answer'[q], wire'[q])
               /\ conn'[q] = "open"    =>
                     OpenWire(answer'[q], wire'[q], history', list', typist'.queue, q)
        PROVE  WireFollows'
    BY <1>2, <1>5 DEF WireFollows, Running
  <1>6. ASSUME history' = history, \A p \in Questions \ {q} : answer'[p] = answer[p]
        PROVE  AnswersLearned'
    <2>1. AnswersLearned
      BY CalmFacts DEF ContextFollows
    <2>2. conn'[q] # "closed"
      BY DEF Running
    <2> QED  BY <1>6, <2>1, <2>2 DEF AnswersLearned, Answered
  <1>7. ASSUME answer'[q].sent = <<>> \/ answer'[q].sent = history'
               \/ (Len(wire'[q]) = 1 /\ wire'[q][1].kind = "close")
        PROVE  ContextFollows' <=> AnswersLearned'
    BY <1>2, <1>7 DEF ContextFollows, InProgress
  <1> QED  BY <1>3, <1>4, <1>5, <1>6, <1>7

\* The entries stay as they are while answers only become longer.
LEMMA SameEntries ==
    ASSUME TypeOK, EntriesFollow, list' = list,
           \A p \in Questions : conn[p] \notin {"none", "asked", "refused"} =>
              /\ conn'[p] = conn[p]
              /\ \/ answer'[p].text = answer[p].text
                 \/ conn[p] # "closed" /\ Begins(answer[p].text, answer'[p].text)
    PROVE  EntriesFollow'
  <1> SUFFICES ASSUME NEW i \in 1 .. Len(list), list[i].ai
               PROVE  LET entry == list[i]
                          p     == entry.question IN
                      /\ conn'[p] \notin {"none", "asked", "refused"}
                      /\ conn'[p] = "open" => i = Len(list) /\ ~entry.tools
                      /\ Begins(entry.shown, answer'[p].text)
                      /\ conn'[p] = "closed" => entry.shown = answer'[p].text
    BY DEF EntriesFollow, EntryFollows
  <1> DEFINE p == list[i].question
  <1>1. list[i] \in Entry
    BY TypeParts, LenNat
  <1>2. p \in Questions /\ list[i].shown \in Seq(Deltas)
    BY <1>1 DEF Entry
  <1>3. /\ conn[p] \notin {"none", "asked", "refused"}
        /\ conn[p] = "open" => i = Len(list) /\ ~list[i].tools
        /\ Begins(list[i].shown, answer[p].text)
        /\ conn[p] = "closed" => list[i].shown = answer[p].text
    BY DEF EntriesFollow, EntryFollows
  <1> HIDE DEF p
  <1>4. Begins(list[i].shown, answer'[p].text)
    <2>1. CASE answer'[p].text = answer[p].text
      BY <1>3, <2>1
    <2>2. CASE Begins(answer[p].text, answer'[p].text)
      <3>1. answer[p].text \in Seq(Deltas)
        BY <1>2, TypeParts DEF Generator
      <3>2. Len(list[i].shown) \in Nat /\ Len(answer[p].text) \in Nat
        BY <1>2, <3>1, LenNat
      <3> QED  BY <1>3, <2>2, <3>2 DEF Begins
    <2> QED  BY <1>2, <1>3, <2>1, <2>2
  <1> QED  BY <1>2, <1>3, <1>4 DEF p

-----------------------------------------------------------------------------
(* Each step of a calm conversation.                                       *)

\* A generator that is not done has sent only the beginning of its answer.
LEMMA Generating ==
    ASSUME TypeOK, GeneratorsRecord, CalmInv, calm, NEW q \in Questions, InProgress(q),
           answer[q].phase # "done"
    PROVE  \/ /\ conn[q] = "asked" /\ answer[q].phase = "none" /\ wire[q] = <<>>
              /\ answer[q].text = <<>> /\ answer[q].history = answer[q].sent
           \/ /\ conn[q] = "asked" /\ answer[q].phase = "open"
              /\ Len(wire[q]) > 0 /\ wire[q][1].kind = "stream"
              /\ Rest(answer[q], wire[q], history, q, 1, 0)
           \/ /\ conn[q] = "open" /\ answer[q].phase = "open" /\ Typed(list, q)
              /\ QueueFollows(LastShown(list), typist.queue, answer[q].text)
              /\ Rest(answer[q], wire[q], history, q, 0, Shown)
  <1>1. WireFollows
    BY CalmFacts
  <1>2. CASE conn[q] = "asked"
    <2>1. AskedWire(answer[q], wire[q], history, q)
      BY <1>1, <1>2 DEF WireFollows
    <2>2. Rest(answer[q], wire[q], history, q, 1, 0) => answer[q].phase = "open"
      BY DEF Rest, Ends
    <2> QED  BY <1>2, <2>1, <2>2 DEF AskedWire, NoStream, GeneratorsRecord
  <1>3. CASE conn[q] = "open"
    <2>1. OpenWire(answer[q], wire[q], history, list, typist.queue, q)
      BY <1>1, <1>3 DEF WireFollows
    <2>2. Rest(answer[q], wire[q], history, q, 0, Shown) => answer[q].phase = "open"
      BY DEF Rest, Ends
    <2> QED  BY <1>3, <2>1, <2>2 DEF OpenWire, ClosesOnly, NoStream, Shown
  <1>4. conn[q] # "refused"
    BY <1>1 DEF WireFollows, ClosesOnly, NoStream
  <1> QED  BY <1>2, <1>3, <1>4 DEF InProgress, Running

\* What the server sends continues what it sent.
LEMMA ServeRest ==
    ASSUME ContextInv, TypeOK', NEW q \in Questions, Serve(q), answer[q].phase = "open",
           NEW h \in Nat, NEW s \in Nat, Rest(answer[q], wire[q], history, q, h, s)
    PROVE  Rest(answer'[q], wire'[q], history, q, h, s)
  <1> DEFINE g == answer[q]  k == answer'[q]  w == wire[q]  v == wire'[q]
  <1>1. /\ TypeOK /\ answer \in [Questions -> Generator]
        /\ g \in Generator /\ k \in Generator /\ w \in Seq(Messages) /\ v \in Seq(Messages)
    BY TypeParts DEF ContextInv
  <1>2. Len(w) \in Nat
    BY <1>1, LenNat
  <1>3. k.sent = g.sent
    BY <1>1, ServeEffect, ConversationAssumption
  <1>4. ASSUME NEW m, Put(q, <<m>>)
        PROVE  Len(v) = Len(w) + 1 /\ (\A i \in 1 .. Len(w) : v[i] = w[i]) /\ v[Len(w) + 1] = m
    <2>1. v = w \o <<m>>
      BY <1>1, <1>4, TypeParts DEF Put
    <2> QED  BY <1>1, <1>2, <2>1
  <1>5. ASSUME NEW m, NEW n, Put(q, <<m, n>>)
        PROVE  /\ Len(v) = Len(w) + 2 /\ \A i \in 1 .. Len(w) : v[i] = w[i]
               /\ v[Len(w) + 1] = m /\ v[Len(w) + 2] = n
    <2>1. v = w \o <<m, n>>
      BY <1>1, <1>5, TypeParts DEF Put
    <2> QED  BY <1>1, <1>2, <2>1
  <1>6. CASE /\ k.phase = "open"
             /\ \E delta \in Deltas :
                   /\ Put(q, <<[kind |-> "delta", text |-> delta]>>)
                   /\ k.text = Append(g.text, delta)
    <2>1. PICK delta \in Deltas : /\ Put(q, <<[kind |-> "delta", text |-> delta]>>)
                                  /\ k.text = Append(g.text, delta)
      BY <1>6
    <2>2. /\ Len(v) = Len(w) + 1 /\ \A i \in 1 .. Len(w) : v[i] = w[i]
          /\ v[Len(w) + 1].kind = "delta" /\ v[Len(w) + 1].text = delta
      BY <1>4, <2>1
    <2> HIDE DEF g, k, w, v
    <2>3. Rest(g, w, history, q, h, s) /\ g.phase = "open" /\ k.phase = "open"
      BY <1>6 DEF g, w, k
    <2>4. Rest(k, v, history, q, h, s)
      BY <1>1, <2>1, <2>2, <2>3, RestDelta
    <2> QED  BY <2>4 DEF k, v
  <1>7. ASSUME k.phase = "done", k.text = g.text, \A i \in 1 .. Len(w) : v[i] = w[i],
               \/ Len(v) = Len(w) + 1 /\ v[Len(w) + 1].kind = "broken"
               \/ /\ Len(v) = Len(w) + 2 /\ v[Len(w) + 2].kind = "close"
                  /\ v[Len(w) + 1].kind = "final" /\ LastIs(v[Len(w) + 1].history, q)
               \/ /\ Len(v) = Len(w) + 2 /\ v[Len(w) + 2].kind = "close"
                  /\ v[Len(w) + 1].kind = "error" /\ v[Len(w) + 1].history = k.sent
                  /\ k.history = k.sent
        PROVE  Rest(k, v, history, q, h, s)
    <2>1. Rest(g, w, history, q, h, s) /\ g.phase = "open"
      OBVIOUS
    <2> HIDE DEF g, k, w, v
    <2> QED  BY <1>1, <1>3, <1>7, <2>1, RestEnd
  <1>8. CASE /\ k.phase = "done" /\ k.text = g.text
             /\ \E sources \in BOOLEAN : Put(q, <<Final(q, sources), [kind |-> "close"]>>)
    <2>1. PICK sources \in BOOLEAN : Put(q, <<Final(q, sources), [kind |-> "close"]>>)
      BY <1>8
    <2>2. /\ Final(q, sources).kind = "final"
          /\ Final(q, sources).history = Recorded(g.history, q, g.text)
      BY DEF Final
    <2>3. g.history \in Seq(Turns) /\ g.text \in Seq(Deltas)
      BY <1>1 DEF Generator
    <2> DEFINE m == Final(q, sources)
    <2> HIDE DEF m
    <2>4. LastIs(m.history, q) /\ m.kind = "final"
      <3> DEFINE turns == g.history  text == g.text  r == Recorded(turns, q, text)
      <3>1. turns \in Seq(Turns) /\ text \in Seq(Deltas) /\ m.history = r /\ m.kind = "final"
        BY <2>2, <2>3 DEF m
      <3> HIDE DEF turns, text
      <3>2. r # <<>> /\ r[Len(r)].question = q
        BY <3>1, RecordedFacts
      <3> QED  BY <3>1, <3>2 DEF LastIs
    <2>5. /\ Len(v) = Len(w) + 2 /\ \A i \in 1 .. Len(w) : v[i] = w[i]
          /\ v[Len(w) + 1] = m /\ v[Len(w) + 2] = [kind |-> "close"]
      BY <1>5, <2>1 DEF m
    <2> HIDE DEF v, w
    <2>6. v[Len(w) + 2].kind = "close"
      BY <2>5
    <2>7. Rest(k, v, history, q, h, s)
      BY <1>7, <1>8, <2>4, <2>5, <2>6
    <2> QED  BY <2>7 DEF v
  <1>9. CASE /\ k.phase = "done" /\ g.text = <<>> /\ k.text = g.text /\ k.history = g.history
             /\ Put(q, <<[kind |-> "error", history |-> g.sent], [kind |-> "close"]>>)
    <2>1. /\ Len(v) = Len(w) + 2 /\ \A i \in 1 .. Len(w) : v[i] = w[i]
          /\ v[Len(w) + 1].kind = "error" /\ v[Len(w) + 1].history = g.sent
          /\ v[Len(w) + 2].kind = "close"
      BY <1>5, <1>9
    <2>2. g.history = g.sent
      BY <1>9 DEF ContextInv, GeneratorsRecord
    <2> QED  BY <1>3, <1>7, <1>9, <2>1, <2>2
  <1>10. CASE k.phase = "done" /\ k.text = g.text /\ Put(q, <<[kind |-> "broken"]>>)
    <2>1. /\ Len(v) = Len(w) + 1 /\ \A i \in 1 .. Len(w) : v[i] = w[i]
          /\ v[Len(w) + 1].kind = "broken"
      BY <1>4, <1>10
    <2> QED  BY <1>7, <1>10, <2>1
  <1>11. \/ /\ k.phase = "open"
            /\ \E delta \in Deltas :
                  /\ Put(q, <<[kind |-> "delta", text |-> delta]>>)
                  /\ k.text = Append(g.text, delta)
         \/ /\ k.phase = "done" /\ k.text = g.text
            /\ \E sources \in BOOLEAN : Put(q, <<Final(q, sources), [kind |-> "close"]>>)
         \/ /\ k.phase = "done" /\ g.text = <<>> /\ k.text = g.text /\ k.history = g.history
            /\ Put(q, <<[kind |-> "error", history |-> g.sent], [kind |-> "close"]>>)
         \/ k.phase = "done" /\ k.text = g.text /\ Put(q, <<[kind |-> "broken"]>>)
    BY <1>1, ServeEffect, ConversationAssumption
  <1> QED  BY <1>6, <1>8, <1>9, <1>10, <1>11

LEMMA CalmServe ==
    ASSUME ContextInv, TypeOK', CalmInv, NEW q \in Questions, Serve(q)
    PROVE  CalmInv'
  <1> SUFFICES ASSUME calm
               PROVE  /\ LoadingFollows' /\ OneAtATime' /\ EntriesFollow'
                      /\ QueueIsTyped' /\ WireFollows' /\ ContextFollows'
    <2>1. view' = view
      BY ServeEffect, ConversationAssumption DEF ContextInv
    <2> QED  BY <2>1 DEF CalmInv, view
  <1>1. /\ TypeOK /\ GeneratorsRecord /\ RequestsInOrder
        /\ list' = list /\ history' = history /\ loading' = loading /\ ctrl' = ctrl
        /\ typist' = typist /\ conn' = conn /\ InProgress(q) /\ answer[q].phase # "done"
        /\ \A p \in Questions \ {q} : answer'[p] = answer[p]
        /\ answer'[q].sent = answer[q].sent
    BY ServeEffect, ConversationAssumption DEF view, ContextInv
  <1>2. /\ answer[q] \in Generator /\ answer'[q] \in Generator
        /\ wire[q] \in Seq(Messages) /\ wire'[q] \in Seq(Messages)
        /\ answer[q].text \in Seq(Deltas)
        /\ conn \in [Questions -> Running \cup {"none", "closed", "failed", "aborted"}]
    BY <1>1, TypeParts DEF Generator
  <1>3. LoadingFollows /\ OneAtATime /\ EntriesFollow /\ QueueIsTyped /\ WireFollows /\ ContextFollows
    BY CalmFacts
  <1>4. answer'[q].text = answer[q].text
        \/ \E delta \in Deltas : answer'[q].text = Append(answer[q].text, delta)
    BY <1>1, ServeEffect, ConversationAssumption
  <1>5. Begins(answer[q].text, answer'[q].text)
    <2>1. Len(answer[q].text) \in Nat
      BY <1>2, LenNat
    <2>2. ASSUME NEW delta \in Deltas
          PROVE  Begins(answer[q].text, Append(answer[q].text, delta))
      <3>1. /\ Len(Append(answer[q].text, delta)) = Len(answer[q].text) + 1
            /\ \A i \in 1 .. Len(answer[q].text) : Append(answer[q].text, delta)[i] = answer[q].text[i]
        BY <1>2, AppendProperties
      <3> QED  BY <2>1, <3>1 DEF Begins
    <2>3. Begins(answer[q].text, answer[q].text)
      BY <2>1 DEF Begins
    <2> QED  BY <1>4, <2>2, <2>3
  <1>6. LoadingFollows' /\ OneAtATime' /\ QueueIsTyped'
    BY <1>1, <1>3 DEF LoadingFollows, OneAtATime, QueueIsTyped, InProgress, Typed
  <1>7. EntriesFollow'
    <2>1. conn[q] # "closed"
      BY <1>1 DEF InProgress, Running
    <2> QED  BY <1>1, <1>3, <1>5, <2>1, SameEntries
  <1>8. /\ conn'[q] = "asked" => AskedWire(answer'[q], wire'[q], history', q)
        /\ conn'[q] # "refused"
        /\ conn'[q] = "open"  => OpenWire(answer'[q], wire'[q], history', list', typist'.queue, q)
    <2>1. CASE /\ conn[q] = "asked" /\ answer[q].phase = "none" /\ wire[q] = <<>>
               /\ answer[q].text = <<>> /\ answer[q].history = answer[q].sent
      <3>1. \A m, n : <<>> \o <<m>> = <<m>> /\ <<>> \o <<m, n>> = <<m, n>>
        OBVIOUS
      <3>2. \A messages : Put(q, messages) => wire'[q] = <<>> \o messages
        BY <1>1, <2>1, TypeParts DEF Put
      <3>3. CASE /\ \E kind \in {"json", "other"} : Put(q, <<[kind |-> kind], [kind |-> "close"]>>)
                 /\ NoStream(answer'[q])
        <4>1. PICK kind \in {"json", "other"} : Put(q, <<[kind |-> kind], [kind |-> "close"]>>)
          BY <3>3
        <4>2. wire'[q] = <<[kind |-> kind], [kind |-> "close"]>>
          BY <3>1, <3>2, <4>1
        <4>3. Len(wire'[q]) = 2 /\ wire'[q][1].kind = kind /\ wire'[q][2].kind = "close"
          BY <4>2
        <4> QED  BY <1>1, <2>1, <3>3, <4>3 DEF AskedWire
      <3>4. CASE Put(q, <<[kind |-> "broken"]>>) /\ NoStream(answer'[q])
        <4>1. wire'[q] = <<[kind |-> "broken"]>>
          BY <3>1, <3>2, <3>4
        <4>2. Len(wire'[q]) = 1 /\ wire'[q][1].kind = "broken"
          BY <4>1
        <4> QED  BY <1>1, <2>1, <3>4, <4>2 DEF AskedWire
      <3>5. CASE /\ Put(q, <<[kind |-> "stream"]>>)
                 /\ answer'[q].phase = "open" /\ answer'[q].text = <<>>
        <4>1. wire'[q] = <<[kind |-> "stream"]>>
          BY <3>1, <3>2, <3>5
        <4>2. Len(wire'[q]) = 1 /\ wire'[q][1].kind = "stream" /\ Len(answer'[q].text) = 0
          BY <3>5, <4>1
        <4>3. Rest(answer'[q], wire'[q], history', q, 1, 0)
          BY <3>5, <4>2 DEF Rest, Delivers, Ends
        <4> QED  BY <1>1, <2>1, <4>2, <4>3 DEF AskedWire
      <3>6. \/ /\ \E kind \in {"json", "other"} : Put(q, <<[kind |-> kind], [kind |-> "close"]>>)
               /\ NoStream(answer'[q])
            \/ Put(q, <<[kind |-> "broken"]>>) /\ NoStream(answer'[q])
            \/ /\ Put(q, <<[kind |-> "stream"]>>)
               /\ answer'[q].phase = "open" /\ answer'[q].text = <<>>
        BY <1>1, <2>1, ServeEffect, ConversationAssumption DEF NoStream
      <3> QED  BY <3>3, <3>4, <3>5, <3>6
    <2>2. ASSUME answer[q].phase = "open"
          PROVE  \A i \in 1 .. Len(wire[q]) : wire'[q][i] = wire[q][i]
      <3>1. \E messages \in Seq(Messages) : Put(q, messages)
        BY <1>1, ServePut, ConversationAssumption
      <3> QED  BY <1>1, <3>1, PutFacts, TypeParts
    <2>3. CASE /\ conn[q] = "asked" /\ answer[q].phase = "open"
               /\ Len(wire[q]) > 0 /\ wire[q][1].kind = "stream"
               /\ Rest(answer[q], wire[q], history, q, 1, 0)
      <3>1. Rest(answer'[q], wire'[q], history, q, 1, 0)
        BY <2>3, ServeRest
      <3>2. 1 \in 1 .. Len(wire[q]) /\ 1 <= Len(wire'[q])
        <4>1. Len(wire[q]) \in Nat /\ Len(wire'[q]) \in Nat /\ Len(answer'[q].text) \in Nat
          BY <1>2, LenNat DEF Generator
        <4> QED  BY <2>3, <3>1, <4>1 DEF Rest, Delivers
      <3>3. wire'[q][1].kind = "stream" /\ Len(wire'[q]) > 0
        <4>1. Len(wire'[q]) \in Nat
          BY <1>2, LenNat
        <4> QED  BY <2>2, <2>3, <3>2, <4>1
      <3> QED  BY <1>1, <2>3, <3>1, <3>3 DEF AskedWire
    <2>4. CASE /\ conn[q] = "open" /\ answer[q].phase = "open" /\ Typed(list, q)
               /\ QueueFollows(LastShown(list), typist.queue, answer[q].text)
               /\ Rest(answer[q], wire[q], history, q, 0, Shown)
      <3>1. /\ Shown \in Nat /\ Len(LastShown(list)) \in Nat /\ Len(typist.queue) \in Nat
        BY <1>1, <2>4, ShownNat DEF Typed
      <3>2. Rest(answer'[q], wire'[q], history, q, 0, Shown)
        BY <2>4, <3>1, ServeRest
      <3>3. QueueFollows(LastShown(list), typist.queue, answer'[q].text)
        <4>1. Len(answer[q].text) \in Nat /\ Len(answer'[q].text) \in Nat
          BY <1>2, LenNat DEF Generator
        <4>2. ASSUME NEW i \in 1 .. Len(typist.queue)
              PROVE  Len(LastShown(list)) + i \in 1 .. Len(answer[q].text)
          BY <2>4, <3>1, <4>1 DEF QueueFollows
        <4> QED  BY <1>5, <2>4, <3>1, <4>1, <4>2, SMTT(20) DEF QueueFollows, Begins
      <3> QED  BY <1>1, <2>4, <3>2, <3>3 DEF OpenWire, Shown
    <2> QED  BY <1>1, <2>1, <2>3, <2>4, Generating
  <1>9. conn'[q] \in Running /\ list' # <<>>
    BY <1>1, <1>3 DEF InProgress, OneAtATime
  <1>10. WireFollows' /\ AnswersLearned'
    BY <1>1, <1>2, <1>8, <1>9, OneMoves
  <1>11. answer[q].sent = <<>> \/ answer[q].sent = history
    <2>1. ~(Len(wire[q]) = 1 /\ wire[q][1].kind = "close")
      <3>1. CASE wire[q] = <<>>
        BY <3>1
      <3>2. CASE Rest(answer[q], wire[q], history, q, 0, Shown) /\ list # <<>> /\ Len(wire[q]) = 1
        <4>1. Shown \in Nat /\ Len(wire[q]) > 0
          BY <1>1, <3>2, ShownNat
        <4> QED  BY <1>1, <1>2, <3>2, <4>1, RestFirst
      <3> QED  BY <1>1, <3>1, <3>2, Generating DEF Typed
    <2> QED  BY <1>1, <1>3, <2>1 DEF ContextFollows
  <1>12. ContextFollows'
    BY <1>1, <1>2, <1>9, <1>10, <1>11, OneMoves
  <1> QED  BY <1>6, <1>7, <1>10, <1>12

LEMMA CalmSend ==
    ASSUME ContextInv, TypeOK', CalmInv, NEW q \in Questions, Send(q)
    PROVE  CalmInv'
  <1>1. /\ conn[q] = "none" /\ \A p \in 1 .. q - 1 : conn[p] # "none"
        /\ list' = Append(list, Item(FALSE, q)) /\ list' \in Seq(Entry)
        /\ Len(list') = Len(list) + 1 /\ list'[Len(list) + 1] = Item(FALSE, q)
        /\ \A i \in 1 .. Len(list) : list'[i] = list[i]
        /\ history' = history \/ history' = <<>>
        /\ conn' = [conn EXCEPT ![q] = "asked"] /\ ctrl' = q /\ loading' = TRUE
        /\ calm' = (calm /\ ~AnyInProgress)
        /\ typist' = typist /\ wire' = wire
        /\ \A p \in Questions \ {q} : answer'[p] = answer[p]
        /\ answer'[q].phase = answer[q].phase
        /\ answer'[q].sent \in {<<>>, history'}
    BY SendFacts DEF ContextInv
  <1> SUFFICES ASSUME calm, ~AnyInProgress
               PROVE  /\ LoadingFollows' /\ OneAtATime' /\ EntriesFollow'
                      /\ QueueIsTyped' /\ WireFollows' /\ ContextFollows'
    BY <1>1 DEF CalmInv
  <1>2. /\ TypeOK /\ RequestsInOrder /\ GeneratorsRecord
        /\ conn \in [Questions -> Running \cup {"none", "closed", "failed", "aborted"}]
        /\ list \in Seq(Entry) /\ Len(list) \in Nat
        /\ q \in Nat /\ Questions \subseteq Nat
    BY TypeParts, LenNat, ConversationAssumption DEF ContextInv, Questions
  <1>3. /\ typist.queue = <<>> /\ EntriesFollow /\ ContextFollows
        /\ \A p \in Questions : conn[p] \notin Running
    BY CalmFacts DEF AnyInProgress, InProgress
  <1>4. conn'[q] = "asked" /\ \A p \in Questions \ {q} : conn'[p] = conn[p] /\ conn'[p] \notin Running
    BY <1>1, <1>2, <1>3
  <1>5. LoadingFollows'
    BY <1>1, <1>4 DEF LoadingFollows
  <1>6. OneAtATime'
    <2>1. ASSUME NEW p \in Questions, conn[p] # "none" PROVE p <= q
      <3>1. CASE q < p
        BY <1>1, <1>2, <2>1, <3>1 DEF RequestsInOrder
      <3> QED  BY <1>2, <3>1
    <2>2. list' # <<>>
      <3>1. Len(list') # 0
        BY <1>1, <1>2
      <3> QED  BY <3>1, EmptySeq
    <2>3. ASSUME NEW p \in Questions, conn'[p] \in Running PROVE p = q
      BY <1>4, <2>3
    <2>4. ASSUME NEW p \in Questions, conn'[p] # "none" PROVE p <= q
      BY <1>2, <1>4, <2>1, <2>4
    <2> QED  BY <1>1, <2>2, <2>3, <2>4 DEF OneAtATime, InProgress
  <1>7. EntriesFollow'
    <2> SUFFICES ASSUME NEW i \in 1 .. Len(list'), list'[i].ai
                 PROVE  LET entry == list'[i]
                            p     == entry.question IN
                        /\ conn'[p] \notin {"none", "asked", "refused"}
                        /\ conn'[p] = "open" => i = Len(list') /\ ~entry.tools
                        /\ Begins(entry.shown, answer'[p].text)
                        /\ conn'[p] = "closed" => entry.shown = answer'[p].text
      BY DEF EntriesFollow, EntryFollows
    <2>1. i # Len(list) + 1
      BY <1>1 DEF Item
    <2>2. i \in 1 .. Len(list) /\ list'[i] = list[i]
      BY <1>1, <1>2, <2>1
    <2> DEFINE p == list[i].question
    <2>3. p \in Questions
      <3>1. list[i] \in Entry
        BY <1>2, <2>2, LenNat
      <3> QED  BY <3>1 DEF Entry
    <2>4. /\ conn[p] \notin {"none", "asked", "refused"}
          /\ Begins(list[i].shown, answer[p].text)
          /\ conn[p] = "closed" => list[i].shown = answer[p].text
      BY <1>3, <2>2 DEF EntriesFollow, EntryFollows
    <2> HIDE DEF p
    <2>5. p # q /\ conn'[p] = conn[p] /\ answer'[p] = answer[p] /\ conn'[p] # "open"
      BY <1>1, <1>4, <2>3, <2>4 DEF Running
    <2> QED  BY <2>2, <2>4, <2>5 DEF p
  <1>8. QueueIsTyped'
    BY <1>1, <1>3 DEF QueueIsTyped
  <1>9. WireFollows'
    <2>1. answer[q].phase = "none" /\ wire[q] = <<>>
      BY <1>1, <1>2 DEF RequestsInOrder, GeneratorsRecord, InProgress, Running
    <2>2. AskedWire(answer'[q], wire'[q], history', q)
      BY <1>1, <2>1 DEF AskedWire
    <2> QED  BY <1>4, <2>2 DEF WireFollows, Running
  <1>10. ContextFollows'
    <2>1. ASSUME history' # <<>>, NEW p \in Questions, conn'[p] = "closed",
                 answer'[p].history # answer'[p].sent
          PROVE  p <= history'[Len(history')].question
      <3>1. p # q /\ history' = history
        BY <1>1, <1>4, <2>1
      <3>2. conn[p] = "closed" /\ answer[p].history # answer[p].sent
        BY <1>1, <1>4, <2>1, <3>1
      <3> QED  BY <1>3, <2>1, <3>1, <3>2 DEF ContextFollows, AnswersLearned, Answered
    <2>2. AnswersLearned'
      BY <2>1 DEF AnswersLearned, Answered
    <2> QED  BY <1>1, <1>4, <2>2 DEF ContextFollows, InProgress
  <1> QED  BY <1>5, <1>6, <1>7, <1>8, <1>9, <1>10

\* What is typed when the answer of q is begins its text.
LEMMA TypedBegins ==
    ASSUME TypeOK, NEW q \in Questions, Typed(list, q),
           Begins(LastShown(list), answer[q].text),
           QueueFollows(LastShown(list), typist.queue, answer[q].text),
           NEW typed \in Seq(Deltas), NEW m \in 0 .. Len(typist.queue), Len(typed) = m,
           \A i \in 1 .. m : typed[i] = typist.queue[i]
    PROVE  /\ Len(LastShown(list) \o typed) = Len(LastShown(list)) + m
           /\ Begins(LastShown(list) \o typed, answer[q].text)
           /\ m = Len(typist.queue) /\ Shown = Len(answer[q].text)
              => LastShown(list) \o typed = answer[q].text
  <1> DEFINE s == LastShown(list)  t == answer[q].text  queue == typist.queue
             all == s \o typed
  <1>1. /\ s \in Seq(Deltas) /\ Len(s) \in Nat /\ queue \in Seq(Deltas) /\ Len(queue) \in Nat
        /\ Shown = Len(s) + Len(queue)
    BY ShownNat DEF Typed, Shown
  <1>2. t \in Seq(Deltas) /\ Len(t) \in Nat
    <2>1. answer[q] \in Generator
      BY TypeParts
    <2>2. t \in Seq(Deltas)
      BY <2>1 DEF Generator
    <2> QED  BY <2>2, LenNat
  <1>3. /\ Len(s) + Len(queue) <= Len(t) /\ \A i \in 1 .. Len(queue) : queue[i] = t[Len(s) + i]
        /\ \A i \in 1 .. Len(s) : s[i] = t[i]
    BY DEF QueueFollows, Begins
  <1>4. m \in 0 .. Len(queue) /\ \A i \in 1 .. m : typed[i] = queue[i]
    OBVIOUS
  <1> HIDE DEF s, t, queue
  <1>5. /\ all \in Seq(Deltas) /\ Len(all) = Len(s) + m
        /\ \A i \in 1 .. Len(s) + m : all[i] = IF i <= Len(s) THEN s[i] ELSE typed[i - Len(s)]
    BY <1>1, ConcatProperties
  <1> HIDE DEF all
  <1>6. ASSUME NEW i \in 1 .. Len(s) + m PROVE all[i] = t[i]
    <2>1. CASE i <= Len(s)
      <3>1. i \in 1 .. Len(s) /\ i \in 1 .. Len(s) + m
        BY <1>1, <2>1
      <3>2. all[i] = s[i] /\ s[i] = t[i]
        BY <1>3, <1>5, <2>1, <3>1
      <3> QED  BY <3>2
    <2>2. CASE ~(i <= Len(s))
      <3>1. i - Len(s) \in 1 .. m /\ i - Len(s) \in 1 .. Len(queue) /\ Len(s) + (i - Len(s)) = i
        BY <1>1, <1>4, <2>2
      <3> QED  BY <1>3, <1>4, <1>5, <2>2, <3>1
    <2> QED  BY <2>1, <2>2
  <1>7. Len(all) <= Len(t)
    BY <1>1, <1>2, <1>3, <1>4, <1>5
  <1>8. m = Len(queue) /\ Shown = Len(t) => all = t
    BY <1>1, <1>2, <1>5, <1>6, SeqEqual
  <1> QED  BY <1>5, <1>6, <1>7, <1>8 DEF Begins, all, s, t, queue

\* What is typed goes to the answer that goes on, if any, and keeps every
\* entry the beginning of its answer.
LEMMA TypedEntries ==
    ASSUME TypeOK, CalmInv, calm, list' \in Seq(Entry), Len(list') = Len(list),
           NEW typed \in Seq(Deltas), NEW m \in 0 .. Len(typist.queue), Len(typed) = m,
           \A i \in 1 .. m : typed[i] = typist.queue[i],
           \A i \in 1 .. Len(list) :
              /\ list'[i].ai = list[i].ai /\ list'[i].question = list[i].question
              /\ i # Len(list) => list'[i] = list[i]
              /\ i = Len(list) => list'[i].shown = list[i].shown \o typed
    PROVE  \A i \in 1 .. Len(list) :
              LET q == list[i].question IN
              /\ list'[i].shown # list[i].shown =>
                    i = Len(list) /\ list[i].ai /\ conn[q] = "open"
              /\ list[i].ai => /\ Begins(list'[i].shown, answer[q].text)
                               /\ conn[q] = "closed" => list'[i].shown = answer[q].text
  <1> TAKE i \in 1 .. Len(list)
  <1> DEFINE q == list[i].question
  <1>1. list[i] \in Entry /\ list[i].shown \in Seq(Deltas) /\ q \in Questions
    <2>1. list[i] \in Entry
      BY TypeParts, LenNat
    <2> QED  BY <2>1 DEF Entry
  <1>2. list[i].ai => /\ Begins(list[i].shown, answer[q].text)
                      /\ conn[q] = "closed" => list[i].shown = answer[q].text
    BY CalmFacts DEF EntriesFollow, EntryFollows
  <1>3. CASE list'[i].shown = list[i].shown
    BY <1>2, <1>3
  <1>4. CASE list'[i].shown # list[i].shown
    <2>1. i = Len(list) /\ list'[i].shown = list[i].shown \o typed
      BY <1>4
    <2>2. typed # <<>>
      BY <1>1, <1>4, <2>1, ConcatEmptySeq
    <2>3. typist.queue # <<>>
      BY <2>2, LenNat
    <2>4. PICK p \in Questions : conn[p] = "open" /\ Typed(list, p)
      BY <2>3, CalmFacts
    <2>5. p = q /\ list[i].ai
      BY <2>1, <2>4 DEF Typed
    <2>6. QueueFollows(LastShown(list), typist.queue, answer[p].text)
      BY <2>3, <2>4, CalmFacts DEF WireFollows, OpenWire
    <2>7. LastShown(list) = list[i].shown
      BY <2>1 DEF LastShown
    <2> HIDE DEF q
    <2>8. Begins(list'[i].shown, answer[q].text)
      <3>1. Typed(list, q) /\ Begins(LastShown(list), answer[q].text)
            /\ QueueFollows(LastShown(list), typist.queue, answer[q].text)
        BY <1>2, <2>4, <2>5, <2>6, <2>7
      <3>2. Begins(LastShown(list) \o typed, answer[q].text)
        BY <1>1, <3>1, TypedBegins
      <3> QED  BY <2>1, <2>7, <3>2
    <2> QED  BY <2>1, <2>4, <2>5, <2>8 DEF q
  <1> QED  BY <1>3, <1>4

LEMMA CalmTick ==
    ASSUME ContextInv, CalmInv, NEW tracked \in BOOLEAN, Tick(tracked)
    PROVE  CalmInv'
  <1>1. /\ TypeOK /\ list \in Seq(Entry) /\ typist \in Typewriter /\ typist.queue \in Seq(Deltas)
        /\ list' \in Seq(Entry)
        /\ UNCHANGED <<history, control, loading, ctrl, calm, conn, wire, answer>>
    BY TypeParts, TickFacts DEF ContextInv, Typewriter
  <1> SUFFICES ASSUME calm
               PROVE  /\ LoadingFollows' /\ OneAtATime' /\ EntriesFollow'
                      /\ QueueIsTyped' /\ WireFollows' /\ ContextFollows'
    BY <1>1 DEF CalmInv
  <1>2. /\ ~Throws /\ LoadingFollows /\ OneAtATime /\ EntriesFollow /\ QueueIsTyped /\ WireFollows
        /\ ContextFollows
    BY CalmFacts
  <1>3. PICK n \in {1, 2} : list' = Type(list, FirstTyped(n)) /\ typist'.queue = FromThen(n)
    BY <1>1, <1>2, TickFacts
  <1> DEFINE typed == FirstTyped(n)  rest == FromThen(n)
  <1>4. PICK m \in 0 .. Len(typist.queue) :
           /\ typed \in Seq(Deltas) /\ Len(typed) = m
           /\ \A i \in 1 .. m : typed[i] = typist.queue[i]
           /\ rest \in Seq(Deltas) /\ Len(rest) = Len(typist.queue) - m
           /\ \A i \in 1 .. Len(typist.queue) - m : rest[i] = typist.queue[m + i]
    BY <1>1, QueueSplit
  <1> HIDE DEF typed, rest
  <1>5. Len(typist.queue) \in Nat /\ Len(list) \in Nat
        /\ (typist.queue = <<>> => typed = <<>> /\ rest = <<>>)
    <2>1. Len(typist.queue) \in Nat /\ Len(list) \in Nat
      BY <1>1, LenNat
    <2>2. typist.queue = <<>> => Len(typed) = 0 /\ Len(rest) = 0
      BY <1>4
    <2> QED  BY <1>4, <2>1, <2>2, EmptySeq
  <1>6. list # <<>> \/ typed = <<>>
    BY <1>2, <1>5 DEF Throws
  <1>7. /\ Len(list') = Len(list)
        /\ \A i \in 1 .. Len(list) :
              /\ i # Len(list) => list'[i] = list[i]
              /\ list'[i].ai = list[i].ai /\ list'[i].question = list[i].question
              /\ list'[i].tools = list[i].tools
              /\ i = Len(list) => list'[i].shown = list[i].shown \o typed
    <2>1. list' = Type(list, typed)
      BY <1>3 DEF typed
    <2> QED  BY <1>1, <1>4, <1>6, <2>1, TypeFacts, ZenonT(60)
  <1>8. \A q : Typed(list, q) => Typed(list', q)
    <2> SUFFICES ASSUME NEW q, Typed(list, q) PROVE Typed(list', q)
      OBVIOUS
    <2>1. Len(list) \in 1 .. Len(list) /\ Len(list) # 0
      BY <1>1, ShownNat DEF Typed
    <2>2. list' # <<>>
      BY <1>1, <1>7, <2>1, LenNat
    <2> QED  BY <1>7, <2>1, <2>2 DEF Typed
  <1>9. LoadingFollows' /\ ContextFollows'
    BY <1>1, <1>2 DEF LoadingFollows, ContextFollows, AnswersLearned, Answered, InProgress
  <1>10. OneAtATime'
    <2>1. list # <<>> => list' # <<>>
      BY <1>1, <1>7, LenNat
    <2> QED  BY <1>1, <1>2, <2>1 DEF OneAtATime, InProgress
  <1>11. EntriesFollow'
    <2>1. \A i \in 1 .. Len(list) :
              LET q == list[i].question IN
              list[i].ai => /\ Begins(list'[i].shown, answer[q].text)
                            /\ conn[q] = "closed" => list'[i].shown = answer[q].text
      BY <1>1, <1>4, <1>7, TypedEntries, ZenonT(60)
    <2> QED  BY <1>1, <1>2, <1>7, <2>1 DEF EntriesFollow, EntryFollows
  <1>12. QueueIsTyped'
    <2>1. typist'.queue = rest
      BY <1>3 DEF rest
    <2> QED  BY <1>1, <1>2, <1>5, <1>8, <2>1 DEF QueueIsTyped
  <1>13. WireFollows'
    <2>1. ASSUME NEW q \in Questions, OpenWire(answer[q], wire[q], history, list, typist.queue, q)
          PROVE  OpenWire(answer[q], wire[q], history, list', rest, q)
      <3>1. CASE ClosesOnly(answer[q], wire[q]) /\ typist.queue = <<>>
        BY <1>5, <3>1 DEF OpenWire
      <3>2. CASE /\ Typed(list, q) /\ QueueFollows(LastShown(list), typist.queue, answer[q].text)
                 /\ Rest(answer[q], wire[q], history, q, 0, Len(LastShown(list)) + Len(typist.queue))
        <4> DEFINE s == LastShown(list)  t == LastShown(list')
        <4>1. s \in Seq(Deltas) /\ Len(s) \in Nat /\ Len(list) \in 1 .. Len(list)
          BY <1>1, <3>2, ShownNat DEF Typed
        <4>2. t = s \o typed
          BY <1>7, <4>1 DEF LastShown
        <4>3. /\ QueueFollows(s, typist.queue, answer[q].text)
              /\ Rest(answer[q], wire[q], history, q, 0, Len(s) + Len(typist.queue))
          BY <3>2
        <4> HIDE DEF s, t
        <4>4. Len(t) = Len(s) + m
          BY <1>4, <4>1, <4>2, ConcatProperties
        <4>5. Len(t) + Len(rest) = Len(s) + Len(typist.queue)
          <5> DEFINE a == Len(s)  b == Len(t)  c == Len(typist.queue)  d == Len(rest)
          <5>1. a \in Nat /\ c \in Nat /\ m \in Nat /\ d = c - m /\ b = a + m
            BY <1>4, <1>5, <4>1, <4>4
          <5> HIDE DEF a, b, c, d
          <5>2. b + d = a + c
            BY <5>1
          <5> QED  BY <5>2 DEF a, b, c, d
        <4>6. ASSUME NEW i \in 1 .. Len(rest) PROVE rest[i] = answer[q].text[Len(t) + i]
          <5>1. /\ i \in 1 .. Len(typist.queue) - m /\ m + i \in 1 .. Len(typist.queue)
                /\ Len(s) + (m + i) = Len(t) + i
            BY <1>4, <1>5, <4>1, <4>4
          <5>2. typist.queue[m + i] = answer[q].text[Len(s) + (m + i)]
            BY <4>3, <5>1 DEF QueueFollows
          <5> QED  BY <1>4, <5>1, <5>2
        <4>7. QueueFollows(t, rest, answer[q].text)
          BY <4>3, <4>5, <4>6 DEF QueueFollows
        <4> QED  BY <1>8, <3>2, <4>3, <4>5, <4>7 DEF OpenWire, t
      <3> QED  BY <2>1, <3>1, <3>2 DEF OpenWire
    <2>2. typist'.queue = rest
      BY <1>3 DEF rest
    <2> QED  BY <1>1, <1>2, <2>1, <2>2 DEF WireFollows
  <1> QED  BY <1>9, <1>10, <1>11, <1>12, <1>13

\* The answer, if any, is over: nothing is in progress and nothing in the queue.
LEMMA CalmOver ==
    ASSUME ContextInv, TypeOK', CalmInv, calm, answer' = answer, loading' = FALSE,
           typist'.queue = <<>>, \A p \in Questions : conn'[p] \notin Running,
           \A p \in Questions : conn'[p] = "none" => conn[p] = "none",
           EntriesFollow', AnswersLearned'
    PROVE  CalmInv'
  <1>1. LoadingFollows'
    BY DEF LoadingFollows, Running
  <1>2. OneAtATime' /\ WireFollows'
    BY DEF OneAtATime, WireFollows, InProgress, Running
  <1>3. QueueIsTyped' /\ ContextFollows'
    BY DEF QueueIsTyped, ContextFollows, InProgress
  <1> QED  BY <1>1, <1>2, <1>3 DEF CalmInv

\* Requests end, and the queue is shown: nothing is shown of what is not its
\* own, and all of it where the server closed.
LEMMA DoneEntries ==
    ASSUME TypeOK, CalmInv, calm, Done, answer' = answer,
           \A p \in Questions : conn'[p] \notin Running /\ (conn[p] # "none" => conn'[p] # "none"),
           \A p \in Questions : conn'[p] = "closed" =>
              \/ conn[p] = "closed"
              \/ conn[p] = "refused"
              \/ conn[p] = "open" /\ NoStream(answer[p]) /\ typist.queue = <<>>
              \/ /\ conn[p] = "open" /\ Typed(list, p) /\ Shown = Len(answer[p].text)
                 /\ QueueFollows(LastShown(list), typist.queue, answer[p].text)
    PROVE  typist'.queue = <<>> /\ EntriesFollow'
  <1>1. /\ list \in Seq(Entry) /\ typist \in Typewriter /\ typist.queue \in Seq(Deltas)
        /\ ~Throws /\ EntriesFollow /\ Len(typist.queue) \in Nat
    BY TypeParts, CalmFacts, LenNat DEF Typewriter
  <1>2. /\ list' \in Seq(Entry) /\ Len(list') = Len(list) /\ typist'.queue = <<>>
        /\ \A i \in 1 .. Len(list) :
              /\ i # Len(list) => list'[i] = list[i]
              /\ list'[i].ai = list[i].ai /\ list'[i].question = list[i].question
              /\ i = Len(list) => list'[i].shown = list[i].shown \o typist.queue
    BY <1>1, DoneFacts
  <1>3. \A i \in 1 .. Len(list) :
              LET q == list[i].question IN
              list[i].ai => /\ Begins(list'[i].shown, answer[q].text)
                            /\ conn[q] = "closed" => list'[i].shown = answer[q].text
    <2>1. Len(typist.queue) \in 0 .. Len(typist.queue)
      BY <1>1
    <2> QED  BY <1>1, <1>2, <2>1, TypedEntries
  <1>4. ASSUME NEW i \in 1 .. Len(list), list[i].ai, conn'[list[i].question] = "closed"
        PROVE  list'[i].shown = answer[list[i].question].text
    <2> DEFINE q == list[i].question
    <2>1. list[i] \in Entry
      BY <1>1, LenNat
    <2>2. q \in Questions /\ list[i].shown \in Seq(Deltas) /\ list'[i].shown \in Seq(Deltas)
      <3>1. list'[i] \in Entry
        BY <1>2, LenNat
      <3> QED  BY <2>1, <3>1 DEF Entry
    <2>3. conn[q] # "refused" /\ (conn[q] = "open" => i = Len(list))
      BY <1>1, <1>4 DEF EntriesFollow, EntryFollows
    <2>4. CASE conn[q] = "closed"
      BY <1>3, <1>4, <2>4
    <2>5. CASE conn[q] = "open" /\ NoStream(answer[q])
      <3>1. Begins(list'[i].shown, <<>>)
        BY <1>3, <1>4, <2>5 DEF NoStream
      <3>2. Len(list'[i].shown) = 0
        BY <2>2, <3>1, LenNat DEF Begins
      <3> QED  BY <2>2, <2>5, <3>2, LenNat DEF NoStream
    <2>6. CASE /\ conn[q] = "open" /\ Typed(list, q) /\ Shown = Len(answer[q].text)
               /\ QueueFollows(LastShown(list), typist.queue, answer[q].text)
      <3>1. /\ i = Len(list) /\ LastShown(list) = list[i].shown
            /\ list'[i].shown = LastShown(list) \o typist.queue
        BY <1>2, <2>3, <2>6 DEF LastShown
      <3>2. Begins(LastShown(list), answer[q].text)
        BY <1>1, <1>4, <3>1 DEF EntriesFollow, EntryFollows
      <3>3. Len(typist.queue) \in 0 .. Len(typist.queue)
        BY <1>1
      <3> HIDE DEF q
      <3>4. LastShown(list) \o typist.queue = answer[q].text
        BY <1>1, <2>2, <2>6, <3>2, <3>3, TypedBegins
      <3> QED  BY <3>1, <3>4 DEF q
    <2> QED  BY <1>4, <2>2, <2>3, <2>4, <2>5, <2>6
  <1>5. EntriesFollow'
    <2> SUFFICES ASSUME NEW i \in 1 .. Len(list'), list'[i].ai
                 PROVE  LET p == list'[i].question IN
                        /\ conn'[p] \notin {"none", "asked", "refused", "open"}
                        /\ Begins(list'[i].shown, answer'[p].text)
                        /\ conn'[p] = "closed" => list'[i].shown = answer'[p].text
      BY DEF EntriesFollow, EntryFollows
    <2>1. /\ i \in 1 .. Len(list) /\ list[i].ai /\ list'[i].question = list[i].question
      BY <1>2
    <2>2. list[i].question \in Questions
      <3>1. list[i] \in Entry
        BY <1>1, <2>1, LenNat
      <3> QED  BY <3>1 DEF Entry
    <2>3. conn[list[i].question] # "none"
      BY <1>1, <2>1 DEF EntriesFollow, EntryFollows
    <2> QED  BY <1>3, <1>4, <2>1, <2>2, <2>3 DEF Running
  <1> QED  BY <1>2, <1>5

LEMMA CalmStop ==
    ASSUME ContextInv, TypeOK', CalmInv, StopChat
    PROVE  CalmInv'
  <1>1. calm' = calm /\ TypeOK
    BY DEF StopChat, ContextInv
  <1> SUFFICES ASSUME calm PROVE CalmInv'
    BY <1>1 DEF CalmInv
  <1>2. /\ ~Throws /\ LoadingFollows /\ OneAtATime /\ AnswersLearned
        /\ conn \in [Questions -> Running \cup {"none", "closed", "failed", "aborted"}]
    BY <1>1, CalmFacts, TypeParts DEF ContextFollows
  <1>3. /\ loading /\ Done /\ loading' = Throws /\ history' = history /\ answer' = answer
        /\ Ended(ctrl, IF InProgress(ctrl) THEN "aborted" ELSE conn[ctrl], FALSE)
    BY DEF StopChat
  <1>4. PICK q \in Questions : InProgress(q) /\ q = ctrl
    BY <1>2, <1>3 DEF LoadingFollows, OneAtATime, InProgress, Running
  <1>5. \A p \in Questions : conn'[p] = IF p = q THEN "aborted" ELSE conn[p]
    BY <1>3, <1>4 DEF Ended
  <1>6. \A p \in Questions \ {q} : conn[p] \notin Running
    BY <1>2, <1>4 DEF OneAtATime, InProgress
  <1>7. \A p \in Questions : /\ conn'[p] \notin Running
                             /\ conn[p] # "none" => conn'[p] # "none"
                             /\ conn'[p] = "none" => conn[p] = "none"
                             /\ conn'[p] = "closed" => conn[p] = "closed"
    BY <1>4, <1>5, <1>6 DEF InProgress, Running
  <1>8. typist'.queue = <<>> /\ EntriesFollow'
    BY <1>1, <1>3, <1>7, DoneEntries
  <1>9. AnswersLearned'
    BY <1>2, <1>3, <1>7 DEF AnswersLearned, Answered
  <1>10. loading' = FALSE
    BY <1>2, <1>3
  <1> QED  BY <1>3, <1>7, <1>8, <1>9, <1>10, CalmOver

LEMMA CalmClose ==
    ASSUME ContextInv, TypeOK', CalmInv, NEW q \in Questions,
           OnFinalThrows(q) \/ OnClose(q) \/ OnBroken(q)
    PROVE  CalmInv'
  <1>1. calm' = calm /\ TypeOK
    BY DEF OnFinalThrows, OnClose, OnBroken, Close, ContextInv
  <1> SUFFICES ASSUME calm PROVE CalmInv'
    BY <1>1 DEF CalmInv
  <1>2. /\ ~Throws /\ OneAtATime /\ AnswersLearned
        /\ conn \in [Questions -> Running \cup {"none", "closed", "failed", "aborted"}]
    BY <1>1, CalmFacts, TypeParts DEF ContextFollows
  <1>3. InProgress(q) /\ list # <<>> /\ ctrl = q
    BY <1>1, CalmFacts DEF OnFinalThrows, OnClose, OnBroken, Arrives
  <1>4. ~OnFinalThrows(q)
    BY <1>3 DEF OnFinalThrows
  <1>5. PICK how \in {"closed", "failed"} :
           Close(q, how) /\ (how = "closed" => Arrives(q, "close"))
    BY <1>4 DEF OnClose, OnBroken
  <1>6. /\ Done /\ loading' = (loading /\ Throws) /\ history' = history /\ answer' = answer
        /\ Ended(q, how, ~Throws)
    BY <1>5 DEF Close
  <1>7. \A p \in Questions : conn'[p] = IF p = q THEN how ELSE conn[p]
    BY <1>3, <1>6 DEF Ended
  <1>8. \A p \in Questions \ {q} : conn[p] \notin Running
    BY <1>2, <1>3 DEF OneAtATime, InProgress
  <1>9. how = "closed" => \/ conn[q] = "refused" /\ NoStream(answer[q])
                          \/ conn[q] = "open" /\ NoStream(answer[q]) /\ typist.queue = <<>>
                          \/ /\ conn[q] = "open" /\ Typed(list, q)
                             /\ Shown = Len(answer[q].text)
                             /\ QueueFollows(LastShown(list), typist.queue, answer[q].text)
                             /\ Learned(answer[q], history, q)
    <2> SUFFICES ASSUME how = "closed", Rest(answer[q], wire[q], history, q, 0, Shown)
                 PROVE  Shown = Len(answer[q].text) /\ Learned(answer[q], history, q)
      BY <1>1, <1>5, FirstMessage
    <2>1. /\ Len(wire[q]) > 0 /\ wire[q][1].kind = "close"
          /\ answer[q] \in Generator /\ wire[q] \in Seq(Messages)
      BY <1>1, <1>5, ArrivesFacts, TypeParts
    <2>2. Shown \in Nat
      BY <1>1, <1>3, ShownNat
    <2> QED  BY <2>1, <2>2, RestFirst
  <1>10. \A p \in Questions : /\ conn'[p] \notin Running
                              /\ conn[p] # "none" => conn'[p] # "none"
                              /\ conn'[p] = "none" => conn[p] = "none"
    BY <1>3, <1>7, <1>8 DEF InProgress, Running
  <1>11. typist'.queue = <<>> /\ EntriesFollow'
    <2>1. \A p \in Questions : conn'[p] = "closed" =>
              \/ conn[p] = "closed"
              \/ conn[p] = "refused"
              \/ conn[p] = "open" /\ NoStream(answer[p]) /\ typist.queue = <<>>
              \/ /\ conn[p] = "open" /\ Typed(list, p) /\ Shown = Len(answer[p].text)
                 /\ QueueFollows(LastShown(list), typist.queue, answer[p].text)
      BY <1>7, <1>9
    <2> QED  BY <1>1, <1>6, <1>10, <2>1, DoneEntries
  <1>12. AnswersLearned'
    <2> SUFFICES ASSUME history # <<>>, NEW p \in Questions, conn'[p] = "closed",
                        answer[p].history # answer[p].sent
                 PROVE  p <= history[Len(history)].question
      BY <1>6 DEF AnswersLearned, Answered
    <2>1. CASE p # q
      BY <1>2, <1>7, <2>1 DEF AnswersLearned, Answered
    <2>2. CASE p = q
      <3>1. history[Len(history)].question = q
        BY <1>7, <1>9, <2>2 DEF NoStream, Learned, LastIs
      <3>2. q \in Nat
        BY ConversationAssumption DEF Questions
      <3> QED  BY <2>2, <3>1, <3>2
    <2> QED  BY <2>1, <2>2
  <1> QED  BY <1>1, <1>2, <1>6, <1>10, <1>11, <1>12, CalmOver

LEMMA CalmOthers ==
    ASSUME ContextInv, TypeOK', CalmInv, ClearChat \/ ControlChat \/ Reload \/ UNCHANGED vars
    PROVE  CalmInv'
  <1>1. CASE ControlChat \/ UNCHANGED vars
    <2>1. UNCHANGED <<list, history, loading, ctrl, typist, calm, conn, wire, answer>>
      BY <1>1 DEF ControlChat, vars, view
    <2> QED  BY <2>1 DEF CalmInv, LoadingFollows, OneAtATime, EntriesFollow, EntryFollows,
                         QueueIsTyped, WireFollows, ContextFollows, AnswersLearned, Answered,
                         InProgress
  <1>2. CASE ClearChat
    <2>1. /\ list' = <<>> /\ history' = <<>> /\ calm' = (calm /\ ~AnyInProgress)
          /\ UNCHANGED <<loading, typist, conn, wire, answer>>
      BY <1>2 DEF ClearChat
    <2> SUFFICES ASSUME calm, ~AnyInProgress PROVE CalmInv'
      BY <2>1 DEF CalmInv
    <2>2. /\ typist.queue = <<>> /\ LoadingFollows
          /\ \A p \in Questions : conn[p] \notin Running
      BY CalmFacts DEF AnyInProgress, InProgress
    <2>3. loading' = FALSE
      BY <2>1, <2>2 DEF LoadingFollows, Running
    <2>4. EntriesFollow' /\ AnswersLearned'
      BY <2>1 DEF EntriesFollow, AnswersLearned
    <2> QED  BY <2>1, <2>2, <2>3, <2>4, CalmOver
  <1>3. CASE Reload
    <2>1. /\ \A p \in Questions : conn'[p] = IF InProgress(p) THEN "aborted" ELSE conn[p]
          /\ history' = <<>> /\ loading' = FALSE /\ typist'.queue = <<>>
          /\ UNCHANGED <<list, calm, answer>>
      BY <1>3 DEF Reload
    <2> SUFFICES ASSUME calm PROVE CalmInv'
      BY <2>1 DEF CalmInv
    <2>2. \A p \in Questions : /\ conn'[p] \notin Running
                               /\ conn'[p] = "none" <=> conn[p] = "none"
                               /\ conn'[p] = "closed" => conn[p] = "closed"
      BY <2>1 DEF InProgress, Running
    <2>3. AnswersLearned'
      BY <2>1 DEF AnswersLearned
    <2>4. EntriesFollow'
      <3> SUFFICES ASSUME NEW i \in 1 .. Len(list), list[i].ai
                   PROVE  LET p == list[i].question IN
                          /\ conn'[p] \notin {"none", "asked", "refused", "open"}
                          /\ Begins(list[i].shown, answer[p].text)
                          /\ conn'[p] = "closed" => list[i].shown = answer[p].text
        BY <2>1 DEF EntriesFollow, EntryFollows
      <3>1. list[i].question \in Questions
        <4>1. list[i] \in Entry
          BY TypeParts, LenNat DEF ContextInv
        <4> QED  BY <4>1 DEF Entry
      <3>2. EntryFollows(i)
        BY CalmFacts DEF EntriesFollow
      <3> QED  BY <2>2, <3>1, <3>2 DEF EntryFollows, Running
    <2> QED  BY <2>1, <2>2, <2>3, <2>4, CalmOver
  <1> QED  BY <1>1, <1>2, <1>3

\* A message of the kind is read: the others on their way stay.
LEMMA ReadRest ==
    ASSUME TypeOK, NEW q \in Questions, NEW kind, Arrives(q, kind), Taken(q)
    PROVE  /\ InProgress(q) /\ Len(wire[q]) \in Nat \ {0} /\ wire[q][1].kind = kind
           /\ Head(wire[q]) = wire[q][1]
           /\ wire[q] \in Seq(Messages) /\ wire'[q] \in Seq(Messages)
           /\ Len(wire'[q]) = Len(wire[q]) - 1
           /\ \A i \in 1 .. Len(wire[q]) - 1 : wire'[q][i] = wire[q][i + 1]
           /\ Len(wire[q]) = 2 => Len(wire'[q]) = 1 /\ wire'[q][1] = wire[q][2]
           /\ answer[q] \in Generator /\ Len(answer[q].text) \in Nat
           /\ conn \in [Questions -> Running \cup {"none", "closed", "failed", "aborted"}]
  <1>1. wire[q] # <<>> /\ wire \in [Questions -> Seq(Messages)]
    BY ArrivesFacts, TypeParts
  <1>2. /\ wire' \in [Questions -> Seq(Messages)] /\ Len(wire'[q]) = Len(wire[q]) - 1
        /\ \A i \in 1 .. Len(wire[q]) - 1 : wire'[q][i] = wire[q][i + 1]
    BY <1>1, TakenFacts
  <1>3. Len(wire[q]) = 2 => Len(wire'[q]) = 1 /\ wire'[q][1] = wire[q][2]
    BY <1>2
  <1>4. answer[q] \in Generator /\ Len(answer[q].text) \in Nat
    <2>1. answer[q] \in Generator
      BY TypeParts
    <2>2. answer[q].text \in Seq(Deltas)
      BY <2>1 DEF Generator
    <2> QED  BY <2>1, <2>2, LenNat
  <1> QED  BY <1>1, <1>2, <1>3, <1>4, ArrivesFacts, TypeParts

LEMMA CalmOpenStream ==
    ASSUME ContextInv, TypeOK', CalmInv, NEW q \in Questions, OpenStream(q)
    PROVE  CalmInv'
  <1>1. /\ Arrives(q, "stream") /\ Taken(q) /\ TypeOK
        /\ conn' = [conn EXCEPT ![q] = "open"]
        /\ UNCHANGED <<history, control, loading, ctrl, calm, answer>>
    BY DEF OpenStream, ContextInv
  <1> SUFFICES ASSUME calm
               PROVE  /\ LoadingFollows' /\ OneAtATime' /\ EntriesFollow'
                      /\ QueueIsTyped' /\ WireFollows' /\ ContextFollows'
    BY <1>1 DEF CalmInv
  <1>2. /\ InProgress(q) /\ Len(wire[q]) \in Nat \ {0} /\ wire[q][1].kind = "stream"
        /\ wire[q] \in Seq(Messages) /\ wire'[q] \in Seq(Messages)
        /\ Len(wire'[q]) = Len(wire[q]) - 1
        /\ \A i \in 1 .. Len(wire[q]) - 1 : wire'[q][i] = wire[q][i + 1]
        /\ answer[q] \in Generator /\ Len(answer[q].text) \in Nat
        /\ conn \in [Questions -> Running \cup {"none", "closed", "failed", "aborted"}]
        /\ answer[q].text \in Seq(Deltas)
    BY <1>1, ReadRest DEF Generator
  <1>3. conn[q] = "asked" /\ Rest(answer[q], wire[q], history, q, 1, 0)
    BY <1>1, FirstMessage
  <1>4. typist.queue = <<>> /\ LoadingFollows /\ EntriesFollow /\ ContextFollows
        /\ \A p \in Questions : InProgress(p) => p = q
    BY <1>2, <1>3, CalmFacts
  <1>5. conn'[q] = "open" /\ \A p \in Questions \ {q} : conn'[p] = conn[p] /\ conn'[p] \notin Running
    BY <1>1, <1>2, <1>4 DEF InProgress
  <1>6. FirstTyped(1) = <<>> /\ FromThen(1) = <<>>
    <2>1. typist.queue \in Seq(Deltas) /\ Len(typist.queue) = 0
      BY <1>4, EmptySeq
    <2>2. PICK m \in 0 .. Len(typist.queue) :
             /\ FirstTyped(1) \in Seq(Deltas) /\ Len(FirstTyped(1)) = m
             /\ FromThen(1) \in Seq(Deltas) /\ Len(FromThen(1)) = Len(typist.queue) - m
      BY <2>1, QueueSplit
    <2> QED  BY <2>1, <2>2, LenNat
  <1>7. /\ list' = Append(list, Item(TRUE, q)) /\ list' \in Seq(Entry)
        /\ list' # <<>> /\ Len(list') = Len(list) + 1 /\ Len(list) \in Nat
        /\ \A i \in 1 .. Len(list) : list'[i] = list[i]
        /\ list'[Len(list) + 1] = Item(TRUE, q) /\ typist'.queue = <<>>
    <2>1. list \in Seq(Entry) /\ Len(list) \in Nat
      BY <1>1, TypeParts, LenNat
    <2>2. list' = Append(list, Item(TRUE, q))
      BY <1>1, <1>6, OpenStreamFacts DEF Type
    <2> QED  BY <1>1, <1>6, <2>1, <2>2, OpenStreamFacts
  <1>8. /\ Typed(list', q) /\ LastShown(list') = <<>>
        /\ ~list'[Len(list')].tools
    BY <1>7 DEF Typed, LastShown, Item
  <1>9. EntriesFollow'
    <2> SUFFICES ASSUME NEW i \in 1 .. Len(list'), list'[i].ai
                 PROVE  LET p == list'[i].question IN
                        /\ conn'[p] \notin {"none", "asked", "refused"}
                        /\ conn'[p] = "open" => i = Len(list') /\ ~list'[i].tools
                        /\ Begins(list'[i].shown, answer'[p].text)
                        /\ conn'[p] = "closed" => list'[i].shown = answer'[p].text
      BY DEF EntriesFollow, EntryFollows
    <2>1. CASE i = Len(list) + 1
      <3>1. list'[i].question = q /\ list'[i].shown = <<>> /\ ~list'[i].tools
        BY <1>7, <2>1 DEF Item
      <3>2. Begins(<<>>, answer[q].text)
        BY <1>2 DEF Begins
      <3> QED  BY <1>1, <1>5, <1>7, <2>1, <3>1, <3>2
    <2>2. CASE i # Len(list) + 1
      <3>1. i \in 1 .. Len(list) /\ list'[i] = list[i]
        BY <1>7, <2>2
      <3>2. list[i].question \in Questions
        <4>1. list[i] \in Entry
          BY <1>1, <3>1, TypeParts, LenNat
        <4> QED  BY <4>1 DEF Entry
      <3>3. EntryFollows(i)
        BY <1>4, <3>1 DEF EntriesFollow
      <3>4. list[i].question # q
        BY <1>3, <3>1, <3>3 DEF EntryFollows
      <3> QED  BY <1>1, <1>5, <3>1, <3>2, <3>3, <3>4 DEF EntryFollows, Running
    <2> QED  BY <2>1, <2>2
  <1>10. QueueIsTyped'
    BY <1>7 DEF QueueIsTyped
  <1>11. conn' \in [Questions -> Running \cup {"none", "closed", "failed", "aborted"}]
         /\ conn'[q] \in Running /\ answer' = answer /\ history' = history /\ ctrl' = ctrl
    BY <1>1, <1>5, TypeParts DEF Running
  <1>12. OpenWire(answer'[q], wire'[q], history', list', typist'.queue, q)
    <2>1. Rest(answer[q], wire'[q], history, q, 0, 0)
      <3> DEFINE g == answer[q]  w == wire[q]  v == wire'[q]
      <3>1. Delivers(g.text, w, 1, 0) /\ Ends(g, w, 1 + (Len(g.text) - 0), history, q)
        BY <1>3 DEF Rest
      <3>2. Len(w) > 0 /\ 1 + (Len(g.text) - 0) \in Nat \ {0}
            /\ (1 + (Len(g.text) - 0)) - 1 = 0 + (Len(g.text) - 0)
        BY <1>2
      <3>3. /\ w \in Seq(Messages) /\ v \in Seq(Messages) /\ Len(v) = Len(w) - 1
            /\ \A i \in 1 .. Len(w) - 1 : v[i] = w[i + 1]
            /\ g.text \in Seq(Deltas)
        BY <1>2
      <3> HIDE DEF g, w, v
      <3>4. Delivers(g.text, v, 0, 0)
        <4>1. 1 - 1 = 0 /\ 1 \in Nat /\ 0 \in Nat /\ 1 > 0
          OBVIOUS
        <4> QED  BY <3>1, <3>2, <3>3, <4>1, DeliversShift
      <3>5. Ends(g, v, (1 + (Len(g.text) - 0)) - 1, history, q)
        BY <3>1, <3>2, <3>3, EndsShift
      <3>6. Rest(g, v, history, q, 0, 0)
        BY <3>2, <3>4, <3>5 DEF Rest
      <3> QED  BY <3>6 DEF g, v
    <2>2. QueueFollows(<<>>, <<>>, answer[q].text) /\ Len(<<>>) + Len(<<>>) = 0
      BY <1>2 DEF QueueFollows
    <2>3. /\ Typed(list', q) /\ LastShown(list') = <<>> /\ typist'.queue = <<>>
          /\ answer' = answer /\ history' = history
      BY <1>7, <1>8, <1>11
    <2>4. /\ QueueFollows(LastShown(list'), typist'.queue, answer'[q].text)
          /\ Rest(answer'[q], wire'[q], history', q, 0, Len(LastShown(list')) + Len(typist'.queue))
      BY <2>1, <2>2, <2>3
    <2> QED  BY <2>3, <2>4 DEF OpenWire
  <1>13. LoadingFollows'
    <2>1. loading
      BY <1>3, <1>4 DEF LoadingFollows
    <2>2. loading' = (conn'[q] # "refused")
      BY <1>1, <1>4, <1>5, <2>1 DEF LoadingFollows
    <2> QED  BY <1>1, <1>2, <1>5, <1>7, <1>11, <2>2, OneMoves
  <1>14. OneAtATime' /\ WireFollows' /\ AnswersLearned'
    BY <1>1, <1>2, <1>5, <1>7, <1>11, <1>12, OneMoves
  <1>15. ContextFollows'
    <2>1. answer[q].sent = <<>> \/ answer[q].sent = history
      BY <1>2, <1>4 DEF ContextFollows
    <2> QED  BY <1>1, <1>2, <1>5, <1>7, <1>11, <1>14, <2>1, OneMoves
  <1> QED  BY <1>9, <1>10, <1>13, <1>14, <1>15

LEMMA CalmOpenPlain ==
    ASSUME ContextInv, TypeOK', CalmInv, NEW q \in Questions, OpenJson(q) \/ OpenOther(q)
    PROVE  CalmInv'
  <1> DEFINE kind == IF OpenJson(q) THEN "json" ELSE "other"
             state == IF OpenJson(q) THEN "refused" ELSE "open"
  <1>1. /\ Arrives(q, kind) /\ Taken(q) /\ TypeOK /\ kind \in {"json", "other"}
        /\ conn' = [conn EXCEPT ![q] = state] /\ state \in {"refused", "open"}
        /\ loading' = IF state = "refused" THEN FALSE ELSE loading
        /\ UNCHANGED <<list, history, control, ctrl, typist, calm, answer>>
    BY DEF OpenJson, OpenOther, view, ContextInv
  <1> HIDE DEF kind, state
  <1> SUFFICES ASSUME calm
               PROVE  /\ LoadingFollows' /\ OneAtATime' /\ EntriesFollow'
                      /\ QueueIsTyped' /\ WireFollows' /\ ContextFollows'
    BY <1>1 DEF CalmInv
  <1>2. /\ InProgress(q)
        /\ Len(wire[q]) = 2 => Len(wire'[q]) = 1 /\ wire'[q][1] = wire[q][2]
        /\ conn \in [Questions -> Running \cup {"none", "closed", "failed", "aborted"}]
    BY <1>1, ReadRest
  <1>3. /\ conn[q] = "asked" /\ NoStream(answer[q])
        /\ Len(wire[q]) = 2 /\ wire[q][2].kind = "close"
    BY <1>1, FirstMessage
  <1>4. typist.queue = <<>> /\ LoadingFollows /\ EntriesFollow /\ ContextFollows /\ list # <<>>
    BY <1>2, <1>3, CalmFacts
  <1>5. conn'[q] = state /\ \A p \in Questions \ {q} : conn'[p] = conn[p]
    BY <1>1, <1>2
  <1>6. ClosesOnly(answer'[q], wire'[q]) /\ Len(wire'[q]) = 1 /\ wire'[q][1].kind = "close"
    BY <1>1, <1>2, <1>3 DEF ClosesOnly
  <1>7. conn' \in [Questions -> Running \cup {"none", "closed", "failed", "aborted"}]
        /\ conn'[q] \in Running /\ ctrl' = ctrl /\ list' # <<>> /\ history' = history
        /\ answer' = answer
    BY <1>1, <1>4, <1>5, TypeParts DEF Running
  <1>8. EntriesFollow' /\ QueueIsTyped'
    <2>1. QueueIsTyped'
      BY <1>1, <1>4 DEF QueueIsTyped
    <2>2. \A p \in Questions : conn[p] \notin {"none", "asked", "refused"} => conn'[p] = conn[p]
      BY <1>3, <1>5
    <2> QED  BY <1>1, <1>4, <2>1, <2>2, SameEntries
  <1>9. loading' = (conn'[q] # "refused")
    <2>1. loading
      BY <1>3, <1>4 DEF LoadingFollows
    <2>2. loading \in BOOLEAN
      BY <1>1, TypeParts
    <2> QED  BY <1>1, <1>5, <2>1, <2>2
  <1>10. OpenWire(answer'[q], wire'[q], history', list', typist'.queue, q)
    BY <1>1, <1>4, <1>6 DEF OpenWire
  <1>11. conn'[q] # "asked"
    BY <1>1, <1>5
  <1>12. LoadingFollows' /\ OneAtATime' /\ WireFollows' /\ AnswersLearned'
    BY <1>1, <1>2, <1>5, <1>6, <1>7, <1>9, <1>10, <1>11, OneMoves
  <1>13. ContextFollows'
    BY <1>1, <1>2, <1>5, <1>6, <1>7, <1>12, OneMoves
  <1> QED  BY <1>8, <1>12, <1>13

LEMMA CalmOnDelta ==
    ASSUME ContextInv, TypeOK', CalmInv, NEW q \in Questions, OnDelta(q)
    PROVE  CalmInv'
  <1>1. /\ Arrives(q, "delta") /\ Taken(q) /\ TypeOK
        /\ typist' = [typist EXCEPT !.queue = Append(@, Head(wire[q]).text)]
        /\ UNCHANGED <<list, history, control, loading, ctrl, calm, conn, answer>>
    BY DEF OnDelta, ContextInv
  <1> SUFFICES ASSUME calm
               PROVE  /\ LoadingFollows' /\ OneAtATime' /\ EntriesFollow'
                      /\ QueueIsTyped' /\ WireFollows' /\ ContextFollows'
    BY <1>1 DEF CalmInv
  <1>2. /\ InProgress(q) /\ Len(wire[q]) \in Nat \ {0} /\ wire[q][1].kind = "delta"
        /\ Head(wire[q]) = wire[q][1]
        /\ wire[q] \in Seq(Messages) /\ wire'[q] \in Seq(Messages)
        /\ Len(wire'[q]) = Len(wire[q]) - 1
        /\ \A i \in 1 .. Len(wire[q]) - 1 : wire'[q][i] = wire[q][i + 1]
        /\ answer[q] \in Generator /\ Len(answer[q].text) \in Nat
        /\ conn \in [Questions -> Running \cup {"none", "closed", "failed", "aborted"}]
        /\ answer[q].text \in Seq(Deltas)
    BY <1>1, ReadRest DEF Generator
  <1>3. /\ conn[q] = "open" /\ Typed(list, q)
        /\ QueueFollows(LastShown(list), typist.queue, answer[q].text)
        /\ Rest(answer[q], wire[q], history, q, 0, Shown)
    BY <1>1, FirstMessage
  <1>4. /\ LoadingFollows /\ OneAtATime /\ EntriesFollow /\ ContextFollows /\ list # <<>>
    BY <1>2, CalmFacts
  <1> DEFINE a == Len(LastShown(list))  b == Len(typist.queue)
  <1>5. /\ a \in Nat /\ b \in Nat /\ Shown = a + b
        /\ typist \in Typewriter /\ typist.queue \in Seq(Deltas)
    BY <1>1, <1>4, ShownNat, TypeParts DEF Shown
  <1>6. a + b < Len(answer[q].text) /\ wire[q][1].text = answer[q].text[a + b + 1]
    <2>1. Shown \in Nat /\ Len(wire[q]) > 0
      BY <1>2, <1>5
    <2>2. Shown < Len(answer[q].text) /\ wire[q][1].text = answer[q].text[Shown + 1]
      BY <1>2, <1>3, <2>1, RestFirst
    <2> QED  BY <1>5, <2>2
  <1>7. /\ Len(typist'.queue) = b + 1 /\ typist'.queue[b + 1] = wire[q][1].text
        /\ \A i \in 1 .. b : typist'.queue[i] = typist.queue[i]
    <2>1. wire[q][1].text \in Deltas
      <3>1. wire \in [Questions -> Seq(Messages)]
        BY <1>1, TypeParts
      <3> QED  BY <1>1, <3>1, ArrivesFacts
    <2>2. typist'.queue = Append(typist.queue, wire[q][1].text)
      BY <1>1, <1>2, <1>5 DEF Typewriter
    <2> QED  BY <1>5, <2>1, <2>2, AppendProperties
  <1>8. QueueFollows(LastShown(list), typist'.queue, answer[q].text)
    <2>1. ASSUME NEW i \in 1 .. b + 1
          PROVE  typist'.queue[i] = answer[q].text[Len(LastShown(list)) + i]
      <3>1. CASE i \in 1 .. b
        BY <1>3, <1>7, <3>1 DEF QueueFollows
      <3>2. CASE i = b + 1
        <4>1. a + (b + 1) = a + b + 1
          BY <1>5
        <4> QED  BY <1>6, <1>7, <3>2, <4>1
      <3> QED  BY <1>5, <3>1, <3>2
    <2>2. a + (b + 1) <= Len(answer[q].text)
      BY <1>2, <1>5, <1>6
    <2> QED  BY <1>7, <2>1, <2>2 DEF QueueFollows
  <1>9. Rest(answer[q], wire'[q], history, q, 0, a + (b + 1))
    <2> DEFINE g == answer[q]  w == wire[q]  v == wire'[q]  s == a + b
               n == Len(g.text) - s
    <2>1. /\ Delivers(g.text, w, 0, s) /\ Ends(g, w, 0 + (Len(g.text) - s), history, q)
      BY <1>3, <1>5 DEF Rest
    <2>2. /\ w \in Seq(Messages) /\ v \in Seq(Messages) /\ Len(w) > 0 /\ Len(v) = Len(w) - 1
          /\ \A i \in 1 .. Len(w) - 1 : v[i] = w[i + 1]
          /\ g.text \in Seq(Deltas) /\ Len(g.text) \in Nat /\ s \in Nat /\ s < Len(g.text)
      <3>1. /\ w \in Seq(Messages) /\ v \in Seq(Messages) /\ Len(w) > 0 /\ Len(v) = Len(w) - 1
            /\ \A i \in 1 .. Len(w) - 1 : v[i] = w[i + 1]
        BY <1>2
      <3>2. s \in Nat /\ s < Len(g.text)
        BY <1>5, <1>6
      <3> QED  BY <1>2, <3>1, <3>2
    <2>3. a + (b + 1) = s + 1
      BY <1>5
    <2> HIDE DEF g, w, v, s, a, b
    <2>4. Delivers(g.text, v, 0, s + 1)
      <3>1. 0 \in Nat /\ 0 = 0
        OBVIOUS
      <3> QED  BY <2>1, <2>2, <3>1, DeliversShift
    <2>5. 0 + n \in Nat \ {0} /\ (0 + n) - 1 = 0 + (Len(g.text) - (s + 1))
      BY <2>2
    <2>6. Ends(g, v, (0 + n) - 1, history, q)
      BY <2>1, <2>2, <2>5, EndsShift
    <2>7. Rest(g, v, history, q, 0, s + 1)
      BY <2>4, <2>5, <2>6 DEF Rest
    <2> QED  BY <2>3, <2>7 DEF g, v
  <1>10. OpenWire(answer'[q], wire'[q], history', list', typist'.queue, q)
    BY <1>1, <1>3, <1>7, <1>8, <1>9 DEF OpenWire
  <1>11. conn' \in [Questions -> Running \cup {"none", "closed", "failed", "aborted"}]
         /\ conn'[q] = "open" /\ conn'[q] \in Running /\ ctrl' = ctrl /\ list' # <<>>
         /\ history' = history /\ answer' = answer /\ \A p \in Questions \ {q} : conn'[p] = conn[p]
    BY <1>1, <1>2, <1>3, <1>4 DEF Running
  <1>12. OneAtATime' /\ WireFollows' /\ AnswersLearned'
    BY <1>1, <1>2, <1>10, <1>11, OneMoves
  <1>13. ContextFollows'
    <2>1. answer[q].sent = <<>> \/ answer[q].sent = history
      BY <1>2, <1>4 DEF ContextFollows
    <2> QED  BY <1>1, <1>2, <1>11, <1>12, <2>1, OneMoves
  <1>14. LoadingFollows' /\ QueueIsTyped'
    BY <1>1, <1>3, <1>4 DEF LoadingFollows, QueueIsTyped, Typed
  <1>15. EntriesFollow'
    BY <1>1, <1>4, SameEntries
  <1> QED  BY <1>12, <1>13, <1>14, <1>15

\* The last message before the end brings the turns.
LEMMA CalmOnEnd ==
    ASSUME ContextInv, TypeOK', CalmInv, NEW q \in Questions, OnFinal(q) \/ OnError(q)
    PROVE  CalmInv'
  <1> DEFINE kind == IF OnFinal(q) THEN "final" ELSE "error"
  <1>1. /\ Arrives(q, kind) /\ Taken(q) /\ TypeOK /\ kind \in {"final", "error"}
        /\ Learn(Head(wire[q]).history)
        /\ UNCHANGED <<list, control, loading, ctrl, typist, calm, conn, answer>>
    BY DEF OnFinal, OnError, ContextInv
  <1> HIDE DEF kind
  <1> SUFFICES ASSUME calm
               PROVE  /\ LoadingFollows' /\ OneAtATime' /\ EntriesFollow'
                      /\ QueueIsTyped' /\ WireFollows' /\ ContextFollows'
    BY <1>1 DEF CalmInv
  <1>2. /\ InProgress(q) /\ Len(wire[q]) \in Nat \ {0} /\ wire[q][1].kind = kind
        /\ Head(wire[q]) = wire[q][1]
        /\ wire[q] \in Seq(Messages) /\ wire'[q] \in Seq(Messages)
        /\ Len(wire[q]) = 2 => Len(wire'[q]) = 1 /\ wire'[q][1] = wire[q][2]
        /\ answer[q] \in Generator /\ Len(answer[q].text) \in Nat
        /\ conn \in [Questions -> Running \cup {"none", "closed", "failed", "aborted"}]
    BY <1>1, ReadRest
  <1>3. /\ conn[q] = "open" /\ Typed(list, q)
        /\ QueueFollows(LastShown(list), typist.queue, answer[q].text)
        /\ Rest(answer[q], wire[q], history, q, 0, Shown)
    BY <1>1, FirstMessage
  <1>4. /\ LoadingFollows /\ OneAtATime /\ EntriesFollow /\ QueueIsTyped /\ ContextFollows
        /\ list # <<>>
    BY <1>2, CalmFacts
  <1>5. /\ Shown = Len(answer[q].text) /\ answer[q].phase = "done"
        /\ Len(wire[q]) = 2 /\ wire[q][2].kind = "close"
        /\ kind = "final" => LastIs(wire[q][1].history, q)
        /\ kind = "error" => /\ wire[q][1].history = answer[q].sent
                             /\ answer[q].history = answer[q].sent
    <2>1. Shown \in Nat /\ Len(wire[q]) > 0
      BY <1>1, <1>2, <1>4, ShownNat
    <2> QED  BY <1>1, <1>2, <1>3, <2>1, RestFirst
  <1>6. Len(wire'[q]) = 1 /\ wire'[q][1].kind = "close"
    BY <1>2, <1>5
  <1>7. /\ kind = "final" => LastIs(history', q)
        /\ kind = "error" => history' = history
    <2>1. kind = "final" => history' = wire[q][1].history
      BY <1>1, <1>2, <1>5 DEF Learn, LastIs
    <2>2. ASSUME kind = "error" PROVE history' = history
      <3>1. answer[q].sent = <<>> \/ answer[q].sent = history
        BY <1>2, <1>4, <1>5 DEF ContextFollows
      <3> QED  BY <1>1, <1>2, <1>5, <2>2, <3>1 DEF Learn
    <2> QED  BY <1>5, <2>1, <2>2
  <1>8. Learned(answer[q], history', q)
    BY <1>1, <1>5, <1>7 DEF Learned
  <1>9. OpenWire(answer'[q], wire'[q], history', list', typist'.queue, q)
    <2>1. Shown <= Len(answer[q].text) /\ 0 + (Len(answer[q].text) - Shown) = 0 /\ 0 <= 1
          /\ 1 .. Len(answer[q].text) - Shown = {}
      BY <1>2, <1>5
    <2>2. Delivers(answer[q].text, wire'[q], 0, Shown)
      BY <1>6, <2>1 DEF Delivers
    <2>3. Ends(answer[q], wire'[q], 0 + (Len(answer[q].text) - Shown), history', q)
      BY <1>5, <1>6, <1>8, <2>1 DEF Ends
    <2>4. Rest(answer[q], wire'[q], history', q, 0, Shown)
      BY <2>2, <2>3 DEF Rest
    <2> QED  BY <1>1, <1>3, <2>4 DEF OpenWire, Shown
  <1>10. conn' \in [Questions -> Running \cup {"none", "closed", "failed", "aborted"}]
          /\ conn'[q] = "open" /\ conn'[q] \in Running /\ ctrl' = ctrl /\ list' # <<>>
          /\ answer' = answer /\ \A p \in Questions \ {q} : conn'[p] = conn[p]
    BY <1>1, <1>2, <1>3, <1>4 DEF Running
  <1>11. OneAtATime' /\ WireFollows'
    BY <1>1, <1>2, <1>9, <1>10, OneMoves
  <1>12. AnswersLearned'
    <2>1. CASE kind = "final"
      <3>1. history'[Len(history')].question = q
        BY <1>7, <2>1 DEF LastIs
      <3>2. \A p \in Questions : conn'[p] = "closed" => p <= q
        BY <1>1, <1>2, <1>4 DEF OneAtATime
      <3> QED  BY <3>1, <3>2 DEF AnswersLearned, Answered
    <2>2. CASE kind = "error"
      BY <1>1, <1>4, <1>7, <2>2 DEF ContextFollows, AnswersLearned, Answered
    <2> QED  BY <1>1, <2>1, <2>2
  <1>13. ContextFollows'
    BY <1>1, <1>2, <1>6, <1>10, <1>12, OneMoves
  <1>14. LoadingFollows' /\ QueueIsTyped'
    BY <1>1, <1>4 DEF LoadingFollows, QueueIsTyped, Typed
  <1>15. EntriesFollow'
    BY <1>1, <1>4, SameEntries
  <1> QED  BY <1>11, <1>12, <1>13, <1>14, <1>15

-----------------------------------------------------------------------------
(* Theorems about calm conversations.                                      *)

LEMMA InvInit == Init => Inv
  <1> SUFFICES ASSUME Init PROVE Inv
    OBVIOUS
  <1>1. /\ list = <<>> /\ history = <<>> /\ loading = FALSE /\ typist.queue = <<>>
        /\ Len(<<>>) = 0 /\ conn = [q \in Questions |-> "none"]
    BY DEF Init
  <1>2. \A q \in Questions : conn[q] = "none"
    BY <1>1
  <1>3. LoadingFollows /\ OneAtATime /\ EntriesFollow /\ QueueIsTyped
    <2>1. LoadingFollows /\ OneAtATime
      BY <1>1, <1>2 DEF LoadingFollows, OneAtATime, InProgress, Running
    <2>2. EntriesFollow /\ QueueIsTyped
      BY <1>1 DEF EntriesFollow, QueueIsTyped
    <2> QED  BY <2>1, <2>2
  <1>4. WireFollows /\ ContextFollows
    BY <1>1, <1>2 DEF WireFollows, ContextFollows, AnswersLearned, InProgress, Running
  <1> QED  BY <1>3, <1>4, ContextInit DEF Inv, CalmInv

LEMMA InvNext == Inv /\ [Next]_vars => Inv'
  <1> SUFFICES ASSUME Inv, [Next]_vars PROVE Inv'
    OBVIOUS
  <1>1. ContextInv /\ CalmInv /\ ContextInv' /\ TypeOK'
    BY ContextNext DEF Inv, ContextInv
  <1>2. ASSUME NEW q \in Questions, Serve(q) \/ Send(q) \/ Read(q) PROVE CalmInv'
    BY <1>1, <1>2, CalmServe, CalmSend, CalmOpenStream, CalmOpenPlain, CalmOnDelta, CalmOnEnd,
       CalmClose DEF Read
  <1>3. ASSUME NEW tracked \in BOOLEAN, Tick(tracked) PROVE CalmInv'
    BY <1>1, <1>3, CalmTick
  <1>4. ASSUME StopChat \/ ClearChat \/ ControlChat \/ Reload \/ UNCHANGED vars PROVE CalmInv'
    BY <1>1, <1>4, CalmStop, CalmOthers
  <1>5. \/ \E q \in Questions : Serve(q) \/ Send(q) \/ Read(q)
        \/ \E tracked \in BOOLEAN : Tick(tracked)
        \/ StopChat \/ ClearChat \/ ControlChat \/ Reload \/ UNCHANGED vars
    BY DEF Next
  <1>6. CalmInv'
    BY <1>2, <1>3, <1>4, <1>5
  <1> QED  BY <1>1, <1>6 DEF Inv

LEMMA Invariant == Spec => []Inv
  BY InvInit, InvNext, PTL DEF Spec

\* Where sequences agree up to the length of the first, it is a prefix.
LEMMA BeginsIsPrefix ==
    ASSUME NEW S, NEW s \in Seq(S), NEW t \in Seq(S), Begins(s, t)
    PROVE  IsPrefix(s, t)
  <1>1. Len(s) \in Nat /\ Len(t) \in Nat /\ Len(s) <= Len(t) /\ \A i \in 1 .. Len(s) : s[i] = t[i]
    BY LenNat DEF Begins
  <1>2. /\ SubSeq(s, 1, Len(s)) \in Seq(S) /\ SubSeq(t, 1, Len(s)) \in Seq(S)
        /\ Len(SubSeq(s, 1, Len(s))) = Len(s) /\ Len(SubSeq(t, 1, Len(s))) = Len(s)
        /\ \A i \in 1 .. Len(s) : SubSeq(s, 1, Len(s))[i] = s[i] /\ SubSeq(t, 1, Len(s))[i] = t[i]
    <2>1. ASSUME NEW u \in Seq(S), Len(s) <= Len(u)
          PROVE  /\ SubSeq(u, 1, Len(s)) \in Seq(S) /\ Len(SubSeq(u, 1, Len(s))) = Len(s)
                 /\ \A i \in 1 .. Len(s) : SubSeq(u, 1, Len(s))[i] = u[i]
      <3>1. Len(u) \in Nat /\ \A i \in 1 .. Len(s) : u[i] \in S
        BY <1>1, <2>1, LenNat
      <3>2. /\ SubSeq(u, 1, Len(s)) \in Seq(S)
            /\ Len(SubSeq(u, 1, Len(s))) = IF 1 <= Len(s) THEN Len(s) - 1 + 1 ELSE 0
            /\ \A i \in 1 .. Len(s) - 1 + 1 : SubSeq(u, 1, Len(s))[i] = u[1 + i - 1]
        BY <1>1, <3>1, SubSeqProperties
      <3>3. Len(s) - 1 + 1 = Len(s) /\ \A i \in 1 .. Len(s) : 1 + i - 1 = i
        BY <1>1
      <3> QED  BY <1>1, <3>2, <3>3
    <2> QED  BY <1>1, <2>1
  <1>3. SubSeq(s, 1, Len(s)) = SubSeq(t, 1, Len(s))
    BY <1>1, <1>2, SeqEqual
  <1> QED  BY <1>1, <1>3 DEF IsPrefix

\* In a calm conversation no character of one answer is shown under another
\* question, twice or out of order, whatever was stopped, refused or broken
\* before: the typewriter's queue and timers outlive their answer in Chat.vue.
THEOREM ShownAreOwn == Spec => []AnswersAreOwn
  <1>1. ASSUME Inv, calm, NEW i \in Answers
        PROVE  IsPrefix(list[i].shown, answer[list[i].question].text)
    <2>1. i \in 1 .. Len(list) /\ list[i].ai /\ list[i] \in Entry /\ TypeOK
      BY <1>1, TypeParts, LenNat DEF Answers, Inv, ContextInv
    <2>2. Begins(list[i].shown, answer[list[i].question].text)
      BY <1>1, <2>1, CalmFacts DEF Inv, EntriesFollow, EntryFollows
    <2>3. list[i].shown \in Seq(Deltas) /\ answer[list[i].question].text \in Seq(Deltas)
      BY <2>1, TypeParts DEF Entry, Generator
    <2> QED  BY <2>2, <2>3, BeginsIsPrefix
  <1>2. Inv => AnswersAreOwn
    BY <1>1 DEF AnswersAreOwn
  <1> QED  BY <1>2, Invariant, PTL

\* An answer whose request the server closed (onclose) is shown to the end.
THEOREM ShownIsComplete == Spec => []ClosedIsComplete
  <1>1. ASSUME Inv, calm, NEW i \in Answers, conn[list[i].question] = "closed"
        PROVE  list[i].shown = answer[list[i].question].text
    <2>1. i \in 1 .. Len(list) /\ list[i].ai
      BY <1>1, TypeParts, LenNat DEF Answers, Inv, ContextInv
    <2> QED  BY <1>1, <2>1, CalmFacts DEF Inv, EntriesFollow, EntryFollows
  <1>2. Inv => ClosedIsComplete
    BY <1>1 DEF ClosedIsComplete
  <1> QED  BY <1>2, Invariant, PTL

\* The loading sign (showLoading) is shown during an answer and only then.
THEOREM LoadingIsProgress == Spec => []LoadingMeansInProgress
  <1>1. Inv => LoadingMeansInProgress
    BY DEF Inv, CalmInv, LoadingFollows, LoadingMeansInProgress
  <1> QED  BY <1>1, Invariant, PTL

\* Unless everything was cleared since, the next question is asked in the
\* context of the last answer.
THEOREM ContextLatest == Spec => []ContextIsLatest
  <1>1. ASSUME Inv PROVE ContextIsLatest
    <2>1. history \in Seq(Turns)
      BY <1>1, TypeParts DEF Inv, ContextInv
    <2> QED  BY <1>1, <2>1, CalmFacts DEF Inv, ContextIsLatest, ContextFollows, AnswersLearned, Last
  <1>2. Inv => ContextIsLatest
    BY <1>1
  <1> QED  BY <1>2, Invariant, PTL

\* A step changes the text of no entry that has its tools.
LEMMA FinishedStep ==
    ASSUME ContextInv, CalmInv, Next, calm', NEW i \in (DOMAIN list) \cap (DOMAIN list'),
           list[i].tools
    PROVE  list'[i].shown = list[i].shown
  <1>1. /\ TypeOK /\ list \in Seq(Entry) /\ DOMAIN list = 1 .. Len(list) /\ i \in 1 .. Len(list)
        /\ typist \in Typewriter /\ typist.queue \in Seq(Deltas) /\ Len(typist.queue) \in Nat
    BY TypeParts, LenNat DEF ContextInv, Typewriter
  <1>2. ASSUME calm, list' \in Seq(Entry), Len(list') = Len(list),
               NEW typed \in Seq(Deltas), NEW m \in 0 .. Len(typist.queue), Len(typed) = m,
               \A j \in 1 .. m : typed[j] = typist.queue[j],
               \A j \in 1 .. Len(list) :
                  /\ list'[j].ai = list[j].ai /\ list'[j].question = list[j].question
                  /\ j # Len(list) => list'[j] = list[j]
                  /\ j = Len(list) => list'[j].shown = list[j].shown \o typed
        PROVE  list'[i].shown = list[i].shown
    <2>1. list'[i].shown # list[i].shown => list[i].ai /\ conn[list[i].question] = "open"
      BY <1>1, <1>2, TypedEntries
    <2>2. EntryFollows(i)
      BY <1>1, <1>2, CalmFacts DEF EntriesFollow
    <2> QED  BY <2>1, <2>2 DEF EntryFollows
  <1>3. ASSUME calm, Done PROVE list'[i].shown = list[i].shown
    <2>1. ~Throws
      BY <1>3, CalmFacts
    <2>2. /\ list' \in Seq(Entry) /\ Len(list') = Len(list)
          /\ \A j \in 1 .. Len(list) :
                /\ j # Len(list) => list'[j] = list[j]
                /\ list'[j].ai = list[j].ai /\ list'[j].question = list[j].question
                /\ j = Len(list) => list'[j].shown = list[j].shown \o typist.queue
      BY <1>1, <1>3, <2>1, DoneFacts
    <2>3. Len(typist.queue) \in 0 .. Len(typist.queue)
      BY <1>1
    <2> QED  BY <1>1, <1>2, <1>3, <2>2, <2>3
  <1>4. ASSUME NEW tracked \in BOOLEAN, Tick(tracked) PROVE list'[i].shown = list[i].shown
    <2>1. /\ calm /\ ~Throws /\ list' \in Seq(Entry)
      BY <1>1, <1>4, CalmFacts, TickFacts
    <2>2. PICK n \in {1, 2} : list' = Type(list, FirstTyped(n))
      BY <1>1, <1>4, <2>1, TickFacts
    <2> DEFINE typed == FirstTyped(n)
    <2>3. PICK m \in 0 .. Len(typist.queue) :
             /\ typed \in Seq(Deltas) /\ Len(typed) = m
             /\ \A j \in 1 .. m : typed[j] = typist.queue[j]
      BY <1>1, QueueSplit
    <2>4. list' = Type(list, typed)
      BY <2>2
    <2> HIDE DEF typed
    <2>5. list # <<>> \/ typed = <<>>
      <3>1. typist.queue = <<>> => Len(typed) = 0
        BY <2>3
      <3> QED  BY <2>1, <2>3, <3>1, LenNat DEF Throws
    <2>6. /\ Len(list') = Len(list)
          /\ \A j \in 1 .. Len(list) :
                /\ j # Len(list) => list'[j] = list[j]
                /\ list'[j].ai = list[j].ai /\ list'[j].question = list[j].question
                /\ j = Len(list) => list'[j].shown = list[j].shown \o typed
      BY <1>1, <2>3, <2>4, <2>5, TypeFacts, ZenonT(60)
    <2> QED  BY <1>2, <2>1, <2>3, <2>6
  <1>5. ASSUME NEW q \in Questions, OpenStream(q) PROVE list'[i].shown = list[i].shown
    <2>1. calm /\ Arrives(q, "stream")
      BY <1>5 DEF OpenStream
    <2>2. typist.queue = <<>>
      <3>1. conn[q] = "asked" /\ InProgress(q)
        BY <1>1, <2>1, FirstMessage DEF Arrives
      <3> QED  BY <2>1, <3>1, CalmFacts
    <2>3. FirstTyped(1) = <<>>
      <3>1. PICK m \in 0 .. Len(typist.queue) :
               FirstTyped(1) \in Seq(Deltas) /\ Len(FirstTyped(1)) = m
        BY <1>1, QueueSplit
      <3> QED  BY <2>2, <3>1, LenNat
    <2>4. list' = Append(list, Item(TRUE, q)) /\ list'[i] = Append(list, Item(TRUE, q))[i]
      BY <1>5, <2>3 DEF OpenStream, Type
    <2>5. Append(list, Item(TRUE, q))[i] = list[i]
      BY <1>1, <1>5, OpenStreamFacts
    <2> QED  BY <2>4, <2>5
  <1>6. ASSUME NEW q \in Questions, Send(q) PROVE list'[i].shown = list[i].shown
    BY <1>1, <1>6, SendFacts
  <1>7. ASSUME NEW q \in Questions, NEW how \in {"closed", "failed"}, Close(q, how)
        PROVE  list'[i].shown = list[i].shown
    BY <1>3, <1>7 DEF Close
  <1>8. ASSUME NEW q \in Questions, Read(q) PROVE list'[i].shown = list[i].shown
    <2>1. CASE OnFinalThrows(q) \/ OnClose(q) \/ OnBroken(q)
      BY <1>7, <2>1 DEF OnFinalThrows, OnClose, OnBroken
    <2>2. CASE OpenJson(q) \/ OpenOther(q) \/ OnDelta(q) \/ OnFinal(q) \/ OnError(q)
      BY <2>2 DEF OpenJson, OpenOther, OnDelta, OnFinal, OnError, view
    <2> QED  BY <1>5, <1>8, <2>1, <2>2 DEF Read
  <1>9. ASSUME NEW q \in Questions, Serve(q) PROVE list'[i].shown = list[i].shown
    BY <1>1, <1>9, ServeEffect, ConversationAssumption DEF view
  <1>10. CASE StopChat
    BY <1>3, <1>10 DEF StopChat
  <1>11. CASE ClearChat
    BY <1>11 DEF ClearChat
  <1>12. CASE ControlChat \/ Reload
    BY <1>12 DEF ControlChat, Reload
  <1> QED  BY <1>4, <1>6, <1>8, <1>9, <1>10, <1>11, <1>12 DEF Next

\* Once an answer of a calm conversation has its tools (copy, regenerate) its
\* text does not change: no timer or queue of the typewriter reaches it.
THEOREM FinishedStays == Spec => FinishedIsFinal
  <1>1. Inv /\ [Next]_vars => [calm' => \A i \in DOMAIN list \cap DOMAIN list' :
           list[i].tools /\ list[i].question = list'[i].question
           => list'[i].shown = list[i].shown]_vars
    <2> SUFFICES ASSUME Inv, Next, calm', NEW i \in (DOMAIN list) \cap (DOMAIN list'),
                        list[i].tools
                 PROVE  list'[i].shown = list[i].shown
      OBVIOUS
    <2> QED  BY FinishedStep DEF Inv
  <1> QED  BY <1>1, Invariant, PTL DEF Spec, FinishedIsFinal
=============================================================================
