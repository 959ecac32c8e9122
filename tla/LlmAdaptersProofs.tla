------------------------- MODULE LlmAdaptersProofs --------------------------
(***************************************************************************)
(* A streamed answer reads as the plain one would, for any chunks that the *)
(* filters can read and whatever the other chats on the adapter do.        *)
(***************************************************************************)
EXTENDS RetrievalProofs

-----------------------------------------------------------------------------
(* Reading text.                                                           *)

Reader(S, step, start) == step \in [S \X Pieces -> S] /\ start \in S

\* The states s of a reader while it reads text.
Trace(S, step, start, text, s) ==
    /\ s[0] = start
    /\ \A n \in 1 .. Len(text) : s[n] = step[<<s[n - 1], text[n]>>]
    /\ \A n \in 0 .. Len(text) : s[n] \in S

LEMMA StatesSteps ==
    ASSUME NEW S, NEW step, NEW start, Reader(S, step, start), NEW text \in Seq(Pieces)
    PROVE  Trace(S, step, start, text, States(step, start, text))
  <1> DEFINE Is(g) == g = [n \in 0 .. Len(text) |->
                              IF n = 0 THEN start ELSE step[<<g[n - 1], text[n]>>]]
             onNumbers == [x \in S \X (1 .. Len(text)) |-> step[<<x[1], text[x[2]]>>]]
  <1>1. /\ Len(text) \in Nat /\ \A i \in 1 .. Len(text) : text[i] \in Pieces
        /\ step \in [S \X Pieces -> S] /\ start \in S
    BY LenProperties, ElementOfSeq DEF Reader
  <1>2. onNumbers \in [S \X (1 .. Len(text)) -> S]
    BY <1>1
  <1>3. PICK g \in [0 .. Len(text) -> S] : Follows(g, Len(text), start, onNumbers)
    <2> HIDE DEF onNumbers
    <2> QED  BY <1>1, <1>2, Recursion
  <1>4. ASSUME NEW n \in 1 .. Len(text) PROVE g[n] = step[<<g[n - 1], text[n]>>]
    <2>1. n - 1 \in 0 .. Len(text)
      BY <1>1
    <2>2. <<g[n - 1], n>> \in S \X (1 .. Len(text))
      BY <2>1
    <2>3. onNumbers[<<g[n - 1], n>>] = step[<<g[n - 1], text[n]>>]
      BY <2>2
    <2> QED  BY <1>3, <2>3 DEF Follows
  <1>5. g[0] = start
    BY <1>3 DEF Follows
  <1>6. \A n \in 0 .. Len(text) : n = 0 \/ n \in 1 .. Len(text)
    BY <1>1
  <1>7. Is(g)
    <2> HIDE DEF onNumbers
    <2> QED  BY <1>4, <1>5, <1>6
  <1>8. States(step, start, text) = CHOOSE h : Is(h)
    BY DEF States
  <1> HIDE DEF Is
  <1>9. Is(States(step, start, text))
    BY <1>7, <1>8
  <1> DEFINE h == States(step, start, text)
  <1>10. /\ 0 \in 0 .. Len(text)
         /\ \A n \in 1 .. Len(text) : n \in 0 .. Len(text) /\ n # 0 /\ n - 1 \in 0 .. Len(text)
    BY <1>1
  <1> HIDE DEF h, onNumbers
  <1>11. h[0] = start /\ \A n \in 1 .. Len(text) : h[n] = step[<<h[n - 1], text[n]>>]
    <2>1. h = [n \in 0 .. Len(text) |-> IF n = 0 THEN start ELSE step[<<h[n - 1], text[n]>>]]
      BY <1>9 DEF Is, h
    <2> QED  BY <1>10, <2>1
  <1> DEFINE T == {n \in 0 .. Len(text) : h[n] \in S}
  <1>12. 0 \in T
    BY <1>1, <1>10, <1>11
  <1>13. \A n \in 1 .. Len(text) : n - 1 \in T => n \in T
    BY <1>1, <1>10, <1>11
  <1>14. \A n \in 0 .. Len(text) : n \in T
    <2> HIDE DEF T
    <2> QED  BY <1>1, <1>12, <1>13, StepByStep
  <1> QED  BY <1>11, <1>14 DEF h, Trace

\* A reader is as far as what it read.
Agree(s, t, n) == n <= Len(s) /\ n <= Len(t) /\ \A i \in 1 .. n : s[i] = t[i]

LEMMA StatesAgree ==
    ASSUME NEW S, NEW step, NEW start, Reader(S, step, start),
           NEW s \in Seq(Pieces), NEW t \in Seq(Pieces), NEW n \in Nat,
           Agree(s, t, n)
    PROVE  States(step, start, s)[n] = States(step, start, t)[n]
  <1> DEFINE f == States(step, start, s)
             g == States(step, start, t)
             T == {i \in 0 .. n : f[i] = g[i]}
  <1>1. Len(s) \in Nat /\ Len(t) \in Nat
    BY LenProperties
  <1>2. Trace(S, step, start, s, f) /\ Trace(S, step, start, t, g)
    BY StatesSteps, Zenon
  <1> HIDE DEF f, g
  <1>3. 0 \in T
    BY <1>2 DEF Trace
  <1>4. ASSUME NEW i \in 1 .. n, i - 1 \in T PROVE i \in T
    <2>1. i \in 1 .. Len(s) /\ i \in 1 .. Len(t) /\ i \in 0 .. n
      BY <1>1 DEF Agree
    <2>2. f[i] = step[<<f[i - 1], s[i]>>] /\ g[i] = step[<<g[i - 1], t[i]>>]
      BY <1>2, <2>1, Zenon DEF Trace
    <2> QED  BY <1>4, <2>1, <2>2 DEF Agree
  <1>5. \A i \in 0 .. n : i \in T
    <2> HIDE DEF T
    <2> QED  BY <1>3, <1>4, StepByStep
  <1> QED  BY <1>5 DEF f, g

LEMMA FinalType ==
    ASSUME NEW S, NEW step, NEW start, Reader(S, step, start), NEW text \in Seq(Pieces)
    PROVE  FinalState(step, start, text) \in S
  <1>1. Len(text) \in 0 .. Len(text)
    BY LenProperties
  <1>2. Trace(S, step, start, text, States(step, start, text))
    BY StatesSteps, Zenon
  <1> QED  BY <1>1, <1>2, Zenon DEF FinalState, Trace

LEMMA FinalOfNone ==
    ASSUME NEW S, NEW step, NEW start, Reader(S, step, start)
    PROVE  FinalState(step, start, <<>>) = start
  <1>1. <<>> \in Seq(Pieces) /\ Len(<<>>) = 0
    BY EmptySeq
  <1>2. Trace(S, step, start, <<>>, States(step, start, <<>>))
    BY <1>1, StatesSteps, Zenon
  <1> QED  BY <1>1, <1>2, Zenon DEF FinalState, Trace

LEMMA FinalOfConcat ==
    ASSUME NEW S, NEW step, NEW start, Reader(S, step, start),
           NEW s \in Seq(Pieces), NEW t \in Seq(Pieces)
    PROVE  FinalState(step, start, s \o t) = FinalState(step, FinalState(step, start, s), t)
  <1> DEFINE m == Len(s)
             n == Len(t)
             u == s \o t
             mid == FinalState(step, start, s)
             whole == States(step, start, u)
             rest == States(step, mid, t)
             T == {k \in 0 .. n : whole[m + k] = rest[k]}
  <1>1. /\ m \in Nat /\ n \in Nat /\ u \in Seq(Pieces) /\ Len(u) = m + n
        /\ \A i \in 1 .. m + n : u[i] = IF i <= m THEN s[i] ELSE t[i - m]
    BY ConcatProperties, LenProperties
  <1>2. Reader(S, step, mid)
    <2>1. mid \in S
      BY FinalType, Zenon
    <2> QED  BY <2>1, Zenon DEF Reader
  <1>3. Trace(S, step, start, u, whole) /\ Trace(S, step, mid, t, rest)
    BY <1>1, <1>2, StatesSteps, Zenon
  <1> HIDE DEF n, mid, whole, rest, u, m
  <1>4. whole[m] = mid
    <2>1. Agree(u, s, m)
      <3>1. m <= Len(u) /\ \A i \in 1 .. m : u[i] = s[i]
        BY <1>1
      <3>2. m <= Len(s)
        BY <1>1 DEF m
      <3> QED  BY <3>1, <3>2 DEF Agree
    <2>2. u \in Seq(Pieces) /\ m \in Nat
      BY <1>1
    <2>3. States(step, start, u)[m] = States(step, start, s)[m]
      BY <2>1, <2>2, StatesAgree
    <2> QED  BY <2>3 DEF whole, mid, m, FinalState
  <1>5. 0 \in T
    <2>1. rest[0] = mid
      BY <1>3 DEF Trace
    <2>2. m + 0 = m /\ 0 \in 0 .. n
      BY <1>1
    <2> QED  BY <1>4, <2>1, <2>2
  <1>6. ASSUME NEW k \in 1 .. n, k - 1 \in T PROVE k \in T
    <2>1. /\ m + k \in 1 .. m + n /\ ~(m + k <= m) /\ (m + k) - m = k
          /\ (m + k) - 1 = m + (k - 1) /\ k \in 0 .. n
      BY <1>1
    <2>2. u[m + k] = t[k]
      BY <1>1, <2>1
    <2>3. m + k \in 1 .. Len(u) /\ k \in 1 .. Len(t)
      BY <1>1, <2>1 DEF n
    <2>4. whole[m + k] = step[<<whole[(m + k) - 1], u[m + k]>>]
      BY <1>3, <2>3 DEF Trace
    <2>5. rest[k] = step[<<rest[k - 1], t[k]>>]
      BY <1>3, <2>3 DEF Trace
    <2>6. whole[m + (k - 1)] = rest[k - 1]
      BY <1>6
    <2> QED  BY <2>1, <2>2, <2>4, <2>5, <2>6
  <1>7. n \in T
    <2> HIDE DEF T
    <2>1. \A k \in 0 .. n : k \in T
      BY <1>1, <1>5, <1>6, StepByStep
    <2> QED  BY <1>1, <2>1
  <1>8. whole[m + n] = rest[n]
    BY <1>7
  <1> QED  BY <1>1, <1>8 DEF whole, rest, mid, u, n, FinalState

LEMMA FinalOfAppend ==
    ASSUME NEW S, NEW step, NEW start, Reader(S, step, start),
           NEW s \in Seq(Pieces), NEW piece \in Pieces
    PROVE  FinalState(step, start, Append(s, piece)) = step[<<FinalState(step, start, s), piece>>]
  <1> DEFINE t == Append(s, piece)
             m == Len(s)
             f == States(step, start, t)
  <1>1. /\ m \in Nat /\ t \in Seq(Pieces) /\ Len(t) = m + 1
        /\ \A i \in 1 .. m : t[i] = s[i]
        /\ t[m + 1] = piece
    BY AppendProperties, LenProperties
  <1>2. Trace(S, step, start, t, f)
    BY <1>1, StatesSteps, Zenon
  <1> HIDE DEF t, f
  <1>3. f[m] = States(step, start, s)[m]
    <2>1. Agree(t, s, m)
      BY <1>1 DEF Agree
    <2>2. t \in Seq(Pieces) /\ m \in Nat
      BY <1>1
    <2> HIDE DEF m
    <2> QED  BY <2>1, <2>2, StatesAgree DEF f
  <1>4. m + 1 \in 1 .. Len(t) /\ (m + 1) - 1 = m
    BY <1>1
  <1>5. f[m + 1] = step[<<f[(m + 1) - 1], t[m + 1]>>]
    BY <1>2, <1>4 DEF Trace
  <1> QED  BY <1>1, <1>3, <1>4, <1>5 DEF FinalState, t, f

\* Two readers of one text stay in a relation that every piece keeps.
LEMMA ReadersRelate ==
    ASSUME NEW S, NEW step, NEW start, Reader(S, step, start),
           NEW V, NEW move, NEW init, Reader(V, move, init),
           NEW text \in Seq(Pieces), NEW R, <<start, init>> \in R,
           \A x \in S, y \in V : \A i \in 1 .. Len(text) :
              <<x, y>> \in R => <<step[<<x, text[i]>>], move[<<y, text[i]>>]>> \in R
    PROVE  <<FinalState(step, start, text), FinalState(move, init, text)>> \in R
  <1> DEFINE f == States(step, start, text)
             g == States(move, init, text)
             n == Len(text)
             T == {i \in 0 .. n : <<f[i], g[i]>> \in R}
  <1>1. n \in Nat
    BY LenProperties
  <1>2. Trace(S, step, start, text, f) /\ Trace(V, move, init, text, g)
    BY StatesSteps, Zenon
  <1> HIDE DEF f, g
  <1>3. 0 \in T
    BY <1>1, <1>2 DEF Trace
  <1>4. ASSUME NEW i \in 1 .. n, i - 1 \in T PROVE i \in T
    <2>1. i \in 0 .. n /\ i - 1 \in 0 .. n
      BY <1>1
    <2>2. f[i] = step[<<f[i - 1], text[i]>>] /\ g[i] = move[<<g[i - 1], text[i]>>]
      BY <1>2, Zenon DEF Trace
    <2>3. f[i - 1] \in S /\ g[i - 1] \in V
      BY <1>2, <2>1 DEF Trace
    <2>4. <<f[i - 1], g[i - 1]>> \in R
      BY <1>4
    <2>5. <<f[i], g[i]>> \in R
      BY <2>2, <2>3, <2>4
    <2> QED  BY <2>1, <2>5
  <1>5. n \in T
    <2> HIDE DEF T, n
    <2>1. \A i \in 0 .. n : i \in T
      BY <1>1, <1>3, <1>4, StepByStep
    <2> QED  BY <1>1, <2>1
  <1> QED  BY <1>5 DEF f, g, FinalState

LEMMA ReaderKeeps ==
    ASSUME NEW S, NEW step, NEW start, Reader(S, step, start),
           NEW text \in Seq(Pieces), NEW T, start \in T,
           \A x \in S : \A i \in 1 .. Len(text) : x \in T => step[<<x, text[i]>>] \in T
    PROVE  FinalState(step, start, text) \in T
  <1> DEFINE R == T \X T
  <1>1. <<start, start>> \in R
    OBVIOUS
  <1>2. \A x \in S, y \in S : \A i \in 1 .. Len(text) :
           <<x, y>> \in R => <<step[<<x, text[i]>>], step[<<y, text[i]>>]>> \in R
    OBVIOUS
  <1> HIDE DEF R
  <1>3. <<FinalState(step, start, text), FinalState(step, start, text)>> \in R
    BY <1>1, <1>2, ReadersRelate
  <1> QED  BY <1>3 DEF R

-----------------------------------------------------------------------------
(* Words.                                                                  *)

LEMMA WordReaderReads ==
    ASSUME NEW start \in Seq(Pieces) PROVE Reader(Seq(Pieces), WordReader, start)
  <1>1. \A x \in Seq(Pieces) \X Pieces : Append(x[1], x[2]) \in Seq(Pieces)
    BY AppendProperties
  <1> QED  BY <1>1 DEF Reader, WordReader

LEMMA WordsType == ASSUME NEW text \in Seq(Pieces) PROVE Words(text) \in Seq(Pieces)
  <1>1. <<>> \in Seq(Pieces)
    BY EmptySeq
  <1> QED  BY <1>1, WordReaderReads, FinalType DEF Words

LEMMA WordsOfNone == Words(<<>>) = <<>>
  <1>1. <<>> \in Seq(Pieces)
    BY EmptySeq
  <1> QED  BY <1>1, WordReaderReads, FinalOfNone DEF Words

LEMMA WordsOfAppend ==
    ASSUME NEW text \in Seq(Pieces), NEW piece \in Pieces
    PROVE  Words(Append(text, piece)) =
              IF piece = "space" THEN Words(text) ELSE Append(Words(text), piece)
  <1>1. <<>> \in Seq(Pieces) /\ Reader(Seq(Pieces), WordReader, <<>>)
    BY EmptySeq, WordReaderReads
  <1>2. Words(Append(text, piece)) = WordReader[<<Words(text), piece>>]
    BY <1>1, FinalOfAppend DEF Words
  <1>3. <<Words(text), piece>> \in Seq(Pieces) \X Pieces
    BY WordsType
  <1> QED  BY <1>2, <1>3 DEF WordReader

LEMMA AppendToConcat ==
    ASSUME NEW s \in Seq(Pieces), NEW t \in Seq(Pieces), NEW piece \in Pieces
    PROVE  Append(s \o t, piece) = s \o Append(t, piece)
  <1> DEFINE last == <<piece>>
  <1>1. last \in Seq(Pieces) /\ s \o t \in Seq(Pieces)
    BY ConcatProperties
  <1>2. Append(s \o t, piece) = (s \o t) \o last /\ Append(t, piece) = t \o last
    BY <1>1, AppendIsConcat
  <1> HIDE DEF last
  <1>3. (s \o t) \o last = s \o (t \o last)
    BY <1>1, ConcatAssociative
  <1> QED  BY <1>2, <1>3

LEMMA WordsOfConcat ==
    ASSUME NEW s \in Seq(Pieces), NEW t \in Seq(Pieces)
    PROVE  Words(s \o t) = Words(s) \o Words(t)
  <1> DEFINE w == Words(s)
             R == {r \in Seq(Pieces) \X Seq(Pieces) : r[1] = w \o r[2]}
  <1>1. <<>> \in Seq(Pieces) /\ w \in Seq(Pieces)
    BY EmptySeq, WordsType
  <1>2. Reader(Seq(Pieces), WordReader, <<>>) /\ Reader(Seq(Pieces), WordReader, w)
    BY <1>1, WordReaderReads, Zenon
  <1> HIDE DEF w
  <1>3. <<w, <<>>>> \in R
    BY <1>1, ConcatEmptySeq
  <1>4. ASSUME NEW x \in Seq(Pieces), NEW y \in Seq(Pieces), NEW i \in 1 .. Len(t), <<x, y>> \in R
        PROVE  <<WordReader[<<x, t[i]>>], WordReader[<<y, t[i]>>]>> \in R
    <2>1. t[i] \in Pieces /\ x = w \o y
      BY <1>4, ElementOfSeq
    <2>2. CASE t[i] = "space"
      BY <1>4, <2>1, <2>2 DEF WordReader
    <2>3. CASE t[i] # "space"
      <3>1. WordReader[<<x, t[i]>>] = Append(x, t[i]) /\ WordReader[<<y, t[i]>>] = Append(y, t[i])
        BY <2>1, <2>3 DEF WordReader
      <3>2. Append(w \o y, t[i]) = w \o Append(y, t[i])
        BY <1>1, <2>1, AppendToConcat
      <3>3. Append(x, t[i]) \in Seq(Pieces) /\ Append(y, t[i]) \in Seq(Pieces)
        BY <2>1, AppendProperties
      <3> QED  BY <2>1, <3>1, <3>2, <3>3
    <2> QED  BY <2>2, <2>3
  <1> HIDE DEF R
  <1>5. <<FinalState(WordReader, w, t), Words(t)>> \in R
    BY <1>2, <1>3, <1>4, ReadersRelate DEF Words
  <1>6. Words(s \o t) = FinalState(WordReader, w, t)
    BY <1>2, FinalOfConcat DEF Words, w
  <1> QED  BY <1>5, <1>6 DEF R, w

LEMMA WordsOfSpaces ==
    ASSUME NEW text \in Seq(Pieces), \A i \in 1 .. Len(text) : text[i] = "space"
    PROVE  Words(text) = <<>>
  <1>1. <<>> \in Seq(Pieces) /\ Reader(Seq(Pieces), WordReader, <<>>)
    BY EmptySeq, WordReaderReads
  <1> DEFINE T == {<<>>}
  <1>2. \A x \in Seq(Pieces) : \A i \in 1 .. Len(text) : x \in T => WordReader[<<x, text[i]>>] \in T
    <2>1. "space" \in Pieces
      BY DEF Pieces
    <2> QED  BY <2>1 DEF WordReader
  <1>3. <<>> \in T
    OBVIOUS
  <1> HIDE DEF T
  <1>4. Words(text) \in T
    BY <1>1, <1>2, <1>3, ReaderKeeps DEF Words
  <1> QED  BY <1>4 DEF T

\* A text is what is before, from and after two places in it.
LEMMA Parts ==
    ASSUME NEW text \in Seq(Pieces), NEW a \in 1 .. Len(text), NEW b \in a .. Len(text)
    PROVE  /\ SubSeq(text, 1, a - 1) \in Seq(Pieces) /\ SubSeq(text, a, b) \in Seq(Pieces)
           /\ SubSeq(text, b + 1, Len(text)) \in Seq(Pieces)
           /\ text = (SubSeq(text, 1, a - 1) \o SubSeq(text, a, b))
                        \o SubSeq(text, b + 1, Len(text))
  <1>1. Len(text) \in Nat /\ \A i \in 1 .. Len(text) : text[i] \in Pieces
    BY LenProperties, ElementOfSeq
  <1>2. SubSeq(text, 1, a - 1) \in Seq(Pieces) /\ SubSeq(text, a, b) \in Seq(Pieces)
    BY <1>1, SubSeqProperties
  <1>3. SubSeq(text, b + 1, Len(text)) \in Seq(Pieces)
    BY <1>1, SubSeqProperties
  <1>4. SubSeq(text, 1, a - 1) \o SubSeq(text, a, b) = SubSeq(text, 1, b)
    <2>1. 1 \in 1 .. Len(text) + 1 /\ a - 1 \in 1 - 1 .. Len(text) /\ b \in a - 1 .. Len(text)
          /\ (a - 1) + 1 = a
      BY <1>1
    <2> QED  BY <2>1, ConcatAdjacentSubSeq
  <1>5. SubSeq(text, 1, b) \o SubSeq(text, b + 1, Len(text)) = SubSeq(text, 1, Len(text))
    <2>1. 1 \in 1 .. Len(text) + 1 /\ b \in 1 - 1 .. Len(text) /\ Len(text) \in b .. Len(text)
      BY <1>1
    <2> QED  BY <2>1, ConcatAdjacentSubSeq
  <1>6. SubSeq(text, 1, Len(text)) = text
    BY SubSeqFull
  <1> QED  BY <1>2, <1>3, <1>4, <1>5, <1>6

LEMMA GreatestOf ==
    ASSUME NEW n \in Nat, NEW T \in SUBSET (1 .. n), T # {}
    PROVE  \E greatest \in T : \A i \in T : i <= greatest
  <1> DEFINE Back == {n - i : i \in T}
  <1>1. Back \in SUBSET Nat /\ Back # {}
    <2>1. \A i \in 1 .. n : n - i \in Nat
      OBVIOUS
    <2> QED  BY <2>1
  <1>2. PICK least \in Back : \A m \in Back : least <= m
    <2> HIDE DEF Back
    <2> QED  BY <1>1, LeastOf
  <1>3. PICK g \in T : least = n - g
    BY <1>2
  <1>4. \A i \in T : n - g <= n - i
    BY <1>2, <1>3
  <1>5. \A i \in T : i \in Int
    OBVIOUS
  <1> QED  BY <1>3, <1>4, <1>5

LEMMA TailOf ==
    ASSUME NEW n \in Nat, NEW k \in 1 .. n
    PROVE  /\ k + 1 \in Int /\ n \in Int /\ n - (k + 1) + 1 = n - k /\ n - k \in Nat
           /\ \A i \in k + 1 .. n : i \in 1 .. n
           /\ k + 1 <= n \/ n - k = 0
           /\ \A i \in 1 .. n - k :
                 (k + 1) + i - 1 = k + i /\ k + i \in 1 .. n /\ k < k + i
  <1>1. \A i \in 1 .. n - k : (k + 1) + i - 1 = k + i
    OBVIOUS
  <1>2. \A i \in 1 .. n - k : k + i \in 1 .. n /\ k < k + i
    OBVIOUS
  <1>3. k + 1 <= n \/ n - k = 0
    OBVIOUS
  <1>4. \A i \in k + 1 .. n : i \in 1 .. n
    OBVIOUS
  <1>5. k + 1 \in Int /\ n \in Int /\ n - (k + 1) + 1 = n - k /\ n - k \in Nat
    OBVIOUS
  <1> QED  BY <1>1, <1>2, <1>3, <1>4, <1>5

LEMMA StripKeepsWords ==
    ASSUME NEW text \in Seq(Pieces)
    PROVE  Strip(text) \in Seq(Pieces) /\ Words(Strip(text)) = Words(text)
  <1> DEFINE inner == {i \in DOMAIN text : text[i] # "space"}
             first == CHOOSE i \in inner : \A j \in inner : i <= j
             last  == CHOOSE i \in inner : \A j \in inner : j <= i
  <1>1. Len(text) \in Nat /\ DOMAIN text = 1 .. Len(text)
    BY LenProperties
  <1>2. Strip(text) = IF inner = {} THEN <<>> ELSE SubSeq(text, first, last)
    BY DEF Strip
  <1>3. CASE inner = {}
    <2>1. \A i \in 1 .. Len(text) : text[i] = "space"
      BY <1>1, <1>3
    <2>2. Words(text) = <<>>
      BY <2>1, WordsOfSpaces
    <2> QED  BY <1>2, <1>3, <2>2, WordsOfNone, EmptySeq
  <1>4. CASE inner # {}
    <2>1. inner \in SUBSET (1 .. Len(text)) /\ inner \in SUBSET Nat
      BY <1>1
    <2>2. first \in inner /\ \A j \in inner : first <= j
      <3> HIDE DEF inner
      <3>1. \E i \in inner : \A j \in inner : i <= j
        BY <1>4, <2>1, LeastOf
      <3> QED  BY <3>1
    <2>3. last \in inner /\ \A j \in inner : j <= last
      <3> HIDE DEF inner
      <3>1. \E i \in inner : \A j \in inner : j <= i
        BY <1>1, <1>4, <2>1, GreatestOf
      <3> QED  BY <3>1
    <2> HIDE DEF first, last
    <2>4. first \in 1 .. Len(text) /\ last \in first .. Len(text)
      BY <1>1, <2>1, <2>2, <2>3
    <2> DEFINE head == SubSeq(text, 1, first - 1)
               body == SubSeq(text, first, last)
               tail == SubSeq(text, last + 1, Len(text))
    <2>5. /\ head \in Seq(Pieces) /\ body \in Seq(Pieces) /\ tail \in Seq(Pieces)
          /\ text = (head \o body) \o tail
      BY <2>4, Parts
    <2>6. \A i \in 1 .. Len(text) : i < first \/ last < i => text[i] = "space"
      <3>1. \A i \in inner : first <= i /\ i <= last
        BY <2>2, <2>3
      <3>2. \A i \in 1 .. Len(text) : i \in Int
        BY <1>1
      <3> QED  BY <1>1, <2>4, <3>1, <3>2
    <2>7. Words(head) = <<>>
      <3>1. /\ Len(head) = first - 1
            /\ \A i \in 1 .. first - 1 : head[i] = text[i] /\ i \in 1 .. Len(text) /\ i < first
        <4>1. \A i \in 1 .. Len(text) : text[i] \in Pieces
          BY ElementOfSeq
        <4>2. /\ 1 \in Int /\ first - 1 \in Int /\ \A i \in 1 .. first - 1 : i \in 1 .. Len(text)
              /\ (first - 1) - 1 + 1 = first - 1 /\ (1 <= first - 1 \/ first - 1 = 0)
              /\ \A i \in 1 .. first - 1 : 1 + i - 1 = i /\ i < first
          BY <1>1, <2>4
        <4>3. /\ Len(head) = IF 1 <= first - 1 THEN (first - 1) - 1 + 1 ELSE 0
              /\ \A i \in 1 .. (first - 1) - 1 + 1 : head[i] = text[1 + i - 1]
          BY <4>1, <4>2, SubSeqProperties
        <4> HIDE DEF head
        <4> QED  BY <4>2, <4>3
      <3> HIDE DEF head
      <3> QED  BY <2>5, <2>6, <3>1, WordsOfSpaces
    <2>8. Words(tail) = <<>>
      <3> DEFINE m == Len(text) - last
      <3>1. /\ Len(tail) = m
            /\ \A i \in 1 .. m :
                  tail[i] = text[last + i] /\ last + i \in 1 .. Len(text) /\ last < last + i
        <4>1. \A i \in 1 .. Len(text) : text[i] \in Pieces
          BY ElementOfSeq
        <4>2. /\ last + 1 \in Int /\ Len(text) \in Int
              /\ \A i \in last + 1 .. Len(text) : i \in 1 .. Len(text)
              /\ Len(text) - (last + 1) + 1 = m /\ (last + 1 <= Len(text) \/ m = 0)
              /\ \A i \in 1 .. m :
                    /\ (last + 1) + i - 1 = last + i
                    /\ last + i \in 1 .. Len(text) /\ last < last + i
          <5>1. last \in 1 .. Len(text)
            BY <1>1, <2>4
          <5> HIDE DEF inner
          <5> QED  BY <1>1, <5>1, TailOf
        <4>3. /\ Len(tail) = IF last + 1 <= Len(text) THEN Len(text) - (last + 1) + 1 ELSE 0
              /\ \A i \in 1 .. Len(text) - (last + 1) + 1 : tail[i] = text[(last + 1) + i - 1]
          BY <4>1, <4>2, SubSeqProperties
        <4> HIDE DEF tail, m
        <4> QED  BY <4>2, <4>3
      <3> HIDE DEF tail, m
      <3> QED  BY <2>5, <2>6, <3>1, WordsOfSpaces
    <2> HIDE DEF head, body, tail
    <2>9. Words(text) = (Words(head) \o Words(body)) \o Words(tail)
      <3>1. head \o body \in Seq(Pieces)
        BY <2>5, ConcatProperties
      <3>2. Words((head \o body) \o tail) = Words(head \o body) \o Words(tail)
        BY <2>5, <3>1, WordsOfConcat
      <3>3. Words(head \o body) = Words(head) \o Words(body)
        BY <2>5, WordsOfConcat
      <3> QED  BY <2>5, <3>2, <3>3
    <2>10. Words(text) = Words(body)
      <3>1. Words(body) \in Seq(Pieces)
        BY <2>5, WordsType
      <3> QED  BY <2>7, <2>8, <2>9, <3>1, ConcatEmptySeq
    <2>11. Strip(text) = body
      BY <1>2, <1>4 DEF body
    <2> QED  BY <2>5, <2>10, <2>11
  <1> QED  BY <1>3, <1>4

-----------------------------------------------------------------------------
(* Text without split tags.                                                *)

Unbroken(text) ==
    \A i \in 1 .. Len(text) : text[i] \notin {"open1", "open2", "close1", "close2"}

LEMMA TagReaderReads == Reader(Seq(Pieces), TagReader, <<>>)
  <1>1. \A x \in Seq(Pieces) \X Pieces : Append(x[1], x[2]) \in Seq(Pieces)
    BY AppendProperties
  <1>2. ASSUME NEW x \in Seq(Pieces) \X Pieces, x[1] # <<>>, NEW tag \in {"open", "close"}
        PROVE  Append(Front(x[1]), tag) \in Seq(Pieces)
    <2> DEFINE s == x[1]
    <2>1. s \in Seq(Pieces) /\ Len(s) \in Nat \ {0} /\ \A i \in 1 .. Len(s) : s[i] \in Pieces
      BY <1>2, EmptySeq, ElementOfSeq
    <2>2. Front(s) \in Seq(Pieces)
      <3> HIDE DEF s
      <3>1. \A i \in 1 .. Len(s) - 1 : i \in 1 .. Len(s)
        BY <2>1
      <3>2. SubSeq(s, 1, Len(s) - 1) \in Seq(Pieces)
        BY <2>1, <3>1, SubSeqProperties
      <3> QED  BY <3>2 DEF Front
    <2>3. tag \in Pieces
      BY DEF Pieces
    <2> HIDE DEF s
    <2>4. Append(Front(s), tag) \in Seq(Pieces)
      BY <2>2, <2>3, AppendProperties
    <2> QED  BY <2>4 DEF s
  <1>3. <<>> \in Seq(Pieces)
    BY EmptySeq
  <1> QED  BY <1>1, <1>2, <1>3 DEF Reader, TagReader

LEMMA BeginningOf ==
    ASSUME NEW text \in Seq(Pieces), NEW k \in 1 .. Len(text)
    PROVE  /\ text[k] \in Pieces /\ SubSeq(text, 1, k - 1) \in Seq(Pieces)
           /\ SubSeq(text, 1, k) = Append(SubSeq(text, 1, k - 1), text[k])
           /\ SubSeq(text, 1, k - 1) # <<>> =>
                 k - 1 \in 1 .. Len(text) /\ Last(SubSeq(text, 1, k - 1)) = text[k - 1]
  <1> DEFINE s == SubSeq(text, 1, k - 1)
             piece == text[k]
  <1>1. Len(text) \in Nat /\ \A i \in 1 .. Len(text) : text[i] \in Pieces
    BY LenProperties, ElementOfSeq
  <1>2. /\ s \in Seq(Pieces)
        /\ Len(s) = IF 1 <= k - 1 THEN (k - 1) - 1 + 1 ELSE 0
        /\ \A i \in 1 .. (k - 1) - 1 + 1 : s[i] = text[1 + i - 1]
    BY <1>1, SubSeqProperties
  <1>3. SubSeq(text, 1, k) = s \o <<piece>>
    <2>1. 1 \in 1 .. Len(text) /\ k \in 1 .. Len(text)
      BY <1>1
    <2> QED  BY <2>1, SubSeqRecursiveSecond
  <1>4. ASSUME s # <<>> PROVE k - 1 \in 1 .. Len(text) /\ s[Len(s)] = text[k - 1]
    <2>1. Len(s) \in Nat \ {0}
      BY <1>2, <1>4, EmptySeq
    <2> HIDE DEF s
    <2>2. Len(s) = k - 1 /\ 1 <= k - 1
      BY <1>1, <1>2, <2>1
    <2>3. k - 1 \in 1 .. Len(text) /\ k - 1 \in 1 .. (k - 1) - 1 + 1 /\ 1 + (k - 1) - 1 = k - 1
      BY <1>1, <2>2
    <2> QED  BY <1>2, <2>2, <2>3
  <1> HIDE DEF s
  <1>5. SubSeq(text, 1, k) = Append(s, piece)
    <2>1. piece \in Pieces
      BY <1>1
    <2> HIDE DEF piece
    <2> QED  BY <1>2, <1>3, <2>1, AppendIsConcat
  <1> QED  BY <1>1, <1>2, <1>4, <1>5 DEF s, Last

LEMMA UnbrokenIsWhole ==
    ASSUME NEW text \in Seq(Pieces), Unbroken(text) PROVE Whole(text) = text
  <1> DEFINE f == States(TagReader, <<>>, text)
             n == Len(text)
             T == {k \in 0 .. n : f[k] = SubSeq(text, 1, k)}
  <1>1. n \in Nat
    BY LenProperties
  <1>2. Trace(Seq(Pieces), TagReader, <<>>, text, f)
    BY TagReaderReads, StatesSteps
  <1> HIDE DEF f
  <1>3. 0 \in T
    <2>1. SubSeq(text, 1, 0) = <<>>
      BY SubSeqEmpty
    <2> QED  BY <1>1, <1>2, <2>1 DEF Trace
  <1>4. ASSUME NEW k \in 1 .. n, k - 1 \in T PROVE k \in T
    <2> DEFINE s == SubSeq(text, 1, k - 1)
    <2>1. f[k - 1] = s /\ k \in 0 .. n
      BY <1>1, <1>4
    <2>2. /\ text[k] \in Pieces /\ s \in Seq(Pieces)
          /\ SubSeq(text, 1, k) = Append(s, text[k])
          /\ s # <<>> => k - 1 \in 1 .. n /\ Last(s) = text[k - 1]
      BY BeginningOf
    <2>3. f[k] = TagReader[<<s, text[k]>>]
      BY <1>2, <2>1 DEF Trace
    <2> HIDE DEF s
    <2>4. ~(s # <<>> /\ Last(s) \in {"open1", "close1"})
      BY <2>2 DEF Unbroken
    <2>5. TagReader[<<s, text[k]>>] = Append(s, text[k])
      BY <2>2, <2>4 DEF TagReader
    <2> QED  BY <2>1, <2>2, <2>3, <2>5
  <1>5. n \in T
    <2> HIDE DEF T, n
    <2>1. \A k \in 0 .. n : k \in T
      BY <1>1, <1>3, <1>4, StepByStep
    <2> QED  BY <1>1, <2>1
  <1> QED  BY <1>5, SubSeqFull DEF f, Whole, FinalState

-----------------------------------------------------------------------------
(* The chunks a filter can read.                                           *)

Opened(mode, chunk) == mode = "think" \/ (1 <= Len(chunk) /\ chunk[1] = "open")

\* Up to its piece k the chunk is text, the inside of a block, or a block and text.
TextOnly(mode, chunk, k) ==
    mode = "answer" /\ \A i \in 1 .. k : chunk[i] \in {"word", "space"}
InBlock(mode, chunk, k) ==
    Opened(mode, chunk) /\ \A i \in 1 .. k : chunk[i] # "close"
BlockThenText(mode, chunk, k) ==
    /\ Opened(mode, chunk)
    /\ \E m \in 1 .. k :
          /\ chunk[m] = "close"
          /\ \A i \in 1 .. m - 1 : chunk[i] # "close"
          /\ \A i \in m + 1 .. k : chunk[i] \in {"word", "space"}

LEMMA ModeReaderReads == ASSUME NEW mode \in Modes PROVE Reader(Modes, ModeReader, mode)
  BY DEF Reader, ModeReader, NextMode, Modes

LEMMA BadStays == ASSUME NEW piece \in Pieces PROVE NextMode("bad", piece) = "bad"
  BY DEF NextMode

LEMMA NeverBad ==
    ASSUME NEW mode \in Modes, NEW chunk \in Seq(Pieces), ModeAfter(mode, chunk) # "bad",
           NEW j \in 0 .. Len(chunk)
    PROVE  States(ModeReader, mode, chunk)[j] # "bad"
  <1> DEFINE f == States(ModeReader, mode, chunk)
             n == Len(chunk)
             T == {k \in 0 .. n : k < j \/ f[k] = "bad"}
  <1>1. n \in Nat
    BY LenProperties
  <1>2. Trace(Modes, ModeReader, mode, chunk, f)
    BY ModeReaderReads, StatesSteps
  <1>3. f[n] # "bad"
    BY DEF ModeAfter, FinalState
  <1> HIDE DEF f
  <1>4. SUFFICES ASSUME f[j] = "bad" PROVE FALSE
    BY DEF f
  <1>5. 0 \in T
    BY <1>1, <1>4
  <1>6. ASSUME NEW k \in 1 .. n, k - 1 \in T PROVE k \in T
    <2>1. k \in 0 .. n /\ chunk[k] \in Pieces
      BY <1>1, ElementOfSeq
    <2>2. f[k] = ModeReader[<<f[k - 1], chunk[k]>>]
      BY <1>2 DEF Trace
    <2>3. k - 1 < j \/ f[k - 1] = "bad"
      BY <1>6
    <2>4. CASE k < j
      BY <2>1, <2>4
    <2>5. CASE k = j
      BY <1>4, <2>1, <2>5
    <2>6. CASE f[k - 1] = "bad"
      <3>1. ModeReader[<<"bad", chunk[k]>>] = NextMode("bad", chunk[k])
        BY <2>1 DEF ModeReader, Modes
      <3>2. f[k] = "bad"
        BY <2>1, <2>2, <2>6, <3>1, BadStays
      <3> QED  BY <2>1, <3>2
    <2> QED  BY <1>1, <2>3, <2>4, <2>5, <2>6
  <1>7. n \in T
    <2> HIDE DEF T, n
    <2>1. \A k \in 0 .. n : k \in T
      BY <1>1, <1>5, <1>6, StepByStep
    <2> QED  BY <1>1, <2>1
  <1> QED  BY <1>1, <1>3, <1>7

LEMMA ChunkShape ==
    ASSUME NEW mode \in {"answer", "think"}, NEW chunk \in Seq(Pieces), Orderly(chunk),
           ModeAfter(mode, chunk) # "bad"
    PROVE  \/ ModeAfter(mode, chunk) = "answer" /\ TextOnly(mode, chunk, Len(chunk))
           \/ ModeAfter(mode, chunk) = "think"  /\ InBlock(mode, chunk, Len(chunk))
           \/ ModeAfter(mode, chunk) = "answer" /\ BlockThenText(mode, chunk, Len(chunk))
  <1> DEFINE f == States(ModeReader, mode, chunk)
             n == Len(chunk)
             Shape(k) == \/ f[k] = "answer" /\ TextOnly(mode, chunk, k)
                         \/ f[k] = "think"  /\ InBlock(mode, chunk, k)
                         \/ f[k] = "answer" /\ BlockThenText(mode, chunk, k)
             T == {k \in 0 .. n : Shape(k)}
  <1>1. n \in Nat /\ DOMAIN chunk = 1 .. n /\ mode \in Modes
    BY LenProperties DEF Modes
  <1>2. Trace(Modes, ModeReader, mode, chunk, f)
    BY <1>1, ModeReaderReads, StatesSteps
  <1>3. \A k \in 0 .. n : f[k] # "bad"
    BY <1>1, NeverBad
  <1>4. ModeAfter(mode, chunk) = f[n]
    BY DEF ModeAfter, FinalState
  <1> HIDE DEF f
  <1>5. 0 \in T
    <2>1. f[0] = mode
      BY <1>2 DEF Trace
    <2>2. CASE mode = "answer"
      BY <1>1, <2>1, <2>2 DEF TextOnly
    <2>3. CASE mode = "think"
      BY <1>1, <2>1, <2>3 DEF InBlock, Opened
    <2> QED  BY <2>2, <2>3
  <1>6. ASSUME NEW k \in 1 .. n, k - 1 \in T PROVE k \in T
    <2> DEFINE piece == chunk[k]
    <2>1. /\ k \in 0 .. n /\ k - 1 \in 0 .. n /\ piece \in Pieces
          /\ \A i \in 1 .. k : i \in 1 .. k - 1 \/ i = k
      BY <1>1, ElementOfSeq
    <2>2. /\ piece \notin {"open1", "open2", "close1", "close2"}
          /\ piece = "open" => k = 1
      BY <1>1 DEF Orderly
    <2>3. f[k - 1] \in Modes /\ f[k] # "bad" /\ f[k] = ModeReader[<<f[k - 1], piece>>]
      BY <1>2, <1>3, <2>1 DEF Trace
    <2>4. f[k] = NextMode(f[k - 1], piece)
      BY <2>1, <2>3 DEF ModeReader
    <2>5. CASE f[k - 1] = "answer" /\ TextOnly(mode, chunk, k - 1)
      <3>1. CASE piece = "open"
        <4>1. k = 1 /\ f[k] = "think"
          BY <2>2, <2>4, <2>5, <3>1 DEF NextMode
        <4>2. InBlock(mode, chunk, k)
          BY <1>1, <3>1, <4>1 DEF InBlock, Opened
        <4> QED  BY <2>1, <4>1, <4>2
      <3>2. CASE piece # "open"
        <4>1. f[k] = "answer" /\ piece \in {"word", "space"}
          BY <2>2, <2>3, <2>4, <2>5, <3>2 DEF NextMode
        <4>2. TextOnly(mode, chunk, k)
          BY <2>1, <2>5, <4>1 DEF TextOnly
        <4> QED  BY <2>1, <4>1, <4>2
      <3> QED  BY <3>1, <3>2
    <2>6. CASE f[k - 1] = "think" /\ InBlock(mode, chunk, k - 1)
      <3>1. CASE piece = "close"
        <4>1. f[k] = "answer"
          BY <2>4, <2>6, <3>1 DEF NextMode
        <4>2. k \in 1 .. k /\ \A i \in k + 1 .. k : FALSE
          BY <1>1
        <4>3. BlockThenText(mode, chunk, k)
          BY <2>6, <3>1, <4>2 DEF InBlock, BlockThenText
        <4> QED  BY <2>1, <4>1, <4>3
      <3>2. CASE piece # "close"
        <4>1. f[k] = "think"
          BY <2>2, <2>3, <2>4, <2>6, <3>2 DEF NextMode
        <4>2. InBlock(mode, chunk, k)
          BY <2>1, <2>6, <3>2 DEF InBlock
        <4> QED  BY <2>1, <4>1, <4>2
      <3> QED  BY <3>1, <3>2
    <2>7. CASE f[k - 1] = "answer" /\ BlockThenText(mode, chunk, k - 1)
      <3>1. PICK m \in 1 .. k - 1 :
                /\ chunk[m] = "close"
                /\ \A i \in 1 .. m - 1 : chunk[i] # "close"
                /\ \A i \in m + 1 .. k - 1 : chunk[i] \in {"word", "space"}
        BY <2>7 DEF BlockThenText
      <3>2. k # 1 /\ m \in 1 .. k /\ \A i \in m + 1 .. k : i \in m + 1 .. k - 1 \/ i = k
        BY <1>1
      <3>3. f[k] = "answer" /\ piece \in {"word", "space"}
        BY <2>2, <2>3, <2>4, <2>7, <3>2 DEF NextMode
      <3>4. \A i \in m + 1 .. k : chunk[i] \in {"word", "space"}
        BY <3>1, <3>2, <3>3
      <3>5. BlockThenText(mode, chunk, k)
        BY <2>7, <3>1, <3>2, <3>4 DEF BlockThenText
      <3> QED  BY <2>1, <3>3, <3>5
    <2> QED  BY <1>6, <2>5, <2>6, <2>7
  <1>7. n \in T
    <2> HIDE DEF T, n
    <2>1. \A k \in 0 .. n : k \in T
      BY <1>1, <1>5, <1>6, StepByStep
    <2> QED  BY <1>1, <2>1
  <1> QED  BY <1>4, <1>7

-----------------------------------------------------------------------------
(* Thinking blocks.                                                        *)

BlockStates == [out : Seq(Pieces), block : Seq(Pieces), trim : BOOLEAN]
Unblocked(s, text) == FinalState(BlockReader, s, text)

\* What one piece does to the text outside blocks and to the block under way.
LEMMA BlockMove ==
    ASSUME NEW s \in BlockStates, NEW piece \in Pieces
    PROVE  LET t == BlockReader[<<s, piece>>] IN
           /\ t \in BlockStates
           /\ s.block # <<>> /\ piece = "close" => t.block = <<>> /\ t.out = s.out
           /\ s.block # <<>> /\ piece # "close" => t.block # <<>> /\ t.out = s.out
           /\ s.block = <<>> /\ piece = "open"  => t.block # <<>> /\ t.out = s.out
           /\ s.block = <<>> /\ piece # "open"  =>
                 /\ t.block = <<>>
                 /\ \/ piece = "space" /\ t.out = s.out
                    \/ t.out = Append(s.out, piece)
  <1> DEFINE t == BlockReader[<<s, piece>>]
             single == <<piece>>
  <1>1. /\ s.out \in Seq(Pieces) /\ s.block \in Seq(Pieces) /\ s.trim \in BOOLEAN
        /\ Append(s.out, piece) \in Seq(Pieces) /\ Append(s.block, piece) \in Seq(Pieces)
        /\ Append(s.block, piece) # <<>>
    BY AppendProperties DEF BlockStates
  <1>2. single \in Seq(Pieces) /\ single # <<>>
    OBVIOUS
  <1>3. <<>> \in Seq(Pieces)
    BY EmptySeq
  <1>4. t = IF s.block # <<>>
            THEN IF piece = "close" THEN [s EXCEPT !.block = <<>>, !.trim = TRUE]
                 ELSE [s EXCEPT !.block = Append(@, piece)]
            ELSE IF piece = "open" THEN [s EXCEPT !.block = single]
            ELSE IF piece = "space" /\ s.trim THEN s
            ELSE [s EXCEPT !.out = Append(@, piece), !.trim = FALSE]
    BY DEF BlockReader, BlockStates
  <1> HIDE DEF t, single
  <1>5. CASE s.block # <<>> /\ piece = "close"
    <2>1. t = [s EXCEPT !.block = <<>>, !.trim = TRUE]
      BY <1>4, <1>5
    <2> QED  BY <1>1, <1>3, <1>5, <2>1 DEF t, BlockStates
  <1>6. CASE s.block # <<>> /\ piece # "close"
    <2>1. t = [s EXCEPT !.block = Append(@, piece)]
      BY <1>4, <1>6
    <2> QED  BY <1>1, <1>6, <2>1 DEF t, BlockStates
  <1>7. CASE s.block = <<>> /\ piece = "open"
    <2>1. t = [s EXCEPT !.block = single]
      BY <1>4, <1>7
    <2> QED  BY <1>1, <1>2, <1>7, <2>1 DEF t, BlockStates
  <1>8. CASE s.block = <<>> /\ piece # "open"
    <2>1. CASE piece = "space" /\ s.trim
      <3>1. t = s
        BY <1>4, <1>8, <2>1
      <3> QED  BY <1>8, <2>1, <3>1 DEF t
    <2>2. CASE ~(piece = "space" /\ s.trim)
      <3>1. t = [s EXCEPT !.out = Append(@, piece), !.trim = FALSE]
        BY <1>4, <1>8, <2>2
      <3> QED  BY <1>1, <1>8, <3>1 DEF t, BlockStates
    <2> QED  BY <2>1, <2>2
  <1> QED  BY <1>5, <1>6, <1>7, <1>8

LEMMA BlockReaderReads == ASSUME NEW s \in BlockStates PROVE Reader(BlockStates, BlockReader, s)
  <1>1. \A x \in BlockStates, piece \in Pieces : BlockReader[<<x, piece>>] \in BlockStates
    BY BlockMove
  <1>2. BlockReader = [x \in BlockStates \X Pieces |-> BlockReader[x]]
    BY DEF BlockReader, BlockStates
  <1> HIDE DEF BlockStates
  <1>3. \A x \in BlockStates \X Pieces :
           x = <<x[1], x[2]>> /\ x[1] \in BlockStates /\ x[2] \in Pieces
    OBVIOUS
  <1>4. \A x \in BlockStates \X Pieces : BlockReader[x] \in BlockStates
    BY <1>1, <1>3
  <1> QED  BY <1>2, <1>4 DEF Reader

LEMMA UnreadType == Unread \in BlockStates
  BY EmptySeq DEF Unread, BlockStates

LEMMA UnblockedType ==
    ASSUME NEW s \in BlockStates, NEW text \in Seq(Pieces) PROVE Unblocked(s, text) \in BlockStates
  BY BlockReaderReads, FinalType DEF Unblocked

LEMMA UnblockedConcat ==
    ASSUME NEW s \in BlockStates, NEW head \in Seq(Pieces), NEW tail \in Seq(Pieces)
    PROVE  Unblocked(s, head \o tail) = Unblocked(Unblocked(s, head), tail)
  BY BlockReaderReads, FinalOfConcat DEF Unblocked

\* Text outside of blocks is kept up to spaces.
LEMMA TextIsKept ==
    ASSUME NEW s \in BlockStates, s.block = <<>>, NEW text \in Seq(Pieces),
           \A i \in 1 .. Len(text) : text[i] # "open"
    PROVE  /\ Unblocked(s, text).block = <<>>
           /\ Words(Unblocked(s, text).out) = Words(s.out) \o Words(text)
  <1> DEFINE w == Words(s.out)
             R == {x \in BlockStates \X Seq(Pieces) : x[1].block = <<>> /\ Words(x[1].out) = x[2]}
  <1>1. s.out \in Seq(Pieces) /\ <<>> \in Seq(Pieces)
    BY EmptySeq DEF BlockStates
  <1>2. w \in Seq(Pieces)
    BY <1>1, WordsType
  <1>3. Reader(BlockStates, BlockReader, s) /\ Reader(Seq(Pieces), WordReader, w)
    BY <1>2, BlockReaderReads, WordReaderReads
  <1>4. <<s, w>> \in R
    BY <1>2
  <1>5. ASSUME NEW x \in BlockStates, NEW y \in Seq(Pieces), NEW i \in 1 .. Len(text),
               <<x, y>> \in R
        PROVE  <<BlockReader[<<x, text[i]>>], WordReader[<<y, text[i]>>]>> \in R
    <2> DEFINE piece == text[i]
               t == BlockReader[<<x, piece>>]
               v == WordReader[<<y, piece>>]
    <2>1. /\ piece \in Pieces /\ piece # "open" /\ x.block = <<>> /\ Words(x.out) = y
          /\ x.out \in Seq(Pieces)
      BY <1>5, ElementOfSeq DEF BlockStates
    <2>2. /\ t \in BlockStates /\ t.block = <<>>
          /\ (piece = "space" /\ t.out = x.out) \/ t.out = Append(x.out, piece)
      BY <2>1, BlockMove
    <2>3. v = IF piece = "space" THEN y ELSE Append(y, piece)
      BY <2>1 DEF WordReader
    <2>4. v \in Seq(Pieces)
      BY <2>1, <2>3, AppendProperties
    <2>5. Words(Append(x.out, piece)) = v
      BY <2>1, <2>3, WordsOfAppend
    <2>6. Words(t.out) = v
      BY <2>1, <2>2, <2>3, <2>5
    <2> HIDE DEF t, v
    <2> QED  BY <2>2, <2>4, <2>6 DEF t, v
  <1> HIDE DEF R, w
  <1>6. <<Unblocked(s, text), FinalState(WordReader, w, text)>> \in R
    BY <1>3, <1>4, <1>5, ReadersRelate DEF Unblocked
  <1>7. FinalState(WordReader, w, text) = Words(s.out \o text)
    <2>1. Reader(Seq(Pieces), WordReader, <<>>)
      BY <1>1, WordReaderReads
    <2> QED  BY <1>1, <2>1, FinalOfConcat DEF Words, w
  <1>8. Words(s.out \o text) = w \o Words(text)
    BY <1>1, WordsOfConcat DEF w
  <1> QED  BY <1>6, <1>7, <1>8 DEF R, w

\* Nothing of a block is kept until it is closed.
LEMMA BlockIsHeld ==
    ASSUME NEW s \in BlockStates, NEW text \in Seq(Pieces),
           s.block # <<>> \/ (1 <= Len(text) /\ text[1] = "open"),
           \A i \in 1 .. Len(text) : text[i] # "close"
    PROVE  Unblocked(s, text).block # <<>> /\ Unblocked(s, text).out = s.out
  <1> DEFINE f == States(BlockReader, s, text)
             n == Len(text)
             T == {k \in 0 .. n : /\ s.block # <<>> \/ 1 <= k => f[k].block # <<>>
                                  /\ f[k].out = s.out}
  <1>1. n \in Nat
    BY LenProperties
  <1>2. Trace(BlockStates, BlockReader, s, text, f)
    BY BlockReaderReads, StatesSteps
  <1> HIDE DEF f
  <1>3. 0 \in T
    BY <1>1, <1>2 DEF Trace
  <1>4. ASSUME NEW k \in 1 .. n, k - 1 \in T PROVE k \in T
    <2>1. k \in 0 .. n /\ k - 1 \in 0 .. n /\ text[k] \in Pieces /\ text[k] # "close"
      BY <1>1, ElementOfSeq
    <2>2. f[k] = BlockReader[<<f[k - 1], text[k]>>] /\ f[k - 1] \in BlockStates
      BY <1>2, <2>1 DEF Trace
    <2>3. /\ s.block # <<>> \/ 1 <= k - 1 => f[k - 1].block # <<>>
          /\ f[k - 1].out = s.out
      BY <1>4
    <2>4. CASE f[k - 1].block # <<>>
      <3>1. f[k].block # <<>> /\ f[k].out = f[k - 1].out
        BY <2>1, <2>2, <2>4, BlockMove
      <3> QED  BY <2>1, <2>3, <3>1
    <2>5. CASE f[k - 1].block = <<>>
      <3>1. k = 1 /\ text[k] = "open"
        BY <1>1, <2>3, <2>5
      <3>2. f[k].block # <<>> /\ f[k].out = f[k - 1].out
        BY <2>1, <2>2, <2>5, <3>1, BlockMove
      <3> QED  BY <2>1, <2>3, <3>2
    <2> QED  BY <2>4, <2>5
  <1>5. n \in T
    <2> HIDE DEF T, n
    <2>1. \A k \in 0 .. n : k \in T
      BY <1>1, <1>3, <1>4, StepByStep
    <2> QED  BY <1>1, <2>1
  <1> QED  BY <1>1, <1>5 DEF f, Unblocked, FinalState

-----------------------------------------------------------------------------
(* The filter of the stream beside the one of the whole answer.            *)

LEMMA FirstClose ==
    ASSUME NEW chunk \in Seq(Pieces), NEW m \in 1 .. Len(chunk), chunk[m] = "close",
           \A i \in 1 .. m - 1 : chunk[i] # "close"
    PROVE  FirstIndex(chunk, "close") = m /\ Holds(chunk, "close")
  <1> DEFINE Is(i) == chunk[i] = "close" /\ \A j \in 1 .. i - 1 : chunk[j] # "close"
  <1>1. Len(chunk) \in Nat /\ DOMAIN chunk = 1 .. Len(chunk)
    BY LenProperties
  <1>2. ASSUME NEW i \in 1 .. Len(chunk), Is(i) PROVE i = m
    <2>1. ~(i < m)
      <3>1. i < m => i \in 1 .. m - 1
        BY <1>1
      <3> QED  BY <1>2, <3>1
    <2>2. ~(m < i)
      <3>1. m < i => m \in 1 .. i - 1
        BY <1>1
      <3> QED  BY <1>2, <3>1
    <2> QED  BY <1>1, <2>1, <2>2
  <1>3. Is(m)
    OBVIOUS
  <1>4. FirstIndex(chunk, "close") = CHOOSE i \in 1 .. Len(chunk) : Is(i)
    BY <1>1 DEF FirstIndex
  <1> HIDE DEF Is
  <1>5. FirstIndex(chunk, "close") = m
    BY <1>2, <1>3, <1>4
  <1> QED  BY <1>1, <1>5 DEF Holds

LEMMA FirstCloseIsThere ==
    ASSUME NEW chunk \in Seq(Pieces), Holds(chunk, "close")
    PROVE  FirstIndex(chunk, "close") \in 1 .. Len(chunk)
  <1> DEFINE T == {i \in 1 .. Len(chunk) : chunk[i] = "close"}
  <1>1. Len(chunk) \in Nat /\ DOMAIN chunk = 1 .. Len(chunk)
    BY LenProperties
  <1>2. T \in SUBSET Nat /\ T # {}
    BY <1>1 DEF Holds
  <1>3. PICK m \in T : \A i \in T : m <= i
    <2> HIDE DEF T
    <2> QED  BY <1>2, LeastOf
  <1>4. \A i \in 1 .. m - 1 : chunk[i] # "close"
    <2>1. \A i \in 1 .. m - 1 : i \in 1 .. Len(chunk) /\ ~(m <= i)
      BY <1>1
    <2> QED  BY <1>3, <2>1
  <1> QED  BY <1>4, FirstClose

\* A text is what is up to a place in it and what is after it.
LEMMA UpToAndAfter ==
    ASSUME NEW text \in Seq(Pieces), NEW m \in 1 .. Len(text)
    PROVE  LET head == SubSeq(text, 1, m - 1)  tail == SubSeq(text, m + 1, Len(text)) IN
           /\ text[m] \in Pieces /\ head \in Seq(Pieces) /\ tail \in Seq(Pieces)
           /\ text = Append(head, text[m]) \o tail
           /\ Len(head) = m - 1 /\ \A i \in 1 .. m - 1 : head[i] = text[i]
           /\ Len(tail) = Len(text) - m /\ \A i \in 1 .. Len(text) - m : tail[i] = text[m + i]
  <1> DEFINE n == Len(text)
             head == SubSeq(text, 1, m - 1)
             tail == SubSeq(text, m + 1, n)
  <1>1. n \in Nat /\ \A i \in 1 .. n : text[i] \in Pieces
    BY LenProperties, ElementOfSeq
  <1>2. /\ text[m] \in Pieces /\ head \in Seq(Pieces)
        /\ SubSeq(text, 1, m) = Append(head, text[m])
    BY BeginningOf
  <1>3. /\ Len(head) = IF 1 <= m - 1 THEN (m - 1) - 1 + 1 ELSE 0
        /\ \A i \in 1 .. (m - 1) - 1 + 1 : head[i] = text[1 + i - 1]
    <2>1. 1 \in Int /\ m - 1 \in Int /\ \A i \in 1 .. m - 1 : text[i] \in Pieces
      BY <1>1
    <2> QED  BY <2>1, SubSeqProperties
  <1>4. /\ m + 1 \in Int /\ n \in Int /\ n - (m + 1) + 1 = n - m
        /\ \A i \in m + 1 .. n : i \in 1 .. n
        /\ m + 1 <= n \/ n - m = 0
        /\ \A i \in 1 .. n - m : (m + 1) + i - 1 = m + i
    <2> HIDE DEF n
    <2>1. m \in 1 .. n
      BY DEF n
    <2> QED  BY <1>1, <2>1, TailOf
  <1>5. /\ tail \in Seq(Pieces)
        /\ Len(tail) = IF m + 1 <= n THEN n - (m + 1) + 1 ELSE 0
        /\ \A i \in 1 .. n - (m + 1) + 1 : tail[i] = text[(m + 1) + i - 1]
    <2>1. m + 1 \in Int /\ n \in Int /\ \A i \in m + 1 .. n : text[i] \in Pieces
      BY <1>1, <1>4
    <2> HIDE DEF n
    <2> QED  BY <2>1, SubSeqProperties
  <1>6. SubSeq(text, 1, m) \o tail = SubSeq(text, 1, n)
    <2>1. 1 \in 1 .. n + 1 /\ m \in 1 - 1 .. n /\ n \in m .. n
      BY <1>1
    <2> QED  BY <2>1, ConcatAdjacentSubSeq
  <1>7. text = Append(head, text[m]) \o tail
    BY <1>2, <1>6, SubSeqFull
  <1>8. Len(head) = m - 1 /\ \A i \in 1 .. m - 1 : head[i] = text[i]
    <2> HIDE DEF head
    <2>1. /\ (m - 1) - 1 + 1 = m - 1 /\ (1 <= m - 1 \/ m - 1 = 0)
          /\ \A i \in 1 .. m - 1 : 1 + i - 1 = i
      BY <1>1
    <2> QED  BY <1>1, <1>3, <2>1
  <1>9. Len(tail) = n - m /\ \A i \in 1 .. n - m : tail[i] = text[m + i]
    <2> HIDE DEF tail, n
    <2> QED  BY <1>4, <1>5
  <1> HIDE DEF head, tail
  <1> QED  BY <1>2, <1>5, <1>7, <1>8, <1>9 DEF head, tail

LEMMA BlockAndTextIsRead ==
    ASSUME NEW s \in BlockStates, NEW mode \in {"answer", "think"},
           (s.block = <<>>) <=> (mode = "answer"),
           NEW chunk \in Seq(Pieces), BlockThenText(mode, chunk, Len(chunk))
    PROVE  /\ Unblocked(s, chunk).block = <<>>
           /\ After(chunk, "close") \in Seq(Pieces) /\ Holds(chunk, "close")
           /\ Words(Unblocked(s, chunk).out) = Words(s.out) \o Words(After(chunk, "close"))
  <1>1. PICK m \in 1 .. Len(chunk) :
            /\ chunk[m] = "close"
            /\ \A i \in 1 .. m - 1 : chunk[i] # "close"
            /\ \A i \in m + 1 .. Len(chunk) : chunk[i] \in {"word", "space"}
    BY DEF BlockThenText
  <1> DEFINE head == SubSeq(chunk, 1, m - 1)
             tail == SubSeq(chunk, m + 1, Len(chunk))
             held == Unblocked(s, head)
             closed == Unblocked(s, Append(head, "close"))
  <1>2. Len(chunk) \in Nat
    BY LenProperties
  <1>3. /\ "close" \in Pieces /\ head \in Seq(Pieces) /\ tail \in Seq(Pieces)
        /\ chunk = Append(head, "close") \o tail
        /\ Len(head) = m - 1 /\ \A i \in 1 .. m - 1 : head[i] = chunk[i]
        /\ Len(tail) = Len(chunk) - m
        /\ \A i \in 1 .. Len(chunk) - m : tail[i] = chunk[m + i]
    <2> HIDE DEF head, tail
    <2> QED  BY <1>1, UpToAndAfter DEF head, tail
  <1>4. After(chunk, "close") = tail /\ Holds(chunk, "close")
    BY <1>1, FirstClose DEF After
  <1> HIDE DEF head, tail
  <1>5. held \in BlockStates /\ held.block # <<>> /\ held.out = s.out
    <2>1. \A i \in 1 .. Len(head) : head[i] # "close"
      BY <1>1, <1>3
    <2>2. s.block # <<>> \/ (1 <= Len(head) /\ head[1] = "open")
      <3>1. CASE mode = "think"
        BY <3>1
      <3>2. CASE mode = "answer"
        <4>1. 1 <= Len(chunk) /\ chunk[1] = "open"
          BY <3>2 DEF BlockThenText, Opened
        <4>2. m # 1
          BY <1>1, <4>1
        <4>3. 1 \in 1 .. m - 1 /\ 1 <= m - 1
          BY <1>2, <4>2
        <4> QED  BY <1>3, <4>1, <4>3
      <3> QED  BY <3>1, <3>2
    <2> QED  BY <1>3, <2>1, <2>2, BlockIsHeld, UnblockedType
  <1>6. closed = BlockReader[<<held, "close">>]
    BY <1>3, BlockReaderReads, FinalOfAppend DEF Unblocked
  <1> HIDE DEF held, closed
  <1>7. closed \in BlockStates /\ closed.block = <<>> /\ closed.out = s.out
    BY <1>3, <1>5, <1>6, BlockMove
  <1>8. \A i \in 1 .. Len(tail) : tail[i] # "open"
    <2>1. \A i \in 1 .. Len(chunk) - m : m + i \in m + 1 .. Len(chunk)
      BY <1>2
    <2> QED  BY <1>1, <1>3, <2>1
  <1>9. Unblocked(s, chunk) = Unblocked(closed, tail)
    <2>1. Append(head, "close") \in Seq(Pieces)
      BY <1>3, AppendProperties
    <2> QED  BY <1>3, <2>1, UnblockedConcat DEF closed
  <1>10. /\ Unblocked(closed, tail).block = <<>>
         /\ Words(Unblocked(closed, tail).out) = Words(closed.out) \o Words(tail)
    BY <1>3, <1>7, <1>8, TextIsKept
  <1> QED  BY <1>3, <1>4, <1>7, <1>9, <1>10

\* After any chunk the filter of the stream has shown the words that the filter
\* of the whole answer would keep, and its flag is up inside of a block.
LEMMA ChunkIsRead ==
    ASSUME NEW s \in BlockStates, NEW mode \in {"answer", "think"},
           (s.block = <<>>) <=> (mode = "answer"),
           NEW chunk \in Seq(Pieces), Orderly(chunk), ModeAfter(mode, chunk) # "bad",
           NEW flag \in BOOLEAN, flag <=> (mode = "think")
    PROVE  LET out == StreamChunk(flag, chunk)
               t   == Unblocked(s, chunk)
           IN  /\ ModeAfter(mode, chunk) \in {"answer", "think"}
               /\ (t.block = <<>>) <=> (ModeAfter(mode, chunk) = "answer")
               /\ out.flag \in BOOLEAN /\ (out.flag <=> (ModeAfter(mode, chunk) = "think"))
               /\ out.text \in Seq(Pieces) /\ (chunk = <<>> => out.text = <<>>)
               /\ Words(t.out) = Words(s.out) \o Words(out.text)
  <1> DEFINE out == StreamChunk(flag, chunk)
             t == Unblocked(s, chunk)
             after == ModeAfter(mode, chunk)
             thinking == flag \/ Holds(chunk, "open")
  <1>1. DOMAIN chunk = 1 .. Len(chunk) /\ Len(chunk) \in Nat
    BY LenProperties
  <1>2. /\ <<>> \in Seq(Pieces) /\ Len(<<>>) = 0 /\ s.out \in Seq(Pieces)
        /\ Words(s.out) \in Seq(Pieces)
    BY EmptySeq, WordsType DEF BlockStates
  <1>3. Words(s.out) \o Words(<<>>) = Words(s.out)
    BY <1>2, WordsOfNone, ConcatEmptySeq
  <1>4. CASE chunk = <<>>
    <2>1. t = s
      BY <1>4, BlockReaderReads, FinalOfNone DEF Unblocked
    <2>2. after = mode
      <3>1. mode \in Modes
        BY DEF Modes
      <3> QED  BY <1>4, <3>1, ModeReaderReads, FinalOfNone DEF ModeAfter
    <2>3. out = [flag |-> flag, text |-> <<>>]
      BY <1>4 DEF StreamChunk
    <2> HIDE DEF out, t, after
    <2> QED  BY <1>2, <1>3, <2>1, <2>2, <2>3 DEF out, t, after
  <1>5. CASE chunk # <<>> /\ after = "answer" /\ TextOnly(mode, chunk, Len(chunk))
    <2>1. /\ mode = "answer" /\ \A i \in 1 .. Len(chunk) : chunk[i] # "open"
      BY <1>5 DEF TextOnly
    <2>2. ~thinking
      BY <1>1, <2>1 DEF Holds
    <2>3. out = [flag |-> FALSE, text |-> Strip(chunk)]
      BY <1>5, <2>2 DEF StreamChunk
    <2>4. t.block = <<>> /\ Words(t.out) = Words(s.out) \o Words(chunk)
      BY <2>1, TextIsKept
    <2>5. Strip(chunk) \in Seq(Pieces) /\ Words(Strip(chunk)) = Words(chunk)
      BY StripKeepsWords
    <2> HIDE DEF out, t, after
    <2> QED  BY <1>5, <2>3, <2>4, <2>5 DEF out, t, after
  <1>6. ASSUME chunk # <<>>, Opened(mode, chunk) PROVE thinking
    BY <1>1, <1>6 DEF Opened, Holds
  <1>7. CASE chunk # <<>> /\ after = "think" /\ InBlock(mode, chunk, Len(chunk))
    <2>1. \A i \in 1 .. Len(chunk) : chunk[i] # "close"
      BY <1>7 DEF InBlock
    <2>2. thinking /\ ~Holds(chunk, "close")
      BY <1>1, <1>6, <1>7, <2>1 DEF InBlock, Holds
    <2>3. out = [flag |-> TRUE, text |-> <<>>]
      BY <1>7, <2>2 DEF StreamChunk
    <2>4. t.block # <<>> /\ t.out = s.out
      BY <1>7, <2>1, BlockIsHeld DEF InBlock, Opened
    <2> HIDE DEF out, t, after
    <2> QED  BY <1>2, <1>3, <1>7, <2>3, <2>4 DEF out, t, after
  <1>8. CASE chunk # <<>> /\ after = "answer" /\ BlockThenText(mode, chunk, Len(chunk))
    <2> DEFINE rest == After(chunk, "close")
    <2>1. /\ t.block = <<>> /\ rest \in Seq(Pieces) /\ Holds(chunk, "close")
          /\ Words(t.out) = Words(s.out) \o Words(rest)
      BY <1>8, BlockAndTextIsRead
    <2>2. thinking
      BY <1>6, <1>8 DEF BlockThenText
    <2>3. out = [flag |-> FALSE, text |-> Strip(rest)]
      BY <1>8, <2>1, <2>2 DEF StreamChunk
    <2> HIDE DEF rest
    <2>4. Strip(rest) \in Seq(Pieces) /\ Words(Strip(rest)) = Words(rest)
      BY <2>1, StripKeepsWords
    <2> HIDE DEF out, t, after
    <2> QED  BY <1>8, <2>1, <2>3, <2>4 DEF out, t, after
  <1>9. \/ after = "answer" /\ TextOnly(mode, chunk, Len(chunk))
        \/ after = "think"  /\ InBlock(mode, chunk, Len(chunk))
        \/ after = "answer" /\ BlockThenText(mode, chunk, Len(chunk))
    BY ChunkShape
  <1> HIDE DEF out, t, after
  <1> QED  BY <1>4, <1>5, <1>7, <1>8, <1>9

-----------------------------------------------------------------------------
(* The chats of an adapter.                                                *)

Streams ==
    [phase : {"idle", "streaming", "done", "failed"}, content : Seq(Pieces),
     reasoning : Seq(Pieces), mode : Modes \ {"bad"}, shown : Seq(Pieces),
     chunks : Nat, clean : BOOLEAN]

LlmTyped ==
    /\ provider \in {"openai", "ollama", "minimax"}
    /\ inThink \in BOOLEAN
    /\ stream \in [Chats -> Streams]

\* What a chat was shown so far of a stream s, under provider p.
ShownSoFar(p, flag, s) ==
    /\ p = "openai"  => /\ s.content = <<>> => s.shown = s.reasoning
                        /\ s.reasoning = <<>> => s.shown = s.content
    /\ p = "ollama"  => s.shown = s.content
    /\ p = "minimax" =>
          LET read == Unblocked(Unread, s.content) IN
          /\ s.mode \in {"answer", "think"} /\ (flag <=> (s.mode = "think"))
          /\ Unbroken(s.content)
          /\ (read.block = <<>>) <=> (s.mode = "answer")
          /\ Words(s.shown) = Words(read.out)
          /\ s.content = <<>> => s.shown = <<>>

\* What it was shown at the end is what the plain answer would be.
AsPlain(p, s) ==
    /\ p = "openai"  => /\ s.content = <<>> => s.shown = s.reasoning
                        /\ s.reasoning = <<>> => s.shown = s.content
    /\ p = "ollama"  => s.shown = s.content
    /\ p = "minimax" => IF s.content = <<>>
                        THEN s.shown \in {<<>>, WithoutThinking(s.reasoning)}
                        ELSE Words(s.shown) = Words(WithoutThinking(s.content))

\* The flag belongs to a clean stream alone.
Kept(c) ==
    /\ Running(c) /\ stream[c].clean =>
          /\ \A d \in Chats : Running(d) => d = c
          /\ ShownSoFar(provider, inThink, stream[c])
    /\ stream[c].phase = "done" /\ stream[c].clean => AsPlain(provider, stream[c])

LlmInvariant == LlmTyped /\ \A c \in Chats : Kept(c)

LEMMA ModeAfterType ==
    ASSUME NEW mode \in Modes, NEW chunk \in Seq(Pieces) PROVE ModeAfter(mode, chunk) \in Modes
  BY ModeReaderReads, FinalType DEF ModeAfter

LEMMA WholeType == ASSUME NEW text \in Seq(Pieces) PROVE Whole(text) \in Seq(Pieces)
  BY TagReaderReads, FinalType DEF Whole

LEMMA WithoutThinkingType ==
    ASSUME NEW text \in Seq(Pieces) PROVE WithoutThinking(text) \in Seq(Pieces)
  <1> DEFINE end == Unblocked(Unread, Whole(text))
  <1>1. end \in BlockStates
    BY UnreadType, WholeType, UnblockedType
  <1>2. WithoutThinking(text) = Strip(end.out \o end.block)
    BY DEF WithoutThinking, Unblocked
  <1> HIDE DEF end
  <1>3. end.out \in Seq(Pieces) /\ end.block \in Seq(Pieces)
    BY <1>1 DEF BlockStates
  <1>4. end.out \o end.block \in Seq(Pieces)
    BY <1>3, ConcatProperties
  <1> QED  BY <1>2, <1>4, StripKeepsWords

\* The plain answer to text without split tags and without an open block.
LEMMA WordsWithoutThinking ==
    ASSUME NEW text \in Seq(Pieces), Unbroken(text), Unblocked(Unread, text).block = <<>>
    PROVE  Words(WithoutThinking(text)) = Words(Unblocked(Unread, text).out)
  <1> DEFINE end == Unblocked(Unread, text)
  <1>1. end \in BlockStates
    BY UnreadType, UnblockedType
  <1>2. WithoutThinking(text) = Strip(end.out \o end.block)
    BY UnbrokenIsWhole DEF WithoutThinking, Unblocked
  <1>3. end.block = <<>>
    OBVIOUS
  <1> HIDE DEF end
  <1>4. end.out \in Seq(Pieces)
    BY <1>1 DEF BlockStates
  <1>5. WithoutThinking(text) = Strip(end.out)
    BY <1>2, <1>3, <1>4, ConcatEmptySeq
  <1>6. Words(Strip(end.out)) = Words(end.out)
    BY <1>4, StripKeepsWords
  <1> QED  BY <1>5, <1>6 DEF end

LEMMA StreamChunkFlag ==
    ASSUME NEW flag \in BOOLEAN, NEW chunk PROVE StreamChunk(flag, chunk).flag \in BOOLEAN
  BY DEF StreamChunk

\* Whatever chunk comes, a text is returned.
LEMMA StreamChunkText ==
    ASSUME NEW flag, NEW chunk \in Seq(Pieces) PROVE StreamChunk(flag, chunk).text \in Seq(Pieces)
  <1>1. <<>> \in Seq(Pieces) /\ Strip(chunk) \in Seq(Pieces)
    BY EmptySeq, StripKeepsWords
  <1>2. ASSUME Holds(chunk, "close") PROVE Strip(After(chunk, "close")) \in Seq(Pieces)
    <2>1. PICK m \in 1 .. Len(chunk) : FirstIndex(chunk, "close") = m
      BY <1>2, FirstCloseIsThere
    <2>2. After(chunk, "close") \in Seq(Pieces)
      BY <2>1, UpToAndAfter DEF After
    <2> QED  BY <2>2, StripKeepsWords
  <1> QED  BY <1>1, <1>2 DEF StreamChunk

LEMMA ProcessedNothing ==
    ASSUME LlmTyped
    PROVE  /\ Processed(inThink, <<>>, <<"thought">>).flag = inThink
           /\ Processed(inThink, <<>>, <<"thought">>).text =
                 IF provider = "openai" THEN <<"thought">> ELSE <<>>
  <1>1. CASE provider = "openai"
    BY <1>1 DEF Processed, OpenAIChunk
  <1>2. CASE provider = "ollama"
    BY <1>2 DEF Processed, OllamaChunk
  <1>3. CASE provider = "minimax"
    BY <1>3 DEF Processed, StreamChunk
  <1> QED  BY <1>1, <1>2, <1>3 DEF LlmTyped

\* A chunk of content keeps what a chat is shown in step with what it was sent.
LEMMA ContentIsShown ==
    ASSUME LlmTyped, NEW s \in Streams, ShownSoFar(provider, inThink, s),
           NEW chunk \in Seq(Pieces), ModeAfter(s.mode, chunk) # "bad",
           provider = "minimax" => Orderly(chunk),
           NEW t, t.reasoning = s.reasoning, t.content = s.content \o chunk,
           t.mode = ModeAfter(s.mode, chunk),
           t.shown = s.shown \o Processed(inThink, chunk, <<>>).text
    PROVE  /\ t.shown \in Seq(Pieces)
           /\ ShownSoFar(provider, Processed(inThink, chunk, <<>>).flag, t)
  <1> DEFINE out == Processed(inThink, chunk, <<>>)
  <1>1. s.content \in Seq(Pieces) /\ s.shown \in Seq(Pieces) /\ s.reasoning \in Seq(Pieces)
    BY DEF Streams
  <1>2. t.content \in Seq(Pieces) /\ (t.content = <<>> => s.content = <<>> /\ chunk = <<>>)
    <2>1. Len(t.content) = Len(s.content) + Len(chunk) /\ t.content \in Seq(Pieces)
      BY <1>1, ConcatProperties
    <2>2. Len(s.content) \in Nat /\ Len(chunk) \in Nat
      BY <1>1, LenProperties
    <2>3. t.content = <<>> => Len(s.content) = 0 /\ Len(chunk) = 0
      BY <2>1, <2>2
    <2> QED  BY <1>1, <2>1, <2>3, EmptySeq
  <1>3. CASE provider = "openai"
    <2>1. out.text = chunk
      BY <1>3 DEF Processed, OpenAIChunk
    <2>2. s.content = <<>> => s.shown = s.reasoning
      BY <1>3 DEF ShownSoFar
    <2>3. s.reasoning = <<>> => s.shown = s.content
      BY <1>3 DEF ShownSoFar
    <2> HIDE DEF out
    <2>4. t.shown = s.shown \o chunk /\ t.shown \in Seq(Pieces)
      <3>1. s.shown \o chunk \in Seq(Pieces)
        BY <1>1, ConcatProperties
      <3>2. t.shown = s.shown \o out.text
        BY DEF out
      <3> QED  BY <2>1, <3>1, <3>2
    <2>5. t.content = <<>> => t.shown = t.reasoning
      BY <1>1, <1>2, <2>2, <2>4, ConcatEmptySeq
    <2>6. t.reasoning = <<>> => t.shown = t.content
      BY <2>3, <2>4
    <2> QED  BY <1>3, <2>4, <2>5, <2>6 DEF ShownSoFar
  <1>4. CASE provider = "ollama"
    <2>1. out.text = chunk
      BY <1>4 DEF Processed, OllamaChunk
    <2>2. t.shown = t.content
      BY <1>4, <2>1 DEF ShownSoFar
    <2> QED  BY <1>2, <1>4, <2>2 DEF ShownSoFar
  <1>5. CASE provider = "minimax"
    <2> DEFINE read == Unblocked(Unread, s.content)
    <2>1. /\ s.mode \in {"answer", "think"} /\ (inThink <=> (s.mode = "think"))
          /\ Unbroken(s.content)
          /\ (read.block = <<>>) <=> (s.mode = "answer")
          /\ Words(s.shown) = Words(read.out)
          /\ s.content = <<>> => s.shown = <<>>
      BY <1>5 DEF ShownSoFar
    <2>2. out = StreamChunk(inThink, chunk) /\ Orderly(chunk) /\ inThink \in BOOLEAN
      BY <1>5 DEF Processed, LlmTyped
    <2>3. read \in BlockStates
      BY <1>1, UnreadType, UnblockedType
    <2>4. Unblocked(Unread, t.content) = Unblocked(read, chunk)
      BY <1>1, UnreadType, UnblockedConcat
    <2> HIDE DEF read, out
    <2> DEFINE after == Unblocked(read, chunk)
    <2>5. /\ t.mode \in {"answer", "think"}
          /\ (after.block = <<>>) <=> (t.mode = "answer")
          /\ out.flag \in BOOLEAN /\ (out.flag <=> (t.mode = "think"))
          /\ out.text \in Seq(Pieces) /\ (chunk = <<>> => out.text = <<>>)
          /\ Words(after.out) = Words(read.out) \o Words(out.text)
      BY <2>1, <2>2, <2>3, ChunkIsRead
    <2> HIDE DEF after
    <2>6. t.shown = s.shown \o out.text /\ t.shown \in Seq(Pieces)
      BY <1>1, <2>5, ConcatProperties DEF out
    <2>7. Words(t.shown) = Words(after.out)
      <3>1. Words(s.shown \o out.text) = Words(s.shown) \o Words(out.text)
        BY <1>1, <2>5, WordsOfConcat
      <3> QED  BY <2>1, <2>5, <2>6, <3>1
    <2>8. t.content = <<>> => t.shown = <<>>
      BY <1>1, <1>2, <2>1, <2>5, <2>6, ConcatEmptySeq
    <2>9. Unbroken(t.content)
      <3>1. /\ Len(t.content) = Len(s.content) + Len(chunk)
            /\ \A i \in 1 .. Len(s.content) + Len(chunk) :
                  t.content[i] = IF i <= Len(s.content) THEN s.content[i]
                                 ELSE chunk[i - Len(s.content)]
        BY <1>1, ConcatProperties
      <3>2. /\ Len(s.content) \in Nat /\ Len(chunk) \in Nat /\ DOMAIN chunk = 1 .. Len(chunk)
        BY <1>1, LenProperties
      <3>3. \A i \in 1 .. Len(chunk) : chunk[i] \notin {"open1", "open2", "close1", "close2"}
        BY <2>2, <3>2 DEF Orderly
      <3>4. \A i \in 1 .. Len(s.content) + Len(chunk) :
               \/ i \in 1 .. Len(s.content)
               \/ ~(i <= Len(s.content)) /\ i - Len(s.content) \in 1 .. Len(chunk)
        BY <3>2
      <3>5. \A i \in 1 .. Len(s.content) : i <= Len(s.content)
        BY <3>2
      <3> QED  BY <2>1, <3>1, <3>3, <3>4, <3>5 DEF Unbroken
    <2> QED  BY <1>5, <2>4, <2>5, <2>6, <2>7, <2>8, <2>9 DEF ShownSoFar, after, out
  <1> QED  BY <1>3, <1>4, <1>5 DEF LlmTyped

\* Every chunk and every end of a stream is a step of one chat: it starts no
\* stream, and touches the flag only while it streams.
LEMMA OneChatSteps ==
    ASSUME LlmInvariant, NEW c \in Chats, NEW new \in Streams,
           stream' = [stream EXCEPT ![c] = new],
           provider' = provider, inThink' \in BOOLEAN, inThink' = inThink \/ Running(c),
           new.phase = "streaming" => Running(c),
           new.phase = "streaming" /\ new.clean =>
              stream[c].clean /\ ShownSoFar(provider, inThink', new),
           new.phase = "done" /\ new.clean => AsPlain(provider, new)
    PROVE  LlmInvariant'
  <1>1. /\ stream \in [Chats -> Streams] /\ stream' \in [Chats -> Streams]
        /\ stream'[c] = new /\ \A d \in Chats \ {c} : stream'[d] = stream[d]
    BY DEF LlmInvariant, LlmTyped
  <1>2. LlmTyped'
    BY <1>1 DEF LlmInvariant, LlmTyped
  <1>3. \A d \in Chats : Running(d)' => Running(d)
    BY <1>1 DEF Running
  <1>4. ASSUME NEW d \in Chats PROVE Kept(d)'
    <2>1. Kept(d) /\ Kept(c)
      BY DEF LlmInvariant
    <2>2. CASE d = c
      <3>1. ASSUME Running(c)', stream'[c].clean
            PROVE  /\ \A e \in Chats : Running(e)' => e = c
                   /\ ShownSoFar(provider', inThink', stream'[c])
        <4>1. Running(c) /\ stream[c].clean /\ ShownSoFar(provider, inThink', new)
          BY <1>1, <3>1 DEF Running
        <4>2. \A e \in Chats : Running(e) => e = c
          BY <2>1, <4>1 DEF Kept
        <4> QED  BY <1>1, <1>3, <4>1, <4>2
      <3>2. ASSUME stream'[c].phase = "done", stream'[c].clean
            PROVE  AsPlain(provider', stream'[c])
        BY <1>1, <3>2
      <3> QED  BY <2>2, <3>1, <3>2 DEF Kept
    <2>3. CASE d # c
      <3>1. stream'[d] = stream[d]
        BY <1>1, <2>3
      <3>2. ASSUME Running(d), stream[d].clean
            PROVE  /\ \A e \in Chats : Running(e)' => e = d
                   /\ ShownSoFar(provider', inThink', stream[d])
        <4>1. /\ \A e \in Chats : Running(e) => e = d
              /\ ShownSoFar(provider, inThink, stream[d])
          BY <2>1, <3>2 DEF Kept
        <4>2. inThink' = inThink
          BY <2>3, <4>1
        <4> QED  BY <1>3, <4>1, <4>2
      <3>3. stream[d].phase = "done" /\ stream[d].clean => AsPlain(provider', stream[d])
        BY <2>1 DEF Kept
      <3>4. Running(d)' <=> Running(d)
        BY <3>1 DEF Running
      <3> QED  BY <3>1, <3>2, <3>3, <3>4 DEF Kept
    <2> QED  BY <2>2, <2>3
  <1> QED  BY <1>2, <1>4 DEF LlmInvariant

LEMMA SilentType == Silent \in Streams
  BY EmptySeq DEF Silent, Streams, Modes

LEMMA StreamTypes ==
    ASSUME LlmTyped, NEW c \in Chats
    PROVE  /\ stream[c] \in Streams /\ stream[c].content \in Seq(Pieces)
           /\ stream[c].reasoning \in Seq(Pieces) /\ stream[c].shown \in Seq(Pieces)
           /\ stream[c].mode \in Modes /\ stream[c].mode # "bad"
           /\ stream[c].chunks \in Nat /\ stream[c].clean \in BOOLEAN
           /\ stream[c].phase \in {"idle", "streaming", "done", "failed"}
  BY DEF LlmTyped, Streams

\* The chat with its next delta is a stream.
LEMMA GivenType ==
    ASSUME LlmTyped, NEW c \in Chats, NEW text,
           stream[c].clean => stream[c].shown \o text \in Seq(Pieces)
    PROVE  /\ Given(c, text) \in Streams
           /\ Given(c, text).phase = stream[c].phase /\ Given(c, text).clean = stream[c].clean
           /\ Given(c, text).mode = stream[c].mode
           /\ Given(c, text).content = stream[c].content
           /\ Given(c, text).reasoning = stream[c].reasoning
           /\ stream[c].clean => Given(c, text).shown = stream[c].shown \o text
  <1>1. Given(c, text) =
           [stream[c] EXCEPT !.shown  = IF stream[c].clean THEN stream[c].shown \o text
                                        ELSE stream[c].shown,
                             !.chunks = stream[c].chunks + 1]
    BY DEF Given
  <1>2. stream[c] \in Streams
    BY StreamTypes
  <1>3. stream[c].chunks + 1 \in Nat
    BY StreamTypes
  <1>4. (IF stream[c].clean THEN stream[c].shown \o text ELSE stream[c].shown) \in Seq(Pieces)
    BY StreamTypes
  <1> QED  BY <1>1, <1>2, <1>3, <1>4 DEF Streams

LEMMA DisturbedType ==
    ASSUME NEW s \in Streams
    PROVE  /\ Disturbed(s) \in Streams /\ ~Disturbed(s).clean
           /\ Disturbed(s).phase = s.phase
  BY EmptySeq DEF Disturbed, Streams

LEMMA ContentChunkKeeps ==
    ASSUME LlmInvariant, NEW c \in Chats, ContentChunk(c) PROVE LlmInvariant'
  <1> DEFINE s == stream[c]
  <1>1. LlmTyped /\ s \in Streams /\ s.phase = "streaming" /\ Running(c)
    BY StreamTypes DEF LlmInvariant, ContentChunk, Running
  <1>2. PICK chunk \in Chunks :
           LET mode == ModeAfter(s.mode, chunk)
               out  == Processed(inThink, chunk, <<>>)
           IN  /\ mode # "bad"
               /\ inThink' = out.flag
               /\ stream' = [stream EXCEPT
                     ![c] = IF s.clean /\ (provider = "minimax" => Orderly(chunk))
                            THEN [Given(c, out.text) EXCEPT !.content = @ \o chunk, !.mode = mode]
                            ELSE [Disturbed(Given(c, out.text)) EXCEPT !.mode = mode]]
    BY DEF ContentChunk
  <1> DEFINE mode == ModeAfter(s.mode, chunk)
             out == Processed(inThink, chunk, <<>>)
             given == Given(c, out.text)
             told == [given EXCEPT !.content = @ \o chunk, !.mode = mode]
  <1>3. chunk \in Seq(Pieces)
    BY AdaptersAssumption
  <1>4. mode \in Modes \ {"bad"}
    BY <1>1, <1>2, <1>3, ModeAfterType, StreamTypes
  <1>5. inThink' \in BOOLEAN /\ provider' = provider
    <2>1. out.flag \in BOOLEAN
      BY <1>1, StreamChunkFlag DEF Processed, LlmTyped
    <2> QED  BY <1>2, <2>1 DEF ContentChunk
  <1>6. CASE s.clean /\ (provider = "minimax" => Orderly(chunk))
    <2>1. stream' = [stream EXCEPT ![c] = told]
      BY <1>2, <1>6
    <2>2. ShownSoFar(provider, inThink, s)
      BY <1>1, <1>6 DEF LlmInvariant, Kept
    <2> DEFINE t == [s EXCEPT !.content = s.content \o chunk, !.mode = mode,
                              !.shown = s.shown \o out.text]
    <2>3. /\ t.reasoning = s.reasoning /\ t.content = s.content \o chunk
          /\ t.mode = mode /\ t.shown = s.shown \o out.text
      BY <1>1 DEF Streams
    <2>4. t.shown \in Seq(Pieces) /\ ShownSoFar(provider, out.flag, t)
      <3> HIDE DEF t
      <3> QED  BY <1>1, <1>2, <1>3, <1>6, <2>2, <2>3, ContentIsShown
    <2>5. s.shown \o out.text \in Seq(Pieces)
      BY <2>3, <2>4
    <2>6. /\ given \in Streams /\ given.phase = "streaming" /\ given.clean
          /\ given.content = s.content /\ given.reasoning = s.reasoning
          /\ given.shown = s.shown \o out.text
      BY <1>1, <1>6, <2>5, GivenType
    <2>7. given.content \o chunk \in Seq(Pieces)
      BY <1>1, <1>3, <2>6, StreamTypes, ConcatProperties
    <2> HIDE DEF given, mode, out, t, s
    <2>8. /\ told \in Streams /\ told.phase = "streaming"
          /\ told.content = s.content \o chunk /\ told.reasoning = s.reasoning
          /\ told.shown = s.shown \o out.text /\ told.mode = mode
      BY <1>4, <2>6, <2>7 DEF Streams
    <2> HIDE DEF told
    <2>9. ShownSoFar(provider, inThink', told)
      <3>1. inThink' = out.flag
        BY <1>2 DEF out
      <3> QED  BY <2>3, <2>4, <2>8, <3>1 DEF ShownSoFar
    <2>10. s.clean
      BY <1>6
    <2> QED  BY <1>1, <1>5, <2>1, <2>8, <2>9, <2>10, OneChatSteps DEF s
  <1>7. CASE ~(s.clean /\ (provider = "minimax" => Orderly(chunk)))
    <2> DEFINE lost == [Disturbed(given) EXCEPT !.mode = mode]
    <2>1. stream' = [stream EXCEPT ![c] = lost]
      BY <1>2, <1>7
    <2>2. s.clean => s.shown \o out.text \in Seq(Pieces)
      <3>1. ASSUME s.clean PROVE out.text \in Seq(Pieces)
        <4>1. provider = "minimax"
          BY <1>7, <3>1
        <4>2. out = StreamChunk(inThink, chunk)
          BY <4>1 DEF Processed
        <4> QED  BY <1>3, <4>2, StreamChunkText
      <3> HIDE DEF out
      <3> QED  BY <1>1, <3>1, StreamTypes, ConcatProperties
    <2>3. given \in Streams /\ given.phase = "streaming"
      BY <1>1, <2>2, GivenType
    <2> HIDE DEF given, mode, out
    <2>4. /\ Disturbed(given) \in Streams /\ ~Disturbed(given).clean
          /\ Disturbed(given).phase = "streaming"
      BY <2>3, DisturbedType
    <2>5. lost \in Streams /\ lost.phase = "streaming" /\ ~lost.clean
      BY <1>4, <2>4 DEF Streams
    <2> HIDE DEF lost
    <2> QED  BY <1>1, <1>5, <2>1, <2>5, OneChatSteps
  <1> QED  BY <1>6, <1>7

LEMMA ReasoningChunkKeeps ==
    ASSUME LlmInvariant, NEW c \in Chats, ReasoningChunk(c) PROVE LlmInvariant'
  <1> DEFINE s == stream[c]
             thought == <<"thought">>
             out == Processed(inThink, <<>>, <<"thought">>)
             given == Given(c, out.text)
             told == [given EXCEPT !.reasoning = IF s.clean THEN Append(@, "thought") ELSE @]
  <1>1. LlmTyped /\ s \in Streams /\ s.phase = "streaming" /\ Running(c)
    BY StreamTypes DEF LlmInvariant, ReasoningChunk, Running
  <1>2. inThink' = out.flag /\ stream' = [stream EXCEPT ![c] = told] /\ provider' = provider
    BY DEF ReasoningChunk
  <1>3. "thought" \in Pieces /\ <<>> \in Seq(Pieces)
    BY EmptySeq DEF Pieces
  <1>4. thought \in Seq(Pieces) /\ Append(s.reasoning, "thought") = s.reasoning \o thought
    <2>1. thought \in Seq(Pieces)
      BY <1>3
    <2>2. s.reasoning \in Seq(Pieces)
      BY <1>1, StreamTypes
    <2> HIDE DEF s
    <2> QED  BY <1>3, <2>1, <2>2, AppendIsConcat
  <1>5. out.flag = inThink /\ out.text = IF provider = "openai" THEN thought ELSE <<>>
    BY <1>1, ProcessedNothing
  <1> HIDE DEF out, thought
  <1>6. s.shown \in Seq(Pieces) /\ s.reasoning \in Seq(Pieces) /\ s.content \in Seq(Pieces)
    BY <1>1, StreamTypes
  <1>7. out.text \in Seq(Pieces) /\ s.shown \o out.text \in Seq(Pieces)
    <2>1. out.text \in Seq(Pieces)
      BY <1>3, <1>4, <1>5
    <2> QED  BY <1>6, <2>1, ConcatProperties
  <1>8. /\ given \in Streams /\ given.phase = "streaming" /\ given.clean = s.clean
        /\ given.mode = s.mode /\ given.content = s.content /\ given.reasoning = s.reasoning
        /\ s.clean => given.shown = s.shown \o out.text
    BY <1>1, <1>7, GivenType
  <1> HIDE DEF given
  <1>9. Append(s.reasoning, "thought") \in Seq(Pieces) /\ Append(s.reasoning, "thought") # <<>>
    BY <1>3, <1>6, AppendProperties
  <1> HIDE DEF s
  <1>10. /\ told \in Streams /\ told.phase = "streaming" /\ told.clean = s.clean
         /\ told.mode = s.mode /\ told.content = s.content
         /\ s.clean => told.shown = s.shown \o out.text
                       /\ told.reasoning = Append(s.reasoning, "thought")
    <2>1. (IF s.clean THEN Append(given.reasoning, "thought") ELSE given.reasoning) \in Seq(Pieces)
      BY <1>6, <1>8, <1>9
    <2> QED  BY <1>8, <2>1 DEF Streams
  <1> HIDE DEF told
  <1>11. ASSUME s.clean PROVE ShownSoFar(provider, inThink', told)
    <2>1. ShownSoFar(provider, inThink, s)
      BY <1>1, <1>11 DEF LlmInvariant, Kept, s
    <2>2. CASE provider = "openai"
      <3>1. out.text = thought /\ (s.content = <<>> => s.shown = s.reasoning)
        BY <1>5, <2>1, <2>2 DEF ShownSoFar
      <3>2. told.content = <<>> => told.shown = told.reasoning
        BY <1>4, <1>10, <1>11, <3>1
      <3>3. told.reasoning # <<>>
        BY <1>9, <1>10, <1>11
      <3> QED  BY <2>2, <3>2, <3>3 DEF ShownSoFar
    <2>3. CASE provider # "openai"
      <3>1. told.shown = s.shown
        BY <1>5, <1>6, <1>10, <1>11, <2>3, ConcatEmptySeq
      <3>2. inThink' = inThink
        BY <1>2, <1>5
      <3> QED  BY <1>10, <2>1, <2>3, <3>1, <3>2 DEF ShownSoFar
    <2> QED  BY <2>2, <2>3
  <1>12. inThink' \in BOOLEAN /\ inThink' = inThink
    BY <1>1, <1>2, <1>5 DEF LlmTyped
  <1> QED  BY <1>1, <1>2, <1>10, <1>11, <1>12, OneChatSteps DEF s

LEMMA FinishKeeps ==
    ASSUME LlmInvariant, NEW c \in Chats, Finish(c) PROVE LlmInvariant'
  <1> DEFINE s == stream[c]
             new == [s EXCEPT !.phase = "done"]
  <1>1. LlmTyped /\ s \in Streams /\ s.phase = "streaming" /\ Running(c) /\ s.mode = "answer"
    BY StreamTypes DEF LlmInvariant, Finish, Running
  <1>2. /\ stream' = [stream EXCEPT ![c] = new] /\ provider' = provider
        /\ inThink' = inThink /\ inThink' \in BOOLEAN
    BY <1>1 DEF Finish, LlmTyped
  <1>3. /\ new \in Streams /\ new.phase = "done" /\ new.clean = s.clean
        /\ new.content = s.content /\ new.reasoning = s.reasoning /\ new.shown = s.shown
    BY <1>1 DEF Streams
  <1>4. ASSUME s.clean PROVE AsPlain(provider, s)
    <2>1. ShownSoFar(provider, inThink, s)
      BY <1>1, <1>4 DEF LlmInvariant, Kept
    <2>2. s.content \in Seq(Pieces)
      BY <1>1, StreamTypes
    <2> HIDE DEF s
    <2>3. ASSUME provider = "minimax"
          PROVE  /\ s.content = <<>> => s.shown = <<>>
                 /\ Words(s.shown) = Words(WithoutThinking(s.content))
      <3>1. /\ Unbroken(s.content) /\ Unblocked(Unread, s.content).block = <<>>
            /\ Words(s.shown) = Words(Unblocked(Unread, s.content).out)
            /\ s.content = <<>> => s.shown = <<>>
        BY <1>1, <2>1, <2>3 DEF ShownSoFar
      <3> QED  BY <2>2, <3>1, WordsWithoutThinking
    <2> QED  BY <2>1, <2>3 DEF AsPlain, ShownSoFar
  <1> HIDE DEF s, new
  <1>5. s.clean => AsPlain(provider, new)
    BY <1>3, <1>4 DEF AsPlain
  <1> QED  BY <1>1, <1>2, <1>3, <1>5, OneChatSteps

LEMMA FailKeeps ==
    ASSUME LlmInvariant, NEW c \in Chats, Fail(c) PROVE LlmInvariant'
  <1> DEFINE error == <<"error">>
             given == Given(c, error)
             new == [given EXCEPT !.phase = "failed"]
  <1>1. LlmTyped /\ Running(c)
    BY DEF LlmInvariant, Fail
  <1>2. /\ stream' = [stream EXCEPT ![c] = new] /\ provider' = provider
        /\ inThink' = inThink /\ inThink' \in BOOLEAN
    BY <1>1 DEF Fail, LlmTyped
  <1>3. error \in Seq(Pieces)
    BY DEF Pieces
  <1>4. stream[c].shown \o error \in Seq(Pieces)
    <2> HIDE DEF error
    <2> QED  BY <1>1, <1>3, StreamTypes, ConcatProperties
  <1>5. given \in Streams
    BY <1>1, <1>4, GivenType
  <1> HIDE DEF given
  <1>6. new \in Streams /\ new.phase = "failed"
    BY <1>5 DEF Streams
  <1> HIDE DEF new
  <1> QED  BY <1>1, <1>2, <1>6, OneChatSteps

LEMMA LeaveKeeps ==
    ASSUME LlmInvariant, NEW c \in Chats, Abandon(c) \/ Close(c) PROVE LlmInvariant'
  <1>1. /\ stream' = [stream EXCEPT ![c] = Silent] /\ provider' = provider
        /\ inThink' = inThink /\ inThink' \in BOOLEAN
    BY DEF Abandon, Close, LlmInvariant, LlmTyped
  <1>2. Silent \in Streams /\ Silent.phase = "idle"
    BY SilentType DEF Silent
  <1> QED  BY <1>1, <1>2, OneChatSteps

LEMMA PlainAnswers ==
    ASSUME LlmTyped, NEW content \in Seq(Pieces), NEW reasoning \in Seq(Pieces),
           NEW s, s.content = content, s.reasoning = reasoning,
           s.shown = PlainAnswer(content, reasoning)
    PROVE  s.shown \in Seq(Pieces) /\ AsPlain(provider, s)
  <1>1. CASE provider = "openai"
    BY <1>1 DEF PlainAnswer, PlainOpenAI, AsPlain
  <1>2. CASE provider = "ollama"
    BY <1>2 DEF PlainAnswer, AsPlain
  <1>3. CASE provider = "minimax"
    <2>1. s.shown = WithoutThinking(IF content = <<>> THEN reasoning ELSE content)
      BY <1>3 DEF PlainAnswer, PlainOpenAI
    <2>2. s.shown \in Seq(Pieces)
      BY <2>1, WithoutThinkingType
    <2> QED  BY <1>3, <2>1, <2>2 DEF AsPlain
  <1> QED  BY <1>1, <1>2, <1>3 DEF LlmTyped

LEMMA PlainRequestKeeps ==
    ASSUME LlmInvariant, NEW c \in Chats, PlainRequest(c) PROVE LlmInvariant'
  <1>1. LlmTyped /\ provider' = provider /\ inThink' = inThink /\ inThink' \in BOOLEAN
    BY DEF LlmInvariant, LlmTyped, PlainRequest
  <1>2. ASSUME NEW content \in Chunks \cup {<<>>}, NEW reasoning \in {<<>>, <<"thought">>},
               stream' = [stream EXCEPT
                  ![c] = [Silent EXCEPT !.phase = "done",
                             !.content = content, !.reasoning = reasoning,
                             !.shown = PlainAnswer(content, reasoning)]]
        PROVE  LlmInvariant'
    <2> DEFINE answer == PlainAnswer(content, reasoning)
               new == [Silent EXCEPT !.phase = "done", !.content = content,
                                     !.reasoning = reasoning, !.shown = answer]
    <2>1. content \in Seq(Pieces) /\ reasoning \in Seq(Pieces)
      <3>1. <<>> \in Seq(Pieces) /\ <<"thought">> \in Seq(Pieces)
        BY EmptySeq DEF Pieces
      <3>2. Chunks \subseteq Seq(Pieces)
        BY AdaptersAssumption
      <3>3. reasoning = <<>> \/ reasoning = <<"thought">>
        OBVIOUS
      <3> QED  BY <3>1, <3>2, <3>3, Zenon
    <2>2. stream' = [stream EXCEPT ![c] = new]
      BY <1>2
    <2> HIDE DEF answer
    <2>3. /\ new.content = content /\ new.reasoning = reasoning /\ new.shown = answer
          /\ new.phase = "done"
      BY DEF Silent
    <2>4. answer \in Seq(Pieces) /\ AsPlain(provider, new)
      <3> HIDE DEF new
      <3> QED  BY <1>1, <2>1, <2>3, PlainAnswers DEF answer
    <2>5. new \in Streams
      BY <2>1, <2>4, SilentType DEF Streams
    <2> HIDE DEF new
    <2> QED  BY <1>1, <2>2, <2>3, <2>4, <2>5, OneChatSteps
  <1>3. ASSUME stream' = [stream EXCEPT ![c] = [Silent EXCEPT !.phase = "failed",
                                                               !.shown = <<"error">>]]
        PROVE  LlmInvariant'
    <2> DEFINE error == <<"error">>
               new == [Silent EXCEPT !.phase = "failed", !.shown = error]
    <2>1. error \in Seq(Pieces)
      BY DEF Pieces
    <2>2. stream' = [stream EXCEPT ![c] = new]
      BY <1>3
    <2> HIDE DEF error
    <2>3. new \in Streams /\ new.phase = "failed"
      BY <2>1, SilentType DEF Streams
    <2> HIDE DEF new
    <2> QED  BY <1>1, <2>2, <2>3, OneChatSteps
  <1> QED  BY <1>2, <1>3 DEF PlainRequest

\* A request disturbs the streams that run, and is clean when none does and the
\* flag is down.
LEMMA RequestKeeps ==
    ASSUME LlmInvariant, NEW c \in Chats, Request(c) PROVE LlmInvariant'
  <1> DEFINE alone == ~inThink /\ \A e \in Chats : ~Running(e)
             new == [Silent EXCEPT !.phase = "streaming", !.clean = alone]
  <1>1. LlmTyped /\ provider' = provider /\ inThink' = inThink
    BY DEF LlmInvariant, Request
  <1>2. stream' = [d \in Chats |-> IF d = c THEN new
                                   ELSE IF Running(d) THEN Disturbed(stream[d]) ELSE stream[d]]
    BY DEF Request
  <1>3. alone \in BOOLEAN
    BY <1>1 DEF LlmTyped
  <1>4. alone => ~inThink /\ \A e \in Chats : ~Running(e)
    OBVIOUS
  <1> HIDE DEF alone
  <1>5. /\ new \in Streams /\ new.phase = "streaming" /\ new.clean = alone
        /\ new.content = <<>> /\ new.reasoning = <<>> /\ new.shown = <<>> /\ new.mode = "answer"
    BY <1>3, SilentType DEF Silent, Streams
  <1> HIDE DEF new
  <1>6. \A d \in Chats : Disturbed(stream[d]) \in Streams /\ ~Disturbed(stream[d]).clean
                         /\ Disturbed(stream[d]).phase = stream[d].phase
    BY <1>1, StreamTypes, DisturbedType
  <1>7. LlmTyped'
    <2>1. stream' \in [Chats -> Streams]
      BY <1>1, <1>2, <1>5, <1>6, StreamTypes
    <2> QED  BY <1>1, <2>1 DEF LlmTyped
  <1>8. ASSUME NEW d \in Chats PROVE Kept(d)'
    <2>1. CASE d = c
      <3>1. stream'[d] = new
        BY <1>2, <2>1
      <3>2. ASSUME new.clean
            PROVE  /\ \A e \in Chats : Running(e)' => e = d
                   /\ ShownSoFar(provider', inThink', new)
        <4>1. inThink = FALSE /\ \A e \in Chats : ~Running(e)
          BY <1>1, <1>4, <1>5, <3>2 DEF LlmTyped
        <4>2. \A e \in Chats : e # c => stream'[e] = stream[e]
          BY <1>2, <4>1
        <4>3. \A e \in Chats : Running(e)' => e = d
          BY <2>1, <4>1, <4>2 DEF Running
        <4>4. Unblocked(Unread, new.content) = Unread
          BY <1>5, UnreadType, BlockReaderReads, FinalOfNone DEF Unblocked
        <4>5. Unbroken(new.content)
          BY <1>5 DEF Unbroken
        <4>6. Words(new.shown) = Words(Unread.out) /\ Unread.block = <<>>
          BY <1>5 DEF Unread
        <4>7. ShownSoFar(provider, inThink, new)
          BY <1>5, <4>1, <4>4, <4>5, <4>6 DEF ShownSoFar
        <4> QED  BY <1>1, <4>3, <4>7
      <3>3. ~(stream'[d].phase = "done")
        BY <1>5, <3>1
      <3> QED  BY <3>1, <3>2, <3>3 DEF Kept
    <2>2. CASE d # c /\ Running(d)
      <3>1. stream'[d] = Disturbed(stream[d])
        BY <1>2, <2>2
      <3>2. ~stream'[d].clean
        BY <1>6, <3>1
      <3> QED  BY <3>2 DEF Kept
    <2>3. CASE d # c /\ ~Running(d)
      <3>1. stream'[d] = stream[d] /\ ~Running(d)'
        BY <1>2, <2>3 DEF Running
      <3>2. Kept(d)
        BY DEF LlmInvariant
      <3> QED  BY <1>1, <3>1, <3>2 DEF Kept
    <2> QED  BY <2>1, <2>2, <2>3
  <1> QED  BY <1>7, <1>8 DEF LlmInvariant

-----------------------------------------------------------------------------
(* The theorem.                                                            *)

\* The adapters of a process whose chats do as they like.
LlmSpec == LlmInit /\ [][\E c \in Chats : LlmNext(c)]_llmVars

LEMMA LlmInvariantInit == LlmInit => LlmInvariant
  <1> SUFFICES ASSUME LlmInit PROVE LlmInvariant
    OBVIOUS
  <1>1. provider \in {"openai", "ollama", "minimax"} /\ inThink \in BOOLEAN
    BY AdaptersAssumption DEF LlmInit
  <1>2. stream \in [Chats -> Streams] /\ \A c \in Chats : stream[c] = Silent
    BY SilentType DEF LlmInit
  <1>3. \A c \in Chats : stream[c].phase = "idle"
    BY <1>2 DEF Silent
  <1> QED  BY <1>1, <1>2, <1>3 DEF LlmInvariant, LlmTyped, Kept, Running

LEMMA LlmInvariantStep == LlmInvariant /\ [\E c \in Chats : LlmNext(c)]_llmVars => LlmInvariant'
  <1> SUFFICES ASSUME LlmInvariant, [\E c \in Chats : LlmNext(c)]_llmVars PROVE LlmInvariant'
    OBVIOUS
  <1>1. ASSUME NEW c \in Chats, LlmNext(c) PROVE LlmInvariant'
    BY <1>1, RequestKeeps, PlainRequestKeeps, ContentChunkKeeps, ReasoningChunkKeeps,
       FinishKeeps, FailKeeps, LeaveKeeps DEF LlmNext
  <1>2. CASE UNCHANGED llmVars
    BY <1>2 DEF llmVars, LlmInvariant, LlmTyped, Kept, Running
  <1> QED  BY <1>1, <1>2

LEMMA InvariantReadsAsPlain == LlmInvariant => StreamMatchesPlain
  <1> SUFFICES ASSUME LlmInvariant, NEW c \in Chats,
                      stream[c].phase = "done", stream[c].clean,
                      provider = "openai" =>
                         stream[c].content = <<>> \/ stream[c].reasoning = <<>>
               PROVE  LET s == stream[c]
                          plain == PlainAnswer(s.content, s.reasoning)
                      IN  IF provider = "minimax" /\ s.content # <<>>
                          THEN Words(s.shown) = Words(plain)
                          ELSE s.shown = plain \/ (provider = "minimax" /\ s.shown = <<>>)
    BY DEF StreamMatchesPlain
  <1>1. AsPlain(provider, stream[c]) /\ LlmTyped
    BY DEF LlmInvariant, Kept
  <1>2. CASE provider = "openai"
    BY <1>1, <1>2 DEF AsPlain, PlainAnswer, PlainOpenAI
  <1>3. CASE provider = "ollama"
    BY <1>1, <1>3 DEF AsPlain, PlainAnswer
  <1>4. CASE provider = "minimax"
    BY <1>1, <1>4 DEF AsPlain, PlainAnswer, PlainOpenAI
  <1> QED  BY <1>1, <1>2, <1>3, <1>4 DEF LlmTyped

LEMMA AnsweringStreams == AnsweringSpec => LlmSpec
  <1>1. AnsweringInit => LlmInit
    BY DEF AnsweringInit
  <1>2. [AnsweringNext]_allVars => [\E c \in Chats : LlmNext(c)]_llmVars
    <2>1. ASSUME AnsweringNext PROVE [\E c \in Chats : LlmNext(c)]_llmVars
      <3>1. CASE Retrieve /\ UNCHANGED llmVars
        BY <3>1
      <3>2. CASE AskModel
        BY <3>2, MainAssumption DEF AskModel, LlmNext
      <3>3. CASE EndAnswer
        BY <3>3, MainAssumption DEF EndAnswer, LlmNext
      <3>4. CASE Stream
        BY <3>4, MainAssumption DEF Stream, Others, LlmNext
      <3> QED  BY <2>1, <3>1, <3>2, <3>3, <3>4 DEF AnsweringNext
    <2>2. ASSUME UNCHANGED allVars PROVE UNCHANGED llmVars
      BY <2>2 DEF allVars
    <2> QED  BY <2>1, <2>2
  <1> QED  BY <1>1, <1>2, PTL DEF AnsweringSpec, LlmSpec

\* However many chats stream, fail and are left on one adapter, and wherever the
\* chunks of the model end, a stream that had the adapter to itself and whose
\* chunks the filter can read shows what the plain answer would be
\* (_process_stream_chunk, _strip_thinking_tags).
THEOREM StreamsReadAsPlain == AnsweringSpec => []StreamMatchesPlain
  <1>1. LlmSpec => []LlmInvariant
    <2>1. LlmInit => LlmInvariant
      BY LlmInvariantInit
    <2>2. LlmInvariant /\ [\E c \in Chats : LlmNext(c)]_llmVars => LlmInvariant'
      BY LlmInvariantStep
    <2> QED  BY <2>1, <2>2, PTL DEF LlmSpec
  <1>2. LlmInvariant => StreamMatchesPlain
    BY InvariantReadsAsPlain
  <1> QED  BY <1>1, <1>2, AnsweringStreams, PTL

=============================================================================
