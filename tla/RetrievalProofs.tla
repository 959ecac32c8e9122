-------------------------- MODULE RetrievalProofs ---------------------------
(***************************************************************************)
(* From a question to its prompt, for any files, chunks, scores and        *)
(* limits: every candidate is in one passage, passages are apart, scores   *)
(* are of one scale, and the prompt has the best documents that fit.       *)
(***************************************************************************)
EXTENDS Answering, SequenceTheorems, FiniteSetTheorems, TLAPS

-----------------------------------------------------------------------------
(* Induction and recursion over numbers, with sets in the place of         *)
(* predicates and step functions.                                          *)

Less == {pair \in Nat \X Nat : pair[1] < pair[2]}

LEMMA LessIsWellFounded == IsWellFoundedOn(Less, Nat)
  BY NatLessThanWellFounded, Zenon DEF OpToRel, Less

LEMMA LeastOf ==
    ASSUME NEW T \in SUBSET Nat, T # {}
    PROVE  \E least \in T : \A n \in T : least <= n
  <1>1. PICK i \in T : \A j \in T : <<j, i>> \notin Less
    BY LessIsWellFounded, WFMin
  <1>2. \A j \in T : i <= j
    <2> SUFFICES ASSUME NEW j \in T, j < i PROVE FALSE
      OBVIOUS
    <2>1. <<j, i>> \in Nat \X Nat /\ <<j, i>>[1] < <<j, i>>[2]
      OBVIOUS
    <2>2. <<j, i>> \in Less
      BY <2>1, Zenon DEF Less
    <2> QED  BY <1>1, <2>2
  <1> QED  BY <1>2

\* What holds at 0 and is handed on holds up to n.
LEMMA StepByStep ==
    ASSUME NEW n \in Nat, NEW T, 0 \in T, \A i \in 1 .. n : i - 1 \in T => i \in T
    PROVE  \A i \in 0 .. n : i \in T
  <1> DEFINE Missed == (0 .. n) \ T
  <1> SUFFICES ASSUME Missed # {} PROVE FALSE
    OBVIOUS
  <1>1. Missed \in SUBSET Nat
    OBVIOUS
  <1> HIDE DEF Missed
  <1>2. PICK i \in Missed : \A j \in Missed : i <= j
    BY <1>1, LeastOf
  <1>3. i \in 1 .. n /\ i \notin T
    BY <1>2 DEF Missed
  <1>4. i - 1 \notin Missed
    BY <1>2, <1>3
  <1> QED  BY <1>3, <1>4 DEF Missed

\* A function defined by what it is at 0 and how it goes on exists.
Follows(g, n, base, step) ==
    g[0] = base /\ \A i \in 1 .. n : g[i] = step[<<g[i - 1], i>>]

LEMMA Recursion ==
    ASSUME NEW n \in Nat, NEW S, NEW base \in S, NEW step \in [S \X (1 .. n) -> S]
    PROVE  \E g \in [0 .. n -> S] : Follows(g, n, base, step)
  <1> DEFINE Defines(g, m) == g[0] = base /\ \A i \in 1 .. m : g[i] = step[<<g[i - 1], i>>]
             T == {m \in 0 .. n : \E g \in [0 .. m -> S] : Defines(g, m)}
  <1>1. 0 \in T
    <2> DEFINE g == [i \in 0 .. 0 |-> base]
    <2>1. g \in [0 .. 0 -> S] /\ g[0] = base
      OBVIOUS
    <2>2. 1 .. 0 = {} /\ 0 \in 0 .. n
      OBVIOUS
    <2>3. Defines(g, 0)
      BY <2>1, <2>2
    <2> HIDE DEF g, Defines
    <2> QED  BY <2>1, <2>2, <2>3
  <1>2. ASSUME NEW m \in 1 .. n, m - 1 \in T PROVE m \in T
    <2>1. PICK g \in [0 .. m - 1 -> S] : Defines(g, m - 1)
      BY <1>2
    <2> DEFINE next == step[<<g[m - 1], m>>]
               h == [i \in 0 .. m |-> IF i = m THEN next ELSE g[i]]
    <2>2. next \in S
      <3>1. m - 1 \in 0 .. m - 1
        OBVIOUS
      <3>2. <<g[m - 1], m>> \in S \X (1 .. n)
        BY <3>1
      <3> QED  BY <3>2
    <2>3. h \in [0 .. m -> S]
      <3>1. \A i \in 0 .. m : i = m \/ i \in 0 .. m - 1
        OBVIOUS
      <3> HIDE DEF next
      <3> QED  BY <2>2, <3>1
    <2>4. h[0] = base
      BY <2>1
    <2>5. ASSUME NEW i \in 1 .. m PROVE h[i] = step[<<h[i - 1], i>>]
      <3>1. h[i - 1] = g[i - 1] /\ i \in 0 .. m
        OBVIOUS
      <3>2. CASE i = m
        BY <3>1, <3>2
      <3>3. CASE i # m
        <4>1. i \in 1 .. m - 1
          BY <3>3
        <4>2. h[i] = g[i]
          BY <3>1, <3>3
        <4> QED  BY <2>1, <3>1, <4>1, <4>2
      <3> QED  BY <3>2, <3>3
    <2>6. Defines(h, m)
      BY <2>4, <2>5
    <2> HIDE DEF h, Defines
    <2> QED  BY <2>3, <2>6
  <1>3. \A i \in 0 .. n : i \in T
    <2> HIDE DEF T
    <2> QED  BY <1>1, <1>2, StepByStep
  <1> QED  BY <1>3, SMTT(20) DEF Follows

-----------------------------------------------------------------------------
(* Sums.                                                                   *)

LEMMA SumToSteps ==
    ASSUME NEW ns \in Seq(Int)
    PROVE  SumTo(ns) = [n \in 0 .. Len(ns) |-> IF n = 0 THEN 0 ELSE SumTo(ns)[n - 1] + ns[n]]
  <1> DEFINE Is(g) == g = [n \in 0 .. Len(ns) |-> IF n = 0 THEN 0 ELSE g[n - 1] + ns[n]]
             step == [x \in Int \X (1 .. Len(ns)) |-> x[1] + ns[x[2]]]
  <1>1. Len(ns) \in Nat /\ \A i \in 1 .. Len(ns) : ns[i] \in Int
    BY LenProperties, ElementOfSeq
  <1>2. step \in [Int \X (1 .. Len(ns)) -> Int]
    BY <1>1
  <1>3. PICK g \in [0 .. Len(ns) -> Int] : Follows(g, Len(ns), 0, step)
    <2>1. Len(ns) \in Nat /\ 0 \in Int
      BY <1>1
    <2> HIDE DEF step
    <2> QED  BY <2>1, <1>2, Recursion
  <1>4. ASSUME NEW n \in 0 .. Len(ns), n # 0 PROVE g[n] = g[n - 1] + ns[n]
    <2>1. n \in 1 .. Len(ns) /\ n - 1 \in 0 .. Len(ns)
      BY <1>4
    <2>2. <<g[n - 1], n>> \in Int \X (1 .. Len(ns))
      BY <2>1
    <2> QED  BY <1>3, <2>1, <2>2 DEF Follows
  <1>5. Is(g)
    BY <1>3, <1>4 DEF Follows
  <1>6. SumTo(ns) = CHOOSE h : Is(h)
    BY DEF SumTo
  <1> HIDE DEF Is
  <1>7. Is(SumTo(ns))
    BY <1>5, <1>6
  <1> QED  BY <1>7 DEF Is

LEMMA SumToType ==
    ASSUME NEW ns \in Seq(Int)
    PROVE  /\ SumTo(ns)[0] = 0
           /\ \A n \in 1 .. Len(ns) : SumTo(ns)[n] = SumTo(ns)[n - 1] + ns[n]
           /\ \A n \in 0 .. Len(ns) : SumTo(ns)[n] \in Int
  <1>1. Len(ns) \in Nat /\ \A i \in 1 .. Len(ns) : ns[i] \in Int
    BY LenProperties, ElementOfSeq
  <1>2. 0 \in 0 .. Len(ns) /\ \A n \in 1 .. Len(ns) : n \in 0 .. Len(ns) /\ n # 0
    BY <1>1
  <1>3. SumTo(ns)[0] = 0 /\ \A n \in 1 .. Len(ns) : SumTo(ns)[n] = SumTo(ns)[n - 1] + ns[n]
    BY <1>2, SumToSteps
  <1> DEFINE T == {n \in 0 .. Len(ns) : SumTo(ns)[n] \in Int}
  <1>4. 0 \in T /\ \A n \in 1 .. Len(ns) : n - 1 \in T => n \in T
    BY <1>1, <1>2, <1>3
  <1>5. \A n \in 0 .. Len(ns) : n \in T
    <2> HIDE DEF T
    <2> QED  BY <1>1, <1>4, StepByStep
  <1> QED  BY <1>3, <1>5

LEMMA SumIsInt == ASSUME NEW ns \in Seq(Int) PROVE Sum(ns) \in Int
  BY SumToType, LenProperties DEF Sum

LEMMA SumOfNone == Sum(<<>>) = 0
  <1>1. <<>> \in Seq(Int) /\ Len(<<>>) = 0
    BY EmptySeq
  <1> QED  BY <1>1, SumToType DEF Sum

\* The sums of two sequences agree as far as the sequences do.
LEMMA SumToAgrees ==
    ASSUME NEW ns \in Seq(Int), NEW ms \in Seq(Int), NEW n \in Nat,
           n <= Len(ns), n <= Len(ms), \A i \in 1 .. n : ns[i] = ms[i]
    PROVE  SumTo(ns)[n] = SumTo(ms)[n]
  <1> DEFINE T == {i \in 0 .. n : SumTo(ns)[i] = SumTo(ms)[i]}
  <1>1. Len(ns) \in Nat /\ Len(ms) \in Nat
    BY LenProperties
  <1>2. 0 \in T
    BY SumToType
  <1>3. ASSUME NEW i \in 1 .. n, i - 1 \in T PROVE i \in T
    <2>1. i \in 1 .. Len(ns) /\ i \in 1 .. Len(ms) /\ i \in 0 .. n
      BY <1>1
    <2>2. SumTo(ns)[i] = SumTo(ns)[i - 1] + ns[i] /\ SumTo(ms)[i] = SumTo(ms)[i - 1] + ms[i]
      BY <2>1, SumToType
    <2> QED  BY <1>3, <2>1, <2>2
  <1>4. \A i \in 0 .. n : i \in T
    <2> HIDE DEF T
    <2> QED  BY <1>2, <1>3, StepByStep
  <1> QED  BY <1>4

LEMMA SumOfOneMore ==
    ASSUME NEW ns \in Seq(Int), NEW ms \in Seq(Int), Len(ms) = Len(ns) + 1,
           \A i \in 1 .. Len(ns) : ns[i] = ms[i]
    PROVE  Sum(ms) = Sum(ns) + ms[Len(ms)]
  <1>1. Len(ns) \in Nat /\ Len(ms) \in 1 .. Len(ms) /\ Len(ms) - 1 = Len(ns)
    BY LenProperties
  <1>2. SumTo(ms)[Len(ms)] = SumTo(ms)[Len(ns)] + ms[Len(ms)]
    BY <1>1, SumToType
  <1>3. SumTo(ns)[Len(ns)] = SumTo(ms)[Len(ns)]
    <2>1. Len(ns) <= Len(ns) /\ Len(ns) <= Len(ms)
      BY <1>1
    <2> QED  BY <1>1, <2>1, SumToAgrees
  <1> QED  BY <1>2, <1>3 DEF Sum

LEMMA SumIsNatural ==
    ASSUME NEW ns \in Seq(Nat) PROVE ns \in Seq(Int) /\ Sum(ns) \in Nat
  <1>1. ns \in Seq(Int) /\ Len(ns) \in Nat /\ \A i \in 1 .. Len(ns) : ns[i] \in Nat
    BY SeqMonotonic, LenProperties, ElementOfSeq
  <1> DEFINE T == {i \in 0 .. Len(ns) : SumTo(ns)[i] \in Nat}
  <1>2. 0 \in T
    BY <1>1, SumToType
  <1>3. ASSUME NEW i \in 1 .. Len(ns), i - 1 \in T PROVE i \in T
    <2>1. SumTo(ns)[i] = SumTo(ns)[i - 1] + ns[i] /\ ns[i] \in Nat /\ i \in 0 .. Len(ns)
      BY <1>1, SumToType
    <2> QED  BY <1>3, <2>1
  <1>4. \A i \in 0 .. Len(ns) : i \in T
    <2> HIDE DEF T
    <2> QED  BY <1>1, <1>2, <1>3, StepByStep
  <1> QED  BY <1>1, <1>4 DEF Sum

LEMMA SameLength == \A m, n \in Nat : 1 .. m = 1 .. n => m = n
  OBVIOUS

LEMMA SequenceOf ==
    ASSUME NEW S, NEW n \in Nat, NEW s \in [1 .. n -> S] PROVE s \in Seq(S) /\ Len(s) = n
  <1>1. s \in Seq(S)
    BY SeqDef
  <1>2. Len(s) \in Nat /\ 1 .. Len(s) = 1 .. n
    BY <1>1, LenProperties
  <1> QED  BY <1>1, <1>2, SameLength

LEMMA SumOfSingle == ASSUME NEW x \in Int PROVE Sum([k \in 1 .. 1 |-> x]) = x
  <1> DEFINE ns == [k \in 1 .. 1 |-> x]
  <1>1. ns \in [1 .. 1 -> Int] /\ ns[1] = x
    OBVIOUS
  <1> HIDE DEF ns
  <1>2. ns \in Seq(Int) /\ Len(ns) = 1
    BY <1>1, SequenceOf
  <1>3. SumTo(ns)[1] = SumTo(ns)[1 - 1] + ns[1] /\ SumTo(ns)[0] = 0
    BY <1>2, SumToType
  <1>4. Sum(ns) = x
    BY <1>1, <1>2, <1>3 DEF Sum
  <1> QED  BY <1>4 DEF ns

\* The sum of part of a sequence.
LEMMA SumOfPart ==
    ASSUME NEW ns \in Seq(Int), NEW a \in Nat, NEW b \in Nat, 1 <= a, a <= b, b <= Len(ns),
           NEW ms \in Seq(Int), Len(ms) = b - a + 1, \A k \in 1 .. b - a + 1 : ms[k] = ns[a + k - 1]
    PROVE  Sum(ms) = SumTo(ns)[b] - SumTo(ns)[a - 1]
  <1> DEFINE n == b - a + 1
             T == {k \in 0 .. n : SumTo(ms)[k] = SumTo(ns)[a + k - 1] - SumTo(ns)[a - 1]}
  <1>1. n \in Nat /\ Len(ns) \in Nat /\ a - 1 \in 0 .. Len(ns)
    BY LenProperties
  <1>2. 0 \in T
    <2>1. SumTo(ns)[a - 1] \in Int /\ SumTo(ms)[0] = 0 /\ a + 0 - 1 = a - 1
      BY <1>1, SumToType
    <2> QED  BY <1>1, <2>1
  <1>3. ASSUME NEW k \in 1 .. n, k - 1 \in T PROVE k \in T
    <2>1. /\ a + k - 1 \in 1 .. Len(ns) /\ a + (k - 1) - 1 \in 0 .. Len(ns)
          /\ a + (k - 1) - 1 = (a + k - 1) - 1 /\ k \in 0 .. n
      BY <1>1
    <2> DEFINE v == SumTo(ns)[(a + k - 1) - 1]
               w == SumTo(ns)[a - 1]
               x == ns[a + k - 1]
    <2>2. SumTo(ms)[k] = SumTo(ms)[k - 1] + x /\ SumTo(ns)[a + k - 1] = v + x
      <3>1. ms[k] = x /\ k \in 1 .. Len(ms)
        OBVIOUS
      <3>2. SumTo(ms)[k] = SumTo(ms)[k - 1] + ms[k]
        BY <3>1, SumToType
      <3>3. SumTo(ns)[a + k - 1] = v + x
        BY <2>1, SumToType, Zenon
      <3> QED  BY <3>1, <3>2, <3>3, Zenon
    <2>3. SumTo(ms)[k - 1] = v - w
      BY <1>3, <2>1
    <2>4. v \in Int /\ w \in Int /\ x \in Int
      BY <1>1, <2>1, SumToType, ElementOfSeq
    <2> HIDE DEF v, w, x
    <2>5. SumTo(ms)[k] = SumTo(ns)[a + k - 1] - w
      BY <2>2, <2>3, <2>4
    <2> QED  BY <2>1, <2>5 DEF w
  <1>4. n \in T
    <2> HIDE DEF T
    <2>1. \A k \in 0 .. n : k \in T
      BY <1>1, <1>2, <1>3, StepByStep
    <2> QED  BY <1>1, <2>1
  <1>5. a + n - 1 = b
    OBVIOUS
  <1> QED  BY <1>4, <1>5 DEF Sum

\* Of two sequences that differ in one place the sums differ by as much.
LEMMA SumOfChanged ==
    ASSUME NEW ns \in Seq(Int), NEW ms \in Seq(Int), Len(ms) = Len(ns),
           NEW k \in 1 .. Len(ns), NEW x \in Int, ms[k] = ns[k] + x,
           \A i \in 1 .. Len(ns) : i # k => ms[i] = ns[i]
    PROVE  Sum(ms) = Sum(ns) + x
  <1> DEFINE n == Len(ns)
             T == {i \in 0 .. n : SumTo(ms)[i] = SumTo(ns)[i] + (IF i < k THEN 0 ELSE x)}
  <1>1. n \in Nat
    BY LenProperties
  <1>2. 0 \in T
    <2>1. SumTo(ns)[0] = 0 /\ SumTo(ms)[0] = 0 /\ 0 < k
      BY <1>1, SumToType
    <2> QED  BY <1>1, <2>1
  <1>3. ASSUME NEW i \in 1 .. n, i - 1 \in T PROVE i \in T
    <2>1. /\ SumTo(ms)[i] = SumTo(ms)[i - 1] + ms[i]
          /\ SumTo(ns)[i] = SumTo(ns)[i - 1] + ns[i]
          /\ SumTo(ms)[i - 1] = SumTo(ns)[i - 1] + (IF i - 1 < k THEN 0 ELSE x)
      BY <1>3, SumToType
    <2>2. SumTo(ns)[i - 1] \in Int /\ ns[i] \in Int
      BY <1>1, SumToType, ElementOfSeq
    <2>3. i \in 0 .. n /\ k \in Int /\ i \in Int
      BY <1>1
    <2> HIDE DEF n
    <2>4. CASE i = k
      BY <2>1, <2>2, <2>3, <2>4
    <2>5. CASE i < k
      <3>1. ms[i] = ns[i] /\ i - 1 < k
        BY <2>3, <2>5 DEF n
      <3> QED  BY <2>1, <2>2, <2>3, <2>5, <3>1, SMTT(20)
    <2>6. CASE k < i
      <3>1. ms[i] = ns[i] /\ ~(i - 1 < k) /\ ~(i < k)
        BY <2>3, <2>6 DEF n
      <3> QED  BY <2>1, <2>2, <2>3, <3>1, SMTT(20)
    <2> QED  BY <2>3, <2>4, <2>5, <2>6
  <1>4. n \in T
    <2> HIDE DEF T, n
    <2>1. \A i \in 0 .. n : i \in T
      BY <1>1, <1>2, <1>3, StepByStep
    <2> QED  BY <1>1, <2>1
  <1> QED  BY <1>1, <1>4 DEF Sum

\* Sums of natural numbers grow.
LEMMA SumToGrows ==
    ASSUME NEW ns \in Seq(Nat), NEW a \in 0 .. Len(ns), NEW b \in a .. Len(ns)
    PROVE  SumTo(ns)[a] <= SumTo(ns)[b]
  <1> DEFINE T == {k \in 0 .. b - a : SumTo(ns)[a] <= SumTo(ns)[a + k]}
  <1>1. ns \in Seq(Int) /\ Len(ns) \in Nat /\ \A i \in 1 .. Len(ns) : ns[i] \in Nat
    BY SumIsNatural, LenProperties, ElementOfSeq
  <1>2. \A i \in 0 .. Len(ns) : SumTo(ns)[i] \in Int
    BY <1>1, SumToType
  <1>3. 0 \in T
    BY <1>1, <1>2
  <1>4. ASSUME NEW k \in 1 .. b - a, k - 1 \in T PROVE k \in T
    <2>1. /\ a + k \in 1 .. Len(ns) /\ a + (k - 1) = a + k - 1 /\ a + k - 1 \in 0 .. Len(ns)
          /\ a \in 0 .. Len(ns) /\ k \in 0 .. b - a
      BY <1>1
    <2>2. SumTo(ns)[a + k] = SumTo(ns)[a + k - 1] + ns[a + k]
      BY <1>1, <2>1, SumToType
    <2>3. /\ SumTo(ns)[a] <= SumTo(ns)[a + k - 1] /\ ns[a + k] \in Nat
          /\ SumTo(ns)[a] \in Int /\ SumTo(ns)[a + k - 1] \in Int
      BY <1>1, <1>2, <1>4, <2>1
    <2>4. SumTo(ns)[a] <= SumTo(ns)[a + k]
      BY <2>2, <2>3
    <2> QED  BY <2>1, <2>4
  <1>5. b - a \in T
    <2> HIDE DEF T
    <2>1. b - a \in Nat
      BY <1>1
    <2>2. \A k \in 0 .. b - a : k \in T
      BY <1>3, <1>4, <2>1, StepByStep
    <2> QED  BY <2>1, <2>2
  <1>6. a + (b - a) = b
    BY <1>1
  <1> QED  BY <1>5, <1>6

-----------------------------------------------------------------------------
(* Sets listed in order.                                                   *)

Lists(s, S) ==
    /\ s \in Seq(S) /\ Len(s) \in Nat /\ Len(s) = Cardinality(S)
    /\ DOMAIN s = 1 .. Len(s) /\ s \in [1 .. Len(s) -> S]
    /\ \A i, j \in 1 .. Len(s) : i # j => s[i] # s[j]
    /\ \A x \in S : \E i \in 1 .. Len(s) : s[i] = x

LEMMA SeqsList ==
    ASSUME NEW S, IsFiniteSet(S), NEW s \in SetToSeqs(S)
    PROVE  Lists(s, S)
  <1> DEFINE n == Cardinality(S)
  <1>1. n \in Nat
    BY FS_CardinalityType
  <1>2. s \in [1 .. n -> S] /\ \A i, j \in 1 .. n : i # j => s[i] # s[j]
    BY DEF SetToSeqs
  <1> HIDE DEF n
  <1>3. s \in Seq(S) /\ Len(s) = n
    <2>1. s \in Seq(S)
      BY <1>1, <1>2, SeqDef
    <2>2. DOMAIN s = 1 .. n /\ DOMAIN s = 1 .. Len(s) /\ Len(s) \in Nat
      BY <1>2, <2>1, LenProperties
    <2> QED  BY <1>1, <2>1, <2>2
  <1>4. \A x \in S : \E i \in 1 .. n : s[i] = x
    <2>1. s \in Injection(1 .. n, S)
      BY <1>2 DEF Injection, IsInjective
    <2>2. IsFiniteSet(1 .. n) /\ Cardinality(1 .. n) = n
      BY <1>1, FS_Interval
    <2>3. s \in Surjection(1 .. n, S)
      BY <2>1, <2>2, FS_Injection DEF n
    <2> QED  BY <2>3 DEF Surjection
  <1> QED  BY <1>1, <1>2, <1>3, <1>4 DEF n, Lists

Sorted(s, R) == \A i, j \in DOMAIN s : i < j => <<s[i], s[j]>> \in R

StrictOrder(R, S) ==
    /\ \A x \in S : <<x, x>> \notin R
    /\ \A x, y \in S : x = y \/ <<x, y>> \in R \/ <<y, x>> \in R
    /\ \A x, y, z \in S : <<x, y>> \in R /\ <<y, z>> \in R => <<x, z>> \in R

LEMMA SortedIsInjective ==
    ASSUME NEW n \in Nat, NEW S, NEW R, StrictOrder(R, S),
           NEW s \in [1 .. n -> S], Sorted(s, R)
    PROVE  \A i, j \in 1 .. n : i # j => s[i] # s[j]
  <1> SUFFICES ASSUME NEW i \in 1 .. n, NEW j \in 1 .. n, i # j, s[i] = s[j] PROVE FALSE
    OBVIOUS
  <1>1. i < j \/ j < i
    OBVIOUS
  <1>2. <<s[i], s[j]>> \in R \/ <<s[j], s[i]>> \in R
    BY <1>1 DEF Sorted
  <1> QED  BY <1>2 DEF StrictOrder

\* An element is put where it belongs.
LEMMA Inserted ==
    ASSUME NEW S, NEW R, StrictOrder(R, S), NEW V \in SUBSET S, NEW x \in S \ V,
           NEW n \in Nat, NEW s \in [1 .. n -> V], Sorted(s, R)
    PROVE  \E t \in [1 .. n + 1 -> V \cup {x}] : Sorted(t, R)
  <1> DEFINE P == {i \in 1 .. n + 1 : i = n + 1 \/ <<x, s[i]>> \in R}
  <1>1. P \in SUBSET Nat /\ n + 1 \in P
    OBVIOUS
  <1>2. PICK p \in P : \A i \in P : p <= i
    <2> HIDE DEF P
    <2> QED  BY <1>1, LeastOf
  <1>3. p \in 1 .. n + 1 /\ (p # n + 1 => <<x, s[p]>> \in R)
    OBVIOUS
  <1>4. \A i \in 1 .. n : s[i] \in S /\ s[i] # x
    OBVIOUS
  <1>5. ASSUME NEW i \in 1 .. n, i < p PROVE <<s[i], x>> \in R
    <2>1. i \notin P
      BY <1>2, <1>3, <1>5
    <2>2. <<x, s[i]>> \notin R
      BY <2>1
    <2> QED  BY <1>4, <2>2 DEF StrictOrder
  <1>6. ASSUME NEW i \in p .. n PROVE i \in 1 .. n /\ <<x, s[i]>> \in R
    <2>1. i \in 1 .. n /\ p \in 1 .. n /\ <<x, s[p]>> \in R /\ (i = p \/ p < i)
      BY <1>3
    <2>2. CASE i = p
      BY <2>1, <2>2
    <2>3. CASE p < i
      <3>1. <<s[p], s[i]>> \in R
        BY <2>1, <2>3 DEF Sorted
      <3> QED  BY <1>4, <2>1, <3>1 DEF StrictOrder
    <2> QED  BY <2>1, <2>2, <2>3
  <1> DEFINE t == [i \in 1 .. n + 1 |-> IF i < p THEN s[i] ELSE IF i = p THEN x ELSE s[i - 1]]
  <1>7. t \in [1 .. n + 1 -> V \cup {x}]
    <2>1. \A i \in 1 .. n + 1 : (i < p => i \in 1 .. n) /\ (~(i < p) /\ i # p => i - 1 \in 1 .. n)
      BY <1>3
    <2> QED  BY <2>1
  <1>8. ASSUME NEW i \in 1 .. n + 1, NEW j \in 1 .. n + 1, i < j
        PROVE  <<t[i], t[j]>> \in R
    <2> HIDE DEF P
    <2>1. CASE i < p
      <3>1. t[i] = s[i] /\ i \in 1 .. n
        BY <1>3, <2>1
      <3>2. CASE j < p
        <4>1. t[j] = s[j] /\ j \in 1 .. n
          BY <1>3, <3>2
        <4> QED  BY <1>8, <3>1, <4>1 DEF Sorted
      <3>3. CASE j = p
        BY <1>5, <2>1, <3>1, <3>3
      <3>4. CASE p < j
        <4>1. t[j] = s[j - 1] /\ j - 1 \in 1 .. n /\ i < j - 1
          BY <1>3, <2>1, <3>4
        <4> HIDE DEF t
        <4> QED  BY <3>1, <4>1 DEF Sorted
      <3> QED  BY <1>3, <3>2, <3>3, <3>4
    <2>2. CASE i = p
      <3>1. t[i] = x /\ t[j] = s[j - 1] /\ j - 1 \in p .. n
        BY <1>3, <1>8, <2>2
      <3> QED  BY <1>6, <3>1
    <2>3. CASE p < i
      <3>1. t[i] = s[i - 1] /\ t[j] = s[j - 1] /\ i - 1 \in 1 .. n /\ j - 1 \in 1 .. n /\ i - 1 < j - 1
        BY <1>3, <1>8, <2>3
      <3> QED  BY <3>1 DEF Sorted
    <2> QED  BY <1>3, <2>1, <2>2, <2>3
  <1>9. Sorted(t, R)
    <2> HIDE DEF t
    <2> QED  BY <1>7, <1>8 DEF Sorted
  <1> QED  BY <1>7, <1>9

\* A finite set with a strict order can be listed in that order.
LEMMA Enumeration ==
    ASSUME NEW S, IsFiniteSet(S), NEW R, StrictOrder(R, S)
    PROVE  \E s \in SetToSeqs(S) : Sorted(s, R)
  <1> DEFINE n == Cardinality(S)
             Listed(U, k) == \E s \in [1 .. k -> U] : Sorted(s, R)
             T == {k \in 0 .. n : \A U \in SUBSET S : Cardinality(U) = k => Listed(U, k)}
  <1>1. n \in Nat
    BY FS_CardinalityType
  <1> HIDE DEF n
  <1>2. 0 \in T
    <2>1. ASSUME NEW U \in SUBSET S, Cardinality(U) = 0 PROVE Listed(U, 0)
      <3>1. <<>> \in [1 .. 0 -> U] /\ Sorted(<<>>, R)
        BY DEF Sorted
      <3> QED  BY <3>1
    <2> QED  BY <1>1, <2>1
  <1>3. ASSUME NEW k \in 1 .. n, k - 1 \in T PROVE k \in T
    <2>1. ASSUME NEW U \in SUBSET S, Cardinality(U) = k PROVE Listed(U, k)
      <3>1. IsFiniteSet(U)
        BY FS_Subset
      <3>2. PICK x \in U : TRUE
        BY <2>1, <3>1, FS_EmptySet
      <3>3. Cardinality(U \ {x}) = k - 1
        BY <2>1, <3>1, <3>2, FS_RemoveElement
      <3>4. PICK s \in [1 .. k - 1 -> U \ {x}] : Sorted(s, R)
        BY <1>3, <3>3
      <3>5. k - 1 \in Nat /\ k - 1 + 1 = k /\ U \ {x} \in SUBSET S /\ x \in S \ (U \ {x})
        BY <3>2
      <3>6. \E t \in [1 .. k - 1 + 1 -> (U \ {x}) \cup {x}] : Sorted(t, R)
        BY <3>4, <3>5, Inserted
      <3>7. (U \ {x}) \cup {x} = U
        BY <3>2
      <3> QED  BY <3>5, <3>6, <3>7
    <2> HIDE DEF Listed
    <2> QED  BY <2>1
  <1>4. \A k \in 0 .. n : k \in T
    <2> HIDE DEF T
    <2> QED  BY <1>1, <1>2, <1>3, StepByStep
  <1>5. PICK s \in [1 .. n -> S] : Sorted(s, R)
    <2>1. n \in T /\ S \in SUBSET S /\ Cardinality(S) = n
      BY <1>1, <1>4 DEF n
    <2> QED  BY <2>1
  <1>6. \A i, j \in 1 .. n : i # j => s[i] # s[j]
    BY <1>1, <1>5, SortedIsInjective
  <1>7. s \in SetToSeqs(S)
    BY <1>5, <1>6 DEF n, SetToSeqs
  <1> QED  BY <1>5, <1>7

LEMMA AscendingLists ==
    ASSUME NEW S \in SUBSET Int, IsFiniteSet(S)
    PROVE  /\ Lists(Ascending(S), S)
           /\ \A i, j \in 1 .. Len(Ascending(S)) : i < j => Ascending(S)[i] < Ascending(S)[j]
  <1> DEFINE R == {x \in S \X S : x[1] < x[2]}
             Is(s) == \A i, j \in DOMAIN s : i < j => s[i] < s[j]
  <1>1. \A x, y \in S : <<x, y>> \in R <=> x < y
    OBVIOUS
  <1>2. StrictOrder(R, S)
    <2> HIDE DEF R
    <2> QED  BY <1>1 DEF StrictOrder
  <1>3. PICK s \in SetToSeqs(S) : Sorted(s, R)
    <2> HIDE DEF R
    <2> QED  BY <1>2, Enumeration
  <1>4. Is(s)
    <2>1. Lists(s, S)
      BY SeqsList
    <2> QED  BY <1>1, <1>3, <2>1 DEF Sorted, Lists
  <1>5. Ascending(S) = CHOOSE q \in SetToSeqs(S) : Is(q)
    BY DEF Ascending
  <1> HIDE DEF Is
  <1>6. Ascending(S) \in SetToSeqs(S) /\ Is(Ascending(S))
    BY <1>4, <1>5
  <1>7. Lists(Ascending(S), S)
    BY <1>6, SeqsList
  <1> QED  BY <1>6, <1>7 DEF Is, Lists

\* A set that is not empty has a largest number.
LEMMA LargestOf ==
    ASSUME NEW S \in SUBSET Int, IsFiniteSet(S), S # {}
    PROVE  Largest(S) \in S /\ \A x \in S : x <= Largest(S)
  <1> DEFINE s == Ascending(S)
             n == Len(s)
  <1>1. Lists(s, S) /\ \A i, j \in 1 .. n : i < j => s[i] < s[j]
    BY AscendingLists
  <1> HIDE DEF s
  <1>2. n \in 1 .. n /\ s[n] \in S
    <2>1. PICK x \in S : TRUE
      OBVIOUS
    <2>2. PICK i \in 1 .. n : s[i] = x
      BY <1>1 DEF Lists
    <2> QED  BY <1>1, <2>2 DEF Lists
  <1>3. \A x \in S : x <= s[n]
    <2> SUFFICES ASSUME NEW x \in S PROVE x <= s[n]
      OBVIOUS
    <2>1. PICK i \in 1 .. n : s[i] = x
      BY <1>1 DEF Lists
    <2>2. CASE i = n
      BY <1>2, <2>1, <2>2
    <2>3. CASE i # n
      <3>1. i < n
        BY <1>2, <2>1, <2>3
      <3>2. s[i] < s[n]
        BY <1>1, <1>2, <3>1
      <3>3. s[n] \in Int /\ s[i] \in Int
        BY <1>2, <2>1
      <3> HIDE DEF n
      <3> QED  BY <2>1, <3>2, <3>3
    <2> QED  BY <2>2, <2>3
  <1> QED  BY <1>2, <1>3 DEF Largest

\* The image of a finite set is finite.
LEMMA ImageIsFinite ==
    ASSUME NEW g, IsFiniteSet(DOMAIN g), NEW T, T = {g[x] : x \in DOMAIN g}, g = [x \in DOMAIN g |-> g[x]]
    PROVE  IsFiniteSet(T)
  <1>1. g \in Surjection(DOMAIN g, T)
    BY DEF Surjection
  <1> QED  BY <1>1, FS_Surjection

-----------------------------------------------------------------------------
(* Context expansion: a candidate is widened to an interval, intervals are *)
(* cut into runs.                                                          *)

LEMMA SizeIsNatural ==
    ASSUME ConstantsAssumption, NEW f \in Files
    PROVE  /\ Len(TextOf[f]) \in Nat /\ DOMAIN TextOf[f] = 1 .. Len(TextOf[f])
           /\ \A p \in 1 .. Len(TextOf[f]) : Size(f, p) \in Nat
  <1>1. TextOf[f] \in Seq(DOMAIN SizeOf) /\ SizeOf \in [DOMAIN SizeOf -> Nat]
    BY DEF ConstantsAssumption
  <1>2. Len(TextOf[f]) \in Nat /\ DOMAIN TextOf[f] = 1 .. Len(TextOf[f])
    BY <1>1, LenProperties
  <1>3. \A p \in 1 .. Len(TextOf[f]) : TextOf[f][p] \in DOMAIN SizeOf
    BY <1>1, ElementOfSeq
  <1> QED  BY <1>1, <1>2, <1>3 DEF Size

Widening(m) == [size : Nat, parts : SUBSET (1 .. m), full : BOOLEAN]

\* The length of consecutive chunks, as the difference of two sums.
SizesOf(f) == [k \in 1 .. Len(TextOf[f]) |-> Size(f, k)]
TextLength(f, lo, hi) == SumTo(SizesOf(f))[hi] - SumTo(SizesOf(f))[lo - 1]

LEMMA SizesFacts ==
    ASSUME ConstantsAssumption, NEW f \in Files
    PROVE  /\ SizesOf(f) \in Seq(Nat) /\ SizesOf(f) \in Seq(Int)
           /\ Len(SizesOf(f)) = Len(TextOf[f]) /\ Len(TextOf[f]) \in Nat
           /\ SumTo(SizesOf(f))[0] = 0
           /\ \A k \in 0 .. Len(TextOf[f]) : SumTo(SizesOf(f))[k] \in Int
           /\ \A k \in 1 .. Len(TextOf[f]) :
                 SumTo(SizesOf(f))[k] = SumTo(SizesOf(f))[k - 1] + Size(f, k)
  <1> DEFINE n == Len(TextOf[f])
             ns == SizesOf(f)
  <1>1. n \in Nat /\ \A p \in 1 .. n : Size(f, p) \in Nat
    BY SizeIsNatural
  <1>2. ns \in [1 .. n -> Nat] /\ \A k \in 1 .. n : ns[k] = Size(f, k)
    <2> HIDE DEF n
    <2>1. ns = [k \in 1 .. n |-> Size(f, k)]
      BY DEF n, SizesOf
    <2> QED  BY <1>1, <2>1
  <1> HIDE DEF n, ns
  <1>3. ns \in Seq(Nat) /\ Len(ns) = n
    BY <1>1, <1>2, SequenceOf
  <1>4. ns \in Seq(Int)
    BY <1>3, SumIsNatural
  <1> QED  BY <1>1, <1>2, <1>3, <1>4, SumToType DEF n, ns

LEMMA Differences ==
    \A u, t, v, w \in Int : u <= t /\ v <= w => w - t <= w - u /\ v - u <= w - u
  OBVIOUS

LEMMA TextLengths ==
    ASSUME ConstantsAssumption, NEW f \in Files, NEW c \in 1 .. Len(TextOf[f]),
           NEW d \in c .. Len(TextOf[f])
    PROVE  /\ TextLength(f, c, d) \in Int
           /\ TextLength(f, c, c) = Size(f, c)
           /\ \A x \in c .. d : x < d =>
                 TextLength(f, c, d) = TextLength(f, c, x) + TextLength(f, x + 1, d)
           /\ \A x \in c .. d : TextLength(f, x, d) <= TextLength(f, c, d)
           /\ \A x \in c .. d : TextLength(f, c, x) <= TextLength(f, c, d)
  <1> DEFINE sum == SumTo(SizesOf(f))
  <1>1. Len(TextOf[f]) \in Nat
    BY SizesFacts
  <1>2. /\ c - 1 \in 0 .. Len(TextOf[f]) /\ c \in 0 .. Len(TextOf[f])
        /\ d \in 1 .. Len(TextOf[f]) /\ d \in 0 .. Len(TextOf[f])
    BY <1>1, SMTT(20)
  <1>3. sum[c] = sum[c - 1] + Size(f, c) /\ \A k \in 0 .. Len(TextOf[f]) : sum[k] \in Int
    BY SizesFacts
  <1>4. Size(f, c) \in Nat
    BY SizeIsNatural
  <1>5. ASSUME NEW x \in c .. d
        PROVE  /\ sum[c - 1] <= sum[x - 1] /\ sum[x] <= sum[d]
               /\ x \in 0 .. Len(TextOf[f]) /\ x - 1 \in 0 .. Len(TextOf[f])
    <2>1. /\ x \in 0 .. Len(TextOf[f]) /\ x - 1 \in c - 1 .. Len(TextOf[f])
          /\ d \in x .. Len(TextOf[f]) /\ x - 1 \in 0 .. Len(TextOf[f])
      BY <1>1, SMTT(20)
    <2>2. sum[c - 1] <= sum[x - 1] /\ sum[x] <= sum[d]
      BY <1>2, <2>1, SizesFacts, SumToGrows
    <2> QED  BY <2>1, <2>2
  <1> HIDE DEF sum
  <1>6. \A lo, hi : TextLength(f, lo, hi) = sum[hi] - sum[lo - 1]
    BY DEF TextLength, sum
  <1>7. ASSUME NEW x \in c .. d
        PROVE  TextLength(f, c, d) = TextLength(f, c, x) + TextLength(f, x + 1, d)
    <2> DEFINE u == sum[c - 1]
               v == sum[x]
               w == sum[d]
    <2>1. x + 1 - 1 = x
      BY <1>1
    <2>2. /\ TextLength(f, c, d) = w - u /\ TextLength(f, c, x) = v - u
          /\ TextLength(f, x + 1, d) = w - v
      <3>1. TextLength(f, x + 1, d) = sum[d] - sum[x + 1 - 1]
        BY SMTT(20) DEF TextLength, sum
      <3> QED  BY <1>6, <2>1, <3>1, Zenon
    <2>3. u \in Int /\ v \in Int /\ w \in Int
      BY <1>2, <1>3, <1>5
    <2> HIDE DEF u, v, w
    <2> QED  BY <2>2, <2>3
  <1>8. TextLength(f, c, d) \in Int /\ TextLength(f, c, c) = Size(f, c)
    <2> DEFINE u == sum[c - 1]
               v == sum[c]
               w == sum[d]
               x == Size(f, c)
    <2>1. TextLength(f, c, d) = w - u /\ TextLength(f, c, c) = v - u /\ v = u + x
      BY <1>3, <1>6, Zenon
    <2>2. u \in Int /\ v \in Int /\ w \in Int /\ x \in Int
      <3> HIDE DEF u, v, w, x
      <3>1. x \in Int
        BY <1>4 DEF x
      <3>2. u \in Int /\ v \in Int /\ w \in Int
        BY <1>2, <1>3 DEF u, v, w
      <3> QED  BY <3>1, <3>2
    <2> HIDE DEF u, v, w, x
    <2>3. TextLength(f, c, d) \in Int /\ TextLength(f, c, c) = x
      BY <2>1, <2>2, SMTT(20)
    <2> QED  BY <2>3 DEF x
  <1>9. ASSUME NEW x \in c .. d
        PROVE  TextLength(f, x, d) <= TextLength(f, c, d) /\ TextLength(f, c, x) <= TextLength(f, c, d)
    <2> DEFINE u == sum[c - 1]
               t == sum[x - 1]
               v == sum[x]
               w == sum[d]
    <2>1. /\ TextLength(f, c, d) = w - u /\ TextLength(f, x, d) = w - t
          /\ TextLength(f, c, x) = v - u
      BY <1>6, Zenon
    <2>2. u \in Int /\ t \in Int /\ v \in Int /\ w \in Int /\ u <= t /\ v <= w
      BY <1>2, <1>3, <1>5
    <2> HIDE DEF u, t, v, w
    <2>3. w - t <= w - u /\ v - u <= w - u
      BY <2>2, Differences, Zenon
    <2> QED  BY <2>1, <2>3, Zenon
  <1> QED  BY <1>7, <1>8, <1>9

LEMMA AllowanceType ==
    ASSUME ConstantsAssumption, NEW f \in Files, NEW p \in 1 .. Len(TextOf[f])
    PROVE  /\ Allowance(f, p) \in Nat /\ Size(f, p) \in Nat /\ ChunkSize \in Nat
           /\ Size(f, p) <= Allowance(f, p) /\ ChunkSize <= Allowance(f, p)
  <1>1. Size(f, p) \in Nat /\ ChunkSize \in Nat
    BY SizeIsNatural DEF ConstantsAssumption
  <1> HIDE DEF Size
  <1> QED  BY <1>1, SMTT(20) DEF Allowance

\* How lengths go on in the first m chunks of a file, and what a candidate p of
\* them is allowed.
Measured(f, m, p) ==
    /\ \A k \in 1 .. m : Size(f, k) \in Nat
    /\ ChunkSize \in Nat /\ Allowance(f, p) \in Nat
    /\ Size(f, p) <= Allowance(f, p) /\ ChunkSize <= Allowance(f, p)
    /\ TextLength(f, p, p) = Size(f, p)
    /\ \A lo \in 1 .. m : \A hi \in lo .. m :
          /\ hi + 1 \in 1 .. m =>
                TextLength(f, lo, hi + 1) = TextLength(f, lo, hi) + Size(f, hi + 1)
          /\ lo - 1 \in 1 .. m =>
                TextLength(f, lo - 1, hi) = TextLength(f, lo, hi) + Size(f, lo - 1)

LEMMA Within ==
    ASSUME NEW n \in Nat, NEW m \in 0 .. n, NEW lo \in 1 .. m, NEW hi \in lo .. m
    PROVE  /\ lo \in 1 .. n /\ hi \in lo .. n
           /\ hi + 1 \in 1 .. m => hi + 1 \in lo .. n /\ hi \in lo .. hi + 1 /\ hi < hi + 1
           /\ lo - 1 \in 1 .. m => /\ lo - 1 \in 1 .. n /\ hi \in lo - 1 .. n
                                  /\ lo - 1 \in lo - 1 .. hi /\ lo - 1 < hi /\ lo - 1 + 1 = lo
  OBVIOUS

LEMMA FilesAreMeasured ==
    ASSUME ConstantsAssumption, NEW f \in Files, NEW m \in 0 .. Len(TextOf[f]), NEW p \in 1 .. m
    PROVE  Measured(f, m, p)
  <1>1. m \in Nat /\ \A k \in 1 .. m : k \in 1 .. Len(TextOf[f])
    BY SizesFacts
  <1>2. \A k \in 1 .. m : Size(f, k) \in Nat
    BY <1>1, SizeIsNatural
  <1>3. \A k \in 1 .. m : TextLength(f, k, k) = Size(f, k)
    <2> SUFFICES ASSUME NEW k \in 1 .. m PROVE TextLength(f, k, k) = Size(f, k)
      OBVIOUS
    <2>1. k \in 1 .. Len(TextOf[f]) /\ k \in k .. Len(TextOf[f])
      BY <1>1, SizesFacts
    <2> QED  BY <2>1, TextLengths
  <1>4. ASSUME NEW lo \in 1 .. m, NEW hi \in lo .. m, hi + 1 \in 1 .. m
        PROVE  TextLength(f, lo, hi + 1) = TextLength(f, lo, hi) + Size(f, hi + 1)
    <2>1. /\ lo \in 1 .. Len(TextOf[f]) /\ hi + 1 \in lo .. Len(TextOf[f])
          /\ hi \in lo .. hi + 1 /\ hi < hi + 1
      BY <1>4, SizesFacts, Within, Zenon, ZenonT(60)
    <2>2. TextLength(f, lo, hi + 1) = TextLength(f, lo, hi) + TextLength(f, hi + 1, hi + 1)
      BY <2>1, TextLengths, Zenon
    <2> QED  BY <1>3, <1>4, <2>2
  <1>5. ASSUME NEW lo \in 1 .. m, NEW hi \in lo .. m, lo - 1 \in 1 .. m
        PROVE  TextLength(f, lo - 1, hi) = TextLength(f, lo, hi) + Size(f, lo - 1)
    <2>1. /\ lo - 1 \in 1 .. Len(TextOf[f]) /\ hi \in lo - 1 .. Len(TextOf[f])
          /\ lo - 1 \in lo - 1 .. hi /\ lo - 1 < hi /\ lo - 1 + 1 = lo
          /\ lo \in 1 .. Len(TextOf[f]) /\ hi \in lo .. Len(TextOf[f])
      BY <1>5, SizesFacts, Within, Zenon
    <2>2. TextLength(f, lo - 1, hi) = TextLength(f, lo - 1, lo - 1) + TextLength(f, lo - 1 + 1, hi)
      BY <2>1, TextLengths, Zenon
    <2>3. TextLength(f, lo - 1, hi) = Size(f, lo - 1) + TextLength(f, lo, hi)
      BY <1>3, <1>5, <2>1, <2>2, Zenon
    <2>4. TextLength(f, lo, hi) \in Int /\ Size(f, lo - 1) \in Int
      <3>1. TextLength(f, lo, hi) \in Int
        BY <2>1, TextLengths, Zenon
      <3>2. Size(f, lo - 1) \in Nat
        BY <1>2, <1>5, Zenon
      <3> QED  BY <3>1, <3>2
    <2>5. \A x, y \in Int : x + y = y + x
      OBVIOUS
    <2> QED  BY <2>3, <2>4, <2>5, Zenon
  <1>6. p \in 1 .. Len(TextOf[f])
    BY <1>1
  <1> QED  BY <1>2, <1>3, <1>4, <1>5, <1>6, AllowanceType DEF Measured

\* What a candidate p grew to after a neighbours before and b behind it.
Around(g, f, p, m, a, b) ==
    \E lo \in 1 .. p, hi \in p .. m :
        /\ g.parts = lo .. hi
        /\ g.size = TextLength(f, lo, hi) /\ g.size <= Allowance(f, p)
        /\ \/ g.full
           \/ /\ hi <= p + b /\ (hi = p + b \/ hi = m)
              /\ p - a <= lo /\ (lo = p - a \/ lo = 1)

LEMMA TryKeepsType ==
    ASSUME ConstantsAssumption, NEW f \in Files, NEW m \in 0 .. Len(TextOf[f]),
           NEW g \in Widening(m), NEW q \in Int
    PROVE  Try(g, f, q, 1 .. m) \in Widening(m)
  <1>1. q \in 1 .. m => Size(f, q) \in Nat
    <2>1. Len(TextOf[f]) \in Nat /\ \A i \in 1 .. Len(TextOf[f]) : Size(f, i) \in Nat
      BY SizeIsNatural
    <2> QED  BY <2>1, SMTT(20)
  <1>2. CASE g.full \/ q \notin 1 .. m
    BY <1>2 DEF Try
  <1>3. CASE ~g.full /\ q \in 1 .. m
    <2>1. CASE g.size + Size(f, q) > ChunkSize
      BY <1>3, <2>1 DEF Try, Widening
    <2>2. CASE ~(g.size + Size(f, q) > ChunkSize)
      <3>1. Try(g, f, q, 1 .. m) = [g EXCEPT !.size = g.size + Size(f, q), !.parts = g.parts \cup {q}]
        BY <1>3, <2>2 DEF Try
      <3>2. g.size \in Nat /\ g.parts \in SUBSET (1 .. m)
        BY DEF Widening
      <3>3. g.size + Size(f, q) \in Nat
        <4>1. Size(f, q) \in Nat
          BY <1>1, <1>3
        <4> HIDE DEF Size
        <4> QED  BY <3>2, <4>1, SMTT(20)
      <3>4. g.parts \cup {q} \in SUBSET (1 .. m)
        BY <1>3, <3>2
      <3> QED  BY <3>1, <3>3, <3>4 DEF Widening
    <2> QED  BY <2>1, <2>2
  <1> QED  BY <1>2, <1>3

LEMMA TryBehind ==
    ASSUME NEW f, NEW m \in Nat, NEW p \in 1 .. m, Measured(f, m, p), NEW a \in Nat, NEW b \in Nat,
           NEW g \in Widening(m), Around(g, f, p, m, a, b)
    PROVE  Around(Try(g, f, p + b + 1, 1 .. m), f, p, m, a, b + 1)
  <1> DEFINE q == p + b + 1
             t == Try(g, f, q, 1 .. m)
  <1>1. PICK lo \in 1 .. p, hi \in p .. m :
            /\ g.parts = lo .. hi
            /\ g.size = TextLength(f, lo, hi) /\ g.size <= Allowance(f, p)
            /\ \/ g.full
               \/ /\ hi <= p + b /\ (hi = p + b \/ hi = m)
                  /\ p - a <= lo /\ (lo = p - a \/ lo = 1)
    BY DEF Around
  <1>2. CASE g.full
    <2>1. t = g
      BY <1>2 DEF Try
    <2> QED  BY <1>1, <1>2, <2>1 DEF Around
  <1>3. CASE ~g.full /\ q \notin 1 .. m
    <2>1. t = g
      BY <1>3 DEF Try
    <2>2. hi = m /\ hi <= p + (b + 1)
      BY <1>1, <1>3
    <2> QED  BY <1>1, <1>3, <2>1, <2>2 DEF Around
  <1>4. CASE ~g.full /\ q \in 1 .. m
    <2>1. hi = p + b /\ hi + 1 = q /\ q \in p .. m /\ q = p + (b + 1)
      BY <1>1, <1>4
    <2>2. CASE g.size + Size(f, q) > ChunkSize
      <3>1. t.parts = g.parts /\ t.size = g.size /\ t.full
        BY <1>4, <2>2 DEF Try, Widening
      <3> QED  BY <1>1, <3>1 DEF Around
    <2>3. CASE ~(g.size + Size(f, q) > ChunkSize)
      <3>1. t.parts = g.parts \cup {q} /\ t.full = g.full /\ t.size = g.size + Size(f, q)
        BY <1>4, <2>3 DEF Try, Widening
      <3>2. (lo .. hi) \cup {q} = lo .. q
        BY <2>1
      <3>3. p - a <= lo /\ (lo = p - a \/ lo = 1) /\ g.parts = lo .. hi
        BY <1>1, <1>4, Zenon
      <3>4. t.parts = lo .. q
        <4> HIDE DEF q, t
        <4> QED  BY <3>1, <3>2, <3>3
      <3>5. q <= p + (b + 1)
        <4>1. p + (b + 1) \in Int
          OBVIOUS
        <4> QED  BY <2>1, <4>1
      <3>6. t.size = TextLength(f, lo, q)
        <4>1. hi + 1 \in 1 .. m /\ lo \in 1 .. m /\ hi \in lo .. m
          BY <1>4, <2>1
        <4> HIDE DEF q, t
        <4>2. TextLength(f, lo, hi + 1) = TextLength(f, lo, hi) + Size(f, hi + 1)
          BY <4>1, Zenon DEF Measured
        <4> QED  BY <1>1, <2>1, <3>1, <4>2, Zenon
      <3>7. t.size <= Allowance(f, p)
        <4> HIDE DEF q, t
        <4>1. g.size \in Int /\ Size(f, q) \in Int /\ ChunkSize \in Int /\ Allowance(f, p) \in Int
          BY <1>4 DEF Widening, Measured
        <4>2. g.size + Size(f, q) <= ChunkSize /\ ChunkSize <= Allowance(f, p)
          BY <2>3, <4>1 DEF Measured
        <4> QED  BY <3>1, <4>1, <4>2
      <3> HIDE DEF q, t
      <3>8. Around(t, f, p, m, a, b + 1)
        BY <2>1, <3>3, <3>4, <3>5, <3>6, <3>7, Zenon DEF Around
      <3> QED  BY <3>8 DEF q, t
    <2> QED  BY <2>2, <2>3
  <1> QED  BY <1>2, <1>3, <1>4

LEMMA TryBefore ==
    ASSUME NEW f, NEW m \in Nat, NEW p \in 1 .. m, Measured(f, m, p), NEW a \in Nat, NEW b \in Nat,
           NEW g \in Widening(m), Around(g, f, p, m, a, b)
    PROVE  Around(Try(g, f, p - (a + 1), 1 .. m), f, p, m, a + 1, b)
  <1> DEFINE q == p - (a + 1)
             t == Try(g, f, q, 1 .. m)
  <1>1. PICK lo \in 1 .. p, hi \in p .. m :
            /\ g.parts = lo .. hi
            /\ g.size = TextLength(f, lo, hi) /\ g.size <= Allowance(f, p)
            /\ \/ g.full
               \/ /\ hi <= p + b /\ (hi = p + b \/ hi = m)
                  /\ p - a <= lo /\ (lo = p - a \/ lo = 1)
    BY DEF Around
  <1>2. CASE g.full
    <2>1. t = g
      BY <1>2 DEF Try
    <2> QED  BY <1>1, <1>2, <2>1 DEF Around
  <1>3. CASE ~g.full /\ q \notin 1 .. m
    <2>1. t = g
      BY <1>3 DEF Try
    <2>2. lo = 1 /\ p - (a + 1) <= lo
      BY <1>1, <1>3
    <2> QED  BY <1>1, <1>3, <2>1, <2>2 DEF Around
  <1>4. CASE ~g.full /\ q \in 1 .. m
    <2>1. lo = p - a /\ lo - 1 = q /\ q \in 1 .. p
      BY <1>1, <1>4
    <2>2. CASE g.size + Size(f, q) > ChunkSize
      <3>1. t.parts = g.parts /\ t.size = g.size /\ t.full
        BY <1>4, <2>2 DEF Try, Widening
      <3> QED  BY <1>1, <3>1 DEF Around
    <2>3. CASE ~(g.size + Size(f, q) > ChunkSize)
      <3>1. t.parts = g.parts \cup {q} /\ t.full = g.full /\ t.size = g.size + Size(f, q)
        BY <1>4, <2>3 DEF Try, Widening
      <3>2. (lo .. hi) \cup {q} = q .. hi
        BY <2>1
      <3>3. hi <= p + b /\ (hi = p + b \/ hi = m) /\ g.parts = lo .. hi
        BY <1>1, <1>4, Zenon
      <3>4. t.parts = q .. hi
        <4> HIDE DEF q, t
        <4> QED  BY <3>1, <3>2, <3>3
      <3>5. p - (a + 1) <= q /\ q = p - (a + 1)
        <4>1. p - (a + 1) \in Int
          OBVIOUS
        <4> QED  BY <4>1
      <3>6. t.size = TextLength(f, q, hi)
        <4>1. lo - 1 \in 1 .. m /\ lo \in 1 .. m /\ hi \in lo .. m
          BY <1>4, <2>1
        <4> HIDE DEF q, t
        <4>2. TextLength(f, lo - 1, hi) = TextLength(f, lo, hi) + Size(f, lo - 1)
          BY <4>1, Zenon DEF Measured
        <4> QED  BY <1>1, <2>1, <3>1, <4>2, Zenon
      <3>7. t.size <= Allowance(f, p)
        <4> HIDE DEF q, t
        <4>1. g.size \in Int /\ Size(f, q) \in Int /\ ChunkSize \in Int /\ Allowance(f, p) \in Int
          BY <1>4 DEF Widening, Measured
        <4>2. g.size + Size(f, q) <= ChunkSize /\ ChunkSize <= Allowance(f, p)
          BY <2>3, <4>1 DEF Measured
        <4> QED  BY <3>1, <4>1, <4>2
      <3> HIDE DEF q, t
      <3>8. Around(t, f, p, m, a + 1, b)
        BY <2>1, <3>3, <3>4, <3>5, <3>6, <3>7, Zenon DEF Around
      <3> QED  BY <3>8 DEF q, t
    <2> QED  BY <2>2, <2>3
  <1> QED  BY <1>2, <1>3, <1>4

LEMMA Steps == \A p, k \in Int : /\ p + (k - 1) + 1 = p + k /\ p - (k - 1 + 1) = p - k
                              /\ k - 1 + 1 = k
  OBVIOUS

LEMMA Previous ==
    \A n \in Nat : \A k \in 0 .. n : k # 0 => k \in 1 .. n /\ k - 1 \in 0 .. n
  OBVIOUS

LEMMA InsideInterval ==
    ASSUME NEW m \in Nat, NEW p \in 1 .. m, NEW lo \in 1 .. p, NEW hi \in p .. m
    PROVE  lo .. hi \subseteq 1 .. m /\ p \in lo .. hi
  OBVIOUS

IntervalAround(w, f, p, m) ==
    \E lo \in 1 .. p, hi \in p .. m :
        p \in 1 .. m /\ w = lo .. hi /\ TextLength(f, lo, hi) <= Allowance(f, p)

\* A candidate in a file of m chunks is widened to an interval around it, no longer
\* than is allowed.
LEMMA WidenedIsInterval ==
    ASSUME ConstantsAssumption, NEW f \in Files, NEW m \in 0 .. Len(TextOf[f]), NEW p \in 1 .. m
    PROVE  IntervalAround(Widened(f, p, 1 .. m), f, p, m)
  <1> DEFINE N == Window - 1
             S == Widening(m)
             base == [size |-> Size(f, p), parts |-> {p}, full |-> FALSE]
             Both(g, k) == Try(Try(g, f, p + k, 1 .. m), f, p - k, 1 .. m)
             Is(h) == h = [k \in 0 .. Window - 1 |-> IF k = 0 THEN base ELSE Both(h[k - 1], k)]
             step == [x \in S \X (1 .. N) |-> Both(x[1], x[2])]
  <1>1. Window \in Nat /\ N \in Nat /\ m \in Nat /\ p \in Nat
    <2>1. Window \in Nat \ {0}
      BY DEF ConstantsAssumption
    <2>2. Len(TextOf[f]) \in Nat
      BY SizeIsNatural
    <2>3. m \in Nat
      BY <2>2
    <2>4. p \in Nat
      BY <2>3
    <2> QED  BY <2>1, <2>3, <2>4, SMTT(20)
  <1>2. Measured(f, m, p)
    BY FilesAreMeasured
  <1>3. base \in S
    <2>1. Size(f, p) \in Nat
      BY SizeIsNatural, SMTT(20)
    <2> QED  BY <2>1 DEF Widening
  <1> HIDE DEF base
  <1>4. \A g \in S, k \in Nat : Try(g, f, p + k, 1 .. m) \in S /\ Both(g, k) \in S
    <2> SUFFICES ASSUME NEW g \in S, NEW k \in Nat
                 PROVE  Try(g, f, p + k, 1 .. m) \in S /\ Both(g, k) \in S
      OBVIOUS
    <2>1. p + k \in Int /\ p - k \in Int
      BY SMTT(20)
    <2>2. Try(g, f, p + k, 1 .. m) \in S
      BY <2>1, TryKeepsType
    <2> QED  BY <2>1, <2>2, TryKeepsType
  <1>5. step \in [S \X (1 .. N) -> S]
    <2> HIDE DEF S, Both, N
    <2>1. \A x \in S \X (1 .. N) : x[1] \in S /\ x[2] \in Nat
      BY <1>1
    <2> QED  BY <1>4, <2>1
  <1>6. PICK h \in [0 .. N -> S] : Follows(h, N, base, step)
    <2> HIDE DEF S, step, N
    <2> QED  BY <1>1, <1>3, <1>5, Recursion
  <1>7. Is(h)
    <2>1. ASSUME NEW k \in 0 .. N, k # 0 PROVE h[k] = Both(h[k - 1], k)
      <3>1. k \in 1 .. N /\ k - 1 \in 0 .. N
        BY <1>1, <2>1, Previous, Zenon
      <3>2. <<h[k - 1], k>> \in S \X (1 .. N) /\ h[k] = step[<<h[k - 1], k>>]
        BY <1>6, <3>1 DEF Follows
      <3> HIDE DEF Both
      <3> QED  BY <3>2
    <2>2. h[0] = base
      BY <1>6 DEF Follows
    <2> HIDE DEF Both, S
    <2> QED  BY <1>6, <2>1, <2>2
  <1> DEFINE w == CHOOSE g : Is(g)
  <1>8. Is(w) /\ Widened(f, p, 1 .. m) = w[N].parts
    <2>1. Widened(f, p, 1 .. m) = w[N].parts
      BY DEF Widened, base
    <2> HIDE DEF Is
    <2> QED  BY <1>7, <2>1
  <1> HIDE DEF w
  <1>9. w[0] = base /\ \A k \in 1 .. N : w[k] = Both(w[k - 1], k)
    <2>1. 0 \in 0 .. N /\ \A k \in 1 .. N : k \in 0 .. N /\ k # 0
      BY <1>1, SMTT(20)
    <2> HIDE DEF Both
    <2> QED  BY <1>8, <2>1
  <1> DEFINE T == {k \in 0 .. N : w[k] \in S /\ Around(w[k], f, p, m, k, k)}
  <1>10. 0 \in T
    <2>1. base.parts = p .. p /\ p \in 1 .. p /\ p \in p .. m
      BY <1>1 DEF base
    <2>2. base.size = TextLength(f, p, p) /\ base.size <= Allowance(f, p)
      BY <1>2 DEF base, Measured
    <2>3. p <= p + 0 /\ p = p + 0 /\ p - 0 <= p /\ p = p - 0
      BY <1>1, SMTT(20)
    <2>4. Around(base, f, p, m, 0, 0)
      BY <2>1, <2>2, <2>3 DEF Around
    <2> HIDE DEF S
    <2> QED  BY <1>1, <1>3, <1>9, <2>4, SMTT(20)
  <1>11. ASSUME NEW k \in 1 .. N, k - 1 \in T PROVE k \in T
    <2> DEFINE v == w[k - 1]
               u == Try(v, f, p + k, 1 .. m)
    <2>1. v \in S /\ Around(v, f, p, m, k - 1, k - 1) /\ k - 1 \in Nat /\ k \in Nat
      BY <1>11
    <2>2. k \in 0 .. N /\ k \in Int /\ p \in Int
      BY <1>1
    <2>3. w[k] = Try(u, f, p - k, 1 .. m) /\ u \in S /\ w[k] \in S
      <3> HIDE DEF S
      <3> QED  BY <1>4, <1>9, <2>1
    <2>4. Around(u, f, p, m, k - 1, k)
      <3>1. p + (k - 1) + 1 = p + k /\ k - 1 + 1 = k
        BY <2>2, Steps, Zenon
      <3>2. Around(Try(v, f, p + (k - 1) + 1, 1 .. m), f, p, m, k - 1, k - 1 + 1)
        <4> HIDE DEF v
        <4> QED  BY <1>1, <1>2, <2>1, TryBehind
      <3> QED  BY <3>1, <3>2
    <2>5. Around(w[k], f, p, m, k, k)
      <3>1. p - (k - 1 + 1) = p - k /\ k - 1 + 1 = k
        BY <2>2, Steps, Zenon
      <3>2. Around(Try(u, f, p - (k - 1 + 1), 1 .. m), f, p, m, k - 1 + 1, k)
        <4> HIDE DEF u
        <4> QED  BY <1>1, <1>2, <2>1, <2>3, <2>4, TryBefore
      <3> QED  BY <2>3, <3>1, <3>2
    <2> HIDE DEF S, N
    <2> QED  BY <2>3, <2>5, <2>2
  <1>12. N \in T
    <2> HIDE DEF T
    <2>1. \A k \in 0 .. N : k \in T
      BY <1>1, <1>10, <1>11, StepByStep
    <2> QED  BY <1>1, <2>1
  <1> QED  BY <1>8, <1>12 DEF Around, IntervalAround

\* A run of numbers that is not continued on either side.
IsRun(r, ids, m) ==
    \E a \in 1 .. m, b \in 1 .. m :
        a <= b /\ r = a .. b /\ a .. b \subseteq ids /\ a - 1 \notin ids /\ b + 1 \notin ids

RunOf(ids, n) == {k \in ids : n <= k /\ n .. k \subseteq ids}

LEMMA RunFrom ==
    ASSUME NEW m \in Nat, NEW ids \in SUBSET (1 .. m), NEW n \in ids
    PROVE  \E b \in 1 .. m :
              /\ n <= b /\ b + 1 \notin ids /\ n .. b \subseteq ids
              /\ RunOf(ids, n) = n .. b
  <1> DEFINE Ends == {k \in n .. m : k + 1 \notin ids}
  <1>1. n \in 1 .. m /\ n \in Nat
    OBVIOUS
  <1>2. Ends \in SUBSET Nat /\ m \in Ends
    BY <1>1
  <1> HIDE DEF Ends
  <1>3. PICK b \in Ends : \A k \in Ends : b <= k
    BY <1>2, LeastOf
  <1>4. b \in n .. m /\ b \in 1 .. m /\ b + 1 \notin ids
    BY <1>1, <1>3 DEF Ends
  <1>5. ASSUME NEW k \in n .. b PROVE k \in ids
    <2>1. CASE k = n
      BY <2>1
    <2>2. CASE k # n
      <3>1. k - 1 \in n .. m /\ k - 1 + 1 = k /\ ~(b <= k - 1)
        BY <1>1, <1>4, <2>2
      <3>2. k - 1 \notin Ends
        BY <1>3, <3>1
      <3> QED  BY <3>1, <3>2 DEF Ends
    <2> QED  BY <2>1, <2>2
  <1>6. ASSUME NEW k \in ids, n <= k, n .. k \subseteq ids PROVE k \in n .. b
    <2>1. k \in Nat /\ b \in Nat
      BY <1>4
    <2>2. CASE k <= b
      BY <1>1, <1>6, <2>1, <2>2
    <2>3. CASE b < k
      <3>1. b + 1 \in n .. k
        BY <1>1, <1>4, <2>1, <2>3
      <3> QED  BY <1>4, <1>6, <3>1
    <2> QED  BY <2>1, <2>2, <2>3
  <1>7. ASSUME NEW k \in n .. b PROVE n <= k /\ n .. k \subseteq n .. b
    BY <1>1, <1>4
  <1>8. RunOf(ids, n) = n .. b
    <2>1. n .. b \subseteq ids
      BY <1>5
    <2> QED  BY <1>6, <1>7, <2>1 DEF RunOf
  <1>9. n <= b
    BY <1>4
  <1> QED  BY <1>4, <1>5, <1>8, <1>9

LEMMA SeparateListFacts ==
    ASSUME NEW m \in Nat, NEW ids \in SUBSET (1 .. m)
    PROVE  /\ \A r \in SeparateList(ids) : IsRun(r, ids, m)
           /\ \A x \in ids : \E r \in SeparateList(ids) : x \in r
  <1>1. ASSUME NEW r \in SeparateList(ids) PROVE IsRun(r, ids, m)
    <2>1. PICK n \in ids : n - 1 \notin ids /\ r = RunOf(ids, n)
      BY DEF SeparateList, RunOf
    <2>2. PICK b \in 1 .. m :
              /\ n <= b /\ b + 1 \notin ids /\ n .. b \subseteq ids
              /\ RunOf(ids, n) = n .. b
      BY RunFrom, Zenon
    <2>3. r = n .. b /\ n \in 1 .. m
      BY <2>1, <2>2
    <2> QED  BY <2>1, <2>2, <2>3, Zenon DEF IsRun
  <1>2. ASSUME NEW x \in ids PROVE \E r \in SeparateList(ids) : x \in r
    <2> DEFINE Starts == {n \in 1 .. x : n .. x \subseteq ids}
    <2>1. x \in 1 .. m /\ x \in Nat /\ x .. x = {x}
      OBVIOUS
    <2>2. Starts \in SUBSET Nat /\ x \in Starts
      BY <2>1
    <2> HIDE DEF Starts
    <2>3. PICK n \in Starts : \A k \in Starts : n <= k
      BY <2>2, LeastOf
    <2>4. n \in 1 .. x /\ n .. x \subseteq ids
      BY <2>3 DEF Starts
    <2>5. n - 1 \notin ids
      <3> SUFFICES ASSUME n - 1 \in ids PROVE FALSE
        OBVIOUS
      <3>1. n - 1 \in 1 .. x /\ ~(n <= n - 1)
        BY <2>1, <2>4
      <3>2. (n - 1) .. x \subseteq ids
        <4> SUFFICES ASSUME NEW k \in (n - 1) .. x PROVE k \in ids
          OBVIOUS
        <4>1. k = n - 1 \/ k \in n .. x
          BY <2>1, <2>4
        <4> QED  BY <2>4, <4>1
      <3>3. n - 1 \in Starts
        BY <3>1, <3>2 DEF Starts
      <3> QED  BY <2>3, <3>1, <3>3
    <2>6. n \in ids /\ n <= x
      BY <2>1, <2>4
    <2> DEFINE r == RunOf(ids, n)
    <2>7. r \in SeparateList(ids)
      BY <2>5, <2>6 DEF SeparateList, RunOf
    <2>8. x \in r
      BY <2>4, <2>6 DEF RunOf
    <2> HIDE DEF r
    <2> QED  BY <2>7, <2>8
  <1> QED  BY <1>1, <1>2

\* Two runs are the same, or a number between them is missing.
RunAt(ids, m, a, b) ==
    /\ a \in 1 .. m /\ b \in 1 .. m /\ a <= b
    /\ a .. b \subseteq ids /\ a - 1 \notin ids /\ b + 1 \notin ids

LEMMA RunsApart ==
    ASSUME NEW m \in Nat, NEW ids \in SUBSET (1 .. m),
           NEW a, NEW b, RunAt(ids, m, a, b), NEW c, NEW d, RunAt(ids, m, c, d)
    PROVE  /\ a < c => b + 1 < c
           /\ a = c => b = d
  <1> USE DEF RunAt
  <1>1. ASSUME a < c PROVE b + 1 < c
    <2> SUFFICES ASSUME c <= b + 1 PROVE FALSE
      OBVIOUS
    <2>1. c - 1 \in a .. b
      BY <1>1
    <2> QED  BY <2>1
  <1>2. ASSUME a = c PROVE b = d
    <2>1. CASE b < d
      <3>1. b + 1 \in c .. d
        BY <1>2, <2>1
      <3> QED  BY <3>1
    <2>2. CASE d < b
      <3>1. d + 1 \in a .. b
        BY <1>2, <2>2
      <3> QED  BY <3>1
    <2> QED  BY <2>1, <2>2
  <1> QED  BY <1>1, <1>2

\* Each number of a run of widened candidates is of one in the run.
LEMMA RunIsCovered ==
    ASSUME NEW m \in Nat, NEW ids \in SUBSET (1 .. m),
           NEW a \in 1 .. m, NEW b \in 1 .. m, RunAt(ids, m, a, b),
           NEW f, NEW cands, NEW W, ids = UNION {W[p] : p \in cands},
           \A p \in cands : IntervalAround(W[p], f, p, m)
    PROVE  \A x \in a .. b : \E p \in (a .. b) \cap cands : x \in W[p]
  <1> SUFFICES ASSUME NEW x \in a .. b PROVE \E p \in (a .. b) \cap cands : x \in W[p]
    OBVIOUS
  <1>1. x \in ids
    BY DEF RunAt
  <1>2. PICK p \in cands : x \in W[p]
    BY <1>1
  <1>3. PICK lo \in 1 .. p, hi \in p .. m : p \in 1 .. m /\ W[p] = lo .. hi
    BY DEF IntervalAround
  <1>4. lo .. hi \subseteq ids
    BY <1>3
  <1>5. a <= p
    <2> SUFFICES ASSUME p < a PROVE FALSE
      BY <1>3
    <2>1. a - 1 \in lo .. hi
      BY <1>2, <1>3
    <2> QED  BY <1>4, <2>1 DEF RunAt
  <1>6. p <= b
    <2> SUFFICES ASSUME b < p PROVE FALSE
      BY <1>3
    <2>1. b + 1 \in lo .. hi
      BY <1>2, <1>3
    <2> QED  BY <1>4, <2>1 DEF RunAt
  <1>7. p \in (a .. b) \cap cands
    BY <1>3, <1>5, <1>6
  <1> QED  BY <1>2, <1>7

\* What is allowed to the candidates C among the chunks from a to b.
Allowances(f, a, b, C) ==
    [k \in 1 .. b - a + 1 |-> IF a + k - 1 \in C THEN Allowance(f, a + k - 1) ELSE 0]

LEMMA AllowancesFacts ==
    ASSUME NEW f, NEW m \in Nat, NEW a \in 1 .. m, NEW b \in a .. m,
           \A p \in 1 .. m : Allowance(f, p) \in Nat
    PROVE  /\ \A C \in SUBSET (a .. b) : Sum(Allowances(f, a, b, C)) \in Nat
           /\ \A C \in SUBSET (a .. b) : \A p \in C :
                 Sum(Allowances(f, a, b, C)) =
                    Sum(Allowances(f, a, b, C \ {p})) + Allowance(f, p)
  <1> DEFINE n == b - a + 1
  <1>1. n \in Nat /\ \A k \in 1 .. n : a + k - 1 \in 1 .. m
    OBVIOUS
  <1>2. ASSUME NEW C
        PROVE  /\ Allowances(f, a, b, C) \in Seq(Nat) /\ Allowances(f, a, b, C) \in Seq(Int)
               /\ Len(Allowances(f, a, b, C)) = n
               /\ \A k \in 1 .. n : Allowances(f, a, b, C)[k] =
                                     IF a + k - 1 \in C THEN Allowance(f, a + k - 1) ELSE 0
    <2> DEFINE s == Allowances(f, a, b, C)
    <2>1. s = [k \in 1 .. n |-> IF a + k - 1 \in C THEN Allowance(f, a + k - 1) ELSE 0]
      BY DEF Allowances
    <2> HIDE DEF s, n
    <2>2. s \in [1 .. n -> Nat]
      BY <1>1, <2>1
    <2>3. s \in Seq(Nat) /\ Len(s) = n
      BY <1>1, <2>2, SequenceOf
    <2>4. \A k \in 1 .. n : s[k] = IF a + k - 1 \in C THEN Allowance(f, a + k - 1) ELSE 0
      BY <2>1
    <2> QED  BY <2>3, <2>4, SumIsNatural DEF s
  <1>3. ASSUME NEW C \in SUBSET (a .. b), NEW p \in C
        PROVE  Sum(Allowances(f, a, b, C)) = Sum(Allowances(f, a, b, C \ {p})) + Allowance(f, p)
    <2> DEFINE ns == Allowances(f, a, b, C \ {p})
               ms == Allowances(f, a, b, C)
               k == p - a + 1
    <2>1. k \in 1 .. n /\ a + k - 1 = p /\ p \in 1 .. m
      OBVIOUS
    <2>2. \A i \in 1 .. n : i # k => a + i - 1 # p
      OBVIOUS
    <2> HIDE DEF k, n
    <2>3. ms[k] = Allowance(f, p) /\ ns[k] = 0 /\ Allowance(f, p) \in Int
      <3>1. p \in C /\ p \notin C \ {p} /\ Allowance(f, p) \in Int
        BY <2>1
      <3>2. ms[k] = IF a + k - 1 \in C THEN Allowance(f, a + k - 1) ELSE 0
        BY <1>2, <2>1, Zenon
      <3>3. ns[k] = IF a + k - 1 \in C \ {p} THEN Allowance(f, a + k - 1) ELSE 0
        BY <1>2, <2>1, Zenon
      <3> HIDE DEF ms, ns
      <3> QED  BY <2>1, <3>1, <3>2, <3>3, Zenon
    <2>4. \A i \in 1 .. n : i # k => ms[i] = ns[i]
      BY <1>2, <2>2, SMTT(20)
    <2> HIDE DEF ms, ns
    <2>5. ms \in Seq(Int) /\ ns \in Seq(Int) /\ Len(ms) = n /\ Len(ns) = n
      BY <1>2 DEF ms, ns
    <2>6. ms[k] = ns[k] + Allowance(f, p)
      BY <2>3
    <2>7. Sum(ms) = Sum(ns) + Allowance(f, p)
      <3>1. Len(ms) = Len(ns) /\ k \in 1 .. Len(ns) /\ \A i \in 1 .. Len(ns) : i # k => ms[i] = ns[i]
        BY <2>1, <2>4, <2>5, Zenon
      <3> QED  BY <2>3, <2>5, <2>6, <3>1, SumOfChanged, Zenon
    <2> QED  BY <2>7 DEF ms, ns
  <1> QED  BY <1>2, <1>3, SumIsNatural

\* How the lengths of the first m chunks of a file add up.
Additive(f, m) ==
    /\ \A p \in 1 .. m : Allowance(f, p) \in Nat
    /\ \A c \in 1 .. m : \A d \in c .. m :
          /\ TextLength(f, c, d) \in Int
          /\ \A x \in c .. d : x < d =>
                TextLength(f, c, d) = TextLength(f, c, x) + TextLength(f, x + 1, d)
          /\ \A x \in c .. d : TextLength(f, x, d) <= TextLength(f, c, d)
          /\ \A x \in c .. d : TextLength(f, c, x) <= TextLength(f, c, d)

LEMMA FilesAreAdditive ==
    ASSUME ConstantsAssumption, NEW f \in Files, NEW m \in 0 .. Len(TextOf[f])
    PROVE  Additive(f, m)
  <1>1. \A p \in 1 .. m : Allowance(f, p) \in Nat
    BY FilesAreMeasured DEF Measured
  <1>2. ASSUME NEW c \in 1 .. m, NEW d \in c .. m
        PROVE  c \in 1 .. Len(TextOf[f]) /\ d \in c .. Len(TextOf[f])
    BY SizesFacts, Within, Zenon
  <1> QED  BY <1>1, <1>2, TextLengths DEF Additive

\* What part of an interval chosen candidates cover is no longer than is allowed
\* to them: by induction on how many they are.
LEMMA CoveredFits ==
    ASSUME NEW f, NEW m \in Nat, Additive(f, m), NEW a \in 1 .. m, NEW b \in a .. m,
           NEW K \in SUBSET (a .. b), NEW W, \A p \in K : IntervalAround(W[p], f, p, m),
           \A x \in a .. b : \E p \in K : x \in W[p]
    PROVE  TextLength(f, a, b) <= Sum(Allowances(f, a, b, K))
  <1> DEFINE Total(C) == Sum(Allowances(f, a, b, C))
             Covers(C, c, d) == \A x \in c .. d : \E p \in C : x \in W[p]
             Fits(C) == \A c \in a .. b : \A d \in c .. b :
                           Covers(C, c, d) => TextLength(f, c, d) <= Total(C)
             T == {n \in 0 .. Cardinality(K) : \A C \in SUBSET K : Cardinality(C) = n => Fits(C)}
  <1>1. /\ \A C \in SUBSET (a .. b) : Total(C) \in Nat
        /\ \A C \in SUBSET (a .. b) : \A p \in C : Total(C) = Total(C \ {p}) + Allowance(f, p)
    BY AllowancesFacts DEF Additive
  <1>2. IsFiniteSet(K) /\ Cardinality(K) \in Nat
    <2>1. IsFiniteSet(a .. b)
      BY FS_Interval
    <2> QED  BY <2>1, FS_Subset, FS_CardinalityType
  <1> HIDE DEF Total
  <1>3. ASSUME NEW C \in SUBSET K, C # {}, \A p \in C : Fits(C \ {p})
        PROVE  Fits(C)
    <2> SUFFICES ASSUME NEW c \in a .. b, NEW d \in c .. b, Covers(C, c, d)
                 PROVE  TextLength(f, c, d) <= Total(C)
      OBVIOUS
    <2>1. /\ c \in 1 .. m /\ d \in c .. m /\ d \in 1 .. m /\ d \in c .. d
      OBVIOUS
    <2>2. PICK p \in C : d \in W[p]
      BY <2>1
    <2>3. PICK lo \in 1 .. p, hi \in p .. m :
              p \in 1 .. m /\ W[p] = lo .. hi /\ TextLength(f, lo, hi) <= Allowance(f, p)
      BY DEF IntervalAround
    <2>4. lo \in 1 .. m /\ hi \in lo .. m /\ d \in lo .. hi
      BY <2>2, <2>3
    <2>5. /\ Total(C) = Total(C \ {p}) + Allowance(f, p)
          /\ Total(C) \in Nat /\ Total(C \ {p}) \in Nat /\ Allowance(f, p) \in Nat
      <3>1. C \in SUBSET (a .. b) /\ C \ {p} \in SUBSET (a .. b)
        OBVIOUS
      <3> QED  BY <1>1, <2>3, <3>1 DEF Additive
    <2>6. TextLength(f, lo, hi) \in Int /\ TextLength(f, lo, d) <= TextLength(f, lo, hi)
      BY <2>4, Zenon DEF Additive
    <2>7. TextLength(f, lo, d) \in Int /\ TextLength(f, c, d) \in Int
      <3>1. d \in lo .. m
        BY <2>1, <2>4
      <3> QED  BY <2>1, <2>4, <3>1, Zenon DEF Additive
    <2> HIDE DEF Fits, Covers
    <2>8. CASE lo <= c
      <3>1. c \in lo .. d /\ d \in lo .. m
        BY <2>1, <2>4, <2>8
      <3>2. TextLength(f, c, d) <= TextLength(f, lo, d)
        BY <2>4, <3>1, Zenon DEF Additive
      <3> QED  BY <2>3, <2>5, <2>6, <2>7, <3>2, SMTT(20)
    <2>9. CASE c < lo
      <3>1. /\ lo - 1 \in c .. b /\ lo - 1 \in c .. d /\ lo - 1 < d /\ lo - 1 + 1 = lo
            /\ lo - 1 \in c .. m
        BY <2>1, <2>4, <2>9
      <3>2. TextLength(f, c, d) = TextLength(f, c, lo - 1) + TextLength(f, lo - 1 + 1, d)
        BY <2>1, <3>1, Zenon DEF Additive
      <3>3. Covers(C \ {p}, c, lo - 1)
        <4> SUFFICES ASSUME NEW x \in c .. lo - 1 PROVE \E q \in C \ {p} : x \in W[q]
          BY DEF Covers
        <4>1. x \in c .. d /\ x \notin lo .. hi
          BY <2>1, <2>4
        <4>2. PICK q \in C : x \in W[q]
          BY <4>1 DEF Covers
        <4>3. q # p
          BY <2>3, <4>1, <4>2
        <4> QED  BY <4>2, <4>3
      <3>4. Fits(C \ {p})
        BY <1>3
      <3>5. TextLength(f, c, lo - 1) <= Total(C \ {p})
        BY <3>1, <3>3, <3>4 DEF Fits
      <3>6. TextLength(f, c, lo - 1) \in Int
        BY <2>1, <3>1, Zenon DEF Additive
      <3>7. TextLength(f, c, d) = TextLength(f, c, lo - 1) + TextLength(f, lo, d)
        BY <3>1, <3>2, Zenon
      <3> QED  BY <2>3, <2>5, <2>6, <2>7, <3>5, <3>6, <3>7, SMTT(20)
    <2> QED  BY <2>1, <2>4, <2>8, <2>9
  <1>4. Fits({})
    <2>1. ASSUME NEW c \in a .. b, NEW d \in c .. b PROVE ~Covers({}, c, d)
      <3>1. c \in c .. d
        OBVIOUS
      <3> QED  BY <3>1
    <2> QED  BY <2>1
  <1> HIDE DEF Fits
  <1>5. 0 \in T
    <2>1. ASSUME NEW C \in SUBSET K, Cardinality(C) = 0 PROVE Fits(C)
      <3>1. C = {}
        BY <1>2, <2>1, FS_Subset, FS_EmptySet
      <3> QED  BY <1>4, <3>1
    <2> QED  BY <1>2, <2>1
  <1>6. ASSUME NEW n \in 1 .. Cardinality(K), n - 1 \in T PROVE n \in T
    <2>1. ASSUME NEW C \in SUBSET K, Cardinality(C) = n PROVE Fits(C)
      <3>1. IsFiniteSet(C)
        BY <1>2, FS_Subset
      <3>2. C # {}
        BY <2>1, FS_EmptySet
      <3>3. ASSUME NEW p \in C PROVE Fits(C \ {p})
        <4>1. Cardinality(C \ {p}) = n - 1
          BY <2>1, <3>1, FS_RemoveElement
        <4>2. C \ {p} \in SUBSET K
          OBVIOUS
        <4> QED  BY <1>6, <4>1, <4>2
      <3> QED  BY <1>3, <3>2, <3>3
    <2> QED  BY <1>2, <2>1
  <1>7. Fits(K)
    <2> HIDE DEF T
    <2>1. \A n \in 0 .. Cardinality(K) : n \in T
      BY <1>2, <1>5, <1>6, StepByStep
    <2>2. Cardinality(K) \in T
      BY <1>2, <2>1
    <2> QED  BY <2>2 DEF T
  <1>8. a \in a .. b /\ b \in a .. b
    OBVIOUS
  <1> QED  BY <1>7, <1>8 DEF Fits, Total

LEMMA HeadOf == ASSUME NEW S, NEW s \in Seq(S), s # <<>> PROVE Head(s) = s[1]
  OBVIOUS

\* The numbers of an interval, sorted.
LEMMA AscendingInterval ==
    ASSUME NEW a \in Nat, NEW b \in Nat, a <= b
    PROVE  /\ Ascending(a .. b) = [k \in 1 .. b - a + 1 |-> a + k - 1]
           /\ Ascending(a .. b) \in Seq(Int) /\ Len(Ascending(a .. b)) = b - a + 1
           /\ Head(Ascending(a .. b)) = a /\ Last(Ascending(a .. b)) = b
  <1> DEFINE s == Ascending(a .. b)
             n == b - a + 1
  <1>1. IsFiniteSet(a .. b) /\ Cardinality(a .. b) = n /\ a .. b \in SUBSET Int
    BY FS_Interval
  <1>2. Lists(s, a .. b) /\ \A i, j \in 1 .. Len(s) : i < j => s[i] < s[j]
    BY <1>1, AscendingLists, Zenon
  <1> HIDE DEF s
  <1>3. Len(s) = n /\ n \in Nat \ {0} /\ DOMAIN s = 1 .. n /\ s = [i \in 1 .. n |-> s[i]] /\ s \in Seq(a .. b)
        /\ \A i \in 1 .. n : s[i] \in a .. b
    BY <1>1, <1>2 DEF Lists
  <1> HIDE DEF n
  <1>4. \A i, j \in 1 .. n : i < j => s[i] < s[j]
    BY <1>2, <1>3
  <1>5. n - 1 \in Nat
    BY <1>3
  <1>6. \A i \in 0 .. n - 1 : s[i + 1] >= a + i
    <2> DEFINE T == {i \in 0 .. n - 1 : s[i + 1] >= a + i}
    <2>1. 0 \in T
      BY <1>3
    <2>2. ASSUME NEW i \in 1 .. n - 1, i - 1 \in T PROVE i \in T
      <3>1. i \in 1 .. n /\ i + 1 \in 1 .. n /\ i - 1 + 1 = i /\ i < i + 1
        BY <1>3
      <3>2. s[i] >= a + (i - 1) /\ s[i] < s[i + 1]
        BY <1>4, <2>2, <3>1
      <3>3. s[i] \in Int /\ s[i + 1] \in Int
        BY <1>3, <3>1
      <3>4. s[i + 1] >= a + i
        BY <3>2, <3>3
      <3> QED  BY <3>4
    <2>3. \A i \in 0 .. n - 1 : i \in T
      <3> HIDE DEF T
      <3> QED  BY <1>5, <2>1, <2>2, StepByStep
    <2> QED  BY <2>3
  <1>7. \A i \in 0 .. n - 1 : s[n - i] <= b - i
    <2> DEFINE T == {i \in 0 .. n - 1 : s[n - i] <= b - i}
    <2>1. 0 \in T
      <3>1. n - 0 \in 1 .. n /\ b - 0 = b
        BY <1>3
      <3> QED  BY <1>3, <1>5, <3>1
    <2>2. ASSUME NEW i \in 1 .. n - 1, i - 1 \in T PROVE i \in T
      <3>1. n - i \in 1 .. n /\ n - (i - 1) \in 1 .. n /\ n - i < n - (i - 1)
        BY <1>3
      <3>2. s[n - (i - 1)] <= b - (i - 1) /\ s[n - i] < s[n - (i - 1)]
        BY <1>4, <2>2, <3>1
      <3>3. s[n - i] \in Int /\ s[n - (i - 1)] \in Int
        BY <1>3, <3>1
      <3>4. s[n - i] <= b - i
        BY <3>2, <3>3
      <3> QED  BY <3>4
    <2>3. \A i \in 0 .. n - 1 : i \in T
      <3> HIDE DEF T
      <3> QED  BY <1>5, <2>1, <2>2, StepByStep
    <2> QED  BY <2>3
  <1>8. ASSUME NEW k \in 1 .. n PROVE s[k] = a + k - 1
    <2>1. k - 1 \in 0 .. n - 1 /\ n - k \in 0 .. n - 1 /\ k - 1 + 1 = k /\ n - (n - k) = k
      BY <1>3
    <2>2. s[k - 1 + 1] >= a + (k - 1) /\ s[n - (n - k)] <= b - (n - k)
      BY <1>6, <1>7, <2>1, Zenon
    <2>3. s[k] >= a + (k - 1) /\ s[k] <= b - (n - k) /\ s[k] \in Int
      <3>1. s[k] \in a .. b
        BY <1>3
      <3>2. s[k] \in Int
        BY <3>1
      <3> QED  BY <2>1, <2>2, <3>2, Zenon
    <2> QED  BY <1>3, <2>3 DEF n
  <1>9. s = [k \in 1 .. n |-> a + k - 1]
    BY <1>3, <1>8
  <1>10. s \in Seq(Int)
    <2>1. a .. b \subseteq Int
      OBVIOUS
    <2> QED  BY <1>3, <2>1, SeqMonotonic
  <1>11. Head(s) = a /\ s # <<>>
    <2>1. s # <<>>
      BY <1>3, EmptySeq
    <2>2. 1 \in 1 .. n
      BY <1>3
    <2> QED  BY <1>8, <1>10, <2>1, <2>2, HeadOf
  <1>12. Last(s) = b
    <2>1. n \in 1 .. n
      BY <1>3
    <2>2. s[n] = a + n - 1
      BY <1>8, <2>1
    <2>3. a + n - 1 = b
      BY DEF n
    <2> QED  BY <1>3, <2>2, <2>3 DEF Last
  <1> QED  BY <1>3, <1>9, <1>10, <1>11, <1>12 DEF n, s

-----------------------------------------------------------------------------
(* What a search leaves: a copy of the metadata with the first chunks of   *)
(* every file, and candidates among them.                                  *)

FirstChunks(S) ==
    /\ S \subseteq UNION {ChunksOf(f) : f \in Files}
    /\ \A f \in Files : \E n \in 0 .. Len(TextOf[f]) : PartsIn(f, S) = 1 .. n

FoundIsSeen ==
    /\ FirstChunks(seen)
    /\ DOMAIN found \subseteq seen
    /\ found \in [DOMAIN found -> Int]

LEMMA ChunksAreFinite ==
    ASSUME ConstantsAssumption
    PROVE  IsFiniteSet(UNION {ChunksOf(f) : f \in Files})
  <1>1. ASSUME NEW f \in Files PROVE IsFiniteSet(ChunksOf(f))
    <2> DEFINE g == [p \in DOMAIN TextOf[f] |-> [file |-> f, part |-> p]]
    <2>1. IsFiniteSet(DOMAIN TextOf[f])
      <3>1. Len(TextOf[f]) \in Nat /\ DOMAIN TextOf[f] = 1 .. Len(TextOf[f])
        BY SizeIsNatural
      <3>2. IsFiniteSet(1 .. Len(TextOf[f]))
        <4>1. 1 \in Int /\ Len(TextOf[f]) \in Int
          BY <3>1
        <4> QED  BY <4>1, FS_Interval, Zenon
      <3> QED  BY <3>1, <3>2, Zenon
    <2>2. DOMAIN g = DOMAIN TextOf[f] /\ ChunksOf(f) = {g[p] : p \in DOMAIN g}
      BY DEF ChunksOf
    <2>3. g = [p \in DOMAIN g |-> g[p]]
      OBVIOUS
    <2> HIDE DEF g
    <2> QED  BY <2>1, <2>2, <2>3, ImageIsFinite, SMTT(20)
  <1> DEFINE h == [f \in Files |-> ChunksOf(f)]
             T == {ChunksOf(f) : f \in Files}
  <1>2. DOMAIN h = Files /\ T = {h[f] : f \in DOMAIN h} /\ h = [f \in DOMAIN h |-> h[f]]
    OBVIOUS
  <1>3. IsFiniteSet(Files)
    BY DEF ConstantsAssumption
  <1>4. \A U \in T : IsFiniteSet(U)
    BY <1>1
  <1>5. IsFiniteSet(T)
    <2> HIDE DEF h, T
    <2> QED  BY <1>2, <1>3, ImageIsFinite
  <1> HIDE DEF T
  <1>6. IsFiniteSet(UNION T)
    BY <1>4, <1>5, FS_UNION
  <1> QED  BY <1>6 DEF T

LEMMA ChunkFacts ==
    ASSUME ConstantsAssumption, NEW S, S \subseteq UNION {ChunksOf(f) : f \in Files}
    PROVE  /\ IsFiniteSet(S)
           /\ \A c \in S : /\ c.file \in Files /\ c.part \in 1 .. Len(TextOf[c.file])
                           /\ c = [file |-> c.file, part |-> c.part]
                           /\ c.part \in PartsIn(c.file, S)
           /\ \A f \in Files : \A p \in PartsIn(f, S) : [file |-> f, part |-> p] \in S
  <1>1. IsFiniteSet(S)
    BY ChunksAreFinite, FS_Subset
  <1>2. ASSUME NEW c \in S
        PROVE  /\ c.file \in Files /\ c.part \in 1 .. Len(TextOf[c.file])
               /\ c = [file |-> c.file, part |-> c.part]
               /\ c.part \in PartsIn(c.file, S)
    <2>1. PICK f \in Files : c \in ChunksOf(f)
      OBVIOUS
    <2>2. PICK p \in DOMAIN TextOf[f] : c = [file |-> f, part |-> p]
      BY <2>1 DEF ChunksOf
    <2>3. c.file = f /\ c.part = p
      BY <2>2
    <2>4. DOMAIN TextOf[f] = 1 .. Len(TextOf[f])
      BY SizeIsNatural
    <2>5. c.part \in PartsIn(c.file, S)
      BY <2>1, <2>3 DEF PartsIn
    <2> QED  BY <2>2, <2>3, <2>4, <2>5
  <1>3. ASSUME NEW f \in Files, NEW p \in PartsIn(f, S) PROVE [file |-> f, part |-> p] \in S
    <2>1. PICK c \in S \cap ChunksOf(f) : p = c.part
      BY DEF PartsIn
    <2>2. PICK q \in DOMAIN TextOf[f] : c = [file |-> f, part |-> q]
      BY DEF ChunksOf
    <2>3. p = q
      BY <2>1, <2>2
    <2> QED  BY <2>2, <2>3
  <1> QED  BY <1>1, <1>2, <1>3

Candidates(f) == PartsIn(f, Valid)

Ids(f) == UNION {Widened(f, p, PartsIn(f, seen)) : p \in Candidates(f)}

LEMMA ValidFacts ==
    ASSUME ConstantsAssumption, FoundIsSeen
    PROVE  /\ Valid \subseteq DOMAIN found /\ IsFiniteSet(Valid)
           /\ \A c \in Valid : c.file \in Files /\ c.part \in Candidates(c.file)
                               /\ c = [file |-> c.file, part |-> c.part] /\ found[c] \in Int
           /\ \A f \in Files : /\ Candidates(f) \subseteq PartsIn(f, seen)
                               /\ \A p \in Candidates(f) : [file |-> f, part |-> p] \in Valid
  <1>1. Valid \subseteq DOMAIN found
    BY DEF Valid
  <1>2. Valid \subseteq UNION {ChunksOf(f) : f \in Files} /\ Valid \subseteq seen
    BY <1>1 DEF FoundIsSeen, FirstChunks
  <1>3. \A f \in Files : Candidates(f) \subseteq PartsIn(f, seen)
    BY <1>2 DEF Candidates, PartsIn
  <1>4. \A c \in Valid : found[c] \in Int
    BY <1>1 DEF FoundIsSeen
  <1> QED  BY <1>1, <1>2, <1>3, <1>4, ChunkFacts DEF Candidates

RunFits(f, a, b) == TextLength(f, a, b) <= Sum(Allowances(f, a, b, (a .. b) \cap Candidates(f)))

\* In a file of which the search saw m chunks, candidates widen to numbers of
\* these, every run has a candidate and is no longer than is allowed to its own.
LEMMA RunsOfFile ==
    ASSUME ConstantsAssumption, FoundIsSeen, NEW f \in Files, NEW m \in 0 .. Len(TextOf[f]),
           PartsIn(f, seen) = 1 .. m
    PROVE  /\ m \in Nat /\ Ids(f) \in SUBSET (1 .. m) /\ Candidates(f) \subseteq Ids(f)
           /\ \A r \in SeparateList(Ids(f)) : IsRun(r, Ids(f), m)
           /\ \A a, b \in 1 .. m :
                 RunAt(Ids(f), m, a, b) => (a .. b) \cap Candidates(f) # {} /\ RunFits(f, a, b)
           /\ \A p \in Candidates(f) : \E r \in SeparateList(Ids(f)) : p \in r
  <1> DEFINE cands == Candidates(f)
             W == [p \in cands |-> Widened(f, p, 1 .. m)]
             ids == Ids(f)
  <1>1. m \in Nat
    BY SizeIsNatural
  <1>2. cands \subseteq 1 .. m
    BY ValidFacts
  <1>3. ids = UNION {W[p] : p \in cands}
    BY DEF Ids
  <1>4. \A p \in cands : IntervalAround(W[p], f, p, m)
    BY <1>2, WidenedIsInterval
  <1> HIDE DEF W, ids, cands
  <1>5. \A p \in cands : W[p] \subseteq 1 .. m /\ p \in W[p]
    <2> SUFFICES ASSUME NEW p \in cands PROVE W[p] \subseteq 1 .. m /\ p \in W[p]
      OBVIOUS
    <2>1. PICK lo \in 1 .. p, hi \in p .. m : p \in 1 .. m /\ W[p] = lo .. hi
      BY <1>4 DEF IntervalAround
    <2>2. lo .. hi \subseteq 1 .. m /\ p \in lo .. hi
      BY <1>1, <2>1, InsideInterval
    <2> QED  BY <2>1, <2>2, Zenon
  <1>6. ids \in SUBSET (1 .. m) /\ cands \subseteq ids
    BY <1>3, <1>5
  <1>7. /\ \A r \in SeparateList(ids) : IsRun(r, ids, m)
        /\ \A x \in ids : \E r \in SeparateList(ids) : x \in r
    BY <1>1, <1>6, SeparateListFacts
  <1>8. ASSUME NEW a \in 1 .. m, NEW b \in 1 .. m, RunAt(ids, m, a, b)
        PROVE  (a .. b) \cap cands # {} /\ RunFits(f, a, b)
    <2> DEFINE K == (a .. b) \cap cands
    <2>1. \A x \in a .. b : \E p \in K : x \in W[p]
      BY <1>1, <1>3, <1>4, <1>6, <1>8, RunIsCovered
    <2>2. b \in a .. m /\ a \in a .. b
      BY <1>8 DEF RunAt
    <2>3. K \in SUBSET (a .. b) /\ \A p \in K : IntervalAround(W[p], f, p, m)
      BY <1>4
    <2> HIDE DEF K
    <2>4. TextLength(f, a, b) <= Sum(Allowances(f, a, b, K))
      BY <1>1, <2>1, <2>2, <2>3, FilesAreAdditive, CoveredFits
    <2> QED  BY <2>1, <2>2, <2>4 DEF K, RunFits, cands
  <1> QED  BY <1>1, <1>6, <1>7, <1>8 DEF ids, cands

LEMMA NumbersAreFinite ==
    ASSUME NEW m \in Nat, NEW S \in SUBSET (1 .. m)
    PROVE  IsFiniteSet(S) /\ S \in SUBSET Int
  <1>1. IsFiniteSet(1 .. m)
    <2>1. 1 \in Int /\ m \in Int
      OBVIOUS
    <2> QED  BY <2>1, FS_Interval, Zenon
  <1>2. S \in SUBSET Int
    OBVIOUS
  <1> QED  BY <1>1, <1>2, FS_Subset

LEMMA SeparateListIsFinite ==
    ASSUME NEW ids, IsFiniteSet(ids) PROVE IsFiniteSet(SeparateList(ids))
  <1> DEFINE Starts == {k \in ids : k - 1 \notin ids}
             g == [n \in Starts |-> RunOf(ids, n)]
  <1>1. IsFiniteSet(Starts)
    BY FS_Subset
  <1>2. DOMAIN g = Starts /\ SeparateList(ids) = {g[n] : n \in DOMAIN g} /\ g = [n \in DOMAIN g |-> g[n]]
    BY DEF SeparateList, RunOf
  <1> HIDE DEF g, Starts
  <1> QED  BY <1>1, <1>2, ImageIsFinite

DocumentType ==
    [file : Files, parts : Seq(Int), kernel : SUBSET Int, cut : Int,
     by : {"search", "rerank"}, score : Int \cup {NaN}]

\* Documents have a chunk, and theirs exist.
Documents ==
    {d \in DocumentType : /\ d.parts # <<>>
                         /\ \A k \in 1 .. Len(d.parts) : d.parts[k] \in 1 .. Len(TextOf[d.file])}

\* Documents as long as their chunks.
Uncut == {d \in Documents : d.cut = 0}

BySearch == {d \in Uncut : d.by = "search" /\ d.score \in Int}

LEMMA DocFields ==
    ASSUME NEW f, NEW ps, NEW kernel
    PROVE  /\ Doc(f, ps, kernel).file = f /\ Doc(f, ps, kernel).parts = ps
           /\ Doc(f, ps, kernel).kernel = kernel
  BY DEF Doc

LEMMA DocIsBySearch ==
    ASSUME ConstantsAssumption, FoundIsSeen, NEW f \in Files, NEW ps \in Seq(Int), ps # <<>>,
           \A k \in 1 .. Len(ps) : ps[k] \in 1 .. Len(TextOf[f]),
           NEW kernel, kernel \subseteq Candidates(f), kernel # {}
    PROVE  Doc(f, ps, kernel) \in BySearch
  <1> DEFINE g == [p \in kernel |-> found[[file |-> f, part |-> p]]]
             T == {found[[file |-> f, part |-> p]] : p \in kernel}
  <1>1. /\ Candidates(f) \subseteq PartsIn(f, seen) /\ IsFiniteSet(seen)
        /\ \A p \in kernel : found[[file |-> f, part |-> p]] \in Int
    <2>1. \A p \in kernel : [file |-> f, part |-> p] \in Valid
      BY ValidFacts
    <2> QED  BY <2>1, ValidFacts, ChunkFacts DEF FoundIsSeen, FirstChunks
  <1>2. PICK m \in 0 .. Len(TextOf[f]) : PartsIn(f, seen) = 1 .. m
    BY DEF FoundIsSeen, FirstChunks
  <1>3. m \in Nat
    BY SizeIsNatural
  <1>4. kernel \in SUBSET (1 .. m)
    BY <1>1, <1>2
  <1>5. IsFiniteSet(kernel) /\ kernel \in SUBSET Int
    BY <1>3, <1>4, NumbersAreFinite, Zenon
  <1>6. DOMAIN g = kernel /\ T = {g[p] : p \in DOMAIN g} /\ g = [p \in DOMAIN g |-> g[p]]
    OBVIOUS
  <1>7. IsFiniteSet(T) /\ T \in SUBSET Int /\ T # {}
    <2>1. T \in SUBSET Int /\ T # {}
      BY <1>1
    <2> HIDE DEF g, T
    <2> QED  BY <1>5, <1>6, <2>1, ImageIsFinite
  <1> HIDE DEF T, g
  <1>8. Largest(T) \in Int
    BY <1>7, LargestOf
  <1>9. Doc(f, ps, kernel) = [file |-> f, parts |-> ps, kernel |-> kernel, cut |-> 0,
                              by |-> "search", score |-> Largest(T)]
    BY DEF Doc, T
  <1>10. Doc(f, ps, kernel) \in DocumentType
    BY <1>5, <1>8, <1>9 DEF DocumentType
  <1> QED  BY <1>8, <1>9, <1>10, SMTT(20) DEF BySearch, Uncut, Documents

IsPassage(d, f, a, b) ==
    /\ d = Doc(f, Ascending(a .. b), (a .. b) \cap Candidates(f))
    /\ a <= b /\ a .. b \subseteq Ids(f) /\ a - 1 \notin Ids(f) /\ b + 1 \notin Ids(f)
    /\ (a .. b) \cap Candidates(f) # {} /\ RunFits(f, a, b)

\* What process_group returns for a file of which the search saw m chunks.
Group(f, m) ==
    /\ m \in 0 .. Len(TextOf[f]) /\ m \in Nat /\ Ids(f) \in SUBSET (1 .. m)
    /\ IsFiniteSet(ProcessGroup(f, seen))
    /\ \A d \in ProcessGroup(f, seen) : \E a, b \in 1 .. m : IsPassage(d, f, a, b)
    /\ \A p \in Candidates(f) : \E d \in ProcessGroup(f, seen) : p \in d.kernel

LEMMA ProcessGroupFacts ==
    ASSUME ConstantsAssumption, FoundIsSeen, NEW f \in Files
    PROVE  \E m \in 0 .. Len(TextOf[f]) : Group(f, m)
  <1>1. PICK m \in 0 .. Len(TextOf[f]) : PartsIn(f, seen) = 1 .. m
    BY DEF FoundIsSeen, FirstChunks
  <1>2. /\ m \in Nat /\ Ids(f) \in SUBSET (1 .. m) /\ Candidates(f) \subseteq Ids(f)
        /\ \A r \in SeparateList(Ids(f)) : IsRun(r, Ids(f), m)
        /\ \A a, b \in 1 .. m :
              RunAt(Ids(f), m, a, b) => (a .. b) \cap Candidates(f) # {} /\ RunFits(f, a, b)
        /\ \A p \in Candidates(f) : \E r \in SeparateList(Ids(f)) : p \in r
    BY <1>1, RunsOfFile
  <1> DEFINE Runs == {r \in SeparateList(Ids(f)) : r \subseteq PartsIn(f, seen)}
             DocOf(r) == Doc(f, Ascending(r), r \cap Candidates(f))
  <1>3. ProcessGroup(f, seen) = {DocOf(r) : r \in Runs}
    BY DEF ProcessGroup, Ids, Candidates
  <1>4. Runs = SeparateList(Ids(f))
    <2>1. ASSUME NEW r \in SeparateList(Ids(f)) PROVE r \subseteq Ids(f)
      <3>1. IsRun(r, Ids(f), m)
        BY <1>2
      <3> QED  BY <3>1, Zenon DEF IsRun
    <2> QED  BY <1>1, <1>2, <2>1
  <1>5. IsFiniteSet(ProcessGroup(f, seen))
    <2> DEFINE g == [r \in Runs |-> DocOf(r)]
    <2>1. IsFiniteSet(Ids(f))
      BY <1>2, NumbersAreFinite, Zenon
    <2>2. IsFiniteSet(Runs)
      BY <1>4, <2>1, SeparateListIsFinite
    <2>3. DOMAIN g = Runs /\ ProcessGroup(f, seen) = {g[r] : r \in DOMAIN g} /\ g = [r \in DOMAIN g |-> g[r]]
      BY <1>3
    <2> HIDE DEF g, Runs
    <2> QED  BY <2>2, <2>3, ImageIsFinite
  <1>6. ASSUME NEW d \in ProcessGroup(f, seen) PROVE \E a, b \in 1 .. m : IsPassage(d, f, a, b)
    <2>1. PICK r \in SeparateList(Ids(f)) : d = DocOf(r)
      BY <1>3, <1>4
    <2>2. PICK a \in 1 .. m, b \in 1 .. m :
              a <= b /\ r = a .. b /\ a .. b \subseteq Ids(f) /\ a - 1 \notin Ids(f) /\ b + 1 \notin Ids(f)
      BY <1>2, <2>1 DEF IsRun
    <2>3. (a .. b) \cap Candidates(f) # {} /\ RunFits(f, a, b)
      BY <1>2, <2>2, Zenon DEF RunAt
    <2>4. IsPassage(d, f, a, b)
      BY <2>1, <2>2, <2>3, Zenon DEF IsPassage
    <2> QED  BY <2>4
  <1>7. ASSUME NEW p \in Candidates(f) PROVE \E d \in ProcessGroup(f, seen) : p \in d.kernel
    <2>1. PICK r \in SeparateList(Ids(f)) : p \in r
      BY <1>2
    <2>2. DocOf(r) \in ProcessGroup(f, seen)
      BY <1>3, <1>4
    <2>3. DocOf(r).kernel = r \cap Candidates(f)
      BY DEF Doc
    <2> QED  BY <2>1, <2>2, <2>3
  <1> QED  BY <1>2, <1>5, <1>6, <1>7 DEF Group

LEMMA PartInFile ==
    \A a, b, k, n \in Int : a >= 1 /\ b <= n /\ k \in 1 .. b - a + 1 => a + k - 1 \in 1 .. n
  OBVIOUS

\* What PassageSizeBounded says of each document.
Fitting(d) ==
    Sum([k \in DOMAIN d.parts |-> Size(d.file, d.parts[k])])
        <= Sum([k \in DOMAIN d.parts |->
                  IF d.parts[k] \in d.kernel THEN Allowance(d.file, d.parts[k]) ELSE 0])

PassageFrom(d, f, m, a, b) ==
    /\ a \in Nat /\ b \in Nat /\ a <= b /\ d.file = f /\ d \in BySearch
    /\ d.kernel = (a .. b) \cap Candidates(f) /\ d.kernel # {}
    /\ d.parts = [k \in 1 .. b - a + 1 |-> a + k - 1]
    /\ Head(d.parts) = a /\ Last(d.parts) = b /\ Fitting(d)

LEMMA PassageFields ==
    ASSUME ConstantsAssumption, FoundIsSeen, NEW f \in Files, NEW m, Group(f, m),
           NEW d, NEW a \in 1 .. m, NEW b \in 1 .. m, IsPassage(d, f, a, b)
    PROVE  PassageFrom(d, f, m, a, b)
  <1> DEFINE s == Ascending(a .. b)
             kernel == (a .. b) \cap Candidates(f)
  <1>1. m \in Nat /\ m <= Len(TextOf[f]) /\ Len(TextOf[f]) \in Nat
    BY SizeIsNatural DEF Group
  <1>2. a \in Nat /\ b \in Nat /\ a <= b
    BY <1>1, SMTT(20) DEF IsPassage
  <1>3. d = Doc(f, s, kernel) /\ kernel # {} /\ kernel \subseteq Candidates(f)
    BY DEF IsPassage
  <1>4. /\ s = [k \in 1 .. b - a + 1 |-> a + k - 1] /\ s \in Seq(Int) /\ Len(s) = b - a + 1
        /\ Head(s) = a /\ Last(s) = b
    BY <1>2, AscendingInterval
  <1> HIDE DEF s, kernel
  <1>5. d.file = f /\ d.parts = s /\ d.kernel = kernel
    BY <1>3 DEF Doc
  <1>6. s # <<>>
    BY <1>2, <1>4, EmptySeq, SMTT(20)
  <1>7. ASSUME NEW k \in 1 .. Len(s) PROVE s[k] \in 1 .. Len(TextOf[f])
    <2>1. k \in 1 .. b - a + 1 /\ s[k] = a + k - 1
      BY <1>4
    <2>2. b <= Len(TextOf[f]) /\ a >= 1 /\ a \in Int /\ b \in Int /\ Len(TextOf[f]) \in Int
      BY <1>1, SMTT(20)
    <2>3. k \in Int
      BY <2>1
    <2>4. a + k - 1 \in 1 .. Len(TextOf[f])
      BY <2>1, <2>2, <2>3, PartInFile, Zenon
    <2> QED  BY <2>1, <2>4, Zenon
  <1>8. d \in BySearch
    BY <1>3, <1>4, <1>6, <1>7, DocIsBySearch
  <1>9. Fitting(d)
    <2> DEFINE n == b - a + 1
               sizes == [k \in 1 .. n |-> Size(f, a + k - 1)]
               allowed == [k \in 1 .. n |->
                              IF a + k - 1 \in kernel THEN Allowance(f, a + k - 1) ELSE 0]
    <2>1. n \in Nat /\ \A k \in 1 .. n : a + k - 1 \in 1 .. Len(TextOf[f])
      <3>1. n \in Nat /\ \A k \in 1 .. n : k \in Int
        BY <1>2
      <3>2. b <= Len(TextOf[f]) /\ a >= 1 /\ a \in Int /\ b \in Int /\ Len(TextOf[f]) \in Int
        BY <1>1
      <3>3. \A k \in 1 .. n : a + k - 1 \in 1 .. Len(TextOf[f])
        BY <3>1, <3>2, PartInFile, Zenon
      <3> QED  BY <3>1, <3>3
    <2>2. sizes \in [1 .. n -> Int] /\ \A k \in 1 .. n : sizes[k] = SizesOf(f)[a + k - 1]
      <3>1. \A k \in 1 .. Len(TextOf[f]) : SizesOf(f)[k] = Size(f, k) /\ Size(f, k) \in Int
        BY SizeIsNatural, SMTT(20) DEF SizesOf
      <3> HIDE DEF n
      <3> QED  BY <2>1, <3>1
    <2>3. Sum(sizes) = TextLength(f, a, b)
      <3> HIDE DEF sizes
      <3>1. sizes \in Seq(Int) /\ Len(sizes) = n
        <4> HIDE DEF n
        <4> QED  BY <2>1, <2>2, SequenceOf
      <3>2. SizesOf(f) \in Seq(Int) /\ Len(SizesOf(f)) = Len(TextOf[f])
        BY SizesFacts
      <3>3. 1 <= a /\ b <= Len(TextOf[f])
        BY <1>1
      <3> HIDE DEF n
      <3>4. Len(sizes) = b - a + 1 /\ \A k \in 1 .. b - a + 1 : sizes[k] = SizesOf(f)[a + k - 1]
        BY <2>2, <3>1, Zenon DEF n
      <3>5. b <= Len(SizesOf(f))
        BY <3>2, <3>3, Zenon
      <3> QED  BY <1>2, <3>1, <3>2, <3>3, <3>4, <3>5, SumOfPart, Zenon DEF TextLength
    <2>4. allowed = Allowances(f, a, b, kernel)
      BY DEF Allowances
    <2>5. TextLength(f, a, b) <= Sum(allowed)
      BY <2>4 DEF IsPassage, RunFits, kernel
    <2>6. DOMAIN d.parts = 1 .. n /\ \A k \in 1 .. n : d.parts[k] = a + k - 1
      <3> HIDE DEF n
      <3> QED  BY <1>4, <1>5 DEF n
    <2>7. /\ [k \in DOMAIN d.parts |-> Size(d.file, d.parts[k])] = sizes
          /\ [k \in DOMAIN d.parts |->
                IF d.parts[k] \in d.kernel THEN Allowance(d.file, d.parts[k]) ELSE 0] = allowed
      <3> HIDE DEF n
      <3> QED  BY <1>5, <2>6
    <2> QED  BY <2>3, <2>5, <2>7 DEF Fitting
  <1> QED  BY <1>2, <1>3, <1>4, <1>5, <1>8, <1>9 DEF s, kernel, PassageFrom

LEMMA TwoPassages ==
    ASSUME ConstantsAssumption, FoundIsSeen, NEW f \in Files, NEW m, Group(f, m),
           NEW d, NEW a \in 1 .. m, NEW b \in 1 .. m, IsPassage(d, f, a, b),
           NEW e, NEW c \in 1 .. m, NEW z \in 1 .. m, IsPassage(e, f, c, z)
    PROVE  /\ a < c => b + 1 < c
           /\ a = c => d = e
           /\ d.kernel \cap e.kernel # {} => d = e
  <1>1. m \in Nat /\ Ids(f) \in SUBSET (1 .. m)
    BY DEF Group
  <1>2. RunAt(Ids(f), m, a, b) /\ RunAt(Ids(f), m, c, z)
    BY DEF IsPassage, RunAt
  <1>3. (a < c => b + 1 < c) /\ (a = c => b = z)
    BY <1>1, <1>2, RunsApart, SMTT(20)
  <1>4. c < a => z + 1 < a
    BY <1>1, <1>2, RunsApart
  <1>5. a = c => d = e
    BY <1>3 DEF IsPassage
  <1>6. ASSUME d.kernel \cap e.kernel # {} PROVE d = e
    <2>1. PassageFrom(d, f, m, a, b) /\ PassageFrom(e, f, m, c, z)
      BY PassageFields
    <2>2. d.kernel = (a .. b) \cap Candidates(f) /\ e.kernel = (c .. z) \cap Candidates(f)
      BY <2>1 DEF PassageFrom
    <2>3. PICK p : p \in a .. b /\ p \in c .. z
      BY <1>6, <2>2
    <2>4. a = c
      <3>1. a \in Int /\ b \in Int /\ c \in Int /\ z \in Int
        BY <2>1 DEF PassageFrom
      <3>2. ~(b + 1 < c) /\ ~(z + 1 < a)
        BY <2>3, <3>1, SMTT(20)
      <3>3. a < c \/ c < a \/ a = c
        BY <3>1
      <3> QED  BY <1>3, <1>4, <3>2, <3>3, Zenon
    <2> QED  BY <1>5, <2>4
  <1> QED  BY <1>3, <1>5, <1>6

Groups == {c.file : c \in Valid} \ Tables
Passages == UNION {ProcessGroup(f, seen) : f \in Groups}
EarlierPairs == {x \in Passages \X Passages : Earlier(x[1], x[2])}

LEMMA PassageHasFile ==
    ASSUME ConstantsAssumption, FoundIsSeen, NEW d \in Passages
    PROVE  /\ d.file \in Groups /\ d.file \in Files \ Tables
           /\ \E m : Group(d.file, m) /\ \E a, b \in 1 .. m : IsPassage(d, d.file, a, b)
  <1>1. PICK f \in Groups : d \in ProcessGroup(f, seen)
    BY DEF Passages
  <1>2. f \in Files \ Tables
    BY ValidFacts DEF Groups
  <1>3. PICK m \in 0 .. Len(TextOf[f]) : Group(f, m)
    BY <1>2, ProcessGroupFacts
  <1>4. PICK a \in 1 .. m, b \in 1 .. m : IsPassage(d, f, a, b)
    BY <1>1, <1>3 DEF Group
  <1>5. d.file = f
    BY <1>2, <1>3, <1>4, PassageFields DEF PassageFrom
  <1> QED  BY <1>1, <1>2, <1>3, <1>4, <1>5

\* Of two passages of a file one is before the other and they do not touch.
LEMMA PassagesOfAFile ==
    ASSUME ConstantsAssumption, FoundIsSeen, NEW d \in Passages, NEW e \in Passages,
           d.file = e.file
    PROVE  /\ Head(d.parts) \in Nat /\ Head(e.parts) \in Nat
           /\ Head(d.parts) < Head(e.parts) => Last(d.parts) + 1 < Head(e.parts)
           /\ Head(d.parts) = Head(e.parts) => d = e
           /\ d.kernel \cap e.kernel # {} => d = e
  <1> DEFINE f == d.file
  <1>1. f \in Files
    BY PassageHasFile
  <1>2. PICK m : Group(f, m) /\ \E a, b \in 1 .. m : IsPassage(d, f, a, b)
    BY PassageHasFile
  <1>3. PICK n : Group(f, n) /\ \E a, b \in 1 .. n : IsPassage(e, f, a, b)
    BY PassageHasFile
  <1> HIDE DEF f
  <1>4. PICK a \in 1 .. m, b \in 1 .. m : IsPassage(d, f, a, b)
    BY <1>2
  <1>5. PICK c \in 1 .. n, z \in 1 .. n : IsPassage(e, f, c, z)
    BY <1>3
  <1>6. \E k : Group(f, k) /\ a \in 1 .. k /\ b \in 1 .. k /\ c \in 1 .. k /\ z \in 1 .. k
    <2>1. m \in Nat /\ n \in Nat
      BY <1>2, <1>3 DEF Group
    <2>2. CASE m <= n
      <3>1. a \in 1 .. n /\ b \in 1 .. n
        BY <2>1, <2>2, SMTT(20)
      <3> QED  BY <1>3, <3>1
    <2>3. CASE n <= m
      <3>1. c \in 1 .. m /\ z \in 1 .. m
        BY <2>1, <2>3
      <3> QED  BY <1>2, <3>1
    <2> QED  BY <2>1, <2>2, <2>3
  <1>7. PICK k : Group(f, k) /\ a \in 1 .. k /\ b \in 1 .. k /\ c \in 1 .. k /\ z \in 1 .. k
    BY <1>6
  <1>8. PassageFrom(d, f, k, a, b) /\ PassageFrom(e, f, k, c, z)
    BY <1>1, <1>4, <1>5, <1>7, PassageFields
  <1>9. /\ Head(d.parts) = a /\ Last(d.parts) = b /\ Head(e.parts) = c
        /\ a \in Nat /\ c \in Nat
    BY <1>8 DEF PassageFrom
  <1>10. /\ a < c => b + 1 < c
         /\ a = c => d = e
         /\ d.kernel \cap e.kernel # {} => d = e
    BY <1>1, <1>4, <1>5, <1>7, TwoPassages, SMTT(20)
  <1> QED  BY <1>9, <1>10

LEMMA PassagesListed ==
    ASSUME ConstantsAssumption, FoundIsSeen
    PROVE  /\ Lists(ExpandCandDocs(seen), Passages)
           /\ \A i, j \in 1 .. Len(ExpandCandDocs(seen)) :
                 i < j => Earlier(ExpandCandDocs(seen)[i], ExpandCandDocs(seen)[j])
  <1>1. IsFiniteSet(Passages)
    <2> DEFINE g == [c \in Valid |-> c.file]
               F == {c.file : c \in Valid}
               h == [f \in Groups |-> ProcessGroup(f, seen)]
               T == {ProcessGroup(f, seen) : f \in Groups}
    <2>1. DOMAIN g = Valid /\ F = {g[c] : c \in DOMAIN g} /\ g = [c \in DOMAIN g |-> g[c]]
      OBVIOUS
    <2>2. DOMAIN h = Groups /\ T = {h[f] : f \in DOMAIN h} /\ h = [f \in DOMAIN h |-> h[f]]
      OBVIOUS
    <2>3. Groups \in SUBSET F /\ Groups \subseteq Files
      BY ValidFacts DEF Groups
    <2>4. \A U \in T : IsFiniteSet(U)
      BY <2>3, ProcessGroupFacts DEF Group
    <2> HIDE DEF g, h, F, T
    <2>5. IsFiniteSet(F)
      BY <2>1, ValidFacts, ImageIsFinite
    <2>6. IsFiniteSet(Groups)
      BY <2>3, <2>5, FS_Subset
    <2>7. IsFiniteSet(T)
      BY <2>2, <2>6, ImageIsFinite
    <2>8. IsFiniteSet(UNION T)
      BY <2>4, <2>7, FS_UNION
    <2> QED  BY <2>8 DEF T, Passages
  <1>2. \A x, y \in Passages : <<x, y>> \in EarlierPairs <=> Earlier(x, y)
    BY DEF EarlierPairs
  <1>3. \A x \in Passages : x.file \in Nat /\ Head(x.parts) \in Nat
    BY PassageHasFile, PassagesOfAFile DEF ConstantsAssumption
  <1>4. StrictOrder(EarlierPairs, Passages)
    <2>1. \A x \in Passages : ~Earlier(x, x)
      BY <1>3 DEF Earlier
    <2>2. ASSUME NEW x \in Passages, NEW y \in Passages PROVE x = y \/ Earlier(x, y) \/ Earlier(y, x)
      <3>1. CASE x.file = y.file
        <4>1. Head(x.parts) = Head(y.parts) => x = y
          BY <3>1, PassagesOfAFile
        <4> QED  BY <1>3, <3>1, <4>1 DEF Earlier
      <3>2. CASE x.file # y.file
        BY <1>3, <3>2 DEF Earlier
      <3> QED  BY <3>1, <3>2
    <2>3. \A x, y, z \in Passages : Earlier(x, y) /\ Earlier(y, z) => Earlier(x, z)
      BY <1>3, SMTT(20) DEF Earlier
    <2> QED  BY <1>2, <2>1, <2>2, <2>3 DEF StrictOrder
  <1> DEFINE Is(s) == \A i, j \in DOMAIN s : i < j => Earlier(s[i], s[j])
  <1>5. PICK q \in SetToSeqs(Passages) : Sorted(q, EarlierPairs)
    BY <1>1, <1>4, Enumeration
  <1>6. Is(q)
    <2>1. Lists(q, Passages)
      BY <1>1, SeqsList
    <2> QED  BY <1>2, <1>5, <2>1 DEF Sorted, Lists
  <1>7. ExpandCandDocs(seen) = CHOOSE s \in SetToSeqs(Passages) : Is(s)
    BY DEF ExpandCandDocs, Passages, Groups
  <1> HIDE DEF Is
  <1>8. ExpandCandDocs(seen) \in SetToSeqs(Passages) /\ Is(ExpandCandDocs(seen))
    BY <1>6, <1>7
  <1>9. Lists(ExpandCandDocs(seen), Passages)
    BY <1>1, <1>8, SeqsList
  <1> QED  BY <1>8, <1>9 DEF Is, Lists

\* The rows of tables among the candidates.
Rows == {Doc(c.file, <<c.part>>, {c.part}) : c \in {v \in Valid : v.file \in Tables}}

LEMMA RowFacts ==
    ASSUME ConstantsAssumption, FoundIsSeen, NEW d \in Rows
    PROVE  /\ d \in BySearch /\ Fitting(d)
           /\ \E c \in Valid : /\ c.file \in Tables /\ d = Doc(c.file, <<c.part>>, {c.part})
                               /\ d.file = c.file /\ d.kernel = {c.part}
  <1>1. PICK c \in Valid : c.file \in Tables /\ d = Doc(c.file, <<c.part>>, {c.part})
    BY DEF Rows
  <1>2. d.file = c.file /\ d.kernel = {c.part}
    BY <1>1 DEF Doc
  <1>3. /\ c.file \in Files /\ c.part \in Candidates(c.file)
        /\ c.part \in 1 .. Len(TextOf[c.file])
    <2>1. c \in seen /\ seen \subseteq UNION {ChunksOf(f) : f \in Files}
      BY ValidFacts DEF FoundIsSeen, FirstChunks
    <2> QED  BY <2>1, ValidFacts, ChunkFacts
  <1>4. Len(TextOf[c.file]) \in Nat
    BY <1>3, SizeIsNatural
  <1> DEFINE ps == <<c.part>>
  <1>5. c.part \in Int
    BY <1>3, <1>4
  <1>6. ps \in Seq(Int) /\ ps # <<>> /\ Len(ps) = 1 /\ ps[1] = c.part
    BY <1>5
  <1> HIDE DEF ps
  <1>7. Doc(c.file, ps, {c.part}) \in BySearch
    <2>1. \A k \in 1 .. Len(ps) : ps[k] \in 1 .. Len(TextOf[c.file])
      BY <1>3, <1>6
    <2>2. {c.part} \subseteq Candidates(c.file) /\ {c.part} # {}
      BY <1>3
    <2> QED  BY <1>3, <1>6, <2>1, <2>2, DocIsBySearch
  <1>8. Fitting(d)
    <2> DEFINE x == Size(c.file, c.part)
               y == Allowance(c.file, c.part)
               sizes == [k \in 1 .. 1 |-> x]
               allowed == [k \in 1 .. 1 |-> y]
    <2>1. x \in Int /\ y \in Int /\ x <= y
      <3>1. x \in Nat /\ y \in Nat /\ x <= y
        BY <1>3, AllowanceType
      <3> HIDE DEF x, y
      <3> QED  BY <3>1
    <2> HIDE DEF x, y
    <2>2. Sum(sizes) = x /\ Sum(allowed) = y
      BY <2>1, SumOfSingle
    <2>3. DOMAIN d.parts = 1 .. 1 /\ d.parts[1] = c.part /\ c.part \in d.kernel
      BY <1>1, <1>2, <1>6 DEF Doc, ps
    <2>4. /\ [k \in DOMAIN d.parts |-> Size(d.file, d.parts[k])] = sizes
          /\ [k \in DOMAIN d.parts |->
                IF d.parts[k] \in d.kernel THEN Allowance(d.file, d.parts[k]) ELSE 0] = allowed
      BY <1>2, <2>3 DEF x, y
    <2> QED  BY <2>1, <2>2, <2>4 DEF Fitting
  <1> QED  BY <1>1, <1>2, <1>7, <1>8 DEF ps

LEMMA RowsListed ==
    ASSUME ConstantsAssumption, FoundIsSeen, NEW rows \in RowOrders
    PROVE  Lists(rows, Rows)
  <1> DEFINE V == {v \in Valid : v.file \in Tables}
             g == [c \in V |-> Doc(c.file, <<c.part>>, {c.part})]
  <1>1. DOMAIN g = V /\ Rows = {g[c] : c \in DOMAIN g} /\ g = [c \in DOMAIN g |-> g[c]]
    BY DEF Rows
  <1>2. IsFiniteSet(V)
    <2>1. V \in SUBSET Valid
      OBVIOUS
    <2> QED  BY <2>1, ValidFacts, FS_Subset
  <1> HIDE DEF g, V
  <1>3. IsFiniteSet(Rows)
    BY <1>1, <1>2, ImageIsFinite
  <1>4. rows \in SetToSeqs(Rows)
    BY DEF RowOrders, Rows
  <1> QED  BY <1>3, <1>4, SeqsList

\* Two lists of different documents, one after the other.
JoinedAs(s, t, S, T) ==
    /\ s \o t \in Seq(S \cup T) /\ Len(s) \in Nat /\ Len(t) \in Nat
    /\ Len(s \o t) = Len(s) + Len(t) /\ DOMAIN (s \o t) = 1 .. Len(s) + Len(t)
    /\ \A i \in 1 .. Len(s) : (s \o t)[i] = s[i] /\ s[i] \in S
    /\ \A i \in Len(s) + 1 .. Len(s) + Len(t) :
          (s \o t)[i] = t[i - Len(s)] /\ i - Len(s) \in 1 .. Len(t) /\ t[i - Len(s)] \in T
    /\ \A i, j \in DOMAIN (s \o t) : i # j => (s \o t)[i] # (s \o t)[j]
    /\ \A x \in S \cup T : \E i \in DOMAIN (s \o t) : (s \o t)[i] = x

LEMMA Joined ==
    ASSUME NEW S, NEW T, S \cap T = {}, NEW s, NEW t, Lists(s, S), Lists(t, T)
    PROVE  JoinedAs(s, t, S, T)
  <1> DEFINE u == s \o t
  <1>1. /\ s \in Seq(S) /\ t \in Seq(T) /\ Len(s) \in Nat /\ Len(t) \in Nat
        /\ \A i \in 1 .. Len(s) : s[i] \in S
        /\ \A i \in 1 .. Len(t) : t[i] \in T
    BY DEF Lists
  <1>2. s \in Seq(S \cup T) /\ t \in Seq(S \cup T)
    <2>1. S \subseteq S \cup T /\ T \subseteq S \cup T
      OBVIOUS
    <2> QED  BY <1>1, <2>1, SeqMonotonic, Zenon
  <1>3. /\ u \in Seq(S \cup T) /\ Len(u) = Len(s) + Len(t)
        /\ \A i \in 1 .. Len(s) + Len(t) : u[i] = IF i <= Len(s) THEN s[i] ELSE t[i - Len(s)]
    BY <1>2, ConcatProperties, Zenon
  <1>4. DOMAIN u = 1 .. Len(s) + Len(t)
    BY <1>3, LenProperties
  <1> HIDE DEF u
  <1>5. \A i \in 1 .. Len(s) : u[i] = s[i]
    BY <1>1, <1>3
  <1>6. \A i \in Len(s) + 1 .. Len(s) + Len(t) : u[i] = t[i - Len(s)] /\ i - Len(s) \in 1 .. Len(t)
    BY <1>1, <1>3
  <1>7. \A i \in DOMAIN u : i \in 1 .. Len(s) \/ i \in Len(s) + 1 .. Len(s) + Len(t)
    BY <1>1, <1>4
  <1>8. ASSUME NEW i \in DOMAIN u, NEW j \in DOMAIN u, i # j PROVE u[i] # u[j]
    <2>1. CASE i \in 1 .. Len(s) /\ j \in 1 .. Len(s)
      BY <1>5, <1>8, <2>1 DEF Lists
    <2>2. CASE i \in 1 .. Len(s) /\ j \in Len(s) + 1 .. Len(s) + Len(t)
      BY <1>1, <1>5, <1>6, <2>2
    <2>3. CASE j \in 1 .. Len(s) /\ i \in Len(s) + 1 .. Len(s) + Len(t)
      BY <1>1, <1>5, <1>6, <2>3
    <2>4. CASE i \in Len(s) + 1 .. Len(s) + Len(t) /\ j \in Len(s) + 1 .. Len(s) + Len(t)
      <3>1. i - Len(s) \in 1 .. Len(t) /\ j - Len(s) \in 1 .. Len(t)
        BY <1>6, <2>4
      <3>2. i - Len(s) # j - Len(s)
        BY <1>1, <1>8, <2>4
      <3>3. t[i - Len(s)] # t[j - Len(s)]
        BY <3>1, <3>2, Zenon DEF Lists
      <3> QED  BY <1>6, <2>4, <3>3
    <2> QED  BY <1>7, <2>1, <2>2, <2>3, <2>4
  <1>9. ASSUME NEW x \in S \cup T PROVE \E i \in DOMAIN u : u[i] = x
    <2>1. CASE x \in S
      <3>1. PICK i \in 1 .. Len(s) : s[i] = x
        BY <2>1 DEF Lists
      <3>2. i \in DOMAIN u
        BY <1>1, <1>4, <3>1
      <3> QED  BY <1>5, <3>1, <3>2
    <2>2. CASE x \in T
      <3>1. PICK i \in 1 .. Len(t) : t[i] = x
        BY <2>2 DEF Lists
      <3>2. i + Len(s) \in Len(s) + 1 .. Len(s) + Len(t) /\ i + Len(s) - Len(s) = i
        BY <1>1, <3>1
      <3>3. i + Len(s) \in DOMAIN u
        BY <1>1, <1>4, <3>2
      <3>4. u[i + Len(s)] = x
        BY <1>6, <3>1, <3>2
      <3> QED  BY <3>3, <3>4
    <2> QED  BY <2>1, <2>2
  <1> QED  BY <1>1, <1>3, <1>4, <1>5, <1>6, <1>8, <1>9 DEF u, JoinedAs

\* What EveryCandidateOnce and PassagesApart say, of any documents.
CandidatesOnce(ds, valid) ==
    /\ \A c \in valid : Cardinality({i \in DOMAIN ds :
                           ds[i].file = c.file /\ c.part \in ds[i].kernel}) = 1
    /\ \A i \in DOMAIN ds : ds[i].kernel # {}

AreApart(ds) ==
    \A i, j \in DOMAIN ds :
        /\ ds[i].file \in Files \ Tables
        /\ ds[j].file = ds[i].file
        => /\ ds[i].parts = [k \in DOMAIN ds[i].parts |-> Head(ds[i].parts) + k - 1]
           /\ i < j => Last(ds[i].parts) + 1 < Head(ds[j].parts)

LEMMA PassageFacts ==
    ASSUME ConstantsAssumption, FoundIsSeen, NEW d \in Passages
    PROVE  /\ d \in BySearch /\ d.kernel # {} /\ d.file \in Files \ Tables
           /\ d.parts = [k \in DOMAIN d.parts |-> Head(d.parts) + k - 1]
           /\ d.kernel \subseteq Candidates(d.file) /\ Fitting(d)
  <1>1. /\ d.file \in Files \ Tables
        /\ \E m : Group(d.file, m) /\ \E a, b \in 1 .. m : IsPassage(d, d.file, a, b)
    BY PassageHasFile
  <1>2. PICK m : Group(d.file, m) /\ \E a, b \in 1 .. m : IsPassage(d, d.file, a, b)
    BY <1>1
  <1>3. PICK a \in 1 .. m, b \in 1 .. m : IsPassage(d, d.file, a, b)
    BY <1>2
  <1>4. PassageFrom(d, d.file, m, a, b)
    BY <1>1, <1>2, <1>3, PassageFields
  <1> QED  BY <1>1, <1>4 DEF PassageFrom

LEMMA OneDocument ==
    ASSUME ConstantsAssumption, FoundIsSeen, NEW c \in Valid
    PROVE  /\ \E d \in Rows \cup Passages : d.file = c.file /\ c.part \in d.kernel
           /\ \A d, e \in Rows \cup Passages :
                 /\ d.file = c.file /\ c.part \in d.kernel
                 /\ e.file = c.file /\ c.part \in e.kernel
                 => d = e
  <1>1. /\ c.file \in Files /\ c.part \in Candidates(c.file)
        /\ c = [file |-> c.file, part |-> c.part]
    BY ValidFacts
  <1>2. CASE c.file \in Tables
    <2> DEFINE row == Doc(c.file, <<c.part>>, {c.part})
    <2>1. row \in Rows /\ row.file = c.file /\ c.part \in row.kernel
      BY <1>2 DEF Rows, Doc
    <2>2. ASSUME NEW d \in Rows \cup Passages, d.file = c.file, c.part \in d.kernel PROVE d = row
      <3>1. d \in Rows
        BY <1>2, <2>2, PassageFacts
      <3>2. PICK v \in Valid : /\ d = Doc(v.file, <<v.part>>, {v.part})
                               /\ d.file = v.file /\ d.kernel = {v.part}
        BY <3>1, RowFacts
      <3>3. v.file = c.file /\ v.part = c.part
        BY <2>2, <3>2
      <3> QED  BY <3>2, <3>3
    <2> HIDE DEF row
    <2> QED  BY <2>1, <2>2
  <1>3. CASE c.file \notin Tables
    <2>1. c.file \in Groups
      BY <1>3 DEF Groups
    <2>2. PICK m \in 0 .. Len(TextOf[c.file]) : Group(c.file, m)
      BY <1>1, ProcessGroupFacts
    <2>3. PICK d \in ProcessGroup(c.file, seen) : c.part \in d.kernel
      BY <1>1, <2>2 DEF Group
    <2>4. d \in Passages
      BY <2>1 DEF Passages
    <2>5. d.file = c.file
      <3>1. PICK a \in 1 .. m, b \in 1 .. m : IsPassage(d, c.file, a, b)
        BY <2>2 DEF Group
      <3>2. PassageFrom(d, c.file, m, a, b)
        BY <1>1, <2>2, <3>1, PassageFields
      <3> QED  BY <3>2 DEF PassageFrom
    <2>6. ASSUME NEW x \in Rows \cup Passages, x.file = c.file PROVE x \in Passages
      <3>1. x \in Rows => x.file \in Tables
        BY RowFacts
      <3> QED  BY <1>3, <2>6, <3>1
    <2>7. ASSUME NEW x \in Rows \cup Passages, NEW y \in Rows \cup Passages,
                 x.file = c.file, c.part \in x.kernel, y.file = c.file, c.part \in y.kernel
          PROVE  x = y
      <3>1. x \in Passages /\ y \in Passages /\ x.kernel \cap y.kernel # {}
        BY <2>6, <2>7
      <3> QED  BY <2>7, <3>1, PassagesOfAFile
    <2> QED  BY <2>3, <2>4, <2>5, <2>7
  <1> QED  BY <1>2, <1>3

\* The documents of a search.
LEMMA SearchResult ==
    ASSUME ConstantsAssumption, FoundIsSeen, NEW rows \in RowOrders
    PROVE  /\ rows \o ExpandCandDocs(seen) \in Seq(BySearch)
           /\ CandidatesOnce(rows \o ExpandCandDocs(seen), Valid)
           /\ AreApart(rows \o ExpandCandDocs(seen))
           /\ \A i \in DOMAIN (rows \o ExpandCandDocs(seen)) :
                 Fitting((rows \o ExpandCandDocs(seen))[i])
  <1> DEFINE passages == ExpandCandDocs(seen)
             ds == rows \o passages
  <1>1. Lists(rows, Rows) /\ Lists(passages, Passages)
    BY RowsListed, PassagesListed
  <1>2. /\ \A i, j \in 1 .. Len(passages) : i < j => Earlier(passages[i], passages[j])
    BY PassagesListed
  <1>3. Rows \cap Passages = {}
    BY RowFacts, PassageFacts
  <1> HIDE DEF passages
  <1>4. /\ ds \in Seq(Rows \cup Passages) /\ Len(rows) \in Nat /\ Len(passages) \in Nat
        /\ Len(ds) = Len(rows) + Len(passages) /\ DOMAIN ds = 1 .. Len(rows) + Len(passages)
        /\ \A i \in 1 .. Len(rows) : ds[i] = rows[i] /\ rows[i] \in Rows
        /\ \A i \in Len(rows) + 1 .. Len(rows) + Len(passages) :
              /\ ds[i] = passages[i - Len(rows)] /\ i - Len(rows) \in 1 .. Len(passages)
              /\ passages[i - Len(rows)] \in Passages
        /\ \A i, j \in DOMAIN ds : i # j => ds[i] # ds[j]
        /\ \A x \in Rows \cup Passages : \E i \in DOMAIN ds : ds[i] = x
    <2>1. JoinedAs(rows, passages, Rows, Passages)
      <3> HIDE DEF ds
      <3> QED  BY <1>1, <1>3, Joined
    <2> QED  BY <2>1, Zenon DEF JoinedAs
  <1> HIDE DEF ds
  <1>5. \A i \in DOMAIN ds : ds[i] \in Rows \cup Passages
    BY <1>4, ElementOfSeq
  <1>6. ds \in Seq(BySearch)
    <2>1. Rows \cup Passages \subseteq BySearch
      BY RowFacts, PassageFacts
    <2> QED  BY <1>4, <2>1, SeqMonotonic, Zenon
  <1>7. CandidatesOnce(ds, Valid)
    <2>1. \A i \in DOMAIN ds : ds[i].kernel # {}
      <3>1. \A d \in Rows \cup Passages : d.kernel # {}
        BY RowFacts, PassageFacts
      <3> QED  BY <1>5, <3>1
    <2>2. ASSUME NEW c \in Valid
          PROVE  Cardinality({i \in DOMAIN ds : ds[i].file = c.file /\ c.part \in ds[i].kernel}) = 1
      <3>1. PICK d \in Rows \cup Passages : d.file = c.file /\ c.part \in d.kernel
        BY OneDocument
      <3>2. PICK i \in DOMAIN ds : ds[i] = d
        BY <1>4
      <3> DEFINE I == {k \in DOMAIN ds : ds[k].file = c.file /\ c.part \in ds[k].kernel}
      <3>3. ASSUME NEW j \in I PROVE j = i
        <4>1. ds[j] = ds[i]
          BY <1>5, <3>1, <3>2, OneDocument
        <4> QED  BY <1>4, <4>1
      <3>4. i \in I
        BY <3>1, <3>2
      <3> HIDE DEF I
      <3>5. I = {i}
        BY <3>3, <3>4
      <3>6. Cardinality(I) = 1
        BY <3>5, FS_Singleton
      <3> QED  BY <3>6 DEF I
    <2> QED  BY <2>1, <2>2 DEF CandidatesOnce
  <1>8. AreApart(ds)
    <2> SUFFICES ASSUME NEW i \in DOMAIN ds, NEW j \in DOMAIN ds,
                        ds[i].file \in Files \ Tables, ds[j].file = ds[i].file
                 PROVE  /\ ds[i].parts = [k \in DOMAIN ds[i].parts |-> Head(ds[i].parts) + k - 1]
                        /\ i < j => Last(ds[i].parts) + 1 < Head(ds[j].parts)
      BY DEF AreApart
    <2>1. ds[i] \in Passages /\ ds[j] \in Passages
      BY <1>5, RowFacts
    <2>2. i \in Len(rows) + 1 .. Len(rows) + Len(passages)
      <3>1. i \notin 1 .. Len(rows)
        BY <1>3, <1>4, <2>1
      <3> QED  BY <1>4, <3>1, SMTT(20)
    <2>3. j \in Len(rows) + 1 .. Len(rows) + Len(passages)
      <3>1. j \notin 1 .. Len(rows)
        BY <1>3, <1>4, <2>1
      <3> QED  BY <1>4, <3>1
    <2>4. ASSUME i < j PROVE Last(ds[i].parts) + 1 < Head(ds[j].parts)
      <3>1. /\ ds[i] = passages[i - Len(rows)] /\ i - Len(rows) \in 1 .. Len(passages)
            /\ ds[j] = passages[j - Len(rows)] /\ j - Len(rows) \in 1 .. Len(passages)
        BY <1>4, <2>2, <2>3
      <3>2. i - Len(rows) < j - Len(rows)
        BY <1>4, <2>2, <2>3, <2>4, SMTT(20)
      <3>3. Earlier(ds[i], ds[j])
        BY <1>2, <3>1, <3>2
      <3>4. ds[i].file \in Nat
        BY DEF ConstantsAssumption
      <3>5. Head(ds[i].parts) < Head(ds[j].parts)
        BY <3>3, <3>4 DEF Earlier
      <3> QED  BY <2>1, <3>5, PassagesOfAFile
    <2>5. ds[i].parts = [k \in DOMAIN ds[i].parts |-> Head(ds[i].parts) + k - 1]
      BY <2>1, PassageFacts
    <2> QED  BY <2>4, <2>5
  <1>9. \A i \in DOMAIN ds : Fitting(ds[i])
    <2>1. \A d \in Rows \cup Passages : Fitting(d)
      BY RowFacts, PassageFacts
    <2> QED  BY <1>5, <2>1
  <1> QED  BY <1>6, <1>7, <1>8, <1>9 DEF ds, passages

-----------------------------------------------------------------------------
(* Ranking: the documents stay the same, in another order.                 *)

LEMMA Reordered ==
    ASSUME NEW S, NEW ds \in Seq(S), NEW n \in Nat, NEW order \in [1 .. n -> DOMAIN ds]
    PROVE  /\ [i \in 1 .. n |-> ds[order[i]]] \in Seq(S)
           /\ Len([i \in 1 .. n |-> ds[order[i]]]) = n
  <1> DEFINE s == [i \in 1 .. n |-> ds[order[i]]]
  <1>1. \A i \in 1 .. n : ds[order[i]] \in S
    BY LenProperties, ElementOfSeq
  <1>2. s \in [1 .. n -> S]
    BY <1>1
  <1>3. s \in Seq(S)
    <2> HIDE DEF s
    <2> QED  BY <1>2, SeqDef
  <1>4. DOMAIN s = 1 .. n
    OBVIOUS
  <1>5. Len(s) = n
    <2> HIDE DEF s
    <2>1. Len(s) \in Nat /\ DOMAIN s = 1 .. Len(s)
      BY <1>3, LenProperties
    <2> QED  BY <1>4, <2>1
  <1> QED  BY <1>3, <1>5

LEMMA DeduplicatedKeeps ==
    ASSUME NEW S, NEW ds \in Seq(S)
    PROVE  Deduplicated(ds) \in Seq(S)
  <1> DEFINE F == {i \in DOMAIN ds : \A j \in 1 .. i - 1 : Content(ds[j]) # Content(ds[i])}
             firsts == Ascending(F)
  <1>1. F \in SUBSET (1 .. Len(ds)) /\ F \in SUBSET (DOMAIN ds) /\ Len(ds) \in Nat
    BY LenProperties
  <1>2. Deduplicated(ds) = [i \in DOMAIN firsts |-> ds[firsts[i]]]
    BY DEF Deduplicated
  <1> HIDE DEF F
  <1>3. Lists(firsts, F)
    BY <1>1, NumbersAreFinite, AscendingLists
  <1> HIDE DEF firsts
  <1>4. Len(firsts) \in Nat /\ DOMAIN firsts = 1 .. Len(firsts) /\ firsts \in [1 .. Len(firsts) -> DOMAIN ds]
    BY <1>1, <1>3 DEF Lists
  <1> QED  BY <1>2, <1>4, Reordered

LEMMA RankedKeeps ==
    ASSUME NEW S, NEW ds \in Seq(S), \A i \in DOMAIN ds : ds[i].score \in Int
    PROVE  Ranked(ds) \in Seq(S)
  <1> DEFINE D == DOMAIN ds
             R == {x \in D \X D : Better(ds, x[1], x[2])}
             Is(s) == \A i, j \in DOMAIN s : i < j => Better(ds, s[i], s[j])
             order == CHOOSE s \in SetToSeqs(D) : Is(s)
  <1>1. D = 1 .. Len(ds) /\ Len(ds) \in Nat
    BY LenProperties
  <1>2. IsFiniteSet(D)
    BY <1>1, NumbersAreFinite
  <1>3. \A x, y \in D : <<x, y>> \in R <=> Better(ds, x, y)
    OBVIOUS
  <1>4. StrictOrder(R, D)
    <2> HIDE DEF R, D
    <2>1. \A x \in D : ds[x].score \in Int /\ x \in Int
      BY <1>1 DEF D
    <2>2. \A x \in D : ~Better(ds, x, x)
      BY <2>1 DEF Better
    <2>3. \A x, y \in D : x = y \/ Better(ds, x, y) \/ Better(ds, y, x)
      BY <2>1 DEF Better
    <2>4. \A x, y, z \in D : Better(ds, x, y) /\ Better(ds, y, z) => Better(ds, x, z)
      BY <2>1 DEF Better
    <2> QED  BY <1>3, <2>2, <2>3, <2>4 DEF StrictOrder
  <1>5. Ranked(ds) = [i \in D |-> ds[order[i]]]
    BY DEF Ranked
  <1> HIDE DEF R, Is
  <1>6. PICK q \in SetToSeqs(D) : Sorted(q, R)
    <2> HIDE DEF D
    <2> QED  BY <1>2, <1>4, Enumeration
  <1>7. Is(q)
    <2> HIDE DEF D
    <2>1. Lists(q, D)
      BY <1>2, SeqsList
    <2> QED  BY <1>3, <1>6, <2>1 DEF Sorted, Lists, Is
  <1>8. order \in SetToSeqs(D)
    BY <1>7
  <1> HIDE DEF order
  <1>9. Lists(order, D)
    BY <1>2, <1>8, SeqsList
  <1>10. Len(order) = Len(ds) /\ order \in [1 .. Len(ds) -> D]
    <2>1. Cardinality(D) = Len(ds)
      <3>1. 1 \in Int /\ Len(ds) \in Int /\ (1 > Len(ds) => Len(ds) = 0) /\ Len(ds) - 1 + 1 = Len(ds)
        BY <1>1
      <3>2. Cardinality(1 .. Len(ds)) = IF 1 > Len(ds) THEN 0 ELSE Len(ds) - 1 + 1
        BY <3>1, FS_Interval, Zenon
      <3> QED  BY <1>1, <3>1, <3>2
    <2> HIDE DEF D
    <2> QED  BY <1>9, <2>1 DEF Lists
  <1> QED  BY <1>1, <1>5, <1>10, Reordered

ByRerank == {d \in Uncut : d.by = "rerank"}

LEMMA RescoredKeeps ==
    ASSUME ConstantsAssumption, NEW ds \in Seq(Uncut), NEW by \in Seq(RerankScores),
           Len(by) = Len(ds)
    PROVE  /\ Rescored(ds, by) \in Seq(ByRerank) /\ DOMAIN Rescored(ds, by) = DOMAIN ds
           /\ \A i \in DOMAIN ds : Rescored(ds, by)[i].score = by[i]
  <1>1. Len(ds) \in Nat /\ DOMAIN ds = 1 .. Len(ds)
    BY LenProperties
  <1>2. \A i \in 1 .. Len(ds) : by[i] \in RerankScores
    BY ElementOfSeq
  <1>3. \A x \in RerankScores : x \in Int \cup {NaN}
    BY DEF ConstantsAssumption
  <1> DEFINE New(i) == [ds[i] EXCEPT !.score = by[i], !.by = "rerank"]
  <1>4. ASSUME NEW i \in 1 .. Len(ds) PROVE New(i) \in ByRerank /\ New(i).score = by[i]
    <2> DEFINE d == ds[i]
    <2>1. d \in Uncut /\ by[i] \in Int \cup {NaN}
      BY <1>2, <1>3, ElementOfSeq
    <2>2. d \in DocumentType /\ d \in Documents /\ d.cut = 0
      BY <2>1 DEF Uncut, Documents
    <2> HIDE DEF d
    <2> DEFINE e == [d EXCEPT !.score = by[i], !.by = "rerank"]
    <2>3. e \in DocumentType
      BY <2>1, <2>2 DEF DocumentType
    <2>4. /\ e.parts = d.parts /\ e.file = d.file /\ e.cut = d.cut
          /\ e.by = "rerank" /\ e.score = by[i]
      BY <2>2 DEF DocumentType
    <2> HIDE DEF e
    <2>5. e \in ByRerank
      BY <2>2, <2>3, <2>4 DEF Documents, Uncut, ByRerank
    <2> QED  BY <2>4, <2>5 DEF e, d
  <1>5. Rescored(ds, by) = [i \in 1 .. Len(ds) |-> New(i)]
    BY <1>1 DEF Rescored
  <1> HIDE DEF New
  <1>6. Rescored(ds, by) \in [1 .. Len(ds) -> ByRerank]
    BY <1>4, <1>5
  <1>7. Rescored(ds, by) \in Seq(ByRerank)
    <2> DEFINE s == Rescored(ds, by)
    <2>1. s \in [1 .. Len(ds) -> ByRerank] /\ Len(ds) \in Nat
      BY <1>1, <1>6
    <2> HIDE DEF s
    <2>2. s \in Seq(ByRerank)
      BY <2>1, SeqDef
    <2> QED  BY <2>2 DEF s
  <1> QED  BY <1>1, <1>4, <1>5, <1>7

-----------------------------------------------------------------------------
(* The length of the documents of a prompt.                                *)

LEMMA Length == \A sum \in Nat, n \in Nat \ {0}, cut \in Int :
                    sum + n - 1 - cut \in Int /\ (cut = 0 => sum + n - 1 - cut \in Nat)
  OBVIOUS

LEMMA TokensType ==
    ASSUME ConstantsAssumption, NEW d \in Documents
    PROVE  Tokens(d) \in Int /\ (d.cut = 0 => Tokens(d) \in Nat)
  <1> DEFINE ns == [i \in DOMAIN d.parts |-> Size(d.file, d.parts[i])]
             n == Len(d.parts)
  <1>1. /\ d.file \in Files /\ d.parts \in Seq(Int) /\ d.cut \in Int /\ d.parts # <<>>
        /\ \A k \in 1 .. n : d.parts[k] \in 1 .. Len(TextOf[d.file])
    BY DEF Documents, DocumentType
  <1>2. n \in Nat \ {0} /\ DOMAIN d.parts = 1 .. n
    BY <1>1, LenProperties, EmptySeq
  <1>3. \A k \in 1 .. n : Size(d.file, d.parts[k]) \in Nat
    BY <1>1, SizeIsNatural
  <1>4. ns \in [1 .. n -> Nat]
    BY <1>2, <1>3
  <1>5. ns \in Seq(Nat)
    <2> HIDE DEF ns, n
    <2> QED  BY <1>2, <1>4, SeqDef, SMTT(20)
  <1> HIDE DEF ns
  <1>6. Sum(ns) \in Nat
    BY <1>5, SumIsNatural
  <1>7. Tokens(d) = Sum(ns) + n - 1 - d.cut
    BY DEF Tokens, ns
  <1> HIDE DEF n
  <1>8. /\ Sum(ns) + n - 1 - d.cut \in Int
        /\ d.cut = 0 => Sum(ns) + n - 1 - d.cut \in Nat
    BY <1>1, <1>2, <1>6, Length
  <1> QED  BY <1>7, <1>8

LEMMA TokensOfCut ==
    ASSUME ConstantsAssumption, NEW d \in Documents, NEW x \in Int
    PROVE  /\ [d EXCEPT !.cut = @ + x] \in Documents
           /\ Tokens([d EXCEPT !.cut = @ + x]) = Tokens(d) - x
  <1> DEFINE c == d.cut + x
             e == [d EXCEPT !.cut = c]
             ns == [i \in DOMAIN d.parts |-> Size(d.file, d.parts[i])]
  <1>1. d \in DocumentType /\ d.cut \in Int
    BY DEF Documents, DocumentType
  <1>2. c \in Int
    BY <1>1
  <1> HIDE DEF c
  <1>3. e \in DocumentType
    BY <1>1, <1>2 DEF DocumentType
  <1>4. e.parts = d.parts /\ e.file = d.file /\ e.cut = c
    BY <1>1 DEF DocumentType
  <1> HIDE DEF e
  <1>5. e \in Documents
    BY <1>3, <1>4 DEF Documents
  <1>6. Tokens(d) = Sum(ns) + Len(d.parts) - 1 - d.cut
    BY DEF Tokens
  <1>7. Tokens(e) = Sum(ns) + Len(d.parts) - 1 - (d.cut + x)
    BY <1>4 DEF Tokens, c
  <1>8. ns \in Seq(Nat) /\ Len(d.parts) \in Nat
    <2> DEFINE n == Len(d.parts)
    <2>1. /\ d.file \in Files /\ d.parts \in Seq(Int)
          /\ \A k \in 1 .. n : d.parts[k] \in 1 .. Len(TextOf[d.file])
      BY DEF Documents, DocumentType
    <2>2. n \in Nat /\ DOMAIN d.parts = 1 .. n
      BY <2>1, LenProperties
    <2>3. \A k \in 1 .. n : Size(d.file, d.parts[k]) \in Nat
      BY <2>1, SizeIsNatural
    <2>4. ns \in [1 .. n -> Nat]
      BY <2>2, <2>3
    <2> HIDE DEF ns, n
    <2>5. ns \in Seq(Nat)
      BY <2>2, <2>4, SeqDef
    <2> QED  BY <2>2, <2>5 DEF n
  <1> HIDE DEF ns
  <1>9. Sum(ns) \in Nat
    BY <1>8, SumIsNatural
  <1>10. Tokens(e) = Tokens(d) - x
    BY <1>1, <1>6, <1>7, <1>8, <1>9, SMTT(20)
  <1> QED  BY <1>5, <1>10 DEF e, c

TokensOf(ds) == [i \in DOMAIN ds |-> Tokens(ds[i])]

LEMMA TokensOfType ==
    ASSUME ConstantsAssumption, NEW ds \in Seq(Documents)
    PROVE  /\ TokensOf(ds) \in Seq(Int) /\ Len(TokensOf(ds)) = Len(ds) /\ Len(ds) \in Nat
           /\ \A i \in 1 .. Len(ds) : TokensOf(ds)[i] = Tokens(ds[i])
           /\ Used(ds) = Sum(TokensOf(ds)) /\ Used(ds) \in Int
  <1>1. Len(ds) \in Nat /\ DOMAIN ds = 1 .. Len(ds)
    BY LenProperties
  <1>2. \A i \in 1 .. Len(ds) : Tokens(ds[i]) \in Int
    BY ElementOfSeq, TokensType
  <1>3. TokensOf(ds) \in [1 .. Len(ds) -> Int]
    BY <1>1, <1>2 DEF TokensOf
  <1>4. TokensOf(ds) \in Seq(Int)
    BY <1>1, <1>3, SeqDef
  <1>5. Len(TokensOf(ds)) = Len(ds)
    <2>1. DOMAIN TokensOf(ds) = 1 .. Len(TokensOf(ds)) /\ Len(TokensOf(ds)) \in Nat
      BY <1>4, LenProperties
    <2>2. DOMAIN TokensOf(ds) = 1 .. Len(ds)
      BY <1>1 DEF TokensOf
    <2> QED  BY <1>1, <2>1, <2>2, SameLength
  <1>6. \A i \in 1 .. Len(ds) : TokensOf(ds)[i] = Tokens(ds[i])
    BY <1>1 DEF TokensOf
  <1>7. Used(ds) = Sum(TokensOf(ds))
    BY DEF Used, TokensOf
  <1> QED  BY <1>1, <1>4, <1>5, <1>6, <1>7, SumIsInt

LEMMA UsedOfNone == Used(<<>>) = 0
  <1>1. [i \in DOMAIN <<>> |-> Tokens(<<>>[i])] = <<>>
    OBVIOUS
  <1> QED  BY <1>1, SumOfNone DEF Used

\* One document more takes its tokens more.
LEMMA UsedOfOneMore ==
    ASSUME ConstantsAssumption, NEW ds \in Seq(Documents), NEW es \in Seq(Documents),
           Len(es) = Len(ds) + 1, \A i \in 1 .. Len(ds) : ds[i] = es[i]
    PROVE  Used(es) = Used(ds) + Tokens(es[Len(es)])
  <1> DEFINE ns == TokensOf(ds)
             ms == TokensOf(es)
  <1>1. /\ ns \in Seq(Int) /\ Len(ns) = Len(ds) /\ Len(ds) \in Nat
        /\ \A i \in 1 .. Len(ds) : ns[i] = Tokens(ds[i])
        /\ Used(ds) = Sum(ns)
    BY TokensOfType
  <1>2. /\ ms \in Seq(Int) /\ Len(ms) = Len(es)
        /\ \A i \in 1 .. Len(es) : ms[i] = Tokens(es[i])
        /\ Used(es) = Sum(ms)
    BY TokensOfType
  <1> HIDE DEF ns, ms
  <1>3. \A i \in 1 .. Len(ds) : i \in 1 .. Len(es)
    BY <1>1
  <1>4. Len(ms) = Len(ns) + 1 /\ \A i \in 1 .. Len(ns) : ns[i] = ms[i]
    BY <1>1, <1>2, <1>3
  <1>5. Sum(ms) = Sum(ns) + ms[Len(ms)]
    BY <1>1, <1>2, <1>4, SumOfOneMore
  <1>6. Len(es) \in 1 .. Len(es)
    BY <1>1
  <1> QED  BY <1>1, <1>2, <1>5, <1>6

LEMMA Products ==
    ASSUME NEW t \in Nat \ {0}, NEW n \in Nat
    PROVE  2 * t * n \in Nat /\ n <= 2 * t * n /\ 0 <= 2 * t
  OBVIOUS

\* truncate_len is cut off often enough.
LEMMA CutToFitFits ==
    ASSUME ConstantsAssumption, NEW size \in Nat, Left \in Int
    PROVE  CutToFit(size) \in Int /\ (CutToFit(size) = 0 \/ CutToFit(size) <= Left)
  <1> DEFINE Rest(n) == size - 2 * TruncateLen * n
             Fits(n) == Rest(n) + Overhead <= Left
             Stops(n) == Fits(n) \/ Rest(n) <= 2 * TruncateLen
             Is(k) == /\ Fits(k) \/ Rest(k) <= 2 * TruncateLen
                      /\ \A j \in 0 .. k - 1 : ~Fits(j) /\ Rest(j) > 2 * TruncateLen
             n == CHOOSE k \in 0 .. size : Is(k)
  <1>1. TruncateLen \in Nat \ {0} /\ Overhead \in Nat
    BY DEF ConstantsAssumption
  <1>2. \A k \in Nat : Rest(k) \in Int
    BY <1>1, Products
  <1>3. Stops(size)
    <2>1. 2 * TruncateLen * size \in Nat /\ size <= 2 * TruncateLen * size /\ 0 <= 2 * TruncateLen
      BY <1>1, Products
    <2>2. Rest(size) <= 0
      BY <2>1
    <2>3. 2 * TruncateLen \in Int /\ Rest(size) \in Int
      BY <1>1, <1>2
    <2> HIDE DEF Rest
    <2> QED  BY <2>1, <2>2, <2>3, SMTT(20)
  <1>4. CutToFit(size) = IF Fits(n) THEN Rest(n) ELSE 0
    BY DEF CutToFit
  <1>5. 2 * TruncateLen \in Int
    BY <1>1
  <1> HIDE DEF Rest
  <1>6. \A k \in Nat : ~Stops(k) => ~Fits(k) /\ Rest(k) > 2 * TruncateLen
    <2>1. \A x, y \in Int : ~(x <= y) => x > y
      OBVIOUS
    <2> HIDE DEF Fits
    <2> QED  BY <1>2, <1>5, <2>1, Zenon
  <1> DEFINE K == {k \in 0 .. size : Stops(k)}
  <1>7. K \in SUBSET Nat /\ size \in K
    BY <1>3
  <1> HIDE DEF K
  <1>8. PICK least \in K : \A k \in K : least <= k
    BY <1>7, LeastOf
  <1>9. least \in 0 .. size /\ Is(least)
    <2>1. least \in 0 .. size /\ Stops(least)
      BY <1>8 DEF K
    <2>2. ASSUME NEW j \in 0 .. least - 1 PROVE ~Fits(j) /\ Rest(j) > 2 * TruncateLen
      <3>1. j \in Nat /\ j \in 0 .. size /\ ~(least <= j)
        BY <2>1
      <3>2. j \notin K
        BY <1>8, <3>1
      <3>3. ~Stops(j)
        BY <3>1, <3>2 DEF K
      <3> QED  BY <1>6, <3>1, <3>3
    <2> QED  BY <2>1, <2>2
  <1> HIDE DEF Is
  <1>10. n \in 0 .. size
    BY <1>9
  <1> HIDE DEF n
  <1>11. n \in Nat
    BY <1>10
  <1>12. Rest(n) \in Int
    BY <1>2, <1>11
  <1> QED  BY <1>1, <1>4, <1>12

-----------------------------------------------------------------------------
(* What every step keeps.                                                  *)

Typed ==
    /\ FirstChunks(store) /\ FoundIsSeen
    /\ docs \in Seq(Uncut) /\ kept \in Seq(Documents) /\ limit \in Int
    /\ stage \in {"deduplicate", "rerank"} => docs \in Seq(BySearch)
    /\ stage \notin {"trim", "filter"} => kept = <<>>
    /\ IF stage = "rerank" THEN scores \in Seq(RerankScores) ELSE scores = <<>>

LEMMA ChunkOf ==
    ASSUME ConstantsAssumption, NEW f \in Files
    PROVE  /\ \A c \in ChunksOf(f) : c.file = f /\ c.part \in 1 .. Len(TextOf[f])
           /\ \A p \in 1 .. Len(TextOf[f]) : \E c \in ChunksOf(f) : c.part = p
  <1>1. DOMAIN TextOf[f] = 1 .. Len(TextOf[f])
    BY SizeIsNatural
  <1>2. \A c \in ChunksOf(f) : c.file = f /\ c.part \in 1 .. Len(TextOf[f])
    BY <1>1 DEF ChunksOf
  <1>3. ASSUME NEW p \in 1 .. Len(TextOf[f]) PROVE \E c \in ChunksOf(f) : c.part = p
    <2>1. [file |-> f, part |-> p] \in ChunksOf(f) /\ [file |-> f, part |-> p].part = p
      BY <1>1 DEF ChunksOf
    <2> QED  BY <2>1
  <1> QED  BY <1>2, <1>3

LEMMA ChunksOfOthers ==
    ASSUME ConstantsAssumption, NEW f \in Files, NEW g \in Files, f # g
    PROVE  ChunksOf(f) \cap ChunksOf(g) = {}
  BY ChunkOf, ZenonT(60)

\* Chunks of a file come and go; of the others the same are there.
LEMMA FirstChunksOfOne ==
    ASSUME ConstantsAssumption, NEW S, FirstChunks(S), NEW T, NEW f \in Files,
           T \subseteq S \cup ChunksOf(f), S \ ChunksOf(f) \subseteq T,
           NEW n \in 0 .. Len(TextOf[f]), PartsIn(f, T) = 1 .. n
    PROVE  FirstChunks(T)
  <1>1. T \subseteq UNION {ChunksOf(g) : g \in Files}
    BY DEF FirstChunks
  <1>2. ASSUME NEW g \in Files PROVE \E k \in 0 .. Len(TextOf[g]) : PartsIn(g, T) = 1 .. k
    <2>1. CASE g = f
      BY <2>1
    <2>2. CASE g # f
      <3>1. T \cap ChunksOf(g) = S \cap ChunksOf(g)
        BY <2>2, ChunksOfOthers
      <3>2. PartsIn(g, T) = PartsIn(g, S)
        BY <3>1 DEF PartsIn
      <3> QED  BY <3>2 DEF FirstChunks
    <2> QED  BY <2>1, <2>2
  <1> QED  BY <1>1, <1>2 DEF FirstChunks

LEMMA NoChunks ==
    ASSUME ConstantsAssumption PROVE FirstChunks({})
  <1>1. \A f \in Files : PartsIn(f, {}) = {} /\ Len(TextOf[f]) \in Nat
    BY SizeIsNatural DEF PartsIn
  <1>2. \A n \in Nat : 0 \in 0 .. n
    OBVIOUS
  <1>3. 1 .. 0 = {}
    OBVIOUS
  <1> QED  BY <1>1, <1>2, <1>3 DEF FirstChunks

LEMMA NothingIsFound ==
    ASSUME ConstantsAssumption, seen = {}, found = Nothing PROVE FoundIsSeen
  BY NoChunks DEF FoundIsSeen, Nothing

LEMMA TypedInit ==
    ASSUME ConstantsAssumption, Init PROVE Typed
  <1>1. PICK loaded \in SUBSET Files : store = UNION {ChunksOf(f) : f \in loaded}
    BY DEF Init
  <1>2. FirstChunks(store)
    <2>1. store \subseteq UNION {ChunksOf(f) : f \in Files}
      BY <1>1
    <2>2. ASSUME NEW f \in Files PROVE \E n \in 0 .. Len(TextOf[f]) : PartsIn(f, store) = 1 .. n
      <3>1. Len(TextOf[f]) \in Nat
        BY SizeIsNatural
      <3>2. CASE f \in loaded
        <4>1. store \cap ChunksOf(f) = ChunksOf(f)
          BY <1>1, <3>2
        <4>2. PartsIn(f, store) = 1 .. Len(TextOf[f])
          <5>1. \A c \in ChunksOf(f) : c.part \in 1 .. Len(TextOf[f])
            BY ChunkOf
          <5>2. \A p \in 1 .. Len(TextOf[f]) : \E c \in ChunksOf(f) : c.part = p
            BY ChunkOf
          <5> QED  BY <4>1, <5>1, <5>2 DEF PartsIn
        <4>3. Len(TextOf[f]) \in 0 .. Len(TextOf[f])
          BY <3>1
        <4> QED  BY <4>2, <4>3
      <3>3. CASE f \notin loaded
        <4>1. store \cap ChunksOf(f) = {}
          BY <1>1, <3>3, ChunksOfOthers
        <4>2. PartsIn(f, store) = 1 .. 0
          <5>1. 1 .. 0 = {}
            OBVIOUS
          <5> QED  BY <4>1, <5>1 DEF PartsIn
        <4>3. 0 \in 0 .. Len(TextOf[f])
          BY <3>1
        <4> QED  BY <4>2, <4>3
      <3> QED  BY <3>2, <3>3
    <2> QED  BY <2>1, <2>2 DEF FirstChunks
  <1>3. FoundIsSeen
    BY NothingIsFound DEF Init
  <1>4. docs \in Seq(Uncut) /\ kept \in Seq(Documents) /\ kept = <<>> /\ limit \in Int
        /\ stage = "idle" /\ scores = <<>>
    BY EmptySeq DEF Init
  <1> QED  BY <1>2, <1>3, <1>4 DEF Typed

LEMMA StoreStep ==
    ASSUME ConstantsAssumption, Typed, [Next]_vars PROVE FirstChunks(store)'
  <1>1. ASSUME NEW f \in Files, Insert(f) PROVE FirstChunks(store)'
    <2>1. PICK n \in 1 .. Len(TextOf[f]) : store' = store \cup {c \in ChunksOf(f) : c.part <= n}
      BY <1>1 DEF Insert
    <2>2. ChunksOf(f) \cap store = {} /\ Len(TextOf[f]) \in Nat
      BY <1>1, SizeIsNatural DEF Insert
    <2>3. store' \cap ChunksOf(f) = {c \in ChunksOf(f) : c.part <= n}
      BY <2>1, <2>2
    <2>4. PartsIn(f, store') = 1 .. n
      <3>1. {c.part : c \in {d \in ChunksOf(f) : d.part <= n}} = 1 .. n
        <4>1. ASSUME NEW c \in ChunksOf(f), c.part <= n PROVE c.part \in 1 .. n
          BY <2>2, <4>1, ChunkOf, SMTT(20)
        <4>2. ASSUME NEW p \in 1 .. n
              PROVE  \E c \in ChunksOf(f) : c.part <= n /\ c.part = p
          <5>1. p \in 1 .. Len(TextOf[f]) /\ p <= n
            BY <2>2
          <5>2. PICK c \in ChunksOf(f) : c.part = p
            BY <5>1, ChunkOf
          <5> QED  BY <5>1, <5>2
        <4> QED  BY <4>1, <4>2
      <3> QED  BY <2>3, <3>1 DEF PartsIn
    <2>5. n \in 0 .. Len(TextOf[f])
      BY <2>2
    <2>6. store' \subseteq store \cup ChunksOf(f) /\ store \ ChunksOf(f) \subseteq store'
      BY <2>1
    <2>7. FirstChunks(store')
      BY <2>4, <2>5, <2>6, FirstChunksOfOne DEF Typed
    <2> QED  BY <2>7 DEF FirstChunks, PartsIn
  <1>2. ASSUME NEW f \in Files, Delete(f) PROVE FirstChunks(store)'
    <2>1. store' = store \ ChunksOf(f)
      BY <1>2 DEF Delete
    <2>2. PartsIn(f, store') = 1 .. 0
      <3>1. 1 .. 0 = {} /\ store' \cap ChunksOf(f) = {}
        BY <2>1
      <3> QED  BY <3>1 DEF PartsIn
    <2>3. 0 \in 0 .. Len(TextOf[f])
      <3>1. Len(TextOf[f]) \in Nat
        BY SizeIsNatural
      <3> QED  BY <3>1
    <2>4. store' \subseteq store \cup ChunksOf(f) /\ store \ ChunksOf(f) \subseteq store'
      BY <2>1
    <2>5. FirstChunks(store')
      BY <2>2, <2>3, <2>4, FirstChunksOfOne DEF Typed
    <2> QED  BY <2>5 DEF FirstChunks, PartsIn
  <1>3. CASE store' = store
    BY <1>3 DEF Typed, FirstChunks, PartsIn
  <1>4. (\E f \in Files : Insert(f) \/ Delete(f)) \/ store' = store
    BY DEF Next, Retrieve, Search, Expand, Deduplicate, ScoreBatch, ApplyScores, RerankRaises,
           KeepWhole, CutLast, AllKept, Filter, Generate, Answered, vars
  <1> QED  BY <1>1, <1>2, <1>3, <1>4

LEMMA FoundStep ==
    ASSUME ConstantsAssumption, Typed, [Next]_vars PROVE FoundIsSeen'
  <1>1. CASE Search
    <2>1. PICK nearest \in SUBSET store : \E product \in [nearest -> Similarities] : found' = product
      BY <1>1 DEF Search
    <2>2. seen' = store
      BY <1>1 DEF Search
    <2>3. Similarities \subseteq Int
      BY DEF ConstantsAssumption
    <2>4. DOMAIN found' = nearest /\ found' \in [nearest -> Int]
      BY <2>1, <2>3
    <2>5. FirstChunks(seen)'
      BY <2>2 DEF Typed, FirstChunks, PartsIn
    <2> QED  BY <2>2, <2>4, <2>5 DEF FoundIsSeen
  <1>2. CASE Deduplicate
    <2>1. seen' = {} /\ found' = Nothing
      BY <1>2 DEF Deduplicate
    <2>2. FirstChunks(seen)'
      BY <2>1, NoChunks DEF FirstChunks, PartsIn
    <2>3. DOMAIN found' = {} /\ found' \in [{} -> Int]
      BY <2>1 DEF Nothing
    <2> QED  BY <2>1, <2>2, <2>3 DEF FoundIsSeen
  <1>3. CASE seen' = seen /\ found' = found
    BY <1>3 DEF Typed, FoundIsSeen, FirstChunks, PartsIn
  <1>4. Search \/ Deduplicate \/ (seen' = seen /\ found' = found)
    BY DEF Next, Retrieve, Insert, Delete, Expand, ScoreBatch, ApplyScores, RerankRaises,
           KeepWhole, CutLast, AllKept, Filter, Generate, Answered, vars, question
  <1> QED  BY <1>1, <1>2, <1>3, <1>4

LEMMA CountUpTo ==
    ASSUME NEW n \in Nat PROVE IsFiniteSet(1 .. n) /\ Cardinality(1 .. n) = n
  <1>1. 1 \in Int /\ n \in Int /\ (1 > n => n = 0) /\ n - 1 + 1 = n
    OBVIOUS
  <1>2. IsFiniteSet(1 .. n) /\ Cardinality(1 .. n) = IF 1 > n THEN 0 ELSE n - 1 + 1
    BY <1>1, FS_Interval, Zenon
  <1> QED  BY <1>1, <1>2

LEMMA BySearchIsWhole ==
    /\ Seq(BySearch) \subseteq Seq(Uncut) /\ Seq(ByRerank) \subseteq Seq(Uncut)
    /\ Seq(Uncut) \subseteq Seq(Documents)
  <1>1. BySearch \subseteq Uncut /\ ByRerank \subseteq Uncut /\ Uncut \subseteq Documents
    BY DEF BySearch, ByRerank, Uncut
  <1> QED  BY <1>1, SeqMonotonic

\* What the steps put in the place of the documents.
LEMMA DocsStep ==
    ASSUME ConstantsAssumption, Typed, [Next]_vars
    PROVE  /\ docs' \in Seq(Uncut)
           /\ Expand \/ Deduplicate => docs' \in Seq(BySearch)
           /\ ApplyScores => docs' \in Seq(ByRerank)
  <1>1. CASE Expand
    <2>1. PICK rows \in RowOrders : docs' = rows \o ExpandCandDocs(seen)
      BY <1>1 DEF Expand
    <2>2. rows \o ExpandCandDocs(seen) \in Seq(BySearch)
      BY SearchResult DEF Typed
    <2>3. ~ApplyScores
      BY <1>1 DEF Expand, ApplyScores
    <2> QED  BY <2>1, <2>2, <2>3, BySearchIsWhole
  <1>2. CASE Deduplicate
    <2>1. docs \in Seq(BySearch)
      BY <1>2 DEF Deduplicate, Typed
    <2>2. docs' = Ranked(Deduplicated(docs))
      BY <1>2 DEF Deduplicate
    <2> DEFINE ds == Deduplicated(docs)
    <2>3. ds \in Seq(BySearch)
      BY <2>1, DeduplicatedKeeps
    <2> HIDE DEF ds
    <2>4. \A i \in DOMAIN ds : ds[i].score \in Int
      <3>1. \A i \in DOMAIN ds : ds[i] \in BySearch
        BY <2>3, LenProperties, ElementOfSeq
      <3> QED  BY <3>1 DEF BySearch
    <2>5. Ranked(ds) \in Seq(BySearch)
      BY <2>3, <2>4, RankedKeeps
    <2>6. ~ApplyScores
      BY <1>2 DEF Deduplicate, ApplyScores
    <2> QED  BY <2>2, <2>5, <2>6, BySearchIsWhole DEF ds
  <1>3. CASE ApplyScores
    <2>1. docs \in Seq(Uncut) /\ scores \in Seq(RerankScores) /\ Len(scores) = Len(docs)
      BY <1>3 DEF ApplyScores, Typed
    <2> DEFINE ds == Rescored(docs, scores)
    <2>2. /\ ds \in Seq(ByRerank) /\ DOMAIN ds = DOMAIN docs
          /\ \A i \in DOMAIN docs : ds[i].score = scores[i]
      BY <2>1, RescoredKeeps
    <2>3. CASE NaN \in ToSet(scores)
      <3>1. PICK order \in SetToSeqs(DOMAIN docs) : docs' = [i \in DOMAIN docs |-> ds[order[i]]]
        BY <1>3, <2>3 DEF ApplyScores
      <3> HIDE DEF ds
      <3>2. Len(docs) \in Nat /\ DOMAIN docs = 1 .. Len(docs)
        BY <2>1, LenProperties
      <3>3. Cardinality(DOMAIN docs) = Len(docs) /\ IsFiniteSet(DOMAIN docs)
        BY <3>2, CountUpTo
      <3>4. Lists(order, DOMAIN docs)
        BY <3>3, SeqsList
      <3>5. order \in [1 .. Len(docs) -> DOMAIN ds]
        BY <2>2, <3>3, <3>4 DEF Lists
      <3>6. docs' = [i \in 1 .. Len(docs) |-> ds[order[i]]]
        BY <3>1, <3>2
      <3>7. docs' \in Seq(ByRerank)
        BY <2>2, <3>2, <3>5, <3>6, Reordered
      <3>8. ~Expand /\ ~Deduplicate
        BY <1>3 DEF ApplyScores, Expand, Deduplicate
      <3> QED  BY <3>7, <3>8, BySearchIsWhole
    <2>4. CASE NaN \notin ToSet(scores)
      <3>1. docs' = Ranked(ds)
        BY <1>3, <2>4 DEF ApplyScores
      <3> HIDE DEF ds
      <3>2. \A i \in DOMAIN ds : ds[i].score \in Int
        <4> SUFFICES ASSUME NEW i \in DOMAIN ds PROVE ds[i].score \in Int
          OBVIOUS
        <4>1. i \in 1 .. Len(scores) /\ i \in DOMAIN scores
          BY <2>1, <2>2, LenProperties
        <4>2. scores[i] \in RerankScores
          BY <2>1, <4>1, ElementOfSeq
        <4>3. scores[i] # NaN
          BY <2>4, <4>1 DEF ToSet
        <4>4. scores[i] \in Int
          BY <4>2, <4>3 DEF ConstantsAssumption
        <4> QED  BY <2>2, <4>4
      <3>3. Ranked(ds) \in Seq(ByRerank)
        BY <2>2, <3>2, RankedKeeps
      <3>4. ~Expand /\ ~Deduplicate
        BY <1>3 DEF ApplyScores, Expand, Deduplicate
      <3> QED  BY <3>1, <3>3, <3>4, BySearchIsWhole
    <2> QED  BY <2>3, <2>4
  <1>4. CASE Filter
    <2>1. docs' = <<>>
      BY <1>4 DEF Filter
    <2>2. ~Expand /\ ~Deduplicate /\ ~ApplyScores
      BY <1>4 DEF Filter, ApplyScores, Expand, Deduplicate
    <2>3. docs' \in Seq(Uncut)
      BY <2>1, EmptySeq
    <2> QED  BY <2>2, <2>3
  <1>5. CASE docs' = docs /\ ~Expand /\ ~Deduplicate /\ ~ApplyScores
    BY <1>5 DEF Typed
  <1>6. Expand \/ Deduplicate \/ ApplyScores \/ Filter \/ docs' = docs
    BY DEF Next, Retrieve, Insert, Delete, Search, ScoreBatch, RerankRaises,
           KeepWhole, CutLast, AllKept, Generate, Answered, vars, question
  <1> QED  BY <1>1, <1>2, <1>3, <1>4, <1>5, <1>6

LEMMA NextDocFacts ==
    ASSUME ConstantsAssumption, Typed, Trimming
    PROVE  /\ Len(kept) \in Nat /\ Len(kept) + 1 \in 1 .. Len(docs) /\ NextDoc \in Uncut
           /\ NextDoc \in Documents /\ Tokens(NextDoc) \in Nat
           /\ Used(kept) \in Int /\ Left \in Int
  <1>1. kept \in Seq(Documents) /\ docs \in Seq(Uncut) /\ limit \in Int
    BY DEF Typed
  <1>2. Len(kept) \in Nat /\ Len(docs) \in Nat
    BY <1>1, LenProperties
  <1>3. Len(kept) + 1 \in 1 .. Len(docs)
    BY <1>2 DEF Trimming
  <1>4. NextDoc \in Uncut
    BY <1>1, <1>3, ElementOfSeq DEF NextDoc
  <1>5. NextDoc \in Documents /\ Tokens(NextDoc) \in Nat
    BY <1>4, TokensType DEF Uncut
  <1>6. Used(kept) \in Int
    BY <1>1, TokensOfType
  <1>7. Left \in Int
    BY <1>1, <1>6 DEF Left
  <1> QED  BY <1>2, <1>3, <1>4, <1>5, <1>6, <1>7

\* The document that is cut: CutToFit is left of it.
CutDoc == [NextDoc EXCEPT !.cut = @ + Tokens(NextDoc) - CutToFit(Tokens(NextDoc))]

LEMMA CutDocFacts ==
    ASSUME ConstantsAssumption, Typed, Trimming
    PROVE  /\ CutDoc \in Documents /\ Tokens(CutDoc) = CutToFit(Tokens(NextDoc))
           /\ Tokens(CutDoc) \in Int /\ (Tokens(CutDoc) = 0 \/ Tokens(CutDoc) <= Left)
  <1> DEFINE d == NextDoc
             size == Tokens(d)
             fit == CutToFit(size)
             x == size - fit
  <1>1. d \in Documents /\ size \in Nat /\ Left \in Int /\ d.cut \in Int
    BY NextDocFacts DEF Documents, DocumentType
  <1> HIDE DEF size
  <1>2. fit \in Int /\ (fit = 0 \/ fit <= Left)
    BY <1>1, CutToFitFits
  <1> HIDE DEF d, fit
  <1>3. x \in Int /\ d.cut + size - fit = d.cut + x /\ size - x = fit
    BY <1>1, <1>2
  <1>4. CutDoc = [d EXCEPT !.cut = d.cut + x]
    BY <1>3 DEF CutDoc, d, size, fit
  <1> HIDE DEF x
  <1>5. [d EXCEPT !.cut = d.cut + x] \in Documents
        /\ Tokens([d EXCEPT !.cut = d.cut + x]) = Tokens(d) - x
    BY <1>1, <1>3, TokensOfCut
  <1>6. CutDoc \in Documents /\ Tokens(CutDoc) = fit
    BY <1>3, <1>4, <1>5 DEF size
  <1> QED  BY <1>2, <1>6 DEF fit, size, d

LEMMA KeptStep ==
    ASSUME ConstantsAssumption, Typed, [Next]_vars
    PROVE  kept' \in Seq(Documents) /\ (stage' \notin {"trim", "filter"} => kept' = <<>>)
  <1>1. CASE KeepWhole
    <2>1. Trimming /\ kept' = Append(kept, NextDoc) /\ stage' = stage
      BY <1>1 DEF KeepWhole
    <2>2. kept' \in Seq(Documents)
      BY <2>1, NextDocFacts, AppendProperties DEF Typed
    <2> QED  BY <2>1, <2>2 DEF Trimming
  <1>2. CASE CutLast
    <2>1. Trimming /\ kept' = Append(kept, CutDoc) /\ stage' = "filter"
      BY <1>2 DEF CutLast, CutDoc
    <2>2. kept' \in Seq(Documents)
      BY <2>1, CutDocFacts, AppendProperties DEF Typed
    <2> QED  BY <2>1, <2>2
  <1>3. CASE Filter
    <2>1. kept' = <<>>
      BY <1>3 DEF Filter
    <2> QED  BY <2>1, EmptySeq
  <1>4. CASE kept' = kept /\ (stage \notin {"trim", "filter"} \/ stage' \in {"trim", "filter"})
    BY <1>4 DEF Typed
  <1>5. \/ KeepWhole \/ CutLast \/ Filter
        \/ kept' = kept /\ (stage \notin {"trim", "filter"} \/ stage' \in {"trim", "filter"})
    BY DEF Next, Retrieve, Insert, Delete, Search, Expand, Deduplicate, StartTrim, ScoreBatch,
           ApplyScores, RerankRaises, AllKept, Generate, Answered, vars, question
  <1> QED  BY <1>1, <1>2, <1>3, <1>4, <1>5

LEMMA ScoresStep ==
    ASSUME ConstantsAssumption, Typed, [Next]_vars
    PROVE  IF stage' = "rerank" THEN scores' \in Seq(RerankScores) ELSE scores' = <<>>
  <1>1. CASE ScoreBatch
    <2> DEFINE n == Lesser(RerankBatch, Len(docs) - Len(scores))
    <2>1. stage = "rerank" /\ stage' = stage /\ scores \in Seq(RerankScores)
      BY <1>1 DEF ScoreBatch, Typed
    <2>2. PICK batch \in [1 .. n -> RerankScores] : scores' = scores \o batch
      BY <1>1 DEF ScoreBatch
    <2>3. n \in Nat
      <3>1. Len(docs) \in Nat /\ Len(scores) \in Nat
        BY <2>1, LenProperties DEF Typed
      <3>2. Len(scores) < Len(docs) /\ RerankBatch \in Nat
        BY <1>1 DEF ScoreBatch, ConstantsAssumption
      <3> QED  BY <3>1, <3>2 DEF Lesser
    <2> HIDE DEF n
    <2>4. batch \in Seq(RerankScores)
      BY <2>3, SeqDef
    <2>5. scores' \in Seq(RerankScores)
      BY <2>1, <2>2, <2>4, ConcatProperties
    <2> QED  BY <2>1, <2>5
  <1>2. CASE Deduplicate
    <2>1. scores' = <<>>
      BY <1>2 DEF Deduplicate, Typed
    <2> QED  BY <2>1, EmptySeq
  <1>3. CASE ApplyScores \/ RerankRaises
    BY <1>3 DEF ApplyScores, RerankRaises, StartTrim
  <1>4. CASE scores' = scores /\ (stage' = "rerank" <=> stage = "rerank")
    BY <1>4 DEF Typed
  <1>5. \/ ScoreBatch \/ Deduplicate \/ ApplyScores \/ RerankRaises
        \/ scores' = scores /\ (stage' = "rerank" <=> stage = "rerank")
    BY DEF Next, Retrieve, Insert, Delete, Search, Expand, Trimming, KeepWhole, CutLast, Filter,
           AllKept, Generate, Answered, vars, question
  <1> QED  BY <1>1, <1>2, <1>3, <1>4, <1>5

LEMMA TypedStep ==
    ASSUME ConstantsAssumption, Typed, [Next]_vars PROVE Typed'
  <1>1. FirstChunks(store)' /\ FoundIsSeen'
    BY StoreStep, FoundStep
  <1>2. docs' \in Seq(Uncut)
    BY DocsStep
  <1>3. kept' \in Seq(Documents) /\ (stage' \notin {"trim", "filter"} => kept' = <<>>)
    BY KeptStep
  <1>4. limit' \in Int
    <2>1. limit' = limit \/ limit' \in Limits \/ limit' = 0
      BY DEF Next, Retrieve, Insert, Delete, Search, Expand, Deduplicate, StartTrim, ScoreBatch,
             ApplyScores, RerankRaises, KeepWhole, CutLast, AllKept, Filter, Generate, Answered,
             vars, question
    <2> QED  BY <2>1 DEF Typed, ConstantsAssumption
  <1>5. stage' \in {"deduplicate", "rerank"} => docs' \in Seq(BySearch)
    <2>1. \/ Expand \/ Deduplicate
          \/ stage' \notin {"deduplicate", "rerank"}
          \/ docs' = docs /\ stage \in {"deduplicate", "rerank"}
      BY DEF Next, Retrieve, Insert, Delete, Search, StartTrim, ScoreBatch, StoreMatters, Trimming,
             ApplyScores, RerankRaises, KeepWhole, CutLast, AllKept, Filter, Generate, Answered,
             vars, question
    <2> QED  BY <2>1, DocsStep DEF Typed
  <1>6. IF stage' = "rerank" THEN scores' \in Seq(RerankScores) ELSE scores' = <<>>
    BY ScoresStep
  <1> QED  BY <1>1, <1>2, <1>3, <1>4, <1>5, <1>6 DEF Typed

-----------------------------------------------------------------------------
(* The properties.                                                         *)

\* What a search found stays as it was expanded until it is deduplicated.
Expanded == EveryCandidateOnce /\ PassagesApart /\ PassageSizeBounded

LEMMA SearchedStep ==
    ASSUME ConstantsAssumption, Typed, Expanded, [Next]_vars PROVE Expanded'
  <1> USE DEF Expanded
  <1>1. CASE Expand
    <2>1. PICK rows \in RowOrders : docs' = rows \o ExpandCandDocs(seen)
      BY <1>1 DEF Expand
    <2>2. CandidatesOnce(docs', Valid) /\ AreApart(docs') /\ \A i \in DOMAIN docs' : Fitting(docs'[i])
      BY <2>1, SearchResult DEF Typed
    <2>3. Valid' = Valid
      BY <1>1 DEF Expand, Valid
    <2>4. EveryCandidateOnce'
      BY <2>2, <2>3 DEF EveryCandidateOnce, CandidatesOnce
    <2>5. PassagesApart'
      BY <2>2 DEF PassagesApart, AreApart
    <2>6. PassageSizeBounded'
      <3>1. \A d \in ToSet(docs') : Fitting(d)
        BY <2>2 DEF ToSet
      <3> QED  BY <3>1 DEF PassageSizeBounded, Fitting
    <2> QED  BY <2>4, <2>5, <2>6
  <1>2. CASE UNCHANGED vars
    <2>1. Valid' = Valid /\ docs' = docs /\ stage' = stage
      BY <1>2 DEF Valid, vars, question
    <2>2. stage = "deduplicate" =>
             CandidatesOnce(docs, Valid) /\ AreApart(docs) /\ \A d \in ToSet(docs) : Fitting(d)
      BY DEF EveryCandidateOnce, PassagesApart, PassageSizeBounded, Searched, CandidatesOnce,
             AreApart, Fitting
    <2>3. stage' = "deduplicate" =>
             CandidatesOnce(docs', Valid') /\ AreApart(docs') /\ \A d \in ToSet(docs') : Fitting(d)
      BY <2>1, <2>2
    <2> QED  BY <2>3 DEF EveryCandidateOnce, PassagesApart, PassageSizeBounded, Searched,
                        CandidatesOnce, AreApart, Fitting
  <1>3. CASE stage' # "deduplicate"
    BY <1>3 DEF EveryCandidateOnce, PassagesApart, PassageSizeBounded, Searched
  <1>4. Expand \/ UNCHANGED vars \/ stage' # "deduplicate"
    BY DEF Next, Retrieve, Insert, Delete, StoreMatters, Search, Deduplicate, StartTrim, ScoreBatch,
           ApplyScores, RerankRaises, Trimming, KeepWhole, CutLast, AllKept, Filter, Generate, Answered
  <1> QED  BY <1>1, <1>2, <1>3, <1>4

LEMMA AllBy ==
    ASSUME NEW S, NEW by, \A d \in S : d.by = by, NEW ds \in Seq(S)
    PROVE  \A d, e \in ToSet(ds) : d.by = e.by
  <1>1. \A i \in DOMAIN ds : ds[i] \in S
    BY LenProperties, ElementOfSeq
  <1> QED  BY <1>1 DEF ToSet

LEMMA OneScaleStep ==
    ASSUME ConstantsAssumption, Typed, OneScale, [Next]_vars PROVE OneScale'
  <1>1. CASE Expand \/ Deduplicate
    <2>1. docs' \in Seq(BySearch) /\ \A d \in BySearch : d.by = "search"
      BY <1>1, DocsStep DEF BySearch
    <2>2. \A d, e \in ToSet(docs') : d.by = e.by
      BY <2>1, AllBy
    <2> QED  BY <2>2 DEF OneScale
  <1>2. CASE ApplyScores
    <2>1. docs' \in Seq(ByRerank) /\ \A d \in ByRerank : d.by = "rerank"
      BY <1>2, DocsStep DEF ByRerank
    <2>2. \A d, e \in ToSet(docs') : d.by = e.by
      BY <2>1, AllBy
    <2> QED  BY <2>2 DEF OneScale
  <1>3. CASE RerankRaises
    <2>1. docs' \in Seq(BySearch) /\ \A d \in BySearch : d.by = "search"
      BY <1>3 DEF RerankRaises, Typed, BySearch
    <2>2. \A d, e \in ToSet(docs') : d.by = e.by
      BY <2>1, AllBy
    <2> QED  BY <2>2 DEF OneScale
  <1>4. CASE Filter
    BY <1>4 DEF Filter, OneScale, ToSet
  <1>5. CASE docs' = docs /\ (stage = "rerank" => stage' = "rerank")
    BY <1>5 DEF OneScale
  <1>6. \/ Expand \/ Deduplicate \/ ApplyScores \/ RerankRaises \/ Filter
        \/ docs' = docs /\ (stage = "rerank" => stage' = "rerank")
    BY DEF Next, Retrieve, Insert, Delete, StoreMatters, Search, ScoreBatch, Trimming, KeepWhole,
           CutLast, AllKept, Generate, Answered, vars, question
  <1> QED  BY <1>1, <1>2, <1>3, <1>4, <1>5, <1>6

LEMMA StartOfTrim ==
    ASSUME ConstantsAssumption, Typed, Deduplicate \/ ApplyScores \/ RerankRaises
    PROVE  kept' = <<>> /\ stage' \in {"rerank", "trim"}
           /\ (stage' = "trim" => limit' \in Int)
           /\ Len(docs') \in Nat
  <1>1. kept' = <<>> /\ stage' \in {"rerank", "trim"}
    BY DEF Typed, Deduplicate, ApplyScores, RerankRaises, StartTrim
  <1>2. stage' = "trim" => limit' \in Int
    BY DEF Deduplicate, ApplyScores, RerankRaises, StartTrim, ConstantsAssumption
  <1>3. docs' \in Seq(Uncut)
    <2>1. [Next]_vars
      BY DEF Next, Retrieve
    <2> QED  BY <2>1, DocsStep
  <1> QED  BY <1>1, <1>2, <1>3, LenProperties

\* The last document kept.
LEMMA KeptOneMore ==
    ASSUME ConstantsAssumption, Typed, Trimming, NEW d \in Documents, kept' = Append(kept, d)
    PROVE  /\ Used(kept') = Used(kept) + Tokens(d)
           /\ Len(kept') = Len(kept) + 1 /\ Len(kept) \in Nat /\ kept' \in Seq(Documents)
           /\ DOMAIN kept' = 1 .. Len(kept) + 1 /\ DOMAIN kept = 1 .. Len(kept)
           /\ kept'[Len(kept) + 1] = d
           /\ \A i \in 1 .. Len(kept) : kept'[i] = kept[i]
  <1>1. kept \in Seq(Documents) /\ Len(kept) \in Nat /\ DOMAIN kept = 1 .. Len(kept)
    BY LenProperties DEF Typed
  <1> DEFINE es == Append(kept, d)
  <1>2. /\ es \in Seq(Documents) /\ Len(es) = Len(kept) + 1
        /\ \A i \in 1 .. Len(kept) : es[i] = kept[i]
        /\ es[Len(kept) + 1] = d
    BY <1>1, AppendProperties
  <1> HIDE DEF es
  <1>3. Used(es) = Used(kept) + Tokens(d)
    BY <1>1, <1>2, UsedOfOneMore
  <1>4. DOMAIN es = 1 .. Len(kept) + 1
    BY <1>2, LenProperties
  <1> QED  BY <1>1, <1>2, <1>3, <1>4 DEF es

LEMMA FitsWindowStep ==
    ASSUME ConstantsAssumption, Typed, FitsWindow, [Next]_vars PROVE FitsWindow'
  <1>1. CASE KeepWhole
    <2>1. /\ Trimming /\ Tokens(NextDoc) <= Left /\ kept' = Append(kept, NextDoc)
          /\ limit' = limit
      BY <1>1 DEF KeepWhole
    <2>2. Used(kept') = Used(kept) + Tokens(NextDoc)
      BY <2>1, NextDocFacts, KeptOneMore
    <2>3. Tokens(NextDoc) \in Int /\ Used(kept) \in Int /\ limit \in Int
      BY <2>1, NextDocFacts, SMTT(20) DEF Typed
    <2>4. Used(kept') <= limit /\ Used(kept') \in Int
      BY <2>1, <2>2, <2>3 DEF Left
    <2> QED  BY <2>1, <2>3, <2>4 DEF FitsWindow
  <1>2. CASE CutLast
    <2>1. Trimming /\ kept' = Append(kept, CutDoc) /\ limit' = limit
      BY <1>2 DEF CutLast, CutDoc
    <2>2. CutDoc \in Documents /\ Tokens(CutDoc) \in Int /\ (Tokens(CutDoc) = 0 \/ Tokens(CutDoc) <= Left)
      BY <2>1, CutDocFacts
    <2>3. Used(kept') = Used(kept) + Tokens(CutDoc)
      BY <2>1, <2>2, KeptOneMore
    <2>4. Used(kept) \in Int /\ limit \in Int
      BY <2>1, NextDocFacts DEF Typed
    <2>5. Used(kept) <= IF limit < 0 THEN 0 ELSE limit
      BY <2>1 DEF FitsWindow, Trimming
    <2>6. CASE Tokens(CutDoc) = 0
      BY <2>1, <2>3, <2>4, <2>5, <2>6 DEF FitsWindow
    <2>7. CASE Tokens(CutDoc) <= Left
      <3>1. Used(kept') <= limit /\ Used(kept') \in Int
        BY <2>2, <2>3, <2>4, <2>7 DEF Left
      <3> QED  BY <2>1, <2>4, <3>1 DEF FitsWindow
    <2> QED  BY <2>2, <2>6, <2>7
  <1>3. CASE Deduplicate \/ ApplyScores \/ RerankRaises
    <2>1. kept' = <<>> /\ stage' \in {"rerank", "trim"} /\ (stage' = "trim" => limit' \in Int)
      BY <1>3, StartOfTrim
    <2> QED  BY <2>1, UsedOfNone DEF FitsWindow
  <1>4. CASE kept' = kept /\ limit' = limit /\ (stage' \in {"trim", "filter"} => stage \in {"trim", "filter"})
    BY <1>4 DEF FitsWindow
  <1>5. CASE stage' \notin {"trim", "filter"}
    BY <1>5 DEF FitsWindow
  <1>6. \/ KeepWhole \/ CutLast \/ Deduplicate \/ ApplyScores \/ RerankRaises
        \/ kept' = kept /\ limit' = limit /\ (stage' \in {"trim", "filter"} => stage \in {"trim", "filter"})
        \/ stage' \notin {"trim", "filter"}
    BY DEF Next, Retrieve, Insert, Delete, Search, Expand, ScoreBatch, AllKept, Filter, Generate,
           Answered, vars, question
  <1> QED  BY <1>1, <1>2, <1>3, <1>4, <1>5, <1>6

LEMMA FirstOnes ==
    ASSUME NEW S, NEW s, NEW n \in Nat \ {0}, \A i \in 1 .. n : s[i] \in S
    PROVE  /\ SubSeq(s, 1, n) \in Seq(S) /\ Len(SubSeq(s, 1, n)) = n
           /\ \A i \in 1 .. n : SubSeq(s, 1, n)[i] = s[i]
  BY SubSeqProperties

\* With the document that does not fit the first ones take more than the limit.
LEMMA TooMany ==
    ASSUME ConstantsAssumption, Typed, Trimming, Tokens(NextDoc) > Left,
           \A i \in 1 .. Len(kept) : kept[i] = docs[i]
    PROVE  Used(SubSeq(docs, 1, Len(kept) + 1)) > limit
  <1> DEFINE n == Len(kept) + 1
             es == SubSeq(docs, 1, n)
  <1>1. /\ Len(kept) \in Nat /\ n \in 1 .. Len(docs) /\ Tokens(NextDoc) \in Nat
        /\ Used(kept) \in Int /\ limit \in Int /\ kept \in Seq(Documents) /\ docs \in Seq(Documents)
    BY NextDocFacts, BySearchIsWhole DEF Typed
  <1>2. Len(docs) \in Nat /\ n \in Nat \ {0}
    BY <1>1, LenProperties, SMTT(20)
  <1>3. \A i \in 1 .. n : docs[i] \in Documents
    <2>1. \A i \in 1 .. n : i \in 1 .. Len(docs)
      BY <1>1, <1>2, SMTT(20)
    <2> QED  BY <1>1, <2>1, ElementOfSeq
  <1>4. /\ es \in Seq(Documents) /\ Len(es) = n
        /\ \A i \in 1 .. n : es[i] = docs[i]
    <2> HIDE DEF n
    <2> QED  BY <1>2, <1>3, FirstOnes, SMTT(20)
  <1> HIDE DEF es
  <1>5. \A i \in 1 .. Len(kept) : kept[i] = es[i]
    <2>1. \A i \in 1 .. Len(kept) : i \in 1 .. n
      BY <1>1
    <2> QED  BY <1>4, <2>1
  <1>6. Used(es) = Used(kept) + Tokens(es[n])
    BY <1>1, <1>4, <1>5, UsedOfOneMore
  <1>7. es[n] = NextDoc
    <2>1. n \in 1 .. n
      BY <1>2
    <2> QED  BY <1>4, <2>1 DEF NextDoc
  <1>8. Used(es) > limit
    BY <1>1, <1>6, <1>7, SMTT(20) DEF Left
  <1> QED  BY <1>8 DEF es

LEMMA BestKeptWholeStep ==
    ASSUME ConstantsAssumption, Typed, BestKeptWhole, [Next]_vars PROVE BestKeptWhole'
  <1> DEFINE TheFirst == \A i \in 1 .. Len(kept) : kept[i] = docs[i]
  <1>1. ASSUME Trimming
        PROVE  /\ TheFirst /\ DOMAIN kept = 1 .. Len(kept)
               /\ Len(kept) \in Nat /\ Len(docs) \in Nat /\ Len(kept) < Len(docs)
    <2>1. Len(kept) \in Nat /\ Len(docs) \in Nat /\ DOMAIN kept = 1 .. Len(kept)
      BY LenProperties DEF Typed
    <2> QED  BY <1>1, <2>1 DEF BestKeptWhole, Trimming
  <1>2. CASE KeepWhole
    <2>1. /\ Trimming /\ kept' = Append(kept, NextDoc) /\ docs' = docs /\ stage' = "trim"
      BY <1>2 DEF KeepWhole, Trimming
    <2>2. /\ Len(kept') = Len(kept) + 1 /\ DOMAIN kept' = 1 .. Len(kept) + 1
          /\ kept'[Len(kept) + 1] = docs[Len(kept) + 1]
          /\ \A i \in 1 .. Len(kept) : kept'[i] = docs[i]
      BY <1>1, <2>1, NextDocFacts, KeptOneMore DEF NextDoc
    <2>3. \A i \in DOMAIN kept' : kept'[i] = docs[i]
      <3>1. \A i \in 1 .. Len(kept) + 1 : i = Len(kept) + 1 \/ i \in 1 .. Len(kept)
        BY <1>1, <2>1
      <3> QED  BY <2>2, <3>1
    <2>4. Len(kept') <= Len(docs)
      BY <1>1, <2>1, <2>2
    <2> QED  BY <2>1, <2>3, <2>4 DEF BestKeptWhole
  <1>3. CASE CutLast
    <2>1. /\ Trimming /\ kept' = Append(kept, CutDoc) /\ docs' = docs /\ stage' = "filter"
          /\ limit' = limit /\ Tokens(NextDoc) > Left
      BY <1>3 DEF CutLast, CutDoc
    <2>2. /\ Len(kept') = Len(kept) + 1 /\ DOMAIN kept' = 1 .. Len(kept) + 1
          /\ \A i \in 1 .. Len(kept) : kept'[i] = docs[i]
      BY <1>1, <2>1, CutDocFacts, KeptOneMore
    <2>3. Used(SubSeq(docs, 1, Len(kept'))) > limit
      BY <1>1, <2>1, <2>2, TooMany
    <2>4. \A i \in DOMAIN kept' : kept'[i] = docs[i] \/ i = Len(kept')
      BY <1>1, <2>1, <2>2
    <2>5. Len(kept') <= Len(docs)
      BY <1>1, <2>1, <2>2
    <2> QED  BY <2>1, <2>3, <2>4, <2>5 DEF BestKeptWhole
  <1>4. CASE Deduplicate \/ ApplyScores \/ RerankRaises
    <2>1. kept' = <<>> /\ stage' # "filter" /\ Len(docs') \in Nat
      BY <1>4, StartOfTrim
    <2>2. Len(<<>>) = 0 /\ DOMAIN <<>> = {}
      OBVIOUS
    <2> QED  BY <2>1, <2>2 DEF BestKeptWhole
  <1>5. CASE AllKept
    <2>1. /\ stage = "trim" /\ Len(kept) = Len(docs) /\ kept' = kept /\ docs' = docs
      BY <1>5 DEF AllKept, question
    <2>2. \A i \in DOMAIN kept : kept[i] = docs[i]
      BY <2>1 DEF BestKeptWhole
    <2>3. Len(kept) <= Len(docs)
      BY <2>1 DEF BestKeptWhole
    <2> QED  BY <2>1, <2>2, <2>3 DEF BestKeptWhole
  <1>6. CASE kept' = kept /\ docs' = docs /\ limit' = limit /\ stage' = stage
    BY <1>6 DEF BestKeptWhole
  <1>7. CASE stage' \notin {"trim", "filter"}
    BY <1>7 DEF BestKeptWhole
  <1>8. \/ KeepWhole \/ CutLast \/ Deduplicate \/ ApplyScores \/ RerankRaises \/ AllKept
        \/ kept' = kept /\ docs' = docs /\ limit' = limit /\ stage' = stage
        \/ stage' \notin {"trim", "filter"}
    BY DEF Next, Retrieve, Insert, Delete, Search, Expand, ScoreBatch, Filter, Generate,
           Answered, vars, question
  <1> QED  BY <1>1, <1>2, <1>3, <1>4, <1>5, <1>6, <1>7, <1>8

Invariant == Typed /\ Expanded /\ OneScale /\ FitsWindow /\ BestKeptWhole

LEMMA InvariantInit == ASSUME ConstantsAssumption, Init PROVE Invariant
  <1>1. stage = "idle" /\ docs = <<>>
    BY DEF Init
  <1>2. Typed
    BY TypedInit
  <1>3. OneScale
    BY <1>1 DEF OneScale, ToSet
  <1> QED  BY <1>1, <1>2, <1>3
           DEF Invariant, Expanded, EveryCandidateOnce, PassagesApart, PassageSizeBounded,
               Searched, FitsWindow, BestKeptWhole

LEMMA InvariantStep == ASSUME ConstantsAssumption, Invariant, [Next]_vars PROVE Invariant'
  BY TypedStep, SearchedStep, OneScaleStep, FitsWindowStep, BestKeptWholeStep DEF Invariant

\* What holds at every step of a question, from its search to its prompt, while
\* other threads insert files into the store and delete them.
THEOREM RetrievalInvariant == ASSUME ConstantsAssumption PROVE Spec => []Invariant
  <1>1. Init => Invariant
    BY InvariantInit
  <1>2. Invariant /\ [Next]_vars => Invariant'
    BY InvariantStep
  <1> QED  BY <1>1, <1>2, PTL DEF Spec

LEMMA AnsweringRetrieves == AnsweringSpec => Spec
  <1>1. AnsweringInit => Init
    BY DEF AnsweringInit
  <1>2. [AnsweringNext]_allVars => [Next]_vars
    <2>1. ASSUME AnsweringNext PROVE [Next]_vars
      <3>1. CASE Retrieve
        BY <3>1 DEF Next
      <3>2. CASE AskModel
        BY <3>2 DEF AskModel, Next
      <3>3. CASE EndAnswer
        BY <3>3 DEF EndAnswer, Next
      <3>4. CASE Stream
        BY <3>4 DEF Stream
      <3> QED  BY <2>1, <3>1, <3>2, <3>3, <3>4 DEF AnsweringNext
    <2>2. ASSUME UNCHANGED allVars PROVE UNCHANGED vars
      BY <2>2 DEF allVars
    <2> QED  BY <2>1, <2>2
  <1> QED  BY <1>1, <1>2, PTL DEF AnsweringSpec, Spec

LEMMA AnsweringInvariant == ASSUME ConstantsAssumption PROVE AnsweringSpec => []Invariant
  BY AnsweringRetrieves, RetrievalInvariant

\* However files are inserted and deleted during a question, every candidate
\* of its search is in exactly one document of the result (the copy of the
\* metadata search_emb_async takes, process_group).
THEOREM CandidatesAreKept ==
    ASSUME ConstantsAssumption PROVE AnsweringSpec => []EveryCandidateOnce
  <1>1. Invariant => EveryCandidateOnce
    BY DEF Invariant, Expanded
  <1> QED  BY <1>1, AnsweringInvariant, PTL

\* The documents of a file are passages of it that do not touch
\* (separate_list, process_group).
THEOREM PassagesDoNotTouch ==
    ASSUME ConstantsAssumption PROVE AnsweringSpec => []PassagesApart
  <1>1. Invariant => PassagesApart
    BY DEF Invariant, Expanded
  <1> QED  BY <1>1, AnsweringInvariant, PTL

\* However wide candidates expand, and however their runs join, a passage is no
\* longer than is allowed to the candidates it covers (process_group).
THEOREM PassagesAreBounded ==
    ASSUME ConstantsAssumption PROVE AnsweringSpec => []PassageSizeBounded
  <1>1. Invariant => PassageSizeBounded
    BY DEF Invariant, Expanded
  <1> QED  BY <1>1, AnsweringInvariant, PTL

\* Documents are ranked by scores of one scale, also when the reranker fails
\* after some of its batches (predict, get_knowledge_based_answer).
THEOREM ScoresAreOfOneScale ==
    ASSUME ConstantsAssumption PROVE AnsweringSpec => []OneScale
  <1>1. Invariant => OneScale
    BY DEF Invariant
  <1> QED  BY <1>1, AnsweringInvariant, PTL

\* The documents of a prompt take no more tokens than are left for them
\* (reprocess_source_documents).
THEOREM DocumentsFit ==
    ASSUME ConstantsAssumption PROVE AnsweringSpec => []FitsWindow
  <1>1. Invariant => FitsWindow
    BY DEF Invariant
  <1> QED  BY <1>1, AnsweringInvariant, PTL

\* The prompt has the best documents whole, and only the last may be cut, for
\* want of room (reprocess_source_documents).
THEOREM BestAreKept ==
    ASSUME ConstantsAssumption PROVE AnsweringSpec => []BestKeptWhole
  <1>1. Invariant => BestKeptWhole
    BY DEF Invariant
  <1> QED  BY <1>1, AnsweringInvariant, PTL

=============================================================================
