-------------------------- MODULE TopicMatchProofs --------------------------
(***************************************************************************)
(* rtRouted_IsTopicMatch stays inside its two strings and computes the      *)
(* token-wise match, for all strings.                                      *)
(***************************************************************************)
EXTENDS TopicMatch, SequenceLemmas

\* What the loop knows at each test.  At "compare" the cursors point to the same
\* character or the loop breaks; only a character can be passed by both.
Inv ==
  /\ topic \in Seq(Chars)
  /\ exp \in Seq(Chars)
  /\ CursorsInside

LEMMA StringFacts ==
  ASSUME NEW s \in Seq(Chars), NEW p \in 1..End(s)
  PROVE  /\ Len(s) \in Nat
         /\ CharAt(s, p) # NUL => p + 1 \in 1..End(s)
         /\ CharAt(s, p) = NUL => p = End(s)
<1>1. Len(s) \in Nat
  BY LenProperties
<1>2. CASE p = End(s)
  BY <1>1, <1>2 DEF CharAt, End
<1>3. CASE p # End(s)
  <2>1. p \in 1..Len(s) /\ p + 1 \in 1..End(s)
    BY <1>1, <1>3 DEF End
  <2>2. s[p] \in Chars
    BY <2>1, ElementOfSeq
  <2>3. CharAt(s, p) \in Chars
    BY <1>3, <2>2 DEF CharAt
  <2> QED BY <1>1, <2>1, <2>3 DEF Chars, NUL
<1> QED BY <1>2, <1>3

LEMMA InitInv == Init => Inv
<1> SUFFICES ASSUME Init PROVE Inv
  OBVIOUS
<1>1. topic \in Seq(Chars) /\ exp \in Seq(Chars)
  BY StringsAssumption DEF Init
<1>2. Len(topic) \in Nat /\ Len(exp) \in Nat
  BY <1>1, LenProperties
<1> QED BY <1>1, <1>2 DEF Init, Inv, CursorsInside, End

LEMMA StepInv == Inv /\ [Next]_vars => Inv'
<1> SUFFICES ASSUME Inv, [Next]_vars PROVE Inv'
  OBVIOUS
<1>1. /\ Len(topic) \in Nat /\ Len(exp) \in Nat
      /\ CharAt(topic, t) # NUL => t + 1 \in 1..End(topic)
      /\ CharAt(exp, e) # NUL => e + 1 \in 1..End(exp)
      /\ End(topic) \in 1..End(topic)
  <2>1. topic \in Seq(Chars) /\ exp \in Seq(Chars) /\ t \in 1..End(topic) /\ e \in 1..End(exp)
    BY DEF Inv, CursorsInside
  <2>2. Len(topic) \in Nat /\ Len(exp) \in Nat
    BY <2>1, LenProperties
  <2>3. End(topic) \in 1..End(topic)
    BY <2>2 DEF End
  <2> QED BY <2>1, <2>2, <2>3, StringFacts
<1>2. NUL \notin {"*", ">", "."}
  BY DEF NUL
<1>3. CASE While
  BY <1>3 DEF While, Inv, CursorsInside
<1>4. CASE StarSkips
  BY <1>1, <1>4 DEF StarSkips, Inv, CursorsInside
<1>5. CASE StarEnds
  BY <1>1, <1>2, <1>5 DEF StarEnds, Inv, CursorsInside
<1>6. CASE Gt
  BY <1>1, <1>2, <1>6 DEF Gt, Inv, CursorsInside
<1>7. CASE Compare
  BY <1>1, <1>7 DEF Compare, Inv, CursorsInside
<1>8. CASE UNCHANGED vars
  BY <1>8 DEF vars, Inv, CursorsInside
<1> QED BY <1>3, <1>4, <1>5, <1>6, <1>7, <1>8 DEF Next

\* The loop never reads behind a terminator, whatever the topic and expression.
THEOREM CursorsStayInside == Spec => []CursorsInside
<1>1. Inv => CursorsInside
  BY DEF Inv
<1> QED BY <1>1, InitInv, StepInv, PTL DEF Spec

-----------------------------------------------------------------------------
(* Cuts and tokens.  Idx(s, p) counts the cuts before position p: the number *)
(* of the token that p is in.                                               *)

Idx(s, p) == Cardinality({q \in Cuts(s) : q < p})

LEMMA CutsAre ==
  ASSUME NEW s \in Seq(Chars)
  PROVE  /\ Len(s) \in Nat /\ End(s) \in Nat /\ End(s) >= 1 /\ End(s) = Len(s) + 1
         /\ IsFiniteSet(Cuts(s)) /\ Cardinality(Cuts(s)) \in Nat
         /\ 0 \in Cuts(s) /\ End(s) \in Cuts(s)
         /\ \A q \in Cuts(s) : q \in Nat /\ q \in 0..End(s)
         /\ \A p \in 1..Len(s) : p \in Cuts(s) <=> s[p] = "."
<1>1. Len(s) \in Nat /\ End(s) = Len(s) + 1
  BY LenProperties DEF End
<1>2. \A q \in Cuts(s) : q \in Nat /\ q \in 0..End(s)
  BY <1>1 DEF Cuts
<1>3. IsFiniteSet(Cuts(s)) /\ Cardinality(Cuts(s)) \in Nat
  <2>1. Cuts(s) \subseteq 0..End(s)
    BY <1>2
  <2>2. IsFiniteSet(0..End(s))
    BY <1>1, FS_Interval
  <2> QED BY <2>1, <2>2, FS_Subset, FS_CardinalityType
<1>4. \A p \in 1..Len(s) : p \in Cuts(s) <=> s[p] = "."
  <2> SUFFICES ASSUME NEW p \in 1..Len(s) PROVE p \in Cuts(s) <=> s[p] = "."
    OBVIOUS
  <2>1. p # 0 /\ p # End(s)
    BY <1>1
  <2> QED BY <2>1 DEF Cuts
<1> QED BY <1>1, <1>2, <1>3, <1>4 DEF Cuts

LEMMA IdxStep ==
  ASSUME NEW s \in Seq(Chars), NEW p \in Nat
  PROVE  /\ Idx(s, p) \in Nat
         /\ Idx(s, p + 1) = IF p \in Cuts(s) THEN Idx(s, p) + 1 ELSE Idx(s, p)
<1> DEFINE B(n) == {q \in Cuts(s) : q < n}
<1>1. IsFiniteSet(Cuts(s)) /\ \A q \in Cuts(s) : q \in Nat
  BY CutsAre
<1>2. IsFiniteSet(B(p))
  <2>1. B(p) \subseteq Cuts(s)
    OBVIOUS
  <2> QED BY <1>1, <2>1, FS_Subset
<1>a. \A q \in Cuts(s) : q < p + 1 <=> q < p \/ q = p
  BY <1>1
<1>b. ~(p < p) /\ p < p + 1
  OBVIOUS
<1>3. p \in Cuts(s) => B(p + 1) = B(p) \cup {p} /\ p \notin B(p)
  BY <1>a, <1>b
<1>4. p \notin Cuts(s) => B(p + 1) = B(p)
  BY <1>a
<1> HIDE DEF B
<1>5. Cardinality(B(p)) \in Nat
  BY <1>2, FS_CardinalityType
<1>6. p \in Cuts(s) => Cardinality(B(p + 1)) = Cardinality(B(p)) + 1
  BY <1>2, <1>3, FS_AddElement
<1> QED BY <1>4, <1>5, <1>6 DEF Idx, B

LEMMA IdxGrows ==
  ASSUME NEW s \in Seq(Chars), NEW p \in Nat, NEW q \in Nat
  PROVE  /\ p <= q => Idx(s, p) <= Idx(s, q)
         /\ p < q /\ p \in Cuts(s) => Idx(s, p) < Idx(s, q)
<1> DEFINE B(n) == {c \in Cuts(s) : c < n}
<1>1. IsFiniteSet(Cuts(s)) /\ \A c \in Cuts(s) : c \in Nat
  BY CutsAre
<1>2. \A n : IsFiniteSet(B(n))
  <2>1. \A n : B(n) \subseteq Cuts(s)
    OBVIOUS
  <2> HIDE DEF B
  <2> QED BY <1>1, <2>1, FS_Subset
<1>3. ASSUME NEW m \in Nat, NEW n \in Nat, m <= n PROVE Idx(s, m) <= Idx(s, n)
  <2>1. B(m) \subseteq B(n)
    <3> SUFFICES ASSUME NEW c \in Cuts(s), c < m PROVE c < n
      OBVIOUS
    <3> QED BY <1>1, <1>3
  <2> HIDE DEF B
  <2>2. Cardinality(B(m)) <= Cardinality(B(n))
    BY <1>2, <2>1, FS_Subset
  <2> QED BY <2>2 DEF Idx, B
<1>4. ASSUME p < q, p \in Cuts(s) PROVE Idx(s, p) < Idx(s, q)
  <2>1. Idx(s, p + 1) <= Idx(s, q) /\ p + 1 \in Nat
    BY <1>3, <1>4
  <2>2. Idx(s, p + 1) = Idx(s, p) + 1 /\ Idx(s, p) \in Nat /\ Idx(s, q) \in Nat
    BY <1>4, IdxStep
  <2> QED BY <2>1, <2>2
<1> QED BY <1>3, <1>4

\* The k-th cut is the one that k - 1 cuts come before.
LEMMA CutIs ==
  ASSUME NEW s \in Seq(Chars), NEW p \in Cuts(s), NEW k, k = Idx(s, p) + 1
  PROVE  Cut(s, k) = p
<1>1. \A q \in Cuts(s) : q \in Nat /\ Idx(s, q) \in Nat
  BY CutsAre, IdxStep
<1>2. \A q \in Cuts(s) : Idx(s, q) = Idx(s, p) => q = p
  <2> SUFFICES ASSUME NEW q \in Cuts(s), q # p PROVE Idx(s, q) # Idx(s, p)
    OBVIOUS
  <2>1. CASE q < p
    BY <1>1, <2>1, IdxGrows
  <2>2. CASE p < q
    BY <1>1, <2>2, IdxGrows
  <2> QED BY <1>1, <2>1, <2>2
<1>3. k - 1 = Idx(s, p)
  BY <1>1
<1>4. Cut(s, k) = CHOOSE q \in Cuts(s) : Idx(s, q) = k - 1
  BY DEF Cut, Idx
<1> QED BY <1>2, <1>3, <1>4

\* There are as many tokens as cuts, less one; the k-th cut is before p if p is in
\* the k-th token or in a later one.
LEMMA CutsInOrder ==
  ASSUME NEW s \in Seq(Chars)
  PROVE  /\ Idx(s, 0) = 0 /\ Idx(s, 1) = 1
         /\ Idx(s, End(s)) = Cardinality(Cuts(s)) - 1
         /\ \A k \in 1..Cardinality(Cuts(s)) : Cut(s, k) \in Cuts(s) /\ Idx(s, Cut(s, k)) = k - 1
         /\ \A k \in 1..Cardinality(Cuts(s)), p \in Nat : Cut(s, k) < p <=> k <= Idx(s, p)
<1>0. /\ End(s) \in Nat /\ 0 \in Cuts(s) /\ End(s) \in Cuts(s)
      /\ \A q \in Cuts(s) : q \in Nat /\ q <= End(s)
      /\ Cardinality(Cuts(s)) \in Nat
  BY CutsAre
<1>1. Idx(s, 0) = 0 /\ Idx(s, 1) = 1
  <2>1. {q \in Cuts(s) : q < 0} = {}
    BY <1>0
  <2>2. Idx(s, 0) = 0
    BY <2>1, FS_EmptySet DEF Idx
  <2>3. Idx(s, 0 + 1) = Idx(s, 0) + 1
    BY <1>0, IdxStep
  <2> QED BY <2>2, <2>3
<1>2. Idx(s, End(s) + 1) = Cardinality(Cuts(s))
  <2>1. {q \in Cuts(s) : q < End(s) + 1} = Cuts(s)
    BY <1>0
  <2> QED BY <2>1 DEF Idx
<1>3. Idx(s, End(s)) = Cardinality(Cuts(s)) - 1
  <2>1. Idx(s, End(s)) \in Nat /\ Idx(s, End(s) + 1) = Idx(s, End(s)) + 1
    BY <1>0, IdxStep
  <2> QED BY <1>2, <2>1
<1> DEFINE T == {n \in Nat : \A k \in 1..Idx(s, n) : \E c \in Cuts(s) : Idx(s, c) + 1 = k}
<1>4. 0 \in T
  BY <1>1
<1>5. ASSUME NEW n \in T PROVE n + 1 \in T
  <2>1. Idx(s, n) \in Nat /\ Idx(s, n + 1) = IF n \in Cuts(s) THEN Idx(s, n) + 1 ELSE Idx(s, n)
    BY IdxStep
  <2>2. ASSUME NEW k \in 1..Idx(s, n + 1) PROVE \E c \in Cuts(s) : Idx(s, c) + 1 = k
    <3>1. CASE k \in 1..Idx(s, n)
      BY <3>1
    <3>2. CASE k \notin 1..Idx(s, n)
      <4>1. n \in Cuts(s) /\ k = Idx(s, n) + 1
        BY <2>1, <3>2
      <4> QED BY <4>1
    <3> QED BY <3>1, <3>2
  <2> QED BY <2>2
<1>6. End(s) + 1 \in T
  <2> HIDE DEF T
  <2>1. Nat \subseteq T
    BY <1>4, <1>5, NatSetInduction
  <2> QED BY <1>0, <2>1
<1>7. ASSUME NEW k \in 1..Cardinality(Cuts(s))
      PROVE  Cut(s, k) \in Cuts(s) /\ Idx(s, Cut(s, k)) = k - 1
  <2>1. PICK c \in Cuts(s) : Idx(s, c) + 1 = k
    BY <1>2, <1>6
  <2>2. Cut(s, k) = c
    BY <2>1, CutIs
  <2>3. Idx(s, c) \in Nat
    BY <1>0, IdxStep
  <2> QED BY <2>1, <2>2, <2>3
<1> HIDE DEF T
<1>8. ASSUME NEW k \in 1..Cardinality(Cuts(s)), NEW p \in Nat
      PROVE  Cut(s, k) < p <=> k <= Idx(s, p)
  <2> DEFINE c == Cut(s, k)
  <2>1. c \in Nat /\ c \in Cuts(s) /\ Idx(s, c) = k - 1 /\ k \in Nat
    BY <1>0, <1>7
  <2>2. Idx(s, p) \in Nat
    BY IdxStep
  <2> HIDE DEF c
  <2>3. c < p => Idx(s, c) < Idx(s, p)
    BY <2>1, IdxGrows
  <2>4. p <= c => Idx(s, p) <= Idx(s, c)
    BY <2>1, IdxGrows
  <2>5. c < p <=> k <= Idx(s, p)
    BY <2>1, <2>2, <2>3, <2>4
  <2> QED BY <2>5 DEF c
<1> QED BY <1>1, <1>3, <1>7, <1>8

LEMMA TokenIs ==
  ASSUME NEW s \in Seq(Chars)
  PROVE  /\ Len(Tokens(s)) \in Nat /\ Len(Tokens(s)) = Cardinality(Cuts(s)) - 1
         /\ Idx(s, End(s)) = Len(Tokens(s))
         /\ Cut(s, 1) = 0 /\ Cut(s, Len(Tokens(s)) + 1) = End(s)
         /\ \A k \in 1..Len(Tokens(s)) :
              /\ Cut(s, k) \in Nat /\ Cut(s, k + 1) \in Nat
              /\ Cut(s, k) < Cut(s, k + 1) /\ Cut(s, k + 1) <= End(s)
              /\ \A p \in (Cut(s, k) + 1)..(Cut(s, k + 1) - 1) : p \in 1..Len(s) /\ s[p] # "."
              /\ Len(Tokens(s)[k]) = Cut(s, k + 1) - Cut(s, k) - 1
              /\ Tokens(s)[k] \in Seq(Chars)
              /\ \A j \in 1..(Cut(s, k + 1) - Cut(s, k) - 1) : Tokens(s)[k][j] = s[Cut(s, k) + j]
<1> DEFINE n == Cardinality(Cuts(s)) - 1
<1>0. /\ Len(s) \in Nat /\ End(s) \in Nat /\ End(s) >= 1 /\ End(s) = Len(s) + 1
      /\ 0 \in Cuts(s) /\ End(s) \in Cuts(s) /\ Cardinality(Cuts(s)) \in Nat
      /\ \A q \in Cuts(s) : q \in Nat /\ q \in 0..End(s)
      /\ \A p \in 1..Len(s) : p \in Cuts(s) <=> s[p] = "."
  BY CutsAre
<1>1. /\ Idx(s, 0) = 0 /\ Idx(s, End(s)) = n
      /\ \A k \in 1..Cardinality(Cuts(s)) : Cut(s, k) \in Cuts(s) /\ Idx(s, Cut(s, k)) = k - 1
      /\ \A k \in 1..Cardinality(Cuts(s)), p \in Nat : Cut(s, k) < p <=> k <= Idx(s, p)
  BY CutsInOrder
<1>2. n \in Nat
  BY <1>0, <1>1, IdxStep
<1>3. Cut(s, 1) = 0 /\ Cut(s, n + 1) = End(s)
  <2>1. Idx(s, 0) + 1 = 1 /\ Idx(s, End(s)) + 1 = n + 1
    BY <1>1
  <2> HIDE DEF n
  <2> QED BY <1>0, <2>1, CutIs
<1>4. Tokens(s) = [k \in 1..n |-> Token(s, k)]
  BY DEF Tokens
<1>5. Len(Tokens(s)) = n /\ \A k \in 1..n : Tokens(s)[k] = Token(s, k)
  <2> HIDE DEF n
  <2> QED BY <1>2, <1>4
<1>6. Cardinality(Cuts(s)) = n + 1
  BY <1>0
<1> HIDE DEF n
<1>7. ASSUME NEW k \in 1..n
      PROVE  /\ Cut(s, k) \in Nat /\ Cut(s, k + 1) \in Nat
             /\ Cut(s, k) < Cut(s, k + 1) /\ Cut(s, k + 1) <= End(s)
             /\ \A p \in (Cut(s, k) + 1)..(Cut(s, k + 1) - 1) : p \in 1..Len(s) /\ s[p] # "."
             /\ Len(Tokens(s)[k]) = Cut(s, k + 1) - Cut(s, k) - 1
             /\ Tokens(s)[k] \in Seq(Chars)
             /\ \A j \in 1..(Cut(s, k + 1) - Cut(s, k) - 1) : Tokens(s)[k][j] = s[Cut(s, k) + j]
  <2> DEFINE a == Cut(s, k)
             b == Cut(s, k + 1)
  <2>1. k \in 1..n + 1 /\ k + 1 \in 1..n + 1 /\ k \in Nat /\ k + 1 - 1 = k
    BY <1>2
  <2>2. /\ a \in Nat /\ b \in Nat /\ b \in Cuts(s) /\ b <= End(s) /\ Idx(s, b) = k
    BY <1>0, <1>1, <1>6, <2>1
  <2>3. a < b
    BY <1>1, <1>6, <2>1, <2>2
  <2>4. ASSUME NEW p \in (a + 1)..(b - 1) PROVE p \in 1..Len(s) /\ s[p] # "."
    <3>1. p \in Nat /\ a < p /\ p < b /\ p \in 1..Len(s)
      BY <1>0, <2>2
    <3>2. k <= Idx(s, p) /\ ~(k + 1 <= Idx(s, p))
      <4>1. a < p <=> k <= Idx(s, p)
        BY <1>1, <1>6, <2>1, <3>1
      <4>2. b < p <=> k + 1 <= Idx(s, p)
        BY <1>1, <1>6, <2>1, <3>1
      <4>3. ~(b < p)
        BY <2>2, <3>1
      <4> QED BY <3>1, <4>1, <4>2, <4>3
    <3>3. p \notin Cuts(s)
      <4>1. SUFFICES ASSUME p \in Cuts(s) PROVE FALSE
        OBVIOUS
      <4>2. Idx(s, p) < Idx(s, b) /\ Idx(s, p) \in Nat
        BY <2>2, <3>1, <4>1, IdxGrows, IdxStep
      <4> QED BY <2>1, <2>2, <3>2, <4>2
    <3> QED BY <1>0, <3>1, <3>3
  <2>5. Tokens(s)[k] = SubSeq(s, a + 1, b - 1)
    BY <1>5 DEF Token
  <2> HIDE DEF a, b
  <2> DEFINE q == SubSeq(s, a + 1, b - 1)
  <2>6. /\ q \in Seq(Chars) /\ Len(q) = b - a - 1
        /\ \A j \in 1..b - a - 1 : q[j] = s[a + j]
    <3> DEFINE m == a + 1
               n1 == b - 1
    <3>1. m \in Int /\ n1 \in Int /\ (m <= n1 => n1 - m + 1 = b - a - 1)
          /\ (~(m <= n1) => b - a - 1 = 0) /\ n1 - m + 1 = b - a - 1
          /\ \A j \in 1..b - a - 1 : m + j - 1 = a + j
      BY <2>2, <2>3
    <3>2. \A p \in m..n1 : s[p] \in Chars
      BY <2>4, ElementOfSeq DEF a, b
    <3> HIDE DEF m, n1
    <3>3. /\ SubSeq(s, m, n1) \in Seq(Chars)
          /\ Len(SubSeq(s, m, n1)) = IF m <= n1 THEN n1 - m + 1 ELSE 0
          /\ \A j \in 1..n1 - m + 1 : SubSeq(s, m, n1)[j] = s[m + j - 1]
      BY <3>1, <3>2, SubSeqProperties
    <3>4. q = SubSeq(s, m, n1)
      BY DEF m, n1
    <3> HIDE DEF q
    <3> QED BY <3>1, <3>3, <3>4
  <2> QED BY <2>2, <2>3, <2>4, <2>5, <2>6 DEF a, b
<1> QED BY <1>0, <1>1, <1>2, <1>3, <1>5, <1>6, <1>7

\* Where a position is: in the token that the cuts before it give.
LEMMA PlaceOf ==
  ASSUME NEW s \in Seq(Chars), NEW p \in 1..End(s), NEW k, k = Idx(s, p)
  PROVE  /\ k \in 1..Len(Tokens(s))
         /\ Cut(s, k) \in Nat /\ Cut(s, k + 1) \in Nat
         /\ Cut(s, k) < p /\ p <= Cut(s, k + 1)
         /\ p = Cut(s, k + 1) <=> p = End(s) \/ s[p] = "."
         /\ Idx(s, p + 1) = IF p = Cut(s, k + 1) THEN k + 1 ELSE k
<1>0. /\ Len(s) \in Nat /\ End(s) \in Nat /\ End(s) >= 1 /\ End(s) = Len(s) + 1 /\ p \in Nat
      /\ 0 \in Cuts(s) /\ End(s) \in Cuts(s) /\ Cardinality(Cuts(s)) \in Nat
      /\ \A q \in Cuts(s) : q \in Nat
      /\ \A q \in 1..Len(s) : q \in Cuts(s) <=> s[q] = "."
  BY CutsAre
<1>1. /\ Idx(s, 1) = 1 /\ Idx(s, End(s)) = Cardinality(Cuts(s)) - 1
      /\ \A j \in 1..Cardinality(Cuts(s)) : Cut(s, j) \in Cuts(s) /\ Idx(s, Cut(s, j)) = j - 1
      /\ \A j \in 1..Cardinality(Cuts(s)), q \in Nat : Cut(s, j) < q <=> j <= Idx(s, q)
      /\ Len(Tokens(s)) = Cardinality(Cuts(s)) - 1
  BY CutsInOrder, TokenIs
<1>2. k \in Nat /\ Idx(s, p + 1) = IF p \in Cuts(s) THEN k + 1 ELSE k
  BY <1>0, IdxStep
<1>3. 1 <= k /\ k <= Cardinality(Cuts(s)) - 1
  BY <1>0, <1>1, <1>2, IdxGrows
<1>4. k \in 1..Cardinality(Cuts(s)) /\ k + 1 \in 1..Cardinality(Cuts(s))
  BY <1>0, <1>2, <1>3
<1>5. /\ Cut(s, k) \in Nat /\ Cut(s, k + 1) \in Nat
      /\ Cut(s, k) < p /\ ~(Cut(s, k + 1) < p)
  BY <1>0, <1>1, <1>2, <1>4
<1>6. p \in Cuts(s) <=> p = Cut(s, k + 1)
  <2>1. p \in Cuts(s) => Cut(s, k + 1) = p
    BY CutIs
  <2> QED BY <1>1, <1>4, <2>1
<1>7. p \in Cuts(s) <=> p = End(s) \/ s[p] = "."
  <2>1. CASE p = End(s)
    BY <1>0, <2>1
  <2>2. CASE p # End(s)
    <3>1. p \in 1..Len(s)
      BY <1>0, <2>2
    <3> QED BY <1>0, <2>2, <3>1
  <2> QED BY <2>1, <2>2
<1> QED BY <1>0, <1>1, <1>2, <1>3, <1>4, <1>5, <1>6, <1>7

-----------------------------------------------------------------------------
(* Two strings read side by side.  The cursors are in tokens of the same     *)
(* number, and the tokens before match.                                      *)

IsMatch(tp, ex, k) == Tokens(ex)[k] = <<"*">> \/ Tokens(ex)[k] = Tokens(tp)[k]

Both(tp, ex, p, q) ==
  /\ tp \in Seq(Chars) /\ ex \in Seq(Chars)
  /\ p \in 1..End(tp) /\ q \in 1..End(ex)
  /\ Idx(ex, q) = Idx(tp, p)
  /\ \A k \in 1..(Idx(tp, p) - 1) : IsMatch(tp, ex, k)

\* What was read of the two tokens is the same.
Same(tp, ex, a, b, n) == \A j \in 1..n : tp[a + j] = ex[b + j]
InToken(tp, ex, p, q) ==
  LET a == Cut(tp, Idx(tp, p))
      b == Cut(ex, Idx(tp, p))
  IN  /\ Both(tp, ex, p, q)
      /\ p - a = q - b
      /\ Same(tp, ex, a, b, p - a - 1)

\* Both tokens are read, and they match.
TokensRead(tp, ex, p, q) ==
  LET k == Idx(tp, p)
  IN  /\ Both(tp, ex, p, q)
      /\ p = Cut(tp, k + 1) /\ q = Cut(ex, k + 1)
      /\ IsMatch(tp, ex, k)

\* What position p of s, in token k, says of the characters and cuts around it.
At(s, p, k) ==
  /\ s \in Seq(Chars) /\ p \in Nat /\ k \in Nat
  /\ Len(s) \in Nat /\ End(s) = Len(s) + 1 /\ p \in 1..End(s)
  /\ Len(Tokens(s)) \in Nat /\ k \in 1..Len(Tokens(s))
  /\ Cut(s, k) \in Nat /\ Cut(s, k + 1) \in Nat
  /\ Cut(s, k) < p /\ p <= Cut(s, k + 1)
  /\ p = Cut(s, k + 1) <=> CharAt(s, p) \in {NUL, "."}
  /\ CharAt(s, p) = NUL <=> p = End(s)
  /\ p # End(s) => p \in 1..Len(s) /\ p + 1 \in 1..End(s) /\ CharAt(s, p) = s[p]
  /\ p = End(s) => k = Len(Tokens(s))
  /\ p = Cut(s, k + 1) /\ p # End(s) => k # Len(Tokens(s))
  /\ Idx(s, p + 1) = IF p = Cut(s, k + 1) THEN k + 1 ELSE k

LEMMA AtPosition ==
  ASSUME NEW s \in Seq(Chars), NEW p \in 1..End(s), NEW k, k = Idx(s, p)
  PROVE  At(s, p, k)
<1>1. Len(s) \in Nat /\ End(s) = Len(s) + 1
  BY CutsAre
<1>2. /\ k \in 1..Len(Tokens(s))
      /\ Cut(s, k) \in Nat /\ Cut(s, k + 1) \in Nat
      /\ Cut(s, k) < p /\ p <= Cut(s, k + 1)
      /\ p = Cut(s, k + 1) <=> p = End(s) \/ s[p] = "."
      /\ Idx(s, p + 1) = IF p = Cut(s, k + 1) THEN k + 1 ELSE k
  BY PlaceOf
<1>3. /\ Len(Tokens(s)) \in Nat /\ Idx(s, End(s)) = Len(Tokens(s))
      /\ Cut(s, Len(Tokens(s)) + 1) = End(s)
  BY TokenIs
<1>4. p # End(s) => /\ p \in 1..Len(s) /\ p + 1 \in 1..End(s) /\ CharAt(s, p) = s[p]
                    /\ s[p] \in Chars
  <2>1. p # End(s) => p \in 1..Len(s) /\ p + 1 \in 1..End(s)
    BY <1>1
  <2> QED BY <2>1, ElementOfSeq DEF CharAt
<1>5. CharAt(s, p) = NUL <=> p = End(s)
  BY <1>4 DEF CharAt, Chars, NUL
<1>6. p = Cut(s, k + 1) <=> CharAt(s, p) \in {NUL, "."}
  BY <1>2, <1>4, <1>5
<1>7. p = Cut(s, k + 1) /\ p # End(s) => k # Len(Tokens(s))
  BY <1>3
<1> QED BY <1>1, <1>2, <1>3, <1>4, <1>5, <1>6, <1>7 DEF At

LEMMA BothAt ==
  ASSUME NEW tp, NEW ex, NEW p, NEW q, Both(tp, ex, p, q), NEW k, k = Idx(tp, p)
  PROVE  At(tp, p, k) /\ At(ex, q, k)
BY AtPosition DEF Both

\* Two tokens that are the same where they were read, up to their ends.
LEMMA SameToken ==
  ASSUME NEW tp, NEW ex, NEW p, NEW q, InToken(tp, ex, p, q),
         p = Cut(tp, Idx(tp, p) + 1), q = Cut(ex, Idx(tp, p) + 1)
  PROVE  TokensRead(tp, ex, p, q) /\ Tokens(ex)[Idx(tp, p)] = Tokens(tp)[Idx(tp, p)]
<1>k. PICK k : k = Idx(tp, p)
  OBVIOUS
<1> DEFINE a == Cut(tp, k)
           b == Cut(ex, k)
<1>1. /\ Both(tp, ex, p, q) /\ p - a = q - b
      /\ \A j \in 1..(p - a - 1) : tp[a + j] = ex[b + j]
  BY <1>k DEF InToken, Same
<1>2. /\ tp \in Seq(Chars) /\ ex \in Seq(Chars)
      /\ k \in 1..Len(Tokens(tp)) /\ k \in 1..Len(Tokens(ex))
  BY <1>1, <1>k, BothAt DEF At
<1>0. p = Cut(tp, k + 1) /\ q = Cut(ex, k + 1)
  BY <1>k
<1> DEFINE n == p - a - 1
<1>3. /\ Len(Tokens(tp)[k]) = n /\ Tokens(tp)[k] \in Seq(Chars)
      /\ \A j \in 1..n : Tokens(tp)[k][j] = tp[a + j]
  BY <1>0, <1>2, TokenIs
<1>4. /\ Len(Tokens(ex)[k]) = n /\ Tokens(ex)[k] \in Seq(Chars)
      /\ \A j \in 1..n : Tokens(ex)[k][j] = ex[b + j]
  BY <1>0, <1>1, <1>2, TokenIs
<1>5. \A j \in 1..n : tp[a + j] = ex[b + j]
  BY <1>1
<1> HIDE DEF n, a, b
<1>6. Tokens(ex)[k] = Tokens(tp)[k]
  BY <1>3, <1>4, <1>5, SeqEqual
<1> QED BY <1>1, <1>6, <1>k DEF TokensRead, IsMatch

\* Past the dots that end two matching tokens.
LEMMA NextTokens ==
  ASSUME NEW tp, NEW ex, NEW p, NEW q, TokensRead(tp, ex, p, q), p # End(tp), q # End(ex)
  PROVE  InToken(tp, ex, p + 1, q + 1)
<1>k. PICK k : k = Idx(tp, p)
  OBVIOUS
<1>1. /\ Both(tp, ex, p, q) /\ p = Cut(tp, k + 1) /\ q = Cut(ex, k + 1) /\ IsMatch(tp, ex, k)
  BY <1>k DEF TokensRead
<1>2. /\ tp \in Seq(Chars) /\ ex \in Seq(Chars) /\ p \in Nat /\ q \in Nat /\ k \in Nat
      /\ p + 1 \in 1..End(tp) /\ q + 1 \in 1..End(ex)
  BY <1>1, <1>k, BothAt DEF At
<1>3. Idx(tp, p + 1) = k + 1 /\ Idx(ex, q + 1) = k + 1
  BY <1>1, <1>k, BothAt DEF At
<1>4. \A j \in 1..(k + 1 - 1) : IsMatch(tp, ex, j)
  <2>1. \A j \in 1..(k - 1) : IsMatch(tp, ex, j)
    BY <1>1, <1>k DEF Both
  <2>2. \A j \in 1..(k + 1 - 1) : j = k \/ j \in 1..(k - 1)
    BY <1>2
  <2> QED BY <1>1, <2>1, <2>2
<1>5. Both(tp, ex, p + 1, q + 1)
  BY <1>2, <1>3, <1>4 DEF Both
<1>m. PICK m : m = k + 1
  OBVIOUS
<1> DEFINE a == Cut(tp, m)
           b == Cut(ex, m)
<1>6. a = p /\ b = q
  BY <1>1, <1>m
<1> HIDE DEF a, b
<1>7. p + 1 - a = q + 1 - b /\ p + 1 - a - 1 = 0
  BY <1>2, <1>6
<1>8. Same(tp, ex, a, b, p + 1 - a - 1)
  BY <1>7 DEF Same
<1>9. a \in Nat /\ b \in Nat
  BY <1>2, <1>6
<1>10. Cut(tp, Idx(tp, p + 1)) = a /\ Cut(ex, Idx(tp, p + 1)) = b
  BY <1>3, <1>m DEF a, b
<1> QED BY <1>2, <1>5, <1>7, <1>8, <1>9, <1>10 DEF InToken

\* Past the same character inside two tokens.
LEMMA NextChars ==
  ASSUME NEW tp, NEW ex, NEW p, NEW q, InToken(tp, ex, p, q),
         CharAt(tp, p) = CharAt(ex, q), CharAt(tp, p) \notin {NUL, "."}
  PROVE  InToken(tp, ex, p + 1, q + 1)
<1>k. PICK k : k = Idx(tp, p)
  OBVIOUS
<1> DEFINE a == Cut(tp, k)
           b == Cut(ex, k)
<1>1. /\ Both(tp, ex, p, q) /\ p - a = q - b
      /\ \A j \in 1..(p - a - 1) : tp[a + j] = ex[b + j]
  BY <1>k DEF InToken, Same
<1>a. At(tp, p, k) /\ At(ex, q, k)
  BY <1>1, <1>k, BothAt
<1>2. /\ tp \in Seq(Chars) /\ ex \in Seq(Chars) /\ p \in Nat /\ q \in Nat /\ k \in Nat
      /\ p + 1 \in 1..End(tp) /\ q + 1 \in 1..End(ex)
      /\ a \in Nat /\ b \in Nat /\ a < p /\ b < q
      /\ tp[p] = ex[q] /\ p # Cut(tp, k + 1) /\ q # Cut(ex, k + 1)
  <2>1. CharAt(tp, p) # NUL /\ CharAt(ex, q) \notin {NUL, "."}
    OBVIOUS
  <2> QED BY <1>a, <2>1 DEF At
<1>3. Idx(tp, p + 1) = k /\ Idx(ex, q + 1) = k
  BY <1>2, <1>a DEF At
<1>4. Both(tp, ex, p + 1, q + 1)
  BY <1>1, <1>2, <1>3, <1>k DEF Both
<1> HIDE DEF a, b
<1>5. /\ p + 1 - a = q + 1 - b
      /\ Same(tp, ex, a, b, p + 1 - a - 1)
  <2>1. p + 1 - a = q + 1 - b
    BY <1>1, <1>2
  <2>2. ASSUME NEW j \in 1..(p + 1 - a - 1) PROVE tp[a + j] = ex[b + j]
    <3>1. CASE j = p - a
      <4>1. a + j = p /\ b + j = q
        BY <1>1, <1>2, <3>1
      <4> QED BY <1>2, <4>1
    <3>2. CASE j # p - a
      <4>1. j \in 1..(p - a - 1)
        BY <1>2, <3>2
      <4> QED BY <1>1, <4>1
    <3> QED BY <3>1, <3>2
  <2> QED BY <2>1, <2>2 DEF Same
<1>6. Cut(tp, Idx(tp, p + 1)) = a /\ Cut(ex, Idx(tp, p + 1)) = b
  BY <1>3 DEF a, b
<1>7. p \in Nat /\ q \in Nat /\ a \in Nat /\ b \in Nat
  BY <1>2
<1> QED BY <1>4, <1>5, <1>6, <1>7 DEF InToken

-----------------------------------------------------------------------------
(* What the tokens say of the match.                                         *)

\* A wildcard is all of its token, and '>' is the last token.
LEMMA Wildcard ==
  ASSUME NEW s, NEW p, NEW k, At(s, p, k), WellFormedExp(s), CharAt(s, p) \in {"*", ">"}
  PROVE  /\ p = Cut(s, k) + 1 /\ p + 1 = Cut(s, k + 1) /\ p + 1 \in 1..End(s)
         /\ Tokens(s)[k] = <<CharAt(s, p)>>
         /\ CharAt(s, p) = ">" => k = Len(Tokens(s)) /\ p + 1 = End(s)
<1>1. /\ s \in Seq(Chars) /\ p \in Nat /\ k \in 1..Len(Tokens(s)) /\ Cut(s, k) \in Nat
      /\ Cut(s, k + 1) \in Nat /\ Cut(s, k) < p /\ p <= Cut(s, k + 1)
      /\ p # Cut(s, k + 1) /\ p # End(s) /\ p + 1 \in 1..End(s) /\ CharAt(s, p) = s[p]
  BY DEF At, NUL
<1> DEFINE a == Cut(s, k)
           b == Cut(s, k + 1)
           tok == Tokens(s)[k]
<1>2. /\ Len(tok) = b - a - 1 /\ tok \in Seq(Chars)
      /\ \A j \in 1..(b - a - 1) : tok[j] = s[a + j]
  BY <1>1, TokenIs
<1>3. /\ \A j \in 1..Len(tok) : tok[j] \in {"*", ">"} => Len(tok) = 1
      /\ tok = <<">">> => k = Len(Tokens(s))
  BY <1>1 DEF WellFormedExp
<1> HIDE DEF a, b, tok
<1>4. /\ a \in Nat /\ b \in Nat /\ a < p /\ p < b
      /\ p - a \in 1..(b - a - 1) /\ a + (p - a) = p
  BY <1>1 DEF a, b
<1>5. Len(tok) = 1 /\ b - a - 1 = 1
  BY <1>1, <1>2, <1>3, <1>4
<1>6. p = a + 1 /\ p + 1 = b
  BY <1>1, <1>4, <1>5
<1>7. tok[1] = s[p]
  BY <1>2, <1>5, <1>6
<1>8. tok = <<s[p]>>
  <2>1. s[p] \in Chars
    BY <1>1 DEF Chars
  <2>2. tok[1] = <<s[p]>>[1] /\ <<s[p]>> \in Seq(Chars) /\ Len(<<s[p]>>) = 1
    BY <1>7, <2>1
  <2>3. \A j \in 1..1 : tok[j] = <<s[p]>>[j]
    BY <2>2
  <2> QED BY <1>2, <1>5, <2>2, <2>3, SeqEqual
<1>9. CharAt(s, p) = ">" => k = Len(Tokens(s)) /\ b = End(s)
  <2>1. CharAt(s, p) = ">" => k = Len(Tokens(s))
    BY <1>1, <1>3, <1>8
  <2>2. Cut(s, Len(Tokens(s)) + 1) = End(s)
    BY <1>1, TokenIs
  <2> QED BY <2>1, <2>2 DEF b
<1> QED BY <1>1, <1>6, <1>8, <1>9 DEF a, b, tok

\* A published topic has no wildcard token, and its end is not an empty token.
LEMMA PublishedTopic ==
  ASSUME NEW s, NEW p, NEW k, At(s, p, k), WellFormedTopic(s)
  PROVE  /\ CharAt(s, p) \notin {"*", ">"}
         /\ Tokens(s)[k] \notin {<<"*">>, <<">">>}
         /\ p = End(s) => p # Cut(s, k) + 1
<1>1. /\ s \in Seq(Chars) /\ p \in Nat /\ k \in 1..Len(Tokens(s)) /\ k \in Nat
      /\ Cut(s, k) \in Nat /\ Cut(s, k + 1) \in Nat
      /\ Cut(s, k) < p /\ p <= Cut(s, k + 1) /\ Len(s) \in Nat /\ End(s) = Len(s) + 1
      /\ CharAt(s, p) = NUL <=> p = End(s)
      /\ p # End(s) => p \in 1..Len(s) /\ CharAt(s, p) = s[p]
  BY DEF At
<1>2. (\A j \in 1..Len(s) : s[j] \notin {"*", ">"}) /\ s # <<>> /\ s[Len(s)] # "."
  BY DEF WellFormedTopic
<1>3. CharAt(s, p) \notin {"*", ">"}
  BY <1>1, <1>2 DEF NUL
<1>4. ASSUME NEW w \in {"*", ">"}, Tokens(s)[k] = <<w>> PROVE FALSE
  <2>1. /\ Len(Tokens(s)[k]) = Cut(s, k + 1) - Cut(s, k) - 1
        /\ \A j \in 1..(Cut(s, k + 1) - Cut(s, k) - 1) : Tokens(s)[k][j] = s[Cut(s, k) + j]
        /\ Cut(s, k + 1) <= End(s)
    BY <1>1, TokenIs
  <2>2. Len(<<w>>) = 1 /\ <<w>>[1] = w
    OBVIOUS
  <2>3. Cut(s, k + 1) - Cut(s, k) - 1 = 1
    BY <1>4, <2>1, <2>2
  <2>4. s[Cut(s, k) + 1] = w
    BY <1>4, <2>1, <2>2, <2>3
  <2>5. Cut(s, k) + 1 \in 1..Len(s)
    BY <1>1, <2>1, <2>3
  <2> QED BY <1>2, <2>4, <2>5
<1>5. ASSUME p = End(s), p = Cut(s, k) + 1 PROVE FALSE
  <2>1. Cut(s, k) = Len(s) /\ Len(s) \in 1..Len(s)
    BY <1>1, <1>2, <1>5, EmptySeq
  <2>2. Cut(s, k) \in Cuts(s)
    <3>1. k \in 1..Cardinality(Cuts(s))
      BY <1>1, TokenIs, CutsAre
    <3> QED BY <1>1, <3>1, CutsInOrder
  <2>3. s[Len(s)] = "."
    BY <1>1, <2>1, <2>2, CutsAre
  <2> QED BY <1>2, <2>3
<1> QED BY <1>3, <1>4, <1>5

\* Both ends are reached, and no rest is to be taken.
LEMMA MatchedEnd ==
  ASSUME NEW tp, NEW ex, NEW p, NEW q, TokensRead(tp, ex, p, q), p = End(tp), q = End(ex),
         Tokens(ex)[Idx(tp, p)] # <<">">>
  PROVE  Matches(tp, ex)
<1>k. PICK k : k = Idx(tp, p)
  OBVIOUS
<1>1. /\ Both(tp, ex, p, q) /\ IsMatch(tp, ex, k) /\ Tokens(ex)[k] # <<">">>
  BY <1>k DEF TokensRead
<1>2. k = Len(Tokens(tp)) /\ k = Len(Tokens(ex)) /\ k \in Nat
  BY <1>1, <1>k, BothAt DEF At
<1>3. \A j \in 1..k : IsMatch(tp, ex, j)
  <2>1. \A j \in 1..(k - 1) : IsMatch(tp, ex, j)
    BY <1>1, <1>k DEF Both
  <2>2. \A j \in 1..k : j = k \/ j \in 1..(k - 1)
    BY <1>2
  <2> QED BY <1>1, <2>1, <2>2
<1> QED BY <1>1, <1>2, <1>3 DEF Matches, IsMatch

\* '>' takes the rest of the topic.
LEMMA MatchedRest ==
  ASSUME NEW tp, NEW ex, NEW p, NEW q, Both(tp, ex, p, q), CharAt(ex, q) = ">",
         WellFormedExp(ex)
  PROVE  Matches(tp, ex)
<1>k. PICK k : k = Idx(tp, p)
  OBVIOUS
<1>1. At(tp, p, k) /\ At(ex, q, k)
  BY <1>k, BothAt
<1>2. k = Len(Tokens(ex)) /\ Tokens(ex)[k] = <<">">>
  BY <1>1, Wildcard
<1>3. k \in Nat /\ k \in 1..Len(Tokens(tp)) /\ Len(Tokens(tp)) \in Nat
  BY <1>1 DEF At
<1>4. \A j \in 1..(k - 1) : IsMatch(tp, ex, j)
  BY <1>k DEF Both
<1>5. Len(Tokens(tp)) > k - 1
  BY <1>3
<1> QED BY <1>2, <1>4, <1>5 DEF Matches, IsMatch

\* One string has a token more.
LEMMA EndsApart ==
  ASSUME NEW tp, NEW ex, NEW p, NEW q, Both(tp, ex, p, q),
         CharAt(tp, p) \in {NUL, "."}, CharAt(ex, q) \in {NUL, "."},
         CharAt(tp, p) # CharAt(ex, q), Tokens(ex)[Idx(tp, p)] # <<">">>
  PROVE  ~Matches(tp, ex)
<1>k. PICK k : k = Idx(tp, p)
  OBVIOUS
<1>1. /\ k \in Nat /\ Len(Tokens(tp)) \in Nat /\ Len(Tokens(ex)) \in Nat
      /\ k \in 1..Len(Tokens(tp)) /\ k \in 1..Len(Tokens(ex))
      /\ CharAt(tp, p) = NUL => k = Len(Tokens(tp)) /\ k # Len(Tokens(ex))
      /\ CharAt(ex, q) = NUL => k = Len(Tokens(ex)) /\ k # Len(Tokens(tp))
  <2>1. At(tp, p, k) /\ At(ex, q, k)
    BY <1>k, BothAt
  <2>2. CharAt(tp, p) = NUL => CharAt(ex, q) # NUL
    OBVIOUS
  <2> QED BY <2>1, <2>2 DEF At
<1>2. CASE CharAt(tp, p) = NUL
  BY <1>1, <1>2 DEF Matches
<1>3. CASE CharAt(ex, q) = NUL
  BY <1>1, <1>3, <1>k DEF Matches
<1> QED BY <1>2, <1>3

\* A token of the topic is not what the expression has in its place.
LEMMA TokensDiffer ==
  ASSUME NEW tp, NEW ex, NEW p, NEW q, InToken(tp, ex, p, q),
         CharAt(tp, p) # CharAt(ex, q), CharAt(ex, q) \notin {"*", ">"},
         CharAt(tp, p) \notin {NUL, "."} \/ CharAt(ex, q) \notin {NUL, "."},
         WellFormedTopic(tp)
  PROVE  ~Matches(tp, ex)
<1>k. PICK k : k = Idx(tp, p)
  OBVIOUS
<1> DEFINE a == Cut(tp, k)
           b == Cut(ex, k)
           c == Cut(tp, k + 1)
           d == Cut(ex, k + 1)
           tt == Tokens(tp)[k]
           et == Tokens(ex)[k]
<1>1. /\ Both(tp, ex, p, q) /\ p - a = q - b
      /\ \A j \in 1..(p - a - 1) : tp[a + j] = ex[b + j]
  BY <1>k DEF InToken, Same
<1>2. At(tp, p, k) /\ At(ex, q, k)
  BY <1>1, <1>k, BothAt
<1>3. /\ tp \in Seq(Chars) /\ p \in Nat /\ k \in Nat /\ k \in 1..Len(Tokens(tp))
      /\ Len(Tokens(tp)) \in Nat /\ a \in Nat /\ c \in Nat /\ a < p /\ p <= c
      /\ p = c <=> CharAt(tp, p) \in {NUL, "."}
      /\ p # c => CharAt(tp, p) = tp[p]
  BY <1>2 DEF At
<1>4. /\ ex \in Seq(Chars) /\ q \in Nat /\ k \in 1..Len(Tokens(ex))
      /\ Len(Tokens(ex)) \in Nat /\ b \in Nat /\ d \in Nat /\ b < q /\ q <= d
      /\ q = d <=> CharAt(ex, q) \in {NUL, "."}
      /\ q # d => CharAt(ex, q) = ex[q]
  BY <1>2 DEF At
<1>5. Len(tt) = c - a - 1 /\ \A j \in 1..(c - a - 1) : tt[j] = tp[a + j]
  BY <1>3, TokenIs
<1>6. Len(et) = d - b - 1 /\ \A j \in 1..(d - b - 1) : et[j] = ex[b + j]
  BY <1>4, TokenIs
<1>7. \A j \in 1..(c - a - 1) : tp[a + j] \notin {"*", ">"}
  <2> SUFFICES ASSUME NEW j \in 1..(c - a - 1) PROVE tp[a + j] \notin {"*", ">"}
    OBVIOUS
  <2>1. c <= End(tp) /\ End(tp) = Len(tp) + 1 /\ Len(tp) \in Nat
    BY <1>3, TokenIs, CutsAre
  <2> HIDE DEF a, c
  <2>2. a + j \in 1..Len(tp)
    BY <1>3, <2>1
  <2> QED BY <2>2 DEF WellFormedTopic
<1> HIDE DEF a, b, c, d, tt, et
<1>8. et # tt
  <2> SUFFICES ASSUME et = tt PROVE FALSE
    OBVIOUS
  <2>1. c - a = d - b
    BY <1>3, <1>4, <1>5, <1>6
  <2>2. p # c /\ q # d
    BY <1>1, <1>3, <1>4, <2>1
  <2>3. p - a \in 1..(c - a - 1) /\ a + (p - a) = p /\ b + (p - a) = q
    BY <1>1, <1>3, <1>4, <2>2
  <2>4. tt[p - a] = tp[p] /\ et[p - a] = ex[q]
    BY <1>5, <1>6, <2>1, <2>3
  <2> QED BY <1>3, <1>4, <2>2, <2>4
<1>9. ASSUME NEW w \in {"*", ">"}, et = <<w>> PROVE FALSE
  <2>1. Len(<<w>>) = 1 /\ <<w>>[1] = w
    OBVIOUS
  <2>2. d - b - 1 = 1
    BY <1>6, <1>9, <2>1
  <2>3. ex[b + 1] = w
    BY <1>6, <1>9, <2>1, <2>2
  <2>4. CASE q = b + 1
    <3>1. q # d
      BY <1>4, <2>2, <2>4
    <3> QED BY <1>4, <2>3, <2>4, <3>1
  <2>5. CASE q # b + 1
    <3>1. p - a = 2 /\ 1 \in 1..(p - a - 1) /\ 1 \in 1..(c - a - 1)
      BY <1>1, <1>3, <1>4, <2>2, <2>5
    <3>2. tp[a + 1] = w
      BY <1>1, <2>3, <3>1
    <3> QED BY <1>7, <3>1, <3>2
  <2> QED BY <2>4, <2>5
<1>10. et # <<"*">> /\ et # <<">">>
  BY <1>9
<1> QED BY <1>3, <1>4, <1>8, <1>10 DEF Matches, tt, et

-----------------------------------------------------------------------------
(* What the loop knows at each test.                                         *)

\* Inside two tokens that are the same so far, neither string at its end.
Inside(tp, ex, p, q) ==
  InToken(tp, ex, p, q) /\ CharAt(tp, p) # NUL /\ CharAt(ex, q) # NUL

\* A '*' was passed, with the token that it stands for.
StarPassed(tp, ex, p, q) ==
  TokensRead(tp, ex, p, q) /\ Tokens(ex)[Idx(tp, p)] = <<"*">>

Walk(tp, ex, p, q, c) ==
  /\ c = "while" => InToken(tp, ex, p, q)
  /\ c = "star" => \/ Both(tp, ex, p, q) /\ CharAt(ex, q) = "*"
                   \/ Inside(tp, ex, p, q)
  /\ c = "gt" => \/ StarPassed(tp, ex, p, q)
                 \/ Inside(tp, ex, p, q) /\ CharAt(ex, q) # "*"
  /\ c = "compare" => \/ StarPassed(tp, ex, p, q)
                      \/ Inside(tp, ex, p, q) /\ CharAt(ex, q) \notin {"*", ">"}
                      \/ p = End(tp) /\ q = End(ex) /\ Matches(tp, ex)
  /\ c = "done" =>
       ((CharAt(tp, p) = NUL /\ CharAt(ex, q) = NUL) <=> Matches(tp, ex))

\* Without wildcards the cursors move together over equal prefixes.
Plain(s) == \A k \in 1..Len(s) : s[k] \notin {"*", ">"}
EqualSoFar ==
  /\ t = e
  /\ \A j \in 1..(t - 1) : topic[j] = exp[j]
  /\ pc \in {"star", "gt", "compare"} => CharAt(topic, t) # NUL
  /\ pc = "done" => Result \/ CharAt(topic, t) # CharAt(exp, e)

MatchInv ==
  /\ Inv
  /\ WellFormedExp(exp) /\ WellFormedTopic(topic) => Walk(topic, exp, t, e, pc)
  /\ Plain(exp) => EqualSoFar

LEMMA WalkWhile ==
  ASSUME NEW tp, NEW ex, NEW p, NEW q, InToken(tp, ex, p, q),
         WellFormedExp(ex), WellFormedTopic(tp),
         CharAt(tp, p) = NUL \/ CharAt(ex, q) = NUL
  PROVE  (CharAt(tp, p) = NUL /\ CharAt(ex, q) = NUL) <=> Matches(tp, ex)
<1>k. PICK k : k = Idx(tp, p)
  OBVIOUS
<1>1. Both(tp, ex, p, q) /\ p - Cut(tp, k) = q - Cut(ex, k)
  BY <1>k DEF InToken
<1>2. At(tp, p, k) /\ At(ex, q, k)
  BY <1>1, <1>k, BothAt
<1>3. /\ CharAt(tp, p) \notin {"*", ">"}
      /\ Tokens(tp)[k] \notin {<<"*">>, <<">">>}
      /\ p = End(tp) => p # Cut(tp, k) + 1
  BY <1>2, PublishedTopic
<1>4. ASSUME CharAt(tp, p) \in {NUL, "."}, CharAt(ex, q) \in {NUL, "."}
      PROVE  TokensRead(tp, ex, p, q) /\ Tokens(ex)[k] # <<">">>
  <2>1. p = Cut(tp, k + 1) /\ q = Cut(ex, k + 1)
    BY <1>2, <1>4 DEF At
  <2>2. TokensRead(tp, ex, p, q) /\ Tokens(ex)[k] = Tokens(tp)[k]
    BY <1>k, <2>1, SameToken
  <2> QED BY <1>3, <2>2
<1>5. CASE CharAt(tp, p) = NUL /\ CharAt(ex, q) = NUL
  <2>1. TokensRead(tp, ex, p, q) /\ Tokens(ex)[k] # <<">">>
    BY <1>4, <1>5
  <2>2. p = End(tp) /\ q = End(ex)
    BY <1>2, <1>5 DEF At
  <2> QED BY <1>5, <1>k, <2>1, <2>2, MatchedEnd
<1>6. CASE CharAt(tp, p) # CharAt(ex, q)
  <2>1. CASE CharAt(tp, p) \in {NUL, "."} /\ CharAt(ex, q) \in {NUL, "."}
    <3>1. Tokens(ex)[k] # <<">">>
      BY <1>4, <2>1
    <3> QED BY <1>1, <1>6, <1>k, <2>1, <3>1, EndsApart
  <2>2. CASE CharAt(ex, q) \in {"*", ">"}
    <3>1. q = Cut(ex, k) + 1 /\ CharAt(ex, q) # NUL
      BY <1>2, <2>2, Wildcard DEF NUL
    <3>2. /\ p = End(tp) /\ p \in Nat /\ Cut(tp, k) \in Nat
          /\ q \in Nat /\ Cut(ex, k) \in Nat
      BY <1>2, <3>1 DEF At
    <3>3. p = Cut(tp, k) + 1
      BY <1>1, <3>1, <3>2
    <3> QED BY <1>3, <3>2, <3>3
  <2>3. CASE CharAt(ex, q) \notin {"*", ">"} /\
             ~(CharAt(tp, p) \in {NUL, "."} /\ CharAt(ex, q) \in {NUL, "."})
    <3>1. ~Matches(tp, ex)
      BY <1>6, <2>3, TokensDiffer
    <3> QED BY <1>6, <3>1
  <2> QED BY <2>1, <2>2, <2>3
<1> QED BY <1>5, <1>6

LEMMA WalkSkips ==
  ASSUME NEW tp, NEW ex, NEW p, NEW q, Both(tp, ex, p, q), CharAt(tp, p) \notin {NUL, "."}
  PROVE  Both(tp, ex, p + 1, q)
<1>k. PICK k : k = Idx(tp, p)
  OBVIOUS
<1>1. At(tp, p, k)
  BY <1>k, BothAt
<1>2. Idx(tp, p + 1) = k /\ p + 1 \in 1..End(tp)
  BY <1>1 DEF At
<1> QED BY <1>2, <1>k DEF Both

LEMMA WalkStarEnds ==
  ASSUME NEW tp, NEW ex, NEW p, NEW q, Both(tp, ex, p, q), CharAt(tp, p) \in {NUL, "."},
         CharAt(ex, q) = "*", WellFormedExp(ex)
  PROVE  StarPassed(tp, ex, p, q + 1)
<1>k. PICK k : k = Idx(tp, p)
  OBVIOUS
<1>1. At(tp, p, k) /\ At(ex, q, k)
  BY <1>k, BothAt
<1>2. /\ q + 1 = Cut(ex, k + 1) /\ q + 1 \in 1..End(ex) /\ q \in Nat
      /\ Tokens(ex)[k] = <<"*">>
  <2>1. q \in Nat
    BY <1>1 DEF At
  <2> QED BY <1>1, <2>1, Wildcard
<1>3. Idx(ex, q + 1) = k /\ p = Cut(tp, k + 1)
  <2>1. q # q + 1
    BY <1>2
  <2> QED BY <1>1, <1>2, <2>1 DEF At
<1>4. Both(tp, ex, p, q + 1)
  BY <1>2, <1>3, <1>k DEF Both
<1> QED BY <1>2, <1>3, <1>4, <1>k DEF StarPassed, TokensRead, IsMatch

LEMMA WalkGt ==
  ASSUME NEW tp, NEW ex, NEW p, NEW q, Both(tp, ex, p, q), CharAt(ex, q) = ">",
         WellFormedExp(ex)
  PROVE  q + 1 = End(ex) /\ Matches(tp, ex)
<1>k. PICK k : k = Idx(tp, p)
  OBVIOUS
<1>1. At(ex, q, k)
  BY <1>k, BothAt
<1> QED BY <1>1, MatchedRest, Wildcard

\* The same character is passed by both cursors.
LEMMA WalkOn ==
  ASSUME NEW tp, NEW ex, NEW p, NEW q, CharAt(tp, p) # NUL, CharAt(tp, p) = CharAt(ex, q),
         InToken(tp, ex, p, q) \/ StarPassed(tp, ex, p, q)
  PROVE  InToken(tp, ex, p + 1, q + 1)
<1>k. PICK k : k = Idx(tp, p)
  OBVIOUS
<1>1. At(tp, p, k) /\ At(ex, q, k)
  BY <1>k, BothAt DEF InToken, StarPassed, TokensRead
<1>2. p # End(tp) /\ q # End(ex)
  BY <1>1 DEF At
<1>3. CASE TokensRead(tp, ex, p, q)
  BY <1>2, <1>3, NextTokens
<1>4. CASE InToken(tp, ex, p, q) /\ CharAt(tp, p) = "."
  <2>1. p = Cut(tp, k + 1) /\ q = Cut(ex, k + 1)
    BY <1>1, <1>4 DEF At
  <2>2. TokensRead(tp, ex, p, q)
    BY <1>4, <1>k, <2>1, SameToken
  <2> QED BY <1>2, <2>2, NextTokens
<1>5. CASE InToken(tp, ex, p, q) /\ CharAt(tp, p) # "."
  BY <1>5, NextChars
<1> QED BY <1>3, <1>4, <1>5 DEF StarPassed

\* The loop breaks at a difference, or at both ends.
LEMMA WalkBreaks ==
  ASSUME NEW tp, NEW ex, NEW p, NEW q, WellFormedExp(ex), WellFormedTopic(tp),
         CharAt(tp, p) = NUL \/ CharAt(tp, p) # CharAt(ex, q),
         \/ StarPassed(tp, ex, p, q)
         \/ Inside(tp, ex, p, q) /\ CharAt(ex, q) \notin {"*", ">"}
  PROVE  (CharAt(tp, p) = NUL /\ CharAt(ex, q) = NUL) <=> Matches(tp, ex)
<1>k. PICK k : k = Idx(tp, p)
  OBVIOUS
<1>1. At(tp, p, k) /\ At(ex, q, k)
  BY <1>k, BothAt DEF Inside, InToken, StarPassed, TokensRead
<1>2. CASE StarPassed(tp, ex, p, q)
  <2>1. /\ Both(tp, ex, p, q) /\ TokensRead(tp, ex, p, q) /\ Tokens(ex)[k] = <<"*">>
        /\ p = Cut(tp, k + 1) /\ q = Cut(ex, k + 1)
    BY <1>2, <1>k DEF StarPassed, TokensRead
  <2>2. CharAt(tp, p) \in {NUL, "."} /\ CharAt(ex, q) \in {NUL, "."}
    BY <1>1, <2>1 DEF At
  <2>3. Tokens(ex)[k] # <<">">>
    BY <2>1
  <2>4. CASE CharAt(tp, p) = CharAt(ex, q)
    <3>1. CharAt(tp, p) = NUL /\ p = End(tp) /\ q = End(ex)
      BY <1>1, <2>4 DEF At
    <3> QED BY <1>k, <2>1, <2>3, <2>4, <3>1, MatchedEnd
  <2>5. CASE CharAt(tp, p) # CharAt(ex, q)
    BY <1>k, <2>1, <2>2, <2>3, <2>5, EndsApart
  <2> QED BY <2>4, <2>5
<1>3. CASE Inside(tp, ex, p, q) /\ CharAt(ex, q) \notin {"*", ">"}
  <2>1. InToken(tp, ex, p, q) /\ CharAt(tp, p) # NUL /\ CharAt(ex, q) # NUL
    BY <1>3 DEF Inside
  <2>2. Both(tp, ex, p, q)
    BY <2>1 DEF InToken
  <2>3. ~Matches(tp, ex)
    <3>1. CASE CharAt(tp, p) # "." \/ CharAt(ex, q) # "."
      BY <1>3, <2>1, <3>1, TokensDiffer
    <3>2. CASE CharAt(tp, p) = "." /\ CharAt(ex, q) = "."
      BY <2>1, <3>2
    <3> QED BY <3>1, <3>2
  <2> QED BY <2>1, <2>3
<1> QED BY <1>2, <1>3

-----------------------------------------------------------------------------
(* The invariant of the loop.                                                *)

LEMMA InitMatchInv == Init => MatchInv
<1> SUFFICES ASSUME Init PROVE MatchInv
  OBVIOUS
<1>1. Inv /\ t = 1 /\ e = 1 /\ pc = "while"
  BY InitInv DEF Init
<1>2. InToken(topic, exp, t, e)
  <2>1. topic \in Seq(Chars) /\ exp \in Seq(Chars) /\ t \in 1..End(topic) /\ e \in 1..End(exp)
    BY <1>1 DEF Inv, CursorsInside
  <2>2. Idx(topic, t) = 1 /\ Idx(exp, e) = 1
    BY <1>1, <2>1, CutsInOrder
  <2>3. Cut(topic, 1) = 0 /\ Cut(exp, 1) = 0
    BY <2>1, TokenIs
  <2>4. Both(topic, exp, t, e)
    BY <2>1, <2>2 DEF Both
  <2>5. t - 0 = e - 0 /\ Same(topic, exp, 0, 0, t - 0 - 1)
    BY <1>1 DEF Same
  <2> QED BY <2>2, <2>3, <2>4, <2>5 DEF InToken
<1> QED BY <1>1, <1>2 DEF MatchInv, Walk, EqualSoFar

LEMMA StepWalk ==
  ASSUME Inv, [Next]_vars, WellFormedExp(exp), WellFormedTopic(topic),
         Walk(topic, exp, t, e, pc)
  PROVE  Walk(topic, exp, t', e', pc')
<1> DEFINE ct == CharAt(topic, t)
           ce == CharAt(exp, e)
<1>1. CASE While
  <2>1. InToken(topic, exp, t, e) /\ t' = t /\ e' = e
    BY <1>1 DEF While, Walk
  <2>2. CASE ct # NUL /\ ce # NUL
    <3>1. pc' = "star"
      BY <1>1, <2>2 DEF While
    <3> QED BY <2>1, <2>2, <3>1 DEF Walk, Inside
  <2>3. CASE ct = NUL \/ ce = NUL
    <3>1. pc' = "done"
      BY <1>1, <2>3 DEF While
    <3>2. (ct = NUL /\ ce = NUL) <=> Matches(topic, exp)
      BY <2>1, <2>3, WalkWhile
    <3> QED BY <2>1, <3>1, <3>2 DEF Walk
  <2> QED BY <2>2, <2>3
<1>2. CASE StarSkips
  <2>1. /\ pc = "star" /\ pc' = "star" /\ ce = "*" /\ ct \notin {NUL, "."}
        /\ t' = t + 1 /\ e' = e
    BY <1>2 DEF StarSkips
  <2>2. Both(topic, exp, t, e)
    BY <2>1 DEF Walk, Inside, InToken
  <2>3. Both(topic, exp, t + 1, e)
    BY <2>1, <2>2, WalkSkips
  <2> QED BY <2>1, <2>3 DEF Walk
<1>3. CASE StarEnds
  <2>1. pc = "star" /\ pc' = "gt" /\ t' = t
    BY <1>3 DEF StarEnds
  <2>2. CASE ce = "*"
    <3>1. ct \in {NUL, "."} /\ e' = e + 1
      BY <1>3, <2>2 DEF StarEnds
    <3>2. Both(topic, exp, t, e)
      BY <2>1 DEF Walk, Inside, InToken
    <3>3. StarPassed(topic, exp, t, e + 1)
      BY <2>2, <3>1, <3>2, WalkStarEnds
    <3> QED BY <2>1, <3>1, <3>3 DEF Walk
  <2>3. CASE ce # "*"
    <3>1. e' = e
      BY <1>3, <2>3 DEF StarEnds
    <3> QED BY <2>1, <2>3, <3>1 DEF Walk
  <2> QED BY <2>2, <2>3
<1>4. CASE Gt
  <2>1. pc = "gt" /\ pc' = "compare"
    BY <1>4 DEF Gt
  <2>2. CASE ce = ">"
    <3>1. t' = End(topic) /\ e' = e + 1
      BY <1>4, <2>2 DEF Gt
    <3>2. Both(topic, exp, t, e)
      BY <2>1 DEF Walk, Inside, InToken, StarPassed, TokensRead
    <3>3. e + 1 = End(exp) /\ Matches(topic, exp)
      BY <2>2, <3>2, WalkGt
    <3> QED BY <2>1, <3>1, <3>3 DEF Walk
  <2>3. CASE ce # ">"
    <3>1. t' = t /\ e' = e
      BY <1>4, <2>3 DEF Gt
    <3>2. \/ StarPassed(topic, exp, t, e)
          \/ Inside(topic, exp, t, e) /\ ce # "*"
      BY <2>1 DEF Walk
    <3> QED BY <2>1, <2>3, <3>1, <3>2 DEF Walk
  <2> QED BY <2>2, <2>3
<1>5. CASE Compare
  <2>1. pc = "compare"
    BY <1>5 DEF Compare
  <2>2. \/ StarPassed(topic, exp, t, e)
        \/ Inside(topic, exp, t, e) /\ ce \notin {"*", ">"}
        \/ t = End(topic) /\ e = End(exp) /\ Matches(topic, exp)
    BY <2>1 DEF Walk
  <2>3. CASE ct # NUL /\ ct = ce
    <3>1. t' = t + 1 /\ e' = e + 1 /\ pc' = "while"
      BY <1>5, <2>3 DEF Compare
    <3>2. InToken(topic, exp, t, e) \/ StarPassed(topic, exp, t, e)
      BY <2>2, <2>3 DEF Inside, CharAt
    <3>3. InToken(topic, exp, t + 1, e + 1)
      BY <2>3, <3>2, WalkOn
    <3> QED BY <3>1, <3>3 DEF Walk
  <2>4. CASE ~(ct # NUL /\ ct = ce)
    <3>1. t' = t /\ e' = e /\ pc' = "done"
      BY <1>5, <2>4 DEF Compare
    <3>2. (ct = NUL /\ ce = NUL) <=> Matches(topic, exp)
      <4>1. CASE t = End(topic) /\ e = End(exp) /\ Matches(topic, exp)
        BY <4>1 DEF CharAt
      <4>2. CASE \/ StarPassed(topic, exp, t, e)
                 \/ Inside(topic, exp, t, e) /\ ce \notin {"*", ">"}
        BY <2>4, <4>2, WalkBreaks
      <4> QED BY <2>2, <4>1, <4>2
    <3> QED BY <3>1, <3>2 DEF Walk
  <2> QED BY <2>3, <2>4
<1>6. CASE UNCHANGED vars
  BY <1>6 DEF vars
<1> QED BY <1>1, <1>2, <1>3, <1>4, <1>5, <1>6 DEF Next

LEMMA StepEqual ==
  ASSUME Inv, [Next]_vars, Plain(exp), EqualSoFar
  PROVE  EqualSoFar'
<1>1. /\ t = e /\ t \in Nat /\ \A j \in 1..(t - 1) : topic[j] = exp[j]
      /\ topic \in Seq(Chars) /\ exp \in Seq(Chars)
      /\ t \in 1..End(topic) /\ e \in 1..End(exp)
      /\ Len(topic) \in Nat /\ Len(exp) \in Nat
  BY LenProperties DEF EqualSoFar, Inv, CursorsInside
<1>2. CharAt(exp, e) \notin {"*", ">"}
  <2>1. e # End(exp) => e \in 1..Len(exp)
    BY <1>1 DEF End
  <2> QED BY <2>1 DEF CharAt, NUL, Plain
<1>3. CASE While
  BY <1>3 DEF While, EqualSoFar, Result
<1>4. CASE StarSkips
  BY <1>2, <1>4 DEF StarSkips
<1>5. CASE StarEnds
  BY <1>2, <1>5 DEF StarEnds, EqualSoFar
<1>6. CASE Gt
  BY <1>2, <1>6 DEF Gt, EqualSoFar
<1>7. CASE Compare
  <2>1. /\ CharAt(topic, t) # NUL /\ pc = "compare" /\ UNCHANGED <<topic, exp>>
    BY <1>7 DEF Compare, EqualSoFar
  <2>2. CASE CharAt(topic, t) = CharAt(exp, e)
    <3>1. t' = t + 1 /\ e' = e + 1 /\ pc' = "while"
      BY <1>7, <2>1, <2>2 DEF Compare
    <3>2. topic[t] = exp[t]
      <4>1. t # End(topic) /\ e # End(exp)
        BY <2>1, <2>2 DEF CharAt
      <4> QED BY <1>1, <2>2, <4>1 DEF CharAt
    <3>3. \A j \in 1..(t + 1 - 1) : j = t \/ j \in 1..(t - 1)
      BY <1>1
    <3>4. \A j \in 1..(t + 1 - 1) : topic[j] = exp[j]
      BY <1>1, <3>2, <3>3
    <3> QED BY <1>1, <2>1, <3>1, <3>4 DEF EqualSoFar
  <2>3. CASE CharAt(topic, t) # CharAt(exp, e)
    BY <1>7, <2>1, <2>3 DEF Compare, EqualSoFar
  <2> QED BY <2>2, <2>3
<1>8. CASE UNCHANGED vars
  BY <1>8 DEF vars, EqualSoFar, Result
<1> QED BY <1>3, <1>4, <1>5, <1>6, <1>7, <1>8 DEF Next

LEMMA StepMatchInv == MatchInv /\ [Next]_vars => MatchInv'
<1> SUFFICES ASSUME MatchInv, [Next]_vars PROVE MatchInv'
  OBVIOUS
<1>1. Inv'
  BY StepInv DEF MatchInv
<1>2. topic' = topic /\ exp' = exp
  BY DEF Next, While, StarSkips, StarEnds, Gt, Compare, vars
<1>3. ASSUME WellFormedExp(exp), WellFormedTopic(topic)
      PROVE  Walk(topic, exp, t', e', pc')
  BY <1>3, StepWalk DEF MatchInv
<1>4. Plain(exp) => EqualSoFar'
  BY StepEqual DEF MatchInv
<1> QED BY <1>1, <1>2, <1>3, <1>4 DEF MatchInv

\* The loop computes the token-wise match for all well-formed strings, and equality for
\* all expressions without wildcards.
THEOREM LoopComputesMatch == Spec => []ComputesMatch
<1>1. MatchInv => ComputesMatch
  <2> SUFFICES ASSUME MatchInv, pc = "done"
               PROVE  /\ WellFormedExp(exp) /\ WellFormedTopic(topic) =>
                           (Result <=> Matches(topic, exp))
                      /\ Plain(exp) => (Result <=> topic = exp)
    BY DEF ComputesMatch, Plain
  <2>1. WellFormedExp(exp) /\ WellFormedTopic(topic) => (Result <=> Matches(topic, exp))
    BY DEF MatchInv, Walk, Result
  <2>2. ASSUME Plain(exp) PROVE Result <=> topic = exp
    <3>1. /\ t = e /\ \A j \in 1..(t - 1) : topic[j] = exp[j]
          /\ Result \/ CharAt(topic, t) # CharAt(exp, e)
      BY <2>2 DEF MatchInv, EqualSoFar
    <3>2. /\ topic \in Seq(Chars) /\ exp \in Seq(Chars)
          /\ t \in 1..End(topic) /\ e \in 1..End(exp)
          /\ Len(topic) \in Nat /\ Len(exp) \in Nat
      BY LenProperties DEF MatchInv, Inv, CursorsInside
    <3>3. topic = exp => Result
      BY <3>1
    <3>4. ASSUME Result PROVE topic = exp
      <4>1. t = Len(topic) + 1 /\ e = Len(exp) + 1
        BY <3>2, <3>4, StringFacts DEF Result, End
      <4>2. t \in Nat /\ e \in Nat /\ t = e
        BY <3>1, <3>2, <4>1
      <4>3. Len(topic) = t - 1
        BY <3>2, <4>1, <4>2
      <4>4. Len(exp) = e - 1
        BY <3>2, <4>1, <4>2
      <4>5. Len(exp) = Len(topic)
        BY <4>2, <4>3, <4>4
      <4> QED BY <3>1, <3>2, <4>3, <4>5, SeqEqual
    <3> QED BY <3>3, <3>4
  <2> QED BY <2>1, <2>2
<1> QED BY <1>1, InitMatchInv, StepMatchInv, PTL DEF Spec
=============================================================================
