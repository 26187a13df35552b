--------------------------- MODULE SequenceLemmas ---------------------------
(***************************************************************************)
(* What the sequence operators used by the models return.                  *)
(***************************************************************************)
EXTENDS SequencesExt, SequenceTheorems, FiniteSetTheorems, TLAPS

\* Removing the k-th element of a sequence shifts the later ones down by one.
LEMMA RemoveAtProperties ==
  ASSUME NEW S, NEW s \in Seq(S), NEW k \in 1..Len(s)
  PROVE  /\ RemoveAt(s, k) \in Seq(S)
         /\ Len(RemoveAt(s, k)) = Len(s) - 1
         /\ \A j \in 1..Len(s) - 1 :
              RemoveAt(s, k)[j] = IF j < k THEN s[j] ELSE s[j + 1]
<1> DEFINE low == SubSeq(s, 1, k - 1)
           high == SubSeq(s, k + 1, Len(s))
<1>0. \A j \in 1..Len(s) : s[j] \in S
  BY ElementOfSeq
<1>0a. Len(s) \in Nat
  BY LenProperties
<1>1. low \in Seq(S) /\ Len(low) = k - 1 /\ \A j \in 1..k - 1 : low[j] = s[j]
  <2>1. \A j \in 1..k - 1 : s[j] \in S
    BY <1>0, <1>0a
  <2>2. /\ low \in Seq(S)
        /\ Len(low) = IF 1 <= k - 1 THEN (k - 1) - 1 + 1 ELSE 0
        /\ \A j \in 1..(k - 1) - 1 + 1 : low[j] = s[1 + j - 1]
    BY <2>1, <1>0a, SubSeqProperties
  <2> QED BY <2>2, <1>0a
<1>2. /\ high \in Seq(S) /\ Len(high) = Len(s) - k
      /\ \A j \in 1..Len(s) - k : high[j] = s[k + j]
  <2>1. \A j \in k + 1..Len(s) : s[j] \in S
    BY <1>0, <1>0a
  <2>2. /\ high \in Seq(S)
        /\ Len(high) = IF k + 1 <= Len(s) THEN Len(s) - (k + 1) + 1 ELSE 0
        /\ \A j \in 1..Len(s) - (k + 1) + 1 : high[j] = s[(k + 1) + j - 1]
    BY <2>1, <1>0a, SubSeqProperties
  <2> QED BY <2>2, <1>0a
<1>3. /\ low \o high \in Seq(S)
      /\ Len(low \o high) = Len(low) + Len(high)
      /\ \A j \in 1..Len(low) + Len(high) :
           (low \o high)[j] = IF j <= Len(low) THEN low[j] ELSE high[j - Len(low)]
  BY <1>1, <1>2, ConcatProperties
<1>4. RemoveAt(s, k) = low \o high
  BY DEF RemoveAt
<1> HIDE DEF low, high
<1>5. ASSUME NEW j \in 1..Len(s) - 1
      PROVE  (low \o high)[j] = IF j < k THEN s[j] ELSE s[j + 1]
  <2>0. k \in Nat /\ j \in Nat /\ k <= Len(s) /\ 1 <= k /\ 1 <= j /\ j <= Len(s) - 1
    BY <1>0a
  <2>1. CASE j < k
    BY <2>0, <2>1, <1>0a, <1>1, <1>2, <1>3
  <2>2. CASE ~(j < k)
    <3>1. (low \o high)[j] = high[j - (k - 1)]
      BY <2>0, <2>2, <1>0a, <1>1, <1>2, <1>3
    <3>2. j - (k - 1) \in 1..Len(s) - k /\ k + (j - (k - 1)) = j + 1
      BY <2>0, <2>2, <1>0a
    <3>3. high[j - (k - 1)] = s[k + (j - (k - 1))]
      BY <3>2, <1>2
    <3> QED BY <2>2, <3>1, <3>2, <3>3
  <2> QED BY <2>1, <2>2
<1>6. Len(low \o high) = Len(s) - 1
  BY <1>0a, <1>1, <1>2, <1>3
<1> QED BY <1>3, <1>4, <1>5, <1>6

-----------------------------------------------------------------------------
(* Induction over the natural numbers for a set of them: unlike the theorems of *)
(* NaturalsInduction, this one has no operator among its parameters.            *)

LEMMA NatSetInduction ==
  ASSUME NEW T, 0 \in T, \A n \in T \cap Nat : n + 1 \in T
  PROVE  Nat \subseteq T
<1> DEFINE U == Nat \ T
           less == {p \in Nat \X Nat : p[1] < p[2]}
<1>1. SUFFICES ASSUME U # {} PROVE FALSE
  OBVIOUS
<1>2. IsWellFoundedOn(less, Nat)
  BY NatLessThanWellFounded DEF OpToRel
<1>3. U \subseteq Nat
  OBVIOUS
<1> HIDE DEF U, less
<1>4. PICK x \in U : \A y \in U : ~ (<<y, x>> \in less)
  BY <1>1, <1>2, <1>3, WFMin
<1>5. x \in Nat /\ x # 0 /\ x - 1 \in Nat
  BY DEF U
<1>6. x - 1 \in U
  BY <1>5 DEF U
<1>7. <<x - 1, x>> \in less
  BY <1>5 DEF less
<1> QED BY <1>4, <1>6, <1>7

-----------------------------------------------------------------------------
\* The parts of a flattened sequence, put together from the first on.
IsFlattening(f, seqs, n) ==
  \A i \in 1..n : f[i] = IF i = 1 THEN seqs[i] ELSE f[i - 1] \o seqs[i]

\* One step of it.
LEMMA FlatteningStep ==
  ASSUME NEW f, NEW seqs, NEW n \in Nat, IsFlattening(f, seqs, n),
         NEW i \in Nat, i + 1 \in 1..n
  PROVE  /\ i = 0 => f[i + 1] = seqs[i + 1]
         /\ i # 0 => f[i + 1] = f[i] \o seqs[i + 1]
<1>1. f[i + 1] = IF i + 1 = 1 THEN seqs[i + 1] ELSE f[i + 1 - 1] \o seqs[i + 1]
  BY DEF IsFlattening
<1>2. i + 1 - 1 = i /\ (i + 1 = 1 <=> i = 0)
  OBVIOUS
<1> QED BY <1>1, <1>2

\* FlattenSeq is the last of the sequences that the recursion builds.
LEMMA FlattenSeqParts ==
  ASSUME NEW S, NEW seqs \in Seq(Seq(S)), seqs # <<>>
  PROVE  \E f \in [1..Len(seqs) -> Seq(S)] :
           IsFlattening(f, seqs, Len(seqs)) /\ FlattenSeq(seqs) = f[Len(seqs)]
<1> DEFINE n == Len(seqs)
           T == {k \in Nat : k <= n => \E f \in [1..k -> Seq(S)] : IsFlattening(f, seqs, k)}
           def(g) == [i \in 1..n |-> IF i = 1 THEN seqs[i] ELSE g[i - 1] \o seqs[i]]
           g == CHOOSE g : g = def(g)
<1>1. n \in Nat \ {0} /\ \A i \in 1..n : seqs[i] \in Seq(S)
  BY EmptySeq, ElementOfSeq
<1>2. 0 \in T
  <2>1. [i \in 1..0 |-> <<>>] \in [1..0 -> Seq(S)]
    BY EmptySeq
  <2>2. IsFlattening([i \in 1..0 |-> <<>>], seqs, 0)
    BY DEF IsFlattening
  <2> QED BY <2>1, <2>2
<1>3. ASSUME NEW k \in T PROVE k + 1 \in T
  <2>1. SUFFICES ASSUME k + 1 <= n
                 PROVE  \E f \in [1..k + 1 -> Seq(S)] : IsFlattening(f, seqs, k + 1)
    OBVIOUS
  <2>2. PICK f \in [1..k -> Seq(S)] : IsFlattening(f, seqs, k)
    BY <1>1, <2>1
  <2> DEFINE x == IF k = 0 THEN seqs[1] ELSE f[k] \o seqs[k + 1]
             h == [i \in 1..k + 1 |-> IF i = k + 1 THEN x ELSE f[i]]
  <2>3. x \in Seq(S)
    <3>1. CASE k = 0
      BY <1>1, <3>1
    <3>2. CASE k # 0
      <4>1. f[k] \in Seq(S) /\ seqs[k + 1] \in Seq(S)
        BY <1>1, <2>1, <3>2
      <4> QED BY <3>2, <4>1, ConcatProperties
    <3> QED BY <3>1, <3>2
  <2> HIDE DEF x
  <2>4. h \in [1..k + 1 -> Seq(S)]
    BY <2>3
  <2>5. IsFlattening(h, seqs, k + 1)
    <3>1. SUFFICES ASSUME NEW i \in 1..k + 1
                   PROVE  h[i] = IF i = 1 THEN seqs[i] ELSE h[i - 1] \o seqs[i]
      BY DEF IsFlattening
    <3>2. CASE i # k + 1
      <4>1. i \in 1..k /\ (i # 1 => i - 1 \in 1..k)
        BY <3>2
      <4>2. f[i] = IF i = 1 THEN seqs[i] ELSE f[i - 1] \o seqs[i]
        BY <2>2, <4>1 DEF IsFlattening
      <4>3. h[i] = f[i] /\ (i # 1 => h[i - 1] = f[i - 1])
        BY <4>1
      <4> QED BY <4>2, <4>3
    <3>3. CASE i = k + 1
      BY <3>3 DEF x
    <3> QED BY <3>2, <3>3
  <2> QED BY <2>4, <2>5
<1>4. n \in T
  <2> HIDE DEF T
  <2>1. Nat \subseteq T
    BY <1>2, <1>3, NatSetInduction
  <2> QED BY <1>1, <2>1
<1>5. PICK f \in [1..n -> Seq(S)] : IsFlattening(f, seqs, n)
  BY <1>1, <1>4
<1>6. f = def(f)
  BY <1>5 DEF IsFlattening
<1>7. g = def(g)
  BY <1>6
<1>8. FlattenSeq(seqs) = g[n]
  BY <1>1 DEF FlattenSeq
<1> HIDE DEF g
<1>9. IsFlattening(g, seqs, n) /\ DOMAIN g = 1..n
  BY <1>7 DEF IsFlattening
<1> DEFINE E == {k \in Nat : k \in 1..n => g[k] = f[k]}
<1>10. Nat \subseteq E
  <2>1. 0 \in E
    OBVIOUS
  <2>2. ASSUME NEW k \in E PROVE k + 1 \in E
    <3>1. SUFFICES ASSUME k + 1 \in 1..n PROVE g[k + 1] = f[k + 1]
      OBVIOUS
    <3>2. k \in Nat /\ n \in Nat /\ (k # 0 => g[k] = f[k])
      BY <1>1, <3>1
    <3> HIDE DEF E, n
    <3>3. /\ k = 0 => f[k + 1] = seqs[k + 1] /\ g[k + 1] = seqs[k + 1]
          /\ k # 0 => f[k + 1] = f[k] \o seqs[k + 1] /\ g[k + 1] = g[k] \o seqs[k + 1]
      BY <1>5, <1>9, <3>1, <3>2, FlatteningStep, ZenonT(60)
    <3>4. CASE k = 0
      BY <3>3, <3>4
    <3>5. CASE k # 0
      BY <3>2, <3>3, <3>5
    <3> QED BY <3>4, <3>5
  <2> HIDE DEF E
  <2> QED BY <2>1, <2>2, NatSetInduction
<1>11. g[n] = f[n]
  <2> HIDE DEF n
  <2> QED BY <1>1, <1>10
<1> QED BY <1>5, <1>8, <1>11

\* What a flattened sequence has are elements of the sequences it is made of.
LEMMA FlattenSeqType ==
  ASSUME NEW S, NEW seqs \in Seq(Seq(S))
  PROVE  FlattenSeq(seqs) \in Seq(S)
<1>1. CASE seqs = <<>>
  BY <1>1, EmptySeq DEF FlattenSeq
<1>2. CASE seqs # <<>>
  <2>1. PICK f \in [1..Len(seqs) -> Seq(S)] : FlattenSeq(seqs) = f[Len(seqs)]
    BY <1>2, FlattenSeqParts
  <2>2. Len(seqs) \in 1..Len(seqs)
    BY <1>2, EmptySeq
  <2> QED BY <2>1, <2>2
<1> QED BY <1>1, <1>2

\* If all of the sequences but one are empty, flattening returns that one.
LEMMA FlattenSeqOne ==
  ASSUME NEW S, NEW seqs \in Seq(Seq(S)), NEW k \in 1..Len(seqs),
         \A j \in 1..Len(seqs) : j # k => seqs[j] = <<>>
  PROVE  FlattenSeq(seqs) = seqs[k]
<1> DEFINE n == Len(seqs)
<1>0. n \in Nat \ {0} /\ seqs # <<>> /\ seqs[k] \in Seq(S)
  BY EmptySeq, ElementOfSeq, LenProperties
<1>1. PICK f \in [1..n -> Seq(S)] : IsFlattening(f, seqs, n) /\ FlattenSeq(seqs) = f[n]
  BY <1>0, FlattenSeqParts
<1> DEFINE T == {i \in Nat : i \in 1..n => f[i] = IF i < k THEN <<>> ELSE seqs[k]}
<1>2. 0 \in T
  OBVIOUS
<1>3. ASSUME NEW i \in T PROVE i + 1 \in T
  <2>1. SUFFICES ASSUME i + 1 \in 1..n
                 PROVE  f[i + 1] = IF i + 1 < k THEN <<>> ELSE seqs[k]
    OBVIOUS
  <2>a. i \in Nat /\ n \in Nat /\ k \in Nat \ {0}
    BY <1>0
  <2>b. /\ i = 0 => f[i + 1] = seqs[i + 1]
        /\ i # 0 => f[i + 1] = f[i] \o seqs[i + 1]
    <3> HIDE DEF n, T
    <3>1. IsFlattening(f, seqs, n)
      BY <1>1
    <3>2. i \in Nat /\ n \in Nat /\ i + 1 \in 1..n
      BY <2>1, <2>a
    <3> QED BY <3>1, <3>2, FlatteningStep, Zenon
  <2>2. CASE i = 0
    BY <2>1, <2>2, <2>a, <2>b
  <2>3. CASE i # 0
    <3>1. f[i + 1] = f[i] \o seqs[i + 1]
      BY <2>3, <2>b
    <3>1a. i \in 1..n /\ f[i] = IF i < k THEN <<>> ELSE seqs[k]
      <4> HIDE DEF n
      <4> QED BY <1>0, <2>1, <2>3
    <3>2. CASE i + 1 = k
      <4>1. f[i] = <<>> /\ seqs[i + 1] = seqs[k]
        BY <2>a, <3>1a, <3>2
      <4>2. f[i + 1] = seqs[k]
        BY <1>0, <3>1, <4>1, ConcatEmptySeq
      <4> QED BY <3>2, <4>2
    <3>3. CASE i + 1 # k
      <4>1. seqs[i + 1] = <<>> /\ f[i] \in Seq(S)
        BY <1>0, <1>1, <2>1, <3>1a, <3>3
      <4>2. f[i + 1] = f[i]
        BY <3>1, <4>1, ConcatEmptySeq
      <4>3. i + 1 < k <=> i < k
        BY <2>a, <3>3
      <4> QED BY <3>1a, <4>2, <4>3
    <3> QED BY <3>2, <3>3
  <2> QED BY <2>2, <2>3
<1>4. n \in T
  <2> HIDE DEF T
  <2>1. Nat \subseteq T
    BY <1>2, <1>3, NatSetInduction
  <2> QED BY <1>0, <2>1
<1> QED BY <1>0, <1>1, <1>4

-----------------------------------------------------------------------------
\* SetToSeq lists the elements of a finite set.
LEMMA SetToSeqProperties ==
  ASSUME NEW S, IsFiniteSet(S)
  PROVE  SetToSeq(S) \in Seq(S) /\ Len(SetToSeq(S)) = Cardinality(S)
<1> DEFINE n == Cardinality(S)
<1>1. n \in Nat /\ ExistsBijection(1..n, S)
  BY FS_CardinalityType
<1>2. \E f \in [1..n -> S] : IsInjective(f)
  BY <1>1 DEF ExistsBijection, Bijection, Injection
<1>3. SetToSeq(S) \in [1..n -> S]
  BY <1>2 DEF SetToSeq
<1> QED BY <1>1, <1>3, LenProperties

\* It is the empty sequence for the empty set and has one element for a singleton.
LEMMA SetToSeqAtMostOne ==
  /\ SetToSeq({}) = <<>>
  /\ \A x : SetToSeq({x}) = <<x>>
<1>1. SetToSeq({}) = <<>>
  BY FS_EmptySet, SetToSeqProperties, EmptySeq
<1>2. ASSUME NEW x PROVE SetToSeq({x}) = <<x>>
  <2>1. SetToSeq({x}) \in Seq({x}) /\ Len(SetToSeq({x})) = 1
    BY FS_Singleton, SetToSeqProperties
  <2>2. SetToSeq({x})[1] = x
    BY <2>1, ElementOfSeq
  <2> QED BY <2>1, <2>2
<1> QED BY <1>1, <1>2

-----------------------------------------------------------------------------
\* Front and Last take a sequence apart, and Append puts it together again.
LEMMA FrontLast ==
  ASSUME NEW S, NEW s \in Seq(S), s # <<>>
  PROVE  /\ Len(s) \in Nat \ {0}
         /\ Front(s) \in Seq(S) /\ Len(Front(s)) = Len(s) - 1
         /\ \A k \in 1..Len(s) - 1 : Front(s)[k] = s[k]
         /\ Last(s) \in S /\ Last(s) = s[Len(s)]
<1>1. Len(s) \in Nat \ {0} /\ \A k \in 1..Len(s) : s[k] \in S
  BY EmptySeq, ElementOfSeq
<1>2. \A k \in 1..Len(s) - 1 : s[k] \in S
  BY <1>1
<1>3. /\ SubSeq(s, 1, Len(s) - 1) \in Seq(S)
      /\ Len(SubSeq(s, 1, Len(s) - 1)) = IF 1 <= Len(s) - 1 THEN Len(s) - 1 - 1 + 1 ELSE 0
      /\ \A k \in 1..Len(s) - 1 - 1 + 1 : SubSeq(s, 1, Len(s) - 1)[k] = s[1 + k - 1]
  BY <1>1, <1>2, SubSeqProperties
<1>3a. (IF 1 <= Len(s) - 1 THEN Len(s) - 1 - 1 + 1 ELSE 0) = Len(s) - 1
       /\ Len(s) - 1 - 1 + 1 = Len(s) - 1 /\ \A k \in 1..Len(s) - 1 : 1 + k - 1 = k
  <2> DEFINE m == Len(s)
  <2>1. m \in Nat \ {0}
    BY <1>1
  <2> HIDE DEF m
  <2>2. (IF 1 <= m - 1 THEN m - 1 - 1 + 1 ELSE 0) = m - 1 /\ m - 1 - 1 + 1 = m - 1
    BY <2>1
  <2>3. \A k \in 1..m - 1 : 1 + k - 1 = k
    BY <2>1
  <2> QED BY <2>2, <2>3 DEF m
<1>4. /\ Front(s) \in Seq(S) /\ Len(Front(s)) = Len(s) - 1
      /\ \A k \in 1..Len(s) - 1 : Front(s)[k] = s[k]
  BY <1>3, <1>3a DEF Front
<1>5. Last(s) \in S /\ Last(s) = s[Len(s)]
  BY <1>1 DEF Last
<1> QED BY <1>1, <1>4, <1>5
=============================================================================
