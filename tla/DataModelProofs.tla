---------------------------- MODULE DataModelProofs ----------------------------
(***************************************************************************)
(* What a name means to the data model, and what a client may rely on when  *)
(* it gets and sets: for all databases, hosts, clients and calls.           *)
(***************************************************************************)
EXTENDS DataModel, SequenceLemmas

-----------------------------------------------------------------------------
(* Sequences of whatever: names, requests, frames.                          *)

IsSeq(s) == \E S : s \in Seq(S)

LEMMA SeqLength ==
  ASSUME NEW s, IsSeq(s)
  PROVE  Len(s) \in Nat /\ DOMAIN s = 1..Len(s) /\ (s = <<>> <=> Len(s) = 0)
<1>1. PICK S : s \in Seq(S)
  BY DEF IsSeq
<1> QED BY <1>1, LenProperties, EmptySeq

LEMMA SeqEmpty == IsSeq(<<>>) /\ Len(<<>>) = 0 /\ ToSet(<<>>) = {}
BY EmptySeq DEF IsSeq, ToSet

LEMMA SeqAppend ==
  ASSUME NEW s, IsSeq(s), NEW x
  PROVE  /\ IsSeq(Append(s, x)) /\ Len(Append(s, x)) = Len(s) + 1 /\ Append(s, x) # <<>>
         /\ \A k \in 1..Len(s) : Append(s, x)[k] = s[k]
         /\ Append(s, x)[Len(s) + 1] = x
         /\ ToSet(Append(s, x)) = ToSet(s) \cup {x}
<1>1. PICK S : s \in Seq(S)
  BY DEF IsSeq
<1>2. s \in Seq(S \cup {x})
  BY <1>1
<1>3. /\ Append(s, x) \in Seq(S \cup {x}) /\ Len(Append(s, x)) = Len(s) + 1
      /\ \A k \in 1..Len(s) : Append(s, x)[k] = s[k]
      /\ Append(s, x)[Len(s) + 1] = x
  BY <1>2, AppendProperties
<1>4. IsSeq(Append(s, x))
  BY <1>3 DEF IsSeq
<1>5. Len(s) \in Nat /\ DOMAIN s = 1..Len(s) /\ DOMAIN Append(s, x) = 1..Len(s) + 1
  BY <1>3, <1>4, SeqLength
<1>6. ToSet(Append(s, x)) = ToSet(s) \cup {x}
  <2>1. ASSUME NEW y \in ToSet(Append(s, x)) PROVE y \in ToSet(s) \cup {x}
    <3>1. PICK k \in 1..Len(s) + 1 : y = Append(s, x)[k]
      BY <1>5 DEF ToSet
    <3>2. k \in 1..Len(s) \/ k = Len(s) + 1
      BY <1>5
    <3> QED BY <1>3, <1>5, <3>1, <3>2 DEF ToSet
  <2>2. ASSUME NEW k \in 1..Len(s) + 1 PROVE Append(s, x)[k] \in ToSet(Append(s, x))
    BY <1>5 DEF ToSet
  <2>3. ASSUME NEW k \in 1..Len(s) PROVE s[k] \in ToSet(Append(s, x))
    BY <1>3, <1>5, <2>2
  <2>4. x \in ToSet(Append(s, x))
    BY <1>3, <1>5, <2>2
  <2> QED BY <1>5, <2>1, <2>3, <2>4 DEF ToSet
<1>7. Append(s, x) # <<>>
  <2>1. Append(s, x) = <<>> <=> Len(Append(s, x)) = 0
    BY <1>4, SeqLength
  <2> QED BY <1>3, <1>5, <2>1
<1> QED BY <1>3, <1>4, <1>6, <1>7

LEMMA SeqTail ==
  ASSUME NEW s, IsSeq(s), s # <<>>
  PROVE  /\ IsSeq(Tail(s)) /\ Head(s) \in ToSet(s)
         /\ ToSet(s) = ToSet(Tail(s)) \cup {Head(s)}
<1>1. PICK S : s \in Seq(S)
  BY DEF IsSeq
<1>2. /\ Head(s) = s[1] /\ Tail(s) \in Seq(S) /\ Len(Tail(s)) = Len(s) - 1
      /\ \A k \in 1..Len(Tail(s)) : Tail(s)[k] = s[k + 1]
  BY <1>1, HeadTailProperties
<1>3. Len(s) \in Nat \ {0} /\ DOMAIN s = 1..Len(s) /\ DOMAIN Tail(s) = 1..Len(s) - 1
  BY <1>1, <1>2, EmptySeq, LenProperties
<1>4. ASSUME NEW k \in 1..Len(s), k # 1
      PROVE  k - 1 \in 1..Len(s) - 1 /\ Tail(s)[k - 1] = s[k]
  BY <1>2, <1>3, <1>4
<1>5. \A k \in 1..Len(s) - 1 : k + 1 \in 1..Len(s) /\ Tail(s)[k] = s[k + 1]
  BY <1>2, <1>3
<1>6. ToSet(s) = ToSet(Tail(s)) \cup {Head(s)}
  <2>1. ASSUME NEW k \in 1..Len(s) PROVE s[k] \in ToSet(Tail(s)) \cup {Head(s)}
    <3>1. CASE k = 1
      BY <1>2, <3>1
    <3>2. CASE k # 1
      BY <1>3, <1>4, <3>2 DEF ToSet
    <3> QED BY <3>1, <3>2
  <2>2. ASSUME NEW k \in 1..Len(s) - 1 PROVE Tail(s)[k] \in ToSet(s)
    BY <1>3, <1>5 DEF ToSet
  <2>3. Head(s) \in ToSet(s)
    BY <1>2, <1>3 DEF ToSet
  <2> QED BY <1>3, <2>1, <2>2, <2>3 DEF ToSet
<1>7. IsSeq(Tail(s))
  BY <1>2 DEF IsSeq
<1> QED BY <1>6, <1>7

LEMMA SeqFront ==
  ASSUME NEW s, IsSeq(s), s # <<>>
  PROVE  /\ Len(s) \in Nat \ {0} /\ IsSeq(Front(s)) /\ Len(Front(s)) = Len(s) - 1
         /\ \A k \in 1..Len(s) - 1 : Front(s)[k] = s[k]
         /\ Last(s) = s[Len(s)] /\ Last(s) \in ToSet(s)
<1>1. PICK S : s \in Seq(S)
  BY DEF IsSeq
<1>2. /\ Len(s) \in Nat \ {0}
      /\ Front(s) \in Seq(S) /\ Len(Front(s)) = Len(s) - 1
      /\ \A k \in 1..Len(s) - 1 : Front(s)[k] = s[k]
      /\ Last(s) \in S /\ Last(s) = s[Len(s)]
  BY <1>1, FrontLast
<1>3. Last(s) \in ToSet(s)
  BY <1>1, <1>2 DEF ToSet
<1> QED BY <1>2, <1>3 DEF IsSeq

\* The last element of a sequence replaced.
LEMMA SeqReplaceLast ==
  ASSUME NEW s, IsSeq(s), s # <<>>, NEW x
  PROVE  /\ IsSeq(Append(Front(s), x)) /\ Len(Append(Front(s), x)) = Len(s)
         /\ Append(Front(s), x) # <<>>
         /\ \A k \in 1..Len(s) - 1 : Append(Front(s), x)[k] = s[k]
         /\ Append(Front(s), x)[Len(s)] = x
<1>1. /\ Len(s) \in Nat \ {0} /\ IsSeq(Front(s)) /\ Len(Front(s)) = Len(s) - 1
      /\ \A k \in 1..Len(s) - 1 : Front(s)[k] = s[k]
  BY SeqFront
<1>2. /\ IsSeq(Append(Front(s), x)) /\ Len(Append(Front(s), x)) = Len(Front(s)) + 1
      /\ Append(Front(s), x) # <<>>
      /\ \A k \in 1..Len(Front(s)) : Append(Front(s), x)[k] = Front(s)[k]
      /\ Append(Front(s), x)[Len(Front(s)) + 1] = x
  BY <1>1, SeqAppend
<1> QED BY <1>1, <1>2

Replaced(s, t, x) ==
  /\ IsSeq(t) /\ Len(t) = Len(s) /\ t # <<>>
  /\ \A k \in 1..Len(s) - 1 : t[k] = s[k]
  /\ t[Len(s)] = x

LEMMA SeqReplaced ==
  ASSUME NEW s, IsSeq(s), s # <<>>, NEW x, NEW t, t = Append(Front(s), x)
  PROVE  Replaced(s, t, x)
BY SeqReplaceLast DEF Replaced

-----------------------------------------------------------------------------
(* Lookup goes through the states of Descend, one for every token of a name. *)

\* st[n] is the state after n tokens.
IsDescent(st, name) ==
  /\ st[0] = Start
  /\ \A n \in 0..Len(name) - 1 : st[n + 1] = Descend(st[n], name[n + 1])

\* A fold takes the greatest index off a set of them.
LEMMA MaxOf ==
  ASSUME NEW n \in Nat, NEW s \in SUBSET (1..n + 1), n + 1 \in s
  PROVE  Max(s) = n + 1
<1>1. \A y \in s : n + 1 >= y
  OBVIOUS
<1>2. \A x \in s : (\A y \in s : x >= y) => x = n + 1
  <2> SUFFICES ASSUME NEW x \in s, \A y \in s : x >= y PROVE x = n + 1
    OBVIOUS
  <2>1. x >= n + 1 /\ x \in 1..n + 1
    OBVIOUS
  <2> QED BY <2>1
<1> QED BY <1>1, <1>2 DEF Max

\* The function that a fold over the tokens of a name defines.
DescentDef(name, g) ==
  [s \in SUBSET DOMAIN name |->
     IF s = {} THEN Start
     ELSE LET x == Max(s) IN Descend(g[s \ {x}], name[x])]

LEMMA FoldDescend ==
  ASSUME NEW name
  PROVE  FoldLeft(Descend, Start, name) = (CHOOSE g : g = DescentDef(name, g))[DOMAIN name]
BY DEF FoldLeft, MapThenFoldSet, DescentDef

\* There is such a function.
LEMMA DescentExists ==
  ASSUME NEW name, IsSeq(name)
  PROVE  \E g : g = DescentDef(name, g)
<1> DEFINE Def(n, g) ==
             [s \in SUBSET (1..n) |->
                IF s = {} THEN Start
                ELSE LET x == Max(s) IN Descend(g[s \ {x}], name[x])]
           T == {n \in Nat : \E g : g = Def(n, g)}
<1>1. 0 \in T
  <2> DEFINE g == [s \in SUBSET (1..0) |-> Start]
  <2>1. \A s \in SUBSET (1..0) : s = {}
    OBVIOUS
  <2>2. g = Def(0, g)
    BY <2>1
  <2> QED BY <2>2
<1>2. ASSUME NEW n \in T PROVE n + 1 \in T
  <2>1. PICK g : g = Def(n, g)
    OBVIOUS
  <2> DEFINE h == [s \in SUBSET (1..n + 1) |->
                     IF n + 1 \in s THEN Descend(g[s \ {n + 1}], name[n + 1]) ELSE g[s]]
  <2>2. ASSUME NEW s \in SUBSET (1..n + 1)
        PROVE  h[s] = IF s = {} THEN Start
                      ELSE LET x == Max(s) IN Descend(h[s \ {x}], name[x])
    <3>1. CASE n + 1 \in s
      <4>1. Max(s) = n + 1
        BY <3>1, MaxOf
      <4>2. s \ {n + 1} \in SUBSET (1..n + 1) /\ n + 1 \notin s \ {n + 1}
        OBVIOUS
      <4>3. h[s \ {n + 1}] = g[s \ {n + 1}]
        BY <4>2
      <4>4. h[s] = Descend(g[s \ {n + 1}], name[n + 1])
        BY <3>1
      <4> HIDE DEF h
      <4> QED BY <3>1, <4>1, <4>3, <4>4
    <3>2. CASE n + 1 \notin s
      <4>1. s \in SUBSET (1..n)
        BY <3>2
      <4>2. g[s] = IF s = {} THEN Start
                   ELSE LET x == Max(s) IN Descend(g[s \ {x}], name[x])
        BY <2>1, <4>1
      <4>3. \A x : s \ {x} \in SUBSET (1..n + 1) /\ n + 1 \notin s \ {x}
        BY <3>2
      <4>4. \A x : h[s \ {x}] = g[s \ {x}]
        BY <4>3
      <4>5. h[s] = g[s]
        BY <3>2
      <4> HIDE DEF h
      <4> QED BY <4>2, <4>4, <4>5
    <3> QED BY <3>1, <3>2
  <2>3. h = [s \in SUBSET (1..n + 1) |-> h[s]]
    OBVIOUS
  <2> DEFINE d == Def(n + 1, h)
  <2>4. d = [s \in SUBSET (1..n + 1) |-> d[s]]
    OBVIOUS
  <2>5. \A s \in SUBSET (1..n + 1) : d[s] = IF s = {} THEN Start
                      ELSE LET x == Max(s) IN Descend(h[s \ {x}], name[x])
    <3> HIDE DEF h
    <3> QED OBVIOUS
  <2> HIDE DEF h, d
  <2>6. \A s \in SUBSET (1..n + 1) : h[s] = d[s]
    BY <2>2, <2>5
  <2>7. h = d
    BY <2>3, <2>4, <2>6
  <2>8. h = Def(n + 1, h)
    BY <2>7 DEF d
  <2>9. n + 1 \in Nat /\ \E x : x = Def(n + 1, x)
    <3> HIDE DEF Def
    <3> QED BY <2>8
  <2> QED BY <2>9
<1>3. Len(name) \in T
  <2> HIDE DEF T
  <2> QED BY <1>1, <1>2, NatSetInduction, SeqLength
<1>4. PICK g : g = Def(Len(name), g)
  BY <1>3
<1>5. DOMAIN name = 1..Len(name)
  BY SeqLength
<1> QED BY <1>4, <1>5 DEF DescentDef

\* Lookup by steps.
LEMMA LookupSteps ==
  ASSUME NEW name, IsSeq(name)
  PROVE  \E st : IsDescent(st, name) /\ FoldLeft(Descend, Start, name) = st[Len(name)]
<1> DEFINE g == CHOOSE g : g = DescentDef(name, g)
           st == [n \in 0..Len(name) |-> g[1..n]]
<1>1. Len(name) \in Nat /\ DOMAIN name = 1..Len(name)
  BY SeqLength
<1>2. g = DescentDef(name, g)
  BY DescentExists
<1>3. FoldLeft(Descend, Start, name) = g[1..Len(name)]
  BY <1>1, FoldDescend
<1> HIDE DEF g
<1>4. \A s \in SUBSET (1..Len(name)) :
        g[s] = IF s = {} THEN Start ELSE LET x == Max(s) IN Descend(g[s \ {x}], name[x])
  BY <1>1, <1>2 DEF DescentDef
<1>5. st[0] = Start
  <2>1. 1..0 = {} /\ {} \in SUBSET (1..Len(name))
    OBVIOUS
  <2>2. g[1..0] = Start
    BY <1>4, <2>1
  <2>3. 0 \in 0..Len(name)
    BY <1>1
  <2> QED BY <2>2, <2>3
<1>6. ASSUME NEW n \in 0..Len(name) - 1 PROVE st[n + 1] = Descend(st[n], name[n + 1])
  <2>1. n \in Nat /\ n + 1 <= Len(name) /\ n \in 0..Len(name) /\ n + 1 \in 0..Len(name)
    BY <1>1
  <2>2. Max(1..n + 1) = n + 1
    BY <2>1, MaxOf
  <2>3. (1..n + 1) \ {n + 1} = 1..n /\ 1..n + 1 # {} /\ 1..n + 1 \in SUBSET (1..Len(name))
    <3>1. (1..n + 1) \ {n + 1} = 1..n /\ 1 \in 1..n + 1
      BY <2>1
    <3>2. \A m \in 1..n + 1 : m \in 1..Len(name)
      BY <1>1, <2>1
    <3> QED BY <3>1, <3>2
  <2>4. g[1..n + 1] = Descend(g[1..n], name[n + 1])
    BY <1>4, <2>2, <2>3
  <2> QED BY <2>1, <2>4
<1>7. IsDescent(st, name)
  BY <1>5, <1>6 DEF IsDescent
<1>8. st[Len(name)] = g[1..Len(name)]
  BY <1>1
<1> QED BY <1>3, <1>7, <1>8

-----------------------------------------------------------------------------
(* What Find and Place, the position of an object's token in a name, return. *)

Prefix(o, n) == SubSeq(o, 1, n)
Up(o, n) == Find(Prefix(o, n))
Place(o, n) == n + Cardinality({m \in 1..(n - 1) : IsList(Up(o, m))})

LEMMA OrderNames ==
  /\ Len(Order) \in Nat /\ DOMAIN Order = 1..Len(Order)
  /\ \A k \in 1..Len(Order) : IsSeq(Order[k]) /\ Len(Order[k]) \in Nat /\ Len(Order[k]) > 1
  /\ \A j, k \in 1..Len(Order) : Order[j] = Order[k] => j = k
<1>1. Order \in Seq(Seq(STRING)) /\ IsInjective(Order)
  BY FilesAssumption
<1>2. Len(Order) \in Nat /\ DOMAIN Order = 1..Len(Order)
  BY <1>1, LenProperties
<1>3. ASSUME NEW k \in 1..Len(Order)
      PROVE  IsSeq(Order[k]) /\ Len(Order[k]) \in Nat /\ Len(Order[k]) > 1
  <2>1. Order[k] \in Seq(STRING)
    BY <1>1, ElementOfSeq
  <2>2. Order[k] \in ToSet(Order)
    BY <1>2 DEF ToSet
  <2>3. Len(Order[k]) > 1
    BY <2>2, NamesAssumption
  <2> QED BY <2>1, <2>3, LenProperties DEF IsSeq
<1>4. \A j, k \in 1..Len(Order) : Order[j] = Order[k] => j = k
  BY <1>1, <1>2 DEF IsInjective
<1> QED BY <1>2, <1>3, <1>4

LEMMA FindIs ==
  ASSUME NEW name
  PROVE  /\ Find(name) \in 0..Len(Order)
         /\ \A k \in 1..Len(Order) : Find(name) = k <=> name = Order[k]
<1>1. /\ Len(Order) \in Nat /\ DOMAIN Order = 1..Len(Order)
      /\ \A j, k \in 1..Len(Order) : Order[j] = Order[k] => j = k
  BY OrderNames
<1>2. Contains(Order, name) <=> \E k \in 1..Len(Order) : Order[k] = name
  BY <1>1 DEF Contains
<1>3. CASE Contains(Order, name)
  <2>1. PICK k \in 1..Len(Order) : Order[k] = name
    BY <1>2, <1>3
  <2>2. Find(name) = k
    BY <1>1, <1>3, <2>1 DEF Find
  <2> QED BY <1>1, <2>1, <2>2
<1>4. CASE ~Contains(Order, name)
  BY <1>1, <1>2, <1>4 DEF Find, None
<1> QED BY <1>3, <1>4

LEMMA PlaceStep ==
  ASSUME NEW o, NEW n \in Nat \ {0}
  PROVE  /\ Place(o, 1) = 1
         /\ Place(o, n) \in Nat \ {0}
         /\ Place(o, n + 1) = Place(o, n) + 1 + IF IsList(Up(o, n)) THEN 1 ELSE 0
<1> DEFINE lists(k) == {m \in 1..k : IsList(Up(o, m))}
<1>1. \A k \in Nat : IsFiniteSet(lists(k)) /\ Cardinality(lists(k)) \in Nat
  <2> TAKE k \in Nat
  <2>1. IsFiniteSet(1..k)
    BY FS_Interval
  <2>2. IsFiniteSet(lists(k))
    BY <2>1, FS_Subset
  <2> QED BY <2>2, FS_CardinalityType
<1>2. Place(o, 1) = 1
  <2>1. {m \in 1..(1 - 1) : IsList(Up(o, m))} = {}
    OBVIOUS
  <2> QED BY <2>1, FS_EmptySet DEF Place
<1>3. n - 1 \in Nat /\ n + 1 - 1 = n
  OBVIOUS
<1>4. Place(o, n) = n + Cardinality(lists(n - 1)) /\ Place(o, n + 1) = n + 1 + Cardinality(lists(n))
  BY <1>3 DEF Place
<1>5. Cardinality(lists(n)) = Cardinality(lists(n - 1)) + IF IsList(Up(o, n)) THEN 1 ELSE 0
  <2>1. CASE IsList(Up(o, n))
    <3>1. lists(n) = lists(n - 1) \cup {n} /\ n \notin lists(n - 1)
      BY <2>1
    <3> HIDE DEF lists
    <3>2. Cardinality(lists(n - 1) \cup {n}) = Cardinality(lists(n - 1)) + 1
      BY <1>1, <1>3, <3>1, FS_AddElement
    <3> QED BY <2>1, <3>1, <3>2
  <2>2. CASE ~IsList(Up(o, n))
    <3>1. lists(n) = lists(n - 1)
      BY <2>2
    <3> HIDE DEF lists
    <3>2. Cardinality(lists(n - 1)) \in Nat
      BY <1>1, <1>3
    <3> QED BY <2>2, <3>1, <3>2
  <2> QED BY <2>1, <2>2
<1> HIDE DEF lists
<1>6. Cardinality(lists(n - 1)) \in Nat
  BY <1>1, <1>3
<1> QED BY <1>2, <1>4, <1>5, <1>6

\* A longer name has its tokens further on.
LEMMA PlaceGrows ==
  ASSUME NEW o, NEW m \in Nat \ {0}, NEW n \in Nat \ {0}, m <= n
  PROVE  Place(o, m) <= Place(o, n)
<1> DEFINE T == {d \in Nat : Place(o, m) <= Place(o, m + d)}
<1>1. 0 \in T
  BY PlaceStep
<1>2. ASSUME NEW d \in T PROVE d + 1 \in T
  <2>1. m + d \in Nat \ {0} /\ (m + d) + 1 = m + (d + 1) /\ Place(o, m) <= Place(o, m + d)
    OBVIOUS
  <2>2. /\ Place(o, m) \in Nat /\ Place(o, m + d) \in Nat
        /\ Place(o, m + d + 1) = Place(o, m + d) + 1 + IF IsList(Up(o, m + d)) THEN 1 ELSE 0
    BY <2>1, PlaceStep
  <2>3. Place(o, m) <= Place(o, m + (d + 1))
    <3> DEFINE x == Place(o, m + d)
               y == Place(o, m + d + 1)
               z == Place(o, m)
    <3>1. z \in Nat /\ x \in Nat /\ z <= x /\ (y = x + 1 \/ y = x + 2)
      BY <2>1, <2>2
    <3>2. y = Place(o, m + (d + 1))
      BY <2>1
    <3> HIDE DEF x, y, z
    <3>3. z <= y
      BY <3>1
    <3> QED BY <3>2, <3>3 DEF z
  <2> QED BY <2>3
<1>3. n - m \in T
  <2> HIDE DEF T
  <2> QED BY <1>1, <1>2, NatSetInduction
<1>4. m + (n - m) = n
  OBVIOUS
<1> QED BY <1>3, <1>4

\* The prefixes of a name.
LEMMA PrefixIs ==
  ASSUME NEW o, IsSeq(o), NEW n \in 1..Len(o)
  PROVE  /\ IsSeq(Prefix(o, n)) /\ Len(Prefix(o, n)) = n
         /\ \A k \in 1..n : Prefix(o, n)[k] = o[k]
<1>1. PICK S : o \in Seq(S)
  BY DEF IsSeq
<1>2. Len(o) \in Nat /\ \A k \in 1..Len(o) : o[k] \in S
  BY <1>1, ElementOfSeq, LenProperties
<1>3. \A k \in 1..n : o[k] \in S
  BY <1>2
<1>4. /\ SubSeq(o, 1, n) \in Seq(S)
      /\ Len(SubSeq(o, 1, n)) = IF 1 <= n THEN n - 1 + 1 ELSE 0
      /\ \A k \in 1..n - 1 + 1 : SubSeq(o, 1, n)[k] = o[1 + k - 1]
  BY <1>2, <1>3, SubSeqProperties
<1>5. n \in Nat /\ 1 <= n /\ n - 1 + 1 = n /\ \A k \in 1..n : 1 + k - 1 = k
  BY <1>2
<1>6. (IF 1 <= n THEN n - 1 + 1 ELSE 0) = n
  BY <1>5
<1>7. /\ Prefix(o, n) \in Seq(S) /\ Len(Prefix(o, n)) = n
      /\ \A k \in 1..n : Prefix(o, n)[k] = o[1 + k - 1]
  BY <1>4, <1>5, <1>6 DEF Prefix
<1>8. \A k \in 1..n : Prefix(o, n)[k] = o[k]
  BY <1>5, <1>7
<1> QED BY <1>7, <1>8 DEF IsSeq

LEMMA SeqSame ==
  ASSUME NEW s, NEW t, IsSeq(s), IsSeq(t), Len(s) = Len(t), \A k \in 1..Len(s) : s[k] = t[k]
  PROVE  s = t
<1>1. PICK S : s \in Seq(S)
  BY DEF IsSeq
<1>2. PICK T : t \in Seq(T)
  BY DEF IsSeq
<1>3. s \in Seq(S \cup T) /\ t \in Seq(S \cup T)
  BY <1>1, <1>2
<1> QED BY <1>3, SeqEqual

LEMMA PrefixesAppend ==
  ASSUME NEW o, IsSeq(o), NEW t
  PROVE  /\ \A n \in 1..Len(o) : Up(Append(o, t), n) = Up(o, n)
         /\ Up(Append(o, t), Len(o) + 1) = Find(Append(o, t))
         /\ \A n \in 1..Len(o) + 1 : Place(Append(o, t), n) = Place(o, n)
<1> DEFINE a == Append(o, t)
<1>1. /\ Len(o) \in Nat /\ IsSeq(a) /\ Len(a) = Len(o) + 1
      /\ \A k \in 1..Len(o) : a[k] = o[k]
  BY SeqAppend, SeqLength
<1> HIDE DEF a
<1>2. ASSUME NEW n \in 1..Len(o) PROVE Prefix(a, n) = Prefix(o, n)
  <2>1. /\ IsSeq(Prefix(o, n)) /\ Len(Prefix(o, n)) = n
        /\ \A k \in 1..n : Prefix(o, n)[k] = o[k]
    BY PrefixIs
  <2>2. n \in 1..Len(a) /\ \A k \in 1..n : k \in 1..Len(o)
    BY <1>1
  <2>3. /\ IsSeq(Prefix(a, n)) /\ Len(Prefix(a, n)) = n
        /\ \A k \in 1..n : Prefix(a, n)[k] = a[k]
    BY <1>1, <2>2, PrefixIs
  <2>4. \A k \in 1..n : Prefix(a, n)[k] = Prefix(o, n)[k]
    BY <1>1, <2>1, <2>2, <2>3
  <2> QED BY <2>1, <2>3, <2>4, SeqSame
<1>3. Prefix(a, Len(o) + 1) = a
  <2>1. Len(o) + 1 \in 1..Len(a)
    BY <1>1
  <2> QED BY <1>1, <2>1, PrefixIs, SeqSame
<1>4. \A n \in 1..Len(o) : Up(a, n) = Up(o, n)
  BY <1>2 DEF Up
<1>5. ASSUME NEW n \in 1..Len(o) + 1 PROVE Place(a, n) = Place(o, n)
  <2>1. \A m \in 1..(n - 1) : m \in 1..Len(o)
    BY <1>1
  <2>2. {m \in 1..(n - 1) : IsList(Up(a, m))} = {m \in 1..(n - 1) : IsList(Up(o, m))}
    BY <1>4, <2>1
  <2> QED BY <2>2 DEF Place
<1> QED BY <1>3, <1>4, <1>5 DEF a, Up

-----------------------------------------------------------------------------
(* What Lookup finds: the object whose instance, or item, the name is.      *)

\* What a state that is not lost says of the m tokens read so far.
Read(name, s, m) ==
  /\ IsSeq(s.full) /\ s.object = Find(s.full)
  /\ s.inList <=> IsList(s.object) /\ ~s.item
  /\ s.item => IsList(s.object)
  /\ m = 0 => s.full = <<>> /\ s.object = None
  /\ m # 0 => Len(s.full) > 0 /\ m = Place(s.full, Len(s.full)) + (IF s.item THEN 1 ELSE 0)
  /\ \A n \in 1..Len(s.full) : name[Place(s.full, n)] = s.full[n]
  /\ \A n, k \in 1..Len(s.full) : n < k /\ Up(s.full, n) # None => Up(s.full, k) # None

IsState(s) == /\ s = [full |-> s.full, object |-> s.object, inList |-> s.inList,
                      item |-> s.item, lost |-> s.lost]
              /\ {s.inList, s.item, s.lost} \subseteq BOOLEAN

LEMMA StartIs == IsState(Start) /\ ~Start.lost /\ Start.object = None /\ Start.full = <<>>
                 /\ ~Start.inList /\ ~Start.item
BY DEF Start, IsState, None

LEMMA DescendIs ==
  ASSUME NEW s, IsState(s), NEW token
  PROVE  LET t == Descend(s, token)
             full == Append(s.full, token)
         IN  /\ IsState(t)
             /\ s.lost => t = s
             /\ ~s.lost /\ s.inList => /\ t.full = s.full /\ t.object = s.object
                                       /\ ~t.inList /\ t.item /\ ~t.lost
             /\ ~s.lost /\ ~s.inList =>
                  /\ t.full = full /\ ~t.item
                  /\ t.object = IF Find(full) # None THEN Find(full) ELSE s.object
                  /\ t.inList <=> IsList(Find(full))
                  /\ t.lost <=> Find(full) = None /\ s.object # None
BY DEF IsState, Descend, IsList

LEMMA NoEmptyName == Find(<<>>) = None
<1>1. \A k \in 1..Len(Order) : Order[k] # <<>>
  <2> TAKE k \in 1..Len(Order)
  <2>1. Len(Order[k]) > 1 /\ Len(<<>>) = 0
    BY OrderNames, SeqEmpty
  <2> QED BY <2>1
<1>2. Len(Order) \in Nat
  BY OrderNames
<1> QED BY <1>1, <1>2, FindIs DEF None

LEMMA ReadStep ==
  ASSUME NEW name, NEW m \in Nat, NEW s, IsState(s), ~s.lost, Read(name, s, m),
         ~Descend(s, name[m + 1]).lost
  PROVE  Read(name, Descend(s, name[m + 1]), m + 1)
<1> DEFINE token == name[m + 1]
           t == Descend(s, token)
           o == Append(s.full, token)
<1>0. /\ IsState(t) /\ ~t.lost
      /\ s.inList => t.full = s.full /\ t.object = s.object /\ ~t.inList /\ t.item
      /\ ~s.inList => /\ t.full = o /\ ~t.item
                      /\ t.object = IF Find(o) # None THEN Find(o) ELSE s.object
                      /\ t.inList <=> IsList(Find(o))
                      /\ ~(Find(o) = None /\ s.object # None)
  BY DescendIs
<1>1. Len(s.full) \in Nat /\ IsSeq(s.full) /\ (s.full = <<>> <=> Len(s.full) = 0)
  BY SeqLength DEF Read
<1> HIDE DEF t
<1>2. CASE s.inList
  <2>1. /\ IsList(s.object) /\ ~s.item /\ t.full = s.full /\ t.object = s.object
        /\ ~t.inList /\ t.item
    BY <1>0, <1>2 DEF Read
  <2>2. m # 0
    BY <2>1 DEF Read, IsList
  <2>3. m + 1 # 0 /\ Len(s.full) > 0 /\ m + 1 = Place(s.full, Len(s.full)) + 1
    BY <1>1, <2>1, <2>2, PlaceStep DEF Read
  <2> QED BY <2>1, <2>3 DEF Read, t
<1>3. CASE ~s.inList
  <2>1. /\ t.full = o /\ ~t.item /\ t.object = Find(o) /\ (t.inList <=> IsList(Find(o)))
        /\ ~(Find(o) = None /\ s.object # None)
    BY <1>0, <1>3
  <2>2. /\ IsSeq(o) /\ Len(o) = Len(s.full) + 1
        /\ \A n \in 1..Len(s.full) : o[n] = s.full[n]
        /\ o[Len(s.full) + 1] = token
    BY <1>1, SeqAppend
  <2>3. /\ \A n \in 1..Len(s.full) : Up(o, n) = Up(s.full, n)
        /\ Up(o, Len(s.full) + 1) = Find(o)
        /\ \A n \in 1..Len(s.full) + 1 : Place(o, n) = Place(s.full, n)
    BY <1>1, PrefixesAppend
  <2>4. Place(o, Len(o)) = m + 1
    <3>1. Place(o, Len(o)) = Place(s.full, Len(s.full) + 1)
      BY <1>1, <2>2, <2>3
    <3>2. CASE m = 0
      <4>1. Len(s.full) = 0
        BY <1>1, <3>2 DEF Read
      <4>2. Place(s.full, 1) = 1
        BY PlaceStep
      <4> QED BY <3>1, <3>2, <4>1, <4>2
    <3>3. CASE m # 0
      <4>1. /\ Len(s.full) \in Nat \ {0}
            /\ m = Place(s.full, Len(s.full)) + (IF s.item THEN 1 ELSE 0)
            /\ s.item <=> IsList(s.object)
        BY <1>1, <1>3, <3>3 DEF Read
      <4>2. /\ Place(s.full, Len(s.full)) \in Nat
            /\ Place(s.full, Len(s.full) + 1) = Place(s.full, Len(s.full)) + 1
                 + IF IsList(Up(s.full, Len(s.full))) THEN 1 ELSE 0
        BY <4>1, PlaceStep
      <4>3. Up(s.full, Len(s.full)) = s.object
        <5>1. Prefix(s.full, Len(s.full)) = s.full
          <6>1. Len(s.full) \in 1..Len(s.full)
            BY <4>1
          <6> QED BY <1>1, <6>1, PrefixIs, SeqSame, SMTT(30)
        <5> QED BY <5>1 DEF Up, Read
      <4> QED BY <3>1, <4>1, <4>2, <4>3
    <3> QED BY <3>2, <3>3
  <2>5. ASSUME NEW n \in 1..Len(o) PROVE name[Place(o, n)] = o[n]
    <3>1. CASE n = Len(o)
      BY <1>1, <2>2, <2>4, <3>1
    <3>2. CASE n # Len(o)
      <4>1. n \in 1..Len(s.full) /\ n \in 1..Len(s.full) + 1
        BY <1>1, <2>2, <3>2
      <4> QED BY <2>2, <2>3, <4>1 DEF Read
    <3> QED BY <3>1, <3>2
  <2>6. ASSUME NEW n \in 1..Len(o), NEW k \in 1..Len(o), n < k, Up(o, n) # None
        PROVE  Up(o, k) # None
    <3>1. n \in 1..Len(s.full) /\ Up(s.full, n) # None
      BY <1>1, <2>2, <2>3, <2>6
    <3>2. CASE k = Len(o)
      <4>1. s.object # None
        <5>1. Prefix(s.full, Len(s.full)) = s.full
          <6>1. Len(s.full) \in 1..Len(s.full)
            BY <1>1, <3>1
          <6> QED BY <1>1, <6>1, PrefixIs, SeqSame
        <5>2. Up(s.full, Len(s.full)) = s.object
          BY <5>1 DEF Up, Read
        <5>3. n = Len(s.full) \/ (n < Len(s.full) /\ Len(s.full) \in 1..Len(s.full))
          BY <1>1, <3>1
        <5> QED BY <3>1, <5>2, <5>3 DEF Read
      <4> QED BY <2>1, <2>2, <2>3, <3>2, <4>1
    <3>3. CASE k # Len(o)
      <4>1. k \in 1..Len(s.full)
        BY <1>1, <2>2, <3>3
      <4> QED BY <2>3, <2>6, <3>1, <4>1 DEF Read
    <3> QED BY <3>2, <3>3
  <2>7. m + 1 # 0 /\ Len(o) > 0 /\ m + 1 = Place(o, Len(o)) + 0
    BY <1>1, <2>2, <2>4
  <2> HIDE DEF o
  <2> QED BY <2>1, <2>2, <2>5, <2>6, <2>7 DEF Read, t
<1> QED BY <1>2, <1>3

\* All states of a lookup.
LEMMA LookupReads ==
  ASSUME NEW name, IsSeq(name), NEW st, IsDescent(st, name), NEW m \in 0..Len(name)
  PROVE  IsState(st[m]) /\ (~st[m].lost => Read(name, st[m], m))
<1> DEFINE T == {n \in Nat : n <= Len(name) =>
                               IsState(st[n]) /\ (~st[n].lost => Read(name, st[n], n))}
<1>0. Len(name) \in Nat
  BY SeqLength
<1>1. 0 \in T
  <2>1. Read(name, Start, 0)
    BY StartIs, SeqEmpty, NoEmptyName DEF Read, IsList
  <2> QED BY <2>1, StartIs DEF IsDescent
<1>2. ASSUME NEW n \in T PROVE n + 1 \in T
  <2> SUFFICES ASSUME n + 1 <= Len(name)
               PROVE  IsState(st[n + 1]) /\ (~st[n + 1].lost => Read(name, st[n + 1], n + 1))
    OBVIOUS
  <2>1. n \in Nat /\ IsState(st[n]) /\ (~st[n].lost => Read(name, st[n], n))
    BY <1>0
  <2>2. st[n + 1] = Descend(st[n], name[n + 1])
    BY <1>0, <2>1 DEF IsDescent
  <2>3. IsState(st[n + 1]) /\ (st[n].lost => st[n + 1] = st[n])
    BY <2>1, <2>2, DescendIs
  <2>4. ~st[n + 1].lost => ~st[n].lost
    BY <2>3
  <2> QED BY <2>1, <2>2, <2>3, <2>4, ReadStep
<1> HIDE DEF T
<1>3. m \in T
  BY <1>0, <1>1, <1>2, NatSetInduction
<1> QED BY <1>0, <1>3 DEF T

LEMMA LookupIs ==
  ASSUME NEW name, IsSeq(name)
  PROVE  \E st : /\ IsDescent(st, name)
                 /\ Lookup(name) = IF st[Len(name)].lost THEN Start ELSE st[Len(name)]
<1>1. PICK st : IsDescent(st, name) /\ FoldLeft(Descend, Start, name) = st[Len(name)]
  BY LookupSteps
<1> QED BY <1>1 DEF Lookup

LEMMA InstanceOf ==
  ASSUME NEW name, NEW k, NEW item
  PROVE  IsInstanceOf(name, k, item) <=>
           LET o == Order[k]
           IN  /\ Len(name) = Place(o, Len(o)) + (IF item THEN 1 ELSE 0)
               /\ item => IsList(k)
               /\ \A n \in 1..Len(o) : name[Place(o, n)] = o[n]
               /\ \A m, n \in 1..Len(o) : m < n /\ Up(o, m) # None => Up(o, n) # None
BY DEF IsInstanceOf, Place, Up, Prefix

\* What is found is what is meant.
LEMMA FoundIsMeant ==
  ASSUME NEW name, IsSeq(name), NEW k \in 1..Len(Order), ObjectInfo(name) = k
  PROVE  IsInstanceOf(name, k, Lookup(name).item)
<1>1. PICK st : /\ IsDescent(st, name)
                /\ Lookup(name) = IF st[Len(name)].lost THEN Start ELSE st[Len(name)]
  BY LookupIs
<1> DEFINE s == st[Len(name)]
<1>2. k # None
  BY OrderNames DEF None
<1>3. ~s.lost /\ Lookup(name) = s /\ s.object = k
  BY <1>1, <1>2, StartIs DEF ObjectInfo
<1>4. Len(name) \in Nat /\ Len(name) \in 0..Len(name)
  BY SeqLength
<1>5. IsState(s) /\ Read(name, s, Len(name))
  BY <1>1, <1>3, <1>4, LookupReads
<1> HIDE DEF s
<1>6. s.full = Order[k]
  BY <1>3, <1>5, FindIs DEF Read
<1>7. Len(name) # 0
  BY <1>2, <1>3, <1>5 DEF Read
<1>8. s.item \in BOOLEAN /\ (s.item => IsList(k))
  BY <1>3, <1>5 DEF Read, IsState
<1> QED BY <1>3, <1>5, <1>6, <1>7, <1>8, InstanceOf DEF Read

\* What is meant is found: after the n-th token of the object.
LEMMA MeantIsRead ==
  ASSUME NEW name, IsSeq(name), NEW st, IsDescent(st, name),
         NEW k \in 1..Len(Order), NEW item \in BOOLEAN, IsInstanceOf(name, k, item),
         NEW m \in 1..Len(Order[k])
  PROVE  LET s == st[Place(Order[k], m)]
         IN  /\ Place(Order[k], m) \in 1..Len(name)
             /\ IsState(s) /\ ~s.lost /\ s.full = Prefix(Order[k], m)
             /\ s.object = Up(Order[k], m) /\ (s.inList <=> IsList(Up(Order[k], m))) /\ ~s.item
<1> DEFINE o == Order[k]
           Goal(n) == LET s == st[Place(o, n)]
                      IN  /\ IsState(s) /\ ~s.lost /\ s.full = Prefix(o, n) /\ ~s.item
                          /\ s.object = Up(o, n) /\ (s.inList <=> IsList(Up(o, n)))
           T == {n \in Nat : n + 1 <= Len(o) => Goal(n + 1)}
<1>0. IsSeq(o) /\ Len(o) \in Nat /\ Len(o) > 1 /\ Len(name) \in Nat
  BY OrderNames, SeqLength
<1>1. /\ Len(name) = Place(o, Len(o)) + (IF item THEN 1 ELSE 0)
      /\ \A n \in 1..Len(o) : name[Place(o, n)] = o[n]
      /\ \A i, n \in 1..Len(o) : i < n /\ Up(o, i) # None => Up(o, n) # None
  BY InstanceOf
<1> HIDE DEF o, Goal
<1>2. ASSUME NEW n \in 1..Len(o) PROVE Place(o, n) \in 1..Len(name)
  <2>1. n \in Nat \ {0} /\ Len(o) \in Nat \ {0} /\ n <= Len(o)
    BY <1>0
  <2>2. Place(o, n) <= Place(o, Len(o))
    BY <2>1, PlaceGrows
  <2>3. Place(o, n) \in Nat \ {0} /\ Place(o, Len(o)) \in Nat
    BY <2>1, PlaceStep
  <2>4. Place(o, Len(o)) <= Len(name)
    BY <1>1, <2>3
  <2> QED BY <1>0, <2>2, <2>3, <2>4
\* One more token from a state s, in which the next prefix is read.
<1>3. ASSUME NEW s, IsState(s), ~s.lost, ~s.inList, NEW n \in 1..Len(o),
             Append(s.full, o[n]) = Prefix(o, n),
             s.object = None \/ Up(o, n) # None
      PROVE  LET t == Descend(s, o[n])
             IN  /\ IsState(t) /\ ~t.lost /\ t.full = Prefix(o, n) /\ ~t.item
                 /\ t.object = Up(o, n) /\ (t.inList <=> IsList(Up(o, n)))
  <2> DEFINE t == Descend(s, o[n])
  <2>1. /\ IsState(t) /\ t.full = Append(s.full, o[n]) /\ ~t.item
        /\ t.object = IF Find(Append(s.full, o[n])) # None THEN Find(Append(s.full, o[n]))
                      ELSE s.object
        /\ t.inList <=> IsList(Find(Append(s.full, o[n])))
        /\ t.lost <=> Find(Append(s.full, o[n])) = None /\ s.object # None
    BY <1>3, DescendIs
  <2>2. Find(Append(s.full, o[n])) = Up(o, n)
    BY <1>3 DEF Up
  <2> HIDE DEF t
  <2>3. t.lost \in BOOLEAN
    BY <2>1 DEF IsState
  <2> QED BY <1>3, <2>1, <2>2, <2>3 DEF t
<1>4. 0 \in T
  <2>1. Place(o, 1) = 1
    BY PlaceStep
  <2>2. 0 \in 0..Len(name) - 1 /\ 1 \in 1..Len(o)
    BY <1>0, <1>1, <1>2, <2>1
  <2>3. st[1] = Descend(Start, o[1])
    <3>1. st[0 + 1] = Descend(st[0], name[0 + 1]) /\ st[0] = Start
      BY <2>2 DEF IsDescent
    <3>2. name[1] = o[1]
      BY <1>1, <2>1, <2>2
    <3> QED BY <3>1, <3>2
  <2>4. Append(Start.full, o[1]) = Prefix(o, 1)
    <3>1. /\ IsSeq(Prefix(o, 1)) /\ Len(Prefix(o, 1)) = 1
          /\ \A i \in 1..1 : Prefix(o, 1)[i] = o[i]
      BY <1>0, <2>2, PrefixIs
    <3> DEFINE e == Start.full
               a == Append(e, o[1])
    <3>2. IsSeq(e) /\ Len(e) = 0
      BY StartIs, SeqEmpty
    <3> HIDE DEF e
    <3>3. IsSeq(a) /\ Len(a) = Len(e) + 1 /\ a[Len(e) + 1] = o[1]
      BY <3>2, SeqAppend, Zenon
    <3> HIDE DEF a
    <3>3a. Len(a) = 1 /\ a[1] = o[1]
      BY <3>2, <3>3
    <3>4. \A i \in 1..1 : a[i] = Prefix(o, 1)[i]
      BY <3>1, <3>3a
    <3>5. a = Prefix(o, 1)
      BY <3>1, <3>3, <3>3a, <3>4, SeqSame
    <3> QED BY <3>5 DEF a, e
  <2> DEFINE t == Descend(Start, o[1])
  <2>5. /\ IsState(t) /\ ~t.lost /\ t.full = Prefix(o, 1) /\ ~t.item
        /\ t.object = Up(o, 1) /\ (t.inList <=> IsList(Up(o, 1)))
    BY <1>3, <2>2, <2>4, StartIs
  <2>6. Goal(1)
    BY <2>1, <2>3, <2>5 DEF Goal
  <2> QED BY <2>6
<1>5. ASSUME NEW d \in T PROVE d + 1 \in T
  <2> DEFINE n == d + 1
  <2> SUFFICES ASSUME n + 1 <= Len(o) PROVE Goal(n + 1)
    OBVIOUS
  <2>0. d \in Nat /\ n \in Nat \ {0} /\ n \in 1..Len(o) /\ n + 1 \in 1..Len(o) /\ Goal(n)
    BY <1>0
  <2> HIDE DEF n
  <2> DEFINE p == Place(o, n)
             s == st[p]
  <2>1. /\ IsState(s) /\ ~s.lost /\ s.full = Prefix(o, n) /\ ~s.item
        /\ s.object = Up(o, n) /\ (s.inList <=> IsList(Up(o, n)))
    BY <2>0 DEF Goal
  <2>2. /\ p \in 1..Len(name) /\ Place(o, n + 1) \in 1..Len(name)
        /\ Place(o, n + 1) = p + 1 + IF IsList(Up(o, n)) THEN 1 ELSE 0
    BY <1>2, <2>0, PlaceStep
  <2>3. name[Place(o, n + 1)] = o[n + 1]
    BY <1>1, <2>0
  <2>4. Append(Prefix(o, n), o[n + 1]) = Prefix(o, n + 1)
    <3>1. /\ IsSeq(Prefix(o, n)) /\ Len(Prefix(o, n)) = n
          /\ \A i \in 1..n : Prefix(o, n)[i] = o[i]
      BY <1>0, <2>0, PrefixIs
    <3>2. /\ IsSeq(Prefix(o, n + 1)) /\ Len(Prefix(o, n + 1)) = n + 1
          /\ \A i \in 1..n + 1 : Prefix(o, n + 1)[i] = o[i]
      BY <1>0, <2>0, PrefixIs
    <3> DEFINE a == Append(Prefix(o, n), o[n + 1])
    <3>3. /\ IsSeq(a) /\ Len(a) = n + 1 /\ a[n + 1] = o[n + 1]
          /\ \A i \in 1..n : a[i] = Prefix(o, n)[i]
      BY <3>1, SeqAppend
    <3> HIDE DEF a
    <3>4. \A i \in 1..n + 1 : a[i] = Prefix(o, n + 1)[i]
      <4> TAKE i \in 1..n + 1
      <4>1. i \in 1..n \/ i = n + 1
        BY <2>0
      <4> QED BY <3>1, <3>2, <3>3, <4>1
    <3>5. a = Prefix(o, n + 1)
      BY <3>2, <3>3, <3>4, SeqSame
    <3> QED BY <3>5 DEF a
  <2>5. Up(o, n) # None => Up(o, n + 1) # None
    <3>1. n < n + 1
      BY <2>0
    <3> QED BY <1>1, <2>0, <3>1
  <2>6. \A i \in 0..Len(name) - 1 : st[i + 1] = Descend(st[i], name[i + 1])
    BY DEF IsDescent
  <2> HIDE DEF p, s
  <2>7. CASE ~IsList(Up(o, n))
    <3>1. Place(o, n + 1) = p + 1 /\ p \in 0..Len(name) - 1
      BY <1>0, <2>2, <2>7
    <3>2. st[p + 1] = Descend(s, o[n + 1])
      BY <2>3, <2>6, <3>1 DEF s
    <3>3. ~s.inList
      BY <2>1, <2>7
    <3>4. Append(s.full, o[n + 1]) = Prefix(o, n + 1)
      BY <2>1, <2>4
    <3> QED BY <1>3, <2>0, <2>1, <2>5, <3>1, <3>2, <3>3, <3>4, ZenonT(60) DEF Goal
  <2>8. CASE IsList(Up(o, n))
    <3>1. Place(o, n + 1) = p + 2 /\ p \in 0..Len(name) - 1 /\ p + 1 \in 0..Len(name) - 1
          /\ p + 1 + 1 = p + 2
      BY <1>0, <2>2, <2>8
    <3>2. st[p + 1] = Descend(s, name[p + 1])
      BY <2>6, <3>1 DEF s
    <3> DEFINE u == st[p + 1]
    <3>3. /\ IsState(u) /\ u.full = s.full /\ u.object = s.object /\ ~u.inList /\ ~u.lost
      BY <2>1, <2>8, <3>2, DescendIs
    <3>4. st[p + 2] = Descend(u, o[n + 1])
      BY <2>3, <2>6, <3>1
    <3> HIDE DEF u
    <3>5. Append(u.full, o[n + 1]) = Prefix(o, n + 1) /\ u.object = Up(o, n)
      BY <2>1, <2>4, <3>3
    <3> DEFINE t == Descend(u, o[n + 1])
    <3>6. /\ IsState(t) /\ ~t.lost /\ t.full = Prefix(o, n + 1) /\ ~t.item
          /\ t.object = Up(o, n + 1) /\ (t.inList <=> IsList(Up(o, n + 1)))
      BY <1>3, <2>0, <2>5, <3>3, <3>5
    <3> QED BY <3>1, <3>4, <3>6 DEF Goal
  <2> QED BY <2>7, <2>8
<1>6. m - 1 \in Nat /\ (m - 1) + 1 = m
  BY <1>0 DEF o
<1>7. Goal(m)
  <2>1. m - 1 \in T
    <3> HIDE DEF T
    <3> QED BY <1>4, <1>5, <1>6, NatSetInduction
  <2>2. m <= Len(o)
    BY <1>0 DEF o
  <2> QED BY <1>6, <2>1, <2>2
<1> QED BY <1>2, <1>7 DEF o, Goal

LEMMA MeantIsFound ==
  ASSUME NEW name, IsSeq(name), NEW k \in 1..Len(Order), NEW item \in BOOLEAN,
         IsInstanceOf(name, k, item)
  PROVE  ObjectInfo(name) = k /\ Lookup(name).item = item
<1>1. PICK st : /\ IsDescent(st, name)
                /\ Lookup(name) = IF st[Len(name)].lost THEN Start ELSE st[Len(name)]
  BY LookupIs
<1> DEFINE o == Order[k]
           p == Place(o, Len(o))
           s == st[p]
<1>2. IsSeq(o) /\ Len(o) \in Nat /\ Len(o) \in 1..Len(o) /\ Len(name) \in Nat
  BY OrderNames, SeqLength
<1>3. Len(name) = p + (IF item THEN 1 ELSE 0) /\ (item => IsList(k))
  BY InstanceOf
<1>4. Up(o, Len(o)) = k
  <2>1. Prefix(o, Len(o)) = o
    <3>1. PICK n \in 1..Len(o) : n = Len(o)
      BY <1>2
    <3>2. /\ IsSeq(Prefix(o, n)) /\ Len(Prefix(o, n)) = n
          /\ \A m \in 1..n : Prefix(o, n)[m] = o[m]
      BY <1>2, PrefixIs
    <3>3. Prefix(o, n) = o
      <4> HIDE DEF o
      <4> QED BY <1>2, <3>1, <3>2, SeqSame
    <3> QED BY <3>1, <3>3
  <2> QED BY <2>1, FindIs DEF Up
<1>5. /\ p \in 1..Len(name) /\ IsState(s) /\ ~s.lost /\ ~s.item
      /\ s.object = k /\ (s.inList <=> IsList(k))
  BY <1>1, <1>2, <1>4, MeantIsRead
<1> HIDE DEF o, p, s
<1>6. CASE ~item
  <2>1. Len(name) = p
    BY <1>2, <1>3, <1>5, <1>6
  <2>2. Lookup(name) = s
    BY <1>1, <1>5, <2>1 DEF s
  <2>3. s.item = FALSE
    BY <1>5 DEF IsState
  <2> QED BY <1>5, <1>6, <2>2, <2>3 DEF ObjectInfo
<1>7. CASE item
  <2>1. Len(name) = p + 1 /\ p \in 0..Len(name) - 1
    BY <1>2, <1>3, <1>5, <1>7
  <2> DEFINE t == st[p + 1]
  <2>2. t = Descend(s, name[p + 1])
    BY <1>1, <2>1 DEF IsDescent, s
  <2>3. IsState(t) /\ t.object = k /\ t.item /\ ~t.lost
    BY <1>3, <1>5, <1>7, <2>2, DescendIs
  <2>4. Lookup(name) = t
    BY <1>1, <2>1, <2>3
  <2> HIDE DEF t
  <2>5. t.item = TRUE
    BY <2>3 DEF IsState
  <2> QED BY <1>7, <2>3, <2>4, <2>5 DEF ObjectInfo
<1> QED BY <1>6, <1>7

\* Lookup is exact for every name, whatever the data model.
LEMMA LookupMeans ==
  ASSUME NEW name, IsSeq(name), NEW k \in 1..Len(Order), NEW item \in BOOLEAN
  PROVE  (ObjectInfo(name) = k /\ Lookup(name).item = item) <=> IsInstanceOf(name, k, item)
BY FoundIsMeant, MeantIsFound

-----------------------------------------------------------------------------
(* The names that a recursive get asks for.                                 *)

\* An id put after a list names an item of it.
LEMMA LookupItem ==
  ASSUME NEW name, IsSeq(name), NEW id, IsList(ObjectInfo(name)), ~Lookup(name).item,
         ObjectInfo(name) \in 1..Len(Order)
  PROVE  ObjectInfo(Append(name, id)) = ObjectInfo(name) /\ Lookup(Append(name, id)).item
<1> DEFINE k == ObjectInfo(name)
           o == Order[k]
           a == Append(name, id)
<1>1. IsInstanceOf(name, k, Lookup(name).item)
  BY FoundIsMeant
<1>2. /\ Len(name) = Place(o, Len(o)) + 0
      /\ \A n \in 1..Len(o) : name[Place(o, n)] = o[n]
      /\ \A m, n \in 1..Len(o) : m < n /\ Up(o, m) # None => Up(o, n) # None
  BY <1>1, InstanceOf
<1>3. Len(name) \in Nat /\ Len(o) \in Nat \ {0}
  BY SeqLength, OrderNames
<1>4. IsSeq(a) /\ Len(a) = Len(name) + 1 /\ \A n \in 1..Len(name) : a[n] = name[n]
  BY SeqAppend
<1> HIDE DEF k, o, a
<1>5. ASSUME NEW n \in 1..Len(o) PROVE a[Place(o, n)] = o[n]
  <2>1. Place(o, n) \in 1..Len(name)
    <3>1. n \in Nat \ {0} /\ n <= Len(o)
      BY <1>3
    <3>2. Place(o, n) <= Place(o, Len(o)) /\ Place(o, n) \in Nat \ {0} /\ Place(o, Len(o)) \in Nat
      BY <1>3, <3>1, PlaceStep, PlaceGrows
    <3> QED BY <1>2, <1>3, <3>2
  <2> QED BY <1>2, <1>4, <2>1
<1>6. Len(a) = Place(o, Len(o)) + (IF TRUE THEN 1 ELSE 0)
  <2>1. Place(o, Len(o)) \in Nat
    BY <1>3, PlaceStep
  <2> QED BY <1>2, <1>4, <2>1
<1>7. IsInstanceOf(a, k, TRUE)
  BY <1>2, <1>5, <1>6, InstanceOf DEF k, o
<1>8. ObjectInfo(a) = k /\ Lookup(a).item = TRUE
  BY <1>4, <1>7, MeantIsFound DEF k
<1> QED BY <1>8 DEF k, a

\* The last token of a child put after the name of its parent, or of an item of
\* it, names the child.
LEMMA LookupChild ==
  ASSUME NEW name, IsSeq(name), ObjectInfo(name) \in 1..Len(Order),
         IsList(ObjectInfo(name)) => Lookup(name).item,
         NEW j \in 1..Len(Order), NEW token, Order[j] = Append(Order[ObjectInfo(name)], token)
  PROVE  ObjectInfo(Append(name, token)) = j
<1> DEFINE k == ObjectInfo(name)
           o == Order[k]
           a == Append(name, token)
           item == Lookup(name).item
<1>1. IsInstanceOf(name, k, item)
  BY FoundIsMeant
<1>2. /\ Len(name) = Place(o, Len(o)) + (IF item THEN 1 ELSE 0)
      /\ item <=> IsList(k)
      /\ \A n \in 1..Len(o) : name[Place(o, n)] = o[n]
      /\ \A m, n \in 1..Len(o) : m < n /\ Up(o, m) # None => Up(o, n) # None
  BY <1>1, InstanceOf
<1>3. Len(name) \in Nat /\ Len(o) \in Nat \ {0} /\ IsSeq(o) /\ k # None /\ j # None
  BY SeqLength, OrderNames DEF None
<1>4. /\ IsSeq(a) /\ Len(a) = Len(name) + 1 /\ \A n \in 1..Len(name) : a[n] = name[n]
      /\ a[Len(name) + 1] = token
  BY SeqAppend
<1>5. /\ IsSeq(Order[j]) /\ Len(Order[j]) = Len(o) + 1
      /\ \A n \in 1..Len(o) : Order[j][n] = o[n]
      /\ Order[j][Len(o) + 1] = token
  BY <1>3, SeqAppend
<1>6. /\ \A n \in 1..Len(o) : Up(Order[j], n) = Up(o, n)
      /\ Up(Order[j], Len(o) + 1) = Find(Order[j])
      /\ \A n \in 1..Len(o) + 1 : Place(Order[j], n) = Place(o, n)
  BY <1>3, PrefixesAppend
<1>7. Find(Order[j]) = j
  BY FindIs
<1> HIDE DEF k, o, a, item
<1>8. Up(o, Len(o)) = k
  <2>1. Len(o) \in 1..Len(o) /\ k \in 1..Len(Order)
    BY <1>3 DEF k
  <2>2. Prefix(o, Len(o)) = o
    BY <1>3, <2>1, PrefixIs, SeqSame
  <2> QED BY <2>1, <2>2, FindIs DEF Up, o
<1>9. Place(o, Len(o) + 1) = Len(name) + 1
  <2>1. /\ Place(o, Len(o)) \in Nat
        /\ Place(o, Len(o) + 1) = Place(o, Len(o)) + 1
                                   + IF IsList(Up(o, Len(o))) THEN 1 ELSE 0
    BY <1>3, PlaceStep
  <2> QED BY <1>2, <1>8, <2>1
<1>10. Len(a) = Place(Order[j], Len(Order[j])) + (IF FALSE THEN 1 ELSE 0)
  <2>1. Place(Order[j], Len(o) + 1) = Len(name) + 1
    BY <1>3, <1>6, <1>9
  <2> QED BY <1>3, <1>4, <1>5, <2>1
<1>11. ASSUME NEW n \in 1..Len(Order[j]) PROVE a[Place(Order[j], n)] = Order[j][n]
  <2>1. CASE n = Len(o) + 1
    BY <1>3, <1>4, <1>5, <1>6, <1>9, <2>1
  <2>2. CASE n # Len(o) + 1
    <3>1. n \in 1..Len(o) /\ n \in Nat \ {0} /\ n <= Len(o) /\ n \in 1..Len(o) + 1
      BY <1>3, <1>5, <2>2
    <3>2. Place(o, n) <= Place(o, Len(o)) /\ Place(o, n) \in Nat \ {0} /\ Place(o, Len(o)) \in Nat
      BY <1>3, <3>1, PlaceStep, PlaceGrows
    <3>3. Place(o, n) \in 1..Len(name)
      BY <1>2, <1>3, <3>2
    <3> QED BY <1>2, <1>4, <1>5, <1>6, <3>1, <3>3
  <2> QED BY <2>1, <2>2
<1>12. ASSUME NEW m \in 1..Len(Order[j]), NEW n \in 1..Len(Order[j]), m < n, Up(Order[j], m) # None
       PROVE  Up(Order[j], n) # None
  <2>1. CASE n = Len(o) + 1
    BY <1>3, <1>6, <1>7, <2>1
  <2>2. CASE n # Len(o) + 1
    <3>1. n \in 1..Len(o) /\ m \in 1..Len(o)
      BY <1>3, <1>5, <1>12, <2>2
    <3> QED BY <1>2, <1>6, <1>12, <3>1
  <2> QED BY <2>1, <2>2
<1>13. IsInstanceOf(a, j, FALSE)
  BY <1>10, <1>11, <1>12, InstanceOf
<1>14. ObjectInfo(a) = j
  BY <1>4, <1>13, MeantIsFound
<1> QED BY <1>14 DEF a

LEMMA ChildrenAre ==
  ASSUME NEW k \in 1..Len(Order)
  PROVE  /\ Len(Children(k)) \in Nat
         /\ \A i \in 1..Len(Children(k)) :
              LET j == Children(k)[i]
              IN  j \in 1..Len(Order) /\ Order[j] = Append(Order[k], Last(Order[j]))
<1> DEFINE C == {j \in 1..Len(Order) : Trim(Order[j]) = Order[k]}
           parts == [j \in 1..Len(Order) |-> IF Trim(Order[j]) = Order[k] THEN <<j>> ELSE <<>>]
           once == FlattenSeq(parts)
           all == [d \in 1..Databases |-> once]
<1>1. Len(Order) \in Nat /\ Databases \in Nat
  BY OrderNames, DatabasesAssumption
<1>2. parts \in Seq(Seq(C))
  <2>1. \A j \in 1..Len(Order) : (IF Trim(Order[j]) = Order[k] THEN <<j>> ELSE <<>>) \in Seq(C)
    <3> TAKE j \in 1..Len(Order)
    <3>1. CASE Trim(Order[j]) = Order[k]
      <4>1. j \in C
        BY <3>1
      <4> QED BY <3>1, <4>1
    <3>2. CASE Trim(Order[j]) # Order[k]
      BY <3>2, EmptySeq
    <3> QED BY <3>1, <3>2
  <2>2. parts \in [1..Len(Order) -> Seq(C)]
    BY <2>1
  <2> QED BY <1>1, <2>2, SeqDef
<1>3. once \in Seq(C)
  <2> HIDE DEF parts, C
  <2> QED BY <1>2, FlattenSeqType
<1>4. all \in Seq(Seq(C))
  <2> HIDE DEF once, C
  <2>1. all \in [1..Databases -> Seq(C)]
    BY <1>3
  <2> QED BY <1>1, <2>1, SeqDef
<1>5. FlattenSeq(all) \in Seq(C)
  <2> HIDE DEF all, C
  <2> QED BY <1>4, FlattenSeqType
<1>6. Children(k) = FlattenSeq(all)
  BY DEF Children
<1> HIDE DEF all, once, parts
<1>7. Len(Children(k)) \in Nat /\ \A i \in 1..Len(Children(k)) : Children(k)[i] \in C
  <2> HIDE DEF C
  <2> QED BY <1>5, <1>6, ElementOfSeq, LenProperties
<1>8. ASSUME NEW j \in C PROVE Order[j] = Append(Order[k], Last(Order[j]))
  <2>1. /\ IsSeq(Order[j]) /\ Len(Order[j]) \in Nat /\ Len(Order[j]) > 1
        /\ Trim(Order[j]) = Order[k]
    BY OrderNames
  <2>2. Front(Order[j]) = Order[k] /\ Order[j] # <<>>
    BY <2>1, SeqLength DEF Trim
  <2> DEFINE n == Order[j]
             a == Append(Front(n), Last(n))
  <2>3. IsSeq(n) /\ n # <<>> /\ Len(n) \in Nat \ {0} /\ Last(n) = n[Len(n)]
    BY <2>1, <2>2, SeqFront
  <2>4. /\ IsSeq(a) /\ Len(a) = Len(n)
        /\ \A i \in 1..Len(n) - 1 : a[i] = n[i]
        /\ a[Len(n)] = Last(n)
    BY <2>3, SeqReplaceLast
  <2> HIDE DEF n, a
  <2>5. \A i \in 1..Len(n) : a[i] = n[i]
    <3> TAKE i \in 1..Len(n)
    <3>1. i \in 1..Len(n) - 1 \/ i = Len(n)
      BY <2>3
    <3> QED BY <2>3, <2>4, <3>1
  <2>6. n = a
    BY <2>3, <2>4, <2>5, SeqSame
  <2> QED BY <2>2, <2>6 DEF n, a
<1> QED BY <1>7, <1>8

-----------------------------------------------------------------------------
(* A set goes through its parameters, and changes values but no properties. *)

IsSetState(class, D, st) ==
  /\ st = [fields |-> st.fields, aside |-> st.aside, result |-> st.result]
  /\ DOMAIN st.fields = D /\ DOMAIN st.aside = class.pair

SetStart(class, fs) == [fields |-> fs, aside |-> [q \in class.pair |-> Blank], result |-> <<>>]

LEMMA SetOneIs ==
  ASSUME NEW class, NEW D, NEW st, IsSetState(class, D, st), NEW tr, NEW p
  PROVE  IsSetState(class, D, SetOne(class, tr, st, p))
BY DEF IsSetState, SetOne

\* The function that the fold over the parameters defines.
SetDef(class, tr, fs, params, g) ==
  [s \in SUBSET DOMAIN params |->
     IF s = {} THEN SetStart(class, fs)
     ELSE LET x == Max(s) IN SetOne(class, tr, g[s \ {x}], params[x])]

LEMMA DoSetIs ==
  ASSUME NEW class, NEW fs, NEW params
  PROVE  LET end == (CHOOSE g : g = SetDef(class, Len(params) > 1, fs, params, g))[DOMAIN params]
         IN  /\ DoSet(class, fs, params).fields =
                  IF Len(params) > 1 THEN Commit(class, end) ELSE end.fields
             /\ DoSet(class, fs, params).result = end.result
BY DEF DoSet, FoldLeft, MapThenFoldSet, SetDef, SetStart

LEMMA SetDefExists ==
  ASSUME NEW class, NEW tr, NEW fs, NEW params, IsSeq(params)
  PROVE  \E g : g = SetDef(class, tr, fs, params, g)
<1> DEFINE Def(n, g) ==
             [s \in SUBSET (1..n) |->
                IF s = {} THEN SetStart(class, fs)
                ELSE LET x == Max(s) IN SetOne(class, tr, g[s \ {x}], params[x])]
           T == {n \in Nat : \E g : g = Def(n, g)}
<1>1. 0 \in T
  <2> DEFINE g == [s \in SUBSET (1..0) |-> SetStart(class, fs)]
  <2>1. \A s \in SUBSET (1..0) : s = {}
    OBVIOUS
  <2>2. g = Def(0, g)
    BY <2>1
  <2> QED BY <2>2
<1>2. ASSUME NEW n \in T PROVE n + 1 \in T
  <2>1. PICK g : g = Def(n, g)
    OBVIOUS
  <2> DEFINE h == [s \in SUBSET (1..n + 1) |->
                     IF n + 1 \in s THEN SetOne(class, tr, g[s \ {n + 1}], params[n + 1]) ELSE g[s]]
             d == Def(n + 1, h)
  <2>2. ASSUME NEW s \in SUBSET (1..n + 1)
        PROVE  h[s] = IF s = {} THEN SetStart(class, fs)
                      ELSE LET x == Max(s) IN SetOne(class, tr, h[s \ {x}], params[x])
    <3>1. CASE n + 1 \in s
      <4>1. Max(s) = n + 1
        BY <3>1, MaxOf
      <4>2. s \ {n + 1} \in SUBSET (1..n + 1) /\ n + 1 \notin s \ {n + 1}
        OBVIOUS
      <4>3. h[s \ {n + 1}] = g[s \ {n + 1}]
        BY <4>2
      <4>4. h[s] = SetOne(class, tr, g[s \ {n + 1}], params[n + 1])
        BY <3>1
      <4> HIDE DEF h
      <4> QED BY <3>1, <4>1, <4>3, <4>4
    <3>2. CASE n + 1 \notin s
      <4>1. s \in SUBSET (1..n)
        BY <3>2
      <4>2. g[s] = IF s = {} THEN SetStart(class, fs)
                   ELSE LET x == Max(s) IN SetOne(class, tr, g[s \ {x}], params[x])
        BY <2>1, <4>1
      <4>3. \A x : s \ {x} \in SUBSET (1..n + 1) /\ n + 1 \notin s \ {x}
        BY <3>2
      <4>4. \A x : h[s \ {x}] = g[s \ {x}]
        BY <4>3
      <4>5. h[s] = g[s]
        BY <3>2
      <4> HIDE DEF h
      <4> QED BY <4>2, <4>4, <4>5
    <3> QED BY <3>1, <3>2
  <2>3. h = [s \in SUBSET (1..n + 1) |-> h[s]] /\ d = [s \in SUBSET (1..n + 1) |-> d[s]]
    OBVIOUS
  <2>4. \A s \in SUBSET (1..n + 1) : d[s] = IF s = {} THEN SetStart(class, fs)
                      ELSE LET x == Max(s) IN SetOne(class, tr, h[s \ {x}], params[x])
    <3> HIDE DEF h
    <3> QED OBVIOUS
  <2> HIDE DEF h, d
  <2>5. \A s \in SUBSET (1..n + 1) : h[s] = d[s]
    BY <2>2, <2>4
  <2>6. h = d
    BY <2>3, <2>5
  <2>7. h = Def(n + 1, h)
    BY <2>6 DEF d
  <2>8. n + 1 \in Nat /\ \E x : x = Def(n + 1, x)
    <3> HIDE DEF Def
    <3> QED BY <2>7
  <2> QED BY <2>8
<1>3. Len(params) \in T
  <2> HIDE DEF T
  <2> QED BY <1>1, <1>2, NatSetInduction, SeqLength
<1>4. PICK g : g = Def(Len(params), g)
  BY <1>3
<1>5. DOMAIN params = 1..Len(params)
  BY SeqLength
<1> QED BY <1>4, <1>5 DEF SetDef

\* st[n] is the state after n parameters.
LEMMA DoSetSteps ==
  ASSUME NEW class, NEW fs, NEW params, IsSeq(params)
  PROVE  \E st : /\ st[0] = SetStart(class, fs)
                 /\ \A n \in 0..Len(params) - 1 :
                      st[n + 1] = SetOne(class, Len(params) > 1, st[n], params[n + 1])
                 /\ DoSet(class, fs, params).fields =
                      IF Len(params) > 1 THEN Commit(class, st[Len(params)]) ELSE st[Len(params)].fields
                 /\ DoSet(class, fs, params).result = st[Len(params)].result
<1> DEFINE tr == Len(params) > 1
           g == CHOOSE g : g = SetDef(class, tr, fs, params, g)
           st == [n \in 0..Len(params) |-> g[1..n]]
<1>0. Len(params) \in Nat /\ DOMAIN params = 1..Len(params)
  BY SeqLength
<1>1. g = SetDef(class, tr, fs, params, g)
  BY SetDefExists
<1>2. /\ DoSet(class, fs, params).fields =
           IF tr THEN Commit(class, g[DOMAIN params]) ELSE g[DOMAIN params].fields
      /\ DoSet(class, fs, params).result = g[DOMAIN params].result
  BY DoSetIs
<1> HIDE DEF g
<1>3. \A s \in SUBSET (1..Len(params)) :
        g[s] = IF s = {} THEN SetStart(class, fs)
               ELSE LET x == Max(s) IN SetOne(class, tr, g[s \ {x}], params[x])
  BY <1>0, <1>1 DEF SetDef
<1> HIDE DEF tr
<1>4. g[1..0] = SetStart(class, fs)
  <2>1. 1..0 = {} /\ {} \in SUBSET (1..Len(params))
    OBVIOUS
  <2> QED BY <1>3, <2>1
<1>5. ASSUME NEW n \in 0..Len(params) - 1
      PROVE  g[1..n + 1] = SetOne(class, tr, g[1..n], params[n + 1])
  <2>1. n \in Nat /\ n + 1 <= Len(params)
    BY <1>0
  <2>2. Max(1..n + 1) = n + 1
    BY <2>1, MaxOf
  <2>3. (1..n + 1) \ {n + 1} = 1..n /\ 1..n + 1 # {} /\ 1..n + 1 \in SUBSET (1..Len(params))
    <3>1. (1..n + 1) \ {n + 1} = 1..n /\ 1 \in 1..n + 1
      BY <2>1
    <3>2. \A m \in 1..n + 1 : m \in 1..Len(params)
      BY <1>0, <2>1
    <3> QED BY <3>1, <3>2
  <2> QED BY <1>3, <2>2, <2>3
<1>6. \A n \in 0..Len(params) - 1 : n \in 0..Len(params) /\ n + 1 \in 0..Len(params)
  BY <1>0
<1>7. 0 \in 0..Len(params) /\ Len(params) \in 0..Len(params)
  BY <1>0
<1>8. \A n \in 0..Len(params) : st[n] = g[1..n]
  OBVIOUS
<1> HIDE DEF st
<1>9. /\ st[0] = SetStart(class, fs) /\ st[Len(params)] = g[DOMAIN params]
      /\ \A n \in 0..Len(params) - 1 : st[n + 1] = SetOne(class, tr, st[n], params[n + 1])
  BY <1>0, <1>4, <1>5, <1>6, <1>7, <1>8
<1> QED BY <1>2, <1>9 DEF tr

LEMMA DoSetKeepsDomain ==
  ASSUME NEW class, NEW fs, NEW params, IsSeq(params)
  PROVE  DOMAIN DoSet(class, fs, params).fields = DOMAIN fs
<1> DEFINE tr == Len(params) > 1
           D == DOMAIN fs
<1>1. PICK st : /\ st[0] = SetStart(class, fs)
                /\ \A n \in 0..Len(params) - 1 : st[n + 1] = SetOne(class, tr, st[n], params[n + 1])
                /\ DoSet(class, fs, params).fields =
                     IF tr THEN Commit(class, st[Len(params)]) ELSE st[Len(params)].fields
  BY DoSetSteps
<1> DEFINE T == {n \in Nat : n <= Len(params) => IsSetState(class, D, st[n])}
<1>2. Len(params) \in Nat
  BY SeqLength
<1> HIDE DEF tr
<1>3. 0 \in T
  <2>1. IsSetState(class, D, SetStart(class, fs))
    BY DEF IsSetState, SetStart
  <2> QED BY <1>1, <2>1
<1>4. ASSUME NEW n \in T PROVE n + 1 \in T
  <2> SUFFICES ASSUME n + 1 <= Len(params) PROVE IsSetState(class, D, st[n + 1])
    OBVIOUS
  <2>1. n \in 0..Len(params) - 1 /\ IsSetState(class, D, st[n])
    BY <1>2
  <2> QED BY <1>1, <2>1, SetOneIs
<1>5. IsSetState(class, D, st[Len(params)])
  <2> HIDE DEF T
  <2>1. Len(params) \in T
    BY <1>2, <1>3, <1>4, NatSetInduction
  <2> QED BY <1>2, <2>1 DEF T
<1>6. DOMAIN Commit(class, st[Len(params)]) = D
  BY <1>5 DEF Commit, Overlaid, IsSetState
<1> QED BY <1>1, <1>5, <1>6 DEF IsSetState

-----------------------------------------------------------------------------
(* Types, and what the frames of runGet are about.                          *)

HostTypes ==
  /\ restarts \in 0..MaxRestarts
  /\ alive \in [Hosts -> BOOLEAN] /\ connected \in [Hosts -> BOOLEAN]
  /\ routed \in [Hosts -> Nat] /\ inserted \in [Hosts -> Nat]
  /\ \A h \in Hosts : /\ routed[h] <= Len(Registers[h])
                      /\ inserted[h] \in {routed[h] - 1, routed[h]}
  /\ DOMAIN fields = Instances /\ \A i \in Instances : DOMAIN fields[i] = DOMAIN Fields[i]

InboxTypes ==
  /\ DOMAIN inbox = Hosts
  /\ \A h \in Hosts :
       /\ IsSeq(inbox[h])
       /\ \A r \in ToSet(inbox[h]) :
            r.client \in Clients /\ r.since \in 0..restarts /\ r.object \in Routed(h) /\ IsSeq(r.pairs)

ClientTypes ==
  /\ job \in Jobs
  /\ pc \in [Clients -> {"enter", "ask", "wait", "below", "done"}]
  /\ since \in [Clients -> Nat] /\ gaveUp \in [Clients -> BOOLEAN]
  /\ errors \in [Clients -> SUBSET {"count", "ids", "item", "plain"}]
  /\ DOMAIN stack = Clients /\ DOMAIN answer = Clients /\ DOMAIN notes = Clients
  /\ result \in [Clients -> {"running", "true", "false"}]
  /\ \A c \in Clients : /\ since[c] <= restarts /\ (gaveUp[c] => restarts > 0)
                        /\ answer[c] # <<>> => pc[c] = "wait" /\ Len(answer[c]) = 1
                        /\ result[c] = "running" <=> pc[c] # "done"

\* The frame of a call of runGet: what it is about was found, except perhaps
\* what the application asked for, when it has just been called.
IsFrame(f) ==
  /\ DOMAIN f = {"param", "at", "count", "ids", "i", "kid", "ok"}
  /\ f.at \in {"enter", "count", "ids", "item", "plain"} /\ f.kid \in Nat /\ f.ok \in BOOLEAN
  /\ IsSeq(f.param.name)

FrameFor(f, j, bottom) ==
  /\ IsFrame(f)
  /\ IF bottom THEN f.param = j.param
     ELSE j.recursive /\ f.param.wild /\ ObjectOf(f.param) # None
  /\ f.at # "enter" /\ j.recursive => ObjectOf(f.param) # None
  /\ f.at \in {"count", "ids", "item"} => ListOf(f.param)

FramesOf(c) ==
  /\ IsSeq(stack[c])
  /\ stack[c] = <<>> <=> pc[c] = "done"
  /\ \A k \in 1..Len(stack[c]) : FrameFor(stack[c][k], job[c], k = 1)
  /\ \A k \in 1..Len(stack[c]) : k < Len(stack[c]) \/ pc[c] # "enter" => stack[c][k].at # "enter"

Frames == \A c \in Clients : FramesOf(c)

Inv == HostTypes /\ InboxTypes /\ ClientTypes /\ Frames

LEMMA RegistersAre ==
  \A h \in Hosts : /\ IsSeq(Registers[h]) /\ Len(Registers[h]) \in Nat
                   /\ \A k \in 1..Len(Registers[h]) : Registers[h][k] \in Instances
<1> SUFFICES ASSUME NEW h \in Hosts
             PROVE  /\ IsSeq(Registers[h]) /\ Len(Registers[h]) \in Nat
                    /\ \A k \in 1..Len(Registers[h]) : Registers[h][k] \in Instances
  OBVIOUS
<1>1. Registers[h] \in Seq(Seq(STRING))
  BY RegistersAssumption
<1>2. IsSeq(Registers[h]) /\ Len(Registers[h]) \in Nat /\ DOMAIN Registers[h] = 1..Len(Registers[h])
  BY <1>1, LenProperties DEF IsSeq
<1>3. \A k \in 1..Len(Registers[h]) : Registers[h][k] \in Instances
  BY <1>2 DEF Instances, ToSet
<1> QED BY <1>2, <1>3

LEMMA InstancesAreNames == \A i \in Instances : IsSeq(i)
<1> SUFFICES ASSUME NEW h \in Hosts, NEW i \in ToSet(Registers[h]) PROVE IsSeq(i)
  BY DEF Instances
<1>1. Registers[h] \in Seq(Seq(STRING))
  BY RegistersAssumption
<1>2. PICK k \in 1..Len(Registers[h]) : i = Registers[h][k]
  BY <1>1, LenProperties DEF ToSet
<1>3. i \in Seq(STRING)
  BY <1>1, <1>2, ElementOfSeq
<1> QED BY <1>3 DEF IsSeq

LEMMA JobsAre ==
  ASSUME job \in Jobs, NEW c \in Clients
  PROVE  /\ IsSeq(job[c].param.name) /\ IsSeq(job[c].pairs)
         /\ job[c].recursive => job[c].op = "get" /\ (job[c].param.wild \/ ObjectOf(job[c].param) # None)
<1>1. job[c].param.name \in Seq(STRING) /\ job[c].pairs \in Seq([prop : STRING, value : Seq(STRING)])
  BY JobsAssumption
<1> QED BY <1>1, JobsAssumption DEF IsSeq

LEMMA InitInv == Init => Inv
<1> SUFFICES ASSUME Init PROVE Inv
  OBVIOUS
<1>1. HostTypes
  <2>1. \A h \in Hosts : Len(Registers[h]) \in Nat
    BY RegistersAre
  <2> QED BY <2>1, MaxRestartsAssumption, ReadyAssumption, FieldsAssumption DEF Init, HostTypes
<1>2. InboxTypes
  BY SeqEmpty DEF Init, InboxTypes
<1>3. ClientTypes
  BY DEF Init, ClientTypes
<1>4. ASSUME NEW c \in Clients PROVE FramesOf(c)
  <2> DEFINE f == Frame(job[c].param, "enter")
  <2>1. stack[c] = <<f>> /\ pc[c] = "enter" /\ job \in Jobs
    BY <1>4 DEF Init
  <2>2. IsFrame(f) /\ f.param = job[c].param /\ f.at = "enter"
    <3>1. IsSeq(job[c].param.name)
      BY <2>1, JobsAre
    <3> QED BY <3>1 DEF Frame, IsFrame
  <2> HIDE DEF f
  <2>3. IsSeq(<<f>>) /\ Len(<<f>>) = 1 /\ <<f>>[1] = f /\ <<f>> # <<>>
    <3>1. <<f>> \in Seq({f})
      OBVIOUS
    <3> QED BY <3>1 DEF IsSeq
  <2>4. FrameFor(f, job[c], TRUE)
    BY <2>2 DEF FrameFor
  <2>5. Len(stack[c]) = 1 /\ \A k \in 1..Len(stack[c]) : k = 1 /\ stack[c][k] = f
    BY <2>1, <2>3
  <2>6. (1 = 1) = TRUE
    OBVIOUS
  <2>7. \A k \in 1..Len(stack[c]) : FrameFor(stack[c][k], job[c], k = 1)
    BY <2>4, <2>5, <2>6
  <2>8. \A k \in 1..Len(stack[c]) : ~(k < Len(stack[c]) \/ pc[c] # "enter")
    BY <2>1, <2>5
  <2> QED BY <2>1, <2>3, <2>7, <2>8 DEF FramesOf
<1> QED BY <1>1, <1>2, <1>3, <1>4 DEF Inv, Frames

-----------------------------------------------------------------------------
(* What the steps of a host change.                                         *)

HostStep ==
  \/ \E h \in Hosts : Subscribe(h) \/ Insert(h) \/ Serve(h) \/ Dies(h) \/ Reconnect(h)
  \/ RouterRestarts
  \/ \E i \in DOMAIN LaterFields : ApplicationChanges(i)

LEMMA HostTypesStep ==
  ASSUME Inv, [Next]_vars
  PROVE  HostTypes'
<1> USE DEF Inv
<1>1. ASSUME NEW h \in Hosts, Subscribe(h) PROVE HostTypes'
  <2>1. \A g \in Hosts : Len(Registers[g]) \in Nat
    BY RegistersAre
  <2>2. routed' \in [Hosts -> Nat]
    BY <1>1 DEF Subscribe, HostTypes
  <2>3. \A g \in Hosts : routed'[g] <= Len(Registers[g]) /\ inserted'[g] \in {routed'[g] - 1, routed'[g]}
    BY <1>1, <2>1 DEF Subscribe, HostTypes
  <2> QED BY <1>1, <2>2, <2>3 DEF Subscribe, HostTypes
<1>2. ASSUME NEW h \in Hosts, Insert(h) PROVE HostTypes'
  <2>1. inserted' \in [Hosts -> Nat]
    BY <1>2 DEF Insert, HostTypes
  <2>2. \A g \in Hosts : inserted'[g] \in {routed[g] - 1, routed[g]}
    BY <1>2 DEF Insert, HostTypes
  <2> QED BY <1>2, <2>1, <2>2 DEF Insert, HostTypes
<1>3. ASSUME NEW h \in Hosts, Serve(h) PROVE HostTypes'
  <2> DEFINE r == Head(inbox[h])
             class == ClassOf(ObjectInfo(r.object))
             set == DoSet(class, fields[r.object], SetParams(r))
  <2>1. IsSeq(r.pairs)
    BY <1>3, SeqTail DEF Serve, InboxTypes
  <2>2. Len(r.pairs) \in Nat
    BY <2>1, SeqLength
  <2>3. IsSeq(SetParams(r))
    <3> DEFINE e(j) == [info |-> Info(ObjectInfo(r.object), r.pairs[j].prop, r.prop, TRUE),
                        value |-> r.pairs[j].value]
               S == {e(j) : j \in 1..Len(r.pairs)}
    <3>1. SetParams(r) \in [1..Len(r.pairs) -> S]
      BY DEF SetParams
    <3> HIDE DEF S, r
    <3>2. SetParams(r) \in Seq(S)
      BY <2>2, <3>1, SeqDef
    <3> QED BY <3>2 DEF IsSeq
  <2>4. DOMAIN set.fields = DOMAIN fields[r.object]
    <3> HIDE DEF r, class
    <3> QED BY <2>3, DoSetKeepsDomain
  <2>5. fields' = fields \/ fields' = [fields EXCEPT ![r.object] = set.fields]
    BY <1>3 DEF Serve
  <2> HIDE DEF set, r
  <2>6. DOMAIN fields' = DOMAIN fields /\ \A i \in DOMAIN fields : DOMAIN fields'[i] = DOMAIN fields[i]
    BY <2>4, <2>5
  <2>7. UNCHANGED <<restarts, alive, connected, routed, inserted>>
    BY <1>3 DEF Serve
  <2> QED BY <2>6, <2>7 DEF HostTypes
<1>4. ASSUME NEW h \in Hosts, Dies(h) \/ Reconnect(h) PROVE HostTypes'
  BY <1>4 DEF Dies, Reconnect, HostTypes
<1>5. ASSUME RouterRestarts PROVE HostTypes'
  BY <1>5, MaxRestartsAssumption DEF RouterRestarts, HostTypes
<1>6. ASSUME NEW i \in DOMAIN LaterFields, ApplicationChanges(i) PROVE HostTypes'
  <2>1. fields' = [fields EXCEPT ![i] = Overlaid(fields[i], LaterFields[i])]
    BY <1>6 DEF ApplicationChanges
  <2>2. DOMAIN Overlaid(fields[i], LaterFields[i]) = DOMAIN fields[i]
    BY DEF Overlaid
  <2>3. DOMAIN fields' = DOMAIN fields /\ \A j \in DOMAIN fields : DOMAIN fields'[j] = DOMAIN fields[j]
    BY <2>1, <2>2
  <2> QED BY <1>6, <2>3 DEF ApplicationChanges, HostTypes
<1>7. ASSUME UNCHANGED <<restarts, alive, connected, routed, inserted, fields>> PROVE HostTypes'
  BY <1>7 DEF HostTypes
<1>8. ASSUME NEW c \in Clients, ClientStep(c) \/ TimesOut(c) PROVE HostTypes'
  BY <1>7, <1>8 DEF ClientStep, TimesOut, Enter, Ask, Counted, Queried, Below, hostVars
<1>9. ASSUME UNCHANGED vars PROVE HostTypes'
  BY <1>7, <1>9 DEF vars, hostVars
<1> QED BY <1>1, <1>2, <1>3, <1>4, <1>5, <1>6, <1>8, <1>9 DEF Next, Finished

LEMMA RoutedGrows ==
  ASSUME Inv, [Next]_vars
  PROVE  \A h \in Hosts : Routed(h) \subseteq Routed(h)'
<1>1. ASSUME NEW h \in Hosts, Subscribe(h) PROVE \A g \in Hosts : routed[g] <= routed'[g] /\ routed'[g] \in Nat
  BY <1>1 DEF Subscribe, Inv, HostTypes
<1>2. ASSUME UNCHANGED routed PROVE \A g \in Hosts : routed[g] <= routed'[g] /\ routed'[g] \in Nat
  BY <1>2 DEF Inv, HostTypes
<1>3. \A g \in Hosts : routed[g] <= routed'[g] /\ routed'[g] \in Nat
  BY <1>1, <1>2 DEF Next, Insert, Serve, Dies, Reconnect, RouterRestarts, ApplicationChanges,
     ClientStep, TimesOut, Enter, Ask, Counted, Queried, Below, Finished, vars, hostVars
<1>4. \A g \in Hosts : routed[g] \in Nat
  BY DEF Inv, HostTypes
<1> QED BY <1>3, <1>4 DEF Routed

\* restarts only grow.
LEMMA RestartsGrow ==
  ASSUME Inv, [Next]_vars
  PROVE  restarts \in Nat /\ restarts' \in Nat /\ restarts <= restarts'
<1>1. restarts \in Nat
  BY MaxRestartsAssumption DEF Inv, HostTypes
<1>2. restarts' \in {restarts, restarts + 1}
  BY DEF Next, Subscribe, Insert, Serve, Dies, Reconnect, RouterRestarts, ApplicationChanges,
     ClientStep, TimesOut, Enter, Ask, Counted, Queried, Below, Finished, vars, hostVars
<1> QED BY <1>1, <1>2

IsRequest(r, h) ==
  r.client \in Clients /\ r.since \in 0..restarts /\ r.object \in Routed(h) /\ IsSeq(r.pairs)

\* What is asked for goes to every host that has its route, and to no other.
LEMMA AskIs ==
  ASSUME Inv, NEW c \in Clients, Ask(c)
  PROVE  /\ UNCHANGED <<restarts, alive, connected, routed, inserted, fields, job, stack, gaveUp,
                        notes, errors, result>>
         /\ pc[c] = "ask" /\ pc' = [pc EXCEPT ![c] = "wait"]
         /\ since' = [since EXCEPT ![c] = restarts]
         /\ \/ inbox' = inbox /\ answer' = [answer EXCEPT ![c] = <<Refusal>>]
            \/ /\ UNCHANGED answer
               /\ DOMAIN inbox' = Hosts
               /\ \A h \in Hosts :
                    \/ inbox'[h] = inbox[h]
                    \/ /\ alive[h] /\ connected[h] /\ AskedObject(c) \in Routed(h)
                       /\ inbox'[h] = Append(inbox[h], Request(c))
               /\ \E h \in Hosts : /\ alive[h] /\ connected[h]
                                   /\ inbox'[h] = Append(inbox[h], Request(c))
BY DEF Ask

LEMMA InboxTypesStep ==
  ASSUME Inv, [Next]_vars
  PROVE  InboxTypes'
<1> DEFINE Less == /\ DOMAIN inbox' = Hosts
                   /\ \A h \in Hosts : IsSeq(inbox'[h]) /\ ToSet(inbox'[h]) \subseteq ToSet(inbox[h])
<1>0. /\ DOMAIN inbox = Hosts
      /\ \A h \in Hosts : IsSeq(inbox[h]) /\ \A r \in ToSet(inbox[h]) : IsRequest(r, h)
  BY DEF Inv, InboxTypes, IsRequest
<1>1. restarts \in Nat /\ restarts' \in Nat /\ restarts <= restarts'
  BY RestartsGrow
<1>2. ASSUME NEW h \in Hosts, NEW r, IsRequest(r, h)
      PROVE  r.client \in Clients /\ r.since \in 0..restarts' /\ r.object \in Routed(h)' /\ IsSeq(r.pairs)
  <2>1. r.since \in 0..restarts'
    BY <1>1, <1>2 DEF IsRequest
  <2>2. r.object \in Routed(h)'
    BY <1>2, RoutedGrows DEF IsRequest
  <2> QED BY <1>2, <2>1, <2>2 DEF IsRequest
<1>3. ASSUME Less PROVE InboxTypes'
  BY <1>0, <1>2, <1>3 DEF InboxTypes
<1>4. ASSUME UNCHANGED inbox PROVE Less
  BY <1>0, <1>4
<1>5. ASSUME NEW h \in Hosts, Serve(h) PROVE Less
  <2>1. inbox' = [inbox EXCEPT ![h] = Tail(inbox[h])] /\ inbox[h] # <<>>
    BY <1>5 DEF Serve
  <2>2. IsSeq(Tail(inbox[h])) /\ ToSet(Tail(inbox[h])) \subseteq ToSet(inbox[h])
    BY <1>0, <2>1, SeqTail
  <2> QED BY <1>0, <2>1, <2>2
<1>6. ASSUME NEW h \in Hosts, Dies(h) \/ Reconnect(h) PROVE Less
  <2>1. inbox' = [inbox EXCEPT ![h] = <<>>]
    BY <1>6 DEF Dies, Reconnect
  <2> QED BY <1>0, <2>1, SeqEmpty
<1>7. ASSUME RouterRestarts PROVE Less
  BY <1>0, <1>7, SeqEmpty DEF RouterRestarts
<1>8. ASSUME NEW c \in Clients, Ask(c) PROVE InboxTypes'
  <2>1. CASE inbox' = inbox
    BY <1>3, <1>4, <2>1
  <2>2. CASE inbox' # inbox
    <3> DEFINE r == Request(c)
    <3>1. IsSeq(job[c].pairs) /\ since \in [Clients -> Nat]
      BY JobsAre DEF Inv, ClientTypes
    <3>2. ASSUME NEW h \in Hosts, AskedObject(c) \in Routed(h) PROVE IsRequest(r, h)
      <4>1. r.client = c /\ r.since = restarts /\ r.object = AskedObject(c) /\ r.pairs = job[c].pairs
        BY DEF Request
      <4> QED BY <1>1, <3>1, <3>2, <4>1 DEF IsRequest
    <3>3. /\ DOMAIN inbox' = Hosts
          /\ \A h \in Hosts : \/ inbox'[h] = inbox[h]
                              \/ /\ AskedObject(c) \in Routed(h)
                                 /\ inbox'[h] = Append(inbox[h], r)
      BY <1>8, <2>2, AskIs
    <3> HIDE DEF r
    <3>4. ASSUME NEW h \in Hosts
          PROVE  IsSeq(inbox'[h]) /\ \A x \in ToSet(inbox'[h]) : IsRequest(x, h)
      <4>1. IsSeq(Append(inbox[h], r)) /\ ToSet(Append(inbox[h], r)) = ToSet(inbox[h]) \cup {r}
        BY <1>0, SeqAppend
      <4> QED BY <1>0, <3>2, <3>3, <4>1
    <3> QED BY <1>2, <3>3, <3>4 DEF InboxTypes
  <2> QED BY <2>1, <2>2
<1> HIDE DEF Less
<1>9. ASSUME NEW c \in Clients, Enter(c) \/ Counted(c) \/ Queried(c) \/ Below(c) \/ TimesOut(c)
      PROVE InboxTypes'
  BY <1>3, <1>4, <1>9 DEF Enter, Counted, Queried, Below, TimesOut, hostVars
<1>10. ASSUME NEW h \in Hosts, Subscribe(h) \/ Insert(h) PROVE InboxTypes'
  BY <1>3, <1>4, <1>10 DEF Subscribe, Insert
<1>11. ASSUME NEW i \in DOMAIN LaterFields, ApplicationChanges(i) PROVE InboxTypes'
  BY <1>3, <1>4, <1>11 DEF ApplicationChanges
<1>12. ASSUME UNCHANGED vars PROVE InboxTypes'
  BY <1>3, <1>4, <1>12 DEF vars, hostVars
<1> QED BY <1>3, <1>5, <1>6, <1>7, <1>8, <1>9, <1>10, <1>11, <1>12 DEF Next, Finished, ClientStep

-----------------------------------------------------------------------------
(* What the steps of a client change.                                       *)

\* The step of one client leaves the frames of the others alone.
Alone(c) ==
  /\ DOMAIN stack' = Clients /\ DOMAIN pc' = Clients
  /\ \A d \in Clients \ {c} : stack'[d] = stack[d] /\ pc'[d] = pc[d]

LEMMA TopIs ==
  ASSUME Inv, NEW c \in Clients, pc[c] # "done"
  PROVE  LET n == Len(stack[c])
         IN  /\ n \in Nat \ {0} /\ n \in 1..n /\ stack[c] # <<>> /\ Top(c) = stack[c][n]
             /\ FrameFor(Top(c), job[c], n = 1)
             /\ pc[c] # "enter" => Top(c).at # "enter"
<1>1. IsSeq(stack[c]) /\ stack[c] # <<>>
  BY DEF Inv, Frames, FramesOf
<1>2. /\ Len(stack[c]) \in Nat \ {0} /\ Len(stack[c]) \in 1..Len(stack[c])
      /\ Top(c) = stack[c][Len(stack[c])]
  BY <1>1, SeqFront DEF Top
<1> QED BY <1>1, <1>2 DEF Inv, Frames, FramesOf

LEMMA GotoIs ==
  ASSUME Inv, NEW c \in Clients, pc[c] # "done", NEW f, NEW to \in {"ask", "below"},
         FrameFor(f, job[c], Len(stack[c]) = 1), f.at # "enter", Goto(c, f, to), job' = job
  PROVE  /\ Alone(c) /\ pc'[c] = to /\ FramesOf(c)'
         /\ Len(stack'[c]) = Len(stack[c])
         /\ \A k \in 1..Len(stack[c]) - 1 : stack'[c][k] = stack[c][k]
         /\ stack'[c][Len(stack[c])] = f
<1> DEFINE s == stack[c]
           t == Append(Front(s), f)
           n == Len(s)
<1>1. IsSeq(s) /\ s # <<>> /\ n \in Nat \ {0}
  BY TopIs DEF Inv, Frames, FramesOf
<1>2. /\ IsSeq(t) /\ Len(t) = n /\ t # <<>>
      /\ \A k \in 1..n - 1 : t[k] = s[k]
      /\ t[n] = f
  BY <1>1, SeqReplaceLast
<1>3. Alone(c) /\ stack'[c] = t /\ pc'[c] = to
  BY DEF Goto, Alone, Inv, ClientTypes
<1>4. \A k \in 1..n : FrameFor(s[k], job[c], k = 1) /\ (k < n => s[k].at # "enter")
  BY DEF Inv, Frames, FramesOf
<1> HIDE DEF t, s
<1>5. ASSUME NEW k \in 1..n PROVE FrameFor(t[k], job[c], k = 1) /\ t[k].at # "enter"
  <2>1. CASE k = n
    BY <1>2, <2>1 DEF s
  <2>2. CASE k # n
    <3>1. k \in 1..n - 1 /\ k < n
      BY <1>1, <2>2
    <3> QED BY <1>2, <1>4, <3>1
  <2> QED BY <2>1, <2>2
<1>6. FramesOf(c)'
  BY <1>2, <1>3, <1>5 DEF FramesOf
<1> QED BY <1>2, <1>3, <1>6 DEF s

\* Return ends the call, or gives its result to the frame below.
LEMMA ReturnIs ==
  ASSUME Inv, NEW c \in Clients, pc[c] # "done", NEW ok \in BOOLEAN, Return(c, ok), job' = job
  PROVE  /\ Alone(c) /\ FramesOf(c)'
         /\ \/ /\ Len(stack[c]) = 1 /\ pc'[c] = "done"
               /\ result' = [result EXCEPT ![c] = IF ok THEN "true" ELSE "false"]
            \/ /\ Len(stack[c]) > 1 /\ pc'[c] = "below" /\ UNCHANGED result
               /\ Len(stack'[c]) = Len(stack[c]) - 1
               /\ \A k \in 1..Len(stack[c]) - 2 : stack'[c][k] = stack[c][k]
               /\ stack'[c][Len(stack[c]) - 1] = [stack[c][Len(stack[c]) - 1] EXCEPT !.ok = ok]
<1> DEFINE s == stack[c]
           n == Len(s)
           u == Front(s)
           g == [Last(u) EXCEPT !.ok = ok]
           t == Append(Front(u), g)
<1>1. IsSeq(s) /\ s # <<>> /\ n \in Nat \ {0}
  BY TopIs DEF Inv, Frames, FramesOf
<1>2. IsSeq(u) /\ Len(u) = n - 1 /\ \A k \in 1..n - 1 : u[k] = s[k]
  BY <1>1, SeqFront
<1>3. \A k \in 1..n : FrameFor(s[k], job[c], k = 1) /\ (k < n => s[k].at # "enter")
  BY DEF Inv, Frames, FramesOf
<1>4. DOMAIN stack = Clients /\ DOMAIN pc = Clients
  BY DEF Inv, ClientTypes
<1>5. CASE n = 1
  <2>1. /\ stack' = [stack EXCEPT ![c] = <<>>] /\ pc' = [pc EXCEPT ![c] = "done"]
        /\ result' = [result EXCEPT ![c] = IF ok THEN "true" ELSE "false"]
    BY <1>5 DEF Return
  <2>2. Alone(c) /\ stack'[c] = <<>> /\ pc'[c] = "done"
    BY <1>4, <2>1 DEF Alone
  <2>3. FramesOf(c)'
    BY <2>2, SeqEmpty DEF FramesOf
  <2> QED BY <1>5, <2>1, <2>2, <2>3
<1>6. CASE n # 1
  <2>0. n > 1 /\ n - 1 \in Nat \ {0} /\ n - 1 \in 1..n - 1 /\ n - 1 \in 1..n /\ n - 1 < n /\ (n - 1) - 1 = n - 2
    <3> HIDE DEF n
    <3> QED BY <1>1, <1>6
  <2>1. stack' = [stack EXCEPT ![c] = t] /\ pc' = [pc EXCEPT ![c] = "below"] /\ UNCHANGED result
    BY <1>6 DEF Return
  <2>2. Alone(c) /\ stack'[c] = t /\ pc'[c] = "below"
    BY <1>4, <2>1 DEF Alone
  <2>3. u # <<>>
    BY <1>2, <2>0, SeqLength
  <2>4. Last(u) = s[n - 1]
    BY <1>2, <2>0, <2>3, SeqFront
  <2>5. /\ IsSeq(t) /\ Len(t) = n - 1 /\ t # <<>> /\ t[n - 1] = g
        /\ \A k \in 1..n - 2 : t[k] = u[k]
    <3>1. /\ IsSeq(t) /\ Len(t) = Len(u) /\ t # <<>>
          /\ \A k \in 1..Len(u) - 1 : t[k] = u[k]
          /\ t[Len(u)] = g
      <4> HIDE DEF g, u, n
      <4> PICK v, x, w : v = u /\ x = g /\ w = t
        OBVIOUS
      <4>1. IsSeq(v) /\ v # <<>> /\ w = Append(Front(v), x)
        BY <1>2, <2>3
      <4> HIDE DEF t
      <4>2. Replaced(v, w, x)
        BY <4>1, SeqReplaced
      <4> QED BY <4>2 DEF Replaced
    <3> HIDE DEF t, g, u, n
    <3> QED BY <1>2, <2>0, <3>1
  <2>6. \A k \in 1..n - 2 : k \in 1..n - 1 /\ k \in 1..n /\ k < n /\ t[k] = s[k]
    BY <1>1, <1>2, <2>5
  <2>7. FrameFor(g, job[c], n - 1 = 1) /\ g.at # "enter"
    <3>1. FrameFor(s[n - 1], job[c], n - 1 = 1) /\ s[n - 1].at # "enter"
      BY <1>3, <2>0
    <3>2. /\ IsFrame(g) /\ g.param = s[n - 1].param /\ g.at = s[n - 1].at
      BY <2>4, <3>1 DEF FrameFor, IsFrame
    <3> HIDE DEF g
    <3> QED BY <3>1, <3>2 DEF FrameFor
  <2> HIDE DEF t
  <2>8. ASSUME NEW k \in 1..n - 1 PROVE FrameFor(t[k], job[c], k = 1) /\ t[k].at # "enter"
    <3>1. CASE k = n - 1
      BY <2>5, <2>7, <3>1
    <3>2. CASE k # n - 1
      <4>1. k \in 1..n - 2
        BY <1>1, <3>2
      <4> QED BY <1>3, <2>6, <4>1
    <3> QED BY <3>1, <3>2
  <2>9. FramesOf(c)'
    BY <2>2, <2>5, <2>8 DEF FramesOf
  <2>10. \A k \in 1..Len(stack[c]) - 2 : stack'[c][k] = stack[c][k]
    BY <2>2, <2>6
  <2>11. stack'[c][Len(stack[c]) - 1] = [stack[c][Len(stack[c]) - 1] EXCEPT !.ok = ok]
    BY <2>2, <2>4, <2>5
  <2> QED BY <2>0, <2>1, <2>2, <2>5, <2>9, <2>10, <2>11
<1> QED BY <1>5, <1>6

LEMMA InfoRange ==
  ASSUME NEW name, IsSeq(name)
  PROVE  /\ ObjectInfo(name) \in 0..Len(Order)
         /\ ObjectInfo(name) # None => ObjectInfo(name) \in 1..Len(Order)
<1>1. PICK st : /\ IsDescent(st, name)
                /\ Lookup(name) = IF st[Len(name)].lost THEN Start ELSE st[Len(name)]
  BY LookupIs
<1>2. Len(name) \in 0..Len(name)
  BY SeqLength
<1>3. ~st[Len(name)].lost => st[Len(name)].object = Find(st[Len(name)].full)
  BY <1>1, <1>2, LookupReads DEF Read
<1>4. ObjectInfo(name) \in 0..Len(Order)
  BY <1>1, <1>3, FindIs, OrderNames, StartIs DEF ObjectInfo, None
<1> QED BY <1>4, OrderNames DEF None

LEMMA ObjectNameIs ==
  ASSUME NEW param, IsSeq(param.name)
  PROVE  IsSeq(ObjectName(param))
<1>1. param.name # <<>> => IsSeq(Front(param.name))
  BY SeqFront
<1>2. Len(param.name) > 1 => param.name # <<>>
  BY SeqEmpty
<1> QED BY <1>1, <1>2 DEF ObjectName, Trim

\* What runGet calls itself for is found.
LEMMA ChildFound ==
  ASSUME NEW f, IsFrame(f), ObjectOf(f.param) # None, f.at = "item" => ListOf(f.param),
         NEW i \in 1..Len(Children(ObjectOf(f.param)))
  PROVE  LET base == IF f.at = "item" THEN ItemName(f) ELSE ObjectName(f.param)
             p == ObjectParam(Append(base, Last(Order[Children(ObjectOf(f.param))[i]])))
         IN  IsSeq(p.name) /\ p.wild /\ ObjectOf(p) # None
<1> DEFINE k == ObjectOf(f.param)
           name == ObjectName(f.param)
           base == IF f.at = "item" THEN ItemName(f) ELSE ObjectName(f.param)
           j == Children(k)[i]
           token == Last(Order[j])
           p == ObjectParam(Append(base, token))
<1>1. IsSeq(f.param.name) /\ IsSeq(name) /\ ObjectInfo(name) = k
  BY ObjectNameIs DEF IsFrame, ObjectOf
<1>2. k \in 1..Len(Order)
  BY <1>1, InfoRange
<1>3. j \in 1..Len(Order) /\ Order[j] = Append(Order[k], token) /\ j # None
  BY <1>2, ChildrenAre, OrderNames DEF None
<1>4. p = [name |-> Append(base, token), wild |-> TRUE]
  BY DEF ObjectParam
<1> HIDE DEF j, token, name, k
<1>5. IsSeq(base) /\ ObjectInfo(Append(base, token)) # None
  <2>1. CASE IsList(k) /\ ~Lookup(name).item /\ f.at = "item"
    <3>1. name = f.param.name
      BY <2>1 DEF ListOf, ObjectName, name
    <3> DEFINE item == Append(name, f.ids[f.i])
    <3>2. base = item
      BY <2>1, <3>1 DEF ItemName
    <3>3. IsSeq(item)
      BY <1>1, SeqAppend
    <3>4. ObjectInfo(item) = k /\ Lookup(item).item
      BY <1>1, <1>2, <2>1, LookupItem
    <3> HIDE DEF item
    <3>5. ObjectInfo(Append(item, token)) = j
      BY <1>2, <1>3, <3>3, <3>4, LookupChild
    <3> QED BY <1>3, <3>2, <3>3, <3>5
  <2>2. CASE IsList(k) /\ ~Lookup(name).item /\ f.at # "item"
    <3>1. base = name
      BY <2>2 DEF name
    <3>2. ObjectInfo(Append(name, token)) = k
      BY <1>1, <1>2, <2>2, LookupItem
    <3> QED BY <1>1, <1>2, <3>1, <3>2, OrderNames DEF None
  <2>3. CASE ~(IsList(k) /\ ~Lookup(name).item)
    <3>1. f.at # "item"
      BY <2>3 DEF ListOf, k, name
    <3>2. base = name
      BY <3>1 DEF name
    <3>3. ObjectInfo(Append(name, token)) = j
      BY <1>1, <1>2, <1>3, <2>3, LookupChild
    <3> QED BY <1>1, <1>3, <3>2, <3>3
  <2> QED BY <2>1, <2>2, <2>3
<1> HIDE DEF base
<1>6. IsSeq(p.name) /\ p.wild /\ ObjectOf(p) # None
  <2>1. IsSeq(Append(base, token))
    BY <1>5, SeqAppend
  <2> QED BY <1>4, <1>5, <2>1 DEF ObjectOf, ObjectName
<1> QED BY <1>6 DEF p, base, j, token, k

\* A frame changed, and another put on it.
Pushed(s, x, y) == Front(s) \o <<x, y>>

LEMMA SeqPush ==
  ASSUME NEW s, IsSeq(s), s # <<>>, NEW x, NEW y
  PROVE  LET t == Pushed(s, x, y)
         IN  /\ IsSeq(t) /\ Len(t) = Len(s) + 1 /\ t # <<>>
             /\ \A k \in 1..Len(s) - 1 : t[k] = s[k]
             /\ t[Len(s)] = x /\ t[Len(s) + 1] = y
<1> DEFINE u == Front(s)
           v == <<x, y>>
           t == u \o v
           n == Len(s)
<1>1. PICK S : u \in Seq(S)
  BY SeqFront DEF IsSeq
<1>2. n \in Nat \ {0} /\ Len(u) = n - 1 /\ \A k \in 1..n - 1 : u[k] = s[k]
  BY SeqFront
<1>3. v \in Seq({x, y}) /\ Len(v) = 2 /\ v[1] = x /\ v[2] = y
  OBVIOUS
<1> HIDE DEF u, v, n
<1>4. u \in Seq(S \cup {x, y}) /\ v \in Seq(S \cup {x, y})
  BY <1>1, <1>3
<1>5. /\ t \in Seq(S \cup {x, y}) /\ Len(t) = Len(u) + Len(v)
      /\ \A k \in 1..Len(u) + Len(v) : t[k] = IF k <= Len(u) THEN u[k] ELSE v[k - Len(u)]
  BY <1>4, ConcatProperties
<1> HIDE DEF t
<1>6. Len(t) = n + 1 /\ \A k \in 1..n + 1 : t[k] = IF k <= n - 1 THEN u[k] ELSE v[k - (n - 1)]
  BY <1>2, <1>3, <1>5
<1>7. \A k \in 1..n - 1 : t[k] = s[k]
  BY <1>2, <1>6
<1>8. t[n] = x /\ t[n + 1] = y
  <2>1. n \in 1..n + 1 /\ n + 1 \in 1..n + 1 /\ ~(n <= n - 1) /\ ~(n + 1 <= n - 1)
        /\ n - (n - 1) = 1 /\ n + 1 - (n - 1) = 2
    BY <1>2
  <2> QED BY <1>3, <1>6, <2>1
<1>9. IsSeq(t) /\ t # <<>>
  <2>1. IsSeq(t)
    BY <1>5 DEF IsSeq
  <2> QED BY <1>2, <1>6, <2>1, SeqLength
<1> QED BY <1>6, <1>7, <1>8, <1>9 DEF Pushed, t, n, u, v

LEMMA FramesAlone ==
  ASSUME Inv, NEW c \in Clients, Alone(c), FramesOf(c)', job' = job
  PROVE  Frames'
<1>1. ASSUME NEW d \in Clients, d # c PROVE FramesOf(d)'
  BY <1>1 DEF Alone, Inv, Frames, FramesOf
<1> QED BY <1>1 DEF Frames

\* What runGet goes on to do with a frame.
LEMMA EnterIs ==
  ASSUME Inv, NEW c \in Clients, Enter(c)
  PROVE  /\ pc[c] = "enter"
         /\ UNCHANGED <<hostVars, job, answer, since, gaveUp, notes, errors>>
         /\ \/ /\ Top(c).param.wild /\ ObjectOf(Top(c).param) = None
               /\ Return(c, FALSE)
            \/ \E f : /\ FrameFor(f, job[c], Len(stack[c]) = 1) /\ f.at # "enter"
                      /\ f.ok = Top(c).ok /\ f.param = Top(c).param
                      /\ Goto(c, f, "ask") /\ UNCHANGED result
<1> DEFINE f == Top(c)
           to == IF job[c].op = "get" /\ ListOf(f.param) THEN "count" ELSE "plain"
           g == [f EXCEPT !.at = to]
           missing == job[c].op = "get" /\ f.param.wild /\ ObjectOf(f.param) = None
<1>1. pc[c] = "enter" /\ UNCHANGED <<hostVars, job, answer, since, gaveUp, notes, errors>>
  BY DEF Enter
<1>2. IF missing THEN Return(c, FALSE) ELSE Goto(c, g, "ask") /\ UNCHANGED result
  BY DEF Enter
<1>3. FrameFor(f, job[c], Len(stack[c]) = 1)
  BY <1>1, TopIs
<1>4. CASE missing
  BY <1>1, <1>2, <1>4
<1>5. CASE ~missing
  <2>1. job[c].recursive => job[c].op = "get" /\ (job[c].param.wild \/ ObjectOf(job[c].param) # None)
    BY JobsAre DEF Inv, ClientTypes
  <2>2. job[c].recursive => ObjectOf(f.param) # None
    BY <1>3, <1>5, <2>1 DEF FrameFor
  <2> HIDE DEF f
  <2>3. /\ IsFrame(g) /\ g.at = to /\ g.ok = f.ok /\ g.param = f.param
        /\ to # "enter" /\ (to \in {"count", "ids", "item"} => ListOf(f.param))
    BY <1>3 DEF FrameFor, IsFrame
  <2> HIDE DEF g, to
  <2>4. FrameFor(g, job[c], Len(stack[c]) = 1) /\ g.at # "enter"
    BY <1>3, <2>2, <2>3 DEF FrameFor
  <2> QED BY <1>1, <1>2, <1>5, <2>3, <2>4 DEF f
<1> QED BY <1>4, <1>5

\* A frame that has been entered, with some of its variables changed.
LEMMA FrameChanged ==
  ASSUME Inv, NEW c \in Clients, pc[c] \notin {"done", "enter"}, NEW g, IsFrame(g),
         g.param = Top(c).param, g.at # "enter",
         g.at \in {"count", "ids", "item"} => ListOf(g.param)
  PROVE  FrameFor(g, job[c], Len(stack[c]) = 1)
BY TopIs DEF FrameFor

LEMMA CountedIs ==
  ASSUME Inv, NEW c \in Clients, Counted(c)
  PROVE  /\ pc[c] = "wait" /\ answer[c] # <<>> /\ answer' = [answer EXCEPT ![c] = <<>>]
         /\ UNCHANGED <<hostVars, job, since, gaveUp, notes>>
         /\ \/ /\ errors' = [errors EXCEPT ![c] = @ \cup {Top(c).at}] /\ Top(c).at \in {"count", "ids"}
               /\ Return(c, FALSE)
            \/ \E f : /\ FrameFor(f, job[c], Len(stack[c]) = 1) /\ f.at # "enter"
                      /\ f.ok = Top(c).ok /\ f.param = Top(c).param
                      /\ Goto(c, f, "ask") /\ UNCHANGED <<errors, result>>
<1> DEFINE f == Top(c)
           a == answer[c][1]
           v == ValueOf(Last(Asked(c).name), a.values)
           g == [f EXCEPT !.at = "ids", !.count = atoi(v)]
           h == [f EXCEPT !.at = "item", !.ids = v, !.i = 1]
           bad == a.status # 0 \/ (f.at = "ids" /\ Len(v) # f.count)
<1>1. /\ pc[c] = "wait" /\ answer[c] # <<>> /\ f.at \in {"count", "ids"}
      /\ answer' = [answer EXCEPT ![c] = <<>>] /\ UNCHANGED <<hostVars, job, since, gaveUp, notes>>
      /\ IF bad THEN OnError(c) /\ Return(c, FALSE)
         ELSE /\ IF f.at = "count" THEN Goto(c, g, "ask") ELSE Goto(c, h, "ask")
              /\ UNCHANGED <<errors, result>>
  BY DEF Counted
<1>2. CASE bad
  BY <1>1, <1>2 DEF OnError
<1>3. CASE ~bad
  <2>1. FrameFor(f, job[c], Len(stack[c]) = 1)
    BY <1>1, TopIs
  <2> HIDE DEF f, v
  <2>2. ListOf(f.param) /\ IsFrame(f)
    BY <1>1, <2>1 DEF FrameFor
  <2>3. /\ IsFrame(g) /\ g.at = "ids" /\ g.ok = f.ok /\ g.param = f.param
        /\ IsFrame(h) /\ h.at = "item" /\ h.ok = f.ok /\ h.param = f.param
    BY <2>2 DEF IsFrame
  <2> HIDE DEF g, h, bad
  <2>4. FrameFor(g, job[c], Len(stack[c]) = 1) /\ FrameFor(h, job[c], Len(stack[c]) = 1)
    BY <1>1, <2>2, <2>3, FrameChanged DEF f
  <2> QED BY <1>1, <1>3, <2>3, <2>4 DEF f
<1> QED BY <1>2, <1>3

LEMMA QueriedIs ==
  ASSUME Inv, NEW c \in Clients, Queried(c)
  PROVE  /\ pc[c] = "wait" /\ answer[c] # <<>> /\ answer' = [answer EXCEPT ![c] = <<>>]
         /\ UNCHANGED <<hostVars, job, since, gaveUp, result>> /\ DOMAIN notes' = DOMAIN notes
         /\ \E f : /\ FrameFor(f, job[c], Len(stack[c]) = 1) /\ f.at # "enter"
                   /\ f.param = Top(c).param /\ Goto(c, f, "below")
                   /\ \/ f.ok = Top(c).ok /\ UNCHANGED errors
                      \/ /\ f.ok = FALSE /\ Top(c).at \in {"item", "plain"}
                         /\ errors' = [errors EXCEPT ![c] = @ \cup {Top(c).at}]
<1> DEFINE f == Top(c)
           a == answer[c][1]
           g == [f EXCEPT !.ok = @ /\ a.status = 0, !.kid = 0]
<1>1. /\ pc[c] = "wait" /\ answer[c] # <<>> /\ f.at \in {"item", "plain"}
      /\ answer' = [answer EXCEPT ![c] = <<>>] /\ UNCHANGED <<hostVars, job, since, gaveUp, result>>
      /\ Goto(c, g, "below")
      /\ IF a.status = 0 THEN OnResult(c, a) /\ UNCHANGED errors ELSE OnError(c) /\ UNCHANGED notes
  BY DEF Queried
<1>2. FrameFor(f, job[c], Len(stack[c]) = 1)
  BY <1>1, TopIs
<1>3. /\ DOMAIN notes' = DOMAIN notes
      /\ \/ a.status = 0 /\ UNCHANGED errors
         \/ a.status # 0 /\ errors' = [errors EXCEPT ![c] = @ \cup {Top(c).at}]
  BY <1>1 DEF OnResult, OnError
<1> HIDE DEF f
<1>4. IsFrame(f) /\ f.ok \in BOOLEAN /\ (f.at \in {"count", "ids", "item"} => ListOf(f.param))
  BY <1>2 DEF FrameFor, IsFrame
<1>5. /\ IsFrame(g) /\ g.at = f.at /\ g.param = f.param
      /\ g.ok = (f.ok /\ a.status = 0)
  BY <1>4 DEF IsFrame
<1> HIDE DEF g
<1>6. FrameFor(g, job[c], Len(stack[c]) = 1)
  BY <1>1, <1>4, <1>5, FrameChanged DEF f
<1>7. \/ g.ok = f.ok /\ UNCHANGED errors
      \/ g.ok = FALSE /\ errors' = [errors EXCEPT ![c] = @ \cup {Top(c).at}]
  BY <1>3, <1>4, <1>5
<1>8. g.at # "enter" /\ f.at \in {"item", "plain"}
  BY <1>1, <1>5
<1> QED BY <1>1, <1>3, <1>5, <1>6, <1>7, <1>8 DEF f

\* runGet calls itself, asks for the next item, or ends.
LEMMA BelowIs ==
  ASSUME Inv, NEW c \in Clients, Below(c)
  PROVE  /\ pc[c] = "below"
         /\ UNCHANGED <<hostVars, job, answer, since, gaveUp, notes, errors>>
         /\ \/ Return(c, Top(c).ok) /\ Top(c).ok \in BOOLEAN
            \/ \E f : /\ FrameFor(f, job[c], Len(stack[c]) = 1) /\ f.at # "enter"
                      /\ f.ok = Top(c).ok /\ f.param = Top(c).param
                      /\ Goto(c, f, "ask") /\ UNCHANGED result
            \/ \E f, g : /\ FrameFor(f, job[c], Len(stack[c]) = 1) /\ f.at # "enter"
                         /\ f.ok = Top(c).ok /\ f.param = Top(c).param
                         /\ FrameFor(g, job[c], FALSE) /\ g.ok /\ job[c].recursive
                         /\ stack' = [stack EXCEPT ![c] = Pushed(stack[c], f, g)]
                         /\ pc' = [pc EXCEPT ![c] = "enter"] /\ UNCHANGED result
<1> DEFINE f == Top(c)
           base == IF f.at = "item" THEN ItemName(f) ELSE ObjectName(f.param)
           kids == IF job[c].recursive THEN Children(ObjectOf(f.param)) ELSE <<>>
           p == ObjectParam(Append(base, Last(Order[kids[f.kid + 1]])))
           g == Frame(p, "enter")
           pushed == [f EXCEPT !.kid = f.kid + 1]
           next == [f EXCEPT !.i = f.i + 1]
<1>1. /\ pc[c] = "below" /\ UNCHANGED <<hostVars, job, answer, since, gaveUp, notes, errors>>
      /\ IF f.kid < Len(kids)
         THEN /\ stack' = [stack EXCEPT ![c] = Pushed(stack[c], pushed, g)]
              /\ pc' = [pc EXCEPT ![c] = "enter"] /\ UNCHANGED result
         ELSE IF f.at = "item" /\ f.i < Len(f.ids)
         THEN Goto(c, next, "ask") /\ UNCHANGED result
         ELSE Return(c, f.ok)
  BY DEF Below, Pushed
<1>2. FrameFor(f, job[c], Len(stack[c]) = 1) /\ f.at # "enter"
  BY <1>1, TopIs
<1>3. IsFrame(f) /\ (f.at \in {"count", "ids", "item"} => ListOf(f.param))
  BY <1>2 DEF FrameFor
<1>4. CASE f.kid < Len(kids)
  <2>1. job[c].recursive /\ kids = Children(ObjectOf(f.param))
    BY <1>3, <1>4, SeqEmpty DEF IsFrame
  <2>2. ObjectOf(f.param) # None
    BY <1>2, <2>1 DEF FrameFor
  <2>3. f.kid + 1 \in 1..Len(Children(ObjectOf(f.param)))
    <3>1. ObjectOf(f.param) \in 1..Len(Order)
      BY <1>3, <2>2, InfoRange, ObjectNameIs DEF IsFrame, ObjectOf
    <3>2. Len(kids) \in Nat
      BY <2>1, <3>1, ChildrenAre
    <3> HIDE DEF kids, f
    <3> QED BY <1>3, <1>4, <2>1, <3>2 DEF IsFrame
  <2>4. IsSeq(p.name) /\ p.wild /\ ObjectOf(p) # None
    <3> HIDE DEF f
    <3> QED BY <1>3, <2>1, <2>2, <2>3, ChildFound
  <2> HIDE DEF p, f, kids
  <2>5. IsFrame(pushed) /\ pushed.at = f.at /\ pushed.ok = f.ok /\ pushed.param = f.param
    BY <1>3 DEF IsFrame
  <2>6. FrameFor(g, job[c], FALSE) /\ g.ok
    <3>1. IsFrame(g) /\ g.ok /\ g.param = p /\ g.at = "enter"
      BY <2>4 DEF Frame, IsFrame
    <3> HIDE DEF g
    <3> QED BY <2>1, <2>4, <3>1 DEF FrameFor
  <2> HIDE DEF pushed, g
  <2>7. FrameFor(pushed, job[c], Len(stack[c]) = 1)
    BY <1>1, <1>2, <1>3, <2>5, FrameChanged DEF f
  <2>8. /\ stack' = [stack EXCEPT ![c] = Pushed(stack[c], pushed, g)]
        /\ pc' = [pc EXCEPT ![c] = "enter"] /\ UNCHANGED result
    BY <1>1, <1>4
  <2> QED BY <1>1, <1>2, <2>1, <2>5, <2>6, <2>7, <2>8 DEF f
<1>5. CASE ~(f.kid < Len(kids)) /\ f.at = "item" /\ f.i < Len(f.ids)
  <2> HIDE DEF f, kids
  <2>1. IsFrame(next) /\ next.at = f.at /\ next.ok = f.ok /\ next.param = f.param
    BY <1>3 DEF IsFrame
  <2> HIDE DEF next
  <2>2. FrameFor(next, job[c], Len(stack[c]) = 1)
    BY <1>1, <1>2, <1>3, <2>1, FrameChanged DEF f
  <2> QED BY <1>1, <1>2, <1>5, <2>1, <2>2 DEF f
<1>6. CASE ~(f.kid < Len(kids)) /\ ~(f.at = "item" /\ f.i < Len(f.ids))
  <2>1. Return(c, f.ok) /\ f.ok \in BOOLEAN
    BY <1>1, <1>3, <1>6 DEF IsFrame
  <2> QED BY <1>1, <2>1
<1> QED BY <1>4, <1>5, <1>6

LEMMA PushIs ==
  ASSUME Inv, NEW c \in Clients, pc[c] \notin {"done", "enter"}, NEW f, NEW g,
         FrameFor(f, job[c], Len(stack[c]) = 1), f.at # "enter", FrameFor(g, job[c], FALSE),
         stack' = [stack EXCEPT ![c] = Pushed(stack[c], f, g)],
         pc' = [pc EXCEPT ![c] = "enter"], job' = job
  PROVE  /\ Alone(c) /\ pc'[c] = "enter" /\ FramesOf(c)'
         /\ Len(stack'[c]) = Len(stack[c]) + 1
         /\ \A k \in 1..Len(stack[c]) - 1 : stack'[c][k] = stack[c][k]
         /\ stack'[c][Len(stack[c])] = f /\ stack'[c][Len(stack[c]) + 1] = g
<1> DEFINE s == stack[c]
           t == Pushed(s, f, g)
           n == Len(s)
<1>1. IsSeq(s) /\ s # <<>> /\ n \in Nat \ {0}
  BY TopIs DEF Inv, Frames, FramesOf
<1>2. /\ IsSeq(t) /\ Len(t) = n + 1 /\ t # <<>>
      /\ \A k \in 1..n - 1 : t[k] = s[k]
      /\ t[n] = f /\ t[n + 1] = g
  BY <1>1, SeqPush
<1>3. Alone(c) /\ stack'[c] = t /\ pc'[c] = "enter"
  BY DEF Alone, Inv, ClientTypes
<1>4. \A k \in 1..n : FrameFor(s[k], job[c], k = 1) /\ s[k].at # "enter"
  BY DEF Inv, Frames, FramesOf
<1> HIDE DEF t, s
<1>5. ASSUME NEW k \in 1..n + 1
      PROVE  FrameFor(t[k], job[c], k = 1) /\ (k < n + 1 => t[k].at # "enter")
  <2>1. CASE k = n + 1
    <3>1. (k = 1) = FALSE /\ ~(k < n + 1)
      BY <1>1, <2>1
    <3> QED BY <1>2, <2>1, <3>1
  <2>2. CASE k = n
    BY <1>2, <2>2 DEF s
  <2>3. CASE k \notin {n, n + 1}
    <3>1. k \in 1..n - 1 /\ k \in 1..n
      BY <1>1, <2>3
    <3> QED BY <1>2, <1>4, <3>1
  <2> QED BY <2>1, <2>2, <2>3
<1>6. FramesOf(c)'
  <2>1. \A k \in 1..n + 1 : FrameFor(t[k], job[c], k = 1)
    BY <1>5
  <2>2. \A k \in 1..n + 1 : k < n + 1 => t[k].at # "enter"
    BY <1>5
  <2> QED BY <1>2, <1>3, <2>1, <2>2 DEF FramesOf
<1> QED BY <1>2, <1>3, <1>6 DEF s

LEMMA FramesStep ==
  ASSUME Inv, [Next]_vars
  PROVE  Frames'
<1>1. ASSUME UNCHANGED <<job, pc, stack>> PROVE Frames'
  BY <1>1 DEF Inv, Frames, FramesOf
<1>2. ASSUME NEW c \in Clients, Ask(c) PROVE Frames'
  <2>1. UNCHANGED <<job, stack>> /\ pc[c] = "ask" /\ pc' = [pc EXCEPT ![c] = "wait"]
    BY <1>2, AskIs
  <2>2. FramesOf(c) /\ DOMAIN stack = Clients /\ DOMAIN pc = Clients
    BY DEF Inv, Frames, ClientTypes
  <2>3. Alone(c) /\ FramesOf(c)'
    BY <2>1, <2>2 DEF Alone, FramesOf
  <2> QED BY <2>1, <2>3, FramesAlone
<1>3. ASSUME NEW c \in Clients, NEW f, NEW to \in {"ask", "below"}, pc[c] # "done",
             FrameFor(f, job[c], Len(stack[c]) = 1), f.at # "enter", Goto(c, f, to), job' = job
      PROVE  Frames'
  BY <1>3, GotoIs, FramesAlone
<1>4. ASSUME NEW c \in Clients, NEW ok \in BOOLEAN, pc[c] # "done", Return(c, ok), job' = job
      PROVE  Frames'
  BY <1>4, ReturnIs, FramesAlone
<1>5. ASSUME NEW c \in Clients, Enter(c) PROVE Frames'
  <2>1. pc[c] # "done" /\ job' = job
    BY <1>5, EnterIs
  <2>2. CASE Return(c, FALSE)
    BY <1>4, <2>1, <2>2
  <2>3. CASE ~Return(c, FALSE)
    BY <1>3, <1>5, <2>1, <2>3, EnterIs
  <2> QED BY <2>2, <2>3
<1>6. ASSUME NEW c \in Clients, Counted(c) PROVE Frames'
  <2>1. pc[c] # "done" /\ job' = job
    BY <1>6, CountedIs
  <2>2. CASE Return(c, FALSE)
    BY <1>4, <2>1, <2>2
  <2>3. CASE ~Return(c, FALSE)
    BY <1>3, <1>6, <2>1, <2>3, CountedIs
  <2> QED BY <2>2, <2>3
<1>7. ASSUME NEW c \in Clients, Queried(c) PROVE Frames'
  <2>1. pc[c] # "done" /\ job' = job
    BY <1>7, QueriedIs
  <2> QED BY <1>3, <1>7, <2>1, QueriedIs
<1>8. ASSUME NEW c \in Clients, Below(c) PROVE Frames'
  <2>1. pc[c] = "below" /\ job' = job
    BY <1>8, BelowIs
  <2>2. \/ Return(c, Top(c).ok) /\ Top(c).ok \in BOOLEAN
        \/ \E f : /\ FrameFor(f, job[c], Len(stack[c]) = 1) /\ f.at # "enter" /\ Goto(c, f, "ask")
        \/ \E f, g : /\ FrameFor(f, job[c], Len(stack[c]) = 1) /\ f.at # "enter"
                     /\ FrameFor(g, job[c], FALSE)
                     /\ stack' = [stack EXCEPT ![c] = Pushed(stack[c], f, g)]
                     /\ pc' = [pc EXCEPT ![c] = "enter"]
    BY <1>8, BelowIs
  <2>3. CASE Return(c, Top(c).ok) /\ Top(c).ok \in BOOLEAN
    BY <1>4, <2>1, <2>3
  <2>4. ASSUME NEW f, FrameFor(f, job[c], Len(stack[c]) = 1), f.at # "enter", Goto(c, f, "ask")
        PROVE Frames'
    BY <1>3, <2>1, <2>4
  <2>5. ASSUME NEW f, NEW g, FrameFor(f, job[c], Len(stack[c]) = 1), f.at # "enter",
               FrameFor(g, job[c], FALSE),
               stack' = [stack EXCEPT ![c] = Pushed(stack[c], f, g)], pc' = [pc EXCEPT ![c] = "enter"]
        PROVE Frames'
    BY <2>1, <2>5, PushIs, FramesAlone
  <2> QED BY <2>2, <2>3, <2>4, <2>5
<1>9. ASSUME NEW h \in Hosts, Subscribe(h) \/ Insert(h) \/ Serve(h) \/ Dies(h) \/ Reconnect(h)
      PROVE  Frames'
  BY <1>1, <1>9 DEF Subscribe, Insert, Serve, Dies, Reconnect, clientVars
<1>10. ASSUME RouterRestarts PROVE Frames'
  BY <1>1, <1>10 DEF RouterRestarts, clientVars
<1>11. ASSUME NEW i \in DOMAIN LaterFields, ApplicationChanges(i) PROVE Frames'
  BY <1>1, <1>11 DEF ApplicationChanges, clientVars
<1>12. ASSUME NEW c \in Clients, TimesOut(c) PROVE Frames'
  BY <1>1, <1>12 DEF TimesOut
<1>13. ASSUME UNCHANGED vars PROVE Frames'
  BY <1>1, <1>13 DEF vars, clientVars
<1> QED BY <1>2, <1>5, <1>6, <1>7, <1>8, <1>9, <1>10, <1>11, <1>12, <1>13 DEF Next, Finished, ClientStep

\* Goto, Return and the call of runGet for a child change where the client is.
LEMMA PcIs ==
  ASSUME Inv, NEW c \in Clients
  PROVE  /\ \A f : \A to \in {"ask", "below"} : Goto(c, f, to) =>
              /\ pc' = [pc EXCEPT ![c] = to] /\ DOMAIN stack' = Clients
         /\ \A ok \in BOOLEAN : Return(c, ok) =>
              /\ DOMAIN stack' = Clients
              /\ \/ /\ pc' = [pc EXCEPT ![c] = "done"]
                    /\ result' = [result EXCEPT ![c] = IF ok THEN "true" ELSE "false"]
                 \/ pc' = [pc EXCEPT ![c] = "below"] /\ UNCHANGED result
BY DEF Goto, Return, Inv, ClientTypes

LEMMA ClientTypesStep ==
  ASSUME Inv, [Next]_vars
  PROVE  ClientTypes'
<1> DEFINE Pcs == {"enter", "ask", "wait", "below", "done"}
           Some(c) == /\ since[c] <= restarts /\ (gaveUp[c] => restarts > 0)
                      /\ answer[c] # <<>> => pc[c] = "wait" /\ Len(answer[c]) = 1
                      /\ result[c] = "running" <=> pc[c] # "done"
           Domains == DOMAIN stack = Clients /\ DOMAIN answer = Clients /\ DOMAIN notes = Clients
           Kinds == {"count", "ids", "item", "plain"}
<1>0. /\ job \in Jobs /\ pc \in [Clients -> Pcs]
      /\ since \in [Clients -> Nat] /\ gaveUp \in [Clients -> BOOLEAN]
      /\ errors \in [Clients -> SUBSET Kinds] /\ Domains
      /\ result \in [Clients -> {"running", "true", "false"}]
      /\ \A c \in Clients : Some(c)
  BY DEF Inv, ClientTypes
<1>1. restarts \in Nat /\ restarts' \in Nat /\ restarts <= restarts'
  BY RestartsGrow
\* A step of the others, that answers c at most.
<1>2. ASSUME UNCHANGED <<job, pc, stack, since, notes, errors, result>>,
             DOMAIN answer' = Clients,
             \A c \in Clients : \/ answer'[c] = answer[c]
                                \/ pc[c] = "wait" /\ \E x : answer'[c] = <<x>>,
             gaveUp' \in [Clients -> BOOLEAN],
             \A c \in Clients : gaveUp'[c] => gaveUp[c] \/ restarts > 0
      PROVE  ClientTypes'
  <2>1. ASSUME NEW c \in Clients PROVE Some(c)'
    <3>1. since[c] \in Nat /\ since'[c] = since[c] /\ since[c] <= restarts
      BY <1>0, <1>2
    <3>2. since'[c] <= restarts'
      BY <1>1, <3>1
    <3>3. gaveUp'[c] => restarts' > 0
      BY <1>0, <1>1, <1>2
    <3>4. answer'[c] # <<>> => pc'[c] = "wait" /\ Len(answer'[c]) = 1
      <4>1. \A x : Len(<<x>>) = 1
        OBVIOUS
      <4> QED BY <1>0, <1>2, <4>1, ZenonT(60)
    <3>5. result'[c] = "running" <=> pc'[c] # "done"
      BY <1>0, <1>2
    <3> QED BY <3>2, <3>3, <3>4, <3>5
  <2> HIDE DEF Some
  <2>2. \A c \in Clients : Some(c)'
    BY <2>1
  <2> QED BY <1>0, <1>2, <2>2 DEF ClientTypes, Some
<1>3. ASSUME UNCHANGED clientVars PROVE ClientTypes'
  BY <1>0, <1>2, <1>3 DEF clientVars
<1>4. ASSUME NEW h \in Hosts, Serve(h) PROVE ClientTypes'
  <2>1. PICK r, values : answer' = Answered(r, values)
    BY <1>4 DEF Serve
  <2>2. /\ UNCHANGED <<job, pc, stack, since, gaveUp, notes, errors, result>>
    BY <1>4 DEF Serve
  <2>3. /\ DOMAIN answer' = Clients
        /\ \A c \in Clients : \/ answer'[c] = answer[c]
                              \/ pc[c] = "wait" /\ answer'[c] = <<Reply(values)>>
    BY <1>0, <2>1 DEF Answered, Awaits
  <2> QED BY <1>0, <1>2, <2>2, <2>3
<1>5. ASSUME NEW c \in Clients, TimesOut(c) PROVE ClientTypes'
  <2>1. /\ UNCHANGED <<restarts, job, pc, stack, since, notes, errors, result>>
        /\ pc[c] = "wait" /\ since[c] < restarts
        /\ answer' = [answer EXCEPT ![c] = <<Silence>>] /\ gaveUp' = [gaveUp EXCEPT ![c] = TRUE]
    BY <1>5 DEF TimesOut, hostVars
  <2>2. restarts > 0
    BY <1>0, <1>1, <2>1
  <2> QED BY <1>0, <1>2, <2>1, <2>2
<1>6. ASSUME NEW c \in Clients, Ask(c) PROVE ClientTypes'
  <2>1. /\ UNCHANGED <<restarts, job, stack, gaveUp, notes, errors, result>>
        /\ pc[c] = "ask" /\ pc' = [pc EXCEPT ![c] = "wait"] /\ since' = [since EXCEPT ![c] = restarts]
        /\ answer' = answer \/ answer' = [answer EXCEPT ![c] = <<Refusal>>]
    BY <1>6, AskIs
  <2>2. ASSUME NEW d \in Clients PROVE Some(d)'
    <3>1. Len(<<Refusal>>) = 1
      OBVIOUS
    <3>2. since'[d] <= restarts' /\ (gaveUp'[d] => restarts' > 0)
      BY <1>0, <1>1, <2>1
    <3>3. answer'[d] # <<>> => pc'[d] = "wait" /\ Len(answer'[d]) = 1
      BY <1>0, <2>1, <3>1
    <3>4. result'[d] = "running" <=> pc'[d] # "done"
      BY <1>0, <2>1
    <3> QED BY <3>2, <3>3, <3>4
  <2>3. /\ job' \in Jobs /\ pc' \in [Clients -> Pcs]
        /\ since' \in [Clients -> Nat] /\ gaveUp' \in [Clients -> BOOLEAN]
        /\ errors' \in [Clients -> SUBSET Kinds] /\ Domains'
        /\ result' \in [Clients -> {"running", "true", "false"}]
    BY <1>0, <1>1, <2>1
  <2> HIDE DEF Some
  <2>4. \A d \in Clients : Some(d)'
    BY <2>2
  <2> QED BY <2>3, <2>4 DEF ClientTypes, Some
\* A step of runGet of c, which has no answer then.
<1>7. ASSUME NEW c \in Clients, pc[c] # "done",
             UNCHANGED <<restarts, job, since, gaveUp>>, DOMAIN notes' = Clients, DOMAIN stack' = Clients,
             DOMAIN answer' = Clients, answer'[c] = <<>>, \A d \in Clients \ {c} : answer'[d] = answer[d],
             errors' = errors \/ \E x \in Kinds : errors' = [errors EXCEPT ![c] = @ \cup {x}],
             \/ UNCHANGED result /\ \E to \in {"enter", "ask", "below"} : pc' = [pc EXCEPT ![c] = to]
             \/ /\ pc' = [pc EXCEPT ![c] = "done"]
                /\ \E v \in {"true", "false"} : result' = [result EXCEPT ![c] = v]
      PROVE  ClientTypes'
  <2>1. ASSUME NEW d \in Clients PROVE Some(d)'
    <3>1. since'[d] <= restarts' /\ (gaveUp'[d] => restarts' > 0)
      BY <1>0, <1>7
    <3>2. answer'[d] # <<>> => d # c /\ pc'[d] = pc[d] /\ answer'[d] = answer[d]
      BY <1>0, <1>7
    <3>3. result'[d] = "running" <=> pc'[d] # "done"
      BY <1>0, <1>7
    <3> QED BY <1>0, <3>1, <3>2, <3>3
  <2>2. pc' \in [Clients -> Pcs] /\ result' \in [Clients -> {"running", "true", "false"}]
    <3>1. CASE UNCHANGED result /\ \E to \in {"enter", "ask", "below"} : pc' = [pc EXCEPT ![c] = to]
      BY <1>0, <3>1
    <3>2. CASE /\ pc' = [pc EXCEPT ![c] = "done"]
               /\ \E v \in {"true", "false"} : result' = [result EXCEPT ![c] = v]
      BY <1>0, <3>2
    <3> QED BY <1>7, <3>1, <3>2
  <2>3. errors' \in [Clients -> SUBSET Kinds]
    <3>1. ASSUME NEW x \in Kinds, errors' = [errors EXCEPT ![c] = @ \cup {x}]
          PROVE  errors' \in [Clients -> SUBSET Kinds]
      <4> HIDE DEF Kinds
      <4>1. errors[c] \cup {x} \in SUBSET Kinds
        BY <1>0
      <4> QED BY <1>0, <3>1, <4>1
    <3> QED BY <1>0, <1>7, <3>1
  <2>4. /\ job' \in Jobs /\ since' \in [Clients -> Nat] /\ gaveUp' \in [Clients -> BOOLEAN]
        /\ Domains'
    BY <1>0, <1>7
  <2> HIDE DEF Some
  <2>5. \A d \in Clients : Some(d)'
    BY <2>1
  <2> QED BY <2>2, <2>3, <2>4, <2>5 DEF ClientTypes, Some
<1>8. ASSUME NEW c \in Clients, answer' = answer, pc[c] # "wait"
      PROVE  /\ DOMAIN answer' = Clients /\ answer'[c] = <<>>
             /\ \A d \in Clients \ {c} : answer'[d] = answer[d]
  BY <1>0, <1>8
<1>9. ASSUME NEW c \in Clients, Enter(c) PROVE ClientTypes'
  <2>1. /\ pc[c] = "enter" /\ UNCHANGED <<restarts, job, answer, since, gaveUp, notes, errors>>
        /\ Return(c, FALSE) \/ ((\E f : Goto(c, f, "ask")) /\ UNCHANGED result)
    <3>1. UNCHANGED hostVars
      BY <1>9, EnterIs
    <3>2. Return(c, FALSE) \/ \E f : Goto(c, f, "ask") /\ UNCHANGED result
      BY <1>9, EnterIs, Zenon
    <3> QED BY <1>9, <3>1, <3>2, EnterIs DEF hostVars
  <2> QED BY <1>0, <1>7, <1>8, <2>1, PcIs
<1>10. ASSUME NEW c \in Clients, Below(c) PROVE ClientTypes'
  <2>1. /\ pc[c] = "below" /\ UNCHANGED <<restarts, job, answer, since, gaveUp, notes, errors>>
        /\ \/ Top(c).ok \in BOOLEAN /\ Return(c, Top(c).ok)
           \/ (\E f : Goto(c, f, "ask")) /\ UNCHANGED result
           \/ (\E x : stack' = [stack EXCEPT ![c] = x]) /\ pc' = [pc EXCEPT ![c] = "enter"] /\ UNCHANGED result
    BY <1>10, BelowIs DEF hostVars
  <2>2. CASE Top(c).ok \in BOOLEAN /\ Return(c, Top(c).ok)
    BY <1>0, <1>7, <1>8, <2>1, <2>2, PcIs
  <2>3. CASE (\E f : Goto(c, f, "ask")) /\ UNCHANGED result
    BY <1>0, <1>7, <1>8, <2>1, <2>3, PcIs
  <2>4. CASE (\E x : stack' = [stack EXCEPT ![c] = x]) /\ pc' = [pc EXCEPT ![c] = "enter"] /\ UNCHANGED result
    BY <1>0, <1>7, <1>8, <2>1, <2>4
  <2> QED BY <2>1, <2>2, <2>3, <2>4
<1>11. ASSUME NEW c \in Clients, Counted(c) PROVE ClientTypes'
  <2>1. /\ pc[c] = "wait" /\ UNCHANGED <<restarts, job, since, gaveUp, notes>>
        /\ answer' = [answer EXCEPT ![c] = <<>>]
        /\ \/ Return(c, FALSE) /\ \E x \in Kinds : errors' = [errors EXCEPT ![c] = @ \cup {x}]
           \/ (\E f : Goto(c, f, "ask")) /\ UNCHANGED <<errors, result>>
    BY <1>11, CountedIs DEF hostVars
  <2>2. CASE Return(c, FALSE) /\ \E x \in Kinds : errors' = [errors EXCEPT ![c] = @ \cup {x}]
    BY <1>0, <1>7, <2>1, <2>2, PcIs
  <2>3. CASE (\E f : Goto(c, f, "ask")) /\ UNCHANGED <<errors, result>>
    BY <1>0, <1>7, <2>1, <2>3, PcIs
  <2> QED BY <2>1, <2>2, <2>3
<1>12. ASSUME NEW c \in Clients, Queried(c) PROVE ClientTypes'
  <2>1. /\ pc[c] = "wait" /\ UNCHANGED <<restarts, job, since, gaveUp, result>> /\ DOMAIN notes' = Clients
        /\ answer' = [answer EXCEPT ![c] = <<>>] /\ \E f : Goto(c, f, "below")
        /\ UNCHANGED errors \/ \E x \in Kinds : errors' = [errors EXCEPT ![c] = @ \cup {x}]
    BY <1>0, <1>12, QueriedIs, ZenonT(60) DEF hostVars
  <2> QED BY <1>0, <1>7, <2>1, PcIs
<1> HIDE DEF Some, Domains, Pcs, Kinds
<1>13. ASSUME NEW h \in Hosts, Subscribe(h) \/ Insert(h) \/ Dies(h) \/ Reconnect(h) PROVE ClientTypes'
  BY <1>3, <1>13 DEF Subscribe, Insert, Dies, Reconnect
<1>14. ASSUME RouterRestarts PROVE ClientTypes'
  BY <1>3, <1>14 DEF RouterRestarts
<1>15. ASSUME NEW i \in DOMAIN LaterFields, ApplicationChanges(i) PROVE ClientTypes'
  BY <1>3, <1>15 DEF ApplicationChanges
<1>16. ASSUME UNCHANGED vars PROVE ClientTypes'
  BY <1>3, <1>16 DEF vars
<1> QED BY <1>4, <1>5, <1>6, <1>9, <1>10, <1>11, <1>12, <1>13, <1>14, <1>15, <1>16
        DEF Next, Finished, ClientStep

LEMMA InvStep == Inv /\ [Next]_vars => Inv'
BY HostTypesStep, InboxTypesStep, ClientTypesStep, FramesStep DEF Inv

LEMMA Invariance == Spec => []Inv
BY InitInv, InvStep, PTL DEF Spec

\* The types of the hosts, of what they are sent and of the clients.
THEOREM DataModelTypes == Spec => []TypeOK
<1>1. Inv => TypeOK
  <2> SUFFICES ASSUME Inv PROVE TypeOK
    OBVIOUS
  <2>1. restarts \in 0..MaxRestarts /\ {alive, connected} \subseteq [Hosts -> BOOLEAN] /\ restarts \in Nat
    BY MaxRestartsAssumption DEF Inv, HostTypes
  <2>2. ASSUME NEW h \in Hosts
        PROVE  /\ routed[h] \in 0..Len(Registers[h])
               /\ inserted[h] \in {routed[h] - 1, routed[h]} \cap Nat
               /\ \A r \in ToSet(inbox[h]) : r.object \in Routed(h)
    BY RegistersAre DEF Inv, HostTypes, InboxTypes
  <2>3. ASSUME NEW c \in Clients
        PROVE  /\ pc[c] \in {"enter", "ask", "wait", "below", "done"}
               /\ pc[c] = "done" <=> stack[c] = <<>>
               /\ answer[c] # <<>> => pc[c] = "wait" /\ Len(answer[c]) = 1
               /\ result[c] = "running" <=> pc[c] # "done"
               /\ since[c] \in 0..restarts /\ (gaveUp[c] => restarts > 0)
               /\ errors[c] \subseteq {"count", "ids", "item", "plain"}
    BY <2>1 DEF Inv, ClientTypes, Frames, FramesOf
  <2> QED BY <2>1, <2>2, <2>3 DEF TypeOK, Inv, HostTypes
<1> QED BY <1>1, Invariance, PTL

\* getProviderByObjectName takes every name that runGet may meet apart as it is
\* meant: where there are any number of objects, lists in lists, and tokens that
\* are equal to those of other objects.
THEOREM LookupIsExactInvariant == Spec => []LookupIsExact
<1>1. Inv => LookupIsExact
  <2> SUFFICES ASSUME Inv, NEW c \in Clients, pc[c] = "enter",
                      NEW k \in 1..Len(Order), NEW item \in BOOLEAN
               PROVE  LET name == ObjectName(Top(c).param)
                      IN  (ObjectInfo(name) = k /\ Lookup(name).item = item) <=> IsInstanceOf(name, k, item)
    BY DEF LookupIsExact
  <2>1. IsSeq(Top(c).param.name)
    BY TopIs DEF FrameFor, IsFrame
  <2>2. IsSeq(ObjectName(Top(c).param))
    BY <2>1, ObjectNameIs
  <2> QED BY <2>2, LookupMeans
<1> QED BY <1>1, Invariance, PTL

-----------------------------------------------------------------------------
(* Who has the request that a client waits for.                             *)

\* A query that is not answered yet is in the inbox of a host, unless a host has
\* died or the router has restarted.
Kept(c) ==
  pc[c] = "wait" /\ answer[c] = <<>> /\ since[c] = restarts =>
    \/ \E h \in Hosts : \E r \in ToSet(inbox[h]) : r.client = c /\ r.since = restarts
    \/ \E h \in MayDie : ~alive[h]

\* A host that has not connected again has only requests from before.
Stale(h) == ~connected[h] => \A r \in ToSet(inbox[h]) : r.since < restarts

Waiting == (\A c \in Clients : Kept(c)) /\ (\A h \in Hosts : Stale(h))

LEMMA KeptStep ==
  ASSUME Inv, Waiting, [Next]_vars
  PROVE  Waiting'
<1>0. /\ \A h \in Hosts : IsSeq(inbox[h]) /\ \A r \in ToSet(inbox[h]) : r.since \in 0..restarts
      /\ DOMAIN inbox = Hosts /\ DOMAIN answer = Clients /\ restarts \in Nat
      /\ pc \in [Clients -> {"enter", "ask", "wait", "below", "done"}]
      /\ since \in [Clients -> Nat] /\ \A c \in Clients : since[c] <= restarts
      /\ alive \in [Hosts -> BOOLEAN] /\ connected \in [Hosts -> BOOLEAN]
  BY RestartsGrow DEF Inv, HostTypes, InboxTypes, ClientTypes
<1>1. (\A c \in Clients : Kept(c)) /\ (\A h \in Hosts : Stale(h))
  BY DEF Waiting
<1>2. ASSUME UNCHANGED <<restarts, alive, connected, inbox, pc, answer, since>> PROVE Waiting'
  BY <1>1, <1>2 DEF Waiting, Kept, Stale
\* A client that begins to wait, or ends.
<1>3. ASSUME NEW c \in Clients, UNCHANGED <<restarts, alive, connected, inbox, since>>,
             DOMAIN pc' = Clients, \A d \in Clients \ {c} : pc'[d] = pc[d], pc'[c] # "wait",
             answer' = answer \/ answer' = [answer EXCEPT ![c] = <<>>]
      PROVE  Waiting'
  <2>1. ASSUME NEW d \in Clients PROVE Kept(d)'
    BY <1>0, <1>1, <1>3 DEF Kept
  <2>2. ASSUME NEW h \in Hosts PROVE Stale(h)'
    BY <1>1, <1>3 DEF Stale
  <2> QED BY <2>1, <2>2 DEF Waiting
<1>4. ASSUME NEW c \in Clients, Ask(c) PROVE Waiting'
  <2>1. /\ UNCHANGED <<restarts, alive, connected>>
        /\ pc[c] = "ask" /\ pc' = [pc EXCEPT ![c] = "wait"] /\ since' = [since EXCEPT ![c] = restarts]
    BY <1>4, AskIs
  <2> DEFINE r == Request(c)
  <2>2. r.client = c /\ r.since = restarts
    BY DEF Request
  <2>3. CASE inbox' = inbox /\ answer' = [answer EXCEPT ![c] = <<Refusal>>]
    <3>1. <<Refusal>> # <<>>
      OBVIOUS
    <3>2. ASSUME NEW d \in Clients PROVE Kept(d)'
      BY <1>0, <1>1, <2>1, <2>3, <3>1 DEF Kept
    <3>3. ASSUME NEW h \in Hosts PROVE Stale(h)'
      BY <1>1, <2>1, <2>3 DEF Stale
    <3> QED BY <3>2, <3>3 DEF Waiting
  <2>4. CASE ~(inbox' = inbox /\ answer' = [answer EXCEPT ![c] = <<Refusal>>])
    <3>1. /\ UNCHANGED answer
          /\ \A h \in Hosts : \/ inbox'[h] = inbox[h]
                              \/ connected[h] /\ inbox'[h] = Append(inbox[h], r)
          /\ \E h \in Hosts : inbox'[h] = Append(inbox[h], r)
      BY <1>4, <2>4, AskIs
    <3> HIDE DEF r
    <3>2. \A h \in Hosts : ToSet(Append(inbox[h], r)) = ToSet(inbox[h]) \cup {r}
      BY <1>0, SeqAppend
    <3>3. \A h \in Hosts : ToSet(inbox[h]) \subseteq ToSet(inbox'[h])
      BY <3>1, <3>2
    <3>4. \E h \in Hosts : r \in ToSet(inbox'[h])
      BY <3>1, <3>2
    <3>5. ASSUME NEW d \in Clients PROVE Kept(d)'
      <4>1. CASE d = c
        BY <2>1, <2>2, <3>4, <4>1 DEF Kept
      <4>2. CASE d # c
        BY <1>0, <1>1, <2>1, <3>1, <3>3, <4>2 DEF Kept
      <4> QED BY <4>1, <4>2
    <3>6. ASSUME NEW h \in Hosts PROVE Stale(h)'
      BY <1>1, <2>1, <3>1 DEF Stale
    <3> QED BY <3>5, <3>6 DEF Waiting
  <2> QED BY <2>3, <2>4
<1>5. ASSUME NEW h \in Hosts, Serve(h) PROVE Waiting'
  <2> DEFINE q == Head(inbox[h])
  <2>1. /\ inbox[h] # <<>> /\ inbox' = [inbox EXCEPT ![h] = Tail(inbox[h])]
        /\ UNCHANGED <<restarts, alive, connected, pc, since>>
    BY <1>5 DEF Serve
  <2>2. PICK values : answer' = Answered(q, values)
    BY <1>5 DEF Serve
  <2> HIDE DEF q
  <2>3. ToSet(inbox[h]) = ToSet(Tail(inbox[h])) \cup {q}
    BY <1>0, <2>1, SeqTail DEF q
  <2>4. \A g \in Hosts : ToSet(inbox'[g]) \subseteq ToSet(inbox[g])
    BY <1>0, <2>1, <2>3
  <2>5. \A g \in Hosts : \A r \in ToSet(inbox[g]) : r = q \/ r \in ToSet(inbox'[g])
    BY <1>0, <2>1, <2>3
  <2>6. ASSUME NEW d \in Clients PROVE Kept(d)'
    <3> SUFFICES ASSUME pc[d] = "wait", answer'[d] = <<>>, since[d] = restarts
                 PROVE  \/ \E g \in Hosts : \E r \in ToSet(inbox'[g]) : r.client = d /\ r.since = restarts
                        \/ \E g \in MayDie : ~alive[g]
      BY <2>1 DEF Kept
    <3>1. <<Reply(values)>> # <<>>
      OBVIOUS
    <3>2. answer[d] = <<>>
      BY <1>0, <2>2, <3>1 DEF Answered
    <3>3. ~(q.client = d /\ q.since = restarts)
      BY <1>0, <2>2, <3>1, <3>2 DEF Answered, Awaits
    <3> QED BY <1>1, <2>5, <3>2, <3>3, SMTT(30) DEF Kept
  <2>7. ASSUME NEW g \in Hosts PROVE Stale(g)'
    BY <1>1, <2>1, <2>4 DEF Stale
  <2> QED BY <2>6, <2>7 DEF Waiting
<1>6. ASSUME NEW h \in Hosts, Dies(h) PROVE Waiting'
  <2>1. /\ h \in MayDie /\ alive' = [alive EXCEPT ![h] = FALSE]
        /\ inbox' = [inbox EXCEPT ![h] = <<>>] /\ UNCHANGED <<restarts, connected>>
    BY <1>6 DEF Dies
  <2>2. \E g \in MayDie : ~alive'[g]
    BY <1>0, <2>1
  <2>3. ASSUME NEW g \in Hosts PROVE Stale(g)'
    BY <1>0, <1>1, <2>1, SeqEmpty DEF Stale
  <2> QED BY <2>2, <2>3 DEF Waiting, Kept
<1>7. ASSUME NEW h \in Hosts, Reconnect(h) PROVE Waiting'
  <2>1. /\ ~connected[h] /\ connected' = [connected EXCEPT ![h] = TRUE]
        /\ inbox' = [inbox EXCEPT ![h] = <<>>] /\ UNCHANGED <<restarts, alive, pc, answer, since>>
    BY <1>7 DEF Reconnect, clientVars
  <2>2. ASSUME NEW d \in Clients PROVE Kept(d)'
    <3>1. \A r \in ToSet(inbox[h]) : r.since # restarts
      BY <1>0, <1>1, <2>1 DEF Stale
    <3>2. \A g \in Hosts : \A r \in ToSet(inbox[g]) : r.since = restarts => r \in ToSet(inbox'[g])
      BY <1>0, <2>1, <3>1
    <3> QED BY <1>1, <2>1, <3>2 DEF Kept
  <2>3. ASSUME NEW g \in Hosts PROVE Stale(g)'
    BY <1>0, <1>1, <2>1, SeqEmpty DEF Stale
  <2> QED BY <2>2, <2>3 DEF Waiting
<1>8. ASSUME RouterRestarts PROVE Waiting'
  <2>1. /\ restarts' = restarts + 1 /\ UNCHANGED since
        /\ inbox' = inbox \/ inbox' = [h \in Hosts |-> <<>>]
    BY <1>8 DEF RouterRestarts, clientVars
  <2>2. ASSUME NEW d \in Clients PROVE Kept(d)'
    <3>1. since'[d] # restarts'
      BY <1>0, <2>1
    <3> QED BY <3>1 DEF Kept
  <2>3. ASSUME NEW h \in Hosts PROVE Stale(h)'
    <3>1. ToSet(inbox'[h]) \subseteq ToSet(inbox[h])
      BY <2>1, SeqEmpty
    <3>2. \A r \in ToSet(inbox'[h]) : r.since < restarts'
      BY <1>0, <2>1, <3>1
    <3> QED BY <3>2 DEF Stale
  <2> QED BY <2>2, <2>3 DEF Waiting
<1>9. ASSUME NEW c \in Clients, TimesOut(c) PROVE Waiting'
  <2>1. /\ UNCHANGED <<restarts, alive, connected, inbox, pc, since>> /\ since[c] < restarts
        /\ answer' = [answer EXCEPT ![c] = <<Silence>>]
    BY <1>9 DEF TimesOut, hostVars
  <2>2. ASSUME NEW d \in Clients PROVE Kept(d)'
    BY <1>0, <1>1, <2>1 DEF Kept
  <2>3. ASSUME NEW h \in Hosts PROVE Stale(h)'
    BY <1>1, <2>1 DEF Stale
  <2> QED BY <2>2, <2>3 DEF Waiting
<1>10. ASSUME NEW c \in Clients, pc[c] # "done",
              NEW f, NEW to \in {"ask", "below"}, Goto(c, f, to)
       PROVE  DOMAIN pc' = Clients /\ (\A d \in Clients \ {c} : pc'[d] = pc[d]) /\ pc'[c] # "wait"
  BY <1>0, <1>10 DEF Goto
<1>11. ASSUME NEW c \in Clients, NEW ok, Return(c, ok)
       PROVE  DOMAIN pc' = Clients /\ (\A d \in Clients \ {c} : pc'[d] = pc[d]) /\ pc'[c] # "wait"
  BY <1>0, <1>11 DEF Return
<1>12. ASSUME NEW c \in Clients, Enter(c) \/ Counted(c) \/ Queried(c) \/ Below(c)
       PROVE  Waiting'
  <2>1. UNCHANGED <<restarts, alive, connected, inbox, since>>
    BY <1>12, EnterIs, CountedIs, QueriedIs, BelowIs DEF hostVars
  <2>2. answer' = answer \/ answer' = [answer EXCEPT ![c] = <<>>]
    BY <1>12, EnterIs, CountedIs, QueriedIs, BelowIs
  <2>3. DOMAIN pc' = Clients /\ (\A d \in Clients \ {c} : pc'[d] = pc[d]) /\ pc'[c] # "wait"
    <3>1. CASE Enter(c)
      BY <1>10, <1>11, <3>1, EnterIs
    <3>2. CASE Counted(c)
      BY <1>10, <1>11, <3>2, CountedIs
    <3>3. CASE Queried(c)
      BY <1>10, <1>11, <3>3, QueriedIs
    <3>4. CASE Below(c)
      <4>1. /\ pc[c] = "below"
            /\ \/ Return(c, Top(c).ok)
               \/ \E f : Goto(c, f, "ask")
               \/ pc' = [pc EXCEPT ![c] = "enter"]
        BY <3>4, BelowIs
      <4> QED BY <1>0, <1>10, <1>11, <4>1
    <3> QED BY <1>12, <3>1, <3>2, <3>3, <3>4
  <2> QED BY <1>3, <2>1, <2>2, <2>3
<1>13. ASSUME NEW h \in Hosts, Subscribe(h) \/ Insert(h) PROVE Waiting'
  BY <1>2, <1>13 DEF Subscribe, Insert, clientVars
<1>14. ASSUME NEW i \in DOMAIN LaterFields, ApplicationChanges(i) PROVE Waiting'
  BY <1>2, <1>14 DEF ApplicationChanges, clientVars
<1>15. ASSUME UNCHANGED vars PROVE Waiting'
  BY <1>2, <1>15 DEF vars, hostVars, clientVars
<1> QED BY <1>4, <1>5, <1>6, <1>7, <1>8, <1>9, <1>12, <1>13, <1>14, <1>15
        DEF Next, Finished, ClientStep

\* A query hangs only when a provider host has died or the router has restarted:
\* every request that a host has been given is answered by rtConnection_SendResponse,
\* with or without a provider, also while others subscribe, insert or reconnect.
THEOREM HangsOnlyForTheGoneInvariant == Spec => []HangsOnlyForTheGone
<1>1. Init => Waiting
  <2> SUFFICES ASSUME Init PROVE Waiting
    OBVIOUS
  <2>1. \A c \in Clients : pc[c] # "wait"
    BY DEF Init
  <2>2. \A h \in Hosts : connected[h]
    BY DEF Init
  <2> QED BY <2>1, <2>2 DEF Waiting, Kept, Stale
<1>2. Inv /\ Waiting => HangsOnlyForTheGone
  <2> SUFFICES ASSUME Inv, Waiting, NEW c \in Clients, Hangs(c)
               PROVE  since[c] < restarts \/ \E h \in MayDie : ~alive[h]
    BY DEF HangsOnlyForTheGone
  <2>1. pc[c] = "wait" /\ answer[c] = <<>>
        /\ \A h \in Hosts : \A r \in ToSet(inbox[h]) : ~(r.client = c /\ r.since = restarts)
    BY DEF Hangs, Awaits
  <2>2. since[c] \in Nat /\ since[c] <= restarts /\ restarts \in Nat
    BY MaxRestartsAssumption DEF Inv, ClientTypes, HostTypes
  <2>3. CASE since[c] = restarts
    BY <2>1, <2>3 DEF Waiting, Kept
  <2>4. CASE since[c] # restarts
    BY <2>2, <2>4
  <2> QED BY <2>3, <2>4
<1>3. Inv /\ Waiting /\ [Next]_vars => Waiting'
  BY KeptStep
<1> QED BY <1>1, <1>2, <1>3, Invariance, PTL DEF Spec

-----------------------------------------------------------------------------
(* Failures.                                                                *)

\* What runQuery is asked for is a wildcard of an object that is not known.
Unknown(c) == job[c].param.wild /\ ObjectOf(job[c].param) = None

\* Every frame that has failed was reported; if runGet does not recurse, the
\* frame has failed when anything was reported.
Fails(c) ==
  /\ \A k \in 1..Len(stack[c]) : ~stack[c][k].ok => errors[c] # {}
  /\ ~job[c].recursive /\ errors[c] # {} => \A k \in 1..Len(stack[c]) : ~stack[c][k].ok
  /\ result[c] = "false" => errors[c] # {} \/ Unknown(c)
  /\ result[c] = "true" /\ ~job[c].recursive => errors[c] = {}

Reported == \A c \in Clients : Fails(c)

\* runGet calls itself only when it recurses.
LEMMA OneFrame ==
  ASSUME Inv, NEW c \in Clients, pc[c] # "done"
  PROVE  LET n == Len(stack[c])
         IN  /\ n \in Nat \ {0} /\ n \in 1..n /\ Top(c) = stack[c][n]
             /\ ~job[c].recursive => n = 1
             /\ result[c] = "running" /\ (\A k \in 1..n : stack[c][k].ok \in BOOLEAN)
<1>1. \A k \in 1..Len(stack[c]) : FrameFor(stack[c][k], job[c], k = 1)
  BY DEF Inv, Frames, FramesOf
<1>2. /\ Len(stack[c]) \in Nat \ {0} /\ Len(stack[c]) \in 1..Len(stack[c])
      /\ Top(c) = stack[c][Len(stack[c])]
  BY TopIs
<1>3. ~job[c].recursive => Len(stack[c]) = 1
  BY <1>1, <1>2 DEF FrameFor
<1>4. result[c] = "running"
  BY DEF Inv, ClientTypes
<1>5. \A k \in 1..Len(stack[c]) : stack[c][k].ok \in BOOLEAN
  BY <1>1 DEF FrameFor, IsFrame
<1> QED BY <1>2, <1>3, <1>4, <1>5

\* The top frame goes on, with an error if it fails now.
LEMMA FailsGoto ==
  ASSUME Inv, NEW c \in Clients, Fails(c), pc[c] # "done", NEW f, NEW to \in {"ask", "below"},
         FrameFor(f, job[c], Len(stack[c]) = 1), f.at # "enter", Goto(c, f, to),
         UNCHANGED <<job, result>>,
         \/ f.ok = Top(c).ok /\ errors'[c] = errors[c]
         \/ f.ok = FALSE /\ errors'[c] # {}
  PROVE  Fails(c)'
<1> DEFINE n == Len(stack[c])
<1>1. /\ n \in Nat \ {0} /\ n \in 1..n /\ Top(c) = stack[c][n] /\ (~job[c].recursive => n = 1)
      /\ result[c] = "running" /\ (\A k \in 1..n : stack[c][k].ok \in BOOLEAN)
  BY OneFrame
<1>2. /\ Len(stack'[c]) = n /\ (\A k \in 1..n - 1 : stack'[c][k] = stack[c][k]) /\ stack'[c][n] = f
  BY GotoIs
<1> HIDE DEF n
<1>3. /\ \A k \in 1..n : ~stack[c][k].ok => errors[c] # {}
      /\ ~job[c].recursive /\ errors[c] # {} => \A k \in 1..n : ~stack[c][k].ok
  BY DEF Fails, n
<1>4. \A k \in 1..n : k = n \/ k \in 1..n - 1
  BY <1>1
<1>5. ASSUME NEW k \in 1..n, ~stack'[c][k].ok PROVE errors'[c] # {}
  BY <1>1, <1>2, <1>3, <1>4, <1>5
<1>6. ASSUME ~job[c].recursive, errors'[c] # {}, NEW k \in 1..n PROVE ~stack'[c][k].ok
  <2>1. k = n
    BY <1>1, <1>6
  <2> QED BY <1>1, <1>2, <1>3, <1>6, <2>1
<1> QED BY <1>1, <1>2, <1>5, <1>6 DEF Fails

\* The top frame returns to the one below, or ends the call.
LEMMA FailsReturn ==
  ASSUME Inv, NEW c \in Clients, Fails(c), pc[c] # "done", NEW ok \in BOOLEAN, Return(c, ok),
         job' = job, errors[c] # {} => errors'[c] # {},
         ~ok => errors'[c] # {} \/ (Len(stack[c]) = 1 /\ Unknown(c)),
         ok /\ ~job[c].recursive => errors'[c] = {}
  PROVE  Fails(c)'
<1> DEFINE n == Len(stack[c])
<1>1. /\ n \in Nat \ {0} /\ (~job[c].recursive => n = 1)
      /\ result[c] = "running" /\ (\A k \in 1..n : stack[c][k].ok \in BOOLEAN)
  BY OneFrame
<1>2. \A k \in 1..n : ~stack[c][k].ok => errors[c] # {}
  BY DEF Fails
<1>3. CASE n = 1
  <2>1. pc'[c] = "done" /\ result' = [result EXCEPT ![c] = IF ok THEN "true" ELSE "false"] /\ FramesOf(c)'
    <3>1. FramesOf(c)'
      BY ReturnIs
    <3>2. ~(Len(stack[c]) > 1)
      BY <1>3
    <3>3. pc'[c] = "done" /\ result' = [result EXCEPT ![c] = IF ok THEN "true" ELSE "false"]
      BY <3>2, ReturnIs, Zenon
    <3> QED BY <3>1, <3>3
  <2>2. Len(stack'[c]) = 0 /\ result'[c] = IF ok THEN "true" ELSE "false"
    BY <2>1, SeqEmpty DEF FramesOf, Inv, ClientTypes
  <2>3. \A k : k \notin 1..Len(stack'[c])
    BY <2>2
  <2>4. result'[c] = "false" => ~ok
    BY <2>2
  <2>5. Unknown(c)' <=> Unknown(c)
    BY DEF Unknown
  <2>6. result'[c] = "false" => errors'[c] # {} \/ Unknown(c)'
    BY <2>4, <2>5
  <2>7. result'[c] = "true" /\ ~job'[c].recursive => errors'[c] = {}
    BY <2>2
  <2> HIDE DEF Unknown
  <2> QED BY <2>3, <2>6, <2>7 DEF Fails
<1>4. CASE n # 1
  <2>1. /\ UNCHANGED result /\ Len(stack'[c]) = n - 1
        /\ \A k \in 1..n - 2 : stack'[c][k] = stack[c][k]
        /\ stack'[c][n - 1] = [stack[c][n - 1] EXCEPT !.ok = ok]
    BY <1>4, ReturnIs
  <2>2. n - 1 \in 1..n /\ "ok" \in DOMAIN stack[c][n - 1]
    <3>1. n - 1 \in 1..n
      <4> HIDE DEF n
      <4> QED BY <1>1, <1>4
    <3>2. \A k \in 1..n : FrameFor(stack[c][k], job[c], k = 1)
      BY DEF Inv, Frames, FramesOf
    <3> QED BY <3>1, <3>2 DEF FrameFor, IsFrame
  <2> HIDE DEF n
  <2>3. stack'[c][n - 1].ok = ok
    BY <2>1, <2>2
  <2>4. ASSUME NEW k \in 1..n - 1, ~stack'[c][k].ok PROVE errors'[c] # {}
    <3>1. CASE k = n - 1
      BY <1>4, <2>3, <2>4, <3>1 DEF n
    <3>2. CASE k # n - 1
      <4>1. k \in 1..n - 2 /\ k \in 1..n
        BY <1>1, <3>2
      <4> QED BY <1>2, <2>1, <2>4, <4>1
    <3> QED BY <3>1, <3>2
  <2>5. job[c].recursive
    BY <1>1, <1>4
  <2> QED BY <1>1, <2>1, <2>4, <2>5 DEF Fails
<1> QED BY <1>3, <1>4

LEMMA FailsPush ==
  ASSUME Inv, NEW c \in Clients, Fails(c), pc[c] \notin {"done", "enter"}, NEW f, NEW g,
         FrameFor(f, job[c], Len(stack[c]) = 1), f.at # "enter", FrameFor(g, job[c], FALSE),
         f.ok = Top(c).ok, g.ok, job[c].recursive,
         stack' = [stack EXCEPT ![c] = Pushed(stack[c], f, g)],
         pc' = [pc EXCEPT ![c] = "enter"], UNCHANGED <<job, result, errors>>
  PROVE  Fails(c)'
<1> DEFINE n == Len(stack[c])
<1>1. /\ n \in Nat \ {0} /\ n \in 1..n /\ Top(c) = stack[c][n] /\ result[c] = "running"
  BY OneFrame
<1>2. /\ Len(stack'[c]) = n + 1 /\ (\A k \in 1..n - 1 : stack'[c][k] = stack[c][k])
      /\ stack'[c][n] = f /\ stack'[c][n + 1] = g
  <2>1. stack'[c] = Pushed(stack[c], f, g) /\ IsSeq(stack[c]) /\ stack[c] # <<>>
    BY TopIs DEF Inv, ClientTypes, Frames, FramesOf
  <2> QED BY <2>1, SeqPush
<1>3. \A k \in 1..n : ~stack[c][k].ok => errors[c] # {}
  BY DEF Fails
<1> HIDE DEF n
<1>4. ASSUME NEW k \in 1..n + 1, ~stack'[c][k].ok PROVE errors'[c] # {}
  <2>1. k = n + 1 \/ k = n \/ (k \in 1..n - 1 /\ k \in 1..n)
    BY <1>1, <1>2
  <2> QED BY <1>1, <1>2, <1>3, <1>4, <2>1
<1> QED BY <1>1, <1>2, <1>4 DEF Fails

LEMMA FailsStep ==
  ASSUME Inv, Reported, [Next]_vars
  PROVE  Reported'
<1>0. /\ \A c \in Clients : Fails(c)
      /\ DOMAIN stack = Clients /\ errors \in [Clients -> SUBSET {"count", "ids", "item", "plain"}]
      /\ result \in [Clients -> {"running", "true", "false"}] /\ pc \in [Clients -> {"enter", "ask", "wait", "below", "done"}]
  BY DEF Reported, Inv, ClientTypes
<1>1. ASSUME UNCHANGED <<job, stack, errors, result>> PROVE Reported'
  BY <1>0, <1>1 DEF Reported, Fails, Unknown
<1>2. ASSUME NEW c \in Clients, Alone(c), Fails(c)', job' = job,
             \A d \in Clients \ {c} : errors'[d] = errors[d] /\ result'[d] = result[d]
      PROVE  Reported'
  <2>1. ASSUME NEW d \in Clients, d # c PROVE Fails(d)'
    BY <1>0, <1>2, <2>1 DEF Alone, Fails, Unknown
  <2> QED BY <1>2, <2>1 DEF Reported
<1>3. ASSUME NEW c \in Clients, pc[c] # "done", NEW f, NEW to \in {"ask", "below"},
             FrameFor(f, job[c], Len(stack[c]) = 1), f.at # "enter", Goto(c, f, to),
             UNCHANGED <<job, result>>,
             \/ f.ok = Top(c).ok /\ errors' = errors
             \/ f.ok = FALSE /\ errors' = [errors EXCEPT ![c] = @ \cup {Top(c).at}]
      PROVE  Reported'
  <2>1. \/ f.ok = Top(c).ok /\ errors'[c] = errors[c]
        \/ f.ok = FALSE /\ errors'[c] # {}
    BY <1>0, <1>3
  <2>2. Fails(c)'
    <3>1. UNCHANGED <<job, result>> /\ Fails(c)
      BY <1>0, <1>3
    <3> QED BY <1>3, <2>1, <3>1, FailsGoto, Zenon
  <2>3. Alone(c)
    BY <1>3, GotoIs
  <2> QED BY <1>0, <1>2, <1>3, <2>2, <2>3
<1>4. ASSUME NEW c \in Clients, pc[c] # "done", NEW ok \in BOOLEAN, Return(c, ok), job' = job,
             UNCHANGED errors \/ errors' = [errors EXCEPT ![c] = @ \cup {Top(c).at}],
             ~ok => errors'[c] # {} \/ (Len(stack[c]) = 1 /\ Unknown(c)),
             ok /\ ~job[c].recursive => errors'[c] = {}
      PROVE  Reported'
  <2>1. errors[c] # {} => errors'[c] # {}
    BY <1>0, <1>4
  <2>2. Fails(c)'
    BY <1>0, <1>4, <2>1, FailsReturn
  <2>3. Alone(c) /\ (UNCHANGED result \/ \E v : result' = [result EXCEPT ![c] = v])
    BY <1>4, ReturnIs
  <2> QED BY <1>0, <1>2, <1>4, <2>2, <2>3
<1>5. ASSUME NEW c \in Clients, Enter(c) PROVE Reported'
  <2>1. pc[c] = "enter" /\ UNCHANGED <<job, errors>>
    BY <1>5, EnterIs
  <2>2. CASE Top(c).param.wild /\ ObjectOf(Top(c).param) = None /\ Return(c, FALSE)
    <3>1. FrameFor(Top(c), job[c], Len(stack[c]) = 1)
      BY <2>1, TopIs
    <3>2. Len(stack[c]) = 1 /\ Unknown(c)
      BY <2>2, <3>1 DEF FrameFor, Unknown
    <3> QED BY <1>4, <2>1, <2>2, <3>2
  <2>3. CASE ~(Top(c).param.wild /\ ObjectOf(Top(c).param) = None /\ Return(c, FALSE))
    <3>1. PICK f : /\ FrameFor(f, job[c], Len(stack[c]) = 1) /\ f.at # "enter"
                   /\ f.ok = Top(c).ok /\ Goto(c, f, "ask") /\ UNCHANGED result
      BY <1>5, <2>3, EnterIs
    <3> QED BY <1>3, <2>1, <3>1
  <2> QED BY <2>2, <2>3
<1>6. ASSUME NEW c \in Clients, Counted(c) PROVE Reported'
  <2>1. pc[c] = "wait" /\ UNCHANGED <<job>>
    BY <1>6, CountedIs
  <2>2. CASE errors' = [errors EXCEPT ![c] = @ \cup {Top(c).at}] /\ Return(c, FALSE)
    <3>1. errors'[c] # {}
      BY <1>0, <2>2
    <3> QED BY <1>4, <2>1, <2>2, <3>1
  <2>3. CASE ~(errors' = [errors EXCEPT ![c] = @ \cup {Top(c).at}] /\ Return(c, FALSE))
    <3>1. PICK f : /\ FrameFor(f, job[c], Len(stack[c]) = 1) /\ f.at # "enter"
                   /\ f.ok = Top(c).ok /\ Goto(c, f, "ask") /\ UNCHANGED <<errors, result>>
      BY <1>6, <2>3, CountedIs
    <3> QED BY <1>3, <2>1, <3>1
  <2> QED BY <2>2, <2>3
<1>7. ASSUME NEW c \in Clients, Queried(c) PROVE Reported'
  <2>1. pc[c] = "wait" /\ UNCHANGED <<job, result>>
    BY <1>7, QueriedIs
  <2>2. PICK f : /\ FrameFor(f, job[c], Len(stack[c]) = 1) /\ f.at # "enter"
                 /\ f.param = Top(c).param /\ Goto(c, f, "below")
                 /\ \/ f.ok = Top(c).ok /\ UNCHANGED errors
                    \/ /\ f.ok = FALSE /\ Top(c).at \in {"item", "plain"}
                       /\ errors' = [errors EXCEPT ![c] = @ \cup {Top(c).at}]
    BY <1>7, QueriedIs
  <2> QED BY <1>3, <2>1, <2>2
<1>8. ASSUME NEW c \in Clients, Below(c) PROVE Reported'
  <2>1. pc[c] = "below" /\ UNCHANGED <<job, errors>>
    BY <1>8, BelowIs
  <2>2. \/ Return(c, Top(c).ok) /\ Top(c).ok \in BOOLEAN
        \/ \E f : /\ FrameFor(f, job[c], Len(stack[c]) = 1) /\ f.at # "enter"
                  /\ f.ok = Top(c).ok /\ Goto(c, f, "ask") /\ UNCHANGED result
        \/ \E f, g : /\ FrameFor(f, job[c], Len(stack[c]) = 1) /\ f.at # "enter"
                     /\ f.ok = Top(c).ok
                     /\ FrameFor(g, job[c], FALSE) /\ g.ok /\ job[c].recursive
                     /\ stack' = [stack EXCEPT ![c] = Pushed(stack[c], f, g)]
                     /\ pc' = [pc EXCEPT ![c] = "enter"] /\ UNCHANGED result
    BY <1>8, BelowIs
  <2>3. CASE Return(c, Top(c).ok) /\ Top(c).ok \in BOOLEAN
    <3>1. /\ Len(stack[c]) \in 1..Len(stack[c]) /\ Top(c) = stack[c][Len(stack[c])]
      BY <2>1, OneFrame
    <3>2. ~Top(c).ok => errors'[c] # {}
      BY <1>0, <2>1, <3>1 DEF Fails
    <3>3. Top(c).ok /\ ~job[c].recursive => errors'[c] = {}
      BY <1>0, <2>1, <3>1 DEF Fails
    <3> QED BY <1>4, <2>1, <2>3, <3>2, <3>3
  <2>4. ASSUME NEW f, FrameFor(f, job[c], Len(stack[c]) = 1), f.at # "enter",
               f.ok = Top(c).ok, Goto(c, f, "ask"), UNCHANGED result
        PROVE  Reported'
    BY <1>3, <2>1, <2>4
  <2>5. ASSUME NEW f, NEW g, FrameFor(f, job[c], Len(stack[c]) = 1), f.at # "enter",
               f.ok = Top(c).ok, FrameFor(g, job[c], FALSE), g.ok, job[c].recursive,
               stack' = [stack EXCEPT ![c] = Pushed(stack[c], f, g)],
               pc' = [pc EXCEPT ![c] = "enter"], UNCHANGED result
        PROVE  Reported'
    <3>1. Fails(c)'
      BY <1>0, <2>1, <2>5, FailsPush
    <3>2. Alone(c)
      BY <2>1, <2>5, PushIs
    <3> QED BY <1>2, <2>1, <2>5, <3>1, <3>2
  <2> QED BY <2>2, <2>3, <2>4, <2>5
<1>9. ASSUME NEW c \in Clients, Ask(c) \/ TimesOut(c) PROVE Reported'
  BY <1>1, <1>9 DEF Ask, TimesOut
<1>10. ASSUME NEW h \in Hosts, Subscribe(h) \/ Insert(h) \/ Serve(h) \/ Dies(h) \/ Reconnect(h)
       PROVE  Reported'
  BY <1>1, <1>10 DEF Subscribe, Insert, Serve, Dies, Reconnect, clientVars
<1>11. ASSUME RouterRestarts PROVE Reported'
  BY <1>1, <1>11 DEF RouterRestarts, clientVars
<1>12. ASSUME NEW i \in DOMAIN LaterFields, ApplicationChanges(i) PROVE Reported'
  BY <1>1, <1>12 DEF ApplicationChanges, clientVars
<1>13. ASSUME UNCHANGED vars PROVE Reported'
  BY <1>1, <1>13 DEF vars, clientVars
<1> QED BY <1>5, <1>6, <1>7, <1>8, <1>9, <1>10, <1>11, <1>12, <1>13 DEF Next, Finished, ClientStep

\* runQuery returns false only with an onError, but for a wildcard of an unknown
\* object, and true without recursion only without one: whatever lists, items and
\* answers there are, and however deep runGet calls itself.
THEOREM FailureIsReportedInvariant == Spec => []FailureIsReported
<1>1. Init => Reported
  <2> SUFFICES ASSUME Init, NEW c \in Clients PROVE Fails(c)
    BY DEF Reported
  <2> DEFINE f == Frame(job[c].param, "enter")
  <2>1. stack[c] = <<f>> /\ errors[c] = {} /\ result[c] = "running"
    BY DEF Init
  <2>2. f.ok
    BY DEF Frame
  <2> HIDE DEF f
  <2>3. \A k \in 1..Len(stack[c]) : stack[c][k] = f
    BY <2>1
  <2> QED BY <2>1, <2>2, <2>3 DEF Fails
<1>2. Reported => FailureIsReported
  BY DEF Reported, Fails, Unknown, FailureIsReported
<1>3. Inv /\ Reported /\ [Next]_vars => Reported'
  BY FailsStep
<1> QED BY <1>1, <1>2, <1>3, Invariance, PTL DEF Spec

-----------------------------------------------------------------------------
(* A request is served once, for the query that sent it.                    *)

\* What a client does changes nothing of another.
Left(d) ==
  stack'[d] = stack[d] /\ pc'[d] = pc[d] /\ since'[d] = since[d] /\ notes'[d] = notes[d] /\ answer'[d] = answer[d]

LEMMA ClientAlone ==
  ASSUME Inv, NEW d \in Clients, NEW c \in Clients, c # d, ClientStep(c) \/ TimesOut(c)
  PROVE  Left(d) /\ job' = job
<1>0. DOMAIN stack = Clients /\ pc \in [Clients -> {"enter", "ask", "wait", "below", "done"}]
      /\ since \in [Clients -> Nat] /\ DOMAIN notes = Clients /\ DOMAIN answer = Clients
  BY DEF Inv, ClientTypes
<1>1. ASSUME NEW f, NEW to, Goto(c, f, to)
      PROVE  stack'[d] = stack[d] /\ pc'[d] = pc[d]
  BY <1>0, <1>1 DEF Goto
<1>2. ASSUME NEW ok, Return(c, ok)
      PROVE  stack'[d] = stack[d] /\ pc'[d] = pc[d]
  BY <1>0, <1>2 DEF Return
<1>3. ASSUME Enter(c) PROVE Left(d) /\ job' = job
  <2>1. UNCHANGED <<job, answer, since, notes>>
    BY <1>3, EnterIs
  <2>2. stack'[d] = stack[d] /\ pc'[d] = pc[d]
    BY <1>1, <1>2, <1>3, EnterIs
  <2> QED BY <2>1, <2>2 DEF Left
<1>4. ASSUME Counted(c) PROVE Left(d) /\ job' = job
  <2>1. UNCHANGED <<job, since, notes>> /\ answer' = [answer EXCEPT ![c] = <<>>]
    BY <1>4, CountedIs
  <2>2. stack'[d] = stack[d] /\ pc'[d] = pc[d]
    BY <1>1, <1>2, <1>4, CountedIs
  <2> QED BY <1>0, <1>4, <2>1, <2>2 DEF Left
<1>5. ASSUME Queried(c) PROVE Left(d) /\ job' = job
  <2>1. UNCHANGED <<job, since>> /\ answer' = [answer EXCEPT ![c] = <<>>]
    BY <1>5, QueriedIs
  <2>2. stack'[d] = stack[d] /\ pc'[d] = pc[d]
    BY <1>1, <1>5, QueriedIs
  <2>3. notes'[d] = notes[d]
    BY <1>0, <1>5 DEF Queried, OnResult
  <2> QED BY <1>0, <1>5, <2>1, <2>2, <2>3 DEF Left
<1>6. ASSUME Below(c) PROVE Left(d) /\ job' = job
  <2>1. UNCHANGED <<job, answer, since, notes>>
    BY <1>6, BelowIs
  <2>2. stack'[d] = stack[d] /\ pc'[d] = pc[d]
    <3>1. ASSUME NEW f, NEW g, stack' = [stack EXCEPT ![c] = Pushed(stack[c], f, g)],
                 pc' = [pc EXCEPT ![c] = "enter"]
          PROVE  stack'[d] = stack[d] /\ pc'[d] = pc[d]
      BY <1>0, <1>6, <3>1
    <3>2. \/ Return(c, Top(c).ok) /\ Top(c).ok \in BOOLEAN
          \/ \E f : FrameFor(f, job[c], Len(stack[c]) = 1) /\ f.at # "enter" /\ Goto(c, f, "ask")
          \/ \E f, g : /\ FrameFor(f, job[c], Len(stack[c]) = 1) /\ f.at # "enter"
                       /\ FrameFor(g, job[c], FALSE)
                       /\ stack' = [stack EXCEPT ![c] = Pushed(stack[c], f, g)]
                       /\ pc' = [pc EXCEPT ![c] = "enter"]
      BY <1>6, BelowIs
    <3> QED BY <1>1, <1>2, <1>6, <3>1, <3>2
  <2> QED BY <2>1, <2>2 DEF Left
<1>7. ASSUME Ask(c) \/ TimesOut(c) PROVE Left(d) /\ job' = job
  BY <1>0, <1>7 DEF Ask, TimesOut, Left
<1> QED BY <1>3, <1>4, <1>5, <1>6, <1>7 DEF ClientStep

\* The request that a host serves next.
LEMMA NextRequest ==
  ASSUME Inv, NEW h \in Hosts, inbox[h] # <<>>
  PROVE  /\ Head(inbox[h]) = inbox[h][1] /\ 1 \in 1..Len(inbox[h])
         /\ Head(inbox[h]) \in ToSet(inbox[h])
<1>1. PICK S : inbox[h] \in Seq(S)
  BY DEF Inv, InboxTypes, IsSeq
<1>2. Head(inbox[h]) = inbox[h][1] /\ Len(inbox[h]) \in Nat \ {0}
  BY <1>1, HeadTailProperties, EmptySeq, LenProperties
<1>3. Head(inbox[h]) \in ToSet(inbox[h])
  BY <1>1, SeqTail DEF IsSeq
<1> QED BY <1>2, <1>3

\* What a host has inserted is among the objects that are served.
LEMMA InsertedIs ==
  ASSUME HostTypes, NEW h \in Hosts, NEW i \in Inserted(h)
  PROVE  i \in Instances
<1>1. PICK x \in 1..inserted[h] : i = Registers[h][x]
  BY DEF Inserted
<1>2. /\ inserted[h] \in Nat /\ routed[h] \in Nat /\ Len(Registers[h]) \in Nat
      /\ routed[h] <= Len(Registers[h]) /\ inserted[h] \in {routed[h] - 1, routed[h]}
  BY RegistersAre DEF HostTypes
<1>3. x \in 1..Len(Registers[h])
  BY <1>2
<1> QED BY <1>1, <1>3, RegistersAre

\* A client does a step of its own, or is answered at most.
LEMMA OthersStep ==
  ASSUME Inv, [Next]_vars, NEW d \in Clients
  PROVE  /\ job' = job
         /\ \/ ClientStep(d) \/ TimesOut(d)
            \/ /\ stack'[d] = stack[d] /\ pc'[d] = pc[d] /\ since'[d] = since[d] /\ notes'[d] = notes[d]
               /\ answer'[d] = answer[d] \/ \E h \in Hosts : Serve(h)
<1>1. ASSUME NEW h \in Hosts, Serve(h)
      PROVE  /\ stack'[d] = stack[d] /\ pc'[d] = pc[d] /\ since'[d] = since[d] /\ notes'[d] = notes[d]
             /\ job' = job
  BY <1>1 DEF Serve
<1>2. ASSUME NEW h \in Hosts, Subscribe(h) \/ Insert(h) \/ Dies(h) \/ Reconnect(h) PROVE Left(d) /\ job' = job
  BY <1>2 DEF Subscribe, Insert, Dies, Reconnect, clientVars, Left
<1>3. ASSUME RouterRestarts PROVE Left(d) /\ job' = job
  BY <1>3 DEF RouterRestarts, clientVars, Left
<1>4. ASSUME NEW i \in DOMAIN LaterFields, ApplicationChanges(i) PROVE Left(d) /\ job' = job
  BY <1>4 DEF ApplicationChanges, clientVars, Left
<1>5. ASSUME UNCHANGED vars PROVE Left(d) /\ job' = job
  BY <1>5 DEF vars, clientVars, Left
<1>6. ASSUME ClientStep(d) \/ TimesOut(d) PROVE job' = job
  BY <1>6, AskIs, EnterIs, CountedIs, QueriedIs, BelowIs DEF ClientStep, TimesOut
<1>7. \/ ClientStep(d) \/ TimesOut(d)
      \/ \E h \in Hosts : Serve(h)
      \/ Left(d) /\ job' = job
  BY <1>2, <1>3, <1>4, <1>5, ClientAlone DEF Next, Finished
<1> QED BY <1>1, <1>6, <1>7 DEF Left

\* The frame that Goto leaves on top.
LEMMA TopGoto ==
  ASSUME Inv, NEW c \in Clients, pc[c] # "done", NEW f, NEW to, Goto(c, f, to)
  PROVE  Top(c)' = f /\ pc'[c] = to
<1> DEFINE t == Append(Front(stack[c]), f)
<1>1. IsSeq(stack[c]) /\ stack[c] # <<>>
  BY DEF Inv, Frames, FramesOf
<1>2. IsSeq(t) /\ Len(t) = Len(stack[c]) /\ t # <<>> /\ t[Len(stack[c])] = f
  BY <1>1, SeqReplaceLast
<1>3. stack'[c] = t /\ pc'[c] = to
  BY DEF Goto, Inv, ClientTypes
<1> HIDE DEF t
<1>4. Last(t) = f
  BY <1>2, SeqFront
<1> QED BY <1>3, <1>4 DEF Top

\* A set is one query: runGet has one frame, and asks neither for items nor below.
LEMMA SetAlone ==
  ASSUME Inv, NEW c \in Clients, job[c].op = "set", pc[c] # "done"
  PROVE  Len(stack[c]) = 1 /\ ~job[c].recursive
<1>1. /\ Len(stack[c]) \in Nat \ {0} /\ FrameFor(Top(c), job[c], Len(stack[c]) = 1)
  BY TopIs
<1>2. ~job[c].recursive
  BY JobsAre DEF Inv, ClientTypes
<1> QED BY <1>1, <1>2 DEF FrameFor

Plain(c) == job[c].op = "set" /\ pc[c] # "done" => Top(c).at \in {"enter", "plain"}

LEMMA PlainStep ==
  ASSUME Inv, NEW c \in Clients, Plain(c), [Next]_vars
  PROVE  /\ Plain(c)'
         /\ job[c].op = "set" => ~Counted(c) /\ (Below(c) => pc'[c] = "done")
<1> SUFFICES ASSUME job[c].op = "set"
             PROVE  /\ pc'[c] # "done" => Top(c)'.at \in {"enter", "plain"}
                    /\ ~Counted(c) /\ (Below(c) => pc'[c] = "done")
  BY OthersStep DEF Plain
<1>0. pc[c] # "done" => /\ Top(c).at \in {"enter", "plain"} /\ IsFrame(Top(c))
                        /\ Len(stack[c]) = 1 /\ ~job[c].recursive
  BY TopIs, SetAlone DEF Plain, FrameFor
<1>1. ASSUME Enter(c) PROVE Top(c)'.at = "plain"
  <2>1. pc[c] = "enter" /\ Goto(c, [Top(c) EXCEPT !.at = "plain"], "ask")
    BY <1>1 DEF Enter
  <2>2. DOMAIN Top(c) = {"param", "at", "count", "ids", "i", "kid", "ok"}
    BY <1>0, <2>1 DEF IsFrame
  <2> DEFINE f == [Top(c) EXCEPT !.at = "plain"]
  <2>3. f.at = "plain"
    BY <2>2
  <2> HIDE DEF f
  <2>4. Top(c)' = f
    BY <2>1, TopGoto DEF f
  <2> QED BY <2>3, <2>4
<1>2. ASSUME Queried(c) PROVE Top(c)'.at = Top(c).at /\ pc[c] = "wait"
  <2> DEFINE f == [Top(c) EXCEPT !.ok = @ /\ answer[c][1].status = 0, !.kid = 0]
  <2>1. pc[c] = "wait" /\ Goto(c, f, "below")
    BY <1>2 DEF Queried
  <2>2. DOMAIN Top(c) = {"param", "at", "count", "ids", "i", "kid", "ok"}
    BY <1>0, <2>1 DEF IsFrame
  <2>3. f.at = Top(c).at
    BY <2>2
  <2> HIDE DEF f
  <2>4. Top(c)' = f
    BY <2>1, TopGoto
  <2> QED BY <2>1, <2>3, <2>4
<1>3. ~Counted(c)
  BY <1>0 DEF Counted
<1>4. ASSUME Below(c) PROVE pc'[c] = "done"
  <2>1. pc[c] = "below" /\ Top(c).kid \in Nat
    BY <1>0, <1>4 DEF Below, IsFrame
  <2>2. ~(Top(c).kid < Len(<<>>))
    BY <2>1
  <2>3. Return(c, Top(c).ok)
    BY <1>0, <1>4, <2>1, <2>2 DEF Below
  <2> QED BY <1>0, <2>1, <2>3 DEF Return, Inv, ClientTypes
<1>5. ASSUME Ask(c) \/ TimesOut(c) PROVE Top(c)' = Top(c) /\ pc[c] # "done"
  BY <1>5 DEF Ask, TimesOut, Top
<1>6. ASSUME stack'[c] = stack[c], pc'[c] = pc[c] PROVE pc'[c] # "done" => Top(c)'.at \in {"enter", "plain"}
  BY <1>0, <1>6 DEF Top
<1> QED BY <1>0, <1>1, <1>2, <1>3, <1>4, <1>5, <1>6, OthersStep DEF ClientStep

\* A request that its query may still get an answer to, and every request of a set.
Live(c, r) == r.client = c /\ (job[c].op = "set" \/ r.since = restarts)

\* What is known of the client then: nothing was answered yet, but for the silence
\* after which a query gives up.
Pending(c, r) ==
  /\ pc[c] \notin {"enter", "ask"} /\ answer[c] \in {<<>>, <<Silence>>}
  /\ r.since = restarts => pc[c] = "wait" /\ answer[c] = <<>> /\ since[c] = restarts /\ r = Request(c)

AllPending(c) ==
  \A h \in Hosts : \A x \in 1..Len(inbox[h]) : Live(c, inbox[h][x]) => Pending(c, inbox[h][x])

\* There is one such request at most.
OneLive(c) ==
  \A g, h \in Hosts : \A x \in 1..Len(inbox[g]), y \in 1..Len(inbox[h]) :
    Live(c, inbox[g][x]) /\ Live(c, inbox[h][y]) => g = h /\ x = y

SentOnce == \A c \in Clients : Plain(c) /\ AllPending(c) /\ OneLive(c)

LEMMA RequestSame ==
  ASSUME NEW c \in Clients, job' = job, restarts' = restarts, stack'[c] = stack[c]
  PROVE  Request(c)' = Request(c)
BY DEF Request, AskedObject, Asked, Top

\* The hosts lose requests, one of them has served one: for a client that is not answered,
\* and that does nothing.
LEMMA SentFewer ==
  ASSUME Inv, NEW c \in Clients, AllPending(c), OneLive(c), job' = job, stack'[c] = stack[c],
         pc'[c] = pc[c], answer'[c] = answer[c], since'[c] = since[c],
         restarts' = restarts \/ restarts' = restarts + 1,
         NEW pos,
         \A h \in Hosts : \A x \in 1..Len(inbox'[h]) :
           pos[h][x] \in 1..Len(inbox[h]) /\ inbox'[h][x] = inbox[h][pos[h][x]],
         \A h \in Hosts : \A x, y \in 1..Len(inbox'[h]) : pos[h][x] = pos[h][y] => x = y
  PROVE  AllPending(c)' /\ OneLive(c)'
<1>1. \A h \in Hosts : \A x \in 1..Len(inbox[h]) : inbox[h][x].since \in 0..restarts
  <2>1. \A h \in Hosts : \A r \in ToSet(inbox[h]) : r.since \in 0..restarts
    BY DEF Inv, InboxTypes
  <2>2. \A h \in Hosts : \A x \in 1..Len(inbox[h]) : inbox[h][x] \in ToSet(inbox[h])
    BY SeqLength DEF Inv, InboxTypes, ToSet
  <2> QED BY <2>1, <2>2
<1>2. restarts \in Nat
  BY MaxRestartsAssumption DEF Inv, HostTypes
<1>3. ASSUME NEW h \in Hosts, NEW x \in 1..Len(inbox'[h]), Live(c, inbox[h][x])'
      PROVE  Live(c, inbox[h][pos[h][x]]) /\ Pending(c, inbox[h][x])'
  <2> DEFINE r == inbox[h][pos[h][x]]
  <2>1. pos[h][x] \in 1..Len(inbox[h]) /\ inbox'[h][x] = r /\ r.since \in 0..restarts
    BY <1>1
  <2>2. AllPending(c)!(h)!(pos[h][x])
    BY <2>1 DEF AllPending
  <2> HIDE DEF r
  <2>3. r.client = c /\ (job[c].op = "set" \/ r.since = restarts')
    BY <1>3, <2>1 DEF Live
  <2>4. r.since = restarts' => restarts' = restarts
    BY <1>2, <2>1
  <2>5. Live(c, r)
    BY <2>3, <2>4 DEF Live
  <2>6. Pending(c, r)
    BY <2>2, <2>5 DEF r
  <2>7. r.since = restarts' => Request(c)' = Request(c)
    BY <2>4, RequestSame
  <2>8. Pending(c, inbox[h][x])'
    BY <2>1, <2>4, <2>6, <2>7 DEF Pending
  <2> QED BY <2>5, <2>8 DEF r
<1>4. AllPending(c)'
  BY <1>3 DEF AllPending
<1>5. OneLive(c)'
  <2> SUFFICES ASSUME NEW g \in Hosts, NEW h \in Hosts,
                      NEW x \in 1..Len(inbox'[g]), NEW y \in 1..Len(inbox'[h]),
                      Live(c, inbox[g][x])', Live(c, inbox[h][y])'
               PROVE  g = h /\ x = y
    BY DEF OneLive
  <2>1. Live(c, inbox[g][pos[g][x]]) /\ Live(c, inbox[h][pos[h][y]])
    BY <1>3
  <2>2. pos[g][x] \in 1..Len(inbox[g]) /\ pos[h][y] \in 1..Len(inbox[h])
    OBVIOUS
  <2>3. g = h /\ pos[g][x] = pos[h][y]
    <3>1. PICK m \in 1..Len(inbox[g]), n \in 1..Len(inbox[h]) : m = pos[g][x] /\ n = pos[h][y]
      BY <2>2
    <3>2. Live(c, inbox[g][m]) /\ Live(c, inbox[h][n])
      BY <2>1, <3>1
    <3>3. g = h /\ m = n
      BY <3>2 DEF OneLive
    <3> QED BY <3>1, <3>3
  <2> QED BY <2>3
<1> QED BY <1>4, <1>5

\* A client goes on, with no request that is current.
LEMMA SentOn ==
  ASSUME Inv, NEW c \in Clients, AllPending(c), OneLive(c), job' = job, inbox' = inbox,
         restarts' = restarts, pc[c] # "wait" \/ answer[c] # <<>> \/ since[c] # restarts,
         answer'[c] \in {answer[c], <<>>, <<Silence>>},
         job[c].op = "set" /\ pc[c] \notin {"enter", "ask"} => pc'[c] \notin {"enter", "ask"}
  PROVE  AllPending(c)' /\ OneLive(c)'
<1>1. ASSUME NEW h \in Hosts, NEW x \in 1..Len(inbox[h]), Live(c, inbox[h][x]) PROVE Pending(c, inbox[h][x])'
  <2> DEFINE r == inbox[h][x]
  <2>1. Pending(c, r)
    BY <1>1 DEF AllPending
  <2>2. r.since # restarts
    BY <2>1 DEF Pending
  <2>3. job[c].op = "set"
    BY <1>1, <2>2 DEF Live
  <2> HIDE DEF r
  <2>4. Pending(c, r)'
    <3>1. r' = r
      BY DEF r
    <3> QED BY <2>1, <2>2, <2>3, <3>1 DEF Pending
  <2> QED BY <2>4 DEF r
<1>2. AllPending(c)'
  BY <1>1 DEF AllPending, Live
<1>3. OneLive(c)'
  BY DEF OneLive, Live
<1> QED BY <1>2, <1>3

\* A host serves the first request in its inbox.
LEMMA SentServe ==
  ASSUME Inv, NEW c \in Clients, AllPending(c), OneLive(c), NEW h \in Hosts, Serve(h)
  PROVE  AllPending(c)' /\ OneLive(c)'
<1> DEFINE pos == [g \in Hosts |-> [x \in Nat |-> IF g = h THEN x + 1 ELSE x]]
           q == Head(inbox[h])
<1>1. /\ inbox[h] # <<>> /\ inbox' = [inbox EXCEPT ![h] = Tail(inbox[h])]
      /\ UNCHANGED <<restarts, job, pc, stack, since>>
  BY DEF Serve
<1>2. IsSeq(inbox[h]) /\ DOMAIN inbox = Hosts /\ DOMAIN answer = Clients
      /\ pc \in [Clients -> {"enter", "ask", "wait", "below", "done"}]
  BY DEF Inv, InboxTypes, ClientTypes
<1>3. /\ Len(inbox[h]) \in Nat \ {0} /\ q = inbox[h][1] /\ Len(Tail(inbox[h])) = Len(inbox[h]) - 1
      /\ \A x \in 1..Len(inbox[h]) - 1 : Tail(inbox[h])[x] = inbox[h][x + 1]
  <2>1. PICK S : inbox[h] \in Seq(S)
    BY <1>2 DEF IsSeq
  <2> QED BY <1>1, <2>1, HeadTailProperties, EmptySeq, LenProperties
<1>4. \A g \in Hosts : Len(inbox[g]) \in Nat
  BY SeqLength DEF Inv, InboxTypes
<1>5. /\ Len(inbox'[h]) = Len(inbox[h]) - 1
      /\ \A x \in 1..Len(inbox[h]) - 1 : inbox'[h][x] = inbox[h][x + 1]
      /\ \A g \in Hosts : g # h => inbox'[g] = inbox[g]
  BY <1>1, <1>2, <1>3
<1>6. \A g \in Hosts : \A x \in Nat : pos[g][x] = IF g = h THEN x + 1 ELSE x
  OBVIOUS
<1> HIDE DEF pos
<1>7. ASSUME NEW g \in Hosts, NEW x \in 1..Len(inbox'[g])
      PROVE  pos[g][x] \in 1..Len(inbox[g]) /\ inbox'[g][x] = inbox[g][pos[g][x]] /\ <<g, pos[g][x]>> # <<h, 1>>
  <2>1. CASE g = h
    <3>1. x \in 1..Len(inbox[h]) - 1 /\ x \in Nat /\ x + 1 \in 1..Len(inbox[h]) /\ x + 1 # 1
      BY <1>3, <1>5, <2>1
    <3> QED BY <1>5, <1>6, <2>1, <3>1
  <2>2. CASE g # h
    <3>0. inbox'[g] = inbox[g] /\ Len(inbox[g]) \in Nat
      BY <1>4, <1>5, <2>2
    <3>1. x \in 1..Len(inbox[g]) /\ x \in Nat
      BY <3>0
    <3> QED BY <1>5, <1>6, <2>2, <3>1
  <2> QED BY <2>1, <2>2
<1>8. \A g \in Hosts : \A x, y \in 1..Len(inbox'[g]) : pos[g][x] = pos[g][y] => x = y
  <2> TAKE g \in Hosts
  <2> TAKE x, y \in 1..Len(inbox'[g])
  <2> HAVE pos[g][x] = pos[g][y]
  <2>1. Len(inbox'[g]) \in Nat
    BY <1>3, <1>4, <1>5
  <2>2. x \in Nat /\ y \in Nat
    BY <2>1
  <2>3. CASE g = h
    <3>1. pos[g][x] = x + 1 /\ pos[g][y] = y + 1
      BY <1>6, <2>2, <2>3
    <3>2. x + 1 = y + 1
      BY <3>1
    <3> QED BY <2>2, <3>2
  <2>4. CASE g # h
    <3>1. pos[g][x] = x /\ pos[g][y] = y
      BY <1>6, <2>2, <2>4
    <3> QED BY <3>1
  <2> QED BY <2>3, <2>4
<1>9. CASE answer'[c] = answer[c]
  <2>1. \A g \in Hosts : \A x \in 1..Len(inbox'[g]) :
          pos[g][x] \in 1..Len(inbox[g]) /\ inbox'[g][x] = inbox[g][pos[g][x]]
    BY <1>7
  <2>2. job' = job /\ stack'[c] = stack[c] /\ pc'[c] = pc[c] /\ since'[c] = since[c] /\ restarts' = restarts
    BY <1>1
  <2> QED BY <1>8, <1>9, <2>1, <2>2, SentFewer
<1>10. CASE answer'[c] # answer[c]
  <2>1. PICK values : answer' = Answered(q, values)
    BY DEF Serve
  <2>2. q.client = c /\ q.since = restarts
    BY <1>2, <1>10, <2>1 DEF Answered, Awaits
  <2>3. Live(c, inbox[h][1]) /\ 1 \in 1..Len(inbox[h])
    BY <1>3, <2>2 DEF Live
  <2>4. ASSUME NEW g \in Hosts, NEW x \in 1..Len(inbox'[g]), Live(c, inbox[g][x])' PROVE FALSE
    <3>1. Live(c, inbox[g][pos[g][x]]) /\ pos[g][x] \in 1..Len(inbox[g])
      BY <1>1, <1>7, <2>4 DEF Live
    <3>2. g = h /\ pos[g][x] = 1
      BY <2>3, <3>1 DEF OneLive
    <3> QED BY <1>7, <3>2
  <2> QED BY <2>4 DEF AllPending, OneLive
<1> QED BY <1>9, <1>10

\* A query is sent to one host.
LEMMA SentAsk ==
  ASSUME Inv, NEW c \in Clients, AllPending(c), OneLive(c), Ask(c)
  PROVE  AllPending(c)' /\ OneLive(c)'
<1> DEFINE r == Request(c)
<1>1. /\ UNCHANGED <<restarts, job, stack>>
      /\ pc[c] = "ask" /\ pc' = [pc EXCEPT ![c] = "wait"] /\ since' = [since EXCEPT ![c] = restarts]
  BY AskIs
<1>2. DOMAIN since = Clients /\ DOMAIN pc = Clients /\ answer[c] = <<>>
  BY <1>1 DEF Inv, ClientTypes
<1>3. ASSUME NEW h \in Hosts, NEW x \in 1..Len(inbox[h]) PROVE ~Live(c, inbox[h][x])
  BY <1>1 DEF AllPending, Pending
<1>4. \A h \in Hosts : IsSeq(inbox[h]) /\ Len(inbox[h]) \in Nat
  BY SeqLength DEF Inv, InboxTypes
<1>5. CASE inbox' = inbox
  <2>1. ASSUME NEW h \in Hosts, NEW x \in 1..Len(inbox[h]) PROVE ~Live(c, inbox[h][x])'
    BY <1>1, <1>3, <1>5 DEF Live
  <2> QED BY <1>5, <2>1 DEF AllPending, OneLive
<1>6. CASE inbox' # inbox
  <2>1. /\ UNCHANGED answer
        /\ \A h \in Hosts : \/ inbox'[h] = inbox[h]
                            \/ AskedObject(c) \in Routed(h) /\ inbox'[h] = Append(inbox[h], r)
    BY <1>6, AskIs
  <2>2. ASSUME NEW g \in Hosts, NEW h \in Hosts, AskedObject(c) \in Routed(g), AskedObject(c) \in Routed(h)
        PROVE  g = h
    <3>1. \A f \in Hosts : Routed(f) \subseteq ToSet(Registers[f])
      <4> SUFFICES ASSUME NEW f \in Hosts, NEW n \in 1..routed[f] PROVE Registers[f][n] \in ToSet(Registers[f])
        BY DEF Routed
      <4>1. routed[f] \in Nat /\ routed[f] <= Len(Registers[f])
        BY DEF Inv, HostTypes
      <4>2. Len(Registers[f]) \in Nat /\ DOMAIN Registers[f] = 1..Len(Registers[f])
        BY RegistersAre, SeqLength
      <4>3. n \in DOMAIN Registers[f]
        BY <4>1, <4>2
      <4> QED BY <4>3 DEF ToSet
    <3>2. g # h => ToSet(Registers[g]) \cap ToSet(Registers[h]) = {}
      BY RegistersAssumption
    <3> QED BY <2>2, <3>1, <3>2
  <2> HIDE DEF r
  <2>3. ASSUME NEW h \in Hosts, NEW x \in 1..Len(inbox'[h]), Live(c, inbox[h][x])'
        PROVE  AskedObject(c) \in Routed(h) /\ x = Len(inbox[h]) + 1 /\ inbox'[h][x] = r
    <3>1. Live(c, inbox'[h][x])
      BY <1>1, <2>3 DEF Live
    <3>2. CASE inbox'[h] = inbox[h]
      BY <1>3, <3>1, <3>2
    <3>3. CASE AskedObject(c) \in Routed(h) /\ inbox'[h] = Append(inbox[h], r)
      <4>1. /\ Len(inbox'[h]) = Len(inbox[h]) + 1
            /\ \A k \in 1..Len(inbox[h]) : inbox'[h][k] = inbox[h][k]
            /\ inbox'[h][Len(inbox[h]) + 1] = r
        BY <1>4, <3>3, SeqAppend
      <4>2. x \in 1..Len(inbox[h]) \/ x = Len(inbox[h]) + 1
        BY <1>4, <4>1
      <4> QED BY <1>3, <3>1, <3>3, <4>1, <4>2
    <3> QED BY <2>1, <3>2, <3>3
  <2>4. AllPending(c)'
    <3>1. r = Request(c)'
      BY <1>1, RequestSame DEF r
    <3>2. ASSUME NEW h \in Hosts, NEW x \in 1..Len(inbox'[h]), Live(c, inbox[h][x])'
          PROVE  Pending(c, inbox[h][x])'
      BY <1>1, <1>2, <2>1, <2>3, <3>1, <3>2 DEF Pending
    <3> QED BY <3>2 DEF AllPending
  <2>5. OneLive(c)'
    BY <2>2, <2>3 DEF OneLive
  <2> QED BY <2>4, <2>5
<1> QED BY <1>5, <1>6

\* ... and the requests of the others stay where they are.
LEMMA SentAskOther ==
  ASSUME Inv, NEW c \in Clients, AllPending(c), OneLive(c), NEW d \in Clients, d # c, Ask(d)
  PROVE  AllPending(c)' /\ OneLive(c)'
<1> DEFINE r == Request(d)
<1>1. /\ UNCHANGED <<restarts, job, stack>> /\ pc'[c] = pc[c] /\ since'[c] = since[c] /\ answer'[c] = answer[c]
  BY AskIs DEF Inv, ClientTypes
<1>2. \A h \in Hosts : inbox'[h] = inbox[h] \/ inbox'[h] = Append(inbox[h], r)
  BY AskIs
<1>3. r.client = d
  BY DEF Request
<1>4. \A h \in Hosts : IsSeq(inbox[h]) /\ Len(inbox[h]) \in Nat
  BY SeqLength DEF Inv, InboxTypes
<1> HIDE DEF r
<1>5. ASSUME NEW h \in Hosts, NEW x \in 1..Len(inbox'[h]), Live(c, inbox[h][x])'
      PROVE  x \in 1..Len(inbox[h]) /\ inbox'[h][x] = inbox[h][x] /\ Live(c, inbox[h][x])
  <2>1. Live(c, inbox'[h][x])
    BY <1>1, <1>5 DEF Live
  <2>2. CASE inbox'[h] = inbox[h]
    BY <2>1, <2>2
  <2>3. CASE inbox'[h] = Append(inbox[h], r)
    <3>1. /\ Len(inbox'[h]) = Len(inbox[h]) + 1
          /\ \A k \in 1..Len(inbox[h]) : inbox'[h][k] = inbox[h][k]
          /\ inbox'[h][Len(inbox[h]) + 1] = r
      BY <1>4, <2>3, SeqAppend
    <3>2. x \in 1..Len(inbox[h]) \/ x = Len(inbox[h]) + 1
      BY <1>4, <3>1
    <3>3. x # Len(inbox[h]) + 1
      BY <1>3, <2>1, <3>1 DEF Live
    <3> QED BY <2>1, <3>1, <3>2, <3>3
  <2> QED BY <1>2, <2>2, <2>3
<1>6. AllPending(c)'
  <2>1. ASSUME NEW h \in Hosts, NEW x \in 1..Len(inbox'[h]), Live(c, inbox[h][x])' PROVE Pending(c, inbox[h][x])'
    <3>1. Pending(c, inbox[h][x]) /\ inbox'[h][x] = inbox[h][x]
      BY <1>5, <2>1 DEF AllPending
    <3>2. Request(c)' = Request(c)
      BY <1>1, RequestSame
    <3> QED BY <1>1, <3>1, <3>2 DEF Pending
  <2> QED BY <2>1 DEF AllPending
<1>7. OneLive(c)'
  BY <1>5 DEF OneLive
<1> QED BY <1>6, <1>7

LEMMA SentOnceStep ==
  ASSUME Inv, SentOnce, [Next]_vars
  PROVE  SentOnce'
<1> SUFFICES ASSUME NEW c \in Clients PROVE Plain(c)' /\ AllPending(c)' /\ OneLive(c)'
  BY DEF SentOnce
<1>0. Plain(c) /\ AllPending(c) /\ OneLive(c)
  BY DEF SentOnce
<1>1. Plain(c)' /\ (job[c].op = "set" => ~Counted(c) /\ (Below(c) => pc'[c] = "done"))
  BY <1>0, PlainStep
<1>2. pc[c] = "wait" => since[c] \in Nat
  BY DEF Inv, ClientTypes
<1>3. restarts \in Nat /\ DOMAIN answer = Clients /\ DOMAIN pc = Clients
  BY RestartsGrow DEF Inv, ClientTypes
\* The steps of this client.
<1>4. CASE Ask(c)
  BY <1>0, <1>1, <1>4, SentAsk
<1>5. CASE TimesOut(c)
  <2>1. /\ UNCHANGED <<restarts, inbox, job, pc>> /\ since[c] # restarts
        /\ answer'[c] = <<Silence>>
    BY <1>2, <1>3, <1>5 DEF TimesOut, hostVars
  <2> QED BY <1>0, <1>1, <2>1, SentOn
<1>6. CASE Enter(c)
  <2>1. UNCHANGED <<restarts, inbox, job, answer>> /\ pc[c] = "enter"
    BY <1>6, EnterIs DEF hostVars
  <2> QED BY <1>0, <1>1, <2>1, SentOn
<1>7. CASE Counted(c)
  <2>1. UNCHANGED <<restarts, inbox, job>> /\ answer[c] # <<>> /\ answer'[c] = <<>>
    BY <1>3, <1>7, CountedIs DEF hostVars
  <2> QED BY <1>0, <1>1, <1>7, <2>1, SentOn
<1>8. CASE Queried(c)
  <2>1. UNCHANGED <<restarts, inbox, job>> /\ answer[c] # <<>> /\ answer'[c] = <<>> /\ pc'[c] = "below"
    BY <1>3, <1>8 DEF Queried, Goto, hostVars
  <2> QED BY <1>0, <1>1, <2>1, SentOn
<1>9. CASE Below(c)
  <2>1. UNCHANGED <<restarts, inbox, job, answer>> /\ pc[c] = "below"
    BY <1>9, BelowIs DEF hostVars
  <2> QED BY <1>0, <1>1, <1>9, <2>1, SentOn
\* The steps of the others.
<1>10. CASE \E d \in Clients : d # c /\ Ask(d)
  BY <1>0, <1>1, <1>10, SentAskOther
<1>11. CASE \E h \in Hosts : Serve(h)
  BY <1>0, <1>1, <1>11, SentServe
<1>12. ASSUME job' = job, stack'[c] = stack[c], pc'[c] = pc[c], answer'[c] = answer[c], since'[c] = since[c],
              restarts' = restarts \/ restarts' = restarts + 1,
              \A h \in Hosts : inbox'[h] = inbox[h] \/ inbox'[h] = <<>>
       PROVE  AllPending(c)' /\ OneLive(c)'
  <2> DEFINE pos == [h \in Hosts |-> [x \in Nat |-> x]]
  <2>1. \A h \in Hosts : Len(inbox[h]) \in Nat
    BY SeqLength DEF Inv, InboxTypes
  <2>2. \A h \in Hosts : \A x \in 1..Len(inbox'[h]) : x \in 1..Len(inbox[h]) /\ x \in Nat /\ inbox'[h] = inbox[h]
    BY <1>12, <2>1, SeqEmpty
  <2>3. \A h \in Hosts : \A x \in Nat : pos[h][x] = x
    OBVIOUS
  <2> HIDE DEF pos
  <2>4. /\ \A h \in Hosts : \A x \in 1..Len(inbox'[h]) :
             pos[h][x] \in 1..Len(inbox[h]) /\ inbox'[h][x] = inbox[h][pos[h][x]]
        /\ \A h \in Hosts : \A x, y \in 1..Len(inbox'[h]) : pos[h][x] = pos[h][y] => x = y
    BY <2>2, <2>3
  <2> QED BY <1>0, <1>12, <2>4, SentFewer
<1>13. CASE \E h \in Hosts : Dies(h) \/ Reconnect(h)
  <2>1. PICK h \in Hosts : inbox' = [inbox EXCEPT ![h] = <<>>]
    BY <1>13 DEF Dies, Reconnect
  <2>2. UNCHANGED clientVars /\ UNCHANGED restarts
    BY <1>13 DEF Dies, Reconnect
  <2>3. \A g \in Hosts : inbox'[g] = inbox[g] \/ inbox'[g] = <<>>
    BY <2>1 DEF Inv, InboxTypes
  <2> QED BY <1>1, <1>12, <2>2, <2>3 DEF clientVars
<1>14. CASE RouterRestarts
  <2>1. /\ UNCHANGED clientVars /\ restarts' = restarts + 1
        /\ inbox' = inbox \/ inbox' = [h \in Hosts |-> <<>>]
    BY <1>14 DEF RouterRestarts
  <2> QED BY <1>1, <1>12, <2>1 DEF clientVars
<1>15. CASE \E h \in Hosts : Subscribe(h) \/ Insert(h)
  <2>1. UNCHANGED clientVars /\ UNCHANGED <<restarts, inbox>>
    BY <1>15 DEF Subscribe, Insert
  <2> QED BY <1>1, <1>12, <2>1 DEF clientVars
<1>16. CASE \E i \in DOMAIN LaterFields : ApplicationChanges(i)
  <2>1. UNCHANGED clientVars /\ UNCHANGED <<restarts, inbox>>
    BY <1>16 DEF ApplicationChanges
  <2> QED BY <1>1, <1>12, <2>1 DEF clientVars
<1>17. CASE UNCHANGED vars
  <2>1. UNCHANGED clientVars /\ UNCHANGED <<restarts, inbox>>
    BY <1>17 DEF vars, hostVars
  <2> QED BY <1>1, <1>12, <2>1 DEF clientVars
<1>18. ASSUME NEW d \in Clients, d # c, Enter(d) \/ Counted(d) \/ Queried(d) \/ Below(d) \/ TimesOut(d)
       PROVE  AllPending(c)' /\ OneLive(c)'
  <2>1. UNCHANGED <<restarts, inbox, job>>
    BY <1>18, EnterIs, CountedIs, QueriedIs, BelowIs DEF hostVars, TimesOut
  <2>2. Left(c)
    BY <1>18, ClientAlone DEF ClientStep
  <2> QED BY <1>12, <2>1, <2>2 DEF Left
<1> QED BY <1>1, <1>4, <1>5, <1>6, <1>7, <1>8, <1>9, <1>10, <1>11, <1>13, <1>14, <1>15, <1>16, <1>17, <1>18
        DEF Next, Finished, ClientStep

-----------------------------------------------------------------------------
(* What a set does, and what it says it did.                                *)

\* The parameters that are set, at once or with the transaction.
Known(class) == class.setters \cup class.own
Takes(class, p) == p.info.writable /\ p.info.name \in Known(class)

\* The last of n parameters that is for a property.
IsLastOf(params, q, m, n) ==
  /\ m \in 1..n /\ params[m].info.name = q
  /\ \A l \in 1..n : params[l].info.name = q => l <= m

SetSoFar(class, fs, tr, params, n, st) ==
  /\ IsSetState(class, DOMAIN fs, st) /\ IsSeq(st.result)
  /\ \A e \in ToSet(st.result) : e.status = "ok" =>
       \E m \in 1..n : Takes(class, params[m]) /\ e.prop = params[m].info.full /\ e.value = params[m].value
  /\ \A q \in Known(class) :
       IF tr /\ q \in class.pair
       THEN /\ st.fields[q] = fs[q]
            /\ \/ st.aside[q] = Blank
               \/ \E m \in 1..n : IsLastOf(params, q, m, n) /\ st.aside[q] = params[m].value
            /\ (\E m \in 1..n : params[m].info.name = q) =>
                 \E m \in 1..n : params[m].info.name = q /\ st.aside[q] = params[m].value
       ELSE /\ (\A m \in 1..n : params[m].info.name # q) => st.fields[q] = fs[q]
            /\ (\E m \in 1..n : params[m].info.name = q /\ Takes(class, params[m])) =>
                 \E m \in 1..n : params[m].info.name = q /\ st.fields[q] = params[m].value

\* A subclass as the provider needs it, and parameters that can set its transaction.
CanBeSet(class, fs, params) ==
  /\ class.pair \subseteq class.setters /\ Known(class) \subseteq DOMAIN fs
  /\ \A m \in 1..Len(params) : params[m].info.name \in class.pair => params[m].info.writable

LEMMA SaidIs ==
  ASSUME NEW st, st = [fields |-> st.fields, aside |-> st.aside, result |-> st.result]
  PROVE  \A e : [st EXCEPT !.result = Append(@, e)]
                  = [fields |-> st.fields, aside |-> st.aside, result |-> Append(st.result, e)]
<1> TAKE e
<1> PICK f, a, r : f = st.fields /\ a = st.aside /\ r = st.result
  OBVIOUS
<1>1. st = [fields |-> f, aside |-> a, result |-> r]
  OBVIOUS
<1>2. [[fields |-> f, aside |-> a, result |-> r] EXCEPT !.result = Append(@, e)]
        = [fields |-> f, aside |-> a, result |-> Append(r, e)]
  OBVIOUS
<1> QED BY <1>1, <1>2

LEMMA SetOneStep ==
  ASSUME NEW class, NEW fs, NEW tr, NEW params, IsSeq(params), CanBeSet(class, fs, params),
         NEW n \in 0..Len(params) - 1, NEW st, SetSoFar(class, fs, tr, params, n, st)
  PROVE  SetSoFar(class, fs, tr, params, n + 1, SetOne(class, tr, st, params[n + 1]))
<1> DEFINE p == params[n + 1]
           name == p.info.name
           st2 == SetOne(class, tr, st, p)
<1>0. /\ Len(params) \in Nat /\ n \in Nat /\ n + 1 \in 1..Len(params) /\ n + 1 \in 1..n + 1
      /\ \A m \in 1..n + 1 : m \in 1..n \/ m = n + 1
      /\ \A m \in 1..n : m \in 1..n + 1 /\ m # n + 1 /\ m <= n + 1
  BY SeqLength
<1>1. /\ st = [fields |-> st.fields, aside |-> st.aside, result |-> st.result]
      /\ DOMAIN st.fields = DOMAIN fs /\ DOMAIN st.aside = class.pair /\ IsSeq(st.result)
  BY DEF SetSoFar, IsSetState
<1>2. IsSetState(class, DOMAIN fs, st2)
  BY SetOneIs DEF SetSoFar
\* What becomes of the parameter.
<1>3. \/ /\ ~Takes(class, p) /\ st2.fields = st.fields /\ st2.aside = st.aside
         /\ \E e : e.status # "ok" /\ st2.result = Append(st.result, e)
      \/ /\ Takes(class, p) /\ st2.result = Append(st.result, Entry(p.info.full, p.value, "ok"))
         /\ \/ /\ tr /\ name \in class.pair
               /\ st2.fields = st.fields /\ st2.aside = [st.aside EXCEPT ![name] = p.value]
            \/ /\ ~(tr /\ name \in class.pair)
               /\ st2.fields = [st.fields EXCEPT ![name] = p.value] /\ st2.aside = st.aside
  <2> DEFINE f == st.fields
             a == st.aside
             r == st.result
  <2>1. st = [fields |-> f, aside |-> a, result |-> r]
    BY <1>1
  <2>2. \A e : [st EXCEPT !.result = Append(@, e)] = [fields |-> f, aside |-> a, result |-> Append(r, e)]
    BY <2>1, SaidIs
  <2> HIDE DEF f, a, r, p
  <2>3. CASE ~p.info.writable
    <3> DEFINE e == Entry(p.info.full, Blank, "error")
    <3>1. e.status # "ok" /\ ~Takes(class, p)
      BY <2>3 DEF Entry, Takes
    <3> HIDE DEF e
    <3>2. SetOne(class, tr, st, p) = [fields |-> f, aside |-> a, result |-> Append(r, e)]
      BY <2>2, <2>3 DEF SetOne, e
    <3> QED BY <3>1, <3>2 DEF f, a, r
  <2>4. CASE p.info.writable /\ name \notin Known(class)
    <3> DEFINE e == NotFound(p.info.full)
    <3>1. e.status # "ok" /\ ~Takes(class, p)
      BY <2>4 DEF Entry, NotFound, Takes
    <3> HIDE DEF e
    <3>2. SetOne(class, tr, st, p) = [fields |-> f, aside |-> a, result |-> Append(r, e)]
      BY <2>2, <2>4 DEF SetOne, e, Known
    <3> QED BY <3>1, <3>2 DEF f, a, r
  <2>5. CASE Takes(class, p)
    <3> DEFINE e == Entry(p.info.full, p.value, "ok")
               done == [fields |-> f, aside |-> a, result |-> Append(r, e)]
    <3>1. SetOne(class, tr, st, p) =
            IF tr /\ name \in class.pair THEN [done EXCEPT !.aside[name] = p.value]
            ELSE [done EXCEPT !.fields[name] = p.value]
      BY <2>2, <2>5 DEF SetOne, Takes, Known
    <3> HIDE DEF e
    <3>2. CASE tr /\ name \in class.pair
      <4>1. SetOne(class, tr, st, p) = [fields |-> f, aside |-> [a EXCEPT ![name] = p.value], result |-> Append(r, e)]
        BY <3>1, <3>2
      <4>2. /\ st2.fields = st.fields /\ st2.aside = [st.aside EXCEPT ![name] = p.value]
            /\ st2.result = Append(st.result, Entry(p.info.full, p.value, "ok"))
        BY <4>1 DEF f, a, r, e
      <4> QED BY <2>5, <3>2, <4>2
    <3>3. CASE ~(tr /\ name \in class.pair)
      <4>1. SetOne(class, tr, st, p) = [fields |-> [f EXCEPT ![name] = p.value], aside |-> a, result |-> Append(r, e)]
        BY <3>1, <3>3
      <4> QED BY <2>5, <3>3, <4>1 DEF f, a, r, e
    <3> QED BY <3>2, <3>3
  <2> QED BY <2>3, <2>4, <2>5 DEF Takes
<1>4. PICK e : /\ st2.result = Append(st.result, e)
               /\ e.status = "ok" => Takes(class, p) /\ e.prop = p.info.full /\ e.value = p.value
  BY <1>3 DEF Entry
<1> HIDE DEF st2
<1>5. IsSeq(st2.result) /\ ToSet(st2.result) = ToSet(st.result) \cup {e}
  BY <1>1, <1>4, SeqAppend
<1>6. ASSUME NEW x \in ToSet(st2.result), x.status = "ok"
      PROVE  \E m \in 1..n + 1 : Takes(class, params[m]) /\ x.prop = params[m].info.full /\ x.value = params[m].value
  <2>1. CASE x = e
    BY <1>0, <1>4, <1>6, <2>1
  <2>2. CASE x # e
    <3>1. x \in ToSet(st.result)
      BY <1>5, <2>2
    <3>2. PICK m \in 1..n : Takes(class, params[m]) /\ x.prop = params[m].info.full /\ x.value = params[m].value
      BY <1>6, <3>1 DEF SetSoFar
    <3> QED BY <1>0, <3>2
  <2> QED BY <2>1, <2>2
<1>7. ASSUME NEW q \in Known(class), tr /\ q \in class.pair
      PROVE  /\ st2.fields[q] = fs[q]
             /\ \/ st2.aside[q] = Blank
                \/ \E m \in 1..n + 1 : IsLastOf(params, q, m, n + 1) /\ st2.aside[q] = params[m].value
             /\ (\E m \in 1..n + 1 : params[m].info.name = q) =>
                  \E m \in 1..n + 1 : params[m].info.name = q /\ st2.aside[q] = params[m].value
  <2>1. /\ st.fields[q] = fs[q]
        /\ \/ st.aside[q] = Blank
           \/ \E m \in 1..n : IsLastOf(params, q, m, n) /\ st.aside[q] = params[m].value
        /\ (\E m \in 1..n : params[m].info.name = q) =>
             \E m \in 1..n : params[m].info.name = q /\ st.aside[q] = params[m].value
    BY <1>7 DEF SetSoFar
  <2>2. CASE name = q
    <3>1. Takes(class, p)
      BY <1>0, <1>7, <2>2 DEF CanBeSet, Takes
    <3>2. st2.fields = st.fields /\ st2.aside[q] = p.value
      BY <1>1, <1>3, <1>7, <2>2, <3>1
    <3>3. IsLastOf(params, q, n + 1, n + 1)
      BY <1>0, <2>2 DEF IsLastOf
    <3> QED BY <1>0, <2>1, <2>2, <3>2, <3>3
  <2>3. CASE name # q
    <3>1. q \in DOMAIN st.fields /\ q \in DOMAIN st.aside
      BY <1>1, <1>7 DEF CanBeSet
    <3>2. st2.fields[q] = st.fields[q] /\ st2.aside[q] = st.aside[q]
      BY <1>3, <2>3, <3>1
    <3>3. \A m \in 1..n : IsLastOf(params, q, m, n) => IsLastOf(params, q, m, n + 1)
      BY <1>0, <2>3 DEF IsLastOf
    <3> QED BY <1>0, <2>1, <2>3, <3>2, <3>3
  <2> QED BY <2>2, <2>3
<1>8. ASSUME NEW q \in Known(class), ~(tr /\ q \in class.pair)
      PROVE  /\ (\A m \in 1..n + 1 : params[m].info.name # q) => st2.fields[q] = fs[q]
             /\ (\E m \in 1..n + 1 : params[m].info.name = q /\ Takes(class, params[m])) =>
                  \E m \in 1..n + 1 : params[m].info.name = q /\ st2.fields[q] = params[m].value
  <2>1. /\ (\A m \in 1..n : params[m].info.name # q) => st.fields[q] = fs[q]
        /\ (\E m \in 1..n : params[m].info.name = q /\ Takes(class, params[m])) =>
             \E m \in 1..n : params[m].info.name = q /\ st.fields[q] = params[m].value
    BY <1>8 DEF SetSoFar
  <2>2. CASE name = q /\ Takes(class, p)
    <3>1. q \in DOMAIN st.fields
      BY <1>1 DEF CanBeSet
    <3>2. st2.fields[q] = p.value
      BY <1>3, <1>8, <2>2, <3>1
    <3> QED BY <1>0, <2>2, <3>2
  <2>3. CASE ~(name = q /\ Takes(class, p))
    <3>1. q \in DOMAIN st.fields
      BY <1>1 DEF CanBeSet
    <3>2. st2.fields[q] = st.fields[q]
      BY <1>3, <2>3, <3>1
    <3> QED BY <1>0, <2>1, <2>3, <3>2
  <2> QED BY <2>2, <2>3
<1>9. SetSoFar(class, fs, tr, params, n + 1, st2)
  BY <1>2, <1>5, <1>6, <1>7, <1>8 DEF SetSoFar
<1> QED BY <1>9 DEF st2

LEMMA SetEnds ==
  ASSUME NEW class, NEW fs, NEW params, IsSeq(params), CanBeSet(class, fs, params)
  PROVE  \E st : /\ SetSoFar(class, fs, Len(params) > 1, params, Len(params), st)
                 /\ DoSet(class, fs, params).fields =
                      IF Len(params) > 1 THEN Commit(class, st) ELSE st.fields
                 /\ DoSet(class, fs, params).result = st.result
<1> DEFINE tr == Len(params) > 1
<1>1. PICK st : /\ st[0] = SetStart(class, fs)
                /\ \A n \in 0..Len(params) - 1 : st[n + 1] = SetOne(class, tr, st[n], params[n + 1])
                /\ DoSet(class, fs, params).fields =
                     IF tr THEN Commit(class, st[Len(params)]) ELSE st[Len(params)].fields
                /\ DoSet(class, fs, params).result = st[Len(params)].result
  BY DoSetSteps
<1> DEFINE T == {n \in Nat : n <= Len(params) => SetSoFar(class, fs, tr, params, n, st[n])}
<1>2. Len(params) \in Nat
  BY SeqLength
<1> HIDE DEF tr
<1>3. 0 \in T
  <2> DEFINE s == SetStart(class, fs)
  <2>1. /\ s.fields = fs /\ s.aside = [q \in class.pair |-> Blank] /\ s.result = <<>>
        /\ IsSetState(class, DOMAIN fs, s)
    BY DEF SetStart, IsSetState
  <2> HIDE DEF s
  <2>2. \A m : m \notin 1..0
    OBVIOUS
  <2>3. SetSoFar(class, fs, tr, params, 0, s)
    BY <2>1, <2>2, SeqEmpty DEF SetSoFar
  <2> QED BY <1>1, <2>3 DEF s
<1>4. ASSUME NEW n \in T PROVE n + 1 \in T
  <2> SUFFICES ASSUME n + 1 <= Len(params) PROVE SetSoFar(class, fs, tr, params, n + 1, st[n + 1])
    OBVIOUS
  <2>1. n \in 0..Len(params) - 1 /\ SetSoFar(class, fs, tr, params, n, st[n])
    BY <1>2
  <2> QED BY <1>1, <2>1, SetOneStep
<1>5. SetSoFar(class, fs, tr, params, Len(params), st[Len(params)])
  <2> HIDE DEF T
  <2>1. Len(params) \in T
    BY <1>2, <1>3, <1>4, NatSetInduction
  <2> QED BY <1>2, <2>1 DEF T
<1> QED BY <1>1, <1>5 DEF tr

\* What a set reports is what it has done, if it gives every property once and all
\* those of the transaction a value.
LEMMA SetReports ==
  ASSUME NEW class, NEW fs, NEW params, IsSeq(params), CanBeSet(class, fs, params),
         \A m \in 1..Len(params) : params[m].info.name \in Known(class) =>
           /\ params[m].info.full = params[m].info.name
           /\ \A l \in 1..Len(params) : params[l].info.name = params[m].info.name => l = m,
         \A m \in 1..Len(params) : params[m].value # Blank,
         Len(params) > 1 => \A q \in class.pair : \E m \in 1..Len(params) : params[m].info.name = q
  PROVE  \A e \in ToSet(DoSet(class, fs, params).result) :
           e.status = "ok" => DoSet(class, fs, params).fields[e.prop] = e.value
<1>1. PICK st : /\ SetSoFar(class, fs, Len(params) > 1, params, Len(params), st)
                /\ DoSet(class, fs, params).fields =
                     IF Len(params) > 1 THEN Commit(class, st) ELSE st.fields
                /\ DoSet(class, fs, params).result = st.result
  BY SetEnds
<1> SUFFICES ASSUME NEW e \in ToSet(st.result), e.status = "ok"
             PROVE  DoSet(class, fs, params).fields[e.prop] = e.value
  BY <1>1
<1>2. PICK m \in 1..Len(params) : Takes(class, params[m]) /\ e.prop = params[m].info.full /\ e.value = params[m].value
  BY <1>1 DEF SetSoFar
<1>3. PICK q \in Known(class) : q = e.prop /\ params[m].info.name = q
  BY <1>2 DEF Takes
<1>4. \A l \in 1..Len(params) : params[l].info.name = q => l = m
  BY <1>2, <1>3
<1>5. class.pair \subseteq Known(class) /\ q \in DOMAIN st.fields /\ DOMAIN st.aside = class.pair
  BY <1>1 DEF SetSoFar, IsSetState, CanBeSet, Known
<1>6. CASE Len(params) > 1 /\ q \in class.pair
  <2>1. \A p \in class.pair : st.aside[p] # Blank
    BY <1>1, <1>5, <1>6 DEF SetSoFar
  <2>2. st.aside[q] = params[m].value
    BY <1>1, <1>2, <1>3, <1>4, <1>6 DEF SetSoFar
  <2>3. DoSet(class, fs, params).fields = Overlaid(st.fields, st.aside)
    BY <1>1, <1>6, <2>1 DEF Commit
  <2> QED BY <1>2, <1>3, <1>5, <1>6, <2>2, <2>3 DEF Overlaid
<1>7. CASE ~(Len(params) > 1 /\ q \in class.pair)
  <2>1. st.fields[q] = params[m].value
    BY <1>1, <1>2, <1>3, <1>4, <1>7 DEF SetSoFar
  <2>2. CASE Len(params) > 1
    <3>1. q \notin DOMAIN st.aside
      BY <1>5, <1>7, <2>2
    <3>2. Commit(class, st)[q] = st.fields[q]
      BY <1>5, <3>1 DEF Commit, Overlaid
    <3> QED BY <1>1, <1>2, <1>3, <2>1, <2>2, <3>2
  <2>3. CASE ~(Len(params) > 1)
    BY <1>1, <1>2, <1>3, <2>1, <2>3
  <2> QED BY <2>2, <2>3
<1> QED BY <1>6, <1>7

\* A transaction sets all its properties, each to the last value for it, or none; and
\* without a transaction they are left alone by a set of others.
LEMMA SetAllOrNone ==
  ASSUME NEW class, NEW fs, NEW params, IsSeq(params), CanBeSet(class, fs, params),
         Len(params) > 1 \/ \A m \in 1..Len(params) : params[m].info.name \notin class.pair
  PROVE  LET new == DoSet(class, fs, params).fields
         IN  \/ \A q \in class.pair : new[q] = fs[q]
             \/ /\ Len(params) > 1
                /\ \A q \in class.pair :
                     \E m \in 1..Len(params) : IsLastOf(params, q, m, Len(params)) /\ new[q] = params[m].value
<1> DEFINE new == DoSet(class, fs, params).fields
<1>1. PICK st : /\ SetSoFar(class, fs, Len(params) > 1, params, Len(params), st)
                /\ new = IF Len(params) > 1 THEN Commit(class, st) ELSE st.fields
  BY SetEnds
<1> HIDE DEF new
<1>2. /\ class.pair \subseteq Known(class) /\ class.pair \subseteq DOMAIN st.fields
      /\ DOMAIN st.aside = class.pair
  BY <1>1 DEF SetSoFar, IsSetState, CanBeSet, Known
<1>3. CASE ~(Len(params) > 1)
  BY <1>1, <1>2, <1>3 DEF SetSoFar, new
<1>4. CASE Len(params) > 1 /\ ~(\A q \in class.pair : st.aside[q] # Blank)
  BY <1>1, <1>2, <1>4 DEF SetSoFar, Commit, new
<1>5. CASE Len(params) > 1 /\ \A q \in class.pair : st.aside[q] # Blank
  <2>1. \A q \in class.pair : new[q] = st.aside[q]
    BY <1>1, <1>2, <1>5 DEF Commit, Overlaid
  <2>2. \A q \in class.pair :
          \E m \in 1..Len(params) : IsLastOf(params, q, m, Len(params)) /\ st.aside[q] = params[m].value
    BY <1>1, <1>2, <1>5 DEF SetSoFar
  <2> QED BY <1>5, <2>1, <2>2 DEF new
<1> QED BY <1>3, <1>4, <1>5 DEF new

\* What an application gives to a set: every property once, and not the value that
\* a transaction takes for one that was not given.
SetsAreClear ==
  \A js \in Jobs, c \in Clients : js[c].op = "set" =>
    \A x, y \in 1..Len(js[c].pairs) :
      js[c].pairs[x].value # Blank /\ (js[c].pairs[x].prop = js[c].pairs[y].prop => x = y)

\* The data model has the properties of the transactions, and can set them; no
\* function is registered under the empty name that stands for an unknown property.
MembersAreDeclared ==
  \A k \in 1..Len(Order) :
    LET class == ClassOf(k)
    IN  /\ "" \notin class.getters \cup class.setters \cup class.own
        /\ \A q \in class.pair : HasProperty(k, q) /\ Property(k, q).writable

\* The parameters of a set, as the provider gets them.
LEMMA SetParamsAre ==
  ASSUME MembersAreDeclared, HostTypes, NEW r, IsSeq(r.pairs), r.object \in Instances
  PROVE  LET class  == ClassOf(ObjectInfo(r.object))
             params == SetParams(r)
         IN  /\ IsSeq(params) /\ Len(params) = Len(r.pairs) /\ Len(params) \in Nat
             /\ CanBeSet(class, fields[r.object], params)
             /\ \A m \in 1..Len(params) :
                  /\ params[m].value = r.pairs[m].value
                  /\ params[m].info.name \in Known(class) =>
                       params[m].info.name = r.pairs[m].prop /\ params[m].info.full = params[m].info.name
                  /\ \A q \in class.pair : params[m].info.name = q <=> r.pairs[m].prop = q
<1> DEFINE k == ObjectInfo(r.object)
           class == ClassOf(k)
           e(j) == [info |-> Info(k, r.pairs[j].prop, r.prop, TRUE), value |-> r.pairs[j].value]
           params == SetParams(r)
           S == {e(j) : j \in 1..Len(r.pairs)}
<1>1. k \in 1..Len(Order)
  BY RegistersAssumption, InstancesAreNames, InfoRange
<1>2. Len(r.pairs) \in Nat
  BY SeqLength
<1>3. /\ "" \notin Known(class)
      /\ \A q \in class.pair : HasProperty(k, q) /\ Property(k, q).writable
  BY <1>1 DEF MembersAreDeclared, Known
<1>4. /\ class.pair \subseteq class.setters
      /\ Known(class) \subseteq DOMAIN fields[r.object]
  BY <1>1, ClassAssumption, FieldsAssumption DEF ClassOf, HostTypes, Known
<1>5. /\ params \in Seq(S) /\ Len(params) = Len(r.pairs)
      /\ \A j \in 1..Len(r.pairs) :
           params[j].value = r.pairs[j].value /\ params[j].info = Info(k, r.pairs[j].prop, r.prop, TRUE)
  <2>1. params = [j \in 1..Len(r.pairs) |-> e(j)]
    BY DEF SetParams
  <2> HIDE DEF params, e
  <2>2. params \in [1..Len(r.pairs) -> S]
    BY <2>1
  <2>3. params \in Seq(S)
    <3> HIDE DEF S
    <3> QED BY <1>2, <2>2, SeqDef
  <2>4. DOMAIN params = 1..Len(r.pairs) /\ Len(params) \in Nat /\ DOMAIN params = 1..Len(params)
    BY <2>1, <2>3, LenProperties
  <2>5. Len(params) = Len(r.pairs)
    <3> HIDE DEF S
    <3> QED BY <1>2, <2>4
  <2>6. \A j \in 1..Len(r.pairs) : params[j] = e(j)
    BY <2>1
  <2>7. \A j : e(j).value = r.pairs[j].value /\ e(j).info = Info(k, r.pairs[j].prop, r.prop, TRUE)
    BY DEF e
  <2> QED BY <2>3, <2>5, <2>6, <2>7
<1> HIDE DEF params, S, k
<1>6. ASSUME NEW m \in 1..Len(r.pairs)
      PROVE  /\ params[m].value = r.pairs[m].value
             /\ params[m].info.name \in Known(class) =>
                  params[m].info.name = r.pairs[m].prop /\ params[m].info.full = params[m].info.name
             /\ \A q \in class.pair : params[m].info.name = q <=> r.pairs[m].prop = q
             /\ params[m].info.name \in class.pair => params[m].info.writable
  <2> DEFINE prop == r.pairs[m].prop
  <2>1. params[m].value = r.pairs[m].value /\ params[m].info = Info(k, prop, r.prop, TRUE)
    BY <1>5
  <2>2. class.pair \subseteq Known(class)
    BY <1>4 DEF Known
  <2> HIDE DEF prop, class
  <2>3. CASE HasProperty(k, prop)
    <3>1. params[m].info = [name |-> prop, full |-> prop, writable |-> Property(k, prop).writable]
      BY <2>1, <2>3 DEF Info
    <3>2. /\ params[m].info.name = prop /\ params[m].info.full = prop
          /\ params[m].info.writable = Property(k, prop).writable
      BY <3>1
    <3>3. prop \in class.pair => params[m].info.writable
      BY <1>3, <3>2, Zenon
    <3> QED BY <2>1, <3>2, <3>3 DEF prop
  <2>4. CASE ~HasProperty(k, prop)
    <3>0. PICK unknown : unknown = ""
      OBVIOUS
    <3>1. params[m].info = [name |-> unknown, full |-> r.prop, writable |-> TRUE]
      BY <2>1, <2>4, <3>0 DEF Info
    <3>2. \A q \in class.pair : q # prop /\ q # ""
      BY <1>3, <2>2, <2>4
    <3>3. params[m].info.name = unknown
      BY <3>1
    <3>4. params[m].info.name \notin Known(class) /\ params[m].info.name \notin class.pair
      BY <1>3, <2>2, <3>0, <3>3, Zenon
    <3> QED BY <1>3, <2>1, <3>2, <3>3, <3>4 DEF prop
  <2> QED BY <2>3, <2>4
<1>7. IsSeq(params)
  BY <1>5 DEF IsSeq
<1>8. CanBeSet(class, fields[r.object], params)
  BY <1>4, <1>5, <1>6 DEF CanBeSet
<1> HIDE DEF class
<1>9. \A m \in 1..Len(params) :
        /\ params[m].value = r.pairs[m].value
        /\ params[m].info.name \in Known(class) =>
             params[m].info.name = r.pairs[m].prop /\ params[m].info.full = params[m].info.name
        /\ \A q \in class.pair : params[m].info.name = q <=> r.pairs[m].prop = q
  BY <1>5, <1>6
<1> QED BY <1>2, <1>5, <1>7, <1>8, <1>9 DEF params, class, k

\* A request says what its client was asked to do.
AsAsked(r) ==
  LET j == job[r.client]
  IN  /\ r.op = j.op /\ r.pairs = j.pairs
      /\ j.op = "set" /\ j.multi => r.object = j.param.name

SentAsAsked == \A h \in Hosts : \A r \in ToSet(inbox[h]) : AsAsked(r)

LEMMA SentAsAskedStep ==
  ASSUME Inv, SentOnce, SentAsAsked, [Next]_vars
  PROVE  SentAsAsked'
<1>1. \A h \in Hosts : IsSeq(inbox[h])
  BY DEF Inv, InboxTypes
<1>2. ASSUME job' = job, \A h \in Hosts : ToSet(inbox'[h]) \subseteq ToSet(inbox[h]) PROVE SentAsAsked'
  BY <1>2 DEF SentAsAsked, AsAsked
<1>3. ASSUME UNCHANGED <<job, inbox>> PROVE SentAsAsked'
  BY <1>3 DEF SentAsAsked, AsAsked
<1>4. ASSUME NEW c \in Clients, Ask(c) PROVE SentAsAsked'
  <2> DEFINE r == Request(c)
  <2>1. job' = job /\ \A h \in Hosts : inbox'[h] = inbox[h] \/ inbox'[h] = Append(inbox[h], r)
    BY <1>4, AskIs
  <2>2. r.client = c /\ r.op = job[c].op /\ r.pairs = job[c].pairs /\ r.object = AskedObject(c)
    BY DEF Request
  <2>3. ASSUME job[c].op = "set", job[c].multi PROVE AskedObject(c) = job[c].param.name
    <3>1. pc[c] = "ask"
      BY <1>4, AskIs
    <3>2. Top(c).at = "plain"
      BY <2>3, <3>1, TopIs DEF SentOnce, Plain
    <3>3. Top(c).param = job[c].param
      BY <2>3, <3>1, SetAlone, TopIs DEF FrameFor
    <3>4. Asked(c) = job[c].param
      BY <3>2, <3>3 DEF Asked
    <3> QED BY <2>3, <3>4 DEF AskedObject
  <2>4. AsAsked(r)
    BY <2>2, <2>3 DEF AsAsked
  <2> HIDE DEF r
  <2>5. ASSUME NEW h \in Hosts, NEW x \in ToSet(inbox'[h]) PROVE x \in ToSet(inbox[h]) \/ x = r
    <3>1. ToSet(Append(inbox[h], r)) = ToSet(inbox[h]) \cup {r}
      BY <1>1, SeqAppend
    <3> QED BY <2>1, <2>5, <3>1
  <2>6. \A h \in Hosts : \A x \in ToSet(inbox'[h]) : AsAsked(x)
    BY <2>4, <2>5 DEF SentAsAsked
  <2> QED BY <2>1, <2>6 DEF SentAsAsked, AsAsked
<1>5. ASSUME NEW h \in Hosts, Serve(h) PROVE SentAsAsked'
  <2>1. inbox[h] # <<>> /\ inbox' = [inbox EXCEPT ![h] = Tail(inbox[h])] /\ job' = job
    BY <1>5 DEF Serve
  <2>2. ToSet(Tail(inbox[h])) \subseteq ToSet(inbox[h])
    BY <1>1, <2>1, SeqTail
  <2>3. \A g \in Hosts : ToSet(inbox'[g]) \subseteq ToSet(inbox[g])
    BY <2>1, <2>2 DEF Inv, InboxTypes
  <2> QED BY <1>2, <2>1, <2>3
<1>6. ASSUME NEW h \in Hosts, Dies(h) \/ Reconnect(h) PROVE SentAsAsked'
  <2>1. inbox' = [inbox EXCEPT ![h] = <<>>] /\ job' = job
    BY <1>6 DEF Dies, Reconnect, clientVars
  <2>2. \A g \in Hosts : ToSet(inbox'[g]) \subseteq ToSet(inbox[g])
    BY <2>1, SeqEmpty DEF Inv, InboxTypes
  <2> QED BY <1>2, <2>1, <2>2
<1>7. ASSUME RouterRestarts PROVE SentAsAsked'
  <2>1. (inbox' = inbox \/ inbox' = [h \in Hosts |-> <<>>]) /\ job' = job
    BY <1>7 DEF RouterRestarts, clientVars
  <2>2. \A g \in Hosts : ToSet(inbox'[g]) \subseteq ToSet(inbox[g])
    BY <2>1, SeqEmpty
  <2> QED BY <1>2, <2>1, <2>2
<1>8. ASSUME NEW c \in Clients, Enter(c) \/ Counted(c) \/ Queried(c) \/ Below(c) \/ TimesOut(c)
      PROVE  SentAsAsked'
  BY <1>3, <1>8, EnterIs, CountedIs, QueriedIs, BelowIs DEF hostVars, TimesOut
<1>9. ASSUME NEW h \in Hosts, Subscribe(h) \/ Insert(h) PROVE SentAsAsked'
  BY <1>3, <1>9 DEF Subscribe, Insert, clientVars
<1>10. ASSUME NEW i \in DOMAIN LaterFields, ApplicationChanges(i) PROVE SentAsAsked'
  BY <1>3, <1>10 DEF ApplicationChanges, clientVars
<1>11. ASSUME UNCHANGED vars PROVE SentAsAsked'
  BY <1>3, <1>11 DEF vars, hostVars, clientVars
<1> QED BY <1>4, <1>5, <1>6, <1>7, <1>8, <1>9, <1>10, <1>11 DEF Next, Finished, ClientStep

SetsInv == Inv /\ SentOnce /\ SentAsAsked

LEMMA SetsInvariance == Spec => []SetsInv
<1>1. Init => SetsInv
  <2> SUFFICES ASSUME Init PROVE SetsInv
    OBVIOUS
  <2>1. \A h \in Hosts : inbox[h] = <<>>
    BY DEF Init
  <2>2. \A h \in Hosts : 1..Len(inbox[h]) = {} /\ ToSet(inbox[h]) = {}
    BY <2>1, SeqEmpty
  <2>3. ASSUME NEW c \in Clients PROVE Plain(c)
    <3>1. stack[c] = <<Frame(job[c].param, "enter")>>
      BY DEF Init
    <3>2. Top(c) = Frame(job[c].param, "enter")
      BY <3>1 DEF Top, Last
    <3> QED BY <3>2 DEF Plain, Frame
  <2> QED BY <2>2, <2>3, InitInv DEF SetsInv, SentOnce, AllPending, OneLive, SentAsAsked
<1>2. SetsInv /\ [Next]_vars => SetsInv'
  BY InvStep, SentOnceStep, SentAsAskedStep DEF SetsInv
<1> QED BY <1>1, <1>2, PTL DEF Spec

\* A value that a client gets for a set comes from the host that has just served it.
LEMMA ServedSet ==
  ASSUME SetsInv, [Next]_vars, NEW h \in Hosts, inbox[h] # <<>>, inbox'[h] = Tail(inbox[h]),
         Head(inbox[h]).op = "set",
         NEW a \in ToSet(answer'[Head(inbox[h]).client]), a.values # <<>>
  PROVE  Serve(h) /\ answer'[Head(inbox[h]).client] # answer[Head(inbox[h]).client]
<1> DEFINE r == Head(inbox[h])
           c == r.client
<1>1. \A g \in Hosts : inbox[g] # <<>> =>
        /\ Head(inbox[g]) = inbox[g][1] /\ 1 \in 1..Len(inbox[g]) /\ Head(inbox[g]) \in ToSet(inbox[g])
  BY NextRequest DEF SetsInv
<1>2. c \in Clients /\ AsAsked(r)
  BY <1>1 DEF SetsInv, Inv, InboxTypes, SentAsAsked
<1> HIDE DEF r
<1>3. job[c].op = "set" /\ Live(c, inbox[h][1])
  BY <1>1, <1>2 DEF AsAsked, Live, r
<1>4. answer[c] \in {<<>>, <<Silence>>}
  BY <1>1, <1>2, <1>3 DEF SetsInv, SentOnce, AllPending, Pending
<1>5. /\ ToSet(<<>>) = {} /\ \A x : ToSet(<<x>>) = {x}
      /\ Silence.values = <<>> /\ Refusal.values = <<>>
  BY DEF ToSet, Silence, Refusal
<1>6. a \in ToSet(answer'[c])
  BY DEF r
<1>7. answer'[c] \notin {<<>>, <<Silence>>, <<Refusal>>}
  BY <1>5, <1>6
<1>8. DOMAIN answer = Clients
  BY DEF SetsInv, Inv, ClientTypes
<1>9. ~ClientStep(c) /\ ~TimesOut(c)
  <2>1. ASSUME Ask(c) PROVE FALSE
    BY <1>2, <1>4, <1>7, <1>8, <2>1, AskIs DEF SetsInv
  <2>2. ASSUME Enter(c) \/ Counted(c) \/ Queried(c) \/ Below(c) PROVE FALSE
    BY <1>2, <1>4, <1>7, <1>8, <2>2, EnterIs, CountedIs, QueriedIs, BelowIs DEF SetsInv
  <2>3. ASSUME TimesOut(c) PROVE FALSE
    BY <1>2, <1>7, <1>8, <2>3 DEF TimesOut
  <2> QED BY <2>1, <2>2, <2>3 DEF ClientStep
<1>10. answer'[c] # answer[c]
  BY <1>4, <1>7
<1>11. PICK g \in Hosts : Serve(g)
  BY <1>2, <1>9, <1>10, OthersStep DEF SetsInv
<1>12. PICK values : answer' = Answered(Head(inbox[g]), values) /\ inbox[g] # <<>>
  BY <1>11 DEF Serve
<1>13. Head(inbox[g]).client = c
  BY <1>8, <1>10, <1>12 DEF Answered
<1>14. Live(c, inbox[g][1])
  BY <1>1, <1>3, <1>12, <1>13 DEF Live
<1>15. g = h
  BY <1>1, <1>2, <1>3, <1>12, <1>14 DEF SetsInv, SentOnce, OneLive
<1> QED BY <1>10, <1>11, <1>15 DEF r

\* When a set that gives a transaction all its properties is answered, what the answer
\* says was set is what the object has now: no other request is taken for this one, and
\* neither a transaction nor the order of the parameters loses one of its values.
THEOREM SetsDoWhatTheyReport ==
  ASSUME SetsAreClear, MembersAreDeclared
  PROVE  Spec => SetAsReported
<1> DEFINE Good(h) ==
      (inbox[h] # <<>> /\ inbox'[h] = Tail(inbox[h])) =>
        LET r == Head(inbox[h])
        IN  (r.op = "set" /\ (Len(r.pairs) > 1 =>
               ClassOf(ObjectInfo(r.object)).pair \subseteq {p.prop : p \in ToSet(r.pairs)})) =>
            \A e \in UNION {ToSet(a.values) : a \in ToSet(answer'[r.client])} :
              e.status = "ok" => fields'[r.object][e.prop] = e.value
<1>1. SetsInv /\ [Next]_vars => \A h \in Hosts : Good(h)
  <2> SUFFICES ASSUME SetsInv, [Next]_vars, NEW h \in Hosts, inbox[h] # <<>>, inbox'[h] = Tail(inbox[h]),
                      Head(inbox[h]).op = "set",
                      Len(Head(inbox[h]).pairs) > 1 =>
                        ClassOf(ObjectInfo(Head(inbox[h]).object)).pair
                          \subseteq {p.prop : p \in ToSet(Head(inbox[h]).pairs)},
                      NEW a \in ToSet(answer'[Head(inbox[h]).client]),
                      NEW e \in ToSet(a.values), e.status = "ok"
               PROVE  fields'[Head(inbox[h]).object][e.prop] = e.value
    OBVIOUS
  <2> DEFINE r == Head(inbox[h])
             c == r.client
             class == ClassOf(ObjectInfo(r.object))
             params == SetParams(r)
             known == r.object \in Inserted(h)
             set == DoSet(class, fields[r.object], params)
  <2>1. a.values # <<>>
    BY SeqEmpty
  <2>2. Serve(h) /\ answer'[c] # answer[c]
    BY <2>1, ServedSet
  <2>3. /\ fields' = IF known THEN [fields EXCEPT ![r.object] = set.fields] ELSE fields
        /\ answer' = Answered(r, IF known THEN set.result ELSE <<>>)
    BY <2>2 DEF Serve
  <2>4. /\ r \in ToSet(inbox[h]) /\ IsSeq(inbox[h]) /\ c \in Clients /\ IsSeq(r.pairs)
        /\ AsAsked(r) /\ job \in Jobs /\ HostTypes
    <3>1. r \in ToSet(inbox[h]) /\ IsSeq(inbox[h])
      BY SeqTail DEF SetsInv, Inv, InboxTypes
    <3> QED BY <3>1 DEF SetsInv, Inv, InboxTypes, ClientTypes, SentAsAsked
  <2>5. job[c].op = "set" /\ r.pairs = job[c].pairs
    BY <2>4 DEF AsAsked
  <2> HIDE DEF set, class, params, r
  <2>6. answer'[c] = <<Reply(IF known THEN set.result ELSE <<>>)>>
    BY <2>2, <2>3, <2>4 DEF Answered, SetsInv, Inv, ClientTypes
  <2>7. a = Reply(IF known THEN set.result ELSE <<>>)
    BY <2>6 DEF ToSet, r
  <2>8. known /\ e \in ToSet(set.result)
    BY <2>1, <2>7 DEF Reply
  <2>9. r.object \in Instances
    BY <2>4, <2>8, InsertedIs
  <2>10. /\ IsSeq(params) /\ Len(params) = Len(r.pairs) /\ Len(params) \in Nat
         /\ CanBeSet(class, fields[r.object], params)
         /\ \A m \in 1..Len(params) :
              /\ params[m].value = r.pairs[m].value
              /\ params[m].info.name \in Known(class) =>
                   params[m].info.name = r.pairs[m].prop /\ params[m].info.full = params[m].info.name
              /\ \A q \in class.pair : params[m].info.name = q <=> r.pairs[m].prop = q
    BY <2>4, <2>9, SetParamsAre DEF class, params
  <2>11. \A x, y \in 1..Len(r.pairs) :
           r.pairs[x].value # Blank /\ (r.pairs[x].prop = r.pairs[y].prop => x = y)
    BY <2>4, <2>5 DEF SetsAreClear
  <2>12. \A m \in 1..Len(params) : params[m].value # Blank
    BY <2>10, <2>11
  <2>13. \A m \in 1..Len(params) : params[m].info.name \in Known(class) =>
           /\ params[m].info.full = params[m].info.name
           /\ \A l \in 1..Len(params) : params[l].info.name = params[m].info.name => l = m
    BY <2>10, <2>11
  <2>14. Len(params) > 1 => \A q \in class.pair : \E m \in 1..Len(params) : params[m].info.name = q
    <3> SUFFICES ASSUME Len(params) > 1, NEW q \in class.pair
                 PROVE  \E m \in 1..Len(params) : params[m].info.name = q
      OBVIOUS
    <3>1. q \in {p.prop : p \in ToSet(r.pairs)}
      BY <2>10 DEF r, class
    <3>2. DOMAIN r.pairs = 1..Len(r.pairs)
      BY <2>4, SeqLength
    <3>3. PICK m \in 1..Len(r.pairs) : q = r.pairs[m].prop
      BY <3>1, <3>2 DEF ToSet
    <3> QED BY <2>10, <3>3
  <2>15. set.fields[e.prop] = e.value
    BY <2>8, <2>10, <2>12, <2>13, <2>14, SetReports DEF set
  <2>16. fields'[r.object] = set.fields
    BY <2>3, <2>4, <2>8, <2>9 DEF HostTypes
  <2> QED BY <2>15, <2>16 DEF r
<1>2. Spec => [][\A h \in Hosts : Good(h)]_vars
  <2> HIDE DEF Good
  <2> QED BY <1>1, SetsInvariance, PTL DEF Spec
<1> QED BY <1>2 DEF SetAsReported

-----------------------------------------------------------------------------
(* What a get shows of a transaction was set together.                      *)

\* Every way to set a property of a transaction is a transaction on its object: a set
\* of several properties; and the application leaves them alone.
OnlyTransactions ==
  /\ \A js \in Jobs, c \in Clients :
       js[c].op = "set" /\ ~(js[c].multi /\ Len(js[c].pairs) > 1) =>
         \A x \in 1..Len(js[c].pairs), k \in 1..Len(Order) : js[c].pairs[x].prop \notin ClassOf(k).pair
  /\ \A i \in DOMAIN LaterFields : ClassOf(ObjectInfo(i)).pair \cap DOMAIN LaterFields[i] = {}

\* What is set in a transaction can be got.
PairsCanBeRead ==
  \A k \in 1..Len(Order) : ClassOf(k).pair \subseteq ClassOf(k).getters \cup ClassOf(k).own

LEMMA MaxIs ==
  ASSUME NEW s, NEW m \in s, s \subseteq Nat, \A y \in s : y <= m
  PROVE  Max(s) = m
<1>1. \A y \in s : m >= y
  OBVIOUS
<1>2. \A x \in s : (\A y \in s : x >= y) => x = m
  <2> SUFFICES ASSUME NEW x \in s, \A y \in s : x >= y PROVE x = m
    OBVIOUS
  <2>1. x >= m /\ x <= m /\ x \in Nat /\ m \in Nat
    OBVIOUS
  <2> QED BY <2>1
<1> QED BY <1>1, <1>2 DEF Max

LEMMA GreatestExists ==
  ASSUME NEW n \in Nat, NEW s \in SUBSET (1..n), s # {}
  PROVE  \E m \in s : \A y \in s : y <= m
<1> DEFINE T == {k \in Nat : \A t \in SUBSET (1..k) : t # {} => \E m \in t : \A y \in t : y <= m}
<1>1. 0 \in T
  <2>1. \A t \in SUBSET (1..0) : t = {}
    OBVIOUS
  <2> QED BY <2>1
<1>2. ASSUME NEW k \in T PROVE k + 1 \in T
  <2> SUFFICES ASSUME NEW t \in SUBSET (1..k + 1), t # {} PROVE \E m \in t : \A y \in t : y <= m
    OBVIOUS
  <2>1. CASE k + 1 \in t
    <3>1. \A y \in t : y <= k + 1
      OBVIOUS
    <3> QED BY <2>1, <3>1
  <2>2. CASE k + 1 \notin t
    <3>1. t \in SUBSET (1..k)
      BY <2>2
    <3> QED BY <3>1
  <2> QED BY <2>1, <2>2
<1> HIDE DEF T
<1>3. n \in T
  BY <1>1, <1>2, NatSetInduction
<1> QED BY <1>3 DEF T

LEMMA LeastExists ==
  ASSUME NEW n \in Nat, NEW s \in SUBSET (1..n), s # {}
  PROVE  \E m \in s : \A y \in s : m <= y
<1> DEFINE t == {n + 1 - y : y \in s}
<1>1. t \in SUBSET (1..n) /\ t # {}
  <2>1. \A y \in s : n + 1 - y \in 1..n
    OBVIOUS
  <2>2. PICK y : y \in s
    OBVIOUS
  <2>3. n + 1 - y \in t
    BY <2>2
  <2> QED BY <2>1, <2>3
<1>2. PICK m \in t : \A y \in t : y <= m
  BY <1>1, GreatestExists
<1>3. PICK x \in s : m = n + 1 - x
  BY <1>2
<1>4. \A y \in s : n + 1 - y \in t
  OBVIOUS
<1>5. \A y \in s : n + 1 - y <= n + 1 - x
  BY <1>2, <1>3, <1>4
<1>6. \A y \in s : x <= y
  BY <1>5
<1> QED BY <1>6

\* The value of a property is the last one in the answer.
LEMMA ValueOfLast ==
  ASSUME NEW q, NEW values, NEW m \in 1..Len(values), Len(values) \in Nat, values[m].prop = q,
         \A l \in 1..Len(values) : values[l].prop = q => l <= m
  PROVE  ValueOf(q, values) = values[m].value
<1> DEFINE at == {n \in 1..Len(values) : values[n].prop = q}
<1>1. m \in at /\ at \subseteq Nat /\ \A y \in at : y <= m
  OBVIOUS
<1> HIDE DEF at
<1>2. Max(at) = m /\ at # {}
  BY <1>1, MaxIs
<1>3. ValueOf(q, values) = values[Max(at)].value
  BY <1>2 DEF ValueOf, at
<1> QED BY <1>2, <1>3

ValueIsAt(q, values) ==
  \E m \in 1..Len(values) : values[m].prop = q /\ ValueOf(q, values) = values[m].value

LEMMA ValueOfSome ==
  ASSUME NEW q, NEW values, IsSeq(values), NEW e \in ToSet(values), e.prop = q
  PROVE  ValueIsAt(q, values)
<1> DEFINE at == {n \in 1..Len(values) : values[n].prop = q}
<1>1. Len(values) \in Nat /\ DOMAIN values = 1..Len(values)
  BY SeqLength
<1>2. at \in SUBSET (1..Len(values)) /\ at # {}
  BY <1>1 DEF ToSet
<1>3. PICK m \in at : \A y \in at : y <= m
  <2> HIDE DEF at
  <2> QED BY <1>1, <1>2, GreatestExists
<1>4. ValueOf(q, values) = values[m].value
  BY <1>1, <1>3, ValueOfLast
<1> QED BY <1>3, <1>4 DEF ValueIsAt

\* The properties that an object declares are a sequence.
LEMMA PropertiesAre ==
  ASSUME NEW k \in 1..Len(Order)
  PROVE  IsSeq(Properties(k))
<1> DEFINE Record == [name : Seq(STRING), list : BOOLEAN, props : Seq([name : STRING, writable : BOOLEAN])]
           Named(i) == Files[i].name = Order[k]
           s == {i \in 1..Len(Files) : Named(i)}
<1>1. Files \in Seq(Record) /\ ToSet(Order) = {f.name : f \in ToSet(Files)} \ {Unparsable}
  BY FilesAssumption
<1>2. Len(Files) \in Nat /\ DOMAIN Files = 1..Len(Files)
  <2> HIDE DEF Record
  <2> QED BY <1>1, LenProperties
<1>3. Order[k] \in ToSet(Order)
  <2>1. DOMAIN Order = 1..Len(Order)
    BY OrderNames
  <2> QED BY <2>1 DEF ToSet
<1>4. PICK f \in ToSet(Files) : f.name = Order[k]
  BY <1>1, <1>3
<1>5. s \in SUBSET (1..Len(Files)) /\ s # {}
  BY <1>2, <1>4 DEF ToSet
<1>6. PICK m \in s : \A y \in s : m <= y
  <2> HIDE DEF s
  <2> QED BY <1>2, <1>5, LeastExists
<1>7. Named(m) /\ \A j \in 1..(m - 1) : ~Named(j)
  <2>1. \A j \in 1..(m - 1) : j \in 1..Len(Files) /\ ~(m <= j)
    BY <1>2, <1>5
  <2> QED BY <1>6, <2>1
<1> DEFINE first == CHOOSE i \in 1..Len(Files) : Named(i) /\ \A j \in 1..(i - 1) : ~Named(j)
<1>8. first \in 1..Len(Files)
  <2> HIDE DEF Named
  <2>1. m \in 1..Len(Files)
    OBVIOUS
  <2> QED BY <1>7, <2>1
<1>9. Objects[k] = Files[first]
  BY DEF Objects, Loaded
<1> HIDE DEF first
<1>10. Files[first] \in Record
  <2> HIDE DEF Record
  <2> QED BY <1>1, <1>8, ElementOfSeq
<1>11. Files[first].props \in Seq([name : STRING, writable : BOOLEAN])
  BY <1>10
<1> QED BY <1>9, <1>11 DEF Properties, IsSeq

PairOf(i) == ClassOf(ObjectInfo(i)).pair

\* Values that were set together.
Together(i, values) == \E w \in Wanted(i) : \A q \in PairOf(i) : values[q] = w[q]
Whole(i, values) ==
  (\A q \in PairOf(i) : \E e \in ToSet(values) : e.prop = q) =>
    \E w \in Wanted(i) : \A q \in PairOf(i) : ValueOf(q, values) = w[q]

LEMMA WantedFirst ==
  ASSUME NEW i
  PROVE  \E w \in Wanted(i) : \A q \in PairOf(i) : w[q] = Fields[i][q]
<1> DEFINE w == [q \in PairOf(i) |-> Fields[i][q]]
<1>1. w \in Wanted(i)
  BY DEF Wanted, PairOf
<1> QED BY <1>1

LEMMA WantedSet ==
  ASSUME NEW c \in Clients, job[c].op = "set", job[c].multi, NEW i, job[c].param.name = i,
         \A q \in PairOf(i) : \E p \in ToSet(job[c].pairs) : p.prop = q
  PROVE  \E w \in Wanted(i) : \A q \in PairOf(i) : w[q] = ValueOf(q, job[c].pairs)
<1> DEFINE w == [q \in PairOf(i) |-> ValueOf(q, job[c].pairs)]
<1>1. w \in Wanted(i)
  BY DEF Wanted, PairOf
<1> QED BY <1>1

LEMMA WantedSame ==
  ASSUME job' = job, NEW i
  PROVE  Wanted(i)' = Wanted(i)
BY DEF Wanted

LEMMA PairIs ==
  ASSUME MembersAreDeclared, HostTypes, NEW i \in Instances
  PROVE  LET k == ObjectInfo(i)
             class == ClassOf(k)
         IN  /\ k \in 1..Len(Order) /\ PairOf(i) = class.pair
             /\ PairOf(i) \subseteq DOMAIN fields[i] /\ DOMAIN fields = Instances
             /\ \A q \in PairOf(i) : HasProperty(k, q)
<1>1. ObjectInfo(i) \in 1..Len(Order)
  BY RegistersAssumption, InstancesAreNames, InfoRange
<1>2. PairOf(i) \subseteq ClassOf(ObjectInfo(i)).setters
  BY <1>1, ClassAssumption DEF ClassOf, PairOf
<1>3. PairOf(i) \subseteq DOMAIN fields[i] /\ DOMAIN fields = Instances
  BY <1>1, <1>2, FieldsAssumption DEF HostTypes
<1>4. \A q \in PairOf(i) : HasProperty(ObjectInfo(i), q)
  BY <1>1 DEF MembersAreDeclared, PairOf
<1> QED BY <1>1, <1>3, <1>4 DEF PairOf

\* What a get asks for: properties of the object, by their own names.
AreInfos(k, infos) ==
  \E n \in Nat : /\ DOMAIN infos = 1..n /\ infos = [j \in 1..n |-> infos[j]]
                 /\ \A j \in 1..n : \E p : infos[j] = Info(k, p, p, FALSE)

LEMMA GetParamsAre ==
  ASSUME NEW r, ObjectInfo(r.object) \in 1..Len(Order)
  PROVE  AreInfos(ObjectInfo(r.object), GetParams(r))
<1> PICK k \in 1..Len(Order) : k = ObjectInfo(r.object)
  OBVIOUS
<1> PICK infos : infos = GetParams(r)
  OBVIOUS
<1>1. CASE r.prop # ""
  <2>1. PICK e : e = Info(k, r.prop, r.prop, FALSE)
    OBVIOUS
  <2>2. infos = <<e>>
    BY <1>1, <2>1 DEF GetParams
  <2>3. DOMAIN infos = 1..1 /\ infos = [j \in 1..1 |-> infos[j]] /\ infos[1] = e
    BY <2>2
  <2>4. \E p : e = Info(k, p, p, FALSE)
    BY <2>1
  <2>5. \A j \in 1..1 : \E p : infos[j] = Info(k, p, p, FALSE)
    <3>1. \A j \in 1..1 : j = 1
      OBVIOUS
    <3> QED BY <2>3, <2>4, <3>1, Zenon
  <2> QED BY <2>3, <2>5 DEF AreInfos
<1>2. CASE ~(r.prop # "")
  <2>1. PICK ps : ps = Properties(k)
    OBVIOUS
  <2>2. infos = [j \in 1..Len(ps) |-> Info(k, ps[j].name, ps[j].name, FALSE)]
    BY <1>2, <2>1 DEF GetParams
  <2>3. Len(ps) \in Nat
    BY <2>1, PropertiesAre, SeqLength
  <2>4. /\ DOMAIN infos = 1..Len(ps) /\ infos = [j \in 1..Len(ps) |-> infos[j]]
        /\ \A j \in 1..Len(ps) : infos[j] = Info(k, ps[j].name, ps[j].name, FALSE)
    BY <2>2
  <2> QED BY <2>3, <2>4 DEF AreInfos
<1> QED BY <1>1, <1>2

\* It shows the values that the object has.
Shows(pair, fs, values) ==
  /\ IsSeq(values)
  /\ \A m \in 1..Len(values) : \A q \in pair : values[m].prop = q => values[m].value = fs[q]

LEMMA GetShowsFields ==
  ASSUME NEW class, NEW fs, NEW k, NEW infos, AreInfos(k, infos),
         NEW pair, pair \subseteq class.getters \cup class.own, \A q \in pair : HasProperty(k, q),
         NEW values, values = DoGet(class, fs, infos)
  PROVE  Shows(pair, fs, values)
<1> DEFINE shown(j) == IF infos[j].name \in class.getters \cup class.own
                       THEN Entry(infos[j].full, fs[infos[j].name], "ok")
                       ELSE NotFound(infos[j].full)
<1>1. PICK n \in Nat : /\ DOMAIN infos = 1..n /\ infos = [j \in 1..n |-> infos[j]]
                       /\ \A j \in 1..n : \E p : infos[j] = Info(k, p, p, FALSE)
  BY DEF AreInfos
<1>2. Len(infos) = n
  BY <1>1
<1>3. values = [j \in 1..n |-> shown(j)]
  BY <1>2 DEF DoGet
<1>4. IsSeq(values) /\ Len(values) = n
  <2> DEFINE S == {shown(j) : j \in 1..n}
  <2> HIDE DEF shown
  <2>1. values \in [1..n -> S] /\ DOMAIN values = 1..n
    BY <1>3
  <2> HIDE DEF S
  <2>2. values \in Seq(S)
    BY <2>1, SeqDef
  <2>3. IsSeq(values)
    BY <2>2 DEF IsSeq
  <2>4. Len(values) \in Nat /\ DOMAIN values = 1..Len(values)
    BY <2>3, SeqLength
  <2> QED BY <2>1, <2>3, <2>4
<1>5. ASSUME NEW m \in 1..n, NEW q \in pair, values[m].prop = q
      PROVE  values[m].value = fs[q]
  <2>1. PICK p : infos[m] = Info(k, p, p, FALSE)
    BY <1>1
  <2>2. values[m] = shown(m)
    <3> HIDE DEF shown
    <3> QED BY <1>3
  <2>3. infos[m].full = p /\ (HasProperty(k, p) => infos[m].name = p)
    <3>1. PICK unknown : unknown = ""
      OBVIOUS
    <3>2. CASE HasProperty(k, p)
      <4>1. infos[m] = [name |-> p, full |-> p, writable |-> Property(k, p).writable]
        BY <2>1, <3>2 DEF Info
      <4> QED BY <4>1
    <3>3. CASE ~HasProperty(k, p)
      <4>1. infos[m] = [name |-> unknown, full |-> p, writable |-> FALSE]
        BY <2>1, <3>1, <3>3 DEF Info
      <4> QED BY <3>3, <4>1
    <3> QED BY <3>2, <3>3
  <2>4. \A x, v, s : Entry(x, v, s).prop = x /\ Entry(x, v, s).value = v
    BY DEF Entry
  <2>5. values[m].prop = infos[m].full
    <3>1. \E v, s : values[m] = Entry(infos[m].full, v, s)
      BY <2>2, Zenon DEF NotFound
    <3> QED BY <2>4, <3>1
  <2>6. infos[m].name = q /\ q \in class.getters \cup class.own
    BY <1>5, <2>3, <2>5
  <2>7. values[m] = Entry(infos[m].full, fs[q], "ok")
    BY <2>2, <2>6
  <2> QED BY <2>4, <2>7
<1> QED BY <1>4, <1>5 DEF Shows

LEMMA GetShows ==
  ASSUME MembersAreDeclared, PairsCanBeRead, HostTypes, NEW r, r.object \in Instances,
         Together(r.object, fields[r.object])
  PROVE  Whole(r.object, DoGet(ClassOf(ObjectInfo(r.object)), fields[r.object], GetParams(r)))
<1> PICK i \in Instances : i = r.object
  OBVIOUS
<1> PICK k : k = ObjectInfo(i)
  OBVIOUS
<1> PICK class, infos, fs, pair : /\ class = ClassOf(k) /\ infos = GetParams(r)
                                  /\ fs = fields[i] /\ pair = PairOf(i)
  OBVIOUS
<1> PICK values : values = DoGet(class, fs, infos)
  OBVIOUS
<1>1. k \in 1..Len(Order) /\ PairOf(i) = ClassOf(k).pair /\ \A q \in PairOf(i) : HasProperty(k, q)
  BY PairIs
<1>2. pair \subseteq class.getters \cup class.own /\ \A q \in pair : HasProperty(k, q)
  BY <1>1 DEF PairsCanBeRead
<1>3. AreInfos(k, infos)
  BY <1>1, GetParamsAre
<1>4. Shows(pair, fs, values)
  BY <1>2, <1>3, GetShowsFields
<1>5. IsSeq(values)
  BY <1>4 DEF Shows
<1>6. ASSUME NEW q \in PairOf(i), \E e \in ToSet(values) : e.prop = q
      PROVE  ValueOf(q, values) = fields[i][q]
  <2>1. PICK e \in ToSet(values) : e.prop = q
    BY <1>6
  <2>2. ValueIsAt(q, values)
    BY <1>5, <2>1, ValueOfSome
  <2> QED BY <1>4, <2>2 DEF Shows, ValueIsAt
<1>7. Whole(i, values)
  BY <1>6 DEF Whole, Together
<1> QED BY <1>7

FieldsWhole == \A i \in Instances : Together(i, fields[i])

\* Values that are the same for the transaction.
StaysTogether(i, new) == \E w \in Wanted(i)' : \A q \in PairOf(i) : new[q] = w[q]

LEMMA TogetherStays ==
  ASSUME job' = job, NEW i, NEW old, Together(i, old), NEW new, \A q \in PairOf(i) : new[q] = old[q]
  PROVE  StaysTogether(i, new)
<1>1. PICK w \in Wanted(i) : \A q \in PairOf(i) : old[q] = w[q]
  BY DEF Together
<1>2. w \in Wanted(i)'
  BY <1>1, WantedSame
<1> QED BY <1>1, <1>2 DEF StaysTogether

\* A set leaves a transaction alone, or gives it what its client asked for.
LEMMA SetKeepsTogether ==
  ASSUME MembersAreDeclared, OnlyTransactions, HostTypes, job \in Jobs,
         NEW r, r.client \in Clients, IsSeq(r.pairs), r.op = "set", AsAsked(r), r.object \in Instances,
         NEW old, old = fields[r.object], Together(r.object, old)
  PROVE  Together(r.object, DoSet(ClassOf(ObjectInfo(r.object)), old, SetParams(r)).fields)
<1> PICK i \in Instances : i = r.object
  OBVIOUS
<1> PICK c \in Clients : c = r.client
  OBVIOUS
<1> PICK k : k = ObjectInfo(i)
  OBVIOUS
<1> DEFINE class == ClassOf(ObjectInfo(r.object))
           params == SetParams(r)
           new == DoSet(class, old, params).fields
<1>1. k \in 1..Len(Order) /\ class = ClassOf(k) /\ PairOf(i) = class.pair
  BY PairIs
<1>2. job[c].op = "set" /\ r.pairs = job[c].pairs /\ (job[c].multi => job[c].param.name = i)
  BY DEF AsAsked
<1>3. /\ IsSeq(params) /\ Len(params) = Len(r.pairs) /\ Len(params) \in Nat
      /\ CanBeSet(class, old, params)
      /\ \A m \in 1..Len(params) :
           /\ params[m].value = r.pairs[m].value
           /\ \A q \in class.pair : params[m].info.name = q <=> r.pairs[m].prop = q
  BY SetParamsAre
<1> SUFFICES Together(i, new)
  OBVIOUS
<1> HIDE DEF class, params
<1>4. ~(job[c].multi /\ Len(params) > 1) => \A m \in 1..Len(params) : params[m].info.name \notin class.pair
  <2> SUFFICES ASSUME ~(job[c].multi /\ Len(params) > 1), NEW m \in 1..Len(params)
               PROVE  params[m].info.name \notin class.pair
    OBVIOUS
  <2>1. job[c].op = "set" /\ ~(job[c].multi /\ Len(job[c].pairs) > 1) /\ m \in 1..Len(job[c].pairs)
    BY <1>2, <1>3
  <2>2. job[c].pairs[m].prop \notin class.pair
    BY <1>1, <2>1 DEF OnlyTransactions
  <2>3. r.pairs[m].prop \notin class.pair
    BY <1>2, <2>2
  <2> QED BY <1>3, <2>3
<1>5. \/ \A q \in class.pair : new[q] = old[q]
      \/ /\ Len(params) > 1
         /\ \A q \in class.pair :
              \E m \in 1..Len(params) : IsLastOf(params, q, m, Len(params)) /\ new[q] = params[m].value
  BY <1>3, <1>4, SetAllOrNone
<1> HIDE DEF new
<1>6. CASE \A q \in class.pair : new[q] = old[q]
  BY <1>1, <1>6 DEF Together
<1>7. CASE class.pair = {}
  <2>1. \E w \in Wanted(i) : TRUE
    BY WantedFirst
  <2> QED BY <1>1, <1>7, <2>1 DEF Together
<1>8. CASE /\ class.pair # {}
           /\ \A q \in class.pair :
                \E m \in 1..Len(params) : IsLastOf(params, q, m, Len(params)) /\ new[q] = params[m].value
  <2>1. job[c].multi
    BY <1>4, <1>8 DEF IsLastOf
  <2>2. ASSUME NEW q \in class.pair
        PROVE  (\E p \in ToSet(job[c].pairs) : p.prop = q) /\ new[q] = ValueOf(q, job[c].pairs)
    <3>1. PICK m \in 1..Len(params) : IsLastOf(params, q, m, Len(params)) /\ new[q] = params[m].value
      BY <1>8
    <3>2. r.pairs[m].prop = q /\ \A l \in 1..Len(r.pairs) : r.pairs[l].prop = q => l <= m
      BY <1>3, <3>1 DEF IsLastOf
    <3>3. r.pairs[m] \in ToSet(r.pairs)
      <4>1. DOMAIN r.pairs = 1..Len(r.pairs)
        BY SeqLength
      <4> QED BY <1>3, <4>1 DEF ToSet
    <3>4. ValueOf(q, r.pairs) = r.pairs[m].value
      BY <1>3, <3>2, ValueOfLast
    <3> QED BY <1>2, <1>3, <3>1, <3>2, <3>3, <3>4
  <2>3. PICK w \in Wanted(i) : \A q \in PairOf(i) : w[q] = ValueOf(q, job[c].pairs)
    <3>1. \A q \in PairOf(i) : \E p \in ToSet(job[c].pairs) : p.prop = q
      BY <1>1, <2>2
    <3> QED BY <1>2, <2>1, <3>1, WantedSet
  <2> QED BY <1>1, <2>2, <2>3 DEF Together
<1> QED BY <1>5, <1>6, <1>7, <1>8

LEMMA FieldsWholeStep ==
  ASSUME MembersAreDeclared, OnlyTransactions, SetsInv, FieldsWhole, [Next]_vars
  PROVE  FieldsWhole'
<1>0. HostTypes /\ job \in Jobs /\ DOMAIN fields = Instances
  BY DEF SetsInv, Inv, ClientTypes, HostTypes
<1>1. ASSUME UNCHANGED <<fields, job>> PROVE FieldsWhole'
  <2> SUFFICES ASSUME NEW i \in Instances PROVE StaysTogether(i, fields'[i])
    BY DEF FieldsWhole, Together, StaysTogether
  <2>1. Together(i, fields[i])
    BY DEF FieldsWhole
  <2> QED BY <1>1, <2>1, TogetherStays
<1>2. ASSUME NEW h \in Hosts, Serve(h) PROVE FieldsWhole'
  <2> PICK r : r = Head(inbox[h])
    OBVIOUS
  <2> PICK new : new = DoSet(ClassOf(ObjectInfo(r.object)), fields[r.object], SetParams(r)).fields
    OBVIOUS
  <2>1. /\ inbox[h] # <<>> /\ job' = job
        /\ fields' = IF r.object \in Inserted(h) /\ r.op = "set" THEN [fields EXCEPT ![r.object] = new] ELSE fields
    BY <1>2 DEF Serve
  <2>2. CASE ~(r.object \in Inserted(h) /\ r.op = "set")
    BY <1>1, <2>1, <2>2
  <2>3. CASE r.object \in Inserted(h) /\ r.op = "set"
    <3>1. r \in ToSet(inbox[h])
      BY <2>1, NextRequest DEF SetsInv
    <3>2. r.client \in Clients /\ IsSeq(r.pairs) /\ AsAsked(r)
      BY <3>1 DEF SetsInv, Inv, InboxTypes, SentAsAsked
    <3>3. r.object \in Instances
      BY <1>0, <2>3, InsertedIs
    <3>4. Together(r.object, fields[r.object])
      BY <3>3 DEF FieldsWhole
    <3>5. Together(r.object, new)
      BY <1>0, <2>3, <3>2, <3>3, <3>4, SetKeepsTogether
    <3> SUFFICES ASSUME NEW i \in Instances PROVE StaysTogether(i, fields'[i])
      BY DEF FieldsWhole, Together, StaysTogether
    <3>6. CASE i = r.object
      <4>1. fields'[i] = new
        BY <1>0, <2>1, <2>3, <3>3, <3>6
      <4>2. Together(i, new) /\ \A q \in PairOf(i) : new[q] = new[q]
        BY <3>5, <3>6
      <4>3. StaysTogether(i, new)
        BY <2>1, <4>2, TogetherStays
      <4> QED BY <4>1, <4>3
    <3>7. CASE i # r.object
      <4>1. fields'[i] = fields[i]
        BY <1>0, <2>1, <2>3, <3>7
      <4>2. Together(i, fields[i])
        BY DEF FieldsWhole
      <4>3. PICK old : old = fields[i] /\ old = fields'[i]
        BY <4>1
      <4>4. StaysTogether(i, old)
        BY <2>1, <4>2, <4>3, TogetherStays
      <4> QED BY <4>3, <4>4
    <3> QED BY <3>6, <3>7
  <2> QED BY <2>2, <2>3
<1>3. ASSUME NEW k \in DOMAIN LaterFields, ApplicationChanges(k) PROVE FieldsWhole'
  <2>1. k \in Instances /\ PairOf(k) \cap DOMAIN LaterFields[k] = {}
    BY FieldsAssumption DEF OnlyTransactions, PairOf
  <2>2. job' = job /\ fields' = [fields EXCEPT ![k] = Overlaid(fields[k], LaterFields[k])]
    BY <1>3 DEF ApplicationChanges, clientVars
  <2>3. PairOf(k) \subseteq DOMAIN fields[k]
    BY <1>0, <2>1, PairIs
  <2>4. \A q \in PairOf(k) : Overlaid(fields[k], LaterFields[k])[q] = fields[k][q]
    BY <2>1, <2>3 DEF Overlaid
  <2> SUFFICES ASSUME NEW i \in Instances PROVE StaysTogether(i, fields'[i])
    BY DEF FieldsWhole, Together, StaysTogether
  <2>5. Together(i, fields[i])
    BY DEF FieldsWhole
  <2>6. \A q \in PairOf(i) : fields'[i][q] = fields[i][q]
    BY <1>0, <2>1, <2>2, <2>4
  <2> QED BY <2>2, <2>5, <2>6, TogetherStays
<1>4. ASSUME NEW h \in Hosts, Subscribe(h) \/ Insert(h) \/ Dies(h) \/ Reconnect(h) PROVE FieldsWhole'
  BY <1>1, <1>4 DEF Subscribe, Insert, Dies, Reconnect, clientVars
<1>5. ASSUME RouterRestarts PROVE FieldsWhole'
  BY <1>1, <1>5 DEF RouterRestarts, clientVars
<1>6. ASSUME NEW c \in Clients, ClientStep(c) \/ TimesOut(c) PROVE FieldsWhole'
  BY <1>0, <1>1, <1>6, AskIs, EnterIs, CountedIs, QueriedIs, BelowIs DEF SetsInv, ClientStep, TimesOut, hostVars
<1>7. ASSUME UNCHANGED vars PROVE FieldsWhole'
  BY <1>1, <1>7 DEF vars, hostVars, clientVars
<1> QED BY <1>2, <1>3, <1>4, <1>5, <1>6, <1>7 DEF Next, Finished

AnswerWhole(c) ==
  job[c].op = "get" /\ answer[c] # <<>> /\ answer[c][1].got /\ answer[c][1].status = 0 =>
    Whole(AskedObject(c), answer[c][1].values)
NotesAreWhole(c) ==
  job[c].op = "get" => /\ IsSeq(notes[c])
                       /\ \A n \in ToSet(notes[c]) : n.object # <<>> => Whole(n.object, n.values)
ShownWhole == \A c \in Clients : AnswerWhole(c) /\ NotesAreWhole(c)

LEMMA WholeSame ==
  ASSUME job' = job, NEW i, NEW values
  PROVE  Whole(i, values)' = Whole(i, values)
BY WantedSame DEF Whole

\* An answer without values shows nothing torn.
LEMMA WholeEmpty ==
  ASSUME NEW i
  PROVE  Whole(i, <<>>)
<1>1. ASSUME \A q \in PairOf(i) : \E e \in ToSet(<<>>) : e.prop = q
      PROVE  PairOf(i) = {}
  BY <1>1, SeqEmpty
<1>2. \E w \in Wanted(i) : TRUE
  BY WantedFirst
<1> QED BY <1>1, <1>2 DEF Whole

\* The answer that a host gives to the query of a get.
LEMMA ServesWhole ==
  ASSUME MembersAreDeclared, PairsCanBeRead, SetsInv, FieldsWhole, NEW h \in Hosts, Serve(h),
         NEW c \in Clients, job[c].op = "get", answer'[c] # answer[c]
  PROVE  Whole(AskedObject(c), answer'[c][1].values)
<1> PICK r : r = Head(inbox[h])
  OBVIOUS
<1> PICK values : values = IF ~(r.object \in Inserted(h)) THEN <<>>
                           ELSE IF r.op = "set"
                           THEN DoSet(ClassOf(ObjectInfo(r.object)), fields[r.object], SetParams(r)).result
                           ELSE DoGet(ClassOf(ObjectInfo(r.object)), fields[r.object], GetParams(r))
  OBVIOUS
<1>1. inbox[h] # <<>> /\ answer' = Answered(r, values)
  BY DEF Serve
<1>2. DOMAIN answer = Clients /\ HostTypes
  BY DEF SetsInv, Inv, ClientTypes
<1>3. r.client = c /\ Awaits(c, r) /\ answer'[c] = <<Reply(values)>>
  BY <1>1, <1>2 DEF Answered
<1>4. r = inbox[h][1] /\ 1 \in 1..Len(inbox[h]) /\ r \in ToSet(inbox[h])
  BY <1>1, NextRequest DEF SetsInv
<1>5. r = Request(c)
  <2>1. Live(c, r) /\ r.since = restarts
    BY <1>3 DEF Awaits, Live
  <2>2. Pending(c, r)
    BY <1>4, <2>1 DEF SetsInv, SentOnce, AllPending
  <2> QED BY <2>1, <2>2 DEF Pending
<1>6. r.object = AskedObject(c) /\ r.op = "get"
  <2>1. PICK asked : asked = IF Asked(c).wild THEN "" ELSE Last(Asked(c).name)
    OBVIOUS
  <2>2. r = [client |-> c, since |-> restarts, op |-> job[c].op, object |-> AskedObject(c),
             prop |-> asked, pairs |-> job[c].pairs]
    BY <1>5, <2>1 DEF Request
  <2> QED BY <2>2
<1>7. Whole(r.object, values)
  <2>1. CASE ~(r.object \in Inserted(h))
    BY <2>1, WholeEmpty
  <2>2. CASE r.object \in Inserted(h)
    <3>1. r.object \in Instances
      BY <1>2, <2>2, InsertedIs
    <3>2. Together(r.object, fields[r.object])
      BY <3>1 DEF FieldsWhole
    <3>3. values = DoGet(ClassOf(ObjectInfo(r.object)), fields[r.object], GetParams(r))
      BY <1>6, <2>2
    <3> QED BY <1>2, <3>1, <3>2, <3>3, GetShows
  <2> QED BY <2>1, <2>2
<1>8. answer'[c][1].values = values
  BY <1>3 DEF Reply
<1> QED BY <1>6, <1>7, <1>8

LEMMA AnswerWholeStep ==
  ASSUME MembersAreDeclared, PairsCanBeRead, SetsInv, FieldsWhole, NEW c \in Clients, AnswerWhole(c),
         [Next]_vars
  PROVE  AnswerWhole(c)'
<1>0. DOMAIN answer = Clients /\ (answer[c] # <<>> => pc[c] = "wait")
  BY DEF SetsInv, Inv, ClientTypes
<1>1. ASSUME answer'[c] = <<>> PROVE AnswerWhole(c)'
  BY <1>1 DEF AnswerWhole
<1>2. ASSUME Enter(c) \/ Counted(c) \/ Queried(c) \/ Below(c) PROVE AnswerWhole(c)'
  <2>1. answer'[c] = <<>>
    BY <1>0, <1>2, EnterIs, CountedIs, QueriedIs, BelowIs DEF SetsInv
  <2> QED BY <1>1, <2>1
<1>3. ASSUME Ask(c) PROVE AnswerWhole(c)'
  <2>1. answer'[c] = <<>> \/ answer'[c] = <<Refusal>>
    BY <1>0, <1>3, AskIs DEF SetsInv
  <2>2. <<Refusal>>[1].status # 0
    BY DEF Refusal
  <2> QED BY <1>1, <2>1, <2>2 DEF AnswerWhole
<1>4. ASSUME TimesOut(c) PROVE AnswerWhole(c)'
  <2>1. answer'[c] = <<Silence>> /\ <<Silence>>[1].got = FALSE
    BY <1>0, <1>4 DEF TimesOut, Silence
  <2> QED BY <2>1 DEF AnswerWhole
<1>5. ASSUME stack'[c] = stack[c], job' = job, answer'[c] = answer[c] PROVE AnswerWhole(c)'
  <2>1. AskedObject(c)' = AskedObject(c)
    BY <1>5 DEF AskedObject, Asked, Top
  <2>2. job[c].op = "get" /\ answer[c] # <<>> /\ answer[c][1].got /\ answer[c][1].status = 0 =>
          Whole(AskedObject(c), answer[c][1].values)
    BY DEF AnswerWhole
  <2>3. PICK i, values : i = AskedObject(c) /\ values = answer[c][1].values
    OBVIOUS
  <2>4. Whole(i, values)' = Whole(i, values)
    BY <1>5, WholeSame
  <2> QED BY <1>5, <2>1, <2>2, <2>3, <2>4 DEF AnswerWhole
<1>6. ASSUME NEW h \in Hosts, Serve(h), stack'[c] = stack[c], job' = job PROVE AnswerWhole(c)'
  <2>1. CASE answer'[c] = answer[c]
    BY <1>5, <1>6, <2>1
  <2>2. CASE answer'[c] # answer[c]
    <3>1. AskedObject(c)' = AskedObject(c)
      BY <1>6 DEF AskedObject, Asked, Top
    <3>2. PICK i, values : i = AskedObject(c) /\ values = answer'[c][1].values
      OBVIOUS
    <3>3. job[c].op = "get" => Whole(i, values)
      BY <1>6, <2>2, <3>2, ServesWhole
    <3>4. Whole(i, values)' = Whole(i, values)
      BY <1>6, WholeSame
    <3> QED BY <1>6, <3>1, <3>2, <3>3, <3>4 DEF AnswerWhole
  <2> QED BY <2>1, <2>2
<1>7. /\ job' = job
      /\ \/ ClientStep(c) \/ TimesOut(c)
         \/ /\ stack'[c] = stack[c]
            /\ answer'[c] = answer[c] \/ \E h \in Hosts : Serve(h)
  BY OthersStep DEF SetsInv
<1> QED BY <1>2, <1>3, <1>4, <1>5, <1>6, <1>7 DEF ClientStep

LEMMA NotesWholeStep ==
  ASSUME SetsInv, NEW c \in Clients, AnswerWhole(c), NotesAreWhole(c), [Next]_vars
  PROVE  NotesAreWhole(c)'
<1>1. job' = job
  BY OthersStep DEF SetsInv
<1>2. ASSUME notes'[c] = notes[c] PROVE NotesAreWhole(c)'
  BY <1>1, <1>2, WholeSame DEF NotesAreWhole
<1>3. ASSUME Queried(c) PROVE NotesAreWhole(c)'
  <2> PICK a, n, old : a = answer[c][1] /\ n = Results(c, a) /\ old = notes[c]
    OBVIOUS
  <2>1. answer[c] # <<>> /\ IF a.status = 0 THEN notes' = [notes EXCEPT ![c] = Append(old, n)] ELSE notes' = notes
    BY <1>3 DEF Queried, OnResult
  <2>2. CASE a.status # 0
    BY <1>2, <2>1, <2>2
  <2>3. CASE a.status = 0
    <3>1. notes'[c] = Append(old, n)
      BY <2>1, <2>3 DEF SetsInv, Inv, ClientTypes
    <3> SUFFICES ASSUME job[c].op = "get" PROVE NotesAreWhole(c)'
      BY <1>1 DEF NotesAreWhole
    <3>2. IsSeq(old) /\ \A x \in ToSet(old) : x.object # <<>> => Whole(x.object, x.values)
      BY DEF NotesAreWhole
    <3>3. IsSeq(notes'[c]) /\ ToSet(notes'[c]) = ToSet(old) \cup {n}
      BY <3>1, <3>2, SeqAppend
    <3>4. n.object # <<>> => Whole(n.object, n.values)
      <4>1. n.values = a.values /\ n.object = IF a.got THEN AskedObject(c) ELSE <<>>
        BY DEF Results
      <4> QED BY <2>1, <2>3, <4>1 DEF AnswerWhole
    <3>5. \A x \in ToSet(notes'[c]) : x.object # <<>> => Whole(x.object, x.values)
      BY <3>2, <3>3, <3>4
    <3>6. \A x \in ToSet(notes'[c]) : x.object # <<>> => Whole(x.object, x.values)'
      BY <1>1, <3>5, WholeSame
    <3> QED BY <3>3, <3>6 DEF NotesAreWhole
  <2> QED BY <2>2, <2>3
<1>4. ASSUME Enter(c) \/ Ask(c) \/ Counted(c) \/ Below(c) \/ TimesOut(c) PROVE notes'[c] = notes[c]
  BY <1>4, EnterIs, AskIs, CountedIs, BelowIs DEF SetsInv, TimesOut
<1>5. ClientStep(c) \/ TimesOut(c) \/ notes'[c] = notes[c]
  BY OthersStep DEF SetsInv
<1> QED BY <1>2, <1>3, <1>4, <1>5 DEF ClientStep

\* What a get shows of a transaction was set together: neither a set that comes between two
\* queries, nor an answer to another query, nor one that is lost, lets half of it be seen.
THEOREM GetsShowWholeTransactions ==
  ASSUME MembersAreDeclared, PairsCanBeRead, OnlyTransactions
  PROVE  Spec => []NoTornPair
<1>1. Init => FieldsWhole /\ ShownWhole
  <2> SUFFICES ASSUME Init PROVE FieldsWhole /\ ShownWhole
    OBVIOUS
  <2>1. fields = Fields /\ \A c \in Clients : answer[c] = <<>> /\ notes[c] = <<>>
    BY DEF Init
  <2>2. FieldsWhole
    <3> SUFFICES ASSUME NEW i \in Instances PROVE Together(i, fields[i])
      BY DEF FieldsWhole
    <3>1. PICK w \in Wanted(i) : \A q \in PairOf(i) : w[q] = Fields[i][q]
      BY WantedFirst
    <3> QED BY <2>1, <3>1 DEF Together
  <2>3. ShownWhole
    BY <2>1, SeqEmpty DEF ShownWhole, AnswerWhole, NotesAreWhole
  <2> QED BY <2>2, <2>3
<1>2. SetsInv /\ FieldsWhole /\ ShownWhole /\ [Next]_vars => FieldsWhole' /\ ShownWhole'
  <2> SUFFICES ASSUME SetsInv, FieldsWhole, ShownWhole, [Next]_vars PROVE FieldsWhole' /\ ShownWhole'
    OBVIOUS
  <2>1. FieldsWhole'
    BY FieldsWholeStep
  <2>2. ASSUME NEW c \in Clients PROVE AnswerWhole(c)' /\ NotesAreWhole(c)'
    <3>1. AnswerWhole(c) /\ NotesAreWhole(c)
      BY DEF ShownWhole
    <3> QED BY <3>1, AnswerWholeStep, NotesWholeStep
  <2> QED BY <2>1, <2>2 DEF ShownWhole
<1>3. ShownWhole => NoTornPair
  <2> SUFFICES ASSUME ShownWhole, NEW c \in Clients, job[c].op = "get",
                      NEW n \in ToSet(notes[c]), n.object # <<>>,
                      \A q \in PairOf(n.object) : \E e \in ToSet(n.values) : e.prop = q
               PROVE  [q \in PairOf(n.object) |-> ValueOf(q, n.values)]
                        \in {[q \in PairOf(n.object) |-> v[q]] : v \in Wanted(n.object)}
    BY DEF NoTornPair, PairOf
  <2>1. Whole(n.object, n.values)
    BY DEF ShownWhole, NotesAreWhole
  <2>2. PICK w \in Wanted(n.object) : \A q \in PairOf(n.object) : ValueOf(q, n.values) = w[q]
    BY <2>1 DEF Whole
  <2>3. [q \in PairOf(n.object) |-> ValueOf(q, n.values)] = [q \in PairOf(n.object) |-> w[q]]
    BY <2>2
  <2> QED BY <2>3
<1> QED BY <1>1, <1>2, <1>3, SetsInvariance, PTL DEF Spec

-----------------------------------------------------------------------------
(* No object is reported twice.                                             *)

\* The parts of a name that come first are those of another name.
Under(n, p) == Len(p) <= Len(n) /\ \A k \in 1..Len(p) : n[k] = p[k]

LEMMA UnderSelf ==
  ASSUME NEW p, IsSeq(p)
  PROVE  Under(p, p)
BY SeqLength DEF Under

LEMMA UnderTrans ==
  ASSUME NEW a, IsSeq(a), NEW b, IsSeq(b), NEW c, IsSeq(c), Under(a, b), Under(b, c)
  PROVE  Under(a, c)
<1>1. Len(a) \in Nat /\ Len(b) \in Nat /\ Len(c) \in Nat /\ Len(c) <= Len(b) /\ Len(b) <= Len(a)
  BY SeqLength DEF Under
<1>2. \A k \in 1..Len(c) : k \in 1..Len(b)
  BY <1>1
<1> QED BY <1>1, <1>2 DEF Under

LEMMA UnderAppend ==
  ASSUME NEW p, IsSeq(p), NEW token, NEW n, IsSeq(n)
  PROVE  /\ IsSeq(Append(p, token)) /\ Under(Append(p, token), p) /\ ~Under(p, Append(p, token))
         /\ Under(n, Append(p, token)) => Under(n, p) /\ n[Len(p) + 1] = token
<1> PICK a : a = Append(p, token)
  OBVIOUS
<1>1. /\ IsSeq(a) /\ Len(a) = Len(p) + 1 /\ a[Len(p) + 1] = token
      /\ \A k \in 1..Len(p) : a[k] = p[k]
  BY SeqAppend
<1>2. Len(p) \in Nat /\ Len(n) \in Nat
  BY SeqLength
<1>3. Under(a, p) /\ ~Under(p, a)
  BY <1>1, <1>2 DEF Under
<1>4. Under(n, a) => Under(n, p) /\ n[Len(p) + 1] = token
  <2>1. Len(p) + 1 \in 1..Len(a)
    BY <1>1, <1>2
  <2>2. Under(n, a) => n[Len(p) + 1] = token
    BY <1>1, <2>1 DEF Under
  <2> QED BY <1>1, <1>3, <2>2, UnderTrans
<1> QED BY <1>1, <1>3, <1>4

LEMMA UnderOwn ==
  ASSUME NEW p, IsSeq(p), NEW token
  PROVE  IsSeq(Append(p, token)) /\ Under(Append(p, token), p)
BY UnderAppend

\* buildProviderTree links an object once to its parent, in a process that has built one
\* database.
Rising(s, n) ==
  /\ Len(s) \in Nat
  /\ \A a \in 1..Len(s) : s[a] \in 1..n
  /\ \A a, b \in 1..Len(s) : a < b => s[a] < s[b]

LEMMA RisingStep ==
  ASSUME NEW S, NEW n \in Nat, NEW s \in Seq(S), Rising(s, n), NEW t \in Seq(S),
         t = <<>> \/ t = <<n + 1>>
  PROVE  Rising(s \o t, n + 1)
<1>1. CASE t = <<>>
  <2>1. s \o t = s
    BY <1>1, ConcatEmptySeq
  <2> QED BY <2>1 DEF Rising
<1>2. CASE t = <<n + 1>>
  <2> PICK u : u = s \o t
    OBVIOUS
  <2>1. Len(t) = 1 /\ t[1] = n + 1
    BY <1>2
  <2>2. /\ Len(u) = Len(s) + 1 /\ Len(s) \in Nat
        /\ \A a \in 1..Len(s) + 1 : u[a] = IF a <= Len(s) THEN s[a] ELSE n + 1
    <3>1. /\ Len(u) = Len(s) + Len(t)
          /\ \A a \in 1..Len(s) + Len(t) : u[a] = IF a <= Len(s) THEN s[a] ELSE t[a - Len(s)]
      BY ConcatProperties, Zenon
    <3>2. Len(s) \in Nat
      BY DEF Rising
    <3>3. \A a \in 1..Len(s) + 1 : ~(a <= Len(s)) => a - Len(s) = 1
      BY <3>2
    <3> QED BY <2>1, <3>1, <3>2, <3>3
  <2>3. \A a \in 1..Len(s) : s[a] \in Nat /\ s[a] <= n /\ s[a] < n + 1 /\ s[a] \in 1..n + 1
    BY DEF Rising
  <2>4. \A a \in 1..Len(u) : u[a] \in 1..n + 1
    BY <2>2, <2>3
  <2>5. ASSUME NEW a \in 1..Len(u), NEW b \in 1..Len(u), a < b PROVE u[a] < u[b]
    <3>1. a \in 1..Len(s) /\ u[a] = s[a]
      BY <2>2, <2>5
    <3>2. CASE b \in 1..Len(s)
      <4>1. u[b] = s[b]
        BY <2>2, <3>2
      <4> QED BY <2>5, <3>1, <3>2, <4>1 DEF Rising
    <3>3. CASE b \notin 1..Len(s)
      <4>1. u[b] = n + 1
        BY <2>2, <3>3
      <4> QED BY <2>3, <3>1, <4>1
    <3> QED BY <3>2, <3>3
  <2>6. Rising(u, n + 1)
    BY <2>2, <2>4, <2>5 DEF Rising
  <2> QED BY <2>6
<1> QED BY <1>1, <1>2

LEMMA ChildrenOnce ==
  ASSUME Databases = 1, NEW k \in 1..Len(Order)
  PROVE  \A a, b \in 1..Len(Children(k)) : Children(k)[a] = Children(k)[b] => a = b
<1> DEFINE parts == [j \in 1..Len(Order) |-> IF Trim(Order[j]) = Order[k] THEN <<j>> ELSE <<>>]
           once == FlattenSeq(parts)
           n == Len(Order)
<1>1. n \in Nat /\ n \in 1..n
  BY OrderNames
<1>2. \A j \in 1..n : parts[j] = <<j>> \/ parts[j] = <<>>
  OBVIOUS
<1>3. parts \in Seq(Seq(Nat)) /\ Len(parts) = n
  <2>1. \A j \in 1..n : (IF Trim(Order[j]) = Order[k] THEN <<j>> ELSE <<>>) \in Seq(Nat)
    <3> TAKE j \in 1..n
    <3>1. CASE Trim(Order[j]) = Order[k]
      <4>1. j \in Nat
        BY <1>1
      <4> QED BY <3>1, <4>1
    <3>2. CASE Trim(Order[j]) # Order[k]
      BY <3>2, EmptySeq
    <3> QED BY <3>1, <3>2
  <2>2. parts \in [1..n -> Seq(Nat)]
    BY <2>1
  <2> HIDE DEF parts, n
  <2>3. parts \in Seq(Seq(Nat))
    BY <1>1, <2>2, SeqDef
  <2>4. Len(parts) = n
    BY <1>1, <2>2, <2>3, LenProperties
  <2> QED BY <2>3, <2>4
<1>4. Children(k) = FlattenSeq([d \in 1..Databases |-> once])
  BY DEF Children
<1> HIDE DEF parts
<1>5. PICK f \in [1..n -> Seq(Nat)] : IsFlattening(f, parts, n) /\ once = f[n]
  <2>1. parts # <<>>
    BY <1>1, <1>3, EmptySeq
  <2> HIDE DEF n
  <2> QED BY <1>3, <2>1, FlattenSeqParts
<1> DEFINE T == {i \in Nat : i \in 1..n => Rising(f[i], i)}
<1>6. 0 \in T
  OBVIOUS
<1>7. ASSUME NEW i \in T PROVE i + 1 \in T
  <2> SUFFICES ASSUME i + 1 \in 1..n PROVE Rising(f[i + 1], i + 1)
    OBVIOUS
  <2>1. i \in Nat /\ (i # 0 => i \in 1..n /\ Rising(f[i], i))
    BY <1>1
  <2>2. parts[i + 1] \in Seq(Nat) /\ (parts[i + 1] = <<>> \/ parts[i + 1] = <<i + 1>>)
    BY <1>2, <1>3, ElementOfSeq
  <2>3. /\ i = 0 => f[i + 1] = parts[i + 1]
        /\ i # 0 => f[i + 1] = f[i] \o parts[i + 1]
    <3> HIDE DEF n, T
    <3> QED BY <1>1, <1>5, <2>1, FlatteningStep, Zenon
  <2> HIDE DEF T, n
  <2>4. CASE i = 0
    <3>1. CASE parts[i + 1] = <<>>
      BY <2>3, <2>4, <3>1, EmptySeq DEF Rising
    <3>2. CASE parts[i + 1] = <<i + 1>>
      <4>1. f[i + 1] = <<1>> /\ Len(<<1>>) = 1 /\ <<1>>[1] = 1
        BY <2>3, <2>4, <3>2
      <4> QED BY <2>4, <4>1 DEF Rising
    <3> QED BY <2>2, <3>1, <3>2
  <2>5. CASE i # 0
    <3>1. f[i] \in Seq(Nat) /\ Rising(f[i], i)
      BY <2>1, <2>5
    <3>2. Rising(f[i] \o parts[i + 1], i + 1)
      BY <2>1, <2>2, <3>1, RisingStep
    <3> QED BY <2>3, <2>5, <3>2
  <2> QED BY <2>4, <2>5
<1>8. Rising(once, n)
  <2>1. n \in T
    <3> HIDE DEF T, n
    <3> QED BY <1>1, <1>6, <1>7, NatSetInduction
  <2> QED BY <1>1, <1>5, <2>1
<1>9. once \in Seq(Nat)
  BY <1>1, <1>5
<1> HIDE DEF once, n, T
<1>10. Children(k) = once
  <2>1. [d \in 1..Databases |-> once] = <<once>>
    OBVIOUS
  <2>2. <<once>> \in Seq(Seq(Nat)) /\ Len(<<once>>) = 1 /\ <<once>>[1] = once
    BY <1>9
  <2> PICK seqs : seqs = <<once>>
    OBVIOUS
  <2>3. 1 \in 1..Len(seqs) /\ \A j \in 1..Len(seqs) : j # 1 => seqs[j] = <<>>
    BY <2>2
  <2>4. FlattenSeq(seqs) = seqs[1]
    BY <2>2, <2>3, FlattenSeqOne
  <2> QED BY <1>4, <2>1, <2>2, <2>4
<1>11. ASSUME NEW a \in 1..Len(once), NEW b \in 1..Len(once), once[a] = once[b] PROVE a = b
  <2>1. a \in Nat /\ b \in Nat /\ once[a] \in Nat
    BY <1>8 DEF Rising
  <2>2. ~(a < b) /\ ~(b < a)
    BY <1>8, <1>11, <2>1 DEF Rising
  <2> QED BY <2>1, <2>2
<1> QED BY <1>10, <1>11

\* What a frame of runGet has yet to ask for: the rest of the children and of the items, ...
Base(f) == IF f.at = "item" THEN ItemName(f) ELSE ObjectName(f.param)
KidsOf(rec, f) == IF rec THEN Children(ObjectOf(f.param)) ELSE <<>>
Kid(rec, f, m) == Append(Base(f), Last(Order[KidsOf(rec, f)[m]]))
Item(f, x) == Append(f.param.name, f.ids[x])
After(rec, f, n) ==
  \/ \E m \in 1..Len(KidsOf(rec, f)) : f.kid < m /\ Under(n, Kid(rec, f, m))
  \/ f.at = "item" /\ \E x \in 1..Len(f.ids) : f.i < x /\ Under(n, Item(f, x))
\* ... or, before its query is answered, also what it is about.
Ahead(f, n) ==
  IF f.at = "item" THEN \E x \in 1..Len(f.ids) : f.i <= x /\ Under(n, Item(f, x))
  ELSE Under(n, ObjectName(f.param))
Open(rec, f, below, n) == IF below THEN After(rec, f, n) ELSE Ahead(f, n)

\* There are items, and none of them twice.
Different(v) == Len(v) \in Nat \ {0} /\ \A x, y \in 1..Len(v) : v[x] = v[y] => x = y

\* A frame that goes through items is at one of them.
AtItem(f) == f.at = "item" => Different(f.ids) /\ f.i \in 1..Len(f.ids)

\* A frame that has called, and one for the child that it called for.
Called(rec, f, g) ==
  f.kid \in 1..Len(KidsOf(rec, f)) /\ Under(ObjectName(g.param), Kid(rec, f, f.kid))

\* A frame as it has to be for this.
Entered(rec, f) ==
  /\ IsFrame(f) /\ AtItem(f)
  /\ f.at = "item" => f.param.wild
  /\ rec /\ f.at # "enter" => ObjectOf(f.param) # None

LEMMA BaseIs ==
  ASSUME NEW rec, NEW f, Entered(rec, f)
  PROVE  /\ IsSeq(Base(f)) /\ IsSeq(ObjectName(f.param)) /\ Under(Base(f), ObjectName(f.param))
         /\ f.at = "item" => ObjectName(f.param) = f.param.name /\ Base(f) = Item(f, f.i)
<1>1. IsSeq(f.param.name) /\ IsSeq(ObjectName(f.param))
  BY ObjectNameIs DEF Entered, IsFrame
<1>2. CASE f.at = "item"
  <2>1. ObjectName(f.param) = f.param.name
    BY <1>2 DEF Entered, ObjectName
  <2>2. Base(f) = Append(f.param.name, f.ids[f.i])
    BY <1>2 DEF Base, ItemName
  <2> QED BY <1>1, <2>1, <2>2, UnderAppend DEF Item
<1>3. CASE f.at # "item"
  <2>1. Base(f) = ObjectName(f.param)
    BY <1>3 DEF Base
  <2> QED BY <1>1, <1>3, <2>1, UnderSelf
<1> QED BY <1>2, <1>3

\* The children have different names.
LEMMA KidsApart ==
  ASSUME Databases = 1, NEW rec, NEW f, Entered(rec, f), f.at # "enter",
         NEW a \in 1..Len(KidsOf(rec, f)), NEW b \in 1..Len(KidsOf(rec, f)), NEW n, IsSeq(n),
         Under(n, Kid(rec, f, a)), Under(n, Kid(rec, f, b))
  PROVE  a = b
<1> PICK k : k = ObjectOf(f.param)
  OBVIOUS
<1>1. rec
  BY SeqEmpty DEF KidsOf
<1>2. k \in 1..Len(Order)
  <2>1. IsSeq(ObjectName(f.param))
    BY BaseIs
  <2> QED BY <1>1, <2>1, InfoRange DEF Entered, ObjectOf
<1>3. KidsOf(rec, f) = Children(k)
  BY <1>1 DEF KidsOf
<1> PICK i, j : i = Children(k)[a] /\ j = Children(k)[b]
  OBVIOUS
<1> PICK x, y : x = Last(Order[i]) /\ y = Last(Order[j])
  OBVIOUS
<1>4. /\ i \in 1..Len(Order) /\ Order[i] = Append(Order[k], x)
      /\ j \in 1..Len(Order) /\ Order[j] = Append(Order[k], y)
  BY <1>2, <1>3, ChildrenAre
<1>5. IsSeq(Base(f)) /\ Kid(rec, f, a) = Append(Base(f), x) /\ Kid(rec, f, b) = Append(Base(f), y)
  BY <1>3, BaseIs DEF Kid
<1>6. n[Len(Base(f)) + 1] = x /\ n[Len(Base(f)) + 1] = y
  BY <1>5, UnderAppend
<1>7. i = j
  BY <1>4, <1>6, OrderNames
<1> QED BY <1>2, <1>3, <1>7, ChildrenOnce

\* So have the items.
LEMMA ItemsApart ==
  ASSUME NEW rec, NEW f, Entered(rec, f), f.at = "item",
         NEW a \in 1..Len(f.ids), NEW b \in 1..Len(f.ids), NEW n, IsSeq(n),
         Under(n, Item(f, a)), Under(n, Item(f, b))
  PROVE  a = b
<1>1. IsSeq(f.param.name)
  BY DEF Entered, IsFrame
<1>2. n[Len(f.param.name) + 1] = f.ids[a] /\ n[Len(f.param.name) + 1] = f.ids[b]
  BY <1>1, UnderAppend DEF Item
<1> QED BY <1>2 DEF Entered, AtItem, Different

\* What is below a child that was called for is not asked for by the frame any more.
LEMMA CalledIsNotAfter ==
  ASSUME Databases = 1, NEW rec, NEW f, Entered(rec, f), f.at # "enter", NEW n, IsSeq(n),
         f.kid \in 1..Len(KidsOf(rec, f)), Under(n, Kid(rec, f, f.kid))
  PROVE  ~After(rec, f, n)
<1>0. f.kid \in Nat /\ IsSeq(Base(f))
  BY BaseIs DEF Entered, IsFrame
<1>1. ASSUME NEW m \in 1..Len(KidsOf(rec, f)), f.kid < m, Under(n, Kid(rec, f, m)) PROVE FALSE
  <2>1. f.kid = m
    BY <1>1, KidsApart
  <2> QED BY <1>0, <1>1, <2>1
<1>2. ASSUME f.at = "item", NEW x \in 1..Len(f.ids), f.i < x, Under(n, Item(f, x)) PROVE FALSE
  <2>1. Under(n, Base(f))
    BY <1>0, UnderAppend DEF Kid
  <2>2. Under(n, Item(f, f.i)) /\ f.i \in 1..Len(f.ids)
    BY <1>2, <2>1, BaseIs DEF Entered, AtItem
  <2>3. f.i = x
    BY <1>2, <2>2, ItemsApart
  <2>4. f.i \in Nat
    BY <2>2
  <2> QED BY <1>2, <2>3, <2>4
<1> QED BY <1>1, <1>2 DEF After

\* What a frame is about is ahead of it until it is reported, and not after it.
LEMMA BaseIsAhead ==
  ASSUME NEW rec, NEW f, Entered(rec, f)
  PROVE  Ahead(f, Base(f))
<1>1. CASE f.at = "item"
  <2>1. f.i \in 1..Len(f.ids) /\ f.i <= f.i
    BY <1>1 DEF Entered, AtItem
  <2>2. Under(Base(f), Item(f, f.i))
    BY <1>1, BaseIs, UnderSelf
  <2> QED BY <1>1, <2>1, <2>2 DEF Ahead
<1>2. CASE f.at # "item"
  BY <1>2, BaseIs DEF Ahead
<1> QED BY <1>1, <1>2

LEMMA BaseIsNotAfter ==
  ASSUME NEW rec, NEW f, Entered(rec, f)
  PROVE  ~After(rec, f, Base(f))
<1>0. IsSeq(Base(f))
  BY BaseIs
<1>1. ASSUME NEW m, Under(Base(f), Kid(rec, f, m)) PROVE FALSE
  BY <1>0, <1>1, UnderAppend DEF Kid
<1>2. ASSUME f.at = "item", NEW x \in 1..Len(f.ids), f.i < x, Under(Base(f), Item(f, x)) PROVE FALSE
  <2>1. Base(f) = Item(f, f.i) /\ f.i \in 1..Len(f.ids)
    BY <1>2, BaseIs DEF Entered, AtItem
  <2>2. Under(Base(f), Item(f, f.i))
    BY <1>0, <2>1, UnderSelf
  <2>3. f.i = x
    BY <1>0, <1>2, <2>1, <2>2, ItemsApart
  <2>4. f.i \in Nat
    BY <2>1
  <2> QED BY <1>2, <2>3, <2>4
<1> QED BY <1>1, <1>2 DEF After

\* What is after a frame is below what it is about.
LEMMA AfterIsAhead ==
  ASSUME NEW rec, NEW f, Entered(rec, f), NEW n, IsSeq(n), After(rec, f, n)
  PROVE  Ahead(f, n)
<1>0. IsSeq(Base(f)) /\ IsSeq(ObjectName(f.param))
  BY BaseIs
<1>1. ASSUME NEW m, Under(n, Kid(rec, f, m)) PROVE Ahead(f, n)
  <2>1. Under(n, Base(f))
    BY <1>0, <1>1, UnderAppend DEF Kid
  <2>2. CASE f.at = "item"
    <3>1. f.i \in 1..Len(f.ids) /\ f.i <= f.i
      BY <2>2 DEF Entered, AtItem
    <3>2. Under(n, Item(f, f.i))
      BY <2>1, <2>2, BaseIs
    <3> QED BY <2>2, <3>1, <3>2 DEF Ahead
  <2>3. CASE f.at # "item"
    BY <2>1, <2>3 DEF Ahead, Base
  <2> QED BY <2>2, <2>3
<1>2. ASSUME f.at = "item", NEW x \in 1..Len(f.ids), f.i < x, Under(n, Item(f, x)) PROVE Ahead(f, n)
  <2>1. f.i <= x
    BY <1>2 DEF Entered, AtItem
  <2> QED BY <1>2, <2>1 DEF Ahead
<1> QED BY <1>1, <1>2 DEF After

\* No frame has ahead of it what was reported, nor two frames the same.
FramesOnce(rec, s, below, noted) ==
  /\ \A k \in 1..Len(s) : AtItem(s[k])
  /\ \A j, k \in 1..Len(s) : j < k => Called(rec, s[j], s[k])
  /\ \A k \in 1..Len(s) : \A n \in noted : ~Open(rec, s[k], k < Len(s) \/ below, n)

AllEntered(rec, s) ==
  /\ IsSeq(s) /\ s # <<>>
  /\ \A k \in 1..Len(s) : Entered(rec, s[k])
  /\ \A k \in 1..Len(s) : k < Len(s) => s[k].at # "enter"

\* The frame on top changes, and what it is about is reported.
LEMMA ChangedOnce ==
  ASSUME Databases = 1, NEW rec, NEW s, AllEntered(rec, s), NEW below, NEW noted,
         FramesOnce(rec, s, below, noted), NEW t, Len(t) = Len(s),
         \A k \in 1..Len(s) - 1 : t[k] = s[k],
         NEW f, f = s[Len(s)], NEW g, g = t[Len(s)], AtItem(g), g.param = f.param,
         NEW after, NEW more, \A n \in more : n \in noted \/ (IsSeq(n) /\ Under(n, ObjectName(f.param))),
         \A n \in more : ~Open(rec, g, after, n)
  PROVE  FramesOnce(rec, t, after, more)
<1> PICK m : m = Len(s)
  OBVIOUS
<1>1. m \in Nat \ {0} /\ m \in 1..m /\ Len(t) = m
  BY SeqLength DEF AllEntered
<1>2. \A k \in 1..m : k # m => k \in 1..m - 1 /\ k < m /\ t[k] = s[k]
  BY <1>1
<1>3. \A k \in 1..m : AtItem(t[k])
  BY <1>2 DEF FramesOnce
<1>4. ASSUME NEW j \in 1..m, NEW k \in 1..m, j < k PROVE Called(rec, t[j], t[k])
  <2>1. j # m /\ Called(rec, s[j], s[k])
    BY <1>1, <1>4 DEF FramesOnce
  <2>2. t[j] = s[j] /\ t[k].param = s[k].param
    BY <1>2, <2>1
  <2> QED BY <2>1, <2>2 DEF Called
<1>5. ASSUME NEW k \in 1..m, NEW n \in more PROVE ~Open(rec, t[k], k < m \/ after, n)
  <2>1. CASE k = m
    <3>1. (k < m \/ after) = (after = TRUE)
      BY <1>1, <2>1
    <3> QED BY <1>1, <2>1 DEF Open
  <2>2. CASE k # m /\ n \in noted
    <3>1. ~Open(rec, s[k], k < m \/ below, n) /\ k < m /\ t[k] = s[k]
      BY <1>2, <2>2 DEF FramesOnce
    <3> QED BY <3>1 DEF Open
  <2>3. CASE k # m /\ n \notin noted
    <3>1. k < m /\ t[k] = s[k] /\ s[k].at # "enter" /\ Entered(rec, s[k]) /\ Entered(rec, f)
      BY <1>1, <1>2, <2>3 DEF AllEntered
    <3>2. Called(rec, s[k], f)
      BY <1>1, <3>1 DEF FramesOnce
    <3>3. IsSeq(n) /\ Under(n, ObjectName(f.param)) /\ IsSeq(ObjectName(f.param)) /\ IsSeq(Base(s[k]))
      BY <2>3, <3>1, BaseIs
    <3>4. Under(n, Kid(rec, s[k], s[k].kid))
      <4>1. IsSeq(Kid(rec, s[k], s[k].kid))
        BY <3>3, UnderOwn DEF Kid
      <4> QED BY <3>2, <3>3, <4>1, UnderTrans DEF Called
    <3>5. ~After(rec, s[k], n)
      BY <3>1, <3>2, <3>3, <3>4, CalledIsNotAfter DEF Called
    <3> QED BY <3>1, <3>5 DEF Open
  <2> QED BY <2>1, <2>2, <2>3
<1> QED BY <1>1, <1>3, <1>4, <1>5 DEF FramesOnce

\* A frame with another result, or none yet.
Same(f, g) == g.param = f.param /\ g.at = f.at /\ g.ids = f.ids /\ g.i = f.i

LEMMA SameFrame ==
  ASSUME NEW f, NEW g, Same(f, g), NEW rec
  PROVE  /\ AtItem(g) <=> AtItem(f)
         /\ Base(g) = Base(f) /\ KidsOf(rec, g) = KidsOf(rec, f)
         /\ \A m : Kid(rec, g, m) = Kid(rec, f, m)
         /\ \A n : Ahead(g, n) <=> Ahead(f, n)
         /\ g.kid = f.kid => \A n : After(rec, g, n) <=> After(rec, f, n)
<1>1. Base(g) = Base(f) /\ KidsOf(rec, g) = KidsOf(rec, f) /\ \A x : Item(g, x) = Item(f, x)
  BY DEF Same, Base, ItemName, KidsOf, Item
<1>2. \A m : Kid(rec, g, m) = Kid(rec, f, m)
  BY <1>1 DEF Kid
<1>3. \A n : Ahead(g, n) <=> Ahead(f, n)
  BY <1>1 DEF Same, Ahead
<1>4. g.kid = f.kid => \A n : After(rec, g, n) <=> After(rec, f, n)
  BY <1>1, <1>2 DEF Same, After
<1> QED BY <1>1, <1>2, <1>3, <1>4 DEF Same, AtItem

\* A frame returns to the one below.
LEMMA PoppedOnce ==
  ASSUME NEW rec, NEW s, IsSeq(s), NEW below, NEW noted, FramesOnce(rec, s, below, noted),
         Len(s) > 1, NEW t, Len(t) = Len(s) - 1,
         \A k \in 1..Len(s) - 2 : t[k] = s[k],
         Same(s[Len(s) - 1], t[Len(s) - 1]), t[Len(s) - 1].kid = s[Len(s) - 1].kid
  PROVE  FramesOnce(rec, t, TRUE, noted)
<1> PICK m : m = Len(s) - 1
  OBVIOUS
<1>1. m \in Nat \ {0} /\ m \in 1..m /\ Len(t) = m /\ Len(s) = m + 1
  BY SeqLength
<1>2. \A k \in 1..m : k \in 1..Len(s) /\ k < Len(s)
  BY <1>1
<1>3. ASSUME NEW k \in 1..m PROVE Same(s[k], t[k]) /\ t[k].kid = s[k].kid
  <2>1. CASE k = m
    BY <2>1
  <2>2. CASE k # m
    <3>1. k \in 1..Len(s) - 2
      BY <1>1, <2>2
    <3> QED BY <3>1 DEF Same
  <2> QED BY <2>1, <2>2
<1>4. \A k \in 1..m : AtItem(t[k])
  BY <1>2, <1>3, SameFrame DEF FramesOnce
<1>5. ASSUME NEW j \in 1..m, NEW k \in 1..m, j < k PROVE Called(rec, t[j], t[k])
  <2>1. Called(rec, s[j], s[k])
    BY <1>2, <1>5 DEF FramesOnce
  <2>2. KidsOf(rec, t[j]) = KidsOf(rec, s[j]) /\ \A x : Kid(rec, t[j], x) = Kid(rec, s[j], x)
    BY <1>3, SameFrame
  <2>3. t[j].kid = s[j].kid /\ t[k].param = s[k].param
    BY <1>3 DEF Same
  <2> QED BY <2>1, <2>2, <2>3 DEF Called
<1>6. ASSUME NEW k \in 1..m, NEW n \in noted PROVE ~Open(rec, t[k], k < m \/ TRUE, n)
  <2>1. ~After(rec, s[k], n)
    BY <1>2 DEF FramesOnce, Open
  <2>2. ~After(rec, t[k], n)
    BY <1>3, <2>1, SameFrame
  <2> QED BY <2>2 DEF Open
<1> QED BY <1>1, <1>4, <1>5, <1>6 DEF FramesOnce

\* A frame calls for the next of its children.
LEMMA PushedOnce ==
  ASSUME NEW rec, NEW s, AllEntered(rec, s), NEW noted, \A n \in noted : IsSeq(n),
         FramesOnce(rec, s, TRUE, noted), NEW t, Len(t) = Len(s) + 1,
         \A k \in 1..Len(s) - 1 : t[k] = s[k],
         NEW f, f = s[Len(s)], NEW h, h = t[Len(s)], Same(f, h), h.kid = f.kid + 1,
         h.kid \in 1..Len(KidsOf(rec, h)),
         NEW g, g = t[Len(s) + 1], g.at = "enter", ObjectName(g.param) = Kid(rec, h, h.kid)
  PROVE  FramesOnce(rec, t, FALSE, noted)
<1> PICK m : m = Len(s)
  OBVIOUS
<1>1. m \in Nat \ {0} /\ m \in 1..m /\ Len(t) = m + 1 /\ m < m + 1
  BY SeqLength DEF AllEntered
<1>2. /\ \A k \in 1..m : k # m => k \in 1..m - 1 /\ k < m /\ t[k] = s[k]
      /\ \A k \in 1..m + 1 : k \in 1..m \/ k = m + 1
      /\ \A k \in 1..m : k < m + 1
  BY <1>1
<1>3. Entered(rec, f) /\ f.kid \in Nat /\ IsSeq(Base(f)) /\ IsSeq(ObjectName(f.param))
  <2>1. Entered(rec, f)
    BY <1>1 DEF AllEntered
  <2> QED BY <2>1, BaseIs DEF Entered, IsFrame
<1>4. /\ KidsOf(rec, h) = KidsOf(rec, f) /\ \A x : Kid(rec, h, x) = Kid(rec, f, x)
      /\ AtItem(h)
  BY <1>1, <1>3, SameFrame DEF Entered
<1>5. IsSeq(ObjectName(g.param)) /\ Under(ObjectName(g.param), ObjectName(f.param))
  <2>1. ObjectName(g.param) = Append(Base(f), Last(Order[KidsOf(rec, f)[h.kid]]))
    BY <1>4 DEF Kid
  <2>2. IsSeq(ObjectName(g.param)) /\ Under(ObjectName(g.param), Base(f))
    <3> PICK token : token = Last(Order[KidsOf(rec, f)[h.kid]])
      OBVIOUS
    <3>1. IsSeq(Append(Base(f), token)) /\ Under(Append(Base(f), token), Base(f))
      BY <1>3, UnderOwn
    <3> QED BY <2>1, <3>1
  <2> QED BY <1>3, <2>2, BaseIs, UnderTrans
<1>6. \A k \in 1..m + 1 : AtItem(t[k])
  <2>1. AtItem(g)
    BY DEF AtItem
  <2>2. \A k \in 1..m : k # m => AtItem(s[k]) /\ t[k] = s[k]
    BY <1>2 DEF FramesOnce
  <2> QED BY <1>2, <1>4, <2>1, <2>2
<1>7. ASSUME NEW j \in 1..m + 1, NEW k \in 1..m + 1, j < k PROVE Called(rec, t[j], t[k])
  <2>1. CASE j = m
    <3>1. k = m + 1
      BY <1>1, <1>7, <2>1
    <3>2. Under(ObjectName(g.param), Kid(rec, h, h.kid))
      BY <1>5, UnderSelf
    <3> QED BY <2>1, <3>1, <3>2 DEF Called
  <2>2. CASE j # m
    <3>1. j \in 1..m /\ j < m /\ t[j] = s[j] /\ Called(rec, s[j], s[m])
      <4>1. j \in 1..m
        BY <1>1, <1>7
      <4>2. j < m /\ t[j] = s[j]
        BY <1>2, <2>2, <4>1
      <4> QED BY <1>1, <4>1, <4>2 DEF FramesOnce
    <3>2. CASE k = m + 1
      <4>1. IsSeq(Kid(rec, s[j], s[j].kid))
        <5>1. IsSeq(Base(s[j]))
          BY <3>1, BaseIs DEF AllEntered
        <5> QED BY <5>1, UnderOwn DEF Kid
      <4>2. Under(ObjectName(f.param), Kid(rec, s[j], s[j].kid)) /\ s[j].kid \in 1..Len(KidsOf(rec, s[j]))
        BY <3>1 DEF Called
      <4>3. Under(ObjectName(g.param), Kid(rec, s[j], s[j].kid))
        BY <1>3, <1>5, <4>1, <4>2, UnderTrans
      <4> QED BY <3>1, <3>2, <4>2, <4>3 DEF Called
    <3>3. CASE k = m
      <4>1. h.param = f.param
        BY DEF Same
      <4> QED BY <3>1, <3>3, <4>1 DEF Called
    <3>4. CASE k \notin {m, m + 1}
      <4>1. k \in 1..m /\ t[k] = s[k]
        BY <1>2, <3>4
      <4> QED BY <1>7, <3>1, <4>1 DEF FramesOnce
    <3> QED BY <3>2, <3>3, <3>4
  <2> QED BY <2>1, <2>2
<1>8. ASSUME NEW k \in 1..m + 1, NEW n \in noted PROVE ~Open(rec, t[k], k < m + 1 \/ FALSE, n)
  <2>0. ~After(rec, f, n) /\ IsSeq(n)
    BY <1>1 DEF FramesOnce, Open
  <2>1. CASE k = m + 1
    <3>1. ~(k < m + 1 \/ FALSE)
      BY <1>1, <2>1
    <3>2. ~Under(n, ObjectName(g.param))
      <4>1. f.kid < h.kid
        BY <1>3
      <4> QED BY <1>4, <2>0, <4>1 DEF After
    <3>3. ~Ahead(g, n)
      BY <3>2 DEF Ahead
    <3> QED BY <2>1, <3>1, <3>3 DEF Open
  <2>2. CASE k = m
    <3>1. \A x : h.kid < x /\ x \in 1..Len(KidsOf(rec, h)) => f.kid < x
      BY <1>3
    <3>2. h.at = f.at /\ h.ids = f.ids /\ h.i = f.i /\ \A x : Item(h, x) = Item(f, x)
      BY DEF Same, Item
    <3>3. ~After(rec, h, n)
      BY <1>4, <2>0, <3>1, <3>2 DEF After
    <3> QED BY <1>1, <2>2, <3>3 DEF Open
  <2>3. CASE k \notin {m, m + 1}
    <3>1. k \in 1..m /\ t[k] = s[k]
      BY <1>2, <2>3
    <3>2. ~After(rec, s[k], n)
      BY <3>1 DEF FramesOnce, Open
    <3> QED BY <1>2, <3>1, <3>2 DEF Open
  <2> QED BY <2>1, <2>2, <2>3
<1> QED BY <1>1, <1>6, <1>7, <1>8 DEF FramesOnce

\* The properties that hold the ids of lists, in what an object has.
IsIds(q) == \E k \in 1..Len(Order) : IsList(k) /\ q = Last(Order[k]) \o "IdsOfEntries"
DifferIn(fs) == \A q \in DOMAIN fs : IsIds(q) => Different(fs[q])

\* A list has items, and none of them twice, whatever its application changes and whoever
\* sets its ids.
IdsDiffer ==
  /\ \A i \in Instances : DifferIn(Fields[i])
  /\ \A i \in DOMAIN LaterFields : DifferIn(LaterFields[i])
  /\ \A js \in Jobs, c \in Clients : js[c].op = "set" =>
       \A x \in 1..Len(js[c].pairs) : IsIds(js[c].pairs[x].prop) => Different(js[c].pairs[x].value)

LEMMA OneIsDifferent == \A x : Different(<<x>>)
BY DEF Different

\* A set keeps them different.
LEMMA SetOneDiffers ==
  ASSUME NEW class, NEW D, NEW st, IsSetState(class, D, st), DifferIn(st.fields), DifferIn(st.aside),
         NEW tr, NEW p, p.info.name \in Known(class) /\ IsIds(p.info.name) => Different(p.value)
  PROVE  DifferIn(SetOne(class, tr, st, p).fields) /\ DifferIn(SetOne(class, tr, st, p).aside)
<1> DEFINE f == st.fields
           a == st.aside
           r == st.result
           name == p.info.name
           st2 == SetOne(class, tr, st, p)
<1>1. st = [fields |-> f, aside |-> a, result |-> r]
  BY DEF IsSetState
<1>2. \A e : [st EXCEPT !.result = Append(@, e)] = [fields |-> f, aside |-> a, result |-> Append(r, e)]
  BY <1>1, SaidIs
<1>3. \A g : DifferIn(g) /\ (IsIds(name) => Different(p.value)) => DifferIn([g EXCEPT ![name] = p.value])
  BY DEF DifferIn
<1> HIDE DEF f, a, r
<1>4. CASE ~p.info.writable
  <2> DEFINE e == Entry(p.info.full, Blank, "error")
  <2> HIDE DEF e
  <2>1. st2 = [fields |-> f, aside |-> a, result |-> Append(r, e)]
    BY <1>2, <1>4 DEF SetOne, e
  <2> QED BY <2>1 DEF f, a
<1>5. CASE p.info.writable /\ name \notin Known(class)
  <2> DEFINE e == NotFound(p.info.full)
  <2> HIDE DEF e
  <2>1. st2 = [fields |-> f, aside |-> a, result |-> Append(r, e)]
    BY <1>2, <1>5 DEF SetOne, Known, e
  <2> QED BY <2>1 DEF f, a
<1>6. CASE p.info.writable /\ name \in Known(class)
  <2> DEFINE e == Entry(p.info.full, p.value, "ok")
             done == [fields |-> f, aside |-> a, result |-> Append(r, e)]
  <2>1. st2 = IF tr /\ name \in class.pair THEN [done EXCEPT !.aside[name] = p.value]
              ELSE [done EXCEPT !.fields[name] = p.value]
    BY <1>2, <1>6 DEF SetOne, Known
  <2> HIDE DEF e, st2, name
  <2>2. DifferIn([f EXCEPT ![name] = p.value]) /\ DifferIn([a EXCEPT ![name] = p.value])
    BY <1>3, <1>6 DEF f, a, name
  <2>3. CASE tr /\ name \in class.pair
    <3>1. st2 = [fields |-> f, aside |-> [a EXCEPT ![name] = p.value], result |-> Append(r, e)]
      BY <2>1, <2>3
    <3>2. DifferIn(st2.fields) /\ DifferIn(st2.aside)
      BY <2>2, <3>1 DEF f
    <3> QED BY <3>2 DEF st2
  <2>4. CASE ~(tr /\ name \in class.pair)
    <3>1. st2 = [fields |-> [f EXCEPT ![name] = p.value], aside |-> a, result |-> Append(r, e)]
      BY <2>1, <2>4
    <3>2. DifferIn(st2.fields) /\ DifferIn(st2.aside)
      BY <2>2, <3>1 DEF a
    <3> QED BY <3>2 DEF st2
  <2> QED BY <2>3, <2>4
<1> QED BY <1>4, <1>5, <1>6

LEMMA DoSetDiffers ==
  ASSUME NEW class, NEW fs, DifferIn(fs), NEW params, IsSeq(params),
         \A m \in 1..Len(params) :
           params[m].info.name \in Known(class) /\ IsIds(params[m].info.name) => Different(params[m].value)
  PROVE  DifferIn(DoSet(class, fs, params).fields)
<1> DEFINE tr == Len(params) > 1
           D == DOMAIN fs
           Good(st) == IsSetState(class, D, st) /\ DifferIn(st.fields) /\ DifferIn(st.aside)
<1>1. PICK st : /\ st[0] = SetStart(class, fs)
                /\ \A n \in 0..Len(params) - 1 : st[n + 1] = SetOne(class, tr, st[n], params[n + 1])
                /\ DoSet(class, fs, params).fields =
                     IF tr THEN Commit(class, st[Len(params)]) ELSE st[Len(params)].fields
  BY DoSetSteps
<1> DEFINE T == {n \in Nat : n <= Len(params) => Good(st[n])}
<1>2. Len(params) \in Nat
  BY SeqLength
<1> HIDE DEF tr
<1>3. 0 \in T
  <2>1. IsSetState(class, D, SetStart(class, fs))
    BY DEF IsSetState, SetStart
  <2>2. DifferIn(SetStart(class, fs).fields)
    BY DEF SetStart
  <2>3. DifferIn(SetStart(class, fs).aside)
    BY OneIsDifferent DEF SetStart, DifferIn, Blank
  <2> QED BY <1>1, <2>1, <2>2, <2>3
<1>4. ASSUME NEW n \in T PROVE n + 1 \in T
  <2> SUFFICES ASSUME n + 1 <= Len(params) PROVE Good(st[n + 1])
    OBVIOUS
  <2>1. n \in 0..Len(params) - 1 /\ n + 1 \in 1..Len(params) /\ Good(st[n])
    BY <1>2
  <2> HIDE DEF T, D
  <2>2. st[n + 1] = SetOne(class, tr, st[n], params[n + 1])
    BY <1>1, <2>1
  <2>3. IsSetState(class, D, st[n + 1])
    BY <2>1, <2>2, SetOneIs
  <2>4. DifferIn(st[n + 1].fields) /\ DifferIn(st[n + 1].aside)
    BY <2>1, <2>2, SetOneDiffers
  <2> QED BY <2>3, <2>4
<1>5. Good(st[Len(params)])
  <2> HIDE DEF T
  <2>1. Len(params) \in T
    BY <1>2, <1>3, <1>4, NatSetInduction
  <2> QED BY <1>2, <2>1 DEF T
<1>6. DifferIn(Commit(class, st[Len(params)]))
  BY <1>5 DEF Commit, Overlaid, DifferIn
<1> QED BY <1>1, <1>5, <1>6

FieldsDiffer == \A i \in Instances : DifferIn(fields[i])

LEMMA FieldsDifferStep ==
  ASSUME MembersAreDeclared, IdsDiffer, SetsInv, FieldsDiffer, [Next]_vars
  PROVE  FieldsDiffer'
<1>0. HostTypes /\ job \in Jobs /\ DOMAIN fields = Instances
  BY DEF SetsInv, Inv, ClientTypes, HostTypes
<1>1. ASSUME UNCHANGED fields PROVE FieldsDiffer'
  BY <1>1 DEF FieldsDiffer, DifferIn
<1>2. ASSUME NEW h \in Hosts, Serve(h) PROVE FieldsDiffer'
  <2> PICK r : r = Head(inbox[h])
    OBVIOUS
  <2> PICK class, params : class = ClassOf(ObjectInfo(r.object)) /\ params = SetParams(r)
    OBVIOUS
  <2> PICK new : new = DoSet(class, fields[r.object], params).fields
    OBVIOUS
  <2>1. /\ inbox[h] # <<>>
        /\ fields' = IF r.object \in Inserted(h) /\ r.op = "set" THEN [fields EXCEPT ![r.object] = new] ELSE fields
    BY <1>2 DEF Serve
  <2>2. CASE ~(r.object \in Inserted(h) /\ r.op = "set")
    BY <1>1, <2>1, <2>2
  <2>3. CASE r.object \in Inserted(h) /\ r.op = "set"
    <3>1. r \in ToSet(inbox[h])
      BY <2>1, NextRequest DEF SetsInv
    <3>2. r.client \in Clients /\ IsSeq(r.pairs) /\ AsAsked(r)
      BY <3>1 DEF SetsInv, Inv, InboxTypes, SentAsAsked
    <3>3. r.object \in Instances
      BY <1>0, <2>3, InsertedIs
    <3>4. /\ IsSeq(params) /\ Len(params) = Len(r.pairs)
          /\ \A m \in 1..Len(params) :
               /\ params[m].value = r.pairs[m].value
               /\ params[m].info.name \in Known(class) => params[m].info.name = r.pairs[m].prop
      BY <1>0, <3>2, <3>3, SetParamsAre
    <3>5. \A m \in 1..Len(r.pairs) : IsIds(r.pairs[m].prop) => Different(r.pairs[m].value)
      BY <1>0, <2>3, <3>2 DEF IdsDiffer, AsAsked
    <3>6. \A m \in 1..Len(params) :
            params[m].info.name \in Known(class) /\ IsIds(params[m].info.name) => Different(params[m].value)
      BY <3>4, <3>5
    <3>7. DifferIn(fields[r.object])
      BY <3>3 DEF FieldsDiffer
    <3>8. DifferIn(new)
      BY <3>4, <3>6, <3>7, DoSetDiffers
    <3> QED BY <1>0, <2>1, <3>8 DEF FieldsDiffer, DifferIn
  <2> QED BY <2>2, <2>3
<1>3. ASSUME NEW k \in DOMAIN LaterFields, ApplicationChanges(k) PROVE FieldsDiffer'
  <2> PICK new : new = Overlaid(fields[k], LaterFields[k])
    OBVIOUS
  <2>1. k \in Instances /\ DifferIn(LaterFields[k]) /\ DifferIn(fields[k])
    BY FieldsAssumption DEF IdsDiffer, FieldsDiffer
  <2>2. fields' = [fields EXCEPT ![k] = new]
    BY <1>3 DEF ApplicationChanges
  <2>3. DifferIn(new)
    BY <2>1 DEF Overlaid, DifferIn
  <2> QED BY <1>0, <2>2, <2>3 DEF FieldsDiffer, DifferIn
<1>4. ASSUME NEW h \in Hosts, Subscribe(h) \/ Insert(h) \/ Dies(h) \/ Reconnect(h) PROVE FieldsDiffer'
  BY <1>1, <1>4 DEF Subscribe, Insert, Dies, Reconnect
<1>5. ASSUME RouterRestarts PROVE FieldsDiffer'
  BY <1>1, <1>5 DEF RouterRestarts
<1>6. ASSUME NEW c \in Clients, ClientStep(c) \/ TimesOut(c) PROVE FieldsDiffer'
  BY <1>0, <1>1, <1>6, AskIs, EnterIs, CountedIs, QueriedIs, BelowIs DEF SetsInv, ClientStep, TimesOut, hostVars
<1>7. ASSUME UNCHANGED vars PROVE FieldsDiffer'
  BY <1>1, <1>7 DEF vars, hostVars
<1> QED BY <1>2, <1>3, <1>4, <1>5, <1>6, <1>7 DEF Next, Finished

\* The ids in an answer.
DifferAt(values) ==
  Len(values) \in Nat /\ \A m \in 1..Len(values) : IsIds(values[m].prop) => Different(values[m].value)

\* No function for what is not declared.
Named(class) == "" \notin class.getters \cup class.own

LEMMA GetDiffers ==
  ASSUME NEW class, Named(class), NEW fs, DifferIn(fs),
         class.getters \cup class.own \subseteq DOMAIN fs, NEW k, NEW infos, AreInfos(k, infos)
  PROVE  DifferAt(DoGet(class, fs, infos))
<1> DEFINE known == class.getters \cup class.own
           shown(j) == IF infos[j].name \in known THEN Entry(infos[j].full, fs[infos[j].name], "ok")
                       ELSE NotFound(infos[j].full)
<1> PICK values : values = DoGet(class, fs, infos)
  OBVIOUS
<1>1. PICK n \in Nat : /\ DOMAIN infos = 1..n /\ infos = [j \in 1..n |-> infos[j]]
                       /\ \A j \in 1..n : \E p : infos[j] = Info(k, p, p, FALSE)
  BY DEF AreInfos
<1>2. Len(infos) = n
  BY <1>1
<1>3. values = [j \in 1..n |-> shown(j)]
  BY <1>2 DEF DoGet
<1>4. Len(values) = n
  <2> HIDE DEF shown
  <2> QED BY <1>3
<1>5. ASSUME NEW m \in 1..n, IsIds(values[m].prop) PROVE Different(values[m].value)
  <2>0. PICK p : infos[m] = Info(k, p, p, FALSE)
    BY <1>1
  <2>1. values[m] = shown(m)
    <3> HIDE DEF shown
    <3> QED BY <1>3
  <2>2. PICK unknown : unknown = "" /\ unknown \notin known
    BY DEF Named
  <2>3. \A x, v, s : Entry(x, v, s).prop = x /\ Entry(x, v, s).value = v
    BY DEF Entry
  <2>4. infos[m].full = p /\ (infos[m].name = p \/ infos[m].name = unknown)
    <3>1. CASE HasProperty(k, p)
      <4>1. infos[m] = [name |-> p, full |-> p, writable |-> Property(k, p).writable]
        BY <2>0, <3>1 DEF Info
      <4> QED BY <4>1
    <3>2. CASE ~HasProperty(k, p)
      <4>1. infos[m] = [name |-> unknown, full |-> p, writable |-> FALSE]
        BY <2>0, <2>2, <3>2 DEF Info
      <4> QED BY <4>1
    <3> QED BY <3>1, <3>2
  <2>5. CASE infos[m].name \in known
    <3>1. infos[m].name = p /\ p \in DOMAIN fs
      BY <2>2, <2>4, <2>5
    <3>2. values[m] = Entry(p, fs[p], "ok")
      BY <2>1, <2>4, <2>5, <3>1
    <3>3. values[m].prop = p /\ values[m].value = fs[p]
      BY <2>3, <3>2
    <3> QED BY <1>5, <3>1, <3>3 DEF DifferIn
  <2>6. CASE infos[m].name \notin known
    <3>1. \E s : values[m] = Entry(p, Blank, s)
      BY <2>1, <2>4, <2>6, Zenon DEF NotFound
    <3>2. values[m].value = Blank
      BY <2>3, <3>1
    <3> QED BY <3>2, OneIsDifferent DEF Blank
  <2> QED BY <2>5, <2>6
<1> QED BY <1>4, <1>5 DEF DifferAt

AnswerDiffers(c) == job[c].op # "set" /\ answer[c] # <<>> => DifferAt(answer[c][1].values)

LEMMA NothingDiffers == DifferAt(<<>>)
BY DEF DifferAt

LEMMA ServesDifferent ==
  ASSUME MembersAreDeclared, SetsInv, FieldsDiffer, NEW h \in Hosts, Serve(h),
         NEW c \in Clients, job[c].op # "set", answer'[c] # answer[c]
  PROVE  DifferAt(answer'[c][1].values)
<1> PICK r : r = Head(inbox[h])
  OBVIOUS
<1> PICK class, fs : class = ClassOf(ObjectInfo(r.object)) /\ fs = fields[r.object]
  OBVIOUS
<1> PICK values : values = IF ~(r.object \in Inserted(h)) THEN <<>>
                           ELSE IF r.op = "set" THEN DoSet(class, fs, SetParams(r)).result
                           ELSE DoGet(class, fs, GetParams(r))
  OBVIOUS
<1>1. inbox[h] # <<>> /\ answer' = Answered(r, values)
  BY DEF Serve
<1>2. DOMAIN answer = Clients /\ HostTypes
  BY DEF SetsInv, Inv, ClientTypes
<1>3. r.client = c /\ answer'[c] = <<Reply(values)>>
  BY <1>1, <1>2 DEF Answered
<1>4. r.op # "set"
  <2>1. AsAsked(r)
    BY <1>1, NextRequest DEF SetsInv, SentAsAsked
  <2> QED BY <1>3, <2>1 DEF AsAsked
<1>5. DifferAt(values)
  <2>1. CASE ~(r.object \in Inserted(h))
    BY <2>1, NothingDiffers
  <2>2. CASE r.object \in Inserted(h)
    <3>1. r.object \in Instances
      BY <1>2, <2>2, InsertedIs
    <3>2. ObjectInfo(r.object) \in 1..Len(Order)
      BY <3>1, RegistersAssumption, InstancesAreNames, InfoRange
    <3>3. Named(class)
      BY <3>2 DEF MembersAreDeclared, Named
    <3>4. class.getters \cup class.own \subseteq DOMAIN fs
      BY <1>2, <3>1, FieldsAssumption DEF HostTypes
    <3>5. DifferIn(fs)
      BY <3>1 DEF FieldsDiffer
    <3>6. AreInfos(ObjectInfo(r.object), GetParams(r))
      BY <3>2, GetParamsAre
    <3>7. values = DoGet(class, fs, GetParams(r))
      BY <1>4, <2>2
    <3> QED BY <3>3, <3>4, <3>5, <3>6, <3>7, GetDiffers
  <2> QED BY <2>1, <2>2
<1>6. answer'[c][1].values = values
  BY <1>3 DEF Reply
<1> QED BY <1>5, <1>6

LEMMA AnswerDiffersStep ==
  ASSUME MembersAreDeclared, SetsInv, FieldsDiffer, NEW c \in Clients, AnswerDiffers(c), [Next]_vars
  PROVE  AnswerDiffers(c)'
<1>0. DOMAIN answer = Clients /\ (answer[c] # <<>> => pc[c] = "wait")
  BY DEF SetsInv, Inv, ClientTypes
<1>1. ASSUME answer'[c] = <<>> PROVE AnswerDiffers(c)'
  BY <1>1 DEF AnswerDiffers
<1>2. ASSUME Enter(c) \/ Counted(c) \/ Queried(c) \/ Below(c) PROVE AnswerDiffers(c)'
  <2>1. answer'[c] = <<>>
    BY <1>0, <1>2, EnterIs, CountedIs, QueriedIs, BelowIs DEF SetsInv
  <2> QED BY <1>1, <2>1
<1>3. ASSUME Ask(c) PROVE AnswerDiffers(c)'
  <2>1. answer'[c] = <<>> \/ answer'[c] = <<Refusal>>
    BY <1>0, <1>3, AskIs DEF SetsInv
  <2>2. <<Refusal>>[1].values = <<>>
    BY DEF Refusal
  <2> QED BY <1>1, <2>1, <2>2, NothingDiffers DEF AnswerDiffers, DifferAt
<1>4. ASSUME TimesOut(c) PROVE AnswerDiffers(c)'
  <2>1. answer'[c] = <<Silence>> /\ <<Silence>>[1].values = <<>>
    BY <1>0, <1>4 DEF TimesOut, Silence
  <2> QED BY <2>1, NothingDiffers DEF AnswerDiffers, DifferAt
<1>5. ASSUME job' = job, answer'[c] = answer[c] PROVE AnswerDiffers(c)'
  BY <1>5 DEF AnswerDiffers, DifferAt
<1>6. ASSUME NEW h \in Hosts, Serve(h), job' = job PROVE AnswerDiffers(c)'
  <2>1. CASE answer'[c] = answer[c]
    BY <1>5, <1>6, <2>1
  <2>2. CASE answer'[c] # answer[c]
    <3>1. job[c].op # "set" => DifferAt(answer'[c][1].values)
      BY <1>6, <2>2, ServesDifferent
    <3> QED BY <1>6, <3>1 DEF AnswerDiffers, DifferAt
  <2> QED BY <2>1, <2>2
<1>7. /\ job' = job
      /\ ClientStep(c) \/ TimesOut(c) \/ answer'[c] = answer[c] \/ \E h \in Hosts : Serve(h)
  BY OthersStep DEF SetsInv
<1> QED BY <1>2, <1>3, <1>4, <1>5, <1>6, <1>7 DEF ClientStep

\* What was reported.
EachOnce(s) == \A x, y \in 1..Len(s) : s[x].object = s[y].object => x = y \/ s[x].object = <<>>
HeardIn(s) == {s[x].object : x \in 1..Len(s)} \ {<<>>}

LEMMA HeardMore ==
  ASSUME NEW s, IsSeq(s), EachOnce(s), NEW n, n.object \notin HeardIn(s)
  PROVE  /\ IsSeq(Append(s, n)) /\ EachOnce(Append(s, n))
         /\ HeardIn(Append(s, n)) = HeardIn(s) \cup ({n.object} \ {<<>>})
<1> PICK t : t = Append(s, n)
  OBVIOUS
<1>1. /\ IsSeq(t) /\ Len(t) = Len(s) + 1 /\ Len(s) \in Nat
      /\ \A x \in 1..Len(s) : t[x] = s[x]
      /\ t[Len(s) + 1] = n
  BY SeqAppend, SeqLength
<1>2. /\ \A x \in 1..Len(t) : x \in 1..Len(s) \/ x = Len(s) + 1
      /\ \A x \in 1..Len(s) : x \in 1..Len(t)
      /\ Len(s) + 1 \in 1..Len(t)
  BY <1>1
<1>3. ASSUME NEW x \in 1..Len(t), NEW y \in 1..Len(t), t[x].object = t[y].object
      PROVE  x = y \/ t[x].object = <<>>
  <2>1. CASE x \in 1..Len(s) /\ y \in 1..Len(s)
    BY <1>1, <1>3, <2>1 DEF EachOnce
  <2>2. CASE x \in 1..Len(s) /\ y \notin 1..Len(s)
    <3>1. s[x].object = n.object
      BY <1>1, <1>2, <1>3, <2>2
    <3> QED BY <1>1, <2>2, <3>1 DEF HeardIn
  <2>3. CASE x \notin 1..Len(s) /\ y \in 1..Len(s)
    <3>1. s[y].object = n.object /\ t[x].object = n.object
      BY <1>1, <1>2, <1>3, <2>3
    <3> QED BY <2>3, <3>1 DEF HeardIn
  <2>4. CASE x \notin 1..Len(s) /\ y \notin 1..Len(s)
    BY <1>2, <2>4
  <2> QED BY <2>1, <2>2, <2>3, <2>4
<1>4. HeardIn(t) = HeardIn(s) \cup ({n.object} \ {<<>>})
  <2>1. ASSUME NEW x \in 1..Len(t) PROVE t[x].object \in {s[y].object : y \in 1..Len(s)} \cup {n.object}
    BY <1>1, <1>2
  <2>2. ASSUME NEW x \in 1..Len(s) PROVE s[x].object \in {t[y].object : y \in 1..Len(t)}
    <3>1. s[x].object = t[x].object /\ x \in 1..Len(t)
      BY <1>1, <1>2
    <3> QED BY <3>1
  <2>3. n.object \in {t[y].object : y \in 1..Len(t)}
    BY <1>1, <1>2
  <2> QED BY <2>1, <2>2, <2>3 DEF HeardIn
<1> QED BY <1>1, <1>3, <1>4 DEF EachOnce

\* A call that has reported no object twice, and will not.
Once(c) ==
  /\ IsSeq(notes[c]) /\ EachOnce(notes[c])
  /\ \A n \in HeardIn(notes[c]) : IsSeq(n)
  /\ FramesOnce(job[c].recursive, stack[c], pc[c] = "below", HeardIn(notes[c]))
  /\ pc[c] = "enter" => Top(c).at = "enter"
  /\ job[c].op = "set" /\ pc[c] \in {"enter", "ask", "wait"} => notes[c] = <<>>

LEMMA OnceKept ==
  ASSUME NEW c \in Clients, Once(c), job' = job, notes'[c] = notes[c], NEW to, pc'[c] = to,
         FramesOnce(job[c].recursive, stack'[c], to = "below", HeardIn(notes[c])),
         to = "enter" => Top(c)'.at = "enter",
         job[c].op = "set" /\ to \in {"enter", "ask", "wait"} => pc[c] \in {"enter", "ask", "wait"}
  PROVE  Once(c)'
<1>1. /\ IsSeq(notes[c]) /\ EachOnce(notes[c]) /\ \A n \in HeardIn(notes[c]) : IsSeq(n)
      /\ job[c].op = "set" /\ to \in {"enter", "ask", "wait"} => notes[c] = <<>>
  BY DEF Once
<1>2. PICK old : old = notes[c] /\ old = notes'[c]
  OBVIOUS
<1>3. /\ IsSeq(old) /\ EachOnce(old) /\ \A n \in HeardIn(old) : IsSeq(n)
      /\ job[c].op = "set" /\ to \in {"enter", "ask", "wait"} => old = <<>>
      /\ FramesOnce(job[c].recursive, stack'[c], to = "below", HeardIn(old))
  BY <1>1, <1>2
<1> QED BY <1>2, <1>3 DEF Once

LEMMA OnceEntered ==
  ASSUME Inv, NEW c \in Clients, pc[c] # "done", Once(c)
  PROVE  LET rec == job[c].recursive
         IN  /\ AllEntered(rec, stack[c])
             /\ Top(c) = stack[c][Len(stack[c])] /\ Len(stack[c]) \in 1..Len(stack[c])
             /\ Entered(rec, Top(c)) /\ (pc[c] # "enter" => Top(c).at # "enter")
             /\ \A n \in HeardIn(notes[c]) : ~Open(rec, Top(c), pc[c] = "below", n)
<1> DEFINE rec == job[c].recursive
           s == stack[c]
<1>1. /\ IsSeq(s) /\ s # <<>> /\ Len(s) \in 1..Len(s) /\ Top(c) = s[Len(s)] /\ Len(s) \in Nat
      /\ pc[c] # "enter" => Top(c).at # "enter"
  BY TopIs DEF Inv, Frames, FramesOf
<1>2. /\ \A k \in 1..Len(s) : FrameFor(s[k], job[c], k = 1)
      /\ \A k \in 1..Len(s) : k < Len(s) => s[k].at # "enter"
  BY DEF Inv, Frames, FramesOf
<1>3. FramesOnce(rec, s, pc[c] = "below", HeardIn(notes[c]))
  BY DEF Once
<1>4. ASSUME NEW k \in 1..Len(s) PROVE Entered(rec, s[k])
  <2>1. FrameFor(s[k], job[c], k = 1) /\ AtItem(s[k])
    BY <1>2, <1>3 DEF FramesOnce
  <2> QED BY <2>1 DEF FrameFor, Entered, ListOf
<1>5. AllEntered(rec, s)
  BY <1>1, <1>2, <1>4 DEF AllEntered
<1>6. ASSUME NEW n \in HeardIn(notes[c]) PROVE ~Open(rec, Top(c), pc[c] = "below", n)
  <2>1. ~Open(rec, s[Len(s)], Len(s) < Len(s) \/ pc[c] = "below", n)
    BY <1>1, <1>3 DEF FramesOnce
  <2>2. (Len(s) < Len(s) \/ pc[c] = "below") = (pc[c] = "below")
    BY <1>1
  <2> QED BY <1>1, <2>1, <2>2 DEF Open
<1> QED BY <1>1, <1>4, <1>5, <1>6

LEMMA OnceReturn ==
  ASSUME Inv, NEW c \in Clients, pc[c] # "done", Once(c), NEW ok \in BOOLEAN, Return(c, ok),
         job' = job, notes'[c] = notes[c]
  PROVE  Once(c)'
<1>0. PICK rec, s, t, noted, below :
        /\ rec = job[c].recursive /\ s = stack[c] /\ t = stack'[c]
        /\ noted = HeardIn(notes[c]) /\ below = (pc[c] = "below")
  OBVIOUS
<1>1. FramesOnce(rec, s, below, noted)
  BY <1>0 DEF Once
<1>2. FramesOf(c)' /\ AllEntered(rec, s) /\ IsSeq(s)
  BY <1>0, ReturnIs, OnceEntered DEF AllEntered
<1>3. CASE pc'[c] = "done"
  <2>1. t = <<>>
    BY <1>0, <1>2, <1>3 DEF FramesOf
  <2>2. 1..Len(t) = {}
    BY <2>1, SeqEmpty
  <2>3. FramesOnce(rec, t, "done" = "below", noted)
    BY <2>2 DEF FramesOnce
  <2> QED BY <1>0, <1>3, <2>3, OnceKept
<1>4. CASE pc'[c] # "done"
  <2>1. /\ Len(s) > 1 /\ pc'[c] = "below" /\ Len(t) = Len(s) - 1
        /\ \A k \in 1..Len(s) - 2 : t[k] = s[k]
        /\ t[Len(s) - 1] = [s[Len(s) - 1] EXCEPT !.ok = ok]
    BY <1>0, <1>4, ReturnIs
  <2>2. Len(s) - 1 \in 1..Len(s)
    BY <1>2, <2>1, SeqLength DEF AllEntered
  <2>3. IsFrame(s[Len(s) - 1])
    BY <1>2, <2>2 DEF AllEntered, Entered
  <2>4. Same(s[Len(s) - 1], t[Len(s) - 1]) /\ t[Len(s) - 1].kid = s[Len(s) - 1].kid
    BY <2>1, <2>3 DEF Same, IsFrame
  <2>5. FramesOnce(rec, t, TRUE, noted)
    BY <1>1, <1>2, <2>1, <2>4, PoppedOnce
  <2>6. FramesOnce(rec, t, "below" = "below", noted)
    BY <2>5
  <2> QED BY <1>0, <2>1, <2>6, OnceKept
<1> QED BY <1>3, <1>4

\* What Goto does to the stack.
LEMMA GotoStack ==
  ASSUME Inv, NEW c \in Clients, pc[c] # "done", NEW f, NEW to, Goto(c, f, to)
  PROVE  /\ pc'[c] = to /\ Len(stack'[c]) = Len(stack[c])
         /\ \A k \in 1..Len(stack[c]) - 1 : stack'[c][k] = stack[c][k]
         /\ stack'[c][Len(stack[c])] = f
<1> DEFINE t == Append(Front(stack[c]), f)
<1>1. IsSeq(stack[c]) /\ stack[c] # <<>>
  BY DEF Inv, Frames, FramesOf
<1>2. /\ Len(t) = Len(stack[c])
      /\ \A k \in 1..Len(stack[c]) - 1 : t[k] = stack[c][k]
      /\ t[Len(stack[c])] = f
  BY <1>1, SeqReplaceLast
<1>3. stack'[c] = t /\ pc'[c] = to
  BY DEF Goto, Inv, ClientTypes
<1> QED BY <1>2, <1>3

LEMMA OnceGoto ==
  ASSUME Databases = 1, Inv, NEW c \in Clients, pc[c] # "done", Once(c),
         NEW g, NEW to \in {"ask", "below"}, Goto(c, g, to), job' = job, notes'[c] = notes[c],
         AtItem(g), g.param = Top(c).param,
         \A n \in HeardIn(notes[c]) : ~Open(job[c].recursive, g, to = "below", n),
         job[c].op = "set" /\ to = "ask" => pc[c] = "enter"
  PROVE  Once(c)'
<1>0. PICK rec, s, t, noted, f, below, after :
        /\ rec = job[c].recursive /\ s = stack[c] /\ t = stack'[c]
        /\ noted = HeardIn(notes[c]) /\ f = Top(c)
        /\ below = (pc[c] = "below") /\ after = (to = "below")
  OBVIOUS
<1>1. FramesOnce(rec, s, below, noted)
  BY <1>0 DEF Once
<1>2. AllEntered(rec, s) /\ f = s[Len(s)] /\ g.param = f.param
  BY <1>0, OnceEntered
<1>3. /\ pc'[c] = to /\ Len(t) = Len(s) /\ g = t[Len(s)]
      /\ \A k \in 1..Len(s) - 1 : t[k] = s[k]
  BY <1>0, GotoStack
<1>4. \A n \in noted : ~Open(rec, g, after, n)
  BY <1>0
<1>5. FramesOnce(rec, t, after, noted)
  <2>1. AtItem(g) /\ \A n \in noted : n \in noted \/ (IsSeq(n) /\ Under(n, ObjectName(f.param)))
    OBVIOUS
  <2> QED BY <1>1, <1>2, <1>3, <1>4, <2>1, ChangedOnce
<1>6. FramesOnce(rec, t, to = "below", noted)
  BY <1>0, <1>5
<1> QED BY <1>0, <1>3, <1>6, OnceKept

LEMMA OnceEnter ==
  ASSUME Databases = 1, Inv, NEW c \in Clients, Once(c), Enter(c)
  PROVE  Once(c)'
<1>1. pc[c] = "enter" /\ job' = job /\ notes'[c] = notes[c]
  BY EnterIs
<1>2. CASE Return(c, FALSE)
  BY <1>1, <1>2, OnceReturn
<1>3. CASE ~Return(c, FALSE)
  <2> PICK f : f = Top(c)
    OBVIOUS
  <2> PICK to : to = IF job[c].op = "get" /\ ListOf(f.param) THEN "count" ELSE "plain"
    OBVIOUS
  <2>1. Goto(c, [f EXCEPT !.at = to], "ask")
    BY <1>3 DEF Enter
  <2>2. PICK g : g = [f EXCEPT !.at = to]
    OBVIOUS
  <2>3. IsFrame(f) /\ f.at = "enter" /\ \A n \in HeardIn(notes[c]) : ~Open(job[c].recursive, f, FALSE, n)
    <3>1. IsFrame(f) /\ f.at = "enter" /\ (pc[c] = "below") = FALSE
      BY <1>1, OnceEntered DEF Entered, Once
    <3> QED BY <1>1, <3>1, OnceEntered
  <2>4. g.param = f.param /\ g.at # "item"
    BY <2>2, <2>3 DEF IsFrame
  <2>5. AtItem(g)
    BY <2>4 DEF AtItem
  <2>6. \A n \in HeardIn(notes[c]) : ~Open(job[c].recursive, g, FALSE, n)
    BY <2>3, <2>4 DEF Open, Ahead
  <2>7. \A n \in HeardIn(notes[c]) : ~Open(job[c].recursive, g, "ask" = "below", n)
    BY <2>6 DEF Open
  <2>8. Goto(c, g, "ask")
    BY <2>1, <2>2
  <2> QED BY <1>1, <2>4, <2>5, <2>7, <2>8, OnceGoto
<1> QED BY <1>2, <1>3

\* The name of a list ends with the name of its object.
LEMMA ListName ==
  ASSUME NEW name, IsSeq(name), ObjectInfo(name) \in 1..Len(Order), ~Lookup(name).item
  PROVE  name # <<>> /\ Last(name) = Last(Order[ObjectInfo(name)])
<1> PICK k, o : k = ObjectInfo(name) /\ o = Order[k]
  OBVIOUS
<1>1. IsInstanceOf(name, k, Lookup(name).item)
  BY FoundIsMeant
<1>2. Len(name) = Place(o, Len(o)) + 0 /\ \A n \in 1..Len(o) : name[Place(o, n)] = o[n]
  BY <1>1, InstanceOf
<1>3. IsSeq(o) /\ Len(o) \in Nat \ {0} /\ Len(o) \in 1..Len(o) /\ o # <<>>
  BY OrderNames, SeqLength
<1>4. Place(o, Len(o)) \in Nat \ {0}
  BY <1>3, PlaceStep
<1>5. name[Len(name)] = o[Len(o)] /\ Len(name) # 0
  BY <1>2, <1>3, <1>4
<1>6. name # <<>>
  BY <1>5, SeqLength
<1> QED BY <1>3, <1>5, <1>6, SeqFront

LEMMA SiblingName ==
  ASSUME NEW name, IsSeq(name), name # <<>>, NEW suffix
  PROVE  Last(Sibling(name, suffix)) = Last(name) \o suffix
<1> PICK last, a : last = Last(name) \o suffix /\ a = Sibling(name, suffix)
  OBVIOUS
<1>1. a = Append(Front(name), last)
  BY DEF Sibling
<1>2. Replaced(name, a, last)
  BY <1>1, SeqReplaced
<1>3. Last(a) = a[Len(a)]
  BY <1>2, SeqFront DEF Replaced
<1> QED BY <1>2, <1>3 DEF Replaced

\* The ids that a list is asked for are different.
LEMMA ValueDiffers ==
  ASSUME NEW q, IsIds(q), NEW values, DifferAt(values)
  PROVE  Different(ValueOf(q, values))
<1> DEFINE at == {n \in 1..Len(values) : values[n].prop = q}
<1>1. CASE at = {}
  <2>1. ValueOf(q, values) = <<"0">>
    BY <1>1 DEF ValueOf
  <2> QED BY <2>1, OneIsDifferent
<1>2. CASE at # {}
  <2>1. Len(values) \in Nat /\ at \in SUBSET (1..Len(values))
    BY DEF DifferAt
  <2>2. PICK m \in at : \A y \in at : y <= m
    <3> HIDE DEF at
    <3> QED BY <1>2, <2>1, GreatestExists
  <2>3. ValueOf(q, values) = values[m].value
    BY <2>1, <2>2, ValueOfLast
  <2> QED BY <2>3 DEF DifferAt
<1> QED BY <1>1, <1>2

LEMMA OnceCounted ==
  ASSUME Databases = 1, Inv, NEW c \in Clients, Once(c), AnswerDiffers(c), job[c].op # "set", Counted(c)
  PROVE  Once(c)'
<1>0. PICK f, v : f = Top(c) /\ v = ValueOf(Last(Asked(c).name), answer[c][1].values)
  OBVIOUS
<1>1. /\ pc[c] = "wait" /\ answer[c] # <<>> /\ job' = job /\ notes'[c] = notes[c]
      /\ f.at \in {"count", "ids"}
  BY <1>0 DEF Counted
<1>2. \/ Return(c, FALSE)
      \/ f.at = "count" /\ Goto(c, [f EXCEPT !.at = "ids", !.count = atoi(v)], "ask")
      \/ f.at = "ids" /\ Goto(c, [f EXCEPT !.at = "item", !.ids = v, !.i = 1], "ask")
  BY <1>0, <1>1 DEF Counted
<1>3. /\ IsFrame(f) /\ ListOf(f.param)
      /\ \A n \in HeardIn(notes[c]) : ~Open(job[c].recursive, f, FALSE, n) /\ IsSeq(n)
  <2>1. (pc[c] = "below") = FALSE
    BY <1>1
  <2>2. FrameFor(f, job[c], Len(stack[c]) = 1)
    BY <1>0, <1>1, TopIs
  <2> QED BY <1>0, <1>1, <2>1, <2>2, OnceEntered DEF Once, FrameFor
<1>4. f.param.wild /\ ObjectName(f.param) = f.param.name /\ IsSeq(f.param.name)
  BY <1>3 DEF ListOf, ObjectName, IsFrame
<1>5. \A n \in HeardIn(notes[c]) : ~Under(n, f.param.name)
  BY <1>1, <1>3, <1>4 DEF Open, Ahead
<1>6. CASE Return(c, FALSE)
  BY <1>1, <1>6, OnceReturn
<1>7. CASE f.at = "count" /\ Goto(c, [f EXCEPT !.at = "ids", !.count = atoi(v)], "ask")
  <2>1. PICK g : g = [f EXCEPT !.at = "ids", !.count = atoi(v)]
    OBVIOUS
  <2>2. g.at = "ids" /\ g.param = f.param
    BY <1>3, <2>1 DEF IsFrame
  <2>3. \A n \in HeardIn(notes[c]) : ~Open(job[c].recursive, g, "ask" = "below", n)
    BY <1>4, <1>5, <2>2 DEF Open, Ahead
  <2>4. AtItem(g)
    BY <2>2 DEF AtItem
  <2>5. Goto(c, g, "ask")
    BY <1>7, <2>1
  <2> QED BY <1>0, <1>1, <2>2, <2>3, <2>4, <2>5, OnceGoto
<1>8. CASE f.at = "ids" /\ Goto(c, [f EXCEPT !.at = "item", !.ids = v, !.i = 1], "ask")
  <2>1. PICK g : g = [f EXCEPT !.at = "item", !.ids = v, !.i = 1]
    OBVIOUS
  <2>2. g.at = "item" /\ g.param = f.param /\ g.ids = v /\ g.i = 1
    BY <1>3, <2>1 DEF IsFrame
  <2>3. ObjectInfo(f.param.name) \in 1..Len(Order) /\ IsList(ObjectInfo(f.param.name)) /\ ~Lookup(f.param.name).item
    <3>1. IsList(ObjectInfo(f.param.name)) /\ ~Lookup(f.param.name).item
      BY <1>3, <1>4 DEF ListOf, ObjectOf
    <3> QED BY <1>4, <3>1, InfoRange DEF IsList
  <2>4. Different(v)
    <3>1. Asked(c).name = Sibling(f.param.name, "IdsOfEntries")
      BY <1>0, <1>8 DEF Asked, PropertyParam
    <3>2. f.param.name # <<>> /\ Last(f.param.name) = Last(Order[ObjectInfo(f.param.name)])
      BY <1>4, <2>3, ListName
    <3>3. PICK q : q = Last(Asked(c).name)
      OBVIOUS
    <3>4. q = Last(f.param.name) \o "IdsOfEntries"
      BY <1>4, <3>1, <3>2, <3>3, SiblingName
    <3>5. IsIds(q)
      BY <2>3, <3>2, <3>4 DEF IsIds
    <3>6. DifferAt(answer[c][1].values)
      BY <1>1 DEF AnswerDiffers
    <3> QED BY <1>0, <3>3, <3>5, <3>6, ValueDiffers
  <2>5. AtItem(g)
    <3>1. 1 \in 1..Len(v)
      BY <2>4 DEF Different
    <3> QED BY <2>2, <2>4, <3>1 DEF AtItem
  <2>6. ASSUME NEW n \in HeardIn(notes[c]) PROVE ~Open(job[c].recursive, g, "ask" = "below", n)
    <3>1. \A x : Under(n, Append(f.param.name, v[x])) => Under(n, f.param.name)
      BY <1>3, <1>4, UnderAppend
    <3>2. \A x : Item(g, x) = Append(f.param.name, v[x])
      BY <2>2 DEF Item
    <3>3. ~Ahead(g, n)
      BY <1>5, <2>2, <3>1, <3>2 DEF Ahead
    <3> QED BY <3>3 DEF Open
  <2>7. Goto(c, g, "ask")
    BY <1>8, <2>1
  <2> QED BY <1>0, <1>1, <2>2, <2>5, <2>6, <2>7, OnceGoto
<1> QED BY <1>2, <1>6, <1>7, <1>8

\* The query of a get is for what its frame is about.
LEMMA AskedIs ==
  ASSUME NEW c \in Clients, job[c].op # "set", Top(c).at \in {"item", "plain"}
  PROVE  AskedObject(c) = Base(Top(c))
<1>1. AskedObject(c) = ObjectName(Asked(c))
  BY DEF AskedObject
<1>2. CASE Top(c).at = "item"
  <2>1. Asked(c) = [name |-> ItemName(Top(c)), wild |-> TRUE]
    BY <1>2 DEF Asked, ObjectParam
  <2> QED BY <1>1, <1>2, <2>1 DEF ObjectName, Base
<1>3. CASE Top(c).at = "plain"
  BY <1>1, <1>3 DEF Asked, Base
<1> QED BY <1>2, <1>3

LEMMA OnceQueried ==
  ASSUME Databases = 1, Inv, NEW c \in Clients, Once(c), Plain(c), Queried(c)
  PROVE  Once(c)'
<1>0. PICK f, a, rec, old : f = Top(c) /\ a = answer[c][1] /\ rec = job[c].recursive /\ old = notes[c]
  OBVIOUS
<1>1. PICK g : g = [f EXCEPT !.ok = @ /\ a.status = 0, !.kid = 0]
  OBVIOUS
<1>2. /\ pc[c] = "wait" /\ job' = job /\ f.at \in {"item", "plain"} /\ Goto(c, g, "below")
      /\ IF a.status = 0 THEN notes' = [notes EXCEPT ![c] = Append(old, Results(c, a))] ELSE notes' = notes
  BY <1>0, <1>1 DEF Queried, OnResult
<1>3. Entered(rec, f) /\ \A n \in HeardIn(old) : ~Open(rec, f, FALSE, n) /\ IsSeq(n)
  <2>1. (pc[c] = "below") = FALSE
    BY <1>2
  <2> QED BY <1>0, <1>2, <2>1, OnceEntered DEF Once
<1>4. /\ IsFrame(f)
      /\ g.param = f.param /\ g.at = f.at /\ g.ids = f.ids /\ g.i = f.i /\ g.kid = 0
  BY <1>1, <1>3 DEF Entered, IsFrame
<1>5. Same(f, g) /\ AtItem(g) /\ Base(g) = Base(f) /\ \A n : Ahead(g, n) <=> Ahead(f, n)
  <2>1. Same(f, g)
    BY <1>4 DEF Same
  <2> QED BY <1>3, <2>1, SameFrame DEF Entered
<1>6. Entered(rec, g)
  <2>1. IsFrame(g)
    BY <1>1, <1>4 DEF IsFrame
  <2> QED BY <1>3, <1>4, <1>5, <2>1 DEF Entered
<1>7. \A n \in HeardIn(old) : ~After(rec, g, n) /\ ~Ahead(g, n)
  BY <1>3, <1>5, <1>6, AfterIsAhead DEF Open
<1>8. CASE a.status # 0
  <2>1. \A n \in HeardIn(notes[c]) : ~Open(job[c].recursive, g, "below" = "below", n)
    BY <1>0, <1>7 DEF Open
  <2>2. notes'[c] = notes[c]
    BY <1>2, <1>8
  <2> QED BY <1>0, <1>2, <1>4, <1>5, <2>1, <2>2, OnceGoto
<1>9. CASE a.status = 0
  <2>0. PICK n, s, t, below : /\ n = Results(c, a) /\ s = stack[c] /\ t = stack'[c]
                              /\ below = (pc[c] = "below")
    OBVIOUS
  <2>1. notes'[c] = Append(old, n) /\ IsSeq(old) /\ EachOnce(old)
    BY <1>0, <1>2, <1>9, <2>0 DEF Once, Inv, ClientTypes
  <2>2. n.object = IF a.got THEN AskedObject(c) ELSE <<>>
    BY <2>0 DEF Results
  <2>3. /\ pc'[c] = "below" /\ Len(t) = Len(s) /\ g = t[Len(s)]
        /\ \A k \in 1..Len(s) - 1 : t[k] = s[k]
    BY <1>2, <2>0, GotoStack
  <2>9. PICK more, after : more = HeardIn(old) \cup ({n.object} \ {<<>>}) /\ after = TRUE
    OBVIOUS
  <2>4. ASSUME n.object \notin HeardIn(old), \A x \in more : IsSeq(x), FramesOnce(rec, t, after, more)
        PROVE  Once(c)'
    <3>1. PICK new : new = notes'[c]
      OBVIOUS
    <3>2. IsSeq(new) /\ EachOnce(new) /\ HeardIn(new) = more
      BY <2>1, <2>4, <2>9, <3>1, HeardMore
    <3>3. FramesOnce(rec, t, "below" = "below", HeardIn(new))
      BY <2>4, <2>9, <3>2
    <3> QED BY <1>0, <1>2, <2>0, <2>3, <2>4, <3>1, <3>2, <3>3 DEF Once
  <2>5. CASE job[c].op # "set"
    <3>1. n.object \in {<<>>, Base(f)}
      BY <1>0, <1>2, <2>2, <2>5, AskedIs
    <3>2. IsSeq(Base(f)) /\ Under(Base(f), ObjectName(f.param))
      BY <1>3, BaseIs
    <3>3. Ahead(g, Base(f)) /\ ~After(rec, g, Base(f))
      BY <1>5, <1>6, BaseIsAhead, BaseIsNotAfter
    <3>4. n.object \notin HeardIn(old)
      BY <1>7, <3>1, <3>3 DEF HeardIn
    <3>5. \A x \in more : x \in HeardIn(old) \/ x = Base(f)
      BY <2>9, <3>1
    <3>6. \A x \in more : IsSeq(x) /\ ~Open(rec, g, after, x)
      BY <1>3, <1>7, <2>9, <3>2, <3>3, <3>5 DEF Open
    <3>7. \A x \in more : x \in HeardIn(old) \/ (IsSeq(x) /\ Under(x, ObjectName(f.param)))
      BY <3>2, <3>5
    <3>8. AllEntered(rec, s) /\ f = s[Len(s)] /\ FramesOnce(rec, s, below, HeardIn(old))
      BY <1>0, <1>2, <2>0, OnceEntered DEF Once
    <3>9. FramesOnce(rec, t, after, more)
      <4>1. PICK noted : noted = HeardIn(old)
        OBVIOUS
      <4>2. \A x \in more : x \in noted \/ (IsSeq(x) /\ Under(x, ObjectName(f.param)))
        BY <3>7, <4>1
      <4>3. FramesOnce(rec, s, below, noted)
        BY <3>8, <4>1
      <4>4. \A x \in more : ~Open(rec, g, after, x)
        BY <3>6
      <4> QED BY <1>4, <1>5, <2>3, <3>8, <4>2, <4>3, <4>4, ChangedOnce
    <3> QED BY <2>4, <3>4, <3>6, <3>9
  <2>6. CASE job[c].op = "set"
    <3>1. Len(s) = 1 /\ ~rec /\ f.at = "plain" /\ old = <<>>
      BY <1>0, <1>2, <2>0, <2>6, SetAlone DEF Plain, Once
    <3>2. HeardIn(old) = {}
      BY <3>1, SeqEmpty DEF HeardIn
    <3>3. Len(t) = 1 /\ t[1] = g
      BY <2>3, <3>1
    <3>4. IsSeq(AskedObject(c))
      <4>1. Asked(c) = f.param /\ IsSeq(f.param.name)
        BY <1>0, <1>4, <3>1 DEF Asked, IsFrame
      <4> QED BY <4>1, ObjectNameIs DEF AskedObject
    <3>5. \A x \in more : IsSeq(x)
      BY <2>2, <2>9, <3>2, <3>4
    <3>6. \A x : ~After(rec, g, x)
      <4>1. KidsOf(rec, g) = <<>> /\ g.at # "item"
        BY <1>4, <3>1 DEF KidsOf
      <4>2. 1..Len(KidsOf(rec, g)) = {}
        BY <4>1, SeqEmpty
      <4> QED BY <4>1, <4>2 DEF After
    <3>7. FramesOnce(rec, t, after, more)
      <4>1. 1..Len(t) = {1}
        BY <3>3
      <4>2. \A k \in 1..Len(t) : k = 1 /\ t[k] = g
        BY <3>3, <4>1
      <4>3. \A j, k \in 1..Len(t) : ~(j < k)
        BY <4>1
      <4>4. \A k \in 1..Len(t) : \A x \in more : ~Open(rec, t[k], k < Len(t) \/ after, x)
        BY <2>9, <3>6, <4>2 DEF Open
      <4> QED BY <1>5, <4>2, <4>3, <4>4 DEF FramesOnce
    <3> QED BY <2>4, <3>2, <3>5, <3>7
  <2> QED BY <2>5, <2>6
<1> QED BY <1>8, <1>9

LEMMA OnceBelow ==
  ASSUME Databases = 1, Inv, NEW c \in Clients, Once(c), Below(c), job[c].op = "set" => pc'[c] = "done"
  PROVE  Once(c)'
<1>0. PICK f, rec, s, kids, base :
        /\ f = Top(c) /\ rec = job[c].recursive /\ s = stack[c]
        /\ kids = KidsOf(rec, f) /\ base = Base(f)
  OBVIOUS
<1>1. PICK h, g : /\ h = [f EXCEPT !.kid = f.kid + 1]
                  /\ g = Frame(ObjectParam(Append(base, Last(Order[kids[f.kid + 1]]))), "enter")
  OBVIOUS
<1>2. PICK next : next = [f EXCEPT !.i = f.i + 1]
  OBVIOUS
<1>3. /\ pc[c] = "below" /\ job' = job /\ notes'[c] = notes[c]
      /\ IF f.kid < Len(kids)
         THEN /\ stack' = [stack EXCEPT ![c] = Pushed(s, h, g)] /\ pc' = [pc EXCEPT ![c] = "enter"]
         ELSE IF f.at = "item" /\ f.i < Len(f.ids) THEN Goto(c, next, "ask")
         ELSE Return(c, f.ok)
  BY <1>0, <1>1, <1>2 DEF Below, Pushed, Base, KidsOf
<1>4. /\ AllEntered(rec, s) /\ f = s[Len(s)] /\ Len(s) \in 1..Len(s)
      /\ Entered(rec, f) /\ IsFrame(f) /\ f.at # "enter"
      /\ \A n \in HeardIn(notes[c]) : ~After(rec, f, n) /\ IsSeq(n)
  <2>1. (pc[c] = "below") = TRUE
    BY <1>3
  <2>2. \A n \in HeardIn(notes[c]) : ~After(rec, f, n) /\ IsSeq(n)
    BY <1>0, <1>3, <2>1, OnceEntered DEF Once, Open
  <2> QED BY <1>0, <1>3, <2>2, OnceEntered DEF Entered
<1>5. CASE f.kid < Len(kids)
  <2>0. PICK t, noted : t = stack'[c] /\ noted = HeardIn(notes[c])
    OBVIOUS
  <2>1. /\ t = Pushed(s, h, g) /\ pc'[c] = "enter"
    BY <1>3, <1>5, <2>0 DEF Inv, ClientTypes
  <2>2. IsSeq(s) /\ s # <<>>
    BY <1>4 DEF AllEntered
  <2>3. /\ IsSeq(t) /\ t # <<>> /\ Len(t) = Len(s) + 1 /\ \A k \in 1..Len(s) - 1 : t[k] = s[k]
        /\ h = t[Len(s)] /\ g = t[Len(s) + 1]
    BY <2>1, <2>2, SeqPush
  <2>4. Same(f, h) /\ h.kid = f.kid + 1 /\ f.kid \in Nat
    BY <1>1, <1>4 DEF Same, IsFrame
  <2>5. Base(h) = base /\ KidsOf(rec, h) = kids
    BY <1>0, <2>4, SameFrame
  <2>6. Len(kids) \in Nat
    <3>1. CASE rec
      <4>1. ObjectOf(f.param) \in 1..Len(Order)
        <5>1. IsSeq(ObjectName(f.param)) /\ ObjectOf(f.param) # None
          BY <1>4, <3>1, BaseIs DEF Entered
        <5> QED BY <5>1, InfoRange DEF ObjectOf
      <4> QED BY <1>0, <3>1, <4>1, ChildrenAre DEF KidsOf
    <3>2. CASE ~rec
      BY <1>0, <3>2, SeqEmpty DEF KidsOf
    <3> QED BY <3>1, <3>2
  <2>7. h.kid \in 1..Len(KidsOf(rec, h))
    BY <1>5, <2>4, <2>5, <2>6
  <2>8. g.at = "enter" /\ ObjectName(g.param) = Kid(rec, h, h.kid)
    <3>1. PICK name : name = Append(base, Last(Order[kids[f.kid + 1]]))
      OBVIOUS
    <3>2. g.at = "enter" /\ g.param = [name |-> name, wild |-> TRUE]
      BY <1>1, <3>1 DEF Frame, ObjectParam
    <3>3. ObjectName(g.param) = name
      BY <3>2 DEF ObjectName
    <3> QED BY <2>4, <2>5, <3>1, <3>2, <3>3 DEF Kid
  <2>9. FramesOnce(rec, s, TRUE, noted) /\ \A n \in noted : IsSeq(n)
    <3>1. FramesOnce(rec, s, pc[c] = "below", noted)
      BY <1>0, <2>0 DEF Once
    <3>2. (pc[c] = "below") = TRUE
      BY <1>3
    <3> QED BY <1>4, <2>0, <3>1, <3>2
  <2>10. FramesOnce(rec, t, FALSE, noted)
    BY <1>4, <2>3, <2>4, <2>7, <2>8, <2>9, PushedOnce
  <2>11. Top(c)'.at = "enter"
    <3>1. Last(t) = t[Len(t)]
      BY <2>3, SeqFront
    <3>2. Last(t) = g
      BY <2>3, <3>1
    <3> QED BY <2>0, <2>8, <3>2 DEF Top
  <2>12. FramesOnce(rec, t, "enter" = "below", noted)
    BY <2>10
  <2> QED BY <1>0, <1>3, <2>0, <2>1, <2>11, <2>12, OnceKept
<1>6. CASE ~(f.kid < Len(kids)) /\ f.at = "item" /\ f.i < Len(f.ids)
  <2>1. Goto(c, next, "ask")
    BY <1>3, <1>6
  <2>2. /\ next.param = f.param /\ next.at = "item" /\ next.ids = f.ids /\ next.i = f.i + 1
    BY <1>2, <1>4, <1>6 DEF IsFrame
  <2>3. Different(f.ids) /\ f.i \in 1..Len(f.ids) /\ Len(f.ids) \in Nat
    BY <1>4, <1>6 DEF Entered, AtItem, Different
  <2>4. AtItem(next)
    <3>1. f.i + 1 \in 1..Len(f.ids)
      BY <1>6, <2>3
    <3> QED BY <2>2, <2>3, <3>1 DEF AtItem
  <2>5. ASSUME NEW n \in HeardIn(notes[c]) PROVE ~Open(job[c].recursive, next, "ask" = "below", n)
    <3>1. \A x \in 1..Len(f.ids) : next.i <= x => f.i < x
      BY <2>2, <2>3
    <3>2. \A x : Item(next, x) = Item(f, x)
      BY <2>2 DEF Item
    <3>3. ~Ahead(next, n)
      BY <1>4, <1>6, <2>2, <3>1, <3>2 DEF Ahead, After
    <3> QED BY <3>3 DEF Open
  <2>6. pc'[c] = "ask"
    BY <1>3, <2>1, GotoStack
  <2> QED BY <1>0, <1>3, <2>1, <2>2, <2>4, <2>5, <2>6, OnceGoto
<1>7. CASE ~(f.kid < Len(kids)) /\ ~(f.at = "item" /\ f.i < Len(f.ids))
  <2>1. Return(c, f.ok) /\ f.ok \in BOOLEAN
    BY <1>3, <1>4, <1>7 DEF IsFrame
  <2> QED BY <1>3, <2>1, OnceReturn
<1> QED BY <1>5, <1>6, <1>7

LEMMA OnceStep ==
  ASSUME Databases = 1, SetsInv, NEW c \in Clients, Once(c), AnswerDiffers(c), [Next]_vars
  PROVE  Once(c)'
<1>0. Inv /\ Plain(c) /\ job' = job
  BY OthersStep DEF SetsInv, SentOnce
<1>1. job[c].op = "set" => ~Counted(c) /\ (Below(c) => pc'[c] = "done")
  BY <1>0, PlainStep
<1>2. ASSUME stack'[c] = stack[c], notes'[c] = notes[c],
             pc'[c] = pc[c] \/ (pc[c] = "ask" /\ pc'[c] = "wait")
      PROVE  Once(c)'
  <2>1. PICK to : to = pc'[c]
    OBVIOUS
  <2>2. (to = "below") = (pc[c] = "below")
    BY <1>2, <2>1
  <2>3. FramesOnce(job[c].recursive, stack'[c], to = "below", HeardIn(notes[c]))
    BY <1>2, <2>2 DEF Once
  <2>4. to = "enter" => Top(c)'.at = "enter"
    BY <1>2, <2>1 DEF Once, Top
  <2> QED BY <1>0, <1>2, <2>1, <2>3, <2>4, OnceKept
<1>3. ASSUME Ask(c) PROVE Once(c)'
  <2>1. stack' = stack /\ notes' = notes /\ pc[c] = "ask" /\ pc' = [pc EXCEPT ![c] = "wait"]
    BY <1>0, <1>3, AskIs
  <2> QED BY <1>0, <1>2, <2>1 DEF Inv, ClientTypes
<1>4. ASSUME TimesOut(c) PROVE Once(c)'
  BY <1>2, <1>4 DEF TimesOut
<1>5. ASSUME Counted(c) PROVE Once(c)'
  BY <1>0, <1>1, <1>5, OnceCounted
<1>6. ASSUME Below(c) PROVE Once(c)'
  BY <1>0, <1>1, <1>6, OnceBelow
<1>7. \/ ClientStep(c) \/ TimesOut(c)
      \/ stack'[c] = stack[c] /\ pc'[c] = pc[c] /\ notes'[c] = notes[c]
  BY <1>0, OthersStep
<1> QED BY <1>0, <1>2, <1>3, <1>4, <1>5, <1>6, <1>7, OnceEnter, OnceQueried DEF ClientStep

\* However lists and recursion meet, no call reports an object twice: not one that a list
\* and its parent both lead to, not an item whose list changes while its items are asked for.
THEOREM NoObjectIsReportedTwice ==
  ASSUME Databases = 1, MembersAreDeclared, IdsDiffer
  PROVE  Spec => []NotifiedOnce
<1> DEFINE AllOnce == \A c \in Clients : Once(c) /\ AnswerDiffers(c)
<1>1. Init => FieldsDiffer /\ AllOnce
  <2> SUFFICES ASSUME Init PROVE FieldsDiffer /\ AllOnce
    OBVIOUS
  <2>1. FieldsDiffer
    BY DEF Init, IdsDiffer, FieldsDiffer
  <2>2. ASSUME NEW c \in Clients PROVE Once(c) /\ AnswerDiffers(c)
    <3>1. PICK f : f = Frame(job[c].param, "enter")
      OBVIOUS
    <3>2. f.at = "enter"
      BY <3>1 DEF Frame
    <3>3. /\ stack[c] = <<f>> /\ pc[c] = "enter" /\ notes[c] = <<>> /\ answer[c] = <<>>
      BY <3>1 DEF Init
    <3>4. Len(<<f>>) = 1 /\ <<f>>[1] = f /\ Last(<<f>>) = f
      BY DEF Last
    <3>5. HeardIn(notes[c]) = {} /\ IsSeq(notes[c]) /\ EachOnce(notes[c])
      BY <3>3, SeqEmpty DEF HeardIn, EachOnce
    <3>6. FramesOnce(job[c].recursive, stack[c], pc[c] = "below", HeardIn(notes[c]))
      <4>1. \A k \in 1..Len(stack[c]) : k = 1 /\ stack[c][k] = f
        BY <3>3, <3>4
      <4>2. \A j, k \in 1..Len(stack[c]) : ~(j < k)
        BY <3>3, <3>4
      <4>3. AtItem(f)
        BY <3>2 DEF AtItem
      <4> QED BY <3>5, <4>1, <4>2, <4>3 DEF FramesOnce
    <3>7. Top(c).at = "enter"
      BY <3>2, <3>3, <3>4 DEF Top
    <3> QED BY <3>3, <3>5, <3>6, <3>7 DEF Once, AnswerDiffers
  <2> QED BY <2>1, <2>2
<1>2. SetsInv /\ FieldsDiffer /\ AllOnce /\ [Next]_vars => FieldsDiffer' /\ AllOnce'
  <2> SUFFICES ASSUME SetsInv, FieldsDiffer, AllOnce, [Next]_vars PROVE FieldsDiffer' /\ AllOnce'
    OBVIOUS
  <2>1. FieldsDiffer'
    BY FieldsDifferStep
  <2>2. ASSUME NEW c \in Clients PROVE Once(c)' /\ AnswerDiffers(c)'
    BY OnceStep, AnswerDiffersStep
  <2> QED BY <2>1, <2>2
<1>3. AllOnce => NotifiedOnce
  BY DEF Once, EachOnce, NotifiedOnce
<1> HIDE DEF AllOnce
<1> QED BY <1>1, <1>2, <1>3, SetsInvariance, PTL DEF Spec
=============================================================================
