--------------------------- MODULE MessageProofs ---------------------------
(***************************************************************************)
(* Why nothing that was freed is used, nothing that is held is freed and    *)
(* nothing that was given up is left: the trees of the items, and the       *)
(* references to a message counted against its counter.  And why messages   *)
(* are documents: what document is in a tree that grows or is copied.       *)
(***************************************************************************)
EXTENDS Message, SequenceLemmas

-----------------------------------------------------------------------------
(* Trees.  An item comes after the one it is in, so that what is below an   *)
(* item follows by induction over addresses.                                *)

Node == [up : Nat, name : Names \cup {NoName}, val : Vals \cup {None}, live : BOOLEAN]

Shape(h) == Len(h) \in Nat /\ \A k \in 1..Len(h) : h[k].up \in 0..(k - 1)

IsBelow(f, h, r, n) == \A k \in 0..n : f[k] = (k # 0 /\ (k = r \/ f[h[k].up]))

\* The recursion behind Below has a solution.
LEMMA BelowExists ==
  ASSUME NEW h, NEW r, Shape(h)
  PROVE  \E f \in [0..Len(h) -> BOOLEAN] : IsBelow(f, h, r, Len(h))
<1> DEFINE T == {n \in Nat : n <= Len(h) => \E f \in [0..n -> BOOLEAN] : IsBelow(f, h, r, n)}
<1>1. 0 \in T
  <2>1. [k \in 0..0 |-> FALSE] \in [0..0 -> BOOLEAN]
    OBVIOUS
  <2>2. IsBelow([k \in 0..0 |-> FALSE], h, r, 0)
    <3>1. \A k \in 0..0 : k = 0
      OBVIOUS
    <3> QED BY <3>1, Zenon DEF IsBelow
  <2> QED BY <2>1, <2>2
<1>2. ASSUME NEW n \in T PROVE n + 1 \in T
  <2>1. SUFFICES ASSUME n + 1 <= Len(h)
                 PROVE  \E f \in [0..n + 1 -> BOOLEAN] : IsBelow(f, h, r, n + 1)
    OBVIOUS
  <2>2. PICK f \in [0..n -> BOOLEAN] : IsBelow(f, h, r, n)
    BY <2>1 DEF Shape
  <2> DEFINE x == n + 1 = r \/ f[h[n + 1].up]
             g == [k \in 0..n + 1 |-> IF k = n + 1 THEN x ELSE f[k]]
  <2>3. n \in Nat /\ h[n + 1].up \in 0..n
    BY <2>1 DEF Shape
  <2>4. x \in BOOLEAN
    OBVIOUS
  <2>5. g \in [0..n + 1 -> BOOLEAN]
    <3> HIDE DEF x
    <3> QED BY <2>2, <2>3, <2>4
  <2>6. ASSUME NEW k \in 0..n + 1 PROVE g[k] = (k # 0 /\ (k = r \/ g[h[k].up]))
    <3>1. CASE k = n + 1
      <4>1. g[h[k].up] = f[h[k].up]
        BY <2>3, <3>1
      <4>2. g[k] = x /\ k # 0
        BY <2>3, <3>1
      <4> QED BY <3>1, <4>1, <4>2
    <3>2. CASE k # n + 1
      <4>1. k \in 0..n /\ g[k] = f[k]
        BY <2>3, <3>2
      <4>2. k # 0 => h[k].up \in 0..n /\ g[h[k].up] = f[h[k].up]
        BY <2>1, <2>3, <4>1 DEF Shape
      <4>3. f[k] = (k # 0 /\ (k = r \/ f[h[k].up]))
        BY <2>2, <4>1 DEF IsBelow
      <4> QED BY <4>1, <4>2, <4>3
    <3> QED BY <3>1, <3>2
  <2> HIDE DEF g
  <2> QED BY <2>5, <2>6 DEF IsBelow
<1>3. Len(h) \in T
  <2> HIDE DEF T
  <2>1. Nat \subseteq T
    BY <1>1, <1>2, NatSetInduction
  <2> QED BY <2>1 DEF Shape
<1> QED BY <1>3 DEF Shape

\* What is below an item: itself, and what is in something that is.
LEMMA BelowIs ==
  ASSUME NEW h, NEW r, Shape(h)
  PROVE  /\ Below(h, r) \subseteq 1..Len(h)
         /\ \A k \in 1..Len(h) : k \in Below(h, r) <=> k = r \/ h[k].up \in Below(h, r)
<1> DEFINE n == Len(h)
           def(g) == [k \in 0..n |-> k # 0 /\ (k = r \/ g[h[k].up])]
           below == CHOOSE g : g = def(g)
<1>1. PICK f \in [0..n -> BOOLEAN] : IsBelow(f, h, r, n)
  BY BelowExists
<1>2. f = def(f)
  BY <1>1 DEF IsBelow
<1>3. below = def(below)
  BY <1>2
<1>4. Below(h, r) = {k \in 1..n : below[k]}
  BY DEF Below
<1> HIDE DEF below
<1>5. \A k \in 0..n : below[k] = (k # 0 /\ (k = r \/ below[h[k].up]))
  BY <1>3
<1>6. n \in Nat /\ \A k \in 1..n : h[k].up \in 0..(k - 1)
  BY DEF Shape
<1> HIDE DEF n
<1>7. ~below[0]
  <2>1. 0 \in 0..n
    BY <1>6
  <2>2. below[0] = (0 # 0 /\ (0 = r \/ below[h[0].up]))
    BY <1>5, <2>1
  <2> QED BY <2>2
<1>8. ASSUME NEW k \in 1..n PROVE k \in Below(h, r) <=> k = r \/ h[k].up \in Below(h, r)
  <2>1. h[k].up \in 0..n /\ k \in 0..n /\ k # 0
    BY <1>6
  <2>2. h[k].up \in Below(h, r) <=> below[h[k].up]
    BY <1>4, <1>7, <2>1
  <2>3. k \in Below(h, r) <=> below[k]
    BY <1>4
  <2>4. below[k] = (k # 0 /\ (k = r \/ below[h[k].up]))
    BY <1>5, <2>1
  <2> QED BY <2>1, <2>2, <2>3, <2>4
<1> QED BY <1>4, <1>8 DEF n

\* The item itself is below it, and nothing that comes before it.
LEMMA BelowLow ==
  ASSUME NEW h, Shape(h), NEW r \in 1..Len(h)
  PROVE  r \in Below(h, r) /\ \A k \in Below(h, r) : r <= k
<1> DEFINE T == {n \in Nat : \A k \in Below(h, r) : k <= n => r <= k}
<1>0. /\ Below(h, r) \subseteq 1..Len(h)
      /\ \A k \in 1..Len(h) : k \in Below(h, r) <=> k = r \/ h[k].up \in Below(h, r)
      /\ Len(h) \in Nat /\ \A k \in 1..Len(h) : h[k].up \in 0..(k - 1)
  BY BelowIs DEF Shape
<1>1. 0 \in T
  BY <1>0
<1>2. ASSUME NEW n \in T PROVE n + 1 \in T
  <2>1. SUFFICES ASSUME NEW k \in Below(h, r), k = n + 1, k # r PROVE r <= k
    BY <1>0
  <2>2. h[k].up \in Below(h, r) /\ h[k].up <= n
    BY <1>0, <2>1
  <2>3. r <= h[k].up
    BY <2>2
  <2> QED BY <1>0, <2>1, <2>2, <2>3
<1>3. Nat \subseteq T
  <2> HIDE DEF T
  <2> QED BY <1>1, <1>2, NatSetInduction
<1>4. ASSUME NEW k \in Below(h, r) PROVE r <= k
  <2>1. k \in T
    BY <1>0, <1>3
  <2> QED BY <1>0, <2>1
<1> QED BY <1>0, <1>4

\* What is below something that is below r is below r; the whole tree of r is as
\* its root is, if every item is as the one it is in; two roots have nothing in common.
LEMMA BelowDeep ==
  ASSUME NEW h, Shape(h), NEW r \in 1..Len(h), NEW s \in Below(h, r)
  PROVE  Below(h, s) \subseteq Below(h, r)
<1> DEFINE T == {n \in Nat : \A k \in Below(h, s) : k <= n => k \in Below(h, r)}
<1>0. /\ Len(h) \in Nat /\ \A k \in 1..Len(h) : h[k].up \in 0..(k - 1)
      /\ Below(h, s) \subseteq 1..Len(h)
      /\ \A k \in 1..Len(h) : k \in Below(h, s) <=> k = s \/ h[k].up \in Below(h, s)
      /\ \A k \in 1..Len(h) : k \in Below(h, r) <=> k = r \/ h[k].up \in Below(h, r)
  BY BelowIs DEF Shape
<1>1. 0 \in T
  BY <1>0
<1>2. ASSUME NEW n \in T PROVE n + 1 \in T
  <2>1. SUFFICES ASSUME NEW k \in Below(h, s), k = n + 1, k # s PROVE k \in Below(h, r)
    BY <1>0
  <2>2. h[k].up \in Below(h, s) /\ h[k].up <= n
    BY <1>0, <2>1
  <2>3. h[k].up \in Below(h, r)
    BY <2>2
  <2> QED BY <1>0, <2>1, <2>3
<1>3. Nat \subseteq T
  <2> HIDE DEF T
  <2> QED BY <1>1, <1>2, NatSetInduction
<1> QED BY <1>0, <1>3

LEMMA TreeAlike ==
  ASSUME NEW h, Shape(h), NEW r \in 1..Len(h),
         \A k \in 1..Len(h) : h[k].up # 0 => (h[k].live <=> h[h[k].up].live)
  PROVE  \A k \in Below(h, r) : h[k].live <=> h[r].live
<1> DEFINE T == {n \in Nat : \A k \in Below(h, r) : k <= n => (h[k].live <=> h[r].live)}
<1>0. /\ Len(h) \in Nat /\ \A k \in 1..Len(h) : h[k].up \in 0..(k - 1)
      /\ Below(h, r) \subseteq 1..Len(h)
      /\ \A k \in 1..Len(h) : k \in Below(h, r) <=> k = r \/ h[k].up \in Below(h, r)
  BY BelowIs DEF Shape
<1>1. 0 \in T
  BY <1>0
<1>2. ASSUME NEW n \in T PROVE n + 1 \in T
  <2>1. SUFFICES ASSUME NEW k \in Below(h, r), k = n + 1, k # r PROVE h[k].live <=> h[r].live
    BY <1>0
  <2>2. h[k].up \in Below(h, r) /\ h[k].up <= n /\ h[k].up # 0 /\ k \in 1..Len(h)
    BY <1>0, <2>1
  <2>3. h[h[k].up].live <=> h[r].live
    BY <2>2
  <2> QED BY <2>2, <2>3
<1>3. Nat \subseteq T
  <2> HIDE DEF T
  <2> QED BY <1>1, <1>2, NatSetInduction
<1> QED BY <1>0, <1>3

LEMMA TreesApart ==
  ASSUME NEW h, Shape(h), NEW r \in 1..Len(h), NEW s \in 1..Len(h),
         h[r].up = 0, h[s].up = 0, r # s
  PROVE  Below(h, r) \cap Below(h, s) = {}
<1> DEFINE T == {n \in Nat : \A k \in Below(h, r) : k <= n => k \notin Below(h, s)}
<1>0. /\ Len(h) \in Nat /\ \A k \in 1..Len(h) : h[k].up \in 0..(k - 1)
      /\ Below(h, r) \subseteq 1..Len(h)
      /\ Below(h, s) \subseteq 1..Len(h)
      /\ \A k \in 1..Len(h) : k \in Below(h, s) <=> k = s \/ h[k].up \in Below(h, s)
      /\ \A k \in 1..Len(h) : k \in Below(h, r) <=> k = r \/ h[k].up \in Below(h, r)
  BY BelowIs DEF Shape
<1>1. 0 \in T
  BY <1>0
<1>2. ASSUME NEW n \in T PROVE n + 1 \in T
  <2>1. SUFFICES ASSUME NEW k \in Below(h, r), k = n + 1, k \in Below(h, s) PROVE FALSE
    BY <1>0
  <2>2. k # r /\ k # s /\ h[k].up # 0
    <3>1. 0 \notin Below(h, r) /\ 0 \notin Below(h, s) /\ k \in 1..Len(h)
      BY <1>0
    <3>2. h[r].up = 0 /\ h[s].up = 0 /\ (k # r \/ k # s)
      OBVIOUS
    <3>3. (k = r \/ h[k].up \in Below(h, r)) /\ (k = s \/ h[k].up \in Below(h, s))
      BY <1>0, <2>1, <3>1
    <3> QED BY <3>1, <3>2, <3>3
  <2>3. h[k].up \in Below(h, r) /\ h[k].up \in Below(h, s) /\ h[k].up <= n
    BY <1>0, <2>1, <2>2
  <2> QED BY <2>3
<1>3. Nat \subseteq T
  <2> HIDE DEF T
  <2> QED BY <1>1, <1>2, NatSetInduction
<1> QED BY <1>0, <1>3

-----------------------------------------------------------------------------
(* Growth: a tree is added under an item, or, under 0, as a root.           *)

Alike(h) == \A k \in 1..Len(h) : h[k].up # 0 => (h[k].live <=> h[h[k].up].live)

HeapOK(h) == h \in Seq(Node) /\ Shape(h) /\ Alike(h)

NewItems(h, g) == (Len(h) + 1)..Len(g)

Grown(h, g, up) ==
  /\ g \in Seq(Node) /\ Len(h) < Len(g)
  /\ \A k \in 1..Len(h) : g[k] = h[k]
  /\ g[Len(h) + 1].up = up
  /\ \A k \in NewItems(h, g) : g[k].live /\ (k # Len(h) + 1 => g[k].up \in (Len(h) + 1)..(k - 1))

\* The grown heap is well-formed if the tree was added under something live.
LEMMA GrownHeap ==
  ASSUME NEW h, HeapOK(h), NEW up \in 0..Len(h), up = 0 \/ h[up].live,
         NEW g, Grown(h, g, up)
  PROVE  HeapOK(g)
<1>0. /\ Len(h) \in Nat /\ \A k \in 1..Len(h) : h[k].up \in 0..(k - 1)
      /\ Len(g) \in Nat /\ Len(h) < Len(g) /\ up \in Nat /\ up <= Len(h)
  BY LenProperties DEF HeapOK, Shape, Grown
<1>1. ASSUME NEW k \in 1..Len(g), k <= Len(h)
      PROVE  g[k].up \in 0..(k - 1) /\ (g[k].up # 0 => (g[k].live <=> g[g[k].up].live))
  <2>1. k \in 1..Len(h) /\ g[k] = h[k] /\ h[k].up \in 0..(k - 1)
    BY <1>0, <1>1 DEF Grown
  <2>2. h[k].up # 0 => h[k].up \in 1..Len(h)
    BY <1>0, <2>1
  <2>3. h[k].up # 0 => g[h[k].up] = h[h[k].up] /\ (h[k].live <=> h[h[k].up].live)
    BY <2>1, <2>2 DEF Grown, HeapOK, Alike
  <2> QED BY <2>1, <2>3
<1>2. ASSUME NEW k \in 1..Len(g), ~(k <= Len(h))
      PROVE  g[k].up \in 0..(k - 1) /\ (g[k].up # 0 => (g[k].live <=> g[g[k].up].live))
  <2>1. k \in NewItems(h, g) /\ g[k].live
    BY <1>0, <1>2 DEF Grown, NewItems
  <2>2. CASE k = Len(h) + 1
    <3>1. g[k].up = up /\ (up # 0 => up \in 1..Len(h) /\ g[up] = h[up])
      BY <1>0, <2>2 DEF Grown
    <3> QED BY <1>0, <2>1, <2>2, <3>1
  <2>3. CASE k # Len(h) + 1
    <3>1. g[k].up \in (Len(h) + 1)..(k - 1)
      BY <2>1, <2>3 DEF Grown
    <3>2. g[k].up \in NewItems(h, g) /\ g[k].up \in 0..(k - 1)
      BY <1>0, <3>1 DEF NewItems
    <3>3. g[g[k].up].live
      BY <3>2 DEF Grown
    <3> QED BY <2>1, <3>2, <3>3
  <2> QED BY <2>2, <2>3
<1>3. Shape(g) /\ Alike(g)
  BY <1>0, <1>1, <1>2 DEF Shape, Alike
<1> QED BY <1>3 DEF HeapOK, Grown

\* The new items are below what they were added under and no other root.
LEMMA GrownBelow ==
  ASSUME NEW h, Shape(h), NEW up \in 0..Len(h), NEW g, Shape(g), Grown(h, g, up),
         NEW r \in 1..Len(h)
  PROVE  /\ \A k \in 1..Len(h) : k \in Below(g, r) <=> k \in Below(h, r)
         /\ \A k \in NewItems(h, g) : k \in Below(g, r) <=> up \in Below(h, r)
<1>0. /\ Len(h) \in Nat /\ \A k \in 1..Len(h) : h[k].up \in 0..(k - 1)
      /\ Len(g) \in Nat /\ Len(h) < Len(g) /\ up \in Nat /\ up <= Len(h)
      /\ Below(h, r) \subseteq 1..Len(h)
      /\ Below(g, r) \subseteq 1..Len(g)
      /\ \A k \in 1..Len(h) : k \in Below(h, r) <=> k = r \/ h[k].up \in Below(h, r)
      /\ \A k \in 1..Len(g) : k \in Below(g, r) <=> k = r \/ g[k].up \in Below(g, r)
  <2>1. /\ Len(h) \in Nat /\ \A k \in 1..Len(h) : h[k].up \in 0..(k - 1)
        /\ Len(g) \in Nat /\ Len(h) < Len(g) /\ up \in Nat /\ up <= Len(h)
    BY DEF Shape, Grown
  <2> QED BY <2>1, BelowIs
<1>1. \A k \in 1..Len(h) : k \in 1..Len(g) /\ g[k] = h[k]
  BY <1>0 DEF Grown
<1> DEFINE T == {n \in Nat : \A k \in 0..Len(h) : k <= n => (k \in Below(g, r) <=> k \in Below(h, r))}
<1>2. 0 \in T
  BY <1>0
<1>3. ASSUME NEW n \in T PROVE n + 1 \in T
  <2>1. SUFFICES ASSUME NEW k \in 0..Len(h), k = n + 1
                 PROVE  k \in Below(g, r) <=> k \in Below(h, r)
    BY <1>0
  <2>2. k \in 1..Len(h) /\ h[k].up \in 0..Len(h) /\ h[k].up <= n
    BY <1>0, <2>1
  <2>3. h[k].up \in Below(g, r) <=> h[k].up \in Below(h, r)
    BY <2>2
  <2>4. /\ k \in Below(h, r) <=> k = r \/ h[k].up \in Below(h, r)
        /\ k \in Below(g, r) <=> k = r \/ g[k].up \in Below(g, r)
        /\ g[k] = h[k]
    BY <1>0, <1>1, <2>2
  <2> QED BY <2>3, <2>4
<1>4. Nat \subseteq T
  <2> HIDE DEF T
  <2> QED BY <1>2, <1>3, NatSetInduction
<1>5. \A k \in 0..Len(h) : k \in Below(g, r) <=> k \in Below(h, r)
  BY <1>0, <1>4
<1> HIDE DEF T
<1> DEFINE U == {n \in Nat : \A k \in NewItems(h, g) : k <= n => (k \in Below(g, r) <=> up \in Below(h, r))}
<1>6. 0 \in U
  BY <1>0 DEF NewItems
<1>7. ASSUME NEW n \in U PROVE n + 1 \in U
  <2>n. n \in Nat /\ \A k \in NewItems(h, g) : k \in Nat
    BY <1>0 DEF NewItems
  <2>1. SUFFICES ASSUME NEW k \in NewItems(h, g), k = n + 1
                 PROVE  k \in Below(g, r) <=> up \in Below(h, r)
    <3>1. \A k \in NewItems(h, g) : k <= n + 1 => k <= n \/ k = n + 1
      BY <2>n
    <3> QED BY <2>n, <3>1
  <2>2. k \in 1..Len(g) /\ k # r /\ k \in Nat
    BY <1>0 DEF NewItems
  <2>3. k \in Below(g, r) <=> g[k].up \in Below(g, r)
    BY <1>0, <2>2
  <2>4. CASE k = Len(h) + 1
    BY <1>0, <1>5, <2>3, <2>4 DEF Grown
  <2>5. CASE k # Len(h) + 1
    <3>1. g[k].up \in (Len(h) + 1)..(k - 1)
      BY <2>5 DEF Grown
    <3>2. g[k].up \in NewItems(h, g) /\ g[k].up <= n
      BY <1>0, <2>1, <2>2, <3>1 DEF NewItems
    <3> QED BY <2>3, <3>2
  <2> QED BY <2>4, <2>5
<1>8. Nat \subseteq U
  <2> HIDE DEF U
  <2> QED BY <1>6, <1>7, NatSetInduction
<1>9. ASSUME NEW k \in NewItems(h, g) PROVE k \in Below(g, r) <=> up \in Below(h, r)
  <2>1. k \in Nat /\ k <= k
    BY <1>0 DEF NewItems
  <2> QED BY <1>8, <2>1
<1> HIDE DEF U
<1> QED BY <1>5, <1>9

LEMMA GrownRoot ==
  ASSUME NEW h, Shape(h), NEW up \in 0..Len(h), NEW g, Shape(g), Grown(h, g, up)
  PROVE  Below(g, Len(h) + 1) = NewItems(h, g)
<1> DEFINE r == Len(h) + 1
<1>0. /\ Len(h) \in Nat /\ Len(g) \in Nat /\ Len(h) < Len(g) /\ r \in 1..Len(g)
      /\ Below(g, r) \subseteq 1..Len(g)
      /\ \A k \in 1..Len(g) : k \in Below(g, r) <=> k = r \/ g[k].up \in Below(g, r)
  <2>1. Len(h) \in Nat /\ Len(g) \in Nat /\ Len(h) < Len(g) /\ r \in 1..Len(g)
    BY DEF Shape, Grown
  <2> HIDE DEF r
  <2>2. /\ Below(g, r) \subseteq 1..Len(g)
        /\ \A k \in 1..Len(g) : k \in Below(g, r) <=> k = r \/ g[k].up \in Below(g, r)
    BY BelowIs
  <2> QED BY <2>1, <2>2
<1>1. \A k \in Below(g, r) : r <= k
  BY <1>0, BelowLow
<1> DEFINE U == {n \in Nat : \A k \in NewItems(h, g) : k <= n => k \in Below(g, r)}
<1>6. 0 \in U
  BY <1>0 DEF NewItems
<1>7. ASSUME NEW n \in U PROVE n + 1 \in U
  <2>1. SUFFICES ASSUME NEW k \in NewItems(h, g), k = n + 1, k # r
                 PROVE  k \in Below(g, r)
    BY <1>0 DEF NewItems
  <2>2. k \in 1..Len(g) /\ k \in Nat /\ g[k].up \in (Len(h) + 1)..(k - 1)
    BY <1>0, <2>1 DEF NewItems, Grown
  <2>3. g[k].up \in NewItems(h, g) /\ g[k].up <= n
    BY <1>0, <2>1, <2>2 DEF NewItems
  <2> QED BY <1>0, <2>2, <2>3
<1>8. Nat \subseteq U
  <2> HIDE DEF U
  <2> QED BY <1>6, <1>7, NatSetInduction
<1>9. ASSUME NEW k \in NewItems(h, g) PROVE k \in Below(g, r)
  <2>1. k \in Nat /\ k <= k
    BY <1>0 DEF NewItems
  <2> QED BY <1>8, <2>1
<1>10. ASSUME NEW k \in Below(g, r) PROVE k \in NewItems(h, g)
  BY <1>0, <1>1 DEF NewItems
<1> QED BY <1>9, <1>10

-----------------------------------------------------------------------------
(* Copies: the items of a tree, in their order, numbered from 1.            *)

LEMMA FunctionIsSeq ==
  ASSUME NEW S, NEW n \in Nat, NEW f \in [1..n -> S]
  PROVE  f \in Seq(S) /\ Len(f) = n
OBVIOUS

\* Every place is taken, and the order of the places is that of the addresses.
LEMMA Places ==
  ASSUME NEW N \in Nat, NEW S \in SUBSET (1..N)
  PROVE  /\ IsFiniteSet(S) /\ Cardinality(S) \in Nat
         /\ \A k \in S : Place(S, k) \in 1..Cardinality(S)
         /\ \A j, k \in S : j < k => Place(S, j) < Place(S, k)
         /\ \A n \in 1..Cardinality(S) : \E k \in S : Place(S, k) = n
<1> DEFINE upTo(k) == {j \in S : j <= k}
<1>a. \A j \in S : j \in Nat /\ 1 <= j /\ j <= N
  OBVIOUS
<1>0. IsFiniteSet(S) /\ Cardinality(S) \in Nat
  <2>1. IsFiniteSet(1..N)
    BY FS_Interval
  <2> QED BY <2>1, FS_Subset, FS_CardinalityType
<1>1. \A k : IsFiniteSet(upTo(k)) /\ Cardinality(upTo(k)) \in Nat
             /\ Cardinality(upTo(k)) <= Cardinality(S)
  BY <1>0, FS_Subset, FS_CardinalityType
<1>2. ASSUME NEW k \in S PROVE Cardinality(upTo(k)) \in 1..Cardinality(S)
  <2>1. k \in upTo(k)
    OBVIOUS
  <2>2. Cardinality(upTo(k)) # 0
    BY <1>1, <2>1, FS_EmptySet
  <2> QED BY <1>0, <1>1, <2>2
<1>3. ASSUME NEW j \in S, NEW k \in S, j < k PROVE Cardinality(upTo(j)) < Cardinality(upTo(k))
  <2>1. upTo(j) \subseteq upTo(k)
    <3> SUFFICES ASSUME NEW i \in S, i <= j PROVE i <= k
      OBVIOUS
    <3>1. i \in Nat /\ j \in Nat /\ k \in Nat
      BY <1>a
    <3> QED BY <1>3, <3>1
  <2>2. k \in upTo(k) /\ k \notin upTo(j)
    BY <1>3
  <2>3. upTo(j) # upTo(k)
    BY <2>2
  <2> HIDE DEF upTo
  <2>4. Cardinality(upTo(j)) <= Cardinality(upTo(k))
        /\ (Cardinality(upTo(j)) = Cardinality(upTo(k)) => upTo(j) = upTo(k))
    BY <1>1, <2>1, FS_Subset
  <2> QED BY <1>1, <2>3, <2>4
<1> DEFINE T == {m \in Nat : \A n \in 1..Cardinality(upTo(m)) : \E k \in S : Cardinality(upTo(k)) = n}
<1>4. 0 \in T
  <2>1. upTo(0) = {}
    <3> SUFFICES ASSUME NEW j \in S, j <= 0 PROVE FALSE
      OBVIOUS
    <3>1. j \in Nat /\ 1 <= j
      BY <1>a
    <3> QED BY <3>1
  <2> QED BY <2>1, FS_EmptySet
<1>5. ASSUME NEW m \in T PROVE m + 1 \in T
  <2>1. CASE m + 1 \in S
    <3>1. upTo(m + 1) = upTo(m) \cup {m + 1} /\ m + 1 \notin upTo(m)
      <4>1. \A j \in S : j <= m + 1 <=> j <= m \/ j = m + 1
        <5> SUFFICES ASSUME NEW j \in S PROVE j <= m + 1 <=> j <= m \/ j = m + 1
          OBVIOUS
        <5>1. j \in Nat /\ m \in Nat
          BY <1>a
        <5> QED BY <5>1
      <4>2. m + 1 \in upTo(m + 1) /\ m + 1 \notin upTo(m)
        <5>1. m \in Nat
          OBVIOUS
        <5> QED BY <2>1, <5>1
      <4> QED BY <4>1, <4>2
    <3>2. Cardinality(upTo(m + 1)) = Cardinality(upTo(m)) + 1
      <4> HIDE DEF upTo
      <4> QED BY <1>1, <3>1, FS_AddElement
    <3>3. ASSUME NEW n \in 1..Cardinality(upTo(m + 1))
          PROVE  \E k \in S : Cardinality(upTo(k)) = n
      <4> HIDE DEF upTo
      <4>1. CASE n = Cardinality(upTo(m)) + 1
        BY <2>1, <3>2, <4>1
      <4>2. CASE n # Cardinality(upTo(m)) + 1
        <5>1. n \in 1..Cardinality(upTo(m))
          BY <1>1, <3>2, <4>2
        <5> QED BY <5>1
      <4> QED BY <4>1, <4>2
    <3> HIDE DEF upTo
    <3> QED BY <3>3
  <2>2. CASE m + 1 \notin S
    <3>1. upTo(m + 1) = upTo(m)
      <4>1. \A j \in S : j <= m + 1 <=> j <= m
        BY <1>a, <2>2
      <4> QED BY <4>1
    <3> HIDE DEF upTo
    <3> QED BY <3>1
  <2> QED BY <2>1, <2>2
<1>6. Nat \subseteq T
  <2> HIDE DEF T
  <2> QED BY <1>4, <1>5, NatSetInduction
<1>7. upTo(N) = S
  BY <1>a
<1>8. \A n \in 1..Cardinality(S) : \E k \in S : Cardinality(upTo(k)) = n
  <2> HIDE DEF upTo
  <2> QED BY <1>6, <1>7
<1>9. \A k : Place(S, k) = Cardinality(upTo(k))
  BY DEF Place
<1> HIDE DEF upTo, T
<1> QED BY <1>0, <1>2, <1>3, <1>8, <1>9

IsTree(d) ==
  /\ d \in Seq(Node) /\ d # <<>>
  /\ \A n \in 1..Len(d) : d[n].live /\ (n # 1 => d[n].up \in 1..(n - 1))

\* cJSON_Duplicate gives a tree.
LEMMA DuplicateIsTree ==
  ASSUME HeapOK(heap), NEW r \in 1..Len(heap), heap[r].live
  PROVE  IsTree(Duplicate(r))
<1> DEFINE tree == {k \in Below(heap, r) : heap[k].live}
           order == Ordered(tree)
           d == [n \in 1..Cardinality(tree) |-> [heap[order[n]] EXCEPT !.up = Place(tree, @)]]
<1>0. /\ Len(heap) \in Nat /\ \A k \in 1..Len(heap) : heap[k].up \in 0..(k - 1)
      /\ \A k \in 1..Len(heap) : heap[k] \in Node
      /\ \A k \in 1..Len(heap) : heap[k].up # 0 => (heap[k].live <=> heap[heap[k].up].live)
  BY ElementOfSeq DEF HeapOK, Shape, Alike
<1>1. /\ Below(heap, r) \subseteq 1..Len(heap)
      /\ \A k \in 1..Len(heap) : k \in Below(heap, r) <=> k = r \/ heap[k].up \in Below(heap, r)
      /\ r \in Below(heap, r) /\ \A k \in Below(heap, r) : r <= k
  BY BelowIs, BelowLow DEF HeapOK
<1>2. tree \in SUBSET (1..Len(heap)) /\ r \in tree /\ \A k \in tree : r <= k
  BY <1>1
<1>3. ASSUME NEW k \in tree, k # r PROVE heap[k].up \in tree /\ heap[k].up < k
  <2>1. k \in 1..Len(heap) /\ heap[k].up \in Below(heap, r) /\ heap[k].up # 0
    BY <1>0, <1>1, <1>3
  <2>2. heap[heap[k].up].live
    BY <1>0, <1>3, <2>1
  <2> QED BY <1>0, <2>1, <2>2
<1>4. \A k \in tree : heap[k].live
  OBVIOUS
<1> DEFINE c == Cardinality(tree)
<1> HIDE DEF tree
<1>5. /\ c \in Nat
      /\ \A k \in tree : Place(tree, k) \in 1..c
      /\ \A j, k \in tree : j < k => Place(tree, j) < Place(tree, k)
      /\ \A n \in 1..c : \E k \in tree : Place(tree, k) = n
  BY <1>0, <1>2, Places
<1>6. ASSUME NEW n \in 1..c PROVE order[n] \in tree /\ Place(tree, order[n]) = n
  BY <1>5 DEF Ordered
<1>7. c # 0
  BY <1>2, <1>5
<1> HIDE DEF c
<1>8. ASSUME NEW n \in 1..c
      PROVE  LET e == [heap[order[n]] EXCEPT !.up = Place(tree, @)]
             IN  e \in Node /\ e.live /\ (n # 1 => e.up \in 1..(n - 1))
  <2> DEFINE k == order[n]
             e == [heap[k] EXCEPT !.up = Place(tree, @)]
  <2>1. k \in tree /\ Place(tree, k) = n /\ heap[k] \in Node /\ heap[k].live
    BY <1>0, <1>2, <1>4, <1>6
  <2> HIDE DEF k
  <2>2. e.up = Place(tree, heap[k].up) /\ e.live = heap[k].live
        /\ (Place(tree, heap[k].up) \in Nat => e \in Node)
    BY <2>1 DEF Node
  <2>3. CASE k # r
    <3>1. Place(tree, heap[k].up) \in 1..c /\ Place(tree, heap[k].up) < n
      BY <1>3, <1>5, <2>1, <2>3
    <3> QED BY <1>5, <2>1, <2>2, <3>1 DEF k
  <2>4. CASE k = r
    <3>1. n = 1
      <4>1. PICK j \in tree : Place(tree, j) = 1
        BY <1>5, <1>7
      <4>2. ~(r < j)
        BY <1>5, <1>2, <2>1, <2>4, <4>1
      <4> QED BY <1>0, <1>2, <2>1, <2>4, <4>1, <4>2
    <3>2. Place(tree, heap[k].up) = 0
      <4>1. {j \in tree : j <= heap[k].up} = {}
        <5>1. heap[k].up < r /\ heap[k].up \in Nat /\ r \in Nat
          BY <1>0, <2>4
        <5>2. ASSUME NEW j \in tree PROVE ~(j <= heap[k].up)
          <6>1. j \in 1..Len(heap) /\ r <= j
            BY <1>2
          <6> QED BY <1>0, <5>1, <6>1
        <5> QED BY <5>2
      <4> QED BY <4>1, FS_EmptySet DEF Place
    <3> QED BY <2>1, <2>2, <3>1, <3>2 DEF k
  <2> QED BY <2>3, <2>4
<1>9. Duplicate(r) = d
  BY DEF Duplicate, tree, c
<1>10. /\ Len(d) = c /\ d \in Seq(Node) /\ d # <<>>
       /\ \A n \in 1..c : d[n] = [heap[order[n]] EXCEPT !.up = Place(tree, @)]
  <2>1. d \in [1..c -> Node]
    BY <1>8 DEF c
  <2>2. /\ d \in Seq(Node) /\ Len(d) = c
    <3> HIDE DEF d
    <3> QED BY <1>5, <2>1, FunctionIsSeq
  <2>3. d # <<>>
    <3> HIDE DEF d
    <3> QED BY <1>7, <2>2, EmptySeq
  <2> QED BY <2>2, <2>3 DEF c
<1> HIDE DEF d, order
<1> QED BY <1>8, <1>9, <1>10, ZenonT(60) DEF IsTree

\* Adding a tree makes the heap grow by it.
LEMMA AddedGrows ==
  ASSUME NEW h, HeapOK(h), NEW d, IsTree(d), NEW up \in 0..Len(h), NEW name \in Names \cup {NoName}
  PROVE  Grown(h, Added(h, d, up, name), up) /\ Len(Added(h, d, up, name)) = Len(h) + Len(d)
<1> DEFINE n == Len(h)
           m == Len(d)
           e(j) == IF j = 1 THEN Item(up, name, d[j].val) ELSE [d[j] EXCEPT !.up = @ + n]
           t == [j \in 1..m |-> e(j)]
<1>0. /\ n \in Nat /\ up \in Nat /\ h \in Seq(Node)
      /\ m \in Nat \ {0} /\ \A j \in 1..m : d[j] \in Node
  <2>1. n \in Nat /\ up \in Nat /\ h \in Seq(Node)
    BY DEF HeapOK, Shape
  <2>2. d \in Seq(Node) /\ d # <<>>
    BY DEF IsTree
  <2>3. m \in Nat \ {0}
    BY <2>2, EmptySeq
  <2>4. \A j \in 1..m : d[j] \in Node
    BY <2>2, ElementOfSeq
  <2> QED BY <2>1, <2>3, <2>4
<1>1. ASSUME NEW j \in 1..m
      PROVE  /\ e(j) \in Node /\ e(j).live /\ (j = 1 => e(j).up = up)
             /\ j # 1 => e(j).up \in (n + 1)..(n + j - 1)
  <2>1. CASE j = 1
    BY <1>0, <2>1 DEF Node, Item
  <2>2. CASE j # 1
    <3>1. d[j] \in Node /\ d[j].live /\ d[j].up \in 1..(j - 1)
      BY <1>0, <2>2 DEF IsTree
    <3>2. e(j) = [d[j] EXCEPT !.up = @ + n]
      BY <2>2
    <3> HIDE DEF n, m, e
    <3>3. d[j].up + n \in (n + 1)..(n + j - 1) /\ d[j].up + n \in Nat
      BY <1>0, <3>1
    <3>4. e(j).up = d[j].up + n /\ e(j).live = d[j].live /\ e(j) \in Node
      BY <3>1, <3>2, <3>3 DEF Node
    <3> QED BY <2>2, <3>1, <3>3, <3>4
  <2> QED BY <2>1, <2>2
<1> HIDE DEF e
<1>2. t \in Seq(Node) /\ Len(t) = m /\ \A j \in 1..m : t[j] = e(j)
  <2>1. t \in [1..m -> Node]
    BY <1>1
  <2>2. t \in Seq(Node) /\ Len(t) = m
    <3> HIDE DEF t, m
    <3>1. m \in Nat
      BY <1>0
    <3> QED BY <2>1, <3>1, FunctionIsSeq
  <2> QED BY <2>2
<1>3. Added(h, d, up, name) = h \o t
  BY Zenon DEF Added, e
<1> HIDE DEF t
<1> DEFINE g == h \o t
<1>4. /\ g \in Seq(Node) /\ Len(g) = n + m
      /\ \A k \in 1..n + m : g[k] = IF k <= n THEN h[k] ELSE t[k - n]
  BY <1>0, <1>2, ConcatProperties, ZenonT(60)
<1> HIDE DEF g, n, m
<1>5. \A k \in 1..n : g[k] = h[k]
  BY <1>0, <1>4
<1>6. ASSUME NEW k \in (n + 1)..(n + m)
      PROVE  /\ g[k].live /\ (k = n + 1 => g[k].up = up)
             /\ k # n + 1 => g[k].up \in (n + 1)..(k - 1)
  <2> DEFINE j == k - n
  <2>1. j \in 1..m /\ k = n + j /\ ~(k <= n) /\ k \in 1..n + m
    BY <1>0
  <2>2. g[k] = e(j)
    BY <1>2, <1>4, <2>1
  <2> HIDE DEF j
  <2>3. (j = 1 <=> k = n + 1) /\ k - 1 = n + j - 1
    BY <1>0, <2>1
  <2> QED BY <1>1, <2>1, <2>2, <2>3
<1>7. n + 1 \in (n + 1)..(n + m) /\ n < n + m
  BY <1>0
<1> QED BY <1>3, <1>4, <1>5, <1>6, <1>7 DEF Grown, NewItems, g, n, m

LEMMA LeafIsTree ==
  /\ \A v \in Vals : IsTree(LeafTree(v))
  /\ IsTree(EmptyTree)
<1>1. ASSUME NEW v \in Vals \cup {None} PROVE IsTree(<<Item(0, NoName, v)>>)
  <2>1. Item(0, NoName, v) \in Node /\ Item(0, NoName, v).live
    BY DEF Item, Node
  <2> DEFINE i == Item(0, NoName, v)
  <2> HIDE DEF i
  <2>2. <<i>> \in Seq(Node) /\ Len(<<i>>) = 1 /\ <<i>>[1] = i /\ <<i>> # <<>>
    BY <2>1 DEF i
  <2>3. \A k \in 1..1 : k = 1
    OBVIOUS
  <2>4. IsTree(<<i>>)
    BY <2>1, <2>2, <2>3 DEF IsTree, i
  <2> QED BY <2>4 DEF i
<1> QED BY <1>1 DEF LeafTree, EmptyTree

\* Growing again under the new root is growing.
LEMMA GrownTwice ==
  ASSUME NEW h, HeapOK(h), NEW up \in 0..Len(h), NEW g, Grown(h, g, up), Len(g) = Len(h) + 1,
         HeapOK(g), NEW f, Grown(g, f, Len(h) + 1)
  PROVE  Grown(h, f, up)
<1> DEFINE n == Len(h)
<1>0. n \in Nat /\ Len(f) \in Nat /\ Len(g) = n + 1 /\ n + 1 < Len(f)
  BY LenProperties DEF HeapOK, Shape, Grown
<1>1. /\ \A k \in 1..n : g[k] = h[k]
      /\ g[n + 1].up = up /\ g[n + 1].live
      /\ \A k \in 1..n + 1 : f[k] = g[k]
      /\ f \in Seq(Node)
  BY <1>0 DEF Grown, NewItems
<1>2. f[n + 2].up = n + 1
      /\ \A k \in (n + 2)..Len(f) : f[k].live /\ (k # n + 2 => f[k].up \in (n + 2)..(k - 1))
  <2>1. n + 1 + 1 = n + 2
    BY <1>0
  <2> QED BY <1>0, <2>1 DEF Grown, NewItems
<1> HIDE DEF n
<1>3. ASSUME NEW k \in (n + 1)..Len(f)
      PROVE  f[k].live /\ (k # n + 1 => f[k].up \in (n + 1)..(k - 1))
  <2>1. CASE k = n + 1
    BY <1>0, <1>1, <2>1
  <2>2. CASE k # n + 1
    <3>1. k \in (n + 2)..Len(f)
      BY <1>0, <2>2
    <3>2. k = n + 2 => f[k].up \in (n + 1)..(k - 1)
      BY <1>0, <1>2
    <3>3. k # n + 2 => f[k].up \in (n + 1)..(k - 1)
      BY <1>0, <1>2, <3>1
    <3> QED BY <1>2, <3>1, <3>2, <3>3
  <2> QED BY <2>1, <2>2
<1>4. /\ \A k \in 1..n : f[k] = h[k]
      /\ f[n + 1].up = up /\ n < Len(f)
  BY <1>0, <1>1
<1> QED BY <1>1, <1>3, <1>4 DEF Grown, NewItems, n

-----------------------------------------------------------------------------
(* The inductive invariant.                                                 *)

\* The references that the count of m stands for: those that threads hold, and
\* the one that a thread is about to give up.
References(m) ==
  {p \in Threads \X (0..2) :
     IF p[2] = 0 THEN at[p[1]] = m /\ pc[p[1]] = "sub" ELSE p[2] <= refs[p[1]][m]}

Types ==
  /\ TypeOK
  /\ Len(heap) <= MaxNodes /\ Len(msgs) <= MaxMsgs
  /\ HeapOK(heap)
  /\ \A m \in 1..Len(msgs) : Root(m) <= Len(heap)

Owners == {m \in 1..Len(msgs) : ~IsItem(m)}

\* Every item is in the tree of one message, which lives as long as the tree.
Trees ==
  /\ \A m, n \in Owners : Root(m) = Root(n) => m = n
  /\ \A k \in 1..Len(heap) : \E m \in Owners : k \in Below(heap, Root(m))
  /\ \A m \in Owners : heap[Root(m)].live <=> msgs[m].live

\* A message that points into another one is read as long as that one is held.
Items ==
  /\ \A m \in 1..Len(msgs) : IsItem(m) => msgs[m].live /\ \A t \in Threads : at[t] # m
  /\ \A m \in Owners : Lends(m) => \E t \in Threads : Holds(t, m)

\* One thread releases a message at a time; the message is there until it ends.
Releasing ==
  /\ \A t \in Threads :
       /\ pc[t] = "idle" <=> at[t] = 0
       /\ at[t] # 0 => at[t] \in Owners /\ msgs[at[t]].live
       /\ pc[t] = "destroy" => msgs[at[t]].count = 0
  /\ \A t, u \in Threads : at[t] # 0 /\ at[t] = at[u] => t = u

\* The count is right, and nobody refers to what is gone.
Counted ==
  /\ \A m \in Owners :
       /\ IsFiniteSet(References(m))
       /\ IF msgs[m].live THEN /\ msgs[m].count = Cardinality(References(m))
                               /\ References(m) = {} => \E t \in Threads : at[t] = m
                          ELSE References(m) = {}
  /\ \A t \in Threads, m \in 1..MaxMsgs : refs[t][m] > 0 => m <= Len(msgs)

Inv == Types /\ Trees /\ Items /\ Releasing /\ Counted /\ NoFault

-----------------------------------------------------------------------------
(* What the invariant says of a message that a thread holds.                *)

LEMMA RootFacts ==
  ASSUME Types
  PROVE  /\ Len(heap) \in Nat /\ Len(msgs) \in Nat
         /\ \A m \in 1..Len(msgs) : Root(m) \in 1..Len(heap) /\ msgs[m].count \in 0..2
                                     /\ msgs[m].live \in BOOLEAN
         /\ \A m \in Owners : m \in 1..Len(msgs) /\ heap[Root(m)].up = 0
         /\ \A m \in 1..Len(msgs) : m \notin Owners => IsItem(m)
         /\ \A t \in Threads, m \in 1..Len(msgs) : refs[t][m] \in 0..2 /\ m \in 1..MaxMsgs
<1>1. /\ msgs \in Seq([live : BOOLEAN, count : 0..2, root : 1..MaxNodes])
      /\ refs \in [Threads -> [1..MaxMsgs -> 0..2]]
      /\ Len(msgs) <= MaxMsgs /\ MaxMsgs \in Nat /\ MaxNodes \in Nat
      /\ Len(heap) \in Nat /\ Len(msgs) \in Nat
  BY LenProperties, BoundsAssumption DEF Types, TypeOK, HeapOK, Shape
<1>2. ASSUME NEW m \in 1..Len(msgs)
      PROVE  Root(m) \in 1..Len(heap) /\ msgs[m].count \in 0..2 /\ msgs[m].live \in BOOLEAN
  <2>1. msgs[m] \in [live : BOOLEAN, count : 0..2, root : 1..MaxNodes]
    BY <1>1, ElementOfSeq
  <2>2. Root(m) \in 1..MaxNodes /\ Root(m) <= Len(heap)
    BY <2>1 DEF Root, Types
  <2> QED BY <1>1, <2>1, <2>2
<1>3. \A m \in Owners : m \in 1..Len(msgs) /\ heap[Root(m)].up = 0
  BY DEF Owners, IsItem
<1>4. \A m \in 1..Len(msgs) : m \notin Owners => IsItem(m)
  BY DEF Owners
<1>5. \A t \in Threads, m \in 1..Len(msgs) : refs[t][m] \in 0..2 /\ m \in 1..MaxMsgs
  BY <1>1
<1> QED BY <1>1, <1>2, <1>3, <1>4, <1>5

LEMMA TreeOfOwner ==
  ASSUME Types, Trees, NEW m \in Owners
  PROVE  \A k \in Below(heap, Root(m)) : k \in 1..Len(heap) /\ (heap[k].live <=> msgs[m].live)
<1>1. Root(m) \in 1..Len(heap) /\ Shape(heap) /\ Alike(heap)
  BY RootFacts DEF Types, HeapOK
<1>2. \A k \in Below(heap, Root(m)) : heap[k].live <=> heap[Root(m)].live
  BY <1>1, TreeAlike DEF Alike
<1>3. Below(heap, Root(m)) \subseteq 1..Len(heap)
  BY <1>1, BelowIs
<1> QED BY <1>2, <1>3 DEF Trees

\* An item is in the tree of no other message.
LEMMA OneOwner ==
  ASSUME Types, Trees, NEW m \in Owners, NEW n \in Owners,
         NEW k \in Below(heap, Root(m)), k \in Below(heap, Root(n))
  PROVE  m = n
<1>1. /\ Root(m) \in 1..Len(heap) /\ Root(n) \in 1..Len(heap) /\ Shape(heap)
      /\ heap[Root(m)].up = 0 /\ heap[Root(n)].up = 0
  BY RootFacts DEF Types, HeapOK
<1>2. Root(m) = Root(n)
  BY <1>1, TreesApart
<1> QED BY <1>2 DEF Trees

\* A reference is one of those that are counted.
LEMMA HeldIsCounted ==
  ASSUME Types, NEW m \in Owners, NEW t \in Threads, Holds(t, m)
  PROVE  <<t, refs[t][m]>> \in References(m) /\ <<t, 1>> \in References(m)
<1>1. refs[t][m] \in 1..2
  BY RootFacts DEF Holds
<1> QED BY <1>1 DEF References

\* What a thread holds is in the tree of a message that is held and there.
LEMMA HeldIn ==
  ASSUME Inv, NEW m \in 1..Len(msgs), NEW t \in Threads, Holds(t, m)
  PROVE  \E o \in Owners : /\ Below(heap, Root(m)) \subseteq Below(heap, Root(o))
                           /\ Root(m) \in Below(heap, Root(o))
                           /\ msgs[o].live
                           /\ \E u \in Threads : Holds(u, o)
                           /\ m \in Owners => m = o
<1>0. Types /\ Trees /\ Root(m) \in 1..Len(heap) /\ Shape(heap)
  BY RootFacts DEF Inv, Types, HeapOK
<1>1. ASSUME NEW o \in Owners, NEW u \in Threads, Holds(u, o) PROVE msgs[o].live
  BY <1>0, <1>1, HeldIsCounted DEF Inv, Counted
<1>2. Root(m) \in Below(heap, Root(m))
  BY <1>0, BelowLow
<1>3. CASE m \in Owners
  BY <1>1, <1>2, <1>3
<1>4. CASE m \notin Owners
  <2>1. IsItem(m)
    BY <1>0, <1>4, RootFacts
  <2>2. PICK o \in Owners : Root(m) \in Below(heap, Root(o))
    BY <1>0 DEF Trees
  <2>3. Lends(o)
    BY <2>1, <2>2 DEF Lends
  <2>4. PICK u \in Threads : Holds(u, o)
    BY <2>3 DEF Inv, Items
  <2>5. Below(heap, Root(m)) \subseteq Below(heap, Root(o))
    BY <1>0, <2>2, RootFacts, BelowDeep
  <2> QED BY <1>1, <1>4, <2>2, <2>4, <2>5
<1> QED BY <1>3, <1>4

LEMMA HeldLive ==
  ASSUME Inv, NEW m \in 1..Len(msgs), NEW t \in Threads, Holds(t, m)
  PROVE  msgs[m].live /\ \A k \in Below(heap, Root(m)) : k \in 1..Len(heap) /\ heap[k].live
<1>1. PICK o \in Owners : /\ Below(heap, Root(m)) \subseteq Below(heap, Root(o))
                          /\ msgs[o].live /\ (m \in Owners => m = o)
  BY HeldIn
<1>2. \A k \in Below(heap, Root(o)) : k \in 1..Len(heap) /\ heap[k].live
  BY <1>1, TreeOfOwner DEF Inv
<1>3. m \notin Owners => msgs[m].live
  BY RootFacts DEF Inv, Items
<1> QED BY <1>1, <1>2, <1>3

\* The invariant implies the property.
LEMMA InvIsSafe ==
  ASSUME Inv PROVE MemorySafe
<1>1. HeldIntact
  BY HeldLive DEF HeldIntact
<1>2. ASSUME NEW m \in 1..Len(msgs), ~IsItem(m), \A t \in Threads : ~Holds(t, m) /\ at[t] # m
      PROVE  ~msgs[m].live /\ \A k \in Below(heap, Root(m)) : ~heap[k].live
  <2>1. m \in Owners
    BY <1>2 DEF Owners
  <2>2. References(m) = {}
    <3>1. \A t \in Threads : refs[t][m] = 0
      BY <1>2, RootFacts DEF Inv, Holds
    <3>2. \A p \in Threads \X (0..2) : p[1] \in Threads /\ p[2] \in 0..2
      OBVIOUS
    <3>3. ASSUME NEW p \in Threads \X (0..2),
                 IF p[2] = 0 THEN at[p[1]] = m /\ pc[p[1]] = "sub" ELSE p[2] <= refs[p[1]][m]
          PROVE  FALSE
      BY <1>2, <3>1, <3>2, <3>3
    <3> QED BY <3>3 DEF References
  <2>3. ~msgs[m].live
    BY <1>2, <2>1, <2>2 DEF Inv, Counted
  <2> QED BY <2>1, <2>3, TreeOfOwner DEF Inv
<1>3. NothingLeft
  BY <1>2 DEF NothingLeft
<1> QED BY <1>1, <1>3 DEF MemorySafe, Inv

-----------------------------------------------------------------------------
(* The steps.  Most of them add to the heap or to the messages.             *)

LEMMA TypedHeap ==
  ASSUME NEW h, HeapOK(h), Len(h) <= MaxNodes
  PROVE  h \in Seq([up : 0..MaxNodes, name : Names \cup {NoName}, val : Vals \cup {None},
                    live : BOOLEAN])
<1> DEFINE R == [up : 0..MaxNodes, name : Names \cup {NoName}, val : Vals \cup {None},
                 live : BOOLEAN]
<1>0. Len(h) \in Nat /\ h \in Seq(Node) /\ MaxNodes \in Nat
  BY BoundsAssumption DEF HeapOK, Shape
<1>1. ASSUME NEW k \in 1..Len(h) PROVE h[k] \in R
  <2>1. h[k] \in Node /\ h[k].up \in 0..(k - 1)
    BY <1>0, ElementOfSeq DEF HeapOK, Shape
  <2>2. h[k].up \in 0..MaxNodes
    BY <1>0, <2>1
  <2> QED BY <2>1, <2>2 DEF Node
<1>2. h \in [1..Len(h) -> R]
  <2>1. h \in [1..Len(h) -> Node]
    BY <1>0, LenProperties
  <2> HIDE DEF R
  <2> QED BY <1>1, <2>1
<1> HIDE DEF R
<1>3. h \in Seq(R)
  BY <1>0, <1>2, FunctionIsSeq
<1> QED BY <1>3 DEF R

\* An operation that adds a tree to a message.
LEMMA FillStep ==
  ASSUME Inv, NEW m \in Owners, NEW k \in Below(heap, Root(m)), heap[k].live,
         Grown(heap, heap', k), Len(heap') <= MaxNodes, UNCHANGED <<msgs, refs, pc, at, fault>>
  PROVE  Inv'
<1>0. /\ Types /\ Trees /\ HeapOK(heap) /\ Shape(heap)
      /\ k \in 1..Len(heap) /\ k \in 0..Len(heap) /\ Len(heap) \in Nat
  <2>1. Types /\ Trees /\ HeapOK(heap) /\ Shape(heap)
    BY DEF Inv, Types, HeapOK
  <2>2. k \in 1..Len(heap) /\ Len(heap) \in Nat
    BY <2>1, BelowIs DEF Shape
  <2> QED BY <2>1, <2>2
<1>1. HeapOK(heap') /\ Shape(heap')
  BY <1>0, GrownHeap DEF HeapOK
<1>2. \A j \in 1..Len(heap) : heap'[j] = heap[j]
  BY DEF Grown
<1>3. Len(heap) < Len(heap') /\ Len(heap') \in Nat
  BY <1>1 DEF Grown, Shape
<1>4. \A n \in 1..Len(msgs) : Root(n)' = Root(n) /\ Root(n) \in 1..Len(heap) /\ IsItem(n)' = IsItem(n)
  BY <1>0, <1>2, RootFacts DEF Root, IsItem
<1>5. Owners' = Owners
  BY <1>4 DEF Owners
<1>6. ASSUME NEW n \in Owners
      PROVE  /\ \A j \in 1..Len(heap) : j \in Below(heap', Root(n)) <=> j \in Below(heap, Root(n))
             /\ \A j \in NewItems(heap, heap') :
                  j \in Below(heap', Root(n)) <=> k \in Below(heap, Root(n))
  BY <1>0, <1>1, RootFacts, GrownBelow
<1>7. Types'
  <2>1. TypeOK'
    BY <1>0, <1>1, TypedHeap DEF Types, TypeOK
  <2>2. \A n \in 1..Len(msgs) : Root(n)' <= Len(heap')
    BY <1>3, <1>4
  <2> QED BY <1>0, <1>1, <2>1, <2>2 DEF Types
<1>8. Trees'
  <2>1. ASSUME NEW j \in 1..Len(heap') PROVE \E n \in Owners : j \in Below(heap', Root(n))
    <3>1. CASE j <= Len(heap)
      <4>1. j \in 1..Len(heap)
        BY <1>0, <3>1
      <4> QED BY <1>0, <1>6, <4>1 DEF Trees
    <3>2. CASE ~(j <= Len(heap))
      <4>1. j \in NewItems(heap, heap')
        BY <1>0, <1>3, <3>2 DEF NewItems
      <4> QED BY <1>6, <4>1
    <3> QED BY <3>1, <3>2
  <2>2. \A n \in Owners : heap'[Root(n)] = heap[Root(n)]
    BY <1>0, <1>2, RootFacts
  <2>3. \A n \in Owners : Root(n)' = Root(n) /\ n \in 1..Len(msgs)
    BY <1>0, <1>4, RootFacts
  <2> QED BY <1>0, <1>5, <2>1, <2>2, <2>3 DEF Trees
<1>9. Items'
  <2>1. ASSUME NEW n \in Owners, Lends(n)' PROVE Lends(n)
    <3>1. PICK j \in 1..Len(msgs), t \in Threads :
            Holds(t, j) /\ IsItem(j)' /\ Root(j)' \in Below(heap', Root(n)')
      BY <2>1 DEF Lends, Holds
    <3>2. Root(n)' = Root(n)
      BY <1>0, <1>4, RootFacts
    <3> QED BY <1>4, <1>6, <3>1, <3>2 DEF Lends
  <2> QED BY <1>4, <1>5, <2>1 DEF Items, Inv, Holds
<1>10. Releasing'
  BY <1>5 DEF Releasing, Inv
<1>11. Counted'
  <2>1. \A n : References(n)' = References(n)
    BY DEF References
  <2> QED BY <1>5, <2>1 DEF Counted, Inv
<1> QED BY <1>7, <1>8, <1>9, <1>10, <1>11 DEF Inv, NoFault

Struct == [live : BOOLEAN, count : 0..2, root : 1..MaxNodes]

\* What malloc() of a message changes.
LEMMA NewMessageIs ==
  ASSUME Inv, NEW t \in Threads, NEW root \in 1..MaxNodes, NewMessage(t, root),
         NEW n, n = Len(msgs) + 1
  PROVE  /\ n \in 1..MaxMsgs /\ Len(msgs') = n
         /\ msgs' \in Seq(Struct)
         /\ \A i \in 1..Len(msgs) : i \in 1..n /\ i # n /\ msgs'[i] = msgs[i]
         /\ msgs'[n].live /\ msgs'[n].count = 1 /\ msgs'[n].root = root
         /\ \A u \in Threads, i \in 1..MaxMsgs :
              refs'[u][i] = IF u = t /\ i = n THEN 1 ELSE refs[u][i]
         /\ refs' \in [Threads -> [1..MaxMsgs -> 0..2]]
         /\ \A u \in Threads : refs[u][n] = 0
         /\ \A i \in 1..n : i = n \/ i \in 1..Len(msgs)
<1> DEFINE x == [live |-> TRUE, count |-> 1, root |-> root]
<1>0. Len(msgs) \in Nat /\ MaxMsgs \in Nat /\ msgs \in Seq(Struct) /\ n \in 1..MaxMsgs
      /\ refs \in [Threads -> [1..MaxMsgs -> 0..2]]
  <2>1. Len(msgs) \in Nat /\ MaxMsgs \in Nat /\ Len(msgs) < MaxMsgs
    BY RootFacts, BoundsAssumption DEF Inv, NewMessage
  <2> QED BY <2>1 DEF Inv, Types, TypeOK, Struct
<1>1. x \in Struct
  BY DEF Struct
<1>2. msgs' = Append(msgs, x) /\ refs' = [refs EXCEPT ![t][n] = 1]
  BY DEF NewMessage
<1> HIDE DEF x
<1>3. /\ Append(msgs, x) \in Seq(Struct) /\ Len(Append(msgs, x)) = n
      /\ \A i \in 1..n : Append(msgs, x)[i] = IF i = n THEN x ELSE msgs[i]
  BY <1>0, <1>1, AppendProperties
<1>4. msgs'[n] = x
  BY <1>0, <1>2, <1>3
<1>5. \A i \in 1..Len(msgs) : i \in 1..n /\ i # n /\ msgs'[i] = msgs[i]
  BY <1>0, <1>2, <1>3
<1>6. \A u \in Threads : refs[u][n] = 0
  <2>1. \A u \in Threads : ~(refs[u][n] > 0)
    BY <1>0 DEF Inv, Counted
  <2> QED BY <1>0, <2>1
<1>7. /\ \A u \in Threads, i \in 1..MaxMsgs :
           refs'[u][i] = IF u = t /\ i = n THEN 1 ELSE refs[u][i]
      /\ refs' \in [Threads -> [1..MaxMsgs -> 0..2]]
  BY <1>0, <1>2
<1>8. \A i \in 1..n : i = n \/ i \in 1..Len(msgs)
  BY <1>0
<1> QED BY <1>0, <1>2, <1>3, <1>4, <1>5, <1>6, <1>7, <1>8 DEF x

\* The references to a message, when only those to others change.
LEMMA SameReferences ==
  ASSUME NEW m, \A u \in Threads : refs'[u][m] = refs[u][m],
         \A u \in Threads : (at'[u] = m /\ pc'[u] = "sub") <=> (at[u] = m /\ pc[u] = "sub")
  PROVE  References(m)' = References(m)
<1>1. ASSUME NEW p \in Threads \X (0..2)
      PROVE  (IF p[2] = 0 THEN at'[p[1]] = m /\ pc'[p[1]] = "sub" ELSE p[2] <= refs'[p[1]][m])
             <=> (IF p[2] = 0 THEN at[p[1]] = m /\ pc[p[1]] = "sub" ELSE p[2] <= refs[p[1]][m])
  <2>1. p[1] \in Threads
    OBVIOUS
  <2> QED BY <2>1
<1> QED BY <1>1 DEF References

\* What all that make a message keep of the others.
LEMMA NewMessageKeeps ==
  ASSUME Inv, NEW t \in Threads, NEW root \in 1..MaxNodes, NewMessage(t, root),
         UNCHANGED <<pc, at, fault>>, Len(heap) <= Len(heap'),
         \A k \in 1..Len(heap) : heap'[k] = heap[k], NEW n, n = Len(msgs) + 1
  PROVE  /\ \A i \in 1..Len(msgs) : Root(i)' = Root(i) /\ IsItem(i)' = IsItem(i)
         /\ \A i \in 1..Len(msgs) : References(i)' = References(i)
         /\ \A i \in Owners : i \in Owners' /\ msgs'[i] = msgs[i] /\ i # n
         /\ \A i \in Owners' : i = n \/ i \in Owners
         /\ n \in Owners' <=> heap'[root].up = 0
         /\ Releasing'
<1>0. /\ n \in 1..MaxMsgs /\ Len(msgs') = n
      /\ \A i \in 1..Len(msgs) : i \in 1..n /\ i # n /\ msgs'[i] = msgs[i]
      /\ msgs'[n].root = root
      /\ \A u \in Threads, i \in 1..MaxMsgs :
           refs'[u][i] = IF u = t /\ i = n THEN 1 ELSE refs[u][i]
      /\ \A i \in 1..n : i = n \/ i \in 1..Len(msgs)
  BY NewMessageIs
<1>1. Types /\ Releasing /\ n \in 1..n
  BY <1>0 DEF Inv
<1>2. \A i \in 1..Len(msgs) : Root(i)' = Root(i) /\ IsItem(i)' = IsItem(i)
  BY <1>0, <1>1, RootFacts DEF Root, IsItem
<1>3. ASSUME NEW i \in 1..Len(msgs) PROVE References(i)' = References(i)
  <2>1. i \in 1..MaxMsgs /\ i # n
    BY <1>0, <1>1, RootFacts
  <2>2. \A u \in Threads : refs'[u][i] = refs[u][i]
    BY <1>0, <2>1
  <2> QED BY <2>2, SameReferences
<1>4. \A i \in Owners : i \in Owners' /\ msgs'[i] = msgs[i] /\ i # n
  BY <1>0, <1>2 DEF Owners
<1>5. \A i \in Owners' : i = n \/ i \in Owners
  BY <1>0, <1>2 DEF Owners
<1>6. n \in Owners' <=> heap'[root].up = 0
  BY <1>0, <1>1 DEF Owners, IsItem, Root
<1>7. Releasing'
  <2>1. \A u \in Threads :
          /\ pc[u] = "idle" <=> at[u] = 0
          /\ at[u] # 0 => at[u] \in Owners /\ msgs[at[u]].live
          /\ pc[u] = "destroy" => msgs[at[u]].count = 0
    BY <1>1 DEF Releasing
  <2>2. \A u \in Threads : at[u] # 0 => at[u] \in Owners' /\ msgs'[at[u]] = msgs[at[u]]
    BY <1>4, <2>1
  <2>3. ASSUME NEW u \in Threads, pc[u] = "destroy" PROVE msgs'[at[u]].count = 0
    BY <2>1, <2>2, <2>3
  <2>4. \A u, v \in Threads : at[u] # 0 /\ at[u] = at[v] => u = v
    BY <1>1 DEF Releasing
  <2> QED BY <2>1, <2>2, <2>3, <2>4 DEF Releasing
<1> QED BY <1>2, <1>3, <1>4, <1>5, <1>6, <1>7

\* A message with a tree of its own.
LEMMA NewTreeStep ==
  ASSUME Inv, NEW t \in Threads, NewMessage(t, Len(heap) + 1), Grown(heap, heap', 0),
         Len(heap') <= MaxNodes, UNCHANGED <<pc, at, fault>>
  PROVE  Inv'
<1>n. PICK n, root : n = Len(msgs) + 1 /\ root = Len(heap) + 1 /\ NewMessage(t, root)
  OBVIOUS
<1>0. /\ Types /\ Trees /\ HeapOK(heap) /\ Shape(heap) /\ Items /\ Releasing /\ Counted
      /\ Len(heap) \in Nat /\ 0 \in 0..Len(heap) /\ MaxNodes \in Nat
  BY BoundsAssumption DEF Inv, Types, HeapOK, Shape
<1>1. HeapOK(heap') /\ Shape(heap')
  BY <1>0, GrownHeap DEF HeapOK
<1>2. /\ \A j \in 1..Len(heap) : heap'[j] = heap[j]
      /\ heap'[root].up = 0
      /\ Len(heap) < Len(heap') /\ Len(heap') \in Nat
  BY <1>1, <1>n DEF Grown, Shape
<1>3. root \in 1..MaxNodes /\ root \in NewItems(heap, heap') /\ Len(heap) <= Len(heap')
  BY <1>0, <1>n, <1>2 DEF NewItems
<1>4. heap'[root].live
  BY <1>3 DEF Grown
<1>5. /\ n \in 1..MaxMsgs /\ Len(msgs') = n
      /\ msgs' \in Seq(Struct)
      /\ \A i \in 1..Len(msgs) : i \in 1..n /\ i # n /\ msgs'[i] = msgs[i]
      /\ msgs'[n].live /\ msgs'[n].count = 1 /\ msgs'[n].root = root
      /\ \A u \in Threads, i \in 1..MaxMsgs :
           refs'[u][i] = IF u = t /\ i = n THEN 1 ELSE refs[u][i]
      /\ refs' \in [Threads -> [1..MaxMsgs -> 0..2]]
      /\ \A u \in Threads : refs[u][n] = 0
      /\ \A i \in 1..n : i = n \/ i \in 1..Len(msgs)
  <2>1. root \in 1..MaxNodes /\ n = Len(msgs) + 1 /\ NewMessage(t, root)
    BY <1>3, <1>n
  <2> QED BY <2>1, NewMessageIs
<1>6. /\ \A i \in 1..Len(msgs) : Root(i)' = Root(i) /\ IsItem(i)' = IsItem(i)
      /\ \A i \in 1..Len(msgs) : References(i)' = References(i)
      /\ \A i \in Owners : i \in Owners' /\ msgs'[i] = msgs[i] /\ i # n
      /\ \A i \in Owners' : i = n \/ i \in Owners
      /\ n \in Owners' <=> heap'[root].up = 0
      /\ Releasing'
  BY <1>2, <1>3, <1>n, NewMessageKeeps
<1>7. n \in Owners' /\ Root(n)' = root
  BY <1>2, <1>5, <1>6 DEF Root
<1>8. /\ \A i \in Owners : \A j \in 1..Len(heap) :
           j \in Below(heap', Root(i)) <=> j \in Below(heap, Root(i))
      /\ Below(heap', root) = NewItems(heap, heap')
  BY <1>0, <1>n, <1>1, RootFacts, GrownBelow, GrownRoot
<1>9. /\ \A i \in 1..Len(msgs) : Root(i) \in 1..Len(heap)
      /\ \A i \in Owners : i \in 1..Len(msgs)
      /\ Len(msgs) \in Nat
      /\ \A u \in Threads, i \in 1..Len(msgs) : i \in 1..MaxMsgs
  BY <1>0, RootFacts
<1>10. Types'
  <2>1. TypeOK'
    BY <1>0, <1>1, <1>5, TypedHeap DEF Types, TypeOK, Struct
  <2>2. ASSUME NEW i \in 1..Len(msgs') PROVE Root(i)' <= Len(heap')
    <3>1. CASE i = n
      BY <1>0, <1>n, <1>2, <1>7, <3>1
    <3>2. CASE i # n
      <4>1. i \in 1..Len(msgs)
        BY <1>5, <3>2
      <4>2. Root(i)' \in 1..Len(heap)
        BY <1>6, <1>9, <4>1
      <4> QED BY <1>0, <1>2, <4>2
    <3> QED BY <3>1, <3>2
  <2>3. Len(msgs') <= MaxMsgs
    BY <1>5, BoundsAssumption
  <2> QED BY <1>1, <2>1, <2>2, <2>3 DEF Types
<1>11. Trees'
  <2>1. ASSUME NEW j \in 1..Len(heap') PROVE \E i \in Owners' : j \in Below(heap', Root(i)')
    <3>1. CASE j <= Len(heap)
      <4>1. j \in 1..Len(heap)
        BY <1>0, <3>1
      <4>2. PICK i \in Owners : j \in Below(heap, Root(i))
        BY <1>0, <4>1 DEF Trees
      <4> QED BY <1>6, <1>8, <1>9, <4>1, <4>2
    <3>2. CASE ~(j <= Len(heap))
      <4>1. j \in NewItems(heap, heap')
        BY <1>0, <1>2, <3>2 DEF NewItems
      <4> QED BY <1>7, <1>8, <4>1
    <3> QED BY <3>1, <3>2
  <2>2. ASSUME NEW i \in Owners', NEW j \in Owners', Root(i)' = Root(j)' PROVE i = j
    <3>1. \A k \in Owners : Root(k)' = Root(k) /\ Root(k) # root
      BY <1>0, <1>n, <1>6, <1>9
    <3> QED BY <1>0, <1>6, <1>7, <2>2, <3>1 DEF Trees
  <2>3. ASSUME NEW i \in Owners' PROVE heap'[Root(i)'].live <=> msgs'[i].live
    <3>1. CASE i = n
      BY <1>4, <1>5, <1>7, <3>1
    <3>2. CASE i # n
      <4>1. i \in Owners /\ Root(i)' = Root(i) /\ msgs'[i] = msgs[i] /\ Root(i) \in 1..Len(heap)
        BY <1>6, <1>9, <3>2
      <4>2. heap'[Root(i)] = heap[Root(i)]
        BY <1>2, <4>1
      <4> QED BY <1>0, <4>1, <4>2 DEF Trees
    <3> QED BY <3>1, <3>2
  <2> QED BY <2>1, <2>2, <2>3 DEF Trees
<1>12. Items'
  <2>1. ASSUME NEW i \in 1..Len(msgs'), IsItem(i)'
        PROVE  msgs'[i].live /\ \A u \in Threads : at'[u] # i
    <3>1. i # n
      BY <1>2, <1>5, <2>1 DEF IsItem, Root
    <3>2. i \in 1..Len(msgs) /\ IsItem(i)
      BY <1>5, <1>6, <2>1, <3>1
    <3>3. msgs'[i] = msgs[i]
      BY <1>3, <1>n, <3>2, NewMessageIs
    <3> QED BY <1>0, <3>2, <3>3 DEF Items
  <2>2. ASSUME NEW i \in Owners', Lends(i)' PROVE \E u \in Threads : Holds(u, i)'
    <3>1. PICK j \in 1..Len(msgs'), u \in Threads :
            Holds(u, j)' /\ IsItem(j)' /\ Root(j)' \in Below(heap', Root(i)')
      BY <2>2 DEF Lends
    <3>2. j # n
      BY <1>2, <1>5, <3>1 DEF IsItem, Root
    <3>3. j \in 1..Len(msgs) /\ IsItem(j) /\ Root(j)' = Root(j) /\ Root(j) \in 1..Len(heap)
      BY <1>5, <1>6, <1>9, <3>1, <3>2
    <3>4. Holds(u, j)
      BY <1>5, <1>9, <3>1, <3>2, <3>3 DEF Holds
    <3>5. i # n
      <4>1. Root(j) \notin NewItems(heap, heap')
        BY <1>0, <3>3 DEF NewItems
      <4> QED BY <1>7, <1>8, <3>1, <3>3, <4>1
    <3>6. i \in Owners /\ Root(i)' = Root(i)
      BY <1>6, <1>9, <3>5
    <3>7. Lends(i)
      BY <1>8, <3>1, <3>3, <3>4, <3>6 DEF Lends
    <3>8. PICK v \in Threads : Holds(v, i)
      BY <1>0, <3>6, <3>7 DEF Items
    <3>9. refs[v][i] > 0 /\ i \in 1..Len(msgs)
      BY <3>6, <3>8 DEF Holds, Owners
    <3>10. refs'[v][i] = refs[v][i]
      BY <1>5, <1>9, <3>5, <3>9
    <3>11. Holds(v, i)'
      BY <3>9, <3>10 DEF Holds
    <3> QED BY <3>11
  <2> QED BY <2>1, <2>2 DEF Items
<1>13. Counted'
  <2>1. References(n)' = {<<t, 1>>}
    <3>1. \A u \in Threads : at'[u] # n
      <4>1. n # 0
        BY <1>5
      <4> QED BY <1>0, <1>6, <4>1 DEF Releasing
    <3>2. \A u \in Threads : refs'[u][n] = IF u = t THEN 1 ELSE 0
      BY <1>5
    <3>3. ASSUME NEW p \in Threads \X (0..2)
          PROVE  (IF p[2] = 0 THEN at'[p[1]] = n /\ pc'[p[1]] = "sub" ELSE p[2] <= refs'[p[1]][n])
                 <=> p = <<t, 1>>
      <4>1. PICK u \in Threads, k \in 0..2 : p = <<u, k>>
        OBVIOUS
      <4> QED BY <3>1, <3>2, <4>1
    <3>4. <<t, 1>> \in Threads \X (0..2)
      OBVIOUS
    <3> QED BY <3>3, <3>4 DEF References
  <2>2. IsFiniteSet({<<t, 1>>}) /\ Cardinality({<<t, 1>>}) = 1 /\ {<<t, 1>>} # {}
    BY FS_Singleton
  <2>3. ASSUME NEW i \in Owners'
        PROVE  /\ IsFiniteSet(References(i)')
               /\ IF msgs'[i].live
                  THEN /\ msgs'[i].count = Cardinality(References(i)')
                       /\ References(i)' = {} => \E u \in Threads : at'[u] = i
                  ELSE References(i)' = {}
    <3>1. CASE i = n
      BY <1>5, <2>1, <2>2, <3>1
    <3>2. CASE i # n
      <4>1. i \in Owners /\ References(i)' = References(i) /\ msgs'[i] = msgs[i]
        BY <1>6, <1>9, <3>2
      <4> QED BY <1>0, <4>1 DEF Counted
    <3> QED BY <3>1, <3>2
  <2>4. ASSUME NEW u \in Threads, NEW i \in 1..MaxMsgs, refs'[u][i] > 0 PROVE i <= Len(msgs')
    <3>1. CASE i = n
      BY <1>5, <3>1
    <3>2. CASE i # n
      <4>1. i <= Len(msgs)
        BY <1>0, <1>5, <2>4, <3>2 DEF Counted
      <4> QED BY <1>5, <1>9, <1>n, <4>1
    <3> QED BY <3>1, <3>2
  <2> QED BY <2>3, <2>4 DEF Counted
<1> QED BY <1>6, <1>10, <1>11, <1>12, <1>13 DEF Inv, NoFault

\* A message that points into the tree of one that is held.
LEMMA NewItemStep ==
  ASSUME Inv, NEW t \in Threads, NEW root \in 1..Len(heap), heap[root].up # 0,
         NewMessage(t, root), UNCHANGED <<heap, pc, at, fault>>,
         \A o \in Owners : root \in Below(heap, Root(o)) => \E u \in Threads : Holds(u, o)
  PROVE  Inv'
<1>n. PICK n : n = Len(msgs) + 1
  OBVIOUS
<1>0. /\ Types /\ Trees /\ Items /\ Releasing /\ Counted
      /\ root \in 1..MaxNodes /\ Len(heap) <= Len(heap') /\ \A k \in 1..Len(heap) : heap'[k] = heap[k]
  <2>1. Types /\ Trees /\ Items /\ Releasing /\ Counted
    BY DEF Inv
  <2>2. Len(heap) \in Nat /\ Len(heap) <= MaxNodes /\ MaxNodes \in Nat
    BY <2>1, RootFacts, BoundsAssumption DEF Types
  <2> QED BY <2>1, <2>2
<1>5. /\ n \in 1..MaxMsgs /\ Len(msgs') = n
      /\ msgs' \in Seq(Struct)
      /\ \A i \in 1..Len(msgs) : i \in 1..n /\ i # n /\ msgs'[i] = msgs[i]
      /\ msgs'[n].live /\ msgs'[n].count = 1 /\ msgs'[n].root = root
      /\ \A u \in Threads, i \in 1..MaxMsgs :
           refs'[u][i] = IF u = t /\ i = n THEN 1 ELSE refs[u][i]
      /\ refs' \in [Threads -> [1..MaxMsgs -> 0..2]]
      /\ \A u \in Threads : refs[u][n] = 0
      /\ \A i \in 1..n : i = n \/ i \in 1..Len(msgs)
  BY <1>0, <1>n, NewMessageIs
<1>6. /\ \A i \in 1..Len(msgs) : Root(i)' = Root(i) /\ IsItem(i)' = IsItem(i)
      /\ \A i \in 1..Len(msgs) : References(i)' = References(i)
      /\ \A i \in Owners : i \in Owners' /\ msgs'[i] = msgs[i] /\ i # n
      /\ \A i \in Owners' : i = n \/ i \in Owners
      /\ n \in Owners' <=> heap'[root].up = 0
      /\ Releasing'
  BY <1>0, <1>n, NewMessageKeeps
<1>7. n \notin Owners' /\ Root(n)' = root /\ Owners' = Owners
  <2>1. n \notin Owners' /\ Root(n)' = root
    BY <1>5, <1>6 DEF Root
  <2> QED BY <1>6, <2>1
<1>9. /\ \A i \in 1..Len(msgs) : Root(i) \in 1..Len(heap)
      /\ \A i \in Owners : i \in 1..Len(msgs)
      /\ Len(msgs) \in Nat
      /\ \A u \in Threads, i \in 1..Len(msgs) : i \in 1..MaxMsgs
  BY <1>0, RootFacts
<1>10. Types'
  <2>1. TypeOK'
    BY <1>0, <1>5 DEF Types, TypeOK, Struct
  <2>2. \A i \in 1..Len(msgs') : Root(i)' <= Len(heap')
    BY <1>0, <1>5, <1>6, <1>7, <1>9 DEF Types
  <2>3. Len(msgs') <= MaxMsgs
    BY <1>5, BoundsAssumption
  <2>4. HeapOK(heap') /\ Len(heap') <= MaxNodes
    BY <1>0 DEF Types
  <2> QED BY <2>1, <2>2, <2>3, <2>4 DEF Types
<1>11. Trees'
  <2>1. heap' = heap /\ Owners' = Owners
        /\ \A i \in Owners : Root(i)' = Root(i) /\ msgs'[i] = msgs[i]
    BY <1>6, <1>7, <1>9
  <2> QED BY <1>0, <2>1 DEF Trees
<1>12. Items'
  <2>1. ASSUME NEW i \in 1..Len(msgs'), IsItem(i)'
        PROVE  msgs'[i].live /\ \A u \in Threads : at'[u] # i
    <3>1. CASE i = n
      <4>1. n \notin Owners /\ n # 0
        BY <1>5, <1>7
      <4> QED BY <1>0, <1>5, <3>1, <4>1 DEF Releasing
    <3>2. CASE i # n
      <4>1. i \in 1..Len(msgs) /\ IsItem(i)
        BY <1>5, <1>6, <2>1, <3>2
      <4>2. msgs'[i] = msgs[i]
        BY <1>5, <4>1
      <4> QED BY <1>0, <4>1, <4>2 DEF Items
    <3> QED BY <3>1, <3>2
  <2>2. ASSUME NEW i \in Owners, Lends(i)' PROVE \E u \in Threads : Holds(u, i)'
    <3>1. PICK j \in 1..Len(msgs'), u \in Threads :
            Holds(u, j)' /\ IsItem(j)' /\ Root(j)' \in Below(heap, Root(i)')
      BY <2>2 DEF Lends
    <3>2. Root(i)' = Root(i) /\ i \in 1..Len(msgs) /\ i # n
      BY <1>6, <1>9
    <3>3. CASE j = n
      <4>1. PICK v \in Threads : Holds(v, i)
        BY <1>7, <3>1, <3>2, <3>3
      <4> QED BY <1>5, <1>9, <3>2, <4>1 DEF Holds
    <3>4. CASE j # n
      <4>1. j \in 1..Len(msgs) /\ IsItem(j) /\ Root(j)' = Root(j)
        BY <1>5, <1>6, <3>1, <3>4
      <4>2. Holds(u, j)
        BY <1>5, <1>9, <3>1, <3>4, <4>1 DEF Holds
      <4>3. Lends(i)
        BY <3>1, <3>2, <4>1, <4>2 DEF Lends
      <4>4. PICK v \in Threads : Holds(v, i)
        BY <1>0, <4>3 DEF Items
      <4> QED BY <1>5, <1>9, <3>2, <4>4 DEF Holds
    <3> QED BY <3>3, <3>4
  <2> QED BY <1>7, <2>1, <2>2 DEF Items
<1>13. Counted'
  <2>1. \A i \in Owners : References(i)' = References(i) /\ msgs'[i] = msgs[i]
    BY <1>6, <1>9
  <2>2. \A u \in Threads, i \in 1..MaxMsgs : refs'[u][i] > 0 => i <= Len(msgs')
    <3>1. SUFFICES ASSUME NEW u \in Threads, NEW i \in 1..MaxMsgs, refs'[u][i] > 0, i # n
                   PROVE  i <= n
      BY <1>5
    <3>2. i <= Len(msgs)
      BY <1>0, <1>5, <3>1 DEF Counted
    <3> QED BY <1>n, <1>9, <3>2, BoundsAssumption
  <2> QED BY <1>0, <1>7, <2>1, <2>2 DEF Counted
<1> QED BY <1>6, <1>10, <1>11, <1>12, <1>13 DEF Inv, NoFault

-----------------------------------------------------------------------------
(* References are added and given up.                                       *)

\* Adding one to a set that is counted, and taking one away.
LEMMA OneMoreLess ==
  ASSUME NEW S, IsFiniteSet(S), NEW x
  PROVE  /\ Cardinality(S) \in Nat
         /\ x \notin S => IsFiniteSet(S \cup {x}) /\ Cardinality(S \cup {x}) = Cardinality(S) + 1
         /\ x \in S => IsFiniteSet(S \ {x}) /\ Cardinality(S \ {x}) = Cardinality(S) - 1
                       /\ Cardinality(S) # 0
         /\ Cardinality(S) = 0 <=> S = {}
BY FS_AddElement, FS_RemoveElement, FS_CardinalityType, FS_EmptySet

\* What steps that change neither the heap nor which messages there are keep.
LEMMA SameTrees ==
  ASSUME Inv, heap' = heap, Len(msgs') = Len(msgs),
         \A m \in 1..Len(msgs) : msgs'[m].root = msgs[m].root /\ msgs'[m].live = msgs[m].live
  PROVE  /\ Trees' /\ Owners' = Owners
         /\ \A m \in 1..Len(msgs) : Root(m)' = Root(m) /\ IsItem(m)' = IsItem(m)
<1>0. Types /\ Trees
  BY DEF Inv
<1>1. \A m \in 1..Len(msgs) : Root(m)' = Root(m) /\ IsItem(m)' = IsItem(m)
  BY DEF Root, IsItem
<1>2. Owners' = Owners
  BY <1>1 DEF Owners
<1>3. \A m \in Owners : m \in 1..Len(msgs)
  BY DEF Owners
<1> QED BY <1>0, <1>1, <1>2, <1>3 DEF Trees

\* A step of references alone: the counts and the references to one message.
LEMMA ReferenceStep ==
  ASSUME Inv, NEW m \in Owners, msgs[m].live, heap' = heap, fault' = fault,
         NEW c \in 0..2,
         msgs' = [msgs EXCEPT ![m].count = c] \/ (c = msgs[m].count /\ msgs' = msgs),
         \A t \in Threads, i \in 1..MaxMsgs : i # m => refs'[t][i] = refs[t][i],
         refs' \in [Threads -> [1..MaxMsgs -> 0..2]],
         \A t \in Threads, i \in Owners : i # m =>
           ((at'[t] = i /\ pc'[t] = "sub") <=> (at[t] = i /\ pc[t] = "sub")) /\ (at[t] = i => at'[t] = i),
         pc' \in [Threads -> {"idle", "sub", "test", "destroy"}],
         at' \in [Threads -> 0..MaxMsgs],
         \A t \in Threads : at'[t] = at[t] \/ at'[t] = 0 \/ at'[t] = m
  PROVE  /\ Types' /\ Trees' /\ Owners' = Owners
         /\ \A n \in 1..Len(msgs) : Root(n)' = Root(n) /\ IsItem(n)' = IsItem(n)
         /\ Len(msgs') = Len(msgs) /\ msgs'[m].count = c /\ msgs'[m].live
         /\ \A n \in 1..Len(msgs) : n # m => msgs'[n] = msgs[n]
         /\ ((Lends(m) => \E t \in Threads : refs'[t][m] > 0) => Items')
         /\ (/\ IsFiniteSet(References(m)')
             /\ c = Cardinality(References(m)')
             /\ References(m)' = {} => \E t \in Threads : at'[t] = m) => Counted'
<1>0. /\ Types /\ Trees /\ Items /\ Releasing /\ Counted
      /\ msgs \in Seq([live : BOOLEAN, count : 0..2, root : 1..MaxNodes])
      /\ m \in 1..Len(msgs)
  BY DEF Inv, Types, TypeOK, Owners
<1>1. /\ Len(msgs') = Len(msgs) /\ msgs'[m].count = c
      /\ \A n \in 1..Len(msgs) : msgs'[n].root = msgs[n].root /\ msgs'[n].live = msgs[n].live
      /\ \A n \in 1..Len(msgs) : n # m => msgs'[n] = msgs[n]
      /\ msgs' \in Seq([live : BOOLEAN, count : 0..2, root : 1..MaxNodes])
  <2>1. CASE msgs' = [msgs EXCEPT ![m].count = c]
    <3> DEFINE x == [msgs[m] EXCEPT !.count = c]
    <3>1. msgs[m] \in Struct
      BY <1>0, ElementOfSeq DEF Struct
    <3>2. x \in Struct /\ x.count = c /\ x.root = msgs[m].root /\ x.live = msgs[m].live
      BY <3>1 DEF Struct
    <3>3. msgs' = [msgs EXCEPT ![m] = x]
      BY <2>1
    <3> HIDE DEF x
    <3>4. msgs \in Seq(Struct)
      BY <1>0 DEF Struct
    <3>5. /\ msgs' \in Seq(Struct) /\ Len(msgs') = Len(msgs)
          /\ \A n \in 1..Len(msgs) : msgs'[n] = IF n = m THEN x ELSE msgs[n]
      <4>1. m \in 1..Len(msgs) /\ x \in Struct
        BY <1>0, <3>2
      <4> DEFINE s == [msgs EXCEPT ![m] = x]
      <4>2. /\ s \in Seq(Struct) /\ Len(s) = Len(msgs)
            /\ \A n \in 1..Len(msgs) : s[n] = IF n = m THEN x ELSE msgs[n]
        BY <3>4, <4>1, ExceptSeq
      <4>3. msgs' = s
        BY <3>3
      <4> HIDE DEF s
      <4> QED BY <4>2, <4>3
    <3> QED BY <1>0, <3>2, <3>5 DEF Struct
  <2>2. CASE c = msgs[m].count /\ msgs' = msgs
    BY <1>0, <2>2
  <2> QED BY <2>1, <2>2
<1>2. /\ Trees' /\ Owners' = Owners
      /\ \A n \in 1..Len(msgs) : Root(n)' = Root(n) /\ IsItem(n)' = IsItem(n)
  BY <1>1, SameTrees
<1>3. /\ \A n \in 1..Len(msgs) : n \in 1..MaxMsgs /\ (n \notin Owners => IsItem(n))
      /\ \A n \in Owners : n \in 1..Len(msgs) /\ ~IsItem(n)
      /\ \A t \in Threads, n \in 1..Len(msgs) : n \in 1..MaxMsgs
  <2>1. MaxMsgs \in Nat /\ Len(msgs) \in Nat /\ Len(msgs) <= MaxMsgs
    BY <1>0, RootFacts, BoundsAssumption DEF Types
  <2> QED BY <2>1 DEF Owners
<1>4. Types'
  <2>1. TypeOK'
    BY <1>0, <1>1 DEF Types, TypeOK
  <2>2. \A n \in 1..Len(msgs) : Root(n)' <= Len(heap)
    BY <1>0, <1>2 DEF Types
  <2> QED BY <1>0, <1>1, <2>1, <2>2 DEF Types
<1>5. ASSUME Lends(m) => \E t \in Threads : refs'[t][m] > 0 PROVE Items'
  <2>1. ASSUME NEW n \in 1..Len(msgs), IsItem(n)
        PROVE  msgs'[n].live /\ \A t \in Threads : at'[t] # n
    <3>1. msgs[n].live /\ \A t \in Threads : at[t] # n
      BY <1>0, <2>1 DEF Items
    <3>2. n # m /\ n # 0
      BY <1>3, <2>1
    <3> QED BY <1>1, <3>1, <3>2
  <2>2. ASSUME NEW n \in Owners, Lends(n)' PROVE \E t \in Threads : refs'[t][n] > 0
    <3>1. PICK j \in 1..Len(msgs), u \in Threads :
            refs'[u][j] > 0 /\ IsItem(j)' /\ Root(j)' \in Below(heap, Root(n)')
      BY <1>1, <2>2 DEF Lends, Holds
    <3>2. j # m /\ IsItem(j) /\ Root(j) \in Below(heap, Root(n))
      BY <1>2, <1>3, <3>1
    <3>3. Holds(u, j)
      BY <1>3, <3>1, <3>2 DEF Holds
    <3>4. Lends(n)
      BY <3>2, <3>3 DEF Lends
    <3>5. CASE n = m
      BY <1>5, <3>4, <3>5
    <3>6. CASE n # m
      <4>1. PICK v \in Threads : Holds(v, n)
        BY <1>0, <3>4 DEF Items
      <4> QED BY <1>3, <3>6, <4>1 DEF Holds
    <3> QED BY <3>5, <3>6
  <2> QED BY <1>1, <1>2, <2>1, <2>2 DEF Items, Holds
<1>6. ASSUME /\ IsFiniteSet(References(m)')
             /\ c = Cardinality(References(m)')
             /\ References(m)' = {} => \E t \in Threads : at'[t] = m
      PROVE  Counted'
  <2>1. ASSUME NEW n \in Owners, n # m PROVE References(n)' = References(n) /\ msgs'[n] = msgs[n]
    <3>1. \A u \in Threads : refs'[u][n] = refs[u][n]
      BY <1>3, <2>1
    <3> QED BY <1>1, <1>3, <2>1, <3>1, SameReferences
  <2>2. ASSUME NEW n \in Owners
        PROVE  /\ IsFiniteSet(References(n)')
               /\ IF msgs'[n].live
                  THEN /\ msgs'[n].count = Cardinality(References(n)')
                       /\ References(n)' = {} => \E u \in Threads : at'[u] = n
                  ELSE References(n)' = {}
    <3>1. CASE n = m
      BY <1>0, <1>1, <1>6, <3>1
    <3>2. CASE n # m
      BY <1>0, <2>1, <3>2, SMTT(30) DEF Counted
    <3> QED BY <3>1, <3>2
  <2>3. \A u \in Threads, i \in 1..MaxMsgs : refs'[u][i] > 0 => i <= Len(msgs)
    <3>1. SUFFICES ASSUME NEW u \in Threads, NEW i \in 1..MaxMsgs, refs'[u][i] > 0 PROVE i <= Len(msgs)
      OBVIOUS
    <3>2. CASE i = m
      BY <1>0, <3>2
    <3>3. CASE i # m
      BY <1>0, <3>1, <3>3 DEF Counted
    <3> QED BY <3>2, <3>3
  <2> QED BY <1>1, <1>2, <2>2, <2>3 DEF Counted
<1> QED BY <1>0, <1>1, <1>2, <1>4, <1>5, <1>6

LEMMA RetainStep ==
  ASSUME Inv, NEW t \in Threads, NEW m \in 1..Len(msgs), NEW u \in Threads, Retain(t, m, u)
  PROVE  Inv'
<1> DEFINE c == msgs[m].count + 1
           k == refs[u][m] + 1
<1>0. Types /\ Releasing /\ Counted /\ m \in Owners /\ Holds(t, m)
  BY DEF Inv, Retain, Uses, Owners
<1>1. /\ msgs[m].live /\ msgs[m].count \in 0..2 /\ msgs[m].count < 2
      /\ IsFiniteSet(References(m)) /\ msgs[m].count = Cardinality(References(m))
  <2>1. msgs[m].live
    BY HeldLive, <1>0
  <2> QED BY <1>0, <2>1, RootFacts DEF Counted, Retain
<1>2. /\ refs \in [Threads -> [1..MaxMsgs -> 0..2]] /\ m \in 1..MaxMsgs /\ refs[u][m] \in 0..2
  BY <1>0, RootFacts DEF Types, TypeOK
<1>3. refs[u][m] # 2
  <2>1. SUFFICES ASSUME refs[u][m] = 2 PROVE FALSE
    OBVIOUS
  <2>2. {<<u, 1>>, <<u, 2>>} \subseteq References(m)
    BY <2>1 DEF References
  <2>3. <<u, 1>> # <<u, 2>>
    OBVIOUS
  <2>4. Cardinality({<<u, 1>>, <<u, 2>>}) = 2
    <3>1. {<<u, 1>>} \cup {<<u, 2>>} = {<<u, 1>>, <<u, 2>>}
      OBVIOUS
    <3>2. IsFiniteSet({<<u, 1>>}) /\ Cardinality({<<u, 1>>}) = 1 /\ <<u, 2>> \notin {<<u, 1>>}
      BY <2>3, FS_Singleton
    <3>3. Cardinality({<<u, 1>>} \cup {<<u, 2>>}) = 1 + 1
      BY <3>2, FS_AddElement
    <3> QED BY <3>1, <3>3
  <2>5. Cardinality({<<u, 1>>, <<u, 2>>}) <= Cardinality(References(m))
    BY <1>1, <2>2, FS_Subset
  <2> QED BY <1>1, <2>4, <2>5
<1>4. c \in 0..2 /\ k \in 1..2
  BY <1>1, <1>2, <1>3
<1>5. /\ msgs' = [msgs EXCEPT ![m].count = c] /\ UNCHANGED <<heap, pc, at, fault>>
      /\ refs' = [refs EXCEPT ![u][m] = k]
  BY DEF Retain
<1>6. /\ \A v \in Threads, i \in 1..MaxMsgs : refs'[v][i] = IF v = u /\ i = m THEN k ELSE refs[v][i]
      /\ refs' \in [Threads -> [1..MaxMsgs -> 0..2]]
  <2>1. k \in 0..2
    BY <1>4
  <2> HIDE DEF k
  <2> QED BY <1>2, <1>5, <2>1
<1>7. References(m)' = References(m) \cup {<<u, k>>} /\ <<u, k>> \notin References(m)
  <2>1. <<u, k>> \notin References(m)
    BY <1>2, <1>4 DEF References
  <2>2. ASSUME NEW p \in Threads \X (0..2)
        PROVE  (IF p[2] = 0 THEN at'[p[1]] = m /\ pc'[p[1]] = "sub" ELSE p[2] <= refs'[p[1]][m])
               <=> (IF p[2] = 0 THEN at[p[1]] = m /\ pc[p[1]] = "sub" ELSE p[2] <= refs[p[1]][m])
                   \/ p = <<u, k>>
    <3>1. PICK v \in Threads, j \in 0..2 : p = <<v, j>>
      OBVIOUS
    <3>2. refs'[v][m] = IF v = u THEN refs[u][m] + 1 ELSE refs[v][m]
      BY <1>2, <1>6
    <3>3. p = <<u, k>> <=> v = u /\ j = refs[u][m] + 1
      BY <3>1
    <3> QED BY <1>2, <1>5, <3>1, <3>2, <3>3
  <2>3. <<u, k>> \in Threads \X (0..2)
    BY <1>4
  <2> HIDE DEF k
  <2> QED BY <2>1, <2>2, <2>3 DEF References
<1> HIDE DEF k
<1>8. /\ IsFiniteSet(References(m)') /\ c = Cardinality(References(m)')
      /\ References(m)' # {}
  BY <1>1, <1>7, OneMoreLess
<1> HIDE DEF c
<1>9. refs'[u][m] > 0
  BY <1>2, <1>4, <1>6
<1>10. /\ Types' /\ Trees' /\ Owners' = Owners /\ Items' /\ Counted'
       /\ msgs'[m].live
       /\ \A n \in 1..Len(msgs) : n # m => msgs'[n] = msgs[n]
  <2>1. /\ pc' \in [Threads -> {"idle", "sub", "test", "destroy"}]
        /\ at' \in [Threads -> 0..MaxMsgs]
    BY <1>0, <1>5 DEF Types, TypeOK
  <2>2. \A v \in Threads, i \in 1..MaxMsgs : i # m => refs'[v][i] = refs[v][i]
    BY <1>6
  <2> QED BY <1>0, <1>1, <1>4, <1>5, <1>6, <1>8, <1>9, <2>1, <2>2, ReferenceStep, ZenonT(60)
<1>11. Releasing'
  <2>1. ASSUME NEW v \in Threads, pc[v] = "destroy" PROVE at[v] \in Owners /\ at[v] # m
    <3>1. at[v] # 0 /\ at[v] \in Owners /\ msgs[at[v]].count = 0
      BY <1>0, <2>1 DEF Releasing
    <3>2. msgs[m].count # 0
      <4>1. References(m) # {}
        BY <1>0, HeldIsCounted
      <4> QED BY <1>1, <4>1, OneMoreLess
    <3> QED BY <3>1, <3>2
  <2>2. \A v \in Threads : at[v] \in Owners /\ msgs[at[v]].live => msgs'[at[v]].live
    BY <1>10 DEF Owners
  <2>3. \A v \in Threads : pc[v] = "destroy" => msgs'[at[v]].count = 0
    BY <1>0, <1>10, <2>1 DEF Owners, Releasing
  <2> QED BY <1>0, <1>5, <1>10, <2>2, <2>3 DEF Releasing
<1> QED BY <1>5, <1>10, <1>11 DEF Inv, NoFault

LEMMA ForgetStep ==
  ASSUME Inv, NEW t \in Threads, NEW m \in 1..Len(msgs), Forget(t, m)
  PROVE  Inv'
<1>0. /\ Types /\ Items /\ Releasing /\ Counted /\ m \notin Owners /\ Len(msgs) \in Nat
      /\ UNCHANGED <<heap, msgs, pc, at, fault>> /\ refs' = [refs EXCEPT ![t][m] = 0]
  BY RootFacts DEF Inv, Forget, Owners
<1>1. /\ refs \in [Threads -> [1..MaxMsgs -> 0..2]]
      /\ \A i \in 1..Len(msgs) : i \in 1..MaxMsgs
  BY <1>0, BoundsAssumption DEF Types, TypeOK
<1>2. /\ refs' \in [Threads -> [1..MaxMsgs -> 0..2]]
      /\ \A u \in Threads, i \in 1..MaxMsgs : refs'[u][i] = refs[u][i] \/ (i = m /\ refs'[u][i] = 0)
  BY <1>0, <1>1
<1>3. Trees' /\ Owners' = Owners /\ \A i \in Owners : i \in 1..Len(msgs) /\ i # m
  BY <1>0, SameTrees DEF Owners
<1>4. Types'
  BY <1>0, <1>2 DEF Types, TypeOK, Root
<1>5. Items'
  <2>1. \A u \in Threads, i \in 1..Len(msgs) : Holds(u, i)' => Holds(u, i)
    BY <1>1, <1>2 DEF Holds
  <2>2. \A u \in Threads, i \in Owners : Holds(u, i)' <=> Holds(u, i)
    BY <1>1, <1>2, <1>3 DEF Holds
  <2>3. \A i \in Owners : Lends(i)' => Lends(i)
    BY <1>0, <2>1 DEF Lends, IsItem, Root
  <2>4. \A i \in 1..Len(msgs) : IsItem(i)' <=> IsItem(i)
    BY <1>0 DEF IsItem, Root
  <2> QED BY <1>0, <1>3, <2>2, <2>3, <2>4 DEF Items
<1>6. Releasing'
  BY <1>0, <1>3 DEF Releasing
<1>7. Counted'
  <2>1. ASSUME NEW i \in Owners PROVE References(i)' = References(i)
    <3>1. \A u \in Threads : refs'[u][i] = refs[u][i]
      BY <1>1, <1>2, <1>3
    <3> QED BY <1>0, <3>1, SameReferences
  <2>2. \A u \in Threads, i \in 1..MaxMsgs : refs'[u][i] > 0 => refs[u][i] > 0
    BY <1>1, <1>2
  <2> QED BY <1>0, <1>3, <2>1, <2>2 DEF Counted
<1> QED BY <1>0, <1>3, <1>4, <1>5, <1>6, <1>7 DEF Inv, NoFault

\* What a thread is about to give up is still counted, and has not been freed.
LEMMA ReleaseStep ==
  ASSUME Inv, ~Together, ~ReleaseItem, NEW t \in Threads, NEW m \in 1..Len(msgs), Release(t, m)
  PROVE  Inv'
<1> DEFINE k == refs[t][m]
           c == msgs[m].count
<1>0. /\ Types /\ Releasing /\ Counted /\ m \in Owners /\ Holds(t, m) /\ ~Lends(m)
      /\ \A u \in Threads : at[u] # m
      /\ pc[t] = "idle" /\ at[t] = 0 /\ m # 0
  <2>1. /\ Types /\ Releasing /\ Counted /\ m \in Owners /\ Holds(t, m) /\ ~Lends(m)
        /\ \A u \in Threads : at[u] # m
        /\ pc[t] = "idle" /\ m # 0
    BY DEF Inv, Release, Uses, Owners
  <2> QED BY <2>1 DEF Releasing
<1>1. /\ msgs[m].live /\ c \in 0..2 /\ IsFiniteSet(References(m)) /\ c = Cardinality(References(m))
      /\ <<t, k>> \in References(m)
  <2>1. msgs[m].live
    BY HeldLive, <1>0
  <2> QED BY <1>0, <2>1, RootFacts, HeldIsCounted DEF Counted
<1>2. c # 0
  BY <1>1, OneMoreLess
<1>3. /\ refs \in [Threads -> [1..MaxMsgs -> 0..2]] /\ m \in 1..MaxMsgs /\ k \in 1..2
  BY <1>0, RootFacts DEF Types, TypeOK, Holds
<1>4. /\ refs' = [refs EXCEPT ![t][m] = k - 1]
      /\ at' = [at EXCEPT ![t] = m] /\ pc' = [pc EXCEPT ![t] = "sub"]
      /\ UNCHANGED <<heap, msgs>> /\ fault' = fault
  <2>1. msgs[m].live /\ msgs[m].count # 0
    BY <1>1, <1>2
  <2>2. /\ refs' = [refs EXCEPT ![t][m] = k - 1]
        /\ at' = [at EXCEPT ![t] = m] /\ UNCHANGED <<heap, msgs>>
        /\ pc' = [pc EXCEPT ![t] = IF msgs[m].live /\ msgs[m].count # 0 THEN "sub" ELSE "test"]
        /\ fault' = (fault \/ ~msgs[m].live)
    BY DEF Release
  <2>3. ~fault /\ fault \in BOOLEAN
    BY DEF Inv, NoFault, Types, TypeOK
  <2>4. fault' = fault
    BY <2>1, <2>2, <2>3
  <2>5. pc' = [pc EXCEPT ![t] = "sub"]
    BY <2>1, <2>2
  <2> QED BY <2>2, <2>4, <2>5
<1>5. /\ \A v \in Threads, i \in 1..MaxMsgs : refs'[v][i] = IF v = t /\ i = m THEN k - 1 ELSE refs[v][i]
      /\ refs' \in [Threads -> [1..MaxMsgs -> 0..2]]
  <2>1. k - 1 \in 0..2
    BY <1>3
  <2> DEFINE j == k - 1
  <2>2. refs' = [refs EXCEPT ![t][m] = j]
    BY <1>4
  <2> HIDE DEF k, j
  <2>3. /\ \A v \in Threads, i \in 1..MaxMsgs : refs'[v][i] = IF v = t /\ i = m THEN j ELSE refs[v][i]
        /\ refs' \in [Threads -> [1..MaxMsgs -> 0..2]]
    BY <1>3, <2>1, <2>2 DEF j
  <2> QED BY <2>3 DEF j
<1>6. /\ \A v \in Threads : at'[v] = IF v = t THEN m ELSE at[v]
      /\ \A v \in Threads : pc'[v] = IF v = t THEN "sub" ELSE pc[v]
      /\ at' \in [Threads -> 0..MaxMsgs]
      /\ pc' \in [Threads -> {"idle", "sub", "test", "destroy"}]
  BY <1>0, <1>3, <1>4 DEF Types, TypeOK
<1>7. /\ References(m)' = (References(m) \ {<<t, k>>}) \cup {<<t, 0>>}
      /\ <<t, 0>> \notin References(m) \ {<<t, k>>}
  <2>1. <<t, 0>> \notin References(m)
    BY <1>0 DEF References
  <2>2. ASSUME NEW p \in Threads \X (0..2)
        PROVE  (IF p[2] = 0 THEN at'[p[1]] = m /\ pc'[p[1]] = "sub" ELSE p[2] <= refs'[p[1]][m])
               <=> /\ \/ IF p[2] = 0 THEN at[p[1]] = m /\ pc[p[1]] = "sub" ELSE p[2] <= refs[p[1]][m]
                      \/ p = <<t, 0>>
                   /\ p # <<t, k>>
    <3>1. PICK v \in Threads, j \in 0..2 : p = <<v, j>>
      OBVIOUS
    <3>2. refs'[v][m] = IF v = t THEN k - 1 ELSE refs[v][m]
      BY <1>3, <1>5
    <3>3. (p = <<t, k>> <=> v = t /\ j = k) /\ (p = <<t, 0>> <=> v = t /\ j = 0)
      BY <3>1
    <3>4. p[1] = v /\ p[2] = j
      BY <3>1
    <3>5. CASE v = t
      BY <1>0, <1>3, <1>6, <3>2, <3>3, <3>4, <3>5
    <3>6. CASE v # t
      BY <1>3, <1>6, <3>2, <3>3, <3>4, <3>6
    <3> QED BY <3>5, <3>6
  <2>3. <<t, 0>> \in Threads \X (0..2) /\ <<t, 0>> # <<t, k>>
    BY <1>3
  <2> HIDE DEF k
  <2> QED BY <2>1, <2>2, <2>3 DEF References
<1> HIDE DEF k
<1>8. /\ IsFiniteSet(References(m)') /\ c = Cardinality(References(m)')
      /\ References(m)' # {}
  <2> DEFINE S == References(m) \ {<<t, k>>}
  <2>1. IsFiniteSet(S) /\ Cardinality(S) = c - 1
    BY <1>1, OneMoreLess
  <2>2. IsFiniteSet(S \cup {<<t, 0>>}) /\ Cardinality(S \cup {<<t, 0>>}) = Cardinality(S) + 1
    <3> HIDE DEF S
    <3>1. <<t, 0>> \notin S
      BY <1>7 DEF S
    <3> QED BY <2>1, <3>1, OneMoreLess
  <2> HIDE DEF c
  <2> QED BY <1>1, <1>7, <2>1, <2>2
<1>9. /\ Types' /\ Trees' /\ Owners' = Owners /\ Items' /\ Counted'
  <2>1. \A v \in Threads, i \in 1..MaxMsgs : i # m => refs'[v][i] = refs[v][i]
    BY <1>5
  <2>2. \A v \in Threads, i \in Owners : i # m =>
          ((at'[v] = i /\ pc'[v] = "sub") <=> (at[v] = i /\ pc[v] = "sub")) /\ (at[v] = i => at'[v] = i)
    <3>1. \A i \in Owners : i # 0
      BY DEF Owners
    <3> QED BY <1>0, <1>6, <3>1
  <2>3. \A v \in Threads : at'[v] = at[v] \/ at'[v] = 0 \/ at'[v] = m
    BY <1>6
  <2>4. c = msgs[m].count /\ msgs' = msgs
    BY <1>4
  <2> HIDE DEF c
  <2> QED BY <1>0, <1>1, <1>4, <1>5, <1>6, <1>8, <2>1, <2>2, <2>3, <2>4, ReferenceStep, ZenonT(60)
<1>10. Releasing'
  BY <1>0, <1>1, <1>4, <1>6, <1>9 DEF Releasing
<1> QED BY <1>4, <1>9, <1>10 DEF Inv, NoFault

LEMMA ReleaseSubStep ==
  ASSUME Inv, NEW t \in Threads, ReleaseSub(t)
  PROVE  Inv'
<1>n. PICK m : m = at[t]
  OBVIOUS
<1>0. /\ Types /\ Releasing /\ Counted /\ m \in Owners /\ m # 0 /\ m \in 1..Len(msgs)
      /\ pc[t] = "sub" /\ msgs[m].live
  <2>1. Types /\ Releasing /\ Counted /\ pc[t] = "sub"
    BY DEF Inv, ReleaseSub
  <2>2. m # 0 /\ m \in Owners /\ msgs[m].live
    BY <1>n, <2>1 DEF Releasing
  <2> QED BY <2>1, <2>2 DEF Owners
<1> DEFINE c == msgs[m].count - 1
<1>1. /\ msgs[m].count \in 0..2 /\ IsFiniteSet(References(m))
      /\ msgs[m].count = Cardinality(References(m))
      /\ <<t, 0>> \in References(m)
  <2>1. /\ msgs[m].count \in 0..2 /\ IsFiniteSet(References(m))
        /\ msgs[m].count = Cardinality(References(m))
    BY <1>0, RootFacts DEF Counted
  <2>2. 0 \in 0..2 /\ <<t, 0>> \in Threads \X (0..2)
    OBVIOUS
  <2>3. <<t, 0>> \in References(m)
    BY <1>0, <1>n, <2>2 DEF References
  <2> QED BY <2>1, <2>3
<1>2. c \in 0..2
  <2>1. msgs[m].count # 0
    BY <1>1, OneMoreLess
  <2> QED BY <1>1, <2>1
<1>3. /\ msgs' = [msgs EXCEPT ![m].count = c] /\ UNCHANGED <<heap, refs, at, fault>>
      /\ pc' = [pc EXCEPT ![t] = "test"]
  BY <1>0, <1>n DEF ReleaseSub
<1>4. /\ \A v \in Threads : pc'[v] = IF v = t THEN "test" ELSE pc[v]
      /\ pc' \in [Threads -> {"idle", "sub", "test", "destroy"}]
      /\ at' \in [Threads -> 0..MaxMsgs]
      /\ refs' \in [Threads -> [1..MaxMsgs -> 0..2]]
      /\ \A v \in Threads : at[v] = m => v = t
  <2>1. \A v \in Threads : at[v] = m => v = t
    BY <1>0, <1>n DEF Releasing
  <2> QED BY <1>0, <1>3, <2>1 DEF Types, TypeOK
<1>5. References(m)' = References(m) \ {<<t, 0>>}
  <2>1. ASSUME NEW p \in Threads \X (0..2)
        PROVE  (IF p[2] = 0 THEN at'[p[1]] = m /\ pc'[p[1]] = "sub" ELSE p[2] <= refs'[p[1]][m])
               <=> /\ IF p[2] = 0 THEN at[p[1]] = m /\ pc[p[1]] = "sub" ELSE p[2] <= refs[p[1]][m]
                   /\ p # <<t, 0>>
    <3>1. PICK v \in Threads, j \in 0..2 : p = <<v, j>>
      OBVIOUS
    <3>2. (p = <<t, 0>> <=> v = t /\ j = 0) /\ p[1] = v /\ p[2] = j
      BY <3>1
    <3> QED BY <1>3, <1>4, <3>2
  <2> QED BY <2>1 DEF References
<1>6. IsFiniteSet(References(m)') /\ c = Cardinality(References(m)')
  BY <1>1, <1>5, OneMoreLess
<1> HIDE DEF c
<1>7. Lends(m) => \E v \in Threads : refs'[v][m] > 0
  BY <1>0, <1>3 DEF Inv, Items, Holds
<1>8. /\ Types' /\ Trees' /\ Owners' = Owners /\ Items' /\ Counted'
      /\ Len(msgs') = Len(msgs) /\ msgs'[m].live
      /\ \A n \in 1..Len(msgs) : n # m => msgs'[n] = msgs[n]
  <2>1. \A v \in Threads, i \in 1..MaxMsgs : i # m => refs'[v][i] = refs[v][i]
    BY <1>3
  <2>2. \A v \in Threads, i \in Owners : i # m =>
          ((at'[v] = i /\ pc'[v] = "sub") <=> (at[v] = i /\ pc[v] = "sub")) /\ (at[v] = i => at'[v] = i)
    BY <1>0, <1>n, <1>3, <1>4
  <2>3. \A v \in Threads : at'[v] = at[v] \/ at'[v] = 0 \/ at'[v] = m
    BY <1>3
  <2>4. \E v \in Threads : at'[v] = m
    BY <1>3, <1>n
  <2> QED BY <1>0, <1>2, <1>3, <1>4, <1>6, <1>7, <2>1, <2>2, <2>3, <2>4, ReferenceStep, ZenonT(60)
<1>9. Releasing'
  <2>1. ASSUME NEW v \in Threads
        PROVE  /\ pc'[v] = "idle" <=> at[v] = 0
               /\ at[v] # 0 => at[v] \in Owners /\ msgs'[at[v]].live
               /\ pc'[v] = "destroy" => msgs'[at[v]].count = 0
    <3>1. /\ pc[v] = "idle" <=> at[v] = 0
          /\ at[v] # 0 => at[v] \in Owners /\ msgs[at[v]].live /\ at[v] \in 1..Len(msgs)
          /\ pc[v] = "destroy" => msgs[at[v]].count = 0
      BY <1>0 DEF Releasing, Owners
    <3>2. CASE v = t
      BY <1>0, <1>n, <1>4, <1>8, <3>1, <3>2
    <3>3. CASE v # t
      <4>1. at[v] # m /\ pc'[v] = pc[v]
        BY <1>4, <3>3
      <4>2. at[v] # 0 => msgs'[at[v]] = msgs[at[v]]
        BY <1>8, <3>1, <4>1
      <4> QED BY <3>1, <4>1, <4>2
    <3> QED BY <3>2, <3>3
  <2> QED BY <1>0, <1>3, <1>8, <2>1 DEF Releasing
<1> QED BY <1>3, <1>8, <1>9 DEF Inv, NoFault

LEMMA ReleaseTestStep ==
  ASSUME Inv, NEW t \in Threads, ReleaseTest(t)
  PROVE  Inv'
<1>n. PICK m : m = at[t]
  OBVIOUS
<1>0. /\ Types /\ Items /\ Releasing /\ Counted /\ m \in Owners /\ m # 0 /\ m \in 1..Len(msgs)
      /\ pc[t] = "test" /\ msgs[m].live
  <2>1. Types /\ Items /\ Releasing /\ Counted /\ pc[t] = "test"
    BY DEF Inv, ReleaseTest
  <2>2. m # 0 /\ m \in Owners /\ msgs[m].live
    BY <1>n, <2>1 DEF Releasing
  <2> QED BY <2>1, <2>2 DEF Owners
<1>1. /\ UNCHANGED <<heap, msgs, refs>> /\ fault' = fault
      /\ IF msgs[m].count = 0
         THEN pc' = [pc EXCEPT ![t] = "destroy"] /\ at' = at
         ELSE pc' = [pc EXCEPT ![t] = "idle"] /\ at' = [at EXCEPT ![t] = 0]
  <2>1. ~fault /\ fault \in BOOLEAN
    BY <1>0 DEF Inv, NoFault, Types, TypeOK
  <2>2. fault' = (fault \/ ~msgs[m].live)
    BY <1>n DEF ReleaseTest
  <2>3. fault' = fault
    BY <1>0, <2>1, <2>2
  <2> QED BY <1>0, <1>n, <2>3 DEF ReleaseTest
<1>2. /\ \A v \in Threads : v # t => pc'[v] = pc[v] /\ at'[v] = at[v]
      /\ pc' \in [Threads -> {"idle", "sub", "test", "destroy"}]
      /\ at' \in [Threads -> 0..MaxMsgs]
      /\ IF msgs[m].count = 0 THEN pc'[t] = "destroy" /\ at'[t] = m
                              ELSE pc'[t] = "idle" /\ at'[t] = 0
      /\ \A v \in Threads : at[v] = m => v = t
  <2>1. \A v \in Threads : at[v] = m => v = t
    BY <1>0, <1>n DEF Releasing
  <2>2. /\ pc \in [Threads -> {"idle", "sub", "test", "destroy"}]
        /\ at \in [Threads -> 0..MaxMsgs] /\ 0 \in 0..MaxMsgs
    BY <1>0, BoundsAssumption DEF Types, TypeOK
  <2> QED BY <1>n, <1>1, <2>1, <2>2
<1>3. Trees' /\ Owners' = Owners /\ \A n \in 1..Len(msgs) : IsItem(n)' = IsItem(n)
  BY <1>1, SameTrees
<1>4. Types'
  BY <1>0, <1>1, <1>2 DEF Types, TypeOK, Root
<1>5. Items'
  <2>1. \A n \in Owners : Lends(n)' = Lends(n)
    BY <1>1 DEF Lends, Holds, IsItem, Root
  <2>2. \A n \in 1..Len(msgs), v \in Threads : at'[v] = n => at[v] = n
    <3>1. \A n \in 1..Len(msgs) : n # 0
      BY <1>0, RootFacts
    <3> QED BY <1>n, <1>2, <3>1
  <2> QED BY <1>0, <1>1, <1>3, <2>1, <2>2 DEF Items, Holds
<1>6. Releasing'
  BY <1>0, <1>n, <1>1, <1>2, <1>3 DEF Releasing
<1>7. Counted'
  <2>1. ASSUME NEW n \in Owners PROVE References(n)' = References(n)
    <3>1. \A v \in Threads : (at'[v] = n /\ pc'[v] = "sub") <=> (at[v] = n /\ pc[v] = "sub")
      BY <1>0, <1>n, <1>2 DEF Owners
    <3> QED BY <1>1, <3>1, SameReferences
  <2>2. ASSUME NEW n \in Owners, msgs[n].live, References(n) = {} PROVE \E v \in Threads : at'[v] = n
    <3>1. PICK v \in Threads : at[v] = n
      BY <1>0, <2>2 DEF Counted
    <3>2. CASE v # t
      BY <1>2, <3>1, <3>2
    <3>3. CASE v = t
      <4>1. n = m /\ msgs[m].count = 0
        BY <1>0, <1>n, <2>2, <3>1, <3>3, FS_EmptySet DEF Counted
      <4> QED BY <1>2, <4>1
    <3> QED BY <3>2, <3>3
  <2> QED BY <1>0, <1>1, <1>3, <2>1, <2>2 DEF Counted
<1> QED BY <1>1, <1>3, <1>4, <1>5, <1>6, <1>7 DEF Inv, NoFault


\* What is below an item depends only on what each item is in.
LEMMA BelowSame ==
  ASSUME NEW h, Shape(h), NEW g, Len(g) = Len(h), \A k \in 1..Len(h) : g[k].up = h[k].up,
         NEW r
  PROVE  Shape(g) /\ Below(g, r) = Below(h, r)
<1>1. Shape(g)
  BY DEF Shape
<1>0. /\ Len(h) \in Nat /\ \A k \in 1..Len(h) : h[k].up \in 0..(k - 1)
      /\ Below(h, r) \subseteq 1..Len(h) /\ Below(g, r) \subseteq 1..Len(h)
      /\ \A k \in 1..Len(h) : k \in Below(h, r) <=> k = r \/ h[k].up \in Below(h, r)
      /\ \A k \in 1..Len(h) : k \in Below(g, r) <=> k = r \/ h[k].up \in Below(g, r)
  <2>1. Len(h) \in Nat /\ \A k \in 1..Len(h) : h[k].up \in 0..(k - 1)
    BY DEF Shape
  <2>2. /\ Below(g, r) \subseteq 1..Len(g)
        /\ \A k \in 1..Len(g) : k \in Below(g, r) <=> k = r \/ g[k].up \in Below(g, r)
    BY <1>1, BelowIs
  <2>3. /\ Below(h, r) \subseteq 1..Len(h)
        /\ \A k \in 1..Len(h) : k \in Below(h, r) <=> k = r \/ h[k].up \in Below(h, r)
    BY BelowIs
  <2> QED BY <2>1, <2>2, <2>3
<1> DEFINE T == {n \in Nat : \A k \in 0..Len(h) : k <= n => (k \in Below(g, r) <=> k \in Below(h, r))}
<1>2. 0 \in T
  BY <1>0
<1>3. ASSUME NEW n \in T PROVE n + 1 \in T
  <2>1. SUFFICES ASSUME NEW k \in 0..Len(h), k = n + 1
                 PROVE  k \in Below(g, r) <=> k \in Below(h, r)
    BY <1>0
  <2>2. k \in 1..Len(h) /\ h[k].up \in 0..Len(h) /\ h[k].up <= n
    BY <1>0, <2>1
  <2>3. h[k].up \in Below(g, r) <=> h[k].up \in Below(h, r)
    BY <2>2
  <2> QED BY <1>0, <2>2, <2>3
<1>4. Nat \subseteq T
  <2> HIDE DEF T
  <2> QED BY <1>2, <1>3, NatSetInduction
<1>5. ASSUME NEW k \in 1..Len(h) PROVE k \in Below(g, r) <=> k \in Below(h, r)
  <2>1. k \in Nat /\ k \in 0..Len(h) /\ k <= k
    BY <1>0
  <2> QED BY <1>4, <2>1
<1> HIDE DEF T
<1> QED BY <1>0, <1>1, <1>5

LEMMA FreedIs ==
  ASSUME NEW h, HeapOK(h), NEW set
  PROVE  /\ Freed(h, set) \in Seq(Node) /\ Len(Freed(h, set)) = Len(h)
         /\ \A k \in 1..Len(h) : /\ Freed(h, set)[k].up = h[k].up
                                 /\ Freed(h, set)[k].live <=> h[k].live /\ k \notin set
<1> DEFINE e(k) == [h[k] EXCEPT !.live = @ /\ k \notin set]
           g == [k \in 1..Len(h) |-> e(k)]
<1>0. Len(h) \in Nat /\ h \in Seq(Node)
  BY DEF HeapOK, Shape
<1>1. ASSUME NEW k \in 1..Len(h)
      PROVE  e(k) \in Node /\ e(k).up = h[k].up /\ (e(k).live <=> h[k].live /\ k \notin set)
  <2>1. h[k] \in Node
    BY <1>0, ElementOfSeq
  <2> DEFINE b == h[k].live /\ k \notin set
  <2>2. b \in BOOLEAN /\ e(k) = [h[k] EXCEPT !.live = b]
    OBVIOUS
  <2>3. e(k).live <=> b
    BY <2>1 DEF Node
  <2> HIDE DEF b
  <2>4. e(k) \in Node /\ e(k).up = h[k].up
    BY <2>1, <2>2 DEF Node
  <2> QED BY <2>3, <2>4 DEF b
<1>2. g \in [1..Len(h) -> Node]
  BY <1>1
<1>3. g \in Seq(Node) /\ Len(g) = Len(h) /\ \A k \in 1..Len(h) : g[k] = e(k)
  <2>1. \A k \in 1..Len(h) : g[k] = e(k)
    OBVIOUS
  <2>2. g \in Seq(Node) /\ Len(g) = Len(h)
    <3> HIDE DEF g
    <3> QED BY <1>0, <1>2, FunctionIsSeq
  <2> QED BY <2>1, <2>2
<1>4. Freed(h, set) = g
  BY DEF Freed
<1> HIDE DEF g
<1> QED BY <1>1, <1>3, <1>4

\* The last reference takes the message and all of its tree, and nothing else.
LEMMA DestroyStep ==
  ASSUME Inv, NEW t \in Threads, Destroy(t)
  PROVE  Inv'
<1>n. PICK m : m = at[t]
  OBVIOUS
<1>r. PICK r : r = Root(m)
  OBVIOUS
<1> DEFINE D == Below(heap, r)
<1>0. /\ Types /\ Trees /\ Items /\ Releasing /\ Counted
      /\ m \in Owners /\ m # 0 /\ m \in 1..Len(msgs)
      /\ pc[t] = "destroy" /\ msgs[m].live /\ msgs[m].count = 0
  <2>1. Types /\ Trees /\ Items /\ Releasing /\ Counted /\ pc[t] = "destroy"
    BY DEF Inv, Destroy
  <2>2. m # 0 /\ m \in Owners /\ msgs[m].live /\ msgs[m].count = 0
    BY <1>n, <2>1 DEF Releasing
  <2> QED BY <2>1, <2>2 DEF Owners
<1>1. References(m) = {}
  BY <1>0, OneMoreLess DEF Counted
<1>2. /\ HeapOK(heap) /\ Shape(heap) /\ Alike(heap) /\ Len(heap) \in Nat /\ Len(msgs) \in Nat
      /\ r \in 1..Len(heap) /\ heap[r].up = 0
      /\ \A n \in 1..Len(msgs) : Root(n) \in 1..Len(heap)
      /\ \A n \in Owners : n \in 1..Len(msgs) /\ heap[Root(n)].up = 0
  <2>1. HeapOK(heap) /\ Shape(heap) /\ Alike(heap)
    BY <1>0 DEF Types, HeapOK
  <2> QED BY <1>0, <1>r, <2>1, RootFacts
<1>3. /\ D \subseteq 1..Len(heap) /\ r \in D
      /\ \A k \in 1..Len(heap) : k \in D <=> k = r \/ heap[k].up \in D
      /\ \A k \in D : heap[k].live
  BY <1>0, <1>2, <1>r, BelowIs, BelowLow, TreeOfOwner
<1>4. Doomed(r) = D
  BY <1>2 DEF Doomed
<1> HIDE DEF D
<1>5. /\ msgs' = [msgs EXCEPT ![m].live = FALSE] /\ heap' = Freed(heap, D) /\ refs' = refs
      /\ pc' = [pc EXCEPT ![t] = "idle"] /\ at' = [at EXCEPT ![t] = 0]
      /\ fault' = fault
  <2>1. fault \in BOOLEAN
    BY <1>0 DEF Types, TypeOK
  <2>2. /\ msgs' = [msgs EXCEPT ![m].live = FALSE] /\ heap' = Freed(heap, D) /\ refs' = refs
        /\ pc' = [pc EXCEPT ![t] = "idle"] /\ at' = [at EXCEPT ![t] = 0]
    BY <1>0, <1>4, <1>n, <1>r DEF Destroy
  <2>3. fault' = (fault \/ (\E k \in D : ~heap[k].live))
    BY <1>0, <1>4, <1>n, <1>r DEF Destroy
  <2>4. fault' = fault
    BY <1>3, <2>1, <2>3
  <2> QED BY <2>2, <2>4
<1>6. /\ heap' \in Seq(Node) /\ Len(heap') = Len(heap)
      /\ \A k \in 1..Len(heap) : /\ heap'[k].up = heap[k].up
                                 /\ heap'[k].live <=> heap[k].live /\ k \notin D
  BY <1>2, <1>5, FreedIs
<1>7. Shape(heap') /\ \A n : Below(heap', n) = Below(heap, n)
  BY <1>2, <1>6, BelowSame
<1>8. Alike(heap')
  <2>1. SUFFICES ASSUME NEW k \in 1..Len(heap), heap[k].up # 0
                 PROVE  heap'[k].live <=> heap'[heap[k].up].live
    BY <1>6 DEF Alike
  <2>2. heap[k].up \in 1..Len(heap) /\ (heap[k].live <=> heap[heap[k].up].live) /\ k # r
    BY <1>2, <2>1 DEF Shape, Alike
  <2>3. k \in D <=> heap[k].up \in D
    BY <1>3, <2>2
  <2> QED BY <1>6, <2>2, <2>3
<1>9. /\ msgs' \in Seq(Struct) /\ Len(msgs') = Len(msgs)
      /\ ~msgs'[m].live
      /\ \A n \in 1..Len(msgs) : msgs'[n].root = msgs[n].root
      /\ \A n \in 1..Len(msgs) : n # m => msgs'[n] = msgs[n]
  <2> DEFINE x == [msgs[m] EXCEPT !.live = FALSE]
             s == [msgs EXCEPT ![m] = x]
  <2>1. msgs \in Seq(Struct)
    BY <1>0 DEF Types, TypeOK, Struct
  <2>2. msgs[m] \in Struct
    BY <1>0, <2>1, ElementOfSeq
  <2>3. x \in Struct /\ ~x.live /\ x.root = msgs[m].root
    BY <2>2 DEF Struct
  <2>4. msgs' = s
    BY <1>5
  <2> HIDE DEF x
  <2>5. s \in Seq(Struct) /\ Len(s) = Len(msgs)
        /\ \A n \in 1..Len(msgs) : s[n] = IF n = m THEN x ELSE msgs[n]
    BY <1>0, <2>1, <2>3, ExceptSeq
  <2> HIDE DEF s
  <2> QED BY <1>0, <2>3, <2>4, <2>5
<1>10. \A v \in Threads : IF v = t THEN pc'[v] = "idle" /\ at'[v] = 0
                                   ELSE pc'[v] = pc[v] /\ at'[v] = at[v] /\ at[v] # m
  <2>1. \A v \in Threads : v # t => at[v] # m
    BY <1>0, <1>n DEF Releasing
  <2> QED BY <1>0, <1>5, <2>1 DEF Types, TypeOK
<1>11. /\ \A n \in 1..Len(msgs) : Root(n)' = Root(n) /\ IsItem(n)' = IsItem(n)
       /\ Owners' = Owners
  <2>1. \A n \in 1..Len(msgs) : Root(n)' = Root(n)
    BY <1>9 DEF Root
  <2>2. \A n \in 1..Len(msgs) : IsItem(n)' = IsItem(n)
    BY <1>2, <1>6, <2>1 DEF IsItem
  <2> QED BY <1>9, <2>1, <2>2 DEF Owners
<1>12. Types'
  <2>1. HeapOK(heap') /\ Len(heap') <= MaxNodes
    BY <1>0, <1>6, <1>7, <1>8 DEF HeapOK, Types
  <2>2. /\ pc' \in [Threads -> {"idle", "sub", "test", "destroy"}]
        /\ at' \in [Threads -> 0..MaxMsgs]
    BY <1>0, <1>5, BoundsAssumption DEF Types, TypeOK
  <2>3. TypeOK'
    BY <1>0, <1>5, <1>9, <2>1, <2>2, TypedHeap DEF Types, TypeOK, Struct
  <2>4. \A n \in 1..Len(msgs) : Root(n)' <= Len(heap)
    BY <1>0, <1>11 DEF Types
  <2>5. Len(msgs') <= MaxMsgs
    BY <1>0, <1>9 DEF Types
  <2> QED BY <1>6, <1>9, <2>1, <2>3, <2>4, <2>5 DEF Types
<1>13. Trees'
  <2>1. \A n \in Owners : n \in 1..Len(msgs) /\ Root(n)' = Root(n)
    BY <1>2, <1>11
  <2>2. ASSUME NEW n \in Owners PROVE heap'[Root(n)].live <=> msgs'[n].live
    <3>1. CASE n = m
      BY <1>2, <1>3, <1>6, <1>9, <1>r, <3>1
    <3>2. CASE n # m
      <4>1. Root(n) \in Below(heap, Root(n)) /\ Root(n) \in 1..Len(heap)
        BY <1>2, BelowLow
      <4>2. Root(n) \notin D
        BY <1>0, <1>r, <3>2, <4>1, OneOwner DEF D
      <4>3. heap[Root(n)].live <=> msgs[n].live
        BY <1>0 DEF Trees
      <4> QED BY <1>6, <1>9, <2>1, <3>2, <4>1, <4>2, <4>3
    <3> QED BY <3>1, <3>2
  <2>3. \A i, n \in Owners : Root(i) = Root(n) => i = n
    BY <1>0 DEF Trees
  <2>4. \A k \in 1..Len(heap) : \E n \in Owners : k \in Below(heap, Root(n))
    BY <1>0 DEF Trees
  <2> QED BY <1>6, <1>7, <1>11, <2>1, <2>2, <2>3, <2>4 DEF Trees
<1>14. Items'
  <2>1. ASSUME NEW n \in 1..Len(msgs), IsItem(n) PROVE msgs'[n].live /\ \A v \in Threads : at'[v] # n
    <3>1. msgs[n].live /\ \A v \in Threads : at[v] # n
      BY <1>0, <2>1 DEF Items
    <3>2. n # m /\ n # 0
      BY <1>0, <2>1 DEF Owners
    <3> QED BY <1>9, <1>10, <3>1, <3>2
  <2>2. ASSUME NEW n \in Owners, Lends(n)' PROVE Lends(n)
    <3>1. PICK j \in 1..Len(msgs), u \in Threads :
            Holds(u, j)' /\ IsItem(j)' /\ Root(j)' \in Below(heap', Root(n)')
      BY <1>9, <2>2 DEF Lends
    <3>2. Holds(u, j) /\ IsItem(j) /\ Root(j) \in Below(heap, Root(n))
      BY <1>2, <1>5, <1>7, <1>11, <3>1 DEF Holds
    <3> QED BY <3>2 DEF Lends
  <2>3. \A n \in Owners : Lends(n) => \E v \in Threads : Holds(v, n)
    BY <1>0 DEF Items
  <2> QED BY <1>5, <1>9, <1>11, <2>1, <2>2, <2>3 DEF Items, Holds
<1>15. Releasing'
  <2>1. ASSUME NEW v \in Threads, v # t
        PROVE  /\ pc[v] = "idle" <=> at[v] = 0
               /\ at[v] # 0 => at[v] \in Owners /\ msgs'[at[v]] = msgs[at[v]] /\ msgs[at[v]].live
               /\ pc[v] = "destroy" => msgs[at[v]].count = 0 /\ at[v] # 0
    <3>1. /\ pc[v] = "idle" <=> at[v] = 0
          /\ at[v] # 0 => at[v] \in Owners /\ msgs[at[v]].live
          /\ pc[v] = "destroy" => msgs[at[v]].count = 0
      BY <1>0 DEF Releasing
    <3>2. at[v] # m
      BY <1>10, <2>1
    <3>3. at[v] # 0 => msgs'[at[v]] = msgs[at[v]]
      BY <1>2, <1>9, <3>1, <3>2
    <3> QED BY <3>1, <3>3
  <2>2. ASSUME NEW v \in Threads
        PROVE  /\ pc'[v] = "idle" <=> at'[v] = 0
               /\ at'[v] # 0 => at'[v] \in Owners /\ msgs'[at'[v]].live
               /\ pc'[v] = "destroy" => msgs'[at'[v]].count = 0
    <3>1. CASE v = t
      BY <1>10, <3>1
    <3>2. CASE v # t
      BY <1>10, <2>1, <3>2
    <3> QED BY <3>1, <3>2
  <2>3. \A v, u \in Threads : at'[v] # 0 /\ at'[v] = at'[u] => v = u
    BY <1>0, <1>10 DEF Releasing
  <2> QED BY <1>11, <2>2, <2>3 DEF Releasing
<1>16. Counted'
  <2>1. ASSUME NEW n \in Owners PROVE References(n)' = References(n)
    <3>1. \A v \in Threads : (at'[v] = n /\ pc'[v] = "sub") <=> (at[v] = n /\ pc[v] = "sub")
      BY <1>0, <1>10
    <3>2. \A v \in Threads : refs'[v][n] = refs[v][n]
      BY <1>5
    <3> QED BY <3>1, <3>2, SameReferences
  <2>2. ASSUME NEW n \in Owners, n # m
        PROVE  /\ msgs'[n] = msgs[n] /\ IsFiniteSet(References(n))
               /\ IF msgs[n].live
                  THEN /\ msgs[n].count = Cardinality(References(n))
                       /\ References(n) = {} => \E v \in Threads : at'[v] = n
                  ELSE References(n) = {}
    <3>1. msgs'[n] = msgs[n]
      BY <1>2, <1>9, <2>2
    <3>2. \A v \in Threads : at[v] = n => at'[v] = n
      BY <1>n, <1>10, <2>2
    <3> QED BY <1>0, <3>1, <3>2 DEF Counted
  <2>3. IsFiniteSet(References(m))
    BY <1>0 DEF Counted
  <2>4. \A v \in Threads, i \in 1..MaxMsgs : refs'[v][i] > 0 => i <= Len(msgs')
    BY <1>0, <1>5, <1>9 DEF Counted
  <2>5. ASSUME NEW n \in Owners
        PROVE  /\ IsFiniteSet(References(n)')
               /\ IF msgs'[n].live
                  THEN /\ msgs'[n].count = Cardinality(References(n)')
                       /\ References(n)' = {} => \E v \in Threads : at'[v] = n
                  ELSE References(n)' = {}
    <3>1. CASE n = m
      BY <1>1, <1>9, <2>1, <2>3, <3>1
    <3>2. CASE n # m
      BY <2>1, <2>2, <3>2
    <3> QED BY <3>1, <3>2
  <2> QED BY <1>11, <2>4, <2>5 DEF Counted
<1> QED BY <1>5, <1>12, <1>13, <1>14, <1>15, <1>16 DEF Inv, NoFault

-----------------------------------------------------------------------------
(* Each of the operations that make a message or add to one.                *)

\* What an operation knows of a message it is called for.
LEMMA Used ==
  ASSUME Inv, NEW t \in Threads, NEW m \in 1..Len(msgs), Uses(t, m)
  PROVE  /\ HeapOK(heap) /\ Shape(heap) /\ Len(heap) \in Nat /\ Len(heap) \in 0..MaxNodes
         /\ Root(m) \in 1..Len(heap)
         /\ \A k \in Below(heap, Root(m)) : k \in 1..Len(heap) /\ heap[k].live
         /\ Root(m) \in Below(heap, Root(m))
         /\ ~IsItem(m) => m \in Owners
<1>1. Types /\ HeapOK(heap) /\ Shape(heap) /\ MaxNodes \in Nat /\ Len(heap) <= MaxNodes
  BY BoundsAssumption DEF Inv, Types, HeapOK
<1>2. Len(heap) \in Nat /\ Root(m) \in 1..Len(heap)
  BY <1>1, RootFacts
<1>3. Holds(t, m)
  BY DEF Uses
<1>4. \A k \in Below(heap, Root(m)) : k \in 1..Len(heap) /\ heap[k].live
  BY <1>3, HeldLive
<1>5. Root(m) \in Below(heap, Root(m))
  BY <1>1, <1>2, BelowLow
<1>6. ~IsItem(m) => m \in Owners
  BY DEF Owners
<1> QED BY <1>1, <1>2, <1>4, <1>5, <1>6

\* A named item of a message is below its root.
LEMMA NamedIsBelow ==
  ASSUME Shape(heap), NEW r \in 1..Len(heap), NEW name, NEW k \in GetObjectItem(r, name)
  PROVE  k \in Below(heap, r)
<1>1. k \in 1..Len(heap) /\ heap[k].up = r
  BY DEF GetObjectItem, IsChild
<1>2. r \in Below(heap, r)
  BY BelowLow
<1> QED BY <1>1, <1>2, BelowIs

\* Adding a tree under an item of a message.
LEMMA AddStep ==
  ASSUME Inv, NEW m \in Owners, NEW k \in Below(heap, Root(m)), k \in 1..Len(heap), heap[k].live,
         NEW d, IsTree(d), NEW name \in Names \cup {NoName},
         NewTree(Added(heap, d, k, name)), UNCHANGED <<msgs, refs, pc, at, fault>>
  PROVE  Inv'
<1>1. HeapOK(heap) /\ k \in 0..Len(heap)
  BY DEF Inv, Types
<1>2. Grown(heap, Added(heap, d, k, name), k)
  BY <1>1, AddedGrows
<1>3. heap' = Added(heap, d, k, name) /\ Len(heap') <= MaxNodes
  BY DEF NewTree
<1>4. Grown(heap, heap', k)
  BY <1>2, <1>3
<1> QED BY <1>3, <1>4, FillStep

\* Making a message of a tree.
LEMMA MakeStep ==
  ASSUME Inv, NEW t \in Threads, NEW d, IsTree(d),
         NewTree(Added(heap, d, 0, NoName)), NewMessage(t, Len(heap) + 1),
         UNCHANGED <<pc, at, fault>>
  PROVE  Inv'
<1>1. HeapOK(heap) /\ 0 \in 0..Len(heap)
  BY DEF Inv, Types, HeapOK, Shape
<1>2. Grown(heap, Added(heap, d, 0, NoName), 0)
  BY <1>1, AddedGrows
<1>3. heap' = Added(heap, d, 0, NoName) /\ Len(heap') <= MaxNodes
  BY DEF NewTree
<1>4. Grown(heap, heap', 0)
  BY <1>2, <1>3
<1> QED BY <1>3, <1>4, NewTreeStep

LEMMA CreateStep ==
  ASSUME Inv, NEW t \in Threads, Create(t)
  PROVE  Inv'
BY LeafIsTree, MakeStep DEF Create

LEMMA CopyStep ==
  ASSUME Inv, NEW t \in Threads, NEW m \in 1..Len(msgs),
         Clone(t, m) \/ FromBytes(t, m) \/ GetMessage(t, m)
  PROVE  Inv'
<1>1. CASE Clone(t, m)
  <2>1. IsTree(Duplicate(Root(m)))
    BY <1>1, Used, DuplicateIsTree DEF Clone
  <2> QED BY <1>1, <2>1, MakeStep DEF Clone
<1>2. CASE FromBytes(t, m)
  <2>1. PICK u \in Threads : Uses(u, m)
    BY <1>2 DEF FromBytes
  <2>2. IsTree(Duplicate(Root(m)))
    BY <2>1, Used, DuplicateIsTree
  <2> QED BY <1>2, <2>2, MakeStep DEF FromBytes
<1>3. CASE GetMessage(t, m)
  <2>1. PICK k \in GetObjectItem(Root(m), "item") : NewTree(Added(heap, Duplicate(k), 0, NoName))
    BY <1>3 DEF GetMessage
  <2>2. Uses(t, m) /\ NewMessage(t, Len(heap) + 1) /\ UNCHANGED <<pc, at, fault>>
    BY <1>3 DEF GetMessage
  <2>3. /\ HeapOK(heap) /\ Shape(heap) /\ Root(m) \in 1..Len(heap)
        /\ \A j \in Below(heap, Root(m)) : j \in 1..Len(heap) /\ heap[j].live
    BY <2>2, Used
  <2>4. k \in 1..Len(heap) /\ heap[k].live
    BY <2>3, NamedIsBelow
  <2>5. IsTree(Duplicate(k))
    BY <2>3, <2>4, DuplicateIsTree
  <2> QED BY <2>1, <2>2, <2>5, MakeStep
<1> QED BY <1>1, <1>2, <1>3

LEMMA GetMessageItemStep ==
  ASSUME Inv, NEW t \in Threads, NEW m \in 1..Len(msgs), GetMessageItem(t, m)
  PROVE  Inv'
<1>1. Uses(t, m) /\ UNCHANGED <<heap, pc, at, fault>>
  BY DEF GetMessageItem
<1>2. PICK k \in GetObjectItem(Root(m), "list"), j \in 1..Len(heap) :
        IsChild(heap, j, k) /\ NewMessage(t, j)
  BY DEF GetMessageItem
<1>3. /\ Shape(heap) /\ Len(heap) \in Nat /\ Root(m) \in 1..Len(heap)
      /\ Types /\ Trees /\ Holds(t, m)
  BY <1>1, Used DEF Inv, Uses
<1>4. k \in Below(heap, Root(m)) /\ k \in 1..Len(heap)
  BY <1>3, NamedIsBelow, BelowIs
<1>5. j \in Below(heap, Root(m)) /\ heap[j].up # 0
  BY <1>2, <1>3, <1>4, BelowIs DEF IsChild
<1>6. PICK o \in Owners : /\ Below(heap, Root(m)) \subseteq Below(heap, Root(o))
                          /\ \E u \in Threads : Holds(u, o)
  BY <1>3, HeldIn
<1>7. \A p \in Owners : j \in Below(heap, Root(p)) => p = o
  BY <1>3, <1>5, <1>6, OneOwner
<1> QED BY <1>1, <1>2, <1>5, <1>6, <1>7, NewItemStep

LEMMA SetFieldStep ==
  ASSUME Inv, NEW t \in Threads, NEW m \in 1..Len(msgs), SetField(t, m)
  PROVE  Inv'
<1>1. PICK v \in Vals : NewTree(Added(heap, LeafTree(v), Root(m), "field"))
  BY DEF SetField
<1>2. Uses(t, m) /\ ~IsItem(m) /\ UNCHANGED <<msgs, refs, pc, at, fault>>
  BY DEF SetField
<1>3. "field" \in Names \cup {NoName}
  BY DEF Names
<1> QED BY <1>1, <1>2, <1>3, Used, LeafIsTree, AddStep

LEMMA SetMessageStep ==
  ASSUME Inv, NEW t \in Threads, NEW m \in 1..Len(msgs), NEW item \in 1..Len(msgs),
         SetMessage(t, m, item)
  PROVE  Inv'
<1>1. /\ Uses(t, m) /\ Uses(t, item) /\ ~IsItem(m) /\ UNCHANGED <<msgs, refs, pc, at, fault>>
      /\ NewTree(Added(heap, Duplicate(Root(item)), Root(m), "item"))
  BY DEF SetMessage
<1>2. "item" \in Names \cup {NoName}
  BY DEF Names
<1>3. IsTree(Duplicate(Root(item)))
  BY <1>1, Used, DuplicateIsTree
<1> QED BY <1>1, <1>2, <1>3, Used, AddStep

\* A tree is added to an array, which is there or comes with it.
LEMMA AddToArrayStep ==
  ASSUME Inv, NEW t \in Threads, NEW m \in 1..Len(msgs), Uses(t, m), ~IsItem(m),
         NEW d, IsTree(d), AddToArray(m, "list", d), UNCHANGED <<msgs, refs, pc, at, fault>>
  PROVE  Inv'
<1> DEFINE array == GetObjectItem(Root(m), "list")
<1>1. /\ HeapOK(heap) /\ Shape(heap) /\ Len(heap) \in Nat /\ Root(m) \in 1..Len(heap)
      /\ \A k \in Below(heap, Root(m)) : k \in 1..Len(heap) /\ heap[k].live
      /\ Root(m) \in Below(heap, Root(m)) /\ m \in Owners
  BY Used
<1>2. "list" \in Names \cup {NoName} /\ NoName \in Names \cup {NoName}
  BY DEF Names
<1>3. CASE array # {}
  <2>1. PICK k \in array : NewTree(Added(heap, d, k, NoName))
    BY <1>3 DEF AddToArray
  <2>2. k \in Below(heap, Root(m)) /\ k \in 1..Len(heap) /\ heap[k].live
    BY <1>1, NamedIsBelow
  <2> HIDE DEF array
  <2> QED BY <1>1, <1>2, <2>1, <2>2, AddStep
<1>4. CASE array = {}
  <2> DEFINE g == Added(heap, EmptyTree, Root(m), "list")
             f == Added(g, d, Len(heap) + 1, NoName)
  <2>1. heap' = f /\ Len(f) <= MaxNodes
    BY <1>4 DEF AddToArray, NewTree
  <2>2. Root(m) \in 0..Len(heap) /\ heap[Root(m)].live
    BY <1>1
  <2>3. Grown(heap, g, Root(m)) /\ Len(g) = Len(heap) + 1
    <3>1. Len(EmptyTree) = 1
      BY DEF EmptyTree
    <3>2. Grown(heap, g, Root(m)) /\ Len(g) = Len(heap) + Len(EmptyTree)
      BY <1>1, <1>2, <2>2, LeafIsTree, AddedGrows
    <3> QED BY <3>1, <3>2
  <2> HIDE DEF g
  <2>4. HeapOK(g)
    BY <1>1, <2>2, <2>3, GrownHeap
  <2>5. Grown(g, f, Len(heap) + 1)
    <3>1. Len(heap) + 1 \in 0..Len(g)
      BY <1>1, <2>3
    <3> QED BY <1>2, <2>4, <3>1, AddedGrows
  <2> HIDE DEF f
  <2>6. Grown(heap, heap', Root(m)) /\ Len(heap') <= MaxNodes
    BY <1>1, <2>1, <2>2, <2>3, <2>4, <2>5, GrownTwice
  <2> QED BY <1>1, <2>2, <2>6, FillStep
<1> QED BY <1>3, <1>4

LEMMA AddStringStep ==
  ASSUME Inv, NEW t \in Threads, NEW m \in 1..Len(msgs), AddString(t, m)
  PROVE  Inv'
<1>1. PICK v \in Vals : AddToArray(m, "list", LeafTree(v))
  BY DEF AddString
<1> QED BY <1>1, LeafIsTree, AddToArrayStep DEF AddString

LEMMA AddMessageStep ==
  ASSUME Inv, NEW t \in Threads, NEW m \in 1..Len(msgs), NEW item \in 1..Len(msgs),
         AddMessage(t, m, item)
  PROVE  Inv'
<1>1. IsTree(Duplicate(Root(item)))
  BY Used, DuplicateIsTree DEF AddMessage
<1> QED BY <1>1, AddToArrayStep DEF AddMessage

\* Freeing nothing changes nothing.
LEMMA FreedNothing ==
  ASSUME NEW h, HeapOK(h) PROVE Freed(h, {}) = h
<1>1. h \in Seq(Node) /\ Len(h) \in Nat /\ h \in [1..Len(h) -> Node]
  BY LenProperties DEF HeapOK, Shape
<1>2. ASSUME NEW k \in 1..Len(h) PROVE [h[k] EXCEPT !.live = @ /\ k \notin {}] = h[k]
  <2>1. h[k] \in Node
    BY <1>1
  <2>2. (h[k].live /\ k \notin {}) = h[k].live
    BY <2>1 DEF Node
  <2>3. [h[k] EXCEPT !.live = h[k].live] = h[k]
    BY <2>1 DEF Node
  <2> QED BY <2>2, <2>3
<1> QED BY <1>1, <1>2 DEF Freed

LEMMA SetSendTopicStep ==
  ASSUME Inv, ~Retopic, NEW t \in Threads, NEW m \in 1..Len(msgs), SetSendTopic(t, m)
  PROVE  Inv'
<1> DEFINE old == GetObjectItem(Root(m), "_topic")
<1>1. Uses(t, m) /\ ~IsItem(m) /\ UNCHANGED <<msgs, refs, pc, at>> /\ old = {}
  BY DEF SetSendTopic
<1>2. HeapOK(heap) /\ fault \in BOOLEAN
  BY DEF Inv, Types, TypeOK
<1>3. PICK v \in Vals : NewTree(Added(Freed(heap, old), LeafTree(v), Root(m), "_topic"))
  BY DEF SetSendTopic
<1>4. NewTree(Added(heap, LeafTree(v), Root(m), "_topic"))
  BY <1>1, <1>2, <1>3, FreedNothing
<1>5. fault' = fault
  BY <1>1, <1>2 DEF SetSendTopic
<1>6. "_topic" \in Names \cup {NoName}
  BY DEF Names
<1> QED BY <1>1, <1>4, <1>5, <1>6, Used, LeafIsTree, AddStep

-----------------------------------------------------------------------------
(* The theorems.                                                            *)

LEMMA InitInv == Init => Inv
<1> SUFFICES ASSUME Init PROVE Inv
  OBVIOUS
<1>1. /\ heap = <<>> /\ msgs = <<>> /\ Len(heap) = 0 /\ Len(msgs) = 0 /\ fault = FALSE
      /\ refs = [t \in Threads |-> [m \in 1..MaxMsgs |-> 0]]
      /\ pc = [t \in Threads |-> "idle"] /\ at = [t \in Threads |-> 0]
      /\ MaxMsgs \in Nat /\ MaxNodes \in Nat
  BY BoundsAssumption DEF Init
<1>2. HeapOK(heap)
  BY <1>1 DEF HeapOK, Shape, Alike
<1>3. \A m : m \notin 1..Len(msgs)
  BY <1>1
<1>4. TypeOK
  <2>1. \A S : <<>> \in Seq(S)
    OBVIOUS
  <2>2. /\ refs \in [Threads -> [1..MaxMsgs -> 0..2]]
        /\ pc \in [Threads -> {"idle", "sub", "test", "destroy"}]
        /\ at \in [Threads -> 0..MaxMsgs] /\ fault \in BOOLEAN
    <3>1. 0 \in 0..2 /\ 0 \in 0..MaxMsgs
      BY <1>1
    <3>2. [m \in 1..MaxMsgs |-> 0] \in [1..MaxMsgs -> 0..2]
      BY <3>1
    <3>3. refs \in [Threads -> [1..MaxMsgs -> 0..2]]
      BY <1>1, <3>2, Zenon
    <3>4. pc \in [Threads -> {"idle", "sub", "test", "destroy"}]
      BY <1>1
    <3>5. at \in [Threads -> 0..MaxMsgs] /\ fault \in BOOLEAN
      BY <1>1, <3>1
    <3> QED BY <3>3, <3>4, <3>5
  <2> QED BY <1>1, <2>1, <2>2, Zenon DEF TypeOK
<1>5. Types
  BY <1>1, <1>2, <1>3, <1>4 DEF Types
<1>6. Owners = {}
  BY <1>3 DEF Owners
<1>7. Trees
  BY <1>1, <1>6 DEF Trees
<1>8. Items
  BY <1>3, <1>6 DEF Items
<1>9. Releasing
  BY <1>1 DEF Releasing
<1>10. Counted
  BY <1>1, <1>6 DEF Counted
<1> QED BY <1>1, <1>5, <1>7, <1>8, <1>9, <1>10 DEF Inv, NoFault

LEMMA NextInv ==
  ASSUME ~Together, ~ReleaseItem, ~Retopic, Inv, [Next]_vars
  PROVE  Inv'
<1>1. CASE UNCHANGED vars
  <2>1. UNCHANGED <<heap, msgs, refs, pc, at, fault>>
    BY <1>1 DEF vars
  <2>2. /\ Types' = Types /\ Owners' = Owners /\ Trees' = Trees
    BY <2>1 DEF Types, TypeOK, Owners, IsItem, Root, Trees
  <2>3. Items' = Items /\ Releasing' = Releasing
    BY <2>1, <2>2 DEF Items, Releasing, IsItem, Root, Lends, Holds
  <2>4. Counted' = Counted /\ NoFault' = NoFault
    BY <2>1, <2>2 DEF Counted, NoFault, References
  <2> QED BY <2>2, <2>3, <2>4 DEF Inv
<1>2. ASSUME NEW t \in Threads, NEW m \in 1..Len(msgs), Fill(t, m) PROVE Inv'
  BY <1>2, SetFieldStep, AddStringStep, SetSendTopicStep DEF Fill
<1>3. ASSUME NEW t \in Threads, NEW m \in 1..Len(msgs), Copy(t, m) PROVE Inv'
  BY <1>3, CopyStep, GetMessageItemStep DEF Copy
<1>4. ASSUME NEW t \in Threads, NEW m \in 1..Len(msgs), Share(t, m) PROVE Inv'
  BY <1>4, ForgetStep, ReleaseStep, RetainStep DEF Share
<1>5. ASSUME NEW t \in Threads, NEW m \in 1..Len(msgs), NEW item \in 1..Len(msgs),
             SetMessage(t, m, item) \/ AddMessage(t, m, item)
      PROVE  Inv'
  BY <1>5, SetMessageStep, AddMessageStep
<1>6. ASSUME NEW t \in Threads,
             Create(t) \/ ReleaseSub(t) \/ ReleaseTest(t) \/ Destroy(t)
      PROVE  Inv'
  BY <1>6, CreateStep, ReleaseSubStep, ReleaseTestStep, DestroyStep
<1> QED BY <1>1, <1>2, <1>3, <1>4, <1>5, <1>6 DEF Next

\* Whatever the number of threads, messages and items: the structs, the items and
\* the counters of rtMessage.c stay what they are declared to be, and a counter
\* never goes below zero, if a message is released by one thread at a time, no
\* message of rtMessage_GetMessageItem is released and no topic is set twice.
THEOREM MessageTypes ==
  ASSUME ~Together, ~ReleaseItem, ~Retopic PROVE Spec => []TypeOK
<1>1. Inv => TypeOK
  BY DEF Inv, Types
<1> QED BY <1>1, InitInv, NextInv, PTL DEF Spec

\* Under the same conditions rtMessage.c uses or frees nothing that was freed,
\* keeps what rtMessage_Create, rtMessage_Clone or rtMessage_Retain gave somebody
\* until that is released, and then leaves neither the message nor an item behind.
THEOREM MemorySafeInvariant ==
  ASSUME ~Together, ~ReleaseItem, ~Retopic PROVE Spec => []MemorySafe
<1>1. Inv => MemorySafe
  BY InvIsSafe
<1> QED BY <1>1, InitInv, NextInv, PTL DEF Spec

-----------------------------------------------------------------------------
(* Places in the order of addresses.                                        *)

\* The elements of a set in their order: each once, at its place.
LEMMA OrderedIs ==
  ASSUME NEW N \in Nat, NEW S \in SUBSET (1..N)
  PROVE  /\ Cardinality(S) \in Nat /\ Len(Ordered(S)) = Cardinality(S)
         /\ DOMAIN Ordered(S) = 1..Cardinality(S)
         /\ \A n \in 1..Cardinality(S) : Ordered(S)[n] \in S /\ Place(S, Ordered(S)[n]) = n
         /\ \A k \in S : Place(S, k) \in 1..Cardinality(S) /\ Ordered(S)[Place(S, k)] = k
<1> PICK c : c = Cardinality(S)
  OBVIOUS
<1>0. /\ Cardinality(S) \in Nat
      /\ \A k \in S : Place(S, k) \in 1..Cardinality(S)
      /\ \A j, k \in S : j < k => Place(S, j) < Place(S, k)
      /\ \A n \in 1..Cardinality(S) : \E k \in S : Place(S, k) = n
  BY Places
<1>1. /\ c \in Nat
      /\ \A k \in S : k \in Nat /\ Place(S, k) \in 1..c
      /\ \A j, k \in S : j < k => Place(S, j) < Place(S, k)
      /\ \A n \in 1..c : \E k \in S : Place(S, k) = n
  BY <1>0
<1>2. \A j, k \in S : Place(S, j) = Place(S, k) => j = k
  <2> SUFFICES ASSUME NEW j \in S, NEW k \in S, Place(S, j) = Place(S, k) PROVE j = k
    OBVIOUS
  <2>1. ~(j < k) /\ ~(k < j)
    BY <1>1
  <2> QED BY <1>1, <2>1
<1>3. Ordered(S) = [n \in 1..c |-> CHOOSE k \in S : Place(S, k) = n]
  BY DEF Ordered
<1>4. ASSUME NEW n \in 1..c PROVE Ordered(S)[n] \in S /\ Place(S, Ordered(S)[n]) = n
  BY <1>1, <1>3
<1>5. ASSUME NEW k \in S PROVE Ordered(S)[Place(S, k)] = k
  BY <1>1, <1>2, <1>4
<1>6. DOMAIN Ordered(S) = 1..c /\ Len(Ordered(S)) = c
  BY <1>1, <1>3
<1> QED BY <1>1, <1>4, <1>5, <1>6

LEMMA OrderedAt ==
  ASSUME NEW N \in Nat, NEW S \in SUBSET (1..N), NEW k \in S
  PROVE  Ordered(S)[Place(S, k)] = k
BY OrderedIs

\* A map that keeps the order keeps the places.
IsOrderMap(f, S, T) ==
  /\ \A j, k \in S : f[k] \in Nat /\ (j < k => f[j] < f[k])
  /\ \A k \in S : f[k] \in T
  /\ \A b \in T : \E k \in S : b = f[k]

SamePlaces(f, S, T) ==
  /\ Cardinality(T) = Cardinality(S)
  /\ \A k \in S : Place(T, f[k]) = Place(S, k)

LEMMA PlacesKept ==
  ASSUME NEW N \in Nat, NEW S \in SUBSET (1..N), NEW f, NEW T, IsOrderMap(f, S, T)
  PROVE  SamePlaces(f, S, T)
<1>1. \A j, k \in S : (f[j] <= f[k] <=> j <= k) /\ (f[j] = f[k] => j = k)
  <2> SUFFICES ASSUME NEW j \in S, NEW k \in S
               PROVE  (f[j] <= f[k] <=> j <= k) /\ (f[j] = f[k] => j = k)
    OBVIOUS
  <2>1. /\ j \in Nat /\ k \in Nat /\ f[j] \in Nat /\ f[k] \in Nat
        /\ (j < k => f[j] < f[k]) /\ (k < j => f[k] < f[j])
    BY DEF IsOrderMap
  <2> QED BY <2>1
<1>2. IsFiniteSet(S)
  BY Places
<1>3. ASSUME NEW A \in SUBSET S PROVE Cardinality({f[k] : k \in A}) = Cardinality(A)
  <2> DEFINE g == [k \in A |-> f[k]]
             B == {f[k] : k \in A}
  <2>1. g \in [A -> B] /\ (\A b \in B : \E a \in A : g[a] = b) /\ \A a, b \in A : g[a] = g[b] => a = b
    BY <1>1
  <2>2. g \in Bijection(A, B)
    BY <2>1 DEF Bijection, Injection, Surjection, IsInjective
  <2>3. ExistsBijection(A, B)
    BY <2>2 DEF ExistsBijection
  <2>4. IsFiniteSet(A)
    BY <1>2, FS_Subset
  <2> QED BY <2>3, <2>4, FS_Bijection
<1>4. ASSUME NEW k \in S PROVE Place(T, f[k]) = Place(S, k)
  <2>1. {b \in T : b <= f[k]} = {f[j] : j \in {j \in S : j <= k}}
    <3>1. \A j \in S : f[j] \in T /\ (f[j] <= f[k] <=> j <= k)
      BY <1>1 DEF IsOrderMap
    <3>2. \A b \in T : \E j \in S : b = f[j]
      BY DEF IsOrderMap
    <3> QED BY <3>1, <3>2
  <2> PICK A : A = {j \in S : j <= k}
    OBVIOUS
  <2>2. A \in SUBSET S
    OBVIOUS
  <2>3. Cardinality({f[j] : j \in A}) = Cardinality(A)
    BY <1>3, <2>2
  <2> QED BY <2>1, <2>3 DEF Place
<1>5. Cardinality(T) = Cardinality(S)
  <2>1. S \in SUBSET S /\ T = {f[k] : k \in S}
    BY DEF IsOrderMap
  <2> QED BY <1>3, <2>1
<1> QED BY <1>4, <1>5 DEF SamePlaces

SameOrder(f, S, T) ==
  /\ Len(Ordered(T)) = Len(Ordered(S))
  /\ \A n \in 1..Len(Ordered(S)) : Ordered(S)[n] \in S /\ Ordered(T)[n] = f[Ordered(S)[n]]

LEMMA OrderedMapped ==
  ASSUME NEW N \in Nat, NEW S \in SUBSET (1..N), NEW f, NEW T, IsOrderMap(f, S, T),
         NEW M \in Nat, T \in SUBSET (1..M)
  PROVE  SameOrder(f, S, T)
<1>1. /\ Cardinality(T) = Cardinality(S)
      /\ \A k \in S : Place(T, f[k]) = Place(S, k)
  <2>1. SamePlaces(f, S, T)
    BY PlacesKept
  <2> QED BY <2>1 DEF SamePlaces
<1>2. Len(Ordered(T)) = Cardinality(T) /\ Len(Ordered(S)) = Cardinality(S)
  BY OrderedIs
<1>3. ASSUME NEW n \in 1..Len(Ordered(S))
      PROVE  Ordered(S)[n] \in S /\ Ordered(T)[n] = f[Ordered(S)[n]]
  <2>1. Ordered(S)[n] \in S /\ Place(S, Ordered(S)[n]) = n
    BY <1>2, OrderedIs
  <2> PICK k \in S : k = Ordered(S)[n]
    BY <2>1
  <2>2. f[k] \in T /\ Place(T, f[k]) = n
    BY <1>1, <2>1 DEF IsOrderMap
  <2>3. Ordered(T)[Place(T, f[k])] = f[k]
    BY <2>2, OrderedAt
  <2> QED BY <2>2, <2>3
<1> QED BY <1>1, <1>2, <1>3 DEF SameOrder

\* A greater element comes last.
ComesLast(x, s, t) ==
  /\ Len(s) \in Nat /\ Len(t) = Len(s) + 1 /\ t[Len(s) + 1] = x
  /\ \A n \in 1..Len(s) : t[n] = s[n]

LEMMA OrderedLast ==
  ASSUME NEW N \in Nat, NEW S \in SUBSET (1..N), NEW x \in Nat, N < x
  PROVE  ComesLast(x, Ordered(S), Ordered(S \cup {x}))
<1> PICK T : T = S \cup {x}
  OBVIOUS
<1>0. T \in SUBSET (1..x) /\ x \in T /\ x \notin S /\ \A j \in S : j \in Nat /\ j < x
  OBVIOUS
<1>1. /\ IsFiniteSet(S) /\ Cardinality(S) \in Nat /\ Cardinality(T) = Cardinality(S) + 1
  BY <1>0, Places, FS_AddElement
<1>2. ASSUME NEW k \in S PROVE Place(T, k) = Place(S, k)
  <2>1. {j \in T : j <= k} = {j \in S : j <= k}
    <3>1. \A j \in T : j <= k => j \in S
      BY <1>0
    <3> QED BY <3>1
  <2> QED BY <2>1 DEF Place
<1>3. Place(T, x) = Cardinality(T)
  <2>1. {j \in T : j <= x} = T
    <3>1. \A j \in T : j <= x
      BY <1>0
    <3> QED BY <3>1
  <2> QED BY <2>1 DEF Place
<1>4. Len(Ordered(S)) = Cardinality(S) /\ Len(Ordered(T)) = Cardinality(T)
  BY <1>0, OrderedIs
<1>5. Ordered(T)[Cardinality(T)] = x
  BY <1>0, <1>3, OrderedAt
<1>6. ASSUME NEW n \in 1..Cardinality(S) PROVE Ordered(T)[n] = Ordered(S)[n]
  <2>1. Ordered(S)[n] \in S /\ Place(S, Ordered(S)[n]) = n
    BY OrderedIs
  <2> PICK k \in S : k = Ordered(S)[n]
    BY <2>1
  <2>2. k \in T /\ Place(T, k) = n
    BY <1>2, <2>1
  <2> QED BY <1>0, <2>2, OrderedAt
<1> QED BY <1>1, <1>4, <1>5, <1>6 DEF ComesLast

OneLonger(n, s, e, t) ==
  /\ s = [j \in 1..n |-> s[j]] /\ t = [j \in 1..n + 1 |-> t[j]]
  /\ t[n + 1] = e /\ \A j \in 1..n : t[j] = s[j]

LEMMA AppendIs ==
  ASSUME NEW n \in Nat, NEW s, NEW e, NEW t, OneLonger(n, s, e, t)
  PROVE  t = Append(s, e)
<1>0. /\ s = [j \in 1..n |-> s[j]] /\ t = [j \in 1..n + 1 |-> t[j]]
      /\ t[n + 1] = e /\ \A j \in 1..n : t[j] = s[j]
  BY DEF OneLonger
<1> PICK X : X = {t[j] : j \in 1..n + 1}
  OBVIOUS
<1> PICK m : m = n + 1
  OBVIOUS
<1>1. ASSUME NEW j \in 1..n PROVE s[j] \in X
  <2>1. j \in 1..n + 1
    OBVIOUS
  <2> QED BY <1>0, <2>1
<1>2. m \in Nat /\ m \in 1..n + 1 /\ e \in X
  BY <1>0
<1>3. s \in [1..n -> X] /\ t \in [1..m -> X]
  BY <1>0, <1>1
<1>4. s \in Seq(X) /\ Len(s) = n /\ t \in Seq(X) /\ Len(t) = n + 1
  <2>1. s \in Seq(X) /\ Len(s) = n
    BY <1>3, FunctionIsSeq
  <2>2. t \in Seq(X) /\ Len(t) = m
    BY <1>2, <1>3, FunctionIsSeq
  <2> QED BY <2>1, <2>2
<1> PICK u : u = Append(s, e)
  OBVIOUS
<1>5. u \in Seq(X) /\ Len(u) = n + 1 /\ u[n + 1] = e /\ \A j \in 1..n : u[j] = s[j]
  BY <1>2, <1>4, AppendProperties
<1>6. \A j \in 1..Len(t) : t[j] = u[j]
  <2> SUFFICES ASSUME NEW j \in 1..n + 1 PROVE t[j] = u[j]
    BY <1>4
  <2>1. j = n + 1 \/ j \in 1..n
    OBVIOUS
  <2> QED BY <1>0, <1>5, <2>1
<1> QED BY <1>4, <1>5, <1>6, SeqEqual

-----------------------------------------------------------------------------
(* The document in a tree, from one level to the next.                      *)

Kids(h, k) == {j \in 1..Len(h) : IsChild(h, j, k)}

\* One level of a document, with the documents v of the items below.
Level(v, h, k) ==
  [val   |-> h[k].val,
   items |-> [j \in 1..Len(Children(h, k)) |->
                [name |-> h[Children(h, k)[j]].name, item |-> v[Children(h, k)[j]]]]]

LEMMA ChildrenAre ==
  ASSUME NEW h, Shape(h), NEW k
  PROVE  /\ Children(h, k) = Ordered(Kids(h, k)) /\ Len(h) \in Nat /\ Kids(h, k) \in SUBSET (1..Len(h))
         /\ Len(Children(h, k)) \in Nat
         /\ \A j \in 1..Len(Children(h, k)) : Children(h, k)[j] \in Kids(h, k)
         /\ \A c \in Kids(h, k) : c \in 1..Len(h) /\ h[c].up = k /\ k < c
<1>1. Children(h, k) = Ordered(Kids(h, k)) /\ Len(h) \in Nat /\ Kids(h, k) \in SUBSET (1..Len(h))
  BY DEF Children, Kids, Shape
<1>2. /\ Len(Children(h, k)) \in Nat
      /\ \A j \in 1..Len(Children(h, k)) : Children(h, k)[j] \in Kids(h, k)
  <2> PICK S \in SUBSET (1..Len(h)) : S = Kids(h, k)
    BY <1>1
  <2>1. /\ Cardinality(S) \in Nat /\ Len(Ordered(S)) = Cardinality(S)
        /\ \A n \in 1..Cardinality(S) : Ordered(S)[n] \in S
    BY <1>1, OrderedIs
  <2> QED BY <1>1, <2>1
<1>3. ASSUME NEW c \in Kids(h, k) PROVE c \in 1..Len(h) /\ h[c].up = k /\ k < c
  BY <1>1 DEF Kids, IsChild, Shape
<1> QED BY <1>1, <1>2, <1>3

\* A level depends on the documents of the children only.
LEMMA LevelSame ==
  ASSUME NEW h, Shape(h), NEW k, NEW v, NEW w, \A c \in Kids(h, k) : v[c] = w[c]
  PROVE  Level(v, h, k) = Level(w, h, k)
<1> PICK s : s = Children(h, k)
  OBVIOUS
<1>1. \A j \in 1..Len(s) : v[s[j]] = w[s[j]]
  BY ChildrenAre
<1>2. [j \in 1..Len(s) |-> [name |-> h[s[j]].name, item |-> v[s[j]]]]
        = [j \in 1..Len(s) |-> [name |-> h[s[j]].name, item |-> w[s[j]]]]
  BY <1>1
<1> QED BY <1>2 DEF Level

\* The recursion behind Value has a solution.
LEMMA ValueExists ==
  ASSUME NEW h, Shape(h)
  PROVE  \E f : f = [k \in 1..Len(h) |-> Level(f, h, k)]
<1> PICK n : n = Len(h)
  OBVIOUS
<1>0. n \in Nat
  BY DEF Shape
<1> DEFINE T == {m \in Nat : m <= n => \E f : f = [k \in (n - m + 1)..n |-> Level(f, h, k)]}
<1>1. 0 \in T
  <2>1. PICK f : f = [k \in (n - 0 + 1)..n |-> 0]
    OBVIOUS
  <2>2. f = [k \in (n - 0 + 1)..n |-> Level(f, h, k)]
    <3>1. (n - 0 + 1)..n = {}
      BY <1>0
    <3> QED BY <2>1, <3>1
  <2> QED BY <2>2
<1>2. ASSUME NEW m \in T PROVE m + 1 \in T
  <2>1. SUFFICES ASSUME m + 1 <= n
                 PROVE  \E f : f = [k \in (n - (m + 1) + 1)..n |-> Level(f, h, k)]
    OBVIOUS
  <2> PICK x : x = n - m
    OBVIOUS
  <2>2. m \in Nat /\ x \in 1..n /\ n - (m + 1) + 1 = x /\ n - m + 1 = x + 1 /\ m <= n
    BY <1>0, <2>1
  <2> HIDE DEF T
  <2>3. PICK f : f = [k \in (x + 1)..n |-> Level(f, h, k)]
    BY <2>2 DEF T
  <2>4. PICK y : y = Level(f, h, x)
    OBVIOUS
  <2>5. PICK g : g = [k \in x..n |-> IF k = x THEN y ELSE f[k]]
    OBVIOUS
  <2>6. ASSUME NEW k \in x..n PROVE g[k] = Level(g, h, k)
    <3>1. \A c \in Kids(h, k) : g[c] = f[c]
      <4> SUFFICES ASSUME NEW c \in Kids(h, k) PROVE g[c] = f[c]
        OBVIOUS
      <4>1. c \in 1..n /\ k < c
        BY ChildrenAre
      <4>2. c \in x..n /\ c # x
        BY <1>0, <2>2, <4>1
      <4> QED BY <2>5, <4>2
    <3>2. Level(g, h, k) = Level(f, h, k)
      BY <3>1, LevelSame
    <3>3. CASE k = x
      BY <2>4, <2>5, <3>2, <3>3
    <3>4. CASE k # x
      <4>1. k \in (x + 1)..n
        BY <1>0, <2>2, <3>4
      <4>2. f[k] = Level(f, h, k)
        BY <2>3, <4>1
      <4> QED BY <2>5, <3>2, <3>4, <4>2
    <3> QED BY <3>3, <3>4
  <2>7. g = [k \in x..n |-> Level(g, h, k)]
    BY <2>5, <2>6
  <2> QED BY <2>2, <2>7
<1>3. n \in T
  <2> HIDE DEF T
  <2>1. Nat \subseteq T
    BY <1>1, <1>2, NatSetInduction
  <2> QED BY <1>0, <2>1
<1>4. PICK f : f = [k \in (n - n + 1)..n |-> Level(f, h, k)]
  BY <1>0, <1>3
<1>5. n - n + 1 = 1
  BY <1>0
<1> QED BY <1>4, <1>5

\* The document of an item is made of those of its children.
LEMMA ValueIs ==
  ASSUME NEW h, Shape(h)
  PROVE  \A k \in 1..Len(h) : Value(h)[k] = Level(Value(h), h, k)
<1> DEFINE def(g) == [k \in 1..Len(h) |-> Level(g, h, k)]
           value == CHOOSE g : g = def(g)
<1>1. PICK f : f = def(f)
  BY ValueExists
<1>2. value = def(value)
  BY <1>1
<1>3. Value(h) = value
  BY DEF Value, Level
<1> HIDE DEF value
<1> QED BY <1>2, <1>3
-----------------------------------------------------------------------------
(* Trees that are alike have the same document.                             *)

IsTreeMap(f, S, h, g) ==
  /\ S \subseteq 1..Len(h)
  /\ \A k \in S : /\ f[k] \in 1..Len(g) /\ g[f[k]].val = h[k].val
                  /\ Kids(h, k) \subseteq S
                  /\ \A c \in Kids(h, k) : f[c] \in Kids(g, f[k]) /\ g[f[c]].name = h[c].name
                  /\ \A b \in Kids(g, f[k]) : \E c \in Kids(h, k) : b = f[c]
  /\ \A j, k \in S : j < k => f[j] < f[k]

LEMMA ValueMapped ==
  ASSUME NEW h, Shape(h), NEW g, Shape(g), NEW S, NEW f, IsTreeMap(f, S, h, g)
  PROVE  \A k \in S : Value(g)[f[k]] = Value(h)[k]
<1> PICK n : n = Len(h)
  OBVIOUS
<1>0. n \in Nat /\ Len(g) \in Nat /\ \A k \in S : k \in 1..n /\ f[k] \in 1..Len(g)
  BY DEF Shape, IsTreeMap
<1> DEFINE T == {m \in Nat : \A k \in S : n < k + m => Value(g)[f[k]] = Value(h)[k]}
<1>1. 0 \in T
  <2> SUFFICES ASSUME NEW k \in S, n < k + 0 PROVE FALSE
    OBVIOUS
  <2> QED BY <1>0
<1>2. ASSUME NEW m \in T PROVE m + 1 \in T
  <2> SUFFICES ASSUME NEW k \in S, n < k + (m + 1) PROVE Value(g)[f[k]] = Value(h)[k]
    OBVIOUS
  <2>0. m \in Nat /\ \A j \in S : n < j + m => Value(g)[f[j]] = Value(h)[j]
    OBVIOUS
  <2> HIDE DEF T
  <2>1. ASSUME NEW c \in Kids(h, k) PROVE c \in S /\ Value(g)[f[c]] = Value(h)[c]
    <3>1. c \in S
      BY DEF IsTreeMap
    <3>2. k < c /\ c \in Nat /\ k \in Nat
      BY <1>0, <3>1, ChildrenAre
    <3>3. n < c + m
      BY <1>0, <2>0, <3>2
    <3> QED BY <2>0, <3>1, <3>3
  <2> PICK a, b : a = Children(h, k) /\ b = Children(g, f[k])
    OBVIOUS
  <2>2. Len(a) \in Nat /\ Len(b) = Len(a) /\ \A j \in 1..Len(a) : a[j] \in Kids(h, k) /\ b[j] = f[a[j]]
    <3> PICK A \in SUBSET (1..Len(h)), B \in SUBSET (1..Len(g)) : A = Kids(h, k) /\ B = Kids(g, f[k])
      BY ChildrenAre
    <3>1. IsOrderMap(f, A, B)
      <4>1. \A c \in A : c \in S /\ f[c] \in B /\ f[c] \in Nat
        BY <1>0, <2>1 DEF IsTreeMap
      <4>2. \A d \in B : \E c \in A : d = f[c]
        BY DEF IsTreeMap
      <4>3. \A c, d \in A : c < d => f[c] < f[d]
        BY <4>1 DEF IsTreeMap
      <4> QED BY <4>1, <4>2, <4>3 DEF IsOrderMap
    <3>2. SameOrder(f, A, B)
      BY <1>0, <3>1, OrderedMapped
    <3>3. a = Ordered(A) /\ b = Ordered(B) /\ Len(a) \in Nat
      BY ChildrenAre
    <3> QED BY <3>2, <3>3 DEF SameOrder
  <2>3. Value(h)[k] = Level(Value(h), h, k) /\ Value(g)[f[k]] = Level(Value(g), g, f[k])
    BY <1>0, ValueIs
  <2>4. ASSUME NEW j \in 1..Len(a)
        PROVE  g[b[j]].name = h[a[j]].name /\ Value(g)[b[j]] = Value(h)[a[j]]
    <3> PICK c \in Kids(h, k) : c = a[j] /\ f[c] = b[j]
      BY <2>2
    <3> QED BY <2>1 DEF IsTreeMap
  <2>5. [j \in 1..Len(b) |-> [name |-> g[b[j]].name, item |-> Value(g)[b[j]]]]
          = [j \in 1..Len(a) |-> [name |-> h[a[j]].name, item |-> Value(h)[a[j]]]]
    BY <2>2, <2>4
  <2>6. g[f[k]].val = h[k].val
    BY DEF IsTreeMap
  <2>7. Level(Value(g), g, f[k]) = Level(Value(h), h, k)
    BY <2>5, <2>6 DEF Level
  <2> QED BY <2>3, <2>7
<1>3. ASSUME NEW k \in S PROVE Value(g)[f[k]] = Value(h)[k]
  <2>1. Nat \subseteq T
    <3> HIDE DEF T
    <3> QED BY <1>1, <1>2, NatSetInduction
  <2>2. n \in T
    BY <1>0, <2>1
  <2>3. n < k + n
    BY <1>0
  <2> QED BY <2>2, <2>3
<1> QED BY <1>3

\* What is not touched keeps its document.
LEMMA ValueKept ==
  ASSUME NEW h, Shape(h), NEW g, Shape(g), Len(h) <= Len(g), NEW r \in 1..Len(h),
         \A k \in Below(h, r) : g[k].val = h[k].val /\ g[k].name = h[k].name /\ Kids(g, k) = Kids(h, k)
  PROVE  Value(g)[r] = Value(h)[r]
<1> PICK S : S = Below(h, r)
  OBVIOUS
<1> PICK f : f = [k \in S |-> k]
  OBVIOUS
<1>1. S \subseteq 1..Len(h) /\ r \in S /\ Len(h) \in Nat /\ Len(g) \in Nat
  BY BelowIs, BelowLow DEF Shape
<1>2. \A k \in S : Kids(h, k) \subseteq S
  <2> SUFFICES ASSUME NEW k \in S, NEW c \in Kids(h, k) PROVE c \in S
    OBVIOUS
  <2>1. c \in 1..Len(h) /\ h[c].up = k
    BY ChildrenAre
  <2> QED BY <2>1, BelowIs
<1>3. IsTreeMap(f, S, h, g)
  <2>1. ASSUME NEW k \in S PROVE f[k] = k /\ k \in 1..Len(g) /\ g[k].val = h[k].val /\ Kids(g, k) = Kids(h, k)
    BY <1>1
  <2>2. ASSUME NEW k \in S, NEW c \in Kids(h, k) PROVE c \in S /\ f[c] = c /\ g[c].name = h[c].name
    BY <1>2
  <2>3. \A j, k \in S : j < k => f[j] < f[k]
    OBVIOUS
  <2> QED BY <1>1, <1>2, <2>1, <2>2, <2>3 DEF IsTreeMap
<1>4. Value(g)[f[r]] = Value(h)[r]
  BY <1>1, <1>3, ValueMapped
<1> QED BY <1>1, <1>4

\* Growing gives one more child to the item it is at, and changes no other.
LEMMA GrownKids ==
  ASSUME NEW h, Shape(h), NEW up \in 0..Len(h), NEW g, Shape(g), Grown(h, g, up), NEW k \in 1..Len(h)
  PROVE  /\ k # up => Kids(g, k) = Kids(h, k)
         /\ k = up => Kids(g, k) = Kids(h, k) \cup {Len(h) + 1}
<1> PICK n : n = Len(h)
  OBVIOUS
<1>0. /\ n \in Nat /\ Len(g) \in Nat /\ n < Len(g) /\ k \in 1..n
      /\ \A j \in 1..n : g[j] = h[j]
      /\ g[n + 1].up = up /\ g[n + 1].live
      /\ \A j \in (n + 1)..Len(g) : j # n + 1 => g[j].up \in (n + 1)..(j - 1)
  BY DEF Shape, Grown, NewItems
<1>1. \A j \in 1..n : j \in Kids(g, k) <=> j \in Kids(h, k)
  BY <1>0 DEF Kids, IsChild
<1>2. ASSUME NEW j \in 1..Len(g), ~(j \in 1..n) PROVE j \in Kids(g, k) <=> (j = n + 1 /\ k = up)
  <2>1. j \in (n + 1)..Len(g)
    BY <1>0, <1>2
  <2>2. j # n + 1 => g[j].up # k
    BY <1>0, <2>1
  <2> QED BY <1>0, <2>2 DEF Kids, IsChild
<1>3. Kids(g, k) \subseteq 1..Len(g) /\ Kids(h, k) \subseteq 1..n /\ n + 1 \in 1..Len(g) /\ ~(n + 1 \in 1..n)
  BY <1>0 DEF Kids
<1>4. CASE k # up
  <2>1. \A j : j \in Kids(g, k) <=> j \in Kids(h, k)
    BY <1>1, <1>2, <1>3, <1>4
  <2>2. Kids(g, k) = Kids(h, k)
    BY <2>1
  <2> QED BY <1>4, <2>2
<1>5. CASE k = up
  <2>1. \A j : j \in Kids(g, k) <=> j \in Kids(h, k) \cup {n + 1}
    BY <1>1, <1>2, <1>3, <1>5
  <2>2. Kids(g, k) = Kids(h, k) \cup {n + 1}
    BY <2>1
  <2> QED BY <1>5, <2>2
<1> QED BY <1>4, <1>5

LEMMA GrownElsewhere ==
  ASSUME NEW h, Shape(h), NEW up \in 0..Len(h), NEW g, Shape(g), Grown(h, g, up),
         NEW r \in 1..Len(h), up \notin Below(h, r)
  PROVE  Value(g)[r] = Value(h)[r]
<1>1. Below(h, r) \subseteq 1..Len(h) /\ Len(h) <= Len(g)
  <2>1. Len(h) \in Nat /\ Len(g) \in Nat /\ Len(h) < Len(g)
    BY DEF Shape, Grown
  <2> QED BY <2>1, BelowIs
<1>2. ASSUME NEW k \in Below(h, r)
      PROVE  g[k].val = h[k].val /\ g[k].name = h[k].name /\ Kids(g, k) = Kids(h, k)
  <2>1. k \in 1..Len(h) /\ k # up
    BY <1>1
  <2>2. g[k] = h[k]
    BY <2>1 DEF Grown
  <2> QED BY <2>1, <2>2, GrownKids
<1> QED BY <1>1, <1>2, ValueKept

\* Where it grows, a document has one more item.
LEMMA GrownHere ==
  ASSUME NEW h, Shape(h), NEW up \in 1..Len(h), NEW g, Shape(g), Grown(h, g, up), NEW x, x = Len(h) + 1
  PROVE  Value(g)[up] = [val   |-> Value(h)[up].val,
                         items |-> Append(Value(h)[up].items, [name |-> g[x].name, item |-> Value(g)[x]])]
<1> PICK a, b : a = Children(h, up) /\ b = Children(g, up)
  OBVIOUS
<1>0. Len(h) \in Nat /\ Len(g) \in Nat /\ Len(h) < Len(g) /\ up \in 0..Len(h) /\ up \in 1..Len(g)
  BY DEF Shape, Grown
<1>1. /\ Len(a) \in Nat /\ Len(b) = Len(a) + 1 /\ b[Len(a) + 1] = x
      /\ \A j \in 1..Len(a) : b[j] = a[j] /\ a[j] \in Kids(h, up)
  <2> PICK A \in SUBSET (1..Len(h)) : A = Kids(h, up)
    BY ChildrenAre
  <2>1. Kids(g, up) = A \cup {x}
    BY <1>0, GrownKids
  <2>2. ComesLast(x, Ordered(A), Ordered(A \cup {x}))
    <3>1. x \in Nat /\ Len(h) < x
      BY <1>0
    <3> QED BY <1>0, <3>1, OrderedLast
  <2>3. a = Ordered(A) /\ b = Ordered(A \cup {x}) /\ \A j \in 1..Len(a) : a[j] \in Kids(h, up)
    BY <2>1, ChildrenAre
  <2> QED BY <2>2, <2>3 DEF ComesLast
<1>2. ASSUME NEW c \in Kids(h, up) PROVE g[c].name = h[c].name /\ Value(g)[c] = Value(h)[c]
  <2>1. c \in 1..Len(h) /\ up < c
    BY ChildrenAre
  <2>2. up \notin Below(h, c)
    <3>1. \A k \in Below(h, c) : c <= k
      BY <2>1, BelowLow
    <3> QED BY <1>0, <2>1, <3>1
  <2>3. g[c] = h[c]
    BY <2>1 DEF Grown
  <2> QED BY <1>0, <2>1, <2>2, <2>3, GrownElsewhere
<1>3. /\ Value(h)[up] = Level(Value(h), h, up) /\ Value(g)[up] = Level(Value(g), g, up)
      /\ g[up] = h[up]
  BY <1>0, ValueIs DEF Grown
<1> PICK e : e = [name |-> g[x].name, item |-> Value(g)[x]]
  OBVIOUS
<1> PICK s : s = [j \in 1..Len(a) |-> [name |-> h[a[j]].name, item |-> Value(h)[a[j]]]]
  OBVIOUS
<1> PICK t : t = [j \in 1..Len(b) |-> [name |-> g[b[j]].name, item |-> Value(g)[b[j]]]]
  OBVIOUS
<1>4. Value(h)[up] = [val |-> h[up].val, items |-> s] /\ Value(g)[up] = [val |-> g[up].val, items |-> t]
  BY <1>3 DEF Level
<1>5. t = Append(s, e)
  <2>1. \A j \in 1..Len(a) : t[j] = s[j]
    BY <1>1, <1>2
  <2>2. t[Len(a) + 1] = e /\ Len(t) = Len(a) + 1 /\ Len(s) = Len(a)
    BY <1>1
  <2>4. s = [j \in 1..Len(a) |-> s[j]] /\ t = [j \in 1..Len(a) + 1 |-> t[j]]
    BY <1>1
  <2>5. OneLonger(Len(a), s, e, t)
    BY <2>1, <2>2, <2>4 DEF OneLonger
  <2> QED BY <1>1, <2>5, AppendIs
<1>6. Value(h)[up].val = h[up].val /\ Value(h)[up].items = s
  BY <1>4
<1> QED BY <1>3, <1>4, <1>5, <1>6

-----------------------------------------------------------------------------
(* What is added.                                                           *)

\* The items of tree d in g, behind the first n.
Holding(g, n, d, name) ==
  /\ Len(g) = n + Len(d) /\ g[n + 1].name = name
  /\ \A j \in 1..Len(d) :
       /\ g[n + j].val = d[j].val /\ g[n + j].live
       /\ j # 1 => g[n + j].name = d[j].name /\ g[n + j].up = d[j].up + n

LEMMA AddedIs ==
  ASSUME NEW h, HeapOK(h), NEW d, IsTree(d), NEW up \in 0..Len(h), NEW name \in Names \cup {NoName}
  PROVE  Holding(Added(h, d, up, name), Len(h), d, name)
<1> PICK n, m : n = Len(h) /\ m = Len(d)
  OBVIOUS
<1> DEFINE e(j) == IF j = 1 THEN Item(up, name, d[j].val) ELSE [d[j] EXCEPT !.up = @ + n]
           t == [j \in 1..m |-> e(j)]
<1>0. /\ n \in Nat /\ up \in Nat /\ h \in Seq(Node)
      /\ m \in Nat \ {0} /\ \A j \in 1..m : d[j] \in Node /\ d[j].live
  <2>1. n \in Nat /\ up \in Nat /\ h \in Seq(Node)
    BY DEF HeapOK, Shape
  <2>2. d \in Seq(Node) /\ d # <<>> /\ \A j \in 1..m : d[j].live
    BY DEF IsTree
  <2>3. m \in Nat \ {0}
    BY <2>2, EmptySeq
  <2>4. \A j \in 1..m : d[j] \in Node
    BY <2>2, ElementOfSeq
  <2> QED BY <2>1, <2>2, <2>3, <2>4
<1>1. ASSUME NEW j \in 1..m
      PROVE  /\ e(j) \in Node /\ e(j).val = d[j].val /\ e(j).live
             /\ j = 1 => e(j).name = name
             /\ j # 1 => e(j).name = d[j].name /\ e(j).up = d[j].up + n
  <2>1. d[j] \in Node /\ d[j].live
    BY <1>0
  <2>2. CASE j = 1
    BY <1>0, <2>1, <2>2 DEF Node, Item
  <2>3. CASE j # 1
    <3>1. e(j) = [d[j] EXCEPT !.up = @ + n]
      BY <2>3
    <3> HIDE DEF e
    <3>2. d[j].up + n \in Nat
      BY <1>0, <2>1 DEF Node
    <3> QED BY <2>1, <2>3, <3>1, <3>2 DEF Node
  <2> QED BY <2>2, <2>3
<1> HIDE DEF e
<1>2. t \in Seq(Node) /\ Len(t) = m /\ \A j \in 1..m : t[j] = e(j)
  <2>1. t \in [1..m -> Node] /\ \A j \in 1..m : t[j] = e(j)
    BY <1>1
  <2>2. t \in Seq(Node) /\ Len(t) = m
    <3> HIDE DEF t
    <3>1. m \in Nat
      BY <1>0
    <3> QED BY <2>1, <3>1, FunctionIsSeq
  <2> QED BY <2>1, <2>2
<1>3. Added(h, d, up, name) = h \o t
  BY Zenon DEF Added, e
<1> HIDE DEF t
<1>a. /\ Len(h \o t) = n + m
      /\ \A k \in 1..n + m : (h \o t)[k] = IF k <= n THEN h[k] ELSE t[k - n]
  <2>1. /\ Len(h \o t) = Len(h) + Len(t)
        /\ \A k \in 1..Len(h) + Len(t) : (h \o t)[k] = IF k <= Len(h) THEN h[k] ELSE t[k - Len(h)]
    BY <1>0, <1>2, ConcatProperties, Zenon
  <2>2. n = Len(h) /\ m = Len(t)
    BY <1>2
  <2> QED BY <2>1, <2>2
<1> PICK g : g = h \o t
  OBVIOUS
<1>4. /\ Len(g) = n + m
      /\ \A k \in 1..n + m : g[k] = IF k <= n THEN h[k] ELSE t[k - n]
  BY <1>a
<1>5. ASSUME NEW j \in 1..m PROVE g[n + j] = e(j)
  <2>1. n + j \in 1..n + m /\ ~(n + j <= n) /\ (n + j) - n = j
    BY <1>0
  <2> QED BY <1>2, <1>4, <2>1
<1>6. 1 \in 1..m
  BY <1>0
<1>7. g[n + 1].name = name
  BY <1>1, <1>5, <1>6
<1>8. Holding(g, n, d, name)
  BY <1>1, <1>4, <1>5, <1>7 DEF Holding
<1> QED BY <1>3, <1>8

\* Where an item of the tree of r is in the copy.
Copies(d, r, S) ==
  /\ Len(d) = Cardinality(S)
  /\ \A k \in S : LET e == d[Place(S, k)]
                  IN  /\ e.val = heap[k].val /\ e.name = heap[k].name
                      /\ k # r => e.up = Place(S, heap[k].up)

LEMMA DuplicateIs ==
  ASSUME HeapOK(heap), NEW r \in 1..Len(heap), heap[r].live
  PROVE  Copies(Duplicate(r), r, Below(heap, r))
<1> PICK S : S = Below(heap, r)
  OBVIOUS
<1>0. /\ Shape(heap) /\ Len(heap) \in Nat /\ S \in SUBSET (1..Len(heap))
      /\ \A k \in S : heap[k] \in Node /\ heap[k].live
      /\ \A k \in S : k # r => heap[k].up \in S
  <2>1. Shape(heap) /\ Len(heap) \in Nat /\ heap \in Seq(Node)
    BY DEF HeapOK, Shape
  <2>2. S \subseteq 1..Len(heap) /\ \A k \in S : k # r => heap[k].up \in S
    BY <2>1, BelowIs
  <2>3. \A k \in S : heap[k].live
    BY <2>1, TreeAlike DEF HeapOK, Alike
  <2>4. \A k \in S : heap[k] \in Node
    BY <2>1, <2>2, ElementOfSeq
  <2> QED BY <2>1, <2>2, <2>3, <2>4
<1>1. {k \in Below(heap, r) : heap[k].live} = S
  BY <1>0
<1> PICK c, o : c = Cardinality(S) /\ o = Ordered(S)
  OBVIOUS
<1> DEFINE d == [n \in 1..c |-> [heap[o[n]] EXCEPT !.up = Place(S, @)]]
<1>2. Duplicate(r) = d
  BY <1>1 DEF Duplicate
<1>3. c \in Nat /\ \A k \in S : Place(S, k) \in 1..c /\ o[Place(S, k)] = k
  BY <1>0, OrderedIs
<1>4. \A k \in S : Place(S, k) \in Nat
  BY <1>3
<1>5. Len(d) = c
  BY <1>3
<1>6. ASSUME NEW k \in S
      PROVE  /\ d[Place(S, k)].val = heap[k].val /\ d[Place(S, k)].name = heap[k].name
             /\ k # r => d[Place(S, k)].up = Place(S, heap[k].up)
  <2> PICK p : p = Place(S, heap[k].up)
    OBVIOUS
  <2>1. d[Place(S, k)] = [heap[k] EXCEPT !.up = p]
    BY <1>3
  <2>2. heap[k] \in Node
    BY <1>0
  <2> HIDE DEF d
  <2> QED BY <2>1, <2>2 DEF Node
<1> HIDE DEF d
<1>7. Copies(d, r, S)
  BY <1>5, <1>6 DEF Copies
<1> QED BY <1>2, <1>7

-----------------------------------------------------------------------------
(* The documents of what is added.                                          *)

\* The copy of a tree has the document of the tree.
LEMMA CopyValue ==
  ASSUME HeapOK(heap), NEW r \in 1..Len(heap), heap[r].live,
         NEW h, HeapOK(h), NEW up \in 0..Len(h), NEW name \in Names \cup {NoName},
         NEW g, g = Added(h, Duplicate(r), up, name), Shape(g)
  PROVE  Value(g)[Len(h) + 1] = Value(heap)[r]
<1> PICK S, d, n, c : S = Below(heap, r) /\ d = Duplicate(r) /\ n = Len(h) /\ c = Cardinality(S)
  OBVIOUS
<1>0. /\ Shape(heap) /\ Len(heap) \in Nat /\ n \in Nat /\ S \in SUBSET (1..Len(heap))
      /\ \A k \in S : heap[k].live
      /\ \A k \in 1..Len(heap) : k \in S <=> k = r \/ heap[k].up \in S
      /\ r \in S /\ \A k \in S : r <= k /\ k \in Nat
      /\ heap[r].up < r
  <2>1. Shape(heap) /\ Len(heap) \in Nat /\ n \in Nat /\ heap[r].up < r
    BY DEF HeapOK, Shape
  <2>2. S \in SUBSET (1..Len(heap)) /\ \A k \in 1..Len(heap) : k \in S <=> k = r \/ heap[k].up \in S
    BY <2>1, BelowIs
  <2>3. r \in S /\ \A k \in S : r <= k
    BY <2>1, BelowLow
  <2>4. \A k \in S : heap[k].live
    BY <2>1, TreeAlike DEF HeapOK, Alike
  <2>5. \A k \in S : k \in Nat
    BY <2>1, <2>2
  <2> QED BY <2>1, <2>2, <2>3, <2>4, <2>5
<1>1. /\ c \in Nat
      /\ \A k \in S : Place(S, k) \in 1..c
      /\ \A j, k \in S : j < k => Place(S, j) < Place(S, k)
      /\ \A p \in 1..c : \E k \in S : Place(S, k) = p
  BY <1>0, Places
<1>2. /\ Len(d) = c
      /\ \A k \in S : /\ d[Place(S, k)].val = heap[k].val /\ d[Place(S, k)].name = heap[k].name
                      /\ k # r => d[Place(S, k)].up = Place(S, heap[k].up)
  BY DuplicateIs DEF Copies
<1>3. /\ Len(g) = n + c
      /\ \A p \in 1..c : /\ g[n + p].val = d[p].val /\ g[n + p].live
                         /\ p # 1 => g[n + p].name = d[p].name /\ g[n + p].up = d[p].up + n
  <2>1. IsTree(d)
    BY DuplicateIsTree
  <2>2. Holding(g, n, d, name)
    BY <2>1, AddedIs
  <2> QED BY <1>2, <2>2 DEF Holding
<1> DEFINE f == [k \in S |-> n + Place(S, k)]
<1>4. \A k \in S : f[k] = n + Place(S, k) /\ f[k] \in 1..Len(g) /\ f[k] \in Nat
  <2>1. \A p \in 1..c : n + p \in 1..n + c /\ n + p \in Nat
    BY <1>0, <1>1
  <2> QED BY <1>1, <1>3, <2>1
<1> HIDE DEF f
<1>5. /\ \A k \in S : k # r => Place(S, k) # 1
      /\ Place(S, r) = 1
      /\ \A j, k \in S : Place(S, j) = Place(S, k) => j = k
  <2>1. \A j, k \in S : Place(S, j) = Place(S, k) => j = k
    <3>1. ASSUME NEW j \in S, NEW k \in S, Place(S, j) = Place(S, k), j # k PROVE FALSE
      <4>1. j < k \/ k < j
        BY <1>0, <3>1
      <4>2. Place(S, j) \in 1..c /\ Place(S, k) \in 1..c
        BY <1>1
      <4> QED BY <1>1, <3>1, <4>1, <4>2
    <3> QED BY <3>1
  <2>2. Place(S, r) = 1
    <3>1. 1 \in 1..c
      BY <1>0, <1>1
    <3>2. PICK k \in S : Place(S, k) = 1
      BY <1>1, <3>1
    <3>3. ~(r < k)
      <4>1. Place(S, r) \in 1..c
        BY <1>0, <1>1
      <4> QED BY <1>0, <1>1, <3>2, <4>1
    <3> QED BY <1>0, <3>2, <3>3
  <2> QED BY <1>0, <2>1, <2>2
<1>6. /\ Len(g) \in Nat /\ \A k \in 1..Len(g) : g[k].up \in 0..(k - 1)
  BY DEF Shape
<1>7. ASSUME NEW k \in S
      PROVE  /\ f[k] \in 1..Len(g) /\ g[f[k]].val = heap[k].val
             /\ Kids(heap, k) \subseteq S
             /\ \A i \in Kids(heap, k) : f[i] \in Kids(g, f[k]) /\ g[f[i]].name = heap[i].name
             /\ \A b \in Kids(g, f[k]) : \E i \in Kids(heap, k) : b = f[i]
  <2>1. f[k] \in 1..Len(g) /\ g[f[k]].val = heap[k].val /\ f[k] = n + Place(S, k)
    <3> PICK p : p = Place(S, k)
      OBVIOUS
    <3>1. p \in 1..c /\ d[p].val = heap[k].val /\ f[k] = n + p /\ f[k] \in 1..Len(g)
      BY <1>1, <1>2, <1>4
    <3>2. g[n + p].val = d[p].val
      BY <1>3, <3>1
    <3> QED BY <3>1, <3>2
  <2>2. \A i \in Kids(heap, k) : i \in S /\ heap[i].up = k /\ i # r
    <3>1. ASSUME NEW i \in Kids(heap, k) PROVE i \in S /\ heap[i].up = k /\ i # r
      <4>1. i \in 1..Len(heap) /\ heap[i].up = k
        BY DEF Kids, IsChild
      <4>2. r <= k /\ k \in Nat /\ r \in Nat
        BY <1>0
      <4>3. i # r
        BY <1>0, <4>1, <4>2
      <4> QED BY <1>0, <4>1, <4>3
    <3> QED BY <3>1
  <2>3. ASSUME NEW i \in Kids(heap, k) PROVE f[i] \in Kids(g, f[k]) /\ g[f[i]].name = heap[i].name
    <3>1. i \in S /\ heap[i].up = k /\ i # r
      BY <2>2
    <3> PICK p : p = Place(S, i)
      OBVIOUS
    <3>2. p \in 1..c /\ p # 1 /\ d[p].up = Place(S, k) /\ d[p].name = heap[i].name
      BY <1>1, <1>2, <1>5, <3>1
    <3>3. g[n + p].live /\ g[n + p].name = d[p].name /\ g[n + p].up = d[p].up + n
      BY <1>3, <3>2
    <3>4. f[i] = n + p /\ f[i] \in 1..Len(g)
      BY <1>4, <3>1
    <3>5. d[p].up + n = f[k]
      <4>1. Place(S, k) \in Nat
        BY <1>1
      <4> QED BY <1>0, <2>1, <3>2, <4>1
    <3>6. g[f[i]].live /\ g[f[i]].up = f[k] /\ g[f[i]].name = heap[i].name
      BY <3>2, <3>3, <3>4, <3>5
    <3> QED BY <3>4, <3>6 DEF Kids, IsChild
  <2>4. ASSUME NEW b \in Kids(g, f[k]) PROVE \E i \in Kids(heap, k) : b = f[i]
    <3>1. b \in 1..Len(g) /\ g[b].up = f[k]
      BY DEF Kids, IsChild
    <3>2. Place(S, k) \in 1..c
      BY <1>1
    <3> PICK q : q = Place(S, k)
      OBVIOUS
    <3>3. q \in 1..c /\ g[b].up = n + q /\ n + q < b
      <4>1. g[b].up \in 0..(b - 1)
        BY <1>6, <3>1
      <4> QED BY <1>0, <1>6, <2>1, <3>1, <3>2, <4>1
    <3> PICK p : p = b - n
      OBVIOUS
    <3>4. p \in 1..c /\ b = n + p /\ p # 1
      <4>1. n \in Nat /\ c \in Nat /\ b \in 1..n + c
        BY <1>0, <1>1, <1>3, <3>1
      <4> QED BY <3>3, <4>1
    <3>5. PICK i \in S : Place(S, i) = p
      BY <1>1, <3>4
    <3>6. i # r
      BY <1>5, <3>4, <3>5
    <3>7. heap[i].up \in S /\ d[p].up = Place(S, heap[i].up) /\ i \in 1..Len(heap) /\ heap[i].live
      <4>1. i \in 1..Len(heap) /\ heap[i].live
        BY <1>0
      <4>2. heap[i].up \in S
        BY <1>0, <3>6, <4>1
      <4> QED BY <1>2, <3>5, <3>6, <4>1, <4>2
    <3>8. g[b].up = d[p].up + n
      BY <1>3, <3>4
    <3>9. Place(S, heap[i].up) = q
      <4> PICK j : j = Place(S, heap[i].up)
        OBVIOUS
      <4>1. j \in 1..c /\ n + q = j + n
        BY <1>1, <3>3, <3>7, <3>8
      <4>2. n \in Nat /\ c \in Nat /\ q \in 1..c
        BY <1>0, <1>1, <3>3
      <4>3. j = q
        BY <4>1, <4>2
      <4> QED BY <4>3
    <3>10. heap[i].up = k
      BY <1>5, <3>7, <3>9
    <3>11. b = f[i]
      BY <1>4, <3>4, <3>5
    <3>12. i \in Kids(heap, k)
      BY <3>7, <3>10 DEF Kids, IsChild
    <3> QED BY <3>11, <3>12
  <2>5. Kids(heap, k) \subseteq S
    BY <2>2
  <2> QED BY <2>1, <2>3, <2>4, <2>5
<1>8. \A j, k \in S : j < k => f[j] < f[k]
  <2>1. ASSUME NEW j \in S, NEW k \in S, j < k PROVE f[j] < f[k]
    <3>1. Place(S, j) \in 1..c /\ Place(S, k) \in 1..c /\ Place(S, j) < Place(S, k)
      BY <1>1, <2>1
    <3>2. f[j] = n + Place(S, j) /\ f[k] = n + Place(S, k)
      BY <1>4
    <3> QED BY <1>0, <1>1, <3>1, <3>2
  <2> QED BY <2>1
<1>9. IsTreeMap(f, S, heap, g)
  BY <1>0, <1>7, <1>8 DEF IsTreeMap
<1>10. Value(g)[f[r]] = Value(heap)[r]
  BY <1>0, <1>9, ValueMapped
<1>11. f[r] = n + 1
  BY <1>0, <1>4, <1>5
<1> QED BY <1>10, <1>11

\* A single item has a document without items.
LEMMA SingleValue ==
  ASSUME NEW h, HeapOK(h), NEW v \in Vals \cup {None}, NEW up \in 0..Len(h),
         NEW name \in Names \cup {NoName},
         NEW g, g = Added(h, <<Item(0, NoName, v)>>, up, name), Shape(g)
  PROVE  Value(g)[Len(h) + 1] = [val |-> v, items |-> <<>>]
<1> PICK n, d : n = Len(h) /\ d = <<Item(0, NoName, v)>>
  OBVIOUS
<1>1. IsTree(d) /\ Len(d) = 1 /\ d[1].val = v
  BY LeafIsTree DEF LeafTree, EmptyTree, Item
<1>2. n \in Nat /\ Len(g) = n + 1 /\ g[n + 1].val = v
  <2>1. Holding(g, n, d, name)
    BY <1>1, AddedIs
  <2>2. n \in Nat /\ n + 1 \in Nat
    BY DEF HeapOK, Shape
  <2>3. 1 \in 1..1
    OBVIOUS
  <2> QED BY <1>1, <2>1, <2>2, <2>3 DEF Holding
<1>3. Kids(g, n + 1) = {}
  <2>1. \A k \in 1..Len(g) : g[k].up \in 0..(k - 1)
    BY DEF Shape
  <2>2. \A k \in 1..Len(g) : g[k].up # n + 1
    BY <1>2, <2>1
  <2> QED BY <2>2 DEF Kids, IsChild
<1>4. Len(Children(g, n + 1)) = 0
  <2>1. Children(g, n + 1) = Ordered({})
    BY <1>3, ChildrenAre
  <2>2. Cardinality({}) = 0 /\ {} \in SUBSET (1..0) /\ 0 \in Nat
    BY FS_EmptySet
  <2>3. Len(Ordered({})) = Cardinality({})
    BY <2>2, OrderedIs
  <2> QED BY <2>1, <2>2, <2>3
<1>5. Value(g)[n + 1] = Level(Value(g), g, n + 1)
  <2>1. n + 1 \in 1..Len(g)
    BY <1>2
  <2> QED BY <2>1, ValueIs
<1>6. Level(Value(g), g, n + 1).items = <<>> /\ Level(Value(g), g, n + 1) = [val |-> v, items |-> <<>>]
  BY <1>2, <1>4 DEF Level
<1> QED BY <1>5, <1>6

\* A child is one of the items of the document, and the items are the children.
ItemOf(h, k, d, p) == p \in 1..Len(d.items) /\ d.items[p] = [name |-> h[k].name, item |-> Value(h)[k]]

Itemised(h, r, d) ==
  /\ d = [val |-> d.val, items |-> d.items] /\ d.val = h[r].val /\ Len(d.items) \in Nat
  /\ d.items = [p \in 1..Len(d.items) |-> d.items[p]]
  /\ \A k \in Kids(h, r) : \E p \in 1..Len(d.items) : ItemOf(h, k, d, p)
  /\ \A p \in 1..Len(d.items) : \E k \in Kids(h, r) : ItemOf(h, k, d, p)

LEMMA ValueItems ==
  ASSUME NEW h, Shape(h), NEW r \in 1..Len(h)
  PROVE  Itemised(h, r, Value(h)[r])
<1> PICK S, c : S = Kids(h, r) /\ c = Children(h, r)
  OBVIOUS
<1>1. c = Ordered(S) /\ S \in SUBSET (1..Len(h)) /\ Len(h) \in Nat /\ Len(c) \in Nat
      /\ \A p \in 1..Len(c) : c[p] \in S
  BY ChildrenAre
<1>2. \A k \in S : Place(S, k) \in 1..Len(c) /\ c[Place(S, k)] = k
  <2> PICK o : o = Ordered(S)
    OBVIOUS
  <2>1. /\ Len(o) = Cardinality(S)
        /\ \A k \in S : Place(S, k) \in 1..Cardinality(S) /\ o[Place(S, k)] = k
    BY <1>1, OrderedIs
  <2> QED BY <1>1, <2>1
<1> PICK s : s = [p \in 1..Len(c) |-> [name |-> h[c[p]].name, item |-> Value(h)[c[p]]]]
  OBVIOUS
<1> PICK d : d = [val |-> h[r].val, items |-> s]
  OBVIOUS
<1>3. Value(h)[r] = d
  <2>1. Value(h)[r] = Level(Value(h), h, r)
    BY ValueIs
  <2> QED BY <2>1 DEF Level
<1>4. d.val = h[r].val /\ d.items = s /\ Len(s) = Len(c)
  BY <1>1
<1>5. s = [p \in 1..Len(s) |-> s[p]]
  BY <1>4
<1>6. ASSUME NEW p \in 1..Len(c) PROVE ItemOf(h, c[p], d, p)
  BY <1>4 DEF ItemOf
<1>7. Itemised(h, r, d)
  BY <1>1, <1>2, <1>4, <1>5, <1>6 DEF Itemised
<1> QED BY <1>3, <1>7

\* cJSON_GetObjectItem misses no field.
LEMMA NoField ==
  ASSUME Shape(heap), NEW r \in 1..Len(heap), NEW name, GetObjectItem(r, name) = {}
  PROVE  \A k \in 1..Len(Value(heap)[r].items) : Value(heap)[r].items[k].name # name
<1> DEFINE S == {k \in Kids(heap, r) : heap[k].name = name}
<1>0. Len(heap) \in Nat /\ S \in SUBSET (1..Len(heap))
  BY DEF Shape, Kids
<1>a. \A k : k \in S <=> k \in Kids(heap, r) /\ heap[k].name = name
  OBVIOUS
<1> HIDE DEF S
<1>1. /\ Cardinality(S) \in Nat /\ \A k \in S : Place(S, k) \in 1..Cardinality(S)
      /\ \A j, k \in S : j < k => Place(S, j) < Place(S, k)
      /\ \A p \in 1..Cardinality(S) : \E k \in S : Place(S, k) = p
  BY <1>0, Places
<1>2. ASSUME NEW i \in S PROVE FALSE
  <2>1. 1 \in 1..Cardinality(S)
    BY <1>1
  <2>2. PICK k \in S : Place(S, k) = 1
    BY <1>1, <2>1
  <2>3. \A j \in S : ~(j < k)
    BY <1>1, <2>2
  <2>4. k \in 1..Len(heap) /\ IsChild(heap, k, r) /\ heap[k].name = name
    BY <1>a DEF Kids
  <2>5. ASSUME NEW j \in 1..(k - 1) PROVE ~(IsChild(heap, j, r) /\ heap[j].name = name)
    <3>1. j \in 1..Len(heap) /\ j < k
      BY <1>0, <2>4
    <3>2. j \notin S
      BY <2>3, <3>1
    <3> QED BY <1>a, <3>1, <3>2 DEF Kids
  <2>6. k \in GetObjectItem(r, name)
    BY <2>4, <2>5 DEF GetObjectItem
  <2> QED BY <2>6
<1> PICK d : d = Value(heap)[r]
  OBVIOUS
<1>3. ASSUME NEW p \in 1..Len(d.items) PROVE d.items[p].name # name
  <2>1. Itemised(heap, r, d)
    BY ValueItems
  <2>2. PICK k \in Kids(heap, r) : d.items[p] = [name |-> heap[k].name, item |-> Value(heap)[k]]
    BY <2>1 DEF Itemised, ItemOf
  <2>3. k \notin S
    BY <1>2
  <2> QED BY <1>a, <2>2, <2>3
<1> QED BY <1>3

\* Where a child grows, its document is exchanged in the one above.
Exchanged(d, e, p, x) ==
  e = [val |-> d.val, items |-> [d.items EXCEPT ![p] = [name |-> d.items[p].name, item |-> x]]]

LEMMA GrownInside ==
  ASSUME NEW h, Shape(h), NEW r \in 1..Len(h), NEW k \in Kids(h, r), NEW g, Shape(g), Grown(h, g, k)
  PROVE  \E p : /\ ItemOf(h, k, Value(h)[r], p)
                /\ Exchanged(Value(h)[r], Value(g)[r], p, Value(g)[k])
<1> PICK S, c : S = Kids(h, r) /\ c = Children(h, r)
  OBVIOUS
<1>1. c = Ordered(S) /\ S \in SUBSET (1..Len(h)) /\ Len(h) \in Nat /\ Len(c) \in Nat
      /\ (\A p \in 1..Len(c) : c[p] \in S) /\ k \in 1..Len(h) /\ r < k /\ k \in 0..Len(h)
  <2>1. c = Ordered(S) /\ S \in SUBSET (1..Len(h)) /\ Len(h) \in Nat /\ Len(c) \in Nat
        /\ (\A p \in 1..Len(c) : c[p] \in S) /\ k \in 1..Len(h) /\ r < k
    BY ChildrenAre
  <2> QED BY <2>1
<1>2. Children(g, r) = c
  <2>1. r # k
    BY <1>1
  <2>2. Kids(g, r) = S
    BY <1>1, <2>1, GrownKids
  <2> QED BY <1>1, <2>2, ChildrenAre
<1> PICK q : q = Place(S, k)
  OBVIOUS
<1>3. /\ q \in 1..Len(c) /\ c[q] = k
      /\ \A p \in 1..Len(c) : p # q => c[p] # k
  <2> PICK o : o = Ordered(S)
    OBVIOUS
  <2>1. k \in S
    OBVIOUS
  <2>2. /\ Len(o) = Cardinality(S)
        /\ \A p \in 1..Cardinality(S) : Place(S, o[p]) = p
        /\ Place(S, k) \in 1..Cardinality(S) /\ o[Place(S, k)] = k
    BY <1>1, <2>1, OrderedIs
  <2>3. c = o
    BY <1>1
  <2> QED BY <2>2, <2>3
<1>4. ASSUME NEW i \in S PROVE g[i].name = h[i].name /\ (i # k => Value(g)[i] = Value(h)[i])
  <2>1. i \in 1..Len(h) /\ h[i].up = r /\ r < i
    BY ChildrenAre
  <2>2. g[i] = h[i]
    BY <2>1 DEF Grown
  <2>3. ASSUME i # k PROVE k \notin Below(h, i)
    <3>1. k \in Below(h, i) <=> k = i \/ h[k].up \in Below(h, i)
      BY <1>1, BelowIs
    <3>2. h[k].up = r
      BY ChildrenAre
    <3>3. r \notin Below(h, i)
      BY <1>1, <2>1, BelowLow
    <3> QED BY <2>3, <3>1, <3>2, <3>3
  <2> QED BY <1>1, <2>1, <2>2, <2>3, GrownElsewhere
<1> PICK s : s = [p \in 1..Len(c) |-> [name |-> h[c[p]].name, item |-> Value(h)[c[p]]]]
  OBVIOUS
<1> PICK t : t = [p \in 1..Len(c) |-> [name |-> g[c[p]].name, item |-> Value(g)[c[p]]]]
  OBVIOUS
<1> PICK x, y : x = h[r].val /\ y = Value(g)[k]
  OBVIOUS
<1>5. Value(h)[r] = [val |-> x, items |-> s]
  BY ValueIs DEF Level
<1>6. Value(g)[r] = [val |-> x, items |-> t]
  <2>1. r \in 1..Len(g) /\ g[r] = h[r]
    BY <1>1 DEF Grown, Shape
  <2>2. Value(g)[r] = Level(Value(g), g, r)
    BY <2>1, ValueIs
  <2> QED BY <1>2, <2>1, <2>2 DEF Level
<1> PICK z : z = [name |-> s[q].name, item |-> y]
  OBVIOUS
<1>7. t = [s EXCEPT ![q] = z]
  <2>1. ASSUME NEW p \in 1..Len(c), p # q PROVE t[p] = s[p]
    <3>1. c[p] \in S /\ c[p] # k
      BY <1>1, <1>3, <2>1
    <3>2. g[c[p]].name = h[c[p]].name /\ Value(g)[c[p]] = Value(h)[c[p]]
      BY <1>4, <3>1
    <3> QED BY <3>2
  <2>2. t[q] = z
    <3>1. t[q] = [name |-> g[k].name, item |-> y] /\ s[q].name = h[k].name
      BY <1>3
    <3> QED BY <1>4, <3>1
  <2>3. t = [p \in 1..Len(c) |-> t[p]] /\ s = [p \in 1..Len(c) |-> s[p]]
    OBVIOUS
  <2>4. [s EXCEPT ![q] = z] = [p \in 1..Len(c) |-> IF p = q THEN z ELSE s[p]]
    BY <2>3
  <2>5. \A p \in 1..Len(c) : t[p] = IF p = q THEN z ELSE s[p]
    BY <2>1, <2>2
  <2>6. t = [p \in 1..Len(c) |-> IF p = q THEN z ELSE s[p]]
    BY <2>3, <2>5
  <2> QED BY <2>4, <2>6
<1>8. Len(s) = Len(c) /\ s[q] = [name |-> h[k].name, item |-> Value(h)[k]]
  BY <1>1, <1>3
<1> PICK d, e : d = Value(h)[r] /\ e = Value(g)[r]
  OBVIOUS
<1>9. d.val = x /\ d.items = s /\ e = [val |-> x, items |-> t]
  BY <1>5, <1>6
<1>10. ItemOf(h, k, d, q)
  BY <1>3, <1>8, <1>9 DEF ItemOf
<1>11. Exchanged(d, e, q, y)
  BY <1>7, <1>9 DEF Exchanged
<1> QED BY <1>10, <1>11

-----------------------------------------------------------------------------
(* Messages are documents.                                                  *)

\* The mark of "no document" is not a document.
NoneIsNoDocument == \A v, items : [val |-> v, items |-> items] # None

\* A message of rtMessage_GetMessageItem is not a field of its parent.
Deep == \A m \in 1..Len(msgs) : IsItem(m) => heap[heap[Root(m)].up].up # 0

\* What may be put into a document.
Document(item) == item \in {Abstract!Leaf(v) : v \in Vals} \cup {Contents[n] : n \in Abstract!Held}

IsRecord(d) == d = [val |-> d.val, items |-> d.items]

LEMMA WithIs ==
  ASSUME NEW d, IsRecord(d), NEW name, NEW item
  PROVE  Abstract!With(d, name, item)
         = [val |-> d.val, items |-> Append(d.items, [name |-> name, item |-> item])]
<1>1. ASSUME NEW v, NEW s, d = [val |-> v, items |-> s]
      PROVE  Abstract!With(d, name, item)
             = [val |-> v, items |-> Append(s, [name |-> name, item |-> item])]
  <2> PICK e : e = [name |-> name, item |-> item]
    OBVIOUS
  <2>1. Abstract!With(d, name, item) = [d EXCEPT !.items = Append(@, e)]
    BY DEF Abstract!With
  <2> PICK t : t = Append(s, e)
    OBVIOUS
  <2>2. d.items = s
    BY <1>1
  <2>3. Abstract!With(d, name, item) = [d EXCEPT !.items = t]
    BY <2>1, <2>2
  <2>4. [d EXCEPT !.items = t] = [val |-> v, items |-> t]
    BY <1>1
  <2> QED BY <2>3, <2>4
<1> QED BY <1>1 DEF IsRecord

LEMMA ValueIsRecord ==
  ASSUME NEW h, Shape(h), NEW r \in 1..Len(h) PROVE IsRecord(Value(h)[r])
BY ValueItems DEF Itemised, IsRecord

\* Growing by a tree puts its document into that of the item it is added to.
LEMMA GrownWith ==
  ASSUME NEW h, HeapOK(h), NEW up \in 1..Len(h), NEW d, IsTree(d), NEW name \in Names \cup {NoName},
         NEW g, g = Added(h, d, up, name), Shape(g)
  PROVE  Value(g)[up] = Abstract!With(Value(h)[up], name, Value(g)[Len(h) + 1])
<1>0. Shape(h) /\ Len(h) \in Nat /\ up \in 0..Len(h)
  BY DEF HeapOK, Shape
<1>1. Grown(h, g, up)
  BY <1>0, AddedGrows
<1> PICK x : x = Len(h) + 1
  OBVIOUS
<1>2. g[x].name = name
  <2>1. Holding(g, Len(h), d, name)
    BY <1>0, AddedIs
  <2> QED BY <2>1 DEF Holding
<1>3. Value(g)[up] = [val   |-> Value(h)[up].val,
                      items |-> Append(Value(h)[up].items, [name |-> g[x].name, item |-> Value(g)[x]])]
  BY <1>0, <1>1, GrownHere
<1>4. IsRecord(Value(h)[up])
  BY <1>0, ValueIsRecord
<1> PICK v, y : v = Value(h)[up] /\ y = Value(g)[x]
  OBVIOUS
<1>5. Abstract!With(v, name, y) = [val |-> v.val, items |-> Append(v.items, [name |-> name, item |-> y])]
  BY <1>4, WithIs
<1> QED BY <1>2, <1>3, <1>5

\* What Contents is before and after a step.
LEMMA ContentsAre ==
  /\ Contents = [n \in 1..MaxMsgs |-> Contents[n]] /\ Contents' = [n \in 1..MaxMsgs |-> Contents'[n]]
  /\ \A n \in 1..MaxMsgs :
       /\ Contents[n] = IF n <= Len(msgs) /\ \E t \in Threads : refs[t][n] > 0
                        THEN Value(heap)[msgs[n].root] ELSE None
       /\ Contents'[n] = IF n <= Len(msgs') /\ \E t \in Threads : refs'[t][n] > 0
                         THEN Value(heap')[msgs'[n].root] ELSE None
BY DEF Contents, Holds, Root

\* A message that somebody holds is the document in its tree.
LEMMA HeldDocument ==
  ASSUME Inv, NoneIsNoDocument, NEW m \in 1..Len(msgs), NEW t \in Threads, Holds(t, m)
  PROVE  /\ m \in 1..MaxMsgs /\ Root(m) \in 1..Len(heap) /\ Shape(heap)
         /\ Contents[m] = Value(heap)[Root(m)] /\ Contents[m] # None
         /\ m \in Abstract!Held
<1>1. Root(m) \in 1..Len(heap) /\ m \in 1..MaxMsgs /\ Shape(heap) /\ m <= Len(msgs)
  BY RootFacts DEF Inv, Types, HeapOK
<1>2. Contents[m] = Value(heap)[Root(m)]
  BY <1>1, ContentsAre DEF Holds, Root
<1>3. Contents[m] # None
  <2> PICK d : d = Value(heap)[Root(m)]
    OBVIOUS
  <2>1. d = [val |-> d.val, items |-> d.items]
    BY <1>1, ValueIsRecord DEF IsRecord
  <2>2. [val |-> d.val, items |-> d.items] # None
    BY DEF NoneIsNoDocument
  <2> QED BY <1>2, <2>1, <2>2
<1> QED BY <1>1, <1>2, <1>3 DEF Abstract!Held

\* A step that changes one document.
LEMMA OneChanges ==
  ASSUME NEW m \in 1..MaxMsgs, \A n \in 1..MaxMsgs : n # m => Contents'[n] = Contents[n],
         IF Contents[m] = None THEN Abstract!Obtain(Contents'[m])
         ELSE Contents'[m] = None \/ Abstract!AddField(Contents[m], Contents'[m])
  PROVE  Abstract!Next
<1> PICK old, new : old = Contents[m] /\ new = Contents'[m]
  OBVIOUS
<1> PICK C, D : C = Contents /\ D = Contents'
  OBVIOUS
<1>1. D = [C EXCEPT ![m] = new]
  <2>1. C = [n \in 1..MaxMsgs |-> C[n]] /\ D = [n \in 1..MaxMsgs |-> D[n]]
    BY ContentsAre
  <2>2. [C EXCEPT ![m] = new] = [n \in 1..MaxMsgs |-> IF n = m THEN new ELSE C[n]]
    BY <2>1
  <2>3. \A n \in 1..MaxMsgs : D[n] = IF n = m THEN new ELSE C[n]
    OBVIOUS
  <2> QED BY <2>1, <2>2, <2>3
<1>2. Contents' = [Contents EXCEPT ![m] = new]
  BY <1>1
<1>3. old \in {Contents[m]} /\ new \in {Contents'[m]}
  OBVIOUS
<1>4. IF old = None THEN Abstract!Obtain(new) ELSE new = None \/ Abstract!AddField(old, new)
  OBVIOUS
<1> QED BY <1>2, <1>3, <1>4 DEF Abstract!Next

\* What is added to a message shows in no other.
LEMMA FillMaps ==
  ASSUME Inv, Deep, NEW t \in Threads, NEW m \in 1..Len(msgs), Uses(t, m), ~IsItem(m),
         NEW k \in 1..Len(heap), k = Root(m) \/ heap[k].up = Root(m),
         Grown(heap, heap', k), Shape(heap'), UNCHANGED <<msgs, refs>>
  PROVE  /\ \A n \in 1..MaxMsgs : n # m => Contents'[n] = Contents[n]
         /\ m \in 1..MaxMsgs /\ Contents'[m] = Value(heap')[Root(m)]
<1>0. /\ Types /\ Trees /\ m \in Owners /\ Shape(heap) /\ Root(m) \in 1..Len(heap)
      /\ heap[Root(m)].up = 0 /\ Root(m) \in Below(heap, Root(m)) /\ m \in 1..MaxMsgs
      /\ Len(msgs) \in Nat /\ MaxMsgs \in Nat /\ 0 \notin 1..Len(heap)
  <2>1. Types /\ Trees /\ m \in Owners /\ Shape(heap) /\ Root(m) \in Below(heap, Root(m)) /\ MaxMsgs \in Nat
    BY Used, BoundsAssumption DEF Inv
  <2> QED BY <2>1, RootFacts
<1>1. k \in Below(heap, Root(m))
  BY <1>0, BelowIs
<1>2. ASSUME NEW n \in 1..Len(msgs), NEW u \in Threads, Holds(u, n), n # m
      PROVE  k \notin Below(heap, Root(n))
  <2>1. CASE n \in Owners
    BY <1>0, <1>1, <1>2, <2>1, OneOwner
  <2>2. CASE n \notin Owners
    <3> PICK r, q : r = Root(n) /\ q = Root(m)
      OBVIOUS
    <3>1. heap[r].up # 0 /\ heap[heap[r].up].up # 0 /\ r \in 1..Len(heap)
      BY <1>0, <2>2, RootFacts DEF Deep, IsItem
    <3>2. /\ Below(heap, r) \subseteq 1..Len(heap)
          /\ \A j \in 1..Len(heap) : j \in Below(heap, r) <=> j = r \/ heap[j].up \in Below(heap, r)
      BY <1>0, BelowIs
    <3>3. q \notin Below(heap, r)
      BY <1>0, <3>1, <3>2
    <3> QED BY <1>0, <3>1, <3>2, <3>3
  <2> QED BY <2>1, <2>2
<1>3. ASSUME NEW n \in 1..MaxMsgs, n # m PROVE Contents'[n] = Contents[n]
  <2>1. CASE n <= Len(msgs) /\ \E u \in Threads : refs[u][n] > 0
    <3>1. PICK u \in Threads : Holds(u, n) /\ n \in 1..Len(msgs)
      BY <1>0, <2>1 DEF Holds
    <3>2. k \notin Below(heap, Root(n)) /\ Root(n) \in 1..Len(heap) /\ k \in 0..Len(heap)
      BY <1>0, <1>2, <1>3, <3>1, RootFacts
    <3>3. Value(heap')[Root(n)] = Value(heap)[Root(n)]
      BY <1>0, <3>2, GrownElsewhere
    <3> QED BY <2>1, <3>3, ContentsAre DEF Root
  <2>2. CASE ~(n <= Len(msgs) /\ \E u \in Threads : refs[u][n] > 0)
    BY <2>2, ContentsAre
  <2> QED BY <2>1, <2>2
<1>4. Contents'[m] = Value(heap')[Root(m)]
  <2>1. m <= Len(msgs) /\ refs[t][m] > 0
    BY DEF Uses, Holds
  <2> QED BY <1>0, <2>1, ContentsAre DEF Root
<1> QED BY <1>0, <1>3, <1>4

\* A new message is a document of its own, and changes no other.
LEMMA NewMaps ==
  ASSUME Inv, NEW t \in Threads, NEW root \in 1..MaxNodes, NewMessage(t, root),
         heap' = heap \/ (Grown(heap, heap', 0) /\ Shape(heap')), NEW m, m = Len(msgs) + 1
  PROVE  /\ \A n \in 1..MaxMsgs : n # m => Contents'[n] = Contents[n]
         /\ m \in 1..MaxMsgs /\ Contents[m] = None /\ Contents'[m] = Value(heap')[root]
<1>0. /\ m \in 1..MaxMsgs /\ Len(msgs') = m /\ Len(msgs) \in Nat
      /\ \A i \in 1..Len(msgs) : i # m /\ msgs'[i] = msgs[i]
      /\ msgs'[m].root = root
      /\ \A u \in Threads, i \in 1..MaxMsgs : refs'[u][i] = IF u = t /\ i = m THEN 1 ELSE refs[u][i]
      /\ \A i \in 1..m : i = m \/ i \in 1..Len(msgs)
  <2>1. Len(msgs) \in Nat
    BY RootFacts DEF Inv
  <2> QED BY <2>1, NewMessageIs
<1>1. Types /\ Shape(heap) /\ MaxMsgs \in Nat
  BY BoundsAssumption DEF Inv, Types, HeapOK
<1>2. ASSUME NEW n \in 1..MaxMsgs, n # m PROVE Contents'[n] = Contents[n]
  <2>1. CASE n <= Len(msgs) /\ \E u \in Threads : refs[u][n] > 0
    <3>1. n \in 1..Len(msgs) /\ n <= Len(msgs') /\ \E u \in Threads : refs'[u][n] > 0
      BY <1>0, <1>1, <1>2, <2>1
    <3> PICK r : r = msgs[n].root
      OBVIOUS
    <3>2. r \in 1..Len(heap) /\ msgs'[n].root = r
      BY <1>0, <1>1, <3>1, RootFacts DEF Root
    <3>3. Value(heap')[r] = Value(heap)[r]
      <4>1. 0 \notin Below(heap, r) /\ 0 \in 0..Len(heap)
        BY <1>1, BelowIs DEF Shape
      <4>2. CASE heap' = heap
        BY <4>2
      <4>3. CASE Grown(heap, heap', 0) /\ Shape(heap')
        BY <1>1, <3>2, <4>1, <4>3, GrownElsewhere
      <4> QED BY <4>2, <4>3
    <3>4. Contents'[n] = Value(heap')[msgs'[n].root]
      BY <3>1, ContentsAre
    <3>5. Contents[n] = Value(heap)[msgs[n].root]
      BY <2>1, ContentsAre
    <3> QED BY <3>2, <3>3, <3>4, <3>5
  <2>2. CASE ~(n <= Len(msgs) /\ \E u \in Threads : refs[u][n] > 0)
    <3>1. ~(n <= Len(msgs') /\ \E u \in Threads : refs'[u][n] > 0)
      BY <1>0, <1>2, <2>2
    <3> QED BY <2>2, <3>1, ContentsAre
  <2> QED BY <2>1, <2>2
<1>3. Contents[m] = None
  <2>1. ~(m <= Len(msgs))
    BY <1>0
  <2> QED BY <1>0, <2>1, ContentsAre
<1>4. Contents'[m] = Value(heap')[root]
  <2>1. m <= Len(msgs') /\ refs'[t][m] > 0
    BY <1>0
  <2> QED BY <1>0, <2>1, ContentsAre
<1> QED BY <1>0, <1>2, <1>3, <1>4

\* Items of arrays stay deeper than fields.
LEMMA DeepStep ==
  ASSUME Inv, Deep, Len(heap) <= Len(heap'),
         \A k \in 1..Len(heap) : heap'[k].up = heap[k].up,
         \A m \in 1..Len(msgs') :
           \/ m \in 1..Len(msgs) /\ msgs'[m].root = msgs[m].root
           \/ heap'[msgs'[m].root].up = 0
           \/ /\ msgs'[m].root \in 1..Len(heap) /\ heap[msgs'[m].root].up \in 1..Len(heap)
              /\ heap[heap[msgs'[m].root].up].up # 0
  PROVE  Deep'
<1>1. ASSUME NEW m \in 1..Len(msgs'), heap'[msgs'[m].root].up # 0
      PROVE  heap'[heap'[msgs'[m].root].up].up # 0
  <2> PICK r : r = msgs'[m].root
    OBVIOUS
  <2>1. Len(heap) \in Nat /\ \A k \in 1..Len(heap) : heap[k].up \in 0..(k - 1)
    BY DEF Inv, Types, HeapOK, Shape
  <2>2. CASE m \in 1..Len(msgs) /\ r = msgs[m].root
    <3>1. r \in 1..Len(heap)
      BY <2>2, RootFacts DEF Inv, Root
    <3>2. heap'[r].up = heap[r].up /\ heap[r].up # 0
      BY <1>1, <3>1
    <3>3. heap[heap[r].up].up # 0
      BY <2>2, <3>2 DEF Deep, IsItem, Root
    <3>4. heap[r].up \in 1..Len(heap)
      BY <2>1, <3>1, <3>2
    <3> QED BY <3>2, <3>3, <3>4
  <2>3. CASE r \in 1..Len(heap) /\ heap[r].up \in 1..Len(heap) /\ heap[heap[r].up].up # 0
    BY <2>3
  <2> QED BY <1>1, <2>2, <2>3
<1> QED BY <1>1 DEF Deep, IsItem, Root

LEMMA DeepSame ==
  ASSUME Inv, Deep, Len(heap') = Len(heap), \A k \in 1..Len(heap) : heap'[k].up = heap[k].up,
         Len(msgs') = Len(msgs), \A m \in 1..Len(msgs) : msgs'[m].root = msgs[m].root
  PROVE  Deep'
<1>1. Len(heap) <= Len(heap')
  BY RootFacts DEF Inv
<1> QED BY <1>1, DeepStep

\* The document that a tree gives, wherever it is added.
Gives(d, item) ==
  \A h, up, name, g :
    /\ HeapOK(h) /\ up \in 0..Len(h) /\ name \in Names \cup {NoName}
    /\ g = Added(h, d, up, name) /\ Shape(g)
    => Value(g)[Len(h) + 1] = item

LEMMA CopyGives ==
  ASSUME HeapOK(heap), NEW r \in 1..Len(heap), heap[r].live
  PROVE  Gives(Duplicate(r), Value(heap)[r])
BY CopyValue DEF Gives

LEMMA LeafGives ==
  /\ \A v \in Vals : Gives(LeafTree(v), Abstract!Leaf(v))
  /\ Gives(EmptyTree, Abstract!Empty)
<1>1. ASSUME NEW v \in Vals \cup {None} PROVE Gives(<<Item(0, NoName, v)>>, [val |-> v, items |-> <<>>])
  BY SingleValue DEF Gives
<1> QED BY <1>1 DEF LeafTree, EmptyTree, Abstract!Leaf, Abstract!Empty

\* An item of a message is a part of its document.
LEMMA KidIsPart ==
  ASSUME NEW h, Shape(h), NEW r \in 1..Len(h), NEW k \in Kids(h, r)
  PROVE  Value(h)[k] \in Abstract!Parts(Value(h)[r])
<1> PICK d : d = Value(h)[r]
  OBVIOUS
<1>1. PICK p \in 1..Len(d.items) : d.items[p] = [name |-> h[k].name, item |-> Value(h)[k]]
  <2>1. Itemised(h, r, d)
    BY ValueItems
  <2>2. \E p \in 1..Len(d.items) : ItemOf(h, k, d, p)
    BY <2>1 DEF Itemised
  <2> QED BY <2>2 DEF ItemOf
<1>2. Value(h)[k] = d.items[p].item
  BY <1>1
<1> QED BY <1>2 DEF Abstract!Parts

LEMMA PartOfHeld ==
  ASSUME Inv, NoneIsNoDocument, NEW m \in 1..Len(msgs), NEW t \in Threads, Holds(t, m),
         NEW k, \/ k = Root(m) \/ k \in Kids(heap, Root(m))
                \/ \E i \in Kids(heap, Root(m)) : k \in Kids(heap, i)
  PROVE  Abstract!Obtain(Value(heap)[k])
<1> PICK r : r = Root(m)
  OBVIOUS
<1>1. m \in Abstract!Held /\ Contents[m] = Value(heap)[r] /\ Shape(heap) /\ r \in 1..Len(heap)
  BY HeldDocument
<1>2. \A d : d \in Abstract!Parts(d)
  BY DEF Abstract!Parts
<1>3. Value(heap)[k] \in Abstract!PartsOf(m)
  <2>1. CASE k = r
    BY <1>1, <1>2, <2>1 DEF Abstract!PartsOf
  <2>2. CASE k \in Kids(heap, r)
    <3>1. Value(heap)[k] \in Abstract!Parts(Value(heap)[r])
      BY <1>1, <2>2, KidIsPart
    <3> QED BY <1>1, <1>2, <3>1 DEF Abstract!PartsOf
  <2>3. CASE \E i \in Kids(heap, r) : k \in Kids(heap, i)
    <3>1. PICK i \in Kids(heap, r) : k \in Kids(heap, i)
      BY <2>3
    <3>2. Value(heap)[i] \in Abstract!Parts(Value(heap)[r]) /\ i \in 1..Len(heap)
      BY <1>1, KidIsPart, ChildrenAre
    <3>3. Value(heap)[k] \in Abstract!Parts(Value(heap)[i])
      BY <1>1, <3>1, <3>2, KidIsPart
    <3> QED BY <1>1, <3>2, <3>3 DEF Abstract!PartsOf
  <2> QED BY <2>1, <2>2, <2>3
<1> QED BY <1>1, <1>3 DEF Abstract!Obtain

\* A tree that becomes a message.
LEMMA MakeRefines ==
  ASSUME Inv, Deep, NEW t \in Threads, NEW d, IsTree(d), NEW item, Gives(d, item), Abstract!Obtain(item),
         NewTree(Added(heap, d, 0, NoName)), NewMessage(t, Len(heap) + 1)
  PROVE  Abstract!Next /\ Deep'
<1>0. HeapOK(heap) /\ Len(heap) \in Nat /\ MaxNodes \in Nat /\ 0 \in 0..Len(heap)
  BY BoundsAssumption DEF Inv, Types, HeapOK, Shape
<1>1. heap' = Added(heap, d, 0, NoName) /\ Len(heap') <= MaxNodes
  BY DEF NewTree
<1>2. Grown(heap, heap', 0)
  BY <1>0, <1>1, AddedGrows
<1>3. Shape(heap')
  BY <1>0, <1>2, GrownHeap DEF HeapOK
<1> PICK root, m : root = Len(heap) + 1 /\ m = Len(msgs) + 1
  OBVIOUS
<1>4. root \in 1..MaxNodes
  BY <1>0, <1>1, <1>2, <1>3 DEF Grown, Shape
<1>5. /\ \A n \in 1..MaxMsgs : n # m => Contents'[n] = Contents[n]
      /\ m \in 1..MaxMsgs /\ Contents[m] = None /\ Contents'[m] = Value(heap')[root]
  BY <1>2, <1>3, <1>4, NewMaps
<1>6. Value(heap')[root] = item
  BY <1>0, <1>1, <1>3 DEF Gives
<1>7. Deep'
  <2>1. /\ Len(heap) <= Len(heap') /\ heap'[root].up = 0
        /\ \A k \in 1..Len(heap) : heap'[k].up = heap[k].up
    BY <1>0, <1>2, <1>3 DEF Grown, Shape
  <2>2. /\ \A n \in 1..Len(msgs') : n = m \/ (n \in 1..Len(msgs) /\ msgs'[n] = msgs[n])
        /\ msgs'[m].root = root
    BY <1>4, NewMessageIs
  <2>3. ASSUME NEW n \in 1..Len(msgs')
        PROVE  (n \in 1..Len(msgs) /\ msgs'[n].root = msgs[n].root) \/ heap'[msgs'[n].root].up = 0
    BY <2>1, <2>2
  <2> QED BY <2>1, <2>3, DeepStep
<1> QED BY <1>5, <1>6, <1>7, OneChanges

LEMMA CreateRefines ==
  ASSUME Inv, Deep, NEW t \in Threads, Create(t)
  PROVE  Abstract!Next /\ Deep'
<1>1. Abstract!Obtain(Abstract!Empty)
  BY DEF Abstract!Obtain
<1> QED BY <1>1, LeafIsTree, LeafGives, MakeRefines DEF Create

LEMMA CopyRefines ==
  ASSUME Inv, Deep, NoneIsNoDocument, NEW t \in Threads, NEW m \in 1..Len(msgs),
         Clone(t, m) \/ FromBytes(t, m) \/ GetMessage(t, m)
  PROVE  Abstract!Next /\ Deep'
<1>1. ASSUME NEW u \in Threads, Uses(u, m),
             NEW k \in 1..Len(heap), k = Root(m) \/ k \in Kids(heap, Root(m)),
             NewTree(Added(heap, Duplicate(k), 0, NoName)), NewMessage(t, Len(heap) + 1)
      PROVE  Abstract!Next /\ Deep'
  <2>1. HeapOK(heap) /\ Shape(heap) /\ Root(m) \in 1..Len(heap)
        /\ \A j \in Below(heap, Root(m)) : heap[j].live
    BY <1>1, Used
  <2>2. heap[k].live
    <3>1. \A j \in 1..Len(heap) : j \in Below(heap, Root(m)) <=> j = Root(m) \/ heap[j].up \in Below(heap, Root(m))
      BY <2>1, BelowIs
    <3> QED BY <1>1, <2>1, <3>1 DEF Kids, IsChild
  <2>3. IsTree(Duplicate(k)) /\ Gives(Duplicate(k), Value(heap)[k])
    BY <2>1, <2>2, DuplicateIsTree, CopyGives
  <2>4. Abstract!Obtain(Value(heap)[k])
    BY <1>1, PartOfHeld DEF Uses
  <2> QED BY <1>1, <2>3, <2>4, MakeRefines
<1>2. CASE Clone(t, m)
  <2>1. Root(m) \in 1..Len(heap)
    BY <1>2, Used DEF Clone
  <2> QED BY <1>1, <1>2, <2>1 DEF Clone
<1>3. CASE FromBytes(t, m)
  <2>1. PICK u \in Threads : Uses(u, m)
    BY <1>3 DEF FromBytes
  <2>2. Root(m) \in 1..Len(heap)
    BY <2>1, Used
  <2> QED BY <1>1, <1>3, <2>1, <2>2 DEF FromBytes
<1>4. CASE GetMessage(t, m)
  <2>1. PICK k \in GetObjectItem(Root(m), "item") : NewTree(Added(heap, Duplicate(k), 0, NoName))
    BY <1>4 DEF GetMessage
  <2>2. k \in 1..Len(heap) /\ k \in Kids(heap, Root(m))
    BY DEF GetObjectItem, Kids
  <2> QED BY <1>1, <1>4, <2>1, <2>2 DEF GetMessage
<1> QED BY <1>2, <1>3, <1>4

LEMMA GetMessageItemRefines ==
  ASSUME Inv, Deep, NoneIsNoDocument, NEW t \in Threads, NEW m \in 1..Len(msgs), GetMessageItem(t, m)
  PROVE  Abstract!Next /\ Deep'
<1>1. Uses(t, m) /\ heap' = heap
  BY DEF GetMessageItem
<1>2. PICK k \in GetObjectItem(Root(m), "list"), j \in 1..Len(heap) :
        IsChild(heap, j, k) /\ NewMessage(t, j)
  BY DEF GetMessageItem
<1>3. k \in Kids(heap, Root(m)) /\ j \in Kids(heap, k)
  BY <1>2 DEF GetObjectItem, Kids
<1>4. Abstract!Obtain(Value(heap)[j])
  BY <1>1, <1>3, PartOfHeld DEF Uses
<1>5. j \in 1..MaxNodes
  BY <1>1, Used, BoundsAssumption
<1> PICK n : n = Len(msgs) + 1
  OBVIOUS
<1>6. /\ \A i \in 1..MaxMsgs : i # n => Contents'[i] = Contents[i]
      /\ n \in 1..MaxMsgs /\ Contents[n] = None /\ Contents'[n] = Value(heap')[j]
  BY <1>1, <1>2, <1>5, NewMaps
<1>7. Deep'
  <2>1. /\ Shape(heap) /\ Len(heap) \in Nat /\ Root(m) \in 1..Len(heap)
    BY <1>1, Used
  <2>2. heap[j].up = k /\ heap[k].up = Root(m) /\ k \in 1..Len(heap) /\ Root(m) # 0
    BY <1>3, <2>1, ChildrenAre
  <2>3. /\ \A i \in 1..Len(msgs') : i = n \/ (i \in 1..Len(msgs) /\ msgs'[i] = msgs[i])
        /\ msgs'[n].root = j
    BY <1>2, <1>5, NewMessageIs
  <2>4. ASSUME NEW i \in 1..Len(msgs')
        PROVE  \/ i \in 1..Len(msgs) /\ msgs'[i].root = msgs[i].root
               \/ /\ msgs'[i].root \in 1..Len(heap) /\ heap[msgs'[i].root].up \in 1..Len(heap)
                  /\ heap[heap[msgs'[i].root].up].up # 0
    BY <2>2, <2>3
  <2>5. Len(heap) <= Len(heap') /\ \A i \in 1..Len(heap) : heap'[i].up = heap[i].up
    BY <1>1, <2>1
  <2> QED BY <2>4, <2>5, DeepStep
<1> QED BY <1>1, <1>4, <1>6, <1>7, OneChanges

\* A step that fills a message as AddField does.
LEMMA FillRefines ==
  ASSUME Inv, Deep, NoneIsNoDocument, NEW t \in Threads, NEW m \in 1..Len(msgs), Uses(t, m), ~IsItem(m),
         NEW k \in 1..Len(heap), k = Root(m) \/ heap[k].up = Root(m),
         Grown(heap, heap', k), Shape(heap'), UNCHANGED <<msgs, refs>>,
         Abstract!AddField(Value(heap)[Root(m)], Value(heap')[Root(m)])
  PROVE  Abstract!Next /\ Deep'
<1>1. /\ \A n \in 1..MaxMsgs : n # m => Contents'[n] = Contents[n]
      /\ m \in 1..MaxMsgs /\ Contents'[m] = Value(heap')[Root(m)]
  BY FillMaps
<1>2. Contents[m] = Value(heap)[Root(m)] /\ Contents[m] # None
  BY HeldDocument DEF Uses
<1>3. Deep'
  <2>1. Len(heap) <= Len(heap') /\ Len(heap) \in Nat
        /\ \A i \in 1..Len(heap) : heap'[i].up = heap[i].up
    BY RootFacts DEF Grown, Shape, Inv
  <2> QED BY <2>1, DeepStep
<1> QED BY <1>1, <1>2, <1>3, OneChanges

LEMMA AddRefines ==
  ASSUME Inv, Deep, NoneIsNoDocument, NEW t \in Threads, NEW m \in 1..Len(msgs), Uses(t, m), ~IsItem(m),
         NEW d, IsTree(d), NEW item, Gives(d, item), Document(item), NEW name \in Names,
         NewTree(Added(heap, d, Root(m), name)), UNCHANGED <<msgs, refs>>
  PROVE  Abstract!Next /\ Deep'
<1> PICK r : r = Root(m)
  OBVIOUS
<1>0. /\ HeapOK(heap) /\ Shape(heap) /\ r \in 1..Len(heap) /\ r \in 0..Len(heap) /\ heap[r].live
      /\ name \in Names \cup {NoName}
  BY Used
<1>1. heap' = Added(heap, d, r, name)
  BY DEF NewTree
<1>2. Grown(heap, heap', r)
  BY <1>0, <1>1, AddedGrows
<1>3. Shape(heap')
  BY <1>0, <1>2, GrownHeap DEF HeapOK
<1>4. Value(heap')[Len(heap) + 1] = item
  BY <1>0, <1>1, <1>3 DEF Gives
<1>5. Value(heap')[r] = Abstract!With(Value(heap)[r], name, item)
  BY <1>0, <1>1, <1>3, <1>4, GrownWith
<1>6. Abstract!AddField(Value(heap)[r], Value(heap')[r])
  BY <1>5 DEF Abstract!AddField, Document
<1> QED BY <1>0, <1>2, <1>3, <1>6, FillRefines

WithItem(d, e, p, x) == e = [d EXCEPT !.items[p].item = x]

LEMMA IntoArray ==
  ASSUME NEW old, NEW new, NEW name \in Names, NEW item, Document(item),
         NEW i \in 1..Len(old.items), old.items[i].name = name,
         NEW b, b = old.items[i].item, WithItem(old, new, i, Abstract!With(b, "", item))
  PROVE  Abstract!AddField(old, new)
<1>1. new = [old EXCEPT !.items[i].item = Abstract!With(@, "", item)]
  BY DEF WithItem
<1> QED BY <1>1 DEF Abstract!AddField, Document

LEMMA ItemsExcept ==
  ASSUME NEW v, NEW s, NEW t, NEW d, d = [val |-> v, items |-> s]
  PROVE  [d EXCEPT !.items = t] = [val |-> v, items |-> t]
OBVIOUS

LEMMA ExchangedIs ==
  ASSUME NEW d, IsRecord(d), NEW n \in Nat, d.items = [j \in 1..n |-> d.items[j]], NEW p \in 1..n,
         NEW a, NEW b, d.items[p] = [name |-> a, item |-> b], NEW x, NEW e, Exchanged(d, e, p, x)
  PROVE  WithItem(d, e, p, x)
<1>1. ASSUME NEW v, NEW s, d = [val |-> v, items |-> s]
      PROVE  e = [d EXCEPT !.items[p].item = x]
  <2>1. d.items = s /\ d.val = v
    BY <1>1
  <2> PICK z : z = [name |-> a, item |-> x]
    OBVIOUS
  <2>2. s[p] = [name |-> a, item |-> b]
    BY <2>1
  <2>3. [s[p] EXCEPT !.item = x] = z /\ s[p].name = a
    BY <2>2
  <2> PICK t : t = [s EXCEPT ![p] = z]
    OBVIOUS
  <2>4. e = [val |-> v, items |-> t]
    BY <2>1, <2>3 DEF Exchanged
  <2>5. [d EXCEPT !.items[p].item = x] = [d EXCEPT !.items = t]
    BY <2>1, <2>3
  <2>a. \A u : [d EXCEPT !.items = u] = [val |-> v, items |-> u]
    BY <1>1, ItemsExcept
  <2>6. [d EXCEPT !.items = t] = [val |-> v, items |-> t]
    BY <2>a
  <2> QED BY <2>4, <2>5, <2>6
<1> QED BY <1>1 DEF IsRecord, WithItem

LEMMA ArrayRefines ==
  ASSUME Inv, Deep, NoneIsNoDocument, NEW t \in Threads, NEW m \in 1..Len(msgs), Uses(t, m), ~IsItem(m),
         NEW d, IsTree(d), NEW item, Gives(d, item), Document(item),
         AddToArray(m, "list", d), UNCHANGED <<msgs, refs>>
  PROVE  Abstract!Next /\ Deep'
<1> PICK r : r = Root(m)
  OBVIOUS
<1> PICK array : array = GetObjectItem(r, "list")
  OBVIOUS
<1>0. /\ HeapOK(heap) /\ Shape(heap) /\ Len(heap) \in Nat /\ r \in 1..Len(heap) /\ r \in 0..Len(heap)
      /\ \A k \in Below(heap, r) : k \in 1..Len(heap) /\ heap[k].live
      /\ heap[r].live
  <2>1. /\ HeapOK(heap) /\ Shape(heap) /\ Len(heap) \in Nat /\ r \in 1..Len(heap)
        /\ (\A k \in Below(heap, r) : k \in 1..Len(heap) /\ heap[k].live) /\ r \in Below(heap, r)
    BY Used
  <2> QED BY <2>1
<1>1. "list" \in Names /\ "list" \in Names \cup {NoName} /\ NoName \in Names \cup {NoName} /\ NoName = ""
  BY DEF Names, NoName
<1>2. CASE array # {}
  <2>1. PICK k \in array : NewTree(Added(heap, d, k, NoName))
    BY <1>2 DEF AddToArray
  <2>2. k \in 1..Len(heap) /\ k \in 0..Len(heap) /\ heap[k].live /\ heap[k].up = r /\ k \in Kids(heap, r)
        /\ heap[k].name = "list"
    BY <1>0 DEF GetObjectItem, IsChild, Kids
  <2>3. heap' = Added(heap, d, k, NoName)
    BY <2>1 DEF NewTree
  <2>4. Grown(heap, heap', k)
    BY <1>0, <1>1, <2>2, <2>3, AddedGrows
  <2>5. Shape(heap')
    BY <1>0, <2>2, <2>4, GrownHeap DEF HeapOK
  <2>6. Value(heap')[Len(heap) + 1] = item
    BY <1>0, <1>1, <2>2, <2>3, <2>5 DEF Gives
  <2>7. Value(heap')[k] = Abstract!With(Value(heap)[k], "", item)
    <3>1. Value(heap')[k] = Abstract!With(Value(heap)[k], NoName, Value(heap')[Len(heap) + 1])
      <4> PICK name : name = NoName
        OBVIOUS
      <4> PICK h, g : h = heap /\ g = heap'
        OBVIOUS
      <4>1. /\ HeapOK(h) /\ k \in 1..Len(h) /\ IsTree(d) /\ name \in Names \cup {NoName}
            /\ g = Added(h, d, k, name) /\ Shape(g)
        BY <1>0, <1>1, <2>2, <2>3, <2>5
      <4>2. Value(g)[k] = Abstract!With(Value(h)[k], name, Value(g)[Len(h) + 1])
        BY <4>1, GrownWith
      <4> QED BY <4>2
    <3> QED BY <1>1, <2>6, <3>1
  <2> PICK old, new, x : old = Value(heap)[r] /\ new = Value(heap')[r] /\ x = Value(heap')[k]
    OBVIOUS
  <2>8. PICK p : ItemOf(heap, k, old, p) /\ Exchanged(old, new, p, x)
    BY <1>0, <2>2, <2>4, <2>5, GrownInside
  <2>9. /\ p \in 1..Len(old.items)
        /\ old.items[p] = [name |-> "list", item |-> Value(heap)[k]]
    BY <2>2, <2>8 DEF ItemOf
  <2>10. /\ IsRecord(old) /\ Len(old.items) \in Nat
         /\ old.items = [j \in 1..Len(old.items) |-> old.items[j]]
    BY <1>0, ValueItems DEF Itemised, IsRecord
  <2> PICK n, b : n = Len(old.items) /\ b = Value(heap)[k]
    OBVIOUS
  <2>11. WithItem(old, new, p, x)
    <3>1. /\ IsRecord(old) /\ n \in Nat /\ old.items = [j \in 1..n |-> old.items[j]]
          /\ p \in 1..n /\ old.items[p] = [name |-> "list", item |-> b] /\ Exchanged(old, new, p, x)
      BY <2>8, <2>9, <2>10
    <3> QED BY <3>1, ExchangedIs
  <2>12. old.items[p].name = "list" /\ old.items[p].item = b
    BY <2>9
  <2>13. x = Abstract!With(b, "", item)
    BY <2>7
  <2>14. Abstract!AddField(old, new)
    BY <1>1, <2>9, <2>11, <2>12, <2>13, IntoArray
  <2> QED BY <2>2, <2>4, <2>5, <2>14, FillRefines
<1>3. CASE array = {}
  <2> PICK x, g : x = Len(heap) + 1 /\ g = Added(heap, EmptyTree, r, "list")
    OBVIOUS
  <2>1. heap' = Added(g, d, x, NoName)
    BY <1>3 DEF AddToArray, NewTree
  <2>2. Grown(heap, g, r) /\ Len(g) = x
    <3>1. Len(EmptyTree) = 1
      BY DEF EmptyTree
    <3>2. Grown(heap, g, r) /\ Len(g) = Len(heap) + Len(EmptyTree)
      BY <1>0, <1>1, LeafIsTree, AddedGrows
    <3> QED BY <3>1, <3>2
  <2>3. HeapOK(g) /\ Shape(g) /\ x \in 0..Len(g) /\ x \in 1..Len(g)
    <3>1. HeapOK(g)
      BY <1>0, <2>2, GrownHeap
    <3> QED BY <1>0, <2>2, <3>1 DEF HeapOK
  <2>4. Grown(g, heap', x)
    BY <1>1, <2>1, <2>3, AddedGrows
  <2>5. Grown(heap, heap', r)
    BY <1>0, <2>2, <2>3, <2>4, GrownTwice
  <2>6. Shape(heap')
    BY <1>0, <2>5, GrownHeap DEF HeapOK
  <2>7. Value(g)[x] = Abstract!Empty
    BY <1>0, <1>1, <2>3, LeafGives DEF Gives
  <2>8. Value(heap')[Len(g) + 1] = item
    BY <1>1, <2>1, <2>3, <2>6 DEF Gives
  <2>9. Value(heap')[x] = Abstract!With(Abstract!Empty, "", item)
    <3>1. Value(heap')[x] = Abstract!With(Value(g)[x], NoName, Value(heap')[Len(g) + 1])
      <4> PICK name, h, f : name = NoName /\ h = g /\ f = heap'
        OBVIOUS
      <4>1. /\ HeapOK(h) /\ x \in 1..Len(h) /\ IsTree(d) /\ name \in Names \cup {NoName}
            /\ f = Added(h, d, x, name) /\ Shape(f)
        BY <1>1, <2>1, <2>3, <2>6
      <4>2. Value(f)[x] = Abstract!With(Value(h)[x], name, Value(f)[Len(h) + 1])
        BY <4>1, GrownWith
      <4> QED BY <4>2
    <3> QED BY <1>1, <2>7, <2>8, <3>1
  <2>10. heap'[x].name = "list"
    <3>1. Holding(g, Len(heap), EmptyTree, "list")
      BY <1>0, <1>1, LeafIsTree, AddedIs
    <3>2. heap'[x] = g[x]
      BY <2>3, <2>4 DEF Grown
    <3> QED BY <3>1, <3>2 DEF Holding
  <2> PICK old, new, y : old = Value(heap)[r] /\ new = Value(heap')[r] /\ y = Value(heap')[x]
    OBVIOUS
  <2>11. new = [val |-> old.val, items |-> Append(old.items, [name |-> "list", item |-> y])]
    <3>1. Value(heap')[r] = [val   |-> Value(heap)[r].val,
                             items |-> Append(Value(heap)[r].items,
                                              [name |-> heap'[x].name, item |-> Value(heap')[x]])]
      <4> PICK h, f : h = heap /\ f = heap'
        OBVIOUS
      <4>1. Shape(h) /\ r \in 1..Len(h) /\ Shape(f) /\ Grown(h, f, r) /\ x = Len(h) + 1
        BY <1>0, <2>5, <2>6
      <4>2. Value(f)[r] = [val   |-> Value(h)[r].val,
                           items |-> Append(Value(h)[r].items, [name |-> f[x].name, item |-> Value(f)[x]])]
        BY <4>1, GrownHere
      <4> QED BY <4>2
    <3> QED BY <2>10, <3>1
  <2>12. new = Abstract!With(old, "list", y)
    <3>1. IsRecord(old)
      BY <1>0, ValueIsRecord
    <3>2. Abstract!With(old, "list", y)
          = [val |-> old.val, items |-> Append(old.items, [name |-> "list", item |-> y])]
      BY <3>1, WithIs
    <3> QED BY <2>11, <3>2
  <2>13. \A k \in 1..Len(old.items) : old.items[k].name # "list"
    BY <1>0, <1>3, NoField
  <2>14. Abstract!AddField(old, new)
    BY <1>1, <2>9, <2>12, <2>13 DEF Abstract!AddField, Document
  <2> QED BY <1>0, <2>5, <2>6, <2>14, FillRefines
<1> QED BY <1>2, <1>3

LEMMA FillsRefine ==
  ASSUME Inv, Deep, NoneIsNoDocument, ~Retopic, NEW t \in Threads, NEW m \in 1..Len(msgs), Fill(t, m)
  PROVE  Abstract!Next /\ Deep'
<1>0. {"field", "_topic"} \subseteq Names
  BY DEF Names
<1>1. ASSUME NEW v \in Vals
      PROVE  IsTree(LeafTree(v)) /\ Gives(LeafTree(v), Abstract!Leaf(v)) /\ Document(Abstract!Leaf(v))
  BY LeafIsTree, LeafGives DEF Document
<1>2. CASE SetField(t, m)
  <2>1. PICK v \in Vals : NewTree(Added(heap, LeafTree(v), Root(m), "field"))
    BY <1>2 DEF SetField
  <2> QED BY <1>0, <1>1, <1>2, <2>1, AddRefines DEF SetField
<1>3. CASE AddString(t, m)
  <2>1. PICK v \in Vals : AddToArray(m, "list", LeafTree(v))
    BY <1>3 DEF AddString
  <2> QED BY <1>1, <1>3, <2>1, ArrayRefines DEF AddString
<1>4. CASE SetSendTopic(t, m)
  <2> DEFINE old == GetObjectItem(Root(m), "_topic")
  <2>1. Uses(t, m) /\ ~IsItem(m) /\ UNCHANGED <<msgs, refs>> /\ old = {}
    BY <1>4 DEF SetSendTopic
  <2>2. PICK v \in Vals : NewTree(Added(Freed(heap, old), LeafTree(v), Root(m), "_topic"))
    BY <1>4 DEF SetSendTopic
  <2>3. NewTree(Added(heap, LeafTree(v), Root(m), "_topic"))
    BY <2>1, <2>2, FreedNothing DEF Inv, Types
  <2> QED BY <1>0, <1>1, <2>1, <2>3, AddRefines
<1> QED BY <1>2, <1>3, <1>4 DEF Fill

LEMMA PutRefines ==
  ASSUME Inv, Deep, NoneIsNoDocument, NEW t \in Threads, NEW m \in 1..Len(msgs),
         NEW item \in 1..Len(msgs), SetMessage(t, m, item) \/ AddMessage(t, m, item)
  PROVE  Abstract!Next /\ Deep'
<1>1. Uses(t, m) /\ Uses(t, item) /\ ~IsItem(m) /\ UNCHANGED <<msgs, refs>>
  BY DEF SetMessage, AddMessage
<1> PICK d, v : d = Duplicate(Root(item)) /\ v = Value(heap)[Root(item)]
  OBVIOUS
<1>2. IsTree(d) /\ Gives(d, v)
  BY <1>1, Used, DuplicateIsTree, CopyGives
<1>3. Document(v)
  BY <1>1, HeldDocument DEF Uses, Document
<1>4. "item" \in Names
  BY DEF Names
<1>5. CASE SetMessage(t, m, item)
  <2>1. NewTree(Added(heap, d, Root(m), "item"))
    BY <1>5 DEF SetMessage
  <2> QED BY <1>1, <1>2, <1>3, <1>4, <2>1, AddRefines
<1>6. CASE AddMessage(t, m, item)
  <2>1. AddToArray(m, "list", d)
    BY <1>6 DEF AddMessage
  <2> QED BY <1>1, <1>2, <1>3, <2>1, ArrayRefines
<1> QED BY <1>5, <1>6

\* A step that may take a reference to one message.
LEMMA GivenUp ==
  ASSUME Inv, Deep, NEW t \in Threads, NEW m \in 1..Len(msgs), Holds(t, m), NoneIsNoDocument,
         heap' = heap, msgs' = msgs, NEW c, refs' = [refs EXCEPT ![t][m] = c]
  PROVE  (Abstract!Next \/ UNCHANGED Contents) /\ Deep'
<1>1. m \in 1..MaxMsgs /\ Contents[m] # None /\ Contents[m] = Value(heap)[Root(m)]
  BY HeldDocument
<1>2. refs \in [Threads -> [1..MaxMsgs -> 0..2]]
  BY DEF Inv, Types, TypeOK
<1>3. ASSUME NEW n \in 1..MaxMsgs, n # m PROVE Contents'[n] = Contents[n]
  <2>1. \A u \in Threads : refs'[u][n] = refs[u][n]
    BY <1>2, <1>3
  <2> QED BY <2>1, ContentsAre
<1>4. Contents'[m] = Contents[m] \/ Contents'[m] = None
  BY <1>1, ContentsAre DEF Root
<1>5. Deep'
  BY DeepSame
<1>6. CASE Contents'[m] = None
  BY <1>1, <1>3, <1>5, <1>6, OneChanges
<1>7. CASE Contents'[m] = Contents[m]
  <2>1. \A n \in 1..MaxMsgs : Contents'[n] = Contents[n]
    BY <1>3, <1>7
  <2> QED BY <1>5, <2>1, ContentsAre
<1> QED BY <1>4, <1>5, <1>6, <1>7

\* A step that leaves the documents as they are.
LEMMA SameContents ==
  ASSUME \A n \in 1..MaxMsgs : Contents'[n] = Contents[n]
  PROVE  UNCHANGED Contents
BY ContentsAre

\* A struct whose count changes keeps its root.
LEMMA OneStruct ==
  ASSUME NEW s, s \in Seq(Struct), NEW m \in 1..Len(s), NEW c, NEW g, g = [s EXCEPT ![m].count = c]
  PROVE  Len(g) = Len(s) /\ \A n \in 1..Len(s) : g[n].root = s[n].root
<1>1. ASSUME NEW n \in 1..Len(s) PROVE s[n] \in Struct
  BY ElementOfSeq
<1>2. Len(s) \in Nat /\ s = [n \in 1..Len(s) |-> s[n]]
  OBVIOUS
<1> PICK x : x = [s[m] EXCEPT !.count = c]
  OBVIOUS
<1>3. g = [n \in 1..Len(s) |-> IF n = m THEN x ELSE s[n]]
  BY <1>2
<1>4. x.root = s[m].root
  BY <1>1 DEF Struct
<1> QED BY <1>2, <1>3, <1>4

LEMMA RetainKeeps ==
  ASSUME Inv, Deep, NEW t \in Threads, NEW m \in 1..Len(msgs), NEW u \in Threads, Retain(t, m, u)
  PROVE  UNCHANGED Contents /\ Deep'
<1>1. /\ refs[t][m] > 0 /\ heap' = heap
      /\ msgs' = [msgs EXCEPT ![m].count = @ + 1] /\ refs' = [refs EXCEPT ![u][m] = @ + 1]
  BY DEF Retain, Uses, Holds
<1>2. /\ refs \in [Threads -> [1..MaxMsgs -> 0..2]] /\ msgs \in Seq(Struct)
      /\ Len(msgs) \in Nat /\ m \in 1..MaxMsgs
  BY RootFacts DEF Inv, Types, TypeOK, Struct
<1>3. Len(msgs') = Len(msgs) /\ \A n \in 1..Len(msgs) : msgs'[n].root = msgs[n].root
  BY <1>1, <1>2, OneStruct
<1>4. ASSUME NEW n \in 1..MaxMsgs PROVE Contents'[n] = Contents[n]
  <2>1. (\E v \in Threads : refs'[v][n] > 0) <=> \E v \in Threads : refs[v][n] > 0
    <3>1. CASE n # m
      BY <1>1, <1>2, <3>1
    <3>2. CASE n = m
      <4>1. refs[u][m] \in 0..2
        BY <1>2
      <4>2. refs'[u][m] = refs[u][m] + 1
        BY <1>1, <1>2
      <4>3. refs'[u][m] > 0
        BY <4>1, <4>2
      <4> QED BY <1>1, <3>2, <4>3
    <3> QED BY <3>1, <3>2
  <2>2. n <= Len(msgs) => n \in 1..Len(msgs)
    BY <1>2
  <2> QED BY <1>1, <1>3, <2>1, <2>2, ContentsAre
<1>5. Deep'
  BY <1>1, <1>3, DeepSame
<1> QED BY <1>4, <1>5, SameContents

LEMMA SubKeeps ==
  ASSUME Inv, Deep, NEW t \in Threads, ReleaseSub(t) \/ ReleaseTest(t)
  PROVE  UNCHANGED Contents /\ Deep'
<1>1. heap' = heap /\ refs' = refs
  BY DEF ReleaseSub, ReleaseTest
<1>2. msgs \in Seq(Struct) /\ Len(msgs) \in Nat
  BY RootFacts DEF Inv, Types, TypeOK, Struct
<1>3. Len(msgs') = Len(msgs) /\ \A n \in 1..Len(msgs) : msgs'[n].root = msgs[n].root
  <2>1. CASE msgs' = msgs
    BY <2>1
  <2>2. CASE msgs' # msgs
    <3>1. msgs' = [msgs EXCEPT ![at[t]].count = @ - 1] /\ pc[t] = "sub"
      BY <2>2 DEF ReleaseSub, ReleaseTest
    <3>2. at[t] \in 1..Len(msgs)
      BY <3>1 DEF Inv, Releasing, Owners
    <3> QED BY <1>2, <3>1, <3>2, OneStruct
  <2> QED BY <2>1, <2>2
<1>4. ASSUME NEW n \in 1..MaxMsgs PROVE Contents'[n] = Contents[n]
  <2>1. n <= Len(msgs) => n \in 1..Len(msgs)
    BY <1>2
  <2> QED BY <1>1, <1>3, <2>1, ContentsAre
<1>5. Deep'
  BY <1>1, <1>3, DeepSame
<1> QED BY <1>4, <1>5, SameContents

\* Freeing changes neither names nor values.
LEMMA FreedKeeps ==
  ASSUME NEW h, HeapOK(h), NEW set
  PROVE  \A k \in 1..Len(h) : Freed(h, set)[k].val = h[k].val /\ Freed(h, set)[k].name = h[k].name
<1>1. ASSUME NEW k \in 1..Len(h)
      PROVE  Freed(h, set)[k].val = h[k].val /\ Freed(h, set)[k].name = h[k].name
  <2> PICK b : b = (h[k].live /\ k \notin set)
    OBVIOUS
  <2>1. Freed(h, set)[k] = [h[k] EXCEPT !.live = b]
    BY DEF Freed
  <2>2. h[k] \in Node
    BY ElementOfSeq DEF HeapOK
  <2> QED BY <2>1, <2>2 DEF Node
<1> QED BY <1>1

\* A message that goes takes nothing of what others hold.
LEMMA DestroyKeeps ==
  ASSUME Inv, Inv', Deep, NEW t \in Threads, Destroy(t)
  PROVE  UNCHANGED Contents /\ Deep'
<1>0. /\ HeapOK(heap) /\ Shape(heap) /\ Len(msgs) \in Nat
      /\ msgs \in [1..Len(msgs) -> Struct]
      /\ refs' = refs /\ at[t] \in 1..Len(msgs)
  <2>1. HeapOK(heap) /\ Shape(heap) /\ Len(msgs) \in Nat /\ msgs \in Seq(Struct)
    BY RootFacts DEF Inv, Types, TypeOK, HeapOK, Struct
  <2>2. refs' = refs /\ at[t] \in 1..Len(msgs)
    BY DEF Destroy, Inv, Releasing, Owners
  <2> QED BY <2>1, <2>2, LenProperties
<1> PICK D : D = Doomed(Root(at[t]))
  OBVIOUS
<1>1. CASE UNCHANGED <<msgs, heap>>
  <2>1. UNCHANGED Contents
    BY <1>0, <1>1, ContentsAre
  <2>2. Deep'
    BY <1>1, DeepSame
  <2> QED BY <2>1, <2>2
<1>2. CASE msgs' = [msgs EXCEPT ![at[t]].live = FALSE] /\ heap' = Freed(heap, D)
  <2>1. /\ Len(heap') = Len(heap) /\ Len(heap) \in Nat
        /\ \A k \in 1..Len(heap) : /\ heap'[k].up = heap[k].up
                                   /\ heap'[k].live => heap[k].live
                                   /\ heap'[k].val = heap[k].val /\ heap'[k].name = heap[k].name
    BY <1>0, <1>2, FreedIs, FreedKeeps DEF Shape
  <2>2. Shape(heap') /\ \A r : Below(heap', r) = Below(heap, r)
    BY <1>0, <2>1, BelowSame
  <2>3. Len(msgs') = Len(msgs) /\ \A n \in 1..Len(msgs) : msgs'[n].root = msgs[n].root
    <3> PICK x, m : m = at[t] /\ x = [msgs[m] EXCEPT !.live = FALSE]
      OBVIOUS
    <3>1. msgs' = [n \in 1..Len(msgs) |-> IF n = m THEN x ELSE msgs[n]]
      BY <1>0, <1>2
    <3>2. msgs[m] \in Struct
      BY <1>0
    <3>3. x.root = msgs[m].root
      BY <3>2 DEF Struct
    <3> QED BY <1>0, <3>1, <3>3
  <2>4. ASSUME NEW n \in 1..Len(msgs), NEW u \in Threads, refs[u][n] > 0
        PROVE  Value(heap')[msgs[n].root] = Value(heap)[msgs[n].root]
    <3> PICK r : r = msgs[n].root
      OBVIOUS
    <3>1. /\ \A k \in Below(heap, r) : k \in 1..Len(heap) /\ heap[k].live
          /\ r \in 1..Len(heap)
      BY <2>4, HeldLive, RootFacts DEF Inv, Holds, Root
    <3>2. \A k \in Below(heap, r) : heap'[k].live
      <4>1. HeldIntact'
        <5>1. Inv' => MemorySafe'
          BY InvIsSafe, PTL
        <5> QED BY <5>1 DEF MemorySafe
      <4>2. n \in 1..Len(msgs') /\ refs'[u][n] > 0 /\ msgs'[n].root = r
        BY <1>0, <2>3, <2>4
      <4>3. \A k \in Below(heap', r) : heap'[k].live
        BY <4>1, <4>2 DEF HeldIntact, Holds, Root
      <4> QED BY <2>2, <4>3
    <3>3. ASSUME NEW k \in Below(heap, r)
          PROVE  heap'[k].val = heap[k].val /\ heap'[k].name = heap[k].name /\ Kids(heap', k) = Kids(heap, k)
      <4>1. ASSUME NEW j \in 1..Len(heap) PROVE j \in Kids(heap', k) <=> j \in Kids(heap, k)
        <5>1. heap[j].up = k => j \in Below(heap, r)
          BY <1>0, BelowIs
        <5> QED BY <2>1, <3>1, <3>2, <5>1 DEF Kids, IsChild
      <4>2. Kids(heap', k) \subseteq 1..Len(heap) /\ Kids(heap, k) \subseteq 1..Len(heap)
        BY <2>1 DEF Kids
      <4>3. Kids(heap', k) = Kids(heap, k)
        BY <4>1, <4>2
      <4> QED BY <2>1, <3>1, <4>3
    <3> PICK h, g : h = heap /\ g = heap'
      OBVIOUS
    <3>4. /\ Shape(h) /\ Shape(g) /\ Len(h) <= Len(g) /\ r \in 1..Len(h)
          /\ \A k \in Below(h, r) : g[k].val = h[k].val /\ g[k].name = h[k].name /\ Kids(g, k) = Kids(h, k)
      BY <1>0, <2>1, <2>2, <3>1, <3>3
    <3>5. Value(g)[r] = Value(h)[r]
      <4>1. ASSUME NEW k \in Below(h, r)
            PROVE  g[k].val = h[k].val /\ g[k].name = h[k].name /\ Kids(g, k) = Kids(h, k)
        BY <3>4
      <4>2. Shape(h) /\ Shape(g) /\ Len(h) <= Len(g) /\ r \in 1..Len(h)
        BY <3>4
      <4> QED BY <4>1, <4>2, ValueKept
    <3> QED BY <3>5
  <2>5. ASSUME NEW n \in 1..MaxMsgs PROVE Contents'[n] = Contents[n]
    <3>1. CASE n <= Len(msgs) /\ \E u \in Threads : refs[u][n] > 0
      <4>1. n \in 1..Len(msgs)
        BY <1>0, <3>1
      <4> QED BY <1>0, <2>3, <2>4, <3>1, <4>1, ContentsAre
    <3>2. CASE ~(n <= Len(msgs) /\ \E u \in Threads : refs[u][n] > 0)
      BY <1>0, <2>3, <3>2, ContentsAre
    <3> QED BY <3>1, <3>2
  <2>6. Deep'
    BY <2>1, <2>3, DeepSame
  <2> QED BY <2>5, <2>6, SameContents
<1> QED BY <1>1, <1>2 DEF Destroy

\* Every step changes one document as Documents has it, or none.
LEMMA RefinesNext ==
  ASSUME ~Together, ~ReleaseItem, ~Retopic, NoneIsNoDocument, Inv, Inv', Deep, [Next]_vars
  PROVE  [Abstract!Next]_Contents /\ Deep'
<1>1. CASE UNCHANGED vars
  <2>1. UNCHANGED Contents
    BY <1>1, ContentsAre DEF vars
  <2>2. Deep'
    BY <1>1, DeepSame DEF vars
  <2> QED BY <2>1, <2>2
<1>2. ASSUME NEW t \in Threads, NEW m \in 1..Len(msgs), Fill(t, m)
      PROVE  Abstract!Next /\ Deep'
  BY <1>2, FillsRefine
<1>3. ASSUME NEW t \in Threads, NEW m \in 1..Len(msgs), Copy(t, m)
      PROVE  Abstract!Next /\ Deep'
  BY <1>3, CopyRefines, GetMessageItemRefines DEF Copy
<1>4. ASSUME NEW t \in Threads, NEW m \in 1..Len(msgs), Share(t, m)
      PROVE  (Abstract!Next \/ UNCHANGED Contents) /\ Deep'
  <2>1. CASE Forget(t, m)
    BY <2>1, GivenUp DEF Forget, Uses
  <2>2. CASE Release(t, m)
    BY <2>2, GivenUp DEF Release, Uses
  <2>3. ASSUME NEW u \in Threads, Retain(t, m, u) PROVE UNCHANGED Contents /\ Deep'
    BY <2>3, RetainKeeps
  <2> QED BY <1>4, <2>1, <2>2, <2>3 DEF Share
<1>5. ASSUME NEW t \in Threads, NEW m \in 1..Len(msgs), NEW item \in 1..Len(msgs),
             SetMessage(t, m, item) \/ AddMessage(t, m, item)
      PROVE  Abstract!Next /\ Deep'
  BY <1>5, PutRefines
<1>6. ASSUME NEW t \in Threads, Create(t) PROVE Abstract!Next /\ Deep'
  BY <1>6, CreateRefines
<1>7. ASSUME NEW t \in Threads, ReleaseSub(t) \/ ReleaseTest(t) \/ Destroy(t)
      PROVE  UNCHANGED Contents /\ Deep'
  BY <1>7, SubKeeps, DestroyKeeps
<1> QED BY <1>1, <1>2, <1>3, <1>4, <1>5, <1>6, <1>7 DEF Next

\* Messages are documents, whatever their number and size and that of the threads:
\* what is added to a message is a copy and shows in no other; rtMessage_Clone,
\* rtMessage_FromBytes, rtMessage_GetMessage and rtMessage_GetMessageItem give the
\* document that is there; retaining and releasing changes none.
THEOREM MessageImplementsDocuments ==
  ASSUME ~Together, ~ReleaseItem, ~Retopic, NoneIsNoDocument
  PROVE  Spec => ImplementsDocuments
<1>1. Init => Deep /\ Abstract!Init
  <2> SUFFICES ASSUME Init PROVE Deep /\ Abstract!Init
    OBVIOUS
  <2>1. Len(msgs) = 0 /\ \A n : n \notin 1..Len(msgs)
    BY DEF Init
  <2>2. \A n \in 1..MaxMsgs : Contents[n] = None
    <3>1. \A n \in 1..MaxMsgs : ~(n <= Len(msgs))
      BY <2>1, BoundsAssumption
    <3> QED BY <3>1, ContentsAre
  <2>3. Contents = [n \in 1..MaxMsgs |-> None]
    BY <2>2, ContentsAre
  <2> QED BY <2>1, <2>3 DEF Deep, Abstract!Init
<1>2. Inv /\ Deep /\ [Next]_vars => Inv' /\ Deep' /\ [Abstract!Next]_Contents
  BY NextInv, RefinesNext
<1> QED BY <1>1, <1>2, InitInv, PTL DEF Spec, ImplementsDocuments, Abstract!Spec
=============================================================================
