---------------------------- MODULE VectorProofs ----------------------------
(***************************************************************************)
(* rtVector.c never leaves its array, and is a list: for any block size    *)
(* above one and any number of items.                                      *)
(***************************************************************************)
EXTENDS Vector, SequenceLemmas

Inv ==
  /\ TypeOK
  /\ capacity = 0 => count = 0
  /\ SlackSlot
  /\ OnlyItems

\* The positions of an array of n slots.
LEMMA SlotsFacts == \A m \in Nat : \A k : k \in Slots(m) <=> k \in Nat /\ k < m
BY DEF Slots

LEMMA InitInv == Init => Inv
<1> SUFFICES ASSUME Init PROVE Inv
  OBVIOUS
<1>1. Slots(0) = {}
  BY DEF Slots
<1>2. capacity = 0 /\ count = 0 /\ data \in [Slots(0) -> Items \cup {Null, Garbage}]
  BY <1>1 DEF Init
<1> QED BY <1>1, <1>2 DEF Inv, TypeOK, SlackSlot, OnlyItems, Size

LEMMA PushBackInv ==
  ASSUME Inv, NEW x \in Items, PushBack(x)
  PROVE  /\ Inv'
         /\ count' = count + 1
         /\ \A k \in Slots(count) : data'[k] = data[k]
         /\ data'[count] = x
<1> USE BlockAssumption
<1>0. /\ count \in Nat /\ capacity \in Nat /\ count <= capacity
      /\ data \in [Slots(capacity) -> Items \cup {Null, Garbage}]
      /\ \A k \in Slots(count) : data[k] \in Items
  BY DEF Inv, TypeOK, SlackSlot, OnlyItems, Size, At, Slots
<1>1. count' = count + 1
  BY DEF PushBack
<1>2. /\ capacity' \in Nat /\ count + 1 < capacity'
      /\ data' \in [Slots(capacity') -> Items \cup {Null, Garbage}]
      /\ \A k \in Slots(count) : data'[k] = data[k]
      /\ data'[count] = x
  <2>1. CASE NeedsBlock
    <3>1. data' = [Grown EXCEPT ![count] = x] /\ capacity' = capacity + BlockSize
      BY <2>1 DEF PushBack
    <3>2. capacity' \in Nat /\ count + 1 < capacity'
      BY <1>0, <3>1 DEF Inv
    <3>3. /\ Grown \in [Slots(capacity') -> Items \cup {Null, Garbage}]
          /\ \A k \in Slots(count) : Grown[k] = data[k]
      <4>1. CASE capacity = 0
        BY <1>0, <3>1, <4>1 DEF Grown, Slots, Inv
      <4>2. CASE capacity # 0
        BY <1>0, <3>1, <4>2 DEF Grown, Slots
      <4> QED BY <4>1, <4>2
    <3>4. /\ count \in Slots(capacity') /\ count \notin Slots(count)
          /\ \A k \in Slots(count) : k \in Slots(capacity')
      BY <1>0, <3>2, SlotsFacts
    <3> HIDE DEF Grown
    <3>5. data' \in [Slots(capacity') -> Items \cup {Null, Garbage}]
      BY <3>1, <3>3, <3>4
    <3>6. data'[count] = x /\ \A k \in Slots(count) : data'[k] = Grown[k]
      BY <3>1, <3>3, <3>4
    <3> QED BY <3>2, <3>3, <3>5, <3>6
  <2>2. CASE ~NeedsBlock
    <3>1. data' = [data EXCEPT ![count] = x] /\ capacity' = capacity
      BY <2>2 DEF PushBack
    <3>2. count + 1 < capacity
      BY <1>0, <2>2 DEF NeedsBlock
    <3>3. /\ count \in Slots(capacity) /\ count \notin Slots(count)
          /\ \A k \in Slots(count) : k \in Slots(capacity)
      BY <1>0, <3>2, SlotsFacts
    <3> QED BY <1>0, <3>1, <3>2, <3>3
  <2> QED BY <2>1, <2>2
<1>3. ASSUME NEW k \in Slots(count + 1) PROVE data'[k] \in Items /\ k < count + 1
  <2>1. k \in Nat /\ k < count + 1
    BY <1>0, SlotsFacts
  <2>2. CASE k = count
    BY <1>0, <1>2, <2>1, <2>2
  <2>3. CASE k # count
    BY <1>0, <1>2, <2>1, <2>3, SlotsFacts
  <2> QED BY <2>2, <2>3
<1>4. TypeOK'
  BY <1>0, <1>1, <1>2 DEF TypeOK
<1>5. (capacity = 0 => count = 0)' /\ SlackSlot'
  BY <1>0, <1>1, <1>2 DEF SlackSlot
<1>6. OnlyItems'
  BY <1>1, <1>3 DEF OnlyItems, Size, At
<1> QED BY <1>1, <1>2, <1>4, <1>5, <1>6 DEF Inv

LEMMA RemoveItemInv ==
  ASSUME Inv, NEW x \in Items, RemoveItem(x)
  PROVE  /\ Inv'
         /\ \E p \in Slots(count) :
              /\ data[p] = x
              /\ \A k \in Slots(p) : data[k] # x
              /\ count' = count - 1
              /\ \A k \in Slots(count - 1) :
                   data'[k] = IF k < p THEN data[k] ELSE data[k + 1]
<1>0. /\ count \in Nat /\ capacity \in Nat
      /\ data \in [Slots(capacity) -> Items \cup {Null, Garbage}]
      /\ \A k \in Slots(count) : data[k] \in Items
  BY DEF Inv, TypeOK, OnlyItems, Size, At, Slots
<1>1. PICK p \in Slots(count) :
        /\ FirstAt(x, p)
        /\ data' = [k \in Slots(capacity) |->
                      IF k < p THEN data[k] ELSE IF k < count THEN data[k + 1] ELSE Null]
        /\ count' = count - 1
        /\ UNCHANGED capacity
  BY DEF RemoveItem
<1>2. count > 0 /\ count < capacity /\ count' \in Nat
  BY <1>0, <1>1 DEF Slots, Inv, SlackSlot
<1>3. data' \in [Slots(capacity') -> Items \cup {Null, Garbage}]
  BY <1>0, <1>1, <1>2 DEF Slots
<1>4. \A k \in Slots(count - 1) :
        data'[k] = (IF k < p THEN data[k] ELSE data[k + 1]) /\ data'[k] \in Items
  BY <1>0, <1>1, <1>2 DEF Slots
<1>5. Inv'
  BY <1>0, <1>1, <1>2, <1>3, <1>4 DEF Inv, TypeOK, SlackSlot, OnlyItems, Size, At, Slots
<1> QED BY <1>1, <1>4, <1>5 DEF FirstAt

LEMMA StepInv == Inv /\ [Next]_vars => Inv'
<1> SUFFICES ASSUME Inv, [Next]_vars PROVE Inv'
  OBVIOUS
<1>1. CASE UNCHANGED vars
  BY <1>1 DEF vars, Inv, TypeOK, SlackSlot, OnlyItems, Size, At, Slots
<1>2. ASSUME NEW x \in Items, PushBack(x) \/ RemoveItem(x) PROVE Inv'
  BY <1>2, PushBackInv, RemoveItemInv
<1> QED BY <1>1, <1>2 DEF Next

\* The strengthened invariant: a free slot always follows the last item.
THEOREM VectorInvariant == Spec => []Inv
BY InitInv, StepInv, PTL DEF Spec

\* rtVector_RemoveItem never reads beyond the array.
THEOREM SlackSlotInvariant == Spec => []SlackSlot
<1>1. Inv => SlackSlot
  BY DEF Inv
<1> QED BY <1>1, VectorInvariant, PTL

\* rtVector_At never returns what realloc() left.
THEOREM OnlyItemsInvariant == Spec => []OnlyItems
<1>1. Inv => OnlyItems
  BY DEF Inv
<1> QED BY <1>1, VectorInvariant, PTL

-----------------------------------------------------------------------------
(* Refinement.                                                              *)

ListFacts ==
  /\ Contents \in Seq(Items)
  /\ Len(Contents) = count
  /\ \A k \in 1..count : Contents[k] = data[k - 1]

LEMMA ListType == Inv => ListFacts
<1> SUFFICES ASSUME Inv PROVE ListFacts
  OBVIOUS
<1>1. count \in Nat /\ \A k \in Slots(count) : data[k] \in Items
  BY DEF Inv, TypeOK, OnlyItems, Size, At, Slots
<1>2. Contents \in [1..count -> Items]
  BY <1>1 DEF Contents, Slots
<1>3. Contents \in Seq(Items)
  BY <1>1, <1>2, SeqDef
<1>4. Len(Contents) = count
  BY <1>1, <1>2, <1>3, LenProperties
<1> QED BY <1>3, <1>4 DEF Contents, ListFacts

LEMMA PushBackRefines ==
  ASSUME Inv, NEW x \in Items, PushBack(x)
  PROVE  Abstract!Add(x)
<1>1. Inv' /\ count' = count + 1 /\ data'[count] = x
      /\ \A k \in Slots(count) : data'[k] = data[k]
  BY PushBackInv
<1>2. Contents \in Seq(Items) /\ Len(Contents) = count /\ \A k \in 1..count : Contents[k] = data[k - 1]
  BY ListType DEF ListFacts
<1>3. Inv' => ListFacts'
  BY ListType, PTL
<1>4. /\ Append(Contents, x) \in Seq(Items) /\ Len(Append(Contents, x)) = count + 1
      /\ \A k \in 1..count : Append(Contents, x)[k] = Contents[k]
      /\ Append(Contents, x)[count + 1] = x
  BY <1>2, AppendProperties
<1>5. count \in Nat
  BY DEF Inv, TypeOK
<1>6. ASSUME NEW k \in 1..count + 1 PROVE Contents'[k] = Append(Contents, x)[k]
  <2>1. CASE k \in 1..count
    <3>1. Contents'[k] = data'[k - 1] /\ Contents[k] = data[k - 1]
      BY <1>1, <1>2, <1>3, <1>5, <2>1 DEF ListFacts
    <3>2. k - 1 \in Slots(count)
      BY <1>5, <2>1, SlotsFacts
    <3> QED BY <1>1, <1>4, <2>1, <3>1, <3>2
  <2>2. CASE k = count + 1
    BY <1>1, <1>3, <1>4, <1>5, <2>2 DEF ListFacts
  <2>3. k \in 1..count \/ k = count + 1
    BY <1>5
  <2> QED BY <2>1, <2>2, <2>3
<1>7. Contents' = Append(Contents, x)
  BY <1>1, <1>3, <1>4, <1>6, SeqEqual DEF ListFacts
<1> QED BY <1>7 DEF Abstract!Add

LEMMA RemoveItemRefines ==
  ASSUME Inv, NEW x \in Items, RemoveItem(x)
  PROVE  Abstract!Drop(x)
<1>1. Inv' /\ \E p \in Slots(count) :
        /\ data[p] = x
        /\ \A k \in Slots(p) : data[k] # x
        /\ count' = count - 1
        /\ \A k \in Slots(count - 1) : data'[k] = IF k < p THEN data[k] ELSE data[k + 1]
  BY RemoveItemInv
<1>2. PICK p \in Slots(count) :
        /\ data[p] = x
        /\ \A k \in Slots(p) : data[k] # x
        /\ count' = count - 1
        /\ \A k \in Slots(count - 1) : data'[k] = IF k < p THEN data[k] ELSE data[k + 1]
  BY <1>1
<1>3. Contents \in Seq(Items) /\ Len(Contents) = count /\ \A k \in 1..count : Contents[k] = data[k - 1]
  BY ListType DEF ListFacts
<1>4. Inv' => ListFacts'
  BY ListType, PTL
<1>5. count \in Nat
  BY DEF Inv, TypeOK
<1> DEFINE q == p + 1
<1>6. q \in 1..Len(Contents) /\ Contents[q] = x /\ \A j \in 1..(q - 1) : Contents[j] # x
  BY <1>2, <1>3, <1>5, SMTT(30) DEF Slots
<1>7. /\ RemoveAt(Contents, q) \in Seq(Items) /\ Len(RemoveAt(Contents, q)) = count - 1
      /\ \A j \in 1..count - 1 : RemoveAt(Contents, q)[j] = IF j < q THEN Contents[j] ELSE Contents[j + 1]
  BY <1>3, <1>6, RemoveAtProperties
<1>8. ASSUME NEW j \in 1..count - 1 PROVE Contents'[j] = RemoveAt(Contents, q)[j]
  <2>1. j - 1 \in Slots(count - 1) /\ Contents'[j] = data'[j - 1]
    BY <1>1, <1>2, <1>4, <1>5 DEF Slots, ListFacts
  <2>2. Contents[j] = data[j - 1] /\ Contents[j + 1] = data[(j - 1) + 1]
    BY <1>3, <1>5
  <2>3. j - 1 < p <=> j < q
    BY <1>2, <1>5 DEF Slots
  <2> QED BY <1>2, <1>7, <2>1, <2>2, <2>3
<1>9. Contents' = RemoveAt(Contents, q)
  BY <1>1, <1>2, <1>4, <1>7, <1>8, SeqEqual DEF ListFacts
<1>10. Contents' = Abstract!RemoveAt(Contents, q)
  BY <1>9 DEF RemoveAt, Abstract!RemoveAt
<1> HIDE DEF q
<1> QED BY <1>6, <1>10 DEF Abstract!Drop

\* rtVector.c implements the list it stands for.
THEOREM VectorImplementsList == Spec => ImplementsList
<1>1. Init => Abstract!Init
  <2> SUFFICES ASSUME Init PROVE Contents = <<>>
    BY DEF Abstract!Init
  <2>1. Contents \in Seq(Items) /\ Len(Contents) = 0
    BY InitInv, ListType DEF Init, ListFacts
  <2> QED BY <2>1, EmptySeq
<1>2. Inv /\ [Next]_vars => [Abstract!Next]_Contents
  <2> SUFFICES ASSUME Inv, [Next]_vars PROVE [Abstract!Next]_Contents
    OBVIOUS
  <2>1. CASE UNCHANGED vars
    BY <2>1 DEF vars, Contents
  <2>2. ASSUME NEW x \in Items, PushBack(x) PROVE Abstract!Next
    BY <2>2, PushBackRefines DEF Abstract!Next
  <2>3. ASSUME NEW x \in Items, RemoveItem(x) PROVE Abstract!Next
    BY <2>3, RemoveItemRefines DEF Abstract!Next
  <2> QED BY <2>1, <2>2, <2>3 DEF Next
<1> QED BY <1>1, <1>2, VectorInvariant, PTL DEF Spec, ImplementsList, Abstract!Spec
=============================================================================
