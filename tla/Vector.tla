------------------------------- MODULE Vector -------------------------------
(***************************************************************************)
(* rtVector.c: an array of pointers that grows by blocks.  The router keeps *)
(* its clients, its listeners and its routes in three of them.             *)
(***************************************************************************)
EXTENDS Naturals, Sequences, FiniteSets

CONSTANTS
  Items,      \* the pointers stored
  Null,       \* what calloc() and rtVector_RemoveItem leave in a free slot
  Garbage,    \* what realloc() leaves in a new slot
  BlockSize,  \* RTVECT_BLOCKSIZE
  MaxCount    \* bound: items stored at a time

ASSUME ItemsAssumption == Null \notin Items /\ Garbage \notin Items
\* One slot per block would not leave room for the slot beyond the last item.
ASSUME BlockAssumption == BlockSize \in Nat /\ BlockSize >= 2
ASSUME MaxCountAssumption == MaxCount \in Nat

VARIABLES
  data,      \* the array, a function on 0 .. capacity - 1
  capacity,
  count

vars == <<data, capacity, count>>

Slots(n) == 0..(n - 1)

Init ==
  /\ data = [k \in Slots(0) |-> Null]
  /\ capacity = 0
  /\ count = 0

\* The array of PushBack before the item is stored: calloc() clears its slots,
\* realloc() does not.
Grown ==
  IF capacity = 0
  THEN [k \in Slots(BlockSize) |-> Null]
  ELSE [k \in Slots(capacity + BlockSize) |-> IF k < capacity THEN data[k] ELSE Garbage]

NeedsBlockLate == capacity = 0 \/ count >= capacity  \* Mutant of NeedsBlock.
NeedsBlock == capacity = 0 \/ count + 1 >= capacity

PushBack(x) ==
  /\ count < MaxCount
  /\ IF NeedsBlock
     THEN data' = [Grown EXCEPT ![count] = x] /\ capacity' = capacity + BlockSize
     ELSE data' = [data EXCEPT ![count] = x] /\ UNCHANGED capacity
  /\ count' = count + 1

\* The search stops at the first slot that holds x.
FirstAt(x, p) ==
  /\ p \in Slots(count)
  /\ data[p] = x
  /\ \A k \in Slots(p) : data[k] # x

RemoveKeepsCount(x) ==  \* Mutant of RemoveItem: count is not decremented.
  \E p \in Slots(count) :
    /\ FirstAt(x, p)
    /\ data' = [k \in Slots(capacity) |->
                  IF k < p THEN data[k] ELSE IF k < count THEN data[k + 1] ELSE Null]
    /\ UNCHANGED <<count, capacity>>

RemoveBySwap(x) ==  \* Mutant of RemoveItem: the last item takes the free slot.
  \E p \in Slots(count) :
    /\ FirstAt(x, p)
    /\ data' = [data EXCEPT ![p] = data[count - 1], ![count - 1] = Null]
    /\ count' = count - 1
    /\ UNCHANGED capacity

\* Everything behind slot p moves down by one, the slot beyond the last item
\* included, and the slots from there on are cleared.
RemoveItem(x) ==
  \E p \in Slots(count) :
    /\ FirstAt(x, p)
    /\ data' = [k \in Slots(capacity) |->
                  IF k < p THEN data[k] ELSE IF k < count THEN data[k + 1] ELSE Null]
    /\ count' = count - 1
    /\ UNCHANGED capacity

Next == \E x \in Items : PushBack(x) \/ RemoveItem(x)

Spec == Init /\ [][Next]_vars

\* rtVector_At and rtVector_Size.
At(k) == IF k < count THEN data[k] ELSE Null
Size == count

-----------------------------------------------------------------------------
TypeOK ==
  /\ capacity \in Nat
  /\ count \in Nat
  /\ data \in [Slots(capacity) -> Items \cup {Null, Garbage}]

\* There is always a slot beyond the last item: rtVector_RemoveItem reads
\* data[count] when it moves the last item down.
SlackSlot == count > 0 => count < capacity

\* What rtVector_At returns below rtVector_Size is an item that was pushed,
\* never what realloc() or a removal left in a slot.
OnlyItems == \A k \in Slots(Size) : At(k) \in Items

\* The vector is the list of what it holds: growing moves nothing, and removing
\* keeps the order of the others.
Contents == [k \in 1..count |-> data[k - 1]]
Abstract == INSTANCE List WITH list <- Contents
ImplementsList == Abstract!Spec
=============================================================================
