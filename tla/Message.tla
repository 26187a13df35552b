------------------------------- MODULE Message -------------------------------
(***************************************************************************)
(* rtMessage.c: reference-counted messages, each with a tree of JSON items  *)
(* in the heap.  Threads create, fill, copy, hand over and release them;    *)
(* releasing runs in steps, because only the counter itself is atomic.      *)
(*                                                                         *)
(* cJSON, which owns the items, is external: it hands items out by address  *)
(* and frees what it is told to free.                                       *)
(***************************************************************************)
EXTENDS Naturals, Sequences, FiniteSets, SequencesExt

CONSTANTS
  Threads,
  Vals,        \* values of strings and numbers
  None,        \* the value of an object or array
  Together,    \* TRUE if threads may be in rtMessage_Release of one message at a time
  ReleaseItem, \* TRUE if what rtMessage_GetMessageItem returned is released, too
  Retopic,     \* TRUE if rtMessage_SetSendTopic is called again on a message
  MaxNodes,    \* bound: items ever allocated
  MaxMsgs      \* bound: messages ever allocated

ASSUME ValsAssumption == None \notin Vals
ASSUME FlagsAssumption == {Together, ReleaseItem, Retopic} \subseteq BOOLEAN
ASSUME BoundsAssumption == {MaxNodes, MaxMsgs} \subseteq Nat

\* The application's use of field names: a field of strings or numbers, the
\* topic, a message, and an array of messages.
Names == {"_topic", "field", "item", "list"}
NoName == ""  \* of a root, and of the items of an array

VARIABLES
  heap,   \* the cJSON items, in the order of their allocation
  msgs,   \* the rtMessage structs
  refs,   \* refs[t][m]: the references to message m that thread t holds
  pc, at, \* where thread t is in rtMessage_Release, and of which message
  fault   \* freed memory was used, or freed again

vars == <<heap, msgs, refs, pc, at, fault>>

Init ==
  /\ heap = <<>> /\ msgs = <<>>
  /\ refs = [t \in Threads |-> [m \in 1..MaxMsgs |-> 0]]
  /\ pc = [t \in Threads |-> "idle"] /\ at = [t \in Threads |-> 0]
  /\ fault = FALSE

-----------------------------------------------------------------------------
(* cJSON.  The children of an item are allocated after it and are appended  *)
(* to it, so that their order is that of their addresses.                   *)

Item(up, name, val) == [up |-> up, name |-> name, val |-> val, live |-> TRUE]

IsChild(h, j, k) == h[j].live /\ h[j].up = k

\* Whether an item is r or below r.
Below(h, r) ==
  LET below[k \in 0..Len(h)] == k # 0 /\ (k = r \/ below[h[k].up])
  IN  {k \in 1..Len(h) : below[k]}

\* cJSON_GetObjectItem: the first item of that name.
GetObjectItem(r, name) ==
  {k \in 1..Len(heap) :
     /\ IsChild(heap, k, r) /\ heap[k].name = name
     /\ \A j \in 1..(k - 1) : ~(IsChild(heap, j, r) /\ heap[j].name = name)}

\* The place of an item in a set of them, and the set in the order of addresses.
Place(set, k) == Cardinality({j \in set : j <= k})
Ordered(set)  == [n \in 1..Cardinality(set) |-> CHOOSE k \in set : Place(set, k) = n]

\* The children of an item, in their order.
Children(h, k) == Ordered({j \in 1..Len(h) : IsChild(h, j, k)})

\* cJSON_Duplicate: the tree of r, its addresses counted from 1.
Duplicate(r) ==
  LET tree  == {k \in Below(heap, r) : heap[k].live}
      order == Ordered(tree)
  IN  [n \in 1..Cardinality(tree) |-> [heap[order[n]] EXCEPT !.up = Place(tree, @)]]

\* A tree, allocated and added to item "up" under a name.
Added(h, tree, up, name) ==
  h \o [j \in 1..Len(tree) |->
          IF j = 1 THEN Item(up, name, tree[j].val)
          ELSE [tree[j] EXCEPT !.up = @ + Len(h)]]

LeafTree(v) == <<Item(0, NoName, v)>>
EmptyTree   == <<Item(0, NoName, None)>>

DoomedRootOnly(r) == {r}  \* Mutant of Doomed: the children are not deleted.
\* What cJSON_Delete frees: the tree of r and, following next, its later siblings.
Doomed(r) ==
  Below(heap, r) \cup
  UNION {Below(heap, s) : s \in {s \in r..Len(heap) : heap[r].up # 0 /\ heap[s].up = heap[r].up}}

Freed(h, set) == [k \in 1..Len(h) |-> [h[k] EXCEPT !.live = @ /\ k \notin set]]

-----------------------------------------------------------------------------
(* Messages and who may use them.                                           *)

Holds(t, m) == refs[t][m] > 0
\* A thread uses the messages it holds while it is not releasing one.
Uses(t, m) == pc[t] = "idle" /\ m <= Len(msgs) /\ Holds(t, m)
Root(m) == msgs[m].root

\* A message of rtMessage_GetMessageItem shares the items of its array; the
\* application only reads it, and no longer than it holds the parent.
IsItem(m) == heap[Root(m)].up # 0
Lends(m)  == \E k \in 1..Len(msgs), t \in Threads :
               Holds(t, k) /\ IsItem(k) /\ Root(k) \in Below(heap, Root(m))

\* malloc() of the struct, and the count set to 0 and increased to 1.
NewMessage(t, root) ==
  /\ Len(msgs) < MaxMsgs
  /\ msgs' = Append(msgs, [live |-> TRUE, count |-> 1, root |-> root])
  /\ refs' = [refs EXCEPT ![t][Len(msgs) + 1] = 1]

NewTree(h) == Len(h) <= MaxNodes /\ heap' = h

Create(t) ==
  /\ pc[t] = "idle"
  /\ NewTree(Added(heap, EmptyTree, 0, NoName))
  /\ NewMessage(t, Len(heap) + 1)
  /\ UNCHANGED <<pc, at, fault>>

CloneShared(t, m) ==  \* Mutant of Clone: the copy points to the same tree.
  /\ Uses(t, m)
  /\ NewMessage(t, Root(m))
  /\ UNCHANGED <<heap, pc, at, fault>>

Clone(t, m) ==
  /\ Uses(t, m)
  /\ NewTree(Added(heap, Duplicate(Root(m)), 0, NoName))
  /\ NewMessage(t, Len(heap) + 1)
  /\ UNCHANGED <<pc, at, fault>>

\* The bytes are those that rtMessage_ToByteArray gave, here or in another
\* process: printing and parsing keep names, values and order.
FromBytes(t, m) ==
  /\ pc[t] = "idle"
  /\ \E u \in Threads : Uses(u, m)
  /\ NewTree(Added(heap, Duplicate(Root(m)), 0, NoName))
  /\ NewMessage(t, Len(heap) + 1)
  /\ UNCHANGED <<pc, at, fault>>

-----------------------------------------------------------------------------
(* Fields.                                                                  *)

\* rtMessage_SetString, SetInt32 and SetDouble append, even if there is a
\* field of that name.
SetField(t, m) ==
  /\ Uses(t, m) /\ ~IsItem(m)
  /\ \E v \in Vals : NewTree(Added(heap, LeafTree(v), Root(m), "field"))
  /\ UNCHANGED <<msgs, refs, pc, at, fault>>

SetMessageMoves(t, m, item) ==  \* Mutant of SetMessage: the item itself is added.
  /\ Uses(t, m) /\ Uses(t, item) /\ ~IsItem(m) /\ Root(item) > Root(m)
  /\ heap[Root(item)].up = 0
  /\ heap' = [heap EXCEPT ![Root(item)].up = Root(m), ![Root(item)].name = "item"]
  /\ UNCHANGED <<msgs, refs, pc, at, fault>>

SetMessage(t, m, item) ==
  /\ Uses(t, m) /\ Uses(t, item) /\ ~IsItem(m)
  /\ NewTree(Added(heap, Duplicate(Root(item)), Root(m), "item"))
  /\ UNCHANGED <<msgs, refs, pc, at, fault>>

\* If there is no such field the struct allocated for it is lost.
GetMessage(t, m) ==
  /\ Uses(t, m)
  /\ \E k \in GetObjectItem(Root(m), "item") :
       NewTree(Added(heap, Duplicate(k), 0, NoName))
  /\ NewMessage(t, Len(heap) + 1)
  /\ UNCHANGED <<pc, at, fault>>

\* The array of a field, created if need be.
AddToArray(m, name, tree) ==
  LET array == GetObjectItem(Root(m), name)
  IN  IF array # {}
      THEN \E k \in array : NewTree(Added(heap, tree, k, NoName))
      ELSE NewTree(Added(Added(heap, EmptyTree, Root(m), name), tree, Len(heap) + 1, NoName))

\* rtMessage_AddString and AddMessage.
AddString(t, m) ==
  /\ Uses(t, m) /\ ~IsItem(m)
  /\ \E v \in Vals : AddToArray(m, "list", LeafTree(v))
  /\ UNCHANGED <<msgs, refs, pc, at, fault>>

AddMessage(t, m, item) ==
  /\ Uses(t, m) /\ Uses(t, item) /\ ~IsItem(m)
  /\ AddToArray(m, "list", Duplicate(Root(item)))
  /\ UNCHANGED <<msgs, refs, pc, at, fault>>

\* The new message points into the array of its parent.
GetMessageItem(t, m) ==
  /\ Uses(t, m)
  /\ \E k \in GetObjectItem(Root(m), "list") : \E j \in 1..Len(heap) :
       IsChild(heap, j, k) /\ NewMessage(t, j)
  /\ UNCHANGED <<heap, pc, at, fault>>

\* An old topic is deleted twice: by cJSON_ReplaceItemInObject, and after it.
SetSendTopic(t, m) ==
  /\ Uses(t, m) /\ ~IsItem(m)
  /\ LET old == GetObjectItem(Root(m), "_topic") IN
     /\ old # {} => Retopic
     /\ \E v \in Vals : NewTree(Added(Freed(heap, old), LeafTree(v), Root(m), "_topic"))
     /\ fault' = (fault \/ old # {})
  /\ UNCHANGED <<msgs, refs, pc, at>>

-----------------------------------------------------------------------------
(* References.                                                              *)

RetainNothing(t, m, u) ==  \* Mutant of Retain: the count is not increased.
  /\ Uses(t, m) /\ ~IsItem(m)
  /\ refs' = [refs EXCEPT ![u][m] = @ + 1]
  /\ UNCHANGED <<heap, msgs, pc, at, fault>>

\* A thread retains a message before it hands it over to another one.
Retain(t, m, u) ==
  /\ Uses(t, m) /\ ~IsItem(m)
  /\ msgs[m].count < 2
  /\ msgs' = [msgs EXCEPT ![m].count = @ + 1]
  /\ refs' = [refs EXCEPT ![u][m] = @ + 1]
  /\ UNCHANGED <<heap, pc, at, fault>>

\* The application forgets about an item before it releases the parent.
Forget(t, m) ==
  /\ Uses(t, m) /\ IsItem(m) /\ ~ReleaseItem
  /\ refs' = [refs EXCEPT ![t][m] = 0]
  /\ UNCHANGED <<heap, msgs, pc, at, fault>>

\* The call of rtMessage_Release, up to its first test of the count.
Release(t, m) ==
  /\ Uses(t, m)
  /\ IF ReleaseItem THEN TRUE ELSE ~IsItem(m) /\ ~Lends(m)
  /\ Together \/ \A u \in Threads : at[u] # m
  /\ refs' = [refs EXCEPT ![t][m] = @ - 1]
  /\ at' = [at EXCEPT ![t] = m]
  /\ pc' = [pc EXCEPT ![t] = IF msgs[m].live /\ msgs[m].count # 0 THEN "sub" ELSE "test"]
  /\ fault' = (fault \/ ~msgs[m].live)
  /\ UNCHANGED <<heap, msgs>>

ReleaseSub(t) ==
  /\ pc[t] = "sub"
  /\ LET m == at[t] IN
     IF msgs[m].live THEN msgs' = [msgs EXCEPT ![m].count = @ - 1] /\ UNCHANGED fault
     ELSE fault' = TRUE /\ UNCHANGED msgs
  /\ pc' = [pc EXCEPT ![t] = "test"]
  /\ UNCHANGED <<heap, refs, at>>

ReleaseTest(t) ==
  /\ pc[t] = "test"
  /\ LET m == at[t] IN
     /\ fault' = (fault \/ ~msgs[m].live)
     /\ IF msgs[m].live /\ msgs[m].count = 0
        THEN pc' = [pc EXCEPT ![t] = "destroy"] /\ UNCHANGED at
        ELSE pc' = [pc EXCEPT ![t] = "idle"] /\ at' = [at EXCEPT ![t] = 0]
  /\ UNCHANGED <<heap, msgs, refs>>

Destroy(t) ==
  /\ pc[t] = "destroy"
  /\ LET m == at[t]
         again == msgs[m].live => msgs[m].count = 0
     IN
     /\ fault' = (fault \/ ~msgs[m].live \/ (again /\ \E k \in Doomed(Root(m)) : ~heap[k].live))
     /\ IF again
        THEN /\ msgs' = [msgs EXCEPT ![m].live = FALSE]
             /\ heap' = Freed(heap, Doomed(Root(m)))
        ELSE UNCHANGED <<msgs, heap>>
  /\ pc' = [pc EXCEPT ![t] = "idle"] /\ at' = [at EXCEPT ![t] = 0]
  /\ UNCHANGED refs

Fill(t, m)  == SetField(t, m) \/ AddString(t, m) \/ SetSendTopic(t, m)
Copy(t, m)  == Clone(t, m) \/ FromBytes(t, m) \/ GetMessage(t, m) \/ GetMessageItem(t, m)
Share(t, m) == Forget(t, m) \/ Release(t, m) \/ \E u \in Threads : Retain(t, m, u)

Next ==
  \E t \in Threads :
    \/ Create(t)
    \/ \E m \in 1..Len(msgs) : Fill(t, m) \/ Copy(t, m) \/ Share(t, m)
    \/ \E m, item \in 1..Len(msgs) : SetMessage(t, m, item) \/ AddMessage(t, m, item)
    \/ ReleaseSub(t) \/ ReleaseTest(t) \/ Destroy(t)

Spec == Init /\ [][Next]_vars

-----------------------------------------------------------------------------
(* What makes messages correct.                                             *)

TypeOK ==
  /\ heap \in Seq([up : 0..MaxNodes, name : Names \cup {NoName}, val : Vals \cup {None},
                   live : BOOLEAN])
  /\ msgs \in Seq([live : BOOLEAN, count : 0..2, root : 1..MaxNodes])
  /\ refs \in [Threads -> [1..MaxMsgs -> 0..2]]
  /\ pc \in [Threads -> {"idle", "sub", "test", "destroy"}]
  /\ at \in [Threads -> 0..MaxMsgs]
  /\ fault \in BOOLEAN

\* No thread uses or frees what has been freed, a message or one of its items.
NoFault == ~fault

\* As long as a thread has a reference that rtMessage_Create, a copy or
\* rtMessage_Retain gave it, the message and all of its tree are there,
\* whatever the other threads release.
HeldIntact ==
  \A t \in Threads, m \in 1..Len(msgs) : Holds(t, m) =>
    msgs[m].live /\ \A k \in Below(heap, Root(m)) : heap[k].live

\* Once all references are given up and no release is under way, nothing of
\* the message is left: neither the struct nor an item of its tree.
NothingLeft ==
  \A m \in 1..Len(msgs) :
    ~IsItem(m) /\ (\A t \in Threads : ~Holds(t, m) /\ at[t] # m) =>
      ~msgs[m].live /\ \A k \in Below(heap, Root(m)) : ~heap[k].live

\* A message lives exactly as long as somebody refers to it.
MemorySafe == NoFault /\ HeldIntact /\ NothingLeft

\* The document in a tree of items.
Value(h) ==
  LET value[k \in 1..Len(h)] ==
        [val   |-> h[k].val,
         items |-> LET c == Children(h, k)
                   IN  [j \in 1..Len(c) |-> [name |-> h[c[j]].name, item |-> value[c[j]]]]]
  IN  value

\* Messages are documents: whatever is shared, copied, handed over and freed,
\* an operation changes the message it is called for and no other.
Contents == [m \in 1..MaxMsgs |->
                IF m <= Len(msgs) /\ \E t \in Threads : Holds(t, m)
                THEN Value(heap)[Root(m)] ELSE None]
Abstract == INSTANCE Documents WITH Handles <- 1..MaxMsgs, doc <- Contents
ImplementsDocuments == Abstract!Spec
=============================================================================
