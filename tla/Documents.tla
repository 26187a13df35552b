------------------------------ MODULE Documents ------------------------------
(***************************************************************************)
(* What rtMessage.h promises: a message is a value of its own.  Putting a   *)
(* message into another one, or getting one out of it, copies; what is done *)
(* to one message never shows in another.                                   *)
(***************************************************************************)
EXTENDS Naturals, Sequences

CONSTANTS
  Handles,  \* what may hold a message
  Names,    \* of fields
  Vals,     \* of strings and numbers
  None      \* no document

VARIABLE doc

\* A leaf has a value; an object or array has items, in their order.
Leaf(v) == [val |-> v, items |-> <<>>]
Empty   == [val |-> None, items |-> <<>>]
With(d, name, item) == [d EXCEPT !.items = Append(@, [name |-> name, item |-> item])]

Init == doc = [h \in Handles |-> None]

Held == {h \in Handles : doc[h] # None}

\* A new document is empty, or an item out of a document or a copy of one.
Parts(d)    == {d} \cup {d.items[k].item : k \in 1..Len(d.items)}
PartsOf(h)  == UNION {Parts(p) : p \in Parts(doc[h])}
Obtain(new) == new = Empty \/ \E h \in Held : new \in PartsOf(h)

\* A field is added to a document, or an element to the array in a field.
AddField(old, new) ==
  \E name \in Names, item \in {Leaf(v) : v \in Vals} \cup {doc[h] : h \in Held} :
    \/ new = With(old, name, item)
    \/ /\ \A k \in 1..Len(old.items) : old.items[k].name # name
       /\ new = With(old, name, With(Empty, "", item))
    \/ \E k \in 1..Len(old.items) :
         /\ old.items[k].name = name
         /\ new = [old EXCEPT !.items[k].item = With(@, "", item)]

\* One document changes, and no other: it comes, grows or goes.
Next ==
  \E h \in Handles : \E old \in {doc[h]}, new \in {doc'[h]} :
    /\ doc' = [doc EXCEPT ![h] = new]
    /\ IF old = None THEN Obtain(new) ELSE new = None \/ AddField(old, new)

Spec == Init /\ [][Next]_doc
=============================================================================
