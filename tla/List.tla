-------------------------------- MODULE List --------------------------------
(***************************************************************************)
(* What rtVector promises: an ordered list of items, appended at the end   *)
(* and removed anywhere, the others keeping their order.                   *)
(***************************************************************************)
EXTENDS Naturals, Sequences, SequencesExt

CONSTANTS Items

VARIABLE list

Init == list = <<>>

Add(x) == list' = Append(list, x)

\* The first of the positions that hold x goes.
Drop(x) ==
  \E k \in 1..Len(list) :
    /\ list[k] = x
    /\ \A j \in 1..(k - 1) : list[j] # x
    /\ list' = RemoveAt(list, k)

Next == \E x \in Items : Add(x) \/ Drop(x)

Spec == Init /\ [][Next]_list
=============================================================================
