------------------------------ MODULE MCMessage ------------------------------
(* Two threads and two values that may be exchanged for each other. *)
EXTENDS Message

Symmetry == Permutations(Threads) \cup Permutations(Vals)
=============================================================================
