------------------------------ MODULE MCFraming ------------------------------
(* Frames whose topics, reply topics and payloads get shorter and longer. *)
EXTENDS Framing

MCMessages ==
  {[topic |-> <<1, 2, 3>>, reply |-> <<>>,        flags |-> 0, payload |-> <<1, 2, 3>>],
   [topic |-> <<4>>,       reply |-> <<5, 6, 7>>, flags |-> 1, payload |-> <<7>>],
   [topic |-> <<5, 6, 7, 1>>, reply |-> <<2>>,    flags |-> 1, payload |-> <<6, 5>>]}
=============================================================================
