----------------------------- MODULE TopicMatch -----------------------------
(***************************************************************************)
(* rtRouted_IsTopicMatch of rtrouted.c: does a topic match a subscription  *)
(* expression?  Two cursors walk over two NUL-terminated strings, here     *)
(* sequences of characters; "abstract" is what the expression language     *)
(* means token by token.                                                   *)
(***************************************************************************)
EXTENDS Naturals, Sequences, FiniteSets

CONSTANTS
  TopicStrings,  \* the topics that senders publish on
  ExpStrings     \* the expressions that routes carry

NUL == "NUL"
Chars == {"a", "b", ".", "*", ">"}

ASSUME StringsAssumption ==
  /\ TopicStrings \subseteq Seq(Chars)
  /\ ExpStrings \subseteq Seq(Chars)

VARIABLES
  topic, exp,  \* the arguments
  t, e,        \* the cursors
  pc           \* which test of the loop comes next

vars == <<topic, exp, t, e, pc>>

\* The character a cursor points to, the terminator included.
End(s) == Len(s) + 1
CharAt(s, p) == IF p = End(s) THEN NUL ELSE s[p]

Init ==
  /\ topic \in TopicStrings
  /\ exp \in ExpStrings
  /\ t = 1 /\ e = 1
  /\ pc = "while"

\* while (*t && *e)
While ==
  /\ pc = "while"
  /\ pc' = IF CharAt(topic, t) # NUL /\ CharAt(exp, e) # NUL THEN "star" ELSE "done"
  /\ UNCHANGED <<topic, exp, t, e>>

StarSkipsNul ==  \* Mutant of StarSkips: the end of the topic is not tested.
  /\ pc = "star" /\ CharAt(exp, e) = "*" /\ CharAt(topic, t) # "."
  /\ t' = t + 1
  /\ UNCHANGED <<topic, exp, e, pc>>
StarSkipsDots ==  \* Mutant of StarSkips: '*' takes all of the topic.
  /\ pc = "star" /\ CharAt(exp, e) = "*" /\ CharAt(topic, t) # NUL
  /\ t' = t + 1
  /\ UNCHANGED <<topic, exp, e, pc>>

\* The '*' block skips to the next '.', or to the end of the topic ...
StarSkips ==
  /\ pc = "star"
  /\ CharAt(exp, e) = "*"
  /\ CharAt(topic, t) \notin {NUL, "."}
  /\ t' = t + 1
  /\ UNCHANGED <<topic, exp, e, pc>>
\* ... and then passes the '*'.
StarEnds ==
  /\ pc = "star"
  /\ IF CharAt(exp, e) = "*"
     THEN CharAt(topic, t) \in {NUL, "."} /\ e' = e + 1
     ELSE UNCHANGED e
  /\ pc' = "gt"
  /\ UNCHANGED <<topic, exp, t>>

\* The '>' block skips to the end of the topic and passes the '>'.
Gt ==
  /\ pc = "gt"
  /\ IF CharAt(exp, e) = ">"
     THEN t' = End(topic) /\ e' = e + 1
     ELSE UNCHANGED <<t, e>>
  /\ pc' = "compare"
  /\ UNCHANGED <<topic, exp>>

CompareInPlace ==  \* Mutant of Compare: the cursors do not advance.
  /\ pc = "compare"
  /\ pc' = IF CharAt(topic, t) # NUL /\ CharAt(topic, t) = CharAt(exp, e)
           THEN "while" ELSE "done"
  /\ UNCHANGED <<topic, exp, t, e>>

\* The end of both strings and a mismatch break the loop.
Compare ==
  /\ pc = "compare"
  /\ IF CharAt(topic, t) # NUL /\ CharAt(topic, t) = CharAt(exp, e)
     THEN t' = t + 1 /\ e' = e + 1 /\ pc' = "while"
     ELSE pc' = "done" /\ UNCHANGED <<t, e>>
  /\ UNCHANGED <<topic, exp>>

Next == While \/ StarSkips \/ StarEnds \/ Gt \/ Compare
Spec == Init /\ [][Next]_vars /\ WF_vars(Next)

\* The value returned: both strings are used up.
Result == CharAt(topic, t) = NUL /\ CharAt(exp, e) = NUL

-----------------------------------------------------------------------------
(* The expression language, token by token.                                *)

\* The positions at which s is cut, its two outer ends included.
Cuts(s) == {0, End(s)} \cup {p \in 1..Len(s) : s[p] = "."}
\* The k-th token lies between the k-th and the next cut.
Cut(s, k) == CHOOSE p \in Cuts(s) : Cardinality({q \in Cuts(s) : q < p}) = k - 1
Token(s, k) == SubSeq(s, Cut(s, k) + 1, Cut(s, k + 1) - 1)
Tokens(s) == [k \in 1..(Cardinality(Cuts(s)) - 1) |-> Token(s, k)]

\* A wildcard is a token of its own and '>' comes last.
WellFormedExp(s) ==
  LET ts == Tokens(s) IN
  \A k \in 1..Len(ts) :
    /\ \A j \in 1..Len(ts[k]) : ts[k][j] \in {"*", ">"} => Len(ts[k]) = 1
    /\ ts[k] = <<">">> => k = Len(ts)

\* A published topic has no wildcard and does not end in an empty token.
WellFormedTopic(s) ==
  /\ \A k \in 1..Len(s) : s[k] \notin {"*", ">"}
  /\ s # <<>>
  /\ s[Len(s)] # "."

\* '*' stands for one token, '>' for one or more.
Matches(tp, ex) ==
  LET tt == Tokens(tp)
      et == Tokens(ex)
      rest == et[Len(et)] = <<">">>
      fixed == IF rest THEN Len(et) - 1 ELSE Len(et)
  IN  /\ IF rest THEN Len(tt) > fixed ELSE Len(tt) = fixed
      /\ \A k \in 1..fixed : et[k] = <<"*">> \/ et[k] = tt[k]

-----------------------------------------------------------------------------
\* The cursors never leave the two strings: the last characters they may point
\* to are the terminators, so the loop never reads past its arguments.
CursorsInside ==
  /\ t \in 1..End(topic)
  /\ e \in 1..End(exp)
  /\ pc \in {"while", "star", "gt", "compare", "done"}

\* For a well-formed expression and topic the loop computes the token-wise match,
\* and an expression without wildcards, well-formed or not, matches only itself.
ComputesMatch ==
  pc = "done" =>
    /\ WellFormedExp(exp) /\ WellFormedTopic(topic) => (Result <=> Matches(topic, exp))
    /\ (\A k \in 1..Len(exp) : exp[k] \notin {"*", ">"}) => (Result <=> topic = exp)

\* The loop ends: every iteration moves a cursor or breaks.
Terminates == <>(pc = "done")
=============================================================================
