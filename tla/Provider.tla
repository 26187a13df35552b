------------------------------ MODULE Provider ------------------------------
(***************************************************************************)
(* dmProvider: how the object behind a name answers gets and sets.  Its     *)
(* functions, its own doGet and doSet, and what it does in a transaction    *)
(* are those of its subclass (the EndPointObject of sample_provider_wifi).  *)
(*                                                                         *)
(* A value is the sequence of its comma-separated parts.                    *)
(***************************************************************************)
EXTENDS Database

\* The subclass that serves an object: the properties it has getters and
\* setters for, those its own doGet and doSet know, and those that change
\* together in a transaction.
CONSTANT Class

ASSUME ClassAssumption ==
  \A k \in 1..Len(Order) : Class[Order[k]].pair \subseteq Class[Order[k]].setters

\* The values of an object, some of them replaced.
Overlaid(old, new) == [q \in DOMAIN old |-> IF q \in DOMAIN new THEN new[q] ELSE old[q]]

ClassOf(k) == Class[Order[k]]
Blank == <<"">>

\* dmQueryResult::addValue; the status is RT_OK, RT_ERROR or RT_PROP_NOT_FOUND.
Entry(prop, value, status) == [prop |-> prop, value |-> value, status |-> status]
NotFound(prop) == Entry(prop, Blank, "not found")

\* A property the object does not declare has the full name of the request only.
Info(k, prop, full, writable) ==
  IF HasProperty(k, prop)
  THEN [name |-> prop, full |-> prop, writable |-> Property(k, prop).writable]
  ELSE [name |-> "", full |-> full, writable |-> writable]

DoGet(class, fields, infos) ==
  [j \in 1..Len(infos) |->
     IF infos[j].name \in class.getters \cup class.own
     THEN Entry(infos[j].full, fields[infos[j].name], "ok")
     ELSE NotFound(infos[j].full)]

-----------------------------------------------------------------------------
SetAtOnce(class, transaction, st, p) ==  \* Mutant of SetOne: no transactions.
  IF p.info.writable /\ p.info.name \in class.setters
  THEN [st EXCEPT !.fields[p.info.name] = p.value, !.result = Append(@, Entry(p.info.full, p.value, "ok"))]
  ELSE [st EXCEPT !.result = Append(@, NotFound(p.info.full))]

\* One parameter: a setter keeps the value of a transaction aside.
SetOne(class, transaction, st, p) ==
  LET name == p.info.name
      said(e) == [st EXCEPT !.result = Append(@, e)]
      done == said(Entry(p.info.full, p.value, "ok"))
  IN  IF ~p.info.writable THEN said(Entry(p.info.full, Blank, "error"))
      ELSE IF name \notin class.setters \cup class.own THEN said(NotFound(p.info.full))
      ELSE IF transaction /\ name \in class.pair THEN [done EXCEPT !.aside[name] = p.value]
      ELSE [done EXCEPT !.fields[name] = p.value]

CommitCleared(class, st) == st.fields  \* Mutant of Commit: cleared before it is compared.

\* endTransaction: nothing unless all of them were given.
Commit(class, st) ==
  IF \A q \in class.pair : st.aside[q] # Blank THEN Overlaid(st.fields, st.aside) ELSE st.fields

DoSet(class, fields, params) ==
  LET transaction == Len(params) > 1
      begin == [fields |-> fields, aside |-> [q \in class.pair |-> Blank], result |-> <<>>]
      end   == FoldLeft(LAMBDA st, p : SetOne(class, transaction, st, p), begin, params)
  IN  [fields |-> IF transaction THEN Commit(class, end) ELSE end.fields,
       result |-> end.result]
=============================================================================
