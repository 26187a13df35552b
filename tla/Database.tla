------------------------------ MODULE Database ------------------------------
(***************************************************************************)
(* dmProviderDatabase: the data model that every process loads from a       *)
(* directory, and how a parameter is taken apart to find its object.        *)
(*                                                                         *)
(* A dotted name is the sequence of its tokens.  A parameter is a name and  *)
(* whether it ended in a dot ("wild": all properties of an object).         *)
(***************************************************************************)
EXTENDS Naturals, Sequences, FiniteSets, SequencesExt

CONSTANTS
  Files,     \* the files, as readdir() lists them: their "name", "is_list" and "properties"
  Order,     \* the names of the objects in the order of std::map
  Databases  \* dmProviderDatabase objects that the process has built

Unparsable == <<>>  \* the name of a file that is not JSON

ASSUME FilesAssumption == /\ Files \in Seq([name : Seq(STRING), list : BOOLEAN,
                                           props : Seq([name : STRING, writable : BOOLEAN])])
                          /\ Order \in Seq(Seq(STRING)) /\ IsInjective(Order)
                          /\ ToSet(Order) = {f.name : f \in ToSet(Files)} \ {Unparsable}
\* An object whose name has no dot would be its own parent.
ASSUME NamesAssumption == \A n \in ToSet(Order) : Len(n) > 1
ASSUME DatabasesAssumption == Databases \in Nat \ {0}

\* dmUtility::trimProperty
Trim(name) == IF Len(name) > 1 THEN Front(name) ELSE name

\* loadFromDir, loadFile: a parsed file is inserted unless its name is there.
Loaded(name) ==
  Files[CHOOSE i \in 1..Len(Files) : /\ Files[i].name = name
                                     /\ \A j \in 1..(i - 1) : Files[j].name # name]
Objects == [k \in 1..Len(Order) |-> Loaded(Order[k])]

None == 0
Find(name) == IF Contains(Order, name) THEN CHOOSE k \in 1..Len(Order) : Order[k] = name ELSE None
IsList(k) == k # None /\ Objects[k].list

\* Mutants of Children: a tree built twice; a loop left after one child.
ChildrenTwice(k) ==
  LET once == SelectSeq([j \in 1..Len(Order) |-> j], LAMBDA j : Trim(Order[j]) = Order[k])
  IN  once \o once
ChildrenOne(k) ==
  LET all == SelectSeq([j \in 1..Len(Order) |-> j], LAMBDA j : Trim(Order[j]) = Order[k])
  IN  SelectSeq(all, LAMBDA j : j = all[1])

\* buildProviderTree pushes every object once more in every database, as
\* model_db is one map for all of them.
Children(k) ==
  LET once == FlattenSeq([j \in 1..Len(Order) |-> IF Trim(Order[j]) = Order[k] THEN <<j>> ELSE <<>>])
  IN  FlattenSeq([d \in 1..Databases |-> once])

-----------------------------------------------------------------------------
Start == [full |-> <<>>, object |-> None, inList |-> FALSE, item |-> FALSE, lost |-> FALSE]

DescendAny(st, token) ==  \* Mutant of Descend: an unknown object is skipped.
  IF st.inList THEN [st EXCEPT !.inList = FALSE, !.item = TRUE]
  ELSE LET full == Append(st.full, token)
       IN  [full |-> full, object |-> IF Find(full) # None THEN Find(full) ELSE st.object,
            inList |-> IsList(Find(full)), item |-> FALSE, lost |-> FALSE]

\* One token: the id of an item after a list, else one more token of an
\* object's name.  Tokens in front of the first object are passed over.
Descend(st, token) ==
  IF st.lost THEN st
  ELSE IF st.inList THEN [st EXCEPT !.inList = FALSE, !.item = TRUE]
  ELSE LET full == Append(st.full, token)
           k    == Find(full)
       IN  [full   |-> full,
            object |-> IF k # None THEN k ELSE st.object,
            inList |-> IsList(k),
            item   |-> FALSE,
            lost   |-> k = None /\ st.object # None]

\* getProviderByObjectName, with *isListItem.
Lookup(name) == LET st == FoldLeft(Descend, Start, name)
                IN  IF st.lost THEN Start ELSE st
ObjectInfo(name) == Lookup(name).object

\* getProviderByPropertyName
ObjectName(param) == IF param.wild THEN param.name ELSE Trim(param.name)
ObjectOf(param) == ObjectInfo(ObjectName(param))

\* dmProviderInfo::getPropertyInfo, the first of that name.
Properties(k) == Objects[k].props
HasProperty(k, prop) == \E q \in ToSet(Properties(k)) : q.name = prop
Property(k, prop) == SelectSeq(Properties(k), LAMBDA q : q.name = prop)[1]

-----------------------------------------------------------------------------
(* What a name means.                                                       *)

\* The name is that of an object with an id put in after every list on the way,
\* and, if it is an item, after the object itself; from the first declared object
\* on, all on the way are declared.
IsInstanceOf(name, k, item) ==
  LET object   == Order[k]
      up(n)    == Find(SubSeq(object, 1, n))
      place(n) == n + Cardinality({m \in 1..(n - 1) : IsList(up(m))})
  IN  /\ Len(name) = place(Len(object)) + (IF item THEN 1 ELSE 0)
      /\ item => IsList(k)
      /\ \A n \in 1..Len(object) : name[place(n)] = object[n]
      /\ \A m, n \in 1..Len(object) : m < n /\ up(m) # None => up(n) # None
=============================================================================
