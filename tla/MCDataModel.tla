---------------------------- MODULE MCDataModel ----------------------------
(***************************************************************************)
(* Part of the model of sample_provider_wifi: Device.WiFi with a list of    *)
(* end points, each with a list of adapters, and a router, served by two    *)
(* hosts.                                                                   *)
(***************************************************************************)
EXTENDS DataModel

W == <<"D", "W">>
E == <<"D", "W", "E">>
A == <<"D", "W", "E", "A">>
R == <<"D", "W", "R">>
E1 == Append(E, "1")
E2 == Append(E, "2")
A1 == E1 \o <<"A", "1">>

Prop(name, writable) == [name |-> name, writable |-> writable]
File(name, list, props) == [name |-> name, list |-> list, props |-> props]

MCFiles ==
  << File(R, FALSE, <<Prop("Name", TRUE)>>),
     File(<<>>, FALSE, <<>>),
     File(E, TRUE, <<Prop("Alias", TRUE), Prop("SSID", TRUE), Prop("Status", TRUE),
                     Prop("ANumberOfEntries", FALSE), Prop("AIdsOfEntries", FALSE), Prop("Mode", FALSE)>>),
     File(W, FALSE, <<Prop("ENumberOfEntries", FALSE), Prop("EIdsOfEntries", FALSE)>>),
     File(R, TRUE, <<>>),
     File(A, TRUE, <<Prop("Alias", FALSE)>>) >>
MCOrder == <<W, E, A, R>>

Kind(getters, setters, own, pair) ==
  [getters |-> getters, setters |-> setters, own |-> own, pair |-> pair]
MCClass ==
  (W :> Kind({"ENumberOfEntries", "EIdsOfEntries"}, {}, {}, {})) @@
  (E :> Kind({"SSID", "Status", "ANumberOfEntries", "AIdsOfEntries"}, {"SSID", "Status"},
             {"Alias"}, {"SSID", "Status"})) @@
  (A :> Kind({"Alias"}, {}, {}, {})) @@
  (R :> Kind({"Name"}, {"Name"}, {}, {}))

EndPoint(x, n, ids) ==
  [SSID |-> <<x>>, Status |-> <<x>>, Alias |-> <<x>>, ANumberOfEntries |-> n, AIdsOfEntries |-> ids]
MCFields ==
  (W :> [ENumberOfEntries |-> <<"1">>, EIdsOfEntries |-> <<"1">>]) @@
  (E1 :> EndPoint("x1", <<"1">>, <<"1">>)) @@
  (E2 :> EndPoint("x2", <<"0">>, <<"">>)) @@
  (A1 :> [Alias |-> <<"a">>]) @@
  (R :> [Name |-> <<"r">>])
MCLater == W :> [ENumberOfEntries |-> <<"2">>, EIdsOfEntries |-> <<"1", "2">>]

MCRegisters == "h1" :> <<W, E1, A1>> @@ "h2" :> <<R, E2>>
MCReady == "h1" :> 2 @@ "h2" :> 2

Get(name, wild, recursive) ==
  [op |-> "get", param |-> [name |-> name, wild |-> wild], recursive |-> recursive,
   multi |-> FALSE, pairs |-> <<>>]
Put(name, multi, pairs) ==
  [op |-> "set", param |-> [name |-> name, wild |-> FALSE], recursive |-> FALSE,
   multi |-> multi, pairs |-> pairs]
Pair(prop, x) == [prop |-> prop, value |-> <<x>>]

Both == Put(E1, TRUE, <<Pair("SSID", "y"), Pair("Mode", "y"), Pair("Status", "y")>>)
Half == Put(E1, TRUE, <<Pair("SSID", "z"), Pair("Bogus", "z")>>)
Rename == Put(Append(R, "Name"), FALSE, <<Pair("Name", "s")>>)
NoValue == Put(Append(E2, "Alias"), FALSE, <<>>)

Names == {W \o n : n \in UNION {[1..m -> {"E", "A", "R", "1"}] : m \in 1..3}}
           \cup {E1 \o n : n \in [1..2 -> {"E", "A", "1"}]}
           \cup {<<"D", "E", "W">>, <<"W", "D", "W">>, <<"D", "D">>}

Together(get, put) == "c1" :> get @@ "c2" :> put
MCJobs ==
  {Together(Get(W, TRUE, TRUE), NoValue), Together(Get(E1, TRUE, TRUE), Both)} \cup
  {Together(Get(E, TRUE, FALSE), put) : put \in {Both, Half}} \cup
  {Together(get, Rename) : get \in {Get(E, TRUE, TRUE), Get(R, TRUE, FALSE)}} \cup
  {Together(Get(n, wild, FALSE), NoValue) : n \in Names, wild \in BOOLEAN}
=============================================================================
