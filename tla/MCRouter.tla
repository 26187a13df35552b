------------------------------ MODULE MCRouter ------------------------------
EXTENDS Router

CONSTANTS A, B, C  \* three peers; a run takes two or all of them

Plain(t)   == [topic |-> t, id |-> 0, exp |-> NoExp, req |-> FALSE, empty |-> FALSE]
Request(t) == [topic |-> t, id |-> 0, exp |-> NoExp, req |-> TRUE, empty |-> FALSE]
Empty(t)   == [topic |-> t, id |-> 0, exp |-> NoExp, req |-> FALSE, empty |-> TRUE]
Subscribe(x, e) ==
  [topic |-> "SUBSCRIBE", id |-> x, exp |-> e, req |-> FALSE, empty |-> FALSE]

MCTopics == {"a.b", "c"}
MCExprs  == {InternalExp, DebugExp, "a.*"}
MCMatches ==
  {<<"a.b", "a.*">>} \cup {<<t, DebugExp>> : t \in MCTopics \cup Control}
                     \cup {<<t, InternalExp>> : t \in Control}

\* A subscriber, and a client that asks for what it may serve and for what nobody serves.
ReuseSends ==
  A :> {Subscribe(1, "a.*"), Subscribe(2, "a.*")} @@ B :> {Request("a.b"), Request("c")}

\* Two subscribers and a client that asks, or sends a message without a payload.
FanOutSends ==
  A :> {Subscribe(1, "a.*")} @@ C :> {Subscribe(2, ">")} @@ B :> {Request("a.b"), Empty("a.b")}

\* A client that listens, asks and is told "no route", and a publisher.
LiveSends ==
  A :> {Subscribe(1, "a.*"), Request("c")} @@ B :> {Plain("a.b")}
=============================================================================
