------------------------------ MODULE DataModel ------------------------------
(***************************************************************************)
(* Data-model clients (dmClient, dmQuery) and provider hosts                *)
(* (dmProviderHost) that talk over the bus.  A host registers its objects   *)
(* in the application's thread while its run thread already answers; a get  *)
(* is many queries, each over a connection of its own, that end in an       *)
(* answer, a no-route answer or silence.                                    *)
(*                                                                         *)
(* The bus is what Router and Connection show of it: a request goes to the  *)
(* host that subscribed its topic, or is answered with an error.  When the  *)
(* router restarts, everybody connects again, and what was asked before is  *)
(* not answered any more.                                                   *)
(***************************************************************************)
EXTENDS Provider, TLC

CONSTANTS
  Clients, Jobs,       \* what the clients may be asked to run, all together
  Hosts, Registers,    \* Registers[h]: the objects host h registers, in order
  Fields, LaterFields, \* the values of every object, and what its application changes
  Ready,               \* Ready[h]: how many it has registered before the clients start
  MayDie,              \* the hosts whose process may end
  MaxRestarts          \* bound: how often the router restarts

Instances == UNION {ToSet(Registers[h]) : h \in Hosts}

ASSUME RegistersAssumption ==
  /\ \A h \in Hosts : Registers[h] \in Seq(Seq(STRING))
  /\ \A i \in Instances : ObjectInfo(i) # None
  /\ \A g, h \in Hosts : g # h => ToSet(Registers[g]) \cap ToSet(Registers[h]) = {}
\* A recursive get of an unknown property dereferences a null pointer.
ASSUME JobsAssumption ==
  \A js \in Jobs, c \in Clients :
    /\ js[c].param.name \in Seq(STRING)
    /\ js[c].pairs \in Seq([prop : STRING, value : Seq(STRING)])
    /\ js[c].recursive => js[c].op = "get" /\ (js[c].param.wild \/ ObjectOf(js[c].param) # None)
\* A provider has the members that its getters and setters are about.
ASSUME FieldsAssumption ==
  /\ DOMAIN Fields = Instances /\ DOMAIN LaterFields \subseteq Instances
  /\ \A i \in Instances :
       LET class == ClassOf(ObjectInfo(i))
       IN  class.getters \cup class.setters \cup class.own \subseteq DOMAIN Fields[i]
  /\ \A i \in DOMAIN LaterFields : DOMAIN LaterFields[i] \subseteq DOMAIN Fields[i]
ASSUME ReadyAssumption == /\ Ready \in [Hosts -> Nat]
                          /\ \A h \in Hosts : Ready[h] <= Len(Registers[h])
ASSUME MaxRestartsAssumption == MaxRestarts \in Nat

VARIABLES
  restarts,                        \* of the router
  alive, connected,                \* hosts: whether the router has their routes
  routed, inserted, inbox,         \* listeners, m_providers, requests to dispatch
  fields,                          \* the values of the objects
  job, pc, stack, answer,          \* clients: the call, the frames of runGet, what came back
  since, gaveUp,                   \* when the query connected; whether one timed out
  notes, errors, result            \* onResult, queries that onError was called for, runQuery

hostVars   == <<restarts, alive, connected, routed, inserted, inbox, fields>>
clientVars == <<job, pc, stack, answer, since, gaveUp, notes, errors, result>>
vars == <<hostVars, clientVars>>

\* A call of runGet.
Frame(param, at) ==
  [param |-> param, at |-> at, count |-> 0, ids |-> <<>>, i |-> 0, kid |-> 0, ok |-> TRUE]

Init ==
  /\ restarts = 0
  /\ alive = [h \in Hosts |-> TRUE] /\ connected = [h \in Hosts |-> TRUE]
  /\ routed = Ready /\ inserted = Ready
  /\ inbox = [h \in Hosts |-> <<>>]
  /\ fields = Fields
  /\ job \in Jobs
  /\ pc = [c \in Clients |-> "enter"]
  /\ stack = [c \in Clients |-> <<Frame(job[c].param, "enter")>>]
  /\ answer = [c \in Clients |-> <<>>]
  /\ since = [c \in Clients |-> 0] /\ gaveUp = [c \in Clients |-> FALSE]
  /\ notes = [c \in Clients |-> <<>>] /\ errors = [c \in Clients |-> {}]
  /\ result = [c \in Clients |-> "running"]

-----------------------------------------------------------------------------
(* Hosts.                                                                   *)

Routed(h) == {Registers[h][i] : i \in 1..routed[h]}
Inserted(h) == {Registers[h][i] : i \in 1..inserted[h]}

\* registerProvider in the application's thread: first the listener, ...
Subscribe(h) ==
  /\ alive[h] /\ routed[h] = inserted[h] /\ routed[h] < Len(Registers[h])
  /\ routed' = [routed EXCEPT ![h] = @ + 1]
  /\ UNCHANGED <<restarts, alive, connected, inserted, inbox, fields, clientVars>>

\* ... then m_providers.
Insert(h) ==
  /\ alive[h] /\ inserted[h] < routed[h]
  /\ inserted' = [inserted EXCEPT ![h] = @ + 1]
  /\ UNCHANGED <<restarts, alive, connected, routed, inbox, fields, clientVars>>

\* decodeGetRequest
GetParams(r) ==
  LET k == ObjectInfo(r.object)
  IN  IF r.prop # "" THEN <<Info(k, r.prop, r.prop, FALSE)>>
      ELSE [j \in 1..Len(Properties(k)) |->
              Info(k, Properties(k)[j].name, Properties(k)[j].name, FALSE)]

\* decodeSetRequest; a property that is not declared counts as writable.
SetParams(r) ==
  [j \in 1..Len(r.pairs) |->
     [info |-> Info(ObjectInfo(r.object), r.pairs[j].prop, r.prop, TRUE),
      value |-> r.pairs[j].value]]

Reply(values) == [status |-> 0, got |-> TRUE, values |-> values]

\* All queries of a process have one inbox name: the answer reaches whichever
\* waits, unless it was lost with the router.
AwaitsAny(c, r) == answer[c] = <<>>  \* Mutant of Awaits: a query that has ended as well.
Awaits(c, r) == pc[c] = "wait" /\ answer[c] = <<>> /\ r.since = restarts

AnsweredIfFound(r, values) ==  \* Mutant of Answered: no response if there is no provider.
  IF Awaits(r.client, r) /\ values # <<>>
  THEN [answer EXCEPT ![r.client] = <<Reply(values)>>] ELSE answer
Answered(r, values) ==
  IF Awaits(r.client, r) THEN [answer EXCEPT ![r.client] = <<Reply(values)>>] ELSE answer

\* requestHandler in the run thread: decode, find the provider, get or set,
\* encode the result, send the response.
Serve(h) ==
  /\ alive[h] /\ inbox[h] # <<>>
  /\ LET r     == Head(inbox[h])
         known == r.object \in Inserted(h)
         class == ClassOf(ObjectInfo(r.object))
         set   == DoSet(class, fields[r.object], SetParams(r))
         values == IF ~known THEN <<>>
                   ELSE IF r.op = "set" THEN set.result
                   ELSE DoGet(class, fields[r.object], GetParams(r))
     IN  /\ fields' = IF known /\ r.op = "set" THEN [fields EXCEPT ![r.object] = set.fields] ELSE fields
         /\ answer' = Answered(r, values)
  /\ inbox' = [inbox EXCEPT ![h] = Tail(@)]
  /\ UNCHANGED <<restarts, alive, connected, routed, inserted, job, pc, stack, since, gaveUp, notes, errors, result>>

\* The application changes what its getters return, such as the ids of a list.
ApplicationChanges(i) ==
  /\ fields' = [fields EXCEPT ![i] = Overlaid(@, LaterFields[i])]
  /\ UNCHANGED <<restarts, alive, connected, routed, inserted, inbox, clientVars>>

\* The process ends and the router clears its routes.
Dies(h) ==
  /\ h \in MayDie /\ alive[h]
  /\ alive' = [alive EXCEPT ![h] = FALSE]
  /\ inbox' = [inbox EXCEPT ![h] = <<>>]
  /\ UNCHANGED <<restarts, connected, routed, inserted, fields, clientVars>>

\* Of the requests that hosts have been sent, they may still read what arrived.
RouterRestarts ==
  /\ restarts < MaxRestarts
  /\ restarts' = restarts + 1
  /\ connected' = [h \in Hosts |-> FALSE]
  /\ \E read \in {inbox, [h \in Hosts |-> <<>>]} : inbox' = read
  /\ UNCHANGED <<alive, routed, inserted, fields, clientVars>>

\* A send or the run thread's read finds the connection gone; all listeners are
\* registered over a new one, and what was not read from the old one is lost.
Reconnect(h) ==
  /\ alive[h] /\ ~connected[h]
  /\ connected' = [connected EXCEPT ![h] = TRUE]
  /\ inbox' = [inbox EXCEPT ![h] = <<>>]
  /\ UNCHANGED <<restarts, alive, routed, inserted, fields, clientVars>>

-----------------------------------------------------------------------------
(* Queries.                                                                 *)

Refusal == [status |-> 1, got |-> TRUE, values |-> <<>>]
Silence == [status |-> 0, got |-> FALSE, values |-> <<>>]

Top(c) == Last(stack[c])
Sibling(name, suffix) == Append(Front(name), Last(name) \o suffix)
PropertyParam(name) == [name |-> name, wild |-> FALSE]
ObjectParam(name) == [name |-> name, wild |-> TRUE]
ItemName(f) == Append(f.param.name, f.ids[f.i])

\* What runOneQuery is called with.
Asked(c) ==
  LET f == Top(c)
  IN  CASE f.at = "count" -> PropertyParam(Sibling(f.param.name, "NumberOfEntries"))
        [] f.at = "ids"   -> PropertyParam(Sibling(f.param.name, "IdsOfEntries"))
        [] f.at = "item"  -> ObjectParam(ItemName(f))
        [] OTHER          -> f.param
\* m_instanceName: a set of several properties names the object itself.
AskedObject(c) ==
  IF job[c].op = "set" /\ job[c].multi THEN Asked(c).name ELSE ObjectName(Asked(c))

\* createQuery: the query has a provider info, and a set has a value.
Executable(c) ==
  /\ ObjectInfo(AskedObject(c)) # None
  /\ job[c].op = "set" => job[c].pairs # <<>>

\* The topic names the object, the message the object and the parameter.
Request(c) ==
  [client |-> c, since |-> restarts, op |-> job[c].op, object |-> AskedObject(c),
   prop |-> IF Asked(c).wild THEN "" ELSE Last(Asked(c).name), pairs |-> job[c].pairs]

\* exec: what cannot be executed fails at once; without a route the router answers.
Ask(c) ==
  /\ pc[c] = "ask"
  /\ LET to == {h \in Hosts : alive[h] /\ connected[h] /\ AskedObject(c) \in Routed(h)}
     IN  IF ~Executable(c) \/ to = {}
         THEN answer' = [answer EXCEPT ![c] = <<Refusal>>] /\ inbox' = inbox
         ELSE /\ inbox' = [h \in Hosts |-> IF h \in to THEN Append(inbox[h], Request(c)) ELSE inbox[h]]
              /\ UNCHANGED answer
  /\ pc' = [pc EXCEPT ![c] = "wait"] /\ since' = [since EXCEPT ![c] = restarts]
  /\ UNCHANGED <<restarts, alive, connected, routed, inserted, fields, job, stack, gaveUp, notes, errors, result>>

\* rtConnection_SendRequest looks at the clock only when it has connected again,
\* its read waits without a limit; and exec() reports success.
TimesOut(c) ==
  /\ pc[c] = "wait" /\ answer[c] = <<>> /\ since[c] < restarts
  /\ answer' = [answer EXCEPT ![c] = <<Silence>>]
  /\ gaveUp' = [gaveUp EXCEPT ![c] = TRUE]
  /\ UNCHANGED <<hostVars, job, pc, stack, since, notes, errors, result>>

-----------------------------------------------------------------------------
(* runGet.                                                                  *)

Goto(c, f, to) ==
  stack' = [stack EXCEPT ![c] = Append(Front(@), f)] /\ pc' = [pc EXCEPT ![c] = to]

\* The result of a child overwrites that of its parent's frame.
Return(c, ok) ==
  IF Len(stack[c]) = 1
  THEN /\ result' = [result EXCEPT ![c] = IF ok THEN "true" ELSE "false"]
       /\ pc' = [pc EXCEPT ![c] = "done"] /\ stack' = [stack EXCEPT ![c] = <<>>]
  ELSE /\ stack' = [stack EXCEPT ![c] = Append(Front(Front(@)), [Last(Front(@)) EXCEPT !.ok = ok])]
       /\ pc' = [pc EXCEPT ![c] = "below"] /\ UNCHANGED result

ListOf(param) == param.wild /\ IsList(ObjectOf(param)) /\ ~Lookup(ObjectName(param)).item

\* A wildcard of an unknown object fails without a notification.
Enter(c) ==
  /\ pc[c] = "enter"
  /\ LET f == Top(c)
     IN  IF job[c].op = "get" /\ f.param.wild /\ ObjectOf(f.param) = None THEN Return(c, FALSE)
         ELSE /\ Goto(c, [f EXCEPT !.at = IF job[c].op = "get" /\ ListOf(f.param) THEN "count" ELSE "plain"], "ask")
              /\ UNCHANGED result
  /\ UNCHANGED <<hostVars, job, answer, since, gaveUp, notes, errors>>

\* getResultValue: the last value of that name, or 0.
ValueOf(prop, values) ==
  LET at == {n \in 1..Len(values) : values[n].prop = prop}
  IN  IF at = {} THEN <<"0">> ELSE values[Max(at)].value

\* Of what is not a number, 0.
atoi(value) ==
  IF \E n \in 1..9 : ToString(n) = value[1] THEN CHOOSE n \in 1..9 : ToString(n) = value[1] ELSE 0

\* What makeRequest puts into m_results: the name of the object only if there
\* was an answer.
Results(c, a) == [object |-> IF a.got THEN AskedObject(c) ELSE <<>>, values |-> a.values]

OnResult(c, a) == notes' = [notes EXCEPT ![c] = Append(@, Results(c, a))]
OnError(c) == errors' = [errors EXCEPT ![c] = @ \cup {Top(c).at}]

\* The queries for the length and the ids of a list; the items are asked for
\* only if the two agree.
Counted(c) ==
  /\ pc[c] = "wait" /\ answer[c] # <<>> /\ Top(c).at \in {"count", "ids"}
  /\ LET f == Top(c)
         a == answer[c][1]
         v == ValueOf(Last(Asked(c).name), a.values)
     IN  IF a.status # 0 \/ (f.at = "ids" /\ Len(v) # f.count)
         THEN OnError(c) /\ Return(c, FALSE)
         ELSE /\ IF f.at = "count" THEN Goto(c, [f EXCEPT !.at = "ids", !.count = atoi(v)], "ask")
                                   ELSE Goto(c, [f EXCEPT !.at = "item", !.ids = v, !.i = 1], "ask")
              /\ UNCHANGED <<errors, result>>
  /\ answer' = [answer EXCEPT ![c] = <<>>]
  /\ UNCHANGED <<hostVars, job, since, gaveUp, notes>>

QueriedSilently(c) ==  \* Mutant of Queried: no onError.
  /\ pc[c] = "wait" /\ answer[c] # <<>> /\ Top(c).at \in {"item", "plain"}
  /\ LET a == answer[c][1]
     IN  /\ Goto(c, [Top(c) EXCEPT !.ok = @ /\ a.status = 0, !.kid = 0], "below")
         /\ IF a.status = 0 THEN OnResult(c, a) ELSE UNCHANGED notes
  /\ answer' = [answer EXCEPT ![c] = <<>>]
  /\ UNCHANGED <<hostVars, job, since, gaveUp, errors, result>>

\* The query for an item of a list, for a plain object or property, or the set.
Queried(c) ==
  /\ pc[c] = "wait" /\ answer[c] # <<>> /\ Top(c).at \in {"item", "plain"}
  /\ LET a == answer[c][1]
         f == [Top(c) EXCEPT !.ok = @ /\ a.status = 0, !.kid = 0]
     IN  /\ Goto(c, f, "below")
         /\ IF a.status = 0 THEN OnResult(c, a) /\ UNCHANGED errors ELSE OnError(c) /\ UNCHANGED notes
  /\ answer' = [answer EXCEPT ![c] = <<>>]
  /\ UNCHANGED <<hostVars, job, since, gaveUp, result>>

\* The children of the object, then the next item of the list.
Below(c) ==
  /\ pc[c] = "below"
  /\ LET f    == Top(c)
         base == IF f.at = "item" THEN ItemName(f) ELSE ObjectName(f.param)
         kids == IF job[c].recursive THEN Children(ObjectOf(f.param)) ELSE <<>>
     IN  IF f.kid < Len(kids)
         THEN /\ stack' = [stack EXCEPT ![c] =
                   Front(@) \o <<[f EXCEPT !.kid = f.kid + 1],
                         Frame(ObjectParam(Append(base, Last(Order[kids[f.kid + 1]]))), "enter")>>]
              /\ pc' = [pc EXCEPT ![c] = "enter"] /\ UNCHANGED result
         ELSE IF f.at = "item" /\ f.i < Len(f.ids)
         THEN Goto(c, [f EXCEPT !.i = f.i + 1], "ask") /\ UNCHANGED result
         ELSE Return(c, f.ok)
  /\ UNCHANGED <<hostVars, job, answer, since, gaveUp, notes, errors>>

ClientStep(c) == Enter(c) \/ Ask(c) \/ Counted(c) \/ Queried(c) \/ Below(c)

\* Nobody has the request that the client waits for.
Hangs(c) ==
  /\ pc[c] = "wait" /\ answer[c] = <<>>
  /\ \A h \in Hosts : \A r \in ToSet(inbox[h]) : ~(r.client = c /\ Awaits(c, r))

\* The system may stop here and nowhere else.
Finished == (\A c \in Clients : pc[c] = "done" \/ Hangs(c)) /\ UNCHANGED vars

Next ==
  \/ \E h \in Hosts : Subscribe(h) \/ Insert(h) \/ Serve(h) \/ Dies(h) \/ Reconnect(h)
  \/ RouterRestarts
  \/ \E i \in DOMAIN LaterFields : ApplicationChanges(i)
  \/ \E c \in Clients : ClientStep(c) \/ TimesOut(c)
  \/ Finished

Spec == Init /\ [][Next]_vars

-----------------------------------------------------------------------------
(* Properties.                                                              *)

\* The ids of a name from its m-th token on are in their lists.
Listed(i, m, values) ==
  \A n \in m..Len(i) :
    LET list == SubSeq(i, 1, n - 1)
    IN  IsList(ObjectInfo(list)) /\ ~Lookup(list).item =>
          Contains(values[Front(list)][Last(list) \o "IdsOfEntries"], i[n])

\* The instances a get is about, given the ids that the lists name.
Meant(j, values) ==
  {i \in Instances :
     /\ Listed(i, Len(ObjectName(j.param)) + 1, values)
     /\ \/ i = ObjectName(j.param)
        \/ ListOf(j.param) /\ Front(i) = j.param.name
        \/ j.recursive /\ IsPrefix(ObjectName(j.param), i)}

Noted(c) == {n.object : n \in ToSet(notes[c])}

TypeOK ==
  /\ restarts \in 0..MaxRestarts
  /\ {alive, connected} \subseteq [Hosts -> BOOLEAN]
  /\ \A h \in Hosts : /\ routed[h] \in 0..Len(Registers[h])
                      /\ inserted[h] \in {routed[h] - 1, routed[h]} \cap Nat
                      /\ \A r \in ToSet(inbox[h]) : r.object \in Routed(h)
  /\ \A i \in Instances : DOMAIN fields[i] = DOMAIN Fields[i]
  /\ \A c \in Clients :
       /\ pc[c] \in {"enter", "ask", "wait", "below", "done"}
       /\ pc[c] = "done" <=> stack[c] = <<>>
       /\ answer[c] # <<>> => pc[c] = "wait" /\ Len(answer[c]) = 1
       /\ result[c] = "running" <=> pc[c] # "done"
       /\ since[c] \in 0..restarts /\ (gaveUp[c] => restarts > 0) /\ errors[c] \subseteq {"count", "ids", "item", "plain"}

\* getProviderByObjectName takes every name apart as it is meant: ids after
\* lists are left out, and nothing below an object that is not declared is found.
LookupIsExact ==
  \A c \in Clients : pc[c] = "enter" =>
    LET name == ObjectName(Top(c).param)
    IN  \A k \in 1..Len(Order), item \in BOOLEAN :
          (ObjectInfo(name) = k /\ Lookup(name).item = item) <=> IsInstanceOf(name, k, item)

\* dmClient.h:40: one onResult for each item; no object is reported twice in
\* one call, however lists and recursion meet.
NotifiedOnce ==
  \A c \in Clients : \A x, y \in 1..Len(notes[c]) :
    notes[c][x].object = notes[c][y].object => x = y \/ notes[c][x].object = <<>>

\* A get that reports no error and waited for every answer has reported every
\* object it is about: those that were listed when it began at least, those
\* that are listed now at most.
Complete ==
  \A c \in Clients :
    pc[c] = "done" /\ job[c].op = "get" /\ result[c] = "true" /\ errors[c] = {} /\ ~gaveUp[c] =>
      Meant(job[c], Fields) \subseteq Noted(c) /\ Noted(c) \subseteq Meant(job[c], fields)

\* A query hangs only when its provider or its router has gone: every other
\* request, known to its host or not, is answered.
HangsOnlyForTheGone ==
  \A c \in Clients : Hangs(c) => since[c] < restarts \/ \E h \in MayDie : ~alive[h]

\* runQuery returns false only with an onError, but for a wildcard of an unknown
\* object, and true, when it does not recurse, only without one.
FailureIsReported ==
  \A c \in Clients :
    /\ result[c] = "false" => errors[c] # {} \/ (job[c].param.wild /\ ObjectOf(job[c].param) = None)
    /\ result[c] = "true" /\ ~job[c].recursive => errors[c] = {}

\* The pairs that the sets of this run ask for, and the first one.
Wanted(i) ==
  LET pair == ClassOf(ObjectInfo(i)).pair
      js   == {j \in {job[c] : c \in Clients} : j.op = "set" /\ j.multi /\ j.param.name = i}
  IN  {[q \in pair |-> ValueOf(q, j.pairs)] :
         j \in {j \in js : \A q \in pair : \E p \in ToSet(j.pairs) : p.prop = q}}
      \cup {[q \in pair |-> Fields[i][q]]}

\* What a get shows of the properties of a transaction was set together, on
\* the object it is reported for: no half of a set, no answer of another query.
NoTornPair ==
  \A c \in Clients : job[c].op = "get" =>
    \A n \in {n \in ToSet(notes[c]) : n.object # <<>>} :
      LET pair == ClassOf(ObjectInfo(n.object)).pair
      IN  (\A q \in pair : \E e \in ToSet(n.values) : e.prop = q) =>
            [q \in pair |-> ValueOf(q, n.values)] \in {[q \in pair |-> v[q]] : v \in Wanted(n.object)}

\* A set that gives all the properties of a transaction does what its answer says.
SetAsReported ==
  [][\A h \in Hosts :
       (inbox[h] # <<>> /\ inbox'[h] = Tail(inbox[h])) =>
         LET r == Head(inbox[h])
         IN  (r.op = "set" /\ (Len(r.pairs) > 1 =>
                ClassOf(ObjectInfo(r.object)).pair \subseteq {p.prop : p \in ToSet(r.pairs)})) =>
             \A e \in UNION {ToSet(a.values) : a \in ToSet(answer'[r.client])} :
               e.status = "ok" => fields'[r.object][e.prop] = e.value]_vars

\* dmClient.cpp:127: "if only a list item query fails, we keep going but still
\* at end, return false".
FailedItemFails ==
  \A c \in Clients : result[c] = "true" => "item" \notin errors[c]
=============================================================================
