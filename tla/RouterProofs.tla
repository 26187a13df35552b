---------------------------- MODULE RouterProofs ----------------------------
(***************************************************************************)
(* Theorems about the router, for all values of its constants: its types,  *)
(* loops and sockets; whom it forwards to, whom it tells "no route" and     *)
(* whom it drops; in what order and how often a frame reaches a subscriber. *)
(***************************************************************************)
EXTENDS Router, SequenceLemmas, FiniteSetTheorems

-----------------------------------------------------------------------------
(* Type correctness.                                                       *)

LEMMA InitialRoutesType ==
  /\ InitialRoutes \in Seq(Route)
  /\ \A k \in 1..Len(InitialRoutes) : InitialRoutes[k].client = NoConn
<1>1. {InternalExp, DebugExp} \subseteq Exprs
  BY TopicsAssumption
<1> DEFINE r1 == BuiltinRoute("OnMessage", InternalExp)
           r2 == BuiltinRoute("PrintMessage", DebugExp)
<1>2. r1 \in Route /\ r2 \in Route /\ r1.client = NoConn /\ r2.client = NoConn
  BY <1>1 DEF BuiltinRoute, Route
<1> HIDE DEF r1, r2
<1>3. <<r1>> \in Seq(Route) /\ <<r1, r2>> \in Seq(Route)
  BY <1>2
<1>4. Len(<<r1>>) = 1 /\ Len(<<r1, r2>>) = 2 /\ <<r1>>[1] = r1
      /\ <<r1, r2>>[1] = r1 /\ <<r1, r2>>[2] = r2
  OBVIOUS
<1>5. InitialRoutes = IF DebugRoute THEN <<r1, r2>> ELSE <<r1>>
  BY DEF InitialRoutes, r1, r2
<1> QED BY <1>2, <1>3, <1>4, <1>5

LEMMA TypeInit == Init => TypeOK
<1> SUFFICES ASSUME Init PROVE TypeOK
  OBVIOUS
<1>1. routes \in Seq(Route)
  BY InitialRoutesType DEF Init
<1>2. <<>> \in Seq(Conns) /\ <<>> \in Seq(InChunk) /\ <<>> \in Seq(OutChunk)
  BY EmptySeq
<1>3. /\ pc = "select" /\ ready = {} /\ clients = <<>> /\ cur = NoConn
      /\ i = 1 /\ n = 0 /\ di = 1 /\ dn = 0 /\ found = FALSE /\ backlog = {}
  BY DEF Init
<1>4. /\ inb \in [Conns -> Seq(InChunk)]
      /\ wire \in [Conns -> Seq(OutChunk)]
  BY <1>2 DEF Init
<1>5. /\ hdr \in [Conns -> Header \cup {NoHeader}]
      /\ half \in [Conns -> Header \cup {NoHeader}]
  BY DEF Init
<1>6. /\ taken \in [Conns -> Nat] /\ sent \in [Conns -> Nat]
      /\ subs \in [Conns -> SUBSET (Nat \X Exprs)]
  BY DEF Init
<1>7. /\ rd \in [Conns -> {"preamble", "header", "payload"}]
      /\ peer \in [Conns -> {"idle", "open", "closed", "reset"}]
  BY DEF Init
<1>8. ready \subseteq Conns \cup {Listener} /\ backlog \subseteq Conns
  BY <1>3
<1>10. cur \in Conns \cup {NoConn}
  BY <1>3
<1>11. /\ i \in Nat \ {0} /\ n \in Nat
      /\ di \in Nat \ {0} /\ dn \in Nat
  BY <1>3
<1>12. found \in BOOLEAN /\ pc \in {"select", "accept", "clients", "dispatch", "forward",
                 "noroute", "noroutePayload", "clear", "aborted"}
  BY <1>3
<1>9. clients \in Seq(Conns)
  BY <1>2, <1>3, Zenon
<1> QED BY <1>1, <1>4, <1>5, <1>6, <1>7, <1>8, <1>9, <1>10, <1>11, <1>12 DEF TypeOK

\* What the messages of a peer put on its wire.
LEMMA SentHeaderType ==
  ASSUME TypeOK, NEW c \in Conns, NEW m \in Sends[c]
  PROVE  [from |-> c, seq |-> sent[c], msg |-> m] \in Header
<1>1. m \in Message
  BY SendsAssumption
<1>2. sent[c] \in Nat
  BY DEF TypeOK
<1> QED BY <1>1, <1>2 DEF Header

LEMMA ControlSubscribes ==
  ASSUME NEW c \in Conns, NEW m \in Sends[c], m.topic \in Control
  PROVE  <<m.id, m.exp>> \in Nat \X Exprs
<1>1. m \in Message
  BY SendsAssumption
<1> QED BY <1>1 DEF Message

\* A send() extends at most the wire of its client by the chunk.
LEMMA SendOKType ==
  ASSUME TypeOK, NEW c \in Conns, NEW chunk \in OutChunk, SendOK(c, chunk)
  PROVE  wire' \in [Conns -> Seq(OutChunk)]
<1>1. wire \in [Conns -> Seq(OutChunk)]
  BY DEF TypeOK
<1>2. CASE wire' = [wire EXCEPT ![c] = Append(@, chunk)]
  <2>1. Append(wire[c], chunk) \in Seq(OutChunk)
    BY <1>1, AppendProperties
  <2> QED BY <1>1, <1>2, <2>1
<1>3. CASE UNCHANGED wire
  BY <1>1, <1>3
<1> QED BY <1>2, <1>3 DEF SendOK

\* The chunks that the router puts on a wire.
LEMMA OutChunkTypes ==
  ASSUME TypeOK, NEW p \in {"header", "payload"}
  PROVE  /\ ErrorChunk(p) \in OutChunk
         /\ \A r \in Route : hdr[cur] \in Header => OutChunkFor(r, p) \in OutChunk
<1>1. ErrorChunk(p) \in OutChunk
  BY DEF ErrorChunk, OutChunk
<1>2. ASSUME NEW r \in Route, hdr[cur] \in Header
      PROVE  OutChunkFor(r, p) \in OutChunk
  BY <1>2 DEF OutChunkFor, OutChunk, Msg, Header, Message, Route
<1> QED BY <1>1, <1>2

LEMMA PeerStepType ==
  ASSUME TypeOK, NEW c \in Conns, PeerStep(c)
  PROVE  TypeOK'
<1>1. CASE PeerConnect(c)
  BY <1>1 DEF PeerConnect, TypeOK, routerVars
<1>2. CASE PeerSendHeader(c)
  <2> PICK m \in Sends[c] :
        LET h == [from |-> c, seq |-> sent[c], msg |-> m] IN
        /\ inb' = [inb EXCEPT ![c] = Append(@, [part |-> "header", hdr |-> h])]
        /\ half' = [half EXCEPT ![c] = IF m.empty THEN NoHeader ELSE h]
        /\ subs' = [subs EXCEPT ![c] =
                      IF m.topic \in Control THEN @ \cup {<<m.id, m.exp>>} ELSE @]
    BY <1>2 DEF PeerSendHeader
  <2> DEFINE h == [from |-> c, seq |-> sent[c], msg |-> m]
  <2>1. h \in Header
    BY SentHeaderType
  <2>2. Append(inb[c], [part |-> "header", hdr |-> h]) \in Seq(InChunk)
    <3>1. [part |-> "header", hdr |-> h] \in InChunk
      BY <2>1 DEF InChunk
    <3>2. inb[c] \in Seq(InChunk)
      BY DEF TypeOK
    <3> QED BY <3>1, <3>2, AppendProperties
  <2>3. m.topic \in Control => <<m.id, m.exp>> \in Nat \X Exprs
    BY ControlSubscribes
  <2>4. inb' \in [Conns -> Seq(InChunk)]
    BY <2>2 DEF TypeOK
  <2>5. half' \in [Conns -> Header \cup {NoHeader}]
    BY <2>1 DEF TypeOK
  <2>6. subs' \in [Conns -> SUBSET (Nat \X Exprs)]
    <3>1. subs[c] \cup {<<m.id, m.exp>>} \in SUBSET (Nat \X Exprs)
            \/ m.topic \notin Control
      BY <2>3 DEF TypeOK
    <3> QED BY <3>1 DEF TypeOK
  <2>7. sent' \in [Conns -> Nat] /\ UNCHANGED <<routerVars, peer, backlog, wire, taken>>
    BY <1>2 DEF PeerSendHeader, TypeOK
  <2> HIDE DEF h
  <2> QED BY <2>4, <2>5, <2>6, <2>7 DEF TypeOK, routerVars
<1>3. CASE PeerSendPayload(c)
  <2>1. [part |-> "payload", hdr |-> half[c]] \in InChunk
    BY <1>3 DEF PeerSendPayload, TypeOK, InChunk
  <2>2. inb[c] \in Seq(InChunk)
    BY DEF TypeOK
  <2>3. Append(inb[c], [part |-> "payload", hdr |-> half[c]]) \in Seq(InChunk)
    BY <2>1, <2>2, AppendProperties
  <2>4. inb' \in [Conns -> Seq(InChunk)]
    BY <1>3, <2>3 DEF PeerSendPayload, TypeOK
  <2>5. half' \in [Conns -> Header \cup {NoHeader}]
    BY <1>3 DEF PeerSendPayload, TypeOK
  <2> QED BY <1>3, <2>4, <2>5 DEF PeerSendPayload, TypeOK, routerVars
<1>4. CASE PeerRecv(c)
  BY <1>4 DEF PeerRecv, TypeOK, routerVars
<1>5. CASE PeerClose(c)
  BY <1>5 DEF PeerClose, TypeOK, routerVars
<1>6. CASE SocketReset(c)
  BY <1>6 DEF SocketReset, TypeOK, routerVars
<1> QED BY <1>1, <1>2, <1>3, <1>4, <1>5, <1>6 DEF PeerStep

-----------------------------------------------------------------------------
(* Where the thread is.  The type invariant is not inductive by itself: that  *)
(* routes[di] and clients[i] exist follows from what each place of the loops   *)
(* knows about their counters.                                                *)

ClientLoop ==
  pc \notin {"select", "accept"} => n = Len(clients)

DispatchLoop ==
  /\ pc = "clear" => cur \in Conns
  /\ Dispatching => /\ cur \in Conns /\ IsClient(cur)
                    /\ rd[cur] = "payload"
                    /\ di <= dn + 1 /\ dn <= Len(routes)
  /\ pc = "forward" => di <= dn /\ routes[di].handler = "ForwardMessage"

HeadersRead == \A c \in Conns : rd[c] = "payload" => hdr[c] \in Header

ForwardRoutesHaveClients ==
  \A k \in 1..Len(routes) :
    routes[k].handler = "ForwardMessage" => routes[k].client \in Conns

LoopInv ==
  /\ TypeOK
  /\ ClientLoop
  /\ DispatchLoop
  /\ HeadersRead
  /\ ForwardRoutesHaveClients

\* A matching route of the loop is an entry of the table.
LEMMA RouteAtHand ==
  ASSUME LoopInv, (pc = "dispatch" /\ di <= dn) \/ pc = "forward"
  PROVE  di \in 1..Len(routes) /\ routes[di] \in Route
<1>1. Dispatching /\ di <= dn
  BY DEF LoopInv, DispatchLoop, Dispatching
<1>2. Len(routes) \in Nat /\ routes \in Seq(Route) /\ di \in Nat \ {0} /\ dn \in Nat
  BY LenProperties DEF LoopInv, TypeOK
<1>3. di \in 1..Len(routes)
  BY <1>1, <1>2 DEF LoopInv, DispatchLoop
<1> QED BY <1>2, <1>3, ElementOfSeq

LEMMA LoopInit == Init => LoopInv
<1> SUFFICES ASSUME Init PROVE LoopInv
  OBVIOUS
<1>1. TypeOK
  BY TypeInit
<1>2. ClientLoop /\ DispatchLoop /\ HeadersRead
  BY DEF Init, ClientLoop, DispatchLoop, HeadersRead, Dispatching
<1>3. ForwardRoutesHaveClients
  <2>1. \A k \in 1..Len(routes) : routes[k].handler # "ForwardMessage"
    BY DEF Init, InitialRoutes, BuiltinRoute
  <2> QED BY <2>1 DEF ForwardRoutesHaveClients
<1> QED BY <1>1, <1>2, <1>3 DEF LoopInv

LEMMA PeerStepLoop ==
  ASSUME LoopInv, NEW c \in Conns, PeerStep(c)
  PROVE  LoopInv'
<1>1. TypeOK'
  BY PeerStepType DEF LoopInv
<1>2. UNCHANGED routerVars
  BY DEF PeerStep, PeerConnect, PeerSendHeader, PeerSendPayload, PeerRecv, PeerClose,
         SocketReset
<1> QED BY <1>1, <1>2 DEF LoopInv, ClientLoop, DispatchLoop, HeadersRead,
                          ForwardRoutesHaveClients, Dispatching, IsClient, routerVars

\* The steps of the client loop that leave the route table alone.
LEMMA ClientLoopStep ==
  ASSUME LoopInv,
         \/ Select \/ Accept \/ SkipClient \/ ClientsDone
         \/ \E c \in Conns : ReadClient(c)
  PROVE  LoopInv'
<1> USE DEF LoopInv
<1>0. /\ Len(clients) \in Nat /\ clients \in Seq(Conns)
      /\ \A k \in 1..Len(clients) : clients[k] \in Conns
  BY LenProperties, ElementOfSeq DEF TypeOK
<1>1. CASE Select
  <2>1. TypeOK'
    BY <1>1 DEF Select, TypeOK, peerVars
  <2> QED BY <2>1, <1>1 DEF Select, ClientLoop, DispatchLoop, HeadersRead,
                            ForwardRoutesHaveClients, Dispatching, IsClient
<1>2. CASE Accept
  <2>1. CASE Listener \in ready
    <3> PICK c \in backlog :
          /\ backlog' = backlog \ {c}
          /\ clients' = Append(clients, c)
          /\ rd' = [rd EXCEPT ![c] = "preamble"]
          /\ hdr' = [hdr EXCEPT ![c] = NoHeader]
      BY <1>2, <2>1 DEF Accept
    <3>1. c \in Conns
      BY DEF TypeOK
    <3>2. clients' \in Seq(Conns) /\ Len(clients') \in Nat
      BY <1>0, <3>1, AppendProperties, LenProperties
    <3>3. TypeOK'
      BY <1>2, <3>1, <3>2 DEF Accept, TypeOK
    <3>4. ClientLoop' /\ DispatchLoop'
      BY <1>2 DEF Accept, ClientLoop, DispatchLoop, Dispatching
    <3>5. HeadersRead'
      BY <3>1 DEF TypeOK, HeadersRead
    <3> QED BY <1>2, <3>3, <3>4, <3>5 DEF Accept, ForwardRoutesHaveClients
  <2>2. CASE Listener \notin ready
    <3>1. UNCHANGED <<backlog, clients, rd, hdr>>
      BY <1>2, <2>2 DEF Accept
    <3>2. TypeOK'
      BY <1>0, <1>2, <3>1 DEF Accept, TypeOK
    <3>3. ClientLoop' /\ DispatchLoop'
      BY <1>2 DEF Accept, ClientLoop, DispatchLoop, Dispatching
    <3> QED BY <1>2, <3>1, <3>2, <3>3 DEF Accept, HeadersRead, ForwardRoutesHaveClients
  <2> QED BY <2>1, <2>2
<1>3. CASE SkipClient
  <2>1. TypeOK'
    BY <1>3 DEF SkipClient, TypeOK, peerVars
  <2> QED BY <2>1, <1>3 DEF SkipClient, ClientLoop, DispatchLoop, HeadersRead,
                            ForwardRoutesHaveClients, Dispatching, IsClient
<1>4. CASE ClientsDone
  <2>1. TypeOK'
    BY <1>4 DEF ClientsDone, TypeOK, peerVars
  <2> QED BY <2>1, <1>4 DEF ClientsDone, ClientLoop, DispatchLoop, HeadersRead,
                            ForwardRoutesHaveClients, Dispatching, IsClient
<1>5. ASSUME NEW c \in Conns, ReadPreamble(c) PROVE LoopInv'
  <2>1. TypeOK'
    <3>1. rd' \in [Conns -> {"preamble", "header", "payload"}] /\ i' \in Nat \ {0}
      BY <1>5 DEF ReadPreamble, TypeOK
    <3>2. UNCHANGED <<pc, ready, clients, routes, hdr, cur, n, di, dn, found,
                      peer, backlog, inb, wire, taken, half, sent, subs>>
      BY <1>5 DEF ReadPreamble, peerVars
    <3> QED BY <3>1, <3>2 DEF TypeOK
  <2> QED BY <2>1, <1>5 DEF ReadPreamble, Reads, ClientLoop, DispatchLoop, HeadersRead,
                            ForwardRoutesHaveClients, Dispatching, IsClient, TypeOK
<1>6. ASSUME NEW c \in Conns, ReadHeader(c) PROVE LoopInv'
  <2>1. inb[c] \in Seq(InChunk) /\ inb[c] # <<>>
    BY <1>6 DEF ReadHeader, RecvFails, TypeOK
  <2>2. Head(inb[c]) \in InChunk /\ Tail(inb[c]) \in Seq(InChunk)
    BY <2>1, HeadTailProperties
  <2>3. Head(inb[c]).hdr \in Header
    BY <2>2 DEF InChunk
  <2>4. TypeOK'
    <3>1. hdr' \in [Conns -> Header \cup {NoHeader}]
      BY <1>6, <2>3 DEF ReadHeader, TypeOK
    <3>2. inb' \in [Conns -> Seq(InChunk)]
      BY <1>6, <2>2 DEF ReadHeader, TypeOK
    <3>3. rd' \in [Conns -> {"preamble", "header", "payload"}] /\ i' \in Nat \ {0}
      BY <1>6 DEF ReadHeader, TypeOK
    <3>4. UNCHANGED <<pc, ready, clients, routes, cur, n, di, dn, found,
                      peer, backlog, wire, taken, half, sent, subs>>
      BY <1>6 DEF ReadHeader
    <3> QED BY <3>1, <3>2, <3>3, <3>4 DEF TypeOK
  <2>5. HeadersRead'
    BY <1>6, <2>3 DEF ReadHeader, HeadersRead, TypeOK
  <2> QED BY <2>4, <2>5, <1>6 DEF ReadHeader, Reads, ClientLoop, DispatchLoop,
                                  ForwardRoutesHaveClients, Dispatching
<1>7. ASSUME NEW c \in Conns, ReadPayload(c) PROVE LoopInv'
  <2>1. inb[c] \in Seq(InChunk) /\ inb[c] # <<>>
    BY <1>7 DEF ReadPayload, RecvFails, TypeOK
  <2>2. Tail(inb[c]) \in Seq(InChunk)
    BY <2>1, HeadTailProperties
  <2>3. Len(routes) \in Nat
    BY LenProperties DEF TypeOK
  <2>4. TypeOK'
    <3>1. inb' \in [Conns -> Seq(InChunk)]
      BY <1>7, <2>2 DEF ReadPayload, TypeOK
    <3>2. cur' \in Conns \cup {NoConn} /\ di' \in Nat \ {0} /\ dn' \in Nat
      BY <1>7, <2>3 DEF ReadPayload
    <3>3. found' = FALSE /\ pc' = "dispatch"
      BY <1>7 DEF ReadPayload
    <3>4. UNCHANGED <<ready, clients, routes, rd, hdr, i, n,
                      peer, backlog, wire, taken, half, sent, subs>>
      BY <1>7 DEF ReadPayload
    <3> QED BY <3>1, <3>2, <3>3, <3>4 DEF TypeOK
  <2>5. IsClient(c)
    <3>1. i \in 1..Len(clients) /\ clients[i] = c
      BY <1>0, <1>7 DEF ReadPayload, Reads, ClientLoop, TypeOK
    <3> QED BY <3>1 DEF IsClient
  <2>6. DispatchLoop'
    BY <1>7, <2>3, <2>5 DEF ReadPayload, DispatchLoop, Dispatching, IsClient
  <2> QED BY <2>4, <2>6, <1>7 DEF ReadPayload, Reads, ClientLoop, HeadersRead,
                                  ForwardRoutesHaveClients
<1>8. ASSUME NEW c \in Conns, DropClient(c) PROVE LoopInv'
  <2>1. i \in 1..Len(clients) /\ n = Len(clients)
    BY <1>0, <1>8 DEF DropClient, Reads, ClientLoop, TypeOK
  <2>2. clients' \in Seq(Conns) /\ Len(clients') = Len(clients) - 1
    BY <1>0, <1>8, <2>1, RemoveAtProperties DEF DropClient
  <2>3. TypeOK'
    <3>1. n' \in Nat /\ cur' \in Conns \cup {NoConn} /\ di' \in Nat \ {0}
      BY <1>0, <1>8, <2>1 DEF DropClient, TypeOK
    <3>2. pc' = "clear" /\ UNCHANGED <<ready, routes, rd, hdr, i, dn, found, peerVars>>
      BY <1>8 DEF DropClient
    <3> QED BY <2>2, <3>1, <3>2 DEF TypeOK, peerVars
  <2>4. ClientLoop' /\ DispatchLoop'
    BY <1>8, <2>1, <2>2 DEF DropClient, ClientLoop, DispatchLoop, Dispatching
  <2> QED BY <2>3, <2>4, <1>8 DEF DropClient, HeadersRead, ForwardRoutesHaveClients
<1> QED BY <1>1, <1>2, <1>3, <1>4, <1>5, <1>6, <1>7, <1>8 DEF ReadClient

\* Destroying a client: the table shrinks entry by entry, then the slot is free.
LEMMA DestroyStep ==
  ASSUME LoopInv, ClearRoute \/ CloseClient
  PROVE  LoopInv'
<1> USE DEF LoopInv
<1>0. routes \in Seq(Route) /\ Len(routes) \in Nat /\ di \in Nat \ {0}
  BY LenProperties DEF TypeOK
<1>1. CASE ClearRoute
  <2>1. di \in 1..Len(routes)
    BY <1>0, <1>1 DEF ClearRoute
  <2>2. CASE routes[di].client = cur
    <3>1. routes' = RemoveAt(routes, di) /\ UNCHANGED di
      BY <1>1, <2>2 DEF ClearRoute
    <3>2. /\ routes' \in Seq(Route)
          /\ Len(routes') = Len(routes) - 1
          /\ \A j \in 1..Len(routes) - 1 :
               routes'[j] = IF j < di THEN routes[j] ELSE routes[j + 1]
      BY <1>0, <2>1, <3>1, RemoveAtProperties
    <3>3. TypeOK'
      BY <1>1, <3>1, <3>2 DEF ClearRoute, TypeOK, peerVars
    <3>4. ForwardRoutesHaveClients'
      BY <1>0, <2>1, <3>2 DEF ForwardRoutesHaveClients
    <3> QED BY <1>1, <3>3, <3>4 DEF ClearRoute, ClientLoop, DispatchLoop, HeadersRead,
                                    Dispatching
  <2>3. CASE routes[di].client # cur
    <3>1. di' = di + 1 /\ UNCHANGED routes
      BY <1>1, <2>3 DEF ClearRoute
    <3>2. di' \in Nat \ {0}
      BY <1>0, <3>1
    <3>3. TypeOK'
      BY <1>1, <3>1, <3>2 DEF ClearRoute, TypeOK, peerVars
    <3> QED BY <1>1, <3>1, <3>3 DEF ClearRoute, ClientLoop, DispatchLoop, HeadersRead,
                                    Dispatching, ForwardRoutesHaveClients
  <2> QED BY <2>2, <2>3
<1>2. CASE CloseClient
  <2>1. cur \in Conns
    BY <1>2 DEF CloseClient, DispatchLoop
  <2>2. /\ inb' \in [Conns -> Seq(InChunk)]
        /\ wire' \in [Conns -> Seq(OutChunk)]
    <3>1. <<>> \in Seq(InChunk) /\ <<>> \in Seq(OutChunk)
      BY EmptySeq
    <3> QED BY <1>2, <3>1 DEF CloseClient, TypeOK
  <2>3. /\ taken' \in [Conns -> Nat]
        /\ half' \in [Conns -> Header \cup {NoHeader}]
        /\ subs' \in [Conns -> SUBSET (Nat \X Exprs)]
        /\ peer' \in [Conns -> {"idle", "open", "closed", "reset"}]
    BY <1>2 DEF CloseClient, TypeOK
  <2>4. di' \in Nat \ {0} /\ cur' = NoConn /\ pc' = "clients"
        /\ UNCHANGED <<ready, clients, routes, rd, hdr, i, n, dn, found, backlog, sent>>
    BY <1>2 DEF CloseClient
  <2>5. TypeOK'
    BY <2>2, <2>3, <2>4 DEF TypeOK
  <2> QED BY <1>2, <2>4, <2>5 DEF CloseClient, ClientLoop, DispatchLoop, HeadersRead, Dispatching,
                       ForwardRoutesHaveClients
<1> QED BY <1>1, <1>2

\* The frame at hand has a decoded header, so its message is well typed.
LEMMA MessageAtHand ==
  ASSUME LoopInv, Dispatching
  PROVE  cur \in Conns /\ hdr[cur] \in Header /\ Msg \in Message
BY DEF LoopInv, DispatchLoop, HeadersRead, Dispatching, Msg, Header

\* A subscriber's message names an expression, so what it adds is a route.
LEMMA NewRouteType ==
  ASSUME LoopInv, Dispatching, Msg.topic \in Control
  PROVE  NewRoute \in Route
BY MessageAtHand DEF NewRoute, Route, Message

\* The end of a dispatch makes the client ready for its next frame.
LEMMA FinishFrameLoop ==
  ASSUME LoopInv, Dispatching, FinishFrame,
         wire' \in [Conns -> Seq(OutChunk)],
         UNCHANGED <<ready, clients, routes, n, peer, backlog, inb, taken, half, sent, subs>>
  PROVE  LoopInv'
<1> USE DEF LoopInv
<1>1. i' \in Nat \ {0} /\ di' \in Nat \ {0} /\ dn' \in Nat
  BY DEF FinishFrame, TypeOK
<1>2. /\ rd' \in [Conns -> {"preamble", "header", "payload"}]
      /\ hdr' \in [Conns -> Header \cup {NoHeader}]
  BY DEF FinishFrame, TypeOK
<1>3. found' = FALSE /\ cur' = NoConn /\ pc' = "clients"
  BY DEF FinishFrame
<1>4. TypeOK'
  BY <1>1, <1>2, <1>3 DEF TypeOK
<1>5. ClientLoop' /\ DispatchLoop'
  BY <1>3 DEF ClientLoop, DispatchLoop, Dispatching
<1>6. HeadersRead'
  BY MessageAtHand DEF FinishFrame, HeadersRead, TypeOK
<1> QED BY <1>4, <1>5, <1>6 DEF ForwardRoutesHaveClients

LEMMA DispatchStep ==
  ASSUME LoopInv, Dispatch
  PROVE  LoopInv'
<1> USE DEF LoopInv
<1>0. /\ routes \in Seq(Route) /\ Len(routes) \in Nat
      /\ di \in Nat \ {0} /\ dn \in Nat /\ di + 1 \in Nat \ {0}
  BY LenProperties DEF TypeOK
<1>1. CASE DispatchSkip
  <2>1. TypeOK'
    BY <1>0, <1>1 DEF DispatchSkip, TypeOK, peerVars
  <2> QED BY <1>0, <1>1, <2>1 DEF DispatchSkip, ClientLoop, DispatchLoop, HeadersRead,
                       ForwardRoutesHaveClients, Dispatching, IsClient
<1>2. CASE DispatchLocal
  <2>1. /\ routes' \in Seq(Route) /\ Len(routes') \in Nat /\ Len(routes') >= Len(routes)
        /\ ForwardRoutesHaveClients'
    <3>1. CASE routes' = routes
      BY <1>0, <3>1 DEF ForwardRoutesHaveClients
    <3>2. CASE routes' = Append(routes, NewRoute) /\ Msg.topic \in Control
      <4>1. Dispatching
        BY <1>2 DEF DispatchLocal, Dispatching
      <4>2. NewRoute \in Route /\ NewRoute.client \in Conns
        BY <3>2, <4>1, NewRouteType, MessageAtHand DEF NewRoute
      <4>3. /\ routes' \in Seq(Route) /\ Len(routes') = Len(routes) + 1
            /\ \A k \in 1..Len(routes) : routes'[k] = routes[k]
            /\ routes'[Len(routes) + 1] = NewRoute
        BY <1>0, <3>2, <4>2, AppendProperties
      <4>4. ASSUME NEW k \in 1..Len(routes'), routes'[k].handler = "ForwardMessage"
            PROVE  routes'[k].client \in Conns
        <5>1. CASE k \in 1..Len(routes)
          BY <4>3, <4>4, <5>1 DEF ForwardRoutesHaveClients
        <5>2. CASE k = Len(routes) + 1
          BY <4>2, <4>3, <5>2
        <5> QED BY <1>0, <4>3, <5>1, <5>2
      <4> QED BY <1>0, <4>3, <4>4 DEF ForwardRoutesHaveClients
    <3> QED BY <1>2, <3>1, <3>2 DEF DispatchLocal
  <2>2. di' = di + 1 /\ found' = TRUE
        /\ UNCHANGED <<pc, ready, clients, rd, hdr, cur, i, n, dn, peerVars>>
    BY <1>2 DEF DispatchLocal
  <2>3. TypeOK'
    BY <1>0, <2>1, <2>2 DEF TypeOK, peerVars
  <2>4. DispatchLoop'
    BY <1>0, <1>2, <2>1, <2>2 DEF DispatchLocal, DispatchLoop, Dispatching, IsClient
  <2> QED BY <2>1, <2>2, <2>3, <2>4 DEF ClientLoop, HeadersRead
<1>3. CASE ForwardHeader
  <2>1. di \in 1..Len(routes) /\ routes[di] \in Route /\ Dispatching
    BY <1>3, RouteAtHand DEF ForwardHeader, Forwards, Dispatching
  <2>2. routes[di].client \in Conns
    BY <1>3, <2>1 DEF ForwardHeader, Forwards, ForwardRoutesHaveClients
  <2>3. wire' \in [Conns -> Seq(OutChunk)]
    BY <1>3, <2>1, <2>2, MessageAtHand, OutChunkTypes, SendOKType DEF ForwardHeader
  <2>4. found' = TRUE /\ pc' = "forward"
        /\ UNCHANGED <<ready, clients, routes, rd, hdr, cur, i, n, di, dn,
                       peer, backlog, inb, taken, half, sent, subs>>
    BY <1>3 DEF ForwardHeader
  <2>5. TypeOK'
    BY <2>3, <2>4 DEF TypeOK
  <2>6. DispatchLoop'
    BY <1>3, <2>4 DEF ForwardHeader, Forwards, DispatchLoop, Dispatching, IsClient
  <2> QED BY <1>3, <2>4, <2>5, <2>6 DEF ForwardHeader, Forwards, ClientLoop, HeadersRead,
                                        ForwardRoutesHaveClients
<1>4. CASE ForwardPayload
  <2>1. di \in 1..Len(routes) /\ routes[di] \in Route /\ Dispatching
    BY <1>4, RouteAtHand DEF ForwardPayload, Dispatching
  <2>2. routes[di].client \in Conns
    BY <1>4, <2>1 DEF ForwardPayload, DispatchLoop, ForwardRoutesHaveClients
  <2>3. wire' \in [Conns -> Seq(OutChunk)]
    BY <1>4, <2>1, <2>2, MessageAtHand, OutChunkTypes, SendOKType DEF ForwardPayload
  <2>4. di' = di + 1 /\ pc' = "dispatch"
        /\ UNCHANGED <<ready, clients, routes, rd, hdr, cur, i, n, dn, found,
                       peer, backlog, inb, taken, half, sent, subs>>
    BY <1>4 DEF ForwardPayload
  <2>5. TypeOK'
    BY <1>0, <2>3, <2>4 DEF TypeOK
  <2>6. DispatchLoop'
    BY <1>0, <1>4, <2>4 DEF ForwardPayload, DispatchLoop, Dispatching, IsClient
  <2> QED BY <1>4, <2>4, <2>5, <2>6 DEF ForwardPayload, ClientLoop, HeadersRead,
                                        ForwardRoutesHaveClients
<1>5. CASE ForwardFails
  <2>1. found' = TRUE /\ pc' = "dispatch" /\ pc \in {"dispatch", "forward"}
        /\ UNCHANGED <<ready, clients, routes, rd, hdr, cur, i, n, di, dn, peerVars>>
    BY <1>5 DEF ForwardFails, Forwards
  <2>2. TypeOK'
    BY <2>1 DEF TypeOK, peerVars
  <2>3. DispatchLoop'
    BY <2>1 DEF DispatchLoop, Dispatching, IsClient
  <2> QED BY <2>1, <2>2, <2>3 DEF ClientLoop, HeadersRead, ForwardRoutesHaveClients
<1>6. CASE DispatchDone
  <2>1. Dispatching /\ pc = "dispatch"
        /\ UNCHANGED <<ready, clients, routes, n, peerVars>>
    BY <1>6 DEF DispatchDone, Dispatching
  <2>2. CASE FinishFrame
    <3>1. wire' \in [Conns -> Seq(OutChunk)]
      BY <2>1 DEF TypeOK, peerVars
    <3> QED BY <2>1, <2>2, <3>1, FinishFrameLoop DEF peerVars
  <2>3. CASE pc' = "noroute" /\ UNCHANGED <<rd, hdr, cur, i, di, dn, found>>
    <3>1. TypeOK'
      BY <2>1, <2>3 DEF TypeOK, peerVars
    <3> QED BY <2>1, <2>3, <3>1 DEF ClientLoop, DispatchLoop, HeadersRead,
                                    ForwardRoutesHaveClients, Dispatching, IsClient
  <2> QED BY <1>6, <2>2, <2>3 DEF DispatchDone
<1>7. CASE NoRouteHeader
  <2>1. Dispatching /\ cur \in Conns
    BY <1>7, MessageAtHand DEF NoRouteHeader, Dispatching
  <2>2. wire' \in [Conns -> Seq(OutChunk)]
    BY <1>7, <2>1, OutChunkTypes, SendOKType DEF NoRouteHeader
  <2>3. pc = "noroute" /\ pc' = "noroutePayload"
        /\ UNCHANGED <<ready, clients, routes, rd, hdr, cur, i, n, di, dn, found,
                       peer, backlog, inb, taken, half, sent, subs>>
    BY <1>7 DEF NoRouteHeader
  <2>4. TypeOK'
    BY <2>2, <2>3 DEF TypeOK
  <2> QED BY <2>3, <2>4 DEF ClientLoop, DispatchLoop, HeadersRead,
                            ForwardRoutesHaveClients, Dispatching, IsClient
<1>8. CASE NoRoutePayload
  <2>1. Dispatching /\ cur \in Conns
    BY <1>8, MessageAtHand DEF NoRoutePayload, Dispatching
  <2>2. wire' \in [Conns -> Seq(OutChunk)]
    BY <1>8, <2>1, OutChunkTypes, SendOKType DEF NoRoutePayload
  <2> QED BY <1>8, <2>1, <2>2, FinishFrameLoop DEF NoRoutePayload
<1>9. CASE NoRouteAborts
  <2>1. Dispatching /\ pc' = "aborted"
        /\ UNCHANGED <<ready, clients, routes, rd, hdr, cur, i, n, di, dn, found, peerVars>>
    BY <1>9 DEF NoRouteAborts, Dispatching
  <2>2. TypeOK'
    BY <2>1 DEF TypeOK, peerVars
  <2> QED BY <1>9, <2>1, <2>2 DEF NoRouteAborts, ClientLoop, DispatchLoop, HeadersRead,
                            ForwardRoutesHaveClients, Dispatching, IsClient
<1> QED BY <1>1, <1>2, <1>3, <1>4, <1>5, <1>6, <1>7, <1>8, <1>9 DEF Dispatch

\* Every step of the specification keeps the loops and the types right.
LEMMA LoopStep == LoopInv /\ [Next]_vars => LoopInv'
<1> SUFFICES ASSUME LoopInv, [Next]_vars PROVE LoopInv'
  OBVIOUS
<1>1. CASE RouterStep
  BY <1>1, ClientLoopStep, DestroyStep, DispatchStep DEF RouterStep
<1>2. CASE \E c \in Conns : PeerStep(c)
  BY <1>2, PeerStepLoop
<1>3. CASE UNCHANGED vars
  BY <1>3 DEF vars, LoopInv, TypeOK, ClientLoop, DispatchLoop, HeadersRead,
              ForwardRoutesHaveClients, Dispatching, IsClient
<1> QED BY <1>1, <1>2, <1>3 DEF Next

\* The router's tables, counters and wires keep their types, and its loops never
\* leave their vectors, whatever the peers do.
THEOREM LoopInvariant == Spec => []LoopInv
BY LoopInit, LoopStep, PTL DEF Spec

\* Type correctness of the router for any number of clients and messages.
THEOREM TypeCorrect == Spec => []TypeOK
<1>1. LoopInv => TypeOK
  BY DEF LoopInv
<1> QED BY <1>1, LoopInvariant, PTL

-----------------------------------------------------------------------------
(* No route leads to a client that is gone.                                   *)

\* Vectors of the loops, as every step lemma below needs them.
LEMMA VectorTypes ==
  ASSUME LoopInv
  PROVE  /\ clients \in Seq(Conns) /\ Len(clients) \in Nat
         /\ routes \in Seq(Route) /\ Len(routes) \in Nat
         /\ \A k \in 1..Len(clients) : clients[k] \in Conns
         /\ \A k \in 1..Len(routes) : routes[k] \in Route
BY LenProperties, ElementOfSeq DEF LoopInv, TypeOK

\* A client about to be read is the i-th of the vector.
LEMMA ClientRead ==
  ASSUME LoopInv, NEW c \in Conns, Reads(c)
  PROVE  i \in 1..Len(clients) /\ clients[i] = c /\ IsClient(c) /\ pc = "clients"
<1>1. i \in 1..Len(clients) /\ clients[i] = c /\ pc = "clients"
  BY VectorTypes DEF LoopInv, ClientLoop, TypeOK, Reads
<1> QED BY <1>1 DEF IsClient

\* Accepting appends at most one client, taken from the backlog.
LEMMA AcceptClients ==
  ASSUME LoopInv, Accept
  PROVE  \/ UNCHANGED <<clients, backlog, rd, hdr>>
         \/ \E b \in backlog :
              /\ b \in Conns
              /\ backlog' = backlog \ {b}
              /\ rd' = [rd EXCEPT ![b] = "preamble"]
              /\ Len(clients') = Len(clients) + 1
              /\ \A k \in 1..Len(clients) : clients'[k] = clients[k]
              /\ clients'[Len(clients) + 1] = b
<1>1. CASE Listener \in ready
  <2> PICK b \in backlog : /\ backlog' = backlog \ {b}
                           /\ clients' = Append(clients, b)
                           /\ rd' = [rd EXCEPT ![b] = "preamble"]
    BY <1>1 DEF Accept
  <2>1. b \in Conns
    BY DEF LoopInv, TypeOK
  <2>2. /\ Len(clients') = Len(clients) + 1
        /\ \A k \in 1..Len(clients) : clients'[k] = clients[k]
        /\ clients'[Len(clients) + 1] = b
    BY <2>1, VectorTypes, AppendProperties
  <2> QED BY <2>1, <2>2
<1>2. CASE Listener \notin ready
  BY <1>2 DEF Accept
<1> QED BY <1>1, <1>2

\* Dropping removes the i-th client and no other.
LEMMA DropClients ==
  ASSUME LoopInv, NEW c \in Conns, DropClient(c)
  PROVE  /\ i \in 1..Len(clients) /\ clients[i] = c /\ IsClient(c)
         /\ pc = "clients" /\ pc' = "clear" /\ cur' = c /\ di' = 1
         /\ UNCHANGED <<ready, routes, rd, hdr, i, dn, found, peerVars>>
         /\ n = Len(clients) /\ n' = n - 1 /\ Len(clients') = Len(clients) - 1
         /\ \A j \in 1..Len(clients) - 1 :
              clients'[j] = IF j < i THEN clients[j] ELSE clients[j + 1]
<1>1. Reads(c)
  BY DEF DropClient
<1>2. i \in 1..Len(clients) /\ clients[i] = c /\ IsClient(c) /\ pc = "clients"
  BY <1>1, ClientRead
<1>3. n = Len(clients)
  BY <1>2 DEF LoopInv, ClientLoop
<1>4. clients' = RemoveAt(clients, i) /\ n' = n - 1 /\ pc' = "clear" /\ cur' = c /\ di' = 1
      /\ UNCHANGED <<ready, routes, rd, hdr, i, dn, found, peerVars>>
  BY DEF DropClient
<1>5. /\ Len(clients') = Len(clients) - 1
      /\ \A j \in 1..Len(clients) - 1 :
           clients'[j] = IF j < i THEN clients[j] ELSE clients[j + 1]
  BY <1>2, <1>4, VectorTypes, RemoveAtProperties
<1> QED BY <1>2, <1>3, <1>4, <1>5

\* Clearing removes the entry at di, or passes it.
LEMMA ClearRoutes ==
  ASSUME LoopInv, ClearRoute
  PROVE  /\ di \in 1..Len(routes) /\ pc = "clear"
         /\ UNCHANGED <<pc, ready, clients, rd, hdr, cur, i, n, dn, found, peerVars>>
         /\ \/ /\ routes[di].client = cur /\ di' = di
               /\ Len(routes') = Len(routes) - 1
               /\ \A j \in 1..Len(routes) - 1 :
                    routes'[j] = IF j < di THEN routes[j] ELSE routes[j + 1]
            \/ routes[di].client # cur /\ di' = di + 1 /\ routes' = routes
<1>1. di \in 1..Len(routes) /\ pc = "clear"
  BY VectorTypes DEF ClearRoute, LoopInv, TypeOK
<1>2. UNCHANGED <<pc, ready, clients, rd, hdr, cur, i, n, dn, found, peerVars>>
  BY DEF ClearRoute
<1>3. CASE routes[di].client = cur
  <2>1. routes' = RemoveAt(routes, di) /\ di' = di
    BY <1>3 DEF ClearRoute
  <2>2. /\ Len(routes') = Len(routes) - 1
        /\ \A j \in 1..Len(routes) - 1 :
             routes'[j] = IF j < di THEN routes[j] ELSE routes[j + 1]
    BY <1>1, <2>1, VectorTypes, RemoveAtProperties
  <2> QED BY <1>1, <1>2, <1>3, <2>1, <2>2
<1>4. CASE routes[di].client # cur
  BY <1>1, <1>2, <1>4 DEF ClearRoute
<1> QED BY <1>3, <1>4

\* A local handler appends at most the route that the message at hand asks for.
LEMMA LocalRoutes ==
  ASSUME LoopInv, DispatchLocal
  PROVE  /\ pc = "dispatch" /\ di \in 1..Len(routes) /\ IsMatch(routes[di]) /\ di <= dn
         /\ cur \in Conns /\ IsClient(cur) /\ rd[cur] = "payload"
         /\ found' /\ di' = di + 1
         /\ UNCHANGED <<pc, ready, clients, rd, hdr, cur, i, n, dn, peerVars>>
         /\ \/ routes' = routes
            \/ /\ Msg.topic \in Control
               /\ Len(routes') = Len(routes) + 1
               /\ \A k \in 1..Len(routes) : routes'[k] = routes[k]
               /\ routes'[Len(routes) + 1] = NewRoute
<1>1. /\ pc = "dispatch" /\ IsMatch(routes[di]) /\ di <= dn
      /\ found' /\ di' = di + 1
      /\ UNCHANGED <<pc, ready, clients, rd, hdr, cur, i, n, dn, peerVars>>
  BY DEF DispatchLocal
<1>2. Dispatching /\ di \in 1..Len(routes)
  BY <1>1, RouteAtHand DEF Dispatching
<1>3. cur \in Conns /\ IsClient(cur) /\ rd[cur] = "payload"
  BY <1>2 DEF LoopInv, DispatchLoop
<1>4. CASE routes' = Append(routes, NewRoute) /\ Msg.topic \in Control
  BY <1>1, <1>2, <1>3, <1>4, NewRouteType, VectorTypes, AppendProperties
<1>5. CASE routes' = routes
  BY <1>1, <1>2, <1>3, <1>5
<1> QED BY <1>4, <1>5 DEF DispatchLocal

LEMMA NoDanglingStep ==
  ASSUME LoopInv, NoDanglingRoute, [Next]_vars
  PROVE  NoDanglingRoute'
<1>1. ASSUME UNCHANGED <<clients, routes>>, pc # "clear", pc' # "clear"
      PROVE  NoDanglingRoute'
  BY <1>1 DEF NoDanglingRoute, IsClient
<1>2. CASE Accept
  <2>1. UNCHANGED routes /\ pc = "accept" /\ pc' = "clients"
    BY <1>2 DEF Accept
  <2>2. ASSUME NEW x \in Conns, IsClient(x) PROVE \E j \in 1..Len(clients') : clients'[j] = x
    <3>1. PICK j \in 1..Len(clients) : clients[j] = x
      BY <2>2 DEF IsClient
    <3>2. j \in 1..Len(clients') /\ clients'[j] = clients[j]
      BY <1>2, AcceptClients, VectorTypes
    <3> QED BY <3>1, <3>2
  <2>3. ASSUME NEW k \in 1..Len(routes), routes[k].client # NoConn
        PROVE  \E j \in 1..Len(clients') : clients'[j] = routes[k].client
    <3>1. routes[k].client \in Conns
      BY <2>3, VectorTypes DEF Route
    <3>2. IsClient(routes[k].client)
      BY <2>1, <2>3 DEF NoDanglingRoute
    <3> QED BY <2>2, <3>1, <3>2
  <2> QED BY <2>1, <2>3 DEF NoDanglingRoute, IsClient
<1>3. ASSUME NEW c \in Conns, DropClient(c) PROVE NoDanglingRoute'
  <2>0. /\ i \in 1..Len(clients) /\ clients[i] = c /\ Len(clients) \in Nat
        /\ Len(clients') = Len(clients) - 1
        /\ \A j \in 1..Len(clients) - 1 :
             clients'[j] = IF j < i THEN clients[j] ELSE clients[j + 1]
    BY <1>3, DropClients, VectorTypes
  <2>1. ASSUME NEW x \in Conns, IsClient(x), x # c
        PROVE  \E j \in 1..Len(clients') : clients'[j] = x
    <3>1. PICK j \in 1..Len(clients) : clients[j] = x
      BY <2>1 DEF IsClient
    <3>2. CASE j < i
      BY <2>0, <3>1, <3>2
    <3>3. CASE j > i
      <4>1. j - 1 \in 1..Len(clients) - 1 /\ clients'[j - 1] = clients[j]
        BY <2>0, <3>3
      <4> QED BY <2>0, <3>1, <4>1
    <3> QED BY <2>0, <2>1, <3>1, <3>2, <3>3
  <2>2. ASSUME NEW k \in 1..Len(routes), routes[k].client # NoConn, routes[k].client # c
        PROVE  \E j \in 1..Len(clients') : clients'[j] = routes[k].client
    <3>1. routes[k].client \in Conns
      BY <2>2, VectorTypes DEF Route
    <3>2. IsClient(routes[k].client)
      BY <1>3, <2>2, DropClients DEF NoDanglingRoute
    <3> QED BY <2>1, <2>2, <3>1, <3>2
  <2>3. pc' = "clear" /\ cur' = c /\ di' = 1 /\ routes' = routes
    BY <1>3, DropClients
  <2> QED BY <2>2, <2>3, VectorTypes DEF NoDanglingRoute, IsClient
<1>4. CASE ClearRoute
  <2>1. /\ di \in 1..Len(routes) /\ pc = "clear" /\ pc' = "clear" /\ cur' = cur
        /\ clients' = clients
    BY <1>4, ClearRoutes
  <2>2. CASE routes[di].client = cur
    <3>1. /\ di' = di /\ Len(routes') = Len(routes) - 1
          /\ \A j \in 1..Len(routes) - 1 :
               routes'[j] = IF j < di THEN routes[j] ELSE routes[j + 1]
      BY <1>4, <2>2, ClearRoutes
    <3>2. ASSUME NEW k \in 1..Len(routes'), routes'[k].client # NoConn
          PROVE  \/ IsClient(routes'[k].client)
                 \/ routes'[k].client = cur /\ k >= di
      <4>1. CASE k < di
        BY <2>1, <3>1, <3>2, <4>1, VectorTypes DEF NoDanglingRoute
      <4>2. CASE k >= di
        BY <2>1, <3>1, <3>2, <4>2, VectorTypes DEF NoDanglingRoute
      <4> QED BY <2>1, <3>1, <4>1, <4>2, VectorTypes
    <3> QED BY <2>1, <3>1, <3>2 DEF NoDanglingRoute, IsClient
  <2>3. CASE routes[di].client # cur
    <3>1. di' = di + 1 /\ routes' = routes
      BY <1>4, <2>3, ClearRoutes
    <3> QED BY <2>1, <2>3, <3>1, VectorTypes DEF NoDanglingRoute, IsClient
  <2> QED BY <2>2, <2>3
<1>5. CASE CloseClient
  <2>1. pc = "clear" /\ pc' = "clients" /\ di > Len(routes) /\ UNCHANGED <<clients, routes>>
    BY <1>5 DEF CloseClient
  <2>2. di \in Nat /\ Len(routes) \in Nat
    BY VectorTypes DEF LoopInv, TypeOK
  <2> QED BY <2>1, <2>2 DEF NoDanglingRoute, IsClient
<1>6. CASE DispatchLocal
  <2>1. /\ pc = "dispatch" /\ pc' = "dispatch" /\ clients' = clients
        /\ IsClient(cur)
    BY <1>6, LocalRoutes
  <2>2. CASE routes' = routes
    BY <2>1, <2>2, <1>1
  <2>3. CASE /\ Len(routes') = Len(routes) + 1
             /\ \A k \in 1..Len(routes) : routes'[k] = routes[k]
             /\ routes'[Len(routes) + 1] = NewRoute
    <3>1. ASSUME NEW k \in 1..Len(routes'), routes'[k].client # NoConn
          PROVE  IsClient(routes'[k].client)
      <4>1. CASE k \in 1..Len(routes)
        BY <2>1, <2>3, <3>1, <4>1 DEF NoDanglingRoute
      <4>2. CASE k = Len(routes) + 1
        BY <2>1, <2>3, <4>2 DEF NewRoute
      <4> QED BY <2>3, <4>1, <4>2, VectorTypes
    <3> QED BY <2>1, <3>1 DEF NoDanglingRoute, IsClient
  <2> QED BY <1>6, <2>2, <2>3, LocalRoutes
<1>7. ASSUME Select \/ SkipClient \/ ClientsDone
             \/ \E c \in Conns : ReadPreamble(c) \/ ReadHeader(c) \/ ReadPayload(c)
      PROVE  NoDanglingRoute'
  BY <1>1, <1>7 DEF Select, SkipClient, ClientsDone, ReadPreamble, ReadHeader, ReadPayload, Reads
<1>8. ASSUME \/ DispatchSkip \/ ForwardHeader \/ ForwardPayload \/ ForwardFails
             \/ DispatchDone \/ NoRouteHeader \/ NoRoutePayload \/ NoRouteAborts
      PROVE  NoDanglingRoute'
  BY <1>1, <1>8 DEF DispatchSkip, ForwardHeader, ForwardPayload, ForwardFails, Forwards,
       DispatchDone, NoRouteHeader, NoRoutePayload, NoRouteAborts, FinishFrame
<1>9. ASSUME NEW c \in Conns, PeerStep(c) PROVE NoDanglingRoute'
  <2>1. UNCHANGED routerVars
    BY <1>9 DEF PeerStep, PeerConnect, PeerSendHeader, PeerSendPayload, PeerRecv, PeerClose,
           SocketReset
  <2> QED BY <2>1 DEF NoDanglingRoute, IsClient, routerVars
<1>10. CASE UNCHANGED vars
  BY <1>10 DEF vars, NoDanglingRoute, IsClient
<1> QED BY <1>2, <1>3, <1>4, <1>5, <1>6, <1>7, <1>8, <1>9, <1>10
       DEF Next, RouterStep, ReadClient, Dispatch

\* No send() of the router meets a freed client or a closed fd, and the slot of
\* a closed client comes back without routes: for any number of clients, routes
\* and deaths.
THEOREM NoDanglingRouteInvariant == Spec => []NoDanglingRoute
<1>1. Init => NoDanglingRoute
  BY InitialRoutesType DEF Init, NoDanglingRoute
<1>2. LoopInv /\ NoDanglingRoute /\ [Next]_vars => NoDanglingRoute'
  BY NoDanglingStep
<1> QED BY <1>1, <1>2, LoopInvariant, PTL DEF Spec

-----------------------------------------------------------------------------
(* What the client loop of the router reads: it never waits in recv(), and  *)
(* it never takes one part of a frame for another.  That a client which       *)
(* read_fds names is still readable when the loop comes to it rests on two    *)
(* facts: only the router takes bytes from a socket, and no slot is in use    *)
(* twice, so that what it takes from one client, or closes, is never another  *)
(* client of the loop.                                                       *)

SlotsApart ==
  /\ \A j, k \in 1..Len(clients) : clients[j] = clients[k] => j = k
  /\ \A k \in 1..Len(clients) : peer[clients[k]] # "idle" /\ clients[k] \notin backlog
  /\ \A b \in backlog : peer[b] # "idle"
  /\ pc = "clear" => /\ \A k \in 1..Len(clients) : clients[k] # cur
                     /\ cur \notin backlog /\ peer[cur] # "idle"

\* The first client that the loop has not yet begun to read.
NextClient == IF Dispatching THEN i + 1 ELSE i

ReadyReadable ==
  /\ pc = "accept" =>
       \A c \in ready \ {Listener} :
         Readable(c) /\ \E k \in 1..Len(clients) : clients[k] = c
  /\ pc \notin {"select", "accept"} =>
       \A k \in NextClient..n : clients[k] \in ready => Readable(clients[k])

-----------------------------------------------------------------------------
\* What the peers do to the sockets: they add bytes and close, they never take
\* bytes back, and only a new connection enters the backlog.
LEMMA PeerSockets ==
  ASSUME LoopInv, NEW c \in Conns, PeerStep(c)
  PROVE  /\ UNCHANGED routerVars
         /\ \A x \in Conns : Readable(x) => Readable(x)'
         /\ \A x \in Conns : peer[x] # "idle" => peer'[x] # "idle"
         /\ \/ backlog' = backlog
            \/ backlog' = backlog \cup {c} /\ peer[c] = "idle" /\ peer'[c] # "idle"
<1>0. /\ inb \in [Conns -> Seq(InChunk)]
      /\ peer \in [Conns -> {"idle", "open", "closed", "reset"}]
      /\ inb[c] \in Seq(InChunk)
  BY DEF LoopInv, TypeOK
<1>1. ASSUME inb' = inb, peer' = peer, backlog' = backlog, UNCHANGED routerVars
      PROVE  /\ UNCHANGED routerVars
             /\ \A x \in Conns : Readable(x) => Readable(x)'
             /\ \A x \in Conns : peer[x] # "idle" => peer'[x] # "idle"
             /\ backlog' = backlog
  BY <1>1 DEF Readable
<1>2. ASSUME NEW s, inb' = [inb EXCEPT ![c] = s], s # <<>>, peer' = peer,
             backlog' = backlog, UNCHANGED routerVars
      PROVE  /\ UNCHANGED routerVars
             /\ \A x \in Conns : Readable(x) => Readable(x)'
             /\ \A x \in Conns : peer[x] # "idle" => peer'[x] # "idle"
             /\ backlog' = backlog
  BY <1>0, <1>2 DEF Readable
<1>3. CASE PeerConnect(c)
  BY <1>0, <1>3 DEF PeerConnect, Readable
<1>4. CASE PeerSendHeader(c)
  <2>1. PICK m \in Sends[c] :
          inb' = [inb EXCEPT ![c] =
                    Append(@, [part |-> "header",
                               hdr |-> [from |-> c, seq |-> sent[c], msg |-> m]])]
    BY <1>4 DEF PeerSendHeader
  <2>2. [part |-> "header", hdr |-> [from |-> c, seq |-> sent[c], msg |-> m]] \in InChunk
    BY SentHeaderType DEF LoopInv, InChunk
  <2>3. Append(inb[c], [part |-> "header",
                        hdr |-> [from |-> c, seq |-> sent[c], msg |-> m]]) # <<>>
    BY <1>0, <2>2, AppendProperties
  <2>4. peer' = peer /\ backlog' = backlog /\ UNCHANGED routerVars
    BY <1>4 DEF PeerSendHeader
  <2> QED BY <1>0, <1>2, <2>1, <2>3, <2>4
<1>5. CASE PeerSendPayload(c)
  <2>1. [part |-> "payload", hdr |-> half[c]] \in InChunk
    BY <1>5 DEF PeerSendPayload, LoopInv, TypeOK, InChunk
  <2>2. Append(inb[c], [part |-> "payload", hdr |-> half[c]]) # <<>>
    BY <1>0, <2>1, AppendProperties
  <2> QED BY <1>0, <1>2, <1>5, <2>2 DEF PeerSendPayload
<1>6. CASE PeerRecv(c)
  BY <1>1, <1>6 DEF PeerRecv
<1>7. CASE PeerClose(c)
  BY <1>0, <1>7 DEF PeerClose, Readable, Alive
<1>8. CASE SocketReset(c)
  BY <1>0, <1>8 DEF SocketReset, Readable
<1> QED BY <1>3, <1>4, <1>5, <1>6, <1>7, <1>8 DEF PeerStep

\* A dispatch step touches neither the client vector nor what there is to read.
LEMMA DispatchSockets ==
  ASSUME LoopInv, Dispatch
  PROVE  /\ Dispatching
         /\ UNCHANGED <<ready, clients, n, peer, backlog, inb>>
         /\ \/ Dispatching' /\ i' = i
            \/ pc' = "clients" /\ i' = i + 1
<1>1. CASE DispatchSkip
  BY <1>1 DEF DispatchSkip, Dispatching, peerVars
<1>2. CASE DispatchLocal
  BY <1>2 DEF DispatchLocal, Dispatching, peerVars
<1>3. CASE ForwardHeader
  BY <1>3 DEF ForwardHeader, Forwards, Dispatching
<1>4. CASE ForwardPayload
  BY <1>4 DEF ForwardPayload, Dispatching
<1>5. CASE ForwardFails
  BY <1>5 DEF ForwardFails, Forwards, Dispatching, peerVars
<1>6. CASE DispatchDone
  BY <1>6 DEF DispatchDone, FinishFrame, Dispatching, peerVars
<1>7. CASE NoRouteHeader
  BY <1>7 DEF NoRouteHeader, Dispatching
<1>8. CASE NoRoutePayload
  BY <1>8 DEF NoRoutePayload, FinishFrame, Dispatching
<1>9. CASE NoRouteAborts
  BY <1>9 DEF NoRouteAborts, Dispatching, peerVars
<1> QED BY <1>1, <1>2, <1>3, <1>4, <1>5, <1>6, <1>7, <1>8, <1>9 DEF Dispatch

\* Nor what the router knows of the frames that the clients are sending: at the
\* end of a dispatch only the client at hand begins a new frame.
LEMMA DispatchHeaders ==
  ASSUME LoopInv, Dispatch
  PROVE  /\ half' = half
         /\ \A x \in Conns \ {cur} : rd'[x] = rd[x] /\ hdr'[x] = hdr[x]
         /\ \/ Dispatching' /\ cur' = cur
            \/ ~Dispatching' /\ rd'[cur] # "payload"
<1>1. /\ rd \in [Conns -> {"preamble", "header", "payload"}]
      /\ hdr \in [Conns -> Header \cup {NoHeader}]
      /\ Dispatching /\ cur \in Conns
  BY DispatchSockets DEF LoopInv, TypeOK, DispatchLoop
<1>2. ASSUME FinishFrame
      PROVE  /\ \A x \in Conns \ {cur} : rd'[x] = rd[x] /\ hdr'[x] = hdr[x]
             /\ ~Dispatching' /\ rd'[cur] # "payload"
  BY <1>1, <1>2 DEF FinishFrame, Dispatching
<1>3. CASE \/ DispatchSkip \/ DispatchLocal
           \/ ForwardHeader \/ ForwardPayload \/ ForwardFails
           \/ NoRouteHeader \/ NoRouteAborts
  BY <1>3 DEF DispatchSkip, DispatchLocal, ForwardHeader, ForwardPayload, ForwardFails,
       NoRouteHeader, NoRouteAborts, peerVars, Dispatching
<1>4. CASE DispatchDone
  BY <1>2, <1>4 DEF DispatchDone, peerVars, Dispatching
<1>5. CASE NoRoutePayload
  BY <1>2, <1>5 DEF NoRoutePayload
<1> QED BY <1>3, <1>4, <1>5 DEF Dispatch

\* A read of a client that does not fail leaves the vector and the other sockets
\* alone.
LEMMA ReadSockets ==
  ASSUME LoopInv, NEW c \in Conns, ReadPreamble(c) \/ ReadHeader(c) \/ ReadPayload(c)
  PROVE  /\ i \in 1..Len(clients) /\ clients[i] = c /\ pc = "clients"
         /\ UNCHANGED <<ready, clients, n, peer, backlog>>
         /\ \A x \in Conns \ {c} : inb'[x] = inb[x]
         /\ \/ pc' = "clients" /\ i' = i + 1
            \/ pc' = "dispatch" /\ i' = i
<1>0. inb \in [Conns -> Seq(InChunk)]
  BY DEF LoopInv, TypeOK
<1>1. Reads(c)
  BY DEF ReadPreamble, ReadHeader, ReadPayload
<1>2. i \in 1..Len(clients) /\ clients[i] = c /\ pc = "clients"
  BY <1>1, ClientRead
<1>3. CASE ReadPreamble(c)
  BY <1>2, <1>3 DEF ReadPreamble, peerVars
<1>4. CASE ReadHeader(c)
  BY <1>0, <1>2, <1>4 DEF ReadHeader
<1>5. CASE ReadPayload(c)
  BY <1>0, <1>2, <1>5 DEF ReadPayload
<1> QED BY <1>3, <1>4, <1>5

-----------------------------------------------------------------------------
LEMMA SlotsApartStep ==
  ASSUME LoopInv, SlotsApart, [Next]_vars
  PROVE  SlotsApart'
<1>0. /\ \A k \in 1..Len(clients) : clients[k] \in Conns
      /\ Len(clients) \in Nat
  BY VectorTypes
<1>1. ASSUME UNCHANGED <<clients, peer, backlog>>, pc' = "clear" => pc = "clear" /\ cur' = cur
      PROVE  SlotsApart'
  BY <1>1 DEF SlotsApart
<1>2. CASE Accept
  <2>1. pc' = "clients" /\ peer' = peer
    BY <1>2 DEF Accept
  <2>2. CASE UNCHANGED <<clients, backlog, rd, hdr>>
    BY <1>1, <2>1, <2>2
  <2>3. ASSUME NEW b \in backlog,
               backlog' = backlog \ {b},
               Len(clients') = Len(clients) + 1,
               \A k \in 1..Len(clients) : clients'[k] = clients[k],
               clients'[Len(clients) + 1] = b
        PROVE  SlotsApart'
    <3>1. \A k \in 1..Len(clients) : clients[k] # b
      BY DEF SlotsApart
    <3>2. \A j, k \in 1..Len(clients') : clients'[j] = clients'[k] => j = k
      <4>1. ASSUME NEW j \in 1..Len(clients'), NEW k \in 1..Len(clients'),
                   clients'[j] = clients'[k]
            PROVE  j = k
        <5>1. CASE j \in 1..Len(clients) /\ k \in 1..Len(clients)
          BY <2>3, <4>1, <5>1 DEF SlotsApart
        <5>2. CASE j = Len(clients) + 1 \/ k = Len(clients) + 1
          BY <1>0, <2>3, <3>1, <4>1, <5>2
        <5> QED BY <1>0, <2>3, <5>1, <5>2
      <4> QED BY <4>1
    <3>3. ASSUME NEW k \in 1..Len(clients')
          PROVE  peer'[clients'[k]] # "idle" /\ clients'[k] \notin backlog'
      <4>1. CASE k \in 1..Len(clients)
        BY <2>1, <2>3, <4>1 DEF SlotsApart
      <4>2. CASE k = Len(clients) + 1
        BY <2>1, <2>3, <4>2 DEF SlotsApart
      <4> QED BY <1>0, <2>3, <4>1, <4>2
    <3> QED BY <2>1, <2>3, <3>2, <3>3 DEF SlotsApart
  <2> QED BY <1>2, <2>2, <2>3, AcceptClients
<1>3. ASSUME NEW c \in Conns, DropClient(c) PROVE SlotsApart'
  <2>1. /\ i \in 1..Len(clients) /\ clients[i] = c
        /\ cur' = c /\ UNCHANGED <<peer, backlog>>
        /\ Len(clients') = Len(clients) - 1
        /\ \A j \in 1..Len(clients) - 1 :
             clients'[j] = IF j < i THEN clients[j] ELSE clients[j + 1]
    BY <1>3, DropClients DEF peerVars
  <2>2. ASSUME NEW j \in 1..Len(clients'), NEW k \in 1..Len(clients'),
               clients'[j] = clients'[k]
        PROVE  j = k
    <3> DEFINE old(x) == IF x < i THEN x ELSE x + 1
    <3>1. /\ old(j) \in 1..Len(clients) /\ clients'[j] = clients[old(j)]
          /\ old(k) \in 1..Len(clients) /\ clients'[k] = clients[old(k)]
      BY <1>0, <2>1
    <3>2. old(j) = old(k)
      BY <2>2, <3>1 DEF SlotsApart
    <3> QED BY <1>0, <2>1, <3>2
  <2>3. ASSUME NEW k \in 1..Len(clients')
        PROVE  /\ peer'[clients'[k]] # "idle" /\ clients'[k] \notin backlog'
               /\ clients'[k] # c
    <3> DEFINE o == IF k < i THEN k ELSE k + 1
    <3>1. o \in 1..Len(clients) /\ o # i /\ clients'[k] = clients[o]
      BY <1>0, <2>1
    <3> HIDE DEF o
    <3> QED BY <2>1, <3>1 DEF SlotsApart
  <2>4. \A b \in backlog' : peer'[b] # "idle"
    BY <2>1 DEF SlotsApart
  <2>5. c \notin backlog' /\ peer'[c] # "idle"
    BY <2>1 DEF SlotsApart
  <2> QED BY <2>1, <2>2, <2>3, <2>4, <2>5 DEF SlotsApart
<1>4. CASE CloseClient
  <2>1. /\ pc = "clear" /\ pc' = "clients" /\ UNCHANGED <<clients, backlog>>
        /\ peer' = [peer EXCEPT ![cur] = "idle"]
    BY <1>4 DEF CloseClient
  <2>2. peer \in [Conns -> {"idle", "open", "closed", "reset"}] /\ backlog \subseteq Conns
    BY DEF LoopInv, TypeOK
  <2>3. \A x \in Conns : x # cur => peer'[x] = peer[x]
    BY <2>1, <2>2
  <2> QED BY <1>0, <2>1, <2>2, <2>3 DEF SlotsApart
<1>5. CASE Dispatch
  BY <1>1, <1>5, DispatchSockets DEF Dispatching
<1>6. ASSUME NEW c \in Conns, ReadPreamble(c) \/ ReadHeader(c) \/ ReadPayload(c)
      PROVE  SlotsApart'
  BY <1>1, <1>6, ReadSockets
<1>7. CASE ClearRoute
  BY <1>1, <1>7, ClearRoutes DEF peerVars
<1>8. CASE Select \/ SkipClient \/ ClientsDone
  BY <1>1, <1>8 DEF Select, SkipClient, ClientsDone, peerVars
<1>9. ASSUME NEW c \in Conns, PeerStep(c) PROVE SlotsApart'
  <2>1. /\ UNCHANGED <<pc, clients, cur>>
        /\ \A x \in Conns : peer[x] # "idle" => peer'[x] # "idle"
        /\ \/ backlog' = backlog
           \/ backlog' = backlog \cup {c} /\ peer[c] = "idle" /\ peer'[c] # "idle"
    BY <1>9, PeerSockets DEF routerVars
  <2>2. backlog \subseteq Conns /\ (pc = "clear" => cur \in Conns)
    BY DEF LoopInv, TypeOK, DispatchLoop
  <2> QED BY <1>0, <2>1, <2>2 DEF SlotsApart
<1>10. CASE UNCHANGED vars
  BY <1>1, <1>10 DEF vars
<1> QED BY <1>2, <1>3, <1>4, <1>5, <1>6, <1>7, <1>8, <1>9, <1>10
       DEF Next, RouterStep, ReadClient

LEMMA ReadyReadableStep ==
  ASSUME LoopInv, SlotsApart, ReadyReadable, [Next]_vars
  PROVE  ReadyReadable'
<1>0. /\ \A k \in 1..Len(clients) : clients[k] \in Conns
      /\ Len(clients) \in Nat /\ i \in Nat \ {0}
      /\ pc \notin {"select", "accept"} => n = Len(clients)
  BY VectorTypes DEF LoopInv, TypeOK, ClientLoop
<1>1. CASE Select
  <2>1. /\ pc' = "accept" /\ UNCHANGED <<clients, peer, inb>>
        /\ ready' \ {Listener} \subseteq {c \in Conns : IsClient(c) /\ Readable(c)}
    BY <1>1 DEF Select, peerVars
  <2> QED BY <2>1 DEF ReadyReadable, Readable, IsClient
<1>2. CASE Accept
  <2>1. pc = "accept" /\ pc' = "clients" /\ UNCHANGED <<ready, peer, inb>>
        /\ i' = 1 /\ n' = Len(clients')
    BY <1>2 DEF Accept
  <2>2. ASSUME NEW k \in 1..Len(clients), clients[k] \in ready
        PROVE  Readable(clients[k])
    <3>1. clients[k] # Listener
      BY <1>0, ConnsAssumption
    <3> QED BY <2>1, <2>2, <3>1 DEF ReadyReadable
  <2>3. ASSUME NEW b \in backlog, b \in Conns PROVE b \notin ready
    <3>1. b # Listener /\ \A k \in 1..Len(clients) : clients[k] # b
      BY <2>3, ConnsAssumption DEF SlotsApart
    <3> QED BY <2>1, <3>1 DEF ReadyReadable
  <2>4. ASSUME NEW k \in 1..Len(clients'), clients'[k] \in ready
        PROVE  Readable(clients'[k])
    <3>1. CASE UNCHANGED <<clients, backlog, rd, hdr>>
      BY <2>2, <2>4, <3>1
    <3>2. ASSUME NEW b \in backlog, b \in Conns,
                 Len(clients') = Len(clients) + 1,
                 \A j \in 1..Len(clients) : clients'[j] = clients[j],
                 clients'[Len(clients) + 1] = b
          PROVE  Readable(clients'[k])
      <4>1. k # Len(clients) + 1
        BY <2>3, <2>4, <3>2
      <4>2. k \in 1..Len(clients)
        BY <1>0, <3>2, <4>1
      <4> QED BY <2>2, <2>4, <3>2, <4>2
    <3> QED BY <1>2, <3>1, <3>2, AcceptClients
  <2> QED BY <2>1, <2>4 DEF ReadyReadable, NextClient, Dispatching, Readable
<1>3. CASE SkipClient
  <2>1. pc = "clients" /\ i' = i + 1
        /\ UNCHANGED <<pc, ready, clients, n, peer, inb>>
    BY <1>3 DEF SkipClient, peerVars
  <2> QED BY <1>0, <2>1 DEF ReadyReadable, NextClient, Dispatching, Readable
<1>4. CASE ClientsDone
  BY <1>4 DEF ClientsDone, ReadyReadable
<1>5. ASSUME NEW c \in Conns, ReadPreamble(c) \/ ReadHeader(c) \/ ReadPayload(c)
      PROVE  ReadyReadable'
  <2>1. /\ i \in 1..Len(clients) /\ clients[i] = c /\ pc = "clients"
        /\ UNCHANGED <<ready, clients, n, peer>>
        /\ \A x \in Conns \ {c} : inb'[x] = inb[x]
        /\ \/ pc' = "clients" /\ i' = i + 1
           \/ pc' = "dispatch" /\ i' = i
    BY <1>5, ReadSockets
  <2>2. NextClient' = i + 1 /\ pc' \notin {"select", "accept"} /\ n = Len(clients)
    BY <1>0, <2>1 DEF NextClient, Dispatching
  <2>3. ASSUME NEW k \in (i + 1)..n, clients[k] \in ready
        PROVE  Readable(clients[k])'
    <3>1. k \in 1..Len(clients) /\ k # i /\ k \in i..n
      BY <1>0, <2>1, <2>2
    <3>2. clients[k] \in Conns \ {c}
      BY <1>0, <2>1, <3>1 DEF SlotsApart
    <3>3. Readable(clients[k])
      BY <2>1, <2>3, <3>1 DEF ReadyReadable, NextClient, Dispatching
    <3> QED BY <2>1, <3>2, <3>3 DEF Readable
  <2> QED BY <2>1, <2>2, <2>3 DEF ReadyReadable
<1>6. ASSUME NEW c \in Conns, DropClient(c) PROVE ReadyReadable'
  <2>1. /\ i \in 1..Len(clients) /\ pc = "clients" /\ pc' = "clear"
        /\ UNCHANGED <<ready, i, peer, inb>>
        /\ n = Len(clients) /\ n' = n - 1
        /\ \A j \in 1..Len(clients) - 1 :
             clients'[j] = IF j < i THEN clients[j] ELSE clients[j + 1]
    BY <1>6, DropClients DEF peerVars
  <2>2. ASSUME NEW k \in i..n', clients'[k] \in ready
        PROVE  Readable(clients'[k])
    <3>1. clients'[k] = clients[k + 1] /\ k + 1 \in i..n
      BY <1>0, <2>1
    <3> QED BY <2>1, <2>2, <3>1 DEF ReadyReadable, NextClient, Dispatching
  <2> QED BY <2>1, <2>2 DEF ReadyReadable, NextClient, Dispatching, Readable
<1>7. CASE ClearRoute
  <2>1. pc = "clear" /\ UNCHANGED <<pc, ready, clients, i, n, peer, inb>>
    BY <1>7, ClearRoutes DEF peerVars
  <2> QED BY <2>1 DEF ReadyReadable, NextClient, Dispatching, Readable
<1>8. CASE CloseClient
  <2>1. /\ pc = "clear" /\ pc' = "clients" /\ UNCHANGED <<ready, clients, i, n>>
        /\ peer' = [peer EXCEPT ![cur] = "idle"]
        /\ inb' = [inb EXCEPT ![cur] = <<>>]
    BY <1>8 DEF CloseClient
  <2>2. peer \in [Conns -> {"idle", "open", "closed", "reset"}]
        /\ inb \in [Conns -> Seq(InChunk)]
    BY DEF LoopInv, TypeOK
  <2>3. ASSUME NEW k \in i..n, clients[k] \in ready
        PROVE  Readable(clients[k])'
    <3>1. clients[k] \in Conns /\ clients[k] # cur
      BY <1>0, <2>1 DEF SlotsApart
    <3>2. Readable(clients[k])
      BY <2>1, <2>3 DEF ReadyReadable, NextClient, Dispatching
    <3> QED BY <2>1, <2>2, <3>1, <3>2 DEF Readable
  <2> QED BY <2>1, <2>3 DEF ReadyReadable, NextClient, Dispatching
<1>9. CASE Dispatch
  <2>1. /\ Dispatching
        /\ UNCHANGED <<ready, clients, n, peer, inb>>
        /\ \/ Dispatching' /\ i' = i
           \/ pc' = "clients" /\ i' = i + 1
    BY <1>9, DispatchSockets
  <2>2. NextClient' = NextClient /\ pc' \notin {"select", "accept"}
        /\ pc \notin {"select", "accept"}
    BY <2>1 DEF NextClient, Dispatching
  <2> QED BY <2>1, <2>2 DEF ReadyReadable, Readable
<1>10. ASSUME NEW c \in Conns, PeerStep(c) PROVE ReadyReadable'
  <2>1. /\ UNCHANGED <<pc, ready, clients, i, n>>
        /\ \A x \in Conns : Readable(x) => Readable(x)'
    BY <1>10, PeerSockets DEF routerVars
  <2>2. ready \ {Listener} \subseteq Conns
    BY DEF LoopInv, TypeOK
  <2>3. NextClient' = NextClient /\ (pc \notin {"select", "accept"} => NextClient..n \subseteq 1..Len(clients))
    BY <1>0, <2>1 DEF NextClient, Dispatching
  <2> QED BY <1>0, <2>1, <2>2, <2>3 DEF ReadyReadable
<1>11. CASE UNCHANGED vars
  BY <1>11 DEF vars, ReadyReadable, NextClient, Dispatching, Readable
<1> QED BY <1>1, <1>2, <1>3, <1>4, <1>5, <1>6, <1>7, <1>8, <1>9, <1>10, <1>11
       DEF Next, RouterStep, ReadClient

\* However many clients are read, dispatched for, dropped or reused between the
\* select() and a recv() of its round, that recv() has something to return: the
\* one thread of rtrouted.c never waits for a silent client.
THEOREM RecvNeverBlocksInvariant == Spec => []RecvNeverBlocks
<1>1. Init => SlotsApart /\ ReadyReadable
  BY DEF Init, SlotsApart, ReadyReadable
<1>2. LoopInv /\ SlotsApart /\ ReadyReadable /\ [Next]_vars
        => (SlotsApart /\ ReadyReadable)'
  BY SlotsApartStep, ReadyReadableStep
<1>3. LoopInv /\ ReadyReadable => RecvNeverBlocks
  <2> SUFFICES ASSUME LoopInv, ReadyReadable, NEW c \in Conns, Reads(c)
               PROVE  Readable(c)
    BY DEF RecvNeverBlocks
  <2>1. /\ i \in NextClient..n /\ clients[i] = c /\ c \in ready
        /\ pc \notin {"select", "accept"}
    BY DEF Reads, NextClient, Dispatching, LoopInv, TypeOK
  <2> QED BY <2>1 DEF ReadyReadable
<1> QED BY <1>1, <1>2, <1>3, LoopInvariant, PTL DEF Spec

-----------------------------------------------------------------------------
(* In step with the streams.  What a socket holds continues what the router   *)
(* has read of it, and ends where the peer is between its two sends; a chunk   *)
(* is open if its frame goes on with a payload.                                *)

Open(b) == b.part = "header" /\ ~b.hdr.msg.empty

Follows(b, x) == IF Open(b) THEN x = [part |-> "payload", hdr |-> b.hdr]
                 ELSE x.part = "header"

Ends(b, h) == IF h = NoHeader THEN ~Open(b)
              ELSE b = [part |-> "header", hdr |-> h] /\ Open(b)

Chain(b, s, h) ==
  /\ \A k \in 1..Len(s) : Follows(IF k = 1 THEN b ELSE s[k - 1], s[k])
  /\ Ends(IF Len(s) = 0 THEN b ELSE s[Len(s)], h)

\* The last chunk read of c that matters for the next one.
Before(c) == IF IsClient(c) /\ rd[c] = "payload" /\ ~(Dispatching /\ c = cur)
             THEN [part |-> "header", hdr |-> hdr[c]]
             ELSE [part |-> "payload", hdr |-> NoHeader]

Chained == \A c \in Conns : (pc = "clear" /\ c = cur) \/ Chain(Before(c), inb[c], half[c])

\* The next send of the peer continues the chain.
LEMMA ChainAppend ==
  ASSUME NEW b, NEW s \in Seq(InChunk), NEW h, NEW x \in InChunk, NEW g,
         Chain(b, s, h), Ends(x, g),
         IF h = NoHeader THEN x.part = "header" ELSE x = [part |-> "payload", hdr |-> h]
  PROVE  Chain(b, Append(s, x), g)
<1> DEFINE t == Append(s, x)
           last == IF Len(s) = 0 THEN b ELSE s[Len(s)]
<1>1. /\ Len(s) \in Nat /\ Len(t) = Len(s) + 1 /\ t[Len(s) + 1] = x
      /\ \A k \in 1..Len(s) : t[k] = s[k]
  BY AppendProperties, LenProperties
<1>2. Follows(last, x)
  <2>1. Ends(last, h)
    BY DEF Chain
  <2> HIDE DEF last
  <2> QED BY <2>1 DEF Ends, Follows
<1>3. ASSUME NEW k \in 1..Len(t) PROVE Follows(IF k = 1 THEN b ELSE t[k - 1], t[k])
  <2>1. CASE k \in 1..Len(s)
    <3>1. Follows(IF k = 1 THEN b ELSE s[k - 1], s[k])
      BY <2>1 DEF Chain
    <3>2. t[k] = s[k] /\ (k # 1 => t[k - 1] = s[k - 1])
      BY <1>1, <2>1
    <3> HIDE DEF t
    <3> QED BY <3>1, <3>2
  <2>2. CASE k = Len(s) + 1
    <3>1. t[k] = x /\ last = IF k = 1 THEN b ELSE t[k - 1]
      BY <1>1, <2>2
    <3> HIDE DEF t, last
    <3> QED BY <1>2, <3>1
  <2> QED BY <1>1, <2>1, <2>2
<1>4. t[Len(t)] = x /\ Len(t) # 0
  BY <1>1
<1> HIDE DEF t
<1>5. Chain(b, t, g)
  BY <1>3, <1>4 DEF Chain
<1> QED BY <1>5 DEF t

\* Reading a chunk leaves the rest of the chain.
LEMMA ChainTail ==
  ASSUME NEW b, NEW s \in Seq(InChunk), NEW h, NEW a,
         Chain(b, s, h), s # <<>>,
         Open(a) <=> Open(s[1]), Open(a) => a = s[1]
  PROVE  Chain(a, Tail(s), h)
<1> DEFINE t == Tail(s)
<1>1. /\ Len(s) \in Nat /\ Len(s) # 0 /\ Len(t) = Len(s) - 1
      /\ \A k \in 1..Len(t) : t[k] = s[k + 1]
  OBVIOUS
<1>2. ASSUME NEW k \in 1..Len(t) PROVE Follows(IF k = 1 THEN a ELSE t[k - 1], t[k])
  <2>1. k + 1 \in 1..Len(s) /\ k + 1 # 1 /\ (k + 1) - 1 = k
    BY <1>1
  <2>2. Follows(s[k], s[k + 1])
    BY <2>1 DEF Chain
  <2>3. t[k] = s[k + 1] /\ (k # 1 => t[k - 1] = s[k])
    BY <1>1
  <2> HIDE DEF t
  <2>4. CASE k = 1
    BY <2>2, <2>3, <2>4 DEF Follows
  <2>5. CASE k # 1
    BY <2>2, <2>3, <2>5
  <2> QED BY <2>4, <2>5
<1>3. Ends(s[Len(s)], h)
  BY <1>1 DEF Chain
<1>4. CASE Len(t) = 0
  <2>1. Ends(s[1], h)
    <3> HIDE DEF t
    <3>1. Len(s) = 1
      BY <1>1, <1>4
    <3>2. s[1] = s[Len(s)]
      BY <3>1
    <3> QED BY <1>3, <3>2
  <2>2. Ends(a, h)
    BY <2>1 DEF Ends
  <2> HIDE DEF t
  <2> QED BY <1>2, <1>4, <2>2 DEF Chain, t
<1>5. CASE Len(t) # 0
  <2>1. t[Len(t)] = s[Len(s)]
    BY <1>1, <1>5
  <2> HIDE DEF t
  <2>2. Chain(a, t, h)
    BY <1>2, <1>3, <1>5, <2>1 DEF Chain
  <2> QED BY <2>2 DEF t
<1> QED BY <1>4, <1>5

LEMMA ChainedStep ==
  ASSUME LoopInv, SlotsApart, Chained, [Next]_vars
  PROVE  Chained'
<1>0. /\ rd \in [Conns -> {"preamble", "header", "payload"}]
      /\ hdr \in [Conns -> Header \cup {NoHeader}]
      /\ half \in [Conns -> Header \cup {NoHeader}]
      /\ inb \in [Conns -> Seq(InChunk)]
      /\ \A k \in 1..Len(clients) : clients[k] \in Conns
      /\ Len(clients) \in Nat
  BY VectorTypes DEF LoopInv, TypeOK
<1>1. ASSUME UNCHANGED <<inb, half>>, pc = "clear" => pc' = "clear" /\ cur' = cur,
             \A x \in Conns : (pc' = "clear" /\ x = cur') \/ Before(x)' = Before(x)
      PROVE  Chained'
  BY <1>1 DEF Chained
<1>2. CASE Dispatch
  <2>1. Dispatching /\ UNCHANGED <<clients, inb, half>>
    BY <1>2, DispatchSockets, DispatchHeaders
  <2>2. ASSUME NEW x \in Conns PROVE Before(x)' = Before(x)
    BY <1>2, <2>1, DispatchHeaders DEF Before, IsClient
  <2>3. pc # "clear"
    BY <2>1 DEF Dispatching
  <2> QED BY <1>1, <2>1, <2>2, <2>3
<1>3. CASE Select \/ SkipClient \/ ClientsDone
  <2>1. UNCHANGED <<clients, rd, hdr, inb, half>> /\ pc # "clear" /\ ~Dispatching /\ ~Dispatching'
    BY <1>3 DEF Select, SkipClient, ClientsDone, peerVars, Dispatching
  <2> QED BY <1>1, <2>1 DEF Before, IsClient
<1>4. CASE ClearRoute
  <2>1. pc = "clear" /\ UNCHANGED <<pc, cur, clients, rd, hdr, inb, half>>
    BY <1>4, ClearRoutes DEF peerVars
  <2> QED BY <1>1, <2>1 DEF Before, IsClient, Dispatching
<1>5. CASE Accept
  <2>1. UNCHANGED <<inb, half>> /\ pc = "accept" /\ pc' = "clients"
    BY <1>5 DEF Accept
  <2>2. CASE UNCHANGED <<clients, backlog, rd, hdr>>
    BY <1>1, <2>1, <2>2 DEF Before, IsClient, Dispatching
  <2>3. CASE Listener \in ready
    <3> PICK b \in backlog :
          /\ clients' = Append(clients, b)
          /\ rd' = [rd EXCEPT ![b] = "preamble"]
          /\ hdr' = [hdr EXCEPT ![b] = NoHeader]
      BY <1>5, <2>3 DEF Accept
    <3>1. b \in Conns
      BY DEF LoopInv, TypeOK
    <3>2. /\ Len(clients') = Len(clients) + 1
          /\ \A k \in 1..Len(clients) : clients'[k] = clients[k]
          /\ clients'[Len(clients) + 1] = b
      BY <3>1, VectorTypes, AppendProperties
    <3>3. ~IsClient(b)
      BY DEF SlotsApart, IsClient
    <3>4. ASSUME NEW x \in Conns PROVE Before(x)' = Before(x)
      <4>1. CASE x = b
        BY <1>0, <3>1, <3>3, <4>1 DEF Before
      <4>2. CASE x # b
        <5>1. rd'[x] = rd[x] /\ hdr'[x] = hdr[x]
          BY <1>0, <4>2
        <5>2. IsClient(x)' <=> IsClient(x)
          <6>1. ASSUME NEW k \in 1..Len(clients'), clients'[k] = x PROVE IsClient(x)
            BY <1>0, <3>2, <4>2, <6>1 DEF IsClient
          <6>2. ASSUME NEW k \in 1..Len(clients), clients[k] = x PROVE IsClient(x)'
            <7>1. k \in 1..Len(clients') /\ clients'[k] = x
              BY <1>0, <3>2, <6>2
            <7> QED BY <7>1 DEF IsClient
          <6> QED BY <6>1, <6>2 DEF IsClient
        <5> QED BY <2>1, <5>1, <5>2 DEF Before, Dispatching
      <4> QED BY <4>1, <4>2
    <3> QED BY <1>1, <2>1, <3>4
  <2> QED BY <1>5, <2>2, <2>3 DEF Accept
<1>6. ASSUME NEW c \in Conns, DropClient(c) PROVE Chained'
  <2>1. /\ i \in 1..Len(clients) /\ clients[i] = c
        /\ pc = "clients" /\ pc' = "clear" /\ cur' = c
        /\ UNCHANGED <<rd, hdr, inb, half>>
        /\ Len(clients') = Len(clients) - 1
        /\ \A j \in 1..Len(clients) - 1 :
             clients'[j] = IF j < i THEN clients[j] ELSE clients[j + 1]
    BY <1>6, DropClients DEF peerVars
  <2>2. ASSUME NEW x \in Conns, x # c PROVE Before(x)' = Before(x)
    <3>1. ASSUME NEW k \in 1..Len(clients'), clients'[k] = x PROVE IsClient(x)
      <4>1. k \in 1..Len(clients) /\ k + 1 \in 1..Len(clients)
        BY <1>0, <2>1
      <4> QED BY <2>1, <3>1, <4>1 DEF IsClient
    <3>2. ASSUME NEW k \in 1..Len(clients), clients[k] = x PROVE IsClient(x)'
      <4>1. CASE k < i
        <5>1. k \in 1..Len(clients') /\ clients'[k] = x
          BY <1>0, <2>1, <3>2, <4>1
        <5> QED BY <5>1 DEF IsClient
      <4>2. CASE k > i
        <5>1. k - 1 \in 1..Len(clients') /\ clients'[k - 1] = x
          BY <1>0, <2>1, <3>2, <4>2
        <5> QED BY <5>1 DEF IsClient
      <4> QED BY <1>0, <2>1, <2>2, <3>2, <4>1, <4>2
    <3>3. IsClient(x)' <=> IsClient(x)
      BY <3>1, <3>2 DEF IsClient
    <3> QED BY <2>1, <3>3 DEF Before, Dispatching
  <2> QED BY <1>1, <2>1, <2>2
<1>7. ASSUME NEW c \in Conns, ReadPreamble(c) PROVE Chained'
  <2>1. /\ pc = "clients" /\ UNCHANGED <<pc, clients, hdr, inb, half>>
        /\ rd[c] = "preamble" /\ rd' = [rd EXCEPT ![c] = "header"]
    BY <1>7 DEF ReadPreamble, Reads, peerVars
  <2>2. ASSUME NEW x \in Conns PROVE Before(x)' = Before(x)
    BY <1>0, <2>1 DEF Before, IsClient, Dispatching
  <2> QED BY <1>1, <2>1, <2>2
<1>8. ASSUME NEW c \in Conns, pc = "clients", pc' # "clear", inb[c] # <<>>,
             inb' = [inb EXCEPT ![c] = Tail(@)], half' = half,
             Open(Before(c)') <=> Open(inb[c][1]),
             Open(Before(c)') => Before(c)' = inb[c][1],
             \A x \in Conns : x # c => Before(x)' = Before(x)
      PROVE  Chained'
  <2>1. ASSUME NEW x \in Conns PROVE Chain(Before(x)', inb'[x], half'[x])
    <3>1. Chain(Before(x), inb[x], half[x])
      BY <1>8 DEF Chained
    <3>2. CASE x = c
      <4>1. inb[c] \in Seq(InChunk) /\ inb'[c] = Tail(inb[c])
        BY <1>0, <1>8
      <4>2. Chain(Before(c)', Tail(inb[c]), half[c])
        BY <1>8, <3>1, <3>2, <4>1, ChainTail
      <4> QED BY <1>8, <3>2, <4>1, <4>2
    <3>3. CASE x # c
      <4>1. inb'[x] = inb[x] /\ Before(x)' = Before(x)
        BY <1>0, <1>8, <3>3
      <4> QED BY <1>8, <3>1, <4>1
    <3> QED BY <3>2, <3>3
  <2> QED BY <2>1 DEF Chained
<1>9. ASSUME NEW c \in Conns, Reads(c), inb[c] # <<>>
      PROVE  /\ IsClient(c) /\ pc = "clients" /\ inb[c][1] \in InChunk
             /\ Head(inb[c]) = inb[c][1] /\ Follows(Before(c), inb[c][1])
  <2>1. IsClient(c) /\ pc = "clients"
    BY <1>9, ClientRead
  <2>2. 1 \in 1..Len(inb[c]) /\ inb[c][1] \in InChunk /\ Head(inb[c]) = inb[c][1]
    <3>1. inb[c] \in Seq(InChunk)
      BY <1>0
    <3> QED BY <1>9, <3>1
  <2>3. Chain(Before(c), inb[c], half[c])
    BY <2>1 DEF Chained
  <2> QED BY <2>1, <2>2, <2>3 DEF Chain
<1>10. ASSUME NEW c \in Conns, ReadHeader(c) PROVE Chained'
  <2>1. /\ Reads(c) /\ inb[c] # <<>> /\ rd[c] = "header" /\ pc' = pc
        /\ inb' = [inb EXCEPT ![c] = Tail(@)] /\ UNCHANGED <<clients, half>>
        /\ rd' = [rd EXCEPT ![c] = "payload"]
        /\ hdr' = [hdr EXCEPT ![c] = Head(inb[c]).hdr]
    BY <1>10 DEF ReadHeader, RecvFails
  <2>2. /\ IsClient(c) /\ pc = "clients" /\ inb[c][1] \in InChunk
        /\ Head(inb[c]) = inb[c][1] /\ Follows(Before(c), inb[c][1])
    BY <1>9, <2>1
  <2>3. Before(c)' = inb[c][1]
    <3>1. inb[c][1].part = "header"
      BY <2>1, <2>2 DEF Before, Follows, Open
    <3>2. inb[c][1] = [part |-> "header", hdr |-> inb[c][1].hdr]
      BY <2>2, <3>1 DEF InChunk
    <3>3. rd'[c] = "payload" /\ hdr'[c] = inb[c][1].hdr
      BY <1>0, <2>1, <2>2
    <3> QED BY <2>1, <2>2, <3>2, <3>3 DEF Before, IsClient, Dispatching
  <2>4. ASSUME NEW x \in Conns, x # c PROVE Before(x)' = Before(x)
    BY <1>0, <2>1, <2>2, <2>4 DEF Before, IsClient, Dispatching
  <2> QED BY <1>8, <2>1, <2>2, <2>3, <2>4
<1>11. ASSUME NEW c \in Conns, ReadPayload(c) PROVE Chained'
  <2>1. /\ Reads(c) /\ inb[c] # <<>> /\ rd[c] = "payload" /\ ~hdr[c].msg.empty
        /\ inb' = [inb EXCEPT ![c] = Tail(@)] /\ UNCHANGED <<clients, rd, hdr, half>>
        /\ cur' = c /\ pc' = "dispatch"
    BY <1>11 DEF ReadPayload, RecvFails
  <2>2. /\ IsClient(c) /\ pc = "clients" /\ Follows(Before(c), inb[c][1])
    BY <1>9, <2>1
  <2>3. ~Open(inb[c][1])
    BY <2>1, <2>2 DEF Before, Follows, Open, Dispatching
  <2>4. ~Open(Before(c)')
    <3>1. Before(c)' = [part |-> "payload", hdr |-> NoHeader]
      BY <2>1 DEF Before, Dispatching
    <3> QED BY <3>1 DEF Open
  <2>5. ASSUME NEW x \in Conns, x # c PROVE Before(x)' = Before(x)
    BY <2>1, <2>2, <2>5 DEF Before, IsClient, Dispatching
  <2> QED BY <1>8, <2>1, <2>2, <2>3, <2>4, <2>5
<1>12. CASE CloseClient
  <2>1. /\ pc = "clear" /\ pc' = "clients" /\ UNCHANGED <<clients, rd, hdr>>
        /\ inb' = [inb EXCEPT ![cur] = <<>>]
        /\ half' = [half EXCEPT ![cur] = NoHeader]
    BY <1>12 DEF CloseClient
  <2>2. ~IsClient(cur)
    BY <2>1 DEF SlotsApart, IsClient
  <2>3. ASSUME NEW x \in Conns PROVE Chain(Before(x)', inb'[x], half'[x])
    <3>0. Before(x)' = Before(x)
      BY <2>1 DEF Before, IsClient, Dispatching
    <3>1. CASE x = cur
      <4>1. inb'[x] = <<>> /\ half'[x] = NoHeader
        BY <1>0, <2>1, <3>1
      <4>2. Len(inb'[x]) = 0
        BY <4>1
      <4>3. Before(x)' = [part |-> "payload", hdr |-> NoHeader]
        BY <2>2, <3>0, <3>1 DEF Before
      <4> QED BY <4>1, <4>2, <4>3 DEF Chain, Ends, Open
    <3>2. CASE x # cur
      <4>1. inb'[x] = inb[x] /\ half'[x] = half[x]
        BY <1>0, <2>1, <3>2
      <4> QED BY <3>0, <3>2, <4>1 DEF Chained
    <3> QED BY <3>1, <3>2
  <2> QED BY <2>3 DEF Chained
<1>13. ASSUME NEW c \in Conns, NEW x \in InChunk, UNCHANGED routerVars,
              inb' = [inb EXCEPT ![c] = Append(@, x)],
              \A d \in Conns : d # c => half'[d] = half[d],
              IF half[c] = NoHeader THEN x.part = "header"
                                    ELSE x = [part |-> "payload", hdr |-> half[c]],
              Ends(x, half'[c])
       PROVE  Chained'
  <2>0. \A d \in Conns : Before(d)' = Before(d)
    BY <1>13 DEF routerVars, Before, IsClient, Dispatching
  <2>1. ASSUME NEW d \in Conns, ~(pc = "clear" /\ d = cur)
        PROVE  Chain(Before(d), inb'[d], half'[d])
    <3>1. Chain(Before(d), inb[d], half[d])
      BY <2>1 DEF Chained
    <3>2. CASE d = c
      <4>1. inb[c] \in Seq(InChunk) /\ inb'[c] = Append(inb[c], x)
        BY <1>0, <1>13
      <4> QED BY <1>13, <3>1, <3>2, <4>1, ChainAppend
    <3>3. CASE d # c
      <4>1. inb'[d] = inb[d] /\ half'[d] = half[d]
        BY <1>0, <1>13, <3>3
      <4> QED BY <3>1, <4>1
    <3> QED BY <3>2, <3>3
  <2> QED BY <1>13, <2>0, <2>1 DEF Chained, routerVars
<1>14. ASSUME NEW c \in Conns, PeerSendHeader(c) PROVE Chained'
  <2> PICK m \in Sends[c] :
        LET h == [from |-> c, seq |-> sent[c], msg |-> m] IN
        /\ inb' = [inb EXCEPT ![c] = Append(@, [part |-> "header", hdr |-> h])]
        /\ half' = [half EXCEPT ![c] = IF m.empty THEN NoHeader ELSE h]
    BY <1>14 DEF PeerSendHeader
  <2> DEFINE h == [from |-> c, seq |-> sent[c], msg |-> m]
             x == [part |-> "header", hdr |-> h]
  <2>1. half[c] = NoHeader /\ UNCHANGED routerVars
    BY <1>14 DEF PeerSendHeader
  <2>2. x \in InChunk
    BY SentHeaderType DEF LoopInv, InChunk
  <2>3. h # NoHeader /\ h.msg = m
    <3>1. h.from # NoHeader.from
      BY ConnsAssumption DEF NoHeader
    <3> QED BY <3>1
  <2>4. /\ half'[c] = IF m.empty THEN NoHeader ELSE h
        /\ \A d \in Conns : d # c => half'[d] = half[d]
        /\ inb' = [inb EXCEPT ![c] = Append(@, x)]
    BY <1>0
  <2>5. x.part = "header" /\ x.hdr = h
    OBVIOUS
  <2>6. x = [part |-> "header", hdr |-> h]
    OBVIOUS
  <2> HIDE DEF h, x
  <2>7. Ends(x, half'[c])
    BY <2>3, <2>4, <2>5, <2>6 DEF Ends, Open
  <2> QED BY <1>13, <2>1, <2>2, <2>4, <2>5, <2>7
<1>15. ASSUME NEW c \in Conns, PeerSendPayload(c) PROVE Chained'
  <2> DEFINE x == [part |-> "payload", hdr |-> half[c]]
  <2>1. /\ inb' = [inb EXCEPT ![c] = Append(@, x)]
        /\ half' = [half EXCEPT ![c] = NoHeader] /\ half[c] # NoHeader
        /\ UNCHANGED routerVars
    BY <1>15 DEF PeerSendPayload
  <2>2. x \in InChunk
    BY <1>0, <2>1 DEF InChunk
  <2>3. half'[c] = NoHeader /\ \A d \in Conns : d # c => half'[d] = half[d]
    BY <1>0, <2>1
  <2>4. Ends(x, half'[c])
    BY <2>3 DEF Ends, Open
  <2>5. x = [part |-> "payload", hdr |-> half[c]]
    OBVIOUS
  <2> HIDE DEF x
  <2> QED BY <1>13, <2>1, <2>2, <2>3, <2>4, <2>5
<1>16. ASSUME NEW c \in Conns,
              PeerConnect(c) \/ PeerRecv(c) \/ PeerClose(c) \/ SocketReset(c)
       PROVE  Chained'
  <2>1. UNCHANGED <<routerVars, inb, half>>
    BY <1>16 DEF PeerConnect, PeerRecv, PeerClose, SocketReset
  <2> QED BY <1>1, <2>1 DEF routerVars, Before, IsClient, Dispatching
<1>17. CASE UNCHANGED vars
  BY <1>1, <1>17 DEF vars, Before, IsClient, Dispatching
<1> QED BY <1>2, <1>3, <1>4, <1>5, <1>6, <1>7, <1>10, <1>11, <1>12, <1>14, <1>15, <1>16, <1>17
       DEF Next, RouterStep, ReadClient, PeerStep

LEMMA StreamsInit == Init => SlotsApart /\ Chained
<1> SUFFICES ASSUME Init PROVE SlotsApart /\ Chained
  OBVIOUS
<1>1. SlotsApart
  BY DEF Init, SlotsApart
<1>2. ASSUME NEW c \in Conns
      PROVE  /\ half[c] = NoHeader /\ Len(inb[c]) = 0
             /\ Before(c) = [part |-> "payload", hdr |-> NoHeader]
  BY DEF Init, Before
<1> QED BY <1>1, <1>2 DEF Chained, Chain, Ends, Open

\* The state of a client says where in its byte stream the router is: no header
\* is taken for a payload, and no payload goes to another message's subscribers,
\* for any number of clients, frames and reused slots.
THEOREM StreamsInStepInvariant == Spec => []StreamsInStep
<1>2. LoopInv /\ SlotsApart /\ Chained /\ [Next]_vars => (SlotsApart /\ Chained)'
  BY SlotsApartStep, ChainedStep
<1>3. LoopInv /\ SlotsApart /\ Chained => StreamsInStep
  <2> SUFFICES ASSUME LoopInv, SlotsApart, Chained,
                      NEW c \in Conns, IsClient(c), c # cur, NEW k \in 1..Len(inb[c])
               PROVE  LET before == IF k > 1 THEN inb[c][k - 1]
                            ELSE [part |-> IF rd[c] = "payload" THEN "header" ELSE "payload",
                                  hdr |-> hdr[c]]
                      IN  IF before.part = "header" /\ ~before.hdr.msg.empty
                          THEN inb[c][k] = [part |-> "payload", hdr |-> before.hdr]
                          ELSE inb[c][k].part = "header"
    BY DEF StreamsInStep
  <2>1. Follows(IF k = 1 THEN Before(c) ELSE inb[c][k - 1], inb[c][k])
    BY DEF Chained, Chain
  <2>2. CASE k = 1
    BY <2>1, <2>2 DEF Follows, Open, Before
  <2>3. CASE k # 1
    BY <2>1, <2>3 DEF Follows, Open
  <2> QED BY <2>2, <2>3
<1> QED BY StreamsInit, <1>2, <1>3, LoopInvariant, PTL DEF Spec

-----------------------------------------------------------------------------
(* "No route" only for a request that nothing matches.  While match_found is *)
(* FALSE no handler has run, hence the table has not grown since dn was read  *)
(* and every entry that the loop has passed failed to match.                  *)

NotFoundYet ==
  /\ pc = "forward" => found
  /\ pc = "dispatch" /\ ~found =>
       dn = Len(routes) /\ \A k \in 1..(di - 1) : ~IsMatch(routes[k])
  /\ pc \in {"noroute", "noroutePayload", "aborted"} =>
       Msg.req /\ \A k \in 1..Len(routes) : ~IsMatch(routes[k])
  /\ pc = "aborted" => peer[cur] = "reset"

LEMMA NotFoundStep ==
  ASSUME LoopInv, NotFoundYet, [Next]_vars
  PROVE  NotFoundYet'
<1>0. /\ Len(routes) \in Nat /\ di \in Nat \ {0} /\ dn \in Nat
      /\ Dispatching => cur \in Conns
      /\ peer \in [Conns -> {"idle", "open", "closed", "reset"}]
  BY VectorTypes DEF LoopInv, TypeOK, DispatchLoop
<1>1. ASSUME pc' \notin {"dispatch", "forward", "noroute", "noroutePayload", "aborted"}
      PROVE  NotFoundYet'
  BY <1>1 DEF NotFoundYet
<1>2. ASSUME UNCHANGED <<pc, found, routes, hdr, cur, di, dn>>,
             pc = "aborted" /\ peer[cur] = "reset" => peer'[cur] = "reset"
      PROVE  NotFoundYet'
  BY <1>2 DEF NotFoundYet, Msg, IsMatch
<1>3. ASSUME pc' = "dispatch", found' PROVE NotFoundYet'
  BY <1>3 DEF NotFoundYet
<1>4. CASE Select \/ Accept \/ SkipClient \/ ClientsDone \/ ClearRoute \/ CloseClient
  BY <1>1, <1>4 DEF Select, Accept, SkipClient, ClientsDone, ClearRoute, CloseClient
<1>5. ASSUME NEW c \in Conns, ReadClient(c) PROVE NotFoundYet'
  <2>1. CASE ReadPayload(c)
    BY <2>1 DEF ReadPayload, NotFoundYet
  <2>2. CASE ReadPreamble(c) \/ ReadHeader(c) \/ DropClient(c)
    BY <1>1, <2>2 DEF ReadPreamble, ReadHeader, DropClient, Reads
  <2> QED BY <1>5, <2>1, <2>2 DEF ReadClient
<1>6. CASE DispatchSkip
  <2>1. /\ pc = "dispatch" /\ ~IsMatch(routes[di]) /\ di' = di + 1
        /\ UNCHANGED <<pc, routes, hdr, cur, dn, found>>
    BY <1>6 DEF DispatchSkip
  <2>2. \A k \in 1..((di + 1) - 1) : k \in 1..(di - 1) \/ k = di
    BY <1>0
  <2> QED BY <2>1, <2>2 DEF NotFoundYet, Msg, IsMatch
<1>7. CASE DispatchLocal \/ ForwardFails
  BY <1>3, <1>7 DEF DispatchLocal, ForwardFails
<1>8. CASE ForwardHeader
  BY <1>8 DEF ForwardHeader, NotFoundYet
<1>9. CASE ForwardPayload
  BY <1>9 DEF ForwardPayload, NotFoundYet
<1>10. CASE DispatchDone
  <2>1. CASE FinishFrame
    BY <1>1, <2>1 DEF FinishFrame
  <2>2. CASE ~found /\ Msg.req /\ pc' = "noroute" /\ UNCHANGED <<hdr, cur, routes>>
    <3>1. pc = "dispatch" /\ di > dn
      BY <1>10 DEF DispatchDone
    <3>2. \A k \in 1..Len(routes) : ~IsMatch(routes[k])
      BY <1>0, <2>2, <3>1 DEF NotFoundYet
    <3> QED BY <2>2, <3>2 DEF NotFoundYet, Msg, IsMatch
  <2> QED BY <1>10, <2>1, <2>2 DEF DispatchDone
<1>11. CASE NoRouteHeader
  BY <1>11 DEF NoRouteHeader, NotFoundYet, Msg, IsMatch
<1>12. CASE NoRoutePayload
  BY <1>1, <1>12 DEF NoRoutePayload, FinishFrame
<1>13. CASE NoRouteAborts
  BY <1>13 DEF NoRouteAborts, SendFails, NotFoundYet, Msg, IsMatch, peerVars
<1>14. ASSUME NEW c \in Conns, PeerStep(c) PROVE NotFoundYet'
  <2>1. UNCHANGED routerVars
    BY <1>14, PeerSockets
  <2>2. ASSUME NEW x \in Conns, peer[x] = "reset" PROVE peer'[x] = "reset"
    BY <1>0, <1>14, <2>2 DEF PeerStep, PeerConnect, PeerSendHeader, PeerSendPayload,
         PeerRecv, PeerClose, SocketReset, Alive
  <2> QED BY <1>0, <1>2, <2>1, <2>2 DEF routerVars, Dispatching
<1>15. CASE UNCHANGED vars
  BY <1>2, <1>15 DEF vars
<1> QED BY <1>4, <1>5, <1>6, <1>7, <1>8, <1>9, <1>10, <1>11, <1>12, <1>13, <1>14, <1>15
       DEF Next, RouterStep, Dispatch

\* A caller is told "no route" only when no route matches its request, routes
\* added meanwhile included, and rtrouted aborts only over such an answer to a
\* requester that is gone: whatever the number of routes and clients.
THEOREM NoRouteInvariant == Spec => []NoRouteOnlyIfUnmatched
<1>1. Init => NotFoundYet
  BY DEF Init, NotFoundYet
<1>2. LoopInv /\ NotFoundYet /\ [Next]_vars => NotFoundYet'
  BY NotFoundStep
<1>3. NotFoundYet => NoRouteOnlyIfUnmatched
  BY DEF NotFoundYet, NoRouteOnlyIfUnmatched, Alive
<1> QED BY <1>1, <1>2, <1>3, LoopInvariant, PTL DEF Spec

-----------------------------------------------------------------------------
(* What a step does to the bytes that a peer has sent, to the wires and to the *)
(* route table.                                                                *)

\* All that ever happens to the bytes a peer has sent: it sends a header or the
\* payload that was missing, the router takes a chunk, the connection is closed.
Idled(x)      == inb'[x] = inb[x] /\ sent'[x] = sent[x] /\ half'[x] = half[x]
Consumed(x)   == /\ inb[x] # <<>> /\ inb'[x] = Tail(inb[x])
                 /\ sent'[x] = sent[x] /\ half'[x] = half[x]
Emptied(x)    == inb'[x] = <<>> /\ sent'[x] = sent[x] /\ half'[x] = NoHeader
HeaderSent(x) == \E h \in Header :
                   /\ h.from = x /\ h.seq = sent[x] /\ h.msg \in Sends[x]
                   /\ inb'[x] = Append(inb[x], [part |-> "header", hdr |-> h])
                   /\ sent'[x] = sent[x] + 1
                   /\ half'[x] \in {h, NoHeader}
PayloadSent(x) == /\ half[x] \in Header
                  /\ inb'[x] = Append(inb[x], [part |-> "payload", hdr |-> half[x]])
                  /\ sent'[x] = sent[x] /\ half'[x] = NoHeader

LEMMA SendingStep ==
  ASSUME LoopInv, [Next]_vars, NEW x \in Conns
  PROVE  Idled(x) \/ Consumed(x) \/ Emptied(x) \/ HeaderSent(x) \/ PayloadSent(x)
<1>0. /\ half \in [Conns -> Header \cup {NoHeader}]
      /\ inb \in [Conns -> Seq(InChunk)]
      /\ sent \in [Conns -> Nat]
      /\ pc = "clear" => cur \in Conns
  BY DEF LoopInv, TypeOK, DispatchLoop
<1>1. CASE UNCHANGED <<inb, half, sent>>
  BY <1>1 DEF Idled
<1>2. ASSUME NEW c \in Conns, ReadHeader(c) \/ ReadPayload(c)
      PROVE  Idled(x) \/ Consumed(x)
  BY <1>0, <1>2 DEF ReadHeader, ReadPayload, RecvFails, Idled, Consumed
<1>3. CASE CloseClient
  BY <1>0, <1>3 DEF CloseClient, Idled, Emptied
<1>4. ASSUME NEW c \in Conns, PeerSendHeader(c) PROVE Idled(x) \/ HeaderSent(x)
  <2> PICK m \in Sends[c] :
        LET h == [from |-> c, seq |-> sent[c], msg |-> m] IN
        /\ inb' = [inb EXCEPT ![c] = Append(@, [part |-> "header", hdr |-> h])]
        /\ half' = [half EXCEPT ![c] = IF m.empty THEN NoHeader ELSE h]
    BY <1>4 DEF PeerSendHeader
  <2> DEFINE h == [from |-> c, seq |-> sent[c], msg |-> m]
  <2>1. sent' = [sent EXCEPT ![c] = @ + 1]
    BY <1>4 DEF PeerSendHeader
  <2>2. h \in Header /\ h.from = c /\ h.seq = sent[c] /\ h.msg \in Sends[c]
    BY SentHeaderType DEF LoopInv
  <2>3. CASE x = c
    <3>1. /\ inb'[c] = Append(inb[c], [part |-> "header", hdr |-> h])
          /\ half'[c] \in {h, NoHeader} /\ sent'[c] = sent[c] + 1
      BY <1>0, <2>1
    <3> QED BY <2>2, <2>3, <3>1 DEF HeaderSent
  <2>4. CASE x # c
    BY <1>0, <2>1, <2>4 DEF Idled
  <2> QED BY <2>3, <2>4
<1>5. ASSUME NEW c \in Conns, PeerSendPayload(c) PROVE Idled(x) \/ PayloadSent(x)
  BY <1>0, <1>5 DEF PeerSendPayload, Idled, PayloadSent
<1>6. ASSUME ~CloseClient,
             ~ \E c \in Conns : \/ ReadHeader(c) \/ ReadPayload(c)
                                \/ PeerSendHeader(c) \/ PeerSendPayload(c)
      PROVE  UNCHANGED <<inb, half, sent>>
  BY <1>6 DEF Next, RouterStep, PeerStep, ReadClient, Dispatch, vars, peerVars,
     Select, Accept, SkipClient, ClientsDone, ReadPreamble, DropClient, ClearRoute,
     DispatchSkip, DispatchLocal, ForwardHeader, ForwardPayload, ForwardFails, DispatchDone,
     NoRouteHeader, NoRoutePayload, NoRouteAborts, PeerConnect, PeerRecv, PeerClose, SocketReset
<1> QED BY <1>1, <1>2, <1>3, <1>4, <1>5, <1>6

\* Chunks put at the end of, and taken from the front of, what was sent.
LEMMA InboxAppend ==
  ASSUME LoopInv, NEW c \in Conns, NEW x \in InChunk, inb'[c] = Append(inb[c], x)
  PROVE  /\ Len(inb[c]) \in Nat /\ Len(inb'[c]) = Len(inb[c]) + 1
         /\ \A k \in 1..Len(inb[c]) : inb'[c][k] = inb[c][k]
         /\ inb'[c][Len(inb[c]) + 1] = x
<1>1. inb[c] \in Seq(InChunk)
  BY DEF LoopInv, TypeOK
<1> QED BY <1>1, AppendProperties, LenProperties

LEMMA InboxTail ==
  ASSUME LoopInv, NEW c \in Conns, inb[c] # <<>>, inb'[c] = Tail(inb[c])
  PROVE  /\ Len(inb[c]) \in Nat \ {0} /\ Len(inb'[c]) = Len(inb[c]) - 1
         /\ Head(inb[c]) = inb[c][1]
         /\ \A k \in 1..Len(inb'[c]) : k + 1 \in 2..Len(inb[c]) /\ inb'[c][k] = inb[c][k + 1]
<1>1. inb[c] \in Seq(InChunk) /\ Len(inb[c]) \in Nat
  BY DEF LoopInv, TypeOK
<1>2. /\ Head(inb[c]) = inb[c][1] /\ Len(inb[c]) # 0
      /\ Len(Tail(inb[c])) = Len(inb[c]) - 1
      /\ \A k \in 1..Len(inb[c]) - 1 : Tail(inb[c])[k] = inb[c][k + 1]
  BY <1>1
<1>3. \A k \in 1..Len(inb[c]) - 1 : k + 1 \in 2..Len(inb[c])
  BY <1>1
<1> QED BY <1>1, <1>2, <1>3

\* The header of a client is overwritten by the next one it sends and cleared with it.
LEMMA HeaderStep ==
  ASSUME LoopInv, [Next]_vars, NEW c \in Conns
  PROVE  hdr'[c] \in {hdr[c], NoHeader} \/ ReadHeader(c)
<1>0. hdr \in [Conns -> Header \cup {NoHeader}]
  BY DEF LoopInv, TypeOK
<1>1. ASSUME FinishFrame PROVE hdr'[c] \in {hdr[c], NoHeader}
  BY <1>0, <1>1 DEF FinishFrame
<1>2. CASE DispatchDone \/ NoRoutePayload
  BY <1>1, <1>2 DEF DispatchDone, NoRoutePayload
<1>3. CASE Accept
  BY <1>0, <1>3 DEF Accept
<1>4. ASSUME NEW d \in Conns, ReadHeader(d), d # c PROVE hdr'[c] = hdr[c]
  BY <1>0, <1>4 DEF ReadHeader
<1>5. ASSUME ~DispatchDone, ~NoRoutePayload, ~Accept, ~ \E d \in Conns : ReadHeader(d)
      PROVE  hdr' = hdr
  BY <1>5 DEF Next, RouterStep, PeerStep, ReadClient, Dispatch, vars, routerVars,
     Select, SkipClient, ClientsDone, ReadPreamble, ReadPayload, DropClient, ClearRoute,
     CloseClient, DispatchSkip, DispatchLocal, ForwardHeader, ForwardPayload, ForwardFails,
     NoRouteHeader, NoRouteAborts, PeerConnect, PeerSendHeader, PeerSendPayload, PeerRecv,
     PeerClose, SocketReset
<1> QED BY <1>2, <1>3, <1>4, <1>5

\* What is forwarded is forwarded along a matching entry.
ForwardMatches == pc = "forward" => IsMatch(routes[di])

LEMMA ForwardMatchesStep ==
  ASSUME LoopInv, ForwardMatches, [Next]_vars
  PROVE  ForwardMatches'
<1>1. CASE ForwardHeader
  BY <1>1 DEF ForwardHeader, Forwards, ForwardMatches, IsMatch, Msg
<1>2. ASSUME NEW c \in Conns, PeerStep(c) PROVE ForwardMatches'
  BY <1>2, PeerSockets DEF routerVars, ForwardMatches, IsMatch, Msg
<1>3. CASE UNCHANGED vars
  BY <1>3 DEF vars, ForwardMatches, IsMatch, Msg
<1>4. ASSUME \/ Select \/ Accept \/ SkipClient \/ ClientsDone \/ ClearRoute \/ CloseClient
             \/ \E c \in Conns : ReadClient(c)
      PROVE  ForwardMatches'
  BY <1>4 DEF ForwardMatches, Select, Accept, SkipClient, ClientsDone, ClearRoute,
       CloseClient, ReadClient, ReadPreamble, ReadHeader, ReadPayload, DropClient, Reads
<1>5. ASSUME \/ DispatchSkip \/ DispatchLocal \/ ForwardPayload \/ ForwardFails
             \/ DispatchDone \/ NoRouteHeader \/ NoRoutePayload \/ NoRouteAborts
      PROVE  ForwardMatches'
  BY <1>5 DEF ForwardMatches, DispatchSkip, DispatchLocal, ForwardPayload, ForwardFails,
       DispatchDone, NoRouteHeader, NoRoutePayload, NoRouteAborts, FinishFrame
<1> QED BY <1>1, <1>2, <1>3, <1>4, <1>5 DEF Next, RouterStep, Dispatch

\* send() puts one chunk at the end of the wire of a living peer and changes no
\* other wire; of a peer that has closed, it is lost.
LEMMA WireSent ==
  ASSUME LoopInv, NEW c \in Conns, NEW chunk \in OutChunk, SendOK(c, chunk)
  PROVE  /\ \A x \in Conns \ {c} : wire'[x] = wire[x]
         /\ Len(wire[c]) \in Nat
         /\ Alive(c) \/ peer[c] = "closed"
         /\ ~Alive(c) => wire'[c] = wire[c]
         /\ Alive(c) => /\ wire'[c] = Append(wire[c], chunk)
                        /\ Len(wire'[c]) = Len(wire[c]) + 1
                        /\ \A k \in 1..Len(wire[c]) : wire'[c][k] = wire[c][k]
                        /\ wire'[c][Len(wire[c]) + 1] = chunk
<1>1. wire \in [Conns -> Seq(OutChunk)]
  BY DEF LoopInv, TypeOK
<1>2. wire[c] \in Seq(OutChunk) /\ Len(wire[c]) \in Nat
  BY <1>1, LenProperties
<1>3. CASE Alive(c) /\ wire' = [wire EXCEPT ![c] = Append(@, chunk)]
  <2>1. wire'[c] = Append(wire[c], chunk) /\ \A x \in Conns \ {c} : wire'[x] = wire[x]
    BY <1>1, <1>3
  <2> QED BY <1>2, <1>3, <2>1, AppendProperties
<1>4. CASE peer[c] = "closed" /\ UNCHANGED wire
  BY <1>2, <1>4 DEF Alive
<1> QED BY <1>3, <1>4 DEF SendOK

\* What both sends of rtRouted_ForwardMessage have in common.
LEMMA Forwarding ==
  ASSUME LoopInv, ForwardMatches, NEW p \in {"header", "payload"},
         IF p = "header" THEN ForwardHeader ELSE ForwardPayload
  PROVE  /\ di \in 1..Len(routes) /\ di <= dn /\ routes[di] \in Route
         /\ routes[di].client \in Conns
         /\ routes[di].handler = "ForwardMessage" /\ IsMatch(routes[di])
         /\ Dispatching /\ cur \in Conns /\ hdr[cur] \in Header
         /\ OutChunkFor(routes[di], p) \in OutChunk
         /\ SendOK(routes[di].client, OutChunkFor(routes[di], p))
         /\ pc = IF p = "header" THEN "dispatch" ELSE "forward"
         /\ pc' = IF p = "header" THEN "forward" ELSE "dispatch"
         /\ di' = IF p = "header" THEN di ELSE di + 1
         /\ UNCHANGED <<ready, clients, routes, rd, hdr, cur, i, n, dn,
                        peer, backlog, inb, taken, half, sent, subs>>
<1>1. CASE p = "header"
  <2>1. /\ Forwards
        /\ SendOK(routes[di].client, OutChunkFor(routes[di], p))
        /\ pc' = "forward" /\ di' = di
        /\ UNCHANGED <<ready, clients, routes, rd, hdr, cur, i, n, dn,
                       peer, backlog, inb, taken, half, sent, subs>>
    BY <1>1 DEF ForwardHeader
  <2>2. /\ pc = "dispatch" /\ di <= dn
        /\ routes[di].handler = "ForwardMessage" /\ IsMatch(routes[di])
    BY <2>1 DEF Forwards
  <2>3. di \in 1..Len(routes) /\ routes[di] \in Route
    BY <2>2, RouteAtHand
  <2>4. Dispatching
    BY <2>2 DEF Dispatching
  <2>5. cur \in Conns /\ hdr[cur] \in Header
    BY <2>4, MessageAtHand
  <2>6. routes[di].client \in Conns
    BY <2>2, <2>3 DEF LoopInv, ForwardRoutesHaveClients
  <2>7. OutChunkFor(routes[di], p) \in OutChunk
    BY <2>3, <2>5, OutChunkTypes DEF LoopInv
  <2> QED BY <1>1, <2>1, <2>2, <2>3, <2>4, <2>5, <2>6, <2>7
<1>2. CASE p = "payload"
  <2>1. /\ pc = "forward"
        /\ SendOK(routes[di].client, OutChunkFor(routes[di], p))
        /\ pc' = "dispatch" /\ di' = di + 1
        /\ UNCHANGED <<ready, clients, routes, rd, hdr, cur, i, n, dn,
                       peer, backlog, inb, taken, half, sent, subs>>
    BY <1>2 DEF ForwardPayload
  <2>2. /\ di <= dn
        /\ routes[di].handler = "ForwardMessage" /\ IsMatch(routes[di])
    BY <2>1 DEF LoopInv, DispatchLoop, ForwardMatches
  <2>3. di \in 1..Len(routes) /\ routes[di] \in Route
    BY <2>1, RouteAtHand
  <2>4. Dispatching
    BY <2>1 DEF Dispatching
  <2>5. cur \in Conns /\ hdr[cur] \in Header
    BY <2>4, MessageAtHand
  <2>6. routes[di].client \in Conns
    BY <2>2, <2>3 DEF LoopInv, ForwardRoutesHaveClients
  <2>7. OutChunkFor(routes[di], p) \in OutChunk
    BY <2>3, <2>5, OutChunkTypes DEF LoopInv
  <2> QED BY <1>2, <2>1, <2>2, <2>3, <2>4, <2>5, <2>6, <2>7
<1> QED BY <1>1, <1>2

\* What both sends of the no-route answer have in common.
LEMMA Answering ==
  ASSUME LoopInv, NEW p \in {"header", "payload"},
         IF p = "header" THEN NoRouteHeader ELSE NoRoutePayload
  PROVE  /\ Dispatching /\ cur \in Conns /\ hdr[cur] \in Header
         /\ ErrorChunk(p) \in OutChunk /\ SendOK(cur, ErrorChunk(p))
         /\ pc = IF p = "header" THEN "noroute" ELSE "noroutePayload"
         /\ pc' = IF p = "header" THEN "noroutePayload" ELSE "clients"
         /\ UNCHANGED <<ready, clients, routes, n, peer, backlog, inb, taken, half, sent, subs>>
         /\ \A x \in Conns : rd'[x] = "payload" => rd[x] = "payload" /\ hdr'[x] = hdr[x]
         /\ rd'[cur] = IF p = "header" THEN rd[cur] ELSE "preamble"
         /\ cur' = IF p = "header" THEN cur ELSE NoConn
<1>0. /\ rd \in [Conns -> {"preamble", "header", "payload"}]
      /\ hdr \in [Conns -> Header \cup {NoHeader}]
  BY DEF LoopInv, TypeOK
<1>1. pc = (IF p = "header" THEN "noroute" ELSE "noroutePayload") /\ SendOK(cur, ErrorChunk(p))
  BY DEF NoRouteHeader, NoRoutePayload
<1>2. Dispatching
  BY <1>1 DEF Dispatching
<1>3. cur \in Conns /\ hdr[cur] \in Header
  BY <1>2, MessageAtHand
<1>4. ErrorChunk(p) \in OutChunk
  BY OutChunkTypes DEF LoopInv
<1>5. CASE p = "header"
  BY <1>1, <1>2, <1>3, <1>4, <1>5 DEF NoRouteHeader
<1>6. CASE p = "payload"
  BY <1>0, <1>1, <1>2, <1>3, <1>4, <1>6 DEF NoRoutePayload, FinishFrame
<1> QED BY <1>5, <1>6

\* Only the four sends and the end of a connection touch a wire.
LEMMA WireKept ==
  ASSUME [Next]_vars,
         ~ForwardHeader, ~ForwardPayload, ~NoRouteHeader, ~NoRoutePayload, ~CloseClient
  PROVE  wire' = wire
BY DEF Next, RouterStep, PeerStep, ReadClient, Dispatch, vars, peerVars,
       Select, Accept, SkipClient, ClientsDone, ReadPreamble, ReadHeader, ReadPayload,
       DropClient, ClearRoute, DispatchSkip, DispatchLocal, ForwardFails, DispatchDone,
       NoRouteAborts, PeerConnect, PeerSendHeader, PeerSendPayload, PeerRecv, PeerClose,
       SocketReset

\* Only DispatchLocal and ClearRoute touch the route table.
LEMMA RoutesKept ==
  ASSUME [Next]_vars, ~ClearRoute, ~DispatchLocal
  PROVE  routes' = routes
BY DEF Next, RouterStep, PeerStep, ReadClient, Dispatch, vars, routerVars,
       Select, Accept, SkipClient, ClientsDone, ReadPreamble, ReadHeader, ReadPayload,
       DropClient, CloseClient, DispatchSkip, ForwardHeader, ForwardPayload, ForwardFails,
       DispatchDone, NoRouteHeader, NoRoutePayload, NoRouteAborts, PeerConnect,
       PeerSendHeader, PeerSendPayload, PeerRecv, PeerClose, SocketReset

\* What a step may do to a wire.
Forwarded(x) ==
  \E p \in {"header", "payload"} :
    /\ IF p = "header" THEN ForwardHeader ELSE ForwardPayload
    /\ Alive(x) /\ x = routes[di].client
    /\ wire'[x] = Append(wire[x], OutChunkFor(routes[di], p))
Answered(x) ==
  \E p \in {"header", "payload"} :
    /\ IF p = "header" THEN NoRouteHeader ELSE NoRoutePayload
    /\ Alive(x) /\ x = cur
    /\ wire'[x] = Append(wire[x], ErrorChunk(p))

LEMMA WireStep ==
  ASSUME LoopInv, ForwardMatches, [Next]_vars, NEW x \in Conns
  PROVE  \/ wire'[x] = wire[x]
         \/ CloseClient /\ x = cur /\ wire'[x] = <<>>
         \/ Forwarded(x)
         \/ Answered(x)
<1>1. ASSUME NEW p \in {"header", "payload"},
             IF p = "header" THEN ForwardHeader ELSE ForwardPayload
      PROVE  wire'[x] = wire[x] \/ Forwarded(x)
  <2>1. /\ routes[di].client \in Conns /\ OutChunkFor(routes[di], p) \in OutChunk
        /\ SendOK(routes[di].client, OutChunkFor(routes[di], p))
    BY <1>1, Forwarding
  <2>2. \/ wire'[x] = wire[x]
        \/ /\ Alive(x) /\ x = routes[di].client
           /\ wire'[x] = Append(wire[x], OutChunkFor(routes[di], p))
    BY <2>1, WireSent
  <2> QED BY <1>1, <2>2 DEF Forwarded
<1>2. ASSUME NEW p \in {"header", "payload"},
             IF p = "header" THEN NoRouteHeader ELSE NoRoutePayload
      PROVE  wire'[x] = wire[x] \/ Answered(x)
  <2>1. cur \in Conns /\ ErrorChunk(p) \in OutChunk /\ SendOK(cur, ErrorChunk(p))
    BY <1>2, Answering
  <2>2. \/ wire'[x] = wire[x]
        \/ Alive(x) /\ x = cur /\ wire'[x] = Append(wire[x], ErrorChunk(p))
    BY <2>1, WireSent
  <2> QED BY <1>2, <2>2 DEF Answered
<1>3. CASE CloseClient
  <2>1. wire' = [wire EXCEPT ![cur] = <<>>] /\ wire \in [Conns -> Seq(OutChunk)]
    BY <1>3 DEF CloseClient, LoopInv, TypeOK
  <2> QED BY <1>3, <2>1
<1>4. CASE ForwardHeader
  BY <1>1, <1>4
<1>5. CASE ForwardPayload
  BY <1>1, <1>5
<1>6. CASE NoRouteHeader
  BY <1>2, <1>6
<1>7. CASE NoRoutePayload
  BY <1>2, <1>7
<1> QED BY <1>3, <1>4, <1>5, <1>6, <1>7, WireKept

LEMMA WireAppend ==
  ASSUME LoopInv, NEW c \in Conns, NEW v \in OutChunk, wire'[c] = Append(wire[c], v)
  PROVE  /\ Len(wire[c]) \in Nat /\ Len(wire'[c]) = Len(wire[c]) + 1
         /\ \A k \in 1..Len(wire[c]) : wire'[c][k] = wire[c][k]
         /\ wire'[c][Len(wire[c]) + 1] = v
         /\ \A k \in 1..Len(wire'[c]) : k \in 1..Len(wire[c]) \/ k = Len(wire[c]) + 1
<1>1. wire[c] \in Seq(OutChunk) /\ Len(wire[c]) \in Nat
  BY LenProperties DEF LoopInv, TypeOK
<1>2. /\ Len(wire'[c]) = Len(wire[c]) + 1
      /\ \A k \in 1..Len(wire[c]) : wire'[c][k] = wire[c][k]
      /\ wire'[c][Len(wire[c]) + 1] = v
  BY <1>1, AppendProperties
<1> QED BY <1>1, <1>2

LEMMA WireTypes ==
  ASSUME LoopInv, NEW c \in Conns
  PROVE  /\ Len(wire[c]) \in Nat
         /\ \A k \in 1..Len(wire[c]) : /\ wire[c][k] \in OutChunk
                                       /\ wire[c][k].seq \in Nat
                                       /\ wire[c][k].from \in Conns \cup {NoConn}
<1>1. wire[c] \in Seq(OutChunk) /\ Len(wire[c]) \in Nat
  BY LenProperties DEF LoopInv, TypeOK
<1>2. \A k \in 1..Len(wire[c]) : wire[c][k] \in OutChunk
  BY <1>1
<1> QED BY <1>1, <1>2 DEF OutChunk

-----------------------------------------------------------------------------
(* Forwarded only to who asked.  The subscription of a route is followed back *)
(* to its connection: from the wire to the route, from the route to the        *)
(* control message at hand, from that to what the peer sent on this very life  *)
(* of the slot.                                                                *)

Asked(s, m) == m.topic \in Control => <<m.id, m.exp>> \in s

ControlAsked ==
  \A c \in Conns :
    /\ Asked(subs[c], half[c].msg)
    /\ \A k \in 1..Len(inb[c]) : Asked(subs[c], inb[c][k].hdr.msg)
    /\ IsClient(c) /\ rd[c] = "payload" => Asked(subs[c], hdr[c].msg)

RoutesAsked ==
  \A k \in 1..Len(routes) :
    routes[k].client # NoConn =>
      <<routes[k].id, routes[k].exp>> \in subs[routes[k].client]

\* A dispatch step leaves what the peers sent and asked for alone, and the header
\* of every client whose payload is still to come.
LEMMA DispatchAsked ==
  ASSUME LoopInv, Dispatch
  PROVE  /\ UNCHANGED <<clients, inb, half, subs>>
         /\ \A x \in Conns : rd'[x] = "payload" => rd[x] = "payload" /\ hdr'[x] = hdr[x]
<1>1. /\ rd \in [Conns -> {"preamble", "header", "payload"}]
      /\ hdr \in [Conns -> Header \cup {NoHeader}]
  BY DEF LoopInv, TypeOK
<1>2. ASSUME FinishFrame
      PROVE  \A x \in Conns : rd'[x] = "payload" => rd[x] = "payload" /\ hdr'[x] = hdr[x]
  BY <1>1, <1>2 DEF FinishFrame
<1>3. CASE \/ DispatchSkip \/ DispatchLocal
           \/ ForwardHeader \/ ForwardPayload \/ ForwardFails
           \/ NoRouteHeader \/ NoRouteAborts
  BY <1>3 DEF DispatchSkip, DispatchLocal, ForwardHeader, ForwardPayload, ForwardFails,
       NoRouteHeader, NoRouteAborts, peerVars
<1>4. CASE DispatchDone
  BY <1>2, <1>4 DEF DispatchDone, peerVars
<1>5. CASE NoRoutePayload
  BY <1>2, <1>5 DEF NoRoutePayload
<1> QED BY <1>3, <1>4, <1>5 DEF Dispatch

LEMMA ControlAskedStep ==
  ASSUME LoopInv, SlotsApart, ControlAsked, [Next]_vars
  PROVE  ControlAsked'
<1>0. /\ rd \in [Conns -> {"preamble", "header", "payload"}]
      /\ hdr \in [Conns -> Header \cup {NoHeader}]
      /\ half \in [Conns -> Header \cup {NoHeader}]
      /\ inb \in [Conns -> Seq(InChunk)]
      /\ subs \in [Conns -> SUBSET (Nat \X Exprs)]
      /\ \A k \in 1..Len(clients) : clients[k] \in Conns
      /\ Len(clients) \in Nat
  BY VectorTypes DEF LoopInv, TypeOK
<1>1. ASSUME UNCHANGED <<inb, half, subs>>,
             \A c \in Conns : IsClient(c)' /\ rd'[c] = "payload" =>
               IsClient(c) /\ rd[c] = "payload" /\ hdr'[c] = hdr[c]
      PROVE  ControlAsked'
  BY <1>1 DEF ControlAsked, Asked
<1>2. ASSUME UNCHANGED <<inb, half, subs, clients>>,
             \A c \in Conns : rd'[c] = "payload" => rd[c] = "payload" /\ hdr'[c] = hdr[c]
      PROVE  ControlAsked'
  BY <1>1, <1>2 DEF IsClient
<1>3. CASE Dispatch
  BY <1>2, <1>3, DispatchAsked
<1>4. CASE Select \/ SkipClient \/ ClientsDone
  BY <1>2, <1>4 DEF Select, SkipClient, ClientsDone, peerVars
<1>5. CASE ClearRoute
  BY <1>2, <1>5, ClearRoutes DEF peerVars
<1>6. CASE Accept
  <2>1. UNCHANGED <<inb, half, subs>>
    BY <1>6 DEF Accept
  <2>2. CASE UNCHANGED <<clients, backlog, rd, hdr>>
    BY <1>2, <2>1, <2>2
  <2>3. CASE Listener \in ready
    <3> PICK b \in backlog :
          /\ clients' = Append(clients, b)
          /\ rd' = [rd EXCEPT ![b] = "preamble"]
          /\ hdr' = [hdr EXCEPT ![b] = NoHeader]
      BY <1>6, <2>3 DEF Accept
    <3>1. b \in Conns
      BY DEF LoopInv, TypeOK
    <3>2. /\ Len(clients') = Len(clients) + 1
          /\ \A k \in 1..Len(clients) : clients'[k] = clients[k]
          /\ clients'[Len(clients) + 1] = b
      BY <3>1, VectorTypes, AppendProperties
    <3>3. ASSUME NEW c \in Conns, IsClient(c)', rd'[c] = "payload"
          PROVE  IsClient(c) /\ rd[c] = "payload" /\ hdr'[c] = hdr[c]
      <4>1. c # b
        BY <1>0, <3>3
      <4>2. PICK k \in 1..Len(clients') : clients'[k] = c
        BY <3>3 DEF IsClient
      <4>3. k \in 1..Len(clients) /\ clients[k] = c
        BY <1>0, <3>2, <4>1, <4>2
      <4> QED BY <1>0, <3>3, <4>1, <4>3 DEF IsClient
    <3> QED BY <1>1, <2>1, <3>3
  <2> QED BY <1>6, <2>2, <2>3 DEF Accept
<1>7. ASSUME NEW c \in Conns, DropClient(c) PROVE ControlAsked'
  <2>1. /\ i \in 1..Len(clients) /\ UNCHANGED <<rd, hdr, inb, half, subs>>
        /\ Len(clients') = Len(clients) - 1
        /\ \A j \in 1..Len(clients) - 1 :
             clients'[j] = IF j < i THEN clients[j] ELSE clients[j + 1]
    BY <1>7, DropClients DEF peerVars
  <2>2. ASSUME NEW x \in Conns, IsClient(x)' PROVE IsClient(x)
    <3>1. PICK j \in 1..Len(clients') : clients'[j] = x
      BY <2>2 DEF IsClient
    <3>2. j \in 1..Len(clients) /\ j + 1 \in 1..Len(clients)
      BY <1>0, <2>1
    <3> QED BY <2>1, <3>1, <3>2 DEF IsClient
  <2> QED BY <1>1, <2>1, <2>2
<1>8. ASSUME NEW c \in Conns, ReadPreamble(c) PROVE ControlAsked'
  <2>1. rd' = [rd EXCEPT ![c] = "header"] /\ UNCHANGED <<inb, half, subs, clients, hdr>>
    BY <1>8 DEF ReadPreamble, peerVars
  <2> QED BY <1>0, <1>2, <2>1
<1>9. ASSUME NEW c \in Conns, inb[c] # <<>>, inb' = [inb EXCEPT ![c] = Tail(@)],
             UNCHANGED <<half, subs, clients>>,
             \A x \in Conns : rd'[x] = "payload" =>
               \/ rd[x] = "payload" /\ hdr'[x] = hdr[x]
               \/ x = c /\ hdr'[c] = Head(inb[c]).hdr
      PROVE  ControlAsked'
  <2>1. /\ inb[c] \in Seq(InChunk) /\ Len(inb[c]) \in Nat /\ Len(inb[c]) # 0
        /\ Head(inb[c]) = inb[c][1]
        /\ Len(Tail(inb[c])) = Len(inb[c]) - 1
        /\ \A k \in 1..Len(inb[c]) - 1 : Tail(inb[c])[k] = inb[c][k + 1]
    BY <1>0, <1>9
  <2>2. \A x \in Conns : x # c => inb'[x] = inb[x]
    BY <1>0, <1>9
  <2>3. inb'[c] = Tail(inb[c])
    BY <1>0, <1>9
  <2>4. ASSUME NEW x \in Conns, NEW k \in 1..Len(inb'[x])
        PROVE  Asked(subs'[x], inb'[x][k].hdr.msg)
    <3>1. CASE x = c
      <4>1. k + 1 \in 1..Len(inb[c]) /\ inb'[x][k] = inb[c][k + 1]
        <5>1. k \in 1..Len(inb[c]) - 1 /\ inb'[x][k] = Tail(inb[c])[k]
          BY <2>1, <2>3, <3>1
        <5> QED BY <2>1, <5>1
      <4>2. Asked(subs[c], inb[c][k + 1].hdr.msg)
        BY <4>1 DEF ControlAsked
      <4> QED BY <1>9, <3>1, <4>1, <4>2 DEF Asked
    <3>2. CASE x # c
      <4>1. inb'[x] = inb[x]
        BY <2>2, <3>2
      <4>2. Asked(subs[x], inb[x][k].hdr.msg)
        BY <4>1 DEF ControlAsked
      <4> QED BY <1>9, <4>1, <4>2 DEF Asked
    <3> QED BY <3>1, <3>2
  <2>5. Asked(subs[c], Head(inb[c]).hdr.msg)
    <3>1. 1 \in 1..Len(inb[c])
      BY <2>1
    <3> QED BY <2>1, <3>1 DEF ControlAsked
  <2>6. ASSUME NEW x \in Conns, IsClient(x)', rd'[x] = "payload"
        PROVE  Asked(subs[x], hdr'[x].msg)
    BY <1>9, <2>5, <2>6 DEF ControlAsked, IsClient
  <2>7. \A x \in Conns : Asked(subs'[x], half'[x].msg)
    BY <1>9 DEF ControlAsked, Asked
  <2>8. \A x \in Conns : IsClient(x)' /\ rd'[x] = "payload" => Asked(subs'[x], hdr'[x].msg)
    BY <1>9, <2>6 DEF Asked
  <2> QED BY <2>4, <2>7, <2>8 DEF ControlAsked
<1>10. ASSUME NEW c \in Conns, ReadHeader(c) PROVE ControlAsked'
  <2>1. /\ inb[c] # <<>> /\ inb' = [inb EXCEPT ![c] = Tail(@)]
        /\ UNCHANGED <<half, subs, clients>>
    BY <1>10 DEF ReadHeader, RecvFails
  <2>2. /\ rd' = [rd EXCEPT ![c] = "payload"]
        /\ hdr' = [hdr EXCEPT ![c] = Head(inb[c]).hdr]
    BY <1>10 DEF ReadHeader
  <2>3. \A x \in Conns : rd'[x] = "payload" =>
          \/ rd[x] = "payload" /\ hdr'[x] = hdr[x]
          \/ x = c /\ hdr'[c] = Head(inb[c]).hdr
    BY <1>0, <2>2
  <2> QED BY <1>9, <2>1, <2>3
<1>11. ASSUME NEW c \in Conns, ReadPayload(c) PROVE ControlAsked'
  BY <1>0, <1>9, <1>11 DEF ReadPayload, RecvFails
<1>12. CASE CloseClient
  <2>1. /\ pc = "clear" /\ UNCHANGED <<clients, rd, hdr>>
        /\ inb' = [inb EXCEPT ![cur] = <<>>]
        /\ half' = [half EXCEPT ![cur] = NoHeader]
        /\ subs' = [subs EXCEPT ![cur] = {}]
    BY <1>12 DEF CloseClient
  <2>2. cur \in Conns
    BY <2>1 DEF LoopInv, DispatchLoop
  <2>3. ~IsClient(cur)
    BY <2>1 DEF SlotsApart, IsClient
  <2>4. NoHeader.msg.topic \notin Control
    BY DEF NoHeader, NoMessage, Control
  <2>5. ASSUME NEW x \in Conns
        PROVE  /\ Asked(subs'[x], half'[x].msg)
               /\ \A k \in 1..Len(inb'[x]) : Asked(subs'[x], inb'[x][k].hdr.msg)
               /\ IsClient(x)' /\ rd'[x] = "payload" => Asked(subs'[x], hdr'[x].msg)
    <3>1. CASE x = cur
      <4>1. half'[x] = NoHeader /\ inb'[x] = <<>>
        BY <1>0, <2>1, <2>2, <3>1
      <4>2. Len(inb'[x]) = 0
        BY <4>1
      <4> QED BY <2>1, <2>3, <2>4, <3>1, <4>1, <4>2 DEF Asked, IsClient
    <3>2. CASE x # cur
      <4>1. half'[x] = half[x] /\ inb'[x] = inb[x] /\ subs'[x] = subs[x]
        BY <1>0, <2>1, <3>2
      <4> QED BY <2>1, <4>1 DEF Asked, IsClient, ControlAsked
    <3> QED BY <3>1, <3>2
  <2> QED BY <2>5 DEF ControlAsked
<1>13. ASSUME NEW c \in Conns, NEW h, Asked(subs'[c], h.msg), NEW p,
              [part |-> p, hdr |-> h] \in InChunk,
              inb' = [inb EXCEPT ![c] = Append(@, [part |-> p, hdr |-> h])],
              half'[c] \in {h, NoHeader}, \A x \in Conns \ {c} : half'[x] = half[x],
              \A x \in Conns : subs[x] \subseteq subs'[x],
              UNCHANGED <<clients, rd, hdr>>
       PROVE  ControlAsked'
  <2> DEFINE chunk == [part |-> p, hdr |-> h]
  <2>1. NoHeader.msg.topic \notin Control
    BY DEF NoHeader, NoMessage, Control
  <2>2. ASSUME NEW x \in Conns, NEW m, Asked(subs[x], m) PROVE Asked(subs'[x], m)
    BY <1>13, <2>2 DEF Asked
  <2>3. ASSUME NEW x \in Conns PROVE Asked(subs'[x], half'[x].msg)
    <3>1. CASE x = c
      BY <1>13, <2>1, <3>1 DEF Asked
    <3>2. CASE x # c
      <4>1. half'[x] = half[x] /\ Asked(subs[x], half[x].msg)
        BY <1>13, <3>2 DEF ControlAsked
      <4> QED BY <1>13, <4>1 DEF Asked
    <3> QED BY <3>1, <3>2
  <2>4. ASSUME NEW x \in Conns, NEW k \in 1..Len(inb'[x])
        PROVE  Asked(subs'[x], inb'[x][k].hdr.msg)
    <3>1. CASE x = c
      <4>1. inb[c] \in Seq(InChunk) /\ inb'[c] = Append(inb[c], chunk) /\ chunk \in InChunk
        BY <1>0, <1>13
      <4>2. /\ Len(inb'[c]) = Len(inb[c]) + 1 /\ Len(inb[c]) \in Nat
            /\ \A j \in 1..Len(inb[c]) : inb'[c][j] = inb[c][j]
            /\ inb'[c][Len(inb[c]) + 1] = chunk
        BY <4>1, AppendProperties, LenProperties
      <4>3. CASE k \in 1..Len(inb[c])
        <5>1. Asked(subs[c], inb[c][k].hdr.msg)
          BY <4>3 DEF ControlAsked
        <5> QED BY <1>13, <3>1, <4>2, <4>3, <5>1 DEF Asked
      <4>4. CASE k = Len(inb[c]) + 1
        <5>1. chunk.hdr = h
          OBVIOUS
        <5> HIDE DEF chunk
        <5> QED BY <1>13, <3>1, <4>2, <4>4, <5>1
      <4> QED BY <2>4, <3>1, <4>2, <4>3, <4>4
    <3>2. CASE x # c
      <4>1. inb'[x] = inb[x]
        BY <1>0, <1>13, <3>2
      <4>2. Asked(subs[x], inb[x][k].hdr.msg)
        BY <4>1 DEF ControlAsked
      <4> QED BY <1>13, <4>1, <4>2 DEF Asked
    <3> QED BY <3>1, <3>2
  <2>5. \A x \in Conns : IsClient(x)' /\ rd'[x] = "payload" => Asked(subs'[x], hdr'[x].msg)
    BY <1>13 DEF ControlAsked, Asked, IsClient
  <2> QED BY <2>3, <2>4, <2>5 DEF ControlAsked
<1>14. ASSUME NEW c \in Conns, PeerSendHeader(c) PROVE ControlAsked'
  <2> PICK m \in Sends[c] :
        LET h == [from |-> c, seq |-> sent[c], msg |-> m] IN
        /\ inb' = [inb EXCEPT ![c] = Append(@, [part |-> "header", hdr |-> h])]
        /\ half' = [half EXCEPT ![c] = IF m.empty THEN NoHeader ELSE h]
        /\ subs' = [subs EXCEPT ![c] =
                      IF m.topic \in Control THEN @ \cup {<<m.id, m.exp>>} ELSE @]
    BY <1>14 DEF PeerSendHeader
  <2> DEFINE h == [from |-> c, seq |-> sent[c], msg |-> m]
  <2>1. UNCHANGED <<clients, rd, hdr>>
    BY <1>14 DEF PeerSendHeader, routerVars
  <2>2. [part |-> "header", hdr |-> h] \in InChunk
    BY SentHeaderType DEF LoopInv, InChunk
  <2>3. h.msg = m
    OBVIOUS
  <2>4. Asked(subs'[c], m) /\ \A x \in Conns : subs[x] \subseteq subs'[x]
    BY <1>0 DEF Asked
  <2>5. half'[c] \in {h, NoHeader} /\ \A x \in Conns \ {c} : half'[x] = half[x]
    BY <1>0
  <2>6. inb' = [inb EXCEPT ![c] = Append(@, [part |-> "header", hdr |-> h])]
    OBVIOUS
  <2> HIDE DEF h
  <2>7. Asked(subs'[c], h.msg)
    BY <2>3, <2>4 DEF Asked
  <2> QED BY <1>13, <2>1, <2>2, <2>4, <2>5, <2>6, <2>7
<1>15. ASSUME NEW c \in Conns, PeerSendPayload(c) PROVE ControlAsked'
  <2>1. /\ inb' = [inb EXCEPT ![c] = Append(@, [part |-> "payload", hdr |-> half[c]])]
        /\ half' = [half EXCEPT ![c] = NoHeader] /\ half[c] # NoHeader
        /\ UNCHANGED <<clients, rd, hdr, subs>>
    BY <1>15 DEF PeerSendPayload, routerVars
  <2>2. [part |-> "payload", hdr |-> half[c]] \in InChunk
    BY <1>0, <2>1 DEF InChunk
  <2>3. half'[c] = NoHeader /\ \A x \in Conns \ {c} : half'[x] = half[x]
    BY <1>0, <2>1
  <2>4. Asked(subs[c], half[c].msg)
    BY DEF ControlAsked
  <2>5. half[c].msg.topic \in Control => <<half[c].msg.id, half[c].msg.exp>> \in subs'[c]
    BY <2>1, <2>4 DEF Asked
  <2>6. PICK h : h = half[c]
    OBVIOUS
  <2>7. Asked(subs'[c], h.msg)
    BY <2>5, <2>6 DEF Asked
  <2> QED BY <1>13, <2>1, <2>2, <2>3, <2>6, <2>7
<1>16. ASSUME NEW c \in Conns,
              PeerConnect(c) \/ PeerRecv(c) \/ PeerClose(c) \/ SocketReset(c)
       PROVE  ControlAsked'
  BY <1>2, <1>16 DEF PeerConnect, PeerRecv, PeerClose, SocketReset, routerVars
<1>17. CASE UNCHANGED vars
  BY <1>2, <1>17 DEF vars
<1> QED BY <1>3, <1>4, <1>5, <1>6, <1>7, <1>8, <1>10, <1>11, <1>12, <1>14, <1>15, <1>16, <1>17
       DEF Next, RouterStep, ReadClient, PeerStep

\* Only a peer that asks and the end of a connection change what was asked for.
LEMMA SubsGrow ==
  ASSUME LoopInv, [Next]_vars, ~CloseClient
  PROVE  \A x \in Conns : subs[x] \subseteq subs'[x]
<1>0. subs \in [Conns -> SUBSET (Nat \X Exprs)]
  BY DEF LoopInv, TypeOK
<1>1. CASE \/ Select \/ Accept \/ SkipClient \/ ClientsDone \/ ClearRoute
           \/ \E c \in Conns : ReadClient(c)
  BY <1>1 DEF Select, Accept, SkipClient, ClientsDone, ClearRoute, ReadClient, ReadPreamble,
       ReadHeader, ReadPayload, DropClient, peerVars
<1>2. CASE Dispatch
  BY <1>2, DispatchAsked
<1>3. ASSUME NEW c \in Conns, PeerStep(c) PROVE \A x \in Conns : subs[x] \subseteq subs'[x]
  BY <1>0, <1>3, ZenonT(60) DEF PeerStep, PeerConnect, PeerSendHeader, PeerSendPayload, PeerRecv,
       PeerClose, SocketReset
<1>4. CASE UNCHANGED vars
  BY <1>4 DEF vars
<1> QED BY <1>1, <1>2, <1>3, <1>4 DEF Next, RouterStep

LEMMA RoutesAskedStep ==
  ASSUME LoopInv, NoDanglingRoute, SlotsApart, ControlAsked, RoutesAsked, [Next]_vars
  PROVE  RoutesAsked'
<1>0. /\ Len(routes) \in Nat
      /\ \A k \in 1..Len(routes) : routes[k].client \in Conns \cup {NoConn}
      /\ di \in Nat \ {0}
      /\ subs \in [Conns -> SUBSET (Nat \X Exprs)]
  BY VectorTypes DEF Route, LoopInv, TypeOK
<1>1. ASSUME routes' = routes, ~CloseClient PROVE RoutesAsked'
  BY <1>0, <1>1, SubsGrow DEF RoutesAsked
<1>2. CASE CloseClient
  <2>1. /\ pc = "clear" /\ di > Len(routes) /\ routes' = routes
        /\ subs' = [subs EXCEPT ![cur] = {}]
    BY <1>2 DEF CloseClient
  <2>2. ~IsClient(cur)
    BY <2>1 DEF SlotsApart, IsClient
  <2>3. ASSUME NEW k \in 1..Len(routes), routes[k].client # NoConn
        PROVE  routes[k].client # cur
    BY <1>0, <2>1, <2>2, <2>3 DEF NoDanglingRoute
  <2> QED BY <1>0, <2>1, <2>3 DEF RoutesAsked
<1>3. CASE ClearRoute
  <2>1. /\ di \in 1..Len(routes) /\ subs' = subs
        /\ \/ /\ Len(routes') = Len(routes) - 1
              /\ \A j \in 1..Len(routes) - 1 :
                   routes'[j] = IF j < di THEN routes[j] ELSE routes[j + 1]
           \/ routes' = routes
    BY <1>3, ClearRoutes DEF peerVars
  <2>2. ASSUME NEW k \in 1..Len(routes') PROVE \E j \in 1..Len(routes) : routes'[k] = routes[j]
    <3>1. CASE routes' = routes
      BY <3>1
    <3>2. CASE /\ Len(routes') = Len(routes) - 1
               /\ \A j \in 1..Len(routes) - 1 :
                    routes'[j] = IF j < di THEN routes[j] ELSE routes[j + 1]
      <4>1. k \in 1..Len(routes) /\ k + 1 \in 1..Len(routes) /\ k \in 1..Len(routes) - 1
        BY <1>0, <3>2
      <4> QED BY <3>2, <4>1
    <3> QED BY <2>1, <3>1, <3>2
  <2> QED BY <2>1, <2>2 DEF RoutesAsked
<1>4. CASE DispatchLocal
  <2>1. /\ cur \in Conns /\ IsClient(cur) /\ rd[cur] = "payload" /\ subs' = subs
        /\ \/ routes' = routes
           \/ /\ Msg.topic \in Control
              /\ Len(routes') = Len(routes) + 1
              /\ \A k \in 1..Len(routes) : routes'[k] = routes[k]
              /\ routes'[Len(routes) + 1] = NewRoute
    BY <1>4, LocalRoutes DEF peerVars
  <2>2. Msg.topic \in Control => <<NewRoute.id, NewRoute.exp>> \in subs[NewRoute.client]
    BY <2>1 DEF ControlAsked, Asked, Msg, NewRoute
  <2>3. CASE routes' = routes
    BY <2>1, <2>3 DEF RoutesAsked
  <2>4. CASE routes' # routes
    <3>1. ASSUME NEW k \in 1..Len(routes'), routes'[k].client # NoConn
          PROVE  <<routes'[k].id, routes'[k].exp>> \in subs[routes'[k].client]
      <4>1. CASE k \in 1..Len(routes)
        BY <2>1, <2>4, <3>1, <4>1 DEF RoutesAsked
      <4>2. CASE k = Len(routes) + 1
        BY <2>1, <2>2, <2>4, <4>2
      <4> QED BY <1>0, <2>1, <2>4, <4>1, <4>2
    <3> QED BY <2>1, <3>1 DEF RoutesAsked
  <2> QED BY <2>3, <2>4
<1> QED BY <1>1, <1>2, <1>3, <1>4, RoutesKept

LEMMA ForwardedStep ==
  ASSUME LoopInv, RoutesAsked, ForwardMatches, ForwardedWasSubscribed, [Next]_vars
  PROVE  ForwardedWasSubscribed'
<1> SUFFICES ASSUME NEW c \in Conns, NEW k \in 1..Len(wire'[c]), wire'[c][k].from # NoConn
             PROVE  \E e \in Exprs : /\ <<wire'[c][k].id, e>> \in subs'[c]
                                     /\ <<wire'[c][k].topic, e>> \in Matches
  BY DEF ForwardedWasSubscribed
<1>0. cur \in Conns \/ ~CloseClient
  BY DEF CloseClient, LoopInv, DispatchLoop
<1>1. ASSUME k \in 1..Len(wire[c]), wire'[c][k] = wire[c][k], subs[c] \subseteq subs'[c]
      PROVE  \E e \in Exprs : /\ <<wire'[c][k].id, e>> \in subs'[c]
                              /\ <<wire'[c][k].topic, e>> \in Matches
  BY <1>1 DEF ForwardedWasSubscribed
<1>2. CASE wire'[c] = <<>>
  <2>1. Len(wire'[c]) = 0
    BY <1>2
  <2> QED BY <2>1
<1>3. CASE wire'[c] = wire[c] /\ wire'[c] # <<>>
  <2>1. subs[c] \subseteq subs'[c]
    <3>1. CASE ~CloseClient
      BY <3>1, SubsGrow
    <3>2. CASE CloseClient
      <4>1. /\ wire' = [wire EXCEPT ![cur] = <<>>] /\ subs' = [subs EXCEPT ![cur] = {}]
            /\ wire \in [Conns -> Seq(OutChunk)]
            /\ subs \in [Conns -> SUBSET (Nat \X Exprs)]
        BY <3>2 DEF CloseClient, LoopInv, TypeOK
      <4> QED BY <1>0, <1>3, <3>2, <4>1
    <3> QED BY <3>1, <3>2
  <2> QED BY <1>1, <1>3, <2>1
<1>4. CASE Forwarded(c)
  <2> PICK p \in {"header", "payload"} :
        /\ IF p = "header" THEN ForwardHeader ELSE ForwardPayload
        /\ c = routes[di].client
        /\ wire'[c] = Append(wire[c], OutChunkFor(routes[di], p))
    BY <1>4 DEF Forwarded
  <2>1. /\ OutChunkFor(routes[di], p) \in OutChunk /\ IsMatch(routes[di]) /\ subs' = subs
        /\ di \in 1..Len(routes) /\ routes[di] \in Route
    BY Forwarding
  <2>2. /\ \A j \in 1..Len(wire[c]) : wire'[c][j] = wire[c][j]
        /\ k \in 1..Len(wire[c]) \/ wire'[c][k] = OutChunkFor(routes[di], p)
    BY <2>1, WireAppend
  <2>3. <<routes[di].id, routes[di].exp>> \in subs'[c] /\ routes[di].exp \in Exprs
    <3>1. routes[di].client # NoConn
      BY ConnsAssumption
    <3> QED BY <2>1, <3>1 DEF RoutesAsked, Route
  <2>4. CASE wire'[c][k] = OutChunkFor(routes[di], p)
    <3>1. wire'[c][k].id = routes[di].id /\ wire'[c][k].topic = Msg.topic
      BY <2>4 DEF OutChunkFor
    <3>2. <<Msg.topic, routes[di].exp>> \in Matches
      BY <2>1 DEF IsMatch
    <3> QED BY <2>3, <3>1, <3>2
  <2> QED BY <1>1, <2>1, <2>2, <2>4
<1>5. CASE Answered(c)
  <2> PICK p \in {"header", "payload"} :
        /\ IF p = "header" THEN NoRouteHeader ELSE NoRoutePayload
        /\ wire'[c] = Append(wire[c], ErrorChunk(p))
    BY <1>5 DEF Answered
  <2>1. ErrorChunk(p) \in OutChunk /\ ErrorChunk(p).from = NoConn /\ subs' = subs
    BY Answering DEF ErrorChunk
  <2>2. /\ \A j \in 1..Len(wire[c]) : wire'[c][j] = wire[c][j]
        /\ k \in 1..Len(wire[c]) \/ wire'[c][k] = ErrorChunk(p)
    BY <2>1, WireAppend
  <2> QED BY <1>1, <2>1, <2>2
<1> QED BY <1>2, <1>3, <1>4, <1>5, WireStep

\* Whatever the router forwards to a client, this very connection asked for, with a
\* matching expression and under that subscription id: a slot that is reused
\* inherits nothing, for any number of clients, lives and routes.
THEOREM ForwardedInvariant == Spec => []ForwardedWasSubscribed
<1>1. Init => /\ SlotsApart /\ ControlAsked /\ RoutesAsked /\ ForwardMatches
              /\ ForwardedWasSubscribed
  <2> SUFFICES ASSUME Init
               PROVE  /\ SlotsApart /\ ControlAsked /\ RoutesAsked /\ ForwardMatches
                      /\ ForwardedWasSubscribed
    OBVIOUS
  <2>1. SlotsApart /\ ForwardMatches
    BY DEF Init, SlotsApart, ForwardMatches
  <2>2. RoutesAsked
    BY InitialRoutesType DEF Init, RoutesAsked
  <2>3. \A c \in Conns : half[c] = NoHeader /\ Len(inb[c]) = 0 /\ Len(wire[c]) = 0
                         /\ rd[c] = "preamble"
    BY DEF Init
  <2>4. NoHeader.msg.topic \notin Control
    BY DEF NoHeader, NoMessage, Control
  <2> QED BY <2>1, <2>2, <2>3, <2>4 DEF ControlAsked, Asked, ForwardedWasSubscribed
<1>2. LoopInv /\ NoDanglingRoute /\ SlotsApart /\ ControlAsked /\ RoutesAsked
      /\ ForwardMatches /\ ForwardedWasSubscribed /\ [Next]_vars
        => (SlotsApart /\ ControlAsked /\ RoutesAsked /\ ForwardMatches
            /\ ForwardedWasSubscribed)'
  BY SlotsApartStep, ControlAskedStep, RoutesAskedStep, ForwardMatchesStep, ForwardedStep
<1> QED BY <1>1, <1>2, LoopInvariant, NoDanglingRouteInvariant, PTL DEF Spec

-----------------------------------------------------------------------------
(* Dropped only if gone, and a request never swallowed.                       *)

NoEmptyFrames ==
  \A c \in Conns :
    /\ ~half[c].msg.empty
    /\ ~hdr[c].msg.empty
    /\ \A k \in 1..Len(inb[c]) : ~inb[c][k].hdr.msg.empty

LEMMA NoEmptyFramesStep ==
  ASSUME \A c \in Conns : \A m \in Sends[c] : ~m.empty,
         LoopInv, NoEmptyFrames, [Next]_vars
  PROVE  NoEmptyFrames'
<1> SUFFICES ASSUME NEW c \in Conns
             PROVE  /\ ~half'[c].msg.empty
                    /\ ~hdr'[c].msg.empty
                    /\ \A k \in 1..Len(inb'[c]) : ~inb'[c][k].hdr.msg.empty
  BY DEF NoEmptyFrames
<1>0. ~NoHeader.msg.empty
  BY DEF NoHeader, NoMessage
<1>1. ~hdr'[c].msg.empty
  <2>1. CASE hdr'[c] \in {hdr[c], NoHeader}
    BY <1>0, <2>1 DEF NoEmptyFrames
  <2>2. CASE ReadHeader(c)
    <3>1. inb[c] # <<>> /\ hdr'[c] = Head(inb[c]).hdr
      BY <2>2 DEF ReadHeader, RecvFails, LoopInv, TypeOK
    <3>2. Head(inb[c]) = inb[c][1] /\ 1 \in 1..Len(inb[c])
      BY <3>1 DEF LoopInv, TypeOK
    <3> QED BY <3>1, <3>2 DEF NoEmptyFrames
  <2> QED BY <2>1, <2>2, HeaderStep
<1>2. CASE Idled(c)
  BY <1>1, <1>2 DEF Idled, NoEmptyFrames
<1>3. CASE Consumed(c)
  <2>1. /\ half'[c] = half[c]
        /\ \A k \in 1..Len(inb'[c]) : k + 1 \in 2..Len(inb[c]) /\ inb'[c][k] = inb[c][k + 1]
    BY <1>3, InboxTail DEF Consumed
  <2>2. \A k \in 1..Len(inb'[c]) : k + 1 \in 1..Len(inb[c])
    BY <2>1
  <2> QED BY <1>1, <2>1, <2>2 DEF NoEmptyFrames
<1>4. CASE Emptied(c)
  <2>1. half'[c] = NoHeader /\ Len(inb'[c]) = 0
    BY <1>4 DEF Emptied
  <2> QED BY <1>0, <1>1, <2>1
<1>5. ASSUME NEW h \in Header, ~h.msg.empty, half'[c] \in {h, NoHeader},
             NEW p \in {"header", "payload"},
             inb'[c] = Append(inb[c], [part |-> p, hdr |-> h])
      PROVE  /\ ~half'[c].msg.empty
             /\ \A k \in 1..Len(inb'[c]) : ~inb'[c][k].hdr.msg.empty
  <2>1. [part |-> p, hdr |-> h] \in InChunk
    BY DEF InChunk
  <2>2. /\ Len(inb[c]) \in Nat /\ Len(inb'[c]) = Len(inb[c]) + 1
        /\ \A k \in 1..Len(inb[c]) : inb'[c][k] = inb[c][k]
        /\ inb'[c][Len(inb[c]) + 1].hdr = h
    BY <1>5, <2>1, InboxAppend
  <2>3. \A k \in 1..Len(inb'[c]) : k \in 1..Len(inb[c]) \/ k = Len(inb[c]) + 1
    BY <2>2
  <2> QED BY <1>0, <1>5, <2>2, <2>3 DEF NoEmptyFrames
<1>6. CASE HeaderSent(c)
  BY <1>1, <1>5, <1>6 DEF HeaderSent
<1>7. CASE PayloadSent(c)
  BY <1>1, <1>5, <1>7 DEF PayloadSent, NoEmptyFrames
<1> QED BY <1>2, <1>3, <1>4, <1>6, <1>7, SendingStep

\* The clients vector loses only the client being dropped.
LEMMA OnlyDropDrops ==
  ASSUME LoopInv, [Next]_vars, NEW c \in Conns, IsClient(c), ~IsClient(c)'
  PROVE  DropClient(c)
<1>0. Len(clients) \in Nat
  BY VectorTypes
<1>1. CASE Accept
  <2>1. PICK k \in 1..Len(clients) : clients[k] = c
    BY DEF IsClient
  <2>2. \/ clients' = clients
        \/ /\ Len(clients') = Len(clients) + 1
           /\ \A j \in 1..Len(clients) : clients'[j] = clients[j]
    BY <1>1, AcceptClients
  <2>3. k \in 1..Len(clients') /\ clients'[k] = c
    BY <1>0, <2>1, <2>2
  <2> QED BY <2>3 DEF IsClient
<1>2. ASSUME NEW d \in Conns, DropClient(d) PROVE d = c
  <2>1. /\ i \in 1..Len(clients) /\ clients[i] = d
        /\ Len(clients') = Len(clients) - 1
        /\ \A j \in 1..Len(clients) - 1 :
             clients'[j] = IF j < i THEN clients[j] ELSE clients[j + 1]
    BY <1>2, DropClients
  <2>2. SUFFICES ASSUME d # c PROVE FALSE
    OBVIOUS
  <2>3. PICK k \in 1..Len(clients) : clients[k] = c
    BY DEF IsClient
  <2>4. CASE k < i
    <3>1. k \in 1..Len(clients') /\ k \in 1..Len(clients) - 1
      BY <1>0, <2>1, <2>4
    <3> QED BY <2>1, <2>3, <2>4, <3>1 DEF IsClient
  <2>5. CASE k > i
    <3>1. k - 1 \in 1..Len(clients') /\ k - 1 \in 1..Len(clients) - 1 /\ ~(k - 1 < i)
          /\ (k - 1) + 1 = k
      BY <1>0, <2>1, <2>5
    <3>2. clients'[k - 1] = clients[k]
      BY <2>1, <3>1
    <3> QED BY <2>3, <3>1, <3>2 DEF IsClient
  <2> QED BY <1>0, <2>1, <2>2, <2>3, <2>4, <2>5
<1>3. ASSUME clients' = clients PROVE FALSE
  BY <1>3 DEF IsClient
<1>4. CASE Dispatch
  BY <1>3, <1>4, DispatchAsked
<1>5. CASE ClearRoute
  BY <1>3, <1>5, ClearRoutes
<1>6. CASE \/ Select \/ SkipClient \/ ClientsDone \/ CloseClient \/ UNCHANGED vars
           \/ \E d \in Conns : ReadPreamble(d) \/ ReadHeader(d) \/ ReadPayload(d)
  BY <1>3, <1>6 DEF Select, SkipClient, ClientsDone, CloseClient, ReadPreamble, ReadHeader,
       ReadPayload, vars
<1>7. ASSUME NEW d \in Conns, PeerStep(d) PROVE FALSE
  BY <1>3, <1>7, PeerSockets DEF routerVars
<1> QED BY <1>1, <1>2, <1>4, <1>5, <1>6, <1>7 DEF Next, RouterStep, ReadClient

\* "stream closed" is said of streams that are closed, whatever the clients send as
\* long as they leave no payload empty: rtConnectedClient_Read takes the recv() of
\* zero bytes of an empty payload for the end of the stream.
THEOREM DroppedOnlyIfGoneProperty ==
  ASSUME \A c \in Conns : \A m \in Sends[c] : ~m.empty
  PROVE  Spec => DroppedOnlyIfGone
<1>1. Init => NoEmptyFrames
  <2> SUFFICES ASSUME Init PROVE NoEmptyFrames
    OBVIOUS
  <2>1. \A c \in Conns : half[c] = NoHeader /\ hdr[c] = NoHeader /\ Len(inb[c]) = 0
    BY DEF Init
  <2>2. ~NoHeader.msg.empty
    BY DEF NoHeader, NoMessage
  <2> QED BY <2>1, <2>2 DEF NoEmptyFrames
<1>2. LoopInv /\ NoEmptyFrames /\ [Next]_vars => NoEmptyFrames'
  BY NoEmptyFramesStep
<1>3. LoopInv /\ NoEmptyFrames /\ RecvNeverBlocks /\ [Next]_vars
        => [\A c \in Conns : IsClient(c) /\ ~IsClient(c)' => ~Alive(c)]_vars
  <2> SUFFICES ASSUME LoopInv, NoEmptyFrames, RecvNeverBlocks, [Next]_vars,
                      NEW c \in Conns, IsClient(c), ~IsClient(c)'
               PROVE  ~Alive(c)
    OBVIOUS
  <2>1. Reads(c) /\ RecvFails(c)
    BY OnlyDropDrops DEF DropClient
  <2>2. Readable(c)
    BY <2>1 DEF RecvNeverBlocks
  <2> QED BY <2>1, <2>2 DEF RecvFails, Readable, Alive, NoEmptyFrames
<1> QED BY <1>1, <1>2, <1>3, LoopInvariant, RecvNeverBlocksInvariant, PTL
       DEF Spec, DroppedOnlyIfGone

\* match_found is set by a handler that serves the message.  The one that does not
\* is PrintMessage, which only rtrouted -r has in its table.
FoundMatches ==
  pc \in {"dispatch", "forward"} /\ found =>
    \E k \in 1..Len(routes) : IsMatch(routes[k]) /\ routes[k].handler # "PrintMessage"

NoPrinting == \A k \in 1..Len(routes) : routes[k].handler # "PrintMessage"

LEMMA NoPrintingStep ==
  ASSUME LoopInv, NoPrinting, [Next]_vars
  PROVE  NoPrinting'
<1>0. Len(routes) \in Nat
  BY VectorTypes
<1>1. CASE ClearRoute
  <2>1. CASE /\ di \in 1..Len(routes) /\ Len(routes') = Len(routes) - 1
             /\ \A j \in 1..Len(routes) - 1 :
                  routes'[j] = IF j < di THEN routes[j] ELSE routes[j + 1]
    <3>1. \A j \in 1..Len(routes') : /\ j \in 1..Len(routes) - 1
                                     /\ j \in 1..Len(routes) /\ j + 1 \in 1..Len(routes)
      BY <1>0, <2>1
    <3> QED BY <2>1, <3>1 DEF NoPrinting
  <2>2. CASE routes' = routes
    BY <2>2 DEF NoPrinting
  <2> QED BY <1>1, <2>1, <2>2, ClearRoutes
<1>2. CASE DispatchLocal
  <2>1. CASE /\ Len(routes') = Len(routes) + 1
             /\ \A k \in 1..Len(routes) : routes'[k] = routes[k]
             /\ routes'[Len(routes) + 1] = NewRoute
    <3>1. \A k \in 1..Len(routes') : k \in 1..Len(routes) \/ k = Len(routes) + 1
      BY <1>0, <2>1
    <3>2. NewRoute.handler # "PrintMessage"
      BY DEF NewRoute
    <3> QED BY <2>1, <3>1, <3>2 DEF NoPrinting
  <2>2. CASE routes' = routes
    BY <2>2 DEF NoPrinting
  <2> QED BY <1>2, <2>1, <2>2, LocalRoutes
<1>3. ASSUME ~ClearRoute, ~DispatchLocal PROVE routes' = routes
  BY <1>3, RoutesKept
<1> QED BY <1>1, <1>2, <1>3 DEF NoPrinting

LEMMA FoundMatchesStep ==
  ASSUME LoopInv, ForwardMatches, NoPrinting, FoundMatches, [Next]_vars
  PROVE  FoundMatches'
<1>1. ASSUME pc' \notin {"dispatch", "forward"} \/ ~found' PROVE FoundMatches'
  BY <1>1 DEF FoundMatches
<1>2. ASSUME UNCHANGED <<found, routes, hdr, cur>>,
             pc' \in {"dispatch", "forward"} => pc \in {"dispatch", "forward"}
      PROVE  FoundMatches'
  BY <1>2 DEF FoundMatches, IsMatch, Msg
<1>3. ASSUME di \in 1..Len(routes), IsMatch(routes[di]), UNCHANGED <<hdr, cur>>,
             Len(routes') \in Nat, Len(routes) <= Len(routes'), routes'[di] = routes[di]
      PROVE  FoundMatches'
  <2>1. di \in 1..Len(routes') /\ Len(routes) \in Nat
    BY <1>3, VectorTypes
  <2> QED BY <1>3, <2>1 DEF FoundMatches, IsMatch, Msg, NoPrinting
<1>4. CASE \/ Select \/ Accept \/ SkipClient \/ ClientsDone \/ ClearRoute \/ CloseClient
           \/ \E c \in Conns : ReadClient(c)
  BY <1>1, <1>4 DEF Select, Accept, SkipClient, ClientsDone, ClearRoute, CloseClient,
       ReadClient, ReadPreamble, ReadHeader, ReadPayload, DropClient, Reads
<1>5. CASE DispatchSkip
  BY <1>2, <1>5 DEF DispatchSkip
<1>6. CASE DispatchLocal
  <2>1. /\ di \in 1..Len(routes) /\ IsMatch(routes[di]) /\ UNCHANGED <<hdr, cur>>
        /\ \/ routes' = routes
           \/ /\ Len(routes') = Len(routes) + 1
              /\ \A k \in 1..Len(routes) : routes'[k] = routes[k]
    BY <1>6, LocalRoutes
  <2> QED BY <1>3, <2>1, VectorTypes
<1>7. CASE ForwardHeader \/ ForwardPayload \/ ForwardFails
  <2>1. (pc = "dispatch" /\ di <= dn) \/ pc = "forward"
    BY <1>7 DEF ForwardHeader, ForwardPayload, ForwardFails, Forwards
  <2>2. IsMatch(routes[di]) /\ UNCHANGED <<routes, hdr, cur>>
    BY <1>7 DEF ForwardHeader, ForwardPayload, ForwardFails, Forwards, ForwardMatches
  <2>3. di \in 1..Len(routes)
    BY <2>1, RouteAtHand
  <2> QED BY <1>3, <2>2, <2>3, VectorTypes
<1>8. CASE DispatchDone \/ NoRouteHeader \/ NoRoutePayload \/ NoRouteAborts
  BY <1>1, <1>2, <1>8 DEF DispatchDone, FinishFrame, NoRouteHeader, NoRoutePayload,
       NoRouteAborts
<1>9. ASSUME NEW c \in Conns, PeerStep(c) PROVE FoundMatches'
  BY <1>2, <1>9, PeerSockets DEF routerVars
<1>10. CASE UNCHANGED vars
  BY <1>2, <1>10 DEF vars
<1> QED BY <1>4, <1>5, <1>6, <1>7, <1>8, <1>9, <1>10 DEF Next, RouterStep, Dispatch

LEMMA RequestAnswered ==
  ASSUME LoopInv, FoundMatches, [Next]_vars,
         NEW c \in Conns, cur = c, Dispatching, cur' # c, Msg.req, Alive(c)
  PROVE  \/ \E k \in 1..Len(routes) :
              IsMatch(routes[k]) /\ routes[k].handler # "PrintMessage"
         \/ wire'[c] # <<>> /\ Last(wire'[c]) = ErrorChunk("payload")
<1>1. DispatchDone \/ NoRoutePayload
  BY PeerSockets DEF Next, RouterStep, Dispatch, ReadClient, Dispatching, vars, routerVars,
     Select, Accept, SkipClient, ClientsDone, ClearRoute, CloseClient, ReadPreamble,
     ReadHeader, ReadPayload, DropClient, Reads, DispatchSkip, DispatchLocal, ForwardHeader,
     ForwardPayload, ForwardFails, NoRouteHeader, NoRouteAborts
<1>2. CASE DispatchDone
  BY <1>2 DEF DispatchDone, FoundMatches
<1>3. CASE NoRoutePayload
  <2>1. ErrorChunk("payload") \in OutChunk /\ SendOK(cur, ErrorChunk("payload"))
    BY <1>3, Answering
  <2>2. /\ Len(wire[c]) \in Nat
        /\ Len(wire'[c]) = Len(wire[c]) + 1
        /\ wire'[c][Len(wire[c]) + 1] = ErrorChunk("payload")
    BY <2>1, WireSent
  <2> QED BY <2>2 DEF Last
<1> QED BY <1>1, <1>2, <1>3

\* A request is never swallowed: a route that serves messages matched it, or the
\* caller, if it still lives, has the error on its wire; for any table that the
\* clients make, in a router that does not print every message (-r).
THEOREM ForwardedOrAnsweredProperty ==
  ASSUME ~DebugRoute
  PROVE  Spec => ForwardedOrAnswered
<1>1. Init => ForwardMatches /\ NoPrinting /\ FoundMatches
  <2> SUFFICES ASSUME Init PROVE ForwardMatches /\ NoPrinting /\ FoundMatches
    OBVIOUS
  <2>1. routes = <<BuiltinRoute("OnMessage", InternalExp)>>
    BY DEF Init, InitialRoutes
  <2> QED BY <2>1 DEF Init, ForwardMatches, NoPrinting, FoundMatches, BuiltinRoute
<1>2. LoopInv /\ ForwardMatches /\ NoPrinting /\ FoundMatches /\ [Next]_vars
        => (ForwardMatches /\ NoPrinting /\ FoundMatches)'
  BY ForwardMatchesStep, NoPrintingStep, FoundMatchesStep
<1>3. LoopInv /\ FoundMatches /\ [Next]_vars
        => [\A c \in Conns :
              cur = c /\ Dispatching /\ cur' # c /\ Msg.req /\ Alive(c) =>
                \/ \E k \in 1..Len(routes) :
                     IsMatch(routes[k]) /\ routes[k].handler # "PrintMessage"
                \/ wire'[c] # <<>> /\ Last(wire'[c]) = ErrorChunk("payload")]_vars
  BY RequestAnswered
<1> QED BY <1>1, <1>2, <1>3, LoopInvariant, PTL DEF Spec, ForwardedOrAnswered

-----------------------------------------------------------------------------
(* In order.  The sequence numbers of a sender's frames grow along its way: on *)
(* the wires, in the header being dispatched, in the bytes still to be read.   *)

\* The frames on their way from c to the router all come after number s.
Ahead(c, s) ==
  /\ s < sent[c]
  /\ \A k \in 1..Len(inb[c]) : inb[c][k].part = "header" => s < inb[c][k].hdr.seq

SentNumbered ==
  \A c \in Conns :
    /\ half[c] # NoHeader => half[c].from = c /\ half[c].seq < sent[c]
    /\ \A k \in 1..Len(inb[c]) : inb[c][k].hdr.from = c /\ inb[c][k].hdr.seq < sent[c]
    /\ \A j, k \in 1..Len(inb[c]) :
         j < k /\ inb[c][k].part = "header" => inb[c][j].hdr.seq < inb[c][k].hdr.seq

LEMMA AheadStep ==
  ASSUME LoopInv, [Next]_vars, NEW c \in Conns, NEW s \in Nat, Ahead(c, s)
  PROVE  Ahead(c, s)'
<1>0. sent[c] \in Nat
  BY DEF LoopInv, TypeOK
<1>1. CASE Idled(c)
  BY <1>1 DEF Idled, Ahead
<1>2. CASE Consumed(c)
  <2>1. /\ sent'[c] = sent[c]
        /\ \A k \in 1..Len(inb'[c]) : k + 1 \in 2..Len(inb[c]) /\ inb'[c][k] = inb[c][k + 1]
        /\ Len(inb[c]) \in Nat
    BY <1>2, InboxTail DEF Consumed
  <2>2. \A k \in 1..Len(inb'[c]) : k + 1 \in 1..Len(inb[c])
    BY <2>1
  <2> QED BY <2>1, <2>2 DEF Ahead
<1>3. CASE Emptied(c)
  <2>1. sent'[c] = sent[c] /\ Len(inb'[c]) = 0
    BY <1>3 DEF Emptied
  <2> QED BY <2>1 DEF Ahead
<1>4. CASE HeaderSent(c)
  <2>1. PICK h \in Header :
          /\ h.seq = sent[c] /\ sent'[c] = sent[c] + 1
          /\ inb'[c] = Append(inb[c], [part |-> "header", hdr |-> h])
    BY <1>4 DEF HeaderSent
  <2>2. [part |-> "header", hdr |-> h] \in InChunk
    BY DEF InChunk
  <2>3. /\ Len(inb[c]) \in Nat /\ Len(inb'[c]) = Len(inb[c]) + 1
        /\ \A k \in 1..Len(inb[c]) : inb'[c][k] = inb[c][k]
        /\ inb'[c][Len(inb[c]) + 1].hdr = h
    BY <2>1, <2>2, InboxAppend
  <2>4. s < sent[c] /\ s < sent'[c]
    BY <1>0, <2>1 DEF Ahead
  <2>5. ASSUME NEW k \in 1..Len(inb'[c]), inb'[c][k].part = "header"
        PROVE  s < inb'[c][k].hdr.seq
    <3>1. k \in 1..Len(inb[c]) \/ k = Len(inb[c]) + 1
      BY <2>3
    <3> QED BY <2>1, <2>3, <2>4, <2>5, <3>1 DEF Ahead
  <2> QED BY <2>4, <2>5 DEF Ahead
<1>5. CASE PayloadSent(c)
  <2> DEFINE x == [part |-> "payload", hdr |-> half[c]]
  <2>1. sent'[c] = sent[c] /\ inb'[c] = Append(inb[c], x) /\ x \in InChunk
    BY <1>5 DEF PayloadSent, InChunk
  <2>2. x.part = "payload"
    OBVIOUS
  <2> HIDE DEF x
  <2>3. /\ Len(inb[c]) \in Nat /\ Len(inb'[c]) = Len(inb[c]) + 1
        /\ \A k \in 1..Len(inb[c]) : inb'[c][k] = inb[c][k]
        /\ inb'[c][Len(inb[c]) + 1].part = "payload"
    BY <2>1, <2>2, InboxAppend
  <2>4. \A k \in 1..Len(inb'[c]) : k \in 1..Len(inb[c]) \/ k = Len(inb[c]) + 1
    BY <2>3
  <2> QED BY <2>1, <2>3, <2>4 DEF Ahead
<1> QED BY <1>1, <1>2, <1>3, <1>4, <1>5, SendingStep

LEMMA SentNumberedStep ==
  ASSUME LoopInv, SentNumbered, [Next]_vars
  PROVE  SentNumbered'
<1> SUFFICES ASSUME NEW c \in Conns
             PROVE  /\ half'[c] # NoHeader => half'[c].from = c /\ half'[c].seq < sent'[c]
                    /\ \A k \in 1..Len(inb'[c]) :
                         inb'[c][k].hdr.from = c /\ inb'[c][k].hdr.seq < sent'[c]
                    /\ \A j, k \in 1..Len(inb'[c]) :
                         j < k /\ inb'[c][k].part = "header" =>
                           inb'[c][j].hdr.seq < inb'[c][k].hdr.seq
  BY DEF SentNumbered
<1>0. /\ sent[c] \in Nat
      /\ half[c] \in Header \cup {NoHeader}
      /\ \A k \in 1..Len(inb[c]) : inb[c][k].hdr.seq \in Nat
  <2>1. inb[c] \in Seq(InChunk) /\ sent[c] \in Nat /\ half[c] \in Header \cup {NoHeader}
    BY DEF LoopInv, TypeOK
  <2>2. \A k \in 1..Len(inb[c]) : inb[c][k] \in InChunk
    BY <2>1
  <2> QED BY <2>1, <2>2 DEF InChunk, Header
<1>1. CASE Idled(c)
  BY <1>1 DEF Idled, SentNumbered
<1>2. CASE Consumed(c)
  <2>1. /\ sent'[c] = sent[c] /\ half'[c] = half[c]
        /\ Len(inb[c]) \in Nat \ {0} /\ Len(inb'[c]) = Len(inb[c]) - 1
        /\ \A k \in 1..Len(inb'[c]) : inb'[c][k] = inb[c][k + 1]
    BY <1>2, InboxTail DEF Consumed
  <2>2. \A k \in 1..Len(inb'[c]) : k + 1 \in 1..Len(inb[c])
    BY <2>1
  <2>3. \A j, k \in 1..Len(inb'[c]) : j < k => j + 1 < k + 1
    BY <2>1
  <2>4. \A k \in 1..Len(inb'[c]) :
          inb'[c][k].hdr.from = c /\ inb'[c][k].hdr.seq < sent'[c]
    BY <2>1, <2>2 DEF SentNumbered
  <2>5. ASSUME NEW j \in 1..Len(inb'[c]), NEW k \in 1..Len(inb'[c]),
               j < k, inb'[c][k].part = "header"
        PROVE  inb'[c][j].hdr.seq < inb'[c][k].hdr.seq
    <3>1. j + 1 \in 1..Len(inb[c]) /\ k + 1 \in 1..Len(inb[c]) /\ j + 1 < k + 1
      BY <2>2, <2>3, <2>5
    <3>2. inb[c][k + 1].part = "header" => inb[c][j + 1].hdr.seq < inb[c][k + 1].hdr.seq
      BY <3>1 DEF SentNumbered
    <3> QED BY <2>1, <2>5, <3>2
  <2>6. half'[c] # NoHeader => half'[c].from = c /\ half'[c].seq < sent'[c]
    BY <2>1 DEF SentNumbered
  <2> QED BY <2>4, <2>5, <2>6
<1>3. CASE Emptied(c)
  <2>1. half'[c] = NoHeader /\ Len(inb'[c]) = 0
    BY <1>3 DEF Emptied
  <2> QED BY <2>1
<1>4. CASE HeaderSent(c)
  <2>1. PICK h \in Header :
          /\ h.from = c /\ h.seq = sent[c] /\ sent'[c] = sent[c] + 1
          /\ half'[c] \in {h, NoHeader}
          /\ inb'[c] = Append(inb[c], [part |-> "header", hdr |-> h])
    BY <1>4 DEF HeaderSent
  <2>2. [part |-> "header", hdr |-> h] \in InChunk
    BY DEF InChunk
  <2>3. /\ Len(inb[c]) \in Nat /\ Len(inb'[c]) = Len(inb[c]) + 1
        /\ \A k \in 1..Len(inb[c]) : inb'[c][k] = inb[c][k]
        /\ inb'[c][Len(inb[c]) + 1].hdr = h
    BY <2>1, <2>2, InboxAppend
  <2>4. \A k \in 1..Len(inb'[c]) : k \in 1..Len(inb[c]) \/ k = Len(inb[c]) + 1
    BY <2>3
  <2>5. ASSUME NEW k \in 1..Len(inb[c])
        PROVE  /\ inb'[c][k].hdr.from = c /\ inb'[c][k].hdr.seq < sent[c]
               /\ inb'[c][k].hdr.seq < sent'[c]
    BY <1>0, <2>1, <2>3 DEF SentNumbered
  <2>6. ASSUME NEW j \in 1..Len(inb'[c]), NEW k \in 1..Len(inb'[c]),
               j < k, inb'[c][k].part = "header"
        PROVE  inb'[c][j].hdr.seq < inb'[c][k].hdr.seq
    <3>1. j \in 1..Len(inb[c])
      BY <2>3, <2>6
    <3>2. CASE k \in 1..Len(inb[c])
      BY <2>3, <2>6, <3>1, <3>2 DEF SentNumbered
    <3>3. CASE k = Len(inb[c]) + 1
      BY <2>1, <2>3, <2>5, <3>1, <3>3
    <3> QED BY <2>4, <3>2, <3>3
  <2>7. half'[c] # NoHeader => half'[c].from = c /\ half'[c].seq < sent'[c]
    BY <1>0, <2>1
  <2>8. ASSUME NEW k \in 1..Len(inb'[c])
        PROVE  inb'[c][k].hdr.from = c /\ inb'[c][k].hdr.seq < sent'[c]
    BY <1>0, <2>1, <2>3, <2>4, <2>5
  <2> QED BY <2>6, <2>7, <2>8
<1>5. CASE PayloadSent(c)
  <2> DEFINE x == [part |-> "payload", hdr |-> half[c]]
  <2>1. /\ sent'[c] = sent[c] /\ half'[c] = NoHeader /\ half[c] \in Header
        /\ inb'[c] = Append(inb[c], x) /\ x \in InChunk
    BY <1>5 DEF PayloadSent, InChunk
  <2>2. x.part = "payload" /\ x.hdr = half[c]
    OBVIOUS
  <2>3. half[c] # NoHeader
    BY <2>1, ConnsAssumption DEF Header, NoHeader
  <2> HIDE DEF x
  <2>4. /\ Len(inb[c]) \in Nat /\ Len(inb'[c]) = Len(inb[c]) + 1
        /\ \A k \in 1..Len(inb[c]) : inb'[c][k] = inb[c][k]
        /\ inb'[c][Len(inb[c]) + 1] = x
    BY <2>1, InboxAppend
  <2>5. \A k \in 1..Len(inb'[c]) : k \in 1..Len(inb[c]) \/ k = Len(inb[c]) + 1
    BY <2>4
  <2>6. half[c].from = c /\ half[c].seq < sent[c]
    BY <2>3 DEF SentNumbered
  <2>7. ASSUME NEW k \in 1..Len(inb'[c])
        PROVE  inb'[c][k].hdr.from = c /\ inb'[c][k].hdr.seq < sent'[c]
    BY <2>1, <2>2, <2>4, <2>5, <2>6 DEF SentNumbered
  <2>8. ASSUME NEW j \in 1..Len(inb'[c]), NEW k \in 1..Len(inb'[c]),
               j < k, inb'[c][k].part = "header"
        PROVE  inb'[c][j].hdr.seq < inb'[c][k].hdr.seq
    <3>1. k # Len(inb[c]) + 1
      BY <2>2, <2>4, <2>8
    <3>2. k \in 1..Len(inb[c]) /\ j \in 1..Len(inb[c])
      BY <2>4, <2>5, <2>8, <3>1
    <3> QED BY <2>4, <2>8, <3>2 DEF SentNumbered
  <2> QED BY <2>1, <2>7, <2>8
<1> QED BY <1>1, <1>2, <1>3, <1>4, <1>5, SendingStep

\* The header of a frame is read where a header stands.
LEMMA HeaderAtHead ==
  ASSUME LoopInv, Chained, NEW c \in Conns, ReadHeader(c)
  PROVE  /\ Len(inb[c]) \in Nat \ {0} /\ inb[c][1].part = "header"
         /\ Head(inb[c]) = inb[c][1]
         /\ rd' = [rd EXCEPT ![c] = "payload"] /\ hdr' = [hdr EXCEPT ![c] = Head(inb[c]).hdr]
         /\ inb' = [inb EXCEPT ![c] = Tail(@)] /\ inb[c] # <<>> /\ UNCHANGED sent
<1>1. /\ inb[c] # <<>> /\ rd[c] = "header" /\ pc = "clients"
      /\ rd' = [rd EXCEPT ![c] = "payload"] /\ hdr' = [hdr EXCEPT ![c] = Head(inb[c]).hdr]
      /\ inb' = [inb EXCEPT ![c] = Tail(@)] /\ UNCHANGED sent
  BY DEF ReadHeader, RecvFails, Reads
<1>2. /\ inb[c] \in Seq(InChunk) /\ Len(inb[c]) \in Nat \ {0} /\ Head(inb[c]) = inb[c][1]
  BY <1>1 DEF LoopInv, TypeOK
<1>3. Chain(Before(c), inb[c], half[c]) /\ ~Open(Before(c))
  BY <1>1 DEF Chained, Before, Open
<1>4. 1 \in 1..Len(inb[c])
  BY <1>2
<1>5. Follows(Before(c), inb[c][1])
  BY <1>3, <1>4 DEF Chain
<1> QED BY <1>1, <1>2, <1>3, <1>5 DEF Follows

\* The header of a client is replaced only by reading the next one.
LEMMA HeaderKept ==
  ASSUME LoopInv, [Next]_vars, NEW c \in Conns, rd'[c] = "payload", ~ReadHeader(c)
  PROVE  /\ rd[c] = "payload" /\ hdr'[c] = hdr[c]
         /\ Dispatching /\ cur = c => Dispatching' /\ cur' = c
<1>0. /\ rd \in [Conns -> {"preamble", "header", "payload"}]
      /\ hdr \in [Conns -> Header \cup {NoHeader}]
      /\ backlog \subseteq Conns
  BY DEF LoopInv, TypeOK
<1>1. CASE Dispatch
  BY <1>1, DispatchAsked, DispatchHeaders
<1>2. ASSUME NEW d \in Conns, PeerStep(d)
      PROVE  UNCHANGED <<rd, hdr, cur, pc>>
  BY <1>2, PeerSockets DEF routerVars
<1>3. CASE UNCHANGED <<rd, hdr, cur, pc>>
  BY <1>3 DEF Dispatching
<1>4. CASE \/ Select \/ SkipClient \/ ClientsDone \/ ClearRoute \/ CloseClient
           \/ \E d \in Conns : ReadPayload(d) \/ DropClient(d)
  BY <1>4 DEF Select, SkipClient, ClientsDone, ClearRoute, CloseClient, ReadPayload,
       DropClient, Reads, Dispatching
<1>5. CASE Accept
  BY <1>0, <1>5 DEF Accept, Dispatching
<1>6. ASSUME NEW d \in Conns, ReadPreamble(d) \/ ReadHeader(d)
      PROVE  ~Dispatching /\ rd[c] = "payload" /\ hdr'[c] = hdr[c]
  BY <1>0, <1>6 DEF ReadPreamble, ReadHeader, Reads, Dispatching
<1>7. CASE UNCHANGED vars
  BY <1>3, <1>7 DEF vars
<1> QED BY <1>1, <1>2, <1>3, <1>4, <1>5, <1>6, <1>7 DEF Next, RouterStep, ReadClient

ReadNumbered == \A c \in Conns : rd[c] = "payload" => hdr[c].from = c /\ Ahead(c, hdr[c].seq)

LEMMA ReadNumberedStep ==
  ASSUME LoopInv, Chained, SentNumbered, ReadNumbered, [Next]_vars
  PROVE  ReadNumbered'
<1> SUFFICES ASSUME NEW c \in Conns, rd'[c] = "payload", NEW s, s = hdr'[c].seq
             PROVE  hdr'[c].from = c /\ Ahead(c, s)'
  BY DEF ReadNumbered, Ahead
<1>1. CASE ~ReadHeader(c)
  <2>1. rd[c] = "payload" /\ hdr'[c] = hdr[c]
    BY <1>1, HeaderKept
  <2>2. hdr[c].seq \in Nat
    BY <2>1 DEF LoopInv, HeadersRead, Header
  <2>3. s \in Nat /\ Ahead(c, s) /\ hdr'[c].from = c
    BY <2>1, <2>2 DEF ReadNumbered
  <2> QED BY <2>3, AheadStep
<1>2. CASE ReadHeader(c)
  <2>1. /\ hdr'[c] = inb[c][1].hdr /\ sent' = sent /\ 1 \in 1..Len(inb[c])
        /\ Len(inb[c]) \in Nat
        /\ inb[c] # <<>> /\ inb'[c] = Tail(inb[c])
    <3>1. /\ Len(inb[c]) \in Nat \ {0} /\ Head(inb[c]) = inb[c][1]
          /\ hdr' = [hdr EXCEPT ![c] = Head(inb[c]).hdr]
          /\ inb' = [inb EXCEPT ![c] = Tail(@)] /\ inb[c] # <<>> /\ UNCHANGED sent
      BY <1>2, HeaderAtHead
    <3>2. hdr'[c] = Head(inb[c]).hdr /\ inb'[c] = Tail(inb[c])
      BY <3>1 DEF LoopInv, TypeOK
    <3> QED BY <3>1, <3>2
  <2>2. \A k \in 1..Len(inb'[c]) : k + 1 \in 2..Len(inb[c]) /\ inb'[c][k] = inb[c][k + 1]
    BY <2>1, InboxTail
  <2>3. hdr'[c].from = c /\ hdr'[c].seq < sent[c]
    BY <2>1 DEF SentNumbered
  <2>4. ASSUME NEW k \in 1..Len(inb'[c]), inb'[c][k].part = "header"
        PROVE  hdr'[c].seq < inb'[c][k].hdr.seq
    <3>1. k + 1 \in 1..Len(inb[c]) /\ 1 < k + 1
      BY <2>1, <2>2
    <3>2. inb[c][k + 1].part = "header" => inb[c][1].hdr.seq < inb[c][k + 1].hdr.seq
      BY <2>1, <3>1 DEF SentNumbered
    <3> QED BY <2>1, <2>2, <2>4, <3>2
  <2> QED BY <2>1, <2>3, <2>4 DEF Ahead
<1> QED BY <1>1, <1>2

\* A chunk that has been forwarded comes before all that is still to be read of its
\* sender, and not after the frame being dispatched.
NotAfter(v) ==
  IF v.from = NoConn THEN v.seq = 0
  ELSE /\ Ahead(v.from, v.seq)
       /\ rd[v.from] = "payload" =>
            IF Dispatching /\ cur = v.from THEN v.seq <= hdr[v.from].seq
                                           ELSE v.seq < hdr[v.from].seq

WireNumbered == \A c \in Conns : \A k \in 1..Len(wire[c]) : NotAfter(wire[c][k])

LEMMA NotAfterStep ==
  ASSUME LoopInv, Chained, [Next]_vars, NEW v \in OutChunk, NotAfter(v)
  PROVE  NotAfter(v)'
<1>1. CASE v.from = NoConn
  BY <1>1 DEF NotAfter
<1>2. CASE v.from # NoConn
  <2>1. v.from \in Conns /\ v.seq \in Nat
    BY <1>2 DEF OutChunk
  <2>2. PICK f \in Conns : f = v.from
    BY <2>1
  <2>3. PICK s \in Nat : s = v.seq
    BY <2>1
  <2>4. /\ Ahead(f, s)
        /\ rd[f] = "payload" =>
             IF Dispatching /\ cur = f THEN s <= hdr[f].seq ELSE s < hdr[f].seq
    BY <1>2, <2>2, <2>3 DEF NotAfter
  <2>5. Ahead(f, s)'
    BY <2>4, AheadStep
  <2>6. ASSUME rd'[f] = "payload"
        PROVE  IF Dispatching' /\ cur' = f THEN s <= hdr'[f].seq ELSE s < hdr'[f].seq
    <3>1. CASE ~ReadHeader(f)
      <4>1. /\ rd[f] = "payload" /\ hdr'[f] = hdr[f]
            /\ Dispatching /\ cur = f => Dispatching' /\ cur' = f
        BY <2>6, <3>1, HeaderKept
      <4>2. hdr[f].seq \in Nat
        BY <4>1 DEF LoopInv, HeadersRead, Header
      <4> QED BY <2>4, <4>1, <4>2
    <3>2. CASE ReadHeader(f)
      <4>1. /\ Len(inb[f]) \in Nat \ {0} /\ inb[f][1].part = "header"
            /\ Head(inb[f]) = inb[f][1]
            /\ hdr' = [hdr EXCEPT ![f] = Head(inb[f]).hdr]
        BY <3>2, HeaderAtHead
      <4>2. 1 \in 1..Len(inb[f]) /\ inb[f] \in Seq(InChunk)
        BY <4>1 DEF LoopInv, TypeOK
      <4>3. inb[f][1].hdr.seq \in Nat
        <5>1. inb[f][1] \in InChunk
          BY <4>2
        <5> QED BY <5>1 DEF InChunk, Header
      <4>4. hdr'[f].seq = inb[f][1].hdr.seq
        BY <4>1 DEF LoopInv, TypeOK
      <4>5. s < inb[f][1].hdr.seq
        BY <2>4, <4>1, <4>2 DEF Ahead
      <4> QED BY <4>3, <4>4, <4>5
    <3> QED BY <3>1, <3>2
  <2> QED BY <1>2, <2>2, <2>3, <2>5, <2>6 DEF NotAfter
<1> QED BY <1>1, <1>2

\* What is forwarded is stamped with the frame at hand.
LEMMA FrameAtHand ==
  ASSUME LoopInv, ForwardMatches, ReadNumbered, NEW p \in {"header", "payload"},
         IF p = "header" THEN ForwardHeader ELSE ForwardPayload
  PROVE  /\ OutChunkFor(routes[di], p).from = cur /\ cur \in Conns /\ cur # NoConn
         /\ OutChunkFor(routes[di], p).seq = hdr[cur].seq /\ hdr[cur].seq \in Nat
         /\ rd[cur] = "payload" /\ Dispatching
         /\ Ahead(cur, hdr[cur].seq)
         /\ UNCHANGED <<rd, hdr, cur, inb, sent>> /\ Dispatching'
<1>1. /\ Dispatching /\ cur \in Conns /\ hdr[cur] \in Header
      /\ pc' \in {"forward", "dispatch"}
      /\ UNCHANGED <<rd, hdr, cur, inb, sent>>
  BY Forwarding
<1>2. rd[cur] = "payload"
  BY <1>1 DEF LoopInv, DispatchLoop
<1>3. hdr[cur].from = cur /\ Ahead(cur, hdr[cur].seq)
  BY <1>1, <1>2 DEF ReadNumbered
<1>4. Dispatching'
  BY <1>1 DEF Dispatching
<1> QED BY <1>1, <1>2, <1>3, <1>4, ConnsAssumption DEF OutChunkFor, Header

LEMMA WireNumberedStep ==
  ASSUME LoopInv, Chained, ForwardMatches, ReadNumbered, WireNumbered, [Next]_vars
  PROVE  WireNumbered'
<1> SUFFICES ASSUME NEW c \in Conns, NEW k \in 1..Len(wire'[c]), NEW v, v = wire'[c][k]
             PROVE  NotAfter(v)'
  BY DEF WireNumbered, NotAfter, Ahead
<1>1. ASSUME k \in 1..Len(wire[c]), v = wire[c][k] PROVE NotAfter(v)'
  <2>1. v \in OutChunk
    BY <1>1, WireTypes
  <2>2. NotAfter(v)
    BY <1>1 DEF WireNumbered
  <2> QED BY <2>1, <2>2, NotAfterStep
<1>2. CASE wire'[c] = wire[c]
  BY <1>1, <1>2
<1>3. CASE wire'[c] = <<>>
  <2>1. Len(wire'[c]) = 0
    BY <1>3
  <2> QED BY <2>1
<1>4. CASE Forwarded(c)
  <2> PICK p \in {"header", "payload"} :
        /\ IF p = "header" THEN ForwardHeader ELSE ForwardPayload
        /\ wire'[c] = Append(wire[c], OutChunkFor(routes[di], p))
    BY <1>4 DEF Forwarded
  <2>1. OutChunkFor(routes[di], p) \in OutChunk
    BY Forwarding
  <2>2. /\ \A j \in 1..Len(wire[c]) : wire'[c][j] = wire[c][j]
        /\ k \in 1..Len(wire[c]) \/ wire'[c][k] = OutChunkFor(routes[di], p)
    BY <2>1, WireAppend
  <2>3. ASSUME v = OutChunkFor(routes[di], p) PROVE NotAfter(v)'
    <3>1. /\ v.from = cur /\ cur \in Conns /\ cur # NoConn
          /\ v.seq = hdr[cur].seq /\ hdr[cur].seq \in Nat
          /\ rd[cur] = "payload" /\ Dispatching
          /\ Ahead(cur, hdr[cur].seq)
          /\ UNCHANGED <<rd, hdr, cur, inb, sent>> /\ Dispatching'
      BY <2>3, FrameAtHand, SMTT(30)
    <3>2. v.from # NoConn /\ Ahead(cur, v.seq)' /\ v.seq <= hdr'[cur].seq
      BY <3>1 DEF Ahead
    <3> QED BY <3>1, <3>2 DEF NotAfter
  <2> QED BY <1>1, <2>2, <2>3
<1>5. CASE Answered(c)
  <2> PICK p \in {"header", "payload"} : wire'[c] = Append(wire[c], ErrorChunk(p))
    BY <1>5 DEF Answered
  <2>1. ErrorChunk(p) \in OutChunk
    BY OutChunkTypes DEF LoopInv
  <2>2. /\ \A j \in 1..Len(wire[c]) : wire'[c][j] = wire[c][j]
        /\ k \in 1..Len(wire[c]) \/ wire'[c][k] = ErrorChunk(p)
    BY <2>1, WireAppend
  <2>3. ASSUME v = ErrorChunk(p) PROVE NotAfter(v)'
    BY <2>3 DEF NotAfter, ErrorChunk
  <2> QED BY <1>1, <2>2, <2>3
<1> QED BY <1>2, <1>3, <1>4, <1>5, WireStep

Ordered ==
  \A c \in Conns : \A j, k \in 1..Len(wire[c]) :
    j < k /\ wire[c][j].from = wire[c][k].from => wire[c][j].seq <= wire[c][k].seq

LEMMA OrderedStep ==
  ASSUME LoopInv, ForwardMatches, ReadNumbered, WireNumbered, Ordered, [Next]_vars
  PROVE  Ordered'
<1> SUFFICES ASSUME NEW c \in Conns, NEW j \in 1..Len(wire'[c]), NEW k \in 1..Len(wire'[c]),
                    j < k, wire'[c][j].from = wire'[c][k].from
             PROVE  wire'[c][j].seq <= wire'[c][k].seq
  BY DEF Ordered
<1>1. CASE wire'[c] = wire[c]
  BY <1>1 DEF Ordered
<1>2. CASE wire'[c] = <<>>
  <2>1. Len(wire'[c]) = 0
    BY <1>2
  <2> QED BY <2>1
<1>3. ASSUME NEW v \in OutChunk, wire'[c] = Append(wire[c], v),
             \A m \in 1..Len(wire[c]) : wire[c][m].from = v.from => wire[c][m].seq <= v.seq
      PROVE  wire'[c][j].seq <= wire'[c][k].seq
  <2>1. /\ Len(wire[c]) \in Nat /\ Len(wire'[c]) = Len(wire[c]) + 1
        /\ \A m \in 1..Len(wire[c]) : wire'[c][m] = wire[c][m]
        /\ wire'[c][Len(wire[c]) + 1] = v
        /\ k \in 1..Len(wire[c]) \/ k = Len(wire[c]) + 1
    BY <1>3, WireAppend
  <2>2. j \in 1..Len(wire[c])
    BY <2>1
  <2>3. CASE k \in 1..Len(wire[c])
    BY <2>1, <2>2, <2>3 DEF Ordered
  <2>4. CASE k = Len(wire[c]) + 1
    BY <1>3, <2>1, <2>2, <2>4
  <2> QED BY <2>1, <2>3, <2>4
<1>4. CASE Forwarded(c)
  <2> PICK p \in {"header", "payload"} :
        /\ IF p = "header" THEN ForwardHeader ELSE ForwardPayload
        /\ wire'[c] = Append(wire[c], OutChunkFor(routes[di], p))
    BY <1>4 DEF Forwarded
  <2>1. OutChunkFor(routes[di], p) \in OutChunk
    BY Forwarding
  <2>2. /\ OutChunkFor(routes[di], p).from = cur /\ cur # NoConn
        /\ OutChunkFor(routes[di], p).seq = hdr[cur].seq
        /\ rd[cur] = "payload" /\ Dispatching
    BY FrameAtHand
  <2>3. ASSUME NEW m \in 1..Len(wire[c]), wire[c][m].from = cur
        PROVE  wire[c][m].seq <= hdr[cur].seq
    <3>1. NotAfter(wire[c][m])
      BY DEF WireNumbered
    <3> QED BY <2>2, <2>3, <3>1 DEF NotAfter
  <2> QED BY <1>3, <2>1, <2>2, <2>3
<1>5. CASE Answered(c)
  <2> PICK p \in {"header", "payload"} : wire'[c] = Append(wire[c], ErrorChunk(p))
    BY <1>5 DEF Answered
  <2>1. ErrorChunk(p) \in OutChunk /\ ErrorChunk(p).from = NoConn /\ ErrorChunk(p).seq = 0
    BY OutChunkTypes DEF LoopInv, ErrorChunk
  <2>2. ASSUME NEW m \in 1..Len(wire[c]), wire[c][m].from = NoConn
        PROVE  wire[c][m].seq <= 0
    <3>1. NotAfter(wire[c][m])
      BY DEF WireNumbered
    <3> QED BY <2>2, <3>1 DEF NotAfter
  <2> QED BY <1>3, <2>1, <2>2
<1> QED BY <1>1, <1>2, <1>4, <1>5, WireStep

\* The router writes only to connections it has accepted.
LEMMA ServedIsClient ==
  ASSUME LoopInv, NoDanglingRoute, ForwardMatches, NEW x \in Conns,
         Forwarded(x) \/ Answered(x)
  PROVE  IsClient(x)
<1>1. CASE Forwarded(x)
  <2> PICK p \in {"header", "payload"} :
        (IF p = "header" THEN ForwardHeader ELSE ForwardPayload) /\ x = routes[di].client
    BY <1>1 DEF Forwarded
  <2>1. di \in 1..Len(routes) /\ pc \in {"dispatch", "forward"}
    BY Forwarding
  <2> QED BY <2>1, ConnsAssumption DEF NoDanglingRoute
<1>2. CASE Answered(x)
  <2> PICK p \in {"header", "payload"} :
        (IF p = "header" THEN NoRouteHeader ELSE NoRoutePayload) /\ x = cur
    BY <1>2 DEF Answered
  <2>1. Dispatching
    BY Answering
  <2> QED BY <2>1 DEF LoopInv, DispatchLoop
<1> QED BY <1>1, <1>2

LEMMA ClientsConnected ==
  ASSUME SlotsApart, NEW x, IsClient(x)
  PROVE  peer[x] # "idle" /\ x \notin backlog
BY DEF IsClient, SlotsApart

\* Who becomes idle, waits to be accepted, or lives.
LEMMA LivesStep ==
  ASSUME LoopInv, [Next]_vars, NEW x \in Conns
  PROVE  /\ peer'[x] = "idle" => peer[x] = "idle" \/ (CloseClient /\ x = cur)
         /\ x \in backlog' => x \in backlog \/ PeerConnect(x)
         /\ Alive(x)' => Alive(x) \/ PeerConnect(x)
         /\ peer[x] = "reset" => peer'[x] = "reset" \/ (CloseClient /\ x = cur)
<1>0. peer \in [Conns -> {"idle", "open", "closed", "reset"}]
  BY DEF LoopInv, TypeOK
<1>1. CASE CloseClient
  <2>1. peer' = [peer EXCEPT ![cur] = "idle"] /\ backlog' = backlog
    BY <1>1 DEF CloseClient
  <2> QED BY <1>0, <1>1, <2>1 DEF Alive
<1>2. ASSUME NEW c \in Conns, PeerStep(c)
      PROVE  /\ peer'[x] = "idle" => peer[x] = "idle"
             /\ x \in backlog' => x \in backlog \/ PeerConnect(x)
             /\ Alive(x)' => Alive(x) \/ PeerConnect(x)
             /\ peer[x] = "reset" => peer'[x] = "reset"
  <2>1. CASE PeerConnect(c)
    BY <1>0, <2>1 DEF PeerConnect, Alive
  <2>2. CASE PeerClose(c) \/ SocketReset(c)
    BY <1>0, <2>2 DEF PeerClose, SocketReset, Alive
  <2>3. CASE PeerSendHeader(c) \/ PeerSendPayload(c) \/ PeerRecv(c)
    BY <2>3 DEF PeerSendHeader, PeerSendPayload, PeerRecv, Alive
  <2> QED BY <1>2, <2>1, <2>2, <2>3 DEF PeerStep
<1>3. ASSUME peer' = peer, backlog' \subseteq backlog
      PROVE  /\ peer'[x] = "idle" => peer[x] = "idle"
             /\ x \in backlog' => x \in backlog
             /\ Alive(x)' => Alive(x)
             /\ peer[x] = "reset" => peer'[x] = "reset"
  BY <1>3 DEF Alive
<1>4. CASE Dispatch
  BY <1>3, <1>4, DispatchSockets
<1>5. CASE Accept
  BY <1>3, <1>5 DEF Accept
<1>6. CASE \/ Select \/ SkipClient \/ ClientsDone \/ ClearRoute \/ UNCHANGED vars
           \/ \E c \in Conns : ReadClient(c)
  BY <1>3, <1>6 DEF Select, SkipClient, ClientsDone, ClearRoute, ReadClient, ReadPreamble,
       ReadHeader, ReadPayload, DropClient, vars, peerVars
<1> QED BY <1>1, <1>2, <1>3, <1>4, <1>5, <1>6 DEF Next, RouterStep

Silent == \A c \in Conns : peer[c] = "idle" \/ c \in backlog => wire[c] = <<>>

LEMMA SilentStep ==
  ASSUME LoopInv, NoDanglingRoute, SlotsApart, ForwardMatches, Silent, [Next]_vars
  PROVE  Silent'
<1> SUFFICES ASSUME NEW c \in Conns, peer'[c] = "idle" \/ c \in backlog'
             PROVE  wire'[c] = <<>>
  BY DEF Silent
<1>0. wire \in [Conns -> Seq(OutChunk)]
  BY DEF LoopInv, TypeOK
<1>1. CASE CloseClient /\ c = cur
  BY <1>0, <1>1 DEF CloseClient
<1>2. CASE ~(CloseClient /\ c = cur)
  <2>1. peer[c] = "idle" \/ c \in backlog
    BY <1>2, LivesStep DEF PeerConnect
  <2>2. ~Forwarded(c) /\ ~Answered(c)
    BY <2>1, ServedIsClient, ClientsConnected
  <2>3. wire'[c] = wire[c]
    BY <1>2, <2>2, WireStep
  <2> QED BY <2>1, <2>3 DEF Silent
<1> QED BY <1>1, <1>2

\* A living connection is between the two chunks of a frame exactly while the router
\* is between the two sends to it, and then has the header of the frame at hand.
PairsOf(s) ==
  \A k \in 1..Len(s) - 1 :
    s[k].part = "header" => s[k + 1] = [s[k] EXCEPT !.part = "payload"]

Between(c) == \/ pc = "forward" /\ routes[di].client = c
              \/ pc = "noroutePayload" /\ cur = c

HeaderAtHand == IF pc = "forward" THEN OutChunkFor(routes[di], "header")
                                  ELSE ErrorChunk("header")

Paired ==
  \A c \in Conns : Alive(c) =>
    /\ PairsOf(wire[c])
    /\ Between(c) => wire[c] # <<>> /\ wire[c][Len(wire[c])] = HeaderAtHand
    /\ wire[c] # <<>> /\ ~Between(c) => wire[c][Len(wire[c])].part = "payload"

LEMMA PairsAppend ==
  ASSUME NEW s \in Seq(OutChunk), NEW v \in OutChunk, PairsOf(s),
         s # <<>> /\ s[Len(s)].part = "header" => v = [s[Len(s)] EXCEPT !.part = "payload"]
  PROVE  /\ PairsOf(Append(s, v))
         /\ Append(s, v) # <<>> /\ Append(s, v)[Len(Append(s, v))] = v
<1>1. Len(s) \in Nat /\ (s = <<>> <=> Len(s) = 0)
  BY LenProperties
<1>2. /\ Len(Append(s, v)) = Len(s) + 1
      /\ \A k \in 1..Len(s) : Append(s, v)[k] = s[k]
      /\ Append(s, v)[Len(s) + 1] = v
  BY AppendProperties
<1>3. PICK t : t = Append(s, v)
  OBVIOUS
<1>4. ASSUME NEW k \in 1..Len(t) - 1, t[k].part = "header"
      PROVE  t[k + 1] = [t[k] EXCEPT !.part = "payload"]
  <2>1. k \in 1..Len(s) /\ t[k] = s[k]
    BY <1>1, <1>2, <1>3
  <2>2. CASE k = Len(s)
    BY <1>1, <1>2, <1>3, <1>4, <2>1, <2>2
  <2>3. CASE k # Len(s)
    <3>1. k \in 1..Len(s) - 1 /\ k + 1 \in 1..Len(s) /\ t[k + 1] = s[k + 1]
      BY <1>1, <1>2, <1>3, <2>1, <2>3
    <3> QED BY <1>4, <2>1, <3>1 DEF PairsOf
  <2> QED BY <2>2, <2>3
<1>5. t # <<>> /\ t[Len(t)] = v
  BY <1>1, <1>2, <1>3
<1> QED BY <1>3, <1>4, <1>5 DEF PairsOf

LEMMA PairedStep ==
  ASSUME LoopInv, NoDanglingRoute, SlotsApart, ForwardMatches, Silent, Paired, [Next]_vars
  PROVE  Paired'
<1> SUFFICES ASSUME NEW c \in Conns, Alive(c)'
             PROVE  /\ PairsOf(wire'[c])
                    /\ Between(c)' => /\ wire'[c] # <<>>
                                      /\ wire'[c][Len(wire'[c])] = HeaderAtHand'
                    /\ wire'[c] # <<>> /\ ~Between(c)' => wire'[c][Len(wire'[c])].part = "payload"
  BY DEF Paired, PairsOf
<1>0. /\ wire \in [Conns -> Seq(OutChunk)]
      /\ peer \in [Conns -> {"idle", "open", "closed", "reset"}]
      /\ Dispatching \/ pc = "clear" => cur \in Conns
  BY DEF LoopInv, TypeOK, DispatchLoop
<1>1. CASE PeerConnect(c)
  <2>1. /\ UNCHANGED <<routerVars, wire>> /\ peer[c] = "idle" /\ wire[c] = <<>>
    BY <1>1 DEF PeerConnect, Silent
  <2>2. ~IsClient(c)
    BY <2>1, ClientsConnected
  <2>3. ~Between(c)
    <3>1. pc = "forward" => di \in 1..Len(routes)
      BY RouteAtHand
    <3>2. pc = "forward" => routes[di].client # c
      BY <2>2, <3>1, ConnsAssumption DEF NoDanglingRoute
    <3>3. pc = "noroutePayload" => cur # c
      BY <2>2 DEF LoopInv, DispatchLoop, Dispatching
    <3> QED BY <3>2, <3>3 DEF Between
  <2>4. ~Between(c)'
    BY <2>1, <2>3 DEF Between, routerVars
  <2>5. Len(wire'[c]) = 0
    BY <2>1
  <2> QED BY <2>1, <2>4, <2>5 DEF PairsOf
<1>2. CASE ~PeerConnect(c)
  <2>0. Alive(c)
    BY <1>2, LivesStep
  <2>1. /\ PairsOf(wire[c])
        /\ Between(c) => wire[c] # <<>> /\ wire[c][Len(wire[c])] = HeaderAtHand
        /\ wire[c] # <<>> /\ ~Between(c) => wire[c][Len(wire[c])].part = "payload"
    BY <2>0 DEF Paired
  <2>2. CASE wire'[c] = wire[c] /\ UNCHANGED <<pc, routes, di, cur, hdr>>
    BY <2>1, <2>2 DEF Between, HeaderAtHand, OutChunkFor, ErrorChunk, Msg
  <2>3. CASE wire'[c] = wire[c] /\ ~Between(c) /\ ~Between(c)'
    BY <2>1, <2>3
  <2>4. ASSUME NEW p \in {"header", "payload"},
               IF p = "header" THEN ForwardHeader ELSE ForwardPayload
        PROVE  /\ PairsOf(wire'[c])
               /\ Between(c)' => /\ wire'[c] # <<>>
                                 /\ wire'[c][Len(wire'[c])] = HeaderAtHand'
               /\ wire'[c] # <<>> /\ ~Between(c)' => wire'[c][Len(wire'[c])].part = "payload"
    <3>1. /\ routes[di].client \in Conns
          /\ OutChunkFor(routes[di], p) \in OutChunk
          /\ SendOK(routes[di].client, OutChunkFor(routes[di], p))
          /\ pc = (IF p = "header" THEN "dispatch" ELSE "forward")
          /\ pc' = (IF p = "header" THEN "forward" ELSE "dispatch")
          /\ UNCHANGED <<routes, hdr, cur>>
          /\ p = "header" => di' = di
      BY <2>4, Forwarding
    <3>2. CASE c # routes[di].client
      <4>1. wire'[c] = wire[c]
        BY <3>1, <3>2, WireSent
      <4>2. ~Between(c) /\ ~Between(c)'
        BY <3>1, <3>2 DEF Between
      <4> QED BY <2>3, <4>1, <4>2
    <3>3. CASE c = routes[di].client
      <4> DEFINE v == OutChunkFor(routes[di], p)
      <4>1. wire'[c] = Append(wire[c], v) /\ wire[c] \in Seq(OutChunk)
        BY <1>0, <2>0, <3>1, <3>3, WireSent
      <4>2. wire[c] # <<>> /\ wire[c][Len(wire[c])].part = "header" =>
              v = [wire[c][Len(wire[c])] EXCEPT !.part = "payload"]
        <5>1. CASE p = "header"
          <6>1. ~Between(c)
            BY <3>1, <5>1 DEF Between
          <6> QED BY <2>1, <6>1
        <5>2. CASE p = "payload"
          <6>1. Between(c) /\ HeaderAtHand = OutChunkFor(routes[di], "header")
            BY <3>1, <3>3, <5>2 DEF Between, HeaderAtHand
          <6> QED BY <2>1, <5>2, <6>1 DEF OutChunkFor
        <5> QED BY <5>1, <5>2
      <4>3. PairsOf(wire'[c]) /\ wire'[c] # <<>> /\ wire'[c][Len(wire'[c])] = v
        BY <2>1, <3>1, <4>1, <4>2, PairsAppend
      <4>4. CASE p = "header"
        <5>1. Between(c)' /\ HeaderAtHand' = v
          BY <3>1, <3>3, <4>4 DEF Between, HeaderAtHand, OutChunkFor, Msg
        <5> QED BY <4>3, <5>1
      <4>5. CASE p = "payload"
        <5>1. ~Between(c)' /\ v.part = "payload"
          BY <3>1, <4>5 DEF Between, OutChunkFor
        <5> QED BY <4>3, <5>1
      <4> QED BY <4>4, <4>5
    <3> QED BY <3>2, <3>3
  <2>5. ASSUME NEW p \in {"header", "payload"},
               IF p = "header" THEN NoRouteHeader ELSE NoRoutePayload
        PROVE  /\ PairsOf(wire'[c])
               /\ Between(c)' => /\ wire'[c] # <<>>
                                 /\ wire'[c][Len(wire'[c])] = HeaderAtHand'
               /\ wire'[c] # <<>> /\ ~Between(c)' => wire'[c][Len(wire'[c])].part = "payload"
    <3>1. /\ cur \in Conns /\ ErrorChunk(p) \in OutChunk /\ SendOK(cur, ErrorChunk(p))
          /\ pc = (IF p = "header" THEN "noroute" ELSE "noroutePayload")
          /\ pc' = (IF p = "header" THEN "noroutePayload" ELSE "clients")
          /\ p = "header" => cur' = cur
      BY <2>5, Answering
    <3>2. CASE c # cur
      <4>1. wire'[c] = wire[c]
        BY <3>1, <3>2, WireSent
      <4>2. ~Between(c) /\ ~Between(c)'
        BY <3>1, <3>2 DEF Between
      <4> QED BY <2>3, <4>1, <4>2
    <3>3. CASE c = cur
      <4>1. wire'[c] = Append(wire[c], ErrorChunk(p)) /\ wire[c] \in Seq(OutChunk)
        BY <1>0, <2>0, <3>1, <3>3, WireSent
      <4>2. wire[c] # <<>> /\ wire[c][Len(wire[c])].part = "header" =>
              ErrorChunk(p) = [wire[c][Len(wire[c])] EXCEPT !.part = "payload"]
        <5>1. CASE p = "header"
          <6>1. ~Between(c)
            BY <3>1, <5>1 DEF Between
          <6> QED BY <2>1, <6>1
        <5>2. CASE p = "payload"
          <6>1. Between(c) /\ HeaderAtHand = ErrorChunk("header")
            BY <3>1, <3>3, <5>2 DEF Between, HeaderAtHand
          <6> QED BY <2>1, <5>2, <6>1 DEF ErrorChunk
        <5> QED BY <5>1, <5>2
      <4>3. PairsOf(wire'[c]) /\ wire'[c] # <<>> /\ wire'[c][Len(wire'[c])] = ErrorChunk(p)
        BY <2>1, <3>1, <4>1, <4>2, PairsAppend
      <4>4. CASE p = "header"
        <5>1. Between(c)' /\ HeaderAtHand' = ErrorChunk(p)
          BY <3>1, <3>3, <4>4 DEF Between, HeaderAtHand, ErrorChunk
        <5> QED BY <4>3, <5>1
      <4>5. CASE p = "payload"
        <5>1. ~Between(c)' /\ ErrorChunk(p).part = "payload"
          BY <3>1, <4>5 DEF Between, ErrorChunk
        <5> QED BY <4>3, <5>1
      <4> QED BY <4>4, <4>5
    <3> QED BY <3>2, <3>3
  <2>6. CASE ForwardHeader
    BY <2>4, <2>6
  <2>7. CASE ForwardPayload
    BY <2>4, <2>7
  <2>8. CASE NoRouteHeader
    BY <2>5, <2>8
  <2>9. CASE NoRoutePayload
    BY <2>5, <2>9
  <2>10. CASE ForwardFails \/ NoRouteAborts
    <3>1. /\ pc \in {"dispatch", "forward"} => routes[di].client # c
          /\ pc \in {"noroute", "noroutePayload"} => cur # c
          /\ pc \in {"dispatch", "forward", "noroute", "noroutePayload"}
          /\ pc' \in {"dispatch", "aborted"} /\ wire' = wire
      BY <2>0, <2>10 DEF ForwardFails, NoRouteAborts, SendFails, Alive, Forwards, peerVars
    <3>2. ~Between(c) /\ ~Between(c)'
      BY <3>1 DEF Between
    <3> QED BY <2>3, <3>1, <3>2
  <2>11. CASE CloseClient
    <3>1. pc = "clear" /\ pc' = "clients" /\ wire' = [wire EXCEPT ![cur] = <<>>]
          /\ peer' = [peer EXCEPT ![cur] = "idle"] /\ cur \in Conns
      BY <1>0, <2>11 DEF CloseClient
    <3>2. c # cur
      BY <1>0, <3>1 DEF Alive
    <3>3. wire'[c] = wire[c] /\ ~Between(c) /\ ~Between(c)'
      BY <1>0, <3>1, <3>2 DEF Between
    <3> QED BY <2>3, <3>3
  <2>12. CASE \/ Select \/ Accept \/ SkipClient \/ ClientsDone \/ ClearRoute
              \/ DispatchSkip \/ DispatchLocal \/ DispatchDone
              \/ \E d \in Conns : ReadClient(d)
    <3>1. wire' = wire /\ pc \notin {"forward", "noroutePayload"}
          /\ pc' \notin {"forward", "noroutePayload"}
      BY <2>12 DEF Select, Accept, SkipClient, ClientsDone, ClearRoute, DispatchSkip,
         DispatchLocal, DispatchDone, FinishFrame, ReadClient, ReadPreamble, ReadHeader,
         ReadPayload, DropClient, Reads, peerVars
    <3>2. ~Between(c) /\ ~Between(c)'
      BY <3>1 DEF Between
    <3> QED BY <2>3, <3>1, <3>2
  <2>13. ASSUME NEW d \in Conns, PeerStep(d)
         PROVE  wire' = wire /\ UNCHANGED <<pc, routes, di, cur, hdr>>
    BY <2>13 DEF PeerStep, PeerConnect, PeerSendHeader, PeerSendPayload, PeerRecv,
         PeerClose, SocketReset, routerVars
  <2>14. CASE UNCHANGED vars
    BY <2>2, <2>14 DEF vars
  <2> QED BY <2>2, <2>6, <2>7, <2>8, <2>9, <2>10, <2>11, <2>12, <2>13, <2>14
          DEF Next, RouterStep, Dispatch
<1> QED BY <1>1, <1>2

DeliveryInv == /\ SlotsApart /\ Chained /\ ForwardMatches
               /\ SentNumbered /\ ReadNumbered /\ WireNumbered /\ Ordered
               /\ Silent /\ Paired

LEMMA DeliveryInvInit == Init => DeliveryInv
<1> SUFFICES ASSUME Init PROVE DeliveryInv
  OBVIOUS
<1>1. SlotsApart /\ Chained /\ ForwardMatches
  BY StreamsInit DEF Init, ForwardMatches
<1>2. \A c \in Conns : /\ Len(inb[c]) = 0 /\ Len(wire[c]) = 0 /\ half[c] = NoHeader
                       /\ rd[c] = "preamble" /\ wire[c] = <<>> /\ peer[c] = "idle"
  BY DEF Init
<1>3. SentNumbered /\ ReadNumbered /\ WireNumbered /\ Ordered /\ Silent
  BY <1>2 DEF SentNumbered, ReadNumbered, WireNumbered, Ordered, Silent
<1>4. Paired
  BY <1>2 DEF Paired, Alive
<1> QED BY <1>1, <1>3, <1>4 DEF DeliveryInv

LEMMA DeliveryInvStep == LoopInv /\ NoDanglingRoute /\ DeliveryInv /\ [Next]_vars => DeliveryInv'
BY SlotsApartStep, ChainedStep, ForwardMatchesStep, SentNumberedStep, ReadNumberedStep,
   WireNumberedStep, OrderedStep, SilentStep, PairedStep DEF DeliveryInv

\* Frames of one sender reach a client in the order they were sent, and the header and
\* the payload of a frame next to each other, for any number of clients, routes and
\* frames, over failed and retried sends, dying peers and reused slots.
THEOREM InOrderInvariant == Spec => []InOrder
<1>1. DeliveryInv => InOrder
  <2> SUFFICES ASSUME DeliveryInv, NEW c \in Conns, Alive(c),
                      NEW j \in 1..Len(wire[c]), NEW k \in 1..Len(wire[c])
               PROVE  /\ j < k /\ wire[c][j].from = wire[c][k].from =>
                           wire[c][j].seq <= wire[c][k].seq
                      /\ k = j + 1 /\ wire[c][j].part = "header" =>
                           wire[c][k] = [wire[c][j] EXCEPT !.part = "payload"]
    BY DEF InOrder
  <2>1. k = j + 1 => j \in 1..Len(wire[c]) - 1
    OBVIOUS
  <2> QED BY <2>1 DEF DeliveryInv, Ordered, Paired, PairsOf
<1> QED BY <1>1, DeliveryInvInit, DeliveryInvStep, LoopInvariant, NoDanglingRouteInvariant, PTL
       DEF Spec

-----------------------------------------------------------------------------
(* Nobody is left out.                                                        *)

\* A wire only grows, until its connection is closed.
LEMMA WireGrows ==
  ASSUME LoopInv, ForwardMatches, [Next]_vars, NEW x \in Conns, ~(CloseClient /\ x = cur)
  PROVE  /\ Len(wire[x]) \in Nat /\ Len(wire'[x]) \in Nat /\ Len(wire[x]) <= Len(wire'[x])
         /\ \A k \in 1..Len(wire[x]) : wire'[x][k] = wire[x][k]
<1>1. Len(wire[x]) \in Nat
  BY WireTypes
<1>2. CASE wire'[x] = wire[x]
  BY <1>1, <1>2
<1>3. CASE Forwarded(x)
  <2> PICK p \in {"header", "payload"} :
        /\ IF p = "header" THEN ForwardHeader ELSE ForwardPayload
        /\ wire'[x] = Append(wire[x], OutChunkFor(routes[di], p))
    BY <1>3 DEF Forwarded
  <2>1. OutChunkFor(routes[di], p) \in OutChunk
    BY Forwarding
  <2> QED BY <2>1, WireAppend
<1>4. CASE Answered(x)
  <2> PICK p \in {"header", "payload"} : wire'[x] = Append(wire[x], ErrorChunk(p))
    BY <1>4 DEF Answered
  <2>1. ErrorChunk(p) \in OutChunk
    BY OutChunkTypes DEF LoopInv
  <2> QED BY <2>1, WireAppend
<1> QED BY <1>2, <1>3, <1>4, WireStep

HasFrame(r) ==
  \E k \in 1..Len(wire[r.client]) - 1 :
    /\ wire[r.client][k] = OutChunkFor(r, "header")
    /\ wire[r.client][k + 1] = OutChunkFor(r, "payload")

PassedServed ==
  pc \in {"dispatch", "forward"} =>
    \A j \in 1..(di - 1) :
      routes[j].handler = "ForwardMessage" /\ IsMatch(routes[j]) /\ Alive(routes[j].client) =>
        HasFrame(routes[j])

LEMMA HasFrameKept ==
  ASSUME LoopInv, ForwardMatches, [Next]_vars, ~CloseClient, UNCHANGED <<hdr, cur>>,
         NEW r, r.client \in Conns, HasFrame(r)
  PROVE  HasFrame(r)'
<1>1. PICK k \in 1..Len(wire[r.client]) - 1 :
        /\ wire[r.client][k] = OutChunkFor(r, "header")
        /\ wire[r.client][k + 1] = OutChunkFor(r, "payload")
  BY DEF HasFrame
<1>2. /\ Len(wire[r.client]) \in Nat /\ Len(wire'[r.client]) \in Nat
      /\ Len(wire[r.client]) <= Len(wire'[r.client])
      /\ \A m \in 1..Len(wire[r.client]) : wire'[r.client][m] = wire[r.client][m]
  BY WireGrows
<1>3. /\ k \in 1..Len(wire[r.client]) /\ k + 1 \in 1..Len(wire[r.client])
      /\ k \in 1..Len(wire'[r.client]) - 1
  BY <1>2
<1>4. \A p : OutChunkFor(r, p)' = OutChunkFor(r, p)
  BY DEF OutChunkFor, Msg
<1>5. /\ wire'[r.client][k] = OutChunkFor(r, "header")'
      /\ wire'[r.client][k + 1] = OutChunkFor(r, "payload")'
  BY <1>1, <1>2, <1>3, <1>4
<1> QED BY <1>3, <1>5 DEF HasFrame

\* The client of a route is connected while frames are dispatched.
LEMMA RouteClients ==
  ASSUME LoopInv, NoDanglingRoute, SlotsApart, Dispatching,
         NEW j \in 1..Len(routes), routes[j].handler = "ForwardMessage"
  PROVE  routes[j].client \in Conns /\ peer[routes[j].client] # "idle"
<1>1. routes[j].client \in Conns
  BY DEF LoopInv, ForwardRoutesHaveClients
<1>2. IsClient(routes[j].client)
  BY <1>1, ConnsAssumption DEF NoDanglingRoute, Dispatching
<1> QED BY <1>1, <1>2, ClientsConnected

LEMMA PassedServedStep ==
  ASSUME LoopInv, NoDanglingRoute, SlotsApart, ForwardMatches, Paired, PassedServed,
         [Next]_vars
  PROVE  PassedServed'
<1>0. /\ Len(routes) \in Nat /\ di \in Nat \ {0} /\ dn \in Nat
      /\ pc \in {"dispatch", "forward"} => dn <= Len(routes) /\ di <= dn + 1
  BY VectorTypes DEF LoopInv, TypeOK, DispatchLoop, Dispatching
<1>1. ASSUME pc' \notin {"dispatch", "forward"} PROVE PassedServed'
  BY <1>1 DEF PassedServed
<1>2. CASE \/ Select \/ Accept \/ SkipClient \/ ClientsDone \/ ClearRoute \/ CloseClient
           \/ DispatchDone \/ NoRouteHeader \/ NoRoutePayload \/ NoRouteAborts
           \/ \E c \in Conns : ReadPreamble(c) \/ ReadHeader(c) \/ DropClient(c)
  BY <1>1, <1>2 DEF Select, Accept, SkipClient, ClientsDone, ClearRoute, CloseClient,
     DispatchDone, FinishFrame, NoRouteHeader, NoRoutePayload, NoRouteAborts, ReadPreamble,
     ReadHeader, DropClient, Reads
<1>3. ASSUME NEW c \in Conns, ReadPayload(c) PROVE PassedServed'
  <2>1. di' = 1
    BY <1>3 DEF ReadPayload
  <2> QED BY <2>1 DEF PassedServed
\* The routes that the loop had passed before the step.
<1>4. ASSUME pc \in {"dispatch", "forward"}, UNCHANGED <<hdr, cur>>, ~CloseClient,
             NEW j \in 1..(di - 1), NEW r, r = routes[j],
             r.handler = "ForwardMessage", IsMatch(r), Alive(r.client)'
      PROVE  HasFrame(r)'
  <2>1. j \in 1..Len(routes) /\ Dispatching
    BY <1>0, <1>4 DEF Dispatching
  <2>2. r.client \in Conns /\ peer[r.client] # "idle"
    BY <1>4, <2>1, RouteClients
  <2>3. Alive(r.client)
    BY <1>4, <2>2, LivesStep DEF PeerConnect
  <2>4. HasFrame(r)
    BY <1>4, <2>3 DEF PassedServed
  <2> QED BY <1>4, <2>2, <2>4, HasFrameKept
\* And the one at hand.
<1>r. PICK r : r = routes[di]
  OBVIOUS
<1>5. ASSUME pc \in {"dispatch", "forward"}, UNCHANGED <<hdr, cur>>, ~CloseClient,
             \A j \in 1..(di - 1) : routes'[j] = routes[j],
             \/ di' = di
             \/ /\ di' = di + 1 /\ routes'[di] = r
                /\ \/ ~IsMatch(r)
                   \/ r.handler # "ForwardMessage"
                   \/ Alive(r.client)' => HasFrame(r)'
      PROVE  PassedServed'
  <2>1. SUFFICES ASSUME NEW j \in 1..(di' - 1), NEW s, s = routes'[j],
                        s.handler = "ForwardMessage", IsMatch(s)', Alive(s.client)'
                 PROVE  HasFrame(s)'
    BY DEF PassedServed, HasFrame, IsMatch, Alive, OutChunkFor, Msg
  <2>2. IsMatch(s)
    BY <1>5, <2>1 DEF IsMatch, Msg
  <2>3. CASE j \in 1..(di - 1)
    <3>1. s = routes[j]
      BY <1>5, <2>1, <2>3
    <3> QED BY <1>4, <1>5, <2>1, <2>2, <2>3, <3>1
  <2>4. CASE j = di /\ di' = di + 1
    BY <1>5, <2>1, <2>2, <2>4
  <2> QED BY <1>0, <1>5, <2>1, <2>3, <2>4
<1>6. CASE DispatchSkip
  BY <1>5, <1>6, <1>r DEF DispatchSkip, CloseClient
<1>7. CASE DispatchLocal
  <2>1. /\ pc = "dispatch" /\ di \in 1..Len(routes) /\ di' = di + 1
        /\ UNCHANGED <<hdr, cur>>
        /\ \/ routes' = routes
           \/ /\ Len(routes') = Len(routes) + 1
              /\ \A k \in 1..Len(routes) : routes'[k] = routes[k]
    BY <1>7, LocalRoutes
  <2>2. \A j \in 1..di : routes'[j] = routes[j]
    <3>1. \A j \in 1..di : j \in 1..Len(routes)
      BY <1>0, <2>1
    <3> QED BY <2>1, <3>1
  <2>3. di \in 1..di /\ \A j \in 1..(di - 1) : j \in 1..di
    BY <1>0
  <2> QED BY <1>5, <1>7, <1>r, <2>1, <2>2, <2>3 DEF DispatchLocal, CloseClient
<1>8. CASE ForwardHeader \/ ForwardFails
  BY <1>5, <1>8 DEF ForwardHeader, ForwardFails, Forwards, CloseClient
<1>9. CASE ForwardPayload
  <2>1. /\ di \in 1..Len(routes) /\ routes[di] \in Route /\ routes[di].client \in Conns
        /\ OutChunkFor(routes[di], "payload") \in OutChunk
        /\ SendOK(routes[di].client, OutChunkFor(routes[di], "payload"))
        /\ pc = "forward" /\ di' = di + 1
        /\ UNCHANGED <<routes, hdr, cur, peer>>
    BY <1>9, Forwarding
  <2>2. r \in Route /\ r = routes[di]
    BY <1>r, <2>1
  <2>3. ASSUME Alive(r.client) PROVE HasFrame(r)'
    <3>1. Between(r.client) /\ HeaderAtHand = OutChunkFor(r, "header")
      BY <2>1, <2>2 DEF Between, HeaderAtHand
    <3>2. /\ wire[r.client] # <<>>
          /\ wire[r.client][Len(wire[r.client])] = OutChunkFor(r, "header")
      BY <2>1, <2>2, <2>3, <3>1 DEF Paired
    <3>3. /\ Len(wire[r.client]) \in Nat
          /\ Len(wire'[r.client]) = Len(wire[r.client]) + 1
          /\ \A k \in 1..Len(wire[r.client]) : wire'[r.client][k] = wire[r.client][k]
          /\ wire'[r.client][Len(wire[r.client]) + 1] = OutChunkFor(r, "payload")
      BY <2>1, <2>2, <2>3, WireSent
    <3>4. Len(wire[r.client]) # 0
      <4>1. wire[r.client] \in Seq(OutChunk)
        BY <2>1, <2>2 DEF LoopInv, TypeOK
      <4> QED BY <3>2, <4>1
    <3>5. /\ Len(wire[r.client]) \in 1..Len(wire'[r.client]) - 1
          /\ wire'[r.client][Len(wire[r.client])] = OutChunkFor(r, "header")
      <4>1. Len(wire[r.client]) \in 1..Len(wire[r.client])
        BY <3>3, <3>4
      <4> QED BY <3>2, <3>3, <3>4, <4>1
    <3>6. \A p : OutChunkFor(r, p)' = OutChunkFor(r, p)
      BY <2>1 DEF OutChunkFor, Msg
    <3> QED BY <3>3, <3>5, <3>6 DEF HasFrame
  <2>4. Alive(r.client)' => HasFrame(r)'
    BY <2>1, <2>3 DEF Alive
  <2> QED BY <1>5, <1>9, <2>1, <2>2, <2>4 DEF ForwardPayload, CloseClient
<1>10. ASSUME UNCHANGED routerVars, ~CloseClient PROVE PassedServed'
  BY <1>1, <1>5, <1>10 DEF routerVars
<1>11. ASSUME NEW c \in Conns, PeerStep(c) PROVE PassedServed'
  <2>1. UNCHANGED routerVars
    BY <1>11, PeerSockets
  <2>2. ~CloseClient
    BY <2>1 DEF routerVars, CloseClient
  <2> QED BY <1>10, <2>1, <2>2
<1>12. CASE UNCHANGED vars
  BY <1>10, <1>12 DEF vars, routerVars, CloseClient
<1> QED BY <1>2, <1>3, <1>6, <1>7, <1>8, <1>9, <1>11, <1>12
       DEF Next, RouterStep, ReadClient, Dispatch

-----------------------------------------------------------------------------
(* Nobody is served twice.  Each copy of a chunk on a wire is charged to a     *)
(* route of the client; the routes that may be charged for the frame at hand    *)
(* are the ones the dispatch loop has left behind, and the one it is at when    *)
(* its header is out or its client is lost.                                     *)

Copies(c, v) == {j \in 1..Len(wire[c]) : wire[c][j] = v}

AtHand(v) == Dispatching /\ v.from = cur /\ v.seq = hdr[cur].seq

Charged(c, v) ==
  {r \in 1..Len(routes) :
     /\ routes[r].client = c /\ routes[r].id = v.id
     /\ AtHand(v) => \/ r < di
                     \/ r = di /\ pc = "forward" /\ v.part = "header"
                     \/ r = di /\ peer[c] = "reset"}

ServedOnce ==
  \A c \in Conns : IsClient(c) =>
    \A v \in OutChunk : v.from # NoConn =>
      Cardinality(Copies(c, v)) <= Cardinality(Charged(c, v))

LEMMA SubsetCardinality ==
  ASSUME NEW m \in Nat, NEW T \in SUBSET (1..m)
  PROVE  IsFiniteSet(T) /\ Cardinality(T) \in Nat
<1>1. IsFiniteSet(1..m)
  BY FS_Interval
<1> QED BY <1>1, FS_Subset, FS_CardinalityType

\* One copy more, one route more.
LEMMA OneMore ==
  ASSUME NEW m \in Nat, NEW S \in SUBSET (1..m), NEW U \in SUBSET (1..m),
         NEW k \in Nat, NEW T \in SUBSET (1..k), NEW r, r \notin S, S \cup {r} \subseteq U,
         NEW V \in SUBSET (1..k), NEW j, V \subseteq T \cup {j},
         Cardinality(T) <= Cardinality(S)
  PROVE  Cardinality(V) <= Cardinality(U)
<1>1. /\ IsFiniteSet(S) /\ Cardinality(S) \in Nat
      /\ IsFiniteSet(T) /\ Cardinality(T) \in Nat
      /\ IsFiniteSet(U) /\ Cardinality(U) \in Nat
      /\ IsFiniteSet(V) /\ Cardinality(V) \in Nat
  BY SubsetCardinality
<1>2. IsFiniteSet(S \cup {r}) /\ Cardinality(S \cup {r}) = Cardinality(S) + 1
  BY <1>1, FS_AddElement
<1>3. Cardinality(S \cup {r}) <= Cardinality(U)
  BY <1>1, FS_Subset
<1>4. IsFiniteSet(T \cup {j}) /\ Cardinality(T \cup {j}) <= Cardinality(T) + 1
      /\ Cardinality(T \cup {j}) \in Nat
  <2>1. /\ IsFiniteSet(T \cup {j})
        /\ Cardinality(T \cup {j}) = IF j \in T THEN Cardinality(T) ELSE Cardinality(T) + 1
    BY <1>1, FS_AddElement
  <2> QED BY <1>1, <2>1
<1>5. Cardinality(V) <= Cardinality(T \cup {j})
  BY <1>4, FS_Subset
<1> QED BY <1>1, <1>2, <1>3, <1>4, <1>5

\* Removing a route that is not charged moves the others up, and loses none.
LEMMA MovedUp ==
  ASSUME NEW m \in Nat, NEW S \in SUBSET (1..m), NEW d \in 1..m, d \notin S,
         NEW U \in SUBSET (1..m),
         \A r \in S : (IF r < d THEN r ELSE r - 1) \in U
  PROVE  Cardinality(S) <= Cardinality(U)
<1> DEFINE f == [r \in S |-> IF r < d THEN r ELSE r - 1]
<1>1. f \in [S -> U]
  OBVIOUS
<1>2. ASSUME NEW a \in S, NEW b \in S, f[a] = f[b] PROVE a = b
  <2>1. a \in Nat /\ b \in Nat /\ d \in Nat /\ a # d /\ b # d
    OBVIOUS
  <2>2. (IF a < d THEN a ELSE a - 1) = (IF b < d THEN b ELSE b - 1)
    BY <1>2
  <2> QED BY <2>1, <2>2
<1>3. IsFiniteSet(U)
  BY SubsetCardinality
<1>4. f \in Injection(S, U)
  BY <1>1, <1>2 DEF Injection, IsInjective
<1> QED BY <1>3, <1>4, FS_Injection

\* Only Accept makes a client, of a connection that has heard nothing yet.
LEMMA OnlyAcceptAdds ==
  ASSUME LoopInv, [Next]_vars, NEW c \in Conns, IsClient(c)', ~IsClient(c)
  PROVE  Accept /\ c \in backlog
<1>0. Len(clients) \in Nat
  BY VectorTypes
<1>1. PICK k \in 1..Len(clients') : clients'[k] = c
  BY DEF IsClient
<1>2. CASE Accept
  <2>1. PICK b \in backlog :
          /\ Len(clients') = Len(clients) + 1
          /\ \A j \in 1..Len(clients) : clients'[j] = clients[j]
          /\ clients'[Len(clients) + 1] = b
    BY <1>1, <1>2, AcceptClients DEF IsClient
  <2>2. k = Len(clients) + 1
    BY <1>0, <1>1, <2>1 DEF IsClient
  <2> QED BY <1>1, <1>2, <2>1, <2>2
<1>3. ASSUME NEW d \in Conns, DropClient(d) PROVE FALSE
  <2>1. /\ i \in 1..Len(clients)
        /\ Len(clients') = Len(clients) - 1
        /\ \A j \in 1..Len(clients) - 1 :
             clients'[j] = IF j < i THEN clients[j] ELSE clients[j + 1]
    BY <1>3, DropClients
  <2>2. k \in 1..Len(clients) - 1 /\ k \in 1..Len(clients) /\ k + 1 \in 1..Len(clients)
    BY <1>0, <2>1
  <2> QED BY <1>1, <2>1, <2>2 DEF IsClient
<1>4. ASSUME clients' = clients PROVE FALSE
  BY <1>4 DEF IsClient
<1>5. CASE Dispatch
  BY <1>4, <1>5, DispatchAsked
<1>6. CASE ClearRoute
  BY <1>4, <1>6, ClearRoutes
<1>7. CASE \/ Select \/ SkipClient \/ ClientsDone \/ CloseClient \/ UNCHANGED vars
           \/ \E d \in Conns : ReadPreamble(d) \/ ReadHeader(d) \/ ReadPayload(d)
  BY <1>4, <1>7 DEF Select, SkipClient, ClientsDone, CloseClient, ReadPreamble, ReadHeader,
       ReadPayload, vars
<1>8. ASSUME NEW d \in Conns, PeerStep(d) PROVE FALSE
  BY <1>4, <1>8, PeerSockets DEF routerVars
<1> QED BY <1>2, <1>3, <1>5, <1>6, <1>7, <1>8 DEF Next, RouterStep, ReadClient

\* A forwarded chunk is a new copy only of itself.
LEMMA CopiesStep ==
  ASSUME LoopInv, ForwardMatches, [Next]_vars, NEW c \in Conns, NEW v \in OutChunk,
         v.from # NoConn, ~(CloseClient /\ c = cur)
  PROVE  /\ Len(wire'[c]) \in Nat /\ Copies(c, v)' \in SUBSET (1..Len(wire'[c]))
         /\ Copies(c, v) \in SUBSET (1..Len(wire'[c]))
         /\ \/ Copies(c, v)' = Copies(c, v)
            \/ /\ Forwarded(c)
               /\ \E p \in {"header", "payload"} :
                    /\ IF p = "header" THEN ForwardHeader ELSE ForwardPayload
                    /\ v = OutChunkFor(routes[di], p)
               /\ Copies(c, v)' \subseteq Copies(c, v) \cup {Len(wire[c]) + 1}
<1>1. /\ Len(wire[c]) \in Nat /\ Len(wire'[c]) \in Nat /\ Len(wire[c]) <= Len(wire'[c])
  BY WireGrows
<1>2. /\ Copies(c, v)' \in SUBSET (1..Len(wire'[c]))
      /\ Copies(c, v) \in SUBSET (1..Len(wire'[c]))
  BY <1>1 DEF Copies
<1>3. CASE wire'[c] = wire[c]
  BY <1>1, <1>2, <1>3 DEF Copies
<1>4. ASSUME NEW u \in OutChunk, wire'[c] = Append(wire[c], u)
      PROVE  /\ u # v => Copies(c, v)' = Copies(c, v)
             /\ Copies(c, v)' \subseteq Copies(c, v) \cup {Len(wire[c]) + 1}
  <2>1. /\ Len(wire'[c]) = Len(wire[c]) + 1
        /\ \A k \in 1..Len(wire[c]) : wire'[c][k] = wire[c][k]
        /\ wire'[c][Len(wire[c]) + 1] = u
        /\ \A k \in 1..Len(wire'[c]) : k \in 1..Len(wire[c]) \/ k = Len(wire[c]) + 1
    BY <1>4, WireAppend
  <2>2. \A k \in 1..Len(wire[c]) : k \in 1..Len(wire'[c])
    BY <1>1, <2>1
  <2> QED BY <2>1, <2>2 DEF Copies
<1>5. CASE Forwarded(c)
  <2> PICK p \in {"header", "payload"} :
        /\ IF p = "header" THEN ForwardHeader ELSE ForwardPayload
        /\ wire'[c] = Append(wire[c], OutChunkFor(routes[di], p))
    BY <1>5 DEF Forwarded
  <2>1. OutChunkFor(routes[di], p) \in OutChunk
    BY Forwarding
  <2>2. /\ OutChunkFor(routes[di], p) # v => Copies(c, v)' = Copies(c, v)
        /\ Copies(c, v)' \subseteq Copies(c, v) \cup {Len(wire[c]) + 1}
    BY <1>4, <2>1
  <2> QED BY <1>1, <1>2, <1>5, <2>2
<1>6. CASE Answered(c)
  <2> PICK p \in {"header", "payload"} : wire'[c] = Append(wire[c], ErrorChunk(p))
    BY <1>6 DEF Answered
  <2>1. ErrorChunk(p) \in OutChunk /\ ErrorChunk(p) # v
    BY OutChunkTypes DEF LoopInv, ErrorChunk
  <2> QED BY <1>1, <1>2, <1>4, <2>1
<1> QED BY <1>3, <1>5, <1>6, WireStep

LEMMA ServedOnceStep ==
  ASSUME LoopInv, LoopInv', NoDanglingRoute, SlotsApart, ForwardMatches,
         ReadNumbered, WireNumbered, Silent, ServedOnce, [Next]_vars
  PROVE  ServedOnce'
<1> SUFFICES ASSUME NEW c \in Conns, IsClient(c)', NEW v \in OutChunk, v.from # NoConn
             PROVE  Cardinality(Copies(c, v)') <= Cardinality(Charged(c, v)')
  BY DEF ServedOnce, Copies, Charged, AtHand
<1>0. /\ Len(routes) \in Nat /\ Len(routes') \in Nat
      /\ \A k \in 1..Len(routes) : routes[k].client \in Conns \cup {NoConn}
      /\ di \in Nat \ {0}
      /\ wire \in [Conns -> Seq(OutChunk)]
      /\ Dispatching \/ pc = "clear" => cur \in Conns
  <2>1. /\ routes \in Seq(Route) /\ routes' \in Seq(Route) /\ di \in Nat \ {0}
        /\ wire \in [Conns -> Seq(OutChunk)]
        /\ Dispatching \/ pc = "clear" => cur \in Conns
    BY DEF LoopInv, TypeOK, DispatchLoop
  <2>2. \A k \in 1..Len(routes) : routes[k] \in Route
    BY <2>1
  <2> QED BY <2>1, <2>2, LenProperties DEF Route
<1>1. CASE wire'[c] = <<>>
  <2>1. Copies(c, v)' = {}
    <3>1. Len(wire'[c]) = 0
      BY <1>1
    <3> QED BY <3>1 DEF Copies
  <2>2. Charged(c, v)' \in SUBSET (1..Len(routes'))
    BY DEF Charged
  <2>3. Cardinality(Charged(c, v)') \in Nat
    BY <1>0, <2>2, SubsetCardinality
  <2> QED BY <2>1, <2>3, FS_EmptySet
<1>2. CASE wire'[c] # <<>>
  <2>1. ~(CloseClient /\ c = cur)
    BY <1>0, <1>2 DEF CloseClient
  <2>2. IsClient(c)
    <3>1. SUFFICES ASSUME ~IsClient(c) PROVE FALSE
      OBVIOUS
    <3>2. Accept /\ c \in backlog
      BY <3>1, OnlyAcceptAdds
    <3> QED BY <1>2, <3>2 DEF Accept, Silent
  <2>3. Cardinality(Copies(c, v)) <= Cardinality(Charged(c, v))
    BY <2>2 DEF ServedOnce
  <2> DEFINE S == Charged(c, v)
             T == Copies(c, v)
             U == Charged(c, v)'
             V == Copies(c, v)'
  <2>4. /\ S \in SUBSET (1..Len(routes)) /\ U \in SUBSET (1..Len(routes'))
        /\ Len(wire'[c]) \in Nat
        /\ T \in SUBSET (1..Len(wire'[c])) /\ V \in SUBSET (1..Len(wire'[c]))
    BY <2>1, CopiesStep DEF Charged
  <2>5. /\ Cardinality(S) \in Nat /\ Cardinality(T) \in Nat
        /\ Cardinality(U) \in Nat /\ IsFiniteSet(U)
    BY <1>0, <2>4, SubsetCardinality
  \* Nothing new on the wire, and no charged route lost.
  <2>6. ASSUME V = T, S \subseteq U PROVE Cardinality(V) <= Cardinality(U)
    <3> HIDE DEF S, T, U, V
    <3>1. Cardinality(S) <= Cardinality(U)
      BY <2>5, <2>6, FS_Subset
    <3>2. Cardinality(T) <= Cardinality(S)
      BY <2>3 DEF S, T
    <3> QED BY <2>5, <2>6, <3>1, <3>2
  <2>7. ASSUME Len(routes) <= Len(routes'),
               \A k \in 1..Len(routes) : routes'[k] = routes[k],
               AtHand(v)' =>
                 /\ AtHand(v) /\ di' \in Nat /\ di <= di'
                 /\ peer[c] = "reset" => peer'[c] = "reset"
                 /\ pc = "forward" =>
                      \/ pc' = "forward" \/ di < di'
                      \/ routes[di].client = c => peer'[c] = "reset"
        PROVE  S \subseteq U
    <3> SUFFICES ASSUME NEW r \in S PROVE r \in U
      OBVIOUS
    <3>1. /\ r \in 1..Len(routes) /\ routes[r].client = c /\ routes[r].id = v.id
          /\ AtHand(v) => \/ r < di
                          \/ r = di /\ pc = "forward" /\ v.part = "header"
                          \/ r = di /\ peer[c] = "reset"
      BY DEF Charged
    <3>2. r \in 1..Len(routes') /\ routes'[r] = routes[r]
      BY <1>0, <2>7, <3>1
    <3>3. ASSUME AtHand(v)'
          PROVE  \/ r < di'
                 \/ r = di' /\ pc' = "forward" /\ v.part = "header"
                 \/ r = di' /\ peer'[c] = "reset"
      <4>1. /\ AtHand(v) /\ di' \in Nat /\ di <= di'
            /\ peer[c] = "reset" => peer'[c] = "reset"
            /\ pc = "forward" =>
                 \/ pc' = "forward" \/ di < di'
                 \/ routes[di].client = c => peer'[c] = "reset"
        BY <2>7, <3>3
      <4>2. CASE r < di
        BY <1>0, <3>1, <4>1, <4>2
      <4>3. CASE r = di /\ pc = "forward" /\ v.part = "header"
        BY <1>0, <3>1, <4>1, <4>3
      <4>4. CASE r = di /\ peer[c] = "reset"
        BY <1>0, <3>1, <4>1, <4>4
      <4> QED BY <3>1, <4>1, <4>2, <4>3, <4>4
    <3> QED BY <3>1, <3>2, <3>3 DEF Charged
  <2>8. V = T \/ Forwarded(c)
    BY <2>1, CopiesStep
  <2>9. peer[c] = "reset" => peer'[c] = "reset"
    BY <2>1, LivesStep
  \* No frame at hand, before and after.
  <2>10. ASSUME V = T, routes' = routes, ~Dispatching' PROVE Cardinality(V) <= Cardinality(U)
    <3>1. ~AtHand(v)'
      BY <2>10 DEF AtHand
    <3> QED BY <1>0, <2>6, <2>7, <2>10, <3>1
  <2>11. CASE \/ Select \/ Accept \/ SkipClient \/ ClientsDone \/ CloseClient
              \/ \E d \in Conns : ReadPreamble(d) \/ ReadHeader(d) \/ DropClient(d)
    <3>1. routes' = routes /\ ~Dispatching' /\ ~Dispatching
      BY <2>11 DEF Select, Accept, SkipClient, ClientsDone, CloseClient, ReadPreamble,
         ReadHeader, DropClient, Reads, Dispatching
    <3>2. ~Forwarded(c)
      BY <3>1, Forwarding DEF Forwarded
    <3> QED BY <2>8, <2>10, <3>1, <3>2
  <2>12. ASSUME NEW d \in Conns, ReadPayload(d) PROVE Cardinality(V) <= Cardinality(U)
    <3>1. /\ rd[d] = "payload" /\ pc = "clients" /\ pc' = "dispatch" /\ cur' = d
          /\ UNCHANGED <<routes, hdr, wire>>
      BY <2>12 DEF ReadPayload, Reads
    <3>2. V = T
      BY <3>1 DEF Copies
    <3>3. CASE v.from = d /\ v.seq = hdr[d].seq
      <4>1. ASSUME NEW j \in 1..Len(wire[c]), wire[c][j] = v PROVE FALSE
        <5>1. NotAfter(v)
          BY <4>1 DEF WireNumbered
        <5>2. v.seq < hdr[d].seq /\ v.seq \in Nat
          BY <3>1, <3>3, <5>1 DEF NotAfter, Dispatching, OutChunk
        <5> QED BY <3>3, <5>2
      <4>2. V = {}
        BY <3>2, <4>1 DEF Copies
      <4> HIDE DEF V, U
      <4> QED BY <2>5, <4>2, FS_EmptySet
    <3>4. CASE ~(v.from = d /\ v.seq = hdr[d].seq)
      <4>1. ~AtHand(v)'
        BY <3>1, <3>4 DEF AtHand
      <4> QED BY <1>0, <2>6, <2>7, <3>1, <3>2, <4>1
    <3> QED BY <3>3, <3>4
  <2>13. CASE ClearRoute
    <3>1. /\ pc = "clear" /\ pc' = "clear" /\ di \in 1..Len(routes) /\ wire' = wire
          /\ \/ /\ routes[di].client = cur /\ Len(routes') = Len(routes) - 1
                /\ \A j \in 1..Len(routes) - 1 :
                     routes'[j] = IF j < di THEN routes[j] ELSE routes[j + 1]
             \/ routes' = routes
      BY <2>13, ClearRoutes DEF peerVars
    <3>2. ~Dispatching /\ ~Dispatching' /\ V = T
      BY <3>1 DEF Dispatching, Copies
    <3>3. c # cur
      BY <2>2, <3>1 DEF SlotsApart, IsClient
    <3>4. CASE routes' = routes
      BY <2>10, <3>2, <3>4
    <3>5. CASE routes' # routes
      <4>1. di \notin S
        BY <3>1, <3>3, <3>5 DEF Charged
      <4>2. ASSUME NEW r \in S PROVE (IF r < di THEN r ELSE r - 1) \in U
        <5>1. r \in 1..Len(routes) /\ routes[r].client = c /\ routes[r].id = v.id /\ r # di
          BY <4>1 DEF Charged
        <5>2. CASE r < di
          <6>1. r \in 1..Len(routes) - 1 /\ r \in 1..Len(routes')
            BY <1>0, <3>1, <3>5, <5>1, <5>2
          <6>2. routes'[r] = routes[r]
            BY <3>1, <3>5, <5>2, <6>1
          <6> QED BY <3>2, <5>1, <5>2, <6>1, <6>2 DEF Charged, AtHand
        <5>3. CASE ~(r < di)
          <6>1. /\ r - 1 \in 1..Len(routes) - 1 /\ r - 1 \in 1..Len(routes')
                /\ ~(r - 1 < di) /\ (r - 1) + 1 = r
            BY <1>0, <3>1, <3>5, <5>1, <5>3
          <6>2. routes'[r - 1] = routes[r]
            BY <3>1, <3>5, <6>1
          <6> QED BY <3>2, <5>1, <5>3, <6>1, <6>2 DEF Charged, AtHand
        <5> QED BY <5>2, <5>3
      <4>3. U \in SUBSET (1..Len(routes))
        <5>1. \A r \in 1..Len(routes') : r \in 1..Len(routes)
          BY <1>0, <3>1, <3>5
        <5> QED BY <2>4, <5>1
      <4>4. S \in SUBSET (1..Len(routes))
        BY <2>4
      <4>5. Cardinality(T) <= Cardinality(S)
        BY <2>3
      <4> HIDE DEF S, T, U, V
      <4>6. Cardinality(S) <= Cardinality(U)
        BY <1>0, <3>1, <4>1, <4>2, <4>3, <4>4, MovedUp
      <4>7. Cardinality(V) <= Cardinality(U)
        BY <2>5, <3>2, <4>5, <4>6
      <4> QED BY <4>7 DEF U, V
    <3> QED BY <3>4, <3>5
  <2>14. ASSUME NEW p \in {"header", "payload"},
                IF p = "header" THEN ForwardHeader ELSE ForwardPayload
         PROVE  Cardinality(V) <= Cardinality(U)
    <3>1. /\ di \in 1..Len(routes) /\ UNCHANGED <<routes, hdr, cur, peer>>
          /\ pc = (IF p = "header" THEN "dispatch" ELSE "forward")
          /\ pc' = (IF p = "header" THEN "forward" ELSE "dispatch")
          /\ di' = (IF p = "header" THEN di ELSE di + 1)
      BY <2>14, Forwarding
    <3>2. Dispatching /\ Dispatching' /\ (AtHand(v)' <=> AtHand(v))
      BY <3>1 DEF Dispatching, AtHand
    <3>3. S \subseteq U
      <4>1. /\ di' \in Nat /\ di <= di'
            /\ pc = "forward" => pc' = "forward" \/ di < di'
        BY <1>0, <3>1
      <4> QED BY <1>0, <2>7, <2>9, <3>1, <3>2, <4>1
    <3>4. CASE V = T
      BY <2>6, <3>3, <3>4
    <3>5. CASE V # T
      <4>1. /\ Forwarded(c)
            /\ \E q \in {"header", "payload"} :
                 /\ IF q = "header" THEN ForwardHeader ELSE ForwardPayload
                 /\ v = OutChunkFor(routes[di], q)
            /\ V \subseteq T \cup {Len(wire[c]) + 1}
        BY <2>1, <3>5, CopiesStep
      <4>2. v = OutChunkFor(routes[di], p)
        BY <3>1, <4>1, Forwarding
      <4>3. Alive(c) /\ c = routes[di].client
        BY <4>1 DEF Forwarded
      <4>4. AtHand(v) /\ v.id = routes[di].id /\ v.part = p
        <5>1. v.from = cur /\ v.seq = hdr[cur].seq
          BY <2>14, <4>2, FrameAtHand
        <5> QED BY <3>2, <4>2, <5>1 DEF AtHand, OutChunkFor
      <4>5. di \notin S
        BY <1>0, <3>1, <4>3, <4>4 DEF Charged, Alive
      <4>6. di \in U
        BY <1>0, <3>1, <3>2, <4>3, <4>4 DEF Charged
      <4>7. S \cup {di} \subseteq U /\ S \in SUBSET (1..Len(routes))
            /\ U \in SUBSET (1..Len(routes))
        BY <2>4, <3>1, <3>3, <4>6
      <4>8. Cardinality(T) <= Cardinality(S)
        BY <2>3
      <4> HIDE DEF S, T, U, V
      <4> QED BY <1>0, <2>4, <4>1, <4>5, <4>7, <4>8, OneMore, ZenonT(60)
    <3> QED BY <3>4, <3>5
  <2>15. CASE ForwardHeader
    BY <2>14, <2>15
  <2>16. CASE ForwardPayload
    BY <2>14, <2>16
  \* Dispatch steps that send nothing to c, or an error.
  <2>17. ASSUME ~Forwarded(c), Len(routes) <= Len(routes'),
                \A k \in 1..Len(routes) : routes'[k] = routes[k],
                \/ ~Dispatching'
                \/ /\ UNCHANGED <<hdr, cur>> /\ Dispatching
                   /\ di' \in Nat /\ di <= di'
                   /\ pc = "forward" =>
                        \/ pc' = "forward"
                        \/ routes[di].client = c => peer'[c] = "reset"
         PROVE  Cardinality(V) <= Cardinality(U)
    <3>1. V = T
      BY <2>8, <2>17
    <3>2. AtHand(v)' =>
            /\ AtHand(v) /\ di' \in Nat /\ di <= di'
            /\ pc = "forward" =>
                 \/ pc' = "forward"
                 \/ routes[di].client = c => peer'[c] = "reset"
      BY <2>17 DEF AtHand
    <3>3. S \subseteq U
      BY <2>7, <2>9, <2>17, <3>2
    <3> QED BY <2>6, <3>1, <3>3
  <2>18. CASE DispatchSkip
    <3>1. pc = "dispatch" /\ pc' = "dispatch" /\ di' = di + 1 /\ UNCHANGED <<routes, hdr, cur, wire>>
      BY <2>18 DEF DispatchSkip, peerVars
    <3>2. V = T
      BY <3>1 DEF Copies
    <3>3. S \subseteq U
      BY <1>0, <2>7, <2>9, <3>1 DEF AtHand, Dispatching
    <3> QED BY <2>6, <3>2, <3>3
  <2>19. CASE DispatchLocal
    <3>1. /\ pc = "dispatch" /\ pc' = "dispatch" /\ di' = di + 1 /\ UNCHANGED <<hdr, cur, wire>>
          /\ \/ routes' = routes
             \/ /\ Len(routes') = Len(routes) + 1
                /\ \A k \in 1..Len(routes) : routes'[k] = routes[k]
      BY <2>19, LocalRoutes DEF peerVars
    <3>2. V = T
      BY <3>1 DEF Copies
    <3>3. Len(routes) <= Len(routes') /\ \A k \in 1..Len(routes) : routes'[k] = routes[k]
      BY <1>0, <3>1
    <3>4. S \subseteq U
      BY <1>0, <2>7, <2>9, <3>1, <3>3 DEF AtHand, Dispatching
    <3> QED BY <2>6, <3>2, <3>4
  <2>20. CASE ForwardFails
    <3>1. /\ pc \in {"dispatch", "forward"} /\ pc' = "dispatch" /\ peer[routes[di].client] = "reset"
          /\ UNCHANGED <<routes, hdr, cur, di, wire, peer>>
      BY <2>20 DEF ForwardFails, Forwards, SendFails, peerVars
    <3>2. V = T
      BY <3>1 DEF Copies
    <3>3. S \subseteq U
      BY <1>0, <2>7, <2>9, <3>1 DEF AtHand, Dispatching
    <3> QED BY <2>6, <3>2, <3>3
  <2>21. CASE DispatchDone \/ NoRouteAborts
    <3>1. /\ pc \in {"dispatch", "noroute", "noroutePayload"} /\ UNCHANGED <<routes, wire>>
          /\ \/ pc' = "clients"
             \/ UNCHANGED <<hdr, cur, di>>
      BY <2>21 DEF DispatchDone, NoRouteAborts, FinishFrame, peerVars
    <3>2. V = T
      BY <3>1 DEF Copies
    <3>3. S \subseteq U
      BY <1>0, <2>7, <2>9, <3>1 DEF AtHand, Dispatching
    <3> QED BY <2>6, <3>2, <3>3
  <2>22. ASSUME NEW p \in {"header", "payload"},
                IF p = "header" THEN NoRouteHeader ELSE NoRoutePayload
         PROVE  Cardinality(V) <= Cardinality(U)
    <3>1. /\ pc = (IF p = "header" THEN "noroute" ELSE "noroutePayload")
          /\ pc' = (IF p = "header" THEN "noroutePayload" ELSE "clients")
          /\ routes' = routes
      BY <2>22, Answering
    <3>2. ~Forwarded(c)
      BY <3>1, Forwarding DEF Forwarded
    <3>3. CASE p = "header"
      <4>1. UNCHANGED <<hdr, cur, di>>
        BY <2>22, <3>3 DEF NoRouteHeader
      <4> QED BY <1>0, <2>17, <3>1, <3>2, <4>1 DEF Dispatching
    <3>4. CASE p = "payload"
      BY <1>0, <2>17, <3>1, <3>2, <3>4 DEF Dispatching
    <3> QED BY <3>3, <3>4
  <2>23. CASE NoRouteHeader
    BY <2>22, <2>23
  <2>24. CASE NoRoutePayload
    BY <2>22, <2>24
  <2>25. ASSUME UNCHANGED <<pc, routes, di, hdr, cur, wire>> PROVE Cardinality(V) <= Cardinality(U)
    <3>1. V = T
      BY <2>25 DEF Copies
    <3>2. S \subseteq U
      BY <1>0, <2>7, <2>9, <2>25 DEF AtHand, Dispatching
    <3> QED BY <2>6, <3>1, <3>2
  <2>26. ASSUME NEW d \in Conns, PeerStep(d) PROVE UNCHANGED <<pc, routes, di, hdr, cur, wire>>
    BY <2>26 DEF PeerStep, PeerConnect, PeerSendHeader, PeerSendPayload, PeerRecv,
       PeerClose, SocketReset, routerVars
  <2>27. CASE UNCHANGED vars
    BY <2>25, <2>27 DEF vars
  <2> QED BY <2>11, <2>12, <2>13, <2>15, <2>16, <2>18, <2>19, <2>20, <2>21, <2>23, <2>24,
             <2>25, <2>26, <2>27 DEF Next, RouterStep, ReadClient, Dispatch
<1> QED BY <1>1, <1>2

\* Nobody is left out and nobody is served twice: every matching subscriber that the
\* dispatch loop has passed and that lives has the whole frame, and no client has more
\* copies of it than routes under that id; for any number of clients and routes, over
\* retried sends, subscriptions added in between and sequence numbers of reused slots.
THEOREM ServedExactlyOnceInvariant == Spec => []ServedExactlyOnce
<1>1. Init => PassedServed /\ ServedOnce
  BY DEF Init, PassedServed, ServedOnce, IsClient
<1>2. LoopInv /\ LoopInv' /\ NoDanglingRoute /\ DeliveryInv /\ PassedServed /\ ServedOnce
      /\ [Next]_vars => (PassedServed /\ ServedOnce)'
  BY PassedServedStep, ServedOnceStep DEF DeliveryInv
<1>3. PassedServed => ServedSoFar
  BY DEF PassedServed, HasFrame, ServedSoFar
<1>4. LoopInv /\ ServedOnce => OncePerRoute
  <2> SUFFICES ASSUME LoopInv, ServedOnce, NEW c \in Conns, IsClient(c),
                      NEW k \in 1..Len(wire[c]), wire[c][k].from # NoConn
               PROVE  Cardinality({j \in 1..Len(wire[c]) : wire[c][j] = wire[c][k]})
                        <= Cardinality({r \in 1..Len(routes) :
                             routes[r].client = c /\ routes[r].id = wire[c][k].id})
    BY DEF OncePerRoute
  <2>1. PICK v \in OutChunk : v = wire[c][k]
    BY WireTypes
  <2> DEFINE T == {j \in 1..Len(wire[c]) : wire[c][j] = v}
             U == {r \in 1..Len(routes) : routes[r].client = c /\ routes[r].id = v.id}
             S == Charged(c, v)
  <2>2. Len(routes) \in Nat /\ Len(wire[c]) \in Nat
    BY VectorTypes, WireTypes
  <2>3. S \subseteq U /\ U \in SUBSET (1..Len(routes)) /\ S \in SUBSET (1..Len(routes))
        /\ T \in SUBSET (1..Len(wire[c]))
    BY DEF Charged
  <2>4. Cardinality(T) <= Cardinality(S)
    BY <2>1 DEF ServedOnce, Copies
  <2>5. Cardinality(T) <= Cardinality(U)
    <3> HIDE DEF S, T, U
    <3>1. /\ IsFiniteSet(U) /\ Cardinality(U) \in Nat
          /\ Cardinality(S) \in Nat /\ Cardinality(T) \in Nat
      BY <2>2, <2>3, SubsetCardinality
    <3>2. Cardinality(S) <= Cardinality(U)
      BY <2>3, <3>1, FS_Subset
    <3> QED BY <2>4, <3>1, <3>2
  <2> QED BY <2>1, <2>5
<1> QED BY <1>1, <1>2, <1>3, <1>4, DeliveryInvInit, DeliveryInvStep, LoopInvariant,
           NoDanglingRouteInvariant, PTL DEF Spec, ServedExactlyOnce
=============================================================================
