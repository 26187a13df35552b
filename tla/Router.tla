------------------------------- MODULE Router -------------------------------
(***************************************************************************)
(* The routing daemon of rtrouted.c: one thread that waits in select(),    *)
(* accepts clients, reads their frames piece by piece and dispatches every *)
(* complete message along the route table with blocking sends.             *)
(*                                                                         *)
(* A router step runs from one system call to the next; between two steps  *)
(* the peers (processes using rtConnection.c) may connect, send, receive,  *)
(* close their socket or die.  A frame travels as two chunks because both  *)
(* ends send it with two calls of send(): the header, then the payload.    *)
(***************************************************************************)
EXTENDS Naturals, Sequences, FiniteSets, SequencesExt

CONSTANTS
  Conns,       \* rtConnectedClient slots: an address and fd, free to be reused
  NoConn,      \* the NULL subscription of the routes main() adds itself
  Listener,    \* the listening socket, as a member of the fd_set
  Topics,      \* topics of application messages
  Exprs,       \* subscription expressions
  Matches,     \* the pairs <<topic, expression>> rtRouted_IsTopicMatch accepts
  DebugRoute,  \* TRUE if rtrouted runs with -r
  Sends,       \* Sends[c]: the messages the peer on slot c may send
  MayDie,      \* the slots whose peer may close its socket
  SockBuf,     \* chunks a socket holds before send() blocks
  MaxSend      \* bound: messages sent on a slot over all of its lives

InternalExp == "_RTROUTED.>"
DebugExp    == ">"
NoExp       == ""
Control     == {"SUBSCRIBE", "HELLO"}   \* the _RTROUTED.INBOX topics

\* A control message carries a JSON object, hence is never empty, and names
\* an expression; HELLO always registers under subscription id 0.
Message ==
  {m \in [topic : Topics \cup Control, id : Nat, exp : Exprs \cup {NoExp},
          req : BOOLEAN, empty : BOOLEAN] :
     m.topic \in Control => /\ m.exp \in Exprs
                            /\ ~m.empty
                            /\ m.topic = "HELLO" => m.id = 0}

ASSUME ConnsAssumption ==
  /\ NoConn \notin Conns
  /\ Listener \notin Conns
ASSUME TopicsAssumption ==
  /\ Topics \cap Control = {}
  /\ "" \notin Topics
  /\ {InternalExp, DebugExp} \subseteq Exprs
  /\ NoExp \notin Exprs
ASSUME MatchesAssumption ==
  /\ Matches \subseteq (Topics \cup Control) \X Exprs
  /\ DebugRoute \in BOOLEAN
ASSUME SendsAssumption == Sends \in [Conns -> SUBSET Message]
ASSUME BoundsAssumption ==
  /\ MayDie \subseteq Conns
  /\ SockBuf \in Nat \ {0}
  /\ MaxSend \in Nat

Route == [handler : {"OnMessage", "PrintMessage", "ForwardMessage"},
          client : Conns \cup {NoConn}, id : Nat, exp : Exprs]

\* What a peer puts on the wire: the message stamped with its sender and
\* sequence number, as a header chunk and, unless it is empty, a payload chunk.
Header  == [from : Conns, seq : Nat, msg : Message]
InChunk == [part : {"header", "payload"}, hdr : Header]

\* What the router puts on the wire towards a client.
OutChunk == [part : {"header", "payload"}, id : Nat, from : Conns \cup {NoConn},
             seq : Nat, topic : Topics \cup Control \cup {"NO.ROUTE.RESPONSE"}]

NoMessage == [topic |-> "", id |-> 0, exp |-> NoExp, req |-> FALSE, empty |-> FALSE]
NoHeader  == [from |-> NoConn, seq |-> 0, msg |-> NoMessage]

VARIABLES
  pc,       \* where the router thread is
  ready,    \* read_fds as select() returned it
  clients,  \* rtVector of connected clients
  routes,   \* rtVector of route entries
  rd,       \* rd[c]: clnt->state, which part of a frame is read next
  hdr,      \* hdr[c]: clnt->header, the decoded header
  cur,      \* the client being read, dispatched for or destroyed
  i, n,     \* the client loop of main()
  di, dn,   \* the loops of DispatchMessageFromClient and ClearClientRoutes
  found     \* match_found

VARIABLES
  peer,     \* the remote end of each slot
  backlog,  \* connections not yet accepted
  inb,      \* inb[c]: chunks sent by the peer and not yet read
  wire,     \* wire[c]: every chunk the router sent on this connection
  taken,    \* taken[c]: how many of them the peer has read
  half,     \* half[c]: header sent, payload not yet
  sent,     \* sent[c]: messages sent on this slot so far
  subs      \* subs[c]: the <<id, exp>> the peer has asked for

routerVars == <<pc, ready, clients, routes, rd, hdr, cur, i, n, di, dn, found>>
peerVars   == <<peer, backlog, inb, wire, taken, half, sent, subs>>
vars       == <<pc, ready, clients, routes, rd, hdr, cur, i, n, di, dn, found,
                peer, backlog, inb, wire, taken, half, sent, subs>>

-----------------------------------------------------------------------------
BuiltinRoute(h, e) == [handler |-> h, client |-> NoConn, id |-> 0, exp |-> e]

InitialRoutes ==
  IF DebugRoute
  THEN <<BuiltinRoute("OnMessage", InternalExp), BuiltinRoute("PrintMessage", DebugExp)>>
  ELSE <<BuiltinRoute("OnMessage", InternalExp)>>

Init ==
  /\ pc = "select"
  /\ ready = {}
  /\ clients = <<>>
  /\ routes = InitialRoutes
  /\ rd = [c \in Conns |-> "preamble"]
  /\ hdr = [c \in Conns |-> NoHeader]
  /\ cur = NoConn
  /\ i = 1 /\ n = 0 /\ di = 1 /\ dn = 0
  /\ found = FALSE
  /\ peer = [c \in Conns |-> "idle"]
  /\ backlog = {}
  /\ inb = [c \in Conns |-> <<>>]
  /\ wire = [c \in Conns |-> <<>>]
  /\ taken = [c \in Conns |-> 0]
  /\ half = [c \in Conns |-> NoHeader]
  /\ sent = [c \in Conns |-> 0]
  /\ subs = [c \in Conns |-> {}]

-----------------------------------------------------------------------------
(* The peers and the sockets between them and the router.                  *)

Alive(c)    == peer[c] = "open"
Readable(c) == inb[c] # <<>> \/ peer[c] \in {"closed", "reset"}
Unread(c)   == Len(wire[c]) - taken[c]

PeerConnect(c) ==
  /\ peer[c] = "idle"
  /\ peer' = [peer EXCEPT ![c] = "open"]
  /\ backlog' = backlog \cup {c}
  /\ UNCHANGED <<routerVars, inb, wire, taken, half, sent, subs>>

\* First send() of rtConnection_SendInternal.
PeerSendHeader(c) ==
  /\ Alive(c)
  /\ half[c] = NoHeader
  /\ sent[c] < MaxSend
  /\ Len(inb[c]) < SockBuf
  /\ \E m \in Sends[c] :
       LET h == [from |-> c, seq |-> sent[c], msg |-> m] IN
       /\ inb' = [inb EXCEPT ![c] = Append(@, [part |-> "header", hdr |-> h])]
       /\ half' = [half EXCEPT ![c] = IF m.empty THEN NoHeader ELSE h]
       /\ subs' = [subs EXCEPT ![c] =
                     IF m.topic \in Control THEN @ \cup {<<m.id, m.exp>>} ELSE @]
  /\ sent' = [sent EXCEPT ![c] = @ + 1]
  /\ UNCHANGED <<routerVars, peer, backlog, wire, taken>>

\* Second send() of rtConnection_SendInternal.
PeerSendPayload(c) ==
  /\ Alive(c)
  /\ half[c] # NoHeader
  /\ Len(inb[c]) < SockBuf
  /\ inb' = [inb EXCEPT ![c] = Append(@, [part |-> "payload", hdr |-> half[c]])]
  /\ half' = [half EXCEPT ![c] = NoHeader]
  /\ UNCHANGED <<routerVars, peer, backlog, wire, taken, sent, subs>>

\* rtConnection reads only from its dispatch functions, never while sending.
PeerRecv(c) ==
  /\ Alive(c)
  /\ half[c] = NoHeader
  /\ Unread(c) > 0
  /\ taken' = [taken EXCEPT ![c] = @ + 1]
  /\ UNCHANGED <<routerVars, peer, backlog, inb, wire, half, sent, subs>>

\* The peer closes its socket or dies, possibly between its two sends.  After
\* "closed" the router still reads what was sent and may lose what it sends;
\* after "reset" every call on the socket fails.
PeerClose(c) ==
  /\ c \in MayDie
  /\ Alive(c)
  /\ \E s \in {"closed", "reset"} : peer' = [peer EXCEPT ![c] = s]
  /\ UNCHANGED <<routerVars, backlog, inb, wire, taken, half, sent, subs>>

\* The answer of the dead peer's kernel to data sent to it arrives.
SocketReset(c) ==
  /\ peer[c] = "closed"
  /\ peer' = [peer EXCEPT ![c] = "reset"]
  /\ UNCHANGED <<routerVars, backlog, inb, wire, taken, half, sent, subs>>

\* send() to c: blocks while a living peer's socket is full, is lost when the
\* peer has gone, fails with EPIPE once the reset is known.
SendOK(c, chunk) ==
  \/ /\ Alive(c)
     /\ Unread(c) < SockBuf
     /\ wire' = [wire EXCEPT ![c] = Append(@, chunk)]
  \/ /\ peer[c] = "closed"
     /\ UNCHANGED wire
SendFails(c) == peer[c] = "reset"

-----------------------------------------------------------------------------
(* The event loop of main().                                               *)

IsClient(c) == \E k \in 1..Len(clients) : clients[k] = c

\* select() over the listener and all clients; its timeout changes nothing.
Select ==
  /\ pc = "select"
  /\ LET fds == {c \in Conns : IsClient(c) /\ Readable(c)}
                  \cup (IF backlog # {} THEN {Listener} ELSE {})
     IN  /\ fds # {}
         /\ ready' = fds
  /\ pc' = "accept"
  /\ UNCHANGED <<clients, routes, rd, hdr, cur, i, n, di, dn, found, peerVars>>

\* rtRouted_AcceptClientConnection and rtRouted_RegisterNewClient, then the
\* head of the client loop.
Accept ==
  /\ pc = "accept"
  /\ IF Listener \in ready
     THEN \E c \in backlog :
            /\ backlog' = backlog \ {c}
            /\ clients' = Append(clients, c)
            /\ rd' = [rd EXCEPT ![c] = "preamble"]
            /\ hdr' = [hdr EXCEPT ![c] = NoHeader]
     ELSE UNCHANGED <<backlog, clients, rd, hdr>>
  /\ i' = 1
  /\ n' = Len(clients')
  /\ pc' = "clients"
  /\ UNCHANGED <<ready, routes, cur, di, dn, found,
                 peer, inb, wire, taken, half, sent, subs>>

ClientsDoneEarly ==  \* Mutant of ClientsDone: the last client is left out.
  /\ pc = "clients" /\ i >= n
  /\ pc' = "select" /\ ready' = {} /\ i' = 1 /\ n' = 0
  /\ UNCHANGED <<clients, routes, rd, hdr, cur, di, dn, found, peerVars>>

\* End of the client loop: back to select(), and read_fds and n go out of scope.
ClientsDone ==
  /\ pc = "clients"
  /\ i > n
  /\ pc' = "select"
  /\ ready' = {}
  /\ i' = 1
  /\ n' = 0
  /\ UNCHANGED <<clients, routes, rd, hdr, cur, di, dn, found, peerVars>>

SkipClient ==
  /\ pc = "clients"
  /\ i <= n
  /\ clients[i] \notin ready
  /\ i' = i + 1
  /\ UNCHANGED <<pc, ready, clients, routes, rd, hdr, cur, n, di, dn, found, peerVars>>

ReadsUnasked(c) ==  \* Mutant of Reads: without the FD_ISSET test.
  pc = "clients" /\ i <= n /\ c = clients[i]

\* rtConnectedClient_Read is about to call recv() on client c.
Reads(c) ==
  /\ pc = "clients"
  /\ i <= n
  /\ c = clients[i]
  /\ c \in ready

RecvFailsOnShortRead(c) ==  \* Mutant of RecvFails: half a frame counts as an error.
  peer[c] = "reset" \/ Len(inb[c]) < 2

\* recv() has nothing to give although the socket is readable, or is asked
\* for the zero bytes of an empty payload.
RecvFails(c) ==
  \/ peer[c] = "reset"
  \/ inb[c] = <<>>
  \/ rd[c] = "payload" /\ hdr[c].msg.empty

ReadPreamble(c) ==
  /\ Reads(c) /\ ~RecvFails(c)
  /\ rd[c] = "preamble"
  /\ rd' = [rd EXCEPT ![c] = "header"]
  /\ i' = i + 1
  /\ UNCHANGED <<pc, ready, clients, routes, hdr, cur, n, di, dn, found, peerVars>>

ReadHeader(c) ==
  /\ Reads(c) /\ ~RecvFails(c)
  /\ rd[c] = "header"
  /\ hdr' = [hdr EXCEPT ![c] = Head(inb[c]).hdr]
  /\ inb' = [inb EXCEPT ![c] = Tail(@)]
  /\ rd' = [rd EXCEPT ![c] = "payload"]
  /\ i' = i + 1
  /\ UNCHANGED <<pc, ready, clients, routes, cur, n, di, dn, found,
                 peer, backlog, wire, taken, half, sent, subs>>

\* The payload is complete: rtRouter_DispatchMessageFromClient starts.
ReadPayload(c) ==
  /\ Reads(c) /\ ~RecvFails(c)
  /\ rd[c] = "payload"
  /\ inb' = [inb EXCEPT ![c] = Tail(@)]
  /\ cur' = c
  /\ di' = 1
  /\ dn' = Len(routes)
  /\ found' = FALSE
  /\ pc' = "dispatch"
  /\ UNCHANGED <<ready, clients, routes, rd, hdr, i, n,
                 peer, backlog, wire, taken, half, sent, subs>>

\* The read failed: the client leaves the vector and is then destroyed.
DropClient(c) ==
  /\ Reads(c) /\ RecvFails(c)
  /\ clients' = RemoveAt(clients, i)
  /\ n' = n - 1
  /\ cur' = c
  /\ di' = 1
  /\ pc' = "clear"
  /\ UNCHANGED <<ready, routes, rd, hdr, i, dn, found, peerVars>>

-----------------------------------------------------------------------------
(* rtConnectedClient_Destroy: rtRouted_ClearClientRoutes, close and free.  *)

ClearRouteSkips ==  \* Mutant of ClearRoute: i++ after a removal, too.
  /\ pc = "clear" /\ di <= Len(routes)
  /\ routes' = IF routes[di].client = cur THEN RemoveAt(routes, di) ELSE routes
  /\ di' = di + 1
  /\ UNCHANGED <<pc, ready, clients, rd, hdr, cur, i, n, dn, found, peerVars>>

ClearRoute ==
  /\ pc = "clear"
  /\ di <= Len(routes)
  /\ IF routes[di].client = cur
     THEN routes' = RemoveAt(routes, di) /\ UNCHANGED di
     ELSE di' = di + 1 /\ UNCHANGED routes
  /\ UNCHANGED <<pc, ready, clients, rd, hdr, cur, i, n, dn, found, peerVars>>

\* The slot may now carry a new connection.
CloseClient ==
  /\ pc = "clear"
  /\ di > Len(routes)
  /\ peer' = [peer EXCEPT ![cur] = "idle"]
  /\ inb' = [inb EXCEPT ![cur] = <<>>]
  /\ wire' = [wire EXCEPT ![cur] = <<>>]
  /\ taken' = [taken EXCEPT ![cur] = 0]
  /\ half' = [half EXCEPT ![cur] = NoHeader]
  /\ subs' = [subs EXCEPT ![cur] = {}]
  /\ cur' = NoConn
  /\ di' = 1
  /\ pc' = "clients"
  /\ UNCHANGED <<ready, clients, routes, rd, hdr, i, n, dn, found, backlog, sent>>

-----------------------------------------------------------------------------
(* rtRouter_DispatchMessageFromClient.                                     *)

Msg == hdr[cur].msg
IsMatch(r) == <<Msg.topic, r.exp>> \in Matches

DispatchSkip ==
  /\ pc = "dispatch"
  /\ di <= dn
  /\ ~IsMatch(routes[di])
  /\ di' = di + 1
  /\ UNCHANGED <<pc, ready, clients, routes, rd, hdr, cur, i, n, dn, found, peerVars>>

\* rtRouted_AddRoute for the sender of a SUBSCRIBE or HELLO message.
NewRoute ==
  [handler |-> "ForwardMessage", client |-> cur, id |-> Msg.id, exp |-> Msg.exp]

\* rtRouted_OnMessage and rtRouted_PrintMessage.
DispatchLocal ==
  /\ pc = "dispatch"
  /\ di <= dn
  /\ IsMatch(routes[di])
  /\ routes[di].handler # "ForwardMessage"
  /\ routes' = IF routes[di].handler = "OnMessage" /\ Msg.topic \in Control
               THEN Append(routes, NewRoute) ELSE routes
  /\ found' = TRUE
  /\ di' = di + 1
  /\ UNCHANGED <<pc, ready, clients, rd, hdr, cur, i, n, dn, peerVars>>

Forwards ==
  /\ pc = "dispatch"
  /\ di <= dn
  /\ IsMatch(routes[di])
  /\ routes[di].handler = "ForwardMessage"

HeaderTwice(r, p) ==  \* Mutant of OutChunkFor: both calls send the send_buffer.
  [part |-> "header", id |-> r.id, from |-> hdr[cur].from,
   seq |-> hdr[cur].seq, topic |-> Msg.topic]
OutChunkFor(r, p) == [part |-> p, id |-> r.id, from |-> hdr[cur].from,
                      seq |-> hdr[cur].seq, topic |-> Msg.topic]

ForwardUnnoticed ==  \* Mutant of ForwardHeader: match_found is not set.
  /\ Forwards
  /\ SendOK(routes[di].client, OutChunkFor(routes[di], "header"))
  /\ pc' = "forward"
  /\ UNCHANGED <<ready, clients, routes, rd, hdr, cur, i, n, di, dn, found,
                 peer, backlog, inb, taken, half, sent, subs>>

\* First send() of rtRouted_ForwardMessage.
ForwardHeader ==
  /\ Forwards
  /\ SendOK(routes[di].client, OutChunkFor(routes[di], "header"))
  /\ found' = TRUE
  /\ pc' = "forward"
  /\ UNCHANGED <<ready, clients, routes, rd, hdr, cur, i, n, di, dn,
                 peer, backlog, inb, taken, half, sent, subs>>

ForwardAgain ==  \* Mutant of ForwardPayload: the loop does not move on.
  /\ pc = "forward"
  /\ SendOK(routes[di].client, OutChunkFor(routes[di], "payload"))
  /\ pc' = "dispatch"
  /\ UNCHANGED <<ready, clients, routes, rd, hdr, cur, i, n, di, dn, found,
                 peer, backlog, inb, taken, half, sent, subs>>

\* Second send() of rtRouted_ForwardMessage; the loop moves on.
ForwardPayload ==
  /\ pc = "forward"
  /\ SendOK(routes[di].client, OutChunkFor(routes[di], "payload"))
  /\ di' = di + 1
  /\ pc' = "dispatch"
  /\ UNCHANGED <<ready, clients, routes, rd, hdr, cur, i, n, dn, found,
                 peer, backlog, inb, taken, half, sent, subs>>

ForwardGivesUp ==  \* Mutant of ForwardFails: a failed send() ends the loop.
  /\ Forwards \/ pc = "forward"
  /\ SendFails(routes[di].client)
  /\ found' = TRUE
  /\ di' = dn + 1
  /\ pc' = "dispatch"
  /\ UNCHANGED <<ready, clients, routes, rd, hdr, cur, i, n, dn, peerVars>>

ForwardAborts ==  \* Mutant of ForwardFails: sent as rtConnection_SendInternal sends.
  /\ Forwards \/ pc = "forward"
  /\ SendFails(routes[di].client)
  /\ pc' = "aborted"
  /\ UNCHANGED <<ready, clients, routes, rd, hdr, cur, i, n, di, dn, found, peerVars>>

\* Either send() fails with an error other than EBADF: the loop counter is not
\* advanced, so the same route is tried again.  (EBADF would need a route to a
\* closed fd, which NoDanglingRoute excludes.)
ForwardFails ==
  /\ Forwards \/ pc = "forward"
  /\ SendFails(routes[di].client)
  /\ found' = TRUE
  /\ pc' = "dispatch"
  /\ UNCHANGED <<ready, clients, routes, rd, hdr, cur, i, n, di, dn, peerVars>>

FinishInPayload ==  \* Mutant of FinishFrame: the read state is not reset.
  /\ hdr' = [hdr EXCEPT ![cur] = NoHeader]
  /\ cur' = NoConn
  /\ di' = 1 /\ dn' = 0 /\ found' = FALSE
  /\ i' = i + 1
  /\ pc' = "clients"
  /\ UNCHANGED rd

\* The dispatch is over, its locals with it: the client is ready for its next
\* preamble.
FinishFrame ==
  /\ rd' = [rd EXCEPT ![cur] = "preamble"]
  /\ hdr' = [hdr EXCEPT ![cur] = NoHeader]
  /\ cur' = NoConn
  /\ di' = 1 /\ dn' = 0 /\ found' = FALSE
  /\ i' = i + 1
  /\ pc' = "clients"

DispatchDoneSilently ==  \* Mutant of DispatchDone: nobody is told "no route".
  /\ pc = "dispatch" /\ di > dn
  /\ FinishFrame
  /\ UNCHANGED <<ready, clients, routes, n, peerVars>>

DispatchDone ==
  /\ pc = "dispatch"
  /\ di > dn
  /\ IF ~found /\ Msg.req
     THEN pc' = "noroute" /\ UNCHANGED <<rd, hdr, cur, i, di, dn, found>>
     ELSE FinishFrame
  /\ UNCHANGED <<ready, clients, routes, n, peerVars>>

-----------------------------------------------------------------------------
(* rtConnection_SendErrorMessageToCaller, on the socket of the requester.  *)

NamelessError(p) ==  \* Mutant of ErrorChunk: the topic of the header is not set.
  [part |-> p, id |-> 0, from |-> NoConn, seq |-> 0, topic |-> NoExp]
ErrorChunk(p) == [part |-> p, id |-> 0, from |-> NoConn, seq |-> 0,
                  topic |-> "NO.ROUTE.RESPONSE"]

NoRouteHeader ==
  /\ pc = "noroute"
  /\ SendOK(cur, ErrorChunk("header"))
  /\ pc' = "noroutePayload"
  /\ UNCHANGED <<ready, clients, routes, rd, hdr, cur, i, n, di, dn, found,
                 peer, backlog, inb, taken, half, sent, subs>>

NoRoutePayload ==
  /\ pc = "noroutePayload"
  /\ SendOK(cur, ErrorChunk("payload"))
  /\ FinishFrame
  /\ UNCHANGED <<ready, clients, routes, n,
                 peer, backlog, inb, taken, half, sent, subs>>

\* EPIPE makes rtConnection_SendInternal reconnect; the temporary connection
\* has no remote endpoint, and rtSocketStorage_GetLength calls abort().
NoRouteAborts ==
  /\ pc \in {"noroute", "noroutePayload"}
  /\ SendFails(cur)
  /\ pc' = "aborted"
  /\ UNCHANGED <<ready, clients, routes, rd, hdr, cur, i, n, di, dn, found, peerVars>>

-----------------------------------------------------------------------------
ReadClient(c) ==
  ReadPreamble(c) \/ ReadHeader(c) \/ ReadPayload(c) \/ DropClient(c)

Dispatch ==
  \/ DispatchSkip \/ DispatchLocal
  \/ ForwardHeader \/ ForwardPayload \/ ForwardFails
  \/ DispatchDone
  \/ NoRouteHeader \/ NoRoutePayload \/ NoRouteAborts

RouterStep ==
  \/ Select \/ Accept \/ SkipClient \/ ClientsDone
  \/ \E c \in Conns : ReadClient(c)
  \/ ClearRoute \/ CloseClient
  \/ Dispatch

PeerStep(c) ==
  \/ PeerConnect(c) \/ PeerSendHeader(c) \/ PeerSendPayload(c)
  \/ PeerRecv(c) \/ PeerClose(c) \/ SocketReset(c)

Next == RouterStep \/ \E c \in Conns : PeerStep(c)

Spec == Init /\ [][Next]_vars

\* The router thread keeps running; a client between its two sends goes on;
\* applications keep calling rtConnection_Dispatch.
Fairness ==
  /\ WF_vars(RouterStep)
  /\ \A c \in Conns : WF_vars(PeerSendPayload(c)) /\ WF_vars(PeerRecv(c))

FairSpec == Spec /\ Fairness

-----------------------------------------------------------------------------
(* What makes the router correct.                                          *)

TypeOK ==
  /\ pc \in {"select", "accept", "clients", "dispatch", "forward",
             "noroute", "noroutePayload", "clear", "aborted"}
  /\ ready \subseteq Conns \cup {Listener}
  /\ clients \in Seq(Conns)
  /\ routes \in Seq(Route)
  /\ rd \in [Conns -> {"preamble", "header", "payload"}]
  /\ hdr \in [Conns -> Header \cup {NoHeader}]
  /\ cur \in Conns \cup {NoConn}
  /\ i \in Nat \ {0} /\ n \in Nat
  /\ di \in Nat \ {0} /\ dn \in Nat
  /\ found \in BOOLEAN
  /\ peer \in [Conns -> {"idle", "open", "closed", "reset"}]
  /\ backlog \subseteq Conns
  /\ inb \in [Conns -> Seq(InChunk)]
  /\ wire \in [Conns -> Seq(OutChunk)]
  /\ taken \in [Conns -> Nat]
  /\ half \in [Conns -> Header \cup {NoHeader}]
  /\ sent \in [Conns -> Nat]
  /\ subs \in [Conns -> SUBSET (Nat \X Exprs)]

\* The thread is between the start and the end of dispatching a frame of cur.
Dispatching == pc \in {"dispatch", "forward", "noroute", "noroutePayload", "aborted"}

\* rtConnectedClient_Destroy frees a client only after the table has forgotten
\* it: every route leads to a connected client, except the ones of the client
\* being destroyed that rtRouted_ClearClientRoutes has not come to yet.  So no
\* send() meets a freed client or a closed fd (EBADF cannot happen).
NoDanglingRoute ==
  \A k \in 1..Len(routes) :
    routes[k].client # NoConn =>
      \/ IsClient(routes[k].client)
      \/ pc = "clear" /\ routes[k].client = cur /\ k >= di

\* A client that reuses the address and the fd of a closed one inherits none of
\* its routes: whatever is forwarded to a client was asked for, under that
\* subscription id and with a matching expression, by this very connection.
ForwardedWasSubscribed ==
  \A c \in Conns : \A k \in 1..Len(wire[c]) :
    wire[c][k].from # NoConn =>
      \E e \in Exprs : /\ <<wire[c][k].id, e>> \in subs[c]
                       /\ <<wire[c][k].topic, e>> \in Matches

\* The frames of one sender reach a client in the order they were sent, the
\* header and the payload of a frame next to each other, over blocked, failed
\* and retried sends and the reads of other clients in between.
InOrder ==
  \A c \in Conns : Alive(c) =>
    \A j, k \in 1..Len(wire[c]) :
      LET x == wire[c][j]
          y == wire[c][k]
      IN  /\ j < k /\ x.from = y.from => x.seq <= y.seq
          /\ k = j + 1 /\ x.part = "header" => y = [x EXCEPT !.part = "payload"]

\* A frame is forwarded at most once for each route of the client, although the
\* dispatch loop retries a route whose send failed.
OncePerRoute ==
  \A c \in Conns : IsClient(c) =>
    \A k \in 1..Len(wire[c]) :
      wire[c][k].from # NoConn =>
        Cardinality({j \in 1..Len(wire[c]) : wire[c][j] = wire[c][k]})
          <= Cardinality({r \in 1..Len(routes) :
                            routes[r].client = c /\ routes[r].id = wire[c][k].id})

\* The state of a client says where in its byte stream the router is: a header
\* is never taken for a payload, nor the payload of one message for another's.
StreamsInStep ==
  \A c \in Conns : IsClient(c) /\ c # cur =>
    \A k \in 1..Len(inb[c]) :
      LET before == IF k > 1 THEN inb[c][k - 1]
                    ELSE [part |-> IF rd[c] = "payload" THEN "header" ELSE "payload",
                          hdr |-> hdr[c]]
      IN  IF before.part = "header" /\ ~before.hdr.msg.empty
          THEN inb[c][k] = [part |-> "payload", hdr |-> before.hdr]
          ELSE inb[c][k].part = "header"

\* The fds are blocking, and read_fds is as old as the select(): still no recv()
\* of the client loop waits, however many clients were read, dispatched for or
\* destroyed since.
RecvNeverBlocks == \A c \in Conns : Reads(c) => Readable(c)

\* The dispatch loop leaves nobody out: every matching subscriber it has passed
\* and that still lives has the whole frame on its wire, although handlers add
\* routes and sends fail meanwhile.
ServedSoFar ==
  pc = "dispatch" =>
    \A j \in 1..(di - 1) :
      routes[j].handler = "ForwardMessage" /\ IsMatch(routes[j]) /\ Alive(routes[j].client) =>
        \E k \in 1..Len(wire[routes[j].client]) - 1 :
          /\ wire[routes[j].client][k] = OutChunkFor(routes[j], "header")
          /\ wire[routes[j].client][k + 1] = OutChunkFor(routes[j], "payload")

\* Nobody is left out, and nobody is served twice.
ServedExactlyOnce == ServedSoFar /\ OncePerRoute

\* The caller hears "no route" only for a request that no route matches, not even
\* one that was added while the request was on its way through the table; and of
\* all the sends that clients can make fail by dying, only this one takes rtrouted
\* down, and only when its requester is gone.
NoRouteOnlyIfUnmatched ==
  pc \in {"noroute", "noroutePayload", "aborted"} =>
    /\ Msg.req
    /\ \A k \in 1..Len(routes) : ~IsMatch(routes[k])
    /\ pc = "aborted" => ~Alive(cur)

\* A request is never swallowed: when its dispatch ends, a subscriber's route
\* matched it or the living caller has been sent the error.
ForwardedOrAnswered ==
  [][\A c \in Conns :
       cur = c /\ Dispatching /\ cur' # c /\ Msg.req /\ Alive(c) =>
         \/ \E k \in 1..Len(routes) :
              IsMatch(routes[k]) /\ routes[k].handler # "PrintMessage"
         \/ wire'[c] # <<>> /\ Last(wire'[c]) = ErrorChunk("payload")]_vars

\* "stream closed" is said of streams that are closed: the router drops a client
\* only after the peer has closed its end or died.
DroppedOnlyIfGone ==
  [][\A c \in Conns : IsClient(c) /\ ~IsClient(c)' => ~Alive(c)]_vars

\* The router blocks in a send() to a client that blocks in a send() to it: both
\* sockets are full and neither reads.
BothBlocked ==
  \E c \in Conns :
    /\ Alive(c) /\ half[c] # NoHeader
    /\ Len(inb[c]) >= SockBuf /\ Unread(c) >= SockBuf
    /\ \/ (Forwards \/ pc = "forward") /\ routes[di].client = c
       \/ pc \in {"noroute", "noroutePayload"} /\ cur = c

\* Everything a client sends is read, so that no send() of a client blocks for
\* ever: a full socket delays the router, but only two that fill each other's
\* sockets keep it from coming back to every client.
EveryFrameRead == \A c \in Conns : inb[c] # <<>> ~> inb[c] = <<>> \/ BothBlocked

\* Nobody ever subscribes to the topic of m.
Unroutable(m) ==
  \A e \in {InternalExp} \cup {s.exp : s \in {s \in UNION {Sends[c] : c \in Conns} :
                                            s.topic \in Control}} :
    <<m.topic, e>> \notin Matches

\* A caller whose request has no route is told so, unless it is gone or the two
\* of a full pair of sockets wait for each other.
NoRouteAnswered ==
  \A c \in Conns :
    (\E k \in 1..Len(inb[c]) : /\ inb[c][k].part = "payload"
                               /\ inb[c][k].hdr.msg.req
                               /\ Unroutable(inb[c][k].hdr.msg))
      ~> \/ ~Alive(c) \/ BothBlocked
         \/ \E k \in 1..Len(wire[c]) : wire[c][k] = ErrorChunk("payload")
=============================================================================
