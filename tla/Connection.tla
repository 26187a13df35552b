----------------------------- MODULE Connection -----------------------------
(***************************************************************************)
(* The client side, rtConnection.c: one application thread that sends,     *)
(* asks, listens and dispatches over one connection, and re-registers its  *)
(* listeners whenever a call finds the connection gone.  Registering sends *)
(* messages, and these sends may find the new connection gone in turn: the *)
(* functions recurse, and "regs" is the stack of the registration loops    *)
(* that are under way.                                                     *)
(*                                                                         *)
(* The router, the providers behind it and the socket are the environment. *)
(* The router handles a frame when its payload is sent, may crash at any   *)
(* time and comes back with an empty route table.                          *)
(***************************************************************************)
EXTENDS Naturals, Sequences, FiniteSets, SequencesExt

CONSTANTS
  Slots,      \* RTMSG_LISTENERS_MAX; slot 1 is the inbox
  Served,     \* whether a request may find a provider, or none: values of BOOLEAN
  MayLose,    \* TRUE if a provider may die with a request
  Timeouts,   \* TRUE if the time of a request may be over after a dispatch
  Signals,    \* TRUE if a signal may interrupt a blocked send()
  MaxCrash,   \* bound: crashes of the router
  MaxSeq,     \* bound: messages and requests sent by the application
  MaxEvents,  \* bound: events published for the listeners
  MaxDepth    \* bound: registrations nested while a started router is not yet listening

ASSUME SlotsAssumption == Slots \in Nat \ {0}
ASSUME EnvAssumption ==
  /\ Served \subseteq BOOLEAN
  /\ {MayLose, Timeouts, Signals} \subseteq BOOLEAN
ASSUME BoundsAssumption == {MaxCrash, MaxSeq, MaxEvents, MaxDepth} \subseteq Nat

Inbox == 1
Free  == [in_use |-> FALSE, id |-> 0]

\* The decoded header of a frame from the router; n is the request it answers
\* or the number of the event, and also stands for the payload.
Frame == [id : Nat, kind : {"response", "noroute", "event"}, n : Nat]
NoFrame == [id |-> 0, kind |-> "none", n |-> 0]

\* What SendInternal is asked to send.
Subscribe(slot) == [topic |-> "SUBSCRIBE", slot |-> slot, n |-> 0]
Plain(n)        == [topic |-> "message", slot |-> 0, n |-> n]
Request(n)      == [topic |-> "request", slot |-> 0, n |-> n]

VARIABLES
  pc,         \* where the thread is
  call,       \* the function of rtConnection.h the application is in
  base,       \* the routine under the registrations: SendInternal or TimedDispatch
  regs,       \* the loop index of every ConnectAndRegister under way
  err, att,   \* locals of the running SendInternal or TimedDispatch
  msg,        \* the message the application sends
  hdr,        \* hdr of TimedDispatch
  buf,        \* the payload in con->recv_buffer, 0 if there was none yet
  listeners,  \* con->listeners
  response,   \* con->response, 0 if NULL
  nextId,     \* next_id of GetNextSubscriptionId
  seq         \* con->sequence_number

VARIABLES
  sock,       \* con->fd
  rx,         \* chunks sent by the router and not yet read
  half,       \* the router has a header and waits for its payload
  garbled,    \* it was sent something else instead
  router,     \* "down", "starting" or "up"
  table,      \* its routes to this connection, as <<slot, id>>
  asked,      \* requests that providers are working on
  crashes, events  \* counters

VARIABLES
  put,        \* both send() calls for msg have succeeded
  delivered,  \* the calls of application callbacks
  last        \* the last call that returned

clientVars == <<pc, call, base, regs, err, att, msg, hdr, buf, listeners, response,
                nextId, seq>>
netVars    == <<sock, rx, half, garbled, router, table, asked, crashes, events>>
history    == <<put, delivered, last>>
vars == <<pc, call, base, regs, err, att, msg, hdr, buf, listeners, response, nextId, seq,
          sock, rx, half, garbled, router, table, asked, crashes, events,
          put, delivered, last>>

NoCall == [call |-> "none", err |-> "OK", n |-> 0, res |-> 0, put |-> FALSE]

\* rtConnection_CreateWithConfig has started or found the router and is about
\* to connect.
Init ==
  /\ pc = "connect" /\ call = "create" /\ base = "none" /\ regs = <<1>>
  /\ err = "OK" /\ att = 0
  /\ msg = Plain(0) /\ hdr = NoFrame /\ buf = 0
  /\ listeners = [s \in 1..Slots |-> Free]
  /\ response = 0 /\ nextId = 1 /\ seq = 1
  /\ sock = "none" /\ rx = <<>> /\ half = FALSE /\ garbled = FALSE
  /\ router \in {"starting", "up"}
  /\ table = <<>> /\ asked = {} /\ crashes = 0 /\ events = 0
  /\ put = FALSE /\ delivered = <<>> /\ last = NoCall

-----------------------------------------------------------------------------
(* The router, the providers and the socket.                               *)

Chunks(f) == <<[part |-> "header", frame |-> f], [part |-> "payload", frame |-> f]>>

\* The router forwards to every route of the slot, under the id of the route.
Forwarded(slot, kind, n) ==
  FlattenSeq([k \in 1..Len(table) |->
                IF table[k][1] # slot THEN <<>>
                ELSE Chunks([id |-> table[k][2], kind |-> kind, n |-> n])])

\* What the router has not sent is lost; what it sent is, too, if the socket is
\* reset because data of the client was left unread.
RouterCrashes ==
  /\ router = "up" /\ crashes < MaxCrash
  /\ router' = "down"
  /\ crashes' = crashes + 1
  /\ table' = <<>>
  /\ IF sock # "open" THEN UNCHANGED <<sock, rx>>
     ELSE \/ sock' = "closed" /\ \E k \in 0..Len(rx) : rx' = SubSeq(rx, 1, k)
          \/ sock' = "reset" /\ rx' = <<>>
  /\ UNCHANGED <<clientVars, history, half, garbled, asked, events>>

\* Somebody else starts the router.
RouterStarted ==
  /\ router = "down"
  /\ router' = "starting"
  /\ UNCHANGED <<clientVars, history, sock, rx, half, garbled, table, asked, crashes, events>>

\* The daemon listens only some time after the command that started it returns.
RouterListens ==
  /\ router = "starting"
  /\ router' = "up"
  /\ UNCHANGED <<clientVars, history, sock, rx, half, garbled, table, asked, crashes, events>>

\* The answer to data sent to the closed socket arrives.
SocketReset ==
  /\ sock = "closed"
  /\ sock' = "broken" /\ rx' = <<>>
  /\ UNCHANGED <<clientVars, history, half, garbled, router, table, asked, crashes, events>>

\* A response reaches whoever listens to the inbox, on whatever connection.
ProviderAnswers ==
  /\ router = "up" /\ ~garbled
  /\ \E q \in asked :
       /\ asked' = asked \ {q}
       /\ rx' = rx \o Forwarded(Inbox, "response", q)
  /\ UNCHANGED <<clientVars, history, sock, half, garbled, router, table, crashes, events>>

ProviderDies ==
  /\ MayLose
  /\ \E q \in asked : asked' = asked \ {q}
  /\ UNCHANGED <<clientVars, history, sock, rx, half, garbled, router, table, crashes, events>>

\* Another client publishes what one of the application's listeners, slots 2 and
\* up, has subscribed to; no two of them share an expression.
Publish ==
  /\ router = "up" /\ ~garbled /\ events < MaxEvents
  /\ events' = events + 1
  /\ \E slot \in 2..Slots :
       /\ Forwarded(slot, "event", 0) # <<>>
       /\ rx' = rx \o Forwarded(slot, "event", events + 1)
  /\ UNCHANGED <<clientVars, history, sock, half, garbled, router, table, asked, crashes>>

Environment ==
  \/ RouterCrashes \/ RouterStarted \/ RouterListens \/ SocketReset
  \/ ProviderAnswers \/ ProviderDies \/ Publish
-----------------------------------------------------------------------------
(* rtConnection_SendInternal.                                              *)

\* The message of the innermost SendInternal: a registration loop sends the
\* subscription of the listener it has come to.
Sending == IF regs # <<>> THEN Subscribe(Last(regs)) ELSE msg

SendInternal(m) ==
  /\ msg' = m
  /\ base' = "send"
  /\ err' = "OK" /\ att' = 0
  /\ put' = FALSE
  /\ pc' = "header"

\* How send() fails: a reset is reported once, then the pipe is broken.
SendFails(e) ==
  \/ sock = "reset" /\ e = "ECONNRESET" /\ sock' = "broken"
  \/ sock \in {"broken", "unconnected"} /\ e = "EPIPE" /\ UNCHANGED sock
  \/ Signals /\ sock = "open" /\ e = "EINTR" /\ UNCHANGED sock

AttemptedInverted(e) ==  \* Mutant of Attempted: the loop goes on while err is RT_OK.
  /\ err' = e
  /\ IF e \in {"EPIPE", "ENOTCONN"} THEN pc' = "ensure" /\ UNCHANGED att
     ELSE IF e = "OK" /\ att < 2 THEN pc' = "header" /\ att' = att + 1
     ELSE pc' = "sent" /\ UNCHANGED att

\* The end of an attempt: register again, try again or return.
Attempted(e) ==
  /\ err' = e
  /\ IF e \in {"EPIPE", "ENOTCONN"} THEN pc' = "ensure" /\ UNCHANGED att
     ELSE IF e # "OK" /\ att < 2 THEN pc' = "header" /\ att' = att + 1
     ELSE pc' = "sent" /\ UNCHANGED att

SendHeaderOnly ==  \* Mutant of SendHeader: the payload is forgotten.
  /\ pc = "header"
  /\ sock \in {"open", "closed"}
  /\ IF sock = "open"
     THEN half' = TRUE /\ garbled' = (garbled \/ half)
     ELSE UNCHANGED <<half, garbled>>
  /\ Attempted(err)
  /\ UNCHANGED <<call, base, regs, msg, hdr, buf, listeners, response, nextId, seq, history,
                 sock, rx, router, table, asked, crashes, events>>

\* err keeps the failure of an earlier attempt, and then no payload follows.
SendHeader ==
  /\ pc = "header"
  /\ sock \in {"open", "closed"}
  /\ IF sock = "open"
     THEN half' = TRUE /\ garbled' = (garbled \/ half)
     ELSE UNCHANGED <<half, garbled>>
  /\ IF err = "OK" THEN pc' = "payload" /\ UNCHANGED <<err, att>> ELSE Attempted(err)
  /\ UNCHANGED <<call, base, regs, msg, hdr, buf, listeners, response, nextId, seq, history,
                 sock, rx, router, table, asked, crashes, events>>

\* What the router does with a whole frame; a request without a route is
\* answered by the router itself, under id 0.
Handled(m) ==
  CASE m.topic = "SUBSCRIBE" ->
         table' = Append(table, <<m.slot, listeners[m.slot].id>>) /\ UNCHANGED <<rx, asked>>
    [] m.topic = "request" ->
         \/ TRUE \in Served /\ asked' = asked \cup {m.n} /\ UNCHANGED <<rx, table>>
         \/ /\ FALSE \in Served
            /\ rx' = rx \o Chunks([id |-> 0, kind |-> "noroute", n |-> m.n])
            /\ UNCHANGED <<asked, table>>
    [] m.topic = "message" -> UNCHANGED <<rx, asked, table>>

SendPayload ==
  /\ pc = "payload"
  /\ sock \in {"open", "closed"}
  /\ IF sock = "open" /\ ~garbled
     THEN Handled(Sending)
     ELSE UNCHANGED <<rx, asked, table>>
  /\ half' = (half /\ sock # "open")
  /\ put' = (put \/ regs = <<>>)
  /\ Attempted("OK")
  /\ UNCHANGED <<call, base, regs, msg, hdr, buf, listeners, response, nextId, seq,
                 delivered, last, sock, garbled, router, crashes, events>>

SendBreaks ==
  /\ pc \in {"header", "payload"}
  /\ \E e \in {"ECONNRESET", "EPIPE", "EINTR"} : SendFails(e) /\ Attempted(e)
  /\ UNCHANGED <<call, base, regs, msg, hdr, buf, listeners, response, nextId, seq, history,
                 rx, half, garbled, router, table, asked, crashes, events>>

-----------------------------------------------------------------------------
(* Registering again.                                                      *)

RegisterFromSecond ==  \* Mutant of EnsureRoutingDaemon: the registration leaves out the inbox.
  /\ pc = "ensure"
  /\ router' = IF router = "down" THEN "starting" ELSE router
  /\ regs' = Append(regs, 2)
  /\ pc' = "connect"
  /\ UNCHANGED <<call, base, err, att, msg, hdr, buf, listeners, response, nextId, seq,
                 history, sock, rx, half, garbled, table, asked, crashes, events>>

EnsureRoutingDaemon ==
  /\ pc = "ensure"
  /\ router' = IF router = "down" THEN "starting" ELSE router
  /\ regs' = Append(regs, 1)
  /\ pc' = "connect"
  /\ UNCHANGED <<call, base, err, att, msg, hdr, buf, listeners, response, nextId, seq,
                 history, sock, rx, half, garbled, table, asked, crashes, events>>

Connect ==
  /\ pc = "connect"
  /\ router = "up"
  /\ sock' = "open" /\ rx' = <<>> /\ half' = FALSE /\ garbled' = FALSE
  /\ table' = <<>>
  /\ pc' = "register"
  /\ UNCHANGED <<call, base, regs, err, att, msg, hdr, buf, listeners, response, nextId, seq,
                 history, router, asked, crashes, events>>

\* After four refusals the listeners are registered all the same.
ConnectGivesUp ==
  /\ pc = "connect"
  /\ router # "up"
  /\ Len(regs) <= MaxDepth \/ router = "down"
  /\ sock' = "unconnected" /\ rx' = <<>>
  /\ pc' = "register"
  /\ UNCHANGED <<call, base, regs, err, att, msg, hdr, buf, listeners, response, nextId, seq,
                 history, half, garbled, router, table, asked, crashes, events>>

\* The loop over the listeners finds the next one in use.
Register ==
  /\ pc = "register"
  /\ \E s \in Last(regs)..Slots :
       /\ listeners[s].in_use
       /\ \A r \in Last(regs)..(s - 1) : ~listeners[r].in_use
       /\ regs' = Append(Front(regs), s)
  /\ pc' = "header"
  /\ err' = "OK" /\ att' = 0
  /\ UNCHANGED <<call, base, msg, hdr, buf, listeners, response, nextId, seq, history, netVars>>

NextListener(stack) == [stack EXCEPT ![Len(stack)] = @ + 1]

AnySlot(s) == TRUE  \* Mutant of FreeSlot: in_use is not tested.
\* The first slot of rtConnection_AddListener that is not in use.
FreeSlot(s) == ~listeners[s].in_use /\ \A r \in 1..(s - 1) : listeners[r].in_use

AddListener(s) ==
  /\ FreeSlot(s)
  /\ listeners' = [listeners EXCEPT ![s] = [in_use |-> TRUE, id |-> nextId]]
  /\ nextId' = nextId + 1
  /\ SendInternal(Subscribe(s))

\* ConnectAndRegister returns, err is RT_OK and ends the loop it was called in:
\* that of a SendInternal, whose message is not sent again, or that of a
\* TimedDispatch, which goes on to the callbacks.
Registered ==
  /\ pc = "register"
  /\ \A s \in Last(regs)..Slots : ~listeners[s].in_use
  /\ IF Len(regs) > 1
     THEN /\ regs' = NextListener(Front(regs))
          /\ UNCHANGED <<pc, base, err, att, msg, put, listeners, nextId>>
     ELSE /\ regs' = <<>>
          /\ \/ base = "none" /\ AddListener(Inbox)
             \/ /\ base # "none"
                /\ err' = "OK"
                /\ pc' = IF base = "send" THEN "sent" ELSE "callback"
                /\ UNCHANGED <<base, att, msg, put, listeners, nextId>>
  /\ UNCHANGED <<call, hdr, buf, response, seq, delivered, last, netVars>>

\* The results of the messages a registration sends are ignored.
SubscribeSent ==
  /\ pc = "sent" /\ regs # <<>>
  /\ regs' = NextListener(regs)
  /\ pc' = "register"
  /\ UNCHANGED <<call, base, err, att, msg, hdr, buf, listeners, response, nextId, seq,
                 history, netVars>>

-----------------------------------------------------------------------------
(* rtConnection_TimedDispatch.                                             *)

TimedDispatch ==
  /\ base' = "dispatch"
  /\ hdr' = NoFrame
  /\ pc' = "read"

ReadHeader ==
  /\ pc = "read"
  /\ sock \in {"open", "closed"} /\ rx # <<>>
  /\ hdr' = Head(rx).frame
  /\ rx' = Tail(rx)
  /\ pc' = "readPayload"
  /\ UNCHANGED <<call, base, regs, err, att, msg, buf, listeners, response, nextId, seq, history,
                 sock, half, garbled, router, table, asked, crashes, events>>

ReadPayload ==
  /\ pc = "readPayload"
  /\ sock \in {"open", "closed"} /\ rx # <<>>
  /\ buf' = Head(rx).frame.n
  /\ rx' = Tail(rx)
  /\ pc' = "callback"
  /\ UNCHANGED <<call, base, regs, err, att, msg, hdr, listeners, response, nextId, seq, history,
                 sock, half, garbled, router, table, asked, crashes, events>>

ReadAgain ==  \* Mutant of ReadFails: the end of the stream only repeats the read.
  /\ pc \in {"read", "readPayload"}
  /\ \/ sock = "reset" /\ sock' = "broken"
     \/ /\ (sock = "closed" /\ rx = <<>>) \/ sock \in {"broken", "unconnected"}
        /\ UNCHANGED sock
  /\ pc' = "read"
  /\ UNCHANGED <<call, base, regs, err, att, msg, hdr, buf, listeners, response, nextId, seq,
                 history, rx, half, garbled, router, table, asked, crashes, events>>

\* A reset is reported once and the read starts over; then, as after the end of
\* the stream, the error is ENOTCONN.
ReadFails ==
  /\ pc \in {"read", "readPayload"}
  /\ \/ sock = "reset" /\ sock' = "broken" /\ pc' = "read"
     \/ /\ (sock = "closed" /\ rx = <<>>) \/ sock \in {"broken", "unconnected"}
        /\ pc' = "ensure"
        /\ UNCHANGED sock
  /\ UNCHANGED <<call, base, regs, err, att, msg, hdr, buf, listeners, response, nextId, seq,
                 history, rx, half, garbled, router, table, asked, crashes, events>>

IdOfInverted(s) ==  \* Mutant of IdOf: the test for NO.ROUTE.RESPONSE is inverted.
  IF hdr.kind = "noroute" THEN listeners[s].id ELSE 0

\* A no-route answer sets the id of every listener the search comes to to 0.
IdOf(s) == IF hdr.kind = "noroute" THEN 0 ELSE listeners[s].id
IsFound(s) ==
  /\ listeners[s].in_use /\ IdOf(s) = hdr.id
  /\ \A r \in 1..(s - 1) : ~(listeners[r].in_use /\ IdOf(r) = hdr.id)

\* The listener of the frame is called, onInboxMessage for slot 1.
Callback ==
  /\ pc = "callback"
  /\ listeners' = [s \in 1..Slots |->
                     IF \E r \in 1..(s - 1) : IsFound(r) THEN listeners[s]
                     ELSE [listeners[s] EXCEPT !.id = IdOf(s)]]
  /\ response' = IF IsFound(Inbox) /\ hdr.kind \in {"response", "noroute"}
                 THEN buf ELSE response
  /\ delivered' = delivered \o
       SetToSeq({[slot |-> s, n |-> hdr.n, buf |-> buf] : s \in {s \in 2..Slots : IsFound(s)}})
  /\ pc' = "dispatched"
  /\ UNCHANGED <<call, base, regs, err, att, msg, hdr, buf, nextId, seq, put, last, netVars>>

-----------------------------------------------------------------------------
(* The calls of the application.                                           *)

Return(e, res) ==
  /\ last' = [call |-> call, err |-> e, n |-> msg.n, res |-> res, put |-> put]
  /\ call' = "none" /\ base' = "none" /\ msg' = Plain(0) /\ put' = FALSE
  /\ hdr' = NoFrame /\ err' = "OK" /\ att' = 0
  /\ pc' = "idle"

CallSendMessage ==
  /\ pc = "idle" /\ seq <= MaxSeq
  /\ call' = "send" /\ seq' = seq + 1
  /\ SendInternal(Plain(seq))
  /\ UNCHANGED <<regs, hdr, buf, listeners, response, nextId, delivered, last, netVars>>

\* con->response is not cleared.
CallSendRequest ==
  /\ pc = "idle" /\ seq <= MaxSeq
  /\ call' = "request" /\ seq' = seq + 1
  /\ SendInternal(Request(seq))
  /\ UNCHANGED <<regs, hdr, buf, listeners, response, nextId, delivered, last, netVars>>

CallAddListener ==
  /\ pc = "idle"
  /\ call' = "listen"
  /\ \E s \in 1..Slots : AddListener(s)
  /\ UNCHANGED <<regs, hdr, buf, response, seq, delivered, last, netVars>>

CallDispatch ==
  /\ pc = "idle"
  /\ call' = "dispatch"
  /\ TimedDispatch
  /\ UNCHANGED <<regs, err, att, msg, buf, listeners, response, nextId, seq, history, netVars>>

\* SendInternal returns to the application, or to SendRequest and its loop.
MessageSent ==
  /\ pc = "sent" /\ regs = <<>>
  /\ IF call = "request" /\ err = "OK"
     THEN pc' = "wait" /\ UNCHANGED <<call, base, msg, hdr, err, att, put, last>>
     ELSE Return(err, 0)
  /\ UNCHANGED <<regs, buf, listeners, response, nextId, seq, delivered, netVars>>

Wait ==
  /\ pc = "wait"
  /\ \/ TimedDispatch /\ UNCHANGED <<call, msg, err, att, put, last>>
     \/ Timeouts /\ Return("TIMEOUT", 0)
  /\ UNCHANGED <<regs, buf, listeners, response, nextId, seq, delivered, netVars>>

ResponseKept ==  \* Mutant of Dispatched: con->response is not set to NULL.
  /\ pc = "dispatched"
  /\ IF call = "request" /\ response = 0
     THEN pc' = "wait" /\ UNCHANGED <<call, base, msg, hdr, err, att, put, last>>
     ELSE Return("OK", IF call = "request" THEN response ELSE 0)
  /\ UNCHANGED <<regs, buf, listeners, response, nextId, seq, delivered, netVars>>

Dispatched ==
  /\ pc = "dispatched"
  /\ IF call = "request" /\ response = 0
     THEN pc' = "wait" /\ UNCHANGED <<call, base, msg, hdr, err, att, put, last, response>>
     ELSE /\ Return("OK", IF call = "request" THEN response ELSE 0)
          /\ response' = IF call = "request" THEN 0 ELSE response
  /\ UNCHANGED <<regs, buf, listeners, nextId, seq, delivered, netVars>>

-----------------------------------------------------------------------------
Running ==
  \/ SendHeader \/ SendPayload \/ SendBreaks
  \/ EnsureRoutingDaemon \/ Connect \/ ConnectGivesUp
  \/ Register \/ Registered \/ SubscribeSent
  \/ ReadHeader \/ ReadPayload \/ ReadFails \/ Callback
  \/ MessageSent \/ Wait \/ Dispatched

Calls == CallSendMessage \/ CallSendRequest \/ CallAddListener \/ CallDispatch

Next == Running \/ Calls \/ Environment

Spec == Init /\ [][Next]_vars

\* The thread runs and the application keeps dispatching; the daemon that was
\* started gets to listen; providers answer.
Fairness ==
  /\ WF_vars(Running) /\ WF_vars(CallDispatch)
  /\ WF_vars(RouterListens)
  /\ WF_vars(ProviderAnswers)

FairSpec == Spec /\ Fairness

-----------------------------------------------------------------------------
(* What makes the connection correct.                                      *)

ThreadTypes ==
  /\ pc \in {"idle", "header", "payload", "sent", "ensure", "connect", "register",
             "read", "readPayload", "callback", "dispatched", "wait"}
  /\ call \in {"none", "create", "send", "request", "listen", "dispatch"}
  /\ base \in {"none", "send", "dispatch"}
  /\ regs \in Seq(1..(Slots + 1))
  /\ err \in {"OK", "EPIPE", "ECONNRESET", "EINTR"} /\ att \in 0..2
MessageTypes ==
  /\ msg \in {Subscribe(s) : s \in 1..Slots} \cup {Plain(n) : n \in 0..MaxSeq}
                \cup {Request(n) : n \in 1..MaxSeq}
  /\ hdr \in Frame \cup {NoFrame}
  /\ buf \in Nat /\ response \in Nat /\ nextId \in 1..(Slots + 1) /\ seq \in 1..(MaxSeq + 1)
  /\ listeners \in [1..Slots -> [in_use : BOOLEAN, id : 0..Slots]]
NetTypes ==
  /\ sock \in {"none", "open", "closed", "reset", "broken", "unconnected"}
  /\ rx \in Seq([part : {"header", "payload"}, frame : Frame])
  /\ half \in BOOLEAN /\ garbled \in BOOLEAN
  /\ router \in {"down", "starting", "up"}
  /\ table \in Seq((1..Slots) \X (0..Slots))
  /\ asked \subseteq 1..MaxSeq
  /\ crashes \in 0..MaxCrash /\ events \in 0..MaxEvents
HistoryTypes == put \in BOOLEAN /\ delivered \in Seq([slot : 2..Slots, n : Nat, buf : Nat])

TypeOK == ThreadTypes /\ MessageTypes /\ NetTypes /\ HistoryTypes

\* Whenever the application is not in the middle of a send, a living connection
\* has a route for every listener, under the id the listener has now: after the
\* router has crashed during a send, a read, a registration or the registration
\* that this called for.
ListenersRegistered ==
  pc \notin {"connect", "register", "header", "payload", "sent", "ensure"} /\ sock = "open" =>
    \A s \in 1..Slots : listeners[s].in_use =>
      \E k \in 1..Len(table) : table[k] = <<s, listeners[s].id>>

\* The router gets whole frames: a header is never sent where it waits for a
\* payload, whatever was retried.
FramesWhole == ~garbled

\* A message of which rtConnection_SendMessage or SendRequest says RT_OK, or a
\* timeout, has been sent: both send() calls took all of it.
OkMeansSent == last.call \in {"send", "request"} /\ last.err \in {"OK", "TIMEOUT"} => last.put

\* rtConnection_SendRequest returns the response to its own request.
ResponseIsOurs == last.call = "request" /\ last.err = "OK" => last.res = last.n

\* A listener hears every event at most once and in the order of publishing, and
\* its callback is given the bytes of the frame whose header it gets.
HeardOnceInOrder ==
  /\ \A j, k \in 1..Len(delivered) :
       j < k /\ delivered[j].slot = delivered[k].slot => delivered[j].n < delivered[k].n
  /\ \A k \in 1..Len(delivered) : delivered[k].buf = delivered[k].n

\* rtConnection_SendRequest returns, for every request that reaches the router whole
\* and with the inbox registered under its id.  Signals may cut a send short so that
\* neither holds, and a no-route answer moves the inbox to id 0 (rtConnection.c:637).
InboxRegistered == \E k \in 1..Len(table) : table[k] = <<1, listeners[1].id>>
RequestReturns == call = "request" ~> call # "request" \/ ~InboxRegistered \/ garbled

\* However often the router crashes, the listeners are registered with the next
\* one in the end: while the application dispatches, the connection comes back.
ComesBack ==
  sock # "open" ~> sock = "open" /\ \A s \in 1..Slots : listeners[s].in_use =>
                     \E k \in 1..Len(table) : table[k][1] = s
=============================================================================
