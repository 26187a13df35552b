# Verification of rtMessage

This directory holds TLA+ models of rtMessage (`src/`): the routing daemon `rtrouted`, the client
library `rtConnection`, their shared helpers, and the data-provider layer above them.

## 1. Inventory

| Component | State | Operations | Interacts with |
|---|---|---|---|
| Router event loop (`rtrouted.c`) | `clients`, `listeners`, `routes` vectors; per client fd, read state, byte counts, decoded header | `select` loop, accept, `rtConnectedClient_Read`, destroy | sockets of every client |
| Routing (`rtrouted.c`) | route table | `AddRoute`, `ClearClientRoutes`, `DispatchMessageFromClient`, `ForwardMessage`, `OnMessage` (SUBSCRIBE, HELLO), `IsTopicMatch`, no-route error answer | blocking `send` to subscribers |
| Client connection (`rtConnection.c`) | fd, send/recv buffer, sequence number, 64 listeners, pending response | connect and re-register, send, request, response, add listener, dispatch | router; callbacks of the application |
| Header codec (`rtMessageHeader.c`, `rtEncoder.c`) | none | encode/decode | both ends |
| Message (`rtMessage.c`) | JSON tree, reference count | create, clone, get/set, retain, release | threads of the application |
| Buffer (`rtBuffer.c`) | data, atomic reference count | retain, release | - |
| Vector (`rtVector.c`) | `data`, `capacity`, `count` | push, remove, at | router |
| Socket addresses (`rtSocket.c`), errors (`rtError.c`), log (`rtLog.c`) | none / thread specific | parsing, formatting | - |
| Provider host (`dmProviderHost.cpp`) | providers map, dispatch thread, connection | register, serve get/set | `rtConnection`, providers |
| Provider (`dmProvider.cpp`) | getter/setter table, transaction flag | doGet, doSet | application objects |
| Data-model database (`dmProviderDatabase.cpp`) | object tree | load, lookup, create and execute a query | `rtConnection` |
| Data-model client (`dmClient.cpp`, `dmcli.cpp`) | none | recursive get, set | database, query |

How they interact: applications link `rtConnection`; every connection is a TCP or Unix stream to the
one router process. A frame is a header (two length-prefixed strings and six integers) and a payload
(JSON or bytes), sent with two `send` calls. `SUBSCRIBE` frames to `_RTROUTED.INBOX.*` add routes;
every other frame is copied to each client that has a matching route, with that client's subscription
id in `control_data`. A request carries the sender's inbox as reply topic; the response is a frame to
that topic. The data-model layer is two applications of this: `dmProviderHost` answers requests on
`RDK.MODEL.<object>`, `dmQuery` sends them.

What is hard, and what must hold, per component (the hazards of `PROJECT.json` give the lines):

- **Router event loop.** One thread, blocking sockets, a `select` result that grows stale while
  clients are read, dispatched for and destroyed; clients that die between any two system calls;
  frames that arrive in pieces. It must never wait in `recv`, must keep each client's read state in
  step with its stream, must come back to every client, and must drop a client only when it is gone.
- **Routing.** Handlers append to the route table while the dispatch loop runs over it, sends to one
  of several subscribers fail, slots and allocations of dead clients are reused. A route must not
  outlive its client, a frame must reach each matching route once and in order, and a request must be
  forwarded or answered.
- **Client connection.** Reconnection in the middle of a send or a read, a late answer to an earlier
  request, responses by callback, a listener table shared by two threads. A reported success must mean
  that the message was sent; a response must belong to its request; listeners must survive a restart.
- **Vector.** Growth by blocks, removal that shifts. It must be an ordered list.
- **Codec.** Widths and lengths of what is written and read must agree.
- **Message, buffer.** The last release, and only the last, destroys; a message nested into another, or
  got out of one, is a copy.
- **Provider host, provider.** A registering thread and a dispatching thread; partial failures of a
  multi-parameter set. A request must be answered, found or not; a transaction shows whole or not at all.
- **Database, query, client.** A tree built from files; a recursive get that must report a failure of
  any part, ask for every object once, and mean by a name what the tree says.

## 2. Plan

| Step | Module | Models | Abstract specification / composition | State |
|---|---|---|---|---|
| 1 | `Router`, `MCRouter` | event loop, routing, peers, sockets | - | done |
| 2 | `Vector`, `List` | `rtVector.c` | `Vector` implements `List` | done |
| 3 | `TopicMatch`, `MCTopicMatch` | `rtRouted_IsTopicMatch` | token-wise reference `Matches` | done |
| 4 | `RouterProofs`, `VectorProofs`, `TopicMatchProofs`, `SequenceLemmas` | - | - | done |
| 5 | `Connection` | `rtConnection.c` against a router that restarts and providers that answer late or never | - | done |
| 6 | `Message`, `Documents`, `MCMessage` | `rtMessage.c` over the heap of cJSON, used and released by several threads | `Message` implements `Documents`: messages are values | done |
| 7 | `Framing`, `MCFraming` | `rtMessageHeader.c`, `rtEncoder.c`, and the bytes and buffers of sender, router and receiver | what was sent is what is delivered | done |
| 8 | `Database`, `Provider` | the object tree and its lookup; `doGet`, `doSet`, transactions | reference `IsInstanceOf` of a name | done |
| 9 | `DataModel`, `MCDataModel` | hosts and clients of the data model over the bus | composes `Database` and `Provider`; the bus is what `Router` and `Connection` show of it | done |
| 10 | `RouterProofs` | `RecvNeverBlocks`, `StreamsInStep`, `ForwardedWasSubscribed`, `NoRouteOnlyIfUnmatched` | - | done |
| 11 | router delivery proofs, in `RouterProofs` | `InOrder`, `ServedExactlyOnce`, `ForwardedOrAnswered`, `DroppedOnlyIfGone` | - | done |
| 12 | `ConnectionProofs` | the six invariants of `Connection` | - | done |
| 13 | `DataModelProofs` | `TypeOK`, `LookupIsExact`, `HangsOnlyForTheGone`, `FailureIsReported` of `DataModel` | - | done |
| 14 | `MessageProofs` | `TypeOK`, `MemorySafe` of `Message` | - | done |
| 15 | `TopicMatchProofs` | `ComputesMatch` | - | done |
| 16 | `FramingProofs` | `DeliveredAsSent`, `BuffersHold`, `NothingWaitedFor` | - | done |
| 17 | more of messages and the data model | the refinement of `Documents`; `SetAsReported`, `NoTornPair`, `NotifiedOnce` | - | done |
| 18 | `SharedConnection` | two threads of a provider host in `SendInternal` of one connection | frames of `Framing` | not done |
| 19 | `Broker`, `Rpc` | what the router promises to subscribers, and `rtConnection_SendRequest` to its caller | `Router` implements `Broker` under a mapping of its loops, `Connection` implements `Rpc` while nothing times out | not done |

## 3. Modules and the code

### Router

A step of the router runs from one system call to the next: `pc` says at which one it stands.

| `pc` | The router is about to | Actions |
|---|---|---|
| `select` | wait in `select()` | `Select` |
| `accept` | accept one connection if the listener is readable | `Accept` |
| `clients` | test and read `clients[i]` | `SkipClient`, `ReadPreamble`, `ReadHeader`, `ReadPayload`, `DropClient`, `ClientsDone` |
| `clear` | look at one route of the client being destroyed, then close it | `ClearRoute`, `CloseClient` |
| `dispatch` | try route `di` | `DispatchSkip`, `DispatchLocal`, `ForwardHeader`, `DispatchDone` |
| `forward` | send the payload of the frame | `ForwardPayload`, `ForwardFails` |
| `noroute`, `noroutePayload` | send the no-route answer | `NoRouteHeader`, `NoRoutePayload`, `NoRouteAborts` |
| `aborted` | nothing any more | - |

`clients`, `routes`, `rd` (the `state` of an `rtConnectedClient`), `hdr` (its decoded header), `i`/`n`
and `di`/`dn` (the loop variables of `main` and of the dispatch and clearing loops) and `found`
(`match_found`) are the code's variables. Sequences are indexed from 1. A variable that goes out of
scope gets its initial value back. `Conns` are slots: an address and file descriptor that the next
connection gets again after `close`, so a stale pointer to a client shows.

The rest is the environment. A peer connects, sends a message with two sends (`half` holds the
message between them), receives, closes or dies. `inb[c]` and `wire[c]` are the two directions of a
socket, in chunks: a header or a payload. `SockBuf` chunks fit before a living peer's `send` blocks.
A dead peer is `closed` (what the router sends is lost) and then `reset` (sends fail).

Abstractions: the preamble and the rest of the header are one chunk read in two steps; a frame is not
cut further; the JSON of a SUBSCRIBE is its `id` and `exp`; matching is the constant relation
`Matches`, which `TopicMatch` computes; there is one listener. `wire` keeps everything sent since the
connection was made so that properties can speak of it.

### Connection

A step of the client runs to the next system call, return or loop test.

| `pc` | The thread is about to | Actions |
|---|---|---|
| `idle` | make a call of `rtConnection.h` | `CallSendMessage`, `CallSendRequest`, `CallAddListener`, `CallDispatch` |
| `header`, `payload` | `send()` that part in `SendInternal` | `SendHeader`, `SendPayload`, `SendBreaks` |
| `ensure` | call `EnsureRoutingDaemon` and `ConnectAndRegister` | `EnsureRoutingDaemon` |
| `connect` | `connect()` | `Connect`, `ConnectGivesUp` |
| `register` | go on in the loop that subscribes the listeners | `Register`, `Registered` |
| `sent` | return from `SendInternal` | `SubscribeSent` into the loop, `MessageSent` to the application |
| `read`, `readPayload` | `recv()` that part in `TimedDispatch` | `ReadHeader`, `ReadPayload`, `ReadFails` |
| `callback` | look for the listener of the frame and call it | `Callback` |
| `dispatched` | return from `TimedDispatch` | `Dispatched` |
| `wait` | test the time in the loop of `SendRequest` | `Wait` |

`SendInternal` and `ConnectAndRegister` call each other. `regs` is the stack of their frames: the loop
index of each `ConnectAndRegister` that is under way, innermost last. Of `SendInternal` only the
running one needs its locals `err` and `att`: one that called `ConnectAndRegister` sets `err` to its
result, `RT_OK`, and ends. `base` says what is at the bottom of the stack. `hdr`, `listeners`,
`response`, `nextId` and `seq` are the code's variables, `buf` what `recv_buffer` holds.

The rest is the environment. The router takes a frame when its payload has been sent, routes to this
client by `table`, and may crash: its socket then ends (`closed`) or is `reset`, and once something is
sent to a closed one the pipe is `broken`. Providers answer requests (`asked`), late or never.

Abstractions: preamble and header are one chunk, a payload another, and a frame is not cut further;
four refused `connect()` calls are one step; the fifth, `ENOENT` and similar failures are left out; no
two listeners share an expression, so each event has one listener; the application uses one thread and
its callbacks do not call back. `put`, `delivered` and `last` record what properties speak of.

### Vector and List

`data`, `capacity` and `count` are the fields of `struct _rtVector`; `data` is indexed from 0.
`realloc` leaves `Garbage` in new slots, `calloc` and `RemoveItem` leave `Null`. Allocation does not
fail. `RemoveItem` is only called for a stored item, as by both callers. `List` is the abstract
specification, with `list` mapped to the first `count` slots.

### TopicMatch

One action per test of the loop; `t` and `e` are the two cursors, `Result` the returned expression.
`Matches` is the reference: `*` stands for one token, a final `>` for one or more.

### Message and Documents

`msgs` are the `rtMessage` structs (`count`, and the item `json` points to as `root`), `heap` the cJSON
items in the order of their allocation, each with the item it is under (`up`). Addresses are not used
again, so that a use of freed memory shows: it sets `fault`. cJSON is external: `cJSON_Delete`
(`Doomed`) also frees the later siblings of the item it is given, which is why `rtMessage_Release` of
a message from `rtMessage_GetMessageItem` is dangerous.

An operation is one step, as the application must not change a message in two threads at a time, but
`rtMessage_Release` is four: `Release` (the first test of the count), `ReleaseSub`, `ReleaseTest`,
`Destroy`. `refs[t][m]` counts the references thread `t` has. The protocol of the application is a
guard: it uses only what it has references to, retains before it hands over, and forgets what
`rtMessage_GetMessageItem` returned before it releases the parent, as `dmQueryImpl::makeRequest` does.
`Together`, `ReleaseItem` and `Retopic` lift three parts of that protocol.

`Documents` is the abstract specification: a message is a value, and a step changes one document, which
comes, grows or goes, and no other. The refinement maps every message that somebody holds to the document in its tree (`Contents`).

### Framing

Byte for byte: the sender encodes a frame, the router reads it in any pieces (`Read`, the state machine
of `rtConnectedClient_Read`), decodes, encodes it again with the subscription's id and passes it on,
and the receiver (`ReadUntil`, `PartRead`) reads it in pieces, decodes it and calls back. `read_buffer`,
`bytes_read`, `bytes_to_read`, `header`, `recv_buffer` and `hdr` are the code's. Buffers and the topic
fields of a header are functions from offsets to bytes and keep what earlier frames left in them.

A byte has `Base` values instead of 256; integers keep their two or four bytes, the most significant
first, as `htons` and `htonl` put them. Unlike in `Router` and `Connection`, here a header is cut anywhere; unlike there,
nobody dies.

### Database, Provider and DataModel

`Database` has what a process loads: `Files` are the parsed files of the directory, `Order` is the order
of `std::map`, `Children` what `buildProviderTree` links. A dotted name is the sequence of its tokens.
`Lookup` folds `Descend` over the tokens as the loop of `getProviderByObjectName` does; `IsInstanceOf`
is its reference, the meaning of a name. `Provider` has `DoGet` and `DoSet`, with the transaction of the
end point of `sample_provider_wifi.cpp` as the subclass.

`DataModel` puts hosts and clients together:

| Action | Code |
|---|---|
| `Subscribe`, `Insert` | `registerProvider` in the application's thread: the listener, then `m_providers` |
| `Serve` | `requestHandler` in the run thread: decode, find the provider, get or set, encode, respond |
| `Dies`, `RouterRestarts`, `Reconnect` | a host's process ends; the router restarts and connections are made again |
| `Enter` | the beginning of `runGet`: list, object or property |
| `Ask` | `runOneQuery`, `exec`, `makeRequest` up to the wait in `rtConnection_SendRequest` |
| `TimesOut` | `rtConnection_SendRequest` returns `RT_ERROR_TIMEOUT` |
| `Counted`, `Queried` | what `runGet` does with the answer |
| `Below` | the loops over children and list items, and the return of `runGet` |

`stack[c]` holds the frames of the recursive `runGet`, with the variables of each. The bus is one step
from `Ask` to `inbox`, and from `Serve` to `answer`: that a request reaches the host that subscribed,
or is refused when nobody did, is what `Router` shows, and that a response finds its request what
`Connection` shows. What those models show of losses is kept: a request or response under way when the
router or the host goes is lost, the wait does not end on its own, and it ends with a timeout only when
the connection was lost and made again.

A value is the sequence of its comma-separated parts; statuses are three; JSON, topics and types are
left out. The clients are two processes with one call each.

## 4. What the runs show

| Run | Question | Bounds |
|---|---|---|
| `router_reuse` | Do routes, streams and answers stay right when both clients die at any point and their slots are reused, and is "no route" only said of what nothing matches? | 2 slots, 2 messages per slot over all its lives, so a slot lives up to three times and a client subscribes up to twice; sockets hold one frame |
| `router_fanout` | Is every matching subscriber served exactly once while others die? | 3 slots, one message each: all orders of two subscriptions and one request or empty message, with both subscribers dying anywhere |
| `router_live` | Is every frame read, so that every send returns, and every request answered, unless the router and a client block in sends to each other? | 2 slots, 2 messages each, half a frame per socket, so the router blocks on a slow subscriber, clients block on the router, and both at once |
| `vector` | Is the vector a list? | blocks of 2 slots, up to 7 items: three growths, duplicates, removal anywhere |
| `topic_match` | Does the cursor loop compute the token-wise match? | all topics over `a b .` and all expressions over `a . * >` of up to 4 characters: three tokens, empty tokens, wildcards in every place |
| `connection_steady` | Does every response belong to its request, does every listener hear every event once, in order and with its own payload, did what was reported as sent go out, and does every request return? | inbox and two listeners, 3 calls that send, 3 events, requests served or refused, sends interrupted |
| `connection_restart` | Are all listeners registered after every recovery, does the router see whole frames, does the client come back? | inbox and two listeners, 2 crashes anywhere (so a registration is broken while it repairs an earlier loss), one send or request, one event, timeouts, lost requests |
| `message` | Is nothing freed used, nothing held freed, nothing given up left, and is a message a value? | 2 threads, 2 messages and 5 items ever allocated: enough for an array or a message in a message, a copy of it, an item that points into it, and two threads with references to each |
| `framing` | Does what was sent arrive, however the streams are cut? | 3 of 3 messages whose topics and payloads shrink and grow, one with a topic that is cut; every cut of both streams; buffers that fit the longest frame and its 0 |
| `data_model` | Are names looked up as meant, is a get complete and each object reported once, are failures reported, sets seen whole, and queries answered? | 3 objects below `Device.WiFi`, two of them lists, one nested; 5 instances on 2 hosts, the nested one registered while the clients run; recursive gets of a list item and of the whole, list, object and property gets against a complete and a partial set; one restart, one death, one list that grows; all names of up to 3 tokens below the root, all with up to 2 below an item |
| `router_dead_subscriber` | The router retries a failed route for ever | violation of `NoRouteAnswered` |
| `data_model_item` | A list item that failed is forgotten when a child is queried with success | violation of `FailedItemFails` |

`CHECK_DEADLOCK FALSE` is set where the system may rest: clients have sent what they wanted, the
application waits in a read, the matching loop has ended, all threads have released what they had, all
frames have arrived. The vector is never stuck. `data_model` is checked for deadlock: it may stop only
in `Finished`, when every client is done or hangs, and `HangsOnlyForTheGone` says when it may hang.

The bounds are chosen from the code's cases. In `Router` a slot that is reused once shows any route or
stream left over from an earlier life, two subscribers show a loop disturbed by a failing one, and one
frame or half of one per socket makes the router block. In `Connection` a second crash is what can hit a registration
that recovers from the first. `MaxDepth` limits how deep registrations nest while a started router
does not listen yet; the code has no limit there (each refused connection recurses), and it does not
change what one level does to the next. In `Framing` three frames show a long one after a
short one after a long one, in every buffer. In `DataModel` each of the two clients runs one call, as
nothing is kept between calls but the values of the objects.

Passing and violating runs are about the same modules; the constants of a passing run say under which
conditions its properties hold. The others are as much part of the result. These settings break them:

| Property | In | Fails with | Because |
|---|---|---|---|
| `NoRouteAnswered` | `router_live` | a subscriber that may die while another client asks | `router_dead_subscriber` |
| `EveryFrameRead` | `router_live` | the exception `BothBlocked` left out | the router blocks in `send` to a client that is in `send` itself (rtrouted.c:306) |
| `DroppedOnlyIfGone` | `router_reuse` | an `Empty` message in `Sends` | `recv` of zero bytes looks like the end of the stream (rtrouted.c:488) |
| `ForwardedOrAnswered` | `router_reuse` | `DebugRoute = TRUE` | the printing route counts as a match (rtrouted.c:445) |
| `HeardOnceInOrder` | `connection_steady` | `MaxCrash = 1` | a registration within a registration subscribes listeners twice (rtConnection.c:174), and after a loss between header and payload `TimedDispatch` goes on to the callback (rtConnection.c:627) |
| `OkMeansSent` | `connection_steady` | `MaxCrash = 1` | a send that found the connection gone registers, takes the result of that for its own and ends (rtConnection.c:521) |
| `ResponseIsOurs` | `connection_steady` | `Timeouts = TRUE` | a late response is taken for the next one's (rtConnection.c:445) |
| `RequestReturns` | `connection_steady` | `MayLose = TRUE` | the read ignores the timeout (rtConnection.c:207) |
| `ListenersRegistered` | `connection_restart` | `Served = {TRUE, FALSE}` | a no-route answer sets the id of the inbox listener to 0 (rtConnection.c:637) |
| `FramesWhole` | `connection_restart` | `Signals = TRUE` | an interrupted send is repeated from the header, with `err` still set (rtConnection.c:505) |
| `MemorySafe` | `message` | `Together = TRUE` | two threads in `rtMessage_Release` of one message (rtMessage.c:513) |
| `MemorySafe` | `message` | `ReleaseItem = TRUE` | an item of an array is freed with its later siblings, and again with its parent (rtMessage.c:486) |
| `MemorySafe` | `message` | `Retopic = TRUE` | the old topic is deleted twice (rtMessage.c:366) |
| `BuffersHold` | `framing` | `BufSize = 34` | a frame that fills the buffer is followed by a 0 (rtConnection.c:616) |
| `NotifiedOnce` | `data_model` | `Databases = 2` | each database of a process links all children once more (dmProviderDatabase.cpp:385) |

After a no-route answer the inbox has lost its id and no response is found any more; `RequestReturns`
is therefore stated for clients whose inbox has kept it.

The properties are stated in the modules, each with the code it is about. Three of them are conjunctions
of named parts: `ServedExactlyOnce` (`ServedSoFar`, `OncePerRoute`), `MemorySafe` (`NoFault`,
`HeldIntact`, `NothingLeft`) and `BuffersHold`, which includes the types of `Framing`. Definitions
marked "Mutant of X" are faulty variants of X; with X replaced by its mutant, the run must report the
property it is listed for, which shows that the property can tell the code from a plausible mistake.

## 5. Fairness

`FairSpec` of `Router` asks for three things. `WF(RouterStep)`: the router thread is scheduled; a
router blocked in `send` has no step and is not hurried. `WF(PeerSendPayload)`: a client between its two sends goes
on when its socket has room. `WF(PeerRecv)`: applications keep calling `rtConnection_Dispatch`, as the
loops of the samples and of `dmProviderHostImpl::run` do, but not while they are in a send, which is a
guard of the action. Nothing is assumed about connecting, sending, dying or resets. The matching loop
has weak fairness on its only thread.

`FairSpec` of `Connection`: `WF(Running)`, the thread runs while it is not in a blocking call;
`WF(CallDispatch)`, the application keeps dispatching, as above; `WF(RouterListens)`, the daemon that
was started reaches its `listen()` (nobody is assumed to start it: `EnsureRoutingDaemon` does);
`WF(ProviderAnswers)`, providers answer while the router is up, and `MayLose` takes even that back.

`Message`, `Framing` and `DataModel` assume no fairness. That they do not stop early is stated without it: in
`Framing` by `NothingWaitedFor`, in `DataModel` by the deadlock check and `HangsOnlyForTheGone` (the
depth of every call is bounded by the tree, so a client that never stops has nothing left to do), in
`Message` by `NothingLeft`, a part of `MemorySafe`.

## 6. What is proved

The proofs assume the named assumptions of the modules: of `Router`, that `Conns`, `NoConn` and
`Listener` are apart, that topics are not control topics and what messages may be sent; of `Connection`,
that there is a slot for a listener; of `Framing`, that a header's length fits into 16 bits, numbers into
32, and that no payload is empty or holds a 0; of the data model, that names are sequences of strings and `Order`
lists the files' objects once each, what a recursive get may ask for, and that the hosts register declared
objects, each on one host; and that bounds are naturals. Nothing is assumed of the number of clients,
messages, routes, listeners, objects or hosts. A theorem that needs more than that says so in its
`ASSUME`, and section 4 shows the run that breaks its property without it.

- `RouterProofs`: `TypeOK` is not inductive, because the client loop, the dispatch loop and the
  clearing loop index vectors that other steps shorten. `LoopInv` adds what the program point says of
  them: `ClientLoop` (`i` and `n` against `clients`; while a frame is dispatched, `clients[i]` is
  `cur`), `DispatchLoop` (`dn` does not exceed the table, which only grows meanwhile), `HeadersRead`
  (a header is at hand whenever one is used) and `ForwardRoutesHaveClients` (only the routes of `main`
  have no client). `LoopInvariant` proves it inductive with one step per action; `TypeCorrect` follows.
  `NoDanglingRouteInvariant` adds `NoDanglingRoute`: the steps that matter are `DropClient` (the
  routes of the dropped client become the ones the clearing loop has yet to see), `ClearRoute` (removal
  keeps the order of the rest, `RemoveAtProperties` of `SequenceLemmas`) and `DispatchLocal` (the new
  route belongs to the client being read, which is connected).
  For what the router reads, `SlotsApart` (no slot is twice in `clients`, none is both a client and in the
  backlog, and the one being destroyed is neither) is what the two theorems rest on. `RecvNeverBlocks`
  follows from `ReadyReadable`: from the client that the loop comes to next, all that are in `read_fds`
  are readable. Peers only add bytes or close (`PeerSockets`), the router takes bytes only from the client
  it reads (`ReadSockets`), and `DispatchSockets` says that a dispatch, however long it blocks, takes none.
  `StreamsInStep` is not inductive, because it says nothing of slots that are not clients yet and
  nothing of where the peer is: `Chained` says that what the router read last, the chunks in the socket
  and the half-sent frame of the peer continue each other. `ChainAppend` and `ChainTail` are the two
  things that happen to such a chain.
  Of forwarding: `NotFoundYet` says what `match_found` knows in the middle of the loop: while it is
  FALSE the table has its length at the start, and no entry passed so far matches; `NoRouteOnlyIfUnmatched`
  follows. `ForwardedWasSubscribed` follows a subscription backwards from the wire: `RoutesAsked` (every route
  of a client is one its connection asked for), `ControlAsked` (so are the control messages in its socket, in
  its header and half-sent) and `ForwardMatches`; when a slot is closed, `NoDanglingRoute` and `SlotsApart`
  say that no route and no client is left that still speaks of it.
  The delivery theorems are about the way of a frame. `InOrder` follows the sequence numbers of a sender
  along its half-sent frame, its socket, the header at hand, the frame being dispatched and the wires of
  all clients: they only grow on this way, and a header on a wire is followed by its own payload or is
  the last thing there, with the dispatch loop about to send the rest. `ServedExactlyOnce` charges each
  copy on a wire to a route that the loop has passed: `OncePerRoute` counts the copies of a frame against
  the passed routes of the same client and id (`AddRoute` appends behind the loop's end, so no passed route
  is added meanwhile), and `ServedSoFar` says that a passed matching route has its copy. Neither theorem
  has a hypothesis; what the properties themselves except is dead clients. `DroppedOnlyIfGone` assumes that
  no message has an empty payload and `ForwardedOrAnswered` that `DebugRoute` is off.
- `ConnectionProofs`: `ConnectionTypes` holds in all settings. The others add what each property needs of
  where the thread is, what is on its stack of registrations and what the socket has. The hypotheses are the
  settings of section 4 under which the properties hold: `FramesWhole` and `ListenersRegistered` without
  signals (the latter also with a peer that serves the subscriptions), `OkMeansSent` and `HeardOnceInOrder`
  without a crash of the router, `ResponseIsOurs` also without timeouts.
- `DataModelProofs`: `LookupMeans` is the lemma behind `LookupIsExact`. One direction follows the states of
  `Descend` through the tokens of the name: `Read` says that a state that is not lost stands for the part of
  the name read so far (`full` without the ids, each of its tokens in its `Place`). In the other, the object
  that a name is an instance of predicts the state after each of its tokens (`MeantIsRead`). `Inv` has
  the types and the frames of `runGet`: every frame but the first is about an object that is found
  (`ChildFound`: a child of what was found is found again under its longer name, with the id of an item in
  between), which is why a recursive call never fails as unknown. `HangsOnlyForTheGone` adds `Waiting`: a
  query that is not answered is in an inbox, and a host that has lost its connection has only requests of
  before in its own. `FailureIsReported` adds `Reported`: a frame that has failed was reported, and
  without recursion there is one frame and it remembers.
  `SetAsReported` rests on two invariants of the bus: a query is sent to one host and served at most once
  (`SentOnce`; a copy that a restart leaves in an inbox is no longer waited for), and what is in an inbox is
  what its client's job asks for (`SentAsAsked`). Its hypotheses: `SetsAreClear`, an application names every
  property of a set once and sets none to the value by which the transaction knows a parameter that was not
  given; `MembersAreDeclared`, the properties of a transaction are declared and writable.
  `NoTornPair` follows the values of a transaction from the object (`FieldsWhole`) to the answer
  (`AnswerWhole`) and the notifications (`NotesAreWhole`): at each place they are those of one set. It assumes
  `OnlyTransactions`, since a set of one property, or an application that changes one, leaves half of a pair
  behind as it should, `PairsCanBeRead` (a property without a getter is answered from nowhere), and
  `MembersAreDeclared`.
  `NotifiedOnce` orders names by their prefixes (`Under`). A frame of `runGet` has names `Ahead` of it: those
  of the children and items it still comes to, and all names below them. `FramesOnce` says that nothing reported is ahead of any
  frame, and that a frame lies below what the frame under it was last called for (`Called`), which that one
  has passed. An object is linked once and to one parent, so children differ in their next token
  (`ChildrenOnce`, `KidsApart`), items differ in their ids (`AtItem`, `ItemsApart`): what is reported was ahead
  of its own frame only, and no longer is. It assumes `Databases = 1`, `IdsDiffer` (no list names an item
  twice, in what applications store or change or clients set), which `FieldsDiffer` and `AnswerDiffers` carry
  to the frame that goes through the ids, and `MembersAreDeclared`.
- `MessageProofs`: an item is allocated after the one it is in, so that what is `Below` an item follows by
  induction over addresses: trees of different roots share nothing (`TreesApart`), and growth below one root
  leaves what is below the others alone (`GrownBelow`). `Duplicate` numbers the items of a tree in the order of
  their addresses (`Places`) and so gives a tree again. `Inv` has three parts that `MemorySafe` needs and does
  not say: every item is in the tree of exactly one message, and lives as long as it (`Trees`); the count of
  a living message is the number of its references, where the one that a thread has given up and not yet
  subtracted still counts, and at zero a thread is on its way to destroy it (`Counted`); what a thread borrowed
  by `rtMessage_GetMessageItem` is in a message that somebody holds (`Items`). The theorems assume that
  `Together`, `ReleaseItem` and `Retopic` are off; section 4 has what happens otherwise.
  That `Message` implements `Documents` is proved step by step: `Contents`, the document in the tree of
  each message that somebody holds, stays as it is or takes one step of `Documents`. `ValueIs` unfolds the
  document of an item by one level, `OrderedIs` gives every child its place, and `ValueMapped` says that trees
  alike in shape, names and values have the same document: hence a copy is the document that was copied,
  and an element is in the array what it was on its own. Growth leaves documents elsewhere alone
  (`GrownElsewhere`), appends one item where it happens (`GrownHere`), and changes one field when it
  happens in the array of that field (`GrownInside`). A destroyed tree was in nobody's hands (`DestroyKeeps`, from
  `MemorySafe`). The invariant `Deep` is added: what `rtMessage_GetMessageItem` gave
  is two levels below the root of its parent at least, where nothing grows: a message grows at its root and
  in the arrays right under it. Otherwise growth would show in two documents. `NoneIsNoDocument` says that the mark of "no document" is none
  of the documents, as the model value of the run is not.
- `FramingProofs`: the encoding of a header puts every field where `Layout` says, so the decoder finds it
  (`EncodeIs`, `DecodeIs`, with the integers' round trips), over an initialized header only: a topic is
  copied without a terminator. The invariant speaks of the whole stream `P` of each direction, of which
  some frames are passed on, the next is partly in a buffer and the rest on its way (`IsStream`, `Pending`):
  one stream of the frames of all sent messages, and one of those that the router has forwarded. `RouterAt`
  and `ReceiverAt` say what each part read so far means: which length is known, which header is decoded. A
  `recv()` of any size moves bytes within `Pending` (`TakenIs`), a send makes a stream longer (`AppendedIs`).
  No end asks for more than its frame (`AskedIs`, `PartAskedIs`), hence none waits and none reads into the
  next. The theorems assume `Room`: every frame is shorter than the buffers, so that the 0 has a place.
- `VectorProofs`: `VectorInvariant` is the induction; `SlackSlot`, `OnlyItems` and the refinement of
  `List` follow. Adding maps to `Append`, removal to `RemoveAt` of the first position of the item.
- `TopicMatchProofs`: `CursorsInside` for all strings; at each program point the cursor that may still
  move has not reached its terminator. `ComputesMatch`, also for all strings: `Idx` counts the cuts before a
  position and so numbers the token it is in (`At` collects what follows). `Walk` says at each test of the
  loop that the cursors are in tokens of the same number, that the tokens before match, and that
  the two tokens are the same so far (`InToken`), or that a `*` and the token it stands for are passed
  (`StarPassed`). It is inductive only for well-formed strings: `a*` or a topic that ends in a dot
  breaks it, which is why the property has these hypotheses. Expressions without wildcards need only
  that the cursors are equal (`EqualSoFar`).

`SequenceLemmas` has what the others need of removal, order and folds. Induction over numbers is reached
through the set of those that have the property: a set of naturals that contains 0 and every successor of
its members contains all. A fold is unfolded to the recursive function that defines it.

Only model-checked: `Complete` of `DataModel`, which says what a call has reported when it ends and so
needs all of a call's answers followed; and, out of the prover's reach, all liveness properties.

## 7. What is not modelled

- Two threads on one connection, as in a provider host that registers providers while it answers: both
  encode into one `send_buffer` and send without a lock. `Connection` has one thread, `DataModel` takes
  each send as a step. `stop()` of a host, which destroys the connection under the run thread.
- Of `rtConnection.c`: callbacks that call back into it, `rtConnection_Destroy`, and `connect()` errors
  other than `ECONNREFUSED`.
- Of `rtMessage.c`: getters of strings, numbers and lengths, which change nothing, parsing and printing.
- `rtBuffer.c`, which nothing uses; `rtSocket.c`, `rtError.c`, `rtLog.c`, `rtDebug.c`; `dmValue` and its
  conversions; option and configuration parsing, daemonising and the pid lock, listener set-up.
- Malformed frames and JSON without the expected members; allocation failure; cJSON itself.
- `m_lists` of the host and the lookups by model and provider name, which nothing uses; the command line
  of `dmcli`; the samples, but for the end point of `sample_provider_wifi.cpp`.
