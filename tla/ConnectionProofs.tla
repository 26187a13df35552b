-------------------------- MODULE ConnectionProofs --------------------------
(***************************************************************************)
(* The client connection, for all values of the constants: any number of   *)
(* listeners and messages, registrations nested to any depth, any number   *)
(* of crashes where the theorem does not say that there are none.          *)
(***************************************************************************)
EXTENDS Connection, SequenceLemmas

-----------------------------------------------------------------------------
(* What the loops and the environment do to sequences.                     *)

Chunk == [part : {"header", "payload"}, frame : Frame]
Event(s) == [slot |-> s, n |-> hdr.n, buf |-> buf]

\* What Forwarded puts together.
Copies(slot, kind, n) ==
  [k \in 1..Len(table) |->
     IF table[k][1] # slot THEN <<>>
     ELSE Chunks([id |-> table[k][2], kind |-> kind, n |-> n])]

LEMMA CopiesType ==
  ASSUME NetTypes, NEW slot, NEW kind \in {"response", "event"}, NEW n \in Nat
  PROVE  /\ Copies(slot, kind, n) \in Seq(Seq([part : {"header", "payload"},
                                               frame : {f \in Frame : f.kind = kind}]))
         /\ Len(Copies(slot, kind, n)) = Len(table)
         /\ Forwarded(slot, kind, n) = FlattenSeq(Copies(slot, kind, n))
<1> DEFINE S == [part : {"header", "payload"}, frame : {f \in Frame : f.kind = kind}]
           c == Copies(slot, kind, n)
<1>1. Len(table) \in Nat /\ \A k \in 1..Len(table) : table[k] \in (1..Slots) \X (0..Slots)
  BY ElementOfSeq, LenProperties DEF NetTypes
<1>2. ASSUME NEW k \in 1..Len(table) PROVE c[k] \in Seq(S)
  <2>1. [id |-> table[k][2], kind |-> kind, n |-> n] \in {f \in Frame : f.kind = kind}
    BY <1>1, SlotsAssumption DEF Frame
  <2> DEFINE f == [id |-> table[k][2], kind |-> kind, n |-> n]
  <2>2. [part |-> "header", frame |-> f] \in S /\ [part |-> "payload", frame |-> f] \in S
    BY <2>1
  <2> HIDE DEF S, f
  <2>3. <<>> \in Seq(S) /\ <<[part |-> "header", frame |-> f], [part |-> "payload", frame |-> f]>> \in Seq(S)
    BY <2>2
  <2> QED BY <2>3 DEF Copies, Chunks, f
<1>3. c \in [1..Len(table) -> Seq(S)]
  BY <1>2 DEF Copies
<1>4. c \in Seq(Seq(S)) /\ Len(c) = Len(table)
  <2> HIDE DEF c, S
  <2> QED BY <1>1, <1>3, LenProperties
<1> QED BY <1>4 DEF Copies, Forwarded

\* A forwarded frame only goes to the chunks, and is of the kind asked for.
LEMMA ForwardedType ==
  ASSUME NetTypes, NEW slot, NEW kind \in {"response", "event"}, NEW n \in Nat
  PROVE  Forwarded(slot, kind, n) \in Seq([part : {"header", "payload"},
                                           frame : {f \in Frame : f.kind = kind}])
<1> DEFINE S == [part : {"header", "payload"}, frame : {f \in Frame : f.kind = kind}]
<1>1. /\ Copies(slot, kind, n) \in Seq(Seq(S))
      /\ Forwarded(slot, kind, n) = FlattenSeq(Copies(slot, kind, n))
  BY CopiesType
<1> HIDE DEF S
<1>2. Forwarded(slot, kind, n) \in Seq(S)
  BY <1>1, FlattenSeqType
<1> QED BY <1>2 DEF S

\* The bytes that are added or taken.
LEMMA ExtendedStream ==
  ASSUME NetTypes, NEW kind \in {"response", "event", "noroute"},
         NEW t \in Seq([part : {"header", "payload"}, frame : {f \in Frame : f.kind = kind}])
  PROVE  /\ rx \o t \in Seq(Chunk)
         /\ Len(rx \o t) = Len(rx) + Len(t)
         /\ Len(rx) \in Nat /\ Len(t) \in Nat
         /\ \A k \in 1..Len(t) : t[k].frame.kind = kind
         /\ \A k \in 1..Len(rx) + Len(t) :
              (rx \o t)[k] = IF k <= Len(rx) THEN rx[k] ELSE t[k - Len(rx)]
<1> DEFINE S == [part : {"header", "payload"}, frame : {f \in Frame : f.kind = kind}]
<1>1. S \subseteq Chunk
  BY DEF Chunk
<1>2. \A c \in S : c.frame.kind = kind
  OBVIOUS
<1>3. rx \in Seq(Chunk)
  BY DEF NetTypes, Chunk
<1> HIDE DEF S
<1>4. t \in Seq(S) /\ \A k \in 1..Len(t) : t[k] \in S
  BY ElementOfSeq DEF S
<1>5. t \in Seq(Chunk)
  BY <1>1, <1>4, SeqMonotonic
<1> QED BY <1>2, <1>3, <1>4, <1>5, ConcatProperties, LenProperties

LEMMA NextListenerProperties ==
  ASSUME NEW s \in Seq(1..(Slots + 1)), s # <<>>, s[Len(s)] <= Slots
  PROVE  /\ NextListener(s) \in Seq(1..(Slots + 1))
         /\ Len(NextListener(s)) = Len(s)
         /\ \A k \in 1..Len(s) : k < Len(s) => NextListener(s)[k] = s[k]
         /\ Last(NextListener(s)) = Last(s) + 1
         /\ NextListener(s) # <<>>
<1>1. Len(s) \in Nat \ {0} /\ s[Len(s)] \in 1..(Slots + 1)
  <2>1. Len(s) \in Nat \ {0}
    BY EmptySeq
  <2>2. Len(s) \in 1..Len(s)
    BY <2>1
  <2> QED BY <2>1, <2>2, ElementOfSeq
<1>2. Len(s) \in 1..Len(s) /\ s[Len(s)] + 1 \in 1..(Slots + 1)
  BY <1>1, SlotsAssumption
<1> DEFINE e == s[Len(s)] + 1
           t == [s EXCEPT ![Len(s)] = e]
<1>3. NextListener(s) = t
  BY DEF NextListener
<1>4. /\ t \in Seq(1..(Slots + 1)) /\ Len(t) = Len(s)
      /\ \A k \in 1..Len(s) : t[k] = IF k = Len(s) THEN e ELSE s[k]
  <2> HIDE DEF e
  <2>1. e \in 1..(Slots + 1)
    BY <1>2 DEF e
  <2> QED BY <1>2, <2>1, ExceptSeq
<1> HIDE DEF t
<1>5. t[Len(t)] = s[Len(s)] + 1
  BY <1>2, <1>4
<1>6. t # <<>>
  BY <1>1, <1>4, EmptySeq
<1>7. \A k \in 1..Len(s) : k < Len(s) => t[k] = s[k]
  BY <1>1, <1>4
<1> QED BY <1>3, <1>4, <1>5, <1>6, <1>7 DEF Last

-----------------------------------------------------------------------------
(* Types.  A slot that a loop has come to is one of the array only because    *)
(* the loop waits there for a send (LoopSlots), and there is a free slot for  *)
(* every id that is given out only because slots are given out in order       *)
(* (SlotsInOrder).                                                            *)

Sends == {"header", "payload", "sent", "ensure"}

\* Where a loop over the listeners is under way, and where none is.
Loops ==
  /\ pc \in {"connect", "register"} => regs # <<>>
  /\ pc \in {"idle", "read", "readPayload", "callback", "dispatched", "wait"} => regs = <<>>

\* The loops that wait for a send have come to a listener in use, the one that
\* connects is at its first.
LoopSlots ==
  /\ \A k \in 1..Len(regs) :
       k < Len(regs) \/ pc \in Sends => regs[k] <= Slots /\ listeners[regs[k]].in_use
  /\ pc = "connect" => Last(regs) = 1

\* Slots are given to listeners in order, and the id of a listener is its slot
\* until a no-route answer sets it to 0.
SlotsInOrder ==
  \A s \in 1..Slots :
    /\ listeners[s].in_use <=> s < nextId
    /\ listeners[s].in_use => listeners[s].id \in {0, s}

StackInv == TypeOK /\ Loops /\ LoopSlots /\ SlotsInOrder

LEMMA LoopAtHand ==
  ASSUME StackInv
  PROVE  /\ Len(regs) \in Nat
         /\ \A k \in 1..Len(regs) : regs[k] \in 1..(Slots + 1)
         /\ regs # <<>> =>
              /\ Len(regs) \in 1..Len(regs)
              /\ Last(regs) = regs[Len(regs)] /\ Last(regs) \in 1..(Slots + 1)
              /\ Front(regs) \in Seq(1..(Slots + 1)) /\ Len(Front(regs)) = Len(regs) - 1
              /\ \A k \in 1..Len(regs) - 1 : Front(regs)[k] = regs[k]
              /\ pc \in Sends => Last(regs) <= Slots
<1>1. regs \in Seq(1..(Slots + 1))
  BY DEF StackInv, TypeOK, ThreadTypes
<1>2. Len(regs) \in Nat /\ \A k \in 1..Len(regs) : regs[k] \in 1..(Slots + 1)
  BY <1>1, ElementOfSeq, LenProperties
<1>3. ASSUME regs # <<>>
      PROVE  /\ Len(regs) \in 1..Len(regs)
             /\ Last(regs) = regs[Len(regs)] /\ Last(regs) \in 1..(Slots + 1)
             /\ Front(regs) \in Seq(1..(Slots + 1)) /\ Len(Front(regs)) = Len(regs) - 1
             /\ \A k \in 1..Len(regs) - 1 : Front(regs)[k] = regs[k]
  <2>1. Len(regs) \in Nat \ {0} /\ Last(regs) = regs[Len(regs)]
    BY <1>1, <1>3, FrontLast
  <2>2. Len(regs) \in 1..Len(regs)
    BY <2>1
  <2> QED BY <1>1, <1>3, <2>1, <2>2, FrontLast
<1>4. ASSUME regs # <<>>, pc \in Sends PROVE Last(regs) <= Slots
  BY <1>3, <1>4 DEF StackInv, LoopSlots
<1> QED BY <1>2, <1>3, <1>4

\* A loop comes back to its array, one deeper.
LEMMA NextLoop ==
  ASSUME StackInv, regs # <<>>, pc \in Sends, regs' = NextListener(regs)
  PROVE  /\ regs' \in Seq(1..(Slots + 1)) /\ regs' # <<>>
         /\ Len(regs') = Len(regs)
         /\ \A k \in 1..Len(regs) : k < Len(regs) => regs'[k] = regs[k]
         /\ Last(regs') = Last(regs) + 1
<1>1. regs \in Seq(1..(Slots + 1)) /\ regs[Len(regs)] <= Slots
  BY LoopAtHand DEF StackInv, TypeOK, ThreadTypes
<1> QED BY <1>1, NextListenerProperties

\* The inner loop is done and the one it was called in goes on.
LEMMA OuterLoop ==
  ASSUME StackInv, Len(regs) > 1, regs' = NextListener(Front(regs))
  PROVE  /\ regs' \in Seq(1..(Slots + 1)) /\ regs' # <<>>
         /\ Len(regs') = Len(regs) - 1
         /\ \A k \in 1..Len(regs) - 1 : k < Len(regs) - 1 => regs'[k] = regs[k]
         /\ Last(regs') = regs[Len(regs) - 1] + 1
<1>1. regs # <<>>
  BY EmptySeq
<1>2. Len(regs) \in Nat /\ Len(regs) - 1 \in 1..Len(regs) - 1
      /\ Len(regs) - 1 \in 1..Len(regs) /\ Len(regs) - 1 < Len(regs)
  BY LoopAtHand
<1>3. /\ Front(regs) \in Seq(1..(Slots + 1)) /\ Len(Front(regs)) = Len(regs) - 1
      /\ \A k \in 1..Len(regs) - 1 : Front(regs)[k] = regs[k]
  BY <1>1, LoopAtHand
<1>4. Front(regs) # <<>>
  BY <1>2, <1>3, EmptySeq
<1>5. Front(regs)[Len(Front(regs))] = regs[Len(regs) - 1]
  BY <1>2, <1>3
<1>6. regs[Len(regs) - 1] <= Slots
  BY <1>2 DEF StackInv, LoopSlots
<1>7. Last(Front(regs)) = regs[Len(regs) - 1]
  BY <1>5 DEF Last
<1> QED BY <1>3, <1>4, <1>5, <1>6, <1>7, NextListenerProperties

\* ConnectAndRegister begins with the first slot.
LEMMA InnerLoop ==
  ASSUME StackInv, regs' = Append(regs, 1)
  PROVE  /\ regs' \in Seq(1..(Slots + 1)) /\ regs' # <<>>
         /\ Len(regs') = Len(regs) + 1
         /\ \A k \in 1..Len(regs) : regs'[k] = regs[k]
         /\ Last(regs') = 1
<1>1. regs \in Seq(1..(Slots + 1)) /\ 1 \in 1..(Slots + 1)
  BY SlotsAssumption DEF StackInv, TypeOK, ThreadTypes
<1> QED BY <1>1, AppendProperties DEF Last

\* It finds the next slot in use.
LEMMA FoundLoop ==
  ASSUME StackInv, regs # <<>>, NEW s \in 1..Slots, regs' = Append(Front(regs), s)
  PROVE  /\ regs' \in Seq(1..(Slots + 1)) /\ regs' # <<>>
         /\ Len(regs') = Len(regs)
         /\ \A k \in 1..Len(regs) : k < Len(regs) => regs'[k] = regs[k]
         /\ Last(regs') = s
<1>1. /\ Front(regs) \in Seq(1..(Slots + 1)) /\ Len(Front(regs)) = Len(regs) - 1
      /\ \A k \in 1..Len(regs) - 1 : Front(regs)[k] = regs[k]
      /\ Len(regs) \in Nat
  BY LoopAtHand
<1>2. s \in 1..(Slots + 1)
  BY SlotsAssumption
<1>3. /\ regs' \in Seq(1..(Slots + 1)) /\ regs' # <<>>
      /\ Len(regs') = Len(Front(regs)) + 1
      /\ \A k \in 1..Len(Front(regs)) : regs'[k] = Front(regs)[k]
      /\ regs'[Len(Front(regs)) + 1] = s
  BY <1>1, <1>2, AppendProperties
<1>4. Len(regs') = Len(regs) /\ Last(regs') = s
  BY <1>1, <1>3 DEF Last
<1>5. ASSUME NEW k \in 1..Len(regs), k < Len(regs) PROVE regs'[k] = regs[k]
  BY <1>1, <1>3, <1>5
<1> QED BY <1>3, <1>4, <1>5

\* A new listener takes the slot of its id.
LEMMA NewListener ==
  ASSUME StackInv, NEW s \in 1..Slots, AddListener(s)
  PROVE  /\ s = nextId /\ nextId' = nextId + 1
         /\ nextId' \in 1..(Slots + 1)
         /\ ~listeners[s].in_use
         /\ listeners' \in [1..Slots -> [in_use : BOOLEAN, id : 0..Slots]]
         /\ \A r \in 1..Slots : r # s => listeners'[r] = listeners[r]
         /\ listeners'[s] = [in_use |-> TRUE, id |-> s]
<1>1. /\ nextId \in 1..(Slots + 1)
      /\ listeners \in [1..Slots -> [in_use : BOOLEAN, id : 0..Slots]]
      /\ \A r \in 1..Slots : listeners[r].in_use <=> r < nextId
  BY DEF StackInv, TypeOK, MessageTypes, SlotsInOrder
<1>2. /\ ~listeners[s].in_use /\ \A r \in 1..(s - 1) : listeners[r].in_use
      /\ listeners' = [listeners EXCEPT ![s] = [in_use |-> TRUE, id |-> nextId]]
      /\ nextId' = nextId + 1
  BY DEF AddListener, FreeSlot
<1>3. s = nextId
  <2>1. ~(s < nextId)
    BY <1>1, <1>2
  <2>2. s - 1 < nextId
    <3>1. CASE s = 1
      BY <1>1, <3>1
    <3>2. CASE s # 1
      BY <1>1, <1>2, <3>2, SlotsAssumption
    <3> QED BY <3>1, <3>2
  <2> QED BY <1>1, <2>1, <2>2
<1>4. nextId' \in 1..(Slots + 1) /\ nextId \in 0..Slots
  BY <1>1, <1>2, <1>3, SlotsAssumption
<1> QED BY <1>1, <1>2, <1>3, <1>4

\* The environment changes nothing in the client.
LEMMA EnvironmentStep ==
  ASSUME Environment
  PROVE  UNCHANGED <<clientVars, history>>
BY DEF Environment, RouterCrashes, RouterStarted, RouterListens, SocketReset,
     ProviderAnswers, ProviderDies, Publish

LEMMA ThreadTypesStep ==
  ASSUME StackInv, [Next]_vars
  PROVE  ThreadTypes'
<1>0. ThreadTypes
  BY DEF StackInv, TypeOK
<1>1. CASE SendHeader \/ SendPayload \/ SendBreaks
  BY <1>0, <1>1 DEF ThreadTypes, SendHeader, SendPayload, SendBreaks, Attempted
<1>2. CASE EnsureRoutingDaemon
  BY <1>0, <1>2, InnerLoop DEF ThreadTypes, EnsureRoutingDaemon
<1>3. CASE Connect \/ ConnectGivesUp
  BY <1>0, <1>3 DEF ThreadTypes, Connect, ConnectGivesUp
<1>4. CASE Register
  <2>1. regs # <<>> /\ Last(regs) \in 1..(Slots + 1)
    BY <1>4, LoopAtHand DEF Register, StackInv, Loops
  <2>2. PICK s \in Last(regs)..Slots : regs' = Append(Front(regs), s)
    BY <1>4 DEF Register
  <2>3. s \in 1..Slots
    BY <2>1, SlotsAssumption
  <2>4. regs' \in Seq(1..(Slots + 1))
    BY <2>1, <2>2, <2>3, FoundLoop
  <2> QED BY <1>0, <1>4, <2>4 DEF ThreadTypes, Register
<1>5. CASE Registered
  <2>1. CASE Len(regs) > 1
    BY <1>0, <1>5, <2>1, OuterLoop DEF ThreadTypes, Registered
  <2>2. CASE ~(Len(regs) > 1)
    <3>1. regs' = <<>> /\ UNCHANGED call
      BY <1>5, <2>2 DEF Registered
    <3>2. regs' \in Seq(1..(Slots + 1))
      BY <3>1, EmptySeq
    <3>3. \/ /\ pc' = "header" /\ base' = "send" /\ err' = "OK" /\ att' = 0
          \/ /\ err' = "OK" /\ pc' \in {"sent", "callback"} /\ UNCHANGED <<base, att>>
      BY <1>5, <2>2 DEF Registered, AddListener, SendInternal
    <3> QED BY <1>0, <3>1, <3>2, <3>3 DEF ThreadTypes
  <2> QED BY <2>1, <2>2
<1>6. CASE SubscribeSent
  BY <1>0, <1>6, NextLoop DEF ThreadTypes, SubscribeSent, Sends
<1>7. CASE ReadHeader \/ ReadPayload \/ ReadFails \/ Callback
  BY <1>0, <1>7 DEF ThreadTypes, ReadHeader, ReadPayload, ReadFails, Callback
<1>8. CASE MessageSent \/ Wait \/ Dispatched
  BY <1>0, <1>8 DEF ThreadTypes, MessageSent, Wait, Dispatched, Return, TimedDispatch
<1>9. CASE Calls
  BY <1>0, <1>9 DEF ThreadTypes, Calls, CallSendMessage, CallSendRequest, CallAddListener,
       CallDispatch, AddListener, SendInternal, TimedDispatch, history
<1>10. CASE Environment \/ UNCHANGED vars
  BY <1>0, <1>10, EnvironmentStep DEF ThreadTypes, clientVars, vars
<1> QED BY <1>1, <1>2, <1>3, <1>4, <1>5, <1>6, <1>7, <1>8, <1>9, <1>10 DEF Next, Running

\* The next chunk of the socket is a frame's, and the rest are chunks.
LEMMA NextChunk ==
  ASSUME NetTypes, rx # <<>>
  PROVE  /\ Head(rx) = rx[1] /\ rx[1] \in Chunk /\ 1 \in 1..Len(rx) /\ Len(rx) \in Nat
         /\ Tail(rx) \in Seq(Chunk) /\ Len(Tail(rx)) = Len(rx) - 1
         /\ \A k \in 1..Len(rx) - 1 : Tail(rx)[k] = rx[k + 1]
<1>1. rx \in Seq(Chunk)
  BY DEF NetTypes, Chunk
<1>2. Len(rx) \in Nat \ {0}
  BY <1>1, EmptySeq
<1>3. Head(rx) = rx[1] /\ 1 \in 1..Len(rx)
  BY <1>1, <1>2
<1> QED BY <1>1, <1>2, <1>3, HeadTailProperties, ElementOfSeq

LEMMA MessageTypesStep ==
  ASSUME StackInv, [Next]_vars
  PROVE  MessageTypes'
<1>0. MessageTypes /\ NetTypes
  BY DEF StackInv, TypeOK
<1>1. CASE UNCHANGED <<msg, hdr, buf, listeners, response, nextId, seq>>
  BY <1>0, <1>1 DEF MessageTypes
<1>2. CASE SendHeader \/ SendPayload \/ SendBreaks \/ EnsureRoutingDaemon \/ Connect
           \/ ConnectGivesUp \/ Register \/ SubscribeSent \/ ReadFails
  BY <1>1, <1>2 DEF SendHeader, SendPayload, SendBreaks, EnsureRoutingDaemon, Connect,
       ConnectGivesUp, Register, SubscribeSent, ReadFails
<1>3. ASSUME NEW s \in 1..Slots, AddListener(s), UNCHANGED <<hdr, buf, response, seq>>
      PROVE  MessageTypes'
  <2>1. /\ nextId' \in 1..(Slots + 1)
        /\ listeners' \in [1..Slots -> [in_use : BOOLEAN, id : 0..Slots]]
    BY <1>3, NewListener
  <2>2. msg' = Subscribe(s)
    BY <1>3 DEF AddListener, SendInternal
  <2> QED BY <1>0, <1>3, <2>1, <2>2 DEF MessageTypes
<1>4. CASE Registered
  <2>1. 1 \in 1..Slots
    BY SlotsAssumption
  <2>2. CASE AddListener(Inbox)
    BY <1>3, <1>4, <2>1, <2>2 DEF Registered, Inbox
  <2>3. CASE UNCHANGED <<msg, nextId, listeners>>
    BY <1>1, <1>4, <2>3 DEF Registered
  <2> QED BY <1>4, <2>2, <2>3 DEF Registered
<1>5. CASE ReadHeader
  <2>1. hdr' \in Frame
    BY <1>0, <1>5, NextChunk DEF ReadHeader, Chunk
  <2> QED BY <1>0, <1>5, <2>1 DEF MessageTypes, ReadHeader
<1>6. CASE ReadPayload
  <2>1. buf' \in Nat
    BY <1>0, <1>6, NextChunk DEF ReadPayload, Chunk, Frame
  <2> QED BY <1>0, <1>6, <2>1 DEF MessageTypes, ReadPayload
<1>7. CASE Callback
  <2>1. \A s \in 1..Slots : IdOf(s) \in 0..Slots
    BY <1>0, SlotsAssumption DEF MessageTypes, IdOf
  <2>2. listeners' \in [1..Slots -> [in_use : BOOLEAN, id : 0..Slots]]
    <3>1. \A s \in 1..Slots : [listeners[s] EXCEPT !.id = IdOf(s)] \in [in_use : BOOLEAN, id : 0..Slots]
      BY <1>0, <2>1 DEF MessageTypes
    <3> QED BY <1>0, <1>7, <3>1 DEF Callback, MessageTypes
  <2>3. response' \in Nat /\ UNCHANGED <<msg, hdr, buf, nextId, seq>>
    BY <1>0, <1>7 DEF Callback, MessageTypes
  <2> QED BY <1>0, <2>2, <2>3 DEF MessageTypes
<1>8. ASSUME NEW e, NEW r, Return(e, r), response' \in Nat,
             UNCHANGED <<buf, listeners, nextId, seq>>
      PROVE  MessageTypes'
  <2>1. msg' = Plain(0) /\ hdr' = NoFrame /\ 0 \in 0..MaxSeq
    BY <1>8, BoundsAssumption DEF Return
  <2> QED BY <1>0, <1>8, <2>1 DEF MessageTypes
<1>9. CASE MessageSent \/ Wait \/ Dispatched
  <2>1. CASE UNCHANGED msg
    BY <1>0, <1>9, <2>1 DEF MessageTypes, MessageSent, Wait, Dispatched, Return, TimedDispatch
  <2>2. CASE \E e, r : Return(e, r)
    BY <1>0, <1>8, <1>9, <2>2 DEF MessageTypes, MessageSent, Wait, Dispatched
  <2> QED BY <1>9, <2>1, <2>2 DEF MessageSent, Wait, Dispatched
<1>10. CASE CallSendMessage \/ CallSendRequest
  <2>1. seq \in 1..MaxSeq /\ seq' \in 1..(MaxSeq + 1)
    BY <1>0, <1>10, BoundsAssumption DEF MessageTypes, CallSendMessage, CallSendRequest
  <2>2. msg' \in {Plain(seq), Request(seq)}
    BY <1>10 DEF CallSendMessage, CallSendRequest, SendInternal
  <2> QED BY <1>0, <1>10, <2>1, <2>2 DEF MessageTypes, CallSendMessage, CallSendRequest
<1>11. CASE CallAddListener
  BY <1>3, <1>11 DEF CallAddListener
<1>12. CASE CallDispatch
  BY <1>0, <1>12 DEF MessageTypes, CallDispatch, TimedDispatch
<1>13. CASE Environment \/ UNCHANGED vars
  BY <1>1, <1>13, EnvironmentStep DEF clientVars, vars
<1> QED BY <1>2, <1>4, <1>5, <1>6, <1>7, <1>9, <1>10, <1>11, <1>12, <1>13
       DEF Next, Running, Calls

\* What is sent is a subscription, a message or a request, and what the router
\* does with it.
LEMMA HandledKinds ==
  ASSUME StackInv, pc \in Sends, Handled(Sending)
  PROVE  \/ \E s \in 1..Slots :
              /\ Sending = Subscribe(s)
              /\ IF regs = <<>> THEN msg = Subscribe(s) ELSE s = Last(regs)
              /\ table' = Append(table, <<s, listeners[s].id>>) /\ UNCHANGED <<rx, asked>>
         \/ \E n \in 0..MaxSeq :
              /\ regs = <<>> /\ msg = Plain(n)
              /\ UNCHANGED <<rx, asked, table>>
         \/ \E n \in 1..MaxSeq :
              /\ regs = <<>> /\ msg = Request(n) /\ UNCHANGED table
              /\ \/ asked' = asked \cup {n} /\ UNCHANGED rx
                 \/ /\ FALSE \in Served /\ UNCHANGED asked
                    /\ rx' = rx \o Chunks([id |-> 0, kind |-> "noroute", n |-> n])
<1>1. ASSUME NEW s \in 1..Slots, Sending = Subscribe(s)
      PROVE  table' = Append(table, <<s, listeners[s].id>>) /\ UNCHANGED <<rx, asked>>
  BY <1>1 DEF Handled, Subscribe
<1>2. CASE regs # <<>>
  <2>1. Last(regs) \in 1..Slots /\ Sending = Subscribe(Last(regs))
    BY <1>2, LoopAtHand, SlotsAssumption DEF Sending
  <2> QED BY <1>1, <1>2, <2>1
<1>3. CASE regs = <<>>
  <2>1. Sending = msg
    BY <1>3 DEF Sending
  <2>2. ASSUME NEW n \in 0..MaxSeq, msg = Plain(n)
        PROVE  UNCHANGED <<rx, asked, table>>
    BY <2>1, <2>2 DEF Handled, Plain
  <2>3. ASSUME NEW n \in 1..MaxSeq, msg = Request(n)
        PROVE  /\ UNCHANGED table
               /\ \/ asked' = asked \cup {n} /\ UNCHANGED rx
                  \/ /\ FALSE \in Served /\ UNCHANGED asked
                     /\ rx' = rx \o Chunks([id |-> 0, kind |-> "noroute", n |-> n])
    BY <2>1, <2>3 DEF Handled, Request
  <2>4. \/ \E s \in 1..Slots : msg = Subscribe(s)
        \/ \E n \in 0..MaxSeq : msg = Plain(n)
        \/ \E n \in 1..MaxSeq : msg = Request(n)
    BY DEF StackInv, TypeOK, MessageTypes
  <2> QED BY <1>1, <1>3, <2>1, <2>2, <2>3, <2>4
<1> QED BY <1>2, <1>3

LEMMA NetTypesStep ==
  ASSUME StackInv, [Next]_vars
  PROVE  NetTypes'
<1>0. NetTypes /\ MessageTypes
  BY DEF StackInv, TypeOK
<1>1. CASE UNCHANGED netVars
  BY <1>0, <1>1 DEF NetTypes, netVars
<1>2. CASE \/ Register \/ Registered \/ SubscribeSent \/ Callback \/ MessageSent \/ Wait
           \/ Dispatched \/ Calls \/ UNCHANGED vars
  BY <1>1, <1>2 DEF Register, Registered, SubscribeSent, Callback, MessageSent, Wait, Dispatched,
       Calls, CallSendMessage, CallSendRequest, CallAddListener, CallDispatch, vars, netVars
<1>3. CASE SendHeader \/ SendBreaks \/ EnsureRoutingDaemon \/ ReadFails
  BY <1>0, <1>3 DEF NetTypes, SendHeader, SendBreaks, SendFails, EnsureRoutingDaemon, ReadFails
<1>4. CASE SendPayload
  <2>1. half' \in BOOLEAN /\ UNCHANGED <<sock, garbled, router, crashes, events>>
    BY <1>0, <1>4 DEF NetTypes, SendPayload
  <2>2. ASSUME Handled(Sending)
        PROVE  /\ rx' \in Seq([part : {"header", "payload"}, frame : Frame])
               /\ table' \in Seq((1..Slots) \X (0..Slots))
               /\ asked' \subseteq 1..MaxSeq
    <3>1. ASSUME NEW s \in 1..Slots, table' = Append(table, <<s, listeners[s].id>>)
          PROVE  table' \in Seq((1..Slots) \X (0..Slots))
      <4>1. <<s, listeners[s].id>> \in (1..Slots) \X (0..Slots)
        BY <1>0 DEF MessageTypes
      <4> QED BY <1>0, <3>1, <4>1, AppendProperties DEF NetTypes
    <3>2. ASSUME NEW n \in 1..MaxSeq,
                 rx' = rx \o Chunks([id |-> 0, kind |-> "noroute", n |-> n])
          PROVE  rx' \in Seq([part : {"header", "payload"}, frame : Frame])
      <4> DEFINE f == [id |-> 0, kind |-> "noroute", n |-> n]
      <4>1. f \in Frame
        BY BoundsAssumption DEF Frame
      <4> HIDE DEF f
      <4>2. Chunks(f) \in Seq([part : {"header", "payload"}, frame : Frame])
        BY <4>1 DEF Chunks
      <4> QED BY <1>0, <3>2, <4>2, ConcatProperties DEF NetTypes, f
    <3>3. \A n \in 1..MaxSeq : asked \cup {n} \subseteq 1..MaxSeq
      BY <1>0 DEF NetTypes
    <3>4. pc \in Sends
      BY <1>4 DEF SendPayload, Sends
    <3> QED BY <1>0, <2>2, <3>1, <3>2, <3>3, <3>4, HandledKinds DEF NetTypes
  <2>3. CASE UNCHANGED <<rx, asked, table>>
    BY <1>0, <2>1, <2>3 DEF NetTypes
  <2> QED BY <1>0, <1>4, <2>1, <2>2, <2>3 DEF SendPayload, NetTypes
<1>5. CASE Connect \/ ConnectGivesUp
  <2>1. rx' = <<>> /\ rx' \in Seq([part : {"header", "payload"}, frame : Frame])
    BY <1>5, EmptySeq DEF Connect, ConnectGivesUp
  <2>2. table' \in Seq((1..Slots) \X (0..Slots))
    BY <1>0, <1>5, EmptySeq DEF Connect, ConnectGivesUp, NetTypes
  <2> QED BY <1>0, <1>5, <2>1, <2>2 DEF NetTypes, Connect, ConnectGivesUp
<1>6. CASE ReadHeader \/ ReadPayload
  <2>1. rx' \in Seq([part : {"header", "payload"}, frame : Frame])
    BY <1>0, <1>6, NextChunk DEF ReadHeader, ReadPayload, Chunk
  <2> QED BY <1>0, <1>6, <2>1 DEF NetTypes, ReadHeader, ReadPayload
<1>7. CASE RouterCrashes
  <2>1. \A k \in 0..Len(rx) : SubSeq(rx, 1, k) \in Seq([part : {"header", "payload"}, frame : Frame])
    <3>1. TAKE k \in 0..Len(rx)
    <3>2. rx \in Seq(Chunk)
      BY <1>0 DEF NetTypes, Chunk
    <3>3. Len(rx) \in Nat /\ \A j \in 1..Len(rx) : rx[j] \in Chunk
      BY <3>2, LenProperties, ElementOfSeq
    <3>4. k \in Int /\ 1 \in Int /\ \A j \in 1..k : rx[j] \in Chunk
      BY <3>3
    <3> QED BY <3>4, SubSeqProperties DEF Chunk
  <2>2. rx' \in Seq([part : {"header", "payload"}, frame : Frame])
    <3>1. <<>> \in Seq([part : {"header", "payload"}, frame : Frame])
      BY EmptySeq
    <3> QED BY <1>0, <1>7, <2>1, <3>1 DEF RouterCrashes, NetTypes
  <2>3. table' \in Seq((1..Slots) \X (0..Slots))
    BY <1>7, EmptySeq DEF RouterCrashes
  <2>4. crashes' \in 0..MaxCrash
    BY <1>0, <1>7, BoundsAssumption DEF RouterCrashes, NetTypes
  <2> QED BY <1>0, <1>7, <2>2, <2>3, <2>4 DEF RouterCrashes, NetTypes
<1>8. CASE RouterStarted \/ RouterListens \/ ProviderDies
  BY <1>0, <1>8 DEF RouterStarted, RouterListens, ProviderDies, NetTypes
<1>9. CASE SocketReset
  <2>1. rx' \in Seq([part : {"header", "payload"}, frame : Frame])
    BY <1>9, EmptySeq DEF SocketReset
  <2> QED BY <1>0, <1>9, <2>1 DEF SocketReset, NetTypes
<1>10. ASSUME NEW slot, NEW kind \in {"response", "event"}, NEW n \in Nat,
              rx' = rx \o Forwarded(slot, kind, n)
       PROVE  rx' \in Seq([part : {"header", "payload"}, frame : Frame])
  BY <1>0, <1>10, ForwardedType, ExtendedStream DEF Chunk
<1>11. CASE ProviderAnswers
  <2>1. PICK q \in asked : asked' = asked \ {q} /\ rx' = rx \o Forwarded(Inbox, "response", q)
    BY <1>11 DEF ProviderAnswers
  <2>2. q \in Nat
    BY <1>0, BoundsAssumption DEF NetTypes
  <2>3. rx' \in Seq([part : {"header", "payload"}, frame : Frame])
    BY <1>10, <2>1, <2>2
  <2> QED BY <1>0, <1>11, <2>1, <2>3 DEF ProviderAnswers, NetTypes
<1>12. CASE Publish
  <2>1. PICK slot \in 2..Slots : rx' = rx \o Forwarded(slot, "event", events + 1)
    BY <1>12 DEF Publish
  <2>2. events + 1 \in Nat /\ events' \in 0..MaxEvents
    BY <1>0, <1>12, BoundsAssumption DEF NetTypes, Publish
  <2>3. rx' \in Seq([part : {"header", "payload"}, frame : Frame])
    BY <1>10, <2>1, <2>2
  <2> QED BY <1>0, <1>12, <2>2, <2>3 DEF Publish, NetTypes
<1> QED BY <1>2, <1>3, <1>4, <1>5, <1>6, <1>7, <1>8, <1>9, <1>11, <1>12
       DEF Next, Running, Environment

\* At most one listener is called for a frame.
LEMMA ListenerCalled ==
  ASSUME StackInv, Callback
  PROVE  \/ /\ delivered' = delivered
            /\ \A s \in 2..Slots : ~IsFound(s)
         \/ \E s \in 2..Slots :
              /\ IsFound(s)
              /\ delivered' = Append(delivered, Event(s))
              /\ Event(s) \in [slot : 2..Slots, n : Nat, buf : Nat]
<1> DEFINE found == {s \in 2..Slots : IsFound(s)}
           called == {[slot |-> s, n |-> hdr.n, buf |-> buf] : s \in found}
<1>1. delivered' = delivered \o SetToSeq(called)
  BY DEF Callback
<1>2. delivered \in Seq([slot : 2..Slots, n : Nat, buf : Nat])
  BY DEF StackInv, TypeOK, HistoryTypes
<1>3. CASE found = {}
  <2>1. called = {}
    BY <1>3
  <2>2. delivered' = delivered
    BY <1>1, <1>2, <2>1, SetToSeqAtMostOne, ConcatEmptySeq
  <2> QED BY <1>3, <2>2
<1>4. CASE found # {}
  <2>1. PICK s \in 2..Slots : IsFound(s)
    BY <1>4
  <2>2. ASSUME NEW r \in 2..Slots, IsFound(r) PROVE r = s
    <3>1. ~(r < s) /\ ~(s < r)
      BY <2>1, <2>2, SlotsAssumption DEF IsFound
    <3> QED BY <3>1, SlotsAssumption
  <2>3. called = {Event(s)}
    BY <2>1, <2>2 DEF Event
  <2>4. SetToSeq(called) = <<Event(s)>>
    BY <2>3, SetToSeqAtMostOne
  <2>5. Event(s) \in [slot : 2..Slots, n : Nat, buf : Nat]
    BY DEF Event, StackInv, TypeOK, MessageTypes, Frame, NoFrame
  <2>6. delivered' = Append(delivered, Event(s))
    BY <1>1, <1>2, <2>4, <2>5, AppendIsConcat
  <2> QED BY <2>1, <2>5, <2>6
<1> QED BY <1>3, <1>4

LEMMA HistoryTypesStep ==
  ASSUME StackInv, [Next]_vars
  PROVE  HistoryTypes'
<1>0. HistoryTypes
  BY DEF StackInv, TypeOK
<1>1. CASE Callback
  <2>1. put' = put
    BY <1>1 DEF Callback
  <2>2. delivered' \in Seq([slot : 2..Slots, n : Nat, buf : Nat])
    <3>1. CASE delivered' = delivered
      BY <1>0, <3>1 DEF HistoryTypes
    <3>2. ASSUME NEW s, delivered' = Append(delivered, Event(s)),
                 Event(s) \in [slot : 2..Slots, n : Nat, buf : Nat]
          PROVE  delivered' \in Seq([slot : 2..Slots, n : Nat, buf : Nat])
      BY <1>0, <3>2, AppendProperties DEF HistoryTypes
    <3> QED BY <1>1, <3>1, <3>2, ListenerCalled
  <2> QED BY <1>0, <2>1, <2>2 DEF HistoryTypes
<1>2. CASE SendHeader \/ SendPayload \/ SendBreaks \/ EnsureRoutingDaemon \/ Connect
           \/ ConnectGivesUp \/ Register \/ Registered \/ SubscribeSent
  BY <1>0, <1>2 DEF HistoryTypes, history, SendHeader, SendPayload, SendBreaks, EnsureRoutingDaemon,
       Connect, ConnectGivesUp, Register, Registered, SubscribeSent, AddListener, SendInternal
<1>3. CASE ReadHeader \/ ReadPayload \/ ReadFails \/ MessageSent \/ Wait \/ Dispatched
  BY <1>0, <1>3 DEF HistoryTypes, history, ReadHeader, ReadPayload, ReadFails, MessageSent, Wait,
       Dispatched, Return, TimedDispatch
<1>4. CASE Calls
  BY <1>0, <1>4 DEF HistoryTypes, history, Calls, CallSendMessage, CallSendRequest,
       CallAddListener, CallDispatch, AddListener, SendInternal
<1>5. CASE Environment \/ UNCHANGED vars
  BY <1>0, <1>5, EnvironmentStep DEF HistoryTypes, history, vars
<1> QED BY <1>1, <1>2, <1>3, <1>4, <1>5 DEF Next, Running

\* What becomes of the listeners: a new one is the next, and a callback may take
\* their ids away.
LEMMA ListenersStep ==
  ASSUME StackInv, [Next]_vars
  PROVE  /\ nextId' \in Nat /\ nextId <= nextId'
         /\ \A s \in 1..Slots : listeners[s].in_use => listeners'[s].in_use
         /\ SlotsInOrder'
<1>0. /\ nextId \in 1..(Slots + 1) /\ SlotsInOrder
      /\ listeners \in [1..Slots -> [in_use : BOOLEAN, id : 0..Slots]]
  BY DEF StackInv, TypeOK, MessageTypes
<1>1. CASE UNCHANGED <<listeners, nextId>>
  BY <1>0, <1>1 DEF SlotsInOrder
<1>2. ASSUME NEW s \in 1..Slots, AddListener(s)
      PROVE  /\ nextId' \in Nat /\ nextId <= nextId'
             /\ \A r \in 1..Slots : listeners[r].in_use => listeners'[r].in_use
             /\ SlotsInOrder'
  <2>1. /\ s = nextId /\ nextId' = nextId + 1 /\ nextId' \in 1..(Slots + 1)
        /\ \A r \in 1..Slots : r # s => listeners'[r] = listeners[r]
        /\ listeners'[s] = [in_use |-> TRUE, id |-> s]
    BY <1>2, NewListener
  <2>2. ASSUME NEW r \in 1..Slots
        PROVE  /\ listeners'[r].in_use <=> r < nextId'
               /\ listeners'[r].in_use => listeners'[r].id \in {0, r}
    BY <1>0, <2>1, SlotsAssumption DEF SlotsInOrder
  <2>3. SlotsInOrder'
    BY <2>2 DEF SlotsInOrder
  <2> QED BY <1>0, <2>1, <2>3
<1>3. CASE Callback
  <2>1. ASSUME NEW s \in 1..Slots
        PROVE  /\ listeners'[s].in_use = listeners[s].in_use
               /\ listeners'[s].id \in {listeners[s].id, 0}
    BY <1>0, <1>3, <2>1 DEF Callback, IdOf
  <2> QED BY <1>0, <1>3, <2>1 DEF Callback, SlotsInOrder
<1>4. CASE Registered
  <2>1. 1 \in 1..Slots
    BY SlotsAssumption
  <2> QED BY <1>1, <1>2, <1>4, <2>1 DEF Registered, Inbox
<1>5. CASE CallAddListener
  BY <1>2, <1>5 DEF CallAddListener
<1>6. CASE \/ SendHeader \/ SendPayload \/ SendBreaks \/ EnsureRoutingDaemon \/ Connect
           \/ ConnectGivesUp \/ Register \/ SubscribeSent
  BY <1>1, <1>6 DEF SendHeader, SendPayload, SendBreaks, EnsureRoutingDaemon, Connect,
       ConnectGivesUp, Register, SubscribeSent
<1>7. CASE \/ ReadHeader \/ ReadPayload \/ ReadFails \/ MessageSent \/ Wait \/ Dispatched
           \/ CallSendMessage \/ CallSendRequest \/ CallDispatch
  BY <1>1, <1>7 DEF ReadHeader, ReadPayload, ReadFails, MessageSent, Wait, Dispatched,
       CallSendMessage, CallSendRequest, CallDispatch
<1>8. CASE Environment \/ UNCHANGED vars
  BY <1>1, <1>8, EnvironmentStep DEF clientVars, vars
<1> QED BY <1>3, <1>4, <1>5, <1>6, <1>7, <1>8 DEF Next, Running, Calls

LEMMA LoopsStep ==
  ASSUME StackInv, [Next]_vars
  PROVE  Loops' /\ LoopSlots'
<1>0. /\ Loops /\ LoopSlots
      /\ \A s \in 1..Slots : listeners[s].in_use => listeners'[s].in_use
      /\ Len(regs) \in Nat /\ \A k \in 1..Len(regs) : regs[k] \in 1..(Slots + 1)
  BY ListenersStep, LoopAtHand DEF StackInv
<1>1. ASSUME regs' = <<>>, pc' \notin {"connect", "register"} PROVE Loops' /\ LoopSlots'
  <2>1. Len(regs') = 0
    BY <1>1
  <2> QED BY <1>1, <2>1 DEF Loops, LoopSlots
<1>2. ASSUME UNCHANGED regs,
             \/ UNCHANGED pc
             \/ pc \in Sends /\ pc' \in Sends
             \/ pc = "connect" /\ pc' = "register"
      PROVE  Loops' /\ LoopSlots'
  <2>1. Loops'
    BY <1>0, <1>2 DEF Loops, Sends
  <2>2. \A k \in 1..Len(regs) :
          k < Len(regs) \/ pc' \in Sends => regs[k] \in 1..Slots /\ listeners'[regs[k]].in_use
    <3>1. TAKE k \in 1..Len(regs)
    <3>2. k < Len(regs) \/ pc' \in Sends => k < Len(regs) \/ pc \in Sends
      BY <1>2 DEF Sends
    <3>3. regs[k] <= Slots => regs[k] \in 1..Slots
      BY <1>0, SlotsAssumption
    <3> QED BY <1>0, <3>2, <3>3 DEF LoopSlots
  <2>3. pc' = "connect" => Last(regs) = 1
    BY <1>0, <1>2 DEF LoopSlots, Sends
  <2> QED BY <1>2, <2>1, <2>2, <2>3 DEF LoopSlots
<1>3. ASSUME regs = <<>>,
             UNCHANGED regs, pc' \notin {"connect", "register"}
      PROVE  Loops' /\ LoopSlots'
  BY <1>1, <1>3
<1>4. ASSUME NEW n \in Nat, n <= Len(regs), Len(regs') = n, regs' # <<>>,
             \A k \in 1..n : k < n => regs'[k] = regs[k],
             \A k \in 1..n : k < n => k < Len(regs) \/ pc \in Sends,
             \/ pc' = "register"
             \/ pc' = "header" /\ regs'[n] \in 1..Slots /\ listeners'[regs'[n]].in_use
      PROVE  Loops' /\ LoopSlots'
  <2>1. ASSUME NEW k \in 1..n, k < n PROVE regs'[k] \in 1..Slots /\ listeners'[regs'[k]].in_use
    <3>1. k \in 1..Len(regs) /\ regs'[k] = regs[k]
      BY <1>0, <1>4, <2>1
    <3>2. regs[k] <= Slots /\ listeners[regs[k]].in_use
      BY <1>0, <1>4, <2>1, <3>1 DEF LoopSlots
    <3>3. regs[k] \in 1..Slots
      BY <1>0, <3>1, <3>2, SlotsAssumption
    <3> QED BY <1>0, <3>1, <3>2, <3>3
  <2>2. Loops' /\ pc' # "connect"
    BY <1>4 DEF Loops
  <2>3. ASSUME NEW k \in 1..n, k < n \/ pc' \in Sends
        PROVE  regs'[k] <= Slots /\ listeners'[regs'[k]].in_use
    <3>1. k < n \/ k = n
      OBVIOUS
    <3> QED BY <1>4, <2>1, <2>3, <3>1, SlotsAssumption DEF Sends
  <2> QED BY <1>4, <2>2, <2>3 DEF LoopSlots
<1>5. CASE SendHeader \/ SendPayload \/ SendBreaks
  BY <1>2, <1>5 DEF SendHeader, SendPayload, SendBreaks, Attempted, Sends
<1>6. CASE EnsureRoutingDaemon
  <2>1. /\ regs' # <<>> /\ Len(regs') = Len(regs) + 1
        /\ \A k \in 1..Len(regs) : regs'[k] = regs[k]
        /\ Last(regs') = 1
    BY <1>6, InnerLoop DEF EnsureRoutingDaemon
  <2>2. pc = "ensure" /\ pc' = "connect"
    BY <1>6 DEF EnsureRoutingDaemon
  <2>3. ASSUME NEW k \in 1..Len(regs), k < Len(regs') PROVE regs'[k] <= Slots /\ listeners'[regs'[k]].in_use
    <3>1. regs[k] <= Slots /\ listeners[regs[k]].in_use
      BY <1>0, <2>2 DEF LoopSlots, Sends
    <3>2. regs[k] \in 1..Slots
      BY <1>0, <3>1, SlotsAssumption
    <3> QED BY <1>0, <2>1, <3>1, <3>2
  <2>4. \A k \in 1..Len(regs') : k < Len(regs') => k \in 1..Len(regs)
    BY <1>0, <2>1
  <2> QED BY <2>1, <2>2, <2>3, <2>4 DEF Loops, LoopSlots, Sends
<1>7. CASE Connect \/ ConnectGivesUp
  BY <1>2, <1>7 DEF Connect, ConnectGivesUp
<1>8. CASE Register
  <2>1. regs # <<>> /\ pc = "register" /\ pc' = "header" /\ UNCHANGED listeners
    BY <1>0, <1>8 DEF Register, Loops
  <2>2. PICK s \in Last(regs)..Slots : listeners[s].in_use /\ regs' = Append(Front(regs), s)
    BY <1>8 DEF Register
  <2>3. s \in 1..Slots
    BY <2>1, LoopAtHand, SlotsAssumption
  <2>4. /\ regs' # <<>> /\ Len(regs') = Len(regs)
        /\ \A k \in 1..Len(regs) : k < Len(regs) => regs'[k] = regs[k]
        /\ Last(regs') = s
    BY <2>1, <2>2, <2>3, FoundLoop
  <2>5. regs'[Len(regs)] = s
    BY <2>4 DEF Last
  <2>6. regs'[Len(regs)] \in 1..Slots /\ listeners'[regs'[Len(regs)]].in_use
    BY <2>1, <2>2, <2>3, <2>5
  <2>7. \A k \in 1..Len(regs) : k < Len(regs) => k < Len(regs) \/ pc \in Sends
    OBVIOUS
  <2>8. Len(regs) \in Nat /\ Len(regs) <= Len(regs)
    BY <1>0
  <2> QED BY <1>4, <2>1, <2>4, <2>6, <2>7, <2>8
<1>9. CASE Registered
  <2>1. CASE Len(regs) > 1
    <3>1. /\ regs' # <<>> /\ Len(regs') = Len(regs) - 1
          /\ \A k \in 1..Len(regs) - 1 : k < Len(regs) - 1 => regs'[k] = regs[k]
      BY <1>9, <2>1, OuterLoop DEF Registered
    <3>2. pc' = "register"
      BY <1>9, <2>1 DEF Registered
    <3>3. Len(regs) - 1 \in Nat /\ Len(regs) - 1 <= Len(regs)
          /\ \A k \in 1..Len(regs) - 1 : k < Len(regs)
      BY <1>0, <2>1
    <3> QED BY <1>4, <3>1, <3>2, <3>3
  <2>2. CASE ~(Len(regs) > 1)
    BY <1>1, <1>9, <2>2 DEF Registered, AddListener, SendInternal
  <2> QED BY <2>1, <2>2
<1>10. CASE SubscribeSent
  <2>1. regs # <<>> /\ pc \in Sends /\ pc' = "register" /\ regs' = NextListener(regs)
    BY <1>10 DEF SubscribeSent, Sends
  <2>2. /\ regs' # <<>> /\ Len(regs') = Len(regs)
        /\ \A k \in 1..Len(regs) : k < Len(regs) => regs'[k] = regs[k]
    BY <2>1, NextLoop
  <2> QED BY <1>0, <1>4, <2>1, <2>2
<1>11. CASE ReadHeader \/ ReadPayload \/ ReadFails \/ Callback
  BY <1>0, <1>3, <1>11 DEF ReadHeader, ReadPayload, ReadFails, Callback, Loops
<1>12. CASE MessageSent \/ Wait \/ Dispatched
  BY <1>0, <1>3, <1>12 DEF MessageSent, Wait, Dispatched, Return, TimedDispatch, Loops
<1>13. CASE Calls
  BY <1>0, <1>3, <1>13 DEF Calls, CallSendMessage, CallSendRequest, CallAddListener, CallDispatch,
       AddListener, SendInternal, TimedDispatch, Loops
<1>14. CASE Environment \/ UNCHANGED vars
  BY <1>2, <1>14, EnvironmentStep DEF clientVars, vars
<1> QED BY <1>5, <1>6, <1>7, <1>8, <1>9, <1>10, <1>11, <1>12, <1>13, <1>14 DEF Next, Running

LEMMA StackInvariant == Spec => []StackInv
<1>1. Init => StackInv
  <2>1. SUFFICES ASSUME Init PROVE StackInv
    OBVIOUS
  <2>2. regs = <<1>> /\ regs \in Seq(1..(Slots + 1)) /\ Len(regs) = 1
    BY <2>1, SlotsAssumption DEF Init
  <2>3. ThreadTypes
    BY <2>1, <2>2 DEF Init, ThreadTypes
  <2>4. MessageTypes
    <3>1. 0 \in 0..MaxSeq /\ 1 \in 1..(MaxSeq + 1) /\ 1 \in 1..(Slots + 1) /\ 0 \in 0..Slots
      BY SlotsAssumption, BoundsAssumption
    <3> QED BY <2>1, <3>1 DEF Init, MessageTypes, Free
  <2>5. NetTypes
    <3>1. 0 \in 0..MaxCrash /\ 0 \in 0..MaxEvents
      BY BoundsAssumption
    <3>2. /\ rx \in Seq([part : {"header", "payload"}, frame : Frame])
          /\ table \in Seq((1..Slots) \X (0..Slots))
      BY <2>1, EmptySeq DEF Init
    <3> QED BY <2>1, <3>1, <3>2 DEF Init, NetTypes
  <2>6. HistoryTypes
    BY <2>1, EmptySeq DEF Init, HistoryTypes
  <2>7. Loops /\ LoopSlots
    BY <2>1, <2>2 DEF Init, Loops, LoopSlots, Sends, Last
  <2>8. SlotsInOrder
    BY <2>1 DEF Init, SlotsInOrder, Free
  <2> QED BY <2>3, <2>4, <2>5, <2>6, <2>7, <2>8 DEF StackInv, TypeOK
<1>2. StackInv /\ [Next]_vars => StackInv'
  BY ThreadTypesStep, MessageTypesStep, NetTypesStep, HistoryTypesStep, ListenersStep, LoopsStep
     DEF StackInv, TypeOK
<1> QED BY <1>1, <1>2, PTL DEF Spec

\* The variables of the connection have their types, whatever breaks and however
\* deep registrations nest: regs never holds a slot that a loop would read past
\* the end of listeners, and there is a slot for every id.
THEOREM ConnectionTypes == Spec => []TypeOK
<1>1. StackInv => TypeOK
  BY DEF StackInv
<1> QED BY <1>1, StackInvariant, PTL

-----------------------------------------------------------------------------
(* Whole frames.  While no signal interrupts a send, an attempt that fails     *)
(* leaves a socket behind that takes no more, so that a header that is sent     *)
(* again never follows the header it repeats.                                  *)

HalfSent ==
  /\ ~garbled
  /\ sock = "open" => (half <=> pc = "payload")
  /\ sock = "open" /\ pc \in {"header", "payload"} => err = "OK"

LEMMA HalfSentStep ==
  ASSUME ~Signals, TypeOK, HalfSent, [Next]_vars
  PROVE  HalfSent'
<1>0. half \in BOOLEAN
  BY DEF TypeOK, NetTypes
<1>1. ASSUME UNCHANGED <<sock, half, garbled>>, pc # "payload", pc' # "payload",
             pc' = "header" => err' = "OK"
      PROVE  HalfSent'
  BY <1>1 DEF HalfSent
<1>2. ASSUME UNCHANGED <<pc, err, half, garbled>>, sock' = "open" => sock = "open"
      PROVE  HalfSent'
  BY <1>2 DEF HalfSent
<1>3. CASE SendHeader
  <2>1. CASE sock = "open"
    BY <1>3, <2>1 DEF SendHeader, HalfSent
  <2>2. CASE sock # "open"
    BY <1>3, <2>2 DEF SendHeader, HalfSent
  <2> QED BY <2>1, <2>2
<1>4. CASE SendPayload
  BY <1>4 DEF SendPayload, Attempted, HalfSent
<1>5. CASE SendBreaks
  <2>1. sock' # "open" /\ UNCHANGED garbled
    BY <1>5 DEF SendBreaks, SendFails
  <2> QED BY <2>1 DEF HalfSent
<1>6. CASE Connect \/ ConnectGivesUp
  BY <1>6 DEF Connect, ConnectGivesUp, HalfSent
<1>7. CASE EnsureRoutingDaemon \/ Register \/ SubscribeSent
  BY <1>1, <1>7 DEF EnsureRoutingDaemon, Register, SubscribeSent, netVars
<1>8. CASE Registered
  BY <1>1, <1>8 DEF Registered, AddListener, SendInternal, netVars
<1>9. CASE ReadHeader \/ ReadPayload \/ Callback
  BY <1>1, <1>9 DEF ReadHeader, ReadPayload, Callback, netVars
<1>10. CASE ReadFails
  BY <1>10 DEF ReadFails, HalfSent
<1>11. CASE MessageSent \/ Wait \/ Dispatched
  BY <1>1, <1>11 DEF MessageSent, Wait, Dispatched, Return, TimedDispatch, netVars
<1>12. CASE Calls
  BY <1>1, <1>12 DEF Calls, CallSendMessage, CallSendRequest, CallAddListener, CallDispatch,
       AddListener, SendInternal, TimedDispatch, netVars
<1>13. CASE Environment
  <2>1. UNCHANGED <<pc, err>>
    BY <1>13, EnvironmentStep DEF clientVars
  <2>2. UNCHANGED <<half, garbled>> /\ (sock' = "open" => sock = "open")
    BY <1>13 DEF Environment, RouterCrashes, RouterStarted, RouterListens, SocketReset,
         ProviderAnswers, ProviderDies, Publish
  <2> QED BY <1>2, <2>1, <2>2
<1>14. CASE UNCHANGED vars
  BY <1>2, <1>14 DEF vars
<1> QED BY <1>3, <1>4, <1>5, <1>6, <1>7, <1>8, <1>9, <1>10, <1>11, <1>12, <1>13, <1>14
       DEF Next, Running

LEMMA HalfSentInvariant ==
  ASSUME ~Signals
  PROVE  Spec => []HalfSent
<1>1. Init => HalfSent
  BY DEF Init, HalfSent
<1>2. TypeOK /\ HalfSent /\ [Next]_vars => HalfSent'
  BY HalfSentStep
<1> QED BY <1>1, <1>2, ConnectionTypes, PTL DEF Spec

\* Unless signals interrupt it, the client sends the router whole frames: however
\* often the router crashes, and whatever SendInternal retries.
THEOREM FramesWholeInvariant ==
  ASSUME ~Signals
  PROVE  Spec => []FramesWhole
<1>1. HalfSent => FramesWhole
  BY DEF HalfSent, FramesWhole
<1> QED BY <1>1, HalfSentInvariant, PTL

-----------------------------------------------------------------------------
(* Registration.  A loop over the listeners has registered the slots that it   *)
(* has passed, on the connection that is open: it was opened when the innermost *)
(* loop began, and when that loop ends all listeners have a route, also those   *)
(* that the outer loops have yet to come to.                                    *)

HasRoute(s) == \E k \in 1..Len(table) : table[k] = <<s, listeners[s].id>>

\* The listeners whose subscriptions are still to be sent.
Awaited(s) ==
  \/ pc \in {"connect", "register"} /\ s >= Last(regs)
  \/ pc \in {"header", "payload"} /\ regs # <<>> /\ s >= Last(regs)
  \/ pc = "sent" /\ regs # <<>> /\ s > Last(regs)
  \/ pc \in {"header", "payload"} /\ regs = <<>> /\ msg.topic = "SUBSCRIBE" /\ s = msg.slot

RoutedOrAwaited ==
  sock = "open" =>
    /\ pc \notin {"ensure", "connect"}
    /\ \A s \in 1..Slots : listeners[s].in_use => HasRoute(s) \/ Awaited(s)

\* While every request finds a provider, no listener loses its id.
NoNoRoute ==
  /\ \A k \in 1..Len(rx) : rx[k].frame.kind # "noroute"
  /\ hdr.kind # "noroute"

LEMMA NoNoRouteStep ==
  ASSUME FALSE \notin Served, StackInv, NoNoRoute, [Next]_vars
  PROVE  NoNoRoute'
<1>0. /\ NetTypes /\ Len(rx) \in Nat
      /\ \A k \in 1..Len(rx) : rx[k].frame.kind # "noroute"
  BY LenProperties DEF StackInv, TypeOK, NetTypes, NoNoRoute
<1>1. ASSUME UNCHANGED hdr \/ hdr' = NoFrame, UNCHANGED rx \/ rx' = <<>>
      PROVE  NoNoRoute'
  BY <1>1 DEF NoNoRoute, NoFrame
<1>2. ASSUME UNCHANGED hdr, NEW slot, NEW kind \in {"response", "event"}, NEW n \in Nat,
             rx' = rx \o Forwarded(slot, kind, n)
      PROVE  NoNoRoute'
  <2> DEFINE t == Forwarded(slot, kind, n)
  <2>0. t \in Seq([part : {"header", "payload"}, frame : {f \in Frame : f.kind = kind}])
    BY <1>0, ForwardedType
  <2> HIDE DEF t
  <2>1. /\ Len(rx \o t) = Len(rx) + Len(t)
        /\ \A k \in 1..Len(t) : t[k].frame.kind = kind
        /\ Len(t) \in Nat
        /\ \A k \in 1..Len(rx) + Len(t) :
             (rx \o t)[k] = IF k <= Len(rx) THEN rx[k] ELSE t[k - Len(rx)]
    BY <1>0, <2>0, ExtendedStream, SMTT(30)
  <2>2. ASSUME NEW k \in 1..Len(rx) + Len(t) PROVE (rx \o t)[k].frame.kind # "noroute"
    <3>1. CASE k <= Len(rx)
      BY <1>0, <2>1, <3>1
    <3>2. CASE ~(k <= Len(rx))
      <4>1. k - Len(rx) \in 1..Len(t)
        BY <1>0, <2>1, <3>2
      <4> QED BY <1>2, <2>1, <3>2, <4>1
    <3> QED BY <3>1, <3>2
  <2> QED BY <1>2, <2>1, <2>2 DEF NoNoRoute, t
<1>3. CASE SendPayload
  <2>1. Handled(Sending) => UNCHANGED rx
    BY <1>3, HandledKinds DEF SendPayload, Sends
  <2> QED BY <1>1, <1>3, <2>1 DEF SendPayload
<1>4. CASE ReadHeader \/ ReadPayload
  <2>1. /\ rx' = Tail(rx) /\ rx # <<>> /\ (hdr' = Head(rx).frame \/ UNCHANGED hdr)
    BY <1>4 DEF ReadHeader, ReadPayload
  <2>2. /\ Head(rx) = rx[1] /\ 1 \in 1..Len(rx) /\ Len(Tail(rx)) = Len(rx) - 1
        /\ \A k \in 1..Len(rx) - 1 : Tail(rx)[k] = rx[k + 1]
    BY <1>0, <2>1, NextChunk
  <2>3. \A k \in 1..Len(rx) - 1 : k + 1 \in 1..Len(rx)
    BY <1>0
  <2> QED BY <2>1, <2>2, <2>3 DEF NoNoRoute
<1>5. CASE RouterCrashes
  <2>1. UNCHANGED hdr
    BY <1>5 DEF RouterCrashes, clientVars
  <2>2. ASSUME NEW k \in 0..Len(rx), rx' = SubSeq(rx, 1, k)
        PROVE  NoNoRoute'
    <3>1. rx \in Seq(Chunk)
      BY <1>0 DEF NetTypes, Chunk
    <3>2. \A j \in 1..k : rx[j] \in Chunk
      BY <1>0, <3>1, ElementOfSeq
    <3>3. k \in Int /\ 1 \in Int /\ k - 1 + 1 = k /\ (IF 1 <= k THEN k - 1 + 1 ELSE 0) = k
      BY <1>0
    <3>4. Len(rx') = k /\ \A j \in 1..k : rx'[j] = rx[1 + j - 1] /\ 1 + j - 1 = j /\ j \in 1..Len(rx)
      BY <1>0, <2>2, <3>2, <3>3, SubSeqProperties
    <3> QED BY <2>1, <3>4 DEF NoNoRoute
  <2> QED BY <1>1, <1>5, <2>1, <2>2 DEF RouterCrashes
<1>6. CASE ProviderAnswers
  <2>1. PICK q \in asked : rx' = rx \o Forwarded(Inbox, "response", q)
    BY <1>6 DEF ProviderAnswers
  <2>2. q \in Nat
    BY <1>0, BoundsAssumption DEF NetTypes
  <2> QED BY <1>2, <1>6, <2>1, <2>2 DEF ProviderAnswers, clientVars
<1>7. CASE Publish
  <2>1. PICK slot \in 2..Slots : rx' = rx \o Forwarded(slot, "event", events + 1)
    BY <1>7 DEF Publish
  <2>2. events + 1 \in Nat
    BY <1>0, BoundsAssumption DEF NetTypes
  <2> QED BY <1>2, <1>7, <2>1, <2>2 DEF Publish, clientVars
<1>8. CASE \/ SendHeader \/ SendBreaks \/ EnsureRoutingDaemon \/ Connect \/ ConnectGivesUp \/ Register
           \/ Registered \/ SubscribeSent \/ ReadFails \/ Callback
  BY <1>1, <1>8 DEF SendHeader, SendBreaks, EnsureRoutingDaemon, Connect, ConnectGivesUp, Register,
       Registered, SubscribeSent, ReadFails, Callback, netVars
<1>9. CASE MessageSent \/ Wait \/ Dispatched \/ Calls
  BY <1>1, <1>9 DEF MessageSent, Wait, Dispatched, Return, TimedDispatch, Calls, CallSendMessage,
       CallSendRequest, CallAddListener, CallDispatch, netVars
<1>10. CASE RouterStarted \/ RouterListens \/ SocketReset \/ ProviderDies \/ UNCHANGED vars
  BY <1>1, <1>10 DEF RouterStarted, RouterListens, SocketReset, ProviderDies, clientVars, vars
<1> QED BY <1>3, <1>4, <1>5, <1>6, <1>7, <1>8, <1>9, <1>10 DEF Next, Running, Environment

LEMMA NoNoRouteInvariant ==
  ASSUME FALSE \notin Served
  PROVE  Spec => []NoNoRoute
<1>1. Init => NoNoRoute
  BY DEF Init, NoNoRoute, NoFrame
<1>2. StackInv /\ NoNoRoute /\ [Next]_vars => NoNoRoute'
  BY NoNoRouteStep
<1> QED BY <1>1, <1>2, StackInvariant, PTL DEF Spec

LEMMA RoutedStep ==
  ASSUME ~Signals, StackInv, HalfSent, NoNoRoute, RoutedOrAwaited, [Next]_vars
  PROVE  RoutedOrAwaited'
<1>0. /\ regs # <<>> => Last(regs) \in 1..(Slots + 1)
      /\ listeners \in [1..Slots -> [in_use : BOOLEAN, id : 0..Slots]]
      /\ table \in Seq((1..Slots) \X (0..Slots)) /\ Len(table) \in Nat
  BY LoopAtHand, LenProperties DEF StackInv, TypeOK, MessageTypes, NetTypes
<1>1. ASSUME UNCHANGED <<listeners, table>>,
             sock' = "open" => sock = "open" /\ pc' \notin {"ensure", "connect"},
             \A s \in 1..Slots : listeners[s].in_use /\ Awaited(s) => Awaited(s)'
      PROVE  RoutedOrAwaited'
  BY <1>1 DEF RoutedOrAwaited, HasRoute
<1>2. ASSUME sock' # "open" PROVE RoutedOrAwaited'
  BY <1>2 DEF RoutedOrAwaited
<1>3. ASSUME UNCHANGED <<listeners, table, sock>>, pc' \notin {"ensure", "connect"},
             pc \in {"idle", "read", "readPayload", "callback", "dispatched", "wait"}
                \/ (pc = "sent" /\ regs = <<>>)
      PROVE  RoutedOrAwaited'
  <2>1. \A s \in 1..Slots : ~Awaited(s)
    BY <1>3 DEF Awaited
  <2> QED BY <1>1, <1>3, <2>1
<1>4. ASSUME NEW s \in 1..Slots, AddListener(s), UNCHANGED <<table, sock, regs>> \/
               (UNCHANGED <<table, sock>> /\ regs' = <<>>),
             regs' = <<>>, sock = "open",
             \A r \in 1..Slots : listeners[r].in_use => HasRoute(r)
      PROVE  RoutedOrAwaited'
  <2>1. /\ \A r \in 1..Slots : r # s => listeners'[r] = listeners[r]
        /\ pc' = "header" /\ msg' = Subscribe(s) /\ UNCHANGED table
    BY <1>4, NewListener DEF AddListener, SendInternal
  <2>2. Awaited(s)'
    BY <1>4, <2>1 DEF Awaited, Subscribe
  <2>3. \A r \in 1..Slots : r # s /\ listeners'[r].in_use => HasRoute(r)'
    BY <1>4, <2>1 DEF HasRoute
  <2> QED BY <2>1, <2>2, <2>3 DEF RoutedOrAwaited
<1>5. CASE SendHeader
  <2>1. CASE sock = "open"
    <3>1. err = "OK" /\ pc = "header" /\ pc' = "payload" /\ UNCHANGED <<regs, msg, listeners, table, sock>>
      BY <1>5, <2>1 DEF SendHeader, HalfSent
    <3> QED BY <1>1, <2>1, <3>1 DEF Awaited
  <2>2. CASE sock # "open"
    BY <1>2, <1>5, <2>2 DEF SendHeader
  <2> QED BY <2>1, <2>2
<1>6. CASE SendPayload
  <2>1. CASE sock = "open"
    <3>1. /\ pc = "payload" /\ pc' = "sent" /\ Handled(Sending)
          /\ UNCHANGED <<regs, msg, listeners, sock>>
      BY <1>6, <2>1 DEF SendPayload, Attempted, HalfSent
    <3>2. ASSUME NEW slot \in 1..Slots, table' = Append(table, <<slot, listeners[slot].id>>)
          PROVE  HasRoute(slot)' /\ \A s \in 1..Slots : HasRoute(s) => HasRoute(s)'
      <4>1. table' = Append(table, <<slot, listeners[slot].id>>)
        BY <3>2
      <4>2. <<slot, listeners[slot].id>> \in (1..Slots) \X (0..Slots)
        BY <1>0
      <4>3. /\ Len(table') = Len(table) + 1
            /\ \A k \in 1..Len(table) : table'[k] = table[k]
            /\ table'[Len(table) + 1] = <<slot, listeners[slot].id>>
        BY <1>0, <4>1, <4>2, AppendProperties
      <4>4. \A k \in 1..Len(table) : k \in 1..Len(table')
        BY <1>0, <4>3
      <4>5. Len(table) + 1 \in 1..Len(table')
        BY <1>0, <4>3
      <4> QED BY <3>1, <4>3, <4>4, <4>5 DEF HasRoute
    <3>3. ASSUME NEW slot \in 1..Slots,
                 table' = Append(table, <<slot, listeners[slot].id>>),
                 IF regs = <<>> THEN msg = Subscribe(slot) ELSE slot = Last(regs)
          PROVE  RoutedOrAwaited'
      <4>1. HasRoute(slot)' /\ \A s \in 1..Slots : HasRoute(s) => HasRoute(s)'
        BY <3>2, <3>3
      <4>2. ASSUME NEW s \in 1..Slots, Awaited(s), s # slot PROVE Awaited(s)'
        <5>1. CASE regs # <<>>
          <6>1. s >= Last(regs) /\ slot = Last(regs)
            BY <3>1, <3>3, <4>2, <5>1 DEF Awaited
          <6>2. s > Last(regs)
            BY <4>2, <6>1
          <6> QED BY <3>1, <5>1, <6>2 DEF Awaited
        <5>2. CASE regs = <<>>
          BY <3>1, <3>3, <4>2, <5>2 DEF Awaited, Subscribe
        <5> QED BY <5>1, <5>2
      <4> QED BY <2>1, <3>1, <4>1, <4>2 DEF RoutedOrAwaited
    <3>4. ASSUME regs = <<>>, msg.topic # "SUBSCRIBE", UNCHANGED table
          PROVE  RoutedOrAwaited'
      <4>1. \A s \in 1..Slots : ~Awaited(s)
        BY <3>1, <3>4 DEF Awaited
      <4> QED BY <1>1, <2>1, <3>1, <3>4, <4>1
    <3>5. pc \in Sends /\ \A n : Plain(n).topic # "SUBSCRIBE" /\ Request(n).topic # "SUBSCRIBE"
      BY <3>1 DEF Sends, Plain, Request
    <3> QED BY <3>1, <3>3, <3>4, <3>5, HandledKinds
  <2>2. CASE sock # "open"
    BY <1>2, <1>6, <2>2 DEF SendPayload
  <2> QED BY <2>1, <2>2
<1>7. CASE SendBreaks
  BY <1>2, <1>7 DEF SendBreaks, SendFails
<1>8. CASE EnsureRoutingDaemon
  BY <1>2, <1>8 DEF EnsureRoutingDaemon, RoutedOrAwaited
<1>9. CASE Connect
  <2>1. pc' = "register" /\ Last(regs') = 1
    BY <1>9 DEF Connect, StackInv, LoopSlots
  <2>2. \A s \in 1..Slots : Awaited(s)'
    BY <2>1 DEF Awaited
  <2> QED BY <2>1, <2>2 DEF RoutedOrAwaited
<1>10. CASE ConnectGivesUp
  BY <1>2, <1>10 DEF ConnectGivesUp
<1>11. CASE Register
  <2>1. regs # <<>> /\ pc = "register" /\ pc' = "header" /\ UNCHANGED <<listeners, table, sock>>
    BY <1>11 DEF Register, netVars, StackInv, Loops
  <2>2. PICK t \in Last(regs)..Slots :
          /\ \A r \in Last(regs)..(t - 1) : ~listeners[r].in_use
          /\ regs' = Append(Front(regs), t)
    BY <1>11 DEF Register
  <2>3. t \in 1..Slots
    BY <1>0, <2>1, SlotsAssumption
  <2>4. regs' # <<>> /\ Last(regs') = t
    BY <2>1, <2>2, <2>3, FoundLoop
  <2>5. ASSUME NEW s \in 1..Slots, listeners[s].in_use, Awaited(s) PROVE Awaited(s)'
    <3>1. s >= Last(regs)
      BY <2>1, <2>5 DEF Awaited
    <3>2. s >= t
      BY <1>0, <2>1, <2>2, <2>3, <2>5, <3>1, SlotsAssumption
    <3> QED BY <2>1, <2>4, <3>2 DEF Awaited
  <2> QED BY <1>1, <2>1, <2>5
<1>12. CASE Registered
  <2>1. pc = "register" /\ UNCHANGED <<sock, table>> /\ regs # <<>>
        /\ \A s \in Last(regs)..Slots : ~listeners[s].in_use
    BY <1>12 DEF Registered, netVars, StackInv, Loops
  <2>2. SUFFICES ASSUME sock = "open" PROVE RoutedOrAwaited'
    BY <1>2, <2>1
  <2>3. ASSUME NEW s \in 1..Slots, listeners[s].in_use PROVE HasRoute(s)
    <3>1. ~(s >= Last(regs))
      BY <1>0, <2>1, <2>3, SlotsAssumption
    <3>2. ~Awaited(s)
      BY <2>1, <3>1 DEF Awaited
    <3> QED BY <2>2, <2>3, <3>2 DEF RoutedOrAwaited
  <2>4. CASE UNCHANGED listeners /\ pc' \notin {"ensure", "connect"}
    <3>1. \A s \in 1..Slots : listeners'[s].in_use => HasRoute(s)'
      BY <2>1, <2>3, <2>4 DEF HasRoute
    <3> QED BY <2>4, <3>1 DEF RoutedOrAwaited
  <2>5. CASE AddListener(Inbox) /\ regs' = <<>>
    <3>1. 1 \in 1..Slots
      BY SlotsAssumption
    <3> QED BY <1>4, <2>1, <2>2, <2>3, <2>5, <3>1 DEF Inbox
  <2> QED BY <1>12, <2>1, <2>4, <2>5 DEF Registered
<1>13. CASE SubscribeSent
  <2>1. /\ pc = "sent" /\ pc' = "register" /\ regs # <<>> /\ regs' = NextListener(regs)
        /\ UNCHANGED <<listeners, table, sock>>
    BY <1>13 DEF SubscribeSent, netVars
  <2>2. Last(regs') = Last(regs) + 1
    BY <2>1, NextLoop DEF Sends
  <2>3. ASSUME NEW s \in 1..Slots, Awaited(s) PROVE Awaited(s)'
    <3>1. s > Last(regs)
      BY <2>1, <2>3 DEF Awaited
    <3>2. s >= Last(regs')
      BY <1>0, <2>1, <2>2, <3>1
    <3> QED BY <2>1, <3>2 DEF Awaited
  <2> QED BY <1>1, <2>1, <2>3
<1>14. CASE ReadHeader \/ ReadPayload
  BY <1>3, <1>14 DEF ReadHeader, ReadPayload
<1>15. CASE Callback
  <2>1. \A s \in 1..Slots : IdOf(s) = listeners[s].id
    BY DEF IdOf, NoNoRoute
  <2>2. UNCHANGED listeners
    BY <1>0, <1>15, <2>1 DEF Callback
  <2> QED BY <1>3, <1>15, <2>2 DEF Callback, netVars
<1>16. CASE ReadFails
  BY <1>2, <1>16 DEF ReadFails
<1>17. CASE MessageSent \/ Wait \/ Dispatched
  BY <1>3, <1>17 DEF MessageSent, Wait, Dispatched, Return, TimedDispatch, netVars
<1>18. CASE CallSendMessage \/ CallSendRequest \/ CallDispatch
  BY <1>3, <1>18 DEF CallSendMessage, CallSendRequest, CallDispatch, SendInternal, TimedDispatch, netVars
<1>19. CASE CallAddListener
  <2>1. pc = "idle" /\ regs = <<>> /\ UNCHANGED <<table, sock, regs>>
    BY <1>19 DEF CallAddListener, netVars, StackInv, Loops
  <2>2. SUFFICES ASSUME sock = "open" PROVE RoutedOrAwaited'
    BY <1>2, <2>1
  <2>3. \A s \in 1..Slots : listeners[s].in_use => HasRoute(s)
    BY <2>1, <2>2 DEF RoutedOrAwaited, Awaited
  <2> QED BY <1>4, <1>19, <2>1, <2>2, <2>3 DEF CallAddListener
<1>20. CASE RouterCrashes \/ SocketReset
  BY <1>2, <1>20 DEF RouterCrashes, SocketReset
<1>21. CASE RouterStarted \/ RouterListens \/ ProviderAnswers \/ ProviderDies \/ Publish \/ UNCHANGED vars
  <2>1. UNCHANGED <<pc, regs, msg, listeners, table, sock>>
    BY <1>21 DEF RouterStarted, RouterListens, ProviderAnswers, ProviderDies, Publish, clientVars, vars
  <2> QED BY <2>1 DEF RoutedOrAwaited, HasRoute, Awaited
<1> QED BY <1>5, <1>6, <1>7, <1>8, <1>9, <1>10, <1>11, <1>12, <1>13, <1>14, <1>15, <1>16, <1>17,
       <1>18, <1>19, <1>20, <1>21 DEF Next, Running, Calls, Environment

\* Whenever the application is not in the middle of a send, an open connection has
\* a route for every listener under its id, however often the router crashed,
\* also during a registration or the registrations nested in it: unless a signal
\* cuts a subscription short or a no-route answer takes the ids away.
THEOREM ListenersRegisteredInvariant ==
  ASSUME ~Signals, FALSE \notin Served
  PROVE  Spec => []ListenersRegistered
<1>1. Init => RoutedOrAwaited
  BY DEF Init, RoutedOrAwaited
<1>2. StackInv /\ HalfSent /\ NoNoRoute /\ RoutedOrAwaited /\ [Next]_vars => RoutedOrAwaited'
  BY RoutedStep
<1>3. RoutedOrAwaited => ListenersRegistered
  BY DEF RoutedOrAwaited, ListenersRegistered, Awaited, HasRoute
<1> QED BY <1>1, <1>2, <1>3, StackInvariant, HalfSentInvariant, NoNoRouteInvariant, PTL DEF Spec

-----------------------------------------------------------------------------
(* A router that does not crash.  The connection that rtConnection_Create       *)
(* opens, at whatever depth of registrations, is kept: only Create waits for the *)
(* router to listen, with the inbox as the only listener.                        *)

Steady ==
  /\ sock \in {"none", "unconnected", "open"}
  /\ sock = "none" => pc = "connect"
  /\ sock = "open" => pc \notin {"ensure", "connect"}
  /\ sock # "open" =>
       /\ call = "create" /\ pc \in {"connect", "register", "header", "ensure"}
       /\ \A k \in 1..Len(regs) : regs[k] = 1
  /\ sock = "open" /\ pc \in {"header", "payload"} => err # "EPIPE"
  /\ regs # <<>> => call = "create"
  /\ call = "create" => base # "dispatch" /\ nextId <= 2
  /\ call = "create" /\ base = "send" => nextId = 2
  /\ pc = "idle" <=> call = "none"
  /\ pc \in {"read", "readPayload", "callback", "dispatched", "wait"} =>
       call \in {"request", "dispatch"}

\* Until Create has returned only slot 1 is in use.
LEMMA OneListener ==
  ASSUME StackInv, Steady, call = "create"
  PROVE  /\ \A s \in 1..Slots : listeners[s].in_use => s = 1 /\ nextId = 2
         /\ \A k \in 1..Len(regs) : k < Len(regs) \/ pc \in Sends => regs[k] = 1
<1>1. nextId \in Nat /\ nextId <= 2
  BY DEF StackInv, TypeOK, MessageTypes, Steady
<1>2. \A s \in 1..Slots : listeners[s].in_use => s = 1 /\ nextId = 2
  BY <1>1, SlotsAssumption DEF StackInv, SlotsInOrder
<1>3. ASSUME NEW k \in 1..Len(regs), k < Len(regs) \/ pc \in Sends PROVE regs[k] = 1
  <2>1. regs[k] \in 1..Slots /\ listeners[regs[k]].in_use
    BY <1>3, LoopAtHand, SlotsAssumption DEF StackInv, LoopSlots
  <2> QED BY <1>2, <2>1
<1> QED BY <1>2, <1>3

\* While there is no connection, nothing of a registration succeeds.
LEMMA NotYetConnected ==
  ASSUME StackInv, Steady, sock # "open", Registered
  PROVE  AddListener(Inbox) /\ regs' = <<>> /\ UNCHANGED call
<1>1. /\ pc = "register" /\ regs # <<>> /\ call = "create"
      /\ \A k \in 1..Len(regs) : regs[k] = 1
      /\ \A s \in Last(regs)..Slots : ~listeners[s].in_use
  BY DEF Registered, StackInv, Loops, Steady
<1>2. Last(regs) = 1 /\ ~listeners[1].in_use /\ 1 \in 1..Slots
  BY <1>1, LoopAtHand, SlotsAssumption
<1>3. ~(Len(regs) > 1)
  <2>1. SUFFICES ASSUME Len(regs) > 1 PROVE FALSE
    OBVIOUS
  <2>2. 1 \in 1..Len(regs) /\ 1 < Len(regs)
    BY <2>1, LoopAtHand
  <2>3. listeners[1].in_use
    BY <1>1, <2>2 DEF StackInv, LoopSlots
  <2> QED BY <1>2, <2>3
<1>4. base = "none"
  <2>1. base \in {"none", "send"} /\ nextId \in Nat
    BY <1>1 DEF StackInv, TypeOK, ThreadTypes, MessageTypes, Steady
  <2>2. base = "send" => listeners[1].in_use
    BY <1>1, <1>2 DEF Steady, StackInv, SlotsInOrder
  <2> QED BY <1>2, <2>1, <2>2
<1> QED BY <1>3, <1>4 DEF Registered

LEMMA NoCrash ==
  ASSUME MaxCrash = 0, TypeOK
  PROVE  ~RouterCrashes
BY DEF TypeOK, NetTypes, RouterCrashes

LEMMA SteadyStep ==
  ASSUME MaxCrash = 0, StackInv, Steady, [Next]_vars
  PROVE  Steady'
<1>0. /\ err \in {"OK", "EPIPE", "ECONNRESET", "EINTR"}
      /\ nextId \in Nat /\ Len(regs) \in Nat
  BY LoopAtHand DEF StackInv, TypeOK, ThreadTypes, MessageTypes
<1>1. CASE SendHeader
  <2>1. pc = "header" /\ sock = "open" /\ UNCHANGED <<sock, call, regs, base, nextId>>
    BY <1>1 DEF SendHeader, Steady
  <2>2. /\ pc' \in {"payload", "header", "sent"}
        /\ err' # "EPIPE"
    BY <1>0, <1>1, <2>1 DEF SendHeader, Attempted, Steady
  <2> QED BY <2>1, <2>2 DEF Steady
<1>2. CASE SendPayload
  <2>1. pc = "payload" /\ pc' = "sent" /\ UNCHANGED <<sock, call, regs, base, nextId>>
    BY <1>2 DEF SendPayload, Attempted
  <2> QED BY <2>1 DEF Steady
<1>3. CASE SendBreaks
  <2>1. /\ pc \in {"header", "payload"} /\ UNCHANGED <<call, regs, base, nextId>>
        /\ \/ sock = "unconnected" /\ pc' = "ensure" /\ UNCHANGED sock
           \/ sock = "open" /\ pc' \in {"header", "sent"} /\ err' = "EINTR" /\ UNCHANGED sock
    BY <1>3 DEF SendBreaks, SendFails, Attempted, Steady
  <2> QED BY <2>1 DEF Steady
<1>4. CASE EnsureRoutingDaemon
  <2>1. pc = "ensure" /\ pc' = "connect" /\ UNCHANGED <<sock, call, base, nextId>>
    BY <1>4 DEF EnsureRoutingDaemon
  <2>2. /\ Len(regs') = Len(regs) + 1
        /\ \A k \in 1..Len(regs) : regs'[k] = regs[k]
        /\ Last(regs') = 1
    BY <1>4, InnerLoop DEF EnsureRoutingDaemon
  <2>3. sock # "open" /\ \A k \in 1..Len(regs) : regs[k] = 1
    BY <2>1 DEF Steady
  <2>4. \A k \in 1..Len(regs') : k \in 1..Len(regs) \/ k = Len(regs')
    BY <1>0, <2>2
  <2>5. \A k \in 1..Len(regs') : regs'[k] = 1
    BY <2>2, <2>3, <2>4 DEF Last
  <2> QED BY <2>1, <2>3, <2>5 DEF Steady
<1>5. CASE Connect \/ ConnectGivesUp
  BY <1>5 DEF Connect, ConnectGivesUp, Steady
<1>6. CASE Register
  <2>1. /\ pc = "register" /\ regs # <<>> /\ pc' = "header" /\ err' = "OK"
        /\ UNCHANGED <<sock, call, base, nextId>>
    BY <1>6 DEF Register, netVars, StackInv, Loops
  <2>2. PICK s \in Last(regs)..Slots :
          listeners[s].in_use /\ regs' = Append(Front(regs), s)
    BY <1>6 DEF Register
  <2>3. s \in 1..Slots
    BY <2>1, LoopAtHand, SlotsAssumption
  <2>4. /\ regs' # <<>> /\ Len(regs') = Len(regs)
        /\ \A k \in 1..Len(regs) : k < Len(regs) => regs'[k] = regs[k]
        /\ regs'[Len(regs)] = s
    BY <2>1, <2>2, <2>3, FoundLoop DEF Last
  <2>5. s = 1
    BY <2>1, <2>2, <2>3, OneListener DEF Steady
  <2>6. \A k \in 1..Len(regs) : k < Len(regs) \/ k = Len(regs)
    BY <1>0
  <2>7. sock # "open" => \A k \in 1..Len(regs') : regs'[k] = 1
    BY <2>4, <2>5, <2>6 DEF Steady
  <2> QED BY <2>1, <2>7 DEF Steady
<1>7. CASE Registered
  <2>1. pc = "register" /\ regs # <<>> /\ call = "create" /\ UNCHANGED <<sock, call>>
    BY <1>7 DEF Registered, netVars, StackInv, Loops, Steady
  <2>2. ASSUME AddListener(Inbox), regs' = <<>> PROVE Steady'
    <3>1. 1 \in 1..Slots
      BY SlotsAssumption
    <3>2. nextId = 1 /\ nextId' = 2
      <4>1. AddListener(1)
        BY <2>2 DEF Inbox
      <4>2. 1 = nextId /\ nextId' = nextId + 1
        BY <3>1, <4>1, NewListener
      <4> QED BY <4>2
    <3>3. base' = "send" /\ pc' = "header" /\ err' = "OK"
      BY <2>2 DEF AddListener, SendInternal
    <3>4. Len(regs') = 0
      BY <2>2
    <3> QED BY <2>1, <2>2, <3>2, <3>3, <3>4 DEF Steady
  <2>3. CASE sock # "open"
    BY <1>7, <2>2, <2>3, NotYetConnected
  <2>4. CASE sock = "open"
    <3>1. CASE Len(regs) > 1
      BY <1>7, <2>1, <2>4, <3>1 DEF Registered, Steady
    <3>2. CASE ~(Len(regs) > 1)
      <4>1. base \in {"none", "send"}
        BY <2>1 DEF StackInv, TypeOK, ThreadTypes, Steady
      <4>2. CASE base = "none"
        BY <1>7, <2>2, <3>2, <4>2 DEF Registered
      <4>3. CASE base = "send"
        BY <1>7, <2>1, <2>4, <3>2, <4>3 DEF Registered, Steady
      <4> QED BY <4>1, <4>2, <4>3
    <3> QED BY <3>1, <3>2
  <2> QED BY <2>3, <2>4
<1>8. CASE SubscribeSent
  BY <1>8 DEF SubscribeSent, netVars, Steady
<1>9. CASE ReadHeader \/ ReadPayload \/ Callback
  BY <1>9 DEF ReadHeader, ReadPayload, Callback, netVars, Steady
<1>10. CASE ReadFails
  BY <1>10 DEF ReadFails, Steady
<1>11. CASE MessageSent \/ Wait \/ Dispatched
  <2>1. regs = <<>> /\ regs' = <<>>
    BY <1>11 DEF MessageSent, Wait, Dispatched, StackInv, Loops
  <2> QED BY <1>11, <2>1 DEF MessageSent, Wait, Dispatched, Return, TimedDispatch, netVars, Steady
<1>12. CASE Calls
  <2>1. pc = "idle" /\ regs = <<>> /\ regs' = <<>> /\ sock = "open" /\ sock' = "open"
    BY <1>12 DEF Calls, CallSendMessage, CallSendRequest, CallAddListener, CallDispatch, StackInv,
         Loops, netVars, Steady
  <2> QED BY <1>12, <2>1 DEF Calls, CallSendMessage, CallSendRequest, CallAddListener, CallDispatch,
         AddListener, SendInternal, TimedDispatch, Steady
<1>13. CASE Environment
  <2>1. UNCHANGED clientVars
    BY <1>13, EnvironmentStep
  <2>2. UNCHANGED sock
    <3>1. ~RouterCrashes /\ sock # "closed"
      BY NoCrash DEF StackInv, Steady
    <3> QED BY <1>13, <3>1 DEF Environment, RouterStarted, RouterListens, SocketReset,
              ProviderAnswers, ProviderDies, Publish
  <2> QED BY <2>1, <2>2 DEF clientVars, Steady
<1>14. CASE UNCHANGED vars
  BY <1>14 DEF vars, Steady
<1> QED BY <1>1, <1>2, <1>3, <1>4, <1>5, <1>6, <1>7, <1>8, <1>9, <1>10, <1>11, <1>12, <1>13, <1>14
       DEF Next, Running

LEMMA SteadyInvariant ==
  ASSUME MaxCrash = 0
  PROVE  Spec => []Steady
<1>1. Init => Steady
  BY DEF Init, Steady
<1>2. StackInv /\ Steady /\ [Next]_vars => Steady'
  BY SteadyStep
<1> QED BY <1>1, <1>2, StackInvariant, PTL DEF Spec

-----------------------------------------------------------------------------
(* What is reported as sent.                                                   *)

PutWhenOK ==
  /\ call \in {"send", "request"} =>
       /\ pc = "sent" /\ err = "OK" => put
       /\ pc \in {"wait", "read", "readPayload", "callback", "dispatched"} => put
  /\ OkMeansSent

LEMMA PutStep ==
  ASSUME StackInv, Steady, Steady', PutWhenOK, [Next]_vars
  PROVE  PutWhenOK'
<1>0. /\ err \in {"OK", "EPIPE", "ECONNRESET", "EINTR"} /\ put \in BOOLEAN
      /\ call \in {"send", "request"} => regs = <<>> /\ sock = "open"
  BY DEF StackInv, TypeOK, ThreadTypes, HistoryTypes, Steady
<1>1. ASSUME UNCHANGED <<put, last, call>>,
             call \in {"send", "request"} =>
               \/ UNCHANGED <<pc, err>>
               \/ pc' \in {"header", "payload"}
               \/ pc' = "sent" /\ err' # "OK"
               \/ put
      PROVE  PutWhenOK'
  BY <1>1 DEF PutWhenOK, OkMeansSent
<1>2. ASSUME call \notin {"send", "request"}, UNCHANGED <<last, call>> PROVE PutWhenOK'
  BY <1>2 DEF PutWhenOK, OkMeansSent
<1>3. CASE SendHeader
  BY <1>0, <1>1, <1>3 DEF SendHeader, Attempted, history, Steady
<1>4. CASE SendPayload
  <2>1. CASE call \in {"send", "request"}
    <3>1. put' /\ UNCHANGED <<last, call>> /\ pc' = "sent"
      BY <1>0, <1>4, <2>1 DEF SendPayload, Attempted
    <3> QED BY <3>1 DEF PutWhenOK, OkMeansSent
  <2>2. CASE call \notin {"send", "request"}
    BY <1>2, <1>4, <2>2 DEF SendPayload
  <2> QED BY <2>1, <2>2
<1>5. CASE SendBreaks
  <2>1. CASE call \in {"send", "request"}
    <3>1. /\ UNCHANGED <<put, last, call>> /\ err' = "EINTR" /\ pc' \in {"header", "sent"}
      BY <1>0, <1>5, <2>1 DEF SendBreaks, SendFails, Attempted, history
    <3> QED BY <1>1, <3>1
  <2>2. CASE call \notin {"send", "request"}
    BY <1>2, <1>5, <2>2 DEF SendBreaks, history
  <2> QED BY <2>1, <2>2
<1>6. CASE EnsureRoutingDaemon \/ Connect \/ ConnectGivesUp \/ Register \/ Registered \/ SubscribeSent
  <2>1. call \notin {"send", "request"}
    BY <1>0, <1>6 DEF EnsureRoutingDaemon, Connect, ConnectGivesUp, Register, Registered, SubscribeSent,
         StackInv, Loops, Steady
  <2> QED BY <1>2, <1>6, <2>1 DEF EnsureRoutingDaemon, Connect, ConnectGivesUp, Register, Registered,
         SubscribeSent, history
<1>7. CASE ReadHeader \/ ReadPayload \/ Callback
  BY <1>1, <1>7 DEF ReadHeader, ReadPayload, Callback, history, PutWhenOK
<1>8. CASE ReadFails
  BY <1>8 DEF ReadFails, Steady
<1>9. CASE MessageSent \/ Wait \/ Dispatched
  <2>1. ASSUME NEW e, NEW r, Return(e, r),
               call \in {"send", "request"} /\ e \in {"OK", "TIMEOUT"} => put
        PROVE  PutWhenOK'
    BY <2>1 DEF Return, PutWhenOK, OkMeansSent
  <2>2. ASSUME UNCHANGED <<put, last, call>>, pc' \in {"read", "wait"},
               call \in {"send", "request"} => put
        PROVE  PutWhenOK'
    BY <1>1, <2>2
  <2>3. CASE MessageSent
    <3>1. call \in {"send", "request"} /\ err = "OK" => put
      BY <2>3 DEF MessageSent, PutWhenOK
    <3>2. err # "TIMEOUT"
      BY <1>0
    <3> QED BY <2>1, <2>2, <2>3, <3>1, <3>2 DEF MessageSent
  <2>4. CASE Wait \/ Dispatched
    <3>1. call \in {"send", "request"} => put
      BY <2>4 DEF Wait, Dispatched, PutWhenOK
    <3> QED BY <2>1, <2>2, <2>4, <3>1 DEF Wait, Dispatched, TimedDispatch
  <2> QED BY <1>9, <2>3, <2>4
<1>10. CASE Calls
  BY <1>10 DEF Calls, CallSendMessage, CallSendRequest, CallAddListener, CallDispatch, AddListener,
       SendInternal, TimedDispatch, history, PutWhenOK, OkMeansSent
<1>11. CASE Environment \/ UNCHANGED vars
  BY <1>1, <1>11, EnvironmentStep DEF clientVars, history, vars
<1> QED BY <1>3, <1>4, <1>5, <1>6, <1>7, <1>8, <1>9, <1>10, <1>11 DEF Next, Running

\* While the router does not crash, a message that rtConnection_SendMessage or
\* SendRequest reports as sent, or as timed out, has been sent whole, however
\* often signals interrupted the send.
THEOREM OkMeansSentInvariant ==
  ASSUME MaxCrash = 0
  PROVE  Spec => []OkMeansSent
<1>1. Init => PutWhenOK
  BY DEF Init, PutWhenOK, OkMeansSent, NoCall
<1>2. StackInv /\ Steady /\ Steady' /\ PutWhenOK /\ [Next]_vars => PutWhenOK'
  BY PutStep
<1>3. PutWhenOK => OkMeansSent
  BY DEF PutWhenOK
<1> QED BY <1>1, <1>2, <1>3, StackInvariant, SteadyInvariant, PTL DEF Spec

-----------------------------------------------------------------------------
(* One route for each listener.  The registration in Create knows only the      *)
(* inbox and comes to it once; a listener that is added later sends its own      *)
(* subscription, and the ids that it is found under are slots.                   *)

OneRoute ==
  /\ sock # "open" => table = <<>>
  /\ \A k \in 1..Len(table) :
       table[k][1] = table[k][2] /\ listeners[table[k][1]].in_use
  /\ \A j, k \in 1..Len(table) : table[j][1] = table[k][1] => j = k
  /\ call = "create" =>
       /\ nextId = 2 => listeners[1].id = 1
       /\ msg.topic = "SUBSCRIBE" => msg = Subscribe(1) /\ nextId = 2
       /\ pc \in {"header", "payload"} \/ (pc = "register" /\ Last(regs) = 1) => table = <<>>
  /\ pc \in {"header", "payload"} /\ msg.topic = "SUBSCRIBE" =>
       /\ listeners[msg.slot].in_use /\ listeners[msg.slot].id = msg.slot
       /\ \A k \in 1..Len(table) : table[k][1] # msg.slot

LEMMA OneRouteStep ==
  ASSUME MaxCrash = 0, StackInv, Steady, OneRoute, [Next]_vars
  PROVE  OneRoute'
<1>0. /\ Len(table) \in Nat /\ table \in Seq((1..Slots) \X (0..Slots))
      /\ \A k \in 1..Len(table) : table[k] \in (1..Slots) \X (0..Slots)
      /\ \A s \in 1..Slots : listeners[s].in_use => listeners'[s].in_use
      /\ 1 \in 1..Slots
  BY ListenersStep, ElementOfSeq, LenProperties, SlotsAssumption DEF StackInv, TypeOK, NetTypes
<1>1. ASSUME UNCHANGED <<table, call, msg, nextId>>, UNCHANGED listeners,
             sock' = sock \/ table = <<>>,
             pc' \in {"header", "payload"} => pc \in {"header", "payload"},
             pc' = "register" => Last(regs') # 1
      PROVE  OneRoute'
  BY <1>0, <1>1 DEF OneRoute
<1>2. ASSUME UNCHANGED <<table, sock>>, pc' \notin {"header", "payload"}, call' # "create"
      PROVE  OneRoute'
  BY <1>0, <1>2 DEF OneRoute
<1>3. CASE SendHeader \/ SendBreaks
  BY <1>1, <1>3 DEF SendHeader, SendBreaks, SendFails, Attempted, Steady
<1>4. CASE SendPayload
  <2>1. /\ pc = "payload" /\ pc' = "sent" /\ UNCHANGED <<sock, call, msg, nextId, listeners, regs>>
    BY <1>4 DEF SendPayload, Attempted
  <2>2. ASSUME NEW s \in 1..Slots, table' = Append(table, <<s, listeners[s].id>>), sock = "open",
               IF regs = <<>> THEN msg = Subscribe(s) ELSE s = Last(regs)
        PROVE  OneRoute'
    <3>1. /\ listeners[s].in_use /\ listeners[s].id = s
          /\ \A k \in 1..Len(table) : table[k][1] # s
      <4>1. CASE regs = <<>>
        BY <2>1, <2>2, <4>1 DEF OneRoute, Subscribe
      <4>2. CASE regs # <<>>
        <5>1. call = "create" /\ Last(regs) = regs[Len(regs)] /\ Len(regs) \in 1..Len(regs)
          BY <4>2, LoopAtHand DEF Steady
        <5>2. s = 1 /\ listeners[s].in_use
          BY <2>1, <2>2, <4>2, <5>1, OneListener DEF Sends, StackInv, LoopSlots
        <5>3. nextId = 2 /\ table = <<>>
          BY <1>0, <2>1, <5>1, <5>2, OneListener DEF OneRoute
        <5> QED BY <5>1, <5>2, <5>3 DEF OneRoute
      <4> QED BY <4>1, <4>2
    <3>2. <<s, s>> \in (1..Slots) \X (0..Slots) /\ table' = Append(table, <<s, s>>)
      BY <2>2, <3>1
    <3>3. /\ Len(table') = Len(table) + 1
          /\ \A k \in 1..Len(table) : table'[k] = table[k]
          /\ table'[Len(table) + 1] = <<s, s>>
      BY <1>0, <3>2, AppendProperties
    <3>4. \A k \in 1..Len(table') : k \in 1..Len(table) \/ k = Len(table) + 1
      BY <1>0, <3>3
    <3>5. \A k \in 1..Len(table') :
            table'[k][1] = table'[k][2] /\ listeners[table'[k][1]].in_use
      BY <3>1, <3>3, <3>4 DEF OneRoute
    <3>6. ASSUME NEW j \in 1..Len(table'), NEW k \in 1..Len(table'), table'[j][1] = table'[k][1]
          PROVE  j = k
      BY <3>1, <3>3, <3>4, <3>6 DEF OneRoute
    <3> QED BY <2>1, <2>2, <3>5, <3>6 DEF OneRoute
  <2>3. pc \in Sends /\ (UNCHANGED table => OneRoute')
    BY <1>1, <2>1 DEF Sends
  <2> QED BY <1>4, <2>2, <2>3, HandledKinds DEF SendPayload
<1>5. CASE EnsureRoutingDaemon
  BY <1>1, <1>5 DEF EnsureRoutingDaemon
<1>6. CASE Connect
  <2>1. table' = <<>> /\ Len(table') = 0
    BY <1>6 DEF Connect
  <2> QED BY <1>6, <2>1 DEF Connect, OneRoute
<1>7. CASE ConnectGivesUp
  BY <1>7 DEF ConnectGivesUp, OneRoute, Steady
<1>8. CASE Register
  <2>1. /\ pc = "register" /\ pc' = "header" /\ regs # <<>> /\ call = "create"
        /\ UNCHANGED <<sock, table, call, msg, nextId, listeners>>
    BY <1>8 DEF Register, netVars, StackInv, Loops, Steady
  <2>2. PICK s \in Last(regs)..Slots : listeners[s].in_use
    BY <1>8 DEF Register
  <2>3. Last(regs) \in 1..(Slots + 1)
    BY <2>1, LoopAtHand
  <2>4. s \in 1..Slots
    BY <2>3, SlotsAssumption
  <2>5. s = 1 /\ nextId = 2
    BY <2>1, <2>2, <2>4, OneListener
  <2>6. Last(regs) = 1
    BY <2>3, <2>5, <2>2, SlotsAssumption
  <2>7. table = <<>> /\ listeners[1].in_use /\ listeners[1].id = 1 /\ Len(table) = 0
    BY <2>1, <2>2, <2>5, <2>6 DEF OneRoute
  <2> QED BY <2>1, <2>5, <2>7 DEF OneRoute, Subscribe
<1>9. CASE Registered
  <2>1. pc = "register" /\ regs # <<>> /\ call = "create" /\ UNCHANGED <<sock, call, table>>
    BY <1>9 DEF Registered, netVars, StackInv, Loops, Steady
  <2>2. CASE Len(regs) > 1
    <3>1. Len(regs) - 1 \in 1..Len(regs) /\ Len(regs) - 1 < Len(regs)
      BY <2>2, LoopAtHand
    <3>2. Last(regs') = 2
      BY <1>9, <2>1, <2>2, <3>1, OuterLoop, OneListener DEF Registered
    <3> QED BY <1>1, <1>9, <2>1, <2>2, <3>2 DEF Registered
  <2>3. CASE AddListener(Inbox)
    <3>1. AddListener(1)
      BY <2>3 DEF Inbox
    <3>2. /\ 1 = nextId /\ nextId' = nextId + 1 /\ listeners'[1] = [in_use |-> TRUE, id |-> 1]
      BY <1>0, <3>1, NewListener
    <3>3. ~\E k \in 1..Len(table) : TRUE
      <4>1. SUFFICES ASSUME NEW k \in 1..Len(table) PROVE FALSE
        OBVIOUS
      <4>2. table[k][1] \in 1..Slots /\ listeners[table[k][1]].in_use
        BY <1>0 DEF OneRoute
      <4> QED BY <2>1, <3>2, <4>2, OneListener
    <3>4. table = <<>> /\ Len(table) = 0
      BY <1>0, <3>3, EmptySeq
    <3>5. msg' = Subscribe(1) /\ pc' = "header"
      BY <3>1 DEF AddListener, SendInternal
    <3>6. nextId' = 2 /\ msg'.slot = 1
      BY <3>2, <3>5 DEF Subscribe
    <3> QED BY <2>1, <3>2, <3>4, <3>5, <3>6 DEF OneRoute
  <2>4. CASE ~(Len(regs) > 1) /\ base # "none"
    BY <1>1, <1>9, <2>1, <2>4 DEF Registered
  <2> QED BY <1>9, <2>2, <2>3, <2>4 DEF Registered
<1>10. CASE SubscribeSent
  <2>1. /\ pc = "sent" /\ regs # <<>> /\ regs' = NextListener(regs)
        /\ UNCHANGED <<table, call, msg, nextId, listeners, sock>>
    BY <1>10 DEF SubscribeSent, netVars
  <2>2. Last(regs') = Last(regs) + 1 /\ Last(regs) \in 1..(Slots + 1)
    BY <2>1, NextLoop, LoopAtHand DEF Sends
  <2>3. Last(regs') # 1
    BY <2>2, SlotsAssumption
  <2> QED BY <1>1, <1>10, <2>1, <2>3 DEF SubscribeSent
<1>11. CASE ReadHeader \/ ReadPayload \/ ReadFails \/ Callback
  <2>1. call \in {"request", "dispatch"} /\ sock = "open"
    BY <1>11 DEF ReadHeader, ReadPayload, ReadFails, Callback, Steady
  <2> QED BY <1>2, <1>11, <2>1 DEF ReadHeader, ReadPayload, ReadFails, Callback, netVars
<1>12. CASE Wait \/ Dispatched
  BY <1>2, <1>12 DEF Wait, Dispatched, Return, TimedDispatch, netVars, Steady
<1>13. CASE MessageSent
  BY <1>2, <1>13 DEF MessageSent, Return, netVars
<1>14. CASE CallSendMessage \/ CallSendRequest \/ CallDispatch
  BY <1>14 DEF CallSendMessage, CallSendRequest, CallDispatch, SendInternal, TimedDispatch, netVars,
       Plain, Request, OneRoute
<1>15. CASE CallAddListener
  <2>1. PICK s \in 1..Slots : AddListener(s)
    BY <1>15 DEF CallAddListener
  <2>2. ~listeners[s].in_use /\ listeners'[s] = [in_use |-> TRUE, id |-> s]
    BY <2>1, NewListener
  <2>3. msg' = Subscribe(s) /\ call' = "listen" /\ UNCHANGED <<table, sock>>
    BY <1>15, <2>1 DEF CallAddListener, AddListener, SendInternal, netVars
  <2>4. \A k \in 1..Len(table) : table[k][1] # s
    BY <2>2 DEF OneRoute
  <2> QED BY <1>0, <2>2, <2>3, <2>4, SMTT(30) DEF OneRoute, Subscribe
<1>16. CASE Environment
  <2>1. UNCHANGED clientVars
    BY <1>16, EnvironmentStep
  <2>2. UNCHANGED <<table, sock>>
    <3>1. ~RouterCrashes /\ sock # "closed"
      BY NoCrash DEF StackInv, Steady
    <3> QED BY <1>16, <3>1 DEF Environment, RouterStarted, RouterListens, SocketReset,
              ProviderAnswers, ProviderDies, Publish
  <2> QED BY <2>1, <2>2 DEF clientVars, OneRoute
<1>17. CASE UNCHANGED vars
  BY <1>17 DEF vars, OneRoute
<1> QED BY <1>3, <1>4, <1>5, <1>6, <1>7, <1>8, <1>9, <1>10, <1>11, <1>12, <1>13, <1>14, <1>15,
       <1>16, <1>17 DEF Next, Running, Calls

LEMMA OneRouteInvariant ==
  ASSUME MaxCrash = 0
  PROVE  Spec => []OneRoute
<1>1. Init => OneRoute
  BY DEF Init, OneRoute, Plain
<1>2. StackInv /\ Steady /\ OneRoute /\ [Next]_vars => OneRoute'
  BY OneRouteStep
<1> QED BY <1>1, <1>2, StackInvariant, SteadyInvariant, PTL DEF Spec

\* What is published reaches a listener in one frame, under its slot, or not at all.
LEMMA ForwardedOnce ==
  ASSUME StackInv, OneRoute, NEW slot, NEW kind \in {"response", "event"}, NEW n \in Nat
  PROVE  \/ Forwarded(slot, kind, n) = <<>>
         \/ /\ Forwarded(slot, kind, n) = Chunks([id |-> slot, kind |-> kind, n |-> n])
            /\ [id |-> slot, kind |-> kind, n |-> n] \in Frame
<1> DEFINE S == [part : {"header", "payload"}, frame : {f \in Frame : f.kind = kind}]
           c == Copies(slot, kind, n)
<1>1. NetTypes
  BY DEF StackInv, TypeOK
<1>2. /\ c \in Seq(Seq(S)) /\ Len(c) = Len(table) /\ Forwarded(slot, kind, n) = FlattenSeq(c)
      /\ Len(table) \in Nat
      /\ \A k \in 1..Len(table) : table[k] \in (1..Slots) \X (0..Slots)
  BY <1>1, CopiesType, LenProperties, ElementOfSeq DEF NetTypes
<1>3. \A k \in 1..Len(table) : table[k][1] # slot => c[k] = <<>>
  BY DEF Copies
<1>4. \A k \in 1..Len(table) : table[k][1] = slot =>
         c[k] = Chunks([id |-> slot, kind |-> kind, n |-> n]) /\ slot \in 1..Slots
  BY <1>2 DEF Copies, OneRoute
<1> HIDE DEF c, S
<1>5. CASE \E k \in 1..Len(table) : table[k][1] = slot
  <2>1. PICK k \in 1..Len(table) : table[k][1] = slot
    BY <1>5
  <2>2. \A j \in 1..Len(c) : j # k => c[j] = <<>>
    BY <1>2, <1>3, <2>1 DEF OneRoute
  <2>3. FlattenSeq(c) = c[k]
    BY <1>2, <2>2, FlattenSeqOne
  <2>4. [id |-> slot, kind |-> kind, n |-> n] \in Frame
    BY <1>4, <2>1, SlotsAssumption DEF Frame
  <2> QED BY <1>2, <1>4, <2>1, <2>3, <2>4
<1>6. CASE /\ ~\E k \in 1..Len(table) : table[k][1] = slot
           /\ Len(table) # 0
  <2>1. 1 \in 1..Len(c) /\ \A j \in 1..Len(c) : c[j] = <<>>
    BY <1>2, <1>3, <1>6
  <2>2. FlattenSeq(c) = c[1]
    BY <1>2, <2>1, FlattenSeqOne
  <2> QED BY <1>2, <2>1, <2>2
<1>7. CASE Len(table) = 0
  <2>1. c = <<>>
    BY <1>2, <1>7, EmptySeq
  <2> QED BY <1>2, <2>1 DEF FlattenSeq
<1> QED BY <1>5, <1>6, <1>7

-----------------------------------------------------------------------------
(* What the listeners hear.  The stream holds whole frames, headers and payloads *)
(* in turn; an event is numbered later than all that its listener has heard or    *)
(* that are ahead of it in the stream.                                            *)

FrameOK(f, lastEvent) ==
  \/ f.kind = "event" /\ f.id \in 2..Slots /\ f.n \in 1..lastEvent
  \/ f.kind = "response" /\ f.id = 1
  \/ f.kind = "noroute" /\ f.id = 0

Reading == pc \in {"readPayload", "callback"}
Part(p, f) == [part |-> p, frame |-> f]

WholeFrames ==
  /\ \A k \in 1..Len(rx) : FrameOK(rx[k].frame, events)
  /\ \A k \in 1..Len(rx) : rx[k].part = "header" =>
       k + 1 \in 1..Len(rx) /\ rx[k + 1] = Part("payload", rx[k].frame)
  /\ \A k \in 1..Len(rx) : k + 1 \in 1..Len(rx) /\ rx[k].part = "payload" =>
       rx[k + 1].part = "header"
  /\ pc = "readPayload" => rx # <<>> /\ rx[1] = Part("payload", hdr)
  /\ pc # "readPayload" /\ rx # <<>> => rx[1].part = "header"
  /\ Reading => FrameOK(hdr, events)
  /\ pc = "callback" => buf = hdr.n

\* If c begins an event for the slot, the event is later than number n.
Later(c, slot, n) ==
  c.part = "header" /\ c.frame.kind = "event" /\ c.frame.id = slot => n < c.frame.n

EventsInOrder ==
  /\ \A j, k \in 1..Len(rx) :
       j < k /\ rx[j].frame.kind = "event" => Later(rx[k], rx[j].frame.id, rx[j].frame.n)
  /\ Reading /\ hdr.kind = "event" => \A k \in 1..Len(rx) : Later(rx[k], hdr.id, hdr.n)
  /\ \A d \in 1..Len(delivered) :
       /\ delivered[d].n \in 1..events
       /\ \A k \in 1..Len(rx) : Later(rx[k], delivered[d].slot, delivered[d].n)
       /\ Reading /\ hdr.kind = "event" /\ hdr.id = delivered[d].slot =>
            delivered[d].n < hdr.n
  /\ HeardOnceInOrder

LEMMA FrameArrives ==
  ASSUME NetTypes, NEW f \in Frame, rx' = rx \o Chunks(f)
  PROVE  /\ Len(rx) \in Nat /\ Len(rx') = Len(rx) + 2
         /\ \A k \in 1..Len(rx) : rx'[k] = rx[k]
         /\ rx'[Len(rx) + 1] = Part("header", f) /\ rx'[Len(rx) + 2] = Part("payload", f)
         /\ \A k \in 1..Len(rx') : k \in 1..Len(rx) \/ k = Len(rx) + 1 \/ k = Len(rx) + 2
<1> DEFINE h == Part("header", f)
           p == Part("payload", f)
<1>1. h \in Chunk /\ p \in Chunk
  BY DEF Chunk, Part
<1>2. Chunks(f) = <<h, p>>
  BY DEF Chunks, Part
<1>3. rx \in Seq(Chunk)
  BY DEF NetTypes, Chunk
<1> HIDE DEF h, p
<1>4. <<h, p>> \in Seq(Chunk) /\ Len(<<h, p>>) = 2 /\ <<h, p>>[1] = h /\ <<h, p>>[2] = p
  BY <1>1
<1>5. /\ Len(rx) \in Nat
      /\ Len(rx') = Len(rx) + 2
      /\ \A k \in 1..Len(rx) + 2 :
           rx'[k] = IF k <= Len(rx) THEN rx[k] ELSE <<h, p>>[k - Len(rx)]
  BY <1>2, <1>3, <1>4, ConcatProperties, LenProperties
<1>6. rx'[Len(rx) + 1] = h
  <2>1. Len(rx) + 1 \in 1..Len(rx) + 2 /\ ~(Len(rx) + 1 <= Len(rx)) /\ Len(rx) + 1 - Len(rx) = 1
    BY <1>5
  <2> QED BY <1>4, <1>5, <2>1
<1>7. rx'[Len(rx) + 2] = p
  <2>1. Len(rx) + 2 \in 1..Len(rx) + 2 /\ ~(Len(rx) + 2 <= Len(rx)) /\ Len(rx) + 2 - Len(rx) = 2
    BY <1>5
  <2> QED BY <1>4, <1>5, <2>1
<1> QED BY <1>5, <1>6, <1>7 DEF h, p

\* How a step that neither reads nor calls back changes the stream.
Arrives(f) ==
  /\ rx' = rx \o Chunks(f)
  /\ UNCHANGED <<hdr, buf, delivered>>
  /\ UNCHANGED pc \/ (pc = "payload" /\ pc' = "sent")
Untouched ==
  /\ rx' \in {rx, <<>>} /\ UNCHANGED delivered /\ events' \in {events, events + 1}
  /\ rx' # rx => pc = "connect"
  /\ pc' \in {"readPayload", "callback"} => UNCHANGED <<pc, hdr, buf>>
  /\ pc # "readPayload" \/ UNCHANGED pc
NewFrame(f) ==
  \/ f.kind = "event" /\ f.id \in 2..Slots /\ f.n = events + 1 /\ events' = events + 1
  \/ f.kind = "response" /\ f.id = 1 /\ events' = events
  \/ f.kind = "noroute" /\ f.id = 0 /\ events' = events

LEMMA StreamStep ==
  ASSUME MaxCrash = 0, StackInv, Steady, OneRoute, [Next]_vars
  PROVE  \/ ReadHeader \/ ReadPayload \/ Callback \/ Untouched
         \/ \E f \in Frame : Arrives(f) /\ NewFrame(f)
<1>0. NetTypes /\ rx \in Seq(Chunk) /\ events \in Nat /\ asked \subseteq Nat
  BY BoundsAssumption DEF StackInv, TypeOK, NetTypes, Chunk
<1>1. CASE SendPayload
  <2>1. Handled(Sending) => Untouched \/ \E f \in Frame : Arrives(f) /\ NewFrame(f)
    <3>1. SUFFICES ASSUME Handled(Sending), ~UNCHANGED rx
                   PROVE  \E f \in Frame : Arrives(f) /\ NewFrame(f)
      BY <1>1 DEF SendPayload, Untouched, Attempted
    <3>2. pc \in Sends
      BY <1>1 DEF SendPayload, Sends
    <3>3. PICK n \in 1..MaxSeq : rx' = rx \o Chunks([id |-> 0, kind |-> "noroute", n |-> n])
      BY <3>1, <3>2, HandledKinds
    <3> DEFINE f == [id |-> 0, kind |-> "noroute", n |-> n]
    <3>4. f \in Frame
      BY BoundsAssumption DEF Frame
    <3>5. Arrives(f) /\ NewFrame(f)
      BY <1>1, <3>3 DEF SendPayload, Arrives, NewFrame, Attempted
    <3> QED BY <3>4, <3>5
  <2>2. UNCHANGED rx => Untouched
    BY <1>1 DEF SendPayload, Untouched, Attempted
  <2> QED BY <1>1, <2>1, <2>2 DEF SendPayload
<1>2. CASE ProviderAnswers
  <2>1. PICK q \in asked : rx' = rx \o Forwarded(1, "response", q)
    BY <1>2 DEF ProviderAnswers, Inbox
  <2> DEFINE f == [id |-> 1, kind |-> "response", n |-> q]
  <2>2. UNCHANGED <<pc, hdr, buf, delivered, events>>
    BY <1>2 DEF ProviderAnswers, clientVars, history
  <2>3. \/ Forwarded(1, "response", q) = <<>>
        \/ Forwarded(1, "response", q) = Chunks(f) /\ f \in Frame
    BY <1>0, ForwardedOnce
  <2>4. CASE Forwarded(1, "response", q) = <<>>
    BY <1>0, <2>1, <2>2, <2>4, ConcatEmptySeq DEF Untouched
  <2>5. CASE Forwarded(1, "response", q) = Chunks(f) /\ f \in Frame
    BY <2>1, <2>2, <2>5 DEF Arrives, NewFrame
  <2> QED BY <2>3, <2>4, <2>5
<1>3. CASE Publish
  <2>1. PICK slot \in 2..Slots : /\ Forwarded(slot, "event", 0) # <<>>
                                 /\ rx' = rx \o Forwarded(slot, "event", events + 1)
    BY <1>3 DEF Publish
  <2> DEFINE f == [id |-> slot, kind |-> "event", n |-> events + 1]
  <2>2. UNCHANGED <<pc, hdr, buf, delivered>> /\ events' = events + 1
    BY <1>3 DEF Publish, clientVars, history
  <2>3. \/ Forwarded(slot, "event", events + 1) = <<>>
        \/ Forwarded(slot, "event", events + 1) = Chunks(f) /\ f \in Frame
    BY <1>0, ForwardedOnce
  <2>4. CASE Forwarded(slot, "event", events + 1) = <<>>
    BY <1>0, <2>1, <2>2, <2>4, ConcatEmptySeq DEF Untouched
  <2>5. CASE Forwarded(slot, "event", events + 1) = Chunks(f) /\ f \in Frame
    BY <2>1, <2>2, <2>5 DEF Arrives, NewFrame
  <2> QED BY <2>3, <2>4, <2>5
<1>4. CASE SendHeader \/ SendBreaks \/ EnsureRoutingDaemon \/ Connect \/ ConnectGivesUp
  BY <1>4 DEF SendHeader, SendBreaks, EnsureRoutingDaemon, Connect, ConnectGivesUp, Attempted,
       history, Untouched
<1>5. CASE Register \/ SubscribeSent
  BY <1>5 DEF Register, SubscribeSent, history, netVars, Untouched
<1>6. CASE Registered
  <2>1. base # "dispatch"
    BY <1>6 DEF Registered, StackInv, Loops, Steady
  <2> QED BY <1>6, <2>1 DEF Registered, AddListener, SendInternal, netVars, Untouched, StackInv,
       TypeOK, ThreadTypes
<1>7. CASE ReadFails
  BY <1>7 DEF ReadFails, Steady
<1>8. CASE MessageSent \/ Wait \/ Dispatched \/ Calls
  BY <1>8 DEF MessageSent, Wait, Dispatched, Return, TimedDispatch, Calls, CallSendMessage,
       CallSendRequest, CallAddListener, CallDispatch, AddListener, SendInternal, netVars, history,
       Untouched
<1>9. CASE RouterStarted \/ RouterListens \/ ProviderDies \/ UNCHANGED vars
  BY <1>9 DEF RouterStarted, RouterListens, ProviderDies, clientVars, history, vars, Untouched
<1>10. ~RouterCrashes /\ ~SocketReset
  BY NoCrash DEF StackInv, Steady, SocketReset
<1> QED BY <1>1, <1>2, <1>3, <1>4, <1>5, <1>6, <1>7, <1>8, <1>9, <1>10
       DEF Next, Running, Environment

LEMMA WholeFramesStep ==
  ASSUME StackInv, WholeFrames,
         ReadHeader \/ ReadPayload \/ Callback \/ Untouched
           \/ \E f \in Frame : Arrives(f) /\ NewFrame(f)
  PROVE  WholeFrames'
<1>0. NetTypes /\ rx \in Seq(Chunk) /\ events \in Nat /\ Len(rx) \in Nat
  BY BoundsAssumption, LenProperties DEF StackInv, TypeOK, NetTypes, Chunk
<1>1. CASE ReadHeader \/ ReadPayload
  <2>1. rx # <<>> /\ rx' = Tail(rx) /\ UNCHANGED events
    BY <1>1 DEF ReadHeader, ReadPayload
  <2>2. /\ Head(rx) = rx[1] /\ 1 \in 1..Len(rx) /\ Len(rx') = Len(rx) - 1
        /\ \A k \in 1..Len(rx) - 1 : rx'[k] = rx[k + 1] /\ k + 1 \in 1..Len(rx)
    BY <1>0, <2>1, NextChunk
  <2>3. \A k \in 1..Len(rx') : FrameOK(rx'[k].frame, events')
    BY <2>1, <2>2 DEF FrameOK, WholeFrames
  <2>4. /\ \A k \in 1..Len(rx') : rx'[k].part = "header" =>
              k + 1 \in 1..Len(rx') /\ rx'[k + 1] = Part("payload", rx'[k].frame)
        /\ \A k \in 1..Len(rx') : k + 1 \in 1..Len(rx') /\ rx'[k].part = "payload" =>
              rx'[k + 1].part = "header"
    <3>1. ASSUME NEW k \in 1..Len(rx')
          PROVE  /\ rx'[k] = rx[k + 1] /\ k + 1 \in 1..Len(rx)
                 /\ k + 1 + 1 \in 1..Len(rx) <=> k + 1 \in 1..Len(rx')
                 /\ k + 1 \in 1..Len(rx') => rx'[k + 1] = rx[k + 1 + 1]
      BY <1>0, <2>2
    <3> QED BY <3>1 DEF WholeFrames
  <2>5. CASE ReadHeader
    <3>1. hdr' = rx[1].frame /\ pc = "read" /\ pc' = "readPayload"
      BY <2>2, <2>5 DEF ReadHeader
    <3>2. rx[1].part = "header"
      BY <2>1, <3>1 DEF WholeFrames
    <3>3. 1 + 1 \in 1..Len(rx) /\ rx[1 + 1] = Part("payload", rx[1].frame)
      BY <2>2, <3>2 DEF WholeFrames
    <3>4. 1 \in 1..Len(rx') /\ rx'[1] = Part("payload", hdr')
      BY <1>0, <2>2, <3>1, <3>3
    <3>5. rx' # <<>>
      BY <3>4
    <3>6. FrameOK(hdr', events')
      BY <2>1, <2>2, <3>1 DEF FrameOK, WholeFrames
    <3> QED BY <2>3, <2>4, <3>1, <3>4, <3>5, <3>6 DEF WholeFrames
  <2>6. CASE ReadPayload
    <3>1. buf' = rx[1].frame.n /\ pc = "readPayload" /\ pc' = "callback" /\ UNCHANGED hdr
      BY <2>2, <2>6 DEF ReadPayload
    <3>2. rx[1] = Part("payload", hdr) /\ FrameOK(hdr, events)
      BY <3>1 DEF WholeFrames, Reading
    <3>3. buf' = hdr.n /\ FrameOK(hdr', events')
      BY <2>1, <3>1, <3>2 DEF Part, FrameOK
    <3>4. ASSUME rx' # <<>> PROVE rx'[1].part = "header"
      <4>1. rx' \in Seq(Chunk)
        BY <1>0, <2>1, NextChunk
      <4>2. 1 \in 1..Len(rx')
        BY <1>0, <2>2, <3>4, <4>1, EmptySeq
      <4>3. rx'[1] = rx[1 + 1] /\ 1 + 1 \in 1..Len(rx)
        BY <2>2, <4>2
      <4> QED BY <2>2, <3>2, <4>3 DEF WholeFrames, Part
    <3> QED BY <2>3, <2>4, <3>1, <3>3, <3>4 DEF WholeFrames
  <2> QED BY <1>1, <2>5, <2>6
<1>2. CASE Callback
  BY <1>2 DEF Callback, netVars, WholeFrames, Reading, FrameOK
<1>3. CASE Untouched
  <2>1. \A f : FrameOK(f, events) => FrameOK(f, events')
    BY <1>0, <1>3 DEF Untouched, FrameOK
  <2>2. CASE rx' = <<>>
    <3>1. pc' # "readPayload"
      BY <1>3, <2>2 DEF Untouched, WholeFrames
    <3>2. pc' = "callback" => FrameOK(hdr', events') /\ buf' = hdr'.n
      BY <1>3, <2>1 DEF Untouched, WholeFrames, Reading, FrameOK
    <3>3. Len(rx') = 0
      BY <2>2
    <3> QED BY <2>2, <3>1, <3>2, <3>3 DEF WholeFrames, Reading
  <2>3. CASE rx' = rx
    <3>1. \A k \in 1..Len(rx) : FrameOK(rx[k].frame, events')
      BY <2>1, <2>3 DEF WholeFrames, FrameOK
    <3>2. pc' \in {"readPayload", "callback"} => FrameOK(hdr', events') /\ UNCHANGED <<pc, hdr, buf>>
      BY <1>3, <2>1 DEF Untouched, WholeFrames, Reading, FrameOK
    <3>3. pc = "readPayload" => UNCHANGED pc
      BY <1>3 DEF Untouched
    <3> QED BY <2>3, <3>1, <3>2, <3>3 DEF WholeFrames, Reading
  <2> QED BY <1>3, <2>2, <2>3 DEF Untouched
<1>4. ASSUME NEW f \in Frame, Arrives(f), NewFrame(f) PROVE WholeFrames'
  <2>1. /\ Len(rx') = Len(rx) + 2
        /\ \A k \in 1..Len(rx) : rx'[k] = rx[k]
        /\ rx'[Len(rx) + 1] = Part("header", f) /\ rx'[Len(rx) + 2] = Part("payload", f)
        /\ \A k \in 1..Len(rx') : k \in 1..Len(rx) \/ k = Len(rx) + 1 \/ k = Len(rx) + 2
    BY <1>0, <1>4, FrameArrives DEF Arrives
  <2>2. /\ \A g : FrameOK(g, events) => FrameOK(g, events')
        /\ FrameOK(f, events')
        /\ Part("header", f).frame = f /\ Part("payload", f).frame = f
    BY <1>0, <1>4 DEF NewFrame, FrameOK, Part
  <2>3. \A k \in 1..Len(rx') : FrameOK(rx'[k].frame, events')
    BY <2>1, <2>2 DEF WholeFrames, FrameOK
  <2>4. ASSUME NEW k \in 1..Len(rx')
        PROVE  /\ rx'[k].part = "header" =>
                    k + 1 \in 1..Len(rx') /\ rx'[k + 1] = Part("payload", rx'[k].frame)
               /\ k + 1 \in 1..Len(rx') /\ rx'[k].part = "payload" => rx'[k + 1].part = "header"
    <3>1. CASE k \in 1..Len(rx)
      <4>1. CASE k + 1 \in 1..Len(rx)
        BY <1>0, <2>1, <3>1, <4>1 DEF WholeFrames
      <4>2. CASE k + 1 \notin 1..Len(rx)
        <5>1. k + 1 = Len(rx) + 1
          BY <1>0, <3>1, <4>2
        <5> QED BY <2>1, <3>1, <4>2, <5>1 DEF WholeFrames, Part
      <4> QED BY <4>1, <4>2
    <3>2. CASE k = Len(rx) + 1
      <4>1. k + 1 = Len(rx) + 2 /\ k + 1 \in 1..Len(rx')
        BY <1>0, <2>1, <3>2
      <4> QED BY <2>1, <2>2, <3>2, <4>1 DEF Part
    <3>3. CASE k = Len(rx) + 2
      <4>1. k + 1 \notin 1..Len(rx')
        BY <1>0, <2>1, <3>3
      <4> QED BY <2>1, <3>3, <4>1 DEF Part
    <3> QED BY <2>1, <3>1, <3>2, <3>3
  <2>5. rx # <<>> => 1 \in 1..Len(rx)
    BY <1>0, EmptySeq
  <2>6. rx = <<>> => rx'[1] = Part("header", f)
    <3>1. rx = <<>> => Len(rx) + 1 = 1
      OBVIOUS
    <3> QED BY <2>1, <3>1
  <2>7. rx' # <<>>
    <3>1. Len(rx') # 0
      BY <1>0, <2>1
    <3> QED BY <3>1
  <2>8. /\ UNCHANGED <<hdr, buf>>
        /\ UNCHANGED pc \/ (pc = "payload" /\ pc' = "sent")
    BY <1>4 DEF Arrives
  <2>9. /\ pc' = "readPayload" => rx' # <<>> /\ rx'[1] = Part("payload", hdr')
        /\ pc' # "readPayload" /\ rx' # <<>> => rx'[1].part = "header"
    BY <2>1, <2>5, <2>6, <2>7, <2>8 DEF WholeFrames, Part
  <2>10. /\ Reading' => FrameOK(hdr', events')
         /\ pc' = "callback" => buf' = hdr'.n
    BY <2>2, <2>8 DEF WholeFrames, Reading, FrameOK
  <2> QED BY <2>3, <2>4, <2>9, <2>10 DEF WholeFrames
<1> QED BY <1>1, <1>2, <1>3, <1>4

\* Only an event finds a listener of the application, the one of its slot.
LEMMA FoundByEvent ==
  ASSUME StackInv, FrameOK(hdr, events), NEW s \in 2..Slots, IsFound(s)
  PROVE  hdr.kind = "event" /\ hdr.id = s
<1>1. /\ s \in 1..Slots /\ 1 \in 1..Slots /\ 1 \in 1..(s - 1) /\ s # 0 /\ s # 1
      /\ nextId \in Nat
  BY SlotsAssumption DEF StackInv, TypeOK, MessageTypes
<1>2. listeners[s].in_use /\ IdOf(s) = hdr.id /\ listeners[s].id \in {0, s}
  BY <1>1 DEF IsFound, StackInv, SlotsInOrder
<1>3. CASE hdr.kind = "noroute"
  <2>1. listeners[1].in_use
    BY <1>1, <1>2, SlotsAssumption DEF StackInv, SlotsInOrder
  <2>2. IdOf(1) = hdr.id
    BY <1>3 DEF IdOf, FrameOK
  <2> QED BY <1>1, <2>1, <2>2 DEF IsFound
<1>4. CASE hdr.kind # "noroute"
  BY <1>1, <1>2, <1>4 DEF IdOf, FrameOK
<1> QED BY <1>3, <1>4

LEMMA EventsStep ==
  ASSUME StackInv, WholeFrames, EventsInOrder,
         ReadHeader \/ ReadPayload \/ Callback \/ Untouched
           \/ \E f \in Frame : Arrives(f) /\ NewFrame(f)
  PROVE  EventsInOrder'
<1>0. /\ NetTypes /\ rx \in Seq(Chunk) /\ events \in Nat /\ Len(rx) \in Nat
      /\ delivered \in Seq([slot : 2..Slots, n : Nat, buf : Nat]) /\ Len(delivered) \in Nat
  BY BoundsAssumption, LenProperties DEF StackInv, TypeOK, NetTypes, HistoryTypes, Chunk
<1>1. CASE ReadHeader \/ ReadPayload
  <2>1. rx # <<>> /\ rx' = Tail(rx) /\ UNCHANGED <<events, delivered>>
    BY <1>1 DEF ReadHeader, ReadPayload, history
  <2>2. /\ Head(rx) = rx[1] /\ 1 \in 1..Len(rx) /\ Len(rx') = Len(rx) - 1
        /\ \A k \in 1..Len(rx') : rx'[k] = rx[k + 1] /\ k + 1 \in 1..Len(rx) /\ 1 < k + 1
    BY <1>0, <2>1, NextChunk
  <2>3. \A j, k \in 1..Len(rx') : j < k => j + 1 < k + 1
    BY <1>0, <2>2
  <2>4. \A j, k \in 1..Len(rx') :
          j < k /\ rx'[j].frame.kind = "event" => Later(rx'[k], rx'[j].frame.id, rx'[j].frame.n)
    BY <2>2, <2>3 DEF EventsInOrder
  <2>5. \A d \in 1..Len(delivered) :
          /\ delivered[d].n \in 1..events
          /\ \A k \in 1..Len(rx') : Later(rx'[k], delivered[d].slot, delivered[d].n)
    BY <2>2 DEF EventsInOrder
  <2>6. HeardOnceInOrder'
    BY <2>1 DEF EventsInOrder, HeardOnceInOrder
  <2>7. CASE ReadHeader
    <3>1. hdr' = rx[1].frame /\ pc = "read" /\ rx[1].part = "header"
      BY <2>1, <2>2, <2>7 DEF ReadHeader, WholeFrames
    <3>2. hdr'.kind = "event" => \A k \in 1..Len(rx') : Later(rx'[k], hdr'.id, hdr'.n)
      BY <2>2, <3>1 DEF EventsInOrder
    <3>3. \A d \in 1..Len(delivered) :
            hdr'.kind = "event" /\ hdr'.id = delivered[d].slot => delivered[d].n < hdr'.n
      BY <2>2, <3>1 DEF EventsInOrder, Later
    <3> QED BY <2>1, <2>4, <2>5, <2>6, <3>2, <3>3 DEF EventsInOrder
  <2>8. CASE ReadPayload
    <3>1. UNCHANGED hdr /\ Reading
      BY <2>8 DEF ReadPayload, Reading
    <3>2. hdr.kind = "event" => \A k \in 1..Len(rx') : Later(rx'[k], hdr.id, hdr.n)
      BY <2>2, <3>1 DEF EventsInOrder
    <3> QED BY <2>1, <2>4, <2>5, <2>6, <3>1, <3>2 DEF EventsInOrder
  <2> QED BY <1>1, <2>7, <2>8
<1>2. CASE Callback
  <2>1. /\ UNCHANGED <<rx, events>> /\ ~Reading' /\ Reading
        /\ FrameOK(hdr, events) /\ buf = hdr.n
    BY <1>2 DEF Callback, netVars, Reading, WholeFrames
  <2>2. CASE delivered' = delivered
    BY <2>1, <2>2 DEF EventsInOrder, HeardOnceInOrder
  <2>3. ASSUME NEW s \in 2..Slots, IsFound(s), delivered' = Append(delivered, Event(s)),
               Event(s) \in [slot : 2..Slots, n : Nat, buf : Nat]
        PROVE  EventsInOrder'
    <3>1. hdr.kind = "event" /\ hdr.id = s /\ hdr.n \in 1..events
      BY <2>1, <2>3, FoundByEvent DEF FrameOK
    <3>2. /\ Len(delivered') = Len(delivered) + 1
          /\ \A d \in 1..Len(delivered) : delivered'[d] = delivered[d]
          /\ delivered'[Len(delivered) + 1] = Event(s)
      BY <1>0, <2>3, AppendProperties
    <3>3. /\ \A d \in 1..Len(delivered') : d \in 1..Len(delivered) \/ d = Len(delivered) + 1
          /\ \A d \in 1..Len(delivered) : ~(Len(delivered) + 1 < d)
          /\ ~(Len(delivered) + 1 < Len(delivered) + 1)
      BY <1>0, <3>2
    <3>4. Event(s).slot = s /\ Event(s).n = hdr.n /\ Event(s).buf = hdr.n
      BY <2>1 DEF Event
    <3>5. \A d \in 1..Len(delivered') :
            /\ delivered'[d].n \in 1..events
            /\ \A k \in 1..Len(rx) : Later(rx[k], delivered'[d].slot, delivered'[d].n)
      BY <2>1, <3>1, <3>2, <3>3, <3>4 DEF EventsInOrder
    <3>6. ASSUME NEW j \in 1..Len(delivered'), NEW k \in 1..Len(delivered'),
                 j < k, delivered'[j].slot = delivered'[k].slot
          PROVE  delivered'[j].n < delivered'[k].n
      <4>1. j \in 1..Len(delivered)
        BY <3>3, <3>6
      <4>2. CASE k \in 1..Len(delivered)
        BY <3>2, <3>6, <4>1, <4>2 DEF EventsInOrder, HeardOnceInOrder
      <4>3. CASE k = Len(delivered) + 1
        BY <2>1, <3>1, <3>2, <3>4, <3>6, <4>1, <4>3 DEF EventsInOrder
      <4> QED BY <3>3, <4>2, <4>3
    <3>7. \A k \in 1..Len(delivered') : delivered'[k].buf = delivered'[k].n
      BY <3>2, <3>3, <3>4 DEF EventsInOrder, HeardOnceInOrder
    <3>8. HeardOnceInOrder'
      BY <3>6, <3>7 DEF HeardOnceInOrder
    <3> QED BY <2>1, <3>5, <3>8 DEF EventsInOrder
  <2> QED BY <1>2, <2>2, <2>3, ListenerCalled
<1>3. CASE Untouched
  <2>1. UNCHANGED delivered /\ events <= events' /\ events' \in Nat
    BY <1>0, <1>3 DEF Untouched
  <2>2. \A d \in 1..Len(delivered) : delivered[d].n \in 1..events'
    BY <1>0, <2>1 DEF EventsInOrder
  <2>3. HeardOnceInOrder'
    BY <2>1 DEF EventsInOrder, HeardOnceInOrder
  <2>4. Reading' => Reading /\ UNCHANGED hdr
    BY <1>3 DEF Untouched, Reading
  <2>5. CASE rx' = <<>>
    <3>1. Len(rx') = 0
      BY <2>5
    <3> QED BY <2>1, <2>2, <2>3, <2>4, <3>1 DEF EventsInOrder
  <2>6. CASE rx' = rx
    BY <2>1, <2>2, <2>3, <2>4, <2>6 DEF EventsInOrder
  <2> QED BY <1>3, <2>5, <2>6 DEF Untouched
<1>4. ASSUME NEW f \in Frame, Arrives(f), NewFrame(f) PROVE EventsInOrder'
  <2>1. /\ Len(rx') = Len(rx) + 2
        /\ \A k \in 1..Len(rx) : rx'[k] = rx[k]
        /\ rx'[Len(rx) + 1] = Part("header", f) /\ rx'[Len(rx) + 2] = Part("payload", f)
        /\ \A k \in 1..Len(rx') : k \in 1..Len(rx) \/ k = Len(rx) + 1 \/ k = Len(rx) + 2
    BY <1>0, <1>4, FrameArrives DEF Arrives
  <2>2. \A slot, n : /\ n \in 1..events => Later(Part("header", f), slot, n)
                     /\ Later(Part("payload", f), slot, n)
    BY <1>0, <1>4 DEF NewFrame, Later, Part
  <2>3. /\ UNCHANGED <<hdr, delivered>> /\ (Reading' => Reading)
        /\ events <= events' /\ events' \in Nat
    BY <1>0, <1>4 DEF Arrives, NewFrame, Reading
  <2>4. ASSUME NEW slot, NEW n \in 1..events, \A k \in 1..Len(rx) : Later(rx[k], slot, n)
        PROVE  \A k \in 1..Len(rx') : Later(rx'[k], slot, n)
    BY <2>1, <2>2, <2>4
  <2>5. ASSUME NEW j \in 1..Len(rx'), NEW k \in 1..Len(rx'), j < k,
               rx'[j].frame.kind = "event"
        PROVE  Later(rx'[k], rx'[j].frame.id, rx'[j].frame.n)
    <3>1. CASE j \in 1..Len(rx) /\ k \in 1..Len(rx)
      BY <2>1, <2>5, <3>1 DEF EventsInOrder
    <3>2. CASE j \in 1..Len(rx) /\ k = Len(rx) + 1
      <4>1. rx[j].frame.n \in 1..events
        BY <2>1, <2>5, <3>2 DEF WholeFrames, FrameOK
      <4> QED BY <2>1, <2>2, <3>2, <4>1
    <3>3. CASE k = Len(rx) + 2
      BY <2>1, <2>2, <3>3
    <3>4. j \notin 1..Len(rx) => k = Len(rx) + 2
      BY <1>0, <2>1, <2>5
    <3> QED BY <2>1, <3>1, <3>2, <3>3, <3>4
  <2>6. Reading' /\ hdr.kind = "event" => \A k \in 1..Len(rx') : Later(rx'[k], hdr.id, hdr.n)
    <3>1. Reading /\ hdr.kind = "event" => hdr.n \in 1..events
      BY DEF WholeFrames, FrameOK
    <3> QED BY <2>3, <2>4, <3>1 DEF EventsInOrder
  <2>7. \A d \in 1..Len(delivered) :
          /\ delivered[d].n \in 1..events'
          /\ \A k \in 1..Len(rx') : Later(rx'[k], delivered[d].slot, delivered[d].n)
          /\ Reading' /\ hdr.kind = "event" /\ hdr.id = delivered[d].slot => delivered[d].n < hdr.n
    <3>1. SUFFICES ASSUME NEW d \in 1..Len(delivered)
                   PROVE  /\ delivered[d].n \in 1..events'
                          /\ \A k \in 1..Len(rx') : Later(rx'[k], delivered[d].slot, delivered[d].n)
                          /\ Reading' /\ hdr.kind = "event" /\ hdr.id = delivered[d].slot =>
                               delivered[d].n < hdr.n
      OBVIOUS
    <3>2. /\ delivered[d].n \in 1..events
          /\ \A k \in 1..Len(rx) : Later(rx[k], delivered[d].slot, delivered[d].n)
          /\ Reading' /\ hdr.kind = "event" /\ hdr.id = delivered[d].slot => delivered[d].n < hdr.n
      BY <2>3 DEF EventsInOrder
    <3>3. delivered[d].n \in 1..events'
      BY <1>0, <2>3, <3>2
    <3> QED BY <2>4, <3>2, <3>3
  <2>8. HeardOnceInOrder'
    BY <2>3 DEF EventsInOrder, HeardOnceInOrder
  <2> QED BY <2>3, <2>5, <2>6, <2>7, <2>8 DEF EventsInOrder
<1> QED BY <1>1, <1>2, <1>3, <1>4

LEMMA StreamInvariant ==
  ASSUME MaxCrash = 0
  PROVE  Spec => [](WholeFrames /\ EventsInOrder)
<1>1. Init => WholeFrames /\ EventsInOrder
  BY DEF Init, WholeFrames, EventsInOrder, Reading, HeardOnceInOrder
<1>2. StackInv /\ Steady /\ OneRoute /\ WholeFrames /\ EventsInOrder /\ [Next]_vars
        => (WholeFrames /\ EventsInOrder)'
  BY StreamStep, WholeFramesStep, EventsStep
<1> QED BY <1>1, <1>2, StackInvariant, SteadyInvariant, OneRouteInvariant, PTL DEF Spec

\* While the router does not crash, a listener hears every event at most once and
\* in the order of publishing, with the bytes that belong to the header.
THEOREM HeardOnceInOrderInvariant ==
  ASSUME MaxCrash = 0
  PROVE  Spec => []HeardOnceInOrder
<1>1. EventsInOrder => HeardOnceInOrder
  BY DEF EventsInOrder
<1> QED BY <1>1, StreamInvariant, PTL

-----------------------------------------------------------------------------
(* The response to a request.  Without timeouts a request is over only when its   *)
(* answer is, so that nothing is outstanding when the next one begins: what a      *)
(* provider works on, what is in the stream and what the inbox was called with are  *)
(* the request of the caller that waits, and only one of them at a time.            *)

Waiting ==
  /\ call = "request"
  /\ \/ pc \in {"wait", "read", "readPayload", "callback", "dispatched"}
     \/ pc = "sent" /\ err = "OK"
NoAnswers == \A k \in 1..Len(rx) : rx[k].frame.kind = "event"

OneAnswer ==
  /\ msg.topic = "request" <=> call = "request"
  /\ asked \subseteq {msg.n}
  /\ asked # {} => Waiting
  /\ \A k \in 1..Len(rx) : rx[k].frame.kind # "event" =>
       rx[k].frame.n = msg.n /\ Waiting /\ asked = {}
  /\ \A j, k \in 1..Len(rx) :
       j < k /\ rx[j].frame.kind # "event" /\ rx[k].frame.kind # "event" =>
         k = j + 1 /\ rx[j].part = "header"
  /\ pc = "callback" /\ hdr.kind # "event" =>
       Waiting /\ asked = {} /\ hdr.n = msg.n /\ NoAnswers
  /\ response # 0 =>
       pc = "dispatched" /\ Waiting /\ response = msg.n /\ asked = {} /\ NoAnswers
  /\ ResponseIsOurs

LEMMA OneAnswerStep ==
  ASSUME ~Timeouts, MaxCrash = 0, StackInv, Steady, OneRoute, WholeFrames, OneAnswer, [Next]_vars
  PROVE  OneAnswer'
<1>0. /\ NetTypes /\ rx \in Seq(Chunk) /\ events \in Nat /\ Len(rx) \in Nat /\ asked \subseteq Nat
      /\ err \in {"OK", "EPIPE", "ECONNRESET", "EINTR"}
  BY BoundsAssumption, LenProperties DEF StackInv, TypeOK, ThreadTypes, NetTypes, Chunk
<1>1. ASSUME UNCHANGED <<asked, response, last, msg, call>>, rx' \in {rx, <<>>},
             Waiting => Waiting', response = 0 \/ UNCHANGED pc,
             pc' = "callback" => pc = "callback" /\ UNCHANGED hdr
      PROVE  OneAnswer'
  <2>1. CASE rx' = rx
    BY <1>1, <2>1 DEF OneAnswer, NoAnswers, ResponseIsOurs
  <2>2. CASE rx' = <<>>
    <3>1. Len(rx') = 0
      BY <2>2
    <3> QED BY <1>1, <2>2, <3>1 DEF OneAnswer, NoAnswers, ResponseIsOurs
  <2> QED BY <1>1, <2>1, <2>2
<1>2. ~Waiting => asked = {} /\ NoAnswers /\ response = 0
  BY DEF OneAnswer, NoAnswers
<1>3. ASSUME asked' = {}, NoAnswers, UNCHANGED rx, response' = 0, pc' # "callback",
             msg'.topic = "request" <=> call' = "request", ResponseIsOurs'
      PROVE  OneAnswer'
  BY <1>3 DEF OneAnswer, NoAnswers
<1>4. ASSUME NEW f \in Frame, rx' = rx \o Chunks(f), UNCHANGED <<hdr, response, last, msg, call>>,
             \/ UNCHANGED <<pc, err, asked>> /\ f.kind = "event"
             \/ /\ Waiting' /\ asked' = {} /\ f.n = msg.n /\ NoAnswers /\ response = 0
                /\ pc' = "callback" => hdr.kind = "event"
      PROVE  OneAnswer'
  <2>1. /\ Len(rx') = Len(rx) + 2
        /\ \A k \in 1..Len(rx) : rx'[k] = rx[k]
        /\ rx'[Len(rx) + 1] = Part("header", f) /\ rx'[Len(rx) + 2] = Part("payload", f)
        /\ \A k \in 1..Len(rx') : k \in 1..Len(rx) \/ k = Len(rx) + 1 \/ k = Len(rx) + 2
    BY <1>0, <1>4, FrameArrives
  <2>2. /\ Part("header", f).frame = f /\ Part("payload", f).frame = f
        /\ Part("header", f).part = "header"
    BY DEF Part
  <2>3. CASE UNCHANGED <<pc, err, asked>> /\ f.kind = "event"
    <3>1. \A k \in 1..Len(rx') : rx'[k].frame.kind # "event" => k \in 1..Len(rx)
      BY <2>1, <2>2, <2>3
    <3>2. Waiting' = Waiting
      BY <1>4, <2>3 DEF Waiting
    <3>3. NoAnswers => NoAnswers'
      BY <2>1, <2>2, <2>3 DEF NoAnswers
    <3>4. \A k \in 1..Len(rx') : rx'[k].frame.kind # "event" =>
            rx'[k].frame.n = msg.n /\ Waiting /\ asked = {}
      BY <2>1, <3>1 DEF OneAnswer
    <3>5. \A j, k \in 1..Len(rx') :
            j < k /\ rx'[j].frame.kind # "event" /\ rx'[k].frame.kind # "event" =>
              k = j + 1 /\ rx'[j].part = "header"
      BY <2>1, <3>1 DEF OneAnswer
    <3> QED BY <1>4, <2>3, <3>2, <3>3, <3>4, <3>5 DEF OneAnswer, ResponseIsOurs
  <2>4. CASE /\ Waiting' /\ asked' = {} /\ f.n = msg.n /\ NoAnswers /\ response = 0
             /\ pc' = "callback" => hdr.kind = "event"
    <3>1. \A k \in 1..Len(rx') : rx'[k].frame.kind # "event" =>
            /\ k = Len(rx) + 1 \/ k = Len(rx) + 2
            /\ rx'[k].frame = f
      BY <2>1, <2>2, <2>4 DEF NoAnswers
    <3>2. \A j, k \in 1..Len(rx') :
            j < k /\ rx'[j].frame.kind # "event" /\ rx'[k].frame.kind # "event" =>
              k = j + 1 /\ rx'[j].part = "header"
      BY <1>0, <2>1, <2>2, <3>1
    <3> QED BY <1>4, <2>4, <3>1, <3>2 DEF OneAnswer, ResponseIsOurs
  <2> QED BY <1>4, <2>3, <2>4
<1>5. CASE SendHeader \/ SendBreaks \/ EnsureRoutingDaemon \/ Connect \/ ConnectGivesUp
  <2>1. ~Waiting /\ pc' # "callback" /\ UNCHANGED <<asked, last, msg, call, response>>
        /\ rx' \in {rx, <<>>}
    BY <1>5 DEF SendHeader, SendBreaks, EnsureRoutingDaemon, Connect, ConnectGivesUp, Attempted,
         history, Waiting
  <2> QED BY <1>1, <1>2, <2>1
<1>6. CASE Register \/ SubscribeSent
  <2>1. call = "create"
    BY <1>6 DEF Register, SubscribeSent, StackInv, Loops, Steady
  <2>2. ~Waiting /\ pc' # "callback" /\ UNCHANGED <<asked, last, msg, call, response, rx>>
    BY <1>6, <2>1 DEF Register, SubscribeSent, history, netVars, Waiting
  <2> QED BY <1>1, <1>2, <2>2
<1>7. CASE Registered
  <2>1. call = "create" /\ base # "dispatch" /\ call' = call
    BY <1>7 DEF Registered, StackInv, Loops, Steady
  <2>2. ~Waiting /\ UNCHANGED <<asked, last, response, rx>>
    BY <1>7, <2>1 DEF Registered, netVars, Waiting
  <2>3. pc' # "callback" /\ (UNCHANGED msg \/ msg' = Subscribe(Inbox))
    BY <1>7, <2>1 DEF Registered, AddListener, SendInternal, StackInv, TypeOK, ThreadTypes
  <2>4. msg'.topic = "request" <=> call' = "request"
    BY <2>1, <2>3 DEF OneAnswer, Subscribe
  <2> QED BY <1>2, <1>3, <2>1, <2>2, <2>4, <2>3 DEF OneAnswer, ResponseIsOurs
<1>8. CASE SendPayload
  <2>1. /\ pc = "payload" /\ pc' = "sent" /\ err' = "OK" /\ ~Waiting
        /\ UNCHANGED <<hdr, response, last, msg, call, regs>>
    BY <1>8 DEF SendPayload, Attempted, Waiting
  <2>2. CASE UNCHANGED <<asked, rx>>
    BY <1>1, <1>2, <2>1, <2>2
  <2>3. ASSUME NEW n \in 1..MaxSeq, msg = Request(n) PROVE Waiting' /\ n = msg.n
    BY <2>1, <2>3 DEF OneAnswer, Request, Waiting
  <2>4. ASSUME NEW n \in 1..MaxSeq, msg = Request(n), asked' = asked \cup {n}, UNCHANGED rx
        PROVE  OneAnswer'
    BY <1>2, <2>1, <2>3, <2>4 DEF OneAnswer, NoAnswers, ResponseIsOurs
  <2>5. ASSUME NEW n \in 1..MaxSeq, msg = Request(n), UNCHANGED asked,
               rx' = rx \o Chunks([id |-> 0, kind |-> "noroute", n |-> n])
        PROVE  OneAnswer'
    <3> DEFINE f == [id |-> 0, kind |-> "noroute", n |-> n]
    <3>1. f \in Frame
      BY BoundsAssumption DEF Frame
    <3> QED BY <1>2, <1>4, <2>1, <2>3, <2>5, <3>1
  <2>6. pc \in Sends
    BY <2>1 DEF Sends
  <2> QED BY <1>8, <2>2, <2>4, <2>5, <2>6, HandledKinds DEF SendPayload
<1>9. CASE ReadHeader \/ ReadPayload
  <2>1. /\ rx # <<>> /\ rx' = Tail(rx) /\ UNCHANGED <<asked, response, last, msg, call>>
        /\ response = 0
    BY <1>9 DEF ReadHeader, ReadPayload, history, OneAnswer
  <2>2. /\ Head(rx) = rx[1] /\ 1 \in 1..Len(rx) /\ Len(rx') = Len(rx) - 1
        /\ \A k \in 1..Len(rx') : rx'[k] = rx[k + 1] /\ k + 1 \in 1..Len(rx) /\ 1 < k + 1
    BY <1>0, <2>1, NextChunk
  <2>3. \A j, k \in 1..Len(rx') : (j < k => j + 1 < k + 1) /\ (k + 1 = j + 1 + 1 => k = j + 1)
    BY <1>0, <2>2
  <2>4. Waiting' = Waiting
    BY <1>9 DEF ReadHeader, ReadPayload, Waiting
  <2>5. \A k \in 1..Len(rx') : rx'[k].frame.kind # "event" =>
          rx'[k].frame.n = msg.n /\ Waiting /\ asked = {}
    BY <2>2 DEF OneAnswer
  <2>6. \A j, k \in 1..Len(rx') :
          j < k /\ rx'[j].frame.kind # "event" /\ rx'[k].frame.kind # "event" =>
            k = j + 1 /\ rx'[j].part = "header"
    BY <2>2, <2>3, SMTT(30) DEF OneAnswer
  <2>7. ASSUME pc' = "callback", hdr'.kind # "event"
        PROVE  Waiting /\ asked = {} /\ hdr'.n = msg.n /\ NoAnswers'
    <3>1. pc = "readPayload" /\ UNCHANGED hdr
      BY <1>9, <2>7 DEF ReadHeader, ReadPayload
    <3>2. rx[1] = Part("payload", hdr)
      BY <3>1 DEF WholeFrames
    <3>3. rx[1].frame = hdr /\ rx[1].part # "header"
      BY <3>2 DEF Part
    <3>4. Waiting /\ asked = {} /\ hdr.n = msg.n
      BY <2>2, <2>7, <3>1, <3>3 DEF OneAnswer
    <3>5. \A k \in 1..Len(rx') : rx[k + 1].frame.kind = "event"
      BY <2>2, <2>7, <3>1, <3>3 DEF OneAnswer
    <3> QED BY <2>2, <3>1, <3>4, <3>5 DEF NoAnswers
  <2> QED BY <2>1, <2>4, <2>5, <2>6, <2>7 DEF OneAnswer, ResponseIsOurs
<1>10. CASE Callback
  <2>1. /\ pc = "callback" /\ pc' = "dispatched"
        /\ UNCHANGED <<asked, rx, last, msg, call, hdr>> /\ response = 0 /\ buf = hdr.n
        /\ response' = response \/ (response' = buf /\ hdr.kind # "event")
    BY <1>10 DEF Callback, netVars, OneAnswer, WholeFrames
  <2>2. Waiting' = Waiting
    BY <2>1 DEF Waiting
  <2> QED BY <2>1, <2>2 DEF OneAnswer, NoAnswers, ResponseIsOurs
<1>11. CASE ReadFails
  BY <1>11 DEF ReadFails, Steady
<1>12. ASSUME NEW e, NEW r, Return(e, r), UNCHANGED <<asked, rx>>, asked = {}, NoAnswers, response' = 0,
              call = "request" /\ e = "OK" => r = msg.n
       PROVE  OneAnswer'
  <2>1. ResponseIsOurs'
    BY <1>12 DEF Return, OneAnswer, ResponseIsOurs
  <2>2. pc' = "idle" /\ msg'.topic # "request" /\ call' # "request"
    BY <1>12 DEF Return, Plain
  <2> QED BY <1>3, <1>12, <2>1, <2>2
<1>13. CASE MessageSent
  <2>1. CASE call = "request" /\ err = "OK"
    <3>1. pc' = "wait" /\ UNCHANGED <<asked, response, last, msg, call, rx>> /\ Waiting' /\ response = 0
      BY <1>13, <2>1 DEF MessageSent, netVars, Waiting, OneAnswer
    <3> QED BY <1>1, <3>1
  <2>2. CASE ~(call = "request" /\ err = "OK")
    <3>1. Return(err, 0) /\ UNCHANGED <<asked, rx, response>> /\ ~Waiting
      BY <1>13, <2>2 DEF MessageSent, netVars, Waiting
    <3> QED BY <1>2, <1>12, <2>2, <3>1
  <2> QED BY <2>1, <2>2
<1>14. CASE Wait
  <2>1. /\ pc = "wait" /\ pc' = "read" /\ UNCHANGED <<asked, response, last, msg, call, rx>>
    BY <1>14 DEF Wait, TimedDispatch, netVars
  <2> QED BY <1>1, <2>1 DEF Waiting, OneAnswer
<1>15. CASE Dispatched
  <2>1. CASE call = "request" /\ response = 0
    <3>1. pc = "dispatched" /\ pc' = "wait" /\ UNCHANGED <<asked, response, last, msg, call, rx>>
      BY <1>15, <2>1 DEF Dispatched, netVars
    <3> QED BY <1>1, <2>1, <3>1 DEF Waiting
  <2>2. CASE call = "request" /\ response # 0
    <3>1. Return("OK", response) /\ UNCHANGED <<asked, rx>> /\ response' = 0
      BY <1>15, <2>2 DEF Dispatched, netVars
    <3>2. response = msg.n /\ asked = {} /\ NoAnswers
      BY <2>2 DEF OneAnswer
    <3> QED BY <1>12, <3>1, <3>2
  <2>3. CASE call # "request"
    <3>1. Return("OK", 0) /\ UNCHANGED <<asked, rx, response>> /\ ~Waiting
      BY <1>15, <2>3 DEF Dispatched, netVars, Waiting
    <3> QED BY <1>2, <1>12, <2>3, <3>1
  <2> QED BY <2>1, <2>2, <2>3
<1>16. CASE Calls
  <2>1. pc = "idle" /\ ~Waiting
    BY <1>16 DEF Calls, CallSendMessage, CallSendRequest, CallAddListener, CallDispatch, Waiting
  <2>2. UNCHANGED <<asked, rx, response, last>> /\ pc' \in {"header", "read"}
    BY <1>16 DEF Calls, CallSendMessage, CallSendRequest, CallAddListener, CallDispatch, AddListener,
         SendInternal, TimedDispatch, history, netVars
  <2>3. msg'.topic = "request" <=> call' = "request"
    BY <1>16, <2>1 DEF Calls, CallSendMessage, CallSendRequest, CallAddListener, CallDispatch, AddListener,
         SendInternal, Plain, Request, Subscribe, OneAnswer, Steady
  <2> QED BY <1>2, <1>3, <2>1, <2>2, <2>3 DEF OneAnswer, ResponseIsOurs
<1>17. CASE ProviderAnswers
  <2>1. PICK q \in asked : asked' = asked \ {q} /\ rx' = rx \o Forwarded(1, "response", q)
    BY <1>17 DEF ProviderAnswers, Inbox
  <2> DEFINE f == [id |-> 1, kind |-> "response", n |-> q]
  <2>2. UNCHANGED <<pc, err, hdr, response, last, msg, call>>
    BY <1>17 DEF ProviderAnswers, clientVars, history
  <2>3. /\ q = msg.n /\ asked' = {} /\ Waiting /\ Waiting' /\ NoAnswers /\ response = 0
        /\ pc = "callback" => hdr.kind = "event"
    BY <2>1, <2>2 DEF OneAnswer, NoAnswers, Waiting
  <2>4. \/ Forwarded(1, "response", q) = <<>>
        \/ Forwarded(1, "response", q) = Chunks(f) /\ f \in Frame
    BY <1>0, ForwardedOnce
  <2>5. CASE Forwarded(1, "response", q) = <<>>
    <3>1. rx' = rx
      BY <1>0, <2>1, <2>5, ConcatEmptySeq
    <3> QED BY <2>2, <2>3, <3>1 DEF OneAnswer, NoAnswers, ResponseIsOurs
  <2>6. CASE Forwarded(1, "response", q) = Chunks(f) /\ f \in Frame
    BY <1>4, <2>1, <2>2, <2>3, <2>6
  <2> QED BY <2>4, <2>5, <2>6
<1>18. CASE ProviderDies
  <2>1. UNCHANGED <<pc, err, hdr, response, last, msg, call, rx>> /\ asked' \subseteq asked
    BY <1>18 DEF ProviderDies, clientVars, history
  <2>2. Waiting' = Waiting
    BY <2>1 DEF Waiting
  <2> QED BY <2>1, <2>2 DEF OneAnswer, NoAnswers, ResponseIsOurs
<1>19. CASE Publish
  <2>1. PICK slot \in 2..Slots : rx' = rx \o Forwarded(slot, "event", events + 1)
    BY <1>19 DEF Publish
  <2> DEFINE f == [id |-> slot, kind |-> "event", n |-> events + 1]
  <2>2. UNCHANGED <<pc, err, hdr, response, last, msg, call, asked>>
    BY <1>19 DEF Publish, clientVars, history
  <2>3. \/ Forwarded(slot, "event", events + 1) = <<>>
        \/ Forwarded(slot, "event", events + 1) = Chunks(f) /\ f \in Frame
    BY <1>0, ForwardedOnce
  <2>4. CASE Forwarded(slot, "event", events + 1) = <<>>
    <3>1. rx' = rx
      BY <1>0, <2>1, <2>4, ConcatEmptySeq
    <3> QED BY <1>1, <2>2, <3>1 DEF Waiting
  <2>5. CASE Forwarded(slot, "event", events + 1) = Chunks(f) /\ f \in Frame
    BY <1>4, <2>1, <2>2, <2>5
  <2> QED BY <2>3, <2>4, <2>5
<1>20. CASE RouterStarted \/ RouterListens \/ UNCHANGED vars
  <2>1. UNCHANGED <<pc, err, hdr, response, last, msg, call, asked, rx>>
    BY <1>20 DEF RouterStarted, RouterListens, clientVars, history, vars
  <2> QED BY <1>1, <2>1 DEF Waiting
<1>21. ~RouterCrashes /\ ~SocketReset
  BY NoCrash DEF StackInv, Steady, SocketReset
<1> QED BY <1>5, <1>6, <1>7, <1>8, <1>9, <1>10, <1>11, <1>13, <1>14, <1>15, <1>16, <1>17, <1>18,
       <1>19, <1>20, <1>21 DEF Next, Running, Environment

\* While the router does not crash and no time is over, rtConnection_SendRequest
\* returns the response to its own request, also when providers die or signals
\* cut requests short.
THEOREM ResponseIsOursInvariant ==
  ASSUME ~Timeouts, MaxCrash = 0
  PROVE  Spec => []ResponseIsOurs
<1>1. Init => OneAnswer
  BY DEF Init, OneAnswer, Plain, NoCall, ResponseIsOurs
<1>2. StackInv /\ Steady /\ OneRoute /\ WholeFrames /\ OneAnswer /\ [Next]_vars => OneAnswer'
  BY OneAnswerStep
<1>3. OneAnswer => ResponseIsOurs
  BY DEF OneAnswer
<1> QED BY <1>1, <1>2, <1>3, StackInvariant, SteadyInvariant, OneRouteInvariant, StreamInvariant,
       PTL DEF Spec
=============================================================================
