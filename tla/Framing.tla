------------------------------- MODULE Framing -------------------------------
(***************************************************************************)
(* How a message becomes bytes and bytes become a message again:            *)
(* rtMessageHeader.c and rtEncoder.c, the sender of rtConnection.c, the     *)
(* router that reads and forwards, and the receiver of rtConnection.c.      *)
(* The stream between two of them keeps no boundaries: recv() returns any   *)
(* part of what was sent.  Buffers keep what an earlier frame left in them. *)
(***************************************************************************)
EXTENDS Naturals, Sequences, SequencesExt

CONSTANTS
  Base,      \* values of a byte
  TopicMax,  \* RTMSG_HEADER_MAX_TOPIC_LENGTH
  BufSize,   \* RTMSG_CLIENT_READ_BUFFER_SIZE, RTMSG_SEND_BUFFER_SIZE and the like
  Messages,  \* what the application may send: topic, reply topic, flags, payload
  SubId,     \* id of the receiver's subscription
  MaxSent    \* bound: messages sent

Byte == 0..(Base - 1)
Half == Base * Base  \* half of 32 bits
UInt16 == 0..(Half - 1)
UInt32 == 0..(Half * Half - 1)
Text == Seq(Byte \ {0})

FixedSize == 28  \* kSizeWithoutStringsInBytes

ASSUME BaseAssumption == Base \in Nat /\ Base >= 2 /\ TopicMax \in Nat \ {0} /\ BufSize \in Nat
\* The length of a header fits into 16 bits.
ASSUME HeaderAssumption == FixedSize + 2 * (TopicMax - 1) \in UInt16
\* A message, rtMessage_ToByteArray of an object, is never empty and holds no 0.
ASSUME MessagesAssumption ==
  \A m \in Messages : /\ m.topic \in Text /\ m.reply \in Text /\ m.payload \in Text
                      /\ m.flags \in UInt32
                      /\ m.payload # <<>> /\ Len(m.payload) \in UInt32
ASSUME SentAssumption == SubId \in UInt32 /\ MaxSent \in UInt32

VARIABLES
  sent,                       \* messages sent so far
  up,                         \* bytes on their way to the router
  state,                      \* clnt->state
  bytes_read, bytes_to_read,
  read_buffer, header,        \* of the sender's rtConnectedClient
  down,                       \* bytes on their way to the receiver
  phase,                      \* con->state, the part TimedDispatch reads
  got,                        \* bytes_read of ReadUntil
  recv_buffer, hdr,           \* of the receiver
  delivered                   \* what the callback was given

senderVars   == <<sent>>
routerVars   == <<state, bytes_read, bytes_to_read, read_buffer, header>>
receiverVars == <<phase, got, recv_buffer, hdr, delivered>>
vars == <<sent, up, state, bytes_read, bytes_to_read, read_buffer, header, down,
          phase, got, recv_buffer, hdr, delivered>>

-----------------------------------------------------------------------------
(* Buffers, strings and integers.                                           *)

Zeros(size) == [k \in 0..(size - 1) |-> 0]

\* memcpy() of bytes to b + at.
Copied(b, at, bytes) ==
  [k \in DOMAIN b |-> IF k >= at /\ k < at + Len(bytes) THEN bytes[k - at + 1] ELSE b[k]]

ByteAt(b, k) == IF k \in DOMAIN b THEN b[k] ELSE 0
Slice(b, at, n) == [k \in 1..n |-> ByteAt(b, at + k - 1)]

\* The string that starts at b + at.
StrAt(b, at) ==
  LET ends == {k \in at..Max(DOMAIN b) + 1 : k \in DOMAIN b => b[k] = 0}
  IN  Slice(b, at, IF ends = {} THEN 0 ELSE Min(ends) - at)

HostOrder(n) == <<n % Base, (n \div Base) % Base>>  \* Mutant of EncodedUInt16: no htons().
\* rtEncoder_EncodeUInt16 and EncodeInt32: the most significant byte first.
EncodedUInt16(n) == <<(n \div Base) % Base, n % Base>>
EncodedInt32(n) == EncodedUInt16(n \div Half) \o EncodedUInt16(n % Half)

\* rtEncoder_DecodeUInt16 and DecodeInt32.
DecodedUInt16(b, at) == Base * ByteAt(b, at) + ByteAt(b, at + 1)
DecodedInt32(b, at) == Half * DecodedUInt16(b, at) + DecodedUInt16(b, at + 2)

\* rtEncoder_EncodeString.
EncodedString(s) == EncodedInt32(Len(s)) \o s

-----------------------------------------------------------------------------
(* rtMessageHeader.c.                                                       *)

InitHeader ==
  [header_length |-> 0, sequence_number |-> 0, flags |-> 0, control_data |-> 0,
   payload_length |-> 0, topic |-> Zeros(TopicMax), reply_topic |-> Zeros(TopicMax)]

HeaderLength(h) == FixedSize + Len(StrAt(h.topic, 0)) + Len(StrAt(h.reply_topic, 0))

\* The bytes of rtMessageHeader_Encode; the first field is RTMSG_HEADER_VERSION.
Encode(h) ==
  EncodedUInt16(1) \o EncodedUInt16(HeaderLength(h)) \o EncodedInt32(h.sequence_number)
    \o EncodedInt32(h.flags) \o EncodedInt32(h.control_data) \o EncodedInt32(h.payload_length)
    \o EncodedString(StrAt(h.topic, 0)) \o EncodedString(StrAt(h.reply_topic, 0))

\* The strings are copied over what the header has, and not terminated.
Decode(h, b) ==
  LET topicLen == DecodedInt32(b, 20)
      replyAt  == 24 + topicLen
  IN  [header_length   |-> DecodedUInt16(b, 2),
       sequence_number |-> DecodedInt32(b, 4),
       flags           |-> DecodedInt32(b, 8),
       control_data    |-> DecodedInt32(b, 12),
       payload_length  |-> DecodedInt32(b, 16),
       topic           |-> Copied(h.topic, 0, Slice(b, 24, topicLen)),
       reply_topic     |-> Copied(h.reply_topic, 0,
                                  Slice(b, replyAt + 4, DecodedInt32(b, replyAt)))]

-----------------------------------------------------------------------------
Init ==
  /\ sent = <<>>
  /\ up = <<>> /\ down = <<>>
  /\ state = "preamble" /\ bytes_read = 0 /\ bytes_to_read = 4
  /\ read_buffer = Zeros(BufSize) /\ header = InitHeader
  /\ phase = "preamble" /\ got = 0
  /\ recv_buffer = Zeros(BufSize) /\ hdr = InitHeader
  /\ delivered = <<>>

Untruncated(s) == s  \* Mutant of Truncated.
\* strncpy() into a topic, of at most one byte less than it has.
Truncated(s) == SubSeq(s, 1, IF Len(s) < TopicMax THEN Len(s) ELSE TopicMax - 1)

\* rtConnection_SendInternal: the header and the payload.
SendInternal ==
  /\ Len(sent) < MaxSent
  /\ \E m \in Messages :
       LET h == [InitHeader EXCEPT
                   !.payload_length  = Len(m.payload),
                   !.topic           = Copied(@, 0, Truncated(m.topic)),
                   !.reply_topic     = Copied(@, 0, Truncated(m.reply)),
                   !.sequence_number = Len(sent) + 1,
                   !.flags           = m.flags]
       IN  /\ up' = up \o Encode(h) \o m.payload
           /\ sent' = Append(sent, m)
  /\ UNCHANGED <<routerVars, down, receiverVars>>

-----------------------------------------------------------------------------
(* The router.                                                              *)

\* rtRouted_ForwardMessage: strings are copied, the header is encoded anew.
Forwarded(h, b) ==
  LET new == [h EXCEPT !.control_data = SubId,
                       !.topic        = Copied(Zeros(TopicMax), 0, StrAt(h.topic, 0)),
                       !.reply_topic  = Copied(Zeros(TopicMax), 0, StrAt(h.reply_topic, 0))]
  IN  Encode(new) \o Slice(b, h.header_length, h.payload_length)

ReadKeepsHeader ==  \* Mutant of NextFrame: the header is not initialized again.
  /\ state' = "preamble" /\ bytes_read' = 0 /\ bytes_to_read' = 4
  /\ UNCHANGED header

NextFrame ==
  /\ state' = "preamble" /\ bytes_read' = 0 /\ bytes_to_read' = 4
  /\ header' = InitHeader

\* The part of a frame is complete and the next one, or the next frame, is read.
PartComplete(b) ==
  \/ /\ state = "preamble"
     /\ state' = "header"
     /\ bytes_to_read' = bytes_to_read + DecodedUInt16(b, 2) - 4
     /\ UNCHANGED <<header, down>>
  \/ /\ state = "header"
     /\ state' = "payload"
     /\ header' = Decode(header, b)
     /\ bytes_to_read' = bytes_to_read + DecodedInt32(b, 16)
     /\ UNCHANGED down
  \/ /\ state = "payload"
     /\ down' = down \o Forwarded(header, b)
     /\ NextFrame

\* rtConnectedClient_Read: one recv() of at most what the part still lacks.
Read ==
  \E n \in 1..Min({Len(up), bytes_to_read - bytes_read}) :
    LET b == Copied(read_buffer, bytes_read, SubSeq(up, 1, n)) IN
    /\ up' = SubSeq(up, n + 1, Len(up))
    /\ read_buffer' = b
    /\ IF bytes_read + n = bytes_to_read
       THEN /\ PartComplete(b)
            /\ state # "payload" => bytes_read' = bytes_read + n
       ELSE /\ bytes_read' = bytes_read + n
            /\ UNCHANGED <<state, bytes_to_read, header, down>>
    /\ UNCHANGED <<senderVars, receiverVars>>

-----------------------------------------------------------------------------
(* The receiver: rtConnection_TimedDispatch and ReadUntil.                  *)

\* Where in recv_buffer the part begins and how long it is.
PartAt   == [preamble |-> 0, header |-> 4, payload |-> hdr.header_length][phase]
PartSize == [preamble |-> 4, header |-> hdr.header_length - 4,
             payload  |-> hdr.payload_length][phase]

\* The byte after the payload is set to 0, for parsers.
Terminated(b) == Copied(b, hdr.header_length + hdr.payload_length, <<0>>)

\* The callback reads the payload as a string, as rtMessage_FromBytes does.
Callback(b) ==
  delivered' = Append(delivered,
    [topic |-> StrAt(hdr.topic, 0), reply |-> StrAt(hdr.reply_topic, 0),
     flags |-> hdr.flags, sequence_number |-> hdr.sequence_number,
     control_data |-> hdr.control_data, payload |-> StrAt(b, hdr.header_length)])

\* ReadUntil has read a part.
PartRead(b) ==
  \/ /\ phase = "preamble"
     /\ phase' = "header"
     /\ hdr' = [hdr EXCEPT !.header_length = DecodedUInt16(b, 2)]
     /\ recv_buffer' = b
     /\ UNCHANGED delivered
  \/ /\ phase = "header"
     /\ phase' = "payload"
     /\ hdr' = Decode(hdr, b)
     /\ recv_buffer' = b
     /\ UNCHANGED delivered
  \/ /\ phase = "payload"
     /\ phase' = "preamble"
     /\ recv_buffer' = Terminated(b)
     /\ Callback(Terminated(b))
     /\ hdr' = InitHeader

\* One recv() of ReadUntil.
ReadUntil ==
  \E n \in 1..Min({Len(down), PartSize - got}) :
    LET b == Copied(recv_buffer, PartAt + got, SubSeq(down, 1, n)) IN
    /\ down' = SubSeq(down, n + 1, Len(down))
    /\ IF got + n = PartSize
       THEN got' = 0 /\ PartRead(b)
       ELSE got' = got + n /\ recv_buffer' = b /\ UNCHANGED <<phase, hdr, delivered>>
    /\ UNCHANGED <<senderVars, up, routerVars>>

Next == SendInternal \/ Read \/ ReadUntil

Spec == Init /\ [][Next]_vars

-----------------------------------------------------------------------------
(* What makes framing correct.                                              *)

HeaderOK(h) ==
  /\ h.header_length \in UInt16
  /\ {h.sequence_number, h.flags, h.control_data, h.payload_length} \subseteq UInt32
  /\ {h.topic, h.reply_topic} \subseteq [0..(TopicMax - 1) -> Byte]

TypeOK ==
  /\ sent \in Seq(Messages)
  /\ {up, down} \subseteq Seq(Byte)
  /\ {state, phase} \subseteq {"preamble", "header", "payload"}
  /\ bytes_to_read \in 4..BufSize /\ bytes_read \in 0..bytes_to_read /\ got \in 0..BufSize
  /\ {read_buffer, recv_buffer} \subseteq [0..(BufSize - 1) -> Byte]
  /\ HeaderOK(header) /\ HeaderOK(hdr)

\* What a callback gets for a message: topics cut to their field, everything
\* else as it was sent, under the id of the subscription.
AsDelivered(n) ==
  [topic |-> Truncated(sent[n].topic), reply |-> Truncated(sent[n].reply),
   flags |-> sent[n].flags, sequence_number |-> n, control_data |-> SubId,
   payload |-> sent[n].payload]

\* However the streams are cut, the callback gets what was sent, in order, and
\* nothing that an earlier frame left in a header or in a buffer.
DeliveredAsSent ==
  Len(delivered) <= Len(sent) /\ \A n \in 1..Len(delivered) : delivered[n] = AsDelivered(n)

\* Buffers and fields keep their sizes: nothing is written behind a buffer, the 0
\* behind the payload included, and a topic keeps its terminator, as long as every
\* message leaves room for the 0.
BuffersHold ==
  /\ TypeOK
  /\ state = "payload" => bytes_to_read < BufSize
  /\ phase = "payload" => hdr.header_length + hdr.payload_length < BufSize
  /\ \A h \in {header, hdr} : h.topic[TopicMax - 1] = 0 /\ h.reply_topic[TopicMax - 1] = 0

\* Neither end waits for bytes that do not come, or stops while there are some:
\* what is on its way is asked for, and all frames have arrived when nothing is.
NothingWaitedFor ==
  /\ up # <<>> => bytes_read < bytes_to_read
  /\ down # <<>> => got < PartSize
  /\ up = <<>> /\ down = <<>> => Len(delivered) = Len(sent)
=============================================================================
