---------------------------- MODULE FrameStream ----------------------------
(***************************************************************************)
(* The frame protocol: network/protocol/protocol.cpp and                   *)
(* common/serialization/binary_push_serializer.cpp, from the frames a peer *)
(* sends to the messages ClientApp::onDataReceived gets out of Feed.       *)
(*                                                                         *)
(* A byte is a number below Radix.  TCP gives the client the bytes of the  *)
(* frames in order but in chunks of any size.  Every uint32_t of the       *)
(* format has IntSize bytes, in network order.  ProtocolAdapter belongs to *)
(* ClientApp, not to the connection: its buffer outlives a reconnection.   *)
(***************************************************************************)
EXTENDS Integers, Sequences, SequencesExt

CONSTANTS
  Messages,    \* [id, type, push] that a peer sends with SerializeToFrame
  BadFrames,   \* frames that Feed rejects
  IntSize,     \* sizeof(uint32_t): LENGTH_PREFIX_SIZE, MESSAGE_ID_SIZE
  Radix,       \* values of a byte
  MaxSize,     \* MAX_MESSAGE_SIZE
  ChunkSize,   \* size of TcpClient::readBuffer_
  MaxFrames,   \* bound: frames the peer sends
  MaxBreaks    \* bound: reconnections

\* How many values k bytes have.
Power[k \in 0 .. IntSize] == IF k = 0 THEN 1 ELSE Power[k - 1] * Radix

Byte == 0 .. Radix - 1
Uint32 == 0 .. Power[IntSize] - 1

\* A byte holds the enumerators and types below.
ASSUME SizeAssumption ==
  /\ IntSize \in Nat \ {0} /\ Radix \in Nat /\ Radix > 3 /\ ChunkSize \in Nat \ {0}
  /\ MaxSize \in Nat \cap Uint32
ASSUME BoundAssumption == MaxFrames \in Nat /\ MaxBreaks \in Nat

\* A function that may throw returns <<>> when it does, and else <<result>>.  An
\* std::optional is written the same way.
Thrown == <<>>

MessageType == [Push |-> 1, Accepted |-> 2, Error |-> 3]
Types == {MessageType.Push, MessageType.Accepted, MessageType.Error}

Enumerators == 0 .. 2  \* of PushPriority, PushCategory and PushSource alike
Push == [priority : Enumerators, category : Enumerators, source : Enumerators,
         text : Seq(Byte)]

-----------------------------------------------------------------------------
(* The formats. *)

htonl(n) == [i \in 1 .. IntSize |-> (n \div Power[IntSize - i]) % Radix]

ntohl(bytes) ==
  LET value[k \in 0 .. Len(bytes)] ==
        IF k = 0 THEN 0 ELSE value[k - 1] * Radix + bytes[k]
  IN  value[Len(bytes)]

Serialize(push) ==
  <<push.priority, push.category, push.source>> \o htonl(Len(push.text)) \o push.text

\* Mutant: priority and category are read in the wrong order.
Deserialize_Swapped(data) ==
  LET header == 3 + IntSize
      size == ntohl(SubSeq(data, 4, header))
  IN  IF \/ Len(data) < header
         \/ \E i \in 1 .. 3 : data[i] \notin Enumerators
         \/ header + size > Len(data)
      THEN Thrown
      ELSE << [priority |-> data[2], category |-> data[1], source |-> data[3],
               text |-> SubSeq(data, header + 1, header + size)] >>

\* Bytes that follow the text are ignored.
Deserialize(data) ==
  LET header == 3 + IntSize
      size == ntohl(SubSeq(data, 4, header))
  IN  IF \/ Len(data) < header
         \/ \E i \in 1 .. 3 : data[i] \notin Enumerators
         \/ header + size > Len(data)
      THEN Thrown
      ELSE << [priority |-> data[1], category |-> data[2], source |-> data[3],
               text |-> SubSeq(data, header + 1, header + size)] >>

EncodeMessage(m, payload) == htonl(m.id) \o <<m.type>> \o payload

\* Message::DecodeMessage, and what Feed makes of the message.
DecodeMessage(data) ==
  LET header == IntSize + 1
      type == data[header]
      push == IF type = MessageType.Push
              THEN Deserialize(SubSeq(data, header + 1, Len(data))) ELSE <<>>
  IN  IF \/ Len(data) < header
         \/ type \notin Types
         \/ type = MessageType.Push /\ (Len(data) = header \/ push = Thrown)
      THEN Thrown
      ELSE << [id |-> ntohl(SubSeq(data, 1, IntSize)), type |-> type, push |-> push] >>

EncodeFrame(payload) == htonl(Len(payload)) \o payload
SerializeToFrame(m) == EncodeFrame(EncodeMessage(m, Serialize(m.push)))

\* What the receiver is to make of a message: only a push is decoded.
AsDecoded(m) ==
  [id |-> m.id, type |-> m.type,
   push |-> IF m.type = MessageType.Push THEN <<m.push>> ELSE <<>>]

\* The length in the prefix; the buffer holds at least the prefix.
PayloadSize(bytes) == ntohl(SubSeq(bytes, 1, IntSize))

HasPrefix(bytes) == Len(bytes) >= IntSize
Oversized(bytes) == HasPrefix(bytes) /\ PayloadSize(bytes) > MaxSize
HasFrame(bytes) ==
  HasPrefix(bytes) /\ ~Oversized(bytes) /\ Len(bytes) >= IntSize + PayloadSize(bytes)

FrameData(bytes) == SubSeq(bytes, IntSize + 1, IntSize + PayloadSize(bytes))
AfterFrame(bytes) == SubSeq(bytes, IntSize + PayloadSize(bytes) + 1, Len(bytes))

\* What Feed throws at: it begins with a length too large, or with a frame whose message
\* or push cannot be decoded.
Bad(bytes) ==
  Oversized(bytes) \/ (HasFrame(bytes) /\ DecodeMessage(FrameData(bytes)) = Thrown)

\* EncodeFrame refuses a payload that is too large.
ASSUME MessageAssumption ==
  \A m \in Messages :
    /\ m \in [id : Uint32, type : Types, push : Push]
    /\ Len(EncodeMessage(m, Serialize(m.push))) <= MaxSize

\* A bad frame is one that Feed throws at, and not one with more behind it.
ASSUME BadFrameAssumption ==
  \A bytes \in BadFrames :
    bytes \in Seq(Byte) /\ Bad(bytes) /\ (Oversized(bytes) \/ AfterFrame(bytes) = <<>>)

-----------------------------------------------------------------------------
VARIABLES
  wire,      \* bytes sent on the connection and not yet read
  buffer,    \* ProtocolAdapter::buffer_
  received,  \* what Feed has returned
  pending,   \* history: the frames whose bytes are in the buffer or on the wire
  aligned,   \* history: what is in the buffer begins where a frame begins
  sent,      \* history: the messages sent, bad frames left out
  dropped,   \* history: a whole message was thrown away
  merged,    \* history: some chunk held the end of more than one frame
  frames, breaks  \* bounded counters

vars == <<wire, buffer, received, pending, aligned, sent, dropped, merged,
          frames, breaks>>

Frame(bytes, message) == [bytes |-> bytes, message |-> message]

Bytes(fs) == FlattenSeq([k \in 1 .. Len(fs) |-> fs[k].bytes])
Decodable(fs) == FlattenSeq([k \in 1 .. Len(fs) |-> fs[k].message])

\* How many frames of fs end within the first n bytes, and whether one ends there.
EndWithin(fs, n) == Max({k \in 0 .. Len(fs) : Len(Bytes(SubSeq(fs, 1, k))) <= n})
EndAt(fs, n) == Len(Bytes(SubSeq(fs, 1, EndWithin(fs, n)))) = n

Init ==
  /\ wire = <<>> /\ buffer = <<>> /\ received = <<>>
  /\ pending = <<>> /\ aligned = TRUE
  /\ sent = <<>> /\ dropped = FALSE /\ merged = FALSE
  /\ frames = 0 /\ breaks = 0

Transmit(f) ==
  /\ frames < MaxFrames
  /\ frames' = frames + 1
  /\ wire' = wire \o f.bytes
  /\ pending' = IF aligned THEN Append(pending, f) ELSE pending
  /\ UNCHANGED <<buffer, received, aligned, dropped, merged, breaks>>

Send ==
  \E m \in Messages :
    /\ Transmit(Frame(SerializeToFrame(m), <<AsDecoded(m)>>))
    /\ sent' = Append(sent, AsDecoded(m))

SendBad ==
  \E bytes \in BadFrames : Transmit(Frame(bytes, <<>>)) /\ UNCHANGED sent

-----------------------------------------------------------------------------
(* Feed, and what becomes of bytes, the buffer with the chunk at its end. *)

\* Mutant: the bytes of an incomplete frame are not kept.
Wait_Forgets(bytes) ==
  /\ ~Oversized(bytes) /\ ~HasFrame(bytes)
  /\ buffer' = <<>>
  /\ UNCHANGED <<received, pending, aligned, dropped>>

\* TryDecodeFrame returns false.
Wait(bytes) ==
  /\ ~Oversized(bytes) /\ ~HasFrame(bytes)
  /\ buffer' = bytes
  /\ UNCHANGED <<received, pending, aligned, dropped>>

\* Mutant: a frame that was decoded stays in the buffer.
Deliver_Keeps(bytes) ==
  /\ HasFrame(bytes) /\ ~Bad(bytes)
  /\ buffer' = bytes
  /\ received' = received \o DecodeMessage(FrameData(bytes))
  /\ UNCHANGED <<aligned, dropped, pending>>

\* Mutant: the payload is taken for a push whatever the type of the message.
Deliver_AnyType(bytes) ==
  LET data == FrameData(bytes)
      push == Deserialize(SubSeq(data, IntSize + 2, Len(data)))
  IN  /\ HasFrame(bytes) /\ ~Bad(bytes)
      /\ buffer' = AfterFrame(bytes)
      /\ received' = Append(received, [DecodeMessage(data)[1] EXCEPT !.push = push])
      /\ pending' = IF aligned THEN Tail(pending) ELSE pending
      /\ UNCHANGED <<aligned, dropped>>

\* One frame is decoded and returned; another one behind it stays in the buffer.
Deliver(bytes) ==
  /\ HasFrame(bytes) /\ ~Bad(bytes)
  /\ buffer' = AfterFrame(bytes)
  /\ received' = received \o DecodeMessage(FrameData(bytes))
  /\ pending' = IF aligned THEN Tail(pending) ELSE pending
  /\ UNCHANGED <<aligned, dropped>>

\* An exception empties the buffer, with the frames behind the bad one.
Clear(bytes) ==
  LET k == EndWithin(pending, Len(bytes)) IN
  /\ Bad(bytes)
  /\ buffer' = <<>>
  /\ aligned' = (aligned /\ EndAt(pending, Len(bytes)))
  /\ pending' = IF aligned' THEN SubSeq(pending, k + 1, Len(pending)) ELSE <<>>
  /\ dropped' = (dropped \/ Decodable(SubSeq(pending, 1, k)) # <<>>)
  /\ UNCHANGED received

Feed ==
  \E n \in 1 .. ChunkSize :
    LET bytes == buffer \o SubSeq(wire, 1, n)
    IN  /\ n <= Len(wire)
        /\ wire' = SubSeq(wire, n + 1, Len(wire))
        /\ merged' = (merged \/ EndWithin(pending, Len(bytes)) >
                                   EndWithin(pending, Len(buffer)) + 1)
        /\ Wait(bytes) \/ Deliver(bytes) \/ Clear(bytes)
        /\ UNCHANGED <<sent, frames, breaks>>

\* The connection is lost and made again; what was on the way is lost with it.
Reconnect ==
  LET k == EndWithin(pending, Len(buffer)) IN
  /\ breaks < MaxBreaks
  /\ breaks' = breaks + 1
  /\ wire' = <<>>
  /\ aligned' = (aligned /\ EndAt(pending, Len(buffer)))
  /\ pending' = IF aligned' THEN SubSeq(pending, 1, k) ELSE <<>>
  /\ dropped' = (dropped \/ Decodable(SubSeq(pending, k + 1, Len(pending))) # <<>>)
  /\ UNCHANGED <<buffer, received, sent, merged, frames>>

Next == Send \/ SendBad \/ Feed \/ Reconnect

Spec == Init /\ [][Next]_vars

-----------------------------------------------------------------------------
(* Properties. *)

\* What Feed may return: a push comes with every message of type Push, and with no other.
Decoded ==
  {d \in [id : Uint32, type : Types, push : Seq(Push)] :
     IF d.type = MessageType.Push THEN Len(d.push) = 1 ELSE d.push = <<>>}

TypeOK ==
  /\ wire \in Seq(Byte) /\ buffer \in Seq(Byte)
  /\ received \in Seq(Decoded)
  /\ aligned \in BOOLEAN /\ dropped \in BOOLEAN /\ merged \in BOOLEAN
  /\ frames \in 0 .. MaxFrames /\ breaks \in 0 .. MaxBreaks

\* However the stream is cut into chunks, the buffer and what is still on the way are
\* exactly the frames not yet decoded: no byte is lost, repeated or taken for part of
\* another frame, over bad frames and reconnections too as long as what they throw
\* away ends where a frame ends.  While nothing is thrown away, messages arrive as
\* they were sent, once and in order.
StreamPreserved ==
  /\ aligned => buffer \o wire = Bytes(pending)
  /\ aligned /\ ~dropped => received \o Decodable(pending) = sent

\* Feed returns at most one message, but a receiver none of whose chunks ended two
\* frames is never behind: no complete frame waits in the buffer.
NoLag == aligned /\ ~merged => ~HasFrame(buffer)

\* README.md:293, after connecting the client receives the pushes: what has been read
\* from a connection that never broke and carried no bad frame has been received.
ArrivedIsReceived == wire = <<>> /\ breaks = 0 /\ Len(sent) = frames => received = sent

=============================================================================
