--------------------------- MODULE MCFrameStream ---------------------------
(* Instances of FrameStream for TLC: bytes of two bits, integers of two bytes. *)
EXTENDS FrameStream

Text(chars) == [priority |-> 2, category |-> 0, source |-> 1, text |-> chars]

\* A push with text and one without, and an answer of the server.
SomeMessages ==
  { [id |-> 6, type |-> MessageType.Push, push |-> Text(<<3>>)],
    [id |-> 0, type |-> MessageType.Push, push |-> Text(<<>>)],
    [id |-> 9, type |-> MessageType.Accepted, push |-> Text(<<>>)] }

OversizedPrefix == htonl(MaxSize + 1)
TooShort == EncodeFrame(htonl(1))
UnknownType == EncodeFrame(htonl(1) \o <<0>>)
NoPayload == EncodeFrame(htonl(1) \o <<MessageType.Push>>)
BadEnumerator == EncodeFrame(htonl(1) \o <<MessageType.Push, 0, 3, 0>> \o htonl(0))
TextTooLong == EncodeFrame(htonl(1) \o <<MessageType.Push, 0, 0, 0>> \o htonl(1))

AllBadFrames ==
  {OversizedPrefix, TooShort, UnknownType, NoPayload, BadEnumerator, TextTooLong}
=============================================================================
