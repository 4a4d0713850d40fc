---------------------------- MODULE MavlinkParser ----------------------------
(***************************************************************************)
(* The byte-at-a-time MAVLink receiver of gcs/MAVLink.c (parser_push).      *)
(*                                                                         *)
(* One action, PushByte, is one call of parser_push.  The serial port is    *)
(* an arbitrary source of bytes: after a re-plug the first byte may be the  *)
(* middle of a frame, and line noise may look like a start marker.          *)
(*                                                                         *)
(* The sizes of the protocol are constants, so that TLC can use a scaled    *)
(* down protocol and the proofs cover the real one (headers of 6 and 10     *)
(* bytes, payloads up to 255, two CRC bytes, a 300-byte buffer).            *)
(***************************************************************************)
EXTENDS Integers, Sequences, FiniteSets

CONSTANTS
  Byte,          \* the byte values the port can deliver
  StxV1, StxV2,  \* the two start-of-frame markers
  HdrV1, HdrV2,  \* header length announced by each marker
  CrcLen,        \* length of the checksum at the end of a frame
  BufSize,       \* sizeof(connection->frame)
  Crc(_),        \* checksum of a header and payload, CrcLen bytes
  MaxStream      \* bound: how many bytes the port delivers

ASSUME ProtocolAssumption ==
  /\ Byte \subseteq Nat
  /\ StxV1 \in Byte /\ StxV2 \in Byte /\ StxV1 # StxV2
  /\ HdrV1 \in Nat /\ HdrV1 >= 2
  /\ HdrV2 \in Nat /\ HdrV2 >= HdrV1
  /\ CrcLen \in Nat /\ CrcLen >= 1
  /\ BufSize \in Nat
  /\ MaxStream \in Nat

\* The buffer holds the longest frame a length byte can announce: with the
\* real sizes 10 + 255 + 2 <= 300.
BufferFits == \A b \in Byte : HdrV2 + b + CrcLen <= BufSize

VARIABLES
  stream,            \* every byte delivered so far (history)
  frame,             \* connection->frame[0 .. frame_len-1]
  expected_len,      \* connection->expected_len, 0 while unknown
  header_len,        \* connection->header_len
  accepted,          \* frames given to decode_frame: their place in stream
  packets_received,  \* telemetry->packets_received
  packets_bad_crc    \* telemetry->packets_bad_crc

vars == <<stream, frame, expected_len, header_len, accepted,
          packets_received, packets_bad_crc>>

Marker(b) == b \in {StxV1, StxV2}

HeaderLen(stx) == IF stx = StxV1 THEN HdrV1 ELSE HdrV2

\* The whole length of the frame whose first two bytes are stx and len.
FrameLen(stx, len) == HeaderLen(stx) + len + CrcLen

\* The checksum at the end of f is the one computed over the rest of f.
CrcMatches(f) ==
  SubSeq(f, Len(f) - CrcLen + 1, Len(f)) = Crc(SubSeq(f, 1, Len(f) - CrcLen))

-----------------------------------------------------------------------------
Init ==
  /\ stream = <<>>
  /\ frame = <<>>
  /\ expected_len = 0
  /\ header_len = 0
  /\ accepted = <<>>
  /\ packets_received = 0
  /\ packets_bad_crc = 0

\* Where the byte b goes: it starts a frame or continues the current one.
\* (Mutant: a marker restarts the frame wherever it appears.)
RestartsOnMarker(b) == frame = <<>> \/ Marker(b)
Starts(b) == frame = <<>>

\* The header length once b is stored.  (Mutant: kept from an earlier frame.)
StaleHeaderLen(b) == IF header_len = 0 THEN HeaderLen(b) ELSE header_len
HeaderAfter(b) == IF Starts(b) THEN HeaderLen(b) ELSE header_len

\* The frame and the expected length once b is stored.
FrameAfter(b) == IF Starts(b) THEN <<b>> ELSE Append(frame, b)

ExpectedAfter(b) ==
  IF Len(FrameAfter(b)) = 2 THEN HeaderAfter(b) + b + CrcLen
  ELSE IF Starts(b) THEN 0 ELSE expected_len

\* What is left in the buffer of the completed frame f.  (Mutant: frame_len
\* is not reset.)
KeepsFrame(f) == f
AfterComplete(f) == <<>>

\* Whether the completed frame f is decoded.  (Mutant: the comparison is lost.)
AcceptsAny(f) == TRUE
Accepts(f) == CrcMatches(f)

\* Between frames a byte that is no marker is dropped; so is a byte for
\* which the buffer has no room, together with what the buffer holds.
DropByte(b) ==
  /\ IF frame = <<>> THEN ~Marker(b) ELSE Len(frame) >= BufSize
  /\ frame' = <<>>
  /\ expected_len' = 0
  /\ UNCHANGED <<header_len, accepted, packets_received, packets_bad_crc>>

HasRoom(b) == IF frame = <<>> THEN Marker(b) ELSE Len(frame) < BufSize

\* A byte is stored and the frame is still incomplete.
StoreByte(b) ==
  /\ HasRoom(b)
  /\ ExpectedAfter(b) = 0 \/ Len(FrameAfter(b)) < ExpectedAfter(b)
  /\ frame' = FrameAfter(b)
  /\ header_len' = HeaderAfter(b)
  /\ expected_len' = ExpectedAfter(b)
  /\ UNCHANGED <<accepted, packets_received, packets_bad_crc>>

\* A byte completes a frame: check the CRC, decode or count, reset.
CompleteFrame(b) ==
  LET f == FrameAfter(b)
  IN  /\ HasRoom(b)
      /\ ExpectedAfter(b) # 0 /\ Len(f) >= ExpectedAfter(b)
      /\ frame' = AfterComplete(f)
      /\ expected_len' = 0
      /\ header_len' = HeaderAfter(b)
      /\ \/ /\ Accepts(f)
            /\ accepted' = Append(accepted,
                             [last |-> Len(stream) + 1, len |-> Len(f)])
            /\ packets_received' = packets_received + 1
            /\ UNCHANGED packets_bad_crc
         \/ /\ ~Accepts(f)
            /\ packets_bad_crc' = packets_bad_crc + 1
            /\ UNCHANGED <<accepted, packets_received>>

PushByte(b) ==
  /\ Len(stream) < MaxStream
  /\ stream' = Append(stream, b)
  /\ DropByte(b) \/ StoreByte(b) \/ CompleteFrame(b)

Next == \E b \in Byte : PushByte(b)

Spec == Init /\ [][Next]_vars

-----------------------------------------------------------------------------
Types ==
  /\ stream \in Seq(Byte)
  /\ frame \in Seq(Byte)
  /\ expected_len \in Nat
  /\ header_len \in {0, HdrV1, HdrV2}
  /\ accepted \in Seq([last : Nat, len : Nat])
  /\ packets_received \in Nat
  /\ packets_bad_crc \in Nat

\* The parser's fields agree with each other: the expected length is known
\* from the second byte on, and is what the header says.
FrameState ==
  /\ frame # <<>> => /\ Marker(frame[1])
                     /\ header_len = HeaderLen(frame[1])
  /\ expected_len = IF Len(frame) < 2 THEN 0 ELSE FrameLen(frame[1], frame[2])
  /\ expected_len # 0 => Len(frame) < expected_len

\* The type invariant of parser_push's state: every field has its type and
\* frame_len, expected_len and header_len describe the same frame.
TypeOK == Types /\ FrameState

\* The buffer is never full when a byte arrives, so parser_push never stores
\* past connection->frame and its overflow branch, which would silently cut a
\* frame in two, is dead.
OverflowBranchDead == Len(frame) < BufSize

\* What is being assembled is exactly the tail of the byte stream: no byte
\* is skipped, doubled or kept from an earlier frame.
FrameIsStreamTail ==
  /\ Len(frame) <= Len(stream)
  /\ \A i \in 1..Len(frame) : frame[i] = stream[Len(stream) - Len(frame) + i]

\* The bytes of the n-th accepted frame.
Segment(n) ==
  SubSeq(stream, accepted[n].last - accepted[n].len + 1, accepted[n].last)

\* Everything handed to decode_frame is a contiguous piece of the stream
\* that starts with a marker, has the length its header announces and a
\* correct checksum: stale bytes of a previous frame never reach the decoder.
AcceptedAreFrames ==
  \A n \in 1..Len(accepted) :
    /\ Marker(Segment(n)[1])
    /\ accepted[n].len = FrameLen(Segment(n)[1], Segment(n)[2])
    /\ CrcMatches(Segment(n))

\* Accepted frames do not share bytes, nor with the frame being assembled,
\* and they reach decode_frame in stream order.
AcceptedAreDisjoint ==
  /\ \A n \in 1..Len(accepted) :
       /\ accepted[n].len <= accepted[n].last
       /\ accepted[n].last + Len(frame) <= Len(stream)
  /\ \A m, n \in 1..Len(accepted) :
       m < n => accepted[m].last <= accepted[n].last - accepted[n].len

-----------------------------------------------------------------------------
\* A definition over the whole stream, without the parser's state.  The last
\* byte of the frame that starts at p: its length byte says which it is, and
\* until that byte is there at least one is to come.
Markers == {p \in 1..Len(stream) : Marker(stream[p])}
EndOf(p) ==
  IF p < Len(stream) THEN p + FrameLen(stream[p], stream[p + 1]) - 1 ELSE p + 1

\* The starts of frames, when the stream is cut into frames from left to
\* right: all markers that are in no frame that starts before them.
Cut(starts) ==
  \A p \in Markers : p \in starts <=> \A q \in starts : q < p => EndOf(q) < p

Complete(starts) == {p \in starts : EndOf(p) <= Len(stream)}
Good(starts) == {p \in Complete(starts) : CrcMatches(SubSeq(stream, p, EndOf(p)))}

\* parser_push accepts exactly the frames that cutting the whole stream from
\* left to right finds, counts them in packets_received and every other
\* complete one as a bad CRC, and is assembling the one the stream ends in.
Matches(starts) ==
  /\ {accepted[n] : n \in 1..Len(accepted)} =
       {[last |-> EndOf(p), len |-> EndOf(p) - p + 1] : p \in Good(starts)}
  /\ packets_received = Cardinality(Good(starts))
  /\ packets_bad_crc = Cardinality(Complete(starts) \ Good(starts))
  /\ starts \ Complete(starts) =
       IF frame = <<>> THEN {} ELSE {Len(stream) - Len(frame) + 1}
MatchesReference == \E starts \in SUBSET Markers : Cut(starts) /\ Matches(starts)
=============================================================================
