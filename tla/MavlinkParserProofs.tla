------------------------- MODULE MavlinkParserProofs -------------------------
(***************************************************************************)
(* Proofs about MavlinkParser for every protocol size, byte stream and      *)
(* checksum.  The inductive invariant is TypeOK (the parser's fields agree  *)
(* with the bytes in the buffer) with FrameIsStreamTail (the buffer is the  *)
(* tail of the stream) and the statements about the accepted frames.  On top *)
(* of it, MatchesReference is carried from one byte to the next: the cut of  *)
(* the stream grows by at most the marker at its end (CutGrows), and only    *)
(* the frame being assembled can become complete (CutContinues).             *)
(***************************************************************************)
EXTENDS MavlinkParser, SequenceTheorems, FiniteSetTheorems, WellFoundedInduction, TLAPS

LEMMA OneOrMore == \A n \in Nat : n < 2 \/ n >= 2
  OBVIOUS

LEMMA HeaderLenBounds ==
  ASSUME NEW x
  PROVE  /\ HeaderLen(x) \in {HdrV1, HdrV2}
         /\ HeaderLen(x) \in Nat /\ HeaderLen(x) >= 2 /\ HeaderLen(x) <= HdrV2
  BY ProtocolAssumption DEF HeaderLen

LEMMA FrameLenBounds ==
  ASSUME NEW x, NEW l \in Byte
  PROVE  /\ FrameLen(x, l) \in Nat
         /\ FrameLen(x, l) >= 3
         /\ FrameLen(x, l) <= HdrV2 + l + CrcLen
<1>1. l \in Nat /\ CrcLen \in Nat /\ CrcLen >= 1 /\ HdrV2 \in Nat
  BY ProtocolAssumption
<1> QED BY <1>1, HeaderLenBounds DEF FrameLen

\* The last step of CompleteFrame, after which the parser is idle again.
LEMMA CompleteIsIdle ==
  ASSUME TypeOK, NEW b \in Byte, CompleteFrame(b)
  PROVE  /\ frame' = <<>> /\ expected_len' = 0
         /\ frame # <<>>
         /\ header_len' = header_len
         /\ Len(frame) + 1 = FrameLen(Append(frame, b)[1], Append(frame, b)[2])
         /\ FrameAfter(b) = Append(frame, b)
<1> USE ProtocolAssumption DEF TypeOK, Types, FrameState
<1>1. frame # <<>>
  BY DEF CompleteFrame, ExpectedAfter, FrameAfter, Starts
<1>2. /\ FrameAfter(b) = Append(frame, b)
      /\ header_len' = header_len
      /\ frame' = <<>> /\ expected_len' = 0
  BY <1>1 DEF CompleteFrame, FrameAfter, Starts, HeaderAfter, AfterComplete
<1>3. Len(frame) \in Nat /\ Len(frame) >= 1 /\ Len(Append(frame, b)) = Len(frame) + 1
  BY <1>1
<1>4. CASE Len(frame) < 2
  <2>1. ExpectedAfter(b) = HeaderLen(frame[1]) + b + CrcLen
    BY <1>1, <1>2, <1>3, <1>4 DEF ExpectedAfter, HeaderAfter, Starts
  <2>2. HeaderLen(frame[1]) \in Nat /\ HeaderLen(frame[1]) >= 2 /\ b \in Nat
    BY HeaderLenBounds
  <2>3. Len(FrameAfter(b)) >= ExpectedAfter(b)
    BY DEF CompleteFrame
  <2> QED BY <2>1, <2>2, <2>3, <1>2, <1>3, <1>4
<1>5. CASE Len(frame) >= 2
  <2>1. ExpectedAfter(b) = FrameLen(frame[1], frame[2])
    BY <1>1, <1>2, <1>3, <1>5 DEF ExpectedAfter, Starts
  <2>2. FrameLen(frame[1], frame[2]) \in Nat /\ FrameLen(frame[1], frame[2]) >= 3
    <3>1. frame[2] \in Byte
      BY <1>5
    <3> QED BY <3>1, FrameLenBounds
  <2>3. Len(frame) + 1 >= FrameLen(frame[1], frame[2])
    BY <2>1, <1>2, <1>3 DEF CompleteFrame
  <2>4. expected_len = FrameLen(frame[1], frame[2])
    BY <1>3, <1>5
  <2>5. Len(frame) < FrameLen(frame[1], frame[2])
    BY <2>2, <2>4
  <2>6. Append(frame, b)[1] = frame[1] /\ Append(frame, b)[2] = frame[2]
    BY <1>5
  <2> QED BY <2>2, <2>3, <2>5, <2>6, <1>1, <1>2, <1>3
<1>6. Len(frame) < 2 \/ Len(frame) >= 2
  <2> HIDE DEF TypeOK, Types, FrameState
  <2> QED BY <1>3, OneOrMore
<1> QED BY <1>4, <1>5, <1>6

LEMMA TypeInit == Init => TypeOK
  BY ProtocolAssumption DEF Init, TypeOK, Types, FrameState

LEMMA TypeStep == TypeOK /\ [Next]_vars => TypeOK'
<1> SUFFICES ASSUME TypeOK, [Next]_vars PROVE TypeOK'
  OBVIOUS
<1> USE ProtocolAssumption DEF TypeOK, Types
<1>1. ASSUME NEW b \in Byte, PushByte(b) PROVE TypeOK'
  <2>0. stream' \in Seq(Byte)
    BY <1>1 DEF PushByte
  <2>1. CASE DropByte(b)
    BY <2>0, <2>1 DEF DropByte, FrameState
  <2>2. CASE StoreByte(b)
    <3>1. CASE frame = <<>>
      <4>1. frame' = <<b>> /\ header_len' = HeaderLen(b) /\ expected_len' = 0 /\ Marker(b)
        BY <2>2, <3>1 DEF StoreByte, FrameAfter, HeaderAfter, ExpectedAfter, Starts, HasRoom
      <4> QED BY <2>0, <2>2, <4>1 DEF StoreByte, FrameState, HeaderLen
    <3>2. CASE frame # <<>>
      <4>1. /\ frame' = Append(frame, b) /\ header_len' = header_len
            /\ expected_len' = IF Len(frame) + 1 = 2 THEN header_len + b + CrcLen
                               ELSE expected_len
            /\ expected_len' = 0 \/ Len(frame) + 1 < expected_len'
        BY <2>2, <3>2 DEF StoreByte, FrameAfter, HeaderAfter, ExpectedAfter, Starts
      <4>2. /\ Len(frame) \in Nat /\ Len(frame) >= 1
            /\ frame' \in Seq(Byte) /\ Len(frame') = Len(frame) + 1
            /\ frame'[1] = frame[1]
            /\ Len(frame) >= 2 => frame'[2] = frame[2]
            /\ Len(frame) = 1 => frame'[2] = b
        BY <3>2, <4>1
      <4>3. expected_len' \in Nat /\ header_len' \in {0, HdrV1, HdrV2}
        BY <4>1
      <4>4. /\ Marker(frame[1]) /\ header_len = HeaderLen(frame[1])
            /\ expected_len = IF Len(frame) < 2 THEN 0 ELSE FrameLen(frame[1], frame[2])
        BY <3>2 DEF FrameState
      <4>5. expected_len' = FrameLen(frame'[1], frame'[2])
        BY <4>1, <4>2, <4>4 DEF FrameLen
      <4>6. FrameState'
        BY <4>1, <4>2, <4>3, <4>4, <4>5 DEF FrameState, Marker, HeaderLen
      <4> QED BY <2>0, <2>2, <4>2, <4>3, <4>6 DEF StoreByte
    <3> QED BY <3>1, <3>2
  <2>3. CASE CompleteFrame(b)
    <3>1. frame' = <<>> /\ expected_len' = 0 /\ header_len' = header_len
      BY <2>3, CompleteIsIdle
    <3>2. FrameState'
      <4>1. Len(frame') = 0
        BY <3>1
      <4> QED BY <3>1, <4>1 DEF FrameState
    <3>3. FrameAfter(b) \in Seq(Byte)
      <4>1. FrameAfter(b) = Append(frame, b)
        BY <2>3, CompleteIsIdle
      <4> QED BY <4>1
    <3>4. Len(FrameAfter(b)) \in Nat /\ Len(stream) + 1 \in Nat
      BY <3>3
    <3>5. accepted' \in Seq([last : Nat, len : Nat])
      <4> DEFINE Place == [last : Nat, len : Nat]
                 new   == [last |-> Len(stream) + 1, len |-> Len(FrameAfter(b))]
      <4>1. accepted' = accepted \/ accepted' = Append(accepted, new)
        BY <2>3 DEF CompleteFrame
      <4>2. new \in Place
        BY <3>4
      <4>3. accepted \in Seq(Place)
        OBVIOUS
      <4> HIDE DEF TypeOK, Types, Place, new
      <4>4. Append(accepted, new) \in Seq(Place)
        BY <4>2, <4>3, AppendProperties
      <4>5. accepted' \in Seq(Place)
        BY <4>1, <4>3, <4>4
      <4> QED BY <4>5 DEF Place
    <3>6. packets_received' \in Nat /\ packets_bad_crc' \in Nat
      BY <2>3, Z3T(30) DEF CompleteFrame
    <3> QED BY <2>0, <3>1, <3>2, <3>5, <3>6
  <2> QED BY <1>1, <2>1, <2>2, <2>3 DEF PushByte
<1>2. CASE UNCHANGED vars
  BY <1>2 DEF vars, FrameState, Marker, HeaderLen, FrameLen
<1> QED BY <1>1, <1>2 DEF Next

\* The fields of the parser always describe the frame in the buffer.
THEOREM TypeCorrect == Spec => []TypeOK
  BY TypeInit, TypeStep, PTL DEF Spec

LEMMA HasRoomLeft ==
  ASSUME BufferFits, TypeOK PROVE OverflowBranchDead
<1> SUFFICES Len(frame) < BufSize
  BY DEF OverflowBranchDead
<1> USE ProtocolAssumption DEF TypeOK, Types, FrameState
<1>1. Len(frame) \in Nat
  OBVIOUS
<1>2. CASE Len(frame) < 2
  <2>1. StxV1 \in Nat /\ HdrV2 + StxV1 + CrcLen <= BufSize
    BY DEF BufferFits
  <2> QED BY <1>1, <1>2, <2>1
<1>3. CASE Len(frame) >= 2
  <2>1. frame[2] \in Byte /\ frame # <<>>
    BY <1>3
  <2>2. FrameLen(frame[1], frame[2]) \in Nat /\ FrameLen(frame[1], frame[2]) >= 3
    BY <2>1, FrameLenBounds
  <2>3. expected_len = FrameLen(frame[1], frame[2])
    BY <1>1, <1>3
  <2>4. Len(frame) < FrameLen(frame[1], frame[2])
    BY <2>2, <2>3
  <2>5. FrameLen(frame[1], frame[2]) <= BufSize
    <3>1. FrameLen(frame[1], frame[2]) <= HdrV2 + frame[2] + CrcLen
      BY <2>1, FrameLenBounds
    <3>2. HdrV2 + frame[2] + CrcLen <= BufSize
      BY <2>1 DEF BufferFits
    <3>3. HdrV2 + frame[2] + CrcLen \in Nat
      <4>1. frame[2] \in Nat
        BY <2>1
      <4>2. HdrV2 \in Nat /\ CrcLen \in Nat
        OBVIOUS
      <4> DEFINE payload == frame[2]
      <4>3. payload \in Nat
        BY <4>1
      <4> HIDE DEF TypeOK, Types, FrameState, payload
      <4>4. HdrV2 + payload + CrcLen \in Nat
        BY <4>2, <4>3
      <4> QED BY <4>4 DEF payload
    <3> DEFINE len == FrameLen(frame[1], frame[2])
               most == HdrV2 + frame[2] + CrcLen
    <3>4. len \in Nat /\ len <= most /\ most <= BufSize /\ most \in Nat
      BY <2>2, <3>1, <3>2, <3>3
    <3>5. BufSize \in Nat
      OBVIOUS
    <3> HIDE DEF TypeOK, Types, FrameState, len, most
    <3>6. len <= BufSize
      BY <3>4, <3>5
    <3> QED BY <3>6 DEF len
  <2> QED BY <1>1, <2>2, <2>4, <2>5
<1> QED BY <1>1, <1>2, <1>3

\* With the real sizes, no byte stream fills the buffer: the overflow branch
\* of parser_push never runs.
THEOREM BufferSafe == BufferFits => (Spec => []OverflowBranchDead)
<1> SUFFICES ASSUME BufferFits PROVE Spec => []OverflowBranchDead
  OBVIOUS
<1>1. TypeOK => OverflowBranchDead
  BY HasRoomLeft
<1> QED BY <1>1, TypeCorrect, PTL
-----------------------------------------------------------------------------
LEMMA TailStep ==
  TypeOK /\ FrameIsStreamTail /\ [Next]_vars => FrameIsStreamTail'
<1> SUFFICES ASSUME TypeOK, FrameIsStreamTail, [Next]_vars
             PROVE  FrameIsStreamTail'
  OBVIOUS
<1>0. /\ stream \in Seq(Byte) /\ frame \in Seq(Byte)
      /\ Len(stream) \in Nat /\ Len(frame) \in Nat
  BY DEF TypeOK, Types
<1>1. ASSUME NEW b \in Byte, PushByte(b) PROVE FrameIsStreamTail'
  <2>0. /\ stream' = Append(stream, b) /\ Len(stream') = Len(stream) + 1
        /\ \A i \in 1..Len(stream) : stream'[i] = stream[i]
        /\ stream'[Len(stream) + 1] = b
    <3>1. stream' = Append(stream, b)
      BY <1>1 DEF PushByte
    <3> QED BY <3>1, <1>0, AppendProperties
  <2>1. CASE frame' = <<>>
    <3>1. Len(frame') = 0
      BY <2>1
    <3> QED BY <3>1, <2>0, <1>0 DEF FrameIsStreamTail
  <2>2. CASE StoreByte(b) /\ frame = <<>>
    <3>1. frame' = <<b>> /\ Len(frame') = 1 /\ frame'[1] = b
      BY <2>2 DEF StoreByte, FrameAfter, Starts
    <3> QED BY <3>1, <2>0, <1>0 DEF FrameIsStreamTail
  <2>3. CASE StoreByte(b) /\ frame # <<>>
    <3>1. frame' = Append(frame, b)
      BY <2>3 DEF StoreByte, FrameAfter, Starts
    <3>2. /\ Len(frame') = Len(frame) + 1
          /\ \A i \in 1..Len(frame) : frame'[i] = frame[i]
          /\ frame'[Len(frame) + 1] = b
      BY <3>1, <1>0, AppendProperties
    <3>3. Len(frame) <= Len(stream)
      BY DEF FrameIsStreamTail
    <3>4. ASSUME NEW i \in 1..Len(frame')
          PROVE  frame'[i] = stream'[Len(stream') - Len(frame') + i]
      <4>1. Len(stream') - Len(frame') + i = Len(stream) - Len(frame) + i
        BY <2>0, <3>2, <1>0
      <4>2. CASE i = Len(frame) + 1
        BY <4>1, <4>2, <2>0, <3>2, <1>0
      <4>3. CASE i \in 1..Len(frame)
        <5>1. Len(stream) - Len(frame) + i \in 1..Len(stream)
          BY <4>3, <3>3, <1>0
        <5> QED BY <4>1, <4>3, <5>1, <2>0, <3>2 DEF FrameIsStreamTail
      <4> QED BY <4>2, <4>3, <3>2, <1>0
    <3>5. Len(frame') <= Len(stream')
      BY <2>0, <3>2, <3>3, <1>0
    <3> QED BY <3>4, <3>5 DEF FrameIsStreamTail
  <2>4. CASE DropByte(b)
    BY <2>1, <2>4 DEF DropByte
  <2>5. CASE CompleteFrame(b)
    BY <2>1, <2>5 DEF CompleteFrame, AfterComplete
  <2> QED BY <1>1, <2>2, <2>3, <2>4, <2>5 DEF PushByte
<1>2. CASE UNCHANGED vars
  BY <1>2 DEF vars, FrameIsStreamTail
<1> QED BY <1>1, <1>2 DEF Next

\* The buffer is always exactly the tail of what the port delivered.
THEOREM StreamTail == Spec => []FrameIsStreamTail
<1>1. Init => FrameIsStreamTail
  BY DEF Init, FrameIsStreamTail
<1> QED BY <1>1, TailStep, TypeCorrect, PTL DEF Spec
-----------------------------------------------------------------------------
\* What a step does to the list of accepted frames.
LEMMA AcceptedStep ==
  ASSUME TypeOK, NEW b \in Byte, PushByte(b)
  PROVE  \/ accepted' = accepted /\ Len(frame') <= Len(frame) + 1
         \/ /\ accepted' = Append(accepted, [last |-> Len(stream) + 1,
                                             len  |-> Len(frame) + 1])
            /\ frame' = <<>>
            /\ Len(frame) + 1 = FrameLen(Append(frame, b)[1], Append(frame, b)[2])
            /\ frame # <<>>
            /\ CrcMatches(Append(frame, b))
<1>0. frame \in Seq(Byte) /\ Len(frame) \in Nat /\ Len(<<>>) = 0
  BY DEF TypeOK, Types
<1>1. CASE DropByte(b)
  BY <1>0, <1>1 DEF DropByte
<1>2. CASE StoreByte(b)
  <2>1. accepted' = accepted /\ frame' = FrameAfter(b)
    BY <1>2 DEF StoreByte
  <2>2. Len(Append(frame, b)) = Len(frame) + 1 /\ Len(<<b>>) = 1
    BY <1>0, AppendProperties
  <2>3. Len(frame') = Len(frame) + 1 \/ Len(frame') = 1
    BY <2>1, <2>2 DEF FrameAfter
  <2>4. Len(frame') <= Len(frame) + 1
    <3> \A n \in Nat : 1 <= n + 1 /\ n + 1 <= n + 1
      OBVIOUS
    <3> QED BY <1>0, <2>3
  <2> QED BY <2>1, <2>4
<1>3. CASE CompleteFrame(b)
  <2>1. /\ FrameAfter(b) = Append(frame, b)
        /\ Len(frame) + 1 = FrameLen(Append(frame, b)[1], Append(frame, b)[2])
        /\ frame' = <<>> /\ frame # <<>>
    BY <1>3, CompleteIsIdle
  <2>2. Len(Append(frame, b)) = Len(frame) + 1
    BY <1>0, AppendProperties
  <2>3. CASE accepted' = accepted
    BY <2>1, <2>3, <1>0
  <2>4. CASE accepted' # accepted
    <3>1. /\ Accepts(FrameAfter(b))
          /\ accepted' = Append(accepted, [last |-> Len(stream) + 1,
                                           len |-> Len(FrameAfter(b))])
      BY <1>3, <2>4 DEF CompleteFrame
    <3> QED BY <2>1, <2>2, <3>1 DEF Accepts
  <2> QED BY <2>3, <2>4
<1> QED BY <1>1, <1>2, <1>3 DEF PushByte

LEMMA DisjointStep ==
  /\ TypeOK /\ FrameIsStreamTail /\ AcceptedAreDisjoint /\ [Next]_vars
  => AcceptedAreDisjoint'
<1> SUFFICES ASSUME TypeOK, FrameIsStreamTail, AcceptedAreDisjoint, [Next]_vars
             PROVE  AcceptedAreDisjoint'
  OBVIOUS
<1> DEFINE Place == [last : Nat, len : Nat]
<1>0. /\ stream \in Seq(Byte) /\ frame \in Seq(Byte) /\ accepted \in Seq(Place)
      /\ Len(stream) \in Nat /\ Len(frame) \in Nat /\ Len(accepted) \in Nat
      /\ Len(frame) <= Len(stream)
  BY DEF TypeOK, Types, FrameIsStreamTail
<1>a. \A n \in 1..Len(accepted) : accepted[n].last \in Nat /\ accepted[n].len \in Nat
  <2> SUFFICES ASSUME NEW n \in 1..Len(accepted)
               PROVE  accepted[n].last \in Nat /\ accepted[n].len \in Nat
    OBVIOUS
  <2>1. accepted[n] \in Place
    BY <1>0, ElementOfSeq
  <2> QED BY <2>1
<1> HIDE DEF Place
<1>1. ASSUME NEW b \in Byte, PushByte(b) PROVE AcceptedAreDisjoint'
  <2>0. stream' = Append(stream, b) /\ Len(stream') = Len(stream) + 1
    <3>1. stream' = Append(stream, b)
      BY <1>1 DEF PushByte
    <3> QED BY <3>1, <1>0, AppendProperties
  <2>f. Len(frame') \in Nat
    BY <1>1, TypeStep DEF TypeOK, Types, Next
  <2>1. CASE accepted' = accepted /\ Len(frame') <= Len(frame) + 1
    BY <2>0, <2>1, <2>f, <1>0, <1>a DEF AcceptedAreDisjoint
  <2>2. CASE /\ accepted' = Append(accepted, [last |-> Len(stream) + 1,
                                              len  |-> Len(frame) + 1])
             /\ frame' = <<>>
    <3> DEFINE new == [last |-> Len(stream) + 1, len |-> Len(frame) + 1]
    <3>0. /\ new.last = Len(stream) + 1 /\ new.len = Len(frame) + 1
          /\ new \in Place /\ Len(frame') = 0
      BY <1>0, <2>2 DEF Place
    <3> HIDE DEF new
    <3>1. /\ Len(accepted') = Len(accepted) + 1
          /\ \A n \in 1..Len(accepted) : accepted'[n] = accepted[n]
          /\ accepted'[Len(accepted) + 1] = new
      BY <2>2, <3>0, <1>0, AppendProperties DEF new
    <3>2. ASSUME NEW n \in 1..Len(accepted')
          PROVE  /\ accepted'[n].len <= accepted'[n].last
                 /\ accepted'[n].last + Len(frame') <= Len(stream')
      <4>1. CASE n \in 1..Len(accepted)
        <5>1. /\ accepted'[n] = accepted[n]
              /\ accepted[n].len <= accepted[n].last
              /\ accepted[n].last + Len(frame) <= Len(stream)
          BY <4>1, <3>1 DEF AcceptedAreDisjoint
        <5>2. accepted[n].last \in Nat /\ accepted[n].len \in Nat
          BY <4>1, <1>a
        <5> QED BY <5>1, <5>2, <3>0, <2>0, <1>0
      <4>2. CASE n = Len(accepted) + 1
        <5>1. accepted'[n] = new
          BY <4>2, <3>1
        <5> QED BY <5>1, <3>0, <2>0, <1>0
      <4> QED BY <4>1, <4>2, <3>1, <1>0
    <3>3. ASSUME NEW m \in 1..Len(accepted'), NEW n \in 1..Len(accepted'), m < n
          PROVE  accepted'[m].last <= accepted'[n].last - accepted'[n].len
      <4>0. m \in 1..Len(accepted)
        BY <3>1, <3>3, <1>0
      <4>1. CASE n \in 1..Len(accepted)
        BY <4>0, <4>1, <3>1, <3>3 DEF AcceptedAreDisjoint
      <4>2. CASE n = Len(accepted) + 1
        <5>1. accepted[m].last + Len(frame) <= Len(stream)
          BY <4>0 DEF AcceptedAreDisjoint
        <5>2. accepted'[n] = new /\ accepted'[m] = accepted[m]
          BY <4>0, <4>2, <3>1
        <5> QED BY <4>0, <5>1, <5>2, <3>0, <1>0, <1>a
      <4> QED BY <4>1, <4>2, <3>1, <1>0
    <3> QED BY <3>2, <3>3 DEF AcceptedAreDisjoint
  <2> QED BY <1>1, <2>1, <2>2, AcceptedStep
<1>2. CASE UNCHANGED vars
  BY <1>2 DEF vars, AcceptedAreDisjoint
<1> QED BY <1>1, <1>2 DEF Next

\* No byte of the stream belongs to two frames handed to the decoder.
THEOREM Disjoint == Spec => []AcceptedAreDisjoint
<1>1. Init => AcceptedAreDisjoint
  BY DEF Init, AcceptedAreDisjoint
<1> QED BY <1>1, DisjointStep, StreamTail, TypeCorrect, PTL DEF Spec
-----------------------------------------------------------------------------
\* A byte appended to the stream leaves the pieces already in it alone.
LEMMA SubSeqOfAppend ==
  ASSUME NEW S, NEW s \in Seq(S), NEW e \in S,
         NEW lo \in Int, NEW hi \in Int, 1 <= lo, hi <= Len(s)
  PROVE  SubSeq(Append(s, e), lo, hi) = SubSeq(s, lo, hi)
<1>0. Len(s) \in Nat
  OBVIOUS
<1>1. \A i \in lo..hi : i \in 1..Len(s)
  BY <1>0
<1>2. \A i \in lo..hi : Append(s, e)[i] = s[i] /\ s[i] \in S
  BY <1>1, AppendProperties, ElementOfSeq
<1>3. /\ SubSeq(s, lo, hi) \in Seq(S)
      /\ Len(SubSeq(s, lo, hi)) = IF lo <= hi THEN hi - lo + 1 ELSE 0
      /\ \A i \in 1..(hi - lo + 1) : SubSeq(s, lo, hi)[i] = s[lo + i - 1]
  BY <1>2, SubSeqProperties
<1>4. /\ SubSeq(Append(s, e), lo, hi) \in Seq(S)
      /\ Len(SubSeq(Append(s, e), lo, hi)) = IF lo <= hi THEN hi - lo + 1 ELSE 0
      /\ \A i \in 1..(hi - lo + 1) :
           SubSeq(Append(s, e), lo, hi)[i] = Append(s, e)[lo + i - 1]
  BY <1>2, SubSeqProperties
<1>5. Len(SubSeq(Append(s, e), lo, hi)) = Len(SubSeq(s, lo, hi))
  BY <1>3, <1>4
<1>6. ASSUME NEW i \in 1..Len(SubSeq(s, lo, hi))
      PROVE  SubSeq(s, lo, hi)[i] = SubSeq(Append(s, e), lo, hi)[i]
  <2>1. i \in 1..(hi - lo + 1) /\ lo + i - 1 \in lo..hi
    BY <1>3
  <2> QED BY <2>1, <1>2, <1>3, <1>4
<1> QED BY <1>3, <1>4, <1>5, <1>6, SeqEqual

\* The bytes of a completed frame are the last bytes of the stream.
LEMMA FrameIsSegment ==
  ASSUME TypeOK, FrameIsStreamTail, NEW b \in Byte
  PROVE  SubSeq(Append(stream, b), Len(stream) - Len(frame) + 1, Len(stream) + 1)
           = Append(frame, b)
<1> DEFINE t == Append(stream, b)
           f == Append(frame, b)
           lo == Len(stream) - Len(frame) + 1
           hi == Len(stream) + 1
<1>0. /\ stream \in Seq(Byte) /\ frame \in Seq(Byte)
      /\ Len(stream) \in Nat /\ Len(frame) \in Nat /\ Len(frame) <= Len(stream)
      /\ \A i \in 1..Len(frame) : frame[i] = stream[Len(stream) - Len(frame) + i]
  BY DEF TypeOK, Types, FrameIsStreamTail
<1>1. /\ t \in Seq(Byte) /\ Len(t) = Len(stream) + 1 /\ t[Len(stream) + 1] = b
      /\ \A i \in 1..Len(stream) : t[i] = stream[i]
  BY <1>0, AppendProperties
<1>2. /\ f \in Seq(Byte) /\ Len(f) = Len(frame) + 1 /\ f[Len(frame) + 1] = b
      /\ \A i \in 1..Len(frame) : f[i] = frame[i]
  BY <1>0, AppendProperties
<1> HIDE DEF t, f
<1>3. \A i \in lo..hi : t[i] \in Byte
  <2>1. \A i \in lo..hi : i \in 1..Len(t)
    BY <1>0, <1>1
  <2> QED BY <2>1, <1>1, ElementOfSeq
<1>4. /\ SubSeq(t, lo, hi) \in Seq(Byte)
      /\ Len(SubSeq(t, lo, hi)) = Len(f)
      /\ \A i \in 1..Len(f) : SubSeq(t, lo, hi)[i] = t[lo + i - 1]
  <2>1. lo \in Int /\ hi \in Int /\ lo <= hi /\ hi - lo + 1 = Len(f)
    BY <1>0, <1>2
  <2> HIDE DEF lo, hi
  <2> QED BY <1>3, <2>1, SubSeqProperties
<1>5. ASSUME NEW i \in 1..Len(f) PROVE t[lo + i - 1] = f[i]
  <2>1. CASE i = Len(frame) + 1
    <3>1. lo + i - 1 = Len(stream) + 1
      BY <2>1, <1>0
    <3> QED BY <2>1, <3>1, <1>1, <1>2
  <2>2. CASE i \in 1..Len(frame)
    <3>1. /\ lo + i - 1 = Len(stream) - Len(frame) + i
          /\ Len(stream) - Len(frame) + i \in 1..Len(stream)
      BY <2>2, <1>0
    <3> QED BY <2>2, <3>1, <1>0, <1>1, <1>2
  <2> QED BY <2>1, <2>2, <1>0, <1>2
<1>6. SubSeq(t, lo, hi) = f
  BY <1>2, <1>4, <1>5, SeqEqual
<1> QED BY <1>6 DEF t, f

LEMMA FramesStep ==
  /\ TypeOK /\ FrameIsStreamTail /\ AcceptedAreDisjoint /\ AcceptedAreFrames
  /\ [Next]_vars
  => AcceptedAreFrames'
<1> SUFFICES ASSUME TypeOK, FrameIsStreamTail, AcceptedAreDisjoint,
                    AcceptedAreFrames, [Next]_vars
             PROVE  AcceptedAreFrames'
  OBVIOUS
<1> DEFINE Place == [last : Nat, len : Nat]
           Framed(q, n) == /\ Marker(q[1])
                           /\ n = FrameLen(q[1], q[2])
                           /\ CrcMatches(q)
<1>0. /\ stream \in Seq(Byte) /\ frame \in Seq(Byte) /\ accepted \in Seq(Place)
      /\ Len(stream) \in Nat /\ Len(frame) \in Nat /\ Len(accepted) \in Nat
  BY DEF TypeOK, Types
<1>a. ASSUME NEW n \in 1..Len(accepted)
      PROVE  /\ accepted[n].last \in Nat /\ accepted[n].len \in Nat
             /\ 1 <= accepted[n].last - accepted[n].len + 1
             /\ accepted[n].last <= Len(stream)
  <2>1. accepted[n] \in Place
    BY <1>0, ElementOfSeq
  <2>2. accepted[n].last \in Nat /\ accepted[n].len \in Nat
    BY <2>1
  <2>3. /\ accepted[n].len <= accepted[n].last
        /\ accepted[n].last + Len(frame) <= Len(stream)
    BY DEF AcceptedAreDisjoint
  <2> QED BY <2>2, <2>3, <1>0
<1>b. \A n \in 1..Len(accepted) : Framed(Segment(n), accepted[n].len)
  BY DEF AcceptedAreFrames
<1> HIDE DEF Place, Framed
<1>1. ASSUME NEW b \in Byte, PushByte(b) PROVE AcceptedAreFrames'
  <2>0. stream' = Append(stream, b)
    BY <1>1 DEF PushByte
  <2>1. ASSUME NEW n \in 1..Len(accepted), accepted'[n] = accepted[n]
        PROVE  Segment(n)' = Segment(n)
    <3> DEFINE hi == accepted[n].last
               lo == accepted[n].last - accepted[n].len + 1
    <3>1. lo \in Int /\ hi \in Int /\ 1 <= lo /\ hi <= Len(stream)
      BY <1>a
    <3>2. Segment(n)' = SubSeq(Append(stream, b), lo, hi)
      BY <2>0, <2>1 DEF Segment
    <3>3. Segment(n) = SubSeq(stream, lo, hi)
      BY DEF Segment
    <3> HIDE DEF lo, hi
    <3>4. SubSeq(Append(stream, b), lo, hi) = SubSeq(stream, lo, hi)
      BY <3>1, <1>0, SubSeqOfAppend
    <3> QED BY <3>2, <3>3, <3>4
  <2>2. CASE accepted' = accepted
    <3>1. \A n \in 1..Len(accepted) : Segment(n)' = Segment(n)
      BY <2>1, <2>2
    <3>2. \A n \in 1..Len(accepted') : Framed(Segment(n)', accepted'[n].len)
      BY <3>1, <2>2, <1>b
    <3> QED BY <3>2 DEF AcceptedAreFrames, Framed, Marker, FrameLen, HeaderLen, CrcMatches
  <2>3. CASE /\ accepted' = Append(accepted, [last |-> Len(stream) + 1,
                                              len  |-> Len(frame) + 1])
             /\ Len(frame) + 1 = FrameLen(Append(frame, b)[1], Append(frame, b)[2])
             /\ frame # <<>>
             /\ CrcMatches(Append(frame, b))
    <3> DEFINE new == [last |-> Len(stream) + 1, len |-> Len(frame) + 1]
    <3>0. new.last = Len(stream) + 1 /\ new.len = Len(frame) + 1 /\ new \in Place
      BY <1>0 DEF Place
    <3> HIDE DEF new
    <3>1. /\ Len(accepted') = Len(accepted) + 1
          /\ \A n \in 1..Len(accepted) : accepted'[n] = accepted[n]
          /\ accepted'[Len(accepted) + 1] = new
      BY <2>3, <3>0, <1>0, AppendProperties DEF new
    <3>2. ASSUME NEW n \in 1..Len(accepted)
          PROVE  Framed(Segment(n)', accepted'[n].len)
      BY <3>1, <2>1, <1>b
    <3>3. ASSUME NEW n, n = Len(accepted) + 1
          PROVE  Framed(Segment(n)', accepted'[n].len)
      <4>1. accepted'[n] = new
        BY <3>1, <3>3
      <4>2. new.last - new.len + 1 = Len(stream) - Len(frame) + 1
        BY <3>0, <1>0
      <4>3. Segment(n)' = SubSeq(Append(stream, b), Len(stream) - Len(frame) + 1,
                                 Len(stream) + 1)
        BY <4>1, <4>2, <3>0, <2>0 DEF Segment
      <4>4. Segment(n)' = Append(frame, b)
        BY <4>3, FrameIsSegment
      <4>5. Marker(Append(frame, b)[1])
        <5>1. Marker(frame[1])
          BY <2>3 DEF TypeOK, FrameState
        <5>2. 1 \in 1..Len(frame)
          BY <2>3, <1>0, EmptySeq
        <5> QED BY <5>1, <5>2, <1>0, AppendProperties
      <4>6. Framed(Append(frame, b), Len(frame) + 1)
        BY <4>5, <2>3 DEF Framed
      <4> QED BY <4>1, <4>4, <4>6, <3>0
    <3>4. \A n \in 1..Len(accepted') : Framed(Segment(n)', accepted'[n].len)
      <4>1. ASSUME NEW n \in 1..Len(accepted')
            PROVE  n \in 1..Len(accepted) \/ n = Len(accepted) + 1
        BY <3>1, <1>0
      <4> QED BY <4>1, <3>2, <3>3
    <3> QED BY <3>4 DEF AcceptedAreFrames, Framed, Marker, FrameLen, HeaderLen, CrcMatches
  <2> QED BY <1>1, <2>2, <2>3, AcceptedStep
<1>2. CASE UNCHANGED vars
  BY <1>2 DEF vars, AcceptedAreFrames, Segment, Marker, FrameLen, HeaderLen, CrcMatches
<1> QED BY <1>1, <1>2 DEF Next

\* decode_frame only ever sees a contiguous piece of the byte stream with a
\* marker, the length its header announces and a checksum that matches.
THEOREM Frames == Spec => []AcceptedAreFrames
<1>1. Init => AcceptedAreFrames
  BY DEF Init, AcceptedAreFrames
<1> QED BY <1>1, FramesStep, Disjoint, StreamTail, TypeCorrect, PTL DEF Spec
-----------------------------------------------------------------------------
\* No frame is empty: it ends past its first byte.
LEMMA EndsInside ==
  ASSUME stream \in Seq(Byte), NEW p \in 1..Len(stream)
  PROVE  EndOf(p) \in Nat /\ EndOf(p) > p
<1>1. Len(stream) \in Nat
  OBVIOUS
<1>2. CASE p < Len(stream)
  <2>1. stream[p + 1] \in Byte
    <3>1. p + 1 \in 1..Len(stream)
      BY <1>1, <1>2
    <3> QED BY <3>1, ElementOfSeq
  <2> DEFINE l == FrameLen(stream[p], stream[p + 1])
  <2>2. l \in Nat /\ l >= 3
    BY <2>1, FrameLenBounds
  <2>3. EndOf(p) = p + l - 1
    BY <1>2 DEF EndOf
  <2> HIDE DEF l
  <2> QED BY <1>1, <2>2, <2>3
<1>3. CASE ~(p < Len(stream))
  BY <1>1, <1>3 DEF EndOf
<1> QED BY <1>2, <1>3

\* The stream can be cut into frames from left to right in one way only, so the
\* reference that MatchesReference compares parser_push with is one definite set.
THEOREM CutIsUnique ==
  ASSUME NEW S \in SUBSET Markers, NEW T \in SUBSET Markers, Cut(S), Cut(T)
  PROVE  S = T
<1> DEFINE D == (S \ T) \cup (T \ S)
<1> SUFFICES ASSUME D # {} PROVE FALSE
  OBVIOUS
<1>1. D \in SUBSET Nat
  BY DEF Markers
<1> HIDE DEF D
<1>2. PICK p \in D : \A m \in D : ~(<<m, p>> \in OpToRel(<, Nat))
  BY <1>1, NatLessThanWellFounded, WFMin, Zenon
<1>3. \A m \in D : ~(m < p)
  BY <1>1, <1>2, Zenon DEF OpToRel
<1>4. p \in Markers /\ Markers \subseteq Nat
  BY DEF D, Markers
<1>5. \A q \in Markers : q < p => (q \in S <=> q \in T)
  BY <1>3 DEF D
<1>6. (\A q \in S : q < p => EndOf(q) < p) <=> (\A q \in T : q < p => EndOf(q) < p)
  BY <1>5
<1>7. p \in S <=> p \in T
  BY <1>4, <1>6 DEF Cut
<1> QED BY <1>7 DEF D

\* What one more byte changes of the cut.
LEMMA StreamGrows ==
  ASSUME TypeOK, NEW b \in Byte, stream' = Append(stream, b)
  PROVE  LET N == Len(stream)
         IN  /\ N \in Nat /\ Len(stream') = N + 1
             /\ \A p \in 1..(N - 1) : EndOf(p)' = EndOf(p)
             /\ \A p \in 1..N : p = N => /\ EndOf(p) = N + 1
                                       /\ EndOf(p)' = N + FrameLen(stream[p], b) - 1
             /\ \A p \in Nat : p = N + 1 => EndOf(p)' = N + 2
             /\ Markers' = Markers \cup (IF Marker(b) THEN {N + 1} ELSE {})
<1> DEFINE N == Len(stream)
<1>1. /\ stream \in Seq(Byte) /\ N \in Nat /\ Len(stream') = N + 1
      /\ \A i \in 1..N : stream'[i] = stream[i]
      /\ stream'[N + 1] = b
  <2>1. stream \in Seq(Byte)
    BY DEF TypeOK, Types
  <2> QED BY <2>1, AppendProperties
<1>2. \A x, y : FrameLen(x, y)' = FrameLen(x, y)
  BY DEF FrameLen, HeaderLen
<1>3. ASSUME NEW p \in 1..(N - 1) PROVE EndOf(p)' = EndOf(p)
  <2>1. p < N /\ p < N + 1 /\ p \in 1..N /\ p + 1 \in 1..N
    BY <1>1
  <2> HIDE DEF N
  <2> QED BY <1>1, <2>1 DEF EndOf, N
<1>4. ASSUME NEW p \in 1..N, p = N
      PROVE  EndOf(p) = N + 1 /\ EndOf(p)' = N + FrameLen(stream[p], b) - 1
  <2>1. p < Len(stream') /\ ~(p < Len(stream)) /\ stream'[p] = stream[p] /\ stream'[p + 1] = b
    BY <1>1, <1>4
  <2>2. EndOf(p)' = p + FrameLen(stream[p], b) - 1
    BY <2>1 DEF EndOf
  <2>3. EndOf(p) = p + 1
    BY <2>1 DEF EndOf
  <2> QED BY <1>4, <2>2, <2>3
<1>5. ASSUME NEW p \in Nat, p = N + 1 PROVE EndOf(p)' = N + 2
  <2>1. ~(p < Len(stream'))
    BY <1>1, <1>5
  <2>2. EndOf(p)' = p + 1
    BY <2>1 DEF EndOf
  <2> QED BY <1>1, <1>5, <2>2
<1>6. Markers' = Markers \cup (IF Marker(b) THEN {N + 1} ELSE {})
  <2>1. \A x : Marker(x)' = Marker(x)
    BY DEF Marker
  <2>2. 1..(N + 1) = 1..N \cup {N + 1} /\ N + 1 \notin 1..N
    BY <1>1
  <2> HIDE DEF N
  <2>3. ASSUME NEW p PROVE p \in Markers' <=> p \in Markers \/ (p = N + 1 /\ Marker(b))
    BY <1>1, <2>2 DEF Markers, N, Marker
  <2> QED BY <2>3
<1> QED BY <1>1, <1>3, <1>4, <1>5, <1>6

\* Frames that are complete stay what they are.
LEMMA CompleteKept ==
  ASSUME TypeOK, NEW b \in Byte, stream' = Append(stream, b), NEW S \in SUBSET Markers,
         NEW p \in Complete(S)
  PROVE  /\ p \in S /\ p \in 1..(Len(stream) - 1)
         /\ EndOf(p) \in Nat /\ p < EndOf(p) /\ EndOf(p) <= Len(stream)
         /\ EndOf(p)' = EndOf(p)
         /\ SubSeq(stream', p, EndOf(p)') = SubSeq(stream, p, EndOf(p))
<1>1. stream \in Seq(Byte) /\ Len(stream) \in Nat
  BY DEF TypeOK, Types
<1>2. p \in S /\ p \in 1..Len(stream) /\ EndOf(p) <= Len(stream)
  BY DEF Complete, Markers
<1>3. EndOf(p) \in Nat /\ p < EndOf(p)
  BY <1>1, <1>2, EndsInside
<1>4. p \in 1..(Len(stream) - 1)
  BY <1>1, <1>2, <1>3
<1>5. EndOf(p)' = EndOf(p)
  BY <1>4, StreamGrows
<1>6. SubSeq(Append(stream, b), p, EndOf(p)) = SubSeq(stream, p, EndOf(p))
  <2>1. p \in Int /\ EndOf(p) \in Int /\ 1 <= p
    BY <1>1, <1>2, <1>3
  <2> QED BY <1>1, <1>2, <2>1, SubSeqOfAppend
<1>7. SubSeq(stream', p, EndOf(p)') = SubSeq(stream, p, EndOf(p))
  BY <1>5, <1>6
<1> QED BY <1>2, <1>3, <1>4, <1>5, <1>7

LEMMA GoodKept ==
  ASSUME TypeOK, NEW b \in Byte, stream' = Append(stream, b),
         NEW S \in SUBSET Markers, NEW T, NEW D, Complete(T)' = Complete(S) \cup D
  PROVE  Good(T)' = Good(S) \cup {p \in D : CrcMatches(SubSeq(stream', p, EndOf(p)'))}
<1>1. Good(T)' = {p \in Complete(T)' : CrcMatches(SubSeq(stream', p, EndOf(p)'))}
  <2>1. \A x : CrcMatches(x)' = CrcMatches(x)
    BY DEF CrcMatches
  <2> QED BY <2>1 DEF Good, CrcMatches
<1>2. \A p \in Complete(S) : SubSeq(stream', p, EndOf(p)') = SubSeq(stream, p, EndOf(p))
  BY CompleteKept
<1>3. \A p \in Complete(S) : CrcMatches(SubSeq(stream', p, EndOf(p)')) <=> p \in Good(S)
  BY <1>2 DEF Good
<1>4. Good(S) \subseteq Complete(S)
  BY DEF Good
<1> QED BY <1>1, <1>3, <1>4

\* No frame is completed: what was accepted and counted stays right.
LEMMA NothingCompleted ==
  ASSUME TypeOK, NEW b \in Byte, stream' = Append(stream, b),
         NEW S \in SUBSET Markers, Matches(S), NEW T, Complete(T)' = Complete(S),
         UNCHANGED <<accepted, packets_received, packets_bad_crc>>,
         T \ Complete(S) =
           IF frame' = <<>> THEN {} ELSE {Len(stream') - Len(frame') + 1}
  PROVE  Matches(T)'
<1>1. Good(T)' = Good(S)
  <2> DEFINE D == {}
  <2>1. Complete(T)' = Complete(S) \cup D
    OBVIOUS
  <2>2. \A p : p \notin D
    OBVIOUS
  <2> HIDE DEF D
  <2>3. Good(T)' = Good(S) \cup {p \in D : CrcMatches(SubSeq(stream', p, EndOf(p)'))}
    BY <2>1, GoodKept
  <2> QED BY <2>2, <2>3
<1>2. \A p \in Good(S) : EndOf(p)' = EndOf(p)
  BY CompleteKept DEF Good
<1>3. {accepted'[n] : n \in 1..Len(accepted')} =
        {[last |-> EndOf(p)', len |-> EndOf(p)' - p + 1] : p \in Good(S)}
  BY <1>2 DEF Matches
<1>4. packets_received' = Cardinality(Good(S))
      /\ packets_bad_crc' = Cardinality(Complete(S) \ Good(S))
  BY DEF Matches
<1> QED BY <1>1, <1>3, <1>4 DEF Matches

\* The cut of the longer stream: the new byte starts a frame when it is a
\* marker that no earlier frame reaches.
LEMMA CutGrows ==
  ASSUME TypeOK, NEW b \in Byte, stream' = Append(stream, b),
         NEW S \in SUBSET Markers, Cut(S), NEW n \in Nat, n = Len(stream) + 1,
         NEW T, T = S \/ T = S \cup {n},
         n \in T <=> Marker(b) /\ \A q \in S : EndOf(q)' < n
  PROVE  T \in SUBSET Markers' /\ Cut(T)'
<1>1. /\ Len(stream) \in Nat /\ Markers \subseteq 1..Len(stream)
      /\ \A p \in 1..(Len(stream) - 1) : EndOf(p)' = EndOf(p)
      /\ Markers' = Markers \cup (IF Marker(b) THEN {n} ELSE {})
  BY StreamGrows DEF Markers
<1>2. T \in SUBSET Markers'
  BY <1>1
<1>3. n \notin S /\ (\A q \in S : q < n) /\ \A q \in T : q \in S \/ q = n
  BY <1>1
<1>4. ASSUME NEW p \in Markers
      PROVE  p \in T <=> \A q \in T : q < p => EndOf(q)' < p
  <2>1. p \in Nat /\ p < n /\ p # n /\ p \in 1..Len(stream)
    BY <1>1
  <2>2. \A q \in S : q < p => EndOf(q)' = EndOf(q)
    BY <1>1, <2>1
  <2>3. p \in S <=> \A q \in S : q < p => EndOf(q) < p
    BY DEF Cut
  <2>4. ~(n < p)
    BY <2>1
  <2> QED BY <1>3, <2>1, <2>2, <2>3, <2>4
<1>5. ASSUME Marker(b)
      PROVE  n \in T <=> \A q \in T : q < n => EndOf(q)' < n
  BY <1>3, <1>5
<1>6. \A p \in Markers' : p \in Markers \/ (Marker(b) /\ p = n)
  BY <1>1
<1> QED BY <1>2, <1>4, <1>5, <1>6 DEF Cut

\* Where the frame being assembled ends, once its second byte is there.
LEMMA AssembledEnds ==
  ASSUME TypeOK, FrameIsStreamTail, NEW b \in Byte, stream' = Append(stream, b),
         frame # <<>>, NEW c, c = Len(stream) - Len(frame) + 1
  PROVE  /\ c \in 1..Len(stream)
         /\ EndOf(c)' = c + FrameLen(Append(frame, b)[1], Append(frame, b)[2]) - 1
<1>1. /\ frame \in Seq(Byte) /\ Len(frame) \in Nat /\ Len(frame) >= 1
      /\ stream \in Seq(Byte) /\ Len(stream) \in Nat /\ Len(frame) <= Len(stream)
  BY EmptySeq DEF TypeOK, Types, FrameIsStreamTail
<1>2. c \in 1..Len(stream)
  BY <1>1
<1>3. frame[1] = stream[c]
  <2>1. 1 \in 1..Len(frame)
    BY <1>1
  <2> QED BY <2>1, <1>1 DEF FrameIsStreamTail
<1>4. Append(frame, b)[1] = frame[1]
  BY <1>1, AppendProperties
<1>5. CASE Len(frame) = 1
  <2>1. c = Len(stream) /\ Append(frame, b)[2] = b
    BY <1>1, <1>5
  <2> QED BY <1>2, <1>3, <1>4, <2>1, StreamGrows
<1>6. CASE Len(frame) # 1
  <2> DEFINE L == Len(frame)
             N == Len(stream)
  <2>0. L \in Nat /\ L >= 1 /\ L # 1 /\ N \in Nat /\ L <= N /\ c = N - L + 1
    BY <1>1, <1>6
  <2> HIDE DEF L, N
  <2>a. 2 \in 1..L /\ c \in 1..(N - 1) /\ c < N
    BY <2>0
  <2>1. 2 \in 1..Len(frame) /\ c \in 1..(Len(stream) - 1) /\ c < Len(stream)
    BY <2>a DEF L, N
  <2>2. frame[2] = stream[c + 1]
    BY <2>1, <1>1 DEF FrameIsStreamTail
  <2>3. Append(frame, b)[2] = frame[2]
    BY <2>1, <1>1, AppendProperties
  <2>4. EndOf(c)' = EndOf(c)
    BY <2>1, StreamGrows
  <2>5. EndOf(c) = c + FrameLen(stream[c], stream[c + 1]) - 1
    BY <2>1 DEF EndOf
  <2> QED BY <1>2, <1>3, <1>4, <2>2, <2>3, <2>4, <2>5
<1> QED BY <1>5, <1>6

\* A byte between two frames: it starts one when it is a marker.
LEMMA ReferenceIdle ==
  ASSUME TypeOK, NEW b \in Byte, stream' = Append(stream, b), frame = <<>>,
         UNCHANGED <<accepted, packets_received, packets_bad_crc>>,
         frame' = IF Marker(b) THEN <<b>> ELSE <<>>, MatchesReference
  PROVE  MatchesReference'
<1>1. PICK S \in SUBSET Markers : Cut(S) /\ Matches(S)
  BY DEF MatchesReference
<1>2. Len(stream) \in Nat /\ Len(stream') = Len(stream) + 1
  BY StreamGrows
<1>3. PICK n \in Nat : n = Len(stream) + 1
  BY <1>2
<1>4. Complete(S) = S
  <2>1. S \ Complete(S) = {}
    BY <1>1 DEF Matches
  <2> QED BY <2>1 DEF Complete
<1>5. \A q \in S : EndOf(q)' = EndOf(q) /\ EndOf(q) \in Nat /\ EndOf(q) <= Len(stream)
                   /\ q \in 1..Len(stream)
  BY <1>2, <1>4, CompleteKept
<1> DEFINE T == IF Marker(b) THEN S \cup {n} ELSE S
<1>6. PICK U : U = T
  OBVIOUS
<1>7. U \in SUBSET Markers' /\ Cut(U)'
  <2>1. n \notin S /\ \A q \in S : EndOf(q)' < n
    BY <1>2, <1>3, <1>5
  <2>2. n \in U <=> Marker(b) /\ \A q \in S : EndOf(q)' < n
    BY <1>6, <2>1
  <2>3. U = S \/ U = S \cup {n}
    BY <1>6
  <2> QED BY <1>1, <1>3, <2>2, <2>3, CutGrows
<1>8. Complete(U)' = Complete(S)
  <2>1. EndOf(n)' = n + 1
    BY <1>2, <1>3, StreamGrows
  <2>2. Complete(U)' = {p \in U : EndOf(p)' <= n}
    BY <1>2, <1>3 DEF Complete
  <2>3. \A p \in S : EndOf(p)' <= n
    BY <1>2, <1>3, <1>5
  <2>4. ~(n + 1 <= n)
    BY <1>3
  <2> QED BY <1>4, <1>6, <2>1, <2>2, <2>3, <2>4
<1>9. U \ Complete(S) = IF frame' = <<>> THEN {} ELSE {Len(stream') - Len(frame') + 1}
  <2>1. CASE Marker(b)
    <3>1. frame' # <<>> /\ Len(frame') = 1
      BY <2>1
    <3>2. n \notin S
      BY <1>2, <1>3, <1>5
    <3>3. U \ S = {n}
      BY <1>6, <2>1, <3>2
    <3> QED BY <1>2, <1>3, <1>4, <3>1, <3>3
  <2>2. CASE ~Marker(b)
    BY <1>4, <1>6, <2>2
  <2> QED BY <2>1, <2>2
<1>10. Matches(U)'
  BY <1>1, <1>8, <1>9, NothingCompleted
<1> QED BY <1>7, <1>10 DEF MatchesReference

\* A byte inside a frame: no frame starts at it.
LEMMA CutContinues ==
  ASSUME TypeOK, FrameIsStreamTail, NEW b \in Byte, stream' = Append(stream, b),
         frame # <<>>, NEW c, c = Len(stream) - Len(frame) + 1,
         NEW S \in SUBSET Markers, Cut(S), Matches(S), EndOf(c)' >= Len(stream) + 1
  PROVE  /\ S \in SUBSET Markers' /\ Cut(S)'
         /\ c \in S /\ c \notin Complete(S) /\ S = Complete(S) \cup {c}
         /\ Complete(S)' = Complete(S) \cup {p \in {c} : EndOf(p)' <= Len(stream) + 1}
<1>1. Len(stream) \in Nat /\ Len(stream') = Len(stream) + 1
  BY StreamGrows
<1>2. PICK n \in Nat : n = Len(stream) + 1
  BY <1>1
<1>3. c \in 1..Len(stream) /\ EndOf(c)' \in Int
  <2>1. c \in 1..Len(stream)
        /\ EndOf(c)' = c + FrameLen(Append(frame, b)[1], Append(frame, b)[2]) - 1
    BY AssembledEnds
  <2>2. Append(frame, b)[2] \in Byte
    <3>1. frame \in Seq(Byte) /\ frame # <<>>
      BY DEF TypeOK, Types
    <3>2. Append(frame, b) \in Seq(Byte) /\ 2 \in 1..Len(Append(frame, b))
      BY <3>1, AppendProperties, EmptySeq
    <3> QED BY <3>2, ElementOfSeq
  <2>3. FrameLen(Append(frame, b)[1], Append(frame, b)[2]) \in Nat
    BY <2>2, FrameLenBounds
  <2> QED BY <1>1, <2>1, <2>3
<1>4. S \ Complete(S) = {c}
  BY DEF Matches
<1>5. c \in S /\ c \notin Complete(S) /\ S = Complete(S) \cup {c}
  BY <1>4 DEF Complete
<1>6. S \in SUBSET Markers' /\ Cut(S)'
  <2>1. ~(EndOf(c)' < n)
    BY <1>2, <1>3
  <2>2. n \notin S
    BY <1>1, <1>2 DEF Markers
  <2>3. n \in S <=> Marker(b) /\ \A q \in S : EndOf(q)' < n
    BY <1>5, <2>1, <2>2
  <2> QED BY <1>2, <2>3, CutGrows
<1>7. \A p \in Complete(S) : EndOf(p)' <= Len(stream) + 1
  BY <1>1, CompleteKept
<1>8. Complete(S)' = {p \in S : EndOf(p)' <= Len(stream) + 1}
  BY <1>1 DEF Complete
<1> QED BY <1>5, <1>6, <1>7, <1>8

LEMMA ReferenceInside ==
  ASSUME TypeOK, TypeOK', FrameIsStreamTail, NEW b \in Byte,
         stream' = Append(stream, b), frame # <<>>, frame' = Append(frame, b),
         UNCHANGED <<accepted, packets_received, packets_bad_crc>>, MatchesReference
  PROVE  MatchesReference'
<1>1. PICK S \in SUBSET Markers : Cut(S) /\ Matches(S)
  BY DEF MatchesReference
<1>2. /\ frame \in Seq(Byte) /\ Len(frame) \in Nat /\ Len(frame) >= 1
      /\ Len(stream) \in Nat /\ Len(stream') = Len(stream) + 1
      /\ Len(frame') = Len(frame) + 1 /\ frame' # <<>>
  BY EmptySeq, StreamGrows, AppendProperties DEF TypeOK, Types
<1>3. PICK c \in Int : c = Len(stream) - Len(frame) + 1
  <2> DEFINE d == Len(stream) - Len(frame) + 1
  <2>1. d \in Int
    BY <1>2
  <2> QED BY <2>1
<1> DEFINE l == FrameLen(Append(frame, b)[1], Append(frame, b)[2])
<1>4. l \in Nat /\ Len(frame) + 1 < l
  <2>1. Append(frame, b)[2] \in Byte
    <3>1. Append(frame, b) \in Seq(Byte) /\ 2 \in 1..Len(Append(frame, b))
      BY <1>2, AppendProperties
    <3> QED BY <3>1, ElementOfSeq
  <2>2. l \in Nat /\ l >= 3
    BY <2>1, FrameLenBounds
  <2>3. expected_len' = FrameLen(Append(frame, b)[1], Append(frame, b)[2])
        /\ (expected_len' # 0 => Len(frame') < expected_len')
    BY <1>2 DEF TypeOK, FrameState, FrameLen, HeaderLen
  <2> QED BY <1>2, <2>2, <2>3
<1>5. EndOf(c)' = c + l - 1
  BY <1>3, AssembledEnds
<1> HIDE DEF l
<1>6. EndOf(c)' > Len(stream) + 1
  BY <1>2, <1>3, <1>4, <1>5
<1>7. EndOf(c)' >= Len(stream) + 1 /\ ~(EndOf(c)' <= Len(stream) + 1)
  BY <1>2, <1>3, <1>4, <1>5
<1>8. /\ S \in SUBSET Markers' /\ Cut(S)'
      /\ c \in S /\ c \notin Complete(S) /\ S = Complete(S) \cup {c}
      /\ Complete(S)' = Complete(S) \cup {p \in {c} : EndOf(p)' <= Len(stream) + 1}
  BY <1>1, <1>3, <1>7, CutContinues
<1>9. Complete(S)' = Complete(S)
  BY <1>7, <1>8
<1>10. S \ Complete(S) = IF frame' = <<>> THEN {} ELSE {Len(stream') - Len(frame') + 1}
  <2>1. S \ Complete(S) = {c}
    BY <1>8
  <2>2. Len(stream') - Len(frame') + 1 = c
    BY <1>2, <1>3
  <2> QED BY <1>2, <2>1, <2>2
<1>11. Matches(S)'
  BY <1>1, <1>9, <1>10, NothingCompleted
<1> QED BY <1>8, <1>11 DEF MatchesReference

\* The byte that completes a frame: it is checked, and accepted or counted.
LEMMA ReferenceCompleted ==
  ASSUME TypeOK, FrameIsStreamTail, NEW b \in Byte, stream' = Append(stream, b),
         CompleteFrame(b), MatchesReference
  PROVE  MatchesReference'
<1>1. PICK S \in SUBSET Markers : Cut(S) /\ Matches(S)
  BY DEF MatchesReference
<1>2. /\ frame # <<>> /\ frame' = <<>>
      /\ Len(frame) + 1 = FrameLen(Append(frame, b)[1], Append(frame, b)[2])
      /\ FrameAfter(b) = Append(frame, b)
  BY CompleteIsIdle
<1>3. /\ frame \in Seq(Byte) /\ Len(frame) \in Nat /\ Len(frame) >= 1
      /\ stream \in Seq(Byte) /\ Len(stream) \in Nat /\ Len(stream') = Len(stream) + 1
      /\ Len(Append(frame, b)) = Len(frame) + 1
      /\ packets_received \in Nat /\ packets_bad_crc \in Nat
  BY <1>2, EmptySeq, StreamGrows, AppendProperties DEF TypeOK, Types
<1>4. PICK c \in Int : c = Len(stream) - Len(frame) + 1
  <2> DEFINE d == Len(stream) - Len(frame) + 1
  <2>1. d \in Int
    BY <1>3
  <2> QED BY <2>1
<1>5. EndOf(c)' = Len(stream) + 1
  <2> DEFINE l == FrameLen(Append(frame, b)[1], Append(frame, b)[2])
  <2>1. EndOf(c)' = c + l - 1
    BY <1>2, <1>4, AssembledEnds
  <2>2. l = Len(frame) + 1
    BY <1>2
  <2> HIDE DEF l
  <2> QED BY <1>3, <1>4, <2>1, <2>2
<1>6. EndOf(c)' >= Len(stream) + 1 /\ EndOf(c)' <= Len(stream) + 1
  BY <1>3, <1>5
<1>7. /\ S \in SUBSET Markers' /\ Cut(S)'
      /\ c \in S /\ c \notin Complete(S) /\ S = Complete(S) \cup {c}
      /\ Complete(S)' = Complete(S) \cup {p \in {c} : EndOf(p)' <= Len(stream) + 1}
  BY <1>1, <1>2, <1>4, <1>6, CutContinues
<1>8. Complete(S)' = S /\ Complete(S)' = Complete(S) \cup {c}
  BY <1>6, <1>7
<1>9. SubSeq(stream', c, EndOf(c)') = Append(frame, b)
  <2>1. SubSeq(Append(stream, b), Len(stream) - Len(frame) + 1, Len(stream) + 1)
          = Append(frame, b)
    BY FrameIsSegment
  <2> QED BY <1>4, <1>5, <2>1
<1>10. Good(S)' = Good(S) \cup {p \in {c} : CrcMatches(SubSeq(stream', p, EndOf(p)'))}
  BY <1>1, <1>8, GoodKept
<1>11. /\ Good(S) \subseteq Complete(S) /\ Complete(S) \subseteq 1..Len(stream)
       /\ IsFiniteSet(Good(S)) /\ IsFiniteSet(Complete(S) \ Good(S))
  <2>1. Good(S) \subseteq Complete(S) /\ Complete(S) \subseteq 1..Len(stream)
    BY DEF Good, Complete, Markers
  <2>2. IsFiniteSet(1..Len(stream))
    BY <1>3, FS_Interval
  <2>3. Good(S) \subseteq 1..Len(stream) /\ Complete(S) \ Good(S) \subseteq 1..Len(stream)
    BY <2>1
  <2> QED BY <2>1, <2>2, <2>3, FS_Subset
<1>12. \A p \in Good(S) : EndOf(p)' = EndOf(p)
  BY <1>1, <1>11, CompleteKept
<1> DEFINE Place(p) == [last |-> EndOf(p), len |-> EndOf(p) - p + 1]
           Placed == {accepted[n] : n \in 1..Len(accepted)}
<1>13. Placed = {Place(p) : p \in Good(S)}
  BY <1>1 DEF Matches
<1>14. /\ packets_received = Cardinality(Good(S))
       /\ packets_bad_crc = Cardinality(Complete(S) \ Good(S))
  BY <1>1 DEF Matches
<1>15. Complete(S)' = S /\ S \ Complete(S)' = {}
  BY <1>8
<1>16. CASE CrcMatches(Append(frame, b))
  <2> DEFINE new == [last |-> Len(stream) + 1, len |-> Len(frame) + 1]
  <2>1. /\ accepted' = Append(accepted, new)
        /\ packets_received' = packets_received + 1
        /\ packets_bad_crc' = packets_bad_crc
    BY <1>2, <1>3, <1>16 DEF CompleteFrame, Accepts
  <2>2. Good(S)' = Good(S) \cup {c}
    BY <1>9, <1>10, <1>16
  <2>3. c \notin Good(S) /\ c \notin Complete(S) \ Good(S)
    BY <1>7, <1>11
  <2>4. packets_received' = Cardinality(Good(S)')
    <3>1. Cardinality(Good(S) \cup {c}) = Cardinality(Good(S)) + 1
      BY <1>11, <2>3, FS_AddElement
    <3> QED BY <1>14, <2>1, <2>2, <3>1
  <2>5. packets_bad_crc' = Cardinality(Complete(S)' \ Good(S)')
    <3>1. Complete(S)' \ Good(S)' = Complete(S) \ Good(S)
      BY <1>8, <2>2, <1>7
    <3> QED BY <1>14, <2>1, <3>1
  <2>6. new = Place(c)'
    BY <1>3, <1>4, <1>5
  <2>7. {accepted'[n] : n \in 1..Len(accepted')} = Placed \cup {new}
    <3>1. accepted \in Seq([last : Nat, len : Nat]) /\ Len(accepted) \in Nat
      BY DEF TypeOK, Types
    <3> HIDE DEF new
    <3>2. /\ Len(accepted') = Len(accepted) + 1
          /\ \A n \in 1..Len(accepted) : accepted'[n] = accepted[n]
          /\ accepted'[Len(accepted) + 1] = new
      <4>1. new \in [last : Nat, len : Nat]
        BY <1>3 DEF new
      <4> QED BY <2>1, <3>1, <4>1, AppendProperties
    <3>3. 1..Len(accepted') = 1..Len(accepted) \cup {Len(accepted) + 1}
      BY <3>1, <3>2
    <3> QED BY <3>2, <3>3
  <2>8. {Place(p)' : p \in Good(S)'} = {Place(p) : p \in Good(S)} \cup {Place(c)'}
    BY <1>12, <2>2
  <2>9. {accepted'[n] : n \in 1..Len(accepted')} = {Place(p)' : p \in Good(S)'}
    BY <1>13, <2>6, <2>7, <2>8
  <2>10. Matches(S)'
    BY <1>2, <1>15, <2>4, <2>5, <2>9 DEF Matches
  <2> QED BY <1>7, <2>10 DEF MatchesReference
<1>17. CASE ~CrcMatches(Append(frame, b))
  <2>1. /\ accepted' = accepted
        /\ packets_received' = packets_received
        /\ packets_bad_crc' = packets_bad_crc + 1
    BY <1>2, <1>17 DEF CompleteFrame, Accepts
  <2>2. Good(S)' = Good(S)
    BY <1>9, <1>10, <1>17
  <2>3. c \notin Complete(S) \ Good(S)
    BY <1>7
  <2>4. packets_received' = Cardinality(Good(S)')
    BY <1>14, <2>1, <2>2
  <2>5. packets_bad_crc' = Cardinality(Complete(S)' \ Good(S)')
    <3>1. Complete(S)' \ Good(S)' = (Complete(S) \ Good(S)) \cup {c}
      BY <1>7, <1>8, <1>11, <2>2
    <3>2. Cardinality((Complete(S) \ Good(S)) \cup {c}) = Cardinality(Complete(S) \ Good(S)) + 1
      BY <1>11, <2>3, FS_AddElement
    <3> QED BY <1>14, <2>1, <3>1, <3>2
  <2>6. {accepted'[n] : n \in 1..Len(accepted')} = {Place(p)' : p \in Good(S)'}
    BY <1>12, <1>13, <2>1, <2>2
  <2>7. Matches(S)'
    BY <1>2, <1>15, <2>4, <2>5, <2>6 DEF Matches
  <2> QED BY <1>7, <2>7 DEF MatchesReference
<1> QED BY <1>16, <1>17

LEMMA ReferenceInit == Init => MatchesReference
<1> SUFFICES ASSUME Init PROVE MatchesReference
  OBVIOUS
<1> USE DEF Init
<1>1. Markers = {}
  BY DEF Markers
<1>2. Complete({}) = {} /\ Good({}) = {}
  BY DEF Complete, Good
<1>3. Cut({})
  BY <1>1 DEF Cut
<1>4. {accepted[n] : n \in 1..Len(accepted)} = {}
  OBVIOUS
<1>5. Matches({})
  BY <1>2, <1>4, FS_EmptySet DEF Matches
<1> QED BY <1>1, <1>3, <1>5 DEF MatchesReference

LEMMA ReferenceStep ==
  ASSUME BufferFits, TypeOK, FrameIsStreamTail, MatchesReference, [Next]_vars
  PROVE  MatchesReference'
<1>0. TypeOK' /\ OverflowBranchDead
  BY TypeStep, HasRoomLeft
<1>1. ASSUME NEW b \in Byte, PushByte(b) PROVE MatchesReference'
  <2>0. stream' = Append(stream, b)
    BY <1>1 DEF PushByte
  <2>1. CASE DropByte(b)
    <3>1. /\ frame = <<>> /\ frame' = <<>> /\ ~Marker(b)
          /\ UNCHANGED <<accepted, packets_received, packets_bad_crc>>
      <4>1. ~(Len(frame) >= BufSize)
        BY <1>0, ProtocolAssumption DEF OverflowBranchDead, TypeOK, Types
      <4> QED BY <2>1, <4>1 DEF DropByte
    <3> QED BY <2>0, <3>1, ReferenceIdle
  <2>2. CASE StoreByte(b) /\ frame = <<>>
    <3>1. /\ Marker(b) /\ frame' = <<b>>
          /\ UNCHANGED <<accepted, packets_received, packets_bad_crc>>
      BY <2>2 DEF StoreByte, HasRoom, FrameAfter, Starts
    <3> QED BY <2>0, <2>2, <3>1, ReferenceIdle
  <2>3. CASE StoreByte(b) /\ frame # <<>>
    <3>1. /\ frame' = Append(frame, b)
          /\ UNCHANGED <<accepted, packets_received, packets_bad_crc>>
      BY <2>3 DEF StoreByte, FrameAfter, Starts
    <3> QED BY <1>0, <2>0, <2>3, <3>1, ReferenceInside
  <2>4. CASE CompleteFrame(b)
    BY <2>0, <2>4, ReferenceCompleted
  <2> QED BY <1>1, <2>1, <2>2, <2>3, <2>4 DEF PushByte
<1>2. CASE UNCHANGED vars
  <2>1. /\ stream' = stream /\ frame' = frame /\ accepted' = accepted
        /\ packets_received' = packets_received /\ packets_bad_crc' = packets_bad_crc
    BY <1>2 DEF vars
  <2>2. Markers' = Markers /\ \A p : EndOf(p)' = EndOf(p)
    BY <2>1 DEF Markers, EndOf, Marker, FrameLen, HeaderLen
  <2>3. \A T : Cut(T)' <=> Cut(T)
    BY <2>2 DEF Cut
  <2>4. \A T : Complete(T)' = Complete(T)
    BY <2>1, <2>2 DEF Complete
  <2>5. \A T : Good(T)' = Good(T)
    BY <2>1, <2>2, <2>4 DEF Good, CrcMatches
  <2>6. PICK S \in SUBSET Markers : Cut(S) /\ Matches(S)
    BY DEF MatchesReference
  <2>7. {accepted'[n] : n \in 1..Len(accepted')} =
          {[last |-> EndOf(p)', len |-> EndOf(p)' - p + 1] : p \in Good(S)'}
    BY <2>1, <2>2, <2>5, <2>6 DEF Matches
  <2>8. Matches(S)'
    BY <2>1, <2>4, <2>5, <2>6, <2>7 DEF Matches
  <2> QED BY <2>2, <2>3, <2>6, <2>8 DEF MatchesReference
<1> QED BY <1>1, <1>2 DEF Next

\* parser_push, fed one byte at a time, finds exactly the frames that cutting
\* the whole stream from left to right finds: it accepts each one whose
\* checksum matches, counts every other, and loses or invents none.
THEOREM ScanIsParser == BufferFits => (Spec => []MatchesReference)
<1> SUFFICES ASSUME BufferFits PROVE Spec => []MatchesReference
  OBVIOUS
<1>1. ASSUME TypeOK, FrameIsStreamTail, MatchesReference, [Next]_vars
      PROVE  MatchesReference'
  BY <1>1, ReferenceStep
<1> QED BY <1>1, ReferenceInit, TypeCorrect, StreamTail, PTL DEF Spec

=============================================================================
