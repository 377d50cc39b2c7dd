----------------------------- MODULE Web_proofs -----------------------------
(***************************************************************************)
(* Proofs about modules WebSocket and WebServer.                           *)
(***************************************************************************)
EXTENDS WebSocket, WebServer, SequenceTheorems, TLAPS

(***************************************************************************)
(* WebSocket: the builder, and what follows a close.                       *)
(***************************************************************************)

Bytes == Seq(Byte)
Headers == [fin : 0..1, op : 0..15, mask : 0..1, len : Nat]
Builders == [empty : BOOLEAN, errored : BOOLEAN, type : 0..15, content : Bytes]
OutFrames == [op : 0..15, data : Bytes, to : Nat]
Places == {"loop", "poll", "length", "key", "data"}

\* The bits of two bytes make a byte.
LEMMA XorByte ==
  ASSUME NEW a \in Byte, NEW b \in Byte
  PROVE  Xor(a, b) \in Byte
  <1>1. \A i \in 0..7 : Bit(a, i) \in Int /\ Bit(b, i) \in Int
    BY DEF Bit, Byte
  <1>2. \A x, y \in Int : (x + y) % 2 \in {0, 1}
    OBVIOUS
  <1>3. \A i \in 0..7 : (Bit(a, i) + Bit(b, i)) % 2 \in {0, 1}
    BY <1>1, <1>2
  <1> DEFINE p(i) == (Bit(a, i) + Bit(b, i)) % 2
  <1>4. Xor(a, b) = p(0) * 2^0 + p(1) * 2^1 + p(2) * 2^2 + p(3) * 2^3 + p(4) * 2^4 + p(5) * 2^5 + p(6) * 2^6 + p(7) * 2^7
    BY DEF Xor
  <1>5. 2^0 = 1 /\ 2^1 = 2 /\ 2^2 = 4 /\ 2^3 = 8 /\ 2^4 = 16 /\ 2^5 = 32 /\ 2^6 = 64 /\ 2^7 = 128
    OBVIOUS
  <1>6. \A i \in 0..7 : p(i) \in {0, 1}
    BY <1>3
  <1> HIDE DEF p
  <1>7. Xor(a, b) = p(0) + p(1) * 2 + p(2) * 4 + p(3) * 8 + p(4) * 16 + p(5) * 32 + p(6) * 64 + p(7) * 128
    BY <1>4, <1>5, <1>6
  <1> QED
    BY <1>6, <1>7 DEF Byte

\* Unmasking keeps the length.
LEMMA RemaskBytes ==
  ASSUME NEW d \in Bytes, NEW k \in Bytes, Len(k) = 4
  PROVE  Remask(d, k) \in Bytes /\ Len(Remask(d, k)) = Len(d)
  <1>1. \A i \in DOMAIN d : d[i] \in Byte
    BY DEF Bytes
  <1>2. \A i \in DOMAIN d : k[((i - 1) % 4) + 1] \in Byte
    <2>1. \A i \in DOMAIN d : i \in Int
      BY DEF Bytes
    <2>2. \A i \in Int : ((i - 1) % 4) + 1 \in 1..4
      OBVIOUS
    <2>3. \A j \in 1..4 : k[j] \in Byte
      BY ElementOfSeq DEF Bytes
    <2> QED
      BY <2>1, <2>2, <2>3
  <1>3. \A i \in DOMAIN d : Xor(d[i], k[((i - 1) % 4) + 1]) \in Byte
    BY <1>1, <1>2, XorByte
  <1>4. DOMAIN d = 1..Len(d) /\ Len(d) \in Nat
    BY DEF Bytes
  <1> QED
    BY <1>3, <1>4 DEF Remask, Bytes

\* What the peer sends for a frame are bytes.
LEMMA EncodeBytes ==
  ASSUME NEW f \in Frames
  PROVE  Encode(f) \in Bytes
  <1>1. f \in [fin : 0..1, op : 0..15, mask : 0..1, ext : BOOLEAN, data : Bytes]
        /\ Len(f.data) < (IF f.ext THEN 65536 ELSE 126) /\ Len(f.data) \in Nat
    BY FramesAssumption DEF Bytes
  <1>a. f.fin \in 0..1 /\ f.op \in 0..15 /\ f.mask \in 0..1
    BY <1>1
  <1>2. 128 * f.fin + f.op \in Byte /\ 128 * f.mask + 126 \in Byte
    BY <1>a DEF Byte
  <1>3. f.ext => Len(f.data) \div 256 \in Byte /\ Len(f.data) % 256 \in Byte
    <2>1. \A n \in Nat : n < 65536 => n \div 256 \in Byte /\ n % 256 \in Byte
      BY DEF Byte
    <2> QED
      BY <1>1, <2>1
  <1>4. ~f.ext => 128 * f.mask + Len(f.data) \in Byte
    <2>1. \A n \in Nat, m \in 0..1 : n < 126 => 128 * m + n \in Byte
      BY DEF Byte
    <2> QED
      BY <1>1, <1>a, <2>1
  <1>b. \A x, y, z \in Byte : <<x>> \in Bytes /\ <<x, y, z>> \in Bytes
    BY DEF Bytes
  <1>5. HeaderBytes(f.fin, f.op, f.mask, Len(f.data), f.ext) \in Bytes
    BY <1>1, <1>2, <1>3, <1>4, <1>b DEF HeaderBytes, Bytes
  <1>6. MaskingKey \in Bytes /\ MaskingKey \o Remask(f.data, MaskingKey) \in Bytes
    BY <1>1, RemaskBytes, WebSocketAssumption DEF Bytes
  <1> QED
    BY <1>1, <1>5, <1>6 DEF Encode, Bytes

\* What is read off the receive buffer, and what stays
LEMMA ReadTypes ==
  ASSUME rx \in Bytes, NEW n \in Nat
  PROVE  Taken(n) \in Bytes /\ Left(n) \in Bytes
  BY DEF Taken, Left, Min2, Bytes

\* A byte of several
LEMMA ByteOf ==
  ASSUME NEW s \in Bytes, NEW i \in 1..Len(s)
  PROVE  s[i] \in Byte
  BY ElementOfSeq DEF Bytes

\* A buffer that is read into holds bytes, as many as before.
LEMMA ReadIntoTypes ==
  ASSUME rx \in Bytes, NEW before \in Bytes
  PROVE  ReadInto(before) \in Bytes /\ Len(ReadInto(before)) = Len(before)
  <1>1. \A i \in DOMAIN before : (IF i <= Len(rx) THEN rx[i] ELSE before[i]) \in Byte
    BY DEF Bytes
  <1>2. DOMAIN before = 1..Len(before) /\ Len(before) \in Nat
    BY DEF Bytes
  <1> QED
    BY <1>1, <1>2 DEF ReadInto, Bytes

\* The types in the form the lemmas use
LEMMA Types ==
  TypeOK <=> /\ sent \in Seq(Frames) /\ net \in Bytes /\ rx \in Bytes /\ data \in Bytes
             /\ maskingKey \in Bytes /\ Len(maskingKey) = 4
             /\ peerOpen \in BOOLEAN /\ stopped \in BOOLEAN /\ connectionOpen \in BOOLEAN
             /\ torn \in BOOLEAN /\ erased \in BOOLEAN
             /\ pc \in Places /\ hdr \in Headers /\ mode \in {"Normal", "Streaming"}
             /\ builder \in Builders /\ closeReason \in Int /\ out \in Seq(OutFrames) /\ handled \in Nat
  BY DEF TypeOK, Bytes, Places, Headers, Builders, OutFrames

\* The same for the next state
LEMMA TypesNext ==
  TypeOK' <=> /\ sent' \in Seq(Frames) /\ net' \in Bytes /\ rx' \in Bytes /\ data' \in Bytes
              /\ maskingKey' \in Bytes /\ Len(maskingKey') = 4
              /\ peerOpen' \in BOOLEAN /\ stopped' \in BOOLEAN /\ connectionOpen' \in BOOLEAN
              /\ torn' \in BOOLEAN /\ erased' \in BOOLEAN
              /\ pc' \in Places /\ hdr' \in Headers /\ mode' \in {"Normal", "Streaming"}
              /\ builder' \in Builders /\ closeReason' \in Int /\ out' \in Seq(OutFrames) /\ handled' \in Nat
  BY DEF TypeOK, Bytes, Places, Headers, Builders, OutFrames

\* The payload of a frame
LEMMA PayloadBytes ==
  ASSUME TypeOK
  PROVE  payload \in Bytes /\ TypeOf(hdr.op) \in 0..15
  <1>1. data \in Bytes /\ maskingKey \in Bytes /\ Len(maskingKey) = 4 /\ hdr.op \in 0..15
    BY Types DEF Headers
  <1> QED
    BY <1>1, RemaskBytes DEF payload, TypeOf, Text, Binary, Close, Ping, Pong

\* What close() may be called with
Reasons == KnownReasons \cup {NoReason}

\* A reason to close, from the peer or of this side, is sent in two bytes.
LEMMA ReasonTypes ==
  /\ \A d \in Bytes : GetCloseReason(d) \in Reasons
  /\ ProtocolError \in Reasons /\ GoingAway \in Reasons
  /\ \A reason \in Reasons : reason \in Int /\ ReasonBytes(reason) \in Bytes
  <1>1. \A d \in Bytes : GetCloseReason(d) \in Reasons
    BY DEF GetCloseReason, Reasons, KnownReasons, GoingAway
  <1>2. ASSUME NEW reason \in Reasons
        PROVE  reason \in Int /\ ReasonBytes(reason) \in Bytes
    <2>1. CASE reason = NoReason
      BY <2>1 DEF NoReason, ReasonBytes, Bytes
    <2>2. CASE reason # NoReason
      <3>1. reason \in 1000..1011
        BY <2>2 DEF Reasons, KnownReasons
      <3>2. reason \div 256 \in Byte /\ reason % 256 \in Byte
        BY <3>1 DEF Byte
      <3>3. \A x, y \in Byte : <<x, y>> \in Bytes
        BY DEF Bytes
      <3> QED
        BY <2>2, <3>1, <3>2, <3>3 DEF ReasonBytes
    <2> QED
      BY <2>1, <2>2
  <1> QED
    BY <1>1, <1>2 DEF Reasons, KnownReasons, ProtocolError, GoingAway

\* What is common to the ways a frame is handled
FrameTypes ==
  /\ out' \in Seq(OutFrames) /\ closeReason' \in Int /\ stopped' \in BOOLEAN /\ rx' \in Bytes
  /\ connectionOpen' \in BOOLEAN

\* send() adds a frame to those that were sent.
LEMMA SendTypes ==
  ASSUME TypeOK, NEW op \in 0..15, NEW d \in Bytes, Send(op, d)
  PROVE  out' \in Seq(OutFrames)
  <1>1. out \in Seq(OutFrames) /\ handled \in Nat
    BY Types
  <1>2. [op |-> op, data |-> d, to |-> handled + 1] \in OutFrames
    BY <1>1 DEF OutFrames
  <1> QED
    BY <1>1, <1>2 DEF Send

\* endpoint.close() sends a frame, and leaves nothing to read.
LEMMA CloseTypes ==
  ASSUME TypeOK, NEW reason \in Reasons, EndpointClose(reason)
  PROVE  out' \in Seq(OutFrames) /\ closeReason' \in Int /\ stopped' = TRUE /\ rx' = <<>> /\ rx' \in Bytes
  <1>1. out' \in Seq(OutFrames)
    BY SendTypes, ReasonTypes DEF EndpointClose, Close
  <1> QED
    BY <1>1, ReasonTypes DEF EndpointClose, Bytes

\* close(CloseReason_ProtocolError) keeps the types.
LEMMA BadCombinationTypes ==
  ASSUME TypeOK, BadCombination
  PROVE  FrameTypes
  <1>1. EndpointClose(ProtocolError) /\ connectionOpen' = connectionOpen
    BY DEF BadCombination
  <1>2. out' \in Seq(OutFrames) /\ closeReason' \in Int /\ stopped' = TRUE /\ rx' \in Bytes
    BY <1>1, CloseTypes, ReasonTypes
  <1>3. stopped' \in BOOLEAN
    BY <1>2, Zenon
  <1> QED
    BY <1>1, <1>2, <1>3, Types DEF FrameTypes

\* A message that is handled, whatever its type, keeps the types.
LEMMA ReceivedTypes ==
  ASSUME TypeOK, NEW type \in 0..15, NEW d \in Bytes, Received(type, d)
  PROVE  FrameTypes
  <1>1. CASE type = Text
    <2>1. Send(Text, d) /\ UNCHANGED <<closeReason, stopped, rx, connectionOpen>>
      BY <1>1 DEF Received, Text, Ping, Close
    <2>2. out' \in Seq(OutFrames)
      BY <2>1, SendTypes DEF Text
    <2> QED
      BY <2>1, <2>2, Types DEF FrameTypes
  <1>2. CASE type = Ping
    <2>1. (UNCHANGED out \/ Send(Pong, d)) /\ UNCHANGED <<closeReason, stopped, rx, connectionOpen>>
      BY <1>2 DEF Received, Text, Ping, Close
    <2>2. out' \in Seq(OutFrames)
      BY <2>1, SendTypes, Types DEF Pong
    <2> QED
      BY <2>1, <2>2, Types DEF FrameTypes
  <1>3. CASE type = Close
    <2>1. EndpointClose(GetCloseReason(d)) /\ connectionOpen' = FALSE
      <3>1. type # Text /\ type # Ping
        BY <1>3 DEF Text, Ping, Close
      <3> QED
        BY <1>3, <3>1, Zenon DEF Received
    <2>2. out' \in Seq(OutFrames) /\ closeReason' \in Int /\ stopped' = TRUE /\ rx' \in Bytes
      BY <2>1, CloseTypes, ReasonTypes
    <2>3. stopped' \in BOOLEAN /\ connectionOpen' \in BOOLEAN
      BY <2>1, <2>2, Zenon
    <2> QED
      BY <2>2, <2>3 DEF FrameTypes
  <1>4. CASE type \notin {Text, Ping, Close}
    BY <1>4, Types DEF Received, FrameTypes
  <1> QED
    BY <1>1, <1>2, <1>3, <1>4

\* A frame that is complete resets what is local to _recv().
LEMMA CompleteTypes ==
  ASSUME TypeOK, FrameComplete, FrameTypes, mode' \in {"Normal", "Streaming"}, builder' \in Builders
  PROVE  TypeOK'
  <1>1. /\ pc' = "poll" /\ handled' = handled + 1 /\ hdr' = NoHeader /\ maskingKey' = <<0, 0, 0, 0>>
        /\ data' = <<>> /\ UNCHANGED <<sent, net, peerOpen, torn, erased>>
    BY DEF FrameComplete, peer
  <1>2. maskingKey' \in Bytes /\ Len(maskingKey') = 4 /\ data' \in Bytes
    BY <1>1 DEF Bytes, Byte
  <1>3. hdr' \in Headers
    BY <1>1 DEF NoHeader, Headers
  <1> QED
    BY <1>1, <1>2, <1>3, Types, TypesNext DEF FrameTypes, Places

\* The builder after a message
LEMMA EmptyBuilderTypes == EmptyBuilder \in Builders
  BY DEF EmptyBuilder, Builders, Bytes

\* A fragment is appended.
LEMMA AppendTypes ==
  ASSUME NEW b \in Builders, NEW d \in Bytes
  PROVE  /\ [b EXCEPT !.content = @ \o d] \in Builders
         /\ [b EXCEPT !.content = @ \o d].empty = b.empty
  <1>1. b.content \o d \in Bytes
    BY DEF Builders, Bytes
  <1>2. \A c \in Bytes : [b EXCEPT !.content = c] \in Builders /\ [b EXCEPT !.content = c].empty = b.empty
    BY DEF Builders
  <1> QED
    BY <1>1, <1>2, Zenon

\* A frame that is handled keeps the types.
LEMMA RecvTypes ==
  ASSUME TypeOK, recv
  PROVE  TypeOK'
  <1>0. /\ payload \in Bytes /\ TypeOf(hdr.op) \in 0..15
        /\ builder \in Builders /\ mode \in {"Normal", "Streaming"}
    BY PayloadBytes, Types
  <1>1. CASE SkipEmpty
    <2>1. FrameComplete /\ UNCHANGED <<rx, stopped, mode, builder, closeReason, connectionOpen, out>>
      BY <1>1 DEF SkipEmpty, endpoint
    <2>2. FrameTypes
      BY <2>1, Types DEF FrameTypes
    <2> QED
      BY <1>0, <2>1, <2>2, CompleteTypes
  <1>2. CASE WholeMessage
    <2>1. FrameComplete /\ Received(TypeOf(hdr.op), payload) /\ UNCHANGED <<mode, builder>>
      BY <1>2 DEF WholeMessage
    <2> QED
      BY <1>0, <2>1, ReceivedTypes, CompleteTypes
  <1>3. CASE BeginStream
    <2>1. FrameComplete /\ mode' = "Streaming"
      BY <1>3 DEF BeginStream
    <2>2. CASE /\ builder' = [empty |-> FALSE, errored |-> TypeOf(hdr.op) = 0, type |-> TypeOf(hdr.op), content |-> payload]
               /\ UNCHANGED <<rx, stopped, closeReason, connectionOpen, out>>
      <3>1. builder' \in Builders
        BY <1>0, <2>2 DEF Builders
      <3>2. FrameTypes
        BY <2>2, Types DEF FrameTypes
      <3> QED
        BY <2>1, <3>1, <3>2, CompleteTypes
    <2>3. CASE BadCombination /\ UNCHANGED builder
      BY <1>0, <2>1, <2>3, BadCombinationTypes, CompleteTypes
    <2> QED
      BY <1>3, <2>2, <2>3 DEF BeginStream
  <1>4. CASE AppendFragment
    <2>1. FrameComplete /\ mode' = mode
      BY <1>4 DEF AppendFragment
    <2>2. CASE /\ builder' = [builder EXCEPT !.content = @ \o payload]
               /\ UNCHANGED <<rx, stopped, closeReason, connectionOpen, out>>
      <3>1. builder' \in Builders
        BY <1>0, <2>2, AppendTypes, Zenon
      <3>2. FrameTypes
        BY <2>2, Types DEF FrameTypes
      <3> QED
        BY <1>0, <2>1, <3>1, <3>2, CompleteTypes
    <2>3. CASE BadCombination /\ UNCHANGED builder
      BY <1>0, <2>1, <2>3, BadCombinationTypes, CompleteTypes
    <2> QED
      BY <1>4, <2>2, <2>3, Zenon DEF AppendFragment
  <1>5. CASE EndStream
    <2>1. FrameComplete /\ mode' = "Normal"
      BY <1>5 DEF EndStream
    <2>2. CASE Received(builder.type, builder.content \o payload) /\ builder' = EmptyBuilder
      <3>1. builder.type \in 0..15 /\ builder.content \o payload \in Bytes
        BY <1>0 DEF Builders, Bytes
      <3> QED
        BY <2>1, <2>2, <3>1, ReceivedTypes, EmptyBuilderTypes, CompleteTypes
    <2>3. CASE BadCombination /\ UNCHANGED builder
      BY <1>0, <2>1, <2>3, BadCombinationTypes, CompleteTypes
    <2> QED
      BY <1>5, <2>2, <2>3 DEF EndStream
  <1>6. CASE OutOfPlace
    <2>1. FrameComplete /\ BadCombination /\ UNCHANGED <<mode, builder>>
      BY <1>6 DEF OutOfPlace
    <2> QED
      BY <1>0, <2>1, BadCombinationTypes, CompleteTypes
  <1> QED
    BY <1>1, <1>2, <1>3, <1>4, <1>5, <1>6 DEF recv

\* Every step keeps the types.
LEMMA TypeStep ==
  ASSUME TypeOK, [Next]_vars
  PROVE  TypeOK'
  <1>0. /\ sent \in Seq(Frames) /\ net \in Bytes /\ rx \in Bytes /\ data \in Bytes
        /\ maskingKey \in Bytes /\ Len(maskingKey) = 4
        /\ peerOpen \in BOOLEAN /\ stopped \in BOOLEAN /\ connectionOpen \in BOOLEAN
        /\ torn \in BOOLEAN /\ erased \in BOOLEAN
        /\ pc \in Places /\ hdr \in Headers /\ mode \in {"Normal", "Streaming"}
        /\ builder \in Builders /\ closeReason \in Int /\ out \in Seq(OutFrames) /\ handled \in Nat
    BY Types
  <1>1. CASE PeerSends
    <2>1. PICK f \in Frames : /\ sent' = Append(sent, f) /\ net' = net \o Encode(f)
                              /\ UNCHANGED <<peerOpen, rx, stopped, pc, reader, endpoint, connectionOpen, out, handled, torn, erased>>
      BY <1>1 DEF PeerSends
    <2>2. net' \in Bytes
      BY <1>0, <2>1, EncodeBytes DEF Bytes
    <2>3. sent' \in Seq(Frames)
      BY <1>0, <2>1
    <2> QED
      BY <1>0, <2>1, <2>2, <2>3, TypesNext DEF reader, endpoint
  <1>2. CASE PeerCloses
    <2>1. net' \in Bytes
      <3>1. <<>> \in Bytes
        BY DEF Bytes
      <3> QED
        BY <1>0, <1>2, <3>1 DEF PeerCloses
    <2>2. peerOpen' \in BOOLEAN
      BY <1>2, Zenon DEF PeerCloses
    <2> QED
      BY <1>0, <1>2, <2>1, <2>2, TypesNext DEF PeerCloses, reader, endpoint
  <1>3. CASE Arrive
    <2>1. net # <<>> /\ rx' = Append(rx, Head(net)) /\ net' = Tail(net)
      BY <1>3 DEF Arrive
    <2>2. rx' \in Bytes /\ net' \in Bytes
      BY <1>0, <2>1 DEF Bytes
    <2> QED
      BY <1>0, <1>3, <2>2, TypesNext DEF Arrive, reader, endpoint
  <1>4. CASE Visit \/ PollEnds
    BY <1>0, <1>4, TypesNext DEF Visit, PollEnds, peer, reader, endpoint, Places
  <1>5. CASE Erase
    <2>1. stopped' \in BOOLEAN /\ erased' \in BOOLEAN /\ connectionOpen' \in BOOLEAN
      BY <1>5, Zenon DEF Erase
    <2>2. closeReason' \in Int
      BY <1>0, <1>5 DEF Erase, GoingAway
    <2> QED
      BY <1>0, <1>5, <2>1, <2>2, TypesNext DEF Erase, peer, reader
  <1>6. CASE readHeader
    <2>1. PICK g \in Garbage :
            LET b == ReadInto(<<g, (g \div 128) * 128>>)
            IN  hdr' = [fin |-> b[1] \div 128, op |-> b[1] % 16, mask |-> b[2] \div 128, len |-> b[2] % 128]
      BY <1>6 DEF readHeader
    <2> DEFINE b == ReadInto(<<g, (g \div 128) * 128>>)
    <2>2. <<g, (g \div 128) * 128>> \in Bytes /\ Len(<<g, (g \div 128) * 128>>) = 2
      <3>1. g \in Byte
        BY WebSocketAssumption
      <3>2. (g \div 128) * 128 \in Byte
        BY <3>1 DEF Byte
      <3> QED
        BY <3>1, <3>2 DEF Bytes
    <2>3. b \in Bytes /\ Len(b) = 2
      BY <1>0, <2>2, ReadIntoTypes
    <2> HIDE DEF b
    <2>4. b[1] \in Byte /\ b[2] \in Byte
      <3>1. 1 \in 1..Len(b) /\ 2 \in 1..Len(b)
        BY <2>3
      <3> QED
        BY <2>3, <3>1, ByteOf
    <2>5. hdr' \in Headers
      <3>1. \A x \in Byte : x \div 128 \in 0..1 /\ x % 16 \in 0..15 /\ x % 128 \in Nat
        BY DEF Byte
      <3> QED
        BY <2>1, <2>4, <3>1 DEF b, Headers
    <2>6. pc' \in Places
      BY <1>6 DEF readHeader, AfterLength, Places
    <2>7. rx' \in Bytes /\ data' \in Bytes
      BY <1>0, <1>6, ReadTypes DEF readHeader, Bytes
    <2>8. torn' \in BOOLEAN
      BY <1>6 DEF readHeader
    <2> QED
      BY <1>0, <1>6, <2>5, <2>6, <2>7, <2>8, TypesNext DEF readHeader, peer, endpoint
  <1>7. CASE readExtendedPayloadLength
    <2> DEFINE n == IF hdr.len = 126 THEN 2 ELSE 8
               b == ReadInto([i \in 1..n |-> 0])
    <2>1. /\ hdr' = [hdr EXCEPT !.len = IF n = 2 THEN 256 * b[1] + b[2] ELSE 65536 * b[6] + 256 * b[7] + b[8]]
          /\ rx' = Left(n) /\ torn' = (torn \/ Len(rx) < n)
      BY <1>7 DEF readExtendedPayloadLength
    <2>2. [i \in 1..n |-> 0] \in Bytes /\ Len([i \in 1..n |-> 0]) = n
      BY DEF Bytes, Byte
    <2>3. n \in {2, 8} /\ b \in Bytes /\ Len(b) = n
      BY <1>0, <2>2, ReadIntoTypes
    <2> HIDE DEF b, n
    <2>4. (IF n = 2 THEN 256 * b[1] + b[2] ELSE 65536 * b[6] + 256 * b[7] + b[8]) \in Nat
      <3>1. CASE n = 2
        <4>1. b[1] \in Byte /\ b[2] \in Byte
          <5>1. 1 \in 1..Len(b) /\ 2 \in 1..Len(b)
            BY <2>3, <3>1
          <5> QED
            BY <2>3, <5>1, ByteOf
        <4>2. \A x, y \in Byte : 256 * x + y \in Nat
          BY DEF Byte
        <4> QED
          BY <3>1, <4>1, <4>2
      <3>2. CASE n = 8
        <4>1. b[6] \in Byte /\ b[7] \in Byte /\ b[8] \in Byte
          <5>1. 6 \in 1..Len(b) /\ 7 \in 1..Len(b) /\ 8 \in 1..Len(b)
            BY <2>3, <3>2
          <5> QED
            BY <2>3, <5>1, ByteOf
        <4>2. \A x, y, z \in Byte : 65536 * x + 256 * y + z \in Nat
          BY DEF Byte
        <4> QED
          BY <3>2, <4>1, <4>2
      <3> QED
        BY <2>3, <3>1, <3>2
    <2>5. hdr' \in Headers
      <3>1. \A h \in Headers, l \in Nat : [h EXCEPT !.len = l] \in Headers
        BY DEF Headers
      <3> QED
        <4> DEFINE l == IF n = 2 THEN 256 * b[1] + b[2] ELSE 65536 * b[6] + 256 * b[7] + b[8]
        <4>1. hdr' = [hdr EXCEPT !.len = l]
          BY <2>1
        <4>2. l \in Nat
          BY <2>4
        <4> HIDE DEF l
        <4> QED
          BY <1>0, <3>1, <4>1, <4>2
    <2>6. pc' \in Places
      BY <1>7 DEF readExtendedPayloadLength, AfterLength, Places
    <2>7. rx' \in Bytes /\ torn' \in BOOLEAN
      BY <1>0, <2>1, <2>3, ReadTypes
    <2>8. UNCHANGED <<peer, stopped, maskingKey, data, endpoint, connectionOpen, out, handled, erased>>
      BY <1>7 DEF readExtendedPayloadLength
    <2> QED
      BY <1>0, <2>5, <2>6, <2>7, <2>8, TypesNext DEF peer, endpoint
  <1>8. CASE readMaskingKey
    <2>1. PICK g \in Garbage : maskingKey' = ReadInto(<<g, g, g, g>>)
      BY <1>8 DEF readMaskingKey
    <2>2. <<g, g, g, g>> \in Bytes /\ Len(<<g, g, g, g>>) = 4
      BY WebSocketAssumption DEF Bytes
    <2>3. maskingKey' \in Bytes /\ Len(maskingKey') = 4
      BY <1>0, <2>1, <2>2, ReadIntoTypes
    <2>4. rx' \in Bytes /\ torn' \in BOOLEAN
      BY <1>0, <1>8, ReadTypes DEF readMaskingKey
    <2> QED
      BY <1>0, <1>8, <2>3, <2>4, TypesNext DEF readMaskingKey, peer, endpoint, Places
  <1>9. CASE readData
    <2>1. PICK n \in Nat : data' = data \o Taken(n) /\ rx' = Left(n)
      <3> DEFINE n == Min2(BufferSize, hdr.len - Len(data))
      <3>1. data' = data \o Taken(n) /\ rx' = Left(n) /\ Len(data) < hdr.len
        BY <1>9 DEF readData
      <3>2. hdr.len \in Nat /\ Len(data) \in Nat /\ BufferSize \in Nat
        BY <1>0, WebSocketAssumption DEF Headers, Bytes
      <3>3. n \in Nat
        BY <3>1, <3>2 DEF Min2
      <3> HIDE DEF n
      <3> QED
        BY <3>1, <3>3
    <2>2. data' \in Bytes /\ rx' \in Bytes
      BY <1>0, <2>1, ReadTypes DEF Bytes
    <2> QED
      BY <1>0, <1>9, <2>2, TypesNext DEF readData, peer, endpoint
  <1>10. CASE recv
    BY <1>10, RecvTypes
  <1>11. CASE UNCHANGED vars
    BY <1>0, <1>11, TypesNext DEF vars, peer, reader, endpoint
  <1> QED
    BY <1>1, <1>2, <1>3, <1>4, <1>5, <1>6, <1>7, <1>8, <1>9, <1>10, <1>11 DEF Next, ServerStep, Elsewhere

\* A socket that is stopped delivers nothing more, so that poll() ends without reading a frame.
StopInv ==
  /\ stopped => rx = <<>> /\ pc \in {"loop", "poll"}
  /\ ~stopped => \A i \in DOMAIN out : out[i].op # Close

\* The inductive invariant of a connection
EndInv == TypeOK /\ StopInv /\ BuilderIsInitialised /\ ClosedIsStopped /\ CloseIsLast

\* A frame that is sent becomes the last one, after those before it.
LEMMA SendEffect ==
  ASSUME TypeOK, NEW op, NEW d, Send(op, d)
  PROVE  /\ DOMAIN out' = 1..Len(out') /\ Len(out') = Len(out) + 1 /\ Len(out) \in Nat /\ DOMAIN out = 1..Len(out)
         /\ out'[Len(out')].op = op
         /\ \A i \in DOMAIN out : out'[i] = out[i]
  <1>1. out \in Seq(OutFrames) /\ out' = Append(out, [op |-> op, data |-> d, to |-> handled + 1])
    BY Types DEF Send
  <1> QED
    BY <1>1

\* A close frame is the last one, and the socket is stopped with it.
LEMMA EndpointCloseEffect ==
  ASSUME EndInv, ~stopped, EndpointClose(closeReason')
  PROVE  stopped' /\ rx' = <<>> /\ CloseIsLast'
  <1>1. Send(Close, ReasonBytes(closeReason')) /\ stopped' /\ rx' = <<>>
    BY DEF EndpointClose
  <1>2. CloseIsLast'
    BY <1>1, SendEffect DEF CloseIsLast, EndInv, StopInv
  <1> QED
    BY <1>1, <1>2

\* What handling a frame does to the socket and to what was sent
EndEffect ==
  /\ stopped' => rx' = <<>>
  /\ ~stopped' => \A i \in DOMAIN out' : out'[i].op # Close
  /\ CloseIsLast' /\ (~connectionOpen' => stopped')

\* A protocol error closes the connection.
LEMMA BadCombinationEnds ==
  ASSUME EndInv, ~stopped, BadCombination
  PROVE  EndEffect
  <1>1. EndpointClose(closeReason')
    BY DEF BadCombination, EndpointClose
  <1> QED
    BY <1>1, EndpointCloseEffect DEF EndEffect

\* A frame that is neither answered nor an error
LEMMA NothingSentEnds ==
  ASSUME EndInv, ~stopped, UNCHANGED <<rx, stopped, connectionOpen, out>>
  PROVE  EndEffect
  BY DEF EndEffect, EndInv, StopInv, ClosedIsStopped, CloseIsLast

\* A message is answered, or closes the connection.
LEMMA ReceivedEnds ==
  ASSUME EndInv, ~stopped, NEW type, NEW d, Received(type, d)
  PROVE  EndEffect
  <1>1. ASSUME NEW op, op # Close, Send(op, d), UNCHANGED <<closeReason, stopped, rx, connectionOpen>>
        PROVE  EndEffect
    <2>1. \A i \in DOMAIN out' : out'[i].op # Close
      BY <1>1, SendEffect DEF EndInv, StopInv
    <2> QED
      BY <1>1, <2>1 DEF EndEffect, EndInv, ClosedIsStopped, CloseIsLast
  <1>2. CASE Send(Text, d) /\ UNCHANGED <<closeReason, stopped, rx, connectionOpen>>
    BY <1>1, <1>2 DEF Text, Close
  <1>3. CASE Send(Pong, d) /\ UNCHANGED <<closeReason, stopped, rx, connectionOpen>>
    BY <1>1, <1>3 DEF Pong, Close
  <1>4. CASE UNCHANGED <<out, closeReason, stopped, rx, connectionOpen>>
    BY <1>4, NothingSentEnds
  <1>5. CASE EndpointClose(GetCloseReason(d))
    <2>1. EndpointClose(closeReason')
      BY <1>5 DEF EndpointClose
    <2> QED
      BY <2>1, EndpointCloseEffect DEF EndEffect
  <1> QED
    BY <1>2, <1>3, <1>4, <1>5, Zenon DEF Received

\* Nothing is sent after a close, however a frame is handled.
LEMMA RecvEnds ==
  ASSUME EndInv, recv
  PROVE  StopInv' /\ BuilderIsInitialised' /\ ClosedIsStopped' /\ CloseIsLast'
  <1>0. builder \in Builders /\ payload \in Bytes
    BY PayloadBytes, Types DEF EndInv
  <1>1. FrameComplete /\ pc' = "poll" /\ ~stopped
    <2>1. FrameComplete
      BY DEF recv, SkipEmpty, WholeMessage, BeginStream, AppendFragment, EndStream, OutOfPlace
    <2> QED
      BY <2>1 DEF FrameComplete, EndInv, StopInv
  <1>2. EndEffect
    <2>1. CASE SkipEmpty
      BY <1>1, <2>1, NothingSentEnds DEF SkipEmpty
    <2>2. CASE WholeMessage
      BY <1>1, <2>2, ReceivedEnds DEF WholeMessage
    <2>3. CASE BeginStream
      BY <1>1, <2>3, NothingSentEnds, BadCombinationEnds DEF BeginStream
    <2>4. CASE AppendFragment
      <3>1. BadCombination \/ UNCHANGED <<rx, stopped, connectionOpen, out>>
        BY <2>4, Zenon DEF AppendFragment
      <3> QED
        BY <1>1, <3>1, NothingSentEnds, BadCombinationEnds
    <2>5. CASE EndStream
      BY <1>1, <2>5, ReceivedEnds, BadCombinationEnds DEF EndStream
    <2>6. CASE OutOfPlace
      BY <1>1, <2>6, BadCombinationEnds DEF OutOfPlace
    <2> QED
      BY <2>1, <2>2, <2>3, <2>4, <2>5, <2>6 DEF recv
  <1>3. BuilderIsInitialised'
    <2>1. CASE SkipEmpty \/ WholeMessage \/ OutOfPlace
      BY <2>1 DEF SkipEmpty, WholeMessage, OutOfPlace, endpoint, EndInv, BuilderIsInitialised
    <2>2. CASE BeginStream
      BY <2>2 DEF BeginStream, EndInv, BuilderIsInitialised
    <2>3. CASE AppendFragment
      <3>1. mode' = mode /\ (builder' = builder \/ builder' = [builder EXCEPT !.content = @ \o payload])
        BY <2>3, Zenon DEF AppendFragment
      <3>2. [builder EXCEPT !.content = @ \o payload].empty = builder.empty
        BY <1>0, AppendTypes, Zenon
      <3>3. builder'.empty = builder.empty
        BY <3>1, <3>2, Zenon
      <3> QED
        BY <3>1, <3>3 DEF EndInv, BuilderIsInitialised
    <2>4. CASE EndStream
      BY <2>4 DEF EndStream, BuilderIsInitialised
    <2> QED
      BY <2>1, <2>2, <2>3, <2>4 DEF recv
  <1> QED
    BY <1>1, <1>2, <1>3 DEF EndEffect, StopInv, ClosedIsStopped

\* Every step of the peer, the network and the server keeps the invariant.
LEMMA EndStep ==
  ASSUME EndInv, [Next]_vars
  PROVE  EndInv'
  <1>0. TypeOK'
    BY TypeStep DEF EndInv
  <1>1. CASE recv
    BY <1>0, <1>1, RecvEnds DEF EndInv
  <1>2. CASE UNCHANGED <<stopped, out, mode, builder, connectionOpen>> /\ (stopped => rx' = <<>> /\ pc' \in {"loop", "poll"})
    BY <1>0, <1>2 DEF EndInv, StopInv, BuilderIsInitialised, ClosedIsStopped, CloseIsLast
  <1>3. CASE PeerSends \/ PeerCloses \/ Arrive
    BY <1>2, <1>3 DEF PeerSends, PeerCloses, Arrive, endpoint, EndInv, StopInv
  <1>4. CASE Visit \/ PollEnds
    BY <1>2, <1>4 DEF Visit, PollEnds, endpoint, EndInv, StopInv
  <1>5. CASE Erase
    <2>1. /\ stopped' /\ ~connectionOpen' /\ UNCHANGED <<rx, pc, mode, builder, out>>
          /\ rx = <<>> /\ pc = "loop"
      BY <1>5 DEF Erase, connected, EndInv, StopInv
    <2> QED
      BY <1>0, <2>1 DEF EndInv, StopInv, BuilderIsInitialised, ClosedIsStopped, CloseIsLast
  <1>6. ~stopped \/ ~(readHeader \/ readExtendedPayloadLength \/ readMaskingKey \/ readData)
    BY DEF readHeader, readExtendedPayloadLength, readMaskingKey, readData, EndInv, StopInv
  <1>7. CASE readHeader \/ readExtendedPayloadLength \/ readMaskingKey \/ readData
    <2>1. UNCHANGED <<stopped, out, mode, builder, connectionOpen>>
      BY <1>7 DEF readHeader, readExtendedPayloadLength, readMaskingKey, readData, endpoint
    <2> QED
      BY <1>2, <1>6, <1>7, <2>1
  <1>8. CASE UNCHANGED vars
    BY <1>2, <1>8 DEF vars, endpoint, EndInv, StopInv
  <1> QED
    BY <1>1, <1>3, <1>4, <1>5, <1>7, <1>8 DEF Next, ServerStep, Elsewhere

\* A new connection has been sent the hello only.
LEMMA EndInit ==
  ASSUME Init
  PROVE  EndInv
  <1>1. out = <<Hello>> /\ Hello \in OutFrames /\ Hello.op # Close
    BY DEF Init, Hello, OutFrames, Bytes, Text, Close
  <1>2. /\ sent = <<>> /\ net = <<>> /\ peerOpen = TRUE /\ rx = <<>> /\ stopped = FALSE /\ pc = "loop"
        /\ hdr = NoHeader /\ maskingKey = <<0, 0, 0, 0>> /\ data = <<>> /\ mode = "Normal" /\ builder = EmptyBuilder
        /\ closeReason = NoReason /\ connectionOpen = TRUE /\ handled = 0 /\ torn = FALSE /\ erased = FALSE
    BY DEF Init
  <1>3. /\ peerOpen \in BOOLEAN /\ stopped \in BOOLEAN /\ connectionOpen \in BOOLEAN /\ torn \in BOOLEAN
        /\ erased \in BOOLEAN
    BY <1>2, Zenon
  <1>4. maskingKey \in Bytes /\ Len(maskingKey) = 4 /\ <<>> \in Bytes /\ hdr \in Headers /\ NoReason \in Int
    BY <1>2 DEF Bytes, Byte, NoHeader, Headers, NoReason
  <1>5. TypeOK
    BY <1>1, <1>2, <1>3, <1>4, Types, EmptyBuilderTypes DEF Places
  <1>6. ~stopped /\ connectionOpen /\ mode = "Normal"
    BY <1>2
  <1> QED
    BY <1>1, <1>5, <1>6 DEF EndInv, StopInv, BuilderIsInitialised, ClosedIsStopped, CloseIsLast

\* recv() and close(), whatever bytes a peer sends and however TCP cuts them: the builder is
\* used only when a message was begun, a connection that is not open has a stopped socket, and
\* the peer gets nothing after a close frame.
THEOREM ConnectionsEndCleanly == Spec => []ConnectionEndsCleanly
  <1>1. EndInv /\ [Next]_vars => EndInv'
    BY EndStep
  <1>2. EndInv => ConnectionEndsCleanly
    BY DEF EndInv, ConnectionEndsCleanly
  <1> QED
    BY <1>1, <1>2, EndInit, PTL DEF Spec

\* The eight bits of a byte, and the byte of eight bits
Octet(p0, p1, p2, p3, p4, p5, p6, p7) ==
  p0 + 2 * p1 + 4 * p2 + 8 * p3 + 16 * p4 + 32 * p5 + 64 * p6 + 128 * p7

\* Bit() with the powers of two in numbers
LEMMA BitsAre ==
  ASSUME NEW x \in Nat
  PROVE  /\ Bit(x, 0) = x % 2 /\ Bit(x, 1) = (x \div 2) % 2 /\ Bit(x, 2) = (x \div 4) % 2
         /\ Bit(x, 3) = (x \div 8) % 2 /\ Bit(x, 4) = (x \div 16) % 2 /\ Bit(x, 5) = (x \div 32) % 2
         /\ Bit(x, 6) = (x \div 64) % 2 /\ Bit(x, 7) = (x \div 128) % 2
  <1>1. 2^0 = 1 /\ 2^1 = 2 /\ 2^2 = 4 /\ 2^3 = 8 /\ 2^4 = 16 /\ 2^5 = 32 /\ 2^6 = 64 /\ 2^7 = 128
    OBVIOUS
  <1>2. x \div 1 = x
    OBVIOUS
  <1> QED
    BY <1>1, <1>2, Zenon DEF Bit

\* A byte is made of its bits.
LEMMA ByteOfBits ==
  ASSUME NEW a \in Byte
  PROVE  /\ a = Octet(Bit(a, 0), Bit(a, 1), Bit(a, 2), Bit(a, 3), Bit(a, 4), Bit(a, 5), Bit(a, 6), Bit(a, 7))
         /\ \A i \in 0..7 : Bit(a, i) \in 0..1
  <1>1. a \in Nat /\ a < 256
    BY DEF Byte
  <1>2. /\ a % 2 \in 0..1 /\ (a \div 2) % 2 \in 0..1 /\ (a \div 4) % 2 \in 0..1 /\ (a \div 8) % 2 \in 0..1
        /\ (a \div 16) % 2 \in 0..1 /\ (a \div 32) % 2 \in 0..1 /\ (a \div 64) % 2 \in 0..1 /\ (a \div 128) % 2 \in 0..1
    BY <1>1
  <1>3. a = Octet(a % 2, (a \div 2) % 2, (a \div 4) % 2, (a \div 8) % 2, (a \div 16) % 2, (a \div 32) % 2,
                  (a \div 64) % 2, (a \div 128) % 2)
    BY <1>1 DEF Octet
  <1>4. \A i \in 0..7 : i = 0 \/ i = 1 \/ i = 2 \/ i = 3 \/ i = 4 \/ i = 5 \/ i = 6 \/ i = 7
    OBVIOUS
  <1>5. /\ Bit(a, 0) = a % 2 /\ Bit(a, 1) = (a \div 2) % 2 /\ Bit(a, 2) = (a \div 4) % 2
        /\ Bit(a, 3) = (a \div 8) % 2 /\ Bit(a, 4) = (a \div 16) % 2 /\ Bit(a, 5) = (a \div 32) % 2
        /\ Bit(a, 6) = (a \div 64) % 2 /\ Bit(a, 7) = (a \div 128) % 2
    BY <1>1, BitsAre
  <1>6. ASSUME NEW i \in 0..7
        PROVE  Bit(a, i) \in 0..1
    <2>1. i = 0 \/ i = 1 \/ i = 2 \/ i = 3 \/ i = 4 \/ i = 5 \/ i = 6 \/ i = 7
      BY <1>4
    <2>2. /\ Bit(a, 0) \in 0..1 /\ Bit(a, 1) \in 0..1 /\ Bit(a, 2) \in 0..1 /\ Bit(a, 3) \in 0..1
          /\ Bit(a, 4) \in 0..1 /\ Bit(a, 5) \in 0..1 /\ Bit(a, 6) \in 0..1 /\ Bit(a, 7) \in 0..1
      BY <1>2, <1>5
    <2> QED
      BY <2>1, <2>2
  <1> QED
    BY <1>3, <1>5, <1>6, Zenon

\* The bits of the byte of eight bits are these.
LEMMA BitsOfOctet ==
  ASSUME NEW p0 \in 0..1, NEW p1 \in 0..1, NEW p2 \in 0..1, NEW p3 \in 0..1,
         NEW p4 \in 0..1, NEW p5 \in 0..1, NEW p6 \in 0..1, NEW p7 \in 0..1
  PROVE  LET x == Octet(p0, p1, p2, p3, p4, p5, p6, p7)
         IN  /\ Bit(x, 0) = p0 /\ Bit(x, 1) = p1 /\ Bit(x, 2) = p2 /\ Bit(x, 3) = p3
             /\ Bit(x, 4) = p4 /\ Bit(x, 5) = p5 /\ Bit(x, 6) = p6 /\ Bit(x, 7) = p7
  <1> DEFINE x == Octet(p0, p1, p2, p3, p4, p5, p6, p7)
  <1>1. x \in Nat
    BY DEF Octet
  <1>2. /\ x % 2 = p0 /\ (x \div 2) % 2 = p1 /\ (x \div 4) % 2 = p2 /\ (x \div 8) % 2 = p3
        /\ (x \div 16) % 2 = p4 /\ (x \div 32) % 2 = p5 /\ (x \div 64) % 2 = p6 /\ (x \div 128) % 2 = p7
    BY DEF Octet
  <1> QED
    BY <1>1, <1>2, BitsAre

\* remaskData() with the same key twice gives back what there was, byte for byte.
LEMMA XorTwice ==
  ASSUME NEW a \in Byte, NEW b \in Byte
  PROVE  Xor(Xor(a, b), b) = a
  <1> DEFINE p(i) == (Bit(a, i) + Bit(b, i)) % 2
             q(i) == (p(i) + Bit(b, i)) % 2
             x == Octet(p(0), p(1), p(2), p(3), p(4), p(5), p(6), p(7))
  <1>1. \A i \in 0..7 : Bit(a, i) \in 0..1 /\ Bit(b, i) \in 0..1
    BY ByteOfBits
  <1>2. \A i \in 0..7 : p(i) \in 0..1 /\ q(i) = Bit(a, i)
    <2>1. \A u, v \in 0..1 : (u + v) % 2 \in 0..1 /\ (((u + v) % 2) + v) % 2 = u
      OBVIOUS
    <2> QED
      BY <1>1, <2>1
  <1>3. 2^0 = 1 /\ 2^1 = 2 /\ 2^2 = 4 /\ 2^3 = 8 /\ 2^4 = 16 /\ 2^5 = 32 /\ 2^6 = 64 /\ 2^7 = 128
    OBVIOUS
  <1>4. ASSUME NEW c, NEW d, \A i \in 0..7 : (Bit(c, i) + Bit(d, i)) % 2 \in 0..1
        PROVE  Xor(c, d) = Octet((Bit(c, 0) + Bit(d, 0)) % 2, (Bit(c, 1) + Bit(d, 1)) % 2, (Bit(c, 2) + Bit(d, 2)) % 2,
                                 (Bit(c, 3) + Bit(d, 3)) % 2, (Bit(c, 4) + Bit(d, 4)) % 2, (Bit(c, 5) + Bit(d, 5)) % 2,
                                 (Bit(c, 6) + Bit(d, 6)) % 2, (Bit(c, 7) + Bit(d, 7)) % 2)
    <2> DEFINE r(i) == (Bit(c, i) + Bit(d, i)) % 2
    <2>1. Xor(c, d) = r(0) * 2^0 + r(1) * 2^1 + r(2) * 2^2 + r(3) * 2^3 + r(4) * 2^4 + r(5) * 2^5 + r(6) * 2^6 + r(7) * 2^7
      BY DEF Xor
    <2>2. /\ r(0) \in 0..1 /\ r(1) \in 0..1 /\ r(2) \in 0..1 /\ r(3) \in 0..1
          /\ r(4) \in 0..1 /\ r(5) \in 0..1 /\ r(6) \in 0..1 /\ r(7) \in 0..1
      BY <1>4
    <2> HIDE DEF r
    <2>3. Xor(c, d) = Octet(r(0), r(1), r(2), r(3), r(4), r(5), r(6), r(7))
      BY <1>3, <2>1, <2>2 DEF Octet
    <2> QED
      BY <2>3 DEF r
  <1>5. Xor(a, b) = x
    BY <1>2, <1>4
  <1> HIDE DEF p
  <1>6. /\ Bit(x, 0) = p(0) /\ Bit(x, 1) = p(1) /\ Bit(x, 2) = p(2) /\ Bit(x, 3) = p(3)
        /\ Bit(x, 4) = p(4) /\ Bit(x, 5) = p(5) /\ Bit(x, 6) = p(6) /\ Bit(x, 7) = p(7)
    <2>1. /\ p(0) \in 0..1 /\ p(1) \in 0..1 /\ p(2) \in 0..1 /\ p(3) \in 0..1
          /\ p(4) \in 0..1 /\ p(5) \in 0..1 /\ p(6) \in 0..1 /\ p(7) \in 0..1
      BY <1>2
    <2> QED
      BY <2>1, BitsOfOctet
  <1> HIDE DEF x
  <1>7. /\ q(0) = Bit(a, 0) /\ q(1) = Bit(a, 1) /\ q(2) = Bit(a, 2) /\ q(3) = Bit(a, 3)
        /\ q(4) = Bit(a, 4) /\ q(5) = Bit(a, 5) /\ q(6) = Bit(a, 6) /\ q(7) = Bit(a, 7)
    BY <1>2
  <1>8. /\ (Bit(x, 0) + Bit(b, 0)) % 2 = Bit(a, 0) /\ (Bit(x, 1) + Bit(b, 1)) % 2 = Bit(a, 1)
        /\ (Bit(x, 2) + Bit(b, 2)) % 2 = Bit(a, 2) /\ (Bit(x, 3) + Bit(b, 3)) % 2 = Bit(a, 3)
        /\ (Bit(x, 4) + Bit(b, 4)) % 2 = Bit(a, 4) /\ (Bit(x, 5) + Bit(b, 5)) % 2 = Bit(a, 5)
        /\ (Bit(x, 6) + Bit(b, 6)) % 2 = Bit(a, 6) /\ (Bit(x, 7) + Bit(b, 7)) % 2 = Bit(a, 7)
    BY <1>6, <1>7, Zenon
  <1>9. \A i \in 0..7 : (Bit(x, i) + Bit(b, i)) % 2 \in 0..1
    <2>1. \A i \in 0..7 : i = 0 \/ i = 1 \/ i = 2 \/ i = 3 \/ i = 4 \/ i = 5 \/ i = 6 \/ i = 7
      OBVIOUS
    <2> QED
      BY <1>1, <1>8, <2>1, Zenon
  <1>10. Xor(x, b) = Octet(Bit(a, 0), Bit(a, 1), Bit(a, 2), Bit(a, 3), Bit(a, 4), Bit(a, 5), Bit(a, 6), Bit(a, 7))
    BY <1>4, <1>8, <1>9, Zenon
  <1> QED
    BY <1>5, <1>10, ByteOfBits

\* Unmasking gives back what was masked.
LEMMA RemaskTwice ==
  ASSUME NEW d \in Bytes, NEW key \in Bytes, Len(key) = 4
  PROVE  Remask(Remask(d, key), key) = d
  <1> DEFINE e == Remask(d, key)
  <1>1. e \in Bytes /\ Len(e) = Len(d) /\ Len(d) \in Nat /\ DOMAIN d = 1..Len(d) /\ DOMAIN e = 1..Len(d)
    BY RemaskBytes DEF Bytes
  <1>2. \A i \in 1..Len(d) : d[i] \in Byte /\ key[((i - 1) % 4) + 1] \in Byte
    <2>1. \A i \in 1..Len(d) : ((i - 1) % 4) + 1 \in 1..Len(key)
      BY <1>1
    <2> QED
      BY <2>1, ByteOf
  <1>3. \A i \in 1..Len(d) : e[i] = Xor(d[i], key[((i - 1) % 4) + 1])
    BY <1>1 DEF Remask
  <1>4. \A i \in 1..Len(d) : Xor(e[i], key[((i - 1) % 4) + 1]) = d[i]
    BY <1>2, <1>3, XorTwice
  <1> HIDE DEF e
  <1>5. Remask(e, key) = [i \in 1..Len(d) |-> d[i]]
    BY <1>1, <1>4 DEF Remask
  <1> QED
    BY <1>1, <1>5 DEF e, Bytes

(***************************************************************************)
(* WebSocket: the bytes of the stream and the frames they are read as.     *)
(***************************************************************************)

\* How long header, extended length and key of a frame are, and its payload as it is sent
HeadLen(f) == (IF f.ext THEN 4 ELSE 2) + (IF f.mask = 1 THEN 4 ELSE 0)
Sealed(f) == IF f.mask = 1 THEN Remask(f.data, MaskingKey) ELSE f.data

\* What is known of a frame
FrameFacts(f) ==
  /\ f.fin \in 0..1 /\ f.op \in 0..15 /\ f.mask \in 0..1 /\ f.ext \in BOOLEAN /\ f.data \in Bytes
  /\ Len(f.data) \in Nat /\ Len(f.data) < 65536 /\ (~f.ext => Len(f.data) < 126)
  /\ HeadLen(f) \in Nat /\ HeadLen(f) >= 2
  /\ Sealed(f) \in Bytes /\ Len(Sealed(f)) = Len(f.data)

\* Frames are as the assumption on them says.
LEMMA FrameTypesAre ==
  ASSUME NEW f \in Frames
  PROVE  FrameFacts(f)
  <1>1. f \in [fin : 0..1, op : 0..15, mask : 0..1, ext : BOOLEAN, data : Bytes]
        /\ Len(f.data) < (IF f.ext THEN 65536 ELSE 126) /\ Len(f.data) \in Nat
    BY FramesAssumption DEF Bytes
  <1>2. f.fin \in 0..1 /\ f.op \in 0..15 /\ f.mask \in 0..1 /\ f.ext \in BOOLEAN /\ f.data \in Bytes
    BY <1>1
  <1>3. Sealed(f) \in Bytes /\ Len(Sealed(f)) = Len(f.data)
    BY <1>2, RemaskBytes, WebSocketAssumption DEF Sealed, Bytes
  <1> QED
    BY <1>1, <1>2, <1>3 DEF HeadLen, FrameFacts

\* Two sequences one after the other
LEMMA Concats ==
  ASSUME NEW s1 \in Seq(Int), NEW s2 \in Seq(Int)
  PROVE  /\ s1 \o s2 \in Seq(Int) /\ Len(s1 \o s2) = Len(s1) + Len(s2) /\ Len(s1) \in Nat /\ Len(s2) \in Nat
         /\ \A b \in 1..Len(s1) : (s1 \o s2)[b] = s1[b]
         /\ \A b \in 1..Len(s2) : (s1 \o s2)[Len(s1) + b] = s2[b]
  OBVIOUS

\* Bytes are numbers.
LEMMA BytesAreInts ==
  ASSUME NEW s \in Bytes
  PROVE  s \in Seq(Int) /\ Len(s) \in Nat
  <1>1. Len(s) \in Nat /\ s \in [1..Len(s) -> Byte]
    BY LenProperties DEF Bytes
  <1>2. Byte \subseteq Int
    BY DEF Byte
  <1>3. s \in [1..Len(s) -> Int]
    BY <1>1, <1>2
  <1> QED
    BY <1>1, <1>3

\* The bytes of a header, in which two numbers make one
High(x) == x \div 128
Low(x) == x % 128
Nibble(x) == x % 16
Joint(high, low) == 128 * high + low
HighByte(x) == x \div 256
LowByte(x) == x % 256
JointBytes(high, low) == 256 * high + low
Field(f) == IF f.ext THEN 126 ELSE Len(f.data)
HeaderShape(f, n, h) ==
  /\ h \in Seq(Int) /\ Len(h) = (IF f.ext THEN 4 ELSE 2)
  /\ h[1] = Joint(f.fin, f.op) /\ h[2] = Joint(f.mask, Field(f))
  /\ f.ext => h[3] = HighByte(n) /\ h[4] = LowByte(n)

\* HeaderBytes() has this shape.
LEMMA HeaderIs ==
  ASSUME NEW f \in Frames
  PROVE  HeaderShape(f, Len(f.data), HeaderBytes(f.fin, f.op, f.mask, Len(f.data), f.ext))
  <1> DEFINE n == Len(f.data)
             h == HeaderBytes(f.fin, f.op, f.mask, n, f.ext)
             x == 128 * f.fin + f.op
             y == 128 * f.mask + 126
             v == 128 * f.mask + n
             z == n \div 256
             w == n % 256
  <1>1. n \in Nat /\ f.fin \in 0..1 /\ f.op \in 0..15 /\ f.mask \in 0..1
    BY FrameTypesAre DEF FrameFacts
  <1> HIDE DEF n
  <1>2. x \in Int /\ y \in Int /\ v \in Int /\ z \in Int /\ w \in Int
    BY <1>1
  <1>3. f.ext => h = <<x>> \o <<y, z, w>>
    BY DEF HeaderBytes
  <1>4. ~f.ext => h = <<x>> \o <<v>>
    BY DEF HeaderBytes
  <1>5. /\ h \in Seq(Int) /\ Len(h) = (IF f.ext THEN 4 ELSE 2) /\ h[1] = x
        /\ f.ext => h[2] = y /\ h[3] = z /\ h[4] = w
        /\ ~f.ext => h[2] = v
        => HeaderShape(f, n, h)
    BY DEF HeaderShape, Joint, HighByte, LowByte, Field, n
  <1> HIDE DEF x, y, v, z, w, h
  <1>6. CASE f.ext
    <2>1. /\ <<x>> \o <<y, z, w>> \in Seq(Int) /\ Len(<<x>> \o <<y, z, w>>) = 4
          /\ (<<x>> \o <<y, z, w>>)[1] = x /\ (<<x>> \o <<y, z, w>>)[2] = y
          /\ (<<x>> \o <<y, z, w>>)[3] = z /\ (<<x>> \o <<y, z, w>>)[4] = w
      BY <1>2
    <2>2. h = <<x>> \o <<y, z, w>>
      BY <1>3, <1>6, Zenon
    <2>3. h \in Seq(Int) /\ Len(h) = 4 /\ h[1] = x /\ h[2] = y /\ h[3] = z /\ h[4] = w
      BY <2>1, <2>2, Zenon
    <2> QED
      BY <1>5, <1>6, <2>3, Zenon DEF n, h
  <1>7. CASE ~f.ext
    <2>1. /\ <<x>> \o <<v>> \in Seq(Int) /\ Len(<<x>> \o <<v>>) = 2
          /\ (<<x>> \o <<v>>)[1] = x /\ (<<x>> \o <<v>>)[2] = v
      BY <1>2
    <2>2. h = <<x>> \o <<v>>
      BY <1>4, <1>7, Zenon
    <2>3. h \in Seq(Int) /\ Len(h) = 2 /\ h[1] = x /\ h[2] = v
      BY <2>1, <2>2, Zenon
    <2> QED
      BY <1>5, <1>7, <2>3, Zenon DEF n, h
  <1> QED
    BY <1>6, <1>7 DEF n, h

\* The bytes behind the header: the key, if there is one, and the payload
KeyLen(f) == IF f.mask = 1 THEN 4 ELSE 0
Rest(f) == IF f.mask = 1 THEN MaskingKey \o Remask(f.data, MaskingKey) ELSE f.data
RestShape(f, n, t) ==
  /\ t \in Seq(Int) /\ Len(t) = KeyLen(f) + n
  /\ f.mask = 1 => \A b \in 1..4 : t[b] = MaskingKey[b]
  /\ \A b \in 1..n : t[KeyLen(f) + b] = Sealed(f)[b]

\* The end of what Encode() makes of a frame has this shape.
LEMMA RestIs ==
  ASSUME NEW f \in Frames
  PROVE  RestShape(f, Len(f.data), Rest(f))
  <1> DEFINE e == Sealed(f)
             n == Len(f.data)
             t == Rest(f)
             l == KeyLen(f)
  <1>1. n \in Nat /\ f.data \in Bytes /\ e \in Bytes /\ Len(e) = n
    BY FrameTypesAre DEF FrameFacts
  <1>2. e \in Seq(Int) /\ MaskingKey \in Seq(Int) /\ Len(MaskingKey) = 4
    BY <1>1, BytesAreInts, WebSocketAssumption DEF Bytes
  <1>3. f.mask = 1 => l = 4 /\ t = MaskingKey \o e
    BY DEF Sealed, Rest, KeyLen
  <1>4. f.mask # 1 => l = 0 /\ t = e
    BY DEF Sealed, Rest, KeyLen
  <1>a. /\ t \in Seq(Int) /\ Len(t) = l + n
        /\ f.mask = 1 => \A b \in 1..4 : t[b] = MaskingKey[b]
        /\ \A b \in 1..n : t[l + b] = e[b]
        => RestShape(f, n, t)
    BY DEF RestShape
  <1> HIDE DEF e, n, t, l
  <1>5. CASE f.mask = 1
    <2>1. /\ MaskingKey \o e \in Seq(Int) /\ Len(MaskingKey \o e) = Len(MaskingKey) + Len(e)
          /\ \A b \in 1..Len(MaskingKey) : (MaskingKey \o e)[b] = MaskingKey[b]
          /\ \A b \in 1..Len(e) : (MaskingKey \o e)[Len(MaskingKey) + b] = e[b]
      BY <1>2, Concats
    <2>2. /\ MaskingKey \o e \in Seq(Int) /\ Len(MaskingKey \o e) = 4 + n
          /\ \A b \in 1..4 : (MaskingKey \o e)[b] = MaskingKey[b]
          /\ \A b \in 1..n : (MaskingKey \o e)[4 + b] = e[b]
      BY <1>1, <1>2, <2>1
    <2>3. l = 4 /\ t = MaskingKey \o e
      BY <1>3, <1>5, Zenon
    <2> QED
      BY <1>a, <2>2, <2>3, Zenon DEF n, t
  <1>6. CASE f.mask # 1
    <2>1. l = 0 /\ t = e /\ 0 + n = n
      BY <1>1, <1>4, <1>6
    <2>2. \A b \in 1..n : 0 + b = b
      BY <1>1
    <2> QED
      BY <1>1, <1>2, <1>6, <1>a, <2>1, <2>2, Zenon DEF n, t
  <1> QED
    BY <1>5, <1>6 DEF n, t

\* Where the parts of a frame are among its bytes
Placement(f) ==
  /\ Len(Encode(f)) = HeadLen(f) + Len(f.data)
  /\ Encode(f)[1] = Joint(f.fin, f.op)
  /\ Encode(f)[2] = Joint(f.mask, Field(f))
  /\ f.ext => Encode(f)[3] = HighByte(Len(f.data)) /\ Encode(f)[4] = LowByte(Len(f.data))
  /\ f.mask = 1 => \A b \in 1..4 : Encode(f)[HeadLen(f) - 4 + b] = MaskingKey[b]
  /\ \A b \in 1..Len(f.data) : Encode(f)[HeadLen(f) + b] = Sealed(f)[b]

\* Encode() puts them there.
LEMMA Positions ==
  ASSUME NEW f \in Frames
  PROVE  Placement(f)
  <1> DEFINE n == Len(f.data)
             h == HeaderBytes(f.fin, f.op, f.mask, n, f.ext)
             t == Rest(f)
             m == IF f.ext THEN 4 ELSE 2
             l == KeyLen(f)
  <1>1. n \in Nat
    BY FrameTypesAre DEF FrameFacts
  <1>2. /\ h \in Seq(Int) /\ Len(h) = m
        /\ h[1] = Joint(f.fin, f.op) /\ h[2] = Joint(f.mask, Field(f))
        /\ f.ext => h[3] = HighByte(n) /\ h[4] = LowByte(n)
    BY HeaderIs DEF HeaderShape
  <1>3. /\ t \in Seq(Int) /\ Len(t) = l + n
        /\ f.mask = 1 => \A b \in 1..4 : t[b] = MaskingKey[b]
        /\ \A b \in 1..n : t[l + b] = Sealed(f)[b]
    BY RestIs DEF RestShape
  <1>4. Encode(f) = h \o t /\ HeadLen(f) = m + l /\ m \in {2, 4} /\ l \in {0, 4}
    BY DEF Encode, HeadLen, Rest, KeyLen
  <1>5. f.mask = 1 => l = 4
    BY DEF KeyLen
  <1>6. f.ext => m = 4
    OBVIOUS
  <1> HIDE DEF h, t, m, l, n
  <1>7. /\ Len(h \o t) = m + (l + n)
        /\ \A b \in 1..m : (h \o t)[b] = h[b]
        /\ \A b \in 1..(l + n) : (h \o t)[m + b] = t[b]
    <2>1. h \in Seq(Int) /\ t \in Seq(Int) /\ Len(h) = m /\ Len(t) = l + n
      BY <1>2, <1>3
    <2>2. /\ Len(h \o t) = Len(h) + Len(t)
          /\ \A b \in 1..Len(h) : (h \o t)[b] = h[b]
          /\ \A b \in 1..Len(t) : (h \o t)[Len(h) + b] = t[b]
      BY <2>1, Concats
    <2> QED
      BY <2>1, <2>2, Zenon
  <1>8. \A b \in 1..n : Encode(f)[HeadLen(f) + b] = Sealed(f)[b]
    <2>1. ASSUME NEW b \in 1..n
          PROVE  l + b \in 1..(l + n) /\ HeadLen(f) + b = m + (l + b)
      BY <1>1, <1>4
    <2>2. ASSUME NEW b \in 1..n
          PROVE  Encode(f)[HeadLen(f) + b] = Sealed(f)[b]
      <3>1. l + b \in 1..(l + n) /\ HeadLen(f) + b = m + (l + b)
        BY <2>1
      <3>2. (h \o t)[m + (l + b)] = t[l + b]
        BY <1>7, <3>1
      <3> QED
        BY <1>3, <1>4, <3>1, <3>2
    <2> QED
      BY <2>2
  <1>9. ASSUME f.mask = 1, NEW b \in 1..4
        PROVE  Encode(f)[HeadLen(f) - 4 + b] = MaskingKey[b]
    <2>1. b \in 1..(l + n) /\ HeadLen(f) - 4 + b = m + b
      BY <1>1, <1>4, <1>5, <1>9
    <2> QED
      BY <1>3, <1>4, <1>7, <1>9, <2>1
  <1>10. 1 \in 1..m /\ 2 \in 1..m /\ (f.ext => 3 \in 1..m /\ 4 \in 1..m)
    BY <1>4, <1>6
  <1>11. Len(Encode(f)) = HeadLen(f) + n
    BY <1>1, <1>4, <1>7
  <1>12. /\ Encode(f)[1] = h[1] /\ Encode(f)[2] = h[2]
         /\ f.ext => Encode(f)[3] = h[3] /\ Encode(f)[4] = h[4]
    <2>1. \A b \in 1..m : Encode(f)[b] = h[b]
      BY <1>4, <1>7, Zenon
    <2> QED
      BY <1>10, <2>1, Zenon
  <1> QED
    BY <1>2, <1>8, <1>9, <1>11, <1>12 DEF n, Placement

\* The stream that the peer wrote for the frames s: frame k lies behind its first cut[k] bytes.
Laid(s, stream, cut) ==
  /\ stream \in Bytes /\ cut \in [1..(Len(s) + 1) -> 0..Len(stream)]
  /\ cut[1] = 0 /\ cut[Len(s) + 1] = Len(stream)
  /\ \A k \in 1..Len(s) : /\ cut[k + 1] = cut[k] + Len(Encode(s[k]))
                          /\ \A b \in 1..Len(Encode(s[k])) : stream[cut[k] + b] = Encode(s[k])[b]

\* What is unread of it, behind the first place bytes, is in the receive buffer and on its way,
\* but for what was lost when the peer left.
Flow(stream, place) ==
  /\ place \in Nat /\ place + Len(rx) + Len(net) <= Len(stream)
  /\ peerOpen => place + Len(rx) + Len(net) = Len(stream)
  /\ \A b \in 1..Len(rx) : rx[b] = stream[place + b]
  /\ \A b \in 1..Len(net) : net[b] = stream[place + Len(rx) + b]

\* What _recv() knows of the frame f of which it read the first n bytes
HeaderIsOf(f, len) == hdr.fin = f.fin /\ hdr.op = f.op /\ hdr.mask = f.mask /\ hdr.len = len
ReadsLength(f, n) == f.ext /\ HeaderIsOf(f, 126) /\ data = <<>> /\ n = 2
ReadsKey(f, n) == f.mask = 1 /\ HeaderIsOf(f, Len(f.data)) /\ data = <<>> /\ n = HeadLen(f) - 4
ReadsData(f, n) ==
  /\ HeaderIsOf(f, Len(f.data)) /\ n = HeadLen(f) + Len(data) /\ Len(data) <= Len(f.data)
  /\ f.mask = 1 => maskingKey = MaskingKey
  /\ \A b \in 1..Len(data) : data[b] = Sealed(f)[b]

\* Which frame is being read, and how far
ReadsFrame(f, n) ==
  /\ pc = "length" => ReadsLength(f, n)
  /\ pc = "key" => ReadsKey(f, n)
  /\ pc = "data" => ReadsData(f, n)
FrameReading(cut, place) ==
  /\ handled <= Len(sent)
  /\ pc \in {"loop", "poll"} => place = cut[handled + 1]
  /\ pc \in {"length", "key", "data"} =>
       handled + 1 <= Len(sent) /\ ReadsFrame(sent[handled + 1], place - cut[handled + 1])

\* The frames are read off the stream as they were written.
Framed(stream, cut, place) == Laid(sent, stream, cut) /\ Flow(stream, place) /\ FrameReading(cut, place)
FramingInv == ~torn /\ ~stopped => \E stream, cut, place : Framed(stream, cut, place)

\* The types that reading a frame needs
LEMMA ReadingTypes ==
  ASSUME TypeOK
  PROVE  /\ sent \in Seq(Frames) /\ net \in Bytes /\ rx \in Bytes /\ data \in Bytes /\ handled \in Nat
         /\ Len(sent) \in Nat /\ Len(net) \in Nat /\ Len(rx) \in Nat /\ Len(data) \in Nat
         /\ \A k \in 1..Len(sent) : sent[k] \in Frames
         /\ hdr \in Headers /\ pc \in Places
  <1>1. sent \in Seq(Frames) /\ net \in Bytes /\ rx \in Bytes /\ data \in Bytes /\ handled \in Nat
        /\ hdr \in Headers /\ pc \in Places
    BY Types
  <1>2. Len(sent) \in Nat /\ \A k \in 1..Len(sent) : sent[k] \in Frames
    BY <1>1, ElementOfSeq
  <1> QED
    BY <1>1, <1>2, BytesAreInts

\* A frame more on the stream
LEMMA LaidMore ==
  ASSUME NEW s \in Seq(Frames), NEW stream, NEW cut, Laid(s, stream, cut), NEW f \in Frames
  PROVE  \E longer : /\ Laid(Append(s, f), stream \o Encode(f), longer)
                     /\ \A k \in 1..(Len(s) + 1) : longer[k] = cut[k]
  <1> DEFINE n == Len(s)
             t == Append(s, f)
             c == Encode(f)
             more == stream \o c
             longer == [k \in 1..(n + 2) |-> IF k = n + 2 THEN Len(more) ELSE cut[k]]
  <1>1. /\ n \in Nat /\ stream \in Bytes /\ cut \in [1..(n + 1) -> 0..Len(stream)]
        /\ cut[1] = 0 /\ cut[n + 1] = Len(stream)
    BY DEF Laid
  <1>2. \A k \in 1..n : /\ cut[k + 1] = cut[k] + Len(Encode(s[k]))
                        /\ \A b \in 1..Len(Encode(s[k])) : stream[cut[k] + b] = Encode(s[k])[b]
    BY DEF Laid
  <1>3. Len(t) = n + 1 /\ t[n + 1] = f /\ \A k \in 1..n : t[k] = s[k]
    BY <1>1
  <1>4. c \in Bytes /\ more \in Bytes
    BY <1>1, EncodeBytes DEF Bytes
  <1>5. Len(c) \in Nat /\ Len(stream) \in Nat /\ Len(more) = Len(stream) + Len(c)
    BY <1>1, <1>4, BytesAreInts DEF Bytes
  <1>6. \A b \in 1..Len(stream) : more[b] = stream[b]
    BY <1>1, <1>4, BytesAreInts, Concats
  <1>7. \A b \in 1..Len(c) : more[Len(stream) + b] = c[b]
    BY <1>1, <1>4, BytesAreInts, Concats
  <1> HIDE DEF n, more, c
  <1>8. longer \in [1..(n + 2) -> 0..Len(more)]
    <2>1. ASSUME NEW k \in 1..(n + 2)
          PROVE  (IF k = n + 2 THEN Len(more) ELSE cut[k]) \in 0..Len(more)
      <3>1. CASE k = n + 2
        BY <3>1, <1>5
      <3>2. CASE k # n + 2
        <4>1. k \in 1..(n + 1)
          BY <1>1, <3>2
        <4>2. cut[k] \in 0..Len(stream)
          BY <1>1, <4>1
        <4> QED
          BY <3>2, <4>2, <1>5
      <3> QED
        BY <3>1, <3>2
    <2> QED
      BY <2>1
  <1>9. longer[n + 2] = Len(more) /\ \A k \in 1..(n + 1) : longer[k] = cut[k]
    BY <1>1
  <1> HIDE DEF longer
  <1>10. ASSUME NEW k \in 1..(n + 1)
         PROVE  /\ longer[k + 1] = longer[k] + Len(Encode(t[k]))
                /\ \A b \in 1..Len(Encode(t[k])) : more[longer[k] + b] = Encode(t[k])[b]
    <2>1. CASE k = n + 1
      <3>1. longer[k + 1] = Len(more) /\ longer[k] = Len(stream) /\ Encode(t[k]) = c
        <4>1. k + 1 = n + 2 /\ k \in 1..(n + 1)
          BY <1>1, <2>1
        <4>2. longer[k] = cut[n + 1]
          BY <1>9, <2>1, <4>1
        <4> QED
          BY <1>1, <1>3, <1>9, <2>1, <4>1, <4>2 DEF c
      <3> QED
        BY <1>5, <1>7, <3>1
    <2>2. CASE k # n + 1
      <3>1. k \in 1..n /\ k \in 1..(n + 1) /\ k + 1 \in 1..(n + 1)
        BY <1>1, <2>2
      <3>2. longer[k] = cut[k] /\ longer[k + 1] = cut[k + 1] /\ t[k] = s[k] /\ cut[k] \in 0..Len(stream) /\ cut[k + 1] \in 0..Len(stream)
        BY <1>1, <1>3, <1>9, <3>1
      <3> DEFINE e == Encode(s[k])
      <3>3. cut[k + 1] = cut[k] + Len(e) /\ \A b \in 1..Len(e) : stream[cut[k] + b] = e[b]
        BY <1>2, <3>1
      <3>4. Len(e) \in Nat
        BY <3>1, EncodeBytes, BytesAreInts, ElementOfSeq DEF n
      <3> HIDE DEF e
      <3>5. \A b \in 1..Len(e) : cut[k] + b \in 1..Len(stream)
        BY <1>5, <3>2, <3>3, <3>4
      <3>6. \A b \in 1..Len(e) : more[cut[k] + b] = e[b]
        BY <1>6, <3>3, <3>5
      <3> QED
        BY <3>2, <3>3, <3>6 DEF e
    <2> QED
      BY <2>1, <2>2
  <1>11. longer[1] = 0 /\ longer[Len(t) + 1] = Len(more)
    <2>1. 1 \in 1..(n + 1) /\ Len(t) + 1 = n + 2
      BY <1>1, <1>3
    <2> QED
      BY <1>1, <1>9, <2>1
  <1>12. Laid(t, more, longer)
    <2>1. Len(t) + 1 = n + 2 /\ Len(t) = n + 1
      BY <1>1, <1>3
    <2> HIDE DEF t
    <2> QED
      BY <1>4, <1>8, <1>10, <1>11, <2>1 DEF Laid
  <1> QED
    BY <1>9, <1>12 DEF more, c, n

\* _recv() has read nothing.
ReaderKept == UNCHANGED <<pc, hdr, maskingKey, data, handled>>

\* What is read does not change when neither the reader nor the frame does.
LEMMA ReadingKept ==
  ASSUME ReaderKept, NEW f, NEW n, ReadsFrame(f, n)
  PROVE  ReadsFrame(f, n)'
  BY DEF ReaderKept, ReadsFrame, ReadsLength, ReadsKey, ReadsData, HeaderIsOf

\* The frame that is being read
LEMMA ReadingNow ==
  ASSUME TypeOK, NEW cut, NEW place, FrameReading(cut, place), pc \in {"length", "key", "data"}
  PROVE  \E f \in Frames : \E n : /\ handled + 1 \in 1..Len(sent) /\ sent[handled + 1] = f
                                  /\ n = place - cut[handled + 1] /\ ReadsFrame(f, n)
  <1>1. handled + 1 \in 1..Len(sent)
    BY ReadingTypes DEF FrameReading
  <1>2. sent[handled + 1] \in Frames
    BY <1>1, ReadingTypes
  <1> QED
    BY <1>1, <1>2 DEF FrameReading

\* A frame that is being read after a step
LEMMA ReadingNext ==
  ASSUME NEW cut, NEW place, NEW f, NEW n, handled' + 1 <= Len(sent'), handled' <= Len(sent'), sent'[handled' + 1] = f,
         n = place - cut[handled' + 1], ReadsFrame(f, n)', pc' \in {"length", "key", "data"}
  PROVE  FrameReading(cut, place)'
  BY DEF FrameReading, ReadsFrame, ReadsLength, ReadsKey, ReadsData, HeaderIsOf

\* The peer sends a frame: the stream grows by it.
LEMMA SendFramed ==
  ASSUME TypeOK, NEW stream, NEW cut, NEW place, Framed(stream, cut, place), PeerSends
  PROVE  \E more, longer : Framed(more, longer, place)'
  <1>1. PICK f \in Frames : /\ peerOpen /\ net = <<>> /\ sent' = Append(sent, f) /\ net' = net \o Encode(f)
                            /\ peerOpen' = peerOpen /\ rx' = rx /\ ReaderKept
    BY DEF PeerSends, ReaderKept, reader
  <1> DEFINE more == stream \o Encode(f)
             c == Encode(f)
  <1>2. Laid(sent, stream, cut) /\ Flow(stream, place) /\ FrameReading(cut, place)
    BY DEF Framed
  <1>3. /\ sent \in Seq(Frames) /\ rx \in Bytes /\ handled \in Nat /\ Len(sent) \in Nat /\ Len(rx) \in Nat
        /\ pc \in Places
    BY ReadingTypes
  <1>4. PICK longer : Laid(Append(sent, f), more, longer) /\ \A k \in 1..(Len(sent) + 1) : longer[k] = cut[k]
    BY <1>2, <1>3, LaidMore
  <1>5. stream \in Bytes /\ c \in Bytes /\ Len(stream) \in Nat /\ Len(c) \in Nat
    BY <1>2, EncodeBytes, BytesAreInts DEF Laid
  <1>6. /\ Len(more) = Len(stream) + Len(c)
        /\ \A b \in 1..Len(stream) : more[b] = stream[b]
        /\ \A b \in 1..Len(c) : more[Len(stream) + b] = c[b]
    BY <1>5, BytesAreInts, Concats
  <1>7. place \in Nat /\ place + Len(rx) = Len(stream) /\ net' = c
    <2>1. Len(net) = 0
      BY <1>1
    <2>2. net' = c
      BY <1>1, <1>5 DEF Bytes
    <2> QED
      BY <1>1, <1>2, <1>3, <2>1, <2>2 DEF Flow
  <1> HIDE DEF more, c
  <1>8. Flow(more, place)'
    <2>1. \A b \in 1..Len(rx) : rx[b] = stream[place + b] /\ place + b \in 1..Len(stream)
      BY <1>2, <1>3, <1>7 DEF Flow
    <2>2. \A b \in 1..Len(rx) : rx[b] = more[place + b]
      BY <1>6, <2>1
    <2>3. \A b \in 1..Len(c) : c[b] = more[place + Len(rx) + b]
      BY <1>6, <1>7
    <2>4. place + Len(rx) + Len(c) = Len(more) /\ Len(more) <= Len(more)
      <3>1. Len(more) = Len(stream) + Len(c) /\ place + Len(rx) = Len(stream) /\ place \in Nat
        BY <1>6, <1>7, Zenon
      <3> QED
        BY <1>3, <1>5, <3>1
    <2> QED
      BY <1>1, <1>7, <2>2, <2>3, <2>4 DEF Flow
  <1>9. FrameReading(longer, place)'
    <2>1. /\ handled' = handled /\ pc' = pc /\ handled <= Len(sent) /\ Len(sent') = Len(sent) + 1
          /\ longer[handled + 1] = cut[handled + 1]
          /\ handled + 1 <= Len(sent) => sent'[handled + 1] = sent[handled + 1]
      BY <1>1, <1>2, <1>3, <1>4 DEF FrameReading, ReaderKept
    <2>2. CASE pc \in {"loop", "poll"}
      BY <1>2, <1>3, <2>1, <2>2 DEF FrameReading
    <2>3. CASE pc \in {"length", "key", "data"}
      <3>1. PICK g, n : /\ g \in Frames /\ handled + 1 \in 1..Len(sent) /\ sent[handled + 1] = g
                                   /\ n = place - cut[handled + 1] /\ ReadsFrame(g, n)
        BY <1>2, <2>3, ReadingNow
      <3>2. ReadsFrame(g, n)'
        BY <1>1, <3>1, ReadingKept
      <3>3. handled' + 1 <= Len(sent') /\ handled' <= Len(sent') /\ sent'[handled' + 1] = g /\ n = place - longer[handled' + 1]
        BY <1>3, <2>1, <3>1
      <3> QED
        BY <2>1, <2>3, <3>2, <3>3, ReadingNext
    <2> QED
      BY <1>3, <2>2, <2>3 DEF Places
  <1>10. Laid(sent, more, longer)'
    BY <1>1, <1>4
  <1> QED
    BY <1>8, <1>9, <1>10 DEF Framed

\* Neither the reader nor the frames change.
LEMMA SameReading ==
  ASSUME TypeOK, NEW cut, NEW place, FrameReading(cut, place), ReaderKept, sent' = sent
  PROVE  FrameReading(cut, place)'
  BY DEF FrameReading, ReaderKept, ReadsFrame, ReadsLength, ReadsKey, ReadsData, HeaderIsOf

\* The peer leaves, and what was on its way may be lost.
LEMMA CloseFramed ==
  ASSUME TypeOK, NEW stream, NEW cut, NEW place, Framed(stream, cut, place), PeerCloses
  PROVE  Framed(stream, cut, place)'
  <1>1. /\ ~peerOpen' /\ (net' = net \/ net' = <<>>) /\ sent' = sent /\ rx' = rx /\ ReaderKept
    BY DEF PeerCloses, ReaderKept, reader
  <1>2. Laid(sent, stream, cut) /\ Flow(stream, place) /\ FrameReading(cut, place)
    BY DEF Framed
  <1>3. Len(net) \in Nat /\ Len(rx) \in Nat
    BY ReadingTypes
  <1>4. Len(stream) \in Nat
    BY <1>2, BytesAreInts DEF Laid
  <1>5. Flow(stream, place)'
    <2>1. CASE net' = net
      BY <1>1, <1>2, <2>1 DEF Flow
    <2>2. CASE net' = <<>>
      <3>1. Len(net') = 0 /\ place \in Nat /\ place + Len(rx) + Len(net) <= Len(stream)
        BY <1>2, <2>2 DEF Flow
      <3>2. place + Len(rx) + 0 <= Len(stream) /\ \A b \in 1..0 : FALSE
        BY <1>3, <1>4, <3>1
      <3> QED
        BY <1>1, <1>2, <3>1, <3>2 DEF Flow
    <2> QED
      BY <1>1, <2>1, <2>2
  <1>6. FrameReading(cut, place)' /\ Laid(sent, stream, cut)'
    BY <1>1, <1>2, SameReading
  <1> QED
    BY <1>5, <1>6 DEF Framed

\* A byte arrives.
LEMMA ArriveFramed ==
  ASSUME TypeOK, NEW stream, NEW cut, NEW place, Framed(stream, cut, place), Arrive
  PROVE  Framed(stream, cut, place)'
  <1>1. /\ net # <<>> /\ rx' = Append(rx, Head(net)) /\ net' = Tail(net)
        /\ sent' = sent /\ peerOpen' = peerOpen /\ ReaderKept
    BY DEF Arrive, ReaderKept, reader
  <1>2. Laid(sent, stream, cut) /\ Flow(stream, place) /\ FrameReading(cut, place)
    BY DEF Framed
  <1>3. net \in Seq(Byte) /\ rx \in Seq(Byte) /\ Len(net) \in Nat /\ Len(rx) \in Nat
    BY ReadingTypes DEF Bytes
  <1>4. Len(stream) \in Nat
    BY <1>2, BytesAreInts DEF Laid
  <1>5. /\ Len(net) >= 1 /\ Len(rx') = Len(rx) + 1 /\ Len(net') = Len(net) - 1
        /\ rx'[Len(rx) + 1] = net[1] /\ \A b \in 1..Len(rx) : rx'[b] = rx[b]
        /\ \A b \in 1..(Len(net) - 1) : net'[b] = net[b + 1]
    BY <1>1, <1>3
  <1>6. /\ place \in Nat /\ place + Len(rx) + Len(net) <= Len(stream)
        /\ peerOpen => place + Len(rx) + Len(net) = Len(stream)
        /\ \A b \in 1..Len(rx) : rx[b] = stream[place + b]
        /\ \A b \in 1..Len(net) : net[b] = stream[place + Len(rx) + b]
    BY <1>2 DEF Flow
  <1>7. Flow(stream, place)'
    <2>1. place + Len(rx') + Len(net') = place + Len(rx) + Len(net)
      BY <1>3, <1>5, <1>6
    <2>2. ASSUME NEW b \in 1..Len(rx')
          PROVE  rx'[b] = stream[place + b]
      <3>1. CASE b = Len(rx) + 1
        <4>1. net[1] = stream[place + Len(rx) + 1] /\ place + Len(rx) + 1 = place + b
          BY <1>3, <1>5, <1>6, <3>1
        <4> QED
          BY <1>5, <3>1, <4>1
      <3>2. CASE b # Len(rx) + 1
        <4>1. b \in 1..Len(rx)
          BY <1>3, <1>5, <3>2
        <4> QED
          BY <1>5, <1>6, <4>1
      <3> QED
        BY <3>1, <3>2
    <2>3. ASSUME NEW b \in 1..Len(net')
          PROVE  net'[b] = stream[place + Len(rx') + b]
      <3>1. b \in 1..(Len(net) - 1) /\ b + 1 \in 1..Len(net) /\ place + Len(rx) + (b + 1) = place + Len(rx') + b
        BY <1>3, <1>5, <1>6
      <3> QED
        BY <1>5, <1>6, <3>1
    <2> QED
      BY <1>1, <1>6, <2>1, <2>2, <2>3 DEF Flow
  <1>8. FrameReading(cut, place)' /\ Laid(sent, stream, cut)'
    BY <1>1, <1>2, SameReading
  <1> QED
    BY <1>7, <1>8 DEF Framed

\* A read takes bytes off the receive buffer.
LEMMA Consume ==
  ASSUME TypeOK, NEW stream \in Bytes, NEW place, Flow(stream, place), NEW n \in Nat,
         rx' = Left(n), net' = net, peerOpen' = peerOpen, NEW k, k = Min2(n, Len(rx))
  PROVE  /\ Flow(stream, place + k)' /\ k \in Nat /\ k <= n /\ k <= Len(rx) /\ Taken(n) \in Bytes /\ Len(Taken(n)) = k
         /\ \A b \in 1..k : Taken(n)[b] = stream[place + b]
  <1>1. net \in Seq(Byte) /\ rx \in Seq(Byte) /\ Len(net) \in Nat /\ Len(rx) \in Nat
    BY ReadingTypes DEF Bytes
  <1>2. Len(stream) \in Nat
    BY BytesAreInts
  <1>3. k \in 0..Len(rx) /\ k <= n
    BY <1>1 DEF Min2
  <1>4. rx' = SubSeq(rx, k + 1, Len(rx)) /\ Taken(n) = SubSeq(rx, 1, k)
    BY DEF Left, Taken
  <1>5. /\ Len(rx') = Len(rx) - k /\ \A b \in 1..(Len(rx) - k) : rx'[b] = rx[k + b]
        /\ Len(Taken(n)) = k /\ \A b \in 1..k : Taken(n)[b] = rx[b]
        /\ Taken(n) \in Seq(Byte)
    <2> DEFINE r == SubSeq(rx, k + 1, Len(rx))
               t == SubSeq(rx, 1, k)
               m == Len(rx)
    <2>1. \A i \in 1..m : rx[i] \in Byte
      BY <1>1
    <2>2. k \in Int /\ k + 1 \in Int /\ m \in Int /\ 1 \in Int /\ m \in Nat /\ k \in Nat /\ k <= m
      BY <1>1, <1>3
    <2>3. (\A i \in 1..k : rx[i] \in Byte) /\ (\A i \in (k + 1)..m : rx[i] \in Byte)
      BY <2>1, <2>2
    <2>4. /\ t \in Seq(Byte) /\ Len(t) = (IF 1 <= k THEN k - 1 + 1 ELSE 0)
          /\ \A i \in 1..(k - 1 + 1) : t[i] = rx[1 + i - 1]
      BY <2>2, <2>3, SubSeqProperties, SMTT(40)
    <2>5. /\ Len(r) = (IF k + 1 <= m THEN m - (k + 1) + 1 ELSE 0)
          /\ \A i \in 1..(m - (k + 1) + 1) : r[i] = rx[(k + 1) + i - 1]
      BY <2>2, <2>3, SubSeqProperties, SMTT(40)
    <2> HIDE DEF r, t, m
    <2>6. Len(t) = k /\ \A b \in 1..k : t[b] = rx[b]
      <3>1. k - 1 + 1 = k /\ \A b \in 1..k : 1 + b - 1 = b
        BY <2>2
      <3> QED
        BY <2>2, <2>4, <3>1
    <2>7. Len(r) = m - k /\ \A b \in 1..(m - k) : r[b] = rx[k + b]
      <3>1. m - (k + 1) + 1 = m - k /\ \A b \in 1..(m - k) : (k + 1) + b - 1 = k + b
        BY <2>2
      <3>2. (IF k + 1 <= m THEN m - (k + 1) + 1 ELSE 0) = m - k
        BY <2>2
      <3> QED
        BY <2>5, <3>1, <3>2, Zenon
    <2> QED
      BY <1>4, <2>4, <2>6, <2>7, Zenon DEF r, t, m
  <1>6. /\ place \in Nat /\ place + Len(rx) + Len(net) <= Len(stream)
        /\ peerOpen => place + Len(rx) + Len(net) = Len(stream)
        /\ \A b \in 1..Len(rx) : rx[b] = stream[place + b]
        /\ \A b \in 1..Len(net) : net[b] = stream[place + Len(rx) + b]
    BY DEF Flow
  <1>7. place + k + Len(rx') = place + Len(rx) /\ place + k \in Nat
    BY <1>1, <1>3, <1>5, <1>6
  <1>8. \A b \in 1..Len(rx') : rx'[b] = stream[place + k + b]
    <2>1. \A b \in 1..Len(rx') : k + b \in 1..Len(rx) /\ place + (k + b) = place + k + b
      BY <1>1, <1>3, <1>5, <1>6
    <2> QED
      BY <1>5, <1>6, <2>1, SMTT(40)
  <1>9. Flow(stream, place + k)'
    BY <1>6, <1>7, <1>8 DEF Flow
  <1>10. \A b \in 1..k : b \in 1..Len(rx)
    BY <1>1, <1>3
  <1>11. \A b \in 1..k : Taken(n)[b] = stream[place + b]
    BY <1>5, <1>6, <1>10, Zenon
  <1>12. k \in Nat /\ k <= Len(rx)
    BY <1>1, <1>3
  <1> QED
    BY <1>3, <1>5, <1>9, <1>11, <1>12, Zenon DEF Bytes

\* The bytes in the receive buffer are those of the frame that is read.
LEMMA BytesOfFrame ==
  ASSUME TypeOK, NEW stream, NEW cut, NEW place, Laid(sent, stream, cut), Flow(stream, place),
         handled + 1 \in 1..Len(sent), NEW f, f = sent[handled + 1], NEW n \in Nat, n = place - cut[handled + 1],
         NEW b \in 1..Len(rx), n + b <= Len(Encode(f))
  PROVE  rx[b] = Encode(f)[n + b]
  <1>1. Len(rx) \in Nat /\ Len(sent) \in Nat /\ handled \in Nat /\ f \in Frames
    BY ReadingTypes
  <1>2. cut[handled + 1] \in Nat /\ place \in Nat
    <2>1. cut \in [1..(Len(sent) + 1) -> 0..Len(stream)] /\ Len(stream) \in Nat
      BY BytesAreInts DEF Laid
    <2>2. handled + 1 \in 1..(Len(sent) + 1)
      BY <1>1
    <2>3. cut[handled + 1] \in 0..Len(stream)
      BY <2>1, <2>2
    <2> QED
      BY <2>1, <2>3 DEF Flow
  <1>3. n + b \in 1..Len(Encode(f)) /\ cut[handled + 1] + (n + b) = place + b
    <2>1. Len(Encode(f)) \in Nat
      BY <1>1, EncodeBytes, BytesAreInts
    <2> QED
      BY <1>1, <1>2, <2>1, SMTT(40)
  <1>4. rx[b] = stream[place + b]
    BY DEF Flow
  <1>5. stream[cut[handled + 1] + (n + b)] = Encode(f)[n + b]
    BY <1>3 DEF Laid
  <1> QED
    BY <1>3, <1>4, <1>5

\* A read of the length of a buffer, when there is as much, fills it.
LEMMA ReadsAll ==
  ASSUME TypeOK, NEW before \in Bytes, Len(rx) >= Len(before)
  PROVE  \A b \in 1..Len(before) : ReadInto(before)[b] = rx[b] /\ b \in 1..Len(rx)
  <1>1. DOMAIN before = 1..Len(before) /\ Len(before) \in Nat /\ Len(rx) \in Nat
    BY ReadingTypes DEF Bytes
  <1>2. \A b \in 1..Len(before) : b <= Len(rx) /\ b \in 1..Len(rx)
    BY <1>1
  <1> QED
    BY <1>1, <1>2 DEF ReadInto

\* The first two bytes of a frame give its header back.
HeaderBack(fin, op, mask, len) ==
  /\ High(Joint(fin, op)) = fin /\ Nibble(Joint(fin, op)) = op
  /\ High(Joint(mask, len)) = mask /\ Low(Joint(mask, len)) = len

\* Each of its fields
LEMMA HeaderValues ==
  ASSUME NEW fin \in 0..1, NEW op \in 0..15, NEW mask \in 0..1, NEW len \in 0..126
  PROVE  HeaderBack(fin, op, mask, len)
  <1>1. (128 * fin + op) \div 128 = fin /\ (128 * fin + op) % 16 = op
    OBVIOUS
  <1>2. (128 * mask + len) \div 128 = mask /\ (128 * mask + len) % 128 = len
    OBVIOUS
  <1> QED
    BY <1>1, <1>2 DEF HeaderBack, High, Low, Nibble, Joint

\* The next byte that is read is one of the next frame.
LEMMA FrameBegins ==
  ASSUME TypeOK, NEW stream, NEW cut, NEW place, Framed(stream, cut, place), pc \in {"loop", "poll"}, rx # <<>>
  PROVE  handled + 1 \in 1..Len(sent) /\ sent[handled + 1] \in Frames /\ 0 = place - cut[handled + 1]
  <1>1. /\ Len(rx) \in Nat /\ Len(net) \in Nat /\ Len(sent) \in Nat /\ handled \in Nat
        /\ \A k \in 1..Len(sent) : sent[k] \in Frames
    BY ReadingTypes
  <1>2. Len(rx) > 0
    <2>1. rx \in Seq(Byte)
      BY ReadingTypes DEF Bytes
    <2> QED
      BY <2>1
  <1>3. place = cut[handled + 1] /\ handled <= Len(sent) /\ place \in Nat /\ place + Len(rx) + Len(net) <= Len(stream)
        /\ cut[Len(sent) + 1] = Len(stream)
    BY DEF Framed, FrameReading, Flow, Laid
  <1>4. handled # Len(sent)
    <2>1. Len(stream) \in Nat
      BY BytesAreInts DEF Framed, Laid
    <2> QED
      BY <1>1, <1>2, <1>3, <2>1
  <1> QED
    BY <1>1, <1>3, <1>4

\* A read takes what was asked for when there is as much.
LEMMA MinIs ==
  ASSUME NEW n \in Nat, NEW m \in Nat, ~(m < n)
  PROVE  n = Min2(n, m)
  BY DEF Min2

\* The header is read.
LEMMA HeaderFramed ==
  ASSUME TypeOK, NEW stream, NEW cut, NEW place, Framed(stream, cut, place), readHeader, ~torn'
  PROVE  Framed(stream, cut, place + 2)'
  <1>1. /\ pc = "poll" /\ rx # <<>> /\ rx' = Left(2) /\ ~(Len(rx) < 2)
        /\ pc' = (IF hdr'.len >= 126 THEN "length" ELSE AfterLength(hdr'.mask))
        /\ data' = <<>> /\ UNCHANGED <<sent, net, peerOpen, handled>>
    BY DEF readHeader, peer
  <1>l. Len(rx) \in Nat /\ ~(Len(rx) < 2)
    BY <1>1, ReadingTypes
  <1>2. PICK g \in Garbage :
          LET b == ReadInto(<<g, (g \div 128) * 128>>)
          IN  hdr' = [fin |-> b[1] \div 128, op |-> b[1] % 16, mask |-> b[2] \div 128, len |-> b[2] % 128]
    BY DEF readHeader
  <1>3. Laid(sent, stream, cut) /\ Flow(stream, place) /\ stream \in Bytes /\ Len(rx) \in Nat /\ handled \in Nat
        /\ Len(sent) \in Nat
    BY ReadingTypes DEF Framed, Laid
  <1>4. PICK f \in Frames : f = sent[handled + 1]
    BY <1>1, FrameBegins
  <1>f. FrameFacts(f) /\ Placement(f)
    BY FrameTypesAre, Positions
  <1>5. handled + 1 \in 1..Len(sent) /\ 0 = place - cut[handled + 1]
    BY <1>1, FrameBegins
  <1>6. 1 \in 1..Len(rx) /\ 2 \in 1..Len(rx)
    BY <1>l
  <1> DEFINE x == Field(f)
  <1>7. rx[1] = Joint(f.fin, f.op) /\ rx[2] = Joint(f.mask, x)
    <2>1. Len(Encode(f)) = HeadLen(f) + Len(f.data) /\ HeadLen(f) \in Nat /\ HeadLen(f) >= 2 /\ Len(f.data) \in Nat
      BY <1>f DEF Placement, FrameFacts
    <2>2. 0 + 1 <= Len(Encode(f)) /\ 0 + 2 <= Len(Encode(f)) /\ 0 \in Nat
      BY <2>1
    <2>3. rx[1] = Encode(f)[0 + 1] /\ rx[2] = Encode(f)[0 + 2]
      BY <1>3, <1>4, <1>5, <1>6, <2>2, BytesOfFrame
    <2> QED
      BY <1>f, <2>3 DEF Placement
  <1> DEFINE b == ReadInto(<<g, (g \div 128) * 128>>)
  <1>8. b[1] = rx[1] /\ b[2] = rx[2]
    <2>1. g \in Byte /\ (g \div 128) * 128 \in Byte
      BY WebSocketAssumption DEF Byte
    <2>2. <<g, (g \div 128) * 128>> \in Bytes /\ Len(<<g, (g \div 128) * 128>>) = 2
      BY <2>1 DEF Bytes
    <2>3. Len(rx) >= 2 /\ 1 \in 1..2 /\ 2 \in 1..2
      BY <1>l
    <2> QED
      BY <2>2, <2>3, ReadsAll
  <1>9. hdr' = [fin |-> High(b[1]), op |-> Nibble(b[1]), mask |-> High(b[2]), len |-> Low(b[2])]
    BY <1>2 DEF High, Nibble, Low
  <1> HIDE DEF b
  <1>10. hdr'.fin = f.fin /\ hdr'.op = f.op /\ hdr'.mask = f.mask /\ hdr'.len = x
    <2>1. f.fin \in 0..1 /\ f.op \in 0..15 /\ f.mask \in 0..1 /\ x \in 0..126
      <3>1. /\ f.fin \in 0..1 /\ f.op \in 0..15 /\ f.mask \in 0..1 /\ Len(f.data) \in Nat
            /\ ~f.ext => Len(f.data) < 126
        BY <1>f DEF FrameFacts
      <3>2. CASE f.ext
        BY <3>1, <3>2 DEF Field
      <3>3. CASE ~f.ext
        <4>1. x = Len(f.data) /\ Len(f.data) < 126
          BY <3>1, <3>3 DEF Field
        <4> HIDE DEF x
        <4>2. \A n \in Nat : n < 126 => n \in 0..126
          OBVIOUS
        <4>3. x \in 0..126
          BY <3>1, <4>1, <4>2, ZenonT(40)
        <4> QED
          BY <3>1, <4>3, Zenon
      <3> QED
        BY <3>2, <3>3
    <2> HIDE DEF x
    <2>2. HeaderBack(f.fin, f.op, f.mask, x)
      BY <2>1, HeaderValues, ZenonT(40)
    <2>3. hdr'.fin = High(b[1]) /\ hdr'.op = Nibble(b[1]) /\ hdr'.mask = High(b[2]) /\ hdr'.len = Low(b[2])
      BY <1>9
    <2> QED
      BY <1>7, <1>8, <2>2, <2>3, Zenon DEF HeaderBack
  <1>11. Flow(stream, place + 2)'
    <2>1. 2 = Min2(2, Len(rx))
      BY <1>l, MinIs
    <2> QED
      BY <1>1, <1>3, <2>1, Consume
  <1>12. ReadsFrame(f, 2)' /\ pc' \in {"length", "key", "data"}
    <2>1. CASE f.ext
      <3>1. x = 126 /\ pc' = "length"
        BY <1>1, <1>10, <2>1 DEF Field
      <3> QED
        BY <1>1, <1>10, <2>1, <3>1 DEF ReadsFrame, ReadsLength, HeaderIsOf
    <2>2. CASE ~f.ext
      <3>1. x = Len(f.data) /\ x < 126 /\ x \in Nat
        BY <1>f, <2>2 DEF FrameFacts, Field
      <3>2. pc' = IF f.mask = 1 THEN "key" ELSE "data"
        BY <1>1, <1>10, <3>1 DEF AfterLength
      <3>3. HeadLen(f) = IF f.mask = 1 THEN 6 ELSE 2
        BY <2>2 DEF HeadLen
      <3>4. Len(data') = 0 /\ \A i \in 1..0 : FALSE
        BY <1>1
      <3> QED
        BY <1>1, <1>10, <3>1, <3>2, <3>3, <3>4 DEF ReadsFrame, ReadsLength, ReadsKey, ReadsData, HeaderIsOf
    <2> QED
      BY <2>1, <2>2
  <1>13. FrameReading(cut, place + 2)'
    <2>1. place \in Nat /\ cut[handled + 1] = place
      <3>1. place \in Nat /\ handled + 1 \in 1..(Len(sent) + 1)
        BY <1>3, <1>5 DEF Flow
      <3> QED
        BY <1>1, <3>1 DEF Framed, FrameReading
    <2>2. 2 = (place + 2) - cut[handled' + 1] /\ handled' + 1 <= Len(sent') /\ handled' <= Len(sent') /\ sent'[handled' + 1] = f
      BY <1>1, <1>3, <1>4, <1>5, <2>1
    <2> QED
      BY <1>12, <2>2, ReadingNext
  <1>14. Laid(sent, stream, cut)'
    BY <1>1, <1>3
  <1> QED
    BY <1>11, <1>13, <1>14 DEF Framed

\* The frame that is being read, with all that is known of it
Current(stream, cut, place, f, n) ==
  /\ f \in Frames /\ handled + 1 \in 1..Len(sent) /\ f = sent[handled + 1] /\ n = place - cut[handled + 1] /\ n \in Int
  /\ cut[handled + 1] \in Nat /\ place \in Nat /\ cut[handled + 2] = cut[handled + 1] + Len(Encode(f))
  /\ FrameFacts(f) /\ Placement(f)

\* There is one whenever _recv() is inside a frame.
LEMMA CurrentFrame ==
  ASSUME TypeOK, NEW stream, NEW cut, NEW place, Framed(stream, cut, place), pc \in {"length", "key", "data"}
  PROVE  \E f, n : Current(stream, cut, place, f, n) /\ ReadsFrame(f, n)
  <1>1. PICK f, n : /\ f \in Frames /\ handled + 1 \in 1..Len(sent) /\ sent[handled + 1] = f
                    /\ n = place - cut[handled + 1] /\ ReadsFrame(f, n)
    BY ReadingNow DEF Framed
  <1>2. handled \in Nat /\ Len(sent) \in Nat
    BY ReadingTypes
  <1>3. place \in Nat /\ cut \in [1..(Len(sent) + 1) -> 0..Len(stream)] /\ Len(stream) \in Nat
    BY BytesAreInts DEF Framed, Flow, Laid
  <1>4. handled + 1 \in 1..(Len(sent) + 1) /\ (handled + 1) + 1 = handled + 2
    BY <1>1, <1>2
  <1>5. cut[handled + 1] \in 0..Len(stream)
    BY <1>3, <1>4
  <1>6. cut[handled + 1] \in Nat /\ n \in Int
    BY <1>1, <1>3, <1>5
  <1>7. cut[handled + 2] = cut[handled + 1] + Len(Encode(f))
    <2>1. \A k \in 1..Len(sent) : cut[k + 1] = cut[k] + Len(Encode(sent[k]))
      BY DEF Framed, Laid
    <2>2. cut[(handled + 1) + 1] = cut[handled + 1] + Len(Encode(sent[handled + 1]))
      BY <1>1, <2>1, Zenon
    <2> QED
      BY <1>1, <1>4, <2>2, Zenon
  <1>8. FrameFacts(f) /\ Placement(f)
    BY <1>1, FrameTypesAre, Positions
  <1> QED
    BY <1>1, <1>3, <1>6, <1>7, <1>8 DEF Current

\* The frame is still being read after a read of k bytes.
LEMMA StillReading ==
  ASSUME TypeOK, NEW stream, NEW cut, NEW place, NEW f, NEW n, Framed(stream, cut, place), Current(stream, cut, place, f, n),
         NEW k \in Nat, Flow(stream, place + k)', ReadsFrame(f, n + k)', pc' \in {"length", "key", "data"},
         sent' = sent, handled' = handled
  PROVE  Framed(stream, cut, place + k)'
  <1>1. handled + 1 <= Len(sent) /\ handled <= Len(sent) /\ n + k = (place + k) - cut[handled + 1]
    <2>1. handled \in Nat /\ Len(sent) \in Nat
      BY ReadingTypes
    <2>2. handled + 1 \in 1..Len(sent) /\ n = place - cut[handled + 1] /\ place \in Nat /\ cut[handled + 1] \in Nat
      BY DEF Current
    <2> QED
      BY <2>1, <2>2
  <1>2. sent'[handled' + 1] = f
    BY DEF Current
  <1>3. FrameReading(cut, place + k)'
    BY <1>1, <1>2, ReadingNext
  <1>4. Laid(sent, stream, cut)'
    BY DEF Framed
  <1> QED
    BY <1>3, <1>4 DEF Framed

\* The bytes in the receive buffer are the next ones of the frame.
LEMMA NextBytes ==
  ASSUME TypeOK, NEW stream, NEW cut, NEW place, NEW f, NEW n \in Nat, Framed(stream, cut, place), Current(stream, cut, place, f, n),
         NEW b \in 1..Len(rx), n + b <= HeadLen(f) + Len(f.data)
  PROVE  rx[b] = Encode(f)[n + b]
  <1>1. Laid(sent, stream, cut) /\ Flow(stream, place)
    BY DEF Framed
  <1>2. /\ handled + 1 \in 1..Len(sent) /\ f = sent[handled + 1] /\ n = place - cut[handled + 1]
        /\ n + b <= Len(Encode(f))
    BY DEF Current, Placement
  <1> QED
    BY <1>1, <1>2, BytesOfFrame

\* Two bytes make a length.
LEMMA LengthBack ==
  ASSUME NEW n \in Nat
  PROVE  JointBytes(HighByte(n), LowByte(n)) = n
  BY DEF JointBytes, HighByte, LowByte

\* The extended length is read.
LEMMA LengthFramed ==
  ASSUME TypeOK, NEW stream, NEW cut, NEW place, Framed(stream, cut, place), readExtendedPayloadLength, ~torn'
  PROVE  Framed(stream, cut, place + 2)'
  <1>1. pc = "length" /\ pc' = AfterLength(hdr.mask) /\ data' = data /\ UNCHANGED <<sent, net, peerOpen, handled>>
    BY DEF readExtendedPayloadLength, peer
  <1>2. PICK f, n : Current(stream, cut, place, f, n) /\ ReadsFrame(f, n)
    BY <1>1, CurrentFrame
  <1>3. f.ext /\ HeaderIsOf(f, 126) /\ data = <<>> /\ n = 2 /\ FrameFacts(f) /\ Placement(f)
    BY <1>1, <1>2 DEF ReadsFrame, ReadsLength, Current
  <1>4. hdr.len = 126 /\ hdr.fin = f.fin /\ hdr.op = f.op /\ hdr.mask = f.mask
    BY <1>3 DEF HeaderIsOf
  <1> DEFINE zeros == [i \in 1..2 |-> 0]
             b == ReadInto(zeros)
             l == JointBytes(b[1], b[2])
  <1>5. hdr' = [hdr EXCEPT !.len = l] /\ rx' = Left(2) /\ ~(Len(rx) < 2)
    <2> DEFINE m == IF hdr.len = 126 THEN 2 ELSE 8
               c == ReadInto([i \in 1..m |-> 0])
               long == 65536 * c[6] + 256 * c[7] + c[8]
    <2>1. hdr' = [hdr EXCEPT !.len = IF m = 2 THEN JointBytes(c[1], c[2]) ELSE long]
      BY DEF readExtendedPayloadLength, JointBytes
    <2>2. rx' = Left(m) /\ torn' = (torn \/ Len(rx) < m)
      BY DEF readExtendedPayloadLength
    <2>3. m = 2
      BY <1>4
    <2> HIDE DEF m, long
    <2>4. c = b
      BY <2>3
    <2> HIDE DEF c
    <2>5. hdr' = [hdr EXCEPT !.len = l]
      BY <2>1, <2>3, <2>4, Zenon
    <2>6. rx' = Left(2) /\ ~(Len(rx) < 2)
      BY <2>2, <2>3
    <2> QED
      BY <2>5, <2>6
  <1>6. zeros \in Bytes /\ Len(zeros) = 2
    BY DEF Bytes, Byte
  <1>7. Len(rx) \in Nat /\ hdr \in Headers
    BY ReadingTypes
  <1>8. Len(rx) >= Len(zeros) /\ 1 \in 1..2 /\ 2 \in 1..2 /\ 1 \in 1..Len(rx) /\ 2 \in 1..Len(rx)
    BY <1>5, <1>6, <1>7
  <1>9. b[1] = rx[1] /\ b[2] = rx[2]
    <2> HIDE DEF zeros
    <2> QED
      BY <1>6, <1>8, ReadsAll
  <1>10. rx[1] = Encode(f)[3] /\ rx[2] = Encode(f)[4]
    <2>1. HeadLen(f) \in Nat /\ HeadLen(f) >= 4 /\ Len(f.data) \in Nat
      BY <1>3 DEF FrameFacts, HeadLen
    <2>2. 2 + 1 <= HeadLen(f) + Len(f.data) /\ 2 + 2 <= HeadLen(f) + Len(f.data) /\ 2 \in Nat
      BY <2>1
    <2>3. rx[1] = Encode(f)[2 + 1] /\ rx[2] = Encode(f)[2 + 2]
      BY <1>2, <1>3, <1>8, <2>2, NextBytes
    <2> QED
      BY <2>3
  <1> HIDE DEF b
  <1>11. l = Len(f.data)
    <2>1. Len(f.data) \in Nat /\ rx[1] = HighByte(Len(f.data)) /\ rx[2] = LowByte(Len(f.data))
      BY <1>3, <1>10 DEF FrameFacts, Placement
    <2> QED
      BY <1>9, <2>1, LengthBack
  <1> HIDE DEF l
  <1>12. hdr'.len = Len(f.data) /\ hdr'.fin = f.fin /\ hdr'.op = f.op /\ hdr'.mask = f.mask
    BY <1>4, <1>5, <1>7, <1>11 DEF Headers
  <1>13. Flow(stream, place + 2)'
    <2>1. 2 = Min2(2, Len(rx)) /\ 2 \in Nat
      BY <1>5, <1>7, MinIs
    <2>2. Flow(stream, place) /\ stream \in Bytes
      BY DEF Framed, Laid
    <2> QED
      BY <1>1, <1>5, <2>1, <2>2, Consume
  <1>14. ReadsFrame(f, 4)' /\ pc' \in {"length", "key", "data"}
    <2>1. pc' = IF f.mask = 1 THEN "key" ELSE "data"
      BY <1>1, <1>4 DEF AfterLength
    <2>2. HeadLen(f) = IF f.mask = 1 THEN 8 ELSE 4
      BY <1>3 DEF HeadLen
    <2>3. Len(data') = 0 /\ data' = <<>> /\ Len(f.data) \in Nat /\ \A i \in 1..0 : FALSE
      BY <1>1, <1>3 DEF FrameFacts
    <2> QED
      BY <1>12, <2>1, <2>2, <2>3 DEF ReadsFrame, ReadsLength, ReadsKey, ReadsData, HeaderIsOf
  <1>15. n + 2 = 4 /\ 2 \in Nat
    BY <1>3
  <1> QED
    BY <1>1, <1>2, <1>13, <1>14, <1>15, StillReading

\* The key is read.
LEMMA KeyFramed ==
  ASSUME TypeOK, NEW stream, NEW cut, NEW place, Framed(stream, cut, place), readMaskingKey, ~torn'
  PROVE  Framed(stream, cut, place + 4)'
  <1>1. /\ pc = "key" /\ pc' = "data" /\ data' = data /\ hdr' = hdr /\ UNCHANGED <<sent, net, peerOpen, handled>>
        /\ rx' = Left(4) /\ ~(Len(rx) < 4)
    BY DEF readMaskingKey, peer
  <1>2. PICK f, n : Current(stream, cut, place, f, n) /\ ReadsFrame(f, n)
    BY <1>1, CurrentFrame
  <1>3. f.mask = 1 /\ HeaderIsOf(f, Len(f.data)) /\ data = <<>> /\ n = HeadLen(f) - 4 /\ FrameFacts(f) /\ Placement(f)
    BY <1>1, <1>2 DEF ReadsFrame, ReadsKey, Current
  <1>4. PICK g \in Garbage : maskingKey' = ReadInto(<<g, g, g, g>>)
    BY DEF readMaskingKey
  <1> DEFINE before == <<g, g, g, g>>
             key == ReadInto(before)
  <1>5. before \in Bytes /\ Len(before) = 4
    <2>1. g \in Byte
      BY WebSocketAssumption
    <2> QED
      BY <2>1 DEF Bytes
  <1>l. Len(rx) \in Nat /\ ~(Len(rx) < 4)
    BY <1>1, ReadingTypes
  <1>6. Len(rx) \in Nat /\ rx \in Bytes /\ HeadLen(f) \in Nat /\ HeadLen(f) >= 4 /\ Len(f.data) \in Nat /\ n \in Nat
    BY <1>3, ReadingTypes DEF FrameFacts, HeadLen
  <1> HIDE DEF before
  <1>7. key \in Bytes /\ Len(key) = 4
    BY <1>5, <1>6, ReadIntoTypes
  <1>8. \A b \in 1..4 : key[b] = rx[b] /\ b \in 1..Len(rx)
    <2>1. Len(rx) >= Len(before)
      BY <1>1, <1>5, <1>6
    <2> QED
      BY <1>5, <2>1, ReadsAll
  <1>9. \A b \in 1..4 : rx[b] = MaskingKey[b]
    <2>1. ASSUME NEW b \in 1..4
          PROVE  rx[b] = MaskingKey[b]
      <3>1. n + b <= HeadLen(f) + Len(f.data) /\ n + b = HeadLen(f) - 4 + b /\ b \in 1..Len(rx)
        BY <1>3, <1>6, <1>8, SMTT(40)
      <3>2. rx[b] = Encode(f)[n + b]
        BY <1>2, <1>6, <3>1, NextBytes
      <3> QED
        BY <1>3, <3>1, <3>2 DEF Placement
    <2> QED
      BY <2>1
  <1> HIDE DEF key
  <1>10. key = MaskingKey
    <2>1. key \in Seq(Byte) /\ MaskingKey \in Seq(Byte) /\ Len(key) = Len(MaskingKey) /\ Len(key) = 4
      BY <1>7, WebSocketAssumption DEF Bytes
    <2>2. \A b \in 1..Len(key) : key[b] = MaskingKey[b]
      BY <1>8, <1>9, <2>1
    <2> QED
      BY <2>1, <2>2, SeqEqual
  <1>11. Flow(stream, place + 4)'
    <2>1. 4 = Min2(4, Len(rx)) /\ 4 \in Nat
      BY <1>l, MinIs
    <2>2. Flow(stream, place) /\ stream \in Bytes
      BY DEF Framed, Laid
    <2> QED
      BY <1>1, <2>1, <2>2, Consume
  <1>12. ReadsFrame(f, HeadLen(f))' /\ pc' \in {"length", "key", "data"}
    <2>1. maskingKey' = MaskingKey
      BY <1>4, <1>10 DEF key, before
    <2>2. Len(data') = 0 /\ HeadLen(f) = HeadLen(f) + 0 /\ 0 <= Len(f.data) /\ \A i \in 1..0 : FALSE
      BY <1>1, <1>3, <1>6
    <2> QED
      BY <1>1, <1>3, <2>1, <2>2 DEF ReadsFrame, ReadsLength, ReadsKey, ReadsData, HeaderIsOf
  <1>13. n + 4 = HeadLen(f) /\ 4 \in Nat
    BY <1>3, <1>6
  <1> QED
    BY <1>1, <1>2, <1>11, <1>12, <1>13, StillReading

\* A part of the payload is read.
LEMMA DataFramed ==
  ASSUME TypeOK, NEW stream, NEW cut, NEW place, Framed(stream, cut, place), readData
  PROVE  \E next : Framed(stream, cut, next)'
  <1> DEFINE m == Min2(BufferSize, hdr.len - Len(data))
  <1>1. /\ pc = "data" /\ Len(data) < hdr.len /\ pc' = pc /\ hdr' = hdr /\ maskingKey' = maskingKey
        /\ UNCHANGED <<sent, net, peerOpen, handled>>
    BY DEF readData, peer
  <1>2. data' = data \o Taken(m) /\ rx' = Left(m)
    BY DEF readData
  <1>3. PICK f, n : Current(stream, cut, place, f, n) /\ ReadsFrame(f, n)
    BY <1>1, CurrentFrame
  <1>4. /\ HeaderIsOf(f, Len(f.data)) /\ n = HeadLen(f) + Len(data) /\ Len(data) <= Len(f.data)
        /\ f.mask = 1 => maskingKey = MaskingKey
        /\ \A b \in 1..Len(data) : data[b] = Sealed(f)[b]
        /\ FrameFacts(f) /\ Placement(f)
    BY <1>1, <1>3 DEF ReadsFrame, ReadsData, Current
  <1>5. hdr.len = Len(f.data) /\ Len(f.data) \in Nat /\ HeadLen(f) \in Nat
    BY <1>4 DEF HeaderIsOf, FrameFacts
  <1>6. Len(data) \in Nat /\ data \in Bytes /\ Len(rx) \in Nat /\ n \in Nat
    BY <1>4, <1>5, ReadingTypes
  <1>7. m \in Nat /\ m <= Len(f.data) - Len(data)
    BY <1>1, <1>5, <1>6, WebSocketAssumption DEF Min2
  <1> HIDE DEF m
  <1>8. PICK k : k = Min2(m, Len(rx))
    OBVIOUS
  <1>9. /\ Flow(stream, place + k)' /\ k \in Nat /\ k <= m /\ k <= Len(rx) /\ Taken(m) \in Bytes /\ Len(Taken(m)) = k
        /\ \A b \in 1..k : Taken(m)[b] = stream[place + b]
    <2>1. Flow(stream, place) /\ stream \in Bytes
      BY DEF Framed, Laid
    <2> QED
      BY <1>1, <1>2, <1>7, <1>8, <2>1, Consume
  <1>10. /\ Len(data') = Len(data) + k /\ (\A b \in 1..Len(data) : data'[b] = data[b])
         /\ \A b \in 1..k : data'[Len(data) + b] = Taken(m)[b]
    <2>1. data \in Seq(Int) /\ Taken(m) \in Seq(Int)
      BY <1>6, <1>9, BytesAreInts
    <2> QED
      BY <1>2, <1>9, <2>1, Concats
  <1>11. \A c \in 1..k : data'[Len(data) + c] = Sealed(f)[Len(data) + c]
    <2>1. ASSUME NEW c \in 1..k
          PROVE  data'[Len(data) + c] = Sealed(f)[Len(data) + c]
      <3>1. /\ c \in 1..Len(rx) /\ n + c <= HeadLen(f) + Len(f.data) /\ Len(data) + c \in 1..Len(f.data)
            /\ n + c = HeadLen(f) + (Len(data) + c)
        BY <1>4, <1>5, <1>6, <1>7, <1>9, SMTT(40)
      <3>2. rx[c] = Encode(f)[n + c]
        BY <1>3, <1>6, <3>1, NextBytes
      <3>3. rx[c] = stream[place + c]
        BY <3>1 DEF Framed, Flow
      <3>4. \A b \in 1..Len(f.data) : Encode(f)[HeadLen(f) + b] = Sealed(f)[b]
        BY <1>4 DEF Placement
      <3>5. Encode(f)[HeadLen(f) + (Len(data) + c)] = Sealed(f)[Len(data) + c]
        BY <3>1, <3>4
      <3> QED
        BY <1>9, <1>10, <3>1, <3>2, <3>3, <3>5
    <2> QED
      BY <2>1
  <1>12. \A b \in 1..Len(data') : data'[b] = Sealed(f)[b]
    <2>1. ASSUME NEW b \in 1..Len(data')
          PROVE  data'[b] = Sealed(f)[b]
      <3>1. CASE b <= Len(data)
        <4>1. b \in 1..Len(data)
          BY <1>6, <3>1
        <4> QED
          BY <1>4, <1>10, <4>1
      <3>2. CASE ~(b <= Len(data))
        <4>1. PICK c \in 1..k : b = Len(data) + c
          <5>1. b - Len(data) \in 1..k /\ b = Len(data) + (b - Len(data))
            BY <1>6, <1>9, <1>10, <3>2
          <5> QED
            BY <5>1
        <4> QED
          BY <1>11, <4>1
      <3> QED
        BY <3>1, <3>2
    <2> QED
      BY <2>1
  <1>13. ReadsFrame(f, n + k)'
    <2>1. n + k = HeadLen(f) + Len(data') /\ Len(data') <= Len(f.data)
      BY <1>4, <1>5, <1>6, <1>7, <1>9, <1>10
    <2>2. ReadsData(f, n + k)'
      BY <1>1, <1>4, <1>12, <2>1 DEF ReadsData, HeaderIsOf
    <2> QED
      BY <1>1, <2>2 DEF ReadsFrame
  <1>14. Framed(stream, cut, place + k)'
    BY <1>1, <1>3, <1>9, <1>13, StillReading
  <1> QED
    BY <1>14

\* A frame that is complete is the one that was sent, unmasked.
FrameWasSent ==
  /\ handled + 1 \in 1..Len(sent)
  /\ hdr.fin = sent[handled + 1].fin /\ hdr.op = sent[handled + 1].op /\ hdr.len = Len(sent[handled + 1].data)
  /\ payload = sent[handled + 1].data

\* The last byte of a frame was read: what recv() handles is what the peer sent, and the next
\* frame begins behind it.
LEMMA CompleteFramed ==
  ASSUME TypeOK, NEW stream, NEW cut, NEW place, Framed(stream, cut, place), FrameComplete
  PROVE  FrameWasSent /\ (rx' = rx => Framed(stream, cut, place)')
  <1>1. /\ pc = "data" /\ Len(data) = hdr.len /\ pc' = "poll" /\ handled' = handled + 1
        /\ UNCHANGED <<sent, net, peerOpen>>
    BY DEF FrameComplete, peer
  <1>2. PICK f, n : Current(stream, cut, place, f, n) /\ ReadsFrame(f, n)
    BY <1>1, CurrentFrame
  <1>3. /\ HeaderIsOf(f, Len(f.data)) /\ n = HeadLen(f) + Len(data)
        /\ f.mask = 1 => maskingKey = MaskingKey
        /\ \A b \in 1..Len(data) : data[b] = Sealed(f)[b]
        /\ FrameFacts(f) /\ Placement(f)
    BY <1>1, <1>2 DEF ReadsFrame, ReadsData, Current
  <1>4. /\ hdr.fin = f.fin /\ hdr.op = f.op /\ hdr.mask = f.mask /\ hdr.len = Len(f.data) /\ f.mask \in 0..1
        /\ f.data \in Bytes /\ Len(f.data) \in Nat /\ HeadLen(f) \in Nat /\ Sealed(f) \in Bytes /\ Len(Sealed(f)) = Len(f.data)
    BY <1>3 DEF HeaderIsOf, FrameFacts
  <1>5. data = Sealed(f)
    <2>1. data \in Seq(Byte) /\ Sealed(f) \in Seq(Byte) /\ Len(data) = Len(Sealed(f))
      BY <1>1, <1>4, ReadingTypes DEF Bytes
    <2> QED
      BY <1>3, <2>1, SeqEqual
  <1>6. payload = f.data
    <2>1. CASE f.mask = 1
      <3>1. MaskingKey \in Bytes /\ Len(MaskingKey) = 4
        BY WebSocketAssumption DEF Bytes
      <3>2. payload = Remask(Remask(f.data, MaskingKey), MaskingKey)
        BY <1>3, <1>4, <1>5, <2>1 DEF payload, Sealed
      <3> QED
        BY <1>4, <3>1, <3>2, RemaskTwice
    <2>2. CASE f.mask # 1
      BY <1>4, <1>5, <2>2 DEF payload, Sealed
    <2> QED
      BY <2>1, <2>2
  <1>7. handled + 1 \in 1..Len(sent) /\ f = sent[handled + 1]
    BY <1>2 DEF Current
  <1>8. FrameWasSent
    BY <1>4, <1>6, <1>7 DEF FrameWasSent
  <1>9. ASSUME rx' = rx
        PROVE  Framed(stream, cut, place)'
    <2>1. /\ n = place - cut[handled + 1] /\ cut[handled + 1] \in Nat /\ place \in Nat
          /\ cut[handled + 2] = cut[handled + 1] + Len(Encode(f)) /\ Len(Encode(f)) = HeadLen(f) + Len(f.data)
      BY <1>2 DEF Current, Placement
    <2>2. n = HeadLen(f) + Len(f.data)
      BY <1>1, <1>3, <1>4
    <2>3. place = cut[handled + 2]
      BY <1>4, <2>1, <2>2
    <2>4. handled \in Nat /\ Len(sent) \in Nat
      BY ReadingTypes
    <2>5. handled' + 1 = handled + 2 /\ handled' <= Len(sent')
      BY <1>1, <1>7, <2>4
    <2>6. FrameReading(cut, place)'
      BY <1>1, <2>3, <2>5 DEF FrameReading
    <2>7. Flow(stream, place)' /\ Laid(sent, stream, cut)'
      BY <1>1, <1>9 DEF Framed, Flow
    <2> QED
      BY <2>6, <2>7 DEF Framed
  <1> QED
    BY <1>8, <1>9

\* recv() handles a complete frame; unless it closes the connection it reads nothing more.
LEMMA RecvReads ==
  ASSUME recv
  PROVE  FrameComplete /\ (rx' = rx \/ stopped')
  <1>1. FrameComplete
    BY DEF recv, SkipEmpty, WholeMessage, BeginStream, AppendFragment, EndStream, OutOfPlace
  <1>2. ASSUME NEW reason, EndpointClose(reason)
        PROVE  stopped'
    BY <1>2 DEF EndpointClose
  <1>3. ASSUME NEW type, NEW d, Received(type, d)
        PROVE  rx' = rx \/ stopped'
    BY <1>2, <1>3, Zenon DEF Received
  <1>4. BadCombination => stopped'
    BY <1>2, Zenon DEF BadCombination
  <1>5. rx' = rx \/ stopped'
    <2>1. CASE SkipEmpty
      BY <2>1 DEF SkipEmpty
    <2>2. CASE WholeMessage
      BY <1>3, <2>2, Zenon DEF WholeMessage
    <2>3. CASE BeginStream
      BY <1>4, <2>3, Zenon DEF BeginStream
    <2>4. CASE AppendFragment
      BY <1>4, <2>4, Zenon DEF AppendFragment
    <2>5. CASE EndStream
      BY <1>3, <1>4, <2>5, Zenon DEF EndStream
    <2>6. CASE OutOfPlace
      BY <1>4, <2>6, Zenon DEF OutOfPlace
    <2> QED
      BY <2>1, <2>2, <2>3, <2>4, <2>5, <2>6 DEF recv
  <1> QED
    BY <1>1, <1>5

\* What was torn or stopped stays so.
LEMMA StaysSo ==
  ASSUME TypeOK, [Next]_vars
  PROVE  (torn => torn') /\ (stopped => stopped')
  <1>1. CASE recv
    <2>1. torn' = torn
      BY <1>1, RecvReads DEF FrameComplete
    <2>2. ASSUME NEW reason, EndpointClose(reason)
          PROVE  stopped'
      BY <2>2 DEF EndpointClose
    <2>3. ASSUME NEW type, NEW d, Received(type, d)
          PROVE  stopped' = stopped \/ stopped'
      BY <2>2, <2>3, Zenon DEF Received
    <2>4. BadCombination => stopped'
      BY <2>2, Zenon DEF BadCombination
    <2>5. stopped' = stopped \/ stopped'
      <3>1. CASE SkipEmpty
        BY <3>1 DEF SkipEmpty
      <3>2. CASE WholeMessage
        BY <2>3, <3>2, Zenon DEF WholeMessage
      <3>3. CASE BeginStream
        BY <2>4, <3>3, Zenon DEF BeginStream
      <3>4. CASE AppendFragment
        BY <2>4, <3>4, Zenon DEF AppendFragment
      <3>5. CASE EndStream
        BY <2>3, <2>4, <3>5, Zenon DEF EndStream
      <3>6. CASE OutOfPlace
        BY <2>4, <3>6, Zenon DEF OutOfPlace
      <3> QED
        BY <1>1, <3>1, <3>2, <3>3, <3>4, <3>5, <3>6 DEF recv
    <2> QED
      BY <2>1, <2>5
  <1>2. CASE PeerSends \/ PeerCloses \/ Arrive \/ Visit \/ PollEnds \/ readData
    BY <1>2 DEF PeerSends, PeerCloses, Arrive, Visit, PollEnds, readData
  <1>3. CASE Erase
    BY <1>3 DEF Erase
  <1>4. CASE readHeader \/ readExtendedPayloadLength \/ readMaskingKey
    <2>1. \E n : torn' = (torn \/ Len(rx) < n)
      <3>1. CASE readHeader
        BY <3>1, Zenon DEF readHeader
      <3>2. CASE readExtendedPayloadLength
        <4> DEFINE n == IF hdr.len = 126 THEN 2 ELSE 8
        <4>1. torn' = (torn \/ Len(rx) < n)
          BY <3>2 DEF readExtendedPayloadLength
        <4> QED
          BY <4>1
      <3>3. CASE readMaskingKey
        BY <3>3, Zenon DEF readMaskingKey
      <3> QED
        BY <1>4, <3>1, <3>2, <3>3
    <2>2. stopped' = stopped
      BY <1>4 DEF readHeader, readExtendedPayloadLength, readMaskingKey
    <2> QED
      BY <2>1, <2>2, Zenon
  <1>5. CASE UNCHANGED vars
    BY <1>5 DEF vars
  <1> QED
    BY <1>1, <1>2, <1>3, <1>4, <1>5 DEF Next, ServerStep, Elsewhere

\* Every step keeps the frames on the stream.
LEMMA FramingStep ==
  ASSUME TypeOK, FramingInv, [Next]_vars
  PROVE  FramingInv'
  <1>1. SUFFICES ASSUME ~torn', ~stopped'
                 PROVE  \E stream, cut, place : Framed(stream, cut, place)'
    BY DEF FramingInv
  <1>2. PICK stream, cut, place : Framed(stream, cut, place)
    BY <1>1, StaysSo DEF FramingInv
  <1>3. CASE PeerSends
    BY <1>2, <1>3, SendFramed
  <1>4. CASE PeerCloses
    BY <1>2, <1>4, CloseFramed
  <1>5. CASE Arrive
    BY <1>2, <1>5, ArriveFramed
  <1>6. CASE Visit \/ PollEnds
    <2>1. /\ pc \in {"loop", "poll"} /\ pc' \in {"loop", "poll"}
          /\ UNCHANGED <<sent, net, peerOpen, rx, handled>>
      BY <1>6 DEF Visit, PollEnds, peer
    <2>2. FrameReading(cut, place)'
      BY <1>2, <2>1 DEF Framed, FrameReading
    <2>3. Flow(stream, place)' /\ Laid(sent, stream, cut)'
      BY <1>2, <2>1 DEF Framed, Flow
    <2> QED
      BY <2>2, <2>3 DEF Framed
  <1>7. CASE Erase
    BY <1>1, <1>7 DEF Erase
  <1>8. CASE readHeader
    BY <1>1, <1>2, <1>8, HeaderFramed
  <1>9. CASE readExtendedPayloadLength
    BY <1>1, <1>2, <1>9, LengthFramed
  <1>10. CASE readMaskingKey
    BY <1>1, <1>2, <1>10, KeyFramed
  <1>11. CASE readData
    BY <1>2, <1>11, DataFramed
  <1>12. CASE recv
    BY <1>1, <1>2, <1>12, RecvReads, CompleteFramed
  <1>13. CASE UNCHANGED vars
    <2>1. UNCHANGED <<sent, net, peerOpen, rx, handled, pc, hdr, maskingKey, data>>
      BY <1>13 DEF vars, peer, reader
    <2>2. FrameReading(cut, place)'
      BY <1>2, <2>1, SameReading DEF Framed, ReaderKept
    <2>3. Flow(stream, place)' /\ Laid(sent, stream, cut)'
      BY <1>2, <2>1 DEF Framed, Flow
    <2> QED
      BY <2>2, <2>3 DEF Framed
  <1> QED
    BY <1>3, <1>4, <1>5, <1>6, <1>7, <1>8, <1>9, <1>10, <1>11, <1>12, <1>13 DEF Next, ServerStep, Elsewhere

\* At first nothing was sent.
LEMMA FramingInit ==
  ASSUME Init
  PROVE  FramingInv
  <1> DEFINE cut == [k \in 1..1 |-> 0]
  <1>1. sent = <<>> /\ net = <<>> /\ rx = <<>> /\ pc = "loop" /\ handled = 0
    BY DEF Init
  <1>2. Len(sent) = 0 /\ Len(net) = 0 /\ Len(rx) = 0 /\ Len(<<>>) = 0 /\ <<>> \in Bytes
    BY <1>1 DEF Bytes
  <1>3. Laid(sent, <<>>, cut)
    <2>1. cut \in [1..1 -> 0..0] /\ cut[1] = 0
      OBVIOUS
    <2> HIDE DEF cut
    <2>2. 0 + 1 = 1 /\ \A k \in 1..0 : FALSE
      OBVIOUS
    <2> QED
      BY <1>2, <2>1, <2>2 DEF Laid
  <1>4. Flow(<<>>, 0)
    <2>1. 0 + 0 + 0 = 0 /\ 0 <= 0 /\ 0 \in Nat /\ \A k \in 1..0 : FALSE
      OBVIOUS
    <2> QED
      BY <1>2, <2>1 DEF Flow
  <1>5. FrameReading(cut, 0)
    <2>1. cut[1] = 0 /\ 0 + 1 = 1 /\ 0 <= 0
      OBVIOUS
    <2> HIDE DEF cut
    <2> QED
      BY <1>1, <1>2, <2>1 DEF FrameReading
  <1> QED
    BY <1>3, <1>4, <1>5 DEF FramingInv, Framed

(***************************************************************************)
(* WebSocket: the messages in the frames.                                  *)
(***************************************************************************)

\* What a frame carries of a message are bytes.
LEMMA PartBytes ==
  ASSUME NEW f \in Frames
  PROVE  Part(f) \in Bytes /\ Len(Part(f)) \in Nat
  <1>1. FrameFacts(f)
    BY FrameTypesAre
  <1>2. f.data \in Bytes /\ <<>> \in Bytes
    BY <1>1 DEF FrameFacts, Bytes
  <1>3. Part(f) \in Bytes
    BY <1>2 DEF Part
  <1> QED
    BY <1>3, BytesAreInts

\* off says where each of the frames j to i begins in m.
Offsets(s, j, i, m, off) ==
  /\ off \in [j..(i + 1) -> 0..Len(m)]
  /\ off[j] = 0 /\ off[i + 1] = Len(m)
  /\ \A k \in j..i : /\ off[k + 1] = off[k] + Len(Part(s[k]))
                     /\ \A b \in 1..Len(Part(s[k])) : m[off[k] + b] = Part(s[k])[b]

\* A message is joined when its frames have places in it.
LEMMA JoinedOffsets ==
  ASSUME NEW s, NEW j, NEW i, NEW m
  PROVE  Joined(s, j, i, m) <=> \E off : Offsets(s, j, i, m, off)
  BY DEF Joined, Offsets

\* The first frame of a message is all of it so far.
LEMMA JoinOne ==
  ASSUME NEW s, NEW j \in Nat, s[j] \in Frames
  PROVE  Joined(s, j, j, Part(s[j]))
  <1> DEFINE m == Part(s[j])
             off == [k \in j..(j + 1) |-> IF k = j THEN 0 ELSE Len(m)]
  <1>1. Len(m) \in Nat
    BY PartBytes
  <1>2. off \in [j..(j + 1) -> 0..Len(m)] /\ off[j] = 0 /\ off[j + 1] = Len(m)
    <2> HIDE DEF m
    <2>1. j \in j..(j + 1) /\ j + 1 \in j..(j + 1) /\ j + 1 # j /\ 0 \in 0..Len(m) /\ Len(m) \in 0..Len(m)
      BY <1>1
    <2> QED
      BY <2>1
  <1> HIDE DEF off
  <1>3. ASSUME NEW k \in j..j
        PROVE  /\ off[k + 1] = off[k] + Len(Part(s[k]))
               /\ \A b \in 1..Len(Part(s[k])) : m[off[k] + b] = Part(s[k])[b]
    <2>1. k = j
      OBVIOUS
    <2>2. 0 + Len(m) = Len(m) /\ \A b \in 1..Len(m) : 0 + b = b
      <3> HIDE DEF m
      <3> QED
        BY <1>1
    <2> QED
      BY <1>2, <2>1, <2>2, Zenon
  <1>4. Offsets(s, j, j, m, off)
    BY <1>2, <1>3 DEF Offsets
  <1> QED
    BY <1>4, JoinedOffsets

\* A frame more joins its part.
LEMMA JoinMore ==
  ASSUME NEW s, NEW j \in Nat, NEW i \in Nat, j <= i, NEW m \in Bytes, Joined(s, j, i, m),
         \A k \in j..(i + 1) : s[k] \in Frames
  PROVE  Joined(s, j, i + 1, m \o Part(s[i + 1]))
  <1> DEFINE c == Part(s[i + 1])
             more == m \o c
  <1>1. PICK off : Offsets(s, j, i, m, off)
    BY JoinedOffsets
  <1> DEFINE longer == [k \in j..(i + 2) |-> IF k = i + 2 THEN Len(more) ELSE off[k]]
  <1>2. /\ off \in [j..(i + 1) -> 0..Len(m)] /\ off[j] = 0 /\ off[i + 1] = Len(m)
        /\ \A k \in j..i : /\ off[k + 1] = off[k] + Len(Part(s[k]))
                           /\ \A b \in 1..Len(Part(s[k])) : m[off[k] + b] = Part(s[k])[b]
    BY <1>1 DEF Offsets
  <1>3. c \in Bytes /\ Len(c) \in Nat /\ Len(m) \in Nat /\ i + 1 \in j..(i + 1)
    BY PartBytes, BytesAreInts
  <1>4. /\ Len(more) = Len(m) + Len(c)
        /\ \A b \in 1..Len(m) : more[b] = m[b]
        /\ \A b \in 1..Len(c) : more[Len(m) + b] = c[b]
    BY <1>3, BytesAreInts, Concats
  <1> HIDE DEF more, c
  <1>5. longer \in [j..(i + 2) -> 0..Len(more)]
    <2>1. ASSUME NEW k \in j..(i + 2)
          PROVE  (IF k = i + 2 THEN Len(more) ELSE off[k]) \in 0..Len(more)
      <3>1. CASE k = i + 2
        BY <3>1, <1>3, <1>4
      <3>2. CASE k # i + 2
        <4>1. k \in j..(i + 1)
          BY <3>2
        <4>2. off[k] \in 0..Len(m)
          BY <1>2, <4>1
        <4> QED
          BY <1>3, <1>4, <3>2, <4>2
      <3> QED
        BY <3>1, <3>2
    <2> QED
      BY <2>1
  <1>6. longer[i + 2] = Len(more) /\ \A k \in j..(i + 1) : longer[k] = off[k]
    OBVIOUS
  <1> HIDE DEF longer
  <1>7. ASSUME NEW k \in j..(i + 1)
        PROVE  /\ longer[k + 1] = longer[k] + Len(Part(s[k]))
               /\ \A b \in 1..Len(Part(s[k])) : more[longer[k] + b] = Part(s[k])[b]
    <2>1. CASE k = i + 1
      <3>1. longer[k + 1] = Len(more) /\ longer[k] = Len(m) /\ Part(s[k]) = c
        <4>1. k + 1 = i + 2
          BY <2>1
        <4> QED
          BY <1>2, <1>6, <2>1, <4>1 DEF c
      <3> QED
        BY <1>4, <3>1
    <2>2. CASE k # i + 1
      <3>1. k \in j..i /\ k + 1 \in j..(i + 1)
        BY <2>2
      <3> DEFINE e == Part(s[k])
      <3>2. /\ longer[k] = off[k] /\ longer[k + 1] = off[k + 1] /\ off[k] \in 0..Len(m) /\ off[k + 1] \in 0..Len(m)
            /\ off[k + 1] = off[k] + Len(e) /\ \A b \in 1..Len(e) : m[off[k] + b] = e[b]
        BY <1>2, <1>6, <3>1
      <3>3. Len(e) \in Nat
        BY PartBytes
      <3> HIDE DEF e
      <3>4. \A b \in 1..Len(e) : off[k] + b \in 1..Len(m)
        BY <1>3, <3>2, <3>3, SMTT(40)
      <3>5. \A b \in 1..Len(e) : more[off[k] + b] = e[b]
        BY <1>4, <3>2, <3>4
      <3> QED
        BY <3>2, <3>5 DEF e
    <2> QED
      BY <2>1, <2>2
  <1>8. longer[j] = 0 /\ longer[(i + 1) + 1] = Len(more) /\ (i + 1) + 1 = i + 2
    BY <1>2, <1>6
  <1>9. Offsets(s, j, i + 1, more, longer)
    BY <1>5, <1>7, <1>8 DEF Offsets
  <1> QED
    BY <1>9, JoinedOffsets DEF more, c

\* Two sequences begin with the same n frames.
Agree(s, t, n) == \A k \in 1..n : s[k] = t[k]

\* What is said of the first n frames is the same for all sequences that begin with them.
LEMMA SameFrames ==
  ASSUME NEW s, NEW t, NEW n \in Nat, Agree(s, t, n)
  PROVE  /\ \A i, j \in 1..n : Spans(s, j, i) => Spans(t, j, i)
         /\ \A i, j \in 1..n : \A m : Joined(s, j, i, m) => Joined(t, j, i, m)
         /\ \A i \in 1..(n + 1) : OpenBefore(s, i) => OpenBefore(t, i)
  <1>1. ASSUME NEW i \in 1..n, NEW j \in 1..n, Spans(s, j, i)
        PROVE  Spans(t, j, i)
    <2>1. s[i] = t[i] /\ s[j] = t[j] /\ \A k \in (j + 1)..(i - 1) : s[k] = t[k]
      BY DEF Agree
    <2> QED
      BY <1>1, <2>1 DEF Spans
  <1>2. ASSUME NEW i \in 1..n, NEW j \in 1..n, NEW m, Joined(s, j, i, m)
        PROVE  Joined(t, j, i, m)
    <2>1. PICK off : Offsets(s, j, i, m, off)
      BY <1>2, JoinedOffsets
    <2>2. \A k \in j..i : s[k] = t[k]
      BY DEF Agree
    <2>3. Offsets(t, j, i, m, off)
      <3>1. ASSUME NEW k \in j..i
            PROVE  /\ off[k + 1] = off[k] + Len(Part(t[k]))
                   /\ \A b \in 1..Len(Part(t[k])) : m[off[k] + b] = Part(t[k])[b]
        <4>1. t[k] = s[k]
          BY <2>2
        <4>2. /\ off[k + 1] = off[k] + Len(Part(s[k]))
              /\ \A b \in 1..Len(Part(s[k])) : m[off[k] + b] = Part(s[k])[b]
          BY <2>1, Zenon DEF Offsets
        <4> QED
          BY <4>1, <4>2, Zenon
      <3>2. off \in [j..(i + 1) -> 0..Len(m)] /\ off[j] = 0 /\ off[i + 1] = Len(m)
        BY <2>1, Zenon DEF Offsets
      <3> QED
        BY <3>1, <3>2, Zenon DEF Offsets
    <2> QED
      BY <2>3, JoinedOffsets
  <1>3. ASSUME NEW i \in 1..(n + 1), OpenBefore(s, i)
        PROVE  OpenBefore(t, i)
    <2>1. PICK j \in 1..(i - 1) : IsPart(s[j]) /\ s[j].fin = 0 /\ \A k \in (j + 1)..(i - 1) : ~IsPart(s[k])
      BY <1>3 DEF OpenBefore
    <2>2. s[j] = t[j] /\ \A k \in (j + 1)..(i - 1) : s[k] = t[k]
      BY DEF Agree
    <2> QED
      BY <2>1, <2>2 DEF OpenBefore
  <1> QED
    BY <1>1, <1>2, <1>3

\* The same, both ways
LEMMA EqualFrames ==
  ASSUME NEW s, NEW t, NEW n \in Nat, Agree(s, t, n)
  PROVE  /\ \A i, j \in 1..n : Spans(s, j, i) <=> Spans(t, j, i)
         /\ \A i, j \in 1..n : \A op, m : Message(s, j, i, op, m) => Message(t, j, i, op, m)
         /\ \A i, j \in 1..n : \A m : Joined(s, j, i, m) => Joined(t, j, i, m)
         /\ \A i \in 1..(n + 1) : OpenBefore(s, i) <=> OpenBefore(t, i)
         /\ \A i \in 1..n : Placed(s, i) <=> Placed(t, i)
  <1>1. Agree(t, s, n)
    BY DEF Agree
  <1>2. /\ \A i, j \in 1..n : Spans(s, j, i) <=> Spans(t, j, i)
        /\ \A i, j \in 1..n : \A m : Joined(s, j, i, m) => Joined(t, j, i, m)
        /\ \A i \in 1..(n + 1) : OpenBefore(s, i) <=> OpenBefore(t, i)
    BY <1>1, SameFrames
  <1>3. ASSUME NEW i \in 1..n, NEW j \in 1..n, NEW op, NEW m, Message(s, j, i, op, m)
        PROVE  Message(t, j, i, op, m)
    <2>1. s[i] = t[i] /\ s[j] = t[j]
      BY DEF Agree
    <2> QED
      BY <1>2, <1>3, <2>1, Zenon DEF Message
  <1>4. ASSUME NEW i \in 1..n
        PROVE  Placed(s, i) <=> Placed(t, i)
    <2>1. s[i] = t[i] /\ i \in 1..(n + 1)
      BY DEF Agree
    <2> QED
      BY <1>2, <2>1 DEF Placed
  <1> QED
    BY <1>2, <1>3, <1>4

\* Whether a message is unfinished, one frame later
LEMMA OpenNext ==
  ASSUME NEW s, NEW i \in Nat \ {0}
  PROVE  /\ IsPart(s[i]) => (OpenBefore(s, i + 1) <=> s[i].fin = 0)
         /\ ~IsPart(s[i]) => (OpenBefore(s, i + 1) <=> OpenBefore(s, i))
  <1>1. (i + 1) - 1 = i /\ i \in 1..i /\ \A k \in (i + 1)..i : FALSE
    OBVIOUS
  <1>2. ASSUME IsPart(s[i]), OpenBefore(s, i + 1)
        PROVE  s[i].fin = 0
    <2>1. PICK j \in 1..i : s[j].fin = 0 /\ \A k \in (j + 1)..i : ~IsPart(s[k])
      BY <1>1, <1>2 DEF OpenBefore
    <2>2. j = i
      BY <1>2, <2>1
    <2> QED
      BY <2>1, <2>2
  <1>3. ASSUME IsPart(s[i]), s[i].fin = 0
        PROVE  OpenBefore(s, i + 1)
    BY <1>1, <1>3 DEF OpenBefore
  <1>4. ASSUME ~IsPart(s[i]), OpenBefore(s, i + 1)
        PROVE  OpenBefore(s, i)
    <2>1. PICK j \in 1..i : IsPart(s[j]) /\ s[j].fin = 0 /\ \A k \in (j + 1)..i : ~IsPart(s[k])
      BY <1>1, <1>4 DEF OpenBefore
    <2>2. j # i
      BY <1>4, <2>1
    <2>3. j \in 1..(i - 1) /\ \A k \in (j + 1)..(i - 1) : k \in (j + 1)..i
      BY <2>2
    <2> QED
      BY <2>1, <2>3 DEF OpenBefore
  <1>5. ASSUME ~IsPart(s[i]), OpenBefore(s, i)
        PROVE  OpenBefore(s, i + 1)
    <2>1. PICK j \in 1..(i - 1) : IsPart(s[j]) /\ s[j].fin = 0 /\ \A k \in (j + 1)..(i - 1) : ~IsPart(s[k])
      BY <1>5 DEF OpenBefore
    <2>2. \A k \in (j + 1)..i : k = i \/ k \in (j + 1)..(i - 1)
      OBVIOUS
    <2>3. \A k \in (j + 1)..i : ~IsPart(s[k])
      BY <1>5, <2>1, <2>2
    <2>4. j \in 1..((i + 1) - 1)
      OBVIOUS
    <2> QED
      BY <1>1, <2>1, <2>3, <2>4 DEF OpenBefore
  <1> QED
    BY <1>2, <1>3, <1>4, <1>5

(***************************************************************************)
(* WebSocket: the answers.                                                 *)
(***************************************************************************)

\* What is due for frame i: the answer to a text message that it ends, and the pong to a ping
TextEnds(s, i) == Placed(s, i) /\ \E j \in 1..i : Spans(s, j, i) /\ s[j].op = Text
PingAt(s, i) == s[i].fin = 1 /\ s[i].op = Ping /\ Len(s[i].data) <= 125
PongOf(s, i) == [op |-> Pong, data |-> s[i].data, to |-> i]
AnswerGiven(o, s, i) ==
  /\ TextEnds(s, i) => \E p \in 2..Len(o) : o[p].op = Text /\ o[p].to = i
  /\ PingAt(s, i) => \E p \in 2..Len(o) : o[p] = PongOf(s, i)

\* A frame that was sent answers one of the h frames that were handled.
Right(e, s, h) ==
  /\ e.to \in 1..h
  /\ e.op = Text => \E j \in 1..h : Message(s, j, e.to, Text, e.data)
  /\ e.op = Pong => \E j \in 1..h : Message(s, j, e.to, Ping, e.data)
Rising(o) == \A p, q \in 1..Len(o) : p < q => o[p].to < o[q].to
Answers(o, s, h) ==
  /\ h <= Len(s) /\ Len(o) >= 1 /\ o[1] = Hello
  /\ \A p \in 2..Len(o) : Right(o[p], s, h)
  /\ Rising(o)
  /\ \A i \in 1..h : AnswerGiven(o, s, i)
RepliesInv == ~torn => Answers(out, sent, handled)

\* The message that frame j of s begins has not ended with frame i.
Unfinished(s, j, i) ==
  /\ s[j].fin = 0 /\ s[j].op # Continuation
  /\ \A k \in (j + 1)..i : IsControl(s[k]) \/ Continues(s[k])
Opened(s, j, i, b) ==
  /\ Unfinished(s, j, i) /\ Joined(s, j, i, b.content)
  /\ b.type = TypeOf(s[j].op) /\ (b.errored <=> b.type = 0)
\* The mode and the builder after the first h frames of s
Streams(s, h, m, b) ==
  /\ \A i \in 1..h : Placed(s, i)
  /\ (m = "Streaming") <=> OpenBefore(s, h + 1)
  /\ m = "Streaming" => \E j \in 1..h : Opened(s, j, h, b)
BuilderInv == ~torn /\ ~stopped => Streams(sent, handled, mode, builder)

\* The inductive invariant
MessagesInv == EndInv /\ FramingInv /\ BuilderInv /\ RepliesInv

\* A frame ends at most one message.
LEMMA SpansOnce ==
  ASSUME NEW s, NEW i \in Nat, NEW j \in 1..i, NEW k \in 1..i, Spans(s, j, i), Spans(s, k, i)
  PROVE  j = k
  <1>1. CASE s[i].op # Continuation
    BY <1>1 DEF Spans
  <1>2. CASE s[i].op = Continuation
    <2>1. /\ j < i /\ s[j].fin = 0 /\ s[j].op # Continuation
          /\ \A l \in (j + 1)..(i - 1) : IsControl(s[l]) \/ Continues(s[l])
      BY <1>2 DEF Spans
    <2>2. /\ k < i /\ s[k].fin = 0 /\ s[k].op # Continuation
          /\ \A l \in (k + 1)..(i - 1) : IsControl(s[l]) \/ Continues(s[l])
      BY <1>2 DEF Spans
    <2>3. ~(IsControl(s[j]) \/ Continues(s[j])) /\ ~(IsControl(s[k]) \/ Continues(s[k]))
      BY <2>1, <2>2 DEF IsControl, Continues
    <2>4. j \notin (k + 1)..(i - 1) /\ k \notin (j + 1)..(i - 1)
      BY <2>1, <2>2, <2>3
    <2> QED
      BY <2>1, <2>2, <2>4
  <1> QED
    BY <1>1, <1>2

\* A frame without FIN ends no message.
LEMMA NothingDue ==
  ASSUME NEW s, NEW i, s[i].fin = 0
  PROVE  ~TextEnds(s, i) /\ ~PingAt(s, i)
  BY DEF TextEnds, PingAt, Spans

\* A frame more does not change what the frames before it are.
LEMMA AnswersMore ==
  ASSUME NEW s, NEW t, NEW o, NEW h \in Nat, Answers(o, s, h), Agree(s, t, h), h <= Len(t)
  PROVE  Answers(o, t, h)
  <1>1. /\ \A i, j \in 1..h : Spans(s, j, i) <=> Spans(t, j, i)
        /\ \A i, j \in 1..h : \A op, m : Message(s, j, i, op, m) => Message(t, j, i, op, m)
        /\ \A i \in 1..h : Placed(s, i) <=> Placed(t, i)
    BY EqualFrames
  <1>2. \A i \in 1..h : s[i] = t[i]
    BY DEF Agree
  <1>3. ASSUME NEW p \in 2..Len(o)
        PROVE  Right(o[p], t, h)
    <2>1. Right(o[p], s, h)
      BY DEF Answers
    <2> QED
      BY <1>1, <2>1, Zenon DEF Right
  <1>4. ASSUME NEW i \in 1..h
        PROVE  AnswerGiven(o, t, i)
    <2>1. AnswerGiven(o, s, i)
      BY DEF Answers
    <2>2. s[i] = t[i] /\ \A j \in 1..i : j \in 1..h
      BY <1>2
    <2>3. TextEnds(t, i) => TextEnds(s, i)
      BY <1>1, <1>2, <2>2, Zenon DEF TextEnds
    <2>4. (PingAt(t, i) => PingAt(s, i)) /\ PongOf(t, i) = PongOf(s, i)
      BY <2>2, Zenon DEF PingAt, PongOf
    <2> QED
      BY <2>1, <2>3, <2>4, Zenon DEF AnswerGiven
  <1> QED
    BY <1>3, <1>4 DEF Answers

\* A frame is handled that is due no answer.
LEMMA AnswersSame ==
  ASSUME NEW s, NEW o, NEW h \in Nat, Answers(o, s, h), h + 1 <= Len(s),
         ~TextEnds(s, h + 1), ~PingAt(s, h + 1)
  PROVE  Answers(o, s, h + 1)
  <1>1. \A i \in 1..h : i \in 1..(h + 1)
    OBVIOUS
  <1>2. \A i \in 1..(h + 1) : i \in 1..h \/ i = h + 1
    OBVIOUS
  <1>3. \A i \in 1..(h + 1) : AnswerGiven(o, s, i)
    BY <1>2, Zenon DEF Answers, AnswerGiven
  <1>4. ASSUME NEW p \in 2..Len(o)
        PROVE  Right(o[p], s, h + 1)
    <2>1. Right(o[p], s, h)
      BY DEF Answers
    <2> QED
      BY <1>1, <2>1, Zenon DEF Right
  <1> QED
    BY <1>3, <1>4 DEF Answers

\* A frame is handled that is answered.
LEMMA AnswersOne ==
  ASSUME NEW s, NEW o \in Seq(OutFrames), NEW h \in Nat, Answers(o, s, h), h + 1 <= Len(s),
         NEW e \in OutFrames, e.to = h + 1, Right(e, s, h + 1),
         TextEnds(s, h + 1) => e.op = Text, PingAt(s, h + 1) => e = PongOf(s, h + 1)
  PROVE  Answers(Append(o, e), s, h + 1)
  <1> DEFINE n == Len(o)
             w == Append(o, e)
  <1>1. /\ n \in Nat /\ Len(w) = n + 1 /\ w[n + 1] = e /\ \A p \in 1..n : w[p] = o[p]
    OBVIOUS
  <1>a. n >= 1 /\ o[1] = Hello /\ (\A p \in 2..n : Right(o[p], s, h)) /\ Rising(o) /\ \A i \in 1..h : AnswerGiven(o, s, i)
    BY DEF Answers
  <1> HIDE DEF n, w
  <1>2. \A i \in 1..h : i \in 1..(h + 1)
    OBVIOUS
  <1>3. \A p \in 2..n : p \in 1..n /\ p \in 2..(n + 1)
    BY <1>1
  <1>4. n + 1 \in 2..(n + 1) /\ 1 \in 1..n
    BY <1>1, <1>a
  <1>5. ASSUME NEW p \in 2..(n + 1)
        PROVE  Right(w[p], s, h + 1)
    <2>1. CASE p = n + 1
      BY <1>1, <2>1
    <2>2. CASE p # n + 1
      <3>1. p \in 2..n
        BY <1>1, <2>2
      <3>2. Right(o[p], s, h) /\ w[p] = o[p]
        BY <1>1, <1>3, <1>a, <3>1
      <3> QED
        BY <1>2, <3>2, Zenon DEF Right
    <2> QED
      BY <2>1, <2>2
  <1>6. ASSUME NEW i \in 1..(h + 1)
        PROVE  AnswerGiven(w, s, i)
    <2>1. CASE i = h + 1
      BY <1>1, <1>4, <2>1, Zenon DEF AnswerGiven
    <2>2. CASE i # h + 1
      <3>1. i \in 1..h
        BY <2>2
      <3>2. AnswerGiven(o, s, i)
        BY <1>a, <3>1
      <3> QED
        BY <1>1, <1>3, <3>2, Zenon DEF AnswerGiven, n
    <2> QED
      BY <2>1, <2>2
  <1>7. \A p \in 1..n : o[p].to \in 0..h
    <2>1. \A p \in 2..n : o[p].to \in 1..h
      BY <1>a, Zenon DEF Right
    <2>2. o[1].to = 0
      BY <1>a DEF Hello
    <2>3. \A p \in 1..n : p = 1 \/ p \in 2..n
      BY <1>1
    <2> QED
      BY <2>1, <2>2, <2>3
  <1>8. ASSUME NEW p \in 1..(n + 1), NEW q \in 1..(n + 1), p < q
        PROVE  w[p].to < w[q].to
    <2>1. p \in 1..n
      BY <1>1, <1>8
    <2>2. CASE q = n + 1
      <3>1. w[q].to = h + 1 /\ w[p].to = o[p].to /\ o[p].to \in 0..h
        BY <1>1, <1>7, <2>1, <2>2
      <3> QED
        BY <3>1
    <2>3. CASE q # n + 1
      <3>1. q \in 1..n
        BY <1>1, <2>3
      <3>2. o[p].to < o[q].to
        BY <1>8, <1>a, <2>1, <3>1 DEF Rising, n
      <3> QED
        BY <1>1, <2>1, <3>1, <3>2
    <2> QED
      BY <2>2, <2>3
  <1>9. Rising(w)
    BY <1>1, <1>8 DEF Rising
  <1>10. w[1] = Hello /\ Len(w) >= 1
    BY <1>1, <1>4, <1>a
  <1>11. Answers(w, s, h + 1)
    BY <1>1, <1>5, <1>6, <1>9, <1>10 DEF Answers
  <1> QED
    BY <1>11 DEF w

\* The opcodes are different, and these four are types of messages.
LEMMA Opcodes ==
  /\ Text # Ping /\ Text # Pong /\ Text # Close /\ Ping # Pong /\ Ping # Close /\ Pong # Close
  /\ Text # Continuation /\ Ping # Continuation
  /\ TypeOf(Text) = Text /\ TypeOf(Ping) = Ping /\ Text # 0 /\ Ping # 0
  /\ Text \in 0..15 /\ Pong \in 0..15 /\ Close \in 0..15
  /\ \A op : (TypeOf(op) = Text => op = Text) /\ (TypeOf(op) = Ping => op = Ping)
  BY DEF Text, Binary, Ping, Pong, Close, Continuation, TypeOf

\* A frame that is sent for one that is handled
LEMMA SendAnswers ==
  ASSUME TypeOK, Answers(out, sent, handled), handled + 1 <= Len(sent),
         NEW op \in 0..15, NEW d \in Bytes, Send(op, d),
         op = Text => \E j \in 1..(handled + 1) : Message(sent, j, handled + 1, Text, d),
         op = Pong => \E j \in 1..(handled + 1) : Message(sent, j, handled + 1, Ping, d),
         TextEnds(sent, handled + 1) => op = Text,
         PingAt(sent, handled + 1) => op = Pong /\ d = sent[handled + 1].data
  PROVE  Answers(out', sent, handled + 1)
  <1>0. out \in Seq(OutFrames) /\ handled \in Nat
    BY Types
  <1> DEFINE e == [op |-> op, data |-> d, to |-> handled + 1]
  <1>1. e.op = op /\ e.data = d /\ e.to = handled + 1 /\ out' = Append(out, e)
    BY DEF Send
  <1>2. e \in OutFrames /\ handled + 1 \in 1..(handled + 1)
    BY <1>0 DEF OutFrames
  <1>3. PingAt(sent, handled + 1) => e = PongOf(sent, handled + 1)
    BY DEF PongOf
  <1> HIDE DEF e
  <1>4. Right(e, sent, handled + 1)
    BY <1>1, <1>2, Zenon DEF Right
  <1>5. Answers(Append(out, e), sent, handled + 1)
    BY <1>0, <1>1, <1>2, <1>3, <1>4, AnswersOne
  <1> QED
    BY <1>1, <1>5

\* A close frame answers a frame to which nothing is due.
LEMMA CloseAnswers ==
  ASSUME TypeOK, Answers(out, sent, handled), handled + 1 <= Len(sent), NEW reason \in Reasons, EndpointClose(reason),
         ~TextEnds(sent, handled + 1), ~PingAt(sent, handled + 1)
  PROVE  Answers(out', sent, handled + 1)
  <1>1. Send(Close, ReasonBytes(reason)) /\ ReasonBytes(reason) \in Bytes
    BY ReasonTypes DEF EndpointClose
  <1> QED
    BY <1>1, Opcodes, SendAnswers

\* A protocol error
LEMMA BadAnswers ==
  ASSUME TypeOK, Answers(out, sent, handled), handled + 1 <= Len(sent), BadCombination,
         ~TextEnds(sent, handled + 1), ~PingAt(sent, handled + 1)
  PROVE  Answers(out', sent, handled + 1)
  BY CloseAnswers, ReasonTypes DEF BadCombination

\* A frame to which nothing is sent
LEMMA NoAnswers ==
  ASSUME TypeOK, Answers(out, sent, handled), handled + 1 <= Len(sent), UNCHANGED out,
         ~TextEnds(sent, handled + 1), ~PingAt(sent, handled + 1)
  PROVE  Answers(out', sent, handled + 1)
  <1>0. handled \in Nat
    BY Types
  <1> QED
    BY <1>0, AnswersSame

\* The last frame of a message: what is sent is what is due.
LEMMA ReceivedAnswers ==
  ASSUME TypeOK, Answers(out, sent, handled), handled + 1 <= Len(sent),
         NEW j \in 1..(handled + 1), NEW d \in Bytes, Message(sent, j, handled + 1, sent[j].op, d),
         Received(TypeOf(sent[j].op), d)
  PROVE  Answers(out', sent, handled + 1)
  <1> DEFINE i == handled + 1
             op == sent[j].op
             type == TypeOf(op)
  <1>0. handled \in Nat /\ i \in Nat /\ i \in 1..i
    BY Types
  <1>1. Spans(sent, j, i)
    BY DEF Message
  <1>2. TextEnds(sent, i) => op = Text
    <2>1. ASSUME TextEnds(sent, i)
          PROVE  op = Text
      <3>1. PICK k \in 1..i : Spans(sent, k, i) /\ sent[k].op = Text
        BY <2>1 DEF TextEnds
      <3>2. k = j
        BY <1>0, <1>1, <3>1, SpansOnce
      <3> QED
        BY <3>1, <3>2
    <2> QED
      BY <2>1
  <1>3. PingAt(sent, i) => j = i /\ op = Ping /\ d = sent[i].data /\ Len(d) <= 125
    <2>1. ASSUME PingAt(sent, i)
          PROVE  j = i /\ op = Ping /\ d = sent[i].data /\ Len(d) <= 125
      <3>1. sent[i].fin = 1 /\ sent[i].op = Ping /\ Len(sent[i].data) <= 125
        BY <2>1 DEF PingAt
      <3>2. Spans(sent, i, i)
        BY <3>1, Opcodes DEF Spans
      <3>3. j = i
        BY <1>0, <1>1, <3>2, SpansOnce
      <3>4. d = sent[i].data
        BY <3>3 DEF Message
      <3> QED
        BY <3>1, <3>3, <3>4
    <2> QED
      BY <2>1
  <1>4. Received(type, d) /\ Message(sent, j, i, op, d)
    OBVIOUS
  <1> HIDE DEF i, op, type
  <1>a. /\ (type = Text => op = Text) /\ (type = Ping => op = Ping)
        /\ (op = Text => type = Text) /\ (op = Ping => type = Ping)
    BY Opcodes DEF type
  <1>5. CASE type = Text
    <2>1. Send(Text, d)
      BY <1>4, <1>5, Opcodes DEF Received
    <2>2. op = Text
      BY <1>5, <1>a
    <2>3. Message(sent, j, i, Text, d) /\ ~PingAt(sent, i)
      BY <1>3, <1>4, <2>2, Opcodes
    <2> QED
      BY <2>1, <2>3, Opcodes, SendAnswers DEF i
  <1>6. CASE type = Ping
    <2>1. op = Ping
      BY <1>6, <1>a
    <2>2. Message(sent, j, i, Ping, d) /\ ~TextEnds(sent, i)
      BY <1>2, <1>4, <2>1, Opcodes
    <2>3. IF Len(d) > 125 THEN UNCHANGED out ELSE Send(Pong, d)
      BY <1>4, <1>6, Opcodes DEF Received
    <2>4. CASE Len(d) > 125
      <3>1. Len(d) \in Nat
        BY BytesAreInts
      <3>2. ~(Len(d) <= 125)
        BY <2>4, <3>1
      <3> QED
        BY <1>3, <2>2, <2>3, <2>4, <3>2, NoAnswers DEF i
    <2>5. CASE ~(Len(d) > 125)
      BY <1>3, <2>2, <2>3, <2>5, Opcodes, SendAnswers DEF i
    <2> QED
      BY <2>4, <2>5
  <1>7. CASE type # Text /\ type # Ping
    <2>1. ~TextEnds(sent, i) /\ ~PingAt(sent, i)
      BY <1>2, <1>3, <1>7, <1>a
    <2>2. EndpointClose(GetCloseReason(d)) \/ UNCHANGED out
      BY <1>4, <1>7, Zenon DEF Received
    <2> QED
      BY <2>1, <2>2, ReasonTypes, CloseAnswers, NoAnswers DEF i
  <1> QED
    BY <1>5, <1>6, <1>7

\* What recv() asks about the frame, of the frame that was sent
FrameIs(f) ==
  /\ isControlFrame <=> IsControl(f)
  /\ isEmpty <=> Continues(f) /\ f.data = <<>>
  /\ isBeginning <=> f.fin = 0 /\ f.op # Continuation
  /\ isContinues <=> Continues(f) /\ f.data # <<>>
  /\ isEnd <=> f.fin = 1 /\ f.op = Continuation
  /\ isWhole <=> f.fin = 1 /\ f.op # Continuation
  /\ hdr.op = f.op /\ payload = f.data /\ payload \in Bytes
  /\ f \in Frames /\ f.fin \in 0..1

\* The tests of recv() on a header are tests on the frame that was sent.
LEMMA FrameIsSent ==
  ASSUME TypeOK, FrameWasSent
  PROVE  FrameIs(sent[handled + 1])
  <1> DEFINE f == sent[handled + 1]
  <1>1. handled + 1 \in 1..Len(sent) /\ hdr.fin = f.fin /\ hdr.op = f.op /\ hdr.len = Len(f.data) /\ payload = f.data
    BY DEF FrameWasSent
  <1>2. f \in Frames
    BY <1>1, ReadingTypes
  <1>3. FrameFacts(f)
    BY <1>2, FrameTypesAre
  <1> HIDE DEF f
  <1>4. f.data \in Bytes /\ f.fin \in 0..1
    BY <1>3 DEF FrameFacts
  <1>5. hdr.len = 0 <=> f.data = <<>>
    BY <1>1, <1>4 DEF Bytes
  <1>6. Continuation = 0
    BY DEF Continuation
  <1> QED
    BY <1>1, <1>2, <1>4, <1>5, <1>6
       DEF FrameIs, isControlFrame, isEmpty, isBeginning, isContinues, isEnd, isWhole, IsControl, Continues, f

\* Which frames are parts of messages
LEMMA Parts ==
  ASSUME NEW f
  PROVE  /\ f.fin = 0 /\ f.op # Continuation => IsPart(f) /\ Part(f) = f.data
         /\ f.fin = 1 /\ ~IsControl(f) => IsPart(f) /\ Part(f) = f.data
         /\ Continues(f) /\ f.data # <<>> => IsPart(f) /\ Part(f) = f.data
         /\ Continues(f) => Part(f) = f.data /\ ~IsControl(f)
         /\ Continues(f) /\ f.data = <<>> => ~IsPart(f)
         /\ IsControl(f) => ~IsPart(f) /\ Part(f) = <<>> /\ f.fin = 1 /\ f.op # Continuation
         /\ f.op = Continuation => ~IsControl(f)
  BY DEF IsPart, Part, IsControl, Continues, Continuation, Close, Ping, Pong

\* A frame more of an unfinished message, or a control frame in its middle
LEMMA OpenedMore ==
  ASSUME NEW s, NEW h \in Nat, NEW j \in 1..h, NEW b \in Builders, NEW c \in Builders, Opened(s, j, h, b),
         \A k \in 1..(h + 1) : s[k] \in Frames,
         IsControl(s[h + 1]) \/ Continues(s[h + 1]),
         c.content = b.content \o Part(s[h + 1]), c.type = b.type, c.errored = b.errored
  PROVE  Opened(s, j, h + 1, c)
  <1>1. /\ Unfinished(s, j, h) /\ Joined(s, j, h, b.content)
        /\ b.type = TypeOf(s[j].op) /\ (b.errored <=> b.type = 0)
    BY DEF Opened
  <1>2. Joined(s, j, h + 1, b.content \o Part(s[h + 1]))
    <2>1. b.content \in Bytes /\ j \in Nat /\ j <= h /\ \A k \in j..(h + 1) : s[k] \in Frames
      BY DEF Builders
    <2> QED
      BY <1>1, <2>1, JoinMore
  <1>3. Unfinished(s, j, h + 1)
    <2>1. \A k \in (j + 1)..(h + 1) : k \in (j + 1)..h \/ k = h + 1
      OBVIOUS
    <2> QED
      BY <1>1, <2>1, Zenon DEF Unfinished
  <1> QED
    BY <1>1, <1>2, <1>3, Zenon DEF Opened

\* The last frame of an unfinished message
LEMMA OpenedEnds ==
  ASSUME NEW s, NEW h \in Nat, NEW j \in 1..h, NEW b \in Builders, Opened(s, j, h, b),
         \A k \in 1..(h + 1) : s[k] \in Frames, s[h + 1].fin = 1, s[h + 1].op = Continuation
  PROVE  Message(s, j, h + 1, s[j].op, b.content \o s[h + 1].data)
  <1>1. Unfinished(s, j, h) /\ Joined(s, j, h, b.content)
    BY DEF Opened
  <1>2. Joined(s, j, h + 1, b.content \o Part(s[h + 1]))
    <2>1. b.content \in Bytes /\ j \in Nat /\ j <= h /\ \A k \in j..(h + 1) : s[k] \in Frames
      BY DEF Builders
    <2> QED
      BY <1>1, <2>1, JoinMore
  <1>3. Part(s[h + 1]) = s[h + 1].data
    BY Parts DEF Part
  <1>4. j < h + 1 /\ j # h + 1 /\ (h + 1) - 1 = h
    OBVIOUS
  <1>5. Spans(s, j, h + 1)
    BY <1>1, <1>4 DEF Spans, Unfinished
  <1> QED
    BY <1>2, <1>3, <1>4, <1>5 DEF Message

\* What holds where a frame is handled
HandlesFrame ==
  /\ TypeOK /\ BuilderIsInitialised /\ Streams(sent, handled, mode, builder) /\ Answers(out, sent, handled)
  /\ FrameIs(sent[handled + 1]) /\ handled + 1 <= Len(sent)

\* The frames up to the one that is handled
LEMMA HandlesFrameTypes ==
  ASSUME HandlesFrame
  PROVE  /\ handled \in Nat /\ builder \in Builders /\ mode \in {"Normal", "Streaming"}
         /\ \A k \in 1..(handled + 1) : sent[k] \in Frames
         /\ TypeOK /\ Answers(out, sent, handled) /\ handled + 1 <= Len(sent)
         /\ FrameIs(sent[handled + 1]) /\ sent[handled + 1].fin \in 0..1
  <1>1. TypeOK /\ handled + 1 <= Len(sent) /\ FrameIs(sent[handled + 1]) /\ Answers(out, sent, handled)
    BY DEF HandlesFrame
  <1>2. handled \in Nat /\ builder \in Builders /\ mode \in {"Normal", "Streaming"}
    BY <1>1, Types
  <1>3. \A k \in 1..(handled + 1) : sent[k] \in Frames
    BY <1>1, <1>2, ReadingTypes
  <1>4. sent[handled + 1].fin \in 0..1
    BY <1>1 DEF FrameIs
  <1> QED
    BY <1>1, <1>2, <1>3, <1>4

\* Every answer that recv() gives is due.
LEMMA RecvAnswers ==
  ASSUME HandlesFrame, recv
  PROVE  Answers(out', sent, handled + 1)
  <1> DEFINE i == handled + 1
             f == sent[i]
  <1>0. /\ handled \in Nat /\ builder \in Builders /\ mode \in {"Normal", "Streaming"}
        /\ \A k \in 1..i : sent[k] \in Frames
        /\ TypeOK /\ Answers(out, sent, handled) /\ i <= Len(sent)
        /\ FrameIs(f)
    BY HandlesFrameTypes
  <1>1. (mode = "Streaming") <=> OpenBefore(sent, i)
    BY DEF HandlesFrame, Streams
  <1>2. i \in 1..i
    BY <1>0
  <1> HIDE DEF i
  <1>3. CASE SkipEmpty
    <2>1. f.fin = 0 /\ UNCHANGED out
      BY <1>0, <1>3 DEF SkipEmpty, FrameIs, Continues
    <2> QED
      BY <1>0, <2>1, NothingDue, NoAnswers DEF i
  <1>4. CASE WholeMessage
    <2>1. Received(TypeOf(f.op), f.data) /\ f.fin = 1 /\ f.op # Continuation /\ f.data \in Bytes
      BY <1>0, <1>4, Parts DEF WholeMessage, FrameIs
    <2>2. Message(sent, i, i, sent[i].op, sent[i].data)
      BY <2>1 DEF Message, Spans
    <2> QED
      BY <1>0, <1>2, <2>1, <2>2, ReceivedAnswers DEF i
  <1>5. CASE BeginStream
    <2>1. f.fin = 0 /\ (UNCHANGED out \/ BadCombination)
      BY <1>0, <1>5, Zenon DEF BeginStream, FrameIs
    <2> QED
      BY <1>0, <2>1, NothingDue, NoAnswers, BadAnswers DEF i
  <1>6. CASE AppendFragment
    <2>1. f.fin = 0 /\ (UNCHANGED out \/ BadCombination)
      BY <1>0, <1>6, Zenon DEF AppendFragment, FrameIs, Continues
    <2> QED
      BY <1>0, <2>1, NothingDue, NoAnswers, BadAnswers DEF i
  <1>7. CASE EndStream
    <2>1. /\ f.fin = 1 /\ f.op = Continuation /\ mode = "Streaming" /\ payload = f.data /\ f.data \in Bytes
          /\ \/ ~builder.errored /\ Received(builder.type, builder.content \o f.data)
             \/ builder.errored /\ BadCombination
      BY <1>0, <1>7, Zenon DEF EndStream, FrameIs
    <2>2. PICK j \in 1..handled : Opened(sent, j, handled, builder)
      BY <2>1 DEF HandlesFrame, Streams
    <2> DEFINE m == builder.content \o f.data
    <2>3. Message(sent, j, i, sent[j].op, m)
      BY <1>0, <2>1, <2>2, OpenedEnds DEF i
    <2>4. j \in 1..i /\ builder.type = TypeOf(sent[j].op) /\ (builder.errored <=> builder.type = 0) /\ m \in Bytes
      <3>1. j \in 1..i
        BY <1>0 DEF i
      <3>2. m \in Bytes
        BY <1>0, <2>1 DEF Builders, Bytes
      <3> QED
        BY <2>2, <3>1, <3>2 DEF Opened
    <2> HIDE DEF m
    <2>5. CASE Received(builder.type, m)
      <3>1. Received(TypeOf(sent[j].op), m)
        BY <2>4, <2>5
      <3> QED
        BY <1>0, <2>3, <2>4, <3>1, ReceivedAnswers DEF i
    <2>6. CASE builder.errored /\ BadCombination
      <3>1. sent[j].op # Text
        BY <2>4, <2>6, Opcodes
      <3>2. ~TextEnds(sent, i)
        <4>1. Spans(sent, j, i) /\ i \in Nat
          BY <1>0, <2>3 DEF Message, i
        <4>2. \A k \in 1..i : Spans(sent, k, i) => k = j
          BY <2>4, <4>1, SpansOnce
        <4> QED
          BY <3>1, <4>2 DEF TextEnds
      <3>3. ~PingAt(sent, i)
        BY <2>1, Opcodes DEF PingAt
      <3> QED
        BY <1>0, <2>6, <3>2, <3>3, BadAnswers DEF i
    <2> QED
      BY <2>1, <2>5, <2>6 DEF m
  <1>8. CASE OutOfPlace
    <2>1. /\ BadCombination
          /\ \/ mode = "Normal" /\ f.op = Continuation /\ (isContinues \/ isEnd)
             \/ mode = "Streaming" /\ f.fin = 1 /\ f.op # Continuation /\ ~IsControl(f)
      BY <1>0, <1>8 DEF OutOfPlace, FrameIs, Continues
    <2>2. ~PingAt(sent, i)
      BY <2>1, Opcodes DEF PingAt, IsControl
    <2>3. ~TextEnds(sent, i)
      <3>1. CASE f.fin = 0
        BY <3>1, NothingDue
      <3>2. CASE f.fin = 1
        <4>1. IsPart(f)
          BY <2>1, <3>2, Parts
        <4>2. (f.op = Continuation) <=> ~OpenBefore(sent, i)
          BY <1>1, <2>1
        <4>3. ~Placed(sent, i)
          BY <4>1, <4>2 DEF Placed
        <4> QED
          BY <4>3 DEF TextEnds
      <3>3. f.fin \in 0..1
        BY HandlesFrameTypes DEF i
      <3> QED
        BY <3>1, <3>2, <3>3
    <2> QED
      BY <1>0, <2>1, <2>2, <2>3, BadAnswers DEF i
  <1> QED
    BY <1>3, <1>4, <1>5, <1>6, <1>7, <1>8 DEF recv, i

\* A frame more is in its place.
LEMMA StreamsMore ==
  ASSUME NEW s, NEW h \in Nat, NEW m, NEW b, Streams(s, h, m, b), Placed(s, h + 1), NEW n, NEW c,
         (n = "Streaming") <=> OpenBefore(s, (h + 1) + 1),
         n = "Streaming" => \E j \in 1..(h + 1) : Opened(s, j, h + 1, c)
  PROVE  Streams(s, h + 1, n, c)
  <1>1. \A i \in 1..(h + 1) : i \in 1..h \/ i = h + 1
    OBVIOUS
  <1>2. \A i \in 1..(h + 1) : Placed(s, i)
    BY <1>1 DEF Streams
  <1> QED
    BY <1>2 DEF Streams

\* Empty fragments and control frames leave the message as it is.
LEMMA PassedOver ==
  ASSUME HandlesFrame, UNCHANGED <<mode, builder>>, NEW f, f = sent[handled + 1],
         IsControl(f) \/ (Continues(f) /\ f.data = <<>>)
  PROVE  Streams(sent, handled + 1, mode', builder')
  <1>0. /\ handled \in Nat /\ builder \in Builders /\ \A k \in 1..(handled + 1) : sent[k] \in Frames
        /\ Streams(sent, handled, mode, builder)
    BY HandlesFrameTypes DEF HandlesFrame
  <1>1. ~IsPart(f) /\ Part(f) = <<>>
    BY Parts
  <1>2. Placed(sent, handled + 1)
    BY <1>1 DEF Placed
  <1>3. OpenBefore(sent, (handled + 1) + 1) <=> OpenBefore(sent, handled + 1)
    <2>1. handled + 1 \in Nat \ {0}
      BY <1>0
    <2> QED
      BY <1>1, <2>1, OpenNext
  <1>4. (mode = "Streaming") <=> OpenBefore(sent, (handled + 1) + 1)
    BY <1>0, <1>3 DEF Streams
  <1>5. mode = "Streaming" => \E j \in 1..(handled + 1) : Opened(sent, j, handled + 1, builder)
    <2>1. ASSUME mode = "Streaming"
          PROVE  \E j \in 1..(handled + 1) : Opened(sent, j, handled + 1, builder)
      <3>1. PICK j \in 1..handled : Opened(sent, j, handled, builder)
        BY <1>0, <2>1 DEF Streams
      <3>2. builder.content = builder.content \o Part(sent[handled + 1])
        <4>1. builder.content \in Seq(Byte)
          BY <1>0 DEF Builders, Bytes
        <4>2. builder.content \o <<>> = builder.content
          BY <4>1
        <4> QED
          BY <1>1, <4>2
      <3>3. Opened(sent, j, handled + 1, builder)
        BY <1>0, <3>1, <3>2, OpenedMore
      <3>4. j \in 1..(handled + 1)
        BY <1>0
      <3> QED
        BY <3>3, <3>4
    <2> QED
      BY <2>1
  <1>6. Streams(sent, handled + 1, mode, builder)
    BY <1>0, <1>2, <1>4, <1>5, StreamsMore
  <1> QED
    BY <1>6

\* recv() puts the frames of a message together, and ends the connection where one is out of
\* place.
LEMMA RecvStreams ==
  ASSUME HandlesFrame, recv, ~stopped'
  PROVE  Streams(sent, handled + 1, mode', builder')
  <1> DEFINE i == handled + 1
             f == sent[i]
  <1>0. /\ handled \in Nat /\ builder \in Builders /\ mode \in {"Normal", "Streaming"}
        /\ \A k \in 1..i : sent[k] \in Frames
        /\ FrameIs(f) /\ Streams(sent, handled, mode, builder) /\ BuilderIsInitialised
    BY HandlesFrameTypes DEF HandlesFrame
  <1>1. (mode = "Streaming") <=> OpenBefore(sent, i)
    BY <1>0 DEF Streams
  <1>2. i \in 1..i /\ i \in Nat \ {0} /\ i \in Nat
    BY <1>0
  <1>a. /\ (f.fin = 0 /\ IsPart(f) => OpenBefore(sent, i + 1))
        /\ (f.fin = 1 /\ IsPart(f) => ~OpenBefore(sent, i + 1))
    BY <1>2, OpenNext
  <1> HIDE DEF i
  <1>b. ~BadCombination
    BY DEF BadCombination, EndpointClose
  <1>3. CASE SkipEmpty
    <2>1. Continues(f) /\ f.data = <<>> /\ UNCHANGED <<mode, builder>>
      BY <1>0, <1>3 DEF SkipEmpty, FrameIs, endpoint
    <2> QED
      BY <2>1, PassedOver DEF i
  <1>4. CASE WholeMessage
    <2>1. UNCHANGED <<mode, builder>> /\ (IsControl(f) \/ (mode = "Normal" /\ f.fin = 1 /\ f.op # Continuation))
      BY <1>0, <1>4 DEF WholeMessage, FrameIs
    <2>2. CASE IsControl(f)
      BY <2>1, <2>2, PassedOver DEF i
    <2>3. CASE ~IsControl(f)
      <3>1. mode = "Normal" /\ IsPart(f) /\ f.fin = 1 /\ f.op # Continuation
        BY <2>1, <2>3, Parts
      <3>2. Placed(sent, i)
        BY <1>1, <3>1 DEF Placed
      <3>3. mode' = "Normal" /\ mode' # "Streaming" /\ ~OpenBefore(sent, i + 1)
        BY <1>a, <2>1, <3>1
      <3> QED
        BY <1>0, <3>2, <3>3, StreamsMore DEF i
    <2> QED
      BY <2>2, <2>3
  <1>5. CASE BeginStream
    <2>1. /\ f.fin = 0 /\ f.op # Continuation /\ mode' = "Streaming" /\ builder.empty /\ payload = f.data /\ hdr.op = f.op
          /\ builder' = [empty |-> FALSE, errored |-> TypeOf(hdr.op) = 0, type |-> TypeOf(hdr.op), content |-> payload]
      BY <1>0, <1>5, <1>b, Zenon DEF BeginStream, FrameIs
    <2>2. mode # "Streaming" /\ IsPart(f) /\ Part(f) = f.data
      BY <1>0, <2>1, Parts DEF BuilderIsInitialised
    <2>3. Placed(sent, i)
      BY <1>1, <2>1, <2>2 DEF Placed
    <2>4. Joined(sent, i, i, Part(sent[i]))
      BY <1>0, <1>2, JoinOne
    <2>5. Unfinished(sent, i, i)
      <3>1. \A k \in (i + 1)..i : FALSE
        BY <1>2
      <3> QED
        BY <2>1, <3>1 DEF Unfinished
    <2>6. builder'.content = Part(f) /\ builder'.type = TypeOf(f.op) /\ (builder'.errored <=> builder'.type = 0)
      BY <2>1, <2>2
    <2>7. Opened(sent, i, i, builder')
      BY <2>4, <2>5, <2>6, Zenon DEF Opened
    <2>8. OpenBefore(sent, i + 1)
      BY <1>a, <2>1, <2>2
    <2> QED
      BY <1>0, <1>2, <2>1, <2>3, <2>7, <2>8, StreamsMore DEF i
  <1>6. CASE AppendFragment
    <2>1. /\ Continues(f) /\ f.data # <<>> /\ mode = "Streaming" /\ mode' = "Streaming" /\ payload = f.data /\ payload \in Bytes
          /\ builder' = [builder EXCEPT !.content = @ \o payload]
      BY <1>0, <1>6, <1>b, Zenon DEF AppendFragment, FrameIs
    <2>2. IsPart(f) /\ Part(f) = f.data /\ f.op = Continuation /\ f.fin = 0
      BY <2>1, Parts DEF Continues
    <2>3. Placed(sent, i)
      BY <1>1, <2>1, <2>2 DEF Placed
    <2>4. PICK j \in 1..handled : Opened(sent, j, handled, builder)
      BY <1>0, <2>1 DEF Streams
    <2>5. builder' \in Builders
      BY <1>0, <2>1, AppendTypes, Zenon
    <2>6. builder'.content = builder.content \o Part(f) /\ builder'.type = builder.type /\ builder'.errored = builder.errored
      <3>1. \A x : LET b == [builder EXCEPT !.content = x]
                   IN  b.content = x /\ b.type = builder.type /\ b.errored = builder.errored
        BY <1>0 DEF Builders
      <3>2. builder' = [builder EXCEPT !.content = builder.content \o Part(f)]
        BY <2>1, <2>2, Zenon
      <3> QED
        BY <3>1, <3>2, Zenon
    <2>7. Opened(sent, j, i, builder')
      BY <1>0, <2>1, <2>4, <2>5, <2>6, OpenedMore DEF i
    <2>8. OpenBefore(sent, i + 1) /\ j \in 1..i
      BY <1>0, <1>a, <2>2 DEF i
    <2> QED
      BY <1>0, <2>1, <2>3, <2>7, <2>8, StreamsMore DEF i
  <1>7. CASE EndStream
    <2>1. f.fin = 1 /\ f.op = Continuation /\ mode = "Streaming" /\ mode' = "Normal"
      BY <1>0, <1>7 DEF EndStream, FrameIs
    <2>2. IsPart(f)
      BY <2>1, Parts
    <2>3. Placed(sent, i)
      BY <1>1, <2>1, <2>2 DEF Placed
    <2>4. mode' # "Streaming" /\ ~OpenBefore(sent, i + 1)
      BY <1>a, <2>1, <2>2
    <2> QED
      BY <1>0, <2>3, <2>4, StreamsMore DEF i
  <1>8. CASE OutOfPlace
    BY <1>8, <1>b DEF OutOfPlace
  <1> QED
    BY <1>3, <1>4, <1>5, <1>6, <1>7, <1>8 DEF recv, i

\* Every step keeps the messages and the answers.
LEMMA MessagesStep ==
  ASSUME MessagesInv, [Next]_vars
  PROVE  MessagesInv'
  <1>0. EndInv /\ FramingInv /\ BuilderInv /\ RepliesInv /\ TypeOK
    BY DEF MessagesInv, EndInv
  <1>1. EndInv' /\ FramingInv'
    BY <1>0, EndStep, FramingStep
  <1>2. (torn => torn') /\ (stopped => stopped')
    BY <1>0, StaysSo
  <1>3. CASE recv
    <2>1. FrameComplete
      BY <1>3, RecvReads
    <2>2. ~stopped /\ torn' = torn /\ sent' = sent /\ handled' = handled + 1
      BY <1>0, <2>1 DEF FrameComplete, peer, EndInv, StopInv
    <2>3. ASSUME ~torn
          PROVE  HandlesFrame
      <3>1. FrameWasSent
        BY <1>0, <2>1, <2>2, <2>3, CompleteFramed DEF FramingInv
      <3>2. handled + 1 <= Len(sent)
        <4>1. handled \in Nat /\ Len(sent) \in Nat
          BY <1>0, ReadingTypes
        <4> QED
          BY <3>1, <4>1 DEF FrameWasSent
      <3>3. FrameIs(sent[handled + 1])
        BY <1>0, <3>1, FrameIsSent
      <3> QED
        BY <1>0, <2>2, <2>3, <3>2, <3>3 DEF HandlesFrame, BuilderInv, RepliesInv, EndInv
    <2>4. RepliesInv'
      BY <1>3, <2>2, <2>3, RecvAnswers DEF RepliesInv
    <2>5. BuilderInv'
      BY <1>3, <2>2, <2>3, RecvStreams DEF BuilderInv
    <2> QED
      BY <1>1, <2>4, <2>5 DEF MessagesInv
  <1>4. CASE PeerSends
    <2>1. PICK f \in Frames : sent' = Append(sent, f) /\ UNCHANGED <<stopped, mode, builder, out, handled, torn>>
      BY <1>4 DEF PeerSends, endpoint
    <2>2. sent \in Seq(Frames) /\ handled \in Nat /\ Len(sent) \in Nat
      BY <1>0, ReadingTypes
    <2>3. SUFFICES ASSUME ~torn
                   PROVE  MessagesInv'
      <3>1. CASE torn
        BY <1>1, <2>1, <3>1 DEF MessagesInv, BuilderInv, RepliesInv
      <3> QED
        BY <2>3, <3>1
    <2>4. Answers(out, sent, handled) /\ handled <= Len(sent)
      BY <1>0, <2>3 DEF RepliesInv, Answers
    <2>5. Agree(sent, sent', handled) /\ handled <= Len(sent')
      BY <2>1, <2>2, <2>4 DEF Agree
    <2>6. Answers(out, sent', handled)
      BY <2>2, <2>4, <2>5, AnswersMore
    <2>7. Streams(sent, handled, mode, builder) => Streams(sent', handled, mode, builder)
      <3>1. /\ \A i, j \in 1..handled : \A m : Joined(sent, j, i, m) => Joined(sent', j, i, m)
            /\ \A i \in 1..(handled + 1) : OpenBefore(sent, i) <=> OpenBefore(sent', i)
            /\ \A i \in 1..handled : Placed(sent, i) <=> Placed(sent', i)
        BY <2>2, <2>5, EqualFrames
      <3>2. handled + 1 \in 1..(handled + 1)
        BY <2>2
      <3>3. ASSUME NEW j \in 1..handled, Opened(sent, j, handled, builder)
            PROVE  Opened(sent', j, handled, builder)
        <4>1. handled \in 1..handled /\ sent[j] = sent'[j] /\ \A k \in (j + 1)..handled : sent[k] = sent'[k]
          BY <2>2, <2>5 DEF Agree
        <4>2. Unfinished(sent', j, handled)
          BY <3>3, <4>1, Zenon DEF Opened, Unfinished
        <4> QED
          BY <3>1, <3>3, <4>1, <4>2, Zenon DEF Opened
      <3> QED
        BY <3>1, <3>2, <3>3, Zenon DEF Streams
    <2> QED
      BY <1>0, <1>1, <2>1, <2>6, <2>7 DEF MessagesInv, BuilderInv, RepliesInv
  <1>5. CASE UNCHANGED <<sent, handled, mode, builder, out>>
    BY <1>0, <1>1, <1>2, <1>5 DEF MessagesInv, BuilderInv, RepliesInv
  <1>6. CASE PeerCloses \/ Arrive \/ Visit \/ Erase \/ PollEnds
    BY <1>5, <1>6 DEF PeerCloses, Arrive, Visit, Erase, PollEnds, peer, endpoint
  <1>7. CASE readHeader \/ readExtendedPayloadLength \/ readMaskingKey \/ readData
    <2>1. UNCHANGED <<sent, handled, mode, builder, out>>
      BY <1>7 DEF readHeader, readExtendedPayloadLength, readMaskingKey, readData, peer, endpoint
    <2> QED
      BY <1>5, <2>1
  <1>8. CASE UNCHANGED vars
    BY <1>5, <1>8 DEF vars, peer, endpoint
  <1> QED
    BY <1>3, <1>4, <1>6, <1>7, <1>8 DEF Next, ServerStep, Elsewhere

\* At first no frame was handled.
LEMMA MessagesInit ==
  ASSUME Init
  PROVE  MessagesInv
  <1>1. sent = <<>> /\ out = <<Hello>> /\ handled = 0 /\ mode = "Normal"
    BY DEF Init
  <1>2. Len(sent) = 0 /\ Len(out) = 1 /\ out[1] = Hello
    BY <1>1
  <1>3. (\A k \in 1..0 : FALSE) /\ (\A p \in 2..1 : FALSE) /\ \A p, q \in 1..1 : ~(p < q)
    OBVIOUS
  <1>4. Answers(out, sent, handled)
    BY <1>1, <1>2, <1>3 DEF Answers, Rising
  <1>5. ~OpenBefore(sent, handled + 1)
    <2>1. (0 + 1) - 1 = 0
      OBVIOUS
    <2> QED
      BY <1>1, <1>3, <2>1 DEF OpenBefore
  <1>6. Streams(sent, handled, mode, builder)
    BY <1>1, <1>3, <1>5 DEF Streams
  <1> QED
    BY <1>4, <1>6, EndInit, FramingInit DEF MessagesInv, BuilderInv, RepliesInv

\* recv(), whatever frames the peer sends and however TCP cuts them, as long as no header,
\* length or key was read short: every text message is answered by its own content, put
\* together and unmasked, once and in order; every ping by its pong; and a frame that continues
\* no message, or mixes two, ends the connection.
THEOREM FramesHandled == Spec => []FramesAreHandled
  <1>1. MessagesInv /\ [Next]_vars => MessagesInv'
    BY MessagesStep
  <1>2. MessagesInv => FramesAreHandled
    <2>0. SUFFICES ASSUME MessagesInv
                   PROVE  FramesAreHandled
      OBVIOUS
    <2>1. out \in Seq(OutFrames) /\ DOMAIN out = 1..Len(out) /\ Len(out) \in Nat
      BY <2>0, Types DEF MessagesInv, EndInv
    <2>2. \A p \in 2..Len(out) : p \in DOMAIN out
      BY <2>1
    <2>3. ~torn => Answers(out, sent, handled)
      BY <2>0 DEF MessagesInv, RepliesInv
    <2>4. MessagesAreReassembled
      <3>1. ASSUME ~torn
            PROVE  \A p \in 2..Len(out) : out[p].op = Text => \E j \in 1..handled : Message(sent, j, out[p].to, Text, out[p].data)
        BY <2>3, <3>1, Zenon DEF Answers, Right
      <3>2. ASSUME ~torn
            PROVE  \A i \in 1..handled :
                     Placed(sent, i) /\ (\E j \in 1..i : Spans(sent, j, i) /\ sent[j].op = Text) =>
                       \E p \in 2..Len(out) : out[p].op = Text /\ out[p].to = i
        BY <2>3, <3>2, Zenon DEF Answers, AnswerGiven, TextEnds
      <3>3. ASSUME ~torn
            PROVE  \A p, q \in DOMAIN out : p < q => out[p].to < out[q].to
        BY <2>1, <2>3, <3>3 DEF Answers, Rising
      <3> QED
        BY <3>1, <3>2, <3>3 DEF MessagesAreReassembled
    <2>5. PingsAreAnswered
      <3>1. ASSUME ~torn, NEW i \in 1..handled, sent[i].fin = 1 /\ sent[i].op = Ping /\ Len(sent[i].data) <= 125
            PROVE  \E p \in DOMAIN out : out[p] = [op |-> Pong, data |-> sent[i].data, to |-> i]
        <4>1. AnswerGiven(out, sent, i) /\ PingAt(sent, i)
          BY <2>3, <3>1 DEF Answers, PingAt
        <4> QED
          BY <2>2, <4>1 DEF AnswerGiven, PongOf
      <3>2. ASSUME ~torn, NEW p \in DOMAIN out, out[p].op = Pong
            PROVE  \E j \in 1..handled : Message(sent, j, out[p].to, Ping, out[p].data)
        <4>1. p # 1
          BY <2>3, <3>1, <3>2, Opcodes DEF Answers, Hello
        <4>2. p \in 2..Len(out)
          BY <2>1, <3>2, <4>1
        <4> QED
          BY <2>3, <3>2, <4>2, Zenon DEF Answers, Right
      <3> QED
        BY <3>1, <3>2 DEF PingsAreAnswered
    <2>6. MixedMessagesEnd
      BY <2>0 DEF MessagesInv, BuilderInv, Streams, MixedMessagesEnd
    <2> QED
      BY <2>4, <2>5, <2>6 DEF FramesAreHandled
  <1> QED
    BY <1>1, <1>2, MessagesInit, PTL DEF Spec

(***************************************************************************)
(* WebServer: reading a request, the calls of the handlers, and the        *)
(* answer.                                                                 *)
(***************************************************************************)
HeaderNames == {"Server", "Content-Type", "ETag", "Connection", "Upgrade", "Version", "Accept",
                "Allow-Origin", "Allow-Credentials", "Allow-Methods", "Allow-Headers"}
BodyNames == {"status", "notfound", "file", "index", "about", "api", "upgrade"}
Codes == {101, 200, 400, 404, 408, 414, 431, 500, 501}
Details == Codes \cup HeaderNames \cup BodyNames \cup {0}
OutPieces == [kind : {"status", "header", "blank", "body", "break"}, what : Details]
Responses == [status : Codes \cup {0}, headers : Seq(HeaderNames), headersSent : BOOLEAN, typeSet : BOOLEAN,
              lengthSet : BOOLEAN, ended : BOOLEAN, convert : BOOLEAN, buf : Seq(OutPieces), wire : Seq(OutPieces)]

\* The calls that handlers make
LegalCalls ==
  [op : {"status"}, arg : Codes] \cup [op : {"set"}, arg : HeaderNames] \cup
  [op : {"print", "write"}, arg : BodyNames] \cup [op : {"flush", "end", "convert"}, arg : {0}]

Strings == STRING
HeaderLines == Strings \X Strings
HttpPlaces == {"accept", "method", "url", "version", "headers", "dispatch", "handler", "finalize", "clients"}

\* Types of the state of the web server
HttpTypes ==
  /\ at \in HttpPlaces /\ made \in 0..MaxRequests
  /\ request.lines \in Seq(HeaderLines) /\ unread \in Seq(HeaderLines)
  /\ buffers \in [Registered -> Seq(Strings)]
  /\ resp \in Responses /\ Len(resp.headers) <= MaxHeaders /\ Len(resp.buf) < OutputBufferSize
  /\ route \in 1..9 /\ calls \in Seq(LegalCalls) /\ (at # "handler" => calls = <<>>)
  /\ clients \in Seq(BOOLEAN) /\ pos \in 1..(Len(clients) + 1) /\ Len(clients) <= MaxConnections
HttpFlags == stalled \in BOOLEAN /\ left \in BOOLEAN

\* The first n header lines have been read: buf holds the values of those with name h, b is all
\* buffers, l says that a length was among them.
Held(lines, buf, h, n) ==
  /\ \A j \in 1..Len(buf) : \E i \in 1..n : lines[i][1] = h /\ lines[i][2] = buf[j]
  /\ \A i \in 1..n : lines[i][1] = h => \E j \in 1..Len(buf) : buf[j] = lines[i][2]
  /\ (\E i, k \in 1..n : i # k /\ lines[i][1] = h /\ lines[k][1] = h) <=> Len(buf) > 1
Bounded == Registered \cup {"Content-Length"}
HeadersRead(lines, b, l, n) ==
  /\ \A i \in 1..n : lines[i][1] \in Bounded => lines[i][2] # TooLong
  /\ \A h \in Registered : Held(lines, b[h], h, n)
  /\ l <=> \E i \in 1..n : lines[i][1] = "Content-Length"

Reading == {"method", "url", "version", "headers"}
ReadingInv ==
  /\ at \in Reading => resp = NewResponse /\ route = 1
  /\ at \in {"url", "version", "headers"} => request.method \in Methods
  /\ at = "version" /\ request.path = TooLong => stalled
  /\ at = "headers" => request.path # TooLong
  /\ at \in {"accept", "clients", "method", "url", "version"} => buffers = EmptyBuffers
  /\ at \in {"method", "url", "version"} => unread = request.lines /\ ~left
  /\ at = "headers" => \E n \in 0..Len(request.lines) :
                         /\ unread = SubSeq(request.lines, n + 1, Len(request.lines))
                         /\ HeadersRead(request.lines, buffers, left, n)

\* Request rq has been read without an error.
AllRead(rq, b, l) ==
  rq.method \in Methods /\ rq.path # TooLong /\ HeadersRead(rq.lines, b, l, Len(rq.lines))

\* What has been written for the peer, and its form
Stream(r) == r.wire \o r.buf
Headed(s) ==
  \E b \in 2..Len(s) : /\ s[1].kind = "status" /\ s[b].kind = "blank"
                       /\ \A i \in 2..(b - 1) : s[i].kind = "header"
                       /\ \A i \in (b + 1)..Len(s) : s[i].kind = "body"
BodyIs(s, w) == \A i \in 1..Len(s) : s[i].kind = "body" => s[i].what = w
Shape(r) ==
  IF r.headersSent THEN r.lengthSet /\ Headed(Stream(r)) /\ Stream(r)[1].what = r.status /\ r.status >= 200
  ELSE IF r.status = 0 THEN Stream(r) = <<>>
  ELSE r.status >= 200 /\ Stream(r) = StatusLine(r.status)

\* The codes that fit the request, and an answer with one of them
Fit == ExpectedCodes \cup (IF stalled THEN {408, 400} ELSE {})
Sound(r, codes) == Shape(r) /\ ~r.convert /\ (r.status # 0 => r.status \in codes) /\ (r.ended => r.status # 0)

\* Calls to come, of a handler that does not upgrade the connection
Printing == {"print", "write"}
Answering == {"status", "print", "write"}
Earlier(c, ops, i) == \E j \in 1..(i - 1) : c[j].op \in ops
CallsFit(c, r, codes) ==
  \A i \in 1..Len(c) :
    /\ c[i].op = "status" => c[i].arg \in codes /\ c[i].arg >= 200
    /\ c[i].op \in Printing => r.status # 0 \/ 200 \in codes \/ Earlier(c, {"status"}, i)
    /\ c[i].op = "end" => r.status # 0 \/ Earlier(c, Answering, i)
    /\ c[i].op # "convert"
BodyFits(c, r) == \E w \in BodyNames : /\ \A i \in 1..Len(c) : c[i].op \in Printing => c[i].arg = w
                                      /\ BodyIs(Stream(r), w)

\* The routes, by their method and path
Handles(k, rq) ==
  \/ k = 1 /\ rq.method = "GET" /\ rq.path = "/"
  \/ k = 2 /\ rq.method = "GET" /\ rq.path = "/api"
  \/ k = 3 /\ rq.method = "POST" /\ rq.path = "/api"
  \/ k = 4 /\ rq.method = "OPTIONS" /\ rq.path = "/api"
  \/ k = 5 /\ rq.method = "GET" /\ rq.path = "/websocket" /\ EnableWebsockets
  \/ k = 6 /\ rq.method = "OPTIONS" /\ rq.path = "/websocket" /\ EnableWebsockets
  \/ k = 7 /\ rq.method = "GET" /\ rq.path = "/webserver-status"
  \/ k = 8 /\ rq.method = "GET"

\* One route answers: none before it has matched, and none after it but the last one does.
Busy(c, r) == r.status # 0 \/ \E i \in 1..Len(c) : c[i].op \in Answering
RoutesFit(c, r, k, rq, b, l) ==
  IF Busy(c, r) THEN \A j \in k..7 : ~Handles(j, rq)
  ELSE AllRead(rq, b, l) /\ \A j \in 1..(k - 1) : ~Handles(j, rq)

Normal(c, r, codes, k, rq, b, l) ==
  Sound(r, codes) /\ CallsFit(c, r, codes) /\ BodyFits(c, r) /\ RoutesFit(c, r, k, rq, b, l)

\* A status line, headers and a blank line make a head without a body.
HeadOnly(s, code) ==
  Headed(s) /\ s[1].what = code /\ s[Len(s)].kind = "blank" /\ \A i \in 1..Len(s) : s[i].kind # "body"

\* The calls of an upgrade, from the k-th one on, with n clients
WantedLines == {<<"Connection", "Upgrade">>, <<"Upgrade", "websocket">>, <<"Version", "13">>}
Requested(rq) == \A line \in WantedLines : \E i \in DOMAIN rq.lines : rq.lines[i] = line
Upgrading(k, c, r, codes, rq, n) ==
  /\ c = SubSeq(switch_protocols, k, 9)
  /\ 101 \in codes /\ Requested(rq) /\ n < MaxConnections
  /\ (r.ended <=> k > 8) /\ (r.convert <=> k > 9) /\ r.status = 0
  /\ IF k <= 6 THEN ~r.headersSent /\ Stream(r) = <<>>
     ELSE r.headersSent /\ r.buf = <<>> /\ HeadOnly(r.wire, 101)

NormalNow == Normal(calls, resp, Fit, route, request, buffers, left)
UpgradingNow(k) == Upgrading(k, calls, resp, Fit, request, Len(clients))
HandlingInv ==
  /\ at = "handler" => NormalNow \/ \E k \in 1..10 : UpgradingNow(k)
  /\ at = "dispatch" => NormalNow \/ UpgradingNow(10)

\* What leaves for the peer
Answer(r, codes, rq) ==
  /\ Headed(Stream(r)) /\ \E w \in BodyNames : BodyIs(Stream(r), w)
  /\ Stream(r)[1].what \in codes
  /\ r.convert <=> Stream(r)[1].what = 101
  /\ r.convert => Stream(r)[Len(Stream(r))].kind = "blank" /\ Requested(rq)
AnswerInv ==
  /\ at = "finalize" => /\ Answer(resp, Fit, request) /\ (resp.buf = <<>> \/ Stray(resp) = <<>>)
                        /\ (resp.convert => Len(clients) < MaxConnections)
  /\ at \in {"accept", "clients"} => resp = NewResponse \/ (Answer(resp, Fit, request) /\ resp.buf = <<>>)

\* The inductive invariant of the web server
HttpInv == HttpTypes /\ HttpFlags /\ ReadingInv /\ HandlingInv /\ AnswerInv

\* q has written what stands after s, and is as r otherwise.
Kept(r, q) ==
  /\ q.status = r.status /\ q.headers = r.headers /\ q.headersSent = r.headersSent /\ q.typeSet = r.typeSet
  /\ q.lengthSet = r.lengthSet /\ q.ended = r.ended /\ q.convert = r.convert
Wrote(r, q, s) == q \in Responses /\ Kept(r, q) /\ Len(q.buf) < OutputBufferSize /\ Stream(q) = s

\* The fields of a response
LEMMA ResponseFields ==
  ASSUME NEW r \in Responses
  PROVE  /\ r.status \in Codes \cup {0} /\ r.headers \in Seq(HeaderNames)
         /\ r.headersSent \in BOOLEAN /\ r.typeSet \in BOOLEAN /\ r.lengthSet \in BOOLEAN
         /\ r.ended \in BOOLEAN /\ r.convert \in BOOLEAN
         /\ r.buf \in Seq(OutPieces) /\ r.wire \in Seq(OutPieces) /\ Stream(r) \in Seq(OutPieces)
  BY DEF Responses, Stream

\* r with other output
WithOutput(r, w, b) == [r EXCEPT !.wire = w, !.buf = b]

\* A new buffer and new output alone
LEMMA NewOutput ==
  ASSUME NEW r \in Responses, NEW w \in Seq(OutPieces), NEW b \in Seq(OutPieces)
  PROVE  /\ WithOutput(r, w, b) \in Responses /\ Kept(r, WithOutput(r, w, b))
         /\ WithOutput(r, w, b).wire = w /\ WithOutput(r, w, b).buf = b
  BY DEF Responses, Kept, WithOutput

\* Pieces may be joined in any order of the joints.
LEMMA Joints ==
  ASSUME NEW x \in Seq(OutPieces), NEW y \in Seq(OutPieces), NEW z \in Seq(OutPieces)
  PROVE  (x \o y) \o z = x \o (y \o z)
  <1>1. (x \o y) \o z \in Seq(OutPieces) /\ x \o (y \o z) \in Seq(OutPieces)
    OBVIOUS
  <1>2. Len((x \o y) \o z) = Len(x \o (y \o z))
    OBVIOUS
  <1>3. \A i \in 1..Len((x \o y) \o z) : ((x \o y) \o z)[i] = (x \o (y \o z))[i]
    OBVIOUS
  <1> QED
    BY <1>1, <1>2, <1>3, SeqEqual

\* Where the pieces are when they are joined
LEMMA JoinedPieces ==
  ASSUME NEW x \in Seq(OutPieces), NEW y \in Seq(OutPieces)
  PROVE  /\ x \o y \in Seq(OutPieces) /\ Len(x) \in Nat /\ Len(y) \in Nat /\ Len(x \o y) = Len(x) + Len(y)
         /\ \A i \in 1..Len(x) : (x \o y)[i] = x[i]
         /\ \A i \in (Len(x) + 1)..(Len(x) + Len(y)) : (x \o y)[i] = y[i - Len(x)]
  OBVIOUS

\* A text is its two halves.
LEMMA Halves ==
  ASSUME NEW x \in Seq(OutPieces), NEW m \in 0..Len(x)
  PROVE  SubSeq(x, 1, m) \o SubSeq(x, m + 1, Len(x)) = x
  <1>1. Len(x) \in Nat
    OBVIOUS
  <1>2. 1 \in 1..(Len(x) + 1) /\ m \in (1 - 1)..Len(x) /\ Len(x) \in m..Len(x)
    BY <1>1
  <1>3. SubSeq(x, 1, m) \o SubSeq(x, m + 1, Len(x)) = SubSeq(x, 1, Len(x))
    BY <1>2, ConcatAdjacentSubSeq, Zenon
  <1> QED
    BY <1>3, SubSeqFull, Zenon

\* The length of what is written when the buffer is full
LEMMA WholeBuffers ==
  ASSUME NEW n \in Nat, NEW d \in Nat \ {0}
  PROVE  LET m == (n \div d) * d IN m \in 0..n /\ n - m < d
  OBVIOUS

\* write() hands over what is in the buffer and what is new, in order, and keeps less than a
\* buffer of it.
LEMMA PutEffect ==
  ASSUME NEW r \in Responses, NEW p \in Seq(OutPieces), Stray(r) = <<>>
  PROVE  Wrote(r, Put(r, p), Stream(r) \o p)
  <1> DEFINE all == r.buf \o p
             n == (Len(all) \div OutputBufferSize) * OutputBufferSize
             a == SubSeq(all, 1, n)
             b == SubSeq(all, n + 1, Len(all))
             w == r.wire \o a \o (IF n > 0 THEN Stray(r) ELSE <<>>)
  <1>0. r.buf \in Seq(OutPieces) /\ r.wire \in Seq(OutPieces)
    BY ResponseFields
  <1>1. all \in Seq(OutPieces) /\ Len(all) \in Nat
    BY <1>0
  <1> HIDE DEF all
  <1>2. OutputBufferSize \in Nat \ {0}
    BY WebServerAssumption
  <1>3. n \in 0..Len(all) /\ Len(all) - n < OutputBufferSize
    BY <1>1, <1>2, WholeBuffers
  <1>4. Put(r, p) = WithOutput(r, w, b)
    BY DEF Put, WithOutput, all
  <1> HIDE DEF n
  <1>5. a \in Seq(OutPieces) /\ b \in Seq(OutPieces) /\ Len(b) = Len(all) - n
    BY <1>1, <1>3
  <1>6. a \o b = all
    BY <1>1, <1>3, Halves
  <1> HIDE DEF a, b
  <1>7. w = r.wire \o a
    BY <1>0, <1>5, ConcatEmptySeq DEF w
  <1> HIDE DEF w
  <1>8. w \in Seq(OutPieces) /\ w \o b = Stream(r) \o p
    <2>1. w \o b = r.wire \o all
      BY <1>0, <1>5, <1>6, <1>7, Joints, Zenon
    <2>2. r.wire \o all = Stream(r) \o p
      BY <1>0, Joints, Zenon DEF all, Stream
    <2> QED
      BY <1>0, <1>5, <1>7, <2>1, <2>2, ConcatProperties, Zenon
  <1>9. Put(r, p) \in Responses /\ Kept(r, Put(r, p)) /\ Put(r, p).wire = w /\ Put(r, p).buf = b
    <2>1. /\ WithOutput(r, w, b) \in Responses /\ Kept(r, WithOutput(r, w, b))
          /\ WithOutput(r, w, b).wire = w /\ WithOutput(r, w, b).buf = b
      BY <1>5, <1>8, NewOutput
    <2> QED
      BY <1>4, <2>1
  <1> QED
    BY <1>3, <1>5, <1>8, <1>9 DEF Wrote, Stream

\* flush() hands over what is in the buffer.
LEMMA FlushEffect ==
  ASSUME NEW r \in Responses, Len(r.buf) < OutputBufferSize, r.buf = <<>> \/ Stray(r) = <<>>
  PROVE  Wrote(r, m_flushBuf(r), Stream(r)) /\ m_flushBuf(r).buf = <<>>
  <1>0. r.buf \in Seq(OutPieces) /\ r.wire \in Seq(OutPieces) /\ OutputBufferSize > 0
    BY ResponseFields, WebServerAssumption
  <1>1. CASE r.buf = <<>>
    BY <1>1 DEF m_flushBuf, Wrote, Kept
  <1>2. CASE r.buf # <<>>
    <2> DEFINE w == r.wire \o r.buf
               e == <<>>
               q == WithOutput(r, w, e)
    <2>1. m_flushBuf(r) = q
      <3>1. r.wire \o r.buf \o <<>> = r.wire \o r.buf
        BY <1>0, ConcatEmptySeq
      <3> QED
        BY <1>2, <3>1 DEF m_flushBuf, WithOutput
    <2>2. w \in Seq(OutPieces) /\ e \in Seq(OutPieces) /\ w = Stream(r) /\ w \o e = w /\ Len(e) = 0 /\ e = <<>>
      BY <1>0, ConcatEmptySeq DEF Stream
    <2> HIDE DEF w, e
    <2>3. q \in Responses /\ Kept(r, q) /\ q.wire = w /\ q.buf = e
      <3>1. w \in Seq(OutPieces) /\ e \in Seq(OutPieces)
        BY <2>2
      <3> QED
        BY <3>1, NewOutput
    <2> HIDE DEF q
    <2> QED
      BY <1>0, <2>1, <2>2, <2>3 DEF Wrote, Stream
  <1> QED
    BY <1>1, <1>2

\* q has other headers than r, set or to come, and another status.
Decorated(r, q) ==
  /\ q \in Responses /\ Len(q.headers) <= MaxHeaders
  /\ q.headersSent = r.headersSent /\ q.ended = r.ended /\ q.convert = r.convert
  /\ q.buf = r.buf /\ q.wire = r.wire /\ (r.lengthSet => q.lengthSet)

\* set() keeps to the limit of headers.
LEMMA SetEffect ==
  ASSUME NEW r \in Responses, Len(r.headers) <= MaxHeaders, NEW name \in HeaderNames
  PROVE  Decorated(r, WithHeader(r, name)) /\ WithHeader(r, name).status = r.status
  <1>0. MaxHeaders \in Nat /\ r.headers \in Seq(HeaderNames) /\ Len(r.headers) \in Nat
    BY WebServerAssumption, ResponseFields
  <1>1. CASE Len(r.headers) >= MaxHeaders
    <2>1. WithHeader(r, name) = r
      BY <1>1 DEF WithHeader
    <2> QED
      BY <2>1 DEF Decorated
  <1>2. CASE ~(Len(r.headers) >= MaxHeaders)
    <2> DEFINE h == Append(r.headers, name)
               t == r.typeSet \/ name = "Content-Type"
               l == r.lengthSet \/ name = "Content-Length"
               q == [r EXCEPT !.headers = h, !.typeSet = t, !.lengthSet = l]
    <2>1. WithHeader(r, name) = q
      BY <1>2 DEF WithHeader
    <2>2. h \in Seq(HeaderNames) /\ Len(h) = Len(r.headers) + 1
      BY <1>0
    <2>3. t \in BOOLEAN /\ l \in BOOLEAN /\ (r.lengthSet => l)
      BY Zenon
    <2> HIDE DEF h, t, l
    <2>4. /\ q \in Responses /\ q.headers = h /\ q.lengthSet = l /\ q.headersSent = r.headersSent
          /\ q.ended = r.ended /\ q.convert = r.convert /\ q.buf = r.buf /\ q.wire = r.wire /\ q.status = r.status
      BY <2>2, <2>3 DEF Responses
    <2> HIDE DEF q
    <2>5. Len(q.headers) <= MaxHeaders
      BY <1>0, <1>2, <2>2, <2>4
    <2> QED
      BY <2>1, <2>3, <2>4, <2>5 DEF Decorated
  <1> QED
    BY <1>1, <1>2

\* One decoration after another
LEMMA DecoratedTwice ==
  ASSUME NEW r, NEW q, NEW z, Decorated(r, q), Decorated(q, z)
  PROVE  Decorated(r, z)
  BY DEF Decorated

WithLength(r) == [r EXCEPT !.lengthSet = TRUE]

\* m_printHeaders() always says how long the body is.
LEMMA DefaultsEffect ==
  ASSUME NEW r \in Responses, Len(r.headers) <= MaxHeaders
  PROVE  Decorated(r, setDefaults(r)) /\ setDefaults(r).lengthSet /\ setDefaults(r).status = r.status
  <1> DEFINE q == IF r.typeSet THEN r ELSE WithHeader(r, "Content-Type")
             z == WithLength(q)
  <1>1. Decorated(r, q) /\ q.status = r.status
    <2>1. Decorated(r, r)
      BY DEF Decorated
    <2>2. "Content-Type" \in HeaderNames
      BY DEF HeaderNames
    <2> QED
      BY <2>1, <2>2, SetEffect
  <1>2. setDefaults(r) = WithHeader(z, "Connection")
    BY DEF setDefaults, WithLength
  <1> HIDE DEF q
  <1>3. q \in Responses /\ Len(q.headers) <= MaxHeaders
    BY <1>1 DEF Decorated
  <1>4. /\ z \in Responses /\ z.lengthSet = TRUE /\ z.headers = q.headers /\ z.status = q.status
        /\ z.headersSent = q.headersSent /\ z.ended = q.ended /\ z.convert = q.convert
        /\ z.buf = q.buf /\ z.wire = q.wire
    BY <1>3 DEF WithLength, Responses
  <1> HIDE DEF z
  <1>5. Decorated(q, z)
    BY <1>3, <1>4 DEF Decorated
  <1>6. Decorated(z, WithHeader(z, "Connection")) /\ WithHeader(z, "Connection").status = z.status
    <2>1. "Connection" \in HeaderNames
      BY DEF HeaderNames
    <2> QED
      BY <1>3, <1>4, <2>1, SetEffect
  <1>7. WithHeader(z, "Connection").lengthSet
    BY <1>4, <1>6 DEF Decorated
  <1>8. Decorated(r, WithHeader(z, "Connection"))
    BY <1>1, <1>5, <1>6, DecoratedTwice
  <1> QED
    BY <1>1, <1>2, <1>4, <1>6, <1>7, <1>8

HeaderPieces(r) == [i \in DOMAIN r.headers |-> Piece("header", r.headers[i])]
WithStatus(r, code) == [r EXCEPT !.status = code]
WithSent(r) == [r EXCEPT !.headersSent = TRUE]

\* A status alone
LEMMA StatusUpdate ==
  ASSUME NEW r \in Responses, NEW code \in Codes \cup {0}
  PROVE  /\ WithStatus(r, code) \in Responses /\ WithStatus(r, code).status = code
         /\ WithStatus(r, code).headers = r.headers /\ WithStatus(r, code).headersSent = r.headersSent
         /\ WithStatus(r, code).typeSet = r.typeSet /\ WithStatus(r, code).lengthSet = r.lengthSet
         /\ WithStatus(r, code).ended = r.ended /\ WithStatus(r, code).convert = r.convert
         /\ WithStatus(r, code).buf = r.buf /\ WithStatus(r, code).wire = r.wire
  BY DEF Responses, WithStatus

\* The end of the headers
LEMMA SentUpdate ==
  ASSUME NEW r \in Responses
  PROVE  /\ WithSent(r) \in Responses /\ WithSent(r).headersSent = TRUE /\ WithSent(r).status = r.status
         /\ WithSent(r).headers = r.headers /\ WithSent(r).lengthSet = r.lengthSet
         /\ WithSent(r).ended = r.ended /\ WithSent(r).convert = r.convert
         /\ WithSent(r).buf = r.buf /\ WithSent(r).wire = r.wire
  BY DEF Responses, WithSent

\* The headers as pieces
LEMMA HeaderPiecesTypes ==
  ASSUME NEW r \in Responses
  PROVE  /\ HeaderPieces(r) \in Seq(OutPieces)
         /\ \A i \in 1..Len(HeaderPieces(r)) : HeaderPieces(r)[i].kind = "header"
  <1>1. r.headers \in Seq(HeaderNames)
    BY ResponseFields
  <1>2. DOMAIN r.headers = 1..Len(r.headers) /\ Len(r.headers) \in Nat
    BY <1>1
  <1>3. \A i \in 1..Len(r.headers) : Piece("header", r.headers[i]) \in OutPieces
    <2>1. \A i \in 1..Len(r.headers) : r.headers[i] \in HeaderNames
      BY <1>1, ElementOfSeq
    <2>2. \A x \in HeaderNames : Piece("header", x) \in OutPieces
      BY DEF Piece, OutPieces, Details
    <2> QED
      BY <2>1, <2>2
  <1>4. HeaderPieces(r) \in Seq(OutPieces) /\ Len(HeaderPieces(r)) = Len(r.headers)
    BY <1>2, <1>3 DEF HeaderPieces
  <1>5. \A i \in 1..Len(r.headers) : HeaderPieces(r)[i] = Piece("header", r.headers[i])
    BY <1>2 DEF HeaderPieces
  <1>6. \A x : Piece("header", x).kind = "header"
    BY DEF Piece
  <1> QED
    BY <1>4, <1>5, <1>6, Zenon

\* A status line, headers and a blank line make a head without a body.
LEMMA HeadOf ==
  ASSUME NEW code \in Codes, NEW h \in Seq(OutPieces), \A i \in 1..Len(h) : h[i].kind = "header"
  PROVE  /\ HeadOnly((StatusLine(code) \o h) \o <<Piece("blank", 0)>>, code)
         /\ (StatusLine(code) \o h) \o <<Piece("blank", 0)>> \in Seq(OutPieces)
  <1> DEFINE s1 == StatusLine(code)
             s2 == <<Piece("blank", 0)>>
             s == (s1 \o h) \o s2
  <1>1. s1 \in Seq(OutPieces) /\ Len(s1) = 1 /\ s1[1].kind = "status" /\ s1[1].what = code
    BY DEF StatusLine, Piece, OutPieces, Details
  <1>2. s2 \in Seq(OutPieces) /\ Len(s2) = 1 /\ s2[1].kind = "blank"
    BY DEF Piece, OutPieces, Details
  <1> HIDE DEF s1, s2
  <1>3. Len(h) \in Nat
    OBVIOUS
  <1>4. /\ s \in Seq(OutPieces) /\ Len(s) = Len(h) + 2 /\ s[1] = s1[1] /\ s[Len(h) + 2] = s2[1]
        /\ \A i \in 2..(Len(h) + 1) : s[i] = h[i - 1]
    <2> DEFINE t == s1 \o h
    <2>1. t \in Seq(OutPieces) /\ Len(t) = Len(h) + 1 /\ t[1] = s1[1] /\ \A i \in 2..(Len(h) + 1) : t[i] = h[i - 1]
      <3>1. /\ s1 \o h \in Seq(OutPieces) /\ Len(s1 \o h) = Len(s1) + Len(h)
            /\ \A i \in 1..Len(s1) : (s1 \o h)[i] = s1[i]
            /\ \A i \in (Len(s1) + 1)..(Len(s1) + Len(h)) : (s1 \o h)[i] = h[i - Len(s1)]
        BY <1>1, JoinedPieces
      <3> HIDE DEF t
      <3>2. 1 \in 1..Len(s1) /\ (Len(s1) + 1)..(Len(s1) + Len(h)) = 2..(Len(h) + 1) /\ Len(s1) + Len(h) = Len(h) + 1
        BY <1>1, <1>3
      <3> QED
        BY <1>1, <3>1, <3>2 DEF t
    <2> HIDE DEF t
    <2>2. /\ t \o s2 \in Seq(OutPieces) /\ Len(t \o s2) = Len(h) + 2 /\ (t \o s2)[Len(h) + 2] = s2[1]
          /\ \A i \in 1..(Len(h) + 1) : (t \o s2)[i] = t[i]
      <3>1. /\ t \o s2 \in Seq(OutPieces) /\ Len(t \o s2) = Len(t) + Len(s2)
            /\ \A i \in 1..Len(t) : (t \o s2)[i] = t[i]
            /\ \A i \in (Len(t) + 1)..(Len(t) + Len(s2)) : (t \o s2)[i] = s2[i - Len(t)]
        BY <1>2, <2>1, JoinedPieces
      <3>2. /\ Len(h) + 2 \in (Len(t) + 1)..(Len(t) + Len(s2)) /\ (Len(h) + 2) - Len(t) = 1
            /\ Len(t) + Len(s2) = Len(h) + 2
        BY <1>2, <1>3, <2>1
      <3> QED
        BY <2>1, <3>1, <3>2
    <2>3. s = t \o s2
      BY DEF t
    <2>4. 1 \in 1..(Len(h) + 1) /\ \A i \in 2..(Len(h) + 1) : i \in 1..(Len(h) + 1)
      BY <1>3
    <2> HIDE DEF s
    <2> QED
      BY <2>1, <2>2, <2>3, <2>4
  <1> HIDE DEF s
  <1>5. \A i \in 2..(Len(h) + 1) : s[i].kind = "header"
    <2>1. \A i \in 2..(Len(h) + 1) : i - 1 \in 1..Len(h)
      BY <1>3
    <2> QED
      BY <1>4, <2>1
  <1>6. Len(h) + 2 \in 2..Len(s) /\ (Len(h) + 2) - 1 = Len(h) + 1
    BY <1>3, <1>4
  <1>7. \A i \in 1..Len(s) : i = 1 \/ i = Len(h) + 2 \/ i \in 2..(Len(h) + 1)
    BY <1>3, <1>4
  <1>8. \A i \in (Len(h) + 3)..Len(s) : FALSE
    BY <1>3, <1>4
  <1>9. Headed(s)
    BY <1>1, <1>2, <1>3, <1>4, <1>5, <1>6, <1>8 DEF Headed
  <1> QED
    BY <1>1, <1>2, <1>4, <1>5, <1>7, <1>9 DEF HeadOnly, s, s1, s2

\* q has sent the headers of r.
SentHeaders(r, q) ==
  /\ q \in Responses /\ q.headers = r.headers /\ q.headersSent = TRUE /\ q.lengthSet = r.lengthSet
  /\ q.ended = r.ended /\ q.convert = r.convert /\ q.buf = <<>>
  /\ q.status = (IF r.status = 0 THEN 200 ELSE r.status)
  /\ HeadOnly(q.wire, q.status)

\* beginHeaders() and endHeaders(): the head goes out complete.
LEMMA HeadersEffect ==
  ASSUME NEW r \in Responses, ~r.headersSent,
         IF r.status = 0 THEN Stream(r) = <<>> ELSE Stream(r) = StatusLine(r.status)
  PROVE  SentHeaders(r, endHeaders(beginHeaders(r)))
  <1> DEFINE code == IF r.status = 0 THEN 200 ELSE r.status
             r1 == WithStatus(r, code)
             h == HeaderPieces(r)
             p == (IF r.status = 0 THEN StatusLine(200) ELSE <<>>) \o h
             blank == <<Piece("blank", 0)>>
  <1>0. r.status \in Codes \cup {0} /\ Stream(r) \in Seq(OutPieces)
    BY ResponseFields
  <1>1. code \in Codes
    BY <1>0 DEF Codes
  <1>2. h \in Seq(OutPieces) /\ \A i \in 1..Len(h) : h[i].kind = "header"
    BY HeaderPiecesTypes
  <1>3. /\ r1 \in Responses /\ r1.status = code /\ r1.headers = r.headers /\ r1.headersSent = r.headersSent
        /\ r1.lengthSet = r.lengthSet /\ r1.ended = r.ended /\ r1.convert = r.convert
        /\ r1.buf = r.buf /\ r1.wire = r.wire
    BY <1>1, StatusUpdate
  <1>4. beginHeaders(r) = Put(r1, p)
    BY DEF beginHeaders, WithStatus, HeaderPieces
  <1>5. \A c \in Codes : StatusLine(c) \in Seq(OutPieces)
    BY DEF StatusLine, Piece, OutPieces, Details
  <1>6. p \in Seq(OutPieces) /\ Stream(r1) \o p = StatusLine(code) \o h
    <2>1. CASE r.status = 0
      <3>1. p = StatusLine(code) \o h /\ Stream(r1) = <<>>
        BY <1>3, <2>1 DEF Stream
      <3>2. StatusLine(code) \o h \in Seq(OutPieces)
        BY <1>1, <1>2, <1>5
      <3> QED
        BY <3>1, <3>2, ConcatEmptySeq, ZenonT(40)
    <2>2. CASE r.status # 0
      <3>1. p = <<>> \o h /\ Stream(r1) = StatusLine(code)
        BY <1>3, <2>2, ZenonT(40) DEF Stream
      <3>2. <<>> \o h = h
        BY <1>2, ConcatEmptySeq
      <3> QED
        BY <1>2, <3>1, <3>2, ZenonT(40)
    <2> QED
      BY <2>1, <2>2
  <1> HIDE DEF r1, p, h
  <1> DEFINE q1 == Put(r1, p)
             q2 == Put(q1, blank)
             q3 == m_flushBuf(q2)
             q == WithSent(q3)
  <1>7. q = endHeaders(beginHeaders(r))
    BY <1>4 DEF endHeaders, WithSent
  <1>8. Wrote(r1, q1, StatusLine(code) \o h)
    <2>1. Stray(r1) = <<>>
      BY <1>3 DEF Stray
    <2> QED
      BY <1>3, <1>6, <2>1, PutEffect
  <1> HIDE DEF q1
  <1>9. blank \in Seq(OutPieces)
    BY DEF Piece, OutPieces, Details
  <1>10. Wrote(q1, q2, (StatusLine(code) \o h) \o blank)
    <2>1. Stray(q1) = <<>> /\ q1 \in Responses /\ Stream(q1) = StatusLine(code) \o h
      BY <1>3, <1>8 DEF Stray, Wrote, Kept
    <2> HIDE DEF blank
    <2>2. Wrote(q1, Put(q1, blank), Stream(q1) \o blank)
      BY <1>9, <2>1, PutEffect
    <2> QED
      BY <2>1, <2>2
  <1> HIDE DEF q2
  <1>11. Wrote(q2, q3, (StatusLine(code) \o h) \o blank) /\ q3.buf = <<>>
    <2>1. /\ Stray(q2) = <<>> /\ q2 \in Responses /\ Len(q2.buf) < OutputBufferSize
          /\ Stream(q2) = (StatusLine(code) \o h) \o blank
      BY <1>3, <1>8, <1>10 DEF Stray, Wrote, Kept
    <2>2. Wrote(q2, m_flushBuf(q2), Stream(q2)) /\ m_flushBuf(q2).buf = <<>>
      BY <2>1, FlushEffect
    <2> QED
      BY <2>1, <2>2
  <1> HIDE DEF q3
  <1>12. /\ q \in Responses /\ q.headersSent = TRUE /\ q.status = q3.status /\ q.headers = q3.headers
         /\ q.lengthSet = q3.lengthSet /\ q.ended = q3.ended /\ q.convert = q3.convert
         /\ q.buf = q3.buf /\ q.wire = q3.wire
    BY <1>11, SentUpdate DEF Wrote
  <1> HIDE DEF q
  <1>13. q.wire = (StatusLine(code) \o h) \o blank
    <2>1. q3.wire \in Seq(OutPieces) /\ Stream(q3) = (StatusLine(code) \o h) \o blank /\ q3.buf = <<>>
      BY <1>11, ResponseFields DEF Wrote
    <2>2. Stream(q3) = q3.wire
      BY <2>1, ConcatEmptySeq DEF Stream
    <2> QED
      BY <1>12, <2>1, <2>2
  <1>14. HeadOnly(q.wire, code)
    BY <1>1, <1>2, <1>13, HeadOf
  <1>15. /\ q.status = code /\ q.headers = r.headers /\ q.lengthSet = r.lengthSet /\ q.ended = r.ended
         /\ q.convert = r.convert /\ q.buf = <<>>
    BY <1>3, <1>8, <1>10, <1>11, <1>12 DEF Wrote, Kept
  <1> QED
    BY <1>7, <1>12, <1>14, <1>15 DEF SentHeaders

\* The responses that keep to the limits of headers and buffer
Limited(r) == r \in Responses /\ Len(r.headers) <= MaxHeaders /\ Len(r.buf) < OutputBufferSize

NextStatus(r) == IF r.status = 0 THEN 200 ELSE r.status

\* q is r when its headers have gone out.
ReadyFor(r, q) ==
  /\ Limited(q) /\ Shape(q) /\ q.headersSent
  /\ q.status = NextStatus(r) /\ q.ended = r.ended /\ q.convert = r.convert
  /\ \A w : BodyIs(Stream(r), w) => BodyIs(Stream(q), w)

\* m_printHeaders() begins an answer or ends its head.
LEMMA PrintHeadersEffect ==
  ASSUME NEW r, Limited(r), Shape(r), ~r.headersSent
  PROVE  ReadyFor(r, m_printHeaders(r)) /\ m_printHeaders(r).buf = <<>>
  <1> DEFINE d == setDefaults(r)
             q == endHeaders(beginHeaders(d))
  <1>0. r \in Responses /\ Len(r.headers) <= MaxHeaders /\ r.status \in Codes \cup {0}
    BY ResponseFields DEF Limited
  <1>1. Decorated(r, d) /\ d.lengthSet /\ d.status = r.status
    BY <1>0, DefaultsEffect
  <1> HIDE DEF d
  <1>2. d \in Responses /\ d.headersSent = r.headersSent /\ Stream(d) = Stream(r) /\ Len(d.headers) <= MaxHeaders
        /\ d.ended = r.ended /\ d.convert = r.convert
    BY <1>1 DEF Decorated, Stream
  <1>3. IF r.status = 0 THEN Stream(r) = <<>> ELSE Stream(r) = StatusLine(r.status)
    BY DEF Shape
  <1>4. SentHeaders(d, q)
    BY <1>1, <1>2, <1>3, HeadersEffect
  <1>5. q = m_printHeaders(r)
    BY DEF m_printHeaders, d
  <1> HIDE DEF q
  <1>6. q \in Responses /\ q.wire \in Seq(OutPieces) /\ q.buf = <<>> /\ Stream(q) = q.wire
    <2>1. q \in Responses /\ q.buf = <<>>
      BY <1>4 DEF SentHeaders
    <2>2. q.wire \in Seq(OutPieces)
      BY <2>1, ResponseFields
    <2> QED
      BY <2>1, <2>2, ConcatEmptySeq DEF Stream
  <1>7. Limited(q)
    <2>1. Len(q.buf) = 0 /\ OutputBufferSize \in Nat \ {0} /\ q.headers = d.headers
      BY <1>4, <1>6, WebServerAssumption DEF SentHeaders
    <2> QED
      BY <1>2, <1>6, <2>1 DEF Limited
  <1>8. q.status = NextStatus(r) /\ q.ended = r.ended /\ q.convert = r.convert /\ q.headersSent /\ q.lengthSet
    BY <1>1, <1>2, <1>4 DEF SentHeaders, NextStatus
  <1>9. q.status >= 200
    BY <1>0, <1>8 DEF NextStatus, Shape, Codes
  <1>10. Headed(Stream(q)) /\ Stream(q)[1].what = q.status
    BY <1>4, <1>6 DEF SentHeaders, HeadOnly
  <1>11. Shape(q)
    BY <1>8, <1>9, <1>10 DEF Shape
  <1>12. \A w : BodyIs(Stream(q), w)
    BY <1>4, <1>6 DEF SentHeaders, HeadOnly, BodyIs
  <1> QED
    BY <1>5, <1>6, <1>7, <1>8, <1>11, <1>12 DEF ReadyFor

Ready(r) == IF r.headersSent THEN r ELSE m_printHeaders(r)

\* Before the first byte of a body the headers have gone out.
LEMMA ReadyEffect ==
  ASSUME NEW r, Limited(r), Shape(r)
  PROVE  ReadyFor(r, Ready(r)) /\ Ready(r).lengthSet
  <1>1. CASE r.headersSent
    <2>1. Ready(r) = r
      BY <1>1 DEF Ready
    <2>2. r.status # 0
      BY <1>1 DEF Shape
    <2> QED
      BY <1>1, <2>1, <2>2 DEF ReadyFor, NextStatus, Shape
  <1>2. CASE ~r.headersSent
    <2>1. Ready(r) = m_printHeaders(r)
      BY <1>2 DEF Ready
    <2>2. ReadyFor(r, m_printHeaders(r))
      BY <1>2, PrintHeadersEffect
    <2> QED
      BY <2>1, <2>2 DEF ReadyFor, Shape
  <1> QED
    BY <1>1, <1>2

\* A piece of a body stays behind the head.
LEMMA BodyAfterHead ==
  ASSUME NEW s \in Seq(OutPieces), Headed(s), NEW w \in BodyNames
  PROVE  /\ <<Body(w)>> \in Seq(OutPieces)
         /\ Headed(s \o <<Body(w)>>) /\ (s \o <<Body(w)>>)[1] = s[1]
         /\ BodyIs(s, w) => BodyIs(s \o <<Body(w)>>, w)
  <1> DEFINE p == <<Body(w)>>
             t == s \o p
  <1>1. p \in Seq(OutPieces) /\ Len(p) = 1 /\ p[1].kind = "body" /\ p[1].what = w
    BY DEF Body, Piece, OutPieces, Details
  <1> HIDE DEF p
  <1>2. /\ t \in Seq(OutPieces) /\ Len(s) \in Nat /\ Len(t) = Len(s) + Len(p)
        /\ \A i \in 1..Len(s) : t[i] = s[i]
        /\ \A i \in (Len(s) + 1)..(Len(s) + Len(p)) : t[i] = p[i - Len(s)]
    BY <1>1, JoinedPieces
  <1>3. Len(t) = Len(s) + 1 /\ t[Len(s) + 1] = p[1]
    <2>1. Len(s) + 1 \in (Len(s) + 1)..(Len(s) + Len(p)) /\ (Len(s) + 1) - Len(s) = 1
      BY <1>1, <1>2
    <2> QED
      BY <1>1, <1>2, <2>1
  <1> HIDE DEF t
  <1>4. PICK b \in 2..Len(s) : /\ s[1].kind = "status" /\ s[b].kind = "blank"
                               /\ \A i \in 2..(b - 1) : s[i].kind = "header"
                               /\ \A i \in (b + 1)..Len(s) : s[i].kind = "body"
    BY DEF Headed
  <1>5. 1 \in 1..Len(s) /\ b \in 1..Len(s) /\ b \in 2..Len(t) /\ \A i \in 2..(b - 1) : i \in 1..Len(s)
    BY <1>2, <1>3
  <1>6. \A i \in (b + 1)..Len(t) : (i \in (b + 1)..Len(s) /\ i \in 1..Len(s)) \/ i = Len(s) + 1
    BY <1>2, <1>3
  <1>7. \A i \in (b + 1)..Len(t) : t[i].kind = "body"
    BY <1>1, <1>2, <1>3, <1>4, <1>6
  <1>8. Headed(t)
    BY <1>2, <1>4, <1>5, <1>7, SMTT(40) DEF Headed
  <1>9. \A i \in 1..Len(t) : i \in 1..Len(s) \/ i = Len(s) + 1
    BY <1>2, <1>3
  <1>10. BodyIs(s, w) => BodyIs(t, w)
    BY <1>1, <1>2, <1>3, <1>9 DEF BodyIs
  <1> QED
    BY <1>1, <1>2, <1>5, <1>8, <1>10 DEF p, t

\* q is r with a piece of body more.
Said(r, q, w) ==
  /\ Limited(q) /\ Shape(q) /\ q.headersSent
  /\ q.status = NextStatus(r) /\ q.ended = r.ended /\ q.convert = r.convert
  /\ BodyIs(Stream(r), w) => BodyIs(Stream(q), w)

\* What is added to an answer whose headers are out
LEMMA SaidMore ==
  ASSUME NEW r, NEW z, ReadyFor(r, z), z.lengthSet, NEW q, NEW w \in BodyNames, Len(q.headers) <= MaxHeaders,
         Wrote(z, q, Stream(z) \o <<Body(w)>>)
  PROVE  Said(r, q, w)
  <1>1. /\ q \in Responses /\ q.headersSent = z.headersSent /\ q.lengthSet = z.lengthSet /\ q.status = z.status
        /\ q.ended = z.ended /\ q.convert = z.convert /\ Len(q.buf) < OutputBufferSize
        /\ Stream(q) = Stream(z) \o <<Body(w)>>
    BY DEF Wrote, Kept
  <1>2. z \in Responses /\ Shape(z) /\ z.headersSent /\ (BodyIs(Stream(r), w) => BodyIs(Stream(z), w))
        /\ z.status = NextStatus(r) /\ z.ended = r.ended /\ z.convert = r.convert
    BY DEF ReadyFor, Limited
  <1>3. Headed(Stream(z)) /\ Stream(z)[1].what = z.status /\ z.status >= 200
    BY <1>2 DEF Shape
  <1>4. Stream(z) \in Seq(OutPieces)
    BY <1>2, ResponseFields
  <1>5. /\ Headed(Stream(q)) /\ Stream(q)[1] = Stream(z)[1]
        /\ (BodyIs(Stream(z), w) => BodyIs(Stream(q), w))
    <2> DEFINE s == Stream(z)
    <2>1. s \in Seq(OutPieces) /\ Headed(s)
      BY <1>3, <1>4
    <2>2. Stream(q) = s \o <<Body(w)>>
      BY <1>1
    <2> HIDE DEF s
    <2>3. /\ Headed(s \o <<Body(w)>>) /\ (s \o <<Body(w)>>)[1] = s[1]
          /\ (BodyIs(s, w) => BodyIs(s \o <<Body(w)>>, w))
      BY <2>1, BodyAfterHead
    <2>4. Headed(Stream(q)) /\ Stream(q)[1] = s[1] /\ (BodyIs(s, w) => BodyIs(Stream(q), w))
      BY <2>2, <2>3, Zenon
    <2> QED
      BY <2>4 DEF s
  <1>6. Shape(q)
    BY <1>1, <1>2, <1>3, <1>5 DEF Shape
  <1> QED
    BY <1>1, <1>2, <1>5, <1>6 DEF Said, Limited

\* print()
LEMMA PrintEffect ==
  ASSUME NEW r, Limited(r), Shape(r), NEW w \in BodyNames
  PROVE  Said(r, Put(Ready(r), <<Body(w)>>), w)
  <1> DEFINE z == Ready(r)
             p == <<Body(w)>>
             q == Put(z, p)
  <1>1. ReadyFor(r, z) /\ z.lengthSet
    BY ReadyEffect
  <1> HIDE DEF z
  <1>2. z \in Responses /\ Len(z.headers) <= MaxHeaders /\ Stray(z) = <<>>
    BY <1>1 DEF ReadyFor, Limited, Stray
  <1>3. p \in Seq(OutPieces)
    BY DEF Body, Piece, OutPieces, Details
  <1> HIDE DEF p
  <1>4. Wrote(z, q, Stream(z) \o p)
    BY <1>2, <1>3, PutEffect
  <1> HIDE DEF q
  <1>5. Len(q.headers) <= MaxHeaders
    BY <1>2, <1>4 DEF Wrote, Kept
  <1>6. Said(r, q, w)
    BY <1>1, <1>4, <1>5, SaidMore DEF p
  <1> QED
    BY <1>6 DEF q, z, p

Overwrite(r, pieces) == [r EXCEPT !.wire = pieces]

\* write() of a block
LEMMA WriteEffect ==
  ASSUME NEW r, Limited(r), Shape(r), NEW w \in BodyNames, NEW q,
         q = [m_flushBuf(Ready(r)) EXCEPT !.wire = @ \o <<Body(w)>> \o Stray(m_flushBuf(Ready(r)))]
  PROVE  Said(r, q, w)
  <1> DEFINE z == Ready(r)
             f == m_flushBuf(z)
             p == <<Body(w)>>
  <1>1. ReadyFor(r, z) /\ z.lengthSet
    BY ReadyEffect
  <1>a. q = Overwrite(f, f.wire \o p \o Stray(f))
    BY DEF Overwrite
  <1> HIDE DEF z
  <1>2. z \in Responses /\ Len(z.headers) <= MaxHeaders /\ Stray(z) = <<>> /\ Len(z.buf) < OutputBufferSize
    BY <1>1 DEF ReadyFor, Limited, Stray
  <1>3. p \in Seq(OutPieces)
    BY DEF Body, Piece, OutPieces, Details
  <1> HIDE DEF p
  <1>4. Wrote(z, f, Stream(z)) /\ f.buf = <<>>
    BY <1>2, FlushEffect
  <1> HIDE DEF f
  <1>5. f \in Responses /\ Kept(z, f) /\ Stray(f) = <<>>
    BY <1>1, <1>4 DEF Wrote, Kept, Stray
  <1>6. f.wire \in Seq(OutPieces) /\ f.wire = Stream(z)
    <2>1. f.wire \in Seq(OutPieces)
      BY <1>5, ResponseFields
    <2> QED
      BY <1>4, <2>1, ConcatEmptySeq DEF Wrote, Stream
  <1> DEFINE out2 == f.wire \o p
  <1>7. out2 \in Seq(OutPieces) /\ f.wire \o p \o Stray(f) = out2
    BY <1>3, <1>5, <1>6, ConcatEmptySeq
  <1>b. out2 = Stream(z) \o p
    BY <1>6
  <1> HIDE DEF out2
  <1>8. /\ Overwrite(f, out2) \in Responses /\ Kept(f, Overwrite(f, out2))
        /\ Overwrite(f, out2).wire = out2 /\ Overwrite(f, out2).buf = f.buf
    BY <1>5, <1>7 DEF Overwrite, Responses, Kept
  <1>9. q \in Responses /\ Kept(f, q) /\ q.wire = out2 /\ q.buf = <<>>
    BY <1>a, <1>4, <1>7, <1>8
  <1>10. Stream(q) = out2
    BY <1>7, <1>9, ConcatEmptySeq DEF Stream
  <1>11. Len(q.buf) < OutputBufferSize
    BY <1>9, WebServerAssumption
  <1>12. Wrote(z, q, Stream(z) \o p) /\ Len(q.headers) <= MaxHeaders
    BY <1>2, <1>5, <1>9, <1>10, <1>11, <1>b DEF Wrote, Kept
  <1> QED
    BY <1>1, <1>12, SaidMore DEF p

\* q is r after call x.
StatusAfter(r, x) ==
  IF r.status # 0 THEN r.status ELSE IF x.op = "status" THEN x.arg ELSE IF x.op \in Printing THEN 200 ELSE 0
Advance(r, q, x) ==
  /\ Limited(q) /\ Shape(q) /\ q.convert = r.convert /\ (q.ended <=> r.ended \/ x.op = "end")
  /\ q.status = StatusAfter(r, x)
  /\ \A w : BodyIs(Stream(r), w) /\ (x.op \in Printing => x.arg = w) => BodyIs(Stream(q), w)

\* status(): the first one counts.
LEMMA StatusAdvance ==
  ASSUME NEW r, Limited(r), Shape(r), NEW x, x.op = "status", x.arg \in Codes, x.arg >= 200, NEW q,
         q = IF r.status # 0 THEN r ELSE WithStatus(Put(r, StatusLine(x.arg)), x.arg)
  PROVE  Advance(r, q, x)
  <1>1. CASE r.status # 0
    BY <1>1 DEF Advance, StatusAfter, Printing
  <1>2. CASE r.status = 0
    <2> DEFINE p == StatusLine(x.arg)
               z == Put(r, p)
    <2>1. ~r.headersSent /\ Stream(r) = <<>> /\ r \in Responses /\ Len(r.headers) <= MaxHeaders
      BY <1>2 DEF Shape, Limited
    <2>2. p \in Seq(OutPieces) /\ \A w : BodyIs(p, w)
      BY DEF StatusLine, Piece, OutPieces, Details, BodyIs
    <2>3. Stream(r) \o p = p
      BY <2>1, <2>2, ConcatEmptySeq
    <2>4. Stray(r) = <<>>
      BY <2>1 DEF Stray
    <2>5. q = WithStatus(z, x.arg)
      BY <1>2
    <2> HIDE DEF p
    <2>6. Wrote(r, z, p)
      BY <2>1, <2>2, <2>3, <2>4, PutEffect
    <2> HIDE DEF z
    <2>7. /\ z \in Responses /\ z.headersSent = r.headersSent /\ z.ended = r.ended /\ z.convert = r.convert
          /\ z.headers = r.headers /\ Len(z.buf) < OutputBufferSize /\ Stream(z) = p
      BY <2>6 DEF Wrote, Kept
    <2>8. /\ q \in Responses /\ q.status = x.arg /\ q.headers = r.headers /\ q.headersSent = r.headersSent
          /\ q.ended = r.ended /\ q.convert = r.convert /\ q.buf = z.buf /\ q.wire = z.wire
      BY <2>5, <2>7, StatusUpdate
    <2>9. Stream(q) = p /\ q.status # 0
      <3>1. Stream(q) = p
        BY <2>7, <2>8 DEF Stream
      <3>2. x.arg # 0
        BY DEF Codes
      <3> QED
        BY <2>8, <3>1, <3>2
    <2>10. Shape(q)
      BY <2>1, <2>8, <2>9 DEF Shape, p
    <2>11. Limited(q)
      BY <2>1, <2>7, <2>8 DEF Limited
    <2>12. q.status = StatusAfter(r, x) /\ x.op # "end"
      BY <1>2, <2>8 DEF StatusAfter
    <2> QED
      BY <2>2, <2>8, <2>9, <2>10, <2>11, <2>12 DEF Advance
  <1> QED
    BY <1>1, <1>2

\* set()
LEMMA SetAdvance ==
  ASSUME NEW r, Limited(r), Shape(r), NEW x, x.op = "set", x.arg \in HeaderNames, NEW q, q = WithHeader(r, x.arg)
  PROVE  Advance(r, q, x)
  <1>1. r \in Responses /\ Len(r.headers) <= MaxHeaders /\ Len(r.buf) < OutputBufferSize
    BY DEF Limited
  <1>2. Decorated(r, q) /\ q.status = r.status
    BY <1>1, SetEffect
  <1>3. /\ Stream(q) = Stream(r) /\ Limited(q) /\ q.ended = r.ended /\ q.convert = r.convert
        /\ q.headersSent = r.headersSent /\ (r.lengthSet => q.lengthSet)
    BY <1>1, <1>2 DEF Decorated, Stream, Limited
  <1>4. Shape(q)
    BY <1>2, <1>3 DEF Shape
  <1>5. q.status = StatusAfter(r, x) /\ x.op # "end"
    BY <1>2 DEF StatusAfter, Printing
  <1> QED
    BY <1>3, <1>4, <1>5 DEF Advance

\* print() and write()
LEMMA SaidAdvance ==
  ASSUME NEW r, NEW q, NEW x, x.op \in Printing, Said(r, q, x.arg)
  PROVE  Advance(r, q, x)
  <1>1. q.status = StatusAfter(r, x) /\ x.op # "end"
    BY DEF StatusAfter, Printing, Said, NextStatus
  <1> QED
    BY <1>1 DEF Said, Advance

\* flush()
LEMMA FlushAdvance ==
  ASSUME NEW r, Limited(r), Shape(r), NEW x, x.op = "flush", NEW q, q = m_flushBuf(r)
  PROVE  Advance(r, q, x)
  <1>1. r \in Responses /\ Len(r.headers) <= MaxHeaders /\ Len(r.buf) < OutputBufferSize
    BY DEF Limited
  <1>2. Stray(r) = <<>>
    BY DEF Shape, Stray
  <1>3. Wrote(r, q, Stream(r))
    BY <1>1, <1>2, FlushEffect
  <1>4. /\ Stream(q) = Stream(r) /\ Limited(q) /\ q.ended = r.ended /\ q.convert = r.convert /\ q.status = r.status
        /\ q.headersSent = r.headersSent /\ q.lengthSet = r.lengthSet
    BY <1>1, <1>3 DEF Wrote, Kept, Limited
  <1>5. Shape(q)
    BY <1>4 DEF Shape
  <1>6. q.status = StatusAfter(r, x) /\ x.op # "end"
    BY <1>4 DEF StatusAfter, Printing
  <1> QED
    BY <1>4, <1>5, <1>6 DEF Advance

WithEnd(r) == [r EXCEPT !.ended = TRUE]

\* The end of an answer alone
LEMMA EndUpdate ==
  ASSUME NEW r \in Responses
  PROVE  /\ WithEnd(r) \in Responses /\ WithEnd(r).ended = TRUE /\ WithEnd(r).status = r.status
         /\ WithEnd(r).headers = r.headers /\ WithEnd(r).headersSent = r.headersSent
         /\ WithEnd(r).lengthSet = r.lengthSet /\ WithEnd(r).convert = r.convert
         /\ WithEnd(r).buf = r.buf /\ WithEnd(r).wire = r.wire
  BY DEF Responses, WithEnd

\* end()
LEMMA EndAdvance ==
  ASSUME NEW r, Limited(r), Shape(r), NEW x, x.op = "end", NEW q, q = WithEnd(r)
  PROVE  Advance(r, q, x)
  <1>1. r \in Responses /\ Len(r.headers) <= MaxHeaders /\ Len(r.buf) < OutputBufferSize
    BY DEF Limited
  <1>2. /\ q \in Responses /\ q.ended /\ q.status = r.status /\ q.headers = r.headers
        /\ q.headersSent = r.headersSent /\ q.lengthSet = r.lengthSet /\ q.convert = r.convert
        /\ q.buf = r.buf /\ q.wire = r.wire
    BY <1>1, EndUpdate
  <1>3. Stream(q) = Stream(r) /\ Limited(q)
    BY <1>1, <1>2 DEF Stream, Limited
  <1>4. Shape(q)
    BY <1>2, <1>3 DEF Shape
  <1>5. q.status = StatusAfter(r, x)
    BY <1>2 DEF StatusAfter, Printing
  <1> QED
    BY <1>2, <1>3, <1>4, <1>5 DEF Advance

\* The calls after the first one
LEMMA CallsAfter ==
  ASSUME NEW c \in Seq(LegalCalls), c # <<>>
  PROVE  /\ Len(c) \in Nat /\ Len(c) >= 1 /\ Head(c) = c[1] /\ Tail(c) \in Seq(LegalCalls)
         /\ Len(Tail(c)) = Len(c) - 1 /\ \A i \in 1..Len(Tail(c)) : Tail(c)[i] = c[i + 1]
         /\ \A i \in 1..Len(c) : c[i] \in LegalCalls
  OBVIOUS

\* The answer so far and the calls to come are right.
Rightly(c, r, codes) == Sound(r, codes) /\ CallsFit(c, r, codes) /\ BodyFits(c, r)

\* What is right before a call is right after it, of the calls that are left.
LEMMA AdvanceKeeps ==
  ASSUME NEW c \in Seq(LegalCalls), c # <<>>, NEW r, NEW q, NEW codes, Rightly(c, r, codes), Advance(r, q, Head(c))
  PROVE  Rightly(Tail(c), q, codes) /\ (Busy(Tail(c), q) <=> Busy(c, r))
  <1> DEFINE t == Tail(c)
             x == Head(c)
  <1>1. /\ Len(c) \in Nat /\ Len(c) >= 1 /\ x = c[1] /\ t \in Seq(LegalCalls)
        /\ Len(t) = Len(c) - 1 /\ \A i \in 1..Len(t) : t[i] = c[i + 1]
    BY CallsAfter
  <1> HIDE DEF t, x
  <1>2. 1 \in 1..Len(c) /\ \A i \in 1..Len(t) : i + 1 \in 1..Len(c)
    BY <1>1
  <1>3. \A i \in 1..Len(c) : i = 1 \/ (i - 1 \in 1..Len(t) /\ c[i] = t[i - 1])
    <2> TAKE i \in 1..Len(c)
    <2>1. i = 1 \/ i - 1 \in 1..Len(t)
      BY <1>1
    <2>2. (i - 1) + 1 = i
      OBVIOUS
    <2>3. i - 1 \in 1..Len(t) => t[i - 1] = c[(i - 1) + 1]
      BY <1>1
    <2> QED
      BY <2>1, <2>2, <2>3
  <1>4. /\ x.op = "status" => x.arg \in codes /\ x.arg >= 200
        /\ x.op \in Printing => r.status # 0 \/ 200 \in codes
        /\ x.op = "end" => r.status # 0
        /\ x.op # "convert"
    <2>1. \A ops : ~Earlier(c, ops, 1)
      BY DEF Earlier
    <2> QED
      BY <1>1, <1>2, <2>1 DEF Rightly, CallsFit
  <1>5. /\ q.status = StatusAfter(r, x) /\ Shape(q) /\ q.convert = r.convert /\ (q.ended <=> r.ended \/ x.op = "end")
        /\ \A w : BodyIs(Stream(r), w) /\ (x.op \in Printing => x.arg = w) => BodyIs(Stream(q), w)
    BY DEF Advance, x
  <1>6. q.status # 0 <=> r.status # 0 \/ x.op \in Answering
    BY <1>4, <1>5 DEF StatusAfter, Answering, Printing
  <1>7. Sound(q, codes)
    <2>1. q.status # 0 => q.status \in codes
      BY <1>4, <1>5 DEF StatusAfter, Rightly, Sound
    <2>2. q.ended => q.status # 0
      BY <1>4, <1>5, <1>6 DEF Rightly, Sound
    <2> QED
      BY <1>5, <2>1, <2>2 DEF Rightly, Sound
  <1>8. \A ops : \A i \in 1..Len(t) : Earlier(c, ops, i + 1) => x.op \in ops \/ Earlier(t, ops, i)
    <2> TAKE ops
    <2> TAKE i \in 1..Len(t)
    <2> HAVE Earlier(c, ops, i + 1)
    <2>1. PICK j \in 1..((i + 1) - 1) : c[j].op \in ops
      BY DEF Earlier
    <2>2. CASE j = 1
      BY <1>1, <2>1, <2>2
    <2>3. CASE j # 1
      <3>1. j - 1 \in 1..(i - 1) /\ j \in 1..Len(c)
        BY <1>1, <2>3
      <3>2. t[j - 1] = c[j]
        BY <1>3, <2>3, <3>1
      <3> QED
        BY <2>1, <3>1, <3>2 DEF Earlier
    <2> QED
      BY <2>2, <2>3
  <1>9. CallsFit(t, q, codes)
    <2> SUFFICES ASSUME NEW i \in 1..Len(t)
                 PROVE  /\ t[i].op = "status" => t[i].arg \in codes /\ t[i].arg >= 200
                        /\ t[i].op \in Printing => q.status # 0 \/ 200 \in codes \/ Earlier(t, {"status"}, i)
                        /\ t[i].op = "end" => q.status # 0 \/ Earlier(t, Answering, i)
                        /\ t[i].op # "convert"
      BY DEF CallsFit
    <2>1. t[i] = c[i + 1] /\ i + 1 \in 1..Len(c)
      BY <1>1, <1>2
    <2>2. /\ t[i].op = "status" => t[i].arg \in codes /\ t[i].arg >= 200
          /\ t[i].op \in Printing => r.status # 0 \/ 200 \in codes \/ Earlier(c, {"status"}, i + 1)
          /\ t[i].op = "end" => r.status # 0 \/ Earlier(c, Answering, i + 1)
          /\ t[i].op # "convert"
      BY <2>1 DEF Rightly, CallsFit
    <2>3. Earlier(c, {"status"}, i + 1) => x.op = "status" \/ Earlier(t, {"status"}, i)
      BY <1>8
    <2>4. Earlier(c, Answering, i + 1) => x.op \in Answering \/ Earlier(t, Answering, i)
      BY <1>8
    <2>5. x.op = "status" => x.op \in Answering
      BY DEF Answering
    <2> QED
      BY <1>6, <2>2, <2>3, <2>4, <2>5
  <1>10. BodyFits(t, q)
    <2>1. PICK w \in BodyNames : (\A i \in 1..Len(c) : c[i].op \in Printing => c[i].arg = w) /\ BodyIs(Stream(r), w)
      BY DEF Rightly, BodyFits
    <2>2. x.op \in Printing => x.arg = w
      BY <1>1, <1>2, <2>1
    <2>3. BodyIs(Stream(q), w)
      BY <1>5, <2>1, <2>2
    <2>4. \A i \in 1..Len(t) : t[i].op \in Printing => t[i].arg = w
      BY <1>1, <1>2, <2>1
    <2> QED
      BY <2>3, <2>4 DEF BodyFits
  <1>11. Busy(t, q) <=> Busy(c, r)
    <2>1. (\E i \in 1..Len(c) : c[i].op \in Answering) <=> x.op \in Answering \/ \E i \in 1..Len(t) : t[i].op \in Answering
      BY <1>1, <1>2, <1>3
    <2> QED
      BY <1>6, <2>1 DEF Busy
  <1> QED
    BY <1>7, <1>9, <1>10, <1>11 DEF Rightly, t

\* The calls by their names
LEMMA LegalCallsOf ==
  /\ \A code \in Codes : Status(code) \in LegalCalls /\ Status(code).op = "status" /\ Status(code).arg = code
  /\ \A name \in HeaderNames : Set(name) \in LegalCalls /\ Set(name).op = "set" /\ Set(name).arg = name
  /\ \A who \in BodyNames : /\ Println(who) \in LegalCalls /\ Println(who).op = "print" /\ Println(who).arg = who
                            /\ Call("write", who) \in LegalCalls /\ Call("write", who).op = "write"
                            /\ Call("write", who).arg = who
  /\ \A op \in {"flush", "end", "convert"} : Call(op, 0) \in LegalCalls /\ Call(op, 0).op = op
  BY DEF Status, Set, Println, Call, LegalCalls

\* What the arguments of calls are
LEMMA LegalArguments ==
  ASSUME NEW x \in LegalCalls
  PROVE  /\ x.op \in {"status", "set", "print", "write", "flush", "end", "convert"}
         /\ x.op = "status" => x.arg \in Codes
         /\ x.op = "set" => x.arg \in HeaderNames
         /\ x.op \in Printing => x.arg \in BodyNames
  BY DEF LegalCalls, Printing

\* The calls of an upgrade
LEMMA SwitchCalls ==
  /\ switch_protocols \in Seq(LegalCalls) /\ Len(switch_protocols) = 9
  /\ \A k \in 1..5 : switch_protocols[k].op = "set" /\ switch_protocols[k].arg \in HeaderNames
  /\ switch_protocols[6].op = "status" /\ switch_protocols[6].arg = 101
  /\ switch_protocols[7].op = "flush" /\ switch_protocols[8].op = "end" /\ switch_protocols[9].op = "convert"
  <1> DEFINE s1 == Set("Server")
             s2 == Set("Connection")
             s3 == Set("Upgrade")
             s4 == Set("Version")
             s5 == Set("Accept")
             s6 == Status(101)
             s7 == Call("flush", 0)
             s8 == Call("end", 0)
             s9 == Call("convert", 0)
  <1>1. \A y \in {s1, s2, s3, s4, s5} : y \in LegalCalls /\ y.op = "set" /\ y.arg \in HeaderNames
    BY LegalCallsOf DEF HeaderNames
  <1>2. s6 \in LegalCalls /\ s6.op = "status" /\ s6.arg = 101
    BY LegalCallsOf DEF Codes
  <1>3. /\ s7 \in LegalCalls /\ s8 \in LegalCalls /\ s9 \in LegalCalls
        /\ s7.op = "flush" /\ s8.op = "end" /\ s9.op = "convert"
    BY LegalCallsOf
  <1>4. switch_protocols = <<s1, s2, s3, s4, s5, s6, s7, s8, s9>>
    BY DEF switch_protocols
  <1> HIDE DEF s1, s2, s3, s4, s5, s6, s7, s8, s9
  <1>5. switch_protocols \in Seq(LegalCalls) /\ Len(switch_protocols) = 9
    BY <1>1, <1>2, <1>3, <1>4
  <1>6. \A k \in 1..5 : switch_protocols[k] \in {s1, s2, s3, s4, s5}
    BY <1>4
  <1>7. switch_protocols[6] = s6 /\ switch_protocols[7] = s7 /\ switch_protocols[8] = s8 /\ switch_protocols[9] = s9
    BY <1>4
  <1> QED
    BY <1>1, <1>2, <1>3, <1>5, <1>6, <1>7

\* The calls that are left of an upgrade
LEMMA SwitchRest ==
  /\ \A k \in 1..9 : /\ SubSeq(switch_protocols, k, 9) # <<>>
                     /\ Head(SubSeq(switch_protocols, k, 9)) = switch_protocols[k]
                     /\ Tail(SubSeq(switch_protocols, k, 9)) = SubSeq(switch_protocols, k + 1, 9)
  /\ \A k \in 1..10 : SubSeq(switch_protocols, k, 9) \in Seq(LegalCalls)
  /\ SubSeq(switch_protocols, 10, 9) = <<>> /\ SubSeq(switch_protocols, 1, 9) = switch_protocols
  <1> DEFINE s == switch_protocols
  <1>1. s \in Seq(LegalCalls) /\ Len(s) = 9
    BY SwitchCalls
  <1> HIDE DEF s
  <1>2. ASSUME NEW k \in 1..9
        PROVE  /\ SubSeq(s, k, 9) # <<>> /\ Head(SubSeq(s, k, 9)) = s[k] /\ Tail(SubSeq(s, k, 9)) = SubSeq(s, k + 1, 9)
    <2>1. k \in 1..Len(s) /\ 9 \in k..Len(s)
      BY <1>1
    <2>2. Head(SubSeq(s, k, 9)) = s[k] /\ Tail(SubSeq(s, k, 9)) = SubSeq(s, k + 1, 9)
      BY <1>1, <2>1, HeadTailOfSubSeq
    <2>3. Len(SubSeq(s, k, 9)) = 9 - k + 1
      BY <1>1
    <2>4. SubSeq(s, k, 9) # <<>>
      <3> DEFINE t == SubSeq(s, k, 9)
      <3>1. Len(t) # 0
        BY <2>3
      <3> HIDE DEF t
      <3>2. t # <<>>
        BY <3>1
      <3> QED
        BY <3>2 DEF t
    <2> QED
      BY <2>2, <2>4
  <1>3. ASSUME NEW k \in 1..10 PROVE SubSeq(s, k, 9) \in Seq(LegalCalls)
    <2>1. \A i \in k..9 : s[i] \in LegalCalls
      BY <1>1
    <2>2. k \in Int /\ 9 \in Int
      OBVIOUS
    <2> QED
      BY <2>1, <2>2, SubSeqProperties
  <1>4. SubSeq(s, 10, 9) = <<>>
    BY SubSeqEmpty
  <1>5. SubSeq(s, 1, 9) = s
    BY <1>1, SubSeqFull
  <1> QED
    BY <1>2, <1>3, <1>4, <1>5 DEF s

WithConvert(r) == [r EXCEPT !.convert = TRUE]

\* The conversion alone
LEMMA ConvertUpdate ==
  ASSUME NEW r \in Responses
  PROVE  /\ WithConvert(r) \in Responses /\ WithConvert(r).convert = TRUE /\ WithConvert(r).status = r.status
         /\ WithConvert(r).headers = r.headers /\ WithConvert(r).headersSent = r.headersSent
         /\ WithConvert(r).ended = r.ended
         /\ WithConvert(r).buf = r.buf /\ WithConvert(r).wire = r.wire
  BY DEF Responses, WithConvert

\* A response after a call
Begun(r, code) == WithStatus(Put(r, StatusLine(code)), code)
Written(r, w) == [m_flushBuf(Ready(r)) EXCEPT !.wire = @ \o <<Body(w)>> \o Stray(m_flushBuf(Ready(r)))]
Carried(r, q, x) ==
  \/ /\ x.op = "status"
     /\ q = IF r.status # 0 THEN r
            ELSE IF x.arg < 200 THEN WithStatus(endHeaders(beginHeaders(Begun(r, x.arg))), 0)
            ELSE Begun(r, x.arg)
  \/ x.op = "set" /\ q = WithHeader(r, x.arg)
  \/ x.op = "print" /\ q = Put(Ready(r), <<Body(x.arg)>>)
  \/ x.op = "write" /\ q = Written(r, x.arg)
  \/ x.op = "flush" /\ q = m_flushBuf(r)
  \/ x.op = "end" /\ q = WithEnd(r)
  \/ x.op = "convert" /\ q = WithConvert(r)

\* A call of an upgrade
LEMMA UpgradeStep ==
  ASSUME NEW k \in 1..9, NEW c, NEW r, Limited(r), NEW codes, NEW rq, NEW n, Upgrading(k, c, r, codes, rq, n),
         NEW q, Carried(r, q, Head(c))
  PROVE  Limited(q) /\ Upgrading(k + 1, Tail(c), q, codes, rq, n)
  <1> DEFINE x == switch_protocols[k]
  <1>1. Head(c) = x /\ Tail(c) = SubSeq(switch_protocols, k + 1, 9)
    BY SwitchRest DEF Upgrading
  <1>2. Carried(r, q, x)
    BY <1>1
  <1>3. /\ k <= 5 => x.op = "set" /\ x.arg \in HeaderNames
        /\ k = 6 => x.op = "status" /\ x.arg = 101
        /\ k = 7 => x.op = "flush"
        /\ k = 8 => x.op = "end"
        /\ k = 9 => x.op = "convert"
    BY SwitchCalls
  <1> HIDE DEF x
  <1>4. r \in Responses /\ Len(r.headers) <= MaxHeaders /\ Len(r.buf) < OutputBufferSize
    BY DEF Limited
  <1>5. r.wire \in Seq(OutPieces) /\ r.buf \in Seq(OutPieces) /\ r.ended \in BOOLEAN /\ r.convert \in BOOLEAN
    BY <1>4, ResponseFields
  <1>6. (r.ended <=> k > 8) /\ (r.convert <=> k > 9) /\ r.status = 0
    BY DEF Upgrading
  <1>7. 101 \in codes /\ Requested(rq) /\ n < MaxConnections
    BY DEF Upgrading
  <1>8. CASE k <= 5
    <2>1. q = WithHeader(r, x.arg)
      BY <1>2, <1>3, <1>8 DEF Carried
    <2>2. Decorated(r, q) /\ q.status = r.status
      BY <1>3, <1>4, <1>8, <2>1, SetEffect
    <2>3. ~r.headersSent /\ Stream(r) = <<>>
      BY <1>8 DEF Upgrading
    <2>4. /\ Limited(q) /\ ~q.headersSent /\ Stream(q) = <<>> /\ q.ended = r.ended /\ q.convert = r.convert
          /\ q.status = 0
      BY <1>4, <1>6, <2>2, <2>3 DEF Decorated, Limited, Stream
    <2>5. k + 1 <= 6 /\ ~(k > 8) /\ ~(k > 9) /\ ~(k + 1 > 8) /\ ~(k + 1 > 9)
      BY <1>8
    <2> QED
      BY <1>1, <1>6, <1>7, <2>4, <2>5 DEF Upgrading
  <1>9. CASE k = 6
    <2> DEFINE b == Begun(r, 101)
               e == endHeaders(beginHeaders(b))
               z == Put(r, StatusLine(101))
               p == StatusLine(101)
    <2>1. q = WithStatus(e, 0)
      <3>1. 101 < 200
        OBVIOUS
      <3> HIDE DEF e, b
      <3> QED
        BY <1>2, <1>3, <1>6, <1>9, <3>1 DEF Carried, e, b
    <2>2. ~r.headersSent /\ Stream(r) = <<>>
      BY <1>9 DEF Upgrading
    <2>3. p \in Seq(OutPieces)
      BY DEF StatusLine, Piece, OutPieces, Details, Codes
    <2>4. Stream(r) \o p = p /\ Stray(r) = <<>>
      BY <2>2, <2>3, ConcatEmptySeq DEF Stray
    <2>5. b = WithStatus(z, 101) /\ z = Put(r, p)
      BY DEF Begun
    <2> HIDE DEF p, z
    <2>6. Wrote(r, z, p)
      BY <1>4, <2>3, <2>4, <2>5, PutEffect
    <2>7. /\ z \in Responses /\ z.headersSent = r.headersSent /\ z.ended = r.ended /\ z.convert = r.convert
          /\ z.headers = r.headers /\ Stream(z) = p
      BY <2>6 DEF Wrote, Kept
    <2>8. /\ b \in Responses /\ b.status = 101 /\ b.headers = r.headers /\ b.headersSent = r.headersSent
          /\ b.ended = r.ended /\ b.convert = r.convert /\ b.buf = z.buf /\ b.wire = z.wire
      <3>1. 101 \in Codes \cup {0}
        BY DEF Codes
      <3> HIDE DEF b
      <3> QED
        BY <2>5, <2>7, <3>1, StatusUpdate
    <2> HIDE DEF b
    <2>9. Stream(b) = StatusLine(b.status) /\ b.status # 0 /\ ~b.headersSent
      <3>1. Stream(b) = p
        BY <2>7, <2>8 DEF Stream
      <3>2. p = StatusLine(b.status)
        BY <2>8 DEF p
      <3> QED
        BY <2>2, <2>8, <3>1, <3>2
    <2>10. SentHeaders(b, e)
      BY <2>8, <2>9, HeadersEffect
    <2> HIDE DEF e
    <2>11. /\ e \in Responses /\ e.headers = r.headers /\ e.headersSent = TRUE
           /\ e.ended = r.ended /\ e.convert = r.convert /\ e.buf = <<>> /\ HeadOnly(e.wire, 101)
      BY <2>8, <2>10 DEF SentHeaders
    <2>12. /\ q \in Responses /\ q.status = 0 /\ q.headers = r.headers /\ q.headersSent
           /\ q.ended = r.ended /\ q.convert = r.convert /\ q.buf = <<>> /\ HeadOnly(q.wire, 101)
      BY <2>1, <2>11, StatusUpdate
    <2>13. Limited(q)
      BY <1>4, <2>12, WebServerAssumption DEF Limited
    <2> QED
      BY <1>1, <1>6, <1>7, <1>9, <2>12, <2>13 DEF Upgrading
  <1>10. CASE k \in 7..9
    <2>1. r.headersSent /\ r.buf = <<>> /\ HeadOnly(r.wire, 101)
      BY <1>10 DEF Upgrading
    <2>2. CASE k = 7
      <3>1. q = r
        BY <1>2, <1>3, <2>1, <2>2 DEF Carried, m_flushBuf
      <3> QED
        BY <1>1, <1>6, <1>7, <2>1, <2>2, <3>1 DEF Upgrading
    <2>3. CASE k = 8
      <3>1. q = WithEnd(r)
        BY <1>2, <1>3, <2>3 DEF Carried
      <3>2. /\ q \in Responses /\ q.ended = TRUE /\ q.status = r.status /\ q.headers = r.headers
            /\ q.headersSent = r.headersSent /\ q.convert = r.convert /\ q.buf = r.buf /\ q.wire = r.wire
        BY <1>4, <3>1, EndUpdate
      <3>3. Limited(q)
        BY <1>4, <3>2 DEF Limited
      <3> QED
        BY <1>1, <1>6, <1>7, <2>1, <2>3, <3>2, <3>3 DEF Upgrading
    <2>4. CASE k = 9
      <3>1. q = WithConvert(r)
        BY <1>2, <1>3, <2>4 DEF Carried
      <3>2. /\ q \in Responses /\ q.convert = TRUE /\ q.status = r.status /\ q.headers = r.headers
            /\ q.headersSent = r.headersSent /\ q.ended = r.ended /\ q.buf = r.buf /\ q.wire = r.wire
        BY <1>4, <3>1, ConvertUpdate
      <3>3. Limited(q)
        BY <1>4, <3>2 DEF Limited
      <3> QED
        BY <1>1, <1>6, <1>7, <2>1, <2>4, <3>2, <3>3 DEF Upgrading
    <2> QED
      BY <1>10, <2>2, <2>3, <2>4
  <1> QED
    BY <1>8, <1>9, <1>10

\* Every call but a conversion advances an ordinary answer.
LEMMA CarriedAdvance ==
  ASSUME NEW r, Limited(r), Shape(r), NEW x \in LegalCalls, x.op # "convert",
         x.op = "status" => x.arg >= 200, NEW q, Carried(r, q, x)
  PROVE  Advance(r, q, x)
  <1>0. /\ x.op = "status" => x.arg \in Codes
        /\ x.op = "set" => x.arg \in HeaderNames
        /\ x.op \in Printing => x.arg \in BodyNames
    BY LegalArguments
  <1>1. CASE x.op = "status" /\ q = IF r.status # 0 THEN r
                                   ELSE IF x.arg < 200 THEN WithStatus(endHeaders(beginHeaders(Begun(r, x.arg))), 0)
                                   ELSE Begun(r, x.arg)
    <2>1. x.arg \in Codes /\ x.arg >= 200 /\ ~(x.arg < 200)
      BY <1>0, <1>1 DEF Codes
    <2>2. q = IF r.status # 0 THEN r ELSE WithStatus(Put(r, StatusLine(x.arg)), x.arg)
      BY <1>1, <2>1 DEF Begun
    <2> QED
      BY <1>1, <2>1, <2>2, StatusAdvance
  <1>2. CASE x.op = "set" /\ q = WithHeader(r, x.arg)
    BY <1>0, <1>2, SetAdvance
  <1>3. CASE x.op = "print" /\ q = Put(Ready(r), <<Body(x.arg)>>)
    <2>1. x.op \in Printing
      BY <1>3 DEF Printing
    <2>2. Said(r, q, x.arg)
      BY <1>0, <1>3, <2>1, PrintEffect
    <2> QED
      BY <2>1, <2>2, SaidAdvance
  <1>4. CASE x.op = "write" /\ q = Written(r, x.arg)
    <2>1. x.op \in Printing
      BY <1>4 DEF Printing
    <2>2. q = [m_flushBuf(Ready(r)) EXCEPT !.wire = @ \o <<Body(x.arg)>> \o Stray(m_flushBuf(Ready(r)))]
      BY <1>4 DEF Written
    <2>3. Said(r, q, x.arg)
      BY <1>0, <2>1, <2>2, WriteEffect
    <2> QED
      BY <2>1, <2>3, SaidAdvance
  <1>5. CASE x.op = "flush" /\ q = m_flushBuf(r)
    BY <1>5, FlushAdvance
  <1>6. CASE x.op = "end" /\ q = WithEnd(r)
    BY <1>6, EndAdvance
  <1> QED
    BY <1>1, <1>2, <1>3, <1>4, <1>5, <1>6 DEF Carried

\* One more line of another name
LEMMA HeldSkip ==
  ASSUME NEW lines, NEW buf, NEW h, NEW n \in Nat, Held(lines, buf, h, n), lines[n + 1][1] # h
  PROVE  Held(lines, buf, h, n + 1)
  <1>1. \A i \in 1..(n + 1) : i \in 1..n \/ i = n + 1
    OBVIOUS
  <1>2. \A i \in 1..n : i \in 1..(n + 1)
    OBVIOUS
  <1>3. \A i \in 1..(n + 1) : lines[i][1] = h => i \in 1..n
    BY <1>1
  <1>4. \A j \in 1..Len(buf) : \E i \in 1..(n + 1) : lines[i][1] = h /\ lines[i][2] = buf[j]
    BY <1>2 DEF Held
  <1>5. \A i \in 1..(n + 1) : lines[i][1] = h => \E j \in 1..Len(buf) : buf[j] = lines[i][2]
    BY <1>3 DEF Held
  <1>6. (\E i, k \in 1..(n + 1) : i # k /\ lines[i][1] = h /\ lines[k][1] = h)
          <=> (\E i, k \in 1..n : i # k /\ lines[i][1] = h /\ lines[k][1] = h)
    BY <1>2, <1>3
  <1> QED
    BY <1>4, <1>5, <1>6 DEF Held

\* One more line of the name of the buffer
LEMMA HeldAppend ==
  ASSUME NEW lines, NEW buf \in Seq(Strings), NEW h, NEW n \in Nat, Held(lines, buf, h, n),
         lines[n + 1][1] = h, lines[n + 1][2] \in Strings
  PROVE  Held(lines, Append(buf, lines[n + 1][2]), h, n + 1)
  <1> DEFINE v == lines[n + 1][2]
             a == Append(buf, v)
             m == Len(buf)
  <1>0. v \in Strings /\ v = lines[n + 1][2]
    OBVIOUS
  <1> HIDE DEF v
  <1>1. m \in Nat /\ a \in Seq(Strings) /\ Len(a) = m + 1 /\ a[m + 1] = v /\ \A j \in 1..m : a[j] = buf[j]
    BY <1>0
  <1> HIDE DEF a
  <1>2. \A i \in 1..(n + 1) : i \in 1..n \/ i = n + 1
    OBVIOUS
  <1>3. n + 1 \in 1..(n + 1) /\ \A i \in 1..n : i \in 1..(n + 1) /\ i # n + 1
    OBVIOUS
  <1>4. /\ \A j \in 1..m : \E i \in 1..n : lines[i][1] = h /\ lines[i][2] = buf[j]
        /\ \A i \in 1..n : lines[i][1] = h => \E j \in 1..m : buf[j] = lines[i][2]
    BY DEF Held
  <1>5. \A j \in 1..Len(a) : j \in 1..m \/ j = m + 1
    BY <1>1
  <1>6. \A j \in 1..Len(a) : \E i \in 1..(n + 1) : lines[i][1] = h /\ lines[i][2] = a[j]
    BY <1>0, <1>1, <1>3, <1>4, <1>5, ZenonT(40)
  <1>7. m + 1 \in 1..Len(a) /\ \A j \in 1..m : j \in 1..Len(a)
    BY <1>1
  <1>8. \A i \in 1..(n + 1) : lines[i][1] = h => \E j \in 1..Len(a) : a[j] = lines[i][2]
    BY <1>0, <1>1, <1>2, <1>4, <1>7, SMTT(40)
  <1>9. (\E i, k \in 1..(n + 1) : i # k /\ lines[i][1] = h /\ lines[k][1] = h) <=> Len(a) > 1
    <2>1. (\E i \in 1..n : lines[i][1] = h) <=> m >= 1
      <3>1. m >= 1 => \E i \in 1..n : lines[i][1] = h
        <4>1. m >= 1 => 1 \in 1..m
          BY <1>1
        <4> QED
          BY <1>4, <4>1
      <3>2. (\E i \in 1..n : lines[i][1] = h) => m >= 1
        <4>1. \A j \in 1..m : m >= 1
          BY <1>1
        <4> QED
          BY <1>4, <4>1
      <3> QED
        BY <3>1, <3>2
    <2>2. (\E i, k \in 1..(n + 1) : i # k /\ lines[i][1] = h /\ lines[k][1] = h) <=> \E i \in 1..n : lines[i][1] = h
      BY <1>2, <1>3
    <2>3. Len(a) > 1 <=> m >= 1
      BY <1>1
    <2> QED
      BY <2>1, <2>2, <2>3
  <1> QED
    BY <1>6, <1>8, <1>9 DEF Held, a, v

\* Nothing has been read.
LEMMA NothingRead ==
  ASSUME NEW lines
  PROVE  HeadersRead(lines, EmptyBuffers, FALSE, 0)
  <1>1. \A h \in Registered : EmptyBuffers[h] = <<>>
    BY DEF EmptyBuffers
  <1>2. \A h : Held(lines, <<>>, h, 0)
    BY DEF Held
  <1> QED
    BY <1>1, <1>2 DEF HeadersRead

\* The buffers after a header line, and what has been read then
NewBuffers(b, name, value) == IF name \in Registered THEN [b EXCEPT ![name] = Append(@, value)] ELSE b
OneMoreRead(lines, b, l, n, name, value) ==
  /\ NewBuffers(b, name, value) \in [Registered -> Seq(Strings)]
  /\ HeadersRead(lines, NewBuffers(b, name, value), l \/ name = "Content-Length", n + 1)

\* One header line is read.
LEMMA OneLineRead ==
  ASSUME NEW lines \in Seq(HeaderLines), NEW n \in Nat, n < Len(lines), NEW b \in [Registered -> Seq(Strings)], NEW l,
         HeadersRead(lines, b, l, n), NEW name, NEW value, name = lines[n + 1][1], value = lines[n + 1][2],
         name \in Bounded => value # TooLong
  PROVE  OneMoreRead(lines, b, l, n, name, value)
  <1> DEFINE c == NewBuffers(b, name, value)
  <1>1. name \in Strings /\ value \in Strings
    <2>1. n + 1 \in 1..Len(lines)
      OBVIOUS
    <2>2. lines[n + 1] \in HeaderLines
      BY <2>1
    <2> QED
      BY <2>2 DEF HeaderLines
  <1>a. name = lines[n + 1][1] /\ value = lines[n + 1][2]
    OBVIOUS
  <1>2. c \in [Registered -> Seq(Strings)] /\ \A h \in Registered : c[h] = IF h = name THEN Append(b[h], value) ELSE b[h]
    BY <1>1 DEF NewBuffers
  <1> HIDE DEF c
  <1>3. \A i \in 1..(n + 1) : i \in 1..n \/ i = n + 1
    OBVIOUS
  <1>4. \A i \in 1..n : i \in 1..(n + 1)
    OBVIOUS
  <1>5. n + 1 \in 1..(n + 1)
    OBVIOUS
  <1>6. \A i \in 1..(n + 1) : lines[i][1] \in Bounded => lines[i][2] # TooLong
    BY <1>3 DEF HeadersRead
  <1>7. ASSUME NEW h \in Registered PROVE Held(lines, c[h], h, n + 1)
    <2>1. Held(lines, b[h], h, n) /\ b[h] \in Seq(Strings)
      BY DEF HeadersRead
    <2>2. CASE h = name
      <3>1. c[h] = Append(b[h], value)
        BY <1>2, <2>2
      <3> QED
        BY <1>a, <1>1, <2>1, <2>2, <3>1, HeldAppend
    <2>3. CASE h # name
      <3>1. c[h] = b[h]
        BY <1>2, <2>3
      <3> QED
        BY <1>a, <2>1, <2>3, <3>1, HeldSkip
    <2> QED
      BY <2>2, <2>3
  <1>8. (l \/ name = "Content-Length") <=> \E i \in 1..(n + 1) : lines[i][1] = "Content-Length"
    BY <1>a, <1>3, <1>4, <1>5 DEF HeadersRead
  <1> QED
    BY <1>2, <1>6, <1>7, <1>8 DEF OneMoreRead, HeadersRead, c

\* The values in buffer buf of header h, and the lines with that name
Tells(lines, buf, h, v) ==
  /\ (\E j \in DOMAIN buf : buf[j] = v) <=> (\E i \in DOMAIN lines : lines[i][1] = h /\ lines[i][2] = v)
  /\ (buf = <<v>>) <=> \E i \in DOMAIN lines : lines[i] = <<h, v>> /\ \A j \in DOMAIN lines : lines[j][1] = h => j = i

\* What a buffer says of the lines when all of them have been read
LEMMA BufferOfLines ==
  ASSUME NEW lines \in Seq(HeaderLines), NEW buf \in Seq(Strings), NEW h, Held(lines, buf, h, Len(lines)), NEW v
  PROVE  Tells(lines, buf, h, v)
  <1> DEFINE n == Len(lines)
             m == Len(buf)
  <1>1. n \in Nat /\ m \in Nat /\ DOMAIN lines = 1..n /\ DOMAIN buf = 1..m
    OBVIOUS
  <1>2. /\ \A j \in 1..m : \E i \in 1..n : lines[i][1] = h /\ lines[i][2] = buf[j]
        /\ \A i \in 1..n : lines[i][1] = h => \E j \in 1..m : buf[j] = lines[i][2]
        /\ (\E i, k \in 1..n : i # k /\ lines[i][1] = h /\ lines[k][1] = h) <=> m > 1
    BY DEF Held
  <1>3. \A i \in 1..n : \A w : (lines[i] = <<h, w>>) <=> (lines[i][1] = h /\ lines[i][2] = w)
    <2>1. \A i \in 1..n : lines[i] \in HeaderLines
      OBVIOUS
    <2>2. \A x \in HeaderLines : \A w : (x = <<h, w>>) <=> (x[1] = h /\ x[2] = w)
      BY DEF HeaderLines
    <2> QED
      BY <2>1, <2>2
  <1> HIDE DEF n, m
  <1>4. (\E j \in 1..m : buf[j] = v) <=> (\E i \in 1..n : lines[i][1] = h /\ lines[i][2] = v)
    <2>1. ASSUME NEW j \in 1..m, buf[j] = v
          PROVE  \E i \in 1..n : lines[i][1] = h /\ lines[i][2] = v
      <3>1. PICK i \in 1..n : lines[i][1] = h /\ lines[i][2] = buf[j]
        BY <1>2, Zenon
      <3> QED
        BY <2>1, <3>1, Zenon
    <2>2. ASSUME NEW i \in 1..n, lines[i][1] = h, lines[i][2] = v
          PROVE  \E j \in 1..m : buf[j] = v
      BY <1>2, <2>2, Zenon
    <2> QED
      BY <2>1, <2>2
  <1>5. ASSUME buf = <<v>>
        PROVE  \E i \in 1..n : lines[i] = <<h, v>> /\ \A j \in 1..n : lines[j][1] = h => j = i
    <2>1. m = 1 /\ buf[1] = v /\ 1 \in 1..m /\ ~(m > 1)
      BY <1>5 DEF m
    <2>2. PICK i \in 1..n : lines[i][1] = h /\ lines[i][2] = v
      BY <1>2, <2>1
    <2>3. \A j \in 1..n : lines[j][1] = h => j = i
      BY <1>2, <2>1, <2>2
    <2> QED
      BY <1>3, <2>2, <2>3
  <1>6. ASSUME NEW i \in 1..n, lines[i] = <<h, v>>, \A j \in 1..n : lines[j][1] = h => j = i
        PROVE  buf = <<v>>
    <2>1. lines[i][1] = h /\ lines[i][2] = v
      BY <1>3, <1>6
    <2>2. PICK j \in 1..m : buf[j] = v
      BY <1>2, <2>1
    <2>3. ~(m > 1)
      BY <1>2, <1>6
    <2>4. m = 1 /\ j = 1
      BY <1>1, <2>3
    <2> QED
      BY <2>2, <2>4 DEF m
  <1>7. (buf = <<v>>) <=> \E i \in 1..n : lines[i] = <<h, v>> /\ \A j \in 1..n : lines[j][1] = h => j = i
    BY <1>5, <1>6
  <1> QED
    BY <1>1, <1>4, <1>7 DEF Tells

\* The conditions of websocket_upgrade() and of the API on the buffers are conditions on the
\* lines of the request.
LEMMA BuffersTell ==
  ASSUME request.lines \in Seq(HeaderLines), buffers \in [Registered -> Seq(Strings)], AllRead(request, buffers, left)
  PROVE  /\ (~HasErrors) <=> AsksForUpgrade
         /\ AsksForUpgrade => Requested(request)
         /\ left <=> Values("Content-Length") # {}
         /\ ~\E n \in Registered \cup {"Content-Length"} : TooLong \in Values(n)
  <1> DEFINE lines == request.lines
  <1>1. lines \in Seq(HeaderLines) /\ DOMAIN lines = 1..Len(lines)
    OBVIOUS
  <1>2. \A h \in Registered : buffers[h] \in Seq(Strings) /\ Held(lines, buffers[h], h, Len(lines))
    BY DEF AllRead, HeadersRead
  <1>3. \A name : \A v : v \in Values(name) <=> \E i \in DOMAIN lines : lines[i][1] = name /\ lines[i][2] = v
    BY DEF Values
  <1>4. \A name, v : Single(name, v) <=> \E i \in DOMAIN lines : /\ lines[i] = <<name, v>>
                                                                /\ \A j \in DOMAIN lines : lines[j][1] = name => j = i
    BY DEF Single
  <1>5. {"Connection", "Upgrade", "Version"} \subseteq Registered
    BY DEF Registered
  <1> HIDE DEF lines
  <1>a. ASSUME NEW h \in Registered, NEW v
        PROVE  /\ (\E j \in DOMAIN buffers[h] : buffers[h][j] = v) <=> v \in Values(h)
               /\ (buffers[h] = <<v>>) <=> Single(h, v)
    <2> DEFINE buf == buffers[h]
    <2>1. buf \in Seq(Strings) /\ Held(lines, buf, h, Len(lines))
      BY <1>2
    <2> HIDE DEF buf
    <2>2. Tells(lines, buf, h, v)
      BY <1>1, <2>1, BufferOfLines
    <2>3. v \in Values(h) <=> (\E i \in DOMAIN lines : lines[i][1] = h /\ lines[i][2] = v)
      BY <1>3
    <2>4. Single(h, v) <=> \E i \in DOMAIN lines : /\ lines[i] = <<h, v>>
                                                  /\ \A j \in DOMAIN lines : lines[j][1] = h => j = i
      BY <1>4
    <2> QED
      BY <2>2, <2>3, <2>4 DEF buf, Tells
  <1>6. \A h \in Registered : \A v : (\E j \in DOMAIN buffers[h] : buffers[h][j] = v) <=> v \in Values(h)
    BY <1>a
  <1>7. \A h \in Registered : \A v : (buffers[h] = <<v>>) <=> Single(h, v)
    BY <1>a
  <1>8. (~HasErrors) <=> AsksForUpgrade
    <2>1. (\E j \in DOMAIN buffers["Connection"] : buffers["Connection"][j] = "Upgrade") <=> "Upgrade" \in Values("Connection")
      BY <1>5, <1>6
    <2>2. (buffers["Upgrade"] = <<"websocket">>) <=> Single("Upgrade", "websocket")
      BY <1>5, <1>7
    <2>3. (buffers["Version"] = <<"13">>) <=> Single("Version", "13")
      BY <1>5, <1>7
    <2> QED
      BY <2>1, <2>2, <2>3 DEF HasErrors, AsksForUpgrade
  <1>9. AsksForUpgrade => Requested(request)
    <2> HAVE AsksForUpgrade
    <2>1. \E i \in DOMAIN lines : lines[i] = <<"Upgrade", "websocket">>
      BY <1>4 DEF AsksForUpgrade
    <2>2. \E i \in DOMAIN lines : lines[i] = <<"Version", "13">>
      BY <1>4 DEF AsksForUpgrade
    <2>3. \E i \in DOMAIN lines : lines[i] = <<"Connection", "Upgrade">>
      <3>1. PICK i \in DOMAIN lines : lines[i][1] = "Connection" /\ lines[i][2] = "Upgrade"
        BY <1>3 DEF AsksForUpgrade
      <3>2. lines[i] \in HeaderLines
        BY <1>1
      <3>3. \A x \in HeaderLines : x = <<x[1], x[2]>>
        BY DEF HeaderLines
      <3> QED
        BY <3>1, <3>2, <3>3
    <2> QED
      BY <2>1, <2>2, <2>3 DEF Requested, WantedLines, lines
  <1>10. left <=> Values("Content-Length") # {}
    <2>1. left <=> \E i \in 1..Len(lines) : lines[i][1] = "Content-Length"
      BY DEF AllRead, HeadersRead, lines
    <2>2. Values("Content-Length") # {} <=> \E i \in DOMAIN lines : lines[i][1] = "Content-Length"
      BY DEF Values, lines
    <2> QED
      BY <1>1, <2>1, <2>2
  <1>11. ~\E n \in Registered \cup {"Content-Length"} : TooLong \in Values(n)
    <2>1. \A i \in 1..Len(lines) : lines[i][1] \in Registered \cup {"Content-Length"} => lines[i][2] # TooLong
      BY DEF AllRead, HeadersRead, Bounded, lines
    <2> QED
      BY <1>1, <1>3, <2>1
  <1> QED
    BY <1>8, <1>9, <1>10, <1>11

\* The codes for a request that has been read without an error
RoutedCodes ==
  IF request.method = "OPTIONS"
       THEN (IF request.path = "/api" \/ (request.path = "/websocket" /\ EnableWebsockets) THEN {200} ELSE {404})
  ELSE IF request.path = "/api" /\ request.method \in {"GET", "POST"}
       THEN (IF request.body = "json" /\ Values("Content-Length") # {} THEN {200} ELSE {400})
  ELSE IF request.method # "GET" THEN {404}
  ELSE IF request.path = "/websocket" /\ EnableWebsockets THEN (IF AsksForUpgrade THEN {101, 500} ELSE {400})
  ELSE IF request.path = "/" THEN (IF "/index.html" \in Files THEN {200} ELSE {501})
  ELSE IF request.path \in Files \cup {"/webserver-status"} THEN {200}
  ELSE {404}

\* Then the codes are those of the routes.
LEMMA CodesWhenRead ==
  ASSUME request.lines \in Seq(HeaderLines), buffers \in [Registered -> Seq(Strings)], AllRead(request, buffers, left)
  PROVE  ExpectedCodes = RoutedCodes
  <1>1. request.method \in Methods /\ request.path # TooLong
    BY DEF AllRead
  <1>2. ~\E n \in Registered \cup {"Content-Length"} : TooLong \in Values(n)
    BY BuffersTell
  <1> QED
    BY <1>1, <1>2, Zenon DEF ExpectedCodes, RoutedCodes

\* The codes, route by route
LEMMA CodesOfRoutes ==
  ASSUME request.lines \in Seq(HeaderLines), buffers \in [Registered -> Seq(Strings)], AllRead(request, buffers, left)
  PROVE  /\ Handles(1, request) => ExpectedCodes = IF "/index.html" \in Files THEN {200} ELSE {501}
         /\ Handles(2, request) \/ Handles(3, request) =>
              ExpectedCodes = IF request.body = "json" /\ Values("Content-Length") # {} THEN {200} ELSE {400}
         /\ Handles(4, request) \/ Handles(6, request) => ExpectedCodes = {200}
         /\ Handles(5, request) => ExpectedCodes = IF AsksForUpgrade THEN {101, 500} ELSE {400}
         /\ Handles(7, request) => ExpectedCodes = {200}
         /\ (\A j \in 1..7 : ~Handles(j, request)) /\ Handles(8, request) =>
              ExpectedCodes = IF request.path \in Files THEN {200} ELSE {404}
         /\ (\A j \in 1..8 : ~Handles(j, request)) => ExpectedCodes = {404}
  <1>1. ExpectedCodes = RoutedCodes
    BY CodesWhenRead
  <1>3. Handles(1, request) => RoutedCodes = IF "/index.html" \in Files THEN {200} ELSE {501}
    BY DEF RoutedCodes, Handles
  <1>4. Handles(2, request) \/ Handles(3, request) =>
          RoutedCodes = IF request.body = "json" /\ Values("Content-Length") # {} THEN {200} ELSE {400}
    BY DEF RoutedCodes, Handles
  <1>5. Handles(4, request) \/ Handles(6, request) => RoutedCodes = {200}
    BY DEF RoutedCodes, Handles
  <1>6. Handles(5, request) => RoutedCodes = IF AsksForUpgrade THEN {101, 500} ELSE {400}
    BY DEF RoutedCodes, Handles
  <1>7. Handles(7, request) => RoutedCodes = {200}
    BY DEF RoutedCodes, Handles
  <1>8. (\A j \in 1..7 : ~Handles(j, request)) =>
           ~Handles(1, request) /\ ~Handles(2, request) /\ ~Handles(3, request) /\ ~Handles(4, request)
           /\ ~Handles(5, request) /\ ~Handles(6, request) /\ ~Handles(7, request)
    OBVIOUS
  <1>9. (\A j \in 1..7 : ~Handles(j, request)) /\ Handles(8, request) =>
          RoutedCodes = IF request.path \in Files THEN {200} ELSE {404}
    BY <1>8 DEF RoutedCodes, Handles
  <1>10. (\A j \in 1..8 : ~Handles(j, request)) =>
           (\A j \in 1..7 : ~Handles(j, request)) /\ ~Handles(8, request)
    OBVIOUS
  <1>11. (\A j \in 1..8 : ~Handles(j, request)) => RoutedCodes = {404}
    BY <1>8, <1>10 DEF RoutedCodes, Handles
  <1> QED
    BY <1>1, <1>3, <1>4, <1>5, <1>6, <1>7, <1>9, <1>11

\* A response to which nothing has been done but set headers
Fresh(r) == Limited(r) /\ r.status = 0 /\ ~r.headersSent /\ Stream(r) = <<>> /\ ~r.ended /\ ~r.convert

\* The calls of a handler: of those that print or end, none comes before the status at place p,
\* or there is no status to set and it is 200.
Suitable(x, codes, w, p) ==
  /\ x.op = "status" => x.arg \in codes /\ x.arg >= 200
  /\ x.op \in Printing => x.arg = w
  /\ x.op = "end" => p # 0
  /\ x.op # "convert"
Fitting(c, codes) ==
  /\ c \in Seq(LegalCalls)
  /\ \E p \in 0..Len(c), w \in BodyNames :
       /\ IF p = 0 THEN 200 \in codes ELSE c[p].op = "status"
       /\ \A i \in 1..p : c[i].op \notin Printing /\ c[i].op # "end"
       /\ \A i \in 1..Len(c) : Suitable(c[i], codes, w, p)
  /\ \E i \in 1..Len(c) : c[i].op \in Answering

\* Such calls answer a request rightly.
LEMMA FittingCalls ==
  ASSUME NEW c, NEW codes, Fitting(c, codes), NEW r, Fresh(r)
  PROVE  Rightly(c, r, codes) /\ Busy(c, r)
  <1>1. c \in Seq(LegalCalls) /\ Len(c) \in Nat
    BY DEF Fitting
  <1>2. PICK p \in 0..Len(c), w \in BodyNames :
           /\ IF p = 0 THEN 200 \in codes ELSE c[p].op = "status"
           /\ \A i \in 1..p : c[i].op \notin Printing /\ c[i].op # "end"
           /\ \A i \in 1..Len(c) : Suitable(c[i], codes, w, p)
    BY DEF Fitting
  <1>3. Busy(c, r)
    BY DEF Fitting, Busy
  <1>4. Sound(r, codes)
    BY DEF Fresh, Sound, Shape
  <1>5. BodyFits(c, r)
    <2>1. BodyIs(Stream(r), w)
      BY DEF Fresh, BodyIs
    <2>2. \A i \in 1..Len(c) : c[i].op \in Printing => c[i].arg = w
      BY <1>2 DEF Suitable
    <2> QED
      BY <2>1, <2>2 DEF BodyFits
  <1>6. CallsFit(c, r, codes)
    <2> SUFFICES ASSUME NEW i \in 1..Len(c)
                 PROVE  /\ c[i].op = "status" => c[i].arg \in codes /\ c[i].arg >= 200
                        /\ c[i].op \in Printing => r.status # 0 \/ 200 \in codes \/ Earlier(c, {"status"}, i)
                        /\ c[i].op = "end" => r.status # 0 \/ Earlier(c, Answering, i)
                        /\ c[i].op # "convert"
      BY DEF CallsFit
    <2>1. Suitable(c[i], codes, w, p)
      BY <1>2
    <2>2. c[i].op \in Printing \/ c[i].op = "end" => i \notin 1..p
      BY <1>2
    <2>3. i \notin 1..p /\ p # 0 => p \in 1..(i - 1)
      BY <1>1
    <2>4. p # 0 => c[p].op = "status"
      BY <1>2
    <2>5. (c[i].op \in Printing \/ c[i].op = "end") /\ p # 0 => Earlier(c, {"status"}, i) /\ Earlier(c, Answering, i)
      BY <2>2, <2>3, <2>4 DEF Earlier, Answering
    <2>6. p = 0 => 200 \in codes
      BY <1>2
    <2> QED
      BY <2>1, <2>5, <2>6 DEF Suitable
  <1> QED
    BY <1>3, <1>4, <1>5, <1>6 DEF Rightly

\* Where the calls are when two sequences of them are joined
LEMMA JoinedCalls ==
  ASSUME NEW x \in Seq(LegalCalls), NEW y \in Seq(LegalCalls)
  PROVE  /\ x \o y \in Seq(LegalCalls) /\ Len(x \o y) = Len(x) + Len(y)
         /\ \A i \in 1..Len(x) : (x \o y)[i] = x[i]
         /\ \A i \in 1..Len(y) : (x \o y)[Len(x) + i] = y[i]
  OBVIOUS

\* Where they are when one is added
LEMMA AddedCall ==
  ASSUME NEW x \in Seq(LegalCalls), NEW y \in LegalCalls
  PROVE  /\ Append(x, y) \in Seq(LegalCalls) /\ Len(Append(x, y)) = Len(x) + 1
         /\ \A i \in 1..Len(x) : Append(x, y)[i] = x[i]
         /\ Append(x, y)[Len(x) + 1] = y
  OBVIOUS

\* sendStatus()
LEMMA SendStatusFits ==
  ASSUME NEW codes, NEW code \in Codes, code >= 200, code \in codes
  PROVE  Fitting(sendStatus(code), codes)
  <1> DEFINE s1 == Status(code)
             s2 == Println("status")
             c == sendStatus(code)
  <1>1. /\ s1 \in LegalCalls /\ s1.op = "status" /\ s1.arg = code
        /\ s2 \in LegalCalls /\ s2.op = "print" /\ s2.arg = "status"
    BY LegalCallsOf DEF Codes, HeaderNames, BodyNames
  <1>2. c = <<s1, s2>>
    BY DEF sendStatus
  <1> HIDE DEF s1, s2, c
  <1>3. c \in Seq(LegalCalls) /\ Len(c) = 2 /\ c[1] = s1 /\ c[2] = s2
    BY <1>1, <1>2
  <1>4. \A i \in 1..2 : i = 1 \/ i = 2
    OBVIOUS
  <1>5. \A i \in 1..2 : Suitable(c[i], codes, "status", 1)
    BY <1>1, <1>3, <1>4 DEF Suitable, Printing
  <1>6. \A i \in 1..1 : c[i].op \notin Printing /\ c[i].op # "end"
    BY <1>1, <1>3 DEF Printing
  <1>7. c[1].op = "status" /\ 1 \in 1..2 /\ 1 \in 0..2 /\ 1 # 0
    BY <1>1, <1>3
  <1> QED
    <2>1. "status" \in BodyNames /\ "status" \in Answering
      BY DEF BodyNames, Answering
    <2> QED
      BY <1>3, <1>5, <1>6, <1>7, <2>1 DEF Fitting, c

\* notfound()
LEMMA NotFoundFits ==
  ASSUME NEW codes, 404 \in codes
  PROVE  Fitting(notfound, codes)
  <1> DEFINE s1 == Status(404)
             s2 == Set("Server")
             s3 == Set("Content-Type")
             s4 == Println("notfound")
             c == notfound
  <1>1. /\ s1 \in LegalCalls /\ s1.op = "status" /\ s1.arg = 404
        /\ s2 \in LegalCalls /\ s2.op = "set"
        /\ s3 \in LegalCalls /\ s3.op = "set"
        /\ s4 \in LegalCalls /\ s4.op = "print" /\ s4.arg = "notfound"
    BY LegalCallsOf DEF Codes, HeaderNames, BodyNames
  <1>2. c = <<s1, s2, s3, s4>>
    BY DEF notfound
  <1> HIDE DEF s1, s2, s3, s4, c
  <1>3. c \in Seq(LegalCalls) /\ Len(c) = 4 /\ c[1] = s1 /\ c[2] = s2 /\ c[3] = s3 /\ c[4] = s4
    BY <1>1, <1>2
  <1>4. \A i \in 1..4 : i = 1 \/ i = 2 \/ i = 3 \/ i = 4
    OBVIOUS
  <1>5. \A i \in 1..4 : Suitable(c[i], codes, "notfound", 1)
    BY <1>1, <1>3, <1>4 DEF Suitable, Printing
  <1>6. \A i \in 1..1 : c[i].op \notin Printing /\ c[i].op # "end"
    BY <1>1, <1>3 DEF Printing
  <1>7. c[1].op = "status" /\ 1 \in 1..4 /\ 1 \in 0..4 /\ 1 # 0
    BY <1>1, <1>3
  <1> QED
    <2>1. "notfound" \in BodyNames /\ "status" \in Answering
      BY DEF BodyNames, Answering
    <2> QED
      BY <1>3, <1>5, <1>6, <1>7, <2>1 DEF Fitting, c

\* serve_static() of a file
LEMMA ServeFileFits ==
  ASSUME NEW codes, 200 \in codes
  PROVE  Fitting(Append(serve_file, Call("end", 0)), codes)
  <1> DEFINE s1 == Status(200)
             s2 == Set("Content-Type")
             s3 == Set("ETag")
             s4 == Call("write", "file")
             s5 == Call("flush", 0)
             s6 == Call("end", 0)
             c == Append(serve_file, Call("end", 0))
  <1>1. /\ s1 \in LegalCalls /\ s1.op = "status" /\ s1.arg = 200
        /\ s2 \in LegalCalls /\ s2.op = "set"
        /\ s3 \in LegalCalls /\ s3.op = "set"
        /\ s4 \in LegalCalls /\ s4.op = "write" /\ s4.arg = "file"
        /\ s5 \in LegalCalls /\ s5.op = "flush"
        /\ s6 \in LegalCalls /\ s6.op = "end"
    BY LegalCallsOf DEF Codes, HeaderNames, BodyNames
  <1> DEFINE x == <<s1, s2, s3, s4, s5>>
             y == <<s6>>
  <1>2. c = Append(x, s6)
    BY DEF serve_file
  <1> HIDE DEF s1, s2, s3, s4, s5, s6
  <1>a. x \in Seq(LegalCalls) /\ Len(x) = 5 /\ x[1] = s1 /\ x[2] = s2 /\ x[3] = s3 /\ x[4] = s4 /\ x[5] = s5
    BY <1>1
  <1> HIDE DEF c, x, y
  <1>c. /\ c \in Seq(LegalCalls) /\ Len(c) = Len(x) + 1 /\ (\A i \in 1..Len(x) : c[i] = x[i])
        /\ c[Len(x) + 1] = s6
    BY <1>a, <1>1, <1>2, AddedCall, ZenonT(40)
  <1>d. c[1] = x[1] /\ c[2] = x[2] /\ c[3] = x[3] /\ c[4] = x[4] /\ c[5] = x[5]
    BY <1>a, <1>c
  <1>3. c \in Seq(LegalCalls) /\ Len(c) = 6 /\ c[1] = s1 /\ c[2] = s2 /\ c[3] = s3 /\ c[4] = s4 /\ c[5] = s5 /\ c[6] = s6
    BY <1>a, <1>c, <1>d
  <1>4. \A i \in 1..6 : i = 1 \/ i = 2 \/ i = 3 \/ i = 4 \/ i = 5 \/ i = 6
    OBVIOUS
  <1>5. \A i \in 1..6 : Suitable(c[i], codes, "file", 1)
    BY <1>1, <1>3, <1>4 DEF Suitable, Printing
  <1>6. \A i \in 1..1 : c[i].op \notin Printing /\ c[i].op # "end"
    BY <1>1, <1>3 DEF Printing
  <1>7. c[1].op = "status" /\ 1 \in 1..6 /\ 1 \in 0..6 /\ 1 # 0
    BY <1>1, <1>3
  <1> QED
    <2>1. "file" \in BodyNames /\ "status" \in Answering
      BY DEF BodyNames, Answering
    <2> QED
      BY <1>3, <1>5, <1>6, <1>7, <2>1 DEF Fitting, c

\* index(): the file
LEMMA IndexFits ==
  ASSUME NEW codes, 200 \in codes
  PROVE  Fitting(<<Status(200)>> \o serve_file, codes)
  <1> DEFINE s1 == Status(200)
             s2 == Status(200)
             s3 == Set("Content-Type")
             s4 == Set("ETag")
             s5 == Call("write", "file")
             s6 == Call("flush", 0)
             c == <<Status(200)>> \o serve_file
  <1>1. /\ s1 \in LegalCalls /\ s1.op = "status" /\ s1.arg = 200
        /\ s2 \in LegalCalls /\ s2.op = "status" /\ s2.arg = 200
        /\ s3 \in LegalCalls /\ s3.op = "set"
        /\ s4 \in LegalCalls /\ s4.op = "set"
        /\ s5 \in LegalCalls /\ s5.op = "write" /\ s5.arg = "file"
        /\ s6 \in LegalCalls /\ s6.op = "flush"
    BY LegalCallsOf DEF Codes, HeaderNames, BodyNames
  <1> DEFINE x == <<s1>>
             y == <<s2, s3, s4, s5, s6>>
  <1>2. c = x \o y
    BY DEF serve_file
  <1> HIDE DEF s1, s2, s3, s4, s5, s6
  <1>a. x \in Seq(LegalCalls) /\ Len(x) = 1 /\ x[1] = s1
    BY <1>1
  <1>b. y \in Seq(LegalCalls) /\ Len(y) = 5 /\ y[1] = s2 /\ y[2] = s3 /\ y[3] = s4 /\ y[4] = s5 /\ y[5] = s6
    BY <1>1
  <1> HIDE DEF c, x, y
  <1>c. /\ c \in Seq(LegalCalls) /\ Len(c) = Len(x) + Len(y) /\ (\A i \in 1..Len(x) : c[i] = x[i])
        /\ \A i \in 1..Len(y) : c[Len(x) + i] = y[i]
    BY <1>a, <1>b, <1>2, JoinedCalls
  <1>d. c[1] = x[1]
    BY <1>a, <1>c
  <1>e. c[1 + 1] = y[1] /\ c[1 + 2] = y[2] /\ c[1 + 3] = y[3] /\ c[1 + 4] = y[4] /\ c[1 + 5] = y[5]
    BY <1>a, <1>b, <1>c
  <1>3. c \in Seq(LegalCalls) /\ Len(c) = 6 /\ c[1] = s1 /\ c[2] = s2 /\ c[3] = s3 /\ c[4] = s4 /\ c[5] = s5 /\ c[6] = s6
    BY <1>a, <1>b, <1>c, <1>d, <1>e
  <1>4. \A i \in 1..6 : i = 1 \/ i = 2 \/ i = 3 \/ i = 4 \/ i = 5 \/ i = 6
    OBVIOUS
  <1>5. \A i \in 1..6 : Suitable(c[i], codes, "file", 1)
    BY <1>1, <1>3, <1>4 DEF Suitable, Printing
  <1>6. \A i \in 1..1 : c[i].op \notin Printing /\ c[i].op # "end"
    BY <1>1, <1>3 DEF Printing
  <1>7. c[1].op = "status" /\ 1 \in 1..6 /\ 1 \in 0..6 /\ 1 # 0
    BY <1>1, <1>3
  <1> QED
    <2>1. "file" \in BodyNames /\ "status" \in Answering
      BY DEF BodyNames, Answering
    <2> QED
      BY <1>3, <1>5, <1>6, <1>7, <2>1, SMTT(40) DEF Fitting, c

\* index() without a file
LEMMA NoIndexFits ==
  ASSUME NEW codes, 501 \in codes
  PROVE  Fitting(<<Status(501), Set("Content-Type"), Println("index")>>, codes)
  <1> DEFINE s1 == Status(501)
             s2 == Set("Content-Type")
             s3 == Println("index")
             c == <<Status(501), Set("Content-Type"), Println("index")>>
  <1>1. /\ s1 \in LegalCalls /\ s1.op = "status" /\ s1.arg = 501
        /\ s2 \in LegalCalls /\ s2.op = "set"
        /\ s3 \in LegalCalls /\ s3.op = "print" /\ s3.arg = "index"
    BY LegalCallsOf DEF Codes, HeaderNames, BodyNames
  <1>2. c = <<s1, s2, s3>>
    OBVIOUS
  <1> HIDE DEF s1, s2, s3, c
  <1>3. c \in Seq(LegalCalls) /\ Len(c) = 3 /\ c[1] = s1 /\ c[2] = s2 /\ c[3] = s3
    BY <1>1, <1>2
  <1>4. \A i \in 1..3 : i = 1 \/ i = 2 \/ i = 3
    OBVIOUS
  <1>5. \A i \in 1..3 : Suitable(c[i], codes, "index", 1)
    BY <1>1, <1>3, <1>4 DEF Suitable, Printing
  <1>6. \A i \in 1..1 : c[i].op \notin Printing /\ c[i].op # "end"
    BY <1>1, <1>3 DEF Printing
  <1>7. c[1].op = "status" /\ 1 \in 1..3 /\ 1 \in 0..3 /\ 1 # 0
    BY <1>1, <1>3
  <1> QED
    <2>1. "index" \in BodyNames /\ "status" \in Answering
      BY DEF BodyNames, Answering
    <2> QED
      BY <1>3, <1>5, <1>6, <1>7, <2>1 DEF Fitting, c

\* about_static()
LEMMA AboutFits ==
  ASSUME NEW codes, 200 \in codes
  PROVE  Fitting(about_static, codes)
  <1> DEFINE s1 == Set("Server")
             s2 == Set("Content-Type")
             s3 == Println("about")
             c == about_static
  <1>1. /\ s1 \in LegalCalls /\ s1.op = "set"
        /\ s2 \in LegalCalls /\ s2.op = "set"
        /\ s3 \in LegalCalls /\ s3.op = "print" /\ s3.arg = "about"
    BY LegalCallsOf DEF Codes, HeaderNames, BodyNames
  <1>2. c = <<s1, s2, s3>>
    BY DEF about_static
  <1> HIDE DEF s1, s2, s3, c
  <1>3. c \in Seq(LegalCalls) /\ Len(c) = 3 /\ c[1] = s1 /\ c[2] = s2 /\ c[3] = s3
    BY <1>1, <1>2
  <1>4. \A i \in 1..3 : i = 1 \/ i = 2 \/ i = 3
    OBVIOUS
  <1>5. \A i \in 1..3 : Suitable(c[i], codes, "about", 0)
    BY <1>1, <1>3, <1>4 DEF Suitable, Printing
  <1>6. c[3].op = "print" /\ 0 \in 0..3 /\ 3 \in 1..3 /\ \A i \in 1..0 : FALSE
    BY <1>1, <1>3
  <1> QED
    <2>1. "about" \in BodyNames /\ "print" \in Answering
      BY DEF BodyNames, Answering
    <2> QED
      BY <1>3, <1>5, <1>6, <2>1 DEF Fitting, c

\* api_preflight()
LEMMA PreflightFits ==
  ASSUME NEW codes, 200 \in codes
  PROVE  Fitting(api_preflight, codes)
  <1> DEFINE s1 == Status(200)
             s2 == Set("Server")
             s3 == Set("Content-Type")
             s4 == Set("Allow-Origin")
             s5 == Set("Allow-Credentials")
             s6 == Set("Allow-Methods")
             s7 == Set("Allow-Headers")
             c == api_preflight
  <1>1. /\ s1 \in LegalCalls /\ s1.op = "status" /\ s1.arg = 200
        /\ s2 \in LegalCalls /\ s2.op = "set"
        /\ s3 \in LegalCalls /\ s3.op = "set"
        /\ s4 \in LegalCalls /\ s4.op = "set"
        /\ s5 \in LegalCalls /\ s5.op = "set"
        /\ s6 \in LegalCalls /\ s6.op = "set"
        /\ s7 \in LegalCalls /\ s7.op = "set"
    BY LegalCallsOf DEF Codes, HeaderNames, BodyNames
  <1> DEFINE x == <<s1>>
             y == <<s2, s3, s4, s5, s6, s7>>
  <1>2. c = x \o y
    BY DEF api_preflight, set_cors
  <1> HIDE DEF s1, s2, s3, s4, s5, s6, s7
  <1>a. x \in Seq(LegalCalls) /\ Len(x) = 1 /\ x[1] = s1
    BY <1>1
  <1>b. y \in Seq(LegalCalls) /\ Len(y) = 6 /\ y[1] = s2 /\ y[2] = s3 /\ y[3] = s4 /\ y[4] = s5 /\ y[5] = s6 /\ y[6] = s7
    BY <1>1
  <1> HIDE DEF c, x, y
  <1>c. /\ c \in Seq(LegalCalls) /\ Len(c) = Len(x) + Len(y) /\ (\A i \in 1..Len(x) : c[i] = x[i])
        /\ \A i \in 1..Len(y) : c[Len(x) + i] = y[i]
    BY <1>a, <1>b, <1>2, JoinedCalls
  <1>d. c[1] = x[1]
    BY <1>a, <1>c
  <1>e. c[1 + 1] = y[1] /\ c[1 + 2] = y[2] /\ c[1 + 3] = y[3] /\ c[1 + 4] = y[4] /\ c[1 + 5] = y[5] /\ c[1 + 6] = y[6]
    BY <1>a, <1>b, <1>c
  <1>3. c \in Seq(LegalCalls) /\ Len(c) = 7 /\ c[1] = s1 /\ c[2] = s2 /\ c[3] = s3 /\ c[4] = s4 /\ c[5] = s5 /\ c[6] = s6 /\ c[7] = s7
    BY <1>a, <1>b, <1>c, <1>d, <1>e
  <1>4. \A i \in 1..7 : i = 1 \/ i = 2 \/ i = 3 \/ i = 4 \/ i = 5 \/ i = 6 \/ i = 7
    OBVIOUS
  <1>5. \A i \in 1..7 : Suitable(c[i], codes, "api", 1)
    BY <1>1, <1>3, <1>4 DEF Suitable, Printing
  <1>6. \A i \in 1..1 : c[i].op \notin Printing /\ c[i].op # "end"
    BY <1>1, <1>3 DEF Printing
  <1>7. c[1].op = "status" /\ 1 \in 1..7 /\ 1 \in 0..7 /\ 1 # 0
    BY <1>1, <1>3
  <1> QED
    <2>1. "api" \in BodyNames /\ "status" \in Answering
      BY DEF BodyNames, Answering
    <2> QED
      BY <1>3, <1>5, <1>6, <1>7, <2>1 DEF Fitting, c

\* api()
LEMMA ApiFits ==
  ASSUME NEW codes, NEW code \in Codes, code >= 200, code \in codes
  PROVE  Fitting(set_cors \o <<Status(code), Println("api")>>, codes)
  <1> DEFINE s1 == Set("Server")
             s2 == Set("Content-Type")
             s3 == Set("Allow-Origin")
             s4 == Set("Allow-Credentials")
             s5 == Set("Allow-Methods")
             s6 == Set("Allow-Headers")
             s7 == Status(code)
             s8 == Println("api")
             c == set_cors \o <<Status(code), Println("api")>>
  <1>1. /\ s1 \in LegalCalls /\ s1.op = "set"
        /\ s2 \in LegalCalls /\ s2.op = "set"
        /\ s3 \in LegalCalls /\ s3.op = "set"
        /\ s4 \in LegalCalls /\ s4.op = "set"
        /\ s5 \in LegalCalls /\ s5.op = "set"
        /\ s6 \in LegalCalls /\ s6.op = "set"
        /\ s7 \in LegalCalls /\ s7.op = "status" /\ s7.arg = code
        /\ s8 \in LegalCalls /\ s8.op = "print" /\ s8.arg = "api"
    BY LegalCallsOf DEF Codes, HeaderNames, BodyNames
  <1> DEFINE x == <<s1, s2, s3, s4, s5, s6>>
             y == <<s7, s8>>
  <1>2. c = x \o y
    BY DEF set_cors
  <1> HIDE DEF s1, s2, s3, s4, s5, s6, s7, s8
  <1>a. x \in Seq(LegalCalls) /\ Len(x) = 6 /\ x[1] = s1 /\ x[2] = s2 /\ x[3] = s3 /\ x[4] = s4 /\ x[5] = s5 /\ x[6] = s6
    BY <1>1
  <1>b. y \in Seq(LegalCalls) /\ Len(y) = 2 /\ y[1] = s7 /\ y[2] = s8
    BY <1>1
  <1> HIDE DEF c, x, y
  <1>c. /\ c \in Seq(LegalCalls) /\ Len(c) = Len(x) + Len(y) /\ (\A i \in 1..Len(x) : c[i] = x[i])
        /\ \A i \in 1..Len(y) : c[Len(x) + i] = y[i]
    BY <1>a, <1>b, <1>2, JoinedCalls
  <1>d. c[1] = x[1] /\ c[2] = x[2] /\ c[3] = x[3] /\ c[4] = x[4] /\ c[5] = x[5] /\ c[6] = x[6]
    BY <1>a, <1>c
  <1>e. c[6 + 1] = y[1] /\ c[6 + 2] = y[2]
    BY <1>a, <1>b, <1>c
  <1>3. c \in Seq(LegalCalls) /\ Len(c) = 8 /\ c[1] = s1 /\ c[2] = s2 /\ c[3] = s3 /\ c[4] = s4 /\ c[5] = s5 /\ c[6] = s6 /\ c[7] = s7 /\ c[8] = s8
    BY <1>a, <1>b, <1>c, <1>d, <1>e
  <1>4. \A i \in 1..8 : i = 1 \/ i = 2 \/ i = 3 \/ i = 4 \/ i = 5 \/ i = 6 \/ i = 7 \/ i = 8
    OBVIOUS
  <1>5. \A i \in 1..8 : Suitable(c[i], codes, "api", 7)
    BY <1>1, <1>3, <1>4 DEF Suitable, Printing
  <1>6. \A i \in 1..7 : c[i].op \notin Printing /\ c[i].op # "end"
    BY <1>1, <1>3 DEF Printing
  <1>7. c[7].op = "status" /\ 7 \in 1..8 /\ 7 \in 0..8 /\ 7 # 0
    BY <1>1, <1>3
  <1> QED
    <2>1. "api" \in BodyNames /\ "status" \in Answering
      BY DEF BodyNames, Answering
    <2> QED
      BY <1>3, <1>5, <1>6, <1>7, <2>1 DEF Fitting, c

\* websocket_upgrade() of a request that does not ask for it
LEMMA WrongUpgradeFits ==
  ASSUME NEW codes, 400 \in codes
  PROVE  Fitting(<<Set("Server"), Status(400), Set("Content-Type"), Println("upgrade"), Println("upgrade")>>, codes)
  <1> DEFINE s1 == Set("Server")
             s2 == Status(400)
             s3 == Set("Content-Type")
             s4 == Println("upgrade")
             s5 == Println("upgrade")
             c == <<Set("Server"), Status(400), Set("Content-Type"), Println("upgrade"), Println("upgrade")>>
  <1>1. /\ s1 \in LegalCalls /\ s1.op = "set"
        /\ s2 \in LegalCalls /\ s2.op = "status" /\ s2.arg = 400
        /\ s3 \in LegalCalls /\ s3.op = "set"
        /\ s4 \in LegalCalls /\ s4.op = "print" /\ s4.arg = "upgrade"
        /\ s5 \in LegalCalls /\ s5.op = "print" /\ s5.arg = "upgrade"
    BY LegalCallsOf DEF Codes, HeaderNames, BodyNames
  <1>2. c = <<s1, s2, s3, s4, s5>>
    OBVIOUS
  <1> HIDE DEF s1, s2, s3, s4, s5, c
  <1>3. c \in Seq(LegalCalls) /\ Len(c) = 5 /\ c[1] = s1 /\ c[2] = s2 /\ c[3] = s3 /\ c[4] = s4 /\ c[5] = s5
    BY <1>1, <1>2
  <1>4. \A i \in 1..5 : i = 1 \/ i = 2 \/ i = 3 \/ i = 4 \/ i = 5
    OBVIOUS
  <1>5. \A i \in 1..5 : Suitable(c[i], codes, "upgrade", 2)
    BY <1>1, <1>3, <1>4 DEF Suitable, Printing
  <1>6. \A i \in 1..2 : c[i].op \notin Printing /\ c[i].op # "end"
    BY <1>1, <1>3 DEF Printing
  <1>7. c[2].op = "status" /\ 2 \in 1..5 /\ 2 \in 0..5 /\ 2 # 0
    BY <1>1, <1>3
  <1> QED
    <2>1. "upgrade" \in BodyNames /\ "status" \in Answering
      BY DEF BodyNames, Answering
    <2> QED
      BY <1>3, <1>5, <1>6, <1>7, <2>1 DEF Fitting, c

\* websocket_upgrade() with no place left
LEMMA FullUpgradeFits ==
  ASSUME NEW codes, 500 \in codes
  PROVE  Fitting(<<Set("Server"), Status(500), Set("Content-Type"), Println("upgrade")>>, codes)
  <1> DEFINE s1 == Set("Server")
             s2 == Status(500)
             s3 == Set("Content-Type")
             s4 == Println("upgrade")
             c == <<Set("Server"), Status(500), Set("Content-Type"), Println("upgrade")>>
  <1>1. /\ s1 \in LegalCalls /\ s1.op = "set"
        /\ s2 \in LegalCalls /\ s2.op = "status" /\ s2.arg = 500
        /\ s3 \in LegalCalls /\ s3.op = "set"
        /\ s4 \in LegalCalls /\ s4.op = "print" /\ s4.arg = "upgrade"
    BY LegalCallsOf DEF Codes, HeaderNames, BodyNames
  <1>2. c = <<s1, s2, s3, s4>>
    OBVIOUS
  <1> HIDE DEF s1, s2, s3, s4, c
  <1>3. c \in Seq(LegalCalls) /\ Len(c) = 4 /\ c[1] = s1 /\ c[2] = s2 /\ c[3] = s3 /\ c[4] = s4
    BY <1>1, <1>2
  <1>4. \A i \in 1..4 : i = 1 \/ i = 2 \/ i = 3 \/ i = 4
    OBVIOUS
  <1>5. \A i \in 1..4 : Suitable(c[i], codes, "upgrade", 2)
    BY <1>1, <1>3, <1>4 DEF Suitable, Printing
  <1>6. \A i \in 1..2 : c[i].op \notin Printing /\ c[i].op # "end"
    BY <1>1, <1>3 DEF Printing
  <1>7. c[2].op = "status" /\ 2 \in 1..4 /\ 2 \in 0..4 /\ 2 # 0
    BY <1>1, <1>3
  <1> QED
    <2>1. "upgrade" \in BodyNames /\ "status" \in Answering
      BY DEF BodyNames, Answering
    <2> QED
      BY <1>3, <1>5, <1>6, <1>7, <2>1 DEF Fitting, c

\* The routes as begin() registers them
LEMMA RoutesTable ==
  /\ Len(Routes) = 8
  /\ Routes[1] = Route("GET", "/", index) /\ Routes[2] = Route("GET", "/api", api)
  /\ Routes[3] = Route("POST", "/api", api) /\ Routes[4] = Route("OPTIONS", "/api", api_preflight)
  /\ Routes[5] = Route("GET", "/websocket", websocket_upgrade)
  /\ Routes[6] = Route("OPTIONS", "/websocket", api_preflight)
  /\ Routes[7] = Route("GET", "/webserver-status", about_static)
  /\ Routes[8] = Route("GET", AnyPath, serve_static)
  BY DEF Routes

\* A route matches if it handles the request.
LEMMA RouteMatches ==
  ASSUME NEW k \in 1..8
  PROVE  Matches(Routes[k]) <=> Handles(k, request)
  <1>1. \A m, p, c : /\ Route(m, p, c).method = m /\ Route(m, p, c).path = p
    BY DEF Route
  <1>2. \A m, p, c : Matches(Route(m, p, c)) <=>
          (p = "/websocket" => EnableWebsockets) /\ m = request.method /\ (p = AnyPath \/ p = request.path)
    BY <1>1 DEF Matches, IsRegistered, m_routeMatch
  <1>3. k = 1 \/ k = 2 \/ k = 3 \/ k = 4 \/ k = 5 \/ k = 6 \/ k = 7 \/ k = 8
    OBVIOUS
  <1>4. CASE k = 1
    BY <1>2, <1>4, RoutesTable DEF Handles, AnyPath
  <1>5. CASE k = 2
    BY <1>2, <1>5, RoutesTable DEF Handles, AnyPath
  <1>6. CASE k = 3
    BY <1>2, <1>6, RoutesTable DEF Handles, AnyPath
  <1>7. CASE k = 4
    BY <1>2, <1>7, RoutesTable DEF Handles, AnyPath
  <1>8. CASE k = 5
    BY <1>2, <1>8, RoutesTable DEF Handles, AnyPath
  <1>9. CASE k = 6
    BY <1>2, <1>9, RoutesTable DEF Handles, AnyPath
  <1>10. CASE k = 7
    BY <1>2, <1>10, RoutesTable DEF Handles, AnyPath
  <1>11. CASE k = 8
    BY <1>2, <1>11, RoutesTable DEF Handles, AnyPath
  <1> QED
    BY <1>3, <1>4, <1>5, <1>6, <1>7, <1>8, <1>9, <1>10, <1>11

\* Of the routes before the last one no two handle the same request.
LEMMA OneRoute ==
  ASSUME NEW k \in 1..8, NEW rq, Handles(k, rq)
  PROVE  \A j \in (k + 1)..7 : ~Handles(j, rq)
  BY DEF Handles

\* An empty stream is an empty buffer, and nothing sent.
LEMMA NothingWritten ==
  ASSUME NEW r \in Responses
  PROVE  (r.buf # <<>> \/ r.wire # <<>>) <=> Stream(r) # <<>>
  <1> DEFINE x == r.wire
             y == r.buf
  <1>1. x \in Seq(OutPieces) /\ y \in Seq(OutPieces)
    BY ResponseFields
  <1>2. Stream(r) = x \o y
    BY DEF Stream
  <1> HIDE DEF x, y
  <1>3. x \o y \in Seq(OutPieces) /\ Len(x) \in Nat /\ Len(y) \in Nat /\ Len(x \o y) = Len(x) + Len(y)
    BY <1>1, JoinedPieces
  <1> DEFINE z == x \o y
  <1>4. \A s \in Seq(OutPieces) : s = <<>> <=> Len(s) = 0
    BY EmptySeq
  <1>5. z \in Seq(OutPieces) /\ Len(z) = Len(x) + Len(y)
    BY <1>3
  <1> HIDE DEF z
  <1>6. z = <<>> <=> x = <<>> /\ y = <<>>
    <2>1. Len(z) = 0 <=> Len(x) = 0 /\ Len(y) = 0
      BY <1>3, <1>5
    <2> QED
      BY <1>1, <1>4, <1>5, <2>1
  <1> QED
    BY <1>2, <1>6 DEF x, y, z

IsUpgrade(c) == c = switch_protocols /\ 101 \in Fit /\ Requested(request) /\ Len(clients) < MaxConnections

\* The handler of the route that is responsible makes calls that fit.
LEMMA RouteCallsFit ==
  ASSUME HttpTypes, HttpFlags, AllRead(request, buffers, left), Fresh(resp), NEW k \in 1..8, Handles(k, request),
         \A j \in 1..(k - 1) : ~Handles(j, request)
  PROVE  Fitting(Routes[k].calls, Fit) \/ IsUpgrade(Routes[k].calls)
  <1>1. request.lines \in Seq(HeaderLines) /\ buffers \in [Registered -> Seq(Strings)]
    BY DEF HttpTypes
  <1>2. \A code \in ExpectedCodes : code \in Fit
    BY DEF Fit
  <1>3. \A m, p, c : Route(m, p, c).calls = c
    BY DEF Route
  <1>4. CASE k = 1
    <2>1. ExpectedCodes = (IF "/index.html" \in Files THEN {200} ELSE {501})
      BY <1>1, <1>4, CodesOfRoutes
    <2>2. Routes[k].calls = index
      BY <1>3, <1>4, RoutesTable
    <2>3. CASE "/index.html" \in Files
      BY <1>2, <2>1, <2>2, <2>3, IndexFits DEF index
    <2>4. CASE "/index.html" \notin Files
      BY <1>2, <2>1, <2>2, <2>4, NoIndexFits DEF index
    <2> QED
      BY <2>3, <2>4
  <1>5. CASE k = 2 \/ k = 3
    <2> DEFINE code == IF left /\ request.body = "json" /\ ~stalled THEN 200 ELSE 400
    <2>1. ExpectedCodes = IF request.body = "json" /\ Values("Content-Length") # {} THEN {200} ELSE {400}
      BY <1>1, <1>5, CodesOfRoutes
    <2>2. left <=> Values("Content-Length") # {}
      BY <1>1, BuffersTell
    <2>3. code \in Codes /\ code >= 200
      BY DEF Codes
    <2>4. code \in Fit
      <3>1. CASE stalled
        <4>1. code = 400 /\ 400 \in Fit
          BY <3>1 DEF Fit
        <4> QED
          BY <4>1
      <3>2. CASE ~stalled
        BY <1>2, <2>1, <2>2, <3>2
      <3> QED
        BY <3>1, <3>2
    <2>5. Routes[k].calls = set_cors \o <<Status(code), Println("api")>>
      <3>1. Routes[k].calls = api
        BY <1>3, <1>5, RoutesTable
      <3>2. api = set_cors \o <<Status(code), Println("api")>>
        BY Zenon DEF api
      <3> QED
        BY <3>1, <3>2, Zenon
    <2> HIDE DEF code
    <2> QED
      BY <2>3, <2>4, <2>5, ApiFits
  <1>6. CASE k = 4 \/ k = 6
    <2>1. ExpectedCodes = {200}
      BY <1>1, <1>6, CodesOfRoutes
    <2>2. Routes[k].calls = api_preflight
      BY <1>3, <1>6, RoutesTable
    <2> QED
      BY <1>2, <2>1, <2>2, PreflightFits
  <1>7. CASE k = 5
    <2>1. ExpectedCodes = IF AsksForUpgrade THEN {101, 500} ELSE {400}
      BY <1>1, <1>7, CodesOfRoutes
    <2>2. (~HasErrors <=> AsksForUpgrade) /\ (AsksForUpgrade => Requested(request))
      BY <1>1, BuffersTell
    <2>3. Routes[k].calls = websocket_upgrade
      BY <1>3, <1>7, RoutesTable
    <2>4. CASE HasErrors
      BY <1>2, <2>1, <2>2, <2>3, <2>4, WrongUpgradeFits DEF websocket_upgrade
    <2>5. CASE ~HasErrors /\ Full
      BY <1>2, <2>1, <2>2, <2>3, <2>5, FullUpgradeFits DEF websocket_upgrade
    <2>6. CASE ~HasErrors /\ ~Full
      <3>1. Len(clients) < MaxConnections
        <4>1. Len(clients) \in Nat /\ Len(clients) <= MaxConnections /\ Len(clients) # MaxConnections
          BY <2>6 DEF HttpTypes, Full
        <4> QED
          BY <4>1, WebServerAssumption
      <3>2. 101 \in Fit /\ Requested(request)
        BY <1>2, <2>1, <2>2, <2>6
      <3>3. websocket_upgrade = switch_protocols
        BY <2>6 DEF websocket_upgrade
      <3> QED
        BY <2>3, <3>1, <3>2, <3>3 DEF IsUpgrade
    <2> QED
      BY <2>4, <2>5, <2>6
  <1>8. CASE k = 7
    <2>1. ExpectedCodes = {200}
      BY <1>1, <1>8, CodesOfRoutes
    <2>2. Routes[k].calls = about_static
      BY <1>3, <1>8, RoutesTable
    <2> QED
      BY <1>2, <2>1, <2>2, AboutFits
  <1>9. CASE k = 8
    <2>1. \A j \in 1..7 : ~Handles(j, request)
      BY <1>9
    <2>2. ExpectedCodes = IF request.path \in Files THEN {200} ELSE {404}
      BY <1>1, <1>9, <2>1, CodesOfRoutes
    <2>3. Routes[k].calls = serve_static
      BY <1>3, <1>9, RoutesTable
    <2>4. ~bytesSent /\ ~resp.ended
      BY NothingWritten DEF bytesSent, Fresh, Limited
    <2>5. CASE request.path \in Files
      BY <1>2, <2>2, <2>3, <2>4, <2>5, ServeFileFits DEF serve_static
    <2>6. CASE request.path \notin Files
      BY <1>2, <2>2, <2>3, <2>4, <2>6, NotFoundFits DEF serve_static
    <2> QED
      BY <2>5, <2>6
  <1> QED
    BY <1>4, <1>5, <1>6, <1>7, <1>8, <1>9

\* The codes that fit depend on the request and its peer only.
LEMMA FitKept ==
  ASSUME UNCHANGED <<request, stalled>>
  PROVE  Fit' = Fit
  BY DEF Fit, ExpectedCodes, Values, AsksForUpgrade, Single

\* A request that is being read has a fresh response.
LEMMA NewIsFresh ==
  NewResponse \in Responses /\ Fresh(NewResponse)
  <1> DEFINE e == <<>>
  <1>1. e \in Seq(OutPieces) /\ e \in Seq(HeaderNames) /\ Len(e) = 0 /\ e \o e = <<>>
    OBVIOUS
  <1>2. /\ NewResponse.status = 0 /\ NewResponse.headers = e /\ NewResponse.headersSent = FALSE
        /\ NewResponse.typeSet = FALSE /\ NewResponse.lengthSet = FALSE /\ NewResponse.ended = FALSE
        /\ NewResponse.convert = FALSE /\ NewResponse.buf = e /\ NewResponse.wire = e
    BY DEF NewResponse
  <1>3. NewResponse \in Responses
    BY <1>1 DEF NewResponse, Responses
  <1> HIDE DEF e
  <1>4. Limited(NewResponse)
    BY <1>1, <1>2, <1>3, WebServerAssumption DEF Limited
  <1> QED
    BY <1>1, <1>2, <1>3, <1>4 DEF Fresh, Stream

\* A refusal is an answer that fits.
LEMMA RefuseStep ==
  ASSUME HttpTypes, HttpFlags, NEW code \in Codes, code >= 200, code \in Fit, Fresh(resp), Refuse(code)
  PROVE  HttpInv'
  <1>1. /\ calls' = sendStatus(code) /\ route' = 9 /\ at' = "handler"
        /\ UNCHANGED <<request, made, stalled, buffers, unread, left, resp, clients, pos>>
    BY RoutesTable DEF Refuse
  <1>2. Fitting(calls', Fit)
    BY <1>1, SendStatusFits
  <1>3. Rightly(calls', resp, Fit) /\ Busy(calls', resp) /\ calls' \in Seq(LegalCalls)
    BY <1>2, FittingCalls DEF Fitting
  <1>4. RoutesFit(calls', resp, 9, request, buffers, left)
    BY <1>3 DEF RoutesFit
  <1>5. Normal(calls', resp, Fit, 9, request, buffers, left)
    BY <1>3, <1>4 DEF Normal, Rightly
  <1>6. NormalNow'
    <2>1. Fit' = Fit
      BY <1>1, FitKept
    <2> QED
      BY <1>1, <1>5, <2>1 DEF NormalNow
  <1>7. HttpTypes' /\ HttpFlags'
    BY <1>1, <1>3 DEF HttpTypes, HttpFlags, HttpPlaces
  <1>8. ReadingInv' /\ AnswerInv'
    BY <1>1 DEF ReadingInv, AnswerInv, Reading
  <1>9. HandlingInv'
    BY <1>1, <1>6 DEF HandlingInv
  <1> QED
    BY <1>7, <1>8, <1>9 DEF HttpInv

\* Reading goes on.
LEMMA ContinueStep ==
  ASSUME HttpInv, at \in Reading, NEW next \in {"url", "version"}, Continue(next),
         request.method \in Methods, at = "method" \/ at = "url", next = "version" /\ request.path = TooLong => stalled
  PROVE  HttpInv'
  <1>1. at' = next /\ UNCHANGED <<request, made, stalled, buffers, unread, left, resp, route, calls, clients, pos>>
    BY DEF Continue
  <1>2. HttpTypes /\ HttpFlags /\ ReadingInv
    BY DEF HttpInv
  <1>3. HttpTypes'
    BY <1>1, <1>2 DEF HttpTypes, HttpPlaces, Reading
  <1>4. HttpFlags'
    BY <1>1, <1>2 DEF HttpFlags
  <1>5. ReadingInv'
    BY <1>1, <1>2 DEF ReadingInv, Reading
  <1>6. HandlingInv' /\ AnswerInv'
    BY <1>1 DEF HandlingInv, AnswerInv
  <1> QED
    BY <1>3, <1>4, <1>5, <1>6 DEF HttpInv

\* Application::m_process() reads the request line.
LEMMA RequestLineSteps ==
  ASSUME HttpInv, ProcessMethod \/ ReadURL \/ ReadVersion
  PROVE  HttpInv'
  <1>1. HttpTypes /\ HttpFlags /\ ReadingInv
    BY DEF HttpInv
  <1>2. at \in {"method", "url", "version"}
    BY DEF ProcessMethod, ReadURL, ReadVersion
  <1>3. at \in Reading /\ Fresh(resp)
    BY <1>1, <1>2, NewIsFresh DEF ReadingInv, Reading
  <1>4. stalled => 408 \in Fit
    BY DEF Fit
  <1>5. {400, 408, 414} \subseteq Codes /\ 408 >= 200 /\ 400 >= 200 /\ 414 >= 200
    BY DEF Codes
  <1>6. ASSUME stalled, Refuse(408) PROVE HttpInv'
    BY <1>1, <1>3, <1>4, <1>5, <1>6, RefuseStep
  <1>7. CASE ProcessMethod
    <2>1. CASE stalled /\ Refuse(408)
      BY <1>6, <2>1
    <2>2. CASE ~stalled /\ request.method \notin Methods /\ Refuse(400)
      <3>1. 400 \in Fit
        BY <2>2 DEF Fit, ExpectedCodes
      <3> QED
        BY <1>1, <1>3, <1>5, <2>2, <3>1, RefuseStep
    <2>3. CASE ~stalled /\ request.method \in Methods /\ Continue("url")
      <3>1. at = "method"
        BY <1>7 DEF ProcessMethod
      <3> QED
        BY <1>3, <2>3, <3>1, ContinueStep
    <2> QED
      BY <1>7, <2>1, <2>2, <2>3 DEF ProcessMethod
  <1>8. CASE ReadURL
    <2>0. at = "url" /\ request.method \in Methods
      BY <1>1, <1>8 DEF ReadURL, ReadingInv
    <2>1. CASE stalled /\ Refuse(408)
      BY <1>6, <2>1
    <2>2. CASE stalled /\ Continue("version")
      BY <1>3, <2>0, <2>2, ContinueStep
    <2>3. CASE ~stalled /\ request.path = TooLong /\ Refuse(414)
      <3>1. 414 \in Fit
        BY <2>0, <2>3 DEF Fit, ExpectedCodes
      <3> QED
        BY <1>1, <1>3, <1>5, <2>3, <3>1, RefuseStep
    <2>4. CASE ~stalled /\ request.path # TooLong /\ Continue("version")
      BY <1>3, <2>0, <2>4, ContinueStep
    <2> QED
      BY <1>8, <2>1, <2>2, <2>3, <2>4 DEF ReadURL
  <1>9. CASE ReadVersion
    <2>1. CASE stalled /\ Refuse(408)
      BY <1>6, <2>1
    <2>2. CASE ~stalled /\ Continue("headers")
      <3>0. at = "version"
        BY <1>9 DEF ReadVersion
      <3>1. at' = "headers" /\ UNCHANGED <<request, made, stalled, buffers, unread, left, resp, route, calls, clients, pos>>
        BY <2>2 DEF Continue
      <3>2. HttpTypes'
        BY <1>1, <3>0, <3>1 DEF HttpTypes, HttpPlaces
      <3>3. HttpFlags'
        BY <1>1, <3>1 DEF HttpFlags
      <3>4. /\ resp' = NewResponse /\ route' = 1 /\ request'.method \in Methods /\ request'.path # TooLong
        BY <1>1, <2>2, <3>0, <3>1 DEF ReadingInv, Reading
      <3>5. /\ unread' = SubSeq(request.lines, 0 + 1, Len(request.lines))
            /\ HeadersRead(request.lines, buffers, left, 0) /\ 0 \in 0..Len(request.lines)
        <4>1. unread = request.lines /\ ~left /\ buffers = EmptyBuffers
          BY <1>1, <3>0 DEF ReadingInv
        <4>2. left = FALSE
          BY <1>1, <4>1 DEF HttpFlags
        <4>3. request.lines \in Seq(HeaderLines)
          BY <1>1 DEF HttpTypes
        <4>4. SubSeq(request.lines, 1, Len(request.lines)) = request.lines
          BY <4>3, SubSeqFull
        <4>5. HeadersRead(request.lines, buffers, left, 0)
          BY <4>1, <4>2, NothingRead
        <4> QED
          BY <3>1, <4>1, <4>3, <4>4, <4>5
      <3>6. \E n \in 0..Len(request'.lines) :
              /\ unread' = SubSeq(request'.lines, n + 1, Len(request'.lines))
              /\ HeadersRead(request'.lines, buffers', left', n)
        BY <3>1, <3>5
      <3>7. ReadingInv'
        BY <3>1, <3>4, <3>6 DEF ReadingInv, Reading
      <3>8. HandlingInv' /\ AnswerInv'
        BY <3>1 DEF HandlingInv, AnswerInv
      <3> QED
        BY <3>2, <3>3, <3>7, <3>8 DEF HttpInv
    <2> QED
      BY <1>9, <2>1, <2>2 DEF ReadVersion
  <1> QED
    BY <1>7, <1>8, <1>9

\* Without calls a fresh response is right, and nobody is busy with it.
LEMMA FreshIsIdle ==
  ASSUME NEW r, Fresh(r), NEW codes
  PROVE  Rightly(<<>>, r, codes) /\ ~Busy(<<>>, r)
  <1>1. "status" \in BodyNames
    BY DEF BodyNames
  <1>2. \A i \in 1..Len(<<>>) : FALSE
    OBVIOUS
  <1>3. BodyFits(<<>>, r)
    BY <1>1, <1>2 DEF BodyFits, BodyIs, Fresh
  <1>4. Sound(r, codes)
    BY DEF Fresh, Sound, Shape
  <1>5. CallsFit(<<>>, r, codes)
    BY <1>2 DEF CallsFit
  <1>6. ~Busy(<<>>, r)
    BY <1>2 DEF Busy, Fresh
  <1> QED
    BY <1>3, <1>4, <1>5, <1>6 DEF Rightly

\* The lines that are left
LEMMA LinesLeft ==
  ASSUME NEW lines \in Seq(HeaderLines), NEW n \in 0..Len(lines)
  PROVE  /\ (SubSeq(lines, n + 1, Len(lines)) = <<>>) <=> n = Len(lines)
         /\ n < Len(lines) => /\ Head(SubSeq(lines, n + 1, Len(lines))) = lines[n + 1]
                              /\ Tail(SubSeq(lines, n + 1, Len(lines))) = SubSeq(lines, (n + 1) + 1, Len(lines))
                              /\ Tail(SubSeq(lines, n + 1, Len(lines))) \in Seq(HeaderLines)
  <1> DEFINE s == SubSeq(lines, n + 1, Len(lines))
  <1>1. Len(lines) \in Nat
    OBVIOUS
  <1>2. s \in Seq(HeaderLines) /\ Len(s) = Len(lines) - n
    <2>1. \A i \in (n + 1)..Len(lines) : lines[i] \in HeaderLines
      OBVIOUS
    <2>2. n + 1 \in Int /\ Len(lines) \in Int
      BY <1>1
    <2>3. s \in Seq(HeaderLines) /\ Len(s) = IF n + 1 <= Len(lines) THEN Len(lines) - (n + 1) + 1 ELSE 0
      BY <2>1, <2>2, SubSeqProperties
    <2> QED
      BY <1>1, <2>3
  <1>3. n < Len(lines) => Head(s) = lines[n + 1] /\ Tail(s) = SubSeq(lines, (n + 1) + 1, Len(lines))
    <2> HAVE n < Len(lines)
    <2>1. n + 1 \in 1..Len(lines) /\ Len(lines) \in (n + 1)..Len(lines)
      BY <1>1
    <2> QED
      BY <2>1, HeadTailOfSubSeq
  <1> HIDE DEF s
  <1>4. s = <<>> <=> n = Len(lines)
    <2>1. s = <<>> <=> Len(s) = 0
      BY <1>2, EmptySeq
    <2> QED
      BY <1>1, <1>2, <2>1
  <1>5. n < Len(lines) => Tail(s) \in Seq(HeaderLines)
    <2> HAVE n < Len(lines)
    <2>1. s # <<>>
      BY <1>1, <1>4
    <2> QED
      BY <1>2, <2>1
  <1> QED
    BY <1>3, <1>4, <1>5 DEF s

\* m_processHeaders()
LEMMA HeaderLineStep ==
  ASSUME HttpInv, ProcessHeaderLine
  PROVE  HttpInv'
  <1>1. HttpTypes /\ HttpFlags /\ ReadingInv /\ at = "headers"
    BY DEF HttpInv, ProcessHeaderLine
  <1>2. resp = NewResponse /\ route = 1 /\ request.method \in Methods /\ request.path # TooLong
    BY <1>1 DEF ReadingInv, Reading
  <1>3. Fresh(resp)
    BY <1>2, NewIsFresh
  <1>4. PICK n \in 0..Len(request.lines) : /\ unread = SubSeq(request.lines, n + 1, Len(request.lines))
                                          /\ HeadersRead(request.lines, buffers, left, n)
    BY <1>1 DEF ReadingInv
  <1>5. request.lines \in Seq(HeaderLines) /\ Len(request.lines) \in Nat /\ calls = <<>>
        /\ buffers \in [Registered -> Seq(Strings)]
    BY <1>1 DEF HttpTypes
  <1>6. /\ (unread = <<>>) <=> n = Len(request.lines)
        /\ n < Len(request.lines) => /\ Head(unread) = request.lines[n + 1] /\ Tail(unread) \in Seq(HeaderLines)
                                     /\ Tail(unread) = SubSeq(request.lines, (n + 1) + 1, Len(request.lines))
    BY <1>4, <1>5, LinesLeft
  <1>7. {408, 431} \subseteq Codes /\ 408 >= 200 /\ 431 >= 200
    BY DEF Codes
  <1>8. CASE stalled /\ Refuse(408)
    <2>1. 408 \in Fit
      BY <1>8 DEF Fit
    <2> QED
      BY <1>1, <1>3, <1>7, <1>8, <2>1, RefuseStep
  <1> DEFINE name == Head(unread)[1]
             value == Head(unread)[2]
  <1>9. CASE unread # <<>> /\ name \in Bounded /\ value = TooLong /\ Refuse(431)
    <2>1. n < Len(request.lines) /\ n + 1 \in DOMAIN request.lines
      BY <1>5, <1>6, <1>9
    <2>2. request.lines[n + 1][1] = name /\ request.lines[n + 1][2] = TooLong
      BY <1>6, <1>9, <2>1
    <2>3. TooLong \in Values(name)
      BY <2>1, <2>2 DEF Values
    <2>4. 431 \in ExpectedCodes
      <3>1. \E h \in Registered \cup {"Content-Length"} : TooLong \in Values(h)
        BY <1>9, <2>3 DEF Bounded
      <3> QED
        BY <1>2, <3>1 DEF ExpectedCodes
    <2>5. 431 \in Fit
      BY <2>4 DEF Fit
    <2> QED
      BY <1>1, <1>3, <1>7, <1>9, <2>5, RefuseStep
  <1>10. CASE /\ unread # <<>> /\ (name \notin Bounded \/ value # TooLong)
              /\ buffers' = NewBuffers(buffers, name, value)
              /\ left' = (left \/ name = "Content-Length")
              /\ unread' = Tail(unread)
              /\ UNCHANGED <<at, request, made, stalled, resp, route, calls, clients, pos>>
    <2>1. n < Len(request.lines) /\ n \in Nat
      BY <1>5, <1>6, <1>10
    <2>2. name = request.lines[n + 1][1] /\ value = request.lines[n + 1][2]
      BY <1>6, <2>1
    <2> HIDE DEF name, value
    <2>3. OneMoreRead(request.lines, buffers, left, n, name, value)
      <3>1. /\ request.lines \in Seq(HeaderLines) /\ buffers \in [Registered -> Seq(Strings)]
            /\ HeadersRead(request.lines, buffers, left, n)
        BY <1>4, <1>5
      <3>2. name \in Bounded => value # TooLong
        BY <1>10
      <3> QED
        BY <2>1, <2>2, <3>1, <3>2, OneLineRead
    <2>4. /\ buffers' \in [Registered -> Seq(Strings)] /\ unread' \in Seq(HeaderLines)
          /\ HeadersRead(request.lines, buffers', left', n + 1)
          /\ unread' = SubSeq(request.lines, (n + 1) + 1, Len(request.lines))
      BY <1>6, <1>10, <2>1, <2>3 DEF OneMoreRead
    <2>5. HttpTypes'
      BY <1>1, <1>10, <2>4 DEF HttpTypes
    <2>6. HttpFlags'
      <3>1. left' \in BOOLEAN
        BY <1>10, Zenon
      <3> QED
        BY <1>1, <1>10, <3>1 DEF HttpFlags
    <2>7. n + 1 \in 0..Len(request.lines)
      BY <1>5, <2>1
    <2>8. \E m \in 0..Len(request'.lines) :
            /\ unread' = SubSeq(request'.lines, m + 1, Len(request'.lines))
            /\ HeadersRead(request'.lines, buffers', left', m)
      BY <1>10, <2>4, <2>7
    <2>9. at' = "headers" /\ resp' = NewResponse /\ route' = 1 /\ request'.method \in Methods /\ request'.path # TooLong
      BY <1>1, <1>2, <1>10
    <2>10. ReadingInv'
      BY <2>8, <2>9 DEF ReadingInv, Reading
    <2>11. HandlingInv' /\ AnswerInv'
      BY <2>9 DEF HandlingInv, AnswerInv
    <2> QED
      BY <2>5, <2>6, <2>10, <2>11 DEF HttpInv
  <1>11. CASE unread = <<>> /\ Continue("dispatch")
    <2>1. at' = "dispatch" /\ UNCHANGED <<request, made, stalled, buffers, unread, left, resp, route, calls, clients, pos>>
      BY <1>11 DEF Continue
    <2>2. AllRead(request, buffers, left)
      BY <1>2, <1>4, <1>6, <1>11 DEF AllRead
    <2>3. Rightly(calls, resp, Fit) /\ ~Busy(calls, resp)
      BY <1>3, <1>5, FreshIsIdle
    <2>4. RoutesFit(calls, resp, 1, request, buffers, left)
      BY <2>2, <2>3 DEF RoutesFit
    <2>5. Normal(calls, resp, Fit, route, request, buffers, left)
      BY <1>2, <2>3, <2>4 DEF Normal, Rightly
    <2>6. NormalNow'
      <3>1. Fit' = Fit
        BY <2>1, FitKept
      <3> QED
        BY <2>1, <2>5, <3>1 DEF NormalNow
    <2>7. HttpTypes'
      BY <1>1, <2>1 DEF HttpTypes, HttpPlaces
    <2>8. HttpFlags'
      BY <1>1, <2>1 DEF HttpFlags
    <2>9. ReadingInv' /\ AnswerInv'
      BY <2>1 DEF ReadingInv, AnswerInv, Reading
    <2>10. HandlingInv'
      BY <2>1, <2>6 DEF HandlingInv
    <2> QED
      BY <2>7, <2>8, <2>9, <2>10 DEF HttpInv
  <1> QED
    BY <1>8, <1>9, <1>10, <1>11 DEF ProcessHeaderLine, NewBuffers, Bounded

\* loop() accepts a connection, or none.
LEMMA AcceptSteps ==
  ASSUME HttpInv, Accept \/ AcceptNobody
  PROVE  HttpInv'
  <1>1. HttpTypes /\ HttpFlags /\ ReadingInv /\ AnswerInv /\ at = "accept"
    BY DEF HttpInv, Accept, AcceptNobody
  <1>2. calls = <<>> /\ buffers = EmptyBuffers
    BY <1>1 DEF HttpTypes, ReadingInv
  <1>3. CASE Accept
    <2>1. PICK r \in Requests : /\ at = "accept" /\ made < MaxRequests
                                /\ request' = r /\ made' = made + 1 /\ stalled' = FALSE
                                /\ unread' = r.lines /\ left' = FALSE
                                /\ resp' = NewResponse /\ route' = 1
                                /\ at' = "method"
                                /\ UNCHANGED <<buffers, calls, clients, pos>>
      BY <1>3 DEF Accept
    <2>2. r.lines \in Seq(HeaderLines)
      BY WebServerAssumption DEF HeaderLines, Strings
    <2>3. made' \in 0..MaxRequests
      BY <1>1, <2>1, WebServerAssumption DEF HttpTypes
    <2>4. resp' \in Responses /\ Len(resp'.headers) <= MaxHeaders /\ Len(resp'.buf) < OutputBufferSize
      BY <2>1, NewIsFresh DEF Fresh, Limited
    <2>5. HttpTypes'
      BY <1>1, <1>2, <2>1, <2>2, <2>3, <2>4 DEF HttpTypes, HttpPlaces
    <2>6. HttpFlags'
      BY <2>1 DEF HttpFlags
    <2>7. ReadingInv'
      BY <1>2, <2>1 DEF ReadingInv, Reading
    <2>8. HandlingInv' /\ AnswerInv'
      BY <2>1 DEF HandlingInv, AnswerInv
    <2> QED
      BY <2>5, <2>6, <2>7, <2>8 DEF HttpInv
  <1>4. CASE AcceptNobody
    <2>1. at' = "clients" /\ UNCHANGED <<request, made, stalled, buffers, unread, left, resp, route, calls, clients, pos>>
      BY <1>4 DEF AcceptNobody, Continue
    <2>2. Fit' = Fit
      BY <2>1, FitKept
    <2>3. HttpTypes'
      BY <1>1, <2>1 DEF HttpTypes, HttpPlaces
    <2>4. HttpFlags'
      BY <1>1, <2>1 DEF HttpFlags
    <2>5. ReadingInv' /\ HandlingInv'
      BY <1>2, <2>1 DEF ReadingInv, Reading, HandlingInv
    <2>6. AnswerInv'
      BY <1>1, <2>1, <2>2 DEF AnswerInv
    <2> QED
      BY <2>3, <2>4, <2>5, <2>6 DEF HttpInv
  <1> QED
    BY <1>3, <1>4

\* A call that the handler makes
CallStep ==
  /\ at = "handler" /\ calls # <<>> /\ calls' = Tail(calls) /\ Carried(resp, resp', Head(calls))
  /\ UNCHANGED <<at, request, made, stalled, buffers, unread, left, route, clients, pos>>

\* Each call of a handler on the Response is such a step.
LEMMA CallsAreCarried ==
  ASSUME CallStatus \/ CallSet \/ CallPrint \/ CallWrite \/ CallFlush \/ CallEnd \/ CallConvert
  PROVE  CallStep
  <1> DEFINE x == Head(calls)
  <1>1. ASSUME NEW op, CallOf(op)
        PROVE  /\ at = "handler" /\ calls # <<>> /\ calls' = Tail(calls) /\ x.op = op
               /\ UNCHANGED <<at, request, made, stalled, buffers, unread, left, route, clients, pos>>
    BY <1>1 DEF CallOf
  <1>2. CASE CallStatus
    <2>1. resp' = IF resp.status # 0 THEN resp
                  ELSE IF x.arg < 200 THEN WithStatus(endHeaders(beginHeaders(Begun(resp, x.arg))), 0)
                  ELSE Begun(resp, x.arg)
      BY <1>2 DEF CallStatus, Begun, WithStatus
    <2>2. CallOf("status")
      BY <1>2 DEF CallStatus
    <2> HIDE DEF x
    <2>3. Carried(resp, resp', x)
      BY <1>1, <2>1, <2>2 DEF Carried
    <2> QED
      BY <1>1, <2>2, <2>3 DEF CallStep, x
  <1>3. CASE CallSet
    BY <1>1, <1>3 DEF CallSet, CallStep, Carried
  <1>4. CASE CallPrint
    BY <1>1, <1>4 DEF CallPrint, CallStep, Carried, Ready
  <1>5. CASE CallWrite
    <2>1. resp' = Written(resp, x.arg) /\ CallOf("write")
      BY <1>5 DEF CallWrite, Written, Ready
    <2> HIDE DEF x
    <2>2. Carried(resp, resp', x)
      BY <1>1, <2>1 DEF Carried
    <2> QED
      BY <1>1, <2>1, <2>2 DEF CallStep, x
  <1>6. CASE CallFlush
    BY <1>1, <1>6 DEF CallFlush, CallStep, Carried
  <1>7. CASE CallEnd
    BY <1>1, <1>7 DEF CallEnd, CallStep, Carried, WithEnd
  <1>8. CASE CallConvert
    BY <1>1, <1>8 DEF CallConvert, CallStep, Carried, WithConvert
  <1> QED
    BY <1>2, <1>3, <1>4, <1>5, <1>6, <1>7, <1>8

\* A call keeps an answer right, or an upgrade in its course.
LEMMA CallStepKeeps ==
  ASSUME HttpInv, CallStep
  PROVE  HttpInv'
  <1>1. HttpTypes /\ HttpFlags /\ HandlingInv
    BY DEF HttpInv
  <1>2. /\ at = "handler" /\ calls # <<>> /\ calls' = Tail(calls) /\ Carried(resp, resp', Head(calls))
        /\ UNCHANGED <<at, request, made, stalled, buffers, unread, left, route, clients, pos>>
    BY DEF CallStep
  <1>3. Limited(resp) /\ calls \in Seq(LegalCalls)
    BY <1>1 DEF HttpTypes, Limited
  <1>4. Head(calls) = calls[1] /\ 1 \in 1..Len(calls) /\ Head(calls) \in LegalCalls /\ calls' \in Seq(LegalCalls)
    BY <1>2, <1>3, CallsAfter
  <1>5. Fit' = Fit
    BY <1>2, FitKept
  <1>6. Limited(resp') /\ (NormalNow' \/ \E k \in 1..10 : UpgradingNow(k)')
    <2>1. CASE NormalNow
      <3>1. Rightly(calls, resp, Fit) /\ RoutesFit(calls, resp, route, request, buffers, left)
        BY <2>1 DEF NormalNow, Normal, Rightly
      <3>2. Shape(resp) /\ Head(calls).op # "convert" /\ (Head(calls).op = "status" => Head(calls).arg >= 200)
        BY <1>4, <3>1 DEF Rightly, Sound, CallsFit
      <3>3. Advance(resp, resp', Head(calls))
        BY <1>2, <1>3, <1>4, <3>2, CarriedAdvance
      <3>4. Rightly(calls', resp', Fit) /\ (Busy(calls', resp') <=> Busy(calls, resp))
        BY <1>2, <1>3, <3>1, <3>3, AdvanceKeeps
      <3>5. RoutesFit(calls', resp', route, request, buffers, left)
        BY <3>1, <3>4 DEF RoutesFit
      <3>6. Normal(calls', resp', Fit, route, request, buffers, left)
        BY <3>4, <3>5 DEF Normal, Rightly
      <3>7. NormalNow'
        BY <1>2, <1>5, <3>6 DEF NormalNow
      <3> QED
        BY <3>3, <3>7 DEF Advance
    <2>2. ASSUME NEW k \in 1..10, UpgradingNow(k)
          PROVE  Limited(resp') /\ \E m \in 1..10 : UpgradingNow(m)'
      <3>1. k # 10
        BY <1>2, <2>2, SwitchRest DEF UpgradingNow, Upgrading
      <3>2. k \in 1..9 /\ k + 1 \in 1..10
        BY <3>1
      <3>3. Limited(resp') /\ Upgrading(k + 1, calls', resp', Fit, request, Len(clients))
        BY <1>2, <1>3, <2>2, <3>2, UpgradeStep DEF UpgradingNow
      <3>4. UpgradingNow(k + 1)'
        BY <1>2, <1>5, <3>3 DEF UpgradingNow
      <3> QED
        BY <3>2, <3>3, <3>4
    <2> QED
      BY <1>1, <1>2, <2>1, <2>2 DEF HandlingInv
  <1>7. HttpTypes'
    BY <1>1, <1>2, <1>4, <1>6 DEF HttpTypes, Limited
  <1>8. HttpFlags'
    BY <1>1, <1>2 DEF HttpFlags
  <1>9. ReadingInv' /\ AnswerInv'
    BY <1>2 DEF ReadingInv, AnswerInv, Reading
  <1>10. HandlingInv'
    BY <1>2, <1>6 DEF HandlingInv
  <1> QED
    BY <1>7, <1>8, <1>9, <1>10 DEF HttpInv

\* A handler returns.
LEMMA HandlerReturnsStep ==
  ASSUME HttpInv, HandlerReturns
  PROVE  HttpInv'
  <1>1. HttpTypes /\ HttpFlags /\ HandlingInv
    BY DEF HttpInv
  <1>2. /\ at = "handler" /\ calls = <<>> /\ at' = "dispatch"
        /\ UNCHANGED <<request, made, stalled, buffers, unread, left, resp, route, calls, clients, pos>>
    BY DEF HandlerReturns
  <1>3. Fit' = Fit
    BY <1>2, FitKept
  <1>4. ASSUME NEW k \in 1..10, UpgradingNow(k) PROVE UpgradingNow(10)
    <2>1. k = 10
      <3>1. k # 10 => k \in 1..9
        OBVIOUS
      <3>2. \A j \in 1..9 : SubSeq(switch_protocols, j, 9) # <<>>
        BY SwitchRest
      <3> QED
        BY <1>2, <1>4, <3>1, <3>2 DEF UpgradingNow, Upgrading
    <2> QED
      BY <1>4, <2>1
  <1>5. NormalNow \/ UpgradingNow(10)
    BY <1>1, <1>2, <1>4 DEF HandlingInv
  <1>6. NormalNow' \/ UpgradingNow(10)'
    BY <1>2, <1>3, <1>5 DEF NormalNow, UpgradingNow
  <1>7. HttpTypes'
    BY <1>1, <1>2 DEF HttpTypes, HttpPlaces
  <1>8. HttpFlags'
    BY <1>1, <1>2 DEF HttpFlags
  <1>9. ReadingInv' /\ AnswerInv'
    BY <1>2 DEF ReadingInv, AnswerInv, Reading
  <1>10. HandlingInv'
    BY <1>2, <1>6 DEF HandlingInv
  <1> QED
    BY <1>7, <1>8, <1>9, <1>10 DEF HttpInv

\* With no status set, an ordinary response is fresh.
LEMMA SoundIsFresh ==
  ASSUME NEW r, Limited(r), NEW codes, Sound(r, codes), r.status = 0
  PROVE  Fresh(r)
  BY DEF Sound, Shape, Fresh

\* m_dispatchMiddleware(): the next route
LEMMA DispatchStep ==
  ASSUME HttpInv, Dispatch
  PROVE  HttpInv'
  <1>1. HttpTypes /\ HttpFlags /\ HandlingInv
    BY DEF HttpInv
  <1>2. /\ at = "dispatch" /\ route <= 8 /\ ~resp.ended
        /\ calls' = (IF Matches(Routes[route]) THEN Routes[route].calls ELSE <<>>)
        /\ route' = route + 1 /\ at' = "handler"
        /\ UNCHANGED <<request, made, stalled, buffers, unread, left, resp, clients, pos>>
    BY RoutesTable DEF Dispatch
  <1>3. route \in 1..8 /\ calls = <<>> /\ Limited(resp)
    BY <1>1, <1>2 DEF HttpTypes, Limited
  <1>4. Fit' = Fit
    BY <1>2, FitKept
  <1>5. Matches(Routes[route]) <=> Handles(route, request)
    BY <1>3, RouteMatches
  <1>6. NormalNow
    <2>1. ~UpgradingNow(10)
      BY <1>2 DEF UpgradingNow, Upgrading
    <2> QED
      BY <1>1, <1>2, <2>1 DEF HandlingInv
  <1>7. Rightly(<<>>, resp, Fit) /\ RoutesFit(<<>>, resp, route, request, buffers, left)
    BY <1>3, <1>6 DEF NormalNow, Normal, Rightly
  <1>8. Busy(<<>>, resp) <=> resp.status # 0
    BY DEF Busy
  <1> DEFINE Onward == Normal(calls', resp, Fit, route + 1, request, buffers, left)
  <1>9. \A j \in (route + 1)..7 : j \in route..7
    BY <1>3
  <1>10. calls' \in Seq(LegalCalls) /\ (Onward \/ Upgrading(1, calls', resp, Fit, request, Len(clients)))
    <2>1. CASE resp.status # 0
      <3>1. \A j \in route..7 : ~Handles(j, request)
        BY <1>7, <1>8, <2>1 DEF RoutesFit
      <3>2. calls' = <<>>
        <4>1. CASE route \in 1..7
          BY <1>2, <1>5, <3>1, <4>1
        <4>2. CASE route = 8
          <5>1. Routes[8].calls = serve_static
            BY RoutesTable DEF Route
          <5>2. bytesSent
            <6>1. Stream(resp) # <<>>
              BY <1>7, <2>1 DEF Rightly, Sound, Shape, Headed, StatusLine
            <6> QED
              BY <1>3, <6>1, NothingWritten DEF bytesSent, Limited
          <5>3. serve_static = <<>>
            BY <5>2 DEF serve_static
          <5> QED
            BY <1>2, <4>2, <5>1, <5>3
        <4> QED
          BY <1>3, <4>1, <4>2
      <3>3. RoutesFit(<<>>, resp, route + 1, request, buffers, left)
        BY <1>8, <1>9, <2>1, <3>1 DEF RoutesFit
      <3>4. Onward
        BY <1>7, <3>2, <3>3 DEF Normal, Rightly
      <3>5. calls' \in Seq(LegalCalls)
        BY <3>2
      <3> QED
        BY <3>4, <3>5
    <2>2. CASE resp.status = 0
      <3>1. AllRead(request, buffers, left) /\ \A j \in 1..(route - 1) : ~Handles(j, request)
        BY <1>7, <1>8, <2>2 DEF RoutesFit
      <3>2. Fresh(resp)
        BY <1>3, <1>7, <2>2, SoundIsFresh DEF Rightly
      <3>3. CASE Handles(route, request)
        <4>1. calls' = Routes[route].calls
          BY <1>2, <1>5, <3>3
        <4>2. Fitting(calls', Fit) \/ IsUpgrade(calls')
          BY <1>1, <1>3, <3>1, <3>2, <3>3, <4>1, RouteCallsFit
        <4>3. CASE Fitting(calls', Fit)
          <5>1. Rightly(calls', resp, Fit) /\ Busy(calls', resp)
            BY <3>2, <4>3, FittingCalls
          <5>2. \A j \in (route + 1)..7 : ~Handles(j, request)
            BY <1>3, <3>3, OneRoute
          <5>3. RoutesFit(calls', resp, route + 1, request, buffers, left)
            BY <5>1, <5>2 DEF RoutesFit
          <5> QED
            BY <4>3, <5>1, <5>3 DEF Normal, Rightly, Fitting
        <4>4. CASE IsUpgrade(calls')
          <5>1. /\ calls' = switch_protocols /\ switch_protocols = SubSeq(switch_protocols, 1, 9)
                /\ switch_protocols \in Seq(LegalCalls)
            BY <4>4, SwitchRest, SwitchCalls DEF IsUpgrade
          <5>2. 101 \in Fit /\ Requested(request) /\ Len(clients) < MaxConnections
            BY <4>4 DEF IsUpgrade
          <5>3. Upgrading(1, calls', resp, Fit, request, Len(clients))
            BY <3>2, <5>1, <5>2 DEF Upgrading, Fresh
          <5> QED
            BY <5>1, <5>3
        <4> QED
          BY <4>2, <4>3, <4>4
      <3>4. CASE ~Handles(route, request)
        <4>1. calls' = <<>>
          BY <1>2, <1>5, <3>4
        <4>2. \A j \in 1..((route + 1) - 1) : j \in 1..(route - 1) \/ j = route
          BY <1>3
        <4>3. RoutesFit(<<>>, resp, route + 1, request, buffers, left)
          BY <1>8, <2>2, <3>1, <3>4, <4>2 DEF RoutesFit
        <4>4. Onward
          BY <1>7, <4>1, <4>3 DEF Normal, Rightly
        <4>5. calls' \in Seq(LegalCalls)
          BY <4>1
        <4> QED
          BY <4>4, <4>5
      <3> QED
        BY <3>3, <3>4
    <2> QED
      BY <2>1, <2>2
  <1>11. NormalNow' \/ \E k \in 1..10 : UpgradingNow(k)'
    <2>1. CASE Onward
      BY <1>2, <1>4, <2>1 DEF NormalNow
    <2>2. CASE Upgrading(1, calls', resp, Fit, request, Len(clients))
      <3>1. UpgradingNow(1)'
        BY <1>2, <1>4, <2>2 DEF UpgradingNow
      <3> QED
        BY <3>1
    <2> QED
      BY <1>10, <2>1, <2>2
  <1>12. HttpTypes'
    BY <1>1, <1>2, <1>3, <1>10 DEF HttpTypes, HttpPlaces
  <1>13. HttpFlags'
    BY <1>1, <1>2 DEF HttpFlags
  <1>14. ReadingInv' /\ AnswerInv'
    BY <1>2 DEF ReadingInv, AnswerInv, Reading
  <1>15. HandlingInv'
    BY <1>2, <1>11 DEF HandlingInv
  <1> QED
    BY <1>12, <1>13, <1>14, <1>15 DEF HttpInv

\* Headers without a body in between
LEMMA HeadOnlyAnswers ==
  ASSUME NEW r \in Responses, r.buf = <<>>, HeadOnly(r.wire, 101), r.convert, NEW codes, 101 \in codes,
         NEW rq, Requested(rq)
  PROVE  Answer(r, codes, rq)
  <1>1. r.wire \in Seq(OutPieces)
    BY ResponseFields
  <1>2. Stream(r) = r.wire
    BY <1>1, ConcatEmptySeq DEF Stream
  <1>3. "status" \in BodyNames
    BY DEF BodyNames
  <1>4. BodyIs(r.wire, "status")
    BY DEF HeadOnly, BodyIs
  <1> QED
    BY <1>2, <1>3, <1>4 DEF Answer, HeadOnly

\* An ordinary answer with its headers out
LEMMA ShapeAnswers ==
  ASSUME NEW r, Limited(r), Shape(r), r.headersSent, ~r.convert, NEW codes, r.status \in codes,
         NEW w \in BodyNames, BodyIs(Stream(r), w), NEW rq
  PROVE  Answer(r, codes, rq) /\ Stray(r) = <<>>
  <1>1. Headed(Stream(r)) /\ Stream(r)[1].what = r.status /\ r.status >= 200 /\ r.lengthSet
    BY DEF Shape
  <1>2. r.status # 101
    <2>1. r.status \in Codes \cup {0}
      BY ResponseFields DEF Limited
    <2> QED
      BY <1>1, <2>1 DEF Codes
  <1>3. Stray(r) = <<>>
    BY <1>1 DEF Stray
  <1> QED
    BY <1>1, <1>2, <1>3 DEF Answer

\* No route is left, or one has ended the answer.
LEMMA DispatchEndsStep ==
  ASSUME HttpInv, DispatchEnds
  PROVE  HttpInv'
  <1>1. HttpTypes /\ HttpFlags /\ HandlingInv
    BY DEF HttpInv
  <1>2. at = "dispatch" /\ (route > 8 \/ resp.ended)
    BY RoutesTable DEF DispatchEnds
  <1>3. route \in 1..9 /\ calls = <<>> /\ Limited(resp) /\ resp \in Responses
    BY <1>1, <1>2 DEF HttpTypes, Limited
  <1>4. NormalNow \/ UpgradingNow(10)
    BY <1>1, <1>2 DEF HandlingInv
  <1>5. UpgradingNow(10) => /\ 101 \in Fit /\ Requested(request) /\ Len(clients) < MaxConnections /\ resp.ended
                            /\ resp.convert /\ resp.headersSent /\ resp.buf = <<>> /\ HeadOnly(resp.wire, 101)
    BY DEF UpgradingNow, Upgrading
  <1>6. NormalNow => Rightly(<<>>, resp, Fit) /\ RoutesFit(<<>>, resp, route, request, buffers, left)
    BY <1>3 DEF NormalNow, Normal, Rightly
  <1>7. CASE resp.status = 0 /\ ~resp.ended /\ Refuse(404)
    <2>1. Rightly(<<>>, resp, Fit) /\ RoutesFit(<<>>, resp, route, request, buffers, left) /\ route = 9
      BY <1>2, <1>3, <1>4, <1>5, <1>6, <1>7
    <2>2. ~Busy(<<>>, resp)
      BY <1>7 DEF Busy
    <2>3. AllRead(request, buffers, left) /\ \A j \in 1..8 : ~Handles(j, request)
      BY <2>1, <2>2 DEF RoutesFit
    <2>4. ExpectedCodes = {404}
      <3>1. request.lines \in Seq(HeaderLines) /\ buffers \in [Registered -> Seq(Strings)]
        BY <1>1 DEF HttpTypes
      <3> QED
        BY <2>3, <3>1, CodesOfRoutes
    <2>5. 404 \in Fit /\ 404 \in Codes /\ 404 >= 200
      BY <2>4 DEF Fit, Codes
    <2>6. Fresh(resp)
      BY <1>3, <1>7, <2>1, SoundIsFresh DEF Rightly
    <2> QED
      BY <1>1, <1>7, <2>5, <2>6, RefuseStep
  <1>8. CASE /\ resp.status # 0 \/ resp.ended
             /\ resp' = Ready(resp)
             /\ at' = "finalize"
             /\ UNCHANGED <<request, made, stalled, buffers, unread, left, route, calls, clients, pos>>
    <2>1. Fit' = Fit
      BY <1>8, FitKept
    <2>2. /\ Limited(resp') /\ Answer(resp', Fit, request) /\ (resp'.buf = <<>> \/ Stray(resp') = <<>>)
          /\ (resp'.convert => Len(clients) < MaxConnections)
      <3>1. CASE UpgradingNow(10)
        <4>1. resp' = resp
          BY <1>5, <1>8, <3>1 DEF Ready
        <4>2. Answer(resp, Fit, request)
          BY <1>3, <1>5, <3>1, HeadOnlyAnswers
        <4> QED
          BY <1>3, <1>5, <3>1, <4>1, <4>2
      <3>2. CASE NormalNow
        <4>1. Sound(resp, Fit) /\ BodyFits(<<>>, resp)
          BY <1>6, <3>2 DEF Rightly
        <4>2. Shape(resp) /\ ~resp.convert /\ resp.status # 0 /\ resp.status \in Fit
          BY <1>8, <4>1 DEF Sound
        <4>3. PICK w \in BodyNames : BodyIs(Stream(resp), w)
          BY <4>1 DEF BodyFits
        <4>4. ReadyFor(resp, resp')
          BY <1>3, <1>8, <4>2, ReadyEffect
        <4>5. /\ Limited(resp') /\ Shape(resp') /\ resp'.headersSent /\ ~resp'.convert /\ resp'.status \in Fit
              /\ BodyIs(Stream(resp'), w)
          BY <4>2, <4>3, <4>4 DEF ReadyFor, NextStatus
        <4>6. Answer(resp', Fit, request) /\ Stray(resp') = <<>>
          BY <4>5, ShapeAnswers
        <4> QED
          BY <4>5, <4>6
      <3> QED
        BY <1>4, <3>1, <3>2
    <2>3. HttpTypes'
      BY <1>1, <1>3, <1>8, <2>2 DEF HttpTypes, HttpPlaces, Limited
    <2>4. HttpFlags'
      BY <1>1, <1>8 DEF HttpFlags
    <2>5. ReadingInv' /\ HandlingInv'
      BY <1>8 DEF ReadingInv, HandlingInv, Reading
    <2>6. AnswerInv'
      BY <1>8, <2>1, <2>2 DEF AnswerInv
    <2> QED
      BY <2>3, <2>4, <2>5, <2>6 DEF HttpInv
  <1> QED
    BY <1>7, <1>8 DEF DispatchEnds, Ready

\* Application::process() and loop() after it
LEMMA FinalizeStep ==
  ASSUME HttpInv, Finalize
  PROVE  HttpInv'
  <1>1. HttpTypes /\ HttpFlags /\ AnswerInv
    BY DEF HttpInv
  <1>2. /\ at = "finalize" /\ resp' = m_flushBuf(resp) /\ buffers' = EmptyBuffers
        /\ clients' = (IF resp.convert THEN Append(clients, TRUE) ELSE clients)
        /\ at' = "clients" /\ pos' = 1
        /\ UNCHANGED <<request, made, stalled, unread, left, route, calls>>
    BY DEF Finalize, ClearedBuffers
  <1>3. /\ Answer(resp, Fit, request) /\ (resp.buf = <<>> \/ Stray(resp) = <<>>)
        /\ (resp.convert => Len(clients) < MaxConnections)
    BY <1>1, <1>2 DEF AnswerInv
  <1>4. resp \in Responses /\ Len(resp.buf) < OutputBufferSize /\ Len(resp.headers) <= MaxHeaders
    BY <1>1 DEF HttpTypes
  <1>5. Wrote(resp, resp', Stream(resp)) /\ resp'.buf = <<>>
    BY <1>2, <1>3, <1>4, FlushEffect
  <1>6. /\ resp' \in Responses /\ Len(resp'.headers) <= MaxHeaders /\ Len(resp'.buf) < OutputBufferSize
        /\ Stream(resp') = Stream(resp) /\ resp'.convert = resp.convert
    BY <1>4, <1>5 DEF Wrote, Kept
  <1>7. Answer(resp', Fit, request)
    BY <1>3, <1>6 DEF Answer
  <1>8. clients' \in Seq(BOOLEAN) /\ Len(clients') \in Nat /\ Len(clients') <= MaxConnections
    <2>1. clients \in Seq(BOOLEAN) /\ Len(clients) \in Nat /\ Len(clients) <= MaxConnections
      BY <1>1 DEF HttpTypes
    <2>2. CASE resp.convert
      <3>1. clients' = Append(clients, TRUE)
        BY <1>2, <2>2
      <3>2. clients' \in Seq(BOOLEAN) /\ Len(clients') = Len(clients) + 1
        BY <2>1, <3>1
      <3> QED
        BY <1>3, <2>1, <2>2, <3>2, WebServerAssumption
    <2>3. CASE ~resp.convert
      BY <1>2, <2>1, <2>3
    <2> QED
      BY <2>2, <2>3
  <1>9. buffers' \in [Registered -> Seq(Strings)]
    BY <1>2 DEF EmptyBuffers
  <1>10. HttpTypes'
    <2>1. pos' \in 1..(Len(clients') + 1)
      BY <1>2, <1>8
    <2>2. at' \in HttpPlaces /\ made' \in 0..MaxRequests /\ request'.lines \in Seq(HeaderLines) /\ unread' \in Seq(HeaderLines)
      BY <1>1, <1>2 DEF HttpTypes, HttpPlaces
    <2>3. route' \in 1..9 /\ calls' \in Seq(LegalCalls) /\ (at' # "handler" => calls' = <<>>)
      BY <1>1, <1>2 DEF HttpTypes
    <2> QED
      BY <1>6, <1>8, <1>9, <2>1, <2>2, <2>3 DEF HttpTypes
  <1>11. HttpFlags'
    BY <1>1, <1>2 DEF HttpFlags
  <1>12. ReadingInv' /\ HandlingInv'
    BY <1>2 DEF ReadingInv, HandlingInv, Reading
  <1>13. AnswerInv'
    <2>1. Fit' = Fit
      BY <1>2, FitKept
    <2> QED
      BY <1>2, <1>5, <1>7, <2>1 DEF AnswerInv
  <1> QED
    BY <1>10, <1>11, <1>12, <1>13 DEF HttpInv

\* What is left of the clients when one is erased
LEMMA ErasedClient ==
  ASSUME NEW c \in Seq(BOOLEAN), NEW p \in 1..Len(c)
  PROVE  RemoveAt(c, p) \in Seq(BOOLEAN) /\ Len(RemoveAt(c, p)) = Len(c) - 1
  <1> DEFINE x == SubSeq(c, 1, p - 1)
             y == SubSeq(c, p + 1, Len(c))
  <1>1. x \in Seq(BOOLEAN) /\ Len(x) = p - 1
    OBVIOUS
  <1>2. y \in Seq(BOOLEAN) /\ Len(y) = Len(c) - p
    OBVIOUS
  <1>3. RemoveAt(c, p) = x \o y
    BY DEF RemoveAt
  <1> HIDE DEF x, y
  <1>4. x \o y \in Seq(BOOLEAN) /\ Len(x \o y) = Len(x) + Len(y)
    BY <1>1, <1>2, ConcatProperties
  <1>5. Len(x) + Len(y) = Len(c) - 1
    BY <1>1, <1>2
  <1> QED
    BY <1>3, <1>4, <1>5, Zenon

\* Steps that change nothing but the clients
LEMMA ClientSteps ==
  ASSUME HttpInv, ClientLeaves \/ VisitClient \/ EraseClient \/ EndOfClients
  PROVE  HttpInv'
  <1>1. HttpTypes /\ HttpFlags /\ ReadingInv /\ HandlingInv /\ AnswerInv
    BY DEF HttpInv
  <1>2. UNCHANGED <<request, made, stalled, buffers, unread, left, resp, route, calls>>
    BY DEF ClientLeaves, VisitClient, EraseClient, EndOfClients
  <1>3. at' = at \/ (at = "clients" /\ at' = "accept")
    BY DEF ClientLeaves, VisitClient, EraseClient, EndOfClients
  <1>4. clients \in Seq(BOOLEAN) /\ Len(clients) \in Nat /\ pos \in 1..(Len(clients) + 1)
    BY <1>1 DEF HttpTypes
  <1>5. /\ clients' \in Seq(BOOLEAN) /\ Len(clients') \in Nat /\ Len(clients') <= Len(clients)
        /\ pos' \in 1..(Len(clients') + 1) /\ (at' # "clients" /\ at' # "accept" => Len(clients') = Len(clients))
    <2>1. CASE ClientLeaves
      BY <1>4, <2>1 DEF ClientLeaves
    <2>2. CASE VisitClient
      BY <1>4, <2>2 DEF VisitClient
    <2>3. CASE EraseClient
      <3>1. pos \in 1..Len(clients) /\ clients' = RemoveAt(clients, pos) /\ pos' = 1 /\ at' = "accept"
        BY <1>4, <2>3 DEF EraseClient
      <3>2. clients' \in Seq(BOOLEAN) /\ Len(clients') = Len(clients) - 1
        BY <1>4, <3>1, ErasedClient
      <3> QED
        BY <1>4, <3>1, <3>2
    <2>4. CASE EndOfClients
      BY <1>4, <2>4 DEF EndOfClients
    <2> QED
      BY <2>1, <2>2, <2>3, <2>4
  <1>6. Fit' = Fit
    BY <1>2, FitKept
  <1>7. HttpTypes'
    <2>1. Len(clients') <= MaxConnections
      BY <1>1, <1>4, <1>5, WebServerAssumption DEF HttpTypes
    <2> QED
      BY <1>1, <1>2, <1>3, <1>5, <2>1 DEF HttpTypes, HttpPlaces
  <1>8. HttpFlags'
    BY <1>1, <1>2 DEF HttpFlags
  <1>9. ReadingInv'
    <2>1. CASE at' = at
      BY <1>1, <1>2, <2>1 DEF ReadingInv
    <2>2. CASE at = "clients" /\ at' = "accept"
      BY <1>1, <1>2, <2>2 DEF ReadingInv, Reading
    <2> QED
      BY <1>3, <2>1, <2>2
  <1>10. HandlingInv'
    <2>1. CASE at' \in {"handler", "dispatch"}
      <3>1. at' = at /\ Len(clients') = Len(clients)
        BY <1>3, <1>5, <2>1
      <3>2. NormalNow => NormalNow'
        BY <1>2, <1>6 DEF NormalNow
      <3>3. \A k \in 1..10 : UpgradingNow(k) => UpgradingNow(k)'
        BY <1>2, <1>6, <3>1 DEF UpgradingNow
      <3>4. at = "handler" => NormalNow' \/ \E k \in 1..10 : UpgradingNow(k)'
        BY <1>1, <3>2, <3>3 DEF HandlingInv
      <3>5. at = "dispatch" => NormalNow' \/ UpgradingNow(10)'
        BY <1>1, <3>2, <3>3 DEF HandlingInv
      <3> QED
        BY <3>1, <3>4, <3>5 DEF HandlingInv
    <2>2. CASE at' \notin {"handler", "dispatch"}
      BY <2>2 DEF HandlingInv
    <2> QED
      BY <2>1, <2>2
  <1>11. AnswerInv'
    <2>1. CASE at' = "finalize"
      BY <1>1, <1>2, <1>3, <1>5, <1>6, <2>1 DEF AnswerInv
    <2>2. CASE at' # "finalize"
      BY <1>1, <1>2, <1>3, <1>6, <2>2 DEF AnswerInv
    <2> QED
      BY <2>1, <2>2
  <1> QED
    BY <1>7, <1>8, <1>9, <1>10, <1>11 DEF HttpInv

\* What fits some codes fits more of them.
LEMMA MoreCodesFit ==
  ASSUME NEW codes, NEW more, codes \subseteq more, NEW c, NEW r, NEW k, NEW rq, NEW b, NEW l, NEW n
  PROVE  /\ Normal(c, r, codes, k, rq, b, l) => Normal(c, r, more, k, rq, b, l)
         /\ Upgrading(k, c, r, codes, rq, n) => Upgrading(k, c, r, more, rq, n)
  <1>1. Sound(r, codes) => Sound(r, more)
    BY DEF Sound
  <1>2. CallsFit(c, r, codes) => CallsFit(c, r, more)
    BY DEF CallsFit
  <1>3. Upgrading(k, c, r, codes, rq, n) => Upgrading(k, c, r, more, rq, n)
    BY DEF Upgrading
  <1> QED
    BY <1>1, <1>2, <1>3 DEF Normal

\* The peer stalls.
LEMMA PeerStallsStep ==
  ASSUME HttpInv, PeerStalls
  PROVE  HttpInv'
  <1>1. HttpTypes /\ HttpFlags /\ ReadingInv /\ HandlingInv
    BY DEF HttpInv
  <1>2. /\ at \in {"method", "url", "version", "headers", "dispatch"} /\ stalled' = TRUE
        /\ UNCHANGED <<at, request, made, buffers, unread, left, resp, route, calls, clients, pos>>
    BY DEF PeerStalls
  <1>3. Fit \subseteq Fit'
    <2>1. ExpectedCodes' = ExpectedCodes
      BY <1>2 DEF ExpectedCodes, Values, AsksForUpgrade, Single
    <2>2. ~stalled
      BY DEF PeerStalls
    <2> QED
      BY <1>2, <2>1, <2>2 DEF Fit
  <1>4. HttpTypes'
    BY <1>1, <1>2 DEF HttpTypes
  <1>5. HttpFlags'
    BY <1>1, <1>2 DEF HttpFlags
  <1>6. ReadingInv'
    BY <1>1, <1>2 DEF ReadingInv
  <1>7. HandlingInv'
    <2>1. NormalNow => NormalNow'
      BY <1>2, <1>3, MoreCodesFit DEF NormalNow
    <2>2. UpgradingNow(10) => UpgradingNow(10)'
      BY <1>2, <1>3, MoreCodesFit DEF UpgradingNow
    <2> QED
      BY <1>1, <1>2, <2>1, <2>2 DEF HandlingInv
  <1>8. AnswerInv'
    BY <1>2 DEF AnswerInv
  <1> QED
    BY <1>4, <1>5, <1>6, <1>7, <1>8 DEF HttpInv

\* Initially nothing has been done.
LEMMA HttpInitHolds ==
  ASSUME HttpInit
  PROVE  HttpInv
  <1>1. /\ at = "accept" /\ request = NoRequest /\ made = 0 /\ stalled = FALSE /\ buffers = EmptyBuffers
        /\ unread = <<>> /\ left = FALSE /\ resp = NewResponse /\ route = 1 /\ calls = <<>> /\ clients = <<>> /\ pos = 1
    BY DEF HttpInit
  <1>2. resp \in Responses /\ Len(resp.headers) <= MaxHeaders /\ Len(resp.buf) < OutputBufferSize
    BY <1>1, NewIsFresh DEF Fresh, Limited
  <1>3. made \in 0..MaxRequests /\ at \in HttpPlaces /\ route \in 1..9
    BY <1>1, WebServerAssumption DEF HttpPlaces
  <1>4. request.lines = <<>>
    BY <1>1 DEF NoRequest
  <1>5. request.lines \in Seq(HeaderLines) /\ unread \in Seq(HeaderLines) /\ calls \in Seq(LegalCalls)
    BY <1>1, <1>4
  <1>6. buffers \in [Registered -> Seq(Strings)]
    BY <1>1 DEF EmptyBuffers
  <1>7. clients \in Seq(BOOLEAN) /\ Len(clients) = 0
    BY <1>1
  <1>8. pos \in 1..(Len(clients) + 1) /\ Len(clients) <= MaxConnections
    BY <1>1, <1>7, WebServerAssumption
  <1>9. HttpTypes
    BY <1>1, <1>2, <1>3, <1>5, <1>6, <1>7, <1>8 DEF HttpTypes
  <1>10. HttpFlags
    BY <1>1 DEF HttpFlags
  <1>11. ReadingInv /\ HandlingInv /\ AnswerInv
    BY <1>1 DEF ReadingInv, HandlingInv, AnswerInv, Reading
  <1> QED
    BY <1>9, <1>10, <1>11 DEF HttpInv

\* The invariant of the web server
LEMMA HttpSafe == HttpSpec => []HttpInv
  <1>1. HttpInit => HttpInv
    BY HttpInitHolds
  <1>2. HttpInv /\ [HttpNext]_httpVars => HttpInv'
    <2> SUFFICES ASSUME HttpInv, [HttpNext]_httpVars PROVE HttpInv'
      OBVIOUS
    <2>1. CASE UNCHANGED httpVars
      <3>1. Fit' = Fit
        BY <2>1, FitKept DEF httpVars
      <3>2. HttpTypes' /\ HttpFlags' /\ ReadingInv'
        BY <2>1 DEF httpVars, HttpInv, HttpTypes, HttpFlags, ReadingInv
      <3>3. HandlingInv' /\ AnswerInv'
        BY <2>1, <3>1 DEF httpVars, HttpInv, HandlingInv, AnswerInv, NormalNow, UpgradingNow
      <3> QED
        BY <3>2, <3>3 DEF HttpInv
    <2>2. CASE PeerStalls
      BY <2>2, PeerStallsStep
    <2>3. CASE ClientLeaves \/ VisitClient \/ EraseClient \/ EndOfClients
      BY <2>3, ClientSteps
    <2>4. CASE Accept \/ AcceptNobody
      BY <2>4, AcceptSteps
    <2>5. CASE ProcessMethod \/ ReadURL \/ ReadVersion
      BY <2>5, RequestLineSteps
    <2>6. CASE ProcessHeaderLine
      BY <2>6, HeaderLineStep
    <2>7. CASE Dispatch
      BY <2>7, DispatchStep
    <2>8. CASE DispatchEnds
      BY <2>8, DispatchEndsStep
    <2>9. CASE CallStatus \/ CallSet \/ CallPrint \/ CallWrite \/ CallFlush \/ CallEnd \/ CallConvert
      BY <2>9, CallsAreCarried, CallStepKeeps
    <2>10. CASE HandlerReturns
      BY <2>10, HandlerReturnsStep
    <2>11. CASE Finalize
      BY <2>11, FinalizeStep
    <2> QED
      BY <2>1, <2>2, <2>3, <2>4, <2>5, <2>6, <2>7, <2>8, <2>9, <2>10, <2>11
         DEF HttpNext, HttpServerStep, Process, Handler
  <1> QED
    BY <1>1, <1>2, PTL DEF HttpSpec

\* What has left for the peer, when a request has been answered
LEMMA AnswerSent ==
  ASSUME HttpInv, Answered
  PROVE  /\ resp.buf = <<>> /\ resp.wire \in Seq(OutPieces)
         /\ Answer(resp, Fit, request) /\ Stream(resp) = resp.wire
         /\ DOMAIN resp.wire = 1..Len(resp.wire) /\ Len(resp.wire) \in Nat
         /\ Len(Kinds) = Len(resp.wire) /\ DOMAIN Kinds = 1..Len(resp.wire)
         /\ \A i \in 1..Len(resp.wire) : Kinds[i] = resp.wire[i].kind
  <1>1. resp.buf = <<>> /\ Answer(resp, Fit, request)
    BY DEF HttpInv, AnswerInv, Answered
  <1>2. resp.wire \in Seq(OutPieces)
    BY ResponseFields DEF HttpInv, HttpTypes
  <1>3. Stream(resp) = resp.wire
    BY <1>1, <1>2, ConcatEmptySeq DEF Stream
  <1> DEFINE w == resp.wire
  <1>4. w \in Seq(OutPieces) /\ Kinds = [i \in DOMAIN w |-> w[i].kind]
    BY <1>2 DEF Kinds
  <1> HIDE DEF w
  <1>5. DOMAIN w = 1..Len(w) /\ Len(w) \in Nat
    BY <1>4
  <1>6. Kinds = [i \in 1..Len(w) |-> w[i].kind]
    BY <1>4, <1>5
  <1>7. Len(Kinds) = Len(w) /\ DOMAIN Kinds = 1..Len(w) /\ \A i \in 1..Len(w) : Kinds[i] = w[i].kind
    BY <1>5, <1>6
  <1> QED
    BY <1>1, <1>2, <1>3, <1>5, <1>7 DEF w

\* Whatever is asked and wherever a peer stalls, whichever routes match: the answer is within
\* the buffers, one status line, headers, a blank line and the body of one handler, and its
\* status is the one that fits the request (aWOT and LucidacWebServer).
THEOREM AnswersAreRight == HttpSpec => []AnswersFitRequests
  <1>1. HttpInv => AnswersFitRequests
    <2> HAVE HttpInv
    <2>1. HttpTypes /\ HttpFlags
      BY DEF HttpInv
    <2>2. HttpTypeOK
      <3>1. {stalled, left, resp.headersSent, resp.lengthSet, resp.ended, resp.convert} \subseteq BOOLEAN
        <4>1. resp.headersSent \in BOOLEAN /\ resp.lengthSet \in BOOLEAN /\ resp.ended \in BOOLEAN /\ resp.convert \in BOOLEAN
          BY <2>1, ResponseFields DEF HttpTypes
        <4> QED
          BY <2>1, <4>1, Zenon DEF HttpFlags
      <3>2. DOMAIN buffers = Registered
        BY <2>1 DEF HttpTypes
      <3> QED
        BY <2>1, <3>1, <3>2 DEF HttpTypes, HttpTypeOK, HttpPlaces
    <2>3. AnswerIsWellFormed
      <3> SUFFICES ASSUME Answered
                   PROVE  /\ resp.buf = <<>>
                          /\ \E b \in DOMAIN Kinds :
                               /\ b > 1 /\ Kinds[1] = "status" /\ Kinds[b] = "blank"
                               /\ \A i \in 2..(b - 1) : Kinds[i] = "header"
                               /\ \A i \in (b + 1)..Len(Kinds) : Kinds[i] = "body" /\ resp.wire[i].what = resp.wire[b + 1].what
        BY DEF AnswerIsWellFormed
      <3> DEFINE s == resp.wire
      <3>1. /\ resp.buf = <<>> /\ Headed(s) /\ (\E w \in BodyNames : BodyIs(s, w)) /\ Len(s) \in Nat
            /\ Len(Kinds) = Len(s) /\ DOMAIN Kinds = 1..Len(s) /\ \A i \in 1..Len(s) : Kinds[i] = s[i].kind
        BY AnswerSent DEF Answer
      <3> HIDE DEF s
      <3>2. PICK b \in 2..Len(s) : /\ s[1].kind = "status" /\ s[b].kind = "blank"
                                   /\ \A i \in 2..(b - 1) : s[i].kind = "header"
                                   /\ \A i \in (b + 1)..Len(s) : s[i].kind = "body"
        BY <3>1 DEF Headed
      <3>3. PICK w \in BodyNames : BodyIs(s, w)
        BY <3>1
      <3>4. /\ 1 \in 1..Len(s) /\ b \in 1..Len(s) /\ b > 1 /\ \A i \in 2..(b - 1) : i \in 1..Len(s)
            /\ \A i \in (b + 1)..Len(s) : i \in 1..Len(s) /\ b + 1 \in (b + 1)..Len(s)
        BY <3>1
      <3>5. \A i \in (b + 1)..Len(s) : Kinds[i] = "body" /\ s[i].what = w /\ s[b + 1].what = w
        BY <3>1, <3>2, <3>3, <3>4 DEF BodyIs
      <3>6. Kinds[1] = "status" /\ Kinds[b] = "blank" /\ \A i \in 2..(b - 1) : Kinds[i] = "header"
        BY <3>1, <3>2, <3>4
      <3> QED
        BY <3>1, <3>4, <3>5, <3>6 DEF s
    <2>4. StatusFitsRequest
      <3> SUFFICES ASSUME Answered PROVE CodeSent \in Fit
        BY DEF StatusFitsRequest, Fit
      <3> QED
        BY AnswerSent DEF Answer, CodeSent
    <2> QED
      BY <2>2, <2>3, <2>4 DEF AnswersFitRequests
  <1> QED
    BY <1>1, HttpSafe, PTL

\* A connection is upgraded on the headers of its own request only, with nothing of HTTP after
\* the answer 101, and never beyond the limit of clients (websocket_upgrade() and loop()).
THEOREM UpgradesAreRight == HttpSpec => []UpgradesAreSound
  <1>1. HttpInv => UpgradesAreSound
    <2> HAVE HttpInv
    <2>1. UpgradeWasRequested
      <3> SUFFICES ASSUME Answered, resp.convert PROVE Requested(request)
        BY DEF UpgradeWasRequested, Requested, WantedLines
      <3> QED
        BY AnswerSent DEF Answer
    <2>2. UpgradeIsClean
      <3> SUFFICES ASSUME Answered
                   PROVE  (resp.convert <=> CodeSent = 101) /\ (resp.convert => Kinds[Len(Kinds)] = "blank")
        BY DEF UpgradeIsClean
      <3>1. /\ resp.convert <=> resp.wire[1].what = 101
            /\ resp.convert => resp.wire[Len(resp.wire)].kind = "blank"
        BY AnswerSent DEF Answer
      <3>2. Len(resp.wire) \in 1..Len(resp.wire)
        <4>1. Headed(resp.wire) /\ Len(resp.wire) \in Nat
          BY AnswerSent DEF Answer
        <4> QED
          BY <4>1 DEF Headed
      <3>3. Kinds[Len(Kinds)] = resp.wire[Len(resp.wire)].kind
        BY <3>2, AnswerSent
      <3> QED
        BY <3>1, <3>3 DEF CodeSent
    <2>3. WithinMaxConnections
      BY DEF HttpInv, HttpTypes, WithinMaxConnections
    <2> QED
      BY <2>1, <2>2, <2>3 DEF UpgradesAreSound
  <1> QED
    BY <1>1, HttpSafe, PTL

=============================================================================
