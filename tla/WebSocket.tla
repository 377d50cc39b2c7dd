----------------------------- MODULE WebSocket -----------------------------
(***************************************************************************)
(* One websocket connection of the web server: WebsocketsEndpoint reads    *)
(* frames off a TCP stream, puts fragments together with a StreamBuilder   *)
(* and answers control frames; WebsocketsClient::poll() hands messages to  *)
(* the callback of the web server; LucidacWebServer::loop() visits the     *)
(* connection and erases it.  TCP keeps bytes in order but cuts them       *)
(* anywhere, and more of them arrive between any two reads.                *)
(*                                                                         *)
(* Bytes are numbers.  An answer of the JSONL protocol is known by the     *)
(* text it answers.                                                        *)
(***************************************************************************)
EXTENDS Integers, Sequences

CONSTANTS Frames,      \* frames the peer may send: [fin, op, mask, ext, data]
          MaxFrames,   \* how many it sends
          Window,      \* bound: unread bytes with which the peer still sends
          MaskingKey,  \* the four bytes the peer masks with
          Garbage,     \* what an uninitialised byte of the stack may hold
          BufferSize   \* _WS_BUFFER_SIZE

Byte == 0..255
Continuation == 0
Text == 1
Binary == 2
Close == 8
Ping == 9
Pong == 10
NormalClosure == 1000
GoingAway == 1001
ProtocolError == 1002
NoReason == -1

ASSUME FramesAssumption ==
  /\ Frames \subseteq [fin : 0..1, op : 0..15, mask : 0..1, ext : BOOLEAN, data : Seq(Byte)]
  /\ \A f \in Frames : Len(f.data) < IF f.ext THEN 65536 ELSE 126
ASSUME WebSocketAssumption ==
  /\ MaxFrames \in Nat /\ Window \in Nat
  /\ BufferSize \in Nat \ {0}
  /\ MaskingKey \in Seq(Byte) /\ Len(MaskingKey) = 4
  /\ Garbage \subseteq Byte /\ Garbage # {}

VARIABLES
  sent,            \* history: the frames the peer has sent
  net,             \* bytes on their way
  peerOpen,        \* the peer has not closed its side
  rx,              \* bytes in the receive buffer of the socket
  stopped,         \* socket.stop() was called on this side
  pc,              \* where the main loop is inside the visit of this client
  hdr,             \* the Header that was read, and its extended length
  maskingKey,      \* maskingKey of _recv(), which like hdr and data is local to it
  data,            \* readData(): the payload read so far
  mode,            \* _recvMode
  builder,         \* _streamBuilder
  connectionOpen,  \* WebsocketsClient::_connectionOpen
  closeReason,     \* _closeReason
  out,             \* history: the frames that were sent to the peer, and the number of the frame that each answers
  handled,         \* history: how many frames have been handled
  torn,            \* history: a header, a length or a key was read short
  erased           \* the client is no longer in the list of clients

peer == <<sent, net, peerOpen>>
endpoint == <<mode, builder, closeReason>>
reader == <<hdr, maskingKey, data>>
vars == <<peer, rx, stopped, pc, reader, endpoint, connectionOpen, out, handled, torn, erased>>

NoHeader == [fin |-> 0, op |-> 0, mask |-> 0, len |-> 0]
EmptyBuilder == [empty |-> TRUE, errored |-> FALSE, type |-> 0, content |-> <<>>]
Hello == [op |-> Text, data |-> <<>>, to |-> 0]

Init ==
  /\ sent = <<>> /\ net = <<>> /\ peerOpen = TRUE
  /\ rx = <<>> /\ stopped = FALSE
  /\ pc = "loop"
  /\ hdr = NoHeader /\ maskingKey = <<0, 0, 0, 0>> /\ data = <<>>
  /\ mode = "Normal" /\ builder = EmptyBuilder /\ closeReason = NoReason
  /\ connectionOpen = TRUE
  /\ out = <<Hello>>
  /\ handled = 0 /\ torn = FALSE /\ erased = FALSE

(***************************************************************************)
(* The peer and the network.                                               *)
(***************************************************************************)
Bit(b, i) == (b \div 2^i) % 2
Xor(a, b) ==
  LET bit(i) == ((Bit(a, i) + Bit(b, i)) % 2) * 2^i
  IN  bit(0) + bit(1) + bit(2) + bit(3) + bit(4) + bit(5) + bit(6) + bit(7)

\* remaskData(): its own inverse.
Remask(d, k) == [i \in DOMAIN d |-> Xor(d[i], k[((i - 1) % 4) + 1])]

HeaderBytes(fin, op, mask, n, ext) ==
  <<128 * fin + op>> \o
  (IF ext THEN <<128 * mask + 126, n \div 256, n % 256>> ELSE <<128 * mask + n>>)

Encode(f) ==
  HeaderBytes(f.fin, f.op, f.mask, Len(f.data), f.ext) \o
  (IF f.mask = 1 THEN MaskingKey \o Remask(f.data, MaskingKey) ELSE f.data)

\* After a torn read the stream has lost its frames; the peer's further ones
\* would only be more bytes of it, and are left out.
PeerSends ==
  \E f \in Frames :
    /\ peerOpen /\ Len(sent) < MaxFrames /\ net = <<>> /\ Len(rx) <= Window /\ ~torn
    /\ sent' = Append(sent, f)
    /\ net' = net \o Encode(f)
    /\ UNCHANGED <<peerOpen, rx, stopped, pc, reader, endpoint, connectionOpen, out, handled, torn, erased>>

\* The peer closes its side, or the connection is lost with what is on its way.
PeerCloses ==
  /\ peerOpen
  /\ peerOpen' = FALSE
  /\ net' \in {net, <<>>}
  /\ UNCHANGED <<sent, rx, stopped, pc, reader, endpoint, connectionOpen, out, handled, torn, erased>>

\* Bytes arrive one by one: a segment is several of these steps with none of
\* the server in between, so every way to cut the stream is among them.
Arrive ==
  /\ ~stopped /\ net # <<>>
  /\ rx' = Append(rx, Head(net))
  /\ net' = Tail(net)
  /\ UNCHANGED <<sent, peerOpen, stopped, pc, reader, endpoint, connectionOpen, out, handled, torn, erased>>

\* EthernetClient::connected(): true until the last byte has been read.
connected == ~stopped /\ (peerOpen \/ net # <<>> \/ rx # <<>>)

(***************************************************************************)
(* The visit of the client in LucidacWebServer::loop(), and poll().        *)
(* TcpClient::available() tests a pointer that is never null, so           *)
(* available() of the client is _connectionOpen.                           *)
(***************************************************************************)
available == connectionOpen

Visit ==
  /\ pc = "loop" /\ ~erased
  /\ connected /\ available
  /\ pc' = "poll"
  /\ UNCHANGED <<peer, rx, stopped, reader, endpoint, connectionOpen, out, handled, torn, erased>>

\* The socket is closed first: the close frame of the destructor goes nowhere.
Erase ==
  /\ pc = "loop" /\ ~erased
  /\ ~connected
  /\ stopped' = TRUE /\ erased' = TRUE /\ connectionOpen' = FALSE
  /\ closeReason' = IF available THEN GoingAway ELSE closeReason
  /\ UNCHANGED <<peer, rx, pc, reader, mode, builder, out, handled, torn>>

PollEnds ==
  /\ pc = "poll"
  /\ ~available \/ rx = <<>>
  /\ pc' = "loop"
  /\ UNCHANGED <<peer, rx, stopped, reader, endpoint, connectionOpen, out, handled, torn, erased>>

(***************************************************************************)
(* _recv(): header, extended length, key and payload.  A read takes what   *)
(* is there; only the payload is read until it is complete.                *)
(***************************************************************************)
Min2(a, b) == IF a < b THEN a ELSE b
Taken(n) == SubSeq(rx, 1, Min2(n, Len(rx)))
Left(n) == SubSeq(rx, Min2(n, Len(rx)) + 1, Len(rx))

\* The bytes of a buffer of length n after a read into it over `before`.
ReadInto(before) == [i \in DOMAIN before |-> IF i <= Len(rx) THEN rx[i] ELSE before[i]]

AfterLength(mask) == IF mask = 1 THEN "key" ELSE "data"

\* header.payload is preset to 0, the mask bit is not.
readHeader ==
  /\ pc = "poll" /\ available /\ rx # <<>>
  /\ \E g \in Garbage :
       LET b == ReadInto(<<g, (g \div 128) * 128>>)
       IN  hdr' = [fin |-> b[1] \div 128, op |-> b[1] % 16, mask |-> b[2] \div 128, len |-> b[2] % 128]
  /\ rx' = Left(2)
  /\ torn' = (torn \/ Len(rx) < 2)
  /\ pc' = IF hdr'.len >= 126 THEN "length" ELSE AfterLength(hdr'.mask)
  /\ data' = <<>>
  /\ UNCHANGED <<peer, stopped, maskingKey, endpoint, connectionOpen, out, handled, erased>>

\* 16 or 64 bits, most significant byte first; of the 64 the lower 24.
readExtendedPayloadLength ==
  /\ pc = "length"
  /\ LET n == IF hdr.len = 126 THEN 2 ELSE 8
         b == ReadInto([i \in 1..n |-> 0])
     IN  /\ hdr' = [hdr EXCEPT !.len = IF n = 2 THEN 256 * b[1] + b[2] ELSE 65536 * b[6] + 256 * b[7] + b[8]]
         /\ rx' = Left(n)
         /\ torn' = (torn \/ Len(rx) < n)
  /\ pc' = AfterLength(hdr.mask)
  /\ UNCHANGED <<peer, stopped, maskingKey, data, endpoint, connectionOpen, out, handled, erased>>

readMaskingKey ==
  /\ pc = "key"
  /\ \E g \in Garbage : maskingKey' = ReadInto(<<g, g, g, g>>)
  /\ rx' = Left(4)
  /\ torn' = (torn \/ Len(rx) < 4)
  /\ pc' = "data"
  /\ UNCHANGED <<peer, stopped, hdr, data, endpoint, connectionOpen, out, handled, erased>>

\* With nothing there the loop spins: nothing but arriving bytes ends it.
readData ==
  /\ pc = "data" /\ Len(data) < hdr.len
  /\ LET n == Min2(BufferSize, hdr.len - Len(data))
     IN  data' = data \o Taken(n) /\ rx' = Left(n)
  /\ UNCHANGED <<peer, stopped, pc, hdr, maskingKey, endpoint, connectionOpen, out, handled, torn, erased>>

(***************************************************************************)
(* recv(): what a complete frame does.                                     *)
(***************************************************************************)
payload == IF hdr.mask = 1 THEN Remask(data, maskingKey) ELSE data
isEmpty == hdr.fin = 0 /\ hdr.op = 0 /\ hdr.len = 0

isControlFrame == hdr.fin = 1 /\ hdr.op \in {Close, Ping, Pong}
isBeginning == hdr.fin = 0 /\ hdr.op # 0
isContinues == hdr.fin = 0 /\ hdr.op = 0 /\ ~isEmpty
isEnd == hdr.fin = 1 /\ hdr.op = 0
isWhole == hdr.fin = 1 /\ hdr.op # 0

\* messageTypeFromOpcode(): 0 stands for MessageType::Empty.
TypeOf(op) == IF op \in {Text, Binary, Close, Ping, Pong} THEN op ELSE 0

KnownReasons == {1000, 1001, 1002, 1003, 1005, 1006, 1007, 1008, 1009, 1011}
GetCloseReason(d) ==
  IF Len(d) < 2 THEN GoingAway
  ELSE LET code == 256 * d[1] + d[2] IN IF code \in KnownReasons THEN code ELSE NoReason

\* send(): the frame is written with a header for its length, not masked.
Send(op, d) == out' = Append(out, [op |-> op, data |-> d, to |-> handled + 1])

ReasonBytes(reason) == IF reason = NoReason THEN <<>> ELSE <<reason \div 256, reason % 256>>

\* Mutant: the frame is sent, but the socket is left open.
CloseWithoutStop(reason) ==
  /\ closeReason' = reason
  /\ Send(Close, ReasonBytes(reason))
  /\ UNCHANGED <<stopped, rx>>

\* endpoint.close(): the frame is sent and the socket stopped.
EndpointClose(reason) ==
  /\ closeReason' = reason
  /\ Send(Close, ReasonBytes(reason))
  /\ stopped' = TRUE
  /\ rx' = <<>>

\* handleMessageInternally(), and poll() with the callback of the web server.
Received(type, d) ==
  \/ /\ type = Text
     /\ Send(Text, d)
     /\ UNCHANGED <<closeReason, stopped, rx, connectionOpen>>
  \/ /\ type = Ping
     /\ IF Len(d) > 125 THEN UNCHANGED out ELSE Send(Pong, d)
     /\ UNCHANGED <<closeReason, stopped, rx, connectionOpen>>
  \/ /\ type = Close
     /\ EndpointClose(GetCloseReason(d))
     /\ connectionOpen' = FALSE
  \/ /\ type \notin {Text, Ping, Close}
     /\ UNCHANGED <<out, closeReason, stopped, rx, connectionOpen>>

\* close(CloseReason_ProtocolError): _connectionOpen is left as it is.
BadCombination == EndpointClose(ProtocolError) /\ UNCHANGED connectionOpen

FrameComplete ==
  /\ pc = "data" /\ Len(data) = hdr.len
  /\ pc' = "poll"
  /\ handled' = handled + 1
  /\ hdr' = NoHeader /\ maskingKey' = <<0, 0, 0, 0>> /\ data' = <<>>
  /\ UNCHANGED <<peer, torn, erased>>

SkipEmpty ==
  /\ FrameComplete /\ isEmpty
  /\ UNCHANGED <<rx, stopped, endpoint, connectionOpen, out>>

WholeMessage ==
  /\ FrameComplete
  /\ isControlFrame \/ (mode = "Normal" /\ isWhole)
  /\ Received(TypeOf(hdr.op), payload)
  /\ UNCHANGED <<mode, builder>>

BeginStream ==
  /\ FrameComplete /\ isBeginning
  /\ mode' = "Streaming"
  /\ \/ /\ builder.empty
        /\ builder' = [empty |-> FALSE, errored |-> TypeOf(hdr.op) = 0, type |-> TypeOf(hdr.op), content |-> payload]
        /\ UNCHANGED <<rx, stopped, closeReason, connectionOpen, out>>
     \/ ~builder.empty /\ BadCombination /\ UNCHANGED builder

AppendFragment ==
  /\ FrameComplete /\ isContinues /\ mode = "Streaming"
  /\ \/ /\ ~builder.errored
        /\ builder' = [builder EXCEPT !.content = @ \o payload]
        /\ UNCHANGED <<rx, stopped, closeReason, connectionOpen, out>>
     \/ builder.errored /\ BadCombination /\ UNCHANGED builder
  /\ UNCHANGED mode

\* Mutant: the payload of the last fragment is not appended.
EndWithoutLast ==
  /\ FrameComplete /\ isEnd /\ mode = "Streaming"
  /\ mode' = "Normal"
  /\ \/ ~builder.errored /\ Received(builder.type, builder.content) /\ builder' = EmptyBuilder
     \/ builder.errored /\ BadCombination /\ UNCHANGED builder

EndStream ==
  /\ FrameComplete /\ isEnd /\ mode = "Streaming"
  /\ mode' = "Normal"
  /\ \/ ~builder.errored /\ Received(builder.type, builder.content \o payload) /\ builder' = EmptyBuilder
     \/ builder.errored /\ BadCombination /\ UNCHANGED builder

OutOfPlace ==
  /\ FrameComplete
  /\ \/ mode = "Normal" /\ (isContinues \/ isEnd)
     \/ mode = "Streaming" /\ isWhole /\ ~isControlFrame
  /\ BadCombination
  /\ UNCHANGED <<mode, builder>>

recv == SkipEmpty \/ WholeMessage \/ BeginStream \/ AppendFragment \/ EndStream \/ OutOfPlace

ServerStep ==
  \/ Visit \/ Erase \/ PollEnds
  \/ readHeader \/ readExtendedPayloadLength \/ readMaskingKey \/ readData
  \/ recv

\* The other work of the main loop between two visits.
Elsewhere == pc = "loop" /\ UNCHANGED vars

Next == PeerSends \/ PeerCloses \/ Arrive \/ ServerStep \/ Elsewhere

Spec == Init /\ [][Next]_vars
\* The main loop always runs on, and TCP delivers what was sent.
FairSpec == Spec /\ WF_vars(ServerStep) /\ WF_vars(Arrive)
-----------------------------------------------------------------------------
\* Types of the state of the connection.
TypeOK ==
  /\ sent \in Seq(Frames) /\ net \in Seq(Byte) /\ rx \in Seq(Byte) /\ data \in Seq(Byte)
  /\ maskingKey \in Seq(Byte) /\ Len(maskingKey) = 4
  /\ {peerOpen, stopped, connectionOpen, torn, erased} \subseteq BOOLEAN
  /\ pc \in {"loop", "poll", "length", "key", "data"}
  /\ hdr \in [fin : 0..1, op : 0..15, mask : 0..1, len : Nat]
  /\ mode \in {"Normal", "Streaming"}
  /\ builder \in [empty : BOOLEAN, errored : BOOLEAN, type : 0..15, content : Seq(Byte)]
  /\ closeReason \in Int
  /\ out \in Seq([op : 0..15, data : Seq(Byte), to : Nat])
  /\ handled \in Nat

(***************************************************************************)
(* The messages in a sequence s of frames, as RFC 6455 defines them: a     *)
(* frame with FIN and an opcode is one of its own; else a message begins   *)
(* with an opcode and without FIN, and ends with the first continuation    *)
(* that has FIN.  Control frames may lie in between.                       *)
(***************************************************************************)
IsControl(f) == f.fin = 1 /\ f.op \in {Close, Ping, Pong}
Continues(f) == f.fin = 0 /\ f.op = Continuation
Spans(s, j, i) ==
  \/ j = i /\ s[i].fin = 1 /\ s[i].op # Continuation
  \/ /\ j < i
     /\ s[j].fin = 0 /\ s[j].op # Continuation
     /\ s[i].fin = 1 /\ s[i].op = Continuation
     /\ \A k \in (j + 1)..(i - 1) : IsControl(s[k]) \/ Continues(s[k])

\* m is what the fragments among the frames j to i of s carry, one after the other: the part
\* of frame k begins behind the first off[k] bytes.
Part(f) == IF IsControl(f) THEN <<>> ELSE f.data
Joined(s, j, i, m) ==
  \E off \in [j..(i + 1) -> 0..Len(m)] :
    /\ off[j] = 0 /\ off[i + 1] = Len(m)
    /\ \A k \in j..i : /\ off[k + 1] = off[k] + Len(Part(s[k]))
                       /\ \A b \in 1..Len(Part(s[k])) : m[off[k] + b] = Part(s[k])[b]

\* The frames j to i of s are the message m of type op.
Message(s, j, i, op, m) ==
  Spans(s, j, i) /\ s[j].op = op /\ IF j = i THEN m = s[i].data ELSE Joined(s, j, i, m)

\* A part of a message; an empty fragment in the middle is passed over.
IsPart(f) == ~IsControl(f) /\ ~(Continues(f) /\ f.data = <<>>)

\* A message is unfinished before frame i of s.
OpenBefore(s, i) == \E j \in 1..(i - 1) : IsPart(s[j]) /\ s[j].fin = 0 /\ \A k \in (j + 1)..(i - 1) : ~IsPart(s[k])

\* Frame i of s continues a message if and only if one is unfinished.
Placed(s, i) == IsPart(s[i]) => ((s[i].op = Continuation) <=> OpenBefore(s, i))

\* However TCP cuts the stream, as long as no header or key was read short: what the peer is
\* answered after the hello are its text messages, put together from their fragments in order
\* and unmasked, control frames in between or not; each message is answered, once, and in the
\* order in which they ended.
MessagesAreReassembled ==
  ~torn =>
    /\ \A p \in 2..Len(out) : out[p].op = Text => \E j \in 1..handled : Message(sent, j, out[p].to, Text, out[p].data)
    /\ \A i \in 1..handled :
         Placed(sent, i) /\ (\E j \in 1..i : Spans(sent, j, i) /\ sent[j].op = Text) =>
           \E p \in 2..Len(out) : out[p].op = Text /\ out[p].to = i
    /\ \A p, q \in DOMAIN out : p < q => out[p].to < out[q].to

\* Every ping of up to 125 bytes is answered by one pong with its payload, in the middle of a
\* fragmented message too, and nothing else is answered by a pong.
PingsAreAnswered ==
  ~torn =>
    /\ \A i \in 1..handled : sent[i].fin = 1 /\ sent[i].op = Ping /\ Len(sent[i].data) <= 125 =>
         \E p \in DOMAIN out : out[p] = [op |-> Pong, data |-> sent[i].data, to |-> i]
    /\ \A p \in DOMAIN out : out[p].op = Pong => \E j \in 1..handled : Message(sent, j, out[p].to, Ping, out[p].data)

\* A stream of fragments is only continued when one was begun, so that
\* StreamBuilder never reads the flags its constructor leaves uninitialised.
BuilderIsInitialised == mode = "Streaming" => ~builder.empty

\* A connection that is no longer open has a stopped socket: the branch of
\* loop() for connected clients that are not available is never taken.
ClosedIsStopped == ~connectionOpen => stopped

\* A close frame is the last frame the peer gets: it is followed neither by a
\* second one, from the destructor, nor by an answer.
CloseIsLast == \A i \in DOMAIN out : out[i].op = Close => i = Len(out)

\* A frame that mixes two messages or continues none ends the connection;
\* only an empty fragment is passed over.
MixedMessagesEnd == ~torn /\ ~stopped => \A i \in 1..handled : Placed(sent, i)

\* recv(): messages are answered as they were sent, and so are pings, however the bytes
\* arrive, and frames that cannot be put together end the connection.
FramesAreHandled == MessagesAreReassembled /\ PingsAreAnswered /\ MixedMessagesEnd

\* recv() and close(): whatever bytes arrive, the builder is only used when a message was
\* begun, and nothing follows a close.
ConnectionEndsCleanly == TypeOK /\ BuilderIsInitialised /\ ClosedIsStopped /\ CloseIsLast

\* Once the endpoint closed the connection it is erased, whatever the peer does.
StoppedIsErased == stopped ~> erased

\* A connection whose peer has left is given up: available() tells that it is
\* gone, the reads of a frame end, and the main loop goes on.  (Connections
\* with a torn header are left out: their bytes are no frames any more.)
PeerLeavesIsErased == ~peerOpen ~> (erased \/ torn)
=============================================================================
