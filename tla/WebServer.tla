----------------------------- MODULE WebServer -----------------------------
(***************************************************************************)
(* The web server: the aWOT framework reads a request phase by phase, with *)
(* a timeout at every read, hands it to the routes that match and buffers  *)
(* their answer; the handlers of LucidacWebServer serve files, the API and *)
(* the upgrade to a websocket; loop() accepts one connection per pass and  *)
(* then visits the websocket clients.                                      *)
(*                                                                         *)
(* A request is handled in one go: while it lasts nothing else of the      *)
(* firmware runs, only the peer goes on or stalls.  What is written is a   *)
(* sequence of pieces: a status line, a header, the blank line, a piece of *)
(* a body, and a line break that belongs to none of them.                  *)
(***************************************************************************)
EXTENDS Integers, Sequences, SequencesExt

CONSTANTS Requests,          \* requests peers make: [method, path, lines, body]
          MaxRequests,       \* bound: how many are made
          Files,             \* names of the static files in the firmware, as paths
          OutputBufferSize,  \* SERVER_OUTPUT_BUFFER_SIZE, in pieces
          MaxHeaders,        \* SERVER_MAX_HEADERS
          MaxConnections,    \* max_connections
          EnableWebsockets   \* enable_websockets

Registered == {"Connection", "Upgrade", "Version", "Key"}
TooLong == "too_long"
Methods == {"GET", "HEAD", "POST", "PUT", "DELETE", "PATCH", "OPTIONS"}

ASSUME WebServerAssumption ==
  /\ MaxRequests \in Nat /\ MaxHeaders \in Nat /\ MaxConnections \in Nat
  /\ OutputBufferSize \in Nat \ {0}
  /\ EnableWebsockets \in BOOLEAN
  /\ \A r \in Requests : r.lines \in Seq(STRING \X STRING)

VARIABLES
  at,        \* where loop() is
  request,   \* the request that is handled
  made,      \* how many have been made
  stalled,   \* its peer sends no more, or has left
  buffers,   \* the static buffers of the registered request headers
  unread,    \* header lines not yet read
  left,      \* Request::m_left: a body was announced
  resp,      \* the Response, with HTTPContext::convert_to_websocket
  route,     \* number of the route that is tried
  calls,     \* calls on the Response that the handler still makes
  clients,   \* LucidacWebServer::clients: whether each is connected
  pos        \* position of the loop over the clients

httpVars == <<at, request, made, stalled, buffers, unread, left, resp, route, calls, clients, pos>>

NoRequest == [method |-> "GET", path |-> "/", lines |-> <<>>, body |-> "empty"]
EmptyBuffers == [h \in Registered |-> <<>>]
NewResponse == [status |-> 0, headers |-> <<>>, headersSent |-> FALSE, typeSet |-> FALSE, lengthSet |-> FALSE,
                ended |-> FALSE, convert |-> FALSE, buf |-> <<>>, wire |-> <<>>]

HttpInit ==
  /\ at = "accept"
  /\ request = NoRequest /\ made = 0 /\ stalled = FALSE
  /\ buffers = EmptyBuffers /\ unread = <<>> /\ left = FALSE
  /\ resp = NewResponse /\ route = 1 /\ calls = <<>>
  /\ clients = <<>> /\ pos = 1

(***************************************************************************)
(* Response.                                                               *)
(***************************************************************************)
Piece(kind, what) == [kind |-> kind, what |-> what]
Body(who) == Piece("body", who)

\* After the headers a flush without a content length ends with a line break.
Stray(r) == IF r.headersSent /\ ~r.lengthSet THEN <<Piece("break", 0)>> ELSE <<>>

m_flushBuf(r) ==
  IF r.buf = <<>> THEN r ELSE [r EXCEPT !.wire = @ \o r.buf \o Stray(r), !.buf = <<>>]

\* write(uint8_t) of some pieces: the buffer is written whenever it is full.
Put(r, pieces) ==
  LET all == r.buf \o pieces
      n == (Len(all) \div OutputBufferSize) * OutputBufferSize
  IN  [r EXCEPT !.wire = @ \o SubSeq(all, 1, n) \o (IF n > 0 THEN Stray(r) ELSE <<>>),
                !.buf = SubSeq(all, n + 1, Len(all))]

\* set(): keep-alive is never among the values the handlers give.
WithHeader(r, name) ==
  IF Len(r.headers) >= MaxHeaders THEN r
  ELSE [r EXCEPT !.headers = Append(@, name),
                 !.typeSet = @ \/ name = "Content-Type",
                 !.lengthSet = @ \/ name = "Content-Length"]

setDefaults(r) ==
  WithHeader([(IF r.typeSet THEN r ELSE WithHeader(r, "Content-Type")) EXCEPT !.lengthSet = TRUE], "Connection")

StatusLine(code) == <<Piece("status", code)>>

beginHeaders(r) ==
  Put([r EXCEPT !.status = IF @ = 0 THEN 200 ELSE @],
      (IF r.status = 0 THEN StatusLine(200) ELSE <<>>) \o [i \in DOMAIN r.headers |-> Piece("header", r.headers[i])])

endHeaders(r) == [m_flushBuf(Put(r, <<Piece("blank", 0)>>)) EXCEPT !.headersSent = TRUE]

m_printHeaders(r) == endHeaders(beginHeaders(setDefaults(r)))

(***************************************************************************)
(* A handler is the sequence of the calls it makes on the Response; they   *)
(* are carried out one by one.                                             *)
(***************************************************************************)
Call(op, arg) == [op |-> op, arg |-> arg]
Status(code) == Call("status", code)
Set(name) == Call("set", name)
Println(who) == Call("print", who)
sendStatus(code) == <<Status(code), Println("status")>>

notfound == <<Status(404), Set("Server"), Set("Content-Type"), Println("notfound")>>

serve_file == <<Status(200), Set("Content-Type"), Set("ETag"), Call("write", "file"), Call("flush", 0)>>

bytesSent == resp.buf # <<>> \/ resp.wire # <<>>

\* Mutant: the fallback does not ask whether a route has answered.
serve_always == IF request.path \in Files THEN Append(serve_file, Call("end", 0)) ELSE notfound

serve_static ==
  IF bytesSent \/ resp.ended THEN <<>>
  ELSE IF request.path \in Files THEN Append(serve_file, Call("end", 0))
  ELSE notfound

index ==
  IF "/index.html" \in Files THEN <<Status(200)>> \o serve_file
  ELSE <<Status(501), Set("Content-Type"), Println("index")>>

about_static == <<Set("Server"), Set("Content-Type"), Println("about")>>

set_cors ==
  <<Set("Server"), Set("Content-Type"), Set("Allow-Origin"), Set("Allow-Credentials"),
    Set("Allow-Methods"), Set("Allow-Headers")>>

api_preflight == <<Status(200)>> \o set_cors

\* deserializeJson() reads no further than the announced length; a body that
\* stalls is one that does not parse.
api ==
  set_cors \o <<Status(IF left /\ request.body = "json" /\ ~stalled THEN 200 ELSE 400), Println("api")>>

\* req.get() of a registered header is its buffer and never null.
HasErrors ==
  \/ ~\E i \in DOMAIN buffers["Connection"] : buffers["Connection"][i] = "Upgrade"
  \/ buffers["Upgrade"] # <<"websocket">>
  \/ buffers["Version"] # <<"13">>

Full == Len(clients) = MaxConnections

switch_protocols ==
  <<Set("Server"), Set("Connection"), Set("Upgrade"), Set("Version"), Set("Accept"),
    Status(101), Call("flush", 0), Call("end", 0), Call("convert", 0)>>

websocket_upgrade ==
  IF HasErrors
  THEN <<Set("Server"), Status(400), Set("Content-Type"), Println("upgrade"), Println("upgrade")>>
  ELSE IF Full THEN <<Set("Server"), Status(500), Set("Content-Type"), Println("upgrade")>>
  ELSE switch_protocols

(***************************************************************************)
(* Router: the routes in the order of their registration by begin().       *)
(***************************************************************************)
AnyPath == "any"
Route(method, path, calls_) == [method |-> method, path |-> path, calls |-> calls_]
Routes ==
  <<Route("GET", "/", index), Route("GET", "/api", api), Route("POST", "/api", api),
    Route("OPTIONS", "/api", api_preflight),
    Route("GET", "/websocket", websocket_upgrade), Route("OPTIONS", "/websocket", api_preflight),
    Route("GET", "/webserver-status", about_static), Route("GET", AnyPath, serve_static)>>

\* begin() leaves out the routes of websockets if they are not enabled.
IsRegistered(r) == r.path = "/websocket" => EnableWebsockets

m_routeMatch(r) == r.path \in {AnyPath, request.path}
Matches(r) == IsRegistered(r) /\ r.method = request.method /\ m_routeMatch(r)

(***************************************************************************)
(* Application::m_process(): method, URL, version and headers are read in  *)
(* turn.  Each read waits for its byte at most for the timeout.            *)
(***************************************************************************)
PeerStalls ==
  /\ at \in {"method", "url", "version", "headers", "dispatch"} /\ ~stalled
  /\ stalled' = TRUE
  /\ UNCHANGED <<at, request, made, buffers, unread, left, resp, route, calls, clients, pos>>

Accept ==
  \E r \in Requests :
    /\ at = "accept" /\ made < MaxRequests
    /\ request' = r /\ made' = made + 1 /\ stalled' = FALSE
    /\ unread' = r.lines /\ left' = FALSE
    /\ resp' = NewResponse /\ route' = 1
    /\ at' = "method"
    /\ UNCHANGED <<buffers, calls, clients, pos>>

Continue(next) ==
  /\ at' = next
  /\ UNCHANGED <<request, made, stalled, buffers, unread, left, resp, route, calls, clients, pos>>

\* A request that is refused gets past all routes.
Refuse(code) ==
  /\ calls' = sendStatus(code)
  /\ route' = Len(Routes) + 1
  /\ at' = "handler"
  /\ UNCHANGED <<request, made, stalled, buffers, unread, left, resp, clients, pos>>

AcceptNobody == at = "accept" /\ Continue("clients")

ProcessMethod ==
  /\ at = "method"
  /\ \/ stalled /\ Refuse(408)
     \/ ~stalled /\ request.method \notin Methods /\ Refuse(400)
     \/ ~stalled /\ request.method \in Methods /\ Continue("url")

\* A URL that stalls is taken as it is, except within a %xx.
ReadURL ==
  /\ at = "url"
  /\ \/ stalled /\ (Refuse(408) \/ Continue("version"))
     \/ ~stalled /\ request.path = TooLong /\ Refuse(414)
     \/ ~stalled /\ request.path # TooLong /\ Continue("version")

\* Mutant: the read waits for the end of the line whatever time it takes.
WaitForVersion ==
  /\ at = "version"
  /\ \/ stalled /\ UNCHANGED httpVars
     \/ ~stalled /\ Continue("headers")

\* Whatever stands for the version is skipped up to the end of the line: 505
\* is never answered.
ReadVersion ==
  /\ at = "version"
  /\ \/ stalled /\ Refuse(408)
     \/ ~stalled /\ Continue("headers")

\* A header that is repeated is appended to; one that is not registered is skipped.
ProcessHeaderLine ==
  /\ at = "headers"
  /\ \/ stalled /\ Refuse(408)
     \/ /\ ~stalled /\ unread # <<>>
        /\ LET name == Head(unread)[1]
               value == Head(unread)[2]
           IN  \/ name \in Registered \cup {"Content-Length"} /\ value = TooLong /\ Refuse(431)
               \/ /\ name \notin Registered \cup {"Content-Length"} \/ value # TooLong
                  /\ buffers' = IF name \in Registered THEN [buffers EXCEPT ![name] = Append(@, value)] ELSE buffers
                  /\ left' = (left \/ name = "Content-Length")
                  /\ unread' = Tail(unread)
                  /\ UNCHANGED <<at, request, made, stalled, resp, route, calls, clients, pos>>
     \/ ~stalled /\ unread = <<>> /\ Continue("dispatch")

\* m_dispatchMiddleware(): the routes in turn, until one has ended the answer.
Dispatch ==
  /\ at = "dispatch" /\ route <= Len(Routes) /\ ~resp.ended
  /\ LET r == Routes[route]
     IN  calls' = IF Matches(r) THEN r.calls ELSE <<>>
  /\ route' = route + 1
  /\ at' = "handler"
  /\ UNCHANGED <<request, made, stalled, buffers, unread, left, resp, clients, pos>>

\* No route has answered: 404.  Otherwise the headers go out, if they have not.
DispatchEnds ==
  /\ at = "dispatch"
  /\ route > Len(Routes) \/ resp.ended
  /\ \/ resp.status = 0 /\ ~resp.ended /\ Refuse(404)
     \/ /\ resp.status # 0 \/ resp.ended
        /\ resp' = IF resp.headersSent THEN resp ELSE m_printHeaders(resp)
        /\ at' = "finalize"
        /\ UNCHANGED <<request, made, stalled, buffers, unread, left, route, calls, clients, pos>>

CallOf(op) ==
  /\ at = "handler" /\ calls # <<>> /\ Head(calls).op = op
  /\ calls' = Tail(calls)
  /\ UNCHANGED <<at, request, made, stalled, buffers, unread, left, route, clients, pos>>

\* status(): an informational answer is complete with its headers.
CallStatus ==
  /\ CallOf("status")
  /\ LET code == Head(calls).arg
         r == [Put(resp, StatusLine(code)) EXCEPT !.status = code]
     IN  resp' = IF resp.status # 0 THEN resp
                 ELSE IF code < 200 THEN [endHeaders(beginHeaders(r)) EXCEPT !.status = 0] ELSE r

CallSet == CallOf("set") /\ resp' = WithHeader(resp, Head(calls).arg)

\* The headers go out before the first byte of the body.
CallPrint ==
  /\ CallOf("print")
  /\ resp' = Put(IF resp.headersSent THEN resp ELSE m_printHeaders(resp), <<Body(Head(calls).arg)>>)

\* write(uint8_t *, size_t): what is in the buffer goes first.
CallWrite ==
  /\ CallOf("write")
  /\ LET r == m_flushBuf(IF resp.headersSent THEN resp ELSE m_printHeaders(resp))
     IN  resp' = [r EXCEPT !.wire = @ \o <<Body(Head(calls).arg)>> \o Stray(r)]

CallFlush == CallOf("flush") /\ resp' = m_flushBuf(resp)
CallEnd == CallOf("end") /\ resp' = [resp EXCEPT !.ended = TRUE]
CallConvert == CallOf("convert") /\ resp' = [resp EXCEPT !.convert = TRUE]

HandlerReturns ==
  /\ at = "handler" /\ calls = <<>>
  /\ at' = "dispatch"
  /\ UNCHANGED <<request, made, stalled, buffers, unread, left, resp, route, calls, clients, pos>>

Handler == CallStatus \/ CallSet \/ CallPrint \/ CallWrite \/ CallFlush \/ CallEnd \/ CallConvert \/ HandlerReturns

\* Mutant: the header buffers keep what a request left in them.
KeptBuffers == buffers

\* Application::process() empties the buffers for the next request.
ClearedBuffers == EmptyBuffers

\* Back in loop(): the connection becomes a client, or is closed.
Finalize ==
  /\ at = "finalize"
  /\ resp' = m_flushBuf(resp)
  /\ buffers' = ClearedBuffers
  /\ clients' = IF resp.convert THEN Append(clients, TRUE) ELSE clients
  /\ at' = "clients" /\ pos' = 1
  /\ UNCHANGED <<request, made, stalled, unread, left, route, calls>>

(***************************************************************************)
(* The websocket clients: a visit is the subject of module WebSocket.      *)
(***************************************************************************)
ClientLeaves ==
  \E i \in DOMAIN clients :
    /\ clients[i]
    /\ clients' = [clients EXCEPT ![i] = FALSE]
    /\ UNCHANGED <<at, request, made, stalled, buffers, unread, left, resp, route, calls, pos>>

VisitClient ==
  /\ at = "clients" /\ pos <= Len(clients) /\ clients[pos]
  /\ pos' = pos + 1
  /\ UNCHANGED <<at, request, made, stalled, buffers, unread, left, resp, route, calls, clients>>

\* The iterator is invalid then: loop() returns.
EraseClient ==
  /\ at = "clients" /\ pos <= Len(clients) /\ ~clients[pos]
  /\ clients' = RemoveAt(clients, pos)
  /\ at' = "accept" /\ pos' = 1
  /\ UNCHANGED <<request, made, stalled, buffers, unread, left, resp, route, calls>>

EndOfClients ==
  /\ at = "clients" /\ pos > Len(clients)
  /\ at' = "accept" /\ pos' = 1
  /\ UNCHANGED <<request, made, stalled, buffers, unread, left, resp, route, calls, clients>>

Process == ProcessMethod \/ ReadURL \/ ReadVersion \/ ProcessHeaderLine \/ Dispatch \/ DispatchEnds \/ Handler \/ Finalize
HttpServerStep == Accept \/ AcceptNobody \/ Process \/ VisitClient \/ EraseClient \/ EndOfClients

HttpNext == PeerStalls \/ ClientLeaves \/ HttpServerStep

HttpSpec == HttpInit /\ [][HttpNext]_httpVars
HttpFairSpec == HttpSpec /\ WF_httpVars(HttpServerStep)
-----------------------------------------------------------------------------
\* Types of the state of the web server.
HttpTypeOK ==
  /\ at \in {"accept", "method", "url", "version", "headers", "dispatch", "handler", "finalize", "clients"}
  /\ made \in 0..MaxRequests
  /\ {stalled, left, resp.headersSent, resp.lengthSet, resp.ended, resp.convert} \subseteq BOOLEAN
  /\ DOMAIN buffers = Registered
  /\ Len(resp.headers) <= MaxHeaders /\ Len(resp.buf) < OutputBufferSize
  /\ clients \in Seq(BOOLEAN) /\ pos \in 1..(Len(clients) + 1)

Answered == at \in {"clients", "accept"} /\ resp # NewResponse
Kinds == [i \in DOMAIN resp.wire |-> resp.wire[i].kind]
CodeSent == resp.wire[1].what

\* Whichever routes match and in whatever order they print and set: what has
\* left for the peer is one status line, then headers, one blank line and the
\* body, all of it from one handler, with nothing in between and nothing left
\* in the buffer.
AnswerIsWellFormed ==
  Answered =>
    /\ resp.buf = <<>>
    /\ \E b \in DOMAIN Kinds :
         /\ b > 1 /\ Kinds[1] = "status" /\ Kinds[b] = "blank"
         /\ \A i \in 2..(b - 1) : Kinds[i] = "header"
         /\ \A i \in (b + 1)..Len(Kinds) : Kinds[i] = "body" /\ resp.wire[i].what = resp.wire[b + 1].what

\* An upgraded connection has got the answer 101 and not one piece more: the
\* first byte after it is one of a websocket frame.
UpgradeIsClean ==
  Answered => /\ resp.convert <=> CodeSent = 101
              /\ resp.convert => Kinds[Len(Kinds)] = "blank"

\* The connection is upgraded only on headers of its own request: nothing is
\* left in the static buffers from one before, not from one that was refused
\* in the middle of its headers either.
UpgradeWasRequested ==
  Answered /\ resp.convert =>
    \A line \in {<<"Connection", "Upgrade">>, <<"Upgrade", "websocket">>, <<"Version", "13">>} :
      \E i \in DOMAIN request.lines : request.lines[i] = line

\* The codes that fit a request whose peer does not stall.  A header that is
\* there twice is as good as a wrong one, except for Connection.
Values(name) == {request.lines[i][2] : i \in {j \in DOMAIN request.lines : request.lines[j][1] = name}}
Single(name, value) ==
  \E i \in DOMAIN request.lines :
    /\ request.lines[i] = <<name, value>>
    /\ \A j \in DOMAIN request.lines : request.lines[j][1] = name => j = i
AsksForUpgrade == "Upgrade" \in Values("Connection") /\ Single("Upgrade", "websocket") /\ Single("Version", "13")
ExpectedCodes ==
  IF request.method \notin Methods THEN {400}
  ELSE IF request.path = TooLong THEN {414}
  ELSE IF \E n \in Registered \cup {"Content-Length"} : TooLong \in Values(n) THEN {431}
  ELSE IF request.method = "OPTIONS"
       THEN (IF request.path = "/api" \/ (request.path = "/websocket" /\ EnableWebsockets) THEN {200} ELSE {404})
  ELSE IF request.path = "/api" /\ request.method \in {"GET", "POST"}
       THEN (IF request.body = "json" /\ Values("Content-Length") # {} THEN {200} ELSE {400})
  ELSE IF request.method # "GET" THEN {404}
  ELSE IF request.path = "/websocket" /\ EnableWebsockets THEN (IF AsksForUpgrade THEN {101, 500} ELSE {400})
  ELSE IF request.path = "/" THEN (IF "/index.html" \in Files THEN {200} ELSE {501})
  ELSE IF request.path \in Files \cup {"/webserver-status"} THEN {200}
  ELSE {404}

\* The status that goes out is that of the route that is responsible, never
\* one of a fallback that runs after it, and 408 only to a peer that stalls.
StatusFitsRequest ==
  Answered => CodeSent \in ExpectedCodes \cup (IF stalled THEN {408, 400} ELSE {})

\* There are never more websocket clients than max_connections.
WithinMaxConnections == Len(clients) <= MaxConnections

\* The answers of the server: within its buffers, well-formed, with the status that fits.
AnswersFitRequests == HttpTypeOK /\ AnswerIsWellFormed /\ StatusFitsRequest

\* websocket_upgrade(): a connection is upgraded on its own headers only, with nothing of
\* HTTP in its stream of frames, and never beyond the limit of clients.
UpgradesAreSound == UpgradeWasRequested /\ UpgradeIsClean /\ WithinMaxConnections

\* The main loop comes back from every request, whoever stalls where.
LoopReturns == []<>(at = "accept")

\* A place in the list is free again when its client has left.
DisconnectedIsErased == <>[](\A i \in DOMAIN clients : clients[i])
=============================================================================
