------------------------------- MODULE MCWeb -------------------------------
(***************************************************************************)
(* WebServer and WebSocket for TLC.  A connection is one of HTTP until it  *)
(* is upgraded and one of websockets from then on; loop() serves both, one *)
(* after the other, and they share nothing else.                           *)
(***************************************************************************)
EXTENDS WebServer, WebSocket

VARIABLE part   \* the part that is explored

allVars == <<httpVars, vars, part>>

\* Requests for each route, upgrades with all, too few and repeated headers, and requests
\* that break each phase of reading
Request(method, path, lines, body) == [method |-> method, path |-> path, lines |-> lines, body |-> body]
Upgrade == <<<<"Connection", "Upgrade">>, <<"Upgrade", "websocket">>, <<"Version", "13">>, <<"Key", "k">>>>
MCRequests == {
  Request("TRACE", "/", <<>>, "empty"),
  Request("GET", TooLong, <<>>, "empty"),
  Request("GET", "/", <<<<"Connection", "keep-alive">>>>, "empty"),
  Request("GET", "/index.html", <<>>, "empty"),
  Request("GET", "/missing", <<>>, "empty"),
  Request("GET", "/webserver-status", <<>>, "empty"),
  Request("PUT", "/api", <<>>, "empty"),
  Request("OPTIONS", "/api", <<>>, "empty"),
  Request("POST", "/api", <<<<"Content-Length", "12">>>>, "json"),
  Request("POST", "/api", <<>>, "json"),
  Request("POST", "/api", <<<<"Content-Length", TooLong>>>>, "json"),
  Request("GET", "/websocket", Upgrade, "empty"),
  Request("GET", "/websocket", <<<<"Connection", "keep-alive">>>> \o Upgrade, "empty"),
  Request("GET", "/websocket", Upgrade \o <<<<"Version", "13">>>>, "empty"),
  Request("GET", "/websocket", SubSeq(Upgrade, 1, 2), "empty"),
  Request("GET", "/websocket", SubSeq(Upgrade, 3, 4), "empty"),
  Request("GET", "/websocket", SubSeq(Upgrade, 1, 2) \o <<<<"Version", TooLong>>>>, "empty") }
MCFiles == {"/index.html"}

\* Whole and fragmented messages with and without mask, a ping, a close, an empty
\* continuation, an unknown opcode, and a length in 16 bits
Frame(fin, op, mask, ext, d) == [fin |-> fin, op |-> op, mask |-> mask, ext |-> ext, data |-> d]
MCFrames == {
  Frame(1, Text, 1, TRUE, <<1>>),
  Frame(0, Text, 0, FALSE, <<2, 3>>),
  Frame(0, Binary, 0, FALSE, <<8>>),
  Frame(0, 3, 0, FALSE, <<>>),
  Frame(0, Continuation, 0, FALSE, <<4>>),
  Frame(0, Continuation, 0, FALSE, <<>>),
  Frame(1, Continuation, 0, FALSE, <<5>>),
  Frame(1, Ping, 1, FALSE, <<6>>),
  Frame(1, Close, 0, FALSE, <<3, 232>>) }
MCKey == <<85, 1, 2, 3>>

MCInit == part \in {"http", "websocket"} /\ HttpInit /\ Init

Http == part = "http" /\ HttpNext /\ UNCHANGED <<vars, part>>
Websocket == part = "websocket" /\ Next /\ UNCHANGED <<httpVars, part>>

\* The main loop always runs on, and TCP delivers what was sent.
Server == \/ part = "http" /\ HttpServerStep /\ UNCHANGED <<vars, part>>
          \/ part = "websocket" /\ ServerStep /\ UNCHANGED <<httpVars, part>>
Delivery == part = "websocket" /\ Arrive /\ UNCHANGED <<httpVars, part>>

MCSpec == MCInit /\ [][Http \/ Websocket]_allVars /\ WF_allVars(Server) /\ WF_allVars(Delivery)

\* LucidacWebServer::loop() always comes back, although peers stall, leave or are closed, and
\* then erases those that are gone.
LoopGoesOn == LoopReturns /\ DisconnectedIsErased /\ StoppedIsErased
=============================================================================
