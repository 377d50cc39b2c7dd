---------------------------- MODULE JsonlServer ----------------------------
(***************************************************************************)
(* The JSONL server over TCP, the serial console, and the handling of the  *)
(* messages that concern sessions: JsonlServer::loop, handleMessage, the   *)
(* login and lock handlers, net_set and net_reset, and loop() around them.  *)
(*                                                                         *)
(* The peers connect, send and disconnect at any time, in particular       *)
(* between two steps of the server loop.  A message is chosen when it is   *)
(* handled; a message that fails to parse, is unknown or concerns another  *)
(* part of the system is "other".                                          *)
(***************************************************************************)
EXTENDS Gatekeeper, SequencesExt

CONSTANTS
  Sockets,            \* TCP sockets
  Serial,             \* the serial console
  SettingsChoices,    \* the settings read at startup or sent with net_set
  max_connections,
  ConnectionTimeout   \* connection_timeout_ms, in ticks

Settings == [enable_auth : BOOLEAN, enable_users : BOOLEAN, db : SUBSET Users,
             enable_jsonl : BOOLEAN]

ASSUME SessionsAssumption == Sessions = Sockets \cup {Serial} /\ Serial \notin Sockets
ASSUME SettingsAssumption == SettingsChoices \subseteq Settings
ASSUME LimitsAssumption == max_connections \in Nat \ {0} /\ ConnectionTimeout \in Nat \ {0}

VARIABLES
  enable_jsonl,
  tcp,         \* state of a socket: "free" | "waiting" (for accept()) | "open" | "closed"
  available,   \* socket has unread input
  clients,     \* std::list<Client>, by socket
  user,        \* session -> user_context._user
  idle,        \* socket -> ticks since last_contact
  broadcast,   \* eth_targets of the broadcast
  pc,          \* where loop() is: "accept" | "clients" | "serial"
  cursor,      \* index of the client the server loop is at
  proved       \* history: users whose password was presented on this connection

netVars  == <<tcp, available>>
listVars == <<clients, idle, broadcast>>
sessVars == <<user, proved>>
gateVars == <<gateSettings, lockVars, enable_jsonl>>
vars == <<gateVars, netVars, listVars, sessVars, pc, cursor>>

Init ==
  /\ \E choice \in SettingsChoices :
       /\ enable_auth = choice.enable_auth /\ enable_users = choice.enable_users
       /\ db = choice.db
  /\ enable_jsonl = TRUE
  /\ GateInit
  /\ tcp = [s \in Sockets |-> "free"] /\ available = [s \in Sockets |-> FALSE]
  /\ clients = <<>> /\ broadcast = {}
  /\ user = [s \in Sessions |-> IF s = Serial THEN Admin ELSE NoUser]
  /\ proved = [s \in Sessions |-> IF s = Serial THEN {Admin} ELSE {}]
  /\ idle = [s \in Sockets |-> 0]
  /\ pc = "accept" /\ cursor = 1

-----------------------------------------------------------------------------
(* The peers and the clock *)

Connect(s) ==
  /\ tcp[s] = "free"
  /\ tcp' = [tcp EXCEPT ![s] = "waiting"]
  /\ proved' = [proved EXCEPT ![s] = {}]
  /\ UNCHANGED <<gateVars, available, listVars, user, pc, cursor>>

Send(s) ==
  /\ tcp[s] \in {"waiting", "open"} /\ ~available[s]
  /\ available' = [available EXCEPT ![s] = TRUE]
  /\ UNCHANGED <<gateVars, tcp, listVars, sessVars, pc, cursor>>

\* What has been sent before can still be read.
Disconnect(s) ==
  /\ tcp[s] = "open"
  /\ tcp' = [tcp EXCEPT ![s] = "closed"]
  /\ UNCHANGED <<gateVars, available, listVars, sessVars, pc, cursor>>

\* loop() runs far more often than millis() wraps around, so the age of a connection
\* only has to be counted up to its timeout.
Tick ==
  /\ idle' = [s \in Sockets |-> IF idle[s] < ConnectionTimeout THEN idle[s] + 1 ELSE idle[s]]
  /\ GateTick
  /\ UNCHANGED <<enable_jsonl, netVars, clients, broadcast, sessVars, pc, cursor>>

-----------------------------------------------------------------------------
(* handleMessage() *)

\* The clearance the registry requires.
requiredClearance(type) ==
  CASE type \in {"lock_acquire", "lock_release"} -> "RequiresLogin"
    [] type \in {"net_set", "net_reset"} -> "RequiresAdmin"
    [] OTHER -> "RequiresNothing"

LoginHandler(session) ==
  /\ \E new_user \in Users, password_ok \in BOOLEAN :
       /\ user' = IF LoginSucceeds(user[session], new_user, password_ok)
                    THEN [user EXCEPT ![session] = new_user] ELSE user
       /\ proved' = IF new_user \in db /\ password_ok
                      THEN [proved EXCEPT ![session] = @ \cup {new_user}] ELSE proved
  /\ UNCHANGED gateVars

LockHandlers(session) ==
  /\ can_do(user[session], requiredClearance("lock_acquire"))
  /\ lock_acquire(session, user[session]) \/ lock_release(user[session])
  /\ UNCHANGED <<enable_jsonl, sessVars>>

\* net_set takes over the keys the message contains, net_reset resets StartupConfig only.
SetNetworkSettings(session) ==
  /\ can_do(user[session], requiredClearance("net_set"))
  /\ \E choice \in SettingsChoices :
       /\ enable_auth' = choice.enable_auth /\ enable_users' = choice.enable_users
       /\ db' = choice.db /\ enable_jsonl' = choice.enable_jsonl
  /\ UNCHANGED <<lockVars, sessVars>>

ResetNetworkSettings(session) ==
  /\ can_do(user[session], requiredClearance("net_reset"))
  /\ enable_jsonl' = TRUE
  /\ UNCHANGED <<gateSettings, lockVars, sessVars>>

handleMessage(session) ==
  \/ LoginHandler(session) \/ LockHandlers(session)
  \/ SetNetworkSettings(session) \/ ResetNetworkSettings(session)
  \/ UNCHANGED <<gateVars, sessVars>>

-----------------------------------------------------------------------------
(* loop() *)

\* Where a new client is put into the list.
AtFront(s) == <<s>> \o clients
AtBack(s) == Append(clients, s)

\* The user_context of a new Client.
UserOfThatSocket(s) == user[s]
UserOfNewClient(s) == NoUser

NeverFull == FALSE
Full == Len(clients) = max_connections

AcceptClient(s) ==
  /\ pc = "accept" /\ enable_jsonl /\ tcp[s] = "waiting" /\ ~Full
  /\ tcp' = [tcp EXCEPT ![s] = "open"]
  /\ clients' = AtBack(s) /\ broadcast' = broadcast \cup {s}
  /\ user' = [user EXCEPT ![s] = UserOfNewClient(s)] /\ idle' = [idle EXCEPT ![s] = 0]
  /\ pc' = "clients" /\ cursor' = 1
  /\ UNCHANGED <<gateVars, available, proved>>

RefuseClient(s) ==
  /\ pc = "accept" /\ enable_jsonl /\ tcp[s] = "waiting" /\ Full
  /\ tcp' = [tcp EXCEPT ![s] = "free"] /\ available' = [available EXCEPT ![s] = FALSE]
  /\ pc' = "clients" /\ cursor' = 1
  /\ UNCHANGED <<gateVars, listVars, sessVars>>

AcceptNobody ==
  /\ pc = "accept" /\ (enable_jsonl => \A s \in Sockets : tcp[s] # "waiting")
  /\ pc' = IF enable_jsonl THEN "clients" ELSE "serial"
  /\ cursor' = 1
  /\ UNCHANGED <<gateVars, netVars, listVars, sessVars>>

\* EthernetClient::connected(): open, or closed with input left to read.
connected(s) == tcp[s] = "open" \/ available[s]

\* The client the loop is at.
AtClient(s) == pc = "clients" /\ cursor <= Len(clients) /\ clients[cursor] = s

NextClient == pc' = "clients" /\ cursor' = cursor + 1

HandleInput(s) ==
  /\ AtClient(s) /\ available[s]
  /\ handleMessage(s)
  /\ available' = [available EXCEPT ![s] = FALSE] /\ idle' = [idle EXCEPT ![s] = 0]
  /\ NextClient
  /\ UNCHANGED <<tcp, clients, broadcast>>

\* last_contact.expired(connection_timeout_ms)
NeverTimedOut(s) == FALSE
TimedOut(s) == idle[s] >= ConnectionTimeout

CloseIdle(s) ==
  /\ AtClient(s) /\ connected(s) /\ ~available[s] /\ TimedOut(s)
  /\ tcp' = [tcp EXCEPT ![s] = "closed"]
  /\ NextClient
  /\ UNCHANGED <<gateVars, available, listVars, sessVars>>

SkipQuiet(s) ==
  /\ AtClient(s) /\ connected(s) /\ ~available[s] /\ ~TimedOut(s)
  /\ NextClient
  /\ UNCHANGED <<gateVars, netVars, listVars, sessVars>>

\* broadcast.remove()
LeftInBroadcast(s) == broadcast
RemovedFromBroadcast(s) == broadcast \ {s}

\* A client that is gone is erased, and the server loop is left.
EraseClient(s) ==
  /\ AtClient(s) /\ ~connected(s)
  /\ tcp' = [tcp EXCEPT ![s] = "free"]
  /\ broadcast' = RemovedFromBroadcast(s)
  /\ clients' = RemoveAt(clients, cursor)
  /\ pc' = "serial"
  /\ UNCHANGED <<gateVars, available, idle, sessVars, cursor>>

EndOfClients ==
  /\ pc = "clients" /\ cursor > Len(clients)
  /\ pc' = "serial"
  /\ UNCHANGED <<gateVars, netVars, listVars, sessVars, cursor>>

\* process_serial_input(admin_context), with or without a line to handle.
SerialInput ==
  /\ pc = "serial"
  /\ handleMessage(Serial)
  /\ pc' = "accept"
  /\ UNCHANGED <<netVars, listVars, cursor>>

Loop ==
  \/ \E s \in Sockets :
       \/ AcceptClient(s) \/ RefuseClient(s) \/ HandleInput(s)
       \/ CloseIdle(s) \/ SkipQuiet(s) \/ EraseClient(s)
  \/ AcceptNobody \/ EndOfClients \/ SerialInput

Peers == \E s \in Sockets : Connect(s) \/ Send(s) \/ Disconnect(s)

Next == Peers \/ Tick \/ Loop

Spec == Init /\ [][Next]_vars

\* loop() is called forever and no step of it blocks; time passes.
FairSpec == Spec /\ WF_vars(Loop) /\ WF_vars(Tick)

-----------------------------------------------------------------------------
(* Properties *)

\* Type invariant of the server, its sessions and the Gatekeeper.
TypeOK ==
  /\ GateTypeOK /\ enable_jsonl \in BOOLEAN
  /\ tcp \in [Sockets -> {"free", "waiting", "open", "closed"}]
  /\ available \in [Sockets -> BOOLEAN]
  /\ clients \in Seq(Sockets) /\ Len(clients) <= max_connections
  /\ broadcast \subseteq Sockets
  /\ user \in [Sessions -> Users \cup {NoUser}] /\ proved \in [Sessions -> SUBSET Users]
  /\ idle \in [Sockets -> 0 .. ConnectionTimeout]
  /\ pc \in {"accept", "clients", "serial"} /\ cursor \in Nat \ {0}

\* JsonlServer::loop: the broadcast, which run data and logs are written to through
\* pointers into the list, always has exactly the clients in the list, however
\* connections come, time out and go.
BroadcastIsClients == broadcast = ToSet(clients)

\* A session acts as a user only if that user's password was presented on this very
\* connection: nothing is left of the connection that used the socket before.
SessionIsProved ==
  \A s \in Sessions :
    ((s = Serial \/ tcp[s] \in {"open", "closed"}) /\ user[s] # NoUser) => user[s] \in proved[s]

\* Gatekeeper::login: the serial console can never log itself out of its admin rights,
\* whatever settings and users are configured meanwhile.
SerialStaysAdmin == user[Serial] = Admin

\* JsonlServer::loop leaves the list of clients at the first one that is gone: the others
\* are served all the same, however fast connections come and go.
InputIsHandled ==
  \A s \in Sockets :
    (available[s] /\ s \in ToSet(clients)) ~> (~available[s] \/ ~enable_jsonl)

\* Client::last_contact: a connection on which nothing arrives any more is closed and
\* erased, so that its place is free again.
IdleIsErased ==
  \A s \in Sockets :
    <>[](enable_jsonl /\ ~available[s]) =>
       [](s \in ToSet(clients) => <>(tcp[s] = "free"))
=============================================================================
