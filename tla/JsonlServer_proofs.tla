------------------------- MODULE JsonlServer_proofs -------------------------
(* Sessions, the device lock and the list of clients, for every number of    *)
(* sockets, users and settings.                                              *)
EXTENDS JsonlServer, SequenceTheorems, TLAPS

USE UsersAssumption, TimeAssumption DEF NoUser

-----------------------------------------------------------------------------
(* The device lock *)

\* A grant that has not expired is the one the lock stands for, and there is one only.
LockInv ==
  /\ locked_for \in Nat /\ grants \in [Sessions -> 0 .. LockDuration]
  /\ \A s \in Sessions : grants[s] < LockDuration => holder # NoUser /\ locked_for = grants[s]
  /\ LockIsExclusive

\* Initially nobody has the lock.
LEMMA LockInvInit == Init => LockInv
  BY DEF Init, GateInit, NoGrant, LockInv, LockIsExclusive

\* lock_acquire keeps the grants exclusive.
LEMMA AcquireStep ==
  ASSUME LockInv, NEW s \in Sessions, NEW u, lock_acquire(s, u)
  PROVE  LockInv'
  <1>1. CASE is_locked
    BY <1>1 DEF LockInv, LockIsExclusive, lock_acquire, lockVars
  <1>2. CASE ~is_locked
    <2>1. \A t \in Sessions : grants[t] = LockDuration
      BY <1>2 DEF LockInv, is_locked
    <2>2. holder' # NoUser
      BY <1>2 DEF lock_acquire, UserName
    <2>3. locked_for' = 0 /\ grants' = [grants EXCEPT ![s] = 0]
      BY <1>2 DEF lock_acquire, RestartedClock
    <2> QED
      BY <2>1, <2>2, <2>3 DEF LockInv, LockIsExclusive
  <1> QED
    BY <1>1, <1>2

\* lock_release takes every grant back.
LEMMA ReleaseStep ==
  ASSUME LockInv, NEW u, lock_release(u)
  PROVE  LockInv'
  BY DEF LockInv, LockIsExclusive, lock_release, NoGrant

\* A grant ages together with the lock.
LEMMA TickStep ==
  ASSUME LockInv, GateTick
  PROVE  LockInv'
  <1>1. locked_for' \in Nat /\ (locked_for < LockDuration => locked_for' = locked_for + 1)
    BY DEF LockInv, GateTick
  <1> QED
    BY <1>1 DEF LockInv, LockIsExclusive, GateTick

\* Steps that do not touch the lock.
LEMMA LockUntouched == ASSUME LockInv, UNCHANGED lockVars PROVE LockInv'
  BY DEF LockInv, LockIsExclusive, lockVars

\* Every message handler keeps the lock's invariant.
LEMMA HandlerLockStep ==
  ASSUME LockInv, NEW s \in Sessions, handleMessage(s)
  PROVE  LockInv'
  <1>1. CASE LockHandlers(s)
    BY <1>1, AcquireStep, ReleaseStep DEF LockHandlers
  <1>2. CASE ~LockHandlers(s)
    BY <1>2, LockUntouched DEF handleMessage, LoginHandler, SetNetworkSettings,
       ResetNetworkSettings, gateVars
  <1> QED
    BY <1>1, <1>2

\* Every step keeps the lock's invariant.
LEMMA LockInvStep == LockInv /\ [Next]_vars => LockInv'
  <1> SUFFICES ASSUME LockInv, [Next]_vars PROVE LockInv'
    OBVIOUS
  <1>1. CASE Tick
    BY <1>1, TickStep DEF Tick
  <1>2. CASE \E s \in Sockets : HandleInput(s)
    BY <1>2, HandlerLockStep, SessionsAssumption DEF HandleInput
  <1>3. CASE SerialInput
    BY <1>3, HandlerLockStep, SessionsAssumption DEF SerialInput
  <1>4. CASE Peers
    BY <1>4, LockUntouched DEF Peers, Connect, Send, Disconnect, gateVars
  <1>5. CASE \E s \in Sockets : \/ AcceptClient(s) \/ RefuseClient(s) \/ CloseIdle(s)
                                \/ SkipQuiet(s) \/ EraseClient(s)
    BY <1>5, LockUntouched DEF AcceptClient, RefuseClient, CloseIdle, SkipQuiet, EraseClient,
       gateVars
  <1>6. CASE AcceptNobody \/ EndOfClients \/ UNCHANGED vars
    BY <1>6, LockUntouched DEF AcceptNobody, EndOfClients, vars, gateVars
  <1> QED
    BY <1>1, <1>2, <1>3, <1>4, <1>5, <1>6 DEF Next, Loop

\* For every set of sessions: lock_acquire succeeds for one session at a time, although a
\* session is known to the lock by its user name only and the clock may wrap around.
THEOREM OneLockAtATime == Spec => []LockIsExclusive
  <1>1. LockInv => LockIsExclusive
    BY DEF LockInv
  <1> QED
    BY <1>1, LockInvInit, LockInvStep, PTL DEF Spec

-----------------------------------------------------------------------------
(* Sessions *)

\* Who is who: what the two properties of sessions rest on.
SessionInv ==
  /\ user \in [Sessions -> Users \cup {NoUser}] /\ proved \in [Sessions -> SUBSET Users]
  /\ SerialStaysAdmin
  /\ SessionIsProved

\* Initially nobody but the console is logged in.
LEMMA SessionInvInit == Init => SessionInv
  BY SessionsAssumption DEF Init, SessionInv, SerialStaysAdmin, SessionIsProved

\* A session with admin rights cannot log in as anybody else.
LEMMA AdminKeepsRights ==
  ASSUME NEW new_user, NEW password_ok, LoginSucceeds(Admin, new_user, password_ok)
  PROVE  new_user = Admin
  BY DEF LoginSucceeds, hasBetterClearenceThen, can_do, IsCleared

\* A login adds the user it switches to, and no other session is concerned.
LEMMA LoginStep ==
  ASSUME SessionInv, NEW s \in Sessions, LoginHandler(s), UNCHANGED tcp
  PROVE  SessionInv'
  <1>1. PICK new_user \in Users, password_ok \in BOOLEAN :
          /\ user' = IF LoginSucceeds(user[s], new_user, password_ok)
                       THEN [user EXCEPT ![s] = new_user] ELSE user
          /\ proved' = IF new_user \in db /\ password_ok
                         THEN [proved EXCEPT ![s] = @ \cup {new_user}] ELSE proved
    BY DEF LoginHandler
  <1>2. CASE LoginSucceeds(user[s], new_user, password_ok)
    <2>1. new_user \in db /\ password_ok
      BY <1>2 DEF LoginSucceeds, is_valid
    <2>2. user' = [user EXCEPT ![s] = new_user] /\ proved' = [proved EXCEPT ![s] = @ \cup {new_user}]
      BY <1>1, <1>2, <2>1
    <2>3. s = Serial => new_user = Admin
      BY <1>2, AdminKeepsRights DEF SessionInv, SerialStaysAdmin
    <2>4. /\ user' \in [Sessions -> Users \cup {NoUser}] /\ proved' \in [Sessions -> SUBSET Users]
          /\ SerialStaysAdmin'
      BY <2>2, <2>3, SessionsAssumption DEF SessionInv, SerialStaysAdmin
    <2>5. SessionIsProved'
      BY <2>2 DEF SessionInv, SessionIsProved
    <2> QED
      BY <2>4, <2>5 DEF SessionInv
  <1>3. CASE ~LoginSucceeds(user[s], new_user, password_ok)
    <2>1. user' = user /\ proved' \in [Sessions -> SUBSET Users]
      BY <1>1, <1>3 DEF SessionInv
    <2>2. \A t \in Sessions : proved[t] \subseteq proved'[t]
      BY <1>1 DEF SessionInv
    <2> QED
      BY <2>1, <2>2 DEF SessionInv, SessionIsProved, SerialStaysAdmin
  <1> QED
    BY <1>2, <1>3

\* Steps that concern no session and open no connection.
LEMMA SessionsUntouched ==
  ASSUME SessionInv, UNCHANGED sessVars,
         \A s \in Sockets : tcp'[s] \in {"open", "closed"} => tcp[s] \in {"open", "closed"}
  PROVE  SessionInv'
  BY SessionsAssumption DEF SessionInv, SessionIsProved, SerialStaysAdmin, sessVars

\* Every message handler keeps the sessions' invariant.
LEMMA HandlerSessionStep ==
  ASSUME SessionInv, NEW s \in Sessions, handleMessage(s), UNCHANGED tcp
  PROVE  SessionInv'
  <1>1. CASE LoginHandler(s)
    BY <1>1, LoginStep
  <1>2. CASE ~LoginHandler(s)
    BY <1>2, SessionsUntouched DEF handleMessage, LockHandlers, SetNetworkSettings,
       ResetNetworkSettings, sessVars
  <1> QED
    BY <1>1, <1>2

\* What a socket can be.
TcpType == tcp \in [Sockets -> {"free", "waiting", "open", "closed"}]

\* Every step keeps the sessions' invariant.
LEMMA SessionInvStep == TcpType /\ SessionInv /\ [Next]_vars => TcpType' /\ SessionInv'
  <1> SUFFICES ASSUME TcpType, SessionInv, [Next]_vars PROVE TcpType' /\ SessionInv'
    OBVIOUS
  <1>1. ASSUME NEW s \in Sockets, Connect(s) PROVE TcpType' /\ SessionInv'
    <2>1. tcp' = [tcp EXCEPT ![s] = "waiting"] /\ proved' = [proved EXCEPT ![s] = {}] /\ user' = user
      BY <1>1 DEF Connect
    <2> QED
      BY <2>1, SessionsAssumption DEF TcpType, SessionInv, SessionIsProved, SerialStaysAdmin
  <1>2. ASSUME NEW s \in Sockets, AcceptClient(s) PROVE TcpType' /\ SessionInv'
    <2>1. tcp' = [tcp EXCEPT ![s] = "open"] /\ user' = [user EXCEPT ![s] = NoUser] /\ proved' = proved
      BY <1>2 DEF AcceptClient, UserOfNewClient
    <2> QED
      BY <2>1, SessionsAssumption DEF TcpType, SessionInv, SessionIsProved, SerialStaysAdmin
  <1>3. ASSUME NEW s \in Sockets, HandleInput(s) PROVE TcpType' /\ SessionInv'
    BY <1>3, HandlerSessionStep, SessionsAssumption DEF HandleInput, TcpType
  <1>4. CASE SerialInput
    BY <1>4, HandlerSessionStep, SessionsAssumption DEF SerialInput, TcpType, netVars
  <1>5. ASSUME NEW s \in Sockets,
               Disconnect(s) \/ CloseIdle(s) \/ RefuseClient(s) \/ EraseClient(s)
        PROVE  TcpType' /\ SessionInv'
    <2>1. UNCHANGED sessVars
      BY <1>5 DEF Disconnect, CloseIdle, RefuseClient, EraseClient
    <2>2. \E t \in {"free", "closed"} :
            tcp' = [tcp EXCEPT ![s] = t] /\ (t = "free" \/ tcp[s] \in {"open", "closed"})
      BY <1>5 DEF Disconnect, CloseIdle, RefuseClient, EraseClient, connected, TcpType
    <2> QED
      BY <2>1, <2>2, SessionsUntouched DEF TcpType
  <1>6. CASE \/ \E s \in Sockets : Send(s) \/ SkipQuiet(s)
             \/ Tick \/ AcceptNobody \/ EndOfClients \/ UNCHANGED vars
    <2>1. UNCHANGED sessVars /\ UNCHANGED tcp
      BY <1>6 DEF Send, SkipQuiet, Tick, AcceptNobody, EndOfClients, vars, netVars
    <2> QED
      BY <2>1, SessionsUntouched DEF TcpType
  <1> QED
    BY <1>1, <1>2, <1>3, <1>4, <1>5, <1>6 DEF Next, Loop, Peers

\* The type of tcp holds initially.
LEMMA TcpTypeInit == Init => TcpType
  BY DEF Init, TcpType

\* For every set of users and settings: the serial console keeps its admin rights.
THEOREM ConsoleStaysAdmin == Spec => []SerialStaysAdmin
  <1>1. SessionInv => SerialStaysAdmin
    BY DEF SessionInv
  <1> QED
    BY <1>1, TcpTypeInit, SessionInvInit, SessionInvStep, PTL DEF Spec

\* For every set of sockets, users and settings: no session inherits the user of an
\* earlier connection, or gets one without its password.
THEOREM SessionsAreProved == Spec => []SessionIsProved
  <1>1. SessionInv => SessionIsProved
    BY DEF SessionInv
  <1> QED
    BY <1>1, TcpTypeInit, SessionInvInit, SessionInvStep, PTL DEF Spec

-----------------------------------------------------------------------------
(* The list of clients *)

\* A socket is in the list once, as long as it is in use; the cursor is a position.
ListInv ==
  /\ clients \in Seq(Sockets) /\ cursor \in Nat \ {0}
  /\ \A i, j \in 1 .. Len(clients) : clients[i] = clients[j] => i = j
  /\ \A i \in 1 .. Len(clients) : tcp[clients[i]] \in {"open", "closed"}
  /\ BroadcastIsClients

\* list::erase: the other elements keep their order, and theirs is the set that remains.
LEMMA EraseElement ==
  ASSUME NEW q \in Seq(Sockets), NEW k \in 1 .. Len(q),
         \A i, j \in 1 .. Len(q) : q[i] = q[j] => i = j
  PROVE  /\ RemoveAt(q, k) \in Seq(Sockets)
         /\ \A i, j \in 1 .. Len(RemoveAt(q, k)) : RemoveAt(q, k)[i] = RemoveAt(q, k)[j] => i = j
         /\ ToSet(RemoveAt(q, k)) = ToSet(q) \ {q[k]}
  <1> DEFINE a == SubSeq(q, 1, k - 1)
             b == SubSeq(q, k + 1, Len(q))
             r == RemoveAt(q, k)
  <1>1. /\ a \in Seq(Sockets) /\ Len(a) = k - 1
        /\ \A i \in 1 .. k - 1 : a[i] = q[i]
    BY SubSeqProperties
  <1>2. /\ b \in Seq(Sockets) /\ Len(b) = Len(q) - k
        /\ \A i \in 1 .. Len(q) - k : b[i] = q[k + i]
    BY SubSeqProperties
  <1>3. r = a \o b
    BY DEF RemoveAt
  <1> HIDE DEF a, b, r
  <1>4. /\ r \in Seq(Sockets) /\ Len(r) = Len(q) - 1
        /\ \A i \in 1 .. Len(r) : r[i] = IF i <= Len(a) THEN a[i] ELSE b[i - Len(a)]
    BY <1>1, <1>2, <1>3, ConcatProperties
  <1>5. \A i \in 1 .. Len(r) : r[i] = IF i < k THEN q[i] ELSE q[i + 1]
    BY <1>1, <1>2, <1>4
  <1> DEFINE at(i) == IF i < k THEN i ELSE i + 1
  <1>a. ASSUME NEW i \in 1 .. Len(r)
        PROVE  at(i) \in 1 .. Len(q) /\ at(i) # k /\ r[i] = q[at(i)]
    BY <1>4, <1>5
  <1>b. ASSUME NEW i \in 1 .. Len(r), NEW j \in 1 .. Len(r), at(i) = at(j) PROVE i = j
    BY <1>b, <1>4
  <1> HIDE DEF at
  <1>6. ASSUME NEW i \in 1 .. Len(r), NEW j \in 1 .. Len(r), r[i] = r[j] PROVE i = j
    <2>1. q[at(i)] = q[at(j)]
      BY <1>a, <1>6
    <2>2. at(i) = at(j)
      BY <2>1, <1>a
    <2> QED
      BY <2>2, <1>b
  <1>7. ASSUME NEW i \in 1 .. Len(r) PROVE r[i] \in ToSet(q) /\ r[i] # q[k]
    <2>1. at(i) \in 1 .. Len(q) /\ at(i) # k /\ r[i] = q[at(i)]
      BY <1>a
    <2>2. r[i] # q[k]
      BY <2>1
    <2>3. r[i] \in ToSet(q)
      BY <2>1 DEF ToSet
    <2> QED
      BY <2>2, <2>3
  <1>8. ASSUME NEW i \in 1 .. Len(q), i # k PROVE q[i] \in ToSet(r)
    <2>1. CASE i < k
      BY <2>1, <1>4, <1>5 DEF ToSet
    <2>2. CASE i > k
      <3>1. i - 1 \in 1 .. Len(r) /\ r[i - 1] = q[i]
        BY <2>2, <1>4, <1>5
      <3> QED
        BY <3>1, <1>4 DEF ToSet
    <2> QED
      BY <1>8, <2>1, <2>2
  <1>9. ToSet(r) = ToSet(q) \ {q[k]}
    BY <1>4, <1>7, <1>8 DEF ToSet
  <1> QED
    BY <1>4, <1>6, <1>9 DEF r

\* Steps that leave the list alone and close no more than they open.
LEMMA ListUntouched ==
  ASSUME ListInv, UNCHANGED <<clients, broadcast>>, cursor' \in Nat \ {0},
         \A s \in Sockets : tcp[s] \in {"open", "closed"} => tcp'[s] \in {"open", "closed"}
  PROVE  ListInv'
  BY DEF ListInv, BroadcastIsClients

\* Initially the list is empty.
LEMMA ListInvInit == Init => ListInv
  BY DEF Init, ListInv, BroadcastIsClients, ToSet

\* Every step keeps the invariant of the list.
LEMMA ListInvStep == TcpType /\ ListInv /\ [Next]_vars => ListInv'
  <1> SUFFICES ASSUME TcpType, ListInv, [Next]_vars PROVE ListInv'
    OBVIOUS
  <1>1. ASSUME NEW s \in Sockets, AcceptClient(s) PROVE ListInv'
    <2>1. /\ tcp' = [tcp EXCEPT ![s] = "open"] /\ tcp[s] = "waiting"
          /\ clients' = Append(clients, s) /\ broadcast' = broadcast \cup {s} /\ cursor' = 1
      BY <1>1 DEF AcceptClient, AtBack
    <2>2. /\ clients' \in Seq(Sockets) /\ Len(clients') = Len(clients) + 1
          /\ clients'[Len(clients) + 1] = s
          /\ \A i \in 1 .. Len(clients) : clients'[i] = clients[i] /\ clients[i] # s
      BY <2>1 DEF ListInv
    <2>3. ToSet(clients') = ToSet(clients) \cup {s}
      BY <2>2 DEF ToSet, ListInv
    <2>4. BroadcastIsClients'
      BY <2>1, <2>3 DEF ListInv, BroadcastIsClients
    <2>5. \A i \in 1 .. Len(clients') : tcp'[clients'[i]] \in {"open", "closed"}
      BY <2>1, <2>2 DEF ListInv, TcpType
    <2>6. \A i, j \in 1 .. Len(clients') : clients'[i] = clients'[j] => i = j
      BY <2>2 DEF ListInv
    <2> QED
      BY <2>1, <2>2, <2>4, <2>5, <2>6 DEF ListInv
  <1>2. ASSUME NEW s \in Sockets, EraseClient(s) PROVE ListInv'
    <2>1. /\ tcp' = [tcp EXCEPT ![s] = "free"] /\ broadcast' = broadcast \ {s}
          /\ clients' = RemoveAt(clients, cursor) /\ cursor' = cursor
      BY <1>2 DEF EraseClient, RemovedFromBroadcast
    <2>2. cursor \in 1 .. Len(clients) /\ clients[cursor] = s
      BY <1>2 DEF EraseClient, AtClient, ListInv
    <2>3. /\ clients' \in Seq(Sockets) /\ ToSet(clients') = ToSet(clients) \ {s}
          /\ \A i, j \in 1 .. Len(clients') : clients'[i] = clients'[j] => i = j
      BY <2>1, <2>2, EraseElement DEF ListInv
    <2>4. ASSUME NEW i \in 1 .. Len(clients') PROVE clients'[i] \in ToSet(clients) \ {s}
      <3>1. clients'[i] \in ToSet(clients')
        BY <2>3 DEF ToSet
      <3> QED
        BY <3>1, <2>3
    <2>a. ASSUME NEW t \in ToSet(clients) PROVE t \in Sockets /\ tcp[t] \in {"open", "closed"}
      BY DEF ToSet, ListInv
    <2>5. \A i \in 1 .. Len(clients') : tcp'[clients'[i]] \in {"open", "closed"}
      BY <2>1, <2>4, <2>a DEF TcpType
    <2>6. BroadcastIsClients'
      BY <2>1, <2>3 DEF ListInv, BroadcastIsClients
    <2> QED
      BY <2>1, <2>3, <2>5, <2>6 DEF ListInv
  <1>3. ASSUME NEW s \in Sockets, Connect(s) \/ RefuseClient(s) PROVE ListInv'
    <2>1. /\ UNCHANGED <<clients, broadcast>> /\ cursor' \in Nat \ {0}
          /\ \E t \in {"free", "waiting"} : tcp' = [tcp EXCEPT ![s] = t]
          /\ tcp[s] \in {"free", "waiting"}
      BY <1>3 DEF Connect, RefuseClient, listVars, ListInv
    <2> QED
      BY <2>1, ListUntouched DEF TcpType
  <1>4. ASSUME NEW s \in Sockets, Disconnect(s) \/ CloseIdle(s) PROVE ListInv'
    <2>1. /\ UNCHANGED <<clients, broadcast>> /\ cursor' \in Nat \ {0}
          /\ tcp' = [tcp EXCEPT ![s] = "closed"]
      BY <1>4 DEF Disconnect, CloseIdle, NextClient, listVars, ListInv
    <2> QED
      BY <2>1, ListUntouched DEF TcpType
  <1>5. CASE \/ \E s \in Sockets : Send(s) \/ HandleInput(s) \/ SkipQuiet(s)
             \/ Tick \/ AcceptNobody \/ EndOfClients \/ SerialInput \/ UNCHANGED vars
    <2>1. UNCHANGED <<clients, broadcast>> /\ cursor' \in Nat \ {0} /\ UNCHANGED tcp
      BY <1>5 DEF Send, HandleInput, SkipQuiet, Tick, AcceptNobody, EndOfClients, SerialInput,
         NextClient, vars, netVars, listVars, ListInv
    <2> QED
      BY <2>1, ListUntouched
  <1> QED
    BY <1>1, <1>2, <1>3, <1>4, <1>5 DEF Next, Loop, Peers

\* For every number of sockets: the broadcast has exactly the clients in the list, so no
\* pointer in it is left of a client that has been erased.
THEOREM BroadcastHasClients == Spec => []BroadcastIsClients
  <1>1. ListInv => BroadcastIsClients
    BY DEF ListInv
  <1> QED
    BY <1>1, TcpTypeInit, SessionInvInit, SessionInvStep, ListInvInit, ListInvStep, PTL DEF Spec

-----------------------------------------------------------------------------
(* What the invariants above leave open of the types *)

GateTypes ==
  /\ enable_auth \in BOOLEAN /\ enable_users \in BOOLEAN /\ db \subseteq Users /\ enable_jsonl \in BOOLEAN
  /\ holder \in Users \cup {NoUser, "[nobody]"} /\ locked_for \in 0 .. TimeWrap - 1

LoopTypes ==
  /\ available \in [Sockets -> BOOLEAN] /\ idle \in [Sockets -> 0 .. ConnectionTimeout]
  /\ pc \in {"accept", "clients", "serial"} /\ Len(clients) <= max_connections

\* Every message handler keeps the types of the settings and of the lock.
LEMMA HandlerGateStep ==
  ASSUME GateTypes, SessionInv, NEW s \in Sessions, handleMessage(s)
  PROVE  GateTypes'
  <1>1. CASE LoginHandler(s) \/ UNCHANGED <<gateVars, sessVars>>
    BY <1>1 DEF LoginHandler, GateTypes, gateVars, gateSettings, lockVars
  <1>2. CASE LockHandlers(s)
    <2>1. UserName(user[s]) \in Users \cup {"[nobody]"}
      BY DEF UserName, SessionInv
    <2>2. CASE lock_acquire(s, user[s])
      BY <1>2, <2>1, <2>2 DEF LockHandlers, lock_acquire, RestartedClock, GateTypes, gateSettings, lockVars
    <2>3. CASE lock_release(user[s])
      BY <1>2, <2>3 DEF LockHandlers, lock_release, GateTypes, gateSettings, lockVars
    <2> QED
      BY <1>2, <2>2, <2>3 DEF LockHandlers
  <1>3. CASE SetNetworkSettings(s)
    BY <1>3, SettingsAssumption DEF SetNetworkSettings, Settings, GateTypes, lockVars
  <1>4. CASE ResetNetworkSettings(s)
    BY <1>4 DEF ResetNetworkSettings, GateTypes, gateSettings, lockVars
  <1> QED
    BY <1>1, <1>2, <1>3, <1>4 DEF handleMessage

\* Every step keeps the types of the settings and of the lock.
LEMMA GateTypesStep == GateTypes /\ SessionInv /\ [Next]_vars => GateTypes'
  <1> SUFFICES ASSUME GateTypes, SessionInv, [Next]_vars PROVE GateTypes'
    OBVIOUS
  <1>1. CASE Tick
    <2>1. locked_for \in 0 .. TimeWrap - 1 /\ locked_for' = (locked_for + 1) % TimeWrap
      BY <1>1 DEF Tick, GateTick, GateTypes
    <2>2. locked_for' \in 0 .. TimeWrap - 1
      BY <2>1
    <2> QED
      BY <1>1, <2>2 DEF Tick, GateTick, GateTypes, gateSettings
  <1>2. CASE SerialInput \/ \E s \in Sockets : HandleInput(s)
    BY <1>2, HandlerGateStep, SessionsAssumption DEF HandleInput, SerialInput
  <1>3. CASE UNCHANGED gateVars
    BY <1>3 DEF GateTypes, gateVars, gateSettings, lockVars
  <1>4. CASE Peers \/ AcceptNobody \/ EndOfClients \/ UNCHANGED vars
    BY <1>3, <1>4 DEF Peers, Connect, Send, Disconnect, AcceptNobody, EndOfClients, vars
  <1>5. CASE \E s \in Sockets : \/ AcceptClient(s) \/ RefuseClient(s) \/ CloseIdle(s)
                                \/ SkipQuiet(s) \/ EraseClient(s)
    BY <1>3, <1>5 DEF AcceptClient, RefuseClient, CloseIdle, SkipQuiet, EraseClient
  <1> QED
    BY <1>1, <1>2, <1>4, <1>5 DEF Next, Loop

\* list::erase takes one element away.
LEMMA EraseShortens ==
  ASSUME NEW q \in Seq(Sockets), NEW k \in 1 .. Len(q)
  PROVE  Len(RemoveAt(q, k)) <= Len(q)
  <1>1. /\ SubSeq(q, 1, k - 1) \in Seq(Sockets) /\ Len(SubSeq(q, 1, k - 1)) = k - 1
        /\ SubSeq(q, k + 1, Len(q)) \in Seq(Sockets) /\ Len(SubSeq(q, k + 1, Len(q))) = Len(q) - k
    BY SubSeqProperties
  <1>2. RemoveAt(q, k) = SubSeq(q, 1, k - 1) \o SubSeq(q, k + 1, Len(q))
    BY DEF RemoveAt
  <1>3. \A a, b \in Seq(Sockets) : Len(a \o b) = Len(a) + Len(b)
    BY ConcatProperties
  <1>4. Len(RemoveAt(q, k)) = k - 1 + (Len(q) - k)
    BY <1>1, <1>2, <1>3, Zenon
  <1> QED
    BY <1>4

\* The limit of connections is compared for equality, which is enough since only one
\* client at a time is accepted.
LEMMA LoopTypesStep == LoopTypes /\ ListInv /\ [Next]_vars => LoopTypes'
  <1> SUFFICES ASSUME LoopTypes, ListInv, [Next]_vars PROVE LoopTypes'
    OBVIOUS
  <1> USE LimitsAssumption
  <1>1. ASSUME NEW s \in Sockets, AcceptClient(s) PROVE LoopTypes'
    <2>1. clients' = Append(clients, s) /\ Len(clients) # max_connections
      BY <1>1 DEF AcceptClient, AtBack, Full
    <2>2. Len(clients') = Len(clients) + 1 /\ Len(clients) \in Nat
      BY <2>1 DEF ListInv
    <2>3. Len(clients') <= max_connections
      BY <2>1, <2>2 DEF LoopTypes
    <2> QED
      BY <1>1, <2>3 DEF AcceptClient, LoopTypes
  <1>2. ASSUME NEW s \in Sockets, EraseClient(s) PROVE LoopTypes'
    <2>1. cursor \in 1 .. Len(clients) /\ clients' = RemoveAt(clients, cursor)
      BY <1>2 DEF EraseClient, AtClient, ListInv
    <2>2. Len(clients') <= Len(clients) /\ clients' \in Seq(Sockets)
      BY <2>1, EraseShortens, EraseElement DEF ListInv
    <2>3. Len(clients') <= max_connections
      BY <2>2 DEF LoopTypes, ListInv
    <2> QED
      BY <1>2, <2>3 DEF EraseClient, LoopTypes
  <1>3. ASSUME NEW s \in Sockets, \/ Connect(s) \/ Send(s) \/ Disconnect(s) \/ RefuseClient(s)
                                  \/ HandleInput(s) \/ CloseIdle(s) \/ SkipQuiet(s)
        PROVE  LoopTypes'
    <2>1. /\ clients' = clients /\ pc' \in {pc, "clients"}
          /\ available' = available \/ \E b \in BOOLEAN : available' = [available EXCEPT ![s] = b]
          /\ idle' = idle \/ idle' = [idle EXCEPT ![s] = 0]
      BY <1>3 DEF Connect, Send, Disconnect, RefuseClient, HandleInput, CloseIdle, SkipQuiet, NextClient,
                  netVars, listVars
    <2> QED
      BY <2>1 DEF LoopTypes
  <1>4. CASE Tick
    BY <1>4 DEF Tick, netVars, LoopTypes
  <1>5. CASE AcceptNobody \/ EndOfClients \/ SerialInput \/ UNCHANGED vars
    BY <1>5 DEF AcceptNobody, EndOfClients, SerialInput, vars, netVars, listVars, LoopTypes
  <1> QED
    BY <1>1, <1>2, <1>3, <1>4, <1>5 DEF Next, Loop, Peers

\* For every number of sockets, users and settings: the server, its sessions and the
\* Gatekeeper keep their types, and there are never more clients than max_connections.
THEOREM TypeCorrect == Spec => []TypeOK
  <1> DEFINE Inv == TcpType /\ SessionInv /\ LockInv /\ ListInv /\ GateTypes /\ LoopTypes
  <1>1. Init => Inv
    <2>1. Init => GateTypes
      BY SettingsAssumption DEF Init, GateInit, Settings, GateTypes
    <2>2. Init => LoopTypes
      BY LimitsAssumption DEF Init, LoopTypes
    <2> QED
      BY <2>1, <2>2, TcpTypeInit, SessionInvInit, LockInvInit, ListInvInit
  <1>2. Inv /\ [Next]_vars => Inv'
    BY SessionInvStep, LockInvStep, ListInvStep, GateTypesStep, LoopTypesStep
  <1>3. Inv => TypeOK
    <2>1. ListInv => broadcast \subseteq Sockets
      BY DEF ListInv, BroadcastIsClients, ToSet
    <2> QED
      BY <2>1 DEF TcpType, SessionInv, LockInv, ListInv, GateTypes, LoopTypes, GateTypeOK, TypeOK
  <1> QED
    BY <1>1, <1>2, <1>3, PTL DEF Spec
=============================================================================
