----------------------------- MODULE Gatekeeper -----------------------------
(***************************************************************************)
(* Authentication and the device lock (net/auth.h, net/auth.cpp).           *)
(*                                                                         *)
(* The Gatekeeper is consulted by the message handlers on behalf of a      *)
(* session (a connection or the serial console); a session is known to it  *)
(* by its user name only.  Its operations are composed with the server     *)
(* loop in module JsonlServer.                                             *)
(***************************************************************************)
EXTENDS Integers

CONSTANTS
  Sessions,      \* who sends messages: the connections and the serial console
  Users,         \* user names
  Admin,         \* UserPasswordAuthentification::admin
  LockDuration,  \* DeviceLock::max_lock_duration, in ticks
  TimeWrap       \* millis() wraps around after that many ticks

\* The empty user name.
NoUser == "none"

ASSUME UsersAssumption == Admin \in Users /\ NoUser \notin Users
ASSUME TimeAssumption == LockDuration \in Nat \ {0} /\ TimeWrap \in Nat /\ LockDuration < TimeWrap

VARIABLES
  enable_auth, enable_users,
  db,            \* users that have a password
  holder,        \* DeviceLock::holder, NoUser when there is none
  locked_for,    \* millis() - locked_at.last_time
  grants         \* history: ticks since lock_acquire succeeded for a session,
                 \* LockDuration if it did not, or if the lock has expired or been released

gateSettings == <<enable_auth, enable_users, db>>
lockVars == <<holder, locked_for, grants>>

NoGrant == [s \in Sessions |-> LockDuration]

GateInit ==
  /\ holder = NoUser /\ locked_for = 0 /\ grants = NoGrant

-----------------------------------------------------------------------------
(* UserPasswordAuthentification and AuthentificationContext *)

\* UserPasswordAuthentification::can_do
IsCleared(user, task) ==
  CASE task = "RequiresAdmin" -> user = Admin
    [] task = "RequiresLogin" -> user # NoUser
    [] OTHER -> TRUE

can_do(user, task) == ~enable_auth \/ ~enable_users \/ IsCleared(user, task)

NeverBetter(user, other) == FALSE
hasBetterClearenceThen(user, other) ==
  \E task \in {"RequiresAdmin", "RequiresLogin"} : can_do(user, task) /\ ~IsCleared(other, task)

is_valid(user, password_ok) == user \in db /\ password_ok

\* Gatekeeper::login() succeeds
LoginSucceeds(user, new_user, password_ok) ==
  /\ enable_auth \/ enable_users
  /\ ~hasBetterClearenceThen(user, new_user)
  /\ is_valid(new_user, password_ok)

\* AuthentificationContext::user()
UserName(user) == IF user = NoUser THEN "[nobody]" ELSE user

-----------------------------------------------------------------------------
(* DeviceLock *)

\* DeviceLock::is_locked(), which clears an expired lock first.
is_locked == holder # NoUser /\ locked_for < LockDuration

\* DeviceLock::enable_lock() restarts the clock.
KeepsClock == locked_for
RestartedClock == 0

lock_acquire(session, user) ==
  /\ UNCHANGED gateSettings
  /\ IF is_locked
       THEN UNCHANGED lockVars
       ELSE /\ holder' = UserName(user) /\ locked_for' = RestartedClock
            /\ grants' = [grants EXCEPT ![session] = 0]

lock_release(user) ==
  /\ UNCHANGED <<gateSettings, locked_for>>
  /\ IF ~enable_users \/ UserName(user) = holder \/ can_do(user, "RequiresAdmin")
       THEN holder' = NoUser /\ grants' = NoGrant
       ELSE UNCHANGED <<holder, grants>>

\* Nothing looks at the lock while time passes, so its age wraps around with millis().
GateTick ==
  /\ locked_for' = (locked_for + 1) % TimeWrap
  /\ grants' = [s \in Sessions |-> IF grants[s] < LockDuration THEN grants[s] + 1 ELSE grants[s]]
  /\ UNCHANGED <<gateSettings, holder>>

-----------------------------------------------------------------------------
GateTypeOK ==
  /\ enable_auth \in BOOLEAN /\ enable_users \in BOOLEAN /\ db \subseteq Users
  /\ holder \in Users \cup {NoUser, "[nobody]"}
  /\ locked_for \in 0 .. TimeWrap - 1 /\ grants \in [Sessions -> 0 .. LockDuration]

\* DeviceLock: lock_acquire never succeeds for a session while another one still has
\* the lock, that is, for max_lock_duration after its own success unless somebody
\* released the lock in between.
LockIsExclusive ==
  \A s, t \in Sessions : s # t => grants[s] = LockDuration \/ grants[t] = LockDuration
=============================================================================
