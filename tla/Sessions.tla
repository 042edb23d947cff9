------------------------------- MODULE Sessions -------------------------------
(***************************************************************************)
(* People, their sessions and their attempts (internal/auth/service.go over *)
(* internal/storage/sqlite/auth.go, internal/api/auth.go).                 *)
(*                                                                         *)
(* A login counts its attempt in memory, looks the person up, compares the  *)
(* password and opens a session: four steps, between which others log in    *)
(* and administrators change people.  A request carries the principal that  *)
(* was read when it arrived.                                               *)
(*                                                                         *)
(* Left out: the tokens themselves, request forgery tokens, addresses (all  *)
(* requests come from one), the display name.                              *)
(***************************************************************************)
EXTENDS Naturals, FiniteSets

CONSTANTS
  Names,         \* people, by their user name
  Roles,         \* roles given to people
  Clients,       \* requests that are handled at the same time
  SessionTTL,    \* 12 hours in the code
  ReauthTTL,     \* 5 minutes in the code
  Window,        \* 5 minutes in the code
  FailureLimit,  \* 5 in the code
  MaxClock,      \* bound on the time that passes
  MaxSessions,   \* bound on sessions
  MaxActs        \* bound on requests

ASSUME SessionsAssumption ==
  /\ "administrator" \in Roles
  /\ {SessionTTL, ReauthTTL, Window, FailureLimit} \subseteq Nat \ {0}
  /\ {MaxClock, MaxSessions, MaxActs} \subseteq Nat

VARIABLES
  users,        \* users[n]: the row of a person that exists
  bootstrapped, \* auth_bootstrap: who is recorded there
  sessions,     \* auth_sessions
  attempts,     \* failures and the start of their window, in memory
  client,       \* client[c]: the request being handled
  clock, acts

sessionsVars == <<users, bootstrapped, sessions, attempts, client, clock, acts>>

Quiet == [step |-> "idle"]

SessionsTypeOK ==
  /\ DOMAIN users \subseteq Names
  /\ \A n \in DOMAIN users : users[n].role \in Roles /\ users[n].disabled \in BOOLEAN
  /\ bootstrapped \subseteq DOMAIN users
  /\ \A s \in DOMAIN sessions : sessions[s].user \in DOMAIN users
  /\ \A c \in Clients :
       client[c].step \in {"idle", "bootstrap", "allowed", "refused", "verified", "clear", "admitted"}
  /\ clock \in 0 .. MaxClock /\ acts \in 0 .. MaxActs

SessionsInit ==
  /\ users = [n \in {} |-> 0] /\ bootstrapped = {}
  /\ sessions = [s \in {} |-> 0] /\ attempts = [n \in {} |-> 0]
  /\ client = [c \in Clients |-> Quiet]
  /\ clock = 0 /\ acts = 0

-----------------------------------------------------------------------------
(* Attempts *)

open(n) == n \in DOMAIN attempts /\ clock - attempts[n].started < Window

limited(n) == open(n) /\ attempts[n].failures >= FailureLimit

without(n) == [m \in DOMAIN attempts \ {n} |-> attempts[m]]

(* A window that is over is forgotten by the next attempt.                  *)
allowed(n) == ~limited(n) /\ attempts' = IF open(n) THEN attempts ELSE without(n)

recordFailure(n) ==
  attempts' = [m \in DOMAIN attempts \union {n} |->
    IF m # n THEN attempts[m]
    ELSE IF open(n) THEN [attempts[n] EXCEPT !.failures = @ + 1]
    ELSE [started |-> clock, failures |-> 1]]

clearAttempts(n) == attempts' = without(n)

handle(c, to) == client' = [client EXCEPT ![c] = to]

begin(c) == client[c] = Quiet /\ acts < MaxActs /\ acts' = acts + 1

newSession(n) ==
  /\ Cardinality(DOMAIN sessions) < MaxSessions
  /\ sessions' = [s \in DOMAIN sessions \union {Cardinality(DOMAIN sessions) + 1} |->
       IF s \in DOMAIN sessions THEN sessions[s]
       ELSE [user |-> n, expires |-> clock + SessionTTL, reauthenticated |-> 0, revoked |-> FALSE]]

validSession(s) == ~sessions[s].revoked /\ clock < sessions[s].expires

-----------------------------------------------------------------------------
(* The first administrator *)

Bootstrap(c) ==
  /\ begin(c) /\ bootstrapped = {}
  /\ \E n \in Names : allowed(n) /\ handle(c, [step |-> "bootstrap", name |-> n])
  /\ UNCHANGED <<users, bootstrapped, sessions, clock>>

(* One transaction, which looks again.                                      *)
BootstrapAdministrator(c) ==
  LET n == client[c].name IN
  /\ client[c].step = "bootstrap"
  /\ \/ /\ bootstrapped = {} /\ n \notin DOMAIN users
        /\ users' = [m \in DOMAIN users \union {n} |->
             IF m = n THEN [role |-> "administrator", disabled |-> FALSE] ELSE users[m]]
        /\ bootstrapped' = bootstrapped \union {n}
        /\ newSession(n)
        /\ handle(c, [step |-> "clear", name |-> n])
     \/ /\ ~(bootstrapped = {} /\ n \notin DOMAIN users)
        /\ handle(c, Quiet) /\ UNCHANGED <<users, bootstrapped, sessions>>
  /\ UNCHANGED <<attempts, clock, acts>>

-----------------------------------------------------------------------------
(* Logins and reauthentications *)

Login(c) ==
  /\ begin(c)
  /\ \E n \in Names : allowed(n) /\ handle(c, [step |-> "allowed", name |-> n, session |-> 0])
  /\ UNCHANGED <<users, bootstrapped, sessions, clock>>

(* The principal of a request, as the middleware reads it.                  *)
authenticated(s) == validSession(s) /\ ~users[sessions[s].user].disabled

Reauthenticate(c) ==
  /\ begin(c)
  /\ \E s \in DOMAIN sessions :
       /\ authenticated(s) /\ allowed(sessions[s].user)
       /\ handle(c, [step |-> "allowed", name |-> sessions[s].user, session |-> s])
  /\ UNCHANGED <<users, bootstrapped, sessions, clock>>

(* The person is looked up, the password compared.  A reauthentication does *)
(* not look whether the person was disabled meanwhile.                      *)
VerifyPassword(c) ==
  LET r == client[c] IN
  /\ r.step = "allowed"
  /\ \E right \in BOOLEAN :
       handle(c, [r EXCEPT !.step =
         IF right /\ r.name \in DOMAIN users /\ (r.session = 0 => ~users[r.name].disabled)
         THEN "verified" ELSE "refused"])
  /\ UNCHANGED <<users, bootstrapped, sessions, attempts, clock, acts>>

Refuse(c) ==
  /\ client[c].step = "refused"
  /\ recordFailure(client[c].name)
  /\ handle(c, Quiet)
  /\ UNCHANGED <<users, bootstrapped, sessions, clock, acts>>

CreateSession(c) ==
  /\ client[c].step = "verified" /\ client[c].session = 0
  /\ newSession(client[c].name)
  /\ handle(c, [client[c] EXCEPT !.step = "clear"])
  /\ UNCHANGED <<users, bootstrapped, attempts, clock, acts>>

MarkSessionReauthenticated(c) ==
  LET s == client[c].session IN
  /\ client[c].step = "verified" /\ s # 0
  /\ IF validSession(s)
     THEN /\ sessions' = [sessions EXCEPT ![s].reauthenticated = clock + ReauthTTL]
          /\ handle(c, [client[c] EXCEPT !.step = "clear"])
     ELSE UNCHANGED sessions /\ handle(c, Quiet)
  /\ UNCHANGED <<users, bootstrapped, attempts, clock, acts>>

Clear(c) ==
  /\ client[c].step = "clear"
  /\ clearAttempts(client[c].name)
  /\ handle(c, Quiet)
  /\ UNCHANGED <<users, bootstrapped, sessions, clock, acts>>

(* RevokeSession; an expired session may still be revoked.                  *)
Logout ==
  /\ \E s \in DOMAIN sessions :
       authenticated(s) /\ sessions' = [sessions EXCEPT ![s].revoked = TRUE]
  /\ UNCHANGED <<users, bootstrapped, attempts, client, clock, acts>>

-----------------------------------------------------------------------------
(* Administration of people *)

Admit(c) ==
  /\ begin(c)
  /\ \E s \in DOMAIN sessions :
       /\ authenticated(s) /\ users[sessions[s].user].role = "administrator"
       /\ handle(c, [step |-> "admitted", name |-> sessions[s].user,
                     until |-> sessions[s].reauthenticated])
  /\ UNCHANGED <<users, bootstrapped, sessions, attempts, clock>>

recently(c) == clock < client[c].until

CreateUser(c) ==
  /\ client[c].step = "admitted" /\ recently(c)
  /\ \E n \in Names \ DOMAIN users, role \in Roles :
       users' = [m \in DOMAIN users \union {n} |->
                   IF m = n THEN [role |-> role, disabled |-> FALSE] ELSE users[m]]
  /\ handle(c, Quiet)
  /\ UNCHANGED <<bootstrapped, sessions, attempts, clock, acts>>

(* Mutant of administrators: disabled ones count as well.                   *)
administratorsAll == {n \in DOMAIN users : users[n].role = "administrator"}

administrators == {n \in DOMAIN users : users[n].role = "administrator" /\ ~users[n].disabled}

(* One transaction.  A change of authority revokes the sessions there are.  *)
UpdateUser(c) ==
  /\ client[c].step = "admitted" /\ recently(c)
  /\ \E n \in DOMAIN users, role \in Roles, disabled \in BOOLEAN :
       /\ ~(n = client[c].name /\ disabled)
       /\ users[n].role = "administrator" /\ (role # "administrator" \/ disabled)
            => Cardinality(administrators) > 1
       /\ users' = [users EXCEPT ![n] = [role |-> role, disabled |-> disabled]]
       /\ sessions' = IF disabled \/ role # users[n].role
                      THEN [s \in DOMAIN sessions |->
                              IF sessions[s].user = n THEN [sessions[s] EXCEPT !.revoked = TRUE]
                              ELSE sessions[s]]
                      ELSE sessions
  /\ handle(c, Quiet)
  /\ UNCHANGED <<bootstrapped, attempts, clock, acts>>

(* A request that is refused, or whose caller goes away.                    *)
Abandon(c) ==
  /\ client[c].step \notin {"idle", "refused", "clear"}
  /\ handle(c, Quiet)
  /\ UNCHANGED <<users, bootstrapped, sessions, attempts, clock, acts>>

(* The controller restarts: what it counted is gone.                        *)
Restart ==
  /\ attempts # [n \in {} |-> 0]
  /\ attempts' = [n \in {} |-> 0]
  /\ client' = [c \in Clients |-> Quiet]
  /\ UNCHANGED <<users, bootstrapped, sessions, clock, acts>>

Tick ==
  /\ clock < MaxClock /\ clock' = clock + 1
  /\ UNCHANGED <<users, bootstrapped, sessions, attempts, client, acts>>

SessionsNext ==
  \/ \E c \in Clients :
       \/ Bootstrap(c) \/ BootstrapAdministrator(c)
       \/ Login(c) \/ Reauthenticate(c) \/ VerifyPassword(c) \/ Refuse(c)
       \/ CreateSession(c) \/ MarkSessionReauthenticated(c) \/ Clear(c)
       \/ Admit(c) \/ CreateUser(c) \/ UpdateUser(c) \/ Abandon(c)
  \/ Logout \/ Restart \/ Tick

SessionsSpec == SessionsInit /\ [][SessionsNext]_sessionsVars

-----------------------------------------------------------------------------
(* From the first administrator on there always is an enabled one, and only  *)
(* one person became it without being created by another, whatever           *)
(* administrators do to each other at the same time.                         *)
SomebodyAdministers ==
  /\ Cardinality(bootstrapped) <= 1
  /\ bootstrapped # {} =>
       \E n \in DOMAIN users : users[n].role = "administrator" /\ ~users[n].disabled

=============================================================================
