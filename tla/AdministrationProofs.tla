------------------------- MODULE AdministrationProofs -------------------------
(***************************************************************************)
(* Proofs about what people administer: the sessions and authority of       *)
(* people (Sessions) and the settings with their history (ConfigRegistry),  *)
(* for any number of people, clients, scopes, drafts and requests.          *)
(***************************************************************************)
EXTENDS ConfigRegistry, Sessions, FiniteSetTheorems, WellFoundedInduction, TLAPS

-----------------------------------------------------------------------------
(* People *)

User == [role : Roles, disabled : BOOLEAN]
Session == [user : Names, expires : Nat, reauthenticated : Nat, revoked : BOOLEAN]

(* A request being handled, with what it carries from step to step.        *)
ClientRecord ==
  {Quiet} \union [step : {"bootstrap", "clear"}, name : Names]
    \union [step : {"allowed", "refused", "verified", "clear"}, name : Names, session : Nat]
    \union [step : {"admitted"}, name : Names, until : Nat]

(* Who logs in again, is verified or has a session is a person there is.   *)
knownPerson(r) ==
  /\ r.step \in {"allowed", "verified"} /\ r.session # 0 => r.name \in DOMAIN users
  /\ r.step = "verified" => r.name \in DOMAIN users

(* At most one person bootstrapped, and then somebody administers.         *)
Administered ==
  /\ bootstrapped = {} \/ \E n \in Names : bootstrapped = {n}
  /\ bootstrapped # {} =>
       \E n \in DOMAIN users : users[n].role = "administrator" /\ ~users[n].disabled

PeopleInv ==
  /\ SessionsTypeOK
  /\ users \in [DOMAIN users -> User]
  /\ sessions \in [DOMAIN sessions -> Session] /\ \E n \in Nat : DOMAIN sessions = 1..n
  /\ client \in [Clients -> ClientRecord]
  /\ \A c \in Clients : knownPerson(client[c])
  /\ Administered

(* Adding a person leaves the others as they are.                          *)
LEMMA PersonAdded ==
  ASSUME users \in [DOMAIN users -> User], NEW n, NEW u \in User, n \notin DOMAIN users,
         users' = [m \in DOMAIN users \union {n} |-> IF m = n THEN u ELSE users[m]]
  PROVE  /\ DOMAIN users' = DOMAIN users \union {n}
         /\ users' \in [DOMAIN users' -> User]
         /\ users'[n] = u /\ \A m \in DOMAIN users : users'[m] = users[m]
  OBVIOUS

(* A session is added under the next number.                               *)
LEMMA SessionAdded ==
  ASSUME sessions \in [DOMAIN sessions -> Session], \E n \in Nat : DOMAIN sessions = 1..n,
         clock \in Nat, NEW n \in Names, newSession(n)
  PROVE  /\ sessions' \in [DOMAIN sessions' -> Session] /\ \E m \in Nat : DOMAIN sessions' = 1..m
         /\ \A s \in DOMAIN sessions' :
              \/ sessions'[s].user = n
              \/ s \in DOMAIN sessions /\ sessions'[s].user = sessions[s].user
<1>1. PICK m \in Nat : DOMAIN sessions = 1..m
  OBVIOUS
<1>2. Cardinality(DOMAIN sessions) = m
  BY <1>1, FS_Interval
<1>3. DOMAIN sessions' = 1..(m + 1)
  BY <1>1, <1>2 DEF newSession
<1>4. [user |-> n, expires |-> clock + SessionTTL, reauthenticated |-> 0, revoked |-> FALSE]
        \in Session
  BY SessionsAssumption DEF Session
<1>5. \A s \in DOMAIN sessions' : sessions'[s] =
         IF s \in DOMAIN sessions THEN sessions[s]
         ELSE [user |-> n, expires |-> clock + SessionTTL, reauthenticated |-> 0, revoked |-> FALSE]
  BY DEF newSession
<1>6. sessions' = [s \in DOMAIN sessions' |-> sessions'[s]]
  BY DEF newSession
<1>7. \A s \in DOMAIN sessions' : sessions'[s] \in Session
  BY <1>4, <1>5
<1>8. \A s \in DOMAIN sessions' :
        \/ sessions'[s].user = n
        \/ s \in DOMAIN sessions /\ sessions'[s].user = sessions[s].user
  BY <1>5
<1>9. sessions' \in [DOMAIN sessions' -> Session]
  BY <1>6, <1>7
<1> QED
  BY <1>3, <1>8, <1>9

(* Changing a session leaves it with its person; there may be none of that  *)
(* number.                                                                 *)
LEMMA SessionChanged ==
  ASSUME sessions \in [DOMAIN sessions -> Session], NEW s, NEW t,
         s \in DOMAIN sessions => t \in Session /\ t.user = sessions[s].user,
         sessions' = [sessions EXCEPT ![s] = t]
  PROVE  /\ sessions' \in [DOMAIN sessions' -> Session] /\ DOMAIN sessions' = DOMAIN sessions
         /\ \A i \in DOMAIN sessions : sessions'[i].user = sessions[i].user
<1>1. DOMAIN sessions' = DOMAIN sessions
  OBVIOUS
<1>2. \A i \in DOMAIN sessions : sessions'[i] = IF i = s THEN t ELSE sessions[i]
  OBVIOUS
<1>3. \A i \in DOMAIN sessions : sessions'[i] \in Session /\ sessions'[i].user = sessions[i].user
  BY <1>2
<1>4. sessions' = [i \in DOMAIN sessions' |-> sessions'[i]]
  OBVIOUS
<1> QED
  BY <1>1, <1>3, <1>4

(* What a step does to the requests: none of them, or one.                 *)
LEMMA ClientStep ==
  ASSUME client \in [Clients -> ClientRecord], NEW c \in Clients, NEW r \in ClientRecord,
         handle(c, r)
  PROVE  /\ client' \in [Clients -> ClientRecord] /\ client'[c] = r
         /\ \A b \in Clients : b # c => client'[b] = client[b]
  BY DEF handle

(* Every step keeps the types and what a request may rely on.              *)
LEMMA PeopleKept ==
  ASSUME PeopleInv, users' \in [DOMAIN users' -> User], DOMAIN users \subseteq DOMAIN users',
         DOMAIN users' \subseteq Names, sessions' \in [DOMAIN sessions' -> Session],
         \E n \in Nat : DOMAIN sessions' = 1..n,
         \A s \in DOMAIN sessions' : sessions'[s].user \in DOMAIN users',
         client' \in [Clients -> ClientRecord],
         \A c \in Clients : client'[c] = client[c] \/ knownPerson(client[c])',
         clock' \in 0..MaxClock, acts' \in 0..MaxActs,
         bootstrapped' \subseteq DOMAIN users', Administered'
  PROVE  PeopleInv'
<1>1. \A c \in Clients : knownPerson(client[c])'
  BY DEF PeopleInv, knownPerson
<1>2. SessionsTypeOK'
  BY DEF SessionsTypeOK, ClientRecord, Quiet, User
<1> QED
  BY <1>1, <1>2 DEF PeopleInv

(* A step that changes nobody changes no authority.                        *)
LEMMA OnlyRequests ==
  ASSUME PeopleInv, UNCHANGED <<users, bootstrapped>>,
         sessions' \in [DOMAIN sessions' -> Session], \E n \in Nat : DOMAIN sessions' = 1..n,
         \A s \in DOMAIN sessions' : sessions'[s].user \in DOMAIN users,
         client' \in [Clients -> ClientRecord],
         \A c \in Clients : client'[c] = client[c] \/ knownPerson(client[c])',
         clock' \in 0..MaxClock, acts' \in 0..MaxActs
  PROVE  PeopleInv'
<1>1. Administered' /\ users' \in [DOMAIN users' -> User] /\ DOMAIN users' = DOMAIN users
  BY DEF PeopleInv, Administered
<1> QED
  BY <1>1, PeopleKept DEF PeopleInv, SessionsTypeOK

(* Every step about people, their sessions and their requests.             *)
LEMMA PeopleStep ==
  ASSUME PeopleInv, [SessionsNext]_sessionsVars
  PROVE  PeopleInv'
<1>1. /\ users \in [DOMAIN users -> User] /\ DOMAIN users \subseteq Names
      /\ sessions \in [DOMAIN sessions -> Session]
      /\ \E n \in Nat : DOMAIN sessions = 1..n
      /\ \A s \in DOMAIN sessions : sessions[s].user \in DOMAIN users
      /\ client \in [Clients -> ClientRecord]
      /\ clock \in 0..MaxClock /\ acts \in 0..MaxActs
      /\ bootstrapped \subseteq DOMAIN users
      /\ MaxClock \in Nat /\ MaxActs \in Nat /\ clock \in Nat
  BY SessionsAssumption DEF PeopleInv, SessionsTypeOK
<1>2. Quiet \in ClientRecord /\ Quiet.step = "idle"
  BY DEF ClientRecord, Quiet
<1>3. ASSUME UNCHANGED <<users, bootstrapped, sessions, clock>>, acts' \in 0..MaxActs,
             NEW c \in Clients, NEW r \in ClientRecord, handle(c, r), knownPerson(r)
      PROVE  PeopleInv'
  <2>1. client' \in [Clients -> ClientRecord]
          /\ \A b \in Clients : client'[b] = client[b] \/ knownPerson(client[b])'
    BY <1>1, <1>3, ClientStep DEF knownPerson
  <2> QED
    BY <1>1, <1>3, <2>1, OnlyRequests
<1>4. ASSUME NEW c \in Clients, begin(c)
      PROVE  acts' \in 0..MaxActs
  BY <1>1, <1>4 DEF begin
<1>5. ASSUME NEW c \in Clients, Bootstrap(c)
      PROVE  PeopleInv'
  <2>1. PICK n \in Names : handle(c, [step |-> "bootstrap", name |-> n])
    BY <1>5 DEF Bootstrap
  <2>2. [step |-> "bootstrap", name |-> n] \in ClientRecord
          /\ knownPerson([step |-> "bootstrap", name |-> n])
    BY DEF ClientRecord, knownPerson
  <2> QED
    BY <1>3, <1>4, <1>5, <2>1, <2>2 DEF Bootstrap
<1>6. ASSUME NEW c \in Clients, Login(c)
      PROVE  PeopleInv'
  <2>1. PICK n \in Names : handle(c, [step |-> "allowed", name |-> n, session |-> 0])
    BY <1>6 DEF Login
  <2>2. [step |-> "allowed", name |-> n, session |-> 0] \in ClientRecord
          /\ knownPerson([step |-> "allowed", name |-> n, session |-> 0])
    BY DEF ClientRecord, knownPerson
  <2> QED
    BY <1>3, <1>4, <1>6, <2>1, <2>2 DEF Login
<1>7. ASSUME NEW c \in Clients, Reauthenticate(c)
      PROVE  PeopleInv'
  <2>1. PICK s \in DOMAIN sessions :
          handle(c, [step |-> "allowed", name |-> sessions[s].user, session |-> s])
    BY <1>7 DEF Reauthenticate
  <2>2. s \in Nat /\ sessions[s].user \in Names /\ sessions[s].user \in DOMAIN users
    BY <1>1
  <2>3. [step |-> "allowed", name |-> sessions[s].user, session |-> s] \in ClientRecord
          /\ knownPerson([step |-> "allowed", name |-> sessions[s].user, session |-> s])
    BY <2>2 DEF ClientRecord, knownPerson
  <2>4. \E r \in ClientRecord : handle(c, r) /\ knownPerson(r)
    BY <2>1, <2>3
  <2> QED
    BY <1>3, <1>4, <1>7, <2>4 DEF Reauthenticate
<1>8. ASSUME NEW c \in Clients, Admit(c)
      PROVE  PeopleInv'
  <2>1. PICK s \in DOMAIN sessions :
          handle(c, [step |-> "admitted", name |-> sessions[s].user,
                     until |-> sessions[s].reauthenticated])
    BY <1>8 DEF Admit
  <2>2. sessions[s].reauthenticated \in Nat /\ sessions[s].user \in Names
    BY <1>1 DEF Session
  <2>3. [step |-> "admitted", name |-> sessions[s].user,
         until |-> sessions[s].reauthenticated] \in ClientRecord
          /\ knownPerson([step |-> "admitted", name |-> sessions[s].user,
                          until |-> sessions[s].reauthenticated])
    BY <2>2 DEF ClientRecord, knownPerson
  <2>4. \E r \in ClientRecord : handle(c, r) /\ knownPerson(r)
    BY <2>1, <2>3
  <2> QED
    BY <1>3, <1>4, <1>8, <2>4 DEF Admit
<1>9. ASSUME NEW c \in Clients, VerifyPassword(c)
      PROVE  PeopleInv'
  <2>1. PICK right \in BOOLEAN :
          handle(c, [client[c] EXCEPT !.step =
            IF right /\ client[c].name \in DOMAIN users
                 /\ (client[c].session = 0 => ~users[client[c].name].disabled)
            THEN "verified" ELSE "refused"])
    BY <1>9 DEF VerifyPassword
  <2>2. client[c] \in [step : {"allowed", "refused", "verified", "clear"}, name : Names,
                       session : Nat]
    BY <1>1, <1>9 DEF VerifyPassword, ClientRecord, Quiet
  <2>3. \E to \in {"verified", "refused"} :
          /\ handle(c, [client[c] EXCEPT !.step = to])
          /\ to = "verified" => client[c].name \in DOMAIN users
    BY <2>1
  <2>4. PICK to \in {"verified", "refused"} :
          /\ handle(c, [client[c] EXCEPT !.step = to])
          /\ to = "verified" => client[c].name \in DOMAIN users
    BY <2>3
  <2>5. [client[c] EXCEPT !.step = to] \in ClientRecord
          /\ knownPerson([client[c] EXCEPT !.step = to])
    BY <2>2, <2>4 DEF ClientRecord, knownPerson
  <2>6. \E r \in ClientRecord : handle(c, r) /\ knownPerson(r)
    BY <2>4, <2>5
  <2> QED
    BY <1>1, <1>3, <1>9, <2>6 DEF VerifyPassword
<1>10. ASSUME NEW c \in Clients, Refuse(c) \/ Clear(c) \/ Abandon(c)
       PROVE  PeopleInv'
  <2>1. knownPerson(Quiet)
    BY <1>2 DEF knownPerson
  <2> QED
    BY <1>1, <1>2, <1>3, <1>10, <2>1 DEF Refuse, Clear, Abandon
<1>11. ASSUME NEW c \in Clients, BootstrapAdministrator(c)
       PROVE  PeopleInv'
  <2> DEFINE n == client[c].name
  <2>1. n \in Names
    BY <1>1, <1>11 DEF BootstrapAdministrator, ClientRecord, Quiet
  <2>2. CASE handle(c, Quiet) /\ UNCHANGED <<users, bootstrapped, sessions>>
    BY <1>1, <1>2, <1>3, <1>11, <2>2 DEF BootstrapAdministrator, knownPerson
  <2>3. CASE /\ bootstrapped = {} /\ n \notin DOMAIN users
             /\ users' = [m \in DOMAIN users \union {n} |->
                  IF m = n THEN [role |-> "administrator", disabled |-> FALSE] ELSE users[m]]
             /\ bootstrapped' = bootstrapped \union {n}
             /\ newSession(n)
             /\ handle(c, [step |-> "clear", name |-> n])
    <3>1. [role |-> "administrator", disabled |-> FALSE] \in User
      BY SessionsAssumption DEF User
    <3>2. /\ DOMAIN users' = DOMAIN users \union {n} /\ users' \in [DOMAIN users' -> User]
          /\ users'[n] = [role |-> "administrator", disabled |-> FALSE]
      BY <1>1, <2>3, <3>1, PersonAdded
    <3>3. /\ sessions' \in [DOMAIN sessions' -> Session] /\ \E m \in Nat : DOMAIN sessions' = 1..m
          /\ \A s \in DOMAIN sessions' : sessions'[s].user \in DOMAIN users'
      BY <1>1, <2>1, <2>3, <3>2, SessionAdded
    <3>4. [step |-> "clear", name |-> n] \in ClientRecord
      BY <2>1 DEF ClientRecord
    <3>5. client' \in [Clients -> ClientRecord]
            /\ \A b \in Clients : client'[b] = client[b] \/ knownPerson(client[b])'
      BY <1>1, <2>3, <3>4, ClientStep DEF knownPerson
    <3>6. Administered'
      BY <2>1, <2>3, <3>2 DEF Administered
    <3>7. DOMAIN users \subseteq DOMAIN users' /\ DOMAIN users' \subseteq Names
            /\ bootstrapped' \subseteq DOMAIN users'
      BY <1>1, <2>1, <2>3, <3>2
    <3>8. UNCHANGED <<clock, acts>>
      BY <1>11 DEF BootstrapAdministrator
    <3> QED
      BY <1>1, <3>2, <3>3, <3>5, <3>6, <3>7, <3>8, PeopleKept
  <2> QED
    BY <1>11, <2>2, <2>3 DEF BootstrapAdministrator
<1>12. ASSUME NEW c \in Clients, CreateSession(c)
       PROVE  PeopleInv'
  <2> DEFINE r == [client[c] EXCEPT !.step = "clear"]
  <2>1. client[c] \in [step : {"allowed", "refused", "verified", "clear"}, name : Names,
                       session : Nat]
    BY <1>1, <1>12 DEF CreateSession, ClientRecord, Quiet
  <2>2. client[c].name \in DOMAIN users
    BY <1>12 DEF CreateSession, PeopleInv, knownPerson
  <2>3. r \in ClientRecord /\ r.step = "clear"
    BY <2>1 DEF ClientRecord
  <2>4. /\ sessions' \in [DOMAIN sessions' -> Session] /\ \E m \in Nat : DOMAIN sessions' = 1..m
        /\ \A s \in DOMAIN sessions' : sessions'[s].user \in DOMAIN users
    BY <1>1, <1>12, <2>1, <2>2, SessionAdded DEF CreateSession
  <2>5. handle(c, r)
    BY <1>12 DEF CreateSession
  <2>6. client' \in [Clients -> ClientRecord]
          /\ \A b \in Clients : client'[b] = client[b] \/ knownPerson(client[b])'
    BY <1>1, <2>3, <2>5, ClientStep DEF knownPerson
  <2> QED
    BY <1>1, <1>12, <2>4, <2>6, OnlyRequests DEF CreateSession
<1>13. ASSUME NEW c \in Clients, MarkSessionReauthenticated(c)
       PROVE  PeopleInv'
  <2> DEFINE r == [client[c] EXCEPT !.step = "clear"]
             s == client[c].session
  <2>1. client[c] \in [step : {"allowed", "refused", "verified", "clear"}, name : Names,
                       session : Nat]
    BY <1>1, <1>13 DEF MarkSessionReauthenticated, ClientRecord, Quiet
  <2>2. r \in ClientRecord /\ r.step = "clear"
    BY <2>1 DEF ClientRecord
  <2>3. clock + ReauthTTL \in Nat
    BY <1>1, SessionsAssumption
  <2>4. /\ sessions' \in [DOMAIN sessions' -> Session] /\ DOMAIN sessions' = DOMAIN sessions
        /\ \A t \in DOMAIN sessions : sessions'[t].user = sessions[t].user
    <3>1. CASE UNCHANGED sessions
      BY <1>1, <3>1
    <3>2. CASE sessions' = [sessions EXCEPT ![s].reauthenticated = clock + ReauthTTL]
      <4>1. s \in DOMAIN sessions =>
              /\ [sessions[s] EXCEPT !.reauthenticated = clock + ReauthTTL] \in Session
              /\ [sessions[s] EXCEPT !.reauthenticated = clock + ReauthTTL].user = sessions[s].user
        BY <1>1, <2>3 DEF Session
      <4>2. sessions' = [sessions EXCEPT ![s] =
                           [sessions[s] EXCEPT !.reauthenticated = clock + ReauthTTL]]
        BY <3>2
      <4> QED
        BY <1>1, <4>1, <4>2, SessionChanged
    <3> QED
      BY <1>13, <3>1, <3>2 DEF MarkSessionReauthenticated
  <2>5. handle(c, r) \/ handle(c, Quiet)
    BY <1>13 DEF MarkSessionReauthenticated
  <2>6. client' \in [Clients -> ClientRecord]
          /\ \A b \in Clients : client'[b] = client[b] \/ knownPerson(client[b])'
    BY <1>1, <1>2, <2>2, <2>5, ClientStep DEF knownPerson
  <2>7. UNCHANGED <<users, bootstrapped, clock, acts>>
    BY <1>13 DEF MarkSessionReauthenticated
  <2> QED
    BY <1>1, <2>4, <2>6, <2>7, OnlyRequests
<1>14. ASSUME NEW c \in Clients, CreateUser(c)
       PROVE  PeopleInv'
  <2>1. PICK n \in Names \ DOMAIN users, role \in Roles :
          users' = [m \in DOMAIN users \union {n} |->
                      IF m = n THEN [role |-> role, disabled |-> FALSE] ELSE users[m]]
    BY <1>14 DEF CreateUser
  <2>2. [role |-> role, disabled |-> FALSE] \in User
    BY DEF User
  <2>3. /\ DOMAIN users' = DOMAIN users \union {n} /\ users' \in [DOMAIN users' -> User]
        /\ \A m \in DOMAIN users : users'[m] = users[m]
    BY <1>1, <2>1, <2>2, PersonAdded
  <2>4. UNCHANGED <<bootstrapped, sessions, clock, acts>> /\ handle(c, Quiet)
    BY <1>14 DEF CreateUser
  <2>5. Administered'
    BY <2>3, <2>4 DEF Administered, PeopleInv
  <2>6. client' \in [Clients -> ClientRecord]
          /\ \A b \in Clients : client'[b] = client[b] \/ knownPerson(client[b])'
    BY <1>1, <1>2, <2>4, ClientStep DEF knownPerson
  <2>7. DOMAIN users \subseteq DOMAIN users' /\ DOMAIN users' \subseteq Names
          /\ bootstrapped' \subseteq DOMAIN users'
          /\ \A s \in DOMAIN sessions' : sessions'[s].user \in DOMAIN users'
    BY <1>1, <2>3, <2>4
  <2> QED
    BY <1>1, <2>3, <2>4, <2>5, <2>6, <2>7, PeopleKept
<1>15. ASSUME NEW c \in Clients, UpdateUser(c)
       PROVE  PeopleInv'
  <2>1. PICK n \in DOMAIN users, role \in Roles, disabled \in BOOLEAN :
          /\ users[n].role = "administrator" /\ (role # "administrator" \/ disabled)
               => Cardinality(administrators) > 1
          /\ users' = [users EXCEPT ![n] = [role |-> role, disabled |-> disabled]]
          /\ sessions' = IF disabled \/ role # users[n].role
                         THEN [s \in DOMAIN sessions |->
                                 IF sessions[s].user = n THEN [sessions[s] EXCEPT !.revoked = TRUE]
                                 ELSE sessions[s]]
                         ELSE sessions
    BY <1>15 DEF UpdateUser
  <2>2. /\ DOMAIN users' = DOMAIN users /\ users' \in [DOMAIN users' -> User]
        /\ users'[n].role = role /\ users'[n].disabled = disabled
        /\ \A m \in DOMAIN users : m # n => users'[m] = users[m]
    BY <1>1, <2>1 DEF User
  <2>3. /\ sessions' \in [DOMAIN sessions' -> Session] /\ DOMAIN sessions' = DOMAIN sessions
        /\ \A s \in DOMAIN sessions : sessions'[s].user = sessions[s].user
    BY <1>1, <2>1, ZenonT(60) DEF Session
  <2>4. UNCHANGED <<bootstrapped, clock, acts>> /\ handle(c, Quiet)
    BY <1>15 DEF UpdateUser
  <2>5. ASSUME bootstrapped # {}
        PROVE  \E m \in DOMAIN users : users'[m].role = "administrator" /\ ~users'[m].disabled
    <3>1. PICK m \in DOMAIN users : users[m].role = "administrator" /\ ~users[m].disabled
      BY <2>5 DEF PeopleInv, Administered
    <3>2. CASE m # n
      BY <2>2, <3>1, <3>2
    <3>3. CASE m = n /\ role = "administrator" /\ ~disabled
      BY <2>2, <3>3
    <3>4. CASE m = n /\ (role # "administrator" \/ disabled)
      <4>1. Cardinality(administrators) > 1
        BY <2>1, <3>1, <3>4
      <4>2. \E other \in administrators : other # n
        <5>1. SUFFICES ASSUME administrators \subseteq {n}
                       PROVE  FALSE
          OBVIOUS
        <5>2. administrators = {} \/ administrators = {n}
          BY <5>1
        <5>3. Cardinality(administrators) \in {0, 1}
          BY <5>2, FS_EmptySet, FS_Singleton
        <5> QED
          BY <4>1, <5>3
      <4> QED
        BY <2>2, <4>2 DEF administrators
    <3> QED
      BY <3>2, <3>3, <3>4
  <2>6. Administered'
    BY <2>2, <2>4, <2>5 DEF Administered, PeopleInv
  <2>7. client' \in [Clients -> ClientRecord]
          /\ \A b \in Clients : client'[b] = client[b] \/ knownPerson(client[b])'
    BY <1>1, <1>2, <2>4, ClientStep DEF knownPerson
  <2> QED
    BY <1>1, <2>2, <2>3, <2>4, <2>6, <2>7, PeopleKept
<1>16. CASE Logout
  <2>1. /\ sessions' \in [DOMAIN sessions' -> Session] /\ DOMAIN sessions' = DOMAIN sessions
        /\ \A t \in DOMAIN sessions : sessions'[t].user = sessions[t].user
    <3>1. PICK s \in DOMAIN sessions :
            sessions' = [sessions EXCEPT ![s] = [sessions[s] EXCEPT !.revoked = TRUE]]
      BY <1>16 DEF Logout
    <3>2. /\ [sessions[s] EXCEPT !.revoked = TRUE] \in Session
          /\ [sessions[s] EXCEPT !.revoked = TRUE].user = sessions[s].user
      BY <1>1 DEF Session
    <3> QED
      BY <1>1, <3>1, <3>2, SessionChanged
  <2> QED
    BY <1>1, <1>16, <2>1, OnlyRequests DEF Logout
<1>17. CASE Restart
  <2>1. client' \in [Clients -> ClientRecord] /\ \A c \in Clients : knownPerson(client[c])'
    BY <1>2, <1>17 DEF Restart, knownPerson
  <2> QED
    BY <1>1, <1>17, <2>1, OnlyRequests DEF Restart
<1>18. CASE Tick \/ UNCHANGED sessionsVars
  BY <1>1, <1>18, OnlyRequests DEF Tick, sessionsVars
<1> QED
  BY <1>5, <1>6, <1>7, <1>8, <1>9, <1>10, <1>11, <1>12, <1>13, <1>14, <1>15, <1>16, <1>17,
     <1>18 DEF SessionsNext

LEMMA PeopleInvariant == SessionsSpec => []PeopleInv
<1>1. SessionsInit => PeopleInv
  <2> SUFFICES ASSUME SessionsInit PROVE PeopleInv
    OBVIOUS
  <2>1. /\ DOMAIN users = {} /\ users \in [DOMAIN users -> User]
        /\ sessions \in [DOMAIN sessions -> Session] /\ DOMAIN sessions = 1..0
        /\ \A c \in Clients : client[c] = Quiet
        /\ client \in [Clients -> ClientRecord]
    BY DEF SessionsInit, ClientRecord
  <2> QED
    BY <2>1, SessionsAssumption
       DEF SessionsInit, PeopleInv, SessionsTypeOK, Administered, knownPerson, Quiet
<1>2. PeopleInv /\ [SessionsNext]_sessionsVars => PeopleInv'
  BY PeopleStep
<1> QED
  BY <1>1, <1>2, PTL DEF SessionsSpec

(* However many administrators disable and demote each other at the same    *)
(* time, one of them stays, and only one person became it without being    *)
(* created by another.                                                     *)
THEOREM SomebodyForAll == SessionsSpec => []SomebodyAdministers
<1>1. PeopleInv => SomebodyAdministers
  <2> SUFFICES ASSUME PeopleInv PROVE SomebodyAdministers
    OBVIOUS
  <2>1. Cardinality(bootstrapped) \in {0, 1}
    BY FS_EmptySet, FS_Singleton DEF PeopleInv, Administered
  <2> QED
    BY <2>1 DEF PeopleInv, Administered, SomebodyAdministers
<1> QED
  BY <1>1, PeopleInvariant, PTL

(* Sessions and requests name people there are, whatever happens to them.  *)
THEOREM SessionsTypesForAll == SessionsSpec => []SessionsTypeOK
<1>1. PeopleInv => SessionsTypeOK
  BY DEF PeopleInv
<1> QED
  BY <1>1, PeopleInvariant, PTL


-----------------------------------------------------------------------------
(* Greatest elements *)

(* A set of natural numbers has a least element, for < is well-founded.    *)
LEMMA Least ==
  ASSUME NEW S, S \subseteq Nat, S # {}
  PROVE  \E m \in S : \A k \in S : m <= k
<1>1. IsWellFoundedOn(OpToRel(<, Nat), Nat)
  BY NatLessThanWellFounded
<1>2. PICK m \in S : \A k \in S : ~(<<k, m>> \in OpToRel(<, Nat))
  BY <1>1, WFMin, Zenon
<1>3. ASSUME NEW k \in S
      PROVE  m <= k
  <2>1. ~(<<k, m>> \in OpToRel(<, Nat))
    BY <1>2
  <2>2. k \in Nat /\ m \in Nat
    OBVIOUS
  <2>3. k < m => <<k, m>> \in OpToRel(<, Nat)
    BY <2>2 DEF OpToRel
  <2>4. ~(k < m)
    BY <2>1, <2>3
  <2> QED
    BY <2>2, <2>4
<1> QED
  BY <1>2, <1>3

(* A bounded one has a greatest, and only one.                             *)
greatest(S) == CHOOSE i \in S : \A j \in S : j <= i

LEMMA Greatest ==
  ASSUME NEW n \in Nat, NEW S, S \subseteq 1..n, S # {}
  PROVE  /\ greatest(S) \in S
         /\ \A j \in S : j <= greatest(S)
         /\ \A m \in S : (\A j \in S : j <= m) => greatest(S) = m
<1> DEFINE D == {n - k : k \in S}
<1>1. PICK s \in S : TRUE
  OBVIOUS
<1>2. D \subseteq Nat /\ n - s \in D
  OBVIOUS
<1>3. PICK d \in D : \A e \in D : d <= e
  BY <1>2, Least
<1>4. PICK m \in S : d = n - m
  OBVIOUS
<1>5. \A k \in S : k <= m
  <2>1. SUFFICES ASSUME NEW k \in S PROVE k <= m
    OBVIOUS
  <2>2. n - m <= n - k
    BY <1>3, <1>4
  <2>3. k \in 1..n /\ m \in 1..n
    OBVIOUS
  <2> QED
    BY <2>2, <2>3
<1>6. greatest(S) \in S /\ \A j \in S : j <= greatest(S)
  BY <1>5 DEF greatest
<1>7. ASSUME NEW l \in S, \A j \in S : j <= l
      PROVE  greatest(S) = l
  <2>1. l <= greatest(S) /\ greatest(S) <= l /\ l \in 1..n /\ greatest(S) \in 1..n
    BY <1>6, <1>7
  <2> QED
    BY <2>1
<1> QED
  BY <1>6, <1>7

-----------------------------------------------------------------------------
(* The history of the settings *)

Revision ==
  [scope : Scopes, version : Nat, entries : Entries, draft : Drafts \union {"none"},
   rollbackOf : Nat]
Settings == [Keys -> BOOLEAN \union {Unset}]
JobSnapshot == [project : Projects, values : [Keys -> BOOLEAN], at : Nat]

HistoryTyped ==
  /\ ConfigTypeOK
  /\ revisions \in Seq(Revision) /\ past \in Seq(Settings) /\ Len(past) = Len(revisions)
  /\ snapshots \in Seq(JobSnapshot) /\ Len(revisions) >= 1

(* The versions of a scope rise to its present one, and a rollback names a  *)
(* revision there is.                                                      *)
VersionInv ==
  \A t \in Scopes : \A r \in ofScope(t) :
    /\ revisions[r].version <= scopeVersion(t)
    /\ \A q \in ofScope(t) : q < r => revisions[q].version < revisions[r].version
    /\ revisions[r].rollbackOf # 0 => revisions[r].rollbackOf \in DOMAIN revisions

(* What the first m revisions of the history say of a setting of a scope,   *)
(* the newest of them decides.                                             *)
said(t, m, k) == {i \in ofScope(t) : i <= m /\ k \in DOMAIN revisions[i].entries}

settled(t, m) ==
  [k \in Keys |-> IF said(t, m, k) = {} THEN Unset
                  ELSE revisions[greatest(said(t, m, k))].entries[k]]

(* The present of a scope is what the whole history says of it.            *)
PresentInv == \A t \in Scopes : values[t] = settled(t, Len(revisions))

(* What the system scope held after each of its revisions keeps the         *)
(* dependency, for rollbacks return to it.                                 *)
keeps(settings) == satisfied("system", [s \in Scopes |-> settings])

DependencyInv ==
  /\ SystemScopeConsistent
  /\ \A r \in ofScope("system") : keeps(past[r])

(* A draft has the version of its scope it was written for, and from its    *)
(* review on the entries its reviewer saw.                                 *)
DraftInv ==
  /\ \A d \in Drafts :
       /\ draft[d].state # "none" => draft[d].base <= scopeVersion(draft[d].scope)
       /\ draft[d].state \in {"reviewed", "applied"} => draft[d].approved = draft[d].entries
  /\ \A r \in DOMAIN revisions : revisions[r].draft # "none" =>
       /\ draft[revisions[r].draft].state = "applied"
       /\ revisions[r].entries = draft[revisions[r].draft].approved

(* What a request relies on between its read and its transaction.          *)
onDraft(q) == q.op \in {"update", "review", "apply"}
onRevision(q) == q.op \in {"rollback", "restore"}

relies(q) ==
  /\ q.op = "create" => q.id \in Drafts /\ draft[q.id].state = "none"
  /\ onDraft(q) => q.id \in Drafts /\ draft[q.id].state # "none" /\ q.scope = draft[q.id].scope
  /\ q.op = "review" /\ draft[q.id].state = "draft" =>
       /\ q.version <= draft[q.id].version
       /\ q.version = draft[q.id].version => q.entries = draft[q.id].entries
  /\ q.op = "apply" /\ q.scope = "system" /\ unmoved("system", draft[q.id].base) =>
       satisfied("system", apply(values, "system", q.entries))
  /\ onRevision(q) =>
       /\ q.id \in DOMAIN revisions /\ revisions[q.id].scope = q.scope
       /\ q.version <= scopeVersion(q.scope)
  /\ q.op = "restore" /\ unmoved(q.scope, q.version) =>
       apply(values, q.scope, q.entries)[q.scope] = past[q.id]

RequestInv ==
  /\ \A a \in Admins : relies(requests[a])
  /\ \A a \in Admins, b \in Admins :
       a # b /\ requests[a].op = "create" /\ requests[b].op = "create" =>
         requests[a].id # requests[b].id

ConfigInv ==
  /\ HistoryTyped /\ VersionInv /\ PresentInv /\ DependencyInv
  /\ HistoryReconstructs /\ RollbackRestores /\ SnapshotsExplained
  /\ DraftInv /\ RequestInv


(* What entries are: a value or a reset for some of the settings.          *)
LEMMA EntriesName ==
  ASSUME NEW e \in Entries
  PROVE  /\ DOMAIN e \subseteq Keys /\ DOMAIN e # {}
         /\ \A k \in DOMAIN e : e[k] \in BOOLEAN \union {Unset}
  BY DEF Entries

(* Applying entries changes one scope, in the settings they name.          *)
LEMMA ApplyEffect ==
  ASSUME NEW vals \in [Scopes -> Settings], NEW s \in Scopes, NEW e \in Entries
  PROVE  /\ apply(vals, s, e) \in [Scopes -> Settings]
         /\ \A t \in Scopes : t # s => apply(vals, s, e)[t] = vals[t]
         /\ \A k \in Keys : apply(vals, s, e)[s][k] = IF k \in DOMAIN e THEN e[k] ELSE vals[s][k]
<1> DEFINE new == [k \in Keys |-> IF k \in DOMAIN e THEN e[k] ELSE vals[s][k]]
<1>1. vals[s] \in Settings
  OBVIOUS
<1>2. new \in Settings
  BY <1>1, EntriesName DEF Settings
<1>3. apply(vals, s, e) = [vals EXCEPT ![s] = new]
  BY DEF apply
<1> QED
  BY <1>2, <1>3

(* Applying depends on the scope it is about alone.                        *)
LEMMA ApplyLocal ==
  ASSUME NEW vals \in [Scopes -> Settings], NEW other \in [Scopes -> Settings],
         NEW s \in Scopes, NEW e \in Entries, vals[s] = other[s]
  PROVE  apply(vals, s, e)[s] = apply(other, s, e)[s]
<1> DEFINE new == [k \in Keys |-> IF k \in DOMAIN e THEN e[k] ELSE vals[s][k]]
<1>1. apply(vals, s, e) = [vals EXCEPT ![s] = new]
        /\ apply(other, s, e) = [other EXCEPT ![s] = new]
  BY DEF apply
<1> QED
  BY <1>1

(* The scopes have their revisions in the history, finitely many.          *)
LEMMA ScopesFinite ==
  ASSUME revisions \in Seq(Revision)
  PROVE  /\ DOMAIN revisions = 1..Len(revisions) /\ Len(revisions) \in Nat
         /\ \A s : /\ ofScope(s) \subseteq 1..Len(revisions)
                   /\ IsFiniteSet(ofScope(s)) /\ scopeVersion(s) \in Nat
<1>1. DOMAIN revisions = 1..Len(revisions) /\ Len(revisions) \in Nat
  OBVIOUS
<1>2. IsFiniteSet(1..Len(revisions))
  BY <1>1, FS_Interval
<1>3. ASSUME NEW s
      PROVE  /\ ofScope(s) \subseteq 1..Len(revisions)
             /\ IsFiniteSet(ofScope(s)) /\ scopeVersion(s) \in Nat
  <2>1. ofScope(s) \subseteq 1..Len(revisions)
    BY <1>1 DEF ofScope
  <2>2. IsFiniteSet(ofScope(s))
    BY <1>2, <2>1, FS_Subset
  <2> QED
    BY <2>1, <2>2, FS_CardinalityType DEF scopeVersion
<1> QED
  BY <1>1, <1>3

(* Revision n + 1 is added, of scope s; the earlier ones and the other       *)
(* scopes stay.                                                            *)
appended(n, s, e, d, b) ==
  /\ n \in Nat /\ n = Len(revisions) /\ n = Len(past)
  /\ DOMAIN revisions = 1..n /\ DOMAIN revisions' = 1..(n + 1)
  /\ Len(revisions') = n + 1 /\ Len(past') = n + 1
  /\ revisions' \in Seq(Revision) /\ past' \in Seq(Settings)
  /\ \A r \in 1..n : revisions'[r] = revisions[r] /\ past'[r] = past[r]
  /\ revisions'[n + 1].scope = s /\ revisions'[n + 1].version = scopeVersion(s) + 1
  /\ revisions'[n + 1].entries = e /\ revisions'[n + 1].draft = d
  /\ revisions'[n + 1].rollbackOf = b
  /\ past'[n + 1] = values'[s]
  /\ values' = apply(values, s, e) /\ values' \in [Scopes -> Settings]
  /\ \A t \in Scopes : t # s => values'[t] = values[t]
  /\ \A k \in Keys : values'[s][k] = IF k \in DOMAIN e THEN e[k] ELSE values[s][k]

LEMMA HistoryAppended ==
  ASSUME HistoryTyped, NEW s \in Scopes, NEW e \in Entries, NEW d \in Drafts \union {"none"},
         NEW b \in Nat, appendRevision(s, e, d, b)
  PROVE  \E n : appended(n, s, e, d, b)
<1> DEFINE n == Len(revisions)
<1>1. revisions \in Seq(Revision) /\ past \in Seq(Settings) /\ Len(past) = n
        /\ values \in [Scopes -> Settings]
  BY DEF HistoryTyped, ConfigTypeOK, Settings
<1>2. n \in Nat /\ scopeVersion(s) + 1 \in Nat /\ DOMAIN revisions = 1..n
  BY <1>1, ScopesFinite
<1>3. /\ values' = apply(values, s, e) /\ values' \in [Scopes -> Settings]
      /\ \A t \in Scopes : t # s => values'[t] = values[t]
      /\ \A k \in Keys : values'[s][k] = IF k \in DOMAIN e THEN e[k] ELSE values[s][k]
  <2>1. values' = apply(values, s, e)
    BY DEF appendRevision
  <2> QED
    BY <1>1, <2>1, ApplyEffect
<1> DEFINE x == [scope |-> s, version |-> scopeVersion(s) + 1, entries |-> e,
                 draft |-> d, rollbackOf |-> b]
<1>4. x \in Revision /\ values'[s] \in Settings
  BY <1>2, <1>3 DEF Revision
<1>5. revisions' = Append(revisions, x) /\ past' = Append(past, values'[s])
  BY DEF appendRevision
<1> HIDE DEF x
<1>6. /\ revisions' \in Seq(Revision) /\ Len(revisions') = n + 1 /\ revisions'[n + 1] = x
      /\ \A r \in 1..n : revisions'[r] = revisions[r]
      /\ DOMAIN revisions' = 1..(n + 1)
  BY <1>1, <1>2, <1>4, <1>5
<1>7. /\ past' \in Seq(Settings) /\ Len(past') = n + 1 /\ past'[n + 1] = values'[s]
      /\ \A r \in 1..n : past'[r] = past[r]
  BY <1>1, <1>2, <1>4, <1>5
<1>8. /\ x.scope = s /\ x.version = scopeVersion(s) + 1 /\ x.entries = e /\ x.draft = d
      /\ x.rollbackOf = b
  BY DEF x
<1>9. appended(n, s, e, d, b)
  BY <1>1, <1>2, <1>3, <1>6, <1>7, <1>8 DEF appended
<1> QED
  BY <1>9

(* It is the next of its scope.                                            *)
LEMMA ScopesAppended ==
  ASSUME HistoryTyped, NEW s \in Scopes, NEW e, NEW d, NEW b, NEW n, appended(n, s, e, d, b)
  PROVE  /\ ofScope(s)' = ofScope(s) \union {n + 1}
         /\ \A t \in Scopes : t # s => ofScope(t)' = ofScope(t)
         /\ scopeVersion(s)' = scopeVersion(s) + 1
         /\ \A t \in Scopes : t # s => scopeVersion(t)' = scopeVersion(t)
         /\ \A t \in Scopes : /\ scopeVersion(t) \in Nat /\ scopeVersion(t)' \in Nat
                             /\ scopeVersion(t) <= scopeVersion(t)'
                             /\ ofScope(t) \subseteq 1..n
<1>1. /\ n \in Nat /\ DOMAIN revisions = 1..n /\ DOMAIN revisions' = 1..(n + 1)
      /\ \A r \in 1..n : revisions'[r] = revisions[r]
      /\ revisions'[n + 1].scope = s /\ n = Len(revisions)
  BY DEF appended
<1>2. ofScope(s)' = ofScope(s) \union {n + 1}
  BY <1>1 DEF ofScope
<1>3. \A t \in Scopes : t # s => ofScope(t)' = ofScope(t)
  BY <1>1 DEF ofScope
<1>4. \A t \in Scopes : IsFiniteSet(ofScope(t)) /\ scopeVersion(t) \in Nat
                          /\ ofScope(t) \subseteq 1..n
  BY <1>1, ScopesFinite DEF HistoryTyped
<1>5. IsFiniteSet(ofScope(s)) /\ n + 1 \notin ofScope(s)
  BY <1>1, <1>4
<1>6. Cardinality(ofScope(s) \union {n + 1}) = Cardinality(ofScope(s)) + 1
  BY <1>5, FS_AddElement
<1>7. scopeVersion(s)' = scopeVersion(s) + 1
        /\ \A t \in Scopes : t # s => scopeVersion(t)' = scopeVersion(t)
  BY <1>2, <1>3, <1>6 DEF scopeVersion
<1> QED
  BY <1>2, <1>3, <1>4, <1>7

(* The versions of a scope keep rising.                                    *)
LEMMA VersionAppended ==
  ASSUME HistoryTyped, VersionInv, NEW s \in Scopes, NEW e, NEW d, NEW n,
         NEW b, b \in {0} \union DOMAIN revisions, appended(n, s, e, d, b)
  PROVE  VersionInv'
<1>1. /\ n \in Nat /\ DOMAIN revisions = 1..n /\ DOMAIN revisions' = 1..(n + 1)
      /\ \A r \in 1..n : revisions'[r] = revisions[r]
      /\ revisions'[n + 1].scope = s /\ revisions'[n + 1].version = scopeVersion(s) + 1
      /\ revisions'[n + 1].rollbackOf = b
  BY DEF appended
<1>2. \A r \in 1..n : revisions[r].scope \in Scopes /\ revisions[r].version \in Nat
  <2>1. \A r \in 1..n : revisions[r] \in Revision
    BY <1>1 DEF HistoryTyped
  <2> QED
    BY <2>1 DEF Revision
<1>3. ASSUME NEW t \in Scopes, NEW r \in ofScope(t)
      PROVE  /\ revisions'[r].version <= scopeVersion(t)'
             /\ \A q \in ofScope(t)' : q < r => revisions'[q].version < revisions'[r].version
             /\ revisions'[r].rollbackOf # 0 => revisions'[r].rollbackOf \in DOMAIN revisions'
  <2>1. r \in 1..n /\ revisions'[r] = revisions[r]
    BY <1>1, ScopesAppended
  <2>2. revisions[r].version <= scopeVersion(t)'
    <3>1. /\ revisions[r].version <= scopeVersion(t) /\ scopeVersion(t) <= scopeVersion(t)'
          /\ scopeVersion(t) \in Nat /\ scopeVersion(t)' \in Nat
      BY ScopesAppended DEF VersionInv
    <3> QED
      BY <1>2, <2>1, <3>1
  <2>3. \A q \in ofScope(t)' : q < r => q \in ofScope(t) /\ q \in 1..n
    BY <1>1, <2>1, ScopesAppended
  <2>4. \A q \in ofScope(t)' : q < r => revisions'[q].version < revisions'[r].version
    BY <1>1, <2>1, <2>3 DEF VersionInv
  <2>5. revisions[r].rollbackOf # 0 => revisions[r].rollbackOf \in DOMAIN revisions'
    BY <1>1 DEF VersionInv
  <2> QED
    BY <2>1, <2>2, <2>4, <2>5
<1>4. \A q \in ofScope(s)' : q < n + 1 => revisions'[q].version < revisions'[n + 1].version
  <2>1. SUFFICES ASSUME NEW q \in ofScope(s)', q < n + 1
                 PROVE  revisions'[q].version < revisions'[n + 1].version
    OBVIOUS
  <2>2. q \in ofScope(s) /\ q \in 1..n
    BY <1>1, <2>1, ScopesAppended
  <2>3. revisions[q].version <= scopeVersion(s) /\ scopeVersion(s) \in Nat
    BY <1>1, <2>2, ScopesAppended DEF VersionInv
  <2> QED
    BY <1>1, <1>2, <2>2, <2>3
<1>5. /\ revisions'[n + 1].version <= scopeVersion(s)'
      /\ revisions'[n + 1].rollbackOf # 0 => revisions'[n + 1].rollbackOf \in DOMAIN revisions'
  <2>1. scopeVersion(s)' = scopeVersion(s) + 1 /\ scopeVersion(s) \in Nat
    BY ScopesAppended
  <2> QED
    BY <1>1, <2>1
<1>6. \A t \in Scopes : \A r \in ofScope(t)' : r \in ofScope(t) \/ (t = s /\ r = n + 1)
  BY ScopesAppended
<1> QED
  BY <1>3, <1>4, <1>5, <1>6 DEF VersionInv


(* The versions of a scope are in the order of the history.                *)
TouchingIsSaid ==
  \A t \in Scopes : \A r \in ofScope(t), k \in Keys : touching(r, k) = said(t, r, k)

LEMMA VersionsOrder == HistoryTyped /\ VersionInv => TouchingIsSaid
<1> SUFFICES ASSUME HistoryTyped, VersionInv, NEW t \in Scopes, NEW r \in ofScope(t), NEW k \in Keys
             PROVE  touching(r, k) = said(t, r, k)
  BY DEF TouchingIsSaid
<1>1. \A i \in ofScope(t) : i \in 1..Len(revisions) /\ revisions[i].version \in Nat
        /\ Len(revisions) \in Nat
  <2>1. /\ DOMAIN revisions = 1..Len(revisions) /\ Len(revisions) \in Nat
        /\ ofScope(t) \subseteq 1..Len(revisions)
    BY ScopesFinite DEF HistoryTyped
  <2>2. \A i \in 1..Len(revisions) : revisions[i] \in Revision
    BY <2>1 DEF HistoryTyped
  <2> QED
    BY <2>1, <2>2 DEF Revision
<1>2. revisions[r].scope = t
  BY DEF ofScope
<1>3. ASSUME NEW i \in ofScope(t)
      PROVE  revisions[i].version <= revisions[r].version <=> i <= r
  <2>1. i < r => revisions[i].version < revisions[r].version
    BY DEF VersionInv
  <2>2. r < i => revisions[r].version < revisions[i].version
    BY DEF VersionInv
  <2>3. /\ i \in Nat /\ r \in Nat /\ revisions[i].version \in Nat
        /\ revisions[r].version \in Nat
    BY <1>1
  <2> QED
    BY <2>1, <2>2, <2>3
<1> QED
  BY <1>2, <1>3 DEF touching, said

(* So a revision is rebuilt from what the history said up to it.           *)
RebuiltIsSettled ==
  /\ \A t \in Scopes : \A r \in ofScope(t) : atRevision(r) = settled(t, r)
  /\ \A m \in DOMAIN revisions : setAt(m) = [t \in Scopes |-> settled(t, m)]

LEMMA HistoryRebuilt == HistoryTyped /\ VersionInv => RebuiltIsSettled
<1> SUFFICES ASSUME HistoryTyped, VersionInv PROVE RebuiltIsSettled
  OBVIOUS
<1>1. ASSUME NEW t \in Scopes, NEW r \in ofScope(t)
      PROVE  atRevision(r) = settled(t, r)
  <2>1. atRevision(r) =
          [k \in Keys |-> IF touching(r, k) = {} THEN Unset
                          ELSE revisions[greatest(touching(r, k))].entries[k]]
    BY DEF atRevision, greatest
  <2>2. \A k \in Keys : touching(r, k) = said(t, r, k)
    BY <1>1, VersionsOrder DEF TouchingIsSaid
  <2> QED
    BY <2>1, <2>2 DEF settled
<1>2. ASSUME NEW t \in Scopes, NEW m \in DOMAIN revisions
      PROVE  LET R == {r \in ofScope(t) : r <= m} IN
             IF R = {} THEN [k \in Keys |-> Unset] = settled(t, m)
                       ELSE atRevision(greatest(R)) = settled(t, m)
  <2> DEFINE R == {r \in ofScope(t) : r <= m}
  <2>1. /\ R \subseteq 1..Len(revisions) /\ Len(revisions) \in Nat
        /\ ofScope(t) \subseteq 1..Len(revisions) /\ m \in 1..Len(revisions)
    BY ScopesFinite DEF HistoryTyped
  <2>2. CASE R = {}
    <3>1. \A k \in Keys : said(t, m, k) = {}
      BY <2>2 DEF said
    <3> QED
      BY <2>2, <3>1 DEF settled
  <2>3. CASE R # {}
    <3> DEFINE g == greatest(R)
    <3>1. g \in R /\ \A j \in R : j <= g
      BY <2>1, <2>3, Greatest
    <3> HIDE DEF g
    <3>2. ASSUME NEW k \in Keys
          PROVE  said(t, g, k) = said(t, m, k)
      <4>1. \A i \in ofScope(t) : i <= m <=> i <= g
        <5>1. \A i \in ofScope(t) : i <= m => i <= g
          BY <3>1
        <5>2. \A i \in ofScope(t) : i <= g => i <= m
          BY <2>1, <3>1
        <5> QED
          BY <5>1, <5>2
      <4> QED
        BY <4>1 DEF said
    <3>3. settled(t, g) = settled(t, m)
      BY <3>2 DEF settled
    <3>4. atRevision(g) = settled(t, g)
      BY <1>1, <3>1
    <3> QED
      BY <2>3, <3>3, <3>4 DEF g
  <2> QED
    BY <2>2, <2>3
<1>3. ASSUME NEW m \in DOMAIN revisions
      PROVE  setAt(m) = [t \in Scopes |-> settled(t, m)]
  BY <1>2 DEF setAt, greatest
<1> QED
  BY <1>1, <1>3 DEF RebuiltIsSettled

LEMMA HistoryRebuiltNext == (HistoryTyped /\ VersionInv => RebuiltIsSettled)'
  BY HistoryRebuilt, PTL

(* A new revision leaves what was said before it.                          *)
LEMMA SettledKept ==
  ASSUME HistoryTyped, NEW s \in Scopes, NEW e, NEW d, NEW b, NEW n, appended(n, s, e, d, b),
         NEW t \in Scopes, NEW m \in 1..n
  PROVE  settled(t, m)' = settled(t, m)
<1>1. /\ n \in Nat /\ n = Len(revisions)
      /\ \A r \in 1..n : revisions'[r] = revisions[r]
  BY DEF appended
<1>2. \A i \in ofScope(t)' : i <= m => i \in ofScope(t)
  BY <1>1, ScopesAppended
<1>3. /\ ofScope(t) \subseteq ofScope(t)' /\ ofScope(t) \subseteq 1..n
  BY ScopesAppended
<1>4. ASSUME NEW k \in Keys
      PROVE  said(t, m, k)' = said(t, m, k) /\ said(t, m, k) \subseteq 1..n
  BY <1>1, <1>2, <1>3 DEF said
<1>5. ASSUME NEW k \in Keys, said(t, m, k) # {}
      PROVE  greatest(said(t, m, k)) \in 1..n
  BY <1>1, <1>4, <1>5, Greatest
<1> QED
  BY <1>1, <1>4, <1>5 DEF settled

(* It says what its scope is now; the other scopes stay as they were said.  *)
LEMMA PresentAppended ==
  ASSUME HistoryTyped, PresentInv, NEW s \in Scopes, NEW e \in Entries, NEW d, NEW b, NEW n,
         appended(n, s, e, d, b)
  PROVE  \A t \in Scopes : values'[t] = settled(t, n + 1)'
<1>1. /\ n \in Nat /\ n = Len(revisions)
      /\ \A r \in 1..n : revisions'[r] = revisions[r]
      /\ revisions'[n + 1].entries = e
      /\ values' \in [Scopes -> Settings]
      /\ \A t \in Scopes : t # s => values'[t] = values[t]
      /\ \A k \in Keys : values'[s][k] = IF k \in DOMAIN e THEN e[k] ELSE values[s][k]
  BY DEF appended
<1>2. SUFFICES ASSUME NEW t \in Scopes, NEW k \in Keys
               PROVE  values'[t][k] = settled(t, n + 1)'[k]
  BY <1>1 DEF Settings, settled
<1>3. values[t][k] = IF said(t, n, k) = {} THEN Unset
                     ELSE revisions[greatest(said(t, n, k))].entries[k]
  <2>1. values[t] = settled(t, n)
    BY <1>1 DEF PresentInv
  <2> QED
    BY <2>1 DEF settled
<1>4. settled(t, n + 1)'[k] = IF said(t, n + 1, k)' = {} THEN Unset
                              ELSE revisions'[greatest(said(t, n + 1, k)')].entries[k]
  BY DEF settled
<1>5. said(t, n, k) \subseteq 1..n /\ ofScope(t) \subseteq 1..n
  BY ScopesAppended DEF said
<1>6. CASE t # s \/ k \notin DOMAIN e
  <2>1. said(t, n + 1, k)' = said(t, n, k)
    <3>1. CASE t # s
      <4>1. ofScope(t)' = ofScope(t)
        BY <3>1, ScopesAppended
      <4> QED
        BY <1>1, <1>5, <4>1 DEF said
    <3>2. CASE t = s /\ k \notin DOMAIN e
      <4>1. ofScope(t)' = ofScope(t) \union {n + 1}
        BY <3>2, ScopesAppended
      <4> QED
        BY <1>1, <1>5, <3>2, <4>1 DEF said
    <3> QED
      BY <1>6, <3>1, <3>2
  <2>2. said(t, n, k) # {} => greatest(said(t, n, k)) \in 1..n
    BY <1>1, <1>5, Greatest
  <2>3. values'[t][k] = values[t][k]
    BY <1>1, <1>6
  <2> QED
    BY <1>1, <1>3, <1>4, <2>1, <2>2, <2>3
<1>7. CASE t = s /\ k \in DOMAIN e
  <2>1. ofScope(t)' = ofScope(t) \union {n + 1}
    BY <1>7, ScopesAppended
  <2>2. n + 1 \in said(t, n + 1, k)' /\ said(t, n + 1, k)' \subseteq 1..(n + 1)
    BY <1>1, <1>5, <1>7, <2>1 DEF said
  <2>3. greatest(said(t, n + 1, k)') = n + 1
    <3>1. \A j \in said(t, n + 1, k)' : j <= n + 1
      BY <1>1, <2>2
    <3> QED
      BY <1>1, <2>2, <3>1, Greatest
  <2> QED
    BY <1>1, <1>4, <1>7, <2>2, <2>3
<1> QED
  BY <1>6, <1>7


(* Every revision, the new one too, can be rebuilt.                        *)
LEMMA ReconstructsAppended ==
  ASSUME HistoryTyped, VersionInv, PresentInv, HistoryReconstructs, HistoryTyped', VersionInv',
         NEW s \in Scopes, NEW e \in Entries, NEW d, NEW b, NEW n, appended(n, s, e, d, b)
  PROVE  HistoryReconstructs'
<1>1. /\ n \in Nat /\ DOMAIN revisions = 1..n /\ DOMAIN revisions' = 1..(n + 1)
      /\ \A r \in 1..n : revisions'[r] = revisions[r] /\ past'[r] = past[r]
      /\ revisions'[n + 1].scope = s /\ past'[n + 1] = values'[s]
  BY DEF appended
<1>2. RebuiltIsSettled /\ RebuiltIsSettled'
  BY HistoryRebuilt, HistoryRebuiltNext
<1>3. \A t \in Scopes : \A r \in ofScope(t)' : atRevision(r)' = settled(t, r)'
  BY <1>2 DEF RebuiltIsSettled
<1>4. ASSUME NEW r \in 1..n
      PROVE  atRevision(r)' = past'[r]
  <2>1. PICK t \in Scopes : t = revisions[r].scope
    <3>1. revisions[r] \in Revision
      BY <1>1 DEF HistoryTyped
    <3> QED
      BY <3>1 DEF Revision
  <2>2. r \in ofScope(t) /\ r \in ofScope(t)'
    BY <1>1, <2>1 DEF ofScope
  <2>3. settled(t, r)' = settled(t, r)
    BY SettledKept
  <2>4. atRevision(r) = settled(t, r) /\ atRevision(r) = past[r]
    BY <1>1, <1>2, <2>2 DEF RebuiltIsSettled, HistoryReconstructs
  <2> QED
    BY <1>1, <1>3, <2>2, <2>3, <2>4
<1>5. atRevision(n + 1)' = past'[n + 1]
  <2>1. n + 1 \in ofScope(s)'
    BY ScopesAppended
  <2>2. values'[s] = settled(s, n + 1)'
    BY PresentAppended
  <2> QED
    BY <1>1, <1>3, <2>1, <2>2
<1> QED
  BY <1>1, <1>4, <1>5 DEF HistoryReconstructs

(* What a job was given is still that of its moment.                       *)
LEMMA SnapshotsAppended ==
  ASSUME HistoryTyped, VersionInv, SnapshotsExplained, HistoryTyped', VersionInv',
         UNCHANGED snapshots,
         NEW s \in Scopes, NEW e, NEW d, NEW b, NEW n, appended(n, s, e, d, b)
  PROVE  SnapshotsExplained'
<1>1. /\ n \in Nat /\ DOMAIN revisions = 1..n /\ DOMAIN revisions' = 1..(n + 1)
  BY DEF appended
<1>2. RebuiltIsSettled /\ RebuiltIsSettled'
  BY HistoryRebuilt, HistoryRebuiltNext
<1>3. ASSUME NEW m \in 1..n
      PROVE  setAt(m)' = setAt(m)
  <2>1. /\ setAt(m) = [t \in Scopes |-> settled(t, m)]
        /\ setAt(m)' = [t \in Scopes |-> settled(t, m)']
    BY <1>1, <1>2 DEF RebuiltIsSettled
  <2>2. \A t \in Scopes : settled(t, m)' = settled(t, m)
    BY SettledKept
  <2> QED
    BY <2>1, <2>2
<1>4. ASSUME NEW i \in DOMAIN snapshots, NEW k \in Keys
      PROVE  snapshots[i].values[k] = resolve(snapshots[i].project, setAt(snapshots[i].at)', k)
  <2>1. PICK m : m = snapshots[i].at
    OBVIOUS
  <2>2. m \in 1..n
    BY <1>1, <2>1 DEF HistoryTyped, ConfigTypeOK
  <2>3. snapshots[i].values[k] = resolve(snapshots[i].project, setAt(m), k)
    BY <2>1 DEF SnapshotsExplained
  <2> QED
    BY <1>3, <2>1, <2>2, <2>3
<1> QED
  BY <1>4 DEF SnapshotsExplained


-----------------------------------------------------------------------------
(* The requests between their read and their transaction *)

(* The dependency of the system scope is about that scope alone.           *)
LEMMA DependencyLocal ==
  ASSUME NEW u, NEW v, u["system"] = v["system"]
  PROVE  satisfied("system", u) <=> satisfied("system", v)
  BY DEF satisfied, resolve

(* A draft stays as it is, or gets the next version for the same scope.    *)
draftMoves(x) ==
  \/ draft'[x] = draft[x]
  \/ /\ draft[x].state # "none" /\ draft'[x].state # "none"
     /\ draft'[x].scope = draft[x].scope /\ draft'[x].base = draft[x].base
     /\ draft'[x].version = draft[x].version + 1
     /\ draft'[x].state = "draft" => draft[x].state = "draft"

historyMoves ==
  \/ UNCHANGED <<values, revisions, past>>
  \/ \E s \in Scopes : \E e, d, b, n : appended(n, s, e, d, b)

(* A scope that has its version again has not moved.                       *)
LEMMA ScopesMove ==
  ASSUME HistoryTyped, historyMoves, NEW t \in Scopes
  PROVE  /\ scopeVersion(t) \in Nat /\ scopeVersion(t)' \in Nat
         /\ scopeVersion(t) <= scopeVersion(t)'
         /\ scopeVersion(t)' = scopeVersion(t) => values'[t] = values[t]
         /\ \A r \in DOMAIN revisions :
              r \in DOMAIN revisions' /\ revisions'[r] = revisions[r] /\ past'[r] = past[r]
         /\ values' \in [Scopes -> Settings]
<1>1. scopeVersion(t) \in Nat /\ values \in [Scopes -> Settings]
  BY ScopesFinite DEF HistoryTyped, ConfigTypeOK, Settings
<1>2. CASE UNCHANGED <<values, revisions, past>>
  <2>1. scopeVersion(t)' = scopeVersion(t)
    BY <1>2 DEF scopeVersion, ofScope
  <2> QED
    BY <1>1, <1>2, <2>1
<1>3. ASSUME NEW s \in Scopes, NEW e, NEW d, NEW b, NEW n, appended(n, s, e, d, b)
      PROVE  /\ scopeVersion(t) \in Nat /\ scopeVersion(t)' \in Nat
             /\ scopeVersion(t) <= scopeVersion(t)'
             /\ scopeVersion(t)' = scopeVersion(t) => values'[t] = values[t]
             /\ \A r \in DOMAIN revisions :
                  r \in DOMAIN revisions' /\ revisions'[r] = revisions[r] /\ past'[r] = past[r]
             /\ values' \in [Scopes -> Settings]
  <2>1. /\ scopeVersion(t) \in Nat /\ scopeVersion(t)' \in Nat
        /\ scopeVersion(t) <= scopeVersion(t)'
        /\ t = s => scopeVersion(t)' = scopeVersion(t) + 1
    BY <1>3, ScopesAppended
  <2>2. /\ values' \in [Scopes -> Settings] /\ t # s => values'[t] = values[t]
        /\ n \in Nat /\ DOMAIN revisions = 1..n /\ DOMAIN revisions' = 1..(n + 1)
        /\ \A r \in 1..n : revisions'[r] = revisions[r] /\ past'[r] = past[r]
    BY <1>3 DEF appended
  <2>3. scopeVersion(t)' = scopeVersion(t) => t # s
    BY <2>1
  <2>4. values' \in [Scopes -> Settings] /\ (t # s => values'[t] = values[t])
    BY <1>3 DEF appended
  <2>5. \A r \in 1..n : r \in 1..(n + 1)
    BY <2>2
  <2> QED
    BY <2>1, <2>2, <2>3, <2>4, <2>5
<1> QED
  BY <1>2, <1>3 DEF historyMoves

(* What a request relies on survives what the others do.                   *)
LEMMA ReliesStep ==
  ASSUME HistoryTyped, DraftInv, historyMoves, draft' \in [Drafts -> Draft],
         NEW q \in Request, relies(q), q.op \in {"create", "update", "review", "apply"} => draftMoves(q.id)
  PROVE  relies(q)'
<1>1. /\ values \in [Scopes -> Settings] /\ draft \in [Drafts -> Draft]
      /\ q.scope \in Scopes /\ q.version \in Nat /\ q.entries \in Entries
      /\ "system" \in Scopes
  BY DEF HistoryTyped, ConfigTypeOK, Settings, Request, Scopes
<1>2. \A x \in Drafts : /\ draft[x].base \in Nat /\ draft[x].version \in Nat
                        /\ draft[x].scope \in Scopes
  BY <1>1 DEF Draft
<1>3. q.op = "create" => q.id \in Drafts /\ draft'[q.id].state = "none"
  BY DEF relies, draftMoves
<1>4. onDraft(q) => /\ q.id \in Drafts /\ draft'[q.id].state # "none"
                    /\ q.scope = draft'[q.id].scope /\ draft'[q.id].base = draft[q.id].base
  BY DEF relies, draftMoves, onDraft
<1>5. q.op = "review" /\ draft'[q.id].state = "draft" =>
        /\ q.version <= draft'[q.id].version
        /\ q.version = draft'[q.id].version => q.entries = draft'[q.id].entries
  <2>1. SUFFICES ASSUME q.op = "review", draft'[q.id].state = "draft"
                 PROVE  /\ q.version <= draft'[q.id].version
                        /\ q.version = draft'[q.id].version => q.entries = draft'[q.id].entries
    OBVIOUS
  <2>2. draft[q.id].state = "draft" /\ q.id \in Drafts
    BY <2>1 DEF relies, onDraft, draftMoves
  <2>3. /\ q.version <= draft[q.id].version
        /\ q.version = draft[q.id].version => q.entries = draft[q.id].entries
    BY <2>1, <2>2 DEF relies
  <2>4. draft'[q.id] = draft[q.id] \/ draft'[q.id].version = draft[q.id].version + 1
    BY <2>1 DEF draftMoves
  <2> QED
    BY <1>1, <1>2, <2>2, <2>3, <2>4
<1>6. q.op = "apply" /\ q.scope = "system" /\ unmoved("system", draft[q.id].base)' =>
        satisfied("system", apply(values', "system", q.entries))
  <2>1. SUFFICES ASSUME q.op = "apply", q.scope = "system",
                        scopeVersion("system")' = draft[q.id].base
                 PROVE  satisfied("system", apply(values', "system", q.entries))
    BY <1>4 DEF unmoved, onDraft
  <2>2. q.id \in Drafts /\ draft[q.id].state # "none" /\ draft[q.id].scope = "system"
    BY <2>1 DEF relies, onDraft
  <2>3. draft[q.id].base <= scopeVersion("system")
    BY <2>2 DEF DraftInv
  <2>4. /\ scopeVersion("system") \in Nat /\ scopeVersion("system")' \in Nat
        /\ scopeVersion("system") <= scopeVersion("system")'
        /\ scopeVersion("system")' = scopeVersion("system") => values'["system"] = values["system"]
        /\ values' \in [Scopes -> Settings]
    BY <1>1, ScopesMove
  <2>5. scopeVersion("system")' = scopeVersion("system")
    BY <1>2, <2>1, <2>2, <2>3, <2>4
  <2>6. satisfied("system", apply(values, "system", q.entries))
    BY <2>1, <2>5 DEF relies, unmoved
  <2>7. apply(values', "system", q.entries)["system"] = apply(values, "system", q.entries)["system"]
    BY <1>1, <2>4, <2>5, ApplyLocal
  <2> QED
    BY <2>6, <2>7, DependencyLocal
<1>7. onRevision(q) =>
        /\ q.id \in DOMAIN revisions' /\ revisions'[q.id].scope = q.scope
        /\ q.version <= scopeVersion(q.scope)'
  <2>1. SUFFICES ASSUME onRevision(q)
                 PROVE  /\ q.id \in DOMAIN revisions' /\ revisions'[q.id].scope = q.scope
                        /\ q.version <= scopeVersion(q.scope)'
    OBVIOUS
  <2>2. /\ q.id \in DOMAIN revisions /\ revisions[q.id].scope = q.scope
        /\ q.version <= scopeVersion(q.scope)
    BY <2>1 DEF relies
  <2>3. /\ scopeVersion(q.scope) \in Nat /\ scopeVersion(q.scope)' \in Nat
        /\ scopeVersion(q.scope) <= scopeVersion(q.scope)'
        /\ q.id \in DOMAIN revisions' /\ revisions'[q.id] = revisions[q.id]
    BY <1>1, <2>2, ScopesMove
  <2> QED
    BY <1>1, <2>2, <2>3
<1>8. q.op = "restore" /\ unmoved(q.scope, q.version)' =>
        apply(values', q.scope, q.entries)[q.scope] = past'[q.id]
  <2>1. SUFFICES ASSUME q.op = "restore", scopeVersion(q.scope)' = q.version
                 PROVE  apply(values', q.scope, q.entries)[q.scope] = past'[q.id]
    BY DEF unmoved
  <2>2. q.id \in DOMAIN revisions /\ q.version <= scopeVersion(q.scope)
    BY <2>1 DEF relies, onRevision
  <2>3. /\ scopeVersion(q.scope) \in Nat /\ scopeVersion(q.scope)' \in Nat
        /\ scopeVersion(q.scope) <= scopeVersion(q.scope)'
        /\ scopeVersion(q.scope)' = scopeVersion(q.scope) => values'[q.scope] = values[q.scope]
        /\ values' \in [Scopes -> Settings] /\ past'[q.id] = past[q.id]
    BY <1>1, <2>2, ScopesMove
  <2>4. scopeVersion(q.scope)' = scopeVersion(q.scope) /\ scopeVersion(q.scope) = q.version
    BY <1>1, <2>1, <2>2, <2>3
  <2>5. apply(values, q.scope, q.entries)[q.scope] = past[q.id]
    BY <2>1, <2>4 DEF relies, unmoved
  <2>6. apply(values', q.scope, q.entries)[q.scope] = apply(values, q.scope, q.entries)[q.scope]
    BY <1>1, <2>3, <2>4, ApplyLocal
  <2> QED
    BY <2>3, <2>5, <2>6
<1> QED
  BY <1>3, <1>4, <1>5, <1>6, <1>7, <1>8 DEF relies, onDraft, onRevision


(* A request that is answered relies on nothing.                           *)
LEMMA NothingAsked ==
  NoRequest \in Request /\ relies(NoRequest)' /\ NoRequest.op = "none"
<1>1. NoRequest.op = "none" /\ NoEntries \in Entries
  <2>1. {"waiver"} \in (SUBSET Keys) \ {{}}
    BY DEF Keys
  <2>2. NoEntries \in [{"waiver"} -> BOOLEAN \union {Unset}]
    BY DEF NoEntries
  <2> QED
    BY <2>1, <2>2 DEF Entries, NoRequest
<1>2. NoRequest \in Request
  BY <1>1 DEF NoRequest, Request, Scopes
<1> QED
  BY <1>1, <1>2 DEF relies, onDraft, onRevision

(* One administrator's request changes, the others rely on what they did.   *)
LEMMA RequestsStep ==
  ASSUME HistoryTyped, DraftInv, RequestInv, historyMoves, draft' \in [Drafts -> Draft],
         NEW a \in Admins, NEW x \in Request, relies(x)',
         requests' = [requests EXCEPT ![a] = x],
         \A b \in Admins :
           b # a /\ requests[b].op \in {"create", "update", "review", "apply"} =>
             draftMoves(requests[b].id),
         x.op = "create" => \A b \in Admins :
           b # a /\ requests[b].op = "create" => requests[b].id # x.id
  PROVE  RequestInv' /\ requests' \in [Admins -> Request]
<1>1. requests \in [Admins -> Request]
  BY DEF HistoryTyped, ConfigTypeOK
<1>2. /\ requests' \in [Admins -> Request] /\ requests'[a] = x
      /\ \A b \in Admins : b # a => requests'[b] = requests[b]
  BY <1>1
<1>3. ASSUME NEW b \in Admins
      PROVE  relies(requests[b])'
  <2>1. PICK q \in Request : q = requests'[b]
    BY <1>2
  <2>2. CASE b = a
    <3>1. q = x
      BY <1>2, <2>1, <2>2
    <3>2. relies(q)'
      BY <3>1
    <3> QED
      BY <2>1, <3>2 DEF relies, onDraft, onRevision
  <2>3. CASE b # a
    <3>1. q = requests[b]
      BY <1>2, <2>1, <2>3
    <3>2. relies(q)
      BY <3>1 DEF RequestInv
    <3>3. q.op \in {"create", "update", "review", "apply"} => draftMoves(q.id)
      BY <2>3, <3>1
    <3>4. relies(q)'
      BY <3>2, <3>3, ReliesStep
    <3> QED
      BY <2>1, <3>4 DEF relies, onDraft, onRevision
  <2> QED
    BY <2>2, <2>3
<1>4. ASSUME NEW b \in Admins, NEW c \in Admins, b # c,
             requests'[b].op = "create", requests'[c].op = "create"
      PROVE  requests'[b].id # requests'[c].id
  BY <1>2, <1>4 DEF RequestInv
<1> QED
  BY <1>2, <1>3, <1>4 DEF RequestInv

(* While the history stays, all that is said of it does.                   *)
LEMMA HistorySame ==
  ASSUME ConfigInv, UNCHANGED <<values, revisions, past>>
  PROVE  /\ VersionInv' /\ PresentInv' /\ DependencyInv' /\ HistoryReconstructs'
         /\ RollbackRestores' /\ historyMoves
         /\ UNCHANGED snapshots => SnapshotsExplained'
         /\ \A t : scopeVersion(t)' = scopeVersion(t)
<1> USE DEF ConfigInv
<1>1. \A t : ofScope(t)' = ofScope(t) /\ scopeVersion(t)' = scopeVersion(t)
  BY DEF ofScope, scopeVersion
<1>2. VersionInv'
  BY <1>1 DEF VersionInv
<1>3. PresentInv'
  BY <1>1 DEF PresentInv, settled, said
<1>4. DependencyInv'
  <2>1. satisfied("system", values) /\ values' = values /\ past' = past
    BY DEF DependencyInv, SystemScopeConsistent
  <2>2. SystemScopeConsistent'
    BY <2>1 DEF SystemScopeConsistent
  <2>3. \A r \in ofScope("system")' : keeps(past[r])'
    BY <1>1, <2>1 DEF DependencyInv
  <2> QED
    BY <2>2, <2>3 DEF DependencyInv
<1>5. \A r : atRevision(r)' = atRevision(r)
  <2>1. \A r, k : touching(r, k)' = touching(r, k)
    BY <1>1 DEF touching
  <2>2. ASSUME NEW r
        PROVE  /\ atRevision(r) =
                    [k \in Keys |-> IF touching(r, k) = {} THEN Unset
                                    ELSE revisions[greatest(touching(r, k))].entries[k]]
               /\ atRevision(r)' =
                    [k \in Keys |-> IF touching(r, k)' = {} THEN Unset
                                    ELSE revisions'[greatest(touching(r, k)')].entries[k]]
    BY DEF atRevision, greatest
  <2> QED
    BY <2>1, <2>2
<1>6. HistoryReconstructs' /\ RollbackRestores' /\ historyMoves
  BY <1>5 DEF HistoryReconstructs, RollbackRestores, historyMoves
<1>7. \A m : setAt(m)' = setAt(m)
  <2>1. ASSUME NEW m, NEW t \in Scopes
        PROVE  setAt(m)'[t] = setAt(m)[t]
    <3> DEFINE R == {r \in ofScope(t) : r <= m}
               at == IF R = {} THEN [k \in Keys |-> Unset] ELSE atRevision(greatest(R))
    <3>1. setAt(m)[t] = at /\ (setAt(m)[t] = at)'
      BY DEF setAt, greatest
    <3>2. R' = R
      BY <1>1
    <3>3. at' = at
      BY <1>5, <3>2
    <3> QED
      BY <3>1, <3>3
  <2>2. \A m : /\ setAt(m) = [t \in Scopes |-> setAt(m)[t]]
               /\ setAt(m)' = [t \in Scopes |-> setAt(m)'[t]]
    BY DEF setAt
  <2> QED
    BY <2>1, <2>2
<1>8. UNCHANGED snapshots => SnapshotsExplained'
  BY <1>7 DEF SnapshotsExplained
<1> QED
  BY <1>1, <1>2, <1>3, <1>4, <1>6, <1>8

(* A request asks for something, or computes what it will ask for.         *)
LEMMA AskStep ==
  ASSUME ConfigInv, NEW a \in Admins, NEW q \in Request, relies(q),
         requests' = [requests EXCEPT ![a] = q],
         UNCHANGED <<values, revisions, past, draft, snapshots>>,
         q.op = "create" => \A b \in Admins : b # a => requests[b].id # q.id
  PROVE  ConfigInv'
<1> USE DEF ConfigInv
<1>1. /\ VersionInv' /\ PresentInv' /\ DependencyInv' /\ HistoryReconstructs'
      /\ RollbackRestores' /\ historyMoves /\ SnapshotsExplained'
      /\ \A t : scopeVersion(t)' = scopeVersion(t)
  BY HistorySame
<1>2. DraftInv' /\ draft' \in [Drafts -> Draft] /\ \A x : draftMoves(x)
  BY <1>1 DEF DraftInv, HistoryTyped, ConfigTypeOK, draftMoves
<1>3. relies(q)'
  BY <1>1, <1>2, ReliesStep
<1>4. RequestInv' /\ requests' \in [Admins -> Request]
  BY <1>1, <1>2, <1>3, RequestsStep
<1>5. HistoryTyped'
  BY <1>2, <1>4 DEF HistoryTyped, ConfigTypeOK
<1> QED
  BY <1>1, <1>2, <1>4, <1>5

(* A transaction on one draft answers the request it is for.               *)
LEMMA DraftStep ==
  ASSUME ConfigInv, DraftInv', draft' \in [Drafts -> Draft], NEW a \in Admins, answeredAdmin(a),
         UNCHANGED <<values, revisions, past, snapshots>>,
         \A b \in Admins :
           b # a /\ requests[b].op \in {"create", "update", "review", "apply"} =>
             draftMoves(requests[b].id)
  PROVE  ConfigInv'
<1> USE DEF ConfigInv
<1>1. /\ VersionInv' /\ PresentInv' /\ DependencyInv' /\ HistoryReconstructs'
      /\ RollbackRestores' /\ historyMoves /\ SnapshotsExplained'
  BY HistorySame
<1>2. NoRequest \in Request /\ relies(NoRequest)' /\ NoRequest.op = "none"
  BY NothingAsked
<1>3. requests' = [requests EXCEPT ![a] = NoRequest]
  BY DEF answeredAdmin
<1>4. RequestInv' /\ requests' \in [Admins -> Request]
  BY <1>1, <1>2, <1>3, RequestsStep
<1>5. HistoryTyped'
  BY <1>4 DEF HistoryTyped, ConfigTypeOK
<1> QED
  BY <1>1, <1>4, <1>5


-----------------------------------------------------------------------------
(* The steps of the registry *)

(* What a request asks for is a request, and applying valid entries to the   *)
(* system keeps the dependency: any entries touch one of its two settings.  *)
LEMMA RequestAsked ==
  ASSUME ConfigInv, NEW s \in Scopes, NEW e \in Entries, valid(s, e)
  PROVE  /\ scopeVersion(s) \in Nat
         /\ s = "system" => satisfied("system", apply(values, "system", e))
<1>1. impacted(e)
  BY EntriesName DEF impacted, Keys
<1>2. scopeVersion(s) \in Nat
  BY ScopesFinite DEF ConfigInv, HistoryTyped
<1> QED
  BY <1>1, <1>2 DEF valid

(* An export names settings with a value.                                  *)
LEMMA ExportNames ==
  ASSUME ConfigInv, NEW r \in DOMAIN revisions, DOMAIN ExportScope(r) # {}
  PROVE  ExportScope(r) \in Entries /\ revisions[r].scope \in Scopes
<1>1. past[r] \in Settings /\ revisions[r] \in Revision
  <2>1. DOMAIN revisions = 1..Len(revisions)
    BY ScopesFinite DEF ConfigInv, HistoryTyped
  <2> QED
    BY <2>1 DEF ConfigInv, HistoryTyped
<1> DEFINE K == {k \in Keys : past[r][k] # Unset}
<1>2. ExportScope(r) = [k \in K |-> past[r][k]]
  BY DEF ExportScope
<1>3. K \in (SUBSET Keys) \ {{}}
  BY <1>2
<1>4. ExportScope(r) \in [K -> BOOLEAN \union {Unset}]
  BY <1>1, <1>2 DEF Settings
<1> QED
  BY <1>1, <1>3, <1>4 DEF Entries, Revision

(* The difference to the values of a moment leads back to them.            *)
LEMMA ChangesRestore ==
  ASSUME NEW vals \in [Scopes -> Settings], NEW s \in Scopes, NEW target \in Settings,
         DOMAIN changes(target, vals[s]) # {}
  PROVE  /\ changes(target, vals[s]) \in Entries
         /\ apply(vals, s, changes(target, vals[s]))[s] = target
<1> DEFINE c == changes(target, vals[s])
           K == {k \in Keys : target[k] # vals[s][k]}
<1>1. c = [k \in K |-> target[k]]
  BY DEF changes
<1>2. K \in (SUBSET Keys) \ {{}}
  BY <1>1
<1>3. c \in [K -> BOOLEAN \union {Unset}]
  BY <1>1 DEF Settings
<1>4. c \in Entries
  BY <1>2, <1>3 DEF Entries
<1>5. apply(vals, s, c) \in [Scopes -> Settings]
        /\ \A k \in Keys : apply(vals, s, c)[s][k] = IF k \in DOMAIN c THEN c[k] ELSE vals[s][k]
  BY <1>4, ApplyEffect
<1>6. \A k \in Keys : apply(vals, s, c)[s][k] = target[k]
  BY <1>1, <1>5
<1>7. apply(vals, s, c)[s] \in Settings
  BY <1>5
<1>8. apply(vals, s, c)[s] = target
  BY <1>6, <1>7 DEF Settings
<1> QED
  BY <1>4, <1>8

LEMMA CreateDraftStep ==
  ASSUME ConfigInv, NEW a \in Admins, CreateDraft(a) \/ ImportDraft(a)
  PROVE  ConfigInv'
<1>1. PICK d \in Drafts, s \in Scopes, e \in Entries :
        fresh(d) /\ asks(a, "create", s, scopeVersion(s), e, d)
  <2>1. CASE CreateDraft(a)
    <3>1. Edits \subseteq Entries
      BY RegistryAssumption
    <3> QED
      BY <2>1, <3>1 DEF CreateDraft
  <2>2. CASE ImportDraft(a)
    <3>1. PICK d \in Drafts, r \in DOMAIN revisions :
            /\ DOMAIN ExportScope(r) # {} /\ fresh(d)
            /\ asks(a, "create", revisions[r].scope, scopeVersion(revisions[r].scope),
                    ExportScope(r), d)
      BY <2>2 DEF ImportDraft
    <3>2. ExportScope(r) \in Entries /\ revisions[r].scope \in Scopes
      BY <3>1, ExportNames
    <3> QED
      BY <3>1, <3>2
  <2> QED
    BY <2>1, <2>2
<1> DEFINE q == [op |-> "create", scope |-> s, version |-> scopeVersion(s), entries |-> e, id |-> d]
<1>2. /\ requests' = [requests EXCEPT ![a] = q]
      /\ UNCHANGED <<values, revisions, past, draft, snapshots>>
  BY <1>1 DEF asks
<1>3. scopeVersion(s) \in Nat
  BY ScopesFinite DEF ConfigInv, HistoryTyped
<1>4. q \in Request /\ q.op = "create" /\ q.id = d
  BY <1>3 DEF Request
<1> HIDE DEF q
<1>5. draft[d].state = "none" /\ \A b \in Admins : requests[b].id # d
  BY <1>1 DEF fresh
<1>6. relies(q)
  BY <1>4, <1>5 DEF relies, onDraft, onRevision
<1> QED
  BY <1>2, <1>4, <1>5, <1>6, AskStep

LEMMA UpdateDraftStep ==
  ASSUME ConfigInv, NEW a \in Admins, UpdateDraft(a)
  PROVE  ConfigInv'
<1>1. PICK d \in Drafts, e \in Edits :
        /\ draft[d].state = "draft"
        /\ asks(a, "update", draft[d].scope, draft[d].version, e, d)
  BY DEF UpdateDraft
<1> DEFINE q == [op |-> "update", scope |-> draft[d].scope, version |-> draft[d].version,
                 entries |-> e, id |-> d]
<1>2. /\ requests' = [requests EXCEPT ![a] = q]
      /\ UNCHANGED <<values, revisions, past, draft, snapshots>>
  BY <1>1 DEF asks
<1>3. e \in Entries /\ draft[d] \in Draft
  BY RegistryAssumption DEF ConfigInv, HistoryTyped, ConfigTypeOK
<1>4. q \in Request /\ q.op = "update" /\ q.id = d /\ q.scope = draft[d].scope
  BY <1>3 DEF Request, Draft
<1> HIDE DEF q
<1>5. relies(q)
  BY <1>1, <1>4 DEF relies, onDraft, onRevision
<1> QED
  BY <1>2, <1>4, <1>5, AskStep

LEMMA ReviewDraftStep ==
  ASSUME ConfigInv, NEW a \in Admins, ReviewDraft(a)
  PROVE  ConfigInv'
<1>1. PICK d \in Drafts :
        /\ draft[d].state = "draft"
        /\ asks(a, "review", draft[d].scope, draft[d].version, draft[d].entries, d)
  BY DEF ReviewDraft
<1> DEFINE q == [op |-> "review", scope |-> draft[d].scope, version |-> draft[d].version,
                 entries |-> draft[d].entries, id |-> d]
<1>2. /\ requests' = [requests EXCEPT ![a] = q]
      /\ UNCHANGED <<values, revisions, past, draft, snapshots>>
  BY <1>1 DEF asks
<1>3. draft[d] \in Draft
  BY DEF ConfigInv, HistoryTyped, ConfigTypeOK
<1>4. /\ q \in Request /\ q.op = "review" /\ q.id = d /\ q.scope = draft[d].scope
      /\ q.version = draft[d].version /\ q.entries = draft[d].entries /\ q.version \in Nat
  BY <1>3 DEF Request, Draft
<1> HIDE DEF q
<1>5. relies(q)
  BY <1>1, <1>4 DEF relies, onDraft, onRevision
<1> QED
  BY <1>2, <1>4, <1>5, AskStep

LEMMA ApplyDraftStep ==
  ASSUME ConfigInv, NEW a \in Admins, ApplyDraft(a)
  PROVE  ConfigInv'
<1>1. PICK d \in Drafts :
        /\ draft[d].state = "reviewed" /\ valid(draft[d].scope, draft[d].entries)
        /\ asks(a, "apply", draft[d].scope, draft[d].version, draft[d].entries, d)
  BY DEF ApplyDraft
<1> DEFINE q == [op |-> "apply", scope |-> draft[d].scope, version |-> draft[d].version,
                 entries |-> draft[d].entries, id |-> d]
<1>2. /\ requests' = [requests EXCEPT ![a] = q]
      /\ UNCHANGED <<values, revisions, past, draft, snapshots>>
  BY <1>1 DEF asks
<1>3. draft[d] \in Draft
  BY DEF ConfigInv, HistoryTyped, ConfigTypeOK
<1>4. /\ q \in Request /\ q.op = "apply" /\ q.id = d /\ q.scope = draft[d].scope
      /\ q.entries = draft[d].entries
      /\ draft[d].scope \in Scopes /\ draft[d].entries \in Entries
  BY <1>3 DEF Request, Draft
<1> HIDE DEF q
<1>5. q.scope = "system" => satisfied("system", apply(values, "system", q.entries))
  BY <1>1, <1>4, RequestAsked
<1>6. relies(q)
  BY <1>1, <1>4, <1>5 DEF relies, onDraft, onRevision
<1> QED
  BY <1>2, <1>4, <1>6, AskStep

LEMMA RollbackStep ==
  ASSUME ConfigInv, NEW a \in Admins, Rollback(a)
  PROVE  ConfigInv'
<1>1. PICK r \in DOMAIN revisions :
        asks(a, "rollback", revisions[r].scope, scopeVersion(revisions[r].scope), NoEntries, r)
  BY DEF Rollback
<1> DEFINE s == revisions[r].scope
           q == [op |-> "rollback", scope |-> s, version |-> scopeVersion(s),
                 entries |-> NoEntries, id |-> r]
<1>2. /\ requests' = [requests EXCEPT ![a] = q]
      /\ UNCHANGED <<values, revisions, past, draft, snapshots>>
  BY <1>1 DEF asks
<1>3. r \in Nat /\ s \in Scopes /\ scopeVersion(s) \in Nat
  <2>1. DOMAIN revisions = 1..Len(revisions) /\ revisions[r] \in Revision /\ scopeVersion(s) \in Nat
    BY ScopesFinite DEF ConfigInv, HistoryTyped
  <2> QED
    BY <2>1 DEF Revision
<1>4. NoEntries \in Entries
  <2>1. NoRequest \in Request /\ NoRequest.entries = NoEntries
    BY NothingAsked DEF NoRequest
  <2> QED
    BY <2>1 DEF Request
<1>5. q \in Request /\ q.op = "rollback" /\ q.id = r /\ q.scope = s /\ q.version = scopeVersion(s)
  BY <1>3, <1>4 DEF Request
<1> HIDE DEF q
<1>6. q.version <= scopeVersion(q.scope)
  BY <1>3, <1>5
<1>7. relies(q)
  BY <1>5, <1>6 DEF relies, onDraft, onRevision
<1> QED
  BY <1>2, <1>5, <1>7, AskStep

LEMMA RollbackReadsValuesStep ==
  ASSUME ConfigInv, NEW a \in Admins, RollbackReadsValues(a)
  PROVE  ConfigInv'
<1>1. PICK q \in Request : q = requests[a]
  BY DEF ConfigInv, HistoryTyped, ConfigTypeOK
<1> DEFINE c == changes(atRevision(q.id), values[q.scope])
<1>2. /\ q.op = "rollback"
      /\ requests' = [requests EXCEPT ![a] =
           IF DOMAIN c = {} THEN NoRequest ELSE [q EXCEPT !.op = "restore", !.entries = c]]
      /\ UNCHANGED <<values, revisions, past, draft, snapshots>>
  BY <1>1 DEF RollbackReadsValues
<1>3. CASE DOMAIN c = {}
  <2>1. NoRequest \in Request /\ NoRequest.op = "none"
    BY NothingAsked
  <2>2. relies(NoRequest)
    BY <2>1 DEF relies, onDraft, onRevision
  <2> QED
    BY <1>2, <1>3, <2>1, <2>2, AskStep
<1>4. CASE DOMAIN c # {}
  <2>1. /\ q.id \in DOMAIN revisions /\ revisions[q.id].scope = q.scope
        /\ q.version <= scopeVersion(q.scope) /\ q.scope \in Scopes
    BY <1>1, <1>2 DEF ConfigInv, RequestInv, relies, onRevision, Request
  <2>2. atRevision(q.id) = past[q.id] /\ values \in [Scopes -> Settings]
    BY <2>1 DEF ConfigInv, HistoryReconstructs, HistoryTyped, ConfigTypeOK, Settings
  <2>3. past[q.id] \in Settings
    <3>1. DOMAIN revisions = 1..Len(revisions)
      BY ScopesFinite DEF ConfigInv, HistoryTyped
    <3> QED
      BY <2>1, <3>1 DEF ConfigInv, HistoryTyped
  <2>4. c \in Entries /\ apply(values, q.scope, c)[q.scope] = past[q.id]
    <3>1. c = changes(past[q.id], values[q.scope])
      BY <2>2
    <3>2. DOMAIN changes(past[q.id], values[q.scope]) # {}
      BY <1>4, <3>1
    <3>3. /\ changes(past[q.id], values[q.scope]) \in Entries
          /\ apply(values, q.scope, changes(past[q.id], values[q.scope]))[q.scope] = past[q.id]
      BY <2>1, <2>2, <2>3, <3>2, ChangesRestore
    <3> QED
      BY <3>1, <3>3
  <2> HIDE DEF c
  <2> DEFINE x == [q EXCEPT !.op = "restore", !.entries = c]
  <2>5. /\ x \in Request /\ x.op = "restore" /\ x.entries = c /\ x.id = q.id
        /\ x.scope = q.scope /\ x.version = q.version
    BY <2>4 DEF Request
  <2>6. requests' = [requests EXCEPT ![a] = x]
    BY <1>2, <1>4
  <2> HIDE DEF x
  <2>7. relies(x)
    BY <2>1, <2>4, <2>5 DEF relies, onDraft, onRevision
  <2> QED
    BY <1>2, <2>5, <2>6, <2>7, AskStep
<1> QED
  BY <1>3, <1>4


(* Drafts that are not applied may change, within what is said of drafts.   *)
LEMMA DraftInvStep ==
  ASSUME ConfigInv, UNCHANGED <<values, revisions, past>>, NEW d \in Drafts,
         \A x \in Drafts : x # d => draft'[x] = draft[x],
         draft[d].state # "applied",
         draft'[d].state # "none" => draft'[d].base <= scopeVersion(draft'[d].scope),
         draft'[d].state \in {"reviewed", "applied"} => draft'[d].approved = draft'[d].entries
  PROVE  DraftInv'
<1>1. \A t : scopeVersion(t)' = scopeVersion(t)
  BY HistorySame
<1>2. DraftInv
  BY DEF ConfigInv
<1>3. ASSUME NEW x \in Drafts
      PROVE  /\ draft'[x].state # "none" => draft'[x].base <= scopeVersion(draft'[x].scope)
             /\ draft'[x].state \in {"reviewed", "applied"} => draft'[x].approved = draft'[x].entries
  BY <1>2 DEF DraftInv
<1>4. \A r \in DOMAIN revisions : revisions[r].draft # "none" => revisions[r].draft \in Drafts
  BY DEF ConfigInv, HistoryTyped, ConfigTypeOK
<1>5. ASSUME NEW r \in DOMAIN revisions, revisions[r].draft # "none"
      PROVE  /\ draft'[revisions[r].draft].state = "applied"
             /\ revisions[r].entries = draft'[revisions[r].draft].approved
  BY <1>2, <1>4, <1>5 DEF DraftInv
<1>6. ASSUME NEW x \in Drafts
      PROVE  (/\ draft[x].state # "none" => draft[x].base <= scopeVersion(draft[x].scope)
              /\ draft[x].state \in {"reviewed", "applied"} => draft[x].approved = draft[x].entries)'
  <2>1. PICK t : t = draft'[x].scope
    OBVIOUS
  <2>2. scopeVersion(t)' = scopeVersion(t)
    BY <1>1
  <2> QED
    BY <1>3, <2>1, <2>2 DEF scopeVersion, ofScope
<1> QED
  BY <1>5, <1>6 DEF DraftInv

(* A draft a request is about is one there is.                             *)
LEMMA RequestOnDraft ==
  ASSUME ConfigInv, NEW a \in Admins
  PROVE  /\ requests[a] \in Request /\ relies(requests[a])
         /\ requests[a].op \in {"create", "update", "review", "apply"} =>
              requests[a].id \in Drafts /\ draft[requests[a].id] \in Draft
<1>1. requests[a] \in Request /\ relies(requests[a])
  BY DEF ConfigInv, HistoryTyped, ConfigTypeOK, RequestInv
<1>2. requests[a].op \in {"create", "update", "review", "apply"} => requests[a].id \in Drafts
  BY <1>1 DEF relies, onDraft
<1> QED
  BY <1>1, <1>2 DEF ConfigInv, HistoryTyped, ConfigTypeOK

(* A draft that changes its state keeps the rest, under the next version.   *)
movedTo(x, r, st) == x = [r EXCEPT !.version = @ + 1, !.state = st]

LEMMA StateMoved ==
  ASSUME NEW r \in Draft, NEW st \in {"none", "draft", "reviewed", "applied", "discarded"},
         NEW x, movedTo(x, r, st)
  PROVE  /\ x \in Draft /\ x.state = st /\ x.version = r.version + 1
         /\ x.scope = r.scope /\ x.base = r.base /\ x.entries = r.entries /\ x.approved = r.approved
<1>1. x = [state |-> st, scope |-> r.scope, base |-> r.base, version |-> r.version + 1,
           entries |-> r.entries, approved |-> r.approved]
  BY DEF Draft, movedTo
<1>2. r.version + 1 \in Nat
  BY DEF Draft
<1> QED
  BY <1>1, <1>2 DEF Draft

(* Answering a request that finds its scope or its draft moved changes       *)
(* nothing else.                                                           *)
LEMMA RefusedStep ==
  ASSUME ConfigInv, NEW a \in Admins, answeredAdmin(a),
         UNCHANGED <<values, revisions, past, draft, snapshots>>
  PROVE  ConfigInv'
<1>1. draft' \in [Drafts -> Draft] /\ \A x : draftMoves(x)
  BY DEF ConfigInv, HistoryTyped, ConfigTypeOK, draftMoves
<1>2. DraftInv'
  <2>1. \A t : scopeVersion(t)' = scopeVersion(t)
    BY HistorySame
  <2> QED
    BY <2>1 DEF ConfigInv, DraftInv
<1> QED
  BY <1>1, <1>2, DraftStep

LEMMA CreateConfigDraftStep ==
  ASSUME ConfigInv, NEW a \in Admins, CreateConfigDraft(a)
  PROVE  ConfigInv'
<1>1. PICK q \in Request : q = requests[a]
  BY RequestOnDraft
<1>2. q.op = "create" /\ q.id \in Drafts /\ draft[q.id].state = "none"
  BY <1>1, RequestOnDraft DEF CreateConfigDraft, relies
<1>3. answeredAdmin(a) /\ UNCHANGED <<values, revisions, past, snapshots>>
  BY DEF CreateConfigDraft
<1>4. CASE UNCHANGED draft
  BY <1>3, <1>4, RefusedStep
<1>5. CASE ~UNCHANGED draft
  <2> DEFINE x == [state |-> "draft", scope |-> q.scope, base |-> q.version, version |-> 1,
                   entries |-> q.entries, approved |-> NoEntries]
  <2>1. unmoved(q.scope, q.version) /\ draft' = [draft EXCEPT ![q.id] = x]
    BY <1>1, <1>5 DEF CreateConfigDraft
  <2>2. NoEntries \in Entries
    <3>1. NoRequest \in Request /\ NoRequest.entries = NoEntries
      BY NothingAsked DEF NoRequest
    <3> QED
      BY <3>1 DEF Request
  <2>3. x \in Draft /\ x.state = "draft" /\ x.base = q.version /\ x.scope = q.scope
    BY <2>2 DEF Draft, Request
  <2> HIDE DEF x
  <2>4. draft \in [Drafts -> Draft]
    BY DEF ConfigInv, HistoryTyped, ConfigTypeOK
  <2>5. /\ draft' \in [Drafts -> Draft] /\ draft'[q.id] = x
        /\ \A d \in Drafts : d # q.id => draft'[d] = draft[d]
    BY <1>2, <2>1, <2>3, <2>4
  <2>6. draft'[q.id].base <= scopeVersion(draft'[q.id].scope)
    <3>1. scopeVersion(q.scope) = q.version /\ q.version \in Nat
      BY <2>1 DEF unmoved, Request
    <3> QED
      BY <2>3, <2>5, <3>1
  <2>7. DraftInv'
    BY <1>2, <1>3, <2>3, <2>5, <2>6, DraftInvStep
  <2>8. ASSUME NEW b \in Admins, b # a, requests[b].op \in {"create", "update", "review", "apply"}
        PROVE  draftMoves(requests[b].id)
    <3>1. requests[b].id \in Drafts /\ requests[b].id # q.id
      BY <1>1, <1>2, <2>8, RequestOnDraft DEF ConfigInv, RequestInv, relies, onDraft
    <3> QED
      BY <2>5, <3>1 DEF draftMoves
  <2> QED
    BY <1>3, <2>5, <2>7, <2>8, DraftStep
<1> QED
  BY <1>4, <1>5

(* A draft that is moved on leaves the requests about it with less to do.    *)
LEMMA DraftMovesStep ==
  ASSUME ConfigInv, NEW d \in Drafts, draft' \in [Drafts -> Draft],
         \A x \in Drafts : x # d => draft'[x] = draft[x], draftMoves(d),
         NEW b \in Admins, requests[b].op \in {"create", "update", "review", "apply"}
  PROVE  draftMoves(requests[b].id)
<1>1. requests[b].id \in Drafts
  BY RequestOnDraft
<1> QED
  BY <1>1 DEF draftMoves

LEMMA UpdateConfigDraftStep ==
  ASSUME ConfigInv, NEW a \in Admins, UpdateConfigDraft(a)
  PROVE  ConfigInv'
<1>1. PICK q \in Request : q = requests[a]
  BY RequestOnDraft
<1>2. q.op = "update" /\ q.id \in Drafts /\ draft[q.id] \in Draft
  BY <1>1, RequestOnDraft DEF UpdateConfigDraft
<1>3. answeredAdmin(a) /\ UNCHANGED <<values, revisions, past, snapshots>>
  BY DEF UpdateConfigDraft
<1>4. CASE UNCHANGED draft
  BY <1>3, <1>4, RefusedStep
<1>5. CASE ~UNCHANGED draft
  <2> DEFINE d == q.id
  <2>1. /\ draft[d].state = "draft"
        /\ draft' = [draft EXCEPT ![d].version = @ + 1, ![d].entries = q.entries]
    BY <1>1, <1>5 DEF UpdateConfigDraft, mayUpdate
  <2>2. draft \in [Drafts -> Draft] /\ q.entries \in Entries
    BY DEF ConfigInv, HistoryTyped, ConfigTypeOK, Request
  <2>3. /\ draft'[d] = [draft[d] EXCEPT !.version = @ + 1, !.entries = q.entries]
        /\ \A x \in Drafts : x # d => draft'[x] = draft[x]
        /\ DOMAIN draft' = Drafts /\ draft' = [x \in Drafts |-> draft'[x]]
    BY <1>2, <2>1, <2>2
  <2>4. /\ draft'[d] \in Draft /\ draft'[d].state = "draft" /\ draft'[d].base = draft[d].base
        /\ draft'[d].scope = draft[d].scope /\ draft'[d].version = draft[d].version + 1
    <3>1. PICK r \in Draft : r = draft[d]
      BY <1>2
    <3>2. draft'[d] = [state |-> r.state, scope |-> r.scope, base |-> r.base,
                       version |-> r.version + 1, entries |-> q.entries, approved |-> r.approved]
      BY <2>3, <3>1 DEF Draft
    <3>3. r.version + 1 \in Nat
      BY DEF Draft
    <3> QED
      BY <2>1, <2>2, <3>1, <3>2, <3>3 DEF Draft
  <2>5. draft' \in [Drafts -> Draft]
    BY <2>2, <2>3, <2>4
  <2>6. draftMoves(d)
    BY <2>1, <2>4 DEF draftMoves
  <2>7. draft[d].base <= scopeVersion(draft[d].scope)
    BY <1>2, <2>1 DEF ConfigInv, DraftInv
  <2>8. DraftInv'
    BY <1>2, <1>3, <2>1, <2>3, <2>4, <2>7, DraftInvStep
  <2> QED
    BY <1>2, <1>3, <2>3, <2>5, <2>6, <2>8, DraftStep, DraftMovesStep
<1> QED
  BY <1>4, <1>5

LEMMA TransitionConfigDraftStep ==
  ASSUME ConfigInv, NEW a \in Admins, TransitionConfigDraft(a)
  PROVE  ConfigInv'
<1>1. PICK q \in Request : q = requests[a]
  BY RequestOnDraft
<1>2. q.op = "review" /\ q.id \in Drafts /\ draft[q.id] \in Draft /\ relies(q)
  BY <1>1, RequestOnDraft DEF TransitionConfigDraft
<1>3. answeredAdmin(a) /\ UNCHANGED <<values, revisions, past, snapshots>>
  BY DEF TransitionConfigDraft
<1>4. CASE UNCHANGED draft
  BY <1>3, <1>4, RefusedStep
<1>5. CASE ~UNCHANGED draft
  <2> DEFINE d == q.id
  <2>1. /\ draft[d].state = "draft" /\ draft[d].version = q.version
        /\ draft' = [draft EXCEPT ![d].version = @ + 1, ![d].state = "reviewed",
                                  ![d].approved = q.entries]
    BY <1>1, <1>5 DEF TransitionConfigDraft, mayTransition, isVersion
  <2>2. draft \in [Drafts -> Draft] /\ q.entries \in Entries /\ q.entries = draft[d].entries
    BY <1>2, <2>1 DEF ConfigInv, HistoryTyped, ConfigTypeOK, Request, relies
  <2>3. /\ draft'[d] = [draft[d] EXCEPT !.version = @ + 1, !.state = "reviewed",
                                        !.approved = q.entries]
        /\ \A x \in Drafts : x # d => draft'[x] = draft[x]
        /\ DOMAIN draft' = Drafts /\ draft' = [x \in Drafts |-> draft'[x]]
    BY <1>2, <2>1, <2>2
  <2>4. /\ draft'[d] \in Draft /\ draft'[d].state = "reviewed" /\ draft'[d].base = draft[d].base
        /\ draft'[d].scope = draft[d].scope /\ draft'[d].version = draft[d].version + 1
        /\ draft'[d].approved = q.entries /\ draft'[d].entries = draft[d].entries
    <3>1. PICK r \in Draft : r = draft[d]
      BY <1>2
    <3>2. draft'[d] = [state |-> "reviewed", scope |-> r.scope, base |-> r.base,
                       version |-> r.version + 1, entries |-> r.entries, approved |-> q.entries]
      BY <2>3, <3>1 DEF Draft
    <3>3. r.version + 1 \in Nat
      BY DEF Draft
    <3> QED
      BY <2>1, <2>2, <3>1, <3>2, <3>3 DEF Draft
  <2>5. draft' \in [Drafts -> Draft]
    BY <2>2, <2>3, <2>4
  <2>6. draftMoves(d)
    BY <2>1, <2>4 DEF draftMoves
  <2>7. draft[d].base <= scopeVersion(draft[d].scope)
    BY <1>2, <2>1 DEF ConfigInv, DraftInv
  <2>8. DraftInv'
    <3>1. /\ draft[d].state # "applied" /\ d \in Drafts
          /\ draft'[d].base <= scopeVersion(draft'[d].scope)
          /\ draft'[d].approved = draft'[d].entries
      BY <1>2, <2>1, <2>2, <2>4, <2>7
    <3> QED
      BY <1>3, <2>3, <3>1, DraftInvStep
  <2> QED
    BY <1>2, <1>3, <2>3, <2>5, <2>6, <2>8, DraftStep, DraftMovesStep
<1> QED
  BY <1>4, <1>5

LEMMA DiscardStep ==
  ASSUME ConfigInv, NEW d \in Drafts, Discard(d)
  PROVE  ConfigInv'
<1>1. /\ draft[d].state \in {"draft", "reviewed"}
      /\ draft' = [draft EXCEPT ![d].version = @ + 1, ![d].state = "discarded"]
      /\ UNCHANGED <<values, revisions, past, snapshots, requests>>
  BY DEF Discard, mayTransition
<1>2. draft \in [Drafts -> Draft] /\ draft[d] \in Draft
  BY DEF ConfigInv, HistoryTyped, ConfigTypeOK
<1>3. /\ draft'[d] = [draft[d] EXCEPT !.version = @ + 1, !.state = "discarded"]
      /\ \A x \in Drafts : x # d => draft'[x] = draft[x]
      /\ DOMAIN draft' = Drafts /\ draft' = [x \in Drafts |-> draft'[x]]
  BY <1>1, <1>2
<1>4. /\ draft'[d] \in Draft /\ draft'[d].state = "discarded" /\ draft'[d].base = draft[d].base
      /\ draft'[d].scope = draft[d].scope /\ draft'[d].version = draft[d].version + 1
  <2>1. movedTo(draft'[d], draft[d], "discarded")
    BY <1>3 DEF movedTo
  <2> QED
    BY <1>2, <2>1, StateMoved
<1>5. draft' \in [Drafts -> Draft]
  BY <1>2, <1>3, <1>4
<1>6. draftMoves(d)
  BY <1>1, <1>4 DEF draftMoves
<1>7. draft[d].base <= scopeVersion(draft[d].scope)
  BY <1>1 DEF ConfigInv, DraftInv
<1>8. DraftInv'
  BY <1>1, <1>3, <1>4, <1>7, DraftInvStep
<1>9. /\ VersionInv' /\ PresentInv' /\ DependencyInv' /\ HistoryReconstructs'
      /\ RollbackRestores' /\ historyMoves /\ SnapshotsExplained'
  BY <1>1, HistorySame
<1>10. RequestInv'
  <2>1. ASSUME NEW b \in Admins
        PROVE  relies(requests[b])'
    <3>1. PICK q \in Request : q = requests[b]
      BY RequestOnDraft
    <3>2. q.op \in {"create", "update", "review", "apply"} => draftMoves(q.id)
      BY <1>3, <1>5, <1>6, <3>1, DraftMovesStep
    <3>3. relies(q)
      BY <3>1, RequestOnDraft
    <3>4. relies(q)'
      BY <1>5, <1>9, <3>2, <3>3, ReliesStep DEF ConfigInv
    <3> QED
      BY <1>1, <3>1, <3>4 DEF relies, onDraft, onRevision
  <2> QED
    BY <1>1, <2>1 DEF RequestInv, ConfigInv
<1>11. HistoryTyped'
  BY <1>1, <1>5 DEF ConfigInv, HistoryTyped, ConfigTypeOK
<1> QED
  BY <1>8, <1>9, <1>10, <1>11 DEF ConfigInv


(* A revision that keeps the system's dependency, and is what it says to     *)
(* have rolled back to, keeps the history true.                            *)
LEMMA AppendStep ==
  ASSUME ConfigInv, NEW a \in Admins, answeredAdmin(a), UNCHANGED snapshots,
         NEW s \in Scopes, NEW e \in Entries, NEW d \in Drafts \union {"none"}, NEW n,
         NEW b, b \in {0} \union DOMAIN revisions, appended(n, s, e, d, b),
         s = "system" => satisfied("system", values'),
         b # 0 => past[b] = values'[s],
         draft' \in [Drafts -> Draft], DraftInv',
         \A c \in Admins :
           c # a /\ requests[c].op \in {"create", "update", "review", "apply"} =>
             draftMoves(requests[c].id)
  PROVE  ConfigInv'
<1> USE DEF ConfigInv
<1>1. /\ n \in Nat /\ n = Len(revisions) /\ DOMAIN revisions = 1..n /\ DOMAIN revisions' = 1..(n + 1)
      /\ Len(revisions') = n + 1 /\ Len(past') = n + 1
      /\ revisions' \in Seq(Revision) /\ past' \in Seq(Settings)
      /\ \A r \in 1..n : revisions'[r] = revisions[r] /\ past'[r] = past[r]
      /\ revisions'[n + 1].rollbackOf = b /\ past'[n + 1] = values'[s]
      /\ values' \in [Scopes -> Settings]
      /\ \A t \in Scopes : t # s => values'[t] = values[t]
  BY DEF appended
<1>2. historyMoves
  BY DEF historyMoves
<1>3. RequestInv' /\ requests' \in [Admins -> Request]
  <2>1. NoRequest \in Request /\ relies(NoRequest)' /\ NoRequest.op = "none"
    BY NothingAsked
  <2>2. requests' = [requests EXCEPT ![a] = NoRequest]
    BY DEF answeredAdmin
  <2> QED
    BY <1>2, <2>1, <2>2, RequestsStep
<1>4. HistoryTyped'
  <2>1. \A r \in DOMAIN revisions' : revisions'[r] \in Revision
    BY <1>1
  <2>2. \A i \in DOMAIN snapshots' :
          /\ snapshots'[i] \in [project : Projects, values : [Keys -> BOOLEAN], at : DOMAIN revisions']
    <3>1. ASSUME NEW i \in DOMAIN snapshots
          PROVE  snapshots[i] \in [project : Projects, values : [Keys -> BOOLEAN],
                                   at : DOMAIN revisions']
      <4>1. snapshots[i] \in [project : Projects, values : [Keys -> BOOLEAN], at : DOMAIN revisions]
        BY DEF HistoryTyped, ConfigTypeOK
      <4>2. DOMAIN revisions \subseteq DOMAIN revisions'
        BY <1>1
      <4> QED
        BY <4>1, <4>2
    <3> QED
      BY <3>1
  <2>3. ConfigTypeOK'
    BY <1>1, <1>3, <2>1, <2>2 DEF ConfigTypeOK, Settings, Revision
  <2> QED
    BY <1>1, <2>3 DEF HistoryTyped
<1>5. VersionInv'
  BY VersionAppended
<1>6. PresentInv'
  <2>1. \A t \in Scopes : values'[t] = settled(t, n + 1)'
    BY PresentAppended
  <2> QED
    BY <1>1, <2>1 DEF PresentInv
<1>7. HistoryReconstructs'
  BY <1>4, <1>5, ReconstructsAppended
<1>8. SnapshotsExplained'
  BY <1>4, <1>5, SnapshotsAppended
<1>9. RollbackRestores'
  <2>1. ASSUME NEW r \in 1..n, revisions'[r].rollbackOf # 0
        PROVE  past'[r] = past'[revisions'[r].rollbackOf]
    <3>1. revisions'[r] = revisions[r] /\ past'[r] = past[r]
      BY <1>1
    <3>2. past[r] = past[revisions[r].rollbackOf]
      BY <1>1, <2>1, <3>1 DEF RollbackRestores
    <3>3. revisions[r].rollbackOf \in 1..n
      <4>1. PICK t \in Scopes : t = revisions[r].scope
        <5>1. revisions[r] \in Revision
          BY <1>1 DEF HistoryTyped
        <5> QED
          BY <5>1 DEF Revision
      <4>2. r \in ofScope(t)
        BY <1>1, <4>1 DEF ofScope
      <4> QED
        BY <1>1, <2>1, <3>1, <4>2 DEF VersionInv
    <3> QED
      BY <1>1, <3>1, <3>2, <3>3
  <2>2. revisions'[n + 1].rollbackOf # 0 => past'[n + 1] = past'[revisions'[n + 1].rollbackOf]
    BY <1>1
  <2> QED
    BY <1>1, <2>1, <2>2 DEF RollbackRestores
<1>10. DependencyInv'
  <2>1. "system" \in Scopes
    BY DEF Scopes
  <2>2. satisfied("system", values')
    <3>1. CASE s = "system"
      BY <3>1
    <3>2. CASE s # "system"
      <4>1. values'["system"] = values["system"]
        BY <1>1, <2>1, <3>2
      <4>2. satisfied("system", values)
        BY DEF DependencyInv, SystemScopeConsistent
      <4> QED
        BY <4>1, <4>2, DependencyLocal
    <3> QED
      BY <3>1, <3>2
  <2>3. ASSUME NEW r \in ofScope("system")'
        PROVE  keeps(past'[r])
    <3>1. CASE r \in ofScope("system")
      <4>1. r \in 1..n
        BY <1>1, <3>1 DEF ofScope
      <4> QED
        BY <1>1, <3>1, <4>1 DEF DependencyInv
    <3>2. CASE r \notin ofScope("system")
      <4>1. s = "system" /\ r = n + 1
        BY <2>1, <3>2, ScopesAppended
      <4>2. [t \in Scopes |-> past'[r]]["system"] = values'["system"]
        BY <1>1, <2>1, <4>1
      <4> QED
        BY <2>2, <4>2, DependencyLocal DEF keeps
    <3> QED
      BY <3>1, <3>2
  <2>4. SystemScopeConsistent'
    BY <2>2 DEF SystemScopeConsistent
  <2> QED
    BY <2>3, <2>4 DEF DependencyInv
<1> QED
  BY <1>3, <1>4, <1>5, <1>6, <1>7, <1>8, <1>9, <1>10

draftApplied(d) == draft' = [draft EXCEPT ![d].version = @ + 1, ![d].state = "applied"]

(* A reviewed draft is applied.                                            *)
LEMMA AppliesDraft ==
  ASSUME ConfigInv, NEW a \in Admins, NEW q \in Request, q = requests[a],
         q.op = "apply", unmoved(q.scope, draft[q.id].base), validateAppliedDraft(q),
         appendRevision(q.scope, q.entries, q.id, 0), answeredAdmin(a), UNCHANGED snapshots,
         draftApplied(q.id)
  PROVE  ConfigInv'
<1> DEFINE d == q.id
<1>1. d \in Drafts /\ draft[d] \in Draft /\ relies(q) /\ q.scope \in Scopes /\ q.entries \in Entries
  BY RequestOnDraft DEF Request
<1>2. /\ draft[d].state = "reviewed" /\ draft[d].entries = q.entries
      /\ draft[d].approved = q.entries /\ draft[d].base <= scopeVersion(draft[d].scope)
      /\ draft[d].scope = q.scope
  BY <1>1 DEF validateAppliedDraft, ConfigInv, DraftInv, relies, onDraft
<1>3. PICK n : appended(n, q.scope, q.entries, d, 0)
  <2>1. HistoryTyped
    BY DEF ConfigInv
  <2> QED
    BY <1>1, <2>1, HistoryAppended
<1>4. draft \in [Drafts -> Draft]
  BY DEF ConfigInv, HistoryTyped, ConfigTypeOK
<1>5. /\ draft'[d] = [draft[d] EXCEPT !.version = @ + 1, !.state = "applied"]
      /\ \A x \in Drafts : x # d => draft'[x] = draft[x]
      /\ DOMAIN draft' = Drafts /\ draft' = [x \in Drafts |-> draft'[x]]
  BY <1>1, <1>4 DEF draftApplied
<1>6. /\ draft'[d] \in Draft /\ draft'[d].state = "applied" /\ draft'[d].base = draft[d].base
      /\ draft'[d].scope = draft[d].scope /\ draft'[d].version = draft[d].version + 1
      /\ draft'[d].approved = draft[d].approved /\ draft'[d].entries = draft[d].entries
  <2>1. movedTo(draft'[d], draft[d], "applied")
    BY <1>5 DEF movedTo
  <2>2. draft[d] \in Draft
    BY <1>1
  <2> HIDE DEF d
  <2> QED
    BY <2>1, <2>2, StateMoved
<1>7. draft' \in [Drafts -> Draft]
  BY <1>4, <1>5, <1>6
<1>8. draftMoves(d)
  BY <1>2, <1>6 DEF draftMoves
<1>9. \A c \in Admins : requests[c].op \in {"create", "update", "review", "apply"} =>
        draftMoves(requests[c].id)
  BY <1>1, <1>5, <1>7, <1>8, DraftMovesStep
<1>10. q.scope = "system" => satisfied("system", values')
  <2>1. values' = apply(values, q.scope, q.entries)
    BY <1>3 DEF appended
  <2> QED
    BY <1>1, <2>1 DEF relies
<1>11. DraftInv'
  <2>1. ASSUME NEW x \in Drafts
        PROVE  (/\ draft[x].state # "none" => draft[x].base <= scopeVersion(draft[x].scope)
                /\ draft[x].state \in {"reviewed", "applied"} => draft[x].approved = draft[x].entries)'
    <3>1. /\ draft'[x].state # "none" => draft[x].state # "none"
          /\ draft'[x].base = draft[x].base /\ draft'[x].scope = draft[x].scope
          /\ draft'[x].state \in {"reviewed", "applied"} => draft[x].state \in {"reviewed", "applied"}
          /\ draft'[x].approved = draft[x].approved /\ draft'[x].entries = draft[x].entries
      BY <1>2, <1>5, <1>6
    <3>2. PICK t \in Scopes : t = draft[x].scope
      BY <1>4 DEF Draft
    <3>3. scopeVersion(t) <= scopeVersion(t)' /\ scopeVersion(t) \in Nat /\ scopeVersion(t)' \in Nat
      BY <1>1, <1>3, ScopesAppended DEF ConfigInv
    <3>4. draft[x].base \in Nat
      BY <1>4 DEF Draft
    <3>5. draft[x].state # "none" => draft[x].base <= scopeVersion(t)'
      BY <3>2, <3>3, <3>4 DEF ConfigInv, DraftInv
    <3>6. draft'[x].state \in {"reviewed", "applied"} => draft'[x].approved = draft'[x].entries
      BY <3>1 DEF ConfigInv, DraftInv
    <3>7. (scopeVersion(draft[x].scope))' = scopeVersion(t)'
      BY <3>1, <3>2 DEF scopeVersion, ofScope
    <3> QED
      BY <3>1, <3>5, <3>6, <3>7
  <2>2. /\ n \in Nat /\ DOMAIN revisions = 1..n /\ DOMAIN revisions' = 1..(n + 1)
        /\ \A r \in 1..n : revisions'[r] = revisions[r]
        /\ revisions'[n + 1].draft = d /\ revisions'[n + 1].entries = q.entries
    BY <1>3 DEF appended
  <2>3. ASSUME NEW r \in 1..n, revisions[r].draft # "none"
        PROVE  /\ draft'[revisions[r].draft].state = "applied"
               /\ revisions[r].entries = draft'[revisions[r].draft].approved
    <3>1. /\ draft[revisions[r].draft].state = "applied"
          /\ revisions[r].entries = draft[revisions[r].draft].approved
          /\ revisions[r].draft \in Drafts
      BY <2>2, <2>3 DEF ConfigInv, DraftInv, HistoryTyped, ConfigTypeOK
    <3> QED
      BY <1>2, <1>5, <3>1
  <2>4. draft'[d].state = "applied" /\ q.entries = draft'[d].approved
    BY <1>2, <1>6
  <2>5. \A r \in DOMAIN revisions' : revisions'[r].draft # "none" =>
           /\ draft'[revisions'[r].draft].state = "applied"
           /\ revisions'[r].entries = draft'[revisions'[r].draft].approved
    <3>1. SUFFICES ASSUME NEW r \in 1..(n + 1), revisions'[r].draft # "none"
                   PROVE  /\ draft'[revisions'[r].draft].state = "applied"
                          /\ revisions'[r].entries = draft'[revisions'[r].draft].approved
      BY <2>2
    <3>2. CASE r \in 1..n
      BY <2>2, <2>3, <3>1, <3>2
    <3>3. CASE r = n + 1
      BY <2>2, <2>4, <3>3
    <3>4. r \in 1..n \/ r = n + 1
      BY <2>2
    <3> QED
      BY <3>2, <3>3, <3>4
  <2> QED
    BY <2>1, <2>5 DEF DraftInv
<1> QED
  BY <1>1, <1>3, <1>7, <1>9, <1>10, <1>11, AppendStep

(* A rollback is applied.                                                  *)
LEMMA RestoresRevision ==
  ASSUME ConfigInv, NEW a \in Admins, NEW q \in Request, q = requests[a],
         q.op = "restore", unmoved(q.scope, q.version),
         appendRevision(q.scope, q.entries, "none", q.id), answeredAdmin(a),
         UNCHANGED <<draft, snapshots>>
  PROVE  ConfigInv'
<1>1. /\ relies(q) /\ q.scope \in Scopes /\ q.entries \in Entries
      /\ q.id \in DOMAIN revisions /\ revisions[q.id].scope = q.scope /\ q.id \in Nat
  <2>1. /\ relies(q) /\ q.scope \in Scopes /\ q.entries \in Entries
        /\ q.id \in DOMAIN revisions /\ revisions[q.id].scope = q.scope
    BY RequestOnDraft DEF Request, relies, onRevision
  <2>2. DOMAIN revisions = 1..Len(revisions)
    BY ScopesFinite DEF ConfigInv, HistoryTyped
  <2> QED
    BY <2>1, <2>2
<1>2. PICK n : appended(n, q.scope, q.entries, "none", q.id)
  <2>1. HistoryTyped
    BY DEF ConfigInv
  <2> QED
    BY <1>1, <2>1, HistoryAppended
<1>3. /\ values' = apply(values, q.scope, q.entries)
      /\ n \in Nat /\ DOMAIN revisions = 1..n /\ DOMAIN revisions' = 1..(n + 1)
      /\ \A r \in 1..n : revisions'[r] = revisions[r]
      /\ revisions'[n + 1].draft = "none"
  BY <1>2 DEF appended
<1>4. past[q.id] = values'[q.scope]
  BY <1>1, <1>3 DEF relies
<1>5. q.scope = "system" => satisfied("system", values')
  <2>1. SUFFICES ASSUME q.scope = "system" PROVE satisfied("system", values')
    OBVIOUS
  <2>2. keeps(past[q.id])
    BY <1>1, <2>1 DEF ConfigInv, DependencyInv, ofScope
  <2>3. [t \in Scopes |-> past[q.id]]["system"] = values'["system"]
    BY <1>1, <1>4, <2>1
  <2> QED
    BY <2>2, <2>3, DependencyLocal DEF keeps
<1>6. draft' \in [Drafts -> Draft] /\ \A x : draftMoves(x)
  BY DEF ConfigInv, HistoryTyped, ConfigTypeOK, draftMoves
<1>7. DraftInv'
  <2>1. ASSUME NEW x \in Drafts
        PROVE  (/\ draft[x].state # "none" => draft[x].base <= scopeVersion(draft[x].scope)
                /\ draft[x].state \in {"reviewed", "applied"} => draft[x].approved = draft[x].entries)'
    <3>1. PICK t \in Scopes : t = draft[x].scope
      BY DEF ConfigInv, HistoryTyped, ConfigTypeOK, Draft
    <3>2. scopeVersion(t) <= scopeVersion(t)' /\ scopeVersion(t) \in Nat /\ scopeVersion(t)' \in Nat
      BY <1>1, <1>2, ScopesAppended DEF ConfigInv
    <3>3. draft[x].base \in Nat
      BY DEF ConfigInv, HistoryTyped, ConfigTypeOK, Draft
    <3>4. draft[x].state # "none" => draft[x].base <= scopeVersion(t)'
      BY <3>1, <3>2, <3>3 DEF ConfigInv, DraftInv
    <3>5. (scopeVersion(draft[x].scope))' = scopeVersion(t)'
      BY <3>1 DEF scopeVersion, ofScope
    <3>6. draft[x].state \in {"reviewed", "applied"} => draft[x].approved = draft[x].entries
      BY DEF ConfigInv, DraftInv
    <3> QED
      BY <3>4, <3>5, <3>6
  <2>2. \A r \in DOMAIN revisions' : revisions'[r].draft # "none" =>
           /\ draft'[revisions'[r].draft].state = "applied"
           /\ revisions'[r].entries = draft'[revisions'[r].draft].approved
    BY <1>3 DEF ConfigInv, DraftInv
  <2> QED
    BY <2>1, <2>2 DEF DraftInv
<1> QED
  BY <1>1, <1>2, <1>4, <1>5, <1>6, <1>7, AppendStep

LEMMA ApplyConfigScopeStep ==
  ASSUME ConfigInv, NEW a \in Admins, ApplyConfigScope(a)
  PROVE  ConfigInv'
<1>1. PICK q \in Request : q = requests[a]
  BY RequestOnDraft
<1>2. answeredAdmin(a) /\ UNCHANGED snapshots
  BY DEF ApplyConfigScope
<1>3. CASE UNCHANGED <<values, revisions, past, draft>>
  BY <1>2, <1>3, RefusedStep
<1>4. CASE /\ q.op = "apply" /\ unmoved(q.scope, draft[q.id].base) /\ validateAppliedDraft(q)
           /\ appendRevision(q.scope, q.entries, q.id, 0)
           /\ draft' = [draft EXCEPT ![q.id].version = @ + 1, ![q.id].state = "applied"]
  BY <1>1, <1>2, <1>4, AppliesDraft DEF draftApplied
<1>5. CASE /\ q.op = "restore" /\ unmoved(q.scope, q.version)
           /\ appendRevision(q.scope, q.entries, "none", q.id)
           /\ UNCHANGED draft
  BY <1>1, <1>2, <1>5, RestoresRevision
<1> QED
  BY <1>1, <1>3, <1>4, <1>5 DEF ApplyConfigScope


(* A setting always resolves, and what resolves of a moment is what did      *)
(* resolve then.                                                           *)
LEMMA Resolves ==
  ASSUME NEW vals \in [Scopes -> Settings], NEW s \in Scopes, NEW k \in Keys
  PROVE  resolve(s, vals, k) \in BOOLEAN
<1>1. /\ vals[s][k] \in BOOLEAN \union {Unset} /\ vals["system"][k] \in BOOLEAN \union {Unset}
      /\ DefaultOf[k] \in BOOLEAN
  BY DEF Settings, Scopes, DefaultOf
<1>2. CASE vals[s][k] # Unset
  <2>1. resolve(s, vals, k) = vals[s][k]
    BY <1>2 DEF resolve
  <2>2. vals[s][k] \in BOOLEAN
    BY <1>1, <1>2, Zenon
  <2> QED
    BY <2>1, <2>2, Zenon
<1>3. CASE vals[s][k] = Unset /\ vals["system"][k] # Unset
  <2>1. resolve(s, vals, k) = vals["system"][k]
    BY <1>3 DEF resolve
  <2>2. vals["system"][k] \in BOOLEAN
    BY <1>1, <1>3, Zenon
  <2> QED
    BY <2>1, <2>2, Zenon
<1>4. CASE vals[s][k] = Unset /\ vals["system"][k] = Unset
  <2>1. resolve(s, vals, k) = DefaultOf[k]
    BY <1>4 DEF resolve
  <2> QED
    BY <1>1, <2>1, Zenon
<1> QED
  BY <1>2, <1>3, <1>4, Zenon

LEMMA AcceptJobStep ==
  ASSUME ConfigInv, NEW p \in Projects, AcceptJob(p)
  PROVE  ConfigInv'
<1> DEFINE n == Len(revisions)
           x == [project |-> p, values |-> snapshotOf(p), at |-> n]
<1>1. snapshots' = Append(snapshots, x) /\ UNCHANGED <<values, revisions, past, draft, requests>>
  BY DEF AcceptJob, insertJobConfigSnapshot
<1>2. /\ values \in [Scopes -> Settings] /\ p \in Scopes /\ n \in DOMAIN revisions /\ n \in Nat
      /\ snapshots \in Seq(JobSnapshot)
  <2>1. values \in [Scopes -> Settings] /\ p \in Scopes /\ snapshots \in Seq(JobSnapshot)
    BY DEF ConfigInv, HistoryTyped, ConfigTypeOK, Settings, Scopes
  <2>2. DOMAIN revisions = 1..n /\ n \in Nat /\ n >= 1
    BY ScopesFinite DEF ConfigInv, HistoryTyped
  <2> QED
    BY <2>1, <2>2
<1>3. setAt(n) = values
  <2>1. setAt(n) = [t \in Scopes |-> settled(t, n)]
    BY <1>2, HistoryRebuilt DEF ConfigInv, RebuiltIsSettled
  <2>2. \A t \in Scopes : settled(t, n) = values[t]
    BY DEF ConfigInv, PresentInv
  <2> QED
    BY <1>2, <2>1, <2>2
<1>4. snapshotOf(p) \in [Keys -> BOOLEAN]
        /\ \A k \in Keys : snapshotOf(p)[k] = resolve(p, values, k)
  <2>1. \A k \in Keys : resolve(p, values, k) \in BOOLEAN
    BY <1>2, Resolves
  <2> QED
    BY <2>1 DEF snapshotOf
<1>5. /\ x \in JobSnapshot /\ x.project = p /\ x.at = n /\ x.values = snapshotOf(p)
      /\ x \in [project : Projects, values : [Keys -> BOOLEAN], at : DOMAIN revisions]
  BY <1>2, <1>4 DEF JobSnapshot
<1> HIDE DEF x, n
<1>6. /\ snapshots' \in Seq(JobSnapshot) /\ Len(snapshots') = Len(snapshots) + 1
      /\ DOMAIN snapshots' = 1..(Len(snapshots) + 1) /\ DOMAIN snapshots = 1..Len(snapshots)
      /\ Len(snapshots) \in Nat /\ snapshots'[Len(snapshots) + 1] = x
      /\ \A i \in 1..Len(snapshots) : snapshots'[i] = snapshots[i]
  BY <1>1, <1>2, <1>5
<1>7. /\ VersionInv' /\ PresentInv' /\ DependencyInv' /\ HistoryReconstructs'
      /\ RollbackRestores' /\ \A t : scopeVersion(t)' = scopeVersion(t)
      /\ \A t : ofScope(t)' = ofScope(t)
  BY <1>1, HistorySame DEF ofScope
<1>8. DraftInv'
  BY <1>1, <1>7 DEF ConfigInv, DraftInv
<1>9. RequestInv'
  <2>1. historyMoves /\ draft' \in [Drafts -> Draft] /\ \A y : draftMoves(y)
    BY <1>1 DEF historyMoves, draftMoves, ConfigInv, HistoryTyped, ConfigTypeOK
  <2>2. ASSUME NEW b \in Admins
        PROVE  relies(requests[b])'
    <3>1. PICK q \in Request : q = requests[b]
      BY RequestOnDraft
    <3>2. relies(q)
      BY <3>1, RequestOnDraft
    <3>3. relies(q)'
      BY <2>1, <3>2, ReliesStep DEF ConfigInv
    <3> QED
      BY <1>1, <3>1, <3>3 DEF relies, onDraft, onRevision
  <2> QED
    BY <1>1, <2>2 DEF RequestInv, ConfigInv
<1>10. HistoryTyped'
  <2>1. \A i \in DOMAIN snapshots' : snapshots'[i] \in
          [project : Projects, values : [Keys -> BOOLEAN], at : DOMAIN revisions]
    <3>1. SUFFICES ASSUME NEW i \in 1..(Len(snapshots) + 1)
                   PROVE  snapshots'[i] \in
                     [project : Projects, values : [Keys -> BOOLEAN], at : DOMAIN revisions]
      BY <1>6
    <3>2. CASE i \in 1..Len(snapshots)
      BY <1>6, <3>2 DEF ConfigInv, HistoryTyped, ConfigTypeOK
    <3>3. CASE i = Len(snapshots) + 1
      BY <1>5, <1>6, <3>3
    <3>4. i \in 1..Len(snapshots) \/ i = Len(snapshots) + 1
      BY <1>6
    <3> QED
      BY <3>2, <3>3, <3>4
  <2> QED
    BY <1>1, <1>6, <2>1 DEF ConfigInv, HistoryTyped, ConfigTypeOK
<1>11. SnapshotsExplained'
  <2>1. RebuiltIsSettled /\ RebuiltIsSettled'
    BY <1>7, <1>10, HistoryRebuilt, HistoryRebuiltNext DEF ConfigInv
  <2>2. ASSUME NEW m \in DOMAIN revisions
        PROVE  setAt(m)' = setAt(m)
    <3>1. \A t \in Scopes : settled(t, m)' = settled(t, m)
      BY <1>1, <1>7 DEF settled, said
    <3> QED
      BY <1>1, <2>1, <3>1 DEF RebuiltIsSettled
  <2>3. ASSUME NEW i \in 1..(Len(snapshots) + 1), NEW k \in Keys
        PROVE  (snapshots[i].values[k] = resolve(snapshots[i].project, setAt(snapshots[i].at), k))'
    <3>1. CASE i \in 1..Len(snapshots)
      <4>1. PICK m : m = snapshots[i].at
        OBVIOUS
      <4>2. m \in DOMAIN revisions /\ snapshots'[i] = snapshots[i]
        BY <1>6, <3>1, <4>1 DEF ConfigInv, HistoryTyped, ConfigTypeOK
      <4>3. snapshots[i].values[k] = resolve(snapshots[i].project, setAt(m), k)
        BY <1>6, <3>1, <4>1 DEF ConfigInv, SnapshotsExplained
      <4>4. setAt(m)' = setAt(m)
        BY <2>2, <4>2
      <4>5. setAt(snapshots[i].at)' = setAt(m)
        BY <4>1, <4>2, <4>4
      <4> QED
        BY <4>1, <4>2, <4>3, <4>5
    <3>2. CASE i = Len(snapshots) + 1
      <4>1. snapshots'[i] = x
        BY <1>6, <3>2
      <4>2. PICK m \in DOMAIN revisions : m = n
        BY <1>2
      <4>3. setAt(m)' = values
        BY <1>3, <2>2, <4>2
      <4>4. setAt(snapshots[i].at)' = values
        BY <1>5, <4>1, <4>2, <4>3
      <4> QED
        BY <1>4, <1>5, <4>1, <4>4
    <3>3. i \in 1..Len(snapshots) \/ i = Len(snapshots) + 1
      BY <1>6
    <3> QED
      BY <3>1, <3>2, <3>3
  <2> QED
    BY <1>6, <2>3 DEF SnapshotsExplained
<1> QED
  BY <1>7, <1>8, <1>9, <1>10, <1>11 DEF ConfigInv


-----------------------------------------------------------------------------
(* The registry's theorems *)

LEMMA ConfigStarts == ConfigInit => ConfigInv
<1> SUFFICES ASSUME ConfigInit PROVE ConfigInv
  OBVIOUS
<1> DEFINE first == [scope |-> "system", version |-> 1, entries |-> DefaultOf,
                     draft |-> "none", rollbackOf |-> 0]
<1>1. DefaultOf \in Settings /\ DefaultOf \in Entries /\ NoEntries \in Entries
  <2>1. Keys \in (SUBSET Keys) \ {{}}
    BY DEF Keys
  <2>2. DefaultOf \in [Keys -> BOOLEAN \union {Unset}]
    BY DEF DefaultOf
  <2>3. NoRequest \in Request /\ NoRequest.entries = NoEntries
    BY NothingAsked DEF NoRequest
  <2> QED
    BY <2>1, <2>2, <2>3 DEF Settings, Entries, Request
<1>2. first \in Revision /\ "system" \in Scopes
  BY <1>1 DEF Revision, Scopes
<1>3. /\ revisions = <<first>> /\ past = <<DefaultOf>> /\ snapshots = <<>>
      /\ values = [s \in Scopes |-> IF s = "system" THEN DefaultOf ELSE [k \in Keys |-> Unset]]
      /\ draft = [d \in Drafts |-> NoDraft] /\ requests = [a \in Admins |-> NoRequest]
  BY DEF ConfigInit
<1>4. /\ first.scope = "system" /\ first.version = 1 /\ first.entries = DefaultOf
      /\ first.draft = "none" /\ first.rollbackOf = 0
  OBVIOUS
<1> HIDE DEF first
<1>5. /\ revisions \in Seq(Revision) /\ past \in Seq(Settings) /\ Len(revisions) = 1 /\ Len(past) = 1
      /\ DOMAIN revisions = {1} /\ revisions[1] = first /\ past[1] = DefaultOf
      /\ snapshots \in Seq(JobSnapshot) /\ DOMAIN snapshots = {}
  BY <1>1, <1>2, <1>3
<1>6. values \in [Scopes -> Settings] /\ values["system"] = DefaultOf
        /\ \A t \in Scopes : t # "system" => values[t] = [k \in Keys |-> Unset]
  <2>1. [k \in Keys |-> Unset] \in Settings
    BY DEF Settings
  <2> QED
    BY <1>1, <1>2, <1>3, <2>1
<1>7. NoDraft \in Draft /\ NoDraft.state = "none"
  BY <1>1, <1>2 DEF Draft, NoDraft
<1>8. NoRequest \in Request /\ NoRequest.op = "none"
  BY NothingAsked
<1>9. HistoryTyped
  BY <1>2, <1>3, <1>5, <1>6, <1>7, <1>8 DEF HistoryTyped, ConfigTypeOK, Settings, Revision
<1>10. ofScope("system") = {1} /\ \A t \in Scopes : t # "system" => ofScope(t) = {}
  BY <1>4, <1>5 DEF ofScope
<1>11. scopeVersion("system") = 1
  BY <1>10, FS_Singleton DEF scopeVersion
<1>12. VersionInv
  BY <1>4, <1>5, <1>10, <1>11 DEF VersionInv
<1>13. PresentInv
  <2>1. \A k \in Keys : said("system", 1, k) = {1}
    BY <1>4, <1>5, <1>10 DEF said, DefaultOf
  <2>2. greatest({1}) = 1
    BY DEF greatest
  <2>3. settled("system", 1) = [k \in Keys |-> DefaultOf[k]]
    BY <1>4, <1>5, <2>1, <2>2 DEF settled
  <2>4. \A t \in Scopes : t # "system" => settled(t, 1) = [k \in Keys |-> Unset]
    BY <1>10 DEF settled, said
  <2>5. [k \in Keys |-> DefaultOf[k]] = DefaultOf
    BY DEF DefaultOf
  <2> QED
    BY <1>5, <1>6, <2>3, <2>4, <2>5 DEF PresentInv
<1>14. HistoryReconstructs
  <2>1. atRevision(1) = settled("system", 1)
    BY <1>9, <1>10, <1>12, <1>2, HistoryRebuilt DEF RebuiltIsSettled
  <2>2. settled("system", 1) = DefaultOf
    BY <1>2, <1>5, <1>6, <1>13 DEF PresentInv
  <2> QED
    BY <1>5, <2>1, <2>2 DEF HistoryReconstructs
<1>15. DependencyInv
  <2>1. satisfied("system", values)
    BY <1>6 DEF satisfied, resolve, DefaultOf, Keys
  <2>2. [t \in Scopes |-> DefaultOf]["system"] = values["system"]
    BY <1>2, <1>6
  <2>3. keeps(DefaultOf)
    BY <2>1, <2>2, DependencyLocal DEF keeps
  <2> QED
    BY <1>5, <1>10, <2>1, <2>3 DEF DependencyInv, SystemScopeConsistent
<1>16. RollbackRestores /\ SnapshotsExplained
  BY <1>4, <1>5 DEF RollbackRestores, SnapshotsExplained
<1>17. DraftInv
  BY <1>3, <1>4, <1>5, <1>7 DEF DraftInv
<1>18. RequestInv
  <2>1. \A a \in Admins : requests[a] = NoRequest
    BY <1>3
  <2> QED
    BY <1>8, <2>1 DEF RequestInv, relies, onDraft, onRevision
<1> QED
  BY <1>9, <1>12, <1>13, <1>14, <1>15, <1>16, <1>17, <1>18 DEF ConfigInv

LEMMA ConfigStep == ConfigInv /\ [ConfigNext]_configVars => ConfigInv'
<1> SUFFICES ASSUME ConfigInv, [ConfigNext]_configVars PROVE ConfigInv'
  OBVIOUS
<1>1. ASSUME NEW p \in Projects, AcceptJob(p) PROVE ConfigInv'
  BY <1>1, AcceptJobStep
<1>2. ASSUME NEW d \in Drafts, Discard(d) PROVE ConfigInv'
  BY <1>2, DiscardStep
<1>3. ASSUME NEW a \in Admins, CreateDraft(a) \/ ImportDraft(a) PROVE ConfigInv'
  BY <1>3, CreateDraftStep
<1>4. ASSUME NEW a \in Admins, UpdateDraft(a) PROVE ConfigInv'
  BY <1>4, UpdateDraftStep
<1>5. ASSUME NEW a \in Admins, ReviewDraft(a) PROVE ConfigInv'
  BY <1>5, ReviewDraftStep
<1>6. ASSUME NEW a \in Admins, ApplyDraft(a) PROVE ConfigInv'
  BY <1>6, ApplyDraftStep
<1>7. ASSUME NEW a \in Admins, Rollback(a) PROVE ConfigInv'
  BY <1>7, RollbackStep
<1>8. ASSUME NEW a \in Admins, RollbackReadsValues(a) PROVE ConfigInv'
  BY <1>8, RollbackReadsValuesStep
<1>9. ASSUME NEW a \in Admins, CreateConfigDraft(a) PROVE ConfigInv'
  BY <1>9, CreateConfigDraftStep
<1>10. ASSUME NEW a \in Admins, UpdateConfigDraft(a) PROVE ConfigInv'
  BY <1>10, UpdateConfigDraftStep
<1>11. ASSUME NEW a \in Admins, TransitionConfigDraft(a) PROVE ConfigInv'
  BY <1>11, TransitionConfigDraftStep
<1>12. ASSUME NEW a \in Admins, ApplyConfigScope(a) PROVE ConfigInv'
  BY <1>12, ApplyConfigScopeStep
<1>13. CASE UNCHANGED configVars
  <2>1. UNCHANGED <<values, revisions, past, draft, snapshots, requests>>
    BY <1>13 DEF configVars
  <2>2. /\ VersionInv' /\ PresentInv' /\ DependencyInv' /\ HistoryReconstructs'
        /\ RollbackRestores' /\ SnapshotsExplained' /\ \A t : scopeVersion(t)' = scopeVersion(t)
    BY <2>1, HistorySame
  <2>3. HistoryTyped' /\ DraftInv'
    BY <2>1, <2>2 DEF ConfigInv, HistoryTyped, ConfigTypeOK, DraftInv
  <2>4. RequestInv'
    <3>1. historyMoves /\ draft' \in [Drafts -> Draft] /\ \A y : draftMoves(y)
      BY <2>1 DEF historyMoves, draftMoves, ConfigInv, HistoryTyped, ConfigTypeOK
    <3>2. ASSUME NEW b \in Admins
          PROVE  relies(requests[b])'
      <4>1. PICK q \in Request : q = requests[b]
        BY RequestOnDraft
      <4>2. relies(q)
        BY <4>1, RequestOnDraft
      <4>3. relies(q)'
        BY <3>1, <4>2, ReliesStep DEF ConfigInv
      <4> QED
        BY <2>1, <4>1, <4>3 DEF relies, onDraft, onRevision
    <3> QED
      BY <2>1, <3>2 DEF RequestInv, ConfigInv
  <2> QED
    BY <2>2, <2>3, <2>4 DEF ConfigInv
<1> QED
  BY <1>1, <1>2, <1>3, <1>4, <1>5, <1>6, <1>7, <1>8, <1>9, <1>10, <1>11, <1>12, <1>13
     DEF ConfigNext

LEMMA ConfigInvariant == ConfigSpec => []ConfigInv
  BY ConfigStarts, ConfigStep, PTL DEF ConfigSpec

(* The system's own settings keep the declared dependency for any number of  *)
(* administrators, projects and drafts: a request relies on its validation   *)
(* only while its scope has the version it read, and a rollback returns to  *)
(* settings that kept it.                                                  *)
THEOREM SystemForAll == ConfigSpec => []SystemScopeConsistent
<1>1. ConfigInv => SystemScopeConsistent
  BY DEF ConfigInv, DependencyInv
<1> QED
  BY <1>1, ConfigInvariant, PTL

(* The history rebuilds every past state of a scope, rollbacks return to     *)
(* what they name, drafts apply what was reviewed and jobs were given the   *)
(* settings of one moment, however long the history grows.                 *)
THEOREM RevisionsForAll == ConfigSpec => []RevisionsAreTrue
<1>1. ConfigInv => AppliedAsReviewed
  BY DEF ConfigInv, DraftInv, AppliedAsReviewed
<1>2. ConfigInv => RevisionsAreTrue
  BY <1>1 DEF ConfigInv, RevisionsAreTrue
<1> QED
  BY <1>2, ConfigInvariant, PTL

(* Drafts, revisions, requests and snapshots are what they should be.      *)
THEOREM ConfigTypesForAll == ConfigSpec => []ConfigTypeOK
<1>1. ConfigInv => ConfigTypeOK
  BY DEF ConfigInv, HistoryTyped
<1> QED
  BY <1>1, ConfigInvariant, PTL

=============================================================================
