----------------------------- MODULE AuthService ------------------------------
(***************************************************************************)
(* Accounts and sessions: the handlers Register, Auth and Logout and the   *)
(* session lookup of every document request, with internal/service/auth.go *)
(* under them, over the tables users and sessions.                         *)
(*                                                                         *)
(* Every element of Request is one HTTP request, as in DocumentApi.  The   *)
(* token a login creates is named after the login: 32 random bytes are     *)
(* fresh.  The expiry of a session is computed with the clock of the       *)
(* application and compared with the clock of PostgreSQL.                  *)
(***************************************************************************)
EXTENDS Naturals

CONSTANTS
  Registers,   \* POST /api/register requests
  Auths,       \* POST /api/auth requests; also the tokens they create
  Uses,        \* document requests, which begin with Authenticate
  Logouts,     \* DELETE /api/auth/{token} requests
  Login,       \* logins
  GoodLogin,   \* those that loginPattern matches
  Password,    \* passwords
  Strong,      \* those that validPassword accepts
  Long,        \* those of more than 72 bytes
  Cut,         \* what bcrypt takes of each: its first 72 bytes
  Accounts,    \* the passwords of the users that registered earlier
  NoUser,      \* no row of users has the login
  NoSession,   \* no row of sessions has the token
  NoArg,       \* the request has not been sent yet
  Stranger,    \* a well-formed token that no login created
  Malformed,   \* a token of the wrong length or with other characters
  SessionTTL,  \* auth.session_ttl
  MaxSkew,     \* the clocks of application and database differ by no more
  MaxTime,     \* bound of both clocks
  Faults       \* which failures happen

Request == Registers \cup Auths \cup Uses \cup Logouts

\* PostForm of Register, PostForm of Auth, and the token of the others.
Registration == [admin : BOOLEAN, login : Login, password : Password]
Credentials == [login : Login, password : Password]
Session == [user : Login, expires : Nat]

ASSUME RequestAssumption ==
  /\ Registers \cap (Auths \cup Uses \cup Logouts) = {}
  /\ Auths \cap (Uses \cup Logouts) = {}
  /\ Uses \cap Logouts = {}
ASSUME LoginAssumption == GoodLogin \subseteq Login /\ NoUser \notin Password
ASSUME PasswordAssumption ==
  /\ Strong \subseteq Password \ Long
  /\ Cut \in [Password -> Password]
  /\ \A p \in Password \ Long : Cut[p] = p
ASSUME AccountsAssumption == Accounts \in [Login -> Strong \cup {NoUser}]
ASSUME TokenAssumption ==
  /\ {Stranger, Malformed} \cap Auths = {}
  /\ NoSession \notin Session
ASSUME ClockAssumption == SessionTTL \in Nat \ {0} /\ MaxSkew \in Nat /\ MaxTime \in Nat
\* As in DocumentApi; the other kinds of failure do not concern accounts.
ASSUME FaultAssumption == Faults \subseteq {"db", "indoubt", "late", "crash", "malformed"}

VARIABLES
  \* PostgreSQL
  users,      \* the password hash of each login
  sessions,   \* the session of each token
  inDoubt,    \* requests whose statement may still take effect
  opened,     \* history: tokens whose session was inserted
  dbClock,    \* now()
  \* the application
  appClock,   \* time.Now()
  pc,         \* where each request is
  arg,        \* what it carries
  expires,    \* the expiry a login has computed
  reply,      \* its status, 0 for none
  issued,     \* history: the database clock when a login computed the expiry
  acked       \* history: the registrations confirmed when it arrived

tables == <<users, sessions, opened>>
clocks == <<dbClock, appClock>>
vars == <<tables, inDoubt, clocks, pc, arg, expires, reply, issued, acked>>

Init ==
  /\ users = Accounts
  /\ sessions = [t \in Auths |-> NoSession]
  /\ opened = {}
  /\ inDoubt = {}
  /\ dbClock \in 0..MaxSkew
  /\ appClock \in 0..MaxSkew
  /\ pc = [r \in Request |-> "new"]
  /\ arg = [r \in Request |-> NoArg]
  /\ expires = [r \in Auths |-> 0]
  /\ reply = [r \in Request |-> 0]
  /\ issued = [r \in Auths |-> 0]
  /\ acked = [r \in Request |-> {}]

Goto(r, to) == pc' = [pc EXCEPT ![r] = to]
Reply(r, status) == reply' = [reply EXCEPT ![r] = status]
Finish(r, status) == Goto(r, "done") /\ Reply(r, status)
Answered(r, status) == pc[r] = "done" /\ reply[r] = status

-----------------------------------------------------------------------------
(***************************************************************************)
(* A client sends a request.  It knows the tokens it was told, and can     *)
(* make others up.                                                         *)
(***************************************************************************)
KnownTokens == {a \in Auths : Answered(a, 200)}

Arguments(r) ==
  CASE r \in Registers -> Registration
    [] r \in Auths -> Credentials
    [] r \in Uses \cup Logouts -> KnownTokens \cup {Stranger, Malformed}

Entry(r) ==
  CASE r \in Registers -> "register"
    [] r \in Auths -> "find"
    [] r \in Uses -> "auth"
    [] r \in Logouts -> "logout"

Arrive(r) ==
  /\ pc[r] = "new"
  /\ \E x \in Arguments(r) : arg' = [arg EXCEPT ![r] = x]
  /\ acked' = [acked EXCEPT ![r] = {x \in Registers : Answered(x, 200)}]
  /\ Goto(r, Entry(r))
  /\ UNCHANGED <<tables, inDoubt, clocks, expires, reply, issued>>

\* A form or query string that does not parse, or no login or password in it.
Reject(r) ==
  /\ "malformed" \in Faults
  /\ pc[r] \in {"register", "find", "auth"}
  /\ Finish(r, 400)
  /\ UNCHANGED <<tables, inDoubt, clocks, arg, expires, issued, acked>>

-----------------------------------------------------------------------------
(***************************************************************************)
(* Register.  The checks come first; the INSERT and the UNIQUE constraint  *)
(* decide between the registrations of one login.                          *)
(***************************************************************************)
Acceptable(form) ==
  form.admin /\ form.login \in GoodLogin /\ form.password \in Strong

RefuseRegister(r) ==
  /\ pc[r] = "register"
  /\ \/ ~arg[r].admin /\ Finish(r, 401)
     \/ arg[r].admin /\ ~Acceptable(arg[r]) /\ Finish(r, 400)
  /\ UNCHANGED <<tables, inDoubt, clocks, arg, expires, issued, acked>>

Free(login) == users[login] = NoUser

InsertUser(form) ==
  /\ users' = [users EXCEPT ![form.login] = Cut[form.password]]
  /\ UNCHANGED <<sessions, opened>>

\* Mutant: the INSERT overwrites the row of a login that is taken.
CreateUserUpserts(r) ==
  /\ pc[r] = "register" /\ Acceptable(arg[r])
  /\ InsertUser(arg[r]) /\ Finish(r, 200)
  /\ UNCHANGED <<inDoubt, clocks, arg, expires, issued, acked>>

\* Mutant: ON CONFLICT DO NOTHING, and the handler does not look at the row.
CreateUserIgnoresConflict(r) ==
  /\ pc[r] = "register" /\ Acceptable(arg[r])
  /\ IF Free(arg[r].login) THEN InsertUser(arg[r]) ELSE UNCHANGED tables
  /\ Finish(r, 200)
  /\ UNCHANGED <<inDoubt, clocks, arg, expires, issued, acked>>

CreateUser(r) ==
  /\ pc[r] = "register" /\ Acceptable(arg[r])
  /\ IF Free(arg[r].login)
       THEN InsertUser(arg[r]) /\ Finish(r, 200)
       ELSE Finish(r, 400) /\ UNCHANGED tables
  /\ UNCHANGED <<inDoubt, clocks, arg, expires, issued, acked>>

-----------------------------------------------------------------------------
(***************************************************************************)
(* Login.  The row of the user, the comparison of the passwords and the    *)
(* random token; then the expiry by the clock of the application; then the *)
(* INSERT, which the CHECK of the table refuses when that expiry is not    *)
(* after now().                                                            *)
(***************************************************************************)
\* Mutant: bcrypt alone decides, and it takes the first 72 bytes only.
MatchesByHash(given) == Cut[given.password] = users[given.login]

Matches(given) ==
  given.password \notin Long /\ Cut[given.password] = users[given.login]

FindUser(r) ==
  /\ pc[r] = "find"
  /\ IF Matches(arg[r])
       THEN Goto(r, "token") /\ UNCHANGED reply
       ELSE Finish(r, 401)
  /\ UNCHANGED <<tables, inDoubt, clocks, arg, expires, issued, acked>>

\* Mutant: the TTL is subtracted.
ComputeExpiryBackwards(r) ==
  /\ pc[r] = "token"
  /\ expires' = [expires EXCEPT ![r] = appClock - SessionTTL]
  /\ issued' = [issued EXCEPT ![r] = dbClock]
  /\ Goto(r, "create")
  /\ UNCHANGED <<tables, inDoubt, clocks, arg, reply, acked>>

ComputeExpiry(r) ==
  /\ pc[r] = "token"
  /\ expires' = [expires EXCEPT ![r] = appClock + SessionTTL]
  /\ issued' = [issued EXCEPT ![r] = dbClock]
  /\ Goto(r, "create")
  /\ UNCHANGED <<tables, inDoubt, clocks, arg, reply, acked>>

InsertSession(r) ==
  /\ sessions' = [sessions EXCEPT ![r] = [user |-> arg[r].login, expires |-> expires[r]]]
  /\ opened' = opened \cup {r}
  /\ UNCHANGED users

CreateSession(r) ==
  /\ pc[r] = "create"
  /\ IF expires[r] > dbClock
       THEN InsertSession(r) /\ Finish(r, 200)
       ELSE Finish(r, 500) /\ UNCHANGED tables
  /\ UNCHANGED <<inDoubt, clocks, arg, expires, issued, acked>>

-----------------------------------------------------------------------------
(***************************************************************************)
(* Authenticate and Logout.  A token of the wrong format is turned down    *)
(* before the database is asked.                                           *)
(***************************************************************************)
\* Mutant: rows that have expired are still found.
LiveForever == {t \in Auths : sessions[t] # NoSession}

Live == {t \in Auths : sessions[t] # NoSession /\ sessions[t].expires > dbClock}

\* Mutant: a lookup prolongs the session, also one that has ended.
AuthenticateProlongs(r) ==
  /\ pc[r] = "auth"
  /\ IF arg[r] \in Auths /\ sessions[arg[r]] # NoSession
       THEN /\ sessions' = [sessions EXCEPT ![arg[r]].expires = dbClock + SessionTTL]
            /\ Finish(r, 200)
       ELSE Finish(r, 401) /\ UNCHANGED sessions
  /\ UNCHANGED <<users, opened, inDoubt, clocks, arg, expires, issued, acked>>

Authenticate(r) ==
  /\ pc[r] = "auth"
  /\ IF arg[r] \in Live THEN Finish(r, 200) ELSE Finish(r, 401)
  /\ UNCHANGED <<tables, inDoubt, clocks, arg, expires, issued, acked>>

\* Mutant: a logout ends every session of the user.
RemoveSessionsOfUser(t) ==
  /\ sessions' = [x \in Auths |->
       IF t \in Auths /\ sessions[x] # NoSession /\ arg[x].login = arg[t].login
         THEN NoSession ELSE sessions[x]]
  /\ UNCHANGED <<users, opened>>

RemoveSession(t) ==
  /\ sessions' = [x \in Auths |-> IF x = t THEN NoSession ELSE sessions[x]]
  /\ UNCHANGED <<users, opened>>

Logout(r) ==
  /\ pc[r] = "logout"
  /\ \/ arg[r] = Malformed /\ Finish(r, 400) /\ UNCHANGED tables
     \/ arg[r] # Malformed /\ RemoveSession(arg[r]) /\ Finish(r, 200)
  /\ UNCHANGED <<inDoubt, clocks, arg, expires, issued, acked>>

-----------------------------------------------------------------------------
(***************************************************************************)
(* A statement fails: without effect, with its answer lost, or with its    *)
(* effect still to come after the handler has answered 500.                *)
(***************************************************************************)
\* r is about to run a statement that changes a table.
Changing(r) ==
  \/ pc[r] = "register" /\ Acceptable(arg[r])
  \/ pc[r] = "create"
  \/ pc[r] = "logout" /\ arg[r] # Malformed

\* What that statement does when the constraints let it, and when they do not.
Effect(r) ==
  \/ r \in Registers /\ Free(arg[r].login) /\ InsertUser(arg[r])
  \/ r \in Auths /\ expires[r] > dbClock /\ InsertSession(r)
  \/ r \in Logouts /\ RemoveSession(arg[r])

StatementFails(r) ==
  /\ \/ "db" \in Faults /\ (Changing(r) \/ pc[r] \in {"find", "auth"})
        /\ UNCHANGED <<tables, inDoubt>>
     \/ "indoubt" \in Faults /\ Changing(r) /\ Effect(r) /\ UNCHANGED inDoubt
     \/ "late" \in Faults /\ Changing(r)
        /\ inDoubt' = inDoubt \cup {r} /\ UNCHANGED tables
  /\ Finish(r, 500)
  /\ UNCHANGED <<clocks, arg, expires, issued, acked>>

Land(r) ==
  /\ r \in inDoubt
  /\ inDoubt' = inDoubt \ {r}
  /\ Effect(r) \/ UNCHANGED tables
  /\ UNCHANGED <<clocks, pc, arg, expires, reply, issued, acked>>

InFlight(r) == pc[r] \notin {"new", "done"}

\* The process dies and starts again: accounts and sessions are kept.
Restart ==
  /\ "crash" \in Faults
  /\ \E r \in Request : InFlight(r)
  /\ pc' = [r \in Request |-> IF InFlight(r) THEN "done" ELSE pc[r]]
  /\ reply' = [r \in Request |-> IF InFlight(r) THEN 0 ELSE reply[r]]
  /\ UNCHANGED <<tables, inDoubt, clocks, arg, expires, issued, acked>>

TickDatabase ==
  /\ dbClock < MaxTime /\ dbClock < appClock + MaxSkew
  /\ dbClock' = dbClock + 1
  /\ UNCHANGED <<tables, inDoubt, appClock, pc, arg, expires, reply, issued, acked>>

TickApplication ==
  /\ appClock < MaxTime /\ appClock < dbClock + MaxSkew
  /\ appClock' = appClock + 1
  /\ UNCHANGED <<tables, inDoubt, dbClock, pc, arg, expires, reply, issued, acked>>

Finished ==
  /\ \A r \in Request : ~InFlight(r)
  /\ UNCHANGED vars

Step(r) ==
  \/ Reject(r) \/ RefuseRegister(r) \/ CreateUser(r)
  \/ FindUser(r) \/ ComputeExpiry(r) \/ CreateSession(r)
  \/ Authenticate(r) \/ Logout(r) \/ StatementFails(r)

Next ==
  \/ \E r \in Request : Arrive(r) \/ Step(r) \/ Land(r)
  \/ TickDatabase \/ TickApplication \/ Restart \/ Finished

Spec == Init /\ [][Next]_vars

-----------------------------------------------------------------------------
TypeOK ==
  /\ users \in [Login -> Password \cup {NoUser}]
  /\ sessions \in [Auths -> Session \cup {NoSession}]
  /\ opened \in SUBSET Auths
  /\ inDoubt \in SUBSET Request
  /\ dbClock \in Nat /\ appClock \in Nat
  /\ pc \in [Request -> {"new", "register", "find", "token", "create", "auth",
                         "logout", "done"}]
  /\ arg \in [Request -> Registration \cup Credentials \cup Auths
                           \cup {Stranger, Malformed, NoArg}]
  /\ expires \in [Auths -> Nat]
  /\ reply \in [Request -> {0, 200, 400, 401, 500}]
  /\ issued \in [Auths -> Nat]
  /\ acked \in [Request -> SUBSET Registers]

(***************************************************************************)
(* Of all the registrations of a login at most one is told that it owns it *)
(* although nobody looks whether the login is free (auth.go:89-101).       *)
(***************************************************************************)
RegisteredOnce ==
  \A r, s \in Registers :
    Answered(r, 200) /\ Answered(s, 200) /\ arg[r].login = arg[s].login => r = s

(***************************************************************************)
(* The password of a login that was confirmed before is the one that opens *)
(* it, and no other does, whatever other registrations of that login are   *)
(* under way or have failed (auth.go:142-166).                             *)
(***************************************************************************)
ConfirmedPasswordOpens ==
  \A a \in Auths, r \in Registers :
    r \in acked[a] /\ arg[r].login = arg[a].login =>
      /\ Answered(a, 200) => arg[a].password = arg[r].password
      /\ Answered(a, 401) => arg[a].password # arg[r].password

(***************************************************************************)
(* A login succeeds only with the exact password that a registration with  *)
(* the admin token brought, one that validPassword accepted; bcrypt cuts   *)
(* passwords at 72 bytes and does not (auth.go:64-78, 142).                *)
(***************************************************************************)
AccountsAreApproved ==
  \A a \in Auths : Answered(a, 200) =>
    \/ Accounts[arg[a].login] = arg[a].password
    \/ \E r \in Registers :
         /\ pc[r] # "new" /\ Acceptable(arg[r])
         /\ arg[r].login = arg[a].login /\ arg[r].password = arg[a].password

(***************************************************************************)
(* No session outlives its TTL by more than the clocks differ, whichever   *)
(* clock is ahead and however long the INSERT takes (auth.go:183).         *)
(***************************************************************************)
SessionEndsInTime ==
  [][\A u \in Uses :
       pc[u] = "auth" /\ Answered(u, 200)' =>
         dbClock < issued[arg[u]] + SessionTTL + MaxSkew]_vars

(***************************************************************************)
(* A session works for the whole TTL but for what the clocks differ: until *)
(* then the INSERT passes the CHECK of the table, and a token that a login *)
(* returned is turned down only after a logout with that very token        *)
(* (auth.go:179-189, schema.sql:15; README.md:612).                        *)
(***************************************************************************)
SessionHolds ==
  [][/\ \A a \in Auths :
          pc[a] = "create" /\ Answered(a, 500)'
            /\ Faults \cap {"db", "indoubt"} = {} /\ a \notin inDoubt' =>
            dbClock + MaxSkew >= issued[a] + SessionTTL
     /\ \A u \in Uses :
          pc[u] = "auth" /\ Answered(u, 401)' /\ arg[u] \in Auths =>
            \/ dbClock + MaxSkew >= issued[arg[u]] + SessionTTL
            \/ \E m \in Logouts : arg[m] = arg[u] /\ pc[m] # "new"]_vars

(***************************************************************************)
(* Rows, clocks and lost answers amount to the sessions the document       *)
(* server relies on: a token that is dead, by a logout or by the clock,    *)
(* never comes back, and nobody else's login brings it to life.            *)
(***************************************************************************)
Abstract == INSTANCE SessionStore WITH
  Token <- Auths,
  User <- Login,
  live <- [t \in Live |-> sessions[t].user],
  spent <- opened \ Live

ImplementsSessionStore == Abstract!Spec
=============================================================================
