-------------------------- MODULE AuthServiceProofs ---------------------------
(***************************************************************************)
(* What TLAPS proves of accounts and sessions, for any requests, logins,   *)
(* passwords, clocks and failures: a login has one owner, its password     *)
(* opens it and no other does, sessions last as long as they should, and   *)
(* the rows amount to the abstract SessionStore.                           *)
(***************************************************************************)
EXTENDS AuthService, TLAPS

-----------------------------------------------------------------------------
(***************************************************************************)
(* Types, and what a request of each kind carries.                         *)
(***************************************************************************)
Forms ==
  /\ \A r \in Registers : /\ pc[r] \in {"new", "register", "done"}
                          /\ pc[r] # "new" => arg[r] \in Registration
  /\ \A r \in Auths : /\ pc[r] \in {"new", "find", "token", "create", "done"}
                      /\ pc[r] # "new" => arg[r] \in Credentials
  /\ \A r \in Uses : pc[r] \in {"new", "auth", "done"}
  /\ \A r \in Logouts : pc[r] \in {"new", "logout", "done"}
  /\ \A r \in Uses \cup Logouts :
       pc[r] # "new" => arg[r] \in Auths \cup {Stranger, Malformed}
  /\ \A r \in Request : reply[r] # 0 => pc[r] = "done"

\* A statement that may still land is a change its handler has given up.
Doubts ==
  \A r \in inDoubt :
    /\ pc[r] = "done" /\ reply[r] = 500
    /\ r \in Registers => Acceptable(arg[r])

\* The rows of sessions are those of logins that have ended.
Rows ==
  /\ \A t \in Auths : sessions[t] # NoSession => t \in opened
  /\ \A t \in opened : pc[t] = "done" /\ t \notin inDoubt

Typed == TypeOK /\ Forms /\ Doubts /\ Rows

LEMMA TypedInit == Init => Typed
<1> SUFFICES ASSUME Init PROVE Typed
  OBVIOUS
<1>1. TypeOK
  BY AccountsAssumption, PasswordAssumption, ClockAssumption DEF Init, TypeOK
<1>2. Forms
  BY RequestAssumption DEF Init, Forms, Request
<1>3. Doubts /\ Rows
  BY DEF Init, Doubts, Rows
<1> QED
  BY <1>1, <1>2, <1>3 DEF Typed

LEMMA ArgumentTypes ==
  ASSUME NEW r \in Request, NEW x \in Arguments(r)
  PROVE  /\ r \in Registers => x \in Registration
         /\ r \in Auths => x \in Credentials
         /\ r \in Uses \cup Logouts => x \in Auths \cup {Stranger, Malformed}
  BY RequestAssumption DEF Arguments, KnownTokens, Request

LEMMA TypedArrive == ASSUME Typed, NEW r \in Request, Arrive(r) PROVE Typed'
<1> PICK x \in Arguments(r) : arg' = [arg EXCEPT ![r] = x]
  BY DEF Arrive
<1>1. /\ pc[r] = "new" /\ pc' = [pc EXCEPT ![r] = Entry(r)]
      /\ UNCHANGED <<tables, inDoubt, clocks, expires, reply, issued>>
  BY DEF Arrive, Goto
<1>2. /\ r \in Registers => Entry(r) = "register"
      /\ r \in Auths => Entry(r) = "find"
      /\ r \in Uses => Entry(r) = "auth"
      /\ r \in Logouts => Entry(r) = "logout"
  BY RequestAssumption DEF Entry
<1>3. TypeOK'
  BY <1>1, <1>2, ArgumentTypes DEF Arrive, Typed, TypeOK, tables, clocks, Request
<1>4. Forms'
  BY <1>1, <1>2, ArgumentTypes, RequestAssumption DEF Typed, TypeOK, Forms, Request
<1>5. Doubts' /\ Rows'
  BY <1>1 DEF Typed, TypeOK, Doubts, Rows, tables, Acceptable, Request
<1> QED
  BY <1>3, <1>4, <1>5 DEF Typed

\* What a form brings is typed, and so is what statements make of it.
LEMMA TypedInsertUser ==
  ASSUME Typed, NEW r \in Registers, pc[r] # "new", InsertUser(arg[r])
  PROVE  users' \in [Login -> Password \cup {NoUser}] /\ UNCHANGED <<sessions, opened>>
  BY PasswordAssumption DEF Typed, TypeOK, Forms, InsertUser, Registration

LEMMA TypedInsertSession ==
  ASSUME Typed, NEW r \in Auths, pc[r] # "new", InsertSession(r)
  PROVE  /\ sessions' \in [Auths -> Session \cup {NoSession}]
         /\ opened' = opened \cup {r} /\ UNCHANGED users
         /\ \A t \in Auths : sessions'[t] # NoSession => t = r \/ sessions[t] # NoSession
  BY DEF Typed, TypeOK, Forms, InsertSession, Session, Credentials

LEMMA TypedRemoveSession ==
  ASSUME Typed, NEW t, RemoveSession(t)
  PROVE  /\ sessions' \in [Auths -> Session \cup {NoSession}]
         /\ UNCHANGED <<users, opened>>
         /\ \A x \in Auths : sessions'[x] # NoSession => sessions[x] # NoSession
  BY DEF Typed, TypeOK, RemoveSession

LEMMA TypedEffect ==
  ASSUME Typed, NEW r \in Request, pc[r] # "new", Effect(r)
  PROVE  /\ users' \in [Login -> Password \cup {NoUser}]
         /\ sessions' \in [Auths -> Session \cup {NoSession}]
         /\ opened' = opened \/ (r \in Auths /\ opened' = opened \cup {r})
         /\ \A t \in Auths :
              sessions'[t] # NoSession => sessions[t] # NoSession \/ t \in opened'
<1>1. CASE r \in Registers /\ InsertUser(arg[r])
  BY <1>1, TypedInsertUser DEF Typed, TypeOK
<1>2. CASE r \in Auths /\ InsertSession(r)
  BY <1>2, TypedInsertSession DEF Typed, TypeOK
<1>3. CASE r \in Logouts /\ RemoveSession(arg[r])
  BY <1>3, TypedRemoveSession DEF Typed, TypeOK
<1> QED
  BY <1>1, <1>2, <1>3 DEF Effect

LEMMA TypedStep == ASSUME Typed, NEW r \in Request, Step(r) PROVE Typed'
<1> USE DEF Typed, Finish, Goto, Reply
<1>1. CASE Reject(r)
  BY <1>1, RequestAssumption
  DEF Reject, TypeOK, Forms, Doubts, Rows, tables, clocks, Request, Acceptable
<1>2. CASE RefuseRegister(r)
  BY <1>2, RequestAssumption
  DEF RefuseRegister, TypeOK, Forms, Doubts, Rows, tables, clocks, Request, Acceptable
<1>3. CASE CreateUser(r)
  <2>1. r \in Registers /\ pc[r] = "register"
    BY <1>3, RequestAssumption DEF CreateUser, Forms, Request
  <2>2. TypeOK'
    BY <1>3, <2>1, TypedInsertUser DEF CreateUser, TypeOK, tables, clocks
  <2>3. Forms' /\ Doubts' /\ Rows'
    BY <1>3, <2>1, TypedInsertUser, RequestAssumption
    DEF CreateUser, TypeOK, Forms, Doubts, Rows, tables, Request, Acceptable
  <2> QED
    BY <2>2, <2>3
<1>4. CASE FindUser(r)
  BY <1>4, RequestAssumption
  DEF FindUser, TypeOK, Forms, Doubts, Rows, tables, clocks, Request, Acceptable
<1>5. CASE ComputeExpiry(r)
  <2>1. r \in Auths /\ pc[r] = "token"
    BY <1>5, RequestAssumption DEF ComputeExpiry, Forms, Request
  <2>2. TypeOK'
    BY <1>5, <2>1, ClockAssumption DEF ComputeExpiry, TypeOK, tables, clocks
  <2>3. Forms' /\ Doubts' /\ Rows'
    BY <1>5, <2>1, RequestAssumption
    DEF ComputeExpiry, TypeOK, Forms, Doubts, Rows, tables, Request, Acceptable
  <2> QED
    BY <2>2, <2>3
<1>6. CASE CreateSession(r)
  <2>1. r \in Auths /\ pc[r] = "create"
    BY <1>6, RequestAssumption DEF CreateSession, Forms, Request
  <2>2. TypeOK'
    BY <1>6, <2>1, TypedInsertSession DEF CreateSession, TypeOK, tables, clocks
  <2>3. Forms'
    BY <1>6, <2>1, RequestAssumption DEF CreateSession, TypeOK, Forms, Request
  <2>4. Doubts' /\ Rows'
    BY <1>6, <2>1, TypedInsertSession
    DEF CreateSession, TypeOK, Doubts, Rows, tables, Request, Acceptable
  <2> QED
    BY <2>2, <2>3, <2>4
<1>7. CASE Authenticate(r)
  BY <1>7, RequestAssumption
  DEF Authenticate, TypeOK, Forms, Doubts, Rows, tables, clocks, Request, Acceptable
<1>8. CASE Logout(r)
  BY <1>8, RequestAssumption
  DEF Logout, RemoveSession, TypeOK, Forms, Doubts, Rows, tables, clocks, Request, Acceptable
<1>9. CASE StatementFails(r)
  <2>1. /\ pc[r] \notin {"new", "done"} /\ reply[r] = 0
        /\ pc' = [pc EXCEPT ![r] = "done"] /\ reply' = [reply EXCEPT ![r] = 500]
        /\ UNCHANGED <<clocks, arg, expires, issued, acked>>
    BY <1>9 DEF StatementFails, Changing, TypeOK, Forms
  <2>2. Forms'
    BY <2>1, RequestAssumption DEF TypeOK, Forms, Request
  <2>3. CASE UNCHANGED <<tables, inDoubt>>
    BY <2>1, <2>2, <2>3 DEF TypeOK, Doubts, Rows, tables, clocks, Request, Acceptable
  <2>4. CASE Effect(r) /\ UNCHANGED inDoubt
    BY <2>1, <2>2, <2>4, TypedEffect DEF TypeOK, Doubts, Rows, clocks, Request, Acceptable
  <2>5. CASE Changing(r) /\ inDoubt' = inDoubt \cup {r} /\ UNCHANGED tables
    <3>1. r \in Registers => Acceptable(arg[r])
      BY <2>5, RequestAssumption DEF Changing, Forms
    <3>2. r \notin opened
      BY <2>1 DEF Rows
    <3> QED
      BY <2>1, <2>2, <2>5, <3>1, <3>2
      DEF TypeOK, Doubts, Rows, tables, clocks, Request, Acceptable
  <2> QED
    BY <1>9, <2>3, <2>4, <2>5 DEF StatementFails
<1> QED
  BY <1>1, <1>2, <1>3, <1>4, <1>5, <1>6, <1>7, <1>8, <1>9 DEF Step

LEMMA TypedNext == Typed /\ [Next]_vars => Typed'
<1> SUFFICES ASSUME Typed, [Next]_vars PROVE Typed'
  OBVIOUS
<1> USE DEF Typed
<1>1. CASE UNCHANGED vars
  BY <1>1 DEF vars, tables, clocks, TypeOK, Forms, Doubts, Rows
<1>2. CASE Finished
  BY <1>1, <1>2 DEF Finished
<1>3. CASE TickDatabase \/ TickApplication
  BY <1>3 DEF TickDatabase, TickApplication, tables, TypeOK, Forms, Doubts, Rows
<1>4. CASE Restart
  BY <1>4 DEF Restart, InFlight, tables, clocks, TypeOK, Forms, Doubts, Rows, Request
<1>5. ASSUME NEW r \in Request, Land(r)
      PROVE  Typed'
  <2>1. /\ pc[r] = "done" /\ r \in inDoubt /\ inDoubt' = inDoubt \ {r}
        /\ UNCHANGED <<clocks, pc, arg, expires, reply, issued, acked>>
    BY <1>5 DEF Land, Doubts
  <2>2. CASE UNCHANGED tables
    BY <2>1, <2>2 DEF TypeOK, Forms, Doubts, Rows, tables, clocks
  <2>3. CASE Effect(r)
    BY <2>1, <2>3, TypedEffect DEF TypeOK, Forms, Doubts, Rows, clocks
  <2> QED
    BY <1>5, <2>2, <2>3 DEF Land
<1> QED
  BY <1>1, <1>2, <1>3, <1>4, <1>5, TypedArrive, TypedStep DEF Next

LEMMA TypedInvariance == Spec => []Typed
  BY TypedInit, TypedNext, PTL DEF Spec

(***************************************************************************)
(* Type correctness of accounts and sessions.                              *)
(***************************************************************************)
THEOREM TypeCorrect == Spec => []TypeOK
<1>1. Typed => TypeOK
  BY DEF Typed
<1> QED
  BY <1>1, TypedInvariance, PTL

-----------------------------------------------------------------------------
(***************************************************************************)
(* What a step does to the requests and to the table of users.             *)
(***************************************************************************)
\* A form stays what it was, and an answer is the last word.
Steady(r) ==
  /\ pc[r] # "new" => pc'[r] # "new" /\ arg'[r] = arg[r] /\ acked'[r] = acked[r]
  /\ pc[r] = "done" => pc'[r] = "done" /\ reply'[r] = reply[r]

LEMMA Steadfast ==
  ASSUME Typed, [Next]_vars, NEW r \in Request
  PROVE  Steady(r)
<1> USE DEF Typed, TypeOK, Steady
<1>1. ASSUME NEW q \in Request, Arrive(q) PROVE Steady(r)
  BY <1>1 DEF Arrive, Goto, Entry
<1>2. ASSUME NEW q \in Request, Step(q) PROVE Steady(r)
  BY <1>2
  DEF Step, Reject, RefuseRegister, CreateUser, FindUser, ComputeExpiry, CreateSession,
      Authenticate, Logout, StatementFails, Changing, Finish, Goto, Reply
<1>3. ASSUME NEW q \in Request, Land(q) PROVE Steady(r)
  BY <1>3 DEF Land
<1>4. CASE Restart
  BY <1>4 DEF Restart, InFlight
<1>5. CASE TickDatabase \/ TickApplication \/ Finished \/ UNCHANGED vars
  BY <1>5 DEF TickDatabase, TickApplication, Finished, vars
<1> QED
  BY <1>1, <1>2, <1>3, <1>4, <1>5 DEF Next

\* r inserts the row of its login.
TakesLogin(r) ==
  /\ pc[r] # "new" /\ Acceptable(arg[r]) /\ Free(arg[r].login)
  /\ users' = [users EXCEPT ![arg[r].login] = arg[r].password]

LEMMA InsertTakesLogin ==
  ASSUME Typed, NEW r \in Registers, pc[r] # "new", Acceptable(arg[r]), Free(arg[r].login),
         InsertUser(arg[r])
  PROVE  TakesLogin(r)
  BY PasswordAssumption DEF Acceptable, InsertUser, TakesLogin

LEMMA UsersGrow ==
  ASSUME Typed, [Next]_vars, ~UNCHANGED users
  PROVE  \E r \in Registers : TakesLogin(r)
<1> USE DEF Typed
<1>1. ASSUME NEW q \in Request, Effect(q), pc[q] # "new",
             q \in Registers => Acceptable(arg[q])
      PROVE  \E r \in Registers : TakesLogin(r)
  BY <1>1, InsertTakesLogin DEF Effect, InsertSession, RemoveSession
<1>2. ASSUME NEW q \in Request, StatementFails(q) PROVE \E r \in Registers : TakesLogin(r)
  BY <1>1, <1>2, RequestAssumption DEF StatementFails, Changing, tables, Forms, Request
<1>3. ASSUME NEW q \in Request, CreateUser(q) PROVE \E r \in Registers : TakesLogin(r)
  BY <1>3, InsertTakesLogin, RequestAssumption DEF CreateUser, tables, Forms, Request
<1>4. ASSUME NEW q \in Request, Land(q) PROVE \E r \in Registers : TakesLogin(r)
  BY <1>1, <1>4 DEF Land, Doubts, tables
<1>5. ASSUME NEW q \in Request, Arrive(q) \/ Step(q) PROVE \E r \in Registers : TakesLogin(r)
  BY <1>2, <1>3, <1>5
  DEF Arrive, Step, Reject, RefuseRegister, FindUser, ComputeExpiry, CreateSession,
      InsertSession, Authenticate, Logout, RemoveSession, tables
<1> QED
  BY <1>4, <1>5 DEF Next, TickDatabase, TickApplication, Restart, Finished, vars, tables

LEMMA RegisterAnswers ==
  ASSUME Typed, [Next]_vars, NEW r \in Registers, Answered(r, 200)', ~Answered(r, 200)
  PROVE  TakesLogin(r)
<1> USE DEF Typed, TypeOK, Answered
<1>1. ASSUME NEW q \in Request, Step(q) PROVE TakesLogin(r)
  <2>1. q = r
    BY <1>1
    DEF Step, Reject, RefuseRegister, CreateUser, FindUser, ComputeExpiry, CreateSession,
        Authenticate, Logout, StatementFails, Finish, Goto, Reply, Request
  <2>2. CreateUser(r)
    BY <1>1, <2>1, RequestAssumption
    DEF Step, Reject, RefuseRegister, FindUser, ComputeExpiry, CreateSession,
        Authenticate, Logout, StatementFails, Finish, Goto, Reply, Forms, Request
  <2> QED
    BY <2>2, InsertTakesLogin DEF CreateUser, Finish, Goto, Reply, Request
<1>2. ASSUME NEW q \in Request, Arrive(q) PROVE TakesLogin(r)
  BY <1>2, RequestAssumption DEF Arrive, Goto, Entry, Request
<1>3. CASE Restart
  BY <1>3 DEF Restart, InFlight, Request
<1> QED
  BY <1>1, <1>2, <1>3 DEF Next, Land, TickDatabase, TickApplication, Finished, vars

\* Two registrations of one login are not confirmed by the same step.
LEMMA OneRegistrationAtATime ==
  ASSUME Typed, [Next]_vars,
         NEW r \in Registers, Answered(r, 200)', ~Answered(r, 200),
         NEW s \in Registers, Answered(s, 200)', ~Answered(s, 200)
  PROVE  r = s
<1> USE DEF Typed, TypeOK, Answered
<1>1. ASSUME NEW q \in Request, Step(q) PROVE q = r /\ q = s
  BY <1>1
  DEF Step, Reject, RefuseRegister, CreateUser, FindUser, ComputeExpiry, CreateSession,
      Authenticate, Logout, StatementFails, Finish, Goto, Reply, Request
<1>2. ASSUME NEW q \in Request, Arrive(q) PROVE r = s
  BY <1>2, RequestAssumption DEF Arrive, Goto, Entry, Request
<1>3. CASE Restart
  BY <1>3 DEF Restart, InFlight, Request
<1> QED
  BY <1>1, <1>2, <1>3 DEF Next, Land, TickDatabase, TickApplication, Finished, vars

\* A request knows the registrations that were confirmed when it arrived.
Knows(x) ==
  \A r \in acked'[x] : r \in acked[x] \/ (r \in Registers /\ Answered(r, 200))

LEMMA AckedStep ==
  ASSUME Typed, [Next]_vars, NEW x \in Request
  PROVE  Knows(x)
<1> USE DEF Typed, TypeOK, Knows
<1>1. ASSUME NEW q \in Request, Arrive(q) PROVE Knows(x)
  BY <1>1 DEF Arrive
<1> QED
  BY <1>1
  DEF Next, Step, Reject, RefuseRegister, CreateUser, FindUser, ComputeExpiry, CreateSession,
      Authenticate, Logout, StatementFails, Land, TickDatabase, TickApplication, Restart,
      Finished, vars

\* a has shown the password of its login.
Admitted(a) == pc[a] \in {"token", "create"} \/ Answered(a, 200)

ByPassword(a) ==
  /\ Admitted(a)' => Admitted(a) \/ (pc[a] = "find" /\ Matches(arg[a]))
  /\ Answered(a, 401)' => Answered(a, 401) \/ (pc[a] = "find" /\ ~Matches(arg[a]))

LEMMA LoginAnswers ==
  ASSUME Typed, [Next]_vars, NEW a \in Auths
  PROVE  ByPassword(a)
<1> USE DEF Typed, TypeOK, ByPassword, Admitted, Answered
<1>1. ASSUME NEW q \in Request, Step(q), q # a PROVE ByPassword(a)
  BY <1>1
  DEF Step, Reject, RefuseRegister, CreateUser, FindUser, ComputeExpiry, CreateSession,
      Authenticate, Logout, StatementFails, Finish, Goto, Reply, Request
<1>2. CASE Step(a)
  BY <1>2, RequestAssumption
  DEF Step, Reject, RefuseRegister, CreateUser, FindUser, ComputeExpiry, CreateSession,
      Authenticate, Logout, StatementFails, Finish, Goto, Reply, Forms, Request
<1>3. ASSUME NEW q \in Request, Arrive(q) PROVE ByPassword(a)
  BY <1>3, RequestAssumption DEF Arrive, Goto, Entry, Request
<1>4. CASE Restart
  BY <1>4 DEF Restart, InFlight, Request
<1> QED
  BY <1>1, <1>2, <1>3, <1>4 DEF Next, Land, TickDatabase, TickApplication, Finished, vars

-----------------------------------------------------------------------------
(***************************************************************************)
(* Accounts: who owns a login, and what it was told.                       *)
(***************************************************************************)
OwnerKeepsLogin ==
  \A r \in Registers : Answered(r, 200) =>
    Acceptable(arg[r]) /\ users[arg[r].login] = arg[r].password

AckedAreAnswered ==
  \A x \in Request : \A r \in acked[x] : Answered(r, 200)

AdmittedByPassword ==
  \A a \in Auths : Admitted(a) =>
    users[arg[a].login] = arg[a].password /\ arg[a].password \in Password

RefusedForPassword ==
  \A a \in Auths : Answered(a, 401) =>
    \A r \in acked[a] :
      arg[r].login = arg[a].login => arg[a].password # arg[r].password

RowsAreApproved ==
  \A l \in Login : users[l] # NoUser =>
    \/ Accounts[l] = users[l]
    \/ \E r \in Registers : /\ pc[r] # "new" /\ Acceptable(arg[r])
                            /\ arg[r].login = l /\ arg[r].password = users[l]

AccountInv ==
  /\ Typed
  /\ OwnerKeepsLogin /\ RegisteredOnce /\ AckedAreAnswered
  /\ AdmittedByPassword /\ RefusedForPassword /\ RowsAreApproved

\* A row of users is never replaced.
LEMMA RowsStay ==
  ASSUME AccountInv, [Next]_vars, NEW l \in Login, users[l] # NoUser
  PROVE  users'[l] = users[l]
  BY UsersGrow DEF AccountInv, Typed, TypeOK, TakesLogin, Free

LEMMA AccountNext == AccountInv /\ [Next]_vars => AccountInv'
<1> SUFFICES ASSUME AccountInv, [Next]_vars PROVE AccountInv'
  OBVIOUS
<1> USE DEF AccountInv
<1>1. Typed'
  BY TypedNext
<1>2. \A r \in Request : pc[r] # "new" =>
        pc'[r] # "new" /\ arg'[r] = arg[r] /\ acked'[r] = acked[r]
  BY Steadfast DEF Steady
<1>3. \A r \in Request, c \in {200, 401} : Answered(r, c) => Answered(r, c)'
  BY Steadfast DEF Steady, Answered
<1>4. \A r \in Registers : pc[r] # "new" => arg[r].login \in Login /\ arg[r].password \in Password
  BY DEF Typed, Forms, Registration
<1>5. \A a \in Auths : pc[a] # "new" => arg[a].login \in Login /\ arg[a].password \in Password
  BY DEF Typed, Forms, Credentials
<1>6. Registers \subseteq Request /\ Auths \subseteq Request
  BY DEF Request
<1>7. OwnerKeepsLogin'
  <2> SUFFICES ASSUME NEW r \in Registers, Answered(r, 200)'
               PROVE  Acceptable(arg'[r]) /\ users'[arg'[r].login] = arg'[r].password
    BY DEF OwnerKeepsLogin, Acceptable
  <2>1. CASE Answered(r, 200)
    <3>1. pc[r] # "new" /\ users[arg[r].login] = arg[r].password /\ Acceptable(arg[r])
      BY <2>1 DEF OwnerKeepsLogin, Answered
    <3>2. users[arg[r].login] # NoUser
      BY <3>1, <1>4, LoginAssumption
    <3> QED
      BY <3>1, <3>2, <1>2, <1>4, <1>6, RowsStay
  <2>2. CASE ~Answered(r, 200)
    BY <2>2, <1>2, <1>4, <1>6, RegisterAnswers DEF TakesLogin, Typed, TypeOK
  <2> QED
    BY <2>1, <2>2
<1>8. RegisteredOnce'
  <2>1. ASSUME NEW r \in Registers, NEW s \in Registers, Answered(r, 200)', Answered(s, 200)',
               arg'[r].login = arg'[s].login, ~Answered(r, 200)
        PROVE  r = s
    <3>1. TakesLogin(r) /\ pc[r] # "new"
      BY <2>1, RegisterAnswers DEF TakesLogin
    <3>2. CASE Answered(s, 200)
      <4>1. pc[s] # "new" /\ arg[s].login = arg[r].login /\ users[arg[s].login] # NoUser
        BY <2>1, <3>1, <3>2, <1>2, <1>4, <1>6, LoginAssumption DEF OwnerKeepsLogin, Answered
      <4> QED
        BY <3>1, <4>1 DEF TakesLogin, Free
    <3>3. CASE ~Answered(s, 200)
      BY <2>1, <3>1, <3>3, OneRegistrationAtATime
    <3> QED
      BY <3>2, <3>3
  <2>2. ASSUME NEW r \in Registers, NEW s \in Registers, Answered(r, 200), Answered(s, 200),
               arg'[r].login = arg'[s].login
        PROVE  r = s
    BY <2>2, <1>2, <1>6 DEF RegisteredOnce, Answered
  <2> QED
    BY <2>1, <2>2 DEF RegisteredOnce
<1>9. AckedAreAnswered'
  BY <1>3, <1>6, AckedStep DEF AckedAreAnswered, Knows, Typed, TypeOK
<1>10. AdmittedByPassword'
  <2> SUFFICES ASSUME NEW a \in Auths, Admitted(a)'
               PROVE  users'[arg'[a].login] = arg'[a].password /\ arg'[a].password \in Password
    BY DEF AdmittedByPassword
  <2>1. pc[a] # "new" /\ users[arg[a].login] = arg[a].password
    BY LoginAnswers, <1>5, PasswordAssumption
    DEF AdmittedByPassword, ByPassword, Admitted, Answered, Matches
  <2>2. users[arg[a].login] # NoUser
    BY <2>1, <1>5, LoginAssumption
  <2> QED
    BY <2>1, <2>2, <1>2, <1>5, <1>6, RowsStay
<1>11. RefusedForPassword'
  <2> SUFFICES ASSUME NEW a \in Auths, Answered(a, 401)', NEW r \in acked'[a],
                      arg'[r].login = arg'[a].login
               PROVE  arg'[a].password # arg'[r].password
    BY DEF RefusedForPassword
  <2>1. pc[a] # "new"
    BY LoginAnswers DEF ByPassword, Answered
  <2>2. r \in acked[a] /\ arg'[a] = arg[a] /\ Answered(r, 200) /\ r \in Registers
    BY <2>1, <1>2, <1>6 DEF AckedAreAnswered, Typed, TypeOK
  <2>3. arg'[r] = arg[r] /\ Acceptable(arg[r]) /\ users[arg[r].login] = arg[r].password
    BY <2>2, <1>2, <1>6 DEF OwnerKeepsLogin, Answered
  <2>4. CASE Answered(a, 401)
    BY <2>2, <2>3, <2>4 DEF RefusedForPassword
  <2>5. CASE ~Matches(arg[a])
    BY <2>2, <2>3, <2>5, PasswordAssumption DEF Matches, Acceptable
  <2> QED
    BY <2>4, <2>5, LoginAnswers DEF ByPassword
<1>12. RowsAreApproved'
  <2> SUFFICES ASSUME NEW l \in Login, users'[l] # NoUser
               PROVE  \/ Accounts[l] = users'[l]
                      \/ \E r \in Registers : /\ pc'[r] # "new" /\ Acceptable(arg'[r])
                                              /\ arg'[r].login = l
                                              /\ arg'[r].password = users'[l]
    BY DEF RowsAreApproved, Acceptable
  <2>1. CASE users'[l] = users[l]
    BY <2>1, <1>2, <1>6 DEF RowsAreApproved
  <2>2. CASE users'[l] # users[l]
    <3>1. PICK r \in Registers : TakesLogin(r)
      BY <2>2, UsersGrow
    <3> QED
      BY <2>2, <3>1, <1>2, <1>4, <1>6 DEF TakesLogin, Typed, TypeOK
  <2> QED
    BY <2>1, <2>2
<1> QED
  BY <1>1, <1>7, <1>8, <1>9, <1>10, <1>11, <1>12

LEMMA AccountInvariance == Spec => []AccountInv
<1>1. Init => AccountInv
  <2> SUFFICES ASSUME Init PROVE AccountInv
    OBVIOUS
  <2>1. Typed
    BY TypedInit
  <2>2. \A r \in Request : pc[r] = "new" /\ reply[r] = 0 /\ acked[r] = {}
    BY DEF Init
  <2>3. RowsAreApproved
    BY DEF Init, RowsAreApproved
  <2> QED
    BY <2>1, <2>2, <2>3
    DEF AccountInv, OwnerKeepsLogin, RegisteredOnce, AckedAreAnswered, AdmittedByPassword,
        RefusedForPassword, Admitted, Answered, Request
<1> QED
  BY <1>1, AccountNext, PTL DEF Spec

(***************************************************************************)
(* A login is promised to one registration only, however many race for it  *)
(* (auth.go:89-101).                                                       *)
(***************************************************************************)
THEOREM OneOwner == Spec => []RegisteredOnce
<1>1. AccountInv => RegisteredOnce
  BY DEF AccountInv
<1> QED
  BY <1>1, AccountInvariance, PTL

(***************************************************************************)
(* After a registration was confirmed its password opens the login, and no *)
(* other does (auth.go:142-166).                                           *)
(***************************************************************************)
THEOREM PasswordOpens == Spec => []ConfirmedPasswordOpens
<1>1. AccountInv => ConfirmedPasswordOpens
  BY DEF AccountInv, ConfirmedPasswordOpens, AckedAreAnswered, OwnerKeepsLogin,
         AdmittedByPassword, RefusedForPassword, Admitted, Request
<1> QED
  BY <1>1, AccountInvariance, PTL

(***************************************************************************)
(* Only a password that an admin brought with its login opens it           *)
(* (auth.go:64-78, 142).                                                   *)
(***************************************************************************)
THEOREM OnlyApprovedAccounts == Spec => []AccountsAreApproved
<1>1. AccountInv => AccountsAreApproved
  <2> SUFFICES ASSUME AccountInv, NEW a \in Auths, Answered(a, 200)
               PROVE  \/ Accounts[arg[a].login] = arg[a].password
                      \/ \E r \in Registers :
                           /\ pc[r] # "new" /\ Acceptable(arg[r])
                           /\ arg[r].login = arg[a].login /\ arg[r].password = arg[a].password
    BY DEF AccountsAreApproved
  <2>1. users[arg[a].login] = arg[a].password /\ arg[a].password # NoUser
    BY LoginAssumption DEF AccountInv, AdmittedByPassword, Admitted
  <2>2. arg[a].login \in Login
    BY DEF AccountInv, Typed, Forms, Credentials, Answered
  <2> QED
    BY <2>1, <2>2 DEF AccountInv, RowsAreApproved
<1> QED
  BY <1>1, AccountInvariance, PTL

-----------------------------------------------------------------------------
(***************************************************************************)
(* Sessions: two clocks, and the expiry between them.                      *)
(***************************************************************************)
Clocks ==
  dbClock <= appClock + MaxSkew /\ appClock <= dbClock + MaxSkew

\* The expiry is that of the login, give or take what the clocks differ.
Expiries ==
  /\ \A a \in Auths : /\ issued[a] \in Nat /\ expires[a] \in Nat
                      /\ expires[a] <= issued[a] + SessionTTL + MaxSkew
                      /\ pc[a] = "create" \/ a \in inDoubt \/ a \in opened =>
                           issued[a] + SessionTTL <= expires[a] + MaxSkew
  /\ \A t \in Auths : sessions[t] # NoSession => sessions[t].expires = expires[t]

\* A row is gone only after a logout with its token.
Removals ==
  /\ \A t \in Auths : Answered(t, 200) => t \in opened
  /\ \A t \in opened : sessions[t] = NoSession =>
       \E m \in Logouts : arg[m] = t /\ pc[m] # "new"
  /\ \A u \in Uses \cup Logouts :
       pc[u] # "new" /\ arg[u] \in Auths => Answered(arg[u], 200)

ClockInv == Typed /\ Clocks /\ Expiries /\ Removals

LEMMA ClocksNext == Typed /\ Clocks /\ [Next]_vars => Clocks'
  BY ClockAssumption
  DEF Typed, TypeOK, Clocks, Next, Arrive, Step, Reject, RefuseRegister, CreateUser, FindUser,
      ComputeExpiry, CreateSession, Authenticate, Logout, StatementFails, Land, Restart,
      TickDatabase, TickApplication, Finished, vars, clocks

\* What a step does to a row of sessions and to the expiry it is made from.
RowStep(t) ==
  \/ sessions'[t] = sessions[t] /\ (t \in opened' => t \in opened)
  \/ /\ sessions[t] # NoSession /\ sessions'[t] = NoSession /\ (t \in opened' => t \in opened)
     /\ \E m \in Logouts : arg[m] = t /\ pc[m] # "new"
  \/ /\ pc[t] = "create" \/ t \in inDoubt
     /\ sessions'[t] = [user |-> arg[t].login, expires |-> expires[t]]
     /\ sessions'[t] # NoSession
     /\ expires[t] > dbClock

LEMMA EffectOnRow ==
  ASSUME Typed, NEW q \in Request, Effect(q), pc[q] # "new",
         q \in Auths => pc[q] = "create" \/ q \in inDoubt, NEW t \in Auths
  PROVE  RowStep(t)
<1> USE DEF Typed, TypeOK
<1>1. CASE q \in Registers /\ InsertUser(arg[q])
  BY <1>1 DEF InsertUser, RowStep
<1>2. CASE q \in Auths /\ expires[q] > dbClock /\ InsertSession(q)
  <2>1. [user |-> arg[q].login, expires |-> expires[q]] \in Session
    BY <1>2 DEF Session, Forms, Credentials
  <2> QED
    BY <1>2, <2>1, TokenAssumption DEF InsertSession, RowStep
<1>3. CASE q \in Logouts /\ RemoveSession(arg[q])
  BY <1>3 DEF RemoveSession, RowStep
<1> QED
  BY <1>1, <1>2, <1>3 DEF Effect

LEMMA RowsStep ==
  ASSUME Typed, [Next]_vars, NEW t \in Auths
  PROVE  RowStep(t)
<1> USE DEF Typed
<1>1. CASE UNCHANGED tables
  BY <1>1 DEF tables, RowStep
<1>2. ASSUME NEW q \in Request, CreateUser(q) PROVE RowStep(t)
  BY <1>2 DEF CreateUser, InsertUser, tables, RowStep
<1>3. ASSUME NEW q \in Request, CreateSession(q) PROVE RowStep(t)
  BY <1>1, <1>3, EffectOnRow, RequestAssumption DEF CreateSession, Effect, Forms, Request
<1>4. ASSUME NEW q \in Request, Logout(q) PROVE RowStep(t)
  BY <1>1, <1>4, EffectOnRow, RequestAssumption DEF Logout, Effect, Forms, Request
<1>5. ASSUME NEW q \in Request, StatementFails(q) PROVE RowStep(t)
  BY <1>1, <1>5, EffectOnRow, RequestAssumption
  DEF StatementFails, Changing, tables, Forms, Request
<1>6. ASSUME NEW q \in Request, Land(q) PROVE RowStep(t)
  BY <1>1, <1>6, EffectOnRow DEF Land, Doubts
<1> QED
  BY <1>1, <1>2, <1>3, <1>4, <1>5, <1>6
  DEF Next, Step, Arrive, Reject, RefuseRegister, FindUser, ComputeExpiry, Authenticate,
      TickDatabase, TickApplication, Restart, Finished, vars

LEMMA OpenedGrows ==
  ASSUME Typed, [Next]_vars
  PROVE  opened \subseteq opened'
<1> USE DEF InsertUser, InsertSession, RemoveSession, tables
<1>1. \A q \in Request : Effect(q) => opened \subseteq opened'
  BY DEF Effect
<1> QED
  BY <1>1
  DEF Next, Arrive, Step, Reject, RefuseRegister, CreateUser, FindUser, ComputeExpiry,
      CreateSession, Authenticate, Logout, StatementFails, Land, TickDatabase,
      TickApplication, Restart, Finished, vars

\* What a step does to the expiry a login has computed.
ExpiryStep(a) ==
  \/ /\ UNCHANGED <<expires[a], issued[a]>>
     /\ pc'[a] = "create" \/ a \in inDoubt' => pc[a] = "create" \/ a \in inDoubt
  \/ /\ pc[a] = "token" /\ pc'[a] = "create" /\ a \notin inDoubt'
     /\ expires'[a] = appClock + SessionTTL /\ issued'[a] = dbClock

LEMMA ExpiriesStep ==
  ASSUME Typed, [Next]_vars, NEW a \in Auths
  PROVE  ExpiryStep(a)
<1> USE DEF Typed, TypeOK, ExpiryStep
<1>1. ASSUME NEW q \in Request, Step(q), q # a PROVE ExpiryStep(a)
  BY <1>1, RequestAssumption
  DEF Step, Reject, RefuseRegister, CreateUser, FindUser, ComputeExpiry, CreateSession,
      Authenticate, Logout, StatementFails, Finish, Goto, Request
<1>2. CASE Step(a)
  BY <1>2, RequestAssumption
  DEF Step, Reject, RefuseRegister, CreateUser, FindUser, ComputeExpiry, CreateSession,
      Authenticate, Logout, StatementFails, Changing, Finish, Goto, Forms, Doubts, Request
<1>3. ASSUME NEW q \in Request, Arrive(q) PROVE ExpiryStep(a)
  BY <1>3, RequestAssumption DEF Arrive, Goto, Entry, Request
<1>4. ASSUME NEW q \in Request, Land(q) PROVE ExpiryStep(a)
  BY <1>4 DEF Land
<1>5. CASE Restart
  BY <1>5 DEF Restart, Request
<1> QED
  BY <1>1, <1>2, <1>3, <1>4, <1>5
  DEF Next, TickDatabase, TickApplication, Finished, vars

LEMMA ExpiriesNext == ClockInv /\ [Next]_vars => Expiries'
<1> SUFFICES ASSUME ClockInv, [Next]_vars PROVE Expiries'
  OBVIOUS
<1> USE DEF ClockInv
<1>1. ASSUME NEW a \in Auths
      PROVE  /\ issued'[a] \in Nat /\ expires'[a] \in Nat
             /\ expires'[a] <= issued'[a] + SessionTTL + MaxSkew
             /\ pc'[a] = "create" \/ a \in inDoubt' \/ a \in opened' =>
                  issued'[a] + SessionTTL <= expires'[a] + MaxSkew
  <2>1. a \in opened' => a \in opened \/ pc[a] = "create" \/ a \in inDoubt
    BY <1>1, RowsStep DEF RowStep
  <2>2. CASE /\ UNCHANGED <<expires[a], issued[a]>>
             /\ pc'[a] = "create" \/ a \in inDoubt' => pc[a] = "create" \/ a \in inDoubt
    BY <1>1, <2>1, <2>2 DEF Expiries
  <2>3. CASE pc[a] = "token" /\ expires'[a] = appClock + SessionTTL /\ issued'[a] = dbClock
    BY <2>3, ClockAssumption DEF Clocks, Typed, TypeOK
  <2> QED
    BY <1>1, <2>2, <2>3, ExpiriesStep DEF ExpiryStep
<1>2. ASSUME NEW t \in Auths, sessions'[t] # NoSession
      PROVE  sessions'[t].expires = expires'[t]
  <2>1. CASE sessions'[t] = sessions[t]
    <3>1. pc[t] = "done" /\ sessions[t].expires = expires[t]
      BY <1>2, <2>1 DEF Typed, Rows, Expiries
    <3> QED
      BY <1>2, <2>1, <3>1, ExpiriesStep DEF ExpiryStep
  <2>2. CASE /\ pc[t] = "create" \/ t \in inDoubt
             /\ sessions'[t] = [user |-> arg[t].login, expires |-> expires[t]]
    BY <1>2, <2>2, ExpiriesStep DEF ExpiryStep, Typed, Doubts
  <2> QED
    BY <1>2, <2>1, <2>2, RowsStep DEF RowStep
<1> QED
  BY <1>1, <1>2 DEF Expiries

\* A login is told its token by the step that inserts the session.
LEMMA TokenAnswers ==
  ASSUME Typed, [Next]_vars, NEW t \in Auths, Answered(t, 200)', ~Answered(t, 200)
  PROVE  t \in opened'
<1> USE DEF Typed, TypeOK, Answered
<1>1. ASSUME NEW q \in Request, Step(q), q # t PROVE FALSE
  BY <1>1
  DEF Step, Reject, RefuseRegister, CreateUser, FindUser, ComputeExpiry, CreateSession,
      Authenticate, Logout, StatementFails, Finish, Goto, Reply, Request
<1>2. CASE Step(t)
  BY <1>2, RequestAssumption
  DEF Step, Reject, RefuseRegister, CreateUser, FindUser, ComputeExpiry, CreateSession,
      InsertSession, Authenticate, Logout, StatementFails, Finish, Goto, Reply, Forms, Request
<1>3. ASSUME NEW q \in Request, Arrive(q) PROVE FALSE
  BY <1>3, RequestAssumption DEF Arrive, Goto, Entry, Request
<1>4. CASE Restart
  BY <1>4 DEF Restart, InFlight, Request
<1> QED
  BY <1>1, <1>2, <1>3, <1>4 DEF Next, Land, TickDatabase, TickApplication, Finished, vars

\* A lookup or logout uses a token that was told, or one it made up.
LEMMA TokensAreTold ==
  ASSUME Typed, [Next]_vars, NEW u \in Uses \cup Logouts, pc[u] = "new", pc'[u] # "new",
         arg'[u] \in Auths
  PROVE  Answered(arg'[u], 200)
<1> USE DEF Typed, TypeOK
<1>1. ASSUME NEW q \in Request, Arrive(q) PROVE Answered(arg'[u], 200)
  BY <1>1, RequestAssumption, TokenAssumption DEF Arrive, Goto, Arguments, KnownTokens, Request
<1> QED
  BY <1>1
  DEF Next, Step, Reject, RefuseRegister, CreateUser, FindUser, ComputeExpiry, CreateSession,
      Authenticate, Logout, StatementFails, Changing, Finish, Goto, Land, TickDatabase,
      TickApplication, Restart, InFlight, Finished, vars, Request

LEMMA RemovalsNext == ClockInv /\ [Next]_vars => Removals'
<1> SUFFICES ASSUME ClockInv, [Next]_vars PROVE Removals'
  OBVIOUS
<1> USE DEF ClockInv
<1>1. \A r \in Request : Steady(r)
  BY Steadfast
<1>2. \A t \in Auths : t \in opened => t \in opened'
  BY OpenedGrows
<1>3. ASSUME NEW t \in Auths, Answered(t, 200)' PROVE t \in opened'
  BY <1>2, <1>3, TokenAnswers DEF Removals
<1>4. ASSUME NEW t \in opened', sessions'[t] = NoSession
      PROVE  \E m \in Logouts : arg'[m] = t /\ pc'[m] # "new"
  <2>1. t \in Auths
    BY <1>4, TypedNext DEF Typed, TypeOK
  <2>2. \E m \in Logouts : arg[m] = t /\ pc[m] # "new"
    BY <1>4, <2>1, RowsStep DEF RowStep, Removals
  <2> QED
    BY <2>2, <1>1 DEF Steady, Request
<1>5. ASSUME NEW u \in Uses \cup Logouts, pc'[u] # "new",
             NEW t \in Auths, arg'[u] = t
      PROVE  Answered(t, 200)'
  <2>1. Answered(t, 200)
    BY <1>1, <1>5, TokensAreTold DEF Removals, Steady, Request
  <2> QED
    BY <1>1, <1>5, <2>1 DEF Steady, Answered, Request
<1> QED
  BY <1>3, <1>4, <1>5 DEF Removals, Answered

LEMMA ClockInvariance == Spec => []ClockInv
<1>1. Init => ClockInv
  <2> SUFFICES ASSUME Init PROVE ClockInv
    OBVIOUS
  <2>1. Clocks /\ Expiries
    BY ClockAssumption, RequestAssumption DEF Init, Clocks, Expiries, Request
  <2>2. Removals
    BY RequestAssumption DEF Init, Removals, Answered, Request
  <2> QED
    BY <2>1, <2>2, TypedInit DEF ClockInv
<1>2. ClockInv /\ [Next]_vars => ClockInv'
  BY TypedNext, ClocksNext, ExpiriesNext, RemovalsNext DEF ClockInv
<1> QED
  BY <1>1, <1>2, PTL DEF Spec

\* What a lookup says follows from the rows and the clock of its statement.
LEMMA LookupAnswers ==
  ASSUME Typed, [Next]_vars, NEW u \in Uses, pc[u] = "auth"
  PROVE  /\ Answered(u, 200)' => arg[u] \in Live
         /\ Answered(u, 401)' => arg[u] \notin Live
<1> USE DEF Typed, TypeOK, Answered
<1>1. ASSUME NEW q \in Request, Step(q), q # u PROVE pc'[u] # "done"
  BY <1>1
  DEF Step, Reject, RefuseRegister, CreateUser, FindUser, ComputeExpiry, CreateSession,
      Authenticate, Logout, StatementFails, Finish, Goto, Request
<1>2. CASE Step(u)
  BY <1>2, RequestAssumption
  DEF Step, Reject, RefuseRegister, CreateUser, FindUser, ComputeExpiry, CreateSession,
      Authenticate, Logout, StatementFails, Finish, Goto, Reply, Request
<1>3. ASSUME NEW q \in Request, Arrive(q) PROVE pc'[u] # "done"
  BY <1>3 DEF Arrive, Goto, Request
<1>4. CASE Restart
  BY <1>4 DEF Restart, InFlight, Request
<1> QED
  BY <1>1, <1>2, <1>3, <1>4 DEF Next, Land, TickDatabase, TickApplication, Finished, vars

\* An INSERT that neither failed nor is in doubt was refused for its expiry.
LEMMA InsertRefused ==
  ASSUME Typed, [Next]_vars, NEW a \in Auths, pc[a] = "create", Answered(a, 500)',
         Faults \cap {"db", "indoubt"} = {}, a \notin inDoubt'
  PROVE  ~(expires[a] > dbClock)
<1> USE DEF Typed, TypeOK, Answered
<1>1. ASSUME NEW q \in Request, Step(q), q # a PROVE FALSE
  BY <1>1
  DEF Step, Reject, RefuseRegister, CreateUser, FindUser, ComputeExpiry, CreateSession,
      Authenticate, Logout, StatementFails, Finish, Goto, Request
<1>2. CASE Step(a)
  BY <1>2, RequestAssumption
  DEF Step, Reject, RefuseRegister, CreateUser, FindUser, ComputeExpiry, CreateSession,
      Authenticate, Logout, StatementFails, Finish, Goto, Reply, Request
<1>3. ASSUME NEW q \in Request, Arrive(q) PROVE FALSE
  BY <1>3 DEF Arrive, Goto, Request
<1>4. CASE Restart
  BY <1>4 DEF Restart, InFlight, Request
<1> QED
  BY <1>1, <1>2, <1>3, <1>4 DEF Next, Land, TickDatabase, TickApplication, Finished, vars

(***************************************************************************)
(* No session outlives its TTL by more than the clocks differ              *)
(* (auth.go:183).                                                          *)
(***************************************************************************)
THEOREM SessionsEnd == Spec => SessionEndsInTime
<1>1. ClockInv /\ [Next]_vars
        => [\A u \in Uses : pc[u] = "auth" /\ Answered(u, 200)' =>
              dbClock < issued[arg[u]] + SessionTTL + MaxSkew]_vars
  <2> SUFFICES ASSUME ClockInv, [Next]_vars, NEW u \in Uses, pc[u] = "auth",
                      Answered(u, 200)'
               PROVE  dbClock < issued[arg[u]] + SessionTTL + MaxSkew
    OBVIOUS
  <2>1. arg[u] \in Live
    BY LookupAnswers DEF ClockInv
  <2> QED
    BY <2>1, ClockAssumption DEF Live, ClockInv, Expiries, Typed, TypeOK
<1> QED
  BY <1>1, ClockInvariance, PTL DEF Spec, SessionEndsInTime

\* The verdicts of SessionHolds on one step.
Holds ==
  /\ \A a \in Auths :
       pc[a] = "create" /\ Answered(a, 500)'
         /\ Faults \cap {"db", "indoubt"} = {} /\ a \notin inDoubt' =>
         dbClock + MaxSkew >= issued[a] + SessionTTL
  /\ \A u \in Uses :
       pc[u] = "auth" /\ Answered(u, 401)' /\ arg[u] \in Auths =>
         \/ dbClock + MaxSkew >= issued[arg[u]] + SessionTTL
         \/ \E m \in Logouts : arg[m] = arg[u] /\ pc[m] # "new"

LEMMA SessionKept == ClockInv /\ [Next]_vars => Holds
<1> SUFFICES ASSUME ClockInv, [Next]_vars PROVE Holds
  OBVIOUS
<1>1. ASSUME NEW a \in Auths, pc[a] = "create", Answered(a, 500)',
             Faults \cap {"db", "indoubt"} = {}, a \notin inDoubt'
      PROVE  dbClock + MaxSkew >= issued[a] + SessionTTL
  <2>1. ~(expires[a] > dbClock)
    BY <1>1, InsertRefused DEF ClockInv
  <2> QED
    BY <1>1, <2>1, ClockAssumption DEF ClockInv, Expiries, Typed, TypeOK
<1>2. ASSUME NEW u \in Uses, pc[u] = "auth", Answered(u, 401)', NEW t \in Auths, arg[u] = t,
             ~\E m \in Logouts : arg[m] = t /\ pc[m] # "new"
      PROVE  dbClock + MaxSkew >= issued[t] + SessionTTL
  <2>1. t \in opened /\ sessions[t] # NoSession
    BY <1>2 DEF ClockInv, Removals
  <2>2. ~(sessions[t].expires > dbClock)
    BY <1>2, <2>1, LookupAnswers DEF ClockInv, Live
  <2> QED
    BY <2>1, <2>2, ClockAssumption DEF ClockInv, Expiries, Typed, TypeOK
<1> QED
  BY <1>1, <1>2 DEF Holds

(***************************************************************************)
(* A session works for its TTL but for what the clocks differ, unless      *)
(* somebody logs out with its token (auth.go:179-189, schema.sql:15).      *)
(***************************************************************************)
THEOREM SessionsHold == Spec => SessionHolds
<1>1. ClockInv /\ [Next]_vars => [Holds]_vars
  BY SessionKept
<1> QED
  BY <1>1, ClockInvariance, PTL DEF Spec, SessionHolds, Holds

-----------------------------------------------------------------------------
(***************************************************************************)
(* The rows implement SessionStore.                                        *)
(***************************************************************************)
\* A step opens one session, or rows and clock end some.
Opens(t) ==
  /\ t \notin opened /\ opened' = opened \cup {t}
  /\ expires[t] > dbClock /\ dbClock' = dbClock
  /\ sessions' = [sessions EXCEPT ![t] = [user |-> arg[t].login, expires |-> expires[t]]]
  /\ arg[t].login \in Login

EndsSome ==
  /\ opened' = opened /\ dbClock' \in Nat /\ dbClock <= dbClock'
  /\ \A t \in Auths : sessions'[t] \in {sessions[t], NoSession}

LEMMA EffectOnSessions ==
  ASSUME Typed, NEW q \in Request, Effect(q), pc[q] # "new", UNCHANGED clocks,
         q \in Auths => q \notin opened
  PROVE  EndsSome \/ \E t \in Auths : Opens(t)
<1> USE DEF Typed, TypeOK, clocks
<1>1. CASE q \in Registers /\ InsertUser(arg[q])
  BY <1>1 DEF InsertUser, EndsSome
<1>2. CASE q \in Auths /\ expires[q] > dbClock /\ InsertSession(q)
  BY <1>2 DEF InsertSession, Opens, Forms, Credentials
<1>3. CASE q \in Logouts /\ RemoveSession(arg[q])
  BY <1>3 DEF RemoveSession, EndsSome
<1> QED
  BY <1>1, <1>2, <1>3 DEF Effect

LEMMA SessionsStep ==
  ASSUME Typed, [Next]_vars
  PROVE  EndsSome \/ \E t \in Auths : Opens(t)
<1> DEFINE Goal == EndsSome \/ \E t \in Auths : Opens(t)
<1> USE DEF Typed
<1>1. ASSUME UNCHANGED <<tables, clocks>> PROVE EndsSome
  BY <1>1 DEF tables, clocks, EndsSome, TypeOK
<1>2. CASE TickDatabase \/ TickApplication
  BY <1>2 DEF TickDatabase, TickApplication, tables, EndsSome, TypeOK
<1>3. ASSUME NEW q \in Request, CreateUser(q) PROVE EndsSome
  BY <1>1, <1>3 DEF CreateUser, InsertUser, tables, clocks, EndsSome, TypeOK
<1>4. ASSUME NEW q \in Request, CreateSession(q) PROVE Goal
  BY <1>1, <1>4, EffectOnSessions, RequestAssumption
  DEF CreateSession, Effect, Forms, Rows, Request
<1>5. ASSUME NEW q \in Request, Logout(q) PROVE Goal
  BY <1>1, <1>5, EffectOnSessions, RequestAssumption DEF Logout, Effect, Forms, Request
<1>6. ASSUME NEW q \in Request, StatementFails(q) PROVE Goal
  BY <1>1, <1>6, EffectOnSessions, RequestAssumption
  DEF StatementFails, Changing, tables, Forms, Rows, Request
<1>7. ASSUME NEW q \in Request, Land(q) PROVE Goal
  BY <1>1, <1>7, EffectOnSessions DEF Land, Doubts, Rows
<1>8. ASSUME NEW q \in Request, Arrive(q) \/ Step(q) PROVE Goal
  BY <1>1, <1>3, <1>4, <1>5, <1>6, <1>8
  DEF Step, Arrive, Reject, RefuseRegister, FindUser, ComputeExpiry, Authenticate
<1> QED
  BY <1>1, <1>2, <1>7, <1>8 DEF Next, Restart, Finished, vars

LiveMap == [t \in Live |-> sessions[t].user]
Spent == opened \ Live

LEMMA LiveOpens ==
  ASSUME Typed, NEW t \in Auths, Opens(t)
  PROVE  Abstract!Next
<1>1. [user |-> arg[t].login, expires |-> expires[t]] \in Session
  BY DEF Typed, TypeOK, Opens, Session
<1>2. Live' = Live \cup {t} /\ Live \subseteq opened
  BY <1>1, TokenAssumption DEF Opens, Live, Typed, TypeOK, Rows
<1>3. \A x \in Live \cup {t} :
        sessions'[x].user = IF x = t THEN arg[t].login ELSE sessions[x].user
  BY DEF Opens, Live, Typed, TypeOK
<1>4. LiveMap' = [x \in Live \cup {t} |-> IF x = t THEN arg[t].login ELSE LiveMap[x]]
  BY <1>2, <1>3 DEF LiveMap
<1>5. DOMAIN LiveMap = Live
  BY DEF LiveMap
<1>6. Spent' = Spent /\ t \notin Live \cup Spent
  BY <1>2 DEF Spent, Opens
<1> QED
  BY <1>4, <1>5, <1>6 DEF Opens, Abstract!Next, Abstract!Open, LiveMap, Spent

LEMMA LiveEnds ==
  ASSUME Typed, EndsSome
  PROVE  [Abstract!Next]_<<LiveMap, Spent>>
<1>1. Live' \subseteq Live /\ Live \subseteq opened
  BY DEF EndsSome, Live, Typed, TypeOK, Rows, Session
<1>2. \A x \in Live' : sessions'[x] = sessions[x]
  BY DEF EndsSome, Live
<1> DEFINE S == Live \ Live'
<1>3. DOMAIN LiveMap = Live /\ S \in SUBSET Live
  BY DEF LiveMap
<1>4. LiveMap' = [x \in Live \ S |-> LiveMap[x]]
  BY <1>1, <1>2 DEF LiveMap
<1>5. Spent' = Spent \cup S
  BY <1>1 DEF Spent, EndsSome
<1>6. CASE S = {}
  <2>1. LiveMap' = LiveMap
    BY <1>4, <1>6 DEF LiveMap
  <2>2. Spent' = Spent
    BY <1>5, <1>6
  <2> QED
    BY <2>1, <2>2
<1>7. CASE S # {}
  <2> HIDE DEF S
  <2> QED
    BY <1>3, <1>4, <1>5, <1>7 DEF Abstract!Next, Abstract!Close, LiveMap, Spent
<1> QED
  BY <1>6, <1>7

(***************************************************************************)
(* Rows, two clocks, logouts and late statements amount to the sessions    *)
(* the document server relies on (auth.go:119-219).                        *)
(***************************************************************************)
THEOREM SessionRefinement == Spec => ImplementsSessionStore
<1>1. Init => Abstract!Init
  <2> SUFFICES ASSUME Init PROVE Abstract!Init
    OBVIOUS
  <2>1. Live = {} /\ opened = {}
    BY DEF Init, Live
  <2> QED
    BY <2>1 DEF Abstract!Init, Abstract!TypeOK
<1>2. Typed /\ [Next]_vars => [Abstract!Next]_<<LiveMap, Spent>>
  <2> SUFFICES ASSUME Typed, [Next]_vars PROVE [Abstract!Next]_<<LiveMap, Spent>>
    OBVIOUS
  <2>1. ASSUME NEW t \in Auths, Opens(t) PROVE Abstract!Next
    BY <2>1, LiveOpens
  <2> QED
    BY <2>1, SessionsStep, LiveEnds
<1> QED
  BY <1>1, <1>2, TypedInvariance, PTL
  DEF Spec, ImplementsSessionStore, Abstract!Spec, LiveMap, Spent
=============================================================================
