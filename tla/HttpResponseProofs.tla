------------------------- MODULE HttpResponseProofs -------------------------
(***************************************************************************)
(* The properties of HttpResponse for bodies of any length and for any     *)
(* calls of other handlers under Logging.                                  *)
(***************************************************************************)
EXTENDS HttpResponse, TLAPS

-----------------------------------------------------------------------------
(***************************************************************************)
(* The routes.                                                             *)
(***************************************************************************)
Handlers == {"Register", "Auth", "Logout", "UploadDocument", "ListDocuments",
             "GetDocument", "DeleteDocument", "MethodNotAllowed", "NotFound"}

LEMMA RouteTable ==
  ASSUME NEW r \in Routes
  PROVE  /\ r[3] \in Handlers \ {"MethodNotAllowed", "NotFound"}
         /\ r[1] # "HEAD"
         /\ r[1] = "GET" => r[3] \in Readers
<1>1. \/ r = <<"POST", "/api/register", "Register">>
      \/ r = <<"POST", "/api/auth", "Auth">>
      \/ r = <<"DELETE", "/api/auth/{token}", "Logout">>
      \/ r = <<"POST", "/api/docs", "UploadDocument">>
      \/ r = <<"GET", "/api/docs", "ListDocuments">>
      \/ r = <<"GET", "/api/docs/{id}", "GetDocument">>
      \/ r = <<"DELETE", "/api/docs/{id}", "DeleteDocument">>
  BY DEF Routes
<1>2. \A a, b, c : r = <<a, b, c>> => r[1] = a /\ r[3] = c
  OBVIOUS
<1>3. \/ r[1] = "POST" /\ r[3] \in {"Register", "Auth", "UploadDocument"}
      \/ r[1] = "DELETE" /\ r[3] \in {"Logout", "DeleteDocument"}
      \/ r[1] = "GET" /\ r[3] \in {"ListDocuments", "GetDocument"}
  BY <1>1, <1>2, Zenon
<1> QED
  BY <1>3 DEF Handlers, Readers

\* Every path of the API has a handler for every method, and HEAD goes to a
\* handler that says the size of the body beforehand.
LEMMA Routing ==
  ASSUME NEW m \in Methods, NEW p \in Paths
  PROVE  /\ Handler(m, p) \in Handlers
         /\ p # "unmatched" => Handler(m, p) # "NotFound"
         /\ p # "unmatched" /\ m = "HEAD" => ForRequest(Handler(m, p))
<1>1. CASE \E r \in Routes : Takes(r, m, p)
  <2> DEFINE r == CHOOSE x \in Routes : Takes(x, m, p)
  <2>1. r \in Routes /\ Takes(r, m, p)
    BY <1>1
  <2>2. r[3] \in Handlers \ {"MethodNotAllowed", "NotFound"}
    BY <2>1, RouteTable
  <2>3. m = "HEAD" => r[3] \in Readers
    BY <2>1, RouteTable DEF Takes
  <2>4. Handler(m, p) = r[3]
    BY <1>1 DEF Handler
  <2> HIDE DEF r
  <2> QED
    BY <2>2, <2>3, <2>4 DEF ForRequest
<1>2. CASE ~\E r \in Routes : Takes(r, m, p)
  <2>1. p \in DOMAIN Allow <=> p # "unmatched"
    BY DEF Allow, Paths
  <2> QED
    BY <1>2, <2>1 DEF Handler, Handlers, ForRequest
<1> QED
  BY <1>1, <1>2

\* Handlers answer with final statuses, and only the fallback with a 405.
LEMMA Verdicts ==
  ASSUME NEW h \in Handlers, NEW s \in Statuses(h)
  PROVE  /\ s \in Nat /\ s >= 200
         /\ s = 405 => h = "MethodNotAllowed"
BY DEF Handlers, Statuses

-----------------------------------------------------------------------------
(***************************************************************************)
(* The inductive invariant.  Shape: the calls that are left are calls, and *)
(* the line is written when none is.  Watched: responseWriter and net/http *)
(* agree until net/http supplies the status that nobody set.  OnRoute: a   *)
(* request on a path of the API is at the first, at the second or behind   *)
(* the last of the calls of its handler.                                   *)
(***************************************************************************)
Shape ==
  /\ todo \in Seq(Call) /\ \A i \in DOMAIN todo : todo[i].status # 101
  /\ status \in Nat /\ sent \in Call /\ line \in Nat
  /\ line # 0 => todo = <<>>

Watched ==
  /\ line = 0 => sent.status = status
  /\ line # 0 =>
       /\ line = IF status = 0 THEN 200 ELSE status
       /\ sent.status \in {status, line}

RequestOK ==
  /\ request.method \in Methods /\ request.path \in Paths /\ request.size \in Lengths
  /\ request.status \in Statuses(Handler(request.method, request.path))
  /\ header = [length |-> IF ForRequest(Handler(request.method, request.path))
                            THEN request.size ELSE -1,
               allow |-> IF Handler(request.method, request.path) = "MethodNotAllowed"
                           THEN Allow[request.path] ELSE {}]

OnRoute ==
  request.path # "unmatched" =>
    \/ /\ todo = Calls(Handler(request.method, request.path), request.method,
                       request.status, request.size)
       /\ status = 0 /\ sent = None
    \/ /\ todo = <<Write(request.size)>> /\ request.method # "HEAD"
       /\ status = request.status /\ sent.status = status
    \/ /\ todo = <<>>
       /\ status = request.status /\ sent.status = status
       /\ request.method = "HEAD" => sent.size = 0

HInv == Shape /\ Watched /\ RequestOK /\ OnRoute

-----------------------------------------------------------------------------
LEMMA CallsAre ==
  ASSUME NEW m \in Methods, NEW p \in Paths, NEW s \in Statuses(Handler(m, p)),
         NEW n \in Lengths
  PROVE  LET calls == Calls(Handler(m, p), m, s, n) IN
         /\ calls \in {<<WriteHeader(s)>>, <<WriteHeader(s), Write(n)>>}
         /\ p # "unmatched" /\ m = "HEAD" => calls = <<WriteHeader(s)>>
         /\ calls = <<WriteHeader(s)>> => m = "HEAD"
<1>1. <<WriteHeader(s)>> # <<WriteHeader(s), Write(n)>>
  OBVIOUS
<1> QED
  BY <1>1, Routing DEF Calls, WriteForRequest, WriteJSON

\* What is left of a well-formed sequence of calls is well-formed.
LEMMA Rest ==
  ASSUME Shape, todo # <<>>
  PROVE  /\ Head(todo) \in Call /\ Head(todo).status # 101
         /\ Tail(todo) \in Seq(Call)
         /\ \A i \in DOMAIN Tail(todo) : Tail(todo)[i].status # 101
         /\ line = 0
BY DEF Shape

LEMMA HInit ==
  Init => HInv
<1> SUFFICES ASSUME Init PROVE HInv
  OBVIOUS
<1>1. PICK m \in Methods, p \in Paths :
        \E s \in Statuses(Handler(m, p)), n \in Lengths :
          /\ request = [method |-> m, path |-> p, status |-> s, size |-> n]
          /\ todo \in {Calls(Handler(m, p), m, s, n)}
                      \cup IF Handler(m, p) = "NotFound" THEN Others ELSE {}
          /\ header = [length |-> IF ForRequest(Handler(m, p)) THEN n ELSE -1,
                       allow |-> IF Handler(m, p) = "MethodNotAllowed" THEN Allow[p] ELSE {}]
  BY DEF Init
<1>2. PICK s \in Statuses(Handler(m, p)), n \in Lengths :
          /\ request = [method |-> m, path |-> p, status |-> s, size |-> n]
          /\ todo \in {Calls(Handler(m, p), m, s, n)}
                      \cup IF Handler(m, p) = "NotFound" THEN Others ELSE {}
          /\ header = [length |-> IF ForRequest(Handler(m, p)) THEN n ELSE -1,
                       allow |-> IF Handler(m, p) = "MethodNotAllowed" THEN Allow[p] ELSE {}]
  BY <1>1
<1>3. status = 0 /\ sent = None /\ line = 0
  BY DEF Init
<1>4. Handler(m, p) \in Handlers /\ (p # "unmatched" => Handler(m, p) # "NotFound")
  BY Routing
<1>5. s \in Nat /\ s >= 200 /\ n \in Nat
  BY <1>4, Verdicts, LengthAssumption
<1>6. todo \in Seq(Call) /\ \A i \in DOMAIN todo : todo[i].status # 101
  <2>1. CASE todo = Calls(Handler(m, p), m, s, n)
    <3>1. todo \in {<<WriteHeader(s)>>, <<WriteHeader(s), Write(n)>>}
      BY <2>1, CallsAre
    <3>2. WriteHeader(s) \in Call /\ Write(n) \in Call
          /\ WriteHeader(s).status = s /\ Write(n).status = 0
      BY <1>5 DEF WriteHeader, Write, Call
    <3>3. \A a, b \in Call : /\ <<a>> \in Seq(Call) /\ DOMAIN <<a>> = {1} /\ <<a>>[1] = a
                             /\ <<a, b>> \in Seq(Call) /\ DOMAIN <<a, b>> = {1, 2}
                             /\ <<a, b>>[1] = a /\ <<a, b>>[2] = b
      OBVIOUS
    <3>4. CASE todo = <<WriteHeader(s)>>
      BY <1>5, <3>2, <3>3, <3>4
    <3>5. CASE todo = <<WriteHeader(s), Write(n)>>
      BY <1>5, <3>2, <3>3, <3>5
    <3> QED
      BY <3>1, <3>4, <3>5
  <2>2. CASE todo \in Others
    BY <2>2, OthersAssumption
  <2> QED
    BY <1>2, <2>1, <2>2
<1> QED
  <2>1. Shape /\ Watched
    BY <1>3, <1>6 DEF Shape, Watched, None, Call
  <2>2. RequestOK
    BY <1>2 DEF RequestOK
  <2>3. OnRoute
    BY <1>2, <1>3, <1>4 DEF OnRoute
  <2> QED
    BY <2>1, <2>2, <2>3 DEF HInv

-----------------------------------------------------------------------------
(***************************************************************************)
(* WriteHeader and Write keep responseWriter and net/http in agreement.    *)
(***************************************************************************)
LEMMA SetsStatus ==
  ASSUME HInv, HandlerSetsStatus
  PROVE  HInv'
<1> DEFINE s == Head(todo).status
<1>1. /\ todo # <<>> /\ s # 0 /\ s # 101 /\ s \in Nat /\ line = 0
      /\ Tail(todo) \in Seq(Call)
      /\ \A i \in DOMAIN Tail(todo) : Tail(todo)[i].status # 101
  BY Rest DEF HInv, HandlerSetsStatus, Call
<1>2. /\ todo' = Tail(todo)
      /\ UNCHANGED <<request, header, line>>
      /\ IF status # 0
           THEN UNCHANGED <<status, sent>>
           ELSE status' = (IF Informational(s) THEN 0 ELSE s) /\ sent' = Send(s)
  BY DEF HandlerSetsStatus
<1>3. sent.status = status /\ status \in Nat /\ sent \in Call
  BY <1>1 DEF HInv, Watched, Shape
<1>4. status' \in Nat /\ sent' \in Call /\ sent'.status = status' /\ sent'.size = sent.size
  <2>1. CASE status # 0
    BY <1>2, <1>3, <2>1
  <2>2. CASE status = 0 /\ Informational(s)
    BY <1>1, <1>2, <1>3, <2>2 DEF Send
  <2>3. CASE status = 0 /\ ~Informational(s)
    <3>1. status' = s /\ sent' = [sent EXCEPT !.status = s]
      BY <1>2, <1>3, <2>3 DEF Send
    <3> HIDE DEF s
    <3> QED
      BY <1>1, <1>3, <3>1 DEF Call
  <2> QED
    BY <2>1, <2>2, <2>3
<1>5. Shape' /\ Watched' /\ RequestOK'
  BY <1>1, <1>2, <1>3, <1>4 DEF HInv, Shape, Watched, RequestOK
<1>6. OnRoute'
  <2> SUFFICES ASSUME request.path # "unmatched" PROVE OnRoute'
    BY <1>2 DEF OnRoute
  <2> DEFINE m == request.method
             p == request.path
             v == request.status
             n == request.size
             calls == Calls(Handler(m, p), m, v, n)
  <2>1. /\ m \in Methods /\ p \in Paths /\ n \in Lengths /\ v \in Statuses(Handler(m, p))
        /\ v \in Nat /\ v >= 200 /\ n \in Nat
    BY Routing, Verdicts, LengthAssumption DEF HInv, RequestOK
  <2>2. todo # <<Write(n)>>
    BY <1>1 DEF Write
  <2>3. todo = calls /\ status = 0 /\ sent = None
    BY <1>1, <2>2 DEF HInv, OnRoute
  <2>4. /\ calls \in {<<WriteHeader(v)>>, <<WriteHeader(v), Write(n)>>}
        /\ m = "HEAD" => calls = <<WriteHeader(v)>>
        /\ calls = <<WriteHeader(v)>> => m = "HEAD"
    BY <2>1, CallsAre
  <2>5. s = v /\ Tail(todo) = (IF m = "HEAD" THEN <<>> ELSE <<Write(n)>>)
    <3>1. CASE m = "HEAD"
      <4>1. todo = <<WriteHeader(v)>>
        BY <2>3, <2>4, <3>1
      <4> QED
        BY <3>1, <4>1 DEF WriteHeader
    <3>2. CASE m # "HEAD"
      <4>1. todo = <<WriteHeader(v), Write(n)>>
        BY <2>3, <2>4, <3>2
      <4> QED
        BY <3>2, <4>1 DEF WriteHeader
    <3> QED
      BY <3>1, <3>2
  <2>6. status' = v /\ sent'.status = v /\ sent'.size = 0
    <3>1. ~Informational(v)
      BY <2>1 DEF Informational
    <3> QED
      BY <1>2, <1>4, <2>3, <2>5, <3>1 DEF None
  <2> QED
    BY <1>2, <2>5, <2>6 DEF OnRoute
<1> QED
  BY <1>5, <1>6 DEF HInv

LEMMA Writes ==
  ASSUME HInv, HandlerWrites
  PROVE  HInv'
<1> DEFINE begun == IF status = 0 THEN Send(200) ELSE sent
<1>1. /\ todo # <<>> /\ Head(todo).status = 0 /\ line = 0
      /\ Head(todo) \in Call /\ Head(todo).size \in Nat
      /\ Tail(todo) \in Seq(Call)
      /\ \A i \in DOMAIN Tail(todo) : Tail(todo)[i].status # 101
  BY Rest DEF HInv, HandlerWrites, Call
<1>2. /\ todo' = Tail(todo)
      /\ status' = IF status = 0 THEN 200 ELSE status
      /\ UNCHANGED <<request, header, line>>
  BY DEF HandlerWrites
<1>3. PICK k \in {0, Head(todo).size} : sent' = [begun EXCEPT !.size = @ + k]
  BY DEF HandlerWrites
<1>4. sent.status = status /\ status \in Nat /\ sent \in Call
  BY <1>1 DEF HInv, Watched, Shape
<1>5. begun \in Call /\ begun.status = status'
  <2>1. CASE status = 0
    <3>1. begun = [sent EXCEPT !.status = 200]
      BY <1>4, <2>1 DEF Send, Informational
    <3> QED
      BY <1>2, <1>4, <2>1, <3>1 DEF Call
  <2>2. CASE status # 0
    BY <1>2, <1>4, <2>2
  <2> QED
    BY <2>1, <2>2
<1>6. sent' \in Call /\ sent'.status = status' /\ status' \in Nat
  <2> HIDE DEF begun
  <2>1. k \in Nat
    BY <1>1, <1>3
  <2> QED
    BY <1>2, <1>3, <1>4, <1>5, <2>1 DEF Call
<1>7. Shape' /\ Watched' /\ RequestOK'
  BY <1>1, <1>2, <1>6 DEF HInv, Shape, Watched, RequestOK
<1>8. OnRoute'
  <2> SUFFICES ASSUME request.path # "unmatched" PROVE OnRoute'
    BY <1>2 DEF OnRoute
  <2> DEFINE m == request.method
             p == request.path
             v == request.status
             n == request.size
             calls == Calls(Handler(m, p), m, v, n)
  <2>1. /\ m \in Methods /\ p \in Paths /\ n \in Lengths /\ v \in Statuses(Handler(m, p))
        /\ v \in Nat /\ v >= 200
    BY Routing, Verdicts DEF HInv, RequestOK
  <2>2. calls \in {<<WriteHeader(v)>>, <<WriteHeader(v), Write(n)>>}
    BY <2>1, CallsAre
  <2>3. todo # calls
    <3>1. Head(calls) = WriteHeader(v)
      BY <2>2
    <3>2. WriteHeader(v).status # 0
      BY <2>1 DEF WriteHeader
    <3> HIDE DEF calls
    <3> QED
      BY <1>1, <3>1, <3>2
  <2>4. /\ todo = <<Write(n)>> /\ m # "HEAD"
        /\ status = v /\ sent.status = status
    BY <1>1, <2>3 DEF HInv, OnRoute
  <2>5. Tail(todo) = <<>>
    BY <2>4
  <2> QED
    BY <1>2, <1>6, <2>1, <2>4, <2>5 DEF OnRoute
<1> QED
  BY <1>7, <1>8 DEF HInv

(***************************************************************************)
(* The log line and the end of the response.                               *)
(***************************************************************************)
LEMMA Ends ==
  ASSUME HInv, LogRequest \/ Finish
  PROVE  HInv'
<1>1. CASE LogRequest
  <2>1. /\ todo = <<>> /\ line = 0
        /\ line' = IF status = 0 THEN 200 ELSE status
        /\ UNCHANGED <<request, todo, header, status, sent>>
    BY <1>1 DEF LogRequest
  <2> QED
    BY <2>1 DEF HInv, Shape, Watched, RequestOK, OnRoute
<1>2. CASE Finish
  <2>1. /\ line # 0 /\ sent.status = 0 /\ todo = <<>>
        /\ UNCHANGED <<request, todo, header, status, line>>
    BY <1>2 DEF Finish, HInv, Shape
  <2>2. status = 0 /\ line = 200
    BY <2>1 DEF HInv, Watched, Shape
  <2>3. sent' = [sent EXCEPT !.status = 200]
    BY <1>2, <2>1 DEF Finish, Send, Informational
  <2>4. sent' \in Call /\ sent'.status = 200
    BY <2>3 DEF HInv, Shape, Call
  <2>5. request.path = "unmatched"
    <3>1. ASSUME request.path # "unmatched" PROVE FALSE
      <4>1. request.status >= 200 /\ request.status \in Nat
        BY Routing, Verdicts DEF HInv, RequestOK
      <4>2. \/ todo = Calls(Handler(request.method, request.path), request.method,
                            request.status, request.size)
            \/ status = request.status
        BY <2>1, <3>1 DEF HInv, OnRoute
      <4>3. Calls(Handler(request.method, request.path), request.method,
                  request.status, request.size)
              \in {<<WriteHeader(request.status)>>,
                   <<WriteHeader(request.status), Write(request.size)>>}
        BY CallsAre DEF HInv, RequestOK
      <4>4. todo # <<WriteHeader(request.status)>>
            /\ todo # <<WriteHeader(request.status), Write(request.size)>>
        BY <2>1
      <4> QED
        BY <2>2, <4>1, <4>2, <4>3, <4>4
    <3> QED
      BY <3>1
  <2> QED
    BY <2>1, <2>2, <2>4, <2>5 DEF HInv, Shape, Watched, RequestOK, OnRoute
<1> QED
  BY <1>1, <1>2

(***************************************************************************)
(* responseWriter and net/http stay in agreement over the whole response.  *)
(***************************************************************************)
THEOREM AgreementInvariance == Spec => []HInv
<1>1. HInv /\ UNCHANGED vars => HInv'
  BY DEF vars, HInv, Shape, Watched, RequestOK, OnRoute
<1>2. HInv /\ [Next]_vars => HInv'
  BY <1>1, SetsStatus, Writes, Ends DEF Next
<1> QED
  BY HInit, <1>2, PTL DEF Spec

-----------------------------------------------------------------------------
(***************************************************************************)
(* The log line has the status that the client was sent, whatever calls    *)
(* the wrapped handler makes (logging.go:11-44, 57-60).                    *)
(***************************************************************************)
THEOREM StatusLogged == Spec => []LoggedAsSent
<1>1. HInv => LoggedAsSent
  BY DEF HInv, Shape, Watched, LoggedAsSent, Ended
<1> QED
  BY <1>1, AgreementInvariance, PTL

(***************************************************************************)
(* A HEAD request on a path of the API gets no body and the Content-Length *)
(* of the body it does not get (response.go:11, cache.go:29).              *)
(***************************************************************************)
THEOREM HeadHasNoBody == Spec => []HeadIsGetWithoutBody
<1>1. HInv => HeadIsGetWithoutBody
  <2> SUFFICES ASSUME HInv, request.method = "HEAD", request.path # "unmatched"
               PROVE  sent.size = 0 /\ header.length = request.size
    BY DEF HeadIsGetWithoutBody
  <2>1. ForRequest(Handler(request.method, request.path))
    BY Routing DEF HInv, RequestOK
  <2>2. header.length = request.size
    BY <2>1 DEF HInv, RequestOK
  <2>3. sent.size = 0
    BY DEF HInv, OnRoute, None
  <2> QED
    BY <2>2, <2>3
<1> QED
  BY <1>1, AgreementInvariance, PTL

(***************************************************************************)
(* The Allow header of a 405 lists exactly the methods of the path         *)
(* (server.go:156-187).                                                    *)
(***************************************************************************)
\* Each entry of the table of methods against the routes.
LEMMA AllowTable ==
  ASSUME NEW p \in Paths \ {"unmatched"}
  PROVE  Allow[p] = {m \in Methods : Handler(m, p) # "MethodNotAllowed"}
<1>1. p \in DOMAIN Allow
  BY DEF Allow
<1>2. \A m \in Methods : Handler(m, p) # "MethodNotAllowed" <=> \E r \in Routes : Takes(r, m, p)
  <2> SUFFICES ASSUME NEW m \in Methods
               PROVE  Handler(m, p) # "MethodNotAllowed" <=> \E r \in Routes : Takes(r, m, p)
    OBVIOUS
  <2>1. CASE \E r \in Routes : Takes(r, m, p)
    <3> DEFINE r == CHOOSE x \in Routes : Takes(x, m, p)
    <3>1. r \in Routes
      BY <2>1
    <3>2. Handler(m, p) = r[3]
      BY <2>1 DEF Handler
    <3> HIDE DEF r
    <3> QED
      BY <2>1, <3>1, <3>2, RouteTable
  <2>2. CASE ~\E r \in Routes : Takes(r, m, p)
    BY <1>1, <2>2 DEF Handler
  <2> QED
    BY <2>1, <2>2
<1>3. \A m \in Methods : (\E r \in Routes : Takes(r, m, p)) <=> m \in Allow[p]
  <2> SUFFICES ASSUME NEW m \in Methods
               PROVE  (\E r \in Routes : Takes(r, m, p)) <=> m \in Allow[p]
    OBVIOUS
  <2>1. (\E r \in Routes : Takes(r, m, p)) <=>
          \/ p = "/api/register" /\ m = "POST"
          \/ p = "/api/auth" /\ m = "POST"
          \/ p = "/api/auth/{token}" /\ m = "DELETE"
          \/ p = "/api/docs" /\ m \in {"GET", "HEAD", "POST"}
          \/ p = "/api/docs/{id}" /\ m \in {"GET", "HEAD", "DELETE"}
    <3>1. (\E r \in Routes : Takes(r, m, p)) <=>
            \/ Takes(<<"POST", "/api/register", "Register">>, m, p)
            \/ Takes(<<"POST", "/api/auth", "Auth">>, m, p)
            \/ Takes(<<"DELETE", "/api/auth/{token}", "Logout">>, m, p)
            \/ Takes(<<"POST", "/api/docs", "UploadDocument">>, m, p)
            \/ Takes(<<"GET", "/api/docs", "ListDocuments">>, m, p)
            \/ Takes(<<"GET", "/api/docs/{id}", "GetDocument">>, m, p)
            \/ Takes(<<"DELETE", "/api/docs/{id}", "DeleteDocument">>, m, p)
      BY Zenon DEF Routes
    <3>2. \A a, b, c : Takes(<<a, b, c>>, m, p) <=>
            b = p /\ (a = m \/ (a = "GET" /\ m = "HEAD"))
      BY DEF Takes
    <3> QED
      BY <3>1, <3>2
  <2> QED
    BY <2>1 DEF Allow, Paths
<1>4. Allow[p] \subseteq Methods
  BY DEF Allow, Methods
<1> QED
  BY <1>2, <1>3, <1>4

\* The Allow header of a 405 is exact (server.go:156-187).
THEOREM AllowListsTheMethods == Spec => []AllowIsExact
<1>1. HInv => AllowIsExact
  <2> SUFFICES ASSUME HInv, Ended, sent.status = 405, request.path # "unmatched"
               PROVE  header.allow = {m \in Methods : Handler(m, request.path) # "MethodNotAllowed"}
    BY DEF AllowIsExact
  <2>1. request.status = 405
    BY DEF HInv, OnRoute, None, Ended
  <2>2. Handler(request.method, request.path) = "MethodNotAllowed"
    BY <2>1, Routing, Verdicts DEF HInv, RequestOK
  <2>3. header.allow = Allow[request.path]
    BY <2>2 DEF HInv, RequestOK
  <2> QED
    BY <2>3, AllowTable DEF HInv, RequestOK
<1> QED
  BY <1>1, AgreementInvariance, PTL
=============================================================================
