----------------------------- MODULE HttpResponse -----------------------------
(***************************************************************************)
(* One request from the mux to the log line: the route, the writers that   *)
(* the handlers answer with, the responseWriter through which Logging      *)
(* watches them, and what net/http (external) sends.  A handler is the     *)
(* sequence of its calls of the ResponseWriter.                            *)
(***************************************************************************)
EXTENDS Integers, Sequences

CONSTANTS
  Lengths,   \* the sizes of response bodies
  Others     \* the calls of other handlers that Logging may wrap

\* A call of the ResponseWriter: WriteHeader has a status and no size, Write
\* a size and no status.
Call == [status : Nat, size : Nat]

ASSUME LengthAssumption == Lengths \subseteq Nat
\* No handler of the program switches protocols.
ASSUME OthersAssumption ==
  \A calls \in Others :
    calls \in Seq(Call) /\ \A i \in DOMAIN calls : calls[i].status # 101

Paths == {"/api/register", "/api/auth", "/api/auth/{token}", "/api/docs",
          "/api/docs/{id}", "unmatched"}
Methods == {"GET", "HEAD", "POST", "DELETE", "PUT"}

-----------------------------------------------------------------------------
\* registerRoutes.  A GET pattern of the mux takes HEAD too; a pattern with a
\* method is more specific than the one without.
Routes == { <<"POST", "/api/register", "Register">>, <<"POST", "/api/auth", "Auth">>,
            <<"DELETE", "/api/auth/{token}", "Logout">>,
            <<"POST", "/api/docs", "UploadDocument">>, <<"GET", "/api/docs", "ListDocuments">>,
            <<"GET", "/api/docs/{id}", "GetDocument">>,
            <<"DELETE", "/api/docs/{id}", "DeleteDocument">> }

\* Mutant: the Allow header forgets the HEAD that the mux adds.
AllowWithoutHead ==
  [p \in Paths \ {"unmatched"} |->
     CASE p = "/api/docs" -> {"GET", "POST"}
       [] p = "/api/docs/{id}" -> {"GET", "DELETE"}
       [] p = "/api/auth/{token}" -> {"DELETE"}
       [] OTHER -> {"POST"}]

Allow ==
  [p \in Paths \ {"unmatched"} |->
     CASE p = "/api/docs" -> {"GET", "HEAD", "POST"}
       [] p = "/api/docs/{id}" -> {"GET", "HEAD", "DELETE"}
       [] p = "/api/auth/{token}" -> {"DELETE"}
       [] OTHER -> {"POST"}]

Takes(route, method, path) ==
  route[2] = path /\ (route[1] = method \/ (route[1] = "GET" /\ method = "HEAD"))

Handler(method, path) ==
  IF \E r \in Routes : Takes(r, method, path)
    THEN (CHOOSE r \in Routes : Takes(r, method, path))[3]
    ELSE IF path \in DOMAIN Allow THEN "MethodNotAllowed" ELSE "NotFound"

Readers == {"ListDocuments", "GetDocument"}

\* The statuses a handler answers with.
Statuses(handler) ==
  CASE handler \in {"Register", "Auth", "UploadDocument", "ListDocuments"} -> {200, 400, 401, 500}
    [] handler = "Logout" -> {200, 400, 500}
    [] handler \in {"GetDocument", "DeleteDocument"} -> {200, 400, 401, 403, 404, 500}
    [] handler = "MethodNotAllowed" -> {405}
    [] handler = "NotFound" -> {404}

-----------------------------------------------------------------------------
None == [status |-> 0, size |-> 0]
WriteHeader(s) == [status |-> s, size |-> 0]
Write(n) == [status |-> 0, size |-> n]

\* writeJSON and writeError: the calls, whatever the method.
WriteJSON(status, n) == <<WriteHeader(status), Write(n)>>

\* writeJSONForRequest, writeErrorForRequest and writeDocumentResponse: no
\* body for HEAD.
WriteForRequest(method, status, n) ==
  IF method = "HEAD" THEN <<WriteHeader(status)>> ELSE WriteJSON(status, n)

\* Mutant: the 405 is written like the errors of the handlers for one method.
ForRequestReadersOnly(handler) == handler \in Readers \cup {"DeleteDocument"}

\* They are also the writers that say the size of the body beforehand.
ForRequest(handler) == handler \in Readers \cup {"DeleteDocument", "MethodNotAllowed"}

Calls(handler, method, status, n) ==
  IF ForRequest(handler) THEN WriteForRequest(method, status, n) ELSE WriteJSON(status, n)

VARIABLES
  request,   \* method, path, the status and size of the answer, X-Cache
  todo,      \* the calls that the handler has still to make
  header,    \* Content-Length (-1: not set), Allow
  status,    \* responseWriter.status
  sent,      \* the final status and the bytes that net/http took
  line       \* the log line, 0 before it is written

vars == <<request, todo, header, status, sent, line>>

Init ==
  /\ \E m \in Methods, p \in Paths : \E s \in Statuses(Handler(m, p)), n \in Lengths :
       LET h == Handler(m, p) IN
       /\ request = [method |-> m, path |-> p, status |-> s, size |-> n]
       /\ todo \in {Calls(h, m, s, n)} \cup IF h = "NotFound" THEN Others ELSE {}
       /\ header = [length |-> IF ForRequest(h) THEN n ELSE -1,
                    allow |-> IF h = "MethodNotAllowed" THEN Allow[p] ELSE {}]
  /\ status = 0 /\ sent = None /\ line = 0

-----------------------------------------------------------------------------
Informational(s) == s \in 100..199

\* net/http sends the first final status and ignores the others; 101, which
\* responseWriter takes for informational, is final for it.
Send(s) ==
  IF sent.status # 0 \/ (Informational(s) /\ s # 101) THEN sent ELSE [sent EXCEPT !.status = s]

\* Mutant: the last status that a handler sets is remembered.
HandlerSetsStatusAgain ==
  /\ todo # <<>> /\ Head(todo).status # 0
  /\ todo' = Tail(todo)
  /\ LET s == Head(todo).status IN
     status' = (IF Informational(s) THEN status ELSE s) /\ sent' = Send(s)
  /\ UNCHANGED <<request, header, line>>

\* responseWriter.WriteHeader
HandlerSetsStatus ==
  /\ todo # <<>> /\ Head(todo).status # 0
  /\ todo' = Tail(todo)
  /\ LET s == Head(todo).status IN
     IF status # 0
       THEN UNCHANGED <<status, sent>>
       ELSE status' = (IF Informational(s) THEN 0 ELSE s) /\ sent' = Send(s)
  /\ UNCHANGED <<request, header, line>>

\* responseWriter.Write; the client may be gone, the status stays the same.
HandlerWrites ==
  /\ todo # <<>> /\ Head(todo).status = 0
  /\ todo' = Tail(todo)
  /\ status' = IF status = 0 THEN 200 ELSE status
  /\ LET begun == IF status = 0 THEN Send(200) ELSE sent IN
     \E n \in {0, Head(todo).size} : sent' = [begun EXCEPT !.size = @ + n]
  /\ UNCHANGED <<request, header, line>>

\* Logging, after the handler has returned.
LogRequest ==
  /\ todo = <<>> /\ line = 0
  /\ line' = IF status = 0 THEN 200 ELSE status
  /\ UNCHANGED <<request, todo, header, status, sent>>

\* net/http ends the response; without a status it is a 200.
Finish ==
  /\ line # 0 /\ sent.status = 0
  /\ sent' = Send(200)
  /\ UNCHANGED <<request, todo, header, status, line>>

Ended == line # 0 /\ sent.status # 0

Next == HandlerSetsStatus \/ HandlerWrites \/ LogRequest \/ Finish \/ (Ended /\ UNCHANGED vars)

Spec == Init /\ [][Next]_vars

-----------------------------------------------------------------------------
(***************************************************************************)
(* The log line has the status that the client was sent, for every order   *)
(* of the calls of the wrapped handler: no status, an early or a second    *)
(* one, an informational one (logging.go:11-44, 57-60).                    *)
(***************************************************************************)
LoggedAsSent == Ended => line = sent.status

(***************************************************************************)
(* A HEAD request gets no body but the Content-Length that the GET, or the *)
(* error, of the same request would have, on every route (response.go:11,  *)
(* cache.go:29; README.md:556).                                            *)
(***************************************************************************)
HeadIsGetWithoutBody ==
  (request.method = "HEAD" /\ request.path # "unmatched") =>
    sent.size = 0 /\ header.length = request.size

(***************************************************************************)
(* On a path of the API, a 405 lists in Allow exactly the methods that the *)
(* path answers, no matter which method was refused (server.go:156-187;    *)
(* README.md:418).                                                         *)
(***************************************************************************)
AllowIsExact ==
  Ended /\ sent.status = 405 /\ request.path # "unmatched" =>
    header.allow = {m \in Methods : Handler(m, request.path) # "MethodNotAllowed"}
=============================================================================
