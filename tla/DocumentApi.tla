---------------------------- MODULE DocumentApi -----------------------------
(***************************************************************************)
(* The document server: concurrent HTTP requests run the handlers of       *)
(* internal/handlers and the services under them against three shared      *)
(* stores, the PostgreSQL database, the directory of files and the         *)
(* response cache.  Each query, file operation and cache method is a step. *)
(*                                                                         *)
(* Every element of Request is one HTTP request.  The document an upload   *)
(* creates, and the file that holds its content, are named after the       *)
(* upload: the database and os.CreateTemp pick ids nobody has used.        *)
(* A response discloses a set of documents and nothing else about them.    *)
(***************************************************************************)
EXTENDS ResponseCache

CONSTANTS
  Uploads,    \* POST /api/docs requests
  Lists,      \* GET or HEAD /api/docs requests
  Gets,       \* GET or HEAD /api/docs/{id} requests
  Deletes,    \* DELETE /api/docs/{id} requests
  Logouts,    \* DELETE /api/auth/{token} requests
  Unset,      \* the row of a document that was never inserted
  Stored,     \* documents that a client may know before the process starts
  Own,        \* the login parameter is absent: the viewer's own documents
  Token,      \* session tokens
  TokenUser,  \* the user whose login created the session
  Forms,      \* what an upload asks for: access rights and whether it has a file
  PoolSize,   \* connections of the database pool
  Faults      \* which failures happen

Request == Uploads \cup Lists \cup Gets \cup Deletes \cup Logouts
Readers == Lists \cup Gets
Mutators == Uploads \cup Deletes

Form == [public : BOOLEAN, grants : SUBSET User, file : BOOLEAN]
Row == [owner : User, public : BOOLEAN, grants : SUBSET User, file : BOOLEAN]

ASSUME RequestAssumption ==
  /\ Uploads \cap (Lists \cup Gets \cup Deletes \cup Logouts) = {}
  /\ Lists \cap (Gets \cup Deletes \cup Logouts) = {}
  /\ Gets \cap (Deletes \cup Logouts) = {}
  /\ Deletes \cap Logouts = {}
ASSUME DocIdAssumption == DocId = Uploads \cup Stored /\ Uploads \cap Stored = {}
ASSUME QueryAssumption == Query = User \cup {Own} /\ Own \notin User
ASSUME BodyAssumption == Body = SUBSET DocId
ASSUME TokenAssumption == Token # {} /\ TokenUser \in [Token -> User]
ASSUME FormAssumption == Forms \subseteq Form
ASSUME UnsetAssumption == Unset \notin Row
ASSUME PoolAssumption == PoolSize \in Nat \ {0}
(***************************************************************************)
(* db: a statement fails and has no effect.  indoubt: the last statement   *)
(* of a change takes effect but its answer is lost.  late: the server goes *)
(* on with such a statement after the handler has given it up.  file: a    *)
(* file operation fails.  crash: the process dies and is started again.    *)
(* expire: a session reaches its end.  malformed: clients send requests    *)
(* the handlers turn down.                                                 *)
(***************************************************************************)
ASSUME FaultAssumption ==
  Faults \subseteq {"db", "indoubt", "late", "file", "crash", "expire", "malformed"}

VARIABLES
  \* PostgreSQL
  sessions,       \* tokens of the sessions that are neither deleted nor expired
  docs,           \* ids of the committed documents
  row,            \* what was inserted for each document
  inDoubt,        \* mutators whose last statement may still take effect
  applied,        \* history: mutators whose change has taken effect
  \* the directory of files
  files,
  \* the requests
  pc,             \* where each request is
  token,          \* the token it carries
  target,         \* its other argument: a form, a login or a document
  held,           \* the body it read or is answering with
  seen,           \* the generation Get returned
  commitStarted,  \* uploads that have set commitStarted
  reply,          \* the status chosen so far, 0 for none
  acked           \* history: the requests answered 200 when it arrived

database == <<sessions, docs, row, inDoubt, applied>>
request == <<token, target, acked>>
vars == <<database, files, items, generation, pc, request, held, seen,
          commitStarted, reply>>

-----------------------------------------------------------------------------
(***************************************************************************)
(* Access rights: can_read of GetDocument and the WHERE of ListDocuments.  *)
(***************************************************************************)
CanRead(user, d) ==
  \/ row[d].owner = user
  \/ row[d].public
  \/ user \in row[d].grants

OwnerAsked(user, query) == IF query = Own THEN user ELSE query

Listing(user, query) ==
  {d \in docs : row[d].owner = OwnerAsked(user, query) /\ CanRead(user, d)}

Viewer(r) == TokenUser[token[r]]

\* Mutant: the key of a document does not name the user.
KeyOfAnyUser(r) ==
  IF r \in Lists
    THEN [user |-> Viewer(r), doc |-> NoDoc, query |-> target[r]]
    ELSE [user |-> CHOOSE u \in User : TRUE, doc |-> target[r], query |-> NoQuery]

KeyOf(r) ==
  IF r \in Lists
    THEN [user |-> Viewer(r), doc |-> NoDoc, query |-> target[r]]
    ELSE [user |-> Viewer(r), doc |-> target[r], query |-> NoQuery]

RowOf(user, form) ==
  [owner |-> user, public |-> form.public, grants |-> form.grants, file |-> form.file]

(***************************************************************************)
(* A transaction keeps its connection from Begin to Commit or Rollback;    *)
(* any other query needs a free one for as long as it lasts.               *)
(***************************************************************************)
InTransaction == {r \in Uploads : pc[r] \in {"insert", "commit", "rollback"}}

FreeConnection == Cardinality(InTransaction) < PoolSize

Init ==
  /\ sessions = Token
  /\ docs \in SUBSET Stored
  /\ \E rows \in [Stored -> {RowOf(u, f) : u \in User, f \in Forms}] :
       row = [d \in DocId |-> IF d \in Stored THEN rows[d] ELSE Unset]
  /\ inDoubt = {}
  /\ applied = {}
  /\ files = {d \in docs : row[d].file}
  /\ CacheInit
  /\ pc = [r \in Request |-> "new"]
  /\ token = [r \in Request |-> CHOOSE t \in Token : TRUE]
  /\ target = [r \in Request |-> NoDoc]
  /\ held = [r \in Request |-> {}]
  /\ seen = [r \in Request |-> 0]
  /\ commitStarted = {}
  /\ reply = [r \in Request |-> 0]
  /\ acked = [r \in Request |-> {}]

Goto(r, to) == pc' = [pc EXCEPT ![r] = to]
Reply(r, status) == reply' = [reply EXCEPT ![r] = status]
Finish(r, status) == Goto(r, "done") /\ Reply(r, status)

-----------------------------------------------------------------------------
(***************************************************************************)
(* A client sends a request.  It can name the documents that existed when  *)
(* the process started or that a committed upload has created since.       *)
(***************************************************************************)
KnownDocs == Stored \cup (applied \cap Uploads)

Arguments(r) ==
  CASE r \in Uploads -> Forms
    [] r \in Lists -> Query
    [] r \in Gets \cup Deletes -> KnownDocs
    [] r \in Logouts -> {NoDoc}

Arrive(r) ==
  /\ pc[r] = "new"
  /\ \E t \in Token : token' = [token EXCEPT ![r] = t]
  /\ \E x \in Arguments(r) : target' = [target EXCEPT ![r] = x]
  /\ acked' = [acked EXCEPT ![r] =
                 {x \in Mutators \cup Logouts : pc[x] = "done" /\ reply[x] = 200}]
  /\ Goto(r, IF r \in Logouts THEN "logout" ELSE "auth")
  /\ UNCHANGED <<database, files, items, generation, held, seen, commitStarted, reply>>

(***************************************************************************)
(* The handler turns a malformed request down: a bad multipart form, query *)
(* string or token format before the session is looked up, bad parameters  *)
(* or a bad id after it, and a filter the service refuses after the cache  *)
(* was asked.  The cache is not reset.                                     *)
(***************************************************************************)
Reject(r) ==
  /\ "malformed" \in Faults
  /\ \/ pc[r] \in {"auth", "form", "lookup", "delete", "logout"}
     \/ pc[r] = "query" /\ r \in Lists
  /\ Finish(r, 400)
  /\ UNCHANGED <<database, files, items, generation, request, held, seen, commitStarted>>

(***************************************************************************)
(* Authenticate: every handler of documents looks the session up first.    *)
(***************************************************************************)
AfterAuth(r) ==
  CASE r \in Uploads -> "form"
    [] r \in Readers -> "lookup"
    [] r \in Deletes -> "delete"

\* Mutant: a cached response is served before the session is looked up.
AuthenticateAfterCache(r) ==
  /\ pc[r] = "auth"
  /\ FreeConnection
  /\ IF token[r] \in sessions \/ (r \in Readers /\ KeyOf(r) \in DOMAIN items)
       THEN Goto(r, AfterAuth(r)) /\ UNCHANGED reply
       ELSE Finish(r, 401)
  /\ UNCHANGED <<database, files, items, generation, request, held, seen, commitStarted>>

Authenticate(r) ==
  /\ pc[r] = "auth"
  /\ FreeConnection
  /\ IF token[r] \in sessions
       THEN Goto(r, AfterAuth(r)) /\ UNCHANGED reply
       ELSE Finish(r, 401)
  /\ UNCHANGED <<database, files, items, generation, request, held, seen, commitStarted>>

-----------------------------------------------------------------------------
(***************************************************************************)
(* ListDocuments and GetDocument: ask the cache, then the database, then   *)
(* read the file, and store the answer under the generation of the first   *)
(* step.  A query that fails is answered 500 and nothing is stored.        *)
(***************************************************************************)
Lookup(r) ==
  /\ pc[r] = "lookup"
  /\ IF KeyOf(r) \in DOMAIN items
       THEN /\ held' = [held EXCEPT ![r] = items[KeyOf(r)]]
            /\ Finish(r, 200)
            /\ UNCHANGED seen
       ELSE /\ seen' = [seen EXCEPT ![r] = generation]
            /\ Goto(r, "query")
            /\ UNCHANGED <<held, reply>>
  /\ UNCHANGED <<database, files, items, generation, request, commitStarted>>

QueryList(r) ==
  /\ pc[r] = "query" /\ r \in Lists
  /\ FreeConnection
  /\ held' = [held EXCEPT ![r] = Listing(Viewer(r), target[r])]
  /\ Goto(r, "store")
  /\ UNCHANGED <<database, files, items, generation, request, seen, commitStarted, reply>>

QueryDocument(r) ==
  /\ pc[r] = "query" /\ r \in Gets
  /\ FreeConnection
  /\ \/ /\ target[r] \notin docs
        /\ Finish(r, 404) /\ UNCHANGED held
     \/ /\ target[r] \in docs /\ ~CanRead(Viewer(r), target[r])
        /\ Finish(r, 403) /\ UNCHANGED held
     \/ /\ target[r] \in docs /\ CanRead(Viewer(r), target[r])
        /\ Goto(r, IF row[target[r]].file THEN "read" ELSE "store")
        /\ held' = [held EXCEPT ![r] = {target[r]}]
        /\ UNCHANGED reply
  /\ UNCHANGED <<database, files, items, generation, request, seen, commitStarted>>

ReadFile(r) ==
  /\ pc[r] = "read"
  /\ \/ target[r] \in files /\ Goto(r, "store") /\ UNCHANGED <<held, reply>>
     \/ /\ target[r] \notin files \/ "file" \in Faults
        /\ held' = [held EXCEPT ![r] = {}]
        /\ Finish(r, 500)
  /\ UNCHANGED <<database, files, items, generation, request, seen, commitStarted>>

StoreResponse(r) ==
  /\ pc[r] = "store"
  /\ CacheSet(KeyOf(r), held[r], seen[r])
  /\ Finish(r, 200)
  /\ UNCHANGED <<database, files, request, held, seen, commitStarted>>

-----------------------------------------------------------------------------
(***************************************************************************)
(* DeleteDocument.  One statement deletes the row of an owned document; if *)
(* it deleted nothing a second one finds out why.  The file goes last, and *)
(* the cache is reset whatever the service returned.                       *)
(***************************************************************************)
RemoveRow(r) ==
  /\ docs' = docs \ {target[r]}
  /\ applied' = applied \cup {r}
  /\ UNCHANGED <<sessions, row, inDoubt>>

CanDelete(r) == target[r] \in docs /\ row[target[r]].owner = Viewer(r)

\* Mutant: the file is removed although the statement deleted nothing.
DeleteRowUnlinksAlways(r) ==
  /\ pc[r] = "delete"
  /\ FreeConnection
  /\ IF CanDelete(r)
       THEN RemoveRow(r) /\ Goto(r, "unlink") /\ Reply(r, 200)
       ELSE Goto(r, "unlink") /\ Reply(r, 403) /\ UNCHANGED database
  /\ UNCHANGED <<files, items, generation, request, held, seen, commitStarted>>

DeleteRow(r) ==
  /\ pc[r] = "delete"
  /\ FreeConnection
  /\ IF CanDelete(r)
       THEN /\ RemoveRow(r)
            /\ Goto(r, IF row[target[r]].file THEN "unlink" ELSE "reset")
            /\ Reply(r, 200)
       ELSE Goto(r, "why") /\ UNCHANGED <<database, reply>>
  /\ UNCHANGED <<files, items, generation, request, held, seen, commitStarted>>

DeleteRowFails(r) ==
  /\ pc[r] = "delete"
  /\ \/ "db" \in Faults /\ UNCHANGED database
     \/ "indoubt" \in Faults /\ FreeConnection /\ CanDelete(r) /\ RemoveRow(r)
     \/ /\ "late" \in Faults /\ FreeConnection
        /\ inDoubt' = inDoubt \cup {r}
        /\ UNCHANGED <<sessions, docs, row, applied>>
  /\ Goto(r, "reset") /\ Reply(r, 500)
  /\ UNCHANGED <<files, items, generation, request, held, seen, commitStarted>>

\* Mutant: a document that the viewer cannot read is reported missing.
LookupReasonHides(r) ==
  /\ pc[r] = "why"
  /\ FreeConnection
  /\ Goto(r, "reset")
  /\ Reply(r, IF target[r] \in docs /\ CanRead(Viewer(r), target[r]) THEN 403 ELSE 404)
  /\ UNCHANGED <<database, files, items, generation, request, held, seen, commitStarted>>

LookupReason(r) ==
  /\ pc[r] = "why"
  /\ FreeConnection
  /\ Goto(r, "reset")
  /\ Reply(r, IF target[r] \in docs THEN 403 ELSE 404)
  /\ UNCHANGED <<database, files, items, generation, request, held, seen, commitStarted>>

Unlink(r) ==
  /\ pc[r] = "unlink"
  /\ \/ files' = files \ {target[r]}
     \/ "file" \in Faults /\ UNCHANGED files
  /\ Goto(r, "reset")
  /\ UNCHANGED <<database, items, generation, request, held, seen, commitStarted, reply>>

(***************************************************************************)
(* The handlers of uploads and deletions reset the cache before they       *)
(* answer, also when the service failed.                                   *)
(***************************************************************************)
\* Mutant: a deletion resets the lists only.
ResetDocListsOnly(r) == NoDoc

ResetDoc(r) == IF r \in Deletes THEN target[r] ELSE NoDoc

\* Mutant: the cache is reset only when the service succeeded.
ResetOnSuccess(r) ==
  /\ pc[r] = "reset"
  /\ IF reply[r] = 200 THEN CacheInvalidate(ResetDoc(r)) ELSE UNCHANGED cacheVars
  /\ Goto(r, "done")
  /\ UNCHANGED <<database, files, request, held, seen, commitStarted, reply>>

Reset(r) ==
  /\ pc[r] = "reset"
  /\ CacheInvalidate(ResetDoc(r))
  /\ Goto(r, "done")
  /\ UNCHANGED <<database, files, request, held, seen, commitStarted, reply>>

-----------------------------------------------------------------------------
(***************************************************************************)
(* UploadDocument.  The service validates the request, looks the grantees  *)
(* up, saves the file, and inserts the document and its grants in one      *)
(* transaction.  Its deferred calls roll the transaction back and remove   *)
(* the file unless the commit had started.                                 *)
(***************************************************************************)
AcceptForm(r) ==
  /\ pc[r] = "form"
  /\ Goto(r, "grants")
  /\ UNCHANGED <<database, files, items, generation, request, held, seen,
                 commitStarted, reply>>

\* The uploaded file cannot be opened; the service is not called.
OpenFails(r) ==
  /\ pc[r] = "form" /\ target[r].file
  /\ "file" \in Faults
  /\ Finish(r, 500)
  /\ UNCHANGED <<database, files, items, generation, request, held, seen, commitStarted>>

\* ErrInvalidDocument: a bad name, MIME type or JSON, or an unknown grantee.
RefuseUpload(r) ==
  /\ pc[r] = "grants"
  /\ Goto(r, "reset") /\ Reply(r, 400)
  /\ UNCHANGED <<database, files, items, generation, request, held, seen, commitStarted>>

FindGrantees(r) ==
  /\ pc[r] = "grants"
  /\ FreeConnection
  /\ Goto(r, IF target[r].file THEN "save" ELSE "begin")
  /\ UNCHANGED <<database, files, items, generation, request, held, seen,
                 commitStarted, reply>>

SaveFile(r) ==
  /\ pc[r] = "save"
  /\ files' = files \cup {r}
  /\ Goto(r, "begin")
  /\ UNCHANGED <<database, items, generation, request, held, seen, commitStarted, reply>>

\* Save removes the incomplete file; an error of that removal is ignored.
SaveFileFails(r) ==
  /\ pc[r] = "save"
  /\ "file" \in Faults
  /\ files' \in {files, files \cup {r}}
  /\ Goto(r, "reset") /\ Reply(r, 500)
  /\ UNCHANGED <<database, items, generation, request, held, seen, commitStarted>>

\* Mutant: commitStarted is set together with the transaction.
BeginMarksCommit(r) ==
  /\ pc[r] = "begin"
  /\ FreeConnection
  /\ commitStarted' = commitStarted \cup {r}
  /\ Goto(r, "insert")
  /\ UNCHANGED <<database, files, items, generation, request, held, seen, reply>>

Begin(r) ==
  /\ pc[r] = "begin"
  /\ FreeConnection
  /\ Goto(r, "insert")
  /\ UNCHANGED <<database, files, items, generation, request, held, seen,
                 commitStarted, reply>>

\* Mutant: the rows are inserted through the pool and not the transaction.
InsertOnPool(r) ==
  /\ pc[r] = "insert"
  /\ FreeConnection
  /\ row' = [row EXCEPT ![r] = RowOf(Viewer(r), target[r])]
  /\ commitStarted' = commitStarted \cup {r}
  /\ Goto(r, "commit")
  /\ UNCHANGED <<sessions, docs, inDoubt, applied, files, items, generation, request,
                 held, seen, reply>>

\* CreateDocument and CreateDocumentGrant: nobody sees the rows yet.
Insert(r) ==
  /\ pc[r] = "insert"
  /\ row' = [row EXCEPT ![r] = RowOf(Viewer(r), target[r])]
  /\ commitStarted' = commitStarted \cup {r}
  /\ Goto(r, "commit")
  /\ UNCHANGED <<sessions, docs, inDoubt, applied, files, items, generation, request,
                 held, seen, reply>>

AddRow(r) ==
  /\ docs' = docs \cup {r}
  /\ applied' = applied \cup {r}
  /\ UNCHANGED <<sessions, row, inDoubt>>

Commit(r) ==
  /\ pc[r] = "commit"
  /\ AddRow(r)
  /\ Goto(r, "cleanup") /\ Reply(r, 200)
  /\ UNCHANGED <<files, items, generation, request, held, seen, commitStarted>>

CommitFails(r) ==
  /\ pc[r] = "commit"
  /\ \/ "db" \in Faults /\ UNCHANGED database
     \/ "indoubt" \in Faults /\ AddRow(r)
     \/ /\ "late" \in Faults
        /\ inDoubt' = inDoubt \cup {r}
        /\ UNCHANGED <<sessions, docs, row, applied>>
  /\ Goto(r, "cleanup") /\ Reply(r, 500)
  /\ UNCHANGED <<files, items, generation, request, held, seen, commitStarted>>

Rollback(r) ==
  /\ pc[r] = "rollback"
  /\ Goto(r, "cleanup")
  /\ UNCHANGED <<database, files, items, generation, request, held, seen,
                 commitStarted, reply>>

\* Mutant: the file goes after every error, also one of the commit.
CleanupOnError(r) ==
  /\ pc[r] = "cleanup"
  /\ IF target[r].file /\ reply[r] # 200
       THEN \/ files' = files \ {r}
            \/ "file" \in Faults /\ UNCHANGED files
       ELSE UNCHANGED files
  /\ Goto(r, "reset")
  /\ UNCHANGED <<database, items, generation, request, held, seen, commitStarted, reply>>

Cleanup(r) ==
  /\ pc[r] = "cleanup"
  /\ IF target[r].file /\ r \notin commitStarted
       THEN \/ files' = files \ {r}
            \/ "file" \in Faults /\ UNCHANGED files
       ELSE UNCHANGED files
  /\ Goto(r, "reset")
  /\ UNCHANGED <<database, items, generation, request, held, seen, commitStarted, reply>>

-----------------------------------------------------------------------------
(***************************************************************************)
(* Any other statement fails without effect, or its context is cancelled:  *)
(* the handler answers 500, an upload and a deletion after a reset.        *)
(***************************************************************************)
AfterFailure(at) ==
  CASE at = "insert" -> "rollback"
    [] at = "begin" -> "cleanup"
    [] at \in {"grants", "why"} -> "reset"
    [] at \in {"auth", "query", "logout"} -> "done"

StatementFails(r) ==
  /\ "db" \in Faults
  /\ pc[r] \in {"auth", "query", "logout", "why", "grants", "begin", "insert"}
  /\ Goto(r, AfterFailure(pc[r])) /\ Reply(r, 500)
  /\ UNCHANGED <<database, files, items, generation, request, held, seen, commitStarted>>

Logout(r) ==
  /\ pc[r] = "logout"
  /\ FreeConnection
  /\ sessions' = sessions \ {token[r]}
  /\ Finish(r, 200)
  /\ UNCHANGED <<docs, row, inDoubt, applied, files, items, generation, request, held,
                 seen, commitStarted>>

Step(r) ==
  \/ Reject(r) \/ Authenticate(r) \/ StatementFails(r)
  \/ Lookup(r) \/ QueryList(r) \/ QueryDocument(r) \/ ReadFile(r) \/ StoreResponse(r)
  \/ DeleteRow(r) \/ DeleteRowFails(r) \/ LookupReason(r) \/ Unlink(r)
  \/ AcceptForm(r) \/ OpenFails(r) \/ RefuseUpload(r) \/ FindGrantees(r)
  \/ SaveFile(r) \/ SaveFileFails(r) \/ Begin(r) \/ Insert(r)
  \/ Commit(r) \/ CommitFails(r) \/ Rollback(r) \/ Cleanup(r)
  \/ Reset(r) \/ Logout(r)

-----------------------------------------------------------------------------
(***************************************************************************)
(* What happens around the requests: a session expires, PostgreSQL         *)
(* finishes or drops a statement that its client gave up, and the process  *)
(* dies and starts again with an empty cache while everything in flight is *)
(* lost.                                                                   *)
(***************************************************************************)
Expire(t) ==
  /\ "expire" \in Faults
  /\ t \in sessions
  /\ sessions' = sessions \ {t}
  /\ UNCHANGED <<docs, row, inDoubt, applied, files, items, generation, pc, request,
                 held, seen, commitStarted, reply>>

Land(r) ==
  /\ r \in inDoubt
  /\ inDoubt' = inDoubt \ {r}
  /\ \/ /\ r \in Uploads
        /\ docs' = docs \cup {r}
        /\ applied' = applied \cup {r}
     \/ /\ r \in Deletes /\ CanDelete(r)
        /\ docs' = docs \ {target[r]}
        /\ applied' = applied \cup {r}
     \/ UNCHANGED <<docs, applied>>
  /\ UNCHANGED <<sessions, row, files, items, generation, pc, request, held, seen,
                 commitStarted, reply>>

InFlight(r) == pc[r] \notin {"new", "done"}

Restart ==
  /\ "crash" \in Faults
  /\ \E r \in Request : InFlight(r)
  /\ pc' = [r \in Request |-> IF InFlight(r) THEN "done" ELSE pc[r]]
  /\ reply' = [r \in Request |-> IF InFlight(r) THEN 0 ELSE reply[r]]
  /\ items' = Empty
  /\ generation' = 0
  /\ UNCHANGED <<database, files, request, held, seen, commitStarted>>

Finished ==
  /\ \A r \in Request : ~InFlight(r)
  /\ UNCHANGED vars

Next ==
  \/ \E r \in Request : Arrive(r) \/ Step(r) \/ Land(r)
  \/ \E t \in Token : Expire(t)
  \/ Restart
  \/ Finished

Spec == Init /\ [][Next]_vars

(***************************************************************************)
(* The goroutine of a request that has arrived goes on whenever it can; a  *)
(* statement in doubt is settled in the end.  Clients, clocks and crashes  *)
(* promise nothing.                                                        *)
(***************************************************************************)
Fairness == \A r \in Request : WF_vars(Step(r)) /\ WF_vars(Land(r))

FairSpec == Spec /\ Fairness

-----------------------------------------------------------------------------
TypeOK ==
  /\ sessions \in SUBSET Token
  /\ docs \in SUBSET DocId
  /\ row \in [DocId -> Row \cup {Unset}]
  /\ inDoubt \in SUBSET Mutators
  /\ applied \in SUBSET Mutators
  /\ files \in SUBSET DocId
  /\ IsCache(items)
  /\ generation \in Nat
  /\ pc \in [Request -> {"new", "auth", "lookup", "query", "read", "store", "delete",
                         "why", "unlink", "reset", "form", "grants", "save", "begin",
                         "insert", "commit", "rollback", "cleanup", "logout", "done"}]
  /\ token \in [Request -> Token]
  /\ target \in [Request -> Forms \cup Query \cup DocId \cup {NoDoc}]
  /\ held \in [Request -> Body]
  /\ seen \in [Request -> Nat]
  /\ commitStarted \in SUBSET Uploads
  /\ reply \in [Request -> {0, 200, 400, 401, 403, 404, 500}]
  /\ acked \in [Request -> SUBSET Request]

(***************************************************************************)
(* What the database would answer now.                                     *)
(***************************************************************************)
Answer(key) ==
  IF key.doc = NoDoc
    THEN Listing(key.user, key.query)
    ELSE {d \in docs \cap {key.doc} : CanRead(key.user, d)}

Differ(A, B) == (A \ B) \cup (B \ A)

\* A change that has been made and whose handler has still to reset the cache.
Pending(m) == m \in applied /\ pc[m] \in {"cleanup", "unlink", "reset"}

ChangeOf(d) == {m \in Mutators : m = d \/ (m \in Deletes /\ target[m] = d)}

(***************************************************************************)
(* A cached response differs from the database only by documents whose     *)
(* upload or deletion has still to reset the cache: no reader that raced   *)
(* an earlier change has put an old result back (cache.go:56-58,           *)
(* handlers/documents.go:119-122, 294, 403, 452-455).                      *)
(***************************************************************************)
StaleOnlyUntilReset ==
  \A key \in DOMAIN items :
    \A d \in Differ(items[key], Answer(key)) : \E m \in ChangeOf(d) : Pending(m)

(***************************************************************************)
(* Once nothing is under way and PostgreSQL has settled every statement,   *)
(* each cached response is the current one (README.md:640-642).            *)
(***************************************************************************)
QuiescentCacheIsFresh ==
  (\A r \in Request : ~InFlight(r)) /\ inDoubt = {} =>
    \A key \in DOMAIN items : items[key] = Answer(key)

Answered(r, status) == pc[r] = "done" /\ reply[r] = status

(***************************************************************************)
(* A request sent after a deletion was confirmed never shows the document, *)
(* to any user and from any cached response (handlers/documents.go:455).   *)
(***************************************************************************)
AckedDeleteIsGone ==
  \A r \in Readers, m \in Deletes :
    Answered(r, 200) /\ m \in acked[r] => target[m] \notin held[r]

(***************************************************************************)
(* A list asked for after an upload was confirmed shows the document to    *)
(* those who may read it, unless it was deleted (handlers/documents.go:122)*)
(***************************************************************************)
AckedUploadIsListed ==
  \A r \in Lists, m \in Uploads :
    /\ Answered(r, 200) /\ m \in acked[r]
    /\ row[m].owner = OwnerAsked(Viewer(r), target[r]) /\ CanRead(Viewer(r), m)
    => m \in held[r] \/ \E x \in Deletes \cap applied : target[x] = m

(***************************************************************************)
(* Whatever its way through the cache, a response only shows documents     *)
(* that the viewer owns, was granted or that are public.  The key of a     *)
(* cached response names the user (handlers/documents.go:219-222, 337-340).*)
(***************************************************************************)
NoUnauthorizedDisclosure ==
  \A r \in Readers :
    Answered(r, 200) => \A d \in held[r] : CanRead(Viewer(r), d)

(***************************************************************************)
(* After a confirmed logout the token opens nothing, not even what is      *)
(* cached: each handler asks the database for the session before it asks   *)
(* the cache (README.md:604).                                              *)
(***************************************************************************)
NoAccessAfterLogout ==
  \A r \in Request \ Logouts, m \in Logouts :
    pc[r] = "done" /\ m \in acked[r] /\ token[m] = token[r] =>
      reply[r] \notin {200, 403, 404}

(***************************************************************************)
(* The verdict of a deletion is right although it takes two queries: the   *)
(* owner is never told 403, and after 200 or 404 the document is gone      *)
(* (service/documents.go:383-414).                                         *)
(***************************************************************************)
DeleteVerdict ==
  \A r \in Deletes :
    /\ Answered(r, 403) => row[target[r]].owner # Viewer(r)
    /\ Answered(r, 404) \/ Answered(r, 200) => target[r] \notin docs

(***************************************************************************)
(* A committed file document always has its file, also when the outcome of *)
(* its commit or of its deletion is unknown (service/documents.go:147-159, *)
(* 418-431).                                                               *)
(***************************************************************************)
FilesBackDocuments == \A d \in docs : row[d].file => d \in files

\* The process died under the request, which got no answer.
CutOff(r) == Answered(r, 0)

(***************************************************************************)
(* A file without a document belongs to an upload or a deletion under way, *)
(* to one that a crash cut off, or to one whose outcome was unknown and    *)
(* that was answered 500: an upload that fails before the commit leaves    *)
(* nothing, and a crash leaves nothing of requests answered before         *)
(* (README.md:699).                                                        *)
(***************************************************************************)
OrphansExplained ==
  \A f \in files \ docs :
    \/ f \in Uploads /\ pc[f] \in {"begin", "insert", "commit", "rollback", "cleanup"}
    \/ f \in Uploads /\ CutOff(f)
    \/ f \in Uploads /\ row[f] # Unset /\ reply[f] = 500
    \/ \E m \in Deletes \cap applied :
         target[m] = f /\ (pc[m] = "unlink" \/ CutOff(m) \/ reply[m] = 500)

(***************************************************************************)
(* Without failures a document request fails with 500 only when it lost a  *)
(* race with a deletion: the row was there, the file no longer             *)
(* (service/documents.go:326-364, 418).                                    *)
(***************************************************************************)
ReadFailsOnlyIfDeleted ==
  \A r \in Gets : Answered(r, 500) => target[r] \notin docs

(***************************************************************************)
(* Every request is answered, with however few connections: an upload never*)
(* waits for a second one while it keeps the one of its transaction.  Only *)
(* the end of the process, which nobody can count on, may come before that.*)
(***************************************************************************)
EveryRequestAnswered == \A r \in Request : InFlight(r) ~> pc[r] = "done"
=============================================================================
