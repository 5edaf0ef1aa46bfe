------------------------- MODULE DocumentApiProofs --------------------------
(***************************************************************************)
(* Invariants of DocumentApi for every set of requests, users, documents   *)
(* and sessions, every size of the cache and of the connection pool.       *)
(***************************************************************************)
EXTENDS DocumentApi, TLAPS

-----------------------------------------------------------------------------
(***************************************************************************)
(* The empty cache is a cache without keys.                                *)
(***************************************************************************)
LEMMA EmptyCache ==
  /\ IsCache(Empty)
  /\ DOMAIN Empty = {}
BY DEF IsCache, Empty

(***************************************************************************)
(* Removing keys from a cache leaves a cache with the other entries.       *)
(***************************************************************************)
LEMMA WithoutCache ==
  ASSUME NEW cached, IsCache(cached), NEW K
  PROVE  /\ IsCache(Without(cached, K))
         /\ DOMAIN Without(cached, K) = DOMAIN cached \ K
         /\ \A k \in DOMAIN cached \ K : Without(cached, K)[k] = cached[k]
BY DEF IsCache, Without, Restrict

-----------------------------------------------------------------------------
(***************************************************************************)
(* Types, arguments and places: a request only visits the steps of its own *)
(* handler, with an argument of its own kind.                              *)
(***************************************************************************)
Place ==
  \A r \in Request :
    /\ pc[r] \in {"lookup", "query", "store"} => r \in Readers
    /\ pc[r] = "read" => r \in Gets
    /\ pc[r] \in {"delete", "why", "unlink"} => r \in Deletes
    /\ pc[r] \in {"form", "grants", "save", "begin", "insert", "commit", "rollback",
                  "cleanup"} => r \in Uploads
    /\ pc[r] = "reset" => r \in Mutators
    /\ pc[r] = "logout" => r \in Logouts
    /\ pc[r] = "auth" => r \notin Logouts

ArgumentsOK ==
  \A r \in Request :
    pc[r] # "new" =>
      /\ r \in Uploads => target[r] \in Forms
      /\ r \in Lists => target[r] \in Query
      /\ r \in Gets \cup Deletes => target[r] \in KnownDocs

Typed == TypeOK /\ Place /\ ArgumentsOK

\* Every expression the actions build keeps to its type.
LEMMA Requests ==
  /\ Request = Uploads \cup Lists \cup Gets \cup Deletes \cup Logouts
  /\ Readers \subseteq Request
  /\ Mutators \subseteq Request
  /\ \A r \in Uploads : r \in DocId /\ r \notin Stored
BY DocIdAssumption DEF Request, Readers, Mutators

LEMMA Values ==
  ASSUME Typed
  PROVE  /\ \A r \in Request : Viewer(r) \in User
         /\ \A user, query : Listing(user, query) \in Body
         /\ KnownDocs \subseteq DocId
         /\ \A r \in Readers : pc[r] # "new" => KeyOf(r) \in Key
<1>1. \A r \in Request : Viewer(r) \in User
  BY TokenAssumption DEF Typed, TypeOK, Viewer
<1>2. \A user, query : Listing(user, query) \in Body
  BY BodyAssumption DEF Typed, TypeOK, Listing
<1>3. KnownDocs \subseteq DocId
  BY DocIdAssumption DEF KnownDocs
<1>4. ASSUME NEW r \in Readers, pc[r] # "new" PROVE KeyOf(r) \in Key
  <2>1. CASE r \in Lists
    BY <1>1, <1>4, <2>1, Requests
       DEF KeyOf, Key, ListKey, Typed, ArgumentsOK
  <2>2. CASE r \notin Lists
    BY <1>1, <1>3, <1>4, <2>2, Requests
       DEF KeyOf, Key, DocumentKey, Readers, Typed, ArgumentsOK
  <2> QED
    BY <2>1, <2>2
<1> QED
  BY <1>1, <1>2, <1>3, <1>4

LEMMA InitTyped == Init => Typed
<1> SUFFICES ASSUME Init PROVE Typed
  OBVIOUS
<1>1. (CHOOSE t \in Token : TRUE) \in Token
  BY TokenAssumption
<1>2. \A u \in User, f \in Forms : RowOf(u, f) \in Row
  BY FormAssumption DEF RowOf, Row, Form
<1>3. row \in [DocId -> Row \cup {Unset}]
  BY <1>2 DEF Init
<1>4. docs \in SUBSET DocId /\ files \in SUBSET DocId
  BY DocIdAssumption DEF Init
<1>5. IsCache(items) /\ generation \in Nat
  BY EmptyCache DEF Init, CacheInit
<1>6. held \in [Request -> Body]
  BY BodyAssumption DEF Init
<1>7. TypeOK
  BY <1>1, <1>3, <1>4, <1>5, <1>6 DEF Init, TypeOK
<1> QED
  BY <1>7 DEF Init, Typed, Place, ArgumentsOK

-----------------------------------------------------------------------------
(***************************************************************************)
(* The two operations of the cache that the handlers use.                  *)
(***************************************************************************)
LEMMA CacheSetTyped ==
  ASSUME IsCache(items), generation \in Nat,
         NEW key \in Key, NEW body \in Body, NEW gen, CacheSet(key, body, gen)
  PROVE  /\ IsCache(items')
         /\ generation' = generation
         /\ DOMAIN items' \subseteq DOMAIN items \cup {key}
         /\ \A k \in DOMAIN items' :
              \/ k \in DOMAIN items /\ items'[k] = items[k]
              \/ k = key /\ items'[k] = body /\ gen = generation
<1>1. CASE UNCHANGED items
  BY <1>1 DEF CacheSet
<1>2. CASE gen = generation /\ Admissible(body)
  <2> DEFINE others == Without(items, {key})
  <2>1. PICK V \in SUBSET DOMAIN others : items' = With(Without(others, V), key, body)
    BY <1>2 DEF CacheSet, Victims
  <2>2. /\ IsCache(others)
        /\ DOMAIN others = DOMAIN items \ {key}
        /\ \A k \in DOMAIN others : others[k] = items[k]
    BY WithoutCache
  <2> DEFINE rest == Without(others, V)
  <2>3. /\ IsCache(rest)
        /\ DOMAIN rest \subseteq DOMAIN others
        /\ \A k \in DOMAIN rest : rest[k] = others[k]
    BY <2>2 DEF IsCache, Without, Restrict
  <2>4. items' = With(rest, key, body)
    BY <2>1
  <2> HIDE DEF others, rest
  <2> QED
    BY <1>2, <2>2, <2>3, <2>4 DEF With, IsCache, CacheSet
<1> QED
  BY <1>1, <1>2 DEF CacheSet

LEMMA CacheInvalidateTyped ==
  ASSUME IsCache(items), generation \in Nat, NEW doc, CacheInvalidate(doc)
  PROVE  /\ IsCache(items')
         /\ generation' = generation + 1
         /\ DOMAIN items' \subseteq DOMAIN items
         /\ \A k \in DOMAIN items' : items'[k] = items[k] /\ ~DroppedBy(doc, k)
BY WithoutCache DEF CacheInvalidate, Without, Restrict, IsCache

-----------------------------------------------------------------------------
(***************************************************************************)
(* Every step keeps the types, places and arguments.                       *)
(***************************************************************************)
LEMMA ArriveTyped ==
  ASSUME Typed, NEW r \in Request, Arrive(r)
  PROVE  Typed'
<1> USE DEF Arrive, database, request
<1>1. target' \in [Request -> Forms \cup Query \cup DocId \cup {NoDoc}]
  BY Values DEF Typed, TypeOK, Arguments, Request
<1>2. acked' \in [Request -> SUBSET Request]
  BY Requests DEF Typed, TypeOK
<1>3. TypeOK'
  BY <1>1, <1>2, Requests DEF Typed, TypeOK, Goto
<1>4. Place'
  BY DEF Typed, TypeOK, Place, Goto
<1>5. ArgumentsOK'
  BY RequestAssumption DEF Typed, TypeOK, ArgumentsOK, Arguments, Goto, KnownDocs
<1> QED
  BY <1>3, <1>4, <1>5 DEF Typed

(***************************************************************************)
(* The steps that move the request and choose its reply, and at most read. *)
(***************************************************************************)
QuietStep(r) ==
  \/ Reject(r) \/ Authenticate(r) \/ StatementFails(r) \/ LookupReason(r)
  \/ AcceptForm(r) \/ OpenFails(r) \/ RefuseUpload(r) \/ FindGrantees(r)
  \/ Begin(r) \/ Rollback(r)

LEMMA QuietStepTyped ==
  ASSUME Typed, NEW r \in Request, QuietStep(r)
  PROVE  Typed'
<1> USE DEF database, request, Goto, Reply, Finish, Typed
<1>1. CASE Reject(r) \/ OpenFails(r)
  BY <1>1 DEF Reject, OpenFails, TypeOK, Place, ArgumentsOK, KnownDocs
<1>2. CASE Authenticate(r)
  BY <1>2, RequestAssumption
     DEF Authenticate, AfterAuth, Request, Readers, Mutators, TypeOK, Place, ArgumentsOK,
         KnownDocs
<1>3. CASE StatementFails(r)
  BY <1>3, Requests
     DEF StatementFails, AfterFailure, Mutators, TypeOK, Place, ArgumentsOK, KnownDocs
<1>4. CASE LookupReason(r)
  BY <1>4 DEF LookupReason, Mutators, TypeOK, Place, ArgumentsOK, KnownDocs
<1>5. CASE AcceptForm(r) \/ RefuseUpload(r)
  BY <1>5 DEF AcceptForm, RefuseUpload, Mutators, TypeOK, Place, ArgumentsOK, KnownDocs
<1>6. CASE FindGrantees(r) \/ Begin(r) \/ Rollback(r)
  BY <1>6 DEF FindGrantees, Begin, Rollback, TypeOK, Place, ArgumentsOK, KnownDocs
<1> QED
  BY <1>1, <1>2, <1>3, <1>4, <1>5, <1>6 DEF QuietStep

(***************************************************************************)
(* The steps on files.                                                     *)
(***************************************************************************)
FileStep(r) == Unlink(r) \/ SaveFile(r) \/ SaveFileFails(r) \/ Cleanup(r)

LEMMA FileStepTyped ==
  ASSUME Typed, NEW r \in Request, FileStep(r)
  PROVE  Typed'
<1> USE DEF database, request, Goto, Reply, Typed
<1>1. files' \in SUBSET DocId
  BY Requests DEF FileStep, Unlink, SaveFile, SaveFileFails, Cleanup, TypeOK, Place
<1>2. TypeOK'
  BY <1>1 DEF FileStep, Unlink, SaveFile, SaveFileFails, Cleanup, TypeOK
<1>3. Place'
  BY DEF FileStep, Unlink, SaveFile, SaveFileFails, Cleanup, TypeOK, Place, Mutators
<1>4. ArgumentsOK'
  BY DEF FileStep, Unlink, SaveFile, SaveFileFails, Cleanup, TypeOK, ArgumentsOK, KnownDocs
<1> QED
  BY <1>2, <1>3, <1>4

(***************************************************************************)
(* The steps of a reader.                                                  *)
(***************************************************************************)
ReaderStep(r) ==
  Lookup(r) \/ QueryList(r) \/ QueryDocument(r) \/ ReadFile(r) \/ StoreResponse(r)

LEMMA ReaderStepTyped ==
  ASSUME Typed, NEW r \in Request, ReaderStep(r)
  PROVE  Typed'
<1> USE DEF database, request, Goto, Reply, Finish, Typed
<1>1. CASE Lookup(r)
  <2>1. KeyOf(r) \in DOMAIN items => items[KeyOf(r)] \in Body
    BY DEF TypeOK, IsCache
  <2> QED
    BY <1>1, <2>1 DEF Lookup, TypeOK, Place, ArgumentsOK, KnownDocs
<1>2. CASE QueryList(r)
  BY <1>2, Values DEF QueryList, TypeOK, Place, ArgumentsOK, KnownDocs, Readers
<1>3. CASE QueryDocument(r)
  <2>1. held' \in [Request -> Body]
    <3> DEFINE document == {target[r]}
    <3>1. target[r] \in docs => document \in Body
      BY BodyAssumption DEF TypeOK
    <3>2. \/ held' = held
          \/ target[r] \in docs /\ held' = [held EXCEPT ![r] = document]
      BY <1>3 DEF QueryDocument
    <3> HIDE DEF document
    <3> QED
      BY <3>1, <3>2 DEF TypeOK
  <2>2. TypeOK'
    BY <1>3, <2>1 DEF QueryDocument, TypeOK
  <2>3. Place' /\ ArgumentsOK'
    BY <1>3 DEF QueryDocument, TypeOK, Place, ArgumentsOK, KnownDocs, Readers
  <2> QED
    BY <2>2, <2>3
<1>4. CASE ReadFile(r)
  <2>1. held' \in [Request -> Body]
    <3> DEFINE nothing == {}
    <3>1. nothing \in Body
      BY BodyAssumption
    <3>2. held' = held \/ held' = [held EXCEPT ![r] = nothing]
      BY <1>4 DEF ReadFile
    <3> HIDE DEF nothing
    <3> QED
      BY <3>1, <3>2 DEF TypeOK
  <2>2. TypeOK'
    BY <1>4, <2>1 DEF ReadFile, TypeOK
  <2>3. Place' /\ ArgumentsOK'
    BY <1>4 DEF ReadFile, TypeOK, Place, ArgumentsOK, KnownDocs, Readers
  <2> QED
    BY <2>2, <2>3
<1>5. CASE StoreResponse(r)
  <2>1. KeyOf(r) \in Key
    BY <1>5, Values DEF StoreResponse, Place
  <2>2. IsCache(items') /\ generation' = generation
    BY <1>5, <2>1, CacheSetTyped DEF StoreResponse, TypeOK
  <2> QED
    BY <1>5, <2>2 DEF StoreResponse, TypeOK, Place, ArgumentsOK, KnownDocs
<1> QED
  BY <1>1, <1>2, <1>3, <1>4, <1>5 DEF ReaderStep

(***************************************************************************)
(* The steps that change the database, and the reset that follows them.    *)
(***************************************************************************)
WriterStep(r) ==
  DeleteRow(r) \/ DeleteRowFails(r) \/ Insert(r) \/ Commit(r) \/ CommitFails(r) \/ Reset(r)

LEMMA WriterStepTyped ==
  ASSUME Typed, NEW r \in Request, WriterStep(r)
  PROVE  Typed'
<1> USE DEF database, request, Goto, Reply, Typed
<1>1. CASE DeleteRow(r)
  BY <1>1 DEF DeleteRow, RemoveRow, TypeOK, Place, ArgumentsOK, KnownDocs, Mutators
<1>2. CASE DeleteRowFails(r)
  BY <1>2 DEF DeleteRowFails, RemoveRow, TypeOK, Place, ArgumentsOK, KnownDocs, Mutators
<1>3. CASE Insert(r)
  <2>1. r \in Uploads /\ RowOf(Viewer(r), target[r]) \in Row
    BY <1>3, Values, FormAssumption DEF Insert, Place, ArgumentsOK, RowOf, Row, Form
  <2> QED
    BY <1>3, <2>1, Requests DEF Insert, TypeOK, Place, ArgumentsOK, KnownDocs
<1>4. CASE Commit(r)
  BY <1>4, Requests DEF Commit, AddRow, TypeOK, Place, ArgumentsOK, KnownDocs, Mutators
<1>5. CASE CommitFails(r)
  BY <1>5, Requests DEF CommitFails, AddRow, TypeOK, Place, ArgumentsOK, KnownDocs, Mutators
<1>6. CASE Reset(r)
  <2>1. IsCache(items') /\ generation' \in Nat
    BY <1>6, CacheInvalidateTyped DEF Reset, TypeOK
  <2> QED
    BY <1>6, <2>1 DEF Reset, TypeOK, Place, ArgumentsOK, KnownDocs
<1> QED
  BY <1>1, <1>2, <1>3, <1>4, <1>5, <1>6 DEF WriterStep

(***************************************************************************)
(* What happens around the requests.                                       *)
(***************************************************************************)
LEMMA OtherTyped ==
  ASSUME Typed,
         \/ \E r \in Request : Logout(r) \/ Land(r)
         \/ \E t \in Token : Expire(t)
         \/ Restart
         \/ UNCHANGED vars
  PROVE  Typed'
<1> USE DEF database, request, Goto, Reply, Finish, Typed
<1>1. ASSUME NEW r \in Request, Logout(r) PROVE Typed'
  BY <1>1 DEF Logout, TypeOK, Place, ArgumentsOK, KnownDocs
<1>2. ASSUME NEW r \in Request, Land(r) PROVE Typed'
  BY <1>2, Requests DEF Land, TypeOK, Place, ArgumentsOK, KnownDocs, Mutators
<1>3. ASSUME NEW t \in Token, Expire(t) PROVE Typed'
  BY <1>3 DEF Expire, TypeOK, Place, ArgumentsOK, KnownDocs
<1>4. CASE Restart
  BY <1>4, EmptyCache DEF Restart, InFlight, TypeOK, Place, ArgumentsOK, KnownDocs
<1>5. CASE UNCHANGED vars
  BY <1>5 DEF vars, TypeOK, Place, ArgumentsOK, KnownDocs
<1> QED
  BY <1>1, <1>2, <1>3, <1>4, <1>5

(***************************************************************************)
(* A step of the specification is one of the steps above.                  *)
(***************************************************************************)
LEMMA Steps ==
  ASSUME [Next]_vars
  PROVE  \/ \E r \in Request : Arrive(r)
         \/ \E r \in Request :
              QuietStep(r) \/ FileStep(r) \/ ReaderStep(r) \/ WriterStep(r)
         \/ \E r \in Request : Logout(r) \/ Land(r)
         \/ \E t \in Token : Expire(t)
         \/ Restart
         \/ UNCHANGED vars
BY DEF Next, Step, QuietStep, FileStep, ReaderStep, WriterStep, Finished

\* Every request visits only the steps of its own handler
\* (handlers/documents.go:19-489).
THEOREM TypeInvariance == Spec => []Typed
<1>1. Typed /\ [Next]_vars => Typed'
  BY Steps, ArriveTyped, QuietStepTyped, FileStepTyped, ReaderStepTyped, WriterStepTyped,
     OtherTyped
<1> QED
  BY <1>1, InitTyped, PTL DEF Spec

(***************************************************************************)
(* The types of the variables of DocumentApi.                              *)
(***************************************************************************)
THEOREM TypeCorrect == Spec => []TypeOK
BY TypeInvariance, PTL DEF Typed

-----------------------------------------------------------------------------
(***************************************************************************)
(* Freshness.  An upload's id is unknown until it commits, so nothing can  *)
(* be cached about it; a reader's generation is never ahead of the cache.  *)
(***************************************************************************)
BeforeCommit == {"new", "auth", "form", "grants", "save", "begin", "insert", "commit"}

Known ==
  /\ docs \subseteq KnownDocs
  /\ \A r \in Uploads : pc[r] \in BeforeCommit => r \notin applied

SeenOK ==
  \A r \in Readers : pc[r] \in {"query", "read", "store"} => seen[r] \in 0..generation

\* A response that is cached, or that a reader has and Set would still accept.
Kept(key, body) ==
  \/ key \in DOMAIN items /\ items[key] = body
  \/ \E r \in Readers :
       /\ pc[r] \in {"read", "store"} /\ seen[r] = generation
       /\ KeyOf(r) = key /\ held[r] = body

\* The response is current but for changes whose handler has yet to reset the
\* cache.  Only a deletion makes a document's own response stale.
Explained(key, body) ==
  IF key.doc = NoDoc
    THEN \A d \in Differ(body, Listing(key.user, key.query)) :
           \E m \in ChangeOf(d) : Pending(m)
    ELSE /\ key.doc \in KnownDocs
         /\ body = {key.doc}
         /\ CanRead(key.user, key.doc)
         /\ key.doc \in docs \/ \E m \in Deletes : target[m] = key.doc /\ Pending(m)

KeptExplained == \A key \in Key, body \in Body : Kept(key, body) => Explained(key, body)

FInv == Typed /\ inDoubt = {} /\ Known /\ SeenOK /\ KeptExplained

(***************************************************************************)
(* What a step must not do: forget a change before its reset, change a row,*)
(* change the documents without a pending change that says so ...          *)
(***************************************************************************)
Preserves ==
  /\ applied \subseteq applied'
  /\ \A d \in KnownDocs : row'[d] = row[d]
  /\ \A m \in Mutators : Pending(m) => Pending(m)' /\ target'[m] = target[m]
  /\ \A d \in Differ(docs, docs') : \E m \in ChangeOf(d)' : Pending(m)'
  /\ \A d \in docs \ docs' : \E m \in Deletes : target'[m] = d /\ Pending(m)'

(* ... and keep a response that is new and not explained.                  *)
NothingNew ==
  \A key \in Key, body \in Body :
    Kept(key, body)' => Kept(key, body) \/ Explained(key, body)'

LEMMA StaysExplained ==
  ASSUME FInv, Preserves, NothingNew
  PROVE  KeptExplained'
<1> SUFFICES ASSUME NEW key \in Key, NEW body \in Body, Explained(key, body)
             PROVE  Explained(key, body)'
  BY DEF FInv, KeptExplained, NothingNew
<1>1. KnownDocs \subseteq KnownDocs'
  BY DEF Preserves, KnownDocs
<1>2. \A d \in KnownDocs : \A u : CanRead(u, d)' <=> CanRead(u, d)
  BY DEF Preserves, CanRead
<1>3. ASSUME NEW d, NEW m \in ChangeOf(d), Pending(m)
      PROVE  m \in ChangeOf(d)' /\ Pending(m)'
  BY <1>3 DEF Preserves, ChangeOf
<1>4. CASE key.doc = NoDoc
  <2> SUFFICES ASSUME NEW d \in Differ(body, Listing(key.user, key.query)')
               PROVE  \E m \in ChangeOf(d)' : Pending(m)'
    BY <1>4 DEF Explained, Listing, Differ
  <2>1. CASE d \in Differ(body, Listing(key.user, key.query))
    BY <1>3, <1>4, <2>1 DEF Explained
  <2>2. CASE d \notin Differ(body, Listing(key.user, key.query))
    <3>1. d \in Differ(Listing(key.user, key.query), Listing(key.user, key.query)')
      BY <2>2 DEF Differ
    <3>2. d \in docs /\ d \in docs' =>
            (d \in Listing(key.user, key.query) <=> d \in Listing(key.user, key.query)')
      BY <1>2 DEF Listing, FInv, Known, Preserves, CanRead
    <3>3. d \in Differ(docs, docs')
      BY <3>1, <3>2 DEF Differ, Listing
    <3> QED
      BY <3>3 DEF Preserves
  <2> QED
    BY <2>1, <2>2
<1>5. CASE key.doc # NoDoc
  <2>1. key.doc \in KnownDocs' /\ body = {key.doc} /\ CanRead(key.user, key.doc)'
    BY <1>1, <1>2, <1>5 DEF Explained
  <2>2. key.doc \in docs' \/ \E m \in Deletes : target'[m] = key.doc /\ Pending(m)'
    BY <1>5 DEF Explained, Preserves, Mutators
  <2> QED
    BY <1>5, <2>1, <2>2 DEF Explained
<1> QED
  BY <1>4, <1>5

-----------------------------------------------------------------------------
(***************************************************************************)
(* A step that touches neither the cache nor the documents, ends no        *)
(* pending change and puts no request on the way to Set.                   *)
(***************************************************************************)
Calm ==
  /\ UNCHANGED <<items, generation, docs, row, applied>>
  /\ \A m \in Mutators : Pending(m) => Pending(m)' /\ target'[m] = target[m]
  /\ \A r \in Readers :
       pc'[r] \in {"read", "store"} =>
         /\ pc[r] \in {"read", "store"}
         /\ UNCHANGED <<token[r], target[r], held[r], seen[r]>>

LEMMA CalmStep ==
  ASSUME FInv, Calm
  PROVE  KeptExplained'
<1>1. Preserves
  BY DEF Calm, Preserves, Differ
<1>2. ASSUME NEW r \in Readers, pc'[r] \in {"read", "store"}
      PROVE  pc[r] \in {"read", "store"} /\ KeyOf(r)' = KeyOf(r)
             /\ held'[r] = held[r] /\ seen'[r] = seen[r]
  BY <1>2 DEF Calm, KeyOf, Viewer
<1>3. NothingNew
  BY <1>2 DEF NothingNew, Kept, Calm
<1> QED
  BY <1>1, <1>3, StaysExplained

LEMMA InitFresh == Init => FInv
<1> SUFFICES ASSUME Init PROVE FInv
  OBVIOUS
<1>1. Known /\ SeenOK /\ inDoubt = {}
  BY Requests DEF Init, Known, KnownDocs, SeenOK
<1>2. DOMAIN items = {}
  BY EmptyCache DEF Init, CacheInit
<1>3. KeptExplained
  BY <1>2, Requests DEF Init, KeptExplained, Kept
<1> QED
  BY <1>1, <1>3, InitTyped DEF FInv

LEMMA ArriveFresh ==
  ASSUME FInv, NEW r \in Request, Arrive(r)
  PROVE  Known' /\ SeenOK' /\ inDoubt' = {} /\ KeptExplained'
<1> USE DEF Arrive, database, request, Goto
<1>1. Calm
  BY Requests DEF Calm, Pending, FInv, Typed, TypeOK
<1>2. Known' /\ SeenOK' /\ inDoubt' = {}
  BY Requests DEF FInv, Typed, TypeOK, Known, KnownDocs, BeforeCommit, SeenOK
<1> QED
  BY <1>1, <1>2, CalmStep

LEMMA QuietStepFresh ==
  ASSUME FInv, NEW r \in Request, QuietStep(r)
  PROVE  Known' /\ SeenOK' /\ inDoubt' = {} /\ KeptExplained'
<1> DEFINE Moves(to) ==
             /\ pc[r] \notin {"read", "store", "cleanup", "unlink", "reset", "done"}
             /\ pc' = [pc EXCEPT ![r] = to]
             /\ to \notin {"query", "read", "store"}
             /\ to \in BeforeCommit => pc[r] \in BeforeCommit
             /\ UNCHANGED <<items, generation, docs, row, applied, inDoubt, token, target,
                            held, seen>>
<1>1. \E to : Moves(to)
  <2> USE DEF database, request, Goto, Reply, Finish, BeforeCommit
  <2>1. CASE Reject(r) \/ OpenFails(r)
    <3>1. Moves("done")
      BY <2>1 DEF Reject, OpenFails
    <3> QED
      BY <3>1
  <2>2. CASE Authenticate(r)
    <3>1. CASE token[r] \notin sessions
      BY <2>2, <3>1 DEF Authenticate
    <3>2. CASE token[r] \in sessions
      <4>1. r \notin Logouts
        BY <2>2 DEF Authenticate, FInv, Typed, Place
      <4>2. AfterAuth(r) \in {"form", "lookup", "delete"}
        BY <4>1 DEF AfterAuth, Request, Readers
      <4>3. Moves(AfterAuth(r))
        BY <2>2, <3>2, <4>2 DEF Authenticate
      <4> QED
        BY <4>3
    <3> QED
      BY <3>1, <3>2
  <2>3. CASE StatementFails(r)
    <3>1. AfterFailure(pc[r]) \in {"rollback", "cleanup", "reset", "done"}
      BY <2>3 DEF StatementFails, AfterFailure
    <3>2. Moves(AfterFailure(pc[r]))
      BY <2>3, <3>1 DEF StatementFails
    <3> QED
      BY <3>2
  <2>4. CASE LookupReason(r) \/ RefuseUpload(r)
    <3>1. Moves("reset")
      BY <2>4 DEF LookupReason, RefuseUpload
    <3> QED
      BY <3>1
  <2>5. CASE AcceptForm(r) \/ FindGrantees(r) \/ Begin(r) \/ Rollback(r)
    BY <2>5 DEF AcceptForm, FindGrantees, Begin, Rollback
  <2> QED
    BY <2>1, <2>2, <2>3, <2>4, <2>5 DEF QuietStep
<1>2. PICK to : Moves(to)
  BY <1>1
<1>3. Calm
  BY <1>2, Requests DEF Calm, Pending, FInv, Typed, TypeOK
<1>4. Known' /\ SeenOK' /\ inDoubt' = {}
  BY <1>2, Requests DEF FInv, Typed, TypeOK, Known, KnownDocs, SeenOK
<1> QED
  BY <1>3, <1>4, CalmStep

LEMMA FileStepFresh ==
  ASSUME FInv, NEW r \in Request, FileStep(r)
  PROVE  Known' /\ SeenOK' /\ inDoubt' = {} /\ KeptExplained'
<1> USE DEF FileStep, Unlink, SaveFile, SaveFileFails, Cleanup, database, request, Goto,
        Reply
<1>1. Calm
  BY Requests DEF Calm, Pending, FInv, Typed, TypeOK
<1>2. Known' /\ SeenOK' /\ inDoubt' = {}
  BY Requests DEF FInv, Typed, TypeOK, Known, KnownDocs, BeforeCommit, SeenOK
<1> QED
  BY <1>1, <1>2, CalmStep

LEMMA OtherFresh ==
  ASSUME FInv,
         \/ \E r \in Request : Logout(r) \/ Land(r)
         \/ \E t \in Token : Expire(t)
         \/ Restart
         \/ UNCHANGED vars
  PROVE  Known' /\ SeenOK' /\ inDoubt' = {} /\ KeptExplained'
<1> USE DEF database, request, Goto, Reply, Finish
<1>1. ASSUME NEW r \in Request, Logout(r) PROVE Calm /\ Known' /\ SeenOK' /\ inDoubt' = {}
  BY <1>1, Requests DEF Logout, Calm, Pending, FInv, Typed, TypeOK, Known, KnownDocs,
     BeforeCommit, SeenOK
<1>2. ASSUME NEW r \in Request, Land(r) PROVE FALSE
  BY <1>2 DEF Land, FInv
<1>3. ASSUME NEW t \in Token, Expire(t) PROVE Calm /\ Known' /\ SeenOK' /\ inDoubt' = {}
  BY <1>3 DEF Expire, Calm, Pending, FInv, Known, KnownDocs, BeforeCommit, SeenOK
<1>4. CASE Restart
  <2>1. Known' /\ inDoubt' = {}
    BY <1>4, Requests DEF Restart, InFlight, FInv, Typed, TypeOK, Known, KnownDocs,
       BeforeCommit
  <2>2. \A r \in Readers : pc'[r] \notin {"query", "read", "store"}
    BY <1>4, Requests DEF Restart, InFlight
  <2>3. DOMAIN items' = {}
    BY <1>4, EmptyCache DEF Restart
  <2>4. SeenOK' /\ KeptExplained'
    BY <2>2, <2>3 DEF SeenOK, KeptExplained, Kept
  <2> QED
    BY <2>1, <2>4
<1>5. CASE UNCHANGED vars
  BY <1>5, CalmStep DEF vars, Calm, Pending, FInv, Known, KnownDocs, BeforeCommit, SeenOK
<1> QED
  BY <1>1, <1>2, <1>3, <1>4, <1>5, CalmStep

-----------------------------------------------------------------------------
(***************************************************************************)
(* A reader answers from the cache, or reads what is current and passes it *)
(* on to Set.                                                              *)
(***************************************************************************)
LEMMA ReaderStepFresh ==
  ASSUME FInv, NEW r \in Request, ReaderStep(r)
  PROVE  Known' /\ SeenOK' /\ inDoubt' = {} /\ KeptExplained'
<1> USE DEF database, request, Goto, Reply, Finish
<1>1. r \in Readers
  BY DEF ReaderStep, Lookup, QueryList, QueryDocument, ReadFile, StoreResponse, FInv,
     Typed, Place, Readers
<1>2. generation' = generation
  BY DEF ReaderStep, Lookup, QueryList, QueryDocument, ReadFile, StoreResponse, CacheSet
<1>3. UNCHANGED <<docs, row, applied, inDoubt, token, target>>
  BY DEF ReaderStep, Lookup, QueryList, QueryDocument, ReadFile, StoreResponse
<1> DEFINE Moves(to, gen) ==
             /\ pc' = [pc EXCEPT ![r] = to]
             /\ seen' = [seen EXCEPT ![r] = gen]
             /\ to \in {"query", "read", "store", "done"}
             /\ to # "done" => gen \in 0..generation
<1>4. \E to, gen : Moves(to, gen)
  <2>1. generation \in Nat /\ seen = [seen EXCEPT ![r] = seen[r]]
    BY DEF FInv, Typed, TypeOK
  <2>2. pc[r] \in {"query", "read", "store"} => seen[r] \in 0..generation
    BY <1>1 DEF FInv, SeenOK
  <2>3. CASE Lookup(r)
    <3>1. Moves("done", seen[r]) \/ Moves("query", generation)
      BY <2>1, <2>3 DEF Lookup
    <3> QED
      BY <3>1
  <2>4. CASE QueryList(r) \/ QueryDocument(r) \/ ReadFile(r) \/ StoreResponse(r)
    <3>1. seen' = [seen EXCEPT ![r] = seen[r]] /\ seen[r] \in 0..generation
      BY <2>1, <2>2, <2>4 DEF QueryList, QueryDocument, ReadFile, StoreResponse
    <3>2. \E to \in {"read", "store", "done"} : pc' = [pc EXCEPT ![r] = to]
      BY <2>4 DEF QueryList, QueryDocument, ReadFile, StoreResponse
    <3> QED
      BY <3>1, <3>2
  <2> QED
    BY <2>3, <2>4 DEF ReaderStep
<1>5. r \notin Uploads
  BY <1>1, RequestAssumption DEF Readers
<1>6. Known' /\ inDoubt' = {}
  BY <1>3, <1>4, <1>5, Requests DEF FInv, Typed, TypeOK, Known, KnownDocs, BeforeCommit
<1>7. SeenOK'
  BY <1>2, <1>4, Requests DEF FInv, Typed, TypeOK, SeenOK
<1>8. Preserves
  <2>1. \A m \in Mutators : m # r
    BY <1>1, RequestAssumption DEF Readers, Mutators
  <2> QED
    BY <1>3, <1>4, <2>1, Requests DEF Preserves, Differ, Pending, FInv, Typed, TypeOK
<1>9. \A q \in Readers : KeyOf(q)' = KeyOf(q)
  BY <1>3 DEF KeyOf, Viewer
<1>10. NothingNew
  <2>1. CASE Lookup(r)
    BY <1>2, <1>9, <2>1, Requests DEF Lookup, NothingNew, Kept, FInv, Typed, TypeOK
  <2>2. CASE QueryList(r)
    <3>1. KeyOf(r).doc = NoDoc /\ KeyOf(r).user = Viewer(r) /\ KeyOf(r).query = target[r]
      BY <2>2 DEF QueryList, KeyOf
    <3>2. ASSUME NEW key \in Key, NEW body \in Body, Kept(key, body)', ~Kept(key, body)
          PROVE  key = KeyOf(r) /\ body = Listing(Viewer(r), target[r])
      BY <1>2, <1>9, <2>2, <3>2, Requests DEF QueryList, Kept, FInv, Typed, TypeOK
    <3>3. ASSUME NEW key \in Key, NEW body \in Body, Kept(key, body)', ~Kept(key, body)
          PROVE  Explained(key, body)'
      <4>1. key.doc = NoDoc /\ body = Listing(key.user, key.query)
        BY <3>1, <3>2, <3>3
      <4>2. Listing(key.user, key.query)' = Listing(key.user, key.query)
        BY <1>3 DEF Listing, CanRead
      <4> QED
        BY <4>1, <4>2 DEF Explained, Differ
    <3> QED
      BY <3>3 DEF NothingNew
  <2>3. CASE QueryDocument(r)
    <3>1. KeyOf(r).doc = target[r] /\ KeyOf(r).user = Viewer(r)
      BY <2>3, RequestAssumption DEF QueryDocument, KeyOf
    <3>2. ASSUME NEW key \in Key, NEW body \in Body, Kept(key, body)', ~Kept(key, body)
          PROVE  /\ key = KeyOf(r) /\ body = {target[r]}
                 /\ target[r] \in docs /\ CanRead(Viewer(r), target[r])
      BY <1>2, <1>9, <2>3, <3>2, Requests DEF QueryDocument, Kept, FInv, Typed, TypeOK
    <3>3. ASSUME NEW key \in Key, NEW body \in Body, Kept(key, body)', ~Kept(key, body)
          PROVE  Explained(key, body)'
      <4>1. key.doc \in docs /\ body = {key.doc} /\ CanRead(key.user, key.doc)
        BY <3>1, <3>2, <3>3
      <4>2. key.doc # NoDoc /\ key.doc \in KnownDocs
        BY <4>1, KeyAssumption DEF FInv, Known, Typed, TypeOK
      <4>3. docs' = docs /\ KnownDocs' = KnownDocs /\ CanRead(key.user, key.doc)'
        BY <1>3, <4>1 DEF KnownDocs, CanRead
      <4> QED
        BY <4>1, <4>2, <4>3 DEF Explained
    <3> QED
      BY <3>3 DEF NothingNew
  <2>4. CASE ReadFile(r)
    BY <1>2, <1>9, <2>4, Requests DEF ReadFile, NothingNew, Kept, FInv, Typed, TypeOK
  <2>5. CASE StoreResponse(r)
    <3>1. KeyOf(r) \in Key /\ held[r] \in Body
      BY <1>1, <2>5, Values, Requests DEF StoreResponse, FInv, Typed, TypeOK
    <3>2. \A k \in DOMAIN items' :
            \/ k \in DOMAIN items /\ items'[k] = items[k]
            \/ k = KeyOf(r) /\ items'[k] = held[r] /\ seen[r] = generation
      BY <2>5, <3>1, CacheSetTyped DEF StoreResponse, FInv, Typed, TypeOK
    <3>3. /\ pc[r] = "store" /\ pc'[r] = "done"
          /\ \A q \in Readers : q # r => pc'[q] = pc[q]
          /\ UNCHANGED <<held, seen>>
      BY <2>5, Requests DEF StoreResponse, FInv, Typed, TypeOK
    <3> QED
      BY <1>1, <1>2, <1>9, <3>2, <3>3 DEF NothingNew, Kept
  <2> QED
    BY <2>1, <2>2, <2>3, <2>4, <2>5 DEF ReaderStep
<1> QED
  BY <1>6, <1>7, <1>8, <1>10, StaysExplained

-----------------------------------------------------------------------------
(***************************************************************************)
(* An upload or a deletion leaves what is kept alone until its reset, and  *)
(* is pending from the moment its change takes effect.  Statements that    *)
(* land late are excluded: they change the documents with nothing pending. *)
(***************************************************************************)
LEMMA ChangeFresh ==
  ASSUME FInv, "late" \notin Faults, NEW r \in Request, WriterStep(r), ~Reset(r)
  PROVE  Known' /\ SeenOK' /\ inDoubt' = {} /\ KeptExplained'
<1> USE DEF database, request, Goto, Reply
<1> DEFINE ChangeStep == \/ DeleteRow(r) \/ DeleteRowFails(r)
                         \/ Insert(r) \/ Commit(r) \/ CommitFails(r)
<1>1. ChangeStep
  BY DEF WriterStep
<1>2. r \in Mutators /\ r \notin Readers
  BY <1>1, RequestAssumption
     DEF DeleteRow, DeleteRowFails, Insert, Commit, CommitFails, FInv, Typed, Place,
         Mutators, Readers
<1>3. /\ UNCHANGED <<items, generation, token, target, held, seen>>
      /\ \A q \in Request : q # r => pc'[q] = pc[q]
  BY <1>1 DEF DeleteRow, DeleteRowFails, Insert, Commit, CommitFails, FInv, Typed, TypeOK
<1>4. NothingNew
  BY <1>2, <1>3, Requests DEF NothingNew, Kept, KeyOf, Viewer
<1>5. SeenOK'
  BY <1>2, <1>3, Requests DEF SeenOK, FInv
<1>6. \/ UNCHANGED <<docs, row, applied>>
      \/ /\ r \in Uploads /\ pc[r] = "insert" /\ UNCHANGED <<docs, applied>>
         /\ \E new : row' = [row EXCEPT ![r] = new]
      \/ /\ r \in Uploads /\ pc[r] = "commit" /\ pc'[r] = "cleanup" /\ UNCHANGED row
         /\ docs' = docs \cup {r} /\ applied' = applied \cup {r}
      \/ /\ r \in Deletes /\ pc'[r] \in {"unlink", "reset"} /\ UNCHANGED row
         /\ docs' = docs \ {target[r]} /\ applied' = applied \cup {r}
  <2>1. CASE DeleteRow(r)
    BY <2>1 DEF DeleteRow, RemoveRow, FInv, Typed, TypeOK, Place
  <2>2. CASE DeleteRowFails(r)
    BY <2>2, "late" \notin Faults DEF DeleteRowFails, RemoveRow, FInv, Typed, TypeOK, Place
  <2>3. CASE Insert(r)
    BY <2>3 DEF Insert, FInv, Typed, TypeOK, Place
  <2>4. CASE Commit(r)
    BY <2>4 DEF Commit, AddRow, FInv, Typed, TypeOK, Place
  <2>5. CASE CommitFails(r)
    BY <2>5, "late" \notin Faults DEF CommitFails, AddRow, FInv, Typed, TypeOK, Place
  <2> QED
    BY <1>1, <2>1, <2>2, <2>3, <2>4, <2>5
<1>7. inDoubt' = {}
  BY <1>1, "late" \notin Faults
     DEF DeleteRow, DeleteRowFails, RemoveRow, Insert, Commit, CommitFails, AddRow, FInv
<1>8. /\ pc[r] \in {"delete", "insert", "commit"}
      /\ pc'[r] \in BeforeCommit => pc[r] \in BeforeCommit
      /\ pc[r] = "commit" => pc'[r] \notin BeforeCommit
  BY <1>1 DEF DeleteRow, DeleteRowFails, Insert, Commit, CommitFails, FInv, Typed, TypeOK,
              BeforeCommit
<1>9. r \in Uploads => r \notin Deletes /\ r \notin Stored
  BY RequestAssumption, DocIdAssumption
<1>10. Known'
  <2>1. docs' \subseteq KnownDocs'
    BY <1>6, <1>9 DEF FInv, Known, KnownDocs
  <2>2. ASSUME NEW q \in Uploads, pc'[q] \in BeforeCommit PROVE q \notin applied'
    <3>1. q \notin applied
      BY <1>3, <1>8, <2>2, Requests DEF FInv, Known
    <3>2. CASE q = r
      BY <1>6, <1>9, <2>2, <3>1, <3>2 DEF BeforeCommit
    <3>3. CASE q # r
      BY <1>6, <3>1, <3>3
    <3> QED
      BY <3>2, <3>3
  <2> QED
    BY <2>1, <2>2 DEF Known
<1>11. Preserves
  <2>1. applied \subseteq applied'
    BY <1>6
  <2>2. r \in Uploads /\ pc[r] = "insert" => r \notin KnownDocs
    BY <1>9 DEF FInv, Known, KnownDocs, BeforeCommit
  <2>3. \A d \in KnownDocs : row'[d] = row[d]
    BY <1>6, <2>2, Values DEF FInv, Typed, TypeOK
  <2>4. \A m \in Mutators : Pending(m) => Pending(m)' /\ target'[m] = target[m]
    BY <1>3, <1>8, <2>1, Requests DEF Pending
  <2>5. \A d \in Differ(docs, docs') : \E m \in ChangeOf(d)' : Pending(m)'
    BY <1>2, <1>3, <1>6 DEF Differ, ChangeOf, Pending
  <2>6. \A d \in docs \ docs' : \E m \in Deletes : target'[m] = d /\ Pending(m)'
    BY <1>3, <1>6 DEF Pending
  <2> QED
    BY <2>1, <2>3, <2>4, <2>5, <2>6 DEF Preserves
<1> QED
  BY <1>4, <1>5, <1>7, <1>10, <1>11, StaysExplained

(***************************************************************************)
(* The reset drops what its change has made stale, and with the generation *)
(* it refuses every reader that was on its way.                            *)
(***************************************************************************)
LEMMA ResetFresh ==
  ASSUME FInv, NEW r \in Request, Reset(r)
  PROVE  Known' /\ SeenOK' /\ inDoubt' = {} /\ KeptExplained'
<1> USE DEF Reset, database, request, Goto
<1>1. /\ generation \in Nat /\ generation' = generation + 1
      /\ DOMAIN items' \subseteq DOMAIN items
      /\ \A k \in DOMAIN items' : items'[k] = items[k] /\ ~DroppedBy(ResetDoc(r), k)
  BY CacheInvalidateTyped DEF FInv, Typed, TypeOK
<1>2. r \in Mutators /\ r \notin Readers
  BY RequestAssumption DEF FInv, Typed, Place, Mutators, Readers
<1>3. \A q \in Request : q # r => pc'[q] = pc[q]
  BY DEF FInv, Typed, TypeOK
<1>4. Known' /\ inDoubt' = {}
  BY Requests DEF FInv, Typed, TypeOK, Known, KnownDocs, BeforeCommit
<1>5. SeenOK'
  BY <1>1, <1>2, <1>3, Requests DEF FInv, SeenOK
<1>6. ASSUME NEW key \in Key, NEW body \in Body, Kept(key, body)'
      PROVE  /\ key \in DOMAIN items' /\ Kept(key, body)
             /\ ~DroppedBy(ResetDoc(r), key)
  <2>1. ASSUME NEW q \in Readers, pc'[q] \in {"read", "store"} PROVE seen'[q] # generation'
    BY <1>1, <1>2, <1>3, <2>1, Requests DEF FInv, SeenOK
  <2>2. key \in DOMAIN items' /\ items'[key] = body
    BY <1>6, <2>1 DEF Kept
  <2> QED
    BY <1>1, <2>2 DEF Kept
<1>7. ASSUME NEW key \in Key, NEW body \in Body, Kept(key, body)'
      PROVE  Explained(key, body)'
  <2>1. Explained(key, body)
    BY <1>6, <1>7 DEF FInv, KeptExplained
  <2>2. key.doc # NoDoc
    BY <1>6, <1>7 DEF DroppedBy
  <2>3. /\ key.doc \in KnownDocs'
        /\ body = {key.doc}
        /\ CanRead(key.user, key.doc)'
    BY <2>1, <2>2 DEF Explained, KnownDocs, CanRead
  <2>4. ASSUME NEW m \in Deletes, target[m] = key.doc, Pending(m)
        PROVE  Pending(m)'
    <3>1. m # r
      BY <1>6, <1>7, <2>2, <2>4 DEF ResetDoc, DroppedBy
    <3> QED
      BY <1>3, <2>4, <3>1 DEF Pending, Request
  <2>5. key.doc \in docs' \/ \E m \in Deletes : target'[m] = key.doc /\ Pending(m)'
    BY <2>1, <2>2, <2>4 DEF Explained
  <2> QED
    BY <2>2, <2>3, <2>5 DEF Explained
<1> QED
  BY <1>4, <1>5, <1>7 DEF KeptExplained

-----------------------------------------------------------------------------
(***************************************************************************)
(* Unless statements land late, FInv is an invariant.                      *)
(***************************************************************************)
THEOREM FreshInvariance ==
  ASSUME "late" \notin Faults
  PROVE  Spec => []FInv
<1>1. FInv /\ [Next]_vars => FInv'
  <2> SUFFICES ASSUME FInv, [Next]_vars PROVE FInv'
    OBVIOUS
  <2>1. Typed'
    BY Steps, ArriveTyped, QuietStepTyped, FileStepTyped, ReaderStepTyped,
       WriterStepTyped, OtherTyped DEF FInv
  <2>2. Known' /\ SeenOK' /\ inDoubt' = {} /\ KeptExplained'
    <3>1. ASSUME NEW r \in Request, WriterStep(r)
          PROVE  Known' /\ SeenOK' /\ inDoubt' = {} /\ KeptExplained'
      BY <3>1, ChangeFresh, ResetFresh, "late" \notin Faults
    <3> QED
      BY <3>1, Steps, ArriveFresh, QuietStepFresh, FileStepFresh, ReaderStepFresh,
         OtherFresh
  <2> QED
    BY <2>1, <2>2 DEF FInv
<1> QED
  BY <1>1, InitFresh, PTL DEF Spec

(***************************************************************************)
(* A cached response differs from the database only by changes that are    *)
(* about to reset the cache, whatever requests, failures and restarts      *)
(* interleave, as long as no statement lands after its handler gave it up. *)
(***************************************************************************)
THEOREM CacheIsFresh ==
  ASSUME "late" \notin Faults
  PROVE  Spec => []StaleOnlyUntilReset
<1>1. FInv => StaleOnlyUntilReset
  <2> SUFFICES ASSUME FInv, NEW key \in DOMAIN items,
                      NEW d \in Differ(items[key], Answer(key))
               PROVE  \E m \in ChangeOf(d) : Pending(m)
    BY DEF StaleOnlyUntilReset
  <2>1. key \in Key /\ items[key] \in Body
    BY DEF FInv, Typed, TypeOK, IsCache
  <2>2. Explained(key, items[key])
    BY <2>1 DEF FInv, KeptExplained, Kept
  <2>3. CASE key.doc = NoDoc
    BY <2>2, <2>3 DEF Explained, Answer
  <2>4. CASE key.doc # NoDoc
    <3>1. d = key.doc /\ d \notin docs
      BY <2>2, <2>4 DEF Explained, Answer, Differ
    <3> QED
      BY <2>2, <2>4, <3>1 DEF Explained, ChangeOf, Mutators
  <2> QED
    BY <2>3, <2>4
<1> QED
  BY <1>1, FreshInvariance, PTL

(***************************************************************************)
(* At rest every cached response is the current one: what README.md        *)
(* promises holds as long as no statement lands after its handler gave it  *)
(* up.                                                                     *)
(***************************************************************************)
THEOREM CacheAtRest ==
  ASSUME "late" \notin Faults
  PROVE  Spec => []QuiescentCacheIsFresh
<1>1. Typed /\ StaleOnlyUntilReset => QuiescentCacheIsFresh
  <2> SUFFICES ASSUME Typed, StaleOnlyUntilReset, \A r \in Request : ~InFlight(r),
                      NEW key \in DOMAIN items
               PROVE  items[key] = Answer(key)
    BY DEF QuiescentCacheIsFresh
  <2>1. \A m \in Mutators : ~Pending(m)
    BY Requests DEF Pending, InFlight
  <2>2. \A d \in Differ(items[key], Answer(key)) : FALSE
    BY <2>1 DEF StaleOnlyUntilReset, ChangeOf
  <2>3. items[key] \in SUBSET DocId /\ Answer(key) \in SUBSET DocId
    <3>1. Answer(key) \subseteq docs
      BY DEF Answer, Listing
    <3> QED
      BY <3>1, BodyAssumption DEF Typed, TypeOK, IsCache
  <2> QED
    BY <2>2, <2>3 DEF Differ
<1> QED
  BY <1>1, TypeInvariance, CacheIsFresh, PTL
=============================================================================
