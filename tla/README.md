# Verification of document-cache-api

TLA+ models of the document server in `src/`: a Go HTTP API over PostgreSQL, a
directory of files and an in-memory cache of responses. The models are checked
with TLC on small instances; the theorems are checked by TLAPS for every value
of the constants. `PROJECT.json` lists the runs, the lines each definition
models, the hazards and the theorems.

## 1. Inventory

| component | state | operations | hard behaviour |
|---|---|---|---|
| response cache (`internal/cache/cache.go`) | `items`, `bytes`, `generation`, an RWMutex, two limits | Get, Set, Invalidate | accounts, limits, eviction loop under the write lock, generation check |
| document handlers (`internal/handlers/documents.go`) | none of their own | UploadDocument, ListDocuments, GetDocument, DeleteDocument | order of session lookup, cache, service and reset; readers racing changes |
| document service (`internal/service/documents.go`) | none; transaction and `commitStarted` are locals | Upload, List, Get, Delete | transaction with deferred rollback and cleanup, commit of unknown outcome, two-query verdict of Delete |
| file storage (`internal/storage/files.go`) | the files of one directory | Save, Read, Delete | files and rows change in separate steps |
| auth handlers and service (`internal/handlers/handlers.go`, `internal/service/auth.go`) | sessions and users in the database | Register, Auth/Login, Authenticate, Logout | sessions revoked while responses stay cached; UNIQUE race; two clocks |
| queries and schema (`internal/database`) | users, sessions, documents, document_grants | the statements of `queries/*.sql` | statements fail, take effect without an answer, or take effect later |
| connection pool (`internal/database/connect.go`) | a limited number of connections | acquired per statement or per transaction | everyone waiting on everyone |
| server (`internal/server/server.go`, `cmd/app`) | listener, `serverErrCh`, the context of the signals | Run, registerRoutes, shutdown | signals, failures and the shutdown timeout in any order; restart with an empty cache |
| configuration (`internal/config/config.go`) | the instance, read once | Get: load, setDefaults, validate | zero values and missing ones; order of defaults and checks |
| logging middleware (`internal/middleware/logging.go`) | status of one response | responseWriter | repeated and informational WriteHeader |
| response writers and models (`internal/handlers/response.go`, `cache.go`) | none | write\* | HEAD, Content-Length, Allow |
| log setup, migrations, packaging | none | Setup | I/O |

How they interact: each request is a goroutine that runs one handler. Handlers
share only the cache (by method calls under its mutex), the database (by
statements) and the file directory. There are no callbacks and no background
goroutines besides `ListenAndServe`.

What makes each part correct:

- cache: the byte counter is exact, the limits hold, Get is a snapshot, the
  eviction loop ends, and the three methods are atomic;
- handlers: a cached response is never older than the last reset that concerns
  it, confirmed changes are visible, access rights and revoked sessions are
  respected on every path, also through the cache;
- service and files: every committed file document has its file, a failed
  upload leaves nothing, the verdict of a deletion is true;
- pool: every request is answered;
- accounts and sessions: a login has one owner and one password, a session lasts
  as long as it should and a dead token stays dead;
- lists: a cached list is what the database would answer, to this query and no
  other;
- process: status 0 means a graceful end, the process always ends, and it runs
  with the settings that were written.

## 2. Modules

| module | models |
|---|---|
| `CacheKey` | keys, bodies and sizes; what Invalidate drops and what Set refuses |
| `ResponseCache` | what Set and Invalidate do to the entries and the generation |
| `CacheCalls` | the calls on the cache with their arguments |
| `AtomicCache` | the abstract specification of the cache: concurrent calls that each take effect at one moment |
| `CacheStore` | `cache.go` statement by statement with the RWMutex; implements `AtomicCache` |
| `DocumentApi` | requests × handlers × services × PostgreSQL × files, over `ResponseCache` |
| `DocumentStore` | the abstract specification of the document server: versions of a set of documents, no cache, transactions or files |
| `DocumentHistory` | `DocumentApi` with a record of the versions; implements `DocumentStore` |
| `SessionStore` | the abstract specification of sessions: a token lives once |
| `AuthService` | Register, Auth, Logout and the session lookup over users, sessions and two clocks; implements `SessionStore` |
| `ListQuery` | query strings, cache keys, validation, and the rows of the list statement |
| `Configuration` | config.Get |
| `ServerLifecycle` | Run, the serving goroutine, signals, shutdown, the pool |
| `Program` | `Configuration` and `ServerLifecycle` together, as cmd/app runs them |
| `HttpResponse` | routes, response writers, the logging responseWriter, net/http |
| `MC*` | small instances for TLC |
| `*Proofs` | lemmas and theorems, section 5 |

How they compose: `CacheStore` implements `AtomicCache`, and `DocumentApi` calls
the cache through the same `CacheSet` and `CacheInvalidate` that `AtomicCache`
is made of. `DocumentApi`, with the history of `DocumentHistory`, implements
`DocumentStore`, which is what a client sees. `AuthService` implements `SessionStore`, and a session of
`DocumentApi` is a live token of it that logout or expiry ends for good.
`Program` runs `Configuration` before `ServerLifecycle`, in which handlers are
reduced to beginning, using a connection and answering. `ListQuery` looks into
the step `Query` of a list in `DocumentApi`.

### CacheStore

Variables are the fields of `Cache` (`items`, `bytes`, `generation`), the
RWMutex (`writer`, `readers`, `queued`) and the locals of each caller (`pc`,
`call`, `found`, `version`; `todo` is what the loop of Invalidate has left).
Each lock operation, map operation and loop iteration is an action: `RLock`,
`GetEntry`, `GetVersion`, `RUnlock` are Get; `Lock`, `SetRefuse` or
`SetReplace`, `Evict`\*, `Insert`, `Unlock` are Set; `Lock`, `Bump`, `Sweep`\*,
`Unlock` are Invalidate. Iteration over a Go map is a nondeterministic choice.
`Evict` on an empty map is a step that changes nothing, as in the code. A
writer announces itself first and then waits for the readers to leave, readers
that come later queue until it unlocks: this is what sync.RWMutex does.

`bytes` is compared with `BytesIn(items)`, the number of cells (key, i) with i
up to the length of the body. It is a cardinality and not a recursive sum, so
that it can be proved about.

`AtomicCache` has the same calls with their arguments, and each takes effect in
one step between its start and its return: the cache is linearizable. The
refinement mapping (`AtomicItems`, `AtomicGeneration`, `AtomicPhase`,
`AtomicResult`) says when: a Get when it reads the generation, a Set when it
refuses the response (`SetRefuse`) or stores it (`Insert`), an Invalidate when
it has visited the last entry. Until then the abstract cache is the one the
operation found (`saved`). What a Get returns is mapped too, so a torn read
breaks the refinement. `Victims` of the abstract Set is exactly the set of
victim sets that a one-at-a-time eviction in some order can produce. The
generation a client passes to Set is one that a Get has returned
(`Published`): not the one of an Invalidate under way.

### DocumentApi

Each element of `Request` is one HTTP request that runs once. The step of a
request is one database statement, file operation or cache method with the
branch after it. `pc` names the next one:

- list: `auth` → `lookup` → `query` → `store`;
- document: `auth` → `lookup` → `query` (→ `read`) → `store`;
- delete: `auth` → `delete` → (`unlink` | `why`) → `reset`;
- upload: `auth` → `form` → `grants` (→ `save`) → `begin` → `insert` → `commit`
  → `cleanup` → `reset`, with `rollback` on the way out of a transaction;
- logout: `logout`.

Database: `sessions` (live tokens), `docs` (committed ids), `row` (what was
inserted), `inDoubt` (statements that were given up and may still take effect).
`applied` and `acked` are history. The token of a session determines its user.
The id of an uploaded document and its file are named after the upload, since
the database and `os.CreateTemp` pick fresh names. A response is the set of
documents it shows.

Failures are enabled by name in `Faults`: `db` (a statement fails without
effect, also by a cancelled context), `indoubt` (a commit or deletion takes
effect, the answer is lost), `late` (it takes effect, if at all, some time after
the handler has gone on), `file` (a file operation fails), `crash` (the process
dies and starts again), `expire` (a session ends), `malformed` (requests the
handlers turn down).

### DocumentStore and DocumentHistory

`DocumentStore` says what a client may conclude from the answers it gets. The
documents go through versions (`log`). `Ask` remembers what was confirmed before
(`acked`); `Apply` lets a change take effect at one moment, which makes the next
version; `Confirm`, `Refuse` and `Fail` are its answers. A change that was
answered 500, or that a crash cut off, may be `open`: it takes effect later
(`Apply`) or never (`Drop`). One that was answered 400, 401, 403 or 404 never
does. `Show` answers a reader with one version, whole, not older than any
confirmed change that concerns it; older versions than the current one are
allowed, because the cache is reset after the commit. `Refuse` has the reasons:
a 404 is told only if the document is not there when the request is refused, a
403 only if the client is not the owner or, for a reader, has no right to it.

`DocumentHistory` adds two variables that only record: `log`, the values of
`docs`, and `place`, the version a change made. They are needed because a
response is served from the cache long after the version it shows. The mapping
(`Phase`, `Rights`, `Statuses`, `Shown`) takes a request as admitted from the
lookup of its session to its answer, and a change as open while its statement is
in doubt.

### AuthService and SessionStore

Requests as in `DocumentApi`: registrations, logins, document requests (their
session lookup) and logouts. Each statement is a step: `CreateUser` with the
UNIQUE constraint, `FindUser` and the comparison of the hash, `ComputeExpiry`
with the clock of the application, `CreateSession` with the CHECK on the
expiry, `Authenticate` with the clock of PostgreSQL, `RemoveSession`. A hash
stands for the part of the password that bcrypt takes (`Cut`: 72 bytes). The
token of a login is named after it, as 32 random bytes are fresh. The clocks
tick on their own and differ by at most `MaxSkew`.

The mapping to `SessionStore`: a token is live while its row is there and
unexpired by the clock of PostgreSQL, and spent when it was inserted and is not
live. Nothing but this is used by `DocumentApi`, where `Expire` and `Logout`
end a session.

### ListQuery

A query string is a record of four parameters, each a text or `Absent`. What a
text means (`Spelling` of an id, `Number`) is a constant: `02` and `2` are two
texts and one number. The cache key holds the texts, the statement gets the
canonical value. `Answers` is the set of results the statement may give: WHERE,
then any order that ORDER BY allows, then LIMIT. `List` is one request with a
miss, `Change` an upload or deletion with its reset, `Drop` an eviction. A hit
changes nothing and is the subject of `HitEqualsMiss`.

### Configuration, ServerLifecycle, Program

`Get` is three steps, `Load`, `SetDefaults` and `Validate`. There is one setting
per way the code treats one: positive numbers, the port, texts with a default,
secrets. Whether envdecode, which is not part of the repository, refuses a
variable that does not parse or passes over it is left open: both happen.

`ServerLifecycle` has the main goroutine (`main`, `code`), the goroutine of
ListenAndServe (`server`, `errCh`), the signals (`notified`, `cancelled`), the
pool and the requests. `Return` is every return of Run with the deferred
pool.Close and stop. Serve accepts the connection of a client (`Accept`), and
the goroutine of that connection begins its request (`Begin`) on its own: also
while Shutdown polls, and also after Serve has failed. Shutdown waits for Serve
to end, as net/http does, and then until no request is active; it closes the
connections that have none (`CloseIdle`). A request holds a connection of the
pool during a statement; the timeout of Shutdown closes the connections of
clients (`cut`), not the handlers.

### HttpResponse

A handler is the sequence of calls it makes on the ResponseWriter. The module
follows the same calls through responseWriter, which remembers the status for
the log line, and through the response of net/http, which sends it. `Others` are
calls that other handlers under the middleware might make: several statuses, an
informational one, none. `OthersAssumption` excludes 101, see section 7.

## 3. Runs

Every run ends within a few minutes on two workers; sizes are distinct states.

| run | instance | shows |
|---|---|---|
| `cache_store` | 2 callers, a list and 2 documents, bodies of 1 to 4 bytes, limits 2 entries and 3 bytes; 384 000 | accounts, limits, snapshot, refinement |
| `cache_store_live` | 3 callers, 1 document, limits 1 and 1; 21 000 | nobody waits in a circle, every call returns |
| `api_list` | 1 upload, 2 lists, 1 deletion, with the history; db, indoubt, crash; 522 000 | freshness of lists and of confirmed changes; refinement of `DocumentStore` |
| `api_get` | 2 document requests, 2 deletions, 1 logout, 2 users; no failure; 1 450 000 | access rights, logout, confirmed deletions, verdicts, the lost race of ReadFile |
| `api_files` | 2 uploads, 2 deletions, pool of 2; db, indoubt, late, crash; 683 000 | rows and files |
| `api_late` | 1 upload, 1 list; late | violation, see section 6 |
| `api_live` | 2 uploads, 1 list, 1 connection; late, file, malformed, expire, crash; 221 000 | every request is answered |
| `auth_accounts` | 2 registrations, 1 request to log in, 1 logout, 2 login names, 4 passwords; every failure; 1 100 000 | one owner, one password |
| `auth_clocks` | 2 logins, 1 use, 1 logout, TTL 2, skew 1, clocks up to 4; late; 1 170 000 | how long a session lasts; refinement of `SessionStore` |
| `program` | 2 requests, 2 signals, one setting of each kind; every failure; 107 000 | configuration, exit status, pool, shutdown, progress |
| `list_query` | every set of 4 documents of 2 users, 40 query strings, 2 cached lists; 11 900 | keys, filters, order, limit |
| `http_response` | every method, route and status; any 3 calls of a wrapped handler; 2 300 | log line, HEAD, Allow |

Why the bounds are enough. A race on the cache needs one reader between its
lookup and its store, one change, and at most one more reader that finds what
the first one stored: `api_list` and `api_get` have those, with a deletion on
top. With one or two entries the readers evict each other. The cache run has a
body for each case: it fits, it fills the cache exactly, it needs one or two
victims, it is inadmissible. `MaxGeneration` only stops new Invalidates, and 2
lets a response be stale by one and by two. Three callers are a reader, a
writer that drains it, and a reader or writer that queues. A pool of one
connection is the smallest, where waiting for a second one is fatal.

The failures of the API runs are those the property needs most; the other
combinations are covered by the theorems of section 5, which hold for every
`Faults` unless they say otherwise.

A race for a login takes two registrations, and a third request that sees the
result. The passwords are a good one, another one, one that is longer than 72
bytes and begins like the good one, and a weak one. A TTL of 2, a skew of 1 and
clocks up to 4 have room for an expiry that the skew moves both ways and for a
second session after it. Two signals are the one that is taken and the one that
kills; two requests are one that ends in time and one that does not. The
settings of `program` differ from good ones in at most one place, which is
where a check can be missed; zero, negative, the limit and one more are there
for each number. Two of the four documents of `list_query` are equal in name and
time, so that only the id tells them apart; the limits 1, 0, 9, `02`, a word and
none are below, outside and above the number of rows.

Deadlock is checked in every run but `api_live`: there the clients may stop
sending requests, and the property says what must happen until then. In the
other API runs and the authentication runs a stutter is allowed once no request
is under way, in `program` once the process has ended, in `http_response` once
the response has, so what is stuck before is reported as a deadlock.

Symmetry: callers in `cache_store`, requests of one kind in the safety runs of
the API and of the accounts. Identifiers of uploads are values of their own set
only, so permuting them permutes behaviours. No run with a liveness property uses
symmetry, nor does `auth_clocks`.

Fairness. `CacheStore`: weak fairness of each caller's steps, since the Go
scheduler runs every runnable goroutine, and strong fairness of `Lock`, since
sync.Mutex, on which RWMutex serialises writers, goes to starvation mode and
hands the lock to a caller that has waited for 1 ms. Nothing obliges anyone to
start a call. `DocumentApi`: weak fairness of each request's steps (its
goroutine runs; PostgreSQL and the file system answer) and of `Land` (the
server notices in the end that the client has gone). Waiting for a connection
is weakly fair in the model, where pgxpool serves waiters in order. Clients,
clocks and crashes promise nothing. `api_live` leaves `db` out: a failing
statement would rescue a request that waits for ever, as its context does not;
a crash does not, because it is not part of the fairness. `Program`: weak
fairness of the main goroutine, whose waiting ends by the shutdown timer, of
the serving goroutine, and of the end of each statement, as pool.Close waits
for it. A handler may take for ever and nobody has to send a signal.

Each property has a mutant, a plausible bug of the mapped definition that breaks
it in the same run. The mutants stand next to the definition they change,
marked `Mutant:`; no specification uses them.

## 4. Properties

- `BytesExact`, `WithinLimits`, `EvictionNeverStuck`, `GetIsAtomic`,
  `ImplementsAtomicCache`, `NobodyWaitsForNobody`, `EveryCallReturns`: the cache
  on its own. Whoever waits for the mutex waits for a caller that can go on.
- `StaleOnlyUntilReset`: each difference between a cached response and the
  database is a document whose upload or deletion has taken effect and has not
  yet reset the cache. This is stronger than freshness at rest.
- `AckedDeleteIsGone`, `AckedUploadIsListed`: what a client was told holds for
  every request it sends afterwards, whatever the response comes from.
- `ImplementsDocumentStore`: all of the above and the verdicts in one statement,
  as a client sees the server.
- `NoUnauthorizedDisclosure`, `NoAccessAfterLogout`: access through the cache.
- `DeleteVerdict`, `ReadFailsOnlyIfDeleted`: the two-step operations.
- `FilesBackDocuments`, `OrphansExplained`: rows and files. After a crash only
  the requests that it cut off may leave a file. After a failed removal nothing
  explains the file that stays: the code logs the error and leaves it
  (README.md:700 of the repository), so `api_files` has no `file`.
- `EveryRequestAnswered`: progress with the smallest pool.
- `RegisteredOnce`, `ConfirmedPasswordOpens`, `AccountsAreApproved`: accounts,
  also when the outcome of a registration is unknown.
- `SessionEndsInTime`, `SessionHolds`, `ImplementsSessionStore`: the life of a
  session between two clocks.
- `HitEqualsMiss`, `ListIsComplete`, `AnswerIsDetermined`: lists. The handler
  asks the cache before the service has validated the query, so the first one
  also says that no refused query is ever answered from the cache.
- `CleanExitIsGraceful`, `HandlersKeepThePool`, `FailureIsReported`,
  `SecondSignalKills`, `ProcessEnds`: the end of the process. A shutdown closes
  the pool only under handlers whose connection the timeout has cut. When
  ListenAndServe fails by itself, Run returns at once and the deferred
  pool.Close runs under handlers whose clients still wait
  (`server.go:49`, `101-108`); `HandlersKeepThePool` states that this is the only
  exception and that Run then returns an error. In it signals are still taken
  while pool.Close waits, so `SecondSignalKills`, which is about the shutdown,
  says nothing, and `ProcessEnds` says that the wait ends with the statements.
- `OperatorDecides`, `VerdictFollowsSettings`: the settings. A variable of the
  environment that does not parse counts as not given.
- `LoggedAsSent`, `HeadIsGetWithoutBody`, `AllowIsExact`: responses.

## 5. Proofs

Every safety property of a passing run, the three refinements included, is
proved for all values of the constants. The assumptions are the ASSUMEs of the
modules: types, disjoint kinds of requests, and what the data means.

`CacheStoreProofs`. The safety properties of the cache follow from the inductive
invariant `IInv`. It says, besides the types: a caller past `Lock` is the
writer, and past its first statement the readers have left; a caller between
`GetEntry` and `RUnlock` holds the read lock and has what the cache has; the
counter is exact; a Set that evicts is admissible and its key is absent.
`WithinLimits` alone is not inductive: Insert keeps it only because the counter
is exact and the body is admissible. The first part of the module has the facts
about cells: dropping an entry takes away as many as its body has bytes, storing
one under a new key adds them. Nothing is assumed about the limits, which may be
zero or negative. `NoCircle` reads the lock discipline off `IInv`: who waits,
waits for the writer or for a reader, the writer waits at most for readers, and
a reader that has the lock waits for nobody.

`CacheIsAtomic` shows `Spec => ImplementsAtomicCache`. It needs `Progress` on
top of `IInv`: a Set has so far evicted victims that are too few without the
last of them, and an Invalidate has dropped what it had to among the keys it has
visited, and nothing else. Each step of the code then maps to the one step of
the abstract cache in which its call takes effect, to its start or return, or to
a stutter.

`DocumentApiProofs`. Type correctness follows from `Typed` (each request only
visits the steps of its own handler, with an argument of its own kind), and
`StaleOnlyUntilReset` from `FInv`. A response can be put into the cache long
after it was read, so freshness of what is cached is not inductive. `FInv`
therefore speaks about what is *kept*: what is cached, and what a reader holds
that Set would still accept because its generation is the current one. Every
kept response is explained by changes that have yet to reset the cache; the
reset removes what its change made stale and, by the generation, makes every
reader's response one that is not kept. `FInv` also needs that the id of an
upload is unknown before its commit, so nothing can be cached about it. The
theorem assumes that `late` is not in `Faults`; with it the property is false.
`CacheAtRest` draws the conclusion that the README of the repository states.

`DocumentSafetyProofs`. The base is `Life`, the life of a document: who can know
its id, when its row is inserted, which outcomes are in doubt, that a deleted
one does not come back, and that an acknowledgement was earned. On top of it
stand one invariant per question: `FilesInv` (a committed or doubtful file
document has its file), `RInv` (what is kept, held and seen respects
acknowledged changes and access rights; this holds even with late statements,
as an acknowledged change has reset the cache before), `SInv` (a token
acknowledged as logged out is dead), `Judged` (what the second query of a
deletion may still find), and two that hold without certain failures: reading
(no `db`, no `file`) and orphans (no `file`).

`DocumentStoreProofs`. `DocumentRefinement` shows `HSpec =>
ImplementsDocumentStore`, with every failure allowed. It stands on `DInv`, in
three parts. The fate of a change (`Settled`): one that took effect, or may still
do so, is past its statement and was not refused. The record (`Recorded`): `docs`
is the last version, a change has made a version exactly if it was applied, and
a document is in no version before the one of its upload. The snapshots
(`KeptSnap`, `HeldSnap`): what is kept in the sense of `FInv` is the view of one
version that has every confirmed change that touches it, and what a reader holds
is one that has every change confirmed before the reader was sent. Held alone is
not inductive: a hit hands over what is cached, and it is as young as needed
because a change resets the cache before it is confirmed. A change still on its
way to the reset may leave an old version in the cache, which is then older than
a change that took effect, but not than a confirmed one. With `DInv` each step
maps to one of the store: a session lookup to `Admit`, a statement that changes
rows, or one that lands late, to `Apply`, an answer to `Confirm`, `Show`,
`Refuse` or `Fail`, a statement given up that never lands to `Drop`, a restart to
`Crash`, and all others to a stutter. The two verdicts of a deletion come from
`Judged`; that the rights in the store change only for a document that is new in
it rests on `Life`: a row is written once, before anybody knows its id.

`AuthServiceProofs`. `Typed`, then `AccountInv`: a row of users, a registration
in doubt and an acknowledgement relate as the UNIQUE constraint makes them, so
that two acknowledgements would need one insertion. `ClockInv` bounds the expiry
of a row by the clock of the database at the time it was computed, plus TTL,
plus or minus the skew; the action properties follow for each step. The
refinement of `SessionStore` maps every statement to Open, Close or a stutter
and the tick of the clock to a Close of all tokens that expire with it.

`ProgramProofs`. `LifeInv` relates the places of the two goroutines, the channel
and the pool (`Places`), the statuses (`Results`) and which requests there can be
(`Leftovers`): none before the server serves, and after a shutdown none but
those that were cut. That none begins after the shutdown needs that Serve has
ended by then, which is in `Places`. `PoolOutlivesHandlers` includes the
exception of a server that failed by itself, as its property does. `ConfigInv` says what the instance holds at each stage.

`ListQueryProofs`. `HitEqualsMiss` is inductive, because every change empties
the cache and a key determines user and query. `ListsAreComplete` rests on the
fact that the texts compared by the statement mean what the filter means, and
on an order of n rows being a bijection of 1..n. `OneAnswer` avoids induction on
sorting: the place of a row in any order is the number of rows up to it, which
grows strictly along the order; this makes two orders equal, and gives an order
to start with. Assumed: documents are finitely many, their ids are ranked
differently, and names, ids and times are ranked by integers.

`HttpResponseProofs`. `HInv` says that responseWriter and net/http agree at
every call: both have no status, or the same one; this is where a 101 would
break. It holds for any calls of the wrapped handler, where the run has three.
`HEAD` and `Allow` follow from the table of routes, for any size of body.

Only model-checked: liveness (`EveryCallReturns`, `EveryRequestAnswered`,
`ProcessEnds`), which is out of the prover's reach, as is ENABLED; and, in
`DocumentStore` too, nothing is said of when an answer comes. No module declares
a RECURSIVE operator.

## 6. Finding

`api_late`: the README of the repository (line 640) says that the cache is reset
also when the service fails, which covers operations of unknown outcome. The
reset runs when the service returns (`handlers/documents.go:122`, `455`). A
commit or a deletion whose context is cancelled may take effect after that. A
reader in between queries the old rows under the new generation and caches them,
and as there is no TTL the stale response stays until the next upload or
deletion. `QuiescentCacheIsFresh` states that a cache at rest is fresh and is
violated in a few steps. Without `late` it is proved (`CacheAtRest`).

## 7. Abstractions

- `Query` of a list in `DocumentApi` is the login it asks for;
  `AckedUploadIsListed` is about lists that the limit does not cut. The filter
  and the limit are the subject of `ListQuery`, where requests and changes are
  atomic.
- GET and HEAD share handler, key and entry and are one kind of request.
- `CreateDocument` and its grants are one step (`Insert`), because nobody sees
  them before the commit. A failure between them is a failure of that step.
- Validation is the choice between accepting and refusing. The grantees of a
  form exist.
- A statement that waits for a connection can fail meanwhile (`db`).
- Which characters a login or a password must have is a set of texts. bcrypt is
  its cut at 72 bytes and a comparison, which is exact for passwords without
  NUL bytes (bcrypt repeats the key with a NUL after it); a failure to hash is a
  failure of the statement after it.
- A request begins when net/http counts its connection as active. One that
  reaches a connection which Shutdown is closing as idle is not a request.
- A document request of `AuthService` ends after its session lookup; what
  follows is `DocumentApi`.
- The clocks of `AuthService` tick; they are not set back.
- The eight positive numbers of the configuration are treated in the same way; the
  run has two of them, the theorems have any number.
- No handler of the program switches protocols, and none of `Others` does: a
  101 would be logged as 200, since responseWriter takes it for informational
  and net/http does not (`logging.go:22`).
- Encoding errors of a response cannot happen with valid JSON and are left out.
- The generation is a natural number; the uint64 of the code wraps after 2^64
  resets.

## 8. Not modelled

- Log setup (`internal/logs`): opening and formatting of the log output, nothing
  the program reads back. That it may fail is the fault `start` of
  `ServerLifecycle`.
- Migrations and packaging: they run before the program does.
- JSON encoding of responses and its failure, the wording of errors, and the
  fields of the log line other than the status.
- A machine that loses power: files are not synced (`files.go:37`), and what the
  disk keeps then is a property of the file system.
- Several instances of the server, excluded by README.md:701 of the repository.
- Reads that are not monotonic between a commit and its reset
  (`handlers/documents.go:119`): the code accepts the window.
  `StaleOnlyUntilReset` bounds its length, and `ImplementsDocumentStore` says what
  may be seen in it: one earlier version, not a mixture, and none that is older
  than a confirmed change.

## 9. Plan

1. done: the cache, `DocumentApi`, freshness.
2. done: `AuthService` and `SessionStore`, `ListQuery`, `Configuration`,
   `ServerLifecycle`, `Program`, `HttpResponse`.
3. done: proofs of every safety property, and the refinements of `AtomicCache`
   and `SessionStore`.
4. done: `DocumentStore`, which turns the acknowledgement properties and the
   verdicts into one refinement, checked and proved.
5. left: `DocumentApi` over `SessionStore` as an instance instead of by
   agreement; a power failure with an assumption on the file system.
