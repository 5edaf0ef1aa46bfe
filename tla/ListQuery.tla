------------------------------ MODULE ListQuery -------------------------------
(***************************************************************************)
(* GET /api/docs in detail: what a query string means, which part of it    *)
(* becomes the key of the cache, what the service refuses, and the rows    *)
(* the statement ListDocuments returns in their order and up to the limit. *)
(* A cache hit answers before the service has looked at the query.         *)
(*                                                                         *)
(* Requests and changes are atomic here; DocumentApi interleaves them and  *)
(* knows no more of a query than the login in it.  Texts are strings, and  *)
(* Absent stands for a parameter that is not in the query string.          *)
(***************************************************************************)
EXTENDS Integers, Sequences, FiniteSets

CONSTANTS
  User,          \* logins
  Document,      \* rows of documents with their grants
  Params,        \* the query strings of clients
  Absent,        \* not in the query string
  Bad,           \* the text has no such meaning
  Spelling,      \* the document id a text spells, or Bad
  Number,        \* the integer a text spells, or Bad
  Rank,          \* the order of names
  DefaultLimit, MaxLimit,
  CacheSize      \* bound on the entries of the cache

ASSUME DocumentAssumption ==
  \A d \in Document : d.owner \in User /\ d.grants \subseteq User
ASSUME FlagAssumption ==
  \A d \in Document : d.file \in BOOLEAN /\ d.public \in BOOLEAN
ASSUME FiniteAssumption ==
  IsFiniteSet(Document)
ASSUME IdAssumption ==
  \A d, e \in Document : Rank[d.id] = Rank[e.id] => d = e
ASSUME RankAssumption ==
  \A d \in Document : Rank[d.name] \in Int /\ Rank[d.id] \in Int /\ d.created \in Int
ASSUME ParamsAssumption ==
  \A p \in Params : DOMAIN p = {"login", "key", "value", "limit"}
ASSUME LimitAssumption ==
  DefaultLimit \in Nat \ {0} /\ MaxLimit \in Nat /\ CacheSize \in Nat

VARIABLES
  docs,    \* rows of the committed documents
  cache    \* the cached lists

vars == <<docs, cache>>

-----------------------------------------------------------------------------
Has(p, name) == p[name] # Absent
Value(p, name) == IF Has(p, name) THEN p[name] ELSE ""

\* key and value come together, and Atoi understands the limit.
HandlerRefuses(p) ==
  \/ Has(p, "key") # Has(p, "value")
  \/ Has(p, "key") /\ p.key = ""
  \/ Has(p, "limit") /\ Number[p.limit] = Bad

\* Mutant: the limit is not part of the key.
KeyWithoutLimit(u, p) == [user |-> u, query |-> [p EXCEPT !.limit = Absent]]

\* cacheParams: the four parameters that are present, in the order of Encode.
Key(u, p) == [user |-> u, query |-> p]

Limit(p) == IF Has(p, "limit") THEN Number[p.limit] ELSE DefaultLimit

TrueTexts == {"1", "t", "T", "true", "TRUE", "True"}
FalseTexts == {"0", "f", "F", "false", "FALSE", "False"}

ServiceRefuses(p) ==
  \/ Limit(p) \notin 1..MaxLimit
  \/ Value(p, "key") = "" /\ Value(p, "value") # ""
  \/ Value(p, "key") = "id" /\ Spelling[p.value] = Bad
  \/ Value(p, "key") \in {"file", "public"} /\ p.value \notin TrueTexts \cup FalseTexts
  \/ Value(p, "key") \notin {"", "id", "name", "mime", "file", "public"}

Accepted(p) == ~HandlerRefuses(p) /\ ~ServiceRefuses(p)

BoolText(b) == IF b THEN "true" ELSE "false"

\* Mutant: the value goes to the database as the client wrote it.
FilterValueVerbatim(p) == Value(p, "value")

FilterValue(p) ==
  CASE Value(p, "key") = "id" -> Spelling[p.value]
    [] Value(p, "key") \in {"file", "public"} -> BoolText(p.value \in TrueTexts)
    [] OTHER -> Value(p, "value")

-----------------------------------------------------------------------------
(***************************************************************************)
(* The statement: WHERE, ORDER BY and LIMIT.  Rows that ORDER BY does not  *)
(* tell apart come in any order.                                           *)
(***************************************************************************)
Column(d, key) ==
  CASE key = "id" -> d.id
    [] key = "name" -> d.name
    [] key = "mime" -> d.mime
    [] key = "file" -> BoolText(d.file)
    [] key = "public" -> BoolText(d.public)

Owner(u, p) == IF Value(p, "login") = "" THEN u ELSE p.login

Readable(u, d) == d.owner = u \/ d.public \/ u \in d.grants

Selected(u, p) ==
  {d \in docs :
     /\ d.owner = Owner(u, p)
     /\ Readable(u, d)
     /\ (Value(p, "key") = "" \/ Column(d, Value(p, "key")) = FilterValue(p))}

\* Mutant: ORDER BY d.name, d.created_at.
NotAfterByTime(d, e) ==
  \/ Rank[d.name] < Rank[e.name]
  \/ Rank[d.name] = Rank[e.name] /\ d.created <= e.created

NotAfter(d, e) ==
  \/ Rank[d.name] < Rank[e.name]
  \/ Rank[d.name] = Rank[e.name] /\ d.created < e.created
  \/ Rank[d.name] = Rank[e.name] /\ d.created = e.created /\ Rank[d.id] <= Rank[e.id]

Orders(S) ==
  {s \in [1..Cardinality(S) -> S] :
     \A i, j \in 1..Cardinality(S) : i < j => s[i] # s[j] /\ NotAfter(s[i], s[j])}

Answers(u, p) ==
  {SubSeq(s, 1, IF Len(s) < Limit(p) THEN Len(s) ELSE Limit(p)) :
     s \in Orders(Selected(u, p))}

-----------------------------------------------------------------------------
Init ==
  /\ docs \in SUBSET Document
  /\ cache = [k \in {} |-> <<>>]

\* A request that misses and is accepted; the others change nothing.
List(u, p) ==
  /\ ~HandlerRefuses(p)
  /\ Key(u, p) \notin DOMAIN cache
  /\ ~ServiceRefuses(p)
  /\ Cardinality(DOMAIN cache) < CacheSize
  /\ \E a \in Answers(u, p) :
       cache' = [k \in DOMAIN cache \cup {Key(u, p)} |->
                   IF k = Key(u, p) THEN a ELSE cache[k]]
  /\ UNCHANGED docs

Drop(k) ==
  /\ k \in DOMAIN cache
  /\ cache' = [x \in DOMAIN cache \ {k} |-> cache[x]]
  /\ UNCHANGED docs

\* An upload or a deletion, with the reset of every list.
Change(d) ==
  /\ docs' = IF d \in docs THEN docs \ {d} ELSE docs \cup {d}
  /\ cache' = [k \in {} |-> <<>>]

Next ==
  \/ \E u \in User, p \in Params : List(u, p)
  \/ \E k \in DOMAIN cache : Drop(k)
  \/ \E d \in Document : Change(d)

Spec == Init /\ [][Next]_vars

-----------------------------------------------------------------------------
(***************************************************************************)
(* Whoever finds a cached list would have got the same from the database,  *)
(* and had a query that the service accepts, although the handler asks the *)
(* cache first (handlers/documents.go:208-229, service/documents.go:235).  *)
(***************************************************************************)
HitEqualsMiss ==
  \A u \in User, p \in Params :
    ~HandlerRefuses(p) /\ Key(u, p) \in DOMAIN cache =>
      ~ServiceRefuses(p) /\ cache[Key(u, p)] \in Answers(u, p)

\* What README.md:427-431 promises of a filter, in terms of values, not of texts.
Means(p, d) ==
  \/ ~Has(p, "key")
  \/ p.key = "id" /\ d.id = Spelling[p.value]
  \/ p.key = "name" /\ d.name = p.value
  \/ p.key = "mime" /\ d.mime = p.value
  \/ p.key = "file" /\ d.file = (p.value \in TrueTexts)
  \/ p.key = "public" /\ d.public = (p.value \in TrueTexts)

(***************************************************************************)
(* A list shows documents that the viewer could also get one by one, that  *)
(* are of the owner and satisfy the filter, within the limit, each once    *)
(* and by name and, under one name, by time; one that it does not show     *)
(* though it could comes after all it shows, and the list is full          *)
(* (README.md:427-431, sqlc/documents.sql.go:154-194).                     *)
(***************************************************************************)
ListIsComplete ==
  \A u \in User, p \in Params : Accepted(p) =>
    \A a \in Answers(u, p) :
      LET Wanted == {d \in docs : d.owner = Owner(u, p) /\ Readable(u, d) /\ Means(p, d)}
          Shown == {a[i] : i \in 1..Len(a)}
      IN  /\ Shown \subseteq Wanted /\ Len(a) <= Limit(p)
          /\ \A i, j \in 1..Len(a) : i < j =>
               /\ a[i] # a[j] /\ Rank[a[i].name] <= Rank[a[j].name]
               /\ a[i].name = a[j].name => a[i].created <= a[j].created
          /\ \A d \in Wanted \ Shown :
               Len(a) = Limit(p) /\ \A e \in Shown : NotAfter(e, d)

(***************************************************************************)
(* The order of a list is total, so that the rows a limit cuts off do not  *)
(* depend on the plan of the database, and a cached list is not one of     *)
(* several (sqlc/documents.sql.go:192-193).                                *)
(***************************************************************************)
AnswerIsDetermined ==
  \A u \in User, p \in Params : Accepted(p) => Cardinality(Answers(u, p)) = 1
=============================================================================
