------------------------------ MODULE CacheKey ------------------------------
(***************************************************************************)
(* The vocabulary of the response cache (internal/cache): what a cached    *)
(* request is called and how much room a set of cached responses takes.    *)
(***************************************************************************)
EXTENDS Integers, FiniteSets, Functions

CONSTANTS
  User,        \* user ids
  DocId,       \* document ids
  Query,       \* canonical query strings of list requests
  NoDoc,       \* the empty DocumentID, which marks a list
  NoQuery,     \* the empty Query, which every document key carries
  Body,        \* response bodies
  Size,        \* Size[b] is the length of the body b in bytes
  MaxEntries,  \* limit on the number of entries
  MaxBytes     \* limit on the total length of the cached bodies

ASSUME KeyAssumption == NoDoc \notin DocId
ASSUME SizeAssumption == Size \in [Body -> Nat]
ASSUME LimitAssumption == MaxEntries \in Int /\ MaxBytes \in Int

ListKey == [user : User, doc : {NoDoc}, query : Query]

DocumentKey == [user : User, doc : DocId, query : {NoQuery}]

Key == ListKey \cup DocumentKey

IsCache(cached) ==
  DOMAIN cached \subseteq Key /\ cached \in [DOMAIN cached -> Body]

Empty == [k \in {} |-> NoDoc]

Without(cached, K) == Restrict(cached, DOMAIN cached \ K)

With(cached, key, body) ==
  [k \in DOMAIN cached \cup {key} |-> IF k = key THEN body ELSE cached[k]]

(***************************************************************************)
(* The room the cached bodies take, one cell for each byte of each entry.  *)
(* The code keeps the number of cells in a counter.                        *)
(***************************************************************************)
CellsOf(key, body) == {key} \X (1..Size[body])

Cells(cached) == UNION {CellsOf(k, cached[k]) : k \in DOMAIN cached}

BytesIn(cached) == Cardinality(Cells(cached))

(***************************************************************************)
(* Invalidate(documentID) drops every list and, when documentID is not     *)
(* empty, every user's copy of that document.                              *)
(***************************************************************************)
\* Mutant: lists survive.
DroppedByDocument(doc, key) == doc # NoDoc /\ key.doc = doc

DroppedBy(doc, key) == key.doc = NoDoc \/ (doc # NoDoc /\ key.doc = doc)

(***************************************************************************)
(* Set refuses a response when the cache is disabled or the body alone     *)
(* exceeds the byte limit.                                                 *)
(***************************************************************************)
Admissible(body) == MaxEntries > 0 /\ MaxBytes > 0 /\ Size[body] <= MaxBytes
=============================================================================
