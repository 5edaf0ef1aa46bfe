------------------------ MODULE DocumentStoreProofs ------------------------
(***************************************************************************)
(* DocumentApi implements DocumentStore, for every set of requests and     *)
(* every combination of failures.  Three invariants carry the proof: a     *)
(* change is answered according to its fate, the history is the history of *)
(* the documents, and a response that is kept or held is one version of    *)
(* them, no older than the changes it must show.                           *)
(***************************************************************************)
EXTENDS DocumentHistory, DocumentSafetyProofs

-----------------------------------------------------------------------------
(***************************************************************************)
(* The fate of a change.  One that has taken effect or may still do so has *)
(* passed its statement and is not refused.                                *)
(***************************************************************************)
SettledAt(m) ==
  /\ m \in inDoubt => m \notin applied
  /\ m \in applied \cup inDoubt =>
       /\ pc[m] \in {"cleanup", "unlink", "reset", "done"}
       /\ reply[m] \notin {400, 401, 403, 404}
  /\ pc[m] \in {"rollback", "cleanup"} => reply[m] \in {200, 500}
  /\ pc[m] = "unlink" => reply[m] = 200
  /\ pc[m] = "reset" =>
       reply[m] \in {200, 400, 500} \/ (m \in Deletes /\ reply[m] \in {403, 404})

Settled == \A m \in Mutators : SettledAt(m)

LEMMA QuietStepSettled ==
  ASSUME LInv, NEW r \in Mutators, SettledAt(r), QuietStep(r)
  PROVE  SettledAt(r)'
<1>1. r \in Request /\ r \notin Readers /\ r \notin Logouts
  BY Disjoint, Requests
<1> USE <1>1 DEF database, request, Goto, Reply, Finish, LInv, Typed, TypeOK, Place, SettledAt
<1>2. CASE Reject(r)
  BY <1>2 DEF Reject
<1>3. CASE Authenticate(r)
  <2>1. AfterAuth(r) \in {"form", "lookup", "delete"}
    BY DEF AfterAuth, Request, Readers
  <2> QED
    BY <1>3, <2>1 DEF Authenticate
<1>4. CASE StatementFails(r)
  <2>1. AfterFailure(pc[r]) \in {"rollback", "cleanup", "reset", "done"}
    BY <1>4 DEF StatementFails, AfterFailure
  <2> QED
    BY <1>4, <2>1 DEF StatementFails
<1>5. CASE LookupReason(r)
  BY <1>5 DEF LookupReason
<1>6. CASE AcceptForm(r) \/ OpenFails(r) \/ RefuseUpload(r) \/ FindGrantees(r)
  BY <1>6 DEF AcceptForm, OpenFails, RefuseUpload, FindGrantees
<1>7. CASE Begin(r) \/ Rollback(r)
  BY <1>7 DEF Begin, Rollback
<1> QED
  BY <1>2, <1>3, <1>4, <1>5, <1>6, <1>7 DEF QuietStep

LEMMA MoveSettled ==
  ASSUME LInv, NEW r \in Mutators, SettledAt(r), Moves(r)
  PROVE  SettledAt(r)'
<1>1. r \in Request /\ r \notin Readers /\ r \notin Logouts
  BY Disjoint, Requests
<1> USE <1>1 DEF database, request, Goto, Reply, Finish, LInv, Typed, TypeOK, Place, SettledAt
<1>2. CASE Arrive(r) \/ Logout(r)
  BY <1>2 DEF Arrive, Logout
<1>3. CASE FileStep(r)
  BY <1>3 DEF FileStep, Unlink, SaveFile, SaveFileFails, Cleanup
<1>4. ~ReaderStep(r)
  BY DEF ReaderStep, Lookup, QueryList, QueryDocument, ReadFile, StoreResponse, Readers
<1>5. CASE WriterStep(r)
  BY <1>5, Disjoint DEF WriterStep, DeleteRow, DeleteRowFails, RemoveRow, Insert, Commit,
     CommitFails, AddRow, Reset
<1> QED
  BY <1>2, <1>3, <1>4, <1>5, QuietStepSettled DEF Moves

\* A step of one request leaves the fate of the others alone.
LEMMA OthersSettled ==
  ASSUME LInv, NEW r \in Request, Moves(r), NEW m \in Mutators, m # r, SettledAt(m)
  PROVE  SettledAt(m)'
<1>1. m \in Request
  BY Requests
<1>2. pc'[m] = pc[m] /\ reply'[m] = reply[m]
  BY <1>1, OthersStay DEF LInv
<1>3. (m \in applied' <=> m \in applied) /\ (m \in inDoubt' <=> m \in inDoubt)
  <2>1. CASE Arrive(r)
    BY <2>1 DEF Arrive, database
  <2>2. CASE Aside(r)
    BY <2>2 DEF Aside
  <2>3. CASE Change(r)
    BY <2>3 DEF Change, InsertsRow, AddsDocument, RemovesDocument, GivesUp
  <2> QED
    BY <2>1, <2>2, <2>3, QuietStepAside, FileStepAside, ReaderStepAside, ResetAside,
       LogoutAside, WriterStepChanges DEF Moves, LInv
<1> QED
  BY <1>2, <1>3 DEF SettledAt

\* A change that took effect or may still do so was not refused, and its
\* handler is past the statement (service/documents.go:209, 390-415).
THEOREM FateInvariance == Spec => []Settled
<1>1. Init => Settled
  BY Requests DEF Init, Settled, SettledAt
<1>2. LInv /\ Settled /\ [Next]_vars => Settled'
  <2> SUFFICES ASSUME LInv, Settled, [Next]_vars, NEW m \in Mutators PROVE SettledAt(m)'
    BY DEF Settled
  <2>1. SettledAt(m) /\ m \in Request
    BY Requests DEF Settled
  <2>2. ASSUME NEW r \in Request, Moves(r) PROVE SettledAt(m)'
    BY <2>1, <2>2, MoveSettled, OthersSettled
  <2>3. ASSUME NEW r \in Request, Land(r) PROVE SettledAt(m)'
    BY <2>1, <2>3 DEF Land, SettledAt, LInv, Life, Doubtful
  <2>4. CASE Restart
    BY <2>1, <2>4 DEF Restart, InFlight, database, SettledAt
  <2>5. CASE (\E t \in Token : Expire(t)) \/ UNCHANGED vars
    BY <2>1, <2>5 DEF Expire, vars, database, SettledAt
  <2> QED
    BY <2>2, <2>3, <2>4, <2>5, Steps DEF Moves
<1> QED
  BY <1>1, <1>2, LifeInvariance, PTL DEF Spec

-----------------------------------------------------------------------------
(***************************************************************************)
(* The history.  It ends with the documents there are, holds none that     *)
(* nobody has uploaded, and knows which version each change made.          *)
(***************************************************************************)
LogOK ==
  /\ log \in Seq(SUBSET DocId) /\ Len(log) \in Nat \ {0}
  /\ log[Len(log)] = docs
  /\ \A i \in 1..Len(log) : log[i] \subseteq KnownDocs

PlaceOK ==
  /\ place \in [Mutators -> Nat]
  /\ \A m \in Mutators : place[m] <= Len(log) /\ (place[m] # 0 <=> m \in applied)
  /\ \A u \in Uploads, i \in 1..Len(log) : u \in log[i] => place[u] <= i

Recorded == LogOK /\ PlaceOK

SameDocuments == UNCHANGED <<docs, applied>>

TakesEffect(m) ==
  /\ m \in Mutators \ applied /\ applied' = applied \cup {m}
  /\ pc[m] \in {"commit", "delete"} \/ m \in inDoubt
  /\ \/ m \in Uploads /\ docs' = docs \cup {m}
     \/ m \in Deletes /\ CanDelete(m) /\ docs' = docs \ {target[m]}

\* One change takes effect at a time.
LEMMA OneEffect ==
  ASSUME LInv, Settled, [Next]_vars
  PROVE  SameDocuments \/ \E m \in Mutators : TakesEffect(m)
<1>1. ASSUME NEW r \in Request, Arrive(r) PROVE SameDocuments
  BY <1>1 DEF Arrive, database, SameDocuments
<1>2. ASSUME NEW r \in Request, Aside(r) PROVE SameDocuments
  BY <1>2 DEF Aside, SameDocuments
<1>3. ASSUME NEW r \in Request, Change(r) PROVE SameDocuments \/ (TakesEffect(r) /\ r \in Mutators)
  <2>1. CASE InsertsRow(r) \/ GivesUp(r)
    BY <2>1 DEF InsertsRow, GivesUp, SameDocuments
  <2>2. CASE AddsDocument(r) \/ RemovesDocument(r)
    <3>1. r \in Mutators /\ pc[r] \in {"commit", "delete"}
      BY <2>2 DEF AddsDocument, RemovesDocument, Mutators
    <3>2. r \notin applied
      BY <3>1 DEF Settled, SettledAt
    <3> QED
      BY <2>2, <3>1, <3>2 DEF AddsDocument, RemovesDocument, TakesEffect
  <2> QED
    BY <1>3, <2>1, <2>2 DEF Change
<1>4. ASSUME NEW r \in Request, Land(r) PROVE SameDocuments \/ (TakesEffect(r) /\ r \in Mutators)
  <2>1. r \in Mutators /\ r \in inDoubt
    BY <1>4 DEF Land, LInv, Typed, TypeOK
  <2>2. r \notin applied
    BY <2>1 DEF Settled, SettledAt
  <2> QED
    BY <1>4, <2>1, <2>2 DEF Land, SameDocuments, TakesEffect
<1>5. CASE (\E t \in Token : Expire(t)) \/ Restart \/ UNCHANGED vars
  BY <1>5 DEF Expire, Restart, vars, database, SameDocuments
<1> QED
  BY <1>1, <1>2, <1>3, <1>4, <1>5, Kinds DEF LInv

\* What is recorded of it.
LEMMA Recording ==
  ASSUME Recorded, Record
  PROVE  /\ SameDocuments => log' = log /\ place' = place
         /\ \A m \in Mutators : TakesEffect(m) =>
              /\ log' = Append(log, docs')
              /\ place' = [place EXCEPT ![m] = Len(log) + 1]
<1>1. SameDocuments => log' = log /\ place' = place
  <2> SUFFICES ASSUME SameDocuments PROVE log' = log /\ place' = place
    OBVIOUS
  <2>1. applied' \ applied = {}
    BY DEF SameDocuments
  <2>2. place' = [m \in Mutators |-> place[m]]
    BY <2>1 DEF Record
  <2> QED
    BY <2>2 DEF SameDocuments, Record, Recorded, PlaceOK
<1>2. ASSUME NEW m \in Mutators, TakesEffect(m)
      PROVE  /\ log' = Append(log, docs')
             /\ place' = [place EXCEPT ![m] = Len(log) + 1]
  <2>1. applied' # applied /\ applied' \ applied = {m}
    BY <1>2 DEF TakesEffect
  <2>2. place' = [x \in Mutators |-> IF x \in {m} THEN Len(log) + 1 ELSE place[x]]
    BY <2>1 DEF Record
  <2> QED
    BY <2>1, <2>2 DEF Record, Recorded, PlaceOK
<1> QED
  BY <1>1, <1>2

\* The versions there were stay what they were.
Grows ==
  /\ Len(log) <= Len(log')
  /\ Len(log') \in Nat
  /\ \A i \in 1..Len(log) : log'[i] = log[i]
  /\ \A m \in applied : place'[m] = place[m]

LEMMA RecordedStays ==
  ASSUME LInv, Settled, Recorded, [Next]_vars, Record
  PROVE  Recorded' /\ Grows
<1>1. Onward
  BY StepsOnward
<1>2. applied \subseteq Mutators
  BY DEF LInv, Typed, TypeOK
<1>3. CASE SameDocuments
  <2>1. log' = log /\ place' = place /\ docs' = docs /\ applied' = applied
    BY <1>3, Recording DEF SameDocuments
  <2>2. KnownDocs' = KnownDocs
    BY <2>1 DEF KnownDocs
  <2> QED
    BY <2>1, <2>2, <1>2 DEF Recorded, LogOK, PlaceOK, Grows
<1>4. ASSUME NEW m \in Mutators, TakesEffect(m) PROVE Recorded' /\ Grows
  <2>1. /\ log' = Append(log, docs')
        /\ place' = [place EXCEPT ![m] = Len(log) + 1]
    BY <1>4, Recording
  <2>2. docs' \subseteq DocId /\ docs' \subseteq KnownDocs'
    <3>1. docs \subseteq KnownDocs /\ KnownDocs \subseteq KnownDocs' /\ docs \subseteq DocId
      BY <1>1 DEF LInv, Typed, TypeOK, Life, Known, Onward
    <3>2. m \in Uploads => m \in DocId /\ m \in KnownDocs'
      BY <1>4, Requests DEF TakesEffect, KnownDocs
    <3> QED
      BY <1>4, <3>1, <3>2 DEF TakesEffect
  <2>3. /\ log' \in Seq(SUBSET DocId) /\ Len(log') = Len(log) + 1
        /\ \A i \in 1..Len(log) : log'[i] = log[i]
        /\ log'[Len(log) + 1] = docs'
    BY <2>1, <2>2 DEF Recorded, LogOK
  <2>4. LogOK'
    BY <1>1, <2>2, <2>3 DEF Recorded, LogOK, Onward
  <2>5. m \notin applied /\ applied' = applied \cup {m}
    BY <1>4 DEF TakesEffect
  <2>6. \A x \in Mutators : place'[x] = IF x = m THEN Len(log) + 1 ELSE place[x]
    BY <2>1 DEF Recorded, PlaceOK
  <2>7. /\ place' \in [Mutators -> Nat]
        /\ \A x \in Mutators : place'[x] <= Len(log') /\ (place'[x] # 0 <=> x \in applied')
    BY <2>1, <2>3, <2>5, <2>6 DEF Recorded, LogOK, PlaceOK
  <2>8. ASSUME NEW u \in Uploads, NEW i \in 1..Len(log'), u \in log'[i] PROVE place'[u] <= i
    <3>1. u \in Mutators /\ i \in Nat /\ Len(log) \in Nat
      BY <2>3 DEF Mutators, Recorded, LogOK
    <3>2. CASE i = Len(log) + 1
      BY <2>3, <2>7, <3>1, <3>2
    <3>3. CASE i # Len(log) + 1
      <4>1. i \in 1..Len(log) /\ u \in log[i]
        BY <2>3, <2>8, <3>1, <3>3
      <4>2. u \in applied
        BY <4>1, Disjoint DEF Recorded, LogOK, KnownDocs
      <4> QED
        BY <2>5, <2>6, <3>1, <4>1, <4>2 DEF Recorded, PlaceOK
    <3> QED
      BY <3>2, <3>3
  <2>9. PlaceOK'
    BY <2>7, <2>8 DEF PlaceOK
  <2>10. Grows
    BY <1>2, <2>3, <2>5, <2>6 DEF Grows, Recorded, LogOK
  <2> QED
    BY <2>4, <2>9, <2>10 DEF Recorded
<1> QED
  BY <1>3, <1>4, OneEffect

-----------------------------------------------------------------------------
(***************************************************************************)
(* Responses.  One that is kept shows some version, no older than any      *)
(* confirmed change that touches it; one that a reader holds shows some    *)
(* version no older than the changes confirmed before it was asked for.    *)
(***************************************************************************)
Shows(key, d) ==
  IF key.doc = NoDoc
    THEN row[d].owner = OwnerAsked(key.user, key.query) /\ CanRead(key.user, d)
    ELSE d = key.doc /\ CanRead(key.user, d)

ViewOf(D, key) == {d \in D : Shows(key, d)}

Touches(m, key) ==
  \/ key.doc = NoDoc
  \/ m \in Uploads /\ m = key.doc
  \/ m \in Deletes /\ target[m] = key.doc

Snapshot(key, body, changes) ==
  \E i \in 1..Len(log) :
    /\ body = ViewOf(log[i], key)
    /\ \A m \in changes : Touches(m, key) => place[m] <= i

KeptSnap ==
  \A key \in Key, body \in Body :
    Kept(key, body) => /\ Snapshot(key, body, Confirmed)
                       /\ key.doc # NoDoc => body # {}

HeldSnap ==
  \A r \in Readers :
    Has(r) => /\ Snapshot(KeyOf(r), held[r], acked[r] \cap Mutators)
              /\ r \in Gets => held[r] # {}

Snapshots == KeptSnap /\ HeldSnap

LEMMA ConfirmedApplied ==
  ASSUME LInv
  PROVE  Confirmed \subseteq applied /\ Confirmed \subseteq Mutators
BY DEF LInv, Life, Told, Confirmed

\* What was a version of the documents stays one.
LEMMA SnapshotStays ==
  ASSUME LInv, Recorded, Onward, Grows, NEW key, NEW body, NEW changes \in SUBSET Confirmed,
         Snapshot(key, body, changes)
  PROVE  Snapshot(key, body, changes)'
<1>1. PICK i \in 1..Len(log) : /\ body = ViewOf(log[i], key)
                               /\ \A m \in changes : Touches(m, key) => place[m] <= i
  BY DEF Snapshot
<1>2. i \in 1..Len(log') /\ log'[i] = log[i]
  BY DEF Grows, Recorded, LogOK
<1>3. \A d \in log[i] : Shows(key, d)' <=> Shows(key, d)
  <2>1. \A d \in log[i] : row'[d] = row[d]
    BY DEF Recorded, LogOK, Onward
  <2> QED
    BY <2>1 DEF Shows, CanRead
<1>4. body = {d \in log'[i] : Shows(key, d)'}
  BY <1>1, <1>2, <1>3 DEF ViewOf
<1>5. ASSUME NEW m \in changes, Touches(m, key)' PROVE place'[m] <= i
  <2>1. m \in Confirmed /\ m \in applied /\ m \in Request
    BY ConfirmedApplied, Requests
  <2>2. target'[m] = target[m]
    BY <2>1 DEF Onward, Confirmed
  <2>3. Touches(m, key)
    BY <1>5, <2>2 DEF Touches
  <2> QED
    BY <1>1, <2>1, <2>3 DEF Grows
<1> QED
  BY <1>2, <1>4, <1>5 DEF Snapshot, ViewOf

\* What the database answers is the current version.
LEMMA CurrentSnapshot ==
  ASSUME LInv, Recorded, NEW key
  PROVE  Snapshot(key, ViewOf(docs, key), Confirmed)
<1>1. Len(log) \in 1..Len(log) /\ log[Len(log)] = docs
  BY DEF Recorded, LogOK
<1>2. \A m \in Confirmed : place[m] <= Len(log)
  BY ConfirmedApplied DEF Recorded, PlaceOK
<1> QED
  BY <1>1, <1>2 DEF Snapshot

LEMMA QueryIsView ==
  ASSUME LInv, NEW r \in Readers, pc[r] # "new"
  PROVE  /\ r \in Lists => Listing(Viewer(r), target[r]) = ViewOf(docs, KeyOf(r))
         /\ r \in Gets /\ target[r] \in docs /\ CanRead(Viewer(r), target[r])
              => {target[r]} = ViewOf(docs, KeyOf(r))
<1>1. ASSUME r \in Lists PROVE Listing(Viewer(r), target[r]) = ViewOf(docs, KeyOf(r))
  <2>1. KeyOf(r) = [user |-> Viewer(r), doc |-> NoDoc, query |-> target[r]]
    BY <1>1 DEF KeyOf
  <2>2. KeyOf(r).user = Viewer(r) /\ KeyOf(r).doc = NoDoc /\ KeyOf(r).query = target[r]
    BY <2>1
  <2> QED
    BY <2>2 DEF Listing, ViewOf, Shows
<1>2. ASSUME r \in Gets, target[r] \in docs, CanRead(Viewer(r), target[r])
      PROVE  {target[r]} = ViewOf(docs, KeyOf(r))
  <2>1. KeyOf(r) = [user |-> Viewer(r), doc |-> target[r], query |-> NoQuery]
    BY <1>2, RequestAssumption DEF KeyOf
  <2>2. KeyOf(r).user = Viewer(r) /\ KeyOf(r).doc = target[r]
    BY <2>1
  <2>3. target[r] # NoDoc
    BY <1>2, KeyAssumption DEF LInv, Typed, TypeOK
  <2> QED
    BY <1>2, <2>2, <2>3 DEF ViewOf, Shows
<1> QED
  BY <1>1, <1>2

LEMMA KeyDoc ==
  ASSUME LInv, NEW r \in Readers, pc[r] # "new"
  PROVE  /\ KeyOf(r) \in Key
         /\ KeyOf(r).doc # NoDoc <=> r \in Gets
<1>1. KeyOf(r) \in Key
  BY Values DEF LInv
<1>2. CASE r \in Lists
  <2>1. KeyOf(r) = [user |-> Viewer(r), doc |-> NoDoc, query |-> target[r]]
    BY <1>2 DEF KeyOf
  <2> QED
    BY <1>1, <1>2, <2>1, RequestAssumption
<1>3. CASE r \in Gets
  <2>1. KeyOf(r) = [user |-> Viewer(r), doc |-> target[r], query |-> NoQuery]
    BY <1>3, RequestAssumption DEF KeyOf
  <2>2. target[r] # NoDoc
    BY <1>3, Values, Requests, KeyAssumption DEF LInv, Typed, ArgumentsOK, Readers
  <2> QED
    BY <1>1, <1>3, <2>1, <2>2
<1> QED
  BY <1>2, <1>3 DEF Readers

LEMMA HeldSnapStays ==
  ASSUME LInv, RInv, Recorded, HeldSnap, Onward, Grows,
         NEW r \in Readers, Has(r), held'[r] = held[r], pc[r] # "new"
  PROVE  /\ Snapshot(KeyOf(r), held[r], acked[r] \cap Mutators)'
         /\ r \in Gets => held'[r] # {}
<1>1. KeyOf(r)' = KeyOf(r) /\ acked'[r] = acked[r]
  BY SameKey
<1>2. Snapshot(KeyOf(r), held[r], acked[r] \cap Mutators) /\ (r \in Gets => held[r] # {})
  BY DEF HeldSnap
<1>3. acked[r] \cap Mutators \subseteq Confirmed
  BY Requests DEF RInv, AckedOK
<1>4. \A k, b, c : c \in SUBSET Confirmed /\ Snapshot(k, b, c)
         => \E i \in 1..Len(log') : /\ b = {d \in log'[i] : Shows(k, d)'}
                                    /\ \A m \in c : Touches(m, k)' => place'[m] <= i
  BY SnapshotStays DEF Snapshot, ViewOf
<1>5. \E i \in 1..Len(log') :
        /\ held[r] = {d \in log'[i] : Shows(KeyOf(r), d)'}
        /\ \A m \in acked[r] \cap Mutators : Touches(m, KeyOf(r))' => place'[m] <= i
  BY <1>1, <1>2, <1>3, <1>4 DEF Shows, Touches, CanRead
<1> QED
  BY <1>1, <1>2, <1>5 DEF Snapshot, ViewOf

LEMMA BystanderSnapshots ==
  ASSUME LInv, RInv, Recorded, Snapshots, Onward, Grows, Bystander
  PROVE  Snapshots'
<1>1. KeptSnap'
  <2> SUFFICES ASSUME NEW key \in Key, NEW body \in Body, Kept(key, body)'
               PROVE  /\ Snapshot(key, body, Confirmed)'
                      /\ key.doc # NoDoc => body # {}
    BY DEF KeptSnap
  <2>1. Kept(key, body)
    <3>1. CASE \E r \in Readers :
                 /\ pc'[r] \in {"read", "store"} /\ seen'[r] = generation'
                 /\ KeyOf(r)' = key /\ held'[r] = body
      <4>1. PICK r \in Readers :
                 /\ pc'[r] \in {"read", "store"} /\ seen'[r] = generation'
                 /\ KeyOf(r)' = key /\ held'[r] = body
        BY <3>1
      <4>2. pc'[r] = pc[r] /\ seen'[r] = seen[r] /\ held'[r] = held[r]
        BY <4>1 DEF Bystander, Has
      <4>3. KeyOf(r)' = KeyOf(r)
        BY <4>1, <4>2, SameKey
      <4> QED
        BY <4>1, <4>2, <4>3 DEF Kept, Bystander
    <3> QED
      BY <3>1 DEF Kept, Bystander
  <2>2. Snapshot(key, body, Confirmed) /\ (key.doc # NoDoc => body # {})
    BY <2>1 DEF Snapshots, KeptSnap
  <2>3. Confirmed' = Confirmed
    BY ConfirmedStay DEF Bystander
  <2>4. ASSUME NEW changes, changes = Confirmed PROVE Snapshot(key, body, changes)'
    BY <2>2, <2>4, SnapshotStays
  <2>5. Snapshot(key, body, Confirmed)'
    <3> DEFINE changes == Confirmed
    <3>1. \A c : c = Confirmed => Snapshot(key, body, c)'
      BY <2>4
    <3> QED
      BY <2>3, <3>1 DEF Snapshot
  <2> QED
    BY <2>2, <2>5
<1>2. HeldSnap'
  <2> SUFFICES ASSUME NEW r \in Readers, Has(r)'
               PROVE  /\ Snapshot(KeyOf(r), held[r], acked[r] \cap Mutators)'
                      /\ r \in Gets => held'[r] # {}
    BY DEF HeldSnap
  <2>1. Has(r) /\ held'[r] = held[r] /\ pc[r] # "new"
    BY DEF Bystander, Has, Answered
  <2> QED
    BY <2>1, HeldSnapStays DEF Snapshots
<1> QED
  BY <1>1, <1>2 DEF Snapshots

LEMMA RestartSnapshots ==
  ASSUME LInv, RInv, Recorded, Snapshots, Onward, Grows, Restart
  PROVE  Snapshots'
<1>1. \A q \in Request : pc'[q] \in {"new", "done"}
  BY DEF Restart, InFlight
<1>2. DOMAIN items' = {}
  BY EmptyCache DEF Restart
<1>3. KeptSnap'
  BY <1>1, <1>2, Requests DEF KeptSnap, Kept
<1>4. ASSUME NEW r \in Readers, Has(r)'
      PROVE  /\ Snapshot(KeyOf(r), held[r], acked[r] \cap Mutators)'
             /\ r \in Gets => held'[r] # {}
  <2>1. Has(r) /\ held'[r] = held[r] /\ pc[r] # "new"
    BY <1>1, <1>4, Requests DEF Restart, InFlight, Has, Answered
  <2> QED
    BY <2>1, HeldSnapStays DEF Snapshots
<1> QED
  BY <1>3, <1>4 DEF Snapshots, HeldSnap

(***************************************************************************)
(* A reset confirms its change.  What it leaves is the response of a       *)
(* document that the change does not touch, unless it is the upload of     *)
(* that document: every version that shows it is as late as the upload.    *)
(***************************************************************************)
LEMMA ResetSnapshots ==
  ASSUME LInv, RInv, Recorded, Snapshots, Onward, Grows, NEW r \in Request, Reset(r),
         UNCHANGED history
  PROVE  Snapshots'
<1> USE DEF Reset, database, request, history, Goto
<1>1. /\ generation \in Nat /\ generation' = generation + 1
      /\ \A k \in DOMAIN items' :
           k \in DOMAIN items /\ items'[k] = items[k] /\ ~DroppedBy(ResetDoc(r), k)
  BY CacheInvalidateTyped DEF LInv, Typed, TypeOK
<1>2. r \in Mutators /\ r \notin Readers
  BY Disjoint DEF LInv, Typed, Place
<1>3. \A q \in Request : q # r => pc'[q] = pc[q]
  BY DEF LInv, Typed, TypeOK
<1>4. Confirmed' \subseteq Confirmed \cup {r}
  BY <1>3, Requests DEF Confirmed
<1>5. ASSUME NEW key \in Key, NEW body \in Body, Kept(key, body)'
      PROVE  /\ Snapshot(key, body, Confirmed)'
             /\ key.doc # NoDoc => body # {}
  <2>1. ASSUME NEW q \in Readers, pc'[q] \in {"read", "store"} PROVE seen'[q] # generation'
    BY <1>1, <1>2, <1>3, <2>1, Requests DEF RInv, SeenOK
  <2>2. key \in DOMAIN items' /\ items'[key] = body
    BY <1>5, <2>1 DEF Kept
  <2>3. Kept(key, body) /\ ~DroppedBy(ResetDoc(r), key)
    BY <1>1, <2>2 DEF Kept
  <2>4. key.doc # NoDoc /\ (r \in Deletes => target[r] # key.doc)
    BY <2>3, <1>2, KeyAssumption, Disjoint
       DEF DroppedBy, ResetDoc, LInv, Typed, ArgumentsOK, KnownDocs
  <2>5. body # {} /\ Snapshot(key, body, Confirmed)
    BY <2>3, <2>4 DEF Snapshots, KeptSnap
  <2>6. PICK i \in 1..Len(log) :
             /\ body = ViewOf(log[i], key)
             /\ \A m \in Confirmed : Touches(m, key) => place[m] <= i
    BY <2>5 DEF Snapshot
  <2>7. Touches(r, key) => place[r] <= i
    <3> SUFFICES ASSUME r \in Uploads, r = key.doc PROVE place[r] <= i
      BY <2>4 DEF Touches
    <3>1. r \in log[i]
      BY <2>4, <2>5, <2>6 DEF ViewOf, Shows
    <3> QED
      BY <3>1 DEF Recorded, PlaceOK
  <2>8. Snapshot(key, body, Confirmed)'
    BY <1>4, <2>6, <2>7 DEF Snapshot, ViewOf, Shows, CanRead, Touches
  <2> QED
    BY <2>5, <2>8
<1>6. HeldSnap'
  <2> SUFFICES ASSUME NEW q \in Readers, Has(q)'
               PROVE  /\ Snapshot(KeyOf(q), held[q], acked[q] \cap Mutators)'
                      /\ q \in Gets => held'[q] # {}
    BY DEF HeldSnap
  <2>1. Has(q) /\ held'[q] = held[q] /\ pc[q] # "new"
    BY <1>2, <1>3, Requests DEF Has, Answered
  <2> QED
    BY <2>1, HeldSnapStays DEF Snapshots
<1> QED
  BY <1>5, <1>6 DEF Snapshots, KeptSnap

(***************************************************************************)
(* A reader takes what is kept, or what is current.                        *)
(***************************************************************************)
LEMMA ReaderStepSnapshots ==
  ASSUME LInv, RInv, Recorded, Snapshots, Onward, Grows, NEW r \in Request, ReaderStep(r),
         UNCHANGED history
  PROVE  Snapshots'
<1> USE DEF database, request, Goto, Reply, Finish
<1>1. r \in Readers /\ pc[r] # "new" /\ r \notin Mutators
  BY Disjoint DEF ReaderStep, Lookup, QueryList, QueryDocument, ReadFile, StoreResponse,
     LInv, Typed, Place, Readers
<1>2. generation' = generation /\ generation \in Nat
  BY DEF ReaderStep, Lookup, QueryList, QueryDocument, ReadFile, StoreResponse, CacheSet,
     LInv, Typed, TypeOK
<1>3. UNCHANGED <<docs, row, applied, token, target, acked>>
  BY DEF ReaderStep, Lookup, QueryList, QueryDocument, ReadFile, StoreResponse
<1>4. \A q \in Request \ {r} : /\ pc'[q] = pc[q] /\ reply'[q] = reply[q]
                               /\ held'[q] = held[q] /\ seen'[q] = seen[q]
  BY DEF ReaderStep, Lookup, QueryList, QueryDocument, ReadFile, StoreResponse, LInv,
     Typed, TypeOK
<1>5. Confirmed' = Confirmed
  BY <1>1, <1>4, Requests DEF Confirmed
<1>6. \A q \in Readers : KeyOf(q)' = KeyOf(q)
  BY <1>3 DEF KeyOf, Viewer
<1>7. \A key, body : Snapshot(key, body, Confirmed) => Snapshot(key, body, Confirmed)'
  BY <1>3, <1>5 DEF Snapshot, ViewOf, Shows, CanRead, Touches, history
<1> DEFINE Fine(body) == /\ Snapshot(KeyOf(r), body, Confirmed)
                         /\ KeyOf(r).doc # NoDoc => body # {}
<1>8. acked[r] \cap Mutators \subseteq Confirmed
  BY <1>1, Requests DEF RInv, AckedOK
<1>9. \A key, body, changes : changes \subseteq Confirmed /\ Snapshot(key, body, Confirmed)
                                => Snapshot(key, body, changes)
  BY DEF Snapshot
<1>10. CASE StoreResponse(r)
  <2>1. KeyOf(r) \in Key /\ held[r] \in Body
    BY <1>1, Values, Requests DEF LInv, Typed, TypeOK
  <2>2. \A k \in DOMAIN items' :
          \/ k \in DOMAIN items /\ items'[k] = items[k]
          \/ k = KeyOf(r) /\ items'[k] = held[r] /\ seen[r] = generation
    BY <1>10, <2>1, CacheSetTyped DEF StoreResponse, LInv, Typed, TypeOK
  <2>3. pc[r] = "store" /\ pc'[r] = "done" /\ UNCHANGED <<held, seen>>
    BY <1>10 DEF StoreResponse, LInv, Typed, TypeOK
  <2>4. \A key \in Key, body \in Body : Kept(key, body)' => Kept(key, body)
    BY <1>1, <1>2, <1>4, <1>6, <2>2, <2>3, Requests DEF Kept
  <2>5. KeptSnap'
    <3> SUFFICES ASSUME NEW key \in Key, NEW body \in Body, Kept(key, body)'
                 PROVE  /\ Snapshot(key, body, Confirmed)'
                        /\ key.doc # NoDoc => body # {}
      BY DEF KeptSnap
    <3>1. Snapshot(key, body, Confirmed) /\ (key.doc # NoDoc => body # {})
      BY <2>4 DEF Snapshots, KeptSnap
    <3> QED
      BY <1>7, <3>1
  <2>6. \A q \in Readers : Has(q)' => Has(q) /\ pc[q] # "new"
    BY <1>4, <2>3, Requests DEF Has, Answered
  <2>7. HeldSnap'
    <3> SUFFICES ASSUME NEW q \in Readers, Has(q)'
                 PROVE  /\ Snapshot(KeyOf(q), held[q], acked[q] \cap Mutators)'
                        /\ q \in Gets => held'[q] # {}
      BY DEF HeldSnap
    <3> QED
      BY <2>3, <2>6, HeldSnapStays DEF Snapshots
  <2> QED
    BY <2>5, <2>7 DEF Snapshots
<1>11. CASE ~StoreResponse(r)
  <2>1. items' = items
    BY <1>11 DEF ReaderStep, Lookup, QueryList, QueryDocument, ReadFile
  <2>2. Has(r)' => Fine(held'[r]) \/ (Has(r) /\ held'[r] = held[r])
    <3>1. CASE Lookup(r)
      <4>1. CASE KeyOf(r) \in DOMAIN items
        <5>1. KeyOf(r) \in Key /\ items[KeyOf(r)] \in Body
          BY <4>1 DEF LInv, Typed, TypeOK, IsCache
        <5>2. Fine(items[KeyOf(r)])
          BY <4>1, <5>1 DEF Snapshots, KeptSnap, Kept
        <5>3. held'[r] = items[KeyOf(r)]
          BY <3>1, <4>1 DEF Lookup, LInv, Typed, TypeOK
        <5> QED
          BY <5>2, <5>3
      <4>2. CASE KeyOf(r) \notin DOMAIN items
        BY <3>1, <4>2 DEF Lookup, Has, Answered, LInv, Typed, TypeOK
      <4> QED
        BY <4>1, <4>2
    <3>2. CASE QueryList(r)
      <4>1. r \in Lists /\ held'[r] = Listing(Viewer(r), target[r])
        BY <3>2 DEF QueryList, LInv, Typed, TypeOK
      <4>2. held'[r] = ViewOf(docs, KeyOf(r)) /\ KeyOf(r).doc = NoDoc
        BY <1>1, <4>1, QueryIsView DEF KeyOf
      <4>3. Snapshot(KeyOf(r), ViewOf(docs, KeyOf(r)), Confirmed)
        BY CurrentSnapshot
      <4> QED
        BY <4>2, <4>3
    <3>3. CASE QueryDocument(r)
      <4>1. CASE target[r] \in docs /\ CanRead(Viewer(r), target[r])
        <5>1. r \in Gets /\ held'[r] = {target[r]}
          BY <3>3, <4>1 DEF QueryDocument, LInv, Typed, TypeOK
        <5>2. held'[r] = ViewOf(docs, KeyOf(r)) /\ held'[r] # {}
          BY <1>1, <4>1, <5>1, QueryIsView
        <5>3. Snapshot(KeyOf(r), ViewOf(docs, KeyOf(r)), Confirmed)
          BY CurrentSnapshot
        <5> QED
          BY <5>2, <5>3
      <4>2. CASE ~(target[r] \in docs /\ CanRead(Viewer(r), target[r]))
        BY <3>3, <4>2 DEF QueryDocument, Has, Answered, LInv, Typed, TypeOK
      <4> QED
        BY <4>1, <4>2
    <3>4. CASE ReadFile(r)
      BY <3>4 DEF ReadFile, Has, Answered, LInv, Typed, TypeOK
    <3> QED
      BY <1>11, <3>1, <3>2, <3>3, <3>4 DEF ReaderStep
  <2>3. /\ pc'[r] \in {"read", "store"} => seen'[r] = seen[r] /\ pc[r] \in {"query", "read"}
        /\ pc'[r] = "query" => seen'[r] = generation
    BY <1>11 DEF ReaderStep, Lookup, QueryList, QueryDocument, ReadFile, LInv, Typed, TypeOK
  <2>4. HeldSnap'
    <3> SUFFICES ASSUME NEW q \in Readers, Has(q)'
                 PROVE  /\ Snapshot(KeyOf(q), held[q], acked[q] \cap Mutators)'
                        /\ q \in Gets => held'[q] # {}
      BY DEF HeldSnap
    <3>1. CASE q = r /\ Fine(held'[r])
      <4>1. Snapshot(KeyOf(q), held'[q], acked[q] \cap Mutators)
        BY <1>8, <1>9, <3>1
      <4>2. Snapshot(KeyOf(q), held[q], acked[q] \cap Mutators)'
        BY <1>3, <1>6, <4>1 DEF Snapshot, ViewOf, Shows, CanRead, Touches, history
      <4>3. q \in Gets => KeyOf(r).doc # NoDoc
        BY <1>1, <3>1, KeyDoc
      <4> QED
        BY <3>1, <4>2, <4>3
    <3>2. CASE ~(q = r /\ Fine(held'[r]))
      <4>1. Has(q) /\ held'[q] = held[q] /\ pc[q] # "new"
        BY <1>1, <1>4, <2>2, <3>2, Requests DEF Has, Answered
      <4> QED
        BY <4>1, HeldSnapStays DEF Snapshots
    <3> QED
      BY <3>1, <3>2
  <2>5. KeptSnap'
    <3> SUFFICES ASSUME NEW key \in Key, NEW body \in Body, Kept(key, body)'
                 PROVE  /\ Snapshot(key, body, Confirmed)'
                        /\ key.doc # NoDoc => body # {}
      BY DEF KeptSnap
    <3>1. CASE Kept(key, body)
      BY <1>7, <3>1 DEF Snapshots, KeptSnap
    <3>2. CASE ~Kept(key, body)
      <4>1. /\ pc'[r] \in {"read", "store"} /\ seen'[r] = generation
            /\ key = KeyOf(r) /\ body = held'[r]
        BY <1>2, <1>4, <1>6, <2>1, <3>2, Requests DEF Kept
      <4>2. ~(Has(r) /\ held'[r] = held[r])
        <5>1. CASE pc[r] \in {"read", "store"}
          BY <1>1, <2>3, <3>2, <4>1, <5>1 DEF Kept
        <5>2. CASE pc[r] \notin {"read", "store"}
          BY <1>1, <2>3, <4>1, <5>2 DEF Has, Answered
        <5> QED
          BY <5>1, <5>2
      <4>3. Snapshot(key, body, Confirmed) /\ (key.doc # NoDoc => body # {})
        BY <2>2, <4>1, <4>2 DEF Has
      <4> QED
        BY <1>7, <4>3
    <3> QED
      BY <3>1, <3>2
  <2> QED
    BY <2>4, <2>5 DEF Snapshots
<1> QED
  BY <1>10, <1>11

-----------------------------------------------------------------------------
(***************************************************************************)
(* All that is known of DocumentApi and its history.                       *)
(***************************************************************************)
Kind == LInv /\ RInv /\ Settled /\ Judged

DInv == Kind /\ Recorded /\ Snapshots

LEMMA RecordedSteps ==
  ASSUME Recorded, [HNext]_<<vars, history>>
  PROVE  [Next]_vars /\ Record
<1>1. CASE HNext
  BY <1>1 DEF HNext
<1>2. CASE UNCHANGED <<vars, history>>
  <2>1. UNCHANGED <<docs, applied, log, place>>
    BY <1>2 DEF vars, database, history
  <2>2. place' = [m \in Mutators |-> place[m]]
    BY <2>1 DEF Recorded, PlaceOK
  <2>3. applied' \ applied = {}
    BY <2>1
  <2>4. place' = [m \in Mutators |-> IF m \in applied' \ applied THEN Len(log) + 1 ELSE place[m]]
    BY <2>2, <2>3
  <2> QED
    BY <1>2, <2>1, <2>4 DEF Record
<1> QED
  BY <1>1, <1>2

LEMMA InitHistory ==
  ASSUME HInit, LInv
  PROVE  Recorded /\ Snapshots
<1> USE DEF HInit, Init
<1>1. log = <<docs>> /\ docs \in SUBSET DocId
  BY DEF LInv, Typed, TypeOK
<1>2. Len(log) = 1 /\ log[1] = docs /\ log \in Seq(SUBSET DocId)
  BY <1>1
<1>3. LogOK
  BY <1>2 DEF LogOK, LInv, Life, Known
<1>4. docs \cap Uploads = {}
  BY Disjoint
<1>5. PlaceOK
  BY <1>2, <1>4 DEF PlaceOK
<1>6. DOMAIN items = {}
  BY EmptyCache DEF CacheInit
<1>7. Snapshots
  BY <1>6, Requests DEF Snapshots, KeptSnap, HeldSnap, Kept, Has, Answered
<1> QED
  BY <1>3, <1>5, <1>7 DEF Recorded

LEMMA SnapshotsStay ==
  ASSUME DInv, [Next]_vars, Record
  PROVE  Snapshots'
<1>1. Onward /\ Grows
  BY StepsOnward, RecordedStays DEF DInv, Kind
<1>2. CASE Bystander
  BY <1>1, <1>2, BystanderSnapshots DEF DInv, Kind
<1>3. ASSUME NEW r \in Request, ReaderStep(r) PROVE Snapshots'
  <2>1. SameDocuments
    BY <1>3 DEF ReaderStep, Lookup, QueryList, QueryDocument, ReadFile, StoreResponse,
       database, SameDocuments
  <2>2. UNCHANGED history
    BY <2>1, Recording DEF DInv, history
  <2> QED
    BY <1>1, <1>3, <2>2, ReaderStepSnapshots DEF DInv, Kind
<1>4. ASSUME NEW r \in Request, Reset(r) PROVE Snapshots'
  <2>1. SameDocuments
    BY <1>4 DEF Reset, database, SameDocuments
  <2>2. UNCHANGED history
    BY <2>1, Recording DEF DInv, history
  <2> QED
    BY <1>1, <1>4, <2>2, ResetSnapshots DEF DInv, Kind
<1>5. CASE Restart
  BY <1>1, <1>5, RestartSnapshots DEF DInv, Kind
<1> QED
  BY <1>2, <1>3, <1>4, <1>5, Steps, ArriveBystander, QuietStepBystander, FileStepBystander,
     WriterStepBystander, OtherBystander DEF DInv, Kind

LEMMA HistorySpec == HSpec => Spec
<1>1. HInit => Init
  BY DEF HInit
<1>2. [HNext]_<<vars, history>> => [Next]_vars
  BY DEF HNext
<1> QED
  BY <1>1, <1>2, PTL DEF HSpec, Spec

\* Every response that is cached, or held by a reader, is one version of the
\* documents, as young as its readers may expect (cache.go:51-102).
THEOREM HistoryInvariance == HSpec => []DInv
<1>1. HSpec => []Kind
  BY HistorySpec, LifeInvariance, ResponseInvariance, FateInvariance, VerdictInvariance, PTL
     DEF Kind
<1>2. HInit /\ Kind => DInv
  BY InitHistory DEF Kind, DInv
<1>3. DInv /\ Kind' /\ [HNext]_<<vars, history>> => DInv'
  BY RecordedSteps, RecordedStays, SnapshotsStay DEF Kind, DInv
<1> QED
  BY <1>1, <1>2, <1>3, PTL DEF HSpec

-----------------------------------------------------------------------------
(***************************************************************************)
(* The refinement.  The first lemmas say what a step does to the mapped    *)
(* variables, and when it is a step of the store.                          *)
(***************************************************************************)
LEMMA SameSets ==
  /\ Store!Request = Request /\ Store!Readers = Readers /\ Store!Mutators = Mutators
BY DEF Store!Request, Request, Store!Readers, Readers, Store!Mutators, Mutators

LEMMA Mapped ==
  /\ \A r \in Request : Phases[r] = Phase(r)
  /\ \A r \in Request : Statuses[r] = IF pc[r] = "done" THEN reply[r] ELSE 0
  /\ \A r \in Readers : Shown[r] = IF Answered(r, 200) THEN held[r] ELSE {}
  /\ \A d \in DocId : Rights[d] = IF d \in KnownDocs THEN row[d] ELSE Unset
BY DEF Phases, Statuses, Shown, Rights

\* Where a request is, for the store.
LEMMA PhaseIs ==
  ASSUME NEW r \in Request
  PROVE  /\ Phase(r) = "new" <=> pc[r] = "new"
         /\ Phase(r) = "asked" <=> pc[r] \in {"auth", "logout"}
         /\ Phase(r) = "open" <=> pc[r] = "done" /\ r \in inDoubt
         /\ Phase(r) = "done" <=> pc[r] = "done" /\ r \notin inDoubt
         /\ Phase(r) = "admitted" <=> pc[r] \notin {"new", "auth", "logout", "done"}
<1>1. CASE pc[r] = "new"
  BY <1>1, Zenon DEF Phase
<1>2. CASE pc[r] \in {"auth", "logout"}
  BY <1>2, Zenon DEF Phase
<1>3. CASE pc[r] = "done"
  BY <1>3, Zenon DEF Phase
<1>4. CASE pc[r] \notin {"new", "auth", "logout", "done"}
  BY <1>4, Zenon DEF Phase
<1> QED
  BY <1>1, <1>2, <1>3, <1>4

\* Where the step takes it.
LEMMA PhaseBecomes ==
  ASSUME NEW r \in Request
  PROVE  /\ Phase(r)' = "new" <=> pc'[r] = "new"
         /\ Phase(r)' = "asked" <=> pc'[r] \in {"auth", "logout"}
         /\ Phase(r)' = "open" <=> pc'[r] = "done" /\ r \in inDoubt'
         /\ Phase(r)' = "done" <=> pc'[r] = "done" /\ r \notin inDoubt'
         /\ Phase(r)' = "admitted" <=> pc'[r] \notin {"new", "auth", "logout", "done"}
<1>1. CASE pc'[r] = "new"
  BY <1>1, Zenon DEF Phase
<1>2. CASE pc'[r] \in {"auth", "logout"}
  BY <1>2, Zenon DEF Phase
<1>3. CASE pc'[r] = "done"
  BY <1>3, Zenon DEF Phase
<1>4. CASE pc'[r] \notin {"new", "auth", "logout", "done"}
  BY <1>4, Zenon DEF Phase
<1> QED
  BY <1>1, <1>2, <1>3, <1>4

\* Nothing about another request changes.
OnlyAt(r) ==
  \A q \in Request \ {r} :
    /\ pc'[q] = pc[q] /\ reply'[q] = reply[q] /\ held'[q] = held[q]
    /\ q \in inDoubt' <=> q \in inDoubt

LEMMA OthersMapped ==
  ASSUME NEW r \in Request, OnlyAt(r)
  PROVE  /\ Phases' = [Phases EXCEPT ![r] = Phase(r)']
         /\ Statuses' = [Statuses EXCEPT ![r] = IF pc'[r] = "done" THEN reply'[r] ELSE 0]
         /\ r \in Readers =>
              Shown' = [Shown EXCEPT ![r] = IF Answered(r, 200)' THEN held'[r] ELSE {}]
         /\ r \notin Readers => Shown' = Shown
<1>1. Phases' = [Phases EXCEPT ![r] = Phase(r)']
  <2>1. ASSUME NEW q \in Request \ {r} PROVE Phase(q)' = Phase(q)
    <3>1. pc'[q] = pc[q] /\ (q \in inDoubt' <=> q \in inDoubt)
      BY DEF OnlyAt
    <3> QED
      BY <3>1, Zenon DEF Phase
  <2> DEFINE P(q) == Phase(q)
  <2>2. Phases = [q \in Request |-> P(q)] /\ Phases' = [q \in Request |-> P(q)']
    BY DEF Phases
  <2>3. \A q \in Request \ {r} : P(q)' = P(q)
    BY <2>1
  <2> HIDE DEF P
  <2>4. [Phases EXCEPT ![r] = P(r)'] = [q \in Request |-> IF q = r THEN P(r)' ELSE P(q)]
    BY <2>2
  <2>5. Phases' = [q \in Request |-> IF q = r THEN P(r)' ELSE P(q)]
    BY <2>2, <2>3
  <2> QED
    BY <2>4, <2>5 DEF P
<1>2. Statuses' = [Statuses EXCEPT ![r] = IF pc'[r] = "done" THEN reply'[r] ELSE 0]
  BY DEF OnlyAt, Statuses
<1>3. r \in Readers =>
        Shown' = [Shown EXCEPT ![r] = IF Answered(r, 200)' THEN held'[r] ELSE {}]
  <2> SUFFICES ASSUME r \in Readers
               PROVE  Shown' = [Shown EXCEPT ![r] = IF Answered(r, 200)' THEN held'[r] ELSE {}]
    OBVIOUS
  <2> DEFINE S(q) == IF Answered(q, 200) THEN held[q] ELSE {}
  <2>1. Shown = [q \in Readers |-> S(q)] /\ Shown' = [q \in Readers |-> S(q)']
    BY DEF Shown
  <2>2. \A q \in Readers \ {r} : S(q)' = S(q)
    BY Requests DEF OnlyAt, Answered
  <2> HIDE DEF S
  <2>3. [Shown EXCEPT ![r] = S(r)'] = [q \in Readers |-> IF q = r THEN S(r)' ELSE S(q)]
    BY <2>1
  <2>4. Shown' = [q \in Readers |-> IF q = r THEN S(r)' ELSE S(q)]
    BY <2>1, <2>2
  <2> QED
    BY <2>3, <2>4 DEF S
<1>4. r \notin Readers => Shown' = Shown
  BY Requests DEF OnlyAt, Shown, Answered
<1> QED
  BY <1>1, <1>2, <1>3, <1>4

\* A step that changes no document leaves the rights alone.
LEMMA SameRights ==
  ASSUME LInv, Onward, SameDocuments
  PROVE  Rights' = Rights
<1>1. KnownDocs' = KnownDocs /\ \A d \in KnownDocs : row'[d] = row[d]
  BY DEF Onward, SameDocuments, KnownDocs
<1> QED
  BY <1>1 DEF Rights

\* A step of request r that changes no document and no session.
Apart(r) == OnlyAt(r) /\ UNCHANGED <<log, place, Rights, sessions, token, target, acked>>

UnderWay(r) == pc[r] \notin {"new", "done"}

LEMMA MapsToStutter ==
  ASSUME NEW r \in Request, Apart(r), Phase(r)' = Phase(r), pc[r] # "done"
  PROVE  UNCHANGED Store!vars
<1>1. pc'[r] # "done"
  BY PhaseIs, PhaseBecomes
<1>2. Phases' = Phases
  <2>1. Phases' = [Phases EXCEPT ![r] = Phase(r)]
    BY OthersMapped DEF Apart
  <2> QED
    BY <2>1, Mapped DEF Phases
<1>3. Statuses' = Statuses
  BY <1>1 DEF Apart, OnlyAt, Statuses
<1>4. Shown' = Shown
  BY <1>1, Requests DEF Apart, OnlyAt, Shown, Answered
<1> QED
  BY <1>2, <1>3, <1>4
     DEF Apart, Store!vars, Store!contents, Store!arguments, Store!answers

\* The request is answered, and not with 200.
LEMMA AnswerMapped ==
  ASSUME NEW r \in Request, Apart(r), UnderWay(r), pc'[r] = "done", reply'[r] # 200
  PROVE  /\ Phases[r] \in {"asked", "admitted"}
         /\ Phases' = [Phases EXCEPT ![r] = IF r \in inDoubt' THEN "open" ELSE "done"]
         /\ Statuses' = [Statuses EXCEPT ![r] = reply'[r]]
         /\ Shown' = Shown
<1>1. Phases[r] \in {"asked", "admitted"}
  BY PhaseIs, Mapped DEF UnderWay
<1>2. Phase(r)' = IF r \in inDoubt' THEN "open" ELSE "done"
  BY PhaseBecomes
<1>3. Phases' = [Phases EXCEPT ![r] = Phase(r)']
      /\ Statuses' = [Statuses EXCEPT ![r] = IF pc'[r] = "done" THEN reply'[r] ELSE 0]
  BY OthersMapped DEF Apart
<1>4. Phases' = [Phases EXCEPT ![r] = IF r \in inDoubt' THEN "open" ELSE "done"]
  BY <1>2, <1>3
<1>5. Statuses' = [Statuses EXCEPT ![r] = reply'[r]]
  BY <1>3
<1>6. Shown' = Shown
  BY Requests DEF Apart, OnlyAt, Shown, Answered, UnderWay
<1> QED
  BY <1>1, <1>4, <1>5, <1>6

LEMMA MapsToRefuse ==
  ASSUME NEW r \in Request, Apart(r), UnderWay(r), pc'[r] = "done", r \notin inDoubt',
         reply'[r] \in {400, 401, 403, 404}, Store!Verdict(r, reply'[r]),
         r \in Mutators => place[r] = 0
  PROVE  Store!Refuse(r)
<1>1. /\ Phases[r] \in {"asked", "admitted"}
      /\ Phases' = [Phases EXCEPT ![r] = "done"]
      /\ Statuses' = [Statuses EXCEPT ![r] = reply'[r]]
      /\ Shown' = Shown
  BY AnswerMapped
<1>2. Store!Ended(r, reply'[r])
  BY <1>1 DEF Store!Ended, Apart, Store!contents, Store!arguments
<1> QED
  BY <1>1, <1>2, SameSets DEF Store!Refuse, Apart

LEMMA MapsToFail ==
  ASSUME NEW r \in Request, Apart(r), UnderWay(r), pc'[r] = "done", reply'[r] = 500,
         r \in inDoubt' => r \in Mutators /\ Phase(r) = "admitted" /\ place[r] = 0
  PROVE  Store!Fail(r)
<1>1. /\ Phases[r] \in {"asked", "admitted"}
      /\ Phases' = [Phases EXCEPT ![r] = IF r \in inDoubt' THEN "open" ELSE "done"]
      /\ Statuses' = [Statuses EXCEPT ![r] = 500]
      /\ Shown' = Shown
  BY AnswerMapped
<1>2. Store!Ended(r, 500)
  BY <1>1 DEF Store!Ended, Apart, Store!contents, Store!arguments
<1>3. r \in inDoubt' => Store!Unsettled(r)
  BY Mapped, SameSets DEF Store!Unsettled
<1> QED
  BY <1>1, <1>2, <1>3 DEF Store!Fail, Apart

LEMMA MapsToConfirm ==
  ASSUME NEW r \in Mutators, Apart(r), Phase(r) = "admitted", pc'[r] = "done",
         r \notin inDoubt', reply'[r] = 200, place[r] # 0
  PROVE  Store!Confirm(r)
<1>1. r \in Request /\ r \notin Readers
  BY Disjoint, Requests
<1>2. Phase(r)' = "done" /\ Phases[r] = "admitted"
  BY <1>1, PhaseBecomes, Mapped
<1>3. /\ Phases' = [Phases EXCEPT ![r] = Phase(r)']
      /\ Statuses' = [Statuses EXCEPT ![r] = IF pc'[r] = "done" THEN reply'[r] ELSE 0]
      /\ Shown' = Shown
  BY <1>1, OthersMapped DEF Apart
<1>4. Phases' = [Phases EXCEPT ![r] = "done"] /\ Statuses' = [Statuses EXCEPT ![r] = 200]
  BY <1>2, <1>3
<1>5. Store!Ended(r, 200)
  BY <1>2, <1>4 DEF Store!Ended, Apart, Store!contents, Store!arguments
<1> QED
  BY <1>2, <1>3, <1>4, <1>5 DEF Store!Confirm, Apart

(***************************************************************************)
(* A reader is shown a version of the documents.                           *)
(***************************************************************************)
LEMMA ViewMapped ==
  ASSUME LInv, Recorded, NEW r \in Readers, pc[r] # "new", NEW i \in 1..Len(log)
  PROVE  Store!View(i, r) = ViewOf(log[i], KeyOf(r))
<1>1. \A d \in log[i] : Rights[d] = row[d]
  <2>1. log[i] \subseteq KnownDocs /\ log[i] \subseteq DocId
    BY Values DEF Recorded, LogOK, LInv
  <2> QED
    BY <2>1, Mapped
<1>2. CASE r \in Lists
  <2>1. KeyOf(r) = [user |-> Viewer(r), doc |-> NoDoc, query |-> target[r]]
    BY <1>2 DEF KeyOf
  <2>2. KeyOf(r).user = Viewer(r) /\ KeyOf(r).doc = NoDoc /\ KeyOf(r).query = target[r]
    BY <2>1
  <2> QED
    BY <1>1, <1>2, <2>2
       DEF Store!View, Store!OwnerAsked, Store!Viewer, Store!MayRead, ViewOf, Shows,
           OwnerAsked, Viewer, CanRead
<1>3. CASE r \notin Lists
  <2>1. KeyOf(r) = [user |-> Viewer(r), doc |-> target[r], query |-> NoQuery]
    BY <1>3 DEF KeyOf
  <2>2. KeyOf(r).user = Viewer(r) /\ KeyOf(r).doc = target[r]
    BY <2>1
  <2>3. target[r] # NoDoc
    BY <1>3, Values, Requests, KeyAssumption DEF LInv, Typed, ArgumentsOK, Readers
  <2> QED
    BY <1>1, <1>3, <2>2, <2>3
       DEF Store!View, Store!Viewer, Store!MayRead, ViewOf, Shows, Viewer, CanRead
<1> QED
  BY <1>2, <1>3

LEMMA ConcernsMapped ==
  ASSUME LInv, NEW r \in Readers, pc[r] # "new", NEW m
  PROVE  Store!Concerns(m, r) => Touches(m, KeyOf(r))
<1>1. r \in Lists => KeyOf(r).doc = NoDoc
  BY DEF KeyOf
<1>2. r \notin Lists => KeyOf(r).doc = target[r]
  BY DEF KeyOf
<1> QED
  BY <1>1, <1>2 DEF Store!Concerns, Touches

LEMMA MapsToShow ==
  ASSUME LInv, Recorded, NEW r \in Readers, Apart(r), Phase(r) = "admitted",
         pc'[r] = "done", r \notin inDoubt', reply'[r] = 200,
         Snapshot(KeyOf(r), held'[r], acked[r] \cap Mutators),
         r \in Gets => held'[r] # {}
  PROVE  Store!Show(r)
<1>1. r \in Request
  BY Requests
<1>2. pc[r] # "new" /\ Phase(r)' = "done" /\ Phases[r] = "admitted"
  BY <1>1, PhaseIs, PhaseBecomes, Mapped
<1>3. /\ Phases' = [Phases EXCEPT ![r] = Phase(r)']
      /\ Statuses' = [Statuses EXCEPT ![r] = IF pc'[r] = "done" THEN reply'[r] ELSE 0]
      /\ Shown' = [Shown EXCEPT ![r] = IF Answered(r, 200)' THEN held'[r] ELSE {}]
  BY <1>1, OthersMapped DEF Apart
<1>4. Phases' = [Phases EXCEPT ![r] = "done"] /\ Statuses' = [Statuses EXCEPT ![r] = 200]
      /\ Shown' = [Shown EXCEPT ![r] = held'[r]]
  BY <1>2, <1>3 DEF Answered
<1>5. Store!Ended(r, 200)
  BY <1>2, <1>4 DEF Store!Ended, Apart, Store!contents, Store!arguments
<1>6. PICK i \in 1..Len(log) :
           /\ held'[r] = ViewOf(log[i], KeyOf(r))
           /\ \A m \in acked[r] \cap Mutators : Touches(m, KeyOf(r)) => place[m] <= i
  BY DEF Snapshot
<1>7. Store!View(i, r) = held'[r]
  BY <1>2, <1>6, ViewMapped
<1>8. \A m \in acked[r] \cap Mutators : Store!Concerns(m, r) => place[m] <= i
  BY <1>2, <1>6, ConcernsMapped
<1>9. \E j \in 1..Len(log) :
        /\ \A m \in acked[r] \cap Store!Mutators : Store!Concerns(m, r) => place[m] <= j
        /\ r \in Gets => Store!View(j, r) # {}
        /\ Shown' = [Shown EXCEPT ![r] = Store!View(j, r)]
  BY <1>4, <1>7, <1>8, SameSets
<1> QED
  BY <1>2, <1>4, <1>5, <1>9 DEF Store!Show, Apart

(***************************************************************************)
(* A change takes effect.                                                  *)
(***************************************************************************)
LEMMA RightsAfter ==
  ASSUME LInv, LInv', Onward, NEW m \in Mutators, TakesEffect(m), pc[m] # "new"
  PROVE  /\ m \in Uploads => Rights' = [Rights EXCEPT ![m] = RowOf(Viewer(m), target[m])]
         /\ m \in Deletes => Rights' = Rights
<1>1. m \in applied' /\ m \in Request /\ target'[m] = target[m] /\ token'[m] = token[m]
  BY Requests DEF TakesEffect, Onward
<1>2. \A d \in KnownDocs : row'[d] = row[d]
  BY DEF Onward
<1>3. ASSUME m \in Uploads PROVE Rights' = [Rights EXCEPT ![m] = RowOf(Viewer(m), target[m])]
  <2>1. row'[m] = RowOf(Viewer(m), target[m])
    BY <1>1, <1>3 DEF LInv, Life, Inserted, Viewer
  <2>2. KnownDocs' = KnownDocs \cup {m} /\ m \in DocId
    BY <1>3, Requests DEF TakesEffect, KnownDocs
  <2> QED
    BY <1>2, <2>1, <2>2 DEF Rights
<1>4. ASSUME m \in Deletes PROVE Rights' = Rights
  <2>1. KnownDocs' = KnownDocs
    BY <1>4, Disjoint DEF TakesEffect, KnownDocs
  <2> QED
    BY <1>2, <2>1 DEF Rights
<1> QED
  BY <1>3, <1>4

LEMMA MapsToApply ==
  ASSUME LInv, LInv', Recorded, Record, Onward,
         NEW m \in Mutators, TakesEffect(m), OnlyAt(m),
         UNCHANGED <<sessions, token, target, acked>>,
         \/ Phase(m) = "admitted" /\ Phase(m)' = "admitted"
         \/ Phase(m) = "open" /\ Phase(m)' = "done" /\ reply'[m] = reply[m]
  PROVE  Store!Apply(m)
<1>1. m \in Request /\ m \notin Readers
  BY Disjoint, Requests
<1>2. pc[m] # "new" /\ (pc[m] = "done" <=> pc'[m] = "done")
  BY <1>1, PhaseIs, PhaseBecomes
<1>3. /\ Phases' = [Phases EXCEPT ![m] = Phase(m)']
      /\ Statuses' = [Statuses EXCEPT ![m] = IF pc'[m] = "done" THEN reply'[m] ELSE 0]
      /\ Shown' = Shown
  BY <1>1, OthersMapped
<1>4. Phases[m] \in {"admitted", "open"}
      /\ Phases' = [Phases EXCEPT ![m] = IF Phases[m] = "open" THEN "done" ELSE "admitted"]
  BY <1>1, <1>3, Mapped
<1>5. Statuses' = Statuses
  <2>1. (IF pc'[m] = "done" THEN reply'[m] ELSE 0) = Statuses[m]
    BY <1>1, <1>2, PhaseIs, Mapped
  <2> QED
    BY <1>3, <2>1 DEF Statuses
<1>6. place[m] = 0 /\ log' = Append(log, docs') /\ place' = [place EXCEPT ![m] = Len(log) + 1]
  BY Recording DEF TakesEffect, Recorded, PlaceOK
<1>7. Store!Current = docs
  BY DEF Store!Current, Recorded, LogOK
<1>8. CASE m \in Uploads
  <2>1. docs' = docs \cup {m}
    BY <1>8, Disjoint DEF TakesEffect
  <2>2. Rights' = [Rights EXCEPT ![m] = Store!RowOf(Store!Viewer(m), target[m])]
    BY <1>2, <1>8, RightsAfter DEF Store!RowOf, Store!Viewer, RowOf, Viewer
  <2> QED
    BY <1>3, <1>4, <1>5, <1>6, <1>7, <1>8, <2>1, <2>2
       DEF Store!Apply, Store!arguments, Store!answers
<1>9. CASE m \in Deletes
  <2>1. docs' = docs \ {target[m]} /\ CanDelete(m)
    BY <1>9, Disjoint DEF TakesEffect
  <2>2. target[m] \in docs /\ Rights[target[m]].owner = Store!Viewer(m)
    BY <2>1, Values, Mapped DEF CanDelete, Viewer, Store!Viewer, LInv, Life, Known
  <2>3. Rights' = Rights
    BY <1>2, <1>9, RightsAfter
  <2> QED
    BY <1>3, <1>4, <1>5, <1>6, <1>7, <1>9, <2>1, <2>2, <2>3
       DEF Store!Apply, Store!arguments, Store!answers
<1> QED
  BY <1>8, <1>9 DEF Mutators

-----------------------------------------------------------------------------
(***************************************************************************)
(* Every step of the server is a step of the store, or none.               *)
(***************************************************************************)
StoreStep == Store!Next \/ UNCHANGED Store!vars

LEMMA RequestSteps ==
  /\ \A r \in Request :
       Store!Ask(r) \/ Store!Admit(r) \/ Store!Refuse(r) \/ Store!Fail(r) => StoreStep
  /\ \A m \in Mutators : Store!Apply(m) \/ Store!Drop(m) \/ Store!Confirm(m) => StoreStep
  /\ \A r \in Readers : Store!Show(r) => StoreStep
  /\ \A r \in Logouts : Store!SignOut(r) => StoreStep
  /\ \A t \in Token : Store!EndSession(t) => StoreStep
  /\ Store!Crash => StoreStep
BY SameSets DEF StoreStep, Store!Next

LEMMA AsideApart ==
  ASSUME LInv, Recorded, Record, Onward, NEW r \in Request, Aside(r), UNCHANGED sessions
  PROVE  Apart(r) /\ UnderWay(r) /\ inDoubt' = inDoubt
<1>1. SameDocuments
  BY DEF Aside, SameDocuments
<1>2. Rights' = Rights /\ UNCHANGED <<log, place>>
  BY <1>1, SameRights, Recording
<1>3. OnlyAt(r)
  BY DEF Aside, OnlyAt
<1> QED
  BY <1>2, <1>3 DEF Aside, Apart, UnderWay

\* A request that is not a change, or has not reached its statement, has no effect.
LEMMA NoEffect ==
  ASSUME LInv, Settled, Recorded, NEW r \in Request,
         pc[r] \notin {"new", "cleanup", "unlink", "reset", "done"}
  PROVE  r \notin inDoubt /\ (r \in Mutators => place[r] = 0)
<1>1. r \in Mutators => r \notin applied /\ r \notin inDoubt
  BY DEF Settled, SettledAt
<1> QED
  BY <1>1 DEF LInv, Typed, TypeOK, Recorded, PlaceOK

LEMMA ArriveMapped ==
  ASSUME DInv, Record, Onward, NEW r \in Request, Arrive(r)
  PROVE  Store!Ask(r)
<1> USE DEF Arrive, database, Goto
<1>1. SameDocuments /\ sessions' = sessions /\ inDoubt' = inDoubt /\ held' = held
      /\ reply' = reply
  BY DEF SameDocuments
<1>2. Rights' = Rights /\ UNCHANGED <<log, place>>
  BY <1>1, SameRights, Recording DEF DInv, Kind
<1>3. OnlyAt(r)
  BY DEF OnlyAt, DInv, Kind, LInv, Typed, TypeOK
<1>4. pc'[r] \in {"auth", "logout"} /\ pc[r] = "new"
  BY DEF DInv, Kind, LInv, Typed, TypeOK
<1>5. Phases[r] = "new" /\ Phases' = [Phases EXCEPT ![r] = "asked"]
  <2>1. Phase(r) = "new" /\ Phase(r)' = "asked"
    BY <1>4, PhaseIs, PhaseBecomes
  <2>2. Phases' = [Phases EXCEPT ![r] = Phase(r)']
    BY <1>3, OthersMapped
  <2> QED
    BY <2>1, <2>2, Mapped
<1>6. Statuses' = Statuses
  BY <1>1, <1>3, <1>4 DEF OnlyAt, Statuses
<1>7. Shown' = Shown
  BY <1>1, <1>3, <1>4, Requests DEF OnlyAt, Shown, Answered
<1>8. {x \in Mutators \cup Logouts : pc[x] = "done" /\ reply[x] = 200}
         = {x \in Store!Mutators \cup Logouts : Statuses[x] = 200}
  <2>1. Mutators \cup Logouts \subseteq Request
    BY Requests
  <2> QED
    BY <2>1, Mapped, SameSets
<1>9. \E x \in Store!Arguments(r) : target' = [target EXCEPT ![r] = x]
  <2>1. Store!Known = KnownDocs
    BY DEF Store!Known, KnownDocs, DInv, Recorded, PlaceOK, Mutators
  <2>2. Store!Arguments(r) = Arguments(r)
    BY <2>1, Zenon DEF Store!Arguments, Arguments
  <2> QED
    BY <2>2
<1> QED
  BY <1>1, <1>2, <1>5, <1>6, <1>7, <1>8, <1>9
     DEF Store!Ask, Store!contents, Store!answers

LEMMA QuietMapped ==
  ASSUME DInv, Record, Onward, NEW r \in Request, QuietStep(r)
  PROVE  StoreStep
<1> USE DEF DInv, Kind
<1>1. Aside(r) /\ UNCHANGED sessions
  BY QuietStepAside
     DEF QuietStep, Reject, Authenticate, StatementFails, LookupReason, AcceptForm, OpenFails,
         RefuseUpload, FindGrantees, Begin, Rollback, database, LInv
<1>2. Apart(r) /\ UnderWay(r) /\ inDoubt' = inDoubt
  BY <1>1, AsideApart
<1> USE DEF Goto, Reply, Finish, LInv, Typed, TypeOK
<1>3. CASE Reject(r)
  <2>1. r \notin inDoubt /\ (r \in Mutators => place[r] = 0)
    BY <1>3, NoEffect DEF Reject
  <2>2. pc'[r] = "done" /\ reply'[r] = 400
    BY <1>3 DEF Reject
  <2>3. Store!Verdict(r, reply'[r])
    BY <2>2 DEF Store!Verdict
  <2> QED
    BY <1>2, <2>1, <2>2, <2>3, MapsToRefuse, RequestSteps
<1>4. CASE Authenticate(r) /\ token[r] \in sessions
  <2>1. r \notin Logouts /\ pc[r] = "auth"
    BY <1>4 DEF Authenticate, Place
  <2>2. AfterAuth(r) \in {"form", "lookup", "delete"}
    BY <2>1 DEF AfterAuth, Request, Readers
  <2>3. pc'[r] \in {"form", "lookup", "delete"}
    BY <1>4, <2>2 DEF Authenticate
  <2>4. Phases[r] = "asked" /\ Phases' = [Phases EXCEPT ![r] = "admitted"]
    <3>1. Phase(r) = "asked" /\ Phase(r)' = "admitted"
      BY <2>1, <2>3, PhaseIs, PhaseBecomes
    <3>2. Phases' = [Phases EXCEPT ![r] = Phase(r)']
      BY <1>2, OthersMapped DEF Apart
    <3> QED
      BY <3>1, <3>2, Mapped
  <2>5. Statuses' = Statuses
    BY <1>2, <2>1, <2>3 DEF Apart, OnlyAt, Statuses
  <2>6. Shown' = Shown
    BY <1>2, <2>1, <2>3, Requests DEF Apart, OnlyAt, Shown, Answered
  <2>7. Store!Admit(r)
    BY <1>2, <1>4, <2>1, <2>4, <2>5, <2>6
       DEF Apart, Store!Admit, Store!contents, Store!arguments, Store!answers
  <2> QED
    BY <2>7, RequestSteps
<1>5. CASE Authenticate(r) /\ token[r] \notin sessions
  <2>1. r \notin Logouts /\ pc[r] = "auth" /\ pc'[r] = "done" /\ reply'[r] = 401
    BY <1>5 DEF Authenticate, Place
  <2>2. r \notin inDoubt /\ (r \in Mutators => place[r] = 0)
    BY <2>1, NoEffect
  <2>3. Phases[r] = "asked"
    BY <2>1, PhaseIs, Mapped
  <2>4. Store!Verdict(r, reply'[r])
    BY <1>5, <2>1, <2>3 DEF Store!Verdict
  <2> QED
    BY <1>2, <2>1, <2>2, <2>4, MapsToRefuse, RequestSteps
<1>6. CASE StatementFails(r) /\ pc[r] \in {"auth", "query", "logout"}
  <2>1. AfterFailure(pc[r]) = "done"
    BY <1>6 DEF AfterFailure
  <2>2. pc'[r] = "done" /\ reply'[r] = 500
    BY <1>6, <2>1 DEF StatementFails
  <2>3. r \notin inDoubt
    BY <1>6, NoEffect
  <2> QED
    BY <1>2, <2>2, <2>3, MapsToFail, RequestSteps
<1>7. CASE OpenFails(r)
  <2>1. pc[r] = "form" /\ pc'[r] = "done" /\ reply'[r] = 500
    BY <1>7 DEF OpenFails
  <2>2. r \notin inDoubt
    BY <2>1, NoEffect
  <2> QED
    BY <1>2, <2>1, <2>2, MapsToFail, RequestSteps
<1>8. CASE StatementFails(r) /\ pc[r] \notin {"auth", "query", "logout"}
  <2>1. AfterFailure(pc[r]) \in {"rollback", "cleanup", "reset"}
    BY <1>8 DEF StatementFails, AfterFailure
  <2>2. pc[r] \notin {"new", "auth", "logout", "done"}
        /\ pc'[r] \notin {"new", "auth", "logout", "done"}
    BY <1>8, <2>1 DEF StatementFails
  <2>3. Phase(r) = "admitted" /\ Phase(r)' = "admitted"
    BY <2>2, PhaseIs, PhaseBecomes
  <2> QED
    BY <1>2, <2>2, <2>3, MapsToStutter DEF StoreStep
<1>9. CASE \/ LookupReason(r) \/ AcceptForm(r) \/ RefuseUpload(r) \/ FindGrantees(r)
           \/ Begin(r) \/ Rollback(r)
  <2>1. pc[r] \notin {"new", "auth", "logout", "done"}
        /\ pc'[r] \notin {"new", "auth", "logout", "done"}
    BY <1>9 DEF LookupReason, AcceptForm, RefuseUpload, FindGrantees, Begin, Rollback
  <2>2. Phase(r) = "admitted" /\ Phase(r)' = "admitted"
    BY <2>1, PhaseIs, PhaseBecomes
  <2> QED
    BY <1>2, <2>1, <2>2, MapsToStutter DEF StoreStep
<1> QED
  BY <1>3, <1>4, <1>5, <1>6, <1>7, <1>8, <1>9 DEF QuietStep

LEMMA FileMapped ==
  ASSUME DInv, Record, Onward, NEW r \in Request, FileStep(r)
  PROVE  StoreStep
<1> USE DEF DInv, Kind
<1>1. Aside(r) /\ UNCHANGED sessions
  BY FileStepAside DEF FileStep, Unlink, SaveFile, SaveFileFails, Cleanup, database, LInv
<1>2. pc[r] \notin {"new", "auth", "logout", "done"}
      /\ pc'[r] \notin {"new", "auth", "logout", "done"}
  BY DEF FileStep, Unlink, SaveFile, SaveFileFails, Cleanup, Goto, LInv, Typed, TypeOK
<1>3. Phase(r) = "admitted" /\ Phase(r)' = "admitted"
  BY <1>2, PhaseIs, PhaseBecomes
<1> QED
  BY <1>1, <1>2, <1>3, AsideApart, MapsToStutter DEF StoreStep

(***************************************************************************)
(* What a reader shows is what it was given by the cache or the database.  *)
(***************************************************************************)
LEMMA ReaderMapped ==
  ASSUME DInv, Record, Onward, NEW r \in Request, ReaderStep(r)
  PROVE  StoreStep
<1> USE DEF DInv, Kind
<1>1. Aside(r) /\ UNCHANGED sessions
  BY ReaderStepAside DEF ReaderStep, Lookup, QueryList, QueryDocument, ReadFile, StoreResponse,
     database, LInv
<1>2. Apart(r) /\ UnderWay(r) /\ inDoubt' = inDoubt
  BY <1>1, AsideApart
<1> USE DEF Goto, Reply, Finish, LInv, Typed, TypeOK
<1>3. r \in Readers /\ r \notin Mutators /\ r \notin inDoubt
  BY Disjoint DEF ReaderStep, Lookup, QueryList, QueryDocument, ReadFile, StoreResponse, Place,
     Readers
<1>4. pc[r] \notin {"new", "auth", "logout", "done"} /\ Phase(r) = "admitted"
      /\ Phases[r] = "admitted"
  BY PhaseIs, Mapped
     DEF ReaderStep, Lookup, QueryList, QueryDocument, ReadFile, StoreResponse
<1>5. acked[r] \cap Mutators \subseteq Confirmed
  BY <1>3, Requests DEF RInv, AckedOK
<1>6. ASSUME pc'[r] \in {"query", "read", "store"} PROVE StoreStep
  <2>1. Phase(r)' = "admitted"
    BY <1>6, PhaseBecomes
  <2> QED
    BY <1>2, <1>4, <2>1, MapsToStutter DEF StoreStep
<1>7. CASE Lookup(r) /\ KeyOf(r) \in DOMAIN items
  <2>1. KeyOf(r) \in Key /\ items[KeyOf(r)] \in Body
    BY <1>7 DEF IsCache
  <2>2. /\ Snapshot(KeyOf(r), items[KeyOf(r)], Confirmed)
        /\ KeyOf(r).doc # NoDoc => items[KeyOf(r)] # {}
    BY <1>7, <2>1 DEF Snapshots, KeptSnap, Kept
  <2>3. pc'[r] = "done" /\ reply'[r] = 200 /\ held'[r] = items[KeyOf(r)]
    BY <1>7 DEF Lookup
  <2>4. Snapshot(KeyOf(r), held'[r], acked[r] \cap Mutators)
    BY <1>5, <2>2, <2>3 DEF Snapshot
  <2>5. r \in Gets => held'[r] # {}
    BY <1>3, <1>4, <2>2, <2>3, KeyDoc
  <2> QED
    BY <1>2, <1>3, <1>4, <2>3, <2>4, <2>5, MapsToShow, RequestSteps
<1>8. CASE StoreResponse(r)
  <2>1. pc[r] = "store" /\ pc'[r] = "done" /\ reply'[r] = 200 /\ held'[r] = held[r]
    BY <1>8 DEF StoreResponse
  <2>2. Snapshot(KeyOf(r), held[r], acked[r] \cap Mutators) /\ (r \in Gets => held[r] # {})
    BY <1>3, <2>1 DEF Snapshots, HeldSnap, Has
  <2>3. Snapshot(KeyOf(r), held'[r], acked[r] \cap Mutators) /\ (r \in Gets => held'[r] # {})
    BY <2>1, <2>2, Zenon
  <2> QED
    BY <1>2, <1>3, <1>4, <2>1, <2>3, MapsToShow, RequestSteps
<1>9. CASE QueryDocument(r) /\ reply'[r] \in {403, 404} /\ pc'[r] = "done"
  <2>1. r \in Gets /\ target[r] \in KnownDocs /\ target[r] \in DocId
    BY <1>9, Values, Requests DEF QueryDocument, ArgumentsOK
  <2>2. Store!Current = docs
    BY DEF Store!Current, Recorded, LogOK
  <2>3. \/ reply'[r] = 404 /\ target[r] \notin docs
        \/ reply'[r] = 403 /\ target[r] \in docs /\ ~CanRead(Viewer(r), target[r])
    BY <1>9 DEF QueryDocument
  <2>4. CanRead(Viewer(r), target[r]) <=> Store!MayRead(Store!Viewer(r), target[r])
    BY <2>1, Mapped DEF CanRead, Viewer, Store!MayRead, Store!Viewer
  <2>5. Store!Verdict(r, reply'[r])
    BY <1>4, <2>1, <2>2, <2>3, <2>4 DEF Store!Verdict
  <2> QED
    BY <1>2, <1>3, <1>9, <2>5, MapsToRefuse, RequestSteps
<1>10. CASE ReadFile(r) /\ pc'[r] = "done"
  <2>1. reply'[r] = 500
    BY <1>10 DEF ReadFile
  <2> QED
    BY <1>2, <1>3, <1>10, <2>1, MapsToFail, RequestSteps
<1>11. \/ pc'[r] \in {"query", "read", "store"}
       \/ Lookup(r) /\ KeyOf(r) \in DOMAIN items
       \/ StoreResponse(r)
       \/ QueryDocument(r) /\ reply'[r] \in {403, 404} /\ pc'[r] = "done"
       \/ ReadFile(r) /\ pc'[r] = "done"
  BY DEF ReaderStep, Lookup, QueryList, QueryDocument, ReadFile
<1> QED
  BY <1>6, <1>7, <1>8, <1>9, <1>10, <1>11

(***************************************************************************)
(* A change takes effect, is in doubt, or is answered after its reset.     *)
(***************************************************************************)
LEMMA ResetMapped ==
  ASSUME DInv, Record, Onward, NEW r \in Request, Reset(r)
  PROVE  StoreStep
<1> USE DEF DInv, Kind
<1>1. Aside(r) /\ UNCHANGED sessions
  BY ResetAside DEF Reset, database, LInv
<1>2. Apart(r) /\ UnderWay(r) /\ inDoubt' = inDoubt
  BY <1>1, AsideApart
<1>3. pc[r] = "reset" /\ pc'[r] = "done" /\ reply'[r] = reply[r]
  BY DEF Reset, Goto, LInv, Typed, TypeOK
<1>4. r \in Mutators /\ Phase(r) = "admitted" /\ Phases[r] = "admitted"
  BY <1>3, PhaseIs, Mapped DEF LInv, Typed, Place
<1>5. SettledAt(r) /\ (place[r] # 0 <=> r \in applied)
  BY <1>4 DEF Settled, Recorded, PlaceOK
<1>6. CASE reply[r] = 200
  <2>1. r \in applied /\ r \notin inDoubt
    BY <1>4, <1>5, <1>6 DEF LInv, Life, Told, SettledAt
  <2> QED
    BY <1>2, <1>3, <1>4, <1>5, <1>6, <2>1, MapsToConfirm, RequestSteps
<1>7. CASE reply[r] \in {400, 403, 404}
  <2>1. r \notin inDoubt /\ place[r] = 0
    BY <1>5, <1>7 DEF SettledAt
  <2>2. Store!Verdict(r, reply[r])
    <3>1. CASE reply[r] = 400
      BY <3>1 DEF Store!Verdict
    <3>2. CASE reply[r] \in {403, 404}
      <4>1. r \in Deletes
        BY <1>3, <1>5, <3>2 DEF SettledAt
      <4>2. target[r] \in KnownDocs /\ target[r] \in DocId
        BY <1>3, <4>1, Values DEF LInv, Typed, ArgumentsOK
      <4>3. Store!Current = docs
        BY DEF Store!Current, Recorded, LogOK
      <4>4. \/ reply[r] = 403 /\ Rights[target[r]].owner # Store!Viewer(r)
            \/ reply[r] = 404 /\ target[r] \notin docs
        BY <3>2, <4>1, <4>2, Mapped DEF Judged, Viewer, Store!Viewer
      <4> QED
        BY <1>4, <4>1, <4>3, <4>4 DEF Store!Verdict
    <3> QED
      BY <1>7, <3>1, <3>2
  <2> QED
    BY <1>2, <1>3, <1>7, <2>1, <2>2, MapsToRefuse, RequestSteps
<1>8. CASE reply[r] = 500
  <2>1. r \in inDoubt => place[r] = 0
    BY <1>5 DEF SettledAt
  <2> QED
    BY <1>2, <1>3, <1>4, <1>8, <2>1, MapsToFail, RequestSteps
<1> QED
  BY <1>3, <1>5, <1>6, <1>7, <1>8 DEF SettledAt

LEMMA WriterMapped ==
  ASSUME DInv, LInv', Record, Onward, NEW r \in Request, WriterStep(r), ~Reset(r)
  PROVE  StoreStep
<1> USE DEF DInv, Kind
<1>1. sessions' = sessions /\ UNCHANGED <<token, target, acked>>
  BY DEF WriterStep, DeleteRow, DeleteRowFails, RemoveRow, Insert, Commit, CommitFails, AddRow,
     database, request
<1>2. pc[r] \in {"delete", "insert", "commit"}
      /\ pc'[r] \in {"unlink", "reset", "why", "commit", "cleanup"}
  BY DEF WriterStep, DeleteRow, DeleteRowFails, Insert, Commit, CommitFails, Goto, LInv, Typed,
     TypeOK
<1>3. Phase(r) = "admitted" /\ Phase(r)' = "admitted"
  BY <1>2, PhaseIs, PhaseBecomes
<1>4. r \in Mutators
  BY <1>2 DEF LInv, Typed, Place, Mutators
<1>5. OnlyAt(r)
  BY WriterStepChanges
     DEF LInv, Change, InsertsRow, AddsDocument, RemovesDocument, GivesUp, Aside, OnlyAt
<1>6. CASE SameDocuments
  <2>1. Apart(r)
    BY <1>1, <1>5, <1>6, SameRights, Recording DEF Apart
  <2> QED
    BY <1>2, <1>3, <2>1, MapsToStutter DEF StoreStep
<1>7. CASE ~SameDocuments
  <2>1. Change(r) /\ (AddsDocument(r) \/ RemovesDocument(r))
    BY <1>7, WriterStepChanges DEF LInv, Change, Aside, InsertsRow, GivesUp, SameDocuments
  <2>2. r \notin applied
    BY <1>2, <1>4 DEF Settled, SettledAt
  <2>3. TakesEffect(r)
    BY <1>2, <1>4, <2>1, <2>2 DEF TakesEffect, AddsDocument, RemovesDocument
  <2>4. Store!Apply(r)
    BY <1>1, <1>3, <1>4, <1>5, <2>3, MapsToApply
  <2> QED
    BY <1>4, <2>4, RequestSteps
<1> QED
  BY <1>6, <1>7

LEMMA LandMapped ==
  ASSUME DInv, LInv', Record, Onward, NEW r \in Request, Land(r)
  PROVE  StoreStep
<1> USE DEF DInv, Kind
<1>1. /\ r \in inDoubt /\ inDoubt' = inDoubt \ {r}
      /\ UNCHANGED <<sessions, token, target, acked, pc, reply, held>>
  BY DEF Land, request
<1>2. r \in Mutators /\ r \notin Readers /\ pc[r] \in {"cleanup", "reset", "done"} /\ r \notin applied
  BY <1>1, Disjoint DEF LInv, Typed, TypeOK, Life, Doubtful, Settled, SettledAt
<1>3. OnlyAt(r)
  BY <1>1 DEF OnlyAt
<1>4. \/ Phase(r) = "admitted" /\ Phase(r)' = "admitted"
      \/ Phase(r) = "open" /\ Phase(r)' = "done" /\ reply'[r] = reply[r]
  BY <1>1, <1>2, PhaseIs, PhaseBecomes
<1>5. CASE SameDocuments
  <2>1. Apart(r)
    BY <1>1, <1>3, <1>5, SameRights, Recording DEF Apart
  <2>2. CASE pc[r] # "done"
    <3>1. Phase(r)' = Phase(r)
      BY <1>1, <1>2, <2>2, PhaseIs, PhaseBecomes
    <3> QED
      BY <2>1, <2>2, <3>1, MapsToStutter DEF StoreStep
  <2>3. CASE pc[r] = "done"
    <3>1. Phase(r) = "open" /\ Phase(r)' = "done"
      BY <1>1, <2>3, PhaseIs, PhaseBecomes
    <3>2. Phases[r] = "open" /\ Phases' = [Phases EXCEPT ![r] = "done"]
      <4>1. Phases' = [Phases EXCEPT ![r] = Phase(r)']
        BY <1>3, OthersMapped
      <4> QED
        BY <3>1, <4>1, Mapped
    <3>3. Statuses' = Statuses /\ Shown' = Shown
      BY <1>1 DEF Statuses, Shown, Answered
    <3>4. Store!Drop(r)
      BY <2>1, <3>2, <3>3 DEF Apart, Store!Drop, Store!contents, Store!arguments, Store!answers
    <3> QED
      BY <1>2, <3>4, RequestSteps
  <2> QED
    BY <2>2, <2>3
<1>6. CASE ~SameDocuments
  <2>1. TakesEffect(r)
    BY <1>1, <1>2, <1>6 DEF Land, SameDocuments, TakesEffect
  <2>2. Store!Apply(r)
    BY <1>1, <1>2, <1>3, <1>4, <2>1, MapsToApply
  <2> QED
    BY <1>2, <2>2, RequestSteps
<1> QED
  BY <1>5, <1>6

(***************************************************************************)
(* Sessions end, and the process dies.                                     *)
(***************************************************************************)
LEMMA LogoutMapped ==
  ASSUME DInv, Record, Onward, NEW r \in Request, Logout(r)
  PROVE  StoreStep
<1> USE DEF DInv, Kind
<1>1. Aside(r) /\ OnlyAt(r) /\ SameDocuments
  BY LogoutAside DEF LInv, Aside, OnlyAt, SameDocuments
<1>2. Rights' = Rights /\ UNCHANGED <<log, place>>
  BY <1>1, SameRights, Recording
<1>3. /\ pc[r] = "logout" /\ pc'[r] = "done" /\ reply'[r] = 200
      /\ sessions' = sessions \ {token[r]} /\ UNCHANGED <<token, target, acked>>
      /\ r \in Logouts /\ r \notin Readers /\ r \notin inDoubt'
  BY Disjoint DEF Logout, request, Goto, Reply, Finish, LInv, Typed, TypeOK, Place
<1>4. Phase(r) = "asked" /\ Phase(r)' = "done"
  BY <1>3, PhaseIs, PhaseBecomes
<1>5. /\ Phases' = [Phases EXCEPT ![r] = Phase(r)']
      /\ Statuses' = [Statuses EXCEPT ![r] = IF pc'[r] = "done" THEN reply'[r] ELSE 0]
      /\ Shown' = Shown
  BY <1>1, <1>3, OthersMapped
<1>6. Phases[r] = "asked" /\ Phases' = [Phases EXCEPT ![r] = "done"]
      /\ Statuses' = [Statuses EXCEPT ![r] = 200]
  BY <1>3, <1>4, <1>5, Mapped
<1>7. Store!SignOut(r)
  BY <1>2, <1>3, <1>5, <1>6 DEF Store!SignOut, Store!Ended, Store!contents, Store!arguments
<1> QED
  BY <1>3, <1>7, RequestSteps

LEMMA ExpireMapped ==
  ASSUME DInv, Record, Onward, NEW t \in Token, Expire(t)
  PROVE  StoreStep
<1> USE DEF DInv, Kind
<1>1. SameDocuments
  BY DEF Expire, SameDocuments
<1>2. Rights' = Rights /\ UNCHANGED <<log, place>>
  BY <1>1, SameRights, Recording
<1>3. UNCHANGED <<pc, reply, held, inDoubt, token, target, acked>>
  BY DEF Expire, request
<1>4. Phases' = Phases
  <2>1. \A r \in Request : Phase(r)' = Phase(r)
    BY <1>3, Zenon DEF Phase
  <2> QED
    BY <2>1 DEF Phases
<1>5. Statuses' = Statuses /\ Shown' = Shown
  BY <1>3 DEF Statuses, Shown, Answered
<1>6. Store!EndSession(t)
  BY <1>2, <1>3, <1>4, <1>5
     DEF Expire, Store!EndSession, Store!contents, Store!arguments, Store!answers
<1> QED
  BY <1>6, RequestSteps

LEMMA RestartMapped ==
  ASSUME DInv, Record, Onward, Restart
  PROVE  StoreStep
<1> USE DEF DInv, Kind
<1>1. SameDocuments /\ UNCHANGED <<sessions, inDoubt, held, token, target, acked>>
  BY DEF Restart, SameDocuments, database, request
<1>2. Rights' = Rights /\ UNCHANGED <<log, place>>
  BY <1>1, SameRights, Recording
<1>3. \A r \in Request : pc'[r] = (IF InFlight(r) THEN "done" ELSE pc[r])
                         /\ reply'[r] = (IF InFlight(r) THEN 0 ELSE reply[r])
  BY DEF Restart
<1> DEFINE open == {m \in inDoubt : InFlight(m)}
           Lost(r) == CASE r \in open -> "open"
                        [] r \notin open /\ Phases[r] \in {"asked", "admitted"} -> "done"
                        [] OTHER -> Phases[r]
<1>4. open \in SUBSET {m \in Store!Mutators : Store!Unsettled(m)}
  <2> SUFFICES ASSUME NEW m \in inDoubt, InFlight(m)
               PROVE  m \in Store!Mutators /\ Store!Unsettled(m)
    OBVIOUS
  <2>1. m \in Mutators /\ m \in Request /\ pc[m] \in {"cleanup", "reset"}
    BY Requests DEF LInv, Typed, TypeOK, Life, Doubtful, InFlight
  <2>2. Phases[m] = "admitted"
    BY <2>1, PhaseIs, Mapped
  <2>3. place[m] = 0
    BY <2>1 DEF Settled, SettledAt, Recorded, PlaceOK
  <2> QED
    BY <2>1, <2>2, <2>3, SameSets DEF Store!Unsettled
<1>5. ASSUME NEW r \in Request PROVE Phase(r)' = Lost(r)
  <2>1. Phases[r] = Phase(r)
    BY Mapped
  <2>2. CASE r \in open
    <3>1. pc'[r] = "done" /\ r \in inDoubt'
      BY <1>1, <1>3, <2>2
    <3>2. Phase(r)' = "open"
      BY <3>1, PhaseBecomes
    <3> QED
      BY <2>2, <3>2, Zenon
  <2>3. CASE r \notin open /\ InFlight(r)
    <3>1. pc'[r] = "done" /\ r \notin inDoubt'
      BY <1>1, <1>3, <2>3
    <3>2. Phase(r)' = "done"
      BY <3>1, PhaseBecomes
    <3>3. Phases[r] \in {"asked", "admitted"}
      BY <2>1, <2>3, PhaseIs DEF InFlight
    <3>4. r \notin open
      BY <2>3
    <3> HIDE DEF open
    <3> QED
      BY <3>2, <3>3, <3>4, Zenon
  <2>4. CASE ~InFlight(r)
    <3>1. pc'[r] = pc[r] /\ inDoubt' = inDoubt
      BY <1>1, <1>3, <2>4
    <3>2. Phase(r)' = Phase(r)
      BY <3>1, Zenon DEF Phase
    <3>3. Phases[r] \notin {"asked", "admitted"} /\ r \notin open
      BY <2>1, <2>4, PhaseIs DEF InFlight
    <3> HIDE DEF open
    <3> QED
      BY <2>1, <3>2, <3>3, Zenon
  <2> QED
    BY <2>2, <2>3, <2>4
<1> HIDE DEF open
<1>6. Phases' = [r \in Store!Request |-> Lost(r)]
  <2>1. Phases' = [r \in Request |-> Phase(r)']
    BY DEF Phases
  <2> HIDE DEF Lost
  <2> QED
    BY <1>5, <2>1, SameSets
<1>7. Statuses' = Statuses
  <2>1. \A r \in Request : (IF pc'[r] = "done" THEN reply'[r] ELSE 0)
                           = (IF pc[r] = "done" THEN reply[r] ELSE 0)
    BY <1>3 DEF InFlight
  <2> QED
    BY <2>1 DEF Statuses
<1>8. Shown' = Shown
  <2>1. \A r \in Readers : Answered(r, 200)' <=> Answered(r, 200)
    BY <1>3, Requests DEF InFlight, Answered
  <2> QED
    BY <1>1, <2>1 DEF Shown
<1>9. Store!Crash
  BY <1>1, <1>2, <1>4, <1>6, <1>7, <1>8
     DEF Store!Crash, Store!contents, Store!arguments, Store!answers
<1> QED
  BY <1>9, RequestSteps

LEMMA InitMapped == HInit => Store!Init
<1> SUFFICES ASSUME HInit PROVE Store!Init
  OBVIOUS
<1> USE DEF HInit, Init
<1>1. KnownDocs = Stored
  BY DEF KnownDocs
<1>2. \E rows \in [Stored -> {Store!RowOf(u, f) : u \in User, f \in Forms}] :
        Rights = [d \in DocId |-> IF d \in Stored THEN rows[d] ELSE Unset]
  <2>1. PICK rows \in [Stored -> {RowOf(u, f) : u \in User, f \in Forms}] :
               row = [d \in DocId |-> IF d \in Stored THEN rows[d] ELSE Unset]
    OBVIOUS
  <2>2. Rights = [d \in DocId |-> IF d \in Stored THEN rows[d] ELSE Unset]
    BY <1>1, <2>1 DEF Rights
  <2> QED
    BY <2>1, <2>2 DEF Store!RowOf, RowOf
<1>3. Phases = [r \in Store!Request |-> "new"]
  <2>1. \A r \in Request : Phase(r) = "new"
    BY PhaseIs
  <2> QED
    BY <2>1, SameSets DEF Phases
<1>4. Statuses = [r \in Store!Request |-> 0]
  BY SameSets DEF Statuses
<1>5. Shown = [r \in Store!Readers |-> {}]
  BY Requests, SameSets DEF Shown, Answered
<1> QED
  BY <1>2, <1>3, <1>4, <1>5, SameSets DEF Store!Init

LEMMA StutterMapped ==
  ASSUME UNCHANGED <<vars, history>>
  PROVE  UNCHANGED Store!vars
<1>1. UNCHANGED <<docs, row, applied, inDoubt, sessions, pc, reply, held, token, target, acked,
                  log, place>>
  BY DEF vars, database, request, history
<1>2. Rights' = Rights /\ Statuses' = Statuses /\ Shown' = Shown
  BY <1>1 DEF Rights, KnownDocs, Statuses, Shown, Answered
<1>3. Phases' = Phases
  <2>1. \A r \in Request : Phase(r)' = Phase(r)
    BY <1>1, Zenon DEF Phase
  <2> QED
    BY <2>1 DEF Phases
<1> QED
  BY <1>1, <1>2, <1>3 DEF Store!vars, Store!contents, Store!arguments, Store!answers

(***************************************************************************)
(* The document server, with its cache, its transactions and its failures, *)
(* implements a store of documents whose changes take effect one at a time *)
(* and whose responses are versions no older than the changes that were    *)
(* confirmed before the request (handlers/documents.go:119-122, 241-294,   *)
(* 452-455; README.md:636-642).                                            *)
(***************************************************************************)
THEOREM DocumentRefinement == HSpec => ImplementsDocumentStore
<1>1. DInv /\ DInv' /\ [HNext]_<<vars, history>> => [Store!Next]_Store!vars
  <2> SUFFICES ASSUME DInv, DInv', [HNext]_<<vars, history>> PROVE StoreStep
    BY DEF StoreStep
  <2>1. [Next]_vars /\ Record /\ LInv /\ LInv'
    BY RecordedSteps DEF DInv, Kind
  <2>2. Onward
    BY <2>1, StepsOnward
  <2>3. ASSUME NEW r \in Request, WriterStep(r) PROVE StoreStep
    BY <2>1, <2>2, <2>3, ResetMapped, WriterMapped
  <2>4. ASSUME NEW r \in Request, Arrive(r) PROVE StoreStep
    BY <2>1, <2>2, <2>4, ArriveMapped, RequestSteps
  <2>5. CASE UNCHANGED vars
    <3>1. SameDocuments
      BY <2>5 DEF vars, database, SameDocuments
    <3>2. UNCHANGED <<vars, history>>
      BY <2>1, <2>5, <3>1, Recording DEF DInv, history
    <3> QED
      BY <3>2, StutterMapped DEF StoreStep
  <2> QED
    BY <2>1, <2>2, <2>3, <2>4, <2>5, Steps, QuietMapped, FileMapped, ReaderMapped, LogoutMapped,
       LandMapped, ExpireMapped, RestartMapped
<1> QED
  BY <1>1, InitMapped, HistoryInvariance, PTL DEF HSpec, ImplementsDocumentStore, Store!Spec
=============================================================================
