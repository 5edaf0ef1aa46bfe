----------------------- MODULE DocumentSafetyProofs ------------------------
(***************************************************************************)
(* What clients of DocumentApi may rely on, for every set of requests and  *)
(* every combination of failures, late statements included.  The life of a *)
(* document comes first; the other invariants rest on it.                  *)
(***************************************************************************)
EXTENDS DocumentApiProofs

-----------------------------------------------------------------------------
(***************************************************************************)
(* The life of a document.  It is inserted before the commit, once; it is  *)
(* known from the moment its commit takes effect; when it is deleted it    *)
(* does not come back; a statement in doubt is one that was sent.          *)
(***************************************************************************)
Inserted ==
  \A r \in Uploads :
    pc[r] = "commit" \/ r \in applied \cup inDoubt =>
      /\ r \in commitStarted
      /\ row[r] = RowOf(Viewer(r), target[r])
      /\ pc[r] \notin BeforeCommit \ {"commit"}

Doubtful ==
  \A r \in inDoubt :
    /\ pc[r] \in {"cleanup", "reset", "done"}
    /\ r \in Uploads => r \notin applied

Gone ==
  \A m \in Deletes \cap applied : pc[m] # "new" /\ target[m] \in KnownDocs \ docs

Deleted(d) == \E m \in Deletes \cap applied : target[m] = d

Present == \A r \in Uploads \cap applied : r \in docs \/ Deleted(r)

Told ==
  \A m \in Mutators : reply[m] = 200 \/ pc[m] = "unlink" => m \in applied

Life == Known /\ Inserted /\ Doubtful /\ Gone /\ Present /\ Told

LInv == Typed /\ Life

LEMMA Disjoint ==
  /\ Uploads \cap Deletes = {}
  /\ Uploads \cap Stored = {}
  /\ Readers \cap Mutators = {}
  /\ Logouts \cap Readers = {}
  /\ Logouts \cap Mutators = {}
BY RequestAssumption, DocIdAssumption DEF Readers, Mutators

LEMMA InitLife == Init => Life
BY Requests, Disjoint
   DEF Init, Life, Known, KnownDocs, Inserted, Doubtful, Gone, Present, Told, BeforeCommit

(***************************************************************************)
(* A step that leaves the documents alone and moves no request back.       *)
(***************************************************************************)
Aside(r) ==
  /\ UNCHANGED <<docs, row, applied, inDoubt, commitStarted>>
  /\ UNCHANGED <<token, target, acked>>
  /\ \A q \in Request \ {r} : pc'[q] = pc[q] /\ reply'[q] = reply[q] /\ held'[q] = held[q]
  /\ pc[r] \notin {"new", "commit", "done"}
  /\ pc'[r] \notin {"new", "commit", "unlink"}
  /\ pc'[r] \in BeforeCommit => pc[r] \in BeforeCommit
  /\ pc[r] \in {"cleanup", "reset"} => pc'[r] \in {"cleanup", "reset", "done"}
  /\ r \in Mutators => reply'[r] = reply[r] \/ reply'[r] # 200

LEMMA AsideLife ==
  ASSUME LInv, NEW r \in Request, Aside(r)
  PROVE  Life'
<1> USE DEF LInv, Life, Aside
<1>1. Known'
  BY Requests DEF Known, KnownDocs
<1>2. Inserted'
  BY Requests DEF Inserted, Viewer, BeforeCommit
<1>3. Doubtful'
  BY Requests DEF Doubtful, Typed, TypeOK
<1>4. Gone'
  BY Requests DEF Gone, Mutators, KnownDocs
<1>5. Present'
  BY Requests DEF Present, Deleted, Gone, Mutators
<1>6. Told'
  BY Requests DEF Told
<1> QED
  BY <1>1, <1>2, <1>3, <1>4, <1>5, <1>6

LEMMA ArriveLife ==
  ASSUME LInv, NEW r \in Request, Arrive(r)
  PROVE  Life'
<1> USE DEF Arrive, database, request, Goto, LInv, Life
<1>1. pc' = [pc EXCEPT ![r] = IF r \in Logouts THEN "logout" ELSE "auth"] /\ pc[r] = "new"
  OBVIOUS
<1>2. \A q \in Request \ {r} : token'[q] = token[q] /\ target'[q] = target[q]
  BY DEF Typed, TypeOK
<1>3. r \notin applied /\ r \notin inDoubt
  BY <1>1, Disjoint, Requests DEF Typed, TypeOK, Known, Doubtful, Gone, BeforeCommit, Mutators
<1>4. Known'
  BY <1>1, Requests DEF Known, KnownDocs, BeforeCommit, Typed, TypeOK
<1>5. Inserted'
  BY <1>1, <1>2, <1>3, Requests DEF Inserted, Viewer, BeforeCommit, Typed, TypeOK
<1>6. Doubtful'
  BY <1>1, <1>3, Requests DEF Doubtful, Typed, TypeOK
<1>7. Gone'
  BY <1>1, <1>2, <1>3, Requests DEF Gone, KnownDocs, Typed, TypeOK, Mutators
<1>8. Present'
  BY <1>2, <1>3, Requests DEF Present, Deleted, Mutators
<1>9. Told'
  BY <1>1, Requests DEF Told, Typed, TypeOK
<1> QED
  BY <1>4, <1>5, <1>6, <1>7, <1>8, <1>9

LEMMA QuietStepAside ==
  ASSUME Typed, NEW r \in Request, QuietStep(r)
  PROVE  Aside(r)
<1> USE DEF database, request, Goto, Reply, Finish, Typed, TypeOK, Aside, BeforeCommit
<1>1. CASE Reject(r) \/ OpenFails(r)
  BY <1>1 DEF Reject, OpenFails
<1>2. CASE Authenticate(r)
  <2>1. r \notin Logouts
    BY <1>2 DEF Authenticate, Place
  <2>2. AfterAuth(r) \in {"form", "lookup", "delete"}
    BY <2>1 DEF AfterAuth, Request, Readers
  <2> QED
    BY <1>2, <2>2 DEF Authenticate
<1>3. CASE StatementFails(r)
  <2>1. AfterFailure(pc[r]) \in {"rollback", "cleanup", "reset", "done"}
    BY <1>3 DEF StatementFails, AfterFailure
  <2> QED
    BY <1>3, <2>1 DEF StatementFails
<1>4. CASE LookupReason(r)
  BY <1>4 DEF LookupReason
<1>5. CASE AcceptForm(r) \/ RefuseUpload(r)
  BY <1>5 DEF AcceptForm, RefuseUpload
<1>6. CASE FindGrantees(r) \/ Begin(r) \/ Rollback(r)
  BY <1>6 DEF FindGrantees, Begin, Rollback
<1> QED
  BY <1>1, <1>2, <1>3, <1>4, <1>5, <1>6 DEF QuietStep

LEMMA FileStepAside ==
  ASSUME Typed, NEW r \in Request, FileStep(r)
  PROVE  Aside(r)
BY DEF FileStep, Unlink, SaveFile, SaveFileFails, Cleanup, database, request, Goto, Reply,
       Typed, TypeOK, Aside, BeforeCommit

LEMMA ReaderStepAside ==
  ASSUME Typed, NEW r \in Request, ReaderStep(r)
  PROVE  Aside(r)
<1> USE DEF database, request, Goto, Reply, Finish, Typed, TypeOK, Aside, BeforeCommit
<1>1. r \in Readers /\ r \notin Mutators
  BY Disjoint DEF ReaderStep, Lookup, QueryList, QueryDocument, ReadFile, StoreResponse,
     Place, Readers
<1>2. CASE Lookup(r)
  BY <1>1, <1>2 DEF Lookup
<1>3. CASE QueryList(r)
  BY <1>1, <1>3 DEF QueryList
<1>4. CASE QueryDocument(r)
  BY <1>1, <1>4 DEF QueryDocument
<1>5. CASE ReadFile(r)
  BY <1>1, <1>5 DEF ReadFile
<1>6. CASE StoreResponse(r)
  BY <1>1, <1>6 DEF StoreResponse
<1> QED
  BY <1>2, <1>3, <1>4, <1>5, <1>6 DEF ReaderStep

LEMMA ResetAside ==
  ASSUME Typed, NEW r \in Request, Reset(r)
  PROVE  Aside(r)
BY DEF Reset, database, request, Goto, Typed, TypeOK, Aside, BeforeCommit

LEMMA LogoutAside ==
  ASSUME Typed, NEW r \in Request, Logout(r)
  PROVE  Aside(r)
BY Disjoint DEF Logout, request, Goto, Reply, Finish, Typed, TypeOK, Place, Aside, BeforeCommit

(***************************************************************************)
(* The steps that change the documents.                                    *)
(***************************************************************************)
InsertsRow(r) ==
  /\ r \in Uploads /\ pc[r] = "insert" /\ pc'[r] = "commit"
  /\ row' = [row EXCEPT ![r] = RowOf(Viewer(r), target[r])]
  /\ commitStarted' = commitStarted \cup {r}
  /\ UNCHANGED <<docs, applied, inDoubt, reply>>

AddsDocument(r) ==
  /\ r \in Uploads /\ pc[r] = "commit" /\ pc'[r] = "cleanup"
  /\ docs' = docs \cup {r} /\ applied' = applied \cup {r}
  /\ UNCHANGED <<row, commitStarted, inDoubt>>

RemovesDocument(r) ==
  /\ r \in Deletes /\ pc[r] = "delete" /\ pc'[r] \in {"unlink", "reset"} /\ CanDelete(r)
  /\ docs' = docs \ {target[r]} /\ applied' = applied \cup {r}
  /\ reply'[r] \in {200, 500}
  /\ UNCHANGED <<row, commitStarted, inDoubt>>

GivesUp(r) ==
  /\ \/ r \in Uploads /\ pc[r] = "commit" /\ pc'[r] = "cleanup"
     \/ r \in Deletes /\ pc[r] = "delete" /\ pc'[r] = "reset"
  /\ reply'[r] = 500
  /\ inDoubt' \in {inDoubt, inDoubt \cup {r}}
  /\ UNCHANGED <<docs, row, applied, commitStarted>>

Change(r) ==
  /\ UNCHANGED <<token, target, acked, held>>
  /\ \A q \in Request \ {r} : pc'[q] = pc[q] /\ reply'[q] = reply[q]
  /\ InsertsRow(r) \/ AddsDocument(r) \/ RemovesDocument(r) \/ GivesUp(r)

\* A deletion that finds no row of its own goes on to ask why.
AsksWhy(r) == pc[r] = "delete" /\ ~CanDelete(r) /\ pc'[r] = "why"

LEMMA WriterStepChanges ==
  ASSUME Typed, NEW r \in Request, WriterStep(r), ~Reset(r)
  PROVE  Change(r) \/ (Aside(r) /\ AsksWhy(r))
<1> USE DEF database, request, Goto, Reply, Typed, TypeOK, Place
<1>1. CASE DeleteRow(r)
  <2>1. CASE CanDelete(r)
    BY <1>1, <2>1 DEF DeleteRow, RemoveRow, Change, RemovesDocument
  <2>2. CASE ~CanDelete(r)
    BY <1>1, <2>2 DEF DeleteRow, Aside, AsksWhy, BeforeCommit
  <2> QED
    BY <2>1, <2>2
<1>2. CASE DeleteRowFails(r)
  BY <1>2 DEF DeleteRowFails, RemoveRow, Change, RemovesDocument, GivesUp
<1>3. CASE Insert(r)
  BY <1>3 DEF Insert, Change, InsertsRow
<1>4. CASE Commit(r)
  BY <1>4 DEF Commit, AddRow, Change, AddsDocument
<1>5. CASE CommitFails(r)
  BY <1>5 DEF CommitFails, AddRow, Change, AddsDocument, GivesUp
<1> QED
  BY <1>1, <1>2, <1>3, <1>4, <1>5 DEF WriterStep

LEMMA ChangeLife ==
  ASSUME LInv, NEW r \in Request, Change(r)
  PROVE  Life'
<1> USE DEF LInv, Life, Change, Typed, TypeOK
<1>1. CASE InsertsRow(r)
  <2>1. r \notin applied /\ r \notin inDoubt /\ r \notin KnownDocs
    BY <1>1, Disjoint DEF InsertsRow, Known, Doubtful, KnownDocs, BeforeCommit
  <2>2. Known' /\ Doubtful' /\ Gone' /\ Present'
    BY <1>1, <2>1, Requests
       DEF InsertsRow, Known, KnownDocs, Doubtful, Gone, Present, Deleted, Mutators,
           BeforeCommit
  <2>3. Inserted'
    BY <1>1, <2>1, Requests DEF InsertsRow, Inserted, Viewer, BeforeCommit
  <2>4. Told'
    BY <1>1, Requests DEF InsertsRow, Told
  <2> QED
    BY <2>2, <2>3, <2>4
<1>2. CASE AddsDocument(r)
  <2>1. r \notin applied /\ r \notin inDoubt
    BY <1>2 DEF AddsDocument, Known, Doubtful, BeforeCommit
  <2>2. Known' /\ Doubtful'
    BY <1>2, <2>1, Requests DEF AddsDocument, Known, KnownDocs, Doubtful, Mutators, BeforeCommit
  <2>3. Gone' /\ Present'
    BY <1>2, <2>1, Disjoint, Requests
       DEF AddsDocument, Gone, Present, Deleted, KnownDocs, Mutators
  <2>4. Inserted' /\ Told'
    BY <1>2, <2>1, Requests DEF AddsDocument, Inserted, Viewer, BeforeCommit, Told
  <2> QED
    BY <2>2, <2>3, <2>4
<1>3. CASE RemovesDocument(r)
  <2>1. target[r] \in KnownDocs
    BY <1>3 DEF RemovesDocument, CanDelete, Known
  <2>2. Known' /\ Doubtful'
    BY <1>3, Disjoint, Requests
       DEF RemovesDocument, Known, KnownDocs, Doubtful, Mutators, BeforeCommit
  <2>3. Gone'
    BY <1>3, <2>1, Requests DEF RemovesDocument, Gone, KnownDocs, Mutators
  <2>4. Present'
    BY <1>3, Disjoint, Requests DEF RemovesDocument, Present, Deleted, Mutators
  <2>5. Inserted' /\ Told'
    BY <1>3, Disjoint, Requests DEF RemovesDocument, Inserted, Viewer, BeforeCommit, Told
  <2> QED
    BY <2>2, <2>3, <2>4, <2>5
<1>4. CASE GivesUp(r)
  <2>1. r \in Uploads => r \notin applied
    BY <1>4, Disjoint DEF GivesUp, Known, BeforeCommit
  <2>2. Known' /\ Doubtful'
    BY <1>4, <2>1, Disjoint, Requests
       DEF GivesUp, Known, KnownDocs, Doubtful, Mutators, BeforeCommit
  <2>3. Gone' /\ Present'
    BY <1>4, Requests DEF GivesUp, Gone, KnownDocs, Present, Deleted, Mutators
  <2>4. Inserted' /\ Told'
    BY <1>4, Disjoint, Requests DEF GivesUp, Inserted, Viewer, BeforeCommit, Told
  <2> QED
    BY <2>2, <2>3, <2>4
<1> QED
  BY <1>1, <1>2, <1>3, <1>4

LEMMA LandLife ==
  ASSUME LInv, NEW r \in Request, Land(r)
  PROVE  Life'
<1> USE DEF LInv, Life, Land, request, Typed, TypeOK
<1>1. r \in Mutators /\ pc[r] \in {"cleanup", "reset", "done"}
  BY DEF Doubtful
<1>2. CASE UNCHANGED <<docs, applied>>
  BY <1>2, Requests
     DEF Known, KnownDocs, Inserted, Viewer, Doubtful, Gone, Present, Deleted, Mutators, Told
<1>3. CASE r \in Uploads /\ docs' = docs \cup {r} /\ applied' = applied \cup {r}
  <2>1. r \notin applied
    BY <1>3 DEF Doubtful
  <2>2. Known' /\ Doubtful' /\ Inserted' /\ Told'
    BY <1>1, <1>3, <2>1, Requests
       DEF Known, KnownDocs, Doubtful, Inserted, Viewer, Told, BeforeCommit
  <2>3. Gone' /\ Present'
    BY <1>3, <2>1, Disjoint, Requests DEF Gone, Present, Deleted, KnownDocs, Mutators
  <2> QED
    BY <2>2, <2>3
<1>4. CASE /\ r \in Deletes /\ CanDelete(r)
           /\ docs' = docs \ {target[r]} /\ applied' = applied \cup {r}
  <2>1. target[r] \in KnownDocs
    BY <1>4 DEF CanDelete, Known
  <2>2. Known' /\ Doubtful' /\ Inserted' /\ Told'
    BY <1>1, <1>4, Disjoint, Requests
       DEF Known, KnownDocs, Doubtful, Inserted, Viewer, Told, BeforeCommit
  <2>3. Gone' /\ Present'
    BY <1>1, <1>4, <2>1, Disjoint, Requests DEF Gone, Present, Deleted, KnownDocs, Mutators
  <2> QED
    BY <2>2, <2>3
<1> QED
  BY <1>2, <1>3, <1>4

LEMMA RestartLife ==
  ASSUME LInv, Restart
  PROVE  Life'
<1> USE DEF LInv, Life, Restart, database, request, Typed, TypeOK
<1>1. /\ UNCHANGED <<docs, row, applied, inDoubt, commitStarted, token, target>>
      /\ \A r \in Request : pc'[r] = pc[r] \/ (pc'[r] = "done" /\ pc[r] # "new")
      /\ \A r \in Request : pc'[r] \in {"new", "done"}
      /\ \A r \in Request : reply'[r] = reply[r] \/ reply'[r] = 0
  BY DEF InFlight
<1>2. Known' /\ Doubtful'
  BY <1>1, Requests DEF Known, KnownDocs, Doubtful, BeforeCommit, Mutators
<1>3. Inserted'
  BY <1>1, Requests DEF Inserted, Viewer, BeforeCommit
<1>4. Gone' /\ Present'
  BY <1>1, Requests DEF Gone, Present, Deleted, KnownDocs
<1>5. Told'
  BY <1>1, Requests DEF Told
<1> QED
  BY <1>2, <1>3, <1>4, <1>5

(***************************************************************************)
(* The steps by what they do to the documents.                             *)
(***************************************************************************)
LEMMA Kinds ==
  ASSUME Typed, [Next]_vars
  PROVE  \/ \E r \in Request : Arrive(r)
         \/ \E r \in Request : Aside(r)
         \/ \E r \in Request : Change(r)
         \/ \E r \in Request : Land(r)
         \/ \E t \in Token : Expire(t)
         \/ Restart
         \/ UNCHANGED vars
BY Steps, QuietStepAside, FileStepAside, ReaderStepAside, ResetAside, LogoutAside,
   WriterStepChanges

\* The life of a document: its id is known only after its commit, and once
\* deleted it does not come back (service/documents.go:134-214, 371-420).
THEOREM LifeInvariance == Spec => []LInv
<1>1. LInv /\ [Next]_vars => Life'
  <2> SUFFICES ASSUME LInv, [Next]_vars PROVE Life'
    OBVIOUS
  <2>1. ASSUME NEW t \in Token, Expire(t) PROVE Life'
    BY <2>1 DEF Expire, request, LInv, Life, Known, KnownDocs, Inserted, Viewer, Doubtful,
       Gone, Present, Deleted, Told
  <2>2. CASE UNCHANGED vars
    BY <2>2 DEF vars, database, request, LInv, Life, Known, KnownDocs, Inserted, Viewer,
       Doubtful, Gone, Present, Deleted, Told
  <2> QED
    BY <2>1, <2>2, Kinds, ArriveLife, AsideLife, ChangeLife, LandLife, RestartLife DEF LInv
<1>2. Typed /\ [Next]_vars => Typed'
  BY Steps, ArriveTyped, QuietStepTyped, FileStepTyped, ReaderStepTyped, WriterStepTyped,
     OtherTyped
<1>3. LInv /\ [Next]_vars => LInv'
  BY <1>1, <1>2 DEF LInv
<1>4. Init => LInv
  BY InitTyped, InitLife DEF LInv
<1> QED
  BY <1>3, <1>4, PTL DEF Spec

(***************************************************************************)
(* What a step never does: change the row of a known document or bring it  *)
(* back, alter the arguments of a request, or a request that is done.      *)
(***************************************************************************)
Onward ==
  /\ KnownDocs \subseteq KnownDocs'
  /\ applied \subseteq applied'
  /\ \A d \in KnownDocs : row'[d] = row[d] /\ (d \in docs' => d \in docs)
  /\ \A q \in Request : pc[q] # "new" =>
        pc'[q] # "new" /\ token'[q] = token[q] /\ target'[q] = target[q] /\ acked'[q] = acked[q]
  /\ \A q \in Request : pc[q] = "done" =>
        pc'[q] = "done" /\ reply'[q] = reply[q] /\ held'[q] = held[q]

LEMMA StepsOnward ==
  ASSUME LInv, [Next]_vars
  PROVE  Onward
<1> USE DEF Onward, KnownDocs
<1>1. ASSUME NEW r \in Request, Arrive(r) PROVE Onward
  BY <1>1 DEF Arrive, database, Goto, LInv, Typed, TypeOK
<1>2. ASSUME NEW r \in Request, Aside(r) PROVE Onward
  BY <1>2 DEF Aside
<1>3. ASSUME NEW r \in Request, Change(r) PROVE Onward
  <2>1. CASE InsertsRow(r)
    <3>1. r \notin KnownDocs
      BY <2>1, Disjoint DEF InsertsRow, LInv, Life, Known, BeforeCommit
    <3>2. \A d \in KnownDocs : row'[d] = row[d]
      BY <2>1, <3>1, Values DEF InsertsRow, LInv, Typed, TypeOK
    <3> QED
      BY <1>3, <2>1, <3>2 DEF Change, InsertsRow
  <2>2. CASE AddsDocument(r)
    <3>1. r \notin KnownDocs
      BY <2>2, Disjoint DEF AddsDocument, LInv, Life, Known, BeforeCommit
    <3> QED
      BY <1>3, <2>2, <3>1 DEF Change, AddsDocument
  <2>3. CASE RemovesDocument(r)
    BY <1>3, <2>3 DEF Change, RemovesDocument
  <2>4. CASE GivesUp(r)
    BY <1>3, <2>4 DEF Change, GivesUp
  <2> QED
    BY <1>3, <2>1, <2>2, <2>3, <2>4 DEF Change
<1>4. ASSUME NEW r \in Request, Land(r) PROVE Onward
  <2>1. r \in Uploads => r \notin KnownDocs
    BY <1>4, Disjoint DEF Land, LInv, Life, Doubtful
  <2> QED
    BY <1>4, <2>1 DEF Land, request
<1>5. ASSUME NEW t \in Token, Expire(t) PROVE Onward
  BY <1>5 DEF Expire, request
<1>6. CASE Restart
  BY <1>6 DEF Restart, InFlight, database, request
<1>7. CASE UNCHANGED vars
  BY <1>7 DEF vars, database, request
<1> QED
  BY <1>1, <1>2, <1>3, <1>4, <1>5, <1>6, <1>7, Kinds DEF LInv

-----------------------------------------------------------------------------
(***************************************************************************)
(* Rows and files.  The file of an upload is on disk from the moment it    *)
(* was saved until the upload has failed before its commit, or the         *)
(* document is deleted.                                                    *)
(***************************************************************************)
Saving(r) == pc[r] \in {"begin", "insert", "commit"} \/ r \in inDoubt

Saved == \A r \in Uploads : Saving(r) /\ target[r].file => r \in files

FilesInv == FilesBackDocuments /\ Saved

LEMMA RowFields ==
  ASSUME NEW user, NEW form
  PROVE  /\ RowOf(user, form).owner = user
         /\ RowOf(user, form).public = form.public
         /\ RowOf(user, form).grants = form.grants
         /\ RowOf(user, form).file = form.file
BY DEF RowOf

\* A step that removes no file and brings no document and no upload forward.
LEMMA FilesStay ==
  ASSUME FilesInv, files \subseteq files', docs' \subseteq docs,
         \A d \in docs : row'[d] = row[d],
         \A q \in Uploads :
           Saving(q)' => /\ target'[q] = target[q]
                         /\ Saving(q) \/ ~target[q].file \/ q \in files'
  PROVE  FilesInv'
BY DEF FilesInv, FilesBackDocuments, Saved

LEMMA AsideFiles ==
  ASSUME LInv, FilesInv, NEW r \in Request, Aside(r), files \subseteq files',
         r \in Uploads /\ pc'[r] \in {"begin", "insert"} =>
           pc[r] \in {"begin", "insert"} \/ ~target[r].file \/ r \in files'
  PROVE  FilesInv'
<1>1. ASSUME NEW q \in Uploads, Saving(q)'
      PROVE  /\ target'[q] = target[q]
             /\ Saving(q) \/ ~target[q].file \/ q \in files'
  <2>1. pc[q] # "new"
    BY <1>1, Requests DEF Saving, Aside, BeforeCommit, LInv, Life, Doubtful, Typed, Place
  <2>2. CASE q \in inDoubt
    BY <2>1, <2>2, Requests DEF Saving, Aside
  <2>3. CASE q \notin inDoubt
    BY <1>1, <2>1, <2>3, Requests DEF Saving, Aside
  <2> QED
    BY <2>2, <2>3
<1> QED
  BY <1>1, FilesStay DEF Aside

LEMMA FileStepFiles ==
  ASSUME LInv, FilesInv, NEW r \in Request, FileStep(r)
  PROVE  FilesInv'
<1> USE DEF database, request, Goto, Reply
<1>1. CASE Unlink(r)
  <2>1. r \in Deletes /\ target[r] \in KnownDocs \ docs
    BY <1>1, Requests DEF Unlink, LInv, Typed, Place, Life, Told, Gone, Mutators
  <2>2. ASSUME NEW q \in Uploads, Saving(q) PROVE q # target[r]
    BY <2>1, <2>2, Disjoint
       DEF Saving, LInv, Life, Known, Doubtful, KnownDocs, BeforeCommit
  <2>3. files \ {target[r]} \subseteq files'
    BY <1>1 DEF Unlink
  <2>4. UNCHANGED <<docs, row, target, inDoubt>>
    BY <1>1 DEF Unlink
  <2>5. ASSUME NEW q \in Uploads PROVE pc'[q] = pc[q]
    BY <1>1, <2>1, Disjoint, Requests DEF Unlink, LInv, Typed, TypeOK
  <2> QED
    BY <2>1, <2>2, <2>3, <2>4, <2>5 DEF FilesInv, FilesBackDocuments, Saved, Saving
<1>2. CASE SaveFile(r) \/ SaveFileFails(r)
  <2>1. Aside(r)
    BY <1>2, FileStepAside DEF FileStep, LInv
  <2> QED
    BY <1>2, <2>1, AsideFiles DEF SaveFile, SaveFileFails, LInv, Typed, TypeOK
<1>3. CASE Cleanup(r)
  <2>1. r \in Uploads /\ UNCHANGED <<docs, row, target, inDoubt>>
    BY <1>3 DEF Cleanup, LInv, Typed, Place
  <2>2. r \notin commitStarted => r \notin docs /\ r \notin inDoubt
    BY <2>1, Disjoint DEF LInv, Life, Inserted, Known, KnownDocs
  <2>3. r \in commitStarted => files' = files
    BY <1>3 DEF Cleanup
  <2>4. files \ {r} \subseteq files'
    BY <1>3 DEF Cleanup
  <2>5. pc' = [pc EXCEPT ![r] = "reset"]
    BY <1>3 DEF Cleanup
  <2> QED
    BY <2>1, <2>2, <2>3, <2>4, <2>5, Requests
       DEF FilesInv, FilesBackDocuments, Saved, Saving, LInv, Typed, TypeOK
<1> QED
  BY <1>1, <1>2, <1>3 DEF FileStep

LEMMA QuietStepFiles ==
  ASSUME LInv, FilesInv, NEW r \in Request, QuietStep(r)
  PROVE  FilesInv'
<1> USE DEF database, request, Goto, Reply, Finish
<1>1. Aside(r) /\ files' = files
  BY QuietStepAside
     DEF LInv, QuietStep, Reject, Authenticate, StatementFails, LookupReason, AcceptForm,
         OpenFails, RefuseUpload, FindGrantees, Begin, Rollback
<1>2. pc'[r] \in {"begin", "insert"} => pc[r] \in {"begin", "insert"} \/ ~target[r].file
  <2>1. CASE Reject(r) \/ OpenFails(r) \/ LookupReason(r) \/ AcceptForm(r) \/ RefuseUpload(r)
    BY <2>1 DEF Reject, OpenFails, LookupReason, AcceptForm, RefuseUpload, LInv, Typed, TypeOK
  <2>2. CASE Authenticate(r)
    <3>1. r \notin Logouts
      BY <2>2 DEF Authenticate, LInv, Typed, Place
    <3>2. AfterAuth(r) \in {"form", "lookup", "delete"}
      BY <3>1 DEF AfterAuth, Request, Readers
    <3> QED
      BY <2>2, <3>2 DEF Authenticate, LInv, Typed, TypeOK
  <2>3. CASE StatementFails(r)
    <3>1. AfterFailure(pc[r]) \in {"rollback", "cleanup", "reset", "done"}
      BY <2>3 DEF StatementFails, AfterFailure
    <3> QED
      BY <2>3, <3>1 DEF StatementFails, LInv, Typed, TypeOK
  <2>4. CASE FindGrantees(r) \/ Begin(r) \/ Rollback(r)
    BY <2>4 DEF FindGrantees, Begin, Rollback, LInv, Typed, TypeOK
  <2> QED
    BY <2>1, <2>2, <2>3, <2>4 DEF QuietStep
<1> QED
  BY <1>1, <1>2, AsideFiles

LEMMA WriterStepFiles ==
  ASSUME LInv, FilesInv, NEW r \in Request, WriterStep(r)
  PROVE  FilesInv'
<1>1. files' = files
  BY DEF WriterStep, DeleteRow, DeleteRowFails, Insert, Commit, CommitFails, Reset
<1>2. CASE Reset(r)
  <2>1. Aside(r)
    BY <1>2, ResetAside DEF LInv
  <2>2. pc'[r] = "done"
    BY <1>2 DEF Reset, Goto, LInv, Typed, TypeOK
  <2> QED
    BY <1>1, <2>1, <2>2, AsideFiles
<1>3. CASE Aside(r) /\ AsksWhy(r)
  BY <1>1, <1>3, AsideFiles DEF AsksWhy
<1>4. CASE Change(r)
  <2> USE DEF Change
  <2>1. CASE InsertsRow(r)
    <3>1. r \notin docs
      BY <2>1, Disjoint DEF InsertsRow, LInv, Life, Known, KnownDocs, BeforeCommit
    <3>2. \A d \in docs : row'[d] = row[d]
      BY <2>1, <3>1 DEF InsertsRow, LInv, Typed, TypeOK
    <3> QED
      BY <1>1, <1>4, <2>1, <3>2, FilesStay, Requests DEF InsertsRow, Saving
  <2>2. CASE AddsDocument(r)
    <3>1. row[r].file = target[r].file
      BY <2>2, RowFields DEF AddsDocument, LInv, Life, Inserted
    <3>2. r \in Uploads /\ Saving(r) /\ docs' = docs \cup {r}
      BY <2>2 DEF AddsDocument, Saving
    <3>3. UNCHANGED <<row, target, inDoubt>>
      BY <1>4, <2>2 DEF AddsDocument
    <3>4. \A q \in Uploads : Saving(q)' => Saving(q)
      BY <1>4, <2>2, Requests DEF AddsDocument, Saving
    <3> QED
      BY <1>1, <3>1, <3>2, <3>3, <3>4 DEF FilesInv, FilesBackDocuments, Saved
  <2>3. CASE RemovesDocument(r)
    BY <1>1, <1>4, <2>3, Disjoint, Requests, FilesStay DEF RemovesDocument, Saving
  <2>4. CASE GivesUp(r)
    BY <1>1, <1>4, <2>4, Disjoint, Requests, FilesStay DEF GivesUp, Saving
  <2> QED
    BY <1>4, <2>1, <2>2, <2>3, <2>4
<1> QED
  BY <1>2, <1>3, <1>4, WriterStepChanges DEF LInv

LEMMA OtherFiles ==
  ASSUME LInv, FilesInv,
         \/ \E r \in Request : Arrive(r) \/ ReaderStep(r) \/ Logout(r) \/ Land(r)
         \/ \E t \in Token : Expire(t)
         \/ Restart
         \/ UNCHANGED vars
  PROVE  FilesInv'
<1> USE DEF database, request, Goto, Reply, Finish
<1>1. ASSUME NEW r \in Request, Arrive(r) PROVE FilesInv'
  <2>1. \A q \in Uploads : Saving(q)' => Saving(q) /\ target'[q] = target[q]
    BY <1>1, Requests DEF Arrive, Saving, LInv, Typed, TypeOK, Life, Doubtful
  <2> QED
    BY <1>1, <2>1, FilesStay DEF Arrive
<1>2. ASSUME NEW r \in Request, ReaderStep(r) PROVE FilesInv'
  <2>1. Aside(r) /\ files' = files
    BY <1>2, ReaderStepAside
       DEF LInv, ReaderStep, Lookup, QueryList, QueryDocument, ReadFile, StoreResponse
  <2>2. r \notin Uploads
    BY <1>2, Disjoint DEF ReaderStep, Lookup, QueryList, QueryDocument, ReadFile,
       StoreResponse, Readers, Mutators, LInv, Typed, Place
  <2> QED
    BY <2>1, <2>2, AsideFiles
<1>3. ASSUME NEW r \in Request, Logout(r) PROVE FilesInv'
  <2>1. Aside(r) /\ files' = files /\ r \notin Uploads
    BY <1>3, LogoutAside, Disjoint DEF Logout, LInv, Typed, Place, Mutators
  <2> QED
    BY <2>1, AsideFiles
<1>4. ASSUME NEW r \in Request, Land(r) PROVE FilesInv'
  <2>1. \A q \in Uploads : Saving(q)' => Saving(q) /\ target'[q] = target[q]
    BY <1>4 DEF Land, Saving
  <2>2. CASE docs' \subseteq docs
    BY <1>4, <2>1, <2>2, FilesStay DEF Land
  <2>3. CASE r \in Uploads /\ docs' = docs \cup {r}
    <3>1. row[r].file = target[r].file /\ Saving(r)
      BY <1>4, <2>3, RowFields DEF Land, Saving, LInv, Life, Inserted
    <3> QED
      BY <1>4, <2>1, <2>3, <3>1 DEF Land, FilesInv, FilesBackDocuments, Saved
  <2> QED
    BY <1>4, <2>2, <2>3 DEF Land
<1>5. ASSUME NEW t \in Token, Expire(t) PROVE FilesInv'
  BY <1>5, FilesStay DEF Expire, Saving
<1>6. CASE Restart
  <2>1. \A q \in Uploads : Saving(q)' => Saving(q)
    BY <1>6, Requests DEF Restart, InFlight, Saving
  <2> QED
    BY <1>6, <2>1, FilesStay DEF Restart
<1>7. CASE UNCHANGED vars
  BY <1>7, FilesStay DEF vars, Saving
<1> QED
  BY <1>1, <1>2, <1>3, <1>4, <1>5, <1>6, <1>7

\* A committed or doubtful file document has its file, at every step of the
\* uploads and deletions (service/documents.go:134-214, 381-427).
THEOREM FilesInvariance == Spec => []FilesInv
<1>1. Init => FilesInv
  BY Requests DEF Init, FilesInv, FilesBackDocuments, Saved, Saving
<1>2. LInv /\ FilesInv /\ [Next]_vars => FilesInv'
  BY Steps, FileStepFiles, QuietStepFiles, WriterStepFiles, OtherFiles
<1> QED
  BY <1>1, <1>2, LifeInvariance, PTL DEF Spec

(***************************************************************************)
(* A committed file document has its file, whatever fails, and also when   *)
(* the outcome of its commit or of its deletion is unknown.                *)
(***************************************************************************)
THEOREM DocumentsHaveFiles == Spec => []FilesBackDocuments
BY FilesInvariance, PTL DEF FilesInv

-----------------------------------------------------------------------------
(***************************************************************************)
(* Responses.  A response that is cached, or that Set would still accept,  *)
(* shows only what its user may read, and agrees with every change that    *)
(* was confirmed.  What a request is answered agrees with every change     *)
(* confirmed before it was sent.                                           *)
(***************************************************************************)
Confirmed == {m \in Mutators : pc[m] = "done" /\ reply[m] = 200}

Entitled(key, d) == row[d].owner = OwnerAsked(key.user, key.query) /\ CanRead(key.user, d)

Allowed(key, body) ==
  /\ body \subseteq KnownDocs
  /\ \A d \in body : CanRead(key.user, d)
  /\ key.doc # NoDoc => body \subseteq {key.doc}

Agrees(key, body, m) ==
  /\ m \in Deletes => target[m] \notin body
  /\ m \in Uploads /\ key.doc = NoDoc /\ Entitled(key, m) => m \in body \/ Deleted(m)

KeptOK ==
  \A key \in Key, body \in Body :
    Kept(key, body) => Allowed(key, body) /\ \A m \in Confirmed : Agrees(key, body, m)

Has(r) == pc[r] \in {"read", "store"} \/ Answered(r, 200)

HeldOK ==
  \A r \in Readers :
    Has(r) => /\ Allowed(KeyOf(r), held[r])
              /\ \A m \in acked[r] \cap Mutators : Agrees(KeyOf(r), held[r], m)

AckedOK == \A r \in Request : acked[r] \cap Mutators \subseteq Confirmed

RInv == SeenOK /\ KeptOK /\ HeldOK /\ AckedOK

(***************************************************************************)
(* What was true of a response stays true, and what the database answers   *)
(* is allowed and agrees with the confirmed changes.                       *)
(***************************************************************************)
LEMMA StaysAllowed ==
  ASSUME Onward, NEW key, NEW body, Allowed(key, body)
  PROVE  Allowed(key, body)'
BY DEF Onward, Allowed, CanRead

LEMMA StaysAgreed ==
  ASSUME LInv, Onward, NEW key, NEW body, NEW m \in Confirmed, Agrees(key, body, m)
  PROVE  Agrees(key, body, m)'
<1>1. m \in Request /\ target'[m] = target[m]
  BY Requests DEF Confirmed, Onward
<1>2. m \in applied
  BY DEF LInv, Life, Told, Confirmed
<1>3. m \in Uploads => m \in KnownDocs
  BY <1>2 DEF KnownDocs
<1>4. m \in Uploads => (Entitled(key, m)' <=> Entitled(key, m))
  BY <1>3 DEF Onward, Entitled, CanRead
<1>5. ASSUME Deleted(m) PROVE Deleted(m)'
  <2>1. PICK x \in Deletes \cap applied : target[x] = m
    BY <1>5 DEF Deleted
  <2>2. x \in Request /\ pc[x] # "new"
    BY Requests DEF LInv, Life, Gone, Mutators
  <2> QED
    BY <2>1, <2>2 DEF Deleted, Onward
<1> QED
  BY <1>1, <1>4, <1>5 DEF Agrees

LEMMA ConfirmedStay ==
  ASSUME Onward
  PROVE  Confirmed \subseteq Confirmed'
BY Requests DEF Onward, Confirmed

LEMMA ListingIsCurrent ==
  ASSUME LInv, NEW r \in Lists, pc[r] # "new"
  PROVE  /\ Allowed(KeyOf(r), Listing(Viewer(r), target[r]))
         /\ \A m \in Confirmed : Agrees(KeyOf(r), Listing(Viewer(r), target[r]), m)
<1>1. KeyOf(r) = [user |-> Viewer(r), doc |-> NoDoc, query |-> target[r]]
  BY DEF KeyOf
<1>2. Allowed(KeyOf(r), Listing(Viewer(r), target[r]))
  BY <1>1 DEF Allowed, Listing, LInv, Life, Known
<1>3. ASSUME NEW m \in Confirmed PROVE Agrees(KeyOf(r), Listing(Viewer(r), target[r]), m)
  <2>1. m \in applied
    BY DEF LInv, Life, Told, Confirmed
  <2>2. m \in Deletes => target[m] \notin docs
    BY <2>1 DEF LInv, Life, Gone
  <2>3. m \in Uploads => m \in docs \/ Deleted(m)
    BY <2>1 DEF LInv, Life, Present
  <2> QED
    BY <1>1, <2>2, <2>3 DEF Agrees, Listing, Entitled
<1> QED
  BY <1>2, <1>3

LEMMA DocumentIsCurrent ==
  ASSUME LInv, NEW r \in Gets, pc[r] # "new", target[r] \in docs,
         CanRead(Viewer(r), target[r])
  PROVE  /\ Allowed(KeyOf(r), {target[r]})
         /\ \A m \in Confirmed : Agrees(KeyOf(r), {target[r]}, m)
<1>1. KeyOf(r) = [user |-> Viewer(r), doc |-> target[r], query |-> NoQuery]
  BY RequestAssumption DEF KeyOf
<1>2. target[r] # NoDoc /\ target[r] \in KnownDocs
  BY KeyAssumption DEF LInv, Life, Known, Typed, TypeOK
<1>3. \A m \in Confirmed \cap Deletes : target[m] \notin docs
  BY DEF LInv, Life, Told, Gone, Confirmed
<1> QED
  BY <1>1, <1>2, <1>3 DEF Allowed, Agrees

(***************************************************************************)
(* A step that confirms nothing, leaves the cache alone and gives no       *)
(* reader a response.                                                      *)
(***************************************************************************)
Bystander ==
  /\ UNCHANGED <<items, generation>>
  /\ Confirmed' \subseteq Confirmed
  /\ \A q \in Readers :
        /\ pc'[q] \in {"query", "read", "store"} => pc'[q] = pc[q] /\ seen'[q] = seen[q]
        /\ Has(q)' => Has(q) /\ pc'[q] = pc[q] /\ held'[q] = held[q]

LEMMA SameKey ==
  ASSUME Onward, NEW r \in Readers, pc[r] # "new"
  PROVE  KeyOf(r)' = KeyOf(r) /\ acked'[r] = acked[r]
BY Requests DEF Onward, KeyOf, Viewer

LEMMA HeldStays ==
  ASSUME LInv, RInv, Onward, NEW r \in Readers, Has(r), held'[r] = held[r], pc[r] # "new"
  PROVE  /\ Allowed(KeyOf(r), held[r])'
         /\ \A m \in acked'[r] \cap Mutators : Agrees(KeyOf(r), held[r], m)'
<1>1. KeyOf(r)' = KeyOf(r) /\ acked'[r] = acked[r]
  BY SameKey
<1>2. Allowed(KeyOf(r), held[r])
      /\ \A m \in acked[r] \cap Mutators : m \in Confirmed /\ Agrees(KeyOf(r), held[r], m)
  BY Requests DEF RInv, HeldOK, AckedOK
<1>3. Allowed(KeyOf(r), held[r])'
  BY <1>1, <1>2, StaysAllowed DEF Allowed
<1>4. \A m \in acked'[r] \cap Mutators : Agrees(KeyOf(r), held[r], m)'
  BY <1>1, <1>2, StaysAgreed DEF Agrees
<1> QED
  BY <1>3, <1>4

LEMMA AckedStay ==
  ASSUME LInv, AckedOK, [Next]_vars
  PROVE  AckedOK'
<1>1. Confirmed \subseteq Confirmed'
  BY StepsOnward, ConfirmedStay
<1>2. CASE UNCHANGED acked
  BY <1>1, <1>2 DEF AckedOK
<1>3. ASSUME NEW r \in Request, Arrive(r) PROVE AckedOK'
  <2>1. acked'[r] \cap Mutators \subseteq Confirmed
    BY <1>3, Disjoint DEF Arrive, LInv, Typed, TypeOK, Confirmed, Mutators
  <2>2. \A q \in Request \ {r} : acked'[q] = acked[q]
    BY <1>3 DEF Arrive, LInv, Typed, TypeOK
  <2> QED
    BY <1>1, <2>1, <2>2 DEF AckedOK
<1> QED
  BY <1>2, <1>3, Kinds DEF LInv, Aside, Change, Land, Expire, Restart, vars, request

LEMMA BystanderKept ==
  ASSUME LInv, RInv, Onward, Bystander
  PROVE  SeenOK' /\ KeptOK' /\ HeldOK'
<1>1. SeenOK'
  BY DEF RInv, SeenOK, Bystander
<1>2. KeptOK'
  <2> SUFFICES ASSUME NEW key \in Key, NEW body \in Body, Kept(key, body)'
               PROVE  Allowed(key, body)' /\ \A m \in Confirmed' : Agrees(key, body, m)'
    BY DEF KeptOK
  <2>1. Kept(key, body)
    <3>1. CASE \E r \in Readers :
                 /\ pc'[r] \in {"read", "store"} /\ seen'[r] = generation'
                 /\ KeyOf(r)' = key /\ held'[r] = body
      <4>1. PICK r \in Readers :
                 /\ pc'[r] \in {"read", "store"} /\ seen'[r] = generation'
                 /\ KeyOf(r)' = key /\ held'[r] = body
        BY <3>1
      <4>2. pc'[r] = pc[r] /\ seen'[r] = seen[r] /\ held'[r] = held[r]
        BY <4>1 DEF Bystander, Has
      <4>3. KeyOf(r)' = KeyOf(r)
        BY <4>1, <4>2, SameKey
      <4> QED
        BY <4>1, <4>2, <4>3 DEF Kept, Bystander
    <3> QED
      BY <3>1 DEF Kept, Bystander
  <2>2. Allowed(key, body) /\ \A m \in Confirmed : Agrees(key, body, m)
    BY <2>1 DEF RInv, KeptOK
  <2> QED
    BY <2>2, StaysAllowed, StaysAgreed DEF Bystander
<1>3. HeldOK'
  <2> SUFFICES ASSUME NEW r \in Readers, Has(r)'
               PROVE  /\ Allowed(KeyOf(r), held[r])'
                      /\ \A m \in acked'[r] \cap Mutators : Agrees(KeyOf(r), held[r], m)'
    BY DEF HeldOK
  <2>1. Has(r) /\ held'[r] = held[r] /\ pc[r] # "new"
    BY DEF Bystander, Has, Answered
  <2> QED
    BY <2>1, HeldStays
<1> QED
  BY <1>1, <1>2, <1>3

LEMMA ArriveBystander ==
  ASSUME LInv, NEW r \in Request, Arrive(r)
  PROVE  Bystander
BY Requests DEF Arrive, Goto, Bystander, Confirmed, Has, Answered, LInv, Typed, TypeOK

LEMMA QuietStepBystander ==
  ASSUME LInv, NEW r \in Request, QuietStep(r)
  PROVE  Bystander
<1>1. Aside(r) /\ UNCHANGED <<items, generation, seen>>
  BY QuietStepAside
     DEF LInv, QuietStep, Reject, Authenticate, StatementFails, LookupReason, AcceptForm,
         OpenFails, RefuseUpload, FindGrantees, Begin, Rollback
<1>2. /\ pc'[r] \notin {"query", "read", "store"}
      /\ pc'[r] = "done" => reply'[r] # 200
  <2> USE DEF request, Goto, Reply, Finish, LInv, Typed, TypeOK
  <2>1. CASE Reject(r) \/ OpenFails(r)
    BY <2>1 DEF Reject, OpenFails
  <2>2. CASE Authenticate(r)
    <3>1. r \notin Logouts
      BY <2>2 DEF Authenticate, Place
    <3>2. AfterAuth(r) \in {"form", "lookup", "delete"}
      BY <3>1 DEF AfterAuth, Request, Readers
    <3> QED
      BY <2>2, <3>2 DEF Authenticate
  <2>3. CASE StatementFails(r)
    <3>1. AfterFailure(pc[r]) \in {"rollback", "cleanup", "reset", "done"}
      BY <2>3 DEF StatementFails, AfterFailure
    <3> QED
      BY <2>3, <3>1 DEF StatementFails
  <2>4. CASE LookupReason(r) \/ RefuseUpload(r)
    BY <2>4 DEF LookupReason, RefuseUpload
  <2>5. CASE AcceptForm(r) \/ FindGrantees(r) \/ Begin(r) \/ Rollback(r)
    BY <2>5 DEF AcceptForm, FindGrantees, Begin, Rollback
  <2> QED
    BY <2>1, <2>2, <2>3, <2>4, <2>5 DEF QuietStep
<1> QED
  BY <1>1, <1>2, Requests DEF Aside, Bystander, Confirmed, Has, Answered

LEMMA FileStepBystander ==
  ASSUME LInv, NEW r \in Request, FileStep(r)
  PROVE  Bystander
<1>1. r \notin Readers
  BY Disjoint DEF FileStep, Unlink, SaveFile, SaveFileFails, Cleanup, LInv, Typed, Place,
     Mutators
<1>2. pc'[r] # "done" /\ Aside(r) /\ UNCHANGED <<items, generation, seen>>
  BY FileStepAside DEF FileStep, Unlink, SaveFile, SaveFileFails, Cleanup, Goto, LInv,
     Typed, TypeOK
<1> QED
  BY <1>1, <1>2, Requests DEF Aside, Bystander, Confirmed, Has, Answered

LEMMA WriterStepBystander ==
  ASSUME LInv, NEW r \in Request, WriterStep(r), ~Reset(r)
  PROVE  Bystander
<1>1. UNCHANGED <<items, generation, seen>>
  BY DEF WriterStep, DeleteRow, DeleteRowFails, Insert, Commit, CommitFails
<1>2. CASE Change(r)
  <2>1. r \in Mutators /\ r \notin Readers /\ pc'[r] # "done"
    BY <1>2, Disjoint DEF Change, InsertsRow, AddsDocument, RemovesDocument, GivesUp, Mutators
  <2> QED
    BY <1>1, <1>2, <2>1, Requests DEF Change, Bystander, Confirmed, Has, Answered
<1>3. CASE Aside(r) /\ AsksWhy(r)
  <2>1. r \in Mutators /\ r \notin Readers
    BY <1>3, Disjoint DEF AsksWhy, LInv, Typed, Place, Mutators
  <2> QED
    BY <1>1, <1>3, <2>1, Requests DEF Aside, AsksWhy, Bystander, Confirmed, Has, Answered
<1> QED
  BY <1>2, <1>3, WriterStepChanges DEF LInv

LEMMA OtherBystander ==
  ASSUME LInv,
         \/ \E r \in Request : Logout(r) \/ Land(r)
         \/ \E t \in Token : Expire(t)
         \/ UNCHANGED vars
  PROVE  Bystander
<1>1. ASSUME NEW r \in Request, Logout(r) PROVE Bystander
  <2>1. r \notin Mutators /\ r \notin Readers
    BY <1>1, Disjoint DEF Logout, LInv, Typed, Place
  <2> QED
    BY <1>1, <2>1, Requests
       DEF Logout, request, Goto, Reply, Finish, Bystander, Confirmed, Has, Answered, LInv,
           Typed, TypeOK
<1>2. ASSUME NEW r \in Request, Land(r) PROVE Bystander
  BY <1>2 DEF Land, Bystander, Confirmed, Has, Answered
<1>3. ASSUME NEW t \in Token, Expire(t) PROVE Bystander
  BY <1>3 DEF Expire, Bystander, Confirmed, Has, Answered
<1>4. CASE UNCHANGED vars
  BY <1>4 DEF vars, Bystander, Confirmed, Has, Answered
<1> QED
  BY <1>1, <1>2, <1>3, <1>4

LEMMA RestartResponses ==
  ASSUME LInv, RInv, Restart, Onward
  PROVE  SeenOK' /\ KeptOK' /\ HeldOK'
<1>1. \A q \in Request : pc'[q] \in {"new", "done"}
  BY DEF Restart, InFlight
<1>2. DOMAIN items' = {}
  BY EmptyCache DEF Restart
<1>3. SeenOK' /\ KeptOK'
  BY <1>1, <1>2, Requests DEF SeenOK, KeptOK, Kept
<1>4. ASSUME NEW r \in Readers, Has(r)'
      PROVE  /\ Allowed(KeyOf(r), held[r])'
             /\ \A m \in acked'[r] \cap Mutators : Agrees(KeyOf(r), held[r], m)'
  <2>1. Has(r) /\ held'[r] = held[r] /\ pc[r] # "new"
    BY <1>1, <1>4, Requests DEF Restart, InFlight, Has, Answered
  <2> QED
    BY <2>1, HeldStays
<1> QED
  BY <1>3, <1>4 DEF HeldOK

(***************************************************************************)
(* The reset confirms its change.  What survives it is the response of     *)
(* another document, which cannot disagree.                                *)
(***************************************************************************)
LEMMA ResetResponses ==
  ASSUME LInv, RInv, NEW r \in Request, Reset(r), Onward
  PROVE  SeenOK' /\ KeptOK' /\ HeldOK'
<1> USE DEF Reset, database, request, Goto
<1>1. /\ generation \in Nat /\ generation' = generation + 1
      /\ \A k \in DOMAIN items' :
           k \in DOMAIN items /\ items'[k] = items[k] /\ ~DroppedBy(ResetDoc(r), k)
  BY CacheInvalidateTyped DEF LInv, Typed, TypeOK
<1>2. r \in Mutators /\ r \notin Readers
  BY Disjoint DEF LInv, Typed, Place
<1>3. \A q \in Request : q # r => pc'[q] = pc[q]
  BY DEF LInv, Typed, TypeOK
<1>4. SeenOK'
  BY <1>1, <1>2, <1>3, Requests DEF RInv, SeenOK
<1>5. Confirmed' \subseteq Confirmed \cup {r}
  BY <1>3, Requests DEF Confirmed
<1>6. ASSUME NEW key \in Key, NEW body \in Body, Kept(key, body)'
      PROVE  Allowed(key, body)' /\ \A m \in Confirmed' : Agrees(key, body, m)'
  <2>1. ASSUME NEW q \in Readers, pc'[q] \in {"read", "store"} PROVE seen'[q] # generation'
    BY <1>1, <1>2, <1>3, <2>1, Requests DEF RInv, SeenOK
  <2>2. key \in DOMAIN items' /\ items'[key] = body
    BY <1>6, <2>1 DEF Kept
  <2>3. Kept(key, body) /\ ~DroppedBy(ResetDoc(r), key)
    BY <1>1, <2>2 DEF Kept
  <2>4. Allowed(key, body) /\ \A m \in Confirmed : Agrees(key, body, m)
    BY <2>3 DEF RInv, KeptOK
  <2>5. key.doc # NoDoc /\ (r \in Deletes => target[r] # key.doc)
    BY <2>3, <1>2, KeyAssumption, Disjoint
       DEF DroppedBy, ResetDoc, LInv, Typed, ArgumentsOK, KnownDocs
  <2>6. Agrees(key, body, r)'
    BY <2>4, <2>5, Disjoint DEF Allowed, Agrees
  <2> QED
    BY <1>5, <2>4, <2>6, StaysAllowed, StaysAgreed
<1>7. HeldOK'
  <2> SUFFICES ASSUME NEW q \in Readers, Has(q)'
               PROVE  /\ Allowed(KeyOf(q), held[q])'
                      /\ \A m \in acked'[q] \cap Mutators : Agrees(KeyOf(q), held[q], m)'
    BY DEF HeldOK
  <2>1. Has(q) /\ held'[q] = held[q] /\ pc[q] # "new"
    BY <1>2, <1>3, Requests DEF Has, Answered
  <2> QED
    BY <2>1, HeldStays
<1> QED
  BY <1>4, <1>6, <1>7 DEF KeptOK

(***************************************************************************)
(* A reader takes what is kept, or what is current.                        *)
(***************************************************************************)
LEMMA ReaderStepResponses ==
  ASSUME LInv, RInv, NEW r \in Request, ReaderStep(r), Onward
  PROVE  SeenOK' /\ KeptOK' /\ HeldOK'
<1> USE DEF database, request, Goto, Reply, Finish
<1>1. r \in Readers /\ pc[r] # "new" /\ r \notin Mutators
  BY Disjoint DEF ReaderStep, Lookup, QueryList, QueryDocument, ReadFile, StoreResponse,
     LInv, Typed, Place, Readers
<1>2. generation' = generation /\ generation \in Nat
  BY DEF ReaderStep, Lookup, QueryList, QueryDocument, ReadFile, StoreResponse, CacheSet,
     LInv, Typed, TypeOK
<1>3. UNCHANGED <<docs, row, applied, token, target, acked>>
  BY DEF ReaderStep, Lookup, QueryList, QueryDocument, ReadFile, StoreResponse
<1>4. \A q \in Request \ {r} : /\ pc'[q] = pc[q] /\ reply'[q] = reply[q]
                               /\ held'[q] = held[q] /\ seen'[q] = seen[q]
  BY DEF ReaderStep, Lookup, QueryList, QueryDocument, ReadFile, StoreResponse, LInv,
     Typed, TypeOK
<1>5. Confirmed' = Confirmed
  BY <1>1, <1>4, Requests DEF Confirmed
<1>6. \A q \in Readers : KeyOf(q)' = KeyOf(q)
  BY <1>3 DEF KeyOf, Viewer
<1>7. \A key, body : Allowed(key, body)' <=> Allowed(key, body)
  BY <1>3 DEF Allowed, KnownDocs, CanRead
<1>8. \A key, body, m : Agrees(key, body, m)' <=> Agrees(key, body, m)
  BY <1>3 DEF Agrees, Entitled, CanRead, Deleted
<1> DEFINE Fine(body) == /\ Allowed(KeyOf(r), body)
                         /\ \A m \in Confirmed : Agrees(KeyOf(r), body, m)
<1>9. acked[r] \cap Mutators \subseteq Confirmed
  BY <1>1, Requests DEF RInv, AckedOK
<1>10. CASE StoreResponse(r)
  <2>1. KeyOf(r) \in Key /\ held[r] \in Body
    BY <1>1, Values, Requests DEF LInv, Typed, TypeOK
  <2>2. \A k \in DOMAIN items' :
          \/ k \in DOMAIN items /\ items'[k] = items[k]
          \/ k = KeyOf(r) /\ items'[k] = held[r] /\ seen[r] = generation
    BY <1>10, <2>1, CacheSetTyped DEF StoreResponse, LInv, Typed, TypeOK
  <2>3. pc[r] = "store" /\ pc'[r] = "done" /\ UNCHANGED <<held, seen>>
    BY <1>10 DEF StoreResponse, LInv, Typed, TypeOK
  <2>4. \A key \in Key, body \in Body : Kept(key, body)' => Kept(key, body)
    BY <1>1, <1>2, <1>4, <1>6, <2>2, <2>3, Requests DEF Kept
  <2>5. KeptOK'
    BY <1>5, <1>7, <1>8, <2>4 DEF RInv, KeptOK
  <2>6. \A q \in Readers : Has(q)' => Has(q)
    BY <1>4, <2>3, Requests DEF Has, Answered
  <2>7. HeldOK'
    BY <1>3, <1>6, <1>7, <1>8, <2>3, <2>6 DEF RInv, HeldOK
  <2>8. SeenOK'
    BY <1>2, <1>4, <2>3, Requests DEF RInv, SeenOK
  <2> QED
    BY <2>5, <2>7, <2>8
<1>11. CASE ~StoreResponse(r)
  <2>1. items' = items
    BY <1>11 DEF ReaderStep, Lookup, QueryList, QueryDocument, ReadFile
  <2>2. Has(r)' => Fine(held'[r]) \/ (Has(r) /\ held'[r] = held[r])
    <3>1. CASE Lookup(r)
      <4>1. CASE KeyOf(r) \in DOMAIN items
        <5>1. KeyOf(r) \in Key /\ items[KeyOf(r)] \in Body
          BY <4>1 DEF LInv, Typed, TypeOK, IsCache
        <5>2. Fine(items[KeyOf(r)])
          BY <4>1, <5>1 DEF RInv, KeptOK, Kept
        <5>3. held'[r] = items[KeyOf(r)]
          BY <3>1, <4>1 DEF Lookup, LInv, Typed, TypeOK
        <5> QED
          BY <5>2, <5>3
      <4>2. CASE KeyOf(r) \notin DOMAIN items
        BY <3>1, <4>2 DEF Lookup, Has, Answered, LInv, Typed, TypeOK
      <4> QED
        BY <4>1, <4>2
    <3>2. CASE QueryList(r)
      <4>1. r \in Lists /\ held'[r] = Listing(Viewer(r), target[r])
        BY <3>2 DEF QueryList, LInv, Typed, TypeOK
      <4> QED
        BY <1>1, <4>1, ListingIsCurrent
    <3>3. CASE QueryDocument(r)
      <4>1. CASE target[r] \in docs /\ CanRead(Viewer(r), target[r])
        <5>1. r \in Gets /\ held'[r] = {target[r]}
          BY <3>3, <4>1 DEF QueryDocument, LInv, Typed, TypeOK
        <5> QED
          BY <1>1, <4>1, <5>1, DocumentIsCurrent
      <4>2. CASE ~(target[r] \in docs /\ CanRead(Viewer(r), target[r]))
        BY <3>3, <4>2 DEF QueryDocument, Has, Answered, LInv, Typed, TypeOK
      <4> QED
        BY <4>1, <4>2
    <3>4. CASE ReadFile(r)
      BY <3>4 DEF ReadFile, Has, Answered, LInv, Typed, TypeOK
    <3> QED
      BY <1>11, <3>1, <3>2, <3>3, <3>4 DEF ReaderStep
  <2>3. /\ pc'[r] \in {"read", "store"} => seen'[r] = seen[r] /\ pc[r] \in {"query", "read"}
        /\ pc'[r] = "query" => seen'[r] = generation
    BY <1>11 DEF ReaderStep, Lookup, QueryList, QueryDocument, ReadFile, LInv, Typed, TypeOK
  <2>4. SeenOK'
    BY <1>2, <1>4, <2>3, Requests DEF RInv, SeenOK
  <2>5. HeldOK'
    <3> SUFFICES ASSUME NEW q \in Readers, Has(q)'
                 PROVE  /\ Allowed(KeyOf(q), held[q])'
                        /\ \A m \in acked'[q] \cap Mutators : Agrees(KeyOf(q), held[q], m)'
      BY DEF HeldOK
    <3>1. CASE q = r /\ Fine(held'[r])
      <4>1. Allowed(KeyOf(q), held[q])'
        BY <1>3, <1>6, <3>1 DEF Allowed, KnownDocs, CanRead
      <4>2. \A m \in acked'[q] \cap Mutators : Agrees(KeyOf(q), held'[q], m)
        BY <1>3, <1>9, <3>1
      <4>3. \A m \in acked'[q] \cap Mutators : Agrees(KeyOf(q), held[q], m)'
        BY <1>6, <1>8, <4>2 DEF Agrees
      <4> QED
        BY <4>1, <4>3
    <3>2. CASE ~(q = r /\ Fine(held'[r]))
      <4>1. Has(q) /\ held'[q] = held[q] /\ pc[q] # "new"
        BY <1>1, <1>4, <2>2, <3>2, Requests DEF Has, Answered
      <4> QED
        BY <4>1, HeldStays
    <3> QED
      BY <3>1, <3>2
  <2>6. KeptOK'
    <3> SUFFICES ASSUME NEW key \in Key, NEW body \in Body, Kept(key, body)'
                 PROVE  Allowed(key, body) /\ \A m \in Confirmed : Agrees(key, body, m)
      BY <1>5, <1>7, <1>8 DEF KeptOK
    <3>1. CASE Kept(key, body)
      BY <3>1 DEF RInv, KeptOK
    <3>2. CASE ~Kept(key, body)
      <4>1. /\ pc'[r] \in {"read", "store"} /\ seen'[r] = generation
            /\ key = KeyOf(r) /\ body = held'[r]
        BY <1>2, <1>4, <1>6, <2>1, <3>2, Requests DEF Kept
      <4>2. ~(Has(r) /\ held'[r] = held[r])
        <5>1. CASE pc[r] \in {"read", "store"}
          BY <1>1, <2>3, <3>2, <4>1, <5>1 DEF Kept
        <5>2. CASE pc[r] \notin {"read", "store"}
          BY <1>1, <2>3, <4>1, <5>2 DEF Has, Answered
        <5> QED
          BY <5>1, <5>2
      <4> QED
        BY <2>2, <4>1, <4>2 DEF Has
    <3> QED
      BY <3>1, <3>2
  <2> QED
    BY <2>4, <2>5, <2>6
<1> QED
  BY <1>10, <1>11

\* What is cached, held or shown respects the access rights and the changes
\* that were confirmed before (cache.go:51-102, handlers/documents.go).
THEOREM ResponseInvariance == Spec => []RInv
<1>1. Init => RInv
  <2> SUFFICES ASSUME Init PROVE RInv
    OBVIOUS
  <2>1. DOMAIN items = {}
    BY EmptyCache DEF Init, CacheInit
  <2> QED
    BY <2>1, Requests DEF Init, RInv, SeenOK, KeptOK, Kept, HeldOK, Has, Answered, AckedOK
<1>2. LInv /\ RInv /\ [Next]_vars => RInv'
  <2> SUFFICES ASSUME LInv, RInv, [Next]_vars PROVE RInv'
    OBVIOUS
  <2>1. Onward
    BY StepsOnward
  <2>2. AckedOK'
    BY AckedStay DEF RInv
  <2>3. SeenOK' /\ KeptOK' /\ HeldOK'
    <3>1. CASE Bystander
      BY <2>1, <3>1, BystanderKept
    <3>2. ASSUME NEW r \in Request, WriterStep(r) PROVE SeenOK' /\ KeptOK' /\ HeldOK'
      BY <2>1, <3>1, <3>2, WriterStepBystander, ResetResponses
    <3> QED
      BY <2>1, <3>1, <3>2, Steps, ArriveBystander, QuietStepBystander, FileStepBystander,
         ReaderStepResponses, OtherBystander, RestartResponses
  <2> QED
    BY <2>2, <2>3 DEF RInv
<1> QED
  BY <1>1, <1>2, LifeInvariance, PTL DEF Spec

(***************************************************************************)
(* After a confirmed deletion nobody is shown the document, whatever fails *)
(* and whichever statements land late.                                     *)
(***************************************************************************)
THEOREM DeletedIsGone == Spec => []AckedDeleteIsGone
<1>1. RInv => AckedDeleteIsGone
  BY Requests DEF RInv, HeldOK, Has, Agrees, AckedDeleteIsGone, Mutators
<1> QED
  BY <1>1, ResponseInvariance, PTL

(***************************************************************************)
(* After a confirmed upload every list of somebody who may read the        *)
(* document shows it, unless it was deleted, whatever fails.               *)
(***************************************************************************)
THEOREM UploadedIsListed == Spec => []AckedUploadIsListed
<1>1. RInv => AckedUploadIsListed
  <2> SUFFICES ASSUME RInv, NEW r \in Lists, NEW m \in Uploads,
                      Answered(r, 200), m \in acked[r],
                      row[m].owner = OwnerAsked(Viewer(r), target[r]),
                      CanRead(Viewer(r), m)
               PROVE  m \in held[r] \/ Deleted(m)
    BY DEF AckedUploadIsListed, Deleted
  <2>1. KeyOf(r) = [user |-> Viewer(r), doc |-> NoDoc, query |-> target[r]]
    BY DEF KeyOf
  <2>2. Agrees(KeyOf(r), held[r], m)
    BY DEF RInv, HeldOK, Has, Readers, Mutators
  <2> QED
    BY <2>1, <2>2 DEF Agrees, Entitled
<1> QED
  BY <1>1, ResponseInvariance, PTL

(***************************************************************************)
(* A response shows only documents that its viewer may read, also when it  *)
(* comes from the cache.                                                   *)
(***************************************************************************)
THEOREM NothingDisclosed == Spec => []NoUnauthorizedDisclosure
<1>1. \A r \in Readers : KeyOf(r).user = Viewer(r)
  BY DEF KeyOf
<1>2. RInv => NoUnauthorizedDisclosure
  BY <1>1 DEF RInv, HeldOK, Has, Allowed, NoUnauthorizedDisclosure
<1> QED
  BY <1>2, ResponseInvariance, PTL

-----------------------------------------------------------------------------
(***************************************************************************)
(* Sessions.  A confirmed logout leaves its token dead, and a request that *)
(* carries it gets no further than the lookup of its session.              *)
(***************************************************************************)
TokenDead == \A m \in Logouts : Answered(m, 200) => token[m] \notin sessions

Unsent == \A r \in Request : pc[r] = "new" => reply[r] = 0

TurnedAway ==
  \A r \in Request \ Logouts, m \in Logouts :
    pc[r] # "new" /\ m \in acked[r] =>
      /\ Answered(m, 200)
      /\ token[m] = token[r] =>
           pc[r] \in {"auth", "done"} /\ reply[r] \notin {200, 403, 404}

SInv == TokenDead /\ Unsent /\ TurnedAway

Moves(r) ==
  \/ Arrive(r) \/ QuietStep(r) \/ FileStep(r) \/ ReaderStep(r) \/ WriterStep(r)
  \/ Logout(r)

\* A step of one request moves no other.
LEMMA OthersStay ==
  ASSUME Typed, NEW r \in Request, Moves(r), NEW q \in Request \ {r}
  PROVE  pc'[q] = pc[q] /\ reply'[q] = reply[q] /\ token'[q] = token[q] /\ target'[q] = target[q]
<1>1. CASE Arrive(r)
  BY <1>1 DEF Arrive, Goto, Typed, TypeOK
<1>2. CASE Aside(r) \/ Change(r)
  BY <1>2 DEF Aside, Change
<1> QED
  BY <1>1, <1>2, QuietStepAside, FileStepAside, ReaderStepAside, ResetAside, LogoutAside,
     WriterStepChanges DEF Moves

\* What happens around the requests: nobody moves, or all that were under way are lost.
LEMMA Around ==
  ASSUME Typed, [Next]_vars, \A r \in Request : ~Moves(r), NEW q \in Request
  PROVE  /\ token'[q] = token[q] /\ target'[q] = target[q] /\ acked' = acked
         /\ \/ pc'[q] = pc[q] /\ reply'[q] = reply[q]
            \/ Restart /\ InFlight(q) /\ pc'[q] = "done" /\ reply'[q] = 0
<1>1. \/ \E r \in Request : Land(r)
      \/ \E t \in Token : Expire(t)
      \/ Restart
      \/ UNCHANGED vars
  BY Steps DEF Moves
<1>2. CASE Restart
  BY <1>2 DEF Restart, request
<1> QED
  BY <1>1, <1>2 DEF Land, Expire, vars, request

\* A request that was not sent can only be sent.
LEMMA OnlyArrives ==
  ASSUME Typed, NEW r \in Request, Moves(r), pc[r] = "new"
  PROVE  Arrive(r)
<1>1. ~Aside(r) /\ ~Change(r)
  BY DEF Aside, Change, InsertsRow, AddsDocument, RemovesDocument, GivesUp
<1> QED
  BY <1>1, QuietStepAside, FileStepAside, ReaderStepAside, ResetAside, LogoutAside,
     WriterStepChanges DEF Moves

LEMMA AtSession ==
  ASSUME Typed, NEW r \in Request, Moves(r), pc[r] = "auth", token[r] \notin sessions
  PROVE  pc'[r] = "done" /\ reply'[r] \in {400, 401, 500}
<1>1. Reject(r) \/ Authenticate(r) \/ StatementFails(r)
  BY DEF Moves, Arrive, QuietStep, LookupReason, AcceptForm, OpenFails, RefuseUpload,
     FindGrantees, Begin, Rollback, FileStep, Unlink, SaveFile, SaveFileFails, Cleanup,
     ReaderStep, Lookup, QueryList, QueryDocument, ReadFile, StoreResponse, WriterStep,
     DeleteRow, DeleteRowFails, Insert, Commit, CommitFails, Reset, Logout
<1>2. CASE StatementFails(r)
  <2>1. AfterFailure(pc[r]) = "done"
    BY DEF AfterFailure
  <2> QED
    BY <1>2, <2>1 DEF StatementFails, Goto, Reply, Typed, TypeOK
<1> QED
  BY <1>1, <1>2 DEF Reject, Authenticate, Goto, Reply, Finish, Typed, TypeOK

LEMMA LogoutEnds ==
  ASSUME Typed, NEW r \in Logouts, Moves(r), pc'[r] = "done", reply'[r] = 200
  PROVE  Logout(r)
<1>1. r \in Request /\ r \notin Readers /\ r \notin Mutators
  BY Disjoint, Requests
<1>2. pc[r] \in {"new", "logout", "done"}
  BY <1>1, Requests DEF Typed, TypeOK, Place, Readers, Mutators
<1>3. Arrive(r) \/ Reject(r) \/ StatementFails(r) \/ Logout(r)
  BY <1>2 DEF Moves, QuietStep, Authenticate, LookupReason, AcceptForm, OpenFails, RefuseUpload,
     FindGrantees, Begin, Rollback, FileStep, Unlink, SaveFile, SaveFileFails, Cleanup,
     ReaderStep, Lookup, QueryList, QueryDocument, ReadFile, StoreResponse, WriterStep,
     DeleteRow, DeleteRowFails, Insert, Commit, CommitFails, Reset
<1> QED
  BY <1>1, <1>3 DEF Arrive, Reject, StatementFails, Goto, Reply, Finish, Typed, TypeOK

LEMMA SessionsShrink ==
  ASSUME Typed, [Next]_vars
  PROVE  sessions' \subseteq sessions
<1>1. ASSUME NEW r \in Request, Moves(r) PROVE sessions' \subseteq sessions
  <2>1. CASE QuietStep(r)
    BY <2>1 DEF QuietStep, Reject, Authenticate, StatementFails, LookupReason, AcceptForm,
       OpenFails, RefuseUpload, FindGrantees, Begin, Rollback, database
  <2>2. CASE FileStep(r) \/ ReaderStep(r)
    BY <2>2 DEF FileStep, Unlink, SaveFile, SaveFileFails, Cleanup, ReaderStep, Lookup,
       QueryList, QueryDocument, ReadFile, StoreResponse, database
  <2>3. CASE WriterStep(r)
    BY <2>3 DEF WriterStep, DeleteRow, DeleteRowFails, RemoveRow, Insert, Commit, CommitFails,
       AddRow, Reset, database
  <2> QED
    BY <1>1, <2>1, <2>2, <2>3 DEF Moves, Arrive, Logout, database
<1> QED
  BY <1>1, Steps DEF Moves, Land, Expire, Restart, vars, database

\* A token whose logout was confirmed is dead, and a request that comes with it
\* afterwards is turned away (service/auth.go:201-252).
THEOREM SessionInvariance == Spec => []SInv
<1>1. Init => SInv
  BY Requests DEF Init, SInv, TokenDead, Unsent, TurnedAway, Answered
<1>2. LInv /\ SInv /\ [Next]_vars => SInv'
  <2> SUFFICES ASSUME LInv, SInv, [Next]_vars PROVE SInv'
    OBVIOUS
  <2>1. Onward /\ sessions' \subseteq sessions
    BY StepsOnward, SessionsShrink DEF LInv
  <2>2. ASSUME NEW m \in Logouts, Answered(m, 200) PROVE Answered(m, 200)' /\ token'[m] = token[m]
    BY <2>1, <2>2 DEF Onward, Answered, Request
  <2>3. TokenDead'
    <3> SUFFICES ASSUME NEW m \in Logouts, Answered(m, 200)' PROVE token'[m] \notin sessions'
      BY DEF TokenDead
    <3>1. CASE Answered(m, 200)
      BY <2>1, <2>2, <3>1 DEF SInv, TokenDead
    <3>2. CASE Moves(m) /\ ~Answered(m, 200)
      <4>1. Logout(m)
        BY <3>2, LogoutEnds DEF LInv, Answered
      <4> QED
        BY <4>1 DEF Logout, request
    <3>3. CASE ~Moves(m) /\ ~Answered(m, 200)
      <4>1. m \in Request
        BY DEF Request
      <4>2. (pc'[m] = pc[m] /\ reply'[m] = reply[m]) \/ reply'[m] = 0
        BY <3>3, <4>1, OthersStay, Around DEF LInv
      <4> QED
        BY <3>3, <4>2 DEF Answered
    <3> QED
      BY <3>1, <3>2, <3>3
  <2>4. Unsent'
    <3> SUFFICES ASSUME NEW r \in Request, pc'[r] = "new" PROVE reply'[r] = 0
      BY DEF Unsent
    <3>1. pc[r] = "new" /\ reply[r] = 0
      BY <2>1 DEF Onward, SInv, Unsent
    <3>2. ~Moves(r)
      <4>1. ~Arrive(r)
        BY DEF Arrive, Goto, LInv, Typed, TypeOK
      <4> QED
        BY <3>1, <4>1, OnlyArrives DEF LInv
    <3> QED
      BY <3>1, <3>2, OthersStay, Around DEF LInv
  <2>5. TurnedAway'
    <3> SUFFICES ASSUME NEW r \in Request \ Logouts, NEW m \in Logouts,
                        pc'[r] # "new", m \in acked'[r]
                 PROVE  /\ Answered(m, 200)'
                        /\ token'[m] = token'[r] =>
                             pc'[r] \in {"auth", "done"} /\ reply'[r] \notin {200, 403, 404}
      BY DEF TurnedAway
    <3>1. CASE pc[r] = "new"
      <4>1. Arrive(r)
        <5>1. Moves(r)
          BY <3>1, OthersStay, Around DEF LInv, InFlight
        <5> QED
          BY <3>1, <5>1, OnlyArrives DEF LInv
      <4>2. Answered(m, 200)
        BY <4>1 DEF Arrive, LInv, Typed, TypeOK, Answered
      <4> QED
        BY <2>2, <3>1, <4>1, <4>2 DEF Arrive, Goto, SInv, Unsent, LInv, Typed, TypeOK
    <3>2. CASE pc[r] # "new"
      <4>1. token'[r] = token[r] /\ m \in acked[r]
        BY <2>1, <3>2 DEF Onward
      <4>2. Answered(m, 200) /\ token[m] \notin sessions
        BY <3>2, <4>1 DEF SInv, TurnedAway, TokenDead
      <4>3. Answered(m, 200)' /\ token'[m] = token[m]
        BY <2>2, <4>2
      <4>4. ASSUME token[m] = token[r]
            PROVE  pc'[r] \in {"auth", "done"} /\ reply'[r] \notin {200, 403, 404}
        <5>1. pc[r] \in {"auth", "done"} /\ reply[r] \notin {200, 403, 404}
          BY <3>2, <4>1, <4>4 DEF SInv, TurnedAway
        <5>2. CASE pc[r] = "done"
          BY <2>1, <5>1, <5>2 DEF Onward
        <5>3. CASE pc[r] = "auth" /\ Moves(r)
          BY <4>2, <4>4, <5>3, AtSession DEF LInv
        <5>4. CASE ~Moves(r)
          BY <5>1, <5>4, OthersStay, Around DEF LInv
        <5> QED
          BY <5>1, <5>2, <5>3, <5>4
      <4> QED
        BY <4>1, <4>3, <4>4
    <3> QED
      BY <3>1, <3>2
  <2> QED
    BY <2>3, <2>4, <2>5 DEF SInv
<1> QED
  BY <1>1, <1>2, LifeInvariance, PTL DEF Spec

(***************************************************************************)
(* After a confirmed logout the token opens nothing, not even what is      *)
(* cached.                                                                 *)
(***************************************************************************)
THEOREM LogoutHolds == Spec => []NoAccessAfterLogout
<1>1. SInv => NoAccessAfterLogout
  BY DEF SInv, TurnedAway, NoAccessAfterLogout
<1> QED
  BY <1>1, SessionInvariance, PTL

-----------------------------------------------------------------------------
(***************************************************************************)
(* Verdicts.  A deletion that asks why has nothing to delete, and will     *)
(* have nothing: the two queries agree.                                    *)
(***************************************************************************)
Judged ==
  \A r \in Deletes :
    /\ pc[r] = "why" => ~CanDelete(r)
    /\ reply[r] = 403 => pc[r] # "new" /\ row[target[r]].owner # Viewer(r)
    /\ reply[r] \in {200, 404} => pc[r] # "new" /\ target[r] \notin docs

LEMMA DeletionReplies ==
  ASSUME Typed, NEW r \in Deletes, Moves(r)
  PROVE  /\ pc'[r] = "why" => ~CanDelete(r)
         /\ \/ reply'[r] = reply[r] \/ reply'[r] \in {400, 401, 500}
            \/ RemovesDocument(r)
            \/ LookupReason(r) /\ reply'[r] = IF target[r] \in docs THEN 403 ELSE 404
<1>1. r \in Request /\ r \notin Readers /\ r \notin Uploads /\ r \notin Logouts
  BY Disjoint, Requests DEF Mutators
<1> USE <1>1 DEF Goto, Reply, Finish, Typed, TypeOK, Place
<1>2. CASE Arrive(r)
  BY <1>2 DEF Arrive
<1>3. CASE QuietStep(r)
  <2>1. CASE Reject(r) \/ LookupReason(r)
    BY <2>1 DEF Reject, LookupReason
  <2>2. CASE Authenticate(r)
    <3>1. AfterAuth(r) \in {"form", "lookup", "delete"}
      BY DEF AfterAuth, Request, Readers
    <3> QED
      BY <2>2, <3>1 DEF Authenticate
  <2>3. CASE StatementFails(r)
    <3>1. AfterFailure(pc[r]) \in {"rollback", "cleanup", "reset", "done"}
      BY <2>3 DEF StatementFails, AfterFailure
    <3> QED
      BY <2>3, <3>1 DEF StatementFails
  <2>4. CASE \/ AcceptForm(r) \/ OpenFails(r) \/ RefuseUpload(r) \/ FindGrantees(r)
             \/ Begin(r) \/ Rollback(r)
    BY <2>4 DEF AcceptForm, OpenFails, RefuseUpload, FindGrantees, Begin, Rollback
  <2> QED
    BY <1>3, <2>1, <2>2, <2>3, <2>4 DEF QuietStep
<1>4. CASE FileStep(r)
  BY <1>4 DEF FileStep, Unlink, SaveFile, SaveFileFails, Cleanup
<1>5. CASE ReaderStep(r)
  BY <1>5 DEF ReaderStep, Lookup, QueryList, QueryDocument, ReadFile, StoreResponse, Readers
<1>6. CASE WriterStep(r)
  <2>1. CASE Reset(r)
    BY <2>1 DEF Reset
  <2>2. CASE Change(r)
    BY <2>2 DEF Change, InsertsRow, AddsDocument, GivesUp, RemovesDocument
  <2>3. CASE DeleteRow(r) /\ ~CanDelete(r)
    BY <2>3 DEF DeleteRow
  <2>4. CASE AsksWhy(r) /\ Aside(r)
    BY <1>6, <2>4
       DEF AsksWhy, WriterStep, DeleteRow, DeleteRowFails, Insert, Commit, CommitFails, Reset
  <2> QED
    BY <1>6, <2>1, <2>2, <2>3, <2>4, WriterStepChanges
<1>7. CASE Logout(r)
  BY <1>7 DEF Logout
<1> QED
  BY <1>2, <1>3, <1>4, <1>5, <1>6, <1>7 DEF Moves

\* Once a statement of a deletion has found nothing, the client may not delete
\* the document, and what the deletion answers is true of it
\* (service/documents.go:381-415).
THEOREM VerdictInvariance == Spec => []Judged
<1>1. Init => Judged
  BY Requests DEF Init, Judged, Mutators
<1>2. LInv /\ Judged /\ [Next]_vars => Judged'
  <2> SUFFICES ASSUME LInv, Judged, [Next]_vars, NEW r \in Deletes
               PROVE  /\ pc'[r] = "why" => ~CanDelete(r)'
                      /\ reply'[r] = 403 => pc'[r] # "new" /\ row'[target'[r]].owner # Viewer(r)'
                      /\ reply'[r] \in {200, 404} => pc'[r] # "new" /\ target'[r] \notin docs'
    BY DEF Judged
  <2>1. Onward /\ r \in Request
    BY StepsOnward, Requests DEF Mutators
  <2>2. CASE pc[r] = "new"
    <3>1. reply[r] \notin {200, 403, 404}
      BY <2>2 DEF Judged
    <3>2. CASE Moves(r)
      <4>1. Arrive(r)
        BY <2>1, <2>2, <3>2, OnlyArrives DEF LInv
      <4> QED
        BY <2>1, <3>1, <4>1 DEF Arrive, Goto, LInv, Typed, TypeOK
    <3>3. CASE ~Moves(r)
      BY <2>1, <2>2, <3>1, <3>3, OthersStay, Around DEF LInv, InFlight
    <3> QED
      BY <3>2, <3>3
  <2>3. CASE pc[r] # "new"
    <3>1. /\ target[r] \in KnownDocs /\ target'[r] = target[r] /\ Viewer(r)' = Viewer(r)
          /\ pc'[r] # "new"
      BY <2>1, <2>3 DEF LInv, Typed, ArgumentsOK, Onward, Viewer
    <3>2. row'[target[r]] = row[target[r]] /\ (target[r] \in docs' => target[r] \in docs)
      BY <2>1, <3>1 DEF Onward
    <3>3. ~CanDelete(r) => ~CanDelete(r)'
      BY <3>1, <3>2 DEF CanDelete
    <3>4. CASE Moves(r)
      <4>1. CASE RemovesDocument(r)
        BY <3>1, <4>1 DEF RemovesDocument, Judged, LInv, Life, Told
      <4>2. CASE LookupReason(r) /\ reply'[r] = IF target[r] \in docs THEN 403 ELSE 404
        BY <3>1, <3>2, <4>2 DEF LookupReason, Goto, Judged, CanDelete, LInv, Typed, TypeOK
      <4>3. CASE reply'[r] = reply[r] \/ reply'[r] \in {400, 401, 500}
        BY <3>1, <3>2, <3>3, <3>4, <4>3, DeletionReplies DEF Judged, LInv
      <4> QED
        BY <3>4, <4>1, <4>2, <4>3, DeletionReplies DEF LInv
    <3>5. CASE ~Moves(r)
      BY <2>1, <3>1, <3>2, <3>3, <3>5, OthersStay, Around DEF LInv, Judged
    <3> QED
      BY <3>4, <3>5
  <2> QED
    BY <2>2, <2>3
<1> QED
  BY <1>1, <1>2, LifeInvariance, PTL DEF Spec

(***************************************************************************)
(* The owner is never told 403, and after 200 or 404 the document is gone, *)
(* although the service looks twice.                                       *)
(***************************************************************************)
THEOREM VerdictsTrue == Spec => []DeleteVerdict
<1>1. Judged => DeleteVerdict
  BY DEF Judged, DeleteVerdict, Answered
<1> QED
  BY <1>1, VerdictInvariance, PTL

-----------------------------------------------------------------------------
(***************************************************************************)
(* Reading a file.  Without failures a request for a document that finds   *)
(* no file has lost a race with the deletion of the document.              *)
(***************************************************************************)
Reading ==
  \A r \in Gets :
    /\ pc[r] = "read" => row[target[r]].file
    /\ reply[r] = 500 => pc[r] # "new" /\ target[r] \notin docs

LEMMA GetReplies ==
  ASSUME Typed, Faults \cap {"db", "file"} = {}, NEW r \in Gets, Moves(r)
  PROVE  /\ pc'[r] = "read" => row[target[r]].file
         /\ \/ reply'[r] = reply[r] \/ reply'[r] # 500
            \/ pc[r] = "read" /\ target[r] \notin files
<1>1. r \in Request /\ r \in Readers /\ r \notin Mutators /\ r \notin Lists /\ r \notin Logouts
  BY Disjoint, Requests, RequestAssumption DEF Readers
<1> USE DEF Goto, Reply, Finish, Typed, TypeOK, Place
<1>2. CASE Arrive(r)
  BY <1>1, <1>2 DEF Arrive
<1>3. CASE QuietStep(r)
  <2>1. CASE Reject(r) \/ LookupReason(r) \/ RefuseUpload(r)
    BY <1>1, <2>1 DEF Reject, LookupReason, RefuseUpload
  <2>2. CASE Authenticate(r)
    <3>1. AfterAuth(r) \in {"form", "lookup", "delete"}
      BY <1>1 DEF AfterAuth, Request, Readers
    <3> QED
      BY <1>1, <2>2, <3>1 DEF Authenticate
  <2>3. CASE StatementFails(r) \/ OpenFails(r)
    BY <2>3, Faults \cap {"db", "file"} = {} DEF StatementFails, OpenFails
  <2>4. CASE AcceptForm(r) \/ FindGrantees(r) \/ Begin(r) \/ Rollback(r)
    BY <1>1, <2>4 DEF AcceptForm, FindGrantees, Begin, Rollback, Mutators
  <2> QED
    BY <1>3, <2>1, <2>2, <2>3, <2>4 DEF QuietStep
<1>4. CASE ReaderStep(r)
  <2>1. CASE ReadFile(r)
    BY <1>1, <2>1, Faults \cap {"db", "file"} = {} DEF ReadFile
  <2>2. CASE QueryDocument(r)
    BY <1>1, <2>2 DEF QueryDocument
  <2>3. CASE Lookup(r) \/ QueryList(r) \/ StoreResponse(r)
    BY <1>1, <2>3 DEF Lookup, QueryList, StoreResponse
  <2> QED
    BY <1>4, <2>1, <2>2, <2>3 DEF ReaderStep
<1>5. CASE FileStep(r) \/ WriterStep(r) \/ Logout(r)
  BY <1>1, <1>5 DEF FileStep, Unlink, SaveFile, SaveFileFails, Cleanup, WriterStep, DeleteRow,
     DeleteRowFails, Insert, Commit, CommitFails, Reset, Logout, Mutators
<1> QED
  BY <1>2, <1>3, <1>4, <1>5 DEF Moves

\* A reader between its query and the file meets a missing file only if the
\* document is deleted (service/documents.go:354-365).
THEOREM ReadingInvariance ==
  ASSUME Faults \cap {"db", "file"} = {}
  PROVE  Spec => []Reading
<1>1. Init => Reading
  BY Requests DEF Init, Reading, Readers
<1>2. LInv /\ FilesInv /\ Reading /\ [Next]_vars => Reading'
  <2> SUFFICES ASSUME LInv, FilesInv, Reading, [Next]_vars, NEW r \in Gets
               PROVE  /\ pc'[r] = "read" => row'[target'[r]].file
                      /\ reply'[r] = 500 => pc'[r] # "new" /\ target'[r] \notin docs'
    BY DEF Reading
  <2>1. Onward /\ r \in Request
    BY StepsOnward, Requests DEF Readers
  <2>2. CASE pc[r] = "new"
    <3>1. reply[r] # 500
      BY <2>2 DEF Reading
    <3>2. CASE Moves(r)
      <4>1. Arrive(r)
        BY <2>1, <2>2, <3>2, OnlyArrives DEF LInv
      <4> QED
        BY <2>1, <3>1, <4>1 DEF Arrive, Goto, LInv, Typed, TypeOK
    <3>3. CASE ~Moves(r)
      BY <2>1, <2>2, <3>1, <3>3, OthersStay, Around DEF LInv, InFlight
    <3> QED
      BY <3>2, <3>3
  <2>3. CASE pc[r] # "new"
    <3>1. target[r] \in KnownDocs /\ target'[r] = target[r] /\ pc'[r] # "new"
      BY <2>1, <2>3 DEF LInv, Typed, ArgumentsOK, Onward
    <3>2. row'[target[r]] = row[target[r]] /\ (target[r] \in docs' => target[r] \in docs)
      BY <2>1, <3>1 DEF Onward
    <3>3. pc[r] = "read" /\ target[r] \notin files => target[r] \notin docs
      BY DEF Reading, FilesInv, FilesBackDocuments
    <3>4. CASE Moves(r)
      BY <3>1, <3>2, <3>3, <3>4, GetReplies, Faults \cap {"db", "file"} = {} DEF LInv, Reading
    <3>5. CASE ~Moves(r)
      BY <2>1, <3>1, <3>2, <3>5, OthersStay, Around DEF LInv, Reading
    <3> QED
      BY <3>4, <3>5
  <2> QED
    BY <2>2, <2>3
<1> QED
  BY <1>1, <1>2, LifeInvariance, FilesInvariance, PTL DEF Spec

(***************************************************************************)
(* When no statement and no file operation fails, a request for a document *)
(* is answered 500 only if the document has been deleted.                  *)
(***************************************************************************)
THEOREM ReadsFailOnlyIfDeleted ==
  ASSUME Faults \cap {"db", "file"} = {}
  PROVE  Spec => []ReadFailsOnlyIfDeleted
<1>1. Reading => ReadFailsOnlyIfDeleted
  BY DEF Reading, ReadFailsOnlyIfDeleted, Answered
<1> QED
  BY <1>1, ReadingInvariance, PTL

-----------------------------------------------------------------------------
(***************************************************************************)
(* Files without a document, when no file operation fails: the file of a   *)
(* known document belongs to its deletion, the file of an unknown one to   *)
(* its upload.                                                             *)
(***************************************************************************)
Failed(r) == (pc[r] \in {"reset", "done"} /\ reply[r] = 500) \/ CutOff(r)

Uploading(r) == pc[r] \in {"begin", "insert", "commit", "rollback", "cleanup"}

Explains(f) ==
  IF f \in KnownDocs
    THEN \E m \in Deletes \cap applied : target[m] = f /\ (pc[m] = "unlink" \/ Failed(m))
    ELSE Uploading(f) \/ CutOff(f) \/ (row[f] # Unset /\ Failed(f))

FileForm ==
  /\ \A r \in Uploads : pc[r] = "save" => target[r].file
  /\ \A f \in files : IF f \in Stored THEN row[f].file ELSE pc[f] # "new" /\ target[f].file

Started ==
  /\ \A r \in Uploads :
       r \in commitStarted /\ r \notin applied =>
         /\ row[r] # Unset
         /\ \/ pc[r] = "commit" \/ CutOff(r)
            \/ pc[r] \in {"cleanup", "reset", "done"} /\ reply[r] = 500
  /\ \A r \in inDoubt : reply[r] = 500 \/ CutOff(r)

OInv == FileForm /\ Started /\ \A f \in files \ docs : Explains(f)

\* Who is past the commit keeps its answer, unless a crash cuts it off.
LEMMA ReplyStays ==
  ASSUME LInv, [Next]_vars, NEW r \in Mutators,
         pc[r] \in {"cleanup", "reset", "done"}
  PROVE  \/ CutOff(r)'
         \/ /\ reply'[r] = reply[r]
            /\ pc[r] \in {"reset", "done"} => pc'[r] \in {"reset", "done"}
            /\ pc'[r] # pc[r] /\ pc[r] = "cleanup" => Cleanup(r)
<1>1. r \in Request
  BY Requests
<1>2. CASE Moves(r)
  <2>1. Reset(r) \/ Cleanup(r)
    BY <1>2, Disjoint
       DEF Moves, Arrive, QuietStep, Reject, StatementFails, Authenticate, LookupReason,
           AcceptForm, OpenFails, RefuseUpload, FindGrantees, Begin, Rollback, FileStep,
           Unlink, SaveFile, SaveFileFails, Cleanup, ReaderStep, Lookup, QueryList,
           QueryDocument, ReadFile, StoreResponse, WriterStep, DeleteRow, DeleteRowFails,
           Insert, Commit, CommitFails, Logout
  <2> QED
    BY <1>1, <2>1 DEF Reset, Cleanup, Goto, LInv, Typed, TypeOK
<1>3. CASE ~Moves(r)
  BY <1>1, <1>3, OthersStay, Around DEF LInv, CutOff, Answered
<1> QED
  BY <1>2, <1>3

\* Nothing happens any more to a request that was cut off.
LEMMA CutOffStays ==
  ASSUME LInv, [Next]_vars, NEW r \in Request, CutOff(r)
  PROVE  CutOff(r)'
BY StepsOnward DEF Onward, CutOff, Answered

LEMMA FailedStays ==
  ASSUME LInv, [Next]_vars, NEW r \in Mutators, Failed(r)
  PROVE  Failed(r)'
<1>1. r \in Request
  BY Requests
<1> QED
  BY <1>1, ReplyStays, CutOffStays DEF Failed

\* An upload on its way moves on, or its cleanup is done, or a crash cuts it off.
LEMMA UploadGoesOn ==
  ASSUME LInv, [Next]_vars, NEW r \in Uploads, Uploading(r)
  PROVE  Uploading(r)' \/ Cleanup(r) \/ CutOff(r)'
<1>1. r \in Request
  BY Requests DEF Mutators
<1>2. CASE ~Moves(r)
  BY <1>1, <1>2, OthersStay, Around DEF LInv, Uploading, CutOff, Answered
<1>3. CASE QuietStep(r)
  <2>1. CASE StatementFails(r)
    <3>1. AfterFailure(pc[r]) \in {"rollback", "cleanup"}
      BY <2>1 DEF StatementFails, AfterFailure, Uploading
    <3> QED
      BY <1>1, <2>1, <3>1 DEF StatementFails, Goto, Uploading, LInv, Typed, TypeOK
  <2>2. CASE Begin(r) \/ Rollback(r)
    BY <1>1, <2>2 DEF Begin, Rollback, Goto, Uploading, LInv, Typed, TypeOK
  <2> QED
    BY <1>3, <2>1, <2>2, Disjoint
       DEF QuietStep, Reject, Authenticate, LookupReason, AcceptForm, OpenFails, RefuseUpload,
           FindGrantees, Uploading
<1>4. CASE FileStep(r)
  BY <1>4 DEF FileStep, Unlink, SaveFile, SaveFileFails, Uploading
<1>5. CASE WriterStep(r)
  BY <1>1, <1>5 DEF WriterStep, DeleteRow, DeleteRowFails, Insert, Commit, CommitFails, Reset,
     Goto, Uploading, LInv, Typed, TypeOK
<1>6. CASE Arrive(r) \/ ReaderStep(r) \/ Logout(r)
  BY <1>6 DEF Arrive, ReaderStep, Lookup, QueryList, QueryDocument, ReadFile, StoreResponse,
     Logout, Uploading
<1> QED
  BY <1>2, <1>3, <1>4, <1>5, <1>6 DEF Moves

\* How a document appears and how one goes.
LEMMA DocumentsChange ==
  ASSUME LInv, Started, [Next]_vars
  PROVE  /\ KnownDocs' \ KnownDocs \subseteq docs'
         /\ \A d \in DocId : row[d] # Unset => row'[d] # Unset
         /\ \A d \in docs \ docs' :
              \E m \in Deletes \cap applied' :
                target[m] = d /\ target'[m] = d /\ (Failed(m)' \/ DeleteRow(m))
<1> USE DEF KnownDocs
<1>1. \A user \in User, form \in Forms : RowOf(user, form) # Unset
  BY UnsetAssumption, FormAssumption DEF RowOf, Row, Form
<1>2. ASSUME NEW r \in Request, Change(r)
      PROVE  /\ KnownDocs' \ KnownDocs \subseteq docs'
             /\ \A d \in DocId : row[d] # Unset => row'[d] # Unset
  <2>1. CASE InsertsRow(r)
    <3>1. Viewer(r) \in User /\ target[r] \in Forms
      BY <2>1, Values, Requests DEF InsertsRow, LInv, Typed, ArgumentsOK
    <3>2. \A d \in DocId : row[d] # Unset => row'[d] # Unset
      BY <1>1, <2>1, <3>1 DEF InsertsRow, LInv, Typed, TypeOK
    <3> QED
      BY <2>1, <3>2 DEF InsertsRow
  <2>2. CASE AddsDocument(r)
    BY <2>2 DEF AddsDocument
  <2>3. CASE RemovesDocument(r)
    BY <2>3, Disjoint DEF RemovesDocument
  <2>4. CASE GivesUp(r)
    BY <2>4 DEF GivesUp
  <2> QED
    BY <1>2, <2>1, <2>2, <2>3, <2>4 DEF Change
<1>3. ASSUME NEW r \in Request, WriterStep(r), NEW d \in docs \ docs'
      PROVE  \E m \in Deletes \cap applied' :
                target[m] = d /\ target'[m] = d /\ (Failed(m)' \/ DeleteRow(m))
  <2>1. CASE DeleteRow(r)
    BY <1>3, <2>1 DEF DeleteRow, RemoveRow, database, request, LInv, Typed, Place
  <2>2. CASE DeleteRowFails(r)
    BY <1>3, <2>2 DEF DeleteRowFails, RemoveRow, database, request, LInv, Typed, TypeOK, Place,
       Goto, Reply, Failed
  <2> QED
    BY <1>3, <2>1, <2>2 DEF WriterStep, Insert, Commit, CommitFails, AddRow, Reset, database
<1>4. ASSUME NEW r \in Request, Land(r), NEW d \in docs \ docs'
      PROVE  r \in Deletes \cap applied' /\ target[r] = d /\ target'[r] = d /\ Failed(r)'
  <2>1. r \in Deletes \cap applied' /\ target[r] = d /\ target'[r] = d
    BY <1>4 DEF Land, request
  <2>2. (pc[r] \in {"reset", "done"} /\ reply[r] = 500) \/ CutOff(r)
    BY <1>4, <2>1, Disjoint DEF Land, LInv, Life, Doubtful, Typed, Place, Started
  <2> QED
    BY <1>4, <2>1, <2>2 DEF Land, Failed, CutOff, Answered
<1>5. ASSUME NEW r \in Request, Land(r)
      PROVE  KnownDocs' \ KnownDocs \subseteq docs' /\ row' = row
  BY <1>5, Disjoint DEF Land
<1>6. ASSUME NEW r \in Request, Aside(r)
      PROVE  UNCHANGED <<docs, row, applied>>
  BY <1>6 DEF Aside
<1>7. CASE \E r \in Request : Arrive(r)
  BY <1>7 DEF Arrive, database
<1>8. CASE (\E t \in Token : Expire(t)) \/ UNCHANGED vars
  BY <1>8 DEF Expire, vars, database
<1>9. CASE Restart
  BY <1>9 DEF Restart, database
<1> QED
  BY <1>2, <1>3, <1>4, <1>5, <1>6, <1>7, <1>8, <1>9, Steps, QuietStepAside, FileStepAside,
     ReaderStepAside, ResetAside, LogoutAside, WriterStepChanges DEF LInv

LEMMA FileFormStays ==
  ASSUME LInv, FileForm, [Next]_vars
  PROVE  FileForm'
<1>1. ASSUME NEW r \in Uploads, pc'[r] = "save" PROVE target'[r].file
  <2>1. r \in Request
    BY Requests DEF Mutators
  <2>2. CASE pc[r] = "save"
    <3>1. target'[r] = target[r]
      BY <2>1, <2>2, StepsOnward DEF Onward
    <3> QED
      BY <2>2, <3>1 DEF FileForm
  <2>3. CASE pc[r] # "save"
    <3>1. Moves(r)
      BY <1>1, <2>1, <2>3, OthersStay, Around DEF LInv
    <3>2. CASE FindGrantees(r)
      BY <1>1, <2>1, <3>2 DEF FindGrantees, Goto, request, LInv, Typed, TypeOK
    <3>3. CASE StatementFails(r)
      <4>1. AfterFailure(pc[r]) \in {"rollback", "cleanup", "reset", "done"}
        BY <3>3 DEF StatementFails, AfterFailure
      <4> QED
        BY <1>1, <2>1, <3>3, <4>1 DEF StatementFails, Goto, LInv, Typed, TypeOK
    <3>4. CASE Authenticate(r)
      <4>1. r \notin Logouts
        BY Disjoint DEF Mutators
      <4>2. AfterAuth(r) \in {"form", "lookup", "delete"}
        BY <4>1 DEF AfterAuth, Request, Readers
      <4> QED
        BY <1>1, <2>1, <3>4, <4>2 DEF Authenticate, Goto, Finish, LInv, Typed, TypeOK
    <3>5. CASE QuietStep(r) /\ ~FindGrantees(r) /\ ~StatementFails(r) /\ ~Authenticate(r)
      BY <1>1, <2>1, <3>5
         DEF QuietStep, Reject, LookupReason, AcceptForm, OpenFails, RefuseUpload, Begin,
             Rollback, Goto, Finish, LInv, Typed, TypeOK
    <3>6. CASE Arrive(r) \/ FileStep(r) \/ Logout(r)
      BY <1>1, <2>1, <3>6
         DEF Arrive, FileStep, Unlink, SaveFile, SaveFileFails, Cleanup, Logout, Goto, Finish,
             LInv, Typed, TypeOK
    <3>7. CASE ReaderStep(r)
      BY <1>1, <2>1, <3>7
         DEF ReaderStep, Lookup, QueryList, QueryDocument, ReadFile, StoreResponse, Goto,
             Finish, LInv, Typed, TypeOK
    <3>8. CASE WriterStep(r)
      BY <1>1, <2>1, <3>8
         DEF WriterStep, DeleteRow, DeleteRowFails, Insert, Commit, CommitFails, Reset, Goto,
             LInv, Typed, TypeOK
    <3> QED
      BY <3>1, <3>2, <3>3, <3>4, <3>5, <3>6, <3>7, <3>8 DEF Moves
  <2> QED
    BY <2>2, <2>3
<1>2. ASSUME NEW f \in files'
      PROVE  IF f \in Stored THEN row'[f].file ELSE pc'[f] # "new" /\ target'[f].file
  <2>1. CASE f \in files
    <3>1. f \in Stored => row'[f] = row[f]
      BY StepsOnward DEF Onward, KnownDocs
    <3>2. f \notin Stored => f \in Request
      BY <2>1, DocIdAssumption, Requests DEF LInv, Typed, TypeOK, Mutators
    <3>3. f \notin Stored => pc'[f] # "new" /\ target'[f] = target[f]
      BY <2>1, <3>2, StepsOnward DEF Onward, FileForm
    <3> QED
      BY <2>1, <3>1, <3>3 DEF FileForm
  <2>2. CASE f \notin files
    <3>1. PICK r \in Request : SaveFile(r) \/ SaveFileFails(r)
      BY <2>2, Steps DEF Arrive, QuietStep, Reject, Authenticate, StatementFails, LookupReason,
         AcceptForm, OpenFails, RefuseUpload, FindGrantees, Begin, Rollback, FileStep, Unlink,
         Cleanup, ReaderStep, Lookup, QueryList, QueryDocument, ReadFile, StoreResponse,
         WriterStep, DeleteRow, DeleteRowFails, Insert, Commit, CommitFails, Reset, Logout,
         Land, Expire, Restart, vars
    <3>2. f = r /\ pc[r] = "save" /\ r \in Uploads
      BY <2>2, <3>1 DEF SaveFile, SaveFileFails, LInv, Typed, Place
    <3>3. target[r].file /\ target'[r] = target[r] /\ pc'[r] # "new"
      BY <3>1, <3>2 DEF FileForm, SaveFile, SaveFileFails, request, Goto, LInv, Typed, TypeOK
    <3> QED
      BY <3>2, <3>3, Disjoint
  <2> QED
    BY <2>1, <2>2
<1> QED
  BY <1>1, <1>2 DEF FileForm

LEMMA StartedStays ==
  ASSUME LInv, Started, [Next]_vars
  PROVE  Started'
<1>1. ASSUME NEW r \in Uploads, r \in commitStarted, r \notin applied'
      PROVE  /\ row'[r] # Unset
             /\ \/ pc'[r] = "commit" \/ CutOff(r)'
                \/ pc'[r] \in {"cleanup", "reset", "done"} /\ reply'[r] = 500
  <2>1. r \in Request /\ r \in DocId /\ r \in Mutators /\ r \notin applied
    BY <1>1, Requests, StepsOnward DEF Mutators, Onward
  <2>2. row'[r] # Unset
    BY <1>1, <2>1, DocumentsChange DEF Started
  <2>3. CASE pc[r] \in {"cleanup", "reset", "done"} /\ reply[r] = 500
    BY <2>1, <2>2, <2>3, ReplyStays DEF Cleanup, Goto, LInv, Typed, TypeOK
  <2>4. CASE pc[r] = "commit" /\ Moves(r)
    <3>1. Commit(r) \/ CommitFails(r)
      BY <2>4 DEF Moves, Arrive, QuietStep, Reject, Authenticate, StatementFails, LookupReason,
         AcceptForm, OpenFails, RefuseUpload, FindGrantees, Begin, Rollback, FileStep, Unlink,
         SaveFile, SaveFileFails, Cleanup, ReaderStep, Lookup, QueryList, QueryDocument,
         ReadFile, StoreResponse, WriterStep, DeleteRow, DeleteRowFails, Insert, Reset, Logout
    <3>2. CommitFails(r)
      BY <1>1, <3>1 DEF Commit, AddRow
    <3> QED
      BY <2>1, <2>2, <3>2 DEF CommitFails, Goto, Reply, LInv, Typed, TypeOK
  <2>5. CASE pc[r] = "commit" /\ ~Moves(r)
    BY <2>1, <2>2, <2>5, OthersStay, Around DEF LInv, CutOff, Answered
  <2>6. CASE CutOff(r)
    BY <2>1, <2>2, <2>6, CutOffStays
  <2> QED
    BY <1>1, <2>1, <2>3, <2>4, <2>5, <2>6 DEF Started
<1>2. ASSUME NEW r \in Uploads, r \in commitStarted', r \notin commitStarted
      PROVE  row'[r] # Unset /\ pc'[r] = "commit"
  <2>1. PICK q \in Request : Insert(q)
    BY <1>2, Steps DEF Arrive, QuietStep, Reject, Authenticate, StatementFails, LookupReason,
       AcceptForm, OpenFails, RefuseUpload, FindGrantees, Begin, Rollback, FileStep, Unlink,
       SaveFile, SaveFileFails, Cleanup, ReaderStep, Lookup, QueryList, QueryDocument, ReadFile,
       StoreResponse, WriterStep, DeleteRow, DeleteRowFails, Commit, CommitFails, Reset, Logout,
       Land, Expire, Restart, vars
  <2>2. q = r
    BY <1>2, <2>1 DEF Insert
  <2>3. Viewer(r) \in User /\ target[r] \in Forms
    BY <2>1, <2>2, Values DEF Insert, LInv, Typed, ArgumentsOK
  <2>4. RowOf(Viewer(r), target[r]) # Unset
    BY <2>3, UnsetAssumption, FormAssumption DEF RowOf, Row, Form
  <2> QED
    BY <2>1, <2>2, <2>4, Requests DEF Insert, Goto, LInv, Typed, TypeOK
<1>3. ASSUME NEW r \in inDoubt' PROVE reply'[r] = 500 \/ CutOff(r)'
  <2>1. CASE r \in inDoubt
    <3>1. r \in Mutators /\ r \in Request
      BY <2>1, Requests DEF LInv, Typed, TypeOK
    <3> QED
      BY <2>1, <3>1, ReplyStays, CutOffStays DEF LInv, Life, Doubtful, Started
  <2>2. CASE r \notin inDoubt
    <3>1. PICK q \in Request : DeleteRowFails(q) \/ CommitFails(q)
      BY <2>2, Steps DEF Arrive, QuietStep, Reject, Authenticate, StatementFails, LookupReason,
         AcceptForm, OpenFails, RefuseUpload, FindGrantees, Begin, Rollback, FileStep, Unlink,
         SaveFile, SaveFileFails, Cleanup, ReaderStep, Lookup, QueryList, QueryDocument,
         ReadFile, StoreResponse, WriterStep, DeleteRow, RemoveRow, Insert, Commit, AddRow,
         Reset, Logout, Land, Expire, Restart, vars, database
    <3>2. q = r
      BY <2>2, <3>1 DEF DeleteRowFails, CommitFails, RemoveRow, AddRow, database
    <3> QED
      BY <3>1, <3>2 DEF DeleteRowFails, CommitFails, Reply, LInv, Typed, TypeOK
  <2> QED
    BY <2>1, <2>2
<1> QED
  BY <1>1, <1>2, <1>3 DEF Started

LEMMA ExplainedStays ==
  ASSUME LInv, OInv, "file" \notin Faults, [Next]_vars, NEW f \in files' \ docs'
  PROVE  Explains(f)'
<1>1. Onward /\ f \in DocId /\ (f \notin KnownDocs => f \notin KnownDocs')
  <2>1. files' \subseteq DocId
    BY Steps, ArriveTyped, QuietStepTyped, FileStepTyped, ReaderStepTyped, WriterStepTyped,
       OtherTyped DEF LInv, Typed, TypeOK
  <2> QED
    BY <2>1, StepsOnward, DocumentsChange DEF OInv
<1>2. f \notin KnownDocs => f \in Uploads /\ f \in Request /\ f \in Mutators /\ f \notin applied
  BY <1>1, DocIdAssumption, Requests DEF KnownDocs, Mutators
<1>3. CASE f \in files /\ f \notin docs /\ f \in KnownDocs
  <2>1. PICK m \in Deletes \cap applied : target[m] = f /\ (pc[m] = "unlink" \/ Failed(m))
    BY <1>3 DEF OInv, Explains
  <2>2. m \in Request /\ m \in Mutators /\ pc[m] # "new"
    BY <2>1, Requests DEF Mutators, Failed, CutOff, Answered
  <2>3. target'[m] = f /\ m \in applied'
    BY <1>1, <2>1, <2>2 DEF Onward
  <2>4. CASE Failed(m)
    <3>1. Failed(m)'
      BY <2>2, <2>4, FailedStays
    <3> QED
      BY <1>1, <1>3, <2>1, <2>3, <3>1 DEF Explains, Onward
  <2>5. CASE pc[m] = "unlink" /\ Moves(m)
    <3>1. Unlink(m)
      BY <2>5 DEF Moves, Arrive, QuietStep, Reject, Authenticate, StatementFails, LookupReason,
         AcceptForm, OpenFails, RefuseUpload, FindGrantees, Begin, Rollback, FileStep,
         SaveFile, SaveFileFails, Cleanup, ReaderStep, Lookup, QueryList, QueryDocument,
         ReadFile, StoreResponse, WriterStep, DeleteRow, DeleteRowFails, Insert, Commit,
         CommitFails, Reset, Logout
    <3> QED
      BY <2>1, <3>1, "file" \notin Faults DEF Unlink
  <2>6. CASE pc[m] = "unlink" /\ ~Moves(m)
    <3>1. pc'[m] = "unlink" \/ Failed(m)'
      BY <2>2, <2>6, OthersStay, Around DEF LInv, Failed, CutOff, Answered
    <3> QED
      BY <1>1, <1>3, <2>1, <2>3, <3>1 DEF Explains, Onward
  <2> QED
    BY <2>1, <2>4, <2>5, <2>6
<1>4. CASE f \in files /\ f \notin docs /\ f \notin KnownDocs
  <2>1. Uploading(f) \/ CutOff(f) \/ (row[f] # Unset /\ Failed(f))
    BY <1>4 DEF OInv, Explains
  <2>2. row[f] # Unset => row'[f] # Unset
    BY <1>1, DocumentsChange DEF OInv
  <2>3. CASE Cleanup(f)
    <3>1. target[f].file
      BY <1>2, <1>4 DEF OInv, FileForm, KnownDocs
    <3>2. f \in commitStarted
      BY <2>3, <3>1, "file" \notin Faults DEF Cleanup
    <3>3. row[f] # Unset /\ reply[f] = 500
      BY <1>2, <1>4, <2>3, <3>2 DEF Cleanup, OInv, Started, CutOff, Answered
    <3>4. Failed(f)'
      BY <1>2, <1>4, <2>3, <3>3 DEF Cleanup, Goto, Failed, LInv, Typed, TypeOK
    <3> QED
      BY <1>1, <1>4, <2>2, <3>3, <3>4 DEF Explains
  <2>4. CASE Uploading(f) /\ ~Cleanup(f)
    <3>1. Uploading(f)' \/ CutOff(f)'
      BY <1>2, <1>4, <2>4, UploadGoesOn
    <3> QED
      BY <1>1, <1>4, <3>1 DEF Explains
  <2>5. CASE row[f] # Unset /\ Failed(f)
    <3>1. Failed(f)'
      BY <1>2, <1>4, <2>5, FailedStays
    <3> QED
      BY <1>1, <1>4, <2>2, <2>5, <3>1 DEF Explains
  <2>6. CASE CutOff(f)
    BY <1>1, <1>2, <1>4, <2>6, CutOffStays DEF Explains
  <2> QED
    BY <2>1, <2>3, <2>4, <2>5, <2>6
<1>5. CASE f \in files /\ f \in docs
  <2>1. PICK m \in Deletes \cap applied' :
               target[m] = f /\ target'[m] = f /\ (Failed(m)' \/ DeleteRow(m))
    BY <1>5, DocumentsChange DEF OInv
  <2>2. f \in KnownDocs'
    BY <1>1, <1>5 DEF LInv, Life, Known, Onward
  <2>3. row[f].file
    <3>1. CASE f \in Stored
      BY <1>5, <3>1 DEF OInv, FileForm
    <3>2. CASE f \notin Stored
      <4>1. f \in Uploads \cap applied
        BY <1>5, <3>2 DEF LInv, Life, Known, KnownDocs
      <4>2. row[f] = RowOf(Viewer(f), target[f]) /\ target[f].file
        BY <1>5, <3>2, <4>1 DEF LInv, Life, Inserted, OInv, FileForm
      <4> QED
        BY <4>2, RowFields
    <3> QED
      BY <3>1, <3>2
  <2>4. DeleteRow(m) => pc'[m] = "unlink"
    <3>1. ASSUME DeleteRow(m) PROVE CanDelete(m)
      BY <1>5, <3>1 DEF DeleteRow, database
    <3> QED
      BY <2>1, <2>3, <3>1, Requests DEF DeleteRow, Goto, LInv, Typed, TypeOK, Mutators
  <2> QED
    BY <2>1, <2>2, <2>4 DEF Explains
<1>6. CASE f \notin files
  <2>1. PICK r \in Request : SaveFile(r) \/ SaveFileFails(r)
    BY <1>6, Steps DEF Arrive, QuietStep, Reject, Authenticate, StatementFails, LookupReason,
       AcceptForm, OpenFails, RefuseUpload, FindGrantees, Begin, Rollback, FileStep, Unlink,
       Cleanup, ReaderStep, Lookup, QueryList, QueryDocument, ReadFile, StoreResponse,
       WriterStep, DeleteRow, DeleteRowFails, Insert, Commit, CommitFails, Reset, Logout,
       Land, Expire, Restart, vars
  <2>2. SaveFile(r) /\ f = r
    BY <1>6, <2>1, "file" \notin Faults DEF SaveFile, SaveFileFails
  <2>3. pc'[f] = "begin" /\ f \in Uploads /\ pc[f] = "save"
    BY <2>2 DEF SaveFile, Goto, LInv, Typed, TypeOK, Place
  <2>4. f \notin KnownDocs
    BY <2>3, Disjoint DEF LInv, Life, Known, KnownDocs, BeforeCommit
  <2> QED
    BY <1>1, <2>3, <2>4 DEF Explains, Uploading
<1> QED
  BY <1>3, <1>4, <1>5, <1>6

\* A file without a document belongs to a request under way, to one answered
\* 500 or to one that a crash cut off (service/documents.go:147-159, 422-427).
THEOREM OrphanInvariance ==
  ASSUME "file" \notin Faults
  PROVE  Spec => []OInv
<1>1. Init => OInv
  BY Requests, DocIdAssumption DEF Init, OInv, FileForm, Started, Mutators
<1>2. LInv /\ OInv /\ [Next]_vars => OInv'
  <2> SUFFICES ASSUME LInv, OInv, [Next]_vars PROVE OInv'
    OBVIOUS
  <2>1. FileForm' /\ Started'
    BY FileFormStays, StartedStays, "file" \notin Faults DEF OInv
  <2> QED
    BY <2>1, ExplainedStays, "file" \notin Faults DEF OInv
<1> QED
  BY <1>1, <1>2, LifeInvariance, PTL DEF Spec

(***************************************************************************)
(* When files do not fail, a file without a document has a reason: its     *)
(* request is under way, a crash cut it off, or its outcome was unknown    *)
(* and it was answered 500.                                                *)
(***************************************************************************)
THEOREM OrphansHaveReasons ==
  ASSUME "file" \notin Faults
  PROVE  Spec => []OrphansExplained
<1>1. LInv /\ OInv => OrphansExplained
  <2> SUFFICES ASSUME LInv, OInv, NEW f \in files \ docs
               PROVE  \/ f \in Uploads /\ Uploading(f)
                      \/ f \in Uploads /\ CutOff(f)
                      \/ f \in Uploads /\ row[f] # Unset /\ reply[f] = 500
                      \/ \E m \in Deletes \cap applied :
                           target[m] = f /\ (pc[m] = "unlink" \/ CutOff(m) \/ reply[m] = 500)
    BY DEF OrphansExplained, Uploading
  <2>1. Explains(f) /\ f \in DocId
    BY DEF OInv, LInv, Typed, TypeOK
  <2> QED
    BY <2>1, DocIdAssumption DEF Explains, Failed, KnownDocs
<1> QED
  BY <1>1, LifeInvariance, OrphanInvariance, PTL
=============================================================================
