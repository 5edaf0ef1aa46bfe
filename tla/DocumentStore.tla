--------------------------- MODULE DocumentStore ----------------------------
(***************************************************************************)
(* What the document server promises its clients, without a cache,         *)
(* transactions or files.  The documents go through a sequence of          *)
(* versions; a change takes effect at one moment and makes a new one.  A   *)
(* response shows one version, which is not older than any change the      *)
(* client had reason to expect in it.  A change that was answered with an  *)
(* error other than 500 never takes effect, one that was confirmed has     *)
(* taken effect, and one that was answered 500, or not at all because the  *)
(* process died, may do so later.                                          *)
(***************************************************************************)
EXTENDS Naturals, Sequences

CONSTANTS User, DocId, Query, NoDoc, Uploads, Lists, Gets, Deletes, Logouts, Unset,
          Stored, Own, Token, TokenUser, Forms

Request == Uploads \cup Lists \cup Gets \cup Deletes \cup Logouts
Readers == Lists \cup Gets
Mutators == Uploads \cup Deletes

VARIABLES
  log,       \* the versions of the set of documents, the current one last
  place,     \* the version that each change made, 0 while there is none
  rights,    \* owner and access rights of the documents there were
  sessions,  \* live tokens
  phase,     \* "new", "asked", "admitted", "done"; "open": answered, may take effect
  token,     \* the token of each request
  target,    \* its other argument
  acked,     \* the requests that were confirmed before it was sent
  status,    \* its answer, 0 for none
  shown      \* the documents that the answer shows

contents == <<log, place, rights>>
arguments == <<token, target, acked>>
answers == <<status, shown>>
vars == <<contents, sessions, phase, arguments, answers>>

-----------------------------------------------------------------------------
Current == log[Len(log)]

Viewer(r) == TokenUser[token[r]]

MayRead(user, d) ==
  rights[d].owner = user \/ rights[d].public \/ user \in rights[d].grants

OwnerAsked(user, query) == IF query = Own THEN user ELSE query

\* What version i holds for request r.
View(i, r) ==
  IF r \in Lists
    THEN {d \in log[i] : /\ rights[d].owner = OwnerAsked(Viewer(r), target[r])
                         /\ MayRead(Viewer(r), d)}
    ELSE {d \in log[i] \cap {target[r]} : MayRead(Viewer(r), d)}

\* The change m can make a difference to the answer of r.
Concerns(m, r) ==
  \/ r \in Lists
  \/ m \in Uploads /\ m = target[r]
  \/ m \in Deletes /\ target[m] = target[r]

RowOf(user, form) ==
  [owner |-> user, public |-> form.public, grants |-> form.grants, file |-> form.file]

Known == Stored \cup {m \in Uploads : place[m] # 0}

Arguments(r) ==
  CASE r \in Uploads -> Forms
    [] r \in Lists -> Query
    [] r \in Gets \cup Deletes -> Known
    [] r \in Logouts -> {NoDoc}

Init ==
  /\ \E docs \in SUBSET Stored : log = <<docs>>
  /\ place = [m \in Mutators |-> 0]
  /\ \E rows \in [Stored -> {RowOf(u, f) : u \in User, f \in Forms}] :
       rights = [d \in DocId |-> IF d \in Stored THEN rows[d] ELSE Unset]
  /\ sessions = Token
  /\ phase = [r \in Request |-> "new"]
  /\ token = [r \in Request |-> CHOOSE t \in Token : TRUE]
  /\ target = [r \in Request |-> NoDoc]
  /\ acked = [r \in Request |-> {}]
  /\ status = [r \in Request |-> 0]
  /\ shown = [r \in Readers |-> {}]

-----------------------------------------------------------------------------
\* A client sends a request and may expect what it was told so far.
Ask(r) ==
  /\ phase[r] = "new"
  /\ phase' = [phase EXCEPT ![r] = "asked"]
  /\ \E t \in Token : token' = [token EXCEPT ![r] = t]
  /\ \E x \in Arguments(r) : target' = [target EXCEPT ![r] = x]
  /\ acked' = [acked EXCEPT ![r] = {x \in Mutators \cup Logouts : status[x] = 200}]
  /\ UNCHANGED <<contents, sessions, answers>>

Admit(r) ==
  /\ phase[r] = "asked" /\ r \notin Logouts
  /\ token[r] \in sessions
  /\ phase' = [phase EXCEPT ![r] = "admitted"]
  /\ UNCHANGED <<contents, sessions, arguments, answers>>

\* A change takes effect, before or after its answer.
Apply(m) ==
  /\ phase[m] \in {"admitted", "open"} /\ place[m] = 0
  /\ \/ /\ m \in Uploads
        /\ log' = Append(log, Current \cup {m})
        /\ rights' = [rights EXCEPT ![m] = RowOf(Viewer(m), target[m])]
     \/ /\ m \in Deletes
        /\ target[m] \in Current /\ rights[target[m]].owner = Viewer(m)
        /\ log' = Append(log, Current \ {target[m]})
        /\ UNCHANGED rights
  /\ place' = [place EXCEPT ![m] = Len(log) + 1]
  /\ phase' = [phase EXCEPT ![m] = IF phase[m] = "open" THEN "done" ELSE "admitted"]
  /\ UNCHANGED <<sessions, arguments, answers>>

\* An answered change without effect is given up.
Drop(m) ==
  /\ phase[m] = "open"
  /\ phase' = [phase EXCEPT ![m] = "done"]
  /\ UNCHANGED <<contents, sessions, arguments, answers>>

-----------------------------------------------------------------------------
Ended(r, s) ==
  /\ phase[r] \in {"asked", "admitted"}
  /\ status' = [status EXCEPT ![r] = s]
  /\ UNCHANGED <<contents, arguments>>

Confirm(m) ==
  /\ phase[m] = "admitted" /\ place[m] # 0
  /\ Ended(m, 200)
  /\ phase' = [phase EXCEPT ![m] = "done"]
  /\ UNCHANGED <<sessions, shown>>

\* A reader is shown one version, no older than what it may expect.  A document
\* that is not there is not shown but reported missing.
Show(r) ==
  /\ phase[r] = "admitted"
  /\ \E i \in 1..Len(log) :
       /\ \A m \in acked[r] \cap Mutators : Concerns(m, r) => place[m] <= i
       /\ r \in Gets => View(i, r) # {}
       /\ shown' = [shown EXCEPT ![r] = View(i, r)]
  /\ Ended(r, 200)
  /\ phase' = [phase EXCEPT ![r] = "done"]
  /\ UNCHANGED sessions

\* What a request may be told that has no effect.
Verdict(r, s) ==
  \/ s = 400
  \/ s = 401 /\ phase[r] = "asked" /\ r \notin Logouts /\ token[r] \notin sessions
  \/ /\ s = 404 /\ phase[r] = "admitted"
     /\ r \in Gets \cup Deletes /\ target[r] \notin Current
  \/ /\ s = 403 /\ phase[r] = "admitted"
     /\ \/ r \in Gets /\ target[r] \in Current /\ ~MayRead(Viewer(r), target[r])
        \/ r \in Deletes /\ rights[target[r]].owner # Viewer(r)

Refuse(r) ==
  /\ \E s \in {400, 401, 403, 404} : Verdict(r, s) /\ Ended(r, s)
  /\ r \in Mutators => place[r] = 0
  /\ phase' = [phase EXCEPT ![r] = "done"]
  /\ UNCHANGED <<sessions, shown>>

\* What may still take effect after the answer.
Unsettled(r) == r \in Mutators /\ phase[r] = "admitted" /\ place[r] = 0

Fail(r) ==
  /\ Ended(r, 500)
  /\ \E to \in {"done"} \cup IF Unsettled(r) THEN {"open"} ELSE {} :
       phase' = [phase EXCEPT ![r] = to]
  /\ UNCHANGED <<sessions, shown>>

SignOut(r) ==
  /\ r \in Logouts
  /\ Ended(r, 200)
  /\ sessions' = sessions \ {token[r]}
  /\ phase' = [phase EXCEPT ![r] = "done"]
  /\ UNCHANGED shown

-----------------------------------------------------------------------------
EndSession(t) ==
  /\ t \in sessions
  /\ sessions' = sessions \ {t}
  /\ UNCHANGED <<contents, phase, arguments, answers>>

\* The process dies: nobody under way is answered.
Crash ==
  /\ \E open \in SUBSET {m \in Mutators : Unsettled(m)} :
       phase' = [r \in Request |->
                   CASE r \in open -> "open"
                     [] r \notin open /\ phase[r] \in {"asked", "admitted"} -> "done"
                     [] OTHER -> phase[r]]
  /\ UNCHANGED <<contents, sessions, arguments, answers>>

Next ==
  \/ \E r \in Request : Ask(r) \/ Admit(r) \/ Refuse(r) \/ Fail(r)
  \/ \E m \in Mutators : Apply(m) \/ Drop(m) \/ Confirm(m)
  \/ \E r \in Readers : Show(r)
  \/ \E r \in Logouts : SignOut(r)
  \/ \E t \in Token : EndSession(t)
  \/ Crash

Spec == Init /\ [][Next]_vars
=============================================================================
