-------------------------- MODULE DocumentHistory ---------------------------
(***************************************************************************)
(* DocumentApi with a record of the versions its documents went through,   *)
(* and the claim that it implements DocumentStore.  The two history        *)
(* variables only record: they restrict no step.                           *)
(***************************************************************************)
EXTENDS DocumentApi, Sequences

VARIABLES
  log,    \* the values docs has had, the current one last
  place   \* the version that each change made, 0 while there is none

history == <<log, place>>

HInit ==
  /\ Init
  /\ log = <<docs>>
  /\ place = [m \in Mutators |-> 0]

Record ==
  /\ log' = IF applied' = applied THEN log ELSE Append(log, docs')
  /\ place' = [m \in Mutators |->
                 IF m \in applied' \ applied THEN Len(log) + 1 ELSE place[m]]

HNext == Next /\ Record

HSpec == HInit /\ [][HNext]_<<vars, history>>

-----------------------------------------------------------------------------
(***************************************************************************)
(* The refinement mapping.  A request is admitted from the lookup of its   *)
(* session to its answer; an answered change is open as long as its        *)
(* statement is in doubt.  What was inserted counts from the moment it is  *)
(* committed.                                                              *)
(***************************************************************************)
Phase(r) ==
  CASE pc[r] = "new" -> "new"
    [] pc[r] \in {"auth", "logout"} -> "asked"
    [] pc[r] = "done" -> IF r \in inDoubt THEN "open" ELSE "done"
    [] OTHER -> "admitted"

Rights == [d \in DocId |-> IF d \in KnownDocs THEN row[d] ELSE Unset]
Phases == [r \in Request |-> Phase(r)]
Statuses == [r \in Request |-> IF pc[r] = "done" THEN reply[r] ELSE 0]
Shown == [r \in Readers |-> IF Answered(r, 200) THEN held[r] ELSE {}]

Store == INSTANCE DocumentStore WITH
  rights <- Rights, phase <- Phases, status <- Statuses, shown <- Shown

(***************************************************************************)
(* The server is a store of documents whose changes take effect one at a   *)
(* time: whatever comes from the cache is one earlier version, no older    *)
(* than the changes that were confirmed before the request was sent, also  *)
(* when statements fail, land late, or the process restarts                *)
(* (handlers/documents.go:119-122, 241-294, 452-455; README.md:636-642).   *)
(***************************************************************************)
ImplementsDocumentStore == Store!Spec
=============================================================================
