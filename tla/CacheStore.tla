----------------------------- MODULE CacheStore -----------------------------
(***************************************************************************)
(* internal/cache/cache.go step by step: callers that run Get, Set and     *)
(* Invalidate concurrently on one Cache guarded by a sync.RWMutex.  Every  *)
(* map operation, loop iteration and lock operation is a step of its own.  *)
(***************************************************************************)
EXTENDS CacheCalls

CONSTANTS
  None,           \* no caller
  MaxGeneration   \* bound: no new Invalidate starts at this generation

ASSUME CallerAssumption == None \notin Caller
ASSUME BoundAssumption == MaxGeneration \in Nat

VARIABLES
  items,       \* Cache.items
  bytes,       \* Cache.bytes
  generation,  \* Cache.generation
  writer,      \* the caller that holds the write lock or drains the readers
  readers,     \* the callers that hold the read lock
  queued,      \* the callers whose RLock waits for the writer
  pc,          \* where each caller is
  call,        \* the operation each caller runs, with its arguments
  found,       \* the response Get read, or Missing
  version,     \* the generation Get read
  todo,        \* the entries the loop of Invalidate has still to visit
  saved        \* history: the entries when the writer's operation began

mutex == <<writer, readers, queued>>
got == <<found, version>>
vars == <<items, bytes, generation, mutex, pc, call, got, todo, saved>>

Init ==
  /\ items = Empty
  /\ bytes = 0
  /\ generation = 0
  /\ writer = None
  /\ readers = {}
  /\ queued = {}
  /\ pc = [c \in Caller |-> "idle"]
  /\ call = [c \in Caller |-> NoCall]
  /\ found = [c \in Caller |-> Missing]
  /\ version = [c \in Caller |-> 0]
  /\ todo = {}
  /\ saved = Empty

Goto(c, from, to) == pc[c] = from /\ pc' = [pc EXCEPT ![c] = to]

-----------------------------------------------------------------------------
(***************************************************************************)
(* A caller starts an operation.                                           *)
(***************************************************************************)
Start(c, from, to, request) ==
  /\ Goto(c, from, to)
  /\ call' = [call EXCEPT ![c] = request]
  /\ UNCHANGED <<items, bytes, generation, mutex, got, todo, saved>>

StartGet(c) ==
  \E request \in GetCall : Start(c, "idle", "rlock", request)

\* No Get has returned the generation of an Invalidate that is under way.
Published ==
  IF \E c \in Caller : pc[c] = "sweep" THEN generation - 1 ELSE generation

StartSet(c) ==
  \E request \in SetCallOf(0..Published) : Start(c, "idle", "lock", request)

StartInvalidate(c) ==
  /\ generation < MaxGeneration
  /\ \E request \in InvalidateCall : Start(c, "idle", "lock", request)

-----------------------------------------------------------------------------
(***************************************************************************)
(* sync.RWMutex.  Lock announces the writer first and then waits until the *)
(* readers that already hold the lock have left; RLock waits while a writer*)
(* is announced; Unlock admits every reader that waits.                    *)
(***************************************************************************)
RLock(c) ==
  /\ Goto(c, "rlock", "lookup")
  /\ IF writer = None
       THEN readers' = readers \cup {c} /\ UNCHANGED queued
       ELSE queued' = queued \cup {c} /\ UNCHANGED readers
  /\ UNCHANGED <<items, bytes, generation, writer, call, got, todo, saved>>

\* Mutant: Get returns early on a miss, without RUnlock.
RUnlockOnHit(c) ==
  /\ Goto(c, "runlock", "idle")
  /\ readers' = IF found[c] = Missing THEN readers ELSE readers \ {c}
  /\ call' = [call EXCEPT ![c] = NoCall]
  /\ found' = [found EXCEPT ![c] = Missing]
  /\ version' = [version EXCEPT ![c] = 0]
  /\ UNCHANGED <<items, bytes, generation, writer, queued, todo, saved>>

\* The locals of a call are gone once it has returned.
RUnlock(c) ==
  /\ Goto(c, "runlock", "idle")
  /\ readers' = readers \ {c}
  /\ call' = [call EXCEPT ![c] = NoCall]
  /\ found' = [found EXCEPT ![c] = Missing]
  /\ version' = [version EXCEPT ![c] = 0]
  /\ UNCHANGED <<items, bytes, generation, writer, queued, todo, saved>>

Lock(c) ==
  /\ writer = None
  /\ Goto(c, "lock", IF call[c].op = "Set" THEN "check" ELSE "bump")
  /\ writer' = c
  /\ UNCHANGED <<items, bytes, generation, readers, queued, call, got, todo, saved>>

\* The writer c is past the readers.
Exclusive(c) == writer = c /\ readers = {}

Unlock(c) ==
  /\ pc[c] = "unlock" \/ (pc[c] = "sweep" /\ todo = {})
  /\ pc' = [pc EXCEPT ![c] = "idle"]
  /\ writer' = None
  /\ readers' = queued
  /\ queued' = {}
  /\ call' = [call EXCEPT ![c] = NoCall]
  /\ saved' = Empty
  /\ UNCHANGED <<items, bytes, generation, got, todo>>

-----------------------------------------------------------------------------
(***************************************************************************)
(* Get reads the entry and then the generation, under the read lock.       *)
(***************************************************************************)
Lookup(key) == IF key \in DOMAIN items THEN items[key] ELSE Missing

\* Mutant: Get does not take the read lock.
GetEntryUnlocked(c) ==
  /\ Goto(c, "lookup", "version")
  /\ found' = [found EXCEPT ![c] = Lookup(call[c].key)]
  /\ UNCHANGED <<items, bytes, generation, mutex, call, version, todo, saved>>

GetEntry(c) ==
  /\ c \in readers
  /\ Goto(c, "lookup", "version")
  /\ found' = [found EXCEPT ![c] = Lookup(call[c].key)]
  /\ UNCHANGED <<items, bytes, generation, mutex, call, version, todo, saved>>

GetVersion(c) ==
  /\ Goto(c, "version", "runlock")
  /\ version' = [version EXCEPT ![c] = generation]
  /\ UNCHANGED <<items, bytes, generation, mutex, call, found, todo, saved>>

-----------------------------------------------------------------------------
(***************************************************************************)
(* Set: refuse the response, or drop the entry it replaces, evict entries  *)
(* while it does not fit, and store it.  An iteration of the eviction loop *)
(* removes whichever entry the iteration over the map yields first.        *)
(***************************************************************************)
Refused(c) ==
  call[c].gen # generation \/ ~Admissible(call[c].body)

SetRefuse(c) ==
  /\ Exclusive(c)
  /\ Goto(c, "check", "unlock")
  /\ Refused(c)
  /\ UNCHANGED <<items, bytes, generation, mutex, call, got, todo, saved>>

\* Mutant: the bytes of the replaced entry are not given back.
SetReplaceKeepsBytes(c) ==
  /\ Exclusive(c)
  /\ Goto(c, "check", "evict")
  /\ ~Refused(c)
  /\ items' = Without(items, {call[c].key})
  /\ saved' = items
  /\ UNCHANGED <<bytes, generation, mutex, call, got, todo>>

SetReplace(c) ==
  /\ Exclusive(c)
  /\ Goto(c, "check", "evict")
  /\ ~Refused(c)
  /\ IF call[c].key \in DOMAIN items
       THEN /\ items' = Without(items, {call[c].key})
            /\ bytes' = bytes - Size[items[call[c].key]]
       ELSE UNCHANGED <<items, bytes>>
  /\ saved' = items
  /\ UNCHANGED <<generation, mutex, call, got, todo>>

\* Mutant: the loop stops one entry too early.
RoomForOneTooMany(body) ==
  Cardinality(DOMAIN items) <= MaxEntries /\ Size[body] <= MaxBytes - bytes

\* Mutant: a body that takes exactly the room left does not fit.
RoomForStrict(body) ==
  Cardinality(DOMAIN items) < MaxEntries /\ Size[body] < MaxBytes - bytes

RoomFor(body) ==
  Cardinality(DOMAIN items) < MaxEntries /\ Size[body] <= MaxBytes - bytes

Evict(c) ==
  /\ pc[c] = "evict"
  /\ ~RoomFor(call[c].body)
  /\ IF items = Empty
       THEN UNCHANGED <<items, bytes>>    \* the loop spins
       ELSE \E k \in DOMAIN items :
              /\ items' = Without(items, {k})
              /\ bytes' = bytes - Size[items[k]]
  /\ UNCHANGED <<generation, mutex, pc, call, got, todo, saved>>

Insert(c) ==
  /\ Goto(c, "evict", "unlock")
  /\ RoomFor(call[c].body)
  /\ items' = With(items, call[c].key, call[c].body)
  /\ bytes' = bytes + Size[call[c].body]
  /\ UNCHANGED <<generation, mutex, call, got, todo, saved>>

-----------------------------------------------------------------------------
(***************************************************************************)
(* Invalidate: advance the generation, then visit every entry in whatever  *)
(* order the iteration over the map yields and drop those it covers.       *)
(***************************************************************************)
\* Mutant: the generation runs backwards.
BumpBackwards(c) ==
  /\ Exclusive(c)
  /\ Goto(c, "bump", "sweep")
  /\ generation' = generation - 1
  /\ todo' = DOMAIN items
  /\ saved' = items
  /\ UNCHANGED <<items, bytes, mutex, call, got>>

Bump(c) ==
  /\ Exclusive(c)
  /\ Goto(c, "bump", "sweep")
  /\ generation' = generation + 1
  /\ todo' = DOMAIN items
  /\ saved' = items
  /\ UNCHANGED <<items, bytes, mutex, call, got>>

\* Mutant: the copies of the document stay.
SweepListsOnly(c) ==
  /\ pc[c] = "sweep"
  /\ \E k \in todo :
       /\ todo' = todo \ {k}
       /\ IF k.doc = NoDoc
            THEN items' = Without(items, {k}) /\ bytes' = bytes - Size[items[k]]
            ELSE UNCHANGED <<items, bytes>>
  /\ UNCHANGED <<generation, mutex, pc, call, got, saved>>

Sweep(c) ==
  /\ pc[c] = "sweep"
  /\ \E k \in todo :
       /\ todo' = todo \ {k}
       /\ IF DroppedBy(call[c].doc, k)
            THEN items' = Without(items, {k}) /\ bytes' = bytes - Size[items[k]]
            ELSE UNCHANGED <<items, bytes>>
  /\ UNCHANGED <<generation, mutex, pc, call, got, saved>>

-----------------------------------------------------------------------------
Step(c) ==
  \/ RLock(c) \/ GetEntry(c) \/ GetVersion(c) \/ RUnlock(c)
  \/ SetRefuse(c) \/ SetReplace(c) \/ Evict(c) \/ Insert(c)
  \/ Bump(c) \/ Sweep(c)
  \/ Unlock(c)

Next ==
  \E c \in Caller :
    StartGet(c) \/ StartSet(c) \/ StartInvalidate(c) \/ Lock(c) \/ Step(c)

(***************************************************************************)
(* A goroutine that can run does run, and sync.Mutex hands the lock to a   *)
(* caller that has waited too long.  Nobody is obliged to call the cache.  *)
(***************************************************************************)
Fairness == \A c \in Caller : WF_vars(Step(c)) /\ SF_vars(Lock(c))

Spec == Init /\ [][Next]_vars

FairSpec == Spec /\ Fairness

-----------------------------------------------------------------------------
TypeOK ==
  /\ IsCache(items)
  /\ bytes \in Int
  /\ generation \in Nat
  /\ writer \in Caller \cup {None}
  /\ readers \in SUBSET Caller
  /\ queued \in SUBSET Caller
  /\ pc \in [Caller -> {"idle", "rlock", "lookup", "version", "runlock", "lock",
                        "check", "evict", "unlock", "bump", "sweep"}]
  /\ call \in [Caller -> Call]
  /\ found \in [Caller -> Body \cup {Missing}]
  /\ version \in [Caller -> Nat]
  /\ todo \in SUBSET Key
  /\ IsCache(saved)

(***************************************************************************)
(* The byte counter is the length of what is cached, through replacement,  *)
(* eviction and invalidation: a drift would shrink the cache for good or   *)
(* let it outgrow its limit (cache.go:68-83, 95-101).                      *)
(***************************************************************************)
BytesExact == bytes = BytesIn(items)

(***************************************************************************)
(* Neither limit is ever exceeded, not even between two statements.  The   *)
(* size is the real one, not the counter.                                  *)
(***************************************************************************)
WithinLimits ==
  DOMAIN items # {} =>
    Cardinality(DOMAIN items) <= MaxEntries /\ BytesIn(items) <= MaxBytes

(***************************************************************************)
(* The eviction loop always has an entry to remove.  With none left it     *)
(* would spin for ever with the write lock held (cache.go:74-80).          *)
(***************************************************************************)
EvictionNeverStuck ==
  \A c \in Caller :
    pc[c] = "evict" /\ items = Empty => RoomFor(call[c].body)

(***************************************************************************)
(* The response and the generation that Get returns belong together: both  *)
(* are those of the cache at the moment the read lock is released.  A      *)
(* generation younger than the response would let a stale result in.       *)
(***************************************************************************)
GetIsAtomic ==
  \A c \in Caller :
    pc[c] = "runlock" =>
      found[c] = Lookup(call[c].key) /\ version[c] = generation

(***************************************************************************)
(* Callers never wait for each other in a circle: while anybody waits for  *)
(* the lock, somebody is inside a method who need not wait, whether or not *)
(* an idle caller ever calls again (cache.go:41, 57, 90).                  *)
(***************************************************************************)
Waits(c) ==
  \/ pc[c] = "lock" /\ writer # None
  \/ pc[c] = "lookup" /\ c \notin readers
  \/ pc[c] \in {"check", "bump"} /\ readers # {}

NobodyWaitsForNobody ==
  (\E c \in Caller : Waits(c)) => \E c \in Caller : pc[c] # "idle" /\ ~Waits(c)

(***************************************************************************)
(* Concurrent calls behave as if each took effect at one moment between    *)
(* its start and its return: a Get when it reads the generation, a Set when*)
(* it refuses or stores the response, an Invalidate when it has visited the*)
(* last entry.  Until then the abstract cache is the one the operation     *)
(* began with (cache.go:40-102).                                           *)
(***************************************************************************)
Sweeping(c) == pc[c] = "sweep" /\ todo # {}

Phase(c) ==
  CASE pc[c] = "idle" -> "idle"
    [] pc[c] \in {"runlock", "unlock"} \/ (pc[c] = "sweep" /\ todo = {}) -> "done"
    [] OTHER -> "called"

Looping == \E c \in Caller : pc[c] = "evict" \/ Sweeping(c)

AtomicItems == IF Looping THEN saved ELSE items
AtomicGeneration == IF \E c \in Caller : Sweeping(c) THEN generation - 1 ELSE generation
AtomicPhase == [c \in Caller |-> Phase(c)]
AtomicResult ==
  [c \in Caller |-> IF pc[c] = "runlock" THEN [response |-> found[c], gen |-> version[c]]
                                         ELSE [response |-> Missing, gen |-> 0]]

Abstract == INSTANCE AtomicCache WITH
  items <- AtomicItems,
  generation <- AtomicGeneration,
  phase <- AtomicPhase,
  result <- AtomicResult

ImplementsAtomicCache == Abstract!Spec

(***************************************************************************)
(* Every call returns, whatever the other callers do.                      *)
(***************************************************************************)
EveryCallReturns ==
  \A c \in Caller : pc[c] # "idle" ~> pc[c] = "idle"
=============================================================================
