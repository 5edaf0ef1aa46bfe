-------------------------- MODULE CacheStoreProofs --------------------------
(***************************************************************************)
(* Invariants of CacheStore for every set of callers, keys and bodies and  *)
(* for all limits, disabled caches included; and CacheStore implements     *)
(* AtomicCache: with the lock and the loops of the code, every call takes  *)
(* effect at one moment.                                                   *)
(***************************************************************************)
EXTENDS CacheStore, FiniteSetTheorems, TLAPS

-----------------------------------------------------------------------------
\* Caches as functions from keys to bodies, and the room they take.

(***************************************************************************)
(* The empty cache is a cache, has no keys and takes no room.              *)
(***************************************************************************)
LEMMA EmptyCache ==
  /\ IsCache(Empty)
  /\ DOMAIN Empty = {}
  /\ Cells(Empty) = {}
  /\ IsFiniteSet(Cells(Empty))
  /\ BytesIn(Empty) = 0
<1>1. IsCache(Empty) /\ DOMAIN Empty = {}
  BY DEF IsCache, Empty
<1>2. Cells(Empty) = {}
  BY DEF Cells, Empty
<1> QED
  BY <1>1, <1>2, FS_EmptySet DEF BytesIn

(***************************************************************************)
(* Removing keys from a cache leaves a cache with the other entries.       *)
(***************************************************************************)
LEMMA WithoutCache ==
  ASSUME NEW cached, IsCache(cached), NEW K
  PROVE  /\ IsCache(Without(cached, K))
         /\ DOMAIN Without(cached, K) = DOMAIN cached \ K
         /\ \A k \in DOMAIN cached \ K : Without(cached, K)[k] = cached[k]
BY DEF IsCache, Without, Restrict

(***************************************************************************)
(* An entry takes as many cells as its body has bytes.                     *)
(***************************************************************************)
LEMMA CellsOfEntry ==
  ASSUME NEW key, NEW body \in Body
  PROVE  /\ IsFiniteSet(CellsOf(key, body))
         /\ Cardinality(CellsOf(key, body)) = Size[body]
<1>1. Size[body] \in Nat
  BY SizeAssumption
<1>2. IsFiniteSet(1..Size[body]) /\ Cardinality(1..Size[body]) = Size[body]
  BY <1>1, FS_Interval
<1>3. IsFiniteSet({key}) /\ Cardinality({key}) = 1
  BY FS_Singleton
<1> DEFINE keys == {key}
           cells == 1..Size[body]
<1>4. IsFiniteSet(keys \X cells)
      /\ Cardinality(keys \X cells) = Cardinality(keys) * Cardinality(cells)
  <2> HIDE DEF keys, cells
  <2> QED
    BY <1>2, <1>3, FS_Product DEF keys, cells
<1> QED
  BY <1>1, <1>2, <1>3, <1>4 DEF CellsOf

(***************************************************************************)
(* Removing an entry frees exactly the length of its body.                 *)
(***************************************************************************)
LEMMA BytesWithout ==
  ASSUME NEW cached, IsCache(cached), IsFiniteSet(Cells(cached)),
         NEW k \in DOMAIN cached
  PROVE  /\ IsFiniteSet(Cells(Without(cached, {k})))
         /\ BytesIn(Without(cached, {k})) = BytesIn(cached) - Size[cached[k]]
<1> DEFINE rest == Without(cached, {k})
           cells == CellsOf(k, cached[k])
<1>1. cached[k] \in Body /\ Size[cached[k]] \in Nat
  BY SizeAssumption DEF IsCache
<1>2. IsFiniteSet(cells) /\ Cardinality(cells) = Size[cached[k]]
  BY <1>1, CellsOfEntry
<1>3. cells \subseteq Cells(cached)
  BY DEF Cells
<1>4. Cells(rest) = Cells(cached) \ cells
  <2>1. \A j \in DOMAIN cached \ {k} : rest[j] = cached[j]
    BY WithoutCache
  <2>2. DOMAIN rest = DOMAIN cached \ {k}
    BY WithoutCache
  <2> QED
    BY <2>1, <2>2 DEF Cells, CellsOf
<1>5. Cells(cached) \cap cells = cells
  BY <1>3
<1>6. /\ IsFiniteSet(Cells(cached) \ cells)
      /\ Cardinality(Cells(cached) \ cells) =
           Cardinality(Cells(cached)) - Cardinality(cells)
  <2> HIDE DEF cells
  <2> QED
    BY <1>5, FS_Difference
<1> QED
  BY <1>2, <1>4, <1>6 DEF BytesIn

(***************************************************************************)
(* Storing a body under a new key takes exactly its length.                *)
(***************************************************************************)
LEMMA BytesWith ==
  ASSUME NEW cached, IsCache(cached), IsFiniteSet(Cells(cached)),
         NEW key \in Key \ DOMAIN cached, NEW body \in Body
  PROVE  /\ IsFiniteSet(Cells(With(cached, key, body)))
         /\ BytesIn(With(cached, key, body)) = BytesIn(cached) + Size[body]
<1> DEFINE more == With(cached, key, body)
           cells == CellsOf(key, body)
<1>1. Size[body] \in Nat
  BY SizeAssumption
<1>2. IsFiniteSet(cells) /\ Cardinality(cells) = Size[body]
  BY CellsOfEntry
<1>3. Cells(more) = Cells(cached) \cup cells
  <2>1. /\ DOMAIN more = DOMAIN cached \cup {key}
        /\ more[key] = body
        /\ \A j \in DOMAIN cached \ {key} : more[j] = cached[j]
    BY DEF With
  <2> QED
    BY <2>1 DEF Cells
<1>4. Cells(cached) \cap cells = {}
  BY DEF Cells, CellsOf
<1>5. Cardinality(Cells(cached) \cap cells) = 0
  BY <1>4, FS_EmptySet
<1>6. Cardinality(Cells(cached)) \in Nat
  BY FS_CardinalityType
<1>7. /\ IsFiniteSet(Cells(cached) \cup cells)
      /\ Cardinality(Cells(cached) \cup cells) =
           Cardinality(Cells(cached)) + Cardinality(cells)
             - Cardinality(Cells(cached) \cap cells)
  <2> HIDE DEF cells
  <2> QED
    BY <1>2, FS_Union
<1> QED
  BY <1>1, <1>2, <1>3, <1>5, <1>6, <1>7 DEF BytesIn

-----------------------------------------------------------------------------
(***************************************************************************)
(* The inductive invariant.  Mutex: a method that changes the cache is     *)
(* alone, and Get runs under the read lock.                                *)
(***************************************************************************)
Mutex ==
  \A c \in Caller :
    /\ pc[c] \in {"check", "bump", "evict", "sweep", "unlock"} => writer = c
    /\ pc[c] \in {"evict", "sweep", "unlock"} => readers = {}
    /\ pc[c] \in {"version", "runlock"} => c \in readers

\* Each caller runs the method it called.
CallMatches ==
  \A c \in Caller :
    /\ pc[c] \in {"rlock", "lookup", "version", "runlock"} => call[c] \in GetCall
    /\ pc[c] = "lock" => call[c] \in SetCall \cup InvalidateCall
    /\ pc[c] \in {"check", "evict"} => call[c] \in SetCall
    /\ pc[c] \in {"bump", "sweep"} => call[c] \in InvalidateCall

\* What the loops of Set and Invalidate rely on.
LoopInvariants ==
  \A c \in Caller :
    /\ pc[c] = "evict" => Admissible(call[c].body) /\ call[c].key \notin DOMAIN items
    /\ pc[c] = "sweep" => todo \subseteq DOMAIN items

Accounting ==
  /\ IsFiniteSet(DOMAIN items)
  /\ IsFiniteSet(Cells(items))
  /\ BytesExact

\* What Get has read so far is what the cache holds.
ReadSoFar ==
  \A c \in Caller :
    /\ pc[c] \in {"version", "runlock"} => found[c] = Lookup(call[c].key)
    /\ pc[c] = "runlock" => version[c] = generation

IInv ==
  /\ TypeOK
  /\ Mutex
  /\ CallMatches
  /\ LoopInvariants
  /\ Accounting
  /\ WithinLimits
  /\ ReadSoFar

-----------------------------------------------------------------------------
(***************************************************************************)
(* Init establishes the invariant: the new cache is empty and idle.        *)
(***************************************************************************)
LEMMA InitInv == Init => IInv
<1> SUFFICES ASSUME Init PROVE IInv
  OBVIOUS
<1>1. TypeOK
  BY EmptyCache, BoundAssumption DEF Init, TypeOK, Call
<1>2. Mutex /\ CallMatches /\ LoopInvariants /\ ReadSoFar
  BY DEF Init, Mutex, CallMatches, LoopInvariants, ReadSoFar
<1>3. Accounting /\ WithinLimits
  BY EmptyCache, FS_EmptySet DEF Init, Accounting, BytesExact, WithinLimits
<1> QED
  BY <1>1, <1>2, <1>3 DEF IInv

(***************************************************************************)
(* Steps that leave the entries, the counter and the generation alone keep *)
(* the accounting, the limits and what the readers have read.              *)
(***************************************************************************)
LEMMA UnchangedCache ==
  ASSUME IInv, UNCHANGED <<items, bytes>>
  PROVE  Accounting' /\ WithinLimits'
BY DEF IInv, Accounting, WithinLimits, BytesExact

(***************************************************************************)
(* Starting a call touches nothing but the caller's own state.             *)
(***************************************************************************)
LEMMA StartInv ==
  ASSUME IInv, NEW c \in Caller, StartGet(c) \/ StartSet(c) \/ StartInvalidate(c)
  PROVE  IInv'
<1>1. \E to \in {"rlock", "lock"}, request \in Call :
        /\ Start(c, "idle", to, request)
        /\ to = "rlock" => request \in GetCall
        /\ to = "lock" => request \in SetCall \cup InvalidateCall
  <2>1. CASE StartGet(c)
    BY <2>1 DEF StartGet, Call, GetCall
  <2>2. CASE StartSet(c)
    <3>1. 0..Published \subseteq Nat
      BY DEF IInv, TypeOK, Published
    <3> QED
      BY <2>2, <3>1 DEF StartSet, Call, SetCall, SetCallOf
  <2>3. CASE StartInvalidate(c)
    BY <2>3 DEF StartInvalidate, Call, InvalidateCall
  <2> QED
    BY <2>1, <2>2, <2>3
<1>2. PICK to \in {"rlock", "lock"}, request \in Call :
        /\ Start(c, "idle", to, request)
        /\ to = "rlock" => request \in GetCall
        /\ to = "lock" => request \in SetCall \cup InvalidateCall
  BY <1>1
<1>3. TypeOK'
  BY <1>2 DEF IInv, TypeOK, Start, Goto, mutex, got
<1>4. Mutex' /\ CallMatches'
  BY <1>2 DEF IInv, TypeOK, Mutex, CallMatches, Start, Goto, mutex, got
<1>5. LoopInvariants' /\ ReadSoFar'
  BY <1>2 DEF IInv, TypeOK, LoopInvariants, ReadSoFar, Lookup, Start, Goto, mutex, got
<1> QED
  BY <1>2, <1>3, <1>4, <1>5, UnchangedCache DEF IInv, Start

(***************************************************************************)
(* The lock operations and the reads of Get.                               *)
(***************************************************************************)
LEMMA LockInv ==
  ASSUME IInv, NEW c \in Caller,
         RLock(c) \/ RUnlock(c) \/ Lock(c) \/ Unlock(c) \/ SetRefuse(c)
  PROVE  IInv'
<1> USE DEF RLock, RUnlock, Lock, Unlock, SetRefuse, Goto, mutex, got
<1>1. TypeOK'
  <2>1. CASE RLock(c) \/ Lock(c) \/ SetRefuse(c)
    BY <2>1 DEF IInv, TypeOK
  <2>2. CASE RUnlock(c)
    BY <2>2 DEF IInv, TypeOK, Call
  <2>3. CASE Unlock(c)
    BY <2>3, EmptyCache DEF IInv, TypeOK, Call
  <2> QED
    BY <2>1, <2>2, <2>3
<1>2. Mutex'
  BY CallerAssumption DEF IInv, TypeOK, Mutex, Exclusive
<1>3. CallMatches'
  BY DEF IInv, TypeOK, CallMatches, SetCall, SetCallOf, InvalidateCall
<1>4. LoopInvariants'
  BY DEF IInv, TypeOK, LoopInvariants
<1>5. ReadSoFar'
  BY DEF IInv, TypeOK, ReadSoFar, Lookup
<1> QED
  BY <1>1, <1>2, <1>3, <1>4, <1>5, UnchangedCache DEF IInv

LEMMA GetInv ==
  ASSUME IInv, NEW c \in Caller, GetEntry(c) \/ GetVersion(c)
  PROVE  IInv'
<1> USE DEF GetEntry, GetVersion, Goto, mutex, got
<1>1. Lookup(call[c].key) \in Body \cup {Missing}
  BY DEF IInv, TypeOK, IsCache, Lookup
<1>2. TypeOK'
  BY <1>1 DEF IInv, TypeOK
<1>3. Mutex'
  BY DEF IInv, TypeOK, Mutex
<1>4. CallMatches' /\ LoopInvariants'
  BY DEF IInv, TypeOK, CallMatches, LoopInvariants
<1>5. ReadSoFar'
  BY DEF IInv, TypeOK, ReadSoFar, Lookup
<1> QED
  BY <1>2, <1>3, <1>4, <1>5, UnchangedCache DEF IInv

-----------------------------------------------------------------------------
(***************************************************************************)
(* Dropping an entry together with its bytes keeps the accounting and the  *)
(* limits.                                                                 *)
(***************************************************************************)
LEMMA DropEntry ==
  ASSUME IInv, NEW k \in DOMAIN items,
         items' = Without(items, {k}), bytes' = bytes - Size[items[k]]
  PROVE  /\ Accounting'
         /\ WithinLimits'
         /\ IsCache(items')
         /\ bytes' \in Int
         /\ DOMAIN items' = DOMAIN items \ {k}
<1>1. /\ IsCache(items')
      /\ DOMAIN items' = DOMAIN items \ {k}
  BY WithoutCache DEF IInv, TypeOK
<1>2. items[k] \in Body /\ Size[items[k]] \in Nat
  BY SizeAssumption DEF IInv, TypeOK, IsCache
<1>3. /\ IsFiniteSet(Cells(items'))
      /\ BytesIn(items') = BytesIn(items) - Size[items[k]]
  BY BytesWithout DEF IInv, TypeOK, Accounting
<1>4. /\ IsFiniteSet(DOMAIN items')
      /\ Cardinality(DOMAIN items') = Cardinality(DOMAIN items) - 1
  BY <1>1, FS_RemoveElement DEF IInv, Accounting
<1>5. Accounting'
  BY <1>3, <1>4 DEF IInv, Accounting, BytesExact
<1>6. Cardinality(DOMAIN items) \in Nat /\ BytesIn(items) \in Nat
  BY FS_CardinalityType DEF IInv, Accounting, BytesIn
<1>7. WithinLimits'
  BY <1>2, <1>3, <1>4, <1>6, LimitAssumption DEF IInv, WithinLimits
<1> QED
  BY <1>1, <1>2, <1>5, <1>7 DEF IInv, TypeOK

\* The readers have left, and nobody else is past the lock.
LEMMA WriterIsAlone ==
  ASSUME IInv, NEW c \in Caller, writer = c, readers = {}
  PROVE  \A d \in Caller \ {c} :
           pc[d] \notin {"version", "runlock", "check", "bump", "evict", "sweep", "unlock"}
BY CallerAssumption DEF IInv, Mutex

(***************************************************************************)
(* The statements of Set.                                                  *)
(***************************************************************************)
LEMMA SetReplaceInv ==
  ASSUME IInv, NEW c \in Caller, SetReplace(c)
  PROVE  IInv'
<1> USE DEF SetReplace, Goto, mutex, got
<1>1. call[c] \in SetCall /\ writer = c /\ readers = {}
  BY DEF IInv, CallMatches, Exclusive
<1>2. /\ Accounting' /\ WithinLimits'
      /\ IsCache(items') /\ bytes' \in Int
      /\ DOMAIN items' = DOMAIN items \ {call[c].key}
  <2>1. CASE call[c].key \in DOMAIN items
    BY <2>1, DropEntry
  <2>2. CASE call[c].key \notin DOMAIN items
    BY <2>2, UnchangedCache DEF IInv, TypeOK
  <2> QED
    BY <2>1, <2>2
<1>3. TypeOK'
  BY <1>2 DEF IInv, TypeOK
<1>4. Mutex' /\ CallMatches'
  BY <1>1 DEF IInv, TypeOK, Mutex, CallMatches
<1>5. LoopInvariants' /\ ReadSoFar'
  BY <1>1, <1>2, WriterIsAlone
     DEF IInv, TypeOK, LoopInvariants, ReadSoFar, Refused, Admissible
<1> QED
  BY <1>2, <1>3, <1>4, <1>5 DEF IInv

LEMMA EvictInv ==
  ASSUME IInv, NEW c \in Caller, Evict(c)
  PROVE  IInv'
<1> USE DEF Evict, mutex, got
<1>1. writer = c /\ readers = {}
  BY DEF IInv, Mutex
<1>2. /\ Accounting' /\ WithinLimits'
      /\ IsCache(items') /\ bytes' \in Int
      /\ DOMAIN items' \subseteq DOMAIN items
  <2>1. CASE items = Empty
    BY <2>1, UnchangedCache DEF IInv, TypeOK
  <2>2. CASE items # Empty
    BY <2>2, DropEntry
  <2> QED
    BY <2>1, <2>2
<1>3. TypeOK'
  BY <1>2 DEF IInv, TypeOK
<1>4. Mutex' /\ CallMatches'
  BY DEF IInv, Mutex, CallMatches
<1>5. LoopInvariants' /\ ReadSoFar'
  BY <1>1, <1>2, WriterIsAlone DEF IInv, LoopInvariants, ReadSoFar, Admissible
<1> QED
  BY <1>2, <1>3, <1>4, <1>5 DEF IInv

LEMMA InsertInv ==
  ASSUME IInv, NEW c \in Caller, Insert(c)
  PROVE  IInv'
<1> USE DEF Insert, Goto, mutex, got
<1> DEFINE key == call[c].key
           body == call[c].body
<1>1. writer = c /\ readers = {}
  BY DEF IInv, Mutex
<1>2. key \in Key \ DOMAIN items /\ body \in Body /\ Size[body] \in Nat
  BY SizeAssumption DEF IInv, CallMatches, LoopInvariants, SetCall, SetCallOf
<1>3. /\ IsCache(items')
      /\ DOMAIN items' = DOMAIN items \cup {key}
  BY <1>2 DEF IInv, TypeOK, IsCache, With
<1>4. /\ IsFiniteSet(Cells(items'))
      /\ BytesIn(items') = BytesIn(items) + Size[body]
  BY <1>2, BytesWith DEF IInv, TypeOK, Accounting
<1>5. /\ IsFiniteSet(DOMAIN items')
      /\ Cardinality(DOMAIN items') = Cardinality(DOMAIN items) + 1
  BY <1>2, <1>3, FS_AddElement DEF IInv, Accounting
<1>6. Accounting'
  BY <1>4, <1>5 DEF IInv, Accounting, BytesExact
<1>7. Cardinality(DOMAIN items) \in Nat /\ BytesIn(items) \in Nat
  BY FS_CardinalityType DEF IInv, Accounting, BytesIn
<1>8. WithinLimits'
  BY <1>2, <1>4, <1>5, <1>7, LimitAssumption
     DEF IInv, WithinLimits, RoomFor, Accounting, BytesExact
<1>9. TypeOK'
  BY <1>2, <1>3 DEF IInv, TypeOK
<1>10. Mutex' /\ CallMatches'
  BY DEF IInv, TypeOK, Mutex, CallMatches
<1>11. LoopInvariants' /\ ReadSoFar'
  BY <1>1, WriterIsAlone DEF IInv, TypeOK, LoopInvariants, ReadSoFar
<1> QED
  BY <1>6, <1>8, <1>9, <1>10, <1>11 DEF IInv

-----------------------------------------------------------------------------
(***************************************************************************)
(* The statements of Invalidate.                                           *)
(***************************************************************************)
LEMMA BumpInv ==
  ASSUME IInv, NEW c \in Caller, Bump(c)
  PROVE  IInv'
<1> USE DEF Bump, Goto, mutex, got
<1>1. writer = c /\ readers = {}
  BY DEF Exclusive
<1>2. TypeOK'
  BY DEF IInv, TypeOK, IsCache
<1>3. Mutex' /\ CallMatches'
  BY <1>1 DEF IInv, TypeOK, Mutex, CallMatches
<1>4. LoopInvariants' /\ ReadSoFar'
  BY <1>1, WriterIsAlone DEF IInv, TypeOK, LoopInvariants, ReadSoFar
<1> QED
  BY <1>2, <1>3, <1>4, UnchangedCache DEF IInv

LEMMA SweepInv ==
  ASSUME IInv, NEW c \in Caller, Sweep(c)
  PROVE  IInv'
<1> USE DEF mutex, got
<1>1. writer = c /\ readers = {} /\ pc[c] = "sweep"
  BY DEF Sweep, IInv, Mutex
<1>2. PICK k \in todo :
        /\ todo' = todo \ {k}
        /\ IF DroppedBy(call[c].doc, k)
             THEN items' = Without(items, {k}) /\ bytes' = bytes - Size[items[k]]
             ELSE UNCHANGED <<items, bytes>>
  BY DEF Sweep
<1>3. k \in DOMAIN items /\ todo \subseteq DOMAIN items
  BY <1>1 DEF IInv, LoopInvariants
<1>4. /\ Accounting' /\ WithinLimits'
      /\ IsCache(items') /\ bytes' \in Int
      /\ todo' \subseteq DOMAIN items'
  <2>1. CASE DroppedBy(call[c].doc, k)
    BY <1>2, <1>3, <2>1, DropEntry
  <2>2. CASE ~DroppedBy(call[c].doc, k)
    BY <1>2, <1>3, <2>2, UnchangedCache DEF IInv, TypeOK
  <2> QED
    BY <2>1, <2>2
<1>5. TypeOK'
  BY <1>2, <1>4 DEF Sweep, IInv, TypeOK
<1>6. Mutex' /\ CallMatches'
  BY DEF Sweep, IInv, Mutex, CallMatches
<1>7. LoopInvariants' /\ ReadSoFar'
  BY <1>1, <1>4, WriterIsAlone DEF Sweep, IInv, LoopInvariants, ReadSoFar
<1> QED
  BY <1>4, <1>5, <1>6, <1>7 DEF IInv

-----------------------------------------------------------------------------
\* Every step keeps the invariant.
LEMMA InvNext == IInv /\ [Next]_vars => IInv'
<1> SUFFICES ASSUME IInv, [Next]_vars PROVE IInv'
  OBVIOUS
<1>1. CASE UNCHANGED vars
  <2>1. Accounting' /\ WithinLimits'
    BY <1>1, UnchangedCache DEF vars
  <2>2. TypeOK' /\ Mutex' /\ CallMatches'
    BY <1>1 DEF IInv, TypeOK, Mutex, CallMatches, vars, mutex, got
  <2>3. LoopInvariants' /\ ReadSoFar'
    BY <1>1 DEF IInv, LoopInvariants, ReadSoFar, Lookup, vars, mutex, got
  <2> QED
    BY <2>1, <2>2, <2>3 DEF IInv
<1>2. CASE Next
  BY <1>2, StartInv, LockInv, GetInv, SetReplaceInv, EvictInv, InsertInv, BumpInv,
     SweepInv DEF Next, Step
<1> QED
  BY <1>1, <1>2

(***************************************************************************)
(* IInv is an invariant of the specification.                              *)
(***************************************************************************)
THEOREM Invariance == Spec => []IInv
BY InitInv, InvNext, PTL DEF Spec

(***************************************************************************)
(* The types of the variables of CacheStore.                               *)
(***************************************************************************)
THEOREM TypeCorrect == Spec => []TypeOK
BY Invariance, PTL DEF IInv

(***************************************************************************)
(* Cache.bytes is always the length of what Cache.items holds, whatever    *)
(* sequence of replacements, evictions and invalidations came before.      *)
(***************************************************************************)
THEOREM CounterIsExact == Spec => []BytesExact
<1>1. IInv => BytesExact
  BY DEF IInv, Accounting
<1> QED
  BY <1>1, Invariance, PTL

(***************************************************************************)
(* The cache never outgrows either limit.                                  *)
(***************************************************************************)
THEOREM LimitsHold == Spec => []WithinLimits
BY Invariance, PTL DEF IInv

(***************************************************************************)
(* The eviction loop of Set never finds the map empty: an admissible body  *)
(* fits into an empty cache because the counter is exact.                  *)
(***************************************************************************)
THEOREM EvictionTerminates == Spec => []EvictionNeverStuck
<1>1. IInv => EvictionNeverStuck
  <2> SUFFICES ASSUME IInv, NEW c \in Caller, pc[c] = "evict", items = Empty
               PROVE  RoomFor(call[c].body)
    BY DEF EvictionNeverStuck
  <2>1. DOMAIN items = {} /\ bytes = 0
    BY EmptyCache DEF IInv, Accounting, BytesExact
  <2>2. Admissible(call[c].body) /\ call[c].body \in Body
    BY DEF IInv, LoopInvariants, CallMatches, SetCall, SetCallOf
  <2>3. Size[call[c].body] \in Nat
    BY <2>2, SizeAssumption
  <2> QED
    BY <2>1, <2>2, <2>3, FS_EmptySet, LimitAssumption DEF RoomFor, Admissible
<1> QED
  BY <1>1, Invariance, PTL

(***************************************************************************)
(* Get returns an entry and a generation of one and the same cache.        *)
(***************************************************************************)
THEOREM GetReturnsASnapshot == Spec => []GetIsAtomic
<1>1. IInv => GetIsAtomic
  BY DEF IInv, ReadSoFar, GetIsAtomic
<1> QED
  BY <1>1, Invariance, PTL

-----------------------------------------------------------------------------
(***************************************************************************)
(* Who can be in the way of whom: the writer and the readers are inside    *)
(* their methods, and readers queue only behind a writer.                  *)
(***************************************************************************)
InTheWay ==
  /\ writer # None => pc[writer] \in {"check", "bump", "evict", "sweep", "unlock"}
  /\ \A c \in readers : pc[c] \in {"lookup", "version", "runlock"}
  /\ \A c \in queued : pc[c] = "lookup"
  /\ \A c \in Caller : pc[c] = "lookup" => c \in readers \cup queued
  /\ readers \cap queued = {}
  /\ queued # {} => writer # None

WInv == IInv /\ InTheWay

LEMMA WaitNext == WInv /\ [Next]_vars => InTheWay'
<1> SUFFICES ASSUME WInv, [Next]_vars PROVE InTheWay'
  OBVIOUS
<1>1. CASE UNCHANGED vars
  BY <1>1 DEF WInv, InTheWay, vars, mutex, got
<1>2. ASSUME NEW c \in Caller, StartGet(c) \/ StartSet(c) \/ StartInvalidate(c)
      PROVE  InTheWay'
  <2>1. PICK to \in {"rlock", "lock"}, request \in Call : Start(c, "idle", to, request)
    <3>1. 0..Published \subseteq Nat
      BY DEF WInv, IInv, TypeOK, Published
    <3> QED
      BY <1>2, <3>1 DEF StartGet, StartSet, StartInvalidate, Call, GetCall, SetCall,
                        SetCallOf, InvalidateCall
  <2> QED
    BY <2>1 DEF WInv, IInv, TypeOK, InTheWay, Start, Goto, mutex, got
<1>3. ASSUME NEW c \in Caller, RLock(c) \/ RUnlock(c) \/ Lock(c) PROVE InTheWay'
  BY <1>3, CallerAssumption
     DEF WInv, IInv, TypeOK, InTheWay, RLock, RUnlock, Lock, Goto, mutex, got
<1>4. ASSUME NEW c \in Caller, Unlock(c) PROVE InTheWay'
  <2>1. writer = c /\ readers = {}
    BY <1>4 DEF WInv, IInv, Mutex, Unlock
  <2> QED
    BY <1>4, <2>1, CallerAssumption DEF WInv, IInv, TypeOK, InTheWay, Unlock
<1>5. ASSUME NEW c \in Caller, GetEntry(c) \/ GetVersion(c) PROVE InTheWay'
  BY <1>5 DEF WInv, IInv, TypeOK, InTheWay, GetEntry, GetVersion, Goto, mutex
<1>6. ASSUME NEW c \in Caller,
             SetRefuse(c) \/ SetReplace(c) \/ Insert(c) \/ Bump(c) PROVE InTheWay'
  BY <1>6 DEF WInv, IInv, TypeOK, InTheWay, SetRefuse, SetReplace, Insert, Bump, Goto, mutex
<1>7. ASSUME NEW c \in Caller, Evict(c) \/ Sweep(c) PROVE InTheWay'
  BY <1>7 DEF WInv, InTheWay, Evict, Sweep, mutex
<1> QED
  BY <1>1, <1>2, <1>3, <1>4, <1>5, <1>6, <1>7 DEF Next, Step

(***************************************************************************)
(* No circle of waiting callers, for any number of them.                   *)
(***************************************************************************)
THEOREM NoCircle == Spec => []NobodyWaitsForNobody
<1>1. Init => WInv
  BY InitInv DEF WInv, Init, InTheWay
<1>2. WInv /\ [Next]_vars => WInv'
  BY InvNext, WaitNext DEF WInv
<1>3. WInv => NobodyWaitsForNobody
  <2> SUFFICES ASSUME WInv, NEW c \in Caller, Waits(c)
               PROVE  \E d \in Caller : pc[d] # "idle" /\ ~Waits(d)
    BY DEF NobodyWaitsForNobody
  <2>1. CASE readers # {}
    BY <2>1 DEF WInv, IInv, TypeOK, InTheWay, Waits
  <2>2. CASE readers = {}
    <3>1. writer # None
      BY <2>2 DEF WInv, IInv, Mutex, InTheWay, Waits
    <3> QED
      BY <2>2, <3>1 DEF WInv, IInv, TypeOK, InTheWay, Waits
  <2> QED
    BY <2>1, <2>2
<1> QED
  BY <1>1, <1>2, <1>3, PTL DEF Spec

-----------------------------------------------------------------------------
(***************************************************************************)
(* How far the loops have come from the entries they began with.           *)
(***************************************************************************)
\* Set has evicted V, and had no room before the last of them.
Evicted(c, V) ==
  LET others == Without(saved, {call[c].key}) IN
  /\ V \subseteq DOMAIN others
  /\ items = Without(others, V)
  /\ V # {} => \E last \in V : ~Abstract!Fits(Without(others, V \ {last}), call[c].body)

\* Invalidate has dropped what it had to among the keys it has visited.
Swept(c) ==
  /\ todo \subseteq DOMAIN saved
  /\ items = Without(saved, {k \in DOMAIN saved \ todo : DroppedBy(call[c].doc, k)})

Progress ==
  \A c \in Caller :
    /\ pc[c] = "evict" => call[c].gen = generation /\ \E V \in SUBSET Key : Evicted(c, V)
    /\ pc[c] = "sweep" => Swept(c) /\ generation > 0

RInv == IInv /\ Progress

LEMMA WithoutNothing ==
  ASSUME NEW cached, IsCache(cached), NEW K, K \cap DOMAIN cached = {}
  PROVE  Without(cached, K) = cached
  BY DEF IsCache, Without, Restrict

LEMMA RoomIsFit ==
  ASSUME IInv, NEW body
  PROVE  RoomFor(body) <=> Abstract!Fits(items, body)
<1>1. Abstract!Cells(items) = Cells(items)
  BY Zenon DEF Abstract!Cells, Abstract!CellsOf, Cells, CellsOf
<1>2. \A S : Abstract!Cardinality(S) = Cardinality(S)
  BY Zenon DEF Abstract!Cardinality, Cardinality
<1>3. Abstract!BytesIn(items) = bytes
  BY <1>1, <1>2 DEF IInv, Accounting, BytesExact, Abstract!BytesIn, BytesIn
<1> QED
  BY <1>2, <1>3 DEF RoomFor, Abstract!Fits

\* A step of somebody else leaves the loop of c where it is.
LEMMA OthersKeepProgress ==
  ASSUME RInv, [Next]_vars, NEW c \in Caller, pc'[c] = pc[c], call'[c] = call[c],
         UNCHANGED <<items, generation, todo, saved>>
  PROVE  /\ pc'[c] = "evict" =>
              call'[c].gen = generation' /\ \E V \in SUBSET Key : Evicted(c, V)'
         /\ pc'[c] = "sweep" => Swept(c)' /\ generation' > 0
  BY DEF RInv, Progress, Evicted, Swept, Abstract!Fits

LEMMA ReplaceStarts ==
  ASSUME RInv, NEW c \in Caller, SetReplace(c)
  PROVE  call'[c].gen = generation' /\ \E V \in SUBSET Key : Evicted(c, V)'
<1>1. /\ saved' = items /\ UNCHANGED <<generation, call>> /\ IsCache(items)
      /\ call[c].gen = generation
  BY DEF SetReplace, Refused, RInv, IInv, TypeOK
<1>2. items' = Without(items, {call[c].key})
  BY <1>1, WithoutNothing DEF SetReplace
<1>3. items' = Without(items', {})
  <2> DEFINE others == Without(items, {call[c].key})
  <2>1. IsCache(others)
    BY <1>1, WithoutCache
  <2>2. others = Without(others, {})
    <3> HIDE DEF others
    <3> QED
      BY <2>1, WithoutNothing
  <2> QED
    BY <1>2, <2>2
<1>4. Evicted(c, {})'
  BY <1>1, <1>2, <1>3 DEF Evicted
<1> QED
  BY <1>1, <1>4

LEMMA EvictGoesOn ==
  ASSUME RInv, NEW c \in Caller, Evict(c)
  PROVE  call'[c].gen = generation' /\ \E V \in SUBSET Key : Evicted(c, V)'
<1> DEFINE others == Without(saved, {call[c].key})
<1>1. /\ call[c].gen = generation /\ pc[c] = "evict" /\ UNCHANGED <<generation, call, saved>>
      /\ IsCache(saved) /\ IsCache(others) /\ ~RoomFor(call[c].body)
  BY WithoutCache DEF Evict, RInv, IInv, TypeOK, Progress
<1>2. PICK V \in SUBSET Key : Evicted(c, V)
  BY <1>1 DEF RInv, Progress
<1>3. CASE UNCHANGED items
  BY <1>1, <1>2, <1>3 DEF Evicted, Abstract!Fits
<1>4. ASSUME NEW k \in DOMAIN items, items' = Without(items, {k})
      PROVE  Evicted(c, V \cup {k})' /\ V \cup {k} \in SUBSET Key
  <2>1. k \in DOMAIN others \ V /\ k \in Key
    BY <1>1, <1>2, <1>4, WithoutCache DEF Evicted, IsCache
  <2>2. items' = Without(others, V \cup {k})
    <3>1. Without(Without(others, V), {k}) = Without(others, V \cup {k})
      <4> HIDE DEF others
      <4> QED
        BY DEF Without, Restrict
    <3> QED
      BY <1>2, <1>4, <3>1 DEF Evicted
  <2>3. (V \cup {k}) \ {k} = V
    BY <2>1
  <2>4. ~Abstract!Fits(items, call[c].body)
    BY <1>1, RoomIsFit DEF RInv
  <2>5. ~Abstract!Fits(Without(others, (V \cup {k}) \ {k}), call[c].body)
    BY <1>2, <2>3, <2>4 DEF Evicted
  <2> QED
    BY <1>1, <1>2, <2>1, <2>2, <2>5 DEF Evicted, Abstract!Fits
<1> QED
  BY <1>1, <1>3, <1>4 DEF Evict

LEMMA BumpStarts ==
  ASSUME RInv, NEW c \in Caller, Bump(c)
  PROVE  Swept(c)' /\ generation' > 0
<1>1. /\ todo' = DOMAIN items /\ saved' = items /\ items' = items /\ IsCache(items)
      /\ generation' = generation + 1 /\ generation \in Nat
  BY DEF Bump, RInv, IInv, TypeOK
<1>2. {k \in DOMAIN saved' \ todo' : DroppedBy(call'[c].doc, k)} = {}
  BY <1>1
<1>3. Without(items, {}) = items
  BY <1>1, WithoutNothing
<1> QED
  BY <1>1, <1>2, <1>3 DEF Swept

LEMMA SweepGoesOn ==
  ASSUME RInv, NEW c \in Caller, Sweep(c)
  PROVE  Swept(c)' /\ generation' > 0
<1> DEFINE dropped(left) == {k \in DOMAIN saved \ left : DroppedBy(call[c].doc, k)}
<1>1. /\ pc[c] = "sweep" /\ generation > 0 /\ UNCHANGED <<generation, call, saved>>
      /\ IsCache(saved) /\ todo \subseteq DOMAIN saved
      /\ items = Without(saved, dropped(todo))
  BY DEF Sweep, RInv, IInv, TypeOK, Progress, Swept
<1>2. PICK k \in todo :
        /\ todo' = todo \ {k}
        /\ IF DroppedBy(call[c].doc, k)
             THEN items' = Without(items, {k})
             ELSE items' = items
  BY DEF Sweep
<1>3. CASE DroppedBy(call[c].doc, k)
  <2>1. dropped(todo \ {k}) = dropped(todo) \cup {k}
    BY <1>1, <1>3
  <2>2. items' = Without(saved, dropped(todo \ {k}))
    <3> DEFINE D == dropped(todo)
    <3>1. Without(Without(saved, D), {k}) = Without(saved, D \cup {k})
      <4> HIDE DEF D
      <4> QED
        BY DEF Without, Restrict
    <3> QED
      BY <1>1, <1>2, <1>3, <2>1, <3>1
  <2> QED
    BY <1>1, <1>2, <2>2 DEF Swept
<1>4. CASE ~DroppedBy(call[c].doc, k)
  <2>1. dropped(todo \ {k}) = dropped(todo)
    BY <1>1, <1>4
  <2> QED
    BY <1>1, <1>2, <1>4, <2>1 DEF Swept
<1> QED
  BY <1>3, <1>4

-----------------------------------------------------------------------------
(***************************************************************************)
(* Progress is kept.  Steps outside the loops change nothing the loops     *)
(* rely on; a step of a loop is a step of the only caller past the lock.   *)
(***************************************************************************)
Outside(c) ==
  \/ StartGet(c) \/ StartSet(c) \/ StartInvalidate(c) \/ RLock(c) \/ RUnlock(c) \/ Lock(c)
  \/ GetEntry(c) \/ GetVersion(c) \/ SetRefuse(c)

Inside(c) == SetReplace(c) \/ Evict(c) \/ Insert(c) \/ Bump(c) \/ Sweep(c) \/ Unlock(c)

LEMMA OutsideFrame ==
  ASSUME RInv, NEW c \in Caller, Outside(c)
  PROVE  /\ UNCHANGED <<items, generation, todo, saved>>
         /\ pc[c] \notin {"evict", "sweep"} /\ pc'[c] \notin {"evict", "sweep"}
         /\ \A d \in Caller \ {c} : pc'[d] = pc[d] /\ call'[d] = call[d]
  BY DEF Outside, StartGet, StartSet, StartInvalidate, Start, RLock, RUnlock, Lock, GetEntry,
         GetVersion, SetRefuse, Goto, RInv, IInv, TypeOK

LEMMA InsideFrame ==
  ASSUME RInv, NEW c \in Caller, Inside(c)
  PROVE  /\ writer = c /\ readers = {}
         /\ \A d \in Caller \ {c} : pc[d] \notin {"evict", "sweep"} /\ pc'[d] = pc[d]
<1>1. writer = c /\ readers = {}
  BY DEF Inside, SetReplace, Evict, Insert, Bump, Sweep, Unlock, Exclusive, Goto, RInv, IInv,
         Mutex
<1>2. \A d \in Caller \ {c} : pc'[d] = pc[d]
  BY DEF Inside, SetReplace, Evict, Insert, Bump, Sweep, Unlock, Goto, RInv, IInv, TypeOK
<1> QED
  BY <1>1, <1>2, WriterIsAlone DEF RInv

LEMMA ProgressNext == RInv /\ [Next]_vars => RInv'
<1> SUFFICES ASSUME RInv, [Next]_vars PROVE RInv'
  OBVIOUS
<1>1. IInv'
  BY InvNext DEF RInv
<1>2. CASE UNCHANGED vars
  BY <1>1, <1>2 DEF RInv, Progress, Evicted, Swept, Abstract!Fits, vars, mutex
<1>3. ASSUME NEW c \in Caller, Outside(c) PROVE Progress'
  BY <1>3, OutsideFrame, OthersKeepProgress DEF Progress
<1>4. ASSUME NEW c \in Caller, Inside(c) PROVE Progress'
  <2>1. SUFFICES ASSUME pc'[c] \in {"evict", "sweep"}
                 PROVE  /\ pc'[c] = "evict" =>
                             call'[c].gen = generation' /\ \E V \in SUBSET Key : Evicted(c, V)'
                        /\ pc'[c] = "sweep" => Swept(c)' /\ generation' > 0
    BY <1>4, InsideFrame DEF Progress
  <2>2. CASE SetReplace(c)
    BY <2>2, ReplaceStarts DEF SetReplace, Goto, RInv, IInv, TypeOK
  <2>3. CASE Evict(c)
    BY <2>3, EvictGoesOn DEF Evict
  <2>4. CASE Bump(c)
    BY <2>4, BumpStarts DEF Bump, Goto, RInv, IInv, TypeOK
  <2>5. CASE Sweep(c)
    BY <2>5, SweepGoesOn DEF Sweep
  <2>6. CASE Insert(c) \/ Unlock(c)
    BY <2>1, <2>6 DEF Insert, Unlock, Goto, RInv, IInv, TypeOK
  <2> QED
    BY <1>4, <2>2, <2>3, <2>4, <2>5, <2>6 DEF Inside
<1>5. Next => \E c \in Caller : Outside(c) \/ Inside(c)
  BY DEF Next, Step, Outside, Inside
<1> QED
  BY <1>1, <1>2, <1>3, <1>4, <1>5 DEF RInv

LEMMA ProgressInvariance == Spec => []RInv
<1>1. Init => RInv
  BY InitInv DEF RInv, Progress, Init
<1> QED
  BY <1>1, ProgressNext, PTL DEF Spec

-----------------------------------------------------------------------------
(***************************************************************************)
(* What the atomic cache sees of a step.                                   *)
(***************************************************************************)
LEMMA PhaseOfStep ==
  ASSUME IInv, NEW c \in Caller, NEW to, pc' = [pc EXCEPT ![c] = to],
         todo' = todo \/ writer = c
  PROVE  AtomicPhase' = [AtomicPhase EXCEPT ![c] = Phase(c)']
<1>1. \A d \in Caller \ {c} : Phase(d)' = Phase(d)
  BY DEF Phase, IInv, TypeOK, Mutex
<1> QED
  BY <1>1 DEF AtomicPhase

LEMMA ItemsOutside ==
  ASSUME RInv, NEW c \in Caller, Outside(c)
  PROVE  /\ AtomicItems' = AtomicItems /\ AtomicGeneration' = AtomicGeneration
         /\ \A to : pc' = [pc EXCEPT ![c] = to] =>
              AtomicPhase' = [AtomicPhase EXCEPT ![c] = Phase(c)']
<1>1. Looping' <=> Looping
  BY OutsideFrame DEF Looping, Sweeping
<1>2. (\E d \in Caller : Sweeping(d))' <=> \E d \in Caller : Sweeping(d)
  BY OutsideFrame DEF Sweeping
<1> QED
  BY <1>1, <1>2, OutsideFrame, PhaseOfStep DEF AtomicItems, AtomicGeneration, RInv

\* Only the step that reads the generation and the return change a result.
LEMMA ResultKept ==
  ASSUME IInv, UNCHANGED got, \A d \in Caller : pc'[d] = "runlock" <=> pc[d] = "runlock"
  PROVE  AtomicResult' = AtomicResult
  BY DEF AtomicResult, got

AtomicVars == <<Abstract!cacheVars, Abstract!callVars>>

LEMMA StartInvokes ==
  ASSUME RInv, NEW c \in Caller, StartGet(c) \/ StartSet(c) \/ StartInvalidate(c)
  PROVE  Abstract!Next
<1>1. PICK to \in {"rlock", "lock"}, x \in CallsUpTo(AtomicGeneration) : Start(c, "idle", to, x)
  <2>1. CASE StartGet(c)
    BY <2>1 DEF StartGet, CallsUpTo
  <2>2. CASE StartSet(c)
    <3>1. 0..Published \subseteq 0..AtomicGeneration
      BY DEF Published, AtomicGeneration, Sweeping, RInv, IInv, TypeOK
    <3> QED
      BY <2>2, <3>1 DEF StartSet, CallsUpTo, SetCallOf
  <2>3. CASE StartInvalidate(c)
    BY <2>3 DEF StartInvalidate, CallsUpTo
  <2> QED
    BY <2>1, <2>2, <2>3
<1>2. x \in Abstract!CallsUpTo(AtomicGeneration)
  BY <1>1 DEF CallsUpTo, SetCallOf, GetCall, InvalidateCall, Key, ListKey, DocumentKey,
              Abstract!CallsUpTo, Abstract!SetCallOf, Abstract!GetCall, Abstract!InvalidateCall,
              Abstract!Key, Abstract!ListKey, Abstract!DocumentKey
<1>3. /\ pc[c] = "idle" /\ pc' = [pc EXCEPT ![c] = to]
      /\ call' = [call EXCEPT ![c] = x] /\ UNCHANGED got
  BY <1>1 DEF Start, Goto
<1>4. AtomicPhase[c] = "idle" /\ Phase(c)' = "called"
  BY <1>3 DEF AtomicPhase, Phase, RInv, IInv, TypeOK
<1>5. /\ AtomicItems' = AtomicItems /\ AtomicGeneration' = AtomicGeneration
      /\ AtomicPhase' = [AtomicPhase EXCEPT ![c] = "called"]
  BY <1>3, <1>4, ItemsOutside DEF Outside
<1>6. AtomicResult' = AtomicResult
  BY <1>3, ResultKept DEF RInv, IInv, TypeOK
<1>7. Abstract!Invoke(c)
  BY <1>2, <1>3, <1>4, <1>5, <1>6 DEF Abstract!Invoke, Abstract!cacheVars
<1> QED
  BY <1>7 DEF Abstract!Next

LEMMA LocksStutter ==
  ASSUME RInv, NEW c \in Caller, RLock(c) \/ Lock(c) \/ GetEntry(c)
  PROVE  UNCHANGED AtomicVars
<1>1. PICK to \in {"lookup", "check", "bump", "version"} : pc' = [pc EXCEPT ![c] = to]
  BY DEF RLock, Lock, GetEntry, Goto
<1>2. Phase(c) = "called" /\ Phase(c)' = "called"
  BY <1>1 DEF RLock, Lock, GetEntry, Goto, Phase, RInv, IInv, TypeOK
<1>3. AtomicPhase' = AtomicPhase
  BY <1>1, <1>2, ItemsOutside DEF Outside, AtomicPhase
<1>4. AtomicResult' = AtomicResult /\ UNCHANGED call
  BY <1>1 DEF RLock, Lock, GetEntry, Goto, AtomicResult, got, RInv, IInv, TypeOK
<1> QED
  BY <1>3, <1>4, ItemsOutside
  DEF Outside, AtomicVars, Abstract!cacheVars, Abstract!callVars

\* Readers are inside: no loop runs, and the atomic cache is the one there is.
LEMMA ReadersSeeAtomic ==
  ASSUME IInv, readers # {}
  PROVE  AtomicItems = items /\ AtomicGeneration = generation
  BY DEF AtomicItems, AtomicGeneration, Looping, Sweeping, IInv, Mutex

LEMMA VersionGets ==
  ASSUME RInv, NEW c \in Caller, GetVersion(c)
  PROVE  Abstract!Next
<1>1. /\ pc[c] = "version" /\ pc' = [pc EXCEPT ![c] = "runlock"]
      /\ version' = [version EXCEPT ![c] = generation] /\ UNCHANGED <<call, found>>
  BY DEF GetVersion, Goto
<1>2. /\ AtomicItems = items /\ AtomicGeneration = generation
      /\ call[c].op = "Get" /\ found[c] = Lookup(call[c].key)
  BY <1>1, ReadersSeeAtomic DEF RInv, IInv, Mutex, CallMatches, GetCall, ReadSoFar
<1>3. AtomicPhase[c] = "called" /\ Phase(c)' = "done"
  BY <1>1 DEF AtomicPhase, Phase, RInv, IInv, TypeOK
<1>4. AtomicResult' = [AtomicResult EXCEPT ![c] =
                        [response |-> Lookup(call[c].key), gen |-> generation]]
  BY <1>1, <1>2 DEF AtomicResult, RInv, IInv, TypeOK
<1>5. Abstract!Get(c)
  BY <1>1, <1>2, <1>3, <1>4, ItemsOutside
  DEF Outside, Abstract!Get, Abstract!Effect, Abstract!cacheVars, Lookup
<1> QED
  BY <1>5 DEF Abstract!Next

LEMMA UnlocksReturn ==
  ASSUME RInv, NEW c \in Caller, RUnlock(c) \/ Unlock(c)
  PROVE  Abstract!Next
<1>1. /\ pc' = [pc EXCEPT ![c] = "idle"] /\ call' = [call EXCEPT ![c] = NoCall]
      /\ UNCHANGED <<items, generation, todo>>
  BY DEF RUnlock, Unlock, Goto
<1>2. AtomicPhase[c] = "done" /\ Phase(c)' = "idle"
  BY <1>1 DEF AtomicPhase, RUnlock, Unlock, Goto, Phase, RInv, IInv, TypeOK
<1>3. AtomicPhase' = [AtomicPhase EXCEPT ![c] = "idle"]
  BY <1>1, <1>2, PhaseOfStep DEF RInv
<1>4. AtomicResult' = [AtomicResult EXCEPT ![c] = [response |-> Missing, gen |-> 0]]
  <2>1. CASE RUnlock(c)
    BY <2>1 DEF RUnlock, Goto, AtomicResult, RInv, IInv, TypeOK
  <2>2. CASE Unlock(c)
    BY <2>2 DEF Unlock, AtomicResult, got, RInv, IInv, TypeOK
  <2> QED
    BY <2>1, <2>2
<1>5. AtomicItems' = AtomicItems /\ AtomicGeneration' = AtomicGeneration
  <2>1. CASE RUnlock(c)
    BY <2>1, ItemsOutside DEF Outside
  <2>2. CASE Unlock(c)
    <3>1. ~Looping /\ ~Looping'
      BY <1>1, <2>2, InsideFrame DEF Inside, Unlock, Looping, Sweeping, RInv, IInv, TypeOK
    <3>2. (~\E d \in Caller : Sweeping(d)) /\ ~(\E d \in Caller : Sweeping(d))'
      BY <3>1 DEF Looping
    <3> QED
      BY <1>1, <3>1, <3>2 DEF AtomicItems, AtomicGeneration
  <2> QED
    BY <2>1, <2>2
<1>6. Abstract!Return(c)
  BY <1>1, <1>2, <1>3, <1>4, <1>5
  DEF Abstract!Return, Abstract!NoCall, NoCall, Abstract!NoResult, Abstract!cacheVars
<1> QED
  BY <1>6 DEF Abstract!Next

\* No loop runs: the atomic cache is the one there is.
LEMMA NoLoop ==
  ASSUME RInv, NEW c \in Caller, writer = c, readers = {}, pc[c] # "evict", ~Sweeping(c)
  PROVE  ~Looping /\ AtomicItems = items /\ AtomicGeneration = generation
  BY WriterIsAlone DEF Looping, Sweeping, AtomicItems, AtomicGeneration, RInv

LEMMA RefuseSets ==
  ASSUME RInv, NEW c \in Caller, SetRefuse(c)
  PROVE  Abstract!Next
<1>1. /\ pc[c] = "check" /\ pc' = [pc EXCEPT ![c] = "unlock"] /\ UNCHANGED <<call, got>>
      /\ Refused(c) /\ writer = c /\ readers = {}
  BY DEF SetRefuse, Goto, Exclusive
<1>2. AtomicGeneration = generation /\ call[c].op = "Set"
  BY <1>1, NoLoop DEF Sweeping, RInv, IInv, CallMatches, SetCall, SetCallOf
<1>3. AtomicPhase[c] = "called" /\ Phase(c)' = "done"
  BY <1>1 DEF AtomicPhase, Phase, RInv, IInv, TypeOK
<1>4. AtomicResult' = AtomicResult
  BY <1>1, ResultKept DEF RInv, IInv, TypeOK
<1>5. Abstract!CacheSet(call[c].key, call[c].body, call[c].gen)
  BY <1>1, <1>2, ItemsOutside
  DEF Outside, Abstract!CacheSet, Abstract!Admissible, Refused, Admissible
<1>6. Abstract!Set(c)
  BY <1>1, <1>2, <1>3, <1>4, <1>5, ItemsOutside DEF Outside, Abstract!Set, Abstract!Effect
<1> QED
  BY <1>6 DEF Abstract!Next

LEMMA ReplaceStutters ==
  ASSUME RInv, NEW c \in Caller, SetReplace(c)
  PROVE  UNCHANGED AtomicVars
<1>1. /\ pc[c] = "check" /\ pc' = [pc EXCEPT ![c] = "evict"]
      /\ UNCHANGED <<generation, call, got, todo>> /\ saved' = items
      /\ writer = c /\ readers = {}
  BY DEF SetReplace, Goto, Exclusive
<1>2. AtomicItems = items /\ AtomicGeneration = generation
  BY <1>1, NoLoop DEF Sweeping
<1>3. AtomicItems' = items /\ AtomicGeneration' = generation
  BY <1>1, InsideFrame
  DEF Inside, AtomicItems, AtomicGeneration, Looping, Sweeping, RInv, IInv, TypeOK
<1>4. AtomicPhase' = AtomicPhase
  BY <1>1, PhaseOfStep DEF AtomicPhase, Phase, RInv, IInv, TypeOK
<1>5. AtomicResult' = AtomicResult
  BY <1>1, ResultKept DEF RInv, IInv, TypeOK
<1> QED
  BY <1>1, <1>2, <1>3, <1>4, <1>5 DEF AtomicVars, Abstract!cacheVars, Abstract!callVars

LEMMA EvictStutters ==
  ASSUME RInv, NEW c \in Caller, Evict(c)
  PROVE  UNCHANGED AtomicVars
<1>1. pc[c] = "evict" /\ UNCHANGED <<generation, pc, call, got, todo, saved>>
  BY DEF Evict
<1>2. AtomicItems' = AtomicItems /\ AtomicGeneration' = AtomicGeneration
  BY <1>1 DEF AtomicItems, AtomicGeneration, Looping, Sweeping
<1>3. AtomicPhase' = AtomicPhase /\ AtomicResult' = AtomicResult
  BY <1>1 DEF AtomicPhase, AtomicResult, Phase, got
<1> QED
  BY <1>1, <1>2, <1>3 DEF AtomicVars, Abstract!cacheVars, Abstract!callVars

LEMMA InsertSets ==
  ASSUME RInv, NEW c \in Caller, Insert(c)
  PROVE  Abstract!Next
<1> DEFINE key == call[c].key
           body == call[c].body
           others == Without(saved, {key})
<1>1. /\ pc[c] = "evict" /\ pc' = [pc EXCEPT ![c] = "unlock"]
      /\ UNCHANGED <<generation, call, got, todo, saved>>
      /\ RoomFor(body) /\ items' = With(items, key, body)
  BY DEF Insert, Goto
<1>2. AtomicItems = saved /\ AtomicGeneration = generation
  BY <1>1, InsideFrame DEF Inside, AtomicItems, AtomicGeneration, Looping, Sweeping
<1>3. AtomicItems' = items' /\ AtomicGeneration' = generation
  BY <1>1, InsideFrame
  DEF Inside, AtomicItems, AtomicGeneration, Looping, Sweeping, RInv, IInv, TypeOK
<1>4. AtomicPhase[c] = "called" /\ AtomicPhase' = [AtomicPhase EXCEPT ![c] = "done"]
  BY <1>1, PhaseOfStep DEF AtomicPhase, Phase, RInv, IInv, TypeOK
<1>5. AtomicResult' = AtomicResult
  BY <1>1, ResultKept DEF RInv, IInv, TypeOK
<1>6. /\ call[c].op = "Set" /\ call[c].gen = generation /\ Admissible(body)
  BY <1>1 DEF RInv, IInv, CallMatches, LoopInvariants, SetCall, SetCallOf, Progress
<1>7. PICK V \in SUBSET Key : Evicted(c, V)
  BY <1>1 DEF RInv, Progress
<1>8. Abstract!Fits(Without(others, V), body)
  BY <1>1, <1>7, RoomIsFit DEF RInv, Evicted
<1>9. V \in Abstract!Victims(others, body)
  BY <1>7, <1>8 DEF Evicted, Abstract!Victims, Abstract!Without, Abstract!Restrict, Without,
                    Restrict
<1>10. Abstract!CacheSet(key, body, call[c].gen)
  <2>1. others = Abstract!Without(AtomicItems, {key})
    BY <1>2 DEF Abstract!Without, Abstract!Restrict, Without, Restrict
  <2>2. AtomicItems' = Abstract!With(Abstract!Without(others, V), key, body)
    BY <1>1, <1>3, <1>7
    DEF Evicted, With, Abstract!With, Abstract!Without, Abstract!Restrict, Without, Restrict
  <2>3. Abstract!Admissible(body)
    BY <1>6 DEF Admissible, Abstract!Admissible
  <2> HIDE DEF others, key, body
  <2> QED
    BY <1>2, <1>3, <1>6, <1>9, <2>1, <2>2, <2>3 DEF Abstract!CacheSet
<1>11. Abstract!Set(c)
  BY <1>1, <1>4, <1>5, <1>6, <1>10 DEF Abstract!Set, Abstract!Effect
<1> QED
  BY <1>11 DEF Abstract!Next

\* The last step of an Invalidate, and its only one on an empty cache.
LEMMA LastInvalidates ==
  ASSUME RInv, NEW c \in Caller, pc[c] \in {"bump", "sweep"}, pc' = [pc EXCEPT ![c] = "sweep"],
         Phase(c) = "called", Phase(c)' = "done", writer = c, UNCHANGED <<call, got>>,
         AtomicItems' = Without(AtomicItems, {k \in DOMAIN AtomicItems : DroppedBy(call[c].doc, k)}),
         AtomicGeneration' = AtomicGeneration + 1
  PROVE  Abstract!Next
<1>1. AtomicPhase[c] = "called" /\ AtomicPhase' = [AtomicPhase EXCEPT ![c] = "done"]
  BY PhaseOfStep DEF AtomicPhase, RInv
<1>2. AtomicResult' = AtomicResult
  BY ResultKept DEF RInv, IInv, TypeOK
<1>3. call[c].op = "Invalidate"
  BY DEF RInv, IInv, CallMatches, InvalidateCall
<1>4. Abstract!CacheInvalidate(call[c].doc)
  BY DEF Abstract!CacheInvalidate, Abstract!Without, Abstract!Restrict, Without, Restrict,
         Abstract!DroppedBy, DroppedBy
<1>5. Abstract!Invalidate(c)
  BY <1>1, <1>2, <1>3, <1>4 DEF Abstract!Invalidate, Abstract!Effect
<1> QED
  BY <1>5 DEF Abstract!Next

LEMMA BumpMaps ==
  ASSUME RInv, NEW c \in Caller, Bump(c)
  PROVE  Abstract!Next \/ UNCHANGED AtomicVars
<1>1. /\ pc[c] = "bump" /\ pc' = [pc EXCEPT ![c] = "sweep"]
      /\ UNCHANGED <<items, call, got>> /\ saved' = items
      /\ generation' = generation + 1 /\ todo' = DOMAIN items
      /\ writer = c /\ readers = {} /\ IsCache(items) /\ generation \in Nat
  BY DEF Bump, Goto, Exclusive, RInv, IInv, TypeOK
<1>2. AtomicItems = items /\ AtomicGeneration = generation
  BY <1>1, NoLoop DEF Sweeping
<1>3. \A d \in Caller : pc'[d] # "evict" /\ (d # c => ~Sweeping(d)') /\ pc'[c] = "sweep"
  BY <1>1, InsideFrame DEF Inside, Sweeping, RInv, IInv, TypeOK
<1>4. CASE todo' = {}
  <2>1. AtomicItems' = items /\ AtomicGeneration' = generation + 1
    BY <1>1, <1>3, <1>4 DEF AtomicItems, AtomicGeneration, Looping, Sweeping
  <2>2. Phase(c) = "called" /\ Phase(c)' = "done"
    BY <1>1, <1>3, <1>4 DEF Phase
  <2>3. {k \in DOMAIN items : DroppedBy(call[c].doc, k)} = {}
    BY <1>1, <1>4
  <2>4. Without(items, {}) = items
    BY <1>1, WithoutNothing
  <2>5. AtomicItems' =
          Without(AtomicItems, {k \in DOMAIN AtomicItems : DroppedBy(call[c].doc, k)})
    BY <1>2, <2>1, <2>3, <2>4
  <2> QED
    BY <1>1, <1>2, <2>1, <2>2, <2>5, LastInvalidates
<1>5. CASE todo' # {}
  <2>1. AtomicItems' = items /\ AtomicGeneration' = generation
    BY <1>1, <1>3, <1>5 DEF AtomicItems, AtomicGeneration, Looping, Sweeping
  <2>2. AtomicPhase' = AtomicPhase
    BY <1>1, <1>3, <1>5, PhaseOfStep DEF AtomicPhase, Phase, RInv, IInv, TypeOK
  <2>3. AtomicResult' = AtomicResult
    BY <1>1, ResultKept DEF RInv, IInv, TypeOK
  <2> QED
    BY <1>1, <1>2, <2>1, <2>2, <2>3 DEF AtomicVars, Abstract!cacheVars, Abstract!callVars
<1> QED
  BY <1>4, <1>5

LEMMA SweepMaps ==
  ASSUME RInv, NEW c \in Caller, Sweep(c)
  PROVE  Abstract!Next \/ UNCHANGED AtomicVars
<1>1. /\ pc[c] = "sweep" /\ todo # {} /\ pc' = [pc EXCEPT ![c] = "sweep"]
      /\ pc' = pc /\ UNCHANGED <<generation, call, got, saved>>
      /\ writer = c /\ generation \in Nat /\ IsCache(saved)
  BY DEF Sweep, RInv, IInv, TypeOK, Mutex
<1>2. AtomicItems = saved /\ AtomicGeneration = generation - 1
  BY <1>1 DEF AtomicItems, AtomicGeneration, Looping, Sweeping
<1>3. \A d \in Caller : pc'[d] # "evict" /\ (d # c => ~Sweeping(d)')
  BY <1>1, InsideFrame DEF Inside, Sweeping
<1>4. CASE todo' = {}
  <2>1. AtomicItems' = items' /\ AtomicGeneration' = generation
    BY <1>1, <1>3, <1>4 DEF AtomicItems, AtomicGeneration, Looping, Sweeping
  <2>2. Phase(c) = "called" /\ Phase(c)' = "done"
    BY <1>1, <1>4 DEF Phase, Sweeping
  <2>3. items' = Without(saved, {k \in DOMAIN saved : DroppedBy(call[c].doc, k)})
    BY <1>1, <1>4, SweepGoesOn DEF Swept
  <2> QED
    BY <1>1, <1>2, <2>1, <2>2, <2>3, LastInvalidates
<1>5. CASE todo' # {}
  <2>1. AtomicItems' = saved /\ AtomicGeneration' = generation - 1
    BY <1>1, <1>5 DEF AtomicItems, AtomicGeneration, Looping, Sweeping
  <2>2. AtomicPhase' = AtomicPhase
    BY <1>1, <1>5 DEF AtomicPhase, Phase
  <2>3. AtomicResult' = AtomicResult
    BY <1>1, ResultKept DEF RInv, IInv, TypeOK
  <2> QED
    BY <1>1, <1>2, <2>1, <2>2, <2>3 DEF AtomicVars, Abstract!cacheVars, Abstract!callVars
<1> QED
  BY <1>4, <1>5

(***************************************************************************)
(* Concurrent calls of the cache behave as if each took effect at one      *)
(* moment between its start and its return (cache.go:40-102).              *)
(***************************************************************************)
THEOREM CacheIsAtomic == Spec => ImplementsAtomicCache
<1>1. Init => Abstract!Init
  <2> SUFFICES ASSUME Init PROVE Abstract!Init
    OBVIOUS
  <2>1. ~Looping /\ ~\E c \in Caller : Sweeping(c)
    BY DEF Init, Looping, Sweeping
  <2>2. AtomicItems = Empty /\ AtomicGeneration = 0
    BY <2>1 DEF Init, AtomicItems, AtomicGeneration
  <2>3. AtomicPhase = [c \in Caller |-> "idle"]
    BY DEF Init, AtomicPhase, Phase
  <2>4. AtomicResult = [c \in Caller |-> [response |-> Missing, gen |-> 0]]
    BY DEF Init, AtomicResult
  <2> QED
    BY <2>2, <2>3, <2>4
    DEF Init, Abstract!Init, Abstract!CacheInit, Abstract!Empty, Empty, Abstract!NoCall,
        NoCall, Abstract!NoResult
<1>2. RInv /\ [Next]_vars => [Abstract!Next]_AtomicVars
  <2> SUFFICES ASSUME RInv, [Next]_vars PROVE Abstract!Next \/ UNCHANGED AtomicVars
    OBVIOUS
  <2>1. CASE UNCHANGED vars
    BY <2>1
    DEF vars, got, AtomicVars, Abstract!cacheVars, Abstract!callVars, AtomicItems,
        AtomicGeneration, AtomicPhase, AtomicResult, Looping, Sweeping, Phase
  <2>2. ASSUME NEW c \in Caller, Step(c) PROVE Abstract!Next \/ UNCHANGED AtomicVars
    BY <2>2, LocksStutter, VersionGets, UnlocksReturn, RefuseSets, ReplaceStutters,
       EvictStutters, InsertSets, BumpMaps, SweepMaps DEF Step
  <2> QED
    BY <2>1, <2>2, StartInvokes, LocksStutter DEF Next
<1> QED
  BY <1>1, <1>2, ProgressInvariance, PTL
  DEF Spec, ImplementsAtomicCache, Abstract!Spec, AtomicVars
=============================================================================
