--------------------------- MODULE ResponseCache ---------------------------
(***************************************************************************)
(* What internal/cache promises the handlers: Get, Set and Invalidate are  *)
(* atomic operations on a map of responses and a generation number.  The   *)
(* module AtomicCache makes them the calls of concurrent goroutines, which *)
(* CacheStore implements; DocumentApi uses them as the cache of the server.*)
(***************************************************************************)
EXTENDS CacheKey

VARIABLES
  items,       \* the cached responses, a function on a set of keys
  generation   \* how many times the cache was invalidated

cacheVars == <<items, generation>>

CacheInit == items = Empty /\ generation = 0

Fits(cached, body) ==
  /\ Cardinality(DOMAIN cached) < MaxEntries
  /\ Size[body] <= MaxBytes - BytesIn(cached)

(***************************************************************************)
(* The entries Set may evict: it removes arbitrary entries one at a time   *)
(* and stops as soon as the new one fits, so without the last victim there *)
(* was not room enough.                                                    *)
(***************************************************************************)
Victims(cached, body) ==
  {V \in SUBSET DOMAIN cached :
     /\ Fits(Without(cached, V), body)
     /\ V # {} => \E last \in V : ~Fits(Without(cached, V \ {last}), body)}

\* Mutant: the generation is not compared.
CacheSetAnyGeneration(key, body, gen) ==
  /\ IF Admissible(body)
       THEN LET others == Without(items, {key})
            IN  \E V \in Victims(others, body) :
                  items' = With(Without(others, V), key, body)
       ELSE UNCHANGED items
  /\ UNCHANGED generation

(***************************************************************************)
(* Set(key, response, generation).  A response read under an older         *)
(* generation, or one that is not admissible, leaves the cache as it is.   *)
(***************************************************************************)
CacheSet(key, body, gen) ==
  /\ IF gen = generation /\ Admissible(body)
       THEN LET others == Without(items, {key})
            IN  \E V \in Victims(others, body) :
                  items' = With(Without(others, V), key, body)
       ELSE UNCHANGED items
  /\ UNCHANGED generation

\* Mutant: the generation stays.
CacheInvalidateKeepsGeneration(doc) ==
  /\ items' = Without(items, {k \in DOMAIN items : DroppedBy(doc, k)})
  /\ UNCHANGED generation

\* Mutant: the generation runs backwards.
CacheInvalidateBackwards(doc) ==
  /\ items' = Without(items, {k \in DOMAIN items : DroppedBy(doc, k)})
  /\ generation' = generation - 1

CacheInvalidate(doc) ==
  /\ items' = Without(items, {k \in DOMAIN items : DroppedBy(doc, k)})
  /\ generation' = generation + 1
=============================================================================
