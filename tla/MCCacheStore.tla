---------------------------- MODULE MCCacheStore ----------------------------
(***************************************************************************)
(* Small instances of CacheStore.  A body is its own length.               *)
(***************************************************************************)
EXTENDS CacheStore, TLC

CONSTANTS c1, c2, c3, u, d1, d2, q

MCSize == [b \in Body |-> b]

CallerSymmetry == Permutations(Caller)
=============================================================================
