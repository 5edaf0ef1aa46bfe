----------------------------- MODULE CacheCalls -----------------------------
(***************************************************************************)
(* The calls that goroutines make on the response cache.                   *)
(***************************************************************************)
EXTENDS CacheKey

CONSTANTS
  Caller,   \* goroutines that use the cache
  Missing   \* what Get finds when there is no entry

ASSUME MissingAssumption == Missing \notin Body

NoCall == [op |-> "None"]

GetCall == [op : {"Get"}, key : Key]

SetCallOf(generations) ==
  [op : {"Set"}, key : Key, body : Body, gen : generations]

SetCall == SetCallOf(Nat)

InvalidateCall == [op : {"Invalidate"}, doc : DocId \cup {NoDoc}]

Call == {NoCall} \cup GetCall \cup SetCall \cup InvalidateCall

\* The calls of a client that only passes generations up to latest to Set.
CallsUpTo(latest) == GetCall \cup SetCallOf(0..latest) \cup InvalidateCall
=============================================================================
