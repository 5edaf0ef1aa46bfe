----------------------------- MODULE AtomicCache ----------------------------
(***************************************************************************)
(* The specification that internal/cache implements: concurrent calls on   *)
(* the cache take effect one at a time, each at some moment between its    *)
(* start and its return, and a Get returns what it saw at that moment.     *)
(***************************************************************************)
EXTENDS ResponseCache, CacheCalls

VARIABLES
  call,    \* the call each goroutine is in
  phase,   \* whether that call has taken effect
  result   \* what a Get that has taken effect returns

callVars == <<call, phase, result>>

NoResult == [response |-> Missing, gen |-> 0]

Init ==
  /\ CacheInit
  /\ call = [c \in Caller |-> NoCall]
  /\ phase = [c \in Caller |-> "idle"]
  /\ result = [c \in Caller |-> NoResult]

\* The generation of a Set is one that an earlier Get returned, hence any that
\* the cache has had.
Invoke(c) ==
  /\ phase[c] = "idle"
  /\ phase' = [phase EXCEPT ![c] = "called"]
  /\ \E x \in CallsUpTo(generation) : call' = [call EXCEPT ![c] = x]
  /\ UNCHANGED <<cacheVars, result>>

Effect(c) ==
  /\ phase[c] = "called"
  /\ phase' = [phase EXCEPT ![c] = "done"]
  /\ UNCHANGED call

Get(c) ==
  /\ call[c].op = "Get"
  /\ Effect(c)
  /\ LET key == call[c].key
     IN  result' = [result EXCEPT ![c] =
           [response |-> IF key \in DOMAIN items THEN items[key] ELSE Missing,
            gen |-> generation]]
  /\ UNCHANGED cacheVars

Set(c) ==
  /\ call[c].op = "Set"
  /\ Effect(c)
  /\ CacheSet(call[c].key, call[c].body, call[c].gen)
  /\ UNCHANGED result

Invalidate(c) ==
  /\ call[c].op = "Invalidate"
  /\ Effect(c)
  /\ CacheInvalidate(call[c].doc)
  /\ UNCHANGED result

Return(c) ==
  /\ phase[c] = "done"
  /\ phase' = [phase EXCEPT ![c] = "idle"]
  /\ call' = [call EXCEPT ![c] = NoCall]
  /\ result' = [result EXCEPT ![c] = NoResult]
  /\ UNCHANGED cacheVars

Next ==
  \E c \in Caller : Invoke(c) \/ Get(c) \/ Set(c) \/ Invalidate(c) \/ Return(c)

Spec == Init /\ [][Next]_<<cacheVars, callVars>>
=============================================================================
