--------------------------- MODULE ServerLifecycle ----------------------------
(***************************************************************************)
(* The life of the process: Run of internal/server with the goroutine that *)
(* serves, the signals, the graceful shutdown with its timeout, and the    *)
(* deferred closing of the connection pool under the handlers that are     *)
(* still running.  What the handlers do is DocumentApi and AuthService;    *)
(* here a client connects, its handler begins, uses connections of the     *)
(* pool, and answers.                                                      *)
(***************************************************************************)
EXTENDS Naturals

CONSTANTS
  Requests,    \* HTTP requests
  MaxSignals,  \* bound on SIGINT and SIGTERM
  Faults       \* what can fail: "start", "listen", "accept"

ASSUME SignalAssumption == MaxSignals \in Nat
ASSUME FaultAssumption == Faults \subseteq {"start", "listen", "accept"}

VARIABLES
  main,       \* where Run is
  code,       \* what Run is about to return: 0 for nil, 1 for an error
  exit,       \* how the process ended: "no", "0", "1" or "killed"
  notified,   \* NotifyContext takes the signals
  cancelled,  \* ctx is done
  signals,    \* how many signals were sent
  server,     \* the goroutine of ListenAndServe, at last how it ended
  errCh,      \* serverErrCh, a channel of capacity 1
  closing,    \* srv.inShutdown
  pool,       \* the connection pool: "none", "open", "closed"
  request,    \* where each request is
  cut         \* requests whose connection srv.Close has closed

process == <<code, exit, notified, cancelled, signals>>
http == <<server, errCh, closing>>
vars == <<main, process, http, pool, request, cut>>

Init ==
  /\ main = "setup"
  /\ code = 0 /\ exit = "no"
  /\ notified = FALSE /\ cancelled = FALSE /\ signals = 0
  /\ server = "none" /\ errCh = "empty" /\ closing = FALSE
  /\ pool = "none"
  /\ request = [r \in Requests |-> "away"]
  /\ cut = {}

Connected == {r \in Requests : request[r] = "connected"}
Active == {r \in Requests : request[r] \in {"handling", "statement"}}
Acquired == {r \in Requests : request[r] = "statement"}

\* Run returns: the deferred pool.Close, if there is a pool, and then stop().
Return(status) ==
  /\ code' = status
  /\ IF pool = "open"
       THEN main' = "deferred" /\ UNCHANGED notified
       ELSE main' = "return" /\ notified' = FALSE

-----------------------------------------------------------------------------
(***************************************************************************)
(* Startup.  The configuration and the logger come before NotifyContext;   *)
(* connecting gives up when ctx is done or after 5 seconds.                *)
(***************************************************************************)
Setup ==
  /\ main = "setup"
  /\ \/ main' = "connect" /\ notified' = TRUE /\ UNCHANGED code
     \/ "start" \in Faults /\ Return(1)
  /\ UNCHANGED <<exit, cancelled, signals, http, pool, request, cut>>

Connect ==
  /\ main = "connect"
  /\ \/ ~cancelled /\ main' = "storage" /\ pool' = "open" /\ UNCHANGED <<code, notified>>
     \/ (cancelled \/ "start" \in Faults) /\ Return(1) /\ UNCHANGED pool
  /\ UNCHANGED <<exit, cancelled, signals, http, request, cut>>

OpenStorage ==
  /\ main = "storage"
  /\ \/ main' = "select" /\ server' = "starting" /\ UNCHANGED <<code, notified>>
     \/ "start" \in Faults /\ Return(1) /\ UNCHANGED server
  /\ UNCHANGED <<exit, cancelled, signals, errCh, closing, pool, request, cut>>

-----------------------------------------------------------------------------
(***************************************************************************)
(* The goroutine of ListenAndServe may start after the shutdown has begun; *)
(* it looks at srv.inShutdown before it binds the address and before it    *)
(* serves.  Its result goes into the buffered channel.                     *)
(***************************************************************************)
End(how) == server' = how /\ errCh' = how

StartListening ==
  /\ server = "starting"
  /\ IF closing THEN End("closed") ELSE server' = "binding" /\ UNCHANGED errCh

Listen ==
  /\ server = "binding"
  /\ \/ "listen" \in Faults /\ End("failed")
     \/ IF closing THEN End("closed") ELSE server' = "serving" /\ UNCHANGED errCh

StopServing ==
  /\ server = "serving"
  /\ \/ closing /\ End("closed")
     \/ ~closing /\ "accept" \in Faults /\ End("failed")

Server ==
  /\ exit = "no"
  /\ StartListening \/ Listen \/ StopServing
  /\ UNCHANGED <<main, process, closing, pool, request, cut>>

-----------------------------------------------------------------------------
(***************************************************************************)
(* Requests.  Serve accepts the connection of a client, and the goroutine  *)
(* of the connection begins its request, also after Serve has ended.  A    *)
(* statement keeps a connection of the pool; a closed pool refuses it.     *)
(***************************************************************************)
Accept(r) ==
  /\ exit = "no" /\ server = "serving" /\ request[r] = "away"
  /\ request' = [request EXCEPT ![r] = "connected"]
  /\ UNCHANGED <<main, process, http, pool, cut>>

Begin(r) ==
  /\ exit = "no" /\ request[r] = "connected"
  /\ request' = [request EXCEPT ![r] = "handling"]
  /\ UNCHANGED <<main, process, http, pool, cut>>

Acquire(r) ==
  /\ exit = "no" /\ request[r] = "handling" /\ pool = "open"
  /\ request' = [request EXCEPT ![r] = "statement"]
  /\ UNCHANGED <<main, process, http, pool, cut>>

Release(r) ==
  /\ exit = "no" /\ request[r] = "statement"
  /\ request' = [request EXCEPT ![r] = "handling"]
  /\ UNCHANGED <<main, process, http, pool, cut>>

\* The handler returns; nobody gets the answer when the connection is gone.
Answer(r) ==
  /\ exit = "no" /\ request[r] = "handling"
  /\ request' = [request EXCEPT ![r] = IF r \in cut THEN "lost" ELSE "answered"]
  /\ UNCHANGED <<main, process, http, pool, cut>>

-----------------------------------------------------------------------------
(***************************************************************************)
(* Run waits for the server or for a signal, shuts down, and returns.      *)
(***************************************************************************)
ServerFails ==
  /\ main = "select" /\ errCh # "empty"
  /\ errCh' = "empty"
  /\ Return(IF errCh = "closed" THEN 0 ELSE 1)
  /\ UNCHANGED <<exit, cancelled, signals, server, closing, pool, request, cut>>

\* Mutant: stop() is left to the deferred call.
ContextDoneKeepsSignals ==
  /\ main = "select" /\ cancelled
  /\ closing' = TRUE
  /\ main' = "shutdown"
  /\ UNCHANGED <<code, exit, notified, cancelled, signals, server, errCh, pool, request,
                 cut>>

\* stop() gives the next signal its default effect back.
ContextDone ==
  /\ main = "select" /\ cancelled
  /\ notified' = FALSE
  /\ closing' = TRUE
  /\ main' = "shutdown"
  /\ UNCHANGED <<code, exit, cancelled, signals, server, errCh, pool, request, cut>>

\* Mutant: Shutdown is called in the background and not waited for.
ShutdownReturnsEarly ==
  /\ main = "shutdown"
  /\ main' = "await"
  /\ UNCHANGED <<process, http, pool, request, cut>>

\* net/http closes connections that have no request under way.
CloseIdle ==
  request' = [r \in Requests |-> IF r \in Connected THEN "away" ELSE request[r]]

\* Shutdown waits for Serve to end, and then until no connection is active.
ShutdownReturns ==
  /\ main = "shutdown" /\ server # "serving" /\ Active = {}
  /\ CloseIdle
  /\ main' = "await"
  /\ UNCHANGED <<process, http, pool, cut>>

\* Mutant: Shutdown gets a context without a deadline.
ShutdownNeverTimesOut == FALSE /\ UNCHANGED vars

\* The timeout has passed: srv.Close closes what is left, and Run fails.
ShutdownTimesOut ==
  /\ main = "shutdown" /\ server # "serving" /\ Active \cup Connected # {}
  /\ cut' = Active /\ CloseIdle
  /\ Return(1)
  /\ UNCHANGED <<exit, cancelled, signals, http, pool>>

\* Mutant: the result of ListenAndServe is not looked at.
AwaitAnything ==
  /\ main = "await" /\ errCh # "empty"
  /\ errCh' = "empty"
  /\ Return(0)
  /\ UNCHANGED <<exit, cancelled, signals, server, closing, pool, request, cut>>

AwaitServer ==
  /\ main = "await" /\ errCh # "empty"
  /\ errCh' = "empty"
  /\ Return(IF errCh = "closed" THEN 0 ELSE 1)
  /\ UNCHANGED <<exit, cancelled, signals, server, closing, pool, request, cut>>

(***************************************************************************)
(* The deferred calls: the pool takes no new statement and waits for the   *)
(* ones that run; stop() comes last.  Then main ends the process, and with *)
(* it every handler.                                                       *)
(***************************************************************************)
ClosePool ==
  /\ main = "deferred" /\ pool = "open"
  /\ pool' = "closed"
  /\ UNCHANGED <<main, process, http, request, cut>>

PoolClosed ==
  /\ main = "deferred" /\ pool = "closed" /\ Acquired = {}
  /\ notified' = FALSE
  /\ main' = "return"
  /\ UNCHANGED <<code, exit, cancelled, signals, http, pool, request, cut>>

Die(how) ==
  /\ exit' = how
  /\ request' = [r \in Requests |-> IF r \in Active THEN "lost" ELSE request[r]]

Exit ==
  /\ main = "return" /\ exit = "no"
  /\ Die(IF code = 0 THEN "0" ELSE "1")
  /\ UNCHANGED <<main, code, notified, cancelled, signals, http, pool, cut>>

Signal ==
  /\ exit = "no" /\ signals < MaxSignals
  /\ signals' = signals + 1
  /\ IF notified
       THEN cancelled' = TRUE /\ UNCHANGED <<exit, request>>
       ELSE Die("killed") /\ UNCHANGED cancelled
  /\ UNCHANGED <<main, code, notified, http, pool, cut>>

Main ==
  /\ exit = "no"
  /\ \/ Setup \/ Connect \/ OpenStorage
     \/ ServerFails \/ ContextDone
     \/ ShutdownReturns \/ ShutdownTimesOut \/ AwaitServer
     \/ ClosePool \/ PoolClosed \/ Exit

Next ==
  \/ Main \/ Server \/ Signal
  \/ \E r \in Requests : Accept(r) \/ Begin(r) \/ Acquire(r) \/ Release(r) \/ Answer(r)
  \/ exit # "no" /\ UNCHANGED vars

Spec == Init /\ [][Next]_vars

-----------------------------------------------------------------------------
TypeOK ==
  /\ main \in {"setup", "connect", "storage", "select", "shutdown", "await",
               "deferred", "return"}
  /\ code \in {0, 1}
  /\ exit \in {"no", "0", "1", "killed"}
  /\ notified \in BOOLEAN /\ cancelled \in BOOLEAN
  /\ signals \in Nat
  /\ server \in {"none", "starting", "binding", "serving", "closed", "failed"}
  /\ errCh \in {"empty", "closed", "failed"}
  /\ closing \in BOOLEAN
  /\ pool \in {"none", "open", "closed"}
  /\ request \in [Requests -> {"away", "connected", "handling", "statement", "answered",
                               "lost"}]
  /\ cut \in SUBSET Requests

(***************************************************************************)
(* An exit with status 0 is a graceful one: a signal asked for it, and     *)
(* every request that had begun was answered (README.md:702,               *)
(* server.go:123-141).                                                     *)
(***************************************************************************)
CleanExitIsGraceful ==
  exit = "0" =>
    cancelled /\ \A r \in Requests : request[r] \in {"away", "answered"}

(***************************************************************************)
(* The pool is closed under a handler whose client still waits only when   *)
(* the server has failed by itself, and then Run returns an error; in a    *)
(* shutdown the handlers without a pool are those whose connection the     *)
(* timeout has cut, however signals and statements race (server.go:49,     *)
(* 101-108, 124-133).                                                      *)
(***************************************************************************)
HandlersKeepThePool ==
  pool = "closed" /\ ~(Active \subseteq cut) =>
    server = "failed" /\ ~closing /\ code = 1

(***************************************************************************)
(* A server that failed is never reported as a clean stop, not even when   *)
(* the signal arrives at the same moment (server.go:102-108, 136-138).     *)
(***************************************************************************)
FailureIsReported == server = "failed" => exit # "0"

(***************************************************************************)
(* Once the shutdown has begun another signal ends the process at once,    *)
(* also while the pool waits for statements (server.go:111).               *)
(***************************************************************************)
SecondSignalKills ==
  [][closing /\ signals' # signals => exit' = "killed"]_vars

(***************************************************************************)
(* A signal that was taken ends the process, and so does a failure of the  *)
(* server, whatever the handlers do (server.go:116-133).                   *)
(***************************************************************************)
ProcessEnds ==
  cancelled \/ server = "failed" ~> exit # "no"
=============================================================================
