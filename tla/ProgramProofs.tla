---------------------------- MODULE ProgramProofs -----------------------------
(***************************************************************************)
(* What TLAPS proves of the process as a whole, for any number of requests *)
(* and signals, any failures and any settings: its exit status tells the   *)
(* truth, handlers keep the pool, the second signal kills, and the program *)
(* runs with what the operator wrote.                                      *)
(***************************************************************************)
EXTENDS Program, TLAPS

Ending == {"deferred", "return"}

\* Where Run is, and what of the process exists then.
Places ==
  /\ main \in {"setup", "connect", "storage"} => server = "none" /\ errCh = "empty"
  /\ pool = "closed" => main \in Ending
  /\ closing => cancelled /\ ~notified /\ main \in {"shutdown", "await"} \cup Ending
  /\ main \in {"shutdown", "await"} => closing
  /\ main = "await" \/ (main \in Ending /\ closing) => server # "serving"

\* What the result of ListenAndServe says, and what Run will make of it.
Results ==
  /\ errCh # "empty" => server = errCh
  /\ server = "closed" => closing
  /\ server = "failed" => errCh = "failed" \/ code = 1
  /\ main \notin Ending => code = 0 /\ cut = {}
  /\ main \in Ending /\ code = 0 => closing /\ server = "closed" /\ cut = {}
  /\ main \in Ending /\ ~closing => code = 1 /\ server \in {"none", "failed"}
  /\ exit = "0" => main = "return" /\ code = 0

\* Which requests there can be: none before the server serves, and what the
\* shutdown leaves of them.
Leftovers ==
  /\ server \in {"none", "starting", "binding"} => Active \cup Connected = {}
  /\ main = "await" => Active \cup Connected = {}
  /\ main \in Ending /\ closing => Active \subseteq cut /\ Connected = {}
  /\ exit \in {"no", "0"} => \A r \in Requests : request[r] = "lost" => r \in cut

LifeInv == TypeOK /\ Places /\ Results /\ Leftovers

LEMMA LifeInit == ProgramInit => LifeInv
<1> SUFFICES ASSUME Init PROVE LifeInv
  BY DEF ProgramInit
<1>1. TypeOK
  BY DEF Init, TypeOK
<1>2. Places
  BY DEF Init, Places
<1>3. Results /\ Leftovers
  BY DEF Init, Results, Leftovers, Ending, Active, Connected
<1> QED
  BY <1>1, <1>2, <1>3 DEF LifeInv

\* The process ends by itself, or by a signal: its handlers end with it.
LEMMA LifeDie ==
  ASSUME LifeInv, NEW how \in {"0", "1", "killed"}, Die(how), exit = "no",
         how = "0" => main = "return" /\ code = 0,
         UNCHANGED <<main, code, http, pool, cut>>,
         notified' = notified, cancelled' \in BOOLEAN, cancelled => cancelled',
         signals' \in Nat
  PROVE  LifeInv'
<1> USE DEF LifeInv, http
<1>1. TypeOK'
  BY DEF Die, TypeOK, Active
<1>2. Active' = {} /\ Connected' = Connected
  BY DEF Die, TypeOK, Active, Connected
<1>3. Places' /\ Results'
  BY DEF Places, Results, Die, TypeOK
<1>4. ASSUME how = "0", NEW r \in Requests, request'[r] = "lost"
      PROVE  r \in cut'
  BY <1>4 DEF Die, Leftovers, Results, Active, Ending, Places
<1>5. Leftovers'
  BY <1>2, <1>4 DEF Leftovers, Die
<1> QED
  BY <1>1, <1>3, <1>5

\* Closing idle connections touches no request that has begun.
LEMMA IdleIsClosed ==
  ASSUME TypeOK, CloseIdle
  PROVE  /\ request' \in [Requests -> {"away", "connected", "handling", "statement",
                                       "answered", "lost"}]
         /\ Active' = Active /\ Connected' = {}
         /\ \A r \in Requests : request'[r] = "lost" => request[r] = "lost"
  BY DEF TypeOK, CloseIdle, Active, Connected

\* The steps of the main goroutine.
LEMMA LifeMain == LifeInv /\ Main => LifeInv'
<1> SUFFICES ASSUME LifeInv, Main, exit = "no" PROVE LifeInv'
  BY DEF Main
<1> USE DEF LifeInv
<1>1. CASE Setup
  <2>1. TypeOK'
    BY <1>1 DEF Setup, Return, TypeOK, http
  <2>2. Places'
    BY <1>1 DEF Setup, Return, TypeOK, Places, Ending, http
  <2>3. Results'
    BY <1>1 DEF Setup, Return, TypeOK, Places, Results, Ending, http
  <2>4. Leftovers'
    BY <1>1 DEF Setup, Return, TypeOK, Places, Results, Leftovers, Ending, Active, Connected, http
  <2> QED
    BY <2>1, <2>2, <2>3, <2>4
<1>2. CASE Connect
  <2>1. TypeOK'
    BY <1>2 DEF Connect, Return, TypeOK, http
  <2>2. Places'
    BY <1>2 DEF Connect, Return, TypeOK, Places, Ending, http
  <2>3. Results'
    BY <1>2 DEF Connect, Return, TypeOK, Places, Results, Ending, http
  <2>4. Leftovers'
    BY <1>2 DEF Connect, Return, TypeOK, Places, Results, Leftovers, Ending, Active, Connected, http
  <2> QED
    BY <2>1, <2>2, <2>3, <2>4
<1>3. CASE OpenStorage
  <2>1. TypeOK'
    BY <1>3 DEF OpenStorage, Return, TypeOK, http
  <2>2. Places'
    BY <1>3 DEF OpenStorage, Return, TypeOK, Places, Ending, http
  <2>3. Results'
    BY <1>3 DEF OpenStorage, Return, TypeOK, Places, Results, Ending, http
  <2>4. Leftovers'
    BY <1>3 DEF OpenStorage, Return, TypeOK, Places, Results, Leftovers, Ending, Active, Connected, http
  <2> QED
    BY <2>1, <2>2, <2>3, <2>4
<1>4. CASE ServerFails
  <2>1. TypeOK'
    BY <1>4 DEF ServerFails, Return, TypeOK, http
  <2>2. Places'
    BY <1>4 DEF ServerFails, Return, TypeOK, Places, Ending, http
  <2>3. Results'
    BY <1>4 DEF ServerFails, Return, TypeOK, Places, Results, Ending, http
  <2>4. Leftovers'
    BY <1>4 DEF ServerFails, Return, TypeOK, Places, Results, Leftovers, Ending, Active, Connected, http
  <2> QED
    BY <2>1, <2>2, <2>3, <2>4
<1>5. CASE ContextDone
  BY <1>5 DEF ContextDone, TypeOK, Places, Results, Leftovers, Ending, Active, Connected
<1>6. CASE ShutdownReturns
  BY <1>6, IdleIsClosed DEF ShutdownReturns, TypeOK, Places, Results, Leftovers, Ending, http,
                            process
<1>7. CASE ShutdownTimesOut
  <2>1. TypeOK'
    BY <1>7, IdleIsClosed DEF ShutdownTimesOut, Return, TypeOK, Active, http
  <2>2. Places'
    BY <1>7 DEF ShutdownTimesOut, Return, TypeOK, Places, Ending, http
  <2>3. Results'
    BY <1>7 DEF ShutdownTimesOut, Return, TypeOK, Places, Results, Ending, http
  <2>4. Leftovers'
    BY <1>7, IdleIsClosed
    DEF ShutdownTimesOut, Return, TypeOK, Places, Results, Leftovers, Ending, http
  <2> QED
    BY <2>1, <2>2, <2>3, <2>4
<1>8. CASE AwaitServer
  <2>1. TypeOK'
    BY <1>8 DEF AwaitServer, Return, TypeOK, http
  <2>2. Places'
    BY <1>8 DEF AwaitServer, Return, TypeOK, Places, Ending, http
  <2>3. Results'
    BY <1>8 DEF AwaitServer, Return, TypeOK, Places, Results, Ending, http
  <2>4. Leftovers'
    BY <1>8 DEF AwaitServer, Return, TypeOK, Places, Results, Leftovers, Ending, Active, Connected, http
  <2> QED
    BY <2>1, <2>2, <2>3, <2>4
<1>9. CASE ClosePool
  BY <1>9 DEF ClosePool, TypeOK, Places, Results, Leftovers, Ending, Active, Connected, http, process
<1>10. CASE PoolClosed
  BY <1>10 DEF PoolClosed, TypeOK, Places, Results, Leftovers, Ending, Active, Connected, http
<1>11. CASE Exit
  BY <1>11, LifeDie DEF Exit, TypeOK
<1> QED
  BY <1>1, <1>2, <1>3, <1>4, <1>5, <1>6, <1>7, <1>8, <1>9, <1>10, <1>11 DEF Main

LEMMA LifeServer == LifeInv /\ Server => LifeInv'
<1> SUFFICES ASSUME LifeInv, Server PROVE LifeInv'
  OBVIOUS
<1>1. Leftovers'
  BY DEF Server, StartListening, Listen, StopServing, End, LifeInv, Leftovers, Active, Connected,
         process
<1>2. TypeOK' /\ Places' /\ Results'
  BY DEF Server, StartListening, Listen, StopServing, End, LifeInv, TypeOK, Places, Results,
         Ending, process
<1> QED
  BY <1>1, <1>2 DEF LifeInv

LEMMA LifeSignal == LifeInv /\ Signal => LifeInv'
<1> SUFFICES ASSUME LifeInv, Signal PROVE LifeInv'
  OBVIOUS
<1>1. CASE notified
  <2>1. /\ cancelled' = TRUE /\ signals' \in Nat
        /\ UNCHANGED <<main, code, exit, notified, server, errCh, closing, pool, request, cut>>
    BY <1>1 DEF Signal, LifeInv, TypeOK, http
  <2> QED
    BY <2>1 DEF LifeInv, TypeOK, Places, Results, Leftovers, Active, Connected
<1>2. CASE ~notified
  BY <1>2, LifeDie DEF Signal, LifeInv, TypeOK
<1> QED
  BY <1>1, <1>2

LEMMA LifeFatal == LifeInv /\ Fatal => LifeInv'
  BY LifeDie DEF Fatal, LifeInv, TypeOK

\* The steps of a request.
LEMMA LifeRequest ==
  ASSUME LifeInv, NEW r \in Requests,
         Accept(r) \/ Begin(r) \/ Acquire(r) \/ Release(r) \/ Answer(r)
  PROVE  LifeInv'
<1>1. /\ UNCHANGED <<main, code, exit, notified, cancelled, signals>>
      /\ UNCHANGED <<server, errCh, closing, pool, cut>>
  BY DEF Accept, Begin, Acquire, Release, Answer, process, http
<1>2. Places' /\ Results'
  BY <1>1 DEF LifeInv, Places, Results
<1>3. TypeOK'
  BY <1>1 DEF LifeInv, TypeOK, Accept, Begin, Acquire, Release, Answer
<1>4. server # "serving" /\ Connected = {} => Active' \subseteq Active /\ Connected' = {}
  BY DEF LifeInv, TypeOK, Accept, Begin, Acquire, Release, Answer, Active, Connected
<1>5. \A q \in Requests : request'[q] = "lost" => request[q] = "lost" \/ q \in cut
  BY DEF LifeInv, TypeOK, Accept, Begin, Acquire, Release, Answer
<1>6. Leftovers'
  BY <1>1, <1>4, <1>5 DEF LifeInv, Leftovers, Places
<1> QED
  BY <1>2, <1>3, <1>6 DEF LifeInv

LEMMA LifeNext == LifeInv /\ [ProgramNext]_programVars => LifeInv'
<1> SUFFICES ASSUME LifeInv, [ProgramNext]_programVars PROVE LifeInv'
  OBVIOUS
<1>1. CASE UNCHANGED vars
  BY <1>1 DEF vars, process, http, LifeInv, TypeOK, Places, Results, Leftovers, Active, Connected
<1>2. CASE GetConfiguration
  BY <1>1, <1>2 DEF GetConfiguration
<1>3. CASE RunWithConfiguration
  BY <1>3, LifeMain DEF RunWithConfiguration
<1> QED
  BY <1>1, <1>2, <1>3, LifeFatal, LifeServer, LifeSignal, LifeRequest
  DEF ProgramNext, programVars

(***************************************************************************)
(* The inductive invariant of the life of the process (server.go:36-141).  *)
(***************************************************************************)
THEOREM LifeInvariance == ProgramSpec => []LifeInv
  BY LifeInit, LifeNext, PTL DEF ProgramSpec

(***************************************************************************)
(* Status 0 only after a signal and with every request answered            *)
(* (server.go:123-141).                                                    *)
(***************************************************************************)
THEOREM CleanExit == ProgramSpec => []CleanExitIsGraceful
<1>1. LifeInv => CleanExitIsGraceful
  BY DEF LifeInv, TypeOK, Places, Results, Leftovers, Ending, Active, Connected, CleanExitIsGraceful
<1> QED
  BY <1>1, LifeInvariance, PTL

(***************************************************************************)
(* A handler whose client still waits loses the pool only if the server    *)
(* has failed by itself, and then the process ends with an error; in a     *)
(* shutdown only the handlers that the timeout has cut off lose it         *)
(* (server.go:49, 101-108, 124-133).                                       *)
(***************************************************************************)
THEOREM PoolOutlivesHandlers == ProgramSpec => []HandlersKeepThePool
<1>1. LifeInv => HandlersKeepThePool
  BY DEF LifeInv, TypeOK, Places, Results, Leftovers, Ending, HandlersKeepThePool
<1> QED
  BY <1>1, LifeInvariance, PTL

(***************************************************************************)
(* A server that failed never ends with status 0 (server.go:102-108,       *)
(* 136-138).                                                               *)
(***************************************************************************)
THEOREM FailuresAreReported == ProgramSpec => []FailureIsReported
<1>1. LifeInv => FailureIsReported
  BY DEF LifeInv, Results, Ending, FailureIsReported
<1> QED
  BY <1>1, LifeInvariance, PTL

(***************************************************************************)
(* A signal that arrives during the shutdown kills the process             *)
(* (server.go:111).                                                        *)
(***************************************************************************)
THEOREM SecondSignal == ProgramSpec => SecondSignalKills
<1>1. LifeInv /\ [ProgramNext]_programVars
        => [closing /\ signals' # signals => exit' = "killed"]_vars
  <2> SUFFICES ASSUME LifeInv, [ProgramNext]_programVars, closing, signals' # signals
               PROVE  exit' = "killed"
    OBVIOUS
  <2>1. Signal
    BY DEF ProgramNext, programVars, vars, process, GetConfiguration, Fatal,
           RunWithConfiguration, Main, Setup, Connect, OpenStorage, ServerFails, ContextDone,
           ShutdownReturns, ShutdownTimesOut, AwaitServer, ClosePool, PoolClosed, Exit,
           Server, Accept, Begin, Acquire, Release, Answer
  <2> QED
    BY <2>1 DEF Signal, Die, LifeInv, Places
<1> QED
  BY <1>1, LifeInvariance, PTL DEF ProgramSpec, SecondSignalKills

-----------------------------------------------------------------------------
(***************************************************************************)
(* The configuration.                                                      *)
(***************************************************************************)
WithDefaults(given) ==
  [s \in Setting |-> IF s \notin Secret /\ given[s] = ZeroOf(s) THEN Default[s] ELSE given[s]]

ConfigInv ==
  /\ file \in Files \cup {NoFile} /\ env \in Environments
  /\ stage = "defaults" => MayLoad /\ config = Given
  /\ stage = "validate" => MayLoad /\ config = WithDefaults(Given)
  /\ stage = "ready" => MayLoad /\ config = WithDefaults(Given) /\ Valid(config)
  /\ stage = "fatal" => \/ MayRefuse
                        \/ MayLoad /\ ~Valid(WithDefaults(Given))

LEMMA ConfigNext == ConfigInv /\ [ProgramNext]_programVars => ConfigInv'
<1> SUFFICES ASSUME ConfigInv, [ProgramNext]_programVars PROVE ConfigInv'
  OBVIOUS
<1> USE DEF ConfigInv, MayLoad, MayRefuse, Given, Decoded
<1>1. CASE UNCHANGED configVars
  BY <1>1 DEF configVars, Valid, WithDefaults
<1>2. CASE Load
  BY <1>2 DEF Load
<1>3. CASE SetDefaults
  BY <1>3 DEF SetDefaults, WithDefaults
<1>4. CASE Validate
  BY <1>4 DEF Validate, Valid, WithDefaults
<1> QED
  BY <1>1, <1>2, <1>3, <1>4
  DEF ProgramNext, programVars, GetConfiguration, Get, Fatal, RunWithConfiguration

LEMMA ConfigInvariance == ProgramSpec => []ConfigInv
<1>1. ProgramInit => ConfigInv
  BY DEF ProgramInit, ConfigInit, ConfigInv
<1> QED
  BY <1>1, ConfigNext, PTL DEF ProgramSpec

\* What is loaded has a number in every field of a number.
LEMMA GivenNumbers ==
  ASSUME ConfigInv, MayLoad, NEW s \in Number
  PROVE  Given[s] \in Int
<1>1. s \in Setting /\ ZeroOf(s) = 0
  BY DEF Setting, ZeroOf
<1> QED
  BY <1>1, ValueAssumption DEF ConfigInv, MayLoad, MayRefuse, Given, Decoded

\* The defaults change neither what a number may be nor the secrets.
LEMMA DefaultsKeepVerdict ==
  ASSUME ConfigInv, MayLoad
  PROVE  Valid(WithDefaults(Given)) <=> Usable(Given)
<1> DEFINE c == WithDefaults(Given)
<1>1. \A s \in Secret : c[s] = Given[s]
  BY DEF WithDefaults, Setting
<1>2. \A s \in Number : /\ Given[s] \in Int
                        /\ c[s] = IF Given[s] = 0 THEN Default[s] ELSE Given[s]
  BY GivenNumbers, DefaultAssumption DEF WithDefaults, Setting, ZeroOf
<1>3. c[Port] \in 1..MaxPort <=> Given[Port] \in 0..MaxPort
  BY <1>2, DefaultAssumption DEF Number
<1>4. \A s \in Positive : c[s] > 0 <=> Given[s] >= 0
  BY <1>2, DefaultAssumption DEF Number
<1> HIDE DEF c
<1> QED
  BY <1>1, <1>3, <1>4 DEF Valid, Usable, c

(***************************************************************************)
(* The program runs with what the operator wrote (config.go:127-195).      *)
(***************************************************************************)
THEOREM OperatorsSettings == ProgramSpec => []OperatorDecides
<1>1. ConfigInv => OperatorDecides
  BY DefaultAssumption
  DEF ConfigInv, OperatorDecides, WithDefaults, Valid, ZeroOf, Setting
<1> QED
  BY <1>1, ConfigInvariance, PTL

(***************************************************************************)
(* Whether it starts follows from what was written, not from the order of  *)
(* defaults and checks (config.go:97-98, 151-231).                         *)
(***************************************************************************)
THEOREM SettingsDecide == ProgramSpec => []VerdictFollowsSettings
<1>1. ConfigInv => VerdictFollowsSettings
  BY DefaultsKeepVerdict DEF ConfigInv, VerdictFollowsSettings
<1> QED
  BY <1>1, ConfigInvariance, PTL
=============================================================================
