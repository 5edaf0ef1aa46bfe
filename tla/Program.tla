------------------------------- MODULE Program --------------------------------
(***************************************************************************)
(* cmd/app: the configuration and the life of the server together.  Run    *)
(* calls config.Get before anything else; a configuration that is refused  *)
(* ends the process by log.Fatalf, without a deferred call.  Signals can   *)
(* come at any time, also before NotifyContext takes them.                 *)
(***************************************************************************)
EXTENDS ServerLifecycle, Configuration

programVars == <<vars, configVars>>

ProgramInit == Init /\ ConfigInit

GetConfiguration ==
  /\ exit = "no" /\ main = "setup"
  /\ Get
  /\ UNCHANGED vars

Fatal ==
  /\ exit = "no" /\ stage = "fatal"
  /\ Die("1")
  /\ UNCHANGED <<main, code, notified, cancelled, signals, http, pool, cut, configVars>>

\* The rest of Run, from logs.Setup on.
RunWithConfiguration ==
  /\ stage = "ready"
  /\ Main
  /\ UNCHANGED configVars

ProgramNext ==
  \/ GetConfiguration \/ Fatal \/ RunWithConfiguration
  \/ (Server \/ Signal) /\ UNCHANGED configVars
  \/ \E r \in Requests :
       /\ Accept(r) \/ Begin(r) \/ Acquire(r) \/ Release(r) \/ Answer(r)
       /\ UNCHANGED configVars
  \/ exit # "no" /\ UNCHANGED programVars

(***************************************************************************)
(* The two goroutines run, the shutdown timer goes off, and PostgreSQL     *)
(* answers each statement.  A handler may take for ever: its client may be *)
(* slow.  Nobody has to send a signal.                                     *)
(***************************************************************************)
ProgramSpec ==
  /\ ProgramInit /\ [][ProgramNext]_programVars
  /\ WF_programVars(GetConfiguration \/ Fatal \/ RunWithConfiguration)
  /\ WF_programVars(Server /\ UNCHANGED configVars)
  /\ \A r \in Requests : WF_programVars(Release(r) /\ UNCHANGED configVars)
=============================================================================
