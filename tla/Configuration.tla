---------------------------- MODULE Configuration -----------------------------
(***************************************************************************)
(* config.Get: the settings come from the TOML file or, if there is none,  *)
(* from the environment; zero values become defaults; the result is        *)
(* validated before anything else starts.  A setting that is not given is  *)
(* the zero value of its field: it cannot be told from an explicit zero.   *)
(* envdecode, which reads the environment, is known from its use only: a   *)
(* variable that does not parse may stop it or be passed over.             *)
(***************************************************************************)
EXTENDS Integers

CONSTANTS
  Positive,     \* the timeouts, the session TTL, the sizes and limits
  Port,         \* server.port
  Text,         \* texts with a default
  Secret,       \* database.dsn and auth.admin_token: no default
  Empty, Blank, \* the text without characters, and a text of spaces
  Malformed,    \* a value that does not parse
  Default,      \* the defaults
  MaxPort,      \* 65535
  Files,        \* what a configuration file may hold
  Environments, \* what the environment may hold
  NoFile        \* there is no configuration file

Number == Positive \cup {Port}
Setting == Number \cup Text \cup Secret

ZeroOf(s) == IF s \in Number THEN 0 ELSE Empty

ASSUME DefaultAssumption ==
  /\ Number \cap (Text \cup Secret) = {} /\ Text \cap Secret = {}
  /\ \A s \in Positive : Default[s] \in Nat \ {0}
  /\ MaxPort \in Nat /\ Default[Port] \in 1..MaxPort

\* A value of a number's field that parses is a number.
ASSUME ValueAssumption ==
  \A given \in Files \cup Environments, s \in Number :
    given[s] # Malformed => given[s] \in Int

VARIABLES
  file,      \* what the file holds
  env,       \* what the environment holds
  config,    \* the instance
  stage      \* how far Get has come

configVars == <<file, env, config, stage>>

Nothing == [s \in Setting |-> ZeroOf(s)]

ConfigInit ==
  /\ file \in Files \cup {NoFile}
  /\ env \in Environments
  /\ config = Nothing
  /\ stage = "load"

-----------------------------------------------------------------------------
\* What envdecode makes of the environment: it leaves the field of a
\* variable that is empty or does not parse as it is.
Decoded(e) == [s \in Setting |-> IF e[s] = Malformed THEN ZeroOf(s) ELSE e[s]]

Given == IF file # NoFile THEN file ELSE Decoded(env)

\* toml.DecodeFile refuses a value that does not parse, envdecode may; it
\* also refuses an environment without any of the variables.
MayRefuse ==
  IF file # NoFile
    THEN \E s \in Setting : file[s] = Malformed
    ELSE env = Nothing \/ \E s \in Setting : env[s] = Malformed
MayLoad == ~MayRefuse \/ (file = NoFile /\ env # Nothing)

\* Mutant: the environment overrides what the file says.
LoadBoth ==
  /\ stage = "load"
  /\ \/ MayRefuse /\ stage' = "fatal" /\ UNCHANGED config
     \/ MayLoad /\ stage' = "defaults"
        /\ config' = [s \in Setting |-> IF Decoded(env)[s] # ZeroOf(s) THEN Decoded(env)[s]
                                        ELSE Given[s]]
  /\ UNCHANGED <<file, env>>

\* Mutant: the checks run before the defaults are set.
LoadThenValidate ==
  /\ stage = "load"
  /\ \/ MayRefuse /\ stage' = "fatal" /\ UNCHANGED config
     \/ MayLoad /\ stage' = "validate" /\ config' = Given
  /\ UNCHANGED <<file, env>>

Load ==
  /\ stage = "load"
  /\ \/ MayRefuse /\ stage' = "fatal" /\ UNCHANGED config
     \/ MayLoad /\ stage' = "defaults" /\ config' = Given
  /\ UNCHANGED <<file, env>>

\* Mutant: whatever is not positive becomes the default.
SetDefaultsForNegative ==
  /\ stage = "defaults"
  /\ config' = [s \in Setting |->
                  IF s \notin Secret /\ (config[s] = ZeroOf(s) \/ (s \in Number /\ config[s] < 0))
                    THEN Default[s] ELSE config[s]]
  /\ stage' = "validate"
  /\ UNCHANGED <<file, env>>

SetDefaults ==
  /\ stage = "defaults"
  /\ config' = [s \in Setting |-> IF s \notin Secret /\ config[s] = ZeroOf(s)
                                    THEN Default[s] ELSE config[s]]
  /\ stage' = "validate"
  /\ UNCHANGED <<file, env>>

Valid(c) ==
  /\ \A s \in Secret : c[s] \notin {Empty, Blank}
  /\ c[Port] \in 1..MaxPort
  /\ \A s \in Positive : c[s] > 0

Validate ==
  /\ stage = "validate"
  /\ stage' = IF Valid(config) THEN "ready" ELSE "fatal"
  /\ UNCHANGED <<file, env, config>>

Get == Load \/ SetDefaults \/ Validate

ConfigSpec == ConfigInit /\ [][Get]_configVars

-----------------------------------------------------------------------------
(***************************************************************************)
(* What the operator wrote is what the program runs with: no value of the  *)
(* file is replaced by the environment, and no value but a zero one by a   *)
(* default; the secrets are his own (config.go:127-195; README.md:257-259, *)
(* 308).                                                                   *)
(***************************************************************************)
OperatorDecides ==
  stage = "ready" =>
    \A s \in Setting :
      LET written == Given[s] IN
      /\ written # ZeroOf(s) => config[s] = written
      /\ written = ZeroOf(s) => s \notin Secret /\ config[s] = Default[s]

(***************************************************************************)
(* The verdict follows from what was written, whatever the order of        *)
(* defaults and checks: it starts exactly with both secrets, no negative   *)
(* number and a possible port, where a zero stands for the default         *)
(* (config.go:97-98, 151-231; README.md:259, 308).                         *)
(***************************************************************************)
Usable(c) ==
  /\ \A s \in Secret : c[s] \notin {Empty, Blank}
  /\ c[Port] \in 0..MaxPort
  /\ \A s \in Positive : c[s] >= 0

VerdictFollowsSettings ==
  /\ stage = "ready" => Usable(Given)
  /\ stage = "fatal" => MayRefuse \/ ~Usable(Given)
=============================================================================
