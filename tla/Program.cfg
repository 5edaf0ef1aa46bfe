\* Two requests, two signals and a server that may fail at every stage, under
\* a MaxPort of 3.
SPECIFICATION ProgramSpec
CONSTANTS
  Requests = {r1, r2}
  MaxSignals = 2
  Faults = {"start", "listen", "accept"}
  SessionTTL = SessionTTL
  MaxBytes = MaxBytes
  StorageDir = StorageDir
  AdminToken = AdminToken
  SomeText = SomeText
  Positive <- MCPositive
  Port = Port
  Text = {StorageDir}
  Secret = {AdminToken}
  Empty = Empty
  Blank = Blank
  Malformed = Malformed
  Default <- MCDefault
  MaxPort = 3
  Files <- MCFiles
  Environments <- MCEnvironments
  NoFile = NoFile
INVARIANTS
  CleanExitIsGraceful
  HandlersKeepThePool
  FailureIsReported
  OperatorDecides
  VerdictFollowsSettings
PROPERTIES
  SecondSignalKills
  ProcessEnds
