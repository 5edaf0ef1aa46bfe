\* One user logs in twice, uses both tokens and logs out while the clocks drift.
SPECIFICATION Spec
CONSTANTS
  alice = alice
  short = short
  good = good
  other = other
  longer = longer
  weak = weak
  Registers = {}
  Auths = {in1, in2}
  Uses = {use1}
  Logouts = {out1}
  Login = {alice}
  GoodLogin = {alice}
  Password = {good}
  Strong = {good}
  Long = {}
  Cut <- MCCut
  Accounts <- Everybody
  NoUser = NoUser
  NoSession = NoSession
  NoArg = NoArg
  Stranger = Stranger
  Malformed = Malformed
  SessionTTL = 2
  MaxSkew = 1
  MaxTime = 4
  Faults = {"late"}
PROPERTIES
  SessionEndsInTime
  SessionHolds
  ImplementsSessionStore
