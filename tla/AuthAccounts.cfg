\* Two registrations and one request to log in race, with a valid login name and
\* an invalid one, while statements fail or land late.
SPECIFICATION Spec
CONSTANTS
  alice = alice
  short = short
  good = good
  other = other
  longer = longer
  weak = weak
  Registers = {reg1, reg2}
  Auths = {in1}
  Uses = {}
  Logouts = {out1}
  Login = {alice, short}
  GoodLogin = {alice}
  Password = {good, other, longer, weak}
  Strong = {good, other}
  Long = {longer}
  Cut <- MCCut
  Accounts <- Nobody
  NoUser = NoUser
  NoSession = NoSession
  NoArg = NoArg
  Stranger = Stranger
  Malformed = Malformed
  SessionTTL = 1
  MaxSkew = 0
  MaxTime = 1
  Faults = {"db", "indoubt", "late", "crash", "malformed"}
INVARIANTS
  TypeOK
  RegisteredOnce
  ConfirmedPasswordOpens
  AccountsAreApproved
SYMMETRY Symmetry
