\* All routes and methods, and any three calls for the contract of Logging.
SPECIFICATION Spec
CONSTANTS
  Lengths = {2, 7}
  Others <- MCOthers
INVARIANTS
  LoggedAsSent
  HeadIsGetWithoutBody
  AllowIsExact
