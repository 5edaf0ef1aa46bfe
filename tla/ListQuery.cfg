\* Lists with limits and filters over four documents that come and go.
SPECIFICATION Spec
CONSTANTS
  User = {"alice", "bob"}
  Document <- MCDocument
  Params <- MCParams
  Absent = Absent
  Bad = Bad
  Spelling <- MCSpelling
  Number <- MCNumber
  Rank <- MCRank
  DefaultLimit = 3
  MaxLimit = 4
  CacheSize = 2
INVARIANTS
  HitEqualsMiss
  ListIsComplete
  AnswerIsDetermined
