\* Three callers, one document and one body: readers queue behind a writer that
\* drains other readers.  No symmetry, which is unsound for liveness.
SPECIFICATION FairSpec
CONSTANTS
  c1 = c1
  c2 = c2
  c3 = c3
  u = u
  d1 = d1
  d2 = d2
  q = q
  Caller = {c1, c2, c3}
  User = {u}
  DocId = {d1}
  Query = {}
  NoDoc = NoDoc
  NoQuery = NoQuery
  None = None
  Missing = Missing
  Body = {1}
  Size <- MCSize
  MaxEntries = 1
  MaxBytes = 1
  MaxGeneration = 1
INVARIANT
  NobodyWaitsForNobody
PROPERTY
  EveryCallReturns
