\* Two callers, a list and two documents: every interleaving of two methods.
\* At most two entries and three bytes; a body of four bytes is inadmissible.
SPECIFICATION Spec
CONSTANTS
  c1 = c1
  c2 = c2
  c3 = c3
  u = u
  d1 = d1
  d2 = d2
  q = q
  Caller = {c1, c2}
  User = {u}
  DocId = {d1, d2}
  Query = {q}
  NoDoc = NoDoc
  NoQuery = NoQuery
  None = None
  Missing = Missing
  Body = {1, 2, 3, 4}
  Size <- MCSize
  MaxEntries = 2
  MaxBytes = 3
  MaxGeneration = 2
INVARIANTS
  TypeOK
  BytesExact
  WithinLimits
  EvictionNeverStuck
  GetIsAtomic
PROPERTY
  ImplementsAtomicCache
SYMMETRY CallerSymmetry
