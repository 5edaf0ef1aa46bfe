\* Two lists race an upload and a deletion of one user; statements fail or take
\* effect without an answer, and the process may restart.  One cache entry, so that
\* the two lists evict each other.
SPECIFICATION HSpec
CONSTANTS
  alice = alice
  bob = bob
  ta = ta
  tb = tb
  up1 = up1
  up2 = up2
  list1 = list1
  list2 = list2
  get1 = get1
  get2 = get2
  del1 = del1
  del2 = del2
  out1 = out1
  doc1 = doc1
  Own = Own
  Unset = Unset
  NoDoc = NoDoc
  NoQuery = NoQuery
  DocId <- MCDocId
  Query <- MCQuery
  Body <- MCBody
  Size <- MCSize
  TokenUser <- MCTokenUser
  User = {alice}
  Token = {ta}
  Uploads = {up1}
  Lists = {list1, list2}
  Gets = {}
  Deletes = {del1}
  Logouts = {}
  Stored = {doc1}
  Forms <- JsonForms
  PoolSize = 1
  Faults = {"db", "indoubt", "crash"}
  MaxEntries = 1
  MaxBytes = 10
INVARIANTS
  StaleOnlyUntilReset
  AckedUploadIsListed
PROPERTY
  ImplementsDocumentStore
SYMMETRY RequestSymmetry
