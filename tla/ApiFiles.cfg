\* Uploads and deletions of files by one user while statements fail, take effect
\* without an answer, or take effect later, and the process dies and restarts.
\* No failing file operation: it leaves files behind that nothing explains.
SPECIFICATION Spec
CONSTANTS
  alice = alice
  bob = bob
  ta = ta
  tb = tb
  up1 = up1
  up2 = up2
  list1 = list1
  list2 = list2
  get1 = get1
  get2 = get2
  del1 = del1
  del2 = del2
  out1 = out1
  doc1 = doc1
  Own = Own
  Unset = Unset
  NoDoc = NoDoc
  NoQuery = NoQuery
  DocId <- MCDocId
  Query <- MCQuery
  Body <- MCBody
  Size <- MCSize
  TokenUser <- MCTokenUser
  User = {alice}
  Token = {ta}
  Uploads = {up1, up2}
  Lists = {}
  Gets = {}
  Deletes = {del1, del2}
  Logouts = {}
  Stored = {doc1}
  Forms <- FileForms
  PoolSize = 2
  Faults = {"db", "indoubt", "late", "crash"}
  MaxEntries = 1
  MaxBytes = 10
INVARIANTS
  FilesBackDocuments
  OrphansExplained
SYMMETRY RequestSymmetry
