\* An upload that PostgreSQL commits after the handler gave up.
SPECIFICATION Spec
CONSTANTS
  alice = alice
  bob = bob
  ta = ta
  tb = tb
  up1 = up1
  up2 = up2
  list1 = list1
  list2 = list2
  get1 = get1
  get2 = get2
  del1 = del1
  del2 = del2
  out1 = out1
  doc1 = doc1
  Own = Own
  Unset = Unset
  NoDoc = NoDoc
  NoQuery = NoQuery
  DocId <- MCDocId
  Query <- MCQuery
  Body <- MCBody
  Size <- MCSize
  TokenUser <- MCTokenUser
  User = {alice}
  Token = {ta}
  Uploads = {up1}
  Lists = {list1}
  Gets = {}
  Deletes = {}
  Logouts = {}
  Stored = {}
  Forms <- JsonForms
  PoolSize = 1
  Faults = {"late"}
  MaxEntries = 1
  MaxBytes = 10
INVARIANTS
  QuiescentCacheIsFresh
SYMMETRY RequestSymmetry
