\* Two users read and delete a stored document, which is either a private JSON
\* document or a file granted to bob, through a cache of two entries, and log out.
\* Nothing fails: a 500 then means a lost race.
SPECIFICATION Spec
CONSTANTS
  alice = alice
  bob = bob
  ta = ta
  tb = tb
  up1 = up1
  up2 = up2
  list1 = list1
  list2 = list2
  get1 = get1
  get2 = get2
  del1 = del1
  del2 = del2
  out1 = out1
  doc1 = doc1
  Own = Own
  Unset = Unset
  NoDoc = NoDoc
  NoQuery = NoQuery
  DocId <- MCDocId
  Query <- MCQuery
  Body <- MCBody
  Size <- MCSize
  TokenUser <- MCTokenUser
  User = {alice, bob}
  Token = {ta, tb}
  Uploads = {}
  Lists = {}
  Gets = {get1, get2}
  Deletes = {del1, del2}
  Logouts = {out1}
  Stored = {doc1}
  Forms <- GrantForms
  PoolSize = 1
  Faults = {}
  MaxEntries = 2
  MaxBytes = 10
INVARIANTS
  TypeOK
  AckedDeleteIsGone
  NoUnauthorizedDisclosure
  NoAccessAfterLogout
  ReadFailsOnlyIfDeleted
  DeleteVerdict
SYMMETRY RequestSymmetry
