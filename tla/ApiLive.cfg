\* One connection for two uploads and a list.  The clients may stop sending
\* requests, so the system may stop; EveryRequestAnswered says that it does not
\* stop earlier.  The process may restart, but nothing obliges it to.
SPECIFICATION FairSpec
CONSTANTS
  alice = alice
  bob = bob
  ta = ta
  tb = tb
  up1 = up1
  up2 = up2
  list1 = list1
  list2 = list2
  get1 = get1
  get2 = get2
  del1 = del1
  del2 = del2
  out1 = out1
  doc1 = doc1
  Own = Own
  Unset = Unset
  NoDoc = NoDoc
  NoQuery = NoQuery
  DocId <- MCDocId
  Query <- MCQuery
  Body <- MCBody
  Size <- MCSize
  TokenUser <- MCTokenUser
  User = {alice}
  Token = {ta}
  Uploads = {up1, up2}
  Lists = {list1}
  Gets = {}
  Deletes = {}
  Logouts = {}
  Stored = {}
  Forms <- BothForms
  PoolSize = 1
  Faults = {"late", "file", "malformed", "expire", "crash"}
  MaxEntries = 1
  MaxBytes = 10
PROPERTY
  EveryRequestAnswered
CHECK_DEADLOCK FALSE
