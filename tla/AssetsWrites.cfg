SPECIFICATION Spec
CONSTANTS
  alice = alice
  bob = bob
  t1 = t1
  t2 = t2
  p1 = p1
  p2 = p2
  Users = {alice, bob}
  Sharees = {bob}
  Grants = {"read", "write"}
  NoUser = NoUser
  Titles = {t1}
  NoTitle = NoTitle
  NoList = NoList
  MaxAssets = 3
  MaxDepth = 20
  Procs = {p1, p2}
  Calls <- Writes
  Observed = {}
  Faults = {"crash"}
  Oversight <- BobOverAlice
  InitRows <- FolderInFolder
CHECK_DEADLOCK FALSE
INVARIANTS
  TypeOK
  TreeWellFormed
PROPERTIES
  WriteAuthorised
