SPECIFICATION Spec
CONSTANTS
  alice = alice
  bob = bob
  t1 = t1
  t2 = t2
  p1 = p1
  p2 = p2
  Users = {alice, bob}
  Sharees = {bob}
  Grants = {"read"}
  NoUser = NoUser
  Titles = {t1, t2}
  NoTitle = NoTitle
  NoList = NoList
  MaxAssets = 2
  MaxDepth = 20
  Procs = {p1, p2}
  Calls <- ReadsAndShares
  Observed = {}
  Faults = {}
  Oversight <- BobOverAlice
  InitRows <- FolderAndNote
CHECK_DEADLOCK FALSE
INVARIANT
  RevokedUserLosesAccess
