SPECIFICATION FairSpec
CONSTANTS
  p1 = p1
  p2 = p2
  Users = {alice}
  NoUser = NoUser
  MaxPairs = 2
  Procs = {p1, p2}
  Ops <- Split
  Faults = {"redis", "crash"}
CHECK_DEADLOCK FALSE
INVARIANTS
  TypeOK
  RotatedIsRevoked
  LogoutIsFinal
PROPERTIES
  RotatesOnlyValid
  LoggedOutIsRefused
  EventuallyRefused
