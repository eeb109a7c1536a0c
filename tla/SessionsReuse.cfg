SPECIFICATION Spec
CONSTANTS
  p1 = p1
  p2 = p2
  Users = {alice, bob}
  NoUser = NoUser
  MaxPairs = 3
  Procs = {p1, p2}
  Ops <- RotationsOnly
  Faults = {}
CHECK_DEADLOCK FALSE
INVARIANT
  OneRotation
