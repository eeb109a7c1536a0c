SPECIFICATION Spec
CONSTANTS
  p1 = p1
  p2 = p2
  Procs = {p1, p2}
  KeyID = KeyID
  OtherKid = OtherKid
  MaxKeys = 2
  Faults = {"http"}
CHECK_DEADLOCK FALSE
PROPERTY
  NewKeyPickedUp
