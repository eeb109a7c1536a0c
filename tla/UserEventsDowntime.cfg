SPECIFICATION Spec
CONSTANTS
  a = a
  b = b
  p1 = p1
  p2 = p2
  Users = {a, b}
  NoUser = NoUser
  Procs = {p1}
  AuditTopics = {"team.activity"}
  Partitions = {1}
  MaxEvents = 1
  NoRecord = NoRecord
  Faults = {"stop"}
CHECK_DEADLOCK FALSE
INVARIANT
  RecoversMissed
