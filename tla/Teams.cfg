SPECIFICATION FairSpec
CONSTANTS
  alice = alice
  bob = bob
  p1 = p1
  p2 = p2
  Users = {alice, bob}
  NoUser = NoUser
  Managers = {alice}
  MaxTeams = 1
  Procs = {p1, p2}
  Calls <- RulerAndManager
  Observed = {}
  Leavers = {bob}
  Faults = {"redis", "kafka", "crash"}
  NoList = NoList
CHECK_DEADLOCK FALSE
INVARIANTS
  TypeOK
  StaleOnlyIfLate
PROPERTIES
  EntitledSinceBegin
  ManagersMadeByCreator
  AddsOnlyAbsent
  EventuallyTruthful
