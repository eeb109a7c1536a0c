SPECIFICATION FairSpec
CONSTANTS
  Lists = {"users", "assets"}
  MaxRows = 6
  Limits = {1, 2, 3}
  Firsts = {1, 2, 4, 5, 9, 10}
  Width = 3
CHECK_DEADLOCK FALSE
INVARIANTS
  TypeOK
  OmissionsBounded
  RepeatsBounded
  NeverWrapsMidway
PROPERTY
  WalkEnds
