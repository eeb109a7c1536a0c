SPECIFICATION FairSpec
CONSTANTS
  a = a
  b = b
  N = 4
  Emails = {a, b}
  EmailOf <- TwoAlike
  BadRows <- CleanOrBad
  Requested = 2
  Default = 5
  Outsiders = {b}
  Faults = {"db"}
CHECK_DEADLOCK FALSE
INVARIANTS
  TypeOK
  SummaryIsExact
  AnnouncedBeforeSummary
  OneWriter
  NobodyBlocks
PROPERTY
  EventuallyReturns
