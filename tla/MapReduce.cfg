SPECIFICATION FairSpec
CONSTANTS
  Jobs <- AllJobs
  InitSize = 1
INVARIANTS
  TypeOK
PROPERTIES
  KeyOnce
  ImplementsGrouping
  Finishes
CHECK_DEADLOCK FALSE
