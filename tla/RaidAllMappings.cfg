SPECIFICATION FairSpec
CONSTANTS
  Inputs <- AllMappings
  MaxStarts = 1
  MaxPauses = 0
  MaxTimer = 400
  QuitKey = FALSE
INVARIANTS
  TypeOK
  DoneIsReal
  WritesInOrder
  NoIdleDisk
  LatencyAccounted
  AtMostWindow
  CountersShown
PROPERTIES
  SeekApproaches
  ImplementsRaidIO
  EventuallyDone
CHECK_DEADLOCK FALSE
