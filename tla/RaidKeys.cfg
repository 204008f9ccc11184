SPECIFICATION FairSpec
CONSTANTS
  Inputs <- KeyRuns
  MaxStarts = 2
  MaxPauses = 2
  MaxTimer = 60
  QuitKey = TRUE
INVARIANTS
  DoneIsReal
  NoIdleDisk
  LatencyAccounted
PROPERTIES
  StaysDone
  EventuallyDone
CHECK_DEADLOCK FALSE
