SPECIFICATION FairSpec
CONSTANTS
  Inputs <- SequentialReads
  MaxStarts = 1
  MaxPauses = 0
  MaxTimer = 100
  QuitKey = FALSE
PROPERTIES
  EventuallyDone
CHECK_DEADLOCK FALSE
