SPECIFICATION FairSpec
CONSTANTS
  Inputs <- BusyDataDisk
  MaxStarts = 1
  MaxPauses = 0
  MaxTimer = 400
  QuitKey = FALSE
INVARIANTS
  FullStripeSkipsParity
CHECK_DEADLOCK FALSE
