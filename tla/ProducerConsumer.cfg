SPECIFICATION FairSpec
CONSTANTS
  max = 2
  loops = 5
  consumers = 3
  MaxSpurious = 1
INVARIANTS
  TypeOK
  RingFIFO
  NoLostWakeup
  MarkerAccounting
  CleanExit
PROPERTIES
  Termination
  ImplementsChannel
