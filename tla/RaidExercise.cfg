SPECIFICATION Spec
CONSTANTS
  Inputs <- Exercises
  numRequests = 2
INVARIANTS
  TypeOK
  WritesExact
  ReadsExact
  ParityComputable
  FirstIOSeeks
  NearIsCheaper
