SPECIFICATION Spec
CONSTANTS
  Descs <- FromFour
INVARIANTS
  Balanced
CHECK_DEADLOCK FALSE
