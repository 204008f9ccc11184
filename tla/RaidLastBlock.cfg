SPECIFICATION Spec
CONSTANTS
  Inputs <- LastBlock
  numRequests = 1
INVARIANTS
  BlockExists
