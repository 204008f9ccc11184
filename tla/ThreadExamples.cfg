SPECIFICATION Spec
CONSTANTS
  Programs <- AllPrograms
INVARIANTS
  CounterBounds
  MainBrackets
CHECK_DEADLOCK FALSE
