SPECIFICATION FairSpec
CONSTANTS
  Descs <- AllDescs
INVARIANTS
  TypeOK
  BalancedFromZero
  Placeable
  Starves
PROPERTIES
  GeneratesAll
CHECK_DEADLOCK FALSE
