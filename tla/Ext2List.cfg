SPECIFICATION Spec
CONSTANTS
  Programs <- AllPrograms
  Disks <- AllDisks
  GarbageInodes <- SomeInodes
  GarbageHeaders <- SomeHeaders
INVARIANTS
  ListsDirectory
CHECK_DEADLOCK FALSE
