SPECIFICATION Spec
CONSTANTS
  Entry <- MCEntry
  Version = {1, 2}
  MaxSlots = 3
  SlotsPerPage = 2
  DataSize = 4
  MaxBatch = 2
  MaxCrashes = 2
CHECK_DEADLOCK FALSE
INVARIANTS
  ReadsAreRight
  
