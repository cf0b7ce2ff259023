SPECIFICATION TwinSpec
CONSTANTS
  Term = {1, 2}
  MaxSlots = 3
  MaxBatch = 2
  MaxIndex = 4
  MaxCrashes = 2
CHECK_DEADLOCK FALSE
INVARIANTS
  SegmentsMatchFiles
  StoresAgree
PROPERTIES
  ImplementsLog
