SPECIFICATION Spec
CONSTANTS
  c1 = c1
  c2 = c2
  c3 = c3
  c4 = c4
  Request <- Requests
  EventCount <- Counts
  MaxSnapshots = 2
  MaxCrashes = 2
INVARIANTS
  StoreIsTransactional
  AppliedIsReplay
  ProcessedIsStored
CHECK_DEADLOCK FALSE
