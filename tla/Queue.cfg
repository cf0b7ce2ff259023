SPECIFICATION FairSpec
CONSTANTS
  p1 = p1
  p2 = p2
  Producer = {p1, p2}
  MaxItems = 3
CHECK_DEADLOCK FALSE
INVARIANTS
  PolledNeverBlocks
PROPERTIES
  ImplementsMpscQueue
  EntriesAreConsumed
