SPECIFICATION DivergedSpec
CONSTANTS
  n1 = n1
  n2 = n2
  n3 = n3
  Server = {n1, n2, n3}
  Nobody = Nobody
  Electable <- Incumbent
  Crashable <- NoCrash
  Links <- ToDiverged
  MaxBatchSize = 1
  MaxDecrStep = 2
  MaxTerm = 5
  MaxLogLen = 3
  MaxCalls = 2
  MaxErrors = 1
  MaxCrashes = 0
  MaxTruncations = 1
CHECK_DEADLOCK FALSE
INVARIANTS
  IndexesWithinLog
  HandlerAssertionsHold
PROPERTIES
  StableLeaderReplicates
