SPECIFICATION FairSpec
CONSTANTS
  Cmds = {1, 2}
  Repliers = {r1}
  MaxTerm = 2
  MaxForeign = 1
  MaxQueue = 2
INVARIANTS
  DecidedOnItsPrefix
  AnswersAreCommitted
  ReplicaIsReplay
  AssertionsHold
PROPERTY
  EveryCommandIsAnswered
CHECK_DEADLOCK FALSE
