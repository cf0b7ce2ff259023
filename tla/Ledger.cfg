SPECIFICATION Spec
CONSTANTS
  Width = 2
  Commands <- MCCommands
  MaxBatchSize = 2
  MaxLog = 5
INVARIANTS
  DurableIsReplay
  LeaderIsReplay
  BooksBalance
  BookedOncePerLeadership
