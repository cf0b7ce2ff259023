SPECIFICATION Spec
CONSTANTS
  n1 = n1
  n2 = n2
  n3 = n3
  Server = {n1, n2, n3}
  Nobody = Nobody
  Electable <- Rivals
  Crashable <- Voter
  Links <- ViaVoter
  MaxBatchSize = 1
  MaxDecrStep = 1
  MaxTerm = 4
  MaxLogLen = 2
  MaxCalls = 1
  MaxErrors = 0
  MaxCrashes = 1
  MaxTruncations = 0
CHECK_DEADLOCK FALSE
SYMMETRY Symmetry
VIEW View
INVARIANTS
  OneVotePerTerm
  ElectionSafety
  LogMatching
  LeaderCompleteness
  StateMachineSafety
  MatchIndexIsShared
  AckedEntriesSurvive
