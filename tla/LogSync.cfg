SPECIFICATION PatientSpec
CONSTANTS
  NoPlan = NoPlan
  NoOp = NoOp
  plan1 = plan1
  plan2 = plan2
  plan3 = plan3
  g1 = g1
  g2 = g2
  g3 = g3
  accounts = accounts
  Plan = plan2
  Requests <- TwoSplits
  Self = 2
  e1 = e1
  e2 = e2
  Endpoint = {e1, e2}
  RouteType = {accounts}
  Group = {g1, g2, g3}
  RouteAnswers = {TRUE, FALSE}
  MaxLog = 3
  MaxCommands = 1
  SourceTerm <- LeaderChange
  MaxTruncations = 1
  Truncating = {e1}
  MaxCrashes = 1
  MaxSyncCalls = 2
  MaxStartups = 1
INVARIANTS
  SyncedIsPrefix
  BeginsAfterItsSplit
  OneClusterServes
PROPERTIES
  SplitIsFollowed
CHECK_DEADLOCK FALSE
