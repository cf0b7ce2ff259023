SPECIFICATION FairSpec
CONSTANTS
  Call = {c1, c2}
  HostAddress = {h1, h2}
  MaxFaults = 2
  MaxElections = 2
CHECK_DEADLOCK FALSE
INVARIANTS
  NoPeerIsMuted
  PeerKeepsListening
PROPERTIES
  LeaderHearsPeer
