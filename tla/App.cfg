SPECIFICATION Spec
CONSTANTS
  a1 = a1
  a2 = a2
  a3 = a3
  a4 = a4
  Address <- Addresses
  Method <- Methods
  NoAddress = NoAddress
  Configs <- EveryConfig
CHECK_DEADLOCK FALSE
INVARIANTS
  HandlesAreAlive
  EveryMethodIsServed
