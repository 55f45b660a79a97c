SPECIFICATION HostSpec
CONSTANTS
  Faults = {}
  MaxLives = 2
  MaxTries = 3
INVARIANT LostByFaultOnly
CHECK_DEADLOCK FALSE
