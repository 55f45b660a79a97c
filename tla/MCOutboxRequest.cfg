SPECIFICATION OutboxFairSpec
CONSTANTS
  k1 = k1
  k2 = k2
  Packages = {k1, k2}
  NoPackage = NoPackage
  Wakeup = FALSE
  Faults = {}
  MaxStops = 0
PROPERTY RequestIsServed
