SPECIFICATION OutboxFairSpec
CONSTANTS
  k1 = k1
  k2 = k2
  Packages = {k1, k2}
  NoPackage = NoPackage
  Wakeup = TRUE
  Faults = {"net", "delete", "read", "trigger"}
  MaxStops = 2
INVARIANTS
  OutboxTypeOK
  NotLost
  OkMeansSent
  WakeUpIsSet
PROPERTIES
  DeliveryPromise
  EventuallyDelivered
  EventuallyRemoved
