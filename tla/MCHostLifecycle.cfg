SPECIFICATION HostFairSpec
CONSTANTS
  Faults = {"conf", "crash", "power"}
  MaxLives = 3
  MaxTries = 2
INVARIANTS
  HostTypeOK
  EveryStopReported
  StopReportedOnce
PROPERTY KillWorks
CHECK_DEADLOCK FALSE
