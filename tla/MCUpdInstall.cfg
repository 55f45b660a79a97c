SPECIFICATION UpdSpec
CONSTANTS
  host = host
  logo = logo
  v1 = v1
  v2 = v2
  Modules = {host, logo}
  Versions = {v1, v2}
  Self = {host}
  Pictures = {logo}
  Tool = host
  None = None
  Torn = Torn
  JunkControl = TRUE
  RebootWait = TRUE
  Faults = {"net", "disk", "trigger"}
  MaxReleases = 1
  MaxStops = 1
INVARIANTS
  UpdTypeOK
  ModuleKept
  RootMirrorsPackages
  RebootFollows
CHECK_DEADLOCK FALSE
