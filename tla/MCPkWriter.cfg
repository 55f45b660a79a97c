SPECIFICATION WriterSpec
CONSTANTS
  host = host
  docs = docs
  sync = sync
  k1 = k1
  k2 = k2
  k3 = k3
  NoPackage = NoPackage
  Procs = {host}
  Writers = {docs, sync}
  ProcOf <- MCProcOf
  KindOf <- MCKindOf
  Packages = {k1, k2, k3}
  Faults = {"media", "move", "flush", "clock"}
  MaxClock = 2
SYMMETRY Symmetry
CHECK_DEADLOCK FALSE
INVARIANTS
  WriterTypeOK
  VisibleIsWhole
  NamesUnique
  OneNamePerPackage
  TempExclusive
  StoredIsPublished
PROPERTY DirPromise
