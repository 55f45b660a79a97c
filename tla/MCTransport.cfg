SPECIFICATION TransportFairSpec
CONSTANTS
  acts = acts
  docs = docs
  Threads = {acts, docs}
  Main = Main
  Nobody = Nobody
INVARIANTS
  TransportTypeOK
  CountIsExact
  ClosedWhenQuiet
  CloseNeverWaits
PROPERTIES
  ConnectionKept
  StopCompletes
