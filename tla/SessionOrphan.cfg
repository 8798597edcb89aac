\* A second connect begun while the first is on its way.
SPECIFICATION Spec
CONSTANTS
  Conn <- MCConn
  NoConn = NoConn
  NoInstall = NoInstall
  MaxAborts = 0
  Limit = 2
  Window = 1
  RingCap = 0
  Byte = {}
  MaxTime = 0
  MaxDeaths = 2
  MaxChunk = 0
  MaxObserved = 0
INVARIANTS
  NoOrphan
CHECK_DEADLOCK FALSE
