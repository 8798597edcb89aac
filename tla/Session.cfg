\* A session with up to three connections, its tasks all running to their end.
SPECIFICATION FairSpec
CONSTANTS
  Conn <- MCConn
  NoConn = NoConn
  NoInstall = NoInstall
  MaxAborts = 1
  Limit = 2
  Window = 1
  RingCap = 0
  Byte = {}
  MaxTime = 1
  MaxDeaths = 2
  MaxChunk = 0
  MaxObserved = 0
INVARIANTS
  PumpFollowsClient
  DeliberateCloseIsNoCrash
  ConnectingIsReal
PROPERTIES
  LinkSpec
  
CHECK_DEADLOCK FALSE
