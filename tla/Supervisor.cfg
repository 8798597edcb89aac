SPECIFICATION SupSpec
CONSTANTS
  Limit = 3
  Window = 3
  RingCap = 2
  Byte <- MCByte
  MaxTime = 5
  MaxDeaths = 4
  MaxChunk = 3
  MaxObserved = 3
INVARIANTS
  RestartsAreSpaced
  SlowDripSurvives
  RingKeepsTail
CHECK_DEADLOCK FALSE
