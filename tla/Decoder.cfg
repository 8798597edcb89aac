\* Every stream of up to three lines, cut into reads in every way.
SPECIFICATION FairSpec
CONSTANTS
  NotAnObject = NotAnObject
  Line <- MCLine
  NoChunk = NoChunk
  NoPending = NoPending
  MaxFrame = 5
  MaxLogical = 7
  MaxPayload = 3
  MaxCount = 3
  ReadSize = 4
  MaxLines = 3
INVARIANTS
  PendingWithinLimits
  FramesInARow
  VerdictIsTheStreams
PROPERTIES
  HangUpEnds
CHECK_DEADLOCK FALSE
