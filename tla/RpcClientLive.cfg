\* Liveness of one connection whose child reads its stdin while it lives.
SPECIFICATION ReadingChildSpec
CONSTANTS
  r1 = r1
  r2 = r2
  Request <- MCOneRequest
  Droppable <- NoneDroppable
  NoRequest = NoRequest
  WriterCap = 1
  EventCap = 1
  OutCap = 1
  MaxFrames = 2
  MaxRaw = 1
PROPERTIES
  CallsReturn
  DeathAnnounced
CHECK_DEADLOCK FALSE
