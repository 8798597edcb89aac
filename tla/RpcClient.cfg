\* Safety and refinement of one connection.
SPECIFICATION Spec
CONSTANTS
  r1 = r1
  r2 = r2
  Request <- MCRequest
  Droppable <- MCDroppable
  NoRequest = NoRequest
  WriterCap = 1
  EventCap = 1
  OutCap = 2
  MaxFrames = 2
  MaxRaw = 0
INVARIANTS
  ClosedMeansDrained
  NoLeakedEntry
  DiedMeansGone
  EventsFaithful
PROPERTIES
  ImplementsRequestReply
CHECK_DEADLOCK FALSE
