\* One child from the search for it to its end.  Calls before the pages may go
\* unanswered, so four frames of the child leave room for a history that changes
\* under the pages; no connect makes more than nine calls.
SPECIFICATION ConnectSpec
CONSTANTS
  Prepare = 2
  MaxPages = 2
  BusyRetries = 2
  EventCap = 1
  MaxCalls = 9
  MaxSaid = 4
  MaxMoves = 2
INVARIANTS
  OneHistory
PROPERTIES
  ConnectEnds
  ShutdownEnds
CHECK_DEADLOCK FALSE
