\* A view with two children in a row, and a user who writes as it pleases.
SPECIFICATION Spec
CONSTANTS
  Conn <- MCConn
  NoConn = 0
  Piece = {p1, p2, p3}
  Attachable = {p3}
  NoPiece = NoPiece
  MaxNow = 1
  MaxChildren = 2
INVARIANTS
  SentOnce
  PromptMeansArmed
CHECK_DEADLOCK FALSE
