\* A view with two children in a row; what they ask is bounded as a whole, so each
\* part goes deep while the other stays shallow.
SPECIFICATION Spec
CONSTANTS
  Conn <- MCConn
  NoConn = 0
  Question = {q}
  Choice = {a}
  MaxAsked = 3
  Enabled = TRUE
  MaxHost = 1
  MaxLoad = 4
INVARIANTS
  AnsweredOnce
  DialogsServed
CHECK_DEADLOCK FALSE
