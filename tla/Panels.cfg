\* A view with two children in a row, a setting of each kind and one subagent.
SPECIFICATION MCSpec
CONSTANTS
  Conn <- MCConn
  NoConn = 0
  MaxSent = 2
  MaxMoves = 7
  SettingMoves = 3
  CommandMoves = 5
  Toggle = {steering}
  Level = {thinking}
  Model = model
  Echoed = {model}
  Value <- MCValue
  Agent = {a1}
  NoAgent = NoAgent
  MaxPage = 2
  LineCap = 1
  OneShot = {fresh, export}
  Fresh = fresh
  Path = {p1}
  NoPath = NoPath
  ListMoves = 7
  Tool = {t1, t2}
  MaxRows = 3
  MaxGen = 2
INVARIANTS
  SettledShowsOmp
  FlagsHaveRequests
  
  UnreadAreBelow
  ClockWhileToolsRun
CHECK_DEADLOCK FALSE
