SPECIFICATION MCSpec
CONSTANTS
  Selection <- MCSelection
  DefaultTheme <- MCDefaultTheme
  LightTheme <- MCLight
  DarkTheme <- MCDark
  Paired <- MCPaired
  NoSelection = none
  SessionFile = {s1, s2}
  NoSession = nosession
  Torn = torn
  Thread = {main, t1}
  Main = main
  MaxRecent = 1
  View <- MCView
  Child <- MCChild
  NoChild = 0
  Card = {"about", "rename", "handoff"}
  List = {"branch", "login"}
  TabMoves = 4
  OverlayMoves = 5
  FileMoves = 3
INVARIANTS RestartsAsLeft  ChildrenToldToEnd PreviewsAreUndone
 
CHECK_DEADLOCK FALSE   \* the moves of a behaviour run out
