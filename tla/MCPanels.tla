------------------------------- MODULE MCPanels -------------------------------
\* Two children in a row, and the smallest set of settings of every kind.  A
\* behaviour turns to the settings, to the drawer, to the commands or to the list:
\* these share the pipe and the client and nothing else, and the drawer takes most
\* moves to go wrong.
EXTENDS Panels

CONSTANTS SettingMoves,  \* bound: the moves of a behaviour that turns to the settings
          CommandMoves,  \* or to the commands
          ListMoves      \* or to the list

VARIABLES focus          \* what it turns to

MCConn == 1..2
MCValue == 0..1

MCInit == Init /\ focus \in {"settings", "drawer", "commands", "list"}
MCNext ==
  /\ \/ focus = "settings" /\ Within(SettingMoves) /\ (SettingMove \/ Event)
     \/ focus = "drawer" /\ Within(MaxMoves) /\ (DrawerMove \/ Event)
     \/ focus = "commands" /\ Within(CommandMoves) /\ (CommandMove \/ Event)
     \/ focus = "list" /\ Within(ListMoves) /\ (ListMove \/ Event)
     \/ Consequence
  \* What a connect leaves behind is told apart where the focus is.
  /\ focus # "settings" => ~informed'
  /\ focus # "commands" => ~misled'
  /\ focus # "list" => rows' = 0
  /\ UNCHANGED focus
MCSpec == MCInit /\ [][MCNext]_<<vars, focus>>
=============================================================================
