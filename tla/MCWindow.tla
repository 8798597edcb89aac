------------------------------- MODULE MCWindow -------------------------------
\* Three views one after the other, two children, two theme families of which only
\* one has a light theme.  A behaviour turns to the tabs and quitting, to what lies
\* over the sessions, or to the files: the three meet only in what the window chose.
EXTENDS Window

CONSTANTS TabMoves, OverlayMoves, FileMoves   \* bounds: moves of the user in a behaviour

VARIABLES focus, moves

MCLight == {"plain light"}
MCDark == {"plain dark", "berry"}
MCPaired == [t \in MCLight \cup MCDark |->
               CASE t = "plain light" -> "plain dark"
                 [] t = "plain dark" -> "plain light"
                 [] t = "berry" -> "none"]
MCSelection == [appearance : {"system", "light", "dark"}, light : MCLight, dark : MCDark]
MCDefaultTheme == [appearance |-> "system", light |-> "plain light", dark |-> "plain dark"]
MCView == 1..3
MCChild == 1..2

Within(n) == moves < n /\ moves' = moves + 1

MCInit == Init /\ focus \in {"tabs", "overlays", "files"} /\ moves = 0

\* Away from the files, a save succeeds and is over before anything else happens.
Saves == ~Idle(Main) /\ FileStep /\ ~lost' /\ UNCHANGED workspaceVars /\ NoOverlay

\* A palette that is opened for the window's business.
PaletteInput ==
  /\ SessionInput
  /\ \A v \in View : over'[v] \in {NothingOver, [NothingOver EXCEPT !.palette = TRUE]}

TabsNext ==
  IF ~Idle(Main) THEN Saves /\ UNCHANGED moves
  ELSE \/ Within(TabMoves) /\ (TabInput \/ PaletteInput \/ Quitting)
       \/ /\ \/ Paint \/ SessionStep \/ Exit \/ QuitTask \/ End \/ Start
             \/ (\E c \in Child : Turn(c)) /\ NoOverlay
          /\ UNCHANGED moves

OverlaysNext ==
  IF ~Idle(Main) THEN Saves /\ UNCHANGED moves
  ELSE \/ /\ Within(OverlayMoves) /\ Ready
          /\ \/ SessionInput \/ \E i \in 1..Len(win.tabs) : RenameSessionAt(i)
             \/ AddSession /\ NoOverlay
             \/ (\E i \in 1..Len(win.tabs) : SelectSession(i)) /\ NoOverlay
             \/ CloseSessionAt(win.active) /\ TabsGone
             \/ ReturnToLauncher(Active) /\ OverlaysReturn(Active)
       \/ /\ Paint \/ SessionStep
          /\ UNCHANGED moves

FilesNext ==
  \/ /\ Within(FileMoves) /\ Ready
     /\ \/ (ToggleRail \/ EndSidebarResize) /\ NoOverlay
        \/ SetInspector(~chosen.inspector_open) /\ NoOverlay
        \/ CloseSessionAt(win.active) /\ TabsGone
        \/ PickerOpen(Active) /\ ChooseThemePickerItem(Active)
  \/ /\ Within(FileMoves)
     /\ (\E t \in Thread : ConnectThreadSaves(t)) /\ NoOverlay
  \/ /\ \/ Ready /\ OpenThemePicker(Active)
        \/ SessionStep /\ UNCHANGED overlayVars
        \/ FileStep /\ UNCHANGED workspaceVars /\ NoOverlay
        \/ End \/ Start
     /\ UNCHANGED moves

MCNext ==
  /\ \/ focus = "tabs" /\ TabsNext
     \/ focus = "overlays" /\ OverlaysNext
     \/ focus = "files" /\ FilesNext
  /\ UNCHANGED focus

MCSpec ==
  /\ MCInit /\ [][MCNext]_<<windowVars, focus, moves>>
  /\ WF_<<windowVars, focus, moves>>(QuitTask /\ UNCHANGED <<focus, moves>>)
  /\ WF_<<windowVars, focus, moves>>(SaveStep /\ UNCHANGED <<focus, moves>>)
=============================================================================
