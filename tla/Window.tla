-------------------------------- MODULE Window --------------------------------
(***************************************************************************)
(* The whole window: the tabs and quitting (Workspace), what sessions lay  *)
(* over themselves (Overlays), and the files both write (Persistence).     *)
(* Handlers of the foreground are atomic but for their writes, during      *)
(* which only connect threads and children go on.                          *)
(***************************************************************************)
EXTENDS Overlays

windowVars == <<workspaceVars, overlayVars, fileVars>>

TypeOK == PersistenceTypeOK /\ WorkspaceTypeOK /\ OverlaysTypeOK

Init == PersistenceInit /\ WorkspaceInit /\ OverlaysInit

NoOverlay == UNCHANGED overlayVars

-----------------------------------------------------------------------------
\* What is done to the tabs, from the rail, the menus, the keys and the palette.
TabInput ==
  /\ Ready
  /\ \/ (\E a \in WindowAction : RunWindowAction(a)) /\ TabsGone
     \/ AddSessionForCwd /\ NoOverlay
     \/ (\E i \in 1..Len(win.tabs) : CloseSessionAt(i)) /\ TabsGone
     \/ (\E i \in 1..Len(win.tabs) : SelectSession(i)) /\ NoOverlay
     \/ EndSidebarResize /\ NoOverlay
     \/ \E v \in View : ReturnToLauncher(v) /\ v = Active /\ OverlaysReturn(v)

\* The rename of another tab's session comes through the rail.
RenameSessionAt(i) ==
  /\ Ready /\ "rename" \in Card
  /\ LET v == win.tabs[i] IN
     /\ win' = Selected(win, i)
     /\ over' = IF Live(v) THEN [over EXCEPT ![v].palette = FALSE, ![v].card = "rename",
                                             ![v].lists = {}]
                ELSE over
  /\ UNCHANGED <<childVars, quitVars, fileVars, theme, mixed>>

SessionInput == Ready /\ OverlayInput(Active)

Paint == Ready /\ Render /\ TabsGone

SessionStep ==
  /\ Ready
  /\ \/ \E v \in View : (Connect(v) \/ Connected(v)) /\ NoOverlay
     \/ \E v \in View : OverlayAnswer(v)

\* Beside the foreground.
Beside ==
  /\ NoOverlay
  /\ \/ \E c \in Child : Turn(c)
     \/ \E t \in Thread : ConnectThreadSaves(t)
     \/ FileStep /\ UNCHANGED workspaceVars

Exit == Ready /\ (\E c \in Child : ChildExits(c)) /\ NoOverlay

Quitting ==
  /\ Ready /\ NoOverlay
  /\ ShouldClose \/ CancelPendingQuit \/ ConfirmPendingQuit

QuitTask == Ready /\ QuitStep /\ NoOverlay

End == quit \in {"no", "asked", "going"} /\ ProcessEnds /\ NoOverlay

Start == Relaunch /\ OverlaysRelaunch

Next ==
  \/ TabInput \/ SessionInput \/ Paint \/ SessionStep \/ Beside \/ Exit
  \/ (\E i \in 1..Len(win.tabs) : RenameSessionAt(i))
  \/ Quitting \/ QuitTask \/ End \/ Start

\* The foreground's writes are calls that return, and gpui runs a task that is woken,
\* if not while the foreground writes.
SaveStep == (LoadFile(Main) \/ WriteTemporary(Main) \/ Rename(Main) \/ FallBack(Main) \/ Fill(Main))
             /\ UNCHANGED workspaceVars /\ NoOverlay
Fairness == SF_windowVars(QuitTask) /\ WF_windowVars(SaveStep)

Spec == Init /\ [][Next]_windowVars /\ Fairness
=============================================================================
