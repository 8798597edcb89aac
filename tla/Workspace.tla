------------------------------ MODULE Workspace ------------------------------
(***************************************************************************)
(* The window: its tabs, one session view each, which of them is active,   *)
(* what a session asks the window to do at its next paint, and quitting.   *)
(* The children of the sessions start, work and exit beside all of it.     *)
(***************************************************************************)
EXTENDS Persistence, FiniteSets

CONSTANTS
  View,           \* session views, in the order opened
  Child,          \* omp children, in the order started
  NoChild

ASSUME WorkspaceAssumption ==
  /\ IsFiniteSet(View) /\ View = 1..Cardinality(View) /\ View # {}
  /\ IsFiniteSet(Child) /\ Child = 1..Cardinality(Child)
  /\ NoChild \notin Child

VARIABLES
  win,        \* tabs, the active one, and every view's share
  running,    \* children that run
  busy,       \* those in a phase that can be aborted
  quit,       \* "no", "asked" (the confirm card), "going" (confirmed), "done" (by its task),
              \* "over" (the process ended otherwise)
  toEnd,      \* what the quit task has still to do
  captured,   \* history: the children it set out to end
  told        \* children whose stdin was closed

childVars == <<running, busy>>
quitVars == <<quit, toEnd, captured, told>>
workspaceVars == <<win, childVars, quitVars>>

\* The palette's actions that are the window's business.
WindowAction == {"NewSession", "CloseSession", "ToggleRail", "ToggleInspector", "ToggleTodos"}

NewView == [client |-> NoChild, connecting |-> FALSE, launcher |-> TRUE,
            inspector_open |-> FALSE, palette |-> "none", new_tab |-> FALSE]
ViewState == [client : Child \cup {NoChild}, connecting : BOOLEAN, launcher : BOOLEAN,
              inspector_open : BOOLEAN,
              palette : WindowAction \cup {"none"}, new_tab : BOOLEAN]

WorkspaceTypeOK ==
  /\ win.tabs \in Seq(View) /\ IsInjective(win.tabs)
  /\ win.made \in 0..Cardinality(View)
  /\ win.active \in Nat
  /\ win.view \in [View -> ViewState]
  /\ win.begun \in 0..Cardinality(Child)
  /\ busy \subseteq running /\ running \subseteq Child
  /\ quit \in {"no", "asked", "going", "done", "over"}
  /\ toEnd \in Seq([child : Child, abort : BOOLEAN])
  /\ captured \subseteq Child /\ told \subseteq Child

-----------------------------------------------------------------------------
(* What the handlers make of the window, as functions of it.                *)

\* Bound: views and children that can still be made.
HasView(w) == w.made + 1 \in View
HasChild == win.begun + 1 \in Child

\* sync_inspector_open_to_sessions
Synced(w, open) ==
  [w EXCEPT !.view = [v \in View |-> IF Contains(w.tabs, v)
                                     THEN [w.view[v] EXCEPT !.inspector_open = open]
                                     ELSE w.view[v]]]

\* Slip: a new tab is not told whether the inspector is open.
PushedUnsynced(w, v) ==
  [w EXCEPT !.tabs = Append(@, w.made + 1), !.active = Len(w.tabs) + 1, !.made = @ + 1,
            !.view[w.made + 1] = v]

\* push_launcher_session
Pushed(w, v) ==
  Synced([w EXCEPT !.tabs = Append(@, w.made + 1), !.active = Len(w.tabs) + 1, !.made = @ + 1,
                   !.view[w.made + 1] = v],
         chosen.inspector_open)

\* clamp_active
Clamped(w) == [w EXCEPT !.active = IF @ <= Len(w.tabs) THEN @ ELSE Len(w.tabs)]

\* close_session_at
Closed(w, i) ==
  LET left == [w EXCEPT !.tabs = RemoveAt(@, i),
                        !.view[w.tabs[i]] = NewView]
  IN  IF left.tabs = <<>> THEN Pushed(left, NewView) ELSE Clamped(left)

\* select_session
Selected(w, i) == [w EXCEPT !.active = i]

Active == win.tabs[win.active]
Connecting == [NewView EXCEPT !.connecting = TRUE]

\* shutdown_session: take_and_close_client, whose stdin is closed and which is killed
\* if that does not end it.
ShutsDown(v) ==
  LET c == win.view[v].client IN
  /\ told' = IF c = NoChild THEN told ELSE told \cup {c}
  /\ UNCHANGED childVars

-----------------------------------------------------------------------------
\* One launcher tab, told whether the inspector is open.
FirstWindow(open) ==
  /\ win' = [tabs |-> <<1>>, active |-> 1, made |-> 1, begun |-> 0,
             view |-> [v \in View |-> [NewView EXCEPT !.inspector_open = v = 1 /\ open]]]
  /\ running' = {} /\ busy' = {}
  /\ quit' = "no" /\ toEnd' = <<>> /\ captured' = {} /\ told' = {}

WorkspaceInit ==
  /\ win = [tabs |-> <<1>>, active |-> 1, made |-> 1, begun |-> 0,
            view |-> [v \in View |->
                        [NewView EXCEPT !.inspector_open = v = 1 /\ DefaultUi.inspector_open]]]
  /\ running = {} /\ busy = {}
  /\ quit = "no" /\ toEnd = <<>> /\ captured = {} /\ told = {}

\* The foreground runs, and is not in the middle of a write.
Ready == quit \in {"no", "asked", "going"} /\ Idle(Main)

NoQuitStep == UNCHANGED quitVars
NoFile == UNCHANGED fileVars

AddSession == /\ HasView(win) /\ win' = Pushed(win, NewView)
              /\ UNCHANGED childVars /\ NoQuitStep /\ NoFile

\* add_session_for_cwd; a directory picked in prompt_new_workspace comes whenever it does.
AddSessionForCwd == /\ HasView(win) /\ win' = Pushed(win, Connecting)
                    /\ UNCHANGED childVars /\ NoQuitStep /\ NoFile

\* A digit with the command key, a click on the rail, and the rail's rename.
SelectSession(i) == /\ win' = Selected(win, i)
                    /\ UNCHANGED childVars /\ NoQuitStep /\ NoFile

\* Bound: the last tab is replaced only while views last.
CanClose(w) == Len(w.tabs) > 1 \/ HasView(w)

\* The session's file is forgotten, if its child has told it.
Forgets(v) ==
  IF win.view[v].client = NoChild THEN NoFile
  ELSE \E s \in SessionFile : /\ Writes(Main, ForgetSession(s))
                              /\ UNCHANGED <<disk, chosen, before, lost>>

CloseSessionAt(i) ==
  /\ CanClose(win)
  /\ win' = Closed(win, i)
  /\ ShutsDown(win.tabs[i]) /\ Forgets(win.tabs[i])
  /\ UNCHANGED <<quit, toEnd, captured>>

ToggleRail == /\ Choose("rail_collapsed", ~chosen.rail_collapsed)
              /\ UNCHANGED <<win, childVars>> /\ NoQuitStep

\* Dragging a dock's handle: the widths are saved when the drag ends.
EndSidebarResize == /\ \E w \in {"narrow", "wide"} : Choose("widths", w)
                    /\ UNCHANGED <<win, childVars>> /\ NoQuitStep

\* toggle_inspector and open_inspector
SetInspector(open) ==
  /\ Choose("inspector_open", open)
  /\ win' = Synced(win, open)
  /\ UNCHANGED childVars /\ NoQuitStep

\* run_workspace_palette_action, from the menus.
RunWindowAction(a) ==
  \/ a = "NewSession" /\ AddSession
  \/ a = "CloseSession" /\ CloseSessionAt(win.active)
  \/ a = "ToggleRail" /\ ToggleRail
  \/ a = "ToggleInspector" /\ SetInspector(~chosen.inspector_open)
  \/ a = "ToggleTodos" /\ SetInspector(TRUE)

\* The same chosen in a session's palette is left for the window's next paint, and so
\* is the tab a branch asks for.
AskWindow(v, a) == win' = [win EXCEPT !.view[v].palette = a]
AskNewTab(v) == win' = [win EXCEPT !.view[v].new_tab = TRUE]

\* The paint takes up what the active session asked; others wait until they are active.
Render ==
  LET v == Active
      asked == win.view[v]
      w == [win EXCEPT !.view[v].palette = "none", !.view[v].new_tab = FALSE]
      Tab(u, open) == IF asked.new_tab THEN Synced(Pushed(u, Connecting), open) ELSE u
      room == IF asked.new_tab THEN 2 ELSE 1
  IN
  /\ asked.palette # "none" \/ asked.new_tab
  /\ win.made + room \in View
  /\ UNCHANGED <<running, busy, quit, toEnd, captured>>
  /\ \/ /\ asked.palette = "none" /\ win' = Tab(w, chosen.inspector_open)
        /\ UNCHANGED told /\ NoFile
     \/ /\ asked.palette = "NewSession"
        /\ win' = Tab(Pushed(w, NewView), chosen.inspector_open)
        /\ UNCHANGED told /\ NoFile
     \/ /\ asked.palette = "CloseSession"
        /\ win' = Tab(Closed(w, w.active), chosen.inspector_open)
        /\ ShutsDown(v) /\ Forgets(v)
     \/ /\ asked.palette = "ToggleRail" /\ win' = Tab(w, chosen.inspector_open)
        /\ Choose("rail_collapsed", ~chosen.rail_collapsed) /\ UNCHANGED told
     \/ \E open \in BOOLEAN :
          /\ \/ asked.palette = "ToggleInspector" /\ open = ~chosen.inspector_open
             \/ asked.palette = "ToggleTodos" /\ open = TRUE
          /\ win' = Tab(Synced(w, open), open)
          /\ Choose("inspector_open", open) /\ UNCHANGED told

-----------------------------------------------------------------------------
(* The sessions beside the window.                                           *)

\* begin_connection of a launcher, and finish_connection with what the thread brings.
\* (Two connects of one view in flight, and one that ends for a tab that is gone, are
\* Session's.)
Connect(v) ==
  /\ Contains(win.tabs, v) /\ win.view[v].launcher /\ ~win.view[v].connecting
  /\ win' = [win EXCEPT !.view[v].connecting = TRUE]
  /\ UNCHANGED childVars /\ NoQuitStep /\ NoFile

Connected(v) ==
  /\ Contains(win.tabs, v) /\ win.view[v].connecting
  /\ \/ /\ HasChild
        /\ win' = [win EXCEPT !.view[v].connecting = FALSE, !.view[v].launcher = FALSE,
                              !.begun = @ + 1, !.view[v].client = win.begun + 1]
        /\ running' = running \cup {win.begun + 1}
     \/ /\ win' = [win EXCEPT !.view[v].connecting = FALSE]
        /\ UNCHANGED running
  /\ UNCHANGED busy /\ NoQuitStep /\ NoFile

\* The connect thread remembers the session it reached, or forgets one it could not resume.
ConnectThreadSaves(t) ==
  /\ t # Main /\ Idle(t)
  /\ \E s \in SessionFile : Writes(t, RememberSession(s)) \/ Writes(t, ForgetSession(s))
  /\ UNCHANGED <<disk, chosen, before, lost>>
  /\ UNCHANGED <<win, childVars>> /\ NoQuitStep

\* A turn begins or ends.
Turn(c) ==
  /\ c \in running
  /\ busy' = IF c \in busy THEN busy \ {c} ELSE busy \cup {c}
  /\ UNCHANGED <<win, running>> /\ NoQuitStep /\ NoFile

\* A child exits, told to or not: a tab that still has it connects again, or is dead.
ChildExits(c) ==
  /\ c \in running
  /\ running' = running \ {c} /\ busy' = busy \ {c}
  /\ \E again \in BOOLEAN :
       win' = [win EXCEPT !.view = [v \in View |->
                 IF win.view[v].client = c
                 THEN [win.view[v] EXCEPT !.client = NoChild, !.connecting = again]
                 ELSE win.view[v]]]
  /\ NoQuitStep /\ NoFile

\* return_to_launcher
ReturnToLauncher(v) ==
  /\ Contains(win.tabs, v) /\ ~win.view[v].launcher
  /\ win' = [win EXCEPT !.view[v].client = NoChild, !.view[v].connecting = FALSE,
                        !.view[v].launcher = TRUE]
  /\ ShutsDown(v)
  /\ UNCHANGED <<quit, toEnd, captured>> /\ NoFile

-----------------------------------------------------------------------------
(* Quitting.                                                                 *)

TabClient(i) == win.view[win.tabs[i]].client
HeldTabs == {i \in 1..Len(win.tabs) : TabClient(i) # NoChild}
HeldClients == {TabClient(i) : i \in HeldTabs}

\* The close button: nothing is lost when no session is at work.
ShouldClose ==
  /\ quit' = IF quit = "going" THEN "over"
             ELSE IF HeldClients \cap busy # {} THEN "asked"
             ELSE "over"
  /\ UNCHANGED <<win, childVars, toEnd, captured, told>> /\ NoFile

CancelPendingQuit ==
  /\ quit = "asked" /\ quit' = "no"
  /\ UNCHANGED <<win, childVars, toEnd, captured, told>> /\ NoFile

\* Numbers in their order.
InOrder(S) == CHOOSE s \in [1..Cardinality(S) -> S] : \A i, j \in DOMAIN s : i < j => s[i] < s[j]

\* Slip: only the sessions at work are told to end.
ClientsAtWork ==
  LET at == InOrder({i \in HeldTabs : TabClient(i) \in busy})
  IN  [k \in DOMAIN at |-> [child |-> TabClient(at[k]), abort |-> TRUE]]

\* The tabs' clients in order, those at work to be aborted first.
ClientsToEnd ==
  LET at == InOrder(HeldTabs)
  IN  [k \in DOMAIN at |-> [child |-> TabClient(at[k]), abort |-> TabClient(at[k]) \in busy]]

ConfirmPendingQuit ==
  /\ quit = "asked" /\ quit' = "going"
  /\ toEnd' = ClientsToEnd /\ captured' = HeldClients
  /\ UNCHANGED <<win, childVars, told>> /\ NoFile

\* Slip: the quit waits for the abort to work.
QuitStepWaitsForAbort ==
  /\ quit = "going"
  /\ \/ /\ toEnd = <<>> /\ quit' = "done"
        /\ UNCHANGED <<toEnd, told>>
     \/ /\ toEnd # <<>> /\ Head(toEnd).abort /\ Head(toEnd).child \notin busy
        /\ toEnd' = [toEnd EXCEPT ![1].abort = FALSE]
        /\ UNCHANGED <<quit, told>>
     \/ /\ toEnd # <<>> /\ ~Head(toEnd).abort
        /\ told' = told \cup {Head(toEnd).child} /\ toEnd' = Tail(toEnd)
        /\ UNCHANGED quit
  /\ UNCHANGED <<win, childVars, captured>> /\ NoFile

\* The quit task, between whose awaits everything else goes on: an abort, answered,
\* refused or timed out, then the child's stdin, then the next child.
QuitStep ==
  /\ quit = "going"
  /\ \/ /\ toEnd = <<>> /\ quit' = "done"
        /\ UNCHANGED <<toEnd, told>>
     \/ /\ toEnd # <<>> /\ Head(toEnd).abort
        /\ toEnd' = [toEnd EXCEPT ![1].abort = FALSE]
        /\ UNCHANGED <<quit, told>>
     \/ /\ toEnd # <<>> /\ ~Head(toEnd).abort
        /\ told' = told \cup {Head(toEnd).child} /\ toEnd' = Tail(toEnd)
        /\ UNCHANGED quit
  /\ UNCHANGED <<win, childVars, captured>> /\ NoFile

\* The process ends wherever it is: the quit key, or a crash.
ProcessEnds ==
  /\ quit' = "over"
  /\ UNCHANGED <<win, childVars, toEnd, captured, told>> /\ NoFile

\* Another process starts from the files.
Relaunch ==
  /\ quit \in {"done", "over"}
  /\ PersistenceRestart
  /\ FirstWindow(chosen'.inspector_open)

-----------------------------------------------------------------------------
(* Properties.                                                               *)

\* Whatever was opened, closed, moved and asked for by a palette in the meantime:
\* there is an active tab; every tab's session knows whether the inspector is open;
\* and a child that runs is one tab's, or was told to end, not both unless the
\* window is quitting.
TabsInSync ==
  /\ win.active \in 1..Len(win.tabs)
  /\ \A i \in 1..Len(win.tabs) :
       win.view[win.tabs[i]].inspector_open = chosen.inspector_open
  /\ running \subseteq told \cup HeldClients
  /\ quit \in {"no", "asked"} => told \cap HeldClients = {}
  /\ \A u, v \in View : u # v => win.view[u].client # win.view[v].client
                                \/ win.view[u].client = NoChild

\* A quit that was confirmed leaves no child of the sessions it found untold, even
\* one whose abort failed, or whose neighbour exited or was closed meanwhile.
ChildrenToldToEnd ==
  quit \in {"going", "done"} =>
    /\ captured \cap running \subseteq told \cup {toEnd[i].child : i \in 1..Len(toEnd)}
    /\ quit = "done" => toEnd = <<>>

\* A confirmed quit ends, whatever the children do.
QuitEnds == quit = "going" ~> quit \in {"done", "over"}
=============================================================================
