------------------------------- MODULE Overlays -------------------------------
(***************************************************************************)
(* What a session view lays over its transcript: the command palette, the  *)
(* theme picker, the cards (about, rename, compact, hand off) and the      *)
(* lists omp is asked for (messages to branch from, login providers).  The *)
(* theme picker previews on the whole window, and undoes it when it is     *)
(* left; only the active session is painted and takes input.               *)
(***************************************************************************)
EXTENDS Workspace

CONSTANTS
  Card,           \* of "about", "rename", "compact", "handoff"
  List,           \* of "branch", "login"
  LightTheme, DarkTheme, \* registered themes of either mode
  Paired,         \* paired_theme_name: a theme's counterpart of its family in the other mode, or none
  NoSelection     \* no theme picker is open

ASSUME OverlaysAssumption ==
  /\ Card \subseteq {"about", "rename", "compact", "handoff"}
  /\ List \subseteq {"branch", "login"}
  /\ NoSelection \notin Selection
  /\ Selection = [appearance : {"system", "light", "dark"}, light : LightTheme, dark : DarkTheme]
  /\ LightTheme \cap DarkTheme = {} /\ "none" \notin LightTheme \cup DarkTheme
  /\ \A t \in LightTheme : Paired[t] \in DarkTheme \cup {"none"}
  /\ \A t \in DarkTheme : Paired[t] \in LightTheme \cup {"none"}

VARIABLES
  over,     \* per view: what is open, the selection the theme picker opened on, lists asked for
  theme,    \* the selection the window shows
  mixed     \* history: a picker was opened over another or over its preview, or was closed with its tab

overlayVars == <<over, theme, mixed>>

NothingOver == [palette |-> FALSE, card |-> "none", lists |-> {}, opening |-> NoSelection,
                asks |-> {}, branching |-> FALSE]
OverState == [palette : BOOLEAN, card : Card \cup {"none"}, lists : SUBSET List,
              opening : Selection \cup {NoSelection}, asks : SUBSET List, branching : BOOLEAN]

OverlaysTypeOK == over \in [View -> OverState] /\ theme \in Selection /\ mixed \in BOOLEAN

OverlaysInit ==
  /\ over = [v \in View |-> NothingOver]
  /\ theme = DefaultTheme
  /\ mixed = FALSE

ThemePickerItem == {"system", "light", "dark"} \cup LightTheme \cup DarkTheme

\* theme_selection_for_picker_item: an appearance, or a theme with its counterpart.
Picked(selection, item) ==
  LET paired == IF Paired[item] = "none" THEN IF item \in DarkTheme THEN selection.light
                                              ELSE selection.dark
                ELSE Paired[item]
  IN  CASE item \in DarkTheme -> [appearance |-> "dark", light |-> paired, dark |-> item]
        [] item \in LightTheme -> [appearance |-> "light", light |-> item, dark |-> paired]
        [] OTHER -> [selection EXCEPT !.appearance = item]

PickerOpen(v) == over[v].opening # NoSelection
Previewing == theme # chosen.theme
Live(v) == win.view[v].client # NoChild
\* The launcher is painted instead of the overlays, and takes no keys for them.
Painted(v) == ~win.view[v].launcher

\* What the handlers share: nothing but the overlays changes.
OnlyOver(v, o) ==
  /\ over' = [over EXCEPT ![v] = o]
  /\ UNCHANGED <<workspaceVars, fileVars>>
SameTheme == UNCHANGED <<theme, mixed>>

-----------------------------------------------------------------------------
\* Slip: the palette replaces the picker and forgets what it previewed.
TogglePaletteKeepsPreview(v) ==
  /\ IF over[v].palette THEN OnlyOver(v, [over[v] EXCEPT !.palette = FALSE])
     ELSE OnlyOver(v, [over[v] EXCEPT !.palette = TRUE, !.card = "none", !.lists = {},
                                      !.opening = NoSelection])
  /\ UNCHANGED <<theme, mixed>>

\* toggle_palette: opened, it closes everything else.
TogglePalette(v) ==
  /\ IF over[v].palette THEN OnlyOver(v, [over[v] EXCEPT !.palette = FALSE])
     ELSE OnlyOver(v, [over[v] EXCEPT !.palette = TRUE, !.card = "none", !.lists = {},
                                      !.opening = NoSelection])
  /\ theme' = IF ~over[v].palette /\ PickerOpen(v) THEN over[v].opening ELSE theme
  /\ UNCHANGED mixed

\* open_theme_picker opens on what the window shows, which is what closing restores.
OpenThemePicker(v) ==
  /\ OnlyOver(v, [over[v] EXCEPT !.palette = FALSE, !.card = "none", !.lists = {},
                                 !.opening = theme])
  /\ mixed' = (mixed \/ Previewing \/ \E u \in View \ {v} : PickerOpen(u))
  /\ UNCHANGED theme

\* An arrow, the search or the pointer comes to a row: always from the opening selection.
PreviewThemePickerItem(v) ==
  /\ PickerOpen(v) /\ Painted(v)
  /\ \E i \in ThemePickerItem : theme' = Picked(over[v].opening, i)
  /\ UNCHANGED <<over, mixed, workspaceVars, fileVars>>

\* Escape, the backdrop and Close.
CloseThemePicker(v) ==
  /\ PickerOpen(v)
  /\ theme' = over[v].opening
  /\ OnlyOver(v, [over[v] EXCEPT !.opening = NoSelection])
  /\ UNCHANGED mixed

ChooseThemePickerItem(v) ==
  /\ PickerOpen(v)
  /\ \E i \in ThemePickerItem :
       LET selection == Picked(over[v].opening, i) IN
       /\ theme' = selection
       /\ Choose("theme", selection)
  /\ over' = [over EXCEPT ![v].opening = NoSelection]
  /\ UNCHANGED <<mixed, workspaceVars>>

\* show_about, rename_session, open_compact_dialog and open_handoff_confirmation: a
\* card replaces the palette, the other cards and the lists.
ShowCard(v, card) ==
  /\ card = "about" \/ Live(v)
  /\ OnlyOver(v, [over[v] EXCEPT !.palette = FALSE, !.card = card, !.lists = {}])
  /\ SameTheme

\* open_branch_picker and open_login_picker, behind run_palette_action: omp is asked,
\* and the list opens over whatever is open when it comes.
AskForList(v, list) ==
  /\ Live(v)
  /\ OnlyOver(v, [over[v] EXCEPT !.palette = FALSE,
                                 !.card = IF @ \in {"about", "rename"} THEN "none" ELSE @,
                                 !.lists = @ \cap {list}, !.asks = @ \cup {list}])
  /\ SameTheme

ListComes(v, list) ==
  /\ list \in over[v].asks
  /\ \E nonempty \in BOOLEAN :
       OnlyOver(v, [over[v] EXCEPT !.asks = @ \ {list},
                                   !.lists = IF nonempty THEN @ \cup {list} ELSE @])
  /\ SameTheme

\* confirm_branch_pick, whose success asks the window for a tab; confirm_login_provider.
ConfirmListPick(v, list) ==
  /\ list \in over[v].lists /\ Live(v)
  /\ OnlyOver(v, [over[v] EXCEPT !.lists = @ \ {list},
                                 !.branching = @ \/ list = "branch"])
  /\ SameTheme

BranchAnswered(v) ==
  /\ over[v].branching
  /\ over' = [over EXCEPT ![v].branching = FALSE]
  /\ AskNewTab(v) \/ UNCHANGED win
  /\ UNCHANGED <<childVars, quitVars, fileVars, theme, mixed>>

-----------------------------------------------------------------------------
(* Keys: the view asks its overlays in a fixed order who takes one.          *)

\* Cards that take every key; the others leave all but Escape to what is below them.
Swallows == {"about", "handoff"}

CloseCard(v) == OnlyOver(v, [over[v] EXCEPT !.card = "none"]) /\ SameTheme
TopList(v) == IF "branch" \in over[v].lists THEN "branch" ELSE "login"

Escape(v) ==
  /\ Painted(v)
  /\ \/ over[v].card # "none" /\ CloseCard(v)
     \/ /\ over[v].card = "none" /\ over[v].lists # {}
        /\ OnlyOver(v, [over[v] EXCEPT !.lists = @ \ {TopList(v)}])
        /\ SameTheme
     \/ over[v].card = "none" /\ over[v].lists = {} /\ CloseThemePicker(v)
     \/ /\ over[v].card = "none" /\ over[v].lists = {} /\ ~PickerOpen(v) /\ over[v].palette
        /\ TogglePalette(v)

\* run_palette_action, from a menu or the palette, which it first closes.  What changes
\* no overlay and not the window (a setting, an export, a copy) is the last case.
RunPaletteAction(v) ==
  \/ OpenThemePicker(v)
  \/ \E card \in Card : ShowCard(v, card)
  \/ \E list \in List : AskForList(v, list)
  \/ /\ over[v].palette
     /\ \E a \in WindowAction : AskWindow(v, a)
     /\ over' = [over EXCEPT ![v].palette = FALSE]
     /\ UNCHANGED <<childVars, quitVars, fileVars, theme, mixed>>
  \/ OnlyOver(v, [over[v] EXCEPT !.palette = FALSE]) /\ SameTheme

\* Enter, confirm_rename, confirm_compact, confirm_handoff.
Enter(v) ==
  LET passes == over[v].card \notin Swallows IN
  /\ Painted(v)
  /\ \/ ~passes /\ CloseCard(v)
     \/ passes /\ over[v].lists # {} /\ ConfirmListPick(v, TopList(v))
     \/ passes /\ over[v].lists = {} /\ ChooseThemePickerItem(v)
     \/ /\ passes /\ over[v].lists = {} /\ ~PickerOpen(v) /\ over[v].palette
        /\ RunPaletteAction(v)
     \/ /\ over[v].card \in {"rename", "compact"} /\ over[v].lists = {} /\ ~PickerOpen(v)
        /\ ~over[v].palette /\ CloseCard(v)

\* The pointer does what Escape and Enter do, on any layer it reaches.
OverlayInput(v) ==
  \/ TogglePalette(v) \/ RunPaletteAction(v) \/ PreviewThemePickerItem(v)
  \/ Escape(v) \/ Enter(v)

OverlayAnswer(v) == (\E list \in List : ListComes(v, list)) \/ BranchAnswered(v)

-----------------------------------------------------------------------------
(* What the window's own steps do to the overlays.                           *)

\* The overlays of a tab go with it.
TabsGone ==
  LET gone == {v \in View : Contains(win.tabs, v) /\ ~Contains(win'.tabs, v)} IN
  /\ over' = [v \in View |-> IF v \in gone THEN NothingOver ELSE over[v]]
  /\ mixed' = (mixed \/ (Previewing /\ \E v \in gone : PickerOpen(v)))
  /\ UNCHANGED theme

\* return_to_launcher closes the cards that ask omp, and no other.
OverlaysReturn(v) ==
  /\ over' = [over EXCEPT ![v].card = IF @ \in {"compact", "handoff"} THEN "none" ELSE @]
  /\ SameTheme

OverlaysRelaunch ==
  /\ over' = [v \in View |-> NothingOver]
  /\ theme' = chosen'.theme
  /\ mixed' = FALSE

-----------------------------------------------------------------------------
\* A theme that was only looked at does not stay: with no picker open the window
\* shows what is saved; with one open, what is saved or one row away from it, and
\* closing it brings the saved theme back.  Left out: pickers opened over another
\* one's preview, which the code lets through.
PreviewsAreUndone ==
  ~mixed =>
    /\ (\A v \in View : ~PickerOpen(v)) => ~Previewing
    /\ \A v \in View : PickerOpen(v) =>
         /\ over[v].opening = chosen.theme
         /\ Previewing => \E i \in ThemePickerItem : theme = Picked(chosen.theme, i)
=============================================================================
