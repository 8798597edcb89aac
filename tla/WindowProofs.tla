----------------------------- MODULE WindowProofs -----------------------------
(***************************************************************************)
(* What is proved of Window, for any number of views, children, threads    *)
(* and themes, and any order of their steps: the window comes up as it was *)
(* left, the tabs and their sessions agree, a confirmed quit leaves no     *)
(* child untold, and a theme that was only looked at does not stay.        *)
(***************************************************************************)
EXTENDS Window, FiniteSetTheorems, SequenceTheorems, WellFoundedInduction, TLAPS

-----------------------------------------------------------------------------
(* The files.                                                               *)

\* What is chosen of the window's looks, and what is saved beside it.
LooksChoice == ({"rail_collapsed", "inspector_open"} \X BOOLEAN)
           \cup ({"widths"} \X {"narrow", "wide"}) \cup ({"theme"} \X Selection)
SessionOps == [do : {"last", "recent", "unrecent", "unlast"}, file : {"recent", "last"},
               arg : SessionFile]

\* The foreground has one choice to save at a time, made from what the file says.
SavesChoice(c) ==
  /\ job[Main].todo = <<Op("ui", "ui", c)>>
  /\ chosen = [before EXCEPT ![c[1]] = c[2]]
  /\ ~lost => Load("ui") = before
  /\ job[Main].step # "load" => /\ job[Main].content \in Ui
                                /\ ~lost => job[Main].content = chosen
  /\ job[Main].step \in {"fallback", "fill"} => lost
SavesSessions ==
  /\ job[Main].todo \in Seq(SessionOps)
  /\ Idle(Main) => job[Main].step = "load"
  /\ ~lost => Load("ui") = chosen

FileInv ==
  /\ chosen \in Ui /\ before \in Ui /\ lost \in BOOLEAN
  /\ disk = [ui |-> disk.ui, recent |-> disk.recent, last |-> disk.last]
  /\ disk.ui \in Ui \cup {Torn}
  /\ job = [t \in Thread |-> [todo |-> job[t].todo, step |-> job[t].step,
                              content |-> job[t].content]]
  /\ \A t \in Thread \ {Main} : job[t].todo \in Seq(SessionOps)
  /\ SavesSessions \/ \E c \in LooksChoice : SavesChoice(c)

-----------------------------------------------------------------------------
(* The tabs, the children and quitting.                                     *)

\* A window as the handlers find it and leave it: no view twice, none of a tab to
\* come, and no client but of a tab whose session was reached.
WinState == [tabs : Seq(View), active : Nat, made : Nat, begun : Nat, view : [View -> ViewState]]
Tabbed(w, v) == \E i \in 1..Len(w.tabs) : w.tabs[i] = v
WellFormed(w) ==
  /\ w \in WinState
  /\ \A i, j \in 1..Len(w.tabs) : w.tabs[i] = w.tabs[j] => i = j
  /\ \A i \in 1..Len(w.tabs) : w.tabs[i] <= w.made
  /\ \A v \in View : ~Tabbed(w, v) \/ w.view[v].connecting \/ w.view[v].launcher
                       => w.view[v].client = NoChild
HasActive(w) == w.active \in 1..Len(w.tabs)
InSync(w, open) == \A i \in 1..Len(w.tabs) : w.view[w.tabs[i]].inspector_open = open
TabInv == WellFormed(win) /\ HasActive(win) /\ InSync(win, chosen.inspector_open)

\* Children are numbered as they start, and each is one view's, or on its own.
Client(v) == win.view[v].client
ToEnd == {toEnd[i].child : i \in 1..Len(toEnd)}
ChildInv ==
  /\ \A u, v \in View : u # v => Client(u) # Client(v) \/ Client(u) = NoChild
  /\ \A v \in View : Client(v) # NoChild => Client(v) <= win.begun
  /\ \A c \in running \cup told \cup captured \cup ToEnd : c \in Child /\ c <= win.begun
  /\ \A c \in running : c \in told \/ \E v \in View : Client(v) = c
  /\ quit \in {"no", "asked"} => \A v \in View : Client(v) \notin told
QuitInv == toEnd \in Seq([child : Child, abort : BOOLEAN]) /\ ChildrenToldToEnd

-----------------------------------------------------------------------------
(* What lies over the sessions.                                             *)

\* Pickers are told apart only while there is one.
OverInv ==
  /\ OverlaysTypeOK
  /\ PreviewsAreUndone
  /\ ~mixed => \A u, v \in View : PickerOpen(u) /\ PickerOpen(v) => u = v

WindowInv == FileInv /\ TabInv /\ ChildInv /\ QuitInv /\ OverInv

-----------------------------------------------------------------------------
(* The window comes up as it was left.                                      *)

LEMMA LoadsUi == FileInv => /\ Load("ui") = IF disk.ui = Torn THEN DefaultUi ELSE disk.ui
                            /\ Load("ui") \in Ui /\ DefaultUi \in Ui
<1> SUFFICES ASSUME FileInv PROVE Load("ui") = (IF disk.ui = Torn THEN DefaultUi ELSE disk.ui)
                                  /\ Load("ui") \in Ui /\ DefaultUi \in Ui
  OBVIOUS
<1>1. Default["ui"] = DefaultUi /\ DefaultUi \in Ui
  BY PersistenceAssumption DEF Default, DefaultUi, Ui
<1>2. disk["ui"] = disk.ui
  BY DEF FileInv
<1> QED
  BY <1>1, <1>2 DEF Load, FileInv

LEMMA ChosenTyped ==
  ASSUME NEW ui \in Ui, NEW c \in LooksChoice
  PROVE  [ui EXCEPT ![c[1]] = c[2]] \in Ui
<1>1. CASE c \in {"rail_collapsed", "inspector_open"} \X BOOLEAN
  <2>1. c[1] \in {"rail_collapsed", "inspector_open"} /\ c[2] \in BOOLEAN
    BY <1>1
  <2>2. CASE c[1] = "rail_collapsed"
    BY <2>1, <2>2 DEF Ui
  <2>3. CASE c[1] = "inspector_open"
    BY <2>1, <2>3 DEF Ui
  <2> QED
    BY <2>1, <2>2, <2>3
<1>2. CASE c \in {"widths"} \X {"narrow", "wide"}
  <2>1. c[1] = "widths" /\ c[2] \in {"narrow", "wide"}
    BY <1>2
  <2> QED
    BY <2>1 DEF Ui
<1>3. CASE c \in {"theme"} \X Selection
  <2>1. c[1] = "theme" /\ c[2] \in Selection
    BY <1>3
  <2> QED
    BY <2>1 DEF Ui
<1> QED
  BY <1>1, <1>2, <1>3 DEF LooksChoice

\* A step of a write moves its own thread's job.
LEMMA JobMoves ==
  ASSUME FileInv, NEW t \in Thread, NEW j, j = [todo |-> j.todo, step |-> j.step, content |-> j.content],
         job' = [job EXCEPT ![t] = j]
  PROVE  /\ \A u \in Thread : u # t => job'[u] = job[u]
         /\ job'[t] = j
         /\ job' = [u \in Thread |-> [todo |-> job'[u].todo, step |-> job'[u].step,
                                      content |-> job'[u].content]]
  BY DEF FileInv

LEMMA IdleSavesNothing == FileInv /\ Idle(Main) => SavesSessions
<1>1. ASSUME NEW c \in LooksChoice, SavesChoice(c), Idle(Main) PROVE FALSE
  <2>1. job[Main].todo = <<Op("ui", "ui", c)>> /\ job[Main].todo = <<>>
    BY <1>1 DEF SavesChoice, Idle
  <2> QED
    BY <2>1
<1> QED
  BY <1>1 DEF FileInv

\* What begins to write: a choice of the user, a session forgotten, a connect thread.
LEMMA ChoosingKeepsFiles ==
  ASSUME FileInv, Idle(Main), NEW c \in LooksChoice, Choose(c[1], c[2]) PROVE FileInv'
<1>1. /\ chosen' = [chosen EXCEPT ![c[1]] = c[2]] /\ before' = chosen
      /\ job' = [job EXCEPT ![Main].todo = <<Op("ui", "ui", <<c[1], c[2]>>)>>]
      /\ UNCHANGED <<disk, lost>>
  BY DEF Choose, Writes, SaveUi
<1>2. c = <<c[1], c[2]>>
  BY DEF LooksChoice
<1>3. chosen' \in Ui /\ before' \in Ui
  BY <1>1, ChosenTyped DEF FileInv
<1>4. /\ \A t \in Thread : t # Main => job'[t] = job[t]
      /\ job'[Main] = [todo |-> <<Op("ui", "ui", c)>>, step |-> job[Main].step,
                       content |-> job[Main].content]
      /\ job' = [t \in Thread |-> [todo |-> job'[t].todo, step |-> job'[t].step,
                                   content |-> job'[t].content]]
  <2> DEFINE todo == <<Op("ui", "ui", c)>>
             j == [todo |-> todo, step |-> job[Main].step, content |-> job[Main].content]
  <2>1. job' = [job EXCEPT ![Main].todo = todo] /\ Main \in Thread
    BY <1>1, <1>2, PersistenceAssumption
  <2> HIDE DEF todo
  <2>2. job' = [job EXCEPT ![Main] = j]
    <3>1. job[Main] = [todo |-> job[Main].todo, step |-> job[Main].step,
                       content |-> job[Main].content]
      BY <2>1 DEF FileInv
    <3>2. [job[Main] EXCEPT !.todo = todo] = j
      BY <3>1
    <3>3. job' = [job EXCEPT ![Main] = [job[Main] EXCEPT !.todo = todo]]
      BY <2>1
    <3> QED
      BY <3>2, <3>3
  <2>3. j = [todo |-> j.todo, step |-> j.step, content |-> j.content]
    OBVIOUS
  <2> HIDE DEF j
  <2>4. /\ \A t \in Thread : t # Main => job'[t] = job[t]
        /\ job'[Main] = j
        /\ job' = [t \in Thread |-> [todo |-> job'[t].todo, step |-> job'[t].step,
                                     content |-> job'[t].content]]
    BY <2>1, <2>2, <2>3, JobMoves
  <2> QED
    BY <2>4 DEF j, todo
<1>5. job[Main].step = "load" /\ (~lost => Load("ui") = chosen)
  BY IdleSavesNothing DEF SavesSessions
<1>6. Load("ui")' = Load("ui")
  BY <1>1 DEF Load
<1>7. SavesChoice(c)'
  BY <1>1, <1>4, <1>5, <1>6 DEF SavesChoice
<1> QED
  BY <1>1, <1>3, <1>4, <1>7 DEF FileInv

LEMMA SessionWritesKeepFiles ==
  ASSUME FileInv, NEW t \in Thread, Idle(t), UNCHANGED <<disk, chosen, before, lost>>,
         NEW ops \in Seq(SessionOps), Writes(t, ops), ops # <<>>
  PROVE  FileInv'
<1>1. job' = [job EXCEPT ![t].todo = ops]
  BY DEF Writes
<1>2. /\ \A u \in Thread : u # t => job'[u] = job[u]
      /\ job'[t] = [todo |-> ops, step |-> job[t].step, content |-> job[t].content]
      /\ job' = [u \in Thread |-> [todo |-> job'[u].todo, step |-> job'[u].step,
                                   content |-> job'[u].content]]
  BY <1>1 DEF FileInv
<1>3. Load("ui")' = Load("ui")
  BY DEF Load
<1>4. \A u \in Thread \ {Main} : job'[u].todo \in Seq(SessionOps)
  BY <1>2 DEF FileInv
<1>5. SavesSessions' \/ \E c \in LooksChoice : SavesChoice(c)'
  <2>1. CASE t = Main
    <3>1. SavesSessions
      BY <2>1, IdleSavesNothing
    <3> QED
      BY <1>2, <1>3, <2>1, <3>1 DEF SavesSessions, Idle
  <2>2. CASE t # Main
    <3>1. job'[Main] = job[Main]
      BY <1>2, <2>2, PersistenceAssumption
    <3> QED
      BY <1>3, <3>1 DEF FileInv, SavesSessions, SavesChoice, Idle
  <2> QED
    BY <2>1, <2>2
<1> QED
  BY <1>2, <1>4, <1>5 DEF FileInv

LEMMA SessionOpsTyped ==
  ASSUME NEW s \in SessionFile
  PROVE  /\ RememberSession(s) \in Seq(SessionOps) /\ RememberSession(s) # <<>>
         /\ ForgetSession(s) \in Seq(SessionOps) /\ ForgetSession(s) # <<>>
<1>1. /\ Op("last", "last", s) \in SessionOps /\ Op("recent", "recent", s) \in SessionOps
      /\ Op("unrecent", "recent", s) \in SessionOps /\ Op("unlast", "last", s) \in SessionOps
  BY DEF Op, SessionOps
<1> QED
  BY <1>1 DEF RememberSession, ForgetSession

LEMMA JobGoes ==
  ASSUME FileInv, NEW t \in Thread, NEW step, NEW content,
         \/ job' = [job EXCEPT ![t].step = step, ![t].content = content]
         \/ job' = [job EXCEPT ![t].step = step] /\ content = job[t].content
  PROVE  job' = [job EXCEPT ![t] = [todo |-> job[t].todo, step |-> step, content |-> content]]
<1>1. job[t] = [todo |-> job[t].todo, step |-> job[t].step, content |-> job[t].content]
  BY DEF FileInv
<1> QED
  BY <1>1 DEF FileInv

LEMMA NoJobIsEmpty == /\ NoJob.todo = <<>> /\ NoJob.step = "load" /\ NoJob.todo \in Seq(SessionOps)
                      /\ NoJob = [todo |-> NoJob.todo, step |-> NoJob.step, content |-> NoJob.content]
<1>1. NoJob.todo = <<>>
  BY DEF NoJob
<1>2. NoJob.step = "load"
  BY DEF NoJob
<1>3. <<>> \in Seq(SessionOps)
  OBVIOUS
<1>4. NoJob = [todo |-> NoJob.todo, step |-> NoJob.step, content |-> NoJob.content]
  BY DEF NoJob
<1> QED
  BY <1>1, <1>2, <1>3, <1>4

LEMMA JobOver ==
  ASSUME FileInv, NEW t \in Thread, Over(t)
  PROVE  job' = [job EXCEPT ![t] = IF Len(job[t].todo) = 1 THEN NoJob
                                   ELSE [todo |-> Tail(job[t].todo), step |-> "load",
                                         content |-> NoSession]]
<1>1. job[t] = [todo |-> job[t].todo, step |-> job[t].step, content |-> job[t].content]
  BY DEF FileInv
<1> QED
  BY <1>1 DEF FileInv, Over

WriteStep(t) == LoadFile(t) \/ WriteTemporary(t) \/ Rename(t) \/ FallBack(t) \/ Fill(t)

\* A step of a save of sessions leaves ui.json, and what is known of it, alone.
LEMMA SessionStepMoves ==
  ASSUME FileInv, NEW t \in Thread, job[t].todo \in Seq(SessionOps), WriteStep(t)
  PROVE  /\ UNCHANGED <<chosen, before, lost>>
         /\ disk' = [ui |-> disk.ui, recent |-> disk'.recent, last |-> disk'.last]
         /\ \E j : /\ j = [todo |-> j.todo, step |-> j.step, content |-> j.content]
                   /\ job' = [job EXCEPT ![t] = j]
                   /\ j.todo \in Seq(SessionOps) /\ (j.todo = <<>> => j.step = "load")
<1> DEFINE op == Head(job[t].todo)
<1>1. /\ job[t].todo # <<>> /\ op \in SessionOps
  BY DEF WriteStep, LoadFile, WriteTemporary, Rename, FallBack, Fill, Idle
<1>2. op.do # "ui" /\ op.file # "ui" /\ op.file \in {"recent", "last"}
  BY <1>1 DEF SessionOps
<1> HIDE DEF op
<1>3. UNCHANGED <<chosen, before, lost>>
  <2>1. Failed(t) => lost' = lost
    BY <1>2 DEF Failed, op, FileInv
  <2> QED
    BY <2>1 DEF WriteStep, LoadFile, WriteTemporary, Rename, FallBack, Fill
<1>4. disk' = [ui |-> disk.ui, recent |-> disk'.recent, last |-> disk'.last]
  <2>1. \/ disk' = disk
        \/ disk' = [disk EXCEPT !.last = NoSession]
        \/ \E x : disk' = [disk EXCEPT ![op.file] = x]
    BY DEF WriteStep, LoadFile, WriteTemporary, Rename, FallBack, Fill, op
  <2>2. ASSUME NEW x, disk' = [disk EXCEPT ![op.file] = x]
        PROVE  disk' = [ui |-> disk.ui, recent |-> disk'.recent, last |-> disk'.last]
    <3>1. CASE op.file = "recent"
      BY <2>2, <3>1 DEF FileInv
    <3>2. CASE op.file = "last"
      BY <2>2, <3>2 DEF FileInv
    <3> QED
      BY <1>2, <3>1, <3>2
  <2> QED
    BY <2>1, <2>2 DEF FileInv
<1>5. \/ Over(t)
      \/ \E content : job' = [job EXCEPT ![t].step = "temporary", ![t].content = content]
      \/ \E step \in Step : Goes(t, step)
  BY DEF WriteStep, LoadFile, WriteTemporary, Rename, FallBack, Fill, op, Step
<1>6. CASE Over(t)
  <2> DEFINE j == IF Len(job[t].todo) = 1 THEN NoJob
                  ELSE [todo |-> Tail(job[t].todo), step |-> "load", content |-> NoSession]
  <2>1. job' = [job EXCEPT ![t] = j]
    BY <1>6, JobOver
  <2>2. j.todo \in Seq(SessionOps) /\ j.step = "load"
        /\ j = [todo |-> j.todo, step |-> j.step, content |-> j.content]
    <3>1. CASE Len(job[t].todo) = 1
      BY <3>1 DEF NoJob
    <3>2. CASE Len(job[t].todo) # 1
      <4>1. Tail(job[t].todo) \in Seq(SessionOps)
        BY <1>1
      <4> QED
        BY <3>2, <4>1
    <3> QED
      BY <3>1, <3>2
  <2> HIDE DEF j
  <2> QED
    BY <1>3, <1>4, <2>1, <2>2
<1>7. ASSUME NEW step, NEW content,
             job' = [job EXCEPT ![t] = [todo |-> job[t].todo, step |-> step, content |-> content]]
      PROVE  \E j : /\ j = [todo |-> j.todo, step |-> j.step, content |-> j.content]
                    /\ job' = [job EXCEPT ![t] = j]
                    /\ j.todo \in Seq(SessionOps) /\ (j.todo = <<>> => j.step = "load")
  <2> DEFINE j == [todo |-> job[t].todo, step |-> step, content |-> content]
  <2>1. /\ j = [todo |-> j.todo, step |-> j.step, content |-> j.content] /\ job' = [job EXCEPT ![t] = j]
        /\ j.todo \in Seq(SessionOps) /\ j.todo # <<>>
    BY <1>1, <1>7
  <2> HIDE DEF j
  <2> QED
    BY <2>1
<1>8. ASSUME NEW content, job' = [job EXCEPT ![t].step = "temporary", ![t].content = content]
      PROVE  job' = [job EXCEPT ![t] = [todo |-> job[t].todo, step |-> "temporary",
                                        content |-> content]]
  BY <1>8, JobGoes
<1>9. ASSUME NEW step \in Step, Goes(t, step)
      PROVE  job' = [job EXCEPT ![t] = [todo |-> job[t].todo, step |-> step,
                                        content |-> job[t].content]]
  BY <1>9, JobGoes DEF Goes
<1>10. CASE ~Over(t)
  BY <1>3, <1>4, <1>5, <1>7, <1>8, <1>9, <1>10
<1> QED
  BY <1>6, <1>10

LEMMA SessionStepKeepsFiles ==
  ASSUME FileInv, NEW t \in Thread, job[t].todo \in Seq(SessionOps), WriteStep(t)
  PROVE  FileInv'
<1>1. /\ UNCHANGED <<chosen, before, lost>>
      /\ disk' = [ui |-> disk.ui, recent |-> disk'.recent, last |-> disk'.last]
  BY SessionStepMoves
<1>2. PICK j : /\ j = [todo |-> j.todo, step |-> j.step, content |-> j.content]
               /\ job' = [job EXCEPT ![t] = j]
               /\ j.todo \in Seq(SessionOps) /\ (j.todo = <<>> => j.step = "load")
  BY SessionStepMoves
<1>3. /\ \A u \in Thread : u # t => job'[u] = job[u]
      /\ job'[t] = j
      /\ job' = [u \in Thread |-> [todo |-> job'[u].todo, step |-> job'[u].step,
                                   content |-> job'[u].content]]
  BY <1>2, JobMoves
<1>4. disk'.ui = disk.ui /\ Load("ui")' = Load("ui")
  BY <1>1 DEF Load, FileInv
<1>5. disk' = [ui |-> disk'.ui, recent |-> disk'.recent, last |-> disk'.last]
  BY <1>1, <1>4
<1>6. SavesSessions' \/ \E c \in LooksChoice : SavesChoice(c)'
  <2>1. CASE t = Main
    <3>1. SavesSessions
      <4>1. ASSUME NEW c \in LooksChoice, SavesChoice(c) PROVE FALSE
        <5>1. Op("ui", "ui", c) \in SessionOps
          BY <2>1, <4>1 DEF SavesChoice
        <5> QED
          BY <5>1 DEF Op, SessionOps
      <4> QED
        BY <4>1 DEF FileInv
    <3> QED
      BY <1>1, <1>2, <1>3, <1>4, <2>1, <3>1 DEF SavesSessions, Idle
  <2>2. CASE t # Main
    <3>1. job'[Main] = job[Main]
      BY <1>3, <2>2, PersistenceAssumption
    <3> QED
      BY <1>1, <1>4, <3>1 DEF FileInv, SavesSessions, SavesChoice, Idle
  <2> QED
    BY <2>1, <2>2
<1> QED
  BY <1>1, <1>2, <1>3, <1>4, <1>5, <1>6 DEF FileInv

\* A step of the save of a choice.
LEMMA ChoiceStepKeepsFiles ==
  ASSUME FileInv, NEW c \in LooksChoice, SavesChoice(c), WriteStep(Main)
  PROVE  FileInv'
<1> DEFINE op == Op("ui", "ui", c)
<1>1. /\ job[Main].todo = <<op>> /\ Head(job[Main].todo) = op /\ Len(job[Main].todo) = 1
      /\ op.do = "ui" /\ op.file = "ui" /\ op.arg = c /\ Main \in Thread
  BY PersistenceAssumption DEF SavesChoice, Op
<1> HIDE DEF op
<1>2. /\ Load("ui") = (IF disk.ui = Torn THEN DefaultUi ELSE disk.ui)
      /\ Load("ui") \in Ui /\ DefaultUi \in Ui
  BY LoadsUi
<1>3. UNCHANGED <<chosen, before>>
  BY DEF WriteStep, LoadFile, WriteTemporary, Rename, FallBack, Fill
<1>4. Over(Main) => job' = [job EXCEPT ![Main] = NoJob]
  BY <1>1, JobOver
<1>5. Over(Main) => /\ \A u \in Thread : u # Main => job'[u] = job[u]
                    /\ job'[Main].todo = <<>> /\ job'[Main].step = "load"
                    /\ job' = [u \in Thread |-> [todo |-> job'[u].todo, step |-> job'[u].step,
                                                 content |-> job'[u].content]]
  BY <1>1, <1>4, JobMoves, NoJobIsEmpty
<1>6. ASSUME NEW step, Goes(Main, step)
      PROVE  /\ \A u \in Thread : u # Main => job'[u] = job[u]
             /\ job'[Main] = [todo |-> job[Main].todo, step |-> step, content |-> job[Main].content]
             /\ job' = [u \in Thread |-> [todo |-> job'[u].todo, step |-> job'[u].step,
                                          content |-> job'[u].content]]
  <2> DEFINE j == [todo |-> job[Main].todo, step |-> step, content |-> job[Main].content]
  <2>1. job' = [job EXCEPT ![Main] = j]
    BY <1>1, <1>6, JobGoes DEF Goes
  <2>2. j = [todo |-> j.todo, step |-> j.step, content |-> j.content]
    OBVIOUS
  <2> HIDE DEF j
  <2>3. /\ \A u \in Thread : u # Main => job'[u] = job[u]
        /\ job'[Main] = j
        /\ job' = [u \in Thread |-> [todo |-> job'[u].todo, step |-> job'[u].step,
                                     content |-> job'[u].content]]
    BY <1>1, <2>1, <2>2, JobMoves
  <2> QED
    BY <2>3 DEF j
<1>7. CASE LoadFile(Main)
  <2> DEFINE new == [Load("ui") EXCEPT ![c[1]] = c[2]]
             j == [todo |-> job[Main].todo, step |-> "temporary", content |-> new]
  <2>1. ~Needless(op) /\ Updated(op) = new /\ job[Main].step = "load"
    BY <1>1, <1>7 DEF Needless, Updated, LoadFile
  <2>2. /\ job' = [job EXCEPT ![Main].step = "temporary", ![Main].content = new]
        /\ UNCHANGED <<disk, lost>>
    BY <1>1, <1>7, <2>1 DEF LoadFile
  <2>3. new \in Ui
    BY <1>2, ChosenTyped
  <2>4. ~lost => new = chosen
    BY DEF SavesChoice
  <2> HIDE DEF new
  <2>5. job' = [job EXCEPT ![Main] = j]
    BY <1>1, <2>2, JobGoes
  <2>6. j = [todo |-> j.todo, step |-> j.step, content |-> j.content]
    OBVIOUS
  <2> HIDE DEF j
  <2>7. /\ \A u \in Thread : u # Main => job'[u] = job[u]
        /\ job'[Main] = j
        /\ job' = [u \in Thread |-> [todo |-> job'[u].todo, step |-> job'[u].step,
                                     content |-> job'[u].content]]
    BY <1>1, <2>5, <2>6, JobMoves
  <2>8. Load("ui")' = Load("ui")
    BY <2>2 DEF Load
  <2>9. SavesChoice(c)'
    <3>1. /\ job'[Main].todo = <<Op("ui", "ui", c)>> /\ job'[Main].step = "temporary"
          /\ job'[Main].content = new
      BY <2>7 DEF j, SavesChoice
    <3>2. /\ chosen' = [before' EXCEPT ![c[1]] = c[2]]
          /\ ~lost' => Load("ui")' = before' /\ new = chosen'
      BY <1>3, <2>2, <2>4, <2>8 DEF SavesChoice
    <3> QED
      BY <2>3, <3>1, <3>2 DEF SavesChoice
  <2> QED
    BY <1>3, <2>2, <2>7, <2>9 DEF FileInv
<1>8. CASE WriteTemporary(Main)
  <2>1. UNCHANGED disk /\ Load("ui")' = Load("ui") /\ job[Main].step = "temporary"
    BY <1>8 DEF WriteTemporary, Load
  <2>2. CASE Goes(Main, "rename") /\ UNCHANGED lost
    <3>1. job'[Main] = [todo |-> job[Main].todo, step |-> "rename", content |-> job[Main].content]
      BY <1>6, <2>2
    <3>2. SavesChoice(c)'
      BY <1>3, <2>1, <2>2, <3>1 DEF SavesChoice
    <3> QED
      BY <1>3, <1>6, <2>1, <2>2, <3>2 DEF FileInv
  <2>3. CASE Over(Main) /\ Failed(Main)
    <3>1. lost' = TRUE
      BY <1>1, <2>3 DEF Failed
    <3>2. SavesSessions'
      BY <1>5, <2>3, <3>1, NoJobIsEmpty DEF SavesSessions
    <3> QED
      BY <1>3, <1>5, <2>1, <2>3, <3>1, <3>2 DEF FileInv
  <2> QED
    BY <1>8, <2>2, <2>3 DEF WriteTemporary
<1>9. CASE Rename(Main)
  <2>1. job[Main].step = "rename" /\ job[Main].content \in Ui /\ (~lost => job[Main].content = chosen)
    BY <1>9 DEF Rename, SavesChoice
  <2>2. CASE disk' = [disk EXCEPT ![op.file] = job[Main].content] /\ Over(Main) /\ UNCHANGED lost
    <3>1. disk' = [ui |-> job[Main].content, recent |-> disk.recent, last |-> disk.last]
      BY <1>1, <2>2 DEF FileInv
    <3>2. /\ disk' = [ui |-> disk'.ui, recent |-> disk'.recent, last |-> disk'.last]
          /\ disk'.ui = job[Main].content /\ disk'["ui"] = job[Main].content
      BY <3>1
    <3>3. Load("ui")' = job[Main].content
      BY <2>1, <3>2, PersistenceAssumption DEF Load
    <3>4. SavesSessions'
      BY <1>3, <1>5, <2>1, <2>2, <3>3, NoJobIsEmpty DEF SavesSessions
    <3> QED
      BY <1>3, <1>5, <2>1, <2>2, <3>2, <3>4 DEF FileInv
  <2>3. CASE Goes(Main, "fallback") /\ Failed(Main) /\ UNCHANGED disk
    <3>1. lost' = TRUE
      BY <1>1, <2>3 DEF Failed
    <3>2. job'[Main] = [todo |-> job[Main].todo, step |-> "fallback", content |-> job[Main].content]
      BY <1>6, <2>3
    <3>3. SavesChoice(c)'
      BY <1>3, <2>1, <2>3, <3>1, <3>2 DEF SavesChoice
    <3> QED
      BY <1>3, <1>6, <2>3, <3>1, <3>3 DEF FileInv
  <2> QED
    BY <1>1, <1>9, <2>2, <2>3 DEF Rename
<1>10. CASE FallBack(Main)
  <2>1. /\ job[Main].step = "fallback" /\ disk' = [disk EXCEPT ![op.file] = Torn]
        /\ Goes(Main, "fill") /\ UNCHANGED lost
    BY <1>1, <1>10 DEF FallBack
  <2>2. disk' = [ui |-> Torn, recent |-> disk.recent, last |-> disk.last]
    BY <1>1, <2>1 DEF FileInv
  <2>3. /\ disk' = [ui |-> disk'.ui, recent |-> disk'.recent, last |-> disk'.last]
        /\ disk'.ui = Torn
    BY <2>2
  <2>4. lost /\ job[Main].content \in Ui
    BY <2>1 DEF SavesChoice
  <2>5. job'[Main] = [todo |-> job[Main].todo, step |-> "fill", content |-> job[Main].content]
    BY <1>6, <2>1
  <2>6. SavesChoice(c)'
    BY <1>3, <2>1, <2>4, <2>5 DEF SavesChoice
  <2> QED
    BY <1>3, <1>6, <2>1, <2>3, <2>6 DEF FileInv
<1>11. CASE Fill(Main)
  <2>1. /\ job[Main].step = "fill" /\ Over(Main) /\ UNCHANGED lost
        /\ disk' = [disk EXCEPT ![op.file] = job[Main].content] \/ UNCHANGED disk
    BY <1>1, <1>11 DEF Fill
  <2>2. lost /\ job[Main].content \in Ui
    BY <2>1 DEF SavesChoice
  <2>3. /\ disk' = [ui |-> disk'.ui, recent |-> disk'.recent, last |-> disk'.last]
        /\ disk'.ui \in Ui \cup {Torn}
    <3>1. CASE disk' = [disk EXCEPT ![op.file] = job[Main].content]
      <4>1. disk' = [ui |-> job[Main].content, recent |-> disk.recent, last |-> disk.last]
        BY <1>1, <3>1 DEF FileInv
      <4> QED
        BY <2>2, <4>1
    <3>2. CASE UNCHANGED disk
      BY <3>2 DEF FileInv
    <3> QED
      BY <2>1, <3>1, <3>2
  <2>4. SavesSessions'
    BY <1>5, <2>1, <2>2, NoJobIsEmpty DEF SavesSessions
  <2> QED
    BY <1>3, <1>5, <2>1, <2>2, <2>3, <2>4 DEF FileInv
<1> QED
  BY <1>7, <1>8, <1>9, <1>10, <1>11 DEF WriteStep

LEMMA RestartKeepsFiles ==
  ASSUME FileInv, PersistenceRestart PROVE FileInv'
<1>1. /\ chosen' \in Ui /\ before' = chosen' /\ chosen' = Load("ui") /\ lost' = FALSE /\ UNCHANGED disk
      /\ job' = [t \in Thread |-> NoJob]
  BY LoadsUi DEF PersistenceRestart
<1>2. Load("ui")' = chosen'
  BY <1>1 DEF Load
<1>3. \A t \in Thread : job'[t] = NoJob
  BY <1>1
<1>4. job' = [t \in Thread |-> [todo |-> job'[t].todo, step |-> job'[t].step,
                                content |-> job'[t].content]]
  BY <1>1, <1>3, NoJobIsEmpty
<1>5. SavesSessions'
  BY <1>2, <1>3, NoJobIsEmpty, PersistenceAssumption DEF SavesSessions
<1> QED
  BY <1>1, <1>3, <1>4, <1>5, NoJobIsEmpty DEF FileInv

\* All that the window does to the files.
Chooses == \E c \in LooksChoice : Choose(c[1], c[2])
BeginsSave(t) == /\ \E s \in SessionFile : Writes(t, RememberSession(s)) \/ Writes(t, ForgetSession(s))
                 /\ UNCHANGED <<disk, chosen, before, lost>>
FilesMove ==
  \/ NoFile
  \/ Idle(Main) /\ Chooses
  \/ \E t \in Thread : Idle(t) /\ BeginsSave(t)
  \/ \E t \in Thread : WriteStep(t)
  \/ PersistenceRestart

LEMMA FilesMoveKeepsFiles ==
  ASSUME FileInv, FilesMove PROVE FileInv'
<1>1. CASE NoFile
  <2>1. Load("ui")' = Load("ui")
    BY <1>1 DEF NoFile, fileVars, Load
  <2> QED
    BY <1>1, <2>1 DEF NoFile, fileVars, FileInv, SavesSessions, SavesChoice, Idle
<1>2. CASE Idle(Main) /\ Chooses
  BY <1>2, ChoosingKeepsFiles DEF Chooses
<1>3. ASSUME NEW t \in Thread, Idle(t), BeginsSave(t) PROVE FileInv'
  BY <1>3, SessionWritesKeepFiles, SessionOpsTyped DEF BeginsSave
<1>4. ASSUME NEW t \in Thread, WriteStep(t) PROVE FileInv'
  <2>1. CASE job[t].todo \in Seq(SessionOps)
    BY <1>4, <2>1, SessionStepKeepsFiles
  <2>2. CASE job[t].todo \notin Seq(SessionOps)
    <3>1. t = Main
      BY <2>2 DEF FileInv
    <3>2. \E c \in LooksChoice : SavesChoice(c)
      BY <2>2, <3>1 DEF FileInv, SavesSessions
    <3> QED
      BY <1>4, <3>1, <3>2, ChoiceStepKeepsFiles
  <2> QED
    BY <2>1, <2>2
<1> QED
  BY <1>1, <1>2, <1>3, <1>4, RestartKeepsFiles DEF FilesMove

LEMMA PickedTyped ==
  ASSUME NEW selection \in Selection, NEW item \in ThemePickerItem
  PROVE  Picked(selection, item) \in Selection
<1>1. /\ selection = [appearance |-> selection.appearance, light |-> selection.light,
                      dark |-> selection.dark]
      /\ selection.appearance \in {"system", "light", "dark"}
      /\ selection.light \in LightTheme /\ selection.dark \in DarkTheme
  BY OverlaysAssumption
<1>2. CASE item \in DarkTheme
  <2> DEFINE paired == IF Paired[item] = "none" THEN IF item \in DarkTheme THEN selection.light
                                                     ELSE selection.dark
                       ELSE Paired[item]
  <2>1. paired \in LightTheme
    BY <1>1, <1>2, OverlaysAssumption
  <2>2. item \notin LightTheme
    BY <1>2, OverlaysAssumption
  <2>3. Picked(selection, item) = [appearance |-> "dark", light |-> paired, dark |-> item]
    BY <1>2, <2>2 DEF Picked
  <2> HIDE DEF paired
  <2> QED
    BY <1>2, <2>1, <2>3, OverlaysAssumption
<1>3. CASE item \in LightTheme
  <2> DEFINE paired == IF Paired[item] = "none" THEN IF item \in DarkTheme THEN selection.light
                                                     ELSE selection.dark
                       ELSE Paired[item]
  <2>1. item \notin DarkTheme
    BY <1>3, OverlaysAssumption
  <2>2. paired \in DarkTheme
    BY <1>1, <1>3, <2>1, OverlaysAssumption
  <2>3. Picked(selection, item) = [appearance |-> "light", light |-> item, dark |-> paired]
    BY <1>3, <2>1 DEF Picked
  <2> HIDE DEF paired
  <2> QED
    BY <1>3, <2>2, <2>3, OverlaysAssumption
<1>4. CASE item \notin DarkTheme /\ item \notin LightTheme
  <2>1. item \in {"system", "light", "dark"}
    BY <1>4 DEF ThemePickerItem
  <2>2. Picked(selection, item) = [selection EXCEPT !.appearance = item]
    BY <1>4 DEF Picked
  <2> QED
    BY <1>1, <2>1, <2>2, OverlaysAssumption
<1> QED
  BY <1>2, <1>3, <1>4

LEMMA ChoosesLook ==
  ASSUME NEW field, NEW value, <<field, value>> \in LooksChoice, Choose(field, value)
  PROVE  Chooses
<1> DEFINE c == <<field, value>>
<1>1. c[1] = field /\ c[2] = value /\ c \in LooksChoice
  OBVIOUS
<1>2. Choose(c[1], c[2])
  BY <1>1
<1> QED
  BY <1>1, <1>2 DEF Chooses

LEMMA LooksTyped ==
  ASSUME FileInv
  PROVE  /\ \A b \in BOOLEAN : /\ <<"rail_collapsed", b>> \in LooksChoice
                               /\ <<"inspector_open", b>> \in LooksChoice
         /\ \A w \in {"narrow", "wide"} : <<"widths", w>> \in LooksChoice
         /\ \A s \in Selection : <<"theme", s>> \in LooksChoice
         /\ chosen.rail_collapsed \in BOOLEAN /\ chosen.inspector_open \in BOOLEAN
         /\ chosen.theme \in Selection
<1>1. /\ \A b \in BOOLEAN : /\ <<"rail_collapsed", b>> \in LooksChoice
                            /\ <<"inspector_open", b>> \in LooksChoice
      /\ \A w \in {"narrow", "wide"} : <<"widths", w>> \in LooksChoice
      /\ \A s \in Selection : <<"theme", s>> \in LooksChoice
  BY DEF LooksChoice
<1>2. chosen \in Ui
  BY DEF FileInv
<1> QED
  BY <1>1, <1>2 DEF Ui

LEMMA ForgetsMovesFiles ==
  ASSUME NEW v, Forgets(v) PROVE NoFile \/ BeginsSave(Main)
  BY DEF Forgets, BeginsSave

\* What a window action does to the files.
LEMMA WindowActionMovesFiles ==
  ASSUME FileInv, NEW a, RunWindowAction(a) PROVE NoFile \/ Chooses \/ BeginsSave(Main)
<1>1. CASE AddSession
  BY <1>1 DEF AddSession
<1>2. ASSUME NEW i, CloseSessionAt(i) PROVE NoFile \/ BeginsSave(Main)
  BY <1>2, ForgetsMovesFiles DEF CloseSessionAt
<1>3. CASE ToggleRail
  BY <1>3, ChoosesLook, LooksTyped DEF ToggleRail
<1>4. ASSUME NEW open \in BOOLEAN, SetInspector(open) PROVE Chooses
  BY <1>4, ChoosesLook, LooksTyped DEF SetInspector
<1> QED
  BY <1>1, <1>2, <1>3, <1>4 DEF RunWindowAction

LEMMA PaintMovesFiles ==
  ASSUME FileInv, Render PROVE NoFile \/ Chooses \/ BeginsSave(Main)
<1>1. \/ NoFile
      \/ \E v : Forgets(v)
      \/ Choose("rail_collapsed", ~chosen.rail_collapsed)
      \/ \E open \in BOOLEAN : Choose("inspector_open", open)
  BY DEF Render
<1> QED
  BY <1>1, ForgetsMovesFiles, ChoosesLook, LooksTyped

LEMMA OverlayInputMovesFiles ==
  ASSUME FileInv, OverlaysTypeOK, NEW v \in View, OverlayInput(v) PROVE NoFile \/ Chooses
<1>1. ASSUME NEW o, OnlyOver(v, o) PROVE NoFile
  BY <1>1 DEF OnlyOver, NoFile
<1>2. CASE ChooseThemePickerItem(v)
  <2>1. over[v].opening \in Selection
    BY <1>2 DEF ChooseThemePickerItem, PickerOpen, OverlaysTypeOK, OverState
  <2>2. PICK i \in ThemePickerItem : Choose("theme", Picked(over[v].opening, i))
    BY <1>2 DEF ChooseThemePickerItem
  <2> QED
    BY <2>1, <2>2, PickedTyped, ChoosesLook, LooksTyped
<1>3. TogglePalette(v) \/ CloseThemePicker(v) \/ OpenThemePicker(v) \/ CloseCard(v) => NoFile
  BY <1>1 DEF TogglePalette, CloseThemePicker, OpenThemePicker, CloseCard
<1>4. PreviewThemePickerItem(v) => NoFile
  BY DEF PreviewThemePickerItem, NoFile
<1>5. RunPaletteAction(v) => NoFile
  BY <1>1, <1>3 DEF RunPaletteAction, ShowCard, AskForList, NoFile
<1>6. Escape(v) => NoFile
  BY <1>1, <1>3 DEF Escape
<1>7. Enter(v) => NoFile \/ Chooses
  BY <1>1, <1>2, <1>3, <1>5 DEF Enter, ConfirmListPick
<1> QED
  BY <1>3, <1>4, <1>5, <1>6, <1>7 DEF OverlayInput

LEMMA NextMovesFiles ==
  ASSUME FileInv, OverlaysTypeOK, Active \in View, [Next]_windowVars PROVE FilesMove
<1> USE DEF FilesMove
<1>1. CASE TabInput
  <2>1. Idle(Main)
    BY <1>1 DEF TabInput, Ready
  <2>2. NoFile \/ Chooses \/ BeginsSave(Main)
    <3>1. ASSUME NEW a, RunWindowAction(a) PROVE NoFile \/ Chooses \/ BeginsSave(Main)
      BY <3>1, WindowActionMovesFiles
    <3>2. ASSUME NEW i, CloseSessionAt(i) PROVE NoFile \/ BeginsSave(Main)
      BY <3>2, ForgetsMovesFiles DEF CloseSessionAt
    <3>3. EndSidebarResize => Chooses
      BY ChoosesLook, LooksTyped DEF EndSidebarResize
    <3> QED
      BY <1>1, <3>1, <3>2, <3>3 DEF TabInput, AddSessionForCwd, SelectSession, ReturnToLauncher
  <2> QED
    BY <2>1, <2>2, PersistenceAssumption
<1>2. CASE SessionInput
  BY <1>2, OverlayInputMovesFiles DEF SessionInput, Ready
<1>3. CASE Paint
  BY <1>3, PaintMovesFiles, PersistenceAssumption DEF Paint, Ready
<1>4. CASE SessionStep
  BY <1>4 DEF SessionStep, Connect, Connected, OverlayAnswer, ListComes, BranchAnswered, OnlyOver, NoFile
<1>5. CASE Beside
  <2>1. ASSUME NEW t \in Thread, ConnectThreadSaves(t) PROVE Idle(t) /\ BeginsSave(t)
    BY <2>1 DEF ConnectThreadSaves, BeginsSave
  <2> QED
    BY <1>5, <2>1 DEF Beside, Turn, FileStep, WriteStep
<1>6. CASE Exit \/ Quitting \/ QuitTask \/ End
  BY <1>6 DEF Exit, ChildExits, Quitting, ShouldClose, CancelPendingQuit, ConfirmPendingQuit,
              QuitTask, QuitStep, End, ProcessEnds
<1>7. CASE Start
  BY <1>7 DEF Start, Relaunch
<1>8. CASE \E i \in 1..Len(win.tabs) : RenameSessionAt(i)
  BY <1>8 DEF RenameSessionAt, NoFile
<1>9. CASE UNCHANGED windowVars
  BY <1>9 DEF windowVars, NoFile
<1> QED
  BY <1>1, <1>2, <1>3, <1>4, <1>5, <1>6, <1>7, <1>8, <1>9 DEF Next

-----------------------------------------------------------------------------
(* The tabs.                                                                *)

LEMMA RemovedOne ==
  ASSUME NEW D, NEW s \in Seq(D), NEW i \in 1..Len(s)
  PROVE  /\ RemoveAt(s, i) \in Seq(D) /\ Len(RemoveAt(s, i)) = Len(s) - 1
         /\ \A j \in 1..Len(s) - 1 : RemoveAt(s, i)[j] = IF j < i THEN s[j] ELSE s[j + 1]
<1> DEFINE front == SubSeq(s, 1, i - 1)
           rest == SubSeq(s, i + 1, Len(s))
<1>1. front \in Seq(D) /\ Len(front) = i - 1 /\ \A j \in 1..i - 1 : front[j] = s[j]
  BY SubSeqProperties
<1>2. /\ rest \in Seq(D) /\ Len(rest) = Len(s) - i
      /\ \A j \in 1..Len(s) - i : rest[j] = s[i + j]
  BY SubSeqProperties
<1>3. RemoveAt(s, i) = front \o rest
  BY DEF RemoveAt
<1> HIDE DEF front, rest
<1>4. /\ front \o rest \in Seq(D) /\ Len(front \o rest) = Len(front) + Len(rest)
      /\ \A j \in 1..Len(front) + Len(rest) : (front \o rest)[j] =
           IF j <= Len(front) THEN front[j] ELSE rest[j - Len(front)]
  BY <1>1, <1>2, ConcatProperties
<1>5. Len(s) \in Nat /\ Len(front) + Len(rest) = Len(s) - 1
  BY <1>1, <1>2
<1>6. ASSUME NEW j \in 1..Len(s) - 1
      PROVE  (front \o rest)[j] = IF j < i THEN s[j] ELSE s[j + 1]
  <2>1. CASE j < i
    BY <1>1, <1>4, <1>5, <2>1
  <2>2. CASE ~(j < i)
    <3>1. j - (i - 1) \in 1..Len(s) - i /\ i + (j - (i - 1)) = j + 1
      BY <1>5, <2>2
    <3>2. rest[j - (i - 1)] = s[j + 1]
      BY <1>2, <3>1
    <3> QED
      BY <1>1, <1>4, <1>5, <2>2, <3>2
  <2> QED
    BY <2>1, <2>2
<1> QED
  BY <1>3, <1>4, <1>5, <1>6

LEMMA ViewsAreNumbers == View \subseteq Nat \ {0} /\ Child \subseteq Nat \ {0}
<1>1. Cardinality(View) \in Nat /\ Cardinality(Child) \in Nat
  BY WorkspaceAssumption, FS_CardinalityType
<1> QED
  BY <1>1, WorkspaceAssumption

\* What a handler does to the clients: nothing, or one is given up.
KeepsClients(w, u) == u.begun = w.begun /\ \A v \in View : u.view[v].client = w.view[v].client
DropsClient(w, u, v) == /\ u.begun = w.begun /\ u.view[v].client = NoChild
                        /\ \A x \in View : x # v => u.view[x].client = w.view[x].client

LEMMA NewViewsTyped ==
  /\ NewView \in ViewState /\ Connecting \in ViewState
  /\ NewView.client = NoChild /\ Connecting.client = NoChild
<1>1. NewView \in ViewState /\ NewView.client = NoChild
  BY DEF NewView, ViewState
<1>2. [NewView EXCEPT !.connecting = TRUE] \in ViewState
  BY <1>1 DEF ViewState
<1>3. [NewView EXCEPT !.connecting = TRUE].client = NoChild
  BY <1>1 DEF ViewState
<1> QED
  BY <1>1, <1>2, <1>3 DEF Connecting

LEMMA SameWin ==
  ASSUME NEW w \in WinState, NEW u \in WinState, u.tabs = w.tabs, u.active = w.active,
         u.made = w.made, u.begun = w.begun, u.view = w.view
  PROVE  u = w
  BY DEF WinState

\* sync_inspector_open_to_sessions
LEMMA SyncedKeeps ==
  ASSUME NEW w, WellFormed(w), NEW open \in BOOLEAN
  PROVE  /\ WellFormed(Synced(w, open)) /\ InSync(Synced(w, open), open)
         /\ KeepsClients(w, Synced(w, open))
         /\ Synced(w, open).tabs = w.tabs /\ Synced(w, open).active = w.active
         /\ Synced(w, open).made = w.made
<1> DEFINE u == Synced(w, open)
           view == [v \in View |-> IF Contains(w.tabs, v)
                                   THEN [w.view[v] EXCEPT !.inspector_open = open]
                                   ELSE w.view[v]]
<1>1. w \in WinState /\ w.view \in [View -> ViewState] /\ w.tabs \in Seq(View)
  BY DEF WellFormed, WinState
<1>2. ASSUME NEW v \in View
      PROVE  /\ view[v] \in ViewState /\ view[v].client = w.view[v].client
             /\ view[v].connecting = w.view[v].connecting /\ view[v].launcher = w.view[v].launcher
             /\ Contains(w.tabs, v) => view[v].inspector_open = open
  <2>1. w.view[v] \in ViewState
    BY <1>1
  <2> QED
    BY <2>1 DEF ViewState
<1>3. view \in [View -> ViewState]
  BY <1>2
<1>8. u = [w EXCEPT !.view = view]
  BY DEF Synced
<1> HIDE DEF view, u
<1>4. /\ u = [tabs |-> w.tabs, active |-> w.active, made |-> w.made, begun |-> w.begun,
              view |-> view]
      /\ u \in WinState
  BY <1>1, <1>3, <1>8 DEF WinState
<1>5. /\ u.tabs = w.tabs /\ u.active = w.active /\ u.made = w.made /\ u.begun = w.begun
      /\ u.view = view
  BY <1>4
<1>6. WellFormed(u)
  BY <1>2, <1>4, <1>5 DEF WellFormed, Tabbed
<1>7. InSync(u, open)
  <2>1. ASSUME NEW i \in 1..Len(w.tabs) PROVE view[w.tabs[i]].inspector_open = open
    <3>1. w.tabs[i] \in View
      BY <1>1
    <3> QED
      BY <1>2, <3>1 DEF Contains
  <2> QED
    BY <1>5, <2>1 DEF InSync
<1> QED
  BY <1>2, <1>5, <1>6, <1>7 DEF KeepsClients, u

\* push_launcher_session
LEMMA PushedKeeps ==
  ASSUME NEW w, WellFormed(w), w.made + 1 \in View, NEW v \in {NewView, Connecting},
         chosen.inspector_open \in BOOLEAN
  PROVE  /\ WellFormed(Pushed(w, v)) /\ InSync(Pushed(w, v), chosen.inspector_open)
         /\ HasActive(Pushed(w, v)) /\ KeepsClients(w, Pushed(w, v))
         /\ Pushed(w, v).made = w.made + 1
<1> DEFINE n == w.made + 1
           tabs == Append(w.tabs, n)
           view == [w.view EXCEPT ![n] = v]
           u == [tabs |-> tabs, active |-> Len(w.tabs) + 1, made |-> n, begun |-> w.begun,
                 view |-> view]
<1>1. /\ w \in WinState /\ w.view \in [View -> ViewState] /\ w.tabs \in Seq(View)
      /\ w.made \in Nat /\ w.begun \in Nat /\ Len(w.tabs) \in Nat
  BY DEF WellFormed, WinState
<1>2. v \in ViewState /\ v.client = NoChild
  BY NewViewsTyped
<1>3. ~Tabbed(w, n) /\ w.view[n].client = NoChild
  <2>1. \A i \in 1..Len(w.tabs) : w.tabs[i] # n
    BY <1>1 DEF WellFormed
  <2> QED
    BY <2>1 DEF WellFormed, Tabbed
<1>4. /\ tabs \in Seq(View) /\ Len(tabs) = Len(w.tabs) + 1 /\ tabs[Len(w.tabs) + 1] = n
      /\ \A i \in 1..Len(w.tabs) : tabs[i] = w.tabs[i]
  BY <1>1
<1>5. /\ view \in [View -> ViewState] /\ view[n] = v
      /\ \A x \in View : x # n => view[x] = w.view[x]
  BY <1>1, <1>2
<1>7. n \in Nat
  BY <1>1
<1>6. Pushed(w, v) = Synced(u, chosen.inspector_open)
  <2>1. Pushed(w, v) = Synced([w EXCEPT !.tabs = tabs, !.active = Len(w.tabs) + 1, !.made = n,
                                        !.view = view], chosen.inspector_open)
    BY DEF Pushed
  <2> DEFINE last == Len(w.tabs) + 1
  <2>3. last \in Nat
    BY <1>1
  <2>4. u = [tabs |-> tabs, active |-> last, made |-> n, begun |-> w.begun, view |-> view]
    OBVIOUS
  <2> HIDE DEF tabs, view, n, last, u
  <2>5. [w EXCEPT !.tabs = tabs, !.active = last, !.made = n, !.view = view]
          = [tabs |-> tabs, active |-> last, made |-> n, begun |-> w.begun, view |-> view]
    <3>1. w \in WinState /\ tabs \in Seq(View) /\ last \in Nat /\ n \in Nat /\ view \in [View -> ViewState]
      BY <1>1, <1>4, <1>5, <1>7, <2>3
    <3> DEFINE new == [w EXCEPT !.tabs = tabs, !.active = last, !.made = n, !.view = view]
               same == [tabs |-> tabs, active |-> last, made |-> n, begun |-> w.begun, view |-> view]
    <3>2. /\ new \in WinState /\ new.tabs = tabs /\ new.active = last /\ new.made = n
          /\ new.begun = w.begun /\ new.view = view
      BY <3>1 DEF WinState
    <3>3. /\ same \in WinState /\ same.tabs = tabs /\ same.active = last /\ same.made = n
          /\ same.begun = w.begun /\ same.view = view
      BY <3>1 DEF WinState
    <3> HIDE DEF new, same
    <3>4. new = same
      BY <3>2, <3>3, SameWin
    <3> QED
      BY <3>4 DEF new, same
  <2>2. [w EXCEPT !.tabs = tabs, !.active = Len(w.tabs) + 1, !.made = n, !.view = view] = u
    BY <2>4, <2>5 DEF last
  <2> QED
    BY <2>1, <2>2
<1> HIDE DEF tabs, view, n
<1>8. u \in WinState
  BY <1>1, <1>4, <1>5, <1>7 DEF WinState
<1>9. \A i \in 1..Len(tabs) : (i = Len(w.tabs) + 1 /\ tabs[i] = n)
                              \/ (i \in 1..Len(w.tabs) /\ tabs[i] = w.tabs[i])
  BY <1>1, <1>4
<1>10. /\ \A i, j \in 1..Len(tabs) : tabs[i] = tabs[j] => i = j
       /\ \A i \in 1..Len(tabs) : tabs[i] <= n
  <2>1. ASSUME NEW i \in 1..Len(w.tabs)
        PROVE  w.tabs[i] # n /\ w.tabs[i] <= w.made /\ w.tabs[i] \in Nat
    <3>1. w.tabs[i] \in View
      BY <1>1
    <3> QED
      BY <1>3, <3>1, ViewsAreNumbers DEF Tabbed, WellFormed
  <2>2. \A i \in 1..Len(w.tabs) : w.tabs[i] <= n
    BY <1>1, <2>1 DEF n
  <2>3. \A i, j \in 1..Len(w.tabs) : w.tabs[i] = w.tabs[j] => i = j
    BY DEF WellFormed
  <2> QED
    BY <1>7, <1>9, <2>1, <2>2, <2>3
<1>11. \A x \in View : ~Tabbed(u, x) \/ view[x].connecting \/ view[x].launcher
                         => view[x].client = NoChild
  <2>1. \A x \in View : Tabbed(w, x) => Tabbed(u, x)
    BY <1>1, <1>4 DEF Tabbed
  <2> QED
    BY <1>2, <1>5, <2>1 DEF WellFormed
<1>12. WellFormed(u) /\ HasActive(u) /\ KeepsClients(w, u)
  <2>1. Len(w.tabs) + 1 \in 1..Len(tabs)
    BY <1>1, <1>4
  <2>2. \A x \in View : view[x].client = w.view[x].client
    BY <1>2, <1>3, <1>5
  <2> QED
    BY <1>8, <1>10, <1>11, <2>1, <2>2 DEF WellFormed, HasActive, KeepsClients
<1>13. u.made = n
  OBVIOUS
<1> HIDE DEF u
<1> QED
  BY <1>6, <1>12, <1>13, SyncedKeeps DEF HasActive, KeepsClients, n

\* close_session_at
LEMMA ClosedKeeps ==
  ASSUME NEW w, WellFormed(w), HasActive(w), NEW i \in 1..Len(w.tabs), CanClose(w),
         InSync(w, chosen.inspector_open), chosen.inspector_open \in BOOLEAN
  PROVE  /\ WellFormed(Closed(w, i)) /\ InSync(Closed(w, i), chosen.inspector_open)
         /\ HasActive(Closed(w, i)) /\ DropsClient(w, Closed(w, i), w.tabs[i])
         /\ Closed(w, i).made \in {w.made, w.made + 1}
<1> DEFINE tabs == RemoveAt(w.tabs, i)
           view == [w.view EXCEPT ![w.tabs[i]] = NewView]
           u == [tabs |-> tabs, active |-> w.active, made |-> w.made, begun |-> w.begun,
                 view |-> view]
<1>1. /\ w \in WinState /\ w.view \in [View -> ViewState] /\ w.tabs \in Seq(View)
      /\ w.made \in Nat /\ w.begun \in Nat /\ w.active \in Nat /\ Len(w.tabs) \in Nat \ {0}
      /\ w.tabs[i] \in View
  BY DEF WellFormed, WinState
<1>2. /\ tabs \in Seq(View) /\ Len(tabs) = Len(w.tabs) - 1
      /\ \A j \in 1..Len(w.tabs) - 1 : tabs[j] = IF j < i THEN w.tabs[j] ELSE w.tabs[j + 1]
  BY <1>1, RemovedOne
<1>3. /\ view \in [View -> ViewState] /\ view[w.tabs[i]] = NewView
      /\ \A x \in View : x # w.tabs[i] => view[x] = w.view[x]
  BY <1>1, NewViewsTyped
<1>4. Closed(w, i) = IF tabs = <<>> THEN Pushed(u, NewView) ELSE Clamped(u)
  <2> DEFINE left == [w EXCEPT !.tabs = tabs, !.view = view]
  <2>1. Closed(w, i) = IF left.tabs = <<>> THEN Pushed(left, NewView) ELSE Clamped(left)
    BY DEF Closed
  <2> HIDE DEF tabs, view
  <2>2. left = u
    <3>1. /\ left \in WinState /\ left.tabs = tabs /\ left.active = w.active /\ left.made = w.made
          /\ left.begun = w.begun /\ left.view = view
      BY <1>1, <1>2, <1>3 DEF WinState
    <3>2. /\ u \in WinState /\ u.tabs = tabs /\ u.active = w.active /\ u.made = w.made
          /\ u.begun = w.begun /\ u.view = view
      BY <1>1, <1>2, <1>3 DEF WinState
    <3> HIDE DEF left, u
    <3> QED
      BY <3>1, <3>2, SameWin
  <2> HIDE DEF left
  <2> QED
    BY <2>1, <2>2
<1> HIDE DEF tabs, view
<1>5. u \in WinState
  BY <1>1, <1>2, <1>3 DEF WinState
\* Where each tab that is left was.
<1> DEFINE At(j) == IF j < i THEN j ELSE j + 1
<1>6. \A j \in 1..Len(tabs) : At(j) \in 1..Len(w.tabs) /\ At(j) # i /\ tabs[j] = w.tabs[At(j)]
  BY <1>1, <1>2
<1>7. \A j, k \in 1..Len(tabs) : At(j) = At(k) => j = k
  BY <1>1, <1>2
<1>8. \A j \in 1..Len(w.tabs) : j # i => \E k \in 1..Len(tabs) : tabs[k] = w.tabs[j]
  <2>1. ASSUME NEW j \in 1..Len(w.tabs), j < i PROVE j \in 1..Len(tabs) /\ tabs[j] = w.tabs[j]
    BY <1>1, <1>2, <2>1
  <2>2. ASSUME NEW j \in 1..Len(w.tabs), j > i
        PROVE  j - 1 \in 1..Len(tabs) /\ tabs[j - 1] = w.tabs[j]
    <3>1. j - 1 \in 1..Len(w.tabs) - 1 /\ ~(j - 1 < i) /\ (j - 1) + 1 = j
      BY <1>1, <2>2
    <3> QED
      BY <1>2, <3>1
  <2>3. ASSUME NEW j \in 1..Len(w.tabs), j # i PROVE j < i \/ j > i
    BY <1>1, <2>3
  <2> QED
    BY <2>1, <2>2, <2>3
<1> HIDE DEF At
<1>9. \A j \in 1..Len(tabs) : tabs[j] # w.tabs[i]
  BY <1>6 DEF WellFormed
<1>10. /\ \A j, k \in 1..Len(tabs) : tabs[j] = tabs[k] => j = k
       /\ \A j \in 1..Len(tabs) : tabs[j] <= w.made
  BY <1>6, <1>7 DEF WellFormed
<1>11. \A x \in View : ~Tabbed(u, x) \/ view[x].connecting \/ view[x].launcher
                         => view[x].client = NoChild
  <2>1. \A x \in View : Tabbed(w, x) /\ x # w.tabs[i] => Tabbed(u, x)
    BY <1>8 DEF Tabbed
  <2> QED
    BY <1>3, <2>1, NewViewsTyped DEF WellFormed
<1>12. WellFormed(u)
  BY <1>5, <1>10, <1>11 DEF WellFormed
<1>13. DropsClient(w, u, w.tabs[i])
  BY <1>3, NewViewsTyped DEF DropsClient
<1>14. InSync(u, chosen.inspector_open)
  <2>1. ASSUME NEW j \in 1..Len(tabs) PROVE view[tabs[j]].inspector_open = chosen.inspector_open
    <3>1. tabs[j] \in View /\ tabs[j] # w.tabs[i]
      BY <1>2, <1>9
    <3>2. view[tabs[j]] = w.view[tabs[j]]
      BY <1>3, <3>1
    <3>3. At(j) \in 1..Len(w.tabs) /\ tabs[j] = w.tabs[At(j)]
      BY <1>6
    <3>4. w.view[w.tabs[At(j)]].inspector_open = chosen.inspector_open
      BY <3>3 DEF InSync
    <3> QED
      BY <3>2, <3>3, <3>4
  <2> QED
    BY <2>1 DEF InSync
<1>15. CASE tabs = <<>>
  <2>1. Len(w.tabs) = 1
    BY <1>1, <1>2, <1>15
  <2>2. u.made = w.made /\ u.made + 1 \in View
    BY <2>1 DEF CanClose, HasView
  <2> HIDE DEF u
  <2>3. /\ WellFormed(Pushed(u, NewView)) /\ InSync(Pushed(u, NewView), chosen.inspector_open)
        /\ HasActive(Pushed(u, NewView)) /\ KeepsClients(u, Pushed(u, NewView))
        /\ Pushed(u, NewView).made = u.made + 1
    BY <1>12, <2>2, PushedKeeps
  <2> QED
    BY <1>1, <1>4, <1>13, <1>15, <2>2, <2>3 DEF KeepsClients, DropsClient
<1>16. CASE tabs # <<>>
  <2> DEFINE active == IF w.active <= Len(tabs) THEN w.active ELSE Len(tabs)
             c == [tabs |-> tabs, active |-> active, made |-> w.made, begun |-> w.begun,
                   view |-> view]
  <2>1. Clamped(u) = c
    BY DEF Clamped
  <2>2. Len(tabs) \in Nat \ {0}
    <3>1. tabs \in Seq(View)
      BY <1>2
    <3> QED
      BY <1>16, <3>1, EmptySeq
  <2>3. active \in 1..Len(tabs) /\ active \in Nat
    BY <1>1, <2>2 DEF HasActive
  <2> HIDE DEF active
  <2>4. c \in WinState
    BY <1>1, <1>2, <1>3, <2>3 DEF WinState
  <2>5. WellFormed(c) /\ HasActive(c) /\ InSync(c, chosen.inspector_open)
    BY <1>12, <1>14, <2>3, <2>4 DEF WellFormed, HasActive, InSync, Tabbed
  <2>6. DropsClient(w, c, w.tabs[i]) /\ c.made = w.made
    BY <1>13 DEF DropsClient
  <2> HIDE DEF c, u
  <2> QED
    BY <1>4, <1>16, <2>1, <2>5, <2>6
<1> QED
  BY <1>15, <1>16

\* A step that changes what views are at, and no tab.
LEMMA TabsKept ==
  ASSUME NEW w, NEW u \in WinState, NEW open, WellFormed(w),
         u.tabs = w.tabs, u.made = w.made,
         \A x \in View : /\ u.view[x].inspector_open = w.view[x].inspector_open
                         /\ u.view[x].client # NoChild
                              => Tabbed(w, x) /\ ~u.view[x].connecting /\ ~u.view[x].launcher
  PROVE  /\ WellFormed(u)
         /\ HasActive(w) /\ u.active = w.active => HasActive(u)
         /\ InSync(w, open) => InSync(u, open)
<1>1. WellFormed(u)
  BY DEF WellFormed, Tabbed
<1>2. \A i \in 1..Len(w.tabs) : w.tabs[i] \in View
  BY DEF WellFormed, WinState
<1> QED
  BY <1>1, <1>2 DEF HasActive, InSync

LEMMA ClientsAreTabs ==
  ASSUME NEW w, WellFormed(w), NEW x \in View, w.view[x].client # NoChild
  PROVE  Tabbed(w, x) /\ ~w.view[x].connecting /\ ~w.view[x].launcher
  BY DEF WellFormed

\* One view is told something; what it asks of the window, and what is taken up.
Set(w, v, s) == [w EXCEPT !.view[v] = s]
PaletteSet(w, v, a) == [w EXCEPT !.view[v].palette = a]
NewTabSet(w, v, b) == [w EXCEPT !.view[v].new_tab = b]
TakenUp(w, v) == [w EXCEPT !.view[v].palette = "none", !.view[v].new_tab = FALSE]

LEMMA ViewSet ==
  ASSUME NEW w \in WinState, NEW v \in View, NEW s \in ViewState
  PROVE  /\ Set(w, v, s) \in WinState
         /\ Set(w, v, s).tabs = w.tabs /\ Set(w, v, s).active = w.active
         /\ Set(w, v, s).made = w.made /\ Set(w, v, s).begun = w.begun
         /\ \A x \in View : Set(w, v, s).view[x] = IF x = v THEN s ELSE w.view[x]
  BY DEF WinState, Set

LEMMA SetKeeps ==
  ASSUME NEW w, WellFormed(w), HasActive(w), NEW open, InSync(w, open),
         NEW v \in View, NEW s \in ViewState, s.inspector_open = w.view[v].inspector_open,
         s.client # NoChild => Tabbed(w, v) /\ ~s.connecting /\ ~s.launcher
  PROVE  /\ WellFormed(Set(w, v, s)) /\ HasActive(Set(w, v, s)) /\ InSync(Set(w, v, s), open)
         /\ Set(w, v, s).tabs = w.tabs /\ Set(w, v, s).active = w.active
         /\ Set(w, v, s).made = w.made /\ Set(w, v, s).begun = w.begun
         /\ \A x \in View : Set(w, v, s).view[x] = IF x = v THEN s ELSE w.view[x]
<1> DEFINE u == Set(w, v, s)
<1>1. w \in WinState
  BY DEF WellFormed
<1>2. /\ u \in WinState /\ u.tabs = w.tabs /\ u.active = w.active /\ u.made = w.made
      /\ u.begun = w.begun /\ \A x \in View : u.view[x] = IF x = v THEN s ELSE w.view[x]
  BY <1>1, ViewSet
<1> HIDE DEF u
<1>3. \A x \in View : /\ u.view[x].inspector_open = w.view[x].inspector_open
                      /\ u.view[x].client # NoChild
                           => Tabbed(w, x) /\ ~u.view[x].connecting /\ ~u.view[x].launcher
  BY <1>2, ClientsAreTabs
<1>4. WellFormed(u) /\ HasActive(u) /\ InSync(u, open)
  BY <1>2, <1>3, TabsKept
<1> QED
  BY <1>2, <1>4 DEF u

Keeps(w, u, open) ==
  /\ WellFormed(u) /\ HasActive(u) /\ InSync(u, open) /\ KeepsClients(w, u)
  /\ u.tabs = w.tabs /\ u.active = w.active /\ u.made = w.made

LEMMA SetAsideKeeps ==
  ASSUME NEW w, WellFormed(w), HasActive(w), NEW open, InSync(w, open), NEW v \in View,
         NEW s \in ViewState, s.inspector_open = w.view[v].inspector_open,
         s.client = w.view[v].client, s.connecting = w.view[v].connecting,
         s.launcher = w.view[v].launcher
  PROVE  Keeps(w, Set(w, v, s), open)
<1>1. s.client # NoChild => Tabbed(w, v) /\ ~s.connecting /\ ~s.launcher
  BY ClientsAreTabs
<1> QED
  BY <1>1, SetKeeps DEF KeepsClients, Keeps

LEMMA PaletteKeeps ==
  ASSUME NEW w, WellFormed(w), HasActive(w), NEW v \in View, NEW open, InSync(w, open),
         NEW a \in WindowAction \cup {"none"}
  PROVE  Keeps(w, PaletteSet(w, v, a), open)
<1> DEFINE s == [w.view[v] EXCEPT !.palette = a]
<1>1. w \in WinState /\ w.view[v] \in ViewState
  BY DEF WellFormed, WinState
<1>2. /\ s \in ViewState
      /\ s.inspector_open = w.view[v].inspector_open /\ s.client = w.view[v].client
      /\ s.connecting = w.view[v].connecting /\ s.launcher = w.view[v].launcher
  BY <1>1 DEF ViewState
<1>3. PaletteSet(w, v, a) = Set(w, v, s)
  BY <1>1 DEF WinState, PaletteSet, Set
<1> HIDE DEF s
<1> QED
  BY <1>2, <1>3, SetAsideKeeps

LEMMA NewTabKeeps ==
  ASSUME NEW w, WellFormed(w), HasActive(w), NEW v \in View, NEW open, InSync(w, open),
         NEW b \in BOOLEAN
  PROVE  Keeps(w, NewTabSet(w, v, b), open)
<1> DEFINE s == [w.view[v] EXCEPT !.new_tab = b]
<1>1. w \in WinState /\ w.view[v] \in ViewState
  BY DEF WellFormed, WinState
<1>2. /\ s \in ViewState
      /\ s.inspector_open = w.view[v].inspector_open /\ s.client = w.view[v].client
      /\ s.connecting = w.view[v].connecting /\ s.launcher = w.view[v].launcher
  BY <1>1 DEF ViewState
<1>3. NewTabSet(w, v, b) = Set(w, v, s)
  BY <1>1 DEF WinState, NewTabSet, Set
<1> HIDE DEF s
<1> QED
  BY <1>2, <1>3, SetAsideKeeps

LEMMA TakingUpKeeps ==
  ASSUME NEW w, WellFormed(w), HasActive(w), NEW v \in View, NEW open, InSync(w, open)
  PROVE  Keeps(w, TakenUp(w, v), open)
<1> DEFINE m == PaletteSet(w, v, "none")
<1>1. TakenUp(w, v) = NewTabSet(m, v, FALSE)
  BY DEF TakenUp, NewTabSet, PaletteSet
<1>2. Keeps(w, m, open)
  BY PaletteKeeps
<1> HIDE DEF m
<1>3. Keeps(m, NewTabSet(m, v, FALSE), open)
  BY <1>2, NewTabKeeps DEF Keeps
<1> QED
  BY <1>1, <1>2, <1>3 DEF KeepsClients, Keeps

\* The paint: a tab for what a branch leaves.
Branched(w, asked, open) == IF asked THEN Synced(Pushed(w, Connecting), open) ELSE w

LEMMA BranchedKeeps ==
  ASSUME NEW w, WellFormed(w), HasActive(w), NEW open \in BOOLEAN, InSync(w, open),
         chosen.inspector_open \in BOOLEAN, NEW asked \in BOOLEAN,
         asked => w.made + 1 \in View
  PROVE  LET u == Branched(w, asked, open) IN
         WellFormed(u) /\ HasActive(u) /\ InSync(u, open) /\ KeepsClients(w, u)
<1>1. CASE asked
  <2> DEFINE p == Pushed(w, Connecting)
  <2>1. WellFormed(p) /\ HasActive(p) /\ KeepsClients(w, p)
    BY <1>1, PushedKeeps
  <2> HIDE DEF p
  <2>2. /\ WellFormed(Synced(p, open)) /\ InSync(Synced(p, open), open)
        /\ KeepsClients(p, Synced(p, open))
        /\ Synced(p, open).tabs = p.tabs /\ Synced(p, open).active = p.active
    BY <2>1, SyncedKeeps
  <2>3. Branched(w, asked, open) = Synced(p, open)
    BY <1>1 DEF Branched, p
  <2> QED
    BY <2>1, <2>2, <2>3 DEF KeepsClients, HasActive
<1>2. CASE ~asked
  BY <1>2 DEF Branched, KeepsClients
<1> QED
  BY <1>1, <1>2

-----------------------------------------------------------------------------
(* What the window's handlers do to the tabs: the clients stay, or that of  *)
(* one view is given up and told to end.                                    *)

TabMove ==
  /\ WellFormed(win') /\ HasActive(win') /\ InSync(win', chosen'.inspector_open)
  /\ UNCHANGED <<running, busy, quit, toEnd, captured>>
  /\ \/ KeepsClients(win, win') /\ UNCHANGED told
     \/ \E v \in View : DropsClient(win, win', v) /\ ShutsDown(v)

LEMMA LookChosen ==
  ASSUME FileInv, NEW value
  PROVE  /\ \A field \in {"rail_collapsed", "widths", "theme"} :
              Choose(field, value) => chosen'.inspector_open = chosen.inspector_open
         /\ Choose("inspector_open", value) => chosen'.inspector_open = value
  BY DEF FileInv, Ui, Choose

LEMMA ActiveTyped ==
  ASSUME TabInv
  PROVE  /\ win \in WinState /\ Active \in View /\ win.view[Active] \in ViewState
         /\ win.made \in Nat /\ win.active \in 1..Len(win.tabs)
         /\ \A i \in 1..Len(win.tabs) : win.tabs[i] \in View
<1>1. win \in WinState /\ win.active \in 1..Len(win.tabs)
  BY DEF TabInv, WellFormed, HasActive
<1>2. \A i \in 1..Len(win.tabs) : win.tabs[i] \in View
  BY <1>1 DEF WinState
<1>3. Active \in View
  BY <1>1, <1>2 DEF Active
<1> QED
  BY <1>1, <1>2, <1>3 DEF WinState

LEMMA PushMoves ==
  ASSUME TabInv, FileInv, HasView(win), NEW v \in {NewView, Connecting}, win' = Pushed(win, v),
         UNCHANGED chosen, UNCHANGED <<running, busy, quit, toEnd, captured, told>>
  PROVE  TabMove
<1>1. chosen.inspector_open \in BOOLEAN
  BY LooksTyped
<1>2. /\ WellFormed(Pushed(win, v)) /\ InSync(Pushed(win, v), chosen.inspector_open)
      /\ HasActive(Pushed(win, v)) /\ KeepsClients(win, Pushed(win, v))
  BY <1>1, PushedKeeps DEF TabInv, HasView
<1> QED
  BY <1>2 DEF TabMove

LEMMA ForgetsKeepsLooks == ASSUME NEW v, Forgets(v) PROVE UNCHANGED chosen
  BY DEF Forgets, NoFile, fileVars

LEMMA CloseMoves ==
  ASSUME TabInv, FileInv, NEW i \in 1..Len(win.tabs), CloseSessionAt(i) PROVE TabMove
<1>1. chosen.inspector_open \in BOOLEAN
  BY LooksTyped
<1>2. /\ WellFormed(Closed(win, i)) /\ InSync(Closed(win, i), chosen.inspector_open)
      /\ HasActive(Closed(win, i)) /\ DropsClient(win, Closed(win, i), win.tabs[i])
  BY <1>1, ClosedKeeps DEF TabInv, CloseSessionAt
<1>3. /\ win' = Closed(win, i) /\ ShutsDown(win.tabs[i]) /\ UNCHANGED <<quit, toEnd, captured>>
      /\ UNCHANGED chosen
  BY ForgetsKeepsLooks DEF CloseSessionAt
<1>4. win.tabs[i] \in View /\ UNCHANGED <<running, busy>>
  BY <1>3, ActiveTyped DEF ShutsDown, childVars
<1> QED
  BY <1>2, <1>3, <1>4 DEF TabMove

LEMMA SelectMoves ==
  ASSUME TabInv, NEW i \in 1..Len(win.tabs), win' = Selected(win, i), UNCHANGED chosen,
         UNCHANGED <<running, busy, quit, toEnd, captured, told>>
  PROVE  TabMove
<1>1. win \in WinState
  BY ActiveTyped
<1>2. /\ win' \in WinState /\ win'.tabs = win.tabs /\ win'.active = i /\ win'.made = win.made
      /\ win'.begun = win.begun /\ win'.view = win.view
  BY <1>1 DEF Selected, WinState
<1> QED
  BY <1>2 DEF TabMove, TabInv, WellFormed, HasActive, InSync, Tabbed, KeepsClients

LEMMA StayMoves ==
  ASSUME TabInv, UNCHANGED <<win, running, busy, quit, toEnd, captured, told>>,
         chosen'.inspector_open = chosen.inspector_open
  PROVE  TabMove
  BY DEF TabMove, TabInv, KeepsClients

LEMMA InspectorMoves ==
  ASSUME TabInv, FileInv, NEW open \in BOOLEAN, SetInspector(open) PROVE TabMove
<1>1. /\ win' = Synced(win, open) /\ chosen'.inspector_open = open
      /\ UNCHANGED <<running, busy, quit, toEnd, captured, told>>
  BY LookChosen DEF SetInspector, childVars, NoQuitStep, quitVars
<1>2. /\ WellFormed(Synced(win, open)) /\ InSync(Synced(win, open), open)
      /\ KeepsClients(win, Synced(win, open))
      /\ Synced(win, open).tabs = win.tabs /\ Synced(win, open).active = win.active
  BY SyncedKeeps DEF TabInv
<1> QED
  BY <1>1, <1>2 DEF TabMove, TabInv, HasActive

LEMMA WindowActionMoves ==
  ASSUME TabInv, FileInv, NEW a, RunWindowAction(a) PROVE TabMove
<1>1. CASE AddSession
  BY <1>1, PushMoves DEF AddSession, childVars, NoQuitStep, quitVars, NoFile, fileVars
<1>2. CASE CloseSessionAt(win.active)
  BY <1>2, CloseMoves, ActiveTyped
<1>3. CASE ToggleRail
  BY <1>3, StayMoves, LookChosen DEF ToggleRail, childVars, NoQuitStep, quitVars
<1>4. ASSUME NEW open \in BOOLEAN, SetInspector(open) PROVE TabMove
  BY <1>4, InspectorMoves
<1>5. (~chosen.inspector_open) \in BOOLEAN /\ TRUE \in BOOLEAN
  OBVIOUS
<1> QED
  BY <1>1, <1>2, <1>3, <1>4, <1>5 DEF RunWindowAction

LEMMA ReturnMoves ==
  ASSUME TabInv, FileInv, NEW v \in View, ReturnToLauncher(v) PROVE TabMove
<1> DEFINE s == [win.view[v] EXCEPT !.client = NoChild, !.connecting = FALSE, !.launcher = TRUE]
<1>1. win \in WinState /\ win.view[v] \in ViewState
  BY ActiveTyped DEF WinState
<1>2. /\ s \in ViewState /\ s.inspector_open = win.view[v].inspector_open /\ s.client = NoChild
  BY <1>1 DEF ViewState
<1>3. win' = Set(win, v, s)
  BY <1>1 DEF ReturnToLauncher, Set, WinState
<1>4. ShutsDown(v) /\ UNCHANGED <<quit, toEnd, captured, chosen, running, busy>>
  BY DEF ReturnToLauncher, NoFile, fileVars, ShutsDown, childVars
<1> HIDE DEF s
<1>5. /\ WellFormed(Set(win, v, s)) /\ HasActive(Set(win, v, s))
      /\ InSync(Set(win, v, s), chosen.inspector_open) /\ Set(win, v, s).begun = win.begun
      /\ \A x \in View : Set(win, v, s).view[x] = IF x = v THEN s ELSE win.view[x]
  BY <1>2, SetKeeps DEF TabInv
<1>6. DropsClient(win, win', v)
  BY <1>2, <1>3, <1>5 DEF DropsClient
<1> QED
  BY <1>3, <1>4, <1>5, <1>6 DEF TabMove

LEMMA AskMoves ==
  ASSUME TabInv, UNCHANGED <<chosen, running, busy, quit, toEnd, captured, told>>, NEW v \in View,
         (\E a \in WindowAction : AskWindow(v, a)) \/ AskNewTab(v)
  PROVE  TabMove
<1>1. ASSUME NEW a \in WindowAction, AskWindow(v, a) PROVE TabMove
  <2>1. Keeps(win, PaletteSet(win, v, a), chosen.inspector_open)
    BY PaletteKeeps DEF TabInv
  <2>2. win' = PaletteSet(win, v, a)
    BY <1>1 DEF AskWindow, PaletteSet
  <2> QED
    BY <2>1, <2>2 DEF Keeps, TabMove
<1>2. CASE AskNewTab(v)
  <2>1. Keeps(win, NewTabSet(win, v, TRUE), chosen.inspector_open)
    BY NewTabKeeps DEF TabInv
  <2>2. win' = NewTabSet(win, v, TRUE)
    BY <1>2 DEF AskNewTab, NewTabSet
  <2> QED
    BY <2>1, <2>2 DEF Keeps, TabMove
<1> QED
  BY <1>1, <1>2

\* What the paint makes of the tabs, once what the active view asked is taken up.
LEMMA RoomForTabs ==
  ASSUME NEW n \in Nat, NEW k \in {1, 2}, n + k \in View
  PROVE  n + 1 \in View /\ (k = 2 => n + 2 \in View)
<1>1. Cardinality(View) \in Nat /\ View = 1..Cardinality(View)
  BY WorkspaceAssumption, FS_CardinalityType
<1>2. n + k \in 1..Cardinality(View) => n + 1 \in 1..Cardinality(View)
  BY <1>1
<1> QED
  BY <1>1, <1>2

LEMMA RenderMoves ==
  ASSUME TabInv, FileInv, Render PROVE TabMove
<1> DEFINE v == Active
           asked == win.view[v]
           w == TakenUp(win, v)
           open == chosen.inspector_open
<1>1. /\ v \in View /\ asked \in ViewState /\ asked.new_tab \in BOOLEAN /\ win.made \in Nat
      /\ open \in BOOLEAN
  BY ActiveTyped, LooksTyped DEF ViewState
<1>2. win.made + 1 \in View /\ (asked.new_tab => win.made + 2 \in View)
  <2>1. win.made + (IF asked.new_tab THEN 2 ELSE 1) \in View
    BY DEF Render
  <2> QED
    BY <1>1, <2>1, RoomForTabs
<1>3. Keeps(win, w, open)
  BY <1>1, TakingUpKeeps DEF TabInv
<1>4. UNCHANGED <<running, busy, quit, toEnd, captured>>
  BY DEF Render
<1>5. \/ asked.palette = "none" /\ win' = Branched(w, asked.new_tab, open) /\ UNCHANGED told /\ NoFile
      \/ win' = Branched(Pushed(w, NewView), asked.new_tab, open) /\ UNCHANGED told /\ NoFile
      \/ win' = Branched(Closed(w, w.active), asked.new_tab, open) /\ ShutsDown(v) /\ Forgets(v)
      \/ /\ win' = Branched(w, asked.new_tab, open) /\ UNCHANGED told
         /\ Choose("rail_collapsed", ~chosen.rail_collapsed)
      \/ \E o \in BOOLEAN : /\ win' = Branched(Synced(w, o), asked.new_tab, o)
                            /\ Choose("inspector_open", o) /\ UNCHANGED told
  BY DEF Render, Branched, TakenUp
<1>6. win.view[v].client = w.view[v].client /\ w.made = win.made /\ w.active = win.active /\ w.tabs = win.tabs
  BY <1>1, <1>3 DEF Keeps, KeepsClients
<1>7. /\ WellFormed(w) /\ HasActive(w) /\ InSync(w, open) /\ KeepsClients(win, w)
  BY <1>3 DEF Keeps
<1> HIDE DEF w, asked, v
<1>8. CASE UNCHANGED told /\ win' = Branched(w, asked.new_tab, open) /\ open' = open
  <2>1. LET u == Branched(w, asked.new_tab, open) IN
        WellFormed(u) /\ HasActive(u) /\ InSync(u, open) /\ KeepsClients(w, u)
    BY <1>1, <1>2, <1>6, <1>7, BranchedKeeps
  <2> QED
    BY <1>4, <1>7, <1>8, <2>1 DEF TabMove, KeepsClients
<1>9. CASE UNCHANGED told /\ win' = Branched(Pushed(w, NewView), asked.new_tab, open) /\ UNCHANGED chosen
  <2> DEFINE p == Pushed(w, NewView)
  <2>1. /\ WellFormed(p) /\ InSync(p, open) /\ HasActive(p) /\ KeepsClients(w, p)
        /\ p.made = win.made + 1
    BY <1>1, <1>2, <1>6, <1>7, PushedKeeps
  <2> HIDE DEF p
  <2>2. asked.new_tab => p.made + 1 \in View
    BY <1>1, <1>2, <2>1
  <2>3. LET u == Branched(p, asked.new_tab, open) IN
        WellFormed(u) /\ HasActive(u) /\ InSync(u, open) /\ KeepsClients(p, u)
    BY <1>1, <2>1, <2>2, BranchedKeeps
  <2>4. win' = Branched(p, asked.new_tab, open)
    BY <1>9 DEF p
  <2> QED
    BY <1>4, <1>7, <1>9, <2>1, <2>3, <2>4 DEF TabMove, KeepsClients
<1>10. CASE /\ ShutsDown(v) /\ win' = Branched(Closed(w, w.active), asked.new_tab, open)
            /\ Forgets(v)
  <2> DEFINE c == Closed(w, w.active)
  <2>1. CanClose(w) /\ w.active \in 1..Len(w.tabs) /\ w.tabs[w.active] = v
    BY <1>2, <1>6, <1>7 DEF CanClose, HasView, HasActive, Active, v
  <2>2. /\ WellFormed(c) /\ InSync(c, open) /\ HasActive(c) /\ DropsClient(w, c, v)
        /\ c.made \in {win.made, win.made + 1}
    BY <1>1, <1>6, <1>7, <2>1, ClosedKeeps
  <2> HIDE DEF c
  <2>3. asked.new_tab => c.made + 1 \in View
    BY <1>1, <1>2, <2>2
  <2>4. LET u == Branched(c, asked.new_tab, open) IN
        WellFormed(u) /\ HasActive(u) /\ InSync(u, open) /\ KeepsClients(c, u)
    BY <1>1, <2>2, <2>3, BranchedKeeps
  <2>5. win' = Branched(c, asked.new_tab, open)
    BY <1>10 DEF c
  <2>6. DropsClient(win, win', v)
    BY <1>1, <1>7, <2>2, <2>4, <2>5 DEF KeepsClients, DropsClient
  <2>7. UNCHANGED chosen
    BY <1>10, ForgetsKeepsLooks
  <2> QED
    BY <1>1, <1>4, <1>10, <2>4, <2>5, <2>6, <2>7 DEF TabMove
<1>11. ASSUME NEW o \in BOOLEAN, win' = Branched(Synced(w, o), asked.new_tab, o), UNCHANGED told,
              chosen'.inspector_open = o
       PROVE  TabMove
  <2> DEFINE y == Synced(w, o)
  <2>1. /\ WellFormed(y) /\ InSync(y, o) /\ KeepsClients(w, y)
        /\ y.tabs = w.tabs /\ y.active = w.active /\ y.made = w.made
    BY <1>7, SyncedKeeps
  <2>2. HasActive(y) /\ (asked.new_tab => y.made + 1 \in View)
    BY <1>1, <1>2, <1>6, <1>7, <2>1 DEF HasActive
  <2> HIDE DEF y
  <2>3. LET u == Branched(y, asked.new_tab, o) IN
        WellFormed(u) /\ HasActive(u) /\ InSync(u, o) /\ KeepsClients(y, u)
    BY <1>1, <2>1, <2>2, BranchedKeeps
  <2>4. win' = Branched(y, asked.new_tab, o)
    BY <1>11 DEF y
  <2> QED
    BY <1>4, <1>7, <1>11, <2>1, <2>3, <2>4 DEF TabMove, KeepsClients
<1>12. NoFile => UNCHANGED chosen
  BY DEF NoFile, fileVars
<1> QED
  BY <1>5, <1>8, <1>9, <1>10, <1>11, <1>12, LookChosen

-----------------------------------------------------------------------------
(* The children.                                                            *)

\* A connect brings a child, and a child exits.
Connects(v) ==
  /\ HasChild /\ Client(v) = NoChild
  /\ win'.begun = win.begun + 1 /\ win'.view[v].client = win.begun + 1
  /\ \A x \in View : x # v => win'.view[x].client = win.view[x].client
  /\ running' = running \cup {win.begun + 1}
Exits(c) ==
  /\ win'.begun = win.begun
  /\ \A x \in View : win'.view[x].client = IF win.view[x].client = c THEN NoChild
                                           ELSE win.view[x].client
  /\ running' = running \ {c}

LEMMA OverlayInputMoves ==
  ASSUME TabInv, FileInv, NEW v \in View, OverlayInput(v) PROVE TabMove
<1>1. ASSUME NEW o, OnlyOver(v, o) PROVE TabMove
  BY <1>1, StayMoves DEF OnlyOver, workspaceVars, childVars, quitVars, fileVars
<1>2. CASE ChooseThemePickerItem(v)
  BY <1>2, StayMoves, LookChosen DEF ChooseThemePickerItem, workspaceVars, childVars, quitVars
<1>3. TogglePalette(v) \/ CloseThemePicker(v) \/ OpenThemePicker(v) \/ CloseCard(v) => TabMove
  BY <1>1 DEF TogglePalette, CloseThemePicker, OpenThemePicker, CloseCard
<1>4. PreviewThemePickerItem(v) => TabMove
  BY StayMoves DEF PreviewThemePickerItem, workspaceVars, childVars, quitVars, fileVars
<1>5. RunPaletteAction(v) => TabMove
  <2>1. ASSUME NEW a \in WindowAction, AskWindow(v, a), UNCHANGED <<childVars, quitVars, fileVars>>
        PROVE  TabMove
    BY <2>1, AskMoves DEF childVars, quitVars, fileVars
  <2> QED
    BY <1>1, <1>3, <2>1 DEF RunPaletteAction, ShowCard, AskForList
<1>6. Escape(v) => TabMove
  BY <1>1, <1>3 DEF Escape
<1>7. Enter(v) => TabMove
  BY <1>1, <1>2, <1>3, <1>5 DEF Enter, ConfirmListPick
<1> QED
  BY <1>3, <1>4, <1>5, <1>6, <1>7 DEF OverlayInput

LEMMA OverlayAnswerMoves ==
  ASSUME TabInv, NEW v \in View, OverlayAnswer(v) PROVE TabMove
<1>1. ASSUME NEW o, OnlyOver(v, o) PROVE TabMove
  BY <1>1, StayMoves DEF OnlyOver, workspaceVars, childVars, quitVars, fileVars
<1>2. ASSUME NEW list, ListComes(v, list) PROVE TabMove
  BY <1>1, <1>2 DEF ListComes
<1>3. CASE BranchAnswered(v)
  <2>1. UNCHANGED <<chosen, running, busy, quit, toEnd, captured, told>>
    BY <1>3 DEF BranchAnswered, childVars, quitVars, fileVars
  <2> QED
    BY <1>3, <2>1, AskMoves, StayMoves DEF BranchAnswered
<1> QED
  BY <1>2, <1>3 DEF OverlayAnswer

LEMMA ConnectMoves ==
  ASSUME TabInv, NEW v \in View, Connect(v) PROVE TabMove
<1> DEFINE s == [win.view[v] EXCEPT !.connecting = TRUE]
<1>1. /\ win \in WinState /\ win.view[v] \in ViewState
      /\ win.view[v].launcher
  BY ActiveTyped DEF WinState, Connect
<1>2. /\ s \in ViewState /\ s.inspector_open = win.view[v].inspector_open
      /\ s.client = win.view[v].client
  BY <1>1 DEF ViewState
<1>3. win' = Set(win, v, s)
  BY <1>1 DEF Connect, Set, WinState
<1>4. UNCHANGED <<chosen, running, busy, quit, toEnd, captured, told>>
  BY DEF Connect, NoFile, fileVars, childVars, NoQuitStep, quitVars
<1>5. s.client = NoChild
  BY <1>1, <1>2 DEF TabInv, WellFormed
<1> HIDE DEF s
<1>6. /\ WellFormed(Set(win, v, s)) /\ HasActive(Set(win, v, s))
      /\ InSync(Set(win, v, s), chosen.inspector_open) /\ Set(win, v, s).begun = win.begun
      /\ \A x \in View : Set(win, v, s).view[x] = IF x = v THEN s ELSE win.view[x]
  BY <1>2, <1>5, SetKeeps DEF TabInv
<1> QED
  BY <1>2, <1>3, <1>4, <1>6 DEF TabMove, KeepsClients

LEMMA TabbedIs ==
  ASSUME NEW v, Contains(win.tabs, v) PROVE Tabbed(win, v)
  BY DEF Contains, Tabbed

LEMMA ConnectedMoves ==
  ASSUME TabInv, NEW v \in View, Connected(v)
  PROVE  TabMove \/ /\ TabInv' /\ Connects(v)
                    /\ UNCHANGED <<busy, quit, toEnd, captured, told>>
<1>1. /\ win \in WinState /\ win.view[v] \in ViewState /\ win.begun \in Nat
      /\ win.view[v].connecting /\ Tabbed(win, v)
  BY ActiveTyped, TabbedIs DEF WinState, Connected
<1>2. /\ UNCHANGED <<chosen, busy, quit, toEnd, captured, told>>
      /\ Client(v) = NoChild
  BY <1>1 DEF Connected, NoFile, fileVars, NoQuitStep, quitVars, TabInv, WellFormed, Client
<1>3. CASE win' = [win EXCEPT !.view[v].connecting = FALSE] /\ UNCHANGED running
  <2> DEFINE s == [win.view[v] EXCEPT !.connecting = FALSE]
  <2>1. /\ s \in ViewState /\ s.inspector_open = win.view[v].inspector_open
        /\ s.client = NoChild
    BY <1>1, <1>2 DEF ViewState, Client
  <2>2. win' = Set(win, v, s)
    BY <1>1, <1>3 DEF Set, WinState
  <2> HIDE DEF s
  <2>3. /\ WellFormed(Set(win, v, s)) /\ HasActive(Set(win, v, s))
        /\ InSync(Set(win, v, s), chosen.inspector_open) /\ Set(win, v, s).begun = win.begun
        /\ \A x \in View : Set(win, v, s).view[x] = IF x = v THEN s ELSE win.view[x]
    BY <2>1, SetKeeps DEF TabInv
  <2> QED
    BY <1>2, <1>3, <2>1, <2>2, <2>3 DEF TabMove, KeepsClients, Client
<1>4. CASE /\ HasChild
           /\ win' = [win EXCEPT !.view[v].connecting = FALSE, !.view[v].launcher = FALSE,
                                 !.begun = @ + 1, !.view[v].client = win.begun + 1]
           /\ running' = running \cup {win.begun + 1}
  <2> DEFINE n == win.begun + 1
             s == [win.view[v] EXCEPT !.connecting = FALSE, !.launcher = FALSE, !.client = n]
             m == Set(win, v, s)
  <2>1. n \in Child
    BY <1>4 DEF HasChild
  <2>2. /\ s \in ViewState /\ s.inspector_open = win.view[v].inspector_open
        /\ s.client = n /\ ~s.connecting /\ ~s.launcher
    BY <1>1, <2>1 DEF ViewState
  <2>3. /\ win'.tabs = win.tabs /\ win'.active = win.active /\ win'.made = win.made
        /\ win'.begun = n /\ win' = [tabs |-> win'.tabs, active |-> win'.active,
                                     made |-> win'.made, begun |-> win'.begun, view |-> win'.view]
        /\ win'.view = [win.view EXCEPT ![v] = s]
    BY <1>1, <1>4 DEF WinState
  <2> HIDE DEF s
  <2>4. m.view = [win.view EXCEPT ![v] = s]
    BY <1>1 DEF Set, WinState
  <2>5. /\ WellFormed(m) /\ HasActive(m) /\ InSync(m, chosen.inspector_open)
        /\ m.tabs = win.tabs /\ m.active = win.active /\ m.made = win.made
        /\ \A x \in View : m.view[x] = IF x = v THEN s ELSE win.view[x]
    BY <1>1, <2>2, SetKeeps DEF TabInv
  <2> HIDE DEF m
  <2>6. n \in Nat
    BY <1>1
  <2> HIDE DEF n
  <2>7. win' \in WinState
    BY <2>3, <2>4, <2>5, <2>6 DEF WellFormed, WinState
  <2>8. win'.view = m.view
    BY <2>3, <2>4
  <2>9. TabInv'
    BY <1>2, <2>3, <2>5, <2>7, <2>8 DEF TabInv, WellFormed, HasActive, InSync, Tabbed
  <2>10. Connects(v)
    <3>1. /\ HasChild /\ running' = running \cup {win.begun + 1} /\ win'.begun = win.begun + 1
      BY <1>4, <2>3 DEF n
    <3>2. \A x \in View : win'.view[x] = IF x = v THEN s ELSE win.view[x]
      BY <2>5, <2>8
    <3>3. s.client = win.begun + 1
      BY <2>2 DEF n
    <3>4. win'.view[v].client = win.begun + 1
      BY <3>2, <3>3
    <3>5. \A x \in View : x # v => win'.view[x].client = win.view[x].client
      BY <3>2
    <3> QED
      BY <1>2, <3>1, <3>4, <3>5 DEF Connects
  <2> QED
    BY <1>2, <2>9, <2>10
<1> QED
  BY <1>3, <1>4 DEF Connected

LEMMA ExitMoves ==
  ASSUME TabInv, NEW c \in Child, ChildExits(c)
  PROVE  TabInv' /\ Exits(c) /\ UNCHANGED <<quit, toEnd, captured, told>>
<1>1. PICK again \in BOOLEAN :
        win' = [win EXCEPT !.view = [v \in View |->
                 IF win.view[v].client = c
                 THEN [win.view[v] EXCEPT !.client = NoChild, !.connecting = again]
                 ELSE win.view[v]]]
  BY DEF ChildExits
<1> DEFINE view == [v \in View |-> IF win.view[v].client = c
                 THEN [win.view[v] EXCEPT !.client = NoChild, !.connecting = again]
                 ELSE win.view[v]]
<1>2. win \in WinState /\ win.view \in [View -> ViewState]
  BY ActiveTyped DEF WinState
<1>3. ASSUME NEW x \in View
      PROVE  /\ view[x] \in ViewState /\ view[x].inspector_open = win.view[x].inspector_open
             /\ view[x].client = IF win.view[x].client = c THEN NoChild ELSE win.view[x].client
             /\ view[x].client # NoChild => view[x] = win.view[x]
  <2>1. win.view[x] \in ViewState
    BY <1>2
  <2> QED
    BY <2>1 DEF ViewState
<1>4. win' = [win EXCEPT !.view = view] /\ view \in [View -> ViewState]
  BY <1>1, <1>3
<1> HIDE DEF view
<1>5. /\ win' \in WinState /\ win'.tabs = win.tabs /\ win'.active = win.active
      /\ win'.made = win.made /\ win'.begun = win.begun /\ win'.view = view
  BY <1>2, <1>4 DEF WinState
<1>6. \A x \in View : win'.view[x].client # NoChild
        => Tabbed(win, x) /\ ~win'.view[x].connecting /\ ~win'.view[x].launcher
  BY <1>3, <1>5, ClientsAreTabs DEF TabInv
<1>7. WellFormed(win') /\ HasActive(win') /\ InSync(win', chosen.inspector_open)
  BY <1>3, <1>5, <1>6, TabsKept DEF TabInv
<1>8. UNCHANGED <<chosen, quit, toEnd, captured, told>> /\ running' = running \ {c}
  BY DEF ChildExits, NoQuitStep, quitVars, NoFile, fileVars
<1> QED
  BY <1>3, <1>5, <1>7, <1>8 DEF TabInv, Exits

\* The window as a process finds it when it starts.
FirstWin(open) ==
  [tabs |-> <<1>>, active |-> 1, made |-> 1, begun |-> 0,
   view |-> [v \in View |-> [NewView EXCEPT !.inspector_open = v = 1 /\ open]]]

LEMMA FirstWinTyped ==
  ASSUME NEW open \in BOOLEAN, NEW w, w = FirstWin(open)
  PROVE  /\ WellFormed(w) /\ HasActive(w) /\ InSync(w, open)
         /\ \A v \in View : w.view[v].client = NoChild
<1>1. 1 \in View
  <2>1. Cardinality(View) \in Nat /\ View = 1..Cardinality(View) /\ View # {}
    BY WorkspaceAssumption, FS_CardinalityType
  <2> QED
    BY <2>1
<1> DEFINE view == [v \in View |-> [NewView EXCEPT !.inspector_open = v = 1 /\ open]]
<1>2. ASSUME NEW v \in View
      PROVE  /\ view[v] \in ViewState /\ view[v].client = NoChild
             /\ v = 1 => view[v].inspector_open = open
  <2>1. NewView \in ViewState /\ NewView.client = NoChild
    BY NewViewsTyped
  <2> QED
    BY <2>1 DEF ViewState
<1>3. view \in [View -> ViewState]
  BY <1>2
<1>4. w = [tabs |-> <<1>>, active |-> 1, made |-> 1, begun |-> 0, view |-> view]
  BY DEF FirstWin
<1> HIDE DEF view
<1>5. /\ w.tabs = <<1>> /\ w.active = 1 /\ w.made = 1 /\ w.view = view
      /\ <<1>> \in Seq(View) /\ Len(<<1>>) = 1 /\ \A i \in 1..1 : <<1>>[i] = 1
  BY <1>1, <1>4
<1>6. w \in WinState
  BY <1>3, <1>4, <1>5 DEF WinState
<1> QED
  BY <1>1, <1>2, <1>5, <1>6 DEF WellFormed, HasActive, InSync, Tabbed

\* Quitting, and what is none of the window's business.
QuitMove ==
  /\ UNCHANGED <<win, running, chosen>>
  /\ quit \in {"no", "asked", "going"}
  /\ ShouldClose \/ CancelPendingQuit \/ ConfirmPendingQuit \/ QuitStep \/ ProcessEnds
AsideMove == UNCHANGED <<win, running, chosen, quit, toEnd, captured, told>>

LEMMA RelaunchKeepsTabs ==
  ASSUME FileInv, Relaunch
  PROVE  /\ TabInv' /\ running' = {} /\ quit' = "no" /\ toEnd' = <<>> /\ captured' = {} /\ told' = {}
         /\ \A v \in View : win'.view[v].client = NoChild
<1>1. chosen'.inspector_open \in BOOLEAN
  BY LoadsUi DEF Relaunch, PersistenceRestart, Ui
<1>2. win' = FirstWin(chosen'.inspector_open)
  BY DEF Relaunch, FirstWindow, FirstWin
<1> QED
  BY <1>1, <1>2, FirstWinTyped DEF TabInv, Relaunch, FirstWindow

LEMMA NextMovesTabs ==
  ASSUME TabInv, FileInv, [Next]_windowVars
  PROVE  /\ TabInv'
         /\ \/ TabMove
            \/ \E v \in View : Connects(v) /\ UNCHANGED <<quit, toEnd, captured, told>>
            \/ \E c \in Child : Exits(c) /\ UNCHANGED <<quit, toEnd, captured, told>>
            \/ QuitMove \/ AsideMove \/ Relaunch
<1> DEFINE Goal == /\ TabInv'
         /\ \/ TabMove
            \/ \E v \in View : Connects(v) /\ UNCHANGED <<quit, toEnd, captured, told>>
            \/ \E c \in Child : Exits(c) /\ UNCHANGED <<quit, toEnd, captured, told>>
            \/ QuitMove \/ AsideMove \/ Relaunch
<1>a. TabMove => Goal
  BY DEF TabMove, TabInv
<1>b. (QuitMove \/ AsideMove) => Goal
  BY DEF QuitMove, AsideMove, TabInv
<1>1. CASE TabInput
  <2>1. ASSUME NEW a, RunWindowAction(a) PROVE TabMove
    BY <2>1, WindowActionMoves
  <2>2. AddSessionForCwd => TabMove
    BY PushMoves DEF AddSessionForCwd, childVars, NoQuitStep, quitVars, NoFile, fileVars
  <2>3. ASSUME NEW i \in 1..Len(win.tabs), CloseSessionAt(i) PROVE TabMove
    BY <2>3, CloseMoves
  <2>4. ASSUME NEW i \in 1..Len(win.tabs), SelectSession(i) PROVE TabMove
    BY <2>4, SelectMoves DEF SelectSession, childVars, NoQuitStep, quitVars, NoFile, fileVars
  <2>5. ASSUME NEW w, Choose("widths", w), UNCHANGED <<win, childVars, quitVars>> PROVE TabMove
    BY <2>5, StayMoves, LookChosen DEF childVars, quitVars
  <2>6. EndSidebarResize => TabMove
    BY <2>5 DEF EndSidebarResize, NoQuitStep
  <2>7. ASSUME NEW v \in View, ReturnToLauncher(v) PROVE TabMove
    BY <2>7, ReturnMoves
  <2> QED
    BY <1>1, <1>a, <2>1, <2>2, <2>3, <2>4, <2>6, <2>7 DEF TabInput
<1>2. CASE SessionInput
  BY <1>2, <1>a, ActiveTyped, OverlayInputMoves DEF SessionInput
<1>3. CASE Paint
  BY <1>3, <1>a, RenderMoves DEF Paint
<1>4. CASE SessionStep
  <2>1. ASSUME NEW v \in View, Connected(v) PROVE Goal
    BY <2>1, <1>a, ConnectedMoves
  <2> QED
    BY <1>4, <1>a, <2>1, ConnectMoves, OverlayAnswerMoves DEF SessionStep
<1>5. CASE Beside
  <2>1. ASSUME NEW c, Turn(c) PROVE AsideMove
    BY <2>1 DEF Turn, AsideMove, NoQuitStep, quitVars, NoFile, fileVars
  <2>2. ASSUME NEW t, ConnectThreadSaves(t) PROVE AsideMove
    BY <2>2 DEF ConnectThreadSaves, AsideMove, NoQuitStep, quitVars, childVars
  <2>3. FileStep => UNCHANGED chosen
    BY DEF FileStep, LoadFile, WriteTemporary, Rename, FallBack, Fill
  <2>4. FileStep /\ UNCHANGED workspaceVars => AsideMove
    BY <2>3 DEF AsideMove, workspaceVars, quitVars, childVars
  <2> QED
    BY <1>5, <1>b, <2>1, <2>2, <2>4 DEF Beside
<1>6. CASE Exit
  BY <1>6, ExitMoves DEF Exit
<1>7. CASE Quitting \/ QuitTask \/ End
  <2>1. QuitMove
    BY <1>7 DEF Quitting, QuitTask, End, Ready, QuitMove, ShouldClose, CancelPendingQuit,
                ConfirmPendingQuit, QuitStep, ProcessEnds, childVars, NoFile, fileVars
  <2> QED
    BY <1>b, <2>1
<1>8. CASE Start
  BY <1>8, RelaunchKeepsTabs DEF Start
<1>9. CASE \E i \in 1..Len(win.tabs) : RenameSessionAt(i)
  BY <1>9, <1>a, SelectMoves DEF RenameSessionAt, childVars, quitVars, fileVars
<1>10. CASE UNCHANGED windowVars
  BY <1>10, <1>b DEF windowVars, workspaceVars, quitVars, childVars, fileVars, AsideMove
<1> QED
  BY <1>1, <1>2, <1>3, <1>4, <1>5, <1>6, <1>7, <1>8, <1>9, <1>10 DEF Next

-----------------------------------------------------------------------------
(* Numbers in their order: a finite set of them has one, and it leaves none *)
(* out.  By the least size a set without one could have.                    *)

LEMMA LeastNumber ==
  ASSUME NEW S \in SUBSET Nat, S # {}
  PROVE  \E m \in S : \A y \in S : m <= y
<1>1. PICK x \in S : \A y \in S : ~(<<y, x>> \in OpToRel(<, Nat))
  BY NatLessThanWellFounded, WFMin
<1>2. ASSUME NEW y \in S, y < x PROVE FALSE
  <2>1. <<y, x>> \in Nat \X Nat /\ <<y, x>>[1] < <<y, x>>[2]
    BY <1>2
  <2>2. <<y, x>> \in {p \in Nat \X Nat : p[1] < p[2]}
    BY <2>1
  <2> QED
    BY <1>1, <2>2 DEF OpToRel
<1> QED
  BY <1>2

LEMMA LargestNumber ==
  ASSUME NEW n \in Nat, NEW S \in SUBSET (1..n), S # {}
  PROVE  \E m \in S : \A y \in S : y <= m
<1> DEFINE T == {n - x : x \in S}
<1>1. T \in SUBSET Nat /\ T # {}
  <2>1. \A x \in 1..n : n - x \in Nat
    OBVIOUS
  <2>2. \A x \in S : n - x \in Nat
    BY <2>1
  <2> QED
    BY <2>2
<1>2. PICK k \in T : \A y \in T : k <= y
  BY <1>1, LeastNumber
<1>3. PICK m \in S : k = n - m
  OBVIOUS
<1>4. ASSUME NEW y \in S PROVE y <= m
  <2>1. n - m <= n - y
    BY <1>2, <1>3
  <2> QED
    BY <2>1
<1> QED
  BY <1>4

Enumerates(s, S) == /\ s \in [1..Cardinality(S) -> S]
                    /\ \A i, j \in DOMAIN s : i < j => s[i] < s[j]

LEMMA OneMoreEnumerated ==
  ASSUME NEW n \in Nat, NEW S \in SUBSET (1..n), IsFiniteSet(S), NEW m \in S,
         \A y \in S : y <= m, NEW t, Enumerates(t, S \ {m})
  PROVE  \E s : Enumerates(s, S)
<1> DEFINE c == Cardinality(S)
           s == [i \in 1..c |-> IF i < c THEN t[i] ELSE m]
<1>1. Cardinality(S \ {m}) = c - 1 /\ c \in Nat /\ Cardinality(S \ {m}) \in Nat
  BY FS_RemoveElement, FS_CardinalityType
<1>a. \A x \in S : x \in Nat
  <2>1. \A x \in 1..n : x \in Nat
    OBVIOUS
  <2> QED
    BY <2>1
<1>2. DOMAIN t = 1..c - 1 /\ \A i \in 1..c - 1 : t[i] \in S /\ t[i] # m
  BY <1>1 DEF Enumerates
<1> HIDE DEF c
<1>3. \A i \in 1..c : (i \in 1..c - 1 /\ i < c) \/ (i = c /\ ~(i < c))
  BY <1>1
<1>4. s \in [1..c -> S]
  BY <1>2, <1>3
<1>5. ASSUME NEW i \in 1..c, NEW j \in 1..c, i < j PROVE s[i] < s[j]
  <2>1. i \in 1..c - 1 /\ s[i] = t[i] /\ t[i] \in S /\ t[i] # m
    BY <1>1, <1>2, <1>3, <1>5
  <2>2. CASE j = c
    <3>1. s[j] = m
      BY <1>1, <2>2
    <3>2. t[i] \in Nat /\ m \in Nat /\ t[i] <= m
      BY <1>a, <2>1
    <3> QED
      BY <2>1, <3>1, <3>2
  <2>3. CASE j \in 1..c - 1
    <3>1. s[j] = t[j]
      BY <1>1, <2>3
    <3>2. t[i] < t[j]
      BY <1>2, <1>5, <2>1, <2>3 DEF Enumerates
    <3> QED
      BY <2>1, <3>1, <3>2
  <2> QED
    BY <1>3, <2>2, <2>3
<1>6. DOMAIN s = 1..c
  OBVIOUS
<1> HIDE DEF s
<1>7. Enumerates(s, S)
  BY <1>4, <1>5, <1>6 DEF Enumerates, c
<1> QED
  BY <1>7

LEMMA NumbersEnumerated ==
  ASSUME NEW n \in Nat, NEW S \in SUBSET (1..n)
  PROVE  \E s : Enumerates(s, S)
<1> DEFINE Without(T) == T \in SUBSET (1..n) /\ ~\E s : Enumerates(s, T)
           sizes == {Cardinality(T) : T \in {T \in SUBSET (1..n) : Without(T)}}
<1>1. \A T \in SUBSET (1..n) : IsFiniteSet(T) /\ Cardinality(T) \in Nat
  <2>1. IsFiniteSet(1..n)
    BY FS_Interval
  <2> QED
    BY <2>1, FS_Subset, FS_CardinalityType
<1>2. ASSUME sizes # {} PROVE FALSE
  <2>1. sizes \in SUBSET Nat
    BY <1>1
  <2>2. PICK k \in sizes : \A y \in sizes : k <= y
    BY <1>2, <2>1, LeastNumber
  <2>3. PICK T \in SUBSET (1..n) : Without(T) /\ k = Cardinality(T)
    OBVIOUS
  <2>4. CASE T = {}
    <3>1. Cardinality(T) = 0
      BY <2>4, FS_EmptySet
    <3> DEFINE e == [i \in 1..0 |-> 0]
    <3>2. e \in [1..0 -> T] /\ DOMAIN e = 1..0
      OBVIOUS
    <3>3. Enumerates(e, T)
      BY <3>1, <3>2 DEF Enumerates
    <3> QED
      BY <2>3, <3>3
  <2>5. CASE T # {}
    <3>1. PICK m \in T : \A y \in T : y <= m
      BY <2>5, LargestNumber
    <3>2. Cardinality(T \ {m}) = Cardinality(T) - 1
      BY <1>1, FS_RemoveElement
    <3>3. T \ {m} \in SUBSET (1..n)
      OBVIOUS
    <3>4. CASE \E t : Enumerates(t, T \ {m})
      <4>1. \E s : Enumerates(s, T)
        BY <1>1, <3>1, <3>4, OneMoreEnumerated
      <4> QED
        BY <2>3, <4>1
    <3>5. CASE ~\E t : Enumerates(t, T \ {m})
      <4>1. Cardinality(T \ {m}) \in sizes
        BY <3>3, <3>5
      <4>2. Cardinality(T) <= Cardinality(T) - 1
        BY <2>2, <2>3, <3>2, <4>1
      <4> QED
        BY <1>1, <4>2
    <3> QED
      BY <3>4, <3>5
  <2> QED
    BY <2>4, <2>5
<1> QED
  BY <1>2

LEMMA InOrderLeavesNoneOut ==
  ASSUME NEW n \in Nat, NEW S \in SUBSET (1..n)
  PROVE  /\ InOrder(S) \in [1..Cardinality(S) -> S] /\ Cardinality(S) \in Nat
         /\ \A x \in S : \E k \in 1..Cardinality(S) : InOrder(S)[k] = x
<1> DEFINE s == InOrder(S)
           c == Cardinality(S)
<1>1. IsFiniteSet(S) /\ c \in Nat
  <2>1. IsFiniteSet(1..n)
    BY FS_Interval
  <2> QED
    BY <2>1, FS_Subset, FS_CardinalityType
<1>2. \E e \in [1..c -> S] : \A i, j \in DOMAIN e : i < j => e[i] < e[j]
  BY NumbersEnumerated DEF Enumerates
<1>3. s \in [1..c -> S] /\ \A i, j \in DOMAIN s : i < j => s[i] < s[j]
  BY <1>2 DEF InOrder
<1> HIDE DEF s, c
<1>a. \A x \in S : x \in Nat
  <2>1. \A x \in 1..n : x \in Nat
    OBVIOUS
  <2> QED
    BY <2>1
<1>4. ASSUME NEW i \in 1..c, NEW j \in 1..c, s[i] = s[j] PROVE i = j
  <2>3. s[i] \in S
    BY <1>3
  <2>1. ~(s[i] < s[j]) /\ ~(s[j] < s[i])
    <3>1. s[i] \in Nat
      BY <1>a, <2>3
    <3>2. \A x \in Nat : ~(x < x)
      OBVIOUS
    <3> QED
      BY <1>4, <3>1, <3>2
  <2>2. ~(i < j) /\ ~(j < i)
    BY <1>3, <2>1
  <2> QED
    BY <1>1, <2>2
<1>5. s \in Injection(1..c, S)
  BY <1>3, <1>4 DEF Injection, IsInjective
<1>6. Cardinality(1..c) = c
  BY <1>1, FS_Interval
<1>7. s \in Surjection(1..c, S)
  BY <1>1, <1>5, <1>6, FS_Injection DEF c
<1> QED
  BY <1>1, <1>3, <1>7 DEF Surjection, s, c

-----------------------------------------------------------------------------
(* No child is left behind.                                                 *)

LEMMA ClientTyped ==
  ASSUME TabInv
  PROVE  /\ win.begun \in Nat
         /\ \A v \in View : Client(v) \in Child \cup {NoChild}
         /\ NoChild \notin Child
<1>1. win \in WinState
  BY ActiveTyped
<1> QED
  BY <1>1, WorkspaceAssumption DEF WinState, ViewState, Client

LEMMA HeldTyped ==
  ASSUME TabInv
  PROVE  /\ HeldTabs \in SUBSET (1..Len(win.tabs)) /\ Len(win.tabs) \in Nat
         /\ \A i \in HeldTabs : /\ TabClient(i) \in Child
                                /\ \E v \in View : Client(v) = TabClient(i)
         /\ \A v \in View : Client(v) # NoChild => Client(v) \in HeldClients
<1>1. win \in WinState /\ \A i \in 1..Len(win.tabs) : win.tabs[i] \in View
  BY ActiveTyped
<1>2. Len(win.tabs) \in Nat
  BY <1>1 DEF WinState
<1>3. ASSUME NEW i \in HeldTabs
      PROVE  TabClient(i) \in Child /\ \E v \in View : Client(v) = TabClient(i)
  <2>1. win.tabs[i] \in View /\ TabClient(i) # NoChild /\ TabClient(i) = Client(win.tabs[i])
    BY <1>1, <1>3 DEF HeldTabs, TabClient, Client
  <2> QED
    BY <2>1, ClientTyped
<1>4. ASSUME NEW v \in View, Client(v) # NoChild PROVE Client(v) \in HeldClients
  <2>1. Tabbed(win, v)
    BY <1>4, ClientsAreTabs DEF TabInv, Client
  <2>2. PICK i \in 1..Len(win.tabs) : win.tabs[i] = v
    BY <2>1 DEF Tabbed
  <2>3. i \in HeldTabs /\ TabClient(i) = Client(v)
    BY <1>4, <2>2 DEF HeldTabs, TabClient, Client
  <2> QED
    BY <2>3 DEF HeldClients
<1> QED
  BY <1>2, <1>3, <1>4 DEF HeldTabs

\* A confirmed quit sets out to end the client of every tab.
LEMMA ClientsToEndTyped ==
  ASSUME TabInv
  PROVE  /\ ClientsToEnd \in Seq([child : Child, abort : BOOLEAN])
         /\ {ClientsToEnd[k].child : k \in 1..Len(ClientsToEnd)} = HeldClients
<1> DEFINE s == InOrder(HeldTabs)
           n == Cardinality(HeldTabs)
           q == [k \in 1..n |-> [child |-> TabClient(s[k]), abort |-> TabClient(s[k]) \in busy]]
<1>1. /\ s \in [1..n -> HeldTabs] /\ n \in Nat
      /\ \A x \in HeldTabs : \E k \in 1..n : s[k] = x
  BY HeldTyped, InOrderLeavesNoneOut
<1>2. ClientsToEnd = q
  <2>1. DOMAIN s = 1..n
    BY <1>1
  <2> QED
    BY <2>1 DEF ClientsToEnd
<1> HIDE DEF s, n
<1>3. ASSUME NEW k \in 1..n
      PROVE  [child |-> TabClient(s[k]), abort |-> TabClient(s[k]) \in busy] \in [child : Child, abort : BOOLEAN]
  <2>1. TabClient(s[k]) \in Child
    BY <1>1, HeldTyped
  <2> QED
    BY <2>1
<1>4. q \in Seq([child : Child, abort : BOOLEAN]) /\ Len(q) = n
  BY <1>1, <1>3
<1>5. \A k \in 1..n : q[k].child = TabClient(s[k])
  OBVIOUS
<1> HIDE DEF q
<1>6. {q[k].child : k \in 1..n} = HeldClients
  <2>1. ASSUME NEW k \in 1..n PROVE q[k].child \in HeldClients
    BY <1>1, <1>5 DEF HeldClients
  <2>2. ASSUME NEW i \in HeldTabs PROVE \E k \in 1..n : TabClient(i) = q[k].child
    BY <1>1, <1>5
  <2> QED
    BY <2>1, <2>2 DEF HeldClients
<1> QED
  BY <1>2, <1>4, <1>6

LEMMA TabMoveKeepsChildren ==
  ASSUME TabInv, ChildInv, QuitInv, TabMove PROVE ChildInv' /\ QuitInv'
<1>1. /\ UNCHANGED <<running, quit, toEnd, captured>> /\ win'.begun = win.begun
      /\ ToEnd' = ToEnd
  BY DEF TabMove, KeepsClients, DropsClient, ToEnd
<1>2. told \subseteq told'
  BY DEF TabMove, ShutsDown
<1>3. QuitInv'
  BY <1>1, <1>2 DEF QuitInv, ChildrenToldToEnd
<1>4. CASE KeepsClients(win, win') /\ UNCHANGED told
  <2>1. \A v \in View : Client(v)' = Client(v)
    BY <1>4 DEF KeepsClients, Client
  <2> QED
    BY <1>1, <1>3, <1>4, <2>1 DEF ChildInv
<1>5. ASSUME NEW v \in View, DropsClient(win, win', v), ShutsDown(v) PROVE ChildInv'
  <2>1. /\ Client(v)' = NoChild /\ \A x \in View : x # v => Client(x)' = Client(x)
        /\ told' = IF Client(v) = NoChild THEN told ELSE told \cup {Client(v)}
    BY <1>5 DEF DropsClient, ShutsDown, Client
  <2>2. \A u, x \in View : u # x => Client(u)' # Client(x)' \/ Client(u)' = NoChild
    BY <2>1 DEF ChildInv
  <2>3. \A x \in View : Client(x)' # NoChild => Client(x)' <= win'.begun
    BY <1>1, <2>1 DEF ChildInv
  <2>4. \A c \in told' : c \in Child /\ c <= win'.begun
    BY <1>1, <2>1, ClientTyped DEF ChildInv
  <2>5. \A c \in running : c \in told' \/ \E x \in View : Client(x)' = c
    BY <2>1, ClientTyped DEF ChildInv
  <2>6. quit \in {"no", "asked"} => \A x \in View : Client(x)' \notin told'
    BY <2>1, ClientTyped DEF ChildInv
  <2> QED
    BY <1>1, <2>2, <2>3, <2>4, <2>5, <2>6 DEF ChildInv
<1> QED
  BY <1>3, <1>4, <1>5 DEF TabMove

LEMMA ConnectKeepsChildren ==
  ASSUME TabInv, ChildInv, QuitInv, NEW v \in View, Connects(v),
         UNCHANGED <<quit, toEnd, captured, told>>
  PROVE  ChildInv' /\ QuitInv'
<1> DEFINE n == win.begun + 1
<1>1. /\ n \in Child /\ Client(v) = NoChild /\ win'.begun = n /\ Client(v)' = n
      /\ \A x \in View : x # v => Client(x)' = Client(x)
      /\ running' = running \cup {n}
  BY DEF Connects, HasChild, Client
<1>2. /\ n \in Nat /\ n # NoChild /\ Child \subseteq Nat
      /\ \A c \in Child : c <= win.begun => c < n /\ c <= n /\ c # n
  <2>1. win.begun \in Nat /\ n \in Nat /\ n # NoChild /\ \A c \in Child : c \in Nat
    BY <1>1, ClientTyped, ViewsAreNumbers
  <2>2. \A c \in Nat : c <= win.begun => c < n /\ c <= n /\ c # n
    BY <2>1
  <2> QED
    BY <2>1, <2>2
<1>a. n <= n
  BY <1>2
<1> HIDE DEF n
<1>3. \A x \in View : Client(x) # n
  BY <1>1, <1>2, ClientTyped DEF ChildInv
<1>4. \A u, x \in View : u # x => Client(u)' # Client(x)' \/ Client(u)' = NoChild
  BY <1>1, <1>3 DEF ChildInv
<1>5. \A x \in View : Client(x)' # NoChild => Client(x)' <= n
  <2>1. ASSUME NEW x \in View, x # v, Client(x) # NoChild PROVE Client(x) <= n
    BY <1>2, <2>1, ClientTyped DEF ChildInv
  <2> QED
    BY <1>1, <1>a, <2>1
<1>6. \A c \in running' \cup told \cup captured \cup ToEnd : c \in Child /\ c <= n
  <2>1. ASSUME NEW c \in running \cup told \cup captured \cup ToEnd PROVE c \in Child /\ c <= n
    BY <1>2, <2>1 DEF ChildInv
  <2> QED
    BY <1>1, <1>a, <2>1
<1>7. \A c \in running' : c \in told \/ \E x \in View : Client(x)' = c
  BY <1>1, ClientTyped DEF ChildInv
<1>8. quit \in {"no", "asked"} => \A x \in View : Client(x)' \notin told
  BY <1>1, <1>2 DEF ChildInv
<1>9. ToEnd' = ToEnd
  BY DEF ToEnd
<1>10. ChildInv'
  BY <1>1, <1>4, <1>5, <1>6, <1>7, <1>8, <1>9 DEF ChildInv
<1>11. n \notin captured
  BY <1>2 DEF ChildInv
<1>12. QuitInv'
  BY <1>1, <1>11 DEF QuitInv, ChildrenToldToEnd
<1> QED
  BY <1>10, <1>12

LEMMA ExitKeepsChildren ==
  ASSUME TabInv, ChildInv, QuitInv, NEW c \in Child, Exits(c),
         UNCHANGED <<quit, toEnd, captured, told>>
  PROVE  ChildInv' /\ QuitInv'
<1>1. /\ win'.begun = win.begun /\ running' = running \ {c} /\ ToEnd' = ToEnd
      /\ \A x \in View : Client(x)' = IF Client(x) = c THEN NoChild ELSE Client(x)
  BY DEF Exits, Client, ToEnd
<1>2. NoChild \notin told
  BY ClientTyped DEF ChildInv
<1>3. \A d \in running' : d \in told \/ \E x \in View : Client(x)' = d
  BY <1>1 DEF ChildInv
<1>4. \A u, x \in View : u # x => Client(u)' # Client(x)' \/ Client(u)' = NoChild
  BY <1>1 DEF ChildInv
<1>5. ChildInv'
  BY <1>1, <1>2, <1>3, <1>4 DEF ChildInv
<1>6. QuitInv'
  BY <1>1 DEF QuitInv, ChildrenToldToEnd
<1> QED
  BY <1>5, <1>6

\* A step of the quit: its first child is aborted first, or told.
LEMMA QuitStepKeepsChildren ==
  ASSUME TabInv, ChildInv, QuitInv, QuitStep, UNCHANGED <<win, running>>
  PROVE  ChildInv' /\ QuitInv'
<1> DEFINE Ending == [child : Child, abort : BOOLEAN]
<1>1. /\ UNCHANGED captured /\ quit = "going" /\ toEnd \in Seq(Ending) /\ quit' \in {"going", "done"}
      /\ \A v \in View : Client(v)' = Client(v)
  BY DEF QuitStep, QuitInv, Client
<1>2. CASE toEnd = <<>> /\ quit' = "done" /\ UNCHANGED <<toEnd, told>>
  <2>1. ToEnd' = ToEnd
    BY <1>2 DEF ToEnd
  <2> QED
    BY <1>1, <1>2, <2>1 DEF ChildInv, QuitInv, ChildrenToldToEnd
<1>3. CASE toEnd # <<>> /\ toEnd' = [toEnd EXCEPT ![1].abort = FALSE] /\ UNCHANGED <<quit, told>>
  <2>1. Len(toEnd) \in Nat \ {0} /\ toEnd[1] \in Ending
    <3>1. Len(toEnd) \in Nat \ {0}
      BY <1>1, <1>3, EmptySeq
    <3>2. 1 \in 1..Len(toEnd)
      BY <3>1
    <3> QED
      BY <1>1, <3>1, <3>2, ElementOfSeq
  <2>2. [toEnd[1] EXCEPT !.abort = FALSE] \in Ending
        /\ [toEnd[1] EXCEPT !.abort = FALSE].child = toEnd[1].child
    BY <2>1
  <2>3. toEnd' = [toEnd EXCEPT ![1] = [toEnd[1] EXCEPT !.abort = FALSE]]
    BY <1>3
  <2>4. /\ toEnd' \in Seq(Ending) /\ Len(toEnd') = Len(toEnd)
        /\ \A i \in 1..Len(toEnd) : toEnd'[i].child = toEnd[i].child
    BY <1>1, <2>1, <2>2, <2>3
  <2>5. ToEnd' = ToEnd
    BY <2>4 DEF ToEnd
  <2>6. QuitInv'
    BY <1>1, <1>3, <2>4, <2>5 DEF QuitInv, ChildrenToldToEnd, ToEnd
  <2> QED
    BY <1>1, <1>3, <2>5, <2>6 DEF ChildInv
<1>4. CASE /\ toEnd # <<>> /\ told' = told \cup {Head(toEnd).child} /\ toEnd' = Tail(toEnd)
           /\ UNCHANGED quit
  <2>1. /\ Len(toEnd) \in Nat \ {0} /\ Head(toEnd) = toEnd[1] /\ toEnd' \in Seq(Ending)
        /\ Len(toEnd') = Len(toEnd) - 1
        /\ \A i \in 1..Len(toEnd) - 1 : toEnd'[i] = toEnd[i + 1]
    BY <1>1, <1>4, EmptySeq
  <2>2. Head(toEnd).child \in ToEnd
    BY <2>1 DEF ToEnd
  <2>3. ToEnd' \subseteq ToEnd
    <3>1. \A i \in 1..Len(toEnd) - 1 : i + 1 \in 1..Len(toEnd)
      BY <2>1
    <3> QED
      BY <2>1, <3>1 DEF ToEnd
  <2>4. ASSUME NEW c \in ToEnd PROVE c \in ToEnd' \/ c \in told'
    <3>1. PICK i \in 1..Len(toEnd) : c = toEnd[i].child
      BY <2>4 DEF ToEnd
    <3>2. CASE i = 1
      BY <1>4, <2>1, <3>1, <3>2
    <3>3. CASE i # 1
      <4>1. i - 1 \in 1..Len(toEnd) - 1 /\ (i - 1) + 1 = i
        BY <2>1, <3>3
      <4> QED
        BY <2>1, <3>1, <4>1 DEF ToEnd
    <3> QED
      BY <3>2, <3>3
  <2>5. ChildInv'
    BY <1>1, <1>4, <2>2, <2>3 DEF ChildInv
  <2>6. QuitInv'
    BY <1>1, <1>4, <2>1, <2>4 DEF QuitInv, ChildrenToldToEnd, ToEnd
  <2> QED
    BY <2>5, <2>6
<1> QED
  BY <1>2, <1>3, <1>4 DEF QuitStep

LEMMA QuitKeepsChildren ==
  ASSUME TabInv, ChildInv, QuitInv, QuitMove PROVE ChildInv' /\ QuitInv'
<1>1. UNCHANGED <<win, running>> /\ quit \in {"no", "asked", "going"}
      /\ \A v \in View : Client(v)' = Client(v)
  BY DEF QuitMove, Client
<1>2. CASE ConfirmPendingQuit
  <2>1. /\ quit = "asked" /\ quit' = "going" /\ toEnd' = ClientsToEnd /\ captured' = HeldClients
        /\ UNCHANGED told
    BY <1>2 DEF ConfirmPendingQuit
  <2>2. /\ toEnd' \in Seq([child : Child, abort : BOOLEAN]) /\ ToEnd' = HeldClients
    BY <2>1, ClientsToEndTyped DEF ToEnd
  <2>3. \A c \in HeldClients : c \in Child /\ c <= win.begun
    BY HeldTyped, ClientTyped DEF HeldClients, ChildInv
  <2>4. ChildInv'
    BY <1>1, <2>1, <2>2, <2>3 DEF ChildInv
  <2>5. QuitInv'
    BY <2>1, <2>2 DEF QuitInv, ChildrenToldToEnd, ToEnd
  <2> QED
    BY <2>4, <2>5
<1>3. CASE ShouldClose \/ CancelPendingQuit \/ ProcessEnds
  <2>1. UNCHANGED <<toEnd, captured, told>> /\ quit' \in {"no", "asked", "over"}
        /\ (quit' \in {"no", "asked"} => quit \in {"no", "asked"})
    BY <1>1, <1>3 DEF ShouldClose, CancelPendingQuit, ProcessEnds
  <2>2. ToEnd' = ToEnd
    BY <2>1 DEF ToEnd
  <2> QED
    BY <1>1, <2>1, <2>2 DEF ChildInv, QuitInv, ChildrenToldToEnd
<1> QED
  BY <1>1, <1>2, <1>3, QuitStepKeepsChildren DEF QuitMove

LEMMA RelaunchKeepsChildren ==
  ASSUME FileInv, Relaunch PROVE ChildInv' /\ QuitInv'
<1>1. /\ running' = {} /\ quit' = "no" /\ toEnd' = <<>> /\ captured' = {} /\ told' = {}
      /\ \A v \in View : Client(v)' = NoChild
  BY RelaunchKeepsTabs DEF Client
<1>2. ToEnd' = {}
  BY <1>1 DEF ToEnd
<1> QED
  BY <1>1, <1>2 DEF ChildInv, QuitInv, ChildrenToldToEnd

LEMMA NextKeepsChildren ==
  ASSUME TabInv, FileInv, ChildInv, QuitInv, [Next]_windowVars PROVE ChildInv' /\ QuitInv'
<1>1. CASE AsideMove
  <2>1. \A v \in View : Client(v)' = Client(v)
    BY <1>1 DEF AsideMove, Client
  <2> QED
    BY <1>1, <2>1 DEF AsideMove, ChildInv, QuitInv, ChildrenToldToEnd, ToEnd
<1> QED
  BY <1>1, NextMovesTabs, TabMoveKeepsChildren, ConnectKeepsChildren, ExitKeepsChildren,
     QuitKeepsChildren, RelaunchKeepsChildren

LEMMA ChildInvMeansInSync ==
  ASSUME TabInv, ChildInv PROVE TabsInSync
<1>1. /\ win.active \in 1..Len(win.tabs)
      /\ \A i \in 1..Len(win.tabs) : win.view[win.tabs[i]].inspector_open = chosen.inspector_open
  BY DEF TabInv, HasActive, InSync
<1>2. running \subseteq told \cup HeldClients
  <2>1. ASSUME NEW c \in running, c \notin told PROVE c \in HeldClients
    <3>1. PICK v \in View : Client(v) = c
      BY <2>1 DEF ChildInv
    <3>2. Client(v) # NoChild
      BY <2>1, <3>1, ClientTyped DEF ChildInv
    <3> QED
      BY <3>1, <3>2, HeldTyped
  <2> QED
    BY <2>1
<1>3. quit \in {"no", "asked"} => told \cap HeldClients = {}
  <2>1. ASSUME quit \in {"no", "asked"}, NEW i \in HeldTabs PROVE TabClient(i) \notin told
    BY <2>1, HeldTyped DEF ChildInv
  <2> QED
    BY <2>1 DEF HeldClients
<1> QED
  BY <1>1, <1>2, <1>3 DEF TabsInSync, ChildInv, Client

-----------------------------------------------------------------------------
(* A theme that was only looked at does not stay.                           *)

SameLook == chosen'.theme = chosen.theme

LEMMA ThemeChosen ==
  ASSUME FileInv, NEW value
  PROVE  /\ \A field \in {"rail_collapsed", "widths", "inspector_open"} :
              Choose(field, value) => SameLook
         /\ Choose("theme", value) => chosen'.theme = value
  BY DEF FileInv, Ui, Choose, SameLook

LEMMA StillOver ==
  ASSUME OverInv, UNCHANGED <<over, theme, mixed>>, SameLook PROVE OverInv'
  BY DEF OverInv, OverlaysTypeOK, PreviewsAreUndone, PickerOpen, Previewing, SameLook

\* A view's overlays change, and whether its picker is open does not.
LEMMA AsideOver ==
  ASSUME OverInv, NEW v \in View, NEW o \in OverState, o.opening = over[v].opening,
         over' = [over EXCEPT ![v] = o], UNCHANGED <<theme, mixed>>, SameLook
  PROVE  OverInv'
<1>1. over' \in [View -> OverState] /\ \A u \in View : over'[u].opening = over[u].opening
  BY DEF OverInv, OverlaysTypeOK
<1>2. \A u \in View : PickerOpen(u)' <=> PickerOpen(u)
  BY <1>1 DEF PickerOpen
<1>3. PreviewsAreUndone'
  BY <1>1, <1>2 DEF OverInv, PreviewsAreUndone, Previewing, SameLook
<1> QED
  BY <1>1, <1>2, <1>3 DEF OverInv, OverlaysTypeOK

\* A picker is left and what it previewed is undone, or it was not open.
LEMMA LeftOver ==
  ASSUME OverInv, NEW v \in View, NEW o \in OverState, o.opening = NoSelection,
         over' = [over EXCEPT ![v] = o],
         theme' = IF PickerOpen(v) THEN over[v].opening ELSE theme,
         UNCHANGED mixed, SameLook
  PROVE  OverInv'
<1>1. /\ over' \in [View -> OverState] /\ over'[v].opening = NoSelection
      /\ \A u \in View : u # v => over'[u].opening = over[u].opening
  BY DEF OverInv, OverlaysTypeOK
<1>2. ~PickerOpen(v)' /\ \A u \in View : u # v => (PickerOpen(u)' <=> PickerOpen(u))
  BY <1>1 DEF PickerOpen
<1>3. theme' \in Selection
  BY DEF OverInv, OverlaysTypeOK, OverState, PickerOpen
<1>4. ASSUME ~mixed PROVE PreviewsAreUndone'
  <2>1. CASE PickerOpen(v)
    <3>1. \A u \in View : ~PickerOpen(u)'
      BY <1>2, <1>4, <2>1 DEF OverInv
    <3>2. theme' = chosen.theme
      BY <1>4, <2>1 DEF OverInv, PreviewsAreUndone
    <3> QED
      BY <3>1, <3>2 DEF PreviewsAreUndone, Previewing, SameLook
  <2>2. CASE ~PickerOpen(v)
    <3>1. /\ theme' = theme
          /\ \A u \in View : PickerOpen(u)' <=> PickerOpen(u)
          /\ \A u \in View : PickerOpen(u) => over'[u].opening = over[u].opening
      BY <1>1, <1>2, <2>2
    <3> QED
      BY <3>1 DEF OverInv, PreviewsAreUndone, Previewing, SameLook
  <2> QED
    BY <2>1, <2>2
<1>5. PreviewsAreUndone'
  BY <1>4 DEF PreviewsAreUndone
<1> QED
  BY <1>1, <1>2, <1>3, <1>5 DEF OverInv, OverlaysTypeOK

LEMMA OpensOver ==
  ASSUME OverInv, NEW v \in View, OpenThemePicker(v), SameLook PROVE OverInv'
<1> DEFINE o == [over[v] EXCEPT !.palette = FALSE, !.card = "none", !.lists = {}, !.opening = theme]
<1>1. over[v] \in OverState /\ theme \in Selection /\ mixed \in BOOLEAN
  BY DEF OverInv, OverlaysTypeOK
<1>2. o \in OverState /\ o.opening = theme
  BY <1>1 DEF OverState
<1>3. /\ over' = [over EXCEPT ![v] = o] /\ UNCHANGED theme
      /\ mixed' = (mixed \/ Previewing \/ \E u \in View \ {v} : PickerOpen(u))
  BY DEF OpenThemePicker, OnlyOver
<1> HIDE DEF o
<1>4. /\ over' \in [View -> OverState] /\ over'[v].opening = theme
      /\ \A u \in View : u # v => over'[u].opening = over[u].opening
  BY <1>2, <1>3 DEF OverInv, OverlaysTypeOK
<1>5. \A u \in View : u # v => (PickerOpen(u)' <=> PickerOpen(u))
  BY <1>4 DEF PickerOpen
<1>6. PickerOpen(v)'
  BY <1>1, <1>4, OverlaysAssumption DEF PickerOpen
<1>7. ASSUME ~mixed'
      PROVE  /\ \A u \in View : PickerOpen(u)' => u = v
             /\ theme' = chosen'.theme /\ over'[v].opening = chosen'.theme
  BY <1>3, <1>4, <1>5, <1>7 DEF Previewing, SameLook
<1>8. PreviewsAreUndone'
  BY <1>6, <1>7 DEF PreviewsAreUndone, Previewing
<1>9. OverlaysTypeOK'
  BY <1>1, <1>3, <1>4 DEF OverlaysTypeOK
<1> QED
  BY <1>7, <1>8, <1>9 DEF OverInv

LEMMA PreviewsOver ==
  ASSUME OverInv, NEW v \in View, PreviewThemePickerItem(v), SameLook PROVE OverInv'
<1>1. PICK i \in ThemePickerItem : theme' = Picked(over[v].opening, i)
  BY DEF PreviewThemePickerItem
<1>2. PickerOpen(v) /\ UNCHANGED <<over, mixed>>
  BY DEF PreviewThemePickerItem
<1>3. over[v].opening \in Selection
  BY <1>2 DEF OverInv, OverlaysTypeOK, OverState, PickerOpen
<1>4. theme' \in Selection
  BY <1>1, <1>3, PickedTyped
<1>5. \A u \in View : PickerOpen(u)' <=> PickerOpen(u)
  BY <1>2 DEF PickerOpen
<1>6. ASSUME ~mixed
      PROVE  \A u \in View : PickerOpen(u) =>
                /\ over[u].opening = chosen.theme
                /\ theme' = Picked(chosen.theme, i)
  BY <1>1, <1>2, <1>6 DEF OverInv, PreviewsAreUndone
<1>7. PreviewsAreUndone'
  BY <1>2, <1>5, <1>6 DEF PreviewsAreUndone, SameLook
<1> QED
  BY <1>2, <1>4, <1>5, <1>7 DEF OverInv, OverlaysTypeOK

LEMMA ChoosesOver ==
  ASSUME FileInv, OverInv, NEW v \in View, ChooseThemePickerItem(v) PROVE OverInv'
<1>1. PickerOpen(v) /\ UNCHANGED mixed
  BY DEF ChooseThemePickerItem
<1>2. PICK i \in ThemePickerItem : /\ theme' = Picked(over[v].opening, i)
                                   /\ Choose("theme", Picked(over[v].opening, i))
  BY DEF ChooseThemePickerItem
<1>3. over[v] \in OverState /\ over[v].opening \in Selection
  BY <1>1 DEF OverInv, OverlaysTypeOK, OverState, PickerOpen
<1>4. theme' \in Selection /\ chosen'.theme = theme'
  BY <1>2, <1>3, PickedTyped, ThemeChosen
<1>5. over' = [over EXCEPT ![v] = [over[v] EXCEPT !.opening = NoSelection]]
  BY DEF ChooseThemePickerItem
<1>6. [over[v] EXCEPT !.opening = NoSelection] \in OverState
      /\ [over[v] EXCEPT !.opening = NoSelection].opening = NoSelection
  BY <1>3 DEF OverState
<1>7. /\ over' \in [View -> OverState] /\ over'[v].opening = NoSelection
      /\ \A u \in View : u # v => over'[u].opening = over[u].opening
  BY <1>5, <1>6 DEF OverInv, OverlaysTypeOK
<1>8. ~mixed => \A u \in View : ~PickerOpen(u)'
  BY <1>1, <1>7 DEF OverInv, PickerOpen
<1> QED
  BY <1>1, <1>4, <1>7, <1>8 DEF OverInv, OverlaysTypeOK, PreviewsAreUndone, Previewing

LEMMA ToggleOver ==
  ASSUME OverInv, NEW v \in View, TogglePalette(v), SameLook PROVE OverInv'
<1>1. over[v] \in OverState
  BY DEF OverInv, OverlaysTypeOK
<1>2. CASE over[v].palette
  <2>1. /\ over' = [over EXCEPT ![v] = [over[v] EXCEPT !.palette = FALSE]]
        /\ UNCHANGED <<theme, mixed>>
    BY <1>2 DEF TogglePalette, OnlyOver
  <2>2. /\ [over[v] EXCEPT !.palette = FALSE] \in OverState
        /\ [over[v] EXCEPT !.palette = FALSE].opening = over[v].opening
    BY <1>1 DEF OverState
  <2> QED
    BY <2>1, <2>2, AsideOver
<1>3. CASE ~over[v].palette
  <2> DEFINE o == [over[v] EXCEPT !.palette = TRUE, !.card = "none", !.lists = {},
                                  !.opening = NoSelection]
  <2>1. /\ over' = [over EXCEPT ![v] = o] /\ UNCHANGED mixed
        /\ theme' = IF PickerOpen(v) THEN over[v].opening ELSE theme
    BY <1>3 DEF TogglePalette, OnlyOver
  <2>2. o \in OverState /\ o.opening = NoSelection
    BY <1>1 DEF OverState
  <2> HIDE DEF o
  <2> QED
    BY <2>1, <2>2, LeftOver
<1> QED
  BY <1>2, <1>3

\* What a session's keys and the pointer do to what lies over it.
LEMMA OverlayInputOver ==
  ASSUME FileInv, OverInv, NEW v \in View, OverlayInput(v) PROVE OverInv'
<1>1. over[v] \in OverState
  BY DEF OverInv, OverlaysTypeOK
<1>2. ASSUME NEW o \in OverState, o.opening = over[v].opening, OnlyOver(v, o), SameTheme
      PROVE  OverInv'
  <2>1. /\ over' = [over EXCEPT ![v] = o] /\ UNCHANGED <<theme, mixed>> /\ SameLook
    BY <1>2 DEF OnlyOver, SameTheme, SameLook, fileVars
  <2> QED
    BY <1>2, <2>1, AsideOver
<1>3. CASE TogglePalette(v)
  BY <1>3, ToggleOver DEF TogglePalette, OnlyOver, fileVars, SameLook
<1>4. CASE OpenThemePicker(v)
  BY <1>4, OpensOver DEF OpenThemePicker, OnlyOver, fileVars, SameLook
<1>5. CASE CloseThemePicker(v)
  <2>1. /\ [over[v] EXCEPT !.opening = NoSelection] \in OverState
        /\ [over[v] EXCEPT !.opening = NoSelection].opening = NoSelection
    BY <1>1 DEF OverState
  <2>2. /\ over' = [over EXCEPT ![v] = [over[v] EXCEPT !.opening = NoSelection]]
        /\ theme' = IF PickerOpen(v) THEN over[v].opening ELSE theme
        /\ UNCHANGED mixed /\ SameLook
    BY <1>5 DEF CloseThemePicker, OnlyOver, fileVars, SameLook
  <2> QED
    BY <2>1, <2>2, LeftOver
<1>6. CASE PreviewThemePickerItem(v)
  BY <1>6, PreviewsOver DEF PreviewThemePickerItem, fileVars, SameLook
<1>7. CASE ChooseThemePickerItem(v)
  BY <1>7, ChoosesOver
<1>8. CASE CloseCard(v)
  <2>1. /\ [over[v] EXCEPT !.card = "none"] \in OverState
        /\ [over[v] EXCEPT !.card = "none"].opening = over[v].opening
    BY <1>1 DEF OverState
  <2> QED
    BY <1>2, <1>8, <2>1 DEF CloseCard
<1>9. ASSUME NEW list \in over[v].lists,
             OnlyOver(v, [over[v] EXCEPT !.lists = @ \ {list},
                                         !.branching = @ \/ list = "branch"]), SameTheme
      PROVE  OverInv'
  <2> DEFINE o == [over[v] EXCEPT !.lists = over[v].lists \ {list},
                                  !.branching = over[v].branching \/ list = "branch"]
  <2>1. /\ o \in OverState /\ o.opening = over[v].opening
    BY <1>1 DEF OverState
  <2>2. OnlyOver(v, o)
    BY <1>9
  <2> HIDE DEF o
  <2> QED
    BY <1>2, <1>9, <2>1, <2>2
<1>10. ASSUME NEW list, OnlyOver(v, [over[v] EXCEPT !.lists = @ \ {list}]), SameTheme PROVE OverInv'
  <2>1. /\ [over[v] EXCEPT !.lists = @ \ {list}] \in OverState
        /\ [over[v] EXCEPT !.lists = @ \ {list}].opening = over[v].opening
    BY <1>1 DEF OverState
  <2> QED
    BY <1>2, <1>10, <2>1
<1>11. ASSUME NEW card \in Card, ShowCard(v, card) PROVE OverInv'
  <2> DEFINE o == [over[v] EXCEPT !.palette = FALSE, !.card = card, !.lists = {}]
  <2>1. o \in OverState /\ o.opening = over[v].opening
    BY <1>1 DEF OverState
  <2>2. OnlyOver(v, o) /\ SameTheme
    BY <1>11 DEF ShowCard
  <2> HIDE DEF o
  <2> QED
    BY <1>2, <2>1, <2>2
<1>12. ASSUME NEW list \in List, AskForList(v, list) PROVE OverInv'
  <2> DEFINE o == [over[v] EXCEPT !.palette = FALSE,
                                 !.card = IF over[v].card \in {"about", "rename"} THEN "none"
                                          ELSE over[v].card,
                                 !.lists = over[v].lists \cap {list},
                                 !.asks = over[v].asks \cup {list}]
  <2>1. o \in OverState /\ o.opening = over[v].opening
    BY <1>1 DEF OverState
  <2>2. OnlyOver(v, o) /\ SameTheme
    BY <1>12 DEF AskForList
  <2> HIDE DEF o
  <2> QED
    BY <1>2, <2>1, <2>2
<1>13. /\ [over[v] EXCEPT !.palette = FALSE] \in OverState
       /\ [over[v] EXCEPT !.palette = FALSE].opening = over[v].opening
  BY <1>1 DEF OverState
<1>14. ASSUME over' = [over EXCEPT ![v].palette = FALSE], UNCHANGED <<fileVars, theme, mixed>>
       PROVE  OverInv'
  <2>1. over' = [over EXCEPT ![v] = [over[v] EXCEPT !.palette = FALSE]]
    BY <1>14
  <2> QED
    BY <1>13, <1>14, <2>1, AsideOver DEF fileVars, SameLook
<1>15. RunPaletteAction(v) => OverInv'
  BY <1>2, <1>4, <1>11, <1>12, <1>13, <1>14 DEF RunPaletteAction
<1>16. Escape(v) => OverInv'
  BY <1>3, <1>5, <1>8, <1>10 DEF Escape
<1>17. Enter(v) => OverInv'
  BY <1>7, <1>8, <1>9, <1>15 DEF Enter, ConfirmListPick
<1> QED
  BY <1>3, <1>6, <1>15, <1>16, <1>17 DEF OverlayInput

LEMMA OverlayAnswerOver ==
  ASSUME OverInv, NEW v \in View, OverlayAnswer(v) PROVE OverInv'
<1>1. over[v] \in OverState
  BY DEF OverInv, OverlaysTypeOK
<1>2. ASSUME NEW list \in List, ListComes(v, list) PROVE OverInv'
  <2>1. list \in over[v].asks
    BY <1>2 DEF ListComes
  <2>2. PICK nonempty \in BOOLEAN :
          OnlyOver(v, [over[v] EXCEPT !.asks = @ \ {list},
                                      !.lists = IF nonempty THEN @ \cup {list} ELSE @])
    BY <1>2 DEF ListComes
  <2> DEFINE o == [over[v] EXCEPT !.asks = over[v].asks \ {list},
                     !.lists = IF nonempty THEN over[v].lists \cup {list} ELSE over[v].lists]
  <2>3. o \in OverState /\ o.opening = over[v].opening
    BY <1>1 DEF OverState
  <2>4. OnlyOver(v, o)
    BY <2>2
  <2> HIDE DEF o
  <2>5. over' = [over EXCEPT ![v] = o] /\ UNCHANGED <<theme, mixed>> /\ SameLook
    BY <1>2, <2>4 DEF ListComes, OnlyOver, SameTheme, SameLook, fileVars
  <2> QED
    BY <2>3, <2>5, AsideOver
<1>3. CASE BranchAnswered(v)
  <2>1. /\ [over[v] EXCEPT !.branching = FALSE] \in OverState
        /\ [over[v] EXCEPT !.branching = FALSE].opening = over[v].opening
    BY <1>1 DEF OverState
  <2>2. /\ over' = [over EXCEPT ![v] = [over[v] EXCEPT !.branching = FALSE]]
        /\ UNCHANGED <<theme, mixed>> /\ SameLook
    BY <1>3 DEF BranchAnswered, SameLook, fileVars
  <2> QED
    BY <2>1, <2>2, AsideOver
<1> QED
  BY <1>2, <1>3 DEF OverlayAnswer

\* The overlays of a tab go with it, a picker's preview only when there was none.
LEMMA TabsGoneOver ==
  ASSUME OverInv, TabsGone, SameLook PROVE OverInv'
<1> DEFINE gone == {v \in View : Contains(win.tabs, v) /\ ~Contains(win'.tabs, v)}
<1>1. /\ over' = [v \in View |-> IF v \in gone THEN NothingOver ELSE over[v]]
      /\ mixed' = (mixed \/ (Previewing /\ \E v \in gone : PickerOpen(v)))
      /\ UNCHANGED theme
  BY DEF TabsGone
<1> HIDE DEF gone
<1>2. NothingOver \in OverState /\ NothingOver.opening = NoSelection
  BY DEF NothingOver, OverState
<1>3. OverlaysTypeOK'
  BY <1>1, <1>2 DEF OverInv, OverlaysTypeOK
<1>4. \A v \in View : PickerOpen(v)' => /\ v \notin gone /\ PickerOpen(v)
                                        /\ over'[v].opening = over[v].opening
  BY <1>1, <1>2 DEF PickerOpen
<1>5. \A v \in View : v \notin gone /\ PickerOpen(v) => PickerOpen(v)'
  BY <1>1 DEF PickerOpen
<1>6. ASSUME ~mixed' PROVE PreviewsAreUndone'
  <2>1. ~mixed
    BY <1>1, <1>6
  <2>2. (\A v \in View : ~PickerOpen(v)') => ~Previewing
    <3>1. ASSUME \A v \in View : ~PickerOpen(v)', Previewing PROVE FALSE
      <4>1. PICK u \in View : PickerOpen(u)
        BY <2>1, <3>1 DEF OverInv, PreviewsAreUndone
      <4>2. u \in gone
        BY <1>5, <3>1, <4>1
      <4> QED
        BY <1>1, <1>6, <3>1, <4>1, <4>2
    <3> QED
      BY <3>1
  <2>3. \A v \in View : PickerOpen(v)' =>
          /\ over'[v].opening = chosen.theme
          /\ Previewing => \E i \in ThemePickerItem : theme = Picked(chosen.theme, i)
    BY <1>4, <2>1 DEF OverInv, PreviewsAreUndone
  <2>4. Previewing' <=> Previewing
    BY <1>1 DEF Previewing, SameLook
  <2> QED
    BY <1>1, <2>2, <2>3, <2>4 DEF PreviewsAreUndone, SameLook
<1>7. PreviewsAreUndone'
  BY <1>6 DEF PreviewsAreUndone
<1>8. ~mixed' => \A u, v \in View : PickerOpen(u)' /\ PickerOpen(v)' => u = v
  BY <1>1, <1>4 DEF OverInv
<1> QED
  BY <1>3, <1>7, <1>8 DEF OverInv

LEMMA RelaunchOver ==
  ASSUME FileInv, OverlaysRelaunch, PersistenceRestart PROVE OverInv'
<1>1. NothingOver \in OverState /\ NothingOver.opening = NoSelection
  BY DEF NothingOver, OverState
<1>2. chosen'.theme \in Selection
  BY LoadsUi DEF PersistenceRestart, Ui
<1>3. /\ over' = [v \in View |-> NothingOver] /\ theme' = chosen'.theme /\ mixed' = FALSE
  BY DEF OverlaysRelaunch
<1>4. \A v \in View : ~PickerOpen(v)'
  BY <1>1, <1>3 DEF PickerOpen
<1> QED
  BY <1>1, <1>2, <1>3, <1>4 DEF OverInv, OverlaysTypeOK, PreviewsAreUndone, Previewing

LEMMA WindowActionSameLook ==
  ASSUME FileInv, NEW a, RunWindowAction(a) PROVE SameLook
<1>1. AddSession => SameLook
  BY DEF AddSession, NoFile, fileVars, SameLook
<1>2. ASSUME NEW i, CloseSessionAt(i) PROVE SameLook
  BY <1>2, ForgetsKeepsLooks DEF CloseSessionAt, SameLook
<1>3. ToggleRail => SameLook
  BY ThemeChosen DEF ToggleRail
<1>4. ASSUME NEW open, SetInspector(open) PROVE SameLook
  BY <1>4, ThemeChosen DEF SetInspector
<1> QED
  BY <1>1, <1>2, <1>3, <1>4 DEF RunWindowAction

LEMMA RenderSameLook == ASSUME FileInv, Render PROVE SameLook
<1>1. \/ NoFile
      \/ \E v : Forgets(v)
      \/ Choose("rail_collapsed", ~chosen.rail_collapsed)
      \/ \E open \in BOOLEAN : Choose("inspector_open", open)
  BY DEF Render
<1>2. NoFile => SameLook
  BY DEF NoFile, fileVars, SameLook
<1>3. ASSUME NEW v, Forgets(v) PROVE SameLook
  BY <1>3, ForgetsKeepsLooks DEF SameLook
<1> QED
  BY <1>1, <1>2, <1>3, ThemeChosen

LEMMA NextKeepsOver ==
  ASSUME FileInv, OverInv, TabInv, [Next]_windowVars PROVE OverInv'
<1>0. NoOverlay => UNCHANGED <<over, theme, mixed>>
  BY DEF NoOverlay, overlayVars
<1>1. CASE TabInput
  <2>1. ASSUME NEW a, RunWindowAction(a), TabsGone PROVE OverInv'
    BY <2>1, WindowActionSameLook, TabsGoneOver
  <2>2. ASSUME NEW i, CloseSessionAt(i), TabsGone PROVE OverInv'
    BY <2>2, ForgetsKeepsLooks, TabsGoneOver DEF CloseSessionAt, SameLook
  <2>3. ASSUME AddSessionForCwd \/ (\E i \in 1..Len(win.tabs) : SelectSession(i)) PROVE SameLook
    BY <2>3 DEF AddSessionForCwd, SelectSession, NoFile, fileVars, SameLook
  <2>4. EndSidebarResize => SameLook
    BY ThemeChosen DEF EndSidebarResize
  <2>5. ASSUME NEW v \in View, ReturnToLauncher(v), OverlaysReturn(v) PROVE OverInv'
    <3>1. over[v] \in OverState
      BY DEF OverInv, OverlaysTypeOK
    <3> DEFINE o == [over[v] EXCEPT !.card = IF over[v].card \in {"compact", "handoff"} THEN "none"
                                             ELSE over[v].card]
    <3>2. o \in OverState /\ o.opening = over[v].opening
      BY <3>1 DEF OverState
    <3>3. over' = [over EXCEPT ![v] = o]
      BY <2>5 DEF OverlaysReturn
    <3> HIDE DEF o
    <3>4. UNCHANGED <<theme, mixed>> /\ SameLook
      BY <2>5 DEF OverlaysReturn, SameTheme, ReturnToLauncher, NoFile, fileVars, SameLook
    <3> QED
      BY <3>2, <3>3, <3>4, AsideOver
  <2> QED
    BY <1>0, <1>1, <2>1, <2>2, <2>3, <2>4, <2>5, StillOver DEF TabInput
<1>2. CASE SessionInput
  BY <1>2, ActiveTyped, OverlayInputOver DEF SessionInput
<1>3. CASE Paint
  BY <1>3, RenderSameLook, TabsGoneOver DEF Paint
<1>4. CASE SessionStep
  <2>1. ASSUME NEW v \in View, Connect(v) \/ Connected(v) PROVE SameLook
    BY <2>1 DEF Connect, Connected, NoFile, fileVars, SameLook
  <2> QED
    BY <1>0, <1>4, <2>1, StillOver, OverlayAnswerOver DEF SessionStep
<1>5. CASE Beside
  <2>1. ASSUME NEW c, Turn(c) PROVE SameLook
    BY <2>1 DEF Turn, NoFile, fileVars, SameLook
  <2>2. ASSUME NEW t, ConnectThreadSaves(t) PROVE SameLook
    BY <2>2 DEF ConnectThreadSaves, SameLook
  <2>3. FileStep => SameLook
    BY DEF FileStep, LoadFile, WriteTemporary, Rename, FallBack, Fill, SameLook
  <2> QED
    BY <1>0, <1>5, <2>1, <2>2, <2>3, StillOver DEF Beside
<1>6. CASE Exit \/ Quitting \/ QuitTask \/ End
  <2>1. SameLook
    BY <1>6 DEF Exit, ChildExits, Quitting, ShouldClose, CancelPendingQuit, ConfirmPendingQuit,
                QuitTask, QuitStep, End, ProcessEnds, NoFile, fileVars, SameLook
  <2> QED
    BY <1>0, <1>6, <2>1, StillOver DEF Exit, Quitting, QuitTask, End
<1>7. CASE Start
  BY <1>7, RelaunchOver DEF Start, Relaunch
<1>8. ASSUME NEW i \in 1..Len(win.tabs), RenameSessionAt(i) PROVE OverInv'
  <2> DEFINE v == win.tabs[i]
             o == [over[v] EXCEPT !.palette = FALSE, !.card = "rename", !.lists = {}]
  <2>1. v \in View
    BY ActiveTyped
  <2>2. over[v] \in OverState /\ "rename" \in Card
    BY <1>8, <2>1 DEF OverInv, OverlaysTypeOK, RenameSessionAt
  <2>3. o \in OverState /\ o.opening = over[v].opening
    BY <2>2 DEF OverState
  <2>4. /\ UNCHANGED <<theme, mixed>> /\ SameLook
        /\ over' = IF Live(v) THEN [over EXCEPT ![v].palette = FALSE, ![v].card = "rename",
                                                ![v].lists = {}] ELSE over
    BY <1>8 DEF RenameSessionAt, fileVars, SameLook
  <2>5. [over EXCEPT ![v].palette = FALSE, ![v].card = "rename", ![v].lists = {}]
          = [over EXCEPT ![v] = o]
    BY <2>1, <2>2 DEF OverInv, OverlaysTypeOK, OverState
  <2> HIDE DEF o, v
  <2> QED
    BY <2>1, <2>3, <2>4, <2>5, AsideOver, StillOver
<1>9. CASE UNCHANGED windowVars
  BY <1>9, StillOver DEF windowVars, overlayVars, fileVars, SameLook
<1> QED
  BY <1>1, <1>2, <1>3, <1>4, <1>5, <1>6, <1>7, <1>8, <1>9 DEF Next

-----------------------------------------------------------------------------
(* All of it together.                                                      *)

LEMMA InitWindow == Init => WindowInv
<1> SUFFICES ASSUME Init PROVE WindowInv
  OBVIOUS
<1>1. DefaultUi \in Ui /\ DefaultUi.inspector_open = TRUE /\ DefaultUi.theme = DefaultTheme
  BY PersistenceAssumption DEF DefaultUi, Ui
<1>2. FileInv
  <2>1. /\ disk = Default /\ job = [t \in Thread |-> NoJob] /\ chosen = DefaultUi
        /\ before = DefaultUi /\ lost = FALSE
    BY DEF Init, PersistenceInit
  <2>2. /\ disk.ui = DefaultUi /\ disk = [ui |-> disk.ui, recent |-> disk.recent, last |-> disk.last]
        /\ Load("ui") = DefaultUi
    BY <2>1 DEF Default, Load
  <2>3. \A t \in Thread : job[t] = NoJob
    BY <2>1
  <2>4. SavesSessions
    BY <2>1, <2>2, <2>3, NoJobIsEmpty, PersistenceAssumption DEF SavesSessions
  <2>5. job = [t \in Thread |-> [todo |-> job[t].todo, step |-> job[t].step,
                                 content |-> job[t].content]]
    BY <2>1 DEF NoJob
  <2>6. \A t \in Thread : job[t].todo \in Seq(SessionOps)
    BY <2>3, NoJobIsEmpty
  <2> QED
    BY <1>1, <2>1, <2>2, <2>4, <2>5, <2>6 DEF FileInv
<1>3. /\ win = FirstWin(TRUE) /\ chosen = DefaultUi
      /\ running = {} /\ quit = "no" /\ toEnd = <<>> /\ captured = {} /\ told = {}
  BY <1>1 DEF Init, WorkspaceInit, PersistenceInit, FirstWin
<1>4. /\ WellFormed(win) /\ HasActive(win) /\ InSync(win, TRUE)
      /\ \A v \in View : win.view[v].client = NoChild
  BY <1>3, FirstWinTyped
<1>5. TabInv
  BY <1>1, <1>3, <1>4 DEF TabInv
<1>6. ToEnd = {}
  BY <1>3 DEF ToEnd
<1>7. ChildInv /\ QuitInv
  <2>1. ChildInv
    BY <1>3, <1>4, <1>6 DEF ChildInv, Client
  <2>2. toEnd \in Seq([child : Child, abort : BOOLEAN])
    BY <1>3
  <2>3. ChildrenToldToEnd
    BY <1>3 DEF ChildrenToldToEnd
  <2> QED
    BY <2>1, <2>2, <2>3 DEF QuitInv
<1>8. OverInv
  <2>1. /\ over = [v \in View |-> NothingOver] /\ theme = DefaultTheme /\ mixed = FALSE
    BY DEF Init, OverlaysInit
  <2>2. NothingOver \in OverState /\ NothingOver.opening = NoSelection
    BY DEF NothingOver, OverState
  <2>3. \A v \in View : ~PickerOpen(v)
    BY <2>1, <2>2 DEF PickerOpen
  <2> QED
    BY <1>1, <1>3, <2>1, <2>2, <2>3, PersistenceAssumption
    DEF OverInv, OverlaysTypeOK, PreviewsAreUndone, Previewing
<1> QED
  BY <1>2, <1>5, <1>7, <1>8 DEF WindowInv

LEMMA NextKeepsWindow == WindowInv /\ [Next]_windowVars => WindowInv'
<1> SUFFICES ASSUME WindowInv, [Next]_windowVars PROVE WindowInv'
  OBVIOUS
<1>1. FileInv /\ TabInv /\ ChildInv /\ QuitInv /\ OverInv
  BY DEF WindowInv
<1>2. FileInv'
  <2>1. OverlaysTypeOK /\ Active \in View
    BY <1>1, ActiveTyped DEF OverInv
  <2>2. FilesMove
    BY <1>1, <2>1, NextMovesFiles
  <2> QED
    BY <1>1, <2>2, FilesMoveKeepsFiles
<1>3. TabInv'
  BY <1>1, NextMovesTabs
<1>4. ChildInv' /\ QuitInv'
  BY <1>1, NextKeepsChildren
<1>5. OverInv'
  BY <1>1, NextKeepsOver
<1> QED
  BY <1>2, <1>3, <1>4, <1>5 DEF WindowInv

LEMMA WindowInvAlways == Spec => []WindowInv
  BY InitWindow, NextKeepsWindow, PTL DEF Spec

\* However the process ends, and whatever connect threads and other handlers write
\* meanwhile: as long as no write of ui.json failed, what the file says is what the user
\* chose, or what it was before the choice being saved (persistence.rs, save_ui_settings).
THEOREM RestartsAsLeftAlways == Spec => []RestartsAsLeft
<1>1. WindowInv => RestartsAsLeft
  <2> SUFFICES ASSUME FileInv, ~lost
               PROVE  Load("ui") \in {chosen, before} /\ (Idle(Main) => Load("ui") = chosen)
    BY DEF WindowInv, RestartsAsLeft
  <2>1. Idle(Main) => SavesSessions
    BY IdleSavesNothing
  <2>2. SavesSessions => Load("ui") = chosen
    BY DEF SavesSessions
  <2>3. (\E c \in LooksChoice : SavesChoice(c)) => Load("ui") = before
    BY DEF SavesChoice
  <2> QED
    BY <2>1, <2>2, <2>3 DEF FileInv
<1> QED
  BY <1>1, WindowInvAlways, PTL

\* Whatever is opened, closed, selected, toggled and asked for by a palette or a branch,
\* and whatever children do: a tab is active, every tab's session knows whether the
\* inspector is open, and every running child is one tab's or was told to end
\* (workspace.rs, push_launcher_session, close_session_at, the paint).
THEOREM TabsInSyncAlways == Spec => []TabsInSync
<1>1. WindowInv => TabsInSync
  BY ChildInvMeansInSync DEF WindowInv
<1> QED
  BY <1>1, WindowInvAlways, PTL

\* A confirmed quit leaves no child of the sessions it found untold, whatever exits,
\* is closed, connects or fails to abort between its awaits (workspace.rs,
\* confirm_pending_quit).
THEOREM ChildrenToldToEndAlways == Spec => []ChildrenToldToEnd
<1>1. WindowInv => ChildrenToldToEnd
  BY DEF WindowInv, QuitInv
<1> QED
  BY <1>1, WindowInvAlways, PTL

\* A theme that was only previewed does not stay: as long as no picker is opened over
\* another, one open picker can always bring back the saved theme, and with none open
\* the window shows it (session.rs, the theme picker; workspace.rs, closing a tab).
THEOREM PreviewsAreUndoneAlways == Spec => []PreviewsAreUndone
<1>1. WindowInv => PreviewsAreUndone
  BY DEF WindowInv, OverInv
<1> QED
  BY <1>1, WindowInvAlways, PTL

=============================================================================
