----------------------------- MODULE Persistence -----------------------------
(***************************************************************************)
(* The files Pimiento keeps under its home: ui.json (what the window looks *)
(* like), recent.json and last-session (what to offer next time).  Every   *)
(* save reads the whole file, changes its part and writes the whole file   *)
(* back, through a temporary file and a rename.  The foreground saves in   *)
(* the middle of its handlers; connect threads save beside it.             *)
(***************************************************************************)
EXTENDS Naturals, SequencesExt

CONSTANTS
  Selection,      \* theme selections
  DefaultTheme,
  SessionFile,    \* session files of omp
  NoSession,
  Torn,           \* what is left of a file whose rewriting was cut short
  Thread,         \* who writes: the foreground and the connect threads
  Main,           \* the foreground
  MaxRecent       \* MAX_RECENT_SESSIONS

VARIABLES
  disk,     \* the files
  job,      \* what each thread is writing: operations to do, and how far the first is
  chosen,   \* what the user chose, as the window has it in memory
  before,   \* history: what it was before the last choice
  lost      \* history: since the start, a write of ui.json failed or needed the fallback

fileVars == <<disk, job, chosen, before, lost>>

Ui == [rail_collapsed : BOOLEAN, inspector_open : BOOLEAN, widths : {"narrow", "wide"},
       theme : Selection]

\* A file that was cut short does not parse.
ASSUME PersistenceAssumption ==
  /\ DefaultTheme \in Selection
  /\ NoSession \notin SessionFile
  /\ Torn \notin Ui
  /\ Main \in Thread
  /\ MaxRecent \in Nat \ {0}

DefaultUi == [rail_collapsed |-> FALSE, inspector_open |-> TRUE, widths |-> "narrow",
              theme |-> DefaultTheme]
Default == [ui |-> DefaultUi, recent |-> <<>>, last |-> NoSession]

Step == {"load", "temporary", "rename", "fallback", "fill"}
NoJob == [todo |-> <<>>, step |-> "load", content |-> NoSession]
Idle(t) == job[t].todo = <<>>

PersistenceTypeOK ==
  /\ disk.ui \in Ui \cup {Torn}
  /\ disk.last \in SessionFile \cup {NoSession, Torn}
  /\ \/ disk.recent = Torn
     \/ /\ disk.recent \in Seq(SessionFile) /\ Len(disk.recent) <= MaxRecent
        /\ IsInjective(disk.recent)
  /\ \A t \in Thread : job[t].step \in Step /\ (Idle(t) => job[t] = NoJob)
  /\ chosen \in Ui /\ before \in Ui
  /\ lost \in BOOLEAN

PersistenceInit ==
  /\ disk = Default
  /\ job = [t \in Thread |-> NoJob]
  /\ chosen = DefaultUi /\ before = DefaultUi
  /\ lost = FALSE

-----------------------------------------------------------------------------
\* A file that is missing or does not parse reads as its default.
Load(file) == IF disk[file] = Torn THEN Default[file] ELSE disk[file]

\* normalize_recent_sessions: one entry a session, the last used first, MAX_RECENT_SESSIONS.
Remembered(s) ==
  LET sessions == <<s>> \o Remove(Load("recent"), s)
  IN  SubSeq(sessions, 1, IF Len(sessions) < MaxRecent THEN Len(sessions) ELSE MaxRecent)

\* One save; "unlast" removes its file.
Op(do, file, arg) == [do |-> do, file |-> file, arg |-> arg]
SaveUi(field, value) == Op("ui", "ui", <<field, value>>)
RememberSession(s) == <<Op("last", "last", s), Op("recent", "recent", s)>>
ForgetSession(s) == <<Op("unrecent", "recent", s), Op("unlast", "last", s)>>

\* What a save makes of the file it has read.
Updated(op) ==
  CASE op.do = "ui" -> [Load("ui") EXCEPT ![op.arg[1]] = op.arg[2]]
    [] op.do = "recent" -> Remembered(op.arg)
    [] op.do = "unrecent" -> Remove(Load("recent"), op.arg)
    [] OTHER -> op.arg

Needless(op) ==
  \/ op.do = "unrecent" /\ ~Contains(Load("recent"), op.arg)
  \/ op.do = "unlast" /\ Load("last") # op.arg

\* The thread's first save is over, one way or another.
Over(t) == job' = [job EXCEPT ![t] =
             IF Len(@.todo) = 1 THEN NoJob
             ELSE [todo |-> Tail(@.todo), step |-> "load", content |-> NoSession]]
Goes(t, step) == job' = [job EXCEPT ![t].step = step]
Failed(t) == lost' = (lost \/ Head(job[t].todo).file = "ui")

\* A handler begins to write; the foreground does nothing else until it is done.
Writes(t, ops) == job' = [job EXCEPT ![t].todo = ops]

\* Reading, and removing the last-session pointer.
LoadFile(t) ==
  LET op == Head(job[t].todo) IN
  /\ ~Idle(t) /\ job[t].step = "load"
  /\ \/ /\ Needless(op)
        /\ Over(t) /\ UNCHANGED disk
     \/ /\ op.do = "unlast" /\ ~Needless(op)
        /\ disk' = [disk EXCEPT !.last = NoSession]
        /\ Over(t)
     \/ /\ op.do # "unlast" /\ ~Needless(op)
        /\ job' = [job EXCEPT ![t].step = "temporary", ![t].content = Updated(op)]
        /\ UNCHANGED disk
  /\ UNCHANGED <<chosen, before, lost>>

\* Slip: the file itself is written, with no temporary beside it.
WriteTemporaryInPlace(t) ==
  /\ ~Idle(t) /\ job[t].step = "temporary"
  /\ disk' = [disk EXCEPT ![Head(job[t].todo).file] = Torn]
  /\ Goes(t, "fill")
  /\ UNCHANGED <<lost, chosen, before>>

\* write_persistence_file: the temporary, which may fail and leaves no trace...
WriteTemporary(t) ==
  /\ ~Idle(t) /\ job[t].step = "temporary"
  /\ \/ Goes(t, "rename") /\ UNCHANGED lost
     \/ Over(t) /\ Failed(t)
  /\ UNCHANGED <<disk, chosen, before>>

\* ...the rename...
Rename(t) ==
  /\ ~Idle(t) /\ job[t].step = "rename"
  /\ \/ /\ disk' = [disk EXCEPT ![Head(job[t].todo).file] = job[t].content]
        /\ Over(t) /\ UNCHANGED lost
     \/ /\ Goes(t, "fallback") /\ Failed(t)
        /\ UNCHANGED disk
  /\ UNCHANGED <<chosen, before>>

\* ...and, when that fails, the file itself: emptied first, then filled.
FallBack(t) ==
  /\ ~Idle(t) /\ job[t].step = "fallback"
  /\ disk' = [disk EXCEPT ![Head(job[t].todo).file] = Torn]
  /\ Goes(t, "fill")
  /\ UNCHANGED <<chosen, before, lost>>

Fill(t) ==
  /\ ~Idle(t) /\ job[t].step = "fill"
  /\ \/ disk' = [disk EXCEPT ![Head(job[t].todo).file] = job[t].content]
     \/ UNCHANGED disk
  /\ Over(t)
  /\ UNCHANGED <<chosen, before, lost>>

FileStep == \E t \in Thread :
  LoadFile(t) \/ WriteTemporary(t) \/ Rename(t) \/ FallBack(t) \/ Fill(t)

\* The user changes how the window looks, and it is saved.
Choose(field, value) ==
  /\ chosen' = [chosen EXCEPT ![field] = value]
  /\ before' = chosen
  /\ Writes(Main, <<SaveUi(field, value)>>)
  /\ UNCHANGED <<disk, lost>>

\* The process ends, wherever it is, and a new one reads the files.
PersistenceRestart ==
  /\ job' = [t \in Thread |-> NoJob]
  /\ chosen' = Load("ui") /\ before' = Load("ui")
  /\ lost' = FALSE
  /\ UNCHANGED disk

-----------------------------------------------------------------------------
\* However the process ends, and whatever else was being written: as long as no
\* write of ui.json failed, the window comes up as the user left it, or as it was before the
\* choice that was being saved.  Saving one choice never loses another.
RestartsAsLeft ==
  ~lost => /\ Load("ui") \in {chosen, before}
           /\ Idle(Main) => Load("ui") = chosen
=============================================================================
