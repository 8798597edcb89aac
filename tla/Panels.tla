-------------------------------- MODULE Panels --------------------------------
(***************************************************************************)
(* The status line, the subagent drawer, the one-shot commands and the     *)
(* transcript list of one view over the life of its session.  What they    *)
(* send goes down the same pipe, and the client it was sent to may be      *)
(* gone, or still ending, when the answers come.                           *)
(***************************************************************************)
EXTENDS Settings, Subagents, Commands, TranscriptList

CONSTANTS MaxMoves    \* bound: what happens of its own accord: the user's moves,
                      \* omp's, exits and timeouts

ASSUME PanelsAssumption == MaxMoves \in Nat

VARIABLES moves       \* how much of it did

vars == <<linkVars, requestVars, settingVars, agentVars, commandVars, listVars, moves>>

TypeOK == /\ RequestsTypeOK /\ SettingsTypeOK /\ SubagentsTypeOK /\ CommandsTypeOK
          /\ ListTypeOK
          /\ moves \in 0..MaxMoves

Init == RequestsInit /\ SettingsInit /\ SubagentsInit /\ CommandsInit /\ ListInit /\ moves = 0

\* The life of the session, as Link has it.
Connect ==
  LET c == begun + 1 IN
  /\ c \in Conn /\ client = NoConn
  /\ LinkAttach(c)
  /\ begun' = c /\ running' = running \cup {c}
  /\ SettingsAttach(c) /\ CommandsAttach(c) /\ ListAttach
  /\ UNCHANGED <<sent, agentVars>>

\* A frame of the pump that starts or ends a turn.
Turn ==
  /\ client # NoConn /\ LinkTurn
  /\ SyncTimer(TRUE) /\ TurnSettles
  /\ UNCHANGED <<requestVars, shown, inFlight, queued, omp, notified, informed, doubtful>>
  /\ UNCHANGED <<agentVars, commandVars>>

\* Bound: the last connection is not lost.
Reconnects == client \in Conn /\ client + 1 \in Conn

\* handle_client_closed, and the recycles that shut the client down in the background.
Lose ==
  /\ Reconnects
  /\ \/ client \notin running /\ LinkLost /\ ListLost
     \/ LinkRecycle /\ ListRecycle
  /\ SettingsLose
  /\ UNCHANGED <<requestVars, agentVars, commandVars>>

\* return_to_launcher, and begin_connection from the launcher.
Leave ==
  /\ Reconnects
  /\ LinkLeave /\ phase' = "idle"
  /\ SettingsForget /\ ClearDrawer /\ ListForget
  /\ UNCHANGED <<requestVars, commandVars>>

Exit(c) == ChildGone(c) /\ UNCHANGED <<linkVars, begun, settingVars, agentVars, commandVars, listVars>>

\* The task of an answered command, or of one that waited too long, comes back.
Resume(c, r, q) ==
  \/ r.what \in SettingAsks /\ AnswerSetting(c, r, q) /\ UNCHANGED <<agentVars, commandVars>>
  \/ r.what \in AgentAsks /\ AnswerSubagents(r, q) /\ UNCHANGED <<settingVars, commandVars>>
  \/ r.what \in CommandAsks /\ AnswerCommand(c, r, q) /\ UNCHANGED <<settingVars, agentVars>>
Answer(c) == Answered(c) /\ Resume(c, Head(sent[c]), Consume(c))
TimeOut(c) ==
  \E i \in 1..MaxSent : Expirable(c, i) /\ Resume(c, Expire(c, i)[c][i], Expire(c, i))

SettingMove ==
  /\ UNCHANGED <<linkVars, running, begun, agentVars, commandVars, listVars>>
  /\ \/ ToggleSetting \/ PickSetting \/ CycleSetting \/ TimerTick
     \/ \E c \in running : OmpChanges(c)

DrawerMove ==
  /\ UNCHANGED <<linkVars, running, begun, settingVars, commandVars, listVars>>
  /\ \/ ListAgents \/ CloseSubagentModal \/ SubagentFrame
     \/ \E a \in Agent : OpenSubagentModal(a) \/ AgentWrites(a)

CommandMove ==
  /\ UNCHANGED <<linkVars, running, begun, settingVars, agentVars, listVars>>
  /\ \/ AskOneShot \/ AskFresh \/ CycleSubscription
     \/ RequestFileRevert \/ CancelPendingRevert \/ ConfirmPendingRevert

ListMove ==
  /\ UNCHANGED <<linkVars, requestVars, settingVars, agentVars, commandVars>>
  /\ \/ PushRow \/ (client # NoConn /\ PumpApplies) \/ AbortSettles
     \/ JumpToTranscriptTail \/ PageKey \/ Scrolled

Event ==
  \/ Turn \/ Leave
  \/ \E c \in Conn : Exit(c)
  \/ /\ UNCHANGED <<linkVars, running, begun, listVars>>
     /\ \E c \in Conn : TimeOut(c)

Within(n) == moves < n /\ moves' = moves + 1

Work ==
  /\ UNCHANGED <<linkVars, running, begun, listVars>>
  /\ \/ PumpRefreshes /\ UNCHANGED <<agentVars, commandVars>>
     \/ \E c \in running : OmpTakesSetting(c) /\ UNCHANGED <<agentVars, commandVars>>
     \/ \E c \in running : OmpTakesSubagents(c) /\ UNCHANGED <<settingVars, commandVars>>
     \/ \E c \in running : OmpTakesCommand(c) /\ UNCHANGED <<settingVars, agentVars>>
     \/ \E c \in Conn : Answer(c)

Painted == PaintList /\ UNCHANGED <<linkVars, requestVars, settingVars, agentVars, commandVars>>

Consequence == (Connect \/ Lose \/ Work \/ Painted) /\ UNCHANGED moves

Next == \/ Within(MaxMoves) /\ (SettingMove \/ DrawerMove \/ CommandMove \/ ListMove \/ Event)
        \/ Consequence

Spec == Init /\ [][Next]_vars

-----------------------------------------------------------------------------
(* Properties.                                                               *)

\* Nothing is on its way that could still change what is shown.
Settled ==
  /\ client \in running /\ client \notin notified
  /\ \A c \in Conn : \A i \in 1..Len(sent[c]) : sent[c][i].what \in AgentAsks \cup CommandAsks

\* The last get_state was answered by this child.
SettingsSettled == Settled /\ informed => \A s \in Setting \ doubtful : shown[s] = omp[client][s]

\* No change of the level is on its way, and the last one was answered by this child.
LevelSettled ==
  client \in running /\ ~misled /\ ~Waiting("subscribe") => level = levels[client]

\* However changes, refusals, late answers and restarts were interleaved: when
\* nothing is on its way that could change it, what the status line and the drawer
\* show is what omp has.
SettledShowsOmp == SettingsSettled /\ LevelSettled

\* refresh_state and refresh_subagents wait for a request in flight instead of
\* sending another: there must be one, or nothing is ever refreshed again.
FlagsHaveRequests ==
  /\ inFlight => Waiting("state")
  /\ queued => inFlight
  /\ refreshing => Waiting("agents")

\* What the window shows is one unbroken run of its own agent's messages, up to
\* where it reads on: none twice, none left out.
TailUnbroken ==
  \A i \in 1..Len(lines) : lines[i] = <<selected, nextByte - Len(lines) + i>>

\* Wherever the list was scrolled, and whatever came while it was not painted: the
\* pill counts the rows the list has had since it last followed its tail.
UnreadAreBelow == unread = IF following THEN 0 ELSE items - sighted

\* docs/protocol-notes.md:242: the view is repainted every second while a tool of
\* the transcript runs, and for no longer.
ClockWhileToolsRun == /\ ticking => active # {}
                      /\ client # NoConn => started = active /\ ticking = (active # {})
=============================================================================
