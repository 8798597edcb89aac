---------------------------- MODULE TranscriptList ----------------------------
(***************************************************************************)
(* The list on the screen over the transcript, and the clock of the tools  *)
(* that run in it.  Rows come from frames, commands and answers whether    *)
(* the view is painted or not; the list learns of them at a paint.  While  *)
(* it follows its tail the new rows are in sight; otherwise they are       *)
(* counted, for the pill and for the dot of the tab in the rail.           *)
(***************************************************************************)
EXTENDS Link, Naturals

CONSTANTS Tool,       \* tool calls
          MaxRows     \* bound: rows of one transcript

ASSUME TranscriptListAssumption == MaxRows \in Nat

VARIABLES
  rows,        \* the transcript's length
  active,      \* the tools of its rows that are Running
  started,     \* running_tool_started
  ticking,     \* running_tool_timer is Some
  items,       \* last_transcript_len, the item count of the list
  following,   \* the list follows its tail
  unread,      \* unread_below
  sighted      \* the items there were when it last followed its tail

listVars == <<rows, active, started, ticking, items, following, unread, sighted>>

ListTypeOK ==
  /\ {rows, items, unread, sighted} \subseteq 0..MaxRows
  /\ active \subseteq Tool /\ started \subseteq Tool
  /\ ticking \in BOOLEAN /\ following \in BOOLEAN

ListInit ==
  /\ rows = 0 /\ items = 0 /\ unread = 0 /\ sighted = 0
  /\ active = {} /\ started = {} /\ ticking = FALSE
  /\ following = TRUE

Sight == sighted' = IF following' THEN items' ELSE sighted

\* sync_running_tools, of the tools of the next state.
SyncRunningTools == started' = active' /\ ticking' = (active' # {})

\* sync_transcript_list: what it counts depends on where the list is.
SyncTranscriptList ==
  /\ items' = rows
  /\ unread' = CASE rows > items -> IF following THEN 0 ELSE unread + (rows - items)
                 [] rows < items -> 0
                 [] OTHER        -> unread
  /\ UNCHANGED following
  /\ Sight

\* A paint of the view; one of another tab does not come here.
PaintList ==
  /\ rows # items
  /\ SyncTranscriptList
  /\ UNCHANGED <<rows, active, started, ticking>>

\* A handler of the view pushes a row: a command, its answer, a refusal.
PushRow ==
  /\ rows < MaxRows
  /\ rows' = rows + 1
  /\ UNCHANGED <<active, started, ticking, items, following, unread, sighted>>

\* The pump applies what there is, and looks at the tools once at the end.
PumpApplies ==
  /\ \/ rows < MaxRows /\ rows' = rows + 1 /\ \E t \in Tool : active' = active \cup {t}
     \/ \E t \in active : active' = active \ {t} /\ UNCHANGED rows
  /\ SyncRunningTools
  /\ UNCHANGED <<items, following, unread, sighted>>

\* apply_agent_end: a turn that is over has no running tool.
TurnSettles ==
  /\ active' = IF phase' = "idle" THEN {} ELSE active
  /\ SyncRunningTools
  /\ UNCHANGED <<rows, items, following, unread, sighted>>

\* Slip: the tools are settled and the clock goes on.
AbortKeepsClock ==
  /\ active' = {}
  /\ SyncTranscriptList
  /\ UNCHANGED <<rows, started, ticking>>

\* do_abort: omp may never say that the tools have ended.
AbortSettles ==
  /\ active' = {} /\ SyncRunningTools
  /\ SyncTranscriptList
  /\ UNCHANGED rows

\* Slip: the pill is left as it is.
JumpKeepsCount ==
  /\ following' = TRUE
  /\ UNCHANGED <<rows, active, started, ticking, items, unread>>
  /\ Sight

\* jump_to_transcript_tail: the pill, and End.
JumpToTranscriptTail ==
  /\ following' = TRUE /\ unread' = 0
  /\ UNCHANGED <<rows, active, started, ticking, items>>
  /\ Sight

\* PageUp, PageDown and Home.
PageKey ==
  /\ following' = FALSE
  /\ UNCHANGED <<rows, active, started, ticking, items, unread>>
  /\ Sight

\* The list's scroll handler: only the list knows where it has come to.
Scrolled ==
  /\ following' \in BOOLEAN
  /\ unread' = IF following' THEN 0 ELSE unread
  /\ UNCHANGED <<rows, active, started, ticking, items>>
  /\ Sight

-----------------------------------------------------------------------------
(* What the life of the session does to them.                                *)

\* finish_connection: another transcript, whose tools have been settled.
ListAttach ==
  /\ rows' \in 0..MaxRows /\ items' = rows' /\ sighted' = rows'
  /\ following' = TRUE /\ unread' = 0
  /\ active' = {} /\ SyncRunningTools

\* handle_client_closed, in a batch of the pump: no row is settled.
ListLost == UNCHANGED <<rows, active, items, following, unread, sighted>> /\ SyncRunningTools

\* start_omp_update, and begin_connection on a session.
ListRecycle ==
  /\ ticking' = FALSE /\ started' \in {started, {}}
  /\ UNCHANGED <<rows, active, items, following, unread, sighted>>

\* return_to_launcher, and begin_connection from the launcher.
ListForget ==
  /\ rows' = 0 /\ items' = 0 /\ sighted' = 0 /\ unread' = 0
  /\ active' = {} /\ started' = {} /\ ticking' = FALSE
  /\ UNCHANGED following
=============================================================================
