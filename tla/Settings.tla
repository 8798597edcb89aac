------------------------------- MODULE Settings -------------------------------
(***************************************************************************)
(* What the status line and the pickers show of omp's settings.  A change  *)
(* is shown at once and sent; its answer, and the get_state that follows,  *)
(* correct what is shown.  get_state is asked for after a change, when the *)
(* model or a turn says so, and every two seconds of a live turn; requests *)
(* for it while one is in flight are answered by one more.                 *)
(***************************************************************************)
EXTENDS Requests

CONSTANTS
  Toggle,     \* fast mode, steering, follow-up and interrupt mode, auto compaction and retry
  Level,      \* the thinking level, the todos
  Model,      \* the model
  Echoed,     \* settings whose answer carries the value
  Value       \* their values; every setting has two

Setting == Toggle \cup Level \cup {Model}

ASSUME SettingsAssumption ==
  /\ Toggle \cap Level = {} /\ Model \notin Toggle \cup Level
  /\ Echoed \subseteq Setting /\ Model \in Echoed
  /\ Value = 0..1

VARIABLES
  shown,      \* projection.state and todos_raw
  inFlight,   \* state_refresh_in_flight
  queued,     \* state_refresh_queued
  timer,      \* live_state_timer is Some
  omp,        \* the settings of each connection's child
  notified,   \* connections with a frame to be received that asks for get_state
  informed,   \* the last get_state to end was of this child, and had an answer
  doubtful    \* settings of this session whose change ended with no answer of its
              \* child and nothing asked of it: the model, and a thinking level
              \* that was to be cycled

settingVars == <<shown, inFlight, queued, timer, omp, notified, informed, doubtful>>

SettingsTypeOK ==
  /\ shown \in [Setting -> Value]
  /\ inFlight \in BOOLEAN /\ queued \in BOOLEAN /\ timer \in BOOLEAN
  /\ informed \in BOOLEAN
  /\ doubtful \subseteq Setting
  /\ omp \in [Conn -> [Setting -> Value]]
  /\ notified \subseteq Conn

SettingsInit ==
  /\ shown = [s \in Setting |-> 0]
  /\ inFlight = FALSE /\ queued = FALSE /\ timer = FALSE
  /\ informed = FALSE /\ doubtful = {}
  /\ omp = [c \in Conn |-> [s \in Setting |-> 0]]
  /\ notified = {}

GetState == Request("state", Model, 0, 0)

\* Slip: a request while one is in flight is dropped.
RefreshStateOnce(q, flying, again) ==
  IF client = NoConn \/ flying
  THEN inFlight' = (client # NoConn) /\ queued' = FALSE /\ sent' = q
  ELSE inFlight' = TRUE /\ queued' = again /\ sent' = With(q, GetState)

\* refresh_state, from what the caller leaves of the two flags.
RefreshState(q, flying, again) ==
  /\ ~flying => Room(q)
  /\ IF client = NoConn THEN inFlight' = FALSE /\ queued' = FALSE /\ sent' = q
     ELSE IF flying THEN inFlight' = TRUE /\ queued' = TRUE /\ sent' = q
     ELSE inFlight' = TRUE /\ queued' = again /\ sent' = With(q, GetState)

NoRefresh(q) == sent' = q /\ UNCHANGED <<inFlight, queued>>

\* set_model, set_thinking_level, toggle_*, toggle_todo_task: shown at once.
Set(s, v, q) ==
  /\ Room(q)
  /\ IF client = NoConn THEN NoRefresh(q) /\ UNCHANGED shown
     ELSE /\ shown' = [shown EXCEPT ![s] = v]
          /\ NoRefresh(With(q, Request("set", s, v, shown[s])))

\* What the task of a change does with its answer.  A model that was refused
\* stays shown, and nothing asks omp for the one it has.
AnswerSet(c, r, q) ==
  /\ shown' = CASE r.status = "done" /\ r.key \in Echoed -> [shown EXCEPT ![r.key] = r.reply]
                [] r.status # "done" /\ r.key \in Toggle -> [shown EXCEPT ![r.key] = r.was]
                [] OTHER -> shown
  /\ doubtful' = doubtful \cup
       (IF r.key = Model /\ (r.status # "done" \/ c # client) THEN {Model} ELSE {})
  /\ IF r.key = Model THEN NoRefresh(q) ELSE RefreshState(q, inFlight, queued)
  /\ UNCHANGED informed

\* What the task of refresh_state does: hydrate_get_state, then the queued one.
AnswerState(c, r, q) ==
  /\ shown' = IF r.status = "done" THEN r.reply ELSE shown
  /\ informed' = (c = client /\ r.status = "done")
  /\ IF queued THEN RefreshState(q, FALSE, FALSE)
     ELSE inFlight' = FALSE /\ queued' = FALSE /\ sent' = q
  /\ UNCHANGED doubtful

\* cycle_model and cycle_thinking: an answer is shown; without one, the view
\* walks its own list, if it has one.
AnswerCycle(r, q) ==
  /\ IF r.status = "done"
     THEN shown' = [shown EXCEPT ![r.key] = r.reply] /\ RefreshState(q, inFlight, queued)
     ELSE \/ Set(r.key, 1 - shown[r.key], q)
          \/ NoRefresh(q) /\ UNCHANGED shown
  /\ doubtful' = doubtful \cup (IF r.status = "done" THEN {} ELSE {r.key})
  /\ UNCHANGED informed

SettingAsks == {"set", "state", "cycle"}

AnswerSetting(c, r, q) ==
  /\ CASE r.what = "set"     -> AnswerSet(c, r, q)
       [] r.what = "state"   -> AnswerState(c, r, q)
       [] r.what = "cycle"   -> AnswerCycle(r, q)
  /\ UNCHANGED <<timer, omp, notified>>

-----------------------------------------------------------------------------
(* What the user and omp do.                                                 *)

\* toggle_fast_mode and the five toggles like it.
ToggleSetting ==
  /\ client # NoConn
  /\ \E s \in Toggle : Set(s, 1 - shown[s], sent)
  /\ UNCHANGED <<timer, omp, notified, informed, doubtful>>

\* The model and thinking pickers, and a todo's box.
PickSetting ==
  /\ client # NoConn
  /\ \E s \in Level \cup {Model}, v \in Value : Set(s, v, sent)
  /\ UNCHANGED <<timer, omp, notified, informed, doubtful>>

CycleSetting ==
  /\ client # NoConn /\ Room(sent)
  /\ \E s \in Level \cup {Model} : sent' = With(sent, Request("cycle", s, 0, 0))
  /\ UNCHANGED settingVars

\* omp carries a command out, or refuses it.
OmpTakesSetting(c) ==
  /\ NextToTake(c) # <<>>
  /\ LET r == NextToTake(c)[1] IN
     /\ r.what \in SettingAsks
     /\ \/ Take(c, "refused", <<>>) /\ UNCHANGED omp
        \/ r.what = "state" /\ Take(c, "done", omp[c]) /\ UNCHANGED omp
        \/ LET v == IF r.what = "set" THEN r.val ELSE 1 - omp[c][r.key] IN
           /\ r.what \in {"set", "cycle"}
           /\ Take(c, "done", v)
           /\ omp' = [omp EXCEPT ![c][r.key] = v]
  /\ UNCHANGED <<shown, inFlight, queued, timer, notified, informed, doubtful>>

\* The model of a child changes, or its turn ends: a frame tells the view.
OmpChanges(c) ==
  /\ omp' = [omp EXCEPT ![c][Model] = 1 - @]
  /\ notified' = notified \cup {c}
  /\ UNCHANGED <<sent, shown, inFlight, queued, timer, informed, doubtful>>

\* sync_live_state_timer, with the client and the phase of the next state.
SyncTimer(on) ==
  timer' = (phase' = "streaming" /\ client' # NoConn /\ (timer \/ on))

\* The pump's handler: a frame that asks for get_state, or one that does not.
PumpRefreshes ==
  /\ client \in notified
  /\ notified' = notified \ {client}
  /\ RefreshState(sent, inFlight, queued)
  /\ SyncTimer(TRUE)
  /\ UNCHANGED <<shown, omp, informed, doubtful>>

\* The timer of a live turn.
TimerTick ==
  /\ timer
  /\ IF phase = "streaming" /\ client # NoConn
     THEN RefreshState(sent, inFlight, queued) /\ UNCHANGED timer
     ELSE timer' = FALSE /\ UNCHANGED <<inFlight, queued, sent>>
  /\ UNCHANGED <<shown, omp, notified, informed, doubtful>>

-----------------------------------------------------------------------------
(* What the life of the session does to them.                                *)

\* clear_live_timers: the task of a get_state in flight is not stopped.
ClearLiveTimers == timer' = FALSE /\ inFlight' = FALSE /\ queued' = FALSE

\* finish_connection: try_connect_omp read the new child's state, or could not.
SettingsAttach(c) ==
  /\ \/ shown' = omp[c] /\ informed' = TRUE
     \/ shown' = [s \in Setting |-> 0] /\ informed' = FALSE
  /\ doubtful' = {}
  /\ UNCHANGED <<inFlight, queued, timer, omp, notified>>

\* handle_client_closed, begin_connection on a session, shutdown_session.
SettingsLose == ClearLiveTimers /\ UNCHANGED <<shown, omp, notified, informed, doubtful>>

\* begin_connection from the launcher, return_to_launcher: a new projection.
SettingsForget ==
  /\ ClearLiveTimers
  /\ shown' = [s \in Setting |-> 0] /\ informed' = FALSE
  /\ doubtful' = {}
  /\ UNCHANGED <<omp, notified>>
=============================================================================
