------------------------------ MODULE Projection ------------------------------
(***************************************************************************)
(* SessionProjection: the reducer that turns the frames of one omp child   *)
(* into what the session shows.  It is filled from the history of the      *)
(* session first, page by page, and then by the frames the event pump      *)
(* hands it, in whatever order omp sends them; the supervisor's verdicts   *)
(* and the answers of get_state come in between.                           *)
(***************************************************************************)
EXTENDS BoundedText, Sequences, Functions

CONSTANTS ToolId,        \* toolCallId values
          ContentIndex,  \* content indices within an assistant message
          Failure,       \* (message, code) pairs of error rows
          DialogId,      \* ids of extension UI requests
          Chunk,         \* pieces of text on the wire
          Result,        \* toolResult messages, with the id of their call
          NoId,          \* of a row that has none, and of a frame without
          PageCap,      \* MESSAGE_PAGE_MAX_PAGES
          MaxItems,      \* bound: rows, pending dialogs and filled panels together
          MaxBytes       \* bound: bytes in all texts together

ASSUME ProjectionAssumption ==
  /\ NoId \notin ToolId \cup Failure \cup DialogId
  /\ ToolId \cap Failure = {}
  /\ \A s \in Chunk : IsChunk(s)
  /\ Result \subseteq [tool : ToolId, text : Chunk, status : {"ok", "err"}]
  /\ NoId \notin Result
  /\ PageCap \in Nat /\ MaxItems \in Nat /\ MaxBytes \in Nat

VARIABLES
  stage,         \* "history", or "messages" without pages, until the history is in
  hydrated,      \* pages hydrated since the last restart of the paging
  restarted,     \* stale_restarts > 0
  transcript,    \* the rows
  toolIndex,     \* tool_index
  current,       \* current_message
  phase,         \* run_phase
  quality,       \* state.quality
  streaming,     \* state.is_streaming
  dialogs,       \* pending_dialogs
  panels,        \* what else holds something: banner, goal, todos, ...
  lastEnd        \* history: the terminal agent_end just applied, or NoId

hydrationVars == <<stage, hydrated, restarted>>
rowVars   == <<transcript, toolIndex, current>>
stateVars == <<phase, quality, streaming>>
sideVars  == <<dialogs, panels>>
vars == <<hydrationVars, rowVars, stateVars, sideVars, lastEnd>>

RunPhase == {"idle", "streaming", "awaitingResume", "compacting", "retrying",
             "restarting", "dead"}
StateQuality == {"unknown", "durable", "live", "stale"}
ToolStatus == {"running", "ok", "err"}
RowKind == {"user", "text", "thinking", "tool", "notice", "error", "command",
            "compaction", "retry", "unknown"}
Panel == {"banner", "goal", "todos", "commands", "subagents", "display"}
Flag == {"none", "true", "false"}

\* A row: its kind, the tool or the error it is about, the tool's status, whether
\* it streams, and its bounded text (markdown, thinking, output).
Row == [kind : RowKind, id : ToolId \cup Failure \cup {NoId}, status : ToolStatus \cup {"none"},
        streaming : BOOLEAN, text : Text]

RowOK(r) ==
  /\ TextOK(r.text)
  /\ (r.kind = "tool" <=> r.status # "none")
  /\ r.streaming => r.kind \in {"text", "thinking"}

\* An index from what frames name to places in the transcript.
IsIndex(f, names) == DOMAIN f \subseteq names /\ f \in [DOMAIN f -> Nat]

Rows(kind) == {i \in DOMAIN transcript : transcript[i].kind = kind}

TypeOK ==
  /\ stage \in {"history", "messages", "live"} /\ hydrated \in Nat /\ restarted \in BOOLEAN
  /\ transcript \in Seq(Row) /\ \A i \in DOMAIN transcript : RowOK(transcript[i])
  /\ IsIndex(toolIndex, ToolId) /\ IsIndex(current, ContentIndex)
  /\ phase \in RunPhase /\ quality \in StateQuality
  /\ streaming \in Flag
  /\ dialogs \in Seq(DialogId) /\ panels \subseteq Panel
  /\ lastEnd \in (Result \cup {NoId}) \X (Failure \cup {NoId}) \cup {NoId}

NoIndex == [x \in {} |-> 0]

Init ==
  /\ stage = "history" /\ hydrated = 0 /\ restarted = FALSE
  /\ transcript = <<>> /\ toolIndex = NoIndex /\ current = NoIndex
  /\ phase = "idle" /\ quality = "unknown"
  /\ streaming = "none"
  /\ dialogs = <<>> /\ panels = {} /\ lastEnd = NoId

-----------------------------------------------------------------------------
(* Rows.                                                                    *)

Plain(kind) == [kind |-> kind, id |-> NoId, status |-> "none",
                streaming |-> FALSE, text |-> EmptyText]
ErrorRow(e) == [Plain("error") EXCEPT !.id = e]
TextRow(kind, s) == [Plain(kind) EXCEPT !.text = SetText(s)]
\* ToolCall::new_running.
NewRunning(t) == [Plain("tool") EXCEPT !.id = t, !.status = "running"]
\* A row just opened for a content index.
OpenRow(kind) == [Plain(kind) EXCEPT !.streaming = TRUE]

PushRow(r) == transcript' = Append(transcript, r) /\ UNCHANGED <<toolIndex, current>>

Put(f, x, i) == [y \in DOMAIN f \cup {x} |-> IF y = x THEN i ELSE f[y]]

\* The rows with tool t's present, and where it is: synth_tool_row makes it if no
\* frame has named t yet.
WithTool(t) == IF t \in DOMAIN toolIndex THEN transcript ELSE Append(transcript, NewRunning(t))
ToolRow(t)  == IF t \in DOMAIN toolIndex THEN toolIndex[t] ELSE Len(transcript) + 1

\* settle_orphaned_running_tools.
Settle(rows) == [i \in DOMAIN rows |->
                   IF rows[i].status = "running" THEN [rows[i] EXCEPT !.status = "err"]
                   ELSE rows[i]]

TotalBytes(rows) ==
  LET bytes[i \in 0..Len(rows)] == IF i = 0 THEN 0 ELSE bytes[i - 1] + rows[i].text.len
  IN bytes[Len(rows)]

WithinBounds ==
  /\ Len(transcript') + Len(dialogs') + Cardinality(panels') <= MaxItems
  /\ TotalBytes(transcript') <= MaxBytes

-----------------------------------------------------------------------------
(* Filling the history: hydrate_messages, driven by hydrate_history_pages.  *)

\* hydrate_assistant_message and the user and unrecognised messages: a row each.
HydrateRow(kind, s) ==
  /\ transcript' = Append(transcript, IF kind \in {"text", "thinking"} THEN TextRow(kind, s)
                                      ELSE Plain(kind))
  /\ UNCHANGED <<toolIndex, current>>

\* hydrate_tool_call: an id seen before is addressed anew.
HydrateToolCall(t) ==
  /\ transcript' = Append(transcript, NewRunning(t))
  /\ toolIndex' = Put(toolIndex, t, Len(transcript) + 1)
  /\ UNCHANGED current

\* hydrate_tool_result: appended to its call, or shown as command output.
HydrateToolResult(t, s, status) ==
  /\ transcript' = IF t \in DOMAIN toolIndex
                   THEN [transcript EXCEPT ![toolIndex[t]].text = PushStr(@, s),
                                           ![toolIndex[t]].status = status]
                   ELSE Append(transcript, TextRow("command", s))
  /\ UNCHANGED <<toolIndex, current>>

\* hydrate_messages: a message, or a part of one.
HydrateMessage ==
  \/ \E kind \in {"user", "text", "thinking", "unknown"}, s \in Chunk : HydrateRow(kind, s)
  \/ \E t \in ToolId : HydrateToolCall(t)
  \/ \E t \in ToolId, s \in Chunk, status \in {"ok", "err"} : HydrateToolResult(t, s, status)

\* A page of one message; without a next cursor it is the last.
HydratePage ==
  /\ stage = "history" /\ hydrated < PageCap
  /\ HydrateMessage
  /\ hydrated' = hydrated + 1
  /\ UNCHANGED <<stage, restarted, stateVars, sideVars, lastEnd>>

\* Slip: the paging restarts with the calls of the first attempt still indexed.
ClearHistoryKeepsIndex ==
  /\ stage = "history" /\ hydrated < PageCap /\ ~restarted
  /\ transcript' = <<>> /\ current' = NoIndex
  /\ hydrated' = 0 /\ restarted' = TRUE
  /\ UNCHANGED <<stage, toolIndex, stateVars, sideVars, lastEnd>>

\* The cursor has gone stale: clear_hydrated_history, once, and page again.
ClearHistory ==
  /\ stage = "history" /\ hydrated < PageCap /\ ~restarted
  /\ transcript' = <<>> /\ toolIndex' = NoIndex /\ current' = NoIndex
  /\ hydrated' = 0 /\ restarted' = TRUE
  /\ UNCHANGED <<stage, stateVars, sideVars, lastEnd>>

\* history_row_count.
HistoryRows == UNION {Rows(kind) : kind \in {"user", "text", "thinking", "tool", "command"}}

\* A page failed with no row yet: get_messages brings the history in one answer.
GetMessagesInstead ==
  /\ stage = "history" /\ hydrated < PageCap /\ HistoryRows = {}
  /\ stage' = "messages"
  /\ UNCHANGED <<hydrated, restarted, rowVars, stateVars, sideVars, lastEnd>>

HydrateAnswer ==
  /\ stage = "messages"
  /\ HydrateMessage
  /\ UNCHANGED <<hydrationVars, stateVars, sideVars, lastEnd>>

\* The history ends: no next cursor, a page that failed (also a second stale cursor
\* and the last busy answer), or too many pages.  What still runs is settled.
HistoryEnds ==
  /\ stage # "live"
  /\ transcript' = IF stage = "history" /\ hydrated >= PageCap
                   THEN Settle(Append(transcript, Plain("notice")))
                   ELSE Settle(transcript)
  /\ stage' = "live" /\ hydrated' = 0 /\ restarted' = FALSE
  /\ UNCHANGED <<toolIndex, current, stateVars, sideVars, lastEnd>>

-----------------------------------------------------------------------------
(* The agent's turn.                                                        *)

Live == stage = "live"
\* What a frame about rows alone leaves untouched.
RowsOnly == lastEnd' = NoId /\ UNCHANGED <<hydrationVars, stateVars, sideVars>>
\* What a frame about the runtime state leaves untouched.
NoRows == lastEnd' = NoId /\ UNCHANGED <<hydrationVars, toolIndex, current>>

PromoteQuality == IF quality = "unknown" THEN "unknown" ELSE "live"
StreamingOrIdle == IF streaming = "true" THEN "streaming" ELSE "idle"

AgentStart ==
  /\ Live
  /\ phase' = "streaming"
  /\ streaming' = "true"
  /\ quality' = PromoteQuality
  /\ NoRows /\ UNCHANGED <<transcript, sideVars>>

\* apply_late_tool_result: only a running tool takes it.
LateResult(m) ==
  LET rows == WithTool(m.tool)
      i    == ToolRow(m.tool)
  IN IF rows[i].status = "running"
     THEN [rows EXCEPT ![i].text = SetText(m.text), ![i].status = m.status]
     ELSE rows

\* Slip: every terminal agent_end shows its failure.
WithFailureAgain(rows, e) == IF e = NoId THEN rows ELSE Append(rows, ErrorRow(e))
\* emit_terminal_assistant_error: a failure shown before is not shown again.
WithFailure(rows, e) ==
  IF e = NoId \/ \E i \in DOMAIN rows : rows[i] = ErrorRow(e) THEN rows
  ELSE Append(rows, ErrorRow(e))

\* agent_end with at most one toolResult message, and the failure of its last
\* assistant message, if it has one.
AgentEnd(terminal, m, e) ==
  /\ Live
  /\ LET rows == IF m = NoId THEN transcript ELSE LateResult(m) IN
     transcript' = IF terminal THEN Settle(WithFailure(rows, e)) ELSE rows
  /\ toolIndex' = IF m = NoId THEN toolIndex ELSE Put(toolIndex, m.tool, ToolRow(m.tool))
  /\ phase' = IF terminal THEN "idle" ELSE "awaitingResume"
  /\ streaming' = "false"
  /\ quality' = IF quality = "live" THEN "durable" ELSE quality
  /\ lastEnd' = IF terminal THEN <<m, e>> ELSE NoId
  /\ UNCHANGED <<hydrationVars, current, sideVars>>

\* turn_end with one tool result.
TurnEnd(m) ==
  /\ Live
  /\ transcript' = LateResult(m)
  /\ toolIndex' = Put(toolIndex, m.tool, ToolRow(m.tool))
  /\ RowsOnly /\ UNCHANGED current

AutoCompactionStart ==
  /\ Live
  /\ phase' = "compacting"
  /\ transcript' = Append(transcript, Plain("compaction"))
  /\ NoRows /\ UNCHANGED <<quality, streaming, sideVars>>

AutoCompactionEnd ==
  /\ Live
  /\ phase' = StreamingOrIdle
  /\ transcript' = Append(transcript, Plain("compaction"))
  /\ NoRows /\ UNCHANGED <<quality, streaming, sideVars>>

AutoRetryStart ==
  /\ Live
  /\ phase' = "retrying"
  /\ transcript' = Append(transcript, Plain("retry"))
  /\ NoRows /\ UNCHANGED <<quality, streaming, sideVars>>

AutoRetryEnd ==
  /\ Live
  /\ phase' = StreamingOrIdle
  /\ panels' = panels \ {"banner"}
  /\ transcript' = Append(transcript, Plain("retry"))
  /\ NoRows /\ UNCHANGED <<quality, streaming, dialogs>>

\* retry_fallback_applied and retry_fallback_succeeded.
FallbackApplied ==
  /\ Live
  /\ panels' = panels \cup {"banner"}
  /\ transcript' = Append(transcript, Plain("retry"))
  /\ NoRows /\ UNCHANGED <<stateVars, dialogs>>

FallbackSucceeded ==
  /\ Live
  /\ panels' = panels \ {"banner"}
  /\ transcript' = Append(transcript, Plain("retry"))
  /\ NoRows /\ UNCHANGED <<stateVars, dialogs>>

-----------------------------------------------------------------------------
(* The assistant's message.                                                 *)

\* ensure_text_row and ensure_thinking_row: the row of a content index, whatever its
\* kind, or a new one.
EnsureRow(kind, ci) ==
  IF ci \in DOMAIN current THEN transcript ELSE Append(transcript, OpenRow(kind))
ContentRow(ci) == IF ci \in DOMAIN current THEN current[ci] ELSE Len(transcript) + 1

\* text_start and thinking_start.
ContentStart(kind, ci) ==
  /\ Live
  /\ transcript' = EnsureRow(kind, ci)
  /\ current' = Put(current, ci, ContentRow(ci))
  /\ RowsOnly /\ UNCHANGED toolIndex

\* text_delta and thinking_delta: a row of the other kind does not take it.
ContentDelta(kind, ci, s) ==
  /\ Live
  /\ LET rows == EnsureRow(kind, ci)
         i    == ContentRow(ci)
     IN transcript' = IF rows[i].kind = kind
                      THEN [rows EXCEPT ![i].text = PushStr(@, s)] ELSE rows
  /\ current' = Put(current, ci, ContentRow(ci))
  /\ RowsOnly /\ UNCHANGED toolIndex

\* text_end and thinking_end: the final content replaces the deltas.
ContentEnd(kind, ci, s) ==
  /\ Live
  /\ LET rows == EnsureRow(kind, ci)
         i    == ContentRow(ci)
     IN transcript' = IF rows[i].kind = kind
                      THEN [rows EXCEPT ![i].text = SetText(s), ![i].streaming = FALSE]
                      ELSE rows
  /\ current' = Put(current, ci, ContentRow(ci))
  /\ RowsOnly /\ UNCHANGED toolIndex

\* close_current_message.
ClosedRows(rows) ==
  [i \in DOMAIN rows |-> IF i \in {current[ci] : ci \in DOMAIN current}
                         THEN [rows[i] EXCEPT !.streaming = FALSE] ELSE rows[i]]

\* message_start, message_end, and the events start and done of a message update.
CloseMessage ==
  /\ Live
  /\ transcript' = ClosedRows(transcript) /\ current' = NoIndex
  /\ RowsOnly /\ UNCHANGED toolIndex

\* The event error of a message update.
MessageError(e) ==
  /\ Live
  /\ transcript' = Append(ClosedRows(transcript), ErrorRow(e)) /\ current' = NoIndex
  /\ RowsOnly /\ UNCHANGED toolIndex

-----------------------------------------------------------------------------
(* Tools, by toolCallId.                                                    *)

\* tool_start: a second start refreshes the arguments only.
ToolStart(t) ==
  /\ Live
  /\ transcript' = WithTool(t) /\ toolIndex' = Put(toolIndex, t, ToolRow(t))
  /\ RowsOnly /\ UNCHANGED current

\* Slip: an update of an unknown tool goes to the last row.
ToolUpdateLastRow(t, s) ==
  /\ Live /\ transcript # <<>>
  /\ transcript' = [transcript EXCEPT ![Len(transcript)].text = SetText(s)]
  /\ RowsOnly /\ UNCHANGED <<toolIndex, current>>

\* tool_update: the cumulative output replaces the one shown, whatever the status.
ToolUpdate(t, s) ==
  /\ Live
  /\ transcript' = [WithTool(t) EXCEPT ![ToolRow(t)].text = SetText(s)]
  /\ toolIndex' = Put(toolIndex, t, ToolRow(t))
  /\ RowsOnly /\ UNCHANGED current

\* tool_end.
ToolEnd(t, s, status) ==
  /\ Live
  /\ transcript' = [WithTool(t) EXCEPT ![ToolRow(t)].text = SetText(s),
                                       ![ToolRow(t)].status = status]
  /\ toolIndex' = Put(toolIndex, t, ToolRow(t))
  /\ RowsOnly /\ UNCHANGED current

-----------------------------------------------------------------------------
(* Frames that leave a row and nothing else.                                *)

\* One row, of a kind and a text that the handler's wording decides.
Leaves(r) == Live /\ PushRow(r) /\ RowsOnly

ImageEnd          == Leaves(Plain("notice"))
QuietEventNotice  == Leaves(Plain("notice"))      \* ttsr_triggered, todo_reminder
LocalOnlyPrompt   == Leaves(Plain("notice"))      \* prompt_result, agent not invoked
CommandOutput(s)  == Leaves(TextRow("command", s))
ExtensionError(e) == Leaves(ErrorRow(e))
PushUnknown       == Leaves(Plain("unknown"))     \* also model_changed
PushUserMessage   == Leaves(Plain("user"))
\* notice and the notify request: an error row or a notice.
Notice(e) == Leaves(IF e = NoId THEN Plain("notice") ELSE ErrorRow(e))

RpcFrameError(e) ==
  /\ Live
  /\ transcript' = transcript \o <<ErrorRow(e), Plain("unknown")>>
  /\ RowsOnly /\ UNCHANGED <<toolIndex, current>>

-----------------------------------------------------------------------------
(* State around the transcript.                                             *)

\* The panels a frame sets or clears, with no row.
SetPanels(new) ==
  /\ panels' = new
  /\ lastEnd' = NoId /\ UNCHANGED <<hydrationVars, rowVars, stateVars, dialogs>>

TodoAutoClear   == Live /\ SetPanels(panels \ {"todos"})
CommandsUpdate  == Live /\ SetPanels(panels \cup {"commands"})
SubagentFrame   == Live /\ SetPanels(panels \cup {"subagents"})
SetDisplay      == Live /\ SetPanels(panels \cup {"display"})
HydrateCommands == Live /\ SetPanels(panels \cup {"commands"})

\* goal_updated: cleared, set, or not understood; a notice in each case.
GoalUpdated ==
  /\ Live
  /\ panels' \in {panels \ {"goal"}, panels \cup {"goal"}, panels}
  /\ transcript' = Append(transcript, Plain("notice"))
  /\ NoRows /\ UNCHANGED <<stateVars, dialogs>>

\* hydrate_get_state: the fields the snapshot has, and Durable.  session_info_update
\* does the same when it is a snapshot.
HydrateGetState(isStreaming, todos) ==
  /\ streaming' = IF isStreaming = "none" THEN streaming ELSE isStreaming
  /\ quality' = "durable"
  /\ panels' = IF todos THEN panels \cup {"todos"} ELSE panels
  /\ lastEnd' = NoId
  /\ UNCHANGED <<hydrationVars, rowVars, phase, dialogs>>

\* enqueue_dialog: a request with a known id replaces the one pending.
EnqueueDialog(d) ==
  /\ Live
  /\ dialogs' = IF d \in Range(dialogs) THEN dialogs ELSE Append(dialogs, d)
  /\ lastEnd' = NoId /\ UNCHANGED <<hydrationVars, rowVars, stateVars, panels>>

\* A cancel request of omp; the session removes an answered dialog the same way.
CancelDialog(d) ==
  /\ Live
  /\ dialogs' = SelectSeq(dialogs, LAMBDA x : x # d)
  /\ lastEnd' = NoId /\ UNCHANGED <<hydrationVars, rowVars, stateVars, panels>>

\* The supervisor's verdicts.
MarkRestarting ==
  /\ Live
  /\ phase' = "restarting" /\ quality' = "stale" /\ dialogs' = <<>>
  /\ lastEnd' = NoId /\ UNCHANGED <<hydrationVars, rowVars, streaming, panels>>

MarkDead ==
  /\ Live
  /\ phase' = "dead" /\ quality' = "stale"
  /\ lastEnd' = NoId /\ UNCHANGED <<hydrationVars, rowVars, streaming, sideVars>>

\* do_abort stops the spinners before omp has been asked.
SettleAborted ==
  /\ Live
  /\ transcript' = Settle(transcript)
  /\ RowsOnly /\ UNCHANGED <<toolIndex, current>>

-----------------------------------------------------------------------------
(* The system.                                                              *)

Hydrating ==
  \/ HydratePage \/ ClearHistory \/ GetMessagesInstead \/ HydrateAnswer \/ HistoryEnds

ToolFrame(t) ==
  \/ ToolStart(t)
  \/ \E s \in Chunk : ToolUpdate(t, s)
  \/ \E s \in Chunk, status \in {"ok", "err"} : ToolEnd(t, s, status)
  \/ \E m \in Result : m.tool = t /\ TurnEnd(m)

TurnFrame ==
  \/ AgentStart
  \/ \E terminal \in BOOLEAN, m \in Result \cup {NoId}, e \in Failure \cup {NoId} :
       AgentEnd(terminal, m, e)
  \/ AutoCompactionStart \/ AutoCompactionEnd
  \/ AutoRetryStart \/ AutoRetryEnd \/ FallbackApplied \/ FallbackSucceeded

MessageFrame ==
  \/ \E kind \in {"text", "thinking"}, ci \in ContentIndex :
       \/ ContentStart(kind, ci)
       \/ \E s \in Chunk : ContentDelta(kind, ci, s) \/ ContentEnd(kind, ci, s)
  \/ CloseMessage
  \/ \E e \in Failure : MessageError(e)

RowFrame ==
  \/ ImageEnd \/ QuietEventNotice \/ LocalOnlyPrompt \/ PushUnknown \/ PushUserMessage
  \/ \E s \in Chunk : CommandOutput(s)
  \/ \E e \in Failure : ExtensionError(e) \/ RpcFrameError(e)
  \/ \E e \in Failure \cup {NoId} : Notice(e)

SideFrame ==
  \/ TodoAutoClear \/ CommandsUpdate \/ SubagentFrame \/ SetDisplay \/ HydrateCommands
  \/ GoalUpdated
  \/ \E d \in DialogId : EnqueueDialog(d) \/ CancelDialog(d)

Apply == TurnFrame \/ MessageFrame \/ (\E t \in ToolId : ToolFrame(t)) \/ RowFrame \/ SideFrame

Others ==
  \/ \E isStreaming \in Flag, todos \in BOOLEAN : HydrateGetState(isStreaming, todos)
  \/ MarkRestarting \/ MarkDead \/ SettleAborted

Next == (Hydrating \/ Apply \/ Others) /\ WithinBounds

Spec == Init /\ [][Next]_vars

-----------------------------------------------------------------------------
(* Properties.                                                              *)

\* A toolCallId always addresses a tool row of that id, and a row that streams is
\* one the next end of the message will close: neither a restart of the paging nor
\* any interleaving of messages and tools leaves an index into the wrong row, or a
\* row streaming for ever.
RowsAddressed ==
  /\ \A t \in DOMAIN toolIndex : /\ toolIndex[t] \in Rows("tool")
                                 /\ transcript[toolIndex[t]].id = t
  /\ \A ci \in DOMAIN current : current[ci] \in Rows("text") \cup Rows("thinking")
  /\ \A i \in DOMAIN transcript :
       transcript[i].streaming => \E ci \in DOMAIN current : current[ci] = i

\* However the deltas of a row were cut, interleaved and replaced, its text is within
\* its bounds and reads as if it had come in one piece.
TextsReadAsStreamed ==
  \A i \in DOMAIN transcript : Bounded(transcript[i].text) /\ CutsDoNotShow(transcript[i].text)

\* Once the history is in, rows keep their place, their kind and the id they are
\* about, a tool that ended never runs again, a text row whose message is over never
\* changes, and a frame about one tool touches no row of another: a late delta, result
\* or update reaches the row it belongs to, in any interleaving.
FramesReachTheirRow ==
  [][Live =>
       /\ Len(transcript') >= Len(transcript)
       /\ \A i \in DOMAIN transcript :
            LET r == transcript[i]  q == transcript'[i] IN
            /\ q.kind = r.kind /\ q.id = r.id
            /\ r.kind = "tool" /\ r.status # "running" => q.status # "running"
            /\ r # q => \/ r.kind = "tool"
                        \/ \E ci \in DOMAIN current : current[ci] = i
            /\ r # q => \A t \in ToolId : ToolFrame(t) => r.id = t]_vars

\* A terminal agent_end that comes twice in a row changes nothing the second time.
DuplicateEndIsSilent ==
  [][lastEnd # NoId /\ lastEnd' = lastEnd => UNCHANGED <<rowVars, stateVars, sideVars>>]_vars

=============================================================================
