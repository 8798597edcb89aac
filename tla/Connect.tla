------------------------------- MODULE Connect -------------------------------
(***************************************************************************)
(* One omp child from the search for its program to its end:                *)
(* try_connect_omp discovers omp, drives the handshake over blocking calls  *)
(* of a client nobody receives events from yet, hydrates the history page   *)
(* by page and hands the connection to the pump; a deliberate close runs    *)
(* shutdown_child on it.  The client is what its callers see of RpcClient:  *)
(* calls are sequential here, so one call, one line of answers and one      *)
(* closing stand for its maps, queues and tasks.                            *)
(***************************************************************************)
EXTENDS Naturals, Sequences, FiniteSets, FiniteSetsExt, Discovery

CONSTANTS Prepare,      \* calls before the history: get_state, the commands, the
                        \* subscription, and set_host_tools with the host bridge
          MaxPages,     \* MESSAGE_PAGE_MAX_PAGES (50)
          BusyRetries,  \* MESSAGE_PAGE_BUSY_RETRIES (8)
          EventCap,     \* CLIENT_EVENT_CHANNEL_CAP (512)
          MaxCalls,     \* bound: calls of one connect
          MaxSaid,      \* bound: frames the child writes
          MaxMoves      \* bound: times the history changes under the pages

ASSUME ConnectAssumption ==
  /\ {Prepare, MaxSaid, MaxMoves} \subseteq Nat
  /\ {MaxPages, BusyRetries, EventCap, MaxCalls} \subseteq Nat \ {0}

VARIABLES
  step,     \* where try_connect_omp stands
  resume,   \* it passes --resume
  calls,    \* calls made on this client: req_<n>
  reply,    \* what the last of them returned
  pages, attempt, restarts, cursor,   \* hydrate_history_pages
  rows,     \* history rows of the new projection: pages of one history or another
  history,  \* how often omp's history has changed
  childUp, taken, said, out,  \* the child: lines it took, frames it wrote, its stdout
  stdin,    \* the writer task's end of the child's stdin
  hand,     \* the frame the reader task holds
  link,     \* close_all: not begun, begun, Closed sent
  events,   \* event channel
  down,     \* where shutdown_child stands
  waits,    \* the tasks of terminated() and wait()
  killer    \* the task of kill()

pageVars == <<pages, attempt, restarts, cursor, rows>>
connectVars == <<step, resume, pageVars, history>>
childVars == <<childUp, taken, said, out>>
clientVars == <<calls, reply, stdin, hand, link, events>>
downVars == <<down, waits, killer>>
ompVars == <<connectVars, childVars, clientVars, downVars>>

Calling == {"negotiate", "prepare", "page", "messages"}
Waiters == {"terminated", "wait"}
Page == [history : Nat, page : Nat]
NoCursor == [history |-> 0, page |-> 0]

\* A frame is the answer to a call, or an event (0), or does not decode.
Bad == MaxCalls + 1
NoFrame == MaxCalls + 2
Closed == MaxCalls + 3

ConnectTypeOK ==
  /\ step \in Calling \cup {"discovering", "spawned", "connected", "failed"}
  /\ resume \in BOOLEAN
  /\ calls \in 0..MaxCalls
  /\ reply \in {"none", "waiting", "ok", "timeout", "died"}
  /\ pages \in 0..MaxPages /\ attempt \in 0..BusyRetries /\ restarts \in 0..1
  /\ cursor \in Page
  /\ rows \in Seq(Page)
  /\ history \in 0..MaxMoves
  /\ childUp \in BOOLEAN /\ taken \in 0..calls /\ said \in 0..MaxSaid
  /\ out \in Seq(0..Bad)
  /\ stdin \in {"open", "closing", "closed"}
  /\ hand \in (0..MaxCalls) \cup {NoFrame}
  /\ link \in {"up", "closing", "announced"}
  /\ events \in Seq({0, Closed}) /\ Len(events) <= EventCap
  /\ down \in {"no", "racing", "reaping", "graceful", "killed"}
  /\ waits \in [Waiters -> {"idle", "waiting", "told", "untold"}]
  /\ killer \in {"idle", "asked", "done"}

ConnectInit ==
  /\ step = "discovering" /\ resume \in BOOLEAN
  /\ calls = 0 /\ reply = "none"
  /\ pages = 0 /\ attempt = 0 /\ restarts = 0 /\ cursor = NoCursor
  /\ rows = <<>> /\ history = 0
  /\ childUp = FALSE /\ taken = 0 /\ said = 0 /\ out = <<>>
  /\ stdin = "open" /\ hand = NoFrame /\ link = "up" /\ events = <<>>
  /\ down = "no" /\ waits = [w \in Waiters |-> "idle"] /\ killer = "idle"

-----------------------------------------------------------------------------
(* RpcClient::connect.                                                      *)

\* A client on a fresh child, none of its calls made.
Spawn ==
  /\ step' = "spawned"
  /\ calls' = 0 /\ reply' = "none"
  /\ childUp' = TRUE /\ taken' = 0 /\ out' = <<>>
  /\ stdin' = "open" /\ hand' = NoFrame /\ link' = "up" /\ events' = <<>>
  /\ UNCHANGED said

\* discover, once for both attempts; spawn may fail.
Discover ==
  /\ step = "discovering"
  /\ \E inputs \in Inputs :
       \/ Runs(inputs) /\ Spawn
       \/ step' = "failed" /\ UNCHANGED <<childVars, clientVars>>
  /\ UNCHANGED <<resume, pageVars, history, downVars>>

\* send: the thread blocks on its next call, which fails at once after close_all.
Send(next) ==
  /\ calls < MaxCalls
  /\ calls' = calls + 1
  /\ reply' = IF link = "up" THEN "waiting" ELSE "died"
  /\ step' = next
  /\ UNCHANGED <<childVars, stdin, hand, link, events>>

Returned == reply \notin {"none", "waiting"}

\* Before there are tasks, connect_failure reaps or kills the child, or dropping
\* its Child does; afterwards they keep it.
HandshakeKills == step = "spawned"

\* A failed connect: once more without the session, if it tried to resume one,
\* which is forgotten.  The first client is dropped and not followed further.
ConnectFails ==
  /\ \/ resume /\ Spawn
     \/ /\ ~resume
        /\ step' = "failed"
        /\ childUp' = (childUp /\ ~HandshakeKills)
        /\ UNCHANGED <<taken, said, out, clientVars>>
  /\ resume' = FALSE

\* read_ready waits, with no timer, for the first line: Eof, a line that is not
\* `ready` and a version without 2 all fail.
ReadReady ==
  /\ step = "spawned"
  /\ \/ Send("negotiate") /\ UNCHANGED resume
     \/ ConnectFails
  /\ UNCHANGED <<pageVars, history, downVars>>

\* negotiate_v2 needs a success that names version 2.
Negotiated ==
  /\ step = "negotiate" /\ Returned
  /\ \/ reply = "ok" /\ Send("prepare") /\ UNCHANGED resume
     \/ ConnectFails
  /\ UNCHANGED <<pageVars, history, downVars>>

\* Calls whose failure only costs what they would have brought.
Prepared == calls - 1
NextPrepares ==
  /\ step = "prepare" /\ Returned
  /\ Prepared < Prepare
  /\ Send("prepare")
  /\ UNCHANGED <<resume, pageVars, history, downVars>>

-----------------------------------------------------------------------------
(* hydrate_history_pages.                                                   *)

\* The page the cursor asks for, of the history as it stands.
Asked == IF cursor = NoCursor THEN [history |-> history, page |-> 1] ELSE cursor
Stale == cursor # NoCursor /\ cursor.history # history

\* The function returns, and its locals with it.
Hydrated ==
  /\ step' = "connected"
  /\ pages' = 0 /\ attempt' = 0 /\ restarts' = 0 /\ cursor' = NoCursor
  /\ UNCHANGED <<childVars, clientVars>>

\* The first attempt at the page of cursor c.
AskPage(c, before) ==
  /\ Send("page")
  /\ cursor' = c /\ pages' = before /\ attempt' = 1

FirstPage ==
  /\ step = "prepare" /\ Returned
  /\ Prepared = Prepare
  /\ AskPage(NoCursor, 0)
  /\ UNCHANGED <<resume, restarts, rows, history, downVars>>

\* No nextCursor, or no data, ends the loop, and so does the last of MaxPages.
PageComes ==
  /\ step = "page" /\ reply = "ok" /\ ~Stale
  /\ rows' = Append(rows, Asked)
  /\ \/ /\ pages + 1 < MaxPages
        /\ AskPage([Asked EXCEPT !.page = @ + 1], pages + 1)
        /\ UNCHANGED restarts
     \/ Hydrated
  /\ UNCHANGED <<resume, history, downVars>>

\* session_busy: the same page again after 150 ms, BusyRetries attempts in all.
PageBusy ==
  /\ step = "page" /\ reply = "ok"
  /\ attempt < BusyRetries
  /\ Send("page")
  /\ attempt' = attempt + 1
  /\ UNCHANGED <<resume, pages, restarts, cursor, rows, history, downVars>>

\* Slip: the rows of the history that changed stay.
PageStaleKeepsRows ==
  /\ step = "page" /\ reply = "ok" /\ Stale
  /\ restarts = 0
  /\ restarts' = 1
  /\ AskPage(NoCursor, 0)
  /\ UNCHANGED <<resume, rows, history, downVars>>

\* stale_cursor: clear_hydrated_history, and from the first page, once.
PageStale ==
  /\ step = "page" /\ reply = "ok" /\ Stale
  /\ restarts = 0
  /\ rows' = <<>>
  /\ restarts' = 1
  /\ AskPage(NoCursor, 0)
  /\ UNCHANGED <<resume, history, downVars>>

\* Any other refusal, a timeout, a dead child, retries used up: what was taken
\* stays, and only without any row is the whole history asked for.
PageFails ==
  /\ step = "page" /\ Returned
  /\ reply = "ok" /\ Stale => restarts = 1
  /\ \/ rows = <<>> /\ Send("messages") /\ UNCHANGED <<pages, attempt, restarts, cursor>>
     \/ rows # <<>> /\ Hydrated
  /\ UNCHANGED <<resume, rows, history, downVars>>

MessagesCome ==
  /\ step = "messages" /\ Returned
  /\ \/ reply = "ok" /\ rows' = <<[history |-> history, page |-> 1]>>
     \/ UNCHANGED rows
  /\ Hydrated
  /\ UNCHANGED <<resume, history, downVars>>

HandshakeStep ==
  \/ Negotiated \/ NextPrepares
  \/ FirstPage \/ PageComes \/ PageBusy \/ PageStale \/ PageFails \/ MessagesCome

\* External: a turn that goes on in omp changes its history (which only a fetch
\* that is under way can tell).
HistoryMoves ==
  /\ history < MaxMoves
  /\ step = "page" /\ cursor # NoCursor
  /\ history' = history + 1
  /\ UNCHANGED <<step, resume, pageVars, childVars, clientVars, downVars>>

-----------------------------------------------------------------------------
(* The client's tasks, once connect has spawned them, and the child.        *)

Running == step \notin {"discovering", "spawned"}

\* Slip: the timer starts when the line is written.
TimerAfterWrite ==
  /\ reply = "waiting" /\ taken = calls
  /\ reply' = "timeout"
  /\ UNCHANGED <<connectVars, childVars, calls, stdin, hand, link, events, downVars>>

\* DEFAULT_COMMAND_TIMEOUT.
TimerFires ==
  /\ reply = "waiting"
  /\ reply' = "timeout"
  /\ UNCHANGED <<connectVars, childVars, calls, stdin, hand, link, events, downVars>>

\* The writer passes the queued lines on, in order, as the child reads them.
WriteLine ==
  /\ Running /\ childUp /\ taken < calls
  /\ taken' = taken + 1
  /\ UNCHANGED <<connectVars, childUp, said, out, clientVars, downVars>>

\* The None of close_stdin comes after every line queued before it; a writer
\* that fails on a dead child or finds its channel closed drops stdin too.
CloseStdin ==
  /\ stdin = "closing"
  /\ taken = calls \/ ~childUp \/ link = "announced"
  /\ stdin' = "closed"
  /\ UNCHANGED <<connectVars, childVars, calls, reply, hand, link, events, downVars>>

\* Answers to calls it took, late and repeated ones included, events, a bad line.
ChildSays ==
  /\ Running /\ childUp
  /\ said < MaxSaid /\ out = <<>>
  /\ said' = said + 1
  /\ \E frame \in (0..taken) \cup {Bad} : out' = <<frame>>
  /\ UNCHANGED <<connectVars, childUp, taken, clientVars, downVars>>

\* Exit, crash, or RpcClient::kill; what it wrote stays readable.
ChildEnds ==
  /\ Running /\ childUp
  /\ childUp' = FALSE
  /\ UNCHANGED <<connectVars, taken, said, out, clientVars, downVars>>

\* close_all_with_exit, first part: the flag, and every sender dropped.
BeginClose ==
  /\ link' = IF link = "up" THEN "closing" ELSE link
  /\ reply' = IF link = "up" /\ reply = "waiting" THEN "died" ELSE reply

ReadFrame ==
  /\ Running /\ hand = NoFrame /\ out # <<>>
  /\ out' = Tail(out)
  /\ IF Head(out) = Bad
       THEN BeginClose /\ UNCHANGED hand
       ELSE hand' = Head(out) /\ UNCHANGED <<link, reply>>
  /\ UNCHANGED <<connectVars, childUp, taken, said, calls, stdin, events, downVars>>

\* Eof, the exit watch, a write that failed.
DeathSeen ==
  /\ Running /\ ~childUp /\ link = "up"
  /\ BeginClose
  /\ UNCHANGED <<connectVars, childVars, calls, stdin, hand, events, downVars>>

\* The waiting call takes its answer; any other frame becomes an event, which
\* waits for room, and is void once the channel is closed.
RouteFrame ==
  /\ hand # NoFrame
  /\ \/ /\ hand = calls /\ reply = "waiting"
        /\ reply' = "ok"
        /\ UNCHANGED events
     \/ /\ ~(hand = calls /\ reply = "waiting")
        /\ \/ link = "announced" /\ UNCHANGED events
           \/ link # "announced" /\ Len(events) < EventCap /\ events' = Append(events, 0)
        /\ UNCHANGED reply
  /\ hand' = NoFrame
  /\ UNCHANGED <<connectVars, childVars, calls, stdin, link, downVars>>

\* close_all_with_exit, second part: Closed waits for room, then both channels
\* are closed.
AnnounceClosed ==
  /\ link = "closing"
  /\ Len(events) < EventCap
  /\ events' = Append(events, Closed)
  /\ link' = "announced"
  /\ UNCHANGED <<connectVars, childVars, calls, reply, stdin, hand, downVars>>

\* The pump, which exists from finish_connection until take_and_close_client.
PumpReceives ==
  /\ step = "connected" /\ down = "no"
  /\ events # <<>>
  /\ events' = Tail(events)
  /\ UNCHANGED <<connectVars, childVars, calls, reply, stdin, hand, link, downVars>>

ClientStep == TimerFires \/ CloseStdin \/ ReadFrame \/ DeathSeen \/ RouteFrame
              \/ AnnounceClosed
-----------------------------------------------------------------------------
(* shutdown_child over RpcClientHandle, whose operations each start a task.  *)

\* take_and_close_client drops the pump first.
BeginShutdown ==
  /\ step = "connected" /\ down = "no"
  /\ down' = "racing"
  /\ stdin' = IF stdin = "open" THEN "closing" ELSE stdin
  /\ waits' = [waits EXCEPT !["terminated"] = "waiting"]
  /\ UNCHANGED <<connectVars, childVars, calls, reply, hand, link, events, killer>>

\* Slip: wait does not notice that the channel is closed.
WaiterWantsClosed(w) ==
  /\ waits[w] = "waiting"
  /\ events # <<>>
  /\ events' = Tail(events)
  /\ waits' = IF Head(events) = Closed THEN [waits EXCEPT ![w] = "told"] ELSE waits
  /\ UNCHANGED <<connectVars, childVars, calls, reply, stdin, hand, link, down, killer>>

\* RpcClient::wait in the task of terminated() or of wait(): it takes events, for
\* nobody, until it meets Closed or the closed channel is empty.
WaiterReceives(w) ==
  /\ waits[w] = "waiting"
  /\ \/ /\ events # <<>>
        /\ events' = Tail(events)
        /\ waits' = IF Head(events) = Closed THEN [waits EXCEPT ![w] = "told"] ELSE waits
     \/ /\ events = <<>> /\ link = "announced"
        /\ waits' = [waits EXCEPT ![w] = "untold"]
        /\ UNCHANGED events
  /\ UNCHANGED <<connectVars, childVars, calls, reply, stdin, hand, link, down, killer>>

Heard(w) == waits[w] \in {"told", "untold"}

\* terminated() delivered first.
ExitsInTime ==
  /\ down = "racing" /\ Heard("terminated")
  /\ down' = "graceful"
  /\ UNCHANGED <<connectVars, childVars, clientVars, waits, killer>>

\* GRACEFUL_STDIN_CLOSE_DEADLINE: kill, forget terminated()'s answer (its task
\* goes on taking events), wait.
DeadlinePasses ==
  /\ down = "racing" /\ ~Heard("terminated")
  /\ down' = "reaping"
  /\ killer' = "asked"
  /\ waits' = [waits EXCEPT !["wait"] = "waiting"]
  /\ UNCHANGED <<connectVars, childVars, clientVars>>

KillChild ==
  /\ killer = "asked"
  /\ killer' = "done"
  /\ childUp' = FALSE
  /\ UNCHANGED <<connectVars, taken, said, out, clientVars, down, waits>>

Reaped ==
  /\ down = "reaping" /\ Heard("wait")
  /\ down' = "killed"
  /\ UNCHANGED <<connectVars, childVars, clientVars, waits, killer>>

ShutdownStep == ExitsInTime \/ DeadlinePasses \/ KillChild \/ Reaped

-----------------------------------------------------------------------------
ConnectNext ==
  \/ Discover \/ ReadReady \/ HandshakeStep \/ HistoryMoves
  \/ ClientStep \/ PumpReceives
  \/ WriteLine \/ ChildSays \/ ChildEnds
  \/ BeginShutdown \/ ShutdownStep
  \/ \E w \in Waiters : WaiterReceives(w)

\* The executor runs every task that can run, and timers fire.  Nothing is
\* assumed of the child, which may stop reading, answering or ending, nor of the
\* pump, which may sit on a full window.
Fairness ==
  /\ WF_ompVars(HandshakeStep) /\ WF_ompVars(TimerFires)
  /\ WF_ompVars(CloseStdin) /\ WF_ompVars(ReadFrame) /\ WF_ompVars(DeathSeen)
  /\ WF_ompVars(RouteFrame) /\ WF_ompVars(AnnounceClosed)
  /\ WF_ompVars(ExitsInTime \/ DeadlinePasses) /\ WF_ompVars(KillChild) /\ WF_ompVars(Reaped)
  /\ \A w \in Waiters : WF_ompVars(WaiterReceives(w))

ConnectSpec == ConnectInit /\ [][ConnectNext]_ompVars /\ Fairness

-----------------------------------------------------------------------------
(* Properties.                                                              *)

\* The pages a session opens with are the first pages of one history, in order
\* and none twice, however often omp's history changed, was busy or failed to
\* answer while they were fetched.
OneHistory ==
  \A i \in DOMAIN rows : rows[i].page = i /\ rows[i].history = rows[1].history

\* Once the child has said ready, the connect ends: also when the child then
\* reads, answers or says nothing, dies, or says more than the event channel
\* holds while nobody receives.
ConnectEnds == step \in Calling ~> step \notin Calling

\* A shutdown ends, whatever the child does and whichever of the two waiting
\* tasks meets the one Closed; and one that ended by force leaves no child.
ShutdownEnds ==
  down # "no" ~> down = "graceful" \/ (down = "killed" /\ ~childUp)
=============================================================================
