------------------------------ MODULE RpcClient ------------------------------
(***************************************************************************)
(* One connected RpcClient: the callers inside send_internal, the four     *)
(* tasks that share Inner (writer, reader, exit watch, and whichever of    *)
(* them runs close_all), the consumer of the event channel, and the omp    *)
(* child at the other end of the two pipes.  A step is what a task does    *)
(* between two awaits that can suspend it.                                 *)
(***************************************************************************)
EXTENDS Naturals, Sequences, FiniteSets

CONSTANTS Request,      \* ids of the calls made on this connection (req_<n>)
          Droppable,    \* calls whose future the caller may drop
          NoRequest,    \* the id of a frame that is no response with an id
          WriterCap,    \* capacity of the writer channel (64)
          EventCap,     \* capacity of the event channel (512)
          OutCap,       \* frames the child's stdout pipe holds
          MaxFrames,    \* bound: frames the child emits
          MaxRaw        \* bound: calls of send_raw

Raw    == "raw"          \* a line of send_raw
Eof    == "eof"          \* the None of close_stdin
NoLine == "no line"

ASSUME ClientAssumption ==
  /\ Droppable \subseteq Request
  /\ NoRequest \notin Request
  /\ Request \cap {Raw, Eof, NoLine} = {}
  /\ {WriterCap, EventCap, OutCap} \subseteq Nat \ {0}
  /\ {MaxFrames, MaxRaw} \subseteq Nat

VARIABLES
  call,       \* where each send_internal stands, then its outcome
  pending,    \* keys of Inner.pending: the map owns the oneshot's sender
  answered,   \* calls whose oneshot holds a response
  writerQ,    \* writer channel
  raws,       \* calls of send_raw so far
  halfClosed, \* close_stdin has queued its None
  writer,     \* writer task: pc and the line in hand
  childUp, received, stdout, emitted,    \* the child
  reader,     \* reader task: pc and the frame in hand
  watcher,    \* exit-watch task
  closed, closer, stage, exitCode,                  \* close_all_with_exit
  events, eventsClosed, delivered                   \* event channel, consumer

callVars  == <<call, pending, answered>>
queueVars == <<writerQ, raws, halfClosed>>
childVars == <<childUp, received, stdout, emitted>>
closeVars == <<closed, closer, stage, exitCode>>
eventVars == <<events, eventsClosed, delivered>>
vars == <<callVars, queueVars, writer, childVars, reader, watcher,
          closeVars, eventVars>>

Line    == Request \cup {Raw}
Message == Line \cup {Eof}

\* A logical frame: its place in the child's output, the call it responds to,
\* and whether the decoder rejects it.
Frame == [seq : Nat, req : Request \cup {NoRequest}, bad : BOOLEAN]
NoFrame == [seq |-> 0, req |-> NoRequest, bad |-> FALSE]
Closed  == [seq |-> 0, req |-> NoRequest, bad |-> TRUE]    \* ClientEvent::Closed

Running  == {"enqueue", "waiting", "expired", "refused", "orphaned"}
Returned == {"ok", "timeout", "died"}
CallState == {"idle", "dropped"} \cup Running \cup Returned
Tasks    == {"reader", "writer", "watcher"}

TypeOK ==
  /\ call \in [Request -> CallState]
  /\ pending \in SUBSET Request
  /\ answered \in SUBSET Request
  /\ writerQ \in Seq(Message)
  /\ raws \in Nat
  /\ halfClosed \in BOOLEAN
  /\ writer \in [pc : {"writing"}, line : Line]
                 \cup [pc : {"idle", "closing", "gone"}, line : {NoLine}]
  /\ childUp \in BOOLEAN
  /\ received \in SUBSET Request
  /\ stdout \in Seq(Frame)
  /\ emitted \in Nat
  /\ reader \in [pc : {"reading", "routing", "sending", "sendingLocked", "closing", "gone"},
                 frame : Frame]
  /\ watcher \in {"polling", "closing", "gone"}
  /\ closed \in BOOLEAN
  /\ closer \in Tasks \cup {"nobody"}
  /\ stage \in {"open", "reap", "announce", "closeEvents", "closeWriter", "done"}
  /\ exitCode \in {"unset", "some", "none"}
  /\ events \in Seq(Frame)
  /\ eventsClosed \in BOOLEAN
  /\ delivered \in Seq(Frame)

Init ==
  /\ call = [r \in Request |-> "idle"]
  /\ pending = {}
  /\ answered = {}
  /\ writerQ = <<>>
  /\ raws = 0
  /\ halfClosed = FALSE
  /\ writer = [pc |-> "idle", line |-> NoLine]
  /\ childUp = TRUE
  /\ received = {}
  /\ stdout = <<>>
  /\ emitted = 0
  /\ reader = [pc |-> "reading", frame |-> NoFrame]
  /\ watcher = "polling"
  /\ closed = FALSE
  /\ closer = "nobody"
  /\ stage = "open"
  /\ exitCode = "unset"
  /\ events = <<>>
  /\ eventsClosed = FALSE
  /\ delivered = <<>>

\* The pending mutex is held across an await at one place only: route_frame's
\* fallback, which sends an event while it holds the guard.
PendingFree == reader.pc # "sendingLocked"

\* writer_tx.send fails once the channel is closed or its receiver dropped.
WriterChannelClosed == stage = "done" \/ writer.pc = "gone"

CallTo(r, pc) == call' = [call EXCEPT ![r] = pc]

-----------------------------------------------------------------------------
(* send_internal, one caller per request id.                               *)

\* Slip: the closed flag is not looked at under the lock.
StartCallUnchecked(r) ==
  /\ call[r] = "idle"
  /\ PendingFree
  /\ CallTo(r, "enqueue")
  /\ pending' = pending \cup {r}
  /\ UNCHANGED <<answered, queueVars, writer, childVars, reader, watcher,
                 closeVars, eventVars>>

\* Under the pending lock: fail fast when closed, else insert the sender.
StartCall(r) ==
  /\ call[r] = "idle"
  /\ PendingFree
  /\ IF closed
       THEN /\ CallTo(r, "died")
            /\ UNCHANGED pending
       ELSE /\ CallTo(r, "enqueue")
            /\ pending' = pending \cup {r}
  /\ UNCHANGED <<answered, queueVars, writer, childVars, reader, watcher,
                 closeVars, eventVars>>

\* Slip: a closed channel is not told from a full one.
EnqueueLineWaits(r) ==
  /\ call[r] = "enqueue"
  /\ ~WriterChannelClosed
  /\ Len(writerQ) < WriterCap
  /\ CallTo(r, "waiting")
  /\ writerQ' = Append(writerQ, r)
  /\ UNCHANGED <<pending, answered, raws, halfClosed, writer, childVars, reader,
                 watcher, closeVars, eventVars>>

\* writer_tx.send(Some(line)).await: waits while the channel is full, and no
\* timer runs yet.
EnqueueLine(r) ==
  /\ call[r] = "enqueue"
  /\ \/ /\ WriterChannelClosed
        /\ CallTo(r, "refused")
        /\ UNCHANGED writerQ
     \/ /\ ~WriterChannelClosed
        /\ Len(writerQ) < WriterCap
        /\ CallTo(r, "waiting")
        /\ writerQ' = Append(writerQ, r)
  /\ UNCHANGED <<pending, answered, raws, halfClosed, writer, childVars, reader,
                 watcher, closeVars, eventVars>>

\* The receive arm of the race: a response, or the sender is gone.
ReceiveResponse(r) ==
  /\ call[r] = "waiting"
  /\ \/ r \in answered /\ CallTo(r, "ok")
     \/ r \notin answered /\ r \notin pending /\ CallTo(r, "orphaned")
  /\ UNCHANGED <<pending, answered, queueVars, writer, childVars, reader,
                 watcher, closeVars, eventVars>>

\* The timer arm: polled after a receive arm that was still pending.
TimerFires(r) ==
  /\ call[r] = "waiting"
  /\ r \notin answered
  /\ CallTo(r, "expired")
  /\ UNCHANGED <<pending, answered, queueVars, writer, childVars, reader,
                 watcher, closeVars, eventVars>>

\* Slip: a call that timed out keeps its entry.
ForgetCallKeepsEntry(r) ==
  /\ call[r] \in {"expired", "refused", "orphaned"}
  /\ PendingFree
  /\ CallTo(r, IF call[r] = "expired" THEN "timeout" ELSE "died")
  /\ pending' = IF call[r] = "expired" THEN pending ELSE pending \ {r}
  /\ UNCHANGED <<answered, queueVars, writer, childVars, reader, watcher,
                 closeVars, eventVars>>

\* Slip: a timeout is reported as a dead child.
ForgetCallAllDied(r) ==
  /\ call[r] \in {"expired", "refused", "orphaned"}
  /\ PendingFree
  /\ CallTo(r, "died")
  /\ pending' = pending \ {r}
  /\ UNCHANGED <<answered, queueVars, writer, childVars, reader, watcher,
                 closeVars, eventVars>>

\* Every error path takes the lock again, drops the entry and returns; the
\* oneshot's receiver has lived until here.
ForgetCall(r) ==
  /\ call[r] \in {"expired", "refused", "orphaned"}
  /\ PendingFree
  /\ CallTo(r, IF call[r] = "expired" THEN "timeout" ELSE "died")
  /\ pending' = pending \ {r}
  /\ UNCHANGED <<answered, queueVars, writer, childVars, reader, watcher,
                 closeVars, eventVars>>

\* The caller drops the future: the receiver dies, the map entry does not.
DropCall(r) ==
  /\ r \in Droppable
  /\ call[r] \in Running
  /\ CallTo(r, "dropped")
  /\ UNCHANGED <<pending, answered, queueVars, writer, childVars, reader,
                 watcher, closeVars, eventVars>>

-----------------------------------------------------------------------------
(* send_raw, close_stdin, and the writer task that owns stdin.             *)

SendRaw ==
  /\ raws < MaxRaw
  /\ raws' = raws + 1
  /\ \/ WriterChannelClosed /\ UNCHANGED writerQ
     \/ /\ ~WriterChannelClosed
        /\ Len(writerQ) < WriterCap
        /\ writerQ' = Append(writerQ, Raw)
  /\ UNCHANGED <<callVars, halfClosed, writer, childVars, reader, watcher,
                 closeVars, eventVars>>

CloseStdin ==
  /\ ~halfClosed
  /\ halfClosed' = TRUE
  /\ \/ WriterChannelClosed /\ UNCHANGED writerQ
     \/ /\ ~WriterChannelClosed
        /\ Len(writerQ) < WriterCap
        /\ writerQ' = Append(writerQ, Eof)
  /\ UNCHANGED <<callVars, raws, writer, childVars, reader, watcher,
                 closeVars, eventVars>>

\* Take the next message; None drops stdin, and with the task its receiver and
\* the lines still queued behind it.
WriterTake ==
  /\ writer.pc = "idle"
  /\ writerQ # <<>>
  /\ IF Head(writerQ) = Eof
       THEN /\ writer' = [pc |-> "gone", line |-> NoLine]
            /\ writerQ' = <<>>
       ELSE /\ writer' = [pc |-> "writing", line |-> Head(writerQ)]
            /\ writerQ' = Tail(writerQ)
  /\ UNCHANGED <<callVars, raws, halfClosed, childVars, reader, watcher,
                 closeVars, eventVars>>

\* write_all and flush return once the child's end takes the line (the kernel's
\* pipe counts as the child's); until it does, the task waits in the write.
WriteLine ==
  /\ writer.pc = "writing"
  /\ childUp
  /\ received' = IF writer.line = Raw THEN received ELSE received \cup {writer.line}
  /\ writer' = [pc |-> "idle", line |-> NoLine]
  /\ UNCHANGED <<callVars, queueVars, childUp, stdout, emitted, reader, watcher,
                 closeVars, eventVars>>

\* The pipe of a dead child fails the write.
WriteFails ==
  /\ writer.pc = "writing"
  /\ ~childUp
  /\ writer' = [pc |-> "closing", line |-> NoLine]
  /\ UNCHANGED <<callVars, queueVars, childVars, reader, watcher, closeVars,
                 eventVars>>

\* recv fails: the channel was closed and is empty.
WriterEnd ==
  /\ writer.pc = "idle"
  /\ writerQ = <<>>
  /\ stage = "done"
  /\ writer' = [pc |-> "gone", line |-> NoLine]
  /\ UNCHANGED <<callVars, queueVars, childVars, reader, watcher, closeVars,
                 eventVars>>

-----------------------------------------------------------------------------
(* The child: answers the requests it was given (a late second answer       *)
(* included), emits events or a line that does not decode, dies.            *)

ChildEmit ==
  /\ childUp
  /\ emitted < MaxFrames
  /\ Len(stdout) < OutCap
  /\ emitted' = emitted + 1
  /\ \E req \in received \cup {NoRequest}, bad \in BOOLEAN :
        /\ bad => req = NoRequest
        /\ stdout' = Append(stdout, [seq |-> emitted', req |-> req, bad |-> bad])
  /\ UNCHANGED <<callVars, queueVars, writer, childUp, received,
                 reader, watcher, closeVars, eventVars>>

\* Exit, crash, or RpcClient::kill; what it wrote stays readable.
ChildExit ==
  /\ childUp
  /\ childUp' = FALSE
  /\ UNCHANGED <<callVars, queueVars, writer, received, stdout,
                 emitted, reader, watcher, closeVars, eventVars>>

-----------------------------------------------------------------------------
(* The reader task: next_frame, then route_frame.                           *)

\* next_frame hands out one decoded frame; but a read that meets a line that does
\* not decode fails as a whole, and the frames it had completed are dropped.
ReadFrame ==
  /\ reader.pc = "reading"
  /\ \/ /\ stdout # <<>>
        /\ ~Head(stdout).bad
        /\ stdout' = Tail(stdout)
        /\ reader' = [pc |-> "routing", frame |-> Head(stdout)]
     \/ \E k \in DOMAIN stdout :
          /\ stdout[k].bad
          /\ \A i \in 1..k-1 : ~stdout[i].bad
          /\ stdout' = SubSeq(stdout, k+1, Len(stdout))
          /\ reader' = [pc |-> "closing", frame |-> NoFrame]
  /\ UNCHANGED <<callVars, queueVars, writer, childUp, received,
                 emitted, watcher, closeVars, eventVars>>

ReadEof ==
  /\ reader.pc = "reading"
  /\ stdout = <<>>
  /\ ~childUp
  /\ reader' = [pc |-> "closing", frame |-> NoFrame]
  /\ UNCHANGED <<callVars, queueVars, writer, childVars, watcher, closeVars,
                 eventVars>>

\* The oneshot accepts a response as long as its receiver exists, whatever
\* send_internal has decided meanwhile.
ReceiverAlive(r) == call[r] # "dropped"

\* Slip: the entry is removed, and its sender dropped, without sending.
RouteFrameForgets ==
  /\ reader.pc = "routing"
  /\ pending' = pending \ {reader.frame.req}
  /\ reader' = IF reader.frame.req \in pending
                 THEN [pc |-> "reading", frame |-> NoFrame]
                 ELSE [pc |-> "sending", frame |-> reader.frame]
  /\ UNCHANGED <<call, answered, queueVars, writer, childVars, watcher,
                 closeVars, eventVars>>

\* Take the pending sender of a response and use it under the lock; any other
\* frame, or one the receiver is gone for, becomes an event.
RouteFrame ==
  LET r == reader.frame.req IN
  /\ reader.pc = "routing"
  /\ IF r \in pending
       THEN /\ pending' = pending \ {r}
            /\ IF ReceiverAlive(r)
                 THEN /\ answered' = answered \cup {r}
                      /\ reader' = [pc |-> "reading", frame |-> NoFrame]
                 ELSE /\ reader' = [pc |-> "sendingLocked", frame |-> reader.frame]
                      /\ UNCHANGED answered
       ELSE /\ reader' = [pc |-> "sending", frame |-> reader.frame]
            /\ UNCHANGED <<pending, answered>>
  /\ UNCHANGED <<call, queueVars, writer, childVars, watcher, closeVars,
                 eventVars>>

\* Slip: try_send in the place of send, so a full channel drops the frame.
TrySendFrameEvent ==
  /\ reader.pc \in {"sending", "sendingLocked"}
  /\ events' = IF ~eventsClosed /\ Len(events) < EventCap
                 THEN Append(events, reader.frame) ELSE events
  /\ reader' = [pc |-> "reading", frame |-> NoFrame]
  /\ UNCHANGED <<callVars, queueVars, writer, childVars, watcher, closeVars,
                 eventsClosed, delivered>>

\* events_tx.send(Frame).await: waits for room, is void on a closed channel.
SendFrameEvent ==
  /\ reader.pc \in {"sending", "sendingLocked"}
  /\ \/ eventsClosed /\ UNCHANGED events
     \/ /\ ~eventsClosed
        /\ Len(events) < EventCap
        /\ events' = Append(events, reader.frame)
  /\ reader' = [pc |-> "reading", frame |-> NoFrame]
  /\ UNCHANGED <<callVars, queueVars, writer, childVars, watcher, closeVars,
                 eventsClosed, delivered>>

-----------------------------------------------------------------------------
(* The exit watch, and close_all_with_exit as run by any of the tasks.     *)

WatcherPoll ==
  /\ watcher = "polling"
  /\ \/ ~childUp /\ watcher' = "closing"
     \/ childUp /\ closed /\ watcher' = "gone"
  /\ UNCHANGED <<callVars, queueVars, writer, childVars, reader, closeVars,
                 eventVars>>

Closing(t) == \/ t = "reader"  /\ reader.pc = "closing"
              \/ t = "writer"  /\ writer.pc = "closing"
              \/ t = "watcher" /\ watcher = "closing"

\* A task leaves close_all and ends.
EndTask(t) ==
  /\ reader'  = IF t = "reader" THEN [pc |-> "gone", frame |-> NoFrame] ELSE reader
  /\ writer'  = IF t = "writer" THEN [pc |-> "gone", line |-> NoLine] ELSE writer
  /\ watcher' = IF t = "watcher" THEN "gone" ELSE watcher

\* Slip: a task that finds the flag up does not return.
BeginCloseLoserStays(t) ==
  /\ Closing(t)
  /\ PendingFree
  /\ ~closed
  /\ closed' = TRUE
  /\ pending' = {}
  /\ closer' = t
  /\ stage' = "reap"
  /\ UNCHANGED <<call, answered, queueVars, writer, childVars, reader, watcher,
                 exitCode, eventVars>>

\* Under the pending lock: the first task to swap the flag drains the map, and
\* with it every sender; any other returns.
BeginClose(t) ==
  /\ Closing(t)
  /\ closer # t
  /\ PendingFree
  /\ IF closed
       THEN /\ EndTask(t)
            /\ writerQ' = IF t = "writer" THEN <<>> ELSE writerQ
            /\ UNCHANGED <<pending, closeVars>>
       ELSE /\ closed' = TRUE
            /\ pending' = {}
            /\ closer' = t
            /\ stage' = "reap"
            /\ UNCHANGED <<exitCode, reader, writer, watcher, writerQ>>
  /\ UNCHANGED <<call, answered, raws, halfClosed, childVars, eventVars>>

\* The watch brings the exit code; the others wait REAP_WAIT for one.
ReapChild ==
  /\ stage = "reap"
  /\ stage' = "announce"
  /\ exitCode' = IF closer = "watcher" \/ ~childUp THEN "some" ELSE "none"
  /\ UNCHANGED <<callVars, queueVars, writer, childVars, reader, watcher,
                 closed, closer, eventVars>>

AnnounceClosed ==
  /\ stage = "announce"
  /\ Len(events) < EventCap
  /\ events' = Append(events, Closed)
  /\ stage' = "closeEvents"
  /\ UNCHANGED <<callVars, queueVars, writer, childVars, reader, watcher,
                 closed, closer, exitCode, eventsClosed, delivered>>

CloseEvents ==
  /\ stage = "closeEvents"
  /\ eventsClosed' = TRUE
  /\ stage' = "closeWriter"
  /\ UNCHANGED <<callVars, queueVars, writer, childVars, reader, watcher,
                 closed, closer, exitCode, events, delivered>>

CloseWriter ==
  /\ stage = "closeWriter"
  /\ stage' = "done"
  /\ EndTask(closer)
  /\ writerQ' = IF closer = "writer" THEN <<>> ELSE writerQ
  /\ UNCHANGED <<callVars, raws, halfClosed, childVars, closed, closer, exitCode,
                 eventVars>>

-----------------------------------------------------------------------------
(* The consumer of events().                                               *)

ReceiveEvent ==
  /\ events # <<>>
  /\ events' = Tail(events)
  /\ delivered' = Append(delivered, Head(events))
  /\ UNCHANGED <<callVars, queueVars, writer, childVars, reader, watcher,
                 closeVars, eventsClosed>>

-----------------------------------------------------------------------------
CallStep(r) == \/ EnqueueLine(r) \/ ReceiveResponse(r) \/ TimerFires(r)
               \/ ForgetCall(r)
WriterStep == WriterTake \/ WriteFails \/ WriterEnd
ReaderStep == ReadFrame \/ ReadEof \/ RouteFrame \/ SendFrameEvent
CloseStep  == \/ \E t \in Tasks : BeginClose(t)
              \/ ReapChild \/ AnnounceClosed \/ CloseEvents \/ CloseWriter

Next ==
  \/ \E r \in Request : StartCall(r) \/ CallStep(r) \/ DropCall(r)
  \/ SendRaw \/ CloseStdin
  \/ WriterStep \/ WriteLine
  \/ ChildEmit \/ ChildExit
  \/ ReaderStep
  \/ WatcherPoll
  \/ CloseStep
  \/ ReceiveEvent

Spec == Init /\ [][Next]_vars

\* The executor runs every task that can run, timers fire, and the pump keeps
\* receiving.  Nothing is assumed of the callers or of the child.
ClientFairness ==
  /\ \A r \in Request : WF_vars(CallStep(r))
  /\ WF_vars(WriterStep)
  /\ WF_vars(ReaderStep)
  /\ WF_vars(WatcherPoll)
  /\ WF_vars(CloseStep)
  /\ WF_vars(ReceiveEvent)

FairSpec == Spec /\ ClientFairness

\* The same with a child that keeps taking the lines written to it.
ReadingChildSpec == FairSpec /\ WF_vars(WriteLine)
-----------------------------------------------------------------------------
(* Safety.                                                                  *)

\* close_all takes the lock, flips the flag and drains in one critical section,
\* and send_internal checks the flag under the same lock: once the flag is up no
\* call can be left in the map waiting for an answer that cannot come.
ClosedMeansDrained == closed => pending = {}

\* No return path of send_internal leaves its entry in the map (the header's
\* "never leaks a pending entry"); only a dropped future can.
NoLeakedEntry == \A r \in pending : call[r] \in Running \cup {"dropped"}

\* A call loses its sender without an answer only because close_all drained it,
\* and fails early only because the writer is gone: ChildDied is never reported
\* on a connection that still works.
DiedMeansGone ==
  \A r \in Request : call[r] \in {"refused", "orphaned", "died"}
                       => closed \/ writer.pc = "gone"

IsClosed(f) == f = Closed
Channel == delivered \o events

\* Three tasks may run close_all at once: one Closed in all, and by the time the
\* consumer can see it every call has been failed.
ClosedAnnouncedOnce ==
  /\ Cardinality({i \in DOMAIN Channel : IsClosed(Channel[i])}) <= 1
  /\ (\E i \in DOMAIN Channel : IsClosed(Channel[i])) => closed /\ pending = {}

\* Frames reach the consumer in the order the child wrote them, none twice.
FramesInOrder ==
  \A i, j \in DOMAIN Channel :
     i < j /\ ~IsClosed(Channel[i]) /\ ~IsClosed(Channel[j])
       => Channel[i].seq < Channel[j].seq

\* The places a frame the reader took can be in.
Surfaced(n) == \E i \in DOMAIN Channel : ~IsClosed(Channel[i]) /\ Channel[i].seq = n
InHand(n) == reader.frame.seq = n
OnPipe(n) == \E i \in DOMAIN stdout : stdout[i].seq = n

\* While the connection is up, the frames missing from the channel, the pipe and
\* the reader's hand are as many as the answered calls: events and repeated
\* responses are never lost, and a call consumes its first response only.
NoFrameLost ==
  ~closed /\ reader.pc # "closing"
    => Cardinality({n \in 1..emitted : ~(Surfaced(n) \/ InHand(n) \/ OnPipe(n))})
       = Cardinality(answered)

\* What the consumer of the events may rely on, whatever was lost or raced below:
\* one end, the frames in their order, and none missing while the connection is up.
EventsFaithful == ClosedAnnouncedOnce /\ FramesInOrder /\ NoFrameLost

\* The strengthening under which the three first invariants are inductive.  A
\* call whose line is not in the writer channel yet is unknown further down.
Unsent == {r \in Request : call[r] \in {"idle", "enqueue", "refused"}}
Untouched(r) ==
  /\ r \notin answered /\ r \notin received
  /\ writer.line # r /\ reader.frame.req # r
  /\ \A i \in DOMAIN writerQ : writerQ[i] # r
  /\ \A i \in DOMAIN stdout : stdout[i].req # r
UnsentIsUnknown == \A r \in Unsent : Untouched(r)

\* A running call can still be reached, has its answer, or was drained.
CallsAttached ==
  /\ answered \cap pending = {}
  /\ \A r \in Request : call[r] \in Running => r \in pending \cup answered \/ closed
  /\ \A r \in Request : call[r] = "orphaned" => r \notin pending \cup answered

StagesFollowFlag == stage # "open" => closed

ConnectionInv ==
  /\ ClosedMeansDrained /\ NoLeakedEntry /\ DiedMeansGone
  /\ UnsentIsUnknown /\ CallsAttached /\ StagesFollowFlag

-----------------------------------------------------------------------------
(* Liveness.                                                                *)

\* Every call that started returns.
CallsReturn == \A r \in Request : call[r] \in Running ~> call[r] \notin Running

\* A dead child is announced to the consumer, and then nothing is left running.
DeathAnnounced ==
  ~childUp ~> /\ stage = "done"
              /\ \E i \in DOMAIN delivered : IsClosed(delivered[i])
              /\ reader.pc = "gone" /\ writer.pc = "gone" /\ watcher = "gone"

-----------------------------------------------------------------------------
(* The connection implements RequestReply.                                  *)

callStatus == [r \in Request |-> IF call[r] \in Running THEN "inflight" ELSE call[r]]

Abstract == INSTANCE RequestReply
              WITH status <- callStatus, open <- ~closed, sending <- writer.pc # "gone"

\* Each step of the tasks is one step of a call or of the connection, or none.
ImplementsRequestReply == Abstract!RRSpec
=============================================================================
