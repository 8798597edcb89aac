--------------------------- MODULE RpcClientProofs --------------------------
(***************************************************************************)
(* Theorems about RpcClient, for every set of requests, every capacity and *)
(* every bound.                                                            *)
(***************************************************************************)
EXTENDS RpcClient, FiniteSetTheorems, SequenceTheorems, TLAPS

-----------------------------------------------------------------------------
(* What taking from and adding to a queue does to its elements.            *)

\* The tail of a queue holds nothing the queue did not hold.
LEMMA TailElements ==
  ASSUME NEW S, NEW s \in Seq(S), s # <<>>
  PROVE  /\ Head(s) \in S
         /\ Tail(s) \in Seq(S)
         /\ \A x : (\A i \in DOMAIN s : s[i] # x)
                   => Head(s) # x /\ \A i \in DOMAIN Tail(s) : Tail(s)[i] # x
<1>1. Len(s) \in Nat /\ Len(s) # 0
  OBVIOUS
<1>2. Head(s) = s[1] /\ 1 \in DOMAIN s
  BY <1>1
<1>3. Tail(s) \in Seq(S) /\ \A i \in DOMAIN Tail(s) : i+1 \in DOMAIN s /\ Tail(s)[i] = s[i+1]
  BY <1>1
<1> QED
  BY <1>2, <1>3

\* Appending adds the new element and nothing else.
LEMMA AppendElements ==
  \A S, s, e : s \in Seq(S) /\ e \in S
    => /\ Append(s, e) \in Seq(S)
       /\ \A x : (\A i \in DOMAIN s : s[i] # x) /\ e # x
                 => \A i \in DOMAIN Append(s, e) : Append(s, e)[i] # x
  OBVIOUS

LEMMA AppendIndices ==
  ASSUME NEW S, NEW s \in Seq(S), NEW e \in S, NEW i \in DOMAIN Append(s, e)
  PROVE  Append(s, e)[i] = e \/ (i \in DOMAIN s /\ Append(s, e)[i] = s[i])
<1>1. DOMAIN s = 1..Len(s) /\ Len(s) \in Nat /\ i \in 1..Len(s)+1
  OBVIOUS
<1>2. CASE i = Len(s)+1
  BY <1>1, <1>2
<1>3. CASE i \in 1..Len(s)
  BY <1>1, <1>3
<1> QED
  BY <1>1, <1>2, <1>3

LEMMA NoElements == \A S : <<>> \in Seq(S)
  OBVIOUS

\* The values the actions put into queues and hands belong there.
LEMMA Values ==
  /\ NoFrame \in Frame /\ Closed \in Frame
  /\ Raw \in Message /\ Eof \in Message /\ Request \subseteq Message
  /\ \A x \in Message : x # Eof => x \in Line
  /\ \A x \in Line : x # Raw => x \in Request
  BY DEF NoFrame, Closed, Frame, Line, Message

-----------------------------------------------------------------------------
(* Type correctness.                                                       *)

\* What is left of a sequence behind its k-th element.
LEMMA RestElements ==
  ASSUME NEW S, NEW s \in Seq(S), NEW k \in 1..Len(s)
  PROVE  /\ SubSeq(s, k+1, Len(s)) \in Seq(S)
         /\ \A i \in DOMAIN SubSeq(s, k+1, Len(s)) :
              i+k \in DOMAIN s /\ SubSeq(s, k+1, Len(s))[i] = s[i+k]
  OBVIOUS

\* The reader takes frames from the pipe, and leaves frames that were there.
LEMMA ReadElements ==
  ASSUME stdout \in Seq(Frame), ReadFrame
  PROVE  /\ stdout' \in Seq(Frame)
         /\ \A i \in DOMAIN stdout' : \E j \in DOMAIN stdout : stdout'[i] = stdout[j]
         /\ \/ reader' = [pc |-> "closing", frame |-> NoFrame]
            \/ \E j \in DOMAIN stdout : reader' = [pc |-> "routing", frame |-> stdout[j]]
<1>1. CASE /\ stdout # <<>> /\ stdout' = Tail(stdout)
           /\ reader' = [pc |-> "routing", frame |-> Head(stdout)]
  <2>1. 1 \in DOMAIN stdout /\ Head(stdout) = stdout[1]
    BY <1>1
  <2>2. \A i \in DOMAIN Tail(stdout) : i+1 \in DOMAIN stdout /\ Tail(stdout)[i] = stdout[i+1]
    BY <1>1
  <2> QED
    BY <1>1, <2>1, <2>2, TailElements
<1>2. ASSUME NEW k \in DOMAIN stdout, stdout' = SubSeq(stdout, k+1, Len(stdout)),
             reader' = [pc |-> "closing", frame |-> NoFrame]
      PROVE  /\ stdout' \in Seq(Frame)
             /\ \A i \in DOMAIN stdout' : \E j \in DOMAIN stdout : stdout'[i] = stdout[j]
             /\ reader' = [pc |-> "closing", frame |-> NoFrame]
  <2>1. k \in 1..Len(stdout)
    OBVIOUS
  <2> QED
    BY <1>2, <2>1, RestElements
<1> QED
  BY <1>1, <1>2 DEF ReadFrame

\* Every reachable state of a connection is well typed (TypeOK).
THEOREM TypeCorrect == Spec => []TypeOK
<1>1. Init => TypeOK
  <2> SUFFICES ASSUME Init PROVE TypeOK
    OBVIOUS
  <2>1. call \in [Request -> CallState]
    BY DEF Init, CallState
  <2>2. /\ writerQ \in Seq(Message) /\ stdout \in Seq(Frame)
        /\ events \in Seq(Frame) /\ delivered \in Seq(Frame)
    BY NoElements DEF Init
  <2> QED
    BY <2>1, <2>2, Values DEF Init, TypeOK, Tasks
<1>2. TypeOK /\ [Next]_vars => TypeOK'
  <2> SUFFICES ASSUME TypeOK, [Next]_vars PROVE TypeOK'
    OBVIOUS
  <2> USE DEF callVars, queueVars, childVars, closeVars, eventVars
  <2>1. ASSUME NEW r \in Request, StartCall(r) PROVE TypeOK'
    <3>1. call' \in [Request -> CallState]
      BY <2>1 DEF StartCall, CallTo, CallState, Running, Returned, TypeOK
    <3>2. pending' \in SUBSET Request
      BY <2>1 DEF StartCall, TypeOK
    <3>3. UNCHANGED <<answered, queueVars, writer, childVars, reader, watcher,
                    closeVars, eventVars>>
      BY <2>1 DEF StartCall
    <3> QED
      BY <3>1, <3>2, <3>3 DEF TypeOK
  <2>2. ASSUME NEW r \in Request, EnqueueLine(r) PROVE TypeOK'
    <3>1. call' \in [Request -> CallState]
      BY <2>2 DEF EnqueueLine, CallTo, CallState, Running, TypeOK
    <3>2. writerQ' \in Seq(Message)
      <4>1. r \in Message
        BY Values
      <4>2. writerQ' = writerQ \/ writerQ' = Append(writerQ, r)
        BY <2>2 DEF EnqueueLine
      <4>3. writerQ \in Seq(Message)
        BY DEF TypeOK
      <4> QED
        BY <4>1, <4>2, <4>3, AppendElements
    <3>3. UNCHANGED <<pending, answered, raws, halfClosed, writer, childVars,
                    reader, watcher, closeVars, eventVars>>
      BY <2>2 DEF EnqueueLine
    <3> QED
      BY <3>1, <3>2, <3>3 DEF TypeOK
  <2>3. ASSUME NEW r \in Request, ReceiveResponse(r) PROVE TypeOK'
    <3>1. call' \in [Request -> CallState]
      BY <2>3 DEF ReceiveResponse, CallTo, CallState, Running, Returned, TypeOK
    <3>2. UNCHANGED <<pending, answered, queueVars, writer, childVars, reader,
                    watcher, closeVars, eventVars>>
      BY <2>3 DEF ReceiveResponse
    <3> QED
      BY <3>1, <3>2 DEF TypeOK
  <2>4. ASSUME NEW r \in Request, TimerFires(r) PROVE TypeOK'
    <3>1. call' \in [Request -> CallState]
      BY <2>4 DEF TimerFires, CallTo, CallState, Running, TypeOK
    <3>2. UNCHANGED <<pending, answered, queueVars, writer, childVars, reader,
                    watcher, closeVars, eventVars>>
      BY <2>4 DEF TimerFires
    <3> QED
      BY <3>1, <3>2 DEF TypeOK
  <2>5. ASSUME NEW r \in Request, ForgetCall(r) PROVE TypeOK'
    <3>1. call' \in [Request -> CallState]
      BY <2>5 DEF ForgetCall, CallTo, CallState, Returned, TypeOK
    <3>2. pending' \in SUBSET Request
      BY <2>5 DEF ForgetCall, TypeOK
    <3>3. UNCHANGED <<answered, queueVars, writer, childVars, reader, watcher,
                    closeVars, eventVars>>
      BY <2>5 DEF ForgetCall
    <3> QED
      BY <3>1, <3>2, <3>3 DEF TypeOK
  <2>6. ASSUME NEW r \in Request, DropCall(r) PROVE TypeOK'
    <3>1. call' \in [Request -> CallState]
      BY <2>6 DEF DropCall, CallTo, CallState, TypeOK
    <3>2. UNCHANGED <<pending, answered, queueVars, writer, childVars, reader,
                    watcher, closeVars, eventVars>>
      BY <2>6 DEF DropCall
    <3> QED
      BY <3>1, <3>2 DEF TypeOK
  <2>7. CASE SendRaw
    <3>1. writerQ' \in Seq(Message)
      <4>2. writerQ' = writerQ \/ writerQ' = Append(writerQ, Raw)
        BY <2>7 DEF SendRaw
      <4>3. writerQ \in Seq(Message)
        BY DEF TypeOK
      <4> QED
        BY <4>2, <4>3, AppendElements, Values
    <3>2. raws' \in Nat
      BY <2>7 DEF SendRaw, TypeOK
    <3>3. UNCHANGED <<callVars, halfClosed, writer, childVars, reader, watcher,
                    closeVars, eventVars>>
      BY <2>7 DEF SendRaw
    <3> QED
      BY <3>1, <3>2, <3>3 DEF TypeOK
  <2>8. CASE CloseStdin
    <3>1. writerQ' \in Seq(Message)
      <4>2. writerQ' = writerQ \/ writerQ' = Append(writerQ, Eof)
        BY <2>8 DEF CloseStdin
      <4>3. writerQ \in Seq(Message)
        BY DEF TypeOK
      <4> QED
        BY <4>2, <4>3, AppendElements, Values
    <3>2. halfClosed' \in BOOLEAN
      BY <2>8 DEF CloseStdin, TypeOK
    <3>3. UNCHANGED <<callVars, raws, writer, childVars, reader, watcher,
                    closeVars, eventVars>>
      BY <2>8 DEF CloseStdin
    <3> QED
      BY <3>1, <3>2, <3>3 DEF TypeOK
  <2>9. CASE WriterTake
    <3>1. writer' \in [pc : {"writing"}, line : Line] \cup [pc : {"idle", "closing", "gone"}, line : {NoLine}]
      BY <2>9, TailElements, Values DEF WriterTake, TypeOK
    <3>2. writerQ' \in Seq(Message)
      <4>1. writerQ # <<>>
        BY <2>9 DEF WriterTake
      <4>2. writerQ' = <<>> \/ writerQ' = Tail(writerQ)
        BY <2>9 DEF WriterTake
      <4>3. writerQ \in Seq(Message)
        BY DEF TypeOK
      <4>4. Tail(writerQ) \in Seq(Message) /\ <<>> \in Seq(Message)
        BY <4>1, <4>3, TailElements, NoElements
      <4> QED
        BY <4>2, <4>4
    <3>3. UNCHANGED <<callVars, raws, halfClosed, childVars, reader, watcher,
                    closeVars, eventVars>>
      BY <2>9 DEF WriterTake
    <3> QED
      BY <3>1, <3>2, <3>3 DEF TypeOK
  <2>10. CASE WriteLine
    <3>1. writer' \in [pc : {"writing"}, line : Line] \cup [pc : {"idle", "closing", "gone"}, line : {NoLine}]
      BY <2>10 DEF WriteLine, TypeOK
    <3>2. received' \in SUBSET Request
      <4>1. writer.line \in Line
        BY <2>10 DEF WriteLine, TypeOK
      <4>2. received' = IF writer.line = Raw THEN received ELSE received \cup {writer.line}
        BY <2>10 DEF WriteLine
      <4> QED
        BY <4>1, <4>2, Values DEF TypeOK
    <3>3. UNCHANGED <<callVars, queueVars, childUp, stdout, emitted, reader,
                    watcher, closeVars, eventVars>>
      BY <2>10 DEF WriteLine
    <3> QED
      BY <3>1, <3>2, <3>3 DEF TypeOK
  <2>11. CASE WriteFails
    <3>1. writer' \in [pc : {"writing"}, line : Line] \cup [pc : {"idle", "closing", "gone"}, line : {NoLine}]
      BY <2>11 DEF WriteFails, TypeOK
    <3>2. UNCHANGED <<callVars, queueVars, childVars, reader, watcher,
                    closeVars, eventVars>>
      BY <2>11 DEF WriteFails
    <3> QED
      BY <3>1, <3>2 DEF TypeOK
  <2>12. CASE WriterEnd
    <3>1. writer' \in [pc : {"writing"}, line : Line] \cup [pc : {"idle", "closing", "gone"}, line : {NoLine}]
      BY <2>12 DEF WriterEnd, TypeOK
    <3>2. UNCHANGED <<callVars, queueVars, childVars, reader, watcher,
                    closeVars, eventVars>>
      BY <2>12 DEF WriterEnd
    <3> QED
      BY <3>1, <3>2 DEF TypeOK
  <2>13. CASE ChildEmit
    <3>1. stdout' \in Seq(Frame)
      BY <2>13, AppendElements DEF ChildEmit, Frame, TypeOK
    <3>2. emitted' \in Nat
      BY <2>13 DEF ChildEmit, TypeOK
    <3>3. UNCHANGED <<callVars, queueVars, writer, childUp, received, reader,
                    watcher, closeVars, eventVars>>
      BY <2>13 DEF ChildEmit
    <3> QED
      BY <3>1, <3>2, <3>3 DEF TypeOK
  <2>14. CASE ChildExit
    <3>1. childUp' \in BOOLEAN
      BY <2>14 DEF ChildExit, TypeOK
    <3>2. UNCHANGED <<callVars, queueVars, writer, received, stdout, emitted,
                    reader, watcher, closeVars, eventVars>>
      BY <2>14 DEF ChildExit
    <3> QED
      BY <3>1, <3>2 DEF TypeOK
  <2>15. CASE ReadFrame
    <3>1. stdout' \in Seq(Frame)
      BY <2>15, ReadElements DEF TypeOK
    <3>2. reader' \in [pc : {"reading", "routing", "sending", "sendingLocked", "closing", "gone"}, frame : Frame]
      <4>1. \A j \in DOMAIN stdout : stdout[j] \in Frame
        BY DEF TypeOK
      <4> QED
        BY <2>15, <4>1, ReadElements, Values DEF TypeOK
    <3>3. UNCHANGED <<callVars, queueVars, writer, childUp, received, emitted,
                    watcher, closeVars, eventVars>>
      BY <2>15 DEF ReadFrame
    <3> QED
      BY <3>1, <3>2, <3>3 DEF TypeOK
  <2>16. CASE ReadEof
    <3>1. reader' \in [pc : {"reading", "routing", "sending", "sendingLocked", "closing", "gone"}, frame : Frame]
      BY <2>16, Values DEF ReadEof, TypeOK
    <3>2. UNCHANGED <<callVars, queueVars, writer, childVars, watcher,
                    closeVars, eventVars>>
      BY <2>16 DEF ReadEof
    <3> QED
      BY <3>1, <3>2 DEF TypeOK
  <2>17. CASE RouteFrame
    <3>1. pending' \in SUBSET Request
      BY <2>17 DEF RouteFrame, TypeOK
    <3>2. answered' \in SUBSET Request
      BY <2>17 DEF RouteFrame, TypeOK
    <3>3. reader' \in [pc : {"reading", "routing", "sending", "sendingLocked", "closing", "gone"}, frame : Frame]
      BY <2>17, Values DEF RouteFrame, TypeOK
    <3>4. UNCHANGED <<call, queueVars, writer, childVars, watcher, closeVars,
                    eventVars>>
      BY <2>17 DEF RouteFrame
    <3> QED
      BY <3>1, <3>2, <3>3, <3>4 DEF TypeOK
  <2>18. CASE SendFrameEvent
    <3>1. events' \in Seq(Frame)
      <4>1. reader.frame \in Frame
        BY DEF TypeOK
      <4>2. events' = events \/ events' = Append(events, reader.frame)
        BY <2>18 DEF SendFrameEvent
      <4>3. events \in Seq(Frame)
        BY DEF TypeOK
      <4> QED
        BY <4>1, <4>2, <4>3, AppendElements
    <3>2. reader' \in [pc : {"reading", "routing", "sending", "sendingLocked", "closing", "gone"}, frame : Frame]
      BY <2>18, Values DEF SendFrameEvent, TypeOK
    <3>3. UNCHANGED <<callVars, queueVars, writer, childVars, watcher,
                    closeVars, eventsClosed, delivered>>
      BY <2>18 DEF SendFrameEvent
    <3> QED
      BY <3>1, <3>2, <3>3 DEF TypeOK
  <2>19. CASE WatcherPoll
    <3>1. watcher' \in {"polling", "closing", "gone"}
      BY <2>19 DEF WatcherPoll, TypeOK
    <3>2. UNCHANGED <<callVars, queueVars, writer, childVars, reader,
                    closeVars, eventVars>>
      BY <2>19 DEF WatcherPoll
    <3> QED
      BY <3>1, <3>2 DEF TypeOK
  <2>20. ASSUME NEW t \in Tasks, BeginClose(t) PROVE TypeOK'
    <3>1. reader' \in [pc : {"reading", "routing", "sending", "sendingLocked", "closing", "gone"}, frame : Frame]
      BY <2>20, Values DEF BeginClose, EndTask, Tasks, TypeOK
    <3>2. writer' \in [pc : {"writing"}, line : Line] \cup [pc : {"idle", "closing", "gone"}, line : {NoLine}]
      BY <2>20 DEF BeginClose, EndTask, Tasks, TypeOK
    <3>3. watcher' \in {"polling", "closing", "gone"}
      BY <2>20 DEF BeginClose, EndTask, Tasks, TypeOK
    <3>4. writerQ' \in Seq(Message)
      BY <2>20, NoElements DEF BeginClose, EndTask, Tasks, TypeOK
    <3>5. closed' \in BOOLEAN
      BY <2>20 DEF BeginClose, EndTask, Tasks, TypeOK
    <3>6. pending' \in SUBSET Request
      BY <2>20 DEF BeginClose, EndTask, Tasks, TypeOK
    <3>7. closer' \in Tasks \cup {"nobody"}
      BY <2>20 DEF BeginClose, EndTask, Tasks, TypeOK
    <3>8. stage' \in {"open", "reap", "announce", "closeEvents", "closeWriter", "done"}
      BY <2>20 DEF BeginClose, EndTask, Tasks, TypeOK
    <3>9. UNCHANGED <<call, answered, raws, halfClosed, childVars, exitCode,
                    eventVars>>
      BY <2>20 DEF BeginClose, EndTask
    <3> QED
      BY <3>1, <3>2, <3>3, <3>4, <3>5, <3>6, <3>7, <3>8, <3>9 DEF TypeOK
  <2>21. CASE ReapChild
    <3>1. stage' \in {"open", "reap", "announce", "closeEvents", "closeWriter", "done"}
      BY <2>21 DEF ReapChild, TypeOK
    <3>2. exitCode' \in {"unset", "some", "none"}
      BY <2>21 DEF ReapChild, TypeOK
    <3>3. UNCHANGED <<callVars, queueVars, writer, childVars, reader, watcher,
                    closed, closer, eventVars>>
      BY <2>21 DEF ReapChild
    <3> QED
      BY <3>1, <3>2, <3>3 DEF TypeOK
  <2>22. CASE AnnounceClosed
    <3>1. events' \in Seq(Frame)
      BY <2>22, AppendElements, Values DEF AnnounceClosed, TypeOK
    <3>2. stage' \in {"open", "reap", "announce", "closeEvents", "closeWriter", "done"}
      BY <2>22 DEF AnnounceClosed, TypeOK
    <3>3. UNCHANGED <<callVars, queueVars, writer, childVars, reader, watcher,
                    closed, closer, exitCode, eventsClosed, delivered>>
      BY <2>22 DEF AnnounceClosed
    <3> QED
      BY <3>1, <3>2, <3>3 DEF TypeOK
  <2>23. CASE CloseEvents
    <3>1. eventsClosed' \in BOOLEAN
      BY <2>23 DEF CloseEvents, TypeOK
    <3>2. stage' \in {"open", "reap", "announce", "closeEvents", "closeWriter", "done"}
      BY <2>23 DEF CloseEvents, TypeOK
    <3>3. UNCHANGED <<callVars, queueVars, writer, childVars, reader, watcher,
                    closed, closer, exitCode, events, delivered>>
      BY <2>23 DEF CloseEvents
    <3> QED
      BY <3>1, <3>2, <3>3 DEF TypeOK
  <2>24. CASE CloseWriter
    <3>1. stage' \in {"open", "reap", "announce", "closeEvents", "closeWriter", "done"}
      BY <2>24 DEF CloseWriter, EndTask, TypeOK
    <3>2. reader' \in [pc : {"reading", "routing", "sending", "sendingLocked", "closing", "gone"}, frame : Frame]
      BY <2>24, Values DEF CloseWriter, EndTask, TypeOK
    <3>3. writer' \in [pc : {"writing"}, line : Line] \cup [pc : {"idle", "closing", "gone"}, line : {NoLine}]
      BY <2>24 DEF CloseWriter, EndTask, TypeOK
    <3>4. watcher' \in {"polling", "closing", "gone"}
      BY <2>24 DEF CloseWriter, EndTask, TypeOK
    <3>5. writerQ' \in Seq(Message)
      BY <2>24, NoElements DEF CloseWriter, EndTask, TypeOK
    <3>6. UNCHANGED <<callVars, raws, halfClosed, childVars, closed, closer,
                    exitCode, eventVars>>
      BY <2>24 DEF CloseWriter, EndTask
    <3> QED
      BY <3>1, <3>2, <3>3, <3>4, <3>5, <3>6 DEF TypeOK
  <2>25. CASE ReceiveEvent
    <3>1. events' \in Seq(Frame)
      BY <2>25, TailElements DEF ReceiveEvent, TypeOK
    <3>2. delivered' \in Seq(Frame)
      BY <2>25, TailElements, AppendElements DEF ReceiveEvent, TypeOK
    <3>3. UNCHANGED <<callVars, queueVars, writer, childVars, reader, watcher,
                    closeVars, eventsClosed>>
      BY <2>25 DEF ReceiveEvent
    <3> QED
      BY <3>1, <3>2, <3>3 DEF TypeOK
  <2>26. CASE UNCHANGED vars
    BY <2>26 DEF vars, TypeOK
  <2> QED
    BY <2>1, <2>2, <2>3, <2>4, <2>5, <2>6, <2>7, <2>8, <2>9, <2>10, <2>11,
       <2>12, <2>13, <2>14, <2>15, <2>16, <2>17, <2>18, <2>19, <2>20, <2>21,
       <2>22, <2>23, <2>24, <2>25, <2>26
       DEF Next, CallStep, WriterStep, ReaderStep, CloseStep
<1> QED
  BY <1>1, <1>2, PTL DEF Spec

-----------------------------------------------------------------------------
(* The inductive invariant.                                                *)

\* Only the steps of a call change where it stands.
LEMMA OthersKeepCalls ==
  ASSUME [Next]_vars,
         ~\E r \in Request : StartCall(r) \/ CallStep(r) \/ DropCall(r)
  PROVE  UNCHANGED call
  BY DEF Next, WriterStep, ReaderStep, CloseStep, vars, callVars, SendRaw,
         CloseStdin, WriterTake, WriteLine, WriteFails, WriterEnd, ChildEmit,
         ChildExit, ReadFrame, ReadEof, RouteFrame, SendFrameEvent,
         WatcherPoll, BeginClose, ReapChild, AnnounceClosed, CloseEvents,
         CloseWriter, ReceiveEvent

\* No call starts twice: once its line is queued, it stays queued.
LEMMA UnsentBefore ==
  ASSUME TypeOK, [Next]_vars, NEW q \in Request, q \in Unsent'
  PROVE  q \in Unsent
<1> USE DEF CallTo, Unsent, TypeOK
<1>1. ASSUME NEW r \in Request, StartCall(r) PROVE q \in Unsent
  BY <1>1 DEF StartCall
<1>2. ASSUME NEW r \in Request, EnqueueLine(r) PROVE q \in Unsent
  BY <1>2 DEF EnqueueLine
<1>3. ASSUME NEW r \in Request, ReceiveResponse(r) PROVE q \in Unsent
  BY <1>3 DEF ReceiveResponse
<1>4. ASSUME NEW r \in Request, TimerFires(r) PROVE q \in Unsent
  BY <1>4 DEF TimerFires
<1>5. ASSUME NEW r \in Request, ForgetCall(r) PROVE q \in Unsent
  BY <1>5 DEF ForgetCall
<1>6. ASSUME NEW r \in Request, DropCall(r) PROVE q \in Unsent
  BY <1>6 DEF DropCall
<1>7. CASE UNCHANGED call
  BY <1>7
<1> QED
  BY <1>1, <1>2, <1>3, <1>4, <1>5, <1>6, <1>7, OthersKeepCalls DEF CallStep

\* A call whose line has not been queued is known to nobody further down:
\* queueing another call's line, or passing a line or a frame on, keeps it so.
LEMMA UntouchedStep ==
  ASSUME TypeOK, UnsentIsUnknown, NoLeakedEntry, CallsAttached, [Next]_vars,
         NEW q \in Request, q \in Unsent'
  PROVE  Untouched(q)'
<1> USE DEF callVars, queueVars, childVars, closeVars, eventVars
<1>1. q \in Unsent /\ Untouched(q)
  BY UnsentBefore DEF UnsentIsUnknown
<1>2. q # Raw /\ q # Eof /\ q # NoLine /\ q # NoRequest /\ NoFrame.req # q
  BY ClientAssumption DEF NoFrame
<1>3. ASSUME NEW r \in Request, StartCall(r) PROVE Untouched(q)'
  BY <1>1, <1>3 DEF StartCall, Untouched
<1>4. ASSUME NEW r \in Request, EnqueueLine(r) PROVE Untouched(q)'
  <2>1. writerQ' = writerQ \/ (writerQ' = Append(writerQ, r) /\ r # q)
    <3>1. CallTo(r, "waiting") => r # q
      BY DEF CallTo, Unsent, TypeOK
    <3>2. UNCHANGED writerQ \/ (CallTo(r, "waiting") /\ writerQ' = Append(writerQ, r))
      BY <1>4 DEF EnqueueLine
    <3> QED
      BY <3>1, <3>2
  <2>2. r \in Message /\ writerQ \in Seq(Message)
    BY Values DEF TypeOK
  <2>3. \A i \in DOMAIN writerQ' : writerQ'[i] # q
    BY <1>1, <2>1, <2>2, AppendElements DEF Untouched
  <2> QED
    BY <1>1, <1>4, <2>3 DEF EnqueueLine, Untouched
<1>5. ASSUME NEW r \in Request, ReceiveResponse(r) PROVE Untouched(q)'
  BY <1>1, <1>5 DEF ReceiveResponse, Untouched
<1>6. ASSUME NEW r \in Request, TimerFires(r) PROVE Untouched(q)'
  BY <1>1, <1>6 DEF TimerFires, Untouched
<1>7. ASSUME NEW r \in Request, ForgetCall(r) PROVE Untouched(q)'
  BY <1>1, <1>7 DEF ForgetCall, Untouched
<1>8. ASSUME NEW r \in Request, DropCall(r) PROVE Untouched(q)'
  BY <1>1, <1>8 DEF DropCall, Untouched
<1>9. CASE SendRaw
  <2>1. writerQ' = writerQ \/ writerQ' = Append(writerQ, Raw)
    BY <1>9 DEF SendRaw
  <2>2. Raw \in Message /\ writerQ \in Seq(Message)
    BY Values DEF TypeOK
  <2>3. \A i \in DOMAIN writerQ' : writerQ'[i] # q
    BY <1>1, <1>2, <2>1, <2>2, AppendElements DEF Untouched
  <2> QED
    BY <1>1, <1>9, <2>3 DEF SendRaw, Untouched
<1>10. CASE CloseStdin
  <2>1. writerQ' = writerQ \/ writerQ' = Append(writerQ, Eof)
    BY <1>10 DEF CloseStdin
  <2>2. Eof \in Message /\ writerQ \in Seq(Message)
    BY Values DEF TypeOK
  <2>3. \A i \in DOMAIN writerQ' : writerQ'[i] # q
    BY <1>1, <1>2, <2>1, <2>2, AppendElements DEF Untouched
  <2> QED
    BY <1>1, <1>10, <2>3 DEF CloseStdin, Untouched
<1>11. CASE WriterTake
  <2>1. writerQ # <<>> /\ writerQ \in Seq(Message)
    BY <1>11 DEF WriterTake, TypeOK
  <2>2. writerQ' = <<>> \/ writerQ' = Tail(writerQ)
    BY <1>11 DEF WriterTake
  <2>3. \A i \in DOMAIN writerQ' : writerQ'[i] # q
    BY <1>1, <2>1, <2>2, TailElements DEF Untouched
  <2>4. writer'.line # q
    BY <1>1, <1>2, <1>11, <2>1, TailElements DEF WriterTake, Untouched
  <2> QED
    BY <1>1, <1>11, <2>3, <2>4 DEF WriterTake, Untouched
<1>12. CASE WriteLine
  BY <1>1, <1>2, <1>12 DEF WriteLine, Untouched
<1>13. CASE WriteFails
  BY <1>1, <1>2, <1>13 DEF WriteFails, Untouched
<1>14. CASE WriterEnd
  BY <1>1, <1>2, <1>14 DEF WriterEnd, Untouched
<1>15. CASE ChildEmit
  <2>1. PICK f \in Frame : stdout' = Append(stdout, f) /\ f.req # q
    <3>1. PICK req \in received \cup {NoRequest}, bad \in BOOLEAN :
             stdout' = Append(stdout, [seq |-> emitted', req |-> req, bad |-> bad])
      BY <1>15 DEF ChildEmit
    <3>2. emitted' \in Nat
      BY <1>15 DEF ChildEmit, TypeOK
    <3>3. [seq |-> emitted', req |-> req, bad |-> bad] \in Frame
      BY <3>2 DEF Frame, TypeOK
    <3>4. req # q
      BY <1>1, <1>2 DEF Untouched
    <3> QED
      BY <3>1, <3>3, <3>4
  <2>2. stdout \in Seq(Frame)
    BY DEF TypeOK
  <2>3. \A i \in DOMAIN stdout' : stdout'[i].req # q
    <3>1. ASSUME NEW i \in DOMAIN Append(stdout, f)
          PROVE  Append(stdout, f)[i].req # q
      <4>1. Append(stdout, f)[i] = f \/ (i \in DOMAIN stdout /\ Append(stdout, f)[i] = stdout[i])
        BY <2>2, AppendIndices
      <4> QED
        BY <1>1, <2>1, <4>1 DEF Untouched
    <3> QED
      BY <2>1, <3>1
  <2> QED
    BY <1>1, <1>15, <2>3 DEF ChildEmit, Untouched
<1>16. CASE ChildExit
  BY <1>1, <1>2, <1>16 DEF ChildExit, Untouched
<1>17. CASE ReadFrame
  <2>1. \A i \in DOMAIN stdout : stdout[i].req # q
    BY <1>1 DEF Untouched
  <2>2. stdout \in Seq(Frame)
    BY DEF TypeOK
  <2>3. \A i \in DOMAIN stdout' : stdout'[i].req # q
    BY <1>17, <2>1, <2>2, ReadElements
  <2>4. reader'.frame.req # q
    <3>1. NoFrame.req # q
      BY <1>2 DEF NoFrame
    <3> QED
      BY <1>17, <2>1, <2>2, <3>1, ReadElements
  <2> QED
    BY <1>1, <1>17, <2>3, <2>4 DEF ReadFrame, Untouched
<1>18. CASE ReadEof
  BY <1>1, <1>2, <1>18 DEF ReadEof, Untouched
<1>19. CASE RouteFrame
  <2>1. reader'.frame.req # q
    BY <1>1, <1>2, <1>19 DEF RouteFrame, Untouched
  <2>2. q \notin answered'
    BY <1>1, <1>19 DEF RouteFrame, Untouched
  <2> QED
    BY <1>1, <1>19, <2>1, <2>2 DEF RouteFrame, Untouched
<1>20. CASE SendFrameEvent
  BY <1>1, <1>2, <1>20 DEF SendFrameEvent, Untouched
<1>21. CASE WatcherPoll
  BY <1>1, <1>2, <1>21 DEF WatcherPoll, Untouched
<1>22. ASSUME NEW t \in Tasks, BeginClose(t) PROVE Untouched(q)'
  <2>1. writer'.line # q /\ reader'.frame.req # q
    BY <1>1, <1>2, <1>22 DEF BeginClose, EndTask, Untouched
  <2>2. \A i \in DOMAIN writerQ' : writerQ'[i] # q
    BY <1>1, <1>22 DEF BeginClose, Untouched
  <2> QED
    BY <1>1, <1>22, <2>1, <2>2 DEF BeginClose, Untouched
<1>23. CASE ReapChild
  BY <1>1, <1>2, <1>23 DEF ReapChild, Untouched
<1>24. CASE AnnounceClosed
  BY <1>1, <1>2, <1>24 DEF AnnounceClosed, Untouched
<1>25. CASE CloseEvents
  BY <1>1, <1>2, <1>25 DEF CloseEvents, Untouched
<1>26. CASE CloseWriter
  <2>1. writer'.line # q /\ reader'.frame.req # q
    BY <1>1, <1>2, <1>26 DEF CloseWriter, EndTask, Untouched
  <2>2. \A i \in DOMAIN writerQ' : writerQ'[i] # q
    BY <1>1, <1>26 DEF CloseWriter, Untouched
  <2> QED
    BY <1>1, <1>26, <2>1, <2>2 DEF CloseWriter, Untouched
<1>27. CASE ReceiveEvent
  BY <1>1, <1>2, <1>27 DEF ReceiveEvent, Untouched
<1>28. CASE UNCHANGED vars
  BY <1>1, <1>28 DEF vars, Untouched
<1> QED
  BY <1>3, <1>4, <1>5, <1>6, <1>7, <1>8, <1>9, <1>10, <1>11, <1>12, <1>13,
     <1>14, <1>15, <1>16, <1>17, <1>18, <1>19, <1>20, <1>21, <1>22, <1>23,
     <1>24, <1>25, <1>26, <1>27, <1>28
     DEF Next, CallStep, WriterStep, ReaderStep, CloseStep

\* The part of the invariant that is about calls, the map and the closed flag.
CallInv == /\ ClosedMeansDrained /\ NoLeakedEntry /\ DiedMeansGone
           /\ CallsAttached /\ StagesFollowFlag

\* The steps that move neither a call, nor the map, nor the closing protocol; the
\* writer's end is final.
LEMMA QuietSteps ==
  ASSUME TypeOK, ConnectionInv,
         UNCHANGED <<call, pending, answered, closed, stage>>,
         writer.pc = "gone" => writer'.pc = "gone"
  PROVE  CallInv'
  BY DEF CallInv, ConnectionInv, ClosedMeansDrained, NoLeakedEntry, DiedMeansGone,
         CallsAttached, StagesFollowFlag

\* Every step keeps what the calls, the map and the closed flag owe each other.
LEMMA ConnectionStep ==
  ASSUME TypeOK, ConnectionInv, [Next]_vars
  PROVE  ConnectionInv'
<1> USE DEF callVars, queueVars, childVars, closeVars, eventVars
<1>1. UnsentIsUnknown'
  <2>1. \A q \in Request : q \in Unsent' => Untouched(q)'
    BY UntouchedStep DEF ConnectionInv
  <2> QED
    BY <2>1 DEF UnsentIsUnknown, Unsent
<1>2. ASSUME SendRaw PROVE CallInv'
  <2>1. UNCHANGED <<call, pending, answered, closed, stage>>
    BY <1>2 DEF SendRaw
  <2>2. writer.pc = "gone" => writer'.pc = "gone"
    BY <1>2 DEF SendRaw
  <2> QED
    BY <2>1, <2>2, QuietSteps
<1>3. ASSUME CloseStdin PROVE CallInv'
  <2>1. UNCHANGED <<call, pending, answered, closed, stage>>
    BY <1>3 DEF CloseStdin
  <2>2. writer.pc = "gone" => writer'.pc = "gone"
    BY <1>3 DEF CloseStdin
  <2> QED
    BY <2>1, <2>2, QuietSteps
<1>4. ASSUME WriterTake PROVE CallInv'
  <2>1. UNCHANGED <<call, pending, answered, closed, stage>>
    BY <1>4 DEF WriterTake
  <2>2. writer.pc = "gone" => writer'.pc = "gone"
    BY <1>4 DEF WriterTake
  <2> QED
    BY <2>1, <2>2, QuietSteps
<1>5. ASSUME WriteLine PROVE CallInv'
  <2>1. UNCHANGED <<call, pending, answered, closed, stage>>
    BY <1>5 DEF WriteLine
  <2>2. writer.pc = "gone" => writer'.pc = "gone"
    BY <1>5 DEF WriteLine
  <2> QED
    BY <2>1, <2>2, QuietSteps
<1>6. ASSUME WriteFails PROVE CallInv'
  <2>1. UNCHANGED <<call, pending, answered, closed, stage>>
    BY <1>6 DEF WriteFails
  <2>2. writer.pc = "gone" => writer'.pc = "gone"
    BY <1>6 DEF WriteFails
  <2> QED
    BY <2>1, <2>2, QuietSteps
<1>7. ASSUME WriterEnd PROVE CallInv'
  <2>1. UNCHANGED <<call, pending, answered, closed, stage>>
    BY <1>7 DEF WriterEnd
  <2>2. writer.pc = "gone" => writer'.pc = "gone"
    BY <1>7 DEF WriterEnd
  <2> QED
    BY <2>1, <2>2, QuietSteps
<1>8. ASSUME ChildEmit PROVE CallInv'
  <2>1. UNCHANGED <<call, pending, answered, closed, stage>>
    BY <1>8 DEF ChildEmit
  <2>2. writer.pc = "gone" => writer'.pc = "gone"
    BY <1>8 DEF ChildEmit
  <2> QED
    BY <2>1, <2>2, QuietSteps
<1>9. ASSUME ChildExit PROVE CallInv'
  <2>1. UNCHANGED <<call, pending, answered, closed, stage>>
    BY <1>9 DEF ChildExit
  <2>2. writer.pc = "gone" => writer'.pc = "gone"
    BY <1>9 DEF ChildExit
  <2> QED
    BY <2>1, <2>2, QuietSteps
<1>10. ASSUME ReadFrame PROVE CallInv'
  <2>1. UNCHANGED <<call, pending, answered, closed, stage>>
    BY <1>10 DEF ReadFrame
  <2>2. writer.pc = "gone" => writer'.pc = "gone"
    BY <1>10 DEF ReadFrame
  <2> QED
    BY <2>1, <2>2, QuietSteps
<1>11. ASSUME ReadEof PROVE CallInv'
  <2>1. UNCHANGED <<call, pending, answered, closed, stage>>
    BY <1>11 DEF ReadEof
  <2>2. writer.pc = "gone" => writer'.pc = "gone"
    BY <1>11 DEF ReadEof
  <2> QED
    BY <2>1, <2>2, QuietSteps
<1>12. ASSUME SendFrameEvent PROVE CallInv'
  <2>1. UNCHANGED <<call, pending, answered, closed, stage>>
    BY <1>12 DEF SendFrameEvent
  <2>2. writer.pc = "gone" => writer'.pc = "gone"
    BY <1>12 DEF SendFrameEvent
  <2> QED
    BY <2>1, <2>2, QuietSteps
<1>13. ASSUME WatcherPoll PROVE CallInv'
  <2>1. UNCHANGED <<call, pending, answered, closed, stage>>
    BY <1>13 DEF WatcherPoll
  <2>2. writer.pc = "gone" => writer'.pc = "gone"
    BY <1>13 DEF WatcherPoll
  <2> QED
    BY <2>1, <2>2, QuietSteps
<1>14. ASSUME ReceiveEvent PROVE CallInv'
  <2>1. UNCHANGED <<call, pending, answered, closed, stage>>
    BY <1>14 DEF ReceiveEvent
  <2>2. writer.pc = "gone" => writer'.pc = "gone"
    BY <1>14 DEF ReceiveEvent
  <2> QED
    BY <2>1, <2>2, QuietSteps
<1>15. ASSUME NEW r \in Request, StartCall(r) PROVE CallInv'
  <2>1. ClosedMeansDrained'
    BY <1>15 DEF StartCall, ConnectionInv, TypeOK, ClosedMeansDrained, CallTo
  <2>2. NoLeakedEntry'
    BY <1>15 DEF StartCall, ConnectionInv, TypeOK, NoLeakedEntry, CallTo, Running
  <2>3. DiedMeansGone'
    BY <1>15 DEF StartCall, ConnectionInv, TypeOK, DiedMeansGone, CallTo
  <2>4. CallsAttached'
    BY <1>15 DEF StartCall, ConnectionInv, TypeOK, CallsAttached, CallTo, Running, ClosedMeansDrained, UnsentIsUnknown, Unsent, Untouched
  <2>5. StagesFollowFlag'
    BY <1>15 DEF StartCall, ConnectionInv, TypeOK, StagesFollowFlag, CallTo
  <2> QED
    BY <2>1, <2>2, <2>3, <2>4, <2>5 DEF CallInv
<1>16. ASSUME NEW r \in Request, EnqueueLine(r) PROVE CallInv'
  <2>1. ClosedMeansDrained'
    BY <1>16 DEF EnqueueLine, ConnectionInv, TypeOK, ClosedMeansDrained, CallTo
  <2>2. NoLeakedEntry'
    BY <1>16 DEF EnqueueLine, ConnectionInv, TypeOK, NoLeakedEntry, CallTo, Running
  <2>3. DiedMeansGone'
    BY <1>16 DEF EnqueueLine, ConnectionInv, TypeOK, DiedMeansGone, CallTo, WriterChannelClosed, StagesFollowFlag
  <2>4. CallsAttached'
    BY <1>16 DEF EnqueueLine, ConnectionInv, TypeOK, CallsAttached, CallTo, Running, ClosedMeansDrained, UnsentIsUnknown, Unsent, Untouched
  <2>5. StagesFollowFlag'
    BY <1>16 DEF EnqueueLine, ConnectionInv, TypeOK, StagesFollowFlag, CallTo
  <2> QED
    BY <2>1, <2>2, <2>3, <2>4, <2>5 DEF CallInv
<1>17. ASSUME NEW r \in Request, ReceiveResponse(r) PROVE CallInv'
  <2>1. ClosedMeansDrained'
    BY <1>17 DEF ReceiveResponse, ConnectionInv, TypeOK, ClosedMeansDrained, CallTo
  <2>2. NoLeakedEntry'
    <3>1. CASE r \in answered /\ CallTo(r, "ok")
      <4>1. r \notin pending
        BY <3>1 DEF ConnectionInv, CallsAttached
      <4> QED
        BY <1>17, <3>1, <4>1
           DEF ReceiveResponse, ConnectionInv, TypeOK, NoLeakedEntry, CallTo, Running
    <3>2. CASE CallTo(r, "orphaned")
      BY <1>17, <3>2 DEF ReceiveResponse, ConnectionInv, TypeOK, NoLeakedEntry, CallTo, Running
    <3> QED
      BY <1>17, <3>1, <3>2 DEF ReceiveResponse
  <2>3. DiedMeansGone'
    BY <1>17 DEF ReceiveResponse, ConnectionInv, TypeOK, DiedMeansGone, CallTo, CallsAttached, Running
  <2>4. CallsAttached'
    BY <1>17 DEF ReceiveResponse, ConnectionInv, TypeOK, CallsAttached, CallTo, Running, ClosedMeansDrained, UnsentIsUnknown, Unsent, Untouched
  <2>5. StagesFollowFlag'
    BY <1>17 DEF ReceiveResponse, ConnectionInv, TypeOK, StagesFollowFlag, CallTo
  <2> QED
    BY <2>1, <2>2, <2>3, <2>4, <2>5 DEF CallInv
<1>18. ASSUME NEW r \in Request, TimerFires(r) PROVE CallInv'
  <2>1. ClosedMeansDrained'
    BY <1>18 DEF TimerFires, ConnectionInv, TypeOK, ClosedMeansDrained, CallTo
  <2>2. NoLeakedEntry'
    BY <1>18 DEF TimerFires, ConnectionInv, TypeOK, NoLeakedEntry, CallTo, Running
  <2>3. DiedMeansGone'
    BY <1>18 DEF TimerFires, ConnectionInv, TypeOK, DiedMeansGone, CallTo
  <2>4. CallsAttached'
    BY <1>18 DEF TimerFires, ConnectionInv, TypeOK, CallsAttached, CallTo, Running, ClosedMeansDrained, UnsentIsUnknown, Unsent, Untouched
  <2>5. StagesFollowFlag'
    BY <1>18 DEF TimerFires, ConnectionInv, TypeOK, StagesFollowFlag, CallTo
  <2> QED
    BY <2>1, <2>2, <2>3, <2>4, <2>5 DEF CallInv
<1>19. ASSUME NEW r \in Request, ForgetCall(r) PROVE CallInv'
  <2>1. ClosedMeansDrained'
    BY <1>19 DEF ForgetCall, ConnectionInv, TypeOK, ClosedMeansDrained, CallTo
  <2>2. NoLeakedEntry'
    BY <1>19 DEF ForgetCall, ConnectionInv, TypeOK, NoLeakedEntry, CallTo, Running
  <2>3. DiedMeansGone'
    BY <1>19 DEF ForgetCall, ConnectionInv, TypeOK, DiedMeansGone, CallTo, CallsAttached, Running
  <2>4. CallsAttached'
    BY <1>19 DEF ForgetCall, ConnectionInv, TypeOK, CallsAttached, CallTo, Running, ClosedMeansDrained, UnsentIsUnknown, Unsent, Untouched
  <2>5. StagesFollowFlag'
    BY <1>19 DEF ForgetCall, ConnectionInv, TypeOK, StagesFollowFlag, CallTo
  <2> QED
    BY <2>1, <2>2, <2>3, <2>4, <2>5 DEF CallInv
<1>20. ASSUME NEW r \in Request, DropCall(r) PROVE CallInv'
  <2>1. ClosedMeansDrained'
    BY <1>20 DEF DropCall, ConnectionInv, TypeOK, ClosedMeansDrained, CallTo
  <2>2. NoLeakedEntry'
    BY <1>20 DEF DropCall, ConnectionInv, TypeOK, NoLeakedEntry, CallTo, Running
  <2>3. DiedMeansGone'
    BY <1>20 DEF DropCall, ConnectionInv, TypeOK, DiedMeansGone, CallTo
  <2>4. CallsAttached'
    BY <1>20 DEF DropCall, ConnectionInv, TypeOK, CallsAttached, CallTo, Running, ClosedMeansDrained, UnsentIsUnknown, Unsent, Untouched
  <2>5. StagesFollowFlag'
    BY <1>20 DEF DropCall, ConnectionInv, TypeOK, StagesFollowFlag, CallTo
  <2> QED
    BY <2>1, <2>2, <2>3, <2>4, <2>5 DEF CallInv
<1>21. ASSUME RouteFrame PROVE CallInv'
  <2>1. ClosedMeansDrained'
    BY <1>21 DEF RouteFrame, ConnectionInv, TypeOK, ClosedMeansDrained
  <2>2. NoLeakedEntry'
    BY <1>21 DEF RouteFrame, ConnectionInv, TypeOK, NoLeakedEntry, Running, ReceiverAlive
  <2>3. DiedMeansGone'
    BY <1>21 DEF RouteFrame, ConnectionInv, TypeOK, DiedMeansGone
  <2>4. CallsAttached'
    BY <1>21 DEF RouteFrame, ConnectionInv, TypeOK, CallsAttached, Running, ClosedMeansDrained, UnsentIsUnknown, Unsent, Untouched, ReceiverAlive, NoLeakedEntry
  <2>5. StagesFollowFlag'
    BY <1>21 DEF RouteFrame, ConnectionInv, TypeOK, StagesFollowFlag
  <2> QED
    BY <2>1, <2>2, <2>3, <2>4, <2>5 DEF CallInv
<1>22. ASSUME NEW t \in Tasks, BeginClose(t) PROVE CallInv'
  <2>1. ClosedMeansDrained'
    BY <1>22 DEF BeginClose, ConnectionInv, TypeOK, ClosedMeansDrained
  <2>2. NoLeakedEntry'
    BY <1>22 DEF BeginClose, ConnectionInv, TypeOK, NoLeakedEntry, Running
  <2>3. DiedMeansGone'
    BY <1>22 DEF BeginClose, ConnectionInv, TypeOK, DiedMeansGone, EndTask
  <2>4. CallsAttached'
    BY <1>22 DEF BeginClose, ConnectionInv, TypeOK, CallsAttached, Running, ClosedMeansDrained, UnsentIsUnknown, Unsent, Untouched
  <2>5. StagesFollowFlag'
    BY <1>22 DEF BeginClose, ConnectionInv, TypeOK, StagesFollowFlag
  <2> QED
    BY <2>1, <2>2, <2>3, <2>4, <2>5 DEF CallInv
<1>23. ASSUME ReapChild PROVE CallInv'
  <2>1. ClosedMeansDrained'
    BY <1>23 DEF ReapChild, ConnectionInv, TypeOK, ClosedMeansDrained
  <2>2. NoLeakedEntry'
    BY <1>23 DEF ReapChild, ConnectionInv, TypeOK, NoLeakedEntry, Running
  <2>3. DiedMeansGone'
    BY <1>23 DEF ReapChild, ConnectionInv, TypeOK, DiedMeansGone
  <2>4. CallsAttached'
    BY <1>23 DEF ReapChild, ConnectionInv, TypeOK, CallsAttached, Running, ClosedMeansDrained, UnsentIsUnknown, Unsent, Untouched
  <2>5. StagesFollowFlag'
    BY <1>23 DEF ReapChild, ConnectionInv, TypeOK, StagesFollowFlag
  <2> QED
    BY <2>1, <2>2, <2>3, <2>4, <2>5 DEF CallInv
<1>24. ASSUME AnnounceClosed PROVE CallInv'
  <2>1. ClosedMeansDrained'
    BY <1>24 DEF AnnounceClosed, ConnectionInv, TypeOK, ClosedMeansDrained
  <2>2. NoLeakedEntry'
    BY <1>24 DEF AnnounceClosed, ConnectionInv, TypeOK, NoLeakedEntry, Running
  <2>3. DiedMeansGone'
    BY <1>24 DEF AnnounceClosed, ConnectionInv, TypeOK, DiedMeansGone
  <2>4. CallsAttached'
    BY <1>24 DEF AnnounceClosed, ConnectionInv, TypeOK, CallsAttached, Running, ClosedMeansDrained, UnsentIsUnknown, Unsent, Untouched
  <2>5. StagesFollowFlag'
    BY <1>24 DEF AnnounceClosed, ConnectionInv, TypeOK, StagesFollowFlag
  <2> QED
    BY <2>1, <2>2, <2>3, <2>4, <2>5 DEF CallInv
<1>25. ASSUME CloseEvents PROVE CallInv'
  <2>1. ClosedMeansDrained'
    BY <1>25 DEF CloseEvents, ConnectionInv, TypeOK, ClosedMeansDrained
  <2>2. NoLeakedEntry'
    BY <1>25 DEF CloseEvents, ConnectionInv, TypeOK, NoLeakedEntry, Running
  <2>3. DiedMeansGone'
    BY <1>25 DEF CloseEvents, ConnectionInv, TypeOK, DiedMeansGone
  <2>4. CallsAttached'
    BY <1>25 DEF CloseEvents, ConnectionInv, TypeOK, CallsAttached, Running, ClosedMeansDrained, UnsentIsUnknown, Unsent, Untouched
  <2>5. StagesFollowFlag'
    BY <1>25 DEF CloseEvents, ConnectionInv, TypeOK, StagesFollowFlag
  <2> QED
    BY <2>1, <2>2, <2>3, <2>4, <2>5 DEF CallInv
<1>26. ASSUME CloseWriter PROVE CallInv'
  <2>1. ClosedMeansDrained'
    BY <1>26 DEF CloseWriter, ConnectionInv, TypeOK, ClosedMeansDrained
  <2>2. NoLeakedEntry'
    BY <1>26 DEF CloseWriter, ConnectionInv, TypeOK, NoLeakedEntry, Running
  <2>3. DiedMeansGone'
    BY <1>26 DEF CloseWriter, ConnectionInv, TypeOK, DiedMeansGone, EndTask
  <2>4. CallsAttached'
    BY <1>26 DEF CloseWriter, ConnectionInv, TypeOK, CallsAttached, Running, ClosedMeansDrained, UnsentIsUnknown, Unsent, Untouched
  <2>5. StagesFollowFlag'
    BY <1>26 DEF CloseWriter, ConnectionInv, TypeOK, StagesFollowFlag
  <2> QED
    BY <2>1, <2>2, <2>3, <2>4, <2>5 DEF CallInv
<1>27. ASSUME UNCHANGED vars PROVE CallInv'
  <2>1. UNCHANGED <<call, pending, answered, closed, stage, writer>>
    BY <1>27 DEF vars
  <2> QED
    BY <2>1, QuietSteps
<1>28. CallInv'
  BY <1>2, <1>3, <1>4, <1>5, <1>6, <1>7, <1>8, <1>9, <1>10, <1>11, <1>12,
     <1>13, <1>14, <1>15, <1>16, <1>17, <1>18, <1>19, <1>20, <1>21, <1>22,
     <1>23, <1>24, <1>25, <1>26, <1>27
     DEF Next, CallStep, WriterStep, ReaderStep, CloseStep
<1> QED
  BY <1>1, <1>28 DEF CallInv, ConnectionInv

\* The invariant holds of every reachable state.
THEOREM ConnectionInvariant == Spec => []ConnectionInv
<1>1. Init => ConnectionInv
  BY ClientAssumption DEF Init, ConnectionInv, ClosedMeansDrained, NoLeakedEntry,
     DiedMeansGone, UnsentIsUnknown, Unsent, Untouched, CallsAttached, Running,
     StagesFollowFlag, NoFrame
<1>2. TypeOK /\ ConnectionInv /\ [Next]_vars => ConnectionInv'
  BY ConnectionStep
<1> QED
  BY <1>1, <1>2, TypeCorrect, PTL DEF Spec

\* Once the closed flag is up no call is left in the map.
THEOREM Drained == Spec => []ClosedMeansDrained
<1>1. ConnectionInv => ClosedMeansDrained
  BY DEF ConnectionInv
<1> QED
  BY <1>1, ConnectionInvariant, PTL

\* No call that returned has left its entry behind.
THEOREM NoLeak == Spec => []NoLeakedEntry
<1>1. ConnectionInv => NoLeakedEntry
  BY DEF ConnectionInv
<1> QED
  BY <1>1, ConnectionInvariant, PTL

\* A call is failed with ChildDied only on a connection that is going or gone.
THEOREM DiedIsTruthful == Spec => []DiedMeansGone
<1>1. ConnectionInv => DiedMeansGone
  BY DEF ConnectionInv
<1> QED
  BY <1>1, ConnectionInvariant, PTL

-----------------------------------------------------------------------------
(* What the consumer of the events may rely on.                            *)

\* The frames on their way, from the child to the consumer: on the pipe, then in
\* the reader's hand, then in the channel, each in its place.
Holds == reader.pc \in {"routing", "sending", "sendingLocked"}
PipeInOrder ==
  /\ \A i \in DOMAIN stdout : stdout[i].seq \in 1..emitted
  /\ \A i, j \in DOMAIN stdout : i < j => stdout[i].seq < stdout[j].seq
HandInOrder ==
  IF Holds THEN /\ reader.frame.seq \in 1..emitted
                /\ \A j \in DOMAIN stdout : reader.frame.seq < stdout[j].seq
                /\ \A i \in DOMAIN Channel : Channel[i].seq < reader.frame.seq
           ELSE reader.frame = NoFrame
ChannelInOrder ==
  /\ \A i \in DOMAIN Channel :
       /\ Channel[i].seq \in 0..emitted /\ (IsClosed(Channel[i]) <=> Channel[i].seq = 0)
       /\ \A j \in DOMAIN stdout : Channel[i].seq < stdout[j].seq
  /\ FramesInOrder
FlowInv == PipeInOrder /\ HandInOrder /\ ChannelInOrder

\* The end is announced by the one task that runs close_all, in its order.
EndInv ==
  /\ (\E i \in DOMAIN Channel : IsClosed(Channel[i])) => stage \in {"closeEvents", "closeWriter", "done"}
  /\ \A i, j \in DOMAIN Channel : IsClosed(Channel[i]) /\ IsClosed(Channel[j]) => i = j
  /\ eventsClosed => stage \in {"closeWriter", "done"}

Missing == {n \in 1..emitted : ~(Surfaced(n) \/ InHand(n) \/ OnPipe(n))}
LossInv == IsFiniteSet(answered) /\ NoFrameLost

EventsInv == FlowInv /\ EndInv /\ LossInv

\* What a step does to the channel: the consumer's step leaves it as it is.
LEMMA ChannelTyped == TypeOK => Channel \in Seq(Frame)
  BY ConcatProperties DEF TypeOK, Channel

LEMMA ReceivedIsInChannel ==
  ASSUME TypeOK, ReceiveEvent PROVE Channel' = Channel
<1> DEFINE d == Append(delivered, Head(events))
           t == Tail(events)
<1>1. /\ delivered \in Seq(Frame) /\ events \in Seq(Frame) /\ events # <<>>
      /\ delivered' = d /\ events' = t
  BY DEF TypeOK, ReceiveEvent
<1>2. /\ Head(events) = events[1] /\ events[1] \in Frame /\ Len(events) \in Nat \ {0}
      /\ t \in Seq(Frame) /\ Len(t) = Len(events) - 1
      /\ \A i \in 1..Len(t) : t[i] = events[i + 1]
  BY <1>1
<1>3. /\ d \in Seq(Frame) /\ Len(delivered) \in Nat /\ Len(d) = Len(delivered) + 1
      /\ d[Len(delivered) + 1] = events[1]
      /\ \A i \in 1..Len(delivered) : d[i] = delivered[i]
  BY <1>1, <1>2
<1> HIDE DEF d, t
<1>4. /\ d \o t \in Seq(Frame) /\ Len(d \o t) = Len(d) + Len(t)
      /\ \A i \in 1..Len(d) + Len(t) : (d \o t)[i] = IF i <= Len(d) THEN d[i] ELSE t[i - Len(d)]
  BY <1>2, <1>3, ConcatProperties
<1>5. /\ Channel \in Seq(Frame) /\ Len(Channel) = Len(delivered) + Len(events)
      /\ \A i \in 1..Len(delivered) + Len(events) :
           Channel[i] = IF i <= Len(delivered) THEN delivered[i] ELSE events[i - Len(delivered)]
  BY <1>1, ConcatProperties DEF Channel
<1>6. Len(d \o t) = Len(Channel)
  BY <1>2, <1>3, <1>4, <1>5
<1>7. ASSUME NEW i \in 1..Len(d \o t) PROVE (d \o t)[i] = Channel[i]
  <2>1. CASE i <= Len(delivered)
    <3>1. /\ i \in 1..Len(delivered) /\ i \in 1..Len(d) + Len(t)
          /\ i \in 1..Len(delivered) + Len(events) /\ i <= Len(d)
      BY <1>2, <1>3, <1>4, <1>7, <2>1
    <3>2. (d \o t)[i] = d[i]
      BY <1>4, <3>1
    <3>3. Channel[i] = delivered[i]
      BY <1>5, <2>1, <3>1
    <3> QED
      BY <1>3, <3>1, <3>2, <3>3
  <2>2. CASE i = Len(delivered) + 1
    <3>1. (d \o t)[i] = d[i] /\ Channel[i] = events[i - Len(delivered)] /\ i - Len(delivered) = 1
      BY <1>2, <1>3, <1>4, <1>5, <1>7, <2>2
    <3> QED
      BY <1>3, <2>2, <3>1
  <2>3. CASE i > Len(delivered) + 1
    <3>1. /\ (d \o t)[i] = t[i - Len(d)] /\ Channel[i] = events[i - Len(delivered)]
          /\ i - Len(d) \in 1..Len(t) /\ (i - Len(d)) + 1 = i - Len(delivered)
      BY <1>2, <1>3, <1>4, <1>5, <1>7, <2>3
    <3> QED
      BY <1>2, <3>1
  <2> QED
    BY <1>2, <1>3, <1>4, <1>7, <2>1, <2>2, <2>3
<1>8. d \o t = Channel
  BY <1>4, <1>5, <1>6, <1>7, SeqEqual
<1> QED
  BY <1>1, <1>8 DEF Channel

LEMMA SentIsInChannel ==
  ASSUME TypeOK, NEW f \in Frame, events' = Append(events, f), UNCHANGED delivered
  PROVE  /\ Channel' \in Seq(Frame) /\ Len(Channel) \in Nat /\ Len(Channel') = Len(Channel) + 1
         /\ Channel'[Len(Channel) + 1] = f
         /\ \A i \in 1..Len(Channel) : Channel'[i] = Channel[i]
<1> DEFINE e == Append(events, f)
           w == delivered \o e
<1>1. /\ delivered \in Seq(Frame) /\ events \in Seq(Frame)
      /\ Len(delivered) \in Nat /\ Len(events) \in Nat
  BY DEF TypeOK
<1>2. /\ e \in Seq(Frame) /\ Len(e) = Len(events) + 1 /\ e[Len(events) + 1] = f
      /\ \A i \in 1..Len(events) : e[i] = events[i]
  BY <1>1
<1> HIDE DEF e
<1>3. /\ w \in Seq(Frame) /\ Len(w) = Len(delivered) + Len(e)
      /\ \A i \in 1..Len(delivered) + Len(e) :
           w[i] = IF i <= Len(delivered) THEN delivered[i] ELSE e[i - Len(delivered)]
  BY <1>1, <1>2, ConcatProperties
<1>4. /\ Channel \in Seq(Frame) /\ Len(Channel) = Len(delivered) + Len(events)
      /\ \A i \in 1..Len(delivered) + Len(events) :
           Channel[i] = IF i <= Len(delivered) THEN delivered[i] ELSE events[i - Len(delivered)]
  BY <1>1, ConcatProperties DEF Channel
<1>5. Channel' = w
  BY DEF Channel, e
<1> HIDE DEF w
<1>6. w[Len(Channel) + 1] = f
  <2>1. /\ Len(Channel) + 1 \in 1..Len(delivered) + Len(e) /\ ~(Len(Channel) + 1 <= Len(delivered))
        /\ (Len(Channel) + 1) - Len(delivered) = Len(events) + 1
    BY <1>1, <1>2, <1>4
  <2> QED
    BY <1>2, <1>3, <2>1
<1>7. ASSUME NEW i \in 1..Len(Channel) PROVE w[i] = Channel[i]
  <2>1. i \in 1..Len(delivered) + Len(e) /\ i \in 1..Len(delivered) + Len(events)
    BY <1>1, <1>2, <1>4
  <2>2. CASE i <= Len(delivered)
    BY <1>3, <1>4, <2>1, <2>2
  <2>3. CASE ~(i <= Len(delivered))
    <3>1. i - Len(delivered) \in 1..Len(events)
      BY <1>1, <2>1, <2>3
    <3> QED
      BY <1>2, <1>3, <1>4, <2>1, <2>3, <3>1
  <2> QED
    BY <2>2, <2>3
<1> QED
  BY <1>1, <1>2, <1>3, <1>4, <1>5, <1>6, <1>7

\* A step that leaves the frames where they are.
LEMMA FlowKept ==
  ASSUME FlowInv, Channel' = Channel, UNCHANGED <<stdout, emitted>>,
         \/ reader' = reader
         \/ reader'.pc \notin {"routing", "sending", "sendingLocked"} /\ reader'.frame = NoFrame
  PROVE  FlowInv'
<1>1. PipeInOrder' /\ ChannelInOrder'
  BY DEF FlowInv, PipeInOrder, ChannelInOrder, FramesInOrder, IsClosed, Closed
<1>2. HandInOrder'
  BY DEF FlowInv, HandInOrder, Holds, NoFrame
<1> QED
  BY <1>1, <1>2 DEF FlowInv

LEMMA EndKept ==
  ASSUME EndInv, Channel' = Channel, UNCHANGED eventsClosed,
         stage \in {"closeEvents", "closeWriter", "done"} =>
           stage' = stage \/ (stage = "closeWriter" /\ stage' = "done")
  PROVE  EndInv'
  BY DEF EndInv, IsClosed, Closed

LEMMA MissingKept ==
  ASSUME Channel' = Channel, UNCHANGED <<stdout, emitted, reader>>
  PROVE  Missing' = Missing
  BY DEF Missing, Surfaced, InHand, OnPipe, IsClosed, Closed

\* A connection that is closing promises nothing about the frames.
LEMMA LossKept ==
  ASSUME LossInv, UNCHANGED answered,
         \/ closed' = TRUE
         \/ reader'.pc = "closing"
         \/ Missing' = Missing /\ (~closed' /\ reader'.pc # "closing" => ~closed /\ reader.pc # "closing")
  PROVE  LossInv'
<1>1. CASE closed' = TRUE \/ reader'.pc = "closing"
  BY <1>1 DEF LossInv, NoFrameLost
<1>2. CASE Missing' = Missing /\ (~closed' /\ reader'.pc # "closing" => ~closed /\ reader.pc # "closing")
  BY <1>2 DEF LossInv, NoFrameLost, Missing
<1> QED
  BY <1>1, <1>2

LEMMA EventsKept ==
  ASSUME EventsInv, Channel' = Channel,
         UNCHANGED <<stdout, emitted, answered, reader, closed, stage, eventsClosed>>
  PROVE  EventsInv'
<1>1. FlowInv'
  BY FlowKept DEF EventsInv
<1>2. EndInv'
  BY EndKept DEF EventsInv
<1>3. LossInv'
  BY MissingKept, LossKept DEF EventsInv
<1> QED
  BY <1>1, <1>2, <1>3 DEF EventsInv

\* The child writes one more frame, the last of all.
LEMMA ChildEmitKeepsEvents ==
  ASSUME TypeOK, EventsInv, ChildEmit PROVE EventsInv'
<1> DEFINE n == emitted + 1
<1>1. PICK req \in received \cup {NoRequest}, bad \in BOOLEAN :
        stdout' = Append(stdout, [seq |-> emitted', req |-> req, bad |-> bad])
  BY DEF ChildEmit
<1>2. /\ emitted \in Nat /\ emitted' = n /\ Channel' = Channel /\ stdout \in Seq(Frame)
      /\ UNCHANGED <<reader, answered, closed, stage, eventsClosed>>
  BY DEF ChildEmit, TypeOK, Channel, eventVars, callVars, closeVars
<1> DEFINE f == [seq |-> n, req |-> req, bad |-> bad]
<1>3. /\ f.seq = n /\ Len(stdout) \in Nat /\ DOMAIN stdout = 1..Len(stdout)
      /\ stdout' = Append(stdout, f) /\ DOMAIN stdout' = 1..Len(stdout) + 1
      /\ stdout'[Len(stdout) + 1] = f /\ \A i \in 1..Len(stdout) : stdout'[i] = stdout[i]
  BY <1>1, <1>2
<1> HIDE DEF f
<1>4. /\ \A i \in DOMAIN stdout' : stdout'[i].seq = n \/ (i \in DOMAIN stdout /\ stdout'[i] = stdout[i])
      /\ \A i \in DOMAIN stdout' : i \notin DOMAIN stdout => i = Len(stdout) + 1 /\ stdout'[i].seq = n
  <2> SUFFICES ASSUME NEW i \in DOMAIN stdout'
               PROVE  /\ stdout'[i].seq = n \/ (i \in DOMAIN stdout /\ stdout'[i] = stdout[i])
                      /\ i \notin DOMAIN stdout => i = Len(stdout) + 1 /\ stdout'[i].seq = n
    OBVIOUS
  <2>1. i \in 1..Len(stdout) \/ i = Len(stdout) + 1
    BY <1>3
  <2>2. CASE i \in 1..Len(stdout)
    BY <1>3, <2>2
  <2>3. CASE i = Len(stdout) + 1
    <3>1. stdout'[i] = f
      BY <1>3, <2>3
    <3>2. i \notin DOMAIN stdout
      BY <1>3, <2>3
    <3>3. stdout'[i].seq = n
      BY <1>3, <3>1
    <3> QED
      BY <2>3, <3>2, <3>3
  <2> QED
    BY <2>1, <2>2, <2>3
<1>5. PipeInOrder'
  BY <1>2, <1>3, <1>4 DEF EventsInv, FlowInv, PipeInOrder
<1>6. HandInOrder'
  BY <1>2, <1>4 DEF EventsInv, FlowInv, HandInOrder, Holds, NoFrame
<1>7. ChannelInOrder'
  <2>1. FramesInOrder'
    BY <1>2 DEF EventsInv, FlowInv, ChannelInOrder, FramesInOrder, IsClosed, Closed
  <2>2. ASSUME NEW i \in DOMAIN Channel
        PROVE  /\ Channel[i].seq \in 0..n /\ (IsClosed(Channel[i]) <=> Channel[i].seq = 0)
               /\ \A j \in DOMAIN stdout' : Channel[i].seq < stdout'[j].seq
    BY <1>2, <1>4, <2>2 DEF EventsInv, FlowInv, ChannelInOrder
  <2> QED
    BY <1>2, <2>1, <2>2 DEF ChannelInOrder, IsClosed, Closed
<1>8. EndInv'
  BY <1>2, EndKept DEF EventsInv
<1>9. Missing' = Missing
  <2>1. ASSUME NEW m \in 1..n PROVE OnPipe(m)' <=> OnPipe(m) \/ m = n
    BY <1>3, <1>4, <2>1 DEF OnPipe
  <2>2. ~OnPipe(n) \/ TRUE
    OBVIOUS
  <2>3. \A m \in 1..n : m = n \/ m \in 1..emitted
    BY <1>2
  <2>4. \A m : (Surfaced(m)' <=> Surfaced(m)) /\ (InHand(m)' <=> InHand(m))
    BY <1>2 DEF Surfaced, InHand, IsClosed, Closed
  <2>5. \A m \in 1..emitted : m \in 1..n /\ m # n
    BY <1>2
  <2> QED
    BY <1>2, <2>1, <2>3, <2>4, <2>5 DEF Missing
<1>10. LossInv'
  BY <1>2, <1>9, LossKept DEF EventsInv
<1> QED
  BY <1>5, <1>6, <1>7, <1>8, <1>10 DEF EventsInv, FlowInv

\* The reader takes the oldest frame, or the pipe down to the line that fails.
LEMMA ReadFrameKeepsEvents ==
  ASSUME TypeOK, EventsInv, ReadFrame PROVE EventsInv'
<1>1. /\ Channel' = Channel /\ stdout \in Seq(Frame) /\ emitted \in Nat /\ reader.pc = "reading"
      /\ UNCHANGED <<emitted, answered, closed, stage, eventsClosed>>
  BY DEF ReadFrame, TypeOK, Channel, eventVars, callVars, closeVars
<1>2. reader.frame = NoFrame
  BY <1>1 DEF EventsInv, FlowInv, HandInOrder, Holds
<1>3. EndInv'
  BY <1>1, EndKept DEF EventsInv
<1>4. FramesInOrder'
  BY <1>1 DEF EventsInv, FlowInv, ChannelInOrder, FramesInOrder, IsClosed, Closed
<1>5. CASE /\ stdout # <<>> /\ ~Head(stdout).bad
           /\ stdout' = Tail(stdout)
           /\ reader' = [pc |-> "routing", frame |-> Head(stdout)]
  <2>1. /\ Head(stdout) = stdout[1] /\ 1 \in DOMAIN stdout /\ Len(stdout) \in Nat \ {0}
        /\ DOMAIN stdout = 1..Len(stdout) /\ DOMAIN stdout' = 1..Len(stdout) - 1
        /\ \A i \in DOMAIN stdout' : i + 1 \in DOMAIN stdout /\ stdout'[i] = stdout[i + 1]
    BY <1>1, <1>5
  <2>2. reader'.pc = "routing" /\ reader'.frame = stdout[1] /\ stdout[1] \in Frame
    BY <1>1, <1>5, <2>1
  <2>3. PipeInOrder'
    <3>1. \A i, j \in DOMAIN stdout' : i < j => i + 1 < j + 1
      BY <2>1
    <3> QED
      BY <1>1, <2>1, <3>1 DEF EventsInv, FlowInv, PipeInOrder
  <2>4. HandInOrder'
    <3>1. stdout[1].seq \in 1..emitted /\ \A i \in DOMAIN stdout' : stdout[1].seq < stdout'[i].seq
      BY <2>1 DEF EventsInv, FlowInv, PipeInOrder
    <3>2. \A i \in DOMAIN Channel : Channel[i].seq < stdout[1].seq
      BY <2>1 DEF EventsInv, FlowInv, ChannelInOrder
    <3> QED
      BY <1>1, <2>2, <3>1, <3>2 DEF HandInOrder, Holds
  <2>5. ChannelInOrder'
    <3>1. \A i \in DOMAIN Channel : \A j \in DOMAIN stdout' : Channel[i].seq < stdout'[j].seq
      BY <2>1 DEF EventsInv, FlowInv, ChannelInOrder
    <3> QED
      BY <1>1, <1>4, <3>1 DEF EventsInv, FlowInv, ChannelInOrder, IsClosed, Closed
  <2>6. Missing' = Missing
    <3>1. ASSUME NEW m \in 1..emitted PROVE InHand(m)' \/ OnPipe(m)' <=> InHand(m) \/ OnPipe(m)
      <4>1. ~InHand(m)
        BY <1>1, <1>2, <3>1 DEF InHand, NoFrame
      <4>2. InHand(m)' <=> stdout[1].seq = m
        BY <2>2 DEF InHand
      <4>3. OnPipe(m)' <=> \E i \in DOMAIN stdout : i # 1 /\ stdout[i].seq = m
        <5>1. \A i \in DOMAIN stdout : i # 1 => i - 1 \in DOMAIN stdout' /\ stdout'[i - 1] = stdout[i]
          BY <2>1
        <5>2. \A i \in DOMAIN stdout' : i + 1 # 1
          BY <2>1
        <5> QED
          BY <2>1, <5>1, <5>2 DEF OnPipe
      <4> QED
        BY <2>1, <4>1, <4>2, <4>3 DEF OnPipe
    <3>2. \A m : Surfaced(m)' <=> Surfaced(m)
      BY <1>1 DEF Surfaced, IsClosed, Closed
    <3> QED
      BY <1>1, <3>1, <3>2 DEF Missing
  <2>7. LossInv'
    BY <1>1, <2>6, LossKept DEF EventsInv
  <2> QED
    BY <1>3, <2>3, <2>4, <2>5, <2>7 DEF EventsInv, FlowInv
<1>6. ASSUME NEW k \in DOMAIN stdout, stdout' = SubSeq(stdout, k + 1, Len(stdout)),
             reader' = [pc |-> "closing", frame |-> NoFrame]
      PROVE  EventsInv'
  <2>1. /\ k \in Nat \ {0} /\ k <= Len(stdout) /\ Len(stdout) \in Nat /\ DOMAIN stdout = 1..Len(stdout)
    BY <1>1, <1>6
  <2>2. /\ DOMAIN stdout' = 1..Len(stdout) - k
        /\ \A i \in 1..Len(stdout) - k : stdout'[i] = stdout[i + k]
    BY <1>1, <1>6, <2>1, SubSeqProperties
  <2>3. \A i \in DOMAIN stdout' : i + k \in DOMAIN stdout /\ stdout'[i] = stdout[i + k] /\ i \in Nat
    BY <2>1, <2>2
  <2>4. PipeInOrder'
    <3>1. \A i, j \in DOMAIN stdout' : i < j => i + k < j + k
      BY <2>1, <2>3
    <3> QED
      BY <1>1, <2>3, <3>1 DEF EventsInv, FlowInv, PipeInOrder
  <2>5. HandInOrder'
    BY <1>6 DEF HandInOrder, Holds
  <2>6. ChannelInOrder'
    <3>1. \A i \in DOMAIN Channel : \A j \in DOMAIN stdout' : Channel[i].seq < stdout'[j].seq
      BY <2>3 DEF EventsInv, FlowInv, ChannelInOrder
    <3> QED
      BY <1>1, <1>4, <3>1 DEF EventsInv, FlowInv, ChannelInOrder, IsClosed, Closed
  <2>7. LossInv'
    BY <1>1, <1>6, LossKept DEF EventsInv
  <2> QED
    BY <1>3, <2>4, <2>5, <2>6, <2>7 DEF EventsInv, FlowInv
<1> QED
  BY <1>5, <1>6 DEF ReadFrame

\* A response that answers its call is the one frame the consumer does not see.
LEMMA RouteFrameKeepsEvents ==
  ASSUME TypeOK, ConnectionInv, EventsInv, RouteFrame PROVE EventsInv'
<1> DEFINE r == reader.frame.req
           n == reader.frame.seq
<1>1. /\ Channel' = Channel /\ reader.pc = "routing" /\ emitted \in Nat /\ answered \in SUBSET Request
      /\ UNCHANGED <<stdout, emitted, closed, stage, eventsClosed>>
  BY DEF RouteFrame, TypeOK, Channel, eventVars, callVars, closeVars, childVars
<1>2. EndInv'
  BY <1>1, EndKept DEF EventsInv
<1>3. PipeInOrder' /\ ChannelInOrder'
  BY <1>1 DEF EventsInv, FlowInv, PipeInOrder, ChannelInOrder, FramesInOrder, IsClosed, Closed
<1>4. /\ n \in 1..emitted /\ \A j \in DOMAIN stdout : n < stdout[j].seq
      /\ \A i \in DOMAIN Channel : Channel[i].seq < n
  BY <1>1 DEF EventsInv, FlowInv, HandInOrder, Holds
<1>5. CASE /\ r \in pending /\ answered' = answered \cup {r}
           /\ reader' = [pc |-> "reading", frame |-> NoFrame]
  <2>1. HandInOrder'
    BY <1>5 DEF HandInOrder, Holds
  <2>2. r \notin answered
    BY <1>5 DEF ConnectionInv, CallsAttached
  <2>3. Missing' = Missing \cup {n} /\ n \notin Missing
    <3>1. \A m : (Surfaced(m)' <=> Surfaced(m)) /\ (OnPipe(m)' <=> OnPipe(m))
      BY <1>1 DEF Surfaced, OnPipe, IsClosed, Closed
    <3>2. \A m \in 1..emitted : ~InHand(m)' /\ (InHand(m) <=> m = n)
      BY <1>1, <1>5 DEF InHand, NoFrame
    <3>3. ~Surfaced(n)
      BY <1>4 DEF Surfaced, EventsInv, FlowInv, ChannelInOrder
    <3>4. ~OnPipe(n)
      BY <1>4 DEF OnPipe, EventsInv, FlowInv, PipeInOrder
    <3> QED
      BY <1>1, <1>4, <3>1, <3>2, <3>3, <3>4 DEF Missing
  <2>4. IsFiniteSet(Missing) /\ IsFiniteSet(answered)
    <3>1. IsFiniteSet(1..emitted)
      BY <1>1, FS_Interval
    <3>2. Missing \subseteq 1..emitted
      BY DEF Missing
    <3> QED
      BY <3>1, <3>2, FS_Subset DEF EventsInv, LossInv
  <2>5. /\ IsFiniteSet(answered') /\ Cardinality(answered') = Cardinality(answered) + 1
        /\ Cardinality(Missing') = Cardinality(Missing) + 1
    BY <1>5, <2>2, <2>3, <2>4, FS_AddElement
  <2>6. ~closed' => Cardinality(Missing) = Cardinality(answered)
    BY <1>1 DEF EventsInv, LossInv, NoFrameLost, Missing
  <2>7. LossInv'
    BY <2>5, <2>6 DEF LossInv, NoFrameLost, Missing
  <2> QED
    BY <1>2, <1>3, <2>1, <2>7 DEF EventsInv, FlowInv
<1>6. CASE /\ UNCHANGED answered /\ reader'.frame = reader.frame
           /\ reader'.pc \in {"sending", "sendingLocked"}
  <2>1. HandInOrder'
    BY <1>1, <1>4, <1>6 DEF HandInOrder, Holds
  <2>2. Missing' = Missing
    BY <1>1, <1>6 DEF Missing, Surfaced, InHand, OnPipe, IsClosed, Closed
  <2>3. LossInv'
    BY <1>1, <1>6, <2>2, LossKept DEF EventsInv
  <2> QED
    BY <1>2, <1>3, <2>1, <2>3 DEF EventsInv, FlowInv
<1> QED
  BY <1>5, <1>6 DEF RouteFrame

\* What the reader sends comes after all that was sent; once the channel is
\* closed the frame is lost, and so is the connection.
LEMMA SendFrameEventKeepsEvents ==
  ASSUME TypeOK, ConnectionInv, EventsInv, SendFrameEvent PROVE EventsInv'
<1> DEFINE f == reader.frame
<1>1. /\ reader.pc \in {"sending", "sendingLocked"} /\ reader' = [pc |-> "reading", frame |-> NoFrame]
      /\ f \in Frame /\ emitted \in Nat
      /\ UNCHANGED <<stdout, emitted, answered, closed, stage, eventsClosed, delivered>>
  BY DEF SendFrameEvent, TypeOK, callVars, closeVars, childVars
<1>2. CASE eventsClosed /\ UNCHANGED events
  <2>1. Channel' = Channel
    BY <1>1, <1>2 DEF Channel
  <2>2. closed
    BY <1>2 DEF EventsInv, EndInv, ConnectionInv, StagesFollowFlag
  <2>3. FlowInv'
    BY <1>1, <2>1, FlowKept DEF EventsInv
  <2>4. EndInv'
    BY <1>1, <2>1, EndKept DEF EventsInv
  <2>5. LossInv'
    BY <1>1, <2>2, LossKept DEF EventsInv, TypeOK
  <2> QED
    BY <2>3, <2>4, <2>5 DEF EventsInv
<1>3. CASE ~eventsClosed /\ events' = Append(events, f)
  <2> DEFINE k == Len(Channel) + 1
  <2>1. /\ Channel \in Seq(Frame) /\ Channel' \in Seq(Frame) /\ Len(Channel) \in Nat
        /\ Len(Channel') = k /\ Channel'[k] = f
        /\ \A i \in 1..Len(Channel) : Channel'[i] = Channel[i]
    BY <1>1, <1>3, SentIsInChannel, ChannelTyped
  <2>2. DOMAIN Channel = 1..Len(Channel) /\ DOMAIN Channel' = 1..k
    BY <2>1
  <2>3. ASSUME NEW i \in DOMAIN Channel'
        PROVE  (i = k /\ Channel'[i] = f) \/ (i \in DOMAIN Channel /\ Channel'[i] = Channel[i] /\ i < k)
    <3>1. i \in 1..Len(Channel) \/ i = k
      BY <2>1, <2>2, <2>3
    <3> QED
      BY <2>1, <2>2, <3>1
  <2>4. /\ f.seq \in 1..emitted /\ \A j \in DOMAIN stdout : f.seq < stdout[j].seq
        /\ \A i \in DOMAIN Channel : Channel[i].seq < f.seq
    BY <1>1 DEF EventsInv, FlowInv, HandInOrder, Holds
  <2>5. ~IsClosed(f)
    BY <2>4 DEF IsClosed, Closed
  <2>6. PipeInOrder' /\ HandInOrder'
    BY <1>1 DEF EventsInv, FlowInv, PipeInOrder, HandInOrder, Holds
  <2>7. ASSUME NEW i \in DOMAIN Channel'
        PROVE  /\ Channel'[i].seq \in 0..emitted /\ (IsClosed(Channel'[i]) <=> Channel'[i].seq = 0)
               /\ \A j \in DOMAIN stdout : Channel'[i].seq < stdout[j].seq
    <3>1. CASE i = k /\ Channel'[i] = f
      BY <1>1, <2>4, <2>5, <3>1
    <3>2. CASE i \in DOMAIN Channel /\ Channel'[i] = Channel[i]
      BY <3>2 DEF EventsInv, FlowInv, ChannelInOrder
    <3> QED
      BY <2>3, <3>1, <3>2
  <2>8. ASSUME NEW i \in DOMAIN Channel', NEW j \in DOMAIN Channel', i < j,
               ~IsClosed(Channel'[i]), ~IsClosed(Channel'[j])
        PROVE  Channel'[i].seq < Channel'[j].seq
    <3>1. i \in DOMAIN Channel /\ Channel'[i] = Channel[i]
      <4>1. i # k
        BY <2>1, <2>2, <2>8
      <4> QED
        BY <2>3, <4>1
    <3>2. CASE j = k /\ Channel'[j] = f
      BY <2>4, <3>1, <3>2
    <3>3. CASE j \in DOMAIN Channel /\ Channel'[j] = Channel[j]
      BY <2>8, <3>1, <3>3 DEF EventsInv, FlowInv, ChannelInOrder, FramesInOrder
    <3> QED
      BY <2>3, <3>2, <3>3
  <2>9. ChannelInOrder'
    <3>1. FramesInOrder'
      BY <2>8 DEF FramesInOrder, IsClosed, Closed
    <3> QED
      BY <1>1, <2>7, <3>1 DEF ChannelInOrder, IsClosed, Closed
  <2>10. EndInv'
    <3>1. \A i \in DOMAIN Channel' : IsClosed(Channel'[i]) => i \in DOMAIN Channel /\ IsClosed(Channel[i])
      BY <2>3, <2>5
    <3> QED
      BY <1>1, <3>1 DEF EventsInv, EndInv, IsClosed, Closed
  <2>11. Missing' = Missing
    <3>1. ASSUME NEW m \in 1..emitted
          PROVE (Surfaced(m)' \/ InHand(m)') <=> (Surfaced(m) \/ InHand(m))
      <4>1. InHand(m) <=> f.seq = m
        BY DEF InHand
      <4>2. ~InHand(m)'
        BY <1>1, <3>1 DEF InHand, NoFrame
      <4>3. k \in DOMAIN Channel' /\ Channel'[k] = f
        BY <2>1, <2>2
      <4>4. \A i \in DOMAIN Channel : i \in DOMAIN Channel' /\ Channel'[i] = Channel[i]
        BY <2>1, <2>2
      <4>5. Surfaced(m)' <=> \E i \in DOMAIN Channel' : ~IsClosed(Channel'[i]) /\ Channel'[i].seq = m
        BY DEF Surfaced, IsClosed, Closed
      <4>6. Surfaced(m)' => Surfaced(m) \/ f.seq = m
        BY <2>3, <4>5 DEF Surfaced
      <4>7. Surfaced(m) \/ f.seq = m => Surfaced(m)'
        BY <2>5, <4>3, <4>4, <4>5 DEF Surfaced
      <4> QED
        BY <4>1, <4>2, <4>6, <4>7
    <3>2. \A m : OnPipe(m)' <=> OnPipe(m)
      BY <1>1 DEF OnPipe
    <3> QED
      BY <1>1, <3>1, <3>2 DEF Missing
  <2>12. LossInv'
    BY <1>1, <2>11, LossKept DEF EventsInv
  <2> QED
    BY <2>6, <2>9, <2>10, <2>12 DEF EventsInv, FlowInv
<1> QED
  BY <1>2, <1>3 DEF SendFrameEvent

\* Closed is announced once, by a connection that is closed already.
LEMMA AnnounceClosedKeepsEvents ==
  ASSUME TypeOK, ConnectionInv, EventsInv, AnnounceClosed PROVE EventsInv'
<1> DEFINE k == Len(Channel) + 1
<1>1. /\ stage = "announce" /\ stage' = "closeEvents" /\ events' = Append(events, Closed)
      /\ emitted \in Nat /\ closed /\ Closed \in Frame /\ IsClosed(Closed) /\ Closed.seq = 0
      /\ UNCHANGED <<stdout, emitted, answered, reader, closed, eventsClosed, delivered>>
  BY DEF AnnounceClosed, TypeOK, ConnectionInv, StagesFollowFlag, Closed, Frame, IsClosed,
         callVars, childVars
<1>2. /\ Channel \in Seq(Frame) /\ Channel' \in Seq(Frame) /\ Len(Channel) \in Nat
      /\ Len(Channel') = k /\ Channel'[k] = Closed
      /\ \A i \in 1..Len(Channel) : Channel'[i] = Channel[i]
  BY <1>1, SentIsInChannel, ChannelTyped
<1>3. DOMAIN Channel = 1..Len(Channel) /\ DOMAIN Channel' = 1..k
  BY <1>2
<1>4. ASSUME NEW i \in DOMAIN Channel'
      PROVE  (i = k /\ Channel'[i] = Closed) \/ (i \in DOMAIN Channel /\ Channel'[i] = Channel[i])
  <2>1. i \in 1..Len(Channel) \/ i = k
    BY <1>2, <1>3, <1>4
  <2> QED
    BY <1>2, <1>3, <2>1
<1>5. \A i \in DOMAIN Channel : ~IsClosed(Channel[i])
  BY <1>1 DEF EventsInv, EndInv
<1>6. \A j \in DOMAIN stdout : 0 < stdout[j].seq
  BY <1>1 DEF EventsInv, FlowInv, PipeInOrder
<1>7. PipeInOrder'
  BY <1>1 DEF EventsInv, FlowInv, PipeInOrder
<1>8. HandInOrder'
  <2>1. CASE Holds
    <3>1. \A i \in DOMAIN Channel' : Channel'[i].seq < reader.frame.seq
      BY <1>1, <1>4, <2>1 DEF EventsInv, FlowInv, HandInOrder
    <3> QED
      BY <1>1, <2>1, <3>1 DEF EventsInv, FlowInv, HandInOrder, Holds
  <2>2. CASE ~Holds
    BY <1>1, <2>2 DEF EventsInv, FlowInv, HandInOrder, Holds, NoFrame
  <2> QED
    BY <2>1, <2>2
<1>9. ChannelInOrder'
  <2>1. ASSUME NEW i \in DOMAIN Channel'
        PROVE  /\ Channel'[i].seq \in 0..emitted /\ (IsClosed(Channel'[i]) <=> Channel'[i].seq = 0)
               /\ \A j \in DOMAIN stdout : Channel'[i].seq < stdout[j].seq
    <3>1. CASE i = k /\ Channel'[i] = Closed
      BY <1>1, <1>6, <3>1
    <3>2. CASE i \in DOMAIN Channel /\ Channel'[i] = Channel[i]
      BY <3>2 DEF EventsInv, FlowInv, ChannelInOrder
    <3> QED
      BY <1>4, <3>1, <3>2
  <2>2. ASSUME NEW i \in DOMAIN Channel', NEW j \in DOMAIN Channel', i < j,
               ~IsClosed(Channel'[i]), ~IsClosed(Channel'[j])
        PROVE  Channel'[i].seq < Channel'[j].seq
    <3>1. /\ i \in DOMAIN Channel /\ Channel'[i] = Channel[i]
          /\ j \in DOMAIN Channel /\ Channel'[j] = Channel[j]
      BY <1>1, <1>4, <2>2
    <3> QED
      BY <2>2, <3>1 DEF EventsInv, FlowInv, ChannelInOrder, FramesInOrder
  <2>3. FramesInOrder'
    BY <2>2 DEF FramesInOrder, IsClosed, Closed
  <2> QED
    BY <1>1, <2>1, <2>3 DEF ChannelInOrder, IsClosed, Closed
<1>10. EndInv'
  <2>1. \A i \in DOMAIN Channel' : IsClosed(Channel'[i]) => i = k
    BY <1>4, <1>5
  <2>2. eventsClosed' => FALSE
    BY <1>1 DEF EventsInv, EndInv
  <2> QED
    BY <1>1, <2>1, <2>2 DEF EndInv, IsClosed, Closed
<1>11. LossInv'
  BY <1>1, LossKept DEF EventsInv, TypeOK
<1> QED
  BY <1>7, <1>8, <1>9, <1>10, <1>11 DEF EventsInv, FlowInv

\* The rest of the closing, and the steps that touch no frame.
LEMMA ClosingKeepsEvents ==
  ASSUME TypeOK, ConnectionInv, EventsInv,
         ReadEof \/ (\E t \in Tasks : BeginClose(t)) \/ ReapChild \/ CloseEvents \/ CloseWriter
  PROVE  EventsInv'
<1>1. CASE ReadEof
  <2>1. /\ Channel' = Channel /\ UNCHANGED <<stdout, emitted, answered, closed, stage, eventsClosed>>
        /\ reader'.pc = "closing" /\ reader'.frame = NoFrame
    BY <1>1 DEF ReadEof, Channel, callVars, childVars, closeVars, eventVars
  <2> QED
    BY <2>1, FlowKept, EndKept, LossKept DEF EventsInv
<1>2. ASSUME NEW t \in Tasks, BeginClose(t) PROVE EventsInv'
  <2>1. /\ Channel' = Channel /\ closed' = TRUE
        /\ UNCHANGED <<stdout, emitted, answered, eventsClosed>>
        /\ \/ reader' = reader
           \/ reader'.pc = "gone" /\ reader'.frame = NoFrame
    BY <1>2 DEF BeginClose, EndTask, Channel, childVars, closeVars, eventVars, TypeOK
  <2>2. stage # "open" => stage' = stage
    BY <1>2 DEF BeginClose, closeVars, ConnectionInv, StagesFollowFlag
  <2>3. FlowInv'
    BY <2>1, FlowKept DEF EventsInv
  <2>4. EndInv'
    BY <2>1, <2>2, EndKept DEF EventsInv
  <2> QED
    BY <2>1, <2>3, <2>4, LossKept DEF EventsInv
<1>3. CASE ReapChild
  <2>1. /\ Channel' = Channel /\ stage = "reap" /\ closed
        /\ UNCHANGED <<stdout, emitted, answered, reader, closed, eventsClosed>>
    BY <1>3 DEF ReapChild, Channel, callVars, childVars, eventVars, ConnectionInv, StagesFollowFlag
  <2> QED
    BY <2>1, FlowKept, EndKept, LossKept, MissingKept DEF EventsInv
<1>4. CASE CloseEvents
  <2>1. /\ Channel' = Channel /\ stage = "closeEvents" /\ stage' = "closeWriter"
        /\ UNCHANGED <<stdout, emitted, answered, reader, closed>>
    BY <1>4 DEF CloseEvents, Channel, callVars, childVars
  <2>2. EndInv'
    BY <2>1 DEF EventsInv, EndInv, IsClosed, Closed
  <2> QED
    BY <2>1, <2>2, FlowKept, LossKept, MissingKept DEF EventsInv
<1>5. CASE CloseWriter
  <2>1. /\ Channel' = Channel /\ stage = "closeWriter" /\ stage' = "done" /\ closed' = TRUE
        /\ UNCHANGED <<stdout, emitted, answered, eventsClosed>>
        /\ \/ reader' = reader
           \/ reader'.pc = "gone" /\ reader'.frame = NoFrame
    BY <1>5 DEF CloseWriter, EndTask, Channel, callVars, childVars, eventVars, ConnectionInv,
                StagesFollowFlag, TypeOK
  <2> QED
    BY <2>1, FlowKept, EndKept, LossKept DEF EventsInv
<1> QED
  BY <1>1, <1>2, <1>3, <1>4, <1>5

LEMMA CallsKeepEvents ==
  ASSUME TypeOK, EventsInv,
         \/ \E r \in Request : StartCall(r) \/ CallStep(r) \/ DropCall(r)
         \/ SendRaw \/ CloseStdin \/ WriterStep \/ WriteLine \/ ChildExit \/ WatcherPoll
         \/ ReceiveEvent \/ UNCHANGED vars
  PROVE  EventsInv'
<1>1. UNCHANGED <<stdout, emitted, answered, reader, closed, stage, eventsClosed>>
  BY DEF StartCall, CallStep, EnqueueLine, ReceiveResponse, TimerFires, ForgetCall, DropCall,
         SendRaw, CloseStdin, WriterStep, WriterTake, WriteFails, WriterEnd, WriteLine, ChildExit,
         WatcherPoll, ReceiveEvent, vars, callVars, childVars, closeVars, eventVars
<1>2. Channel' = Channel
  <2>1. CASE ReceiveEvent
    BY <2>1, ReceivedIsInChannel
  <2>2. CASE ~ReceiveEvent
    BY <2>2 DEF StartCall, CallStep, EnqueueLine, ReceiveResponse, TimerFires, ForgetCall, DropCall,
         SendRaw, CloseStdin, WriterStep, WriterTake, WriteFails, WriterEnd, WriteLine, ChildExit,
         WatcherPoll, vars, eventVars, Channel
  <2> QED
    BY <2>1, <2>2
<1> QED
  BY <1>1, <1>2, EventsKept

LEMMA EventsStep ==
  ASSUME TypeOK, ConnectionInv, EventsInv, [Next]_vars PROVE EventsInv'
<1>1. CASE ReaderStep
  BY <1>1, ReadFrameKeepsEvents, ClosingKeepsEvents, RouteFrameKeepsEvents,
     SendFrameEventKeepsEvents DEF ReaderStep
<1>2. CASE CloseStep
  BY <1>2, ClosingKeepsEvents, AnnounceClosedKeepsEvents DEF CloseStep
<1>3. CASE ChildEmit
  BY <1>3, ChildEmitKeepsEvents
<1> QED
  BY <1>1, <1>2, <1>3, CallsKeepEvents DEF Next

LEMMA EventsInit == Init => EventsInv
<1> SUFFICES ASSUME Init PROVE EventsInv
  OBVIOUS
<1>1. /\ Channel = <<>> /\ stdout = <<>> /\ emitted = 0 /\ answered = {} /\ ~eventsClosed
      /\ reader = [pc |-> "reading", frame |-> NoFrame]
  BY DEF Init, Channel
<1>2. FlowInv
  BY <1>1 DEF FlowInv, PipeInOrder, HandInOrder, ChannelInOrder, FramesInOrder, Holds
<1>3. EndInv
  BY <1>1 DEF EndInv
<1>4. LossInv
  <2>1. 1..emitted = {}
    BY <1>1
  <2>2. Missing = {}
    BY <2>1 DEF Missing
  <2> QED
    BY <1>1, <2>2, FS_EmptySet DEF LossInv, NoFrameLost, Missing
<1> QED
  BY <1>2, <1>3, <1>4 DEF EventsInv

LEMMA EventsInvSuffices == TypeOK /\ ConnectionInv /\ EventsInv => EventsFaithful
<1> SUFFICES ASSUME TypeOK, ConnectionInv, EventsInv PROVE EventsFaithful
  OBVIOUS
<1> DEFINE C == {i \in DOMAIN Channel : IsClosed(Channel[i])}
<1>1. Cardinality(C) <= 1
  <2>1. CASE C = {}
    BY <2>1, FS_EmptySet
  <2>2. ASSUME NEW i \in C PROVE Cardinality(C) <= 1
    <3>1. C = {i}
      BY <2>2 DEF EventsInv, EndInv
    <3>2. Cardinality({i}) = 1
      BY FS_Singleton
    <3> QED
      BY <3>1, <3>2
  <2> QED
    BY <2>1, <2>2
<1>2. (\E i \in DOMAIN Channel : IsClosed(Channel[i])) => closed /\ pending = {}
  BY DEF EventsInv, EndInv, ConnectionInv, StagesFollowFlag, ClosedMeansDrained
<1>3. ClosedAnnouncedOnce
  BY <1>1, <1>2 DEF ClosedAnnouncedOnce
<1>4. FramesInOrder /\ NoFrameLost
  BY DEF EventsInv, FlowInv, ChannelInOrder, LossInv
<1> QED
  BY <1>3, <1>4 DEF EventsFaithful

\* Whatever raced below, the consumer gets one end, announced when every call has
\* been failed; the frames in the order the child wrote them; and, while the
\* connection is up, all of them but the first response to each answered call.
THEOREM EventsFaithfulAlways == Spec => []EventsFaithful
<1>1. TypeOK /\ ConnectionInv /\ EventsInv /\ [Next]_vars => EventsInv'
  BY EventsStep
<1> QED
  BY <1>1, EventsInit, EventsInvSuffices, TypeCorrect, ConnectionInvariant, PTL DEF Spec


-----------------------------------------------------------------------------
(* The connection implements RequestReply.                                 *)

\* What moving one call does to the status the abstract specification sees.
LEMMA StatusMoves ==
  ASSUME TypeOK, NEW r \in Request, NEW pc, CallTo(r, pc)
  PROVE  callStatus' = [callStatus EXCEPT ![r] = IF pc \in Running THEN "inflight" ELSE pc]
  BY DEF TypeOK, CallTo, callStatus

\* A move between the stages of a running call is not seen.
LEMMA StatusStays ==
  ASSUME TypeOK, NEW r \in Request, NEW pc \in Running, CallTo(r, pc), call[r] \in Running
  PROVE  UNCHANGED callStatus
<1>1. callStatus' = [callStatus EXCEPT ![r] = "inflight"]
  BY StatusMoves
<1>2. callStatus[r] = "inflight"
  BY DEF callStatus
<1> QED
  BY <1>1, <1>2 DEF callStatus

\* A step that moves neither calls, answers, the flag nor the writer's end.
LEMMA Stutters ==
  ASSUME UNCHANGED <<callStatus, answered, closed>>,
         (writer.pc = "gone") = (writer'.pc = "gone")
  PROVE  UNCHANGED Abstract!rrvars
  BY DEF Abstract!rrvars

\* A step of which only the end of the writer can be seen.
LEMMA HalfCloses ==
  ASSUME UNCHANGED <<callStatus, answered, closed>>,
         writer.pc = "gone" => writer'.pc = "gone"
  PROVE  [Abstract!RRNext]_(Abstract!rrvars)
<1>1. CASE writer.pc = "gone" \/ writer'.pc # "gone"
  BY <1>1, Stutters
<1>2. CASE writer.pc # "gone" /\ writer'.pc = "gone"
  <2>1. Abstract!HalfClose
    BY <1>2 DEF Abstract!HalfClose
  <2> QED
    BY <2>1 DEF Abstract!RRNext
<1> QED
  BY <1>1, <1>2

\* Each step of send_internal is one step of its call, or none.
LEMMA CallRefines ==
  ASSUME TypeOK, ConnectionInv, NEW r \in Request,
         StartCall(r) \/ CallStep(r) \/ DropCall(r)
  PROVE  [Abstract!RRNext]_(Abstract!rrvars)
<1> USE DEF queueVars, childVars, closeVars, eventVars
<1>1. ASSUME UNCHANGED <<answered, closed, writer>>
      PROVE  UNCHANGED answered /\ (~closed)' = ~closed
             /\ (writer.pc # "gone")' = (writer.pc # "gone")
  BY <1>1
<1>2. ASSUME StartCall(r) PROVE [Abstract!RRNext]_(Abstract!rrvars)
  <2>1. UNCHANGED <<answered, closed, writer>>
    BY <1>2 DEF StartCall
  <2>2. callStatus[r] = "idle"
    BY <1>2 DEF StartCall, callStatus, Running
  <2>3. CASE closed
    <3>1. callStatus' = [callStatus EXCEPT ![r] = "died"]
      BY <1>2, <2>3, StatusMoves DEF StartCall, Running
    <3>2. Abstract!Refuse(r)
      BY <1>1, <2>1, <2>2, <2>3, <3>1 DEF Abstract!Refuse, Abstract!Settle
    <3> QED
      BY <3>2 DEF Abstract!RRNext
  <2>4. CASE ~closed
    <3>1. callStatus' = [callStatus EXCEPT ![r] = "inflight"]
      BY <1>2, <2>4, StatusMoves DEF StartCall, Running
    <3>2. Abstract!Issue(r)
      BY <1>1, <2>1, <2>2, <2>4, <3>1 DEF Abstract!Issue, Abstract!Settle
    <3> QED
      BY <3>2 DEF Abstract!RRNext
  <2> QED
    BY <2>3, <2>4
<1>3. ASSUME EnqueueLine(r) PROVE [Abstract!RRNext]_(Abstract!rrvars)
  <2>1. UNCHANGED <<answered, closed, writer>>
    BY <1>3 DEF EnqueueLine
  <2>2. UNCHANGED callStatus
    BY <1>3, StatusStays DEF EnqueueLine, Running
  <2> QED
    BY <2>1, <2>2, Stutters
<1>4. ASSUME ReceiveResponse(r) PROVE [Abstract!RRNext]_(Abstract!rrvars)
  <2>1. UNCHANGED <<answered, closed, writer>>
    BY <1>4 DEF ReceiveResponse
  <2>2. callStatus[r] = "inflight"
    BY <1>4 DEF ReceiveResponse, callStatus, Running
  <2>3. CASE r \in answered /\ CallTo(r, "ok")
    <3>1. callStatus' = [callStatus EXCEPT ![r] = "ok"]
      BY <2>3, StatusMoves DEF Running
    <3>2. Abstract!Return(r)
      BY <1>1, <2>1, <2>2, <2>3, <3>1 DEF Abstract!Return, Abstract!Settle
    <3> QED
      BY <3>2 DEF Abstract!RRNext
  <2>4. CASE CallTo(r, "orphaned")
    <3>1. UNCHANGED callStatus
      BY <1>4, <2>4, StatusStays DEF ReceiveResponse, Running
    <3> QED
      BY <2>1, <3>1, Stutters
  <2> QED
    BY <1>4, <2>3, <2>4 DEF ReceiveResponse
<1>5. ASSUME TimerFires(r) PROVE [Abstract!RRNext]_(Abstract!rrvars)
  <2>1. UNCHANGED <<answered, closed, writer>>
    BY <1>5 DEF TimerFires
  <2>2. UNCHANGED callStatus
    BY <1>5, StatusStays DEF TimerFires, Running
  <2> QED
    BY <2>1, <2>2, Stutters
<1>6. ASSUME ForgetCall(r) PROVE [Abstract!RRNext]_(Abstract!rrvars)
  <2>1. UNCHANGED <<answered, closed, writer>>
    BY <1>6 DEF ForgetCall
  <2>2. callStatus[r] = "inflight"
    BY <1>6 DEF ForgetCall, callStatus, Running
  <2>3. CASE call[r] = "expired"
    <3>1. callStatus' = [callStatus EXCEPT ![r] = "timeout"]
      BY <1>6, <2>3, StatusMoves DEF ForgetCall, Running
    <3>2. Abstract!Expire(r)
      BY <1>1, <2>1, <2>2, <3>1 DEF Abstract!Expire, Abstract!Settle
    <3> QED
      BY <3>2 DEF Abstract!RRNext
  <2>4. CASE call[r] \in {"refused", "orphaned"}
    <3>1. callStatus' = [callStatus EXCEPT ![r] = "died"]
      BY <1>6, <2>4, StatusMoves DEF ForgetCall, Running
    <3>2. r \notin answered
      BY <2>4 DEF ConnectionInv, UnsentIsUnknown, Unsent, Untouched, CallsAttached
    <3>3. closed \/ writer.pc = "gone"
      BY <2>4 DEF ConnectionInv, DiedMeansGone
    <3>4. Abstract!Fail(r)
      BY <1>1, <2>1, <2>2, <3>1, <3>2, <3>3 DEF Abstract!Fail, Abstract!Settle
    <3> QED
      BY <3>4 DEF Abstract!RRNext
  <2> QED
    BY <1>6, <2>3, <2>4 DEF ForgetCall
<1>7. ASSUME DropCall(r) PROVE [Abstract!RRNext]_(Abstract!rrvars)
  <2>1. UNCHANGED <<answered, closed, writer>>
    BY <1>7 DEF DropCall
  <2>2. callStatus[r] = "inflight"
    BY <1>7 DEF DropCall, callStatus
  <2>3. callStatus' = [callStatus EXCEPT ![r] = "dropped"]
    BY <1>7, StatusMoves DEF DropCall, Running
  <2>4. Abstract!Drop(r)
    BY <1>1, <2>1, <2>2, <2>3 DEF Abstract!Drop, Abstract!Settle
  <2> QED
    BY <2>4 DEF Abstract!RRNext
<1> QED
  BY <1>2, <1>3, <1>4, <1>5, <1>6, <1>7 DEF CallStep

\* Each step of the tasks, the child and the consumer answers a call, shuts the
\* connection, ends the writer, or is not seen.
LEMMA TaskRefines ==
  ASSUME TypeOK, ConnectionInv,
         \/ SendRaw \/ CloseStdin \/ WriterStep \/ WriteLine \/ ChildEmit \/ ChildExit
         \/ ReaderStep \/ WatcherPoll \/ CloseStep \/ ReceiveEvent \/ UNCHANGED vars
  PROVE  [Abstract!RRNext]_(Abstract!rrvars)
<1> USE DEF callVars, queueVars, childVars, closeVars, eventVars
<1>1. ASSUME UNCHANGED <<call, answered, closed>>,
             writer.pc = "gone" => writer'.pc = "gone"
      PROVE  [Abstract!RRNext]_(Abstract!rrvars)
  <2>1. UNCHANGED callStatus
    BY <1>1 DEF callStatus
  <2> QED
    BY <1>1, <2>1, HalfCloses
<1>2. ASSUME SendRaw \/ CloseStdin \/ ChildEmit \/ ChildExit \/ WatcherPoll \/ ReceiveEvent
      PROVE  UNCHANGED <<call, answered, closed, writer>>
  BY <1>2 DEF SendRaw, CloseStdin, ChildEmit, ChildExit, WatcherPoll, ReceiveEvent
<1>3. ASSUME WriterStep \/ WriteLine
      PROVE  UNCHANGED <<call, answered, closed>> /\ writer.pc # "gone"
  BY <1>3 DEF WriterStep, WriterTake, WriteFails, WriterEnd, WriteLine
<1>4. ASSUME ReadFrame \/ ReadEof \/ SendFrameEvent
      PROVE  UNCHANGED <<call, answered, closed, writer>>
  BY <1>4 DEF ReadFrame, ReadEof, SendFrameEvent
<1>5. ASSUME ReapChild \/ AnnounceClosed \/ CloseEvents
      PROVE  UNCHANGED <<call, answered, closed, writer>>
  BY <1>5 DEF ReapChild, AnnounceClosed, CloseEvents
<1>6. ASSUME CloseWriter
      PROVE  UNCHANGED <<call, answered, closed>> /\ (writer.pc = "gone" => writer'.pc = "gone")
  BY <1>6 DEF CloseWriter, EndTask
<1>7. ASSUME RouteFrame PROVE [Abstract!RRNext]_(Abstract!rrvars)
  <2> DEFINE r == reader.frame.req
  <2>1. UNCHANGED <<call, closed, writer>>
    BY <1>7 DEF RouteFrame
  <2>2. UNCHANGED callStatus
    BY <2>1 DEF callStatus
  <2>3. CASE r \in pending /\ ReceiverAlive(r)
    <3>1. answered' = answered \cup {r}
      BY <1>7, <2>3 DEF RouteFrame
    <3>2. r \in Request /\ r \notin answered /\ ~closed
      BY <2>3 DEF TypeOK, ConnectionInv, CallsAttached, ClosedMeansDrained
    <3>3. callStatus[r] = "inflight"
      BY <2>3, <3>2 DEF ConnectionInv, NoLeakedEntry, ReceiverAlive, callStatus
    <3>4. (~closed)' = ~closed /\ (writer.pc # "gone")' = (writer.pc # "gone")
      BY <2>1
    <3>5. Abstract!Answer(r)
      BY <2>2, <3>1, <3>2, <3>3, <3>4 DEF Abstract!Answer
    <3> QED
      BY <3>2, <3>5 DEF Abstract!RRNext
  <2>4. CASE ~(r \in pending /\ ReceiverAlive(r))
    <3>1. UNCHANGED answered
      BY <1>7, <2>4 DEF RouteFrame
    <3> QED
      BY <1>1, <2>1, <3>1
  <2> QED
    BY <2>3, <2>4
<1>8. ASSUME NEW t \in Tasks, BeginClose(t) PROVE [Abstract!RRNext]_(Abstract!rrvars)
  <2>1. UNCHANGED <<call, answered>>
    BY <1>8 DEF BeginClose
  <2>2. CASE closed
    <3>1. UNCHANGED closed /\ (writer.pc = "gone" => writer'.pc = "gone")
      BY <1>8, <2>2 DEF BeginClose, EndTask
    <3> QED
      BY <1>1, <2>1, <3>1
  <2>3. CASE ~closed
    <3>1. closed' /\ UNCHANGED writer
      BY <1>8, <2>3 DEF BeginClose
    <3>2. UNCHANGED callStatus
      BY <2>1 DEF callStatus
    <3>3. Abstract!Shut
      BY <2>1, <2>3, <3>1, <3>2 DEF Abstract!Shut
    <3> QED
      BY <3>3 DEF Abstract!RRNext
  <2> QED
    BY <2>2, <2>3
<1>9. ASSUME UNCHANGED vars PROVE UNCHANGED <<call, answered, closed, writer>>
  BY <1>9 DEF vars
<1> QED
  BY <1>1, <1>2, <1>3, <1>4, <1>5, <1>6, <1>7, <1>8, <1>9 DEF ReaderStep, CloseStep

\* Seen through callStatus, the connection is a RequestReply: whatever its tasks
\* do, a call is answered, expires or fails once, and fails only on a connection
\* (or a writer) that is gone.
THEOREM Refinement == Spec => ImplementsRequestReply
<1>1. Init => Abstract!RRInit
  BY DEF Init, Abstract!RRInit, callStatus, Running
<1>2. TypeOK /\ ConnectionInv /\ [Next]_vars => [Abstract!RRNext]_(Abstract!rrvars)
  BY CallRefines, TaskRefines DEF Next
<1> QED
  BY <1>1, <1>2, TypeCorrect, ConnectionInvariant, PTL
     DEF Spec, ImplementsRequestReply, Abstract!RRSpec

=============================================================================
