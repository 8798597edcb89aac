------------------------------- MODULE Decoder -------------------------------
(***************************************************************************)
(* Decoder: how the client's reader turns omp's stdout into frames.  A     *)
(* read may cut the stream anywhere; LineDecoder joins the pieces of a     *)
(* line, ChunkReassembler joins the chunks of a logical frame, and         *)
(* FrameReader hands the frames out one by one.  A line is its size, its   *)
(* text, and its chunk fields if it is an rpc_chunk; the text of a chunk   *)
(* is that of the frame whose payload it would complete.                   *)
(***************************************************************************)
EXTENDS Frames, Integers, Sequences

CONSTANTS Line,         \* the lines omp may print
          NoChunk,      \* chunk fields of a line that is not an rpc_chunk
          NoPending,    \* no chunk sequence is being reassembled
          MaxFrame,     \* bytes of one line, newline included (1 MiB)
          MaxLogical,   \* bytes of one reassembled frame (64 MiB)
          MaxPayload,   \* decoded bytes of one chunk (256 KiB)
          MaxCount,     \* chunks of one frame (256)
          ReadSize,     \* the read buffer (8 KiB)
          MaxLines      \* bound: whole lines omp prints

\* wellFormed: every field is present and of its type, the id has 1..128 units,
\* the data is canonical base64.
ChunkFields == [wellFormed : BOOLEAN, id : STRING, index : Nat, count : Nat,
                declared : Nat, data : Nat]

\* A sequence is known by the line it began on, and by Pending's fields.
PendingSeq == [from : Nat, id : STRING, count : Nat, declared : Nat,
               next : Nat, received : Nat]

ASSUME DecoderAssumption ==
  /\ {MaxFrame, MaxLogical, MaxPayload, MaxCount, ReadSize} \subseteq Nat \ {0}
  /\ MaxLines \in Nat
  /\ NoChunk \notin ChunkFields
  /\ Line \subseteq [size : Nat \ {0}, text : Text,
                     chunk : ChunkFields \cup {NoChunk}]
  /\ NoPending \notin PendingSeq

VARIABLES
  printed,    \* the whole lines omp has printed
  torn,       \* bytes it printed after the last newline before it went away
  hungUp,     \* stdout is closed at omp's end
  unread,     \* bytes in the pipe
  left,       \* bytes of the last read still to be fed
  at,         \* whole lines the LineDecoder has taken
  buffered,   \* LineDecoder.buffer: bytes of the line in flight
  pending,    \* ChunkReassembler.pending
  ready,      \* FrameReader.ready_frames
  handed,     \* history: the frames next_frame has returned
  verdict     \* what next_frame fails with, once it does

pipeVars == <<printed, torn, hungUp, unread>>
vars == <<pipeVars, left, at, buffered, pending, ready, handed, verdict>>

Verdict == {"reading", "eof", "io", "protocol", "tooLarge", "json"}

\* A frame is known by the lines it came from.
Frame == [from : Nat, to : Nat]

Init == /\ printed = <<>>
        /\ torn = 0
        /\ hungUp = FALSE
        /\ unread = 0
        /\ left = 0
        /\ at = 0
        /\ buffered = 0
        /\ pending = NoPending
        /\ ready = <<>>
        /\ handed = <<>>
        /\ verdict = "reading"

-----------------------------------------------------------------------------
(* omp, the other end of the pipe.                                          *)

WriteLine(line) ==
  /\ ~hungUp
  /\ Len(printed) < MaxLines
  /\ printed' = Append(printed, line)
  /\ unread' = unread + line.size
  /\ UNCHANGED <<torn, hungUp, left, at, buffered, pending, ready, handed, verdict>>

\* omp goes away, perhaps in the middle of a line.
HangUp(bytes) ==
  /\ ~hungUp
  /\ hungUp' = TRUE
  /\ torn' = bytes
  /\ unread' = unread + bytes
  /\ UNCHANGED <<printed, left, at, buffered, pending, ready, handed, verdict>>

-----------------------------------------------------------------------------
(* ChunkReassembler::push.                                                  *)

\* extract_chunk_meta.
MetaOK(c) == /\ c.wellFormed
             /\ c.count \in 2..MaxCount
             /\ c.index < c.count
             /\ c.declared \in MaxFrame..MaxLogical

\* decode_chunk_payload.
PayloadOK(c) == c.data \in 1..MaxPayload

\* The sequence in flight, or one that starts with this chunk.
Current(c) ==
  IF pending # NoPending THEN pending
  ELSE [from |-> at + 1, id |-> c.id, count |-> c.count,
        declared |-> c.declared, next |-> 0, received |-> 0]

Continues(c, p) ==
  <<p.id, p.count, p.declared, p.next>> = <<c.id, c.count, c.declared, c.index>>

\* The sequence with this chunk's payload added.
With(c, p) == [p EXCEPT !.received = @ + c.data, !.next = @ + 1]

\* Slip: what arrives may exceed the declared length until the last chunk.
AcceptsOverrun(c) == /\ MetaOK(c)
                     /\ PayloadOK(c)
                     /\ Continues(c, Current(c))

Accepts(c) == /\ MetaOK(c)
              /\ PayloadOK(c)
              /\ Continues(c, Current(c))
              /\ With(c, Current(c)).received <= c.declared

Completes(c) == With(c, Current(c)).next = c.count

-----------------------------------------------------------------------------
(* LineDecoder::feed, one line or rest of a read at a time; the sink pushes  *)
(* the line into the reassembler and decodes what comes out.                *)

Covers == /\ at < Len(printed)
          /\ left >= printed[at + 1].size - buffered

\* An error poisons the LineDecoder, and next_frame returns it; the frames that
\* wait in ready are never asked for again.
Refuse(why) == /\ verdict' = why
               /\ buffered' = 0
               /\ left' = 0
               /\ UNCHANGED <<at, ready>>

\* The line is taken, and the feed goes on behind its newline.
Take == /\ at' = at + 1
        /\ left' = left - (printed[at + 1].size - buffered)
        /\ buffered' = 0
        /\ UNCHANGED verdict

\* A logical frame is decoded and kept, if it has a known shape.
Decode(text, from) ==
  \/ /\ Reads(text) = "frame"
     /\ ready' = Append(ready, [from |-> from, to |-> at + 1])
     /\ Take
  \/ Reads(text) = "untyped" /\ Refuse("json")
  \/ Reads(text) = "garbage" /\ Refuse("protocol")

\* Slip: a frame between two chunks passes.
PushPlainBetween(line) ==
  /\ UNCHANGED pending
  /\ Decode(line.text, at + 1)

PushPlain(line) ==
  /\ pending' = NoPending
  /\ \/ pending # NoPending /\ Refuse("protocol")
     \/ pending = NoPending /\ Decode(line.text, at + 1)

\* Every error of the reassembler reaches the caller as a protocol violation.
PushChunk(c, text) ==
  \/ /\ ~Accepts(c)
     /\ pending' = NoPending
     /\ Refuse("protocol")
  \/ /\ Accepts(c)
     /\ ~Completes(c)
     /\ pending' = With(c, Current(c))
     /\ UNCHANGED ready
     /\ Take
  \/ /\ Accepts(c)
     /\ Completes(c)
     /\ pending' = NoPending
     /\ \/ /\ With(c, Current(c)).received # c.declared
           /\ Refuse("protocol")
        \/ /\ With(c, Current(c)).received = c.declared
           /\ Decode(text, Current(c).from)

Push(line) == \/ line.chunk = NoChunk /\ PushPlain(line)
              \/ line.chunk # NoChunk /\ PushChunk(line.chunk, line.text)

\* parse_physical_line: the line is a JSON object.
Parses(line) == line.chunk # NoChunk \/ line.text # NotAnObject

\* The read reaches the newline of the line in flight.
FeedLine ==
  /\ verdict = "reading"
  /\ Covers
  /\ LET line == printed[at + 1] IN
     \/ /\ line.size > MaxFrame
        /\ Refuse("tooLarge")
        /\ UNCHANGED pending
     \/ /\ line.size <= MaxFrame
        /\ ~Parses(line)
        /\ Refuse("protocol")
        /\ UNCHANGED pending
     \/ /\ line.size <= MaxFrame
        /\ Parses(line)
        /\ Push(line)
  /\ UNCHANGED <<pipeVars, handed>>

\* Slip: the newline that is to come is counted twice.
FeedRestEarly ==
  /\ verdict = "reading"
  /\ left > 0
  /\ ~Covers
  /\ \/ /\ buffered + left + 1 >= MaxFrame
        /\ Refuse("tooLarge")
     \/ /\ buffered + left + 1 < MaxFrame
        /\ buffered' = buffered + left
        /\ left' = 0
        /\ UNCHANGED <<at, ready, verdict>>
  /\ UNCHANGED <<pipeVars, pending, handed>>

\* No newline in what remains of the read.
FeedRest ==
  /\ verdict = "reading"
  /\ left > 0
  /\ ~Covers
  /\ \/ /\ buffered + left >= MaxFrame
        /\ Refuse("tooLarge")
     \/ /\ buffered + left < MaxFrame
        /\ buffered' = buffered + left
        /\ left' = 0
        /\ UNCHANGED <<at, ready, verdict>>
  /\ UNCHANGED <<pipeVars, pending, handed>>

-----------------------------------------------------------------------------
(* FrameReader::next_frame.                                                 *)

Idle == verdict = "reading" /\ left = 0

HandOut ==
  /\ Idle
  /\ ready # <<>>
  /\ handed' = Append(handed, Head(ready))
  /\ ready' = Tail(ready)
  /\ UNCHANGED <<pipeVars, left, at, buffered, pending, verdict>>

Read(bytes) ==
  /\ Idle
  /\ ready = <<>>
  /\ bytes <= unread
  /\ left' = bytes
  /\ unread' = unread - bytes
  /\ UNCHANGED <<printed, torn, hungUp, at, buffered, pending, ready, handed, verdict>>

\* Slip: a read of no bytes is tried again.
ReadEofRetried ==
  /\ Idle
  /\ ready = <<>>
  /\ hungUp
  /\ unread = 0
  /\ buffered > 0
  /\ verdict' = "protocol"
  /\ buffered' = 0
  /\ UNCHANGED <<pipeVars, left, at, pending, ready, handed>>

\* A read of no bytes: LineDecoder::eof, then Eof.
ReadEof ==
  /\ Idle
  /\ ready = <<>>
  /\ hungUp
  /\ unread = 0
  /\ verdict' = IF buffered = 0 THEN "eof" ELSE "protocol"
  /\ buffered' = 0
  /\ UNCHANGED <<pipeVars, left, at, pending, ready, handed>>

ReadFails ==
  /\ Idle
  /\ ready = <<>>
  /\ verdict' = "io"
  /\ UNCHANGED <<pipeVars, left, at, buffered, pending, ready, handed>>

Feed == FeedLine \/ FeedRest

Reader == Feed \/ HandOut \/ ReadEof \/ \E n \in 1..ReadSize : Read(n)

Next == \/ \E line \in Line : WriteLine(line)
        \/ \E n \in 0..MaxFrame : HangUp(n)
        \/ Reader
        \/ ReadFails

Spec == Init /\ [][Next]_vars

\* The reader task runs until next_frame fails.
FairSpec == Spec /\ WF_vars(Reader)

-----------------------------------------------------------------------------
(* What a stream means, however it is cut.                                  *)

\* The line keeps every limit of its own.
Proper(line) == /\ line.size <= MaxFrame
                /\ \/ line.chunk = NoChunk /\ line.text # NotAnObject
                   \/ line.chunk # NoChunk /\ MetaOK(line.chunk) /\ PayloadOK(line.chunk)

\* f[from] + ... + f[to].
Total(f, from, to) ==
  LET sum[i \in (from - 1)..to] == IF i < from THEN 0 ELSE sum[i - 1] + f[i] IN sum[to]

Carried(lines, from, to) == Total([i \in from..to |-> lines[i].chunk.data], from, to)

\* Lines from..to begin a chunk sequence: one id, one count, one declared
\* length that they stay within, and the indexes 0, 1, 2...
Begins(lines, from, to) ==
  /\ \A i \in from..to :
        /\ Proper(lines[i])
        /\ lines[i].chunk # NoChunk
        /\ lines[i].chunk = [lines[from].chunk EXCEPT
                                 !.index = i - from, !.data = lines[i].chunk.data]
  /\ to - from < lines[from].chunk.count
  /\ Carried(lines, from, to) <= lines[from].chunk.declared

\* Lines from..to are one logical frame.
Whole(lines, from, to) ==
  /\ Reads(lines[to].text) = "frame"
  /\ \/ from = to /\ lines[to].chunk = NoChunk /\ Proper(lines[to])
     \/ /\ lines[from].chunk # NoChunk
        /\ Begins(lines, from, to)
        /\ to - from + 1 = lines[from].chunk.count
        /\ Carried(lines, from, to) = lines[from].chunk.declared

\* Lines from..to begin a frame that more lines complete.
Partial(lines, from, to) == /\ lines[from].chunk # NoChunk
                            /\ Begins(lines, from, to)
                            /\ to - from + 1 < lines[from].chunk.count

Frames == handed \o ready

\* The first line that belongs to no decoded frame.
Frontier == IF Frames = <<>> THEN 1 ELSE Frames[Len(Frames)].to + 1

-----------------------------------------------------------------------------
(* Properties.                                                              *)

\* Types, and the limits on what the reader holds: the partial line leaves room
\* for its newline, and the pending sequence is unfinished and within the length
\* it declared (LineDecoder.buffer, Pending).
TypeOK ==
  /\ printed \in Seq(Line)
  /\ torn \in Nat /\ unread \in Nat /\ left \in Nat
  /\ hungUp \in BOOLEAN
  /\ at \in 0..Len(printed)
  /\ buffered \in 0..(MaxFrame - 1)
  /\ pending \in PendingSeq \cup {NoPending}
  /\ ready \in Seq(Frame) /\ handed \in Seq(Frame)
  /\ verdict \in Verdict

\* A sequence in flight is unfinished and within the length it declared, which is
\* within the limit of a logical frame (the bookkeeping of push_chunk).
PendingWithinLimits ==
  pending # NoPending =>
    /\ pending.next \in 1..(pending.count - 1)
    /\ pending.count <= MaxCount
    /\ pending.received <= pending.declared
    /\ pending.declared <= MaxLogical

\* Every frame follows the one before it with no line skipped or used twice, and
\* the lines taken since the last frame are those of the sequence in flight (feed,
\* push and next_frame together).
FramesInARow ==
  /\ \A k \in DOMAIN Frames :
        /\ Frames[k].from = (IF k = 1 THEN 1 ELSE Frames[k-1].to + 1)
        /\ Frames[k].from <= Frames[k].to
        /\ Frames[k].to <= at
  /\ pending # NoPending => /\ pending.from = Frontier
                            /\ pending.next = at + 1 - Frontier
  /\ verdict = "reading" /\ pending = NoPending => at + 1 = Frontier

\* A frame is decoded from a whole line or from all chunks of one sequence, and a
\* sequence in flight begins one: a chunk of another sequence, a wrong length or
\* a chunk out of order never gets into a frame (push_chunk).
FramesAreWhole ==
  /\ \A k \in DOMAIN Frames : Whole(printed, Frames[k].from, Frames[k].to)
  /\ pending # NoPending => /\ Partial(printed, pending.from, at)
                            /\ pending.received = Carried(printed, pending.from, at)

\* A stream is refused for what it says, never for how it was cut: the line that
\* was refused continues no frame, or is over the limit, or was torn off (the
\* verdicts of feed and eof are those of the stream, whatever the reads were).  No
\* connection is lost to a frame that only a later omp knows.
RefusalIsDeserved ==
  verdict \in {"protocol", "tooLarge", "json"} =>
    IF at = Len(printed) THEN torn > 0 /\ (verdict = "tooLarge" <=> torn >= MaxFrame)
    ELSE /\ ~Whole(printed, Frontier, at + 1)
         /\ ~Partial(printed, Frontier, at + 1)
         /\ verdict = "tooLarge" <=> printed[at + 1].size > MaxFrame
         /\ verdict = "json" => ~FutureFrame(printed[at + 1].text)

\* A clean end of file means that omp's output was read to its last newline, and
\* that every frame in it was handed out (next_frame pops ready_frames before it
\* reports Eof).
EofMeansAllRead ==
  verdict = "eof" => /\ hungUp /\ torn = 0
                     /\ at = Len(printed)
                     /\ ready = <<>>

\* Frames and verdict depend on what omp printed and on nothing else.
VerdictIsTheStreams == FramesAreWhole /\ RefusalIsDeserved /\ EofMeansAllRead

\* Once omp is gone the reader comes to an end, whatever was in the pipe; only
\* then does the client report Closed (spawn_reader calls close_all).
HangUpEnds == hungUp ~> verdict # "reading"
=============================================================================
