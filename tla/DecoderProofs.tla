---------------------------- MODULE DecoderProofs ----------------------------
(***************************************************************************)
(* Theorems about Decoder, for every set of lines and every limit.         *)
(***************************************************************************)
EXTENDS Decoder, WellFoundedInduction, TLAPS

-----------------------------------------------------------------------------
(* Sequences.                                                               *)

LEMMA AppendFacts ==
  ASSUME NEW S, NEW s \in Seq(S), NEW e \in S
  PROVE  /\ Append(s, e) \in Seq(S)
         /\ Len(Append(s, e)) = Len(s) + 1
         /\ \A i \in 1..Len(s) : Append(s, e)[i] = s[i]
         /\ Append(s, e)[Len(s) + 1] = e
  OBVIOUS

\* Concatenation puts the second sequence behind the first.
LEMMA ConcatFacts ==
  ASSUME NEW S, NEW s \in Seq(S), NEW t \in Seq(S)
  PROVE  /\ s \o t \in Seq(S)
         /\ Len(s \o t) = Len(s) + Len(t)
         /\ \A i \in 1..Len(s) + Len(t) :
              (s \o t)[i] = IF i <= Len(s) THEN s[i] ELSE t[i - Len(s)]
  OBVIOUS

\* What is handed out moves from the front of one sequence to the end of the other.
LEMMA MoveHead ==
  ASSUME NEW S, NEW h \in Seq(S), NEW r \in Seq(S), r # <<>>
  PROVE  Append(h, Head(r)) \o Tail(r) = h \o r
<1> DEFINE a == Append(h, Head(r))
<1>1. /\ Head(r) \in S /\ Tail(r) \in Seq(S) /\ Len(Tail(r)) = Len(r) - 1
      /\ Len(r) \in Nat \ {0} /\ Head(r) = r[1]
      /\ \A i \in 1..Len(r)-1 : Tail(r)[i] = r[i+1]
  OBVIOUS
<1>2. /\ a \in Seq(S) /\ Len(a) = Len(h) + 1 /\ Len(h) \in Nat
      /\ \A i \in 1..Len(h) : a[i] = h[i]
      /\ a[Len(h) + 1] = r[1]
  BY <1>1, AppendFacts
<1> HIDE DEF a
<1>3. /\ a \o Tail(r) \in Seq(S) /\ h \o r \in Seq(S)
      /\ Len(a \o Tail(r)) = Len(h) + Len(r) /\ Len(h \o r) = Len(h) + Len(r)
  <2>1. Len(a \o Tail(r)) = Len(a) + Len(Tail(r)) /\ a \o Tail(r) \in Seq(S)
    BY <1>1, <1>2, ConcatFacts
  <2>2. Len(h \o r) = Len(h) + Len(r) /\ h \o r \in Seq(S)
    BY ConcatFacts
  <2> QED
    BY <1>1, <1>2, <2>1, <2>2
<1>4. ASSUME NEW i \in 1..Len(h) + Len(r) PROVE (a \o Tail(r))[i] = (h \o r)[i]
  <2>1. (h \o r)[i] = IF i <= Len(h) THEN h[i] ELSE r[i - Len(h)]
    BY <1>2, ConcatFacts
  <2>2. (a \o Tail(r))[i] = IF i <= Len(a) THEN a[i] ELSE Tail(r)[i - Len(a)]
    <3>1. Len(a) + Len(Tail(r)) = Len(h) + Len(r)
      BY <1>1, <1>2
    <3> QED
      BY <1>1, <1>2, <3>1, ConcatFacts
  <2>3. CASE i <= Len(h)
    BY <1>2, <2>1, <2>2, <2>3
  <2>4. CASE i = Len(h) + 1
    BY <1>2, <2>1, <2>2, <2>4
  <2>5. CASE i > Len(h) + 1
    <3>1. i - Len(a) \in 1..Len(r)-1 /\ i - Len(a) + 1 = i - Len(h)
      BY <1>1, <1>2, <2>5
    <3> QED
      BY <1>1, <1>2, <2>1, <2>2, <2>5, <3>1
  <2> QED
    BY <1>2, <2>3, <2>4, <2>5
<1> QED
  BY <1>3, <1>4 DEF a

LEMMA AppendLater ==
  ASSUME NEW S, NEW h \in Seq(S), NEW r \in Seq(S), NEW e \in S
  PROVE  h \o Append(r, e) = Append(h \o r, e)
  OBVIOUS

-----------------------------------------------------------------------------
(* The feed of one line ends in one of three ways.                          *)

\* The reader stops, with no sequence in flight or the one it had.
Stops == /\ \E why \in Verdict \ {"reading"} : Refuse(why)
         /\ pending' \in {pending, NoPending}

\* A frame is complete that starts where the sequence in flight, if any, does.
Yields == /\ Take
          /\ pending' = NoPending
          /\ ready' = Append(ready, [from |-> IF pending = NoPending THEN at + 1 ELSE pending.from,
                                     to |-> at + 1])

\* One more chunk of a sequence has arrived.
Grows == /\ Take
         /\ UNCHANGED ready
         /\ \E c \in ChunkFields : /\ Accepts(c)
                                   /\ ~Completes(c)
                                   /\ pending' = With(c, Current(c))

LEMMA FeedLineOutcome ==
  ASSUME TypeOK, FeedLine
  PROVE  Stops \/ Yields \/ Grows
<1> DEFINE line == printed[at + 1]
<1>1. line \in Line /\ line.chunk \in ChunkFields \cup {NoChunk}
  BY DecoderAssumption DEF TypeOK, FeedLine, Covers
<1>2. CASE /\ Refuse("tooLarge") \/ Refuse("protocol")
           /\ UNCHANGED pending
  BY <1>2 DEF Stops, Verdict
<1>3. CASE Push(line)
  <2>1. CASE line.chunk = NoChunk /\ PushPlain(line)
    BY <2>1, Zenon DEF PushPlain, Decode, Stops, Yields, Verdict
  <2>2. CASE line.chunk # NoChunk /\ PushChunk(line.chunk, line.text)
    <3> DEFINE c == line.chunk
    <3>1. c \in ChunkFields
      BY <1>1, <2>2
    <3>2. Current(c).from = IF pending = NoPending THEN at + 1 ELSE pending.from
      BY DEF Current
    <3> HIDE DEF c
    <3>3. CASE pending' = NoPending /\ Refuse("protocol")
      BY <3>3 DEF Stops, Verdict
    <3>4. CASE /\ Accepts(c) /\ ~Completes(c) /\ pending' = With(c, Current(c))
               /\ UNCHANGED ready /\ Take
      BY <3>1, <3>4 DEF Grows
    <3>5. CASE pending' = NoPending /\ Decode(line.text, Current(c).from)
      <4>1. CASE Refuse("json") \/ Refuse("protocol")
        BY <3>5, <4>1 DEF Stops, Verdict
      <4>2. CASE /\ ready' = Append(ready, [from |-> Current(c).from, to |-> at + 1])
                 /\ Take
        BY <3>2, <3>5, <4>2 DEF Yields
      <4> QED
        BY <3>5, <4>1, <4>2 DEF Decode
    <3> QED
      BY <2>2, <3>3, <3>4, <3>5 DEF PushChunk, c
  <2> QED
    BY <1>3, <2>1, <2>2 DEF Push
<1> QED
  BY <1>2, <1>3 DEF FeedLine

LEMMA UpdatedFields ==
  ASSUME NEW p, NEW x,
         p = [from |-> p.from, id |-> p.id, count |-> p.count, declared |-> p.declared,
              next |-> p.next, received |-> p.received]
  PROVE  [p EXCEPT !.received = @ + x, !.next = @ + 1] =
           [from |-> p.from, id |-> p.id, count |-> p.count, declared |-> p.declared,
            next |-> p.next + 1, received |-> p.received + x]
<1>1. DOMAIN p = {"from", "id", "count", "declared", "next", "received"}
  OBVIOUS
<1> DEFINE q == [p EXCEPT !.received = @ + x, !.next = @ + 1]
<1>2. DOMAIN q = {"from", "id", "count", "declared", "next", "received"}
  BY <1>1
<1>3. /\ q.from = p.from /\ q.id = p.id /\ q.count = p.count /\ q.declared = p.declared
      /\ q.next = p.next + 1 /\ q.received = p.received + x
  BY <1>1
<1>4. q = [f \in DOMAIN q |-> q[f]]
  OBVIOUS
<1> HIDE DEF q
<1>5. q = [from |-> q.from, id |-> q.id, count |-> q.count, declared |-> q.declared,
           next |-> q.next, received |-> q.received]
  BY <1>2, <1>4
<1> QED
  BY <1>3, <1>5 DEF q

\* An accepted chunk that does not complete its sequence leaves it unfinished and
\* within the length it declared.
LEMMA GrownSequence ==
  ASSUME TypeOK, NEW c \in ChunkFields, Accepts(c), ~Completes(c),
         PendingWithinLimits
  PROVE  /\ With(c, Current(c)) \in PendingSeq
         /\ With(c, Current(c)).from = IF pending = NoPending THEN at + 1 ELSE pending.from
         /\ With(c, Current(c)).next = IF pending = NoPending THEN 1 ELSE pending.next + 1
         /\ With(c, Current(c)).next \in 1..(With(c, Current(c)).count - 1)
         /\ With(c, Current(c)).count <= MaxCount
         /\ With(c, Current(c)).received <= With(c, Current(c)).declared
         /\ With(c, Current(c)).declared <= MaxLogical
<1> DEFINE p == Current(c)
<1>1. p \in PendingSeq
  BY DEF TypeOK, Current, PendingSeq, ChunkFields
<1>2. /\ p.from = IF pending = NoPending THEN at + 1 ELSE pending.from
      /\ p.next = IF pending = NoPending THEN 0 ELSE pending.next
  BY DEF Current
<1>3. /\ p.count = c.count /\ p.declared = c.declared /\ p.next = c.index
      /\ c.index < c.count /\ c.count <= MaxCount /\ c.declared <= MaxLogical
      /\ {c.index, c.count, c.declared, c.data} \subseteq Nat
  BY DecoderAssumption DEF Accepts, MetaOK, Continues, ChunkFields
<1>4. With(c, p) = [from |-> p.from, id |-> p.id, count |-> p.count, declared |-> p.declared,
                    next |-> p.next + 1, received |-> p.received + c.data]
  <2>1. p = [from |-> p.from, id |-> p.id, count |-> p.count, declared |-> p.declared,
             next |-> p.next, received |-> p.received]
    BY <1>1 DEF PendingSeq
  <2> HIDE DEF p
  <2> QED
    BY <2>1, UpdatedFields DEF With
<1>5. With(c, p).next # c.count /\ With(c, p).received <= c.declared
  BY DEF Completes, Accepts
<1> HIDE DEF p
<1>6. With(c, p) \in PendingSeq
  BY <1>1, <1>3, <1>4 DEF PendingSeq
<1>7. With(c, p).next \in 1..(With(c, p).count - 1)
  BY <1>1, <1>3, <1>4, <1>5 DEF PendingSeq
<1> QED
  BY <1>2, <1>3, <1>4, <1>5, <1>6, <1>7 DEF p

-----------------------------------------------------------------------------
(* Types and limits.                                                        *)

LEMMA InitLimits == Init => TypeOK /\ PendingWithinLimits
<1> SUFFICES ASSUME Init PROVE TypeOK /\ PendingWithinLimits
  OBVIOUS
<1>1. MaxFrame - 1 \in Nat
  BY DecoderAssumption
<1>2. <<>> \in Seq(Line) /\ <<>> \in Seq(Frame) /\ Len(<<>>) = 0
  OBVIOUS
<1>3. printed \in Seq(Line) /\ at \in 0..Len(printed) /\ ready \in Seq(Frame) /\ handed \in Seq(Frame)
  BY <1>2 DEF Init
<1>4. buffered \in 0..(MaxFrame - 1)
  BY <1>1 DEF Init
<1> QED
  BY <1>3, <1>4 DEF Init, TypeOK, PendingWithinLimits, Verdict

\* The line that next_frame finds whole in its buffer.
LEMMA NextLine ==
  ASSUME TypeOK, Covers
  PROVE  /\ at \in Nat /\ at + 1 \in Nat /\ at + 1 \in 1..Len(printed)
         /\ printed[at + 1] \in Line /\ printed[at + 1].size \in Nat
<1>1. printed \in Seq(Line) /\ at \in 0..Len(printed) /\ at < Len(printed)
  BY DEF TypeOK, Covers
<1>2. at \in Nat /\ at + 1 \in Nat /\ at + 1 \in 1..Len(printed)
  BY <1>1
<1>3. printed[at + 1] \in Line
  BY <1>1, <1>2
<1>4. \A line \in Line : line.size \in Nat
  BY DecoderAssumption
<1> QED
  BY <1>2, <1>3, <1>4

LEMMA StepLimits == TypeOK /\ PendingWithinLimits /\ [Next]_vars => TypeOK' /\ PendingWithinLimits'
<1> SUFFICES ASSUME TypeOK, PendingWithinLimits, [Next]_vars
             PROVE  TypeOK' /\ PendingWithinLimits'
  OBVIOUS
<1> USE DecoderAssumption
<1>1. CASE UNCHANGED vars
  BY <1>1 DEF vars, pipeVars, TypeOK, PendingWithinLimits
<1>2. ASSUME NEW line \in Line, WriteLine(line) PROVE TypeOK' /\ PendingWithinLimits'
  <2>1. printed' \in Seq(Line) /\ Len(printed') = Len(printed) + 1 /\ unread' \in Nat
    <3>1. printed \in Seq(Line) /\ unread \in Nat /\ line.size \in Nat
      BY DEF TypeOK
    <3>2. printed' = Append(printed, line) /\ unread' = unread + line.size
      BY <1>2 DEF WriteLine
    <3>3. printed' \in Seq(Line) /\ Len(printed') = Len(printed) + 1
      BY <1>2, <3>1, <3>2, AppendFacts
    <3> QED
      BY <3>1, <3>2, <3>3
  <2> QED
    BY <1>2, <2>1 DEF WriteLine, TypeOK, PendingWithinLimits
<1>3. ASSUME NEW n \in 0..MaxFrame, HangUp(n) PROVE TypeOK' /\ PendingWithinLimits'
  BY <1>3 DEF HangUp, TypeOK, PendingWithinLimits
<1>4. CASE FeedLine
  <2>1. UNCHANGED <<pipeVars, handed>> /\ Covers
    BY <1>4 DEF FeedLine
  <2>2. at + 1 \in 1..Len(printed) /\ printed[at + 1].size \in Nat
    BY <2>1, NextLine
  <2>3. ASSUME Take PROVE /\ left' \in Nat /\ at' \in 0..Len(printed) /\ buffered' = 0
                          /\ verdict' = verdict
    <3> DEFINE size == printed[at + 1].size
    <3>1. size \in Nat /\ left \in Nat /\ buffered \in Nat /\ at + 1 \in 0..Len(printed)
      BY <2>2 DEF TypeOK
    <3>2. left >= size - buffered
      BY <2>1 DEF Covers
    <3>3. left' = left - (size - buffered) /\ at' = at + 1 /\ buffered' = 0 /\ verdict' = verdict
      BY <2>3 DEF Take
    <3>4. printed' = printed
      BY <2>1 DEF pipeVars
    <3> HIDE DEF size
    <3> QED
      BY <3>1, <3>2, <3>3, <3>4
  <2>4. CASE Stops
    BY <2>1, <2>4 DEF Stops, Refuse, TypeOK, PendingWithinLimits, pipeVars, Verdict
  <2>5. CASE Yields
    <3>1. ready' \in Seq(Frame)
      <4>1. [from |-> IF pending = NoPending THEN at + 1 ELSE pending.from, to |-> at + 1] \in Frame
        BY DEF TypeOK, Frame, PendingSeq
      <4> QED
        BY <2>5, <4>1, AppendFacts DEF Yields, TypeOK
    <3> QED
      BY <2>1, <2>3, <2>5, <3>1 DEF Yields, TypeOK, PendingWithinLimits, pipeVars
  <2>6. CASE Grows
    <3>1. PICK c \in ChunkFields : Accepts(c) /\ ~Completes(c) /\ pending' = With(c, Current(c))
      BY <2>6 DEF Grows
    <3>2. pending' \in PendingSeq /\ PendingWithinLimits'
      BY <3>1, GrownSequence DEF PendingWithinLimits
    <3> QED
      BY <2>1, <2>3, <2>6, <3>2 DEF Grows, TypeOK, pipeVars
  <2> QED
    BY <1>4, <2>4, <2>5, <2>6, FeedLineOutcome
<1>5. CASE FeedRest
  BY <1>5 DEF FeedRest, Refuse, TypeOK, PendingWithinLimits, pipeVars, Verdict
<1>6. CASE HandOut
  <2>1. handed' \in Seq(Frame) /\ ready' \in Seq(Frame)
    BY <1>6, AppendFacts DEF HandOut, TypeOK
  <2> QED
    BY <1>6, <2>1 DEF HandOut, TypeOK, PendingWithinLimits, pipeVars
<1>7. CASE ReadEof
  BY <1>7 DEF ReadEof, TypeOK, PendingWithinLimits, pipeVars, Verdict
<1>8. ASSUME NEW n \in 1..ReadSize, Read(n) PROVE TypeOK' /\ PendingWithinLimits'
  BY <1>8 DEF Read, TypeOK, PendingWithinLimits
<1>9. CASE ReadFails
  BY <1>9 DEF ReadFails, TypeOK, PendingWithinLimits, pipeVars, Verdict
<1> QED
  BY <1>1, <1>2, <1>3, <1>4, <1>5, <1>6, <1>7, <1>8, <1>9 DEF Next, Reader, Feed

\* The reader keeps to its types and to its memory limits: a partial line stays
\* under the line limit, whatever omp prints and however it is read.
THEOREM DecoderTypeCorrect == Spec => []TypeOK
<1> QED
  BY InitLimits, StepLimits, PTL DEF Spec

\* A chunk sequence in flight is unfinished, within the length it declared and
\* within the limits of a logical frame (push_chunk).
THEOREM PendingBounded == Spec => []PendingWithinLimits
<1> QED
  BY InitLimits, StepLimits, PTL DEF Spec

-----------------------------------------------------------------------------
(* Frames follow one another.                                               *)

LEMMA FrontierType == TypeOK => Frames \in Seq(Frame) /\ Frontier \in Nat
<1> SUFFICES ASSUME TypeOK PROVE Frames \in Seq(Frame) /\ Frontier \in Nat
  OBVIOUS
<1>1. Frames \in Seq(Frame)
  BY DEF TypeOK, Frames
<1>2. CASE Frames = <<>>
  BY <1>1, <1>2 DEF Frontier
<1>3. CASE Frames # <<>>
  <2>1. Frames[Len(Frames)] \in Frame
    BY <1>1, <1>3
  <2> QED
    BY <1>1, <1>3, <2>1 DEF Frontier, Frame
<1> QED
  BY <1>1, <1>2, <1>3

LEMMA FrameEnds ==
  ASSUME NEW s \in Seq(Frame), NEW k \in DOMAIN s
  PROVE  s[k].to \in Nat
<1>1. s[k] \in Frame
  OBVIOUS
<1> QED
  BY <1>1 DEF Frame

\* A step that keeps the frames, the lines taken and the sequence in flight, and
\* does not resume reading, keeps FramesInARow.
LEMMA RowKept ==
  ASSUME FramesInARow, Frames' = Frames, at' = at, pending' \in {pending, NoPending},
         verdict' = "reading" => verdict = "reading" /\ pending' = pending
  PROVE  FramesInARow'
<1>1. Frontier' = Frontier
  BY DEF Frontier
<1> QED
  BY <1>1 DEF FramesInARow

LEMMA RowStep ==
  TypeOK /\ PendingWithinLimits /\ FramesInARow /\ [Next]_vars => FramesInARow'
<1> SUFFICES ASSUME TypeOK, PendingWithinLimits, FramesInARow, [Next]_vars
             PROVE  FramesInARow'
  OBVIOUS
<1>1. CASE /\ UNCHANGED <<handed, ready, at, pending>>
           /\ verdict' = "reading" => verdict = "reading"
  BY <1>1, RowKept DEF Frames
<1>2. CASE FeedLine
  <2>1. verdict = "reading" /\ handed' = handed /\ at \in Nat
    BY <1>2 DEF FeedLine, TypeOK
  <2>2. Frames \in Seq(Frame) /\ Frontier \in Nat
    BY FrontierType
  <2>3. CASE Stops
    BY <2>1, <2>3, RowKept DEF Stops, Refuse, Frames
  <2>4. CASE Yields
    <3> DEFINE new == [from |-> IF pending = NoPending THEN at + 1 ELSE pending.from, to |-> at + 1]
    <3>1. new \in Frame /\ new.from = Frontier /\ new.from <= new.to /\ new.to = at + 1
      <4>1. CASE pending = NoPending
        BY <2>1, <4>1 DEF FramesInARow, Frame
      <4>2. CASE pending # NoPending
        <5>1. pending.from = Frontier /\ pending.next = at + 1 - Frontier /\ pending.next \in Nat
          BY <4>2 DEF FramesInARow, TypeOK, PendingSeq
        <5> QED
          BY <2>1, <2>2, <4>2, <5>1 DEF Frame
      <4> QED
        BY <4>1, <4>2
    <3>2. Frames' = Append(Frames, new)
      BY <2>1, <2>4, <3>1, AppendLater DEF Yields, Frames, TypeOK
    <3>3. at' = at + 1 /\ pending' = NoPending
      BY <2>4 DEF Yields, Take
    <3> HIDE DEF new
    <3>4. /\ Len(Frames') = Len(Frames) + 1 /\ Len(Frames) \in Nat
          /\ \A k \in 1..Len(Frames) : Frames'[k] = Frames[k]
          /\ Frames'[Len(Frames) + 1] = new
          /\ DOMAIN Frames = 1..Len(Frames) /\ DOMAIN Frames' = 1..Len(Frames) + 1
          /\ Frames' # <<>>
      BY <2>2, <3>1, <3>2, AppendFacts
    <3>5. Frontier' = at' + 1
      BY <2>1, <3>1, <3>3, <3>4 DEF Frontier
    <3>6. ASSUME NEW k \in DOMAIN Frames'
          PROVE  /\ Frames'[k].from = (IF k = 1 THEN 1 ELSE Frames'[k-1].to + 1)
                 /\ Frames'[k].from <= Frames'[k].to
                 /\ Frames'[k].to <= at'
      <4>1. CASE k \in 1..Len(Frames)
        <5>1. /\ Frames[k].from = (IF k = 1 THEN 1 ELSE Frames[k-1].to + 1)
              /\ Frames[k].from <= Frames[k].to
              /\ Frames[k].to <= at
          BY <3>4, <4>1 DEF FramesInARow
        <5>3. Frames[k].to \in Nat
          BY <2>2, <4>1, FrameEnds
        <5>2. k # 1 => k - 1 \in 1..Len(Frames)
          BY <3>4, <4>1
        <5> QED
          BY <2>1, <3>3, <3>4, <4>1, <5>1, <5>2, <5>3
      <4>2. CASE k = Len(Frames) + 1
        <5>1. CASE Len(Frames) = 0
          <6>1. Frontier = 1
            BY <2>2, <5>1 DEF Frontier
          <6> QED
            BY <2>1, <3>1, <3>3, <3>4, <4>2, <5>1, <6>1
        <5>2. CASE Len(Frames) # 0
          <6>1. Frontier = Frames[Len(Frames)].to + 1 /\ Frames[Len(Frames)] = Frames'[k-1]
            BY <2>2, <3>4, <4>2, <5>2 DEF Frontier
          <6> QED
            BY <2>1, <3>1, <3>3, <3>4, <4>2, <5>2, <6>1
        <5> QED
          BY <5>1, <5>2
      <4> QED
        BY <3>4, <4>1, <4>2
    <3> QED
      BY <3>3, <3>5, <3>6 DEF FramesInARow
  <2>5. CASE Grows
    <3>1. PICK c \in ChunkFields : Accepts(c) /\ ~Completes(c) /\ pending' = With(c, Current(c))
      BY <2>5 DEF Grows
    <3>2. /\ pending'.from = IF pending = NoPending THEN at + 1 ELSE pending.from
          /\ pending'.next = IF pending = NoPending THEN 1 ELSE pending.next + 1
          /\ pending'.next \in 1..(pending'.count - 1)
      BY <3>1, GrownSequence
    <3>3. at' = at + 1 /\ ready' = ready
      BY <2>5 DEF Grows, Take
    <3>4. Frames' = Frames /\ Frontier' = Frontier
      BY <2>1, <3>3 DEF Frames, Frontier
    <3>5. pending'.from = Frontier /\ pending'.next = at' + 1 - Frontier
      BY <2>1, <2>2, <3>2, <3>3 DEF FramesInARow
    <3>6. pending' # NoPending
      BY <3>1, GrownSequence, DecoderAssumption
    <3>7. ASSUME NEW k \in DOMAIN Frames PROVE Frames[k].to <= at'
      <4>1. Frames[k].to <= at
        BY DEF FramesInARow
      <4>2. Frames[k].to \in Nat
        BY <2>2, FrameEnds
      <4> QED
        BY <2>1, <3>3, <4>1, <4>2
    <3> QED
      BY <3>4, <3>5, <3>6, <3>7 DEF FramesInARow
  <2> QED
    BY <1>2, <2>3, <2>4, <2>5, FeedLineOutcome
<1>3. CASE HandOut
  <2>1. Frames' = Frames
    BY <1>3, MoveHead DEF HandOut, Frames, TypeOK
  <2> QED
    BY <1>3, <2>1, RowKept DEF HandOut
<1> QED
  BY <1>1, <1>2, <1>3
  DEF Next, Reader, Feed, WriteLine, HangUp, FeedRest, Refuse, Read, ReadEof, ReadFails, vars, Idle

\* Frames come out in the order of the stream, each right behind the last, with no
\* line skipped or used twice, and a sequence in flight holds exactly the lines
\* since the last frame (feed, push and next_frame).
THEOREM FramesFollow == Spec => []FramesInARow
<1>1. Init => FramesInARow
  BY DEF Init, FramesInARow, Frames, Frontier
<1> QED
  BY <1>1, InitLimits, StepLimits, RowStep, PTL DEF Spec
-----------------------------------------------------------------------------
(* Sums: Total has one value, found by the least number at which it would    *)
(* have none or two.                                                         *)

LEMMA LeastNumber ==
  ASSUME NEW S \in SUBSET Nat, S # {}
  PROVE  \E m \in S : \A y \in S : m <= y
<1>1. PICK x \in S : \A y \in S : ~(<<y, x>> \in OpToRel(<, Nat))
  BY NatLessThanWellFounded, WFMin
<1>2. ASSUME NEW y \in S, y < x PROVE FALSE
  <2>1. <<y, x>> \in Nat \X Nat /\ <<y, x>>[1] < <<y, x>>[2]
    BY <1>2
  <2>2. <<y, x>> \in {p \in Nat \X Nat : p[1] < p[2]}
    BY <2>1
  <2> QED
    BY <1>1, <2>2 DEF OpToRel
<1> QED
  BY <1>2

\* s holds the sums of f from `from` on, up to hi.
Sums(s, f, from, hi) == s = [i \in (from - 1)..hi |-> IF i < from THEN 0 ELSE s[i - 1] + f[i]]

LEMMA SumsExist ==
  ASSUME NEW f, NEW from \in Nat, NEW n \in Nat
  PROVE  \E s : Sums(s, f, from, from - 1 + n)
<1> DEFINE bad == {k \in Nat : ~\E s : Sums(s, f, from, from - 1 + k)}
<1>1. SUFFICES ASSUME bad # {} PROVE FALSE
  OBVIOUS
<1>2. PICK m \in bad : \A y \in bad : m <= y
  BY <1>1, LeastNumber
<1>3. m # 0
  <2> DEFINE z == [i \in (from - 1)..(from - 1) |-> 0]
  <2>1. Sums(z, f, from, from - 1 + 0)
    <3>1. (from - 1)..(from - 1 + 0) = (from - 1)..(from - 1) /\ \A i \in (from - 1)..(from - 1) : i < from
      OBVIOUS
    <3> QED
      BY <3>1 DEF Sums
  <2> QED
    BY <1>2, <2>1
<1>4. PICK s : Sums(s, f, from, from - 1 + (m - 1))
  BY <1>2, <1>3
<1> DEFINE lo == from - 1
           hi == from - 1 + m
           t == [i \in lo..hi |-> IF i = hi THEN s[hi - 1] + f[hi] ELSE s[i]]
<1>5. lo \in Int /\ hi \in Int /\ hi - 1 = from - 1 + (m - 1) /\ lo <= hi - 1 /\ lo + 1 = from
  BY <1>3
<1> HIDE DEF lo, hi
<1>6. s = [i \in lo..(hi - 1) |-> IF i < from THEN 0 ELSE s[i - 1] + f[i]]
  BY <1>4, <1>5 DEF Sums, lo
<1>7. ASSUME NEW i \in lo..hi PROVE t[i] = IF i < from THEN 0 ELSE t[i - 1] + f[i]
  <2>1. CASE i = hi
    BY <1>5, <2>1
  <2>2. CASE i # hi
    <3>1. i \in lo..(hi - 1) /\ (~(i < from) => i - 1 \in lo..(hi - 1))
      BY <1>5, <2>2
    <3> HIDE DEF t
    <3>2. s[i] = IF i < from THEN 0 ELSE s[i - 1] + f[i]
      BY <1>6, <3>1
    <3>3. t[i] = s[i] /\ (~(i < from) => t[i - 1] = s[i - 1])
      <4>1. i - 1 # hi /\ (~(i < from) => i - 1 \in lo..hi)
        BY <1>5, <2>2
      <4> QED
        BY <2>2, <4>1 DEF t
    <3> QED
      BY <3>2, <3>3
  <2> QED
    BY <2>1, <2>2
<1>8. Sums(t, f, from, hi)
  BY <1>7 DEF Sums, lo
<1> QED
  BY <1>2, <1>8 DEF hi

\* Two functions have the same summands between two places.
SameBetween(f, g, from, to) == \A i \in from..to : f[i] = g[i]

LEMMA SumsAgree ==
  ASSUME NEW f, NEW g, NEW from \in Nat, NEW a \in Int, NEW b \in Int, NEW s, NEW t,
         Sums(s, f, from, a), Sums(t, g, from, b), NEW k \in (from - 1)..a, k <= b,
         SameBetween(f, g, from, k)
  PROVE  s[k] = t[k]
<1>0. \A i \in from..k : f[i] = g[i]
  BY DEF SameBetween
<1> DEFINE lo == from - 1
           bad == {n \in Nat : lo + n <= k /\ s[lo + n] # t[lo + n]}
<1>1. lo \in Int /\ lo + 1 = from
  OBVIOUS
<1> HIDE DEF lo
<1>2. SUFFICES ASSUME bad # {} PROVE FALSE
  <2>1. k - lo \in Nat /\ lo + (k - lo) = k
    BY <1>1 DEF lo
  <2> QED
    BY <2>1
<1>3. PICK m \in bad : \A y \in bad : m <= y
  BY <1>2, LeastNumber
<1> DEFINE i == lo + m
<1>4. i \in lo..a /\ i \in lo..b /\ i \in Int /\ i <= k
  BY <1>1, <1>3
<1>5. m # 0 => m - 1 \in Nat /\ i - 1 = lo + (m - 1) /\ i \in from..k /\ ~(i < from) /\ i - 1 <= k
  BY <1>1, <1>3
<1>6. m = 0 => i < from
  BY <1>1
<1>7. /\ s[i] = IF i < from THEN 0 ELSE s[i - 1] + f[i]
      /\ t[i] = IF i < from THEN 0 ELSE t[i - 1] + g[i]
  <2> HIDE DEF i
  <2> QED
    BY <1>4 DEF Sums, lo
<1>8. m # 0 => s[i - 1] = t[i - 1]
  <2>1. m # 0 => m - 1 \notin bad
    BY <1>3
  <2> QED
    BY <1>3, <1>5, <2>1
<1>9. s[i] # t[i]
  BY <1>3
<1> HIDE DEF i
<1> QED
  BY <1>0, <1>5, <1>6, <1>7, <1>8, <1>9, <1>3

LEMMA TotalIs ==
  ASSUME NEW f, NEW from \in Nat, NEW to \in Nat, from <= to + 1
  PROVE  \E s : Sums(s, f, from, to) /\ Total(f, from, to) = s[to]
<1>1. \E s : Sums(s, f, from, to)
  <2>1. to - from + 1 \in Nat /\ from - 1 + (to - from + 1) = to
    OBVIOUS
  <2> QED
    BY <2>1, SumsExist
<1> DEFINE c == CHOOSE s : s = [i \in (from - 1)..to |-> IF i < from THEN 0 ELSE s[i - 1] + f[i]]
<1>2. Sums(c, f, from, to)
  BY <1>1 DEF Sums
<1>3. Total(f, from, to) = c[to]
  BY DEF Total
<1> QED
  BY <1>2, <1>3
LEMMA TotalStep ==
  ASSUME NEW f, NEW from \in Nat \ {0}, NEW to \in Nat, from <= to
  PROVE  /\ Total(f, from, from - 1) = 0
         /\ Total(f, from, to) = Total(f, from, to - 1) + f[to]
<1>1. to - 1 \in Nat /\ from <= (to - 1) + 1 /\ from - 1 \in Nat /\ from <= (from - 1) + 1
  OBVIOUS
<1>2. PICK s : Sums(s, f, from, to) /\ Total(f, from, to) = s[to]
  BY TotalIs
<1>3. PICK t : Sums(t, f, from, to - 1) /\ Total(f, from, to - 1) = t[to - 1]
  BY <1>1, TotalIs
<1>4. PICK z : Sums(z, f, from, from - 1) /\ Total(f, from, from - 1) = z[from - 1]
  BY <1>1, TotalIs
<1>5. s[to] = s[to - 1] + f[to] /\ z[from - 1] = 0
  BY <1>2, <1>4 DEF Sums
<1>6. s[to - 1] = t[to - 1]
  <2>1. /\ to - 1 \in (from - 1)..to /\ to - 1 <= to - 1 /\ to \in Int /\ to - 1 \in Int
        /\ SameBetween(f, f, from, to - 1)
    BY DEF SameBetween
  <2>2. Sums(s, f, from, to) /\ Sums(t, f, from, to - 1) /\ from \in Nat
    BY <1>2, <1>3
  <2> QED
    BY <2>1, <2>2, SumsAgree
<1> QED
  BY <1>2, <1>3, <1>4, <1>5, <1>6

LEMMA TotalAgrees ==
  ASSUME NEW f, NEW g, NEW from \in Nat \ {0}, NEW to \in Nat, from <= to + 1,
         \A i \in from..to : f[i] = g[i]
  PROVE  Total(f, from, to) = Total(g, from, to)
<1>1. PICK s : Sums(s, f, from, to) /\ Total(f, from, to) = s[to]
  BY TotalIs
<1>2. PICK t : Sums(t, g, from, to) /\ Total(g, from, to) = t[to]
  BY TotalIs
<1>3. to \in (from - 1)..to /\ to <= to /\ to \in Int /\ from \in Nat
  OBVIOUS
<1>4. s[to] = t[to]
  <2>1. Sums(s, f, from, to) /\ Sums(t, g, from, to)
    BY <1>1, <1>2
  <2>2. SameBetween(f, g, from, to)
    BY DEF SameBetween
  <2> QED
    BY <1>3, <2>1, <2>2, SumsAgree
<1> QED
  BY <1>1, <1>2, <1>4

\* Positive terms make sums that grow.
LEMMA TotalGrows ==
  ASSUME NEW n \in Nat, NEW f, \A i \in 1..n : f[i] \in Nat \ {0}
  PROVE  \A m \in 0..n : /\ Total(f, 1, m) \in Nat
                         /\ \A k \in 0..(m - 1) : Total(f, 1, k) + f[k + 1] <= Total(f, 1, m)
<1> DEFINE Fine(m) == /\ Total(f, 1, m) \in Nat
                      /\ \A k \in 0..(m - 1) : Total(f, 1, k) + f[k + 1] <= Total(f, 1, m)
           bad == {m \in 0..n : ~Fine(m)}
<1>1. SUFFICES ASSUME bad # {} PROVE FALSE
  OBVIOUS
<1>2. PICK m \in bad : \A y \in bad : m <= y
  <2>1. bad \in SUBSET Nat
    OBVIOUS
  <2> HIDE DEF bad
  <2> QED
    BY <1>1, <2>1, LeastNumber
<1>3. m \in 0..n /\ ~Fine(m)
  BY <1>2
<1>4. CASE m = 0
  <2>1. Total(f, 1, 1 - 1) = 0
    BY TotalStep
  <2>2. Total(f, 1, 0) = 0 /\ 0..(0 - 1) = {}
    BY <2>1
  <2> QED
    BY <1>3, <1>4, <2>2
<1>5. CASE m # 0
  <2>1. m - 1 \in 0..n /\ m \in 1..n /\ 1 <= m
    BY <1>3, <1>5
  <2>2. Fine(m - 1)
    BY <1>2, <2>1
  <2>3. Total(f, 1, m) = Total(f, 1, m - 1) + f[m] /\ f[m] \in Nat \ {0}
    BY <2>1, TotalStep
  <2>4. Total(f, 1, m) \in Nat /\ Total(f, 1, m - 1) \in Nat
    BY <2>2, <2>3
  <2>5. ASSUME NEW k \in 0..(m - 1) PROVE Total(f, 1, k) + f[k + 1] <= Total(f, 1, m)
    <3>1. CASE k = m - 1
      <4>1. k + 1 = m
        BY <2>1, <3>1
      <4> QED
        BY <2>3, <2>4, <3>1, <4>1
    <3>2. CASE k # m - 1
      <4>1. k \in 0..(m - 1 - 1) /\ k + 1 \in 1..n /\ k \in 0..n
        BY <2>1, <3>2
      <4>2. Total(f, 1, k) + f[k + 1] <= Total(f, 1, m - 1)
        BY <2>2, <4>1
      <4>3. k \notin bad
        BY <1>2, <2>1, <4>1
      <4>4. Total(f, 1, k) \in Nat /\ f[k + 1] \in Nat
        BY <4>1, <4>3
      <4> HIDE DEF Fine, bad
      <4> QED
        BY <2>3, <2>4, <4>2, <4>4
    <3> QED
      BY <3>1, <3>2
  <2> QED
    BY <1>3, <2>4, <2>5
<1> QED
  BY <1>4, <1>5

-----------------------------------------------------------------------------
(* What lines mean depends on these lines alone.                             *)

LEMMA CarriedStep ==
  ASSUME NEW s, NEW from \in Nat \ {0}, NEW to \in Nat, from <= to
  PROVE  Carried(s, from, to) = (IF from = to THEN 0 ELSE Carried(s, from, to - 1)) + s[to].chunk.data
<1> DEFINE f == [i \in from..to |-> s[i].chunk.data]
           g == [i \in from..(to - 1) |-> s[i].chunk.data]
<1>1. f[to] = s[to].chunk.data /\ \A i \in from..(to - 1) : f[i] = g[i]
  OBVIOUS
<1> HIDE DEF f, g
<1>2. Total(f, from, from - 1) = 0 /\ Total(f, from, to) = Total(f, from, to - 1) + f[to]
  BY TotalStep
<1>3. Total(f, from, to - 1) = Total(g, from, to - 1)
  <2>1. to - 1 \in Nat /\ from <= (to - 1) + 1
    OBVIOUS
  <2> QED
    BY <1>1, <2>1, TotalAgrees
<1>4. Carried(s, from, to) = Total(f, from, to) /\ Carried(s, from, to - 1) = Total(g, from, to - 1)
  BY DEF Carried, f, g
<1> QED
  BY <1>1, <1>2, <1>3, <1>4

\* Lines that say the same mean the same.
LEMMA MeaningKept ==
  ASSUME NEW s, NEW t, NEW from \in Nat \ {0}, NEW to \in Nat, from <= to,
         \A i \in from..to : s[i] = t[i]
  PROVE  /\ Carried(s, from, to) = Carried(t, from, to)
         /\ Begins(s, from, to) <=> Begins(t, from, to)
         /\ Whole(s, from, to) <=> Whole(t, from, to)
         /\ Partial(s, from, to) <=> Partial(t, from, to)
<1>1. s[from] = t[from] /\ s[to] = t[to]
  OBVIOUS
<1>2. [i \in from..to |-> s[i].chunk.data] = [i \in from..to |-> t[i].chunk.data]
  OBVIOUS
<1>3. Carried(s, from, to) = Carried(t, from, to)
  BY <1>2 DEF Carried
<1>4. Begins(s, from, to) <=> Begins(t, from, to)
  BY <1>1, <1>3 DEF Begins
<1> QED
  BY <1>1, <1>3, <1>4 DEF Whole, Partial

\* What Begins asks of the chunk of a line.
Indexed(c, d, n) == [d EXCEPT !.index = n, !.data = c.data]

LEMMA SameSequence ==
  ASSUME NEW c \in ChunkFields, NEW d \in ChunkFields, NEW n \in Nat
  PROVE  c = Indexed(c, d, n)
         <=> /\ c.wellFormed = d.wellFormed /\ c.id = d.id /\ c.index = n
             /\ c.count = d.count /\ c.declared = d.declared
<1> DEFINE e == Indexed(c, d, n)
<1>1. /\ e.wellFormed = d.wellFormed /\ e.id = d.id /\ e.index = n /\ e.count = d.count
      /\ e.declared = d.declared /\ e.data = c.data
  BY DEF ChunkFields, Indexed
<1>2. e \in ChunkFields
  BY <1>1 DEF ChunkFields, Indexed
<1> HIDE DEF e
<1>3. c = e <=> /\ c.wellFormed = e.wellFormed /\ c.id = e.id /\ c.index = e.index
                /\ c.count = e.count /\ c.declared = e.declared /\ c.data = e.data
  BY <1>2 DEF ChunkFields
<1> QED
  BY <1>1, <1>3 DEF e

\* One more line of a sequence.
LEMMA BeginsStep ==
  ASSUME NEW s \in Seq(Line), NEW from \in Nat \ {0}, NEW to \in 1..Len(s), from <= to,
         from < to => Begins(s, from, to - 1),
         s[from].chunk # NoChunk, s[to].chunk # NoChunk
  PROVE  LET c == s[to].chunk
             d == s[from].chunk
         IN  Begins(s, from, to)
             <=> /\ Proper(s[to])
                 /\ c.wellFormed = d.wellFormed /\ c.id = d.id /\ c.index = to - from
                 /\ c.count = d.count /\ c.declared = d.declared
                 /\ to - from < d.count
                 /\ Carried(s, from, to) <= d.declared
<1> DEFINE c == s[to].chunk
           d == s[from].chunk
           Fits(i) == /\ Proper(s[i])
                      /\ s[i].chunk # NoChunk
                      /\ s[i].chunk = [s[from].chunk EXCEPT
                                         !.index = i - from, !.data = s[i].chunk.data]
<1>1. c \in ChunkFields /\ d \in ChunkFields /\ to - from \in Nat
  <2>1. s[to] \in Line /\ s[from] \in Line
    OBVIOUS
  <2> QED
    BY <2>1, DecoderAssumption
<1>2. ASSUME NEW i \in from..(to - 1) PROVE Fits(i)
  <2>1. from < to
    OBVIOUS
  <2> QED
    BY <2>1 DEF Begins
<1>3. Begins(s, from, to) <=> /\ \A i \in from..to : Fits(i)
                              /\ to - from < d.count
                              /\ Carried(s, from, to) <= d.declared
  BY DEF Begins
<1>4. (\A i \in from..to : Fits(i)) <=> Fits(to)
  <2>1. \A i \in from..to : i = to \/ i \in from..(to - 1)
    OBVIOUS
  <2>2. to \in from..to
    OBVIOUS
  <2> HIDE DEF Fits
  <2> QED
    BY <1>2, <2>1, <2>2
<1>5. c = [d EXCEPT !.index = to - from, !.data = c.data]
      <=> /\ c.wellFormed = d.wellFormed /\ c.id = d.id /\ c.index = to - from
          /\ c.count = d.count /\ c.declared = d.declared
  <2> DEFINE n == to - from
  <2> HIDE DEF c, d, n
  <2>1. c = Indexed(c, d, n)
        <=> /\ c.wellFormed = d.wellFormed /\ c.id = d.id /\ c.index = n
            /\ c.count = d.count /\ c.declared = d.declared
    <3>1. c \in ChunkFields /\ d \in ChunkFields /\ n \in Nat
      BY <1>1 DEF n
    <3> QED
      BY <3>1, SameSequence
  <2> QED
    BY <2>1 DEF n, Indexed
<1> QED
  BY <1>3, <1>4, <1>5

-----------------------------------------------------------------------------
(* What push makes of a chunk is what the lines up to it mean.               *)

\* The sequence in flight has the fields of the chunk it began on.
OfItsChunk ==
  pending # NoPending =>
    LET c == printed[pending.from].chunk
    IN  pending.id = c.id /\ pending.count = c.count /\ pending.declared = c.declared
MeaningInv == FramesAreWhole /\ OfItsChunk

LEMMA WithFields ==
  ASSUME NEW c \in ChunkFields, NEW p \in PendingSeq
  PROVE  /\ With(c, p).from = p.from /\ With(c, p).id = p.id /\ With(c, p).count = p.count
         /\ With(c, p).declared = p.declared /\ With(c, p).next = p.next + 1
         /\ With(c, p).received = p.received + c.data
  BY DEF With, PendingSeq

LEMMA FrontierBound ==
  ASSUME TypeOK, FramesInARow
  PROVE  Frontier \in Nat \ {0} /\ Frontier <= at + 1
<1>1. Frontier \in Nat /\ Frames \in Seq(Frame) /\ at \in Nat
  BY FrontierType DEF TypeOK
<1>2. CASE Frames = <<>>
  BY <1>1, <1>2 DEF Frontier
<1>3. CASE Frames # <<>>
  <2>1. Len(Frames) \in DOMAIN Frames /\ Frames[Len(Frames)] \in Frame
    BY <1>1, <1>3
  <2>2. Frames[Len(Frames)].to \in Nat /\ Frames[Len(Frames)].to <= at
    BY <2>1 DEF FramesInARow, Frame
  <2> QED
    BY <1>1, <1>3, <2>2 DEF Frontier
<1> QED
  BY <1>2, <1>3

\* The frontier is the line that the sequence in flight began on, or the next one.
LEMMA FrontierIs ==
  ASSUME TypeOK, FramesInARow, verdict = "reading"
  PROVE  /\ Frontier = (IF pending = NoPending THEN at + 1 ELSE pending.from)
         /\ Frontier \in Nat \ {0} /\ Frontier <= at + 1
         /\ pending # NoPending => pending.next = (at + 1) - Frontier
<1>1. at \in Nat /\ Frontier \in Nat \ {0} /\ Frontier <= at + 1
  BY FrontierBound DEF TypeOK
<1> QED
  BY <1>1 DEF FramesInARow

\* The chunk that arrives, the sequence with it, and the chunk that one began on.
Arrived == printed[at + 1].chunk
Grown == With(Arrived, Current(Arrived))
Origin == printed[Frontier].chunk

LEMMA PushedChunk ==
  ASSUME TypeOK, PendingWithinLimits, FramesInARow, MeaningInv, verdict = "reading", Covers,
         Arrived # NoChunk, printed[at + 1].size <= MaxFrame
  PROVE  /\ Arrived \in ChunkFields
         /\ Accepts(Arrived) <=> Begins(printed, Frontier, at + 1)
         /\ Accepts(Arrived) =>
              /\ Origin # NoChunk /\ Grown.from = Frontier /\ Grown.next = ((at + 1) - Frontier) + 1
              /\ Grown.received = Carried(printed, Frontier, at + 1)
              /\ Grown.id = Origin.id /\ Grown.count = Origin.count
              /\ Grown.declared = Origin.declared
              /\ Arrived.count = Origin.count /\ Arrived.declared = Origin.declared
<1> DEFINE to == at + 1
           F == Frontier
           c == Arrived
           d == Origin
           p == Current(c)
           w == Grown
<1>1. /\ F = (IF pending = NoPending THEN to ELSE pending.from)
      /\ F \in Nat \ {0} /\ F <= to
      /\ pending # NoPending => pending.next = to - F
  BY FrontierIs
<1>2. printed \in Seq(Line) /\ to \in 1..Len(printed) /\ to \in Nat /\ at = to - 1 /\ printed[to] \in Line
  BY DEF TypeOK, Covers
<1>3. c \in ChunkFields
  BY <1>2, DecoderAssumption DEF Arrived
<1>4. p \in PendingSeq
  BY <1>3 DEF TypeOK, Current, PendingSeq, ChunkFields
<1>5. /\ w.from = p.from /\ w.id = p.id /\ w.count = p.count /\ w.declared = p.declared
      /\ w.next = p.next + 1 /\ w.received = p.received + c.data
  BY <1>3, <1>4, WithFields DEF Grown
<1>6. /\ c.wellFormed \in BOOLEAN /\ c.index \in Nat /\ c.count \in Nat /\ c.declared \in Nat
      /\ c.data \in Nat /\ p.next \in Nat /\ p.received \in Nat
  BY <1>3, <1>4 DEF ChunkFields, PendingSeq
<1>7. Proper(printed[to]) <=> MetaOK(c) /\ PayloadOK(c)
  BY DEF Proper, Arrived
<1>8. Accepts(c) <=> /\ MetaOK(c) /\ PayloadOK(c)
                     /\ p.id = c.id /\ p.count = c.count /\ p.declared = c.declared /\ p.next = c.index
                     /\ w.received <= c.declared
  BY DEF Accepts, Continues, Grown
<1>9. MetaOK(c) => c.wellFormed /\ c.index < c.count
  BY DEF MetaOK
<1> DEFINE same == /\ c.wellFormed = d.wellFormed /\ c.id = d.id /\ c.index = to - F
                   /\ c.count = d.count /\ c.declared = d.declared
<1>10. Carried(printed, F, to) = (IF F = to THEN 0 ELSE Carried(printed, F, to - 1)) + c.data
  <2>1. Carried(printed, F, to) = (IF F = to THEN 0 ELSE Carried(printed, F, to - 1)) + printed[to].chunk.data
    <3> HIDE DEF F, to
    <3> QED
      BY <1>1, <1>2, CarriedStep
  <2> QED
    BY <2>1 DEF Arrived
<1>11. ASSUME d # NoChunk, F < to => Begins(printed, F, to - 1)
       PROVE  Begins(printed, F, to) <=> /\ Proper(printed[to]) /\ same
                                         /\ to - F < d.count
                                         /\ Carried(printed, F, to) <= d.declared
  <2>1. printed[F].chunk = d /\ printed[to].chunk = c
    BY DEF Arrived, Origin
  <2> HIDE DEF F, to, c, d
  <2>2. printed[F].chunk # NoChunk /\ printed[to].chunk # NoChunk
    BY <1>11, <2>1 DEF c
  <2>3. printed \in Seq(Line) /\ F \in Nat \ {0} /\ to \in 1..Len(printed) /\ F <= to
    BY <1>1, <1>2
  <2>4. LET e == printed[to].chunk
            b == printed[F].chunk
        IN  Begins(printed, F, to)
            <=> /\ Proper(printed[to])
                /\ e.wellFormed = b.wellFormed /\ e.id = b.id /\ e.index = to - F
                /\ e.count = b.count /\ e.declared = b.declared
                /\ to - F < b.count
                /\ Carried(printed, F, to) <= b.declared
    BY <1>11, <2>2, <2>3, BeginsStep
  <2> QED
    BY <2>1, <2>4
<1> HIDE DEF F, to, p, c, d, w
<1>12. CASE pending = NoPending
  <2>1. F = to /\ d = c
    BY <1>1, <1>12 DEF F, to, c, d, Arrived, Origin
  <2>2. p.from = to /\ p.id = c.id /\ p.count = c.count /\ p.declared = c.declared /\ p.next = 0 /\ p.received = 0
    BY <1>12 DEF p, to, Current
  <2>3. Begins(printed, F, to) <=> /\ Proper(printed[to]) /\ same
                                   /\ to - F < d.count
                                   /\ Carried(printed, F, to) <= d.declared
    <3>1. d # NoChunk /\ ~(F < to)
      BY <1>1, <1>2, <2>1 DEF c
    <3> QED
      BY <1>11, <3>1
  <2>4. Carried(printed, F, to) = w.received
    BY <1>5, <1>6, <1>10, <2>1, <2>2
  <2>5. to - F = 0
    BY <1>1, <1>2, <2>1
  <2>6. Accepts(c) <=> Begins(printed, F, to)
    BY <1>6, <1>7, <1>8, <1>9, <2>1, <2>2, <2>3, <2>4, <2>5
  <2> QED
    BY <1>3, <1>5, <1>6, <2>1, <2>2, <2>4, <2>5, <2>6 DEF F, to, c, d, w
<1>13. CASE pending # NoPending
  <2>1. p = pending /\ F = pending.from /\ p.next = to - F
    BY <1>1, <1>13 DEF p, Current
  <2>2. Partial(printed, F, to - 1) /\ p.received = Carried(printed, F, to - 1)
    BY <1>2, <1>13, <2>1 DEF MeaningInv, FramesAreWhole
  <2>3. d # NoChunk /\ Begins(printed, F, to - 1)
    BY <2>2 DEF Partial, F, d, Origin
  <2>4. F < to
    <3>1. pending.next \in Nat \ {0}
      BY <1>13 DEF PendingWithinLimits, TypeOK, PendingSeq
    <3> QED
      BY <1>1, <1>2, <2>1, <3>1
  <2>5. d.wellFormed
    <3>1. F \in F..(to - 1)
      BY <1>1, <1>2, <2>4
    <3>2. Proper(printed[F]) /\ printed[F].chunk # NoChunk
      BY <2>3, <3>1 DEF Begins
    <3> QED
      BY <3>2 DEF Proper, MetaOK, F, d, Origin
  <2>6. p.id = d.id /\ p.count = d.count /\ p.declared = d.declared
    BY <1>13, <2>1 DEF MeaningInv, OfItsChunk, F, d, Origin
  <2>7. Begins(printed, F, to) <=> /\ Proper(printed[to]) /\ same
                                   /\ to - F < d.count
                                   /\ Carried(printed, F, to) <= d.declared
    BY <1>11, <2>3
  <2>8. Carried(printed, F, to) = w.received
    BY <1>1, <1>2, <1>5, <1>10, <2>2, <2>4
  <2>9. Accepts(c) <=> Begins(printed, F, to)
    BY <1>6, <1>7, <1>8, <1>9, <2>1, <2>5, <2>6, <2>7, <2>8
  <2> QED
    BY <1>1, <1>3, <1>5, <1>6, <1>8, <2>1, <2>3, <2>6, <2>8, <2>9 DEF F, to, c, d, w
<1> QED
  BY <1>12, <1>13

-----------------------------------------------------------------------------
(* What FeedLine makes of a line is what the lines up to it mean.            *)

\* The reader stops at a line that continues no frame.
RefusesIt ==
  /\ \E why \in {"protocol", "tooLarge", "json"} :
       /\ Refuse(why)
       /\ why = "tooLarge" <=> printed[at + 1].size > MaxFrame
       /\ why = "json" => ~FutureFrame(printed[at + 1].text)
  /\ pending' \in {pending, NoPending}
  /\ ~Whole(printed, Frontier, at + 1) /\ ~Partial(printed, Frontier, at + 1)

\* The frame that is complete is what its lines say.
YieldsIt == Yields /\ Whole(printed, Frontier, at + 1)

\* The sequence in flight is what its lines say.
GrowsIt ==
  /\ Take /\ UNCHANGED ready
  /\ pending' # NoPending /\ Partial(printed, Frontier, at + 1)
  /\ pending'.from = Frontier
  /\ pending'.received = Carried(printed, Frontier, at + 1)
  /\ pending'.id = Origin.id /\ pending'.count = Origin.count /\ pending'.declared = Origin.declared

\* Only an object that no reader knows reads as none.
LEMMA UntypedIsNoFuture ==
  ASSUME NEW text, Reads(text) = "untyped" PROVE ~FutureFrame(text)
<1>1. text # NotAnObject /\ ~IsFrame(text)
  BY DEF Reads
<1>2. \A frames \in TypedFrames :
        "message_update" \notin DOMAIN frames /\ "extension_ui_request" \notin DOMAIN frames
  BY DEF TypedFrames, TransportFrames, ToolFrames, SessionFrames, HostFrames
<1> QED
  BY <1>1, <1>2 DEF IsFrame, FutureFrame, VariantReads

LEMMA FeedLineMeaning ==
  ASSUME TypeOK, PendingWithinLimits, FramesInARow, MeaningInv, FeedLine
  PROVE  RefusesIt \/ YieldsIt \/ GrowsIt
<1> DEFINE line == printed[at + 1]
           to == at + 1
           F == Frontier
<1>1. verdict = "reading" /\ Covers
  BY DEF FeedLine
<1>2. /\ F = (IF pending = NoPending THEN to ELSE pending.from)
      /\ F \in Nat \ {0} /\ F <= to
  BY <1>1, FrontierIs
<1>3. line \in Line /\ line.size \in Nat /\ to \in Nat /\ at < to
  BY <1>1, NextLine
<1>4. F \in F..to /\ to \in F..to
  BY <1>2, <1>3
<1>5. Whole(printed, F, to) \/ Partial(printed, F, to) => Proper(line)
  BY <1>4 DEF Whole, Partial, Begins
<1>6. pending # NoPending => F < to /\ printed[F].chunk # NoChunk
  <2>1. SUFFICES ASSUME pending # NoPending PROVE F < to /\ printed[F].chunk # NoChunk
    OBVIOUS
  <2>2. Partial(printed, F, at) /\ pending.next \in Nat \ {0} /\ pending.next = to - F
    BY <1>1, <1>2, <2>1, FrontierIs DEF MeaningInv, FramesAreWhole, PendingWithinLimits, TypeOK, PendingSeq
  <2> QED
    BY <1>2, <1>3, <2>2 DEF Partial
<1>7. CASE line.size > MaxFrame /\ Refuse("tooLarge") /\ UNCHANGED pending
  BY <1>3, <1>5, <1>7, DecoderAssumption DEF RefusesIt, Proper
<1>8. CASE line.size <= MaxFrame /\ ~Parses(line) /\ Refuse("protocol") /\ UNCHANGED pending
  <2>1. ~Proper(line)
    BY <1>8 DEF Proper, Parses
  <2>2. ~(line.size > MaxFrame)
    BY <1>3, <1>8, DecoderAssumption
  <2> QED
    BY <1>5, <1>8, <2>1, <2>2 DEF RefusesIt
<1>9. CASE line.size <= MaxFrame /\ line.chunk = NoChunk /\ Parses(line) /\ PushPlain(line)
  <2>1. ~(line.size > MaxFrame) /\ Proper(line)
    BY <1>3, <1>9, DecoderAssumption DEF Proper, Parses
  <2>2. ~Begins(printed, F, to)
    BY <1>4, <1>9 DEF Begins
  <2>3. Whole(printed, F, to) <=> F = to /\ Reads(line.text) = "frame"
    BY <1>9, <2>1, <2>2 DEF Whole
  <2>4. ~Partial(printed, F, to)
    BY <2>2 DEF Partial
  <2>5. CASE pending # NoPending
    <3>1. F # to
      BY <1>2, <1>3, <1>6, <2>5
    <3> QED
      BY <1>9, <2>1, <2>3, <2>4, <2>5, <3>1 DEF RefusesIt, PushPlain
  <2>6. CASE pending = NoPending
    <3>1. pending' = NoPending /\ Decode(line.text, at + 1) /\ F = to
      BY <1>2, <1>9, <2>6 DEF PushPlain
    <3>2. CASE Reads(line.text) = "frame"
      BY <2>3, <2>6, <3>1, <3>2 DEF Decode, YieldsIt, Yields
    <3>3. CASE Reads(line.text) = "untyped"
      BY <2>1, <2>3, <2>4, <3>1, <3>3, UntypedIsNoFuture DEF Decode, RefusesIt
    <3>4. CASE Reads(line.text) = "garbage"
      BY <2>1, <2>3, <2>4, <3>1, <3>4 DEF Decode, RefusesIt
    <3> QED
      BY <3>1, <3>2, <3>3, <3>4 DEF Decode
  <2> QED
    BY <2>5, <2>6
<1>10. CASE line.size <= MaxFrame /\ line.chunk # NoChunk /\ PushChunk(line.chunk, line.text)
  <2> DEFINE c == Arrived
             w == Grown
  <2>1. ~(line.size > MaxFrame) /\ c # NoChunk /\ PushChunk(c, line.text)
    BY <1>3, <1>10, DecoderAssumption DEF Arrived
  <2>2. /\ c \in ChunkFields
        /\ Accepts(c) <=> Begins(printed, F, to)
        /\ Accepts(c) =>
             /\ Origin # NoChunk /\ w.from = F /\ w.next = (to - F) + 1
             /\ w.received = Carried(printed, F, to)
             /\ w.id = Origin.id /\ w.count = Origin.count /\ w.declared = Origin.declared
             /\ c.count = Origin.count /\ c.declared = Origin.declared
    BY <1>1, <1>10, PushedChunk DEF Arrived
  <2>3. w = With(c, Current(c)) /\ Origin = printed[F].chunk /\ c = printed[to].chunk
    BY DEF Grown, Origin, Arrived
  <2>4. (F = to => Origin = c)
    BY <2>3
  <2> HIDE DEF c, w, F, to, line
  <2>5. Whole(printed, F, to) <=> /\ Reads(line.text) = "frame" /\ Accepts(c)
                                  /\ w.next = c.count /\ w.received = c.declared
    BY <2>1, <2>2, <2>3, <2>4 DEF Whole, line, to
  <2>6. Partial(printed, F, to) <=> Accepts(c) /\ (to - F) + 1 < Origin.count
    BY <2>2, <2>3 DEF Partial
  <2>7. Accepts(c) => /\ (to - F) + 1 <= Origin.count /\ Origin.count \in Nat
                      /\ w.next \in Nat
    <3>1. c.count \in Nat /\ to - F \in Nat
      BY <1>2, <1>3, <2>2 DEF ChunkFields, F, to
    <3>2. Begins(printed, F, to) => to - F < printed[F].chunk.count
      BY DEF Begins
    <3> QED
      BY <2>2, <2>3, <3>1, <3>2
  <2>8. Partial(printed, F, to) <=> Accepts(c) /\ w.next # c.count
    BY <2>2, <2>6, <2>7
  <2>9. Completes(c) <=> w.next = c.count
    BY <2>3 DEF Completes
  <2>10. CASE ~Accepts(c) /\ pending' = NoPending /\ Refuse("protocol")
    BY <2>1, <2>5, <2>8, <2>10 DEF RefusesIt, F, to, line
  <2>11. CASE Accepts(c) /\ ~Completes(c) /\ pending' = With(c, Current(c)) /\ UNCHANGED ready /\ Take
    <3>1. pending' \in PendingSeq
      BY <2>2, <2>11, GrownSequence
    <3> QED
      BY <2>2, <2>3, <2>8, <2>9, <2>11, <3>1, DecoderAssumption DEF GrowsIt, F, to
  <2>12. CASE /\ Accepts(c) /\ Completes(c) /\ pending' = NoPending
              /\ w.received # c.declared /\ Refuse("protocol")
    BY <2>1, <2>5, <2>8, <2>9, <2>12 DEF RefusesIt, F, to, line
  <2>13. CASE /\ Accepts(c) /\ Completes(c) /\ pending' = NoPending
              /\ w.received = c.declared /\ Decode(line.text, Current(c).from)
    <3>1. Current(c).from = IF pending = NoPending THEN at + 1 ELSE pending.from
      BY DEF Current
    <3>2. CASE Reads(line.text) = "frame"
      <4>1. ready' = Append(ready, [from |-> Current(c).from, to |-> at + 1]) /\ Take
        BY <2>13, <3>2 DEF Decode
      <4>2. Whole(printed, F, to)
        BY <2>5, <2>9, <2>13, <3>2
      <4> QED
        BY <2>13, <3>1, <4>1, <4>2 DEF YieldsIt, Yields, F, to
    <3>3. CASE Reads(line.text) = "untyped"
      <4>1. Refuse("json") /\ ~FutureFrame(line.text)
        BY <2>13, <3>3, UntypedIsNoFuture DEF Decode
      <4>2. ~Whole(printed, F, to) /\ ~Partial(printed, F, to)
        BY <2>5, <2>8, <2>9, <2>13, <3>3
      <4> QED
        BY <2>1, <2>13, <4>1, <4>2 DEF RefusesIt, F, to, line
    <3>4. CASE Reads(line.text) = "garbage"
      <4>1. Refuse("protocol")
        BY <2>13, <3>4 DEF Decode
      <4>2. ~Whole(printed, F, to) /\ ~Partial(printed, F, to)
        BY <2>5, <2>8, <2>9, <2>13, <3>4
      <4> QED
        BY <2>1, <2>13, <4>1, <4>2 DEF RefusesIt, F, to, line
    <3> QED
      BY <2>13, <3>2, <3>3, <3>4 DEF Decode
  <2> QED
    BY <2>1, <2>3, <2>10, <2>11, <2>12, <2>13 DEF PushChunk
<1>11. line.size <= MaxFrame \/ line.size > MaxFrame
  BY <1>3, DecoderAssumption
<1>12. \/ line.size > MaxFrame /\ Refuse("tooLarge") /\ UNCHANGED pending
       \/ line.size <= MaxFrame /\ ~Parses(line) /\ Refuse("protocol") /\ UNCHANGED pending
       \/ line.size <= MaxFrame /\ Parses(line) /\ Push(line)
  BY DEF FeedLine
<1> QED
  BY <1>7, <1>8, <1>9, <1>10, <1>12 DEF Push

-----------------------------------------------------------------------------
(* Where the bytes of the stream are.                                        *)

\* The bytes of the first n lines.
Bytes(lines, n) == Total([i \in 1..Len(lines) |-> lines[i].size], 1, n)

\* Every byte printed is in a line taken, in the decoder, in the read or in the
\* pipe, and the decoder holds no newline.
BytesInv ==
  /\ ~hungUp => torn = 0
  /\ verdict = "reading" =>
       /\ Bytes(printed, at) + buffered + left + unread = Bytes(printed, Len(printed)) + torn
       /\ at < Len(printed) => buffered < printed[at + 1].size

LEMMA LineSize == ASSUME NEW s \in Seq(Line), NEW i \in 1..Len(s) PROVE s[i].size \in Nat \ {0}
<1>1. s[i] \in Line
  OBVIOUS
<1> QED
  BY <1>1, DecoderAssumption

LEMMA BytesGrow ==
  ASSUME NEW s \in Seq(Line), NEW m \in 0..Len(s)
  PROVE  /\ Bytes(s, m) \in Nat
         /\ \A k \in 0..(m - 1) : Bytes(s, k) + s[k + 1].size <= Bytes(s, m)
<1> DEFINE n == Len(s)
           f == [i \in 1..n |-> s[i].size]
<1>1. n \in Nat /\ m \in 0..n
  OBVIOUS
<1>2. \A i \in 1..n : f[i] = s[i].size /\ f[i] \in Nat \ {0}
  BY LineSize
<1>3. \A k \in 0..(m - 1) : k + 1 \in 1..n
  BY <1>1
<1>4. \A k : Bytes(s, k) = Total(f, 1, k)
  BY DEF Bytes
<1> HIDE DEF n, f
<1>5. /\ Total(f, 1, m) \in Nat
      /\ \A k \in 0..(m - 1) : Total(f, 1, k) + f[k + 1] <= Total(f, 1, m)
  BY <1>1, <1>2, TotalGrows
<1> QED
  BY <1>2, <1>3, <1>4, <1>5

LEMMA BytesStep ==
  ASSUME NEW s \in Seq(Line), NEW m \in 1..Len(s)
  PROVE  Bytes(s, m) = Bytes(s, m - 1) + s[m].size
<1> DEFINE f == [i \in 1..Len(s) |-> s[i].size]
<1>1. f[m] = s[m].size
  OBVIOUS
<1>2. 1 \in Nat \ {0} /\ m \in Nat /\ 1 <= m
  OBVIOUS
<1>3. Bytes(s, m) = Total(f, 1, m) /\ Bytes(s, m - 1) = Total(f, 1, m - 1)
  BY DEF Bytes
<1> HIDE DEF f
<1>4. Total(f, 1, m) = Total(f, 1, m - 1) + f[m]
  BY <1>2, TotalStep
<1> QED
  BY <1>1, <1>3, <1>4

LEMMA BytesOfMore ==
  ASSUME NEW s \in Seq(Line), NEW e \in Line, NEW m \in 0..Len(s)
  PROVE  Bytes(Append(s, e), m) = Bytes(s, m)
<1> DEFINE t == Append(s, e)
           f == [i \in 1..Len(t) |-> t[i].size]
           g == [i \in 1..Len(s) |-> s[i].size]
<1>1. t \in Seq(Line) /\ Len(t) = Len(s) + 1 /\ \A i \in 1..Len(s) : t[i] = s[i]
  BY AppendFacts
<1> HIDE DEF t
<1>2. \A i \in 1..m : f[i] = g[i]
  BY <1>1
<1>3. Bytes(t, m) = Total(f, 1, m) /\ Bytes(s, m) = Total(g, 1, m)
  BY DEF Bytes
<1>4. m \in Nat /\ 1 <= m + 1 /\ 1 \in Nat \ {0}
  OBVIOUS
<1> HIDE DEF f, g
<1>5. Total(f, 1, m) = Total(g, 1, m)
  BY <1>2, <1>4, TotalAgrees
<1> QED
  BY <1>3, <1>5 DEF t

LEMMA BytesLater ==
  ASSUME TypeOK, BytesInv, NEW line \in Line, WriteLine(line) PROVE BytesInv'
<1>1. /\ printed \in Seq(Line) /\ at \in 0..Len(printed) /\ Len(printed) \in Nat
      /\ buffered \in Nat /\ left \in Nat /\ unread \in Nat /\ torn \in Nat
  BY DecoderAssumption DEF TypeOK
<1> DEFINE p == printed'
           n == Len(printed)
<1>2. /\ p = Append(printed, line) /\ unread' = unread + line.size /\ ~hungUp
      /\ UNCHANGED <<torn, hungUp, left, at, buffered, verdict>>
  BY DEF WriteLine
<1>3. p \in Seq(Line) /\ Len(p) = n + 1 /\ p[n + 1] = line /\ \A i \in 1..n : p[i] = printed[i]
  BY <1>1, <1>2, AppendFacts
<1>4. line.size \in Nat \ {0} /\ n \in Nat /\ at \in Nat /\ at <= n
  BY <1>1, DecoderAssumption
<1>5. torn = 0
  BY <1>2 DEF BytesInv
<1>6. ASSUME verdict = "reading"
      PROVE  /\ Bytes(p, at) + buffered + left + unread' = Bytes(p, Len(p)) + torn
             /\ at < Len(p) => buffered < p[at + 1].size
  <2>1. Bytes(printed, at) + buffered + left + unread = Bytes(printed, n) + torn
    BY <1>6 DEF BytesInv
  <2>2. Bytes(p, at) = Bytes(printed, at) /\ Bytes(p, n) = Bytes(printed, n)
    <3>1. n \in 0..n
      BY <1>1
    <3> QED
      BY <1>1, <1>2, <3>1, BytesOfMore
  <2>3. Bytes(p, n + 1) = Bytes(p, n) + line.size
    <3>1. n + 1 \in 1..Len(p) /\ (n + 1) - 1 = n
      BY <1>1, <1>3
    <3> HIDE DEF p, n
    <3>2. Bytes(p, n + 1) = Bytes(p, (n + 1) - 1) + p[n + 1].size
      BY <1>3, <3>1, BytesStep
    <3> QED
      BY <1>3, <3>1, <3>2
  <2>4. Bytes(printed, at) \in Nat /\ Bytes(printed, n) \in Nat
    <3>1. n \in 0..n
      BY <1>1
    <3> QED
      BY <1>1, <3>1, BytesGrow
  <2>5. Bytes(p, Len(p)) = Bytes(printed, n) + line.size /\ unread' = unread + line.size
    BY <1>2, <1>3, <2>2, <2>3
  <2>6. Bytes(p, at) + buffered + left + unread' = Bytes(p, Len(p)) + torn
    <3> DEFINE a == Bytes(printed, at)
               b == Bytes(printed, n)
               size == line.size
    <3>1. a \in Nat /\ b \in Nat /\ size \in Nat /\ a + buffered + left + unread = b + torn
      BY <1>4, <2>1, <2>4
    <3> HIDE DEF a, b, size
    <3>2. a + buffered + left + (unread + size) = (b + size) + torn
      BY <1>1, <3>1
    <3> QED
      BY <2>2, <2>5, <3>2 DEF a, b, size
  <2>7. CASE at = n
    <3> HIDE DEF p, n
    <3>1. buffered = 0 /\ p[at + 1] = line
      BY <1>1, <1>3, <1>5, <2>1, <2>4, <2>7
    <3>2. buffered < p[at + 1].size
      BY <1>4, <3>1
    <3> QED
      BY <2>6, <3>2
  <2>8. CASE at # n
    <3>1. at < n /\ at + 1 \in 1..n
      BY <1>1, <2>8
    <3>2. buffered < printed[at + 1].size /\ p[at + 1] = printed[at + 1]
      BY <1>3, <1>6, <3>1 DEF BytesInv
    <3> HIDE DEF p, n
    <3> QED
      BY <2>6, <3>2
  <2> QED
    BY <2>7, <2>8
<1> QED
  BY <1>2, <1>5, <1>6 DEF BytesInv

LEMMA BytesTaken ==
  ASSUME TypeOK, BytesInv, verdict = "reading", Covers, Take, UNCHANGED pipeVars PROVE BytesInv'
<1> DEFINE n == Len(printed)
           size == printed[at + 1].size
<1>1. /\ printed \in Seq(Line) /\ at \in Nat /\ n \in Nat /\ at < n
      /\ buffered \in Nat /\ left \in Nat /\ unread \in Nat /\ torn \in Nat
  BY DecoderAssumption DEF TypeOK, Covers
<1>2. /\ at' = at + 1 /\ left' = left - (size - buffered) /\ buffered' = 0 /\ verdict' = verdict
      /\ printed' = printed /\ torn' = torn /\ hungUp' = hungUp /\ unread' = unread
  BY DEF Take, pipeVars
<1>3. size \in Nat \ {0}
  BY <1>1, LineSize
<1>4. Bytes(printed, at + 1) = Bytes(printed, at) + size
  <2>1. at + 1 \in 1..n /\ (at + 1) - 1 = at
    BY <1>1
  <2> QED
    BY <1>1, <2>1, BytesStep
<1>5. Bytes(printed, at) \in Nat /\ Bytes(printed, n) \in Nat
  <2>1. n \in 0..n /\ at \in 0..n
    BY <1>1
  <2> QED
    BY <1>1, <2>1, BytesGrow
<1>6. Bytes(printed, at) + buffered + left + unread = Bytes(printed, n) + torn
  BY DEF BytesInv
<1>7. Bytes(printed, at + 1) + 0 + left' + unread = Bytes(printed, n) + torn
  <2> HIDE DEF n, size
  <2> QED
    BY <1>1, <1>2, <1>3, <1>4, <1>5, <1>6
<1>8. at + 1 < n => 0 < printed[(at + 1) + 1].size
  <2>1. SUFFICES ASSUME at + 1 < n PROVE 0 < printed[(at + 1) + 1].size
    OBVIOUS
  <2>2. (at + 1) + 1 \in 1..n
    BY <1>1, <2>1
  <2>3. printed[(at + 1) + 1].size \in Nat \ {0}
    BY <1>1, <2>2, LineSize
  <2> QED
    BY <2>3
<1> QED
  BY <1>2, <1>7, <1>8 DEF BytesInv

LEMMA BytesKept == TypeOK /\ PendingWithinLimits /\ BytesInv /\ [Next]_vars => BytesInv'
<1> SUFFICES ASSUME TypeOK, PendingWithinLimits, BytesInv, [Next]_vars PROVE BytesInv'
  OBVIOUS
<1>0. /\ printed \in Seq(Line) /\ at \in 0..Len(printed) /\ Len(printed) \in Nat
      /\ buffered \in Nat /\ left \in Nat /\ unread \in Nat /\ torn \in Nat
      /\ Bytes(printed, at) \in Nat /\ Bytes(printed, Len(printed)) \in Nat
  <2>1. /\ printed \in Seq(Line) /\ at \in 0..Len(printed) /\ Len(printed) \in Nat
        /\ buffered \in Nat /\ left \in Nat /\ unread \in Nat /\ torn \in Nat
    BY DecoderAssumption DEF TypeOK
  <2>2. Len(printed) \in 0..Len(printed)
    BY <2>1
  <2> QED
    BY <2>1, <2>2, BytesGrow
<1>1. CASE UNCHANGED vars
  BY <1>1 DEF vars, pipeVars, BytesInv
<1>2. ASSUME NEW line \in Line, WriteLine(line) PROVE BytesInv'
  BY <1>2, BytesLater
<1>3. ASSUME NEW n \in 0..MaxFrame, HangUp(n) PROVE BytesInv'
  <2>1. n \in Nat
    BY DecoderAssumption
  <2> QED
    BY <1>0, <1>3, <2>1 DEF HangUp, BytesInv
<1>4. CASE FeedLine
  <2>1. verdict = "reading" /\ Covers /\ UNCHANGED pipeVars
    BY <1>4 DEF FeedLine
  <2>2. CASE Stops
    BY <2>1, <2>2 DEF Stops, Refuse, BytesInv, pipeVars, Verdict
  <2>3. CASE Take
    BY <2>1, <2>3, BytesTaken
  <2> QED
    BY <1>4, <2>2, <2>3, FeedLineOutcome DEF Yields, Grows
<1>5. CASE FeedRest
  <2>1. /\ verdict = "reading" /\ ~Covers /\ left > 0
        /\ printed' = printed /\ torn' = torn /\ hungUp' = hungUp /\ unread' = unread
    BY <1>5 DEF FeedRest, pipeVars
  <2>2. CASE Refuse("tooLarge")
    BY <2>1, <2>2 DEF Refuse, BytesInv
  <2>3. CASE buffered' = buffered + left /\ left' = 0 /\ UNCHANGED <<at, ready, verdict>>
    <3>1. at < Len(printed) => buffered + left < printed[at + 1].size
      <4>1. SUFFICES ASSUME at < Len(printed) PROVE buffered + left < printed[at + 1].size
        OBVIOUS
      <4>2. printed[at + 1].size \in Nat
        BY <1>0, <4>1, LineSize
      <4> QED
        BY <1>0, <2>1, <4>1, <4>2 DEF Covers
    <3> QED
      BY <1>0, <2>1, <2>3, <3>1 DEF BytesInv
  <2> QED
    BY <1>5, <2>2, <2>3 DEF FeedRest
<1>6. CASE HandOut
  BY <1>6 DEF HandOut, pipeVars, BytesInv
<1>7. CASE ReadEof
  BY <1>7 DEF ReadEof, pipeVars, BytesInv
<1>8. ASSUME NEW n \in 1..ReadSize, Read(n) PROVE BytesInv'
  <2>1. n \in Nat
    BY DecoderAssumption
  <2> QED
    BY <1>0, <1>8, <2>1 DEF Read, Idle, BytesInv
<1>9. CASE ReadFails
  BY <1>9 DEF ReadFails, pipeVars, BytesInv
<1> QED
  BY <1>1, <1>2, <1>3, <1>4, <1>5, <1>6, <1>7, <1>8, <1>9 DEF Next, Reader, Feed

-----------------------------------------------------------------------------
(* Frames and verdict are those of the stream.                               *)

\* Frames stay what their lines say while lines are only added, and the sequence in
\* flight stays or is given up.
LEMMA MeaningStays ==
  ASSUME TypeOK, PendingWithinLimits, FramesInARow, MeaningInv,
         Frames' = Frames, at' = at, pending' \in {pending, NoPending},
         \A i \in 1..at : printed'[i] = printed[i]
  PROVE  MeaningInv'
<1>1. at \in Nat /\ Frames \in Seq(Frame)
  BY FrontierType DEF TypeOK
<1>2. ASSUME NEW from \in Nat \ {0}, NEW to \in 1..at, from <= to
      PROVE  /\ Whole(printed, from, to) => Whole(printed', from, to)
             /\ Partial(printed, from, to) => Partial(printed', from, to)
             /\ Carried(printed, from, to) = Carried(printed', from, to)
  <2>1. to \in Nat /\ \A i \in from..to : printed[i] = printed'[i]
    BY <1>1, <1>2
  <2> QED
    BY <1>2, <2>1, MeaningKept
<1>3. ASSUME NEW k \in DOMAIN Frames PROVE Whole(printed', Frames[k].from, Frames[k].to)
  <2>1. Frames[k] \in Frame /\ Frames[k].from <= Frames[k].to /\ Frames[k].to <= at
    BY <1>1 DEF FramesInARow
  <2>2. Frames[k].from # 0
    <3>1. Frames[k].from = (IF k = 1 THEN 1 ELSE Frames[k-1].to + 1)
      BY DEF FramesInARow
    <3>2. k # 1 => Frames[k-1].to \in Nat
      <4>1. k # 1 => k - 1 \in DOMAIN Frames
        BY <1>1
      <4> QED
        BY <1>1, <4>1, FrameEnds
    <3> QED
      BY <3>1, <3>2
  <2>3. Frames[k].from \in Nat \ {0} /\ Frames[k].to \in 1..at
    BY <1>1, <2>1, <2>2 DEF Frame
  <2>4. Whole(printed, Frames[k].from, Frames[k].to)
    BY DEF MeaningInv, FramesAreWhole
  <2> QED
    BY <1>2, <2>1, <2>3, <2>4
<1>4. ASSUME pending' # NoPending
      PROVE  /\ pending' = pending
             /\ Partial(printed', pending.from, at)
             /\ pending.received = Carried(printed', pending.from, at)
             /\ LET c == printed'[pending.from].chunk
                IN  pending.id = c.id /\ pending.count = c.count /\ pending.declared = c.declared
  <2>1. pending' = pending /\ pending # NoPending
    BY <1>4
  <2>2. pending.from = Frontier /\ pending.next = at + 1 - Frontier /\ pending.next \in Nat \ {0}
    BY <2>1 DEF FramesInARow, PendingWithinLimits, TypeOK, PendingSeq
  <2>3. Frontier \in Nat \ {0}
    BY FrontierBound
  <2>4. pending.from \in Nat \ {0} /\ pending.from <= at /\ at \in 1..at /\ pending.from \in 1..at
    BY <1>1, <2>2, <2>3
  <2>5. /\ Partial(printed, pending.from, at) /\ pending.received = Carried(printed, pending.from, at)
        /\ LET c == printed[pending.from].chunk
           IN  pending.id = c.id /\ pending.count = c.count /\ pending.declared = c.declared
    BY <2>1 DEF MeaningInv, FramesAreWhole, OfItsChunk
  <2>6. printed'[pending.from] = printed[pending.from]
    BY <2>4
  <2> QED
    BY <1>2, <2>1, <2>4, <2>5, <2>6
<1> QED
  BY <1>3, <1>4 DEF MeaningInv, FramesAreWhole, OfItsChunk

LEMMA MeaningStep ==
  TypeOK /\ PendingWithinLimits /\ FramesInARow /\ MeaningInv /\ [Next]_vars => MeaningInv'
<1> SUFFICES ASSUME TypeOK, PendingWithinLimits, FramesInARow, MeaningInv, [Next]_vars
             PROVE  MeaningInv'
  OBVIOUS
<1>1. CASE UNCHANGED <<printed, handed, ready, at, pending>>
  BY <1>1, MeaningStays DEF Frames
<1>2. ASSUME NEW line \in Line, WriteLine(line) PROVE MeaningInv'
  <2>1. printed' = Append(printed, line) /\ UNCHANGED <<handed, ready, at, pending>>
    BY <1>2 DEF WriteLine
  <2>2. \A i \in 1..at : printed'[i] = printed[i]
    <3>1. \A i \in 1..Len(printed) : printed'[i] = printed[i]
      BY <2>1, AppendFacts DEF TypeOK
    <3> QED
      BY <3>1 DEF TypeOK
  <2> QED
    BY <2>1, <2>2, MeaningStays DEF Frames
<1>3. CASE FeedLine
  <2>1. printed' = printed /\ handed' = handed /\ at \in Nat /\ verdict = "reading"
    BY <1>3 DEF FeedLine, pipeVars, TypeOK
  <2>2. Frames \in Seq(Frame) /\ Frontier \in Nat \ {0} /\ Frontier <= at + 1
    BY FrontierType, FrontierBound
  <2>3. CASE RefusesIt
    BY <2>1, <2>3, MeaningStays DEF RefusesIt, Refuse, Frames
  <2>4. CASE YieldsIt
    <3> DEFINE new == [from |-> Frontier, to |-> at + 1]
    <3>1. new \in Frame /\ new.from = Frontier /\ new.to = at + 1
      BY <2>1, <2>2 DEF Frame
    <3>2. ready' = Append(ready, new) /\ pending' = NoPending
      BY <2>1, <2>4, FrontierIs DEF YieldsIt, Yields
    <3>3. Frames' = Append(Frames, new)
      BY <2>1, <3>1, <3>2, AppendLater DEF Frames, TypeOK
    <3>4. Whole(printed, new.from, new.to)
      BY <2>4, <3>1 DEF YieldsIt
    <3> HIDE DEF new
    <3>5. /\ Len(Frames') = Len(Frames) + 1 /\ Len(Frames) \in Nat
          /\ \A k \in 1..Len(Frames) : Frames'[k] = Frames[k]
          /\ Frames'[Len(Frames) + 1] = new
          /\ DOMAIN Frames = 1..Len(Frames) /\ DOMAIN Frames' = 1..Len(Frames) + 1
      BY <2>2, <3>1, <3>3, AppendFacts
    <3>6. ASSUME NEW k \in DOMAIN Frames' PROVE Whole(printed', Frames'[k].from, Frames'[k].to)
      <4>1. CASE k \in 1..Len(Frames)
        BY <2>1, <3>5, <4>1 DEF MeaningInv, FramesAreWhole
      <4>2. CASE k = Len(Frames) + 1
        BY <2>1, <3>4, <3>5, <4>2
      <4> QED
        BY <3>5, <4>1, <4>2
    <3> QED
      BY <3>2, <3>6 DEF MeaningInv, FramesAreWhole, OfItsChunk
  <2>5. CASE GrowsIt
    <3>1. Frames' = Frames /\ at' = at + 1
      BY <2>1, <2>5 DEF GrowsIt, Frames, Take
    <3>2. /\ Partial(printed', pending'.from, at') /\ pending'.received = Carried(printed', pending'.from, at')
          /\ LET c == printed'[pending'.from].chunk
             IN  pending'.id = c.id /\ pending'.count = c.count /\ pending'.declared = c.declared
      BY <2>1, <2>5, <3>1 DEF GrowsIt, Origin
    <3>3. \A k \in DOMAIN Frames' : Whole(printed', Frames'[k].from, Frames'[k].to)
      BY <2>1, <3>1 DEF MeaningInv, FramesAreWhole
    <3> QED
      BY <3>2, <3>3 DEF MeaningInv, FramesAreWhole, OfItsChunk
  <2> QED
    BY <1>3, <2>3, <2>4, <2>5, FeedLineMeaning
<1>4. CASE HandOut
  <2>1. Frames' = Frames
    BY <1>4, MoveHead DEF HandOut, Frames, TypeOK
  <2> QED
    BY <1>4, <2>1, MeaningStays DEF HandOut, pipeVars
<1> QED
  BY <1>1, <1>2, <1>3, <1>4
  DEF Next, Reader, Feed, HangUp, FeedRest, Refuse, Read, ReadEof, ReadFails, vars, pipeVars

\* The verdict stays deserved, whatever omp prints behind the line it is about.
LEMMA VerdictStays ==
  ASSUME TypeOK, FramesInARow, BytesInv, RefusalIsDeserved, EofMeansAllRead,
         NEW line \in Line, WriteLine(line)
  PROVE  RefusalIsDeserved' /\ EofMeansAllRead'
<1>1. /\ printed' = Append(printed, line) /\ UNCHANGED <<torn, hungUp, at, handed, ready, verdict>>
      /\ ~hungUp /\ torn = 0
  BY DEF WriteLine, BytesInv
<1>2. /\ printed \in Seq(Line) /\ Len(printed) \in Nat /\ at \in 0..Len(printed)
      /\ Len(printed') = Len(printed) + 1 /\ \A i \in 1..Len(printed) : printed'[i] = printed[i]
  BY <1>1, AppendFacts DEF TypeOK
<1>3. Frontier' = Frontier
  BY <1>1 DEF Frontier, Frames
<1>4. EofMeansAllRead'
  BY <1>1 DEF EofMeansAllRead
<1>5. ASSUME verdict \in {"protocol", "tooLarge", "json"}
      PROVE  /\ at < Len(printed) /\ at # Len(printed')
             /\ printed'[at + 1] = printed[at + 1]
             /\ Whole(printed', Frontier, at + 1) <=> Whole(printed, Frontier, at + 1)
             /\ Partial(printed', Frontier, at + 1) <=> Partial(printed, Frontier, at + 1)
  <2>1. at < Len(printed)
    BY <1>1, <1>2, <1>5 DEF RefusalIsDeserved
  <2>2. /\ Frontier \in Nat \ {0} /\ Frontier <= at + 1 /\ at + 1 \in Nat
        /\ \A i \in Frontier..(at + 1) : printed'[i] = printed[i]
    <3>1. Frontier \in Nat \ {0} /\ Frontier <= at + 1
      BY FrontierBound
    <3>2. \A i \in Frontier..(at + 1) : i \in 1..Len(printed)
      BY <1>2, <2>1, <3>1
    <3> QED
      BY <1>2, <3>1, <3>2
  <2>3. /\ Whole(printed', Frontier, at + 1) <=> Whole(printed, Frontier, at + 1)
        /\ Partial(printed', Frontier, at + 1) <=> Partial(printed, Frontier, at + 1)
    BY <2>2, MeaningKept
  <2>4. at + 1 \in 1..Len(printed)
    BY <1>2, <2>1
  <2> QED
    BY <1>2, <2>1, <2>3, <2>4
<1>6. ASSUME verdict \in {"protocol", "tooLarge", "json"}
      PROVE  /\ ~Whole(printed, Frontier, at + 1)
             /\ ~Partial(printed, Frontier, at + 1)
             /\ verdict = "tooLarge" <=> printed[at + 1].size > MaxFrame
             /\ verdict = "json" => ~FutureFrame(printed[at + 1].text)
  BY <1>2, <1>5, <1>6 DEF RefusalIsDeserved
<1>7. RefusalIsDeserved'
  BY <1>1, <1>3, <1>5, <1>6 DEF RefusalIsDeserved
<1> QED
  BY <1>4, <1>7

\* What is refused in the middle of a line is over the limit.
LEMMA RestRefused ==
  ASSUME TypeOK, FramesInARow, BytesInv, FeedRest, verdict' # "reading"
  PROVE  RefusalIsDeserved'
<1>1. /\ printed \in Seq(Line) /\ Len(printed) \in Nat /\ at \in 0..Len(printed) /\ at \in Nat
      /\ buffered \in Nat /\ left \in Nat /\ unread \in Nat /\ torn \in Nat /\ MaxFrame \in Nat \ {0}
  BY DecoderAssumption DEF TypeOK
<1>2. /\ verdict = "reading" /\ ~Covers /\ buffered + left >= MaxFrame /\ verdict' = "tooLarge"
      /\ UNCHANGED <<printed, torn, at, handed, ready>>
  BY DEF FeedRest, Refuse, pipeVars
<1>3. Frontier' = Frontier
  BY <1>2 DEF Frontier, Frames
<1>4. CASE at = Len(printed)
  <2>1. Bytes(printed, at) \in Nat
    BY <1>1, BytesGrow
  <2>2. Bytes(printed, at) + buffered + left + unread = Bytes(printed, at) + torn
    BY <1>2, <1>4 DEF BytesInv
  <2>3. torn >= MaxFrame /\ torn > 0
    BY <1>1, <1>2, <2>1, <2>2
  <2> QED
    BY <1>2, <1>4, <2>3 DEF RefusalIsDeserved
<1>5. CASE at # Len(printed)
  <2>1. at + 1 \in 1..Len(printed) /\ at < Len(printed)
    BY <1>1, <1>5
  <2>2. printed[at + 1].size \in Nat
    BY <1>1, <2>1, LineSize
  <2>3. printed[at + 1].size > MaxFrame
    BY <1>1, <1>2, <2>1, <2>2 DEF Covers
  <2>4. ~Proper(printed[at + 1])
    BY <1>1, <2>2, <2>3 DEF Proper
  <2>5. at + 1 \in Frontier..(at + 1)
    BY <1>1, FrontierBound
  <2>6. ~Whole(printed, Frontier, at + 1) /\ ~Partial(printed, Frontier, at + 1)
    BY <2>4, <2>5 DEF Whole, Partial, Begins
  <2> QED
    BY <1>2, <1>3, <1>5, <2>3, <2>6 DEF RefusalIsDeserved
<1> QED
  BY <1>4, <1>5

\* At the end of the stream the decoder holds what was torn off, and no more.
LEMMA EndIsTorn ==
  ASSUME TypeOK, BytesInv, verdict = "reading", left = 0, unread = 0
  PROVE  at = Len(printed) /\ buffered = torn
<1>1. /\ printed \in Seq(Line) /\ Len(printed) \in Nat /\ at \in 0..Len(printed) /\ at \in Nat
      /\ buffered \in Nat /\ torn \in Nat
  BY DecoderAssumption DEF TypeOK
<1> DEFINE n == Len(printed)
           b == Bytes(printed, n)
           a == Bytes(printed, at)
<1>2. a + buffered = b + torn /\ a \in Nat /\ b \in Nat
  <2>1. a + buffered + 0 + 0 = b + torn
    BY DEF BytesInv
  <2>2. n \in 0..n
    BY <1>1
  <2>3. a \in Nat /\ b \in Nat
    BY <1>1, <2>2, BytesGrow
  <2> HIDE DEF a, b
  <2> QED
    BY <1>1, <2>1, <2>3
<1>3. ASSUME at < n PROVE FALSE
  <2>1. at \in 0..(n - 1) /\ n \in 0..n /\ at + 1 \in 1..n
    BY <1>1, <1>3
  <2>2. a + printed[at + 1].size <= b
    BY <1>1, <2>1, BytesGrow
  <2>3. buffered < printed[at + 1].size /\ printed[at + 1].size \in Nat
    BY <1>1, <1>3, <2>1, LineSize DEF BytesInv
  <2> HIDE DEF a, b
  <2> QED
    BY <1>1, <1>2, <2>2, <2>3
<1>4. at = n
  BY <1>1, <1>3
<1> HIDE DEF a, b
<1>5. a = b
  BY <1>4 DEF a, b
<1> QED
  BY <1>1, <1>2, <1>4, <1>5

LEMMA VerdictStep ==
  /\ TypeOK /\ PendingWithinLimits /\ FramesInARow /\ MeaningInv /\ BytesInv
  /\ RefusalIsDeserved /\ EofMeansAllRead /\ [Next]_vars
  => RefusalIsDeserved' /\ EofMeansAllRead'
<1> SUFFICES ASSUME TypeOK, PendingWithinLimits, FramesInARow, MeaningInv, BytesInv,
                    RefusalIsDeserved, EofMeansAllRead, [Next]_vars
             PROVE  RefusalIsDeserved' /\ EofMeansAllRead'
  OBVIOUS
<1>1. CASE UNCHANGED <<printed, torn, hungUp, handed, ready, at, verdict>>
  BY <1>1 DEF RefusalIsDeserved, EofMeansAllRead, Frontier, Frames
<1>2. CASE verdict' \in {"reading", "io"}
  BY <1>2 DEF RefusalIsDeserved, EofMeansAllRead
<1>3. ASSUME NEW line \in Line, WriteLine(line) PROVE RefusalIsDeserved' /\ EofMeansAllRead'
  BY <1>3, VerdictStays
<1>4. ASSUME NEW n \in 0..MaxFrame, HangUp(n) PROVE RefusalIsDeserved' /\ EofMeansAllRead'
  <2>1. /\ ~hungUp /\ torn = 0 /\ UNCHANGED <<printed, at, handed, ready, verdict>>
    BY <1>4 DEF HangUp, BytesInv
  <2>2. Frontier' = Frontier
    BY <2>1 DEF Frontier, Frames
  <2>3. verdict \in {"protocol", "tooLarge", "json"} => at # Len(printed)
    BY <2>1 DEF RefusalIsDeserved
  <2> QED
    BY <2>1, <2>2, <2>3 DEF RefusalIsDeserved, EofMeansAllRead
<1>5. CASE FeedLine
  <2>1. UNCHANGED <<printed, torn, hungUp, handed>> /\ verdict = "reading" /\ at < Len(printed)
    BY <1>5 DEF FeedLine, pipeVars, Covers
  <2>2. CASE RefusesIt
    <3>1. PICK why \in {"protocol", "tooLarge", "json"} :
            /\ Refuse(why)
            /\ why = "tooLarge" <=> printed[at + 1].size > MaxFrame
            /\ why = "json" => ~FutureFrame(printed[at + 1].text)
      BY <2>2 DEF RefusesIt
    <3>2. verdict' = why /\ at' = at /\ ready' = ready
      BY <3>1 DEF Refuse
    <3>3. Frontier' = Frontier /\ at' # Len(printed')
      BY <2>1, <3>2 DEF Frontier, Frames, TypeOK
    <3> QED
      BY <2>1, <2>2, <3>1, <3>2, <3>3 DEF RefusesIt, RefusalIsDeserved, EofMeansAllRead
  <2>3. CASE Take
    BY <1>2, <2>1, <2>3 DEF Take
  <2> QED
    BY <1>5, <2>2, <2>3, FeedLineMeaning DEF YieldsIt, Yields, GrowsIt
<1>6. CASE FeedRest
  <2>1. verdict' # "eof"
    BY <1>6 DEF FeedRest, Refuse
  <2>2. CASE verdict' = "reading"
    BY <1>2, <2>2
  <2>3. CASE verdict' # "reading"
    BY <1>6, <2>1, <2>3, RestRefused DEF EofMeansAllRead
  <2> QED
    BY <2>2, <2>3
<1>7. CASE ReadEof
  <2>1. /\ verdict = "reading" /\ left = 0 /\ unread = 0 /\ ready = <<>> /\ hungUp
        /\ verdict' = (IF buffered = 0 THEN "eof" ELSE "protocol")
        /\ UNCHANGED <<printed, torn, hungUp, at, ready>>
    BY <1>7 DEF ReadEof, Idle, pipeVars
  <2>2. at = Len(printed) /\ buffered = torn /\ buffered \in 0..(MaxFrame - 1) /\ MaxFrame \in Nat
    BY <2>1, EndIsTorn, DecoderAssumption DEF TypeOK
  <2>3. CASE buffered = 0
    BY <2>1, <2>2, <2>3 DEF RefusalIsDeserved, EofMeansAllRead
  <2>4. CASE buffered # 0
    <3>1. verdict' = "protocol" /\ at' = Len(printed') /\ torn' = torn
      BY <2>1, <2>2, <2>4
    <3>2. torn > 0 /\ ~(torn >= MaxFrame)
      BY <2>2, <2>4
    <3> QED
      BY <3>1, <3>2 DEF RefusalIsDeserved, EofMeansAllRead
  <2> QED
    BY <2>3, <2>4
<1>8. CASE HandOut \/ ReadFails \/ \E n \in 1..ReadSize : Read(n)
  BY <1>2, <1>8 DEF HandOut, ReadFails, Read, Idle
<1> QED
  BY <1>1, <1>3, <1>4, <1>5, <1>6, <1>7, <1>8 DEF Next, Reader, Feed, vars, pipeVars

StreamInv ==
  /\ TypeOK /\ PendingWithinLimits /\ FramesInARow
  /\ MeaningInv /\ BytesInv /\ RefusalIsDeserved /\ EofMeansAllRead

LEMMA InitStream == Init => StreamInv
<1> SUFFICES ASSUME Init PROVE StreamInv
  OBVIOUS
<1>1. TypeOK /\ PendingWithinLimits
  BY InitLimits
<1>2. FramesInARow /\ MeaningInv
  BY DEF Init, FramesInARow, MeaningInv, FramesAreWhole, OfItsChunk, Frames, Frontier
<1>3. BytesInv
  <2>1. Bytes(<<>>, 0) \in Nat /\ Len(<<>>) = 0
    <3>1. <<>> \in Seq(Line) /\ 0 \in 0..Len(<<>>)
      OBVIOUS
    <3> QED
      BY <3>1, BytesGrow
  <2> QED
    BY <2>1 DEF Init, BytesInv
<1> QED
  BY <1>1, <1>2, <1>3 DEF Init, StreamInv, RefusalIsDeserved, EofMeansAllRead

\* However the stream is cut into reads: a frame is decoded from a whole line or all
\* chunks of one sequence and from nothing else, a line is refused for what it says or
\* for being torn off, and a clean end means that everything was read and handed out
\* (LineDecoder, ChunkReassembler and next_frame together).
THEOREM VerdictFollowsStream == Spec => []VerdictIsTheStreams
<1>1. StreamInv /\ [Next]_vars => StreamInv'
  BY StepLimits, RowStep, MeaningStep, BytesKept, VerdictStep DEF StreamInv
<1>2. StreamInv => VerdictIsTheStreams
  BY DEF StreamInv, MeaningInv, VerdictIsTheStreams
<1> QED
  BY InitStream, <1>1, <1>2, PTL DEF Spec
====
