----------------------------- MODULE BoundedText -----------------------------
(***************************************************************************)
(* The text of a transcript row, bounded to a head and a tail.  A text is  *)
(* described by positions in the stream of bytes appended since it was     *)
(* last emptied: which byte is which never changes, so the stream itself   *)
(* is only its length and the character boundaries in it.  The head is the *)
(* bytes 0..head, the tail buffer the bytes from..len.                     *)
(***************************************************************************)
EXTENDS Integers, FiniteSets

CONSTANTS HeadCap,      \* HEAD_CAP
          TailCap,      \* TAIL_CAP
          MaxWidth      \* the longest character, in bytes

ASSUME TextAssumption ==
  /\ HeadCap \in Nat
  /\ MaxWidth \in Nat \ {0}
  /\ TailCap \in Nat /\ TailCap >= MaxWidth

\* Boundaries of n bytes: both ends, and no gap wider than a character.
IsCuts(cuts, n) ==
  /\ cuts \subseteq 0..n /\ 0 \in cuts /\ n \in cuts
  /\ \A i \in 0..n : \E c \in cuts : c >= i /\ c < i + MaxWidth

\* A piece of text on the wire: its length and its character boundaries.
IsChunk(s) == s.len \in Nat /\ IsCuts(s.cuts, s.len)

Text == [len : Nat, cuts : SUBSET Nat, head : Nat, from : Nat]
EmptyText == [len |-> 0, cuts |-> {0}, head |-> 0, from |-> 0]

\* floor_char_boundary and ceil_char_boundary.
Floor(cuts, i) == CHOOSE c \in cuts : c <= i /\ \A d \in cuts : d <= i => d <= c
Ceil(cuts, i)  == CHOOSE c \in cuts : c >= i /\ \A d \in cuts : d >= i => d >= c

-----------------------------------------------------------------------------
(* Reading.                                                                 *)

\* tail: where the rendered tail begins.
TailStart(t) == IF t.len - t.from <= TailCap THEN t.from ELSE Ceil(t.cuts, t.len - TailCap)

\* What PartialEq compares.
Observable(t) == [len |-> t.len, head |-> t.head, tail |-> TailStart(t)]

-----------------------------------------------------------------------------
(* Appending.                                                               *)

\* Slip: the head takes what fits even after bytes have gone to the tail.
FillsHeadAlways(t) == t.head < HeadCap
\* push_str fills the head while the tail is empty.
FillsHead(t) == t.from = t.len /\ t.head < HeadCap

\* append_tail: the bytes r..t.len of the stream t, already extended, go to a
\* tail buffer that began at t.from.
AppendTail(t, r) ==
  LET shown == Ceil(t.cuts, t.len - TailCap) IN
  IF t.len - r >= TailCap \/ t.len - t.from > 2 * TailCap
  THEN [t EXCEPT !.from = shown]
  ELSE t

PushStr(t, s) ==
  LET n     == t.len + s.len
      whole == [t EXCEPT !.len = n, !.cuts = t.cuts \cup {t.len + c : c \in s.cuts}]
      room  == HeadCap - t.head
      split == Floor(s.cuts, room)
  IN IF s.len = 0 THEN t
     ELSE IF FillsHead(t)
          THEN IF s.len <= room
               THEN [whole EXCEPT !.head = t.head + s.len, !.from = n]
               ELSE AppendTail([whole EXCEPT !.head = t.head + split,
                                             !.from = t.len + split], t.len + split)
          ELSE AppendTail(whole, t.len)

\* set_text and from_text; clear is EmptyText.
SetText(s) == PushStr(EmptyText, s)

-----------------------------------------------------------------------------
(* What a text promises, whatever was appended to it.                       *)

Bounded(t) ==
  /\ t.head <= HeadCap
  /\ t.len - TailStart(t) <= TailCap
  /\ t.len - t.from <= 2 * TailCap

\* The text a reader sees depends on the stream, not on how it was cut: the head
\* is all that fits, and the tail all that fits of the rest, both whole characters.
CutsDoNotShow(t) ==
  LET head == IF t.len <= HeadCap THEN t.len ELSE Floor(t.cuts, HeadCap)
      tail == IF t.len - TailCap <= head THEN head ELSE Ceil(t.cuts, t.len - TailCap)
  IN Observable(t) = [len |-> t.len, head |-> head, tail |-> tail]

TextOK(t) ==
  /\ IsCuts(t.cuts, t.len)
  /\ t.head \in t.cuts /\ t.from \in t.cuts /\ t.head <= t.from
=============================================================================
