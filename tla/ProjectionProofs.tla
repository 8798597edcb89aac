-------------------------- MODULE ProjectionProofs --------------------------
(***************************************************************************)
(* What is proved of a session's history and of the transcript it grows    *)
(* into, for any number of tools, contents, pages and bounds: the pages a  *)
(* connect fetches are of one history, every frame reaches the row it is   *)
(* about, and a row's text reads as if it had come in one piece.           *)
(***************************************************************************)
EXTENDS Projection, Connect, SequenceTheorems, WellFoundedInduction, TLAPS

-----------------------------------------------------------------------------
(* Boundaries of characters.                                                *)

\* A set of numbers that is not empty has a least element.
LEMMA LeastNumber ==
  ASSUME NEW S \in SUBSET Nat, S # {}
  PROVE  \E x \in S : \A y \in S : x <= y
<1>1. PICK x \in S : \A y \in S : ~(<<y, x>> \in OpToRel(<, Nat))
  BY NatLessThanWellFounded, WFMin
<1>2. ASSUME NEW y \in S, y < x PROVE FALSE
  <2>1. <<y, x>> \in Nat \X Nat /\ <<y, x>>[1] < <<y, x>>[2]
    BY <1>2
  <2> QED
    BY <2>1, <1>1 DEF OpToRel
<1>3. \A y \in S : x <= y
  BY <1>2
<1> QED
  BY <1>3

\* The last boundary that is not beyond i.
LEMMA FloorIs ==
  ASSUME NEW cuts, NEW n \in Nat, IsCuts(cuts, n), NEW i \in Nat
  PROVE  /\ Floor(cuts, i) \in cuts /\ Floor(cuts, i) <= i
         /\ \A d \in cuts : d <= i => d <= Floor(cuts, i)
<1> DEFINE below == {m \in Nat : m <= i /\ i - m \in cuts}
<1>1. cuts \subseteq Nat /\ 0 \in cuts
  BY DEF IsCuts
<1>2. i \in below
  BY <1>1
<1>3. PICK m \in below : \A y \in below : m <= y
  BY <1>2, LeastNumber
<1>4. i - m \in cuts /\ i - m <= i /\ m \in Nat
  BY <1>3
<1>5. ASSUME NEW d \in cuts, d <= i PROVE d <= i - m
  <2>1. d \in Nat /\ i - d \in Nat /\ i - d <= i /\ i - (i - d) = d
    BY <1>1, <1>5
  <2>2. i - d \in below
    BY <2>1
  <2>3. m \in Nat /\ m <= i - d
    BY <1>3, <2>2
  <2> QED
    BY <2>1, <2>3
<1> QED
  BY <1>4, <1>5 DEF Floor

\* The first boundary that is not before i; it is less than a character away.
LEMMA CeilIs ==
  ASSUME NEW cuts, NEW n \in Nat, IsCuts(cuts, n), NEW i \in 0..n
  PROVE  /\ Ceil(cuts, i) \in cuts /\ Ceil(cuts, i) >= i
         /\ Ceil(cuts, i) < i + MaxWidth
         /\ \A d \in cuts : d >= i => d >= Ceil(cuts, i)
<1> DEFINE above == {d \in cuts : d >= i}
<1>1. cuts \subseteq Nat /\ n \in cuts
  BY DEF IsCuts
<1>2. PICK near \in cuts : near >= i /\ near < i + MaxWidth
  BY DEF IsCuts
<1>3. above \in SUBSET Nat /\ near \in above
  BY <1>1, <1>2
<1>4. PICK c \in above : \A y \in above : c <= y
  BY <1>3, LeastNumber
<1>5. c \in cuts /\ c >= i /\ \A d \in cuts : d >= i => d >= c
  BY <1>1, <1>4
<1>6. /\ Ceil(cuts, i) \in cuts /\ Ceil(cuts, i) >= i
      /\ \A d \in cuts : d >= i => d >= Ceil(cuts, i)
  BY <1>5 DEF Ceil
<1>7. near >= Ceil(cuts, i)
  BY <1>2, <1>6
<1>8. near \in Nat /\ Ceil(cuts, i) \in Nat /\ MaxWidth \in Nat
  BY <1>1, <1>6, TextAssumption
<1>9. Ceil(cuts, i) < i + MaxWidth
  BY <1>2, <1>7, <1>8
<1> QED
  BY <1>6, <1>9

\* The boundaries of a text to which a piece has been appended.
Joined(t, s) == t.cuts \cup {t.len + c : c \in s.cuts}

LEMMA JoinedIsCuts ==
  ASSUME NEW t \in Text, TextOK(t), NEW s, IsChunk(s)
  PROVE  /\ IsCuts(Joined(t, s), t.len + s.len)
         /\ Joined(t, s) \subseteq Nat
         /\ t.len \in Joined(t, s) /\ t.len + s.len \in Joined(t, s)
         /\ \A d \in Joined(t, s) : d \in t.cuts \/ (d >= t.len /\ d - t.len \in s.cuts)
<1> DEFINE n == t.len + s.len
           cuts == Joined(t, s)
<1>1. /\ t.len \in Nat /\ t.cuts \subseteq 0..t.len /\ 0 \in t.cuts /\ t.len \in t.cuts
      /\ \A i \in 0..t.len : \E c \in t.cuts : c >= i /\ c < i + MaxWidth
  BY DEF Text, TextOK, IsCuts
<1>2. /\ s.len \in Nat /\ s.cuts \subseteq 0..s.len /\ 0 \in s.cuts /\ s.len \in s.cuts
      /\ \A i \in 0..s.len : \E c \in s.cuts : c >= i /\ c < i + MaxWidth
  BY DEF IsChunk, IsCuts
<1>3. ASSUME NEW d \in cuts
      PROVE  d \in 0..n /\ (d \in t.cuts \/ (d >= t.len /\ d - t.len \in s.cuts))
  <2>1. CASE d \in t.cuts
    BY <1>1, <1>2, <2>1
  <2>2. ASSUME NEW c \in s.cuts, d = t.len + c
        PROVE  d \in 0..n /\ d >= t.len /\ d - t.len \in s.cuts
    <3>1. c \in 0..s.len
      BY <1>2
    <3>2. d - t.len = c
      BY <2>2, <3>1, <1>1
    <3> QED
      BY <1>1, <1>2, <2>2, <3>1, <3>2
  <2> QED
    BY <1>3, <2>1, <2>2 DEF Joined
<1>4. 0 \in cuts /\ t.len \in cuts /\ n \in cuts
  BY <1>1, <1>2 DEF Joined
<1>5. ASSUME NEW i \in 0..n PROVE \E c \in cuts : c >= i /\ c < i + MaxWidth
  <2>1. CASE i <= t.len
    BY <1>1, <2>1 DEF Joined
  <2>2. CASE i > t.len
    <3>1. i - t.len \in 0..s.len
      BY <1>1, <1>2, <2>2
    <3>2. PICK c \in s.cuts : c >= i - t.len /\ c < i - t.len + MaxWidth
      BY <1>2, <3>1
    <3>3. c \in Nat /\ t.len + c \in cuts
      BY <1>2, <3>2 DEF Joined
    <3>4. t.len + c >= i /\ t.len + c < i + MaxWidth
      BY <1>1, <3>2, <3>3, TextAssumption
    <3> QED
      BY <3>3, <3>4
  <2> QED
    BY <1>1, <2>1, <2>2
<1> HIDE DEF cuts, n
<1>6. n \in Nat /\ cuts \subseteq 0..n
  BY <1>1, <1>2, <1>3 DEF n
<1>7. IsCuts(cuts, n)
  BY <1>4, <1>5, <1>6 DEF IsCuts
<1> QED
  BY <1>3, <1>4, <1>6, <1>7 DEF cuts, n
-----------------------------------------------------------------------------
(* Texts.                                                                   *)

\* The head holds all that fits, and the tail buffer begins behind the head or,
\* if bytes have been dropped, no later than the tail that is shown.
HeadFull(t) ==
  /\ t.head <= HeadCap
  /\ \A d \in t.cuts : d <= HeadCap => d <= t.head

TailKept(t) == \A d \in t.cuts : d >= t.head /\ d >= t.len - TailCap => d >= t.from

TextInv(t) ==
  /\ TextOK(t) /\ HeadFull(t) /\ TailKept(t)
  /\ t.from = t.len => t.head = t.len
  /\ t.len - t.from <= 2 * TailCap

LEMMA TextNumbers ==
  ASSUME NEW t \in Text, TextOK(t)
  PROVE  /\ t.len \in Nat /\ t.head \in Nat /\ t.from \in Nat
         /\ t.head \in t.cuts /\ t.from \in t.cuts /\ 0 \in t.cuts /\ t.len \in t.cuts
         /\ t.head <= t.from /\ t.from <= t.len
         /\ t.cuts \subseteq 0..t.len /\ t.cuts \subseteq Nat /\ IsCuts(t.cuts, t.len)
  BY DEF Text, TextOK, IsCuts

\* What the invariant says is what a reader may rely on.
LEMMA TextReads ==
  ASSUME NEW t \in Text, TextInv(t)
  PROVE  Bounded(t) /\ CutsDoNotShow(t)
<1> DEFINE len == t.len
           from == t.from
           head == t.head
           shown == Ceil(t.cuts, len - TailCap)
<1>1. /\ len \in Nat /\ head \in Nat /\ from \in Nat
      /\ head \in t.cuts /\ from \in t.cuts /\ len \in t.cuts
      /\ head <= from /\ from <= len /\ t.cuts \subseteq 0..len /\ t.cuts \subseteq Nat
      /\ IsCuts(t.cuts, len)
  BY TextNumbers DEF TextInv
<1>2. /\ HeadCap \in Nat /\ TailCap \in Nat /\ head <= HeadCap
      /\ \A d \in t.cuts : d <= HeadCap => d <= head
  BY TextAssumption DEF TextInv, HeadFull
<1>3. \A d \in t.cuts : d >= head /\ d >= len - TailCap => d >= from
  BY DEF TextInv, TailKept
<1>4. head = IF len <= HeadCap THEN len ELSE Floor(t.cuts, HeadCap)
  <2>1. CASE len <= HeadCap
    BY <1>1, <1>2, <2>1
  <2>2. CASE len > HeadCap
    <3>1. /\ Floor(t.cuts, HeadCap) \in t.cuts /\ Floor(t.cuts, HeadCap) <= HeadCap
          /\ \A d \in t.cuts : d <= HeadCap => d <= Floor(t.cuts, HeadCap)
      BY <1>1, <1>2, FloorIs
    <3>2. Floor(t.cuts, HeadCap) <= head /\ head <= Floor(t.cuts, HeadCap)
      BY <1>1, <1>2, <3>1
    <3> QED
      BY <1>1, <1>2, <2>2, <3>1, <3>2
  <2> QED
    BY <1>1, <1>2, <2>1, <2>2
<1>5. ASSUME len - TailCap > head
      PROVE  /\ shown \in t.cuts /\ shown \in Nat /\ shown >= len - TailCap
             /\ \A d \in t.cuts : d >= len - TailCap => d >= shown
  <2>1. len - TailCap \in 0..len
    BY <1>1, <1>2, <1>5
  <2> QED
    BY <1>1, <2>1, CeilIs
<1>6. ASSUME len - TailCap <= head PROVE from = head
  BY <1>1, <1>2, <1>3, <1>6
<1>7. TailStart(t) = IF len - TailCap <= head THEN head ELSE shown
  <2>1. CASE len - TailCap <= head
    BY <1>1, <1>2, <1>6, <2>1 DEF TailStart
  <2>2. CASE len - TailCap > head /\ len - from <= TailCap
    <3>1. from >= len - TailCap /\ shown >= head
      BY <1>1, <1>2, <1>5, <2>2
    <3>2. shown >= from /\ from >= shown
      BY <1>1, <1>3, <1>5, <2>2, <3>1
    <3>3. shown = from
      BY <1>1, <1>5, <2>2, <3>2
    <3> QED
      BY <1>1, <1>2, <2>2, <3>3 DEF TailStart
  <2>3. CASE len - TailCap > head /\ len - from > TailCap
    BY <1>1, <1>2, <2>3 DEF TailStart
  <2> QED
    BY <1>1, <1>2, <2>1, <2>2, <2>3
<1>8. len - TailStart(t) <= TailCap
  <2>1. CASE len - TailCap <= head
    BY <1>1, <1>2, <1>7, <2>1
  <2>2. CASE len - TailCap > head
    BY <1>1, <1>2, <1>5, <1>7, <2>2
  <2> QED
    BY <1>1, <1>2, <2>1, <2>2
<1>9. Bounded(t)
  BY <1>2, <1>8 DEF Bounded, TextInv
<1>10. CutsDoNotShow(t)
  BY <1>4, <1>7 DEF CutsDoNotShow, Observable
<1> QED
  BY <1>9, <1>10

\* append_tail on a text whose stream has been extended behind r.
LEMMA AppendTailReads ==
  ASSUME NEW t \in Text, TextOK(t), HeadFull(t), TailKept(t),
         NEW r \in Nat, t.from <= r, r < t.len
  PROVE  AppendTail(t, r) \in Text /\ TextInv(AppendTail(t, r))
<1> DEFINE shown == Ceil(t.cuts, t.len - TailCap)
           u == AppendTail(t, r)
           drops == t.len - r >= TailCap \/ t.len - t.from > 2 * TailCap
<1>1. /\ t.len \in Nat /\ t.head \in Nat /\ t.from \in Nat /\ t.head \in t.cuts
      /\ t.head <= t.from /\ t.from <= t.len /\ t.cuts \subseteq Nat /\ IsCuts(t.cuts, t.len)
  BY TextNumbers
<1>2. TailCap \in Nat /\ MaxWidth \in Nat /\ MaxWidth <= TailCap
  BY TextAssumption
<1>3. CASE ~drops
  <2>1. u = t
    BY <1>3 DEF AppendTail
  <2>2. t.len - t.from <= 2 * TailCap /\ t.from # t.len
    BY <1>1, <1>2, <1>3
  <2> QED
    BY <2>1, <2>2 DEF TextInv
<1>4. CASE drops
  <2>1. t.len - TailCap >= t.head /\ t.len - TailCap \in 0..t.len
    BY <1>1, <1>2, <1>4
  <2>2. /\ shown \in t.cuts /\ shown \in Nat /\ shown >= t.len - TailCap
        /\ shown < t.len - TailCap + MaxWidth
        /\ \A d \in t.cuts : d >= t.len - TailCap => d >= shown
    BY <1>1, <2>1, CeilIs
  <2>3. u = [t EXCEPT !.from = shown]
    BY <1>4 DEF AppendTail
  <2> HIDE DEF u, shown
  <2>4. /\ u \in Text /\ u.len = t.len /\ u.head = t.head /\ u.cuts = t.cuts /\ u.from = shown
    BY <2>2, <2>3 DEF Text
  <2>5. t.head <= shown /\ shown < t.len /\ t.len - shown <= 2 * TailCap
    BY <1>1, <1>2, <2>1, <2>2
  <2>6. TextOK(u)
    BY <1>1, <2>2, <2>4, <2>5 DEF TextOK
  <2>7. HeadFull(u) /\ TailKept(u)
    BY <2>2, <2>4 DEF HeadFull, TailKept
  <2>8. u.from # u.len /\ u.len - u.from <= 2 * TailCap
    BY <1>1, <2>2, <2>4, <2>5
  <2>9. TextInv(u)
    BY <2>6, <2>7, <2>8 DEF TextInv
  <2> QED
    BY <2>4, <2>9 DEF u
<1> QED
  BY <1>3, <1>4

LEMMA EmptyReads == EmptyText \in Text /\ TextInv(EmptyText)
<1>1. /\ HeadCap \in Nat /\ TailCap \in Nat /\ MaxWidth \in Nat /\ MaxWidth > 0
  BY TextAssumption
<1>2. /\ EmptyText.len = 0 /\ EmptyText.cuts = {0} /\ EmptyText.head = 0 /\ EmptyText.from = 0
      /\ EmptyText \in Text
  BY DEF EmptyText, Text
<1>3. IsCuts({0}, 0)
  <2>1. \A i \in 0..0 : 0 >= i /\ 0 < i + MaxWidth
    BY <1>1
  <2> QED
    BY <2>1 DEF IsCuts
<1> HIDE DEF EmptyText
<1>4. TextOK(EmptyText) /\ HeadFull(EmptyText) /\ TailKept(EmptyText)
  BY <1>1, <1>2, <1>3 DEF TextOK, HeadFull, TailKept
<1> QED
  BY <1>1, <1>2, <1>4 DEF TextInv

\* push_str keeps a text readable, whatever the piece.
LEMMA PushStrReads ==
  ASSUME NEW t \in Text, TextInv(t), NEW s, IsChunk(s)
  PROVE  PushStr(t, s) \in Text /\ TextInv(PushStr(t, s))
<1> DEFINE n == t.len + s.len
           cuts == Joined(t, s)
           whole == [t EXCEPT !.len = n, !.cuts = cuts]
           room == HeadCap - t.head
           split == Floor(s.cuts, room)
           filled == [whole EXCEPT !.head = t.head + s.len, !.from = n]
           cut == [whole EXCEPT !.head = t.head + split, !.from = t.len + split]
<1>1. /\ t.len \in Nat /\ t.head \in Nat /\ t.from \in Nat
      /\ t.head \in t.cuts /\ t.from \in t.cuts /\ t.len \in t.cuts
      /\ t.head <= t.from /\ t.from <= t.len /\ t.cuts \subseteq 0..t.len /\ t.cuts \subseteq Nat
  BY TextNumbers DEF TextInv
<1>2. s.len \in Nat /\ s.cuts \subseteq 0..s.len /\ s.cuts \subseteq Nat /\ IsCuts(s.cuts, s.len)
      /\ 0 \in s.cuts /\ s.len \in s.cuts
  BY DEF IsChunk, IsCuts
<1>3. /\ HeadCap \in Nat /\ TailCap \in Nat /\ t.head <= HeadCap
      /\ \A d \in t.cuts : d <= HeadCap => d <= t.head
  BY TextAssumption DEF TextInv, HeadFull
<1>4. /\ IsCuts(cuts, n) /\ cuts \subseteq Nat /\ t.cuts \subseteq cuts
      /\ t.len \in cuts /\ n \in cuts
      /\ \A d \in cuts : d \in t.cuts \/ (d >= t.len /\ d - t.len \in s.cuts)
      /\ \A c \in s.cuts : t.len + c \in cuts
  <2>1. t.cuts \subseteq cuts /\ \A c \in s.cuts : t.len + c \in cuts
    BY DEF Joined
  <2> QED
    BY <2>1, JoinedIsCuts DEF TextInv
<1>5. n \in Nat /\ whole \in Text /\ whole.len = n /\ whole.cuts = cuts
      /\ whole.head = t.head /\ whole.from = t.from
  BY <1>1, <1>2, <1>4 DEF Text
<1>6. CASE s.len = 0
  BY <1>6 DEF PushStr
<1>7. CASE s.len # 0 /\ FillsHead(t) /\ s.len <= room
  <2>1. PushStr(t, s) = filled
    BY <1>7 DEF PushStr, Joined
  <2>2. t.head = t.len
    BY <1>7 DEF FillsHead, TextInv
  <2>3. /\ filled \in Text /\ filled.len = n /\ filled.cuts = cuts
        /\ filled.head = n /\ filled.from = n
    BY <1>1, <1>2, <1>4, <1>5, <2>2 DEF Text
  <2>4. n <= HeadCap /\ \A d \in cuts : d <= n
    <3>1. n <= HeadCap
      BY <1>1, <1>2, <1>3, <1>7, <2>2
    <3>2. cuts \subseteq 0..n
      BY <1>4 DEF IsCuts
    <3> QED
      BY <1>5, <3>1, <3>2
  <2> HIDE DEF filled, cuts, n
  <2>5. TextOK(filled) /\ HeadFull(filled)
    BY <1>4, <1>5, <2>3, <2>4 DEF TextOK, HeadFull
  <2>6. TailKept(filled)
    BY <2>3 DEF TailKept
  <2>7. filled.len - filled.from <= 2 * TailCap
    BY <1>3, <1>5, <2>3
  <2> QED
    BY <2>1, <2>3, <2>5, <2>6, <2>7 DEF TextInv
<1>8. CASE s.len # 0 /\ FillsHead(t) /\ s.len > room
  <2>1. PushStr(t, s) = AppendTail(cut, t.len + split)
    <3>1. ~(s.len <= room)
      BY <1>1, <1>2, <1>3, <1>8
    <3> QED
      BY <1>8, <3>1 DEF PushStr, Joined
  <2>2. t.head = t.len /\ room \in Nat
    BY <1>1, <1>3, <1>8 DEF FillsHead, TextInv
  <2>3. /\ split \in s.cuts /\ split \in Nat /\ split <= room
        /\ \A d \in s.cuts : d <= room => d <= split
    BY <1>2, <2>2, FloorIs
  <2> HIDE DEF split
  <2>4. /\ cut \in Text /\ cut.len = n /\ cut.cuts = cuts
        /\ cut.head = t.len + split /\ cut.from = t.len + split
    BY <1>1, <1>4, <1>5, <2>2, <2>3 DEF Text
  <2>5. t.len + split \in cuts /\ t.len + split \in Nat /\ t.len + split <= HeadCap
        /\ t.len + split < n
    BY <1>1, <1>2, <1>3, <1>4, <1>8, <2>2, <2>3
  <2>6. ASSUME NEW d \in cuts, d <= HeadCap PROVE d <= t.len + split
    <3>1. CASE d \in t.cuts
      BY <1>1, <2>3, <3>1
    <3>2. CASE d >= t.len /\ d - t.len \in s.cuts
      <4>1. d \in Nat /\ d - t.len <= room
        BY <1>1, <1>3, <1>4, <2>2, <2>6
      <4>2. d - t.len <= split
        BY <2>3, <3>2, <4>1
      <4> QED
        BY <1>1, <2>3, <4>1, <4>2
    <3> QED
      BY <1>4, <3>1, <3>2
  <2> HIDE DEF cut, cuts, n, room
  <2>7. TextOK(cut) /\ HeadFull(cut) /\ TailKept(cut)
    BY <1>4, <2>4, <2>5, <2>6 DEF TextOK, HeadFull, TailKept
  <2> QED
    BY <2>1, <2>4, <2>5, <2>7, AppendTailReads
<1>9. CASE s.len # 0 /\ ~FillsHead(t)
  <2>1. PushStr(t, s) = AppendTail(whole, t.len)
    BY <1>9 DEF PushStr, Joined
  <2>2. t.len >= HeadCap
    <3>1. CASE t.len <= HeadCap
      <4>1. t.head = t.len /\ t.from = t.len
        BY <1>1, <1>3, <3>1
      <4> QED
        BY <1>1, <1>3, <1>9, <4>1 DEF FillsHead
    <3> QED
      BY <1>1, <1>3, <3>1
  <2>3. ASSUME NEW d \in cuts, d <= HeadCap PROVE d <= t.head
    <3>1. CASE d \in t.cuts
      BY <1>3, <2>3, <3>1
    <3>2. CASE d >= t.len
      <4>1. d = t.len
        BY <1>1, <1>3, <1>4, <2>2, <2>3, <3>2
      <4> QED
        BY <1>1, <1>3, <2>3, <4>1
    <3> QED
      BY <1>4, <3>1, <3>2
  <2>4. ASSUME NEW d \in cuts, d >= t.head, d >= n - TailCap PROVE d >= t.from
    <3>1. CASE d \in t.cuts
      <4>1. d \in Nat /\ d >= t.len - TailCap
        BY <1>1, <1>2, <1>3, <2>4, <3>1
      <4> QED
        BY <2>4, <3>1, <4>1 DEF TextInv, TailKept
    <3>2. CASE d >= t.len
      BY <1>1, <1>4, <3>2
    <3> QED
      BY <1>4, <3>1, <3>2
  <2>5. t.len < n
    BY <1>1, <1>2, <1>9
  <2> HIDE DEF whole, cuts, n
  <2>6. TextOK(whole) /\ HeadFull(whole) /\ TailKept(whole)
    BY <1>1, <1>3, <1>4, <1>5, <2>3, <2>4 DEF TextOK, HeadFull, TailKept
  <2> QED
    BY <1>1, <1>5, <2>1, <2>5, <2>6, AppendTailReads
<1>10. s.len <= room \/ s.len > room
  BY <1>1, <1>2, <1>3
<1> QED
  BY <1>6, <1>7, <1>8, <1>9, <1>10

\* set_text, on an emptied text.
LEMMA SetTextReads ==
  ASSUME NEW s, IsChunk(s)
  PROVE  SetText(s) \in Text /\ TextInv(SetText(s))
  BY EmptyReads, PushStrReads DEF SetText

-----------------------------------------------------------------------------
(* Rows.                                                                    *)

RowInv(r) == RowOK(r) /\ TextInv(r.text)

\* Rows R, an index T of tools into them and one C of the contents that stream.
Good(R, T, C) ==
  /\ R \in Seq(Row) /\ \A i \in DOMAIN R : RowInv(R[i])
  /\ IsIndex(T, ToolId) /\ IsIndex(C, ContentIndex)
  /\ \A t \in DOMAIN T : T[t] \in DOMAIN R /\ R[T[t]].kind = "tool" /\ R[T[t]].id = t
  /\ \A ci \in DOMAIN C : C[ci] \in DOMAIN R /\ R[C[ci]].kind \in {"text", "thinking"}
  /\ \A i \in DOMAIN R : R[i].streaming => \E ci \in DOMAIN C : C[ci] = i

\* What a step of the live stream may do to row r, which then is q; open: whether
\* its message is not over.
RowKept(r, q, open) ==
  /\ q.kind = r.kind /\ q.id = r.id
  /\ r.kind = "tool" /\ r.status # "running" => q.status # "running"
  /\ r # q => r.kind = "tool" \/ open

\* Rows R become Q, where those at the places O may change.
Kept(R, Q, O) ==
  /\ Len(Q) >= Len(R)
  /\ \A i \in DOMAIN R : RowKept(R[i], Q[i], i \in O)

\* The rows of the messages that are not over.
Open == {current[ci] : ci \in DOMAIN current}

LEMMA KeptSame == ASSUME NEW R \in Seq(Row), NEW O PROVE Kept(R, R, O)
  BY DEF Kept, RowKept

LEMMA KeptTwice ==
  ASSUME NEW R \in Seq(Row), NEW P \in Seq(Row), NEW Q \in Seq(Row), NEW O, NEW O2,
         Kept(R, P, O), Kept(P, Q, O2), \A i \in DOMAIN R : i \in O2 => i \in O
  PROVE  Kept(R, Q, O)
<1>1. Len(R) \in Nat /\ Len(P) \in Nat /\ Len(Q) \in Nat
      /\ DOMAIN R = 1..Len(R) /\ DOMAIN P = 1..Len(P)
  OBVIOUS
<1>2. Len(P) >= Len(R) /\ Len(Q) >= Len(P)
  BY DEF Kept
<1>3. Len(Q) >= Len(R) /\ DOMAIN R \subseteq DOMAIN P
  BY <1>1, <1>2
<1>4. ASSUME NEW i \in DOMAIN R PROVE RowKept(R[i], Q[i], i \in O)
  <2>1. RowKept(R[i], P[i], i \in O) /\ RowKept(P[i], Q[i], i \in O2)
    BY <1>3 DEF Kept
  <2>2. i \in O2 => i \in O
    OBVIOUS
  <2> QED
    BY <2>1, <2>2 DEF RowKept
<1> QED
  BY <1>3, <1>4 DEF Kept

\* A row without a stream at the end disturbs no index.
LEMMA RowAppended ==
  ASSUME NEW R, NEW T, NEW C, Good(R, T, C), NEW O,
         NEW r \in Row, RowInv(r), ~r.streaming
  PROVE  Good(Append(R, r), T, C) /\ Kept(R, Append(R, r), O)
<1> DEFINE Q == Append(R, r)
<1>1. R \in Seq(Row)
  BY DEF Good
<1>2. /\ Q \in Seq(Row) /\ Len(Q) = Len(R) + 1 /\ DOMAIN Q = DOMAIN R \cup {Len(R) + 1}
      /\ \A i \in DOMAIN R : Q[i] = R[i]
      /\ Q[Len(R) + 1] = r /\ Len(R) \in Nat
  <2>1. /\ Q \in Seq(Row) /\ Len(Q) = Len(R) + 1 /\ Len(R) \in Nat
        /\ DOMAIN Q = 1..Len(R)+1 /\ DOMAIN R = 1..Len(R)
        /\ \A i \in 1..Len(R) : Q[i] = R[i]
        /\ Q[Len(R) + 1] = r
    BY <1>1
  <2> QED
    BY <2>1
<1> HIDE DEF Q
<1>3. \A i \in DOMAIN Q : (i \in DOMAIN R /\ Q[i] = R[i]) \/ (i = Len(R) + 1 /\ Q[i] = r)
  <2> SUFFICES ASSUME NEW i \in DOMAIN Q
               PROVE  (i \in DOMAIN R /\ Q[i] = R[i]) \/ (i = Len(R) + 1 /\ Q[i] = r)
    OBVIOUS
  <2>1. CASE i \in DOMAIN R
    BY <1>2, <2>1
  <2>2. CASE i = Len(R) + 1
    BY <1>2, <2>2
  <2> QED
    BY <1>2, <2>1, <2>2
<1>4. \A i \in DOMAIN Q : RowInv(Q[i])
  BY <1>3 DEF Good
<1>5. \A t \in DOMAIN T : T[t] \in DOMAIN Q /\ Q[T[t]].kind = "tool" /\ Q[T[t]].id = t
  BY <1>2 DEF Good
<1>6. \A ci \in DOMAIN C : C[ci] \in DOMAIN Q /\ Q[C[ci]].kind \in {"text", "thinking"}
  BY <1>2 DEF Good
<1>7. \A i \in DOMAIN Q : Q[i].streaming => \E ci \in DOMAIN C : C[ci] = i
  BY <1>3 DEF Good
<1>8. Good(Q, T, C)
  BY <1>2, <1>4, <1>5, <1>6, <1>7 DEF Good
<1>9. Kept(R, Q, O)
  BY <1>2 DEF Kept, RowKept
<1> QED
  BY <1>8, <1>9 DEF Q

\* A row replaced by one of its kind about the same thing.
Changed(R, i, r) == [R EXCEPT ![i] = r]

LEMMA RowChanged ==
  ASSUME NEW R, NEW T, NEW C, Good(R, T, C),
         NEW i \in DOMAIN R, NEW r \in Row, RowInv(r),
         r.kind = R[i].kind, r.id = R[i].id, r.streaming => R[i].streaming
  PROVE  /\ Good(Changed(R, i, r), T, C)
         /\ Changed(R, i, r)[i] = r
         /\ \A j \in DOMAIN R : j # i => Changed(R, i, r)[j] = R[j]
         /\ DOMAIN Changed(R, i, r) = DOMAIN R /\ Len(Changed(R, i, r)) = Len(R)
<1> DEFINE Q == Changed(R, i, r)
<1>1. R \in Seq(Row)
  BY DEF Good
<1>2. /\ Q \in Seq(Row) /\ Len(Q) = Len(R) /\ DOMAIN Q = DOMAIN R
      /\ Q[i] = r /\ \A j \in DOMAIN R : j # i => Q[j] = R[j]
  BY <1>1 DEF Changed
<1> HIDE DEF Q
<1>3. \A j \in DOMAIN R : /\ RowInv(Q[j]) /\ Q[j].kind = R[j].kind /\ Q[j].id = R[j].id
                          /\ Q[j].streaming => R[j].streaming
  <2> TAKE j \in DOMAIN R
  <2>1. CASE j = i
    BY <1>2, <2>1
  <2>2. CASE j # i
    BY <1>2, <2>2 DEF Good
  <2> QED
    BY <2>1, <2>2
<1>4. \A j \in DOMAIN Q : RowInv(Q[j])
  BY <1>2, <1>3
<1>5. \A t \in DOMAIN T : T[t] \in DOMAIN Q /\ Q[T[t]].kind = "tool" /\ Q[T[t]].id = t
  BY <1>2, <1>3 DEF Good
<1>6. \A ci \in DOMAIN C : C[ci] \in DOMAIN Q /\ Q[C[ci]].kind \in {"text", "thinking"}
  BY <1>2, <1>3 DEF Good
<1>7. \A j \in DOMAIN Q : Q[j].streaming => \E ci \in DOMAIN C : C[ci] = j
  BY <1>2, <1>3 DEF Good
<1>8. Good(Q, T, C)
  BY <1>2, <1>4, <1>5, <1>6, <1>7 DEF Good
<1> QED
  BY <1>2, <1>8 DEF Q

LEMMA RowChangedKept ==
  ASSUME NEW R \in Seq(Row), NEW i \in DOMAIN R, NEW r \in Row, NEW O,
         RowKept(R[i], r, i \in O)
  PROVE  Kept(R, Changed(R, i, r), O)
<1> DEFINE Q == Changed(R, i, r)
<1>1. Len(Q) = Len(R) /\ Q[i] = r /\ \A j \in DOMAIN R : j # i => Q[j] = R[j]
  BY DEF Changed
<1> HIDE DEF Q
<1>2. ASSUME NEW j \in DOMAIN R PROVE RowKept(R[j], Q[j], j \in O)
  <2>1. CASE j = i
    BY <1>1, <2>1
  <2>2. CASE j # i
    BY <1>1, <2>2 DEF RowKept
  <2> QED
    BY <2>1, <2>2
<1>3. Len(Q) >= Len(R)
  BY <1>1
<1>4. Kept(R, Q, O)
  BY <1>2, <1>3 DEF Kept
<1> QED
  BY <1>4 DEF Q

\* The rows that frames make are rows.
LEMMA PlainRow ==
  ASSUME NEW kind \in RowKind, kind # "tool"
  PROVE  Plain(kind) \in Row /\ RowInv(Plain(kind)) /\ ~Plain(kind).streaming
<1>1. EmptyText \in Text /\ TextInv(EmptyText)
  BY EmptyReads
<1>2. Plain(kind) \in Row
  BY <1>1 DEF Plain, Row, ToolStatus
<1>3. RowInv(Plain(kind)) /\ ~Plain(kind).streaming
  BY <1>1 DEF Plain, RowInv, RowOK, TextInv
<1> QED
  BY <1>2, <1>3

LEMMA ErrorIsRow ==
  ASSUME NEW e \in Failure
  PROVE  /\ ErrorRow(e) \in Row /\ RowInv(ErrorRow(e)) /\ ~ErrorRow(e).streaming
         /\ ErrorRow(e).status = "none"
<1>1. Plain("error") \in Row /\ RowInv(Plain("error")) /\ ~Plain("error").streaming
  BY PlainRow DEF RowKind
<1>2. Plain("error").kind = "error" /\ Plain("error").status = "none"
  BY DEF Plain
<1> HIDE DEF Plain
<1>3. /\ ErrorRow(e) \in Row /\ ErrorRow(e).kind = "error" /\ ErrorRow(e).status = "none"
      /\ ErrorRow(e).text = Plain("error").text /\ ~ErrorRow(e).streaming
  BY <1>1, <1>2 DEF ErrorRow, Row
<1> QED
  BY <1>1, <1>3 DEF RowInv, RowOK

LEMMA TextRowIsRow ==
  ASSUME NEW kind \in RowKind, kind # "tool", NEW s \in Chunk
  PROVE  TextRow(kind, s) \in Row /\ RowInv(TextRow(kind, s)) /\ ~TextRow(kind, s).streaming
<1>1. Plain(kind) \in Row /\ RowInv(Plain(kind)) /\ ~Plain(kind).streaming
  BY PlainRow
<1>2. Plain(kind).kind = kind /\ Plain(kind).status = "none"
  BY DEF Plain
<1>3. SetText(s) \in Text /\ TextInv(SetText(s))
  BY SetTextReads, ProjectionAssumption
<1> HIDE DEF Plain
<1>4. /\ TextRow(kind, s) \in Row /\ TextRow(kind, s).kind = kind
      /\ TextRow(kind, s).status = "none" /\ TextRow(kind, s).text = SetText(s)
      /\ ~TextRow(kind, s).streaming
  BY <1>1, <1>2, <1>3 DEF TextRow, Row
<1> QED
  BY <1>3, <1>4 DEF RowInv, RowOK, TextInv

LEMMA RunningIsRow ==
  ASSUME NEW t \in ToolId
  PROVE  /\ NewRunning(t) \in Row /\ RowInv(NewRunning(t)) /\ ~NewRunning(t).streaming
         /\ NewRunning(t).kind = "tool" /\ NewRunning(t).id = t
         /\ NewRunning(t).status = "running"
<1>1. EmptyText \in Text /\ TextInv(EmptyText)
  BY EmptyReads
<1>2. /\ NewRunning(t).kind = "tool" /\ NewRunning(t).id = t /\ NewRunning(t).status = "running"
      /\ NewRunning(t).text = EmptyText /\ ~NewRunning(t).streaming /\ NewRunning(t) \in Row
  BY <1>1 DEF NewRunning, Plain, Row, RowKind, ToolStatus
<1> QED
  BY <1>1, <1>2 DEF RowInv, RowOK, TextInv

LEMMA OpenIsRow ==
  ASSUME NEW kind \in {"text", "thinking"}
  PROVE  /\ OpenRow(kind) \in Row /\ RowInv(OpenRow(kind)) /\ OpenRow(kind).kind = kind
<1>1. EmptyText \in Text /\ TextInv(EmptyText)
  BY EmptyReads
<1>2. /\ OpenRow(kind).kind = kind /\ OpenRow(kind).status = "none"
      /\ OpenRow(kind).text = EmptyText /\ OpenRow(kind) \in Row
  BY <1>1 DEF OpenRow, Plain, Row, RowKind, ToolStatus
<1> QED
  BY <1>1, <1>2 DEF RowInv, RowOK, TextInv

-----------------------------------------------------------------------------
(* Rows that a frame addresses.                                             *)

RowsInv == Good(transcript, toolIndex, current)

\* An index stays an index whatever it takes up.
LEMMA PutIsIndex ==
  \A f, names : IsIndex(f, names) =>
    \A x \in names, i \in Nat : IsIndex(Put(f, x, i), names)
<1> SUFFICES ASSUME NEW f, NEW names, IsIndex(f, names), NEW x \in names, NEW i \in Nat
             PROVE  IsIndex(Put(f, x, i), names)
  OBVIOUS
<1>1. DOMAIN f \subseteq names /\ f \in [DOMAIN f -> Nat]
  BY DEF IsIndex
<1>2. Put(f, x, i) \in [DOMAIN f \cup {x} -> Nat]
  BY <1>1 DEF Put
<1> QED
  BY <1>1, <1>2 DEF IsIndex

\* A tool's new row is addressed from then on, whatever addressed its id before.
LEMMA RunningAppended ==
  ASSUME NEW R, NEW T, NEW C, Good(R, T, C), NEW t \in ToolId, NEW O
  PROVE  /\ Good(Append(R, NewRunning(t)), Put(T, t, Len(R) + 1), C)
         /\ Kept(R, Append(R, NewRunning(t)), O)
<1> DEFINE Q == Append(R, NewRunning(t))
           U == Put(T, t, Len(R) + 1)
<1>1. Good(Q, T, C) /\ Kept(R, Q, O)
  BY RunningIsRow, RowAppended
<1>2. /\ Len(R) \in Nat /\ Len(R) + 1 \in DOMAIN Q /\ Q[Len(R) + 1] = NewRunning(t)
  <2>1. R \in Seq(Row) /\ NewRunning(t) \in Row
    BY RunningIsRow DEF Good
  <2> QED
    BY <2>1
<1>3. /\ IsIndex(U, ToolId) /\ DOMAIN U = DOMAIN T \cup {t}
      /\ U[t] = Len(R) + 1 /\ \A y \in DOMAIN T : y # t => U[y] = T[y]
  <2>1. IsIndex(T, ToolId) /\ Len(R) + 1 \in Nat
    BY <1>2 DEF Good
  <2>2. IsIndex(U, ToolId)
    BY <2>1, PutIsIndex
  <2> QED
    BY <2>2 DEF Put
<1> HIDE DEF Q, U
<1>4. \A y \in DOMAIN U : U[y] \in DOMAIN Q /\ Q[U[y]].kind = "tool" /\ Q[U[y]].id = y
  <2> TAKE y \in DOMAIN U
  <2>1. CASE y = t
    BY <1>2, <1>3, <2>1, RunningIsRow
  <2>2. CASE y # t
    BY <1>1, <1>3, <2>2 DEF Good
  <2> QED
    BY <2>1, <2>2
<1>5. Good(Q, U, C)
  BY <1>1, <1>3, <1>4 DEF Good
<1> QED
  BY <1>1, <1>5 DEF Q, U

\* synth_tool_row: the row a frame about tool t finds or makes.
LEMMA ToolRowFound ==
  ASSUME RowsInv, NEW t \in ToolId
  PROVE  /\ Good(WithTool(t), Put(toolIndex, t, ToolRow(t)), current)
         /\ Kept(transcript, WithTool(t), Open)
         /\ ToolRow(t) \in DOMAIN WithTool(t)
         /\ WithTool(t)[ToolRow(t)].kind = "tool" /\ WithTool(t)[ToolRow(t)].id = t
         /\ \A i \in DOMAIN transcript : i \in DOMAIN WithTool(t) /\ WithTool(t)[i] = transcript[i]
         /\ t \in DOMAIN Put(toolIndex, t, ToolRow(t)) /\ Put(toolIndex, t, ToolRow(t))[t] = ToolRow(t)
         /\ \A i \in DOMAIN transcript : ToolRow(t) = i => transcript[i].id = t
<1>1. /\ transcript \in Seq(Row) /\ IsIndex(toolIndex, ToolId) /\ Good(transcript, toolIndex, current)
  BY DEF RowsInv, Good
<1>2. CASE t \in DOMAIN toolIndex
  <2>1. WithTool(t) = transcript /\ ToolRow(t) = toolIndex[t]
    BY <1>2 DEF WithTool, ToolRow
  <2>2. /\ toolIndex[t] \in DOMAIN transcript /\ transcript[toolIndex[t]].kind = "tool"
        /\ transcript[toolIndex[t]].id = t
    BY <1>1, <1>2 DEF Good
  <2>3. Put(toolIndex, t, toolIndex[t]) = toolIndex
    BY <1>1, <1>2 DEF Put, IsIndex
  <2>4. Kept(transcript, transcript, Open)
    BY <1>1, KeptSame
  <2> QED
    BY <1>1, <1>2, <2>1, <2>2, <2>3, <2>4
<1>3. CASE t \notin DOMAIN toolIndex
  <2>1. WithTool(t) = Append(transcript, NewRunning(t)) /\ ToolRow(t) = Len(transcript) + 1
    BY <1>3 DEF WithTool, ToolRow
  <2>2. /\ Good(WithTool(t), Put(toolIndex, t, ToolRow(t)), current)
        /\ Kept(transcript, WithTool(t), Open)
    BY <1>1, <2>1, RunningAppended
  <2>3. ToolRow(t) \in Nat
    BY <1>1, <2>1
  <2>4. t \in DOMAIN Put(toolIndex, t, ToolRow(t)) /\ Put(toolIndex, t, ToolRow(t))[t] = ToolRow(t)
    BY DEF Put
  <2>5. /\ ToolRow(t) \in DOMAIN WithTool(t) /\ ToolRow(t) \notin DOMAIN transcript
        /\ WithTool(t)[ToolRow(t)] = NewRunning(t)
        /\ \A i \in DOMAIN transcript : i \in DOMAIN WithTool(t) /\ WithTool(t)[i] = transcript[i]
    <3>1. NewRunning(t) \in Row
      BY RunningIsRow
    <3> HIDE DEF NewRunning
    <3> QED
      BY <1>1, <2>1, <3>1
  <2> QED
    BY <2>2, <2>4, <2>5, RunningIsRow
<1> QED
  BY <1>2, <1>3

\* A frame about tool t replaces the row it finds or makes, and no other.
LEMMA ToolRowSet ==
  ASSUME RowsInv, NEW t \in ToolId, NEW r \in Row, RowInv(r), r.kind = "tool", r.id = t,
         ~r.streaming,
         WithTool(t)[ToolRow(t)].status # "running" => r.status # "running"
  PROVE  LET Q == Changed(WithTool(t), ToolRow(t), r) IN
         /\ Good(Q, Put(toolIndex, t, ToolRow(t)), current)
         /\ Kept(transcript, Q, Open)
         /\ \A i \in DOMAIN transcript : Q[i] # transcript[i] => transcript[i].id = t
<1> DEFINE W == WithTool(t)
           n == ToolRow(t)
           U == Put(toolIndex, t, ToolRow(t))
           Q == Changed(W, n, r)
<1>1. /\ Good(W, U, current) /\ Kept(transcript, W, Open) /\ n \in DOMAIN W
      /\ W[n].kind = "tool" /\ W[n].id = t
      /\ \A i \in DOMAIN transcript : i \in DOMAIN W /\ W[i] = transcript[i]
      /\ \A i \in DOMAIN transcript : n = i => transcript[i].id = t
  BY ToolRowFound
<1>2. W[n].status # "running" => r.status # "running"
  OBVIOUS
<1>3. transcript \in Seq(Row) /\ W \in Seq(Row)
  BY <1>1 DEF RowsInv, Good
<1> HIDE DEF W, n, U
<1>4. /\ Good(Q, U, current) /\ DOMAIN Q = DOMAIN W
      /\ \A j \in DOMAIN W : j # n => Q[j] = W[j]
  BY <1>1, RowChanged
<1>5. Kept(W, Q, Open)
  <2>1. RowKept(W[n], r, n \in Open)
    BY <1>1, <1>2 DEF RowKept
  <2> QED
    BY <1>1, <1>3, <2>1, RowChangedKept
<1>6. Kept(transcript, Q, Open)
  <2>1. Q \in Seq(Row)
    BY <1>4 DEF Good
  <2> HIDE DEF Q
  <2> QED
    BY <1>1, <1>3, <1>5, <2>1, KeptTwice
<1>7. ASSUME NEW i \in DOMAIN transcript, Q[i] # transcript[i] PROVE transcript[i].id = t
  <2>1. CASE n = i
    BY <1>1, <2>1
  <2>2. CASE n # i
    BY <1>1, <1>4, <1>7, <2>2
  <2> QED
    BY <2>1, <2>2
<1> QED
  BY <1>4, <1>6, <1>7 DEF W, n, U

\* A row of a tool with a new text and status.
WithOutput(r, text, status) == [r EXCEPT !.text = text, !.status = status]

LEMMA OutputIsRow ==
  ASSUME NEW r \in Row, RowInv(r), r.kind = "tool", NEW text \in Text, TextInv(text),
         NEW status \in ToolStatus
  PROVE  LET q == WithOutput(r, text, status) IN
         /\ q \in Row /\ RowInv(q) /\ q.kind = "tool" /\ q.id = r.id /\ ~q.streaming
         /\ q.status = status
<1> DEFINE q == WithOutput(r, text, status)
<1>1. /\ q \in Row /\ q.kind = "tool" /\ q.id = r.id /\ q.streaming = r.streaming
      /\ q.status = status /\ q.text = text
  BY DEF WithOutput, Row
<1>2. ~r.streaming
  BY DEF RowInv, RowOK
<1> HIDE DEF q
<1>3. RowInv(q)
  BY <1>1, <1>2 DEF RowInv, RowOK, TextInv, ToolStatus
<1> QED
  BY <1>1, <1>2, <1>3 DEF q

\* apply_late_tool_result.
LEMMA LateResultKeeps ==
  ASSUME RowsInv, NEW m \in Result
  PROVE  /\ Good(LateResult(m), Put(toolIndex, m.tool, ToolRow(m.tool)), current)
         /\ Kept(transcript, LateResult(m), Open)
         /\ \A i \in DOMAIN transcript : LateResult(m)[i] # transcript[i] => transcript[i].id = m.tool
<1> DEFINE t == m.tool
           W == WithTool(t)
           n == ToolRow(t)
           q == WithOutput(W[n], SetText(m.text), m.status)
<1>1. t \in ToolId /\ m.text \in Chunk /\ m.status \in {"ok", "err"}
  BY ProjectionAssumption
<1> HIDE DEF t
<1>2. /\ Good(W, Put(toolIndex, t, n), current) /\ Kept(transcript, W, Open)
      /\ n \in DOMAIN W /\ W[n].kind = "tool" /\ W[n].id = t
      /\ \A i \in DOMAIN transcript : i \in DOMAIN W /\ W[i] = transcript[i]
  BY <1>1, ToolRowFound
<1>3. W[n] \in Row /\ RowInv(W[n])
  BY <1>2 DEF Good
<1>4. CASE W[n].status = "running"
  <2>1. LateResult(m) = Changed(W, n, q)
    BY <1>4 DEF LateResult, Changed, WithOutput, t
  <2>2. /\ q \in Row /\ RowInv(q) /\ q.kind = "tool" /\ q.id = t /\ ~q.streaming
        /\ q.status # "running"
    <3>1. SetText(m.text) \in Text /\ TextInv(SetText(m.text))
      BY <1>1, SetTextReads, ProjectionAssumption
    <3> HIDE DEF W, n
    <3> QED
      BY <1>1, <1>2, <1>3, <3>1, OutputIsRow DEF ToolStatus
  <2> HIDE DEF q
  <2>3. /\ Good(Changed(W, n, q), Put(toolIndex, t, n), current)
        /\ Kept(transcript, Changed(W, n, q), Open)
        /\ \A i \in DOMAIN transcript : Changed(W, n, q)[i] # transcript[i] => transcript[i].id = t
    BY <1>1, <2>2, ToolRowSet
  <2> QED
    BY <2>1, <2>3 DEF t
<1>5. CASE W[n].status # "running"
  <2>1. LateResult(m) = W
    BY <1>5 DEF LateResult, t
  <2> QED
    BY <1>2, <2>1 DEF t
<1> QED
  BY <1>4, <1>5

\* settle_orphaned_running_tools.
LEMMA SettleKeeps ==
  ASSUME NEW R, NEW T, NEW C, Good(R, T, C), NEW O
  PROVE  /\ Good(Settle(R), T, C) /\ Kept(R, Settle(R), O)
         /\ \A i \in DOMAIN R : /\ Settle(R)[i].status # "running"
                                /\ R[i].status # "running" => Settle(R)[i] = R[i]
<1> DEFINE Q == Settle(R)
           q(i) == IF R[i].status = "running" THEN [R[i] EXCEPT !.status = "err"] ELSE R[i]
<1>1. R \in Seq(Row) /\ \A i \in DOMAIN R : R[i] \in Row /\ RowInv(R[i])
  BY DEF Good
<1>2. ASSUME NEW i \in DOMAIN R
      PROVE  /\ q(i) \in Row /\ RowInv(q(i)) /\ q(i).kind = R[i].kind /\ q(i).id = R[i].id
             /\ q(i).streaming = R[i].streaming /\ q(i).status # "running"
             /\ R[i].status # "running" => q(i) = R[i]
             /\ R[i].status = "running" => R[i].kind = "tool"
  <2>1. CASE R[i].status = "running"
    <3> DEFINE p == [R[i] EXCEPT !.status = "err"]
    <3>1. /\ p \in Row /\ p.kind = R[i].kind /\ p.id = R[i].id /\ p.streaming = R[i].streaming
          /\ p.status = "err" /\ p.text = R[i].text
      BY <1>1 DEF Row, ToolStatus
    <3>2. R[i].kind = "tool" /\ RowInv(R[i])
      BY <1>1, <2>1 DEF RowInv, RowOK
    <3> HIDE DEF p
    <3>3. RowInv(p)
      BY <3>1, <3>2 DEF RowInv, RowOK
    <3> QED
      BY <2>1, <3>1, <3>2, <3>3 DEF p
  <2>2. CASE R[i].status # "running"
    BY <1>1, <2>2
  <2> QED
    BY <2>1, <2>2
<1>3. Q = [i \in DOMAIN R |-> q(i)]
  BY DEF Settle
<1> HIDE DEF q
<1>4. Q \in Seq(Row) /\ DOMAIN Q = DOMAIN R /\ Len(Q) = Len(R) /\ \A i \in DOMAIN R : Q[i] = q(i)
  <2>1. DOMAIN R = 1..Len(R) /\ Len(R) \in Nat
    BY <1>1
  <2>2. Q \in [1..Len(R) -> Row]
    BY <1>2, <1>3, <2>1
  <2>3. Q \in Seq(Row) /\ DOMAIN Q = 1..Len(R)
    BY <2>1, <2>2
  <2>4. Len(Q) = Len(R)
    BY <2>1, <2>3
  <2> QED
    BY <1>3, <2>1, <2>3, <2>4
<1> HIDE DEF Q
<1>5. \A i \in DOMAIN Q : RowInv(Q[i])
  BY <1>2, <1>4
<1>6. \A t \in DOMAIN T : T[t] \in DOMAIN Q /\ Q[T[t]].kind = "tool" /\ Q[T[t]].id = t
  BY <1>2, <1>4 DEF Good
<1>7. \A ci \in DOMAIN C : C[ci] \in DOMAIN Q /\ Q[C[ci]].kind \in {"text", "thinking"}
  BY <1>2, <1>4 DEF Good
<1>8. \A i \in DOMAIN Q : Q[i].streaming => \E ci \in DOMAIN C : C[ci] = i
  BY <1>2, <1>4 DEF Good
<1>9. Good(Q, T, C)
  BY <1>4, <1>5, <1>6, <1>7, <1>8 DEF Good
<1>10. \A i \in DOMAIN R : RowKept(R[i], Q[i], i \in O)
  BY <1>2, <1>4 DEF RowKept
<1>11. Len(Q) >= Len(R)
  BY <1>1, <1>4
<1>12. Kept(R, Q, O)
  BY <1>10, <1>11 DEF Kept
<1> QED
  BY <1>2, <1>4, <1>9, <1>12 DEF Q

\* close_current_message: every row that streamed is closed.
LEMMA ClosedKeeps ==
  ASSUME RowsInv
  PROVE  /\ Good(ClosedRows(transcript), toolIndex, NoIndex)
         /\ Kept(transcript, ClosedRows(transcript), Open)
         /\ \A i \in DOMAIN transcript : transcript[i].kind = "tool" =>
              ClosedRows(transcript)[i] = transcript[i]
<1> DEFINE R == transcript
           Q == ClosedRows(R)
           q(i) == IF i \in Open THEN [R[i] EXCEPT !.streaming = FALSE] ELSE R[i]
<1>1. /\ R \in Seq(Row) /\ \A i \in DOMAIN R : R[i] \in Row /\ RowInv(R[i])
      /\ IsIndex(toolIndex, ToolId)
      /\ \A t \in DOMAIN toolIndex : /\ toolIndex[t] \in DOMAIN R
                                     /\ R[toolIndex[t]].kind = "tool" /\ R[toolIndex[t]].id = t
      /\ \A i \in Open : i \in DOMAIN R /\ R[i].kind \in {"text", "thinking"}
      /\ \A i \in DOMAIN R : R[i].streaming => i \in Open
  BY DEF RowsInv, Good, Open
<1>2. ASSUME NEW i \in DOMAIN R
      PROVE  /\ q(i) \in Row /\ RowInv(q(i)) /\ q(i).kind = R[i].kind /\ q(i).id = R[i].id
             /\ ~q(i).streaming /\ q(i).status = R[i].status
             /\ i \notin Open => q(i) = R[i]
  <2>1. CASE i \in Open
    <3> DEFINE p == [R[i] EXCEPT !.streaming = FALSE]
    <3>1. /\ p \in Row /\ p.kind = R[i].kind /\ p.id = R[i].id /\ ~p.streaming
          /\ p.status = R[i].status /\ p.text = R[i].text
      <4>1. R[i] \in Row
        BY <1>1
      <4> QED
        BY <4>1 DEF Row
    <3> HIDE DEF p
    <3>2. RowInv(p)
      BY <1>1, <3>1 DEF RowInv, RowOK
    <3> QED
      BY <2>1, <3>1, <3>2 DEF p
  <2>2. CASE i \notin Open
    BY <1>1, <2>2
  <2> QED
    BY <2>1, <2>2
<1>3. Q = [i \in DOMAIN R |-> q(i)]
  BY DEF ClosedRows, Open
<1> HIDE DEF q
<1>4. Q \in Seq(Row) /\ DOMAIN Q = DOMAIN R /\ Len(Q) = Len(R) /\ \A i \in DOMAIN R : Q[i] = q(i)
  <2>1. DOMAIN R = 1..Len(R) /\ Len(R) \in Nat
    BY <1>1
  <2>2. Q \in [1..Len(R) -> Row]
    BY <1>2, <1>3, <2>1
  <2>3. Q \in Seq(Row) /\ DOMAIN Q = 1..Len(R)
    BY <2>1, <2>2
  <2>4. Len(Q) = Len(R)
    BY <2>1, <2>3
  <2> QED
    BY <1>3, <2>1, <2>3, <2>4
<1> HIDE DEF Q
<1>5. \A i \in DOMAIN Q : RowInv(Q[i]) /\ ~Q[i].streaming
  BY <1>2, <1>4
<1>6. \A t \in DOMAIN toolIndex : /\ toolIndex[t] \in DOMAIN Q
                                  /\ Q[toolIndex[t]].kind = "tool" /\ Q[toolIndex[t]].id = t
  BY <1>1, <1>2, <1>4
<1>7. IsIndex(NoIndex, ContentIndex) /\ DOMAIN NoIndex = {}
  BY DEF IsIndex, NoIndex
<1>8. Good(Q, toolIndex, NoIndex)
  BY <1>1, <1>4, <1>5, <1>6, <1>7 DEF Good
<1>9. \A i \in DOMAIN R : RowKept(R[i], Q[i], i \in Open)
  BY <1>2, <1>4 DEF RowKept
<1>10. Len(Q) >= Len(R)
  BY <1>1, <1>4
<1>11. Kept(R, Q, Open)
  BY <1>9, <1>10 DEF Kept
<1>12. \A i \in DOMAIN R : R[i].kind = "tool" => Q[i] = R[i]
  BY <1>1, <1>2, <1>4
<1> QED
  BY <1>8, <1>11, <1>12 DEF Q

\* ensure_text_row and ensure_thinking_row: the row a content finds or opens.
LEMMA ContentRowFound ==
  ASSUME RowsInv, NEW kind \in {"text", "thinking"}, NEW ci \in ContentIndex
  PROVE  LET W == EnsureRow(kind, ci)
             n == ContentRow(ci) IN
         /\ Good(W, toolIndex, Put(current, ci, n)) /\ Kept(transcript, W, Open)
         /\ n \in DOMAIN W /\ W[n].kind \in {"text", "thinking"}
         /\ n \in DOMAIN transcript => n \in Open
<1> DEFINE W == EnsureRow(kind, ci)
           n == ContentRow(ci)
           D == Put(current, ci, n)
           r == OpenRow(kind)
<1>1. /\ transcript \in Seq(Row) /\ IsIndex(current, ContentIndex)
      /\ Good(transcript, toolIndex, current)
  BY DEF RowsInv, Good
<1>2. CASE ci \in DOMAIN current
  <2>1. W = transcript /\ n = current[ci]
    BY <1>2 DEF EnsureRow, ContentRow
  <2>2. D = current
    BY <1>1, <1>2, <2>1 DEF Put, IsIndex
  <2>3. /\ current[ci] \in DOMAIN transcript
        /\ transcript[current[ci]].kind \in {"text", "thinking"}
    BY <1>1, <1>2 DEF Good
  <2>4. Kept(transcript, transcript, Open) /\ current[ci] \in Open
    BY <1>1, <1>2, KeptSame DEF Open
  <2> QED
    BY <1>1, <2>1, <2>2, <2>3, <2>4
<1>3. CASE ci \notin DOMAIN current
  <2>1. W = Append(transcript, r) /\ n = Len(transcript) + 1
    BY <1>3 DEF EnsureRow, ContentRow
  <2>2. r \in Row /\ RowInv(r) /\ r.kind = kind
    BY OpenIsRow
  <2> HIDE DEF r
  <2>3. /\ W \in Seq(Row) /\ Len(W) = Len(transcript) + 1 /\ Len(transcript) \in Nat
        /\ DOMAIN W = DOMAIN transcript \cup {n} /\ n \notin DOMAIN transcript
        /\ W[n] = r /\ \A i \in DOMAIN transcript : W[i] = transcript[i]
    BY <1>1, <2>1, <2>2
  <2>4. n \in Nat
    BY <2>1, <2>3
  <2>5. IsIndex(D, ContentIndex)
    BY <1>1, <2>4, PutIsIndex
  <2>6. DOMAIN D = DOMAIN current \cup {ci} /\ D[ci] = n
        /\ \A y \in DOMAIN current : D[y] = current[y]
    BY <1>3 DEF Put
  <2> HIDE DEF W, D, n
  <2>7. \A i \in DOMAIN W : RowInv(W[i])
    BY <1>1, <2>2, <2>3 DEF Good
  <2>8. \A t \in DOMAIN toolIndex : /\ toolIndex[t] \in DOMAIN W
                                    /\ W[toolIndex[t]].kind = "tool" /\ W[toolIndex[t]].id = t
    BY <1>1, <2>3 DEF Good
  <2>9. \A y \in DOMAIN D : D[y] \in DOMAIN W /\ W[D[y]].kind \in {"text", "thinking"}
    <3> TAKE y \in DOMAIN D
    <3>1. CASE y = ci
      BY <2>2, <2>3, <2>6, <3>1
    <3>2. CASE y \in DOMAIN current
      BY <1>1, <2>3, <2>6, <3>2 DEF Good
    <3> QED
      BY <2>6, <3>1, <3>2
  <2>10. \A i \in DOMAIN W : W[i].streaming => \E y \in DOMAIN D : D[y] = i
    <3> SUFFICES ASSUME NEW i \in DOMAIN W, W[i].streaming PROVE \E y \in DOMAIN D : D[y] = i
      OBVIOUS
    <3>1. CASE i = n
      BY <2>6, <3>1
    <3>2. CASE i \in DOMAIN transcript
      <4>1. PICK y \in DOMAIN current : current[y] = i
        BY <1>1, <2>3, <3>2 DEF Good
      <4> QED
        BY <2>6, <4>1
    <3> QED
      BY <2>3, <3>1, <3>2
  <2>11. Good(W, toolIndex, D)
    BY <1>1, <2>3, <2>5, <2>7, <2>8, <2>9, <2>10 DEF Good
  <2>12. Kept(transcript, W, Open)
    BY <2>3 DEF Kept, RowKept
  <2> QED
    BY <2>2, <2>3, <2>11, <2>12 DEF W, D, n
<1> QED
  BY <1>2, <1>3

\* A delta or an end of a content replaces the row it finds or opens.
LEMMA ContentRowSet ==
  ASSUME RowsInv, NEW kind \in {"text", "thinking"}, NEW ci \in ContentIndex,
         NEW r \in Row, RowInv(r), r.kind = EnsureRow(kind, ci)[ContentRow(ci)].kind,
         r.id = EnsureRow(kind, ci)[ContentRow(ci)].id,
         r.streaming => EnsureRow(kind, ci)[ContentRow(ci)].streaming
  PROVE  LET Q == Changed(EnsureRow(kind, ci), ContentRow(ci), r) IN
         /\ Good(Q, toolIndex, Put(current, ci, ContentRow(ci)))
         /\ Kept(transcript, Q, Open)
<1> DEFINE W == EnsureRow(kind, ci)
           n == ContentRow(ci)
           D == Put(current, ci, ContentRow(ci))
           Q == Changed(W, n, r)
<1>1. /\ Good(W, toolIndex, D) /\ Kept(transcript, W, Open) /\ n \in DOMAIN W
      /\ W[n].kind \in {"text", "thinking"}
      /\ n \in DOMAIN transcript => n \in Open
  BY ContentRowFound
<1>2. transcript \in Seq(Row) /\ W \in Seq(Row)
  BY <1>1 DEF RowsInv, Good
<1>3. r.kind = W[n].kind /\ r.id = W[n].id /\ (r.streaming => W[n].streaming)
  OBVIOUS
<1> HIDE DEF W, n, D
<1>4. Good(Q, toolIndex, D)
  BY <1>1, <1>3, RowChanged
<1>5. Kept(W, Q, Open \cup {n})
  <2>1. RowKept(W[n], r, n \in Open \cup {n})
    BY <1>1, <1>3 DEF RowKept
  <2> QED
    BY <1>1, <1>2, <2>1, RowChangedKept
<1>6. Kept(transcript, Q, Open)
  <2>1. Q \in Seq(Row)
    BY <1>4 DEF Good
  <2>2. \A i \in DOMAIN transcript : i \in Open \cup {n} => i \in Open
    BY <1>1
  <2> HIDE DEF Q
  <2> QED
    BY <1>1, <1>2, <1>5, <2>1, <2>2, KeptTwice
<1> QED
  BY <1>4, <1>6 DEF W, n, D

\* A row that is no tool's with a new text, streaming no more than it did.
WithText(r, text, open) == [r EXCEPT !.text = text, !.streaming = open]

LEMMA TextIsRow ==
  ASSUME NEW r \in Row, RowInv(r), NEW text \in Text, TextInv(text), NEW open \in BOOLEAN,
         open => r.streaming
  PROVE  LET q == WithText(r, text, open) IN
         /\ q \in Row /\ RowInv(q) /\ q.kind = r.kind /\ q.id = r.id
         /\ q.streaming = open /\ q.status = r.status
<1> DEFINE q == WithText(r, text, open)
<1>1. /\ q \in Row /\ q.kind = r.kind /\ q.id = r.id /\ q.streaming = open
      /\ q.status = r.status /\ q.text = text
  BY DEF WithText, Row
<1> HIDE DEF q
<1>2. RowInv(q)
  BY <1>1 DEF RowInv, RowOK, TextInv
<1> QED
  BY <1>1, <1>2 DEF q

-----------------------------------------------------------------------------
(* Steps.                                                                   *)

\* What a step of the live stream does to the rows.
RowStep == RowsInv' /\ Kept(transcript, transcript', Open)

LEMMA RowsLeft ==
  ASSUME RowsInv, UNCHANGED rowVars
  PROVE  RowStep
<1>1. transcript' = transcript /\ toolIndex' = toolIndex /\ current' = current
  BY DEF rowVars
<1>2. RowsInv' /\ transcript \in Seq(Row)
  BY <1>1 DEF RowsInv, Good
<1> QED
  BY <1>1, <1>2, KeptSame DEF RowStep

LEMMA RowPushed ==
  ASSUME RowsInv, NEW r \in Row, RowInv(r), ~r.streaming,
         transcript' = Append(transcript, r), UNCHANGED <<toolIndex, current>>
  PROVE  RowStep
<1>1. Good(Append(transcript, r), toolIndex, current) /\ Kept(transcript, Append(transcript, r), Open)
  BY RowAppended DEF RowsInv
<1> QED
  BY <1>1 DEF RowStep, RowsInv

LEMMA PlainPushed ==
  ASSUME RowsInv, NEW kind \in RowKind, kind # "tool",
         transcript' = Append(transcript, Plain(kind)), UNCHANGED <<toolIndex, current>>
  PROVE  RowStep
  BY PlainRow, RowPushed

\* tool_start, tool_update, tool_end and turn_end: the row of their tool, and no other.
LEMMA ToolFrameKeeps ==
  ASSUME RowsInv, NEW t \in ToolId, ToolFrame(t)
  PROVE  /\ RowStep
         /\ \A i \in DOMAIN transcript : transcript'[i] # transcript[i] => transcript[i].id = t
<1> DEFINE W == WithTool(t)
           n == ToolRow(t)
           U == Put(toolIndex, t, ToolRow(t))
<1>1. /\ Good(W, U, current) /\ Kept(transcript, W, Open) /\ n \in DOMAIN W
      /\ W[n].kind = "tool" /\ W[n].id = t
      /\ \A i \in DOMAIN transcript : i \in DOMAIN W /\ W[i] = transcript[i]
  BY ToolRowFound
<1>2. W[n] \in Row /\ RowInv(W[n]) /\ W[n].status \in ToolStatus
  <2>1. W[n] \in Row /\ RowInv(W[n])
    BY <1>1 DEF Good
  <2> HIDE DEF W, n
  <2>2. W[n].status \in ToolStatus
    BY <1>1, <2>1 DEF Row, RowInv, RowOK
  <2> QED
    BY <2>1, <2>2
<1>3. ASSUME NEW r \in Row, RowInv(r), r.kind = "tool", r.id = t, ~r.streaming,
             W[n].status # "running" => r.status # "running",
             transcript' = Changed(W, n, r), toolIndex' = U, current' = current
      PROVE  /\ RowStep
             /\ \A i \in DOMAIN transcript : transcript'[i] # transcript[i] => transcript[i].id = t
  <2>1. /\ Good(Changed(W, n, r), U, current)
        /\ Kept(transcript, Changed(W, n, r), Open)
        /\ \A i \in DOMAIN transcript : Changed(W, n, r)[i] # transcript[i] => transcript[i].id = t
    BY <1>3, ToolRowSet
  <2> HIDE DEF W, n, U
  <2> QED
    BY <1>3, <2>1 DEF RowStep, RowsInv
<1>4. CASE ToolStart(t)
  BY <1>1, <1>4 DEF ToolStart, RowStep, RowsInv
<1>5. ASSUME NEW s \in Chunk, NEW status \in ToolStatus,
             W[n].status # "running" => status # "running",
             transcript' = Changed(W, n, WithOutput(W[n], SetText(s), status)),
             toolIndex' = U, current' = current
      PROVE  /\ RowStep
             /\ \A i \in DOMAIN transcript : transcript'[i] # transcript[i] => transcript[i].id = t
  <2> DEFINE r == WithOutput(W[n], SetText(s), status)
  <2>1. SetText(s) \in Text /\ TextInv(SetText(s))
    BY SetTextReads, ProjectionAssumption
  <2>2. /\ r \in Row /\ RowInv(r) /\ r.kind = "tool" /\ r.id = t /\ ~r.streaming
        /\ r.status = status
    <3> HIDE DEF W, n
    <3> QED
      BY <1>1, <1>2, <2>1, OutputIsRow
  <2> HIDE DEF r
  <2>3. transcript' = Changed(W, n, r)
    BY <1>5 DEF r
  <2> QED
    BY <1>3, <1>5, <2>2, <2>3
<1>6. ASSUME NEW s \in Chunk, ToolUpdate(t, s)
      PROVE  /\ RowStep
             /\ \A i \in DOMAIN transcript : transcript'[i] # transcript[i] => transcript[i].id = t
  <2>1. WithOutput(W[n], SetText(s), W[n].status) = [W[n] EXCEPT !.text = SetText(s)]
    <3> HIDE DEF W, n
    <3> QED
      BY <1>2 DEF WithOutput, Row
  <2>2. transcript' = Changed(W, n, [W[n] EXCEPT !.text = SetText(s)])
    BY <1>6 DEF ToolUpdate, Changed
  <2>3. toolIndex' = U /\ current' = current
    BY <1>6 DEF ToolUpdate
  <2> QED
    BY <1>2, <1>5, <2>1, <2>2, <2>3
<1>7. ASSUME NEW s \in Chunk, NEW status \in {"ok", "err"}, ToolEnd(t, s, status)
      PROVE  /\ RowStep
             /\ \A i \in DOMAIN transcript : transcript'[i] # transcript[i] => transcript[i].id = t
  <2>1. transcript' = Changed(W, n, WithOutput(W[n], SetText(s), status))
    BY <1>7 DEF ToolEnd, Changed, WithOutput
  <2>2. toolIndex' = U /\ current' = current /\ status \in ToolStatus /\ status # "running"
    BY <1>7 DEF ToolEnd, ToolStatus
  <2> QED
    BY <1>5, <2>1, <2>2
<1>8. ASSUME NEW m \in Result, m.tool = t, TurnEnd(m)
      PROVE  /\ RowStep
             /\ \A i \in DOMAIN transcript : transcript'[i] # transcript[i] => transcript[i].id = t
  <2>1. transcript' = LateResult(m) /\ toolIndex' = Put(toolIndex, m.tool, ToolRow(m.tool))
        /\ current' = current
    BY <1>8 DEF TurnEnd
  <2>2. /\ Good(LateResult(m), Put(toolIndex, m.tool, ToolRow(m.tool)), current)
        /\ Kept(transcript, LateResult(m), Open)
        /\ \A i \in DOMAIN transcript : LateResult(m)[i] # transcript[i] => transcript[i].id = m.tool
    BY LateResultKeeps
  <2> QED
    BY <1>8, <2>1, <2>2 DEF RowStep, RowsInv
<1> QED
  BY <1>4, <1>6, <1>7, <1>8 DEF ToolFrame

\* emit_terminal_assistant_error.
LEMMA FailureKeeps ==
  ASSUME NEW R, NEW T, NEW C, Good(R, T, C), NEW O, NEW e \in Failure \cup {NoId}
  PROVE  Good(WithFailure(R, e), T, C) /\ Kept(R, WithFailure(R, e), O)
<1>1. Good(R, T, C) /\ Kept(R, R, O)
  BY KeptSame DEF Good
<1>2. CASE e \in Failure
  <2>1. Good(Append(R, ErrorRow(e)), T, C) /\ Kept(R, Append(R, ErrorRow(e)), O)
    BY <1>2, ErrorIsRow, RowAppended
  <2> QED
    BY <1>1, <2>1 DEF WithFailure
<1>3. CASE e = NoId
  BY <1>1, <1>3 DEF WithFailure
<1> QED
  BY <1>2, <1>3

\* agent_end.
LEMMA AgentEndKeeps ==
  ASSUME RowsInv, NEW terminal \in BOOLEAN, NEW m \in Result \cup {NoId},
         NEW e \in Failure \cup {NoId}, AgentEnd(terminal, m, e)
  PROVE  RowStep
<1> DEFINE L == IF m = NoId THEN transcript ELSE LateResult(m)
           F == WithFailure(L, e)
           S == Settle(F)
<1>1. Good(L, toolIndex', current) /\ Kept(transcript, L, Open)
  <2>1. CASE m = NoId
    <3>1. Good(transcript, toolIndex, current) /\ transcript \in Seq(Row)
      BY DEF RowsInv, Good
    <3> QED
      BY <2>1, <3>1, KeptSame DEF AgentEnd
  <2>2. CASE m # NoId
    <3>1. /\ Good(LateResult(m), Put(toolIndex, m.tool, ToolRow(m.tool)), current)
          /\ Kept(transcript, LateResult(m), Open)
      BY <2>2, LateResultKeeps
    <3> QED
      BY <2>2, <3>1 DEF AgentEnd
  <2> QED
    BY <2>1, <2>2
<1>2. transcript \in Seq(Row) /\ current' = current
  BY DEF RowsInv, Good, AgentEnd
<1>3. transcript' = IF terminal THEN S ELSE L
  BY DEF AgentEnd
<1> HIDE DEF L
<1>4. Good(F, toolIndex', current) /\ Kept(L, F, Open)
  BY <1>1, FailureKeeps
<1> HIDE DEF F
<1>5. Good(S, toolIndex', current) /\ Kept(F, S, Open)
  BY <1>4, SettleKeeps
<1> HIDE DEF S
<1>6. L \in Seq(Row) /\ F \in Seq(Row) /\ S \in Seq(Row)
  BY <1>1, <1>4, <1>5 DEF Good
<1>7. Kept(transcript, F, Open)
  BY <1>1, <1>2, <1>4, <1>6, KeptTwice
<1>8. Kept(transcript, S, Open)
  BY <1>2, <1>5, <1>6, <1>7, KeptTwice
<1> QED
  BY <1>1, <1>2, <1>3, <1>5, <1>8 DEF RowStep, RowsInv

\* The frames of a turn.
LEMMA TurnFrameKeeps ==
  ASSUME RowsInv, TurnFrame
  PROVE  RowStep
<1>1. CASE AgentStart
  BY <1>1, RowsLeft DEF AgentStart, NoRows, rowVars
<1>2. ASSUME NEW terminal \in BOOLEAN, NEW m \in Result \cup {NoId},
             NEW e \in Failure \cup {NoId}, AgentEnd(terminal, m, e)
      PROVE  RowStep
  BY <1>2, AgentEndKeeps
<1>3. CASE AutoCompactionStart \/ AutoCompactionEnd
  <2>1. "compaction" \in RowKind /\ transcript' = Append(transcript, Plain("compaction"))
        /\ UNCHANGED <<toolIndex, current>>
    BY <1>3 DEF AutoCompactionStart, AutoCompactionEnd, NoRows, RowKind
  <2> QED
    BY <2>1, PlainPushed
<1>4. CASE AutoRetryStart \/ AutoRetryEnd \/ FallbackApplied \/ FallbackSucceeded
  <2>1. "retry" \in RowKind /\ transcript' = Append(transcript, Plain("retry"))
        /\ UNCHANGED <<toolIndex, current>>
    BY <1>4 DEF AutoRetryStart, AutoRetryEnd, FallbackApplied, FallbackSucceeded, NoRows, RowKind
  <2> QED
    BY <2>1, PlainPushed
<1> QED
  BY <1>1, <1>2, <1>3, <1>4 DEF TurnFrame

\* The frames of an assistant message.
LEMMA MessageFrameKeeps ==
  ASSUME RowsInv, MessageFrame
  PROVE  RowStep
<1>1. ASSUME NEW kind \in {"text", "thinking"}, NEW ci \in ContentIndex, ContentStart(kind, ci)
      PROVE  RowStep
  <2>1. /\ transcript' = EnsureRow(kind, ci) /\ toolIndex' = toolIndex
        /\ current' = Put(current, ci, ContentRow(ci))
    BY <1>1 DEF ContentStart
  <2>2. /\ Good(EnsureRow(kind, ci), toolIndex, Put(current, ci, ContentRow(ci)))
        /\ Kept(transcript, EnsureRow(kind, ci), Open)
    BY ContentRowFound
  <2> QED
    BY <2>1, <2>2 DEF RowStep, RowsInv
<1>2. ASSUME NEW kind \in {"text", "thinking"}, NEW ci \in ContentIndex, NEW s \in Chunk,
             ContentDelta(kind, ci, s) \/ ContentEnd(kind, ci, s)
      PROVE  RowStep
  <2> DEFINE W == EnsureRow(kind, ci)
             n == ContentRow(ci)
             D == Put(current, ci, ContentRow(ci))
  <2>1. /\ Good(W, toolIndex, D) /\ Kept(transcript, W, Open) /\ n \in DOMAIN W
    BY ContentRowFound
  <2>2. W[n] \in Row /\ RowInv(W[n]) /\ W[n].text \in Text /\ W[n].streaming \in BOOLEAN
        /\ TextInv(W[n].text)
    <3>1. W[n] \in Row /\ RowInv(W[n])
      BY <2>1 DEF Good
    <3> HIDE DEF W, n
    <3> QED
      BY <3>1 DEF Row, RowInv
  <2>3. toolIndex' = toolIndex /\ current' = D
    BY <1>2 DEF ContentDelta, ContentEnd
  <2>4. IsChunk(s)
    BY ProjectionAssumption
  <2>5. ASSUME NEW text \in Text, TextInv(text), NEW open \in BOOLEAN, open => W[n].streaming,
               transcript' = Changed(W, n, WithText(W[n], text, open))
        PROVE  RowStep
    <3> DEFINE r == WithText(W[n], text, open)
    <3>1. r \in Row /\ RowInv(r) /\ r.kind = W[n].kind /\ r.id = W[n].id /\ r.streaming = open
      <4> HIDE DEF W, n
      <4> QED
        BY <2>2, <2>5, TextIsRow
    <3> HIDE DEF r
    <3>2. transcript' = Changed(W, n, r)
      BY <2>5 DEF r
    <3>3. Good(Changed(W, n, r), toolIndex, D) /\ Kept(transcript, Changed(W, n, r), Open)
      BY <2>5, <3>1, ContentRowSet
    <3> QED
      BY <2>3, <3>2, <3>3 DEF RowStep, RowsInv
  <2>6. CASE ContentDelta(kind, ci, s)
    <3>1. CASE W[n].kind = kind
      <4>1. PushStr(W[n].text, s) \in Text /\ TextInv(PushStr(W[n].text, s))
        BY <2>2, <2>4, PushStrReads
      <4>2. transcript' = Changed(W, n, [W[n] EXCEPT !.text = PushStr(W[n].text, s)])
        BY <2>6, <3>1 DEF ContentDelta, Changed
      <4>3. WithText(W[n], PushStr(W[n].text, s), W[n].streaming)
              = [W[n] EXCEPT !.text = PushStr(W[n].text, s)]
        <5> HIDE DEF W, n
        <5> QED
          BY <2>2 DEF WithText, Row
      <4> QED
        BY <2>2, <2>5, <4>1, <4>2, <4>3
    <3>2. CASE W[n].kind # kind
      BY <2>1, <2>3, <2>6, <3>2 DEF ContentDelta, RowStep, RowsInv
    <3> QED
      BY <3>1, <3>2
  <2>7. CASE ContentEnd(kind, ci, s)
    <3>1. CASE W[n].kind = kind
      <4>1. SetText(s) \in Text /\ TextInv(SetText(s))
        BY <2>4, SetTextReads
      <4>2. transcript' = Changed(W, n, WithText(W[n], SetText(s), FALSE))
        BY <2>7, <3>1 DEF ContentEnd, Changed, WithText
      <4> QED
        BY <2>5, <4>1, <4>2
    <3>2. CASE W[n].kind # kind
      BY <2>1, <2>3, <2>7, <3>2 DEF ContentEnd, RowStep, RowsInv
    <3> QED
      BY <3>1, <3>2
  <2> QED
    BY <1>2, <2>6, <2>7
<1>3. CASE CloseMessage
  BY <1>3, ClosedKeeps DEF CloseMessage, RowStep, RowsInv
<1>4. ASSUME NEW e \in Failure, MessageError(e) PROVE RowStep
  <2> DEFINE Q == ClosedRows(transcript)
  <2>1. Good(Q, toolIndex, NoIndex) /\ Kept(transcript, Q, Open)
    BY ClosedKeeps
  <2>2. /\ transcript' = Append(Q, ErrorRow(e)) /\ toolIndex' = toolIndex /\ current' = NoIndex
    BY <1>4 DEF MessageError
  <2> HIDE DEF Q
  <2>3. Good(Append(Q, ErrorRow(e)), toolIndex, NoIndex) /\ Kept(Q, Append(Q, ErrorRow(e)), Open)
    BY <2>1, ErrorIsRow, RowAppended
  <2>4. transcript \in Seq(Row) /\ Q \in Seq(Row) /\ Append(Q, ErrorRow(e)) \in Seq(Row)
    BY <2>1, <2>3 DEF RowsInv, Good
  <2>5. Kept(transcript, Append(Q, ErrorRow(e)), Open)
    BY <2>1, <2>3, <2>4, KeptTwice
  <2> QED
    BY <2>2, <2>3, <2>5 DEF RowStep, RowsInv
<1> QED
  BY <1>1, <1>2, <1>3, <1>4 DEF MessageFrame

\* Frames that leave a row.
LEMMA RowFrameKeeps ==
  ASSUME RowsInv, RowFrame
  PROVE  RowStep
<1>1. ASSUME NEW r \in Row, RowInv(r), ~r.streaming, Leaves(r) PROVE RowStep
  BY <1>1, RowPushed DEF Leaves, PushRow
<1>2. ASSUME NEW kind \in RowKind, kind # "tool", Leaves(Plain(kind)) PROVE RowStep
  BY <1>1, <1>2, PlainRow
<1>3. {"notice", "unknown", "user", "command"} \subseteq RowKind
  BY DEF RowKind
<1>4. CASE ImageEnd \/ QuietEventNotice \/ LocalOnlyPrompt \/ PushUnknown \/ PushUserMessage
  BY <1>2, <1>3, <1>4 DEF ImageEnd, QuietEventNotice, LocalOnlyPrompt, PushUnknown, PushUserMessage
<1>5. ASSUME NEW s \in Chunk, CommandOutput(s) PROVE RowStep
  BY <1>1, <1>3, <1>5, TextRowIsRow DEF CommandOutput
<1>6. ASSUME NEW e \in Failure, ExtensionError(e) PROVE RowStep
  BY <1>1, <1>6, ErrorIsRow DEF ExtensionError
<1>7. ASSUME NEW e \in Failure \cup {NoId}, Notice(e) PROVE RowStep
  <2>1. CASE e = NoId
    BY <1>2, <1>3, <1>7, <2>1 DEF Notice
  <2>2. CASE e # NoId
    BY <1>1, <1>7, <2>2, ErrorIsRow DEF Notice
  <2> QED
    BY <2>1, <2>2
<1>8. ASSUME NEW e \in Failure, RpcFrameError(e) PROVE RowStep
  <2> DEFINE Q == Append(transcript, ErrorRow(e))
             P == Append(Q, Plain("unknown"))
  <2>1. /\ transcript \in Seq(Row) /\ ErrorRow(e) \in Row /\ Plain("unknown") \in Row
        /\ transcript' = transcript \o <<ErrorRow(e), Plain("unknown")>>
        /\ UNCHANGED <<toolIndex, current>>
    BY <1>3, <1>8, ErrorIsRow, PlainRow DEF RpcFrameError, RowsInv, Good
  <2>2. transcript' = P
    <3> HIDE DEF Plain, ErrorRow
    <3> QED
      BY <2>1
  <2>3. Good(Q, toolIndex, current) /\ Kept(transcript, Q, Open)
    BY ErrorIsRow, RowAppended DEF RowsInv
  <2> HIDE DEF Q
  <2>4. Good(P, toolIndex, current) /\ Kept(Q, P, Open)
    BY <1>3, <2>3, PlainRow, RowAppended
  <2> HIDE DEF P
  <2>5. Kept(transcript, P, Open)
    <3>1. Q \in Seq(Row) /\ P \in Seq(Row)
      BY <2>3, <2>4 DEF Good
    <3> QED
      BY <2>1, <2>3, <2>4, <3>1, KeptTwice
  <2> QED
    BY <2>1, <2>2, <2>4, <2>5 DEF RowStep, RowsInv
<1> QED
  BY <1>4, <1>5, <1>6, <1>7, <1>8 DEF RowFrame

\* Frames about what is around the transcript, and what is not a frame.
LEMMA OtherStepKeeps ==
  ASSUME RowsInv, SideFrame \/ Others
  PROVE  RowStep
<1>1. CASE SideFrame
  <2>1. CASE GoalUpdated
    <3>1. "notice" \in RowKind /\ transcript' = Append(transcript, Plain("notice"))
          /\ UNCHANGED <<toolIndex, current>>
      BY <2>1 DEF GoalUpdated, NoRows, RowKind
    <3> QED
      BY <3>1, PlainPushed
  <2>2. CASE TodoAutoClear \/ CommandsUpdate \/ SubagentFrame \/ SetDisplay \/ HydrateCommands
    BY <2>2, RowsLeft
    DEF TodoAutoClear, CommandsUpdate, SubagentFrame, SetDisplay, HydrateCommands, SetPanels
  <2>3. ASSUME NEW d \in DialogId, EnqueueDialog(d) \/ CancelDialog(d) PROVE RowStep
    BY <2>3, RowsLeft DEF EnqueueDialog, CancelDialog
  <2> QED
    BY <1>1, <2>1, <2>2, <2>3 DEF SideFrame
<1>2. CASE Others
  <2>1. ASSUME NEW isStreaming \in Flag, NEW todos \in BOOLEAN, HydrateGetState(isStreaming, todos)
        PROVE  RowStep
    BY <2>1, RowsLeft DEF HydrateGetState
  <2>2. CASE MarkRestarting \/ MarkDead
    BY <2>2, RowsLeft DEF MarkRestarting, MarkDead
  <2>3. CASE SettleAborted
    <3>1. Good(Settle(transcript), toolIndex, current) /\ Kept(transcript, Settle(transcript), Open)
      BY SettleKeeps DEF RowsInv
    <3> QED
      BY <2>3, <3>1 DEF SettleAborted, RowStep, RowsInv
  <2> QED
    BY <1>2, <2>1, <2>2, <2>3 DEF Others
<1> QED
  BY <1>1, <1>2

\* The history: pages that come, are thrown away and come again.
LEMMA HydratingKeeps ==
  ASSUME RowsInv, Hydrating
  PROVE  RowsInv'
<1>1. ASSUME HydrateMessage PROVE RowsInv'
  <2>1. ASSUME NEW kind \in {"user", "text", "thinking", "unknown"}, NEW s \in Chunk,
               HydrateRow(kind, s)
        PROVE  RowsInv'
    <3>1. kind \in RowKind /\ kind # "tool"
      BY DEF RowKind
    <3>2. \E r \in Row : /\ RowInv(r) /\ ~r.streaming
                         /\ transcript' = Append(transcript, r) /\ UNCHANGED <<toolIndex, current>>
      BY <2>1, <3>1, PlainRow, TextRowIsRow DEF HydrateRow
    <3> QED
      BY <3>2, RowPushed DEF RowStep
  <2>2. ASSUME NEW t \in ToolId, HydrateToolCall(t) PROVE RowsInv'
    <3>1. Good(Append(transcript, NewRunning(t)), Put(toolIndex, t, Len(transcript) + 1), current)
      BY RunningAppended DEF RowsInv
    <3> QED
      BY <2>2, <3>1 DEF HydrateToolCall, RowsInv
  <2>3. ASSUME NEW t \in ToolId, NEW s \in Chunk, NEW status \in {"ok", "err"},
               HydrateToolResult(t, s, status)
        PROVE  RowsInv'
    <3>1. CASE t \in DOMAIN toolIndex
      <4> DEFINE n == toolIndex[t]
                 r == WithOutput(transcript[n], PushStr(transcript[n].text, s), status)
      <4>1. /\ n \in DOMAIN transcript /\ transcript[n].kind = "tool" /\ transcript[n] \in Row
            /\ RowInv(transcript[n]) /\ Good(transcript, toolIndex, current)
        BY <3>1 DEF RowsInv, Good
      <4>2. /\ transcript' = Changed(transcript, n, r) /\ UNCHANGED <<toolIndex, current>>
        BY <2>3, <3>1 DEF HydrateToolResult, Changed, WithOutput
      <4>3. IsChunk(s) /\ status \in ToolStatus
        BY ProjectionAssumption DEF ToolStatus
      <4>4. PushStr(transcript[n].text, s) \in Text /\ TextInv(PushStr(transcript[n].text, s))
        <5>1. transcript[n].text \in Text /\ TextInv(transcript[n].text)
          BY <4>1 DEF Row, RowInv
        <5> QED
          BY <4>3, <5>1, PushStrReads
      <4> HIDE DEF n
      <4>5. r \in Row /\ RowInv(r) /\ r.kind = "tool" /\ r.id = transcript[n].id /\ ~r.streaming
        BY <4>1, <4>3, <4>4, OutputIsRow
      <4> HIDE DEF r
      <4>6. Good(Changed(transcript, n, r), toolIndex, current)
        BY <4>1, <4>5, RowChanged
      <4> QED
        BY <4>2, <4>6 DEF RowsInv
    <3>2. CASE t \notin DOMAIN toolIndex
      <4>1. "command" \in RowKind
        BY DEF RowKind
      <4>2. /\ TextRow("command", s) \in Row /\ RowInv(TextRow("command", s))
            /\ ~TextRow("command", s).streaming
        BY <4>1, TextRowIsRow
      <4>3. /\ transcript' = Append(transcript, TextRow("command", s))
            /\ UNCHANGED <<toolIndex, current>>
        BY <2>3, <3>2 DEF HydrateToolResult
      <4> QED
        BY <4>2, <4>3, RowPushed DEF RowStep
    <3> QED
      BY <3>1, <3>2
  <2> QED
    BY <1>1, <2>1, <2>2, <2>3 DEF HydrateMessage
<1>2. CASE HydratePage \/ HydrateAnswer
  BY <1>1, <1>2 DEF HydratePage, HydrateAnswer
<1>3. CASE ClearHistory
  <2>1. transcript' = <<>> /\ toolIndex' = NoIndex /\ current' = NoIndex
    BY <1>3 DEF ClearHistory
  <2>2. Good(<<>>, NoIndex, NoIndex)
    BY DEF Good, NoIndex, IsIndex
  <2> QED
    BY <2>1, <2>2 DEF RowsInv
<1>4. CASE GetMessagesInstead
  BY <1>4, RowsLeft DEF GetMessagesInstead, RowStep
<1>5. CASE HistoryEnds
  <2>1. Good(Settle(transcript), toolIndex, current)
    BY SettleKeeps DEF RowsInv
  <2>2. Good(Settle(Append(transcript, Plain("notice"))), toolIndex, current)
    <3>1. "notice" \in RowKind
      BY DEF RowKind
    <3>2. Good(Append(transcript, Plain("notice")), toolIndex, current)
      BY <3>1, PlainRow, RowAppended DEF RowsInv
    <3> QED
      BY <3>2, SettleKeeps
  <2> QED
    BY <1>5, <2>1, <2>2 DEF HistoryEnds, RowsInv
<1> QED
  BY <1>2, <1>3, <1>4, <1>5 DEF Hydrating

-----------------------------------------------------------------------------
(* What holds in every state and of every step.                             *)

LEMMA ProjectionInit == Init => RowsInv
  BY DEF Init, RowsInv, Good, NoIndex, IsIndex

LEMMA RowsKept ==
  ASSUME RowsInv, [Next]_vars
  PROVE  RowsInv' /\ (Live => RowStep)
<1>1. CASE UNCHANGED vars
  BY <1>1, RowsLeft DEF vars, RowStep
<1>2. CASE Hydrating
  <2>1. ~Live
    BY <1>2 DEF Hydrating, HydratePage, ClearHistory, GetMessagesInstead, HydrateAnswer,
                HistoryEnds, Live
  <2> QED
    BY <1>2, <2>1, HydratingKeeps
<1>3. CASE Apply \/ Others
  BY <1>3, TurnFrameKeeps, MessageFrameKeeps, ToolFrameKeeps, RowFrameKeeps, OtherStepKeeps
  DEF Apply, RowStep
<1> QED
  BY <1>1, <1>2, <1>3 DEF Next

LEMMA RowsInvAlways == Spec => []RowsInv
<1>1. Init => RowsInv
  BY ProjectionInit
<1>2. RowsInv /\ [Next]_vars => RowsInv'
  BY RowsKept
<1> QED
  BY <1>1, <1>2, PTL DEF Spec

\* A toolCallId addresses a tool row of that id, and a row that streams is one that
\* the end of its message closes: whatever order history pages and frames come in.
THEOREM RowsAddressedAlways == Spec => []RowsAddressed
<1>1. RowsInv => RowsAddressed
  BY DEF RowsInv, Good, RowsAddressed, Rows
<1> QED
  BY <1>1, RowsInvAlways, PTL

\* A row's text is within its bounds and reads as if it had come in one piece.
THEOREM TextsReadAlways == Spec => []TextsReadAsStreamed
<1>1. RowsInv => TextsReadAsStreamed
  <2> SUFFICES ASSUME RowsInv, NEW i \in DOMAIN transcript
               PROVE  Bounded(transcript[i].text) /\ CutsDoNotShow(transcript[i].text)
    BY DEF TextsReadAsStreamed
  <2>1. transcript[i].text \in Text /\ TextInv(transcript[i].text)
    <3>1. transcript[i] \in Row /\ RowInv(transcript[i])
      BY DEF RowsInv, Good
    <3> QED
      BY <3>1 DEF Row, RowInv
  <2> QED
    BY <2>1, TextReads
<1> QED
  BY <1>1, RowsInvAlways, PTL

\* A live step keeps every row's place, kind and id, restarts no tool that ended,
\* changes no text whose message is over, and a tool's frame touches no other row.
THEOREM FramesReachTheirRowAlways == Spec => FramesReachTheirRow
<1> DEFINE A == Live =>
             /\ Len(transcript') >= Len(transcript)
             /\ \A i \in DOMAIN transcript :
                  LET r == transcript[i]  q == transcript'[i] IN
                  /\ q.kind = r.kind /\ q.id = r.id
                  /\ r.kind = "tool" /\ r.status # "running" => q.status # "running"
                  /\ r # q => \/ r.kind = "tool"
                              \/ \E ci \in DOMAIN current : current[ci] = i
                  /\ r # q => \A t \in ToolId : ToolFrame(t) => r.id = t
<1>1. RowsInv /\ [Next]_vars => A
  <2> SUFFICES ASSUME RowsInv, [Next]_vars, Live PROVE A
    OBVIOUS
  <2>1. Kept(transcript, transcript', Open)
    BY RowsKept DEF RowStep
  <2>2. Len(transcript') >= Len(transcript)
    BY <2>1 DEF Kept
  <2>3. ASSUME NEW i \in DOMAIN transcript
        PROVE  /\ transcript'[i].kind = transcript[i].kind /\ transcript'[i].id = transcript[i].id
               /\ transcript[i].kind = "tool" /\ transcript[i].status # "running"
                    => transcript'[i].status # "running"
               /\ transcript[i] # transcript'[i] =>
                    \/ transcript[i].kind = "tool"
                    \/ \E ci \in DOMAIN current : current[ci] = i
    <3>1. RowKept(transcript[i], transcript'[i], i \in Open)
      BY <2>1 DEF Kept
    <3> QED
      BY <3>1 DEF RowKept, Open
  <2>4. ASSUME NEW i \in DOMAIN transcript, transcript[i] # transcript'[i],
               NEW t \in ToolId, ToolFrame(t)
        PROVE  transcript[i].id = t
    BY <2>4, ToolFrameKeeps
  <2> QED
    BY <2>2, <2>3, <2>4
<1>2. RowsInv /\ [Next]_vars => [A]_vars
  BY <1>1
<1> QED
  BY <1>2, RowsInvAlways, PTL DEF Spec, FramesReachTheirRow

-----------------------------------------------------------------------------
(* The end of a turn, said twice.                                           *)

\* What a terminal agent_end leaves, as long as no other frame has come.
EndInv ==
  lastEnd # NoId =>
    /\ Live /\ phase = "idle" /\ streaming = "false" /\ quality # "live"
    /\ \A i \in DOMAIN transcript : transcript[i].status # "running"
    /\ \E m \in Result \cup {NoId}, e \in Failure \cup {NoId} :
         /\ lastEnd = <<m, e>>
         /\ m # NoId => m.tool \in DOMAIN toolIndex
         /\ e # NoId => \E i \in DOMAIN transcript : transcript[i] = ErrorRow(e)

\* Only a terminal agent_end is remembered, and no longer than until the next frame.
LEMMA EndRemembered ==
  ASSUME Next
  PROVE  \/ lastEnd' = NoId
         \/ ~Live /\ lastEnd' = lastEnd
         \/ \E m \in Result \cup {NoId}, e \in Failure \cup {NoId} : AgentEnd(TRUE, m, e)
<1> DEFINE P == \/ lastEnd' = NoId
                \/ ~Live /\ lastEnd' = lastEnd
                \/ \E m \in Result \cup {NoId}, e \in Failure \cup {NoId} : AgentEnd(TRUE, m, e)
<1>1. CASE Hydrating
  <2>1. ~Live /\ lastEnd' = lastEnd
    BY <1>1 DEF Hydrating, HydratePage, ClearHistory, GetMessagesInstead, HydrateAnswer,
                HistoryEnds, Live
  <2> QED
    BY <2>1
<1>2. CASE TurnFrame
  <2>1. ASSUME NEW terminal \in BOOLEAN, NEW m \in Result \cup {NoId},
               NEW e \in Failure \cup {NoId}, AgentEnd(terminal, m, e)
        PROVE  P
    <3>1. CASE terminal = TRUE
      BY <2>1, <3>1
    <3>2. CASE terminal = FALSE
      BY <2>1, <3>2 DEF AgentEnd
    <3> QED
      BY <3>1, <3>2
  <2>2. CASE \/ AgentStart \/ AutoCompactionStart \/ AutoCompactionEnd
             \/ AutoRetryStart \/ AutoRetryEnd \/ FallbackApplied \/ FallbackSucceeded
    BY <2>2 DEF AgentStart, AutoCompactionStart, AutoCompactionEnd, AutoRetryStart, AutoRetryEnd,
                FallbackApplied, FallbackSucceeded, NoRows
  <2> QED
    BY <1>2, <2>1, <2>2 DEF TurnFrame
<1>3. CASE MessageFrame
  BY <1>3 DEF MessageFrame, ContentStart, ContentDelta, ContentEnd, CloseMessage, MessageError,
              RowsOnly
<1>4. ASSUME NEW t \in ToolId, ToolFrame(t) PROVE P
  BY <1>4 DEF ToolFrame, ToolStart, ToolUpdate, ToolEnd, TurnEnd, RowsOnly
<1>5. CASE RowFrame
  BY <1>5 DEF RowFrame, ImageEnd, QuietEventNotice, LocalOnlyPrompt, PushUnknown, PushUserMessage,
              CommandOutput, ExtensionError, RpcFrameError, Notice, Leaves, RowsOnly
<1>6. CASE SideFrame
  BY <1>6 DEF SideFrame, TodoAutoClear, CommandsUpdate, SubagentFrame, SetDisplay,
              HydrateCommands, GoalUpdated, EnqueueDialog, CancelDialog, SetPanels, NoRows
<1>7. CASE Others
  BY <1>7 DEF Others, HydrateGetState, MarkRestarting, MarkDead, SettleAborted, RowsOnly
<1> QED
  BY <1>1, <1>2, <1>3, <1>4, <1>5, <1>6, <1>7 DEF Next, Apply

LEMMA EndSettles ==
  ASSUME RowsInv, NEW m \in Result \cup {NoId}, NEW e \in Failure \cup {NoId},
         AgentEnd(TRUE, m, e)
  PROVE  EndInv'
<1> DEFINE L == IF m = NoId THEN transcript ELSE LateResult(m)
           F == WithFailure(L, e)
<1>1. transcript' = Settle(F)
  BY DEF AgentEnd
<1>2. Good(L, toolIndex', current)
  <2>1. m # NoId => Good(LateResult(m), Put(toolIndex, m.tool, ToolRow(m.tool)), current)
    BY LateResultKeeps
  <2>2. Good(transcript, toolIndex, current)
    BY DEF RowsInv
  <2> QED
    BY <2>1, <2>2 DEF AgentEnd
<1> HIDE DEF L
<1>3. Good(F, toolIndex', current)
  BY <1>2, FailureKeeps
<1>4. e # NoId => \E i \in DOMAIN F : F[i] = ErrorRow(e)
  <2> SUFFICES ASSUME e # NoId PROVE \E i \in DOMAIN F : F[i] = ErrorRow(e)
    OBVIOUS
  <2>1. CASE \E i \in DOMAIN L : L[i] = ErrorRow(e)
    BY <2>1 DEF WithFailure
  <2>2. CASE ~\E i \in DOMAIN L : L[i] = ErrorRow(e)
    <3>1. F = Append(L, ErrorRow(e)) /\ L \in Seq(Row) /\ ErrorRow(e) \in Row
      BY <1>2, <2>2, ErrorIsRow DEF WithFailure, Good
    <3> HIDE DEF F, ErrorRow
    <3>2. Len(L) + 1 \in DOMAIN F /\ F[Len(L) + 1] = ErrorRow(e)
      BY <3>1
    <3> QED
      BY <3>2
  <2> QED
    BY <2>1, <2>2
<1> HIDE DEF F
<1>5. \A i \in DOMAIN F : /\ Settle(F)[i].status # "running"
                          /\ F[i].status # "running" => Settle(F)[i] = F[i]
  BY <1>3, SettleKeeps
<1>6. DOMAIN Settle(F) = DOMAIN F
  BY DEF Settle
<1>7. \A i \in DOMAIN transcript' : transcript'[i].status # "running"
  BY <1>1, <1>5, <1>6
<1>8. e # NoId => \E i \in DOMAIN transcript' : transcript'[i] = ErrorRow(e)
  <2> SUFFICES ASSUME e # NoId PROVE \E i \in DOMAIN transcript' : transcript'[i] = ErrorRow(e)
    OBVIOUS
  <2>1. PICK i \in DOMAIN F : F[i] = ErrorRow(e)
    BY <1>4
  <2>2. F[i].status # "running"
    BY <2>1, ErrorIsRow
  <2> QED
    BY <1>1, <1>5, <1>6, <2>1, <2>2
<1>9. m # NoId => m.tool \in DOMAIN toolIndex'
  BY DEF AgentEnd, Put
<1>10. /\ Live' /\ phase' = "idle" /\ streaming' = "false" /\ quality' # "live"
       /\ lastEnd' = <<m, e>>
  BY DEF AgentEnd, Live, hydrationVars
<1>11. ErrorRow(e)' = ErrorRow(e)
  BY DEF ErrorRow, Plain, EmptyText
<1> QED
  BY <1>7, <1>8, <1>9, <1>10, <1>11 DEF EndInv

LEMMA EndInvAlways == Spec => []EndInv
<1>1. Init => EndInv
  BY DEF Init, EndInv
<1>2. RowsInv /\ EndInv /\ [Next]_vars => EndInv'
  <2> SUFFICES ASSUME RowsInv, EndInv, [Next]_vars PROVE EndInv'
    OBVIOUS
  <2>1. CASE UNCHANGED vars
    <3>1. /\ lastEnd' = lastEnd /\ stage' = stage /\ phase' = phase /\ streaming' = streaming
          /\ quality' = quality /\ transcript' = transcript /\ toolIndex' = toolIndex
      BY <2>1 DEF vars, hydrationVars, rowVars, stateVars
    <3> QED
      BY <3>1 DEF EndInv, Live, ErrorRow, Plain, EmptyText
  <2>2. CASE lastEnd' = NoId
    BY <2>2 DEF EndInv
  <2>3. CASE ~Live /\ lastEnd' = lastEnd
    BY <2>3 DEF EndInv
  <2>4. ASSUME NEW m \in Result \cup {NoId}, NEW e \in Failure \cup {NoId}, AgentEnd(TRUE, m, e)
        PROVE  EndInv'
    BY <2>4, EndSettles
  <2> QED
    BY <2>1, <2>2, <2>3, <2>4, EndRemembered
<1> QED
  BY <1>1, <1>2, RowsInvAlways, PTL DEF Spec

\* A terminal agent_end that comes a second time finds its result taken, its failure
\* shown and no tool running, and changes nothing.
LEMMA EndIsSilent ==
  ASSUME RowsInv, EndInv, lastEnd # NoId,
         NEW m \in Result \cup {NoId}, NEW e \in Failure \cup {NoId},
         AgentEnd(TRUE, m, e), lastEnd' = lastEnd
  PROVE  UNCHANGED <<rowVars, stateVars, sideVars>>
<1>1. /\ phase = "idle" /\ streaming = "false" /\ quality # "live"
      /\ \A i \in DOMAIN transcript : transcript[i].status # "running"
      /\ m # NoId => m.tool \in DOMAIN toolIndex
      /\ e # NoId => \E i \in DOMAIN transcript : transcript[i] = ErrorRow(e)
  <2>1. PICK m0 \in Result \cup {NoId}, e0 \in Failure \cup {NoId} :
          /\ lastEnd = <<m0, e0>>
          /\ m0 # NoId => m0.tool \in DOMAIN toolIndex
          /\ e0 # NoId => \E i \in DOMAIN transcript : transcript[i] = ErrorRow(e0)
    BY DEF EndInv
  <2>2. <<m, e>> = <<m0, e0>>
    BY <2>1 DEF AgentEnd
  <2>3. m = m0 /\ e = e0
    BY <2>2
  <2> QED
    BY <2>1, <2>3 DEF EndInv
<1>2. transcript \in Seq(Row) /\ IsIndex(toolIndex, ToolId)
      /\ \A t \in DOMAIN toolIndex : toolIndex[t] \in DOMAIN transcript
  BY DEF RowsInv, Good
<1>3. (IF m = NoId THEN transcript ELSE LateResult(m)) = transcript
  BY <1>1, <1>2 DEF LateResult, WithTool, ToolRow
<1>4. WithFailure(transcript, e) = transcript
  BY <1>1 DEF WithFailure
<1>5. Settle(transcript) = transcript
  <2>1. Settle(transcript) = [i \in DOMAIN transcript |-> transcript[i]]
    BY <1>1 DEF Settle
  <2> QED
    BY <1>2, <2>1
<1>6. transcript' = transcript
  BY <1>3, <1>4, <1>5 DEF AgentEnd
<1>7. m # NoId => Put(toolIndex, m.tool, ToolRow(m.tool)) = toolIndex
  BY <1>1, <1>2 DEF Put, ToolRow, IsIndex
<1>8. toolIndex' = toolIndex /\ current' = current
  BY <1>7 DEF AgentEnd
<1>9. UNCHANGED <<phase, quality, streaming>> /\ UNCHANGED sideVars
  BY <1>1 DEF AgentEnd
<1> QED
  BY <1>6, <1>8, <1>9 DEF rowVars, stateVars

\* A terminal agent_end that comes twice in a row changes nothing the second time.
THEOREM DuplicateEndIsSilentAlways == Spec => DuplicateEndIsSilent
<1> DEFINE A == lastEnd # NoId /\ lastEnd' = lastEnd => UNCHANGED <<rowVars, stateVars, sideVars>>
<1>1. RowsInv /\ EndInv /\ [Next]_vars => [A]_vars
  <2> SUFFICES ASSUME RowsInv, EndInv, Next, lastEnd # NoId, lastEnd' = lastEnd
               PROVE  UNCHANGED <<rowVars, stateVars, sideVars>>
    OBVIOUS
  <2>1. Live
    BY DEF EndInv
  <2>2. PICK m \in Result \cup {NoId}, e \in Failure \cup {NoId} : AgentEnd(TRUE, m, e)
    BY <2>1, EndRemembered
  <2> QED
    BY <2>2, EndIsSilent
<1> QED
  BY <1>1, RowsInvAlways, EndInvAlways, PTL DEF Spec, DuplicateEndIsSilent

-----------------------------------------------------------------------------
(* The pages of a history.                                                  *)

\* What the fetch of a page relies on: until the first page there is no row, the
\* cursor asks for the page after the last one taken, and of the same history.
NextPageAsked ==
  /\ cursor = NoCursor => rows = <<>>
  /\ cursor # NoCursor => /\ rows # <<>>
                          /\ cursor.page = Len(rows) + 1
                          /\ cursor.history = rows[1].history

BeforePages == {"discovering", "spawned", "negotiate", "prepare", "messages"}

PagesInv ==
  /\ rows \in Seq(Page) /\ cursor \in Page /\ history \in Nat
  /\ step \in BeforePages => rows = <<>>
  /\ step = "page" => NextPageAsked
  /\ OneHistory

\* The invariant is about these variables only.
LEMMA PagesStutter ==
  ASSUME PagesInv, UNCHANGED <<step, rows, cursor, history>>
  PROVE  PagesInv'
BY DEF PagesInv, NextPageAsked, OneHistory

\* Steps that take nothing, and stay where there is no row or the fetch is over.
LEMMA PagesElsewhere ==
  ASSUME PagesInv, UNCHANGED <<rows, history>>, cursor' \in Page,
         step' # "page", step' \in BeforePages => rows = <<>>
  PROVE  PagesInv'
BY DEF PagesInv, OneHistory

\* ConnectFails leaves the fetch alone.
LEMMA ConnectFailsKeepsPages ==
  ASSUME PagesInv, ConnectFails, step \in BeforePages, UNCHANGED <<pageVars, history>>
  PROVE  PagesInv'
<1>1. step' \in {"spawned", "failed"}
  BY DEF ConnectFails, Spawn
<1>2. rows' = rows /\ cursor' = cursor /\ history' = history
  BY DEF pageVars
<1>3. cursor' \in Page /\ rows = <<>>
  BY <1>2 DEF PagesInv
<1> QED
  BY <1>1, <1>2, <1>3, PagesElsewhere

\* A restart, and the first page asked for: no row, no cursor.
LEMMA FirstPageAsked ==
  ASSUME PagesInv, rows' = <<>>, cursor' = NoCursor, history' = history
  PROVE  PagesInv'
<1>1. NoCursor \in Page
  BY DEF NoCursor, Page
<1>2. <<>> \in Seq(Page)
  OBVIOUS
<1>3. NextPageAsked'
  BY DEF NextPageAsked
<1>4. OneHistory'
  BY DEF OneHistory
<1> QED
  BY <1>1, <1>2, <1>3, <1>4 DEF PagesInv

\* The page asked for is the next one of the history taken so far.
LEMMA AskedFollows ==
  ASSUME PagesInv, step = "page", ~Stale
  PROVE  /\ Asked \in Page /\ Asked.page = Len(rows) + 1
         /\ rows # <<>> => Asked.history = rows[1].history
<1>1. CASE cursor = NoCursor
  <2>1. rows = <<>> /\ history \in Nat
    BY <1>1 DEF PagesInv, NextPageAsked
  <2>2. Asked = [history |-> history, page |-> 1]
    BY <1>1 DEF Asked
  <2>3. Asked \in Page
    BY <2>1, <2>2 DEF Page
  <2> QED
    BY <2>1, <2>2, <2>3
<1>2. CASE cursor # NoCursor
  BY <1>2 DEF Asked, PagesInv, NextPageAsked
<1> QED
  BY <1>1, <1>2

\* A page is the next page of the history taken so far, and the cursor moves on.
LEMMA PageComesPreserves ==
  ASSUME PagesInv, PageComes
  PROVE  PagesInv'
<1>1. /\ step = "page" /\ ~Stale
      /\ rows' = Append(rows, Asked) /\ history' = history
  BY DEF PageComes
<1>2. rows \in Seq(Page) /\ history \in Nat /\ Len(rows) \in Nat /\ OneHistory
  BY DEF PagesInv
<1>3. /\ Asked \in Page /\ Asked.page = Len(rows) + 1
      /\ rows # <<>> => Asked.history = rows[1].history
  BY <1>1, AskedFollows
<1>4. /\ rows' \in Seq(Page) /\ Len(rows') = Len(rows) + 1 /\ rows' # <<>>
      /\ DOMAIN rows' = 1..(Len(rows) + 1)
      /\ rows'[Len(rows) + 1] = Asked
      /\ \A i \in 1..Len(rows) : rows'[i] = rows[i]
  BY <1>1, <1>2, <1>3
<1>5. rows'[1].history = Asked.history
  <2>1. CASE rows = <<>>
    BY <1>4, <2>1
  <2>2. CASE rows # <<>>
    <3>1. 1 \in 1..Len(rows)
      BY <1>2, <2>2
    <3> QED
      BY <1>3, <1>4, <2>2, <3>1
  <2> QED
    BY <2>1, <2>2
<1>6. OneHistory'
  <2> SUFFICES ASSUME NEW i \in 1..(Len(rows) + 1)
               PROVE  rows'[i].page = i /\ rows'[i].history = rows'[1].history
    BY <1>4 DEF OneHistory
  <2>1. CASE i = Len(rows) + 1
    BY <1>3, <1>4, <1>5, <2>1
  <2>2. CASE i \in 1..Len(rows)
    <3>1. rows'[i] = rows[i] /\ rows'[1] = rows[1]
      BY <1>2, <1>4, <2>2
    <3>2. i \in DOMAIN rows
      BY <1>2, <2>2
    <3> QED
      BY <1>2, <3>1, <3>2 DEF OneHistory
  <2> QED
    BY <1>2, <2>1, <2>2
<1>7. CASE cursor' = [Asked EXCEPT !.page = @ + 1]
  <2>1. cursor' = [history |-> Asked.history, page |-> Len(rows) + 2] /\ cursor' \in Page
    BY <1>2, <1>3, <1>7 DEF Page
  <2>2. cursor'.page = Len(rows') + 1 /\ cursor'.history = rows'[1].history
    BY <1>2, <1>4, <1>5, <2>1
  <2>3. cursor' # NoCursor
    BY <1>2, <2>1 DEF NoCursor
  <2>4. step' = "page"
    BY <1>1, <1>4, <2>3 DEF PageComes, AskPage, Send, Hydrated
  <2> QED
    BY <1>1, <1>2, <1>4, <1>6, <2>1, <2>2, <2>3, <2>4 DEF PagesInv, NextPageAsked, BeforePages
<1>8. CASE Hydrated
  <2>1. step' = "connected" /\ cursor' = NoCursor
    BY <1>8 DEF Hydrated
  <2>2. cursor' \in Page
    BY <2>1 DEF NoCursor, Page
  <2> QED
    BY <1>1, <1>2, <1>4, <1>6, <2>1, <2>2 DEF PagesInv, BeforePages
<1>9. cursor' = [Asked EXCEPT !.page = @ + 1] \/ Hydrated
  BY DEF PageComes, AskPage
<1> QED
  BY <1>7, <1>8, <1>9

\* The whole history in one answer, or none.
LEMMA MessagesComePreserves ==
  ASSUME PagesInv, MessagesCome
  PROVE  PagesInv'
<1>1. /\ step = "messages" /\ step' = "connected" /\ cursor' = NoCursor /\ history' = history
      /\ rows' = <<[history |-> history, page |-> 1]>> \/ rows' = rows
  BY DEF MessagesCome, Hydrated
<1>2. rows = <<>> /\ history \in Nat
  BY <1>1 DEF PagesInv, BeforePages
<1>3. cursor' \in Page
  BY <1>1 DEF NoCursor, Page
<1>4. CASE rows' = <<[history |-> history, page |-> 1]>>
  <2>1. [history |-> history, page |-> 1] \in Page
    BY <1>2 DEF Page
  <2>2. rows' \in Seq(Page)
    BY <1>4, <2>1
  <2>3. OneHistory'
    BY <1>4 DEF OneHistory
  <2> QED
    BY <1>1, <1>2, <1>3, <2>2, <2>3 DEF PagesInv, BeforePages
<1>5. CASE rows' = rows
  BY <1>1, <1>2, <1>3, <1>5, PagesElsewhere
<1> QED
  BY <1>1, <1>4, <1>5

LEMMA HandshakePreservesPages ==
  ASSUME PagesInv, HandshakeStep
  PROVE  PagesInv'
<1>1. CASE Negotiated
  <2>1. step \in BeforePages /\ UNCHANGED <<pageVars, history>>
        /\ (Send("prepare") \/ ConnectFails)
    BY <1>1 DEF Negotiated, BeforePages
  <2>2. CASE Send("prepare")
    <3>1. step' = "prepare" /\ rows' = rows /\ history' = history /\ cursor' = cursor
      BY <2>1, <2>2 DEF Send, pageVars
    <3> QED
      BY <2>1, <3>1, PagesElsewhere DEF PagesInv
  <2> QED
    BY <2>1, <2>2, ConnectFailsKeepsPages
<1>2. CASE NextPrepares
  BY <1>2, PagesElsewhere DEF NextPrepares, Send, pageVars, PagesInv, BeforePages
<1>3. CASE FirstPage
  <2>1. rows' = rows /\ history' = history /\ cursor' = NoCursor /\ step = "prepare"
    BY <1>3 DEF FirstPage, AskPage
  <2>2. rows' = <<>>
    BY <2>1 DEF PagesInv, BeforePages
  <2> QED
    BY <2>1, <2>2, FirstPageAsked
<1>4. CASE PageComes
  BY <1>4, PageComesPreserves
<1>5. CASE PageBusy
  BY <1>5, PagesStutter DEF PageBusy, Send
<1>6. CASE PageStale
  BY <1>6, FirstPageAsked DEF PageStale, AskPage
<1>7. CASE PageFails
  <2>1. /\ rows' = rows /\ history' = history
        /\ \/ rows = <<>> /\ step' = "messages" /\ cursor' = cursor
           \/ step' = "connected" /\ cursor' = NoCursor
    BY <1>7 DEF PageFails, Send, Hydrated
  <2>2. cursor' \in Page
    BY <2>1 DEF PagesInv, NoCursor, Page
  <2> QED
    BY <2>1, <2>2, PagesElsewhere DEF BeforePages
<1>8. CASE MessagesCome
  BY <1>8, MessagesComePreserves
<1> QED
  BY <1>1, <1>2, <1>3, <1>4, <1>5, <1>6, <1>7, <1>8 DEF HandshakeStep

LEMMA ConnectPreservesPages ==
  ASSUME PagesInv, ConnectNext
  PROVE  PagesInv'
<1>1. CASE Discover
  <2>1. step = "discovering" /\ UNCHANGED <<pageVars, history>> /\ step' \in {"spawned", "failed"}
    BY <1>1 DEF Discover, Spawn
  <2>2. rows' = rows /\ cursor' = cursor /\ history' = history
    BY <2>1 DEF pageVars
  <2> QED
    BY <2>1, <2>2, PagesElsewhere DEF PagesInv, BeforePages
<1>2. CASE ReadReady
  <2>1. step \in BeforePages /\ UNCHANGED <<pageVars, history>>
        /\ (Send("negotiate") \/ ConnectFails)
    BY <1>2 DEF ReadReady, BeforePages
  <2>2. CASE Send("negotiate")
    <3>1. step' = "negotiate" /\ rows' = rows /\ history' = history /\ cursor' = cursor
      BY <2>1, <2>2 DEF Send, pageVars
    <3> QED
      BY <2>1, <3>1, PagesElsewhere DEF PagesInv
  <2> QED
    BY <2>1, <2>2, ConnectFailsKeepsPages
<1>3. CASE HandshakeStep
  BY <1>3, HandshakePreservesPages
<1>4. CASE HistoryMoves
  <2>1. history' = history + 1 /\ step' = step /\ rows' = rows /\ cursor' = cursor
    BY <1>4 DEF HistoryMoves, pageVars
  <2> QED
    BY <2>1 DEF PagesInv, NextPageAsked, OneHistory
<1>5. CASE UNCHANGED connectVars
  BY <1>5, PagesStutter DEF connectVars, pageVars
<1>6. ClientStep \/ PumpReceives \/ WriteLine \/ ChildSays \/ ChildEnds => UNCHANGED connectVars
  BY DEF ClientStep, TimerFires, CloseStdin, ReadFrame, DeathSeen, RouteFrame, AnnounceClosed,
         PumpReceives, WriteLine, ChildSays, ChildEnds
<1>7. BeginShutdown \/ ShutdownStep \/ (\E w \in Waiters : WaiterReceives(w))
      => UNCHANGED connectVars
  BY DEF BeginShutdown, ShutdownStep, ExitsInTime, DeadlinePasses, KillChild, Reaped,
         WaiterReceives
<1> QED
  BY <1>1, <1>2, <1>3, <1>4, <1>5, <1>6, <1>7 DEF ConnectNext

\* The pages a session opens with are the first pages of one history, in order and
\* none twice, however often the history changes, omp is busy or a call fails.
THEOREM OneHistoryAlways == ConnectSpec => []OneHistory
<1>1. ConnectInit => PagesInv
  <2> SUFFICES ASSUME ConnectInit PROVE PagesInv
    OBVIOUS
  <2>1. rows = <<>> /\ cursor \in Page /\ history \in Nat /\ step = "discovering"
    BY DEF ConnectInit, NoCursor, Page
  <2> QED
    BY <2>1 DEF PagesInv, OneHistory
<1>2. PagesInv /\ [ConnectNext]_ompVars => PagesInv'
  <2>1. PagesInv /\ UNCHANGED ompVars => PagesInv'
    BY PagesStutter DEF ompVars, connectVars, pageVars
  <2> QED
    BY <2>1, ConnectPreservesPages
<1>3. PagesInv => OneHistory
  BY DEF PagesInv
<1> QED
  BY <1>1, <1>2, <1>3, PTL DEF ConnectSpec

-----------------------------------------------------------------------------
(* Types of a connect.                                                      *)

\* The parts of the type invariant, by the variables they are about.
StepTyped ==
  /\ step \in Calling \cup {"discovering", "spawned", "connected", "failed"}
  /\ resume \in BOOLEAN
PageTyped ==
  /\ pages \in 0..MaxPages /\ attempt \in 0..BusyRetries /\ restarts \in 0..1
  /\ cursor \in Page /\ rows \in Seq(Page) /\ history \in 0..MaxMoves
ChildTyped ==
  /\ childUp \in BOOLEAN /\ calls \in 0..MaxCalls /\ taken \in 0..calls
  /\ said \in 0..MaxSaid /\ out \in Seq(0..Bad)
ClientTyped ==
  /\ reply \in {"none", "waiting", "ok", "timeout", "died"}
  /\ stdin \in {"open", "closing", "closed"}
  /\ hand \in (0..MaxCalls) \cup {NoFrame}
  /\ link \in {"up", "closing", "announced"}
  /\ events \in Seq({0, Closed}) /\ Len(events) <= EventCap
DownTyped ==
  /\ down \in {"no", "racing", "reaping", "graceful", "killed"}
  /\ waits \in [Waiters -> {"idle", "waiting", "told", "untold"}]
  /\ killer \in {"idle", "asked", "done"}

LEMMA ConnectTypeParts ==
  ConnectTypeOK <=> StepTyped /\ PageTyped /\ ChildTyped /\ ClientTyped /\ DownTyped
BY DEF ConnectTypeOK, StepTyped, PageTyped, ChildTyped, ClientTyped, DownTyped

\* A part stays typed while its variables stay.
LEMMA StepTypedStays == StepTyped /\ UNCHANGED <<step, resume>> => StepTyped'
  BY DEF StepTyped
LEMMA PageTypedStays == PageTyped /\ UNCHANGED <<pageVars, history>> => PageTyped'
  BY DEF PageTyped, pageVars
LEMMA ChildTypedStays == ChildTyped /\ UNCHANGED <<childVars, calls>> => ChildTyped'
  BY DEF ChildTyped, childVars
LEMMA ClientTypedStays ==
  ClientTyped /\ UNCHANGED <<reply, stdin, hand, link, events>> => ClientTyped'
  BY DEF ClientTyped
LEMMA DownTypedStays == DownTyped /\ UNCHANGED downVars => DownTyped'
  BY DEF DownTyped, downVars

\* The type invariant, part by part, which its steps preserve together.
ConnectTyped == StepTyped /\ PageTyped /\ ChildTyped /\ ClientTyped /\ DownTyped

\* A fresh client on a fresh child.
LEMMA SpawnTyped ==
  ASSUME ChildTyped, Spawn PROVE ChildTyped' /\ ClientTyped' /\ step' = "spawned"
<1>1. MaxCalls \in Nat /\ EventCap \in Nat
  BY ConnectAssumption
<1>2. ChildTyped'
  BY <1>1 DEF Spawn, ChildTyped
<1>3. ClientTyped'
  BY <1>1 DEF Spawn, ClientTyped
<1> QED
  BY <1>2, <1>3 DEF Spawn

\* One call more.
LEMMA SendTyped ==
  ASSUME ChildTyped, ClientTyped, NEW next, Send(next)
  PROVE  ChildTyped' /\ ClientTyped' /\ step' = next
<1>1. MaxCalls \in Nat
  BY ConnectAssumption
<1>2. ChildTyped'
  BY <1>1 DEF Send, ChildTyped, childVars
<1>3. ClientTyped'
  BY DEF Send, ClientTyped
<1> QED
  BY <1>2, <1>3 DEF Send

LEMMA ConnectFailsTyped ==
  ASSUME ChildTyped, ClientTyped, ConnectFails
  PROVE  ChildTyped' /\ ClientTyped' /\ step' \in {"spawned", "failed"} /\ resume' = FALSE
<1>1. CASE Spawn
  BY <1>1, SpawnTyped DEF ConnectFails
<1>2. CASE /\ step' = "failed" /\ childUp' = (childUp /\ ~HandshakeKills)
           /\ UNCHANGED <<taken, said, out, clientVars>>
  BY <1>2 DEF ConnectFails, ChildTyped, ClientTyped, clientVars
<1> QED
  BY <1>1, <1>2 DEF ConnectFails

\* A page asked for, or the fetch over.
LEMMA AskPageTyped ==
  ASSUME ConnectTyped, NEW c \in Page, NEW before \in 0..MaxPages, AskPage(c, before)
  PROVE  /\ ChildTyped' /\ ClientTyped' /\ step' = "page"
         /\ pages' \in 0..MaxPages /\ attempt' \in 0..BusyRetries /\ cursor' \in Page
<1>1. BusyRetries \in Nat \ {0}
  BY ConnectAssumption
<1> QED
  BY <1>1, SendTyped DEF AskPage, ConnectTyped

LEMMA HydratedTyped ==
  ASSUME ConnectTyped, Hydrated
  PROVE  /\ ChildTyped' /\ ClientTyped' /\ step' = "connected"
         /\ pages' \in 0..MaxPages /\ attempt' \in 0..BusyRetries /\ restarts' \in 0..1
         /\ cursor' \in Page
<1>1. BusyRetries \in Nat /\ MaxPages \in Nat
  BY ConnectAssumption
<1>2. NoCursor \in Page
  BY DEF NoCursor, Page
<1>3. ChildTyped' /\ ClientTyped'
  BY ChildTypedStays, ClientTypedStays DEF Hydrated, clientVars, ConnectTyped
<1> QED
  BY <1>1, <1>2, <1>3 DEF Hydrated

LEMMA HandshakeTyped == ASSUME ConnectTyped, HandshakeStep PROVE ConnectTyped'
<1>0. /\ StepTyped /\ PageTyped /\ ChildTyped /\ ClientTyped /\ DownTyped
      /\ MaxPages \in Nat \ {0} /\ BusyRetries \in Nat \ {0} /\ MaxMoves \in Nat /\ NoCursor \in Page
  BY ConnectAssumption DEF ConnectTyped, NoCursor, Page
<1>1. DownTyped'
  BY <1>0, DownTypedStays DEF HandshakeStep, Negotiated, NextPrepares, FirstPage, PageComes,
     PageBusy, PageStale, PageFails, MessagesCome
<1>2. CASE Negotiated
  <2>1. PageTyped'
    BY <1>0, <1>2, PageTypedStays DEF Negotiated
  <2>2. ChildTyped' /\ ClientTyped' /\ step' \in {"prepare", "spawned", "failed"} /\ resume' \in BOOLEAN
    <3>1. CASE Send("prepare") /\ UNCHANGED resume
      BY <1>0, <3>1, SendTyped DEF StepTyped
    <3>2. CASE ConnectFails
      BY <1>0, <3>2, ConnectFailsTyped
    <3> QED
      BY <1>2, <3>1, <3>2 DEF Negotiated
  <2> QED
    BY <1>1, <2>1, <2>2 DEF ConnectTyped, StepTyped, Calling
<1>3. CASE NextPrepares
  <2>1. PageTyped' /\ Send("prepare") /\ resume' = resume
    BY <1>0, <1>3, PageTypedStays DEF NextPrepares
  <2>2. ChildTyped' /\ ClientTyped' /\ step' = "prepare"
    BY <1>0, <2>1, SendTyped
  <2> QED
    BY <1>0, <1>1, <2>1, <2>2 DEF ConnectTyped, StepTyped, Calling
<1>4. CASE FirstPage
  <2>1. /\ AskPage(NoCursor, 0) /\ UNCHANGED <<resume, restarts, rows, history>> /\ 0 \in 0..MaxPages
    BY <1>0, <1>4 DEF FirstPage
  <2>2. /\ ChildTyped' /\ ClientTyped' /\ step' = "page"
        /\ pages' \in 0..MaxPages /\ attempt' \in 0..BusyRetries /\ cursor' \in Page
    BY <1>0, <2>1, AskPageTyped
  <2> QED
    BY <1>0, <1>1, <2>1, <2>2 DEF ConnectTyped, StepTyped, PageTyped, Calling
<1>5. CASE PageComes
  <2>1. /\ rows' = Append(rows, Asked) /\ UNCHANGED <<resume, history>>
        /\ \/ /\ pages + 1 < MaxPages
              /\ AskPage([Asked EXCEPT !.page = @ + 1], pages + 1)
              /\ UNCHANGED restarts
           \/ Hydrated
    BY <1>5 DEF PageComes
  <2>2. Asked \in Page
    BY <1>0 DEF Asked, Page, PageTyped
  <2>3. [Asked EXCEPT !.page = @ + 1] \in Page /\ rows' \in Seq(Page)
    <3>1. [Asked EXCEPT !.page = @ + 1] \in Page
      BY <2>2 DEF Page
    <3>2. rows \in Seq(Page)
      BY <1>0 DEF PageTyped
    <3> QED
      BY <2>1, <2>2, <3>1, <3>2
  <2>4. pages + 1 < MaxPages => pages + 1 \in 0..MaxPages
    BY <1>0 DEF PageTyped
  <2>5. /\ ChildTyped' /\ ClientTyped' /\ step' \in {"page", "connected"}
        /\ pages' \in 0..MaxPages /\ attempt' \in 0..BusyRetries /\ restarts' \in 0..1
        /\ cursor' \in Page
    <3>1. CASE Hydrated
      BY <3>1, HydratedTyped
    <3>2. CASE /\ pages + 1 < MaxPages
               /\ AskPage([Asked EXCEPT !.page = @ + 1], pages + 1)
               /\ UNCHANGED restarts
      <4> DEFINE c == [Asked EXCEPT !.page = @ + 1]
                 n == pages + 1
      <4>1. c \in Page /\ n \in 0..MaxPages /\ AskPage(c, n) /\ restarts' = restarts
        BY <2>3, <2>4, <3>2
      <4> HIDE DEF c, n
      <4> QED
        BY <1>0, <4>1, AskPageTyped DEF PageTyped
    <3> QED
      BY <2>1, <3>1, <3>2
  <2> QED
    BY <1>0, <1>1, <2>1, <2>3, <2>5 DEF ConnectTyped, StepTyped, PageTyped, Calling
<1>6. CASE PageBusy
  <2>1. /\ Send("page") /\ attempt < BusyRetries /\ attempt' = attempt + 1
        /\ UNCHANGED <<resume, pages, restarts, cursor, rows, history>>
    BY <1>6 DEF PageBusy
  <2>2. ChildTyped' /\ ClientTyped' /\ step' = "page"
    BY <1>0, <2>1, SendTyped
  <2>3. attempt' \in 0..BusyRetries
    BY <1>0, <2>1 DEF PageTyped
  <2> QED
    BY <1>0, <1>1, <2>1, <2>2, <2>3 DEF ConnectTyped, StepTyped, PageTyped, Calling
<1>7. CASE PageStale
  <2>1. /\ AskPage(NoCursor, 0) /\ UNCHANGED <<resume, history>> /\ 0 \in 0..MaxPages
        /\ rows' = <<>> /\ restarts' = 1
    BY <1>0, <1>7 DEF PageStale
  <2>2. /\ ChildTyped' /\ ClientTyped' /\ step' = "page"
        /\ pages' \in 0..MaxPages /\ attempt' \in 0..BusyRetries /\ cursor' \in Page
    BY <1>0, <2>1, AskPageTyped
  <2> QED
    BY <1>0, <1>1, <2>1, <2>2 DEF ConnectTyped, StepTyped, PageTyped, Calling
<1>8. CASE PageFails
  <2>1. /\ UNCHANGED <<resume, rows, history>>
        /\ \/ Send("messages") /\ UNCHANGED <<pages, attempt, restarts, cursor>>
           \/ Hydrated
    BY <1>8 DEF PageFails
  <2>2. CASE Send("messages") /\ UNCHANGED <<pages, attempt, restarts, cursor>>
    <3>1. ChildTyped' /\ ClientTyped' /\ step' = "messages"
      BY <1>0, <2>2, SendTyped
    <3> QED
      BY <1>0, <1>1, <2>1, <2>2, <3>1 DEF ConnectTyped, StepTyped, PageTyped, Calling
  <2>3. CASE Hydrated
    BY <1>0, <1>1, <2>1, <2>3, HydratedTyped DEF ConnectTyped, StepTyped, PageTyped
  <2> QED
    BY <2>1, <2>2, <2>3
<1>9. CASE MessagesCome
  <2>1. /\ Hydrated /\ UNCHANGED <<resume, history>>
        /\ rows' = <<[history |-> history, page |-> 1]>> \/ rows' = rows
    BY <1>9 DEF MessagesCome
  <2>2. [history |-> history, page |-> 1] \in Page
    BY <1>0 DEF PageTyped, Page
  <2>3. rows' \in Seq(Page)
    <3>1. rows \in Seq(Page)
      BY <1>0 DEF PageTyped
    <3>2. \A x \in Page : <<x>> \in Seq(Page)
      OBVIOUS
    <3> QED
      BY <2>1, <2>2, <3>1, <3>2
  <2> QED
    BY <1>0, <1>1, <2>1, <2>3, HydratedTyped DEF ConnectTyped, StepTyped, PageTyped
<1> QED
  BY <1>2, <1>3, <1>4, <1>5, <1>6, <1>7, <1>8, <1>9 DEF HandshakeStep

LEMMA BeginCloseTyped ==
  ASSUME ClientTyped, BeginClose
  PROVE  /\ link' \in {"up", "closing", "announced"}
         /\ reply' \in {"none", "waiting", "ok", "timeout", "died"}
BY DEF BeginClose, ClientTyped

\* Taking the first event away.
LEMMA EventsTail ==
  ASSUME ClientTyped, events # <<>>, events' = Tail(events)
  PROVE  events' \in Seq({0, Closed}) /\ Len(events') <= EventCap
<1>1. /\ events \in Seq({0, Closed}) /\ Len(events) \in Nat /\ Len(events) <= EventCap
      /\ EventCap \in Nat
  BY ConnectAssumption DEF ClientTyped
<1>2. Tail(events) \in Seq({0, Closed}) /\ Len(Tail(events)) = Len(events) - 1
  BY <1>1
<1> QED
  BY <1>1, <1>2

\* Putting one more event into a channel with room.
LEMMA EventsAppend ==
  ASSUME ClientTyped, Len(events) < EventCap, NEW e \in {0, Closed}, events' = Append(events, e)
  PROVE  events' \in Seq({0, Closed}) /\ Len(events') <= EventCap
<1>1. events \in Seq({0, Closed}) /\ Len(events) \in Nat /\ EventCap \in Nat
  BY ConnectAssumption DEF ClientTyped
<1>2. Append(events, e) \in Seq({0, Closed}) /\ Len(Append(events, e)) = Len(events) + 1
  BY <1>1
<1> QED
  BY <1>1, <1>2

LEMMA RouteFrameTyped == ASSUME ClientTyped, RouteFrame PROVE ClientTyped'
<1>1. /\ hand' = NoFrame /\ UNCHANGED <<stdin, link>>
      /\ \/ reply' = "ok" /\ UNCHANGED events
         \/ reply' = reply /\ UNCHANGED events
         \/ reply' = reply /\ Len(events) < EventCap /\ events' = Append(events, 0)
  BY DEF RouteFrame
<1>2. events' \in Seq({0, Closed}) /\ Len(events') <= EventCap
  <2>1. CASE events' = events
    BY <2>1 DEF ClientTyped
  <2>2. CASE Len(events) < EventCap /\ events' = Append(events, 0)
    BY <2>2, EventsAppend
  <2> QED
    BY <1>1, <2>1, <2>2
<1> QED
  BY <1>1, <1>2 DEF ClientTyped

LEMMA ReadFrameTyped ==
  ASSUME ChildTyped, ClientTyped, ReadFrame PROVE ChildTyped' /\ ClientTyped'
<1>1. /\ out # <<>> /\ out' = Tail(out)
      /\ UNCHANGED <<childUp, taken, said, calls, stdin, events>>
      /\ IF Head(out) = Bad THEN BeginClose /\ UNCHANGED hand
         ELSE hand' = Head(out) /\ UNCHANGED <<link, reply>>
  BY DEF ReadFrame
<1>2. out \in Seq(0..Bad) /\ MaxCalls \in Nat /\ Bad = MaxCalls + 1
  BY ConnectAssumption DEF ChildTyped, Bad
<1>3. Tail(out) \in Seq(0..Bad) /\ Head(out) \in 0..Bad
  BY <1>1, <1>2
<1>4. Head(out) # Bad => Head(out) \in 0..MaxCalls
  BY <1>2, <1>3
<1>5. ChildTyped'
  BY <1>1, <1>3 DEF ChildTyped
<1>6. CASE Head(out) = Bad
  <2>1. /\ link' \in {"up", "closing", "announced"} /\ hand' = hand
        /\ reply' \in {"none", "waiting", "ok", "timeout", "died"}
    BY <1>1, <1>6, BeginCloseTyped
  <2>2. stdin' = stdin /\ events' = events
    BY <1>1
  <2>3. ClientTyped'
    BY <2>1, <2>2 DEF ClientTyped
  <2> QED
    BY <1>5, <2>3
<1>7. CASE Head(out) # Bad
  <2>1. hand' \in 0..MaxCalls /\ link' = link /\ reply' = reply
    BY <1>1, <1>4, <1>7
  <2>2. stdin' = stdin /\ events' = events
    BY <1>1
  <2>3. ClientTyped'
    BY <2>1, <2>2 DEF ClientTyped
  <2> QED
    BY <1>5, <2>3
<1> QED
  BY <1>5, <1>6, <1>7

\* The tasks of the client and the child: nothing but them is touched.
LEMMA ClientStepTyped ==
  ASSUME ConnectTyped,
         ClientStep \/ PumpReceives \/ WriteLine \/ ChildSays \/ ChildEnds
  PROVE  ConnectTyped'
<1>0. StepTyped /\ PageTyped /\ ChildTyped /\ ClientTyped /\ DownTyped
  BY DEF ConnectTyped
<1>1. UNCHANGED connectVars /\ UNCHANGED downVars
  BY DEF ClientStep, TimerFires, CloseStdin, ReadFrame, DeathSeen, RouteFrame, AnnounceClosed,
         PumpReceives, WriteLine, ChildSays, ChildEnds
<1>2. StepTyped' /\ PageTyped' /\ DownTyped'
  BY <1>0, <1>1, StepTypedStays, PageTypedStays, DownTypedStays DEF connectVars
<1>3. CASE TimerFires
  BY <1>0, <1>2, <1>3, ChildTypedStays DEF ConnectTyped, TimerFires, ClientTyped
<1>4. CASE CloseStdin
  BY <1>0, <1>2, <1>4, ChildTypedStays DEF ConnectTyped, CloseStdin, ClientTyped
<1>5. CASE ReadFrame
  BY <1>0, <1>2, <1>5, ReadFrameTyped DEF ConnectTyped
<1>6. CASE DeathSeen
  BY <1>0, <1>2, <1>6, ChildTypedStays, BeginCloseTyped DEF ConnectTyped, DeathSeen, ClientTyped
<1>7. CASE RouteFrame
  <2>1. ChildTyped'
    BY <1>0, <1>7, ChildTypedStays DEF RouteFrame
  <2> QED
    BY <1>0, <1>2, <1>7, <2>1, RouteFrameTyped DEF ConnectTyped
<1>8. CASE AnnounceClosed
  <2>1. Len(events) < EventCap /\ events' = Append(events, Closed) /\ link' = "announced"
        /\ UNCHANGED <<childVars, calls, reply, stdin, hand>>
    BY <1>8 DEF AnnounceClosed
  <2>2. events' \in Seq({0, Closed}) /\ Len(events') <= EventCap
    BY <1>0, <2>1, EventsAppend
  <2> QED
    BY <1>0, <1>2, <2>1, <2>2, ChildTypedStays DEF ConnectTyped, ClientTyped
<1>9. CASE PumpReceives
  <2>1. events # <<>> /\ events' = Tail(events) /\ UNCHANGED <<childVars, calls, reply, stdin, hand, link>>
    BY <1>9 DEF PumpReceives
  <2>2. events' \in Seq({0, Closed}) /\ Len(events') <= EventCap
    BY <1>0, <2>1, EventsTail
  <2> QED
    BY <1>0, <1>2, <2>1, <2>2, ChildTypedStays DEF ConnectTyped, ClientTyped
<1>10. CASE WriteLine \/ ChildSays \/ ChildEnds
  <2>1. ClientTyped'
    BY <1>0, <1>10, ClientTypedStays DEF WriteLine, ChildSays, ChildEnds, clientVars
  <2>2. CASE WriteLine
    <3>1. calls \in Nat /\ taken \in 0..calls /\ taken < calls /\ taken' = taken + 1 /\ calls' = calls
      BY <1>0, <2>2, ConnectAssumption DEF WriteLine, ChildTyped, clientVars
    <3>2. taken' \in 0..calls'
      BY <3>1
    <3> QED
      BY <1>0, <1>2, <2>1, <2>2, <3>2 DEF WriteLine, ConnectTyped, ChildTyped, clientVars
  <2>3. CASE ChildSays
    <3>1. said < MaxSaid /\ said' = said + 1 /\ UNCHANGED <<childUp, taken, calls>>
          /\ \E frame \in (0..taken) \cup {Bad} : out' = <<frame>>
      BY <2>3 DEF ChildSays, clientVars
    <3>2. (0..taken) \cup {Bad} \subseteq 0..Bad
      BY <1>0, ConnectAssumption DEF ChildTyped, Bad
    <3>3. out' \in Seq(0..Bad)
      <4>1. PICK frame \in 0..Bad : out' = <<frame>>
        BY <3>1, <3>2
      <4> QED
        BY <4>1
    <3>4. said' \in 0..MaxSaid
      BY <1>0, <3>1, ConnectAssumption DEF ChildTyped
    <3> QED
      BY <1>0, <1>2, <2>1, <3>1, <3>3, <3>4 DEF ConnectTyped, ChildTyped
  <2>4. CASE ChildEnds
    BY <1>0, <1>2, <2>1, <2>4 DEF ChildEnds, ConnectTyped, ChildTyped, clientVars
  <2> QED
    BY <1>10, <2>2, <2>3, <2>4
<1> QED
  BY <1>3, <1>4, <1>5, <1>6, <1>7, <1>8, <1>9, <1>10 DEF ClientStep

LEMMA ShutdownTyped ==
  ASSUME ConnectTyped,
         BeginShutdown \/ ShutdownStep \/ (\E w \in Waiters : WaiterReceives(w))
  PROVE  ConnectTyped'
<1>0. StepTyped /\ PageTyped /\ ChildTyped /\ ClientTyped /\ DownTyped
  BY DEF ConnectTyped
<1>1. UNCHANGED connectVars
  BY DEF BeginShutdown, ShutdownStep, ExitsInTime, DeadlinePasses, KillChild, Reaped,
         WaiterReceives
<1>2. StepTyped' /\ PageTyped'
  BY <1>0, <1>1, StepTypedStays, PageTypedStays DEF connectVars
<1>3. CASE BeginShutdown
  BY <1>0, <1>2, <1>3, ChildTypedStays DEF ConnectTyped, BeginShutdown, ClientTyped, DownTyped, Waiters
<1>4. CASE ExitsInTime \/ DeadlinePasses \/ Reaped
  <2>1. ChildTyped' /\ ClientTyped'
    BY <1>0, <1>4, ChildTypedStays, ClientTypedStays DEF ExitsInTime, DeadlinePasses, Reaped, clientVars
  <2>2. DownTyped'
    BY <1>0, <1>4 DEF ExitsInTime, DeadlinePasses, Reaped, DownTyped, Waiters
  <2> QED
    BY <1>2, <2>1, <2>2 DEF ConnectTyped
<1>5. CASE KillChild
  <2>1. ClientTyped'
    BY <1>0, <1>5, ClientTypedStays DEF KillChild, clientVars
  <2> QED
    BY <1>0, <1>2, <1>5, <2>1 DEF ConnectTyped, KillChild, ChildTyped, DownTyped, clientVars
<1>6. CASE \E w \in Waiters : WaiterReceives(w)
  <2>1. PICK w \in Waiters : WaiterReceives(w)
    BY <1>6
  <2>2. /\ UNCHANGED <<childVars, calls, reply, stdin, hand, link, down, killer>>
        /\ \/ events # <<>> /\ events' = Tail(events)
           \/ events' = events
        /\ \/ waits' = waits
           \/ \E told \in {"told", "untold"} : waits' = [waits EXCEPT ![w] = told]
    BY <2>1 DEF WaiterReceives
  <2>3. events' \in Seq({0, Closed}) /\ Len(events') <= EventCap
    BY <1>0, <2>2, EventsTail DEF ClientTyped
  <2>4. waits' \in [Waiters -> {"idle", "waiting", "told", "untold"}]
    BY <1>0, <2>2 DEF DownTyped
  <2> QED
    BY <1>0, <1>2, <2>2, <2>3, <2>4, ChildTypedStays DEF ConnectTyped, ClientTyped, DownTyped
<1> QED
  BY <1>3, <1>4, <1>5, <1>6 DEF ShutdownStep

\* Every reachable state of a connect and its end is well typed (ConnectTypeOK): no
\* more calls, pages, retries and events than the code's limits allow.
THEOREM ConnectTypeCorrect == ConnectSpec => []ConnectTypeOK
<1>1. ConnectInit => ConnectTyped
  <2> SUFFICES ASSUME ConnectInit PROVE ConnectTyped
    OBVIOUS
  <2>1. /\ MaxCalls \in Nat /\ MaxPages \in Nat /\ BusyRetries \in Nat /\ MaxMoves \in Nat
        /\ MaxSaid \in Nat /\ EventCap \in Nat /\ NoCursor \in Page
    BY ConnectAssumption DEF NoCursor, Page
  <2>2. StepTyped /\ PageTyped
    BY <2>1 DEF ConnectInit, StepTyped, PageTyped
  <2>3. ChildTyped /\ ClientTyped
    <3>1. ChildTyped
      <4>1. childUp = FALSE /\ calls = 0 /\ taken = 0 /\ said = 0 /\ out = <<>>
        BY DEF ConnectInit
      <4>2. calls \in 0..MaxCalls /\ taken \in 0..calls /\ said \in 0..MaxSaid
        BY <2>1, <4>1
      <4>3. \A S : <<>> \in Seq(S)
        OBVIOUS
      <4>4. childUp \in BOOLEAN /\ out \in Seq(0..Bad)
        BY <4>1, <4>3
      <4> QED
        BY <4>2, <4>4 DEF ChildTyped
    <3>2. ClientTyped
      BY <2>1 DEF ConnectInit, ClientTyped
    <3> QED
      BY <3>1, <3>2
  <2>4. DownTyped
    BY DEF ConnectInit, DownTyped
  <2> QED
    BY <2>2, <2>3, <2>4 DEF ConnectTyped
<1>2. ConnectTyped /\ [ConnectNext]_ompVars => ConnectTyped'
  <2> SUFFICES ASSUME ConnectTyped, [ConnectNext]_ompVars PROVE ConnectTyped'
    OBVIOUS
  <2>0. StepTyped /\ PageTyped /\ ChildTyped /\ ClientTyped /\ DownTyped
    BY DEF ConnectTyped
  <2>1. CASE UNCHANGED ompVars
    BY <2>0, <2>1, StepTypedStays, PageTypedStays, ChildTypedStays, ClientTypedStays,
       DownTypedStays DEF ConnectTyped, ompVars, connectVars, clientVars
  <2>2. CASE Discover
    <3>1. PageTyped' /\ DownTyped' /\ resume' = resume
      BY <2>0, <2>2, PageTypedStays, DownTypedStays DEF Discover
    <3>2. Spawn \/ (step' = "failed" /\ UNCHANGED <<childVars, clientVars>>)
      BY <2>2 DEF Discover
    <3>3. ChildTyped' /\ ClientTyped' /\ step' \in {"spawned", "failed"}
      BY <2>0, <3>2, SpawnTyped, ChildTypedStays, ClientTypedStays DEF clientVars
    <3> QED
      BY <2>0, <3>1, <3>3 DEF ConnectTyped, StepTyped
  <2>3. CASE ReadReady
    <3>1. PageTyped' /\ DownTyped'
      BY <2>0, <2>3, PageTypedStays, DownTypedStays DEF ReadReady
    <3>2. (Send("negotiate") /\ resume' = resume) \/ ConnectFails
      BY <2>3 DEF ReadReady
    <3>3. ChildTyped' /\ ClientTyped' /\ step' \in {"negotiate", "spawned", "failed"}
          /\ resume' \in BOOLEAN
      <4>1. CASE ConnectFails
        BY <2>0, <4>1, ConnectFailsTyped
      <4>2. CASE Send("negotiate") /\ resume' = resume
        BY <2>0, <4>2, SendTyped DEF StepTyped
      <4> QED
        BY <3>2, <4>1, <4>2
    <3> QED
      BY <3>1, <3>3 DEF ConnectTyped, StepTyped, Calling
  <2>4. CASE HandshakeStep
    BY <2>4, HandshakeTyped
  <2>5. CASE HistoryMoves
    <3>1. /\ history < MaxMoves /\ history' = history + 1
          /\ UNCHANGED <<step, resume, pageVars, childVars, clientVars, downVars>>
      BY <2>5 DEF HistoryMoves
    <3>2. history' \in 0..MaxMoves
      BY <2>0, <3>1, ConnectAssumption DEF PageTyped
    <3>3. PageTyped'
      BY <2>0, <3>1, <3>2 DEF PageTyped, pageVars
    <3> QED
      BY <2>0, <3>1, <3>3, StepTypedStays, ChildTypedStays, ClientTypedStays,
         DownTypedStays DEF ConnectTyped, clientVars
  <2>6. CASE ClientStep \/ PumpReceives \/ WriteLine \/ ChildSays \/ ChildEnds
    BY <2>6, ClientStepTyped
  <2>7. CASE BeginShutdown \/ ShutdownStep \/ (\E w \in Waiters : WaiterReceives(w))
    BY <2>7, ShutdownTyped
  <2> QED
    BY <2>1, <2>2, <2>3, <2>4, <2>5, <2>6, <2>7 DEF ConnectNext
<1>3. ConnectTyped => ConnectTypeOK
  BY ConnectTypeParts DEF ConnectTyped
<1> QED
  BY <1>1, <1>2, <1>3, PTL DEF ConnectSpec

=============================================================================
