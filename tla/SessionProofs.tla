---------------------------- MODULE SessionProofs ----------------------------
(***************************************************************************)
(* What is proved of Supervisor for every limit, window, ring and bound,   *)
(* and of Session for every set of connections and every bound: the        *)
(* session drives its supervisor only as Supervisor allows, so everything  *)
(* proved of the one holds in the other, and one client, one pump and one  *)
(* supervisor stay together whatever tasks are in flight.                  *)
(***************************************************************************)
EXTENDS Session, TLAPS

-----------------------------------------------------------------------------
(* Sequences.                                                               *)

\* Appending keeps the elements and adds one behind them.
LEMMA AppendFacts ==
  ASSUME NEW S, NEW s \in Seq(S), NEW e \in S
  PROVE  /\ Append(s, e) \in Seq(S)
         /\ Len(Append(s, e)) = Len(s) + 1
         /\ DOMAIN Append(s, e) = 1..Len(s)+1
         /\ \A i \in 1..Len(s) : Append(s, e)[i] = s[i]
         /\ Append(s, e)[Len(s)+1] = e
  OBVIOUS

\* The end of a sequence from its k-th element on.
LEMMA SuffixFacts ==
  ASSUME NEW S, NEW s \in Seq(S), NEW k \in 1..Len(s)
  PROVE  /\ SubSeq(s, k, Len(s)) \in Seq(S)
         /\ Len(SubSeq(s, k, Len(s))) = Len(s) - k + 1
         /\ \A i \in 1..Len(s)-k+1 : SubSeq(s, k, Len(s))[i] = s[k+i-1]
  OBVIOUS

LEMMA EmptyIsSeq == \A S : <<>> \in Seq(S)
  OBVIOUS

\* Concatenation puts the second sequence behind the first.
LEMMA ConcatFacts ==
  ASSUME NEW S, NEW s \in Seq(S), NEW t \in Seq(S)
  PROVE  /\ s \o t \in Seq(S)
         /\ Len(s \o t) = Len(s) + Len(t)
         /\ \A i \in 1..Len(s) : (s \o t)[i] = s[i]
         /\ \A i \in 1..Len(t) : (s \o t)[Len(s) + i] = t[i]
  OBVIOUS

\* A new ring is within its capacity.
LEMMA EmptyRing == <<>> \in Seq(Byte) /\ Len(<<>>) <= RingCap
  BY SupervisorAssumption

\* A chunk is a sequence of bytes.
LEMMA ChunkIsSeq == Chunk \subseteq Seq(Byte)
<1> SUFFICES ASSUME NEW n \in 0..MaxChunk, NEW c \in [1..n -> Byte] PROVE c \in Seq(Byte)
  BY DEF Chunk
<1> QED
  BY SupervisorAssumption

\* The last bytes of a sequence are bytes, as many as asked for or as there are.
LEMMA LastBytesFacts ==
  ASSUME NEW s \in Seq(Byte), NEW n \in Nat
  PROVE  /\ LastBytes(s, n) \in Seq(Byte)
         /\ Len(LastBytes(s, n)) = IF Len(s) > n THEN n ELSE Len(s)
         /\ \A i \in 1..Len(LastBytes(s, n)) :
              LastBytes(s, n)[i] = s[i + (IF Len(s) > n THEN Len(s) - n ELSE 0)]
<1>1. CASE Len(s) > n
  <2>1. LastBytes(s, n) = SubSeq(s, Len(s) - n + 1, Len(s))
    BY <1>1 DEF LastBytes
  <2>2. CASE n = 0
    BY <1>1, <2>1, <2>2
  <2>3. CASE n # 0
    <3>1. Len(s) - n + 1 \in 1..Len(s)
      BY <1>1, <2>3
    <3> QED
      BY <1>1, <2>1, <3>1, SuffixFacts
  <2> QED
    BY <2>2, <2>3
<1>2. CASE ~(Len(s) > n)
  <2>1. LastBytes(s, n) = SubSeq(s, 1, Len(s))
    BY <1>2 DEF LastBytes
  <2>2. SubSeq(s, 1, Len(s)) = s
    OBVIOUS
  <2> QED
    BY <1>2, <2>1, <2>2
<1> QED
  BY <1>1, <1>2

-----------------------------------------------------------------------------
(* Type correctness.                                                        *)

\* What a death leaves in the breaker: instants.
LEMMA RecordTypes ==
  ASSUME SupTypeOK, RecordDeath
  PROVE  breaker' \in Seq(Nat)
<1> DEFINE pushed == Append(breaker, now)
<1>1. pushed \in Seq(Nat)
  BY AppendFacts DEF SupTypeOK
<1>2. PICK k \in 1..Len(pushed) : breaker' = SubSeq(pushed, k, Len(pushed))
  BY DEF RecordDeath
<1> HIDE DEF pushed
<1> QED
  BY <1>1, <1>2, SuffixFacts

\* Pushing bytes onto bytes gives bytes, never more than the capacity.
LEMMA PushTypes ==
  ASSUME NEW chunk \in Seq(Byte), ring \in Seq(Byte), Len(ring) <= RingCap
  PROVE  Push(chunk) \in Seq(Byte) /\ Len(Push(chunk)) <= RingCap
<1>1. CASE RingCap = 0
  BY <1>1 DEF Push
<1>2. CASE RingCap # 0 /\ Len(chunk) >= RingCap
  <2>1. Push(chunk) = LastBytes(chunk, RingCap)
    BY <1>2 DEF Push
  <2> QED
    BY <1>2, <2>1, LastBytesFacts, SupervisorAssumption
<1>3. CASE RingCap # 0 /\ ~(Len(chunk) >= RingCap)
  <2> DEFINE rest == RingCap - Len(chunk)
             kept == LastBytes(ring, rest)
  <2>1. rest \in Nat /\ Len(chunk) \in Nat /\ RingCap \in Nat
    BY <1>3, SupervisorAssumption
  <2>2. rest + Len(chunk) = RingCap
    BY <2>1
  <2>3. Push(chunk) = kept \o chunk
    BY <1>3 DEF Push
  <2> HIDE DEF rest
  <2>4. kept \in Seq(Byte) /\ Len(kept) \in Nat /\ Len(kept) <= rest
    <3>1. kept \in Seq(Byte) /\ Len(kept) = IF Len(ring) > rest THEN rest ELSE Len(ring)
      BY <2>1, LastBytesFacts
    <3> QED
      BY <2>1, <3>1
  <2> HIDE DEF kept
  <2>5. kept \o chunk \in Seq(Byte) /\ Len(kept \o chunk) = Len(kept) + Len(chunk)
    BY <2>4, ConcatFacts
  <2> QED
    BY <2>1, <2>2, <2>3, <2>4, <2>5
<1> QED
  BY <1>1, <1>2, <1>3

\* Every reachable supervisor is well typed (SupTypeOK).
THEOREM SupTypeCorrect == SupSpec => []SupTypeOK
<1>1. SupInit => SupTypeOK
  BY EmptyIsSeq, SupervisorAssumption DEF SupInit, SupTypeOK, State
<1>2. SupTypeOK /\ [SupNext]_supVars => SupTypeOK'
  <2> SUFFICES ASSUME SupTypeOK, [SupNext]_supVars PROVE SupTypeOK'
    OBVIOUS
  <2>1. ASSUME NEW tail \in Chunk, OnChildDied(tail) PROVE SupTypeOK'
    <3>1. breaker' \in Seq(Nat)
      BY <2>1, RecordTypes DEF OnChildDied
    <3>2. Len(breaker') \in Nat /\ Tripped \in BOOLEAN
      BY <3>1 DEF Tripped
    <3>3. state' \in State
      BY <2>1, <3>2, ChunkIsSeq DEF OnChildDied, SupTypeOK, State, Dead, Restarting
    <3>4. log' \in Seq([at : Nat, verdict : {"dead", "restart"}])
      <4>1. [at |-> now, verdict |-> IF Tripped THEN "dead" ELSE "restart"] \in [at : Nat, verdict : {"dead", "restart"}]
        BY <3>2 DEF SupTypeOK
      <4>2. log' = Append(log, [at |-> now, verdict |-> IF Tripped THEN "dead" ELSE "restart"])
        BY <2>1 DEF OnChildDied
      <4> QED
        BY <4>1, <4>2, AppendFacts DEF SupTypeOK
    <3> QED
      BY <2>1, <3>1, <3>3, <3>4 DEF OnChildDied, SupTypeOK
  <2>2. ASSUME NEW tail \in Chunk, OnExplicitShutdown(tail) PROVE SupTypeOK'
    BY <2>2, ChunkIsSeq DEF OnExplicitShutdown, SupTypeOK, State, Dead
  <2>3. ASSUME NEW tail \in Chunk, OnFatal(tail) PROVE SupTypeOK'
    BY <2>3, ChunkIsSeq DEF OnFatal, SupTypeOK, State, Dead
  <2>4. CASE OnChildRunning
    BY <2>4 DEF OnChildRunning, SupTypeOK, State
  <2>5. CASE Reset
    BY <2>5, EmptyIsSeq, EmptyRing DEF Reset, SupTypeOK, State, Restarting
  <2>6. CASE Replace
    BY <2>6, EmptyIsSeq, EmptyRing DEF Replace, Fresh, SupTypeOK, State
  <2>7. ASSUME NEW chunk \in Chunk, RecordStderr(chunk) PROVE SupTypeOK'
    <3>1. chunk \in Seq(Byte)
      BY ChunkIsSeq
    <3>2. ring' \in Seq(Byte) /\ Len(ring') <= RingCap
      BY <2>7, <3>1, PushTypes DEF RecordStderr, SupTypeOK
    <3> QED
      BY <2>7, <3>1, <3>2 DEF RecordStderr, SupTypeOK
  <2>8. CASE Tick
    BY <2>8 DEF Tick, SupTypeOK
  <2>9. CASE UNCHANGED supVars
    BY <2>9 DEF supVars, SupTypeOK
  <2> QED
    BY <2>1, <2>2, <2>3, <2>4, <2>5, <2>6, <2>7, <2>8, <2>9 DEF SupNext
<1> QED
  BY <1>1, <1>2, PTL DEF SupSpec

-----------------------------------------------------------------------------
(* The breaker.                                                             *)

BreakerInv == BreakerFollowsLog /\ RestartsAreSpaced /\ SlowDripSurvives

Entry == [at : Nat, verdict : {"dead", "restart"}]

\* One death: the eviction loop leaves in the breaker exactly the deaths within
\* a window of this one, and the verdict is about their number.
LEMMA DeathKeepsBreaker ==
  ASSUME SupTypeOK, BreakerInv, NEW tail, OnChildDied(tail)
  PROVE  BreakerInv'
<1> DEFINE N == Len(log)
           B == Len(breaker)
           C == N - B
           pushed == Append(breaker, now)
           entry == [at |-> now, verdict |-> IF Tripped THEN "dead" ELSE "restart"]
<1>1. /\ N \in Nat /\ B \in Nat /\ B <= N /\ now \in Nat
      /\ log \in Seq(Entry) /\ breaker \in Seq(Nat)
      /\ DOMAIN log = 1..N /\ DOMAIN breaker = 1..B
      /\ Limit \in Nat \ {0} /\ Window \in Nat \ {0}
  BY SupervisorAssumption DEF SupTypeOK, Entry, BreakerInv, BreakerFollowsLog
<1>2. /\ pushed \in Seq(Nat) /\ Len(pushed) = B + 1
      /\ \A i \in 1..B : pushed[i] = breaker[i]
      /\ pushed[B+1] = now
  BY <1>1, AppendFacts
<1>3. PICK k \in 1..B+1 : /\ \A i \in 1..k-1 : now - pushed[i] >= Window
                          /\ now - pushed[k] < Window
                          /\ breaker' = SubSeq(pushed, k, B+1)
  <2>1. \A t \in Nat : ~Stale(t) => now - t < Window
    BY <1>1 DEF Stale
  <2>2. PICK j \in 1..B+1 : /\ \A i \in 1..j-1 : Stale(pushed[i])
                            /\ ~Stale(pushed[j])
                            /\ breaker' = SubSeq(pushed, j, B+1)
    BY <1>2 DEF OnChildDied, RecordDeath
  <2>3. pushed[j] \in Nat
    BY <1>1, <1>2
  <2>4. now - pushed[j] < Window
    BY <2>1, <2>2, <2>3
  <2>5. \A i \in 1..j-1 : now - pushed[i] >= Window
    BY <2>2 DEF Stale
  <2> QED
    BY <2>2, <2>4, <2>5
<1>4. /\ breaker' \in Seq(Nat) /\ Len(breaker') = B - k + 2
      /\ \A i \in 1..B-k+2 : breaker'[i] = pushed[k+i-1]
  <2>1. k \in 1..Len(pushed)
    BY <1>2
  <2>2. Len(pushed) - k + 1 = B - k + 2
    BY <1>1, <1>2
  <2>3. breaker' = SubSeq(pushed, k, Len(pushed))
    BY <1>2, <1>3
  <2>4. /\ SubSeq(pushed, k, Len(pushed)) \in Seq(Nat)
        /\ Len(SubSeq(pushed, k, Len(pushed))) = Len(pushed) - k + 1
        /\ \A i \in 1..Len(pushed)-k+1 : SubSeq(pushed, k, Len(pushed))[i] = pushed[k+i-1]
    <3> HIDE DEF pushed
    <3> QED
      BY <1>2, <2>1, SuffixFacts
  <2> HIDE DEF pushed, B
  <2> QED
    BY <2>2, <2>3, <2>4
<1>5. /\ Tripped \in BOOLEAN
      /\ Tripped <=> B - k + 2 >= Limit
  BY <1>4 DEF Tripped
<1>6. /\ log' \in Seq(Entry) /\ Len(log') = N + 1 /\ DOMAIN log' = 1..N+1
      /\ \A i \in 1..N : log'[i] = log[i]
      /\ log'[N+1] = entry
  <2>1. entry \in Entry
    BY <1>1, <1>5 DEF Entry
  <2>2. log' = Append(log, entry)
    BY DEF OnChildDied
  <2> HIDE DEF entry
  <2> QED
    BY <1>1, <2>1, <2>2, AppendFacts
<1>7. /\ log'[N+1].at = now
      /\ log'[N+1].verdict = (IF Tripped THEN "dead" ELSE "restart")
      /\ now' = now
  <2>1. log'[N+1].at = now
    BY <1>6
  <2>2. log'[N+1].verdict = IF Tripped THEN "dead" ELSE "restart"
    BY <1>6
  <2>3. now' = now
    BY DEF OnChildDied
  <2> QED
    BY <2>1, <2>2, <2>3
<1> HIDE DEF pushed, entry
<1>8. /\ \A i, j \in 1..N : i < j => log[i].at <= log[j].at
      /\ \A i \in 1..N : log[i].at \in Nat /\ log[i].at <= now
      /\ \A i \in 1..B : breaker[i] = log[C+i].at
      /\ \A i \in 1..C : log[N].at - log[i].at >= Window
  <2>1. DOMAIN log = 1..N /\ DOMAIN breaker = 1..B
    BY <1>1
  <2>2. \A i \in 1..N : log[i] \in Entry
    BY <1>1
  <2> QED
    BY <2>1, <2>2 DEF BreakerInv, BreakerFollowsLog, Counted, Entry
<1> HIDE DEF N, B, C
<1>20. C = N - B
  BY DEF C
<1>9. \A i \in 1..N+1 : log'[i].at \in Nat /\ log'[i].at <= now
  <2> SUFFICES ASSUME NEW i \in 1..N+1 PROVE log'[i].at \in Nat /\ log'[i].at <= now
    OBVIOUS
  <2>1. CASE i = N+1
    BY <1>1, <1>7, <2>1
  <2>2. CASE i \in 1..N
    BY <1>6, <1>8, <2>2
  <2> QED
    BY <1>1, <2>1, <2>2
<1>10. \A i, j \in 1..N+1 : i < j => log'[i].at <= log'[j].at
  <2> SUFFICES ASSUME NEW i \in 1..N+1, NEW j \in 1..N+1, i < j
               PROVE  log'[i].at <= log'[j].at
    OBVIOUS
  <2>1. CASE j = N+1
    BY <1>7, <1>9, <2>1
  <2>2. CASE j # N+1
    <3>1. i \in 1..N /\ j \in 1..N
      BY <1>1, <1>20, <2>2
    <3> QED
      BY <1>6, <1>8, <3>1
  <2> QED
    BY <2>1, <2>2
<1>11. \A i \in 1..B+1 : pushed[i] = log'[C+i].at
  <2> SUFFICES ASSUME NEW i \in 1..B+1 PROVE pushed[i] = log'[C+i].at
    OBVIOUS
  <2>1. CASE i = B+1
    BY <1>1, <1>20, <1>2, <1>7, <2>1
  <2>2. CASE i # B+1
    <3>1. i \in 1..B /\ C+i \in 1..N
      BY <1>1, <1>20, <2>2
    <3> QED
      BY <1>2, <1>6, <1>8, <3>1
  <2> QED
    BY <2>1, <2>2
<1>12. \A i \in 1..C+k-1 : now - log'[i].at >= Window
  <2> SUFFICES ASSUME NEW i \in 1..C+k-1 PROVE now - log'[i].at >= Window
    OBVIOUS
  <2>1. CASE i <= C
    <3>1. i \in 1..C /\ i \in 1..N /\ N \in 1..N
      BY <1>1, <1>20, <2>1
    <3>2. log[N].at - log[i].at >= Window /\ log[N].at <= now /\ log'[i] = log[i]
      BY <1>6, <1>8, <3>1
    <3>3. log[N].at \in Nat /\ log[i].at \in Nat
      BY <1>8, <3>1
    <3>4. log'[i].at = log[i].at
      BY <3>2
    <3> QED
      BY <1>1, <3>2, <3>3, <3>4
  <2>2. CASE ~(i <= C)
    <3>1. i - C \in 1..k-1 /\ i - C \in 1..B+1 /\ C + (i - C) = i
      BY <1>1, <1>20, <2>2
    <3> QED
      BY <1>3, <1>11, <3>1
  <2> QED
    BY <2>1, <2>2
<1>13. Counted' = C + k - 1
  BY <1>1, <1>20, <1>4, <1>6 DEF Counted, N, B
<1>14. BreakerFollowsLog'
  <2>1. Len(breaker)' <= Len(log)'
    BY <1>1, <1>20, <1>4, <1>6
  <2>2. \A i, j \in DOMAIN log' : i < j => log'[i].at <= log'[j].at
    BY <1>6, <1>10
  <2>3. \A i \in DOMAIN log' : log'[i].at <= now'
    BY <1>6, <1>7, <1>9
  <2>4. \A i \in DOMAIN breaker' : breaker'[i] = log'[Counted' + i].at
    <3> SUFFICES ASSUME NEW i \in 1..B-k+2 PROVE breaker'[i] = log'[Counted' + i].at
      BY <1>4
    <3>1. k+i-1 \in 1..B+1 /\ C + (k+i-1) = Counted' + i
      BY <1>1, <1>20, <1>13
    <3> QED
      BY <1>4, <1>11, <3>1
  <2>5. \A i \in 1..Counted' : log'[Len(log')].at - log'[i].at >= Window
    BY <1>6, <1>7, <1>12, <1>13
  <2> QED
    BY <2>1, <2>2, <2>3, <2>4, <2>5 DEF BreakerFollowsLog
<1>15. ~Tripped /\ N+1 >= Limit => now - log'[N+1-Limit+1].at >= Window
  <2> SUFFICES ASSUME ~Tripped, N+1 >= Limit PROVE N+1-Limit+1 \in 1..C+k-1
    BY <1>12
  <2> QED
    BY <1>1, <1>20, <1>5
<1>16. Tripped => N+1 >= Limit /\ now - log'[N+1-Limit+1].at < Window
  <2> SUFFICES ASSUME Tripped PROVE N+1 >= Limit /\ now - log'[N+1-Limit+1].at < Window
    OBVIOUS
  <2>1. N+1 >= Limit /\ C+k \in 1..N+1 /\ N+1-Limit+1 \in 1..N+1 /\ C+k <= N+1-Limit+1
    BY <1>1, <1>20, <1>5
  <2>2. log'[C+k].at <= log'[N+1-Limit+1].at
    <3>1. CASE C+k = N+1-Limit+1
      BY <1>9, <2>1, <3>1
    <3>2. CASE C+k # N+1-Limit+1
      <4>1. C+k < N+1-Limit+1
        BY <1>1, <1>20, <2>1, <3>2
      <4> QED
        BY <1>10, <2>1, <4>1
    <3> QED
      BY <3>1, <3>2
  <2>3. now - log'[C+k].at < Window
    BY <1>3, <1>11
  <2>4. log'[C+k].at \in Nat /\ log'[N+1-Limit+1].at \in Nat
    BY <1>9, <2>1
  <2> QED
    BY <1>1, <1>20, <2>1, <2>2, <2>3, <2>4
<1>17. \A i \in 1..N : (i >= Limit => i-Limit+1 \in 1..N)
  BY <1>1
<1>18. RestartsAreSpaced'
  <2> SUFFICES ASSUME NEW i \in 1..N+1, i >= Limit, log'[i].verdict = "restart"
               PROVE  log'[i].at - log'[i-Limit+1].at >= Window
    BY <1>6 DEF RestartsAreSpaced
  <2>1. CASE i = N+1
    <3>1. ~Tripped
      BY <1>7, <2>1
    <3>2. now - log'[N+1-Limit+1].at >= Window
      BY <1>15, <2>1, <3>1
    <3>3. log'[i].at = now
      BY <1>7, <2>1
    <3> QED
      BY <1>1, <2>1, <3>2, <3>3
  <2>2. CASE i # N+1
    <3>1. i \in 1..N /\ i \in DOMAIN log /\ i-Limit+1 \in 1..N
      BY <1>1, <1>20, <1>17, <2>2
    <3>2. log'[i] = log[i] /\ log'[i-Limit+1] = log[i-Limit+1]
      BY <1>6, <3>1
    <3> QED
      BY <3>1, <3>2 DEF BreakerInv, RestartsAreSpaced
  <2> QED
    BY <2>1, <2>2
<1>19. SlowDripSurvives'
  <2> SUFFICES ASSUME NEW i \in 1..N+1, log'[i].verdict = "dead"
               PROVE  i >= Limit /\ log'[i].at - log'[i-Limit+1].at < Window
    BY <1>6 DEF SlowDripSurvives
  <2>1. CASE i = N+1
    <3>1. Tripped
      BY <1>7, <2>1
    <3>2. N+1 >= Limit /\ now - log'[N+1-Limit+1].at < Window
      BY <1>16, <3>1
    <3>3. log'[i].at = now
      BY <1>7, <2>1
    <3> QED
      BY <1>1, <2>1, <3>2, <3>3
  <2>2. CASE i # N+1
    <3>1. i \in 1..N /\ i \in DOMAIN log
      BY <1>1, <1>20, <2>2
    <3>2. log'[i] = log[i]
      BY <1>6, <3>1
    <3>3. i >= Limit /\ log[i].at - log[i-Limit+1].at < Window
      BY <3>1, <3>2 DEF BreakerInv, SlowDripSurvives
    <3>4. log'[i-Limit+1] = log[i-Limit+1]
      BY <1>6, <1>17, <3>1, <3>3
    <3> QED
      BY <3>2, <3>3, <3>4
  <2> QED
    BY <2>1, <2>2
<1> QED
  BY <1>14, <1>18, <1>19 DEF BreakerInv

\* The breaker and its log agree, and every verdict is the right one.
THEOREM BreakerInvariant == SupSpec => []BreakerInv
<1>1. SupInit => BreakerInv
  BY DEF SupInit, BreakerInv, BreakerFollowsLog, Counted, RestartsAreSpaced, SlowDripSurvives
<1>2. SupTypeOK /\ BreakerInv /\ [SupNext]_supVars => BreakerInv'
  <2> SUFFICES ASSUME SupTypeOK, BreakerInv, [SupNext]_supVars PROVE BreakerInv'
    OBVIOUS
  <2>1. ASSUME NEW tail, OnChildDied(tail) PROVE BreakerInv'
    BY <2>1, DeathKeepsBreaker
  <2>2. ASSUME breaker' = <<>>, log' = <<>> PROVE BreakerInv'
    BY <2>2 DEF BreakerInv, BreakerFollowsLog, Counted, RestartsAreSpaced, SlowDripSurvives
  <2>3. CASE Reset \/ Replace
    BY <2>2, <2>3 DEF Reset, Replace, Fresh
  <2>4. ASSUME UNCHANGED <<breaker, log>>, now' \in Nat, now' >= now PROVE BreakerInv'
    <3>1. \A i \in DOMAIN log : log[i].at \in Nat
      <4>1. log \in Seq(Entry)
        BY DEF SupTypeOK, Entry
      <4>2. \A i \in DOMAIN log : log[i] \in Entry
        BY <4>1
      <4> QED
        BY <4>2 DEF Entry
    <3>2. \A i \in DOMAIN log : log[i].at <= now'
      BY <2>4, <3>1 DEF SupTypeOK, BreakerInv, BreakerFollowsLog
    <3> QED
      BY <2>4, <3>2 DEF BreakerInv, BreakerFollowsLog, Counted, RestartsAreSpaced, SlowDripSurvives
  <2>5. CASE Tick
    BY <2>4, <2>5 DEF Tick, SupTypeOK
  <2>6. ASSUME NEW tail, OnExplicitShutdown(tail) \/ OnFatal(tail) \/ OnChildRunning
                         \/ RecordStderr(tail) \/ UNCHANGED supVars
        PROVE  BreakerInv'
    <3>1. UNCHANGED <<breaker, log, now>>
      BY <2>6 DEF OnExplicitShutdown, OnFatal, OnChildRunning, RecordStderr, supVars
    <3> QED
      BY <2>4, <3>1 DEF SupTypeOK
  <2> QED
    BY <2>1, <2>3, <2>5, <2>6 DEF SupNext
<1> QED
  BY <1>1, <1>2, SupTypeCorrect, PTL DEF SupSpec

\* Limit deaths in one window are never all answered with a restart.
THEOREM RestartsSpaced == SupSpec => []RestartsAreSpaced
<1>1. BreakerInv => RestartsAreSpaced
  BY DEF BreakerInv
<1> QED
  BY <1>1, BreakerInvariant, PTL

\* A session is never given up for deaths that do not fit in one window.
THEOREM SlowDrip == SupSpec => []SlowDripSurvives
<1>1. BreakerInv => SlowDripSurvives
  BY DEF BreakerInv
<1> QED
  BY <1>1, BreakerInvariant, PTL

-----------------------------------------------------------------------------
(* The ring.                                                                *)

\* Two sequences with the same elements are the same.
LEMMA SameElements ==
  ASSUME NEW S, NEW s \in Seq(S), NEW t \in Seq(S), Len(s) = Len(t),
         \A i \in 1..Len(s) : s[i] = t[i]
  PROVE  s = t
  OBVIOUS

\* The tail of what was observed does not depend on where it was cut.
LEMMA PushKeepsTail ==
  ASSUME NEW seen \in Seq(Byte), NEW chunk \in Seq(Byte), ring = LastBytes(seen, RingCap)
  PROVE  Push(chunk) = LastBytes(seen \o chunk, RingCap)
<1> DEFINE all == seen \o chunk
           n == Len(seen)
           m == Len(chunk)
           want == LastBytes(all, RingCap)
<1>1. RingCap \in Nat /\ n \in Nat /\ m \in Nat /\ ring \in Seq(Byte)
  <2>1. RingCap \in Nat /\ n \in Nat /\ m \in Nat
    BY SupervisorAssumption
  <2>2. LastBytes(seen, RingCap) \in Seq(Byte)
    BY <2>1, LastBytesFacts
  <2> QED
    BY <2>1, <2>2
<1>2. /\ all \in Seq(Byte) /\ Len(all) = n + m
      /\ \A i \in 1..n : all[i] = seen[i]
      /\ \A i \in 1..m : all[n + i] = chunk[i]
  BY ConcatFacts
<1> HIDE DEF all
<1>3. /\ want \in Seq(Byte)
      /\ Len(want) = IF n + m > RingCap THEN RingCap ELSE n + m
      /\ \A i \in 1..Len(want) :
           want[i] = all[i + (IF n + m > RingCap THEN n + m - RingCap ELSE 0)]
  <2>1. /\ want \in Seq(Byte)
        /\ Len(want) = IF Len(all) > RingCap THEN RingCap ELSE Len(all)
        /\ \A i \in 1..Len(want) :
             want[i] = all[i + (IF Len(all) > RingCap THEN Len(all) - RingCap ELSE 0)]
    BY <1>1, <1>2, LastBytesFacts
  <2> DEFINE a == Len(all)
             b == n + m
  <2>2. a = b
    BY <1>2
  <2>3. /\ want \in Seq(Byte)
        /\ Len(want) = IF a > RingCap THEN RingCap ELSE a
        /\ \A i \in 1..Len(want) : want[i] = all[i + (IF a > RingCap THEN a - RingCap ELSE 0)]
    BY <2>1
  <2> HIDE DEF want, a, b
  <2>4. /\ want \in Seq(Byte)
        /\ Len(want) = IF b > RingCap THEN RingCap ELSE b
        /\ \A i \in 1..Len(want) : want[i] = all[i + (IF b > RingCap THEN b - RingCap ELSE 0)]
    BY <2>2, <2>3
  <2> QED
    BY <2>4 DEF b
<1> HIDE DEF want
<1>4. CASE RingCap = 0
  <2>1. Len(ring) = 0 /\ Len(want) = 0
    BY <1>1, <1>3, <1>4, LastBytesFacts
  <2>2. ring = want
    BY <1>1, <1>3, <2>1, SameElements
  <2> QED
    BY <1>4, <2>2 DEF Push, want, all
<1>5. CASE RingCap # 0 /\ m >= RingCap
  <2> DEFINE got == LastBytes(chunk, RingCap)
  <2>1. /\ got \in Seq(Byte) /\ Len(got) = RingCap
        /\ \A i \in 1..RingCap : got[i] = chunk[i + (m - RingCap)]
    <3>1. /\ got \in Seq(Byte)
          /\ Len(got) = IF m > RingCap THEN RingCap ELSE m
          /\ \A i \in 1..Len(got) : got[i] = chunk[i + (IF m > RingCap THEN m - RingCap ELSE 0)]
      BY <1>1, LastBytesFacts
    <3>2. (IF m > RingCap THEN m - RingCap ELSE 0) = m - RingCap
      BY <1>1, <1>5
    <3>3. Len(got) = RingCap
      BY <1>1, <1>5, <3>1
    <3> HIDE DEF got
    <3> QED
      BY <3>1, <3>2, <3>3
  <2> HIDE DEF got
  <2>2. Len(want) = RingCap
    BY <1>1, <1>3, <1>5
  <2>3. ASSUME NEW i \in 1..RingCap PROVE got[i] = want[i]
    <3>1. want[i] = all[i + (n + m - RingCap)]
      BY <1>1, <1>3, <1>5, <2>2
    <3>2. i + (m - RingCap) \in 1..m /\ n + (i + (m - RingCap)) = i + (n + m - RingCap)
      BY <1>1, <1>5
    <3> QED
      BY <1>2, <2>1, <3>1, <3>2
  <2>4. got = want
    BY <1>3, <2>1, <2>2, <2>3, SameElements
  <2> QED
    BY <1>5, <2>4 DEF Push, got, want, all
<1>6. CASE RingCap # 0 /\ ~(m >= RingCap)
  <2> DEFINE left == LastBytes(ring, RingCap - m)
             got == left \o chunk
             r == Len(ring)
             l == Len(left)
  <2>1. /\ r = IF n > RingCap THEN RingCap ELSE n
        /\ \A i \in 1..r : ring[i] = seen[i + (IF n > RingCap THEN n - RingCap ELSE 0)]
    BY <1>1, LastBytesFacts
  <2>2. RingCap - m \in Nat
    BY <1>1, <1>6
  <2>3. /\ left \in Seq(Byte)
        /\ l = IF r > RingCap - m THEN RingCap - m ELSE r
        /\ \A i \in 1..l : left[i] = ring[i + (IF r > RingCap - m THEN r - (RingCap - m) ELSE 0)]
    BY <1>1, <2>2, LastBytesFacts
  <2> HIDE DEF left
  <2>15. left \in Seq(Byte) /\ l = Len(left) /\ m = Len(chunk)
    BY <2>3
  <2>4. /\ got \in Seq(Byte) /\ Len(got) = l + m
        /\ \A i \in 1..l : got[i] = left[i]
        /\ \A i \in 1..m : got[l + i] = chunk[i]
    BY <2>15, ConcatFacts
  <2> HIDE DEF got
  <2>5. r \in Nat /\ l \in Nat
    BY <1>1, <2>3
  <2> HIDE DEF n, m, r, l
  <2>6. Len(want) = l + m
    BY <1>1, <1>3, <1>6, <2>1, <2>3, <2>5
  <2>7. ASSUME NEW i \in 1..l PROVE got[i] = want[i]
    <3>1. got[i] = ring[i + (IF r > RingCap - m THEN r - (RingCap - m) ELSE 0)]
      BY <2>3, <2>4
    <3>2. i + (IF r > RingCap - m THEN r - (RingCap - m) ELSE 0) \in 1..r
      BY <1>1, <1>6, <2>3, <2>5
    <3>3. got[i] = seen[i + (IF r > RingCap - m THEN r - (RingCap - m) ELSE 0)
                          + (IF n > RingCap THEN n - RingCap ELSE 0)]
      BY <2>1, <3>1, <3>2
    <3>4. i + (IF r > RingCap - m THEN r - (RingCap - m) ELSE 0)
            + (IF n > RingCap THEN n - RingCap ELSE 0)
          = i + (IF n + m > RingCap THEN n + m - RingCap ELSE 0)
      <4>1. CASE n > RingCap
        <5>1. r = RingCap
          BY <2>1, <4>1
        <5> QED
          BY <1>1, <1>6, <4>1, <5>1
      <4>2. CASE ~(n > RingCap)
        <5>1. r = n
          BY <2>1, <4>2
        <5> QED
          BY <1>1, <1>6, <4>2, <5>1
      <4> QED
        BY <4>1, <4>2
    <3>5. i + (IF n + m > RingCap THEN n + m - RingCap ELSE 0) \in 1..n
      <4>1. CASE n > RingCap
        <5>1. r = RingCap
          BY <2>1, <4>1
        <5>2. l = RingCap - m
          BY <1>1, <1>6, <2>3, <5>1
        <5> QED
          BY <1>1, <1>6, <4>1, <5>2
      <4>2. CASE ~(n > RingCap)
        <5>1. r = n
          BY <2>1, <4>2
        <5> QED
          BY <1>1, <1>6, <2>3, <4>2, <5>1
      <4> QED
        BY <4>1, <4>2
    <3>6. i \in 1..Len(want)
      BY <1>1, <2>5, <2>6
    <3> QED
      BY <1>2, <1>3, <3>3, <3>4, <3>5, <3>6
  <2>8. ASSUME NEW i \in 1..m PROVE got[l + i] = want[l + i]
    <3>1. l + i + (IF n + m > RingCap THEN n + m - RingCap ELSE 0) = n + i
      <4>1. CASE n > RingCap
        <5>1. r = RingCap
          BY <2>1, <4>1
        <5>2. l = RingCap - m
          BY <1>1, <1>6, <2>3, <5>1
        <5> QED
          BY <1>1, <1>6, <4>1, <5>2
      <4>2. CASE ~(n > RingCap)
        <5>1. r = n
          BY <2>1, <4>2
        <5> QED
          BY <1>1, <1>6, <2>3, <4>2, <5>1
      <4> QED
        BY <4>1, <4>2
    <3>2. l + i \in 1..Len(want)
      BY <1>1, <2>5, <2>6
    <3> QED
      BY <1>2, <1>3, <2>4, <3>1, <3>2
  <2>9. ASSUME NEW i \in 1..Len(got) PROVE got[i] = want[i]
    <3>1. CASE i \in 1..l
      BY <2>7, <3>1
    <3>2. CASE ~(i \in 1..l)
      <4>1. i - l \in 1..m /\ l + (i - l) = i
        BY <1>1, <2>4, <2>5, <3>2
      <4> QED
        BY <2>8, <4>1
    <3> QED
      BY <3>1, <3>2
  <2>10. got = want
    BY <1>3, <2>4, <2>6, <2>9, SameElements
  <2> QED
    BY <1>6, <2>10 DEF Push, got, left, want, all, m
<1> QED
  BY <1>4, <1>5, <1>6

\* The ring always holds the tail of everything the child wrote to stderr.
THEOREM RingTail == SupSpec => []RingKeepsTail
<1>1. SupInit => RingKeepsTail
  BY EmptyIsSeq, SupervisorAssumption DEF SupInit, RingKeepsTail, LastBytes
<1>2. SupTypeOK /\ RingKeepsTail /\ [SupNext]_supVars => RingKeepsTail'
  <2> SUFFICES ASSUME SupTypeOK, RingKeepsTail, [SupNext]_supVars PROVE RingKeepsTail'
    OBVIOUS
  <2>1. ASSUME NEW chunk \in Chunk, RecordStderr(chunk) PROVE RingKeepsTail'
    <3>1. chunk \in Seq(Byte) /\ observed \in Seq(Byte)
      BY ChunkIsSeq DEF SupTypeOK
    <3>2. ring = LastBytes(observed, RingCap)
      BY DEF RingKeepsTail
    <3>3. Push(chunk) = LastBytes(observed \o chunk, RingCap)
      BY <3>1, <3>2, PushKeepsTail
    <3> QED
      BY <2>1, <3>3 DEF RecordStderr, RingKeepsTail
  <2>2. ASSUME ring' = <<>>, observed' = <<>> PROVE RingKeepsTail'
    BY <2>2, EmptyIsSeq, SupervisorAssumption DEF RingKeepsTail, LastBytes
  <2>3. CASE Reset \/ Replace
    BY <2>2, <2>3 DEF Reset, Replace, Fresh
  <2>4. ASSUME NEW tail, \/ OnChildDied(tail) \/ OnExplicitShutdown(tail) \/ OnFatal(tail)
                         \/ OnChildRunning \/ Tick \/ UNCHANGED supVars
        PROVE  RingKeepsTail'
    <3>1. UNCHANGED <<ring, observed>>
      BY <2>4 DEF OnChildDied, OnExplicitShutdown, OnFatal, OnChildRunning, Tick, supVars
    <3> QED
      BY <3>1 DEF RingKeepsTail
  <2> QED
    BY <2>1, <2>3, <2>4 DEF SupNext
<1> QED
  BY <1>1, <1>2, SupTypeCorrect, PTL DEF SupSpec

-----------------------------------------------------------------------------
(* The session's use of its supervisor.                                     *)

LEMMA NoTail == <<>> \in Chunk
<1>1. MaxChunk \in Nat /\ 0 \in 0..MaxChunk
  BY SupervisorAssumption
<1>2. <<>> \in [1..0 -> Byte]
  OBVIOUS
<1> QED
  BY <1>1, <1>2 DEF Chunk

\* Each handler makes at most one call on the supervisor.
LEMMA StepOfSupervisor == [Next]_vars => [SupNext]_supVars
<1> SUFFICES ASSUME [Next]_vars PROVE [SupNext]_supVars
  OBVIOUS
<1>1. CASE UNCHANGED vars
  BY <1>1 DEF vars
<1>2. CASE ConnectFromLauncher
  BY <1>2 DEF ConnectFromLauncher
<1>3. CASE OpenInDirectory
  BY <1>3 DEF OpenInDirectory
<1>4. ASSUME NEW c \in Conn, ConnectStep(c) PROVE [SupNext]_supVars
  <2>1. CASE ConnectReturns(c)
    BY <2>1 DEF ConnectReturns
  <2>2. CASE FinishConnected(c)
    <3>1. AttachSupervisor
      BY <2>2 DEF FinishConnected
    <3>2. OnChildRunning \/ Replace
      BY <3>1 DEF AttachSupervisor
    <3> QED
      BY <3>2 DEF SupNext
  <2>3. CASE FinishFailed(c)
    BY <2>3 DEF FinishFailed
  <2>4. CASE FinishWithoutView(c)
    BY <2>4 DEF FinishWithoutView
  <2> QED
    BY <1>4, <2>1, <2>2, <2>3, <2>4 DEF ConnectStep
<1>5. ASSUME NEW c \in Conn, ChildDies(c) PROVE [SupNext]_supVars
  BY <1>5 DEF ChildDies
<1>6. ASSUME NEW c \in Conn, PumpFrame(c) PROVE [SupNext]_supVars
  BY <1>6 DEF PumpFrame
<1>7. ASSUME NEW c \in Conn, PumpClosed(c) PROVE [SupNext]_supVars
  <2>1. OnChildDied(<<>>)
    BY <1>7 DEF PumpClosed
  <2> QED
    BY <2>1, NoTail DEF SupNext
<1>8. ASSUME NEW c \in Conn, ShutdownEnds(c) PROVE [SupNext]_supVars
  BY <1>8 DEF ShutdownEnds
<1>9. ASSUME NEW c \in Conn, AbortDone(c) PROVE [SupNext]_supVars
  BY <1>9 DEF AbortDone
<1>10. ASSUME NEW c \in Conn, AbortRecycles(c) PROVE [SupNext]_supVars
  BY <1>10 DEF AbortRecycles
<1>11. CASE RunDeferred
  BY <1>11 DEF RunDeferred
<1>12. CASE DoRestart
  <2>1. Reset \/ UNCHANGED supVars
    BY <1>12 DEF DoRestart
  <2> QED
    BY <2>1 DEF SupNext
<1>13. CASE DoAbort
  BY <1>13 DEF DoAbort
<1>14. CASE ReturnToLauncher
  <2>1. OnExplicitShutdown(<<>>) \/ UNCHANGED supVars
    BY <1>14 DEF ReturnToLauncher, MarkExplicitSupervisorShutdown
  <2> QED
    BY <2>1, NoTail DEF SupNext
<1>15. CASE CloseTab
  <2>1. OnExplicitShutdown(<<>>) \/ UNCHANGED supVars
    BY <1>15 DEF CloseTab, MarkExplicitSupervisorShutdown
  <2> QED
    BY <2>1, NoTail DEF SupNext
<1>16. CASE UpdateCheckEnds
  BY <1>16 DEF UpdateCheckEnds
<1>17. CASE StartOmpUpdate
  BY <1>17 DEF StartOmpUpdate
<1>18. CASE InstallEnds
  BY <1>18 DEF InstallEnds
<1>19. CASE Clock
  BY <1>19 DEF Clock, SupNext
<1> QED
  BY <1>1, <1>2, <1>3, <1>4, <1>5, <1>6, <1>7, <1>8, <1>9, <1>10, <1>11, <1>12,
     <1>13, <1>14, <1>15, <1>16, <1>17, <1>18, <1>19 DEF Next

\* The session never uses its supervisor but as Supervisor's specification lets
\* it: the composition refines the component (SupSpec).
THEOREM SessionDrivesSupervisor == Spec => SupSpec
<1>1. Init => SupInit
  BY DEF Init
<1> QED
  BY <1>1, StepOfSupervisor, PTL DEF Spec, SupSpec

\* In a running session too, in the life of one supervisor no window holds Limit
\* deaths that were all answered with a restart (RestartsAreSpaced).
THEOREM SessionRestartsSpaced == Spec => []RestartsAreSpaced
  BY SessionDrivesSupervisor, RestartsSpaced, PTL

\* A session is given up for its crashes only when they really came that fast
\* (SlowDripSurvives).
THEOREM SessionSlowDrip == Spec => []SlowDripSurvives
  BY SessionDrivesSupervisor, SlowDrip, PTL

-----------------------------------------------------------------------------
(* Types.                                                                   *)

\* A connect begins by giving up the client it has, or not at all.
LEMMA BeginTypes ==
  ASSUME ViewTypeOK, NEW mode \in {"launcher", "session"}, NEW ui \in {"idle", "failing"},
         BeginConnection(mode, ui)
  PROVE  /\ launcher' \in {"visible", "connecting", "hidden"}
         /\ phase' \in {"idle", "streaming", "restarting", "dead"}
         /\ client' \in Conn \cup {NoConn}
         /\ pump' \in Conn \cup {NoConn}
         /\ attempt' \in [Conn -> Attempt]
         /\ shutting' \subseteq Conn
         /\ updateUi' \in {"idle", "checking", "offered", "installing", "failing"}
         /\ install' \in Conn \cup {NoConn, NoInstall}
         /\ tab' = tab
<1>1. CASE launcher = "connecting" /\ UNCHANGED <<install, viewVars, connVars>>
           /\ updateUi' = (IF ui = "failing" THEN ui ELSE updateUi)
  BY <1>1 DEF ViewTypeOK, viewVars, connVars
<1>2. ASSUME TakeAndCloseClient, updateUi' = ui, install' = NoInstall, UNCHANGED tab,
             launcher' = (IF mode = "launcher" THEN "connecting" ELSE "hidden"),
             phase' = (IF mode = "launcher" THEN "idle" ELSE "restarting"),
             NEW c \in Conn,
             attempt' = [attempt EXCEPT ![c] = [task |-> "connecting", mode |-> mode]]
      PROVE  /\ launcher' \in {"visible", "connecting", "hidden"}
             /\ phase' \in {"idle", "streaming", "restarting", "dead"}
             /\ client' \in Conn \cup {NoConn}
             /\ pump' \in Conn \cup {NoConn}
             /\ attempt' \in [Conn -> Attempt]
             /\ shutting' \subseteq Conn
             /\ updateUi' \in {"idle", "checking", "offered", "installing", "failing"}
             /\ install' \in Conn \cup {NoConn, NoInstall}
             /\ tab' = tab
  <2>1. attempt' \in [Conn -> Attempt]
    BY <1>2 DEF ViewTypeOK, Attempt
  <2>2. shutting' \subseteq Conn
    BY <1>2 DEF ViewTypeOK, TakeAndCloseClient, Closing
  <2> QED
    BY <1>2, <2>1, <2>2 DEF TakeAndCloseClient
<1> QED
  BY <1>1, <1>2 DEF BeginConnection

\* Every reachable session is well typed (TypeOK).
THEOREM SessionTypeCorrect == Spec => []TypeOK
<1>1. ASSUME Init PROVE ViewTypeOK
  <2>1. attempt \in [Conn -> Attempt] /\ aborts \in [Conn -> Nat]
    BY <1>1 DEF Init, Attempt
  <2>2. tab \in BOOLEAN /\ supervised \in BOOLEAN
    BY <1>1 DEF Init
  <2> QED
    BY <1>1, <2>1, <2>2 DEF Init, ViewTypeOK
<1>2. ViewTypeOK /\ [Next]_vars => ViewTypeOK'
  <2> SUFFICES ASSUME ViewTypeOK, [Next]_vars PROVE ViewTypeOK'
    OBVIOUS
  <2>1. CASE UNCHANGED vars
    BY <2>1 DEF vars, viewVars, connVars, childVars, taskVars, updateVars, ViewTypeOK
  <2>2. CASE ConnectFromLauncher
    BY <2>2, BeginTypes DEF ConnectFromLauncher, ViewTypeOK, childVars, taskVars
  <2>3. CASE OpenInDirectory
    BY <2>3, BeginTypes DEF OpenInDirectory, ViewTypeOK, childVars, taskVars
  <2>4. ASSUME NEW c \in Conn, ConnectStep(c) PROVE ViewTypeOK'
    <3>1. CASE ConnectReturns(c)
      <4>1. attempt' \in [Conn -> Attempt]
        BY <3>1 DEF ConnectReturns, ViewTypeOK, Attempt
      <4>2. alive' \subseteq Conn
        BY <3>1 DEF ConnectReturns, ViewTypeOK
      <4> QED
        BY <3>1, <4>1, <4>2 DEF ConnectReturns, ViewTypeOK, viewVars, taskVars, updateVars
    <3>2. ASSUME Over(c) PROVE attempt' \in [Conn -> Attempt]
      BY <3>2 DEF Over, Done, ViewTypeOK, Attempt
    <3>3. CASE FinishConnected(c)
      BY <3>2, <3>3 DEF FinishConnected, AttachSupervisor, ViewTypeOK, childVars, taskVars
    <3>4. CASE FinishFailed(c)
      BY <3>2, <3>4 DEF FinishFailed, ViewTypeOK, childVars, taskVars
    <3>5. CASE FinishWithoutView(c)
      BY <3>2, <3>5 DEF FinishWithoutView, ViewTypeOK, viewVars, childVars, taskVars, updateVars
    <3> QED
      BY <2>4, <3>1, <3>3, <3>4, <3>5 DEF ConnectStep
  <2>5. ASSUME NEW c \in Conn, ChildDies(c) PROVE ViewTypeOK'
    BY <2>5 DEF ChildDies, ViewTypeOK, viewVars, connVars, taskVars, updateVars
  <2>6. ASSUME NEW c \in Conn, PumpFrame(c) PROVE ViewTypeOK'
    BY <2>6 DEF PumpFrame, ViewTypeOK, connVars, taskVars, updateVars
  <2>7. ASSUME NEW c \in Conn, PumpClosed(c) PROVE ViewTypeOK'
    BY <2>7 DEF PumpClosed, InvalidateOmpUpdate, ViewTypeOK
  <2>8. ASSUME NEW c \in Conn, ShutdownEnds(c) PROVE ViewTypeOK'
    BY <2>8 DEF ShutdownEnds, ViewTypeOK, viewVars, taskVars, updateVars
  <2>9. ASSUME NEW c \in Conn, EndAbort(c) PROVE aborts' \in [Conn -> Nat]
    BY <2>9 DEF EndAbort, ViewTypeOK
  <2>10. ASSUME NEW c \in Conn, AbortDone(c) PROVE ViewTypeOK'
    BY <2>9, <2>10 DEF AbortDone, ViewTypeOK, viewVars, connVars, childVars, updateVars
  <2>11. ASSUME NEW c \in Conn, AbortRecycles(c) PROVE ViewTypeOK'
    BY <2>9, <2>11, BeginTypes DEF AbortRecycles, ViewTypeOK, childVars
  <2>12. CASE RunDeferred
    <3>1. deferred' \in Nat
      BY <2>12 DEF RunDeferred, ViewTypeOK
    <3> QED
      BY <2>12, <3>1, BeginTypes DEF RunDeferred, ViewTypeOK, childVars
  <2>13. CASE DoRestart
    BY <2>13, BeginTypes DEF DoRestart, ViewTypeOK, childVars, taskVars
  <2>14. CASE DoAbort
    BY <2>14 DEF DoAbort, ViewTypeOK, viewVars, connVars, childVars, updateVars
  <2>15. ASSUME TakeAndCloseClient
         PROVE  client' = NoConn /\ pump' = NoConn /\ shutting' \subseteq Conn
    BY <2>15 DEF TakeAndCloseClient, Closing, ViewTypeOK
  <2>16. CASE ReturnToLauncher
    BY <2>15, <2>16 DEF ReturnToLauncher, InvalidateOmpUpdate, ViewTypeOK, childVars, taskVars
  <2>17. CASE CloseTab
    BY <2>15, <2>17 DEF CloseTab, InvalidateOmpUpdate, ViewTypeOK, childVars, taskVars
  <2>18. CASE UpdateCheckEnds
    BY <2>18 DEF UpdateCheckEnds, ViewTypeOK, viewVars, connVars, childVars, taskVars
  <2>19. CASE StartOmpUpdate
    BY <2>15, <2>19 DEF StartOmpUpdate, ViewTypeOK, childVars, taskVars
  <2>20. CASE InstallEnds
    BY <2>20, BeginTypes DEF InstallEnds, ViewTypeOK, childVars, taskVars
  <2>21. CASE Clock
    BY <2>21 DEF Clock, ViewTypeOK, viewVars, connVars, childVars, taskVars, updateVars
  <2> QED
    BY <2>1, <2>2, <2>3, <2>4, <2>5, <2>6, <2>7, <2>8, <2>10, <2>11, <2>12, <2>13,
       <2>14, <2>16, <2>17, <2>18, <2>19, <2>20, <2>21 DEF Next
<1>3. SupTypeOK /\ ViewTypeOK => TypeOK
  BY DEF TypeOK
<1>4. Spec => []ViewTypeOK
  BY <1>1, <1>2, PTL DEF Spec
<1> QED
  BY <1>3, <1>4, SessionDrivesSupervisor, SupTypeCorrect, PTL

-----------------------------------------------------------------------------
(* Ownership of the connections.                                            *)

\* take_and_close_client leaves no pump, and shuts down only what was owned.
LEMMA TakeKeepsOwned ==
  ASSUME ViewTypeOK, OwnershipInv, TakeAndCloseClient
  PROVE  /\ client' = NoConn /\ pump' = NoConn
         /\ shutting' \subseteq Conn
         /\ \A c \in shutting' : attempt[c].task = "over"
<1>1. client' = NoConn /\ pump' = NoConn
  BY DEF TakeAndCloseClient
<1>2. shutting' = Closing(client)
  BY DEF TakeAndCloseClient
<1>3. Closing(client) \subseteq Conn
  BY DEF Closing, ViewTypeOK
<1>4. ASSUME NEW c \in Closing(client) PROVE attempt[c].task = "over"
  <2>1. c \in shutting \/ (c = client /\ client # NoConn)
    BY <1>4 DEF Closing
  <2>2. c \in Conn
    BY <1>3
  <2> QED
    BY <2>1, <2>2 DEF OwnershipInv, PumpFollowsClient
<1> QED
  BY <1>1, <1>2, <1>3, <1>4

\* Once the client is given up and no attempt is undone, ownership holds.
LEMMA GivenUp ==
  ASSUME ViewTypeOK, OwnershipInv, TakeAndCloseClient,
         \A c \in Conn : attempt[c].task = "over" => attempt'[c].task = "over",
         ConnectingIsReal'
  PROVE  OwnershipInv'
<1>1. PumpFollowsClient'
  BY TakeKeepsOwned DEF PumpFollowsClient
<1>2. DeliberateCloseIsNoCrash'
  BY TakeKeepsOwned, SessionAssumption DEF DeliberateCloseIsNoCrash
<1>3. ASSUME NEW c \in Conn, c = pump' \/ c \in shutting' PROVE attempt'[c].task = "over"
  BY <1>3, TakeKeepsOwned, SessionAssumption
<1> QED
  BY <1>1, <1>2, <1>3 DEF OwnershipInv

\* begin_connection: a connect in the launcher is on its way from here, and a
\* connect already on its way is left alone.
LEMMA BeginKeepsOwnership ==
  ASSUME ViewTypeOK, OwnershipInv, NEW mode \in {"launcher", "session"},
         NEW ui \in {"idle", "failing"}, BeginConnection(mode, ui)
  PROVE  OwnershipInv'
<1>1. CASE UNCHANGED <<viewVars, connVars>>
  BY <1>1 DEF viewVars, connVars, OwnershipInv, PumpFollowsClient, DeliberateCloseIsNoCrash,
              ConnectingIsReal, InFlight
<1>2. ASSUME TakeAndCloseClient, NEW c \in Conn, IsNext(c),
             attempt' = [attempt EXCEPT ![c] = [task |-> "connecting", mode |-> mode]],
             launcher' = (IF mode = "launcher" THEN "connecting" ELSE "hidden")
      PROVE  OwnershipInv'
  <2>1. attempt'[c] = [task |-> "connecting", mode |-> mode]
    BY <1>2 DEF ViewTypeOK
  <2>2. \A d \in Conn \ {c} : attempt'[d] = attempt[d]
    BY <1>2 DEF ViewTypeOK
  <2>3. \A d \in Conn : attempt[d].task = "over" => attempt'[d].task = "over"
    BY <1>2, <2>2 DEF IsNext
  <2>4. c \in InFlight'
    BY <2>1 DEF InFlight
  <2>5. ConnectingIsReal'
    <3>1. CASE mode = "launcher"
      BY <2>1, <2>4, <3>1 DEF ConnectingIsReal
    <3>2. CASE mode # "launcher"
      BY <1>2, <3>2 DEF ConnectingIsReal
    <3> QED
      BY <3>1, <3>2
  <2> QED
    BY <1>2, <2>3, <2>5, GivenUp
<1> QED
  BY <1>1, <1>2 DEF BeginConnection

\* What a step that leaves client, pump, launcher and tab alone may do.
LEMMA QuietStep ==
  ASSUME ViewTypeOK, OwnershipInv, UNCHANGED <<tab, launcher, client, pump, attempt>>,
         shutting' \subseteq shutting
  PROVE  OwnershipInv'
<1>1. PumpFollowsClient' /\ DeliberateCloseIsNoCrash'
  BY DEF OwnershipInv, PumpFollowsClient, DeliberateCloseIsNoCrash
<1>2. ConnectingIsReal'
  BY DEF OwnershipInv, ConnectingIsReal, InFlight
<1> QED
  BY <1>1, <1>2 DEF OwnershipInv

\* The end of a connect makes its connection one that may be owned.
LEMMA OverFacts ==
  ASSUME ViewTypeOK, NEW c \in Conn, Over(c)
  PROVE  /\ attempt'[c].task = "over"
         /\ \A d \in Conn \ {c} : attempt'[d] = attempt[d]
  BY DEF Over, Done, ViewTypeOK

\* The end of a connect that brings no client.
LEMMA OverKeepsOwnership ==
  ASSUME ViewTypeOK, OwnershipInv, NEW c \in Conn, Over(c),
         UNCHANGED <<client, pump, shutting>>, ConnectingIsReal'
  PROVE  OwnershipInv'
<1>1. PumpFollowsClient' /\ DeliberateCloseIsNoCrash'
  BY DEF OwnershipInv, PumpFollowsClient, DeliberateCloseIsNoCrash
<1>2. \A d \in Conn : d = pump' \/ d \in shutting' => attempt'[d].task = "over"
  BY OverFacts DEF OwnershipInv
<1> QED
  BY <1>1, <1>2 DEF OwnershipInv

\* Every connect step preserves ownership.
LEMMA ConnectStepKeepsOwnership ==
  ASSUME ViewTypeOK, OwnershipInv, NEW c \in Conn, ConnectStep(c)
  PROVE  OwnershipInv'
<1>1. CASE ConnectReturns(c)
  <2>1. attempt[c].task = "connecting"
    BY <1>1 DEF ConnectReturns
  <2>2. /\ attempt'[c].task \in {"ready", "failed"}
        /\ attempt'[c].mode = attempt[c].mode
        /\ \A d \in Conn \ {c} : attempt'[d] = attempt[d]
    BY <1>1 DEF ConnectReturns, ViewTypeOK, Attempt
  <2>3. UNCHANGED <<tab, launcher, client, pump, shutting>>
    BY <1>1 DEF ConnectReturns, viewVars
  <2>4. PumpFollowsClient' /\ DeliberateCloseIsNoCrash'
    BY <2>3 DEF OwnershipInv, PumpFollowsClient, DeliberateCloseIsNoCrash
  <2>5. \A d \in Conn : d \in InFlight => d \in InFlight' /\ attempt'[d].mode = attempt[d].mode
    BY <2>2 DEF InFlight
  <2>6. InFlight \subseteq Conn
    BY DEF InFlight
  <2>7. ConnectingIsReal'
    BY <2>3, <2>5, <2>6 DEF OwnershipInv, ConnectingIsReal
  <2>8. \A d \in Conn : d = pump' \/ d \in shutting' => attempt'[d].task = "over"
    BY <2>1, <2>2, <2>3 DEF OwnershipInv
  <2> QED
    BY <2>4, <2>7, <2>8 DEF OwnershipInv
<1>2. CASE FinishConnected(c)
  <2>1. Over(c) /\ client' = c /\ pump' = c /\ launcher' = "hidden" /\ shutting' = shutting
    BY <1>2 DEF FinishConnected
  <2>2. PumpFollowsClient' /\ ConnectingIsReal'
    BY <2>1 DEF PumpFollowsClient, ConnectingIsReal
  <2>3. attempt[c].task = "ready"
    BY <1>2 DEF FinishConnected
  <2>4. c \notin shutting
    BY <2>3 DEF OwnershipInv
  <2>5. DeliberateCloseIsNoCrash'
    BY <2>1, <2>4 DEF DeliberateCloseIsNoCrash
  <2>6. \A d \in Conn : d = pump' \/ d \in shutting' => attempt'[d].task = "over"
    BY <2>1, OverFacts DEF OwnershipInv
  <2> QED
    BY <2>2, <2>5, <2>6 DEF OwnershipInv
<1>3. CASE FinishFailed(c)
  <2>1. Over(c) /\ UNCHANGED <<client, pump, shutting>>
    BY <1>3 DEF FinishFailed
  <2>2. launcher' # "connecting"
    BY <1>3 DEF FinishFailed
  <2> QED
    BY <2>1, <2>2, OverKeepsOwnership DEF ConnectingIsReal
<1>4. CASE FinishWithoutView(c)
  <2>1. Over(c) /\ UNCHANGED <<client, pump, shutting>>
    BY <1>4 DEF FinishWithoutView
  <2>2. ~tab /\ tab' = tab
    BY <1>4 DEF FinishWithoutView, viewVars
  <2>3. ConnectingIsReal'
    BY <2>2 DEF ConnectingIsReal
  <2> QED
    BY <2>1, <2>3, OverKeepsOwnership
<1> QED
  BY <1>1, <1>2, <1>3, <1>4 DEF ConnectStep

\* One client, one pump: the pump listens to the client the view has and to no
\* connection that is being shut down, and a Connecting launcher has its connect.
THEOREM Ownership == Spec => []OwnershipInv
<1>1. ASSUME Init PROVE OwnershipInv
  <2>1. PumpFollowsClient /\ DeliberateCloseIsNoCrash /\ ConnectingIsReal
    BY <1>1 DEF Init, PumpFollowsClient, DeliberateCloseIsNoCrash, ConnectingIsReal
  <2>2. \A c \in Conn : c = pump \/ c \in shutting => attempt[c].task = "over"
    BY <1>1, SessionAssumption DEF Init
  <2> QED
    BY <2>1, <2>2 DEF OwnershipInv
<1>2. ViewTypeOK /\ OwnershipInv /\ [Next]_vars => OwnershipInv'
  <2> SUFFICES ASSUME ViewTypeOK, OwnershipInv, [Next]_vars PROVE OwnershipInv'
    OBVIOUS
  <2>1. CASE UNCHANGED vars
    BY <2>1, QuietStep DEF vars, viewVars, connVars
  <2>2. CASE ConnectFromLauncher
    BY <2>2, BeginKeepsOwnership DEF ConnectFromLauncher
  <2>3. CASE OpenInDirectory
    BY <2>3, BeginKeepsOwnership DEF OpenInDirectory
  <2>4. ASSUME NEW c \in Conn, ConnectStep(c) PROVE OwnershipInv'
    BY <2>4, ConnectStepKeepsOwnership
  <2>5. ASSUME NEW c \in Conn, ChildDies(c) PROVE OwnershipInv'
    BY <2>5, QuietStep DEF ChildDies, viewVars, connVars
  <2>6. ASSUME NEW c \in Conn, PumpFrame(c) PROVE OwnershipInv'
    BY <2>6, QuietStep DEF PumpFrame, connVars
  <2>7. ASSUME NEW c \in Conn, PumpClosed(c) PROVE OwnershipInv'
    <3>1. client' = NoConn /\ UNCHANGED <<tab, launcher, pump, attempt, shutting>>
      BY <2>7 DEF PumpClosed
    <3>2. PumpFollowsClient'
      BY <3>1 DEF PumpFollowsClient
    <3>3. DeliberateCloseIsNoCrash' /\ ConnectingIsReal'
      BY <3>1 DEF OwnershipInv, DeliberateCloseIsNoCrash, ConnectingIsReal, InFlight
    <3> QED
      BY <3>1, <3>2, <3>3 DEF OwnershipInv
  <2>8. ASSUME NEW c \in Conn, ShutdownEnds(c) PROVE OwnershipInv'
    BY <2>8, QuietStep DEF ShutdownEnds, viewVars
  <2>9. ASSUME NEW c \in Conn, AbortDone(c) PROVE OwnershipInv'
    BY <2>9, QuietStep DEF AbortDone, viewVars, connVars
  <2>10. ASSUME NEW c \in Conn, AbortRecycles(c) PROVE OwnershipInv'
    BY <2>10, BeginKeepsOwnership DEF AbortRecycles
  <2>11. CASE RunDeferred
    BY <2>11, BeginKeepsOwnership DEF RunDeferred
  <2>12. CASE DoRestart
    BY <2>12, BeginKeepsOwnership DEF DoRestart
  <2>13. CASE DoAbort
    BY <2>13, QuietStep DEF DoAbort, viewVars, connVars
  <2>14. CASE ReturnToLauncher
    <3>1. TakeAndCloseClient /\ launcher' = "visible" /\ attempt' = attempt
      BY <2>14 DEF ReturnToLauncher
    <3> QED
      BY <3>1, GivenUp DEF ConnectingIsReal
  <2>15. CASE CloseTab
    <3>1. TakeAndCloseClient /\ tab' = FALSE /\ attempt' = attempt
      BY <2>15 DEF CloseTab
    <3>2. ConnectingIsReal'
      BY <3>1 DEF ConnectingIsReal
    <3> QED
      BY <3>1, <3>2, GivenUp
  <2>16. CASE UpdateCheckEnds
    BY <2>16, QuietStep DEF UpdateCheckEnds, viewVars, connVars
  <2>17. CASE StartOmpUpdate
    <3>1. TakeAndCloseClient /\ UNCHANGED <<tab, launcher, attempt>>
      BY <2>17 DEF StartOmpUpdate
    <3>2. ConnectingIsReal'
      BY <3>1 DEF OwnershipInv, ConnectingIsReal, InFlight
    <3> QED
      BY <3>1, <3>2, GivenUp
  <2>18. CASE InstallEnds
    BY <2>18, BeginKeepsOwnership DEF InstallEnds
  <2>19. CASE Clock
    BY <2>19, QuietStep DEF Clock, viewVars, connVars
  <2> QED
    BY <2>1, <2>2, <2>3, <2>4, <2>5, <2>6, <2>7, <2>8, <2>9, <2>10, <2>11, <2>12,
       <2>13, <2>14, <2>15, <2>16, <2>17, <2>18, <2>19 DEF Next
<1>3. TypeOK => ViewTypeOK
  BY DEF TypeOK
<1> QED
  BY <1>1, <1>2, <1>3, SessionTypeCorrect, PTL DEF Spec

\* No Closed event of a connection the view has left can clear its client
\* (PumpFollowsClient).
THEOREM PumpIsTheClients == Spec => []PumpFollowsClient
<1>1. OwnershipInv => PumpFollowsClient
  BY DEF OwnershipInv
<1> QED
  BY <1>1, Ownership, PTL

\* A child closed on purpose never counts as a crash (DeliberateCloseIsNoCrash).
THEOREM DeliberateClose == Spec => []DeliberateCloseIsNoCrash
<1>1. OwnershipInv => DeliberateCloseIsNoCrash
  BY DEF OwnershipInv
<1> QED
  BY <1>1, Ownership, PTL

\* The launcher is never left disabled by a connect that is over (ConnectingIsReal).
THEOREM ConnectingHasAConnect == Spec => []ConnectingIsReal
<1>1. OwnershipInv => ConnectingIsReal
  BY DEF OwnershipInv
<1> QED
  BY <1>1, Ownership, PTL

-----------------------------------------------------------------------------
(* The supervisor's Dead.                                                   *)

\* Only a connection that was made has a child or a Closed event, one of the
\* two; and the pump of a session given up has nothing left to report.
DeadInv ==
  /\ \A c \in Conn : c \in alive \/ c \in ended => attempt[c].task \in {"ready", "over"}
  /\ \A c \in Conn : c \in alive => c \notin ended
  /\ \A c \in Conn : state.kind = "dead" /\ c = pump => c \notin alive /\ c \notin ended

\* Attempts go forward.
NoneUndone ==
  \A c \in Conn : attempt[c].task \in {"ready", "over"} => attempt'[c].task \in {"ready", "over"}

\* A step that takes the pump away, or leaves it with the supervisor.
LEMMA DeadInvKept ==
  ASSUME DeadInv, NoneUndone, UNCHANGED <<alive, ended>>,
         pump' = NoConn \/ UNCHANGED <<pump, state>>
  PROVE  DeadInv'
<1>1. \A c \in Conn : c # NoConn
  BY SessionAssumption
<1>2. \A c \in Conn : state'.kind = "dead" /\ c = pump' => c \notin alive' /\ c \notin ended'
  BY <1>1 DEF DeadInv
<1> QED
  BY <1>2 DEF DeadInv, NoneUndone

LEMMA BeginKeepsDeadInv ==
  ASSUME ViewTypeOK, DeadInv, NEW mode, NEW ui, BeginConnection(mode, ui),
         UNCHANGED <<childVars, state>>
  PROVE  DeadInv'
<1>1. CASE UNCHANGED <<viewVars, connVars>>
  BY <1>1, DeadInvKept DEF connVars, childVars, NoneUndone
<1>2. ASSUME TakeAndCloseClient, NEW c \in Conn, IsNext(c),
             attempt' = [attempt EXCEPT ![c] = [task |-> "connecting", mode |-> mode]]
      PROVE  DeadInv'
  <2>1. NoneUndone
    BY <1>2 DEF NoneUndone, IsNext, ViewTypeOK
  <2> QED
    BY <1>2, <2>1, DeadInvKept DEF TakeAndCloseClient, childVars
<1> QED
  BY <1>1, <1>2 DEF BeginConnection

\* Each connect step preserves DeadInv: a new pump comes with a supervisor that
\* is Running.
LEMMA ConnectStepKeepsDeadInv ==
  ASSUME ViewTypeOK, OwnershipInv, DeadInv, NEW c \in Conn, ConnectStep(c)
  PROVE  DeadInv'
<1>0. ASSUME Over(c) PROVE NoneUndone
  BY <1>0, OverFacts DEF NoneUndone
<1>1. CASE ConnectReturns(c)
  <2>1. attempt[c].task = "connecting"
    BY <1>1 DEF ConnectReturns
  <2>2. /\ \A d \in Conn \ {c} : attempt'[d] = attempt[d]
        /\ c \in alive' => attempt'[c].task = "ready" \/ c \in alive
        /\ \A d \in Conn \ {c} : d \in alive' => d \in alive
    BY <1>1 DEF ConnectReturns, ViewTypeOK, Attempt
  <2>3. UNCHANGED <<state, pump, ended>>
    BY <1>1 DEF ConnectReturns, supVars
  <2>4. c \notin alive /\ c \notin ended /\ c # pump
    BY <2>1 DEF DeadInv, OwnershipInv
  <2> QED
    BY <2>2, <2>3, <2>4 DEF DeadInv
<1>2. CASE FinishConnected(c)
  <2>1. Over(c) /\ UNCHANGED <<alive, ended>>
    BY <1>2 DEF FinishConnected, childVars
  <2>2. state' = Running
    BY <1>2 DEF FinishConnected, AttachSupervisor, OnChildRunning, Replace, Fresh
  <2>3. state'.kind # "dead"
    BY <2>2 DEF Running
  <2>4. NoneUndone
    BY <1>0, <2>1
  <2> QED
    BY <2>1, <2>3, <2>4 DEF DeadInv, NoneUndone
<1>3. CASE FinishFailed(c)
  BY <1>0, <1>3, DeadInvKept DEF FinishFailed, childVars, supVars
<1>4. CASE FinishWithoutView(c)
  BY <1>0, <1>4, DeadInvKept DEF FinishWithoutView, childVars, supVars
<1> QED
  BY <1>1, <1>2, <1>3, <1>4 DEF ConnectStep

LEMMA DeadInvariant == Spec => []DeadInv
<1>1. ASSUME Init PROVE DeadInv
  BY <1>1 DEF Init, DeadInv
<1>2. ViewTypeOK /\ OwnershipInv /\ DeadInv /\ [Next]_vars => DeadInv'
  <2> SUFFICES ASSUME ViewTypeOK, OwnershipInv, DeadInv, [Next]_vars PROVE DeadInv'
    OBVIOUS
  <2>0. attempt' = attempt => NoneUndone
    BY DEF NoneUndone
  <2>1. CASE UNCHANGED vars
    BY <2>0, <2>1, DeadInvKept DEF vars, connVars, childVars, supVars
  <2>2. CASE ConnectFromLauncher
    BY <2>2, BeginKeepsDeadInv DEF ConnectFromLauncher, supVars
  <2>3. CASE OpenInDirectory
    BY <2>3, BeginKeepsDeadInv DEF OpenInDirectory, supVars
  <2>4. ASSUME NEW c \in Conn, ConnectStep(c) PROVE DeadInv'
    BY <2>4, ConnectStepKeepsDeadInv
  <2>5. ASSUME NEW c \in Conn, ChildDies(c) PROVE DeadInv'
    <3>1. c \in alive /\ alive' = alive \ {c} /\ UNCHANGED <<state, pump, attempt>>
      BY <2>5 DEF ChildDies, connVars, supVars
    <3>2. ended' = ended \/ ended' = ended \cup {c}
      BY <2>5 DEF ChildDies
    <3> QED
      BY <3>1, <3>2 DEF DeadInv
  <2>6. ASSUME NEW c \in Conn, PumpFrame(c) PROVE DeadInv'
    BY <2>0, <2>6, DeadInvKept DEF PumpFrame, connVars, supVars
  <2>7. ASSUME NEW c \in Conn, PumpClosed(c) PROVE DeadInv'
    <3>1. pump = c /\ c \in ended /\ ended' = ended \ {c} /\ UNCHANGED <<pump, attempt, alive>>
      BY <2>7 DEF PumpClosed
    <3> QED
      BY <3>1 DEF DeadInv
  <2>8. ASSUME NEW c \in Conn, ShutdownEnds(c) PROVE DeadInv'
    <3>1. alive' = alive \ {c} /\ ended' = ended \ {c} /\ UNCHANGED <<state, pump, attempt>>
      BY <2>8 DEF ShutdownEnds, supVars
    <3> QED
      BY <3>1 DEF DeadInv
  <2>9. ASSUME NEW c \in Conn, AbortDone(c) PROVE DeadInv'
    BY <2>0, <2>9, DeadInvKept DEF AbortDone, connVars, childVars, supVars
  <2>10. ASSUME NEW c \in Conn, AbortRecycles(c) PROVE DeadInv'
    BY <2>10, BeginKeepsDeadInv DEF AbortRecycles, supVars
  <2>11. CASE RunDeferred
    BY <2>11, BeginKeepsDeadInv DEF RunDeferred, supVars
  <2>12. CASE DoRestart
    <3>1. BeginConnection("session", "idle") /\ UNCHANGED childVars
      BY <2>12 DEF DoRestart
    <3>2. CASE UNCHANGED supVars
      BY <3>1, <3>2, BeginKeepsDeadInv DEF supVars
    <3>3. CASE Reset
      <4>1. state' = Restarting(0)
        BY <3>3 DEF Reset
      <4>2. state'.kind # "dead"
        BY <4>1 DEF Restarting
      <4>3. NoneUndone
        BY <3>1 DEF BeginConnection, NoneUndone, connVars, IsNext, ViewTypeOK
      <4> QED
        BY <3>1, <4>2, <4>3 DEF DeadInv, NoneUndone, childVars
    <3> QED
      BY <2>12, <3>2, <3>3 DEF DoRestart
  <2>13. CASE DoAbort
    BY <2>0, <2>13, DeadInvKept DEF DoAbort, connVars, childVars, supVars
  <2>14. CASE ReturnToLauncher
    BY <2>0, <2>14, DeadInvKept DEF ReturnToLauncher, TakeAndCloseClient, childVars
  <2>15. CASE CloseTab
    BY <2>0, <2>15, DeadInvKept DEF CloseTab, TakeAndCloseClient, childVars
  <2>16. CASE UpdateCheckEnds
    BY <2>0, <2>16, DeadInvKept DEF UpdateCheckEnds, connVars, childVars, supVars
  <2>17. CASE StartOmpUpdate
    BY <2>0, <2>17, DeadInvKept DEF StartOmpUpdate, TakeAndCloseClient, childVars
  <2>18. CASE InstallEnds
    <3>1. PICK ui \in {"idle", "failing"} : BeginConnection("session", ui)
      BY <2>18 DEF InstallEnds
    <3> QED
      BY <2>18, <3>1, BeginKeepsDeadInv DEF InstallEnds, supVars
  <2>19. CASE Clock
    BY <2>0, <2>19, DeadInvKept DEF Clock, Tick, connVars, childVars
  <2> QED
    BY <2>1, <2>2, <2>3, <2>4, <2>5, <2>6, <2>7, <2>8, <2>9, <2>10, <2>11, <2>12,
       <2>13, <2>14, <2>15, <2>16, <2>17, <2>18, <2>19 DEF Next
<1>3. TypeOK => ViewTypeOK
  BY DEF TypeOK
<1> QED
  BY <1>1, <1>2, <1>3, SessionTypeCorrect, Ownership, PTL DEF Spec

\* A session given up stays so until the user's reset or a new supervisor
\* (DeadNeedsReset), though on_child_running and on_child_died do not look.
THEOREM DeadUntilReset == Spec => DeadNeedsReset
<1> DEFINE Allowed == state.kind = "dead" => \/ state'.kind = "dead"
                                             \/ state' = Restarting(0)
                                             \/ state' = Running /\ log' = <<>>
<1>1. DeadInv /\ [Next]_vars => [Allowed]_vars
  <2> SUFFICES ASSUME DeadInv, Next, state.kind = "dead"
               PROVE  \/ state'.kind = "dead"
                      \/ state' = Restarting(0)
                      \/ state' = Running /\ log' = <<>>
    OBVIOUS
  <2>1. state' = state => state'.kind = "dead"
    OBVIOUS
  <2>2. ASSUME NEW c \in Conn, FinishConnected(c) PROVE state' = Running /\ log' = <<>>
    <3>1. Replace
      BY <2>2 DEF FinishConnected, AttachSupervisor
    <3> QED
      BY <3>1 DEF Replace, Fresh
  <2>3. ASSUME NEW c \in Conn, PumpClosed(c) PROVE FALSE
    BY <2>3 DEF PumpClosed, DeadInv
  <2>4. ASSUME OnExplicitShutdown(<<>>) PROVE state'.kind = "dead"
    BY <2>4 DEF OnExplicitShutdown, Dead
  <2>5. CASE DoRestart
    BY <2>1, <2>5 DEF DoRestart, Reset, supVars
  <2>6. CASE ReturnToLauncher
    BY <2>1, <2>4, <2>6 DEF ReturnToLauncher, MarkExplicitSupervisorShutdown, supVars
  <2>7. CASE CloseTab
    BY <2>1, <2>4, <2>7 DEF CloseTab, MarkExplicitSupervisorShutdown, supVars
  <2>8. ASSUME NEW c \in Conn, ConnectStep(c), ~FinishConnected(c) PROVE state' = state
    BY <2>8 DEF ConnectStep, ConnectReturns, FinishFailed, FinishWithoutView, supVars
  <2>9. ASSUME NEW c \in Conn,
               ChildDies(c) \/ PumpFrame(c) \/ ShutdownEnds(c) \/ AbortDone(c) \/ AbortRecycles(c)
        PROVE  state' = state
    BY <2>9 DEF ChildDies, PumpFrame, ShutdownEnds, AbortDone, AbortRecycles, supVars
  <2>10. CASE ConnectFromLauncher \/ OpenInDirectory \/ RunDeferred \/ DoAbort
    BY <2>1, <2>10 DEF ConnectFromLauncher, OpenInDirectory, RunDeferred, DoAbort, supVars
  <2>11. CASE UpdateCheckEnds \/ StartOmpUpdate \/ InstallEnds \/ Clock
    BY <2>1, <2>11 DEF UpdateCheckEnds, StartOmpUpdate, InstallEnds, Clock, Tick, supVars
  <2> QED
    BY <2>1, <2>2, <2>3, <2>5, <2>6, <2>7, <2>8, <2>9, <2>10, <2>11 DEF Next
<1> QED
  BY <1>1, DeadInvariant, PTL DEF Spec, DeadNeedsReset

-----------------------------------------------------------------------------
(* What the other parts of the view see.                                    *)

\* begin_connection takes the client away with a phase of its own, or does nothing.
LEMMA BeginIsALinkStep ==
  ASSUME NEW mode \in {"launcher", "session"}, NEW ui, BeginConnection(mode, ui)
  PROVE  [L!LinkNext]_(L!linkVars)
<1>1. CASE UNCHANGED viewVars /\ UNCHANGED connVars
  BY <1>1 DEF viewVars, connVars, L!linkVars
<1>2. CASE TakeAndCloseClient /\ phase' = (IF mode = "launcher" THEN "idle" ELSE "restarting")
  BY <1>2 DEF TakeAndCloseClient, L!LinkNext, L!LinkLeave, L!LinkRecycle
<1> QED
  BY <1>1, <1>2 DEF BeginConnection

\* A connect that has just returned is not the client's: the view never attaches
\* to the child it already has.
LEMMA FinishAttaches ==
  ASSUME OwnershipInv, NEW c \in Conn, FinishConnected(c)
  PROVE  L!LinkAttach(c)
<1>1. attempt[c].task = "ready" /\ client' = c /\ phase' = "idle"
  BY DEF FinishConnected
<1>2. c # pump
  BY <1>1 DEF OwnershipInv
<1>3. c # client
  BY <1>2, SessionAssumption DEF OwnershipInv, PumpFollowsClient
<1> QED
  BY <1>1, <1>3 DEF L!LinkAttach

\* Whatever the session does, its client and its run phase change only as Link
\* says (LinkSpec): what the runs on Link show holds beside every session.
THEOREM SessionImplementsLink == Spec => LinkSpec
<1>1. Init => L!LinkInit
  BY DEF Init, L!LinkInit
<1>2. OwnershipInv /\ [Next]_vars => [L!LinkNext]_(L!linkVars)
  <2> SUFFICES ASSUME OwnershipInv, [Next]_vars PROVE [L!LinkNext]_(L!linkVars)
    OBVIOUS
  <2>1. CASE UNCHANGED vars
    BY <2>1 DEF vars, viewVars, connVars, L!linkVars
  <2>2. CASE ConnectFromLauncher
    BY <2>2, BeginIsALinkStep DEF ConnectFromLauncher
  <2>3. CASE OpenInDirectory
    BY <2>3, BeginIsALinkStep DEF OpenInDirectory
  <2>4. ASSUME NEW c \in Conn, ConnectStep(c) PROVE [L!LinkNext]_(L!linkVars)
    <3>1. CASE ConnectReturns(c)
      BY <3>1 DEF ConnectReturns, viewVars, L!linkVars
    <3>2. CASE FinishConnected(c)
      BY <3>2, FinishAttaches DEF L!LinkNext
    <3>3. CASE FinishFailed(c)
      BY <3>3 DEF FinishFailed, L!LinkNext, L!LinkFail, L!linkVars
    <3>4. CASE FinishWithoutView(c)
      BY <3>4 DEF FinishWithoutView, viewVars, L!linkVars
    <3> QED
      BY <2>4, <3>1, <3>2, <3>3, <3>4 DEF ConnectStep
  <2>5. ASSUME NEW c \in Conn, ChildDies(c) \/ ShutdownEnds(c) \/ AbortDone(c)
        PROVE  [L!LinkNext]_(L!linkVars)
    BY <2>5 DEF ChildDies, ShutdownEnds, AbortDone, viewVars, connVars, L!linkVars
  <2>6. ASSUME NEW c \in Conn, PumpFrame(c) PROVE [L!LinkNext]_(L!linkVars)
    BY <2>6 DEF PumpFrame, connVars, L!LinkNext, L!LinkTurn
  <2>7. ASSUME NEW c \in Conn, PumpClosed(c) PROVE [L!LinkNext]_(L!linkVars)
    BY <2>7 DEF PumpClosed, L!LinkNext, L!LinkLost
  <2>8. ASSUME NEW c \in Conn, AbortRecycles(c) PROVE [L!LinkNext]_(L!linkVars)
    BY <2>8, BeginIsALinkStep DEF AbortRecycles
  <2>9. CASE RunDeferred
    BY <2>9, BeginIsALinkStep DEF RunDeferred
  <2>10. CASE DoRestart
    BY <2>10, BeginIsALinkStep DEF DoRestart
  <2>11. CASE ReturnToLauncher \/ CloseTab
    BY <2>11 DEF ReturnToLauncher, CloseTab, TakeAndCloseClient, L!LinkNext, L!LinkLeave
  <2>12. CASE StartOmpUpdate
    BY <2>12 DEF StartOmpUpdate, TakeAndCloseClient, L!LinkNext, L!LinkRecycle
  <2>13. CASE InstallEnds
    BY <2>13, BeginIsALinkStep DEF InstallEnds
  <2>14. CASE DoAbort \/ UpdateCheckEnds \/ Clock
    BY <2>14 DEF DoAbort, UpdateCheckEnds, Clock, viewVars, connVars, L!linkVars
  <2> QED
    BY <2>1, <2>2, <2>3, <2>4, <2>5, <2>6, <2>7, <2>8, <2>9, <2>10, <2>11, <2>12,
       <2>13, <2>14 DEF Next
<1> QED
  BY <1>1, <1>2, Ownership, PTL DEF Spec, LinkSpec, L!LinkSpec
=============================================================================
