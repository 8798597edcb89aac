----------------------------- MODULE Supervisor -----------------------------
(***************************************************************************)
(* Supervisor: what becomes of a session whose omp child has died.  A      *)
(* rolling-window breaker decides between a restart and Dead, and a ring   *)
(* keeps the tail of the child's stderr for the report.                    *)
(***************************************************************************)
EXTENDS Integers, Sequences

CONSTANTS Limit,        \* deaths in one window that trip the breaker (3)
          Window,       \* length of the window (60 s)
          RingCap,      \* bytes the ring keeps (64 KiB)
          Byte,         \* what stderr is made of
          MaxTime,      \* bound: the last instant
          MaxDeaths,    \* bound: deaths between two clears of the breaker
          MaxChunk,     \* bound: bytes recorded at once
          MaxObserved   \* bound: bytes recorded between two clears of the ring

ASSUME SupervisorAssumption ==
  /\ {Limit, Window} \subseteq Nat \ {0}
  /\ {RingCap, MaxTime, MaxDeaths, MaxChunk, MaxObserved} \subseteq Nat

VARIABLES
  now,        \* the monotonic clock
  state,      \* SupervisorState
  breaker,    \* RestartBreaker.events: instants of the deaths still counted
  ring,       \* StderrRing.buf
  log,        \* history: the deaths since the breaker was cleared, with verdicts
  observed    \* history: the bytes recorded since the ring was replaced

supVars == <<now, state, breaker, ring, log, observed>>

Running       == [kind |-> "running"]
Restarting(n) == [kind |-> "restarting", attempt |-> n]
Dead(why, tail) == [kind |-> "dead", reason |-> why, tail |-> tail]

Chunk == UNION {[1..n -> Byte] : n \in 0..MaxChunk}

State == {Running}
         \cup [kind : {"restarting"}, attempt : Nat]
         \cup [kind : {"dead"}, reason : {"crash loop", "explicit", "fatal"},
               tail : Seq(Byte)]

\* Types, and the capacity of the stderr ring.
SupTypeOK ==
  /\ now \in Nat
  /\ state \in State
  /\ breaker \in Seq(Nat)
  /\ ring \in Seq(Byte) /\ Len(ring) <= RingCap
  /\ log \in Seq([at : Nat, verdict : {"dead", "restart"}])
  /\ observed \in Seq(Byte)

\* Supervisor::new.
Fresh == /\ state' = Running
         /\ breaker' = <<>>
         /\ log' = <<>>
         /\ ring' = <<>>
         /\ observed' = <<>>

SupInit == /\ now = 0
           /\ state = Running
           /\ breaker = <<>>
           /\ log = <<>>
           /\ ring = <<>>
           /\ observed = <<>>

-----------------------------------------------------------------------------
(* RestartBreaker::record.                                                  *)

\* Slip: an event exactly one window old still counts.
StaleOneLate(t) == now - t > Window

\* The window is open on its trailing edge.
Stale(t) == now - t >= Window

\* Push the instant, pop from the front until an event is fresh.
RecordDeath ==
  LET pushed == Append(breaker, now) IN
  \E k \in 1..Len(pushed) :
     /\ \A i \in 1..k-1 : Stale(pushed[i])
     /\ ~Stale(pushed[k])
     /\ breaker' = SubSeq(pushed, k, Len(pushed))

\* Slip: the breaker trips one death late.
TrippedLate == Len(breaker') > Limit

Tripped == Len(breaker') >= Limit

-----------------------------------------------------------------------------
(* The handlers, one lock section each.                                     *)

\* The client's own tail is preferred to what the ring holds.
OnChildDied(tail) ==
  /\ Len(log) < MaxDeaths
  /\ RecordDeath
  /\ state' = IF Tripped
                THEN Dead("crash loop", IF tail = <<>> THEN ring ELSE tail)
                ELSE Restarting(Len(breaker'))
  /\ log' = Append(log, [at |-> now, verdict |-> IF Tripped THEN "dead" ELSE "restart"])
  /\ UNCHANGED <<now, ring, observed>>

OnChildRunning ==
  /\ state' = Running
  /\ UNCHANGED <<now, breaker, ring, log, observed>>

OnExplicitShutdown(tail) ==
  /\ state' = Dead("explicit", tail)
  /\ UNCHANGED <<now, breaker, ring, log, observed>>

OnFatal(tail) ==
  /\ state' = Dead("fatal", tail)
  /\ UNCHANGED <<now, breaker, ring, log, observed>>

\* Refused outside Dead.
Reset ==
  /\ state.kind = "dead"
  /\ state' = Restarting(0)
  /\ breaker' = <<>>
  /\ log' = <<>>
  /\ ring' = <<>>
  /\ observed' = <<>>
  /\ UNCHANGED now

\* The owner drops its supervisor for a new one.
Replace == Fresh /\ UNCHANGED now

\* The last n bytes of s.
LastBytes(s, n) == SubSeq(s, IF Len(s) > n THEN Len(s) - n + 1 ELSE 1, Len(s))

\* Slip: the overflow is computed before the chunk is counted.
PushGrows(chunk) ==
  IF RingCap = 0 THEN ring
  ELSE IF Len(chunk) >= RingCap THEN LastBytes(chunk, RingCap)
  ELSE LastBytes(ring, RingCap) \o chunk

\* StderrRing::push: a chunk that fills the ring replaces it, a shorter one
\* pushes the oldest bytes out.
Push(chunk) ==
  IF RingCap = 0 THEN ring
  ELSE IF Len(chunk) >= RingCap THEN LastBytes(chunk, RingCap)
  ELSE LastBytes(ring, RingCap - Len(chunk)) \o chunk

RecordStderr(chunk) ==
  /\ Len(observed) + Len(chunk) <= MaxObserved
  /\ ring' = Push(chunk)
  /\ observed' = observed \o chunk
  /\ UNCHANGED <<now, state, breaker, log>>

Tick == /\ now < MaxTime
        /\ now' = now + 1
        /\ UNCHANGED <<state, breaker, ring, log, observed>>

-----------------------------------------------------------------------------
SupNext ==
  \/ \E tail \in Chunk : OnChildDied(tail) \/ OnExplicitShutdown(tail) \/ OnFatal(tail)
  \/ OnChildRunning
  \/ Reset
  \/ Replace
  \/ \E chunk \in Chunk : RecordStderr(chunk)
  \/ Tick

SupSpec == SupInit /\ [][SupNext]_supVars

-----------------------------------------------------------------------------
\* The breaker's promise: in no window are Limit deaths all answered with a
\* restart; the last of Limit deaths that fit in one is answered with Dead,
\* whatever the child did in between (it may well have come up again).
RestartsAreSpaced ==
  \A k \in DOMAIN log :
     k >= Limit /\ log[k].verdict = "restart" => log[k].at - log[k-Limit+1].at >= Window

\* The breaker's other promise: a slow drip never trips it.  A session is given
\* up only when Limit deaths lie strictly within one window.
SlowDripSurvives ==
  \A k \in DOMAIN log :
     log[k].verdict = "dead" => k >= Limit /\ log[k].at - log[k-Limit+1].at < Window

\* However the bytes were cut into chunks, the ring holds the last RingCap bytes
\* of the child's stderr.
RingKeepsTail == ring = LastBytes(observed, RingCap)

\* The strengthening: the breaker is the part of the log within a window of the
\* last death.
Counted == Len(log) - Len(breaker)
BreakerFollowsLog ==
  /\ Len(breaker) <= Len(log)
  /\ \A i, j \in DOMAIN log : i < j => log[i].at <= log[j].at
  /\ \A i \in DOMAIN log : log[i].at <= now
  /\ \A i \in DOMAIN breaker : breaker[i] = log[Counted + i].at
  /\ \A i \in 1..Counted : log[Len(log)].at - log[i].at >= Window
=============================================================================
