----------------------------- MODULE PanelsProofs -----------------------------
(***************************************************************************)
(* What is proved of Panels, for any number of connections, commands in    *)
(* flight, agents and rows: the flags of the refreshes are those of        *)
(* requests that will be answered, the status line shows what omp has once *)
(* nothing is on its way, the window over a subagent shows one unbroken    *)
(* run of its messages, the pill counts what came since the list last      *)
(* followed its tail, and the clock of the tools runs while they do.       *)
(***************************************************************************)
EXTENDS Panels, SequenceTheorems, TLAPS

-----------------------------------------------------------------------------
(* The transcript list.                                                      *)

\* Rows the list has not heard of are behind those it has, and a list that follows
\* its tail has had all its items in sight.
CountInv ==
  /\ rows \in 0..MaxRows /\ items \in 0..rows /\ sighted \in 0..items
  /\ following \in BOOLEAN /\ (following => sighted = items)
  /\ UnreadAreBelow

ClockInv ==
  /\ active \subseteq Tool /\ started \subseteq Tool /\ ticking \in BOOLEAN
  /\ ClockWhileToolsRun

ListInv == CountInv /\ ClockInv

LEMMA ListInitially == Init => ListInv
<1> SUFFICES ASSUME Init PROVE ListInv
  OBVIOUS
<1>1. CountInv
  BY TranscriptListAssumption DEF Init, ListInit, CountInv, UnreadAreBelow
<1>2. ClockInv
  BY DEF Init, ListInit, RequestsInit, LinkInit, ClockInv, ClockWhileToolsRun
<1> QED
  BY <1>1, <1>2 DEF ListInv

\* What keeps the counts, and what keeps the clock.
LEMMA CountKept ==
  ASSUME CountInv, UNCHANGED <<items, following, unread, sighted>>, rows' \in rows..MaxRows
  PROVE  CountInv'
<1>1. rows' \in 0..MaxRows /\ items' \in 0..rows' /\ sighted' \in 0..items'
  BY TranscriptListAssumption DEF CountInv
<1>2. UnreadAreBelow'
  BY DEF CountInv, UnreadAreBelow
<1> QED
  BY <1>1, <1>2 DEF CountInv

LEMMA CountCleared ==
  ASSUME rows' \in 0..MaxRows, items' = rows', sighted' = rows', unread' = 0, following' \in BOOLEAN
  PROVE  CountInv'
<1>0. rows' \in Nat
  BY TranscriptListAssumption
<1>1. /\ items' \in 0..rows' /\ sighted' \in 0..items'
      /\ unread' = IF following' THEN 0 ELSE items' - sighted'
  <2>1. \A n \in Nat : n \in 0..n /\ n - n = 0
    OBVIOUS
  <2>2. items' - sighted' = 0
    BY <1>0, <2>1
  <2> QED
    BY <1>0, <2>1, <2>2
<1>2. UnreadAreBelow'
  BY <1>1 DEF UnreadAreBelow
<1> QED
  BY <1>1, <1>2 DEF CountInv

LEMMA ClockSynced ==
  ASSUME active' \subseteq Tool, SyncRunningTools PROVE ClockInv'
  BY DEF SyncRunningTools, ClockInv, ClockWhileToolsRun

LEMMA ClockKept ==
  ASSUME ClockInv, UNCHANGED <<active, started, ticking, client>> PROVE ClockInv'
  BY DEF ClockInv, ClockWhileToolsRun

LEMMA ClockStopped ==
  ASSUME client' = NoConn, active' \subseteq Tool, started' \subseteq Tool, ticking' = FALSE
  PROVE  ClockInv'
  BY DEF ClockInv, ClockWhileToolsRun

\* The list hears of the rows that came while it was not painted.
LEMMA SyncListKeeps ==
  ASSUME CountInv, SyncTranscriptList, UNCHANGED rows PROVE CountInv'
<1>1. items' = rows /\ UNCHANGED following
  BY DEF SyncTranscriptList
<1>2. rows \in Nat /\ items \in Nat /\ sighted \in Nat /\ sighted <= items /\ items <= rows
  BY TranscriptListAssumption DEF CountInv
<1>3. CASE following
  <2>1. unread' = 0 /\ sighted' = rows
    BY <1>1, <1>2, <1>3 DEF SyncTranscriptList, Sight, CountInv, UnreadAreBelow
  <2> QED
    BY <1>1, <2>1, CountCleared DEF CountInv
<1>4. CASE ~following
  <2>1. unread = items - sighted
    BY <1>4 DEF CountInv, UnreadAreBelow
  <2>2. sighted' = sighted
    BY <1>1, <1>4 DEF SyncTranscriptList, Sight
  <2>3. unread' = rows - sighted
    <3>1. CASE rows > items
      BY <1>2, <1>4, <2>1, <3>1 DEF SyncTranscriptList
    <3>2. CASE rows = items
      BY <1>2, <2>1, <3>2 DEF SyncTranscriptList
    <3> QED
      BY <1>2, <3>1, <3>2
  <2> QED
    BY <1>1, <1>2, <1>4, <2>2, <2>3 DEF CountInv, UnreadAreBelow
<1> QED
  BY <1>3, <1>4 DEF CountInv

LEMMA ListMoveKeeps == ASSUME ListInv, ListMove PROVE ListInv'
<1> USE DEF ListInv
<1>1. UNCHANGED client
  BY DEF ListMove, linkVars
<1>2. CASE PushRow
  <2>1. rows' \in rows..MaxRows
    BY <1>2, TranscriptListAssumption DEF PushRow, CountInv
  <2> QED
    BY <1>1, <1>2, <2>1, CountKept, ClockKept DEF PushRow
<1>3. CASE PumpApplies
  <2>1. rows' \in rows..MaxRows /\ active' \subseteq Tool
    BY <1>3, TranscriptListAssumption DEF PumpApplies, CountInv, ClockInv
  <2> QED
    BY <1>3, <2>1, CountKept, ClockSynced DEF PumpApplies
<1>4. CASE AbortSettles
  BY <1>4, SyncListKeeps, ClockSynced DEF AbortSettles
<1>5. CASE JumpToTranscriptTail
  <2>1. CountInv'
    BY <1>5 DEF JumpToTranscriptTail, Sight, CountInv, UnreadAreBelow
  <2> QED
    BY <1>1, <1>5, <2>1, ClockKept DEF JumpToTranscriptTail
<1>6. CASE PageKey
  <2>1. /\ following' = FALSE /\ UNCHANGED <<rows, items, unread, sighted>>
        /\ unread = items - sighted
    BY <1>6, TranscriptListAssumption DEF PageKey, Sight, CountInv, UnreadAreBelow
  <2>2. CountInv'
    BY <2>1 DEF CountInv, UnreadAreBelow
  <2> QED
    BY <1>1, <1>6, <2>2, ClockKept DEF PageKey
<1>7. CASE Scrolled
  <2>1. CountInv'
    <3>1. CASE following'
      BY <1>7, <3>1 DEF Scrolled, Sight, CountInv, UnreadAreBelow
    <3>2. CASE ~following'
      <4>1. /\ following' = FALSE /\ UNCHANGED <<rows, items, unread, sighted>>
            /\ unread = items - sighted
        BY <1>7, <3>2, TranscriptListAssumption DEF Scrolled, Sight, CountInv, UnreadAreBelow
      <4> QED
        BY <4>1 DEF CountInv, UnreadAreBelow
    <3> QED
      BY <3>1, <3>2
  <2> QED
    BY <1>1, <1>7, <2>1, ClockKept DEF Scrolled
<1> QED
  BY <1>2, <1>3, <1>4, <1>5, <1>6, <1>7 DEF ListMove

LEMMA ListLifeKeeps ==
  ASSUME ListInv, Connect \/ Lose \/ Leave \/ Turn PROVE ListInv'
<1> USE DEF ListInv
<1>1. CASE Connect
  BY <1>1, CountCleared, ClockSynced DEF Connect, ListAttach
<1>2. CASE Lose
  <2>1. /\ client' = NoConn /\ UNCHANGED <<rows, active, items, following, unread, sighted>>
        /\ SyncRunningTools \/ ListRecycle
    BY <1>2 DEF Lose, LinkLost, LinkRecycle, ListLost, ListRecycle
  <2>2. active' \subseteq Tool /\ (ListRecycle => started' \subseteq Tool /\ ticking' = FALSE)
    BY <2>1 DEF ListRecycle, ClockInv
  <2>3. rows' \in rows..MaxRows
    BY <2>1, TranscriptListAssumption DEF CountInv
  <2> QED
    BY <2>1, <2>2, <2>3, CountKept, ClockSynced, ClockStopped
<1>3. CASE Leave
  <2>1. CountInv'
    <3>1. rows' = 0 /\ 0 \in 0..MaxRows
      BY <1>3, TranscriptListAssumption DEF Leave, ListForget
    <3> QED
      BY <1>3, <3>1, CountCleared DEF Leave, ListForget, CountInv
  <2> QED
    BY <1>3, <2>1, ClockStopped DEF Leave, LinkLeave, ListForget
<1>4. CASE Turn
  <2>1. active' \subseteq Tool /\ SyncRunningTools
    BY <1>4 DEF Turn, TurnSettles, ClockInv
  <2>2. rows' \in rows..MaxRows /\ UNCHANGED <<items, following, unread, sighted>>
    BY <1>4, TranscriptListAssumption DEF Turn, TurnSettles, CountInv
  <2> QED
    BY <2>1, <2>2, CountKept, ClockSynced
<1> QED
  BY <1>1, <1>2, <1>3, <1>4

LEMMA ListKept == ASSUME ListInv, UNCHANGED <<listVars, client>> PROVE ListInv'
<1>1. rows' \in rows..MaxRows
  BY TranscriptListAssumption DEF ListInv, CountInv, listVars
<1> QED
  BY <1>1, CountKept, ClockKept DEF ListInv, listVars

LEMMA ListInductive == ListInv /\ [Next]_vars => ListInv'
<1> SUFFICES ASSUME ListInv, [Next]_vars PROVE ListInv'
  OBVIOUS
<1>1. CASE SettingMove \/ DrawerMove \/ CommandMove \/ Work
  BY <1>1, ListKept DEF SettingMove, DrawerMove, CommandMove, Work, linkVars
<1>2. CASE ListMove
  BY <1>2, ListMoveKeeps
<1>3. CASE Event
  <2>1. CASE Turn \/ Leave
    BY <2>1, ListLifeKeeps
  <2>2. CASE ~(Turn \/ Leave)
    BY <1>3, <2>2, ListKept DEF Event, Exit, linkVars
  <2> QED
    BY <2>1, <2>2
<1>4. CASE Connect \/ Lose
  BY <1>4, ListLifeKeeps
<1>5. CASE Painted
  <2>1. SyncTranscriptList /\ UNCHANGED <<rows, active, started, ticking, client>>
    BY <1>5 DEF Painted, PaintList, linkVars
  <2> QED
    BY <2>1, SyncListKeeps, ClockKept DEF ListInv
<1>6. CASE UNCHANGED vars
  BY <1>6, ListKept DEF vars, linkVars
<1> QED
  BY <1>1, <1>2, <1>3, <1>4, <1>5, <1>6 DEF Next, Consequence

LEMMA ListInvAlways == Spec => []ListInv
  BY ListInitially, ListInductive, PTL DEF Spec

\* The pill counts the rows since the list last followed its tail:
\* sync_transcript_list and the handlers that move the list.
THEOREM UnreadAreBelowAlways == Spec => []UnreadAreBelow
<1>1. ListInv => UnreadAreBelow
  BY DEF ListInv, CountInv
<1> QED
  BY <1>1, ListInvAlways, PTL

\* The clock runs exactly while a tool does, whatever the turn, an abort or the end
\* of the session has settled: sync_running_tools.
THEOREM ClockWhileToolsRunAlways == Spec => []ClockWhileToolsRun
<1>1. ListInv => ClockWhileToolsRun
  BY DEF ListInv, ClockInv
<1> QED
  BY <1>1, ListInvAlways, PTL

-----------------------------------------------------------------------------
(* The pipe: the commands of each connection that have not come back.        *)

Asks == SettingAsks \cup AgentAsks \cup CommandAsks
Key == Setting \cup Agent \cup Path \cup {NoAgent, NoPath}
Val == Nat \cup Subscription
PageReply == [reset : BOOLEAN, next : Nat, from : Nat]
Replied == {<<>>} \cup Nat \cup [Setting -> Value] \cup (SUBSET Agent) \cup PageReply

\* What a command is about, and what it is answered with.
Fits(r) ==
  /\ r.what = "set" => r.key \in Setting /\ r.val \in Value /\ r.was \in Value
  /\ r.what = "cycle" => r.key \in Level \cup {Model}
  /\ r.what = "messages" => r.key \in Agent /\ r.val \in Nat /\ r.was \in Nat
  /\ r.what = "subscribe" => r.val \in Subscription
  /\ r.status = "done" =>
       /\ r.what \in {"set", "cycle"} => r.reply \in Value
       /\ r.what = "state" => r.reply \in [Setting -> Value]
       /\ r.what = "agents" => r.reply \in SUBSET Agent
       /\ r.what = "messages" => r.reply \in PageReply

Command == {r \in [what : Asks, key : Key, val : Val, was : Val, status : Status,
                   reply : Replied] : Fits(r)}
Queues == [Conn -> Seq(Command)]

\* The expired come first, and what was answered is not behind what was not.
Shaped(s) ==
  \A i, j \in 1..Len(s) : i < j =>
    /\ s[j].status = "expired" => s[i].status = "expired"
    /\ s[i].status \in {"queued", "expired"} => s[j].status # "done"

Good(q) == q \in Queues /\ \A c \in Conn : Shaped(q[c]) /\ Len(q[c]) <= MaxSent

\* The requests whose tasks still wait, of a pipe q.
AskedFor(q, what) ==
  \E c \in Conn : \E i \in 1..Len(q[c]) : q[c][i].status # "expired" /\ q[c][i].what = what

\* A page is a run of the agent's messages, from where the request said.
PageOK(r) ==
  /\ r.reply.from = IF r.reply.reset THEN 0 ELSE r.val
  /\ r.reply.from <= r.reply.next /\ r.reply.next <= log[r.key]

\* The requests for messages: one at most of each generation of the window, and the
\* one the window waits for reads on from where the window has come to.
MessageOK(r) ==
  r.what = "messages" =>
    /\ r.was <= generation /\ r.val <= log[r.key]
    /\ StillWanted(r) => r.val = nextByte
    /\ r.status = "done" => PageOK(r)
OneEach(q) ==
  \A c, d \in Conn : \A i \in 1..Len(q[c]), j \in 1..Len(q[d]) :
    q[c][i].what = "messages" /\ q[d][j].what = "messages" /\ q[c][i].was = q[d][j].was
      => c = d /\ i = j
TailReqs(q) ==
  /\ \A c \in Conn : \A i \in 1..Len(q[c]) : MessageOK(q[c][i])
  /\ OneEach(q)

LEMMA WaitingIsAskedFor == \A what : Waiting(what) <=> AskedFor(sent, what)
  BY DEF Waiting, Awaited, AskedFor

\* A command with another status.
LEMMA CommandAt ==
  ASSUME NEW r \in Command, NEW st \in Status \ {"done"}
  PROVE  /\ [r EXCEPT !.status = st] \in Command
         /\ [r EXCEPT !.status = st].status = st
         /\ [r EXCEPT !.status = st].what = r.what /\ [r EXCEPT !.status = st].key = r.key
         /\ [r EXCEPT !.status = st].val = r.val /\ [r EXCEPT !.status = st].was = r.was
<1> DEFINE n == [r EXCEPT !.status = st]
<1>1. r \in [what : Asks, key : Key, val : Val, was : Val, status : Status, reply : Replied]
      /\ Fits(r)
  BY DEF Command
<1>2. /\ n \in [what : Asks, key : Key, val : Val, was : Val, status : Status, reply : Replied]
      /\ n.status = st /\ n.what = r.what /\ n.key = r.key /\ n.val = r.val /\ n.was = r.was
  BY <1>1
<1> HIDE DEF n
<1>3. Fits(n)
  BY <1>1, <1>2 DEF Fits
<1> QED
  BY <1>2, <1>3 DEF Command, n

\* One more command on the pipe.
LEMMA WithOne ==
  ASSUME NEW q \in Queues, client \in Conn, NEW r \in Command, r.status = "queued"
  PROVE  \E s \in Command :
           /\ s.status \in {"queued", "refused"} /\ (client \in running => s = r)
           /\ s.what = r.what /\ s.key = r.key /\ s.val = r.val /\ s.was = r.was
           /\ With(q, r) \in Queues
           /\ Len(q[client]) \in Nat
           /\ Len(With(q, r)[client]) = Len(q[client]) + 1
           /\ With(q, r)[client][Len(q[client]) + 1] = s
           /\ \A i \in 1..Len(q[client]) : With(q, r)[client][i] = q[client][i]
           /\ \A c \in Conn : c # client => With(q, r)[c] = q[c]
<1> DEFINE s == IF client \in running THEN r ELSE [r EXCEPT !.status = "refused"]
<1>1. /\ s \in Command /\ s.status \in {"queued", "refused"}
      /\ s.what = r.what /\ s.key = r.key /\ s.val = r.val /\ s.was = r.was
  BY CommandAt DEF Status
<1>2. client \in running => s = r
  OBVIOUS
<1>3. With(q, r) = [q EXCEPT ![client] = Append(q[client], s)]
  BY DEF With, Queues
<1> HIDE DEF s
<1>4. q[client] \in Seq(Command) /\ Append(q[client], s) \in Seq(Command)
  BY <1>1 DEF Queues
<1>5. With(q, r) \in Queues /\ With(q, r)[client] = Append(q[client], s)
      /\ \A c \in Conn : c # client => With(q, r)[c] = q[c]
  BY <1>3, <1>4 DEF Queues
<1>6. /\ Len(q[client]) \in Nat /\ Len(Append(q[client], s)) = Len(q[client]) + 1
      /\ Append(q[client], s)[Len(q[client]) + 1] = s
      /\ \A i \in 1..Len(q[client]) : Append(q[client], s)[i] = q[client][i]
  BY <1>1, <1>4
<1> QED
  BY <1>1, <1>2, <1>5, <1>6

\* What the view sends it sends to its client.
Elsewhere(p, w) == \A c \in Conn : c # client /\ p[c] = <<>> => w[c] = <<>>

\* What the pipe keeps of its promises on the way from p to w.
Onward(p, w) ==
  /\ Good(w)
  /\ \A what \in Asks : AskedFor(p, what) => AskedFor(w, what)
  /\ TailReqs(p) => TailReqs(w)
  /\ Elsewhere(p, w)

LEMMA WithGood ==
  ASSUME NEW q, Good(q), client \in Conn, Room(q), NEW r \in Command, r.status = "queued"
  PROVE  /\ Good(With(q, r)) /\ AskedFor(With(q, r), r.what)
         /\ \A what \in Asks : AskedFor(q, what) => AskedFor(With(q, r), what)
<1> DEFINE w == With(q, r)
           n == Len(q[client]) + 1
<1>1. q \in Queues /\ (\A c \in Conn : Shaped(q[c]) /\ Len(q[c]) <= MaxSent)
  BY DEF Good
<1>2. PICK s \in Command :
        /\ s.status \in {"queued", "refused"} /\ s.what = r.what
        /\ w \in Queues /\ Len(q[client]) \in Nat /\ Len(w[client]) = n /\ w[client][n] = s
        /\ \A i \in 1..Len(q[client]) : w[client][i] = q[client][i]
        /\ \A c \in Conn : c # client => w[c] = q[c]
  BY <1>1, WithOne
<1> HIDE DEF w
<1>3. ASSUME NEW c \in Conn, NEW i \in 1..Len(w[c])
      PROVE  \/ i \in 1..Len(q[c]) /\ w[c][i] = q[c][i]
             \/ c = client /\ i = n /\ w[c][i] = s
  BY <1>2
<1>4. ASSUME NEW c \in Conn, NEW i \in 1..Len(q[c])
      PROVE  i \in 1..Len(w[c]) /\ w[c][i] = q[c][i]
  BY <1>2
<1>5. ASSUME NEW c \in Conn PROVE Shaped(w[c])
  <2>1. CASE c # client
    BY <1>1, <1>2, <2>1
  <2>2. CASE c = client
    <3>1. SUFFICES ASSUME NEW i \in 1..n, NEW j \in 1..n, i < j
                   PROVE  /\ w[c][j].status = "expired" => w[c][i].status = "expired"
                          /\ w[c][i].status \in {"queued", "expired"} => w[c][j].status # "done"
      BY <1>2, <2>2 DEF Shaped
    <3>2. i \in 1..Len(q[c])
      BY <1>2, <2>2, <3>1
    <3>3. CASE j = n
      BY <1>2, <2>2, <3>3
    <3>4. CASE j \in 1..Len(q[c])
      <4>1. w[c][i] = q[c][i] /\ w[c][j] = q[c][j]
        BY <1>4, <3>2, <3>4
      <4>2. /\ q[c][j].status = "expired" => q[c][i].status = "expired"
            /\ q[c][i].status \in {"queued", "expired"} => q[c][j].status # "done"
        BY <1>1, <3>1, <3>2, <3>4 DEF Shaped
      <4> QED
        BY <2>2, <4>1, <4>2
    <3> QED
      BY <1>2, <2>2, <3>3, <3>4
  <2> QED
    BY <2>1, <2>2
<1>6. \A c \in Conn : Len(w[c]) <= MaxSent
  <2>1. Len(q[client]) < MaxSent
    BY RequestsAssumption DEF Room
  <2> QED
    <3>1. SUFFICES ASSUME NEW c \in Conn PROVE Len(w[c]) <= MaxSent
      OBVIOUS
    <3>2. CASE c = client
      BY <1>2, <2>1, <3>2, RequestsAssumption
    <3>3. CASE c # client
      BY <1>1, <1>2, <3>3
    <3> QED
      BY <3>2, <3>3
<1>7. Good(w)
  BY <1>2, <1>5, <1>6 DEF Good
<1>8. ASSUME NEW what \in Asks, AskedFor(q, what) PROVE AskedFor(w, what)
  BY <1>4, <1>8 DEF AskedFor
<1>9. AskedFor(w, r.what)
  <2>1. n \in 1..Len(w[client])
    BY <1>2
  <2> QED
    BY <1>2, <2>1 DEF AskedFor
<1> QED
  BY <1>7, <1>8, <1>9 DEF w

LEMMA WithOnward ==
  ASSUME NEW q, Good(q), client \in Conn, Room(q), NEW r \in Command, r.status = "queued",
         r.what # "messages"
  PROVE  Onward(q, With(q, r)) /\ AskedFor(With(q, r), r.what)
<1> DEFINE w == With(q, r)
           n == Len(q[client]) + 1
<1>1. q \in Queues
  BY DEF Good
<1>2. PICK s \in Command :
        /\ s.what = r.what
        /\ Len(q[client]) \in Nat /\ Len(w[client]) = n /\ w[client][n] = s
        /\ \A i \in 1..Len(q[client]) : w[client][i] = q[client][i]
        /\ \A c \in Conn : c # client => w[c] = q[c]
  BY <1>1, WithOne
<1>3. /\ Good(w) /\ AskedFor(w, r.what)
      /\ \A what \in Asks : AskedFor(q, what) => AskedFor(w, what)
  BY WithGood
<1> HIDE DEF w
<1>4. ASSUME NEW c \in Conn, NEW i \in 1..Len(w[c])
      PROVE  \/ i \in 1..Len(q[c]) /\ w[c][i] = q[c][i]
             \/ c = client /\ i = n /\ w[c][i] = s
  BY <1>2
<1>5. ASSUME TailReqs(q) PROVE TailReqs(w)
  <2>1. ASSUME NEW c \in Conn, NEW i \in 1..Len(w[c]) PROVE MessageOK(w[c][i])
    <3>1. CASE i \in 1..Len(q[c]) /\ w[c][i] = q[c][i]
      BY <1>5, <3>1 DEF TailReqs
    <3>2. CASE w[c][i] = s
      BY <1>2, <3>2 DEF MessageOK
    <3> QED
      BY <1>4, <3>1, <3>2
  <2>2. OneEach(w)
    <3>1. SUFFICES ASSUME NEW c \in Conn, NEW d \in Conn, NEW i \in 1..Len(w[c]), NEW j \in 1..Len(w[d]),
                          w[c][i].what = "messages", w[d][j].what = "messages", w[c][i].was = w[d][j].was
                   PROVE  c = d /\ i = j
      BY DEF OneEach
    <3>2. i \in 1..Len(q[c]) /\ w[c][i] = q[c][i] /\ j \in 1..Len(q[d]) /\ w[d][j] = q[d][j]
      BY <1>2, <1>4, <3>1
    <3> QED
      BY <1>5, <3>1, <3>2 DEF TailReqs, OneEach
  <2> QED
    BY <2>1, <2>2 DEF TailReqs
<1>6. Elsewhere(q, w)
  BY <1>2 DEF Elsewhere
<1> QED
  BY <1>3, <1>5, <1>6 DEF Onward, w

\* A pipe from which the first n commands of c are gone, and of which some others
\* have been answered or have expired.
Kept(b, a) ==
  /\ b.what = a.what /\ b.key = a.key /\ b.val = a.val /\ b.was = a.was
  /\ b.what = "messages" /\ b.status = "done" => (a.status = "done" /\ b.reply = a.reply) \/ PageOK(b)
Moved(w, c, n) ==
  /\ n \in Nat /\ Len(w[c]) = Len(sent[c]) - n
  /\ \A i \in 1..Len(w[c]) : i + n \in 1..Len(sent[c]) /\ Kept(w[c][i], sent[c][i + n])
  /\ \A d \in Conn : d # c => w[d] = sent[d]

LEMMA TailMoved ==
  ASSUME sent \in Queues, NEW w, NEW c \in Conn, NEW n, Moved(w, c, n), TailReqs(sent)
  PROVE  TailReqs(w)
<1>0. n \in Nat /\ \A d \in Conn : Len(sent[d]) \in Nat
  BY DEF Moved, Queues
<1> DEFINE off(d) == IF d = c THEN n ELSE 0
<1>1. ASSUME NEW d \in Conn, NEW i \in 1..Len(w[d])
      PROVE  i + off(d) \in 1..Len(sent[d]) /\ Kept(w[d][i], sent[d][i + off(d)])
  <2>1. CASE d = c
    BY <2>1 DEF Moved
  <2>2. CASE d # c
    <3>1. w[d] = sent[d] /\ off(d) = 0 /\ i + 0 = i
      BY <2>2 DEF Moved
    <3> QED
      BY <3>1 DEF Kept
  <2> QED
    BY <2>1, <2>2
<1>2. ASSUME NEW d \in Conn, NEW i \in 1..Len(w[d]) PROVE MessageOK(w[d][i])
  <2>1. MessageOK(sent[d][i + off(d)])
    BY <1>1 DEF TailReqs
  <2>2. Kept(w[d][i], sent[d][i + off(d)])
    BY <1>1
  <2> QED
    BY <2>1, <2>2 DEF Kept, MessageOK, PageOK, StillWanted
<1>3. OneEach(w)
  <2>1. SUFFICES ASSUME NEW d \in Conn, NEW e \in Conn, NEW i \in 1..Len(w[d]), NEW j \in 1..Len(w[e]),
                        w[d][i].what = "messages", w[e][j].what = "messages", w[d][i].was = w[e][j].was
                 PROVE  d = e /\ i = j
    BY DEF OneEach
  <2>2. /\ i + off(d) \in 1..Len(sent[d]) /\ Kept(w[d][i], sent[d][i + off(d)])
        /\ j + off(e) \in 1..Len(sent[e]) /\ Kept(w[e][j], sent[e][j + off(e)])
    BY <1>1
  <2> DEFINE a == i + off(d)
             b == j + off(e)
  <2>3. /\ sent[d][a].what = "messages" /\ sent[e][b].what = "messages"
        /\ sent[d][a].was = sent[e][b].was
    BY <2>1, <2>2 DEF Kept
  <2>4. a \in 1..Len(sent[d]) /\ b \in 1..Len(sent[e])
    BY <2>2
  <2>5. d = e /\ a = b
    <3> HIDE DEF a, b, off
    <3> QED
      BY <2>3, <2>4 DEF TailReqs, OneEach
  <2> QED
    BY <1>0, <2>5
<1> QED
  BY <1>2, <1>3 DEF TailReqs

\* The first command of c is gone.
LEMMA TailOne ==
  ASSUME Good(sent), NEW c \in Conn, sent[c] # <<>>, NEW w, w = Consume(c)
  PROVE  /\ Good(w) /\ Moved(w, c, 1)
         /\ \A i \in 1..Len(w[c]) : i + 1 \in 1..Len(sent[c]) /\ w[c][i] = sent[c][i + 1]
         /\ \A i \in 1..Len(sent[c]) : i # 1 => i - 1 \in 1..Len(w[c]) /\ w[c][i - 1] = sent[c][i]
<1>1. sent[c] \in Seq(Command) /\ Len(sent[c]) \in Nat /\ Shaped(sent[c]) /\ Len(sent[c]) <= MaxSent
      /\ sent \in Queues
  BY DEF Good, Queues
<1>2. /\ Tail(sent[c]) \in Seq(Command) /\ Len(Tail(sent[c])) = Len(sent[c]) - 1
      /\ \A i \in 1..Len(sent[c]) - 1 : Tail(sent[c])[i] = sent[c][i + 1]
  BY <1>1
<1>3. /\ w \in Queues /\ w[c] = Tail(sent[c]) /\ \A d \in Conn : d # c => w[d] = sent[d]
  BY <1>1, <1>2 DEF Queues, Consume
<1>4. ASSUME NEW i \in 1..Len(w[c])
      PROVE  i + 1 \in 1..Len(sent[c]) /\ w[c][i] = sent[c][i + 1]
  <2>1. i \in 1..Len(sent[c]) - 1 /\ i + 1 \in 1..Len(sent[c])
    BY <1>1, <1>2, <1>3
  <2> QED
    BY <1>2, <1>3, <2>1
<1>5. Moved(w, c, 1)
  BY <1>2, <1>3, <1>4 DEF Moved, Kept
<1>6. Shaped(w[c])
  <2>1. SUFFICES ASSUME NEW i \in 1..Len(w[c]), NEW j \in 1..Len(w[c]), i < j
                 PROVE  /\ w[c][j].status = "expired" => w[c][i].status = "expired"
                        /\ w[c][i].status \in {"queued", "expired"} => w[c][j].status # "done"
    BY DEF Shaped
  <2>2. i + 1 < j + 1
    BY <1>1, <2>1
  <2> QED
    BY <1>1, <1>4, <2>2 DEF Shaped
<1>7. Good(w)
  <2>1. \A d \in Conn : Shaped(w[d]) /\ Len(w[d]) <= MaxSent
    <3>1. Len(w[c]) <= MaxSent
      BY <1>1, <1>2, <1>3, RequestsAssumption
    <3> QED
      BY <1>3, <1>6, <3>1 DEF Good
  <2> QED
    BY <1>3, <2>1 DEF Good
<1>8. ASSUME NEW i \in 1..Len(sent[c]), i # 1
      PROVE  i - 1 \in 1..Len(w[c]) /\ w[c][i - 1] = sent[c][i]
  <2>1. Len(w[c]) = Len(sent[c]) - 1
    BY <1>2, <1>3
  <2>2. i - 1 \in 1..Len(w[c]) /\ (i - 1) + 1 = i
    BY <1>1, <1>8, <2>1
  <2> QED
    BY <1>4, <2>2
<1> QED
  BY <1>4, <1>5, <1>7, <1>8

\* One command of c has become b.
Changed(c, i, b) == [sent EXCEPT ![c] = [@ EXCEPT ![i] = b]]
LEMMA OneChanged ==
  ASSUME Good(sent), NEW c \in Conn, NEW i \in 1..Len(sent[c]), NEW b \in Command, Kept(b, sent[c][i]),
         NEW w, w = Changed(c, i, b)
  PROVE  /\ w \in Queues /\ Moved(w, c, 0) /\ Len(w[c]) = Len(sent[c]) /\ Len(w[c]) <= MaxSent
         /\ w[c][i] = b /\ \A j \in 1..Len(sent[c]) : j # i => w[c][j] = sent[c][j]
         /\ \A d \in Conn : d # c => w[d] = sent[d]
<1>1. sent[c] \in Seq(Command) /\ Len(sent[c]) \in Nat /\ Len(sent[c]) <= MaxSent /\ sent \in Queues
  BY DEF Good, Queues
<1> DEFINE s == [sent[c] EXCEPT ![i] = b]
<1>2. /\ s \in Seq(Command) /\ Len(s) = Len(sent[c]) /\ s[i] = b
      /\ \A j \in 1..Len(sent[c]) : j # i => s[j] = sent[c][j]
  BY <1>1
<1>3. w = [sent EXCEPT ![c] = s]
  BY DEF Changed
<1> HIDE DEF s
<1>4. w \in Queues /\ w[c] = s /\ \A d \in Conn : d # c => w[d] = sent[d]
  BY <1>1, <1>2, <1>3 DEF Queues
<1>5. ASSUME NEW j \in 1..Len(w[c])
      PROVE  j + 0 \in 1..Len(sent[c]) /\ Kept(w[c][j], sent[c][j + 0])
  <2>1. j + 0 = j /\ j \in 1..Len(sent[c])
    BY <1>1, <1>2, <1>4
  <2>2. CASE j = i
    BY <1>2, <1>4, <2>1, <2>2
  <2>3. CASE j # i
    <3>1. w[c][j] = sent[c][j]
      BY <1>2, <1>4, <2>1, <2>3
    <3> QED
      BY <2>1, <3>1 DEF Kept
  <2> QED
    BY <2>2, <2>3
<1>6. Moved(w, c, 0)
  <2>1. Len(w[c]) = Len(sent[c]) - 0
    BY <1>1, <1>2, <1>4
  <2> QED
    BY <1>4, <1>5, <2>1 DEF Moved
<1> QED
  BY <1>1, <1>2, <1>4, <1>6

\* What is left of the asking on the way from p to w, but for one that came back.
Besides(p, w, gone) ==
  /\ Good(w)
  /\ \A what \in Asks \ {gone} : AskedFor(p, what) => AskedFor(w, what)
  /\ TailReqs(p) => TailReqs(w)
  /\ Elsewhere(p, w)

\* The task of r has come back, on the pipe q.
Returned(r, q) ==
  /\ r \in Command /\ r.status \in {"done", "refused", "expired"}
  /\ Besides(sent, q, r.what)
  /\ TailReqs(sent) /\ r.what = "messages" /\ r.status = "done" =>
       /\ MessageOK(r)
       /\ \A c \in Conn : \A i \in 1..Len(q[c]) : q[c][i].what = "messages" => q[c][i].was # r.was

LEMMA ConsumeReturns ==
  ASSUME Good(sent), NEW c \in Conn, Answered(c) PROVE Returned(Head(sent[c]), Consume(c))
<1> DEFINE w == Consume(c)
           r == Head(sent[c])
<1>1. sent[c] # <<>> /\ r.status \in {"done", "refused"} /\ w = Consume(c)
  BY DEF Answered
<1>2. sent \in Queues /\ sent[c] \in Seq(Command) /\ Len(sent[c]) \in Nat
  BY DEF Good, Queues
<1>3. r = sent[c][1] /\ 1 \in 1..Len(sent[c]) /\ r \in Command
  BY <1>1, <1>2
<1> HIDE DEF w, r
<1>4. /\ Good(w) /\ Moved(w, c, 1)
      /\ \A i \in 1..Len(w[c]) : i + 1 \in 1..Len(sent[c]) /\ w[c][i] = sent[c][i + 1]
      /\ \A i \in 1..Len(sent[c]) : i # 1 => i - 1 \in 1..Len(w[c]) /\ w[c][i - 1] = sent[c][i]
      /\ \A d \in Conn : d # c => w[d] = sent[d]
  <2>1. Good(w) /\ Moved(w, c, 1)
        /\ (\A i \in 1..Len(w[c]) : i + 1 \in 1..Len(sent[c]) /\ w[c][i] = sent[c][i + 1])
        /\ (\A i \in 1..Len(sent[c]) : i # 1 => i - 1 \in 1..Len(w[c]) /\ w[c][i - 1] = sent[c][i])
    BY <1>1, TailOne
  <2> QED
    BY <2>1 DEF Moved
<1>5. ASSUME NEW what \in Asks \ {r.what}, AskedFor(sent, what) PROVE AskedFor(w, what)
  <2>1. PICK d \in Conn : \E i \in 1..Len(sent[d]) : sent[d][i].status # "expired" /\ sent[d][i].what = what
    BY <1>5 DEF AskedFor
  <2>2. PICK i \in 1..Len(sent[d]) : sent[d][i].status # "expired" /\ sent[d][i].what = what
    BY <2>1
  <2>3. CASE d = c
    <3>1. i # 1
      BY <1>3, <1>5, <2>2, <2>3
    <3> QED
      BY <1>4, <2>2, <2>3, <3>1 DEF AskedFor
  <2>4. CASE d # c
    BY <1>4, <2>2, <2>4 DEF AskedFor
  <2> QED
    BY <2>3, <2>4
<1>6. TailReqs(sent) => TailReqs(w)
  BY <1>2, <1>4, TailMoved
<1>7. ASSUME TailReqs(sent), r.what = "messages"
      PROVE  /\ MessageOK(r)
             /\ \A d \in Conn : \A i \in 1..Len(w[d]) : w[d][i].what = "messages" => w[d][i].was # r.was
  <2>1. MessageOK(r)
    BY <1>3, <1>7 DEF TailReqs
  <2>2. SUFFICES ASSUME NEW d \in Conn, NEW i \in 1..Len(w[d]), w[d][i].what = "messages", w[d][i].was = r.was
                 PROVE  FALSE
    BY <2>1
  <2>3. CASE d = c
    <3>1. i + 1 \in 1..Len(sent[c]) /\ w[c][i] = sent[c][i + 1] /\ i + 1 # 1
      BY <1>2, <1>4, <2>3
    <3> QED
      BY <1>3, <1>7, <2>2, <2>3, <3>1 DEF TailReqs, OneEach
  <2>4. CASE d # c
    BY <1>3, <1>4, <1>7, <2>2, <2>4 DEF TailReqs, OneEach
  <2> QED
    BY <2>3, <2>4
<1>8. Besides(sent, w, r.what)
  BY <1>1, <1>4, <1>5, <1>6 DEF Besides, Elsewhere
<1> QED
  BY <1>1, <1>3, <1>7, <1>8 DEF Returned, w, r

LEMMA ExpireReturns ==
  ASSUME Good(sent), NEW c \in Conn, NEW i \in 1..MaxSent, Expirable(c, i)
  PROVE  Returned(Expire(c, i)[c][i], Expire(c, i))
<1> DEFINE w == Expire(c, i)
           b == [sent[c][i] EXCEPT !.status = "expired"]
<1>1. /\ i \in 1..Len(sent[c]) /\ sent[c][i].status = "queued"
      /\ \A j \in 1..i - 1 : sent[c][j].status = "expired"
  BY DEF Expirable
<1>2. sent \in Queues /\ sent[c] \in Seq(Command) /\ Len(sent[c]) \in Nat /\ Shaped(sent[c])
      /\ sent[c][i] \in Command
  BY <1>1 DEF Good, Queues
<1>3. /\ b \in Command /\ b.status = "expired" /\ b.what = sent[c][i].what
      /\ Kept(b, sent[c][i])
  <2>1. "expired" \in Status \ {"done"}
    BY DEF Status
  <2>2. /\ b \in Command /\ b.status = "expired" /\ b.what = sent[c][i].what /\ b.key = sent[c][i].key
        /\ b.val = sent[c][i].val /\ b.was = sent[c][i].was
    BY <1>2, <2>1, CommandAt
  <2> HIDE DEF b
  <2> QED
    BY <2>2 DEF Kept
<1>4. w = Changed(c, i, b)
  BY DEF Expire, Changed
<1> HIDE DEF w, b
<1>5. /\ w \in Queues /\ Moved(w, c, 0) /\ Len(w[c]) = Len(sent[c]) /\ Len(w[c]) <= MaxSent
      /\ w[c][i] = b /\ (\A j \in 1..Len(sent[c]) : j # i => w[c][j] = sent[c][j])
      /\ \A d \in Conn : d # c => w[d] = sent[d]
  BY <1>1, <1>3, <1>4, OneChanged
<1>6. Shaped(w[c])
  <2>1. SUFFICES ASSUME NEW j \in 1..Len(sent[c]), NEW k \in 1..Len(sent[c]), j < k
                 PROVE  /\ w[c][k].status = "expired" => w[c][j].status = "expired"
                        /\ w[c][j].status \in {"queued", "expired"} => w[c][k].status # "done"
    BY <1>5 DEF Shaped
  <2>2. /\ sent[c][k].status = "expired" => sent[c][j].status = "expired"
        /\ sent[c][j].status \in {"queued", "expired"} => sent[c][k].status # "done"
    BY <1>2, <2>1 DEF Shaped
  <2>3. CASE j = i
    BY <1>1, <1>3, <1>5, <2>1, <2>2, <2>3
  <2>4. CASE k = i
    <3>1. j \in 1..i - 1
      BY <1>2, <2>1, <2>4
    <3> QED
      BY <1>1, <1>3, <1>5, <2>1, <2>4, <3>1
  <2>5. CASE j # i /\ k # i
    BY <1>5, <2>2, <2>5
  <2> QED
    BY <2>3, <2>4, <2>5
<1>7. Good(w)
  BY <1>5, <1>6 DEF Good
<1>8. ASSUME NEW what \in Asks \ {b.what}, AskedFor(sent, what) PROVE AskedFor(w, what)
  <2>1. PICK d \in Conn : \E j \in 1..Len(sent[d]) : sent[d][j].status # "expired" /\ sent[d][j].what = what
    BY <1>8 DEF AskedFor
  <2>2. PICK j \in 1..Len(sent[d]) : sent[d][j].status # "expired" /\ sent[d][j].what = what
    BY <2>1
  <2>3. CASE d = c
    <3>1. j # i
      BY <1>3, <1>8, <2>2, <2>3
    <3> QED
      BY <1>5, <2>2, <2>3, <3>1 DEF AskedFor
  <2>4. CASE d # c
    BY <1>5, <2>2, <2>4 DEF AskedFor
  <2> QED
    BY <2>3, <2>4
<1>9. TailReqs(sent) => TailReqs(w)
  BY <1>2, <1>5, TailMoved
<1>10. Elsewhere(sent, w)
  BY <1>1, <1>2, <1>5 DEF Elsewhere
<1> QED
  BY <1>3, <1>5, <1>7, <1>8, <1>9, <1>10 DEF Returned, Besides, w

\* A command omp has taken, and what it may be answered.
Taken(r, st, x) == [r EXCEPT !.status = st, !.reply = x]
Answerable(r, x) ==
  /\ r.what \in {"set", "cycle"} => x \in Value
  /\ r.what = "state" => x \in [Setting -> Value]
  /\ r.what = "agents" => x \in SUBSET Agent
  /\ r.what = "messages" => x \in PageReply

LEMMA CommandTaken ==
  ASSUME NEW r \in Command, NEW st \in {"done", "refused"}, NEW x \in Replied,
         st = "done" => Answerable(r, x), NEW n, n = Taken(r, st, x)
  PROVE  /\ n \in Command /\ n.status = st /\ n.reply = x
         /\ n.what = r.what /\ n.key = r.key /\ n.val = r.val /\ n.was = r.was
<1>1. r \in [what : Asks, key : Key, val : Val, was : Val, status : Status, reply : Replied]
      /\ Fits(r)
  BY DEF Command
<1>2. /\ n \in [what : Asks, key : Key, val : Val, was : Val, status : Status, reply : Replied]
      /\ n.status = st /\ n.reply = x
      /\ n.what = r.what /\ n.key = r.key /\ n.val = r.val /\ n.was = r.was
  BY <1>1 DEF Status, Taken
<1>3. Fits(n)
  BY <1>1, <1>2 DEF Fits, Answerable
<1> QED
  BY <1>2, <1>3 DEF Command

\* omp takes the first command it has not answered.
LEMMA NextTaken ==
  ASSUME Good(sent), NEW c \in Conn, NEW i \in 1..Len(sent[c]),
         sent[c][i].status \in {"queued", "expired"},
         \A j \in 1..i - 1 : sent[c][j].status \in {"done", "refused"}
  PROVE  NextToTake(c)[1] = sent[c][i] /\ sent[c][i] \in Command
<1>1. sent[c] \in Seq(Command) /\ Len(sent[c]) \in Nat
  BY DEF Good, Queues
<1> DEFINE open == {k \in 1..Len(sent[c]) : sent[c][k].status \in {"queued", "expired"}}
           k0 == CHOOSE k \in open : \A j \in open : k <= j
<1>2. i \in open /\ \A j \in open : i <= j
  BY <1>1
<1>3. k0 \in open /\ \A j \in open : k0 <= j
  BY <1>2
<1>4. k0 = i
  BY <1>1, <1>2, <1>3
<1>5. NextToTake(c) = <<sent[c][k0]>>
  BY <1>2 DEF NextToTake
<1> HIDE DEF k0
<1> QED
  BY <1>1, <1>4, <1>5

LEMMA TakeIsOfCommand ==
  ASSUME Good(sent), NEW c \in Conn, NEW st, NEW x, Take(c, st, x)
  PROVE  \E i \in 1..Len(sent[c]) : NextToTake(c)[1] = sent[c][i] /\ sent[c][i] \in Command
  BY NextTaken DEF Take

LEMMA TakeOnward ==
  ASSUME Good(sent), NEW c \in Conn, NEW st \in {"done", "refused"}, NEW x \in Replied, Take(c, st, x),
         NEW r, r = NextToTake(c)[1],
         st = "done" => Answerable(r, x),
         st = "done" /\ r.what = "messages" => PageOK(Taken(r, st, x))
  PROVE  Onward(sent, sent')
<1> DEFINE b == Taken(r, st, x)
<1>1. sent \in Queues /\ sent[c] \in Seq(Command) /\ Len(sent[c]) \in Nat /\ Shaped(sent[c])
  BY DEF Good, Queues
<1>2. PICK i \in 1..Len(sent[c]) :
        /\ sent[c][i].status \in {"queued", "expired"}
        /\ \A j \in 1..i - 1 : sent[c][j].status \in {"done", "refused"}
        /\ sent' = [sent EXCEPT ![c] =
             IF @[i].status = "expired" THEN Tail(@)
             ELSE [@ EXCEPT ![i].status = st, ![i].reply = x]]
  BY DEF Take
<1>3. r = sent[c][i] /\ r \in Command
  BY <1>2, NextTaken
<1>4. CASE sent[c][i].status = "expired"
  <2>1. i = 1
    <3>1. SUFFICES ASSUME i # 1 PROVE FALSE
      OBVIOUS
    <3>2. 1 \in 1..i - 1 /\ 1 \in 1..Len(sent[c]) /\ 1 < i
      BY <1>1, <3>1
    <3> QED
      BY <1>1, <1>2, <1>4, <3>2 DEF Shaped
  <2>2. sent' = Consume(c) /\ sent[c] # <<>>
    BY <1>1, <1>2, <1>4 DEF Consume
  <2>3. /\ Good(sent') /\ Moved(sent', c, 1)
        /\ \A j \in 1..Len(sent[c]) : j # 1 => j - 1 \in 1..Len(sent'[c]) /\ sent'[c][j - 1] = sent[c][j]
    <3> DEFINE w == Consume(c)
    <3>1. /\ Good(w) /\ Moved(w, c, 1)
          /\ \A j \in 1..Len(sent[c]) : j # 1 => j - 1 \in 1..Len(w[c]) /\ w[c][j - 1] = sent[c][j]
      BY <2>2, TailOne
    <3> QED
      BY <2>2, <3>1
  <2>4. TailReqs(sent) => TailReqs(sent')
    BY <1>1, <2>3, TailMoved
  <2>5. ASSUME NEW what \in Asks, AskedFor(sent, what) PROVE AskedFor(sent', what)
    <3>1. PICK d \in Conn : \E j \in 1..Len(sent[d]) : sent[d][j].status # "expired" /\ sent[d][j].what = what
      BY <2>5 DEF AskedFor
    <3>2. PICK j \in 1..Len(sent[d]) : sent[d][j].status # "expired" /\ sent[d][j].what = what
      BY <3>1
    <3>3. CASE d = c
      <4>1. j # 1
        BY <1>4, <2>1, <3>2, <3>3
      <4> QED
        BY <2>3, <3>2, <3>3, <4>1 DEF AskedFor
    <3>4. CASE d # c
      BY <2>3, <3>2, <3>4 DEF AskedFor, Moved
    <3> QED
      BY <3>3, <3>4
  <2>6. Elsewhere(sent, sent')
    BY <2>2, <2>3 DEF Elsewhere, Moved
  <2> QED
    BY <2>3, <2>4, <2>5, <2>6 DEF Onward
<1>5. CASE sent[c][i].status # "expired"
  <2>1. /\ b \in Command /\ b.status = st /\ b.reply = x
        /\ b.what = r.what /\ b.key = r.key /\ b.val = r.val /\ b.was = r.was
    BY <1>3, CommandTaken
  <2>2. sent' = Changed(c, i, b)
    BY <1>2, <1>3, <1>5 DEF Changed, Taken
  <2>3. st = "done" /\ r.what = "messages" => PageOK(b)
    OBVIOUS
  <2> HIDE DEF b
  <2>4. Kept(b, sent[c][i])
    BY <1>3, <2>1, <2>3 DEF Kept
  <2> DEFINE w == Changed(c, i, b)
  <2>5. /\ w \in Queues /\ Moved(w, c, 0) /\ Len(w[c]) = Len(sent[c]) /\ Len(w[c]) <= MaxSent
        /\ w[c][i] = b /\ (\A j \in 1..Len(sent[c]) : j # i => w[c][j] = sent[c][j])
        /\ \A d \in Conn : d # c => w[d] = sent[d]
    BY <2>1, <2>4, OneChanged
  <2> HIDE DEF w
  <2>6. Shaped(w[c])
    <3>1. SUFFICES ASSUME NEW j \in 1..Len(sent[c]), NEW k \in 1..Len(sent[c]), j < k
                   PROVE  /\ w[c][k].status = "expired" => w[c][j].status = "expired"
                          /\ w[c][j].status \in {"queued", "expired"} => w[c][k].status # "done"
      BY <2>5 DEF Shaped
    <3>2. /\ sent[c][k].status = "expired" => sent[c][j].status = "expired"
          /\ sent[c][j].status \in {"queued", "expired"} => sent[c][k].status # "done"
      BY <1>1, <3>1 DEF Shaped
    <3>3. CASE j = i
      BY <1>2, <1>5, <2>1, <2>5, <3>1, <3>2, <3>3
    <3>4. CASE k = i
      <4>1. j \in 1..i - 1
        BY <1>1, <3>1, <3>4
      <4> QED
        BY <1>2, <2>1, <2>5, <3>1, <3>4, <4>1
    <3>5. CASE j # i /\ k # i
      BY <2>5, <3>2, <3>5
    <3> QED
      BY <3>3, <3>4, <3>5
  <2>7. Good(w)
    BY <2>5, <2>6 DEF Good
  <2>8. ASSUME NEW what \in Asks, AskedFor(sent, what) PROVE AskedFor(w, what)
    <3>1. PICK d \in Conn : \E j \in 1..Len(sent[d]) : sent[d][j].status # "expired" /\ sent[d][j].what = what
      BY <2>8 DEF AskedFor
    <3>2. PICK j \in 1..Len(sent[d]) : sent[d][j].status # "expired" /\ sent[d][j].what = what
      BY <3>1
    <3>3. d = c => j \in 1..Len(w[c]) /\ w[c][j].status # "expired" /\ w[c][j].what = what
      BY <1>3, <2>1, <2>5, <3>2
    <3>4. d # c => w[d] = sent[d]
      BY <2>5
    <3> QED
      BY <3>2, <3>3, <3>4 DEF AskedFor
  <2>9. TailReqs(sent) => TailReqs(w)
    BY <1>1, <2>5, TailMoved
  <2>10. Elsewhere(sent, w)
    BY <1>1, <2>5 DEF Elsewhere
  <2> QED
    BY <2>2, <2>7, <2>8, <2>9, <2>10 DEF Onward, w
<1> QED
  BY <1>4, <1>5

\* The child of c is gone, and with it the commands that had expired.
LEMMA GoneOnward ==
  ASSUME Good(sent), NEW c \in Conn, ChildGone(c) PROVE Onward(sent, sent')
<1>1. sent \in Queues /\ sent[c] \in Seq(Command) /\ Len(sent[c]) \in Nat /\ Len(sent[c]) <= MaxSent
  BY DEF Good, Queues
<1>2. PICK n \in 0..Len(sent[c]) :
        /\ \A i \in 1..Len(sent[c]) : sent[c][i].status = "expired" <=> i <= n
        /\ sent' = [sent EXCEPT ![c] = SubSeq(Fail(@), n + 1, Len(@))]
  BY DEF ChildGone
<1> DEFINE f == Fail(sent[c])
           s == SubSeq(f, n + 1, Len(sent[c]))
<1>3. f \in Seq(Command) /\ Len(f) = Len(sent[c])
      /\ \A i \in 1..Len(sent[c]) :
           /\ Kept(f[i], sent[c][i]) /\ f[i].status # "queued"
           /\ f[i].status = "expired" <=> sent[c][i].status = "expired"
  <2>1. ASSUME NEW i \in 1..Len(sent[c])
        PROVE  /\ f[i] \in Command /\ Kept(f[i], sent[c][i]) /\ f[i].status # "queued"
               /\ f[i].status = "expired" <=> sent[c][i].status = "expired"
    <3>1. sent[c][i] \in Command /\ "refused" \in Status \ {"done"}
      BY <1>1 DEF Status
    <3>2. CASE sent[c][i].status = "queued"
      <4> DEFINE b == [sent[c][i] EXCEPT !.status = "refused"]
      <4>1. f[i] = b
        BY <1>1, <3>2 DEF Fail
      <4>2. /\ b \in Command /\ b.status = "refused" /\ b.what = sent[c][i].what
            /\ b.key = sent[c][i].key /\ b.val = sent[c][i].val /\ b.was = sent[c][i].was
        BY <3>1, CommandAt
      <4> HIDE DEF b, f
      <4> QED
        BY <3>2, <4>1, <4>2 DEF Kept
    <3>3. CASE sent[c][i].status # "queued"
      <4>1. f[i] = sent[c][i]
        BY <1>1, <3>3 DEF Fail
      <4> HIDE DEF f
      <4> QED
        BY <3>1, <3>3, <4>1 DEF Kept
    <3> QED
      BY <3>2, <3>3
  <2>2. f = [i \in 1..Len(sent[c]) |-> f[i]]
    BY DEF Fail
  <2> HIDE DEF f
  <2>3. f \in [1..Len(sent[c]) -> Command]
    BY <2>1, <2>2
  <2>4. f \in Seq(Command) /\ Len(f) = Len(sent[c])
    BY <1>1, <2>3
  <2> QED
    BY <2>1, <2>4
<1>4. sent' = [sent EXCEPT ![c] = s]
  BY <1>2
<1> HIDE DEF f
<1>5. s \in Seq(Command) /\ Len(s) = Len(sent[c]) - n
      /\ \A i \in 1..Len(s) : i + n \in 1..Len(sent[c]) /\ s[i] = f[i + n]
  <2>1. n + 1 \in 1..Len(f) + 1 /\ Len(sent[c]) \in n..Len(f) /\ n \in Nat
    BY <1>1, <1>3
  <2>2. /\ Len(s) = Len(sent[c]) - n
        /\ \A i \in 1..Len(sent[c]) - n : s[i] = f[(n + 1) + i - 1]
        /\ s \in Seq(Command)
    BY <1>3, <2>1, SubSeqProperties
  <2> HIDE DEF s
  <2>3. ASSUME NEW i \in 1..Len(s) PROVE i + n \in 1..Len(sent[c]) /\ s[i] = f[i + n]
    <3>1. i + n \in 1..Len(sent[c]) /\ (n + 1) + i - 1 = i + n /\ i \in 1..Len(sent[c]) - n
      BY <1>1, <2>1, <2>2
    <3> QED
      BY <2>2, <3>1
  <2> QED
    BY <2>2, <2>3
<1> HIDE DEF s
<1>6. sent' \in Queues /\ sent'[c] = s /\ \A d \in Conn : d # c => sent'[d] = sent[d]
  BY <1>1, <1>4, <1>5 DEF Queues
<1>7. \A i \in 1..Len(s) : s[i].status \notin {"queued", "expired"} /\ Kept(s[i], sent[c][i + n])
  <2>1. SUFFICES ASSUME NEW i \in 1..Len(s)
                 PROVE  s[i].status \notin {"queued", "expired"} /\ Kept(s[i], sent[c][i + n])
    OBVIOUS
  <2>2. i + n \in 1..Len(sent[c]) /\ s[i] = f[i + n] /\ ~(i + n <= n)
    BY <1>5
  <2> QED
    BY <1>2, <1>3, <2>2
<1>8. Good(sent')
  <2>1. Shaped(s) /\ Len(s) <= MaxSent
    <3>1. Shaped(s)
      BY <1>7 DEF Shaped
    <3> QED
      BY <1>1, <1>5, <3>1, RequestsAssumption
  <2> QED
    BY <1>6, <2>1 DEF Good
<1>9. Moved(sent', c, n)
  BY <1>5, <1>6, <1>7 DEF Moved
<1>10. TailReqs(sent) => TailReqs(sent')
  BY <1>1, <1>9, TailMoved
<1>11. ASSUME NEW what \in Asks, AskedFor(sent, what) PROVE AskedFor(sent', what)
  <2>1. PICK d \in Conn : \E j \in 1..Len(sent[d]) : sent[d][j].status # "expired" /\ sent[d][j].what = what
    BY <1>11 DEF AskedFor
  <2>2. PICK j \in 1..Len(sent[d]) : sent[d][j].status # "expired" /\ sent[d][j].what = what
    BY <2>1
  <2>3. CASE d = c
    <3>1. j - n \in 1..Len(s) /\ (j - n) + n = j
      BY <1>1, <1>2, <1>5, <2>2, <2>3
    <3>2. s[j - n].what = what /\ s[j - n].status # "expired"
      BY <1>7, <2>2, <2>3, <3>1 DEF Kept
    <3> QED
      BY <1>6, <3>1, <3>2 DEF AskedFor
  <2>4. CASE d # c
    BY <1>6, <2>2, <2>4 DEF AskedFor
  <2> QED
    BY <2>3, <2>4
<1>12. Elsewhere(sent, sent')
  <2>1. sent[c] = <<>> => s = <<>>
    BY <1>5
  <2> QED
    BY <1>6, <2>1 DEF Elsewhere
<1> QED
  BY <1>8, <1>10, <1>11, <1>12 DEF Onward

-----------------------------------------------------------------------------
(* The status line.                                                          *)

\* The connections begin one after the other, and the client's is the last.
InOrder ==
  /\ client # NoConn => client = begun
  /\ \A c \in Conn : c > begun => sent[c] = <<>>

LinkInv ==
  /\ LinkTypeOK /\ running \subseteq Conn /\ begun \in Conn \cup {0}
  /\ Good(sent) /\ InOrder

\* refresh_state and refresh_subagents wait for a request whose answer comes.
SettingInv ==
  /\ SettingsTypeOK
  /\ inFlight => AskedFor(sent, "state")
  /\ queued => inFlight

LEMMA SettingKept ==
  ASSUME SettingInv, UNCHANGED settingVars, AskedFor(sent, "state") => AskedFor(sent', "state")
  PROVE  SettingInv'
<1>1. SettingsTypeOK'
  BY DEF SettingInv, SettingsTypeOK, settingVars
<1>2. inFlight' = inFlight /\ queued' = queued
  BY DEF settingVars
<1> QED
  BY <1>1, <1>2 DEF SettingInv, AskedFor

LEMMA GetStateIsCommand ==
  GetState \in Command /\ GetState.status = "queued" /\ GetState.what = "state"
<1>1. 0 \in Val /\ <<>> \in Replied /\ Model \in Key /\ "state" \in Asks /\ "queued" \in Status
  BY DEF Val, Replied, Key, Setting, Asks, SettingAsks, Status
<1> QED
  BY <1>1 DEF GetState, Request, Command, Fits

LEMMA SetIsCommand ==
  ASSUME NEW s \in Setting, NEW v \in Value, NEW old \in Value
  PROVE  LET r == Request("set", s, v, old)
         IN r \in Command /\ r.status = "queued" /\ r.what = "set"
<1>1. v \in Val /\ old \in Val /\ <<>> \in Replied /\ s \in Key /\ "set" \in Asks /\ "queued" \in Status
  BY SettingsAssumption DEF Val, Replied, Key, Setting, Asks, SettingAsks, Status
<1> QED
  BY <1>1 DEF Request, Command, Fits

LEMMA CycleIsCommand ==
  ASSUME NEW s \in Level \cup {Model}
  PROVE  LET r == Request("cycle", s, 0, 0)
         IN r \in Command /\ r.status = "queued" /\ r.what = "cycle"
<1>1. 0 \in Val /\ <<>> \in Replied /\ s \in Key /\ "cycle" \in Asks /\ "queued" \in Status
  BY DEF Val, Replied, Key, Setting, Asks, SettingAsks, Status
<1> QED
  BY <1>1 DEF Request, Command, Fits

\* Whatever the flags were, after refresh_state they are those of a request.
LEMMA RefreshStateOnward ==
  ASSUME LinkInv, NEW q, Good(q), NEW flying \in BOOLEAN, NEW again \in BOOLEAN,
         flying => AskedFor(q, "state"), RefreshState(q, flying, again)
  PROVE  /\ Onward(q, sent')
         /\ inFlight' \in BOOLEAN /\ queued' \in BOOLEAN
         /\ (inFlight' => AskedFor(sent', "state")) /\ (queued' => inFlight')
<1>1. Onward(q, q)
  BY DEF Onward, Elsewhere
<1>2. CASE client = NoConn
  BY <1>1, <1>2 DEF RefreshState
<1>3. CASE client # NoConn /\ flying
  BY <1>1, <1>3 DEF RefreshState
<1>4. CASE client # NoConn /\ ~flying
  <2>1. client \in Conn /\ Room(q) /\ sent' = With(q, GetState) /\ inFlight' = TRUE /\ queued' = again
    BY <1>4 DEF RefreshState, LinkInv, LinkTypeOK
  <2>2. Onward(q, With(q, GetState)) /\ AskedFor(With(q, GetState), "state")
    BY <2>1, WithOnward, GetStateIsCommand
  <2> QED
    BY <2>1, <2>2
<1> QED
  BY <1>2, <1>3, <1>4

\* A change: shown, and sent.
LEMMA SetOnward ==
  ASSUME LinkInv, SettingsTypeOK, NEW q, Good(q), NEW s \in Setting, NEW v \in Value, Set(s, v, q)
  PROVE  /\ Onward(q, sent') /\ UNCHANGED <<inFlight, queued>>
         /\ shown' \in [Setting -> Value]
<1>1. Onward(q, q)
  BY DEF Onward, Elsewhere
<1>2. CASE client = NoConn
  BY <1>1, <1>2 DEF Set, NoRefresh, SettingsTypeOK
<1>3. CASE client # NoConn
  <2> DEFINE r == Request("set", s, v, shown[s])
  <2>1. client \in Conn /\ Room(q) /\ sent' = With(q, r) /\ UNCHANGED <<inFlight, queued>>
        /\ shown' = [shown EXCEPT ![s] = v]
    BY <1>3 DEF Set, NoRefresh, LinkInv, LinkTypeOK
  <2>2. r \in Command /\ r.status = "queued" /\ r.what = "set"
    BY SetIsCommand DEF SettingsTypeOK
  <2>3. Onward(q, With(q, r))
    BY <2>1, <2>2, WithOnward
  <2> QED
    BY <2>1, <2>3 DEF SettingsTypeOK
<1> QED
  BY <1>2, <1>3

LEMMA LinkKept ==
  ASSUME LinkInv, UNCHANGED <<linkVars, running, begun>>, Good(sent'), Elsewhere(sent, sent')
  PROVE  LinkInv'
<1>1. /\ client' = client /\ begun' = begun /\ begun \in Nat
  BY RequestsAssumption DEF LinkInv, linkVars
<1>2. InOrder'
  <2>1. \A c \in Conn : c > begun => c # client
    BY <1>1, RequestsAssumption DEF LinkInv, LinkTypeOK, InOrder
  <2> QED
    BY <1>1, <2>1 DEF LinkInv, InOrder, Elsewhere
<1> QED
  BY <1>2 DEF LinkInv, LinkTypeOK, linkVars, Good, Shaped

\* The types of the settings, from those of what has changed.
LEMMA SettingAfter ==
  ASSUME shown' \in [Setting -> Value], omp' \in [Conn -> [Setting -> Value]],
         timer' \in BOOLEAN, informed' \in BOOLEAN, doubtful' \subseteq Setting,
         notified' \subseteq Conn, inFlight' \in BOOLEAN, queued' \in BOOLEAN,
         inFlight' => AskedFor(sent', "state"), queued' => inFlight'
  PROVE  SettingInv'
  BY DEF SettingInv, SettingsTypeOK, AskedFor

LEMMA SettingAnswered ==
  ASSUME LinkInv, SettingInv, UNCHANGED <<linkVars, running, begun>>,
         NEW c, NEW r, NEW q, Returned(r, q), r.what \in SettingAsks, AnswerSetting(c, r, q)
  PROVE  LinkInv' /\ SettingInv' /\ Besides(sent, sent', r.what)
<1>1. /\ r \in Command /\ Good(q) /\ Besides(sent, q, r.what)
      /\ UNCHANGED <<timer, omp, notified>>
  BY DEF Returned, Besides, AnswerSetting
<1>2. /\ shown \in [Setting -> Value] /\ omp' \in [Conn -> [Setting -> Value]]
      /\ timer' \in BOOLEAN /\ notified' \subseteq Conn /\ doubtful \subseteq Setting
      /\ inFlight \in BOOLEAN /\ queued \in BOOLEAN /\ informed \in BOOLEAN
  BY <1>1 DEF SettingInv, SettingsTypeOK
<1>3. /\ r.what = "set" => r.key \in Setting /\ r.was \in Value
      /\ r.what = "cycle" => r.key \in Level \cup {Model}
      /\ r.status = "done" /\ r.what \in {"set", "cycle"} => r.reply \in Value
      /\ r.status = "done" /\ r.what = "state" => r.reply \in [Setting -> Value]
  BY <1>1 DEF Command, Fits
\* What each leaves of the pipe and of the rest.
<1> DEFINE Left == /\ Besides(sent, sent', r.what)
                   /\ inFlight' \in BOOLEAN /\ queued' \in BOOLEAN
                   /\ inFlight' => AskedFor(sent', "state")
                   /\ queued' => inFlight'
<1>4. Onward(q, sent') => Besides(sent, sent', r.what)
  BY <1>1 DEF Onward, Besides, Elsewhere
<1>5. inFlight /\ r.what # "state" => AskedFor(q, "state")
  BY <1>1 DEF SettingInv, Besides, Asks, SettingAsks
<1>6. NoRefresh(q) /\ r.what # "state" => Left
  BY <1>1, <1>2, <1>5 DEF NoRefresh, SettingInv
<1>7. RefreshState(q, inFlight, queued) /\ r.what # "state" => Left
  BY <1>1, <1>2, <1>4, <1>5, RefreshStateOnward
<1>8. CASE r.what = "set"
  <2>1. AnswerSet(c, r, q)
    BY <1>8 DEF AnswerSetting
  <2>2. Left
    BY <1>6, <1>7, <1>8, <2>1 DEF AnswerSet
  <2>3. shown' \in [Setting -> Value] /\ doubtful' \subseteq Setting /\ informed' = informed
    BY <1>2, <1>3, <1>8, <2>1 DEF AnswerSet, Setting
  <2> QED
    BY <1>1, <1>2, <2>2, <2>3, LinkKept, SettingAfter DEF Besides
<1>9. CASE r.what = "cycle"
  <2>1. AnswerCycle(r, q)
    BY <1>9 DEF AnswerSetting
  <2>2. doubtful' \subseteq Setting /\ informed' = informed
    BY <1>2, <1>3, <1>9, <2>1 DEF AnswerCycle, Setting
  <2>3. CASE Set(r.key, 1 - shown[r.key], q)
    <3>1. r.key \in Setting /\ 1 - shown[r.key] \in Value
      BY <1>2, <1>3, <1>9, SettingsAssumption DEF Setting
    <3>2. Onward(q, sent') /\ UNCHANGED <<inFlight, queued>> /\ shown' \in [Setting -> Value]
      BY <1>1, <2>3, <3>1, SetOnward DEF SettingInv
    <3>3. inFlight => AskedFor(sent', "state")
      BY <1>5, <1>9, <3>2 DEF Onward, Asks, SettingAsks
    <3> QED
      BY <1>1, <1>2, <1>4, <2>2, <3>2, <3>3, LinkKept, SettingAfter DEF Besides, SettingInv
  <2>4. CASE ~Set(r.key, 1 - shown[r.key], q)
    <3>1. Left
      BY <1>6, <1>7, <1>9, <2>1, <2>4 DEF AnswerCycle
    <3>2. shown' \in [Setting -> Value]
      BY <1>2, <1>3, <1>9, <2>1, <2>4 DEF AnswerCycle
    <3> QED
      BY <1>1, <1>2, <2>2, <3>1, <3>2, LinkKept, SettingAfter DEF Besides
  <2> QED
    BY <2>3, <2>4
<1>10. CASE r.what = "state"
  <2>1. AnswerState(c, r, q)
    BY <1>10 DEF AnswerSetting
  <2>2. shown' \in [Setting -> Value] /\ doubtful' = doubtful /\ informed' \in BOOLEAN
    BY <1>2, <1>3, <1>10, <2>1 DEF AnswerState
  <2>3. Left
    <3>1. CASE queued
      BY <1>1, <1>4, <2>1, <3>1, RefreshStateOnward DEF AnswerState
    <3>2. CASE ~queued
      BY <1>1, <2>1, <3>2 DEF AnswerState
    <3> QED
      BY <3>1, <3>2
  <2> QED
    BY <1>1, <1>2, <2>2, <2>3, LinkKept, SettingAfter DEF Besides
<1> QED
  BY <1>8, <1>9, <1>10 DEF SettingAsks

\* The user's changes, the timer, and what becomes of a child.
LEMMA SettingMoved ==
  ASSUME LinkInv, SettingInv, SettingMove PROVE LinkInv' /\ SettingInv' /\ Onward(sent, sent')
<1>0. Good(sent) /\ Onward(sent, sent) /\ UNCHANGED <<linkVars, running, begun>>
  BY DEF LinkInv, Onward, Elsewhere, SettingMove
<1>1. /\ shown \in [Setting -> Value] /\ omp \in [Conn -> [Setting -> Value]]
      /\ timer \in BOOLEAN /\ notified \subseteq Conn /\ doubtful \subseteq Setting
      /\ inFlight \in BOOLEAN /\ queued \in BOOLEAN /\ informed \in BOOLEAN
      /\ inFlight => AskedFor(sent, "state")
      /\ queued => inFlight
  BY DEF SettingInv, SettingsTypeOK
<1>2. ASSUME NEW s \in Setting, NEW v \in Value, Set(s, v, sent),
             UNCHANGED <<timer, omp, notified, informed, doubtful>>
      PROVE  LinkInv' /\ SettingInv' /\ Onward(sent, sent')
  <2>1. Onward(sent, sent') /\ UNCHANGED <<inFlight, queued>> /\ shown' \in [Setting -> Value]
    BY <1>0, <1>2, SetOnward DEF SettingInv
  <2>2. inFlight => AskedFor(sent', "state")
    BY <1>1, <2>1 DEF Onward, Asks, SettingAsks
  <2> QED
    BY <1>0, <1>1, <1>2, <2>1, <2>2, LinkKept, SettingAfter DEF Onward
<1>3. CASE ToggleSetting
  <2>1. PICK s \in Toggle : Set(s, 1 - shown[s], sent)
    BY <1>3 DEF ToggleSetting
  <2>2. s \in Setting /\ 1 - shown[s] \in Value
    BY <1>1, SettingsAssumption DEF Setting
  <2> QED
    BY <1>2, <1>3, <2>1, <2>2 DEF ToggleSetting
<1>4. CASE PickSetting
  <2>1. PICK s \in Level \cup {Model}, v \in Value : Set(s, v, sent)
    BY <1>4 DEF PickSetting
  <2> QED
    BY <1>2, <1>4, <2>1 DEF PickSetting, Setting
<1>5. CASE CycleSetting
  <2>1. PICK s \in Level \cup {Model} : sent' = With(sent, Request("cycle", s, 0, 0))
    BY <1>5 DEF CycleSetting
  <2> DEFINE r == Request("cycle", s, 0, 0)
  <2>2. r \in Command /\ r.status = "queued" /\ r.what = "cycle"
    BY CycleIsCommand
  <2>3. client \in Conn /\ Room(sent) /\ UNCHANGED settingVars
    BY <1>5 DEF CycleSetting, LinkInv, LinkTypeOK
  <2>4. Onward(sent, With(sent, r))
    BY <1>0, <2>2, <2>3, WithOnward
  <2> HIDE DEF r
  <2>5. Onward(sent, sent')
    BY <2>1, <2>4 DEF r
  <2>6. AskedFor(sent, "state") => AskedFor(sent', "state")
    BY <2>5 DEF Onward, Asks, SettingAsks
  <2> QED
    BY <1>0, <2>3, <2>5, <2>6, LinkKept, SettingKept DEF Onward
<1>6. CASE TimerTick
  <2>1. UNCHANGED <<shown, omp, notified, informed, doubtful>> /\ timer' \in BOOLEAN
    BY <1>1, <1>6 DEF TimerTick
  <2>2. CASE RefreshState(sent, inFlight, queued)
    <3>1. /\ Onward(sent, sent') /\ inFlight' \in BOOLEAN /\ queued' \in BOOLEAN
          /\ (inFlight' => AskedFor(sent', "state")) /\ (queued' => inFlight')
      BY <1>0, <1>1, <2>2, RefreshStateOnward
    <3> QED
      BY <1>0, <1>1, <2>1, <3>1, LinkKept, SettingAfter DEF Onward
  <2>3. CASE UNCHANGED <<inFlight, queued, sent>>
    BY <1>0, <1>1, <2>1, <2>3, LinkKept, SettingAfter DEF Onward
  <2> QED
    BY <1>6, <2>2, <2>3 DEF TimerTick
<1>7. CASE \E c \in running : OmpChanges(c)
  <2>1. PICK c \in running : OmpChanges(c)
    BY <1>7
  <2>2. c \in Conn /\ UNCHANGED <<sent, shown, inFlight, queued, timer, informed, doubtful>>
        /\ notified' = notified \cup {c} /\ omp' = [omp EXCEPT ![c][Model] = 1 - @]
    BY <2>1 DEF OmpChanges, LinkInv
  <2>3. 1 - omp[c][Model] \in Value /\ omp[c] \in [Setting -> Value]
    BY <1>1, <2>2, SettingsAssumption DEF Setting
  <2>4. omp' \in [Conn -> [Setting -> Value]]
    BY <1>1, <2>2, <2>3
  <2> QED
    BY <1>0, <1>1, <2>2, <2>4, LinkKept, SettingAfter DEF Onward
<1> QED
  BY <1>3, <1>4, <1>5, <1>6, <1>7 DEF SettingMove

LEMMA PumpRefreshed ==
  ASSUME LinkInv, SettingInv, UNCHANGED <<linkVars, running, begun>>, PumpRefreshes
  PROVE  LinkInv' /\ SettingInv' /\ Onward(sent, sent')
<1>1. /\ RefreshState(sent, inFlight, queued) /\ UNCHANGED <<shown, omp, informed, doubtful>>
      /\ notified' \subseteq notified /\ timer' \in BOOLEAN
  BY DEF PumpRefreshes, SyncTimer
<1>2. /\ Good(sent) /\ inFlight \in BOOLEAN /\ queued \in BOOLEAN
      /\ inFlight => AskedFor(sent, "state")
  BY DEF LinkInv, SettingInv, SettingsTypeOK
<1>3. /\ Onward(sent, sent') /\ inFlight' \in BOOLEAN /\ queued' \in BOOLEAN
      /\ (inFlight' => AskedFor(sent', "state")) /\ (queued' => inFlight')
  BY <1>1, <1>2, RefreshStateOnward
<1>4. SettingInv'
  <2>1. /\ shown' \in [Setting -> Value] /\ omp' \in [Conn -> [Setting -> Value]]
        /\ informed' \in BOOLEAN /\ doubtful' \subseteq Setting /\ notified' \subseteq Conn
    BY <1>1 DEF SettingInv, SettingsTypeOK
  <2> QED
    BY <1>1, <1>3, <2>1, SettingAfter
<1> QED
  BY <1>3, <1>4, LinkKept DEF Onward

LEMMA ReplyIs ==
  /\ <<>> \in Replied
  /\ \A v \in Value : v \in Replied
  /\ \A f \in [Setting -> Value] : f \in Replied
  /\ \A l \in SUBSET Agent : l \in Replied
  /\ \A p \in PageReply : p \in Replied
<1>1. Value \subseteq Nat
  BY SettingsAssumption
<1>2. Nat \subseteq Replied
  BY Zenon DEF Replied
<1>3. \A v \in Value : v \in Replied
  BY <1>1, <1>2
<1>4. \A f \in [Setting -> Value] : f \in Replied
  BY Zenon DEF Replied
<1>5. \A l \in SUBSET Agent : l \in Replied
  BY Zenon DEF Replied
<1>6. \A p \in PageReply : p \in Replied
  BY Zenon DEF Replied
<1>7. <<>> \in Replied
  BY DEF Replied
<1> QED
  BY <1>3, <1>4, <1>5, <1>6, <1>7

\* omp carries a change out, answers with its state, or refuses.
LEMMA SettingTaken ==
  ASSUME LinkInv, SettingInv, UNCHANGED <<linkVars, running, begun>>, NEW c \in running,
         OmpTakesSetting(c)
  PROVE  LinkInv' /\ SettingInv' /\ Onward(sent, sent')
<1> DEFINE r == NextToTake(c)[1]
           v == IF r.what = "set" THEN r.val ELSE 1 - omp[c][r.key]
<1>1. /\ c \in Conn /\ Good(sent) /\ r.what \in SettingAsks /\ r.what # "messages"
      /\ UNCHANGED <<shown, inFlight, queued, timer, notified, informed, doubtful>>
      /\ omp \in [Conn -> [Setting -> Value]]
  BY DEF OmpTakesSetting, LinkInv, SettingInv, SettingsTypeOK, SettingAsks
<1>2. \/ Take(c, "refused", <<>>) /\ UNCHANGED omp
      \/ r.what = "state" /\ Take(c, "done", omp[c]) /\ UNCHANGED omp
      \/ /\ r.what \in {"set", "cycle"}
         /\ Take(c, "done", v) /\ omp' = [omp EXCEPT ![c][r.key] = v]
  BY DEF OmpTakesSetting
<1>3. r \in Command
  BY <1>1, <1>2, TakeIsOfCommand
<1> HIDE DEF r
<1>4. Onward(sent, sent') /\ omp' \in [Conn -> [Setting -> Value]]
  <2>1. CASE Take(c, "refused", <<>>) /\ UNCHANGED omp
    BY <1>1, <2>1, TakeOnward, ReplyIs DEF r
  <2>2. CASE r.what = "state" /\ Take(c, "done", omp[c]) /\ UNCHANGED omp
    <3>1. omp[c] \in [Setting -> Value]
      BY <1>1
    <3>2. omp[c] \in Replied /\ Answerable(r, omp[c])
      BY <2>2, <3>1, ReplyIs DEF Answerable
    <3> QED
      BY <1>1, <2>2, <3>2, TakeOnward DEF r
  <2>3. CASE r.what \in {"set", "cycle"} /\ Take(c, "done", v) /\ omp' = [omp EXCEPT ![c][r.key] = v]
    <3>1. r.key \in Setting /\ (r.what = "set" => r.val \in Value)
      BY <1>3, <2>3 DEF Command, Fits, Setting
    <3>2. v \in Value /\ omp[c] \in [Setting -> Value]
      BY <1>1, <2>3, <3>1, SettingsAssumption
    <3> HIDE DEF v
    <3>3. v \in Replied /\ Answerable(r, v)
      BY <2>3, <3>2, ReplyIs DEF Answerable
    <3>4. Onward(sent, sent')
      BY <1>1, <2>3, <3>3, TakeOnward DEF r
    <3> QED
      BY <1>1, <2>3, <3>1, <3>2, <3>4
  <2> QED
    BY <1>2, <2>1, <2>2, <2>3
<1>5. AskedFor(sent, "state") => AskedFor(sent', "state")
  BY <1>4 DEF Onward, Asks, SettingAsks
<1>6. SettingInv'
  <2>1. /\ shown' \in [Setting -> Value] /\ timer' \in BOOLEAN /\ informed' \in BOOLEAN
        /\ doubtful' \subseteq Setting /\ notified' \subseteq Conn
        /\ inFlight' \in BOOLEAN /\ queued' \in BOOLEAN
        /\ inFlight' => AskedFor(sent', "state")
        /\ queued' => inFlight'
    BY <1>1, <1>5 DEF SettingInv, SettingsTypeOK
  <2> QED
    BY <1>4, <2>1, SettingAfter
<1> QED
  BY <1>4, <1>6, LinkKept DEF Onward

\* What the life of the session does to them: the flags go with the requests they
\* stood for, or the requests stay.
LEMMA SettingAttached ==
  ASSUME LinkInv, SettingInv, NEW c \in Conn, SettingsAttach(c), UNCHANGED sent
  PROVE  SettingInv'
<1>1. omp[c] \in [Setting -> Value] /\ [s \in Setting |-> 0] \in [Setting -> Value]
  BY SettingsAssumption DEF SettingInv, SettingsTypeOK
<1>2. /\ shown' \in [Setting -> Value] /\ informed' \in BOOLEAN /\ doubtful' \subseteq Setting
      /\ UNCHANGED <<inFlight, queued, timer, omp, notified>>
  BY <1>1 DEF SettingsAttach
<1> QED
  BY <1>2, SettingAfter DEF SettingInv, SettingsTypeOK

LEMMA SettingLost ==
  ASSUME SettingInv, SettingsLose \/ SettingsForget PROVE SettingInv'
<1>1. [s \in Setting |-> 0] \in [Setting -> Value]
  BY SettingsAssumption
<1>2. /\ shown \in [Setting -> Value] /\ informed \in BOOLEAN /\ doubtful \subseteq Setting
      /\ omp \in [Conn -> [Setting -> Value]] /\ notified \subseteq Conn
  BY DEF SettingInv, SettingsTypeOK
<1>3. /\ inFlight' = FALSE /\ queued' = FALSE /\ timer' = FALSE /\ UNCHANGED <<omp, notified>>
  BY DEF SettingsLose, SettingsForget, ClearLiveTimers
<1>4. shown' \in [Setting -> Value] /\ informed' \in BOOLEAN /\ doubtful' \subseteq Setting
  BY <1>1, <1>2 DEF SettingsLose, SettingsForget
<1> QED
  BY <1>2, <1>3, <1>4, SettingAfter

-----------------------------------------------------------------------------
(* The drawer.                                                               *)

\* s is the run of a's messages that ends with the to-th.
Run(s, a, to) ==
  /\ s \in Seq((Agent \cup {NoAgent}) \X Nat) /\ Len(s) <= to
  /\ \A i \in 1..Len(s) : s[i] = <<a, to - Len(s) + i>>

LEMMA EmptyRun == ASSUME NEW a, NEW to \in Nat PROVE Run(<<>>, a, to)
  BY DEF Run

\* A page that starts where the run ends makes a longer one.
LEMMA RunOn ==
  ASSUME NEW a \in Agent, NEW from \in Nat, NEW to \in Nat, from <= to, NEW s, Run(s, a, from)
  PROVE  Run(s \o Page(a, from, to), a, to)
<1> DEFINE T == (Agent \cup {NoAgent}) \X Nat
           p == Page(a, from, to)
           u == s \o p
<1>1. to - from \in Nat /\ s \in Seq(T) /\ Len(s) \in Nat /\ Len(s) <= from
  BY DEF Run
<1>2. p \in Seq(T) /\ Len(p) = to - from /\ \A i \in 1..to - from : p[i] = <<a, from + i>>
  <2>1. p = [i \in 1..to - from |-> <<a, from + i>>]
    BY DEF Page
  <2> HIDE DEF p
  <2>2. \A i \in 1..to - from : <<a, from + i>> \in T
    BY <1>1
  <2>3. p \in [1..to - from -> T]
    BY <2>1, <2>2
  <2> QED
    BY <1>1, <2>1, <2>3
<1> HIDE DEF p
<1>3. /\ u \in Seq(T) /\ Len(u) = Len(s) + (to - from)
      /\ \A i \in 1..Len(u) : u[i] = IF i <= Len(s) THEN s[i] ELSE p[i - Len(s)]
  BY <1>1, <1>2, ConcatProperties
<1> HIDE DEF u
<1>4. ASSUME NEW i \in 1..Len(u) PROVE u[i] = <<a, to - Len(u) + i>>
  <2>1. CASE i <= Len(s)
    <3>1. i \in 1..Len(s) /\ from - Len(s) + i = to - Len(u) + i
      BY <1>1, <1>3, <2>1
    <3> QED
      BY <1>3, <2>1, <3>1 DEF Run
  <2>2. CASE ~(i <= Len(s))
    <3>1. i - Len(s) \in 1..to - from /\ from + (i - Len(s)) = to - Len(u) + i
      BY <1>1, <1>3, <2>2
    <3> QED
      BY <1>2, <1>3, <2>2, <3>1
  <2> QED
    BY <2>1, <2>2
<1>5. Len(u) <= to
  BY <1>1, <1>3
<1> QED
  BY <1>3, <1>4, <1>5 DEF Run, u, p

\* The window keeps the last of them.
LEMMA RunCapped ==
  ASSUME NEW a, NEW to \in Nat, NEW s, Run(s, a, to)
  PROVE  Run(Capped(s), a, to) /\ Len(Capped(s)) <= LineCap
<1> DEFINE T == (Agent \cup {NoAgent}) \X Nat
           d == IF Len(s) > LineCap THEN Len(s) - LineCap ELSE 0
           u == SubSeq(s, d + 1, Len(s))
<1>1. s \in Seq(T) /\ Len(s) \in Nat /\ Len(s) <= to /\ LineCap \in Nat
  BY SubagentsAssumption DEF Run
<1>2. d \in Nat /\ d <= Len(s) /\ Len(s) - d <= LineCap
  BY <1>1
<1>3. u = Capped(s)
  BY DEF Capped
<1> HIDE DEF d
<1>4. /\ u \in Seq(T) /\ Len(u) = Len(s) - d
      /\ \A i \in 1..Len(s) - d : u[i] = s[i + d]
  <2>1. d + 1 \in Int /\ Len(s) \in Int /\ \A i \in (d + 1)..Len(s) : s[i] \in T
    BY <1>1, <1>2
  <2>2. /\ u \in Seq(T) /\ Len(u) = IF d + 1 <= Len(s) THEN Len(s) - (d + 1) + 1 ELSE 0
        /\ \A i \in 1..Len(s) - (d + 1) + 1 : u[i] = s[(d + 1) + i - 1]
    BY <2>1, SubSeqProperties
  <2> HIDE DEF u
  <2>3. Len(s) - (d + 1) + 1 = Len(s) - d /\ \A i \in Nat : (d + 1) + i - 1 = i + d
    BY <1>1, <1>2
  <2>4. Len(u) = Len(s) - d
    BY <1>1, <1>2, <2>2
  <2> QED
    BY <2>2, <2>3, <2>4
<1> HIDE DEF u
<1>5. ASSUME NEW i \in 1..Len(u) PROVE u[i] = <<a, to - Len(u) + i>>
  <2>1. /\ i \in 1..Len(s) - d /\ i + d \in 1..Len(s)
        /\ to - Len(s) + (i + d) = to - Len(u) + i
    BY <1>1, <1>2, <1>4
  <2> QED
    BY <1>4, <2>1 DEF Run
<1>6. Run(u, a, to) /\ Len(u) <= LineCap
  BY <1>1, <1>2, <1>4, <1>5 DEF Run
<1> QED
  BY <1>3, <1>6

DrawerTypeOK ==
  /\ agents \subseteq Agent /\ refreshing \in BOOLEAN /\ modal \in BOOLEAN
  /\ selected \in Agent \cup {NoAgent} /\ generation \in Nat
  /\ nextByte \in Nat /\ log \in [Agent -> 0..MaxPage]

\* The window shows a run of its agent's messages that ends where it reads on, and
\* every request for more of them reads on from a place the agent has come to.
WindowOK ==
  /\ Run(lines, selected, nextByte) /\ Len(lines) <= LineCap
  /\ nextByte <= IF selected = NoAgent THEN 0 ELSE log[selected]

DrawerInv ==
  /\ DrawerTypeOK
  /\ refreshing => AskedFor(sent, "agents")
  /\ TailReqs(sent)
  /\ WindowOK

\* Requests keep their promises while the window and the agents stay as they are.
LEMMA TailReqsKept ==
  ASSUME TailReqs(sent'), UNCHANGED <<modal, selected, generation, nextByte, log>>
  PROVE  TailReqs(sent)'
<1>1. OneEach(sent)'
  BY DEF TailReqs, OneEach
<1>2. ASSUME NEW c \in Conn, NEW i \in 1..Len(sent'[c]) PROVE MessageOK(sent[c][i])'
  <2>1. MessageOK(sent'[c][i])
    BY DEF TailReqs
  <2> QED
    BY <2>1 DEF MessageOK, StillWanted, PageOK
<1> QED
  BY <1>1, <1>2 DEF TailReqs

LEMMA DrawerKept ==
  ASSUME DrawerInv, UNCHANGED agentVars, NEW gone, gone # "agents", Besides(sent, sent', gone)
  PROVE  DrawerInv'
<1>1. UNCHANGED <<agents, refreshing, selected, modal, generation, nextByte, lines, log>>
  BY DEF agentVars
<1>2. TailReqs(sent)'
  BY <1>1, TailReqsKept DEF DrawerInv, Besides
<1>3. AskedFor(sent, "agents") => AskedFor(sent', "agents")
  BY DEF Besides, Asks, AgentAsks
<1>4. DrawerTypeOK' /\ WindowOK'
  BY <1>1 DEF DrawerInv, DrawerTypeOK, WindowOK, Run
<1> QED
  BY <1>1, <1>2, <1>3, <1>4 DEF DrawerInv, AskedFor

LEMMA OnwardIsBesides ==
  ASSUME NEW p, NEW w, Onward(p, w), NEW gone PROVE Besides(p, w, gone)
  BY DEF Onward, Besides

\* A request for the list: its flag is that of the request.
LEMMA RefreshSubagentsOnward ==
  ASSUME LinkInv, DrawerInv, RefreshSubagents(sent)
  PROVE  Onward(sent, sent') /\ refreshing' \in BOOLEAN /\ (refreshing' => AskedFor(sent', "agents"))
<1>1. Onward(sent, sent) /\ Good(sent)
  BY DEF Onward, Elsewhere, LinkInv
<1>2. CASE client = NoConn
  BY <1>1, <1>2 DEF RefreshSubagents
<1>3. CASE client # NoConn /\ refreshing
  BY <1>1, <1>3 DEF RefreshSubagents, DrawerInv, DrawerTypeOK
<1>4. CASE client # NoConn /\ ~refreshing
  <2> DEFINE r == Request("agents", NoAgent, 0, 0)
  <2>1. client \in Conn /\ Room(sent) /\ sent' = With(sent, r) /\ refreshing' = TRUE
    BY <1>4 DEF RefreshSubagents, LinkInv, LinkTypeOK
  <2>2. r \in Command /\ r.status = "queued" /\ r.what = "agents"
    <3>1. 0 \in Val /\ <<>> \in Replied /\ NoAgent \in Key /\ "agents" \in Asks /\ "queued" \in Status
      BY DEF Val, Replied, Key, Asks, AgentAsks, Status
    <3> QED
      BY <3>1 DEF Request, Command, Fits
  <2>3. Onward(sent, With(sent, r)) /\ AskedFor(With(sent, r), "agents")
    BY <1>1, <2>1, <2>2, WithOnward
  <2> QED
    BY <2>1, <2>3
<1> QED
  BY <1>2, <1>3, <1>4

\* A window that waits for nothing: no request is for its generation.
LEMMA TailReqsForgotten ==
  ASSUME DrawerTypeOK, Good(sent'), TailReqs(sent'), generation' = generation + 1, UNCHANGED log
  PROVE  TailReqs(sent)'
<1>1. OneEach(sent)'
  BY DEF TailReqs, OneEach
<1>2. ASSUME NEW c \in Conn, NEW i \in 1..Len(sent'[c]) PROVE MessageOK(sent[c][i])'
  <2>1. MessageOK(sent'[c][i])
    BY DEF TailReqs
  <2> DEFINE r == sent'[c][i]
  <2>2. CASE r.what = "messages"
    <3>1. r.was <= generation /\ r.val <= log[r.key] /\ (r.status = "done" => PageOK(r))
      BY <2>1, <2>2 DEF MessageOK
    <3>2. r.was \in Nat /\ generation \in Nat
      <4>1. r \in Command
        BY DEF Good, Queues
      <4> QED
        BY <2>2, <4>1 DEF Command, Fits, DrawerTypeOK
    <3>3. r.was <= generation' /\ r.was # generation'
      BY <3>1, <3>2
    <3> QED
      BY <2>2, <3>1, <3>3 DEF MessageOK, StillWanted, PageOK
  <2>3. CASE r.what # "messages"
    BY <2>3 DEF MessageOK
  <2> QED
    BY <2>2, <2>3
<1> QED
  BY <1>1, <1>2 DEF TailReqs

LEMMA OpenedIsCommand ==
  ASSUME NEW a \in Agent, NEW at \in Nat, NEW gen \in Nat
  PROVE  LET r == Request("messages", a, at, gen)
         IN /\ r \in Command /\ r.status = "queued" /\ r.what = "messages"
            /\ r.key = a /\ r.val = at /\ r.was = gen
<1>1. at \in Val /\ gen \in Val /\ <<>> \in Replied /\ a \in Key /\ "messages" \in Asks /\ "queued" \in Status
  BY DEF Val, Replied, Key, Asks, AgentAsks, Status
<1> QED
  BY <1>1 DEF Request, Command, Fits

\* The window is opened over an agent: a generation of its own, and a request.
LEMMA DrawerOpened ==
  ASSUME LinkInv, DrawerInv, UNCHANGED <<linkVars, running, begun>>, NEW a \in Agent,
         OpenSubagentModal(a)
  PROVE  /\ DrawerInv' /\ Good(sent') /\ Elsewhere(sent, sent')
         /\ \A what \in Asks : AskedFor(sent, what) => AskedFor(sent', what)
<1> DEFINE at == IF selected = a THEN nextByte ELSE 0
           gen == generation + 1
           r == Request("messages", a, at, gen)
<1>1. /\ Room(sent) /\ selected' = a /\ modal' = TRUE /\ generation' = gen
      /\ sent' = Ask(sent, r) /\ UNCHANGED <<agents, refreshing, log>>
      /\ IF selected = a THEN UNCHANGED <<nextByte, lines>> ELSE nextByte' = 0 /\ lines' = <<>>
  BY DEF OpenSubagentModal
<1>2. /\ at \in Nat /\ gen \in Nat /\ gen = generation + 1 /\ nextByte' = at /\ at <= log[a]
      /\ a # NoAgent /\ log[a] \in Nat
  BY <1>1, SubagentsAssumption DEF DrawerInv, DrawerTypeOK, WindowOK
<1>3. /\ r \in Command /\ r.status = "queued" /\ r.what = "messages"
      /\ r.key = a /\ r.val = at /\ r.was = gen
  BY <1>2, OpenedIsCommand
<1> HIDE DEF r, gen, at
<1>4. WindowOK'
  <2>1. CASE selected = a
    BY <1>1, <1>2, <2>1 DEF DrawerInv, WindowOK, Run
  <2>2. CASE selected # a
    <3>1. nextByte' = 0 /\ lines' = <<>>
      BY <1>1, <2>2
    <3>2. Run(<<>>, a, 0) /\ Len(<<>>) <= LineCap
      BY EmptyRun, SubagentsAssumption
    <3> QED
      BY <1>1, <1>2, <3>1, <3>2 DEF WindowOK, Run
  <2> QED
    BY <2>1, <2>2
<1>5. DrawerTypeOK'
  BY <1>1, <1>2 DEF DrawerInv, DrawerTypeOK
<1>6. Good(sent) /\ sent \in Queues /\ TailReqs(sent)
  BY DEF LinkInv, Good, DrawerInv
<1>7. CASE client = NoConn
  <2>1. sent' = sent
    BY <1>1, <1>7 DEF Ask
  <2>2. TailReqs(sent)'
    BY <1>1, <1>2, <1>6, <2>1, TailReqsForgotten DEF DrawerInv
  <2> QED
    BY <1>1, <1>4, <1>5, <1>6, <2>1, <2>2 DEF DrawerInv, AskedFor, Elsewhere
<1>8. CASE client # NoConn
  <2>1. client \in Conn /\ sent' = With(sent, r)
    BY <1>1, <1>8 DEF Ask, LinkInv, LinkTypeOK
  <2>2. PICK s \in Command :
          /\ s.status \in {"queued", "refused"} /\ s.what = "messages"
          /\ s.key = a /\ s.val = at /\ s.was = gen
          /\ Len(sent[client]) \in Nat
          /\ Len(sent'[client]) = Len(sent[client]) + 1
          /\ sent'[client][Len(sent[client]) + 1] = s
          /\ \A i \in 1..Len(sent[client]) : sent'[client][i] = sent[client][i]
          /\ \A c \in Conn : c # client => sent'[c] = sent[c]
    <3>1. \E s \in Command :
            /\ s.status \in {"queued", "refused"}
            /\ s.what = r.what /\ s.key = r.key /\ s.val = r.val /\ s.was = r.was
            /\ Len(sent[client]) \in Nat
            /\ Len(With(sent, r)[client]) = Len(sent[client]) + 1
            /\ With(sent, r)[client][Len(sent[client]) + 1] = s
            /\ \A i \in 1..Len(sent[client]) : With(sent, r)[client][i] = sent[client][i]
            /\ \A c \in Conn : c # client => With(sent, r)[c] = sent[c]
      BY <1>3, <1>6, <2>1, WithOne
    <3> QED
      BY <1>3, <2>1, <3>1
  <2>3. ASSUME NEW c \in Conn, NEW i \in 1..Len(sent'[c])
        PROVE  \/ i \in 1..Len(sent[c]) /\ sent'[c][i] = sent[c][i]
               \/ c = client /\ i = Len(sent[client]) + 1 /\ sent'[c][i] = s
    BY <2>2
  <2>4. ASSUME NEW c \in Conn, NEW i \in 1..Len(sent[c]), sent[c][i].what = "messages"
        PROVE  sent[c][i].was \in Nat /\ sent[c][i].was <= generation /\ sent[c][i].was # gen
    <3>1. sent[c][i] \in Command /\ MessageOK(sent[c][i])
      BY <1>6 DEF Queues, TailReqs
    <3> QED
      BY <1>2, <2>4, <3>1 DEF Command, Fits, MessageOK, DrawerInv, DrawerTypeOK
  <2>5. OneEach(sent)'
    <3>1. SUFFICES ASSUME NEW c \in Conn, NEW d \in Conn, NEW i \in 1..Len(sent'[c]), NEW j \in 1..Len(sent'[d]),
                          sent'[c][i].what = "messages", sent'[d][j].what = "messages",
                          sent'[c][i].was = sent'[d][j].was
                   PROVE  c = d /\ i = j
      BY DEF OneEach
    <3>2. CASE i \in 1..Len(sent[c]) /\ sent'[c][i] = sent[c][i]
      <4>1. sent[c][i].was # gen
        BY <2>4, <3>1, <3>2
      <4>2. j \in 1..Len(sent[d]) /\ sent'[d][j] = sent[d][j]
        BY <2>2, <2>3, <3>1, <3>2, <4>1
      <4> QED
        BY <1>6, <3>1, <3>2, <4>2 DEF TailReqs, OneEach
    <3>3. CASE c = client /\ i = Len(sent[client]) + 1 /\ sent'[c][i] = s
      <4>1. sent'[d][j].was = gen
        BY <2>2, <3>1, <3>3
      <4>2. d = client /\ j = Len(sent[client]) + 1
        BY <2>3, <2>4, <3>1, <4>1
      <4> QED
        BY <3>3, <4>2
    <3> QED
      BY <2>3, <3>1, <3>2, <3>3
  <2>6. ASSUME NEW c \in Conn, NEW i \in 1..Len(sent'[c]) PROVE MessageOK(sent[c][i])'
    <3>1. CASE i \in 1..Len(sent[c]) /\ sent'[c][i] = sent[c][i]
      <4>1. CASE sent[c][i].what = "messages"
        <5> DEFINE m == sent[c][i]
        <5>1. MessageOK(m) /\ m.was \in Nat /\ m.was <= generation /\ m.was # gen
          BY <1>6, <2>4, <3>1, <4>1 DEF TailReqs
        <5>2. m.was <= gen /\ generation \in Nat
          BY <1>2, <5>1 DEF DrawerInv, DrawerTypeOK
        <5> HIDE DEF m
        <5>3. sent'[c][i] = m /\ m.what = "messages"
          BY <3>1, <4>1 DEF m
        <5> QED
          BY <1>1, <5>1, <5>2, <5>3 DEF MessageOK, StillWanted, PageOK
      <4>2. CASE sent[c][i].what # "messages"
        BY <3>1, <4>2 DEF MessageOK
      <4> QED
        BY <4>1, <4>2
    <3>2. CASE sent'[c][i] = s
      BY <1>1, <1>2, <2>2, <3>2 DEF MessageOK
    <3> QED
      BY <2>3, <3>1, <3>2
  <2>7. TailReqs(sent)'
    BY <2>5, <2>6 DEF TailReqs
  <2>8. Good(sent') /\ \A what \in Asks : AskedFor(sent, what) => AskedFor(sent', what)
    BY <1>1, <1>3, <1>6, <2>1, WithGood
  <2>9. refreshing' => AskedFor(sent', "agents")
    BY <1>1, <2>8 DEF DrawerInv, Asks, AgentAsks
  <2>10. Elsewhere(sent, sent')
    BY <2>2 DEF Elsewhere
  <2> QED
    BY <1>4, <1>5, <2>7, <2>8, <2>9, <2>10 DEF DrawerInv, AskedFor
<1> QED
  BY <1>7, <1>8

\* The user's moves in the drawer, the frames, and what the agents write.
LEMMA DrawerMoved ==
  ASSUME LinkInv, DrawerInv, DrawerMove
  PROVE  /\ DrawerInv' /\ Good(sent') /\ Elsewhere(sent, sent')
         /\ \A what \in Asks : AskedFor(sent, what) => AskedFor(sent', what)
<1>0. UNCHANGED <<linkVars, running, begun>> /\ Good(sent) /\ TailReqs(sent)
  BY DEF DrawerMove, LinkInv, DrawerInv
<1>1. ASSUME RefreshSubagents(sent) \/ UNCHANGED <<refreshing, sent>>,
             UNCHANGED <<agents, selected, modal, generation, nextByte, lines, log>>
      PROVE  DrawerInv' /\ Onward(sent, sent')
  <2>1. Onward(sent, sent') /\ refreshing' \in BOOLEAN /\ (refreshing' => AskedFor(sent', "agents"))
    <3>1. CASE RefreshSubagents(sent)
      BY <3>1, RefreshSubagentsOnward
    <3>2. CASE UNCHANGED <<refreshing, sent>>
      BY <1>0, <3>2 DEF Onward, Elsewhere, DrawerInv, DrawerTypeOK
    <3> QED
      BY <1>1, <3>1, <3>2
  <2>2. TailReqs(sent)'
    BY <1>0, <1>1, <2>1, TailReqsKept DEF Onward
  <2>3. DrawerTypeOK' /\ WindowOK'
    BY <1>1, <2>1 DEF DrawerInv, DrawerTypeOK, WindowOK, Run
  <2> QED
    BY <2>1, <2>2, <2>3 DEF DrawerInv, AskedFor
<1>2. CASE ListAgents
  BY <1>1, <1>2 DEF ListAgents, Onward
<1>3. CASE SubagentFrame
  BY <1>1, <1>3 DEF SubagentFrame, Onward
<1>4. CASE CloseSubagentModal
  <2>1. /\ modal' = FALSE /\ generation' = generation + 1
        /\ UNCHANGED <<sent, agents, refreshing, selected, nextByte, lines, log>>
    BY <1>4 DEF CloseSubagentModal
  <2>2. TailReqs(sent)'
    BY <1>0, <2>1, TailReqsForgotten DEF DrawerInv
  <2>3. DrawerTypeOK'
    <3>1. generation' \in Nat
      BY <2>1 DEF DrawerInv, DrawerTypeOK
    <3> QED
      BY <2>1, <3>1, Zenon DEF DrawerInv, DrawerTypeOK
  <2>4. WindowOK'
    BY <2>1 DEF DrawerInv, WindowOK, Run
  <2> QED
    BY <1>0, <2>1, <2>2, <2>3, <2>4 DEF DrawerInv, AskedFor, Elsewhere
<1>5. CASE \E a \in Agent : OpenSubagentModal(a)
  BY <1>0, <1>5, DrawerOpened
<1>6. CASE \E a \in Agent : AgentWrites(a)
  <2>1. PICK a \in Agent : AgentWrites(a)
    BY <1>6
  <2>2. /\ UNCHANGED <<sent, agents, refreshing, selected, modal, generation, nextByte, lines>>
        /\ log' = [log EXCEPT ![a] = @ + 1] /\ log[a] < MaxPage /\ log \in [Agent -> 0..MaxPage]
    BY <2>1 DEF AgentWrites, DrawerInv, DrawerTypeOK
  <2>3. log' \in [Agent -> 0..MaxPage]
        /\ \A b \in Agent : log[b] \in Nat /\ log'[b] \in Nat /\ log[b] <= log'[b]
    BY <2>2, SubagentsAssumption
  <2>4. DrawerTypeOK'
    BY <2>2, <2>3 DEF DrawerInv, DrawerTypeOK
  <2>5. WindowOK'
    <3>1. nextByte \in Nat /\ nextByte <= IF selected = NoAgent THEN 0 ELSE log'[selected]
      BY <2>3 DEF DrawerInv, DrawerTypeOK, WindowOK
    <3> QED
      BY <2>2, <3>1 DEF DrawerInv, WindowOK, Run
  <2>6. OneEach(sent)'
    <3>1. OneEach(sent) /\ sent' = sent
      BY <1>0, <2>2 DEF TailReqs
    <3> QED
      BY <3>1 DEF OneEach
  <2>7. ASSUME NEW c \in Conn, NEW i \in 1..Len(sent'[c]) PROVE MessageOK(sent[c][i])'
    <3> DEFINE m == sent[c][i]
    <3>1. m \in Command /\ MessageOK(m) /\ sent'[c][i] = m
      BY <1>0, <2>2 DEF Good, Queues, TailReqs
    <3> HIDE DEF m
    <3>2. CASE m.what = "messages"
      <4>1. m.key \in Agent /\ m.val \in Nat /\ (m.status = "done" => m.reply \in PageReply)
        BY <3>1, <3>2 DEF Command, Fits
      <4>2. m.val <= log'[m.key]
        BY <2>3, <3>1, <3>2, <4>1 DEF MessageOK
      <4>3. m.status = "done" =>
              /\ m.reply.from = IF m.reply.reset THEN 0 ELSE m.val
              /\ m.reply.from <= m.reply.next
              /\ m.reply.next <= log'[m.key]
        <5>1. SUFFICES ASSUME m.status = "done"
                       PROVE  /\ m.reply.from = IF m.reply.reset THEN 0 ELSE m.val
                              /\ m.reply.from <= m.reply.next
                              /\ m.reply.next <= log'[m.key]
          OBVIOUS
        <5>2. PageOK(m) /\ m.reply.next \in Nat
          BY <3>1, <3>2, <4>1, <5>1 DEF MessageOK, PageReply
        <5> QED
          BY <2>3, <4>1, <5>2 DEF PageOK
      <4> QED
        BY <2>2, <3>1, <4>2, <4>3 DEF MessageOK, StillWanted, PageOK
    <3>3. CASE m.what # "messages"
      BY <3>1, <3>3 DEF MessageOK
    <3> QED
      BY <3>2, <3>3
  <2>8. TailReqs(sent)'
    BY <2>6, <2>7 DEF TailReqs
  <2> QED
    BY <1>0, <2>2, <2>4, <2>5, <2>8 DEF DrawerInv, AskedFor, Elsewhere
<1> QED
  BY <1>2, <1>3, <1>4, <1>5, <1>6 DEF DrawerMove

\* omp answers with its list, with a page of an agent's messages, or refuses.
LEMMA DrawerTaken ==
  ASSUME LinkInv, DrawerInv, UNCHANGED <<linkVars, running, begun>>, NEW c \in running,
         OmpTakesSubagents(c)
  PROVE  DrawerInv' /\ Onward(sent, sent')
<1> DEFINE r == NextToTake(c)[1]
           page(reset) == [reset |-> reset, next |-> log[r.key], from |-> IF reset THEN 0 ELSE r.val]
<1>1. c \in Conn /\ Good(sent) /\ UNCHANGED agentVars
  BY DEF OmpTakesSubagents, LinkInv
<1>2. \/ Take(c, "refused", <<>>)
      \/ r.what = "agents" /\ \E list \in SUBSET Agent : Take(c, "done", list)
      \/ r.what = "messages" /\ \E reset \in BOOLEAN : Take(c, "done", page(reset))
  BY DEF OmpTakesSubagents
<1>3. \E i \in 1..Len(sent[c]) : r = sent[c][i] /\ sent[c][i] \in Command
  BY <1>1, <1>2, TakeIsOfCommand
<1> HIDE DEF r
<1>4. r \in Command /\ MessageOK(r)
  BY <1>1, <1>3 DEF DrawerInv, TailReqs
<1>5. Onward(sent, sent')
  <2>1. CASE Take(c, "refused", <<>>)
    BY <1>1, <2>1, TakeOnward, ReplyIs DEF r
  <2>2. CASE r.what = "agents" /\ \E list \in SUBSET Agent : Take(c, "done", list)
    <3>1. PICK list \in SUBSET Agent : Take(c, "done", list)
      BY <2>2
    <3>2. list \in Replied /\ Answerable(r, list)
      BY <2>2, ReplyIs DEF Answerable
    <3> QED
      BY <1>1, <2>2, <3>1, <3>2, TakeOnward DEF r
  <2>3. CASE r.what = "messages" /\ \E reset \in BOOLEAN : Take(c, "done", page(reset))
    <3>1. PICK reset \in BOOLEAN : Take(c, "done", page(reset))
      BY <2>3
    <3> DEFINE p == page(reset)
    <3>2. r.key \in Agent /\ r.val \in Nat /\ log[r.key] \in Nat /\ r.val <= log[r.key]
      BY <1>4, <2>3 DEF Command, Fits, MessageOK, DrawerInv, DrawerTypeOK
    <3>3. /\ p \in PageReply /\ p.from = IF p.reset THEN 0 ELSE r.val
          /\ p.from <= p.next /\ p.next <= log[r.key]
      BY <3>2 DEF PageReply
    <3> HIDE DEF p
    <3>4. p \in Replied /\ Answerable(r, p)
      BY <2>3, <3>3, ReplyIs DEF Answerable
    <3>5. PageOK(Taken(r, "done", p))
      <4>1. /\ Taken(r, "done", p).reply = p /\ Taken(r, "done", p).key = r.key
            /\ Taken(r, "done", p).val = r.val
        BY <1>4, <3>4, CommandTaken
      <4> QED
        BY <3>3, <4>1 DEF PageOK
    <3>6. Take(c, "done", p)
      BY <3>1 DEF p
    <3> QED
      BY <1>1, <3>4, <3>5, <3>6, TakeOnward DEF r
  <2> QED
    BY <1>2, <2>1, <2>2, <2>3
<1> QED
  BY <1>1, <1>5, OnwardIsBesides, DrawerKept

\* The list has come: an agent that is not in it loses the window.
LEMMA DrawerListed ==
  ASSUME LinkInv, DrawerInv, NEW r, NEW q, Returned(r, q), r.what = "agents", AnswerAgents(r, q)
  PROVE  DrawerInv'
<1>1. /\ r \in Command /\ Good(q) /\ TailReqs(q) /\ sent' = q
      /\ refreshing' = FALSE /\ UNCHANGED log
      /\ r.status = "done" => r.reply \in SUBSET Agent
  BY DEF Returned, Besides, Command, Fits, AnswerAgents, DrawerInv
<1>2. CASE r.status = "done" /\ selected # NoAgent /\ Retained(r.reply) = NoAgent
  <2>1. /\ agents' = r.reply /\ selected' = NoAgent /\ modal' = FALSE
        /\ generation' = generation + 1 /\ nextByte' = 0 /\ lines' = <<>>
    BY <1>2 DEF AnswerAgents
  <2>2. TailReqs(sent)'
    BY <1>1, <2>1, TailReqsForgotten DEF DrawerInv
  <2>3. DrawerTypeOK'
    <3>1. generation' \in Nat /\ nextByte' \in Nat /\ agents' \subseteq Agent
      BY <1>1, <1>2, <2>1 DEF DrawerInv, DrawerTypeOK
    <3> QED
      BY <1>1, <2>1, <3>1, Zenon DEF DrawerInv, DrawerTypeOK
  <2>4. WindowOK'
    <3>1. Run(<<>>, NoAgent, 0) /\ Len(<<>>) <= LineCap
      BY EmptyRun, SubagentsAssumption
    <3> QED
      BY <2>1, <3>1 DEF WindowOK, Run
  <2> QED
    BY <1>1, <2>2, <2>3, <2>4 DEF DrawerInv
<1>3. CASE ~(r.status = "done" /\ selected # NoAgent /\ Retained(r.reply) = NoAgent)
  <2>1. UNCHANGED <<selected, modal, generation, nextByte, lines>>
    BY <1>3 DEF AnswerAgents, Retained
  <2>2. agents' \subseteq Agent
    BY <1>1 DEF AnswerAgents, DrawerInv, DrawerTypeOK
  <2>3. TailReqs(sent)'
    BY <1>1, <2>1, TailReqsKept
  <2>4. DrawerTypeOK' /\ WindowOK'
    BY <1>1, <2>1, <2>2 DEF DrawerInv, DrawerTypeOK, WindowOK, Run
  <2> QED
    BY <1>1, <2>3, <2>4 DEF DrawerInv
<1> QED
  BY <1>2, <1>3

\* A page has come: the one the window waits for reads on from where it is.
LEMMA DrawerRead ==
  ASSUME LinkInv, DrawerInv, NEW r, NEW q, Returned(r, q), r.what = "messages", AnswerMessages(r, q)
  PROVE  DrawerInv'
<1>1. /\ r \in Command /\ Good(q) /\ TailReqs(q) /\ sent' = q
      /\ UNCHANGED <<agents, refreshing, selected, modal, generation, log>>
      /\ AskedFor(sent, "agents") => AskedFor(sent', "agents")
  BY DEF Returned, Besides, AnswerMessages, DrawerInv, Asks, AgentAsks
<1>2. CASE ~(StillWanted(r) /\ r.status = "done")
  <2>1. UNCHANGED <<nextByte, lines>>
    BY <1>2 DEF AnswerMessages
  <2>2. TailReqs(sent)'
    BY <1>1, <2>1, TailReqsKept
  <2>3. DrawerTypeOK' /\ WindowOK'
    BY <1>1, <2>1 DEF DrawerInv, DrawerTypeOK, WindowOK, Run
  <2> QED
    BY <1>1, <2>2, <2>3 DEF DrawerInv, AskedFor
<1>3. CASE StillWanted(r) /\ r.status = "done"
  <2> DEFINE p == r.reply
             base == IF p.reset THEN <<>> ELSE lines
             s == base \o Page(r.key, p.from, p.next)
  <2>1. nextByte' = p.next /\ lines' = Capped(s)
    BY <1>3 DEF AnswerMessages, ApplyPage
  <2>2. /\ MessageOK(r) /\ PageOK(r) /\ r.val = nextByte
        /\ \A c \in Conn : \A i \in 1..Len(q[c]) : q[c][i].what = "messages" => q[c][i].was # r.was
    BY <1>3 DEF Returned, DrawerInv, MessageOK
  <2>3. r.key \in Agent /\ r.key = selected /\ generation = r.was /\ p \in PageReply
    BY <1>1, <1>3 DEF Command, Fits, StillWanted
  <2>4. /\ p.from \in Nat /\ p.next \in Nat /\ p.from <= p.next /\ p.next <= log[selected]
        /\ p.from = IF p.reset THEN 0 ELSE nextByte
    BY <2>2, <2>3 DEF PageOK, PageReply
  <2> HIDE DEF p
  <2>5. Run(base, selected, p.from)
    BY <2>4, EmptyRun DEF DrawerInv, WindowOK
  <2> HIDE DEF base
  <2>6. Run(s, selected, p.next)
    BY <2>3, <2>4, <2>5, RunOn
  <2> HIDE DEF s
  <2>7. WindowOK'
    <3>1. Run(Capped(s), selected, p.next) /\ Len(Capped(s)) <= LineCap
      BY <2>4, <2>6, RunCapped
    <3> QED
      BY <1>1, <2>1, <2>3, <2>4, <3>1, SubagentsAssumption DEF WindowOK, Run
  <2>8. DrawerTypeOK'
    BY <1>1, <2>1, <2>4 DEF DrawerInv, DrawerTypeOK
  <2>9. OneEach(sent)'
    BY <1>1 DEF TailReqs, OneEach
  <2>10. ASSUME NEW c \in Conn, NEW i \in 1..Len(sent'[c]) PROVE MessageOK(sent[c][i])'
    <3>1. MessageOK(q[c][i]) /\ (q[c][i].what = "messages" => q[c][i].was # generation)
      BY <1>1, <2>2, <2>3, <2>10 DEF TailReqs
    <3> QED
      BY <1>1, <3>1 DEF MessageOK, StillWanted, PageOK
  <2>11. TailReqs(sent)'
    BY <2>9, <2>10 DEF TailReqs
  <2> QED
    BY <1>1, <2>7, <2>8, <2>11 DEF DrawerInv, AskedFor
<1> QED
  BY <1>2, <1>3

LEMMA DrawerAnswered ==
  ASSUME LinkInv, DrawerInv, NEW r, NEW q, Returned(r, q), r.what \in AgentAsks, AnswerSubagents(r, q)
  PROVE  DrawerInv' /\ Besides(sent, sent', r.what)
<1>1. \/ r.what = "agents" /\ AnswerAgents(r, q)
      \/ r.what = "messages" /\ AnswerMessages(r, q)
  BY DEF AnswerSubagents, AgentAsks
<1>2. sent' = q /\ Besides(sent, q, r.what)
  BY <1>1 DEF AnswerAgents, AnswerMessages, Returned
<1> QED
  BY <1>1, <1>2, DrawerListed, DrawerRead

\* The view is another session's.
LEMMA DrawerCleared ==
  ASSUME LinkInv, DrawerInv, ClearDrawer, UNCHANGED sent PROVE DrawerInv'
<1>1. /\ agents' = {} /\ refreshing' = FALSE /\ selected' = NoAgent /\ modal' = FALSE
      /\ generation' = generation + 1 /\ nextByte' = 0 /\ lines' = <<>> /\ UNCHANGED log
  BY DEF ClearDrawer
<1>2. TailReqs(sent)'
  BY <1>1, TailReqsForgotten DEF DrawerInv, LinkInv
<1>3. DrawerTypeOK'
  <2>1. generation' \in Nat /\ nextByte' \in Nat
    BY <1>1 DEF DrawerInv, DrawerTypeOK
  <2> QED
    BY <1>1, <2>1, Zenon DEF DrawerInv, DrawerTypeOK
<1>4. WindowOK'
  <2>1. Run(<<>>, NoAgent, 0) /\ Len(<<>>) <= LineCap
    BY EmptyRun, SubagentsAssumption
  <2> QED
    BY <1>1, <2>1 DEF WindowOK, Run
<1> QED
  BY <1>1, <1>2, <1>3, <1>4 DEF DrawerInv

-----------------------------------------------------------------------------
(* The commands.                                                             *)

LEMMA CommandIsCommand ==
  ASSUME NEW what \in CommandAsks, NEW key \in Path \cup {NoPath}, NEW val \in Val, NEW was \in Val,
         what = "subscribe" => val \in Subscription
  PROVE  LET r == Request(what, key, val, was)
         IN r \in Command /\ r.status = "queued" /\ r.what = what
<1>1. /\ <<>> \in Replied /\ key \in Key /\ what \in Asks /\ "queued" \in Status
      /\ what \notin {"set", "state", "cycle", "agents", "messages"}
  BY CommandsAssumption DEF Replied, Key, Asks, CommandAsks, Status
<1> QED
  BY <1>1 DEF Request, Command, Fits

LEMMA CommandMoved ==
  ASSUME LinkInv, CommandsTypeOK, CommandMove PROVE CommandsTypeOK' /\ Onward(sent, sent')
<1>0. Good(sent) /\ Onward(sent, sent) /\ (client # NoConn => client \in Conn)
  BY DEF LinkInv, LinkTypeOK, Onward, Elsewhere
<1>1. ASSUME NEW what \in CommandAsks, NEW key \in Path \cup {NoPath}, NEW val \in Val, NEW was \in Val,
             what = "subscribe" => val \in Subscription,
             client # NoConn, Room(sent), sent' = With(sent, Request(what, key, val, was))
      PROVE  Onward(sent, sent')
  <2> DEFINE r == Request(what, key, val, was)
  <2>1. r \in Command /\ r.status = "queued" /\ r.what = what
    BY <1>1, CommandIsCommand
  <2>2. r.what # "messages"
    BY <2>1, CommandsAssumption DEF CommandAsks
  <2> HIDE DEF r
  <2>3. Onward(sent, With(sent, r))
    BY <1>0, <1>1, <2>1, <2>2, WithOnward
  <2> QED
    BY <1>1, <2>3 DEF r
<1>2. NoPath \in Path \cup {NoPath} /\ 0 \in Val
  BY DEF Val
<1>3. ASSUME NEW what \in OneShot, Sends(what) PROVE CommandsTypeOK' /\ Onward(sent, sent')
  <2>1. what \in CommandAsks /\ what # "subscribe"
    BY CommandsAssumption DEF CommandAsks
  <2>2. Onward(sent, sent')
    BY <1>1, <1>2, <1>3, <2>1 DEF Sends
  <2>3. UNCHANGED commandVars
    BY <1>3 DEF Sends
  <2> QED
    BY <2>2, <2>3 DEF CommandsTypeOK, commandVars
<1>4. CASE AskOneShot \/ AskFresh
  BY <1>3, <1>4, CommandsAssumption DEF AskOneShot, AskFresh
<1>5. CASE RequestFileRevert \/ CancelPendingRevert
  <2>1. card' \in Path \cup {NoPath} /\ UNCHANGED <<sent, level, levels, misled>>
    BY <1>5 DEF RequestFileRevert, CancelPendingRevert
  <2> QED
    BY <1>0, <2>1 DEF CommandsTypeOK
<1>6. CASE ConfirmPendingRevert
  <2>1. card' = NoPath /\ UNCHANGED <<level, levels, misled>> /\ Room(sent)
        /\ sent' = Ask(sent, Request("revert", card, 0, 0)) /\ card \in Path \cup {NoPath}
    BY <1>6 DEF ConfirmPendingRevert, CommandsTypeOK
  <2>2. "revert" \in CommandAsks
    BY DEF CommandAsks
  <2>3. Onward(sent, sent')
    BY <1>0, <1>1, <1>2, <2>1, <2>2 DEF Ask
  <2> QED
    BY <2>1, <2>3 DEF CommandsTypeOK
<1>7. CASE CycleSubscription
  <2>1. /\ client # NoConn /\ Room(sent) /\ UNCHANGED commandVars
        /\ sent' = With(sent, Request("subscribe", NoPath, NextLevel[level], level))
    BY <1>7 DEF CycleSubscription
  <2>2. level \in Subscription /\ NextLevel[level] \in Subscription
    BY DEF CommandsTypeOK, Subscription, NextLevel
  <2>3. "subscribe" \in CommandAsks /\ level \in Val /\ NextLevel[level] \in Val
    BY <2>2 DEF CommandAsks, Val
  <2>4. Onward(sent, sent')
    BY <1>1, <1>2, <2>1, <2>2, <2>3
  <2> QED
    BY <2>1, <2>4 DEF CommandsTypeOK, commandVars
<1> QED
  BY <1>4, <1>5, <1>6, <1>7 DEF CommandMove

LEMMA CommandCarriedOut ==
  ASSUME LinkInv, CommandsTypeOK, NEW c \in running, OmpTakesCommand(c)
  PROVE  CommandsTypeOK' /\ Onward(sent, sent')
<1> DEFINE r == NextToTake(c)[1]
<1>1. /\ c \in Conn /\ Good(sent) /\ r.what \in CommandAsks
      /\ UNCHANGED <<card, level, misled>>
  BY DEF OmpTakesCommand, LinkInv
<1>2. \/ Take(c, "refused", <<>>) /\ UNCHANGED levels
      \/ /\ Take(c, "done", <<>>)
         /\ levels' = IF r.what = "subscribe" THEN [levels EXCEPT ![c] = r.val] ELSE levels
  BY DEF OmpTakesCommand
<1>3. r \in Command
  BY <1>1, <1>2, TakeIsOfCommand
<1> HIDE DEF r
<1>4. r.what \notin {"set", "state", "cycle", "agents", "messages"}
  BY <1>1, CommandsAssumption DEF CommandAsks
<1>5. Answerable(r, <<>>) /\ <<>> \in Replied
  BY <1>4, ReplyIs DEF Answerable
<1>6. Onward(sent, sent')
  <2>1. CASE Take(c, "refused", <<>>)
    BY <1>1, <1>4, <1>5, <2>1, TakeOnward DEF r
  <2>2. CASE Take(c, "done", <<>>)
    BY <1>1, <1>4, <1>5, <2>2, TakeOnward DEF r
  <2> QED
    BY <1>2, <2>1, <2>2
<1>7. levels' \in [Conn -> Subscription]
  <2>1. r.what = "subscribe" => r.val \in Subscription
    BY <1>3 DEF Command, Fits
  <2> QED
    BY <1>1, <1>2, <2>1 DEF CommandsTypeOK
<1> QED
  BY <1>1, <1>6, <1>7 DEF CommandsTypeOK

LEMMA CommandAnswered ==
  ASSUME CommandsTypeOK, NEW c, NEW r, NEW q, Returned(r, q), r.what \in CommandAsks,
         AnswerCommand(c, r, q)
  PROVE  CommandsTypeOK' /\ Besides(sent, sent', r.what)
<1>1. sent' = q /\ Besides(sent, q, r.what) /\ UNCHANGED <<card, levels>>
  BY DEF AnswerCommand, Returned
<1>2. level' \in Subscription
  BY DEF AnswerCommand, Returned, Command, Fits, CommandsTypeOK
<1>3. misled' \in BOOLEAN
  BY DEF AnswerCommand, CommandsTypeOK
<1> QED
  BY <1>1, <1>2, <1>3 DEF CommandsTypeOK

LEMMA CommandsAttached ==
  ASSUME CommandsTypeOK, NEW c \in Conn, CommandsAttach(c) PROVE CommandsTypeOK'
<1>1. PICK at \in Subscription : levels' = [levels EXCEPT ![c] = at] /\ misled' = (at # "events")
  BY DEF CommandsAttach
<1>2. level' = "events" /\ UNCHANGED card /\ misled' \in BOOLEAN
  BY <1>1 DEF CommandsAttach
<1> QED
  BY <1>1, <1>2 DEF CommandsTypeOK, Subscription

-----------------------------------------------------------------------------
(* All that uses the pipe.                                                   *)

PipeInv == LinkInv /\ SettingInv /\ DrawerInv /\ CommandsTypeOK

LEMMA PipeInitially == Init => PipeInv
<1> SUFFICES ASSUME Init PROVE PipeInv
  OBVIOUS
<1> USE DEF Init
<1>1. LinkInv
  <2>1. sent = [c \in Conn |-> <<>>] /\ client = NoConn /\ phase = "idle" /\ running = {} /\ begun = 0
    BY DEF RequestsInit, LinkInit
  <2>2. sent \in Queues /\ \A c \in Conn : sent[c] = <<>>
    BY <2>1 DEF Queues
  <2>3. Good(sent)
    BY <2>2, RequestsAssumption DEF Good, Shaped
  <2> QED
    BY <2>1, <2>3 DEF LinkInv, LinkTypeOK, InOrder
<1>2. SettingInv
  <2>1. /\ inFlight = FALSE /\ queued = FALSE /\ timer = FALSE /\ informed = FALSE /\ doubtful = {}
        /\ notified = {} /\ shown = [s \in Setting |-> 0]
        /\ omp = [c \in Conn |-> [s \in Setting |-> 0]]
    BY DEF SettingsInit
  <2>2. shown \in [Setting -> Value] /\ omp \in [Conn -> [Setting -> Value]]
    BY <2>1, SettingsAssumption
  <2> QED
    BY <2>1, <2>2 DEF SettingInv, SettingsTypeOK
<1>3. DrawerInv
  <2>1. /\ agents = {} /\ refreshing = FALSE /\ selected = NoAgent /\ modal = FALSE
        /\ generation = 0 /\ nextByte = 0 /\ lines = <<>> /\ log = [a \in Agent |-> 0]
        /\ \A c \in Conn : sent[c] = <<>>
    BY DEF SubagentsInit, RequestsInit
  <2>2. DrawerTypeOK
    <3>1. log \in [Agent -> 0..MaxPage] /\ generation \in Nat /\ nextByte \in Nat
      BY <2>1, SubagentsAssumption
    <3> QED
      BY <2>1, <3>1, Zenon DEF DrawerTypeOK
  <2>3. TailReqs(sent)
    BY <2>1 DEF TailReqs, OneEach
  <2>4. Run(<<>>, NoAgent, 0) /\ Len(<<>>) <= LineCap
    BY EmptyRun, SubagentsAssumption
  <2>5. WindowOK
    BY <2>1, <2>4 DEF WindowOK
  <2> QED
    BY <2>1, <2>2, <2>3, <2>5 DEF DrawerInv
<1>4. CommandsTypeOK
  BY DEF CommandsInit, CommandsTypeOK, Subscription
<1> QED
  BY <1>1, <1>2, <1>3, <1>4 DEF PipeInv

LEMMA PipeInductive == PipeInv /\ [Next]_vars => PipeInv'
<1> SUFFICES ASSUME PipeInv, [Next]_vars PROVE PipeInv'
  OBVIOUS
<1> USE DEF PipeInv
\* What is left alone by the moves of another part.
<1>1. ASSUME UNCHANGED commandVars PROVE CommandsTypeOK'
  BY <1>1 DEF CommandsTypeOK, commandVars
<1>2. ASSUME UNCHANGED settingVars, NEW gone, gone # "state", Besides(sent, sent', gone)
      PROVE  SettingInv'
  <2>1. AskedFor(sent, "state") => AskedFor(sent', "state")
    BY <1>2 DEF Besides, Asks, SettingAsks
  <2> QED
    BY <1>2, <2>1, SettingKept
<1>3. Good(sent) /\ Onward(sent, sent)
  BY DEF LinkInv, Onward, Elsewhere
<1>4. ASSUME UNCHANGED <<sent, settingVars>> PROVE SettingInv'
  BY <1>4, SettingKept
<1>5. ASSUME UNCHANGED <<sent, agentVars>> PROVE DrawerInv'
  BY <1>3, <1>5, DrawerKept, OnwardIsBesides
<1>6. CASE SettingMove
  <2>1. LinkInv' /\ SettingInv' /\ Besides(sent, sent', "state")
    BY <1>6, SettingMoved, OnwardIsBesides
  <2> QED
    BY <1>1, <1>6, <2>1, DrawerKept DEF SettingMove
<1>7. CASE DrawerMove
  <2>1. /\ DrawerInv' /\ Good(sent') /\ Elsewhere(sent, sent')
        /\ \A what \in Asks : AskedFor(sent, what) => AskedFor(sent', what)
    BY <1>7, DrawerMoved
  <2>2. AskedFor(sent, "state") => AskedFor(sent', "state")
    BY <2>1 DEF Asks, SettingAsks
  <2> QED
    BY <1>1, <1>7, <2>1, <2>2, SettingKept, LinkKept DEF DrawerMove
<1>8. CASE CommandMove
  <2>1. CommandsTypeOK' /\ Onward(sent, sent')
    BY <1>8, CommandMoved
  <2>2. Besides(sent, sent', "revert")
    BY <2>1, OnwardIsBesides
  <2> QED
    BY <1>2, <1>8, <2>1, <2>2, DrawerKept, LinkKept DEF CommandMove, Besides
<1>9. CASE ListMove \/ Painted
  <2>1. UNCHANGED <<linkVars, requestVars, settingVars, agentVars, commandVars>>
    BY <1>9 DEF ListMove, Painted
  <2> QED
    BY <1>1, <1>3, <1>4, <1>5, <2>1, LinkKept DEF requestVars, Elsewhere
<1>10. CASE Turn
  <2>1. /\ client' = client /\ phase' \in {"idle", "streaming"} /\ UNCHANGED requestVars
        /\ timer' \in BOOLEAN
        /\ UNCHANGED <<shown, inFlight, queued, omp, notified, informed, doubtful>>
        /\ UNCHANGED <<agentVars, commandVars>>
    BY <1>10 DEF Turn, LinkTurn, SyncTimer
  <2>2. LinkInv'
    BY <2>1 DEF LinkInv, LinkTypeOK, InOrder, requestVars, Good, Shaped
  <2>3. SettingInv'
    BY <2>1, SettingAfter DEF SettingInv, SettingsTypeOK, requestVars
  <2> QED
    BY <1>1, <1>5, <2>1, <2>2, <2>3 DEF requestVars
<1>11. CASE Leave \/ Lose
  <2>1. /\ client' = NoConn /\ phase' \in {"idle", "streaming", "restarting", "dead"}
        /\ UNCHANGED <<requestVars, commandVars>>
    BY <1>11 DEF Leave, Lose, LinkLeave, LinkLost, LinkRecycle
  <2>2. LinkInv'
    BY <2>1 DEF LinkInv, LinkTypeOK, InOrder, requestVars, Good, Shaped
  <2>3. SettingInv'
    BY <1>11, SettingLost DEF Leave, Lose
  <2>4. DrawerInv'
    BY <1>5, <1>11, <2>1, DrawerCleared DEF Leave, Lose, requestVars
  <2> QED
    BY <1>1, <2>1, <2>2, <2>3, <2>4
<1>12. CASE Connect
  <2>1. PICK c \in Conn : /\ client' = c /\ phase' = "idle" /\ begun' = c /\ running' = running \cup {c}
                          /\ SettingsAttach(c) /\ CommandsAttach(c) /\ UNCHANGED <<sent, agentVars>>
                          /\ c = begun + 1
    BY <1>12 DEF Connect, LinkAttach
  <2>2. LinkInv'
    <3>1. \A d \in Conn : d > c => d > begun
      BY <2>1, RequestsAssumption DEF LinkInv
    <3>2. InOrder'
      BY <2>1, <3>1 DEF LinkInv, InOrder
    <3> QED
      BY <2>1, <3>2 DEF LinkInv, LinkTypeOK, Good, Shaped
  <2> QED
    BY <1>5, <2>1, <2>2, SettingAttached, CommandsAttached
<1>13. CASE \E c \in Conn : Exit(c)
  <2>1. PICK c \in Conn : Exit(c)
    BY <1>13
  <2>2. /\ ChildGone(c) /\ running' \subseteq running
        /\ UNCHANGED <<linkVars, begun, settingVars, agentVars, commandVars>>
    BY <2>1 DEF Exit, ChildGone
  <2>3. Onward(sent, sent')
    BY <1>3, <2>2, GoneOnward
  <2>4. Besides(sent, sent', "revert")
    BY <2>3, OnwardIsBesides
  <2>5. LinkInv'
    <3>1. InOrder'
      <4>1. \A d \in Conn : d > begun => d # client
        BY RequestsAssumption DEF LinkInv, LinkTypeOK, InOrder
      <4> QED
        BY <2>2, <2>3, <4>1 DEF LinkInv, InOrder, linkVars, Onward, Elsewhere
    <3> QED
      BY <2>2, <2>3, <3>1 DEF LinkInv, LinkTypeOK, linkVars, Onward, Good, Shaped
  <2> QED
    BY <1>1, <1>2, <2>2, <2>4, <2>5, DrawerKept
\* An answer, or a task that waited too long.
<1>14. ASSUME NEW c \in Conn, NEW r, NEW q, Returned(r, q), Resume(c, r, q),
              UNCHANGED <<linkVars, running, begun>>
       PROVE  PipeInv'
  <2>1. CASE r.what \in SettingAsks /\ AnswerSetting(c, r, q) /\ UNCHANGED <<agentVars, commandVars>>
    <3>1. LinkInv' /\ SettingInv' /\ Besides(sent, sent', r.what) /\ r.what # "agents"
      BY <1>14, <2>1, SettingAnswered DEF SettingAsks
    <3> QED
      BY <1>1, <2>1, <3>1, DrawerKept
  <2>2. CASE r.what \in AgentAsks /\ AnswerSubagents(r, q) /\ UNCHANGED <<settingVars, commandVars>>
    <3>1. DrawerInv' /\ Besides(sent, sent', r.what) /\ r.what # "state"
      BY <1>14, <2>2, DrawerAnswered DEF AgentAsks
    <3> QED
      BY <1>1, <1>2, <1>14, <2>2, <3>1, LinkKept DEF Besides
  <2>3. CASE r.what \in CommandAsks /\ AnswerCommand(c, r, q) /\ UNCHANGED <<settingVars, agentVars>>
    <3>1. CommandsTypeOK' /\ Besides(sent, sent', r.what) /\ r.what \notin {"state", "agents"}
      BY <1>14, <2>3, CommandAnswered, CommandsAssumption DEF CommandAsks
    <3> QED
      BY <1>2, <1>14, <2>3, <3>1, DrawerKept, LinkKept DEF Besides
  <2> QED
    BY <1>14, <2>1, <2>2, <2>3 DEF Resume
<1>15. CASE \E c \in Conn : TimeOut(c) /\ UNCHANGED <<linkVars, running, begun>>
  <2>1. PICK c \in Conn : TimeOut(c) /\ UNCHANGED <<linkVars, running, begun>>
    BY <1>15
  <2>2. PICK i \in 1..MaxSent : Expirable(c, i) /\ Resume(c, Expire(c, i)[c][i], Expire(c, i))
    BY <2>1 DEF TimeOut
  <2>3. Returned(Expire(c, i)[c][i], Expire(c, i))
    BY <1>3, <2>2, ExpireReturns
  <2> QED
    BY <1>14, <2>1, <2>2, <2>3
<1>16. CASE Work
  <2>1. UNCHANGED <<linkVars, running, begun>>
    BY <1>16 DEF Work
  <2>2. CASE PumpRefreshes /\ UNCHANGED <<agentVars, commandVars>>
    <3>1. LinkInv' /\ SettingInv' /\ Besides(sent, sent', "state")
      BY <2>1, <2>2, PumpRefreshed, OnwardIsBesides
    <3> QED
      BY <1>1, <2>2, <3>1, DrawerKept
  <2>3. CASE \E c \in running : OmpTakesSetting(c) /\ UNCHANGED <<agentVars, commandVars>>
    <3>1. LinkInv' /\ SettingInv' /\ Besides(sent, sent', "state")
      BY <2>1, <2>3, SettingTaken, OnwardIsBesides
    <3> QED
      BY <1>1, <2>3, <3>1, DrawerKept
  <2>4. CASE \E c \in running : OmpTakesSubagents(c) /\ UNCHANGED <<settingVars, commandVars>>
    <3>1. DrawerInv' /\ Besides(sent, sent', "agents")
      BY <2>1, <2>4, DrawerTaken, OnwardIsBesides
    <3> QED
      BY <1>1, <1>2, <2>1, <2>4, <3>1, LinkKept DEF Besides
  <2>5. CASE \E c \in running : OmpTakesCommand(c) /\ UNCHANGED <<settingVars, agentVars>>
    <3>1. CommandsTypeOK' /\ Besides(sent, sent', "revert")
      BY <2>5, CommandCarriedOut, OnwardIsBesides
    <3> QED
      BY <1>2, <2>1, <2>5, <3>1, DrawerKept, LinkKept DEF Besides
  <2>6. CASE \E c \in Conn : Answer(c)
    <3>1. PICK c \in Conn : Answered(c) /\ Resume(c, Head(sent[c]), Consume(c))
      BY <2>6 DEF Answer
    <3> QED
      BY <1>3, <1>14, <2>1, <3>1, ConsumeReturns
  <2> QED
    BY <1>16, <2>2, <2>3, <2>4, <2>5, <2>6 DEF Work
<1>17. CASE UNCHANGED vars
  <2>1. UNCHANGED <<linkVars, requestVars, settingVars, agentVars, commandVars>>
    BY <1>17 DEF vars
  <2> QED
    BY <1>1, <1>3, <1>4, <1>5, <2>1, LinkKept DEF requestVars, Elsewhere
<1> QED
  BY <1>6, <1>7, <1>8, <1>9, <1>10, <1>11, <1>12, <1>13, <1>15, <1>16, <1>17
     DEF Next, Event, Consequence

LEMMA PipeInvAlways == Spec => []PipeInv
  BY PipeInitially, PipeInductive, PTL DEF Spec

\* refresh_state and refresh_subagents hold back while a request is in flight: one
\* is, and its task will come back to take the flag down.
THEOREM FlagsHaveRequestsAlways == Spec => []FlagsHaveRequests
<1>1. PipeInv => FlagsHaveRequests
  BY WaitingIsAskedFor DEF PipeInv, SettingInv, DrawerInv, FlagsHaveRequests
<1> QED
  BY <1>1, PipeInvAlways, PTL

\* However often the window was closed, reopened and turned to another agent while
\* pages were on their way, it shows one run of its own agent's messages:
\* fetch_subagent_messages and apply_subagent_message_page.
THEOREM TailUnbrokenAlways == Spec => []TailUnbroken
<1>1. PipeInv => TailUnbroken
  BY DEF PipeInv, DrawerInv, WindowOK, Run, TailUnbroken
<1> QED
  BY <1>1, PipeInvAlways, PTL

MovesInv == moves \in 0..MaxMoves

LEMMA MovesInvAlways == Spec => []MovesInv
<1>1. Init => MovesInv
  BY PanelsAssumption DEF Init, MovesInv
<1>2. MovesInv /\ [Next]_vars => MovesInv'
  BY PanelsAssumption DEF Next, Within, Consequence, vars, MovesInv
<1> QED
  BY <1>1, <1>2, PTL DEF Spec

\* Every variable stays in its type: the pipe, the status line, the drawer, the
\* commands and the list.
THEOREM PanelsTypeCorrect == Spec => []TypeOK
<1>1. PipeInv => RequestsTypeOK
  <2> SUFFICES ASSUME LinkInv PROVE RequestsTypeOK
    BY DEF PipeInv
  <2>1. DOMAIN sent = Conn
    BY DEF LinkInv, Good, Queues
  <2>2. ASSUME NEW c \in Conn
        PROVE  Len(sent[c]) <= MaxSent /\ \A i \in 1..Len(sent[c]) : sent[c][i].status \in Status
    <3>1. sent[c] \in Seq(Command) /\ Len(sent[c]) <= MaxSent
      BY DEF LinkInv, Good, Queues
    <3> QED
      BY <3>1 DEF Command
  <2> QED
    BY <2>1, <2>2 DEF LinkInv, RequestsTypeOK
<1>2. PipeInv => SubagentsTypeOK
  <2> SUFFICES ASSUME DrawerTypeOK, WindowOK PROVE SubagentsTypeOK
    BY DEF PipeInv, DrawerInv
  <2>1. nextByte \in 0..MaxPage
    <3>1. selected # NoAgent => log[selected] \in 0..MaxPage
      BY DEF DrawerTypeOK
    <3> QED
      BY <3>1, SubagentsAssumption DEF DrawerTypeOK, WindowOK
  <2>2. ASSUME NEW i \in 1..Len(lines) PROVE lines[i] \in Agent \X (1..MaxPage)
    <3>1. Len(lines) \in Nat /\ Len(lines) <= nextByte /\ lines[i] = <<selected, nextByte - Len(lines) + i>>
      BY DEF WindowOK, Run
    <3>2. nextByte - Len(lines) + i \in 1..MaxPage
      BY <2>1, <3>1, SubagentsAssumption
    <3>3. selected # NoAgent
      BY <2>1, <3>1 DEF WindowOK
    <3> QED
      BY <3>1, <3>2, <3>3 DEF DrawerTypeOK
  <2> QED
    BY <2>1, <2>2 DEF DrawerTypeOK, WindowOK, SubagentsTypeOK
<1>3. ListInv => ListTypeOK
  <2> SUFFICES ASSUME CountInv, ClockInv PROVE ListTypeOK
    BY DEF ListInv
  <2>1. {rows, items, sighted} \subseteq 0..MaxRows
    BY TranscriptListAssumption DEF CountInv
  <2>2. unread \in 0..MaxRows
    BY TranscriptListAssumption DEF CountInv, UnreadAreBelow
  <2> QED
    BY <2>1, <2>2 DEF CountInv, ClockInv, ListTypeOK
<1>4. PipeInv /\ ListInv /\ MovesInv => TypeOK
  BY <1>1, <1>2, <1>3 DEF PipeInv, SettingInv, MovesInv, TypeOK
<1> QED
  BY <1>4, PipeInvAlways, ListInvAlways, MovesInvAlways, PTL

-----------------------------------------------------------------------------
(* What is shown is what omp has, once nothing is on its way.                *)

\* An answer of r will have the view look at s: a get_state, or a change of s.
Changes(r, s) == r.what \in {"set", "cycle"} /\ r.key = s
Talks(r, s) == r.what = "state" \/ Changes(r, s)
Speaks(r, s) == r.status # "expired" /\ Talks(r, s)

\* An answer that brings what omp has of s, as far as this child has come.
Carries(r, s) ==
  /\ r.status = "done"
  /\ r.what = "state" \/ (r.what = "set" /\ r.key = s /\ s = Model)
Carried(r, s) == IF r.what = "state" THEN r.reply[s] ELSE r.reply

\* The last of a pipe to speak of s.
LastOf(Q, s, i) == Speaks(Q[i], s) /\ \A j \in 1..Len(Q) : j > i => ~Speaks(Q[j], s)
Silent(Q, s) == \A j \in 1..Len(Q) : ~Speaks(Q[j], s)
Asked(Q) == \E j \in 1..Len(Q) : Q[j].what = "state" /\ Q[j].status = "queued"
Overdue(Q, s) == \E j \in 1..Len(Q) : Q[j].status = "expired" /\ Changes(Q[j], s)

\* Of the pipe Q to a child that has o: the last answer of s brings what omp has;
\* without one it is shown; and what expired will be asked for again.  coming says
\* that one more get_state will be sent whatever comes.
ShowsRight(Q, o, sh, inf, dou, coming) ==
  /\ ~coming => \A s \in Setting : \A i \in 1..Len(Q) :
       LastOf(Q, s, i) /\ Carries(Q[i], s) => Carried(Q[i], s) = o[s]
  /\ inf /\ ~coming => \A s \in Setting \ dou : Silent(Q, s) => sh[s] = o[s]
  /\ inf /\ ~coming /\ ~Asked(Q) => \A s \in Setting \ dou : ~Overdue(Q, s)

\* One more, one fewer, and another in the place of one.
Longer(Q, P, r) ==
  /\ Len(P) = Len(Q) + 1 /\ P[Len(Q) + 1] = r
  /\ \A i \in 1..Len(Q) : P[i] = Q[i]
Shorter(Q, P) ==
  /\ Q # <<>> /\ Len(P) = Len(Q) - 1
  /\ \A i \in 1..Len(P) : P[i] = Q[i + 1]
Other(Q, P, i, b) ==
  /\ i \in 1..Len(Q) /\ Len(P) = Len(Q) /\ P[i] = b
  /\ \A j \in 1..Len(Q) : j # i => P[j] = Q[j]

\* After a refresh nothing more is to be said: the answer will tell.
LEMMA FreshIsRight ==
  ASSUME NEW P, NEW o, NEW sh, NEW inf, NEW dou, NEW coming,
         \/ coming
         \/ \E Q \in Seq(Command) : \E r \in Command :
              Longer(Q, P, r) /\ r.what = "state" /\ r.status = "queued"
  PROVE  ShowsRight(P, o, sh, inf, dou, coming)
<1>1. CASE coming
  BY <1>1 DEF ShowsRight
<1>2. CASE ~coming
  <2>1. PICK Q \in Seq(Command), r \in Command :
          Longer(Q, P, r) /\ r.what = "state" /\ r.status = "queued"
    BY <1>2
  <2> DEFINE n == Len(Q) + 1
  <2>2. n \in 1..Len(P) /\ P[n] = r /\ \A i \in 1..Len(P) : i # n => n > i
    BY <2>1 DEF Longer
  <2> HIDE DEF n
  <2>3. \A s : Speaks(P[n], s) /\ ~Carries(P[n], s)
    BY <2>1, <2>2 DEF Speaks, Talks, Carries
  <2>4. \A s : ~Silent(P, s)
    BY <2>2, <2>3 DEF Silent
  <2>5. Asked(P)
    BY <2>1, <2>2 DEF Asked
  <2>6. \A s : \A i \in 1..Len(P) : LastOf(P, s, i) => i = n
    BY <2>2, <2>3 DEF LastOf
  <2> QED
    BY <2>3, <2>4, <2>5, <2>6 DEF ShowsRight
<1> QED
  BY <1>1, <1>2

\* A command that is sent, and shown at once when it is a change.
LEMMA LongerIsRight ==
  ASSUME NEW Q \in Seq(Command), NEW P, NEW r \in Command, Longer(Q, P, r), r.status = "queued",
         NEW o, NEW sh, NEW inf, NEW dou, NEW coming, NEW sh2,
         ShowsRight(Q, o, sh, inf, dou, coming),
         \A s \in Setting \ dou : sh2[s] = sh[s] \/ Talks(r, s)
  PROVE  ShowsRight(P, o, sh2, inf, dou, coming)
<1> DEFINE n == Len(Q) + 1
<1>1. /\ Len(Q) \in Nat /\ n \in 1..Len(P) /\ P[n] = r /\ 1..Len(Q) \subseteq 1..Len(P)
      /\ \A i \in 1..Len(P) : i # n => i \in 1..Len(Q) /\ n > i /\ P[i] = Q[i]
      /\ \A i \in 1..Len(Q) : P[i] = Q[i]
  BY DEF Longer
<1> HIDE DEF n
<1>2. \A s : Talks(r, s) => Speaks(P[n], s) /\ ~Carries(P[n], s)
  BY <1>1 DEF Speaks, Carries
<1>3. ASSUME ~coming, NEW s \in Setting, NEW i \in 1..Len(P), LastOf(P, s, i), Carries(P[i], s)
      PROVE  Carried(P[i], s) = o[s]
  <2>1. i # n
    BY <1>1, <1>3 DEF Carries
  <2>2. i \in 1..Len(Q) /\ LastOf(Q, s, i) /\ P[i] = Q[i]
    BY <1>1, <1>3, <2>1 DEF LastOf
  <2> QED
    BY <1>3, <2>2 DEF ShowsRight
<1>4. ASSUME inf, ~coming, NEW s \in Setting \ dou, Silent(P, s) PROVE sh2[s] = o[s]
  <2>1. Silent(Q, s) /\ ~Talks(r, s)
    BY <1>1, <1>2, <1>4 DEF Silent
  <2> QED
    BY <1>4, <2>1 DEF ShowsRight
<1>5. ASSUME inf, ~coming, ~Asked(P), NEW s \in Setting \ dou, Overdue(P, s) PROVE FALSE
  <2>1. ~Asked(Q)
    BY <1>1, <1>5 DEF Asked
  <2>2. Overdue(Q, s)
    BY <1>1, <1>5 DEF Overdue
  <2> QED
    BY <1>5, <2>1, <2>2 DEF ShowsRight
<1> QED
  BY <1>3, <1>4, <1>5 DEF ShowsRight

\* The first has come back answered.
LEMMA ShorterIsRight ==
  ASSUME NEW Q \in Seq(Command), Shaped(Q), NEW P, Shorter(Q, P), Q[1].status \in {"done", "refused"},
         NEW o, NEW sh, NEW inf, NEW dou, NEW coming, NEW sh2, NEW inf2, NEW dou2,
         ShowsRight(Q, o, sh, inf, dou, coming),
         inf2 => \A s \in Setting \ dou2 :
           \/ inf /\ s \notin dou /\ sh2[s] = sh[s] /\ ~Talks(Q[1], s)
           \/ Carries(Q[1], s) /\ sh2[s] = Carried(Q[1], s)
  PROVE  ShowsRight(P, o, sh2, inf2, dou2, coming)
<1>1. /\ Len(Q) \in Nat /\ 1 \in 1..Len(Q) /\ Len(P) = Len(Q) - 1
      /\ \A i \in 1..Len(P) : i + 1 \in 1..Len(Q) /\ P[i] = Q[i + 1] /\ i + 1 > 1
  BY DEF Shorter
<1>2. ASSUME NEW i \in 1..Len(Q), i # 1 PROVE i - 1 \in 1..Len(P) /\ P[i - 1] = Q[i]
  <2>1. i - 1 \in 1..Len(P) /\ (i - 1) + 1 = i
    BY <1>1, <1>2
  <2> QED
    BY <1>1, <2>1
<1>3. ASSUME ~coming, NEW s \in Setting, NEW i \in 1..Len(P), LastOf(P, s, i), Carries(P[i], s)
      PROVE  Carried(P[i], s) = o[s]
  <2>1. ASSUME NEW j \in 1..Len(Q), j > i + 1 PROVE ~Speaks(Q[j], s)
    <3>1. j - 1 \in 1..Len(P) /\ P[j - 1] = Q[j] /\ j - 1 > i
      BY <1>1, <1>2, <2>1
    <3> QED
      BY <1>3, <3>1 DEF LastOf
  <2>2. LastOf(Q, s, i + 1) /\ i + 1 \in 1..Len(Q) /\ P[i] = Q[i + 1]
    BY <1>1, <1>3, <2>1 DEF LastOf
  <2> QED
    BY <1>3, <2>2 DEF ShowsRight
<1>4. ASSUME inf2, ~coming, NEW s \in Setting \ dou2, Silent(P, s) PROVE sh2[s] = o[s]
  <2>1. \A j \in 1..Len(Q) : j # 1 => ~Speaks(Q[j], s)
    BY <1>2, <1>4 DEF Silent
  <2>2. CASE inf /\ s \notin dou /\ sh2[s] = sh[s] /\ ~Talks(Q[1], s)
    <3>1. Silent(Q, s)
      BY <2>1, <2>2 DEF Silent, Speaks
    <3> QED
      BY <1>4, <2>2, <3>1 DEF ShowsRight
  <2>3. CASE Carries(Q[1], s) /\ sh2[s] = Carried(Q[1], s)
    <3>1. Speaks(Q[1], s)
      BY <2>3 DEF Carries, Speaks, Talks, Changes
    <3>2. LastOf(Q, s, 1)
      BY <1>1, <2>1, <3>1 DEF LastOf
    <3> QED
      BY <1>1, <1>4, <2>3, <3>2 DEF ShowsRight
  <2> QED
    BY <1>4, <2>2, <2>3
<1>5. ASSUME inf2, ~coming, ~Asked(P), NEW s \in Setting \ dou2, Overdue(P, s) PROVE FALSE
  <2>1. PICK j \in 1..Len(P) : P[j].status = "expired" /\ Changes(P[j], s)
    BY <1>5 DEF Overdue
  <2>2. j + 1 \in 1..Len(Q) /\ Q[j + 1].status = "expired" /\ Changes(Q[j + 1], s) /\ 1 < j + 1
    BY <1>1, <2>1
  <2> QED
    BY <1>1, <2>2 DEF Shaped
<1> QED
  BY <1>3, <1>4, <1>5 DEF ShowsRight

\* One has waited too long, and its task has come back without an answer.
LEMMA ExpiredIsRight ==
  ASSUME NEW Q \in Seq(Command), Shaped(Q), NEW P, NEW i, NEW b, Other(Q, P, i, b),
         b.status = "expired", b.what = Q[i].what, b.key = Q[i].key, Q[i].status = "queued",
         \A j \in 1..i - 1 : Q[j].status = "expired",
         NEW o, NEW sh, NEW inf, NEW dou, NEW coming, NEW sh2, NEW inf2, NEW dou2,
         ShowsRight(Q, o, sh, inf, dou, coming),
         inf2 => \A s \in Setting \ dou2 : inf /\ s \notin dou /\ sh2[s] = sh[s] /\ ~Talks(b, s)
  PROVE  ShowsRight(P, o, sh2, inf2, dou2, coming)
<1>1. /\ Len(Q) \in Nat /\ i \in 1..Len(Q) /\ Len(P) = Len(Q) /\ P[i] = b
      /\ \A j \in 1..Len(Q) : j # i => P[j] = Q[j]
  BY DEF Other
<1>2. \A s : Talks(b, s) <=> Talks(Q[i], s)
  BY DEF Talks, Changes
<1>3. \A j \in 1..Len(P) : P[j].status # "done"
  <2>1. SUFFICES ASSUME NEW j \in 1..Len(Q), j # i PROVE Q[j].status # "done"
    BY <1>1
  <2>2. CASE j < i
    <3>1. j \in 1..i - 1
      BY <1>1, <2>2
    <3> QED
      BY <3>1
  <2>3. CASE i < j
    BY <1>1, <2>3 DEF Shaped
  <2> QED
    BY <1>1, <2>1, <2>2, <2>3
<1>4. ASSUME inf2, ~coming, NEW s \in Setting \ dou2, Silent(P, s) PROVE sh2[s] = o[s]
  <2>1. Silent(Q, s)
    BY <1>1, <1>2, <1>4 DEF Silent, Speaks
  <2> QED
    BY <1>4, <2>1 DEF ShowsRight
<1>5. ASSUME inf2, ~coming, ~Asked(P), NEW s \in Setting \ dou2, Overdue(P, s) PROVE FALSE
  <2>1. ~Talks(b, s) /\ inf /\ s \notin dou
    BY <1>5
  <2>2. ~Asked(Q)
    <3>1. SUFFICES ASSUME NEW j \in 1..Len(Q), Q[j].what = "state", Q[j].status = "queued" PROVE FALSE
      BY DEF Asked
    <3>2. j # i
      BY <1>2, <2>1, <3>1 DEF Talks
    <3> QED
      BY <1>1, <1>5, <3>1, <3>2 DEF Asked
  <2>3. Overdue(Q, s)
    BY <1>1, <1>5, <2>1 DEF Overdue, Talks
  <2> QED
    BY <1>5, <2>1, <2>2, <2>3 DEF ShowsRight
<1> QED
  BY <1>3, <1>4, <1>5 DEF ShowsRight, Carries

\* omp takes the first, which had expired.
LEMMA DroppedIsRight ==
  ASSUME NEW Q \in Seq(Command), Shaped(Q), NEW P, Shorter(Q, P), Q[1].status = "expired",
         NEW o, NEW sh, NEW inf, NEW dou, NEW coming, NEW o2,
         ShowsRight(Q, o, sh, inf, dou, coming),
         \A s \in Setting : o2[s] = o[s] \/ Changes(Q[1], s)
  PROVE  ShowsRight(P, o2, sh, inf, dou, coming)
<1>1. /\ Len(Q) \in Nat /\ 1 \in 1..Len(Q) /\ Len(P) = Len(Q) - 1
      /\ \A i \in 1..Len(P) : i + 1 \in 1..Len(Q) /\ P[i] = Q[i + 1] /\ 1 < i + 1
  BY DEF Shorter
<1>2. ASSUME NEW i \in 1..Len(Q), i # 1 PROVE i - 1 \in 1..Len(P) /\ P[i - 1] = Q[i]
  <2>1. i - 1 \in 1..Len(P) /\ (i - 1) + 1 = i
    BY <1>1, <1>2
  <2> QED
    BY <1>1, <2>1
<1>3. \A j \in 1..Len(P) : P[j].status # "done"
  BY <1>1 DEF Shaped
<1>4. Asked(Q) => Asked(P)
  <2>1. SUFFICES ASSUME NEW j \in 1..Len(Q), Q[j].what = "state", Q[j].status = "queued" PROVE Asked(P)
    BY DEF Asked
  <2> QED
    BY <1>2, <2>1 DEF Asked
<1>5. ASSUME inf, ~coming, NEW s \in Setting \ dou, Silent(P, s) PROVE sh[s] = o2[s]
  <2>1. ~Asked(P)
    BY <1>5 DEF Asked, Silent, Speaks, Talks
  <2>2. ~Changes(Q[1], s)
    BY <1>1, <1>4, <1>5, <2>1 DEF ShowsRight, Overdue
  <2>3. Silent(Q, s)
    BY <1>2, <1>5 DEF Silent, Speaks
  <2> QED
    BY <1>5, <2>2, <2>3 DEF ShowsRight
<1>6. ASSUME inf, ~coming, ~Asked(P), NEW s \in Setting \ dou, Overdue(P, s) PROVE FALSE
  <2>1. Overdue(Q, s)
    BY <1>1, <1>6 DEF Overdue
  <2> QED
    BY <1>4, <1>6, <2>1 DEF ShowsRight
<1> QED
  BY <1>3, <1>5, <1>6 DEF ShowsRight, Carries

\* omp takes the first it has not answered.
LEMMA TakenIsRight ==
  ASSUME NEW Q \in Seq(Command), Shaped(Q), NEW P, NEW i, NEW b, Other(Q, P, i, b),
         b.status \in {"done", "refused"}, b.what = Q[i].what, b.key = Q[i].key, Q[i].status = "queued",
         \A j \in 1..i - 1 : Q[j].status \in {"done", "refused"},
         NEW o, NEW sh, NEW inf, NEW dou, NEW coming, NEW o2,
         ShowsRight(Q, o, sh, inf, dou, coming),
         \A s \in Setting : o2[s] = o[s] \/ (b.status = "done" /\ Changes(b, s)),
         \A s \in Setting : Carries(b, s) => Carried(b, s) = o2[s]
  PROVE  ShowsRight(P, o2, sh, inf, dou, coming)
<1>1. /\ Len(Q) \in Nat /\ i \in 1..Len(Q) /\ Len(P) = Len(Q) /\ P[i] = b
      /\ \A j \in 1..Len(Q) : j # i => P[j] = Q[j]
  BY DEF Other
<1>2. \A s : (Speaks(b, s) <=> Talks(b, s)) /\ (Speaks(Q[i], s) <=> Talks(b, s))
  BY DEF Speaks, Talks, Changes
<1>3. \A j \in 1..Len(Q) : \A s : Speaks(P[j], s) <=> Speaks(Q[j], s)
  BY <1>1, <1>2
<1>4. \A j \in 1..Len(P) : P[j].status # "expired" /\ (j > i => P[j].status # "done")
  <2>1. SUFFICES ASSUME NEW j \in 1..Len(Q), j # i
                 PROVE  Q[j].status # "expired" /\ (j > i => Q[j].status # "done")
    BY <1>1
  <2>2. CASE j < i
    <3>1. j \in 1..i - 1
      BY <1>1, <2>2
    <3> QED
      BY <1>1, <2>2, <3>1
  <2>3. CASE i < j
    BY <1>1, <2>3 DEF Shaped
  <2> QED
    BY <1>1, <2>1, <2>2, <2>3
<1>5. ASSUME ~coming, NEW s \in Setting, NEW j \in 1..Len(P), LastOf(P, s, j), Carries(P[j], s)
      PROVE  Carried(P[j], s) = o2[s]
  <2>1. CASE j = i
    BY <1>1, <1>5, <2>1
  <2>2. CASE j # i
    <3>1. LastOf(Q, s, j) /\ Carries(Q[j], s) /\ P[j] = Q[j]
      BY <1>1, <1>3, <1>5, <2>2 DEF LastOf
    <3>2. j < i
      BY <1>1, <1>4, <1>5, <2>2 DEF Carries
    <3>3. ~Changes(b, s)
      BY <1>1, <1>2, <3>1, <3>2 DEF LastOf, Talks
    <3> QED
      BY <1>1, <1>5, <3>1, <3>3 DEF ShowsRight
  <2> QED
    BY <2>1, <2>2
<1>6. ASSUME inf, ~coming, NEW s \in Setting \ dou, Silent(P, s) PROVE sh[s] = o2[s]
  <2>1. Silent(Q, s) /\ ~Changes(b, s)
    BY <1>1, <1>2, <1>3, <1>6 DEF Silent, Talks
  <2> QED
    BY <1>6, <2>1 DEF ShowsRight
<1> QED
  BY <1>4, <1>5, <1>6 DEF ShowsRight, Overdue

\* The level: that of the last change that was answered, or else the one shown.
Grants(r) == r.what = "subscribe" /\ r.status = "done"
LastGrant(Q, i) == Grants(Q[i]) /\ \A j \in 1..Len(Q) : j > i => ~Grants(Q[j])
LevelRight(Q, lev, o) ==
  /\ \A i \in 1..Len(Q) : Q[i].what = "subscribe" => Q[i].status # "expired"
  /\ \A i \in 1..Len(Q) : LastGrant(Q, i) => Q[i].val = o
  /\ (\A i \in 1..Len(Q) : ~Grants(Q[i])) => lev = o

LEMMA LongerLevel ==
  ASSUME NEW Q \in Seq(Command), NEW P, NEW r, Longer(Q, P, r), r.status = "queued",
         NEW lev, NEW o, LevelRight(Q, lev, o)
  PROVE  LevelRight(P, lev, o)
<1> DEFINE n == Len(Q) + 1
<1>1. /\ Len(Q) \in Nat /\ 1..Len(Q) \subseteq 1..Len(P) /\ P[n] = r
      /\ \A i \in 1..Len(P) : i # n => i \in 1..Len(Q) /\ P[i] = Q[i]
      /\ \A i \in 1..Len(Q) : P[i] = Q[i]
  BY DEF Longer
<1> HIDE DEF n
<1>2. \A i \in 1..Len(P) : LastGrant(P, i) => i \in 1..Len(Q) /\ P[i] = Q[i] /\ LastGrant(Q, i)
  BY <1>1 DEF LastGrant, Grants
<1>3. (\A i \in 1..Len(P) : ~Grants(P[i])) => \A i \in 1..Len(Q) : ~Grants(Q[i])
  BY <1>1
<1>4. \A i \in 1..Len(P) : P[i].what = "subscribe" => P[i].status # "expired"
  BY <1>1 DEF LevelRight
<1> QED
  BY <1>2, <1>3, <1>4 DEF LevelRight

LEMMA ShorterLevel ==
  ASSUME NEW Q \in Seq(Command), NEW P, Shorter(Q, P),
         NEW lev, NEW o, LevelRight(Q, lev, o), NEW lev2,
         IF Grants(Q[1]) THEN lev2 = Q[1].val ELSE lev2 = lev
  PROVE  LevelRight(P, lev2, o)
<1>1. /\ Len(Q) \in Nat /\ 1 \in 1..Len(Q) /\ Len(P) = Len(Q) - 1
      /\ \A i \in 1..Len(P) : i + 1 \in 1..Len(Q) /\ P[i] = Q[i + 1] /\ 1 < i + 1
  BY DEF Shorter
<1>2. ASSUME NEW i \in 1..Len(Q), i # 1 PROVE i - 1 \in 1..Len(P) /\ P[i - 1] = Q[i]
  <2>1. i - 1 \in 1..Len(P) /\ (i - 1) + 1 = i
    BY <1>1, <1>2
  <2> QED
    BY <1>1, <2>1
<1>3. \A i \in 1..Len(P) : P[i].what = "subscribe" => P[i].status # "expired"
  BY <1>1 DEF LevelRight
<1>4. ASSUME NEW i \in 1..Len(P), LastGrant(P, i) PROVE P[i].val = o
  <2>1. ASSUME NEW j \in 1..Len(Q), j > i + 1 PROVE ~Grants(Q[j])
    <3>1. j - 1 \in 1..Len(P) /\ P[j - 1] = Q[j] /\ j - 1 > i
      BY <1>1, <1>2, <2>1
    <3> QED
      BY <1>4, <3>1 DEF LastGrant
  <2>2. LastGrant(Q, i + 1)
    BY <1>1, <1>4, <2>1 DEF LastGrant
  <2> QED
    BY <1>1, <2>2 DEF LevelRight
<1>5. ASSUME \A i \in 1..Len(P) : ~Grants(P[i]) PROVE lev2 = o
  <2>1. \A i \in 1..Len(Q) : i # 1 => ~Grants(Q[i])
    BY <1>2, <1>5
  <2>2. CASE Grants(Q[1])
    <3>1. LastGrant(Q, 1)
      BY <1>1, <2>1, <2>2 DEF LastGrant
    <3> QED
      BY <1>1, <2>2, <3>1 DEF LevelRight
  <2>3. CASE ~Grants(Q[1])
    <3>1. \A i \in 1..Len(Q) : ~Grants(Q[i])
      BY <2>1, <2>3
    <3> QED
      BY <2>3, <3>1 DEF LevelRight
  <2> QED
    BY <2>2, <2>3
<1> QED
  BY <1>3, <1>4, <1>5 DEF LevelRight

LEMMA ExpiredLevel ==
  ASSUME NEW Q \in Seq(Command), NEW P, NEW i, NEW b, Other(Q, P, i, b),
         b.status = "expired", b.what = Q[i].what, b.what # "subscribe",
         NEW lev, NEW o, LevelRight(Q, lev, o)
  PROVE  LevelRight(P, lev, o)
<1>1. Len(P) = Len(Q) /\ \A j \in 1..Len(Q) : j = i \/ P[j] = Q[j]
  BY DEF Other
<1>2. \A j \in 1..Len(Q) : Grants(P[j]) <=> Grants(Q[j])
  BY <1>1 DEF Other, Grants
<1>3. \A j \in 1..Len(Q) : Grants(P[j]) => P[j] = Q[j]
  BY <1>1 DEF Other, Grants
<1>4. \A j \in 1..Len(Q) : P[j].what = "subscribe" => P[j].status # "expired"
  BY <1>1 DEF Other, LevelRight
<1> QED
  BY <1>1, <1>2, <1>3, <1>4 DEF LevelRight, LastGrant

LEMMA TakenLevel ==
  ASSUME NEW Q \in Seq(Command), Shaped(Q), NEW P, NEW i, NEW b, Other(Q, P, i, b),
         b.status \in {"done", "refused"}, Q[i].status = "queued",
         NEW lev, NEW o, LevelRight(Q, lev, o), NEW o2,
         IF Grants(b) THEN o2 = b.val ELSE o2 = o
  PROVE  LevelRight(P, lev, o2)
<1>1. /\ Len(Q) \in Nat /\ i \in 1..Len(Q) /\ Len(P) = Len(Q) /\ P[i] = b
      /\ \A j \in 1..Len(Q) : j # i => P[j] = Q[j]
  BY DEF Other
<1>2. \A j \in 1..Len(Q) : j > i => ~Grants(Q[j])
  BY <1>1 DEF Shaped, Grants
<1>3. ~Grants(Q[i])
  BY DEF Grants
<1>4. \A j \in 1..Len(P) : P[j].what = "subscribe" => P[j].status # "expired"
  BY <1>1 DEF LevelRight
<1>5. CASE Grants(b)
  <2>1. \A j \in 1..Len(P) : LastGrant(P, j) => j = i
    BY <1>1, <1>2, <1>5 DEF LastGrant
  <2> QED
    BY <1>1, <1>4, <1>5, <2>1 DEF LevelRight
<1>6. CASE ~Grants(b)
  <2>1. \A j \in 1..Len(Q) : (Grants(P[j]) <=> Grants(Q[j])) /\ (Grants(P[j]) => P[j] = Q[j])
    BY <1>1, <1>3, <1>6
  <2> QED
    BY <1>1, <1>4, <1>6, <2>1 DEF LevelRight, LastGrant
<1> QED
  BY <1>5, <1>6

\* One more get_state will be sent to the client, whatever comes back.
Coming == (inFlight /\ queued) \/ client \in notified

Shows(q) == ShowsRight(q[client], omp[client], shown, informed, doubtful, Coming)
Levels(q) == LevelRight(q[client], level, levels[client])

ShownInv == client \in running => Shows(sent)
LevelInv == client \in running /\ ~misled => Levels(sent)

\* The task of r, a command of c, has come back, and left q.
Back(c, r, q) ==
  LET Q == sent[client] IN
  /\ c # client => q[client] = Q
  /\ c = client =>
       \/ Shorter(Q, q[client]) /\ r = Q[1] /\ r.status \in {"done", "refused"}
       \/ \E i \in 1..Len(Q) :
            /\ Other(Q, q[client], i, r)
            /\ r.status = "expired" /\ r.what = Q[i].what /\ r.key = Q[i].key
            /\ Q[i].status = "queued" /\ \A j \in 1..i - 1 : Q[j].status = "expired"

LEMMA ConsumeBack ==
  ASSUME Good(sent), client \in Conn, NEW c \in Conn, Answered(c)
  PROVE  Back(c, Head(sent[c]), Consume(c))
<1> DEFINE w == Consume(c)
<1>1. /\ sent[c] # <<>> /\ Head(sent[c]).status \in {"done", "refused"}
      /\ sent[c] \in Seq(Command)
  BY DEF Answered, Good, Queues
<1>2. /\ Moved(w, c, 1)
      /\ \A i \in 1..Len(w[c]) : i + 1 \in 1..Len(sent[c]) /\ w[c][i] = sent[c][i + 1]
  BY <1>1, TailOne
<1> HIDE DEF w
<1>3. Head(sent[c]) = sent[c][1] /\ Shorter(sent[c], w[c])
      /\ \A d \in Conn : d # c => w[d] = sent[d]
  BY <1>1, <1>2 DEF Shorter, Moved
<1> QED
  BY <1>1, <1>2, <1>3 DEF Back, w

LEMMA ExpireBack ==
  ASSUME Good(sent), client \in Conn, NEW c \in Conn, NEW i \in 1..MaxSent, Expirable(c, i)
  PROVE  Back(c, Expire(c, i)[c][i], Expire(c, i))
<1> DEFINE w == Expire(c, i)
           b == [sent[c][i] EXCEPT !.status = "expired"]
<1>1. /\ i \in 1..Len(sent[c]) /\ sent[c][i].status = "queued"
      /\ \A j \in 1..i - 1 : sent[c][j].status = "expired"
      /\ sent[c][i] \in Command
  BY DEF Expirable, Good, Queues
<1>2. "expired" \in Status \ {"done"}
  BY DEF Status
<1>3. /\ b \in Command /\ b.status = "expired" /\ b.what = sent[c][i].what /\ b.key = sent[c][i].key
      /\ b.val = sent[c][i].val /\ b.was = sent[c][i].was
  BY <1>1, <1>2, CommandAt
<1>4. w = Changed(c, i, b)
  BY DEF Expire, Changed
<1> HIDE DEF w, b
<1>5. Kept(b, sent[c][i])
  BY <1>3 DEF Kept
<1>6. /\ Len(w[c]) = Len(sent[c]) /\ w[c][i] = b
      /\ (\A j \in 1..Len(sent[c]) : j # i => w[c][j] = sent[c][j])
      /\ \A d \in Conn : d # c => w[d] = sent[d]
  BY <1>1, <1>3, <1>4, <1>5, OneChanged
<1>7. Other(sent[c], w[c], i, b)
  BY <1>1, <1>6 DEF Other
<1> QED
  BY <1>1, <1>3, <1>6, <1>7 DEF Back, w

\* What the view makes of an answer: it shows what this child answered, or it has
\* nothing of the setting to wait for.
Heard(c, r, sh, inf, dou, sh2, dou2) ==
  \A s \in Setting \ dou2 :
    \/ inf /\ s \notin dou /\ sh2[s] = sh[s] /\ (c = client => ~Talks(r, s))
    \/ c = client /\ Carries(r, s) /\ sh2[s] = Carried(r, s)

LEMMA RightBack ==
  ASSUME Good(sent), client \in Conn, NEW c, NEW r, NEW q, Back(c, r, q),
         NEW o, NEW sh, NEW inf, NEW dou, NEW coming, NEW sh2, NEW inf2, NEW dou2,
         ShowsRight(sent[client], o, sh, inf, dou, coming),
         inf2 => Heard(c, r, sh, inf, dou, sh2, dou2)
  PROVE  ShowsRight(q[client], o, sh2, inf2, dou2, coming)
<1> DEFINE Q == sent[client]
<1>1. Q \in Seq(Command) /\ Shaped(Q)
  BY DEF Good, Queues
<1> HIDE DEF Q
<1>2. CASE c # client
  <2>1. q[client] = Q /\ ShowsRight(Q, o, sh, inf, dou, coming)
    BY <1>2 DEF Back, Q
  <2>2. ShowsRight(Q, o, sh2, inf2, dou2, coming)
    BY <1>2, <2>1 DEF ShowsRight, Heard
  <2> QED
    BY <2>1, <2>2
<1>3. CASE c = client /\ Shorter(Q, q[client]) /\ r = Q[1] /\ r.status \in {"done", "refused"}
  <2>1. inf2 => \A s \in Setting \ dou2 :
          \/ inf /\ s \notin dou /\ sh2[s] = sh[s] /\ ~Talks(Q[1], s)
          \/ Carries(Q[1], s) /\ sh2[s] = Carried(Q[1], s)
    BY <1>3 DEF Heard
  <2>2. ShowsRight(Q, o, sh, inf, dou, coming)
    BY DEF Q
  <2> QED
    BY <1>1, <1>3, <2>1, <2>2, ShorterIsRight
<1>4. CASE \E i \in 1..Len(Q) :
             /\ c = client /\ Other(Q, q[client], i, r)
             /\ r.status = "expired" /\ r.what = Q[i].what /\ r.key = Q[i].key
             /\ Q[i].status = "queued" /\ \A j \in 1..i - 1 : Q[j].status = "expired"
  <2>1. PICK i \in 1..Len(Q) :
             /\ c = client /\ Other(Q, q[client], i, r)
             /\ r.status = "expired" /\ r.what = Q[i].what /\ r.key = Q[i].key
             /\ Q[i].status = "queued" /\ \A j \in 1..i - 1 : Q[j].status = "expired"
    BY <1>4
  <2>2. inf2 => \A s \in Setting \ dou2 : inf /\ s \notin dou /\ sh2[s] = sh[s] /\ ~Talks(r, s)
    BY <2>1 DEF Carries, Heard
  <2>3. ShowsRight(Q, o, sh, inf, dou, coming)
    BY DEF Q
  <2> QED
    BY <1>1, <2>1, <2>2, <2>3, ExpiredIsRight
<1> QED
  BY <1>2, <1>3, <1>4 DEF Back, Q

LEMMA LevelBack ==
  ASSUME Good(sent), client \in Conn, NEW c, NEW r, NEW q, Back(c, r, q),
         NEW lev, NEW o, NEW lev2, LevelRight(sent[client], lev, o),
         c = client /\ r.what = "subscribe" => r.status # "expired",
         IF c = client /\ Grants(r) THEN lev2 = r.val ELSE lev2 = lev
  PROVE  LevelRight(q[client], lev2, o)
<1> DEFINE Q == sent[client]
<1>1. Q \in Seq(Command) /\ LevelRight(Q, lev, o)
  BY DEF Good, Queues
<1> HIDE DEF Q
<1>2. CASE c # client
  BY <1>1, <1>2 DEF Back, Q
<1>3. CASE c = client /\ Shorter(Q, q[client]) /\ r = Q[1]
  BY <1>1, <1>3, ShorterLevel
<1>4. CASE \E i \in 1..Len(Q) : /\ c = client /\ Other(Q, q[client], i, r)
                                /\ r.status = "expired" /\ r.what = Q[i].what
  <2>1. PICK i \in 1..Len(Q) : /\ c = client /\ Other(Q, q[client], i, r)
                                /\ r.status = "expired" /\ r.what = Q[i].what
    BY <1>4
  <2>2. r.what # "subscribe" /\ lev2 = lev
    BY <2>1 DEF Grants
  <2> QED
    BY <1>1, <2>1, <2>2, ExpiredLevel
<1> QED
  BY <1>2, <1>3, <1>4 DEF Back, Q

\* From q to w one command at most was sent, and it waits for omp.
Grew(q, w) ==
  \/ w[client] = q[client]
  \/ \E r \in Command : Longer(q[client], w[client], r) /\ r.status = "queued"

LEMMA WithIsLonger ==
  ASSUME client \in running, client \in Conn, NEW q, Good(q), NEW r \in Command, r.status = "queued"
  PROVE  q[client] \in Seq(Command) /\ Longer(q[client], With(q, r)[client], r)
<1>1. q \in Queues
  BY DEF Good
<1>2. PICK s \in Command :
        /\ client \in running => s = r
        /\ Len(With(q, r)[client]) = Len(q[client]) + 1
        /\ With(q, r)[client][Len(q[client]) + 1] = s
        /\ \A i \in 1..Len(q[client]) : With(q, r)[client][i] = q[client][i]
  BY <1>1, WithOne
<1> QED
  BY <1>1, <1>2 DEF Longer, Queues

LEMMA WithGrew ==
  ASSUME client \in running, client \in Conn, NEW q, Good(q), NEW r \in Command, r.status = "queued"
  PROVE  Grew(q, With(q, r))
  BY WithIsLonger DEF Grew

LEMMA GrewIsRight ==
  ASSUME client \in Conn, NEW q, Good(q), NEW w, Grew(q, w),
         NEW o, NEW sh, NEW inf, NEW dou, NEW coming,
         ShowsRight(q[client], o, sh, inf, dou, coming)
  PROVE  ShowsRight(w[client], o, sh, inf, dou, coming)
<1>1. q[client] \in Seq(Command)
  BY DEF Good, Queues
<1> QED
  BY <1>1, LongerIsRight DEF Grew

LEMMA GrewLevel ==
  ASSUME client \in Conn, NEW q, Good(q), NEW w, Grew(q, w),
         NEW lev, NEW o, LevelRight(q[client], lev, o)
  PROVE  LevelRight(w[client], lev, o)
<1>1. q[client] \in Seq(Command)
  BY DEF Good, Queues
<1> QED
  BY <1>1, LongerLevel DEF Grew

\* refresh_state leaves a request that nothing follows, or one that will be sent.
LEMMA RefreshIsRight ==
  ASSUME client \in running, client \in Conn, client # NoConn, NEW q, Good(q),
         NEW flying \in BOOLEAN, NEW again \in BOOLEAN, RefreshState(q, flying, again),
         NEW o, NEW sh, NEW inf, NEW dou, NEW coming, inFlight' /\ queued' => coming
  PROVE  ShowsRight(sent'[client], o, sh, inf, dou, coming) /\ Grew(q, sent')
<1>1. CASE flying
  <2>1. coming /\ sent' = q
    BY <1>1 DEF RefreshState
  <2> QED
    BY <2>1, FreshIsRight DEF Grew
<1>2. CASE ~flying
  <2>1. sent' = With(q, GetState)
    BY <1>2 DEF RefreshState
  <2>2. GetState \in Command /\ GetState.status = "queued" /\ GetState.what = "state"
    BY GetStateIsCommand
  <2>3. q[client] \in Seq(Command) /\ Longer(q[client], sent'[client], GetState)
    BY <2>1, <2>2, WithIsLonger
  <2> QED
    BY <2>2, <2>3, FreshIsRight DEF Grew
<1> QED
  BY <1>1, <1>2

\* What leaves the status line alone, and what leaves the level.
LEMMA ShownKept ==
  ASSUME Good(sent), running \subseteq Conn, ShownInv, client' = client, running' = running,
         UNCHANGED settingVars, Grew(sent, sent')
  PROVE  ShownInv'
<1>1. Coming' = Coming
  BY DEF Coming, settingVars
<1> SUFFICES ASSUME client \in running PROVE Shows(sent)'
  BY DEF ShownInv
<1>2. ShowsRight(sent[client], omp[client], shown, informed, doubtful, Coming)
  BY DEF ShownInv, Shows
<1>3. client \in Conn
  OBVIOUS
<1>4. ShowsRight(sent'[client], omp[client], shown, informed, doubtful, Coming)
  BY <1>2, <1>3, GrewIsRight
<1> QED
  BY <1>1, <1>4 DEF Shows, settingVars

LEMMA LevelKept ==
  ASSUME Good(sent), running \subseteq Conn, LevelInv, client' = client, running' = running,
         UNCHANGED <<level, levels, misled>>, Grew(sent, sent')
  PROVE  LevelInv'
<1> SUFFICES ASSUME client \in running, ~misled PROVE Levels(sent)'
  BY DEF LevelInv
<1>1. LevelRight(sent[client], level, levels[client]) /\ client \in Conn
  BY DEF LevelInv, Levels
<1>2. LevelRight(sent'[client], level, levels[client])
  BY <1>1, GrewLevel
<1> QED
  BY <1>2 DEF Levels

\* An answer that is of no setting, and one that is not of the level.
LEMMA ShownBack ==
  ASSUME LinkInv, ShownInv, NEW c, NEW r, NEW q, Back(c, r, q), r.what \notin SettingAsks,
         client' = client, running' = running, UNCHANGED settingVars, sent' = q
  PROVE  ShownInv'
<1>1. Coming' = Coming
  BY DEF Coming, settingVars
<1> SUFFICES ASSUME client \in running PROVE Shows(sent)'
  BY DEF ShownInv
<1>2. ShowsRight(sent[client], omp[client], shown, informed, doubtful, Coming)
      /\ Good(sent) /\ client \in Conn
  BY DEF ShownInv, Shows, LinkInv
<1>3. \A s : ~Talks(r, s)
  BY DEF Talks, Changes, SettingAsks
<1>4. ShowsRight(q[client], omp[client], shown, informed, doubtful, Coming)
  <2>1. informed => Heard(c, r, shown, informed, doubtful, shown, doubtful)
    BY <1>3 DEF Heard
  <2> QED
    BY <1>2, <2>1, RightBack
<1> QED
  BY <1>1, <1>4 DEF Shows, settingVars

LEMMA LevelsBack ==
  ASSUME LinkInv, LevelInv, NEW c, NEW r, NEW q, Good(q), Back(c, r, q), r.what # "subscribe",
         client' = client, running' = running, UNCHANGED <<level, levels, misled>>, Grew(q, sent')
  PROVE  LevelInv'
<1> SUFFICES ASSUME client \in running, ~misled PROVE Levels(sent)'
  BY DEF LevelInv
<1>1. LevelRight(sent[client], level, levels[client]) /\ Good(sent) /\ client \in Conn
  BY DEF LevelInv, Levels, LinkInv
<1>2. ~Grants(r)
  BY DEF Grants
<1>3. LevelRight(q[client], level, levels[client])
  BY <1>1, <1>2, LevelBack
<1>4. LevelRight(sent'[client], level, levels[client])
  BY <1>1, <1>3, GrewLevel
<1> QED
  BY <1>4 DEF Levels

\* A change that the view makes: it shows it, and the answer is to come.
LEMMA SetIsRight ==
  ASSUME LinkInv, SettingsTypeOK, client \in running, NEW q, Good(q),
         NEW s \in Setting, NEW v \in Value, Set(s, v, q),
         NEW inf, NEW dou, NEW coming,
         ShowsRight(q[client], omp[client], shown, inf, dou, coming)
  PROVE  /\ ShowsRight(sent'[client], omp[client], shown', inf, dou, coming)
         /\ Grew(q, sent') /\ UNCHANGED <<inFlight, queued>>
<1> DEFINE r == Request("set", s, v, shown[s])
<1>1. client \in Conn /\ client # NoConn
  BY RequestsAssumption DEF LinkInv
<1>2. /\ sent' = With(q, r) /\ UNCHANGED <<inFlight, queued>>
      /\ shown' = [shown EXCEPT ![s] = v] /\ shown \in [Setting -> Value]
  BY <1>1 DEF Set, NoRefresh, SettingsTypeOK
<1>3. r \in Command /\ r.status = "queued" /\ r.what = "set" /\ r.key = s
  <2>1. r \in Command /\ r.status = "queued" /\ r.what = "set"
    BY <1>2, SetIsCommand
  <2> QED
    BY <2>1 DEF Request
<1> HIDE DEF r
<1>4. q[client] \in Seq(Command) /\ Longer(q[client], sent'[client], r)
  BY <1>1, <1>2, <1>3, WithIsLonger
<1>5. \A t \in Setting \ dou : shown'[t] = shown[t] \/ Talks(r, t)
  BY <1>2, <1>3 DEF Talks, Changes
<1>6. ShowsRight(sent'[client], omp[client], shown', inf, dou, coming)
  BY <1>3, <1>4, <1>5, LongerIsRight
<1> QED
  BY <1>2, <1>3, <1>4, <1>6 DEF Grew

\* The answers of the status line's own commands.
LEMMA ShownAnswered ==
  ASSUME LinkInv, SettingInv, ShownInv, UNCHANGED <<linkVars, running, begun>>,
         NEW c, NEW r \in Command, NEW q, Good(q), Back(c, r, q), r.what \in SettingAsks,
         AnswerSetting(c, r, q)
  PROVE  client \notin running \/ (ShownInv' /\ Grew(q, sent'))
<1> SUFFICES ASSUME client \in running PROVE Shows(sent)' /\ Grew(q, sent')
  BY DEF ShownInv
<1>1. /\ ShowsRight(sent[client], omp[client], shown, informed, doubtful, Coming)
      /\ Good(sent) /\ client \in Conn /\ client # NoConn
      /\ client' = client /\ UNCHANGED <<omp, notified>>
  BY RequestsAssumption DEF ShownInv, Shows, LinkInv, linkVars, AnswerSetting
<1>2. /\ shown \in [Setting -> Value] /\ doubtful \subseteq Setting
      /\ inFlight \in BOOLEAN /\ queued \in BOOLEAN /\ informed \in BOOLEAN
  BY DEF SettingInv, SettingsTypeOK
<1>3. /\ r.what = "set" => r.key \in Setting
      /\ r.what = "cycle" => r.key \in Setting
  BY DEF Command, Fits, Setting
<1>4. inFlight' /\ queued' => Coming'
  BY DEF Coming
<1>5. UNCHANGED <<inFlight, queued>> => Coming' = Coming
  BY <1>1 DEF Coming
<1>6. SUFFICES ShowsRight(sent'[client], omp[client], shown', informed', doubtful', Coming')
               /\ Grew(q, sent')
  BY <1>1 DEF Shows
\* A refresh, whatever was shown.
<1>7. ASSUME NEW flying \in BOOLEAN, NEW again \in BOOLEAN, RefreshState(q, flying, again)
      PROVE  ShowsRight(sent'[client], omp[client], shown', informed', doubtful', Coming')
             /\ Grew(q, sent')
  BY <1>1, <1>4, <1>7, RefreshIsRight
<1>8. CASE r.what = "set"
  <2>1. AnswerSet(c, r, q)
    BY <1>8 DEF AnswerSetting
  <2>2. CASE r.key = Model
    <3>1. sent' = q /\ UNCHANGED <<inFlight, queued, informed>>
      BY <2>1, <2>2 DEF AnswerSet, NoRefresh
    <3>2. Model \in Echoed /\ Model \notin Toggle
      BY SettingsAssumption
    <3>3. \A s \in Setting : s # Model => shown'[s] = shown[s] /\ ~Talks(r, s)
      BY <1>2, <1>8, <2>1, <2>2, <3>2 DEF AnswerSet, Talks, Changes
    <3>4. CASE r.status = "done" /\ c = client
      <4>1. doubtful' = doubtful /\ shown'[Model] = r.reply
        <5>1. Model \in Setting
          BY DEF Setting
        <5> QED
          BY <1>2, <2>1, <2>2, <3>2, <3>4, <5>1 DEF AnswerSet
      <4>2. Carries(r, Model) /\ Carried(r, Model) = r.reply
        BY <1>8, <2>2, <3>4 DEF Carries, Carried
      <4>3. informed' => Heard(c, r, shown, informed, doubtful, shown', doubtful')
        BY <3>1, <3>3, <3>4, <4>1, <4>2 DEF Heard
      <4>4. ShowsRight(q[client], omp[client], shown', informed', doubtful', Coming)
        BY <1>1, <4>3, RightBack
      <4> QED
        BY <1>5, <3>1, <4>4 DEF Grew
    <3>5. CASE r.status # "done" \/ c # client
      <4>1. Model \in doubtful' /\ doubtful \subseteq doubtful'
        BY <2>1, <2>2, <3>5 DEF AnswerSet
      <4>2. informed' => Heard(c, r, shown, informed, doubtful, shown', doubtful')
        BY <3>1, <3>3, <4>1 DEF Heard
      <4>3. ShowsRight(q[client], omp[client], shown', informed', doubtful', Coming)
        BY <1>1, <4>2, RightBack
      <4> QED
        BY <1>5, <3>1, <4>3 DEF Grew
    <3> QED
      BY <3>4, <3>5
  <2>3. CASE r.key # Model
    <3>1. RefreshState(q, inFlight, queued)
      BY <2>1, <2>3 DEF AnswerSet
    <3> QED
      BY <1>2, <1>7, <3>1
  <2> QED
    BY <2>2, <2>3
<1>9. CASE r.what = "cycle"
  <2>1. AnswerCycle(r, q)
    BY <1>9 DEF AnswerSetting
  <2>2. CASE r.status = "done"
    <3>1. RefreshState(q, inFlight, queued)
      BY <2>1, <2>2 DEF AnswerCycle
    <3> QED
      BY <1>2, <1>7, <3>1
  <2>3. CASE r.status # "done"
    <3>1. doubtful' = doubtful \cup {r.key} /\ informed' = informed
      BY <2>1, <2>3 DEF AnswerCycle
    <3>2. informed' => Heard(c, r, shown, informed, doubtful, shown, doubtful')
      BY <1>9, <3>1 DEF Talks, Changes, Heard
    <3>3. ShowsRight(q[client], omp[client], shown, informed', doubtful', Coming)
      BY <1>1, <3>2, RightBack
    <3>4. CASE Set(r.key, 1 - shown[r.key], q)
      <4>1. r.key \in Setting /\ 1 - shown[r.key] \in Value
        BY <1>2, <1>3, <1>9, SettingsAssumption
      <4>2. /\ ShowsRight(sent'[client], omp[client], shown', informed', doubtful', Coming)
            /\ Grew(q, sent') /\ UNCHANGED <<inFlight, queued>>
        BY <3>3, <3>4, <4>1, SetIsRight DEF SettingInv
      <4> QED
        BY <1>5, <4>2
    <3>5. CASE NoRefresh(q) /\ UNCHANGED shown
      <4>1. sent' = q /\ UNCHANGED <<inFlight, queued, shown>>
        BY <3>5 DEF NoRefresh
      <4> QED
        BY <1>5, <3>3, <4>1 DEF Grew
    <3> QED
      BY <2>1, <2>3, <3>4, <3>5 DEF AnswerCycle
  <2> QED
    BY <2>2, <2>3
<1>10. CASE r.what = "state"
  <2>1. AnswerState(c, r, q)
    BY <1>10 DEF AnswerSetting
  <2>2. CASE queued
    BY <1>7, <2>1, <2>2 DEF AnswerState
  <2>3. CASE ~queued
    <3>1. sent' = q /\ inFlight' = FALSE /\ queued' = FALSE /\ doubtful' = doubtful
          /\ shown' = (IF r.status = "done" THEN r.reply ELSE shown)
          /\ informed' = (c = client /\ r.status = "done")
      BY <2>1, <2>3 DEF AnswerState
    <3>2. Coming' = Coming
      <4>1. queued = FALSE
        BY <1>2, <2>3
      <4> QED
        BY <1>1, <3>1, <4>1 DEF Coming
    <3>3. informed' => Heard(c, r, shown, informed, doubtful, shown', doubtful')
      BY <1>10, <3>1 DEF Carries, Carried, Heard
    <3>4. ShowsRight(q[client], omp[client], shown', informed', doubtful', Coming)
      BY <1>1, <3>3, RightBack
    <3> QED
      BY <3>1, <3>2, <3>4 DEF Grew
  <2> QED
    BY <2>2, <2>3
<1> QED
  BY <1>8, <1>9, <1>10 DEF SettingAsks

\* omp has taken r, the next command of the client, or dropped it unanswered.
Took(r, b) ==
  LET Q == sent[client] IN
  \/ Shorter(Q, sent'[client]) /\ r = Q[1] /\ r.status = "expired"
  \/ \E i \in 1..Len(Q) :
       /\ Other(Q, sent'[client], i, b) /\ r = Q[i] /\ r.status = "queued"
       /\ \A j \in 1..i - 1 : Q[j].status \in {"done", "refused"}

LEMMA TakeIsTook ==
  ASSUME Good(sent), NEW c \in Conn, NEW st \in {"done", "refused"}, NEW x, Take(c, st, x),
         client \in Conn, NEW r, r = NextToTake(c)[1], NEW b, b = Taken(r, st, x)
  PROVE  /\ c # client => sent'[client] = sent[client]
         /\ c = client => Took(r, b)
         /\ r \in Command /\ b.status = st /\ b.what = r.what /\ b.key = r.key /\ b.val = r.val
         /\ b.reply = x
<1>1. sent \in Queues /\ sent[c] \in Seq(Command) /\ Len(sent[c]) \in Nat /\ Shaped(sent[c])
  BY DEF Good, Queues
<1>2. PICK i \in 1..Len(sent[c]) :
        /\ sent[c][i].status \in {"queued", "expired"}
        /\ \A j \in 1..i - 1 : sent[c][j].status \in {"done", "refused"}
        /\ sent' = [sent EXCEPT ![c] =
             IF @[i].status = "expired" THEN Tail(@)
             ELSE [@ EXCEPT ![i].status = st, ![i].reply = x]]
  BY DEF Take
<1>3. r = sent[c][i] /\ r \in Command
  BY <1>2, NextTaken
<1>4. b.status = st /\ b.what = r.what /\ b.key = r.key /\ b.val = r.val /\ b.reply = x
  BY <1>3 DEF Command, Taken
<1>5. c # client => sent'[client] = sent[client]
  BY <1>1, <1>2 DEF Queues
<1>6. ASSUME c = client, r.status = "expired" PROVE Took(r, b)
  <2>1. i = 1
    <3>1. SUFFICES ASSUME i # 1 PROVE FALSE
      OBVIOUS
    <3>2. 1 \in 1..i - 1 /\ 1 \in 1..Len(sent[c]) /\ 1 < i
      BY <1>1, <3>1
    <3> QED
      BY <1>1, <1>2, <1>3, <1>6, <3>2 DEF Shaped
  <2>2. sent'[c] = Tail(sent[c])
    BY <1>1, <1>2, <1>3, <1>6 DEF Queues
  <2>3. sent[c] # <<>> /\ Len(Tail(sent[c])) = Len(sent[c]) - 1
        /\ \A j \in 1..Len(sent[c]) - 1 : Tail(sent[c])[j] = sent[c][j + 1]
    BY <1>1, <1>2
  <2>4. Shorter(sent[c], sent'[c])
    BY <2>2, <2>3 DEF Shorter
  <2> QED
    BY <1>3, <1>6, <2>1, <2>4 DEF Took
<1>7. ASSUME c = client, r.status # "expired" PROVE Took(r, b)
  <2>1. sent'[c] = [sent[c] EXCEPT ![i] = b]
    BY <1>1, <1>2, <1>3, <1>7 DEF Taken, Queues
  <2> HIDE DEF Taken
  <2>2. /\ Len(sent'[c]) = Len(sent[c]) /\ sent'[c][i] = b
        /\ \A j \in 1..Len(sent[c]) : j # i => sent'[c][j] = sent[c][j]
    BY <1>1, <2>1
  <2>3. Other(sent[c], sent'[c], i, b)
    BY <2>2 DEF Other
  <2> QED
    BY <1>2, <1>3, <1>7, <2>3 DEF Took
<1> QED
  BY <1>3, <1>4, <1>5, <1>6, <1>7

\* What the child has when it has taken a command, and what its answer brings.
LEMMA RightTook ==
  ASSUME Good(sent), client \in Conn, NEW r, NEW b, Took(r, b),
         b.status \in {"done", "refused"}, b.what = r.what, b.key = r.key,
         NEW o, NEW sh, NEW inf, NEW dou, NEW coming, NEW o2,
         ShowsRight(sent[client], o, sh, inf, dou, coming),
         \A s \in Setting : o2[s] = o[s] \/ (b.status = "done" /\ Changes(b, s)),
         \A s \in Setting : Carries(b, s) => Carried(b, s) = o2[s]
  PROVE  ShowsRight(sent'[client], o2, sh, inf, dou, coming)
<1> DEFINE Q == sent[client]
           P == sent'[client]
<1>1. Q \in Seq(Command) /\ Shaped(Q) /\ ShowsRight(Q, o, sh, inf, dou, coming)
  BY DEF Good, Queues
<1>2. \/ Shorter(Q, P) /\ r = Q[1] /\ r.status = "expired"
      \/ \E i \in 1..Len(Q) :
           /\ Other(Q, P, i, b) /\ r = Q[i] /\ r.status = "queued"
           /\ \A j \in 1..i - 1 : Q[j].status \in {"done", "refused"}
  BY DEF Took
<1> HIDE DEF Q, P
<1>3. CASE Shorter(Q, P) /\ r = Q[1] /\ r.status = "expired"
  <2>1. \A s \in Setting : o2[s] = o[s] \/ Changes(Q[1], s)
    BY <1>3 DEF Changes
  <2>2. ShowsRight(P, o2, sh, inf, dou, coming)
    BY <1>1, <1>3, <2>1, DroppedIsRight
  <2> QED
    BY <2>2 DEF P
<1>4. CASE \E i \in 1..Len(Q) :
             /\ Other(Q, P, i, b) /\ r = Q[i] /\ r.status = "queued"
             /\ \A j \in 1..i - 1 : Q[j].status \in {"done", "refused"}
  <2>1. PICK i \in 1..Len(Q) :
             /\ Other(Q, P, i, b) /\ r = Q[i] /\ r.status = "queued"
             /\ \A j \in 1..i - 1 : Q[j].status \in {"done", "refused"}
    BY <1>4
  <2>2. ShowsRight(P, o2, sh, inf, dou, coming)
    BY <1>1, <2>1, TakenIsRight
  <2> QED
    BY <2>2 DEF P
<1> QED
  BY <1>2, <1>3, <1>4

LEMMA LevelTook ==
  ASSUME Good(sent), client \in Conn, NEW r, NEW b, Took(r, b),
         b.status \in {"done", "refused"}, b.what = r.what,
         NEW lev, NEW o, NEW o2, LevelRight(sent[client], lev, o),
         IF Grants(b) THEN o2 = b.val ELSE o2 = o
  PROVE  LevelRight(sent'[client], lev, o2)
<1> DEFINE Q == sent[client]
           P == sent'[client]
<1>1. Q \in Seq(Command) /\ Shaped(Q) /\ LevelRight(Q, lev, o)
  BY DEF Good, Queues
<1>2. \/ Shorter(Q, P) /\ r = Q[1] /\ r.status = "expired"
      \/ \E i \in 1..Len(Q) : Other(Q, P, i, b) /\ r = Q[i] /\ r.status = "queued"
  BY DEF Took
<1> HIDE DEF Q, P
<1>3. CASE Shorter(Q, P) /\ r = Q[1] /\ r.status = "expired"
  <2>1. 1 \in 1..Len(Q)
    BY <1>1, <1>3 DEF Shorter
  <2>2. r.what # "subscribe" /\ ~Grants(Q[1]) /\ ~Grants(b)
    BY <1>1, <1>3, <2>1 DEF LevelRight, Grants
  <2>3. LevelRight(P, lev, o)
    BY <1>1, <1>3, <2>2, ShorterLevel
  <2> QED
    BY <2>2, <2>3 DEF P
<1>4. CASE \E i \in 1..Len(Q) : Other(Q, P, i, b) /\ r = Q[i] /\ r.status = "queued"
  <2>1. PICK i \in 1..Len(Q) : Other(Q, P, i, b) /\ r = Q[i] /\ r.status = "queued"
    BY <1>4
  <2>2. LevelRight(P, lev, o2)
    BY <1>1, <2>1, TakenLevel
  <2> QED
    BY <2>2 DEF P
<1> QED
  BY <1>2, <1>3, <1>4

LEMMA ShownTaken ==
  ASSUME LinkInv, ShownInv, NEW c \in running, NEW st \in {"done", "refused"}, NEW x,
         Take(c, st, x), NEW r, r = NextToTake(c)[1],
         client' = client, running' = running,
         UNCHANGED <<shown, inFlight, queued, notified, informed, doubtful>>,
         \A d \in Conn : d # c => omp'[d] = omp[d],
         \A s \in Setting : \/ omp'[c][s] = omp[c][s]
                            \/ st = "done" /\ Changes(r, s),
         st = "done" /\ r.what = "state" => x = omp'[c],
         st = "done" /\ r.what = "set" /\ r.key = Model => x = omp'[c][Model]
  PROVE  ShownInv'
<1>1. Coming' = Coming
  BY DEF Coming
<1> SUFFICES ASSUME client \in running PROVE Shows(sent)'
  BY DEF ShownInv
<1>2. ShowsRight(sent[client], omp[client], shown, informed, doubtful, Coming)
      /\ Good(sent) /\ client \in Conn /\ c \in Conn
  BY DEF ShownInv, Shows, LinkInv
<1> DEFINE b == Taken(r, st, x)
<1>3. /\ c # client => sent'[client] = sent[client]
      /\ c = client => Took(r, b)
      /\ r \in Command /\ b.status = st /\ b.what = r.what /\ b.key = r.key /\ b.reply = x
  BY <1>2, TakeIsTook
<1> HIDE DEF b
<1>4. CASE c # client
  BY <1>1, <1>2, <1>3, <1>4 DEF Shows
<1>5. CASE c = client
  <2>1. \A s \in Setting : omp'[client][s] = omp[client][s] \/ (b.status = "done" /\ Changes(b, s))
    BY <1>3, <1>5 DEF Changes
  <2>2. \A s \in Setting : Carries(b, s) => Carried(b, s) = omp'[client][s]
    BY <1>3, <1>5 DEF Carries, Carried
  <2>3. Took(r, b) /\ b.status \in {"done", "refused"}
    BY <1>3, <1>5
  <2>4. ShowsRight(sent'[client], omp'[client], shown, informed, doubtful, Coming)
    BY <1>2, <1>3, <2>1, <2>2, <2>3, RightTook
  <2> QED
    BY <1>1, <2>4 DEF Shows
<1> QED
  BY <1>4, <1>5

LEMMA LevelsTaken ==
  ASSUME LinkInv, LevelInv, NEW c \in running, NEW st \in {"done", "refused"}, NEW x,
         Take(c, st, x), NEW r, r = NextToTake(c)[1],
         client' = client, running' = running, UNCHANGED <<level, misled>>,
         \A d \in Conn : d # c => levels'[d] = levels[d],
         levels'[c] = IF st = "done" /\ r.what = "subscribe" THEN r.val ELSE levels[c]
  PROVE  LevelInv'
<1> SUFFICES ASSUME client \in running, ~misled PROVE Levels(sent)'
  BY DEF LevelInv
<1>1. LevelRight(sent[client], level, levels[client]) /\ Good(sent) /\ client \in Conn /\ c \in Conn
  BY DEF LevelInv, Levels, LinkInv
<1> DEFINE b == Taken(r, st, x)
<1>2. /\ c # client => sent'[client] = sent[client]
      /\ c = client => Took(r, b)
      /\ b.status = st /\ b.what = r.what /\ b.val = r.val
  BY <1>1, TakeIsTook
<1> HIDE DEF b
<1>3. CASE c # client
  BY <1>1, <1>2, <1>3 DEF Levels
<1>4. CASE c = client
  <2>1. IF Grants(b) THEN levels'[client] = b.val ELSE levels'[client] = levels[client]
    BY <1>2, <1>4 DEF Grants
  <2>2. LevelRight(sent'[client], level, levels'[client])
    BY <1>1, <1>2, <1>4, <2>1, LevelTook
  <2> QED
    BY <2>2 DEF Levels
<1> QED
  BY <1>3, <1>4

\* What omp does with the commands of each part.
LEMMA RightTaken ==
  ASSUME PipeInv, ShownInv, LevelInv, client' = client, running' = running, NEW c \in running,
         \/ OmpTakesSetting(c) /\ UNCHANGED commandVars
         \/ OmpTakesSubagents(c) /\ UNCHANGED <<settingVars, commandVars>>
         \/ OmpTakesCommand(c) /\ UNCHANGED settingVars
  PROVE  ShownInv' /\ LevelInv'
<1> DEFINE r == NextToTake(c)[1]
           v == IF r.what = "set" THEN r.val ELSE 1 - omp[c][r.key]
<1>1. LinkInv /\ omp \in [Conn -> [Setting -> Value]] /\ c \in Conn /\ Good(sent)
      /\ levels \in [Conn -> Subscription]
  BY DEF PipeInv, LinkInv, SettingInv, SettingsTypeOK, CommandsTypeOK
<1>2. ASSUME NEW st, NEW x, Take(c, st, x) PROVE r \in Command
  BY <1>1, <1>2, TakeIsOfCommand
<1>3. CASE OmpTakesSetting(c) /\ UNCHANGED commandVars
  <2>1. /\ r.what \in SettingAsks
        /\ UNCHANGED <<shown, inFlight, queued, notified, informed, doubtful>>
        /\ UNCHANGED <<level, levels, misled>>
        /\ r.what # "subscribe"
    BY <1>3 DEF OmpTakesSetting, commandVars, SettingAsks
  <2>2. \/ Take(c, "refused", <<>>) /\ UNCHANGED omp
        \/ r.what = "state" /\ Take(c, "done", omp[c]) /\ UNCHANGED omp
        \/ /\ r.what \in {"set", "cycle"}
           /\ Take(c, "done", v) /\ omp' = [omp EXCEPT ![c][r.key] = v]
    BY <1>3 DEF OmpTakesSetting
  <2> HIDE DEF r, v
  <2>3. CASE Take(c, "refused", <<>>) /\ UNCHANGED omp
    BY <1>1, <2>1, <2>3, ShownTaken, LevelsTaken DEF r
  <2>4. CASE r.what = "state" /\ Take(c, "done", omp[c]) /\ UNCHANGED omp
    BY <1>1, <2>1, <2>4, ShownTaken, LevelsTaken DEF r
  <2>5. CASE /\ r.what \in {"set", "cycle"}
             /\ Take(c, "done", v) /\ omp' = [omp EXCEPT ![c][r.key] = v]
    <3>1. r.key \in Setting
      BY <1>2, <2>5 DEF Command, Fits, Setting
    <3>2. /\ \A d \in Conn : d # c => omp'[d] = omp[d]
          /\ \A s \in Setting : s # r.key => omp'[c][s] = omp[c][s]
          /\ omp'[c][r.key] = v
      BY <1>1, <2>5, <3>1
    <3>3. \A s \in Setting : omp'[c][s] = omp[c][s] \/ Changes(r, s)
      BY <2>5, <3>2 DEF Changes
    <3>4. ShownInv'
      BY <1>1, <2>1, <2>5, <3>2, <3>3, ShownTaken DEF r
    <3>5. LevelInv'
      BY <1>1, <2>1, <2>5, LevelsTaken DEF r
    <3> QED
      BY <3>4, <3>5
  <2> QED
    BY <2>2, <2>3, <2>4, <2>5
<1>4. CASE OmpTakesSubagents(c) /\ UNCHANGED <<settingVars, commandVars>>
  <2>1. /\ r.what \in AgentAsks /\ r.what \notin SettingAsks /\ r.what # "subscribe"
        /\ UNCHANGED <<shown, inFlight, queued, notified, informed, doubtful, omp>>
        /\ UNCHANGED <<level, levels, misled>>
    BY <1>4 DEF OmpTakesSubagents, settingVars, commandVars, SettingAsks, AgentAsks
  <2>2. PICK st \in {"done", "refused"} : \E x : Take(c, st, x)
    BY <1>4 DEF OmpTakesSubagents
  <2>3. PICK x : Take(c, st, x)
    BY <2>2
  <2> HIDE DEF r
  <2>4. ShownInv'
    BY <1>1, <2>1, <2>3, ShownTaken DEF r, SettingAsks
  <2>5. LevelInv'
    BY <1>1, <2>1, <2>3, LevelsTaken DEF r
  <2> QED
    BY <2>4, <2>5
<1>5. CASE OmpTakesCommand(c) /\ UNCHANGED settingVars
  <2>1. /\ r.what \in CommandAsks
        /\ UNCHANGED <<shown, inFlight, queued, notified, informed, doubtful, omp>>
        /\ UNCHANGED <<level, misled>>
    BY <1>5 DEF OmpTakesCommand, settingVars
  <2>2. r.what \notin SettingAsks
    BY <2>1, CommandsAssumption DEF CommandAsks, SettingAsks
  <2>3. PICK st \in {"done", "refused"} :
          /\ \E x : Take(c, st, x)
          /\ levels' = IF st = "done" /\ r.what = "subscribe" THEN [levels EXCEPT ![c] = r.val] ELSE levels
    <3>1. CASE Take(c, "refused", <<>>) /\ UNCHANGED levels
      BY <3>1
    <3>2. CASE Take(c, "done", <<>>)
               /\ levels' = IF r.what = "subscribe" THEN [levels EXCEPT ![c] = r.val] ELSE levels
      BY <3>2
    <3> QED
      BY <1>5, <3>1, <3>2 DEF OmpTakesCommand
  <2> HIDE DEF r
  <2>4. PICK x : Take(c, st, x)
    BY <2>3
  <2>5. /\ \A d \in Conn : d # c => levels'[d] = levels[d]
        /\ levels'[c] = IF st = "done" /\ r.what = "subscribe" THEN r.val ELSE levels[c]
    BY <1>1, <2>3
  <2>6. ShownInv'
    BY <1>1, <2>1, <2>2, <2>4, ShownTaken DEF r, SettingAsks
  <2>7. LevelInv'
    BY <1>1, <2>1, <2>4, <2>5, LevelsTaken DEF r
  <2> QED
    BY <2>6, <2>7
<1> QED
  BY <1>3, <1>4, <1>5

\* What the drawer and the palette do to the pipe.
LEMMA DrawerGrew ==
  ASSUME LinkInv, DrawerInv, client \in running, DrawerMove PROVE Grew(sent, sent')
<1>1. client \in Conn /\ client # NoConn /\ Good(sent)
  BY RequestsAssumption DEF LinkInv
<1>2. ASSUME NEW r \in Command, r.status = "queued", sent' = With(sent, r) PROVE Grew(sent, sent')
  BY <1>1, <1>2, WithGrew
<1>3. sent' = sent => Grew(sent, sent')
  BY DEF Grew
<1>4. ASSUME RefreshSubagents(sent) PROVE Grew(sent, sent')
  <2> DEFINE r == Request("agents", NoAgent, 0, 0)
  <2>1. r \in Command /\ r.status = "queued"
    <3>1. 0 \in Val /\ <<>> \in Replied /\ NoAgent \in Key /\ "agents" \in Asks /\ "queued" \in Status
      BY DEF Val, Replied, Key, Asks, AgentAsks, Status
    <3> QED
      BY <3>1 DEF Request, Command, Fits
  <2> HIDE DEF r
  <2>2. sent' = sent \/ sent' = With(sent, r)
    BY <1>1, <1>4 DEF RefreshSubagents, r
  <2> QED
    BY <1>2, <1>3, <2>1, <2>2
<1>5. ASSUME NEW a \in Agent, OpenSubagentModal(a) PROVE Grew(sent, sent')
  <2> DEFINE at == IF selected = a THEN nextByte ELSE 0
             r == Request("messages", a, at, generation + 1)
  <2>1. at \in Nat /\ generation + 1 \in Nat
    BY DEF DrawerInv, DrawerTypeOK, WindowOK
  <2>2. sent' = With(sent, r)
    BY <1>1, <1>5 DEF OpenSubagentModal, Ask
  <2> HIDE DEF at
  <2>3. r \in Command /\ r.status = "queued"
    BY <2>1, OpenedIsCommand
  <2> QED
    BY <1>2, <2>2, <2>3
<1> QED
  BY <1>3, <1>4, <1>5
     DEF DrawerMove, ListAgents, CloseSubagentModal, SubagentFrame, AgentWrites

LEMMA CommandGrew ==
  ASSUME LinkInv, CommandsTypeOK, client \in running, CommandMove
  PROVE  Grew(sent, sent') /\ UNCHANGED <<level, levels, misled>>
<1>1. client \in Conn /\ client # NoConn /\ Good(sent) /\ NoPath \in Path \cup {NoPath} /\ 0 \in Val
  BY RequestsAssumption DEF LinkInv, Val
<1>2. ASSUME NEW what \in CommandAsks, NEW key \in Path \cup {NoPath}, NEW val \in Val, NEW was \in Val,
             what = "subscribe" => val \in Subscription,
             sent' = With(sent, Request(what, key, val, was))
      PROVE  Grew(sent, sent')
  <2> DEFINE r == Request(what, key, val, was)
  <2>1. r \in Command /\ r.status = "queued"
    BY <1>2, CommandIsCommand
  <2> HIDE DEF r
  <2> QED
    BY <1>1, <1>2, <2>1, WithGrew DEF r
<1>3. sent' = sent => Grew(sent, sent')
  BY DEF Grew
<1>4. ASSUME NEW what \in OneShot, Sends(what)
      PROVE  Grew(sent, sent') /\ UNCHANGED <<level, levels, misled>>
  <2>1. what \in CommandAsks /\ what # "subscribe"
    BY CommandsAssumption DEF CommandAsks
  <2>2. sent' = With(sent, Request(what, NoPath, 0, 0)) /\ UNCHANGED commandVars
    BY <1>4 DEF Sends
  <2> QED
    BY <1>1, <1>2, <2>1, <2>2 DEF commandVars
<1>5. CASE AskOneShot \/ AskFresh
  BY <1>4, <1>5, CommandsAssumption DEF AskOneShot, AskFresh
<1>6. CASE RequestFileRevert \/ CancelPendingRevert
  BY <1>3, <1>6 DEF RequestFileRevert, CancelPendingRevert
<1>7. CASE ConfirmPendingRevert
  <2>1. /\ sent' = With(sent, Request("revert", card, 0, 0)) /\ card \in Path \cup {NoPath}
        /\ UNCHANGED <<level, levels, misled>> /\ "revert" \in CommandAsks
    BY <1>1, <1>7 DEF ConfirmPendingRevert, Ask, CommandsTypeOK, CommandAsks
  <2> QED
    BY <1>1, <1>2, <2>1
<1>8. CASE CycleSubscription
  <2>1. /\ sent' = With(sent, Request("subscribe", NoPath, NextLevel[level], level))
        /\ UNCHANGED commandVars /\ "subscribe" \in CommandAsks
    BY <1>8 DEF CycleSubscription, CommandAsks
  <2>2. NextLevel[level] \in Subscription /\ NextLevel[level] \in Val /\ level \in Val
    BY DEF NextLevel, CommandsTypeOK, Subscription, Val
  <2>3. Grew(sent, sent')
    BY <1>1, <1>2, <2>1, <2>2
  <2> QED
    BY <2>1, <2>3 DEF commandVars
<1> QED
  BY <1>5, <1>6, <1>7, <1>8 DEF CommandMove

\* The user's changes, the timer, what a child changes of itself, and the pump.
LEMMA RightMoved ==
  ASSUME LinkInv, SettingInv, ShownInv, client \in running, UNCHANGED <<linkVars, running, begun>>,
         SettingMove \/ PumpRefreshes
  PROVE  ShownInv' /\ Grew(sent, sent')
<1>1. /\ ShowsRight(sent[client], omp[client], shown, informed, doubtful, Coming)
      /\ Good(sent) /\ client \in Conn /\ client # NoConn
      /\ client' = client
  BY RequestsAssumption DEF ShownInv, Shows, LinkInv, linkVars
<1>2. /\ shown \in [Setting -> Value] /\ omp \in [Conn -> [Setting -> Value]]
      /\ inFlight \in BOOLEAN /\ queued \in BOOLEAN /\ SettingsTypeOK
  BY DEF SettingInv, SettingsTypeOK
<1>3. inFlight' /\ queued' => Coming'
  BY DEF Coming
<1>4. ASSUME UNCHANGED <<omp, informed, doubtful>>,
             ShowsRight(sent'[client], omp[client], shown', informed, doubtful, Coming')
      PROVE  ShownInv'
  BY <1>1, <1>4 DEF ShownInv, Shows
<1>5. ASSUME NEW s \in Setting, NEW v \in Value, Set(s, v, sent),
             UNCHANGED <<omp, notified, informed, doubtful>>
      PROVE  ShownInv' /\ Grew(sent, sent')
  <2>1. /\ ShowsRight(sent'[client], omp[client], shown', informed, doubtful, Coming)
        /\ Grew(sent, sent') /\ UNCHANGED <<inFlight, queued>>
    BY <1>1, <1>2, <1>5, SetIsRight
  <2>2. Coming' = Coming
    BY <1>1, <1>5, <2>1 DEF Coming
  <2> QED
    BY <1>4, <1>5, <2>1, <2>2
<1>6. ASSUME RefreshState(sent, inFlight, queued), UNCHANGED <<omp, informed, doubtful>>
      PROVE  ShownInv' /\ Grew(sent, sent')
  <2>1. /\ ShowsRight(sent'[client], omp[client], shown', informed, doubtful, Coming')
        /\ Grew(sent, sent')
    BY <1>1, <1>2, <1>3, <1>6, RefreshIsRight
  <2> QED
    BY <1>4, <1>6, <2>1
<1>7. CASE ToggleSetting
  <2>1. PICK s \in Toggle : Set(s, 1 - shown[s], sent)
    BY <1>7 DEF ToggleSetting
  <2>2. s \in Setting /\ 1 - shown[s] \in Value
    BY <1>2, SettingsAssumption DEF Setting
  <2> QED
    BY <1>5, <1>7, <2>1, <2>2 DEF ToggleSetting
<1>8. CASE PickSetting
  <2>1. PICK s \in Level \cup {Model}, v \in Value : Set(s, v, sent)
    BY <1>8 DEF PickSetting
  <2> QED
    BY <1>5, <1>8, <2>1 DEF PickSetting, Setting
<1>9. CASE CycleSetting
  <2>1. PICK s \in Level \cup {Model} : sent' = With(sent, Request("cycle", s, 0, 0))
    BY <1>9 DEF CycleSetting
  <2> DEFINE r == Request("cycle", s, 0, 0)
  <2>2. r \in Command /\ r.status = "queued"
    BY CycleIsCommand
  <2> HIDE DEF r
  <2>3. Grew(sent, sent') /\ UNCHANGED settingVars
    BY <1>1, <1>9, <2>1, <2>2, WithGrew DEF CycleSetting, r
  <2> QED
    BY <1>1, <2>3, ShownKept DEF LinkInv
<1>10. CASE TimerTick
  <2>1. CASE RefreshState(sent, inFlight, queued)
    BY <1>6, <1>10, <2>1 DEF TimerTick
  <2>2. CASE UNCHANGED <<inFlight, queued, sent>>
    <3>1. UNCHANGED <<shown, omp, notified, informed, doubtful>> /\ Coming' = Coming
      BY <1>1, <1>10, <2>2 DEF TimerTick, Coming
    <3> QED
      BY <1>1, <1>4, <2>2, <3>1 DEF Grew
  <2> QED
    BY <1>10, <2>1, <2>2 DEF TimerTick
<1>11. CASE \E c \in running : OmpChanges(c)
  <2>1. PICK c \in running : OmpChanges(c)
    BY <1>11
  <2>2. /\ c \in Conn /\ UNCHANGED <<sent, shown, inFlight, queued, informed, doubtful>>
        /\ notified' = notified \cup {c} /\ omp' = [omp EXCEPT ![c][Model] = 1 - @]
    BY <2>1 DEF OmpChanges, LinkInv
  <2>3. CASE c = client
    <3>1. Coming'
      BY <1>1, <2>2, <2>3 DEF Coming
    <3>2. ShowsRight(sent[client], omp'[client], shown, informed, doubtful, Coming')
      BY <3>1, FreshIsRight
    <3> QED
      BY <1>1, <2>2, <3>2 DEF ShownInv, Shows, Grew
  <2>4. CASE c # client
    <3>1. omp'[client] = omp[client]
      BY <1>1, <1>2, <2>2, <2>4
    <3>2. Coming' = Coming
      <4>1. (client \in notified') = (client \in notified)
        BY <2>2, <2>4
      <4> QED
        BY <1>1, <2>2, <4>1 DEF Coming
    <3> QED
      BY <1>1, <2>2, <3>1, <3>2 DEF ShownInv, Shows, Grew
  <2> QED
    BY <2>3, <2>4
<1>12. CASE PumpRefreshes
  BY <1>6, <1>12 DEF PumpRefreshes
<1> QED
  BY <1>7, <1>8, <1>9, <1>10, <1>11, <1>12 DEF SettingMove

\* An answer, or a task that waited too long.
LEMMA RightResumed ==
  ASSUME PipeInv, ShownInv, LevelInv, UNCHANGED <<linkVars, running, begun>>,
         NEW c, NEW r, NEW q, Returned(r, q), client \in running => Back(c, r, q), Resume(c, r, q)
  PROVE  ShownInv' /\ LevelInv'
<1>1. LinkInv /\ SettingInv /\ r \in Command /\ Good(q) /\ client' = client /\ running' = running
  BY DEF PipeInv, Returned, Besides, linkVars
<1>2. CASE client \notin running
  BY <1>1, <1>2 DEF ShownInv, LevelInv
<1>3. CASE client \in running
  <2>1. Back(c, r, q)
    BY <1>3
  <2>2. CASE r.what \in SettingAsks /\ AnswerSetting(c, r, q) /\ UNCHANGED <<agentVars, commandVars>>
    <3>1. ShownInv' /\ Grew(q, sent')
      BY <1>1, <1>3, <2>1, <2>2, ShownAnswered
    <3>2. r.what # "subscribe" /\ UNCHANGED <<level, levels, misled>>
      BY <2>2 DEF SettingAsks, commandVars
    <3>3. LevelInv'
      BY <1>1, <2>1, <3>1, <3>2, LevelsBack
    <3> QED
      BY <3>1, <3>3
  <2>3. CASE r.what \in AgentAsks /\ AnswerSubagents(r, q) /\ UNCHANGED <<settingVars, commandVars>>
    <3>1. sent' = q
      BY <2>3 DEF AgentAsks, AnswerSubagents, AnswerAgents, AnswerMessages
    <3>2. /\ r.what # "subscribe" /\ r.what \notin SettingAsks
          /\ UNCHANGED settingVars /\ UNCHANGED <<level, levels, misled>>
      BY <2>3 DEF AgentAsks, SettingAsks, commandVars
    <3>3. ShownInv'
      BY <1>1, <2>1, <3>1, <3>2, ShownBack
    <3>4. LevelInv'
      BY <1>1, <2>1, <3>1, <3>2, LevelsBack DEF Grew
    <3> QED
      BY <3>3, <3>4
  <2>4. CASE r.what \in CommandAsks /\ AnswerCommand(c, r, q) /\ UNCHANGED <<settingVars, agentVars>>
    <3>1. r.what \notin SettingAsks /\ sent' = q /\ UNCHANGED settingVars
      BY <2>4, CommandsAssumption DEF CommandAsks, SettingAsks, AnswerCommand
    <3>2. ShownInv'
      BY <1>1, <2>1, <3>1, ShownBack
    <3>3. ASSUME ~misled' PROVE Levels(sent)'
      <4>1. /\ ~misled /\ UNCHANGED levels
            /\ level' = IF r.what = "subscribe" /\ r.status = "done" THEN r.val ELSE level
            /\ r.what = "subscribe" => IF c = client THEN r.status # "expired" ELSE r.status # "done"
        BY <2>4, <3>3 DEF AnswerCommand
      <4>2. LevelRight(sent[client], level, levels[client]) /\ Good(sent) /\ client \in Conn
        BY <1>1, <1>3, <4>1 DEF LevelInv, Levels, LinkInv
      <4>3. IF c = client /\ Grants(r) THEN level' = r.val ELSE level' = level
        BY <4>1 DEF Grants
      <4>4. LevelRight(q[client], level', levels[client])
        BY <2>1, <4>1, <4>2, <4>3, LevelBack
      <4> QED
        BY <1>1, <3>1, <4>1, <4>4 DEF Levels
    <3> QED
      BY <3>2, <3>3 DEF LevelInv
  <2> QED
    BY <2>2, <2>3, <2>4 DEF Resume
<1> QED
  BY <1>2, <1>3

\* The child of a connection that begins has been asked nothing.
LEMMA RightConnected ==
  ASSUME LinkInv, CommandsTypeOK, Connect PROVE ShownInv' /\ LevelInv'
<1>1. PICK c \in Conn : /\ client' = c /\ SettingsAttach(c) /\ CommandsAttach(c)
                        /\ UNCHANGED sent /\ c = begun + 1
  BY DEF Connect, LinkAttach
<1>2. sent'[c] = <<>>
  <2>1. c > begun
    BY <1>1, RequestsAssumption DEF LinkInv
  <2> QED
    BY <1>1, <2>1 DEF LinkInv, InOrder
<1>3. UNCHANGED omp /\ (informed' => shown' = omp[c])
  BY <1>1 DEF SettingsAttach
<1>4. ShowsRight(<<>>, omp[c], shown', informed', doubtful', Coming')
  BY <1>3 DEF ShowsRight, Overdue
<1>5. ShownInv'
  BY <1>1, <1>2, <1>3, <1>4 DEF ShownInv, Shows
<1>6. ASSUME ~misled' PROVE level' = "events" /\ levels'[c] = "events"
  BY <1>1, <1>6 DEF CommandsAttach, CommandsTypeOK
<1>7. ~misled' => LevelRight(<<>>, level', levels'[c])
  BY <1>6 DEF LevelRight, LastGrant
<1>8. LevelInv'
  BY <1>1, <1>2, <1>7 DEF LevelInv, Levels
<1> QED
  BY <1>5, <1>8

LEMMA RightInductive ==
  PipeInv /\ ShownInv /\ LevelInv /\ [Next]_vars => ShownInv' /\ LevelInv'
<1> SUFFICES ASSUME PipeInv, ShownInv, LevelInv, [Next]_vars PROVE ShownInv' /\ LevelInv'
  OBVIOUS
<1>1. /\ LinkInv /\ SettingInv /\ DrawerInv /\ CommandsTypeOK /\ Good(sent)
      /\ running \subseteq Conn /\ NoConn \notin Conn
  BY RequestsAssumption DEF PipeInv, LinkInv
\* Without a child of its own the view owes nothing.
<1>2. client' \notin running' => ShownInv' /\ LevelInv'
  BY DEF ShownInv, LevelInv
<1>3. ASSUME UNCHANGED <<linkVars, running, begun>>, UNCHANGED settingVars,
             UNCHANGED <<level, levels, misled>>, client \in running => Grew(sent, sent')
      PROVE  ShownInv' /\ LevelInv'
  <2>1. CASE client \in running
    BY <1>1, <1>3, <2>1, ShownKept, LevelKept DEF linkVars
  <2> QED
    BY <1>2, <1>3, <2>1 DEF linkVars
<1>4. CASE SettingMove \/ (PumpRefreshes /\ UNCHANGED <<linkVars, running, begun, commandVars>>)
  <2>1. UNCHANGED <<linkVars, running, begun>> /\ UNCHANGED <<level, levels, misled>>
    BY <1>4 DEF SettingMove, commandVars
  <2>2. CASE client \in running
    <3>1. ShownInv' /\ Grew(sent, sent')
      BY <1>1, <1>4, <2>1, <2>2, RightMoved
    <3>2. LevelInv'
      BY <1>1, <2>1, <3>1, LevelKept DEF linkVars
    <3> QED
      BY <3>1, <3>2
  <2> QED
    BY <1>2, <2>1, <2>2 DEF linkVars
<1>5. CASE DrawerMove
  <2>1. /\ UNCHANGED <<linkVars, running, begun>> /\ UNCHANGED settingVars
        /\ UNCHANGED <<level, levels, misled>>
    BY <1>5 DEF DrawerMove, commandVars
  <2> QED
    BY <1>1, <1>3, <1>5, <2>1, DrawerGrew
<1>6. CASE CommandMove
  <2>1. UNCHANGED <<linkVars, running, begun>> /\ UNCHANGED settingVars
    BY <1>6 DEF CommandMove
  <2>2. CASE client \in running
    BY <1>1, <1>3, <1>6, <2>1, <2>2, CommandGrew
  <2> QED
    BY <1>2, <2>1, <2>2 DEF linkVars
<1>7. CASE ListMove \/ Painted \/ UNCHANGED vars
  <2>1. UNCHANGED <<linkVars, requestVars, settingVars, commandVars>>
    BY <1>7 DEF ListMove, Painted, vars
  <2> QED
    BY <1>3, <2>1 DEF requestVars, commandVars, Grew
<1>8. CASE Turn
  <2>1. /\ client' = client /\ UNCHANGED <<running, sent, level, levels, misled>>
        /\ UNCHANGED <<shown, inFlight, queued, omp, notified, informed, doubtful>>
    BY <1>8 DEF Turn, LinkTurn, requestVars, commandVars
  <2>2. Coming' = Coming
    BY <2>1 DEF Coming
  <2>3. ShownInv'
    BY <2>1, <2>2 DEF ShownInv, Shows
  <2>4. LevelInv'
    BY <2>1 DEF LevelInv, Levels
  <2> QED
    BY <2>3, <2>4
<1>9. CASE Leave \/ Lose
  <2>1. client' = NoConn /\ UNCHANGED running
    BY <1>9 DEF Leave, Lose, LinkLeave, LinkLost, LinkRecycle, requestVars
  <2> QED
    BY <1>1, <1>2, <2>1
<1>10. CASE Connect
  BY <1>1, <1>10, RightConnected
<1>11. CASE \E c \in Conn : Exit(c)
  <2>1. PICK c \in Conn : Exit(c)
    BY <1>11
  <2>2. /\ UNCHANGED <<linkVars, settingVars, commandVars>> /\ running' = running \ {c}
        /\ \E n : sent' = [sent EXCEPT ![c] = SubSeq(Fail(@), n + 1, Len(@))]
    BY <2>1 DEF Exit, ChildGone
  <2>3. CASE client \in running'
    <3>1. c # client /\ client \in running /\ sent'[client] = sent[client]
      BY <1>1, <2>2, <2>3 DEF Good, Queues
    <3>2. Coming' = Coming
      BY <2>2 DEF Coming, linkVars, settingVars
    <3>3. ShownInv'
      BY <2>2, <3>1, <3>2 DEF ShownInv, Shows, linkVars, settingVars
    <3>4. LevelInv'
      BY <2>2, <3>1 DEF LevelInv, Levels, linkVars, commandVars
    <3> QED
      BY <3>3, <3>4
  <2> QED
    BY <1>2, <2>2, <2>3 DEF linkVars
<1>12. CASE \E c \in Conn : TimeOut(c) /\ UNCHANGED <<linkVars, running, begun>>
  <2>1. PICK c \in Conn : TimeOut(c) /\ UNCHANGED <<linkVars, running, begun>>
    BY <1>12
  <2>2. PICK i \in 1..MaxSent : Expirable(c, i) /\ Resume(c, Expire(c, i)[c][i], Expire(c, i))
    BY <2>1 DEF TimeOut
  <2>3. Returned(Expire(c, i)[c][i], Expire(c, i))
    BY <1>1, <2>2, ExpireReturns
  <2>4. client \in running => Back(c, Expire(c, i)[c][i], Expire(c, i))
    BY <1>1, <2>2, ExpireBack
  <2> QED
    BY <2>1, <2>2, <2>3, <2>4, RightResumed
<1>13. CASE Work
  <2>1. UNCHANGED <<linkVars, running, begun>> /\ client' = client
    BY <1>13 DEF Work, linkVars
  <2>2. CASE PumpRefreshes /\ UNCHANGED <<agentVars, commandVars>>
    BY <1>4, <2>1, <2>2
  <2>3. CASE \E c \in running : OmpTakesSetting(c) /\ UNCHANGED <<agentVars, commandVars>>
    BY <2>1, <2>3, RightTaken
  <2>4. CASE \E c \in running : OmpTakesSubagents(c) /\ UNCHANGED <<settingVars, commandVars>>
    BY <2>1, <2>4, RightTaken
  <2>5. CASE \E c \in running : OmpTakesCommand(c) /\ UNCHANGED <<settingVars, agentVars>>
    BY <2>1, <2>5, RightTaken
  <2>6. CASE \E c \in Conn : Answer(c)
    <3>1. PICK c \in Conn : Answered(c) /\ Resume(c, Head(sent[c]), Consume(c))
      BY <2>6 DEF Answer
    <3>2. Returned(Head(sent[c]), Consume(c))
      BY <1>1, <3>1, ConsumeReturns
    <3>3. client \in running => Back(c, Head(sent[c]), Consume(c))
      BY <1>1, <3>1, ConsumeBack
    <3> QED
      BY <2>1, <3>1, <3>2, <3>3, RightResumed
  <2> QED
    BY <1>13, <2>2, <2>3, <2>4, <2>5, <2>6 DEF Work
<1> QED
  BY <1>4, <1>5, <1>6, <1>7, <1>8, <1>9, <1>10, <1>11, <1>12, <1>13
     DEF Next, Event, Consequence

\* When nothing is on its way that could change them, the settings and the level the
\* status line shows are those of this child, however changes, refusals, timeouts and
\* restarts were interleaved: refresh_state with its two flags, the tasks of the
\* changes, finish_connection.
THEOREM SettledShowsOmpAlways == Spec => []SettledShowsOmp
<1>1. Init => ShownInv /\ LevelInv
  BY DEF Init, RequestsInit, ShownInv, LevelInv
<1>2. PipeInv /\ ShownInv => SettingsSettled
  <2> SUFFICES ASSUME PipeInv, ShownInv, Settled, informed
               PROVE  \A s \in Setting \ doubtful : shown[s] = omp[client][s]
    BY DEF SettingsSettled
  <2>1. /\ client \in running /\ client \in Conn /\ client \notin notified
        /\ \A c \in Conn : \A i \in 1..Len(sent[c]) : sent[c][i].what \in AgentAsks \cup CommandAsks
    BY DEF Settled, PipeInv, LinkInv
  <2>2. \A c \in Conn : \A i \in 1..Len(sent[c]) : sent[c][i].what \notin SettingAsks
    BY <2>1, CommandsAssumption DEF AgentAsks, CommandAsks, SettingAsks
  <2>3. ~inFlight
    BY <2>2 DEF PipeInv, SettingInv, AskedFor, SettingAsks
  <2>4. ~Coming
    BY <2>1, <2>3 DEF Coming
  <2>5. \A s : Silent(sent[client], s)
    BY <2>1, <2>2 DEF Silent, Speaks, Talks, Changes, SettingAsks
  <2> QED
    BY <2>1, <2>4, <2>5 DEF ShownInv, Shows, ShowsRight
<1>3. PipeInv /\ LevelInv => LevelSettled
  <2> SUFFICES ASSUME PipeInv, LevelInv, client \in running, ~misled, ~Waiting("subscribe")
               PROVE  level = levels[client]
    BY DEF LevelSettled
  <2>1. client \in Conn /\ LevelRight(sent[client], level, levels[client])
    BY DEF PipeInv, LinkInv, LevelInv, Levels
  <2>2. \A i \in 1..Len(sent[client]) : ~Grants(sent[client][i])
    BY <2>1, WaitingIsAskedFor DEF AskedFor, Grants
  <2> QED
    BY <2>1, <2>2 DEF LevelRight
<1>4. PipeInv /\ ShownInv /\ LevelInv => SettledShowsOmp
  BY <1>2, <1>3 DEF SettledShowsOmp
<1> QED
  BY <1>1, <1>4, PipeInvAlways, RightInductive, PTL DEF Spec

=============================================================================
