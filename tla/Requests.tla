------------------------------- MODULE Requests -------------------------------
(***************************************************************************)
(* The commands a view has sent and has not had answered.  A handler that  *)
(* sends one clones the client into a task and returns; the task comes     *)
(* back as a handler of its own, with the answer or with an error, on      *)
(* whatever the view has become by then.  omp takes the commands of a      *)
(* connection one at a time in the order they were written.                *)
(***************************************************************************)
EXTENDS Link, Naturals, Sequences

CONSTANTS MaxSent   \* bound: commands of one connection not yet answered

ASSUME RequestsAssumption ==
  Conn \subseteq Nat \ {0} /\ NoConn \notin Conn /\ MaxSent \in Nat

VARIABLES
  running,    \* connections whose child answers: of the client, and in its shutdown
  begun,      \* connections so far
  sent        \* each connection's commands, in the order written

requestVars == <<running, begun, sent>>

\* expired: the task gave up waiting, and omp has still to take the command.
Status == {"queued", "expired", "done", "refused"}

\* A command: what it asks, about what, to which value, and what was there before.
Request(what, key, val, was) ==
  [what |-> what, key |-> key, val |-> val, was |-> was,
   status |-> "queued", reply |-> <<>>]

RequestsTypeOK ==
  /\ LinkTypeOK
  /\ running \subseteq Conn
  /\ begun \in Conn \cup {0}
  /\ DOMAIN sent = Conn
  /\ \A c \in Conn :
       /\ Len(sent[c]) <= MaxSent
       /\ \A i \in 1..Len(sent[c]) : sent[c][i].status \in Status

RequestsInit ==
  /\ LinkInit
  /\ running = {} /\ begun = 0
  /\ sent = [c \in Conn |-> <<>>]

\* q with one more command for the current client; to a child that is gone it
\* fails at once.
With(q, r) ==
  [q EXCEPT ![client] = Append(@,
     IF client \in running THEN r ELSE [r EXCEPT !.status = "refused"])]

\* A handler that sends a command when there is a client, and returns otherwise.
Ask(q, r) == IF client = NoConn THEN q ELSE With(q, r)
Room(q) == client # NoConn => Len(q[client]) < MaxSent

\* A command whose task still waits.
Awaited(c) == {sent[c][i] : i \in {j \in 1..Len(sent[c]) : sent[c][j].status # "expired"}}
Waiting(what) == \E c \in Conn : \E r \in Awaited(c) : r.what = what

\* omp takes the next command of c: status and reply are what it answers.  One
\* that expired is at the head: nothing before it was answered.
Take(c, status, reply) ==
  \E i \in 1..Len(sent[c]) :
    /\ sent[c][i].status \in {"queued", "expired"}
    /\ \A j \in 1..i - 1 : sent[c][j].status \in {"done", "refused"}
    /\ sent' = [sent EXCEPT ![c] =
         IF @[i].status = "expired" THEN Tail(@)
         ELSE [@ EXCEPT ![i].status = status, ![i].reply = reply]]

NextToTake(c) ==
  LET open == {i \in 1..Len(sent[c]) : sent[c][i].status \in {"queued", "expired"}}
  IN  IF open = {} THEN <<>> ELSE <<sent[c][CHOOSE i \in open : \A j \in open : i <= j]>>

\* The task of the first answered command of c comes back.
Answered(c) == sent[c] # <<>> /\ Head(sent[c]).status \in {"done", "refused"}
Consume(c) == [sent EXCEPT ![c] = Tail(@)]

\* A task's timer runs out before the answer: it comes back with an error, after
\* the tasks that were woken by an answer before.  All have the same time from
\* their write on, so they run out in the order of their writes.
Expirable(c, i) == /\ i \in 1..Len(sent[c]) /\ sent[c][i].status = "queued"
                   /\ \A j \in 1..i - 1 : sent[c][j].status = "expired"
Expire(c, i) == [sent EXCEPT ![c][i].status = "expired"]

\* The child of c is gone: every command without an answer fails, and those that
\* expired, the first of them, are taken by nobody.
Fail(q) == [i \in 1..Len(q) |->
             IF q[i].status = "queued" THEN [q[i] EXCEPT !.status = "refused"] ELSE q[i]]
ChildGone(c) ==
  /\ c \in running
  /\ running' = running \ {c}
  /\ \E n \in 0..Len(sent[c]) :
       /\ \A i \in 1..Len(sent[c]) : sent[c][i].status = "expired" <=> i <= n
       /\ sent' = [sent EXCEPT ![c] = SubSeq(Fail(@), n + 1, Len(@))]
=============================================================================
