----------------------------- MODULE Conversation -----------------------------
(***************************************************************************)
(* A SessionView answering omp: dialogs and host requests over one link.   *)
(* Each part takes its steps between those of the other; the life of the   *)
(* view changes both at once.                                              *)
(***************************************************************************)
EXTENDS Dialogs, HostBridge

CONSTANT MaxLoad      \* bound: dialogs and host requests together

ASSUME ConversationAssumption ==
  /\ MaxLoad \in Nat
  /\ IsFiniteSet(Conn) /\ Conn = 1..Cardinality(Conn) /\ NoConn \notin Conn

VARIABLE born         \* children so far
vars == <<linkVars, dialogVars, hostVars, born>>

TypeOK == /\ LinkTypeOK /\ DialogTypeOK /\ HostTypeOK
          /\ born \in 0..Cardinality(Conn)

Init == LinkInit /\ DialogInit /\ HostInit /\ born = 0

\* finish_connection of a view that has no client; connects that overlap, where
\* it takes the place of another, are Session's.
Attach1 ==
  /\ client = NoConn
  /\ born + 1 \in Conn
  /\ LinkAttach(born + 1) /\ born' = born + 1
  /\ DialogsEmptied
  /\ UNCHANGED hostVars

\* handle_client_closed.
Lose == /\ client # NoConn
        /\ LinkLost /\ DialogsLost /\ HostReset
        /\ UNCHANGED born

\* begin_connection of a session, after an abort that is not acknowledged or the
\* crash card's Restart; a client may be in a turn at any time.
Recycle == /\ client # NoConn \/ phase = "dead"
           /\ LinkRecycle /\ DialogsEmptied /\ HostReset
           /\ UNCHANGED born

\* A connect that failed.
FailToConnect == /\ client = NoConn /\ phase = "restarting"
                 /\ LinkFail
                 /\ UNCHANGED <<dialogVars, hostVars, born>>

\* return_to_launcher.
Leave == /\ phase # "idle" \/ client # NoConn
         /\ LinkLeave /\ phase' = "idle"
         /\ DialogsLeft /\ HostReset
         /\ UNCHANGED born

LifeNext == Attach1 \/ Lose \/ Recycle \/ FailToConnect \/ Leave

Load == Len(asked) + Len(asking)

Next ==
  /\ \/ DialogNext /\ UNCHANGED <<linkVars, hostVars, born>>
     \/ HostNext /\ UNCHANGED <<linkVars, dialogVars, born>>
     \/ LifeNext
  /\ Load' <= MaxLoad

Spec == Init /\ [][Next]_vars

-----------------------------------------------------------------------------
(* Properties.                                                               *)

\* A request of omp is answered at most once, by the child's own client, and a
\* host request that omp took back is not answered after the view has heard of it,
\* however answers, timers, cancels and restarts fall.
AnsweredOnce ==
  /\ \A d \in Id : /\ Len(answers[d]) <= 1
                   /\ \A i \in DOMAIN answers[d] : answers[d][i].to = asked[d]
  /\ \A r \in Request1 : /\ Len(results[r]) <= 1
                         /\ \A i \in DOMAIN results[r] : results[r][i] = asking[r]
                         /\ r \in withdrawn => results[r] = <<>>

\* While the view has a client, the answer field is the one of the text dialog at
\* the head, a typed answer is never left waiting in front of one, every pending
\* dialog that asked for a timeout has a timer that will be honoured, and the
\* options checked on the card of an ask are those toggled on in omp's own loop,
\* however often the select came again, if the view remembers its question: a select
\* that a typed answer for the text dialog before it uncovers has no draft, and the
\* first option marked on it shows the checks of the question before.
DialogsServed ==
  client # NoConn =>
    /\ IsText(Top) => /\ ui.bound = [dialog |-> Top.id, custom |-> FALSE]
                      /\ ui.custom = None
    /\ \A i \in DOMAIN ui.pending : ui.pending[i].timed => ui.pending[i].id \in ui.gens
    /\ /\ IsSelect /\ ui.draft.dialog = Top.id /\ Top.id = ask.open.id
       /\ ask.fresh /\ ui.memory.question = Top.question
       => ui.memory.checked = ask.toggled
=============================================================================
