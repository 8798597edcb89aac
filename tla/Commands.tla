------------------------------- MODULE Commands -------------------------------
(***************************************************************************)
(* The commands of the palette and the inspector that omp carries out on   *)
(* the session as a whole: export, share, compact, /fresh, abort_retry,    *)
(* the stats, the revert of a file after a card has asked, and the level   *)
(* of the subagent events.  What most of them leave in the view is a row   *)
(* of the transcript; they take their turn on the pipe all the same.       *)
(***************************************************************************)
EXTENDS Requests, FiniteSets

CONSTANTS OneShot,     \* commands that change nothing the view keeps
          Fresh,       \* the one of them that wants an idle session
          Path,        \* files the transcript offers to revert
          NoPath

ASSUME CommandsAssumption ==
  /\ Fresh \in OneShot /\ NoPath \notin Path
  /\ OneShot \cap {"set", "state", "cycle", "agents", "messages", "revert", "subscribe"} = {}

VARIABLES
  card,      \* pending_revert
  level,     \* subagent_subscription
  levels,    \* the level each connection's child sends events at
  misled     \* the last change of the level ended without the answer of this
             \* child, or with the answer of another

commandVars == <<card, level, levels, misled>>

Subscription == {"off", "progress", "events"}

CommandsTypeOK ==
  /\ card \in Path \cup {NoPath}
  /\ level \in Subscription /\ levels \in [Conn -> Subscription]
  /\ misled \in BOOLEAN

CommandsInit ==
  /\ card = NoPath
  /\ level = "events" /\ levels = [c \in Conn |-> "events"]
  /\ misled = FALSE

\* A command of the palette: without a client it only says so.
Sends(what) ==
  /\ client # NoConn /\ Room(sent)
  /\ sent' = With(sent, Request(what, NoPath, 0, 0))
  /\ UNCHANGED commandVars

\* Export, share, compact, the stats and abort_retry go out whatever the session does.
AskOneShot == \E what \in OneShot \ {Fresh} : Sends(what)

\* /fresh looks at the run phase first, and at the dialogs that wait.
AskFresh == phase = "idle" /\ Sends(Fresh)

\* The button of an edit's row; a card that is already there is replaced.
RequestFileRevert ==
  /\ card' \in Path
  /\ UNCHANGED <<sent, level, levels, misled>>

CancelPendingRevert ==
  /\ card # NoPath
  /\ card' = NoPath
  /\ UNCHANGED <<sent, level, levels, misled>>

\* The card is taken; without a client the revert is only refused in a row.
ConfirmPendingRevert ==
  /\ card # NoPath /\ Room(sent)
  /\ card' = NoPath
  /\ sent' = Ask(sent, Request("revert", card, 0, 0))
  /\ UNCHANGED <<level, levels, misled>>

NextLevel == [off |-> "progress", progress |-> "events", events |-> "off"]

CycleSubscription ==
  /\ client # NoConn /\ Room(sent)
  /\ sent' = With(sent, Request("subscribe", NoPath, NextLevel[level], level))
  /\ UNCHANGED commandVars

CommandAsks == OneShot \cup {"revert", "subscribe"}

\* The task of a command comes back: a row, or the level that was asked for.
AnswerCommand(c, r, q) ==
  /\ sent' = q
  /\ level' = IF r.what = "subscribe" /\ r.status = "done" THEN r.val ELSE level
  /\ misled' = (misled \/ (r.what = "subscribe" /\
                             IF c = client THEN r.status = "expired" ELSE r.status = "done"))
  /\ UNCHANGED <<card, levels>>

\* omp carries a command out, or refuses it.
OmpTakesCommand(c) ==
  /\ NextToTake(c) # <<>>
  /\ LET r == NextToTake(c)[1] IN
     /\ r.what \in CommandAsks
     /\ \/ Take(c, "refused", <<>>) /\ UNCHANGED levels
        \/ /\ Take(c, "done", <<>>)
           /\ levels' = IF r.what = "subscribe" THEN [levels EXCEPT ![c] = r.val] ELSE levels
  /\ UNCHANGED <<card, level, misled>>

\* finish_connection: the connect has asked for the events, and says it got them.
\* A card that was open stays.
CommandsAttach(c) ==
  /\ level' = "events"
  /\ \E at \in Subscription : levels' = [levels EXCEPT ![c] = at] /\ misled' = (at # "events")
  /\ UNCHANGED <<card>>
=============================================================================
