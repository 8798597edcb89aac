------------------------------ MODULE Subagents -------------------------------
(***************************************************************************)
(* The drawer of subagents and the window over one of them.  The list is   *)
(* fetched when it is empty, on demand, and when a frame names an agent    *)
(* it does not have.  The window reads an agent's messages from where it   *)
(* stopped; an answer that comes after the window was closed, reopened or  *)
(* turned to another agent is dropped by its generation.                   *)
(***************************************************************************)
EXTENDS Requests, FiniteSets

CONSTANTS
  Agent, NoAgent,
  MaxPage,    \* bound: messages of one agent
  LineCap,    \* the messages the window keeps: 80 lines
  MaxGen      \* bound: generations

ASSUME SubagentsAssumption ==
  /\ NoAgent \notin Agent
  /\ MaxPage \in Nat /\ LineCap \in Nat \ {0} /\ MaxGen \in Nat

VARIABLES
  agents,       \* subagent_snapshots
  refreshing,   \* subagent_refresh_in_flight
  selected,     \* selected_subagent_id
  modal,        \* subagent_modal_open
  generation,   \* subagent_modal_request_generation
  nextByte,     \* subagent_tail_next_byte; 0 for none
  lines,        \* subagent_tail_lines: which message of which agent
  log           \* the messages each agent has written, in omp's file

agentVars == <<agents, refreshing, selected, modal, generation, nextByte, lines, log>>

SubagentsTypeOK ==
  /\ agents \subseteq Agent
  /\ refreshing \in BOOLEAN /\ modal \in BOOLEAN
  /\ selected \in Agent \cup {NoAgent}
  /\ generation \in Nat
  /\ nextByte \in 0..MaxPage
  /\ log \in [Agent -> 0..MaxPage]
  /\ Len(lines) <= LineCap
  /\ \A i \in 1..Len(lines) : lines[i] \in Agent \X (1..MaxPage)

SubagentsInit ==
  /\ agents = {} /\ refreshing = FALSE
  /\ selected = NoAgent /\ modal = FALSE /\ generation = 0
  /\ nextByte = 0 /\ lines = <<>>
  /\ log = [a \in Agent |-> 0]

\* retained_subagent_selection: an agent no longer listed loses the window.
Retained(list) == IF selected \in list THEN selected ELSE NoAgent

\* refresh_subagents, with its guard against a second request.
RefreshSubagents(q) ==
  /\ Room(q)
  /\ IF client = NoConn THEN refreshing' = FALSE /\ sent' = q
     ELSE IF refreshing THEN sent' = q /\ UNCHANGED refreshing
     ELSE refreshing' = TRUE /\ sent' = With(q, Request("agents", NoAgent, 0, 0))

\* Slip: a refused get_subagents leaves the flag set.
AnswerAgentsSticks(r, q) ==
  /\ refreshing' = (r.status # "done")
  /\ agents' = IF r.status = "done" THEN r.reply ELSE agents
  /\ sent' = q
  /\ UNCHANGED <<selected, modal, generation, nextByte, lines, log>>

\* The answer of get_subagents: apply_subagent_snapshots, or a status line.
AnswerAgents(r, q) ==
  /\ refreshing' = FALSE
  /\ sent' = q
  /\ IF r.status = "done"
     THEN /\ agents' = r.reply
          /\ selected' = Retained(r.reply)
          /\ IF selected # NoAgent /\ Retained(r.reply) = NoAgent
             THEN /\ modal' = FALSE /\ generation' = generation + 1
                  /\ nextByte' = 0 /\ lines' = <<>>
             ELSE UNCHANGED <<modal, generation, nextByte, lines>>
     ELSE UNCHANGED <<agents, selected, modal, generation, nextByte, lines>>
  /\ UNCHANGED log

\* apply_subagent_message_page: the messages from one on, or the file anew.
Capped(s) == SubSeq(s, (IF Len(s) > LineCap THEN Len(s) - LineCap ELSE 0) + 1, Len(s))
Page(a, from, to) == [i \in 1..to - from |-> <<a, from + i>>]
ApplyPage(a, page) ==
  /\ nextByte' = page.next
  /\ lines' = Capped((IF page.reset THEN <<>> ELSE lines) \o Page(a, page.from, page.next))

\* Slip: the window is open on this agent, and that is enough.
StillWantedBySelection(r) == modal /\ selected = r.key

\* fetch_subagent_messages drops what the window no longer waits for.
StillWanted(r) == modal /\ selected = r.key /\ generation = r.was

AnswerMessages(r, q) ==
  /\ sent' = q
  /\ IF StillWanted(r) /\ r.status = "done"
     THEN ApplyPage(r.key, r.reply)
     ELSE UNCHANGED <<nextByte, lines>>
  /\ UNCHANGED <<agents, refreshing, selected, modal, generation, log>>

AgentAsks == {"agents", "messages"}

AnswerSubagents(r, q) ==
  CASE r.what = "agents"   -> AnswerAgents(r, q)
    [] r.what = "messages" -> AnswerMessages(r, q)

-----------------------------------------------------------------------------
(* What the user and omp do.                                                 *)

\* ensure_subagent_snapshots and the drawer's refresh button.
ListAgents ==
  /\ client # NoConn
  /\ RefreshSubagents(sent)
  /\ UNCHANGED <<agents, selected, modal, generation, nextByte, lines, log>>

\* open_subagent_modal: the same agent is read on from where it stopped.
OpenSubagentModal(a) ==
  /\ a \in agents /\ generation < MaxGen /\ Room(sent)
  /\ selected' = a /\ modal' = TRUE /\ generation' = generation + 1
  /\ IF selected = a THEN UNCHANGED <<nextByte, lines>>
     ELSE nextByte' = 0 /\ lines' = <<>>
  /\ sent' = Ask(sent, Request("messages", a, IF selected = a THEN nextByte ELSE 0,
                               generation + 1))
  /\ UNCHANGED <<agents, refreshing, log>>

\* close_subagent_modal, by its button or Escape.
CloseSubagentModal ==
  /\ modal /\ generation < MaxGen
  /\ modal' = FALSE /\ generation' = generation + 1
  /\ UNCHANGED <<sent, agents, refreshing, selected, nextByte, lines, log>>

\* A frame of a subagent: one that is not listed asks for the list.
SubagentFrame ==
  /\ client # NoConn
  /\ \E a \in Agent :
       IF ~refreshing /\ a \notin agents THEN RefreshSubagents(sent)
       ELSE UNCHANGED <<refreshing, sent>>
  /\ UNCHANGED <<agents, selected, modal, generation, nextByte, lines, log>>

\* omp answers with its list, or with an agent's messages from a byte on; when
\* the file is not the one that byte was of, it starts it anew.
OmpTakesSubagents(c) ==
  /\ NextToTake(c) # <<>>
  /\ LET r == NextToTake(c)[1] IN
     /\ r.what \in AgentAsks
     /\ \/ Take(c, "refused", <<>>)
        \/ r.what = "agents" /\ \E list \in SUBSET Agent : Take(c, "done", list)
        \/ /\ r.what = "messages"
           /\ \E reset \in BOOLEAN :
                Take(c, "done", [reset |-> reset, next |-> log[r.key],
                                 from |-> IF reset THEN 0 ELSE r.val])
  /\ UNCHANGED agentVars

AgentWrites(a) ==
  /\ log[a] < MaxPage
  /\ log' = [log EXCEPT ![a] = @ + 1]
  /\ UNCHANGED <<sent, agents, refreshing, selected, modal, generation, nextByte, lines>>

-----------------------------------------------------------------------------
\* clear_subagent_drawer_state: a list in flight is not stopped, and the answer
\* of the old child fills the new session's drawer.
ClearDrawer ==
  /\ agents' = {} /\ refreshing' = FALSE /\ selected' = NoAgent
  /\ modal' = FALSE /\ generation' = generation + 1
  /\ nextByte' = 0 /\ lines' = <<>>
  /\ UNCHANGED log
=============================================================================
