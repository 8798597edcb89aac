------------------------------- MODULE Dialogs -------------------------------
(***************************************************************************)
(* The questions omp asks the user: extension UI requests, shown one at a  *)
(* time in the order they came, answered by keys, buttons, the answer      *)
(* field or a timer, and the memory that carries a choice from one select  *)
(* of omp's ask loop to the next.  What a child asks is external: asked    *)
(* and answers keep who asked and what was sent back.                      *)
(*                                                                         *)
(* Several helpers map a view's dialog state to its next one, because the  *)
(* handlers run them one after the other: sync_pending_dialogs is four of  *)
(* them, and is called at the end of nearly every handler.                 *)
(***************************************************************************)
EXTENDS Link, Naturals, Sequences, FiniteSets, SequencesExt

CONSTANTS Question,    \* what a select asks: its title and its options
          Choice,      \* the options of a question that are plain choices
          MaxAsked     \* bound: requests the children make in all

ASSUME DialogAssumption ==
  /\ MaxAsked \in Nat
  /\ Choice \cap {"other", "done", "ended", "none"} = {} /\ "none" \notin Question

VARIABLES
  asked,    \* for each request so far its child; a request's id is its place
  answers,  \* what was sent for each request
  ask,      \* the ask tool running in the child; fresh: its question is not one the
            \* view remembers from before, as when an earlier ask had the same words,
            \* and its choices so far were remembered under it
  ui        \* the view's dialog state

dialogVars == <<asked, answers, ask, ui>>

Option == Choice \cup {"other"}       \* "Other (type your own)" closes the list
Id == DOMAIN asked
None == 0                             \* no dialog

\* A pending dialog; done: a select that also offers Done selecting.
NoDialog == [id |-> None, method |-> "none", question |-> "none", done |-> FALSE, timed |-> FALSE]

\* The fields of the view: pending_dialogs; select_draft, as the dialog it is for
\* and the marked option; select_memory; pending_custom_answer and the text in the
\* answer field, by the dialog they were typed for; dialog_input_bound_id; and
\* dialog_timeout_gens.  The checked values of the draft are always those of the
\* memory, and a timer whose generation is gone does nothing.
NoDraft  == [dialog |-> None, selected |-> "none"]
NoMemory == [question |-> "none", selected |-> "none", sent |-> "none", checked |-> {}]
NoBound  == [dialog |-> None, custom |-> FALSE]
NoDialogs == [pending |-> <<>>, draft |-> NoDraft, memory |-> NoMemory, custom |-> None,
              bound |-> NoBound, field |-> None, gens |-> {}]
NoAsk == [open |-> NoDialog, loop |-> FALSE, toggled |-> {}, fresh |-> FALSE]

DialogTypeOK ==
  /\ asked \in Seq(Conn)
  /\ DOMAIN answers = Id
  /\ ask.open.id \in Id \cup {None} /\ ask.toggled \subseteq Choice
  /\ \A i \in DOMAIN ui.pending : ui.pending[i].id \in Id
  /\ ui.draft.selected \in Option \cup {"none"}
  /\ ui.memory.question \in Question \cup {"none"} /\ ui.memory.checked \subseteq Choice
  /\ ui.gens \subseteq Id

DialogInit == asked = <<>> /\ answers = <<>> /\ ask = NoAsk /\ ui = NoDialogs

-----------------------------------------------------------------------------
(* The steps of sync_pending_dialogs, on a view u and the answers a so far.  *)

First1(s) == IF s = <<>> THEN NoDialog ELSE s[1]
HeadDialog(u) == First1(u.pending)
IsText(d) == d.method \in {"input", "editor"}
Ids(u) == {u.pending[i].id : i \in DOMAIN u.pending}
\* Ids are unique: apply_ui replaces a dialog whose id it has.
Without(u, id) == [u EXCEPT !.pending = RemoveFirstMatch(@, LAMBDA d : d.id = id)]

\* sync_select_draft: a select at the head gets a draft, with what the memory of
\* the same question remembers.
SyncSelectDraft(u) ==
  LET d == HeadDialog(u)
      old == IF d.question = u.memory.question THEN u.memory ELSE NoMemory
  IN CASE d.method # "select"     -> [u EXCEPT !.draft = NoDraft]
       [] d.method = "select" /\ u.draft.dialog = d.id -> u
       [] OTHER -> [u EXCEPT !.draft = [dialog |-> d.id, selected |-> old.selected],
                             !.memory = [old EXCEPT !.question = d.question]]

CustomAtHead(u) == /\ HeadDialog(u).method = "select"
                   /\ u.draft = [dialog |-> HeadDialog(u).id, selected |-> "other"]

Bind(u, id, custom) ==
  LET want == [dialog |-> id, custom |-> custom]
  IN IF u.bound = want THEN u ELSE [u EXCEPT !.bound = want, !.field = None]

\* Slip: while the head is no text dialog, the field stays with the last one.
SyncInputKeepsLast(u) ==
  CASE IsText(HeadDialog(u)) /\ u.bound = NoBound -> Bind(u, HeadDialog(u).id, FALSE)
    [] CustomAtHead(u)                            -> Bind(u, HeadDialog(u).id, TRUE)
    [] OTHER                                      -> u

\* sync_dialog_input: the field belongs to the first text dialog, wherever it
\* waits, or else to the typed answer of the select at the head.
SyncDialogInput(u) ==
  LET text == SelectInSeq(u.pending, IsText)
  IN CASE text # 0                   -> Bind(u, u.pending[text].id, FALSE)
       [] text = 0 /\ CustomAtHead(u) -> Bind(u, HeadDialog(u).id, TRUE)
       [] OTHER                      -> Bind(u, None, FALSE)

\* sync_dialog_timeouts: a timer for every pending dialog that asks for one.
SyncDialogTimeouts(u) ==
  [u EXCEPT !.gens = (@ \cap Ids(u)) \cup
                     {u.pending[i].id : i \in {j \in DOMAIN u.pending : u.pending[j].timed}}]

\* An answer: the client, what a select chose ("ended" when it ends an ask, and for
\* all other dialogs), and the dialog its text was typed for.
Answer(c, what, text) == [to |-> c, what |-> what, text |-> text]

\* send_dialog_response: needs a client and a pending dialog, which it removes.
SendDialogResponse(u, a, id, c, what, text) ==
  IF c = NoConn \/ id \notin Ids(u)
    THEN [ok |-> FALSE, ui |-> u, answers |-> a]
    ELSE [ok |-> TRUE, ui |-> Without(u, id),
          answers |-> [a EXCEPT ![id] = Append(@, Answer(c, what, text))]]

\* flush_pending_custom_answer: a text dialog at the head gets the typed answer.
FlushCustomAnswer(u, a, c) ==
  IF u.custom = None \/ ~IsText(HeadDialog(u))
    THEN [ok |-> FALSE, ui |-> u, answers |-> a]
    ELSE LET s == SendDialogResponse(u, a, HeadDialog(u).id, c, "ended", u.custom)
         IN IF s.ok THEN [s EXCEPT !.ui.custom = None] ELSE s

\* sync_pending_dialogs.
SyncPendingDialogs(u, a, c) ==
  LET f == FlushCustomAnswer(SyncSelectDraft(u), a, c)
  IN [f EXCEPT !.ui = SyncDialogTimeouts(SyncDialogInput(@))]

\* What a handler leaves: the view and the answers after the sync.
Synced(u, a) ==
  LET s == SyncPendingDialogs(u, a, client) IN ui' = s.ui /\ answers' = s.answers

\* submit_dialog_response: the sync follows only an answer that was sent.
Submit(u, id, what, text) ==
  LET s == SendDialogResponse(u, answers, id, client, what, text)
  IN IF s.ok THEN Synced(s.ui, s.answers) ELSE ui' = u /\ UNCHANGED answers

-----------------------------------------------------------------------------
(* What the child asks, and takes back.                                      *)

\* The pump applies a request and syncs.
Request(dialog) ==
  /\ client # NoConn
  /\ Len(asked) < MaxAsked
  /\ asked' = Append(asked, client)
  /\ Synced([ui EXCEPT !.pending = Append(@, dialog)], Append(answers, <<>>))

NextId == Len(asked) + 1
Select(q, done, timed) ==
  [id |-> NextId, method |-> "select", question |-> q, done |-> done, timed |-> timed]
Plain(method, timed) ==
  [id |-> NextId, method |-> method, question |-> "none", done |-> FALSE, timed |-> timed]

\* The ask tool opens a select; loop: each choice toggles and the select comes
\* again, where it may also offer Done selecting.
AskOpens ==
  /\ ask = NoAsk
  /\ \E q \in Question, loop, timed \in BOOLEAN : \E done \in {FALSE, loop} :
       /\ Request(Select(q, done, timed))
       /\ ask' = [open |-> Select(q, done, timed), loop |-> loop, toggled |-> {},
                  fresh |-> ui.memory.question # q]

Toggle(set, c) == (set \ {c}) \cup ({c} \ set)

\* The ask tool gets its answer: it asks again, opens the editor, or is over.
AskGoesOn ==
  /\ ask # NoAsk
  /\ answers[ask.open.id] # <<>>
  /\ LET what == answers[ask.open.id][1].what
         again == [ask.open EXCEPT !.id = NextId]
     IN \/ /\ what \in Choice /\ ask.loop
           /\ Request(again)
           /\ ask' = [ask EXCEPT !.open = again, !.toggled = Toggle(@, what),
                                 !.fresh = @ /\ ui.memory.question = ask.open.question]
        \/ /\ what = "other"
           /\ Request(Plain("editor", FALSE))
           /\ ask' = [NoAsk EXCEPT !.open = Plain("editor", FALSE)]
        \/ /\ what # "other" /\ ~(what \in Choice /\ ask.loop)
           /\ ask' = NoAsk
           /\ UNCHANGED <<asked, answers, ui>>

\* An extension or another tool asks something of its own; an editor of its own
\* is served like an input.
OtherRequest ==
  /\ \E m \in {"confirm", "input"}, timed \in BOOLEAN : Request(Plain(m, timed))
  /\ UNCHANGED ask

\* A cancel frame: the dialog leaves the projection, and the view syncs.
OmpCancels ==
  /\ client # NoConn
  /\ \E id \in Ids(ui) : /\ Synced(Without(ui, id), answers)
                         /\ ask' = IF id = ask.open.id THEN NoAsk ELSE ask
  /\ UNCHANGED asked

-----------------------------------------------------------------------------
(* What the user does with the dialog at the head.                           *)

Top == HeadDialog(ui)
IsSelect == Top.method = "select"

\* remember_select_choice: what was sent, and the toggle it means for omp.
Remember(u, value) ==
  IF u.memory = NoMemory THEN u
  ELSE IF value \in Choice THEN [u EXCEPT !.memory.sent = value, !.memory.selected = value,
                                          !.memory.checked = Toggle(@, value)]
  ELSE [u EXCEPT !.memory.sent = value]

\* The marked option, in the draft and in the memory if there is one.
Marked(u, id, o) ==
  [u EXCEPT !.draft = [dialog |-> id, selected |-> o],
            !.memory = IF @ = NoMemory THEN @ ELSE [@ EXCEPT !.selected = o]]

\* mark_dialog_selection, by a click or a digit: where Done is offered a choice is
\* a toggle, and is sent at once.
MarkDialogSelection ==
  /\ IsSelect
  /\ \E o \in Option :
       LET u == Marked(ui, Top.id, o)
       IN IF Top.done /\ o \in Choice
            THEN Submit(Remember(u, o), Top.id, o, None)
            ELSE ui' = SyncDialogInput(u) /\ UNCHANGED answers
  /\ UNCHANGED <<asked, ask>>

Nothing == [what |-> "nothing", custom |-> None]

\* resolve_select_continue: what Continue, Done or Enter sends, and the answer that
\* is to follow it.  A typed answer, and a choice that was sent before, go by way of
\* Other.
SelectContinue(u, d) ==
  LET sel == u.draft.selected
  IN CASE sel = "other"         -> IF u.field = None THEN Nothing
                                   ELSE [what |-> "other", custom |-> u.field]
       [] d.done /\ sel # "other" -> [what |-> "ended", custom |-> u.custom]
       [] sel = "none" /\ ~d.done -> Nothing
       [] sel \in Choice /\ ~d.done ->
            IF u.memory.sent = sel THEN [what |-> "other", custom |-> d.id]
                                   ELSE [what |-> sel, custom |-> u.custom]

\* confirm_dialog_selection.
ConfirmDialogSelection ==
  /\ IsSelect /\ ui.draft.dialog = Top.id
  /\ LET next == SelectContinue(ui, Top)
     IN /\ next # Nothing
        /\ Submit(Remember([ui EXCEPT !.custom = next.custom], next.what), Top.id, next.what, None)
  /\ UNCHANGED <<asked, ask>>

\* The user types into the field the dialog at the head shows.
TypeAnswer ==
  /\ IsText(Top) \/ CustomAtHead(ui)
  /\ ui.field # Top.id
  /\ ui' = [ui EXCEPT !.field = Top.id]
  /\ UNCHANGED <<asked, answers, ask>>

\* submit_dialog_input.
SubmitDialogInput ==
  /\ IsText(Top) /\ ui.field # None
  /\ Submit(ui, Top.id, "ended", ui.field)
  /\ UNCHANGED <<asked, ask>>

\* handle_dialog_key: Escape, and y or n for a confirm.
DialogKey ==
  /\ ui.pending # <<>>
  /\ Submit(ui, Top.id, "ended", None)
  /\ UNCHANGED <<asked, ask>>

\* A dialog's timer, its generation not gone: the dialog leaves, the view syncs, and
\* omp is told that it timed out.
DialogTimerFires(id) ==
  /\ id \in ui.gens
  /\ LET u == [Without(ui, id) EXCEPT !.gens = @ \ {id}]
         told == IF client = NoConn THEN answers
                 ELSE [answers EXCEPT ![id] = Append(@, Answer(client, "ended", None))]
     IN IF id \in Ids(ui) THEN Synced(u, told) ELSE ui' = u /\ UNCHANGED answers
  /\ UNCHANGED <<asked, ask>>

-----------------------------------------------------------------------------
(* What the life of the view does to its dialogs.                            *)

Reset(u) == [u EXCEPT !.gens = {}, !.bound = NoBound, !.custom = None]
Emptied(u) == [u EXCEPT !.pending = <<>>]

\* handle_client_closed: a dead session keeps its dialogs, a restart drops them.
DialogsLost == /\ ui' = IF phase' = "dead" THEN Reset(ui) ELSE Emptied(Reset(ui))
               /\ ask' = NoAsk /\ UNCHANGED <<asked, answers>>

\* begin_connection of a session, mark_restarting, which keeps the rest; and
\* finish_connection, a new projection.
DialogsEmptied == ui' = Emptied(ui) /\ ask' = NoAsk /\ UNCHANGED <<asked, answers>>

\* return_to_launcher.
DialogsLeft == /\ ui' = [Emptied(Reset(ui)) EXCEPT !.field = None]
               /\ ask' = NoAsk /\ UNCHANGED <<asked, answers>>

DialogNext ==
  \/ AskOpens \/ AskGoesOn \/ OtherRequest \/ OmpCancels
  \/ MarkDialogSelection \/ ConfirmDialogSelection
  \/ TypeAnswer \/ SubmitDialogInput \/ DialogKey
  \/ \E id \in ui.gens : DialogTimerFires(id)
=============================================================================
