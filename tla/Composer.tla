------------------------------- MODULE Composer -------------------------------
(***************************************************************************)
(* The composer: the text the user types, what is pasted and attached, the *)
(* slash and mention menus over it, the three ways of sending it, and the  *)
(* Escape key that arms and then runs an abort.  Text is a set of pieces,  *)
(* each typed or pasted once.  A handler does not write the input widget:  *)
(* it leaves a value that the next paint puts there.  Of the dialogs and   *)
(* the host bridge (module Conversation) it sees whether anything waits.   *)
(***************************************************************************)
EXTENDS Link, Naturals, FiniteSets

CONSTANTS Piece,      \* pieces of text, and the attachments among them
          Attachable, \* pieces that are attachments: their marker is in the text
          NoPiece,
          MaxNow,     \* bound: readings of the clock
          MaxChildren \* bound: finished connects

ASSUME ComposerAssumption ==
  /\ Attachable \subseteq Piece /\ NoPiece \notin Piece
  /\ MaxNow \in Nat /\ MaxChildren \in Nat

VARIABLES
  dialog,       \* pending_dialogs is not empty
  request,      \* host_bridge.has_pending_requests
  children,     \* connects that finished
  input,        \* the pieces in the composer's widget
  value,        \* pending_composer_value: <<>>, or <<pieces>>
  clear,        \* clear_composer
  attached,     \* pending_attachments
  paste,        \* large_paste_pending
  menu,         \* slash_menu
  mention,      \* at_mention_open
  button,       \* the Send button was last painted enabled
  fresh,        \* pieces not yet typed
  sent,         \* how often each piece was sent, and with how many attachments of it
  arm,          \* abort_arm: its deadline and the status it covers, <<>> without
  status,       \* status_message: "abortArm", or another message
  now           \* the clock

textVars == <<input, value, clear, attached, paste, menu, mention, button, fresh, sent>>
armVars == <<arm, status, now>>
waitVars == <<dialog, request>>
vars == <<linkVars, waitVars, children, textVars, armVars>>

Message == {"ready", "busy"}     \* other status messages

TypeOK ==
  /\ LinkTypeOK
  /\ dialog \in BOOLEAN /\ request \in BOOLEAN
  /\ children \in 0..MaxChildren
  /\ input \subseteq Piece
  /\ value \in {<<>>} \cup {<<s>> : s \in SUBSET Piece}
  /\ clear \in BOOLEAN /\ mention \in BOOLEAN /\ button \in BOOLEAN
  /\ attached \subseteq Attachable
  /\ paste \in Piece \cup {NoPiece}
  /\ menu \in {"closed", "open", "dismissed"}
  /\ fresh \subseteq Piece
  /\ sent \in [Piece -> Nat]
  /\ arm \in {<<>>} \cup {<<[deadline |-> t, previous |-> m]>> :
                          t \in 0..MaxNow + 1, m \in Message}
  /\ status \in Message \cup {"abortArm"}
  /\ now \in 0..MaxNow

Init ==
  /\ LinkInit
  /\ dialog = FALSE /\ request = FALSE /\ children = 0
  /\ input = {} /\ value = <<>> /\ clear = FALSE
  /\ attached = {} /\ paste = NoPiece
  /\ menu = "closed" /\ mention = FALSE /\ button = FALSE
  /\ fresh = Piece /\ sent = [p \in Piece |-> 0]
  /\ arm = <<>> /\ status = "ready" /\ now = 0

-----------------------------------------------------------------------------
(* Sending.                                                                  *)

\* composer_draft: a value that waits for the paint counts before the widget.
Draft == IF value = <<>> THEN input ELSE value[1]

CanSend == /\ client # NoConn
           /\ phase \notin {"dead", "restarting"}
           /\ ~dialog /\ ~request

\* can_follow_up, and what the other two ask for.
CanFollowUp == CanSend /\ phase = "streaming" /\ (input # {} \/ attached # {})
SomethingToSend == Draft # {} \/ attached # {}

\* Slip: only clear_composer is set, and the draft stays until the paint.
ClearByPaint ==
  /\ value' = value /\ clear' = TRUE
  /\ attached' = {} /\ paste' = NoPiece /\ mention' = FALSE
  /\ UNCHANGED <<input, button, fresh>>

\* What every way of sending leaves of the composer.
ClearComposer ==
  /\ value' = <<{}>> /\ clear' = TRUE
  /\ attached' = {} /\ paste' = NoPiece /\ mention' = FALSE
  /\ UNCHANGED <<input, button, fresh>>

Deliver == sent' = [p \in Piece |-> sent[p] + IF p \in Draft \cup attached THEN 1 ELSE 0]

\* send_composer_message, as a prompt or, in a turn, as a steer.
SendComposerMessage ==
  /\ SomethingToSend /\ CanSend
  /\ Deliver
  /\ ClearComposer
  /\ menu' = "closed"
  /\ UNCHANGED armVars

\* The Send button: it was painted enabled, and empties the widget in any case.
ClickSend ==
  /\ button
  /\ IF SomethingToSend /\ CanSend
       THEN Deliver /\ attached' = {} /\ paste' = NoPiece /\ menu' = "closed" /\ mention' = FALSE
       ELSE UNCHANGED <<sent, attached, paste, menu, mention>>
  /\ input' = {} /\ value' = <<>> /\ clear' = FALSE
  /\ UNCHANGED <<button, fresh, armVars>>

\* do_follow_up; the slash menu stays.
DoFollowUp ==
  /\ CanFollowUp
  /\ SomethingToSend
  /\ Deliver
  /\ ClearComposer
  /\ UNCHANGED <<menu, armVars>>

ClearAbortArm ==
  /\ arm' = <<>>
  /\ status' = IF arm # <<>> /\ status = "abortArm" THEN arm[1].previous ELSE status

\* request_abort_and_prompt: whatever waits for an answer.
AbortAndPrompt ==
  /\ client # NoConn /\ SomethingToSend
  /\ Deliver
  /\ ClearComposer
  /\ menu' = "closed"
  /\ ClearAbortArm
  /\ UNCHANGED now

-----------------------------------------------------------------------------
(* Writing.                                                                  *)

\* The paint: a value that waits goes to the widget, else the clear flag does.
Paint ==
  /\ value # <<>> \/ clear \/ button # CanSend
  /\ input' = CASE value # <<>> -> value[1]
                [] value = <<>> /\ clear -> {}
                [] OTHER -> input
  /\ value' = <<>>
  /\ clear' = (clear /\ value # <<>>)
  /\ button' = CanSend
  /\ UNCHANGED <<attached, paste, menu, mention, fresh, sent, armVars>>

\* on_composer_event, Change: the menus follow the text, whatever it reads.
Menus == /\ menu' \in {"closed", "open"}
         /\ mention' \in BOOLEAN

TypePiece ==
  /\ \E p \in fresh \ Attachable : input' = input \cup {p} /\ fresh' = fresh \ {p}
  /\ Menus
  /\ UNCHANGED <<value, clear, attached, paste, button, sent, armVars>>

ErasePiece ==
  /\ \E p \in input : input' = input \ {p}
  /\ Menus
  /\ UNCHANGED <<value, clear, attached, paste, fresh, button, sent, armVars>>

\* append_composer_fragment.
AppendFragment(p) == value' = <<Draft \cup {p}>>

\* add_pending_attachment, for each: an attachment and its marker.
AddPendingAttachments(new) ==
  /\ fresh' = fresh \ new /\ attached' = attached \cup new
  /\ value' = <<Draft \cup new>>
  /\ UNCHANGED <<input, clear, paste, menu, button, sent, armVars>>

\* add_attachment_paths, for files pasted, dropped or picked: those attached already
\* and those that cannot be read are passed over.
AddAttachmentPaths ==
  /\ \E new \in SUBSET (fresh \cap Attachable) : new # {} /\ AddPendingAttachments(new)
  /\ UNCHANGED mention

\* accept_at_mention: the path takes the mention's place, and is attached if it is not yet.
AcceptAtMention ==
  /\ \E p \in (fresh \cap Attachable) \cup attached : AddPendingAttachments({p})
  /\ mention' = FALSE

\* remove_attachment_at, with its marker.
RemoveAttachment ==
  /\ \E p \in attached : attached' = attached \ {p} /\ value' = <<Draft \ {p}>>
  /\ UNCHANGED <<input, clear, paste, menu, mention, fresh, button, sent, armVars>>

\* handle_clipboard_item with a long text: it waits for a choice.
PasteLarge ==
  /\ \E p \in fresh \ Attachable : paste' = p /\ fresh' = fresh \ {p}
  /\ UNCHANGED <<input, value, clear, attached, menu, mention, button, sent, armVars>>

\* apply_large_paste_choice: wrapped, saved or inlined, it joins the draft.
LargePasteChoice ==
  /\ paste # NoPiece
  /\ AppendFragment(paste)
  /\ paste' = NoPiece
  /\ UNCHANGED <<input, clear, attached, menu, mention, fresh, button, sent, armVars>>

\* accept_slash_command: the completion replaces the draft.
AcceptSlashCommand ==
  /\ menu = "open"
  /\ \E p \in fresh \ Attachable : value' = <<{p}>> /\ fresh' = fresh \ {p}
  /\ menu' \in {"open", "dismissed"}
  /\ UNCHANGED <<input, clear, attached, paste, mention, button, sent, armVars>>

\* handle_attachment_overlay_key: a pasted text takes every key, and Escape inlines it;
\* then the list of files, which Escape closes and Enter picks from.
AttachmentOverlayKey ==
  \/ LargePasteChoice
  \/ paste = NoPiece /\ mention /\ AcceptAtMention
  \/ /\ paste = NoPiece /\ mention /\ mention' = FALSE
     /\ UNCHANGED <<input, value, clear, attached, paste, menu, fresh, button, sent, armVars>>

\* handle_slash_key, Escape and Enter.
SlashKey ==
  /\ menu = "open" /\ ~mention /\ paste = NoPiece
  /\ \/ AcceptSlashCommand
     \/ /\ menu' = "dismissed"
        /\ UNCHANGED <<input, value, clear, attached, paste, mention, fresh, button, sent, armVars>>

\* on_composer_event, PressEnter: the slash menu takes the key if it has a match and
\* the command key is not held; a pasted text swallows it.
PressEnter ==
  /\ ~mention /\ paste = NoPiece
  /\ AcceptSlashCommand \/ SendComposerMessage

-----------------------------------------------------------------------------
(* Escape.                                                                   *)

CanAbort == client # NoConn /\ phase = "streaming"

\* arm_abort: an arm that is left is taken back first, with its prompt.
ArmAbort ==
  LET covered == IF arm # <<>> /\ status = "abortArm" THEN arm[1].previous ELSE status
  IN /\ arm' = <<[deadline |-> now + 1, previous |-> covered]>>
     /\ status' = "abortArm"

\* handle_abort_esc_key, when no dialog and no menu takes the key: within the
\* window of an arm it is do_abort, else it arms.
EscapeKey ==
  /\ CanAbort
  /\ ~dialog /\ ~mention /\ menu # "open" /\ paste = NoPiece
  /\ IF arm # <<>> /\ now < arm[1].deadline THEN ClearAbortArm ELSE ArmAbort
  /\ UNCHANGED <<textVars, now>>

\* The arm's own timer: only the arm it was started for is taken back.
ArmExpires ==
  /\ arm # <<>> /\ now >= arm[1].deadline
  /\ ClearAbortArm
  /\ UNCHANGED <<textVars, now>>

\* Some handler says something else in the status line.
OtherStatus ==
  /\ status' \in Message /\ status' # status
  /\ UNCHANGED <<textVars, arm, now>>

Later == now < MaxNow /\ now' = now + 1 /\ UNCHANGED <<textVars, arm, status>>

-----------------------------------------------------------------------------
(* What the life of the view does to its composer, and what omp asks.        *)

\* A dialog or a host request comes or goes.
Asked == /\ client # NoConn
         /\ dialog' \in BOOLEAN /\ request' \in BOOLEAN
         /\ waitVars' # waitVars
         /\ UNCHANGED <<linkVars, children, textVars, armVars>>

\* finish_connection of a view that has no client.
Attached ==
  /\ client = NoConn /\ children < MaxChildren
  /\ \E c \in Conn : LinkAttach(c)
  /\ children' = children + 1
  /\ status' = "ready" /\ dialog' = FALSE
  /\ UNCHANGED <<request, textVars, arm, now>>

\* A batch of frames that starts or ends a turn: after it the pump takes the arm
\* back if nothing can be aborted.
Turn ==
  /\ client # NoConn
  /\ LinkTurn /\ phase' # phase
  /\ IF phase' = "streaming" THEN UNCHANGED <<arm, status>> ELSE ClearAbortArm
  /\ UNCHANGED <<waitVars, children, textVars, now>>

\* Slip: the arm is taken back before the status is set, prompt and all.
LoseKeepsArm ==
  /\ client # NoConn
  /\ LinkLost
  /\ dialog' = (dialog /\ phase' = "dead") /\ request' = FALSE
  /\ arm' = <<>> /\ status' \in {"busy", status}
  /\ UNCHANGED <<children, textVars, now>>

\* handle_client_closed: a status, dead sessions keep their dialogs, and the
\* batch ends with nothing to abort.
Lose ==
  /\ client # NoConn
  /\ LinkLost
  /\ dialog' = (dialog /\ phase' = "dead") /\ request' = FALSE
  /\ arm' = <<>> /\ status' = "busy"
  /\ UNCHANGED <<children, textVars, now>>

\* begin_connection of a session and start_omp_update: clear_abort_arm, a status.
Recycle ==
  /\ client # NoConn \/ phase = "dead"
  /\ LinkRecycle
  /\ dialog' = FALSE /\ request' = FALSE
  /\ arm' = <<>> /\ status' = "busy"
  /\ UNCHANGED <<children, textVars, now>>

\* finish_connection with an error.
ConnectFails ==
  /\ client = NoConn /\ phase = "restarting"
  /\ LinkFail
  /\ status' = "busy"
  /\ UNCHANGED <<waitVars, children, textVars, arm, now>>

\* return_to_launcher: the composer is emptied by a later paint, its attachments stay.
Leave ==
  /\ phase # "idle" \/ client # NoConn
  /\ LinkLeave /\ phase' = "idle"
  /\ dialog' = FALSE /\ request' = FALSE
  /\ clear' = TRUE /\ menu' = "closed"
  /\ arm' = <<>> /\ status' = "ready"
  /\ UNCHANGED <<children, input, value, attached, paste, mention, button, fresh, sent, now>>

WriteStep ==
  /\ \/ SendComposerMessage \/ ClickSend \/ DoFollowUp \/ AbortAndPrompt
     \/ Paint \/ TypePiece \/ ErasePiece \/ AddAttachmentPaths \/ RemoveAttachment
     \/ PasteLarge \/ AttachmentOverlayKey \/ AcceptSlashCommand \/ SlashKey \/ PressEnter
     \/ EscapeKey \/ ArmExpires \/ OtherStatus \/ Later
  /\ UNCHANGED <<linkVars, waitVars, children>>

Next == WriteStep \/ Asked \/ Attached \/ Turn \/ Lose \/ Recycle \/ ConnectFails \/ Leave

Spec == Init /\ [][Next]_vars

-----------------------------------------------------------------------------
(* Properties.                                                               *)

\* No piece of text and no attachment is sent twice, though the widget is emptied
\* only by a later paint and keys may come before it.
SentOnce == \A p \in Piece : sent[p] <= 1

\* The status line asks for a second Escape only while the first one is armed: no
\* overlap of timers, turns and restarts leaves the prompt behind.
PromptMeansArmed == status = "abortArm" => arm # <<>>
=============================================================================
