---------------------------- MODULE ComposerProofs ----------------------------
(***************************************************************************)
(* What is proved of Composer, for any pieces of text and any clock: no    *)
(* piece is sent twice, and the Escape prompt stands only over an arm.     *)
(***************************************************************************)
EXTENDS Composer, TLAPS

Arms == {<<[deadline |-> t, previous |-> m]>> : t \in 0..MaxNow + 1, m \in Message}

\* The arm and its prompt: a message covered by the prompt is never the prompt,
\* which is so only because the prompt means an arm.
ArmInv ==
  /\ arm \in {<<>>} \cup Arms /\ status \in Message \cup {"abortArm"} /\ now \in 0..MaxNow
  /\ PromptMeansArmed

TextTypeOK ==
  /\ input \subseteq Piece /\ value \in {<<>>} \cup {<<s>> : s \in SUBSET Piece}
  /\ clear \in BOOLEAN /\ mention \in BOOLEAN /\ button \in BOOLEAN
  /\ attached \subseteq Attachable /\ paste \in Piece \cup {NoPiece}
  /\ menu \in {"closed", "open", "dismissed"}
  /\ fresh \subseteq Piece /\ sent \in [Piece -> Nat]

\* Where a piece that was sent no longer is, and where one not yet typed is not.
Gone(p) == p \notin Draft /\ p \notin attached /\ p # paste
TextInv ==
  /\ TextTypeOK /\ SentOnce
  /\ \A p \in Piece : sent[p] # 0 => p \notin fresh /\ Gone(p)
  /\ \A p \in fresh : Gone(p)

LifeTypeOK ==
  LinkTypeOK /\ dialog \in BOOLEAN /\ request \in BOOLEAN /\ children \in 0..MaxChildren

-----------------------------------------------------------------------------
(* The arm.                                                                  *)

\* What taking the arm back leaves.
LEMMA ClearArm ==
  ASSUME ArmInv, ClearAbortArm, UNCHANGED now
  PROVE  ArmInv'
<1>1. CASE arm = <<>>
  BY <1>1 DEF ClearAbortArm, ArmInv, PromptMeansArmed
<1>2. CASE arm # <<>>
  <2>1. PICK t \in 0..MaxNow + 1, m \in Message : arm = <<[deadline |-> t, previous |-> m]>>
    BY <1>2 DEF ArmInv, Arms
  <2>2. arm[1].previous \in Message
    BY <2>1
  <2>3. status' \in Message
    BY <1>2, <2>2 DEF ClearAbortArm, ArmInv
  <2> QED
    BY <2>3 DEF ClearAbortArm, ArmInv, PromptMeansArmed, Message
<1> QED
  BY <1>1, <1>2

\* An arm covers a message, never the prompt of the arm before.
LEMMA Arming ==
  ASSUME ArmInv, ArmAbort, UNCHANGED now
  PROVE  ArmInv'
<1> DEFINE covered == IF arm # <<>> /\ status = "abortArm" THEN arm[1].previous ELSE status
<1>1. covered \in Message
  <2>1. CASE arm = <<>> \/ status # "abortArm"
    BY <2>1 DEF ArmInv, PromptMeansArmed
  <2>2. CASE arm # <<>> /\ status = "abortArm"
    <3>1. PICK t \in 0..MaxNow + 1, m \in Message : arm = <<[deadline |-> t, previous |-> m]>>
      BY <2>2 DEF ArmInv, Arms
    <3> QED
      BY <2>2, <3>1
  <2> QED
    BY <2>1, <2>2
<1>2. arm' = <<[deadline |-> now + 1, previous |-> covered]>> /\ status' = "abortArm"
  BY DEF ArmAbort
<1>3. now + 1 \in 0..MaxNow + 1
  BY ComposerAssumption DEF ArmInv
<1>4. arm' \in Arms /\ arm' # <<>>
  <2> HIDE DEF covered
  <2> QED
    BY <1>1, <1>2, <1>3 DEF Arms
<1> QED
  BY <1>2, <1>4 DEF ArmInv, PromptMeansArmed

LEMMA ArmKept == ASSUME ArmInv, UNCHANGED armVars PROVE ArmInv'
  BY DEF ArmInv, armVars, PromptMeansArmed

LEMMA WriteKeepsArm == ASSUME ArmInv, WriteStep PROVE ArmInv'
<1>1. CASE SendComposerMessage \/ ClickSend \/ DoFollowUp \/ Paint
  BY <1>1, ArmKept DEF SendComposerMessage, ClickSend, DoFollowUp, Paint
<1>2. CASE AbortAndPrompt
  BY <1>2, ClearArm DEF AbortAndPrompt
<1>3. CASE TypePiece \/ ErasePiece \/ RemoveAttachment \/ PasteLarge
  BY <1>3, ArmKept DEF TypePiece, ErasePiece, RemoveAttachment, PasteLarge
<1>4. CASE AddAttachmentPaths
  BY <1>4, ArmKept DEF AddAttachmentPaths, AddPendingAttachments
<1>5. CASE AttachmentOverlayKey
  BY <1>5, ArmKept DEF AttachmentOverlayKey, LargePasteChoice, AcceptAtMention,
                       AddPendingAttachments
<1>6. CASE AcceptSlashCommand \/ SlashKey \/ PressEnter
  BY <1>6, ArmKept DEF AcceptSlashCommand, SlashKey, PressEnter, SendComposerMessage
<1>7. CASE EscapeKey
  BY <1>7, ClearArm, Arming DEF EscapeKey
<1>8. CASE ArmExpires
  BY <1>8, ClearArm DEF ArmExpires
<1>9. CASE OtherStatus
  BY <1>9 DEF OtherStatus, ArmInv, PromptMeansArmed, Message
<1>10. CASE Later
  BY <1>10, ComposerAssumption DEF Later, ArmInv, PromptMeansArmed
<1> QED
  BY <1>1, <1>2, <1>3, <1>4, <1>5, <1>6, <1>7, <1>8, <1>9, <1>10 DEF WriteStep

\* Whatever ends a turn or a client takes the arm back, or sets a status of its own.
LEMMA LifeKeepsArm ==
  ASSUME ArmInv, Asked \/ Attached \/ Turn \/ Lose \/ Recycle \/ ConnectFails \/ Leave
  PROVE  ArmInv'
<1> USE DEF ArmInv, PromptMeansArmed, Message
<1>1. CASE Asked
  BY <1>1, ArmKept DEF Asked
<1>2. CASE Attached
  BY <1>2 DEF Attached
<1>3. CASE Turn
  BY <1>3, ClearArm DEF Turn
<1>4. CASE Lose
  BY <1>4 DEF Lose
<1>5. CASE Recycle
  BY <1>5 DEF Recycle
<1>6. CASE ConnectFails
  BY <1>6 DEF ConnectFails
<1>7. CASE Leave
  BY <1>7 DEF Leave
<1> QED
  BY <1>1, <1>2, <1>3, <1>4, <1>5, <1>6, <1>7

LEMMA InitialArm == Init => ArmInv
  BY ComposerAssumption DEF Init, ArmInv, PromptMeansArmed, Message

\* The status line asks for a second Escape only while the first one is armed
\* (PromptMeansArmed), for any clock and any order of timers, turns and restarts.
THEOREM PromptArmed == Spec => []PromptMeansArmed
<1>1. Init => ArmInv
  BY InitialArm
<1>2. ArmInv /\ [Next]_vars => ArmInv'
  BY WriteKeepsArm, LifeKeepsArm, ArmKept DEF Next, vars, armVars
<1>3. ArmInv => PromptMeansArmed
  BY DEF ArmInv
<1> QED
  BY <1>1, <1>2, <1>3, PTL DEF Spec

-----------------------------------------------------------------------------
(* The text.                                                                 *)

\* A value that waits for the paint is the draft.
LEMMA WaitingDraft == ASSUME NEW S, value' = <<S>> PROVE Draft' = S
  BY DEF Draft

LEMMA DraftType == ASSUME TextTypeOK PROVE Draft \subseteq Piece
<1>1. CASE value = <<>>
  BY <1>1 DEF TextTypeOK, Draft
<1>2. CASE value # <<>>
  <2>1. PICK s \in SUBSET Piece : value = <<s>>
    BY <1>2 DEF TextTypeOK
  <2> QED
    BY <2>1 DEF Draft
<1> QED
  BY <1>1, <1>2

\* A draft that is replaced by pieces of itself, of what was pasted and of what was
\* not yet typed; TextInv needs to know of a step no more than this.
LEMMA DraftStep ==
  ASSUME TextInv, UNCHANGED sent, TextTypeOK',
         fresh' \subseteq fresh,
         Draft' \subseteq Draft \cup attached \cup ({paste} \ {NoPiece}) \cup (fresh \ fresh'),
         attached' \subseteq attached \cup (fresh \ fresh'),
         paste' \in {paste, NoPiece} \cup (fresh \ fresh')
  PROVE  TextInv'
<1>1. \A p \in Piece : sent[p] # 0 => p \notin fresh /\ Gone(p)
  BY DEF TextInv
<1>2. NoPiece \notin Piece
  BY ComposerAssumption
<1>3. fresh' \subseteq Piece /\ fresh \subseteq Piece
  BY DEF TextInv, TextTypeOK
<1>4. ASSUME NEW p \in Piece, sent[p] # 0 \/ p \in fresh' PROVE Gone(p)'
  <2>1. p \notin fresh \ fresh' /\ Gone(p)
    BY <1>1, <1>3, <1>4 DEF TextInv
  <2> QED
    BY <2>1, <1>2 DEF Gone
<1>5. \A p \in Piece : sent'[p] # 0 => p \notin fresh' /\ Gone(p)'
  BY <1>1, <1>4
<1>6. \A p \in fresh' : Gone(p)'
  BY <1>3, <1>4
<1> QED
  BY <1>5, <1>6 DEF TextInv, SentOnce

\* What is sent leaves the composer in the same step.
LEMMA DeliverStep ==
  ASSUME TextInv, Deliver, Draft' = {}, attached' = {}, paste' = NoPiece, fresh' = fresh,
         button' = button, input' \subseteq input, value' \in {<<>>, <<{}>>},
         clear' \in BOOLEAN, mention' = FALSE, menu' \in {menu, "closed"}
  PROVE  TextInv'
<1>1. Draft \subseteq Piece /\ attached \subseteq Piece
  BY DraftType, ComposerAssumption DEF TextInv, TextTypeOK
<1>2. sent \in [Piece -> Nat] /\ \A p \in Piece : sent[p] <= 1
  BY DEF TextInv, TextTypeOK, SentOnce
<1>3. sent' \in [Piece -> Nat]
  BY <1>2 DEF Deliver
<1>4. ASSUME NEW p \in Piece PROVE sent'[p] <= 1 /\ (sent'[p] # 0 => p \notin fresh)
  <2>1. CASE p \in Draft \cup attached
    <3>1. ~Gone(p)
      BY <2>1 DEF Gone
    <3>2. sent[p] = 0 /\ p \notin fresh
      BY <1>2, <3>1 DEF TextInv
    <3> QED
      BY <2>1, <3>2 DEF Deliver
  <2>2. CASE p \notin Draft \cup attached
    <3>1. sent'[p] = sent[p]
      BY <1>2, <2>2 DEF Deliver
    <3> QED
      BY <1>2, <3>1 DEF TextInv
  <2> QED
    BY <2>1, <2>2
<1>5. TextTypeOK'
  BY <1>3 DEF TextInv, TextTypeOK
<1>6. \A p \in Piece : Gone(p)'
  BY ComposerAssumption DEF Gone
<1> QED
  BY <1>4, <1>5, <1>6 DEF TextInv, SentOnce, TextTypeOK

LEMMA SendKeepsText == ASSUME TextInv, SendComposerMessage PROVE TextInv'
<1>1. Draft' = {}
  BY WaitingDraft DEF SendComposerMessage, ClearComposer
<1> QED
  BY <1>1, DeliverStep DEF SendComposerMessage, ClearComposer

LEMMA ClickKeepsText == ASSUME TextInv, ClickSend PROVE TextInv'
<1>1. Draft' = {}
  BY DEF ClickSend, Draft
<1>2. CASE SomethingToSend /\ CanSend
  BY <1>1, <1>2, DeliverStep DEF ClickSend
<1>3. CASE ~(SomethingToSend /\ CanSend)
  <2>1. TextTypeOK'
    BY <1>3 DEF ClickSend, TextInv, TextTypeOK
  <2> QED
    BY <1>1, <1>3, <2>1, DraftStep DEF ClickSend
<1> QED
  BY <1>2, <1>3

LEMMA OtherSendsKeepText ==
  ASSUME TextInv, DoFollowUp \/ AbortAndPrompt PROVE TextInv'
<1>1. ClearComposer /\ Deliver /\ menu' \in {menu, "closed"}
  BY DEF DoFollowUp, AbortAndPrompt
<1>2. Draft' = {}
  BY <1>1, WaitingDraft DEF ClearComposer
<1> QED
  BY <1>1, <1>2, DeliverStep DEF ClearComposer

\* A paint, a key or an erased word shows no piece that was not in the draft.
LEMMA WidgetKeepsText ==
  ASSUME TextInv, Paint \/ TypePiece \/ ErasePiece PROVE TextInv'
<1> USE DEF TextInv, TextTypeOK, Draft
<1>1. CASE Paint
  <2>1. CASE value = <<>>
    <3>1. TextTypeOK'
      BY <1>1, <2>1 DEF Paint, CanSend
    <3> QED
      BY <1>1, <2>1, <3>1, DraftStep DEF Paint
  <2>2. CASE value # <<>>
    <3>1. input' = Draft /\ Draft' = Draft
      BY <1>1, <2>2 DEF Paint
    <3>2. TextTypeOK'
      BY <1>1, <2>2, <3>1, DraftType DEF Paint, CanSend
    <3> QED
      BY <1>1, <3>1, <3>2, DraftStep DEF Paint
  <2> QED
    BY <2>1, <2>2
<1>2. CASE TypePiece
  <2>1. PICK p \in fresh \ Attachable : input' = input \cup {p} /\ fresh' = fresh \ {p}
    BY <1>2 DEF TypePiece
  <2>2. TextTypeOK'
    BY <1>2, <2>1 DEF TypePiece, Menus
  <2> QED
    BY <1>2, <2>1, <2>2, DraftStep DEF TypePiece
<1>3. CASE ErasePiece
  <2>1. PICK p \in input : input' = input \ {p}
    BY <1>3 DEF ErasePiece
  <2>2. TextTypeOK'
    BY <1>3, <2>1 DEF ErasePiece, Menus
  <2> QED
    BY <1>3, <2>1, <2>2, DraftStep DEF ErasePiece
<1> QED
  BY <1>1, <1>2, <1>3

\* Attaching, pasting and completing move pieces on, or drop them.
LEMMA AttachKeepsText ==
  ASSUME TextInv, NEW new \in SUBSET ((fresh \cap Attachable) \cup attached),
         AddPendingAttachments(new), mention' \in BOOLEAN
  PROVE  TextInv'
<1>1. Draft' = Draft \cup new
  BY WaitingDraft DEF AddPendingAttachments
<1>2. TextTypeOK'
  BY DraftType, ComposerAssumption DEF AddPendingAttachments, TextInv, TextTypeOK
<1> QED
  BY <1>1, <1>2, DraftStep DEF AddPendingAttachments

LEMMA PasteChoiceKeepsText == ASSUME TextInv, LargePasteChoice PROVE TextInv'
<1>1. Draft' = Draft \cup {paste}
  BY WaitingDraft DEF LargePasteChoice, AppendFragment
<1>2. TextTypeOK'
  BY DraftType DEF LargePasteChoice, AppendFragment, TextInv, TextTypeOK
<1> QED
  BY <1>1, <1>2, DraftStep DEF LargePasteChoice

LEMMA AcceptKeepsText == ASSUME TextInv, AcceptSlashCommand PROVE TextInv'
<1>1. PICK p \in fresh \ Attachable : value' = <<{p}>> /\ fresh' = fresh \ {p}
  BY DEF AcceptSlashCommand
<1>2. Draft' = {p}
  BY <1>1, WaitingDraft
<1>3. TextTypeOK'
  BY <1>1 DEF AcceptSlashCommand, TextInv, TextTypeOK
<1> QED
  BY <1>1, <1>2, <1>3, DraftStep DEF AcceptSlashCommand

LEMMA TextKept == ASSUME TextInv, UNCHANGED textVars PROVE TextInv'
  BY DEF TextInv, TextTypeOK, SentOnce, Gone, Draft, textVars

\* A menu that closes.
LEMMA MenusKeepText ==
  ASSUME TextInv, menu' \in {menu, "closed", "dismissed"}, mention' \in {mention, FALSE},
         clear' \in {clear, TRUE},
         UNCHANGED <<input, value, attached, paste, fresh, button, sent>>
  PROVE  TextInv'
<1>1. TextTypeOK'
  BY DEF TextInv, TextTypeOK
<1>2. Draft' = Draft
  BY DEF Draft
<1> QED
  BY <1>1, <1>2, DraftStep

LEMMA WriteKeepsText == ASSUME TextInv, WriteStep PROVE TextInv'
<1>1. CASE SendComposerMessage \/ ClickSend \/ DoFollowUp \/ AbortAndPrompt
  BY <1>1, SendKeepsText, ClickKeepsText, OtherSendsKeepText
<1>2. CASE Paint \/ TypePiece \/ ErasePiece
  BY <1>2, WidgetKeepsText
<1>3. CASE AddAttachmentPaths
  <2>1. PICK new \in SUBSET (fresh \cap Attachable) : AddPendingAttachments(new)
    BY <1>3 DEF AddAttachmentPaths
  <2>2. mention' \in BOOLEAN
    BY <1>3 DEF AddAttachmentPaths, TextInv, TextTypeOK
  <2> QED
    BY <2>1, <2>2, AttachKeepsText
<1>4. CASE RemoveAttachment
  <2>1. PICK p \in attached : attached' = attached \ {p} /\ value' = <<Draft \ {p}>>
    BY <1>4 DEF RemoveAttachment
  <2>2. Draft' = Draft \ {p}
    BY <2>1, WaitingDraft
  <2>3. TextTypeOK'
    BY <1>4, <2>1, DraftType DEF RemoveAttachment, TextInv, TextTypeOK
  <2> QED
    BY <1>4, <2>1, <2>2, <2>3, DraftStep DEF RemoveAttachment
<1>5. CASE PasteLarge
  <2>1. PICK p \in fresh \ Attachable : paste' = p /\ fresh' = fresh \ {p}
    BY <1>5 DEF PasteLarge
  <2>2. TextTypeOK' /\ Draft' = Draft
    BY <1>5, <2>1 DEF PasteLarge, TextInv, TextTypeOK, Draft
  <2> QED
    BY <1>5, <2>1, <2>2, DraftStep DEF PasteLarge
<1>6. CASE AttachmentOverlayKey
  <2>1. CASE AcceptAtMention
    <3>1. PICK p \in (fresh \cap Attachable) \cup attached : AddPendingAttachments({p})
      BY <2>1 DEF AcceptAtMention
    <3> QED
      BY <2>1, <3>1, AttachKeepsText DEF AcceptAtMention
  <2>2. CASE LargePasteChoice
    BY <2>2, PasteChoiceKeepsText
  <2> QED
    BY <1>6, <2>1, <2>2, MenusKeepText DEF AttachmentOverlayKey
<1>7. CASE AcceptSlashCommand \/ SlashKey \/ PressEnter
  BY <1>7, AcceptKeepsText, SendKeepsText, MenusKeepText DEF SlashKey, PressEnter
<1>8. CASE EscapeKey \/ ArmExpires \/ OtherStatus \/ Later
  BY <1>8, TextKept DEF EscapeKey, ArmExpires, OtherStatus, Later
<1> QED
  BY <1>1, <1>2, <1>3, <1>4, <1>5, <1>6, <1>7, <1>8 DEF WriteStep

\* Nothing that happens to the view puts a piece back.
LEMMA LifeKeepsText ==
  ASSUME TextInv, Asked \/ Attached \/ Turn \/ Lose \/ Recycle \/ ConnectFails \/ Leave
  PROVE  TextInv'
<1>1. CASE Leave
  BY <1>1, MenusKeepText DEF Leave
<1>2. CASE ~Leave
  BY <1>2, TextKept DEF Asked, Attached, Turn, Lose, Recycle, ConnectFails
<1> QED
  BY <1>1, <1>2

LEMMA InitialText == Init => TextInv
<1> SUFFICES ASSUME Init PROVE TextInv
  OBVIOUS
<1>1. Draft = {}
  BY DEF Init, Draft
<1>2. \A p \in Piece : sent[p] = 0 /\ Gone(p)
  BY <1>1, ComposerAssumption DEF Init, Gone
<1>3. TextTypeOK
  BY DEF Init, TextTypeOK
<1>4. fresh = Piece
  BY DEF Init
<1> QED
  BY <1>2, <1>3, <1>4 DEF TextInv, SentOnce

\* No piece of text and no attachment is sent twice (SentOnce), for any pieces and
\* any order of keys, paints and restarts.
THEOREM NothingSentTwice == Spec => []SentOnce
<1>1. Init => TextInv
  BY InitialText
<1>2. TextInv /\ [Next]_vars => TextInv'
  BY WriteKeepsText, LifeKeepsText, TextKept DEF Next, vars
<1>3. TextInv => SentOnce
  BY DEF TextInv
<1> QED
  BY <1>1, <1>2, <1>3, PTL DEF Spec

-----------------------------------------------------------------------------
(* Types.                                                                    *)

LEMMA LifeTypes ==
  ASSUME LifeTypeOK, Next PROVE LifeTypeOK'
<1> USE DEF LifeTypeOK, LinkTypeOK
<1>1. CASE WriteStep
  BY <1>1 DEF WriteStep, linkVars, waitVars
<1>2. CASE Asked
  BY <1>2 DEF Asked, linkVars
<1>3. CASE Attached
  <2>1. client' \in Conn /\ phase' = "idle"
    BY <1>3 DEF Attached, LinkAttach
  <2>2. children' \in 0..MaxChildren
    BY <1>3, ComposerAssumption DEF Attached
  <2> QED
    BY <1>3, <2>1, <2>2 DEF Attached
<1>4. CASE Turn
  BY <1>4 DEF Turn, LinkTurn, waitVars
<1>5. CASE Lose
  BY <1>5 DEF Lose, LinkLost
<1>6. CASE Recycle
  BY <1>6 DEF Recycle, LinkRecycle
<1>7. CASE ConnectFails
  BY <1>7 DEF ConnectFails, LinkFail, waitVars
<1>8. CASE Leave
  BY <1>8 DEF Leave, LinkLeave
<1> QED
  BY <1>1, <1>2, <1>3, <1>4, <1>5, <1>6, <1>7, <1>8 DEF Next

\* Every reachable composer is well typed; the type of the arm rests on the prompt
\* being one's own, since an arm keeps the message it covers.
THEOREM ComposerTypeCorrect == Spec => []TypeOK
<1>1. Init => TextInv /\ ArmInv /\ LifeTypeOK
  <2>1. 0 \in 0..MaxChildren
    BY ComposerAssumption
  <2>2. Init => LinkTypeOK
    BY DEF Init, LinkTypeOK, LinkInit
  <2>3. Init => LifeTypeOK
    BY <2>1, <2>2 DEF Init, LifeTypeOK
  <2> QED
    BY <2>3, InitialText, InitialArm
<1>2. TextInv /\ ArmInv /\ LifeTypeOK /\ [Next]_vars => (TextInv /\ ArmInv /\ LifeTypeOK)'
  <2>1. TextInv /\ [Next]_vars => TextInv'
    BY WriteKeepsText, LifeKeepsText, TextKept DEF Next, vars
  <2>2. ArmInv /\ [Next]_vars => ArmInv'
    BY WriteKeepsArm, LifeKeepsArm, ArmKept DEF Next, vars, armVars
  <2>3. LifeTypeOK /\ [Next]_vars => LifeTypeOK'
    BY LifeTypes DEF vars, linkVars, waitVars, LifeTypeOK, LinkTypeOK
  <2> QED
    BY <2>1, <2>2, <2>3
<1>3. TextInv /\ ArmInv /\ LifeTypeOK => TypeOK
  BY DEF TextInv, TextTypeOK, ArmInv, Arms, LifeTypeOK, TypeOK
<1> QED
  BY <1>1, <1>2, <1>3, PTL DEF Spec
=============================================================================
