-------------------------- MODULE ConversationProofs --------------------------
(***************************************************************************)
(* What is proved of Conversation, for any number of children, dialogs and *)
(* host requests: no request of omp is answered twice, by a child that did *)
(* not ask, or after it was taken back; and the answer field, the timers   *)
(* and the checks of a select belong to the dialog they are shown with.    *)
(***************************************************************************)
EXTENDS Conversation, SequenceTheorems, FiniteSetTheorems, WellFoundedInduction, TLAPS

-----------------------------------------------------------------------------
(* Numbers and sequences.                                                    *)

LEMMA LeastNumber ==
  ASSUME NEW S \in SUBSET Nat, S # {}
  PROVE  Min(S) \in S /\ \A y \in S : Min(S) <= y
<1>1. PICK x \in S : \A y \in S : ~(<<y, x>> \in OpToRel(<, Nat))
  BY NatLessThanWellFounded, WFMin
<1>2. ASSUME NEW y \in S, y < x PROVE FALSE
  <2>1. <<y, x>> \in Nat \X Nat /\ <<y, x>>[1] < <<y, x>>[2]
    BY <1>2
  <2>2. <<y, x>> \in {p \in Nat \X Nat : p[1] < p[2]}
    BY <2>1
  <2> QED
    BY <1>1, <2>2 DEF OpToRel
<1>3. \E m \in S : \A y \in S : m <= y
  BY <1>2
<1> QED
  BY <1>3 DEF Min

LEMMA RemovedOne ==
  ASSUME NEW D, NEW s \in Seq(D), NEW i \in 1..Len(s)
  PROVE  /\ RemoveAt(s, i) \in Seq(D) /\ Len(RemoveAt(s, i)) = Len(s) - 1
         /\ \A j \in 1..Len(s) - 1 : RemoveAt(s, i)[j] = IF j < i THEN s[j] ELSE s[j + 1]
<1> DEFINE before == SubSeq(s, 1, i - 1)
           behind == SubSeq(s, i + 1, Len(s))
<1>1. before \in Seq(D) /\ Len(before) = i - 1 /\ \A j \in 1..i - 1 : before[j] = s[j]
  BY SubSeqProperties
<1>2. /\ behind \in Seq(D) /\ Len(behind) = Len(s) - i
      /\ \A j \in 1..Len(s) - i : behind[j] = s[i + j]
  BY SubSeqProperties
<1>3. RemoveAt(s, i) = before \o behind
  BY DEF RemoveAt
<1> HIDE DEF before, behind
<1>4. /\ before \o behind \in Seq(D) /\ Len(before \o behind) = Len(before) + Len(behind)
      /\ \A j \in 1..Len(before) + Len(behind) : (before \o behind)[j] =
           IF j <= Len(before) THEN before[j] ELSE behind[j - Len(before)]
  BY <1>1, <1>2, ConcatProperties
<1>5. Len(s) \in Nat /\ Len(before) + Len(behind) = Len(s) - 1
  BY <1>1, <1>2
<1>6. ASSUME NEW j \in 1..Len(s) - 1
      PROVE  (before \o behind)[j] = IF j < i THEN s[j] ELSE s[j + 1]
  <2>1. CASE j < i
    BY <1>1, <1>4, <1>5, <2>1
  <2>2. CASE ~(j < i)
    <3>1. j - (i - 1) \in 1..Len(s) - i /\ i + (j - (i - 1)) = j + 1
      BY <1>5, <2>2
    <3>2. behind[j - (i - 1)] = s[j + 1]
      BY <1>2, <3>1
    <3> QED
      BY <1>1, <1>4, <1>5, <2>2, <3>2
  <2> QED
    BY <2>1, <2>2
<1> QED
  BY <1>3, <1>4, <1>5, <1>6

-----------------------------------------------------------------------------
(* The host bridge.                                                          *)

\* Where a request can be: what waits or runs has no result and was not taken back,
\* and is in one place only, so that none gets a second one.
HostInv ==
  /\ HostTypeOK /\ results \in Seq(Seq(Conn))
  /\ \A r \in Request1 : results[r] \in {<<>>, <<asking[r]>>}
  /\ \A r \in waiting \cup inFlight \cup withdrawn : results[r] = <<>>
  /\ waiting \cap inFlight = {} /\ withdrawn \cap (waiting \cup inFlight) = {}
  /\ \A r \in waiting : asking[r] = client
  /\ \A r \in Request1, c \in Conn : <<r, c>> \in executing => c = asking[r]
  /\ ~Enabled => waiting = {} /\ inFlight = {}

HostAnswersOnce ==
  \A r \in Request1 : /\ Len(results[r]) <= 1
                      /\ \A i \in DOMAIN results[r] : results[r][i] = asking[r]
                      /\ r \in withdrawn => results[r] = <<>>

LEMMA HostInvSuffices == HostInv => HostAnswersOnce
<1> SUFFICES ASSUME HostInv, NEW r \in Request1
             PROVE  /\ Len(results[r]) <= 1
                    /\ \A i \in DOMAIN results[r] : results[r][i] = asking[r]
                    /\ r \in withdrawn => results[r] = <<>>
  BY DEF HostAnswersOnce
<1>1. CASE results[r] = <<>>
  BY <1>1
<1>2. CASE results[r] = <<asking[r]>>
  <2>1. Len(results[r]) = 1 /\ DOMAIN results[r] = {1} /\ results[r][1] = asking[r]
    BY <1>2
  <2>2. r \notin withdrawn
    BY <2>1 DEF HostInv
  <2> QED
    BY <2>1, <2>2
<1> QED
  BY <1>1, <1>2 DEF HostInv

LEMMA InitialHost == Init => HostInv
  BY DEF Init, HostInit, HostInv, HostTypeOK, Request1

\* A request that arrives has a number that none had before.
LEMMA HostAsksKeepsInv == ASSUME HostInv, HostAsks, client' = client, client \in Conn \cup {NoConn} PROVE HostInv'
<1> DEFINE n == Len(asking) + 1
<1>1. asking \in Seq(Conn) /\ client \in Conn /\ Request1 = 1..Len(asking) /\ Len(asking) \in Nat
  BY DEF HostAsks, HostInv, HostTypeOK, Request1
<1>2. asking' = Append(asking, client) /\ Request1' = Request1 \cup {n} /\ Len(asking') = n
  BY <1>1 DEF HostAsks, Request1
<1>3. asking' \in Seq(Conn) /\ asking'[n] = client /\ \A r \in Request1 : asking'[r] = asking[r]
  BY <1>1, <1>2
<1>4. n \notin Request1
  BY <1>1
<1>5. Len(results) = Len(asking) /\ results \in Seq(Seq(Conn))
  BY <1>1 DEF HostInv, HostTypeOK
<1>6. results' = Append(results, <<>>)
  BY DEF HostAsks
<1>7. /\ results' \in Seq(Seq(Conn)) /\ DOMAIN results' = Request1'
      /\ results'[n] = <<>> /\ \A r \in Request1 : results'[r] = results[r]
  BY <1>1, <1>2, <1>5, <1>6
<1>8. waiting' \in {waiting, waiting \cup {n}} /\ (~Enabled => waiting' = waiting)
  BY <1>1, <1>2, HostAssumption DEF HostAsks
<1>9. UNCHANGED <<withdrawn, inFlight, executing>>
  BY DEF HostAsks
<1>10. HostTypeOK'
  BY <1>2, <1>3, <1>7, <1>8, <1>9 DEF HostInv, HostTypeOK
<1>11. \A r \in Request1' : results'[r] \in {<<>>, <<asking'[r]>>}
  BY <1>2, <1>3, <1>7 DEF HostInv
<1>12. \A r \in (waiting \cup inFlight \cup withdrawn)' : results'[r] = <<>>
  BY <1>7, <1>8, <1>9 DEF HostInv, HostTypeOK
<1>13. (waiting \cap inFlight)' = {} /\ (withdrawn \cap (waiting \cup inFlight))' = {}
  BY <1>4, <1>8, <1>9 DEF HostInv, HostTypeOK
<1>14. \A r \in waiting' : asking'[r] = client'
  BY <1>3, <1>8 DEF HostInv, HostTypeOK
<1>15. \A r \in Request1', c \in Conn : <<r, c>> \in executing' => c = asking'[r]
  BY <1>2, <1>3, <1>4, <1>9 DEF HostInv, HostTypeOK
<1> QED
  BY <1>7, <1>8, <1>9, <1>10, <1>11, <1>12, <1>13, <1>14, <1>15 DEF HostInv

LEMMA HostCancelsKeepsInv ==
  ASSUME HostInv, HostCancels, UNCHANGED client PROVE HostInv'
<1>1. PICK r \in Request1 \ withdrawn :
        /\ results[r] = <<>> /\ withdrawn' = withdrawn \cup {r}
        /\ IF Enabled THEN CancelTarget(r) ELSE UNCHANGED <<waiting, inFlight>>
  BY DEF HostCancels
<1>2. /\ waiting' \subseteq waiting /\ inFlight' \subseteq inFlight
      /\ r \notin waiting' \cup inFlight'
  BY <1>1 DEF CancelTarget, HostInv
<1> QED
  BY <1>1, <1>2 DEF HostCancels, HostInv, HostTypeOK, Request1

LEMMA UserResolvesKeepsInv ==
  ASSUME HostInv, NEW r \in Request1, UserResolves(r), UNCHANGED client,
         client \in Conn \cup {NoConn}
  PROVE  HostInv'
<1>1. /\ r \in waiting /\ waiting' = waiting \ {r} /\ inFlight' = inFlight \cup {r}
      /\ executing' = executing \cup {<<r, client>>} /\ client \in Conn
  BY DEF UserResolves, TakePending
<1>2. UNCHANGED <<asking, withdrawn, results>>
  BY DEF UserResolves
<1> QED
  BY <1>1, <1>2 DEF HostInv, HostTypeOK, Request1

\* The only step that sends a result: what runs has none yet, and runs no more.
LEMMA TaskReturnsKeepsInv ==
  ASSUME HostInv, NEW r \in Request1, NEW c \in Conn, TaskReturns(r, c), UNCHANGED client
  PROVE  HostInv'
<1>1. /\ executing' = executing \ {<<r, c>>} /\ inFlight' = inFlight \ {r}
      /\ UNCHANGED <<asking, withdrawn, waiting>> /\ c = asking[r]
  BY DEF TaskReturns, HostInv
<1>2. CASE r \in inFlight
  <2>1. results[r] = <<>> /\ results' = [results EXCEPT ![r] = Append(@, c)]
    BY <1>2 DEF TaskReturns, HostInv
  <2>2. results \in Seq(Seq(Conn)) /\ r \in 1..Len(results) /\ DOMAIN results = Request1
    BY DEF HostInv, HostTypeOK
  <2>3. Append(results[r], c) = <<c>> /\ <<c>> \in Seq(Conn)
    BY <2>1
  <2>4. /\ results' \in Seq(Seq(Conn)) /\ DOMAIN results' = DOMAIN results
        /\ results'[r] = <<c>> /\ \A q \in Request1 \ {r} : results'[q] = results[q]
    BY <2>1, <2>2, <2>3
  <2>5. HostTypeOK'
    BY <1>1, <2>4 DEF HostInv, HostTypeOK, Request1
  <2>6. r \notin (waiting \cup inFlight \cup withdrawn)'
    BY <1>1, <1>2 DEF HostInv
  <2>7. \A q \in Request1' : results'[q] \in {<<>>, <<asking'[q]>>}
    BY <1>1, <2>4 DEF HostInv, Request1
  <2>8. \A q \in (waiting \cup inFlight \cup withdrawn)' : results'[q] = <<>>
    BY <1>1, <2>4, <2>6 DEF HostInv, HostTypeOK
  <2> QED
    BY <1>1, <2>4, <2>5, <2>7, <2>8 DEF HostInv, Request1
<1>3. CASE r \notin inFlight
  <2>1. UNCHANGED results
    BY <1>3 DEF TaskReturns
  <2> QED
    BY <1>1, <1>3, <2>1 DEF HostInv, HostTypeOK, Request1
<1> QED
  BY <1>2, <1>3

LEMMA HostKept ==
  ASSUME HostInv, UNCHANGED hostVars, UNCHANGED client \/ waiting = {}
  PROVE  HostInv'
  BY DEF HostInv, HostTypeOK, Request1, hostVars

LEMMA HostResetKeepsInv == ASSUME HostInv, HostReset PROVE HostInv'
  BY DEF HostInv, HostTypeOK, Request1, HostReset

-----------------------------------------------------------------------------
(* The dialog state of a view, and the steps of a sync.                      *)

Said == Option \cup {"ended"}
Dialog == [id : Nat \ {0}, method : {"select", "confirm", "input", "editor"},
           question : Question \cup {"none"}, done : BOOLEAN, timed : BOOLEAN]
Memory == [question : Question \cup {"none"}, selected : Option \cup {"none"},
           sent : Said \cup {"none"}, checked : SUBSET Choice]
Reply == [to : Conn, what : Said, text : Nat]

UI == [pending : Seq(Dialog), draft : [dialog : Nat, selected : Option \cup {"none"}],
       memory : Memory, custom : Nat, bound : [dialog : Nat, custom : BOOLEAN],
       field : Nat, gens : SUBSET Nat]

Distinct(u) == \A i, j \in DOMAIN u.pending : u.pending[i].id = u.pending[j].id => i = j

\* What waits has no answer, and was asked by the child of the client c.
Open(u, a, k, c) ==
  /\ Distinct(u)
  /\ \A i \in DOMAIN u.pending :
       LET id == u.pending[i].id
       IN id \in DOMAIN k /\ a[id] = <<>> /\ (c # NoConn => k[id] = c)

\* One answer at most, and to the child that asked.
Replies(a, k) ==
  /\ a \in Seq(Seq(Reply)) /\ k \in Seq(Conn) /\ Len(a) = Len(k)
  /\ \A d \in DOMAIN k : a[d] = <<>> \/ (Len(a[d]) = 1 /\ a[d][1].to = k[d])

\* The part of DialogsServed that every sync brings about.
Timed(u) == \A i \in DOMAIN u.pending : u.pending[i].timed => u.pending[i].id \in u.gens
Served(u) ==
  /\ IsText(HeadDialog(u)) => /\ u.bound = [dialog |-> HeadDialog(u).id, custom |-> FALSE]
                              /\ u.custom = None
  /\ Timed(u)

LEMMA UIFields ==
  ASSUME NEW u \in UI
  PROVE  /\ u.pending \in Seq(Dialog) /\ DOMAIN u.pending = 1..Len(u.pending)
         /\ Len(u.pending) \in Nat
         /\ u.draft \in [dialog : Nat, selected : Option \cup {"none"}]
         /\ u.memory \in Memory /\ u.custom \in Nat
         /\ u.bound \in [dialog : Nat, custom : BOOLEAN]
         /\ u.field \in Nat /\ u.gens \in SUBSET Nat
         /\ \A i \in DOMAIN u.pending : u.pending[i] \in Dialog
         /\ u.pending # <<>> <=> 1 \in DOMAIN u.pending
  BY DEF UI

\* The dialog at the head is one of those that wait, or there is none.
LEMMA Head1 ==
  ASSUME NEW u \in UI, HeadDialog(u).method # "none"
  PROVE  1 \in DOMAIN u.pending /\ HeadDialog(u) = u.pending[1]
  BY UIFields DEF HeadDialog, First1, NoDialog

\* What a change of one part of the dialogs' state leaves alone.
LEMMA DraftChanged ==
  ASSUME NEW u \in UI, NEW x, x = [u EXCEPT !.draft = x.draft, !.memory = x.memory]
  PROVE  x.pending = u.pending
BY DEF UI

LEMMA GensChanged ==
  ASSUME NEW u \in UI, NEW x, x = [u EXCEPT !.gens = x.gens]
  PROVE  /\ x.pending = u.pending /\ x.memory = u.memory /\ x.custom = u.custom
         /\ x.bound = u.bound
BY DEF UI

\* Dialogs that all have ids of their own.
LEMMA DistinctIds ==
  ASSUME NEW u, NEW s, u.pending = s,
         \A j, m \in DOMAIN s : s[j].id = s[m].id => j = m
  PROVE  Distinct(u)
BY DEF Distinct

\* Without takes out exactly the dialog with this id.
LEMMA WithoutOne ==
  ASSUME NEW u \in UI, Distinct(u), NEW id
  PROVE  /\ Without(u, id) \in UI /\ Distinct(Without(u, id))
         /\ Ids(Without(u, id)) = Ids(u) \ {id}
         /\ \A j \in DOMAIN Without(u, id).pending :
              /\ Without(u, id).pending[j].id # id
              /\ \E i \in DOMAIN u.pending : Without(u, id).pending[j] = u.pending[i]
         /\ Without(u, id) = [u EXCEPT !.pending = Without(u, id).pending]
         /\ id \notin Ids(u) => Without(u, id) = u
<1> DEFINE s == u.pending
           w == RemoveFirstMatch(s, LAMBDA d : d.id = id)
<1>1. s \in Seq(Dialog) /\ DOMAIN s = 1..Len(s) /\ Len(s) \in Nat
  BY UIFields
<1>2. Without(u, id) = [u EXCEPT !.pending = w]
  BY DEF Without
<1>3. \A x \in Seq(Dialog) : [u EXCEPT !.pending = x] \in UI /\ [u EXCEPT !.pending = x].pending = x
  BY DEF UI
<1>4. CASE \A i \in 1..Len(s) : s[i].id # id
  <2>1. w = s
    BY <1>4 DEF RemoveFirstMatch
  <2>2. Without(u, id) = u
    BY <1>2, <2>1 DEF UI
  <2> QED
    BY <1>1, <1>4, <2>2 DEF Ids, UI
<1>5. CASE \E i \in 1..Len(s) : s[i].id = id
  <2>1. PICK i \in 1..Len(s) : s[i].id = id
    BY <1>5
  <2>2. {j \in 1..Len(s) : s[j].id = id} = {i}
    BY <1>1, <2>1 DEF Distinct
  <2>3. Min({i}) = i
    BY DEF Min
  <2>4. SelectInSeq(s, LAMBDA d : d.id = id) = i
    BY <2>2, <2>3 DEF SelectInSeq
  <2>5. w = RemoveAt(s, i)
    BY <1>5, <2>4 DEF RemoveFirstMatch
  <2>0. s = u.pending
    OBVIOUS
  <2> HIDE DEF w, s
  <2>6. /\ w \in Seq(Dialog) /\ Len(w) = Len(s) - 1 /\ DOMAIN w = 1..Len(s) - 1
        /\ \A j \in 1..Len(s) - 1 : w[j] = IF j < i THEN s[j] ELSE s[j + 1]
    <3>1. RemoveAt(s, i) \in Seq(Dialog) /\ Len(RemoveAt(s, i)) = Len(s) - 1
      BY <1>1, RemovedOne
    <3>2. \A j \in 1..Len(s) - 1 : RemoveAt(s, i)[j] = IF j < i THEN s[j] ELSE s[j + 1]
      BY <1>1, RemovedOne
    <3> QED
      BY <2>5, <3>1, <3>2
  <2>7. \A j \in 1..Len(s) - 1 : \E n \in 1..Len(s) : n # i /\ w[j] = s[n] /\ n = (IF j < i THEN j ELSE j + 1)
    BY <1>1, <2>6
  <2>8. \A n \in 1..Len(s) : n # i => \E j \in 1..Len(s) - 1 : w[j] = s[n]
    <3>1. SUFFICES ASSUME NEW n \in 1..Len(s), n # i
                   PROVE  \E j \in 1..Len(s) - 1 : w[j] = s[n]
      OBVIOUS
    <3>2. CASE n < i
      BY <1>1, <2>6, <3>2
    <3>3. CASE n > i
      <4>1. n - 1 \in 1..Len(s) - 1 /\ ~(n - 1 < i) /\ (n - 1) + 1 = n
        BY <1>1, <3>3
      <4>2. w[n - 1] = s[n]
        BY <2>6, <4>1
      <4> QED
        BY <4>1, <4>2
    <3> QED
      BY <1>1, <3>1, <3>2, <3>3
  <2>9. Without(u, id) \in UI /\ Without(u, id).pending = w
    BY <1>2, <1>3, <2>6
  <2>10. \A j \in DOMAIN w : w[j].id # id
    <3>1. \A n \in 1..Len(s) : s[n].id = s[i].id => n = i
      BY <1>1, <2>0, <2>1 DEF Distinct
    <3>2. \A j \in 1..Len(s) - 1 : \E n \in 1..Len(s) : n # i /\ w[j] = s[n]
      BY <2>7
    <3>3. \A j \in 1..Len(s) - 1 : w[j].id # s[i].id
      BY <3>1, <3>2
    <3> QED
      BY <2>1, <2>6, <3>3
  <2>11. Distinct(Without(u, id))
    <3>1. SUFFICES ASSUME NEW j \in 1..Len(s) - 1, NEW m \in 1..Len(s) - 1, w[j].id = w[m].id
                   PROVE  j = m
      <4>1. SUFFICES \A j, m \in DOMAIN w : w[j].id = w[m].id => j = m
        BY <2>9, DistinctIds
      <4> QED
        BY <2>6
    <3>2. PICK n \in 1..Len(s) : n # i /\ w[j] = s[n] /\ n = (IF j < i THEN j ELSE j + 1)
      BY <2>7
    <3>3. PICK o \in 1..Len(s) : o # i /\ w[m] = s[o] /\ o = (IF m < i THEN m ELSE m + 1)
      BY <2>7
    <3>4. n = o
      BY <1>1, <2>0, <3>1, <3>2, <3>3 DEF Distinct
    <3> QED
      BY <1>1, <3>2, <3>3, <3>4
  <2>12. Ids(Without(u, id)) = Ids(u) \ {id}
    <3>1. \A x : x \in Ids(u) \ {id} => x \in Ids(Without(u, id))
      <4>1. SUFFICES ASSUME NEW n \in 1..Len(s), s[n].id # id
                     PROVE  \E j \in DOMAIN w : w[j].id = s[n].id
        BY <1>1, <2>0, <2>9 DEF Ids
      <4>2. n # i
        BY <2>0, <2>1, <4>1
      <4> QED
        BY <2>6, <2>8, <4>2
    <3>2. \A x : x \in Ids(Without(u, id)) => x \in Ids(u) \ {id}
      BY <1>1, <2>0, <2>6, <2>7, <2>9, <2>10 DEF Ids
    <3> QED
      BY <3>1, <3>2
  <2>14. id \in Ids(u)
    BY <1>1, <2>0, <2>1 DEF Ids
  <2>13. \A j \in DOMAIN w : \E n \in DOMAIN s : w[j] = s[n]
    BY <1>1, <2>6, <2>7
  <2> QED
    BY <1>2, <2>0, <2>9, <2>10, <2>11, <2>12, <2>13, <2>14
<1> QED
  BY <1>4, <1>5

\* sync_select_draft touches the draft, and the memory for a select at the head.
LEMMA SelectDraftSync ==
  ASSUME NEW u \in UI
  PROVE  LET n == SyncSelectDraft(u)
         IN /\ n \in UI /\ n = [u EXCEPT !.draft = n.draft, !.memory = n.memory]
            /\ \/ n.memory = u.memory
               \/ /\ HeadDialog(u).method = "select"
                  /\ n.memory.question = HeadDialog(u).question
                  /\ n.memory.checked = IF u.memory.question = HeadDialog(u).question
                                          THEN u.memory.checked ELSE {}
<1> DEFINE d == HeadDialog(u)
           old == IF d.question = u.memory.question THEN u.memory ELSE NoMemory
           n == SyncSelectDraft(u)
<1>1. u.memory \in Memory /\ NoMemory \in Memory /\ NoDraft \in [dialog : Nat, selected : Option \cup {"none"}]
  BY UIFields DEF Memory, NoMemory, NoDraft, None
<1>2. old \in Memory
  BY <1>1
<1>3. CASE d.method # "select"
  <2>1. n = [u EXCEPT !.draft = NoDraft]
    BY <1>3 DEF SyncSelectDraft
  <2> QED
    BY <1>1, <2>1 DEF UI
<1>4. CASE d.method = "select" /\ u.draft.dialog = d.id
  <2>1. n = u
    BY <1>4 DEF SyncSelectDraft
  <2> QED
    BY <2>1 DEF UI
<1>5. CASE d.method = "select" /\ u.draft.dialog # d.id
  <2>1. d \in Dialog
    BY <1>5, Head1, UIFields
  <2>2. n = [u EXCEPT !.draft = [dialog |-> d.id, selected |-> old.selected],
                      !.memory = [old EXCEPT !.question = d.question]]
    BY <1>5 DEF SyncSelectDraft
  <2>3. [old EXCEPT !.question = d.question] \in Memory
    BY <1>2, <2>1 DEF Memory, Dialog
  <2>4. [dialog |-> d.id, selected |-> old.selected] \in [dialog : Nat, selected : Option \cup {"none"}]
    BY <1>2, <2>1 DEF Memory, Dialog
  <2>5. n \in UI /\ n = [u EXCEPT !.draft = n.draft, !.memory = n.memory]
    <3> DEFINE draft == [dialog |-> d.id, selected |-> old.selected]
               memory == [old EXCEPT !.question = d.question]
    <3> HIDE DEF draft, memory, n
    <3>1. draft \in [dialog : Nat, selected : Option \cup {"none"}] /\ memory \in Memory
      BY <2>3, <2>4 DEF draft, memory
    <3>2. n = [u EXCEPT !.draft = draft, !.memory = memory]
      BY <2>2 DEF draft, memory
    <3>3. n \in UI /\ n.draft = draft /\ n.memory = memory
      <4> HIDE DEF d, old
      <4> QED
        BY <3>1, <3>2 DEF UI
    <3> QED
      BY <3>2, <3>3
  <2>6. n.memory = [old EXCEPT !.question = d.question]
    BY <2>2 DEF UI
  <2>7. n.memory.question = d.question /\ n.memory.checked = old.checked
    BY <1>2, <2>6 DEF Memory
  <2> QED
    BY <1>1, <1>5, <2>5, <2>7 DEF NoMemory
<1> QED
  BY <1>3, <1>4, <1>5

\* sync_dialog_input touches the field; a text dialog at the head has it.
LEMMA InputSync ==
  ASSUME NEW u \in UI
  PROVE  LET n == SyncDialogInput(u)
         IN /\ n \in UI /\ n = [u EXCEPT !.bound = n.bound, !.field = n.field]
            /\ IsText(HeadDialog(u)) => n.bound = [dialog |-> HeadDialog(u).id, custom |-> FALSE]
<1> DEFINE n == SyncDialogInput(u)
           I == {i \in 1..Len(u.pending) : IsText(u.pending[i])}
           text == SelectInSeq(u.pending, IsText)
<1>1. ASSUME NEW id \in Nat, NEW custom \in BOOLEAN
      PROVE  LET b == Bind(u, id, custom)
             IN /\ b \in UI /\ b = [u EXCEPT !.bound = b.bound, !.field = b.field]
                /\ b.bound = [dialog |-> id, custom |-> custom]
  BY DEF Bind, UI, None
<1>2. text = IF I # {} THEN Min(I) ELSE 0
  BY DEF SelectInSeq
<1>3. I # {} => text \in I /\ \A i \in I : text <= i
  <2>1. I \in SUBSET Nat
    BY UIFields
  <2> HIDE DEF I, text
  <2> QED
    BY <1>2, <2>1, LeastNumber
<1> HIDE DEF text
<1>4. CASE I # {}
  <2>1. text # 0 /\ text \in DOMAIN u.pending
    BY <1>3, <1>4, UIFields
  <2>2. u.pending[text].id \in Nat
    BY <2>1, UIFields DEF Dialog
  <2>3. n = Bind(u, u.pending[text].id, FALSE)
    BY <2>1 DEF SyncDialogInput, text
  <2>4. IsText(HeadDialog(u)) => HeadDialog(u) = u.pending[text]
    <3>1. SUFFICES ASSUME IsText(HeadDialog(u)) PROVE HeadDialog(u) = u.pending[text]
      OBVIOUS
    <3>2. 1 \in DOMAIN u.pending /\ HeadDialog(u) = u.pending[1]
      BY <3>1, Head1 DEF IsText
    <3>3. 1 \in I
      BY <3>1, <3>2, UIFields
    <3> QED
      BY <1>3, <3>2, <3>3, UIFields
  <2> QED
    BY <1>1, <2>2, <2>3, <2>4
<1>5. CASE I = {}
  <2>1. text = 0
    BY <1>2, <1>5
  <2>2. ~IsText(HeadDialog(u))
    BY <1>5, Head1, UIFields DEF IsText
  <2>3. CASE CustomAtHead(u)
    <3>1. HeadDialog(u).id \in Nat
      BY <2>3, Head1, UIFields DEF CustomAtHead, Dialog
    <3>2. n = Bind(u, HeadDialog(u).id, TRUE)
      BY <2>1, <2>3 DEF SyncDialogInput, text
    <3> QED
      BY <1>1, <2>2, <3>1, <3>2
  <2>4. CASE ~CustomAtHead(u)
    <3>1. n = Bind(u, None, FALSE)
      BY <2>1, <2>4 DEF SyncDialogInput, text
    <3> QED
      BY <1>1, <2>2, <3>1 DEF None
  <2> QED
    BY <2>3, <2>4
<1> QED
  BY <1>4, <1>5

LEMMA TimeoutSync ==
  ASSUME NEW u \in UI
  PROVE  LET n == SyncDialogTimeouts(u)
         IN /\ n \in UI /\ n = [u EXCEPT !.gens = n.gens] /\ Timed(n)
            /\ n.gens \subseteq Ids(u)
<1> DEFINE g == (u.gens \cap Ids(u)) \cup
                {u.pending[i].id : i \in {j \in DOMAIN u.pending : u.pending[j].timed}}
<1>1. SyncDialogTimeouts(u) = [u EXCEPT !.gens = g]
  BY DEF SyncDialogTimeouts
<1>2. g \in SUBSET Nat /\ g \subseteq Ids(u)
  BY UIFields DEF Ids, Dialog
<1>3. \A i \in DOMAIN u.pending : u.pending[i].timed => u.pending[i].id \in g
  OBVIOUS
<1> HIDE DEF g
<1> QED
  BY <1>1, <1>2, <1>3 DEF UI, Timed

\* An answer that is sent is the first of its dialog, which waits no more.
Answered(a, id, c, what, text) == [a EXCEPT ![id] = Append(@, Answer(c, what, text))]

LEMMA Sent ==
  ASSUME NEW u \in UI, NEW a, NEW k, NEW c \in Conn, Open(u, a, k, c), Replies(a, k),
         NEW id \in Ids(u), NEW what \in Said, NEW text \in Nat
  PROVE  LET b == Answered(a, id, c, what, text)
         IN /\ Replies(b, k)
            /\ b[id] = <<Answer(c, what, text)>> /\ \A d \in DOMAIN k : d # id => b[d] = a[d]
            /\ Open(Without(u, id), b, k, c)
<1> DEFINE b == Answered(a, id, c, what, text)
<1>1. PICK i \in DOMAIN u.pending : u.pending[i].id = id
  BY DEF Ids
<1>2. id \in DOMAIN k /\ a[id] = <<>> /\ k[id] = c
  BY <1>1, ConversationAssumption DEF Open
<1>3. a \in Seq(Seq(Reply)) /\ k \in Seq(Conn) /\ Len(a) = Len(k) /\ DOMAIN a = DOMAIN k
  BY DEF Replies
<1>4. Answer(c, what, text) \in Reply /\ Answer(c, what, text).to = c
  BY DEF Answer, Reply
<1>5. Append(a[id], Answer(c, what, text)) = <<Answer(c, what, text)>>
  BY <1>2
<1>6. <<Answer(c, what, text)>> \in Seq(Reply)
  BY <1>4
<1>7. /\ b \in Seq(Seq(Reply)) /\ Len(b) = Len(k) /\ b[id] = <<Answer(c, what, text)>>
      /\ \A d \in DOMAIN k : d # id => b[d] = a[d]
  BY <1>2, <1>3, <1>5, <1>6 DEF Answered
<1>8. Len(b[id]) = 1 /\ b[id][1].to = k[id]
  BY <1>2, <1>4, <1>7
<1>9. Replies(b, k)
  BY <1>3, <1>7, <1>8 DEF Replies
<1>10. Open(Without(u, id), b, k, c)
  <2>1. /\ Distinct(Without(u, id))
        /\ \A j \in DOMAIN Without(u, id).pending :
              /\ Without(u, id).pending[j].id # id
              /\ \E n \in DOMAIN u.pending : Without(u, id).pending[j] = u.pending[n]
    BY WithoutOne DEF Open
  <2> HIDE DEF b
  <2>2. ASSUME NEW j \in DOMAIN Without(u, id).pending
        PROVE  LET x == Without(u, id).pending[j].id
               IN x \in DOMAIN k /\ b[x] = <<>> /\ (c # NoConn => k[x] = c)
    <3>1. PICK n \in DOMAIN u.pending : Without(u, id).pending[j] = u.pending[n]
      BY <2>1
    <3>2. Without(u, id).pending[j].id # id
      BY <2>1
    <3>3. LET x == u.pending[n].id
          IN x \in DOMAIN k /\ a[x] = <<>> /\ (c # NoConn => k[x] = c)
      BY DEF Open
    <3> QED
      BY <1>7, <3>1, <3>2, <3>3
  <2> QED
    BY <2>1, <2>2 DEF Open
<1> QED
  BY <1>7, <1>9, <1>10

\* flush_pending_custom_answer: nothing, or a text dialog at the head is answered;
\* with a client, none keeps a typed answer before it.
LEMMA Flushed ==
  ASSUME NEW u \in UI, NEW a, NEW k, NEW c \in Conn \cup {NoConn}, Open(u, a, k, c), Replies(a, k)
  PROVE  LET f == FlushCustomAnswer(u, a, c)
         IN /\ f.ui \in UI /\ Open(f.ui, f.answers, k, c) /\ Replies(f.answers, k)
            /\ f.ui.memory = u.memory
            /\ \A i \in DOMAIN f.ui.pending : \E j \in DOMAIN u.pending : f.ui.pending[i] = u.pending[j]
            /\ \A d \in DOMAIN k : f.answers[d] # a[d] =>
                 \E j \in DOMAIN u.pending : u.pending[j].id = d /\ IsText(u.pending[j])
            /\ c # NoConn /\ IsText(HeadDialog(f.ui)) => f.ui.custom = None
<1> DEFINE f == FlushCustomAnswer(u, a, c)
           d == HeadDialog(u)
           b == Answered(a, d.id, c, "ended", u.custom)
<1>1. CASE u.custom = None \/ ~IsText(d)
  <2>1. f = [ok |-> FALSE, ui |-> u, answers |-> a]
    BY <1>1 DEF FlushCustomAnswer
  <2> QED
    BY <1>1, <2>1
<1>2. CASE u.custom # None /\ IsText(d)
  <2>1. 1 \in DOMAIN u.pending /\ d = u.pending[1] /\ d.id \in Ids(u)
    BY <1>2, Head1 DEF IsText, Ids
  <2>2. CASE c = NoConn
    <3>1. f = [ok |-> FALSE, ui |-> u, answers |-> a]
      <4>1. SendDialogResponse(u, a, d.id, c, "ended", u.custom)
              = [ok |-> FALSE, ui |-> u, answers |-> a]
        BY <2>2 DEF SendDialogResponse
      <4> QED
        BY <1>2, <4>1 DEF FlushCustomAnswer
    <3> QED
      BY <2>2, <3>1
  <2>3. CASE c # NoConn
    <3>1. SendDialogResponse(u, a, d.id, c, "ended", u.custom)
            = [ok |-> TRUE, ui |-> Without(u, d.id), answers |-> b]
      BY <2>1, <2>3 DEF SendDialogResponse, Answered
    <3>2. f = [ok |-> TRUE, ui |-> [Without(u, d.id) EXCEPT !.custom = None], answers |-> b]
      <4> DEFINE r == SendDialogResponse(u, a, d.id, c, "ended", u.custom)
      <4>1. f = IF r.ok THEN [r EXCEPT !.ui.custom = None] ELSE r
        BY <1>2 DEF FlushCustomAnswer
      <4> HIDE DEF r, f, b, d
      <4>2. r = [ok |-> TRUE, ui |-> Without(u, d.id), answers |-> b]
        BY <3>1 DEF r, b, d
      <4> QED
        BY <4>1, <4>2
    <3>3. c \in Conn /\ u.custom \in Nat /\ "ended" \in Said
      BY <2>3, UIFields DEF Said
    <3>4. /\ Replies(b, k) /\ \A x \in DOMAIN k : x # d.id => b[x] = a[x]
          /\ Open(Without(u, d.id), b, k, c)
      BY <2>1, <3>3, Sent
    <3>5. /\ Without(u, d.id) \in UI /\ Without(u, d.id).memory = u.memory
          /\ \A i \in DOMAIN Without(u, d.id).pending :
               \E j \in DOMAIN u.pending : Without(u, d.id).pending[i] = u.pending[j]
      <4>1. Distinct(u)
        BY DEF Open
      <4>2. Without(u, d.id) = [u EXCEPT !.pending = Without(u, d.id).pending]
        BY <4>1, WithoutOne
      <4> QED
        BY <4>1, <4>2, WithoutOne DEF UI
    <3> DEFINE w == Without(u, d.id)
               x == [w EXCEPT !.custom = None]
    <3> HIDE DEF w
    <3>6. x \in UI /\ x.pending = w.pending /\ x.memory = w.memory /\ x.custom = None
      BY <3>5 DEF UI, None, w
    <3>7. Open(x, b, k, c)
      BY <3>4, <3>6 DEF Open, Distinct, w
    <3>8. f.ui = x /\ f.answers = b
      BY <3>2 DEF w
    <3> HIDE DEF x, b, f
    <3> QED
      BY <1>2, <2>1, <3>4, <3>5, <3>6, <3>7, <3>8 DEF w, f
  <2> QED
    BY <2>2, <2>3
<1> QED
  BY <1>1, <1>2

\* sync_pending_dialogs as a whole: what it keeps, and what it brings about.
LEMMA Synced1 ==
  ASSUME NEW u \in UI, NEW a, NEW k, NEW c \in Conn \cup {NoConn}, Open(u, a, k, c), Replies(a, k)
  PROVE  LET s == SyncPendingDialogs(u, a, c)
         IN /\ s.ui \in UI /\ Open(s.ui, s.answers, k, c) /\ Replies(s.answers, k)
            /\ s.ui.gens \subseteq DOMAIN k
            /\ c # NoConn => Served(s.ui)
            /\ \A i \in DOMAIN s.ui.pending : \E j \in DOMAIN u.pending : s.ui.pending[i] = u.pending[j]
            /\ \A d \in DOMAIN k : s.answers[d] # a[d] =>
                 \E j \in DOMAIN u.pending : u.pending[j].id = d /\ IsText(u.pending[j])
            /\ s.ui.memory = SyncSelectDraft(u).memory
<1> DEFINE u1 == SyncSelectDraft(u)
           f == FlushCustomAnswer(u1, a, c)
           u2 == f.ui
           u3 == SyncDialogInput(u2)
           u4 == SyncDialogTimeouts(u3)
           s == SyncPendingDialogs(u, a, c)
<1>1. u1 \in UI /\ u1.pending = u.pending
  <2>1. u1 \in UI /\ u1 = [u EXCEPT !.draft = u1.draft, !.memory = u1.memory]
    BY SelectDraftSync
  <2> HIDE DEF u1
  <2> QED
    BY <2>1, DraftChanged
<1>2. Open(u1, a, k, c)
  BY <1>1 DEF Open, Distinct
<1>3. /\ u2 \in UI /\ Open(u2, f.answers, k, c) /\ Replies(f.answers, k)
      /\ u2.memory = u1.memory
      /\ \A i \in DOMAIN u2.pending : \E j \in DOMAIN u.pending : u2.pending[i] = u.pending[j]
      /\ \A d \in DOMAIN k : f.answers[d] # a[d] =>
           \E j \in DOMAIN u.pending : u.pending[j].id = d /\ IsText(u.pending[j])
      /\ c # NoConn /\ IsText(HeadDialog(u2)) => u2.custom = None
  <2> HIDE DEF u1
  <2> QED
    BY <1>1, <1>2, Flushed
<1>4. /\ u3 \in UI /\ u3.pending = u2.pending /\ u3.memory = u2.memory /\ u3.custom = u2.custom
      /\ IsText(HeadDialog(u2)) => u3.bound = [dialog |-> HeadDialog(u2).id, custom |-> FALSE]
  <2> HIDE DEF u2
  <2> QED
    <3>1. /\ u3 \in UI /\ u3 = [u2 EXCEPT !.bound = u3.bound, !.field = u3.field]
          /\ IsText(HeadDialog(u2)) => u3.bound = [dialog |-> HeadDialog(u2).id, custom |-> FALSE]
      BY <1>3, InputSync
    <3> HIDE DEF u3
    <3> QED
      BY <1>3, <3>1 DEF UI
<1>5. /\ u4 \in UI /\ u4.pending = u3.pending /\ u4.memory = u3.memory /\ u4.custom = u3.custom
      /\ u4.bound = u3.bound /\ Timed(u4) /\ u4.gens \subseteq Ids(u3)
  <2> HIDE DEF u3
  <2>1. u4 \in UI /\ u4 = [u3 EXCEPT !.gens = u4.gens] /\ Timed(u4) /\ u4.gens \subseteq Ids(u3)
    BY <1>4, TimeoutSync
  <2> HIDE DEF u4
  <2> QED
    BY <1>4, <2>1, GensChanged
<1>6. s = [f EXCEPT !.ui = SyncDialogTimeouts(SyncDialogInput(@))]
  BY DEF SyncPendingDialogs
<1>7. s.ui = u4 /\ s.answers = f.answers
  <2>1. \E x, y, z : f = [ok |-> x, ui |-> y, answers |-> z]
    BY DEF FlushCustomAnswer, SendDialogResponse
  <2> HIDE DEF f
  <2> QED
    BY <1>6, <2>1
<1>8. u4.pending = u2.pending /\ HeadDialog(u4) = HeadDialog(u2)
  BY <1>4, <1>5 DEF HeadDialog
<1>9. Open(u4, f.answers, k, c)
  <2> HIDE DEF u4, u2, f
  <2> QED
    BY <1>3, <1>8 DEF Open, Distinct
<1>10. u4.gens \subseteq DOMAIN k
  <2>1. Ids(u3) = Ids(u2)
    BY <1>4 DEF Ids
  <2>2. Ids(u2) \subseteq DOMAIN k
    BY <1>3 DEF Ids, Open
  <2> QED
    BY <1>5, <2>1, <2>2
<1>11. c # NoConn => Served(u4)
  <2> HIDE DEF u4, u3, u2, f
  <2> QED
    BY <1>3, <1>4, <1>5, <1>8 DEF Served
<1> HIDE DEF s, f, u4, u3, u2, u1
<1> QED
  BY <1>3, <1>4, <1>5, <1>7, <1>8, <1>9, <1>10, <1>11 DEF u1, s

-----------------------------------------------------------------------------
(* The ask of the child, and what the view remembers of it.                  *)

\* What omp's loop has toggled is what the view shows as checked, once the choice
\* that was sent has been taken; a question not yet remembered has no choices.
Remembered(u, a, q) ==
  q.open.method = "select" /\ q.fresh =>
    IF u.memory.question # q.open.question THEN q.toggled = {}
    ELSE IF a[q.open.id] = <<>> THEN u.memory.checked = q.toggled
    ELSE a[q.open.id][1].what \in Choice => u.memory.checked = Toggle(q.toggled, a[q.open.id][1].what)

\* Selects come from the ask alone, one at a time.
OnlyAsk(u, q) ==
  \A i \in DOMAIN u.pending :
    u.pending[i].method = "select" \/ u.pending[i].id = q.open.id => u.pending[i] = q.open

AskOK(q, k) ==
  /\ q = NoAsk \/ (q.open \in Dialog /\ q.open.id \in DOMAIN k)
  /\ q.open.method = "select" => q.open.question \in Question
  /\ q \in [open : Dialog \cup {NoDialog}, loop : BOOLEAN, toggled : SUBSET Choice, fresh : BOOLEAN]

LEMMA SyncRemembers ==
  ASSUME NEW u \in UI, NEW a, NEW k, NEW c \in Conn, Open(u, a, k, c), Replies(a, k),
         NEW q, AskOK(q, k), OnlyAsk(u, q), Remembered(u, a, q)
  PROVE  LET s == SyncPendingDialogs(u, a, c)
         IN OnlyAsk(s.ui, q) /\ Remembered(s.ui, s.answers, q)
<1> DEFINE s == SyncPendingDialogs(u, a, c)
           n == SyncSelectDraft(u)
<1>1. /\ \A i \in DOMAIN s.ui.pending : \E j \in DOMAIN u.pending : s.ui.pending[i] = u.pending[j]
      /\ \A d \in DOMAIN k : s.answers[d] # a[d] =>
           \E j \in DOMAIN u.pending : u.pending[j].id = d /\ IsText(u.pending[j])
      /\ s.ui.memory = n.memory
  BY Synced1
<1>2. OnlyAsk(s.ui, q)
  BY <1>1 DEF OnlyAsk
<1>3. SUFFICES ASSUME q.open.method = "select", q.fresh
               PROVE  IF n.memory.question # q.open.question THEN q.toggled = {}
                      ELSE IF s.answers[q.open.id] = <<>> THEN n.memory.checked = q.toggled
                      ELSE s.answers[q.open.id][1].what \in Choice
                             => n.memory.checked = Toggle(q.toggled, s.answers[q.open.id][1].what)
  BY <1>1, <1>2 DEF Remembered
<1>4. q.open \in Dialog /\ q.open.id \in DOMAIN k
  BY <1>3 DEF AskOK, NoAsk, NoDialog
<1>5. s.answers[q.open.id] = a[q.open.id]
  <2>1. SUFFICES ASSUME s.answers[q.open.id] # a[q.open.id] PROVE FALSE
    OBVIOUS
  <2>2. PICK j \in DOMAIN u.pending : u.pending[j].id = q.open.id /\ IsText(u.pending[j])
    BY <1>1, <1>4, <2>1
  <2>3. u.pending[j] = q.open
    BY <2>2 DEF OnlyAsk
  <2> QED
    BY <1>3, <2>2, <2>3 DEF IsText
<1>6. CASE n.memory = u.memory
  BY <1>3, <1>5, <1>6 DEF Remembered
<1>7. CASE n.memory # u.memory
  <2>1. /\ HeadDialog(u).method = "select"
        /\ n.memory.question = HeadDialog(u).question
        /\ n.memory.checked = IF u.memory.question = HeadDialog(u).question THEN u.memory.checked ELSE {}
    BY <1>7, SelectDraftSync
  <2>2. 1 \in DOMAIN u.pending /\ HeadDialog(u) = u.pending[1]
    BY <2>1, Head1
  <2>3. HeadDialog(u) = q.open
    BY <2>1, <2>2 DEF OnlyAsk
  <2>4. a[q.open.id] = <<>>
    BY <2>2, <2>3 DEF Open
  <2> QED
    BY <1>3, <1>5, <2>1, <2>3, <2>4 DEF Remembered
<1> QED
  BY <1>6, <1>7

-----------------------------------------------------------------------------
(* The dialogs' invariant, and what every handler that syncs keeps of it.    *)

DialogInv ==
  /\ client \in Conn \cup {NoConn}
  /\ ui \in UI /\ AskOK(ask, asked)
  /\ Replies(answers, asked) /\ Open(ui, answers, asked, client)
  /\ ui.gens \subseteq DOMAIN asked
  /\ client # NoConn => OnlyAsk(ui, ask) /\ Remembered(ui, answers, ask) /\ Served(ui)

LEMMA SyncKeeps ==
  ASSUME client \in Conn \cup {NoConn}, UNCHANGED client,
         NEW u \in UI, NEW a, Open(u, a, asked', client), Replies(a, asked'),
         AskOK(ask', asked'),
         client # NoConn => OnlyAsk(u, ask') /\ Remembered(u, a, ask'),
         Synced(u, a)
  PROVE  DialogInv'
<1> DEFINE s == SyncPendingDialogs(u, a, client)
<1>1. ui' = s.ui /\ answers' = s.answers
  BY DEF Synced
<1>2. /\ s.ui \in UI /\ Open(s.ui, s.answers, asked', client) /\ Replies(s.answers, asked')
      /\ s.ui.gens \subseteq DOMAIN asked'
      /\ client # NoConn => Served(s.ui)
  BY Synced1
<1>3. client # NoConn => OnlyAsk(s.ui, ask') /\ Remembered(s.ui, s.answers, ask')
  <2>1. SUFFICES ASSUME client # NoConn PROVE OnlyAsk(s.ui, ask') /\ Remembered(s.ui, s.answers, ask')
    OBVIOUS
  <2> QED
    BY <2>1, SyncRemembers
<1> HIDE DEF s
<1> QED
  BY <1>1, <1>2, <1>3 DEF DialogInv

\* An answer: its dialog goes, and the sync follows.  When it is the ask's, the
\* view has remembered what omp will toggle.
LEMMA SubmitKeeps ==
  ASSUME DialogInv, UNCHANGED <<client, asked, ask>>,
         NEW u \in UI, u.pending = ui.pending, u.gens = ui.gens,
         NEW id \in Ids(ui), NEW what \in Said, NEW text \in Nat,
         client # NoConn /\ id # ask.open.id => u.memory = ui.memory,
         client # NoConn /\ id = ask.open.id /\ ask.open.method = "select" /\ ask.fresh
           => IF u.memory.question # ask.open.question THEN ask.toggled = {}
              ELSE what \in Choice => u.memory.checked = Toggle(ask.toggled, what),
         Submit(u, id, what, text)
  PROVE  DialogInv'
<1>1. Open(u, answers, asked, client) /\ Ids(u) = Ids(ui)
  BY DEF DialogInv, Open, Distinct, Ids
<1>2. CASE client = NoConn
  <2>1. ui' = u /\ answers' = answers
    BY <1>2 DEF Submit, SendDialogResponse
  <2> QED
    BY <1>1, <1>2, <2>1 DEF DialogInv
<1>3. CASE client # NoConn
  <2> DEFINE w == Without(u, id)
             b == Answered(answers, id, client, what, text)
  <2>1. client \in Conn
    BY <1>3 DEF DialogInv
  <2>2. Synced(w, b)
    BY <1>1, <1>3 DEF Submit, SendDialogResponse, Answered
  <2>3. Replies(answers, asked)
    BY DEF DialogInv
  <2>4. /\ Replies(b, asked) /\ b[id] = <<Answer(client, what, text)>>
        /\ \A d \in DOMAIN asked : d # id => b[d] = answers[d]
        /\ Open(w, b, asked, client)
    BY <1>1, <2>1, <2>3, Sent
  <2>5. /\ w \in UI /\ w.memory = u.memory
        /\ \A i \in DOMAIN w.pending : \E j \in DOMAIN u.pending : w.pending[i] = u.pending[j]
    <3>1. Distinct(u)
      BY <1>1 DEF Open
    <3>2. w = [u EXCEPT !.pending = w.pending]
      BY <3>1, WithoutOne
    <3> QED
      BY <3>1, <3>2, WithoutOne DEF UI
  <2> HIDE DEF w, b
  <2>6. OnlyAsk(w, ask)
    BY <1>3, <2>5 DEF DialogInv, OnlyAsk
  <2>7. Remembered(w, b, ask)
    <3>1. CASE id = ask.open.id
      <4>1. b[ask.open.id] # <<>> /\ b[ask.open.id][1].what = what
        <5>1. b[ask.open.id] = <<Answer(client, what, text)>>
          BY <2>4, <3>1
        <5>2. Answer(client, what, text).what = what
          BY DEF Answer
        <5> QED
          BY <5>1, <5>2
      <4> QED
        BY <1>3, <2>5, <3>1, <4>1 DEF Remembered
    <3>2. CASE id # ask.open.id
      <4>1. CASE ask.open.method = "select"
        <5>1. b[ask.open.id] = answers[ask.open.id]
          BY <2>4, <3>2, <4>1 DEF DialogInv, AskOK, NoAsk, NoDialog
        <5> QED
          BY <1>3, <2>5, <3>2, <5>1 DEF DialogInv, Remembered
      <4>2. CASE ask.open.method # "select"
        BY <4>2 DEF Remembered
      <4> QED
        BY <4>1, <4>2
    <3> QED
      BY <3>1, <3>2
  <2>8. AskOK(ask', asked') /\ asked' = asked /\ ask' = ask
    BY DEF DialogInv
  <2> QED
    BY <2>1, <2>2, <2>4, <2>5, <2>6, <2>7, <2>8, SyncKeeps
<1> QED
  BY <1>2, <1>3

\* remember_select_choice leaves the question, and toggles what was chosen for it.
LEMMA RememberOne ==
  ASSUME NEW u \in UI, NEW value \in Said
  PROVE  LET n == Remember(u, value)
         IN /\ n \in UI /\ n = [u EXCEPT !.memory = n.memory]
            /\ n.memory.question = u.memory.question
            /\ u.memory.question # "none" /\ value \in Choice
                 => n.memory.checked = Toggle(u.memory.checked, value)
<1> DEFINE n == Remember(u, value)
<1>1. u.memory \in Memory
  BY UIFields
<1>2. CASE u.memory = NoMemory
  BY <1>2 DEF Remember, NoMemory, UI
<1>3. CASE u.memory # NoMemory /\ value \in Choice
  <2> DEFINE m == [u.memory EXCEPT !.sent = value, !.selected = value,
                                   !.checked = Toggle(@, value)]
  <2>1. n = [u EXCEPT !.memory = m]
    BY <1>1, <1>3 DEF Remember, UI, Memory
  <2>2. Toggle(u.memory.checked, value) \in SUBSET Choice /\ value \in Option
    BY <1>1, <1>3 DEF Toggle, Memory, Option
  <2>3. /\ m \in Memory /\ m.question = u.memory.question
        /\ m.checked = Toggle(u.memory.checked, value)
    BY <1>1, <2>2 DEF Memory
  <2> HIDE DEF m, n
  <2> QED
    BY <2>1, <2>3 DEF UI, n
<1>4. CASE u.memory # NoMemory /\ value \notin Choice
  <2> DEFINE m == [u.memory EXCEPT !.sent = value]
  <2>1. n = [u EXCEPT !.memory = m]
    BY <1>1, <1>4 DEF Remember, UI, Memory
  <2>2. m \in Memory /\ m.question = u.memory.question
    BY <1>1 DEF Memory
  <2> HIDE DEF m, n
  <2> QED
    BY <1>4, <2>1, <2>2 DEF UI, n
<1> QED
  BY <1>2, <1>3, <1>4

\* The select at the head, of a view with a client: it is the ask's, unanswered, and
\* its choices so far are those the view remembers.
LEMMA TopOpen ==
  ASSUME DialogInv, Top.method # "none"
  PROVE  /\ Top \in Dialog /\ Top.id \in Ids(ui) /\ answers[Top.id] = <<>>
         /\ client # NoConn /\ (IsSelect \/ Top.id = ask.open.id) => Top = ask.open
         /\ client # NoConn /\ Top = ask.open /\ IsSelect /\ ask.fresh =>
              IF ui.memory.question # Top.question THEN ask.toggled = {}
              ELSE Top.question # "none" /\ ui.memory.checked = ask.toggled
<1>1. ui \in UI
  BY DEF DialogInv
<1>2. 1 \in DOMAIN ui.pending /\ Top = ui.pending[1]
  BY <1>1, Head1 DEF Top
<1>3. Top \in Dialog /\ Top.id \in Ids(ui)
  BY <1>1, <1>2, UIFields DEF Ids
<1>4. answers[Top.id] = <<>>
  BY <1>2 DEF DialogInv, Open
<1>5. ASSUME client # NoConn, IsSelect \/ Top.id = ask.open.id PROVE Top = ask.open
  BY <1>2, <1>5 DEF DialogInv, OnlyAsk, IsSelect
<1>6. ASSUME client # NoConn, Top = ask.open, IsSelect, ask.fresh
      PROVE  IF ui.memory.question # Top.question THEN ask.toggled = {}
             ELSE Top.question # "none" /\ ui.memory.checked = ask.toggled
  BY <1>4, <1>6, DialogAssumption DEF DialogInv, AskOK, Remembered, IsSelect
<1> QED
  BY <1>3, <1>4, <1>5, <1>6

\* A request takes the place behind the others, with a number of its own.
LEMMA RequestKeeps ==
  ASSUME DialogInv, UNCHANGED client, NEW d \in Dialog, d.id = NextId, Request(d),
         AskOK(ask', Append(asked, client)),
         \A i \in DOMAIN ui.pending :
           \/ ui.pending[i].method # "select" /\ (ui.pending[i].id = ask'.open.id => ui.pending[i] = ask'.open)
           \/ ui.pending[i] = ask'.open,
         d.method = "select" \/ d.id = ask'.open.id => d = ask'.open,
         Remembered(ui, Append(answers, <<>>), ask')
  PROVE  DialogInv'
<1> DEFINE u == [ui EXCEPT !.pending = Append(@, d)]
           a == Append(answers, <<>>)
           k == Append(asked, client)
           n == Len(asked) + 1
<1>1. client \in Conn /\ asked' = k /\ Synced(u, a)
  BY DEF Request, DialogInv
<1>2. /\ asked \in Seq(Conn) /\ answers \in Seq(Seq(Reply)) /\ Len(answers) = Len(asked)
      /\ Len(asked) \in Nat /\ DOMAIN asked = 1..Len(asked)
  BY DEF DialogInv, Replies
<1>3. /\ k \in Seq(Conn) /\ Len(k) = n /\ k[n] = client /\ \A i \in DOMAIN asked : k[i] = asked[i]
      /\ a \in Seq(Seq(Reply)) /\ Len(a) = n /\ a[n] = <<>>
      /\ \A i \in DOMAIN asked : a[i] = answers[i]
      /\ DOMAIN k = DOMAIN asked \cup {n}
  BY <1>1, <1>2
<1>4. Replies(a, k)
  BY <1>2, <1>3 DEF DialogInv, Replies
<1>5. ui.pending \in Seq(Dialog) /\ Len(ui.pending) \in Nat /\ DOMAIN ui.pending = 1..Len(ui.pending)
  BY UIFields DEF DialogInv
<1>6. /\ u \in UI /\ u.pending = Append(ui.pending, d) /\ u.memory = ui.memory
      /\ u.gens = ui.gens
  <2>1. Append(ui.pending, d) \in Seq(Dialog) /\ ui \in UI
    BY <1>5 DEF DialogInv
  <2> QED
    BY <2>1 DEF UI
<1>7. /\ DOMAIN u.pending = DOMAIN ui.pending \cup {Len(ui.pending) + 1}
      /\ u.pending[Len(ui.pending) + 1] = d
      /\ \A i \in DOMAIN ui.pending : u.pending[i] = ui.pending[i]
  BY <1>5, <1>6
<1>8. d.id = n /\ n \notin DOMAIN asked
  BY <1>2 DEF NextId
<1>9. \A i \in DOMAIN ui.pending : ui.pending[i].id \in DOMAIN asked
  BY DEF DialogInv, Open
<1> HIDE DEF u, a, k, n
<1>10. Distinct(u)
  <2>1. SUFFICES ASSUME NEW i \in DOMAIN u.pending, NEW j \in DOMAIN u.pending,
                        u.pending[i].id = u.pending[j].id
                 PROVE  i = j
    BY DEF Distinct
  <2>2. CASE i \in DOMAIN ui.pending /\ j \in DOMAIN ui.pending
    BY <1>7, <2>1, <2>2 DEF DialogInv, Open, Distinct
  <2> QED
    BY <1>7, <1>8, <1>9, <2>1, <2>2
<1>11. Open(u, a, k, client)
  <2>1. SUFFICES ASSUME NEW i \in DOMAIN u.pending
                 PROVE  /\ u.pending[i].id \in DOMAIN k /\ a[u.pending[i].id] = <<>>
                        /\ k[u.pending[i].id] = client
    BY <1>10 DEF Open
  <2>2. CASE i \in DOMAIN ui.pending
    <3>1. LET x == ui.pending[i].id
          IN x \in DOMAIN asked /\ answers[x] = <<>> /\ (client # NoConn => asked[x] = client)
      BY <2>2 DEF DialogInv, Open
    <3> QED
      BY <1>1, <1>3, <1>7, <2>2, <3>1, ConversationAssumption
  <2>3. CASE i \notin DOMAIN ui.pending
    BY <1>3, <1>7, <1>8, <2>3
  <2> QED
    BY <2>2, <2>3
<1>12. OnlyAsk(u, ask')
  BY <1>7 DEF OnlyAsk
<1>13. Remembered(u, a, ask')
  BY <1>6 DEF Remembered, a
<1>14. AskOK(ask', k)
  BY DEF k
<1> QED
  BY <1>1, <1>4, <1>6, <1>11, <1>12, <1>13, <1>14, SyncKeeps

-----------------------------------------------------------------------------
(* The handlers.                                                             *)

LEMMA AskOpensKeeps == ASSUME DialogInv, UNCHANGED client, AskOpens PROVE DialogInv'
<1>1. PICK q \in Question, loop \in BOOLEAN, timed \in BOOLEAN, done \in BOOLEAN :
        /\ Request(Select(q, done, timed))
        /\ ask' = [open |-> Select(q, done, timed), loop |-> loop, toggled |-> {},
                   fresh |-> ui.memory.question # q]
  BY DEF AskOpens
<1> DEFINE d == Select(q, done, timed)
<1>2. /\ asked \in Seq(Conn) /\ NextId \in Nat \ {0} /\ client \in Conn
      /\ NextId \in DOMAIN Append(asked, client)
  BY <1>1 DEF DialogInv, Replies, NextId, Request
<1>3. d \in Dialog /\ d.id = NextId /\ d.method = "select" /\ d.question = q
  BY <1>2 DEF Dialog, Select
<1>4. /\ ask'.open = d /\ ask'.toggled = {} /\ ask'.fresh = (ui.memory.question # q)
      /\ ask' \in [open : Dialog \cup {NoDialog}, loop : BOOLEAN, toggled : SUBSET Choice, fresh : BOOLEAN]
  BY <1>1, <1>3
<1>5. AskOK(ask', Append(asked, client))
  BY <1>2, <1>3, <1>4 DEF AskOK
<1>6. ASSUME NEW i \in DOMAIN ui.pending
      PROVE  ui.pending[i].method # "select" /\ ui.pending[i].id # NextId
  <2>1. ui.pending[i].id \in Nat \ {0} /\ ui.pending[i].id \in DOMAIN asked
    BY UIFields DEF DialogInv, Dialog, Open
  <2>2. ui.pending[i].id # NextId
    BY <1>2, <2>1 DEF NextId
  <2>3. ask.open = NoDialog
    BY DEF AskOpens, NoAsk
  <2>4. ui.pending[i].method # "select"
    BY <1>1, <2>1, <2>3, ConversationAssumption DEF DialogInv, OnlyAsk, Request, NoDialog, None
  <2> QED
    BY <2>2, <2>4
<1>7. Remembered(ui, Append(answers, <<>>), ask')
  BY <1>3, <1>4 DEF Remembered
<1> HIDE DEF d
<1> QED
  BY <1>1, <1>3, <1>4, <1>5, <1>6, <1>7, RequestKeeps DEF d

LEMMA OtherRequestKeeps == ASSUME DialogInv, UNCHANGED client, OtherRequest PROVE DialogInv'
<1>1. PICK m \in {"confirm", "input"}, timed \in BOOLEAN : Request(Plain(m, timed))
  BY DEF OtherRequest
<1> DEFINE d == Plain(m, timed)
<1>2. asked \in Seq(Conn) /\ NextId \in Nat \ {0} /\ NextId \notin DOMAIN asked /\ client \in Conn
  BY <1>1 DEF DialogInv, Replies, NextId, Request
<1>3. d \in Dialog /\ d.id = NextId /\ d.method # "select"
  BY <1>2 DEF Dialog, Plain
<1>4. ask' = ask /\ AskOK(ask, asked)
  BY DEF OtherRequest, DialogInv
<1>5. AskOK(ask', Append(asked, client))
  BY <1>2, <1>4 DEF AskOK
<1>6. ask.open.id # NextId
  BY <1>2, <1>4 DEF AskOK, NoAsk, NoDialog, None
<1>7. \A i \in DOMAIN ui.pending :
        ui.pending[i].method = "select" \/ ui.pending[i].id = ask.open.id => ui.pending[i] = ask.open
  BY <1>2, ConversationAssumption DEF DialogInv, OnlyAsk
<1>8. Remembered(ui, Append(answers, <<>>), ask)
  <2>1. SUFFICES ASSUME ask.open.method = "select"
                 PROVE  Append(answers, <<>>)[ask.open.id] = answers[ask.open.id]
    BY <1>2, ConversationAssumption DEF DialogInv, Remembered
  <2>2. ask.open.id \in DOMAIN asked /\ answers \in Seq(Seq(Reply)) /\ Len(answers) = Len(asked)
    BY <1>4, <2>1 DEF AskOK, NoAsk, NoDialog, DialogInv, Replies
  <2> QED
    BY <1>2, <2>2
<1> HIDE DEF d
<1> QED
  BY <1>1, <1>3, <1>4, <1>5, <1>6, <1>7, <1>8, RequestKeeps DEF d

\* The loop goes on with what the view has remembered, or ends.
LEMMA AskGoesOnKeeps == ASSUME DialogInv, UNCHANGED client, AskGoesOn PROVE DialogInv'
<1> DEFINE what == answers[ask.open.id][1].what
           again == [ask.open EXCEPT !.id = NextId]
           editor == Plain("editor", FALSE)
<1>1. ask # NoAsk /\ answers[ask.open.id] # <<>>
  BY DEF AskGoesOn
<1>2. /\ ask.open.method = "select" => ask.open.question \in Question
      /\ ask.open \in Dialog /\ ask.open.id \in DOMAIN asked /\ ask.loop \in BOOLEAN
      /\ ask.toggled \in SUBSET Choice /\ ask.fresh \in BOOLEAN
      /\ ask \in [open : Dialog \cup {NoDialog}, loop : BOOLEAN, toggled : SUBSET Choice, fresh : BOOLEAN]
  BY <1>1 DEF DialogInv, AskOK
<1>3. asked \in Seq(Conn) /\ NextId \in Nat \ {0} /\ NextId \notin DOMAIN asked
  BY DEF DialogInv, Replies, NextId
<1>4. ASSUME client # NoConn, NEW i \in DOMAIN ui.pending
      PROVE  ui.pending[i].method # "select" /\ ui.pending[i].id # NextId
  <2>1. ui.pending[i].id \in DOMAIN asked /\ answers[ui.pending[i].id] = <<>>
    BY DEF DialogInv, Open
  <2>2. ui.pending[i] # ask.open
    BY <1>1, <2>1
  <2> QED
    BY <1>3, <1>4, <2>1, <2>2 DEF DialogInv, OnlyAsk
<1>5. CASE /\ what \in Choice /\ ask.loop /\ Request(again)
           /\ ask' = [ask EXCEPT !.open = again, !.toggled = Toggle(@, what),
                                 !.fresh = @ /\ ui.memory.question = ask.open.question]
  <2>1. client \in Conn /\ client # NoConn /\ NextId \in DOMAIN Append(asked, client)
    BY <1>3, <1>5, ConversationAssumption DEF Request, DialogInv, NextId
  <2>2. /\ again \in Dialog /\ again.id = NextId /\ again.method = ask.open.method
        /\ again.question = ask.open.question
    BY <1>2, <1>3 DEF Dialog
  <2>3. Toggle(ask.toggled, what) \in SUBSET Choice
    BY <1>2, <1>5 DEF Toggle
  <2> HIDE DEF what, again
  <2>4. /\ ask'.open = again /\ ask'.toggled = Toggle(ask.toggled, what)
        /\ ask'.fresh = (ask.fresh /\ ui.memory.question = ask.open.question)
        /\ ask' \in [open : Dialog \cup {NoDialog}, loop : BOOLEAN, toggled : SUBSET Choice, fresh : BOOLEAN]
    BY <1>2, <1>5, <2>2, <2>3
  <2>5. AskOK(ask', Append(asked, client))
    BY <1>2, <2>1, <2>2, <2>4 DEF AskOK
  <2>6. Remembered(ui, Append(answers, <<>>), ask')
    <3>1. SUFFICES ASSUME ask'.open.method = "select", ask'.fresh
                   PROVE  /\ ui.memory.question = ask'.open.question
                          /\ Append(answers, <<>>)[ask'.open.id] = <<>>
                          /\ ui.memory.checked = ask'.toggled
      BY DEF Remembered
    <3>2. Append(answers, <<>>)[NextId] = <<>>
      <4>1. answers \in Seq(Seq(Reply)) /\ Len(answers) + 1 = NextId
        BY DEF DialogInv, Replies, NextId
      <4> QED
        BY <4>1
    <3>3. ui.memory.checked = Toggle(ask.toggled, what)
      BY <1>1, <1>5, <2>1, <2>2, <2>4, <3>1 DEF DialogInv, Remembered, what
    <3> QED
      BY <2>2, <2>4, <3>1, <3>2, <3>3
  <2> QED
    BY <1>4, <1>5, <2>1, <2>2, <2>4, <2>5, <2>6, RequestKeeps
<1>6. CASE Request(editor) /\ ask' = [NoAsk EXCEPT !.open = editor]
  <2>1. client \in Conn /\ client # NoConn /\ NextId \in DOMAIN Append(asked, client)
    BY <1>3, <1>6, ConversationAssumption DEF Request, DialogInv, NextId
  <2>2. editor \in Dialog /\ editor.id = NextId /\ editor.method = "editor"
    BY <1>3 DEF Dialog, Plain
  <2> HIDE DEF editor
  <2>3. /\ ask'.open = editor
        /\ ask' \in [open : Dialog \cup {NoDialog}, loop : BOOLEAN, toggled : SUBSET Choice, fresh : BOOLEAN]
    BY <1>6, <2>2 DEF NoAsk
  <2>4. AskOK(ask', Append(asked, client))
    BY <2>1, <2>2, <2>3 DEF AskOK
  <2>5. Remembered(ui, Append(answers, <<>>), ask')
    BY <2>2, <2>3 DEF Remembered
  <2> QED
    BY <1>4, <1>6, <2>1, <2>2, <2>3, <2>4, <2>5, RequestKeeps
<1>7. CASE ask' = NoAsk /\ UNCHANGED <<asked, answers, ui>>
  <2>1. AskOK(NoAsk, asked)
    BY DEF AskOK, NoAsk, NoDialog
  <2>2. Remembered(ui, answers, NoAsk)
    BY DEF Remembered, NoAsk, NoDialog
  <2>3. client # NoConn => OnlyAsk(ui, NoAsk)
    <3>1. SUFFICES ASSUME client # NoConn, NEW i \in DOMAIN ui.pending
                   PROVE  ui.pending[i].method # "select" /\ ui.pending[i].id # NoAsk.open.id
      BY DEF OnlyAsk
    <3>2. ui.pending[i].id \in DOMAIN asked
      BY DEF DialogInv, Open
    <3> QED
      BY <1>3, <1>4, <3>1, <3>2 DEF NoAsk, NoDialog, None
  <2> QED
    BY <1>7, <2>1, <2>2, <2>3 DEF DialogInv
<1> QED
  BY <1>5, <1>6, <1>7 DEF AskGoesOn

LEMMA OmpCancelsKeeps == ASSUME DialogInv, UNCHANGED client, OmpCancels PROVE DialogInv'
<1>1. PICK id \in Ids(ui) : /\ Synced(Without(ui, id), answers)
                            /\ ask' = IF id = ask.open.id THEN NoAsk ELSE ask
  BY DEF OmpCancels
<1> DEFINE w == Without(ui, id)
<1>2. client \in Conn /\ client # NoConn /\ asked' = asked
  BY DEF OmpCancels, DialogInv
<1>3. /\ w \in UI /\ Distinct(w) /\ w.memory = ui.memory
      /\ \A j \in DOMAIN w.pending :
           w.pending[j].id # id /\ \E i \in DOMAIN ui.pending : w.pending[j] = ui.pending[i]
  <2>1. ui \in UI /\ Distinct(ui)
    BY DEF DialogInv, Open
  <2>2. w = [ui EXCEPT !.pending = w.pending]
    BY <2>1, WithoutOne
  <2> QED
    BY <2>1, <2>2, WithoutOne DEF UI
<1> HIDE DEF w
<1>4. Open(w, answers, asked, client)
  BY <1>3 DEF DialogInv, Open
<1>5. OnlyAsk(w, ask)
  BY <1>2, <1>3 DEF DialogInv, OnlyAsk
<1>6. CASE id # ask.open.id
  <2>1. ask' = ask /\ Remembered(w, answers, ask)
    BY <1>1, <1>2, <1>3, <1>6 DEF DialogInv, Remembered
  <2> QED
    BY <1>1, <1>2, <1>3, <1>4, <1>5, <2>1, SyncKeeps DEF DialogInv, w
<1>7. CASE id = ask.open.id
  <2>1. ask' = NoAsk
    BY <1>1, <1>7
  <2>2. AskOK(NoAsk, asked) /\ Remembered(w, answers, NoAsk)
    BY DEF AskOK, Remembered, NoAsk, NoDialog
  <2>3. OnlyAsk(w, NoAsk)
    <3>1. SUFFICES ASSUME NEW j \in DOMAIN w.pending
                   PROVE  w.pending[j].method # "select" /\ w.pending[j].id # 0
      BY DEF OnlyAsk, NoAsk, NoDialog, None
    <3>2. w.pending[j] \in Dialog
      BY <1>3, UIFields
    <3>3. w.pending[j] # ask.open
      BY <1>3, <1>7
    <3> QED
      BY <1>5, <3>2, <3>3 DEF OnlyAsk, Dialog
  <2> QED
    BY <1>1, <1>2, <1>3, <1>4, <2>1, <2>2, <2>3, SyncKeeps DEF DialogInv, w
<1> QED
  BY <1>6, <1>7

\* An answer to the select at the head, which the view remembers first.
LEMMA SelectSubmitKeeps ==
  ASSUME DialogInv, UNCHANGED <<client, asked, ask>>, IsSelect,
         NEW u \in UI, u.pending = ui.pending, u.gens = ui.gens,
         u.memory.question = ui.memory.question, u.memory.checked = ui.memory.checked,
         NEW what \in Said, Submit(Remember(u, what), Top.id, what, None)
  PROVE  DialogInv'
<1> DEFINE n == Remember(u, what)
<1>1. /\ n \in UI /\ n = [u EXCEPT !.memory = n.memory]
      /\ n.memory.question = u.memory.question
      /\ u.memory.question # "none" /\ what \in Choice
           => n.memory.checked = Toggle(u.memory.checked, what)
  BY RememberOne
<1> HIDE DEF n
<1>2. n.pending = ui.pending /\ n.gens = ui.gens
  BY <1>1 DEF UI
<1>3. /\ Top.id \in Ids(ui)
      /\ client # NoConn => Top = ask.open
      /\ client # NoConn /\ Top = ask.open /\ ask.fresh =>
           IF ui.memory.question # Top.question THEN ask.toggled = {}
           ELSE Top.question # "none" /\ ui.memory.checked = ask.toggled
  BY TopOpen DEF IsSelect
<1>4. ASSUME client # NoConn, Top.id = ask.open.id, ask.open.method = "select", ask.fresh
      PROVE  IF n.memory.question # ask.open.question THEN ask.toggled = {}
             ELSE what \in Choice => n.memory.checked = Toggle(ask.toggled, what)
  BY <1>1, <1>3, <1>4
<1>5. None \in Nat /\ (client # NoConn /\ Top.id # ask.open.id => n.memory = ui.memory)
  BY <1>3 DEF None
<1>6. Submit(n, Top.id, what, None)
  BY DEF n
<1> QED
  BY <1>1, <1>2, <1>3, <1>4, <1>5, <1>6, SubmitKeeps

\* A step that answers nothing, and leaves what waits and what is checked.
LEMMA QuietKeeps ==
  ASSUME DialogInv, UNCHANGED <<client, asked, answers, ask>>,
         ui' \in UI, ui'.pending = ui.pending, ui'.gens = ui.gens,
         ui'.memory.question = ui.memory.question, ui'.memory.checked = ui.memory.checked,
         IsText(Top) => ui'.bound = ui.bound /\ ui'.custom = ui.custom
  PROVE  DialogInv'
<1>1. Open(ui', answers, asked, client)
  BY DEF DialogInv, Open, Distinct
<1>2. client # NoConn => OnlyAsk(ui', ask) /\ Remembered(ui', answers, ask)
  BY DEF DialogInv, OnlyAsk, Remembered
<1>3. HeadDialog(ui') = Top /\ HeadDialog(ui) = Top
  BY DEF Top, HeadDialog
<1>4. client # NoConn => Served(ui')
  BY <1>3 DEF DialogInv, Served, Timed
<1> QED
  BY <1>1, <1>2, <1>4 DEF DialogInv

LEMMA MarkKeeps == ASSUME DialogInv, UNCHANGED client, MarkDialogSelection PROVE DialogInv'
<1>1. PICK o \in Option :
        LET u == Marked(ui, Top.id, o)
        IN IF Top.done /\ o \in Choice
             THEN Submit(Remember(u, o), Top.id, o, None)
             ELSE ui' = SyncDialogInput(u) /\ UNCHANGED answers
  BY DEF MarkDialogSelection
<1> DEFINE u == Marked(ui, Top.id, o)
<1>2. IsSelect /\ UNCHANGED <<asked, ask>>
  BY DEF MarkDialogSelection
<1>3. Top.id \in Nat /\ ui \in UI
  BY <1>2, TopOpen DEF DialogInv, Dialog, IsSelect
<1>4. /\ u \in UI /\ u.pending = ui.pending /\ u.gens = ui.gens
      /\ u.memory.question = ui.memory.question /\ u.memory.checked = ui.memory.checked
  <2>1. ui.memory \in Memory
    BY <1>3, UIFields
  <2> DEFINE m == IF ui.memory = NoMemory THEN ui.memory ELSE [ui.memory EXCEPT !.selected = o]
  <2>2. m \in Memory /\ m.question = ui.memory.question /\ m.checked = ui.memory.checked
    BY <2>1 DEF Memory
  <2>3. u = [ui EXCEPT !.draft = [dialog |-> Top.id, selected |-> o], !.memory = m]
    BY <1>3 DEF Marked, UI
  <2> HIDE DEF m, u
  <2> QED
    BY <1>3, <2>2, <2>3 DEF UI
<1> HIDE DEF u
<1>5. CASE Top.done /\ o \in Choice
  BY <1>1, <1>2, <1>4, <1>5, SelectSubmitKeeps DEF Said, u
<1>6. CASE ~(Top.done /\ o \in Choice)
  <2>1. ui' = SyncDialogInput(u) /\ UNCHANGED answers
    BY <1>1, <1>6 DEF u
  <2>2. ui' \in UI /\ ui' = [u EXCEPT !.bound = ui'.bound, !.field = ui'.field]
    BY <1>4, <2>1, InputSync
  <2>3. /\ ui'.pending = ui.pending /\ ui'.gens = ui.gens
        /\ ui'.memory.question = ui.memory.question /\ ui'.memory.checked = ui.memory.checked
    BY <1>4, <2>2 DEF UI
  <2> QED
    BY <1>2, <2>1, <2>2, <2>3, QuietKeeps DEF IsSelect, IsText
<1> QED
  BY <1>5, <1>6

LEMMA ConfirmKeeps ==
  ASSUME DialogInv, UNCHANGED client, ConfirmDialogSelection PROVE DialogInv'
<1> DEFINE next == SelectContinue(ui, Top)
           u == [ui EXCEPT !.custom = next.custom]
<1>1. /\ IsSelect /\ next # Nothing /\ UNCHANGED <<asked, ask>>
      /\ Submit(Remember(u, next.what), Top.id, next.what, None)
  BY DEF ConfirmDialogSelection
<1>2. Top \in Dialog /\ ui \in UI
  BY <1>1, TopOpen DEF DialogInv, IsSelect
<1>3. /\ Top.id \in Nat /\ Top.done \in BOOLEAN /\ ui.field \in Nat /\ ui.custom \in Nat
      /\ ui.draft.selected \in Option \cup {"none"}
  BY <1>2, UIFields DEF Dialog
<1>4. next.what \in Said /\ next.custom \in Nat
  <2>1. CASE ui.draft.selected = "other"
    <3>1. next = IF ui.field = None THEN Nothing ELSE [what |-> "other", custom |-> ui.field]
      BY <2>1, DialogAssumption DEF SelectContinue
    <3> QED
      BY <1>1, <1>3, <3>1 DEF Said, Option
  <2>2. CASE Top.done /\ ui.draft.selected # "other"
    <3>1. next = [what |-> "ended", custom |-> ui.custom]
      BY <2>2 DEF SelectContinue
    <3> QED
      BY <1>3, <3>1 DEF Said
  <2>3. CASE ~Top.done /\ ui.draft.selected = "none"
    <3>1. next = Nothing
      BY <2>3, DialogAssumption DEF SelectContinue
    <3> QED
      BY <1>1, <3>1
  <2>4. CASE ~Top.done /\ ui.draft.selected \in Choice
    <3>1. next = IF ui.memory.sent = ui.draft.selected
                   THEN [what |-> "other", custom |-> Top.id]
                   ELSE [what |-> ui.draft.selected, custom |-> ui.custom]
      BY <2>4, DialogAssumption DEF SelectContinue
    <3> QED
      BY <1>3, <2>4, <3>1 DEF Said, Option
  <2> QED
    BY <1>3, <2>1, <2>2, <2>3, <2>4 DEF Option
<1> HIDE DEF next
<1>5. u \in UI /\ u.pending = ui.pending /\ u.gens = ui.gens /\ u.memory = ui.memory
  BY <1>2, <1>4 DEF UI
<1> HIDE DEF u
<1> QED
  BY <1>1, <1>4, <1>5, SelectSubmitKeeps

LEMMA TypeAnswerKeeps == ASSUME DialogInv, UNCHANGED client, TypeAnswer PROVE DialogInv'
<1>1. /\ ui' = [ui EXCEPT !.field = Top.id] /\ UNCHANGED <<asked, answers, ask>>
      /\ IsText(Top) \/ CustomAtHead(ui)
  BY DEF TypeAnswer
<1>2. Top.method # "none"
  BY <1>1 DEF IsText, CustomAtHead, Top
<1>3. Top.id \in Nat /\ ui \in UI
  BY <1>2, TopOpen DEF DialogInv, Dialog
<1>4. /\ ui' \in UI /\ ui'.pending = ui.pending /\ ui'.gens = ui.gens
      /\ ui'.memory = ui.memory /\ ui'.bound = ui.bound /\ ui'.custom = ui.custom
  BY <1>1, <1>3 DEF UI
<1> QED
  BY <1>1, <1>4, QuietKeeps

\* Both close the dialog at the head with an answer that toggles nothing.
LEMMA EndedKeeps ==
  ASSUME DialogInv, UNCHANGED <<client, asked, ask>>, Top.method # "none", NEW text \in Nat,
         Submit(ui, Top.id, "ended", text)
  PROVE  DialogInv'
<1>1. /\ Top.id \in Ids(ui)
      /\ client # NoConn /\ Top.id = ask.open.id => Top = ask.open
      /\ client # NoConn /\ Top = ask.open /\ IsSelect /\ ask.fresh
           /\ ui.memory.question # Top.question => ask.toggled = {}
  BY TopOpen
<1>2. "ended" \in Said /\ "ended" \notin Choice /\ ui \in UI
  BY DialogAssumption DEF Said, DialogInv
<1>3. client # NoConn /\ Top.id = ask.open.id /\ ask.open.method = "select" /\ ask.fresh
        => IF ui.memory.question # ask.open.question THEN ask.toggled = {}
           ELSE "ended" \in Choice => ui.memory.checked = Toggle(ask.toggled, "ended")
  BY <1>1, <1>2 DEF IsSelect
<1> QED
  BY <1>1, <1>2, <1>3, SubmitKeeps

LEMMA SubmitInputKeeps ==
  ASSUME DialogInv, UNCHANGED client, SubmitDialogInput PROVE DialogInv'
<1>1. /\ IsText(Top) /\ UNCHANGED <<asked, ask>>
      /\ Submit(ui, Top.id, "ended", ui.field)
  BY DEF SubmitDialogInput
<1>2. ui.field \in Nat /\ Top.method # "none"
  BY <1>1, UIFields DEF DialogInv, IsText
<1> QED
  BY <1>1, <1>2, EndedKeeps

LEMMA KeyKeeps == ASSUME DialogInv, UNCHANGED client, DialogKey PROVE DialogInv'
<1>1. ui.pending # <<>> /\ UNCHANGED <<asked, ask>> /\ Submit(ui, Top.id, "ended", None)
  BY DEF DialogKey
<1>2. Top = ui.pending[1] /\ 1 \in DOMAIN ui.pending /\ ui \in UI
  BY <1>1, UIFields DEF Top, HeadDialog, First1, DialogInv
<1>3. Top.method # "none"
  BY <1>2, UIFields DEF Dialog
<1> QED
  BY <1>1, <1>3, EndedKeeps DEF None

\* A timer answers like a key, whatever place the dialog has by then.
LEMMA TimerKeeps ==
  ASSUME DialogInv, UNCHANGED client, NEW id \in ui.gens, DialogTimerFires(id)
  PROVE  DialogInv'
<1> DEFINE w == Without(ui, id)
           u == [w EXCEPT !.gens = @ \ {id}]
           told == IF client = NoConn THEN answers ELSE Answered(answers, id, client, "ended", None)
<1>1. /\ UNCHANGED <<asked, ask>>
      /\ IF id \in Ids(ui) THEN Synced(u, told) ELSE ui' = u /\ UNCHANGED answers
  BY DEF DialogTimerFires, Answered
<1>2. /\ w \in UI /\ Distinct(w) /\ w.memory = ui.memory /\ w.gens = ui.gens
      /\ \A j \in DOMAIN w.pending :
           w.pending[j].id # id /\ \E i \in DOMAIN ui.pending : w.pending[j] = ui.pending[i]
      /\ id \notin Ids(ui) => w = ui
  <2>1. ui \in UI /\ Distinct(ui)
    BY DEF DialogInv, Open
  <2>2. w = [ui EXCEPT !.pending = w.pending]
    BY <2>1, WithoutOne
  <2> QED
    BY <2>1, <2>2, WithoutOne DEF UI
<1> HIDE DEF w
<1>3. /\ u \in UI /\ u.pending = w.pending /\ u.memory = ui.memory
      /\ u.gens = ui.gens \ {id} /\ u.bound = w.bound /\ u.custom = w.custom
  BY <1>2 DEF UI
<1> HIDE DEF u, told
<1>4. CASE id \notin Ids(ui)
  <2>1. /\ ui' = u /\ UNCHANGED <<answers, asked, ask>> /\ u.pending = ui.pending
        /\ u.bound = ui.bound /\ u.custom = ui.custom
    BY <1>1, <1>2, <1>3, <1>4
  <2>2. Open(u, answers, asked, client)
    BY <2>1 DEF DialogInv, Open, Distinct
  <2>3. client # NoConn => OnlyAsk(u, ask) /\ Remembered(u, answers, ask)
    BY <1>3, <2>1 DEF DialogInv, OnlyAsk, Remembered
  <2>4. client # NoConn => Served(u)
    <3>1. HeadDialog(u) = HeadDialog(ui)
      BY <2>1 DEF HeadDialog
    <3>2. \A i \in DOMAIN ui.pending : ui.pending[i].id # id
      BY <1>4 DEF Ids
    <3> QED
      BY <1>3, <2>1, <3>1, <3>2 DEF DialogInv, Served, Timed
  <2>5. u.gens \subseteq DOMAIN asked
    BY <1>3 DEF DialogInv
  <2> QED
    BY <1>3, <2>1, <2>2, <2>3, <2>4, <2>5 DEF DialogInv
<1>5. CASE id \in Ids(ui)
  <2>1. Synced(u, told)
    BY <1>1, <1>5
  <2>2. CASE client = NoConn
    <3>1. told = answers
      BY <2>2 DEF told
    <3>2. Open(u, answers, asked, client)
      BY <1>2, <1>3 DEF DialogInv, Open, Distinct
    <3> QED
      BY <1>1, <1>3, <2>1, <2>2, <3>1, <3>2, SyncKeeps DEF DialogInv
  <2>3. CASE client # NoConn
    <3>1. told = Answered(answers, id, client, "ended", None)
      BY <2>3 DEF told
    <3>2. /\ ui \in UI /\ Open(ui, answers, asked, client) /\ Replies(answers, asked)
          /\ client \in Conn /\ "ended" \in Said /\ None \in Nat /\ "ended" \notin Choice
      BY <2>3, DialogAssumption DEF DialogInv, Said, None
    <3>3. /\ Replies(told, asked) /\ told[id] = <<Answer(client, "ended", None)>>
          /\ \A d \in DOMAIN asked : d # id => told[d] = answers[d]
          /\ Open(w, told, asked, client)
      BY <1>5, <3>1, <3>2, Sent DEF w
    <3>4. Open(u, told, asked, client)
      BY <1>2, <1>3, <3>3 DEF Open, Distinct
    <3>5. OnlyAsk(u, ask)
      BY <1>2, <1>3, <2>3 DEF DialogInv, OnlyAsk
    <3>6. Remembered(u, told, ask)
      <4>1. SUFFICES ASSUME ask.open.method = "select", ask.fresh PROVE Remembered(u, told, ask)
        BY DEF Remembered
      <4>2. ask.open.id \in DOMAIN asked
        BY <4>1 DEF DialogInv, AskOK, NoAsk, NoDialog
      <4>3. CASE ask.open.id # id
        BY <1>3, <2>3, <3>3, <4>2, <4>3 DEF DialogInv, Remembered
      <4>4. CASE ask.open.id = id
        <5>1. told[id] # <<>> /\ told[id][1] = Answer(client, "ended", None)
          BY <3>3
        <5>2. told[id][1].what = "ended"
          BY <5>1 DEF Answer
        <5>3. ui.memory.question # ask.open.question => ask.toggled = {}
          BY <2>3, <4>1 DEF DialogInv, Remembered
        <5> QED
          BY <1>3, <3>2, <4>4, <5>1, <5>2, <5>3 DEF Remembered
      <4> QED
        BY <4>3, <4>4
    <3> QED
      BY <1>1, <1>3, <2>1, <2>3, <3>2, <3>3, <3>4, <3>5, <3>6, SyncKeeps DEF DialogInv
  <2> QED
    BY <2>2, <2>3
<1> QED
  BY <1>4, <1>5

\* The life of the view: nothing waits any more, or nobody is there to hear of it.
LEMMA LifeKeeps ==
  ASSUME DialogInv, client' \in Conn \cup {NoConn}, ask' = NoAsk, UNCHANGED <<asked, answers>>,
         ui' \in UI, ui'.gens \subseteq ui.gens,
         ui'.pending = <<>> \/ (ui'.pending = ui.pending /\ client' = NoConn)
  PROVE  DialogInv'
<1>1. AskOK(NoAsk, asked)
  BY DEF AskOK, NoAsk, NoDialog
<1>2. Remembered(ui', answers, NoAsk)
  BY DEF Remembered, NoAsk, NoDialog
<1>3. CASE ui'.pending = <<>>
  <2>1. HeadDialog(ui') = NoDialog /\ DOMAIN ui'.pending = {}
    BY <1>3 DEF HeadDialog, First1
  <2>2. OnlyAsk(ui', NoAsk) /\ Served(ui') /\ Open(ui', answers, asked, client')
    BY <2>1 DEF OnlyAsk, Served, Timed, Open, Distinct, IsText, NoDialog
  <2> QED
    BY <1>1, <1>2, <2>2 DEF DialogInv
<1>4. CASE ui'.pending = ui.pending /\ client' = NoConn
  <2>1. Open(ui', answers, asked, NoConn)
    BY <1>4 DEF DialogInv, Open, Distinct
  <2> QED
    BY <1>1, <1>4, <2>1 DEF DialogInv
<1> QED
  BY <1>3, <1>4

LEMMA ResetOnes ==
  ASSUME NEW u \in UI
  PROVE  /\ Emptied(u) \in UI /\ Emptied(u).pending = <<>> /\ Emptied(u).gens = u.gens
         /\ Reset(u) \in UI /\ Reset(u).pending = u.pending /\ Reset(u).gens = {}
<1>1. <<>> \in Seq(Dialog) /\ NoBound \in [dialog : Nat, custom : BOOLEAN] /\ None \in Nat
  BY DEF NoBound, None
<1>2. Emptied(u) \in UI /\ Emptied(u).pending = <<>> /\ Emptied(u).gens = u.gens
  BY <1>1 DEF Emptied, UI
<1>3. Reset(u) \in UI /\ Reset(u).pending = u.pending /\ Reset(u).gens = {}
  BY <1>1 DEF Reset, UI
<1> QED
  BY <1>2, <1>3

LEMMA LifeNextKeeps == ASSUME DialogInv, LifeNext PROVE DialogInv'
<1>1. ui \in UI
  BY DEF DialogInv
<1>2. CASE Attach1
  BY <1>1, <1>2, LifeKeeps, ResetOnes DEF Attach1, LinkAttach, DialogsEmptied
<1>3. CASE Lose
  <2>1. client' = NoConn /\ ask' = NoAsk /\ UNCHANGED <<asked, answers>>
    BY <1>3 DEF Lose, LinkLost, DialogsLost
  <2>2. ui' = Reset(ui) \/ ui' = Emptied(Reset(ui))
    BY <1>3 DEF Lose, DialogsLost
  <2> QED
    BY <1>1, <2>1, <2>2, LifeKeeps, ResetOnes
<1>4. CASE Recycle
  BY <1>1, <1>4, LifeKeeps, ResetOnes DEF Recycle, LinkRecycle, DialogsEmptied
<1>5. CASE FailToConnect
  BY <1>5 DEF FailToConnect, LinkFail, dialogVars, DialogInv
<1>6. CASE Leave
  <2> DEFINE e == Emptied(Reset(ui))
  <2>1. e \in UI /\ e.pending = <<>> /\ e.gens = {}
    BY <1>1, ResetOnes
  <2>2. client' = NoConn /\ ask' = NoAsk /\ UNCHANGED <<asked, answers>> /\ ui' = [e EXCEPT !.field = None]
    BY <1>6 DEF Leave, LinkLeave, DialogsLeft
  <2> HIDE DEF e
  <2>3. ui' \in UI /\ ui'.pending = <<>> /\ ui'.gens = {}
    BY <2>1, <2>2 DEF UI, None
  <2> QED
    BY <2>2, <2>3, LifeKeeps
<1> QED
  BY <1>2, <1>3, <1>4, <1>5, <1>6 DEF LifeNext

-----------------------------------------------------------------------------
(* The whole.                                                                *)

IInv == DialogInv /\ HostInv

LEMMA InitialDialogs == Init => DialogInv
<1> SUFFICES ASSUME Init PROVE DialogInv
  OBVIOUS
<1>1. /\ client = NoConn /\ asked = <<>> /\ answers = <<>> /\ ask = NoAsk /\ ui = NoDialogs
  BY DEF Init, LinkInit, DialogInit
<1>2. <<>> \in Seq(Dialog) /\ <<>> \in Seq(Conn) /\ <<>> \in Seq(Seq(Reply)) /\ DOMAIN <<>> = {}
      /\ Len(<<>>) = 0
  OBVIOUS
<1>3. NoMemory \in Memory
  BY DEF NoMemory, Memory
<1>4. ui \in UI /\ ui.pending = <<>> /\ ui.gens = {}
  BY <1>1, <1>2, <1>3 DEF NoDialogs, UI, NoDraft, NoBound, None
<1>5. AskOK(NoAsk, asked)
  BY DEF AskOK, NoAsk, NoDialog
<1> QED
  BY <1>1, <1>2, <1>4, <1>5 DEF DialogInv, Replies, Open, Distinct

LEMMA DialogNextKeeps == ASSUME DialogInv, DialogNext, UNCHANGED client PROVE DialogInv'
<1>1. CASE AskOpens
  BY <1>1, AskOpensKeeps
<1>2. CASE AskGoesOn
  BY <1>2, AskGoesOnKeeps
<1>3. CASE OtherRequest
  BY <1>3, OtherRequestKeeps
<1>4. CASE OmpCancels
  BY <1>4, OmpCancelsKeeps
<1>5. CASE MarkDialogSelection
  BY <1>5, MarkKeeps
<1>6. CASE ConfirmDialogSelection
  BY <1>6, ConfirmKeeps
<1>7. CASE TypeAnswer
  BY <1>7, TypeAnswerKeeps
<1>8. CASE SubmitDialogInput
  BY <1>8, SubmitInputKeeps
<1>9. CASE DialogKey
  BY <1>9, KeyKeeps
<1>10. CASE \E id \in ui.gens : DialogTimerFires(id)
  BY <1>10, TimerKeeps
<1> QED
  BY <1>1, <1>2, <1>3, <1>4, <1>5, <1>6, <1>7, <1>8, <1>9, <1>10 DEF DialogNext

LEMMA HostNextKeeps == ASSUME DialogInv, HostInv, HostNext, UNCHANGED client PROVE HostInv'
<1>1. client \in Conn \cup {NoConn}
  BY DEF DialogInv
<1>2. CASE HostAsks
  BY <1>1, <1>2, HostAsksKeepsInv
<1>3. CASE HostCancels
  BY <1>3, HostCancelsKeepsInv
<1>4. CASE \E r \in Request1 : UserResolves(r)
  BY <1>1, <1>4, UserResolvesKeepsInv
<1>5. CASE \E r \in Request1, c \in Conn : TaskReturns(r, c)
  BY <1>5, TaskReturnsKeepsInv
<1> QED
  BY <1>2, <1>3, <1>4, <1>5 DEF HostNext

\* A request waits only while there is a client, so a step that keeps hostVars and
\* changes the client finds nothing waiting.
LEMMA HostLife == ASSUME DialogInv, HostInv, LifeNext PROVE HostInv'
<1>1. CASE Attach1
  <2>1. waiting = {}
    <3>1. \A r \in waiting : asking[r] = NoConn /\ asking[r] \in Conn
      BY <1>1 DEF Attach1, HostInv, HostTypeOK, Request1
    <3> QED
      BY <3>1, ConversationAssumption
  <2> QED
    BY <1>1, <2>1, HostKept DEF Attach1
<1>2. CASE Lose \/ Recycle \/ Leave
  BY <1>2, HostResetKeepsInv DEF Lose, Recycle, Leave
<1>3. CASE FailToConnect
  BY <1>3, HostKept DEF FailToConnect, LinkFail
<1> QED
  BY <1>1, <1>2, <1>3 DEF LifeNext

LEMMA IInvInductive == IInv /\ [Next]_vars => IInv'
<1> SUFFICES ASSUME IInv, [Next]_vars PROVE IInv'
  OBVIOUS
<1> USE DEF IInv
<1>1. CASE DialogNext /\ UNCHANGED <<linkVars, hostVars, born>>
  BY <1>1, DialogNextKeeps, HostKept DEF linkVars
<1>2. CASE HostNext /\ UNCHANGED <<linkVars, dialogVars, born>>
  <2>1. DialogInv'
    BY <1>2 DEF linkVars, dialogVars, DialogInv
  <2> QED
    BY <1>2, <2>1, HostNextKeeps DEF linkVars
<1>3. CASE LifeNext
  BY <1>3, LifeNextKeeps, HostLife
<1>4. CASE UNCHANGED vars
  <2>1. DialogInv'
    BY <1>4 DEF vars, linkVars, dialogVars, DialogInv
  <2> QED
    BY <1>4, <2>1, HostKept DEF vars, linkVars
<1> QED
  BY <1>1, <1>2, <1>3, <1>4 DEF Next

LEMMA IInvAlways == Spec => []IInv
<1>1. Init => IInv
  BY InitialDialogs, InitialHost DEF IInv
<1> QED
  BY <1>1, IInvInductive, PTL DEF Spec

\* No request of omp is answered twice or by another child's client, and none that
\* omp took back: send_dialog_response, the dialog timers and finish_in_flight.
THEOREM AnsweredOnceAlways == Spec => []AnsweredOnce
<1>1. IInv => AnsweredOnce
  <2> SUFFICES ASSUME IInv PROVE AnsweredOnce
    OBVIOUS
  <2>1. HostAnswersOnce
    BY HostInvSuffices DEF IInv
  <2>2. ASSUME NEW d \in Id
        PROVE  Len(answers[d]) <= 1 /\ \A i \in DOMAIN answers[d] : answers[d][i].to = asked[d]
    <3>1. answers[d] = <<>> \/ (Len(answers[d]) = 1 /\ answers[d][1].to = asked[d])
      BY DEF IInv, DialogInv, Replies, Id
    <3>2. answers[d] \in Seq(Reply)
      BY DEF IInv, DialogInv, Replies, Id
    <3>3. CASE answers[d] = <<>>
      BY <3>3
    <3>4. CASE Len(answers[d]) = 1 /\ answers[d][1].to = asked[d]
      BY <3>2, <3>4
    <3> QED
      BY <3>1, <3>3, <3>4
  <2> QED
    BY <2>1, <2>2 DEF AnsweredOnce, HostAnswersOnce
<1> QED
  BY <1>1, IInvAlways, PTL

\* While there is a client, the answer field and the typed answer are those of the
\* dialog at the head, each timed dialog has a timer, and the checks of a select are
\* those omp has toggled: sync_pending_dialogs and remember_select_choice.
THEOREM DialogsServedAlways == Spec => []DialogsServed
<1>1. IInv => DialogsServed
  <2> SUFFICES ASSUME IInv, client # NoConn
               PROVE  /\ IsText(Top) => /\ ui.bound = [dialog |-> Top.id, custom |-> FALSE]
                                        /\ ui.custom = None
                      /\ \A i \in DOMAIN ui.pending : ui.pending[i].timed => ui.pending[i].id \in ui.gens
                      /\ /\ IsSelect /\ ui.draft.dialog = Top.id /\ Top.id = ask.open.id
                         /\ ask.fresh /\ ui.memory.question = Top.question
                         => ui.memory.checked = ask.toggled
    BY DEF DialogsServed
  <2>1. DialogInv /\ Served(ui)
    BY DEF IInv, DialogInv
  <2>2. IsSelect /\ Top.id = ask.open.id /\ ask.fresh /\ ui.memory.question = Top.question
          => ui.memory.checked = ask.toggled
    BY <2>1, TopOpen DEF IsSelect
  <2> QED
    BY <2>1, <2>2 DEF Served, Timed, Top
<1> QED
  BY <1>1, IInvAlways, PTL

\* Every variable keeps its type, the answers and results of all children included.
THEOREM ConversationTypeCorrect == Spec => []TypeOK
<1> DEFINE Rest == phase \in {"idle", "streaming", "restarting", "dead"} /\ born \in 0..Cardinality(Conn)
<1>1. Init => Rest
  <2>1. Cardinality(Conn) \in Nat
    BY ConversationAssumption, FS_CardinalityType
  <2> QED
    BY <2>1 DEF Init, LinkInit
<1>2. Rest /\ [Next]_vars => Rest'
  <2> SUFFICES ASSUME Rest, [Next]_vars PROVE Rest'
    OBVIOUS
  <2>1. Cardinality(Conn) \in Nat
    BY ConversationAssumption, FS_CardinalityType
  <2>2. CASE Attach1
    BY <2>1, <2>2, ConversationAssumption DEF Attach1, LinkAttach
  <2>3. CASE Lose \/ Recycle \/ FailToConnect \/ Leave
    BY <2>3 DEF Lose, Recycle, FailToConnect, Leave, LinkLost, LinkRecycle, LinkFail
  <2>4. CASE UNCHANGED <<linkVars, born>>
    BY <2>4 DEF linkVars
  <2> QED
    BY <2>2, <2>3, <2>4 DEF Next, LifeNext, vars
<1>3. IInv /\ Rest => TypeOK
  <2> SUFFICES ASSUME IInv, Rest PROVE TypeOK
    OBVIOUS
  <2>1. LinkTypeOK /\ HostTypeOK
    BY DEF IInv, DialogInv, HostInv, LinkTypeOK
  <2>2. DialogTypeOK
    <3>1. asked \in Seq(Conn) /\ DOMAIN answers = Id
      BY DEF IInv, DialogInv, Replies, Id
    <3>2. ask.open.id \in Id \cup {None} /\ ask.toggled \subseteq Choice
      BY DEF IInv, DialogInv, AskOK, NoAsk, NoDialog, Id
    <3>3. \A i \in DOMAIN ui.pending : ui.pending[i].id \in Id
      BY DEF IInv, DialogInv, Open, Id
    <3>4. /\ ui.draft.selected \in Option \cup {"none"}
          /\ ui.memory.question \in Question \cup {"none"} /\ ui.memory.checked \subseteq Choice
      BY UIFields DEF IInv, DialogInv, Memory
    <3> QED
      BY <3>1, <3>2, <3>3, <3>4 DEF DialogTypeOK, IInv, DialogInv, Id
  <2> QED
    BY <2>1, <2>2 DEF TypeOK
<1> QED
  BY <1>1, <1>2, <1>3, IInvAlways, PTL DEF Spec

=============================================================================
