---------------------------- MODULE RequestReply ----------------------------
(***************************************************************************)
(* What one RPC connection promises the code that calls it, with none of   *)
(* its tasks, queues or locks: a call is answered, times out or fails, it  *)
(* does so once, and it fails only because the connection (or the half of  *)
(* it that carries requests) is gone.                                      *)
(***************************************************************************)
CONSTANT Request          \* request ids; an id is used for one call only

VARIABLES status,         \* where each call stands
          answered,       \* calls whose answer has reached the client
          open,           \* the connection still matches answers to calls
          sending         \* the connection still accepts requests

rrvars == <<status, answered, open, sending>>

Outcome == {"ok", "timeout", "died", "dropped"}

RRTypeOK == /\ status \in [Request -> {"idle", "inflight"} \cup Outcome]
            /\ answered \in SUBSET Request
            /\ open \in BOOLEAN
            /\ sending \in BOOLEAN

RRInit == /\ status = [r \in Request |-> "idle"]
          /\ answered = {}
          /\ open = TRUE
          /\ sending = TRUE

Settle(r, outcome) == status' = [status EXCEPT ![r] = outcome]

Issue(r) == /\ status[r] = "idle"
            /\ open
            /\ Settle(r, "inflight")
            /\ UNCHANGED <<answered, open, sending>>

Refuse(r) == /\ status[r] = "idle"
             /\ ~open
             /\ Settle(r, "died")
             /\ UNCHANGED <<answered, open, sending>>

\* An answer is accepted only for a call in flight, once, on an open connection.
Answer(r) == /\ status[r] = "inflight"
             /\ open
             /\ r \notin answered
             /\ answered' = answered \cup {r}
             /\ UNCHANGED <<status, open, sending>>

Return(r) == /\ status[r] = "inflight"
             /\ r \in answered
             /\ Settle(r, "ok")
             /\ UNCHANGED <<answered, open, sending>>

Expire(r) == /\ status[r] = "inflight"
             /\ Settle(r, "timeout")
             /\ UNCHANGED <<answered, open, sending>>

\* A call in flight fails only when it has no answer and can get none.
Fail(r) == /\ status[r] = "inflight"
           /\ r \notin answered
           /\ ~open \/ ~sending
           /\ Settle(r, "died")
           /\ UNCHANGED <<answered, open, sending>>

Drop(r) == /\ status[r] = "inflight"
           /\ Settle(r, "dropped")
           /\ UNCHANGED <<answered, open, sending>>

Shut == /\ open
        /\ open' = FALSE
        /\ UNCHANGED <<status, answered, sending>>

HalfClose == /\ sending
             /\ sending' = FALSE
             /\ UNCHANGED <<status, answered, open>>

RRNext == \/ \E r \in Request : \/ Issue(r) \/ Refuse(r) \/ Answer(r)
                                \/ Return(r) \/ Expire(r) \/ Fail(r) \/ Drop(r)
          \/ Shut
          \/ HalfClose

RRSpec == RRInit /\ [][RRNext]_rrvars
=============================================================================
