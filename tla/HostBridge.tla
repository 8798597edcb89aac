------------------------------ MODULE HostBridge ------------------------------
(***************************************************************************)
(* The tools and URIs omp asks its host for: a request waits for the       *)
(* user's approval, an approved file is opened off the foreground, and the *)
(* result is sent unless the request was cancelled in between.  A request  *)
(* id is a child's own; tool calls and URI requests share the ids that are *)
(* in flight.                                                              *)
(***************************************************************************)
EXTENDS Link, Naturals, Sequences, FiniteSets

CONSTANTS Enabled,    \* PIMIENTO_HOST_BRIDGE
          MaxHost     \* bound: requests the children make in all

ASSUME HostAssumption == Enabled \in BOOLEAN /\ MaxHost \in Nat

VARIABLES
  asking,      \* the child of each request so far; a request's id is its place
  withdrawn,   \* requests omp cancelled
  waiting,     \* pending_calls and pending_uri_requests
  inFlight,    \* in_flight
  executing,   \* requests whose task has not come back, with the client it holds
  results      \* the results sent for each request

hostVars == <<asking, withdrawn, waiting, inFlight, executing, results>>

Request1 == DOMAIN asking

HostTypeOK ==
  /\ asking \in Seq(Conn)
  /\ withdrawn \subseteq Request1
  /\ waiting \subseteq Request1 /\ inFlight \subseteq Request1
  /\ executing \subseteq Request1 \X Conn
  /\ DOMAIN results = Request1

HostInit == /\ asking = <<>> /\ results = <<>>
            /\ withdrawn = {} /\ waiting = {} /\ inFlight = {} /\ executing = {}

\* A request arrives, observe_frame; nothing is kept when the bridge is off.
HostAsks ==
  /\ client # NoConn
  /\ Len(asking) < MaxHost
  /\ asking' = Append(asking, client)
  /\ results' = Append(results, <<>>)
  /\ waiting' = IF Enabled THEN waiting \cup {Len(asking')} ELSE waiting
  /\ UNCHANGED <<withdrawn, inFlight, executing>>

\* cancel_target: the request waits no more, and what runs for it is not sent.
CancelTarget(r) == waiting' = waiting \ {r} /\ inFlight' = inFlight \ {r}

\* HostToolCancel or HostUriCancel.
HostCancels ==
  /\ client # NoConn
  /\ \E r \in Request1 \ withdrawn :
       /\ asking[r] = client /\ results[r] = <<>>
       /\ withdrawn' = withdrawn \cup {r}
       /\ IF Enabled THEN CancelTarget(r) ELSE UNCHANGED <<waiting, inFlight>>
  /\ UNCHANGED <<asking, executing, results>>

\* Slip: a request is taken without leaving the list.
TakePendingTwice(r) ==
  /\ r \in waiting
  /\ waiting' = waiting
  /\ inFlight' = inFlight \cup {r}

\* take_pending and take_pending_uri.
TakePending(r) ==
  /\ r \in waiting
  /\ waiting' = waiting \ {r}
  /\ inFlight' = inFlight \cup {r}

\* approve_host_tool, deny_host_tool, deny_host_uri: with a client, a task holds
\* the request until it is over; a request waits only while there is a client.
UserResolves(r) ==
  /\ client # NoConn
  /\ TakePending(r)
  /\ executing' = executing \cup {<<r, client>>}
  /\ UNCHANGED <<asking, withdrawn, results>>

\* The task is back: finish_in_flight decides whether the result is sent.
TaskReturns(r, c) ==
  /\ <<r, c>> \in executing
  /\ executing' = executing \ {<<r, c>>}
  /\ inFlight' = inFlight \ {r}
  /\ results' = IF r \in inFlight THEN [results EXCEPT ![r] = Append(@, c)] ELSE results
  /\ UNCHANGED <<asking, withdrawn, waiting>>

\* reset, wherever the client is lost or taken away.
HostReset == /\ waiting' = {} /\ inFlight' = {}
             /\ UNCHANGED <<asking, withdrawn, executing, results>>

HostNext == \/ HostAsks \/ HostCancels
            \/ \E r \in Request1 : UserResolves(r)
            \/ \E r \in Request1, c \in Conn : TaskReturns(r, c)
=============================================================================
