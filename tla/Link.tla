--------------------------------- MODULE Link ---------------------------------
(***************************************************************************)
(* What the parts of a SessionView that talk to omp see of its life: the   *)
(* client they send to, and the run phase.  Session implements it; the     *)
(* dialogs, the host bridge and the composer are modelled on top of it.    *)
(***************************************************************************)
CONSTANTS Conn, NoConn

VARIABLES client, phase
linkVars == <<client, phase>>

LinkTypeOK == /\ client \in Conn \cup {NoConn}
              /\ phase \in {"idle", "streaming", "restarting", "dead"}

LinkInit == client = NoConn /\ phase = "idle"

\* finish_connection: the view talks to the child of another connection.
LinkAttach(c) == /\ c # client
                 /\ client' = c /\ phase' = "idle"

\* A frame that starts or ends a turn; it may come behind the Closed event.
LinkTurn == phase' \in {"idle", "streaming"} /\ UNCHANGED client

\* handle_client_closed: a restart follows, or the session is dead.
LinkLost == client' = NoConn /\ phase' \in {"restarting", "dead"}

\* begin_connection and start_omp_update take the client away themselves.
LinkRecycle == client' = NoConn /\ phase' = "restarting"

\* A connect that failed.
LinkFail == phase' = "dead" /\ UNCHANGED client

\* return_to_launcher, shutdown_session, and a connect from the launcher.
LinkLeave == client' = NoConn /\ phase' \in {"idle", phase}

LinkNext == \/ \E c \in Conn : LinkAttach(c)
            \/ LinkTurn \/ LinkLost \/ LinkRecycle \/ LinkFail \/ LinkLeave

LinkSpec == LinkInit /\ [][LinkNext]_linkVars
=============================================================================
