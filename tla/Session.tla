------------------------------- MODULE Session -------------------------------
(***************************************************************************)
(* The life of one SessionView: connecting to omp children, losing them,   *)
(* restarting, aborting, updating omp, going back to the launcher, closing *)
(* the tab.  Handlers run one at a time on the foreground; what they spawn *)
(* (a connect, a shutdown, an abort, an install) ends later and comes back *)
(* as a handler of its own, whatever happened to the view in between.      *)
(***************************************************************************)
EXTENDS Supervisor, FiniteSets

CONSTANTS Conn,         \* connections, one omp child each, in the order begun
          NoConn,
          NoInstall,    \* no install task of the current generation
          MaxAborts     \* bound: abort tasks in flight on one connection

ASSUME SessionAssumption ==
  /\ Conn \subseteq Nat \ {0}
  /\ NoConn \notin Conn
  /\ NoInstall \notin Conn \cup {NoConn}
  /\ MaxAborts \in Nat

VARIABLES
  tab,          \* the view exists
  launcher,     \* launcher_phase
  phase,        \* projection.run_phase; every phase that can be aborted is "streaming"
  client, pump, \* the connections of self.client and of the event pump
  supervised,   \* self.supervisor is Some
  attempt,      \* each connection's connect task
  alive,        \* connections whose child runs
  ended,        \* connections with a Closed event still to be received
  late,         \* connections with a frame behind their Closed event
  shutting,     \* connections in gracefully_shutdown_rpc_client
  deferred,     \* begin_connection calls deferred by handle_client_closed
  aborts,       \* abort tasks in flight
  updateUi,     \* omp_update_ui, and "failing" for a pending failure
  install       \* the connection the install task of this generation closes

viewVars  == <<tab, launcher, phase>>
childVars == <<alive, ended, late>>
taskVars  == <<deferred, aborts>>
updateVars == <<updateUi, install>>
connVars  == <<client, pump, attempt, shutting>>
vars == <<supVars, viewVars, connVars, supervised, childVars, taskVars, updateVars>>

Attempt == [task : {"none", "connecting", "ready", "failed", "over"},
            mode : {"launcher", "session"}]
InFlight == {c \in Conn : attempt[c].task \in {"connecting", "ready", "failed"}}

ViewTypeOK ==
  /\ tab \in BOOLEAN
  /\ launcher \in {"visible", "connecting", "hidden"}
  /\ phase \in {"idle", "streaming", "restarting", "dead"}
  /\ client \in Conn \cup {NoConn}
  /\ pump \in Conn \cup {NoConn}
  /\ supervised \in BOOLEAN
  /\ attempt \in [Conn -> Attempt]
  /\ alive \subseteq Conn /\ ended \subseteq Conn /\ late \subseteq Conn
  /\ shutting \subseteq Conn
  /\ deferred \in Nat
  /\ aborts \in [Conn -> Nat]
  /\ updateUi \in {"idle", "checking", "offered", "installing", "failing"}
  /\ install \in Conn \cup {NoConn, NoInstall}

TypeOK == SupTypeOK /\ ViewTypeOK

Init ==
  /\ SupInit
  /\ tab = TRUE
  /\ launcher = "visible"
  /\ phase = "idle"
  /\ client = NoConn
  /\ pump = NoConn
  /\ supervised = FALSE
  /\ attempt = [c \in Conn |-> [task |-> "none", mode |-> "session"]]
  /\ alive = {} /\ ended = {} /\ late = {} /\ shutting = {}
  /\ deferred = 0
  /\ aborts = [c \in Conn |-> 0]
  /\ updateUi = "idle"
  /\ install = NoInstall

-----------------------------------------------------------------------------
(* Helpers of the handlers.                                                 *)

Closing(c) == IF c = NoConn THEN shutting ELSE shutting \cup {c}

\* Slip: the event pump outlives the client it was started for.
TakeAndCloseClientKeepsPump ==
  /\ pump' = pump
  /\ client' = NoConn
  /\ shutting' = Closing(client)

\* take_and_close_client: drop the pump, shut the client down in the background.
TakeAndCloseClient ==
  /\ pump' = NoConn
  /\ client' = NoConn
  /\ shutting' = Closing(client)

\* invalidate_omp_update: what the update tasks bring back is ignored from here.
InvalidateOmpUpdate == updateUi' = "idle" /\ install' = NoInstall

MarkExplicitSupervisorShutdown ==
  IF supervised THEN OnExplicitShutdown(<<>>) ELSE UNCHANGED supVars

\* attach_supervisor: a restart keeps its supervisor, and with it the breaker's
\* window; any other connect gets a new one.
AttachSupervisor ==
  /\ IF supervised /\ state.kind = "restarting" THEN OnChildRunning ELSE Replace
  /\ supervised' = TRUE

\* Connections are numbered in the order they begin.
IsNext(c) == /\ attempt[c].task = "none"
             /\ \A d \in Conn : attempt[d].task = "none" => c <= d
HasNext == \E c \in Conn : IsNext(c)

\* begin_connection, without the supervisor, which it leaves alone.  ui is what
\* the caller leaves in the update banner.
BeginConnection(mode, ui) ==
  \/ /\ launcher = "connecting"
     /\ updateUi' = (IF ui = "failing" THEN ui ELSE updateUi)
     /\ UNCHANGED <<install, viewVars, connVars>>
  \/ /\ launcher # "connecting"
     /\ TakeAndCloseClient
     /\ \E c \in Conn :
          /\ IsNext(c)
          /\ attempt' = [attempt EXCEPT ![c] = [task |-> "connecting", mode |-> mode]]
     /\ launcher' = IF mode = "launcher" THEN "connecting" ELSE "hidden"
     /\ phase' = IF mode = "launcher" THEN "idle" ELSE "restarting"
     /\ updateUi' = ui /\ install' = NoInstall
     /\ UNCHANGED tab

-----------------------------------------------------------------------------
(* Connecting.                                                              *)

\* A launcher button: Start here, Resume, Re-detect omp, a recent session.
ConnectFromLauncher ==
  /\ tab /\ launcher = "visible"
  /\ BeginConnection("launcher", "idle")
  /\ UNCHANGED <<supVars, supervised, childVars, taskVars>>

\* A tab opened on a directory begins at once, in session mode.
OpenInDirectory ==
  /\ tab /\ launcher = "visible"
  /\ \A c \in Conn : attempt[c].task = "none"
  /\ BeginConnection("session", "idle")
  /\ UNCHANGED <<supVars, supervised, childVars, taskVars>>

\* try_connect_omp returns on its background thread.
ConnectReturns(c) ==
  /\ attempt[c].task = "connecting"
  /\ \/ /\ attempt' = [attempt EXCEPT ![c].task = "ready"]
        /\ alive' = alive \cup {c}
     \/ /\ attempt' = [attempt EXCEPT ![c].task = "failed"]
        /\ UNCHANGED alive
  /\ UNCHANGED <<supVars, viewVars, client, pump, shutting, supervised, ended, late,
                 taskVars, updateVars>>

Done == [task |-> "over", mode |-> "session"]
Over(c) == attempt' = [attempt EXCEPT ![c] = Done]

\* Slip: a pump that runs is kept, whatever client it listens to.
FinishConnectedKeepsPump(c) ==
  /\ tab /\ attempt[c].task = "ready"
  /\ Over(c)
  /\ client' = c
  /\ pump' = IF pump = NoConn THEN c ELSE pump
  /\ launcher' = "hidden"
  /\ phase' = "idle"
  /\ AttachSupervisor
  /\ updateUi' = IF updateUi = "failing" THEN "idle" ELSE "checking"
  /\ UNCHANGED <<tab, shutting, childVars, taskVars, install>>

\* Slip: the phase stays that of the connection before.
FinishConnectedKeepsPhase(c) ==
  /\ tab /\ attempt[c].task = "ready"
  /\ Over(c)
  /\ client' = c
  /\ pump' = c
  /\ launcher' = "hidden"
  /\ phase' = phase
  /\ AttachSupervisor
  /\ updateUi' = IF updateUi = "failing" THEN "idle" ELSE "checking"
  /\ UNCHANGED <<tab, shutting, childVars, taskVars, install>>

\* finish_connection with a connected client.  The hydrated projection is idle,
\* whatever omp is doing.
FinishConnected(c) ==
  /\ tab /\ attempt[c].task = "ready"
  /\ Over(c)
  /\ client' = c
  /\ pump' = c
  /\ launcher' = "hidden"
  /\ phase' = "idle"
  /\ AttachSupervisor
  /\ updateUi' = IF updateUi = "failing" THEN "idle" ELSE "checking"
  /\ UNCHANGED <<tab, shutting, childVars, taskVars, install>>

\* Slip: a failed connect from the launcher leaves it connecting.
FinishFailedKeepsLauncher(c) ==
  /\ tab /\ attempt[c].task = "failed"
  /\ Over(c)
  /\ launcher' = IF attempt[c].mode = "launcher" THEN launcher ELSE "hidden"
  /\ phase' = IF attempt[c].mode = "launcher" THEN phase ELSE "dead"
  /\ updateUi' = IF updateUi = "failing" THEN "idle" ELSE updateUi
  /\ UNCHANGED <<supVars, tab, client, pump, shutting, supervised, childVars,
                 taskVars, install>>

\* finish_connection with an error.
FinishFailed(c) ==
  /\ tab /\ attempt[c].task = "failed"
  /\ Over(c)
  /\ launcher' = IF attempt[c].mode = "launcher" THEN "visible" ELSE "hidden"
  /\ phase' = IF attempt[c].mode = "launcher" THEN phase ELSE "dead"
  /\ updateUi' = IF updateUi = "failing" THEN "idle" ELSE updateUi
  /\ UNCHANGED <<supVars, tab, client, pump, shutting, supervised, childVars,
                 taskVars, install>>

\* The view is gone: update_in fails and the result is dropped.
FinishWithoutView(c) ==
  /\ ~tab /\ attempt[c].task \in {"ready", "failed"}
  /\ Over(c)
  /\ UNCHANGED <<supVars, viewVars, client, pump, shutting, supervised, childVars,
                 taskVars, updateVars>>

-----------------------------------------------------------------------------
(* The child, and the pump that brings its events.                          *)

\* Somebody receives the connection's events, or still may.
Heard(c) == pump = c \/ attempt[c].task = "ready"

\* A child dies; its connection announces Closed, sometimes with a frame behind.
ChildDies(c) ==
  /\ c \in alive
  /\ alive' = alive \ {c}
  /\ IF Heard(c)
       THEN ended' = ended \cup {c} /\ late' \in {late, late \cup {c}}
       ELSE UNCHANGED <<ended, late>>
  /\ UNCHANGED <<supVars, viewVars, connVars, supervised, taskVars, updateVars>>

\* A frame is applied to the projection: agent_start, agent_end and the like set
\* the phase whatever it was.
PumpFrame(c) ==
  /\ tab /\ pump = c
  /\ \/ c \in alive \cup ended /\ UNCHANGED late
     \/ c \in late \ ended /\ late' = late \ {c}
  /\ phase' \in {"idle", "streaming"}
  /\ UNCHANGED <<supVars, tab, launcher, connVars, supervised, alive, ended,
                 taskVars, updateVars>>

\* Slip: a restart is announced but never begun.
PumpClosedForgets(c) ==
  /\ tab /\ pump = c /\ c \in ended
  /\ ended' = ended \ {c}
  /\ InvalidateOmpUpdate
  /\ client' = NoConn
  /\ OnChildDied(<<>>)
  /\ phase' = IF state'.kind = "restarting" THEN "restarting" ELSE "dead"
  /\ UNCHANGED <<tab, launcher, pump, attempt, shutting, supervised, alive, late,
                 taskVars>>

\* handle_client_closed; a pump always has a supervisor.
PumpClosed(c) ==
  /\ tab /\ pump = c /\ c \in ended
  /\ ended' = ended \ {c}
  /\ InvalidateOmpUpdate
  /\ client' = NoConn
  /\ OnChildDied(<<>>)
  /\ IF state'.kind = "restarting"
       THEN phase' = "restarting" /\ deferred' = deferred + 1
       ELSE phase' = "dead" /\ UNCHANGED deferred
  /\ UNCHANGED <<tab, launcher, pump, attempt, shutting, supervised, alive, late, aborts>>

\* The begin_connection that handle_client_closed put off.
RunDeferred ==
  /\ tab /\ deferred > 0
  /\ deferred' = deferred - 1
  /\ BeginConnection("session", "idle")
  /\ UNCHANGED <<supVars, supervised, childVars, aborts>>

\* gracefully_shutdown_rpc_client: the child ends, on EOF or killed, and what
\* its connection still had to say is dropped with it.
ShutdownEnds(c) ==
  /\ c \in shutting
  /\ shutting' = shutting \ {c}
  /\ alive' = alive \ {c}
  /\ ended' = ended \ {c}
  /\ late' = late \ {c}
  /\ UNCHANGED <<supVars, viewVars, client, pump, attempt, supervised, taskVars,
                 updateVars>>

-----------------------------------------------------------------------------
(* What the user does.                                                      *)

\* The crash card's Restart.
DoRestart ==
  /\ tab /\ phase = "dead" /\ launcher = "hidden"
  /\ IF supervised /\ state.kind = "dead" THEN Reset ELSE UNCHANGED supVars
  /\ BeginConnection("session", "idle")
  /\ UNCHANGED <<supervised, childVars, taskVars>>

\* The palette and the abort key; the RPCs go to the client of this moment.
DoAbort ==
  /\ tab /\ client # NoConn
  /\ aborts[client] < MaxAborts
  /\ aborts' = [aborts EXCEPT ![client] = @ + 1]
  /\ UNCHANGED <<supVars, viewVars, connVars, supervised, childVars, deferred, updateVars>>

CanAbort == client # NoConn /\ phase = "streaming"

EndAbort(c) == /\ aborts[c] > 0
               /\ aborts' = [aborts EXCEPT ![c] = @ - 1]

\* The abort is acknowledged, or there is nothing left to abort.
AbortDone(c) ==
  /\ EndAbort(c)
  /\ UNCHANGED <<supVars, viewVars, connVars, supervised, childVars, deferred, updateVars>>

\* It is not, and the session of this moment can be aborted: recycle its child.
AbortRecycles(c) ==
  /\ EndAbort(c)
  /\ tab /\ CanAbort
  /\ BeginConnection("session", "idle")
  /\ UNCHANGED <<supVars, supervised, childVars, deferred>>

ReturnToLauncher ==
  /\ tab
  /\ InvalidateOmpUpdate
  /\ MarkExplicitSupervisorShutdown
  /\ TakeAndCloseClient
  /\ phase' = "idle"
  /\ launcher' = "visible"
  /\ UNCHANGED <<tab, attempt, supervised, childVars, taskVars>>

\* close_session_at: shutdown_session, and the view is dropped.
CloseTab ==
  /\ tab
  /\ tab' = FALSE
  /\ InvalidateOmpUpdate
  /\ MarkExplicitSupervisorShutdown
  /\ TakeAndCloseClient
  /\ UNCHANGED <<launcher, phase, attempt, supervised, childVars, taskVars>>

-----------------------------------------------------------------------------
(* Updating omp.                                                            *)

UpdateCheckEnds ==
  /\ tab /\ updateUi = "checking"
  /\ updateUi' \in {"idle", "offered"}
  /\ UNCHANGED <<supVars, viewVars, connVars, supervised, childVars, taskVars, install>>

\* start_omp_update: the child is taken away and shut down by the install task.
StartOmpUpdate ==
  /\ tab /\ updateUi = "offered"
  /\ TakeAndCloseClient
  /\ updateUi' = "installing"
  /\ install' = client
  /\ phase' = "restarting"
  /\ UNCHANGED <<supVars, tab, launcher, attempt, supervised, childVars, taskVars>>

\* The install of this generation is over: reconnect, keeping a failure to show.
InstallEnds ==
  /\ tab /\ install # NoInstall
  /\ install \notin shutting
  /\ \E ui \in {"idle", "failing"} : BeginConnection("session", ui)
  /\ UNCHANGED <<supVars, supervised, childVars, taskVars>>

-----------------------------------------------------------------------------
Clock == Tick /\ UNCHANGED <<viewVars, connVars, supervised, childVars, taskVars, updateVars>>

ConnectStep(c) == ConnectReturns(c) \/ FinishConnected(c) \/ FinishFailed(c)
                  \/ FinishWithoutView(c)

Next ==
  \/ ConnectFromLauncher \/ OpenInDirectory
  \/ \E c \in Conn : \/ ConnectStep(c)
                     \/ ChildDies(c) \/ PumpFrame(c) \/ PumpClosed(c)
                     \/ ShutdownEnds(c)
                     \/ AbortDone(c) \/ AbortRecycles(c)
  \/ RunDeferred
  \/ DoRestart \/ DoAbort \/ ReturnToLauncher \/ CloseTab
  \/ UpdateCheckEnds \/ StartOmpUpdate \/ InstallEnds
  \/ Clock

Spec == Init /\ [][Next]_vars

\* Every task that was spawned ends, and the foreground runs what is queued.
SessionFairness ==
  /\ \A c \in Conn : /\ WF_vars(ConnectStep(c))
                     /\ WF_vars(PumpClosed(c))
                     /\ WF_vars(ShutdownEnds(c))
  /\ WF_vars(RunDeferred)
  /\ WF_vars(InstallEnds)

FairSpec == Spec /\ SessionFairness

-----------------------------------------------------------------------------
(* Properties.                                                              *)

\* A connected view listens to its own client: no Closed event of an older
\* connection can clear the client, and none of its own is missed.
PumpFollowsClient == client # NoConn => pump = client

\* A client that is closed on purpose is no longer listened to: its death is
\* never taken for a crash, and no restart follows from it.
DeliberateCloseIsNoCrash == pump \notin shutting

\* The launcher says Connecting only while a connect it began is on its way, so
\* its buttons are never disabled for good.
ConnectingIsReal ==
  tab /\ launcher = "connecting" => \E c \in InFlight : attempt[c].mode = "launcher"

\* The strengthening: only a connection whose connect is over is listened to or
\* shut down, so a connect that returns brings a child nobody owns yet.
OwnershipInv ==
  /\ PumpFollowsClient /\ DeliberateCloseIsNoCrash /\ ConnectingIsReal
  /\ \A c \in Conn : c = pump \/ c \in shutting => attempt[c].task = "over"

\* The session never leaves a supervisor's Dead except by reset or by taking a
\* new supervisor, though the supervisor's own calls would let it.
DeadNeedsReset ==
  [][state.kind = "dead" => \/ state'.kind = "dead"
                            \/ state' = Restarting(0)
                            \/ state' = Running /\ log' = <<>>]_vars

\* Bound: every connection was begun and is over, a connect can only wait.
Exhausted == ~HasNext /\ InFlight = {}

\* Restarting is never a dead end: whatever else happens to the view, the session
\* comes up, dies or is left.
RestartResolves ==
  phase = "restarting" ~> phase # "restarting" \/ ~tab \/ Exhausted

\* The other parts of the view see no more of all this than Link says: the client
\* goes away in one step with the phase that tells why, and no step moves from
\* one child to another but a finished connect.
L == INSTANCE Link
LinkSpec == L!LinkSpec

\* What take_and_close_client's comment and the doctrine "one session per child
\* process" say: no child runs that no session owns.
NoOrphan ==
  \A c \in alive : c = client \/ c \in shutting \/ attempt[c].task = "ready"
=============================================================================
