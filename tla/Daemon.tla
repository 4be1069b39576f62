-------------------------------- MODULE Daemon --------------------------------
(***************************************************************************)
(* One process around its connection, from the moment it holds the lock:   *)
(* runDaemon, or the command around withConnectedManager (autoReconnect is *)
(* FALSE).  The steps of ConnectionManager are conjoined with what they    *)
(* mean to the code that awaits them: the start, the group refresh, the    *)
(* controller's listener, the worker's loop, the signals and the finally   *)
(* block.  A step is what runs between two awaits.  A signal that is not   *)
(* caught, like a kill, ends the process at once: see ProcessLock!Kill.    *)
(***************************************************************************)
EXTENDS ConnectionManager

CONSTANT Faults  \* TRUE: writes to the database may fail

ASSUME FaultsAssumption == Faults \in BOOLEAN

VARIABLES
  dryRun,     \* config.dryRun, of a daemon
  controlled, \* config.selfControllerEnabled, of a daemon
  step,       \* "starting", "connecting", "refreshing" (groups.refresh),
              \* "running" (a daemon awaits worker or signal, a command its
              \* operation), "stopping" (awaits workerTask), "joining" (the
              \* finally block, before disconnect), "disconnecting", "stuck"
              \* (the finally block threw), "exited"
  worker,     \* "none", "idle", "claimed" (pacing), "sending", "ended", "failed"
  halt,       \* the worker's stopping flag
  armed,      \* a signal is still caught by once()
  listening,  \* the controller's listener is registered with the manager
  attached,   \* the socket the controller listens to, or NoSocket
  result,     \* "none", "STOPPED", "AUTH_REQUIRED", "error"
  signalled,  \* history: a signal asked the daemon to stop
  reopened    \* history: a session opened after the worker had been stopped

config == <<dryRun, controlled>>
control == <<listening, attached>>
history == <<signalled, reopened>>
daemonVars == <<vars, config, step, worker, halt, armed, control, result, history>>

DaemonTypeOK ==
  /\ TypeOK
  /\ dryRun \in BOOLEAN /\ controlled \in BOOLEAN
  /\ step \in {"starting", "connecting", "refreshing", "running", "stopping",
               "joining", "disconnecting", "stuck", "exited"}
  /\ worker \in {"none", "idle", "claimed", "sending", "ended", "failed"}
  /\ worker = "sending" <=> inFlight
  /\ halt \in BOOLEAN /\ armed \in BOOLEAN /\ listening \in BOOLEAN
  /\ attached \in Socket \cup {NoSocket}
  /\ result \in {"none", "STOPPED", "AUTH_REQUIRED", "error"}
  /\ signalled \in BOOLEAN /\ reopened \in BOOLEAN

DaemonInit ==
  /\ Init
  /\ dryRun \in BOOLEAN /\ controlled \in BOOLEAN
  /\ ~autoReconnect => ~dryRun /\ ~controlled
  /\ step = "starting" /\ worker = "none" /\ result = "none"
  /\ halt = FALSE /\ armed = FALSE /\ listening = FALSE
  /\ signalled = FALSE /\ reopened = FALSE
  /\ attached = NoSocket

-----------------------------------------------------------------------------
(* Helpers.                                                                *)

(* setSocket calls the listener with every socket, the absent one too.     *)
Follow == attached' = IF listening THEN socket' ELSE attached

Bug_FailedConnect == "error"

(* What connect's rejection makes of the process.                          *)
FailedConnect ==
  IF autoReconnect /\ stateValue' = "LOGGED_OUT" THEN "AUTH_REQUIRED" ELSE "error"

(* The code that awaits connect goes on when it is settled.                *)
Awaited ==
  CASE client = "connecting" /\ client' = "serving" ->
         step' = (IF autoReconnect THEN "refreshing" ELSE "running") /\ UNCHANGED result
    [] client = "connecting" /\ client' = "leaving" ->
         step' = "joining" /\ result' = FailedConnect
    [] OTHER -> UNCHANGED <<step, result>>

Bug_RequestStop == UNCHANGED halt

RequestStop == halt' = TRUE

(* The finally block up to its first await.  The controller's row comes    *)
(* first: if it cannot be written, nothing after it is done.               *)
Finally(r) ==
  \/ /\ step' = "joining" /\ result' = r
     /\ listening' = FALSE /\ attached' = NoSocket
     /\ RequestStop
  \/ /\ Faults /\ controlled /\ ~dryRun
     /\ step' = "stuck" /\ result' = "error"
     /\ UNCHANGED <<control, halt>>

-----------------------------------------------------------------------------
(* The start.                                                              *)

StartConnecting ==
  /\ step = "starting" /\ ~dryRun
  /\ autoReconnect => credentials
  /\ Connect
  /\ step' = "connecting"
  /\ UNCHANGED <<config, worker, halt, armed, control, result, history>>

AuthMissing ==
  /\ step = "starting" /\ ~dryRun
  /\ autoReconnect /\ ~credentials
  /\ connectivity' = "AUTH_REQUIRED" /\ pauseReason' = "AUTH_REQUIRED"
  /\ step' = "joining" /\ result' = "AUTH_REQUIRED"
  /\ UNCHANGED <<autoReconnect, client, stateValue, credentials, generation, socket, phase,
                 restarts, owner, timer, catching, stopped, reconnecting, inFlight,
                 refused, revoked, config, worker, halt, armed, control, history>>

(* runs once the worker and the handlers of SIGINT and SIGTERM are there.  *)
Serve(registered) ==
  /\ step' = "running" /\ worker' = "idle" /\ armed' = TRUE
  /\ listening' = registered
  /\ attached' = IF registered THEN socket ELSE NoSocket

StartDry ==
  /\ step = "starting" /\ dryRun
  /\ connectivity' = "OFFLINE_DRY_RUN"
  /\ Serve(FALSE)
  /\ UNCHANGED <<autoReconnect, client, stateValue, pauseReason, credentials, generation, socket,
                 phase, restarts, owner, timer, catching, stopped, reconnecting, inFlight,
                 refused, revoked, config, halt, result, history>>

Bug_Registered == FALSE

(* onSocketChange calls its listener at once with the socket of the moment. *)
Registered == controlled

(* groups.refresh ended, well or not; the socket may be another by now.    *)
Refreshed ==
  /\ step = "refreshing"
  /\ Serve(Registered)
  /\ UNCHANGED <<vars, config, halt, result, history>>

(* The listener's own write fails.  It stays registered, since the finally *)
(* block was never given the function that removes it.                     *)
RegisterFails ==
  /\ Faults /\ step = "refreshing" /\ controlled
  /\ result' = "error"
  /\ listening' = TRUE
  /\ \/ step' = "joining" /\ attached' = NoSocket
     \/ step' = "stuck" /\ attached' = socket
  /\ UNCHANGED <<vars, config, worker, halt, armed, history>>

-----------------------------------------------------------------------------
(* The worker's loop, as far as connection and shutdown see it.            *)

Polling == step \in {"running", "stopping"}

Poll ==
  /\ Polling /\ worker = "idle" /\ ~halt
  /\ dryRun \/ pauseReason = "NONE"
  /\ worker' = "claimed"
  /\ UNCHANGED <<vars, config, step, halt, armed, control, result, history>>

(* The pacing ends without a send: stopped, simulated, or no socket.       *)
PutBack ==
  /\ worker = "claimed"
  /\ halt \/ dryRun \/ socket = NoSocket
  /\ worker' = "idle"
  /\ UNCHANGED <<vars, config, step, halt, armed, control, result, history>>

WorkerSends ==
  /\ worker = "claimed" /\ ~halt
  /\ SendBegins
  /\ worker' = "sending"
  /\ UNCHANGED <<config, step, halt, armed, control, result, history>>

(* After an authentication error the worker stops itself.                  *)
WorkerAnswered ==
  /\ SendEnds
  /\ worker' \in {"idle"} \cup (IF Faults THEN {"failed"} ELSE {})
  /\ halt' = (halt \/ client' = "leaving")
  /\ UNCHANGED <<config, step, armed, control, result, history>>

WorkerEnds ==
  /\ worker = "idle" /\ halt
  /\ worker' = "ended"
  /\ UNCHANGED <<vars, config, step, halt, armed, control, result, history>>

Bug_WorkerFails ==
  /\ Faults /\ worker # "none"
  /\ worker' = "failed"
  /\ UNCHANGED <<vars, config, step, halt, armed, control, result, history>>

WorkerFails ==
  /\ Faults /\ worker \in {"idle", "claimed"}
  /\ worker' = "failed"
  /\ UNCHANGED <<vars, config, step, halt, armed, control, result, history>>

-----------------------------------------------------------------------------
(* The way out.                                                            *)

(* The handlers are armed for one signal; later than the race it is only   *)
(* swallowed.                                                              *)
Signal ==
  /\ armed /\ step \notin {"joining", "exited"}
  /\ armed' = FALSE
  /\ signalled' = TRUE
  /\ IF step = "running" THEN step' = "stopping" /\ RequestStop
     ELSE UNCHANGED <<step, halt>>
  /\ UNCHANGED <<vars, config, worker, control, result, reopened>>

Bug_WorkerOver == TRUE

(* workerTask is settled.                                                  *)
WorkerOver == worker \in {"ended", "failed"}

(* The race is won by the worker, or the worker was told to stop.          *)
Leave ==
  /\ autoReconnect /\ Polling
  /\ step = "stopping" \/ worker \in {"ended", "failed"}
  /\ WorkerOver
  /\ Finally(IF worker = "failed" THEN "error" ELSE "STOPPED")
  /\ UNCHANGED <<vars, config, worker, armed, history>>

(* A command's operation ends, well or not.                                *)
OperationEnds ==
  /\ ~autoReconnect /\ step = "running" /\ client = "serving"
  /\ step' = "joining" /\ result' \in {"STOPPED", "error"}
  /\ UNCHANGED <<vars, config, worker, halt, armed, control, history>>

OperationLogsOut ==
  /\ step = "running"
  /\ Logout
  /\ IF client' = "leaving" THEN step' = "joining" /\ result' = "STOPPED"
     ELSE UNCHANGED <<step, result>>
  /\ UNCHANGED <<config, worker, halt, armed, control, history>>

OperationLoggedOut ==
  /\ \/ LoggedOut /\ result' = "STOPPED"
     \/ LogoutFails /\ result' = "error"
  /\ step' = "joining"
  /\ UNCHANGED <<config, worker, halt, armed, control, history>>

StartDisconnecting ==
  /\ step = "joining"
  /\ Disconnect /\ Follow
  /\ step' = "disconnecting"
  /\ UNCHANGED <<config, worker, halt, armed, listening, result, history>>

(* A listener that was never released is told of the absent socket, and    *)
(* its write fails: the process ends with the session still there.         *)
ListenerThrows ==
  /\ Faults /\ step = "joining" /\ listening
  /\ DisconnectCut /\ Follow
  /\ step' = "stuck" /\ result' = "error"
  /\ UNCHANGED <<config, worker, halt, armed, listening, history>>

(* disconnect is over: the database is closed and the lock released.       *)
Exit ==
  /\ \/ step = "joining" /\ client = "new" /\ UNCHANGED vars
     \/ step = "disconnecting" /\ Disconnected
  /\ step' = "exited"
  /\ UNCHANGED <<config, worker, halt, armed, control, result, history>>

(* disconnect throws at the end of the socket or at its last write.        *)
DisconnectFails ==
  /\ Faults /\ step = "disconnecting"
  /\ step' = "stuck" /\ result' = "error"
  /\ UNCHANGED <<vars, config, worker, halt, armed, control, history>>

(* Nothing keeps the event loop of a process that is stuck: it exits, and  *)
(* leaves its lock file behind.                                            *)
Drained ==
  /\ ~timer /\ ~catching /\ owner = "none"
  /\ \A i \in Socket : phase[i] \notin {"waiting", "open", "restarting"}

Drain ==
  /\ step = "stuck" /\ Drained
  /\ step' = "exited"
  /\ UNCHANGED <<vars, config, worker, halt, armed, control, result, history>>

-----------------------------------------------------------------------------
(* What happens to the connection meanwhile.  Between the finally block's  *)
(* first part and disconnect the loop takes no event: the promise that is  *)
(* awaited there is settled.                                               *)

Meanwhile(A) ==
  /\ step \notin {"joining", "exited"}
  /\ A
  /\ Awaited /\ Follow
  /\ reopened' = (reopened \/ (halt /\ client = "leaving" /\ stateValue' = "CONNECTED"))
  /\ UNCHANGED <<config, worker, halt, armed, listening, signalled>>

Network ==
  \/ \E i \in Socket : Meanwhile(Event(i)) \/ Meanwhile(Restart(i))
  \/ Meanwhile(Fire) \/ Meanwhile(Catch)

PairingGivesUp ==
  /\ PairingFails
  /\ step' = "joining" /\ result' = "error"
  /\ UNCHANGED <<config, worker, halt, armed, control, history>>

(* `auth logout --local-only` in another process: it needs no lock.        *)
LocalLogout ==
  /\ step \in {"connecting", "refreshing", "running"}
  /\ credentials' = FALSE
  /\ connectivity' = "AUTH_REQUIRED" /\ pauseReason' = "AUTH_REQUIRED"
  /\ UNCHANGED <<autoReconnect, client, stateValue, generation, socket, phase, restarts, owner,
                 timer, catching, stopped, reconnecting, inFlight, refused, revoked, config,
                 step, worker, halt, armed, control, result, history>>

-----------------------------------------------------------------------------
Starts == StartConnecting \/ AuthMissing \/ StartDry \/ Refreshed \/ RegisterFails

Works == Poll \/ PutBack \/ WorkerSends \/ WorkerAnswered \/ WorkerEnds \/ WorkerFails

Ends ==
  \/ Leave \/ OperationEnds \/ OperationLogsOut \/ OperationLoggedOut
  \/ StartDisconnecting \/ ListenerThrows \/ Exit \/ DisconnectFails \/ Drain

DaemonNext == Starts \/ Works \/ Ends \/ Signal \/ Network \/ PairingGivesUp \/ LocalLogout

DaemonSpec == DaemonInit /\ [][DaemonNext]_daemonVars

(* The event loop runs what is due; a socket that is being opened opens or *)
(* closes, a group refresh and a send end somehow.                         *)
DaemonFairSpec ==
  /\ DaemonSpec
  /\ WF_daemonVars(Meanwhile(Fire)) /\ WF_daemonVars(Meanwhile(Catch))
  /\ \A i \in Socket :
       /\ WF_daemonVars(Meanwhile(Event(i) /\ phase[i] = "waiting"))
       /\ WF_daemonVars(Meanwhile(Restart(i)))
  /\ WF_daemonVars(StartConnecting \/ AuthMissing \/ StartDry) /\ WF_daemonVars(Refreshed)
  /\ WF_daemonVars(PutBack) /\ WF_daemonVars(WorkerAnswered) /\ WF_daemonVars(WorkerEnds)
  /\ WF_daemonVars(Leave) /\ WF_daemonVars(StartDisconnecting) /\ WF_daemonVars(Exit)

-----------------------------------------------------------------------------
(* Properties.                                                             *)

(* Every session that is there is the one disconnect would end, and none   *)
(* is left when the process has disconnected: no order of 515 chains,      *)
(* timers, failed starts and failed logouts leaves a socket behind that    *)
(* the manager no longer knows (connection-manager.ts:110).  Only a        *)
(* disconnect that its own listener cut short leaves one, to a process     *)
(* that is stuck.                                                          *)
NoOrphanedSession ==
  \A i \in Socket :
    /\ phase[i] \in {"waiting", "open"} => socket = i \/ (client = "cut" /\ step = "stuck")
    /\ client = "down" => phase[i] \notin {"waiting", "open", "ending"}

(* While the worker runs the controller listens to the socket that is      *)
(* there, also when it was replaced during the group refresh or by a       *)
(* reconnect; and from the finally block on to none (daemon.ts:92).        *)
ControllerFollows ==
  /\ Polling /\ controlled /\ ~dryRun => attached = socket
  /\ step \in {"joining", "disconnecting", "exited"} => attached = NoSocket

(* The service manager restarts what exits with an error (deploy unit,     *)
(* Restart=on-failure).  A daemon that exits clean was told to, or needs   *)
(* the operator to log in, or regained a session while it was ending; one  *)
(* whose first connection is answered with loggedOut exits clean, so that  *)
(* it is not started again and again.  Either needs disconnect to succeed. *)
ExitTellsSupervisor ==
  step = "exited" /\ autoReconnect /\ client \in {"new", "down"} =>
    /\ result # "error" => signalled \/ pauseReason # "NONE" \/ reopened
    /\ result = "error" /\ worker = "none" /\ ~listening => ~refused

(* Whatever the connection does meanwhile, a start is served or given up,  *)
(* and a process that ends is over, unless its finally block threw.        *)
PhasesSettle ==
  /\ step = "starting" ~> step \in {"running", "stuck", "exited"}
  /\ step \in {"stopping", "joining", "disconnecting"} ~> step \in {"stuck", "exited"}

(* The daemon lives as ServiceLife promises.                               *)
Life ==
  CASE step \in {"starting", "connecting", "refreshing"} -> "starting"
    [] step = "running" /\ ~halt -> "serving"
    [] step = "running" /\ halt -> "ending"
    [] step \in {"stopping", "joining"} -> "ending"
    [] step = "disconnecting" -> "closed"
    [] step = "stuck" -> "stranded"
    [] step = "exited" -> "gone"

(* A session is there, whether or not the manager still knows it.          *)
Session == \E i \in Socket : phase[i] \in {"waiting", "open"}

Promise ==
  INSTANCE ServiceLife WITH life <- Life, session <- Session, sending <- inFlight

ImplementsServiceLife == Promise!Spec

(* Its worker lives as WorkerLife promises, like the one of Delivery: what *)
(* Delivery does with jobs and this module with the connection are two     *)
(* sides of one loop.  The flag of a worker that is over means nothing.    *)
Place ==
  CASE worker \in {"none", "ended", "failed"} -> "away"
    [] worker = "idle" -> "idle"
    [] worker = "claimed" -> "holding"
    [] worker = "sending" -> "sending"

Loop == INSTANCE WorkerLife WITH place <- Place, told <- halt /\ Place # "away"

ImplementsWorkerLife == Loop!Spec
=============================================================================
