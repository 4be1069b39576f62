--------------------------- MODULE ConnectionManager ---------------------------
(***************************************************************************)
(* The WhatsApp connection of one process: the daemon, which reconnects,   *)
(* or a CLI command, which connects once, works and disconnects.           *)
(*                                                                         *)
(* Everything runs on one event loop, so a handler, a timer callback and   *)
(* the code between two awaits are one step each.  A socket is known by    *)
(* the generation it was created with; generations are counted modulo      *)
(* Generations, which only identifies sockets that have long been silent.  *)
(***************************************************************************)
EXTENDS Integers

CONSTANT Generations  \* how many socket generations are told apart

ASSUME GenerationsAssumption == Generations \in Nat /\ Generations >= 3

Socket == 0 .. Generations - 1
NoSocket == -1

Revocations == {"LOGGED_OUT", "FATAL"}

VARIABLES
  autoReconnect, \* autoReconnect: TRUE in the daemon, FALSE in a CLI command
  client,        \* the process: "new", "connecting" (awaits connect),
                 \* "serving", "loggingOut", "leaving" (disconnect is next),
                 \* "closing" (disconnect awaits the socket's end), "down",
                 \* "cut" (disconnect threw before the socket's end)
  stateValue,    \* stateValue
  connectivity,  \* app_state connectivity, shared with the queue worker
  pauseReason,   \* app_state outgoing_pause_reason
  credentials,   \* the auth repository holds credentials
  generation,    \* generation
  socket,        \* socket
  phase,         \* each socket: "none", "waiting" (not settled), "open",
                 \* "restarting" (the 515 chain is pending), "ending"
                 \* (disconnect awaits its end), "closed"
  restarts,      \* protocolRestartCount each socket was created with
  owner,         \* who awaits connectPromise: "none", "client", "timer"
  timer,         \* reconnectTimer is set
  catching,      \* a failed reconnect is in its catch, before scheduleReconnect
  stopped,       \* stopped
  reconnecting,  \* reconnectAttempt > 0
  inFlight,      \* the worker awaits a send begun on some socket
  refused,       \* history: the last verdict of WhatsApp was loggedOut
  revoked        \* history: an open session of this process was revoked

shared == <<connectivity, pauseReason, credentials>>
vars == <<autoReconnect, client, stateValue, shared, generation, socket, phase, restarts, owner,
          timer, catching, stopped, reconnecting, inFlight, refused, revoked>>

TypeOK ==
  /\ autoReconnect \in BOOLEAN
  /\ client \in {"new", "connecting", "serving", "loggingOut", "leaving",
                 "closing", "down", "cut"}
  /\ stateValue \in {"CONNECTING", "CONNECTED", "DISCONNECTED", "RECONNECTING"}
                    \cup Revocations
  /\ connectivity \in {"CONNECTING", "CONNECTED", "DISCONNECTED", "RECONNECTING",
                       "AUTH_REQUIRED", "OFFLINE_DRY_RUN"} \cup Revocations
  /\ pauseReason \in {"NONE", "AUTH_REQUIRED"} \cup Revocations
  /\ credentials \in BOOLEAN
  /\ generation \in Socket
  /\ socket \in Socket \cup {NoSocket}
  /\ phase \in [Socket -> {"none", "waiting", "open", "restarting", "ending", "closed"}]
  /\ restarts \in [Socket -> 0 .. 2]
  /\ owner \in {"none", "client", "timer"}
  /\ timer \in BOOLEAN /\ catching \in BOOLEAN /\ stopped \in BOOLEAN
  /\ reconnecting \in BOOLEAN /\ inFlight \in BOOLEAN
  /\ refused \in BOOLEAN /\ revoked \in BOOLEAN

Init ==
  /\ autoReconnect \in BOOLEAN
  /\ client = "new"
  /\ stateValue = "DISCONNECTED"
  /\ connectivity = "DISCONNECTED"
  /\ pauseReason \in {"NONE", "AUTH_REQUIRED"} \cup Revocations
  /\ credentials \in BOOLEAN
  /\ generation = 0
  /\ socket = NoSocket
  /\ phase = [i \in Socket |-> "none"]
  /\ restarts = [i \in Socket |-> 0]
  /\ owner = "none"
  /\ timer = FALSE /\ catching = FALSE /\ stopped = FALSE
  /\ reconnecting = FALSE /\ inFlight = FALSE
  /\ refused = FALSE /\ revoked = FALSE

-----------------------------------------------------------------------------
(* Helpers that several steps share.                                       *)

Report(s) == stateValue' = s /\ connectivity' = s

(* The handlers of a superseded socket return at once.                     *)
Current(i) == i = generation

NextGeneration == (generation + 1) % Generations

(* createSocket up to its await; from is the socket it replaces in a 515   *)
(* chain, or NoSocket.                                                     *)
CreateSocket(restartCount, from) ==
  /\ generation' = NextGeneration
  /\ socket' = NextGeneration
  /\ Report(IF reconnecting THEN "RECONNECTING" ELSE "CONNECTING")
  /\ phase' = [i \in Socket |-> IF i = NextGeneration THEN "waiting"
                                ELSE IF i = from THEN "closed" ELSE phase[i]]
  /\ restarts' = [restarts EXCEPT ![NextGeneration] = restartCount]

Bug_Unstopped(s, wanted) ==
  IF wanted /\ ~timer
  THEN timer' = TRUE /\ reconnecting' = TRUE /\ Report("RECONNECTING")
  ELSE UNCHANGED <<timer, reconnecting>> /\ Report(s)

(* What is left at s without a reconnect; a catch has nothing to report.   *)
Settle(s) == IF s = stateValue THEN UNCHANGED <<stateValue, connectivity>> ELSE Report(s)

Bug_ScheduleFrom(s, wanted) ==
  /\ UNCHANGED <<timer, reconnecting>>
  /\ Report(IF wanted /\ ~stopped THEN "RECONNECTING" ELSE s)

(* scheduleReconnect, after a step that would leave the state at s.        *)
ScheduleFrom(s, wanted) ==
  IF wanted /\ ~timer /\ ~stopped
  THEN timer' = TRUE /\ reconnecting' = TRUE /\ Report("RECONNECTING")
  ELSE UNCHANGED <<timer, reconnecting>> /\ Settle(s)

Bug_Reconnectable(s) == autoReconnect

(* A close that was neither loggedOut nor fatal is worth another attempt.  *)
Reconnectable(s) == autoReconnect /\ s = "DISCONNECTED"

Bug_RestartAllowed(i) == ~stopped

(* A protocol restart is followed at most twice.                           *)
RestartAllowed(i) == ~stopped /\ restarts[i] < 2

Bug_TimerFired == timer' = timer

TimerFired == timer' = FALSE

Bug_Reject == UNCHANGED <<owner, client, catching>>

(* connectPromise is rejected: the process gives up, or the reconnect      *)
(* timer's catch runs.                                                     *)
Reject ==
  /\ owner' = "none"
  /\ client' = IF owner = "client" THEN "leaving" ELSE client
  /\ catching' = (catching \/ owner = "timer")

-----------------------------------------------------------------------------
(* The process that owns the connection.                                   *)

Connect ==
  /\ client = "new"
  /\ client' = "connecting" /\ owner' = "client"
  /\ stopped' = FALSE
  /\ CreateSocket(0, NoSocket)
  /\ UNCHANGED <<autoReconnect, pauseReason, credentials, timer, catching, reconnecting,
                 inFlight, refused, revoked>>

(* requestPairingCode fails: connect gives up with its socket still open.   *)
PairingFails ==
  /\ client = "connecting" /\ ~autoReconnect
  /\ phase[generation] = "waiting"
  /\ client' = "leaving" /\ owner' = "none"
  /\ UNCHANGED <<autoReconnect, stateValue, shared, generation, socket, phase, restarts, timer,
                 catching, stopped, reconnecting, inFlight, refused, revoked>>

Disconnect ==
  /\ client \in {"serving", "leaving"}
  /\ client' = "closing"
  /\ stopped' = TRUE /\ timer' = FALSE
  /\ socket' = NoSocket /\ generation' = NextGeneration
  /\ phase' = [i \in Socket |-> IF i = socket THEN "ending"
                                ELSE IF i = NextGeneration THEN "none" ELSE phase[i]]
  /\ UNCHANGED <<autoReconnect, stateValue, shared, restarts, owner, catching, reconnecting,
                 inFlight, refused, revoked>>

(* The listener that is told of the absent socket throws: nothing after it *)
(* is done, and the session stays, with no generation to supersede it.     *)
DisconnectCut ==
  /\ client \in {"serving", "leaving"}
  /\ client' = "cut"
  /\ stopped' = TRUE /\ timer' = FALSE
  /\ socket' = NoSocket
  /\ UNCHANGED <<autoReconnect, stateValue, shared, generation, phase, restarts, owner, catching,
                 reconnecting, inFlight, refused, revoked>>

Disconnected ==
  /\ client = "closing"
  /\ client' = "down"
  /\ Report("DISCONNECTED")
  /\ phase' = [i \in Socket |-> IF phase[i] = "ending" THEN "closed" ELSE phase[i]]
  /\ UNCHANGED <<autoReconnect, pauseReason, credentials, generation, socket, restarts, owner, timer, catching, stopped, reconnecting, inFlight,
                 refused, revoked>>

Forget ==
  /\ client' = "leaving"
  /\ socket' = NoSocket
  /\ credentials' = FALSE
  /\ pauseReason' = "AUTH_REQUIRED"
  /\ Report("LOGGED_OUT")

(* `auth logout`: awaits the server, then forgets the credentials; without *)
(* a socket it forgets them at once.                                       *)
Logout ==
  /\ client = "serving" /\ ~autoReconnect
  /\ stopped' = TRUE
  /\ IF socket = NoSocket THEN Forget
     ELSE client' = "loggingOut" /\ UNCHANGED <<stateValue, shared, socket>>
  /\ UNCHANGED <<autoReconnect, generation, phase, restarts, owner, timer, catching, reconnecting,
                 inFlight, refused, revoked>>

LoggedOut ==
  /\ client = "loggingOut" /\ socket # NoSocket
  /\ Forget
  /\ phase' = [phase EXCEPT ![socket] = "closed"]
  /\ UNCHANGED <<autoReconnect, generation, restarts, owner, timer, catching, stopped,
                 reconnecting, inFlight, refused, revoked>>

Bug_LogoutFails ==
  /\ client = "loggingOut"
  /\ client' = "leaving" /\ socket' = NoSocket
  /\ UNCHANGED <<autoReconnect, stateValue, shared, generation, phase, restarts, owner, timer,
                 catching, stopped, reconnecting, inFlight, refused, revoked>>

(* The server cannot be told, or the socket has closed by the time it was, *)
(* so that this.socket.end throws: nothing local is forgotten.             *)
LogoutFails ==
  /\ client = "loggingOut"
  /\ client' = "leaving"
  /\ UNCHANGED <<autoReconnect, stateValue, shared, generation, socket, phase, restarts, owner,
                 timer, catching, stopped, reconnecting, inFlight, refused, revoked>>

-----------------------------------------------------------------------------
(* connection.update.  Pairing has stored the credentials before it opens. *)

Open(i) ==
  /\ phase[i] = "waiting" /\ Current(i)
  /\ phase' = [phase EXCEPT ![i] = "open"]
  /\ Report("CONNECTED")
  /\ pauseReason' = "NONE"
  /\ reconnecting' = FALSE
  /\ owner' = "none"
  /\ client' = IF owner = "client" THEN "serving" ELSE client
  /\ refused' = FALSE
  /\ credentials' = TRUE
  /\ UNCHANGED <<autoReconnect, generation, socket, restarts, timer, catching,
                 stopped, inFlight, revoked>>

(* 515 before the socket was ready: the same promise goes on with a new    *)
(* socket, twice at most.                                                  *)
CloseForRestart(i) ==
  /\ phase[i] = "waiting" /\ Current(i)
  /\ RestartAllowed(i)
  /\ phase' = [phase EXCEPT ![i] = "restarting"]
  /\ socket' = NoSocket
  /\ Report("RECONNECTING")
  /\ UNCHANGED <<autoReconnect, client, pauseReason, credentials, generation, restarts, owner,
                 timer, catching, stopped, reconnecting, inFlight, refused, revoked>>

RestartGoesOn(i) ==
  /\ phase[i] = "restarting" /\ ~stopped
  /\ CreateSocket(restarts[i] + 1, i)
  /\ UNCHANGED <<autoReconnect, client, pauseReason, credentials, owner, timer, catching, stopped,
                 reconnecting, inFlight, refused, revoked>>

(* The manager was stopped meanwhile, or the credentials cannot be saved.  *)
RestartFails(i) ==
  /\ phase[i] = "restarting"
  /\ phase' = [phase EXCEPT ![i] = "closed"]
  /\ Reject
  /\ UNCHANGED <<autoReconnect, stateValue, shared, generation, socket, restarts, timer, stopped,
                 reconnecting, inFlight, refused, revoked>>

(* A socket that was not settled rejects; one that was open does not.      *)
Closes(i) ==
  /\ phase[i] \in {"waiting", "open"} /\ Current(i)
  /\ phase' = [phase EXCEPT ![i] = "closed"]
  /\ socket' = NoSocket
  /\ IF phase[i] = "waiting" THEN Reject ELSE UNCHANGED <<owner, client, catching>>

CloseRevoked(i, reason) ==
  /\ Closes(i)
  /\ ScheduleFrom(reason, Reconnectable(reason))
  /\ pauseReason' = reason
  /\ refused' = (reason = "LOGGED_OUT")
  /\ revoked' = (revoked \/ phase[i] = "open")
  /\ UNCHANGED <<autoReconnect, credentials, generation, restarts, stopped, inFlight>>

CloseDropped(i) ==
  /\ Closes(i)
  /\ ScheduleFrom("DISCONNECTED", Reconnectable("DISCONNECTED"))
  /\ refused' = FALSE
  /\ UNCHANGED <<autoReconnect, pauseReason, credentials, generation, restarts, stopped, inFlight,
                 revoked>>

-----------------------------------------------------------------------------
(* The reconnect timer.  Its delay is at least 100 ms and the catch of a   *)
(* failed reconnect sleeps 0 ms, so the catch has run before it fires.     *)

Fire ==
  /\ timer /\ ~catching
  /\ TimerFired
  /\ IF (stateValue = "CONNECTED" /\ socket # NoSocket) \/ owner # "none"
     THEN UNCHANGED <<stateValue, connectivity, generation, socket, phase,
                      restarts, owner, stopped>>
     ELSE CreateSocket(0, NoSocket) /\ owner' = "timer" /\ stopped' = FALSE
  /\ UNCHANGED <<autoReconnect, client, pauseReason, credentials, catching, reconnecting, inFlight,
                 refused, revoked>>

Catch ==
  /\ catching
  /\ catching' = FALSE
  /\ ScheduleFrom(stateValue, TRUE)
  /\ UNCHANGED <<autoReconnect, client, pauseReason, credentials, generation, socket, phase,
                 restarts, owner, stopped, inFlight, refused, revoked>>

-----------------------------------------------------------------------------
(* The queue worker of the daemon, which writes the same rows.             *)

SendBegins ==
  /\ client = "serving" /\ autoReconnect
  /\ socket # NoSocket /\ ~inFlight
  /\ inFlight' = TRUE
  /\ UNCHANGED <<autoReconnect, client, stateValue, shared, generation, socket, phase, restarts,
                 owner, timer, catching, stopped, reconnecting, refused, revoked>>

(* Success writes connectivity; an authentication error writes it, pauses  *)
(* and stops the daemon; other errors write nothing here.                  *)
SendEnds ==
  /\ inFlight /\ client \in {"serving", "leaving"}
  /\ inFlight' = FALSE
  /\ \/ connectivity' = "CONNECTED" /\ UNCHANGED <<client, pauseReason>>
     \/ /\ \E e \in {"LOGGED_OUT", "AUTH_REQUIRED"} : connectivity' = e /\ pauseReason' = e
        /\ client' = "leaving"
     \/ UNCHANGED <<client, connectivity, pauseReason>>
  /\ UNCHANGED <<autoReconnect, stateValue, credentials, generation, socket, phase, restarts,
                 owner, timer, catching, stopped, reconnecting, refused, revoked>>

-----------------------------------------------------------------------------
Event(i) ==
  \/ Open(i) \/ CloseForRestart(i) \/ CloseDropped(i)
  \/ \E reason \in Revocations : CloseRevoked(i, reason)

Restart(i) == RestartGoesOn(i) \/ RestartFails(i)

Next ==
  \/ Connect \/ PairingFails \/ Disconnect \/ DisconnectCut \/ Disconnected
  \/ Logout \/ LoggedOut \/ LogoutFails
  \/ \E i \in Socket : Event(i) \/ Restart(i)
  \/ Fire \/ Catch
  \/ SendBegins \/ SendEnds

Spec == Init /\ [][Next]_vars

(* The event loop runs what is due, and a socket that is being opened      *)
(* opens or closes.                                                        *)
FairSpec ==
  /\ Spec
  /\ WF_vars(Fire) /\ WF_vars(Catch)
  /\ \A i \in Socket : WF_vars(Event(i) /\ phase[i] = "waiting") /\ WF_vars(Restart(i))

-----------------------------------------------------------------------------
(* Properties.                                                             *)

(* At most one thing can lead to the next socket: connectPromise, the      *)
(* timer or a pending catch that would set it; so two sockets are never    *)
(* being opened at once.  And while the daemon serves without a session,   *)
(* and no session of its was revoked, there is one: no order of close,     *)
(* restart, rejection and catch loses it.                                  *)
OneReconnection ==
  /\ ~(timer /\ owner # "none")
  /\ ~(catching /\ owner # "none")
  /\ \A i, j \in Socket : i # j => ~(phase[i] = "waiting" /\ phase[j] = "waiting" /\ ~stopped)
  /\ client = "serving" /\ autoReconnect /\ stateValue # "CONNECTED" /\ ~revoked
       => timer \/ catching \/ owner = "timer"

(* Once a process has called disconnect, nothing opens a socket or sets a  *)
(* timer in it, whatever timers, restarts and catches were pending, and no *)
(* event of the old socket and no late answer to a send changes what the   *)
(* manager and the row that health reads report.                           *)
StoppedStaysStopped ==
  client \in {"closing", "down"} =>
    /\ socket = NoSocket /\ ~timer
    /\ client = "down" => stateValue = "DISCONNECTED" /\ connectivity = "DISCONNECTED"

(* A session that was open when WhatsApp revoked it is not reconnected.    *)
RevokedStaysDown ==
  revoked => socket = NoSocket /\ ~timer /\ ~catching /\ owner = "none"

(* A daemon that has lost its session tries again.                         *)
TriesAgain ==
  client = "serving" /\ autoReconnect /\ socket = NoSocket
    ~> socket # NoSocket \/ revoked \/ client # "serving"

(* What the documentation says, contradicted by what the code does.        *)

(* README: logged-out state does not reconnect forever.                    *)
LoggedOutSettles == (<>[]refused) => <>[]~timer
=============================================================================
