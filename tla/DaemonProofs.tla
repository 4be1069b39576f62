----------------------------- MODULE DaemonProofs -----------------------------
(***************************************************************************)
(* Theorems about the process around a connection, for every number of     *)
(* socket generations.  First ConnectionManager by itself: every state is  *)
(* well typed, it reconnects one at a time, and a process that has called  *)
(* disconnect stays quiet, whatever timers, 515 chains and catches were    *)
(* pending.  Then Daemon around it: it implements the life a service       *)
(* manager relies on, in every order of the network's events, the          *)
(* worker's steps, signals and failing writes.                             *)
(***************************************************************************)
EXTENDS Daemon, TLAPS

(* connectPromise is the client's exactly while connect is awaited: a      *)
(* rejection never brings back a process that is leaving.                  *)
OwnerAwaits == owner = "client" <=> client = "connecting"

(* After disconnect no handler is live: generation names no open socket.   *)
Quiet ==
  client \in {"closing", "down"} =>
    /\ stopped /\ socket = NoSocket /\ ~timer
    /\ phase[generation] \notin {"waiting", "open"}
    /\ client = "down" => stateValue = "DISCONNECTED" /\ connectivity = "DISCONNECTED"

(* A disconnect that was cut short has stopped the manager all the same.   *)
CutOff == client = "cut" => stopped /\ socket = NoSocket /\ ~timer

(* A 515 chain is followed only below the bound, so the count it hands to  *)
(* the next socket is within it.                                           *)
Bounded == \A i \in Socket : phase[i] = "restarting" => restarts[i] < 2

IInv == TypeOK /\ OwnerAwaits /\ Quiet /\ CutOff /\ Bounded

Phase == {"none", "waiting", "open", "restarting", "ending", "closed"}

(* The type invariant in two parts, which the steps prove apart.           *)
FlagsType ==
  /\ autoReconnect \in BOOLEAN
  /\ credentials \in BOOLEAN /\ timer \in BOOLEAN /\ catching \in BOOLEAN
  /\ stopped \in BOOLEAN /\ reconnecting \in BOOLEAN /\ inFlight \in BOOLEAN
  /\ refused \in BOOLEAN /\ revoked \in BOOLEAN

StateType ==
  /\ client \in {"new", "connecting", "serving", "loggingOut", "leaving",
                 "closing", "down", "cut"}
  /\ stateValue \in {"CONNECTING", "CONNECTED", "DISCONNECTED", "RECONNECTING"}
                    \cup Revocations
  /\ connectivity \in {"CONNECTING", "CONNECTED", "DISCONNECTED", "RECONNECTING",
                       "AUTH_REQUIRED", "OFFLINE_DRY_RUN"} \cup Revocations
  /\ pauseReason \in {"NONE", "AUTH_REQUIRED"} \cup Revocations
  /\ generation \in Socket
  /\ socket \in Socket \cup {NoSocket}
  /\ phase \in [Socket -> Phase]
  /\ restarts \in [Socket -> 0 .. 2]
  /\ owner \in {"none", "client", "timer"}

(* TypeOK is these two parts, in the current state and in the next.        *)
LEMMA TypeParts ==
  /\ TypeOK <=> FlagsType /\ StateType
  /\ TypeOK' <=> FlagsType' /\ StateType'
  BY DEF TypeOK, FlagsType, StateType, Phase

(* The generation counter stays within the sockets it identifies, and a    *)
(* new generation is never NoSocket.                                       *)
LEMMA NextGenerationType ==
  ASSUME generation \in Socket
  PROVE  NextGeneration \in Socket
  BY GenerationsAssumption DEF NextGeneration, Socket

(* A new socket keeps the types and the bound on 515 chains.               *)
LEMMA CreateSocketType ==
  ASSUME TypeOK, Bounded, NEW from \in Socket \cup {NoSocket}, NEW count \in 0 .. 2,
         CreateSocket(count, from)
  PROVE  /\ generation' \in Socket
         /\ socket' \in Socket
         /\ stateValue' \in {"CONNECTING", "RECONNECTING"}
         /\ connectivity' \in {"CONNECTING", "RECONNECTING"}
         /\ phase' \in [Socket -> Phase]
         /\ restarts' \in [Socket -> 0 .. 2]
         /\ Bounded'
<1>1. NextGeneration \in Socket
  BY NextGenerationType DEF TypeOK
<1>2. phase' \in [Socket -> Phase]
  BY DEF CreateSocket, TypeOK, Phase
<1>3. restarts' \in [Socket -> 0 .. 2]
  BY DEF CreateSocket, TypeOK
<1>4. Bounded'
  BY <1>1 DEF CreateSocket, TypeOK, Bounded
<1> QED
  BY <1>1, <1>2, <1>3, <1>4 DEF CreateSocket, Report

(* scheduleReconnect reports RECONNECTING or leaves what the step reports, *)
(* and sets no timer once stopped.                                         *)
LEMMA ScheduleType ==
  ASSUME TypeOK, NEW s, NEW wanted \in BOOLEAN, ScheduleFrom(s, wanted)
  PROVE  /\ timer' \in BOOLEAN /\ reconnecting' \in BOOLEAN
         /\ stateValue' \in {s, "RECONNECTING"}
         /\ connectivity' \in {s, "RECONNECTING", connectivity}
         /\ stopped => timer' = timer /\ stateValue' = s
  BY DEF ScheduleFrom, Settle, Report, TypeOK

(* A process that has not connected satisfies the invariant.               *)
LEMMA InitInvariant == Init => IInv
<1> SUFFICES ASSUME Init PROVE IInv
  OBVIOUS
<1>1. 0 \in Socket
  BY GenerationsAssumption DEF Socket
<1>2. phase \in [Socket -> Phase] /\ restarts \in [Socket -> 0 .. 2]
  BY DEF Init, Phase
<1>3. TypeOK
  BY <1>1, <1>2 DEF Init, TypeOK, Revocations, Phase
<1>4. Bounded
  BY DEF Init, Bounded
<1> QED
  BY <1>3, <1>4 DEF Init, IInv, OwnerAwaits, Quiet, CutOff

(* The steps of the process: connect, disconnect and `auth logout`.        *)
LEMMA ClientStep ==
  ASSUME IInv,
         Connect \/ PairingFails \/ Disconnect \/ DisconnectCut \/ Disconnected \/ Logout
           \/ LoggedOut \/ LogoutFails
  PROVE  IInv'
<1> USE DEF IInv
<1>1. CASE Connect
  <2> CreateSocket(0, NoSocket) /\ TypeOK /\ Bounded /\ 0 \in 0 .. 2
    BY <1>1 DEF Connect
  <2>1. TypeOK'
    <3>1. FlagsType'
      BY <1>1 DEF Connect, TypeOK, FlagsType
    <3>2. StateType'
      BY <1>1, CreateSocketType DEF Connect, TypeOK, StateType
    <3> QED
      BY <3>1, <3>2, TypeParts
  <2>2. Bounded'
    BY CreateSocketType
  <2> QED
    BY <1>1, <2>1, <2>2 DEF Connect, OwnerAwaits, Quiet, CutOff
<1>2. CASE PairingFails
  BY <1>2 DEF PairingFails, TypeOK, OwnerAwaits, Bounded, Quiet, CutOff, shared
<1>3. CASE Disconnect
  <2>1. NextGeneration \in Socket
    BY NextGenerationType DEF TypeOK
  <2>2. phase' \in [Socket -> Phase]
    BY <1>3 DEF Disconnect, TypeOK, Phase
  <2>3. TypeOK'
    <3>1. generation' \in Socket /\ socket' \in Socket \cup {NoSocket}
      BY <1>3, <2>1 DEF Disconnect
    <3>2. FlagsType'
      BY <1>3, <2>2, <3>1 DEF Disconnect, TypeOK, FlagsType, shared
    <3>3. StateType'
      BY <1>3, <2>2, <3>1 DEF Disconnect, TypeOK, StateType, Phase, shared
    <3> QED
      BY <3>2, <3>3, TypeParts
  <2>4. phase'[generation'] \notin {"waiting", "open"}
    BY <1>3, <2>1 DEF Disconnect, TypeOK
  <2>5. Bounded'
    BY <1>3 DEF Disconnect, TypeOK, Bounded
  <2> QED
    BY <1>3, <2>3, <2>4, <2>5 DEF Disconnect, OwnerAwaits, Quiet, CutOff
<1>4. CASE Disconnected
  BY <1>4 DEF Disconnected, TypeOK, OwnerAwaits, Bounded, Quiet, CutOff, Report
<1>5. CASE Logout
  <2>1. CASE socket = NoSocket
    BY <1>5, <2>1 DEF Logout, Forget, TypeOK, OwnerAwaits, Bounded, Quiet, CutOff, Report, Revocations
  <2>2. CASE socket # NoSocket
    BY <1>5, <2>2 DEF Logout, TypeOK, OwnerAwaits, Bounded, Quiet, CutOff, shared
  <2> QED
    BY <2>1, <2>2
<1>6. CASE LoggedOut
  BY <1>6 DEF LoggedOut, Forget, TypeOK, OwnerAwaits, Bounded, Quiet, CutOff, Report, Revocations
<1>7. CASE LogoutFails
  BY <1>7 DEF LogoutFails, TypeOK, OwnerAwaits, Bounded, Quiet, CutOff, shared
<1>8. CASE DisconnectCut
  <2>1. TypeOK'
    <3>1. FlagsType'
      BY <1>8 DEF DisconnectCut, TypeOK, FlagsType, shared
    <3>2. StateType'
      BY <1>8 DEF DisconnectCut, TypeOK, StateType, Phase, shared
    <3> QED
      BY <3>1, <3>2, TypeParts
  <2> QED
    BY <1>8, <2>1 DEF DisconnectCut, OwnerAwaits, Bounded, Quiet, CutOff
<1> QED
  BY <1>1, <1>2, <1>3, <1>4, <1>5, <1>6, <1>7, <1>8

(* What a close does to the owner, the process and the socket's phase.     *)
LEMMA ClosesType ==
  ASSUME IInv, NEW i \in Socket, Closes(i)
  PROVE  /\ phase' \in [Socket -> Phase]
         /\ client \notin {"closing", "down"}
         /\ UNCHANGED restarts => Bounded'
         /\ client' \in {client, "leaving"}
         /\ owner' \in {"none", "client", "timer"}
         /\ catching' \in BOOLEAN
         /\ owner' = "client" <=> client' = "connecting"
         /\ socket' = NoSocket
<1>1. client \notin {"closing", "down"}
  BY DEF Closes, Current, IInv, Quiet
<1>2. phase' = [phase EXCEPT ![i] = "closed"]
  BY DEF Closes
<1>3. phase' \in [Socket -> Phase]
  BY <1>2 DEF IInv, TypeOK, Phase
<1>4. UNCHANGED restarts => Bounded'
  BY <1>2 DEF IInv, TypeOK, Bounded
<1> QED
  BY <1>1, <1>3, <1>4 DEF Closes, Reject, IInv, TypeOK, OwnerAwaits

(* connection.update events: they only come from the current socket.       *)
LEMMA EventStep ==
  ASSUME IInv, NEW i \in Socket, Event(i)
  PROVE  IInv'
<1> USE DEF IInv
<1>1. CASE Open(i)
  <2>1. client \notin {"closing", "down"}
    BY <1>1 DEF Open, Current, Quiet
  <2> QED
    BY <1>1, <2>1 DEF Open, TypeOK, OwnerAwaits, Bounded, Quiet, CutOff, Report
<1>2. CASE CloseForRestart(i)
  <2>1. client \notin {"closing", "down"}
    BY <1>2 DEF CloseForRestart, Current, Quiet
  <2>2. phase' \in [Socket -> Phase]
    BY <1>2 DEF CloseForRestart, TypeOK, Phase
  <2>3. Bounded'
    BY <1>2 DEF CloseForRestart, RestartAllowed, TypeOK, Bounded
  <2> QED
    BY <1>2, <2>1, <2>2, <2>3
    DEF CloseForRestart, TypeOK, Phase, OwnerAwaits, Quiet, CutOff, Report
<1>3. CASE CloseDropped(i)
  <2>1. Closes(i)
    BY <1>3 DEF CloseDropped
  <2>2. Reconnectable("DISCONNECTED") \in BOOLEAN
    BY DEF Reconnectable, TypeOK
  <2> QED
    <3>1. ScheduleFrom("DISCONNECTED", Reconnectable("DISCONNECTED"))
      BY <1>3 DEF CloseDropped
    <3>2. FlagsType'
      BY <1>3, <2>1, <2>2, <3>1, ClosesType, ScheduleType DEF CloseDropped, TypeOK, FlagsType
    <3>3. StateType'
      BY <1>3, <2>1, <2>2, <3>1, ClosesType, ScheduleType
      DEF CloseDropped, TypeOK, StateType, Phase
    <3>4. OwnerAwaits' /\ Quiet' /\ CutOff' /\ Bounded'
      BY <1>3, <2>1, <2>2, <3>1, ClosesType, ScheduleType
      DEF CloseDropped, OwnerAwaits, Quiet, CutOff
    <3> QED
      BY <3>2, <3>3, <3>4, TypeParts
<1>4. CASE \E reason \in Revocations : CloseRevoked(i, reason)
  <2>1. PICK reason \in Revocations : CloseRevoked(i, reason)
    BY <1>4
  <2>2. Closes(i) /\ Reconnectable(reason) \in BOOLEAN
    BY <2>1 DEF CloseRevoked, Reconnectable, TypeOK
  <2> QED
    BY <2>1, <2>2, ClosesType, ScheduleType
    DEF CloseRevoked, TypeOK, Phase, OwnerAwaits, Quiet, CutOff, Revocations
<1> QED
  BY <1>1, <1>2, <1>3, <1>4 DEF Event

(* A 515 chain: it goes on only when not stopped, and a failure only tells *)
(* whoever awaits connectPromise.                                          *)
LEMMA RestartStep ==
  ASSUME IInv, NEW i \in Socket, Restart(i)
  PROVE  IInv'
<1> USE DEF IInv
<1>1. CASE RestartGoesOn(i)
  <2>1. client \notin {"closing", "down"}
    BY <1>1 DEF RestartGoesOn, Quiet
  <2>2. restarts[i] \in 0 .. 2 /\ restarts[i] < 2
    BY <1>1 DEF RestartGoesOn, Bounded, TypeOK
  <2>3. restarts[i] + 1 \in 0 .. 2
    BY <2>2
  <2> QED
    BY <1>1, <2>1, <2>3, CreateSocketType
    DEF RestartGoesOn, TypeOK, Phase, OwnerAwaits, Quiet, CutOff
<1>2. CASE RestartFails(i)
  <2>1. phase' \in [Socket -> Phase] /\ Bounded'
    BY <1>2 DEF RestartFails, TypeOK, Bounded, Phase
  <2>2. client \in {"closing", "down"} => phase'[generation] \notin {"waiting", "open"}
    BY <1>2 DEF RestartFails, TypeOK, Quiet
  <2> QED
    BY <1>2, <2>1, <2>2
    DEF RestartFails, Reject, TypeOK, Phase, OwnerAwaits, Quiet, CutOff, shared
<1> QED
  BY <1>1, <1>2 DEF Restart

(* The timer's connect runs only while a timer is set, so never after      *)
(* disconnect; a late catch finds the manager stopped.                     *)
LEMMA TimerStep ==
  ASSUME IInv, Fire \/ Catch
  PROVE  IInv'
<1> USE DEF IInv
<1>1. CASE Fire
  <2>1. client \notin {"closing", "down"}
    BY <1>1 DEF Fire, Quiet
  <2>2. CASE CreateSocket(0, NoSocket) /\ owner' = "timer" /\ stopped' = FALSE /\ owner = "none"
    <3> TypeOK /\ Bounded /\ 0 \in 0 .. 2
      OBVIOUS
    <3>1. FlagsType'
      BY <1>1, <2>2 DEF Fire, TimerFired, TypeOK, FlagsType
    <3>2. StateType'
      BY <1>1, <2>2, CreateSocketType DEF Fire, TypeOK, StateType
    <3>3. OwnerAwaits' /\ Quiet' /\ CutOff'
      BY <1>1, <2>1, <2>2 DEF Fire, OwnerAwaits, Quiet, CutOff
    <3> QED
      BY <2>2, <3>1, <3>2, <3>3, CreateSocketType, TypeParts
  <2>3. CASE UNCHANGED <<stateValue, connectivity, generation, socket, phase,
                         restarts, owner, stopped>>
    <3>1. TypeOK'
      <4>1. FlagsType'
        BY <1>1, <2>3 DEF Fire, TimerFired, TypeOK, FlagsType
      <4>2. StateType'
        BY <1>1, <2>3 DEF Fire, TimerFired, TypeOK, StateType, Phase
      <4> QED
        BY <4>1, <4>2, TypeParts
    <3> QED
      BY <1>1, <2>1, <2>3, <3>1 DEF Fire, OwnerAwaits, Bounded, Quiet, CutOff
  <2> QED
    BY <1>1, <2>2, <2>3 DEF Fire
<1>2. CASE Catch
  <2>1. TypeOK'
    <3>1. /\ stateValue' \in {stateValue, "RECONNECTING"}
          /\ connectivity' \in {connectivity, "RECONNECTING"}
      BY <1>2 DEF Catch, ScheduleFrom, Settle, Report
    <3>2. FlagsType'
      BY <1>2, ScheduleType DEF Catch, TypeOK, FlagsType
    <3>3. StateType'
      BY <1>2, <3>1 DEF Catch, TypeOK, StateType, Phase
    <3> QED
      BY <3>2, <3>3, TypeParts
  <2>2. OwnerAwaits' /\ CutOff' /\ Bounded'
    BY <1>2 DEF Catch, ScheduleFrom, OwnerAwaits, CutOff, Bounded
  <2>3. Quiet'
    BY <1>2 DEF Catch, ScheduleFrom, Settle, Report, Quiet
  <2> QED
    BY <2>1, <2>2, <2>3
<1> QED
  BY <1>1, <1>2

(* The worker writes connectivity only before disconnect.                  *)
LEMMA WorkerStep ==
  ASSUME IInv, SendBegins \/ SendEnds
  PROVE  IInv'
<1>1. CASE SendBegins
  BY <1>1 DEF SendBegins, IInv, TypeOK, OwnerAwaits, Bounded, Quiet, CutOff, shared
<1>2. CASE SendEnds
  <2>1. TypeOK'
    <3>2. FlagsType'
      BY <1>2 DEF SendEnds, IInv, TypeOK, FlagsType
    <3>3. StateType'
      BY <1>2 DEF SendEnds, IInv, TypeOK, StateType, Phase, Revocations
    <3> QED
      BY <3>2, <3>3, TypeParts
  <2> QED
    BY <1>2, <2>1 DEF SendEnds, IInv, OwnerAwaits, Bounded, Quiet, CutOff
<1> QED
  BY <1>1, <1>2

(* A step that changes nothing keeps the invariant.                        *)
LEMMA Stutter ==
  ASSUME IInv, UNCHANGED vars
  PROVE  IInv'
  BY DEF vars, shared, IInv, TypeOK, OwnerAwaits, Bounded, Quiet, CutOff

(* The inductive invariant holds in every reachable state, for every       *)
(* number of generations, in the daemon and in a CLI command.              *)
THEOREM Invariant == Spec => []IInv
<1>1. IInv /\ [Next]_vars => IInv'
  BY ClientStep, EventStep, RestartStep, TimerStep, WorkerStep, Stutter DEF Next
<1> QED
  BY InitInvariant, <1>1, PTL DEF Spec

(* Every variable of the connection manager keeps its type.                *)
THEOREM TypeCorrect == Spec => []TypeOK
<1>1. IInv => TypeOK
  BY DEF IInv
<1> QED
  BY <1>1, Invariant, PTL

(* Once a process has called disconnect, no socket or timer of it comes    *)
(* back and what it reports no longer changes (connection-manager.ts       *)
(* disconnect, and the guards on stopped and on the generation).           *)
THEOREM Stops == Spec => []StoppedStaysStopped
<1>1. IInv => StoppedStaysStopped
  BY DEF IInv, Quiet, StoppedStaysStopped
<1> QED
  BY <1>1, Invariant, PTL

-----------------------------------------------------------------------------
(* Who may open the next socket.                                           *)

Ended == client \in {"closing", "down"}

(* Events come from one socket, the current one; a 515 chain that is not   *)
(* the current one has been overtaken by disconnect.                       *)
OneLive ==
  /\ \A i \in Socket : phase[i] \in {"waiting", "open"} =>
       i = generation /\ (socket = generation \/ client = "cut")
  /\ socket # NoSocket => phase[generation] \in {"waiting", "open"}
  /\ \A i \in Socket : phase[i] = "restarting" => i = generation \/ Ended

Unused ==
  client = "new" =>
    /\ owner = "none" /\ ~stopped /\ ~revoked
    /\ \A i \in Socket : phase[i] = "none"

(* A CLI command never reconnects; in the daemon whatever leads to a       *)
(* socket that is not open yet is awaited, and nothing stops it, before    *)
(* disconnect.                                                             *)
ModeKept ==
  /\ ~autoReconnect => ~timer /\ ~catching /\ owner # "timer"
  /\ autoReconnect /\ ~Ended =>
       /\ stopped => client = "cut"
       /\ \A i \in Socket : phase[i] \in {"waiting", "restarting"} => owner # "none"

(* Timer, catch and connectPromise exclude each other, and all of them an  *)
(* open session.                                                           *)
Exclusive ==
  /\ timer \/ catching => owner = "none" /\ client # "new"
  /\ phase[generation] = "open" => owner = "none" /\ ~timer /\ ~catching

RevokedQuiet ==
  revoked => /\ socket = NoSocket /\ ~timer /\ ~catching /\ owner = "none"
             /\ client # "new" /\ phase[generation] \notin {"waiting", "open", "restarting"}

TriedAgain ==
  client = "serving" /\ autoReconnect /\ stateValue # "CONNECTED" /\ ~revoked
    => timer \/ catching \/ owner = "timer"

Reconnects == OneLive /\ Unused /\ ModeKept /\ Exclusive /\ RevokedQuiet /\ TriedAgain

SInv == IInv /\ Reconnects

LEMMA SStarts == Init => Reconnects
<1> SUFFICES ASSUME Init PROVE Reconnects
  OBVIOUS
<1>1. 0 \in Socket
  BY GenerationsAssumption DEF Socket
<1> QED BY <1>1 DEF Init, Reconnects, OneLive, Unused, ModeKept, Exclusive, RevokedQuiet, TriedAgain

(* A new socket takes the place of the one that was current, if that is no *)
(* longer live.                                                            *)
LEMMA CreateKeeps ==
  ASSUME IInv, Reconnects, NEW count, NEW from \in Socket \cup {NoSocket}, CreateSocket(count, from),
         ~stopped \/ owner = "none", client # "closing", client # "down",
         phase[generation] \notin {"waiting", "open"},
         phase[generation] = "restarting" => from = generation
  PROVE  /\ generation' \in Socket /\ socket' = generation' /\ socket' # NoSocket
         /\ phase'[generation'] = "waiting"
         /\ \A i \in Socket : i # generation' => phase'[i] \notin {"waiting", "open", "restarting"}
<1>1. NextGeneration \in Socket /\ NoSocket \notin Socket
  BY NextGenerationType DEF IInv, TypeOK, Socket, NoSocket
<1>2. \A i \in Socket : phase[i] \in {"waiting", "open", "restarting"} => i = generation
  BY DEF Reconnects, OneLive, Ended
<1>3. phase' = [i \in Socket |-> IF i = NextGeneration THEN "waiting"
                                 ELSE IF i = from THEN "closed" ELSE phase[i]]
  BY DEF CreateSocket
<1> QED BY <1>1, <1>2, <1>3 DEF CreateSocket

LEMMA ClientReconnects ==
  ASSUME IInv, Reconnects,
         Connect \/ PairingFails \/ Disconnect \/ DisconnectCut \/ Disconnected \/ Logout
           \/ LoggedOut \/ LogoutFails
  PROVE  Reconnects'
<1> generation \in Socket /\ NoSocket \notin Socket /\ phase \in [Socket -> Phase]
  BY DEF IInv, TypeOK, Socket, NoSocket, Phase
<1> USE DEF Reconnects, OneLive, Unused, ModeKept, Exclusive, RevokedQuiet, TriedAgain, Ended
<1>1. CASE Connect
  <2>1. phase[generation] = "none" /\ owner = "none" /\ ~stopped
    BY <1>1 DEF Connect
  <2>2. CreateSocket(0, NoSocket) /\ client = "new"
    BY <1>1 DEF Connect
  <2>3. /\ generation' \in Socket /\ socket' = generation' /\ socket' # NoSocket
        /\ phase'[generation'] = "waiting"
        /\ \A i \in Socket : i # generation' => phase'[i] \notin {"waiting", "open", "restarting"}
    BY <2>1, <2>2, CreateKeeps
  <2> QED BY <1>1, <2>3 DEF Connect
<1>2. CASE PairingFails
  BY <1>2 DEF PairingFails, shared
<1>3. CASE Disconnect
  <2>1. NextGeneration \in Socket
    BY NextGenerationType
  <2>2. /\ generation' = NextGeneration /\ phase'[NextGeneration] \notin {"waiting", "open", "restarting"}
        /\ \A i \in Socket : phase'[i] \notin {"waiting", "open"}
        /\ \A i \in Socket : phase'[i] = "restarting" => phase[i] = "restarting"
    BY <1>3, <2>1 DEF Disconnect
  <2> QED BY <1>3, <2>1, <2>2 DEF Disconnect
<1>4. CASE Disconnected
  BY <1>4 DEF Disconnected, Report
<1>5. CASE Logout
  BY <1>5 DEF Logout, Forget, shared
<1>6. CASE LoggedOut
  BY <1>6 DEF LoggedOut, Forget
<1>7. CASE LogoutFails
  BY <1>7 DEF LogoutFails, shared
<1>8. CASE DisconnectCut
  BY <1>8 DEF DisconnectCut, shared
<1> QED BY <1>1, <1>2, <1>3, <1>4, <1>5, <1>6, <1>7, <1>8

(* A socket that closes before it opened leaves a catch, in the daemon.    *)
WaitingEnded(i) ==
  /\ i = generation /\ phase'[i] = "closed"
  /\ \A k \in Socket \ {i} : phase'[k] = phase[k] /\ phase[k] \notin {"waiting", "open"}
  /\ socket' = NoSocket /\ owner' = "none" /\ ~revoked /\ ~timer
  /\ client \notin {"new", "closing", "down"} /\ client' \in {client, "leaving"}
  /\ client = "cut" => client' = client
  /\ catching' => autoReconnect
  /\ client' = "serving" /\ autoReconnect => catching'

LEMMA WaitingCloses ==
  ASSUME IInv, Reconnects, NEW i \in Socket, Closes(i), phase[i] = "waiting"
  PROVE  WaitingEnded(i)
<1>1. /\ i = generation
      /\ NoSocket \notin Socket /\ phase \in [Socket -> Phase]
  <2>1. NoSocket \notin Socket /\ phase \in [Socket -> Phase]
    BY DEF IInv, TypeOK, Socket, NoSocket, Phase
  <2> QED BY <2>1 DEF Closes, Current, Reconnects, OneLive
<1>2. client \notin {"new", "closing", "down"} /\ ~revoked
  BY <1>1, ClosesType DEF Reconnects, Unused, RevokedQuiet
<1>3. ~timer /\ ~catching /\ (autoReconnect => owner # "none")
  BY <1>2 DEF Reconnects, ModeKept, Exclusive, Ended
<1>4. Reject
  BY DEF Closes
<1>5. \A k \in Socket \ {i} : phase'[k] = phase[k] /\ phase[k] \notin {"waiting", "open"}
  BY <1>1 DEF Closes, Reconnects, OneLive
<1>6. phase'[i] = "closed" /\ socket' = NoSocket
  BY <1>1 DEF Closes
<1>7. owner \in {"none", "client", "timer"} /\ (owner = "client" <=> client = "connecting")
  BY DEF IInv, TypeOK, OwnerAwaits
<1>8. ~autoReconnect => owner # "timer"
  BY DEF Reconnects, ModeKept
<1> QED BY <1>1, <1>2, <1>3, <1>4, <1>5, <1>6, <1>7, <1>8 DEF WaitingEnded, Reject

LEMMA EventReconnects ==
  ASSUME IInv, Reconnects, NEW i \in Socket, Event(i)
  PROVE  Reconnects'
<1> /\ generation \in Socket /\ NoSocket \notin Socket /\ phase \in [Socket -> Phase]
    /\ autoReconnect \in BOOLEAN
  BY DEF IInv, TypeOK, Socket, NoSocket, Phase
<1> USE DEF Reconnects, OneLive, Unused, ModeKept, Exclusive, RevokedQuiet, TriedAgain, Ended
<1>1. CASE Open(i)
  <2>1. /\ phase[i] = "waiting" /\ i = generation
        /\ socket = generation \/ client = "cut"
        /\ client \notin {"new", "closing", "down"}
        /\ ~revoked /\ ~timer /\ ~catching
    BY <1>1 DEF Open, Current, IInv, Quiet
  <2>2. /\ phase'[i] = "open"
        /\ \A k \in Socket \ {i} : phase'[k] = phase[k]
    BY <1>1 DEF Open
  <2>3. /\ UNCHANGED <<autoReconnect, generation, socket, timer, catching, stopped, revoked>>
        /\ owner' = "none" /\ stateValue' = "CONNECTED" /\ client' \in {client, "serving"}
        /\ client = "cut" => client' = client
    BY <1>1 DEF Open, Report, IInv, OwnerAwaits
  <2> QED BY <2>1, <2>2, <2>3
<1>2. CASE CloseForRestart(i)
  BY <1>2 DEF CloseForRestart, Current, RestartAllowed, Report, IInv, OwnerAwaits, TypeOK
<1>3. CASE CloseDropped(i)
  <2>1. CASE phase[i] = "waiting"
    <3>1. Closes(i)
      BY <1>3 DEF CloseDropped
    <3>2. WaitingEnded(i)
      BY <2>1, <3>1, WaitingCloses
    <3> QED BY <1>3, <2>1, <3>2 DEF CloseDropped, ScheduleFrom, Settle, Reconnectable, Report, WaitingEnded
  <2>2. CASE phase[i] = "open"
    BY <1>3, <2>2 DEF CloseDropped, Closes, Current, ScheduleFrom, Settle, Reconnectable, Report,
       IInv, OwnerAwaits
  <2> QED BY <1>3, <2>1, <2>2 DEF CloseDropped, Closes
<1>4. ASSUME NEW reason \in Revocations, CloseRevoked(i, reason) PROVE Reconnects'
  <2>1. CASE phase[i] = "waiting"
    <3>1. Closes(i)
      BY <1>4 DEF CloseRevoked
    <3>2. WaitingEnded(i)
      BY <2>1, <3>1, WaitingCloses
    <3> QED BY <1>4, <2>1, <3>2 DEF CloseRevoked, ScheduleFrom, Settle, Reconnectable, Report,
              WaitingEnded, Revocations
  <2>2. CASE phase[i] = "open"
    BY <1>4, <2>2 DEF CloseRevoked, Closes, Current, ScheduleFrom, Settle, Reconnectable, Report,
       IInv, OwnerAwaits, Revocations
  <2> QED BY <1>4, <2>1, <2>2 DEF CloseRevoked, Closes
<1> QED BY <1>1, <1>2, <1>3, <1>4 DEF Event

LEMMA RestartReconnects ==
  ASSUME IInv, Reconnects, NEW i \in Socket, Restart(i)
  PROVE  Reconnects'
<1> /\ generation \in Socket /\ NoSocket \notin Socket /\ phase \in [Socket -> Phase]
  BY DEF IInv, TypeOK, Socket, NoSocket, Phase
<1> USE DEF Reconnects, OneLive, Unused, ModeKept, Exclusive, RevokedQuiet, TriedAgain, Ended
<1>1. CASE RestartGoesOn(i)
  <2>1. phase[i] = "restarting" /\ ~stopped /\ CreateSocket(restarts[i] + 1, i)
    BY <1>1 DEF RestartGoesOn
  <2>2. i = generation /\ client \notin {"closing", "down", "new"}
    BY <2>1 DEF IInv, Quiet
  <2>3. /\ generation' \in Socket /\ socket' = generation' /\ socket' # NoSocket
        /\ phase'[generation'] = "waiting"
        /\ \A k \in Socket : k # generation' => phase'[k] \notin {"waiting", "open", "restarting"}
    BY <2>1, <2>2, CreateKeeps
  <2> QED BY <1>1, <2>2, <2>3 DEF RestartGoesOn, IInv, OwnerAwaits, TypeOK
<1>2. CASE RestartFails(i)
  <2>1. /\ phase[i] = "restarting" /\ phase'[i] = "closed"
        /\ \A k \in Socket \ {i} : phase'[k] = phase[k]
        /\ UNCHANGED <<autoReconnect, generation, socket, stateValue, timer, stopped, revoked>>
        /\ owner' = "none" /\ catching' = (catching \/ owner = "timer")
        /\ client' = IF owner = "client" THEN "leaving" ELSE client
    BY <1>2 DEF RestartFails, Reject
  <2>2. /\ client # "new" /\ client' # "new" /\ (Ended => Ended')
        /\ client' = "serving" => client = "serving" /\ owner # "client"
        /\ client = "cut" => client' = client
    BY <2>1 DEF IInv, OwnerAwaits
  <2>3. revoked => ~catching'
    BY <2>1
  <2>4. phase'[generation] = "open" => phase[generation] = "open"
    BY <2>1
  <2>5. OneLive' /\ Unused' /\ Exclusive'
    BY <2>1, <2>2, <2>4
  <2>6. ModeKept'
    BY <2>1, <2>2
  <2>7. RevokedQuiet' /\ TriedAgain'
    BY <2>1, <2>2, <2>3
  <2> QED BY <2>5, <2>6, <2>7
<1> QED BY <1>1, <1>2 DEF Restart

LEMMA TimerReconnects ==
  ASSUME IInv, Reconnects, Fire \/ Catch
  PROVE  Reconnects'
<1> /\ generation \in Socket /\ NoSocket \notin Socket /\ phase \in [Socket -> Phase]
    /\ autoReconnect \in BOOLEAN
  BY DEF IInv, TypeOK, Socket, NoSocket, Phase
<1> USE DEF Reconnects, OneLive, Unused, ModeKept, Exclusive, RevokedQuiet, TriedAgain, Ended
<1>1. CASE Fire
  <2>1. /\ timer /\ ~catching /\ owner = "none" /\ autoReconnect
        /\ client \notin {"new", "closing", "down"} /\ ~revoked
        /\ phase[generation] \notin {"waiting", "open", "restarting"} /\ socket = NoSocket
    BY <1>1 DEF Fire, IInv, Quiet
  <2>2. CreateSocket(0, NoSocket) /\ owner' = "timer" /\ stopped' = FALSE
    BY <1>1, <2>1 DEF Fire
  <2>3. /\ generation' \in Socket /\ socket' = generation' /\ socket' # NoSocket
        /\ phase'[generation'] = "waiting"
        /\ \A k \in Socket : k # generation' => phase'[k] \notin {"waiting", "open", "restarting"}
    BY <2>1, <2>2, CreateKeeps
  <2> QED BY <1>1, <2>1, <2>2, <2>3 DEF Fire, TimerFired
<1>2. CASE Catch
  BY <1>2 DEF Catch, ScheduleFrom, Settle, Report, IInv, Quiet, TypeOK
<1> QED BY <1>1, <1>2

LEMMA WorkerReconnects ==
  ASSUME Reconnects, SendBegins \/ SendEnds \/ UNCHANGED vars
  PROVE  Reconnects'
BY DEF SendBegins, SendEnds, vars, shared, Reconnects, OneLive, Unused, ModeKept, Exclusive,
   RevokedQuiet, TriedAgain, Ended

LEMMA StepReconnects == SInv /\ [Next]_vars => SInv'
<1>1. IInv /\ [Next]_vars => IInv'
  BY ClientStep, EventStep, RestartStep, TimerStep, WorkerStep, Stutter DEF Next
<1> QED
  BY <1>1, ClientReconnects, EventReconnects, RestartReconnects, TimerReconnects, WorkerReconnects
     DEF SInv, Next

LEMMA StartReconnects == Init => SInv
BY InitInvariant, SStarts DEF SInv

LEMMA Reconnecting == Spec => []SInv
BY StartReconnects, StepReconnects, PTL DEF Spec

(* connectPromise, the reconnect timer and a pending catch never coexist,  *)
(* two sockets are never being opened, and a daemon that serves without a  *)
(* session has one of them left (connection-manager.ts scheduleReconnect). *)
THEOREM ReconnectsOnce == Spec => []OneReconnection
<1>1. SInv => OneReconnection
  BY DEF SInv, Reconnects, OneLive, Exclusive, TriedAgain, OneReconnection
<1> QED BY <1>1, Reconnecting, PTL

(* A session revoked while it was open leaves no socket, timer or promise: *)
(* nothing in the process can bring it back.                               *)
THEOREM StaysRevoked == Spec => []RevokedStaysDown
<1>1. SInv => RevokedStaysDown
  BY DEF SInv, Reconnects, RevokedQuiet, RevokedStaysDown
<1> QED BY <1>1, Reconnecting, PTL

-----------------------------------------------------------------------------
(* Daemon.                                                                 *)

Starting == step \in {"starting", "connecting", "refreshing"}

(* How far the process is tells how far its connection is.                 *)
Phased ==
  /\ step = "starting" => client = "new"
  /\ step = "connecting" <=> client = "connecting"
  /\ step = "refreshing" => client = "serving" /\ autoReconnect
  /\ client = "loggingOut" => step = "running" /\ ~autoReconnect
  /\ step \in {"running", "stopping"} =>
       client \in {"new", "serving", "leaving", "loggingOut"}
  /\ step = "joining" => client \in {"new", "serving", "leaving"}
  /\ step = "disconnecting" => client = "closing"
  /\ client = "closing" => step \in {"disconnecting", "stuck", "exited"}
  /\ client = "down" => step = "exited"
  /\ client = "cut" => step = "stuck" \/ (step = "exited" /\ ~Session)

(* The worker is there only between the start and the finally block, and a *)
(* command has none.                                                       *)
Employed ==
  /\ worker = "sending" <=> inFlight
  /\ worker \in {"idle", "claimed", "sending"} => Polling
  /\ Starting => worker = "none" /\ ~halt /\ ~armed
  /\ step = "stopping" => halt /\ signalled
  /\ ~autoReconnect => worker = "none" /\ ~dryRun /\ ~controlled /\ ~armed /\ ~halt

(* The controller's socket is the manager's while it listens.              *)
Followed ==
  /\ listening => attached = socket \/ step = "joining"
  /\ ~listening \/ step = "joining" => attached = NoSocket
  /\ Starting => ~listening
  /\ listening => controlled
  /\ Polling /\ controlled /\ ~dryRun => listening
  /\ step = "exited" => attached = NoSocket

(* A socket whose end was awaited is closed when the process is down.      *)
NoneEnding == client = "down" => \A i \in Socket : phase[i] # "ending"

OwnType ==
  /\ dryRun \in BOOLEAN /\ controlled \in BOOLEAN
  /\ step \in {"starting", "connecting", "refreshing", "running", "stopping",
               "joining", "disconnecting", "stuck", "exited"}
  /\ worker \in {"none", "idle", "claimed", "sending", "ended", "failed"}
  /\ halt \in BOOLEAN /\ armed \in BOOLEAN /\ listening \in BOOLEAN
  /\ result \in {"none", "STOPPED", "AUTH_REQUIRED", "error"}
  /\ signalled \in BOOLEAN /\ reopened \in BOOLEAN

Lived == Phased /\ Employed /\ Followed /\ NoneEnding

-----------------------------------------------------------------------------
(* What the network's events do to the process.                            *)

Net == (\E i \in Socket : Event(i) \/ Restart(i)) \/ Fire \/ Catch

(* Only the client that awaits connect is moved, and once disconnect was   *)
(* called no socket comes or goes.                                         *)
LEMMA NetEffects ==
  ASSUME SInv, Net
  PROVE  /\ UNCHANGED <<autoReconnect, inFlight>>
         /\ client' # client => client = "connecting" /\ client' \in {"serving", "leaving"}
         /\ client = "connecting" /\ client' = "serving" => socket' = socket
         /\ client = "connecting" /\ client' = "leaving" => socket' \in {socket, NoSocket}
         /\ Ended => UNCHANGED socket
         /\ \A i \in Socket : phase'[i] = "ending" => phase[i] = "ending"
<1>1. /\ owner = "client" <=> client = "connecting"
      /\ Ended => stopped /\ ~timer /\ phase[generation] \notin {"waiting", "open"}
      /\ phase \in [Socket -> Phase]
  BY DEF SInv, IInv, OwnerAwaits, Quiet, CutOff, Ended, TypeOK, Phase
<1>2. ASSUME NEW i \in Socket, Open(i) PROVE UNCHANGED socket /\ client' \in {client, "serving"}
  BY <1>2 DEF Open
<1>3. ASSUME NEW i \in Socket, Event(i) PROVE ~Ended
  BY <1>1, <1>3 DEF Event, Open, CloseForRestart, CloseDropped, CloseRevoked, Closes, Current
<1>4. ASSUME NEW i \in Socket, Event(i)
      PROVE  /\ UNCHANGED <<autoReconnect, inFlight>>
             /\ client' # client => client = "connecting" /\ client' \in {"serving", "leaving"}
             /\ client = "connecting" /\ client' = "serving" => socket' = socket
             /\ client = "connecting" /\ client' = "leaving" => socket' \in {socket, NoSocket}
             /\ \A k \in Socket : phase'[k] = "ending" => phase[k] = "ending"
  <2>1. CASE Open(i) \/ CloseForRestart(i)
    BY <1>1, <2>1 DEF Open, CloseForRestart
  <2>2. CASE Closes(i) /\ UNCHANGED <<autoReconnect, inFlight>>
    <3>1. client' \in {client, "leaving"} /\ (client' # client => client = "connecting")
      BY <1>1, <2>2 DEF Closes, Reject
    <3>2. \A k \in Socket : phase'[k] = "ending" => phase[k] = "ending"
      BY <1>1, <2>2 DEF Closes
    <3> QED BY <2>2, <3>1, <3>2 DEF Closes
  <2> QED BY <1>4, <2>1, <2>2 DEF Event, CloseDropped, CloseRevoked
<1>5. ASSUME NEW i \in Socket, Restart(i)
      PROVE  /\ UNCHANGED <<autoReconnect, inFlight>>
             /\ client' # client => client = "connecting" /\ client' = "leaving"
             /\ client' # client => socket' = socket
             /\ Ended => UNCHANGED socket
             /\ \A k \in Socket : phase'[k] = "ending" => phase[k] = "ending"
  <2>1. CASE RestartGoesOn(i)
    BY <1>1, <2>1 DEF RestartGoesOn, CreateSocket
  <2>2. CASE RestartFails(i)
    BY <1>1, <2>2 DEF RestartFails, Reject
  <2> QED BY <1>5, <2>1, <2>2 DEF Restart
<1>6. ASSUME Fire \/ Catch
      PROVE  /\ UNCHANGED <<autoReconnect, inFlight, client>>
             /\ Ended => UNCHANGED socket
             /\ \A k \in Socket : phase'[k] = "ending" => phase[k] = "ending"
  BY <1>1, <1>6 DEF Fire, Catch, CreateSocket
<1> QED BY <1>2, <1>3, <1>4, <1>5, <1>6 DEF Net

(* The steps of the daemon that the connection manager does not take: the  *)
(* start and `auth logout --local-only` write its rows.                    *)
SharedWrite ==
  /\ ~Ended
  /\ connectivity' \in {"AUTH_REQUIRED", "OFFLINE_DRY_RUN"}
  /\ pauseReason' \in {pauseReason, "AUTH_REQUIRED"} /\ credentials' \in {credentials, FALSE}
  /\ UNCHANGED <<autoReconnect, client, stateValue, generation, socket, phase, restarts, owner,
                 timer, catching, stopped, reconnecting, inFlight, refused, revoked>>

LEMMA ConnectionSteps ==
  ASSUME Phased, [DaemonNext]_daemonVars
  PROVE  [Next]_vars \/ SharedWrite
<1>1. CASE Starts
  BY <1>1 DEF Starts, StartConnecting, AuthMissing, StartDry, Refreshed, RegisterFails, Next,
     SharedWrite, Phased, Ended
<1>2. CASE Works
  BY <1>2 DEF Works, Poll, PutBack, WorkerSends, WorkerAnswered, WorkerEnds, WorkerFails, Next
<1>3. CASE Ends
  BY <1>3 DEF Ends, Leave, OperationEnds, OperationLogsOut, OperationLoggedOut,
     StartDisconnecting, ListenerThrows, Exit, DisconnectFails, Drain, Next
<1>4. CASE Network
  BY <1>4 DEF Network, Meanwhile, Next
<1>5. CASE Signal \/ PairingGivesUp \/ LocalLogout
  BY <1>5 DEF Signal, PairingGivesUp, LocalLogout, Next, SharedWrite, Phased, Ended
<1> QED BY <1>1, <1>2, <1>3, <1>4, <1>5 DEF DaemonNext, daemonVars

LEMMA ConnectionKept ==
  ASSUME SInv, Phased, [DaemonNext]_daemonVars
  PROVE  SInv'
<1>1. CASE [Next]_vars
  BY <1>1, StepReconnects
<1>2. CASE SharedWrite
  <2>1. TypeOK'
    <3>1. FlagsType /\ StateType
      BY TypeParts DEF SInv, IInv
    <3>2. FlagsType'
      BY <1>2, <3>1 DEF SharedWrite, FlagsType
    <3>3. StateType'
      BY <1>2, <3>1 DEF SharedWrite, StateType, Phase
    <3> QED BY <3>2, <3>3, TypeParts
  <2>2. OwnerAwaits' /\ Quiet' /\ CutOff' /\ Bounded'
    BY <1>2 DEF SharedWrite, SInv, IInv, OwnerAwaits, Quiet, CutOff, Bounded, Ended
  <2>3. Reconnects'
    BY <1>2 DEF SharedWrite, SInv, Reconnects, OneLive, Unused, ModeKept, Exclusive,
       RevokedQuiet, TriedAgain, Ended
  <2> QED BY <2>1, <2>2, <2>3 DEF SInv, IInv
<1> QED BY <1>1, <1>2, ConnectionSteps

-----------------------------------------------------------------------------
(* The process itself.                                                     *)

LEMMA NoSession ==
  ASSUME SInv
  PROVE  /\ client = "new" => socket = NoSocket
         /\ Ended => socket = NoSocket
         /\ socket \in Socket \cup {NoSocket}
BY DEF SInv, IInv, TypeOK, Quiet, Ended, Reconnects, OneLive, Unused

LEMMA StartsLive ==
  ASSUME SInv, Lived, OwnType, Starts
  PROVE  Lived' /\ OwnType'
<1> socket \in Socket \cup {NoSocket} /\ autoReconnect \in BOOLEAN
  BY DEF SInv, IInv, TypeOK
<1> USE DEF Lived, OwnType, Phased, Employed, Followed, Starting, Polling, config, control, history
<1>1. CASE StartConnecting
  <2>1. NoneEnding' /\ autoReconnect' = autoReconnect /\ inFlight' = inFlight
    BY <1>1 DEF StartConnecting, Connect, NoneEnding
  <2> QED BY <1>1, <2>1 DEF StartConnecting, Connect
<1>2. CASE AuthMissing
  BY <1>2 DEF AuthMissing, NoneEnding
<1>3. CASE StartDry
  BY <1>3, NoSession DEF StartDry, Serve, NoneEnding
<1>4. CASE Refreshed
  BY <1>4 DEF Refreshed, Serve, Registered, NoneEnding, vars, shared
<1>5. CASE RegisterFails
  BY <1>5 DEF RegisterFails, NoneEnding, vars, shared
<1> QED BY <1>1, <1>2, <1>3, <1>4, <1>5 DEF Starts

LEMMA WorksLive ==
  ASSUME SInv, Lived, OwnType, Works
  PROVE  Lived' /\ OwnType'
<1> USE DEF Lived, OwnType, Phased, Employed, Followed, Starting, Polling, config, control, history
<1>1. CASE Poll \/ PutBack \/ WorkerEnds \/ WorkerFails
  <2>1. CASE Poll \/ PutBack
    BY <2>1 DEF Poll, PutBack, NoneEnding, vars, shared
  <2>2. CASE WorkerEnds \/ WorkerFails
    BY <2>2 DEF WorkerEnds, WorkerFails, NoneEnding, vars, shared
  <2> QED BY <1>1, <2>1, <2>2
<1>2. CASE WorkerSends
  BY <1>2 DEF WorkerSends, SendBegins, NoneEnding, shared
<1>3. CASE WorkerAnswered
  <2>1. step \in {"running", "stopping"} /\ autoReconnect /\ client' \in {client, "leaving"}
    BY <1>3 DEF WorkerAnswered, SendEnds
  <2> QED BY <1>3, <2>1 DEF WorkerAnswered, SendEnds, NoneEnding
<1> QED BY <1>1, <1>2, <1>3 DEF Works

LEMMA EndsLive ==
  ASSUME SInv, Lived, OwnType, Ends
  PROVE  Lived' /\ OwnType'
<1> USE DEF Lived, OwnType, Phased, Employed, Followed, Starting, Polling, config, control, history
<1>1. CASE Leave
  <2>1. /\ autoReconnect /\ worker \in {"ended", "failed"} /\ client \in {"new", "serving", "leaving"}
        /\ UNCHANGED <<vars, config, worker, armed, history>>
    BY <1>1 DEF Leave, WorkerOver
  <2>2. CASE /\ step' = "joining" /\ listening' = FALSE /\ attached' = NoSocket /\ halt' = TRUE
             /\ result' \in {"error", "STOPPED"}
    BY <2>1, <2>2 DEF NoneEnding, vars, shared
  <2>3. CASE step' = "stuck" /\ result' = "error" /\ UNCHANGED <<control, halt>> /\ step # "joining"
    BY <2>1, <2>3 DEF NoneEnding, vars, shared
  <2> QED BY <1>1, <2>2, <2>3 DEF Leave, Finally, RequestStop
<1>2. CASE OperationEnds
  BY <1>2 DEF OperationEnds, NoneEnding, vars, shared
<1>3. CASE OperationLogsOut
  BY <1>3 DEF OperationLogsOut, Logout, Forget, NoneEnding, shared
<1>4. CASE OperationLoggedOut
  BY <1>4 DEF OperationLoggedOut, LoggedOut, LogoutFails, Forget, NoneEnding, shared
<1>5. CASE StartDisconnecting
  BY <1>5 DEF StartDisconnecting, Disconnect, Follow, NoneEnding, shared
<1>6. CASE Exit
  BY <1>6, NoSession DEF Exit, Disconnected, NoneEnding, vars, shared, Ended
<1>7. CASE DisconnectFails
  BY <1>7, NoSession DEF DisconnectFails, NoneEnding, vars, shared, Ended
<1>8. CASE Drain
  <2>1. socket = NoSocket /\ ~Session
    BY <1>8 DEF Drain, Drained, Session, SInv, IInv, TypeOK, Reconnects, OneLive
  <2>2. ~Session'
    BY <1>8, <2>1 DEF Drain, vars, Session
  <2> QED BY <1>8, <2>1, <2>2 DEF Drain, NoneEnding, vars, shared
<1>9. CASE ListenerThrows
  BY <1>9 DEF ListenerThrows, DisconnectCut, Follow, NoneEnding, shared
<1> QED BY <1>1, <1>2, <1>3, <1>4, <1>5, <1>6, <1>7, <1>8, <1>9 DEF Ends

LEMMA NetworkLives ==
  ASSUME SInv, SInv', Lived, OwnType, Network
  PROVE  Lived' /\ OwnType'
<1>1. Net
  BY DEF Network, Meanwhile, Net
<1>2. /\ Awaited /\ Follow /\ step \notin {"joining", "exited"}
      /\ reopened' = (reopened \/ (halt /\ client = "leaving" /\ stateValue' = "CONNECTED"))
      /\ UNCHANGED <<config, worker, halt, armed, listening, signalled>>
  BY DEF Network, Meanwhile
<1> USE DEF Lived, OwnType, Phased, Employed, Followed, Starting, Polling, config, control, history
<1>3. CASE client' = client
  BY <1>1, <1>2, <1>3, NetEffects, NoSession DEF Awaited, Follow, NoneEnding
<1>4. CASE client = "connecting" /\ client' \in {"serving", "leaving"}
  BY <1>1, <1>2, <1>4, NetEffects, NoSession DEF Awaited, Follow, FailedConnect, NoneEnding
<1> QED BY <1>1, <1>3, <1>4, NetEffects

LEMMA ProcessLives ==
  ASSUME SInv, SInv', Lived, OwnType, [DaemonNext]_daemonVars
  PROVE  Lived' /\ OwnType'
<1>1. CASE Signal
  <2>1. /\ UNCHANGED <<client, autoReconnect, inFlight, socket, phase, dryRun, controlled,
                        worker, listening, attached, result, reopened>>
        /\ armed /\ armed' = FALSE /\ signalled' = TRUE
        /\ \/ step = "running" /\ step' = "stopping" /\ halt' = TRUE
           \/ step # "running" /\ UNCHANGED <<step, halt>>
    BY <1>1 DEF Signal, RequestStop, vars, shared, config, control
  <2>2. Phased'
    <3>1. Session' = Session
      BY <2>1 DEF Session
    <3> QED BY <2>1, <3>1 DEF Lived, Phased, Employed
  <2>3. Employed'
    BY <2>1 DEF Lived, Employed, Starting, Polling
  <2>4. Followed'
    BY <2>1 DEF Lived, Followed, Starting, Polling
  <2>5. NoneEnding'
    BY <2>1 DEF Lived, NoneEnding
  <2>6. OwnType'
    BY <2>1 DEF OwnType
  <2> QED BY <2>2, <2>3, <2>4, <2>5, <2>6 DEF Lived
<1>2. CASE PairingGivesUp
  BY <1>2 DEF PairingGivesUp, PairingFails, Lived, OwnType, Phased, Employed, Followed, Starting,
     Polling, NoneEnding, shared, config, control, history
<1>3. CASE LocalLogout
  BY <1>3 DEF LocalLogout, Lived, OwnType, Phased, Employed, Followed, Starting, Polling,
     NoneEnding, config, control, history
<1>4. CASE UNCHANGED daemonVars
  BY <1>4 DEF daemonVars, Lived, OwnType, Phased, Employed, Followed, Starting, Polling,
     NoneEnding, Session, vars, shared, config, control, history
<1> QED BY <1>1, <1>2, <1>3, <1>4, StartsLive, WorksLive, EndsLive, NetworkLives DEF DaemonNext

-----------------------------------------------------------------------------
(* What the exit tells.                                                    *)

Excused == signalled \/ pauseReason # "NONE" \/ reopened

(* The process is on its way out, or gone, by way of disconnect.           *)
Leaving ==
  step \in {"joining", "disconnecting"} \/ (step = "exited" /\ client \in {"new", "down"})

Told ==
  /\ worker = "ended" => halt
  /\ client = "connecting" => stateValue \in {"CONNECTING", "RECONNECTING"}
  /\ autoReconnect /\ step \in {"starting", "connecting"} => ~refused
  /\ autoReconnect /\ Polling /\ halt =>
       signalled \/ reopened \/ (client = "leaving" /\ pauseReason # "NONE")
  /\ autoReconnect /\ Polling /\ client = "leaving" => halt
  /\ step = "stuck" => result = "error" /\ (client = "closing" \/ worker # "none" \/ listening)
  /\ autoReconnect /\ Leaving =>
       /\ result # "error" => Excused
       /\ result = "error" /\ worker = "none" /\ ~listening => ~refused

LEMMA NetTells ==
  ASSUME SInv, Net, client = "connecting" => stateValue \in {"CONNECTING", "RECONNECTING"}
  PROVE  /\ pauseReason' = "NONE" => pauseReason = "NONE" \/ stateValue' = "CONNECTED"
         /\ client = "connecting" /\ client' = "leaving" =>
              /\ stateValue' = "LOGGED_OUT" => pauseReason' # "NONE"
              /\ stateValue' # "LOGGED_OUT" /\ ~refused => ~refused'
         /\ client = "connecting" /\ client' = "connecting" =>
              stateValue' \in {"CONNECTING", "RECONNECTING"} /\ (refused' => refused)
         /\ Ended => UNCHANGED <<pauseReason, refused>>
<1>1. /\ owner = "client" <=> client = "connecting"
      /\ Ended => phase[generation] \notin {"waiting", "open"}
      /\ timer \/ catching => owner = "none"
      /\ phase[generation] = "open" => owner = "none"
  BY DEF SInv, IInv, OwnerAwaits, Quiet, CutOff, Ended, Reconnects, Exclusive
<1>2. ASSUME NEW i \in Socket, Open(i) \/ CloseForRestart(i)
      PROVE  /\ pauseReason' = "NONE" => pauseReason = "NONE" \/ stateValue' = "CONNECTED"
             /\ client' = "leaving" => client = "leaving"
             /\ client' = "connecting" => stateValue' = "RECONNECTING"
             /\ refused' => refused
             /\ ~Ended
  BY <1>1, <1>2 DEF Open, CloseForRestart, Current, Report
<1>3. ASSUME NEW i \in Socket, Closes(i)
      PROVE  client' # "connecting" /\ ~Ended
  BY <1>1, <1>3 DEF Closes, Current, Reject
<1>4. ASSUME NEW i \in Socket, CloseDropped(i)
      PROVE  /\ pauseReason' = pauseReason /\ ~refused'
             /\ stateValue' \in {"RECONNECTING", "DISCONNECTED"}
  BY <1>4 DEF CloseDropped, ScheduleFrom, Settle, Report
<1>5. ASSUME NEW i \in Socket, NEW reason \in Revocations, CloseRevoked(i, reason)
      PROVE  /\ pauseReason' # "NONE"
             /\ stateValue' # "LOGGED_OUT" => ~refused'
  BY <1>5 DEF CloseRevoked, ScheduleFrom, Settle, Report, Reconnectable, Revocations
<1>6. ASSUME NEW i \in Socket, Restart(i)
      PROVE  /\ UNCHANGED <<pauseReason, refused>>
             /\ client' = "leaving" => client = "leaving" \/ stateValue' = stateValue
             /\ client' = "connecting" => stateValue' \in {stateValue, "CONNECTING", "RECONNECTING"}
  <2>1. CASE RestartGoesOn(i)
    BY <2>1 DEF RestartGoesOn, CreateSocket, Report
  <2>2. CASE RestartFails(i)
    BY <1>1, <2>2 DEF RestartFails, Reject, shared
  <2> QED BY <1>6, <2>1, <2>2 DEF Restart
<1>7. ASSUME Fire \/ Catch
      PROVE  UNCHANGED <<pauseReason, refused, client>> /\ client # "connecting"
  BY <1>1, <1>7 DEF Fire, Catch
<1>8. CASE \E i \in Socket : Event(i)
  BY <1>2, <1>3, <1>4, <1>5, <1>8 DEF Event, CloseDropped, CloseRevoked
<1>9. CASE \E i \in Socket : Restart(i)
  BY <1>6, <1>9
<1> QED BY <1>7, <1>8, <1>9 DEF Net

LEMMA StillNew ==
  ASSUME SInv, Net
  PROVE  client # "new"
<1>1. client = "new" =>
        ~timer /\ ~catching /\ \A i \in Socket : phase[i] = "none"
  BY DEF SInv, Reconnects, Unused, Exclusive
<1> QED BY <1>1 DEF Net, Event, Restart, Open, CloseForRestart, CloseDropped, CloseRevoked, Closes,
           RestartGoesOn, RestartFails, Fire, Catch

LEMMA ExitTold ==
  ASSUME SInv, SInv', Lived, OwnType, Told, [DaemonNext]_daemonVars
  PROVE  Told'
<1> autoReconnect \in BOOLEAN
  BY DEF SInv, IInv, TypeOK
<1> USE DEF Lived, OwnType, Phased, Employed, Followed, Starting, Polling, config, control, history,
            Told, Leaving, Excused
<1>1. CASE Starts
  <2>1. CASE StartConnecting
    <3>1. stateValue' \in {"CONNECTING", "RECONNECTING"}
      BY <2>1 DEF StartConnecting, Connect, CreateSocket, Report
    <3> QED BY <2>1, <3>1 DEF StartConnecting, Connect
  <2>2. CASE AuthMissing
    BY <2>2 DEF AuthMissing
  <2>3. CASE StartDry
    BY <2>3 DEF StartDry, Serve
  <2>4. CASE Refreshed
    BY <2>4 DEF Refreshed, Serve, vars, shared
  <2>5. CASE RegisterFails
    BY <2>5 DEF RegisterFails, vars, shared
  <2> QED BY <1>1, <2>1, <2>2, <2>3, <2>4, <2>5 DEF Starts
<1>2. CASE Works
  <2>1. CASE Poll \/ PutBack
    BY <2>1 DEF Poll, PutBack, vars, shared
  <2>2. CASE WorkerEnds \/ WorkerFails
    BY <2>2 DEF WorkerEnds, WorkerFails, vars, shared
  <2>3. CASE WorkerSends
    BY <2>3 DEF WorkerSends, SendBegins, shared
  <2>4. CASE WorkerAnswered
    <3>1. /\ step \in {"running", "stopping"} /\ worker' \in {"idle", "failed"}
          /\ halt' = (halt \/ client' = "leaving") /\ client \in {"serving", "leaving"}
          /\ UNCHANGED <<autoReconnect, step, listening, result, signalled, reopened, stateValue,
                         refused>>
      BY <2>4 DEF WorkerAnswered, SendEnds
    <3>2. CASE UNCHANGED <<client, pauseReason>>
      BY <3>1, <3>2
    <3>3. CASE client' = "leaving" /\ pauseReason' # "NONE"
      BY <3>1, <3>3
    <3> QED BY <2>4, <3>2, <3>3 DEF WorkerAnswered, SendEnds
  <2> QED BY <1>2, <2>1, <2>2, <2>3, <2>4 DEF Works
<1>3. CASE Ends
  <2>1. CASE Leave
    <3>1. /\ autoReconnect /\ worker \in {"ended", "failed"} /\ step \in {"running", "stopping"}
          /\ UNCHANGED <<vars, config, worker, armed, history>>
      BY <2>1 DEF Leave, WorkerOver
    <3>2. CASE /\ step' = "joining" /\ listening' = FALSE /\ halt' = TRUE
               /\ result' = IF worker = "failed" THEN "error" ELSE "STOPPED"
      BY <3>1, <3>2 DEF vars, shared
    <3>3. CASE step' = "stuck" /\ result' = "error" /\ UNCHANGED <<control, halt>>
      BY <3>1, <3>3 DEF vars, shared
    <3> QED BY <2>1, <3>2, <3>3 DEF Leave, Finally, RequestStop
  <2>2. CASE OperationEnds
    BY <2>2 DEF OperationEnds, vars, shared
  <2>3. CASE OperationLogsOut
    BY <2>3 DEF OperationLogsOut, Logout, Forget, shared
  <2>4. CASE OperationLoggedOut
    BY <2>4 DEF OperationLoggedOut, LoggedOut, LogoutFails, Forget, shared
  <2>5. CASE StartDisconnecting
    BY <2>5 DEF StartDisconnecting, Disconnect, shared
  <2>6. CASE Exit
    BY <2>6 DEF Exit, Disconnected, vars, shared
  <2>7. CASE DisconnectFails
    BY <2>7 DEF DisconnectFails, vars, shared
  <2>8. CASE Drain
    BY <2>8 DEF Drain, vars, shared
  <2>9. CASE ListenerThrows
    BY <2>9 DEF ListenerThrows, DisconnectCut, shared
  <2> QED BY <1>3, <2>1, <2>2, <2>3, <2>4, <2>5, <2>6, <2>7, <2>8, <2>9 DEF Ends
<1>4. CASE Network
  <2>1. Net
    BY <1>4 DEF Network, Meanwhile, Net
  <2>2. /\ Awaited /\ Follow /\ step \notin {"joining", "exited"}
        /\ reopened' = (reopened \/ (halt /\ client = "leaving" /\ stateValue' = "CONNECTED"))
        /\ UNCHANGED <<config, worker, halt, armed, listening, signalled>>
    BY <1>4 DEF Network, Meanwhile
  <2>3. CASE client' = client
    <3>1. UNCHANGED <<step, result, autoReconnect>>
      BY <2>1, <2>2, <2>3, NetEffects DEF Awaited
    <3>2. client = "connecting" =>
            stateValue' \in {"CONNECTING", "RECONNECTING"} /\ (refused' => refused)
      BY <2>1, <2>3, NetTells
    <3>3. autoReconnect /\ Polling /\ halt =>
            signalled' \/ reopened' \/ (client' = "leaving" /\ pauseReason' # "NONE")
      BY <2>1, <2>2, <2>3, NetTells
    <3>4. Leaving => UNCHANGED <<pauseReason, refused>> /\ (reopened => reopened')
      BY <2>1, <2>2, NetTells DEF Ended
    <3>5. step # "starting"
      BY <2>1, NetEffects, StillNew
    <3> QED BY <2>2, <2>3, <3>1, <3>2, <3>3, <3>4, <3>5
  <2>4. CASE client = "connecting" /\ client' = "serving"
    BY <2>1, <2>2, <2>4, NetEffects DEF Awaited
  <2>5. CASE client = "connecting" /\ client' = "leaving"
    <3>1. step' = "joining" /\ result' = FailedConnect /\ autoReconnect' = autoReconnect
      BY <2>1, <2>2, <2>5, NetEffects DEF Awaited
    <3> QED BY <2>1, <2>2, <2>5, <3>1, NetTells DEF FailedConnect
  <2> QED BY <2>1, <2>3, <2>4, <2>5, NetEffects
<1>5. CASE Signal
  BY <1>5 DEF Signal, RequestStop, vars, shared
<1>6. CASE PairingGivesUp
  BY <1>6 DEF PairingGivesUp, PairingFails, shared
<1>7. CASE LocalLogout
  BY <1>7 DEF LocalLogout
<1>8. CASE UNCHANGED daemonVars
  BY <1>8 DEF daemonVars, vars, shared
<1> QED BY <1>1, <1>2, <1>3, <1>4, <1>5, <1>6, <1>7, <1>8 DEF DaemonNext

-----------------------------------------------------------------------------
(* The invariant of the daemon and what follows from it.                   *)

DaemonInv == SInv /\ Lived /\ OwnType /\ Told

LEMMA DaemonStarts == DaemonInit => DaemonInv
<1> SUFFICES ASSUME DaemonInit PROVE DaemonInv
  OBVIOUS
<1>1. SInv
  BY StartReconnects DEF DaemonInit
<1>2. /\ client = "new" /\ ~inFlight /\ stateValue = "DISCONNECTED" /\ ~refused
      /\ socket = NoSocket
  BY DEF DaemonInit, Init
<1>3. Lived /\ OwnType
  BY <1>2 DEF DaemonInit, Lived, OwnType, Phased, Employed, Followed, NoneEnding, Starting, Polling
<1>4. Told
  BY <1>2 DEF DaemonInit, Told, Leaving, Polling
<1> QED BY <1>1, <1>3, <1>4 DEF DaemonInv

LEMMA DaemonSteps == DaemonInv /\ [DaemonNext]_daemonVars => DaemonInv'
<1> SUFFICES ASSUME DaemonInv, [DaemonNext]_daemonVars PROVE DaemonInv'
  OBVIOUS
<1>1. SInv'
  BY ConnectionKept DEF DaemonInv, Lived
<1>2. Lived' /\ OwnType'
  BY <1>1, ProcessLives DEF DaemonInv
<1>3. Told'
  BY <1>1, ExitTold DEF DaemonInv
<1> QED BY <1>1, <1>2, <1>3 DEF DaemonInv

LEMMA DaemonInvariant == DaemonSpec => []DaemonInv
BY DaemonStarts, DaemonSteps, PTL DEF DaemonSpec

(* Every variable of the daemon keeps its type, and the worker is sending  *)
(* exactly while a send of the connection is in flight (daemon.ts:101).    *)
THEOREM DaemonTyped == DaemonSpec => []DaemonTypeOK
<1>1. DaemonInv => DaemonTypeOK
  BY NoSession DEF DaemonInv, SInv, IInv, Lived, Employed, Followed, OwnType, DaemonTypeOK
<1> QED BY <1>1, DaemonInvariant, PTL

(* What the connection manager guarantees by itself it guarantees in the   *)
(* process around it as well, which writes the same rows: one reconnection *)
(* at a time, and no session after disconnect or a revocation.             *)
THEOREM DaemonConnection ==
  DaemonSpec => [](OneReconnection /\ StoppedStaysStopped /\ RevokedStaysDown)
<1>1. DaemonInv => OneReconnection
  BY DEF DaemonInv, SInv, Reconnects, OneLive, Exclusive, TriedAgain, OneReconnection
<1>2. DaemonInv => StoppedStaysStopped
  BY DEF DaemonInv, SInv, IInv, Quiet, StoppedStaysStopped
<1>3. DaemonInv => RevokedStaysDown
  BY DEF DaemonInv, SInv, Reconnects, RevokedQuiet, RevokedStaysDown
<1> QED BY <1>1, <1>2, <1>3, DaemonInvariant, PTL

(* The socket that disconnect ends is the only one there is, and none is   *)
(* left when it is done (connection-manager.ts:110).                       *)
THEOREM OrphansNone == DaemonSpec => []NoOrphanedSession
<1>1. DaemonInv => NoOrphanedSession
  BY DEF DaemonInv, SInv, IInv, Quiet, Reconnects, OneLive, Lived, Phased, NoneEnding, Ended,
     Session, NoOrphanedSession
<1> QED BY <1>1, DaemonInvariant, PTL

(* The controller listens to the socket the manager has for as long as the *)
(* worker may run, and to none once the process ends (daemon.ts:92).       *)
THEOREM FollowsSocket == DaemonSpec => []ControllerFollows
<1>1. DaemonInv => ControllerFollows
  BY NoSession DEF DaemonInv, Lived, Phased, Followed, Polling, Ended, ControllerFollows
<1> QED BY <1>1, DaemonInvariant, PTL

(* A daemon that is not to be restarted exits clean only with a reason,    *)
(* and one that was refused never exits so that it is restarted: what      *)
(* Restart=on-failure needs of runDaemon's result (daemon.ts:133).         *)
THEOREM ExitsHonestly == DaemonSpec => []ExitTellsSupervisor
<1>1. DaemonInv => ExitTellsSupervisor
  BY DEF DaemonInv, Told, Leaving, Excused, ExitTellsSupervisor
<1> QED BY <1>1, DaemonInvariant, PTL

-----------------------------------------------------------------------------
(* The refinement.                                                         *)

(* But for a disconnect that was cut short, the manager knows the session. *)
LEMMA SessionKnown == SInv /\ client # "cut" => (Session <=> socket # NoSocket)
BY DEF SInv, IInv, TypeOK, Reconnects, OneLive, Session, Socket, NoSocket

LEMMA SessionStillKnown == (SInv /\ client # "cut" => (Session <=> socket # NoSocket))'
BY SessionKnown, PTL

(* What a step does to the session it does to the manager's socket.        *)
LEMMA SessionMoves ==
  ASSUME SInv, SInv', client # "cut", client' # "cut"
  PROVE  /\ Session <=> socket # NoSocket
         /\ Session' <=> socket' # NoSocket
         /\ socket' = socket => Session' = Session
         /\ socket' \in {socket, NoSocket} => Session' \in {Session, FALSE}
<1>1. Session <=> socket # NoSocket
  BY SessionKnown
<1>2. Session' <=> socket' # NoSocket
  BY SessionStillKnown
<1>3. Session \in BOOLEAN /\ Session' \in BOOLEAN
  BY DEF Session
<1> QED BY <1>1, <1>2, <1>3

(* A step that leaves the sockets alone leaves the session alone.          *)
LEMMA SessionStays == UNCHANGED phase => Session' = Session
BY DEF Session

LEMMA LifeStarts == DaemonInit => Promise!Init
BY DEF DaemonInit, Init, Promise!Init, Life, Session

LEMMA StartsPromised ==
  ASSUME DaemonInv, Starts
  PROVE  [Promise!Next]_(Promise!vars)
<1> /\ ~inFlight /\ ~halt /\ worker = "none"
  BY DEF DaemonInv, Lived, Employed, Starting, Starts, StartConnecting, AuthMissing, StartDry,
     Refreshed, RegisterFails
<1>1. CASE StartConnecting
  <2>1. Session' \in BOOLEAN
    BY DEF Session
  <2> QED BY <1>1, <2>1 DEF StartConnecting, Connect, Life, Promise!Next, Promise!Session
<1>2. CASE AuthMissing
  <2>1. Session' = Session
    BY <1>2, SessionStays DEF AuthMissing
  <2> QED BY <1>2, <2>1 DEF AuthMissing, Life, Promise!Next, Promise!End
<1>3. CASE StartDry \/ Refreshed
  <2>1. /\ step \in {"starting", "refreshing"} /\ step' = "running"
        /\ UNCHANGED <<inFlight, halt>> /\ Session' = Session
    BY <1>3, SessionStays DEF StartDry, Refreshed, Serve, vars
  <2> QED BY <2>1 DEF Life, Promise!Next, Promise!Serve
<1>4. CASE RegisterFails
  <2>1. /\ step = "refreshing" /\ step' \in {"joining", "stuck"} /\ UNCHANGED inFlight
        /\ Session' = Session
    BY <1>4, SessionStays DEF RegisterFails, vars
  <2> QED BY <2>1 DEF Life, Promise!Next, Promise!End, Promise!Strand
<1> QED BY <1>1, <1>2, <1>3, <1>4 DEF Starts

LEMMA WorksPromised ==
  ASSUME DaemonInv, Works
  PROVE  [Promise!Next]_(Promise!vars)
<1>1. CASE Poll \/ PutBack \/ WorkerEnds \/ WorkerFails
  <2>1. UNCHANGED <<step, halt, inFlight>> /\ Session' = Session
    BY <1>1, SessionStays DEF Poll, PutBack, WorkerEnds, WorkerFails, vars
  <2> QED BY <2>1 DEF Life, Promise!vars
<1>2. CASE WorkerSends
  <2>1. step = "running" /\ ~halt /\ socket # NoSocket /\ client # "cut" /\ ~inFlight
    BY <1>2 DEF WorkerSends, SendBegins, DaemonInv, Lived, Employed, Polling
  <2>2. inFlight' = TRUE /\ UNCHANGED <<step, halt>> /\ Session' = Session
    BY <1>2, SessionStays DEF WorkerSends, SendBegins
  <2>3. Session
    BY <2>1, SessionKnown DEF DaemonInv
  <2> QED BY <2>1, <2>2, <2>3 DEF Life, Promise!Next, Promise!BeginSend
<1>3. CASE WorkerAnswered
  <2>1. /\ step \in {"running", "stopping"} /\ inFlight /\ inFlight' = FALSE
        /\ UNCHANGED step /\ halt' \in {halt, TRUE} /\ (halt => halt')
        /\ Session' = Session
    BY <1>3, SessionStays
       DEF WorkerAnswered, SendEnds, DaemonInv, Lived, OwnType, Employed, Polling
  <2> QED BY <2>1 DEF Life, Promise!Next, Promise!EndSend
<1> QED BY <1>1, <1>2, <1>3 DEF Works

LEMMA EndsPromised ==
  ASSUME DaemonInv, SInv', Ends
  PROVE  [Promise!Next]_(Promise!vars)
<1>1. inFlight => step \in {"running", "stopping"}
  BY DEF DaemonInv, Lived, Employed, Polling
<1>2. CASE Leave
  <2>1. /\ step \in {"running", "stopping"} /\ ~inFlight
        /\ step' \in {"joining", "stuck"} /\ UNCHANGED inFlight
        /\ Session' = Session
    BY <1>2, SessionStays
       DEF Leave, WorkerOver, Finally, Polling, vars, DaemonInv, Lived, Employed
  <2> QED BY <2>1 DEF Life, Promise!Next, Promise!End, Promise!Strand, Promise!vars
<1>3. CASE OperationEnds \/ OperationLoggedOut
  <2>1. /\ step = "running" /\ ~halt /\ step' = "joining" /\ inFlight' = inFlight
        /\ socket' \in {socket, NoSocket} /\ client # "cut" /\ client' # "cut"
    BY <1>3 DEF OperationEnds, OperationLoggedOut, LoggedOut, LogoutFails, Forget, vars,
       DaemonInv, Lived, Phased, Employed
  <2>2. Session' \in {Session, FALSE}
    BY <2>1, SessionMoves DEF DaemonInv
  <2> QED BY <2>1, <2>2 DEF Life, Promise!Next, Promise!End
<1>4. CASE OperationLogsOut
  <2>1. /\ step = "running" /\ ~halt /\ UNCHANGED <<halt, inFlight>>
        /\ client # "cut" /\ client' # "cut"
        /\ socket' \in {socket, NoSocket} /\ (client' # "leaving" => socket' = socket)
    BY <1>4 DEF OperationLogsOut, Logout, Forget, DaemonInv, Lived, Employed
  <2>2. Session' \in {Session, FALSE} /\ (client' # "leaving" => Session' = Session)
    BY <2>1, SessionMoves DEF DaemonInv
  <2>3. CASE client' = "leaving"
    BY <1>4, <2>1, <2>2, <2>3 DEF OperationLogsOut, Life, Promise!Next, Promise!End
  <2>4. CASE client' # "leaving"
    BY <1>4, <2>1, <2>2, <2>4 DEF OperationLogsOut, Life, Promise!vars
  <2> QED BY <2>3, <2>4
<1>5. CASE StartDisconnecting
  <2>1. step = "joining" /\ step' = "disconnecting" /\ UNCHANGED inFlight
        /\ client # "cut" /\ client' # "cut" /\ socket' = NoSocket
    BY <1>5 DEF StartDisconnecting, Disconnect
  <2>2. Session' = FALSE
    BY <2>1, SessionMoves DEF DaemonInv
  <2> QED BY <1>1, <2>1, <2>2 DEF Life, Promise!Next, Promise!Close
<1>6. CASE Exit
  <2>1. step \in {"joining", "disconnecting"} /\ client \in {"new", "closing"} /\ step' = "exited"
        /\ client' # "cut" /\ UNCHANGED <<socket, inFlight>>
    BY <1>6 DEF Exit, Disconnected, vars
  <2>2. socket = NoSocket
    BY <2>1, NoSession DEF DaemonInv, Ended
  <2>3. ~Session /\ Session' = Session
    BY <2>1, <2>2, SessionMoves DEF DaemonInv
  <2> QED BY <1>1, <2>1, <2>3 DEF Life, Promise!Next, Promise!Exit
<1>7. CASE DisconnectFails \/ ListenerThrows
  <2>1. /\ step \in {"joining", "disconnecting"} /\ step' = "stuck" /\ UNCHANGED inFlight
        /\ Session' = Session
    BY <1>7, SessionStays DEF DisconnectFails, ListenerThrows, DisconnectCut, vars
  <2> QED BY <1>1, <2>1 DEF Life, Promise!Next, Promise!Strand
<1>8. CASE Drain
  <2>1. ~Session /\ step = "stuck" /\ step' = "exited" /\ UNCHANGED inFlight
    BY <1>8 DEF Drain, Drained, Session, vars
  <2>2. Session' = Session
    BY <1>8, SessionStays DEF Drain, vars
  <2> QED BY <1>1, <2>1, <2>2 DEF Life, Promise!Next, Promise!Exit
<1> QED BY <1>2, <1>3, <1>4, <1>5, <1>6, <1>7, <1>8 DEF Ends

LEMMA NetworkPromised ==
  ASSUME DaemonInv, SInv', Network
  PROVE  [Promise!Next]_(Promise!vars)
<1>1. Net /\ SInv
  BY DEF Network, Meanwhile, Net, DaemonInv
<1>2. Awaited /\ step \notin {"joining", "exited"} /\ halt' = halt
  BY DEF Network, Meanwhile
<1>3. CASE client' = client
  <2>1. UNCHANGED <<step, halt, inFlight>> /\ (Ended => socket' = socket)
    BY <1>1, <1>2, <1>3, NetEffects DEF Awaited
  <2>2. Life' = Life
    BY <2>1 DEF Life
  <2>3. CASE step = "disconnecting"
    <3>1. client = "closing"
      BY <2>3 DEF DaemonInv, Lived, Phased
    <3>2. Session' = Session
      BY <1>1, <1>3, <2>1, <3>1, SessionMoves DEF Ended
    <3> QED BY <2>1, <2>2, <3>2 DEF Promise!vars
  <2>4. CASE step # "disconnecting"
    <3>1. Life \in {"starting", "serving", "ending", "stranded"}
      BY <1>2, <2>4 DEF Life, DaemonInv, OwnType
    <3>2. Session' \in BOOLEAN
      BY DEF Session
    <3> QED BY <2>1, <2>2, <3>1, <3>2 DEF Promise!Next, Promise!Session
  <2> QED BY <2>3, <2>4
<1>4. CASE client = "connecting" /\ client' \in {"serving", "leaving"}
  <2>1. step = "connecting" /\ ~halt /\ inFlight' = inFlight /\ halt' = halt
    BY <1>1, <1>2, <1>4, NetEffects DEF DaemonInv, Lived, Phased, Employed, Starting
  <2>2. CASE client' = "serving"
    <3>1. Session' = Session
      BY <1>1, <1>4, <2>2, NetEffects, SessionMoves
    <3> QED BY <1>2, <1>4, <2>1, <2>2, <3>1 DEF Awaited, Life, Promise!Next, Promise!Serve,
              Promise!vars
  <2>3. CASE client' = "leaving"
    <3>1. Session' \in {Session, FALSE}
      BY <1>1, <1>4, <2>3, NetEffects, SessionMoves
    <3> QED BY <1>2, <1>4, <2>1, <2>3, <3>1 DEF Awaited, Life, Promise!Next, Promise!End
  <2> QED BY <1>4, <2>2, <2>3
<1> QED BY <1>1, <1>3, <1>4, NetEffects

LEMMA LifeSteps ==
  DaemonInv /\ [DaemonNext]_daemonVars => [Promise!Next]_(Promise!vars)
<1> SUFFICES ASSUME DaemonInv, [DaemonNext]_daemonVars PROVE [Promise!Next]_(Promise!vars)
  OBVIOUS
<1>0. SInv'
  BY ConnectionKept DEF DaemonInv, Lived
<1>1. CASE Signal
  <2>0. Session' = Session
    BY <1>1, SessionStays DEF Signal, vars
  <2>1. CASE step = "running" /\ ~halt
    BY <1>1, <2>0, <2>1 DEF Signal, RequestStop, vars, Life, Promise!Next, Promise!End
  <2>2. CASE step = "running" /\ halt
    BY <1>1, <2>0, <2>2 DEF Signal, RequestStop, vars, Life, Promise!vars
  <2>3. CASE step # "running"
    BY <1>1, <2>0, <2>3 DEF Signal, vars, Life, Promise!vars
  <2> QED BY <2>1, <2>2, <2>3
<1>2. CASE PairingGivesUp
  <2>1. Session' = Session
    BY <1>2, SessionStays DEF PairingGivesUp, PairingFails
  <2> QED BY <1>2, <2>1 DEF PairingGivesUp, PairingFails, DaemonInv, Lived, Phased, Life,
            Promise!Next, Promise!End
<1>3. CASE LocalLogout
  BY <1>3, SessionStays DEF LocalLogout, Life, Promise!vars
<1>4. CASE UNCHANGED daemonVars
  BY <1>4, SessionStays DEF daemonVars, vars, Life, Promise!vars
<1> QED
  BY <1>0, <1>1, <1>2, <1>3, <1>4, StartsPromised, WorksPromised, EndsPromised, NetworkPromised
     DEF DaemonNext

(* The daemon lives as ServiceLife promises: it sends only while it serves *)
(* over a session that is there, its last send is over before it closes    *)
(* the session, and the session before it is gone (daemon.ts runDaemon,    *)
(* its race, its finally block and withConnectedManager).                  *)
THEOREM Promised == DaemonSpec => ImplementsServiceLife
BY LifeStarts, LifeSteps, DaemonInvariant, PTL DEF DaemonSpec, ImplementsServiceLife, Promise!Spec

-----------------------------------------------------------------------------
(* The worker of this process and its abstract life.                       *)

(* A step that leaves the worker alone, while it has not come or is over,  *)
(* or that tells it to stop.                                               *)
LEMMA WorkerApart ==
  ASSUME worker' = worker, worker \in {"none", "ended", "failed"} \/ halt' \in {halt, TRUE}
  PROVE  [Loop!Next]_(Loop!vars)
<1>1. Place' = Place
  BY DEF Place
<1>2. CASE worker \in {"none", "ended", "failed"}
  BY <1>1, <1>2 DEF Loop!vars, Place
<1>3. CASE halt' = halt
  BY <1>1, <1>3 DEF Loop!vars
<1>4. CASE halt' = TRUE /\ worker \notin {"none", "ended", "failed"}
  <2>1. CASE Place = "away"
    BY <1>1, <2>1 DEF Loop!vars
  <2>2. CASE Place # "away"
    BY <1>1, <1>4, <2>2 DEF Loop!Next, Loop!Tell
  <2> QED BY <2>1, <2>2
<1> QED BY <1>2, <1>3, <1>4

LEMMA StartsWorker ==
  ASSUME DaemonInv, Starts
  PROVE  [Loop!Next]_(Loop!vars)
<1>1. worker = "none" /\ ~halt
  BY DEF DaemonInv, Lived, Employed, Starting, Starts, StartConnecting, AuthMissing, StartDry,
     Refreshed, RegisterFails
<1>2. CASE StartConnecting \/ AuthMissing \/ RegisterFails
  BY <1>1, <1>2, WorkerApart DEF StartConnecting, AuthMissing, RegisterFails
<1>3. CASE StartDry \/ Refreshed
  <2>1. worker' = "idle" /\ ~halt'
    BY <1>1, <1>3 DEF StartDry, Refreshed, Serve
  <2> QED BY <1>1, <2>1 DEF Loop!Next, Loop!Start, Place
<1> QED BY <1>2, <1>3 DEF Starts

LEMMA WorksWorker ==
  ASSUME DaemonInv, Works
  PROVE  [Loop!Next]_(Loop!vars)
<1>0. halt \in BOOLEAN
  BY DEF DaemonInv, OwnType
<1>1. CASE Poll
  BY <1>1 DEF Poll, Loop!Next, Loop!Take, Place
<1>2. CASE PutBack
  BY <1>2 DEF PutBack, Loop!Next, Loop!PutBack, Place
<1>3. CASE WorkerSends
  BY <1>3 DEF WorkerSends, Loop!Next, Loop!Send, Place
<1>4. CASE WorkerAnswered
  <2>1. worker = "sending" /\ halt' \in {halt, TRUE}
    BY <1>0, <1>4 DEF WorkerAnswered, SendEnds, DaemonInv, Lived, Employed
  <2>2. CASE worker' = "idle"
    <3>1. Place = "sending" /\ Place' = "idle"
      BY <2>1, <2>2 DEF Place
    <3>2. (halt /\ Place # "away")' \in {halt /\ Place # "away", TRUE}
      BY <1>0, <2>1, <3>1
    <3> QED BY <3>1, <3>2 DEF Loop!Next, Loop!Answer
  <2>3. CASE worker' = "failed"
    BY <2>1, <2>3 DEF Loop!Next, Loop!Leave, Place
  <2> QED BY <1>4, <2>2, <2>3 DEF WorkerAnswered
<1>5. CASE WorkerEnds
  BY <1>5 DEF WorkerEnds, Loop!Next, Loop!Leave, Place
<1>6. CASE WorkerFails
  BY <1>6 DEF WorkerFails, Loop!Next, Loop!Leave, Place
<1> QED BY <1>1, <1>2, <1>3, <1>4, <1>5, <1>6 DEF Works

LEMMA EndsWorker ==
  ASSUME Ends
  PROVE  [Loop!Next]_(Loop!vars)
<1>1. CASE Leave
  BY <1>1, WorkerApart DEF Leave, WorkerOver
<1>2. CASE OperationEnds \/ OperationLogsOut \/ OperationLoggedOut
  BY <1>2, WorkerApart DEF OperationEnds, OperationLogsOut, OperationLoggedOut
<1>3. CASE StartDisconnecting \/ ListenerThrows \/ Exit \/ DisconnectFails \/ Drain
  BY <1>3, WorkerApart DEF StartDisconnecting, ListenerThrows, Exit, DisconnectFails, Drain
<1> QED BY <1>1, <1>2, <1>3 DEF Ends

(* The worker that the process starts, tells to stop and awaits lives as   *)
(* WorkerLife promises, the same life that Delivery's worker lives: it is  *)
(* there once the signal handlers are, and takes nothing and sends nothing *)
(* after its flag is set (daemon.ts:101).                                  *)
THEOREM DaemonWorkerLives == DaemonSpec => ImplementsWorkerLife
<1>1. DaemonInit => Loop!Init
  BY DEF DaemonInit, Loop!Init, Place
<1>2. DaemonInv /\ [DaemonNext]_daemonVars => [Loop!Next]_(Loop!vars)
  <2> SUFFICES ASSUME DaemonInv, [DaemonNext]_daemonVars PROVE [Loop!Next]_(Loop!vars)
    OBVIOUS
  <2>1. CASE Signal
    BY <2>1, WorkerApart DEF Signal, RequestStop
  <2>2. CASE Network
    BY <2>2, WorkerApart DEF Network, Meanwhile
  <2>3. CASE PairingGivesUp \/ LocalLogout
    BY <2>3, WorkerApart DEF PairingGivesUp, LocalLogout
  <2>4. CASE UNCHANGED daemonVars
    BY <2>4, WorkerApart DEF daemonVars
  <2> QED BY <2>1, <2>2, <2>3, <2>4, StartsWorker, WorksWorker, EndsWorker DEF DaemonNext
<1> QED BY DaemonInvariant, <1>1, <1>2, PTL DEF DaemonSpec, ImplementsWorkerLife, Loop!Spec
=============================================================================
