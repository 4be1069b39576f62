------------------------------ MODULE QueueProofs ------------------------------
(***************************************************************************)
(* What the queue promises of a live job: how often its message is         *)
(* delivered and attempted, in whose hands it is, and what brings it out   *)
(* of quarantine; and that dry-run and live work never mix.                *)
(***************************************************************************)
EXTENDS DeliveryProofs

Live == Job \ DryJob

(* A worker has a job only past its claim (a CLI process its own before),  *)
(* an answer only while it sends, and no flag set where its code cannot be *)
(* interrupted; a dry-run worker has a dry-run job.                        *)
WorkInv ==
  /\ \A w \in Worker : accepted[w] => pc[w] \in {"sending", "refusing"}
  /\ \A w \in Worker : IsDry(w) => cur[w] \in DryJob \cup {NoJob}
  /\ pc[Daemon] \notin Busy => cur[Daemon] = NoJob
  /\ pc[Daemon] \in {"lapsed", "polled", "cleared"} => ~stopping

LEMMA WorkersKeep ==
  ASSUME WorkInv, UNCHANGED workers
  PROVE  WorkInv'
BY DEF WorkInv, workers, IsDry, Busy

(* The end of a round.                                                     *)
LEMMA ReleaseKeeps ==
  ASSUME WorkerAssumption, WorkersType, WorkInv, NEW w \in Worker, NEW p \in {"idle", "off"},
         Release(w, p), dryRun' = dryRun, w # Daemon => stopping' = stopping
  PROVE  WorkInv'
<1>1. /\ pc'[w] = p /\ cur'[w] = NoJob /\ accepted'[w] = FALSE
      /\ \A v \in Worker \ {w} :
           pc'[v] = pc[v] /\ cur'[v] = cur[v] /\ accepted'[v] = accepted[v]
  BY DEF Release, WorkersType
<1>2. CASE w = Daemon
  BY <1>1, <1>2 DEF WorkInv, IsDry, Worker
<1>3. CASE w # Daemon
  BY <1>1, <1>3 DEF WorkInv, IsDry, Worker
<1> QED BY <1>2, <1>3

LEMMA EndKeeps ==
  ASSUME WorkerAssumption, WorkersType, WorkInv, NEW w \in Worker, Rest(w) \/ Die(w)
  PROVE  WorkInv'
<1>1. stopping \in BOOLEAN
  BY DEF WorkersType
<1>2. CASE Rest(w)
  BY <1>2, ReleaseKeeps DEF Rest
<1>3. CASE Die(w)
  BY <1>1, <1>3, ReleaseKeeps DEF Die
<1> QED BY <1>2, <1>3

(* Only the daemon sends, so only it loses its login.                      *)
LEMMA DaemonPauses ==
  ASSUME NEW w \in Worker, NEW e, PauseForLogin(w, e)
  PROVE  w = Daemon /\ ~Simulated(w)
<1>1. e \in AuthErrors
  BY DEF PauseForLogin, Decision, DecideRetry
<1>2. e # "UNKNOWN_TRANSIENT"
  BY <1>1 DEF AuthErrors
<1> QED BY <1>2 DEF PauseForLogin, Errors, Simulated, IsDry, Worker

LEMMA ProcessKeeps ==
  ASSUME WorkerAssumption, WorkersType, WorkInv, NEW w \in Worker, Process(w)
  PROVE  WorkInv'
<1>1. CASE LapsePause(w) \/ Poll(w)
  <2>1. PICK p \in {"lapsed", "polled"} : pc' = [pc EXCEPT ![w] = p]
    BY <1>1 DEF LapsePause, Poll
  <2>2. /\ UNCHANGED <<cur, accepted, stopping, dryRun>> /\ pc[w] \in {"idle", "lapsed"}
        /\ w = Daemon => ~stopping
    BY <1>1 DEF LapsePause, Poll, Unpaused, Stopping, WorkInv
  <2>3. pc'[w] = p /\ \A v \in Worker \ {w} : pc'[v] = pc[v]
    BY <2>1 DEF WorkersType
  <2> QED BY <2>2, <2>3 DEF WorkInv, IsDry, Busy, Worker
<1>2. CASE NothingToClaim(w) \/ AbandonBeforeSend(w) \/ RefuseBeforeSend(w)
  BY <1>2, EndKeeps DEF NothingToClaim, AbandonBeforeSend, RefuseBeforeSend, Settle
<1>3. ASSUME NEW j \in Job, Claim(w, j) PROVE WorkInv'
  BY <1>3 DEF Claim, Claimable, WorkInv, WorkersType, IsDry, Busy
<1>4. CASE Recheck(w) \/ BeginSend(w)
  <2>1. PICK p \in {"cleared", "dropping", "sending"} :
          pc' = [pc EXCEPT ![w] = p] /\ (p = "cleared" /\ w = Daemon => ~stopping)
    BY <1>4 DEF Recheck, BeginSend, Stopping
  <2>2. UNCHANGED <<cur, accepted, stopping, dryRun>> /\ pc[w] \in {"claimed", "cleared"}
    BY <1>4 DEF Recheck, BeginSend
  <2>3. pc'[w] = p /\ \A v \in Worker \ {w} : pc'[v] = pc[v]
    BY <2>1 DEF WorkersType
  <2> QED BY <2>1, <2>2, <2>3 DEF WorkInv, IsDry, Busy, Worker
<1> QED BY <1>1, <1>2, <1>3, <1>4 DEF Process

LEMMA SendKeeps ==
  ASSUME WorkerAssumption, WorkersType, WorkInv, NEW w \in Worker,
         WhatsAppAccepts(w) \/ Finish(w)
  PROVE  WorkInv'
<1>1. CASE WhatsAppAccepts(w)
  BY <1>1 DEF WhatsAppAccepts, WorkInv, WorkersType, IsDry, Busy
<1>2. CASE SendSucceeds(w) \/ SendFails(w)
  BY <1>2, EndKeeps DEF SendSucceeds, SendFails, Settle
<1>3. ASSUME NEW e \in ErrorClass, RetryLater(w, e) \/ RateLimited(w, e) PROVE WorkInv'
  BY <1>3, EndKeeps DEF RetryLater, RateLimited, Settle
<1>4. ASSUME NEW e \in ErrorClass, PauseForLogin(w, e) PROVE WorkInv'
  BY <1>4, DaemonPauses, EndKeeps, ReleaseKeeps DEF PauseForLogin
<1>5. ASSUME NEW e \in ErrorClass, RevokeDestination(w, e) PROVE WorkInv'
  BY <1>5 DEF RevokeDestination, WorkInv, WorkersType, IsDry, Busy
<1> QED BY <1>1, <1>2, <1>3, <1>4, <1>5 DEF Finish

LEMMA DaemonKeeps ==
  ASSUME WorkerAssumption, WorkersType, WorkInv, DaemonLife
  PROVE  WorkInv'
<1> Daemon \in Worker
  BY DEF Worker
<1>1. CASE StartDaemon
  <2>1. PICK p \in {"idle", "connecting"} : pc' = [pc EXCEPT ![Daemon] = p]
    BY <1>1 DEF StartDaemon
  <2>2. cur[Daemon] = NoJob /\ ~accepted[Daemon]
    BY <1>1 DEF StartDaemon, WorkInv, Busy
  <2>3. UNCHANGED <<cur, snap, accepted, stopping>>
    BY <1>1 DEF StartDaemon
  <2>4. \A w \in Worker \ {Daemon} : pc'[w] = pc[w] /\ w \in Cli
    BY <2>1 DEF WorkersType, Worker
  <2>5. pc'[Daemon] = p
    BY <2>1 DEF WorkersType
  <2> QED BY <2>2, <2>3, <2>4, <2>5 DEF WorkInv, IsDry, Busy
<1>2. CASE StopDaemon \/ Login \/ Logout
  BY <1>2, WorkersKeep DEF StopDaemon, Login, Logout, WorkInv, IsDry
<1>3. CASE DaemonExits
  BY <1>3, EndKeeps DEF DaemonExits
<1>4. CASE ConnectionOpens
  BY <1>4 DEF ConnectionOpens, WorkInv, WorkersType, IsDry, Busy
<1>5. ASSUME NEW reason, ConnectFails(reason) PROVE WorkInv'
  BY <1>5 DEF ConnectFails, WorkInv, WorkersType, IsDry, Busy
<1>6. ASSUME NEW reason, ConnectionEnds(reason) PROVE WorkInv'
  BY <1>6, WorkersKeep DEF ConnectionEnds
<1>7. ASSUME NEW w \in Worker, Crash(w) PROVE WorkInv'
  BY <1>7, EndKeeps DEF Crash
<1> QED BY <1>1, <1>2, <1>3, <1>4, <1>5, <1>6, <1>7 DEF DaemonLife

LEMMA NextKeeps ==
  ASSUME WorkerAssumption, WorkersType, WorkInv, [Next]_vars
  PROVE  WorkInv'
<1>1. ASSUME NEW j \in Job, Enqueue(j) PROVE WorkInv'
  <2>1. CASE CheckDestination(j) \/ Insert(j) \/ DropEnqueue(j)
    BY <2>1, WorkersKeep DEF CheckDestination, Insert, DropEnqueue
  <2>2. ASSUME NEW w \in Cli, InsertAndSimulate(w, j) PROVE WorkInv'
    BY <2>2 DEF InsertAndSimulate, WorkInv, WorkersType, IsDry, Busy, Worker, WorkerAssumption
  <2> QED BY <1>1, <2>1, <2>2 DEF Enqueue
<1>2. CASE Operate
  BY <1>2, WorkersKeep DEF Operate, Allow, Deny, Refresh, Cancel, Retry, MarkSent
<1>3. CASE Time
  BY <1>3, WorkersKeep DEF Time, ElapsePause, Elapse
<1>4. CASE UNCHANGED vars
  BY <1>4, WorkersKeep DEF vars
<1> QED BY <1>1, <1>2, <1>3, <1>4, ProcessKeeps, SendKeeps, DaemonKeeps DEF Next

-----------------------------------------------------------------------------
(* What becomes of a row.                                                  *)

(* A worker's hold on k, at the end of its round, tells only on row k.     *)
LEMMA SettleTouches ==
  ASSUME RowsType, NEW w \in Worker, NEW s, NEW q, Settle(w, s, q), NEW j \in Job,
         status'[j] # status[j]
  PROVE  /\ cur[w] = j /\ status'[j] = s /\ CanMove(j, s)
         /\ Rest(w) /\ UNCHANGED attempts
BY DEF Settle, RowsType, rows

LEMMA CancelTouches ==
  ASSUME NEW J, CancelUnsent(J), NEW j \in Job, status'[j] # status[j]
  PROVE  status[j] \in Unsent /\ status'[j] = "CANCELLED"
BY DEF CancelUnsent

(* A row becomes SENT or DRY_RUN by a send, or by mark-sent.               *)
LEMMA OutcomeComes ==
  ASSUME RowsType, NEW j \in Job, [Next]_vars,
         status'[j] # status[j], status'[j] \in {"SENT", "DRY_RUN"}
  PROVE  \/ MarkSent(j) /\ status'[j] = "SENT"
         \/ \E w \in Worker : /\ SendSucceeds(w) /\ cur[w] = j
                             /\ status'[j] = IF Simulated(w) THEN "DRY_RUN" ELSE "SENT"
<1> DEFINE Claimed == \/ MarkSent(j) /\ status'[j] = "SENT"
                      \/ \E w \in Worker :
                           /\ SendSucceeds(w) /\ cur[w] = j
                           /\ status'[j] = IF Simulated(w) THEN "DRY_RUN" ELSE "SENT"
<1>1. ASSUME NEW i \in Job, Enqueue(i) PROVE FALSE
  BY <1>1 DEF Enqueue, CheckDestination, Insert, DropEnqueue, InsertAndSimulate, InsertRow, rows,
              RowsType
<1>2. CASE Operate
  <2>1. ASSUME NEW J, CancelUnsent(J) PROVE FALSE
    BY <2>1, CancelTouches
  <2>2. ASSUME NEW i \in Job, Cancel(i) \/ Retry(i) \/ MarkSent(i) PROVE Claimed
    BY <2>2 DEF Cancel, Retry, MarkSent, RowsType
  <2> QED BY <1>2, <2>1, <2>2 DEF Operate, Allow, Deny, Refresh, rows
<1>3. ASSUME NEW w \in Worker, Process(w) PROVE FALSE
  <2>1. CASE Poll(w)
    BY <2>1 DEF Poll, Housekept
  <2>2. ASSUME NEW i \in Job, Claim(w, i) PROVE FALSE
    BY <2>2 DEF Claim, RowsType
  <2>3. CASE LapsePause(w) \/ NothingToClaim(w) \/ Recheck(w) \/ BeginSend(w)
    BY <2>3 DEF LapsePause, NothingToClaim, Recheck, BeginSend, rows
  <2>4. CASE AbandonBeforeSend(w) \/ RefuseBeforeSend(w)
    BY <2>4, SettleTouches DEF AbandonBeforeSend, RefuseBeforeSend
  <2> QED BY <1>3, <2>1, <2>2, <2>3, <2>4 DEF Process
<1>4. ASSUME NEW w \in Worker, WhatsAppAccepts(w) \/ Finish(w) PROVE Claimed
  <2>1. CASE WhatsAppAccepts(w)
    BY <2>1 DEF WhatsAppAccepts, rows
  <2>2. CASE SendSucceeds(w)
    BY <2>2 DEF SendSucceeds, RowsType
  <2>3. CASE SendFails(w)
    BY <2>3, SettleTouches DEF SendFails
  <2>4. ASSUME NEW e \in ErrorClass, RetryLater(w, e) \/ RateLimited(w, e) PROVE FALSE
    BY <2>4, SettleTouches DEF RetryLater, RateLimited
  <2>5. ASSUME NEW e \in ErrorClass, PauseForLogin(w, e) PROVE FALSE
    BY <2>5 DEF PauseForLogin, RowsType
  <2>6. ASSUME NEW e \in ErrorClass, RevokeDestination(w, e) PROVE FALSE
    BY <2>6, CancelTouches DEF RevokeDestination
  <2> QED BY <1>4, <2>1, <2>2, <2>3, <2>4, <2>5, <2>6 DEF Finish
<1>5. CASE DaemonLife \/ Time \/ UNCHANGED vars
  BY <1>5 DEF DaemonLife, Time, StopDaemon, DaemonExits, ConnectionOpens, Login, Logout,
     ConnectFails, ConnectionEnds, Crash, ElapsePause, Elapse, rows, vars, StartDaemon, Recovered
<1> QED BY <1>1, <1>2, <1>3, <1>4, <1>5 DEF Next

(* A delivery is a send of the worker that holds the job.                  *)
LEMMA DeliveryComes ==
  ASSUME HistoryType, NEW j \in Job, [Next]_vars, delivered'[j] # delivered[j]
  PROVE  \E w \in Worker : /\ WhatsAppAccepts(w) /\ cur[w] = j
                          /\ delivered'[j] = delivered[j] + 1
<1>1. ASSUME NEW i \in Job, Enqueue(i) PROVE FALSE
  BY <1>1 DEF Enqueue, CheckDestination, Insert, DropEnqueue, InsertAndSimulate, history
<1>2. CASE Operate
  BY <1>2 DEF Operate, Allow, Deny, Refresh, Cancel, Retry, MarkSent, history
<1>3. ASSUME NEW w \in Worker, Process(w) PROVE FALSE
  BY <1>3 DEF Process, LapsePause, Poll, Claim, NothingToClaim, AbandonBeforeSend, RefuseBeforeSend, Recheck, BeginSend,
              history
<1>4. ASSUME NEW w \in Worker, Finish(w) PROVE FALSE
  BY <1>4 DEF Finish, SendSucceeds, SendFails, RetryLater, RateLimited, PauseForLogin,
              RevokeDestination, history
<1>5. CASE DaemonLife
  BY <1>5 DEF DaemonLife, StartDaemon, StopDaemon, DaemonExits, ConnectionOpens, Login, Logout,
              ConnectFails, ConnectionEnds, Crash, history
<1>6. CASE Time \/ UNCHANGED vars
  BY <1>6 DEF Time, ElapsePause, Elapse, vars, history
<1>7. PICK w \in Worker : WhatsAppAccepts(w)
  BY <1>1, <1>2, <1>3, <1>4, <1>5, <1>6 DEF Next
<1> QED BY <1>7 DEF WhatsAppAccepts, HistoryType

LEMMA MarksStay == ASSUME [Next]_vars PROVE marked \subseteq marked'
<1>1. ASSUME NEW i \in Job, Enqueue(i) PROVE marked \subseteq marked'
  BY <1>1 DEF Enqueue, CheckDestination, Insert, DropEnqueue, InsertAndSimulate, history
<1>2. CASE Operate
  BY <1>2 DEF Operate, Allow, Deny, Refresh, Cancel, Retry, MarkSent, history
<1>3. ASSUME NEW w \in Worker, Process(w) \/ WhatsAppAccepts(w) PROVE marked \subseteq marked'
  BY <1>3 DEF Process, LapsePause, Poll, Claim, NothingToClaim, AbandonBeforeSend, RefuseBeforeSend, Recheck, BeginSend,
              WhatsAppAccepts, history
<1>4. ASSUME NEW w \in Worker, Finish(w) PROVE marked \subseteq marked'
  BY <1>4 DEF Finish, SendSucceeds, SendFails, RetryLater, RateLimited, PauseForLogin,
              RevokeDestination, history
<1>5. CASE DaemonLife
  BY <1>5 DEF DaemonLife, StartDaemon, StopDaemon, DaemonExits, ConnectionOpens, Login, Logout,
              ConnectFails, ConnectionEnds, Crash, history
<1>6. CASE Time \/ UNCHANGED vars
  BY <1>6 DEF Time, ElapsePause, Elapse, vars, history
<1> QED BY <1>1, <1>2, <1>3, <1>4, <1>5, <1>6 DEF Next

-----------------------------------------------------------------------------
(* Sends are accounted for, and modes are respected.                       *)

AcceptedIsDelivered ==
  \A w \in Worker : accepted[w] => cur[w] \in Job /\ delivered[cur[w]] > 0

AccountInv ==
  /\ IInv /\ WorkInv
  /\ AcceptedIsDelivered /\ SentIsAccounted /\ ModeRespected

LEMMA DeliveredGrows ==
  ASSUME HistoryType, [Next]_vars, NEW j \in Job
  PROVE  delivered'[j] \in Nat /\ delivered[j] \in Nat /\ delivered'[j] >= delivered[j]
<1>1. delivered[j] \in Nat
  BY DEF HistoryType
<1> QED BY <1>1, DeliveryComes

(* A worker's answer is that of the job it goes on holding.                *)
LEMMA AnswerComes ==
  ASSUME WorkersType, WorkInv, [Next]_vars, NEW w \in Worker, accepted'[w]
  PROVE  \/ accepted[w] /\ cur'[w] = cur[w]
         \/ WhatsAppAccepts(w) /\ cur'[w] = cur[w]
<1> DEFINE Told == \/ accepted[w] /\ cur'[w] = cur[w]
                   \/ WhatsAppAccepts(w) /\ cur'[w] = cur[w]
<1>1. ASSUME UNCHANGED <<cur, accepted>> PROVE Told
  BY <1>1
<1>2. ASSUME NEW v \in Worker, NEW p, Release(v, p) PROVE Told
  BY <1>2 DEF Release, WorkersType
<1>3. ASSUME NEW v \in Worker, Rest(v) \/ Die(v) PROVE Told
  BY <1>2, <1>3 DEF Rest, Die
<1>4. ASSUME NEW v \in Worker, NEW s, NEW q, Settle(v, s, q) PROVE Told
  BY <1>3, <1>4 DEF Settle
<1>5. ASSUME NEW j \in Job, Enqueue(j) PROVE Told
  BY <1>1, <1>5 DEF Enqueue, CheckDestination, Insert, DropEnqueue, InsertAndSimulate, workers,
     WorkersType, WorkInv
<1>6. ASSUME NEW v \in Worker, Process(v) PROVE Told
  <2>1. ASSUME NEW j \in Job, Claim(v, j) PROVE Told
    BY <2>1 DEF Claim, WorkersType, WorkInv
  <2> QED BY <1>1, <1>3, <1>4, <1>6, <2>1 DEF Process, LapsePause, Poll, NothingToClaim, AbandonBeforeSend,
             RefuseBeforeSend, Recheck, BeginSend
<1>7. ASSUME NEW v \in Worker, WhatsAppAccepts(v) PROVE Told
  BY <1>7 DEF WhatsAppAccepts, WorkersType
<1>8. ASSUME NEW v \in Worker, Finish(v) PROVE Told
  <2>1. ASSUME NEW e, PauseForLogin(v, e) PROVE Told
    BY <2>1, <1>2, <1>3 DEF PauseForLogin
  <2> QED BY <1>1, <1>3, <1>4, <1>8, <2>1 DEF Finish, SendSucceeds, SendFails, RetryLater,
             RateLimited, RevokeDestination
<1>9. ASSUME DaemonLife PROVE Told
  <2> Daemon \in Worker
    BY DEF Worker
  <2> QED BY <1>1, <1>3, <1>9 DEF DaemonLife, StartDaemon, StopDaemon, DaemonExits,
             ConnectionOpens, Login, Logout, ConnectFails, ConnectionEnds, Crash, workers
<1>10. ASSUME Operate \/ Time \/ UNCHANGED vars PROVE Told
  BY <1>1, <1>10 DEF Operate, Allow, Deny, Refresh, Cancel, Retry, MarkSent, Time, ElapsePause,
     Elapse, vars, workers
<1> QED BY <1>5, <1>6, <1>7, <1>8, <1>9, <1>10 DEF Next

LEMMA AccountStarts == WorkerAssumption /\ JobAssumption /\ Init => AccountInv
<1> SUFFICES ASSUME Init, WorkerAssumption, JobAssumption PROVE AccountInv
  OBVIOUS
<1>1. WorkInv /\ AcceptedIsDelivered
  BY DEF Init, WorkInv, AcceptedIsDelivered, IsDry, Busy, Worker
<1>2. SentIsAccounted /\ ModeRespected
  BY DEF Init, SentIsAccounted, ModeRespected, IsDry, JobAssumption
<1> QED BY <1>1, <1>2, InitIInv DEF AccountInv

LEMMA AccountKept ==
  ASSUME WorkerAssumption, JobAssumption, AccountInv, [Next]_vars
  PROVE  AccountInv'
<1>1. RowsType /\ WorkersType /\ HistoryType /\ IInv /\ WorkInv
  BY TypeParts DEF AccountInv, IInv
<1>2. IInv' /\ WorkInv'
  BY <1>1, Inductive, NextKeeps
<1>3. AcceptedIsDelivered'
  <2> SUFFICES ASSUME NEW w \in Worker, accepted'[w]
               PROVE  cur'[w] \in Job /\ delivered'[cur'[w]] > 0
    BY DEF AcceptedIsDelivered
  <2>1. CASE accepted[w] /\ cur'[w] = cur[w]
    BY <1>1, <2>1, DeliveredGrows DEF AccountInv, AcceptedIsDelivered
  <2>2. CASE WhatsAppAccepts(w) /\ cur'[w] = cur[w]
    <3>1. cur[w] \in Job
      BY <1>1, <2>2 DEF WhatsAppAccepts, IInv, Holding
    <3> QED BY <1>1, <2>2, <3>1 DEF WhatsAppAccepts, HistoryType
  <2> QED BY <1>1, <2>1, <2>2, AnswerComes
<1>4. SentIsAccounted'
  <2> SUFFICES ASSUME NEW j \in Job, status'[j] = "SENT"
               PROVE  delivered'[j] > 0 \/ j \in marked'
    BY DEF SentIsAccounted
  <2>1. CASE status[j] = "SENT"
    BY <1>1, <2>1, DeliveredGrows, MarksStay DEF AccountInv, SentIsAccounted
  <2>2. CASE MarkSent(j)
    BY <2>2 DEF MarkSent
  <2>3. ASSUME NEW w \in Worker, SendSucceeds(w), cur[w] = j,
               status'[j] = IF Simulated(w) THEN "DRY_RUN" ELSE "SENT"
        PROVE  delivered'[j] > 0
    BY <1>1, <2>3, DeliveredGrows
       DEF SendSucceeds, Answered, AccountInv, AcceptedIsDelivered
  <2> QED BY <1>1, <2>1, <2>2, <2>3, OutcomeComes
<1>5. ModeRespected'
  <2>1. ASSUME NEW j \in Job, j \in DryJob PROVE delivered'[j] = 0
    <3>1. delivered[j] = 0
      BY <2>1 DEF AccountInv, ModeRespected
    <3> QED BY <1>1, <2>1, <3>1, DeliveryComes DEF WhatsAppAccepts, Simulated
  <2>2. ASSUME NEW j \in Job, j \notin DryJob PROVE status'[j] # "DRY_RUN"
    <3>1. status[j] # "DRY_RUN"
      BY <2>2 DEF AccountInv, ModeRespected
    <3>2. ASSUME NEW w \in Worker, cur[w] = j PROVE ~Simulated(w)
      BY <1>1, <2>2, <3>2 DEF Simulated, WorkInv, JobAssumption
    <3> QED BY <1>1, <3>1, <3>2, OutcomeComes
  <2> QED BY <1>2, <2>1, <2>2 DEF ModeRespected, WorkInv
<1> QED BY <1>2, <1>3, <1>4, <1>5 DEF AccountInv

-----------------------------------------------------------------------------
(* A live job, in the hands of the daemon and of nobody else.              *)

One(b) == IF b THEN 1 ELSE 0

(* It can be claimed, now or once it has a row and its time has come.      *)
Waits(j) == status[j] \in Unsent \cup {"NONE"}

(* The daemon may still hand it to WhatsApp in this round.                 *)
ToSend(j) ==
  cur[Daemon] = j /\ pc[Daemon] \in {"claimed", "cleared", "sending"} /\ ~accepted[Daemon]

(* While it is held an operator can requeue it and then cancel it, or      *)
(* resolve it, but nobody quarantines it.  Whoever may deliver or attempt  *)
(* it once more has that delivery, or that attempt, to his credit.         *)
LiveInv(j) ==
  /\ status[j] = "PROCESSING" => cur[Daemon] = j \/ pc[Daemon] = "off"
  /\ cur[Daemon] = j => status[j] \in {"PROCESSING", "RETRY", "CANCELLED", "SENT"}
  /\ delivered[j] + One(Waits(j)) + One(ToSend(j)) <= 1 + retried[j] + unsure[j]
  /\ attempts[j] + One(Waits(j)) <= MaxAttempts + stops
  /\ cur[Daemon] = j /\ status[j] = "PROCESSING" =>
       snap[Daemon] = attempts[j] /\ attempts[j] + One(stopping) <= MaxAttempts + stops

QueueInv == AccountInv /\ \A j \in Live : LiveInv(j)

(* What the history and the attempts of a job are counted in.              *)
Counted(j) ==
  /\ delivered[j] \in Nat /\ retried[j] \in Nat /\ unsure[j] \in Nat
  /\ attempts[j] \in Nat /\ stops \in Nat /\ MaxAttempts \in Nat \ {0}

LEMMA CountsTyped ==
  ASSUME BoundAssumption, RowsType, HistoryType, NEW j \in Job
  PROVE  Counted(j)
BY DEF BoundAssumption, RowsType, HistoryType, Counted

CountsStay(j) ==
  /\ delivered'[j] = delivered[j] /\ retried'[j] = retried[j]
  /\ unsure'[j] = unsure[j] /\ attempts'[j] = attempts[j]

(* The daemon keeps its hold on j, or had and has none.                    *)
HoldStays(j) ==
  \/ /\ pc'[Daemon] = pc[Daemon] /\ cur'[Daemon] = cur[Daemon]
     /\ snap'[Daemon] = snap[Daemon] /\ accepted'[Daemon] = accepted[Daemon]
     /\ stopping' = stopping
  \/ /\ cur[Daemon] # j /\ cur'[Daemon] # j
     /\ pc[Daemon] = "off" => pc'[Daemon] = "off"

(* What others do to a row the daemon may hold.                            *)
RowStays(j) ==
  \/ status'[j] = status[j]
  \/ status[j] \in Unsent /\ status'[j] = "CANCELLED"
  \/ status[j] = "SCHEDULED" /\ status'[j] = "PENDING"

RowGoesOn(j) ==
  \/ RowStays(j)
  \/ status[j] = "NONE" /\ status'[j] \in {"PENDING", "SCHEDULED"}
  \/ status'[j] \in {"CANCELLED", "SENT"}

LEMMA QuietKeeps ==
  ASSUME NEW j, Counted(j), LiveInv(j), CountsStay(j), HoldStays(j), RowGoesOn(j),
         stops' \in Nat, stops' >= stops
  PROVE  LiveInv(j)'
BY DEF Counted, LiveInv, CountsStay, HoldStays, RowGoesOn, RowStays, One, Waits, ToSend, Unsent

(* The end of the round of a worker that does not hold j.                  *)
LEMMA OtherReleases ==
  ASSUME WorkerAssumption, JobAssumption, WorkersType, NEW j \in Live, NEW w \in Worker, cur[w] # j,
         pc[w] # "off", NEW p \in {"idle", "off"}, Release(w, p),
         w # Daemon => stopping' = stopping
  PROVE  HoldStays(j)
<1>1. CASE w = Daemon
  BY <1>1 DEF Release, HoldStays, WorkersType, JobAssumption, Live
<1>2. CASE w # Daemon
  BY <1>2 DEF Release, HoldStays, WorkersType, Worker
<1> QED BY <1>1, <1>2

LEMMA OtherEnds ==
  ASSUME WorkerAssumption, JobAssumption, WorkersType, NEW j \in Live, NEW w \in Worker, cur[w] # j,
         pc[w] # "off", Rest(w) \/ Die(w)
  PROVE  HoldStays(j)
<1>1. CASE Rest(w)
  BY <1>1, OtherReleases DEF Rest
<1>2. CASE Die(w)
  BY <1>2, OtherReleases DEF Die, WorkersType
<1> QED BY <1>1, <1>2

LEMMA OtherSettles ==
  ASSUME WorkerAssumption, JobAssumption, WorkersType, RowsType, NEW j \in Live, NEW w \in Worker,
         cur[w] # j, pc[w] # "off", NEW s, NEW q, Settle(w, s, q)
  PROVE  HoldStays(j) /\ RowStays(j) /\ attempts' = attempts
<1>1. HoldStays(j)
  BY OtherEnds DEF Settle
<1>2. status'[j] = status[j] /\ attempts' = attempts
  BY SettleTouches DEF Live, Settle, rows
<1> QED BY <1>1, <1>2 DEF RowStays

LEMMA CancelStays ==
  ASSUME NEW J, CancelUnsent(J), NEW j \in Live
  PROVE  RowStays(j) /\ attempts' = attempts
BY CancelTouches DEF RowStays, Live, CancelUnsent

(* A row only the others touch.                                            *)
Aside(j) ==
  /\ CountsStay(j) /\ HoldStays(j) /\ RowStays(j)
  /\ stops' \in Nat /\ stops' >= stops

LEMMA OtherProcesses ==
  ASSUME WorkerAssumption, JobAssumption, BoundAssumption, WorkersType, RowsType, HistoryType, WorkInv,
         NEW j \in Live, NEW w \in Worker, cur[w] # j, Process(w), ~Claim(Daemon, j)
  PROVE  Aside(j)
<1>1. j \in Job /\ stops \in Nat /\ pc[w] # "off" /\ UNCHANGED history
  BY DEF Live, HistoryType, Process, LapsePause, Poll, Claim, NothingToClaim, AbandonBeforeSend,
     RefuseBeforeSend, Recheck, BeginSend, Unpaused
<1>2. CASE Poll(w)
  <2>1. HoldStays(j)
    BY <1>1, <1>2 DEF Poll, HoldStays, WorkersType
  <2>2. RowStays(j)
    BY <1>1, <1>2 DEF Poll, RowStays, Housekept, Unsent
  <2> QED BY <1>1, <1>2, <2>1, <2>2 DEF Poll, Aside, CountsStay, history
<1>3. ASSUME NEW k \in Job, Claim(w, k) PROVE Aside(j)
  <2>1. k # j
    BY <1>3 DEF Claim, Claimable, IsDry, Worker, Live
  <2>2. HoldStays(j)
    BY <1>1, <1>3, <2>1 DEF Claim, HoldStays, WorkersType
  <2>3. RowStays(j) /\ attempts'[j] = attempts[j]
    BY <1>1, <1>3, <2>1 DEF Claim, RowStays, RowsType
  <2> QED BY <1>1, <2>2, <2>3 DEF Aside, CountsStay, history
<1>4. CASE NothingToClaim(w)
  <2>1. HoldStays(j)
    BY <1>1, <1>4, OtherEnds DEF NothingToClaim
  <2> QED BY <1>1, <1>4, <2>1 DEF NothingToClaim, Aside, CountsStay, RowStays, rows, history
<1>5. CASE AbandonBeforeSend(w) \/ RefuseBeforeSend(w)
  <2>1. HoldStays(j) /\ RowStays(j) /\ attempts' = attempts
    BY <1>1, <1>5, OtherSettles DEF AbandonBeforeSend, RefuseBeforeSend
  <2> QED BY <1>1, <2>1 DEF Aside, CountsStay, history
<1>6. CASE LapsePause(w) \/ Recheck(w) \/ BeginSend(w)
  <2>1. /\ UNCHANGED <<cur, snap, accepted, stopping>>
        /\ \A v \in Worker \ {w} : pc'[v] = pc[v]
    BY <1>6 DEF LapsePause, Recheck, BeginSend, WorkersType
  <2>2. Daemon \in Worker
    BY DEF Worker
  <2>3. HoldStays(j)
    BY <1>1, <2>1, <2>2 DEF HoldStays
  <2> QED BY <1>1, <1>6, <2>3
          DEF LapsePause, Recheck, BeginSend, Aside, CountsStay, RowStays, rows, history
<1> QED BY <1>2, <1>3, <1>4, <1>5, <1>6 DEF Process

LEMMA OtherRequeues ==
  ASSUME HistoryType, NEW j \in Job, NEW w \in Worker, cur[w] # j, Requeued(w)
  PROVE  unsure'[j] = unsure[j]
BY DEF Requeued, HistoryType

LEMMA OtherSends ==
  ASSUME WorkerAssumption, JobAssumption, BoundAssumption, WorkersType, RowsType, HistoryType, WorkInv,
         NEW j \in Live, NEW w \in Worker, cur[w] # j, WhatsAppAccepts(w) \/ Finish(w)
  PROVE  Aside(j)
<1>1. j \in Job /\ stops \in Nat /\ pc[w] # "off"
  BY DEF Live, HistoryType, Finish, WhatsAppAccepts, SendSucceeds, SendFails, RetryLater,
     RateLimited, PauseForLogin, RevokeDestination
<1>2. CASE WhatsAppAccepts(w)
  <2>1. HoldStays(j)
    BY <1>1, <1>2 DEF WhatsAppAccepts, HoldStays, WorkersType, Worker
  <2> QED BY <1>1, <1>2, <2>1 DEF WhatsAppAccepts, Aside, CountsStay, RowStays, rows, HistoryType
<1>3. CASE SendSucceeds(w)
  <2>1. HoldStays(j)
    BY <1>1, <1>3, OtherEnds DEF SendSucceeds
  <2>2. status'[j] = status[j]
    BY <1>1, <1>3 DEF SendSucceeds, RowsType
  <2> QED BY <1>1, <1>3, <2>1, <2>2 DEF SendSucceeds, Aside, CountsStay, RowStays, history
<1>4. CASE SendFails(w)
  <2>1. HoldStays(j) /\ RowStays(j) /\ attempts' = attempts
    BY <1>1, <1>4, OtherSettles DEF SendFails
  <2> QED BY <1>1, <1>4, <2>1 DEF SendFails, Aside, CountsStay, history
<1>5. ASSUME NEW e \in ErrorClass, RetryLater(w, e) PROVE Aside(j)
  <2>1. HoldStays(j) /\ RowStays(j) /\ attempts' = attempts
    BY <1>1, <1>5, OtherSettles DEF RetryLater
  <2>2. unsure'[j] = unsure[j]
    BY <1>1, <1>5, OtherRequeues DEF RetryLater
  <2> QED BY <1>1, <1>5, <2>1, <2>2 DEF RetryLater, Aside, CountsStay
<1>6. ASSUME NEW e \in ErrorClass, RateLimited(w, e) PROVE Aside(j)
  <2>1. HoldStays(j) /\ RowStays(j) /\ attempts' = attempts
    BY <1>1, <1>6, OtherSettles DEF RateLimited
  <2> QED BY <1>1, <1>6, <2>1 DEF RateLimited, Aside, CountsStay, history
<1>7. ASSUME NEW e \in ErrorClass, PauseForLogin(w, e) PROVE Aside(j)
  <2>1. HoldStays(j)
    BY <1>1, <1>7, OtherEnds, OtherReleases, DaemonPauses DEF PauseForLogin
  <2>2. status'[j] = status[j]
    BY <1>1, <1>7 DEF PauseForLogin, RowsType
  <2>3. unsure'[j] = unsure[j]
    BY <1>1, <1>7, OtherRequeues DEF PauseForLogin
  <2> QED BY <1>1, <1>7, <2>1, <2>2, <2>3 DEF PauseForLogin, Aside, CountsStay, RowStays
<1>8. ASSUME NEW e \in ErrorClass, RevokeDestination(w, e) PROVE Aside(j)
  <2>1. HoldStays(j)
    BY <1>1, <1>8 DEF RevokeDestination, HoldStays, WorkersType
  <2>2. RowStays(j) /\ attempts' = attempts
    BY <1>8, CancelStays DEF RevokeDestination
  <2> QED BY <1>1, <1>8, <2>1, <2>2 DEF RevokeDestination, Aside, CountsStay, history
<1> QED BY <1>2, <1>3, <1>4, <1>5, <1>6, <1>7, <1>8 DEF Finish

(* The end of the daemon's round with j: the job goes back only from       *)
(* PROCESSING, with the delivery and the attempt it has left.              *)
LEMMA OwnSettles ==
  ASSUME WorkersType, RowsType, JobAssumption, NEW j \in Job, Counted(j), Counted(j)', LiveInv(j),
         Daemon \in Worker, cur[Daemon] = j, NEW s \in {"FAILED", "RETRY", "WAITING_RATE_LIMIT"},
         NEW q, Settle(Daemon, s, q),
         delivered'[j] = delivered[j], retried'[j] = retried[j], stops' >= stops,
         unsure'[j] >= unsure[j],
         status[j] = "PROCESSING" /\ CanMove(j, s) /\ s # "FAILED" =>
           /\ ToSend(j) \/ unsure'[j] >= unsure[j] + 1
           /\ attempts[j] + 1 <= MaxAttempts + stops'
  PROVE  LiveInv(j)'
<1>1. cur'[Daemon] = NoJob /\ NoJob # j /\ attempts'[j] = attempts[j]
  BY DEF Settle, Rest, Die, Release, WorkersType, JobAssumption, rows
<1>2. CASE status'[j] = status[j] /\ pc'[Daemon] = "off"
  BY <1>1, <1>2 DEF LiveInv, Counted, One, Waits, ToSend
<1>3. CASE status'[j] = s /\ CanMove(j, s)
  <2>1. status[j] = "PROCESSING"
    BY <1>3 DEF LiveInv, CanMove, Transition, Unsent
  <2>2. CASE s = "FAILED"
    BY <1>1, <1>3, <2>1, <2>2 DEF LiveInv, Counted, One, Waits, ToSend, Unsent
  <2>3. CASE s # "FAILED"
    <3>1. Waits(j)' /\ ~ToSend(j)' /\ ~Waits(j)
      BY <1>1, <1>3, <2>1, <2>3 DEF Waits, ToSend, Unsent
    <3> QED BY <1>1, <1>3, <2>1, <2>3, <3>1 DEF LiveInv, Counted, One
  <2> QED BY <2>2, <2>3
<1>4. \/ status'[j] = status[j] /\ pc'[Daemon] = "off"
      \/ status'[j] = s /\ CanMove(j, s)
  BY DEF Settle, Die, Release, WorkersType, RowsType, rows
<1> QED BY <1>2, <1>3, <1>4

LEMMA OwnClaims ==
  ASSUME WorkerAssumption, JobAssumption, WorkersType, RowsType, HistoryType, WorkInv,
         NEW j \in Live, Counted(j), LiveInv(j), Claim(Daemon, j)
  PROVE  LiveInv(j)'
<1>1. /\ Daemon \in Worker /\ j \in Job
      /\ status[j] \in Unsent /\ status'[j] = "PROCESSING"
      /\ attempts'[j] = attempts[j] + 1 /\ snap'[Daemon] = attempts[j] + 1
      /\ pc'[Daemon] = "claimed" /\ cur'[Daemon] = j /\ ~stopping /\ ~stopping'
      /\ cur[Daemon] # j
  BY DEF Claim, Claimable, Worker, Live, WorkersType, RowsType, WorkInv, Unsent, Busy, JobAssumption
<1>2. Waits(j) /\ ~ToSend(j) /\ ~Waits(j)'
  BY <1>1 DEF Waits, ToSend, Unsent
<1> QED BY <1>1, <1>2 DEF Claim, LiveInv, Counted, One, history, Unsent, HistoryType

LEMMA OwnProcesses ==
  ASSUME WorkerAssumption, JobAssumption, WorkersType, RowsType, HistoryType, HistoryType', RowsType',
         BoundAssumption, WorkInv, NEW j \in Live, LiveInv(j), cur[Daemon] = j, Process(Daemon)
  PROVE  LiveInv(j)'
<1>1. /\ Daemon \in Worker /\ j \in Job /\ j # NoJob /\ Counted(j) /\ Counted(j)'
      /\ pc[Daemon] \in Busy /\ UNCHANGED history
  BY DEF Worker, Live, JobAssumption, WorkInv, Process, LapsePause, Poll, Claim, NothingToClaim, Busy,
     AbandonBeforeSend, RefuseBeforeSend, Recheck, BeginSend, Unpaused, Counted, RowsType,
     HistoryType, BoundAssumption
<1>2. CASE AbandonBeforeSend(Daemon)
  <2>1. WorkersType /\ ~accepted[Daemon] /\ stopping
    BY <1>1, <1>2 DEF AbandonBeforeSend, Stopping, WorkInv, WorkersType
  <2>2. status[j] = "PROCESSING" => attempts[j] + 1 <= MaxAttempts + stops
    BY <2>1 DEF LiveInv, One
  <2> QED BY <1>1, <1>2, <2>1, <2>2, OwnSettles DEF AbandonBeforeSend, ToSend, history, Counted
<1>3. CASE RefuseBeforeSend(Daemon)
  BY <1>1, <1>3, OwnSettles DEF RefuseBeforeSend, history, Counted
<1>4. CASE Recheck(Daemon) \/ BeginSend(Daemon)
  <2>1. /\ pc[Daemon] \in {"claimed", "cleared"}
        /\ pc'[Daemon] \in {"cleared", "dropping", "sending"}
        /\ UNCHANGED <<cur, snap, accepted, stopping, status, attempts>>
    BY <1>1, <1>4 DEF Recheck, BeginSend, WorkersType, rows
  <2> QED BY <1>1, <2>1 DEF LiveInv, Counted, One, Waits, ToSend, history
<1> QED BY <1>1, <1>2, <1>3, <1>4
        DEF Process, LapsePause, Poll, Unpaused, Claim, NothingToClaim, Busy

LEMMA OwnSends ==
  ASSUME WorkerAssumption, JobAssumption, WorkersType, RowsType, HistoryType, HistoryType', RowsType',
         BoundAssumption, WorkInv, NEW j \in Live, LiveInv(j), cur[Daemon] = j,
         WhatsAppAccepts(Daemon) \/ Finish(Daemon)
  PROVE  LiveInv(j)'
<1>1. /\ Daemon \in Worker /\ j \in Job /\ j # NoJob /\ j \notin DryJob
      /\ Counted(j) /\ Counted(j)' /\ ~Simulated(Daemon)
  BY DEF Worker, Live, JobAssumption, WorkInv, Simulated, Counted, RowsType, HistoryType,
     BoundAssumption
<1>2. CASE WhatsAppAccepts(Daemon)
  <2>1. /\ pc[Daemon] = "sending" /\ ~accepted[Daemon] /\ accepted'[Daemon]
        /\ UNCHANGED <<pc, cur, snap, stopping, status, attempts, retried, unsure, stops>>
        /\ delivered'[j] = delivered[j] + 1
    BY <1>1, <1>2 DEF WhatsAppAccepts, WorkersType, HistoryType, rows
  <2> QED BY <1>1, <2>1 DEF LiveInv, Counted, One, Waits, ToSend
<1>3. CASE SendSucceeds(Daemon)
  <2>1. /\ status'[j] = "SENT" /\ cur'[Daemon] = NoJob
        /\ UNCHANGED <<attempts, history>>
    BY <1>1, <1>3 DEF SendSucceeds, Rest, Die, Release, WorkersType, RowsType
  <2> QED BY <1>1, <2>1 DEF LiveInv, Counted, One, Waits, ToSend, history, Unsent
<1>4. CASE SendFails(Daemon)
  BY <1>1, <1>4, OwnSettles DEF SendFails, history, Counted
<1>5. ASSUME NEW e \in ErrorClass, RetryLater(Daemon, e) PROVE LiveInv(j)'
  <2>1. status[j] = "PROCESSING" => attempts[j] + 1 <= MaxAttempts + stops
    BY <1>1, <1>5 DEF RetryLater, Decision, DecideRetry, LiveInv, Counted
  <2>2. CanMove(j, "RETRY") => ToSend(j) \/ unsure'[j] = unsure[j] + 1
    BY <1>1, <1>5 DEF RetryLater, Requeued, ToSend, HistoryType
  <2>3. unsure'[j] >= unsure[j]
    BY <1>1, <1>5 DEF RetryLater, Requeued, HistoryType
  <2> QED BY <1>1, <1>5, <2>1, <2>2, <2>3, OwnSettles DEF RetryLater, Counted
<1>6. ASSUME NEW e \in ErrorClass, RateLimited(Daemon, e) PROVE LiveInv(j)'
  <2>1. status[j] = "PROCESSING" => attempts[j] + 1 <= MaxAttempts + stops
    BY <1>1, <1>6 DEF RateLimited, Decision, DecideRetry, LiveInv, Counted
  <2>2. e = "RATE_LIMITED"
    BY <1>6 DEF RateLimited, Decision, DecideRetry
  <2>3. ToSend(j)
    BY <1>1, <1>6, <2>2 DEF RateLimited, Errors, AmbiguousErrors, ToSend
  <2> QED BY <1>1, <1>6, <2>1, <2>3, OwnSettles DEF RateLimited, Counted, history
<1>7. ASSUME NEW e \in ErrorClass, PauseForLogin(Daemon, e) PROVE LiveInv(j)'
  <2>1. /\ cur'[Daemon] = NoJob /\ pc[Daemon] = "sending" /\ stops' = stops + 1
        /\ delivered'[j] = delivered[j] /\ retried'[j] = retried[j] /\ attempts'[j] = attempts[j]
    BY <1>1, <1>7 DEF PauseForLogin, Die, Release, WorkersType
  <2>2. CASE CanMove(j, "RETRY")
    <3>1. status[j] = "PROCESSING" /\ status'[j] = "RETRY"
      BY <1>1, <1>7, <2>2 DEF PauseForLogin, RowsType, LiveInv, CanMove, Transition, Unsent
    <3>2. (ToSend(j) /\ unsure'[j] = unsure[j]) \/ unsure'[j] = unsure[j] + 1
      BY <1>1, <1>7, <2>1, <2>2 DEF PauseForLogin, Requeued, ToSend, HistoryType
    <3>3. ~Waits(j) /\ Waits(j)' /\ ~ToSend(j)'
      BY <1>1, <2>1, <3>1 DEF Waits, ToSend, Unsent
    <3> QED BY <1>1, <2>1, <3>1, <3>2, <3>3 DEF LiveInv, Counted, One
  <2>3. CASE ~CanMove(j, "RETRY")
    <3>1. pc'[Daemon] = "off" /\ status'[j] = status[j] /\ unsure'[j] = unsure[j]
      BY <1>1, <1>7, <2>3 DEF PauseForLogin, Requeued, Die, Release, WorkersType
    <3> QED BY <1>1, <2>1, <3>1 DEF LiveInv, Counted, One, Waits, ToSend
  <2> QED BY <2>2, <2>3
<1>8. ASSUME NEW e \in ErrorClass, RevokeDestination(Daemon, e) PROVE LiveInv(j)'
  <2>1. /\ pc[Daemon] = "sending" /\ pc'[Daemon] = "refusing"
        /\ UNCHANGED <<cur, snap, accepted, stopping, attempts, history>>
    BY <1>1, <1>8 DEF RevokeDestination, CancelUnsent, WorkersType
  <2>2. status'[j] = status[j] \/ status'[j] = "CANCELLED"
    BY <1>1, <1>8, CancelTouches DEF RevokeDestination
  <2> QED BY <1>1, <2>1, <2>2 DEF LiveInv, Counted, One, Waits, ToSend, history, Unsent
<1> QED BY <1>2, <1>3, <1>4, <1>5, <1>6, <1>7, <1>8 DEF Finish

(* Enqueue calls, operators and the clock touch no worker.                 *)
LEMMA OutsidersKeep ==
  ASSUME JobAssumption, WorkerAssumption, WorkersType, RowsType, HistoryType, Fresh,
         NEW j \in Live, Counted(j), LiveInv(j),
         \/ \E k \in Job : Enqueue(k)
         \/ Operate \/ Time \/ UNCHANGED vars
  PROVE  LiveInv(j)'
<1>1. j \in Job /\ stops \in Nat
  BY DEF Live, Counted
<1>2. ASSUME NEW k \in Job, Enqueue(k) PROVE LiveInv(j)'
  <2>1. HoldStays(j)
    BY <1>2 DEF Enqueue, CheckDestination, Insert, DropEnqueue, InsertAndSimulate, HoldStays,
       workers, WorkersType, WorkerAssumption, Worker
  <2>2. RowGoesOn(j) /\ attempts' = attempts
    BY <1>1, <1>2 DEF Enqueue, CheckDestination, Insert, DropEnqueue, InsertAndSimulate, InsertRow,
       RowGoesOn, RowStays, rows, RowsType, Fresh
  <2>3. UNCHANGED history
    BY <1>2 DEF Enqueue, CheckDestination, Insert, DropEnqueue, InsertAndSimulate
  <2> QED BY <1>1, <2>1, <2>2, <2>3, QuietKeeps DEF CountsStay, history
<1>3. CASE Operate
  <2>1. HoldStays(j) /\ stops' = stops
    BY <1>3 DEF Operate, Allow, Deny, Refresh, Cancel, Retry, MarkSent, HoldStays, workers, history
  <2>2. ASSUME NEW d \in Destination, Allow(d) PROVE LiveInv(j)'
    BY <1>1, <2>1, <2>2, QuietKeeps DEF Allow, RowGoesOn, RowStays, CountsStay, rows, history
  <2>3. ASSUME NEW J, CancelUnsent(J), UNCHANGED history PROVE LiveInv(j)'
    BY <1>1, <2>1, <2>3, CancelStays, QuietKeeps DEF RowGoesOn, CountsStay, history
  <2>4. ASSUME NEW k \in Job, Cancel(k) PROVE LiveInv(j)'
    <3>1. RowGoesOn(j)
      BY <1>1, <2>4 DEF Cancel, RowGoesOn, RowStays, RowsType
    <3> QED BY <1>1, <2>1, <2>4, <3>1, QuietKeeps DEF Cancel, CountsStay, history
  <2>5. ASSUME NEW k \in Job, MarkSent(k) PROVE LiveInv(j)'
    <3>1. RowGoesOn(j)
      BY <1>1, <2>5 DEF MarkSent, RowGoesOn, RowStays, RowsType
    <3> QED BY <1>1, <2>1, <2>5, <3>1, QuietKeeps DEF MarkSent, CountsStay
  <2>6. ASSUME NEW k \in Job \ {j}, Retry(k) PROVE LiveInv(j)'
    <3>1. RowGoesOn(j) /\ CountsStay(j)
      BY <1>1, <2>6 DEF Retry, RowGoesOn, RowStays, CountsStay, RowsType, HistoryType
    <3> QED BY <1>1, <2>1, <3>1, QuietKeeps
  <2>7. ASSUME Retry(j) PROVE LiveInv(j)'
    <3>1. /\ status[j] \notin Unsent \cup {"NONE"} /\ status'[j] = "RETRY" /\ attempts'[j] = 0
          /\ retried'[j] = retried[j] + 1
          /\ UNCHANGED <<workers, delivered, unsure, stops>>
      BY <1>1, <2>7 DEF Retry, CanMove, Transition, Unsent, RowsType, HistoryType
    <3>2. ~Waits(j) /\ Waits(j)' /\ (ToSend(j)' <=> ToSend(j))
      BY <3>1 DEF Waits, ToSend, Unsent, workers
    <3> QED BY <1>1, <3>1, <3>2 DEF LiveInv, Counted, One, workers
  <2> QED BY <1>3, <2>2, <2>3, <2>4, <2>5, <2>6, <2>7 DEF Operate, Deny, Refresh
<1>4. CASE Time \/ UNCHANGED vars
  <2>1. UNCHANGED <<status, attempts, workers, history>>
    BY <1>4 DEF Time, Elapse, ElapsePause, vars, rows
  <2> QED BY <1>1, <2>1, QuietKeeps
          DEF RowGoesOn, RowStays, CountsStay, HoldStays, workers, history
<1> QED BY <1>2, <1>3, <1>4

LEMMA LifeKeeps ==
  ASSUME JobAssumption, WorkerAssumption, WorkersType, RowsType, HistoryType, WorkInv,
         NEW j \in Live, Counted(j), LiveInv(j), DaemonLife
  PROVE  LiveInv(j)'
<1>1. /\ j \in Job /\ j # NoJob /\ stops \in Nat /\ Daemon \in Worker
      /\ pc[Daemon] \notin Busy => cur[Daemon] # j
  BY DEF Live, Counted, JobAssumption, Worker, WorkInv
<1>2. CASE StartDaemon
  <2>1. /\ cur[Daemon] # j /\ UNCHANGED <<attempts, cur, history>>
        /\ status'[j] = Recovered(j)
    BY <1>1, <1>2 DEF StartDaemon, Busy
  <2>2. (Waits(j)' <=> Waits(j)) /\ ~ToSend(j) /\ ~ToSend(j)' /\ status'[j] # "PROCESSING"
    BY <2>1 DEF Waits, ToSend, Recovered, Unsent
  <2> QED BY <1>1, <2>1, <2>2 DEF LiveInv, Counted, history, One
<1>3. CASE StopDaemon
  <2>1. /\ UNCHANGED <<status, attempts, pc, cur, snap, accepted, delivered, retried, unsure>>
        /\ ~stopping /\ stopping' /\ stops' = stops + 1
    BY <1>3 DEF StopDaemon, rows
  <2>2. (Waits(j)' <=> Waits(j)) /\ (ToSend(j)' <=> ToSend(j))
    BY <2>1 DEF Waits, ToSend
  <2> QED BY <1>1, <2>1, <2>2 DEF LiveInv, Counted, One
<1>4. ASSUME HoldStays(j), UNCHANGED <<status, attempts, delivered, retried, unsure>>,
             stops' \in Nat, stops' >= stops
      PROVE  LiveInv(j)'
  BY <1>4, QuietKeeps DEF RowGoesOn, RowStays, CountsStay
<1>5. CASE DaemonExits
  <2>1. cur[Daemon] # j /\ pc[Daemon] # "off"
    BY <1>1, <1>5 DEF DaemonExits, Busy
  <2> QED BY <1>1, <1>4, <1>5, <2>1, OtherEnds DEF DaemonExits, rows, history
<1>6. CASE ConnectionOpens
  <2>1. HoldStays(j)
    BY <1>1, <1>6 DEF ConnectionOpens, HoldStays, WorkersType, Busy
  <2> QED BY <1>1, <1>4, <1>6, <2>1 DEF ConnectionOpens, rows, history
<1>7. ASSUME NEW reason, ConnectFails(reason) PROVE LiveInv(j)'
  <2>1. HoldStays(j)
    BY <1>1, <1>7 DEF ConnectFails, HoldStays, WorkersType, Busy
  <2> QED BY <1>1, <1>4, <1>7, <2>1 DEF ConnectFails, rows, history
<1>8. ASSUME UNCHANGED <<rows, workers, history>> PROVE LiveInv(j)'
  BY <1>1, <1>4, <1>8 DEF HoldStays, workers, rows, history
<1>9. ASSUME NEW w \in Worker, Crash(w) PROVE LiveInv(j)'
  <2>1. UNCHANGED <<status, attempts, delivered, retried, unsure>> /\ stops' = stops + 1
    BY <1>9 DEF Crash, rows
  <2>2. CASE cur[w] # j
    BY <1>1, <1>4, <1>9, <2>1, <2>2, OtherEnds DEF Crash
  <2>3. CASE cur[w] = j
    <3>1. w = Daemon
      BY <1>1, <2>3 DEF WorkInv, IsDry, Worker, Live
    <3>2. cur'[Daemon] = NoJob /\ pc'[Daemon] = "off"
      BY <1>1, <1>9, <3>1 DEF Crash, Die, Release, WorkersType
    <3>3. (Waits(j)' <=> Waits(j)) /\ ~ToSend(j)'
      BY <1>1, <2>1, <3>2 DEF Waits, ToSend
    <3> QED BY <1>1, <2>1, <3>2, <3>3 DEF LiveInv, Counted, One
  <2> QED BY <2>2, <2>3
<1> QED BY <1>2, <1>3, <1>5, <1>6, <1>7, <1>8, <1>9
        DEF DaemonLife, Login, Logout, ConnectionEnds

LEMMA QueueStarts ==
  JobAssumption /\ WorkerAssumption /\ BoundAssumption /\ Init => QueueInv
<1> SUFFICES ASSUME JobAssumption, WorkerAssumption, BoundAssumption, Init PROVE QueueInv
  OBVIOUS
<1>1. ASSUME NEW j \in Live PROVE LiveInv(j)
  BY DEF Init, Live, LiveInv, Waits, ToSend, One, Worker, JobAssumption, BoundAssumption
<1> QED BY <1>1, AccountStarts DEF QueueInv

(* Whoever steps, a live job is the daemon's or is left aside.             *)
LEMMA LiveKept ==
  ASSUME JobAssumption, WorkerAssumption, BoundAssumption, QueueInv, AccountInv',
         [Next]_vars, NEW j \in Live
  PROVE  LiveInv(j)'
<1>1. /\ WorkersType /\ RowsType /\ HistoryType /\ RowsType' /\ HistoryType'
      /\ WorkInv /\ Fresh /\ LiveInv(j) /\ Counted(j)
  BY TypeParts, CountsTyped DEF QueueInv, AccountInv, IInv, Live
<1>2. ASSUME NEW w \in Worker, cur[w] = j PROVE w = Daemon
  BY <1>1, <1>2 DEF WorkInv, IsDry, Worker, Live, JobAssumption
<1>3. ASSUME Aside(j) PROVE LiveInv(j)'
  BY <1>1, <1>3, QuietKeeps DEF Aside, RowGoesOn
<1>4. ASSUME NEW w \in Worker, Process(w) PROVE LiveInv(j)'
  BY <1>1, <1>2, <1>3, <1>4, OtherProcesses, OwnClaims, OwnProcesses
<1>5. ASSUME NEW w \in Worker, WhatsAppAccepts(w) \/ Finish(w) PROVE LiveInv(j)'
  BY <1>1, <1>2, <1>3, <1>5, OtherSends, OwnSends
<1> QED BY <1>1, <1>4, <1>5, OutsidersKeep, LifeKeeps DEF Next

LEMMA QueueKept ==
  ASSUME JobAssumption, WorkerAssumption, BoundAssumption, QueueInv, [Next]_vars
  PROVE  QueueInv'
<1>1. AccountInv'
  BY AccountKept DEF QueueInv
<1> QED BY <1>1, LiveKept DEF QueueInv

LEMMA Invariant == Spec => []QueueInv
BY JobAssumption, WorkerAssumption, BoundAssumption, QueueStarts, QueueKept, PTL DEF Spec

-----------------------------------------------------------------------------
(* Dry-run work never reaches WhatsApp and live work is never simulated    *)
(* away, whoever claims it and however often DRY_RUN changes between two   *)
(* starts: claimNext filters on the mode, and the transport looks again.   *)
THEOREM RespectsModes == Spec => []ModeRespected
<1>1. QueueInv => ModeRespected
  BY DEF QueueInv, AccountInv
<1> QED BY Invariant, <1>1, PTL

(* A row says SENT only when WhatsApp took its message or an operator      *)
(* resolved it with mark-sent: a worker that lost its job to a recovery or *)
(* to `queue retry` cannot report another one's delivery.                  *)
THEOREM AccountsForSent == Spec => []SentIsAccounted
<1>1. QueueInv => SentIsAccounted
  BY DEF QueueInv, AccountInv
<1> QED BY Invariant, <1>1, PTL

(* A live row in PROCESSING is the daemon's, or the daemon is down and its *)
(* next start quarantines it: no round of processOnce leaves one behind.   *)
THEOREM HoldsProcessing == Spec => []ProcessingIsHeld
<1>1. QueueInv => ProcessingIsHeld
  BY DEF QueueInv, LiveInv, ProcessingIsHeld, Live
<1> QED BY Invariant, <1>1, PTL

(* WhatsApp takes the message of a live or dry-run job at most once, once  *)
(* more for each `queue retry` and once more for each ambiguous failure    *)
(* handleError itself requeues.                                            *)
THEOREM DeliversWithinBound == Spec => []DeliveryBound
<1>1. QueueInv => DeliveryBound
  <2> SUFFICES ASSUME QueueInv, NEW j \in Job
               PROVE  delivered[j] <= 1 + retried[j] + unsure[j]
    BY DEF DeliveryBound
  <2>1. Counted(j)
    BY BoundAssumption, TypeParts, CountsTyped DEF QueueInv, AccountInv, IInv
  <2>2. CASE j \in DryJob
    BY <2>1, <2>2 DEF QueueInv, AccountInv, ModeRespected, Counted
  <2>3. CASE j \notin DryJob
    BY <2>1, <2>3 DEF QueueInv, LiveInv, Live, Counted, One
  <2> QED BY <2>2, <2>3
<1> QED BY Invariant, <1>1, PTL

(* A live job is claimed at most MAX_ATTEMPTS times and once more for each *)
(* stop of the daemon: decideRetry counts against the number it claimed    *)
(* with, which `queue retry` cannot change under a worker.                 *)
THEOREM AttemptsWithinBound == Spec => []AttemptBound
<1>1. QueueInv => AttemptBound
  <2> SUFFICES ASSUME QueueInv, NEW j \in Live
               PROVE  attempts[j] <= MaxAttempts + stops
    BY DEF AttemptBound, Live
  <2>1. Counted(j)
    BY BoundAssumption, TypeParts, CountsTyped DEF QueueInv, AccountInv, IInv, Live
  <2> QED BY <2>1 DEF QueueInv, LiveInv, Counted, One
<1> QED BY Invariant, <1>1, PTL

(* A quarantined live job leaves REVIEW_REQUIRED only by `queue retry`,    *)
(* `queue cancel` or `mark-sent`: nobody holds it any more, so no late     *)
(* answer, requeue or claim can move it.                                   *)
THEOREM ReviewsByHand == Spec => ReviewIsManual
<1> DEFINE Manual(j) == status[j] = "REVIEW_REQUIRED" =>
             \/ status'[j] \in {"REVIEW_REQUIRED", "CANCELLED"}
             \/ status'[j] = "RETRY" /\ retried'[j] > retried[j]
             \/ status'[j] = "SENT" /\ j \in marked'
<1>1. ASSUME QueueInv, [Next]_vars, NEW j \in Live, status[j] = "REVIEW_REQUIRED" PROVE Manual(j)
  <2>1. /\ WorkersType /\ RowsType /\ HistoryType /\ WorkInv /\ Fresh /\ j \in Job /\ j # NoJob
        /\ \A w \in Worker : cur[w] # j
    BY <1>1, TypeParts, JobAssumption
       DEF QueueInv, AccountInv, IInv, Live, LiveInv, WorkInv, IsDry, Worker
  <2>2. ASSUME RowStays(j) PROVE Manual(j)
    BY <1>1, <2>2 DEF RowStays, Unsent
  <2>3. ASSUME NEW w \in Worker, Process(w) PROVE Manual(j)
    <3>1. ~Claim(Daemon, j)
      BY <1>1 DEF Claim, Claimable
    <3> QED BY <2>1, <2>2, <2>3, <3>1, JobAssumption, WorkerAssumption, BoundAssumption,
               OtherProcesses DEF Aside
  <2>4. ASSUME NEW w \in Worker, WhatsAppAccepts(w) \/ Finish(w) PROVE Manual(j)
    BY <2>1, <2>2, <2>4, JobAssumption, WorkerAssumption, BoundAssumption, OtherSends DEF Aside
  <2>5. ASSUME NEW k \in Job, Enqueue(k) PROVE Manual(j)
    BY <1>1, <2>1, <2>5 DEF Enqueue, CheckDestination, Insert, DropEnqueue, InsertAndSimulate,
       InsertRow, rows, RowsType, Fresh
  <2>6. ASSUME NEW k \in Job, Cancel(k) \/ Retry(k) \/ MarkSent(k) PROVE Manual(j)
    BY <1>1, <2>1, <2>6 DEF Cancel, Retry, MarkSent, RowsType, HistoryType
  <2>7. ASSUME NEW J, CancelUnsent(J) PROVE Manual(j)
    BY <2>2, <2>7, CancelStays
  <2>8. CASE Operate
    BY <1>1, <2>6, <2>7, <2>8 DEF Operate, Allow, Deny, Refresh, rows
  <2>9. CASE DaemonLife \/ Time \/ UNCHANGED vars
    BY <1>1, <2>1, <2>9 DEF DaemonLife, Time, StopDaemon, DaemonExits, ConnectionOpens, Login,
       Logout, ConnectFails, ConnectionEnds, Crash, ElapsePause, Elapse, rows, vars, StartDaemon,
       Recovered
  <2> QED BY <1>1, <2>3, <2>4, <2>5, <2>8, <2>9 DEF Next
<1>2. QueueInv /\ [Next]_vars => [\A j \in Job \ DryJob : Manual(j)]_vars
  BY <1>1 DEF Live
<1> QED BY Invariant, <1>2, PTL DEF Spec, ReviewIsManual

-----------------------------------------------------------------------------
(* What still reaches a group that has been denied.                        *)

(* The daemon is past its look at the allowlist with j, and WhatsApp has   *)
(* not taken its message.                                                  *)
DaemonHand(j) ==
  cur[Daemon] = j /\ pc[Daemon] \in {"cleared", "sending"} /\ ~accepted[Daemon]

(* The delivery the daemon may be in the middle of is among those granted. *)
GrantInv(j) == ~Allowed(j) => delivered[j] + One(DaemonHand(j)) <= granted[j]

DenialInv == QueueInv /\ \A j \in Live : GrantInv(j)

(* A job comes into the daemon's hand by a look that finds it allowed.     *)
LEMMA HandComes ==
  ASSUME WorkersType, [Next]_vars, NEW j \in Job, DaemonHand(j)'
  PROVE  DaemonHand(j) \/ (Allowed(j) /\ UNCHANGED dests)
<1> Daemon \in Worker
  BY DEF Worker
<1> DEFINE Came == DaemonHand(j) \/ (Allowed(j) /\ UNCHANGED dests)
<1>1. ASSUME NEW v \in Worker, NEW p \in {"idle", "off"}, Release(v, p) PROVE Came
  <2>1. v # Daemon
    BY <1>1 DEF Release, WorkersType, DaemonHand
  <2>2. pc'[Daemon] = pc[Daemon] /\ cur'[Daemon] = cur[Daemon] /\ accepted'[Daemon] = accepted[Daemon]
    BY <1>1, <2>1 DEF Release, WorkersType
  <2> QED BY <2>2 DEF DaemonHand
<1>2. ASSUME NEW v \in Worker, Rest(v) \/ Die(v) PROVE Came
  BY <1>1, <1>2 DEF Rest, Die
<1>3. ASSUME NEW v \in Worker, NEW s, NEW q, Settle(v, s, q) PROVE Came
  BY <1>2, <1>3 DEF Settle
<1>4. ASSUME NEW v \in Worker, Process(v) PROVE Came
  <2>1. CASE Recheck(v)
    BY <2>1 DEF Recheck, WorkersType, DaemonHand
  <2>2. CASE ~Recheck(v)
    BY <1>2, <1>3, <1>4, <2>2 DEF Process, LapsePause, Poll, Claim, NothingToClaim,
       AbandonBeforeSend, RefuseBeforeSend, BeginSend, WorkersType, DaemonHand
  <2> QED BY <2>1, <2>2
<1>5. ASSUME NEW v \in Worker, WhatsAppAccepts(v) \/ Finish(v) PROVE Came
  <2>1. ASSUME NEW e, PauseForLogin(v, e) PROVE Came
    BY <1>1, <1>2, <2>1 DEF PauseForLogin
  <2>2. CASE WhatsAppAccepts(v)
    <3>1. accepted' = [accepted EXCEPT ![v] = TRUE] /\ UNCHANGED <<pc, cur>>
      BY <2>2 DEF WhatsAppAccepts
    <3> QED BY <3>1 DEF WorkersType, DaemonHand
  <2>3. ASSUME NEW e, RevokeDestination(v, e) PROVE Came
    <3>1. pc' = [pc EXCEPT ![v] = "refusing"] /\ UNCHANGED <<cur, accepted>>
      BY <2>3 DEF RevokeDestination
    <3> QED BY <3>1 DEF WorkersType, DaemonHand
  <2> QED BY <1>2, <1>3, <1>5, <2>1, <2>2, <2>3 DEF Finish, SendSucceeds, SendFails, RetryLater,
             RateLimited
<1>6. CASE DaemonLife
  BY <1>2, <1>6 DEF DaemonLife, StartDaemon, StopDaemon, DaemonExits, ConnectionOpens, Login,
     Logout, ConnectFails, ConnectionEnds, Crash, workers, WorkersType, DaemonHand
<1>7. ASSUME NEW k \in Job, Enqueue(k) PROVE Came
  BY <1>7 DEF Enqueue, CheckDestination, Insert, DropEnqueue, InsertAndSimulate, workers,
     WorkersType, DaemonHand
<1>8. CASE Operate \/ Time \/ UNCHANGED vars
  <2>1. UNCHANGED workers
    BY <1>8 DEF Operate, Allow, Deny, Refresh, Cancel, Retry, MarkSent, Time, ElapsePause, Elapse,
       vars
  <2> QED BY <2>1 DEF workers, DaemonHand
<1> QED BY <1>4, <1>5, <1>6, <1>7, <1>8 DEF Next

(* What changes the allowlist settles what a denial grants.                *)
LEMMA AllowlistChanges ==
  ASSUME [Next]_vars, ~UNCHANGED dests
  PROVE  Grant /\ UNCHANGED history
<1>1. ASSUME NEW k \in Job, Enqueue(k) PROVE FALSE
  BY <1>1 DEF Enqueue, CheckDestination, Insert, DropEnqueue, InsertAndSimulate
<1>2. CASE Operate
  BY <1>2 DEF Operate, Allow, Deny, Refresh, Cancel, Retry, MarkSent
<1>3. ASSUME NEW w \in Worker, Process(w) \/ WhatsAppAccepts(w) PROVE FALSE
  BY <1>3 DEF Process, LapsePause, Poll, Claim, NothingToClaim, AbandonBeforeSend,
     RefuseBeforeSend, Recheck, BeginSend, WhatsAppAccepts
<1>4. ASSUME NEW w \in Worker, Finish(w) PROVE Grant /\ UNCHANGED history
  BY <1>4 DEF Finish, SendSucceeds, SendFails, RetryLater, RateLimited, PauseForLogin,
     RevokeDestination
<1>5. CASE DaemonLife \/ Time \/ UNCHANGED vars
  BY <1>5 DEF DaemonLife, Time, StartDaemon, StopDaemon, DaemonExits, ConnectionOpens, Login,
     Logout, ConnectFails, ConnectionEnds, Crash, ElapsePause, Elapse, vars
<1> QED BY <1>1, <1>2, <1>3, <1>4, <1>5 DEF Next

LEMMA DenialKept ==
  ASSUME JobAssumption, WorkerAssumption, BoundAssumption, DenialInv, QueueInv', [Next]_vars,
         NEW j \in Live
  PROVE  GrantInv(j)'
<1>1. /\ WorkersType /\ HistoryType /\ HistoryType' /\ WorkInv /\ WorkInv' /\ DestsType
      /\ j \in Job /\ j # NoJob /\ Daemon \in Worker /\ GrantInv(j)
  BY TypeParts, JobAssumption DEF DenialInv, QueueInv, AccountInv, IInv, Live, Worker
<1>2. delivered[j] \in Nat /\ delivered'[j] \in Nat /\ granted[j] \in Nat
  BY <1>1 DEF HistoryType, DestsType
<1>3. CASE UNCHANGED dests
  <2> SUFFICES ASSUME ~Allowed(j)' PROVE delivered'[j] + One(DaemonHand(j)') <= granted'[j]
    BY DEF GrantInv, One
  <2>1. ~Allowed(j) /\ granted'[j] = granted[j]
    BY <1>3 DEF dests, Allowed
  <2>2. delivered[j] + One(DaemonHand(j)) <= granted[j]
    BY <1>1, <2>1 DEF GrantInv
  <2>3. DaemonHand(j)' => DaemonHand(j)
    BY <1>1, <2>1, HandComes
  <2>4. CASE delivered'[j] = delivered[j]
    BY <1>2, <2>1, <2>2, <2>3, <2>4 DEF One
  <2>5. CASE delivered'[j] # delivered[j]
    <3>1. PICK w \in Worker : /\ WhatsAppAccepts(w) /\ cur[w] = j
                              /\ delivered'[j] = delivered[j] + 1
      BY <1>1, <2>5, DeliveryComes
    <3>2. w = Daemon
      BY <3>1 DEF WhatsAppAccepts, Simulated, IsDry, Worker
    <3>3. DaemonHand(j) /\ ~DaemonHand(j)'
      BY <1>1, <3>1, <3>2 DEF WhatsAppAccepts, WorkersType, DaemonHand
    <3> QED BY <1>2, <2>1, <2>2, <3>1, <3>3 DEF One
  <2> QED BY <2>4, <2>5
<1>4. CASE ~UNCHANGED dests
  <2> SUFFICES ASSUME ~Allowed(j)' PROVE delivered'[j] + One(DaemonHand(j)') <= granted'[j]
    BY DEF GrantInv, One
  <2>1. Grant /\ delivered' = delivered
    BY <1>4, AllowlistChanges DEF history
  <2>2. CASE Allowed(j)
    <3>1. granted'[j] = delivered[j] + (IF InHand(j)' THEN 1 ELSE 0)
      BY <1>1, <2>1, <2>2 DEF Grant
    <3>2. DaemonHand(j)' => InHand(j)'
      BY <1>1 DEF DaemonHand, InHand
    <3> QED BY <1>2, <2>1, <3>1, <3>2 DEF One
  <2>3. CASE ~Allowed(j)
    <3>1. granted'[j] = granted[j]
      BY <1>1, <2>1, <2>3 DEF Grant
    <3>2. DaemonHand(j)' => DaemonHand(j)
      BY <1>1, <2>3, HandComes
    <3> QED BY <1>1, <1>2, <2>1, <2>3, <3>1, <3>2 DEF GrantInv, One
  <2> QED BY <2>2, <2>3
<1> QED BY <1>3, <1>4

(* While a group is denied at most the one message that the daemon had     *)
(* looked up before the denial reaches it, and once: whatever the worker   *)
(* was pacing, requeues or finds after a crash, and whatever an enqueue    *)
(* call or `queue retry` adds later, is not sent (QueueWorker.processOnce  *)
(* against DestinationRepository and the refresh).                         *)
THEOREM DenialHolds == Spec => []NoneAfterDenial
<1>1. JobAssumption /\ WorkerAssumption /\ BoundAssumption /\ Init => DenialInv
  <2> SUFFICES ASSUME JobAssumption, WorkerAssumption, BoundAssumption, Init PROVE DenialInv
    OBVIOUS
  <2>1. ASSUME NEW j \in Live PROVE GrantInv(j)
    BY DEF Init, Live, GrantInv, DaemonHand, One, Worker
  <2> QED BY <2>1, QueueStarts DEF DenialInv
<1>2. ASSUME JobAssumption, WorkerAssumption, BoundAssumption, DenialInv, [Next]_vars
      PROVE  DenialInv'
  <2>1. QueueInv'
    BY <1>2, QueueKept DEF DenialInv
  <2> QED BY <1>2, <2>1, DenialKept DEF DenialInv
<1>3. DenialInv => NoneAfterDenial
  <2> SUFFICES ASSUME DenialInv, NEW j \in Job, ~Allowed(j) PROVE delivered[j] <= granted[j]
    BY DEF NoneAfterDenial
  <2>1. delivered[j] \in Nat /\ granted[j] \in Nat
    BY TypeParts DEF DenialInv, QueueInv, AccountInv, IInv, HistoryType, DestsType
  <2>2. CASE j \in DryJob
    BY <2>1, <2>2 DEF DenialInv, QueueInv, AccountInv, ModeRespected
  <2>3. CASE j \notin DryJob
    BY <2>1, <2>3 DEF DenialInv, GrantInv, Live, One
  <2> QED BY <2>2, <2>3
<1> QED BY JobAssumption, WorkerAssumption, BoundAssumption, <1>1, <1>2, <1>3, PTL DEF Spec

-----------------------------------------------------------------------------
(* The daemon's worker and its abstract life.                              *)

(* The flag is down while there is no worker to read it.                   *)
Unflagged == Place = "away" => ~stopping

(* A step of somebody else leaves the daemon's worker where it is, and the *)
(* end of its own round leaves it idle, or gone and its flag with it.      *)
LEMMA RoundEnds ==
  ASSUME WorkersType, NEW w \in Worker, Rest(w) \/ Die(w)
  PROVE  /\ w # Daemon => pc'[Daemon] = pc[Daemon] /\ stopping' = stopping
         /\ w = Daemon => \/ pc'[Daemon] = "idle" /\ stopping' = stopping
                          \/ pc'[Daemon] = "off" /\ stopping' = FALSE
<1> Daemon \in Worker
  BY DEF Worker
<1>1. CASE Rest(w)
  BY <1>1 DEF Rest, Release, WorkersType
<1>2. CASE Die(w)
  BY <1>2 DEF Die, Release, WorkersType
<1> QED BY <1>1, <1>2

LEMMA RoundStep ==
  ASSUME WorkersType, NEW w \in Worker, Rest(w) \/ Die(w),
         w = Daemon => pc[w] \in {"polled", "claimed", "cleared", "dropping", "sending", "refusing"}
  PROVE  [Loop!Next]_(Loop!vars)
<1>1. CASE w # Daemon
  BY <1>1, RoundEnds DEF Loop!vars, Place
<1>2. CASE w = Daemon
  <2>1. pc[Daemon] \in {"polled", "claimed", "cleared", "dropping", "sending", "refusing"}
    BY <1>2
  <2>2. CASE pc'[Daemon] = "idle" /\ stopping' = stopping
    BY <2>1, <2>2 DEF Loop!vars, Loop!Next, Loop!PutBack, Loop!Answer, Place
  <2>3. CASE pc'[Daemon] = "off" /\ stopping' = FALSE
    BY <2>1, <2>3 DEF Loop!Next, Loop!Leave, Place
  <2> QED BY <1>2, <2>2, <2>3, RoundEnds
<1> QED BY <1>1, <1>2

LEMMA ProcessStep ==
  ASSUME WorkersType, WorkInv, NEW w \in Worker, Process(w)
  PROVE  [Loop!Next]_(Loop!vars)
<1> Daemon \in Worker
  BY DEF Worker
<1>1. CASE LapsePause(w) \/ Poll(w)
  BY <1>1 DEF LapsePause, Poll, Unpaused, WorkersType, Loop!vars, Place
<1>2. CASE NothingToClaim(w) \/ AbandonBeforeSend(w) \/ RefuseBeforeSend(w)
  BY <1>2, RoundStep DEF NothingToClaim, AbandonBeforeSend, RefuseBeforeSend, Settle
<1>3. ASSUME NEW j \in Job, Claim(w, j) PROVE [Loop!Next]_(Loop!vars)
  <2>1. pc' = [pc EXCEPT ![w] = "claimed"] /\ pc[w] = "polled" /\ stopping' = stopping
    BY <1>3 DEF Claim
  <2>2. CASE w = Daemon
    BY <2>1, <2>2 DEF WorkInv, WorkersType, Loop!Next, Loop!Take, Place
  <2>3. CASE w # Daemon
    BY <2>1, <2>3 DEF WorkersType, Loop!vars, Place
  <2> QED BY <2>2, <2>3
<1>4. CASE BeginSend(w)
  <2>1. pc' = [pc EXCEPT ![w] = "sending"] /\ pc[w] = "cleared" /\ stopping' = stopping
    BY <1>4 DEF BeginSend
  <2>2. CASE w = Daemon
    <3>1. ~stopping
      BY <2>1, <2>2 DEF WorkInv
    <3> QED BY <2>1, <2>2, <3>1 DEF WorkersType, Loop!Next, Loop!Send, Place
  <2>3. CASE w # Daemon
    BY <2>1, <2>3 DEF WorkersType, Loop!vars, Place
  <2> QED BY <2>2, <2>3
<1>5. CASE Recheck(w)
  BY <1>5 DEF Recheck, WorkersType, Loop!vars, Place
<1> QED BY <1>1, <1>2, <1>3, <1>4, <1>5 DEF Process

LEMMA FinishStep ==
  ASSUME WorkersType, NEW w \in Worker, WhatsAppAccepts(w) \/ Finish(w)
  PROVE  [Loop!Next]_(Loop!vars)
<1> Daemon \in Worker
  BY DEF Worker
<1>1. CASE WhatsAppAccepts(w)
  BY <1>1 DEF WhatsAppAccepts, Loop!vars, Place
<1>2. CASE SendSucceeds(w) \/ SendFails(w)
  BY <1>2, RoundStep DEF SendSucceeds, SendFails, Settle
<1>3. ASSUME NEW e \in ErrorClass, RetryLater(w, e) \/ RateLimited(w, e)
      PROVE  [Loop!Next]_(Loop!vars)
  BY <1>3, RoundStep DEF RetryLater, RateLimited, Settle
<1>4. ASSUME NEW e \in ErrorClass, PauseForLogin(w, e) PROVE [Loop!Next]_(Loop!vars)
  <2>1. w = Daemon /\ pc[Daemon] = "sending"
    BY <1>4, DaemonPauses DEF PauseForLogin
  <2>2. CASE Die(w)
    BY <2>1, <2>2, RoundStep
  <2>3. CASE Release(w, "idle") /\ stopping' = TRUE
    <3>1. pc'[Daemon] = "idle"
      BY <2>1, <2>3 DEF Release, WorkersType
    <3> QED BY <2>1, <2>3, <3>1 DEF Loop!Next, Loop!Answer, Place
  <2> QED BY <1>4, <2>2, <2>3 DEF PauseForLogin
<1>5. ASSUME NEW e \in ErrorClass, RevokeDestination(w, e) PROVE [Loop!Next]_(Loop!vars)
  BY <1>5 DEF RevokeDestination, WorkersType, Loop!vars, Place
<1> QED BY <1>1, <1>2, <1>3, <1>4, <1>5 DEF Finish

LEMMA LifeStep ==
  ASSUME WorkersType, Unflagged, DaemonLife
  PROVE  [Loop!Next]_(Loop!vars)
<1> Daemon \in Worker
  BY DEF Worker
<1>1. CASE StartDaemon
  <2>1. PICK p \in {"idle", "connecting"} : pc' = [pc EXCEPT ![Daemon] = p]
    BY <1>1 DEF StartDaemon
  <2>2. pc[Daemon] = "off" /\ pc'[Daemon] = p /\ stopping' = stopping
    BY <1>1, <2>1 DEF StartDaemon, WorkersType
  <2> QED BY <2>2 DEF Loop!vars, Loop!Next, Loop!Start, Place
<1>2. CASE StopDaemon
  BY <1>2 DEF StopDaemon, Loop!Next, Loop!Tell, Place
<1>3. CASE DaemonExits
  <2>1. pc[Daemon] = "idle" /\ pc'[Daemon] = "off" /\ stopping' = FALSE
    BY <1>3 DEF DaemonExits, Die, Release, WorkersType
  <2> QED BY <2>1 DEF Loop!Next, Loop!Leave, Place
<1>4. CASE ConnectionOpens
  <2>1. CASE pc[Daemon] = "connecting"
    <3>1. pc'[Daemon] = "idle" /\ stopping' = stopping
      BY <1>4, <2>1 DEF ConnectionOpens, WorkersType
    <3> QED BY <2>1, <3>1 DEF Loop!Next, Loop!Start, Place
  <2>2. CASE pc[Daemon] # "connecting"
    <3>1. pc'[Daemon] = pc[Daemon] /\ stopping' = stopping
      BY <1>4, <2>2 DEF ConnectionOpens, WorkersType
    <3> QED BY <3>1 DEF Loop!vars, Place
  <2> QED BY <2>1, <2>2
<1>5. ASSUME NEW reason, ConnectFails(reason) PROVE [Loop!Next]_(Loop!vars)
  BY <1>5 DEF ConnectFails, WorkersType, Loop!vars, Place
<1>6. ASSUME NEW reason, ConnectionEnds(reason) PROVE [Loop!Next]_(Loop!vars)
  BY <1>6 DEF ConnectionEnds, workers, Loop!vars, Place
<1>7. CASE Login \/ Logout
  BY <1>7 DEF Login, Logout, workers, Loop!vars, Place
<1>8. ASSUME NEW w \in Worker, Crash(w) PROVE [Loop!Next]_(Loop!vars)
  <2>1. CASE w = Daemon
    <3>1. pc[Daemon] # "off" /\ pc'[Daemon] = "off" /\ stopping' = FALSE
      BY <1>8, <2>1 DEF Crash, Die, Release, WorkersType
    <3>2. CASE pc[Daemon] = "connecting"
      BY <3>1, <3>2 DEF Unflagged, WorkersType, Loop!vars, Place
    <3>3. CASE pc[Daemon] \in {"idle", "lapsed", "polled", "claimed", "cleared", "dropping",
                                "sending", "refusing"}
      BY <3>1, <3>3 DEF Loop!Next, Loop!Leave, Place
    <3> QED BY <3>1, <3>2, <3>3 DEF WorkersType
  <2>2. CASE w # Daemon
    BY <1>8, <2>2, RoundStep DEF Crash
  <2> QED BY <2>1, <2>2
<1> QED BY <1>1, <1>2, <1>3, <1>4, <1>5, <1>6, <1>7, <1>8 DEF DaemonLife

(* The daemon's worker lives as WorkerLife promises: once the operator, a  *)
(* signal or a lost login has told it to stop it claims no job and hands   *)
(* none to the transport, whatever other processes do to the queue between *)
(* its polls (queue-worker.ts: run, processOnce and pace).                 *)
THEOREM WorkerLives == Spec => ImplementsWorkerLife
<1>1. Init => Loop!Init /\ Unflagged
  BY DEF Init, Worker, Loop!Init, Unflagged, Place
<1>2. QueueInv /\ Unflagged /\ [Next]_vars => [Loop!Next]_(Loop!vars)
  <2> SUFFICES ASSUME QueueInv, Unflagged, [Next]_vars PROVE [Loop!Next]_(Loop!vars)
    OBVIOUS
  <2>1. WorkersType /\ WorkInv /\ Daemon \in Worker
    BY TypeParts DEF QueueInv, AccountInv, IInv, Worker
  <2>2. ASSUME UNCHANGED workers PROVE [Loop!Next]_(Loop!vars)
    BY <2>2 DEF workers, Loop!vars, Place
  <2>3. ASSUME NEW j \in Job, Enqueue(j) PROVE [Loop!Next]_(Loop!vars)
    <3>1. CASE CheckDestination(j) \/ Insert(j) \/ DropEnqueue(j)
      BY <2>2, <3>1 DEF CheckDestination, Insert, DropEnqueue
    <3>2. ASSUME NEW w \in Cli, InsertAndSimulate(w, j) PROVE [Loop!Next]_(Loop!vars)
      <4>1. w # Daemon
        BY WorkerAssumption
      <4> QED BY <2>1, <3>2, <4>1 DEF InsertAndSimulate, WorkersType, Loop!vars, Place
    <3> QED BY <2>3, <3>1, <3>2 DEF Enqueue
  <2>4. CASE Operate \/ Time \/ UNCHANGED vars
    BY <2>2, <2>4 DEF Operate, Allow, Deny, Refresh, Cancel, Retry, MarkSent, Time, ElapsePause,
       Elapse, vars
  <2> QED BY <2>1, <2>3, <2>4, ProcessStep, FinishStep, LifeStep DEF Next
<1>3. Unflagged /\ [Loop!Next]_(Loop!vars) => Unflagged'
  BY DEF Unflagged, Loop!Next, Loop!Start, Loop!Take, Loop!PutBack, Loop!Send, Loop!Answer,
     Loop!Tell, Loop!Leave, Loop!vars
<1> QED BY Invariant, <1>1, <1>2, <1>3, PTL DEF Spec, ImplementsWorkerLife, Loop!Spec
=============================================================================
