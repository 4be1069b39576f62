---------------------------- MODULE DeliveryProofs ----------------------------
(***************************************************************************)
(* Theorems about Delivery, for every number of jobs, keys, destinations   *)
(* and dry-run processes and for every bound: its types, then that the     *)
(* queue implements the abstract life of a job and that two equivalent     *)
(* jobs are never active or delivered together.                            *)
(***************************************************************************)
EXTENDS Delivery, TLAPS

(* TypeOK, by the groups of variables that the actions change together.    *)
RowsType ==
  /\ status \in [Job -> Status \cup {"NONE"}]
  /\ attempts \in [Job -> Nat]
  /\ queue \in [Job -> SUBSET Job]

DestsType ==
  /\ enabled \in [Destination -> BOOLEAN]
  /\ canSend \in [Destination -> BOOLEAN]
  /\ granted \in [Job -> Nat]

PausesType ==
  /\ pauseReason \in AuthReasons \cup {"NONE", "RATE_LIMITED"}
  /\ pauseUntil \in {"NONE", "FUTURE", "PAST"}

WorkersType ==
  /\ pc \in [Worker -> {"off", "connecting", "idle", "lapsed", "polled",
                        "claimed", "cleared", "dropping", "sending",
                        "refusing"}]
  /\ cur \in [Worker -> Job \cup {NoJob}]
  /\ snap \in [Worker -> Nat]
  /\ accepted \in [Worker -> BOOLEAN]
  /\ stopping \in BOOLEAN
  /\ dryRun \in BOOLEAN

HistoryType ==
  /\ delivered \in [Job -> Nat]
  /\ retried \in [Job -> Nat]
  /\ marked \subseteq Job
  /\ unsure \in [Job -> Nat]
  /\ stops \in Nat

LEMMA TypeParts ==
  /\ TypeOK <=> RowsType /\ checked \subseteq Job /\ DestsType /\ PausesType
                /\ WorkersType /\ HistoryType
  /\ TypeOK' <=> RowsType' /\ checked' \subseteq Job /\ DestsType' /\ PausesType'
                 /\ WorkersType' /\ HistoryType'
BY DEF TypeOK, RowsType, DestsType, PausesType, WorkersType, HistoryType

(* Groups of variables that a step leaves alone keep their type.           *)
LEMMA SameType ==
  /\ RowsType /\ UNCHANGED rows => RowsType'
  /\ DestsType /\ UNCHANGED dests => DestsType'
  /\ PausesType /\ UNCHANGED pauses => PausesType'
  /\ WorkersType /\ UNCHANGED workers => WorkersType'
  /\ HistoryType /\ UNCHANGED history => HistoryType'
<1>1. RowsType /\ UNCHANGED rows => RowsType'
  BY DEF RowsType, rows
<1>2. DestsType /\ UNCHANGED dests => DestsType'
  BY DEF DestsType, dests
<1>3. PausesType /\ UNCHANGED pauses => PausesType'
  BY DEF PausesType, pauses
<1>4. WorkersType /\ UNCHANGED workers => WorkersType'
  BY DEF WorkersType, workers
<1>5. HistoryType /\ UNCHANGED history => HistoryType'
  BY DEF HistoryType, history
<1> QED BY <1>1, <1>2, <1>3, <1>4, <1>5

LEMMA InitType == Init => TypeOK
<1> SUFFICES ASSUME Init PROVE TypeOK
  OBVIOUS
<1>1. RowsType /\ checked \subseteq Job /\ PausesType
  BY DEF Init, RowsType, PausesType
<1>2. DestsType
  BY DEF Init, DestsType
<1>3. WorkersType
  BY DEF Init, WorkersType
<1>4. HistoryType
  BY DEF Init, HistoryType
<1> QED BY <1>1, <1>2, <1>3, <1>4, TypeParts

-----------------------------------------------------------------------------
(* Operators that several actions share.                                   *)

LEMMA GrantType ==
  ASSUME DestsType, HistoryType, Grant
  PROVE  granted' \in [Job -> Nat]
BY DEF Grant, DestsType, HistoryType

LEMMA WithoutType ==
  ASSUME RowsType, NEW J
  PROVE  Without(J) \in [Job -> SUBSET Job]
BY DEF RowsType, Without

LEMMA WithLastType ==
  ASSUME RowsType, NEW j
  PROVE  WithLast(j) \in [Job -> SUBSET Job]
BY DEF RowsType, WithLast

LEMMA CancelUnsentType ==
  ASSUME RowsType, NEW J, CancelUnsent(J)
  PROVE  RowsType'
BY WithoutType DEF CancelUnsent, RowsType, Status

LEMMA InsertRowType ==
  ASSUME RowsType, checked \subseteq Job, NEW j \in Job,
         NEW s \in {"PENDING", "SCHEDULED"}, InsertRow(j, s)
  PROVE  RowsType' /\ checked' \subseteq Job
BY WithLastType DEF InsertRow, RowsType, Status, Unsent

(* One more of what a history variable counts, for whatever job it is.     *)
LEMMA CountType ==
  ASSUME NEW f \in [Job -> Nat], NEW j
  PROVE  [f EXCEPT ![j] = @ + 1] \in [Job -> Nat]
<1>1. ASSUME NEW k \in Job PROVE [f EXCEPT ![j] = @ + 1][k] \in Nat
  <2>1. CASE k = j
    BY <2>1
  <2>2. CASE k # j
    BY <2>2
  <2> QED BY <2>1, <2>2
<1> QED BY <1>1

LEMMA RequeuedType ==
  ASSUME HistoryType, NEW w, Requeued(w)
  PROVE  unsure' \in [Job -> Nat]
BY CountType DEF Requeued, HistoryType

LEMMA ReleaseType ==
  ASSUME WorkersType, NEW w \in Worker, NEW p \in {"off", "idle"}, Release(w, p),
         stopping' \in BOOLEAN, UNCHANGED dryRun
  PROVE  WorkersType'
BY DEF Release, WorkersType

LEMMA EndType ==
  ASSUME WorkersType, NEW w \in Worker, Rest(w) \/ Die(w)
  PROVE  WorkersType'
<1>1. CASE Rest(w)
  BY <1>1, ReleaseType DEF Rest, WorkersType
<1>2. CASE Die(w)
  <2>1. stopping' \in BOOLEAN
    BY <1>2 DEF Die
  <2> QED BY <1>2, <2>1, ReleaseType DEF Die
<1> QED BY <1>1, <1>2

LEMMA SettleType ==
  ASSUME RowsType, WorkersType, NEW w \in Worker, NEW s \in Status,
         NEW q \in [Job -> SUBSET Job], Settle(w, s, q)
  PROVE  RowsType' /\ WorkersType'
<1>1. Rest(w) \/ Die(w)
  BY DEF Settle
<1>2. RowsType'
  BY DEF Settle, RowsType, rows
<1> QED BY <1>1, <1>2, EndType

-----------------------------------------------------------------------------
(* Every group of actions preserves TypeOK.                                *)

LEMMA EnqueueType ==
  ASSUME TypeOK, NEW j \in Job, Enqueue(j)
  PROVE  TypeOK'
<1> USE TypeParts, SameType
<1>1. CASE CheckDestination(j)
  BY <1>1 DEF CheckDestination
<1>2. CASE Insert(j)
  BY <1>2, InsertRowType DEF Insert
<1>3. CASE DropEnqueue(j)
  BY <1>3 DEF DropEnqueue
<1>4. ASSUME NEW w \in Cli, InsertAndSimulate(w, j) PROVE TypeOK'
  <2>1. WorkersType'
    BY <1>4 DEF InsertAndSimulate, WorkersType
  <2> QED BY <1>4, <2>1, InsertRowType DEF InsertAndSimulate
<1> QED BY <1>1, <1>2, <1>3, <1>4 DEF Enqueue

LEMMA OperateType ==
  ASSUME TypeOK, Operate
  PROVE  TypeOK'
<1> USE TypeParts, SameType
<1>1. ASSUME NEW d \in Destination, Allow(d) PROVE TypeOK'
  BY <1>1, GrantType DEF Allow, DestsType
<1>2. ASSUME NEW d \in Destination, Deny(d) PROVE TypeOK'
  BY <1>2, GrantType, CancelUnsentType DEF Deny, DestsType
<1>3. ASSUME NEW sendable \in SUBSET Destination, Refresh(sendable) PROVE TypeOK'
  BY <1>3, GrantType, CancelUnsentType DEF Refresh, DestsType
<1>4. ASSUME NEW j \in Job, Cancel(j) PROVE TypeOK'
  <2>1. RowsType'
    BY <1>4, WithoutType DEF Cancel, RowsType, Status
  <2> QED BY <1>4, <2>1 DEF Cancel
<1>5. ASSUME NEW j \in Job, Retry(j) PROVE TypeOK'
  <2>1. RowsType' /\ HistoryType'
    BY <1>5, WithLastType DEF Retry, RowsType, HistoryType, Status, Unsent
  <2> QED BY <1>5, <2>1 DEF Retry
<1>6. ASSUME NEW j \in Job, MarkSent(j) PROVE TypeOK'
  <2>1. RowsType' /\ HistoryType'
    BY <1>6 DEF MarkSent, RowsType, HistoryType, Status
  <2> QED BY <1>6, <2>1 DEF MarkSent
<1> QED BY <1>1, <1>2, <1>3, <1>4, <1>5, <1>6 DEF Operate

LEMMA ProcessType ==
  ASSUME TypeOK, NEW w \in Worker, Process(w)
  PROVE  TypeOK'
<1> USE TypeParts, SameType
<1>1. CASE Poll(w)
  <2>1. RowsType'
    BY <1>1, WithoutType DEF Poll, Housekept, RowsType, Status, Unsent
  <2>2. PausesType'
    BY <1>1 DEF Poll, Unpaused, PausesType, pauses
  <2>3. WorkersType'
    BY <1>1 DEF Poll, WorkersType
  <2> QED BY <1>1, <2>1, <2>2, <2>3 DEF Poll
<1>2. CASE NothingToClaim(w)
  BY <1>2, EndType DEF NothingToClaim
<1>3. ASSUME NEW j \in Job, Claim(w, j) PROVE TypeOK'
  <2>1. RowsType'
    BY <1>3, WithoutType DEF Claim, RowsType, Status
  <2>2. WorkersType'
    BY <1>3 DEF Claim, WorkersType, RowsType
  <2> QED BY <1>3, <2>1, <2>2 DEF Claim
<1>4. CASE AbandonBeforeSend(w)
  BY <1>4, SettleType, WithLastType DEF AbandonBeforeSend, Status, Unsent
<1>5. CASE RefuseBeforeSend(w)
  BY <1>5, SettleType DEF RefuseBeforeSend, RowsType, Status
<1>6. CASE Recheck(w) \/ BeginSend(w)
  <2>1. WorkersType'
    BY <1>6 DEF Recheck, BeginSend, WorkersType
  <2> QED BY <1>6, <2>1 DEF Recheck, BeginSend
<1>7. CASE LapsePause(w)
  <2>1. WorkersType'
    BY <1>7 DEF LapsePause, WorkersType
  <2>2. PausesType'
    BY <1>7 DEF LapsePause, PausesType
  <2> QED BY <1>7, <2>1, <2>2 DEF LapsePause
<1> QED BY <1>1, <1>2, <1>3, <1>4, <1>5, <1>6, <1>7 DEF Process

LEMMA SendType ==
  ASSUME TypeOK, NEW w \in Worker, WhatsAppAccepts(w) \/ Finish(w)
  PROVE  TypeOK'
<1> USE TypeParts, SameType
<1>1. CASE WhatsAppAccepts(w)
  <2>1. WorkersType'
    BY <1>1 DEF WhatsAppAccepts, WorkersType
  <2>2. HistoryType'
    BY <1>1, CountType DEF WhatsAppAccepts, HistoryType
  <2> QED BY <1>1, <2>1, <2>2 DEF WhatsAppAccepts
<1>2. CASE SendSucceeds(w)
  <2>1. RowsType'
    BY <1>2 DEF SendSucceeds, RowsType, Status
  <2> QED BY <1>2, <2>1, EndType DEF SendSucceeds
<1>3. CASE SendFails(w)
  BY <1>3, SettleType DEF SendFails, RowsType, Status
<1>4. ASSUME NEW e \in ErrorClass, RetryLater(w, e) PROVE TypeOK'
  <2>1. HistoryType'
    BY <1>4, RequeuedType DEF RetryLater, HistoryType
  <2> QED BY <1>4, <2>1, SettleType DEF RetryLater, RowsType, Status, Unsent
<1>5. ASSUME NEW e \in ErrorClass, RateLimited(w, e) PROVE TypeOK'
  <2>1. PausesType'
    BY <1>5 DEF RateLimited, PausesType, pauses
  <2> QED BY <1>5, <2>1, SettleType DEF RateLimited, RowsType, Status, Unsent
<1>6. ASSUME NEW e \in ErrorClass, PauseForLogin(w, e) PROVE TypeOK'
  <2>1. e \in AuthReasons
    BY <1>6 DEF PauseForLogin, Decision, DecideRetry, AuthReasons
  <2>2. RowsType'
    BY <1>6 DEF PauseForLogin, RowsType, Status, Unsent
  <2>3. PausesType'
    BY <1>6, <2>1 DEF PauseForLogin, PausesType
  <2>4. WorkersType'
    BY <1>6, ReleaseType, EndType DEF PauseForLogin
  <2>5. HistoryType'
    BY <1>6, RequeuedType DEF PauseForLogin, HistoryType
  <2> QED BY <1>6, <2>2, <2>3, <2>4, <2>5 DEF PauseForLogin
<1>7. ASSUME NEW e \in ErrorClass, RevokeDestination(w, e) PROVE TypeOK'
  <2>1. WorkersType'
    BY <1>7 DEF RevokeDestination, WorkersType
  <2>2. DestsType'
    BY <1>7, GrantType DEF RevokeDestination, DestsType
  <2> QED BY <1>7, <2>1, <2>2, CancelUnsentType DEF RevokeDestination
<1> QED BY <1>1, <1>2, <1>3, <1>4, <1>5, <1>6, <1>7 DEF Finish

LEMMA DaemonType ==
  ASSUME TypeOK, DaemonLife \/ Time
  PROVE  TypeOK'
<1> USE TypeParts, SameType
<1> Daemon \in Worker
  BY DEF Worker
<1>1. CASE StartDaemon
  <2>1. RowsType'
    BY <1>1 DEF StartDaemon, RowsType, Recovered, Status
  <2>2. WorkersType'
    <3>1. PICK dry \in DryRuns :
            /\ dryRun' = dry
            /\ pc' = [pc EXCEPT ![Daemon] = IF dry THEN "idle" ELSE "connecting"]
      BY <1>1 DEF StartDaemon
    <3>2. dryRun' \in BOOLEAN
      BY <3>1, BoundAssumption
    <3> QED BY <1>1, <3>1, <3>2 DEF StartDaemon, WorkersType
  <2> QED BY <1>1, <2>1, <2>2 DEF StartDaemon
<1>2. CASE StopDaemon
  BY <1>2 DEF StopDaemon, WorkersType, HistoryType
<1>3. CASE DaemonExits
  BY <1>3, EndType DEF DaemonExits
<1>4. CASE ConnectionOpens
  <2>1. WorkersType'
    BY <1>4 DEF ConnectionOpens, WorkersType
  <2>2. PausesType'
    BY <1>4 DEF ConnectionOpens, PausesType
  <2> QED BY <1>4, <2>1, <2>2 DEF ConnectionOpens
<1>5. CASE Login \/ Logout
  <2>1. PausesType'
    BY <1>5 DEF Login, Logout, PausesType, AuthReasons, AuthErrors
  <2> QED BY <1>5, <2>1 DEF Login, Logout
<1>6. ASSUME NEW reason \in AuthReasons \cup {pauseReason}, ConnectFails(reason)
      PROVE  TypeOK'
  <2>1. WorkersType'
    BY <1>6 DEF ConnectFails, WorkersType
  <2>2. PausesType'
    BY <1>6 DEF ConnectFails, PausesType
  <2> QED BY <1>6, <2>1, <2>2 DEF ConnectFails
<1>7. ASSUME NEW reason \in {"LOGGED_OUT", "FATAL"}, ConnectionEnds(reason)
      PROVE  TypeOK'
  <2>1. PausesType'
    BY <1>7 DEF ConnectionEnds, PausesType, AuthReasons, AuthErrors
  <2> QED BY <1>7, <2>1 DEF ConnectionEnds
<1>8. ASSUME NEW w \in Worker, Crash(w) PROVE TypeOK'
  BY <1>8, EndType DEF Crash, HistoryType
<1>9. ASSUME NEW j \in Job, Elapse(j) PROVE TypeOK'
  BY <1>9, WithLastType DEF Elapse, RowsType
<1>10. CASE ElapsePause
  BY <1>10 DEF ElapsePause, PausesType
<1> QED BY <1>1, <1>2, <1>3, <1>4, <1>5, <1>6, <1>7, <1>8, <1>9, <1>10
        DEF DaemonLife, Time

LEMMA NextType == TypeOK /\ [Next]_vars => TypeOK'
<1> SUFFICES ASSUME TypeOK, [Next]_vars PROVE TypeOK'
  OBVIOUS
<1>1. CASE Next
  BY <1>1, EnqueueType, OperateType, ProcessType, SendType, DaemonType DEF Next
<1>2. CASE UNCHANGED vars
  BY <1>2, TypeParts, SameType DEF vars
<1> QED BY <1>1, <1>2

(* Every reachable state of the queue, its operators, its workers and the  *)
(* daemon's life is well typed.                                            *)
THEOREM TypeCorrect == Spec => []TypeOK
BY InitType, NextType, PTL DEF Spec

-----------------------------------------------------------------------------
(* An enqueue call that has checked its destination has no row yet.        *)
Fresh == \A j \in checked : status[j] = "NONE"

(* A worker past its claim holds a job.                                    *)
Holding ==
  \A w \in Worker :
    pc[w] \in {"claimed", "cleared", "dropping", "sending", "refusing"} => cur[w] \in Job

IInv == TypeOK /\ Fresh /\ Holding /\ OneJobPerKey

-----------------------------------------------------------------------------
(* The four ways in which a step of the system touches the job table.      *)

Untouched ==
  status' = status /\ \A j \in checked' : j \in checked \/ status[j] = "NONE"

(* A statement over many rows: none of them enters the index.              *)
Bulk ==
  /\ checked' = checked
  /\ \A j \in Job :
       status'[j] = status[j]
         \/ /\ <<status[j], status'[j]>> \in Transition
            /\ status'[j] \in Indexed => status[j] \in Indexed

(* A row takes the new status s, which the index accepts.                  *)
Moves(j, s) ==
  /\ checked' = checked
  /\ status' = [status EXCEPT ![j] = s]
  /\ <<status[j], s>> \in Transition
  /\ s \in Indexed => KeyFree(j) \/ status[j] \in Indexed

(* A row is created.                                                       *)
Created(j, s) ==
  /\ checked' = checked \ {j}
  /\ status' = [status EXCEPT ![j] = s]
  /\ status[j] = "NONE" /\ s \in {"PENDING", "SCHEDULED"}
  /\ KeyFree(j)

Change ==
  Untouched \/ Bulk \/ \E j \in Job, s \in Status : Moves(j, s) \/ Created(j, s)

(* The abstract life is stated over the same vocabulary.                   *)
LEMMA SameWords ==
  /\ Promise!Status = Status
  /\ Promise!Indexed = Indexed
  /\ Promise!Transition = Transition
<1>1. Promise!Unsent = Unsent
  BY DEF Promise!Unsent, Unsent
<1> QED
  BY <1>1 DEF Promise!Status, Status, Promise!Indexed, Indexed, Promise!Transition, Transition

(* No transition starts where there is no row.                             *)
LEMMA NoTransitionFromNone == \A s : <<"NONE", s>> \notin Transition
  BY DEF Transition

(* A row that alone changes its status keeps the index satisfied.          *)
LEMMA RowKeepsIndex ==
  ASSUME RowsType, OneJobPerKey, NEW j \in Job, NEW s \in Status,
         status' = [status EXCEPT ![j] = s],
         s \in Indexed => KeyFree(j) \/ status[j] \in Indexed
  PROVE  OneJobPerKey'
<1>1. \A i \in Job \ {j} : status'[i] = status[i]
  BY DEF RowsType
<1>2. status'[j] = s
  BY DEF RowsType
<1>3. CASE s \notin Indexed \/ status[j] \in Indexed
  BY <1>1, <1>2, <1>3 DEF OneJobPerKey
<1>4. CASE s \in Indexed /\ KeyFree(j)
  BY <1>1, <1>4 DEF OneJobPerKey, KeyFree
<1> QED BY <1>3, <1>4

(* Every change keeps the keys of active rows distinct.                    *)
LEMMA ChangeKeepsIndex ==
  ASSUME RowsType, OneJobPerKey, Change
  PROVE  OneJobPerKey'
<1>1. CASE Untouched
  BY <1>1 DEF Untouched, OneJobPerKey
<1>2. CASE Bulk
  BY <1>2 DEF Bulk, OneJobPerKey
<1>3. ASSUME NEW j \in Job, NEW s \in Status, Moves(j, s) \/ Created(j, s)
      PROVE  OneJobPerKey'
  BY <1>3, RowKeepsIndex DEF Moves, Created
<1> QED BY <1>1, <1>2, <1>3 DEF Change

(* Only the creation of a row gives a status to what had none.             *)
LEMMA ChangeKeepsFresh ==
  ASSUME RowsType, checked \subseteq Job, Fresh, Change
  PROVE  Fresh'
<1>1. CASE Untouched
  BY <1>1 DEF Untouched, Fresh
<1>2. CASE Bulk
  BY <1>2, NoTransitionFromNone DEF Bulk, Fresh
<1>3. ASSUME NEW j \in Job, NEW s \in Status, Moves(j, s)
      PROVE  Fresh'
  <2>1. j \notin checked
    BY <1>3, NoTransitionFromNone DEF Moves, Fresh
  <2> QED BY <1>3, <2>1 DEF Moves, Fresh, RowsType
<1>4. ASSUME NEW j \in Job, NEW s \in Status, Created(j, s)
      PROVE  Fresh'
  BY <1>4 DEF Created, Fresh, RowsType
<1> QED BY <1>1, <1>2, <1>3, <1>4 DEF Change

(* Every change is a step of the abstract life, or leaves it alone.        *)
LEMMA ChangeIsStep ==
  ASSUME RowsType, RowsType', OneJobPerKey, Change
  PROVE  [Promise!Next]_status
<1>1. Promise!KeysDistinct(status')
  BY ChangeKeepsIndex, SameWords DEF OneJobPerKey, Promise!KeysDistinct
<1>2. status' \in [Job -> Promise!Status \cup {"NONE"}]
  BY SameWords DEF RowsType
<1>3. CASE Untouched
  BY <1>3 DEF Untouched
<1>4. CASE Bulk
  <2>1. \A i \in Job : Promise!Move(i)
    BY <1>4, SameWords DEF Bulk, Promise!Move
  <2> QED BY <1>1, <1>2, <2>1 DEF Promise!Next
<1>5. ASSUME NEW j \in Job, NEW s \in Status, Moves(j, s) \/ Created(j, s)
      PROVE  [Promise!Next]_status
  <2>1. \A i \in Job \ {j} : status'[i] = status[i]
    BY <1>5 DEF Moves, Created, RowsType
  <2>2. status'[j] = s
    BY <1>5 DEF Moves, Created, RowsType
  <2>3. Promise!Move(j)
    BY <1>5, <2>2, SameWords DEF Moves, Created, Promise!Move
  <2>4. \A i \in Job : Promise!Move(i)
    BY <2>1, <2>3 DEF Promise!Move
  <2> QED BY <1>1, <1>2, <2>4 DEF Promise!Next
<1> QED BY <1>3, <1>4, <1>5 DEF Change

-----------------------------------------------------------------------------
(* Every action is such a change.  First the operators actions share.      *)

LEMMA StillIsChange ==
  ASSUME status' = status, checked' \subseteq checked
  PROVE  Change
BY DEF Change, Untouched

LEMMA MoveIsChange ==
  ASSUME NEW j \in Job, NEW s \in Status, CanMove(j, s),
         status' = [status EXCEPT ![j] = s], checked' = checked
  PROVE  Change
BY DEF CanMove, Moves, Change

LEMMA SettleIsChange ==
  ASSUME NEW w \in Worker, cur[w] \in Job, NEW s \in Status, NEW q,
         Settle(w, s, q), checked' = checked
  PROVE  Change
<1>1. CASE CanMove(cur[w], s) /\ status' = [status EXCEPT ![cur[w]] = s]
  BY <1>1, MoveIsChange
<1>2. CASE UNCHANGED rows
  BY <1>2, StillIsChange DEF rows
<1> QED BY <1>1, <1>2 DEF Settle

LEMMA CancelIsChange ==
  ASSUME RowsType, NEW J, CancelUnsent(J), checked' = checked
  PROVE  Change
<1>1. ASSUME NEW j \in Job, status'[j] # status[j]
      PROVE  <<status[j], status'[j]>> \in Transition /\ status'[j] \notin Indexed
  <2>1. status[j] \in Unsent /\ status'[j] = "CANCELLED"
    BY <1>1 DEF CancelUnsent
  <2> QED BY <2>1 DEF Transition, Indexed, Unsent
<1> QED BY <1>1 DEF Change, Bulk

LEMMA InsertIsChange ==
  ASSUME Fresh, NEW j \in Job, NEW s \in {"PENDING", "SCHEDULED"}, InsertRow(j, s)
  PROVE  Change
BY DEF InsertRow, Fresh, Created, Change, Status, Unsent

LEMMA EnqueueIsChange ==
  ASSUME Fresh, NEW j \in Job, Enqueue(j)
  PROVE  Change
<1>1. CASE CheckDestination(j)
  BY <1>1 DEF CheckDestination, rows, Change, Untouched
<1>2. CASE Insert(j)
  BY <1>2, InsertIsChange DEF Insert
<1>3. CASE DropEnqueue(j)
  BY <1>3, StillIsChange DEF DropEnqueue, rows
<1>4. ASSUME NEW w \in Cli, InsertAndSimulate(w, j) PROVE Change
  BY <1>4, InsertIsChange DEF InsertAndSimulate
<1> QED BY <1>1, <1>2, <1>3, <1>4 DEF Enqueue

LEMMA OperateIsChange ==
  ASSUME RowsType, Operate
  PROVE  Change
<1>1. ASSUME NEW d \in Destination, Allow(d) PROVE Change
  BY <1>1, StillIsChange DEF Allow, rows
<1>2. ASSUME NEW d \in Destination, Deny(d) PROVE Change
  BY <1>2, CancelIsChange DEF Deny
<1>3. ASSUME NEW sendable \in SUBSET Destination, Refresh(sendable) PROVE Change
  BY <1>3, CancelIsChange DEF Refresh
<1>4. ASSUME NEW j \in Job, Cancel(j) \/ Retry(j) \/ MarkSent(j) PROVE Change
  BY <1>4, MoveIsChange DEF Cancel, Retry, MarkSent, Status, Unsent
<1> QED BY <1>1, <1>2, <1>3, <1>4 DEF Operate

(* The daemon's poll cancels what may not be sent and promotes what is due. *)
LEMMA PollIsChange ==
  ASSUME NEW w \in Worker, Poll(w)
  PROVE  Change
<1>1. ASSUME NEW j \in Job, status'[j] # status[j]
      PROVE  /\ <<status[j], status'[j]>> \in Transition
             /\ status'[j] \in Indexed => status[j] \in Indexed
  <2>1. status'[j] = Housekept(j)
    BY DEF Poll
  <2>2. \/ status[j] \in Unsent /\ status'[j] = "CANCELLED"
        \/ status[j] = "SCHEDULED" /\ status'[j] = "PENDING"
    BY <1>1, <2>1 DEF Housekept
  <2> QED BY <2>2 DEF Transition, Indexed, Unsent
<1> QED BY <1>1 DEF Poll, Change, Bulk

(* A claim needs no look at the index: the row is in it already.           *)
LEMMA ClaimIsChange ==
  ASSUME NEW w \in Worker, NEW j \in Job, Claim(w, j)
  PROVE  Change
<1>1. status[j] \in {"PENDING", "RETRY", "WAITING_RATE_LIMIT"}
  BY DEF Claim, Claimable
<1>2. Moves(j, "PROCESSING")
  BY <1>1 DEF Claim, Moves, Transition, Indexed, Unsent
<1> QED BY <1>2 DEF Change, Status

LEMMA ProcessIsChange ==
  ASSUME RowsType, Holding, NEW w \in Worker, Process(w)
  PROVE  Change
<1>1. CASE Poll(w)
  BY <1>1, PollIsChange
<1>2. CASE LapsePause(w) \/ NothingToClaim(w) \/ Recheck(w) \/ BeginSend(w)
  BY <1>2, StillIsChange DEF LapsePause, NothingToClaim, Recheck, BeginSend, rows
<1>3. ASSUME NEW j \in Job, Claim(w, j) PROVE Change
  BY <1>3, ClaimIsChange
<1>4. CASE AbandonBeforeSend(w) \/ RefuseBeforeSend(w)
  <2>1. cur[w] \in Job
    BY <1>4 DEF AbandonBeforeSend, RefuseBeforeSend, Holding
  <2> QED BY <1>4, <2>1, SettleIsChange
          DEF AbandonBeforeSend, RefuseBeforeSend, Status, Unsent
<1> QED BY <1>1, <1>2, <1>3, <1>4 DEF Process

LEMMA SendIsChange ==
  ASSUME RowsType, Holding, NEW w \in Worker, WhatsAppAccepts(w) \/ Finish(w)
  PROVE  Change
<1>1. CASE WhatsAppAccepts(w)
  BY <1>1, StillIsChange DEF WhatsAppAccepts, rows
<1> SUFFICES ASSUME Finish(w) PROVE Change
  BY <1>1
<1>2. cur[w] \in Job
  BY DEF Finish, SendSucceeds, SendFails, RetryLater, RateLimited, PauseForLogin,
         RevokeDestination, Holding
<1>3. CASE SendSucceeds(w)
  BY <1>2, <1>3, MoveIsChange DEF SendSucceeds, Status
<1>4. CASE SendFails(w)
  BY <1>2, <1>4, SettleIsChange DEF SendFails, Status
<1>5. ASSUME NEW e \in ErrorClass, RetryLater(w, e) \/ RateLimited(w, e)
      PROVE  Change
  BY <1>2, <1>5, SettleIsChange DEF RetryLater, RateLimited, Status, Unsent
<1>6. ASSUME NEW e \in ErrorClass, PauseForLogin(w, e) PROVE Change
  BY <1>2, <1>6, MoveIsChange, StillIsChange DEF PauseForLogin, Status, Unsent
<1>7. ASSUME NEW e \in ErrorClass, RevokeDestination(w, e) PROVE Change
  BY <1>7, CancelIsChange DEF RevokeDestination
<1> QED BY <1>3, <1>4, <1>5, <1>6, <1>7 DEF Finish

(* The recovery of a start takes rows out of the index, none into it.      *)
LEMMA DaemonIsChange ==
  ASSUME DaemonLife \/ Time
  PROVE  Change
<1>1. CASE StartDaemon
  <2>1. ASSUME NEW j \in Job, status'[j] # status[j]
        PROVE  <<status[j], status'[j]>> \in Transition /\ status'[j] \notin Indexed
    <3>1. status[j] = "PROCESSING" /\ status'[j] = "REVIEW_REQUIRED"
      BY <1>1, <2>1 DEF StartDaemon, Recovered
    <3> QED BY <3>1 DEF Transition, Indexed, Unsent
  <2> QED BY <1>1, <2>1 DEF StartDaemon, Change, Bulk
<1>2. CASE ~StartDaemon
  <2>1. status' = status /\ checked' = checked
    BY <1>2 DEF DaemonLife, Time, StopDaemon, DaemonExits, ConnectionOpens, Login,
       Logout, ConnectFails, ConnectionEnds, Crash, ElapsePause, Elapse, rows
  <2> QED BY <2>1, StillIsChange
<1> QED BY <1>1, <1>2

LEMMA NextIsChange ==
  ASSUME RowsType, Fresh, Holding, [Next]_vars
  PROVE  Change
<1>1. CASE Next
  BY <1>1, EnqueueIsChange, OperateIsChange, ProcessIsChange, SendIsChange,
     DaemonIsChange DEF Next
<1>2. CASE UNCHANGED vars
  BY <1>2, StillIsChange DEF vars, rows
<1> QED BY <1>1, <1>2

-----------------------------------------------------------------------------
(* A worker is past its claim only with the job it claimed.                *)

Busy == {"claimed", "cleared", "dropping", "sending", "refusing"}

(* Steps that leave the workers alone, end a round or begin one.           *)
LEMMA WorkersHold ==
  /\ Holding /\ pc' = pc /\ cur' = cur => Holding'
  /\ Holding /\ UNCHANGED workers => Holding'
BY DEF Holding, workers

LEMMA RoundHolds ==
  ASSUME WorkersType, Holding, NEW w \in Worker, NEW p,
         pc' = [pc EXCEPT ![w] = p],
         \/ p \notin Busy /\ \A v \in Worker \ {w} : cur'[v] = cur[v]
         \/ pc[w] \in Busy /\ cur' = cur
         \/ \E j \in Job : cur' = [cur EXCEPT ![w] = j]
  PROVE  Holding'
<1>1. \A v \in Worker \ {w} : pc'[v] = pc[v] /\ cur'[v] = cur[v]
  BY DEF WorkersType
<1>2. pc'[w] \in Busy => cur'[w] \in Job
  BY DEF WorkersType, Holding, Busy
<1> QED BY <1>1, <1>2 DEF Holding, Busy

LEMMA EndHolds ==
  ASSUME WorkersType, Holding, NEW w \in Worker,
         Rest(w) \/ Die(w) \/ Release(w, "idle")
  PROVE  Holding'
<1>1. PICK p \in {"idle", "off"} : Release(w, p)
  BY DEF Rest, Die
<1>2. \A v \in Worker \ {w} : cur'[v] = cur[v]
  BY <1>1 DEF Release, WorkersType
<1> QED BY <1>1, <1>2, RoundHolds DEF Release, Busy

LEMMA ProcessHolds ==
  ASSUME WorkersType, Holding, NEW w \in Worker, Process(w)
  PROVE  Holding'
<1>1. CASE LapsePause(w) \/ Poll(w)
  BY <1>1, RoundHolds DEF LapsePause, Poll, Busy
<1>2. CASE NothingToClaim(w) \/ AbandonBeforeSend(w) \/ RefuseBeforeSend(w)
  BY <1>2, EndHolds DEF NothingToClaim, AbandonBeforeSend, RefuseBeforeSend, Settle
<1>3. ASSUME NEW j \in Job, Claim(w, j) PROVE Holding'
  BY <1>3, RoundHolds DEF Claim
<1>4. CASE BeginSend(w)
  BY <1>4, RoundHolds DEF BeginSend, Busy
<1>5. CASE Recheck(w)
  <2>1. PICK p \in {"cleared", "dropping"} : pc' = [pc EXCEPT ![w] = p]
    BY <1>5 DEF Recheck
  <2> QED BY <1>5, <2>1, RoundHolds DEF Recheck, Busy
<1> QED BY <1>1, <1>2, <1>3, <1>4, <1>5 DEF Process

LEMMA SendHolds ==
  ASSUME WorkersType, Holding, NEW w \in Worker, WhatsAppAccepts(w) \/ Finish(w)
  PROVE  Holding'
<1>1. CASE WhatsAppAccepts(w)
  BY <1>1, WorkersHold DEF WhatsAppAccepts
<1>2. CASE SendSucceeds(w) \/ SendFails(w)
  BY <1>2, EndHolds DEF SendSucceeds, SendFails, Settle
<1>3. ASSUME NEW e \in ErrorClass,
             RetryLater(w, e) \/ RateLimited(w, e) \/ PauseForLogin(w, e)
      PROVE  Holding'
  BY <1>3, EndHolds DEF RetryLater, RateLimited, PauseForLogin, Settle
<1>4. ASSUME NEW e \in ErrorClass, RevokeDestination(w, e) PROVE Holding'
  BY <1>4, RoundHolds DEF RevokeDestination, Busy
<1> QED BY <1>1, <1>2, <1>3, <1>4 DEF Finish

LEMMA DaemonHolds ==
  ASSUME WorkersType, Holding, DaemonLife
  PROVE  Holding'
<1> Daemon \in Worker
  BY DEF Worker
<1>1. CASE StartDaemon
  <2>1. PICK p \in {"idle", "connecting"} : pc' = [pc EXCEPT ![Daemon] = p]
    BY <1>1 DEF StartDaemon
  <2> QED BY <1>1, <2>1, RoundHolds DEF StartDaemon, Busy
<1>2. CASE StopDaemon \/ Login \/ Logout
  BY <1>2, WorkersHold DEF StopDaemon, Login, Logout
<1>3. CASE DaemonExits
  BY <1>3, EndHolds DEF DaemonExits
<1>4. CASE ConnectionOpens
  <2> DEFINE p == IF pc[Daemon] = "connecting" THEN "idle" ELSE pc[Daemon]
  <2>1. pc' = [pc EXCEPT ![Daemon] = p]
    BY <1>4 DEF ConnectionOpens
  <2>2. p \in Busy => pc[Daemon] \in Busy
    BY DEF Busy
  <2> HIDE DEF p
  <2> QED BY <1>4, <2>1, <2>2, RoundHolds DEF ConnectionOpens
<1>5. ASSUME NEW reason, ConnectFails(reason) PROVE Holding'
  BY <1>5, RoundHolds DEF ConnectFails, Busy
<1>6. ASSUME NEW reason, ConnectionEnds(reason) PROVE Holding'
  BY <1>6, WorkersHold DEF ConnectionEnds
<1>7. ASSUME NEW w \in Worker, Crash(w) PROVE Holding'
  BY <1>7, EndHolds DEF Crash
<1> QED BY <1>1, <1>2, <1>3, <1>4, <1>5, <1>6, <1>7 DEF DaemonLife

LEMMA NextHolds ==
  ASSUME WorkersType, Holding, [Next]_vars
  PROVE  Holding'
<1>1. ASSUME NEW j \in Job, Enqueue(j) PROVE Holding'
  <2>1. CASE CheckDestination(j) \/ Insert(j) \/ DropEnqueue(j)
    BY <2>1, WorkersHold DEF CheckDestination, Insert, DropEnqueue
  <2>2. ASSUME NEW w \in Cli, InsertAndSimulate(w, j) PROVE Holding'
    BY <2>2, RoundHolds DEF InsertAndSimulate, Worker
  <2> QED BY <1>1, <2>1, <2>2 DEF Enqueue
<1>2. CASE Operate
  BY <1>2, WorkersHold DEF Operate, Allow, Deny, Refresh, Cancel, Retry, MarkSent
<1>3. CASE Time
  BY <1>3, WorkersHold DEF Time, ElapsePause, Elapse
<1>4. CASE UNCHANGED vars
  BY <1>4, WorkersHold DEF vars
<1> QED BY <1>1, <1>2, <1>3, <1>4, ProcessHolds, SendHolds, DaemonHolds DEF Next

-----------------------------------------------------------------------------
(* The inductive invariant.                                                *)
LEMMA InitIInv == Init => IInv
<1> SUFFICES ASSUME Init PROVE IInv
  OBVIOUS
<1>1. OneJobPerKey
  BY DEF Init, OneJobPerKey, Indexed, Unsent
<1>2. Fresh /\ Holding
  BY DEF Init, Fresh, Holding
<1> QED BY <1>1, <1>2, InitType DEF IInv

LEMMA Inductive == IInv /\ [Next]_vars => IInv'
<1> SUFFICES ASSUME IInv, [Next]_vars PROVE IInv'
  OBVIOUS
<1>1. RowsType /\ checked \subseteq Job /\ WorkersType
  BY TypeParts DEF IInv
<1>2. TypeOK'
  BY NextType DEF IInv
<1>3. Change
  BY <1>1, NextIsChange DEF IInv
<1>4. Fresh'
  BY <1>1, <1>3, ChangeKeepsFresh DEF IInv
<1>5. OneJobPerKey'
  BY <1>1, <1>3, ChangeKeepsIndex DEF IInv
<1>6. Holding'
  BY <1>1, NextHolds DEF IInv
<1> QED BY <1>2, <1>4, <1>5, <1>6 DEF IInv

(* Two rows with the same idempotency key are never both active or         *)
(* delivered, in whatever order enqueue calls, workers, operators, bulk    *)
(* updates and the recovery of a restart touch the table.                  *)
THEOREM KeysStayDistinct == Spec => []OneJobPerKey
<1>1. IInv => OneJobPerKey
  BY DEF IInv
<1> QED BY InitIInv, Inductive, <1>1, PTL DEF Spec

(* The queue implements the abstract life of a job: every row begins as    *)
(* the enqueue built it, and every status a step of the system writes is   *)
(* one the transition table lets follow, also where the code writes it     *)
(* with a bulk UPDATE or a claim that never asks assertJobTransition.      *)
THEOREM Implements == Spec => ImplementsLifecycle
<1>1. Init => Promise!Init
  BY DEF Init, Promise!Init
<1>2. IInv /\ IInv' /\ [Next]_vars => [Promise!Next]_status
  <2> SUFFICES ASSUME IInv, IInv', [Next]_vars PROVE [Promise!Next]_status
    OBVIOUS
  <2>1. RowsType /\ RowsType'
    BY TypeParts DEF IInv
  <2> QED BY <2>1, NextIsChange, ChangeIsStep DEF IInv
<1> QED BY InitIInv, Inductive, <1>1, <1>2, PTL DEF Spec, ImplementsLifecycle, Promise!Spec
=============================================================================
