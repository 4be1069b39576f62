------------------------------- MODULE Delivery -------------------------------
(***************************************************************************)
(* The durable message queue and everything that works on it.              *)
(*                                                                         *)
(* One SQLite database holds the jobs, the destinations and the outgoing   *)
(* pause.  The daemon runs one QueueWorker on it; every `wts --dry-run     *)
(* send` runs a short-lived QueueWorker of its own on the job it has just  *)
(* queued; operators enqueue, cancel, retry and resolve jobs and change    *)
(* the allowlist from other processes.  Each database transaction is one   *)
(* step; a worker's synchronous code between two awaits is a sequence of   *)
(* such steps that other processes can interleave with.                    *)
(*                                                                         *)
(* A job is one row; its idempotency key, and through the key its          *)
(* destination and its dry-run flag, are fixed when the row is built.      *)
(* Time is abstract: what counts is whether a row's due time has passed,   *)
(* and in which order due times pass.                                      *)
(***************************************************************************)
EXTENDS JobStates, FiniteSets

CONSTANTS
  Job,          \* rows of message_jobs that may come to exist
  Destination,  \* groups
  KeyOf,        \* idempotency key of each job
  DestOf,       \* destination of each job
  DryJob,       \* jobs built with dry_run = 1
  MediaJob,     \* jobs that carry a staged file
  Daemon,       \* the worker inside the daemon
  Cli,          \* workers inside `wts --dry-run send` processes
  NoJob,        \* a worker without a job
  DryRuns,      \* the values of DRY_RUN the daemon may be started with
  MaxAttempts,  \* MAX_ATTEMPTS
  MaxRetries,   \* bound: `queue retry` commands per job
  MaxStops      \* bound: stops, crashes and revocations of the daemon

Worker == Cli \cup {Daemon}

ASSUME WorkerAssumption == Daemon \notin Cli
ASSUME JobAssumption ==
  /\ NoJob \notin Job
  /\ DryJob \subseteq Job
  /\ MediaJob \subseteq Job
  /\ DestOf \in [Job -> Destination]
  /\ DOMAIN KeyOf = Job
ASSUME KeyAssumption ==
  \A i, j \in Job : KeyOf[i] = KeyOf[j] =>
    DestOf[i] = DestOf[j] /\ (i \in DryJob <=> j \in DryJob)
ASSUME BoundAssumption ==
  /\ MaxAttempts \in Nat \ {0}
  /\ MaxRetries \in Nat
  /\ MaxStops \in Nat
  /\ DryRuns \subseteq BOOLEAN

VARIABLES
  status,       \* message_jobs.status, "NONE" before the row exists
  attempts,     \* message_jobs.attempt_count
  queue,        \* queue[j]: the jobs whose due time passed no later than j's;
                \* j \in queue[j] iff j's own due time has passed
  checked,      \* enqueue calls between their allowlist check and their insert
  enabled,      \* destinations.enabled
  canSend,      \* destinations.can_send
  granted,      \* history: while a job's group is denied, how often WhatsApp
                \* may have taken its message by the end of the denial
  pauseReason,  \* app_state outgoing_pause_reason
  pauseUntil,   \* app_state outgoing_pause_until: absent, in the future, passed
  pc,           \* where each worker is in processOnce
  cur,          \* the job each worker holds
  snap,         \* attempt_count in the worker's copy of that job
  accepted,     \* WhatsApp has taken the message the worker is sending
  stopping,     \* the daemon worker's stopping flag
  dryRun,       \* config.dryRun of the daemon's last start
  delivered,    \* history: how often WhatsApp took each job's message
  retried,      \* history: `queue retry` commands accepted per job
  marked,       \* history: jobs an operator resolved with mark-sent
  unsure,       \* history: requeues of a job whose message had been taken
  stops         \* history: stops, crashes and revocations so far

rows == <<status, attempts, queue>>
dests == <<enabled, canSend, granted>>
pauses == <<pauseReason, pauseUntil>>
workers == <<pc, cur, snap, accepted, stopping, dryRun>>
history == <<delivered, retried, marked, unsure, stops>>
vars == <<rows, checked, dests, pauses, workers, history>>

AuthReasons == AuthErrors \cup {"FATAL"}

(* Reasons for which the daemon waits for the operator to log in again.    *)
NeedsLogin == pauseReason \in AuthReasons

Serving == pc[Daemon] \notin {"off", "connecting"}

TypeOK ==
  /\ status \in [Job -> Status \cup {"NONE"}]
  /\ attempts \in [Job -> Nat]
  /\ queue \in [Job -> SUBSET Job]
  /\ checked \subseteq Job
  /\ enabled \in [Destination -> BOOLEAN]
  /\ canSend \in [Destination -> BOOLEAN]
  /\ granted \in [Job -> Nat]
  /\ pauseReason \in AuthReasons \cup {"NONE", "RATE_LIMITED"}
  /\ pauseUntil \in {"NONE", "FUTURE", "PAST"}
  /\ pc \in [Worker -> {"off", "connecting", "idle", "lapsed", "polled",
                        "claimed", "cleared", "dropping", "sending",
                        "refusing"}]
  /\ cur \in [Worker -> Job \cup {NoJob}]
  /\ snap \in [Worker -> Nat]
  /\ accepted \in [Worker -> BOOLEAN]
  /\ stopping \in BOOLEAN
  /\ dryRun \in BOOLEAN
  /\ delivered \in [Job -> Nat]
  /\ retried \in [Job -> Nat]
  /\ marked \subseteq Job
  /\ unsure \in [Job -> Nat]
  /\ stops \in Nat

-----------------------------------------------------------------------------
(* The job table.                                                          *)

Due(j) == j \in queue[j]

(* Rows of J leave the order of due times.                                 *)
Without(J) == [k \in Job |-> IF k \in J THEN {} ELSE queue[k] \ J]

(* The due time of j passes now, after every one that has passed before.   *)
WithLast(j) ==
  [k \in Job |-> IF k = j THEN {i \in Job : Due(i)} \cup {j} ELSE queue[k] \ {j}]

Allowed(j) == enabled[DestOf[j]] /\ canSend[DestOf[j]]

(* A worker has looked at the allowlist for the last time and WhatsApp     *)
(* has not taken the message yet.                                          *)
InHand(j) ==
  \E w \in Worker : cur[w] = j /\ pc[w] \in {"cleared", "sending"} /\ ~accepted[w]

(* A denial leaves a job the delivery it may be in the middle of, and no   *)
(* other until its group is allowed again.                                 *)
Grant ==
  granted' = [j \in Job |->
    IF Allowed(j)' THEN 0
    ELSE IF Allowed(j) THEN delivered[j] + (IF InHand(j)' THEN 1 ELSE 0)
    ELSE granted[j]]

(* The unique index accepts a status of Indexed for j.                     *)
Bug_KeyFree(j) == \A i \in Job \ {j} : KeyOf[i] = KeyOf[j] => status[i] \notin Unsent

KeyFree(j) == \A i \in Job \ {j} : KeyOf[i] = KeyOf[j] => status[i] \notin Indexed

(* JobRepository.transition (and retry) accept the target status: the      *)
(* table has the pair and the row does not collide with another one.       *)
CanMove(j, s) == <<status[j], s>> \in Transition /\ (s \in Indexed => KeyFree(j))

(* The bulk UPDATEs that cancel the unsent rows of J.                      *)
CancelUnsent(J) ==
  /\ status' = [j \in Job |-> IF j \in J /\ status[j] \in Unsent
                              THEN "CANCELLED" ELSE status[j]]
  /\ queue' = Without({j \in J : status[j] \in Unsent})
  /\ UNCHANGED attempts

Init ==
  /\ status = [j \in Job |-> "NONE"]
  /\ attempts = [j \in Job |-> 0]
  /\ queue = [j \in Job |-> {}]
  /\ checked = {}
  /\ enabled = [d \in Destination |-> FALSE]
  /\ canSend = [d \in Destination |-> TRUE]
  /\ granted = [j \in Job |-> 0]
  /\ pauseReason = "NONE"
  /\ pauseUntil = "NONE"
  /\ pc = [w \in Worker |-> "off"]
  /\ cur = [w \in Worker |-> NoJob]
  /\ snap = [w \in Worker |-> 0]
  /\ accepted = [w \in Worker |-> FALSE]
  /\ stopping = FALSE
  /\ dryRun = FALSE
  /\ delivered = [j \in Job |-> 0]
  /\ retried = [j \in Job |-> 0]
  /\ marked = {}
  /\ unsure = [j \in Job |-> 0]
  /\ stops = 0

-----------------------------------------------------------------------------
(* Enqueueing.                                                             *)

(* MessageService.enqueue reads the allowlist, then awaits the staging of  *)
(* the file.                                                               *)
CheckDestination(j) ==
  /\ status[j] = "NONE" /\ j \notin checked
  /\ Allowed(j)
  /\ checked' = checked \cup {j}
  /\ UNCHANGED <<rows, dests, pauses, workers, history>>

(* JobRepository.create: the insert does not look at the allowlist again.  *)
InsertRow(j, s) ==
  /\ j \in checked /\ KeyFree(j)
  /\ status' = [status EXCEPT ![j] = s]
  /\ queue' = IF s = "PENDING" THEN WithLast(j) ELSE queue
  /\ checked' = checked \ {j}
  /\ UNCHANGED attempts

Insert(j) ==
  /\ \E s \in {"PENDING", "SCHEDULED"} : InsertRow(j, s)
  /\ UNCHANGED <<dests, pauses, workers, history>>

(* enqueueAndMaybeDryRun: a dry-run send queues its job and then runs a    *)
(* worker of its own on it, without taking the daemon's lock.              *)
InsertAndSimulate(w, j) ==
  /\ w \in Cli /\ pc[w] = "off" /\ j \in DryJob
  /\ InsertRow(j, "PENDING")
  /\ pc' = [pc EXCEPT ![w] = "idle"]
  /\ cur' = [cur EXCEPT ![w] = j]
  /\ UNCHANGED <<dests, pauses, snap, accepted, stopping, dryRun, history>>

(* The insert hits the unique index (the caller gets the existing job), or *)
(* the staged file is rejected, or the process ends first.                 *)
DropEnqueue(j) ==
  /\ j \in checked
  /\ checked' = checked \ {j}
  /\ UNCHANGED <<rows, dests, pauses, workers, history>>

-----------------------------------------------------------------------------
(* Operators: allowlist and queue commands.                                *)

Allow(d) ==
  /\ ~enabled[d]
  /\ enabled' = [enabled EXCEPT ![d] = TRUE]
  /\ UNCHANGED <<rows, checked, canSend, pauses, workers, history>>
  /\ Grant

Deny(d) ==
  /\ enabled[d]
  /\ enabled' = [enabled EXCEPT ![d] = FALSE]
  /\ CancelUnsent({j \in Job : DestOf[j] = d})
  /\ UNCHANGED <<checked, canSend, pauses, workers, history>>
  /\ Grant

(* synchronize: a group refresh overwrites can_send of what it discovers.  *)
Refresh(sendable) ==
  /\ canSend' = [d \in Destination |-> d \in sendable]
  /\ CancelUnsent({j \in Job : DestOf[j] \notin sendable})
  /\ UNCHANGED <<checked, enabled, pauses, workers, history>>
  /\ Grant

Cancel(j) ==
  /\ CanMove(j, "CANCELLED")
  /\ status' = [status EXCEPT ![j] = "CANCELLED"]
  /\ queue' = Without({j})
  /\ UNCHANGED <<attempts, checked, dests, pauses, workers, history>>

(* `queue retry`: any status the table lets become RETRY is accepted.      *)
Retry(j) ==
  /\ retried[j] < MaxRetries
  /\ CanMove(j, "RETRY")
  /\ status' = [status EXCEPT ![j] = "RETRY"]
  /\ attempts' = [attempts EXCEPT ![j] = 0]
  /\ queue' = WithLast(j)
  /\ retried' = [retried EXCEPT ![j] = @ + 1]
  /\ UNCHANGED <<checked, dests, pauses, workers, delivered, marked, unsure, stops>>

MarkSent(j) ==
  /\ CanMove(j, "SENT")
  /\ status' = [status EXCEPT ![j] = "SENT"]
  /\ marked' = marked \cup {j}
  /\ UNCHANGED <<attempts, queue, checked, dests, pauses, workers,
                 delivered, retried, unsure, stops>>

-----------------------------------------------------------------------------
(* QueueWorker.  Release ends a worker's hold on its job; the daemon goes  *)
(* round its loop, a CLI process ends.  Die is an exception that leaves    *)
(* processOnce: the daemon's finally block and exit, or the CLI's.         *)

Stopping(w) == w = Daemon /\ stopping

IsDry(w) == w \in Cli \/ dryRun

Release(w, p) ==
  /\ pc' = [pc EXCEPT ![w] = p]
  /\ cur' = [cur EXCEPT ![w] = NoJob]
  /\ snap' = [snap EXCEPT ![w] = 0]
  /\ accepted' = [accepted EXCEPT ![w] = FALSE]

Rest(w) == Release(w, IF w = Daemon THEN "idle" ELSE "off") /\ UNCHANGED <<stopping, dryRun>>

Bug_Die(w) == Rest(w)

Die(w) ==
  Release(w, "off") /\ stopping' = (stopping /\ w # Daemon) /\ UNCHANGED dryRun

(* transition(job, s) and the end of this round, or the exception that an  *)
(* illegal transition raises.                                              *)
Settle(w, s, q) ==
  \/ /\ CanMove(cur[w], s)
     /\ status' = [status EXCEPT ![cur[w]] = s]
     /\ queue' = q
     /\ UNCHANGED attempts
     /\ Rest(w)
  \/ /\ ~CanMove(cur[w], s)
     /\ UNCHANGED rows
     /\ Die(w)

(* isGloballyPaused: a dry-run transport is never paused.                  *)
Paused(w) == ~IsDry(w) /\ (NeedsLogin \/ pauseUntil = "FUTURE")

(* A rate-limit pause that has run out is dropped by the next poll, its    *)
(* end and then its reason: what another process writes as the reason in   *)
(* between is dropped with it.                                             *)
LapsePause(w) ==
  /\ pc[w] = "idle" /\ ~Stopping(w) /\ ~IsDry(w)
  /\ pauseReason = "RATE_LIMITED" /\ pauseUntil = "PAST"
  /\ pauseUntil' = "NONE"
  /\ pc' = [pc EXCEPT ![w] = "lapsed"]
  /\ UNCHANGED <<rows, checked, dests, pauseReason, cur, snap, accepted, stopping,
                 dryRun, history>>

(* isGloballyPaused returned false.                                        *)
Unpaused(w) ==
  \/ /\ pc[w] = "idle" /\ ~Stopping(w)
     /\ IsDry(w)
     /\ UNCHANGED pauses
  \/ /\ pc[w] = "idle" /\ ~Stopping(w)
     /\ ~IsDry(w) /\ ~Paused(w)
     /\ pauseReason = "RATE_LIMITED" => pauseUntil = "NONE"
     /\ pauseUntil' = "NONE" /\ UNCHANGED pauseReason
  \/ /\ pc[w] = "lapsed"
     /\ pauseReason' = "NONE" /\ UNCHANGED pauseUntil

(* promoteDueScheduled, then cancelDisabled, over all rows.                *)
Housekept(j) ==
  IF status[j] \in Unsent /\ ~Allowed(j) THEN "CANCELLED"
  ELSE IF status[j] = "SCHEDULED" /\ Due(j) THEN "PENDING" ELSE status[j]

(* The start of processOnce: two transactions, of which the second sees    *)
(* what other processes commit after the first, taken as one.              *)
Poll(w) ==
  /\ Unpaused(w)
  /\ status' = [j \in Job |-> Housekept(j)]
  /\ queue' = Without({j \in Job : status[j] \in Unsent /\ ~Allowed(j)})
  /\ pc' = [pc EXCEPT ![w] = "polled"]
  /\ UNCHANGED <<attempts, checked, dests, cur, snap, accepted, stopping, dryRun, history>>

(* The WHERE clause of the claim.                                          *)
Bug_ClaimableReview(w, j) ==
  /\ Allowed(j)
  /\ status[j] \in {"PENDING", "REVIEW_REQUIRED"}
  /\ IsDry(w) => j \in DryJob
  /\ w \in Cli => j = cur[w]

Claimable(w, j) ==
  /\ Allowed(j)
  /\ status[j] = "PENDING" \/ (status[j] \in {"RETRY", "WAITING_RATE_LIMIT"} /\ Due(j))
  /\ IsDry(w) => j \in DryJob
  /\ w \in Cli => j = cur[w]

(* claimNext takes the row whose due time passed first, claimJob the one   *)
(* it was given.                                                           *)
Claim(w, j) ==
  /\ pc[w] = "polled"
  /\ Claimable(w, j)
  /\ \A i \in queue[j] \ {j} : ~Claimable(w, i)
  /\ status' = [status EXCEPT ![j] = "PROCESSING"]
  /\ attempts' = [attempts EXCEPT ![j] = @ + 1]
  /\ queue' = Without({j})
  /\ pc' = [pc EXCEPT ![w] = "claimed"]
  /\ cur' = [cur EXCEPT ![w] = j]
  /\ snap' = [snap EXCEPT ![w] = attempts[j] + 1]
  /\ UNCHANGED <<checked, dests, pauses, accepted, stopping, dryRun, history>>

NothingToClaim(w) ==
  /\ pc[w] = "polled"
  /\ \A j \in Job : ~Claimable(w, j)
  /\ Rest(w)
  /\ UNCHANGED <<rows, checked, dests, pauses, history>>

(* pace returned false: the job goes back, due at once, whatever its       *)
(* attempt count.                                                          *)
AbandonBeforeSend(w) ==
  /\ pc[w] = "claimed" /\ Stopping(w)
  /\ Settle(w, "RETRY", WithLast(cur[w]))
  /\ UNCHANGED <<checked, dests, pauses, history>>

(* The allowlist is looked at again.  What follows has no await in it, so  *)
(* nothing in the worker's process comes between, but other processes do.  *)
Bug_Recheck(w) ==
  /\ pc[w] = "claimed" /\ ~Stopping(w)
  /\ pc' = [pc EXCEPT ![w] = "cleared"]
  /\ UNCHANGED <<rows, checked, dests, pauses, cur, snap, accepted, stopping, dryRun, history>>

Recheck(w) ==
  /\ pc[w] = "claimed" /\ ~Stopping(w)
  /\ pc' = [pc EXCEPT ![w] = IF Allowed(cur[w]) THEN "cleared" ELSE "dropping"]
  /\ UNCHANGED <<rows, checked, dests, pauses, cur, snap, accepted, stopping, dryRun, history>>

(* The destination was denied, or the staged file is gone.                 *)
RefuseBeforeSend(w) ==
  /\ \/ pc[w] = "dropping"
     \/ pc[w] = "cleared" /\ cur[w] \in MediaJob
  /\ Settle(w, "FAILED", queue)
  /\ UNCHANGED <<checked, dests, pauses, history>>

(* The job is handed to the transport.                                     *)
BeginSend(w) ==
  /\ pc[w] = "cleared"
  /\ pc' = [pc EXCEPT ![w] = "sending"]
  /\ UNCHANGED <<rows, checked, dests, pauses, cur, snap, accepted, stopping, dryRun, history>>

-----------------------------------------------------------------------------
(* The send, and what becomes of it.  A dry-run job is simulated by every  *)
(* worker, and a dry-run worker simulates every job.                       *)

Bug_Simulated(w) == IsDry(w)

Simulated(w) == IsDry(w) \/ cur[w] \in DryJob

WhatsAppAccepts(w) ==
  /\ pc[w] = "sending" /\ ~Simulated(w) /\ ~accepted[w]
  /\ accepted' = [accepted EXCEPT ![w] = TRUE]
  /\ delivered' = [delivered EXCEPT ![cur[w]] = @ + 1]
  /\ UNCHANGED <<rows, checked, dests, pauses, pc, cur, snap, stopping, dryRun,
                 retried, marked, unsure, stops>>

(* The transport's promise has resolved.                                   *)
Bug_Answered(w) == TRUE

Answered(w) == Simulated(w) \/ accepted[w]

(* The send resolved and its outcome is committed; a state write after it  *)
(* can still fail, and then no transition of handleError is legal.         *)
SendSucceeds(w) ==
  /\ pc[w] = "sending" /\ Answered(w)
  /\ LET outcome == IF Simulated(w) THEN "DRY_RUN" ELSE "SENT"
     IN  /\ CanMove(cur[w], outcome)
         /\ status' = [status EXCEPT ![cur[w]] = outcome]
  /\ Rest(w) \/ Die(w)
  /\ UNCHANGED <<attempts, queue, checked, dests, pauses, history>>

(* What the try block can throw.  UNKNOWN_TRANSIENT is also the class of   *)
(* the worker's own transition to SENT or DRY_RUN when that throws.        *)
Errors(w) ==
  {e \in IF Simulated(w) THEN {"UNKNOWN_TRANSIENT"}
         ELSE IF accepted[w] THEN AmbiguousErrors ELSE WireErrors :
     e \in AuthErrors => stops < MaxStops}

Decision(w, e) == DecideRetry(e, snap[w], MaxAttempts)

Requeued(w) ==
  unsure' = IF accepted[w] /\ CanMove(cur[w], "RETRY")
            THEN [unsure EXCEPT ![cur[w]] = @ + 1] ELSE unsure

RetryLater(w, e) ==
  /\ pc[w] = "sending" /\ e \in Errors(w) /\ Decision(w, e) = "retry"
  /\ Settle(w, "RETRY", queue)
  /\ Requeued(w)
  /\ UNCHANGED <<checked, dests, pauses, delivered, retried, marked, stops>>

RateLimited(w, e) ==
  /\ pc[w] = "sending" /\ e \in Errors(w) /\ Decision(w, e) = "rate-limit"
  /\ IF CanMove(cur[w], "WAITING_RATE_LIMIT")
     THEN pauseUntil' = "FUTURE" /\ pauseReason' = "RATE_LIMITED"
     ELSE UNCHANGED pauses
  /\ Settle(w, "WAITING_RATE_LIMIT", queue)
  /\ UNCHANGED <<checked, dests, history>>

(* The job goes back whatever its budget, and the worker stops for good.   *)
PauseForLogin(w, e) ==
  /\ pc[w] = "sending" /\ e \in Errors(w) /\ Decision(w, e) = "pause-auth"
  /\ IF CanMove(cur[w], "RETRY")
     THEN /\ status' = [status EXCEPT ![cur[w]] = "RETRY"]
          /\ pauseReason' = e
          /\ Release(w, "idle")
          /\ stopping' = TRUE
          /\ UNCHANGED dryRun
     ELSE /\ Die(w)
          /\ UNCHANGED <<status, pauseReason>>
  /\ Requeued(w)
  /\ stops' = stops + 1
  /\ UNCHANGED <<attempts, queue, checked, dests, pauseUntil,
                 delivered, retried, marked>>

(* setCanSend(false) is a transaction of its own, before the one to FAILED. *)
RevokeDestination(w, e) ==
  /\ pc[w] = "sending" /\ e \in Errors(w) /\ Decision(w, e) = "fail"
  /\ e \in DestinationErrors
  /\ canSend' = [canSend EXCEPT ![DestOf[cur[w]]] = FALSE]
  /\ CancelUnsent({j \in Job : DestOf[j] = DestOf[cur[w]]})
  /\ pc' = [pc EXCEPT ![w] = "refusing"]
  /\ UNCHANGED <<checked, enabled, pauses, cur, snap, accepted, stopping, dryRun, history>>
  /\ Grant

SendFails(w) ==
  /\ \/ pc[w] = "refusing"
     \/ /\ pc[w] = "sending"
        /\ \E e \in Errors(w) \ DestinationErrors : Decision(w, e) = "fail"
  /\ Settle(w, "FAILED", queue)
  /\ UNCHANGED <<checked, dests, pauses, history>>

-----------------------------------------------------------------------------
(* The daemon's life, its connection as far as the queue sees it, crashes, *)
(* and the passing of time.                                                *)

(* recoverStaleProcessing quarantines every job found in PROCESSING, also  *)
(* one that a dry-run CLI process is working on.                           *)
Bug_Recovered(j) == IF status[j] = "PROCESSING" THEN "RETRY" ELSE status[j]

Bug_RecoveredColumn(j) ==
  IF status[j] = "PROCESSING" THEN "DELIVERY_UNCERTAIN_AFTER_RESTART" ELSE status[j]

Recovered(j) == IF status[j] = "PROCESSING" THEN "REVIEW_REQUIRED" ELSE status[j]

StartDaemon ==
  /\ pc[Daemon] = "off"
  /\ status' = [j \in Job |-> Recovered(j)]
  /\ \E dry \in DryRuns :
       /\ dryRun' = dry
       /\ pc' = [pc EXCEPT ![Daemon] = IF dry THEN "idle" ELSE "connecting"]
  /\ UNCHANGED <<attempts, queue, checked, dests, pauses, cur, snap, accepted,
                 stopping, history>>

(* The first connection fails, or there are no credentials to connect with.*)
ConnectFails(reason) ==
  /\ pc[Daemon] = "connecting"
  /\ pc' = [pc EXCEPT ![Daemon] = "off"]
  /\ pauseReason' = reason
  /\ UNCHANGED <<rows, checked, dests, pauseUntil, cur, snap, accepted,
                 stopping, dryRun, history>>

(* The connection opens, first or again: every outgoing pause is dropped.  *)
ConnectionOpens ==
  /\ pc[Daemon] \in {"connecting", "idle", "claimed", "sending"} /\ ~dryRun
  /\ pauseReason' = "NONE" /\ pauseUntil' = "NONE"
  /\ pc' = [pc EXCEPT ![Daemon] = IF @ = "connecting" THEN "idle" ELSE @]
  /\ UNCHANGED <<rows, checked, dests, cur, snap, accepted, stopping, dryRun, history>>

(* The connection ends for good, in whatever await the worker is.          *)
ConnectionEnds(reason) ==
  /\ pc[Daemon] \in {"idle", "claimed", "sending"} /\ ~dryRun
  /\ pauseReason' = reason
  /\ UNCHANGED <<rows, checked, dests, pauseUntil, workers, history>>

(* `auth login` holds the daemon's lock, `auth logout --local-only` does   *)
(* not.                                                                    *)
Login ==
  /\ pc[Daemon] = "off"
  /\ pauseReason' = "NONE" /\ pauseUntil' = "NONE"
  /\ UNCHANGED <<rows, checked, dests, workers, history>>

Logout ==
  /\ pauseReason' = "AUTH_REQUIRED"
  /\ UNCHANGED <<rows, checked, dests, pauseUntil, workers, history>>

(* SIGTERM sets the flag while the worker awaits something.                *)
StopDaemon ==
  /\ stops < MaxStops
  /\ pc[Daemon] \in {"idle", "claimed", "sending"} /\ ~stopping
  /\ stopping' = TRUE
  /\ stops' = stops + 1
  /\ UNCHANGED <<rows, checked, dests, pauses, pc, cur, snap, accepted, dryRun,
                 delivered, retried, marked, unsure>>

DaemonExits ==
  /\ pc[Daemon] = "idle" /\ stopping
  /\ Die(Daemon)
  /\ UNCHANGED <<rows, checked, dests, pauses, history>>

(* The process of w is killed, at any point: what it holds stays as it is. *)
Crash(w) ==
  /\ stops < MaxStops
  /\ pc[w] # "off"
  /\ Die(w)
  /\ stops' = stops + 1
  /\ UNCHANGED <<rows, checked, dests, pauses, delivered, retried, marked, unsure>>

(* The due time of j passes.                                               *)
Bug_Timed(j) == status[j] \in {"SCHEDULED", "RETRY"}

Timed(j) == status[j] \in {"SCHEDULED", "RETRY", "WAITING_RATE_LIMIT"}

Elapse(j) ==
  /\ Timed(j) /\ ~Due(j)
  /\ queue' = WithLast(j)
  /\ UNCHANGED <<status, attempts, checked, dests, pauses, workers, history>>

ElapsePause ==
  /\ pauseUntil = "FUTURE"
  /\ pauseUntil' = "PAST"
  /\ UNCHANGED <<rows, checked, dests, pauseReason, workers, history>>

-----------------------------------------------------------------------------
Enqueue(j) ==
  \/ CheckDestination(j) \/ Insert(j) \/ DropEnqueue(j)
  \/ \E w \in Cli : InsertAndSimulate(w, j)

Operate ==
  \/ \E d \in Destination : Allow(d) \/ Deny(d)
  \/ \E sendable \in SUBSET Destination : Refresh(sendable)
  \/ \E j \in Job : Cancel(j) \/ Retry(j) \/ MarkSent(j)

Process(w) ==
  \/ LapsePause(w) \/ Poll(w) \/ NothingToClaim(w)
  \/ \E j \in Job : Claim(w, j)
  \/ AbandonBeforeSend(w) \/ Recheck(w) \/ RefuseBeforeSend(w) \/ BeginSend(w)

Finish(w) ==
  \/ SendSucceeds(w) \/ SendFails(w)
  \/ \E e \in ErrorClass :
       RetryLater(w, e) \/ RateLimited(w, e) \/ PauseForLogin(w, e) \/ RevokeDestination(w, e)

DaemonLife ==
  \/ StartDaemon \/ StopDaemon \/ DaemonExits
  \/ ConnectionOpens \/ Login \/ Logout
  \/ \E reason \in AuthReasons \cup {pauseReason} : ConnectFails(reason)
  \/ \E reason \in {"LOGGED_OUT", "FATAL"} : ConnectionEnds(reason)
  \/ \E w \in Worker : Crash(w)

Time == ElapsePause \/ \E j \in Job : Elapse(j)

Next ==
  \/ \E j \in Job : Enqueue(j)
  \/ Operate
  \/ \E w \in Worker : Process(w) \/ WhatsAppAccepts(w) \/ Finish(w)
  \/ DaemonLife
  \/ Time

Spec == Init /\ [][Next]_vars

(* A running worker takes its steps, a send comes back with something, and *)
(* time passes.  Nothing is assumed of operators, of the network's verdict *)
(* or of the daemon being started.                                         *)
Fairness ==
  /\ \A w \in Worker : WF_vars(Process(w)) /\ WF_vars(Finish(w))
  /\ WF_vars(DaemonExits)
  /\ \A j \in Job : WF_vars(Elapse(j))
  /\ WF_vars(ElapsePause)

FairSpec == Spec /\ Fairness
-----------------------------------------------------------------------------
(* Properties.                                                             *)

(* Two rows with the same content, destination and schedule are never both *)
(* active or delivered: enqueue, claim, `queue retry`, `mark-sent` and the *)
(* bulk updates all keep the partial unique index satisfied.               *)
OneJobPerKey ==
  \A i, j \in Job : i # j /\ KeyOf[i] = KeyOf[j] =>
    ~(status[i] \in Indexed /\ status[j] \in Indexed)

(* A message reaches WhatsApp at most once for its enqueue, once more for  *)
(* each `queue retry`, and once more for each ambiguous error after which  *)
(* the worker requeued it by itself: no interleaving of a crash, the       *)
(* recovery, an operator and the worker adds another delivery.             *)
DeliveryBound ==
  \A j \in Job : delivered[j] <= 1 + retried[j] + unsure[j]

(* The attempt count of a live job stays within MAX_ATTEMPTS but for the   *)
(* claims that a shutdown or a revoked login gives back: each of those     *)
(* costs a stop of the daemon, and `queue retry` in the middle of an       *)
(* attempt does not buy another.  (A dry-run job that two workers hold at  *)
(* once, the second after a `queue retry`, escapes even this bound.)       *)
AttemptBound ==
  \A j \in Job \ DryJob : attempts[j] <= MaxAttempts + stops

(* Dry-run work never touches WhatsApp and live work is never simulated    *)
(* away: whatever worker claims a job, it ends in its own mode, and a      *)
(* daemon restarted with DRY_RUN=true leaves the live backlog alone.       *)
ModeRespected ==
  /\ \A j \in Job : IF j \in DryJob THEN delivered[j] = 0 ELSE status[j] # "DRY_RUN"
  /\ \A w \in Worker : IsDry(w) => cur[w] \in DryJob \cup {NoJob}

(* No job is reported SENT unless WhatsApp took its message or an operator *)
(* said so.                                                                *)
SentIsAccounted ==
  \A j \in Job : status[j] = "SENT" => delivered[j] > 0 \/ j \in marked

(* A live job in PROCESSING is in the hands of the daemon's worker or      *)
(* waits for the recovery of the next start: whatever ends the worker's    *)
(* round with the job still PROCESSING also ends the daemon.               *)
ProcessingIsHeld ==
  \A j \in Job \ DryJob :
    status[j] = "PROCESSING" => cur[Daemon] = j \/ pc[Daemon] = "off"

(* A quarantined live job leaves REVIEW_REQUIRED only by an operator's     *)
(* command: it is queued again only by `queue retry`, and SENT only by     *)
(* mark-sent, even when the worker that lost it is still alive elsewhere.  *)
ReviewIsManual ==
  [][\A j \in Job \ DryJob : status[j] = "REVIEW_REQUIRED" =>
       \/ status'[j] \in {"REVIEW_REQUIRED", "CANCELLED"}
       \/ status'[j] = "RETRY" /\ retried'[j] > retried[j]
       \/ status'[j] = "SENT" /\ j \in marked']_vars

(* While a group is denied nothing more reaches it than the message whose  *)
(* worker had already looked the group up when it was denied, and that     *)
(* once: not the job that was queued, paced, between its enqueue's check   *)
(* and its insert, requeued after an error, quarantined by a crash or put  *)
(* back by `queue retry`, then or later in the denial.  The worker's look  *)
(* at the allowlist and its hand-over to the transport are not one         *)
(* transaction, which is why the one message slips through.                *)
NoneAfterDenial ==
  \A j \in Job : ~Allowed(j) => delivered[j] <= granted[j]

(* Every job the daemon takes is eventually settled, unless the daemon     *)
(* goes down, its login is lost, or the CLI process holding it was killed: *)
(* no job is starved by others, by retries that never come due or by a     *)
(* pause that never ends.                                                  *)
Settled(j) == status[j] \notin Unsent \cup {"PROCESSING", "NONE"}

Orphaned(j) == status[j] = "PROCESSING" /\ \A w \in Worker : cur[w] # j

EventuallySettled ==
  \A j \in Job :
    status[j] \in Unsent
      ~> \/ Settled(j) \/ Orphaned(j) \/ ~Serving \/ NeedsLogin
         \/ dryRun /\ j \notin DryJob

(* The queue implements the abstract life of a job: whatever handler, bulk *)
(* UPDATE or recovery touches the table, every change of a status is in    *)
(* the transition table that assertJobTransition only guards in part.      *)
Promise == INSTANCE JobLifecycle WITH Job <- Job, KeyOf <- KeyOf, status <- status
ImplementsLifecycle == Promise!Spec

(* The daemon's worker lives as WorkerLife promises: whatever operators,    *)
(* other workers and the connection do meanwhile, it holds one job at a    *)
(* time, and once it has been told to stop it neither claims nor begins to *)
(* send.  Daemon states the same of its own copy of the worker.            *)
Place ==
  CASE pc[Daemon] \in {"off", "connecting"} -> "away"
    [] pc[Daemon] \in {"idle", "lapsed", "polled"} -> "idle"
    [] pc[Daemon] \in {"claimed", "cleared", "dropping"} -> "holding"
    [] pc[Daemon] \in {"sending", "refusing"} -> "sending"

Loop == INSTANCE WorkerLife WITH place <- Place, told <- stopping

ImplementsWorkerLife == Loop!Spec

(* What the documentation says, each contradicted by what the code does.   *)

(* README: `queue retry` is for FAILED and REVIEW_REQUIRED jobs.           *)
RetryOnlySettled ==
  [][\A j \in Job : retried'[j] > retried[j] =>
       status[j] \in {"FAILED", "REVIEW_REQUIRED"}]_vars

(* README: MAX_ATTEMPTS is the persisted delivery attempt ceiling.         *)
AttemptCeiling == \A j \in Job : attempts[j] <= MaxAttempts
=============================================================================
