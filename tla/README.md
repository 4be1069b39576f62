# A TLA+ development of the WhatsApp group bot

The repository is a self-hosted bot that sends messages to allowlisted WhatsApp
groups from a durable SQLite queue. This directory models its core, checks it
with TLC and proves the properties that matter most with TLAPS. Line numbers
refer to `src/src/...` at the modelled commit; `PROJECT.json` maps every
definition to the lines it stands for.

## 1. Inventory

### Processes and how they interact

One **daemon** (`daemon.ts`) holds the PID lock, the WhatsApp connection, the
queue worker and the optional *Message Yourself* controller. systemd starts it
and starts it again when it fails; `wts update` ends with a script that stops
it, replaces its code and starts it. Any number of
short-lived **CLI processes** (`cli/index.ts`) work on the same database:
enqueue, cancel, retry, allow and deny, log in and out. Only the commands that
connect take the lock; `wts --dry-run send` takes none and runs a queue worker
of its own. All of them meet in the database, where a transaction is atomic, and
in four things outside it: the lock file, the media directory, the installed
code and WhatsApp. Whoever opens the database first brings its schema up to date.

| Component | State it keeps | Operations | What makes it correct |
|---|---|---|---|
| Job table (`job-repository.ts`, `domain/jobs.ts`) | status, attempt count, due times, idempotency key | create, promote, claim, transition, recover, cancel, retry, mark-sent, bulk cancels | changes follow the transition table; one active row per key; no row is lost in `PROCESSING` |
| Queue worker (`queue-worker.ts`, `retry-policy.ts`) | the job in hand, pacing, stopping flag, outgoing pause | poll, claim, pace, re-check, send, settle, handle an error | a message is delivered at most once per reason; attempts are bounded; pauses end; jobs settle |
| Enqueueing (`message-service.ts`, `idempotency.ts`) | – (job rows) | check the destination, stage, insert | equivalent requests share one job; the allowlist is obeyed at send time |
| Allowlist (`destination-repository.ts`, `group-service.ts`) | `enabled`, `can_send` | allow, deny, refresh, revoke | a denial cancels what is unsent |
| Connection manager (`connection-manager.ts`) | socket and its generation, timer, 515 chain, `stopped` | connect, pair, disconnect, logout, socket events, reconnect | one reconnection at a time, none lost, none after disconnect or a revoked session; no session that nobody ends |
| Daemon (`daemon.ts`), `withConnectedManager` (`cli/index.ts`) | the stage of start or end, the worker's promise, armed signal handlers, the listener, the result | start, refresh, serve, signal, finally | every end goes through the finally block; its exit status tells systemd what to do; no send outside serving |
| Process lock (`process-lock.ts`) | one file with a PID | acquire, release | one holder; what a crash leaves behind locks nobody out |
| Media staging (`media-staging.ts`, `media-repository.ts`) | files by content hash, asset rows | hash, copy, rename, record, clean up | an unsent job finds its file |
| Controller (`self-controller.ts`, `controller-repository.ts`, `forward-source-repository.ts`) | processed ids, forward sources, listeners | attach, detach, handle an event, execute, reply | commands run at most once, only own and current ones; sources come before the commands that need them |
| Bulk commands (`bulk-message-service.ts`, `target-resolver.ts`, `bulk-controller-commands.ts`) | batches | resolve targets, enqueue one by one | every target is accounted for, none twice |
| Group sets and aliases (`group-set-repository.ts`, `group-set-commands.ts`, `destination-repository.ts`) | sets and their members, each group's alias | create, delete, add, remove, alias, allow, deny, import | a set changes whole or not at all; a set's messages go to its own members |
| Migrations (`db/migrations/index.ts`, `database.ts`) | tables, `schema_migrations` | open, apply in order | the schema grows one by one, and no process works on one older than its code |
| Service and updates (`deploy/*.service`, `scripts/upgrade.sh`, `update-command.ts`) | the unit, the code in `/opt`, the script's step | start, stop, restart on failure, ask, stop, copy, install, start | an update leaves a wanted service running, on the code that was installed |
| Auth state (`auth-state.ts`, `auth-repository.ts`) | credentials and signal keys | save, clear | written transactionally; data for this system |
| Health, status, audit, logging, configuration, the install wizard | – | read, print, drive other programs | not modelled |

### What is hard

* **Crashes** between WhatsApp's acceptance and the commit of `SENT`, between the
  creation of the lock file and its PID, in the middle of a batch, between the
  mark of a command and its execution.
* **Interleavings of processes**: a denial between check and insert or between
  claim and send; `queue retry` and `mark-sent` on a job being sent; a dry-run
  CLI worker beside a daemon whose recovery takes its job; three processes over
  one stale lock; two commands staging the same content; an alias that moves or a set that is deleted between a read and a write; two processes that
  migrate one schema; systemd restarting a daemon in the middle of an update.
* **Interleavings on the event loop**: old sockets, 515 chains, timers and
  catches that outlive what they were started for; controller events that are
  handled side by side; a stop in any await of the worker; a socket replaced
  while the groups are refreshed and the controller is about to listen to it.
* **Clean-up that fails**: the finally block's own writes, a logout the server
  does not hear, an upgrade script that ends half-way.
* **Unreliable delivery**: an answer that is lost after the message was taken;
  events that WhatsApp delivers again, to a later daemon.
* **Limits and liveness**: the attempt budget, pauses and retry times that must
  come due, a reconnect that must be tried again but not for ever.

`PROJECT.json` lists each of these under "hazards", at its line.

## 2. Modules

| Module | Models | State and actions |
|---|---|---|
| `JobStates` | statuses, transition table, index predicate, error classes, `decideRetry` | constants and operators |
| `JobLifecycle` | the abstract life of a job's status | `status`; one step moves any rows along the table |
| `WorkerLife` | the abstract life of the daemon's worker, shared by `Delivery` and `Daemon` | place, told |
| `Delivery` | job table, worker, enqueueing, allowlist, transports, daemon life | see below |
| `MCDelivery` | instances of `Delivery` for TLC | – |
| `DeliveryProofs`, `QueueProofs` | theorems about `Delivery` | – |
| `ConnectionManager` | one process's connection, in the daemon or a command | one action per method, socket event, timer or catch |
| `Daemon` | `runDaemon` and `withConnectedManager` around the connection; extends `ConnectionManager` | one action per stretch between two awaits; see below |
| `ServiceLife` | the abstract life of such a process | life, session, sending |
| `DaemonProofs` | theorems about `ConnectionManager` and `Daemon` | – |
| `ProcessLock` | `acquire` and `release` | one action per file operation |
| `Service` | the processes of an installation: lock, database, migrations; extends `ProcessLock` | one action per transaction or lock step |
| `SchemaLife` | what the schema promises | version, who works, what each needs |
| `ServiceProofs` | theorems about `ProcessLock` and `Service` | – |
| `Deployment` | systemd, `upgrade.sh`; extends `Service` | one action per command of the script and per decision of systemd |
| `MCDeployment`, `DeploymentProofs` | its instance, its theorems | – |
| `MediaStaging`, `MCMediaStaging` | `MediaStager.stage` and the enqueue around it | one action per await, file operation or transaction |
| `MediaProofs` | theorems about it | – |
| `SelfController`, `MCSelfController` | the controller | one action per synchronous stretch of `handleUpsert` |
| `SelfControllerProofs` | theorems about it | – |
| `GroupDirectory` | groups, aliases, group sets | a read and a write per command that resolves first; whole commands of other processes |
| `BulkMessages`, `MCBulkMessages` | target resolution and batches; extends `GroupDirectory` | one action per command and per enqueued destination |
| `BulkProofs` | theorems about both | – |

Operators named `Bug_X` are not part of the models. Each is a plausible wrong
version of the definition `X`; substituting it must break the property that
`PROJECT.json` pairs with it under "mutants".

### Delivery

A job is one row. Its idempotency key, destination and mode (live or dry-run)
are constants of the row, as in the code, where they are part of the key.
Time is abstract: `queue[j]` holds the jobs whose due time passed no later than
`j`'s, so `j \in queue[j]` says that `j` is due and the relation carries the
claim's `ORDER BY`. `Elapse` lets a due time pass; a job that is due at once
(`PENDING`, `queue retry`) joins the end.

Workers are the daemon and the dry-run CLI processes. `pc` names the place a
worker is at: `idle`, `lapsed` (between the two removals of a pause that has run
out), `polled` (between housekeeping and claim), `claimed` (pacing), `cleared` or
`dropping` (the allowlist has been looked at again, and allowed or refused the
job), `sending`, `refusing` (between the revocation of a destination and the
job's `FAILED`). What runs synchronously is still split wherever it reads or
commits, since other processes commit in between; signals and the connection's
events come only where the worker awaits something (`idle`, `claimed`,
`sending`). The two transactions of the housekeeping are taken as one. `Settle` is `transition` with both
outcomes: the pair is legal and the round ends, or it throws, which ends the
daemon or the CLI process (`Die`). `accepted` is WhatsApp's state and not the
worker's: the send may fail after it.

`DeliveryBound`, `AttemptBound` and `ModeRespected` state what the code really
guarantees. Three terms in them stand for behaviour a reader of the README would
not expect:

* `unsure` counts requeues of a job whose message had been taken. The commit of
  `SENT` sits inside the `try` whose `catch` retries transient errors
  (`queue-worker.ts:105-131`), and a lost answer is classified like a refusal.
  After a *crash*, in contrast, nothing is requeued: that is `ReviewIsManual`.
* `stops` in `AttemptBound`: a shutdown during pacing and an authentication
  error put a job back whatever its count (`queue-worker.ts:75`,
  `retry-policy.ts:35`). The run `attempt_ceiling` shows the documented ceiling
  broken.
* `Job \ DryJob`: a dry-run CLI worker holds no lock, so a daemon's start can
  quarantine its job under it, and its `handleError` then moves
  `REVIEW_REQUIRED` to `RETRY`. Live jobs are not affected, which `mixed` checks.

`NoneAfterDenial` says what `allowlist` is worth while it is being changed. The
look at it (`Recheck`, `queue-worker.ts:83`) and the hand-over to the transport
(`BeginSend`, line 105) are not one transaction, so a group that another process
denies in between still gets that message. `granted` is a history variable: at
the moment a group is denied (`Deny`, a `Refresh` that no longer lists it, the
worker's own `RevokeDestination`) it notes for each of its jobs how many
deliveries there have been, and one more if a worker was past its look. Until the
group is allowed again no job may exceed that: neither through its claim, nor
between its check and its insert, nor after an error, a crash or a `queue retry`.

Also visible in the model: a pause for rate limits that has run out is dropped
in two statements, and a reason that another process writes between them (`auth
logout --local-only`) is dropped with it (`queue-worker.ts:210`, `LapsePause`).
`RATE_LIMITED` overwrites an authentication pause
that was set while a send was in flight (`queue-worker.ts:168`), so that the
worker goes on without a login until WhatsApp refuses it again.

### ConnectionManager

Handlers, timer callbacks and the code between two awaits are atomic: one event
loop. `useSQLiteAuthState` awaits only resolved promises, so `createSocket` is
one step. Sockets are numbered by `generation`, counted modulo `Generations`;
a number is reused only when its last owner has been silent for two or more
generations. The reconnect delay is at least 100 ms and the catch of a failed
reconnect sleeps 0 ms, so the catch runs before a timer that was set with it
(`Fire` requires `~catching`). `autoReconnect` is chosen once, `TRUE` for the
daemon and `FALSE` for `withConnectedManager`. `client` is the code that owns
the manager; it calls `disconnect` once, as every caller does in its `finally`.

The daemon's shutdown leaves `DISCONNECTED` in the row that `health` reads, also
after a revoked login; `StoppedStaysStopped` states it. Two more things that the
model shows and no property condemns: a send that succeeds late writes
`CONNECTED` over a disconnection (`queue-worker.ts:117`, `SendEnds`), and a
logout whose socket closes before the server has answered keeps the credentials
(`connection-manager.ts:126`, `LogoutFails`).

### Daemon

`Daemon` conjoins each step of `ConnectionManager` with what it means to the code
that awaits it. `step` is where `runDaemon`, or the command around
`withConnectedManager`, stands: before `connect`, awaiting it, awaiting
`groups.refresh`, in the race of worker and signal, awaiting the worker, in the
finally block before and after `disconnect`, stuck, or gone. `worker` is where
the promise of `worker.run` stands; what it does to jobs is `Delivery`'s. `Awaited`
moves the process on when an event of the network settles `connect`, and `Follow`
is the call of the controller's listener in `setSocket`. With `Faults` writes to
the database may fail: the worker ends with an error (`WorkerFails`), the
listener's row is not written (`RegisterFails`), the finally block throws at its
first write (`Finally`) or at its last (`DisconnectFails`), or `disconnect` is cut
short by a listener that was never released (`ListenerThrows`: a failed
registration leaves it listening, and `setSocket(null)` at
`connection-manager.ts:111` calls it before the generation is superseded and the
socket ended). What is left then is the step `"stuck"`: nothing after the failed
write is done, and the process ends only when its event loop is empty (`Drain`,
`Drained`): with `ListenerThrows` not before its session has ended by itself.
That session is the one `NoOrphanedSession` excuses (`client = "cut"`). `LocalLogout` is `auth logout
--local-only`, which another process may run at any time, without the lock.

The daemon never tries its *first* connection again; that is left to systemd,
which is told by the exit status (`ExitTellsSupervisor`).

`ServiceLife` is what an operator may expect: sends only while serving and over
a session, the last send over before the session is given up, the session before
the process is gone, and a clean-up that fails leaves a stranded process that
keeps what it holds and sends nothing. `ImplementsServiceLife` maps `step` and
`halt` to its `life`, a socket that waits or is open to `session` (`Session`) and
`inFlight` to `sending`.

### WorkerLife

The daemon's worker is in two models: `Delivery` says what it does to jobs
(`pc`, `stopping`), `Daemon` when it is started, told to stop and awaited
(`worker`, `halt`). `WorkerLife` is what both say: away, idle, holding one job or
sending it, and once told to stop it takes nothing and begins no send. Each module
maps its own variables to it (`Place`, `Loop`) and implements it
(`ImplementsWorkerLife`), so a guard that one of them had and the other lacked
would break a theorem. The flag is `stopping` in `Delivery`, where it falls with
the process, and `halt` in `Daemon` while there is a worker to read it.

### ProcessLock

Every file operation and every `kill(pid, 0)` is a step. A process creates the
file at most once between start and end, so its creator also names the inode,
which is what `Write` needs when the path was removed meanwhile. PIDs are not
reused: that is an assumption, and the code does not secure it, since it probes
the bare PID and never compares `startedAt` (`process-lock.ts:51`). A process
that is given a dead holder's PID, after a reboot for instance, counts as that
holder, and everybody is refused until it ends. `RefusalJustified` and what is
proved of it hold up to that. `acquire` is synchronous and takes far less than 30 s, so a file does not
pass the age limit while somebody acquires (`Age`). `company` records whether a
process met another one, or another's young unwritten file, while it acquired.

### Service and Deployment

`Service` lets each process live once: a daemon takes the lock, then opens and
migrates; a connecting command opens first and takes the lock for its work; a
plain command takes none. `OpenDatabase` reads which migrations are applied, and
each `MigrateNext` is one transaction, with a row; the list is not read again
between two of them, which is why two processes that migrate together fail
(`raced`). The lock's steps are `ProcessLock`'s, taken one at a time. `Killed` is
a crash, or a finally block that throws. `SchemaLife` is the promise: the version
grows one by one, and nobody works on a version older than its code.

`Deployment` adds the unit and the script. A process that is started runs the
code installed at that moment, and dies at once while `node_modules` is being
replaced (`upgrade.sh:34`). `Restart=on-failure` looks at how the main process
ended; whether `StartLimitBurst` is reached is left to chance. Each command of
the script may fail, which ends it (`set -e`). `slipped` records a main process
that the script did not stop: `systemctl is-active` is false for a unit that
waits for its restart or is being stopped, and the script then copies without
stopping anything.

### MediaStaging, SelfController

Content and hash are one value (SHA-256 does not collide); a path is a hash and
an extension. `Faults` says which failures an instance has. `exposed` records
commands that ran beside a clean-up of the same path that was between its two
steps: the asset
row is removed in one step and the file in another (`message-service.ts:177`),
so such a command may lose the file it found. Nothing else takes a file away. A
source written to between hashing and copying is staged under the wrong hash
(`media-staging.ts:100`; action `Edit`).

A controller task is one event being handled; several are at once, because the
handler awaits replies and commands. The database is closed under what runs at a
stop, so `End` is a stop and a crash alike. The effect of a command is its
outcome, executed or thrown.

The account's own chat is known by two JIDs, the phone number's and the LID.
Commands are marked by id alone (`markProcessed`), sources are kept by JID and id
(`forwardSourceKey`, `self-controller.ts:12`; `Key`, `KeyOf`, `Quoted`). Two
consequences are in the model and in the words of `RefusedForCause`: a `/forward`
that comes by one JID does not find a source that came by the other, and a source
that WhatsApp delivers again by the other JID is a row of its own whose 24 hours
begin then. The property is about a source and a command of the same JID.

### GroupDirectory and BulkMessages

A command that names a group looks the name up in a read of its own and writes
in a transaction later; `edit` holds what it has looked up in between. One such
*editor* is followed step by step, and the commands of all other processes are
whole steps that may come anywhere (`Allow`, `Deny`, `Rename`, `Create`,
`Delete`, ...): an editor's two steps with nothing in between are such a command.
A group is never removed, which is what the repository does. That set ids are
never reused (`AUTOINCREMENT`) and that members go with their set (`ON DELETE
CASCADE`) is what `Unambiguous` and `SendsToItsMembers` rest on; both have a
`Bug_` form.

In `BulkMessages` a name resolves to a group or to nothing; the reasons for an
issue differ only in wording. The targets of one command are resolved in one
step, although each lookup is a read of its own: what moves between two lookups
could as well have moved before the first or after the last, but for an alias
that changes hands between two mentions, which the destination check of each
enqueue and the set of rows do not depend on. Callers share one text and no
`--force`, so the key of a job is its group. Other processes enqueue the text
(`Enter`) and end its jobs (`Leave`), which frees the key in the middle of a
batch. A crash leaves a batch with fewer rows than its count.

## 3. Runs

| Run | Bounds | What it asks |
|---|---|---|
| `live` | 2 live jobs with one key, 1 destination, `MaxAttempts` 2, 1 `queue retry` per job, 1 stop or crash | the delivery, attempt, status, allowlist and index promises, and that `Delivery` implements `JobLifecycle` |
| `mixed` | a live and a dry-run job with a file, a CLI worker, a daemon started in either mode, `MaxAttempts` 1 | the promises that must survive a second worker without the lock |
| `progress` | 2 live jobs with own keys, no `queue retry`, 1 stop | every unsent job settles, under fairness |
| `attempt_ceiling` | 1 job | README.md:91, violated |
| `retry_processing` | 1 job | README.md:193, violated |
| `connection` | `Daemon`, 3 generations, daemon and command, failing writes | one reconnection, none lost, none after a stop or a revocation; no orphaned session; the controller's socket; the exit status; a lost session is tried again, a start and an end settle; and that the process implements `ServiceLife` |
| `logged_out_loop` | 4 generations | README.md:37, violated |
| `lock` | `Deployment`, 3 processes at once, 2 schema versions, 1 update, kills and failing writes and script steps | nobody is refused alone, what was acquired alone stays, only a crash leaves a lock file; a migration fails only beside another; an update keeps the service and replaces no code under it; and that the schema lives as `SchemaLife` promises |
| `lock_stale` | 3 processes, 2 at once | README.md:391, violated |
| `media` | 3 commands, 2 at once, 2 contents, 1 extension | a job has its asset row and an unsent job its file, with the right content |
| `controller` | 5 messages, 2 own JIDs, 2 events at once | at most once, no command marked and forgotten, refusals for cause, expiry final |
| `bulk` | 1 bulk command and 1 editor among other processes, 2 groups, 1 alias, 2 set names, 2 set ids, 2 targets per command | resolution as defined, every target accounted for, no group twice, a set changed whole, a set's own members |

Why the bounds are enough to be interesting:

* Two jobs with one key are what the index, the order of claims and the bulk
  updates need; one key occupied by one job and reclaimed by the other is
  reachable. `MaxAttempts` 2 separates the first, a retried and the last attempt.
  One stop allows crash, restart and recovery; one `queue retry` allows a retry
  in each status, `PROCESSING` included. Two stops or retries repeat the pattern
  with a larger count, which the bounds' right-hand sides already contain. In
  `live` the two jobs agree in key, destination and mode, so their exchange is a
  symmetry, and the run checks no liveness.
* Three generations are a live socket, the one it replaces and one to come: a
  fourth (`logged_out_loop`) adds nothing, since at most one socket besides the
  current one has anything left to do (a 515 chain that disconnect has overtaken).
  The chain's bound counts restarts, not generations. `DaemonProofs` treats any
  number.
* Three processes are the least with which a stale lock is lost to a third one,
  and let a restarted daemon, its predecessor and a command overlap. Two schema
  versions let a process of the old code meet one of the new, and one of them
  migrate twice. One update can be interrupted, and a second run repeats the
  first's steps on a service it may find stopped; what it then does not do is in
  `UpdateKeepsService`'s exception.
* Two controller slots let an event overtake another; the messages are a
  forwarded video and the `/forward` that quotes it, each by either JID of the
  account, and another command. A message of somebody else, a forwarded text
  that looks like a command and a forwarded audio are accepted by nothing, so
  the instance lists none; the proofs cover them. The slots are symmetric and
  only they are.
* Two targets out of two groups and an alias reach a duplicate by name and by
  alias, an issue and a success, and `ResolvesAsDefined` tries lists one longer.
  Two set names with two ids let a set be deleted and another created, by either
  name, while a command holds the first one's id. The constraint `OneFollowed`
  stops following the editor while the bulk command enqueues: from there on the
  command reads the directory only through `allowed`, which whole commands change
  in every way an editor can. Groups and set names are symmetric.

Bounds of the models are `MaxRetries` and `MaxStops` (`Delivery`), `Generations`
(`ConnectionManager`; numbers are reused), `Together` (`ProcessLock`,
`MediaStaging`), `Updates` (`Deployment`), `MaxInputs` and `MaxSets`
(`GroupDirectory`) and `Task` (`SelfController`). The other constants are
parameters of the code or sizes of sets. Nothing else is cut off.

`CHECK_DEADLOCK FALSE` is used where the system stops: a process's connection,
processes that run once, and commands that run once. The queue, the controller
and the bulk surroundings never stop, and deadlock is checked.

### Fairness

`Delivery!FairSpec`: a running worker takes its steps, a send ends somehow (the
send is raced against a timeout by the socket library), the event loop runs the
exit of a stopped daemon, and time passes. Nothing is assumed of operators, of
WhatsApp's verdict, or of the daemon being started again: `EventuallySettled`
therefore excuses a daemon that is down and a login that is missing, and a job
whose CLI process was killed. No fairness makes the claim choose: `queue` does,
as the `ORDER BY` does.

`Daemon!DaemonFairSpec`, for `TriesAgain` and `PhasesSettle`: due timers and
catches run, a 515 chain goes on, and a socket that is being opened opens or
closes; the start is made, the group refresh ends, a send ends, a worker that was
told to stop puts its job back and ends, and the steps of the finally block are
taken. An open socket may stay open for ever, and neither a signal nor the end
of a command's work is assumed to come. `PhasesSettle` ends in `"stuck"` as well:
a process whose finally block threw is not fair to anybody.
`ConnectionManager!FairSpec`, for `LoggedOutSettles`, is the part of it that is
about the connection.

`Service` and `Deployment` state no liveness: whether a service comes back is
systemd's business, and what it decides on is checked by `UpdateKeepsService` and
`ExitTellsSupervisor`.

### Where the code and its documentation differ

1. `attempt_ceiling`: `MAX_ATTEMPTS` is not a ceiling of the persisted count.
2. `retry_processing`: `queue retry` is accepted for a job in `PROCESSING`; the
   running attempt then ends in an illegal transition, which ends the daemon.
3. `logged_out_loop`: a *reconnect* that is answered with `loggedOut` is
   scheduled again for ever. A session that was open when it was revoked stays
   down (`RevokedStaysDown`).
4. `lock_stale`: reading the PID, probing it and removing the path are three
   steps; a lock taken in between is deleted and two holders run.

## 4. Theorems

All for every value of the constants that satisfies the modules' assumptions:
any number of jobs, keys, destinations, workers, generations, messages, tasks.

### The queue

* `DeliveryProofs!TypeCorrect`: `Spec => []TypeOK`. `TypeOK` is inductive by
  itself; the proof splits it by the groups of variables that actions change
  together (`TypeParts`), and has one lemma per helper and per group of actions.
* `DeliveryProofs!KeysStayDistinct` and `DeliveryProofs!Implements`:
  `Spec => []OneJobPerKey` and `Spec => ImplementsLifecycle`. A step touches the
  table in one of four ways (`Change`): not at all, by a bulk statement that
  brings no row into the index, by moving one row along the table with the
  index's consent, or by creating a row. One lemma per group of actions shows
  that it is such a change, and one lemma per obligation treats the four. The
  index alone is not inductive: that an insert meets no row needs `Fresh` (an
  enqueue call between check and insert has none), and that a worker settles a
  job at all needs `Holding` (past its claim it holds one). `Claim` and the bulk
  updates never ask the index; the proof shows that they need not.
* `QueueProofs`: `RespectsModes`, `AccountsForSent`, `HoldsProcessing`,
  `DeliversWithinBound`, `AttemptsWithinBound`, `ReviewsByHand`, `DenialHolds`.
  The invariant has a part about workers (`WorkInv`: who holds what, by where it
  is; dry-run workers hold dry-run jobs), a part about histories, and one per
  live job. The two bounds are a credit argument: a row that waits to be claimed,
  and a held one whose message has not been taken, are each worth one delivery,
  so deliveries plus credit never exceed what enqueue, retries and ambiguous
  failures have given; and a waiting row has an attempt left for every unit of its
  count, but for the requeues at a stop. Neither bound is inductive without the
  status a held job can have (`queue retry` or `mark-sent` may have moved the row
  under its worker). `DenialHolds` adds `GrantInv`: what a denial granted covers
  the deliveries so far and the one the daemon may be in the middle of. A worker
  passes its look only at an allowed group, so no hand begins during a denial, and
  a hand that was there when it began has been counted.
* `QueueProofs!WorkerLives`: `Spec => ImplementsWorkerLife`, step by step. What
  other workers and operators do is a stutter; that a claim cannot follow a stop
  is `WorkInv` (nothing is awaited between poll and claim, so no signal comes in
  between), and that a new worker finds its flag down is `Unflagged`.

### Connection and daemon

* `DaemonProofs!TypeCorrect`, about `ConnectionManager`: its `TypeOK` is not inductive: the restart count of
  a new socket is in range only because a chain is followed below its bound
  (`Bounded`).
* `DaemonProofs!Stops`: `Spec => []StoppedStaysStopped`. The property is not
  inductive, since a live handler could report again and a rejected connect
  could bring a client back. The invariant adds that `generation` names no open
  socket after disconnect and that `stopped` is set (`Quiet`), and that
  `connectPromise` is the client's exactly while it awaits it (`OwnerAwaits`).
* `DaemonProofs!ReconnectsOnce`, `DaemonProofs!StaysRevoked`: the
  invariant `SInv` adds that events come from one socket only (`OneLive`), that
  timer, catch and `connectPromise` exclude each other and an open session
  (`Exclusive`), and that in the daemon whatever leads to a socket that is not
  open yet is awaited (`ModeKept`): so that its failure runs the catch that
  schedules the next attempt.
* `DaemonProofs!DaemonTyped` and what follows it: a step of `Daemon` is a step of `ConnectionManager`, a stutter, or
  a write of the rows that both share (`ConnectionSteps`), so `SInv` holds in it
  too (`DaemonConnection`). `Lived` says how far the connection, the worker and
  the listener are, by how far the process is, and gives `DaemonTyped`,
  `OrphansNone`, `FollowsSocket` and, action by action, `Promised`: `DaemonSpec
  => ImplementsServiceLife`. `ExitsHonestly` needs `Told`: why the worker was told
  to stop, and that a stuck process never disconnects. `CutOff` says what a
  disconnect that its listener cut short has done: it stopped the manager, and
  neither a timer nor a known socket is left.
* `DaemonProofs!DaemonWorkerLives`: `DaemonSpec => ImplementsWorkerLife`. The
  counterpart of `WorkerLives`: `Employed` says that nothing has told the worker
  to stop before it is there, and that it is over when the finally block
  disconnects.

### Lock, schema, deployment

* `ServiceProofs!RefusedForCause`, `ServiceProofs!KeepsLock`, about
  `ProcessLock`: a process that has met nobody finds either no file, or one that
  it may remove, and is in its second round only with the path free
  (`Undisturbed`); and whoever comes later finds a written file whose PID is
  alive (`KeptBy`).
* `ServiceProofs!LockImplemented`: `Service` implements `ProcessLock`, so both hold
  for it. `SchemaImplemented`, `MigratesAlone` and `OnlyCrashes`, about `Service`:
  a process that has not been raced knows exactly what is recorded (`Informed`),
  and its place in the lock's steps matches its stage (`Matches`).
* `DeploymentProofs!ServiceImplemented`: `Deployment` implements `Service`, and by
  the chain `Deployment => Service => ProcessLock, SchemaLife` all of these hold
  for the deployed service (`DeployedLock`, `DeployedSchema`).
  `DeploymentTypeCorrect`, `KeepsService` and `KeepsApart` rest on what the script
  owes the service at each of its steps (`Owed`) and on what may run meanwhile
  (`Exclusive`).

### Controller and media

* `SelfControllerProofs!ExecutedAtMostOnce`: `Spec => []AtMostOnce`. The
  invariant adds that whatever ran is marked (`Once`), that a task past its first
  stage has marked its message (`Held`), and that what is being executed has not
  run and is executed by no second task (`Sole`). The argument is the order of
  the code: the row of `controller_messages` is inserted before the execution.
* `SelfControllerProofs!TypeCorrect`, `AccountsForMarked`, `RefusesForCause`: what is
  executed stays so until it ran or threw, and a source that was delivered is
  stored, alive or expired (`Kept`). Messages may share ids and JIDs in any way:
  what identifies a source is its key.
* `MediaProofs!HasMedia`: a clean-up has asked whether a job has its content; a
  job that has it nevertheless was created beside it, and is exposed (`Guarded`).
  A file that does not hold what its name says was staged by a command whose
  source changed between the two passes (`Honest`, `Named`).

### Bulk commands and the directory

* `BulkProofs!ResolvesCorrectly`: `Spec => []ResolvesAsDefined`, and more: the two
  definitions of a resolution agree for every list, of any length. `found` is
  a recursive function over the prefixes of the list. The library's induction
  theorems take an operator as parameter, which the provers cannot instantiate, so
  the induction is first-order: `Induction` says that a *set* that holds 0 and
  with each number below `n` the next one holds `n`, and follows from the
  well-foundedness of strict inclusion on finite sets. It gives
  `ResolutionExists` (the loop has found something after every prefix) and, with
  `OneMore` for one input, `ResolutionReflects`: after `n` inputs the result holds
  the first mentions among them in their order, and the issues and duplicates
  are what is missing from `n`.
* `BulkProofs!TypeCorrect`: the invariant adds what a command has looked up, by
  what it is about to do (`WorkOK`): that the bounds of its counters hold follows
  only from `asked = Len(todo) + Len(found) + duplicates`, and that the database's
  uniqueness survives each write from `Taken` and from `lastId` being above every
  id (`SetsType`).
* `BulkProofs!EveryTargetAccounted`, `BulkProofs!SendsOncePerGroup`: `CallerOK`
  says that nothing is counted before a command enqueues, that its counts and
  what is left add up (`Balanced`), and that the groups it has rows for are
  not among those left, whose list repeats none.
* `BulkProofs!ChangesAreWhole` is the same invariant at the moment of the write:
  nothing is left to look up, so every target asked for is found or a duplicate.
* `BulkProofs!SetSentToMembers`: whatever happened since the name was looked up,
  the id belongs to that name or to none (`ReadingOK`), because ids are never
  given out twice (`IdsAreNew`); with rows under the id it still is the name's.

The assumptions are the named `ASSUME`s of the modules; TLC evaluates them in
every run.

Only model-checked: liveness under fairness (`EventuallySettled`, `TriesAgain`,
`PhasesSettle`, `LoggedOutSettles`), because TLAPS does not reason about
`ENABLED`. Every other property of a run that passes is a theorem as well; the two
`ImplementsWorkerLife` are theorems only.

## 5. Plan

Built, in this order: the core (`Delivery`), connection, lock, media, controller
and batches with the first theorems; then the composed systems (`Daemon`,
`Service`, `Deployment`, `GroupDirectory` under `BulkMessages`), each with the
abstract specification it implements; then the proofs of section 4. What is left:

1. `WorkerLife` ties `Delivery` and `Daemon` in what they both say of the worker.
   The connection's own variables, as the queue sees them (`pauseReason`,
   `ConnectionOpens`, `ConnectionEnds`), have no such common abstraction yet.
2. The lookups of a bulk command one by one.

## 6. Not modelled

Text, formatting and parsing of commands; message building and MIME types; search
and listing; QR codes; audit rows and logs; configuration; the signal keys (data
that is written transactionally); `wts check`, health and status reports beyond
the row they read; the install wizard's questions and the git, npm and test
commands of `wts update` before its script: they change nothing that another part
reads. What a migration does to rows is data, and so is the column default that
one of them gives older jobs (`migrations/index.ts:157`).

Some failures are left out because the code gives them no meaning of its own:
the database failing inside a socket handler, which ends the process like a kill;
`createSocket` failing before there is a socket; a reply of the controller that
cannot be sent, which is answered by another reply (`self-controller.ts:146`); a
directory of code that is half copied; `systemctl start` during a stop, which
systemd queues. A migration whose checksum differs is refused like one that
fails.

SQLite, Node's event loop, the file system and
WhatsApp are external: a transaction is a step, a file operation is a step, and
WhatsApp may do whatever the handlers can observe.
