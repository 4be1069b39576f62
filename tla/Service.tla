-------------------------------- MODULE Service --------------------------------
(***************************************************************************)
(* The processes of one installation, side by side on one state directory: *)
(* daemons, commands that connect (withConnectedManager) and plain ones.   *)
(* A daemon takes the lock, then opens and migrates the database; a        *)
(* command opens and migrates it first, and connects under the lock.  Each *)
(* transaction, file operation and kill(pid, 0) is a step.  A migration    *)
(* runs in a transaction, but the list of those that are applied is read   *)
(* once, before the first of them.                                         *)
(***************************************************************************)
EXTENDS ProcessLock

CONSTANT Latest  \* the migrations that the newest code has: 1 .. Latest

ASSUME LatestAssumption == Latest \in Nat \ {0}

Kinds == {"daemon", "connecting", "plain"}

VARIABLES
  tables,   \* the migrations whose statements are in the database: 1 .. tables
  recorded, \* those with a row in schema_migrations: 1 .. recorded
  process   \* each process: its kind, where it is (stage), the migrations its
            \* code has (1 .. code) and believes to be applied (1 .. applied),
            \* and whether another process has migrated since it read the list

schema == <<tables, recorded>>
serviceVars == <<vars, schema, process>>

(* "working": a daemon serves, a command uses the database; "connected": a *)
(* command under the lock; "leaving" and "failing": the database is closed *)
(* and the lock is released next; the last three are ends: with status 0,  *)
(* with an error, and without a clean-up.                                  *)
Stages == {"unborn", "locking", "opening", "migrating", "working", "connected", "leaving",
           "failing", "ended", "broke", "crashed"}

At(p, s) == process[p].stage = s
IsA(p, k) == process[p].kind = k

Running(p) == process[p].stage \notin {"unborn", "ended", "broke", "crashed"}

ServiceTypeOK ==
  /\ TypeOK
  /\ tables \in 0 .. Latest /\ recorded \in 0 .. Latest
  /\ process \in [Process -> [kind : Kinds, stage : Stages, code : 0 .. Latest,
                             applied : 0 .. Latest, raced : BOOLEAN]]
  /\ \A p \in Process : At(p, "connected") => Holding(p)

Idle(s) == [kind |-> "plain", stage |-> s, code |-> 0, applied |-> 0, raced |-> FALSE]

ServiceInit ==
  /\ Init
  /\ tables \in 0 .. Latest /\ recorded = tables
  /\ process = [p \in Process |-> Idle("unborn")]

-----------------------------------------------------------------------------
(* What a process was is forgotten at its end.                             *)
Stage(p, s) ==
  process' = [process EXCEPT ![p] = IF s \in {"ended", "broke", "crashed"} THEN Idle(s)
                                    ELSE [@ EXCEPT !.stage = s]]

(* A process is started with the code of version v; broken code ends it.   *)
Launch(p, k, v, broken) ==
  /\ At(p, "unborn")
  /\ process' = [process EXCEPT ![p] =
       IF broken THEN Idle("broke")
       ELSE [Idle(IF k = "daemon" THEN "locking" ELSE "opening") EXCEPT !.kind = k, !.code = v]]
  /\ IF k = "daemon" /\ ~broken THEN Start(p) /\ Remember ELSE UNCHANGED vars
  /\ UNCHANGED schema

-----------------------------------------------------------------------------
(* createAppContext: open and migrate.                                     *)

Bug_ContextFails(p) == Stage(p, "broke")

(* A daemon whose context cannot be created releases its lock first.       *)
ContextFails(p) == Stage(p, IF IsA(p, "daemon") THEN "failing" ELSE "broke")

Bug_Migrated(p, n) ==
  [process[p] EXCEPT !.applied = n,
                     !.stage = IF n <= process[p].code THEN "migrating" ELSE "working"]

(* A process that knows of n applied migrations.                           *)
Migrated(p, n) ==
  [process[p] EXCEPT !.applied = n,
                     !.stage = IF n < process[p].code THEN "migrating" ELSE "working"]

OpenDatabase(p) ==
  /\ At(p, "opening")
  /\ process' = [process EXCEPT ![p] = Migrated(p, recorded)]
  /\ UNCHANGED <<vars, schema>>

Bug_Exists(v) == FALSE

(* CREATE TABLE and ALTER TABLE fail where their work is done already.     *)
Exists(v) == v <= tables

Bug_Commit(v) == tables' = v /\ recorded' \in {recorded, v}

(* The statements and the row are one transaction.                         *)
Commit(v) == tables' = v /\ recorded' = v

MigrateNext(p) ==
  /\ At(p, "migrating")
  /\ LET v == process[p].applied + 1 IN
       IF Exists(v) THEN ContextFails(p) /\ UNCHANGED schema
       ELSE /\ Commit(v)
            /\ process' = [q \in Process |->
                 IF q = p THEN Migrated(p, v)
                 ELSE [process[q] EXCEPT !.raced = @ \/ At(q, "migrating")]]
  /\ UNCHANGED vars

-----------------------------------------------------------------------------
(* The lock, and the work.                                                 *)

(* acquire is synchronous; one that is refused or throws ends the process. *)
TakeLock(p) ==
  /\ At(p, "locking")
  /\ Acquire(p) /\ Remember
  /\ Stage(p, CASE pc'[p] = "held" -> IF IsA(p, "daemon") THEN "opening" ELSE "connected"
                [] pc'[p] = "refused" -> "broke"
                [] pc'[p] = "gone" -> "crashed"
                [] OTHER -> "locking")
  /\ UNCHANGED schema

(* A daemon ends, clean or not, and closes the database.                   *)
Serve(p) ==
  /\ At(p, "working") /\ IsA(p, "daemon")
  /\ Stage(p, "leaving") \/ Stage(p, "failing")
  /\ UNCHANGED <<vars, schema>>

PlainWork(p) ==
  /\ At(p, "working") /\ IsA(p, "plain")
  /\ Stage(p, "ended") \/ Stage(p, "broke")
  /\ UNCHANGED <<vars, schema>>

ConnectingWork(p) ==
  /\ At(p, "working") /\ IsA(p, "connecting")
  /\ Stage(p, "locking")
  /\ Start(p) /\ Remember
  /\ UNCHANGED schema

(* The lock is released in two steps; then a daemon exits, and a command   *)
(* closes the database and exits.                                          *)
LetGo(p) ==
  /\ process[p].stage \in {"connected", "leaving", "failing"}
  /\ Release(p) \/ RemoveOwn(p)
  /\ Remember
  /\ IF pc'[p] # "gone" THEN UNCHANGED process
     ELSE \/ ~At(p, "failing") /\ Stage(p, "ended")
          \/ ~At(p, "leaving") /\ Stage(p, "broke")
  /\ UNCHANGED schema

(* The open transaction of a killed process is rolled back.  A process     *)
(* whose finally block throws leaves its lock file like a killed one.      *)
Killed(p) ==
  /\ Failures /\ Running(p)
  /\ IF Alive(p) THEN Kill(p) /\ Remember ELSE UNCHANGED vars
  /\ Stage(p, "crashed")
  /\ UNCHANGED schema

FileAges == Age /\ Remember /\ UNCHANGED <<schema, process>>

-----------------------------------------------------------------------------
ProcessStep(p) ==
  \/ OpenDatabase(p) \/ MigrateNext(p) \/ TakeLock(p) \/ Serve(p) \/ PlainWork(p)
  \/ ConnectingWork(p) \/ LetGo(p) \/ Killed(p)

ServiceNext ==
  \/ \E p \in Process : ProcessStep(p)
  \/ \E p \in Process, k \in Kinds, v \in 1 .. Latest, broken \in BOOLEAN :
       Launch(p, k, v, broken)
  \/ FileAges

ServiceSpec == ServiceInit /\ [][ServiceNext]_serviceVars

-----------------------------------------------------------------------------
(* Properties.                                                             *)

(* Whatever start was interrupted before, a process finds a schema that it *)
(* can bring up to date, alone; a migration fails only where another       *)
(* process migrates at the same time (database.ts:55).                     *)
MigrationFailsForCause ==
  \A p \in Process :
    At(p, "migrating") /\ Exists(process[p].applied + 1) => process[p].raced

(* Only a process that crashed, or could not write its file, leaves the    *)
(* lock file behind: one that fails to open the database does not          *)
(* (daemon.ts:26).                                                         *)
OnlyCrashLeavesLock == file # Absent => Running(file.by) \/ At(file.by, "crashed")

(* The schema lives as SchemaLife promises.                                *)
Working ==
  {p \in Process : \/ At(p, "working") \/ At(p, "connected")
                   \/ At(p, "locking") /\ IsA(p, "connecting")}

Schema ==
  INSTANCE SchemaLife WITH version <- recorded, working <- Working,
                           needs <- [p \in Process |-> process[p].code]

ImplementsSchemaLife == Schema!Spec
=============================================================================
