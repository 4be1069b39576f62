---------------------------- MODULE DeploymentProofs ----------------------------
(***************************************************************************)
(* Theorems about the installed service, for every number of processes, of *)
(* migrations and of updates: what is proved of lock and schema holds      *)
(* under systemd and upgrade.sh too, and the update does what it should.   *)
(***************************************************************************)
EXTENDS Deployment, ServiceProofs

Assumptions == LockAssumption /\ LatestAssumption /\ UpdatesAssumption

AppType == installed \in 1 .. Latest /\ modules \in BOOLEAN

UnitType ==
  /\ unit \in {"inactive", "active", "deactivating", "waiting", "failed"}
  /\ main \in Process \cup {Nobody}
  /\ unit \in {"active", "deactivating"} <=> main # Nobody

ScriptType ==
  /\ script \in {"idle", "begun", "stop", "stopping", "copy", "modules", "installing",
                 "unit", "start", "done", "stuck"}
  /\ wasActive \in BOOLEAN /\ runs \in 0 .. Updates
  /\ wanted \in BOOLEAN /\ interrupted \in BOOLEAN /\ slipped \in BOOLEAN

(* The unit's process was started, as a daemon.                            *)
Started ==
  main # Nobody => ~At(main, "unborn") /\ (Running(main) => IsA(main, "daemon"))

(* A service that is wanted and does not run is between the script's stop  *)
(* and its start.                                                          *)
Owed ==
  /\ script \in {"stop", "stopping"} => wasActive
  /\ wanted /\ ~interrupted /\ unit \notin {"active", "waiting"} =>
       wasActive /\ script \in {"stopping", "copy", "modules", "installing", "start"}

(* From its stop on the script keeps the unit's process away, but for one  *)
(* that slipped.                                                           *)
Exclusive ==
  main # Nobody /\ ~slipped =>
    /\ script = "stopping" => unit = "deactivating"
    /\ script \notin {"copy", "modules", "installing", "start"}
    /\ script = "done" /\ Running(main) => process[main].code = installed

DeploymentInv ==
  LockedInv /\ AppType /\ UnitType /\ ScriptType /\ Started /\ Owed /\ Exclusive

-----------------------------------------------------------------------------
LEMMA DeploymentServes ==
  ASSUME AppType, [DeploymentNext]_deploymentVars
  PROVE  [ServiceNext]_serviceVars
<1>1. CASE Processes
  <2>1. CASE Command
    BY <2>1 DEF Command, ServiceNext, AppType, Kinds
  <2> QED BY <1>1, <2>1 DEF Processes, ServiceNext
<1>2. StartMain => ServiceNext
  BY DEF StartMain, ServiceNext, AppType, Kinds
<1>3. CASE StartUnit \/ StopUnit \/ MainExits \/ AutoRestart
  BY <1>2, <1>3 DEF StartUnit, StopUnit, MainExits, AutoRestart
<1>4. CASE UpdateStep
  BY <1>2, <1>4 DEF UpdateStep, BeginUpdate, AskActive, StopForUpdate, StopEnds, CopyCode,
        RemoveModules, InstallModules, StartAfterUpdate, StepFails
<1>5. CASE UNCHANGED deploymentVars
  BY <1>5 DEF deploymentVars
<1> QED BY <1>1, <1>3, <1>4, <1>5 DEF DeploymentNext

LEMMA AppKept ==
  ASSUME LatestAssumption, AppType, [DeploymentNext]_deploymentVars
  PROVE  AppType'
<1>1. CASE UNCHANGED app
  BY <1>1 DEF app, AppType
<1>2. CASE RemoveModules \/ InstallModules
  BY <1>2 DEF AppType, RemoveModules, InstallModules
<1>3. CASE CopyCode
  <2>1. installed \in 1 .. Latest /\ installed' \in installed .. Latest /\ UNCHANGED modules
    BY <1>3 DEF AppType, CopyCode
  <2>2. installed' \in 1 .. Latest
    BY <2>1 DEF LatestAssumption
  <2> QED BY <2>1, <2>2 DEF AppType
<1> QED
  BY <1>1, <1>2, <1>3 DEF DeploymentNext, Processes, StartUnit, StopUnit, MainExits, AutoRestart,
     UpdateStep, BeginUpdate, AskActive, StopForUpdate, StopEnds, StartAfterUpdate, StepFails,
     deploymentVars

(* Every step of the installed service is one of its processes, or none.   *)
THEOREM ServiceImplemented == DeploymentSpec => ServiceSpec
<1>1. DeploymentInit => ServiceInit /\ AppType
  BY DEF DeploymentInit, AppType
<1>2. AppType /\ [DeploymentNext]_deploymentVars => AppType' /\ [ServiceNext]_serviceVars
  BY LatestAssumption, AppKept, DeploymentServes
<1> QED BY <1>1, <1>2, PTL DEF DeploymentSpec, ServiceSpec

-----------------------------------------------------------------------------
(* A process is started once, and while it runs it is what it was.         *)
LEMMA ServiceKeeps ==
  ASSUME LatestAssumption, SchemaInv, [ServiceNext]_serviceVars,
         NEW p \in Process, ~At(p, "unborn")
  PROVE  /\ ~At(p, "unborn")'
         /\ Running(p)' => /\ Running(p) /\ process'[p].kind = process[p].kind
                           /\ process'[p].code = process[p].code
<1> DEFINE Same == /\ ~At(p, "unborn")'
                   /\ Running(p)' => /\ Running(p) /\ process'[p].kind = process[p].kind
                                     /\ process'[p].code = process[p].code
<1>0. process \in [Process -> Entries]
  BY DEF SchemaInv
<1>1. CASE process'[p] = process[p]
  BY <1>1 DEF At, Running
<1>2. ASSUME NEW s \in Stages \ {"unborn"}, Stage(p, s), Running(p) \/ s \in {"ended", "broke", "crashed"}
      PROVE  Same
  <2>1. /\ process'[p].stage = s
        /\ s \notin {"ended", "broke", "crashed"} =>
             process'[p] = [process[p] EXCEPT !.stage = s]
    BY <1>0, <1>2, Staged
  <2> QED BY <1>0, <1>2, <2>1 DEF At, Running, Entries
<1>3. ASSUME NEW q \in Process, ProcessStep(q) PROVE Same
  <2>1. ASSUME q # p, NEW s \in Stages, Stage(q, s) PROVE Same
    BY <1>0, <1>1, <2>1, Staged
  <2>2. ASSUME NEW n \in 0 .. Latest, process'[p] = Migrated(p, n),
               process[p].stage \in {"opening", "migrating"}
        PROVE  Same
    BY <2>2, MigratedIs DEF At, Running
  <2>3. CASE OpenDatabase(q)
    <3>1. /\ At(q, "opening") /\ recorded \in 0 .. Latest
          /\ process' = [process EXCEPT ![q] = Migrated(q, recorded)]
      BY <2>3 DEF OpenDatabase, SchemaInv
    <3> QED BY <1>0, <1>1, <2>2, <3>1 DEF At
  <2>4. CASE MigrateNext(q)
    <3> DEFINE v == process[q].applied + 1
    <3>1. At(q, "migrating")
      BY <2>4 DEF MigrateNext
    <3>2. CASE Exists(v)
      <4>1. PICK s \in {"failing", "broke"} : Stage(q, s)
        BY <2>4, <3>2 DEF MigrateNext, ContextFails
      <4> QED BY <1>2, <2>1, <3>1, <4>1 DEF Stages, At, Running
    <3>3. CASE ~Exists(v)
      <4>1. v \in 0 .. Latest
        BY <3>1 DEF SchemaInv, Informed, Entries, LatestAssumption
      <4>2. process' = [r \in Process |->
               IF r = q THEN Migrated(q, v)
               ELSE [process[r] EXCEPT !.raced = process[r].raced \/ At(r, "migrating")]]
        BY <2>4, <3>3 DEF MigrateNext
      <4>3. CASE p = q
        BY <2>2, <3>1, <4>1, <4>2, <4>3 DEF At
      <4>4. CASE p # q
        <5>1. /\ process'[p].stage = process[p].stage /\ process'[p].kind = process[p].kind
              /\ process'[p].code = process[p].code
          BY <1>0, <4>2, <4>4 DEF Entries
        <5> QED BY <5>1 DEF At, Running
      <4> QED BY <4>3, <4>4
    <3> QED BY <3>2, <3>3
  <2>5. CASE TakeLock(q)
    <3>1. PICK s \in {"opening", "connected", "broke", "crashed", "locking"} : Stage(q, s)
      BY <2>5 DEF TakeLock
    <3> QED BY <1>2, <2>1, <2>5, <3>1 DEF TakeLock, Stages, At, Running
  <2>6. CASE Serve(q) \/ PlainWork(q) \/ ConnectingWork(q)
    <3>1. PICK s \in {"leaving", "failing", "ended", "broke", "locking"} : Stage(q, s)
      BY <2>6 DEF Serve, PlainWork, ConnectingWork
    <3> QED
      BY <1>2, <2>1, <2>6, <3>1 DEF Serve, PlainWork, ConnectingWork, Stages, At, Running
  <2>7. CASE LetGo(q) \/ Killed(q)
    <3>1. UNCHANGED process \/ \E s \in {"ended", "broke", "crashed"} : Stage(q, s)
      BY <2>7 DEF LetGo, Killed
    <3> QED BY <1>1, <1>2, <2>1, <3>1 DEF Stages
  <2> QED BY <1>3, <2>3, <2>4, <2>5, <2>6, <2>7 DEF ProcessStep
<1>4. ASSUME NEW q \in Process, NEW k \in Kinds, NEW v \in 1 .. Latest, NEW b \in BOOLEAN,
             Launch(q, k, v, b)
      PROVE  Same
  <2>1. q # p /\ process'[p] = process[p]
    BY <1>0, <1>4 DEF Launch
  <2> QED BY <1>1, <2>1
<1>5. CASE FileAges \/ UNCHANGED serviceVars
  BY <1>1, <1>5 DEF FileAges, serviceVars
<1> QED BY <1>3, <1>4, <1>5 DEF ServiceNext

(* The unit's process goes on, or another is started.                      *)
LEMMA MainGoesOn ==
  ASSUME Assumptions, SchemaInv, [ServiceNext]_serviceVars, UNCHANGED main, UnitType, Started
  PROVE  /\ Started'
         /\ main # Nobody /\ Running(main)' => Running(main) /\ process'[main].code = process[main].code
<1>1. CASE main = Nobody
  BY <1>1 DEF Started, Nobody
<1>2. CASE main # Nobody
  <2>1. main \in Process /\ ~At(main, "unborn")
    BY <1>2 DEF UnitType, Started
  <2>2. /\ ~At(main, "unborn")'
        /\ Running(main)' => /\ Running(main) /\ process'[main].kind = process[main].kind
                            /\ process'[main].code = process[main].code
    BY <2>1, ServiceKeeps DEF Assumptions, At, Running
  <2> QED BY <1>2, <2>2 DEF Started, IsA, Nobody
<1> QED BY <1>1, <1>2

LEMMA MainStarts ==
  ASSUME Assumptions, SchemaInv, AppType, StartMain
  PROVE  /\ main' \in Process /\ main' # Nobody /\ unit' = "active" /\ Started'
         /\ Running(main)' => process'[main'].code = installed
<1>1. PICK p \in Process : Launch(p, "daemon", installed, ~modules) /\ main' = p /\ unit' = "active"
  BY DEF StartMain
<1> DEFINE new == IF ~modules THEN Idle("broke")
                  ELSE [Idle("locking") EXCEPT !.kind = "daemon", !.code = installed]
<1>2. process' = [process EXCEPT ![p] = new]
  BY <1>1 DEF Launch
<1>3. process'[p] = new
  BY <1>2 DEF SchemaInv
<1>4. \/ new.stage = "broke"
      \/ new.stage = "locking" /\ new.kind = "daemon" /\ new.code = installed
  BY DEF Idle
<1>5. p # Nobody
  BY DEF Assumptions, LockAssumption, Nobody
<1> HIDE DEF new
<1> QED BY <1>1, <1>3, <1>4, <1>5 DEF Started, At, IsA, Running

(* The operator, systemd and the processes.                                *)
LEMMA UnitKeeps ==
  ASSUME Assumptions, DeploymentInv, SchemaInv,
         Processes \/ StartUnit \/ StopUnit \/ MainExits \/ AutoRestart
  PROVE  (UnitType /\ ScriptType /\ Started /\ Owed /\ Exclusive)'
<1> USE DEF DeploymentInv
<1>1. CASE Processes
  <2>1. /\ UNCHANGED app /\ UNCHANGED unit /\ UNCHANGED main /\ UNCHANGED update
        /\ UNCHANGED wishes /\ [ServiceNext]_serviceVars
    BY <1>1, DeploymentServes DEF Processes, DeploymentNext
  <2>2. /\ Started'
        /\ main # Nobody /\ Running(main)' =>
             Running(main) /\ process'[main].code = process[main].code
    BY <2>1, MainGoesOn
  <2> QED
    BY <2>1, <2>2 DEF app, update, wishes, UnitType, ScriptType, Owed, Exclusive, Running, Nobody
<1>2. CASE StartUnit
  <2>1. /\ main' \in Process /\ main' # Nobody /\ unit' = "active" /\ Started'
        /\ Running(main)' => process'[main'].code = installed
    BY <1>2, MainStarts DEF StartUnit
  <2> QED
    BY <1>2, <2>1 DEF StartUnit, app, update, UnitType, ScriptType, Owed, Exclusive, PastStop,
       Updating, Nobody, Running
<1>3. CASE StopUnit
  <2>1. Started'
    BY <1>3 DEF StopUnit, serviceVars, Started, At, Running, IsA, Nobody
  <2> QED
    BY <1>3, <2>1 DEF StopUnit, Deactivate, app, update, serviceVars, UnitType, ScriptType, Owed,
       Exclusive, Running, Nobody
<1>4. CASE MainExits
  BY <1>4 DEF MainExits, app, update, UnitType, ScriptType, Owed, Exclusive, Started, Nobody,
     serviceVars
<1>5. CASE AutoRestart
  <2>1. CASE StartMain
    <3>1. /\ main' \in Process /\ main' # Nobody /\ unit' = "active" /\ Started'
          /\ Running(main)' => process'[main'].code = installed
      BY <2>1, MainStarts
    <3>2. slipped' = PastStop /\ UNCHANGED wanted
      BY <1>5, <3>1 DEF AutoRestart
    <3> QED
      BY <1>5, <3>1, <3>2 DEF AutoRestart, app, update, UnitType, ScriptType, Owed, Exclusive,
         PastStop, Updating, Nobody, Running
  <2>2. CASE unit' = "failed" /\ wanted' = FALSE /\ UNCHANGED <<serviceVars, main, slipped>>
    BY <1>5, <2>2 DEF AutoRestart, app, update, UnitType, ScriptType, Owed, Exclusive, Started,
       Nobody, serviceVars
  <2> QED BY <1>5, <2>1, <2>2 DEF AutoRestart
<1> QED BY <1>1, <1>2, <1>3, <1>4, <1>5

LEMMA ScriptKeeps ==
  ASSUME Assumptions, DeploymentInv, SchemaInv, UpdateStep
  PROVE  (UnitType /\ ScriptType /\ Started /\ Owed /\ Exclusive)'
<1> USE DEF DeploymentInv
<1>1. ASSUME UNCHANGED <<serviceVars, main>> PROVE Started'
  BY <1>1 DEF serviceVars, Started, At, Running, IsA, Nobody
<1>2. CASE BeginUpdate
  BY <1>1, <1>2 DEF BeginUpdate, Script, app, wishes, serviceVars, UnitType, ScriptType, Owed,
     Exclusive, Running, Nobody, Updating, Assumptions, UpdatesAssumption
<1>3. CASE AskActive
  BY <1>1, <1>3 DEF AskActive, Script, app, serviceVars, UnitType, ScriptType, Owed,
     Exclusive, Running, Nobody
<1>4. CASE StopForUpdate
  BY <1>1, <1>4 DEF StopForUpdate, Deactivate, Script, app, wishes, serviceVars, UnitType,
     ScriptType, Owed, Exclusive, Running, Nobody
<1>5. CASE StopEnds
  BY <1>1, <1>5 DEF StopEnds, Stopped, Script, app, wishes, serviceVars, UnitType, ScriptType,
     Owed, Exclusive, Running, Nobody
<1>6. CASE CopyCode \/ RemoveModules \/ InstallModules
  BY <1>1, <1>6 DEF CopyCode, RemoveModules, InstallModules, Script, wishes, serviceVars,
     UnitType, ScriptType, Owed, Exclusive, Running, Nobody
<1>7. CASE StartAfterUpdate
  <2>1. CASE StartMain
    <3>1. /\ main' \in Process /\ main' # Nobody /\ unit' = "active" /\ Started'
          /\ Running(main)' => process'[main'].code = installed
      BY <2>1, MainStarts
    <3> QED
      BY <1>7, <3>1 DEF StartAfterUpdate, Script, app, wishes, UnitType, ScriptType, Owed,
         Exclusive, Nobody, Running
  <2>2. CASE UNCHANGED <<serviceVars, unit, main>> /\ ~(Restored /\ unit # "active")
    BY <1>1, <1>7, <2>2 DEF StartAfterUpdate, Restored, Script, app, wishes, serviceVars, UnitType,
       ScriptType, Owed, Exclusive, Running, Nobody
  <2> QED BY <1>7, <2>1, <2>2 DEF StartAfterUpdate
<1>8. CASE StepFails
  BY <1>1, <1>8 DEF StepFails, Script, app, serviceVars, UnitType, ScriptType, Owed, Exclusive,
     Running, Nobody, Updating
<1> QED BY <1>2, <1>3, <1>4, <1>5, <1>6, <1>7, <1>8 DEF UpdateStep

-----------------------------------------------------------------------------
LEMMA DeploymentKept ==
  ASSUME Assumptions, DeploymentInv, [DeploymentNext]_deploymentVars
  PROVE  DeploymentInv'
<1>1. LockedInv' /\ AppType' /\ SchemaInv
  BY DeploymentServes, AppKept, LockedKept DEF DeploymentInv, Assumptions, LockedInv
<1>2. CASE UNCHANGED deploymentVars
  BY <1>1, <1>2 DEF deploymentVars, serviceVars, app, update, wishes, DeploymentInv, UnitType,
     ScriptType, Started, Owed, Exclusive, At, IsA, Running, Nobody
<1>3. CASE DeploymentNext
  <2>1. (UnitType /\ ScriptType /\ Started /\ Owed /\ Exclusive)'
    BY <1>1, <1>3, UnitKeeps, ScriptKeeps DEF DeploymentNext
  <2> QED BY <1>1, <2>1 DEF DeploymentInv
<1> QED BY <1>2, <1>3

LEMMA DeploymentStarts ==
  ASSUME Assumptions, DeploymentInit
  PROVE  DeploymentInv
<1>1. LockedInv
  BY LockedStarts DEF DeploymentInit, Assumptions
<1>2. AppType /\ UnitType /\ Started /\ Owed /\ Exclusive
  BY DEF DeploymentInit, AppType, UnitType, Started, Owed, Exclusive
<1>3. runs \in 0 .. Updates
  BY DEF DeploymentInit, Assumptions, UpdatesAssumption
<1>4. ScriptType
  BY <1>3 DEF DeploymentInit, ScriptType
<1> QED BY <1>1, <1>2, <1>4 DEF DeploymentInv

LEMMA DeploymentInvariant == DeploymentSpec => []DeploymentInv
<1>1. Assumptions
  BY LockAssumption, LatestAssumption, UpdatesAssumption DEF Assumptions
<1>2. DeploymentInit => DeploymentInv
  BY <1>1, DeploymentStarts
<1>3. DeploymentInv /\ [DeploymentNext]_deploymentVars => DeploymentInv'
  BY <1>1, DeploymentKept
<1> QED BY <1>2, <1>3, PTL DEF DeploymentSpec

(* Every variable has its type, in particular: who is connected holds the  *)
(* lock, and the unit's process is a daemon.                               *)
THEOREM DeploymentTypeCorrect == DeploymentSpec => []DeploymentTypeOK
<1>1. DeploymentInv => DeploymentTypeOK
  <2>1. LockedInv => ServiceTypeOK
    BY DEF LockedInv, SchemaInv, LockInv, ServiceTypeOK, Matches, Entries, At
  <2> QED
    BY <2>1 DEF DeploymentInv, DeploymentTypeOK, AppType, UnitType, ScriptType, Started, Nobody
<1> QED BY <1>1, DeploymentInvariant, PTL

(* An update keeps a service that is wanted, unless a run of the script    *)
(* failed half-way (upgrade.sh:18).                                        *)
THEOREM KeepsService == DeploymentSpec => []UpdateKeepsService
<1>1. DeploymentInv => UpdateKeepsService
  BY DEF DeploymentInv, Owed, UpdateKeepsService
<1> QED BY <1>1, DeploymentInvariant, PTL

(* The code is not replaced under a daemon that the script could stop, and *)
(* the daemon runs what was installed (upgrade.sh:19).                     *)
THEOREM KeepsApart == DeploymentSpec => []UpdateIsExclusive
<1>1. DeploymentInv => UpdateIsExclusive
  BY DEF DeploymentInv, Exclusive, UpdateIsExclusive
<1> QED BY <1>1, DeploymentInvariant, PTL

(* What is proved of the lock holds under systemd's restarts and the       *)
(* update script too (acquire and release of process-lock.ts).             *)
THEOREM DeployedLock ==
  DeploymentSpec => [](RefusalJustified /\ AloneKeepsLock /\ OnlyCrashLeavesLock)
<1>1. DeploymentSpec => []RefusalJustified /\ []AloneKeepsLock
  BY ServiceImplemented, LockImplemented, RefusedForCause, KeepsLock
<1> QED BY <1>1, ServiceImplemented, OnlyCrashes, PTL

(* What is proved of migrations holds for the service: systemd and the     *)
(* update script start processes, and each of them opens the database the  *)
(* way Service says (database.ts:55).                                      *)
THEOREM DeployedSchema == DeploymentSpec => []MigrationFailsForCause /\ ImplementsSchemaLife
BY ServiceImplemented, SchemaImplemented, MigratesAlone
=============================================================================
