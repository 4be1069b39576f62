------------------------------- MODULE Deployment -------------------------------
(***************************************************************************)
(* The installed service: systemd, which starts the daemon and starts it   *)
(* again when it fails, and scripts/upgrade.sh, which `wts update` ends    *)
(* with.  Every command of the script is a step and may fail, which ends   *)
(* the script (set -e); its steps run beside the processes of Service.     *)
(***************************************************************************)
EXTENDS Service

CONSTANT Updates  \* bound: how often upgrade.sh is run

ASSUME UpdatesAssumption == Updates \in Nat

Nobody == Absent

VARIABLES
  installed,   \* the migrations of the code in /opt: 1 .. installed
  modules,     \* node_modules is complete there
  unit,        \* "inactive", "active", "deactivating", "waiting" (auto-restart),
               \* "failed" (StartLimitBurst)
  main,        \* the unit's main process, or Nobody
  script,      \* upgrade.sh: "idle", "begun", "stop", "stopping", "copy",
               \* "modules", "installing", "unit", "start", "done", "stuck"
  wasActive,   \* WAS_ACTIVE
  runs,        \* how often the script was run
  wanted,      \* history: the operator started the service and it did not end
               \* by itself, for good
  interrupted, \* history: a run failed after it had asked for the state
  slipped      \* history: the script did not stop the main process: it was being
               \* stopped already, or was started later in the run

app == <<installed, modules>>
update == <<script, wasActive, runs>>
wishes == <<wanted, interrupted, slipped>>
deploymentVars == <<serviceVars, app, unit, main, update, wishes>>

DeploymentTypeOK ==
  /\ ServiceTypeOK
  /\ installed \in 1 .. Latest /\ modules \in BOOLEAN
  /\ unit \in {"inactive", "active", "deactivating", "waiting", "failed"}
  /\ main \in Process \cup {Nobody}
  /\ script \in {"idle", "begun", "stop", "stopping", "copy", "modules", "installing",
                 "unit", "start", "done", "stuck"}
  /\ wasActive \in BOOLEAN /\ runs \in 0 .. Updates
  /\ wanted \in BOOLEAN /\ interrupted \in BOOLEAN /\ slipped \in BOOLEAN
  /\ unit \in {"active", "deactivating"} <=> main # Nobody
  /\ main # Nobody /\ Running(main) => IsA(main, "daemon")

DeploymentInit ==
  /\ ServiceInit
  /\ installed \in 1 .. Latest /\ modules = TRUE
  /\ unit = "inactive" /\ main = Nobody
  /\ script = "idle" /\ wasActive = FALSE /\ runs = 0
  /\ wanted = FALSE /\ interrupted = FALSE /\ slipped = FALSE

Updating == script \notin {"idle", "done", "stuck"}
PastStop == Updating /\ script \notin {"begun", "stop"}

-----------------------------------------------------------------------------
(* systemd.                                                                *)

StartMain ==
  \E p \in Process :
    /\ Launch(p, "daemon", installed, ~modules)
    /\ main' = p /\ unit' = "active"

(* systemctl start, by the operator.                                       *)
StartUnit ==
  /\ unit \in {"inactive", "waiting", "failed"}
  /\ StartMain
  /\ wanted' = TRUE
  /\ slipped' = PastStop
  /\ UNCHANGED <<app, update, interrupted>>

Bug_Deactivate == unit' = "deactivating"

(* systemctl stop: a pending restart is called off.                        *)
Deactivate ==
  unit' = CASE unit = "active" -> "deactivating"
            [] unit = "waiting" -> "inactive"
            [] OTHER -> unit

StopUnit ==
  /\ unit \in {"active", "waiting"}
  /\ Deactivate
  /\ wanted' = FALSE
  /\ UNCHANGED <<serviceVars, app, main, update, interrupted, slipped>>

(* Restart=on-failure: what exits with an error is started again.          *)
MainExits ==
  /\ main # Nobody /\ ~Running(main)
  /\ main' = Nobody
  /\ unit' = IF unit = "active" /\ ~At(main, "ended") THEN "waiting" ELSE "inactive"
  /\ wanted' = (wanted /\ ~(unit = "active" /\ At(main, "ended")))
  /\ slipped' = FALSE
  /\ UNCHANGED <<serviceVars, app, update, interrupted>>

(* RestartSec is over; or StartLimitBurst is reached, a count that is left *)
(* to chance here.                                                         *)
AutoRestart ==
  /\ unit = "waiting"
  /\ \/ StartMain /\ slipped' = PastStop /\ UNCHANGED wanted
     \/ unit' = "failed" /\ wanted' = FALSE /\ UNCHANGED <<serviceVars, main, slipped>>
  /\ UNCHANGED <<app, update, interrupted>>

-----------------------------------------------------------------------------
(* upgrade.sh.                                                             *)

Script(s) == script' = s

(* runUpdate has pulled, checked and built another version; or the script  *)
(* is run by hand.                                                         *)
BeginUpdate ==
  /\ ~Updating /\ runs < Updates
  /\ Script("begun") /\ runs' = runs + 1
  /\ UNCHANGED <<serviceVars, app, unit, main, wasActive, wishes>>

(* systemctl is-active: a unit that waits for its restart, or is still     *)
(* being stopped, is not active.                                           *)
AskActive ==
  /\ script = "begun"
  /\ wasActive' = (unit = "active")
  /\ Script(IF unit = "active" THEN "stop" ELSE "copy")
  /\ slipped' = (unit = "deactivating")
  /\ UNCHANGED <<serviceVars, app, unit, main, runs, wanted, interrupted>>

StopForUpdate ==
  /\ script = "stop"
  /\ Deactivate
  /\ Script("stopping")
  /\ UNCHANGED <<serviceVars, app, main, wasActive, runs, wishes>>

Bug_Stopped == TRUE

(* systemctl stop waits until the main process is gone.                    *)
Stopped == unit # "deactivating"

StopEnds ==
  /\ script = "stopping" /\ Stopped
  /\ Script("copy")
  /\ UNCHANGED <<serviceVars, app, unit, main, wasActive, runs, wishes>>

CopyCode ==
  /\ script = "copy"
  /\ installed' \in installed .. Latest
  /\ Script("modules")
  /\ UNCHANGED <<serviceVars, modules, unit, main, wasActive, runs, wishes>>

(* npm ci removes node_modules before it fills it again.                   *)
RemoveModules ==
  /\ script = "modules"
  /\ modules' = FALSE
  /\ Script("installing")
  /\ UNCHANGED <<serviceVars, installed, unit, main, wasActive, runs, wishes>>

InstallModules ==
  /\ script = "installing"
  /\ modules' = TRUE
  /\ Script("start")
  /\ UNCHANGED <<serviceVars, installed, unit, main, wasActive, runs, wishes>>

Bug_Restored == FALSE

Restored == wasActive

(* systemctl start, if the unit was active; nothing for one that is.       *)
StartAfterUpdate ==
  /\ script = "start"
  /\ Script("done")
  /\ IF Restored /\ unit # "active" THEN unit # "deactivating" /\ StartMain
     ELSE UNCHANGED <<serviceVars, unit, main>>
  /\ UNCHANGED <<app, wasActive, runs, wishes>>

StepFails ==
  /\ Failures /\ Updating
  /\ Script("stuck")
  /\ interrupted' = (interrupted \/ script # "begun")
  /\ UNCHANGED <<serviceVars, app, unit, main, wasActive, runs, wanted, slipped>>

UpdateStep ==
  \/ BeginUpdate \/ AskActive \/ StopForUpdate \/ StopEnds \/ CopyCode
  \/ RemoveModules \/ InstallModules \/ StartAfterUpdate \/ StepFails

-----------------------------------------------------------------------------
(* SIGTERM ends the daemon; its other ends are its own.                    *)
Command ==
  \E p \in Process, k \in {"connecting", "plain"} : Launch(p, k, installed, ~modules)

Processes ==
  /\ (\E p \in Process : ProcessStep(p)) \/ FileAges \/ Command
  /\ UNCHANGED <<app, unit, main, update, wishes>>

DeploymentNext ==
  \/ Processes
  \/ StartUnit \/ StopUnit \/ MainExits \/ AutoRestart
  \/ UpdateStep

DeploymentSpec == DeploymentInit /\ [][DeploymentNext]_deploymentVars

-----------------------------------------------------------------------------
(* Properties.                                                             *)

(* An update leaves a service that is wanted running, or about to be       *)
(* started again, unless a run of the script failed half-way: the next one *)
(* finds the unit stopped and leaves it so (upgrade.sh:18).                *)
UpdateKeepsService ==
  script = "done" /\ wanted /\ ~interrupted => unit \in {"active", "waiting"}

(* While the code is replaced no daemon of the unit runs, and after the    *)
(* update it runs the code installed; but for one that the script does not *)
(* stop, since systemd was about to start it again or was stopping it      *)
(* (upgrade.sh:19).                                                        *)
UpdateIsExclusive ==
  main # Nobody /\ ~slipped /\ Running(main) =>
    /\ script \notin {"copy", "modules", "installing"}
    /\ script = "done" => process[main].code = installed
=============================================================================
