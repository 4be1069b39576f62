SPECIFICATION DeploymentSpec
CONSTANTS
  Process = {p1, p2, p3}
  Absent = Absent
  Together = 3
  Failures = TRUE
  Latest = 2
  Updates = 1
INVARIANTS
  DeploymentTypeOK
  RefusalJustified
  AloneKeepsLock
  MigrationFailsForCause
  OnlyCrashLeavesLock
  UpdateKeepsService
  UpdateIsExclusive
PROPERTIES
  ImplementsSchemaLife
SYMMETRY Alike
CHECK_DEADLOCK FALSE
