SPECIFICATION DaemonFairSpec
CONSTANTS
  Generations = 3
  Faults = TRUE
INVARIANTS
  DaemonTypeOK
  OneReconnection
  StoppedStaysStopped
  RevokedStaysDown
  NoOrphanedSession
  ControllerFollows
  ExitTellsSupervisor
PROPERTIES
  TriesAgain
  PhasesSettle
  ImplementsServiceLife
CHECK_DEADLOCK FALSE
