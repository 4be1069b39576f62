SPECIFICATION Spec
CONSTANTS
  a = a
  b = b
  g = g
  Job = {a, b}
  Destination = {g}
  KeyOf <- OwnKey
  DestOf <- OneGroup
  DryJob = {b}
  MediaJob = {b}
  Daemon = daemon
  Cli = {c}
  NoJob = NoJob
  DryRuns = {TRUE, FALSE}
  MaxAttempts = 1
  MaxRetries = 1
  MaxStops = 1
INVARIANTS
  ModeRespected
  ProcessingIsHeld
PROPERTIES
  ReviewIsManual
