SPECIFICATION Spec
CONSTANTS
  a = a
  b = b
  g = g
  Job = {a}
  Destination = {g}
  KeyOf <- SameKey
  DestOf <- OneGroup
  DryJob = {}
  MediaJob = {}
  Daemon = daemon
  Cli = {}
  NoJob = NoJob
  DryRuns = {FALSE}
  MaxAttempts = 2
  MaxRetries = 1
  MaxStops = 1
INVARIANTS
  AttemptCeiling
