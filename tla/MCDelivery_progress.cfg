SPECIFICATION FairSpec
CONSTANTS
  a = a
  b = b
  g = g
  Job = {a, b}
  Destination = {g}
  KeyOf <- OwnKey
  DestOf <- OneGroup
  DryJob = {}
  MediaJob = {}
  Daemon = daemon
  Cli = {}
  NoJob = NoJob
  DryRuns = {FALSE}
  MaxAttempts = 2
  MaxRetries = 0
  MaxStops = 1
PROPERTIES
  EventuallySettled
