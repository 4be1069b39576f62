SPECIFICATION Spec
CONSTANTS
  a = a
  b = b
  g = g
  Job = {a, b}
  Destination = {g}
  KeyOf <- SameKey
  DestOf <- OneGroup
  DryJob = {}
  MediaJob = {}
  Daemon = daemon
  Cli = {}
  NoJob = NoJob
  DryRuns = {FALSE}
  MaxAttempts = 2
  MaxRetries = 1
  MaxStops = 1
SYMMETRY Symmetry
INVARIANTS
  TypeOK
  OneJobPerKey
  DeliveryBound
  AttemptBound
  SentIsAccounted
  NoneAfterDenial
PROPERTIES
  ImplementsLifecycle
