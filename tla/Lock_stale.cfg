SPECIFICATION Spec
CONSTANTS
  Process = {p1, p2, p3}
  Absent = Absent
  Together = 2
  Failures = TRUE
INVARIANTS
  LiveLockStays
CHECK_DEADLOCK FALSE
