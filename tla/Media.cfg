SPECIFICATION Spec
CONSTANTS
  Client = {c1, c2, c3}
  Content = {x, y}
  Extension = {jpg}
  None = None
  Together = 2
  Faults = {"copy", "database", "edit"}
INVARIANTS
  JobHasMedia
SYMMETRY Alike
CHECK_DEADLOCK FALSE
