SPECIFICATION Spec
CONSTANTS
  t1 = t1
  t2 = t2
  Message <- Messages
  Task <- Slots
SYMMETRY Symmetry
INVARIANTS
  TypeOK
  AtMostOnce
  MarkedIsAccounted
PROPERTIES
  RefusedForCause
