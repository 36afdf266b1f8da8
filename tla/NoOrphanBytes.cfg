SPECIFICATION Spec
CONSTANTS
  Requests = {r1, r2}
  r1 = r1
  r2 = r2
  MaxFiles = 1
  Faults = FALSE
INVARIANTS
  NoOrphanBytes
\* Every request ends.
CHECK_DEADLOCK FALSE
