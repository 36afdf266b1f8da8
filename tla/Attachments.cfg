SPECIFICATION FairSpec
CONSTANTS
  Requests = {r1, r2, r3}
  r1 = r1
  r2 = r2
  r3 = r3
  MaxFiles = 2
  Faults = TRUE
INVARIANTS
  TypeOK
  RowsHaveBytes
PROPERTIES
  DeletedBytesGo
\* Every request ends.
CHECK_DEADLOCK FALSE
