SPECIFICATION Spec
CONSTANTS
  Requests <- MCRequests
  Kind <- MCKind
  None = None
INVARIANTS
  TypeOK
  LinkExists
  SyncedMeansTaken
\* Requests are finite.
CHECK_DEADLOCK FALSE
