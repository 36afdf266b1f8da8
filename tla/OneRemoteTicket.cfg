SPECIFICATION Spec
CONSTANTS
  Requests <- MCRequests
  Kind <- MCKind
  None = None
INVARIANTS
  OneRemoteTicket
CHECK_DEADLOCK FALSE
