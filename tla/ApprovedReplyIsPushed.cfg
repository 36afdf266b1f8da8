SPECIFICATION Spec
CONSTANTS
  Requests <- MCRequests
  Kind <- MCKind
  None = None
PROPERTIES
  ApprovedReplyIsPushed
CHECK_DEADLOCK FALSE
