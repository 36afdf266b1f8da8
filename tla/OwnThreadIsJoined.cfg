\* One replica, one customer whose thread another customer names.
CONSTANTS
  None = None
  Deliveries <- Shared
  Messages <- Normalized
  Replicas = {p1}
  MaxRows = 3
SPECIFICATION Spec
PROPERTY OwnThreadIsJoined
CHECK_DEADLOCK FALSE
