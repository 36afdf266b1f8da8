\* Two replicas receive one message of a vendor that repeats it.
CONSTANTS
  None = None
  Deliveries <- Repeated
  Messages <- Normalized
  Replicas = {p1, p2}
  MaxRows = 3
SPECIFICATION Spec
INVARIANT OneTicketPerMessage
CHECK_DEADLOCK FALSE
