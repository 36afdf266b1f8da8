\* One replica, five deliveries, one unreadable, repeated any number of times, four rows.
CONSTANTS
  None = None
  Deliveries <- AllDeliveries
  Messages <- Normalized
  Replicas = {p1}
  MaxRows = 4
SPECIFICATION Spec
INVARIANTS
  TypeOK
  ThreadsStaySeparate
  NumberedOnce
PROPERTIES
  KeepsLedger
CHECK_DEADLOCK FALSE
