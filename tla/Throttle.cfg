\* Two requests at once; a window of two seconds of two ticks each.
SPECIFICATION FairSpec
CONSTANTS
  Workers = {w1, w2}
  w1 = w1
  w2 = w2
  Limit = 2
  Window = 4
  Second = 2
  MaxEvents = 4
  MaxSwitches = 1
INVARIANTS
  TypeOK
  AdmissionBound
  RetryAfterSuffices
PROPERTIES
  LockoutLapses
