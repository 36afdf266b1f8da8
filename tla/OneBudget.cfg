SPECIFICATION Spec
CONSTANTS
  Workers = {w1, w2}
  w1 = w1
  w2 = w2
  Limit = 1
  Window = 2
  Second = 1
  MaxEvents = 3
  MaxSwitches = 1
INVARIANTS
  OneBudget
