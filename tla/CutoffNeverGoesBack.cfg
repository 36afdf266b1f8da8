\* Two revoke-all requests for one account at once.
CONSTANTS
  Users = {u1}
  Tokens = {t1}
  Workers = {w1, w2}
  None = None
  TicksPerSecond = 1
  Lifetime = 3
  MaxTime = 3
SPECIFICATION Spec
SYMMETRY SessionSymmetry
PROPERTY CutoffNeverGoesBack
CHECK_DEADLOCK FALSE
