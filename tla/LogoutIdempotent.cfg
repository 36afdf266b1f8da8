\* Two logouts of one token at once.
CONSTANTS
  Users = {u1}
  Tokens = {t1}
  Workers = {w1, w2}
  None = None
  TicksPerSecond = 1
  Lifetime = 2
  MaxTime = 3
SPECIFICATION Spec
SYMMETRY SessionSymmetry
INVARIANT LogoutIdempotent
CHECK_DEADLOCK FALSE
