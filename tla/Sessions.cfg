\* A token lives two seconds of two ticks each and the clock runs for three, so
\* tokens expire and dead rows are purged while other requests are half way.
\* Both workers may revoke all sessions of the account at the same time.
CONSTANTS
  Users = {u1}
  Tokens = {t1, t2}
  Workers = {w1, w2}
  None = None
  TicksPerSecond = 2
  Lifetime = 4
  MaxTime = 6
SPECIFICATION Spec
SYMMETRY SessionSymmetry
INVARIANTS
  TypeOK
  KilledStaysKilled
PROPERTIES
  LogoutHolds
\* The clock stops at MaxTime and accounts and tokens are finite.
CHECK_DEADLOCK FALSE
