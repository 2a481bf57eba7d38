SPECIFICATION PoolSpec
CONSTANTS
  u1 = u1
  u2 = u2
  k1 = k1
  k2 = k2
INVARIANT
  EmptyIsSignalled
CHECK_DEADLOCK FALSE
