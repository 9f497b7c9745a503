SPECIFICATION AllocatorSpec
CONSTANTS
  Start = 9222
  End = 9223
  Leases = {l1, l2, l3}
INVARIANTS
  NeverCollides
PROPERTIES
  PoolSpec
CHECK_DEADLOCK FALSE
