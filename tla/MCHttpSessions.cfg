SPECIFICATION FairSpec
CONSTANTS
  Sessions = {s1, s2}
  Requests = {r1}
  Target <- FirstSession
  SessionMax = 1
INVARIANTS
  CapacityKept
  NoOrphanBridge
PROPERTIES
  ClosedForGood
  SessionsReleased
CHECK_DEADLOCK FALSE
