SPECIFICATION FairSpec
CONSTANTS
  Calls = {c1, c2}
  MaxOwners = 3
INVARIANT
  AtMostOneLiveChild
CHECK_DEADLOCK FALSE
