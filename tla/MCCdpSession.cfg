SPECIFICATION FairSpec
CONSTANTS
  Calls = {c1, c2}
  MaxOwners = 3
INVARIANTS
  RouteReachesOwner
  NoRetiredOwnerInUse
  NoOverlappingChildren
  LeaseReleasedLast
PROPERTIES
  ForwardedOnceWhenReady
  DisposeWins
  EndpointSpec
  WaitersAnswered
  CleanupsEnd
CHECK_DEADLOCK FALSE
