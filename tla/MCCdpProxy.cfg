SPECIFICATION FairSpec
CONSTANTS
  Upgrades = {u1, u2}
  Requests = {r1, r2}
  MaxConnections = 2
  MaxRequests = 1
  MaxGenerations = 2
INVARIANTS
  OldConnectionsSevered
  ReleasedAfterTraffic
PROPERTIES
  ForwardsToCurrent
  EndpointSpec
  SlotsReturned
CHECK_DEADLOCK FALSE
