SPECIFICATION FairSpec
CONSTANTS
  Advertised <- Public
  Requests = {r1, r2, p}
  Inputs <- InputTable
  Prober = p
  Discovery <- Request
  Payloads <- PayloadTable
  MaxRequests = 1
  MaxConnections = 1
  Timeout = 1
  MaxBody = 1
  MaxCount = 1
  MaxGenerations = 2
INVARIANTS
  CheckedFirst
  CountersExact
PROPERTIES
  ExchangesEnd
CHECK_DEADLOCK FALSE
