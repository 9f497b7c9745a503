SPECIFICATION Spec
CONSTANTS
  r1 = r1
  r2 = r2
  Requests = {r1}
  MaxChecks = 0
PROPERTIES
  StopIsNotFailure
CHECK_DEADLOCK FALSE
