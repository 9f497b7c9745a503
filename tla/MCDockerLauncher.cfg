SPECIFICATION Spec
CONSTANTS
  r1 = r1
  r2 = r2
  Requests = {r1, r2}
  MaxChecks = 2
INVARIANTS
  ReportsTrue
PROPERTIES
  LauncherResponds
CHECK_DEADLOCK FALSE
