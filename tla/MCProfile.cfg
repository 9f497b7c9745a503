SPECIFICATION Spec
CONSTANTS
  r1 = r1
  r2 = r2
  r3 = r3
  p1 = p1
  p2 = p2
  p3 = p3
  Runtimes = {r1, r2, r3}
  Processes = {p1, p2, p3}
  ProcessOf <- ProcessTable
  NoFile = NoFile
  Wrapper = Wrapper
INVARIANTS
  OneOwner
  SeedKept
PROPERTIES
  ReclaimsOnlyDead
  StaleLockReclaimed
CHECK_DEADLOCK FALSE
