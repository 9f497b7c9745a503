SPECIFICATION Spec
CONSTANTS
  r1 = r1
  r2 = r2
  Requests = {r1, r2}
  Invocations <- InvocationSet
  Asks <- AskTable
  BodyLimit = 2
  NoConfig = NoConfig
  Numeral <- Numbers
  RangeOf <- Ranges
  BooleanText <- TrueFalse
  PathForm <- Paths
  HostKind <- Hosts
  Blank <- Blanks
INVARIANTS
  GatesFirst
  HandedAsTold
  ExitCodeTrue
PROPERTIES
  ConfigAsTold
  StopsWhenTold
CHECK_DEADLOCK FALSE
