SPECIFICATION FairSpec
CONSTANTS
  Lists = {q1, q2}
  Cursors = {first, next}
  MaxChildren = 2
  MaxChanges = 1
  NoFetch = NoFetch
INVARIANTS
  CacheFresh
PROPERTIES
  DynamicToolsOfGeneration
  ListsAnswered
CHECK_DEADLOCK FALSE
