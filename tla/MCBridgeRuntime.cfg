SPECIFICATION PrepareSpec
CONSTANTS
  p1 = p1
  p2 = p2
  Preparations = {p1, p2}
  Inputs <- InputTable
  NoPreparation = NoPreparation
  Texts <- AnyText
INVARIANTS
  SharedStateGivenBack
  ToldAsAsked
PROPERTIES
  QueueNeverStuck
CHECK_DEADLOCK FALSE
