SPECIFICATION Spec
CONSTANTS
  n1 = n1 n2 = n2
  l1 = l1 l2 = l2 l3 = l3 l4 = l4 l5 = l5
  Nodes = {n1, n2}
  LotIds = {l1, l2, l3, l4, l5}
  NWeeks = 3
  MaxCalls = 2
  Inputs <- AllInputs
INVARIANTS
  CapsRespected
  CutLotsReported
  CutOnlyWhenForced
  StockHasOrigin
  StockContinues
CHECK_DEADLOCK FALSE
