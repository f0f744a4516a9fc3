SPECIFICATION Spec
CONSTANTS
  n1 = n1 n2 = n2
  l1 = l1 l2 = l2 l3 = l3
  Nodes = {n1, n2}
  LotIds = {l1, l2, l3}
  NWeeks = 3
  MaxCalls = 2
  Plans <- TwoPlans
  Inputs <- AllInputs
INVARIANT
  ReplaceIsIdempotent
CHECK_DEADLOCK FALSE
