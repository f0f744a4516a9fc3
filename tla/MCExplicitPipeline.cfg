SPECIFICATION Spec
CONSTANTS
  m1 = m1 m2 = m2 sp = sp
  l1 = l1 l2 = l2 l3 = l3 l4 = l4
  Moms = {m1, m2}
  SupplyPoint = sp
  LotIds = {l1, l2, l3, l4}
  NWeeks = 3
  MaxEarly = 3
  MaxRuns = 2
  Sources <- SomeSources
  Inputs <- AllInputs
INVARIANTS
  NoLotDisappears
  ExecutionFollowsPlan
  ShortfallIsBacklog
CHECK_DEADLOCK FALSE
