SPECIFICATION Spec
CONSTANTS
  m1 = m1 m2 = m2
  l1 = l1 l2 = l2 l3 = l3 l4 = l4 l5 = l5
  Moms = {m1, m2}
  LotIds = {l1, l2, l3, l4, l5}
  NWeeks = 5
  MaxEarly = 3
  MaxCalls = 2
  Inputs <- AllInputs
INVARIANTS
  TypeOK
  CapacityRespected
  NoLotDisappears
  BacklogOnlyWhenFull
  ShiftedToLatestRoom
  UsageIsThePlan
PROPERTIES
  KeepsTheLedger
CHECK_DEADLOCK FALSE
