SPECIFICATION Spec
CONSTANTS
  a1 = a1 a2 = a2 a3 = a3 a4 = a4 a5 = a5
  east = east west = west
  NMoms = 3
  LotIds = {a1, a2, a3, a4, a5}
  NWeeks = 2
  Markets = {east, west}
  MaxCalls = 3
  Inputs <- AllInputs
INVARIANTS
  OwnLotsFirst
  EachLotAllocatedOnce
  FinalMomIsTrue
PROPERTIES
  KeepsTheLedger
CHECK_DEADLOCK FALSE
