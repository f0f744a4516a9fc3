CONSTANTS
  mom = mom
  part = part
  ore = ore
  box = box
  none = none
  l1 = l1
  l2 = l2
  l3 = l3
  Nodes <- MCNodes
  Parent <- MCParent
  NoNode = none
  LotIds <- MCLots
  NWeeks = 7
  MaxRuns = 2
  Plans <- MCPlans
  Settings <- MCSettings
SPECIFICATION Spec
INVARIANTS
  DemandArrivesOffsetEarlier
  InventoryIsSafetyStock
  RerunKeepsLots
CHECK_DEADLOCK FALSE
