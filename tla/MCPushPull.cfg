SPECIFICATION Spec
CONSTANTS
  Nodes <- TreeNodes
  Root = "root"
  Children <- Tree
  Dads = {"DAD_A", "DAD_B", "DAD_C"}
  Moms = {"MOM_1", "MOM_2"}
  Lots <- TreeLots
  LeafOf <- Leaf
  NWeeks = 4
  SafetyWeeks <- Safety
  DemandS <- Demand
  Shipments <- SomeShipments
  Selections <- SomeSelections
INVARIANTS
  SupplyFollowsDecoupling
  StockIsCurrent
  MomLotsReachOneDad
  DefaultDecoupling
PROPERTIES
  RaisesACut
