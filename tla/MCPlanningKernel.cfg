SPECIFICATION Spec
CONSTANTS
  factory = factory market_A = market_A market_B = market_B
  P1 = P1 NoNode = NoNode
  Nodes = {factory, market_A, market_B}
  Products = {P1}
  Names <- SortedNames
  Requests <- SomeRequests
INVARIANTS
  BooksBalance
  CuringHarmsNobody
  StockoutCured
CHECK_DEADLOCK FALSE
