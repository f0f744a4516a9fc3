-------------------------- MODULE MCPlanningKernel --------------------------
(***************************************************************************)
(* Model-checking instance of PlanningKernel: a factory, two markets of    *)
(* which one may make for itself, one product.                             *)
(***************************************************************************)
EXTENDS PlanningKernel, TLC

CONSTANTS factory, market_A, market_B, P1
SortedNames == << P1, factory, market_A, market_B >>

Lot(from, to, w, q) == [origin |-> from, destination |-> to, product |-> P1, week |-> w, qty |-> q]
SomeLots ==
  { << >>,
    << Lot(factory, market_A, 1, 2) >>,
    << Lot(factory, NoNode, 1, 1), Lot(factory, market_B, 2, 1) >>,
    << Lot(market_A, market_B, 1, 1), Lot(factory, market_A, 1, 2) >> }

Demand(n, w, q) == [market |-> n, product |-> P1, week |-> w, qty |-> q]
SomeDemands ==
  { << >>,
    << Demand(market_A, 1, 3) >>,
    << Demand(market_A, 2, 3), Demand(market_B, 2, 1) >>,
    << Demand(market_B, 1, 1), Demand(market_A, 2, 1), Demand(market_A, 3, 2) >>,
    << Demand(factory, 1, 2), Demand(market_A, 1, 1), Demand(market_B, 3, 2) >>,
    << Demand(market_A, 2, 2), Demand(market_A, 2, 1), Demand(market_B, 3, 1) >> }

Given(type, from, to, w, q) ==
  << Event(type, from, to, P1, w, q) >>
SomeInitial ==
  { << >>, Given("inventory_adjustment", NoNode, market_A, 1, 1),
    Given("sale", market_A, NoNode, 1, 1), Given("shipment", NoNode, market_B, 1, 1),
    Given("arrival", factory, market_B, 2, 2) }

Calls(lots, demands, initial) ==
  { [lots |-> lots, demands |-> demands, initial |-> initial, max_iterations |-> m,
     capacity_limit |-> c, lead_time |-> t, production_nodes |-> made,
     upstream |-> up] :
      m \in {0, 1, 3}, c \in {1, 4}, t \in 0 .. 2, made \in { {}, {market_A} },
      up \in { << >>, market_B :> market_A } }
SomeRequests ==
  UNION { Calls(lots, demands, initial) :
            lots \in SomeLots, demands \in SomeDemands, initial \in SomeInitial }
=============================================================================
