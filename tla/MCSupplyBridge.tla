--------------------------- MODULE MCSupplyBridge ---------------------------
(***************************************************************************)
(* SupplyBridge on small instances: plans, supply layers with leftovers,   *)
(* every policy and mode, shifts in both directions, lists of different    *)
(* length, and weeks and buckets that cannot be read.                      *)
(***************************************************************************)
EXTENDS SupplyBridge, TLC

CONSTANTS n1, n2, l1, l2, l3

Empty == [w \in Weeks |-> << >>]
NoLots == [n \in Nodes |-> Empty]
Put(n, a, b, c) == [m \in Nodes |-> IF m = n THEN 0 :> a @@ 1 :> b @@ 2 :> c ELSE Empty]

PlanA == [S |-> Put(n1, << l1, l1 >>, << l2 >>, << >>), CO |-> NoLots,
          I |-> Put(n1, << >>, << l3 >>, << >>), P |-> Put(n1, << l1, l2 >>, << >>, << l3 >>)]
PlanB == [S |-> Put(n1, << l2 >>, << l1, l3 >>, << >>), CO |-> Put(n2, << l3 >>, << >>, << >>),
          I |-> NoLots, P |-> Put(n2, << l1 >>, << l2, l3 >>, << >>)]
TwoPlans == {PlanA, PlanB}

Leftovers == [S |-> Put(n1, << l2 >>, << l1 >>, << l3 >>), CO |-> Put(n1, << l3 >>, << >>, << >>),
              I |-> Put(n1, << l1 >>, << l1, l2 >>, << >>), P |-> Put(n1, << l2 >>, << >>, << l2 >>)]
NoLayer   == [b \in Names |-> NoLots]

(* What can be wrong with a tree.                                          *)
Clean == [noPsi |-> {}, shortD |-> {}, shortS |-> {}, junkD |-> {}, junkS |-> {}]
Trees ==
  { Clean,
    [Clean EXCEPT !.noPsi = {n2}],
    [Clean EXCEPT !.shortD = {<< n1, 1 >>}, !.shortS = {<< n2, 0 >>}],
    [Clean EXCEPT !.junkD = {<< n1, 0, "CO" >>, << n1, 2, "S" >>}],
    [Clean EXCEPT !.junkS = {<< n1, 1, "CO" >>, << n2, 1, "P" >>}] }
Leads == -1 .. 1

AllInputs ==
  { [supply |-> s,
     setting |-> t @@ [policy |-> p, mode |-> m, lead |-> d,
                       demandSpan |-> n1 :> NWeeks @@ n2 :> x,
                       supplySpan |-> n1 :> NWeeks @@ n2 :> y]] :
      s \in {NoLayer, Leftovers}, t \in Trees,
      p \in {"s_p_only", "s_only", "full_clone", "other"},
      m \in {"replace", "append", "dedupe_append"},
      d \in Leads, x \in {0, 2}, y \in {2, 3} }

=============================================================================
