--------------------------- MODULE MCInboundTree ---------------------------
(***************************************************************************)
(* InboundTree for TLC: a MOM with a supplier that has one of its own, and *)
(* a second supplier; seven weeks, three lots.                             *)
(***************************************************************************)
EXTENDS InboundTree, TLC

CONSTANTS mom, part, ore, box, none, l1, l2, l3

MCNodes  == {mom, part, ore, box}
MCParent == mom :> none @@ part :> mom @@ ore :> part @@ box :> mom
MCLots   == {l1, l2, l3}

(* The demand of a MOM: at the ends and in the middle of the horizon, two  *)
(* lots in one week, in neighbouring weeks and far apart.                  *)
Demand(lots) ==
  [n \in {mom} |-> [w \in 0 .. 6 |-> IF w \in DOMAIN lots THEN lots[w] ELSE << >>]]
MCPlans ==
  { Demand(3 :> << l1 >> @@ 4 :> << l2 >>),
    Demand(5 :> << l1, l2 >> @@ 4 :> << l3 >>),
    Demand(0 :> << l1 >> @@ 2 :> << l2 >> @@ 6 :> << l3 >>) }

(* The suppliers below the first one share its calendar; no vacation, one  *)
(* in the middle, or one from the first week on.                           *)
Closed  == { {}, {3}, {2, 3}, {0, 1} }
MCSettings ==
  { [lead     |-> mom :> 0 @@ part :> p @@ ore :> o @@ box :> 2,
     stock    |-> mom :> s @@ part :> t @@ ore :> 1 @@ box :> 0,
     vacation |-> mom :> m @@ part :> v @@ ore :> v @@ box :> {}] :
      p \in 0 .. 2, o \in 0 .. 1, s \in 0 .. 1, t \in 0 .. 1, m \in Closed, v \in Closed }
=============================================================================
