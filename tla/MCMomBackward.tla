--------------------------- MODULE MCMomBackward ---------------------------
(***************************************************************************)
(* Model-checking instance of MomBackward: the inputs of the first call.   *)
(***************************************************************************)
EXTENDS MomBackward, FiniteSetsExt, TLC

CONSTANTS m1, m2, l1, l2, l3, l4, l5

Empty == [w \in Weeks |-> << >>]
NoTable == << >>
Only(m, f) == [n \in Moms |-> IF n = m THEN f ELSE Empty]

(* The lots of m1 numbered in demand order: lot i is due in week due[i].   *)
LotOrder == << l1, l2, l3, l4 >>
Dues == { d \in [1 .. 4 -> Weeks \ {0}] : \A i \in 1 .. 3 : d[i] <= d[i + 1] }

DueIn(d, w) ==
  LET due == { i \in 1 .. 4 : d[i] = w }
  IN [i \in 1 .. Cardinality(due) |-> LotOrder[Min(due) + i - 1]]

Table(d) == [w \in Weeks |-> IF \E i \in 1 .. 4 : d[i] = w THEN DueIn(d, w) ELSE << >>]

Capacities == [Weeks -> {0, 1}] \cup { [w \in Weeks |-> IF w = v THEN 2 ELSE 1] : v \in Weeks }

(* Every spread of four lots of m1 over the weeks but the first, one lot of *)
(* m2 in the first, every table of capacities 0 and 1, and some with a 2.  *)
FreshInputs ==
  { [s |-> [m \in Moms |-> IF m = m1 THEN Table(d) ELSE [Empty EXCEPT ![0] = << l5 >>]],
     p |-> [m \in Moms |-> Empty],
     setting |-> [product |-> [m \in Moms |-> c], flat |-> NoTable,
                  nx |-> NoTable, malformed |-> {}, noPsi |-> {},
                  junkS |-> {}, junkP |-> {}]] :
      d \in Dues, c \in Capacities }

(* Several calls on a tree with two MOMs: entries that are no lots, weeks  *)
(* and nodes that are malformed, capacities from each of the three tables, *)
(* lots an earlier plan has left in P.                                     *)
Setting(product, flat, nx, malformed, noPsi) ==
  [product |-> product, flat |-> flat, nx |-> nx, malformed |-> malformed,
   noPsi |-> noPsi, junkS |-> {<< m1, 1 >>}, junkP |-> {<< m1, 2 >>}]

S1 == { << >>, << l1 >>, << l1, l2, l3 >> }
S2 == { << >>, << l4, l5 >> }
P1 == { << >>, << l3 >> }
Raw == { w :> 1 : w \in Weeks } \cup { (0 :> 2 @@ 1 :> -1), [w \in Weeks |-> 1] }

ReplanInputs ==
  { [s |-> [m \in Moms |-> IF m = m1 THEN [Empty EXCEPT ![1] = a, ![2] = b]
                                     ELSE [Empty EXCEPT ![1] = b]],
     p |-> Only(m1, [Empty EXCEPT ![1] = c]),
     setting |-> r] :
      a \in S1, b \in S2, c \in P1,
      r \in { Setting(m1 :> x, m2 :> x, NoTable, {}, {}) : x \in Raw }
         \cup { Setting(NoTable, m1 :> x, m1 :> x, {<< m1, 1 >>}, {}) : x \in Raw }
         \cup { Setting(NoTable, NoTable, m1 :> x, {}, {m2}) : x \in Raw } }

AllInputs == FreshInputs \cup ReplanInputs
=============================================================================
