---------------------------- MODULE MCPushPull -----------------------------
(***************************************************************************)
(* Model-checking instance of PushPull: a tree of ten nodes with leaves   *)
(* at two depths and a DAD under a DAD, six lots of which one names no    *)
(* leaf and one a leaf that is not in the tree, and a demand that is the   *)
(* leaves' carried up the tree by lead times.                              *)
(***************************************************************************)
EXTENDS PushPull

Tree ==
  [root |-> << "DAD_A", "DAD_B" >>, DAD_A |-> << "WS", "CS_3" >>,
   WS |-> << "CS_1", "CS_2" >>, DAD_B |-> << "CS_5", "DAD_C" >>, DAD_C |-> << "CS_4" >>,
   CS_1 |-> << >>, CS_2 |-> << >>, CS_3 |-> << >>, CS_4 |-> << >>, CS_5 |-> << >>]
TreeNodes == DOMAIN Tree

Safety == [n \in TreeNodes |-> IF n = "CS_1" THEN 1 ELSE 0]
Leaf == [a |-> "CS_1", b |-> "CS_2", c |-> "CS_4", d |-> "CS_5", x |-> "CS_9", y |-> "none"]
TreeLots == DOMAIN Leaf

(* The week each lot is due at its leaf; the level above asks for it a     *)
(* week earlier.                                                           *)
Due == [a |-> 3, b |-> 2, c |-> 3, d |-> 1]
LeadTime(n, leaf) == Depth(leaf) - Depth(n)
Demand ==
  [n \in TreeNodes |-> [w \in Weeks |->
    { l \in DOMAIN Due : /\ n \in Ancestors[Leaf[l]]
                         /\ w = Due[l] - LeadTime(n, Leaf[l]) }]]

(* Each lot is shipped by one MOM in one week, or by none.                 *)
Ship(f) == [m \in Moms |-> [w \in Weeks |-> { l \in DOMAIN f : f[l] = << m, w >> }]]
SomeShipments ==
  { Ship([a |-> p, b |-> << "MOM_1", 1 >>, c |-> q, d |-> r, x |-> << "MOM_2", 1 >>, y |-> q]) :
      p \in {<< "MOM_1", 1 >>, << "MOM_2", 2 >>}, q \in {<< "MOM_2", 0 >>, << >>},
      r \in {<< "MOM_1", 1 >>, << >>} }
  \cup { Ship([y |-> << "MOM_1", 1 >>]) }

SomeSelections == { {}, {"root", "WS"}, {"CS_1", "DAD_A"}, {"CS_2", "DAD_C"} }
=============================================================================
