----------------------------- MODULE RisingCut ------------------------------
(***************************************************************************)
(* What the search for decoupling nodes promises: it starts with a cut     *)
(* through a subtree, its leaves, and raises it towards the root, one      *)
(* deepest node at a time, which gives way to its parent together with its *)
(* siblings.  It stays a cut: every path from a leaf to the root meets it  *)
(* exactly once.                                                           *)
(***************************************************************************)
EXTENDS Integers

CONSTANTS
  Nodes, Root,
  Parent,     \* of every node but the root
  Above,      \* << n, m >>: n is m, or on the path from m to the root
  DepthOf     \* of every node

Siblings(p) == { m \in Nodes \ {Root} : Parent[m] = p }

(* A tree: Above orders it, what is above one node is a chain, a parent is *)
(* the nearest above, a path down starts with a child, and depth counts    *)
(* the levels.                                                             *)
IsTree ==
  /\ Root \in Nodes
  /\ Parent \in [Nodes \ {Root} -> Nodes]
  /\ DepthOf \in [Nodes -> Nat] /\ DepthOf[Root] = 0
  /\ \A n \in Nodes : << n, n >> \in Above
  /\ \A k, n, m \in Nodes :
       << k, n >> \in Above /\ << n, m >> \in Above => << k, m >> \in Above
  /\ \A k, n, m \in Nodes :
       << k, m >> \in Above /\ << n, m >> \in Above =>
         << k, n >> \in Above \/ << n, k >> \in Above
  /\ \A m \in Nodes \ {Root} : /\ << Parent[m], m >> \in Above
                              /\ DepthOf[m] = DepthOf[Parent[m]] + 1
  /\ \A n, m \in Nodes : << n, m >> \in Above /\ n # m =>
       /\ DepthOf[n] < DepthOf[m]
       /\ m # Root => << n, Parent[m] >> \in Above
       /\ \E c \in Siblings(n) : << c, m >> \in Above

LeavesBelow(n) == { l \in Nodes : Siblings(l) = {} /\ << n, l >> \in Above }

VARIABLES
  top,    \* where the search began
  cut     \* empty when none goes on

Init == top = Root /\ cut = {}

Begin == /\ cut = {}
         /\ top' \in Nodes
         /\ cut' = LeavesBelow(top')

Deepest(n) == \A m \in cut : DepthOf[m] <= DepthOf[n]

Rise == /\ \E n \in cut \ {Root} :
             /\ Deepest(n)
             /\ cut' = (cut \ Siblings(Parent[n])) \cup {Parent[n]}
        /\ UNCHANGED top

End == /\ cut = {Root}
       /\ cut' = {}
       /\ top' = Root

Next == Begin \/ Rise \/ End

Spec == Init /\ [][Next]_<< top, cut >>

(* Every path from a leaf below the top to the root meets the cut once.    *)
CutsEveryPath ==
  cut # {} =>
    \A l \in LeavesBelow(top) :
      \E n \in cut : /\ << n, l >> \in Above
                     /\ \A m \in cut : << m, l >> \in Above => m = n
=============================================================================
