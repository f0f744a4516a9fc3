------------------------------ MODULE PushPull ------------------------------
(***************************************************************************)
(* The outbound side of the full plan: what the MOMs ship is handed to the *)
(* distribution centres (allocate_lots_to_dads), and push_pull plans the   *)
(* supply of their subtrees: a node down to the decoupling nodes keeps     *)
(* what was pushed to it, every node below them gets what its demand       *)
(* pulls.  Both are in pysi/plan/engines.py; the nodes' own steps are in   *)
(* pysi/network/node_base.py.                                              *)
(*                                                                         *)
(* The planner chooses the decoupling nodes, or make_nodes_decouple_all    *)
(* proposes them.  The full plan is run again and again on the same tree.  *)
(*                                                                         *)
(* A bucket is a set of lots: the code's lists may name a lot more than    *)
(* once, but every comparison it makes is by membership.                   *)
(***************************************************************************)
EXTENDS Integers, FiniteSets, SequencesExt

CONSTANTS
  Nodes, Root,   \* the outbound tree of a product; names are unique in it
  Children,      \* its children, in their order, of every node
  Dads,          \* the nodes whose name starts with "DAD_"
  Moms,          \* the MOMs of the inbound tree that are handed over
  Lots,
  LeafOf,        \* what _default_leaf_name_from_lot reads from a lot: the
                 \* name of a leaf, of no node of the tree, or nothing
  NWeeks,
  SafetyWeeks,   \* SS_days in weeks, of every node
  DemandS,       \* psi4demand[w][S] of every node
  Shipments,     \* what the MOMs may ship: psi4supply[w][S] of each
  Selections     \* the sets of decoupling nodes the planner may choose

Weeks == 0 .. NWeeks - 1
Buckets == [Weeks -> SUBSET Lots]

ChildrenOf(n) == ToSet(Children[n])
Parent == [n \in Nodes \ {Root} |-> CHOOSE p \in Nodes : n \in ChildrenOf(p)]

(* The root is nobody's child, every other node is the child of one node,  *)
(* and no nodes are the parents of each other.                             *)
ASSUME TreeAssumption ==
  /\ IsFiniteSet(Nodes)
  /\ Children \in [Nodes -> Seq(Nodes)]
  /\ Root \in Nodes
  /\ \A n \in Nodes : Root \notin ChildrenOf(n)
  /\ \A n \in Nodes \ {Root} :
       \E p \in Nodes : \A q \in Nodes : n \in ChildrenOf(q) <=> q = p
  /\ \A S \in SUBSET (Nodes \ {Root}) :
       S # {} => \E n \in S : Parent[n] \notin S
  /\ Dads \subseteq Nodes \ {Root}
ASSUME NWeeksAssumption   == NWeeks \in Nat \ {0}
ASSUME SafetyAssumption   == SafetyWeeks \in [Nodes -> Nat]
ASSUME DemandAssumption   == DemandS \in [Nodes -> Buckets]
ASSUME InputsAssumption   == /\ Shipments \subseteq [Moms -> Buckets]
                             /\ Selections \subseteq SUBSET Nodes

----------------------------------------------------------------------------
(* The tree                                                                *)

Ancestors[n \in Nodes] ==
  {n} \cup IF n = Root THEN {} ELSE Ancestors[Parent[n]]
Subtree(top) == { n \in Nodes : top \in Ancestors[n] }
(* find_depth                                                              *)
Depth(n) == Cardinality(Ancestors[n]) - 1

(* find_all_leaves, sorted by depth, deepest first; leaves of one depth,   *)
(* which come in the order of the input files, in any order.               *)
LeavesOf(top) == { n \in Subtree(top) : Children[n] = << >> }
ByDepth(list) == \A i, j \in DOMAIN list : i < j => Depth(list[j]) <= Depth(list[i])
LeafLists ==
  [top \in Nodes |->
    { list \in [1 .. Cardinality(LeavesOf(top)) -> LeavesOf(top)] :
        ToSet(list) = LeavesOf(top) /\ ByDepth(list) }]

(* The members of a list that are in S, in their order.                    *)
Kept(list, S) ==
  LET upto[i \in 0 .. Len(list)] ==
        IF i = 0 THEN << >>
        ELSE IF list[i] \in S THEN Append(upto[i - 1], list[i]) ELSE upto[i - 1]
  IN upto[Len(list)]

(* _build_leaf_to_dad_map: the nearest DAD above the leaf, itself apart.   *)
DadsAbove(n) == (Ancestors[n] \ {n}) \cap Dads
DadOf(l) == CHOOSE d \in DadsAbove(LeafOf[l]) :
              \A e \in DadsAbove(LeafOf[l]) : Depth(e) <= Depth(d)
Resolved(l) == LeafOf[l] \in Nodes /\ DadsAbove(LeafOf[l]) # {}

----------------------------------------------------------------------------

VARIABLES
  momS,             \* psi4supply[w][S] of the MOMs
  demP,             \* psi4demand[w][P]
  supS, supP, supI, \* psi4supply
  unresolved,       \* handoff_result: the lots that reached no DAD
  phase,
  selected,         \* decouple_nodes
  dads,             \* roots still to be planned
  dad,              \* the one being planned
  pickup,           \* make_nodes_decouple_all: the list of nodes it works on
  groups,           \*   and the lists it has found, oldest first
  names,            \* the decoupling nodes used for dad
  calls,            \* the calls pending, innermost first
  before            \* history: S and P when the planning of dad began

psi    == << demP, supS, supP, supI >>
climb  == << dad, pickup, groups >>
vars   == << momS, demP, supS, supP, supI, unresolved, phase, selected, dads,
             dad, pickup, groups, names, calls, before >>

Phases == {"idle", "handoff", "next", "candidates", "choose", "run"}

Nothing == [n \in Nodes |-> [w \in Weeks |-> {}]]

(* The load of the tree copies S of the demand to that of the supply.      *)
Init ==
  /\ momS = [m \in Moms |-> [w \in Weeks |-> {}]]
  /\ demP = Nothing
  /\ supS = DemandS
  /\ supP = Nothing
  /\ supI = Nothing
  /\ unresolved = {}
  /\ phase = "idle"
  /\ selected = {}
  /\ dads = {}
  /\ dad = Root
  /\ pickup = << >>
  /\ groups = << >>
  /\ names = {}
  /\ calls = << >>
  /\ before = [S |-> DemandS, P |-> Nothing]

----------------------------------------------------------------------------
(* The full plan                                                           *)

(* calcS2P, which only adds to P; nothing of the first weeks.              *)
BackwardPlan ==
  demP' = [n \in Nodes |-> [v \in Weeks |->
             demP[n][v] \cup
               UNION { DemandS[n][w] : w \in { x \in Weeks :
                         x > SafetyWeeks[n] /\ v = x - SafetyWeeks[n] } }]]

(* run_full_plan, down to where the MOMs' supply is planned.               *)
RunFullPlan ==
  /\ phase = "idle"
  /\ momS' \in Shipments
  /\ selected' \in Selections
  /\ BackwardPlan
  /\ phase' = "handoff"
  /\ UNCHANGED << supS, supP, supI, unresolved, dads, climb, names, calls, before >>

ShippedIn(w) == UNION { momS[m][w] : m \in Moms }

(* Fault: the seeds of the last plan are kept.                             *)
SeedAdds(d, w) == supP[d][w] \cup { l \in ShippedIn(w) : Resolved(l) /\ DadOf(l) = d }
Seed(d, w) == { l \in ShippedIn(w) : Resolved(l) /\ DadOf(l) = d }

(* allocate_lots_to_dads.  Without MOMs or DADs it returns at once.  When  *)
(* no DAD is seeded push_pull falls back to the root of the tree.          *)
HandOff ==
  /\ phase = "handoff"
  /\ supP' = [n \in Nodes |-> IF n \in Dads /\ Moms # {}
                                THEN [w \in Weeks |-> Seed(n, w)] ELSE supP[n]]
  /\ unresolved' = { x \in Weeks \X Lots : x[2] \in ShippedIn(x[1]) /\ ~Resolved(x[2]) }
  /\ dads' = LET seeded == { d \in Dads : \E w \in Weeks : Seed(d, w) # {} }
             IN IF seeded = {} THEN {Root} ELSE seeded
  /\ phase' = "next"
  /\ UNCHANGED << momS, demP, supS, supI, selected, climb, names, calls, before >>

----------------------------------------------------------------------------
(* push_pull: the decoupling nodes                                         *)

SelectedBelow(top) == selected \cap Subtree(top)

(* The DADs are taken by name, here in any order.                          *)
PlanSelected ==
  /\ phase = "next"
  /\ \E d \in dads :
       /\ SelectedBelow(d) # {}
       /\ dad' = d
       /\ dads' = dads \ {d}
       /\ names' = SelectedBelow(d)
       /\ calls' = << << "push", d >> >>
  /\ before' = [S |-> supS, P |-> supP]
  /\ phase' = "run"
  /\ UNCHANGED << momS, psi, unresolved, selected, pickup, groups >>

FindCandidates ==
  /\ phase = "next"
  /\ \E d \in dads :
       /\ SelectedBelow(d) = {}
       /\ dad' = d
       /\ dads' = dads \ {d}
       /\ pickup' \in LeafLists[d]
  /\ groups' = << >>
  /\ before' = [S |-> supS, P |-> supP]
  /\ phase' = "candidates"
  /\ UNCHANGED << momS, psi, unresolved, selected, names, calls >>

(* A node is inserted before the first that is not deeper.                 *)
Insert(list, n) ==
  LET i == SelectInSeq(list, LAMBDA m : Depth(m) <= Depth(n))
  IN IF i = 0 THEN Append(list, n) ELSE InsertAt(list, i, n)

(* Fault: the parent is put in front.                                      *)
RaisedInFront(list, p) == Kept(<< p >> \o list, Nodes \ ChildrenOf(p))
Raised(list, p) == Kept(Insert(list, p), Nodes \ ChildrenOf(p))

(* One round of the loop: the list is a candidate; its first node gives    *)
(* way to its parent, and so do the parent's other children.  At the root  *)
(* the loop ends; it does not end at the DAD.                              *)
Climb ==
  /\ phase = "candidates"
  /\ groups' = Append(groups, pickup)
  /\ IF Head(pickup) = Root
       THEN pickup' = << >> /\ phase' = "choose"
       ELSE pickup' = Raised(Tail(pickup), Parent[Head(pickup)]) /\ UNCHANGED phase
  /\ UNCHANGED << momS, psi, unresolved, selected, dads, dad, names, calls, before >>

Heuristic(list) == IF Len(list) >= 2 THEN list[Len(list) - 1] ELSE list[Len(list)]

(* _filter_decouple_candidate_sets_to_subtree                              *)
Candidates ==
  Kept([i \in DOMAIN groups |-> Kept(groups[i], Subtree(dad))], Seq(Nodes) \ {<< >>})

(* Fault: the DAD is not asked for first.                                  *)
ChosenByHeuristic == IF Candidates = << >> THEN {dad} ELSE ToSet(Heuristic(Candidates))
(* A seeded DAD decouples itself when a list names it; the root, when no   *)
(* DAD is seeded, by the last list but one.                                *)
Chosen ==
  IF dad = Root THEN ToSet(Heuristic(groups))
  ELSE IF Candidates = << >> \/ \E i \in DOMAIN Candidates : dad \in ToSet(Candidates[i])
    THEN {dad}
    ELSE ToSet(Heuristic(Candidates))

ChooseDecouple ==
  /\ phase = "choose"
  /\ names' = Chosen
  /\ groups' = << >>
  /\ calls' = << << "push", dad >> >>
  /\ phase' = "run"
  /\ UNCHANGED << momS, psi, unresolved, selected, dads, dad, pickup, before >>

----------------------------------------------------------------------------
(* push_pull_all_psi2i_decouple4supply5                                    *)

(* Fault: the stock is what the week before left.                          *)
StockLags(first, S, P) ==
  LET stock[w \in Weeks] == IF w = 0 THEN first
                            ELSE (stock[w - 1] \cup P[w - 1]) \ S[w]
  IN stock
(* _calcPS2I4supply_core: the first week's stock is left alone.            *)
Stock(first, S, P) ==
  LET stock[w \in Weeks] == IF w = 0 THEN first
                            ELSE (stock[w - 1] \cup P[w]) \ S[w]
  IN stock

ChildCalls(kind, n) == [i \in DOMAIN Children[n] |-> << kind, Children[n][i] >>]
Top == calls[1]

(* PUSH_process of a node above the decoupling nodes.                      *)
Push ==
  /\ phase = "run" /\ calls # << >>
  /\ Top[1] = "push" /\ Top[2] \notin names
  /\ LET n == Top[2] IN
     /\ supI' = [supI EXCEPT ![n] = Stock(supI[n][0], supS[n], supP[n])]
     /\ calls' = ChildCalls("push", n) \o Tail(calls)
  /\ UNCHANGED << momS, demP, supS, supP, unresolved, phase, selected, dads,
                  climb, names, before >>

(* A decoupling node ships what is demanded of it from what it is pushed.  *)
Decouple ==
  /\ phase = "run" /\ calls # << >>
  /\ Top[1] = "push" /\ Top[2] \in names
  /\ LET n == Top[2] IN
     /\ supS' = [supS EXCEPT ![n] = DemandS[n]]
     /\ supI' = [supI EXCEPT ![n] = Stock(supI[n][0], DemandS[n], supP[n])]
     /\ calls' = ChildCalls("pull", n) \o Tail(calls)
  /\ UNCHANGED << momS, demP, supP, unresolved, phase, selected, dads, climb,
                  names, before >>

(* Fault: what the node pulls is not copied.                               *)
PullShipsOnly ==
  /\ phase = "run" /\ calls # << >>
  /\ Top[1] = "pull"
  /\ LET n == Top[2] IN
     /\ supS' = [supS EXCEPT ![n] = DemandS[n]]
     /\ supI' = [supI EXCEPT ![n] = Stock(supI[n][0], DemandS[n], supP[n])]
     /\ calls' = ChildCalls("pull", n) \o Tail(calls)
  /\ UNCHANGED << momS, demP, supP, unresolved, phase, selected, dads, climb,
                  names, before >>
(* PULL_process of a node below one, and apply_pull_process of it.         *)
Pull ==
  /\ phase = "run" /\ calls # << >>
  /\ Top[1] = "pull"
  /\ LET n == Top[2] IN
     /\ supS' = [supS EXCEPT ![n] = DemandS[n]]
     /\ supP' = [supP EXCEPT ![n] = demP[n]]
     /\ supI' = [supI EXCEPT ![n] = Stock(supI[n][0], DemandS[n], demP[n])]
     /\ calls' = ChildCalls("pull", n) \o Tail(calls)
  /\ UNCHANGED << momS, demP, unresolved, phase, selected, dads, climb, names, before >>

EndDad ==
  /\ phase = "run"
  /\ calls = << >>
  /\ names' = {}
  /\ phase' = "next"
  /\ UNCHANGED << momS, psi, unresolved, selected, dads, climb, calls, before >>

Finish ==
  /\ phase = "next"
  /\ dads = {}
  /\ phase' = "idle"
  /\ UNCHANGED << momS, psi, unresolved, selected, dads, climb, names, calls, before >>

Step ==
  \/ HandOff
  \/ PlanSelected \/ FindCandidates \/ Climb \/ ChooseDecouple
  \/ Push \/ Decouple \/ Pull \/ EndDad \/ Finish

Next == RunFullPlan \/ Step

Spec == Init /\ [][Next]_vars

----------------------------------------------------------------------------
(* Properties                                                              *)

(* Types of the tree's buckets, of the lists of nodes and of the calls.    *)
TypeOK ==
  /\ momS \in [Moms -> Buckets]
  /\ demP \in [Nodes -> Buckets]
  /\ supS \in [Nodes -> Buckets]
  /\ supP \in [Nodes -> Buckets]
  /\ supI \in [Nodes -> Buckets]
  /\ phase \in Phases
  /\ selected \subseteq Nodes
  /\ dads \subseteq Nodes
  /\ dad \in Nodes
  /\ pickup \in Seq(Nodes)
  /\ groups \in Seq(Seq(Nodes))
  /\ names \subseteq Nodes
  /\ calls \in Seq({"push", "pull"} \X Nodes)
  /\ before \in [S : [Nodes -> Buckets], P : [Nodes -> Buckets]]

Planned == phase = "run" /\ calls = << >>

(* Once a subtree is planned, each of its nodes has the S and P that its   *)
(* place calls for: below a decoupling node those of the demand, whatever  *)
(* an earlier plan with other decoupling nodes made of them; a decoupling  *)
(* node the S of the demand and the P that was pushed; above it what it    *)
(* had.  No other subtree is touched.                                      *)
IsPulled(n) == n \in Subtree(dad) /\ (Ancestors[n] \ {n}) \cap Subtree(dad) \cap names # {}
SupplyFollowsDecoupling ==
  Planned =>
    \A n \in Nodes :
      << supS[n], supP[n] >> =
        IF IsPulled(n) THEN << DemandS[n], demP[n] >>
        ELSE IF n \in Subtree(dad) \cap names THEN << DemandS[n], before.P[n] >>
        ELSE << before.S[n], before.P[n] >>

(* ... and its stock of every week is what the week before left, and what  *)
(* came in, less what went out, by the S and P it ends up with.            *)
StockIsCurrent ==
  Planned =>
    \A n \in Subtree(dad) : \A w \in Weeks \ {0} :
      supI[n][w] = (supI[n][w - 1] \cup supP[n][w]) \ supS[n][w]

(* After a plan that seeded a DAD, every lot the MOMs ship is, in the week *)
(* they ship it, at the DAD nearest above its leaf and at no other, or it  *)
(* is reported; and a DAD holds nothing else, nothing of an earlier plan.  *)
(* (A DAD below a DAD is left out: it may be pulled.)                      *)
OuterDads == { d \in Dads : DadsAbove(d) = {} }
Holders(w, l) == { d \in OuterDads : l \in supP[d][w] }
MomLotsReachOneDad ==
  phase = "idle" /\ (\E w \in Weeks : \E l \in ShippedIn(w) : Resolved(l)) =>
    \A w \in Weeks, l \in Lots :
      Holders(w, l) =
        IF l \in ShippedIn(w) /\ << w, l >> \notin unresolved
          THEN {DadOf(l)} \cap OuterDads ELSE {}

(* Where the planner chooses no decoupling node a seeded DAD is one, and   *)
(* nothing else of its subtree is; without a seeded DAD the children of    *)
(* the root are, all of them.                                              *)
DefaultDecoupling ==
  phase = "run" /\ SelectedBelow(dad) = {} =>
    names = IF dad # Root \/ Children[Root] = << >> THEN {dad} ELSE ChildrenOf(Root)

(* make_nodes_decouple_all raises a cut through the tree, node by node.    *)
Cut == INSTANCE RisingCut WITH
         Above <- { x \in Nodes \X Nodes : x[1] \in Ancestors[x[2]] },
         DepthOf <- [n \in Nodes |-> Depth(n)],
         cut <- ToSet(pickup),
         top <- IF pickup = << >> THEN Root ELSE dad
RaisesACut == Cut!Spec

=============================================================================
