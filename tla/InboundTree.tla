---------------------------- MODULE InboundTree ----------------------------
(***************************************************************************)
(* The planning of the inbound tree below the MOMs in the full plan:       *)
(* inbound_backward_MOM_to_leaf, bridge_inbound_demand_to_supply and       *)
(* inbound_forward_leaf_to_MOM of pysi/plan/engines.py, on the tree        *)
(* operations of pysi/network/tree.py and node_base.py.                    *)
(*                                                                         *)
(* Down the tree, every node plans to make its lots its safety stock weeks *)
(* before it ships them, and asks its suppliers to ship what it needs a    *)
(* lead time earlier still; weeks of long vacation are avoided.  The       *)
(* demand layer is then cloned to the supply layer, and up the tree every  *)
(* node finds its inventory.                                               *)
(*                                                                         *)
(* A supplier's S and its parent's P are one list object in Python.  A run *)
(* finishes P of the parent before it hands it on and always hands on the  *)
(* same weeks, so a copy says the same.                                    *)
(***************************************************************************)
EXTENDS Integers, Sequences, FiniteSets
LOCAL INSTANCE SequencesExt
LOCAL INSTANCE FiniteSetsExt

CONSTANTS
  Nodes,     \* the MOMs and the nodes below them
  Parent,    \* Parent[n], NoNode for a MOM
  NoNode,
  LotIds,    \* lot identifiers
  NWeeks,    \* the number of weeks of every node
  MaxRuns,   \* bound: how often the full plan is run
  Plans,     \* S of the MOMs as leveling may leave it
  Settings   \* the calendars and lead times of the nodes

Weeks   == 0 .. NWeeks - 1
Buckets == [Nodes -> [Weeks -> Seq(LotIds)]]
Roots   == { n \in Nodes : Parent[n] = NoNode }

(* lead is node.leadtime, stock the safety stock in weeks, SS_days / 7     *)
(* rounded, and vacation the long_vacation_weeks.                          *)
IsSetting(r) ==
  /\ r.lead \in [Nodes -> Nat]
  /\ r.stock \in [Nodes -> Nat]
  /\ r.vacation \in [Nodes -> SUBSET Weeks]

ASSUME NWeeksAssumption   == NWeeks \in Nat \ {0}
ASSUME ParentAssumption   == NoNode \notin Nodes /\ Parent \in [Nodes -> Nodes \cup {NoNode}]
ASSUME MaxRunsAssumption  == MaxRuns \in Nat
ASSUME PlansAssumption    == Plans \subseteq [Roots -> [Weeks -> Seq(LotIds)]]
ASSUME SettingsAssumption == \A r \in Settings : IsSetting(r)

VARIABLES
  dS, dP,      \* node.psi4demand[w][0] and [3]
  sS, sI, sP,  \* node.psi4supply[w][0], [2] and [3]
  setting,     \* never changes
  phase,       \* where the full plan stands
  runs,        \* runs started so far
  todo,        \* nodes the walk has still to visit
  plan,        \* history: S of the MOMs in this run
  before       \* history: plan and lots of the last run, NoRun before

vars == << dS, dP, sS, sI, sP, setting, phase, runs, todo, plan, before >>

NoLots == [n \in Nodes |-> [w \in Weeks |-> << >>]]
NoRun  == << >>

----------------------------------------------------------------------------
(* Weeks                                                                   *)

(* check_lv_week_bw: the latest week up to the given one that is no        *)
(* vacation of the node, perhaps one before the first week.                *)
OpenWeek(n, week) ==
  Max({ w \in week - NWeeks .. week : w \notin setting.vacation[n] })

(* A list index of -1 is the last week.                                    *)
Index(week) == IF week < 0 THEN week + NWeeks ELSE week

MakeWeek(n, w) == Index(OpenWeek(n, w - setting.stock[n]))
(* Faulty variants of a definition stand before it, one per fault the      *)
(* properties below must notice.  This: the asking node's lead time.       *)
AskWeekOfParent(n, w) == OpenWeek(n, w - setting.lead[Parent[n]])
AskWeek(n, w) == OpenWeek(n, w - setting.lead[n])

----------------------------------------------------------------------------
(* One node                                                                *)

(* The weeks of S that are planned, latest first.                          *)
PlannedWeeks(n) == { w \in Weeks : w > setting.stock[n] }
Latest(weeks)   == SetToSortSeq(weeks, >)

(* calcS2P: the lots are added to P of the week they are to be made in.    *)
Made(n) ==
  [w \in Weeks |->
     LET from == Latest({ v \in PlannedWeeks(n) : MakeWeek(n, v) = w })
     IN dP[n][w] \o FlattenSeq([k \in DOMAIN from |-> dS[n][from[k]]])]

(* Fault: the children are asked before the node has planned.              *)
AskedBefore(c, made) ==
  [w \in Weeks |->
     LET from == { v \in 1 .. NWeeks - 2 : AskWeek(c, v) = w }
     IN IF w = 0 \/ from = {} THEN dS[c][w] ELSE dP[Parent[c]][Min(from)]]

(* shift_P2childS_LV: what a child is to ship, given P of its parent.  The *)
(* first and the last week are not handed on; of the weeks that fall       *)
(* together the earliest overwrites the others.                            *)
Asked(c, made) ==
  [w \in Weeks |->
     LET from == { v \in 1 .. NWeeks - 2 : AskWeek(c, v) = w }
     IN IF w = 0 \/ from = {} THEN dS[c][w] ELSE made[Min(from)]]

(* Fault: a lot stays in stock in the week it is shipped.                  *)
LeftLate(n, stock, w) ==
  IF w = 0 THEN sI[n][0]
  ELSE FoldLeft(LAMBDA left, lot :
                  IF Contains(sS[n][w - 1], lot) \/ Contains(left, lot) THEN left
                  ELSE Append(left, lot),
                << >>, stock[w - 1] \o sP[n][w])

(* What is left in stock: each lot once, and none that is shipped.         *)
Left(n, stock, w) ==
  IF w = 0 THEN sI[n][0]
  ELSE FoldLeft(LAMBDA left, lot :
                  IF Contains(sS[n][w], lot) \/ Contains(left, lot) THEN left
                  ELSE Append(left, lot),
                << >>, stock[w - 1] \o sP[n][w])

(* calcPS2I4supply: the inventory, week after week.                        *)
Inventory(n) ==
  LET stock[w \in Weeks] == Left(n, stock, w) IN stock

----------------------------------------------------------------------------
(* The full plan, node by node                                             *)

Init ==
  /\ dS = NoLots /\ dP = NoLots /\ sS = NoLots /\ sI = NoLots /\ sP = NoLots
  /\ setting \in Settings
  /\ phase = "idle"
  /\ runs = 0
  /\ todo = {}
  /\ plan = [n \in Roots |-> [w \in Weeks |-> << >>]]
  /\ before = NoRun

Lots(bucket) == { bucket[k] : k \in DOMAIN bucket }
LotsOf(b)    == [n \in Nodes |-> [w \in Weeks |-> Lots(b[n][w])]]
AllLots      == << LotsOf(dS), LotsOf(dP) >>

(* Allocation and leveling give the MOMs the demand of this run.  Nothing  *)
(* else is cleared.                                                        *)
Call ==
  /\ phase \in {"idle", "planned", "done"}
  /\ runs < MaxRuns
  /\ \E p \in Plans :
       /\ plan' = p
       /\ dS' = [n \in Nodes |-> IF n \in Roots THEN p[n] ELSE dS[n]]
  /\ before' = IF phase = "idle" THEN NoRun ELSE [plan |-> plan, lots |-> AllLots]
  /\ runs' = runs + 1
  /\ phase' = "down"
  /\ todo' = Nodes
  /\ UNCHANGED << dP, sS, sI, sP, setting >>

(* calc_all_psiS2P2childS_preorder: a node plans before the nodes below.   *)
PlanNode(n) ==
  /\ phase = "down"
  /\ n \in todo
  /\ Parent[n] \notin todo
  /\ dP' = [dP EXCEPT ![n] = Made(n)]
  /\ dS' = [c \in Nodes |-> IF Parent[c] = n THEN Asked(c, Made(n)) ELSE dS[c]]
  /\ todo' = todo \ {n}
  /\ UNCHANGED << sS, sI, sP, setting, phase, runs, plan, before >>

(* copy_demand_to_supply_rec: all four buckets of all nodes; I of the      *)
(* demand layer is always empty here.                                      *)
Clone ==
  /\ phase = "down"
  /\ todo = {}
  /\ sS' = dS /\ sP' = dP /\ sI' = NoLots
  /\ phase' = "up"
  /\ todo' = Nodes
  /\ UNCHANGED << dS, dP, setting, runs, plan, before >>

(* calc_all_psi2i4supply_post and inbound_forward_leaf_to_MOM: a node      *)
(* finds its inventory after the nodes below.                              *)
StockNode(n) ==
  /\ phase \in {"up", "forward"}
  /\ n \in todo
  /\ \A c \in todo : Parent[c] # n
  /\ sI' = [sI EXCEPT ![n] = Inventory(n)]
  /\ todo' = todo \ {n}
  /\ phase' = IF todo' # {} THEN phase ELSE IF phase = "up" THEN "planned" ELSE "done"
  /\ UNCHANGED << dS, dP, sS, sP, setting, runs, plan, before >>

(* bridge_inbound_demand_to_supply: in the cockpit the supply layer just   *)
(* planned is cleared, and only S is given back.                           *)
SeedSupply ==
  /\ phase = "planned"
  /\ sS' = dS /\ sP' = NoLots /\ sI' = NoLots
  /\ phase' = "forward"
  /\ todo' = Nodes
  /\ UNCHANGED << dS, dP, setting, runs, plan, before >>

Next ==
  \/ Call \/ Clone \/ SeedSupply
  \/ \E n \in Nodes : PlanNode(n) \/ StockNode(n)

Spec == Init /\ [][Next]_vars

----------------------------------------------------------------------------
(* Properties                                                              *)

(* The MOM above a node, and the weeks between a shipment of the MOM and   *)
(* the node's own that the lead times and safety stocks add up to.         *)
Mom(n) ==
  LET root[m \in Nodes] == IF m \in Roots THEN m ELSE root[Parent[m]] IN root[n]
Offset(n) ==
  LET offset[m \in Nodes] ==
        IF m \in Roots THEN 0
        ELSE offset[Parent[m]] + setting.stock[Parent[m]] + setting.lead[m]
  IN offset[n]

Visited(n) == phase # "idle" /\ (phase = "down" => Parent[n] \notin todo)
NoVacation == \A n \in Nodes : setting.vacation[n] = {}

(* Without vacations the demand of a MOM reaches every node below exactly  *)
(* the sum of the lead times and safety stocks on the way earlier, whole   *)
(* and on the first run once, as long as every week on the way is inside   *)
(* the horizon: one step per node adds up to the right week at the leaves. *)
(* Vacations only make things earlier: what a supplier is asked for, it is *)
(* asked for in a week it works, no later than some shipment of the MOM    *)
(* needs it.                                                               *)
DemandArrivesOffsetEarlier ==
  /\ NoVacation /\ runs = 1 =>
       \A n \in Nodes, w \in Weeks :
         Visited(n) /\ w - Offset(n) - setting.stock[n] >= 1 /\ w <= NWeeks - 2 =>
           dS[n][w - Offset(n)] = plan[Mom(n)][w]
  /\ (\A n \in Nodes : 0 \notin setting.vacation[n]) /\ runs = 1 =>
       \A n \in Nodes \ Roots, v \in Weeks : Visited(n) =>
         \A lot \in Lots(dS[n][v]) :
           /\ v \notin setting.vacation[n]
           /\ \E w \in Weeks : lot \in Lots(plan[Mom(n)][w]) /\ v <= w - Offset(n)

(* On a first run the inventory of every node is the safety stock: a lot   *)
(* is in stock from the week it is made in to the week before it is        *)
(* shipped, and at no other time, so nothing is left over at the end.      *)
InventoryIsSafetyStock ==
  /\ phase = "planned" /\ runs = 1
  /\ \A n \in Nodes : 0 \notin setting.vacation[n]
  => \A n \in Nodes, v \in Weeks \ {0} :
       Lots(sI[n][v]) =
         UNION { Lots(sS[n][w]) : w \in { u \in PlannedWeeks(n) :
                    /\ u > v
                    /\ MakeWeek(n, u) \in 1 .. v } }

(* A second run with the same demand finds its lots in P, adds them once   *)
(* more and passes them down twice; still every week of every node plans   *)
(* the same lots as before, whatever the vacations made of the first run.  *)
RerunKeepsLots ==
  before # NoRun /\ phase # "down" /\ before.plan = plan => before.lots = AllLots
=============================================================================
