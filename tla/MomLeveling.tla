----------------------------- MODULE MomLeveling -----------------------------
(***************************************************************************)
(* Who builds a lot: allocate_markets_to_moms and                          *)
(* level_mom_demand_with_capacity of pysi/plan/engines.py.                 *)
(*                                                                         *)
(* The allocation reads the week's lots at the outbound (or inbound) root  *)
(* and gives each to the first MOM its market's policy names that exists.  *)
(* The leveling then goes through the MOMs in the order of their names,    *)
(* and through their weeks: what is beyond the week's capacity goes, lot   *)
(* by lot, to the first other MOM of the policy with room in that week, or *)
(* is recorded as backlog and leaves the tree.  It works on a copy and     *)
(* writes the copy back at the end.                                        *)
(***************************************************************************)
EXTENDS Integers, Sequences, FiniteSets

CONSTANTS
  NMoms,     \* the MOM nodes, numbered in the order of their names
  LotIds,    \* lot identifiers
  NWeeks,    \* the number of weeks of the MOMs
  Markets,   \* the market keys that lot ids may carry
  MaxCalls,  \* bound: how often one of the two functions is called
  Inputs     \* the trees, policies and capacities they may find

Moms    == 1 .. NMoms
Weeks   == 0 .. NWeeks - 1
Buckets == [Moms -> [Weeks -> Seq(LotIds)]]
Default == "DEFAULT"

IsPolicy(p) ==
  /\ DOMAIN p \subseteq Markets \cup {Default}
  /\ \A key \in DOMAIN p : p[key] \in Seq(Nat)

(* source[w] are the lots of week w at the root; span and horizon the      *)
(* numbers of weeks the two functions go through; clear is                 *)
(* clear_existing_mom_demand; a policy lists MOMs by market, and a name    *)
(* that is no MOM's is a number beyond NMoms; an empty secondary policy    *)
(* also stands for allow_secondary_mom = False; first is the MOM node the  *)
(* traversal of the tree meets first; byProduct and byMom map some MOMs to *)
(* their weekly capacity series, and nx is nx_capacity.                    *)
IsSetting(r) ==
  /\ r.source \in [Weeks -> Seq(LotIds)]
  /\ r.span \in 0 .. NWeeks
  /\ r.horizon \in 0 .. NWeeks
  /\ r.clear \in BOOLEAN
  /\ r.market \in [LotIds -> Markets]
  /\ IsPolicy(r.policy)
  /\ IsPolicy(r.secondary)
  /\ r.first \in Moms
  /\ \A table \in {r.byProduct, r.byMom} :
       DOMAIN table \subseteq Moms /\ \A m \in DOMAIN table : table[m] \in Seq(Int)
  /\ r.nx \in [Moms -> Int]

ASSUME NMomsAssumption    == NMoms \in Nat \ {0}
ASSUME NWeeksAssumption   == NWeeks \in Nat \ {0}
ASSUME MaxCallsAssumption == MaxCalls \in Nat
ASSUME InputsAssumption   ==
  \A i \in Inputs : i.demand \in Buckets /\ IsSetting(i.setting)

VARIABLES
  setting,   \* what the functions find, apart from the buckets
  demand,    \* demand[m][w]: psi4demand[w][0] of MOM m
  phase,     \* where the single-threaded caller stands
  calls,     \* calls made so far
  mom,       \* the MOM being leveled
  week,      \* the week being allocated or leveled
  queue,     \* lots of that week that have no MOM yet
  adjusted,  \* adjusted_assignments, the working copy
  final,     \* lot_to_final_mom: Unknown for a lot it does not mention
  moves,     \* lot_moves_secondary
  backlog,   \* lot_backlogged
  given      \* history: the demand the last leveling found

tree   == << setting, demand >>
result == << final, moves, backlog >>
vars   == << setting, demand, phase, calls, mom, week, queue, adjusted, final,
             moves, backlog, given >>

NoMom   == 0
Unknown == -1

----------------------------------------------------------------------------
(* Policies and capacities                                                 *)

(* The MOMs a policy names for a lot; an empty list counts as no list.     *)
Candidates(policy, lot) ==
  LET listed(key) == IF key \in DOMAIN policy THEN policy[key] ELSE << >>
      own         == listed(setting.market[lot])
  IN IF own # << >> THEN own ELSE listed(Default)

(* The first position in a list of MOMs whose MOM is in a set, or 0.       *)
FirstIn(list, moms) ==
  LET found == { k \in DOMAIN list : list[k] \in moms }
  IN IF found = {} THEN 0
     ELSE CHOOSE k \in found : \A j \in found : k <= j

Chosen(lot) ==
  LET list == Candidates(setting.policy, lot)
      k    == FirstIn(list, Moms)
  IN IF k > 0 THEN list[k] ELSE setting.first

(* A short series goes on with its last value.                             *)
Padded(series, w) ==
  IF w < Len(series) THEN series[w + 1]
  ELSE IF series = << >> THEN 0 ELSE series[Len(series)]

CapOf(m, w) ==
  IF m \in DOMAIN setting.byProduct THEN Padded(setting.byProduct[m], w)
  ELSE IF m \in DOMAIN setting.byMom THEN Padded(setting.byMom[m], w)
  ELSE setting.nx[m]

(* Where the slice bound n falls in q: a negative one counts from the end. *)
Bound(q, n) ==
  IF n >= 0 THEN IF n < Len(q) THEN n ELSE Len(q)
            ELSE IF Len(q) + n > 0 THEN Len(q) + n ELSE 0

(* Faulty variants of a definition stand before it, one per fault the      *)
(* properties below must notice.  This: the last lots are kept.            *)
KeepLast(q, n) == SubSeq(q, Len(q) - Bound(q, n) + 1, Len(q))
Keep(q, n)     == SubSeq(q, 1, Bound(q, n))
Spill(q, n)     == SubSeq(q, Bound(q, n) + 1, Len(q))

(* The other MOMs with room in the current week.                           *)
Roomy == { m \in Moms \ {mom} : Len(adjusted[m][week]) < CapOf(m, week) }

(* The secondary MOM the first queued lot goes to, or NoMom.               *)
Secondary ==
  LET list == Candidates(setting.secondary, Head(queue))
      k    == FirstIn(list, Roomy)
  IN IF k > 0 THEN list[k] ELSE NoMom

----------------------------------------------------------------------------
(* allocate_markets_to_moms                                                *)

Init ==
  \E i \in Inputs :
    /\ setting = i.setting
    /\ demand = i.demand
    /\ phase = "idle"
    /\ calls = 0
    /\ mom = 1
    /\ week = 0
    /\ queue = << >>
    /\ adjusted = i.demand
    /\ final = [l \in LotIds |-> Unknown]
    /\ moves = << >>
    /\ backlog = << >>
    /\ given = i.demand

(* Fault: what an earlier allocation left at the MOMs is kept.             *)
AllocateOnTop ==
  /\ phase \in {"idle", "allocated", "leveled"}
  /\ calls < MaxCalls
  /\ calls' = calls + 1
  /\ week' = 0
  /\ IF setting.span > 0
       THEN queue' = setting.source[0] /\ phase' = "allocate"
       ELSE queue' = << >> /\ phase' = "allocated"
  /\ UNCHANGED << setting, demand, mom, adjusted, result, given >>

Allocate ==
  /\ phase \in {"idle", "allocated", "leveled"}
  /\ calls < MaxCalls
  /\ calls' = calls + 1
  /\ demand' = [m \in Moms |-> [w \in Weeks |->
                  IF setting.clear /\ w < setting.span THEN << >> ELSE demand[m][w]]]
  /\ week' = 0
  /\ IF setting.span > 0
       THEN queue' = setting.source[0] /\ phase' = "allocate"
       ELSE queue' = << >> /\ phase' = "allocated"
  /\ UNCHANGED << setting, mom, adjusted, result, given >>

AllocateLot ==
  /\ phase = "allocate"
  /\ queue # << >>
  /\ demand' = [demand EXCEPT ![Chosen(Head(queue))][week] = Append(@, Head(queue))]
  /\ queue' = Tail(queue)
  /\ UNCHANGED << setting, phase, calls, mom, week, adjusted, result, given >>

NextAllocateWeek ==
  /\ phase = "allocate"
  /\ queue = << >>
  /\ IF week + 1 < setting.span
       THEN week' = week + 1 /\ queue' = setting.source[week + 1] /\ UNCHANGED phase
       ELSE phase' = "allocated" /\ UNCHANGED << week, queue >>
  /\ UNCHANGED << tree, calls, mom, adjusted, result, given >>

----------------------------------------------------------------------------
(* level_mom_demand_with_capacity                                          *)

(* The MOM that has the lot; the last one in the order of names wins.      *)
PrimaryMom(lot) ==
  LET has == { m \in Moms : \E w \in Weeks :
                 w < setting.horizon /\ \E k \in DOMAIN demand[m][w] : demand[m][w][k] = lot }
  IN IF has = {} THEN Unknown ELSE CHOOSE m \in has : \A n \in has : n <= m

Level ==
  /\ phase \in {"idle", "allocated", "leveled"}
  /\ calls < MaxCalls
  /\ calls' = calls + 1
  /\ given' = demand
  /\ adjusted' = demand
  /\ final' = [l \in LotIds |-> PrimaryMom(l)]
  /\ moves' = << >>
  /\ backlog' = << >>
  /\ mom' = 1
  /\ week' = 0
  /\ phase' = IF setting.horizon > 0 THEN "level" ELSE "write"
  /\ UNCHANGED << tree, queue >>

(* Fault: the last MOM is never leveled.                                   *)
NextWeekSkipsLast ==
  IF week + 1 < setting.horizon
    THEN week' = week + 1 /\ phase' = "level" /\ UNCHANGED mom
  ELSE IF mom + 1 < NMoms
    THEN mom' = mom + 1 /\ week' = 0 /\ phase' = "level"
  ELSE phase' = "write" /\ UNCHANGED << mom, week >>

NextWeek ==
  IF week + 1 < setting.horizon
    THEN week' = week + 1 /\ phase' = "level" /\ UNCHANGED mom
  ELSE IF mom < NMoms
    THEN mom' = mom + 1 /\ week' = 0 /\ phase' = "level"
  ELSE phase' = "write" /\ UNCHANGED << mom, week >>

WithinCapacity ==
  /\ phase = "level"
  /\ Len(adjusted[mom][week]) <= CapOf(mom, week)
  /\ NextWeek
  /\ UNCHANGED << tree, calls, queue, adjusted, result, given >>

SplitWeek ==
  /\ phase = "level"
  /\ Len(adjusted[mom][week]) > CapOf(mom, week)
  /\ queue' = Spill(adjusted[mom][week], CapOf(mom, week))
  /\ adjusted' = [adjusted EXCEPT ![mom][week] = Keep(@, CapOf(mom, week))]
  /\ phase' = "spill"
  /\ UNCHANGED << tree, calls, mom, week, result, given >>

(* Fault: the lot is recorded as moved but not put into the other MOM.     *)
MoveLotNowhere ==
  /\ phase = "spill"
  /\ queue # << >>
  /\ Secondary # NoMom
  /\ final' = [final EXCEPT ![Head(queue)] = Secondary]
  /\ moves' = Append(moves, [week |-> week, lot |-> Head(queue), from |-> mom,
                              to |-> Secondary])
  /\ queue' = Tail(queue)
  /\ UNCHANGED << tree, phase, calls, mom, week, adjusted, backlog, given >>

MoveLot ==
  /\ phase = "spill"
  /\ queue # << >>
  /\ Secondary # NoMom
  /\ adjusted' = [adjusted EXCEPT ![Secondary][week] = Append(@, Head(queue))]
  /\ final' = [final EXCEPT ![Head(queue)] = Secondary]
  /\ moves' = Append(moves, [week |-> week, lot |-> Head(queue), from |-> mom,
                              to |-> Secondary])
  /\ queue' = Tail(queue)
  /\ UNCHANGED << tree, phase, calls, mom, week, backlog, given >>

BacklogLot ==
  /\ phase = "spill"
  /\ queue # << >>
  /\ Secondary = NoMom
  /\ final' = [final EXCEPT ![Head(queue)] = NoMom]
  /\ backlog' = Append(backlog, [week |-> week, lot |-> Head(queue), from |-> mom])
  /\ queue' = Tail(queue)
  /\ UNCHANGED << tree, phase, calls, mom, week, adjusted, moves, given >>

EndWeek ==
  /\ phase = "spill"
  /\ queue = << >>
  /\ NextWeek
  /\ UNCHANGED << tree, calls, queue, adjusted, result, given >>

WriteBack ==
  /\ phase = "write"
  /\ demand' = [m \in Moms |-> [w \in Weeks |->
                  IF w < setting.horizon THEN adjusted[m][w] ELSE demand[m][w]]]
  /\ phase' = "leveled"
  /\ UNCHANGED << setting, calls, mom, week, queue, adjusted, result, given >>

Next ==
  \/ Allocate \/ AllocateLot \/ NextAllocateWeek
  \/ Level \/ WithinCapacity \/ SplitWeek \/ MoveLot \/ BacklogLot \/ EndWeek
  \/ WriteBack

Spec == Init /\ [][Next]_vars

----------------------------------------------------------------------------
(* Properties                                                              *)

Leveling == phase \in {"level", "spill", "write"}

(* Every variable stays in its type; in particular the weeks leveled are   *)
(* those of the horizon, and moves name MOMs that exist.                   *)
TypeOK ==
  /\ IsSetting(setting)
  /\ demand \in Buckets
  /\ adjusted \in Buckets
  /\ given \in Buckets
  /\ phase \in {"idle", "allocate", "allocated", "level", "spill", "write", "leveled"}
  /\ calls \in 0 .. MaxCalls
  /\ mom \in Moms
  /\ week \in Weeks
  /\ phase \in {"level", "spill"} => week < setting.horizon
  /\ queue \in Seq(LotIds)
  /\ final \in [LotIds -> Moms \cup {NoMom, Unknown}]
  /\ moves \in Seq([week : Weeks, lot : LotIds, from : Moms, to : Moms])
  /\ backlog \in Seq([week : Weeks, lot : LotIds, from : Moms])

Holds(bucket, lot) == \E k \in DOMAIN bucket : bucket[k] = lot

(* The weeks the leveling is done with.                                    *)
Done(m, w) ==
  /\ w < setting.horizon
  /\ \/ phase \in {"write", "leveled"}
     \/ phase \in {"level", "spill"} /\ (m < mom \/ (m = mom /\ w < week))
     \/ phase = "spill" /\ m = mom /\ w = week

(* A MOM's own lots come first: lots from other MOMs, whether they arrive  *)
(* before or after its turn, never take the place of a lot it was given,   *)
(* what it keeps of its own lots are the first, in their order, and own    *)
(* lots and guests together keep within the capacity.                      *)
OwnLotsFirst ==
  \A m \in Moms, w \in Weeks :
    Done(m, w) =>
      LET own == SubSeq(given[m][w], 1, Bound(given[m][w], CapOf(m, w)))
      IN /\ Len(own) <= Len(adjusted[m][w])
         /\ SubSeq(adjusted[m][w], 1, Len(own)) = own
         /\ CapOf(m, w) >= 0 => Len(adjusted[m][w]) <= CapOf(m, w)

(* Where a lot is, in some weeks of the MOMs' buckets.                     *)
Positions(bucket, lot) == { k \in DOMAIN bucket : bucket[k] = lot }

Copies(bucket, lot) == Cardinality(Positions(bucket, lot))

Spots(b, weeks, lot) ==
  UNION { { << s[1], s[2], k >> : k \in Positions(b[s[1]][s[2]], lot) } :
            s \in Moms \X weeks }

Allocating == phase \in {"allocate", "allocated"}

(* An allocation that clears gives every lot of the root's week to the MOM *)
(* its policy chooses and to no other, as often as the root has it and in  *)
(* the same week, whatever an earlier allocation or leveling left there.   *)
EachLotAllocatedOnce ==
  Allocating /\ setting.clear =>
    \A w \in 0 .. setting.span - 1, lot \in LotIds :
      LET spots   == Spots(demand, {w}, lot)
          waiting == IF phase = "allocate" /\ w = week THEN Copies(queue, lot) ELSE 0
          due     == IF phase = "allocate" /\ w > week THEN 0
                     ELSE Copies(setting.source[w], lot)
      IN /\ Cardinality(spots) + waiting = due
         /\ \A spot \in spots : spot[1] = Chosen(lot)

Horizon == 0 .. setting.horizon - 1

(* The lot is at this MOM in this week, and nowhere else in the horizon.   *)
OnlyAt(b, lot, m, w) ==
  \E k \in Positions(b[m][w], lot) : Spots(b, Horizon, lot) = {<< m, w, k >>}

(* lot_to_final_mom says of each lot the leveling found once where it is   *)
(* in the leveled tree, still once and in its week, or that it is nowhere. *)
FinalMomIsTrue ==
  phase = "leveled" =>
    \A lot \in LotIds, m \in Moms, w \in Horizon :
      OnlyAt(given, lot, m, w) =>
        IF final[lot] = NoMom THEN Spots(demand, Horizon, lot) = {}
        ELSE final[lot] \in Moms /\ OnlyAt(demand, lot, final[lot], w)

----------------------------------------------------------------------------
(* The ledger a leveling keeps for its caller                              *)

NoSlot == << >>
Slots  == Moms \X Weeks

(* The slots of the horizon that hold a lot.                               *)
SlotsOf(b, lot) == { s \in Moms \X Horizon : Holds(b[s[1]][s[2]], lot) }

LedgerDue == [l \in LotIds |-> CHOOSE s \in Slots : s \in SlotsOf(given, l)]

(* A lot that waits for a MOM is still where it is due.                    *)
LedgerPlace ==
  [l \in LotIds |->
    IF phase = "spill" /\ Holds(queue, l) THEN LedgerDue[l]
    ELSE IF SlotsOf(adjusted, l) = {} THEN NoSlot
    ELSE CHOOSE s \in Slots : s \in SlotsOf(adjusted, l)]

(* The other MOMs of the lot's secondary policy, in the same week.         *)
OtherMoms ==
  [l \in LotIds |->
    LET list == Candidates(setting.secondary, l)
    IN { s \in Slots : /\ s[2] = LedgerDue[l][2]
                       /\ s[1] # LedgerDue[l][1]
                       /\ \E k \in DOMAIN list : list[k] = s[1] }]

Ledger ==
  INSTANCE LotLedger WITH
    Lots <- LotIds, Slots <- Slots, Postponed <- NoSlot,
    alternatives <- OtherMoms, due <- LedgerDue,
    capacity <- [s \in Slots |-> CapOf(s[1], s[2])],
    place <- LedgerPlace,
    closed <- phase = "leveled"

(* The leveling in progress found every lot at one MOM in one week, as an  *)
(* allocation leaves them, and no capacity is negative.                    *)
LevelsEachLotOnce ==
  /\ Leveling
  /\ \A lot \in LotIds : \E m \in Moms, w \in Horizon : OnlyAt(given, lot, m, w)
  /\ \A m \in Moms, w \in Weeks : CapOf(m, w) >= 0

Opening == phase = "level" /\ mom = 1 /\ week = 0

(* A leveling keeps the promise every planning stage makes: a lot moves at *)
(* most once, out of an overfull MOM to one of its policy with room, is    *)
(* given up only when none has, and nothing is lost or overfull at the     *)
(* end.                                                                    *)
KeepsTheLedger ==
  /\ [](LevelsEachLotOnce /\ Opening => Ledger!Open)
  /\ [][LevelsEachLotOnce => Ledger!Step]_(Ledger!ledger)
=============================================================================
