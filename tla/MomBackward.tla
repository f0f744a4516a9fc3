---------------------------- MODULE MomBackward ----------------------------
(***************************************************************************)
(* Capacity-aware inbound backward planning, the function                  *)
(* capacity_aware_inbound_backward_planning of                             *)
(* pysi/plan/capacity_aware_inbound_backward.py.                           *)
(*                                                                         *)
(* For every MOM node of the inbound tree the demand bucket S of each week *)
(* is first copied into the production bucket P of the same week; a second *)
(* pass then trims every P bucket to the weekly capacity, earliest week    *)
(* first, and moves each trimmed lot to the latest earlier week that still *)
(* has room inside the early-build window, or records it as backlog.       *)
(*                                                                         *)
(* The function is called again on the same tree whenever the planner      *)
(* re-runs the plan: dS and dP survive a call, the result object does not. *)
(***************************************************************************)
EXTENDS Integers, Sequences, FiniteSets

CONSTANTS
  Moms,      \* the nodes of the inbound tree whose name starts with "MOM"
  LotIds,    \* lot identifiers (strings in the code)
  NWeeks,    \* target_weeks: the number of weeks planned
  MaxEarly,  \* max_early_build_weeks
  MaxCalls,  \* bound: how often the planner calls the function
  Inputs     \* the trees and capacity tables a first call may find

Weeks == 0 .. NWeeks - 1
Buckets == [Moms -> [Weeks -> Seq(LotIds)]]

(* What a call finds besides the buckets: the capacity tables, the week    *)
(* entries that are not 4-lists, the nodes without a psi4demand list, and  *)
(* the weeks whose S or P bucket also holds entries that are no strings    *)
(* (a bucket's sequence is its strings; nothing looks at the others but to *)
(* drop and report them).                                                  *)
(* A table maps some MOMs to a raw value: a dict or a possibly short list, *)
(* as a partial function of the week; a scalar is the constant function.   *)
IsTable(t) ==
  \A m \in DOMAIN t : \A w \in Weeks : w \in DOMAIN t[m] => t[m][w] \in Int

IsSetting(r) ==
  /\ IsTable(r.product)     \* weekly_capability[product][mom]
  /\ IsTable(r.flat)        \* weekly_capability[mom]
  /\ IsTable(r.nx)          \* mom.nx_capacity
  /\ r.malformed \subseteq Moms \X Weeks
  /\ r.noPsi \subseteq Moms
  /\ r.junkS \subseteq Moms \X Weeks
  /\ r.junkP \subseteq Moms \X Weeks

ASSUME NWeeksAssumption   == NWeeks \in Nat \ {0}
ASSUME MaxEarlyAssumption == MaxEarly \in Nat
ASSUME MaxCallsAssumption == MaxCalls \in Nat
ASSUME InputsAssumption   ==
  \A i \in Inputs :
    /\ i.s \in Buckets
    /\ i.p \in Buckets
    /\ IsSetting(i.setting)

VARIABLES
  dS,        \* dS[m][w]: mom.psi4demand[w][PSI_S]
  dP,        \* dP[m][w]: mom.psi4demand[w][PSI_P]
  junkP,     \* the weeks whose P bucket holds entries that are no strings
  setting,   \* the rest of what the call finds; never changes
  phase,     \* where the single-threaded function stands
  calls,     \* calls made so far
  todo,      \* MOM nodes the loop has still to visit
  cur,       \* the MOM node being planned
  week,      \* the loop variable w
  cap,       \* cap_by_week of cur
  overflow,  \* overflow lots of the current week still to be placed
  shifted,   \* result.shifted_lots
  backlog,   \* result.backlog_lots
  count,     \* the lot counters of the result
  usage,     \* result.capacity_usage_by_mom_week
  errors     \* result.non_list_bucket_errors and non_string_lot_errors

tree    == << dS, dP, junkP, setting >>
control == << phase, calls, todo, cur, week, cap, overflow >>
result  == << shifted, backlog, count, usage, errors >>
vars    == << dS, dP, junkP, setting, phase, calls, todo, cur, week, cap, overflow,
              shifted, backlog, count, usage, errors >>

Phases == {"idle", "mom", "plan", "check", "place", "raised"}
NoMom  == "none"
Zero   == [planned |-> 0, checked |-> 0, accepted |-> 0, shifted |-> 0,
           backlog |-> 0]
Counters == [planned : Nat, checked : Nat, accepted : Nat, shifted : Nat,
             backlog : Nat]

----------------------------------------------------------------------------
(* Helpers                                                                 *)

Lesser(a, b)   == IF a < b THEN a ELSE b
(* Faulty variants of a definition stand before it, one per fault the      *)
(* properties below must notice.  This one: the slice bound is inclusive.  *)
TakeOneMore(q, n) == SubSeq(q, 1, Lesser(n + 1, Len(q)))
Take(q, n)     == SubSeq(q, 1, Lesser(n, Len(q)))
(* Fault: the rest of the bucket starts one lot too late.                  *)
DropOneMore(q, n) == SubSeq(q, Lesser(n, Len(q)) + 2, Len(q))
Drop(q, n)     == SubSeq(q, Lesser(n, Len(q)) + 1, Len(q))

(* Fault: a negative capacity is not clamped.                              *)
NormalizeUnclamped(raw) == [w \in Weeks |-> IF w \in DOMAIN raw THEN raw[w] ELSE 0]

(* A missing week counts as zero capacity, a negative one is clamped.      *)
Normalize(raw) ==
  [w \in Weeks |-> IF w \in DOMAIN raw /\ raw[w] > 0 THEN raw[w] ELSE 0]

(* The product table wins over the flat table, which wins over the node's  *)
(* own nx_capacity; a node without any has no capacity at all.             *)
ResolvedCapacity(m) ==
  IF m \in DOMAIN setting.product THEN Normalize(setting.product[m])
  ELSE IF m \in DOMAIN setting.flat THEN Normalize(setting.flat[m])
  ELSE IF m \in DOMAIN setting.nx THEN Normalize(setting.nx[m])
  ELSE [w \in Weeks |-> 0]

(* Fault: the bound of the window is forgotten.                            *)
WindowUnbounded(w) == { v \in Weeks : v < w }
(* Fault: the range ends one week too early.                               *)
WindowTooShort(w) == { v \in Weeks : v < w /\ v > w - MaxEarly + 1 }

(* The weeks range(w - 1, max(-1, w - max_early), -1) visits.              *)
Window(w) == { v \in Weeks : v < w /\ v > w - MaxEarly }

(* Fault: the room test leaves the last free place of a week unused.       *)
RoomButOne(w) == Len(dP[cur][w]) + 1 < cap[w]
Room(w) == Len(dP[cur][w]) < cap[w]
(* Fault: the search also visits the weeks after w.                        *)
OpenAnywhere(w) == { v \in Weeks \ {w} : Room(v) }
Open(w) == { v \in Window(w) : Room(v) }

Shift(lot, to) == [lot |-> lot, mom |-> cur, from |-> week, to |-> to]
Backlogged(lot) == [lot |-> lot, mom |-> cur, week |-> week]
Error(what)     == [mom |-> cur, week |-> week, what |-> what]

----------------------------------------------------------------------------
(* The function, step by step                                              *)

Init ==
  \E i \in Inputs :
    /\ dS = i.s
    /\ dP = i.p
    /\ setting = i.setting
    /\ junkP = i.setting.junkP
    /\ phase = "idle"
    /\ calls = 0
    /\ todo = Moms
    /\ cur = NoMom
    /\ week = 0
    /\ cap = [w \in Weeks |-> 0]
    /\ overflow = << >>
    /\ shifted = {}
    /\ backlog = {}
    /\ count = Zero
    /\ usage = {}
    /\ errors = {}

(* Fault: the result object of the last call is reused.                    *)
CallReusesResult ==
  /\ phase = "idle"
  /\ calls < MaxCalls
  /\ calls' = calls + 1
  /\ phase' = "mom"
  /\ todo' = Moms
  /\ UNCHANGED << dS, dP, junkP, setting, cur, week, cap, overflow, result >>

(* The planner calls the function on the tree as the last call left it.    *)
Call ==
  /\ phase = "idle"
  /\ calls < MaxCalls
  /\ calls' = calls + 1
  /\ phase' = "mom"
  /\ todo' = Moms
  /\ shifted' = {} /\ backlog' = {} /\ usage' = {} /\ errors' = {}
  /\ count' = Zero
  /\ UNCHANGED << dS, dP, junkP, setting, cur, week, cap, overflow >>

(* A node without a psi4demand list is recorded and skipped.               *)
SkipMom(m) ==
  /\ phase = "mom"
  /\ m \in todo \cap setting.noPsi
  /\ todo' = todo \ {m}
  /\ errors' = errors \cup {[mom |-> m, week |-> -1, what |-> "psi4demand_not_list"]}
  /\ UNCHANGED << dS, dP, junkP, setting, phase, calls, cur, week, cap, overflow,
                  shifted, backlog, count, usage >>

BeginMom(m) ==
  /\ phase = "mom"
  /\ m \in todo \ setting.noPsi
  /\ cur' = m
  /\ week' = 0
  /\ cap' = ResolvedCapacity(m)
  /\ phase' = "plan"
  /\ UNCHANGED << tree, calls, todo, overflow, result >>

(* The first pass: one week.  Moves on to the next week, or to the second  *)
(* pass after the last.                                                    *)
NextPlanWeek ==
  IF week + 1 < NWeeks
    THEN week' = week + 1 /\ phase' = "plan"
    ELSE week' = 0 /\ phase' = "check"

SkipWeek ==
  /\ phase = "plan"
  /\ << cur, week >> \in setting.malformed
  /\ errors' = errors \cup {Error("invalid_week_bucket")}
  /\ NextPlanWeek
  /\ UNCHANGED << tree, calls, todo, cur, cap, overflow, shifted, backlog,
                  count, usage >>

PlanWeek ==
  /\ phase = "plan"
  /\ << cur, week >> \notin setting.malformed
  /\ dP' = [dP EXCEPT ![cur][week] = @ \o dS[cur][week]]
  /\ count' = [count EXCEPT !.planned = @ + Len(dS[cur][week])]
  /\ errors' = IF << cur, week >> \in setting.junkS
                 THEN errors \cup {Error("non_string_lot_in_S")} ELSE errors
  /\ NextPlanWeek
  /\ UNCHANGED << dS, junkP, setting, calls, todo, cur, cap, overflow, shifted,
                  backlog, usage >>

(* The second pass indexes the week it only skipped in the first: the      *)
(* exception leaves the function, and the buckets as they are.             *)
CheckRaises ==
  /\ phase = "check"
  /\ << cur, week >> \in setting.malformed
  /\ phase' = "raised"
  /\ UNCHANGED << tree, calls, todo, cur, week, cap, overflow, result >>

CheckWeek ==
  /\ phase = "check"
  /\ << cur, week >> \notin setting.malformed
  /\ LET lots == dP[cur][week]
         keep == Take(lots, cap[week])
     IN /\ dP' = [dP EXCEPT ![cur][week] = keep]
        /\ overflow' = Drop(lots, cap[week])
        /\ count' = [count EXCEPT !.checked = @ + Len(lots),
                                  !.accepted = @ + Len(keep)]
  /\ junkP' = junkP \ {<< cur, week >>}
  /\ errors' = IF << cur, week >> \in junkP
                 THEN errors \cup {Error("non_string_lot_in_P")} ELSE errors
  /\ phase' = "place"
  /\ UNCHANGED << dS, setting, calls, todo, cur, week, cap, shifted, backlog,
                  usage >>

(* An overflow lot goes to the latest earlier week with room.              *)
ShiftEarlier ==
  /\ phase = "place"
  /\ overflow # << >>
  /\ \E v \in Open(week) :
       /\ \A u \in Open(week) : u <= v
       /\ dP' = [dP EXCEPT ![cur][v] = Append(@, Head(overflow))]
       /\ shifted' = shifted \cup {Shift(Head(overflow), v)}
  /\ count' = [count EXCEPT !.accepted = @ + 1, !.shifted = @ + 1]
  /\ overflow' = Tail(overflow)
  /\ UNCHANGED << dS, junkP, setting, phase, calls, todo, cur, week, cap, backlog,
                  usage, errors >>

RecordBacklog ==
  /\ phase = "place"
  /\ overflow # << >>
  /\ Open(week) = {}
  /\ backlog' = backlog \cup {Backlogged(Head(overflow))}
  /\ count' = [count EXCEPT !.backlog = @ + 1]
  /\ overflow' = Tail(overflow)
  /\ UNCHANGED << tree, phase, calls, todo, cur, week, cap, shifted, usage,
                  errors >>

NextCheckWeek ==
  /\ phase = "place"
  /\ overflow = << >>
  /\ week + 1 < NWeeks
  /\ week' = week + 1
  /\ phase' = "check"
  /\ UNCHANGED << tree, calls, todo, cur, cap, overflow, result >>

(* After its last week the node's usage table is written.                  *)
EndMom ==
  /\ phase = "place"
  /\ overflow = << >>
  /\ week + 1 = NWeeks
  /\ usage' = usage \cup { [mom |-> cur, week |-> w, used |-> Len(dP[cur][w]),
                            capacity |-> cap[w]] : w \in Weeks }
  /\ todo' = todo \ {cur}
  /\ phase' = "mom"
  /\ UNCHANGED << tree, calls, cur, week, cap, overflow, shifted, backlog,
                  count, errors >>

Return ==
  /\ phase = "mom"
  /\ todo = {}
  /\ phase' = "idle"
  /\ UNCHANGED << tree, calls, todo, cur, week, cap, overflow, result >>

Next ==
  \/ Call
  \/ \E m \in Moms : SkipMom(m)
  \/ \E m \in Moms : BeginMom(m)
  \/ SkipWeek
  \/ PlanWeek
  \/ CheckRaises
  \/ CheckWeek
  \/ ShiftEarlier
  \/ RecordBacklog
  \/ NextCheckWeek
  \/ EndMom
  \/ Return

Spec == Init /\ [][Next]_vars

----------------------------------------------------------------------------
(* Properties                                                              *)

(* Every variable stays in its type: every bucket is a sequence of lots    *)
(* and every counter of the result a natural number.                       *)
TypeOK ==
  /\ dS \in Buckets
  /\ dP \in Buckets
  /\ IsSetting(setting)
  /\ junkP \subseteq Moms \X Weeks
  /\ phase \in Phases
  /\ calls \in 0 .. MaxCalls
  /\ todo \subseteq Moms
  /\ cur \in Moms \cup {NoMom}
  /\ phase \in {"plan", "check", "place", "raised"} => cur \in todo
  /\ week \in Weeks
  /\ cap \in [Weeks -> Nat]
  /\ overflow \in Seq(LotIds)
  /\ shifted \subseteq [lot : LotIds, mom : Moms, from : Weeks, to : Weeks]
  /\ backlog \subseteq [lot : LotIds, mom : Moms, week : Weeks]
  /\ count \in Counters
  /\ usage \subseteq [mom : Moms, week : Weeks, used : Nat, capacity : Nat]

(* The nodes this call has finished, and the (node, week) pairs whose      *)
(* capacity check it has done.                                             *)
Finished == (Moms \ todo) \ setting.noPsi

CheckedWeeks ==
  CASE phase = "place"             -> 0 .. week
    [] phase \in {"check", "raised"} -> 0 .. week - 1
    [] OTHER                       -> {}

Checked(m, w) == m \in Finished \/ (m = cur /\ w \in CheckedWeeks)

Full(m, w) == Len(dP[m][w]) >= ResolvedCapacity(m)[w]

(* Once a week has been checked its production never exceeds the capacity, *)
(* also while later weeks still push their overflow into it.               *)
CapacityRespected ==
  \A m \in Moms, w \in Weeks :
    Checked(m, w) => Len(dP[m][w]) <= ResolvedCapacity(m)[w]

(* The weeks of m whose demand this call has copied to production.         *)
PlannedWeeks(m) ==
  { w \in Weeks :
      /\ << m, w >> \notin setting.malformed
      /\ \/ m \in Finished
         \/ /\ m = cur
            /\ \/ phase \in {"check", "place", "raised"}
               \/ phase = "plan" /\ w < week }

Holds(bucket, lot) == \E i \in DOMAIN bucket : bucket[i] = lot

(* A demand lot the call has planned is always in some production week of  *)
(* the MOM it was assigned to, waiting to be placed, or recorded as that   *)
(* MOM's backlog: trimming a week and shifting its lots loses none.        *)
NoLotDisappears ==
  \A m \in Moms : \A w \in PlannedWeeks(m) : \A lot \in LotIds :
    Holds(dS[m][w], lot) =>
      \/ \E v \in Weeks : Holds(dP[m][v], lot)
      \/ m = cur /\ Holds(overflow, lot)
      \/ \E b \in backlog : b.lot = lot /\ b.mom = m

(* A lot is backlogged only when its own week and all weeks fewer than     *)
(* max_early_build_weeks before it are full, and they stay full: no        *)
(* capacity is wasted while lots wait.                                     *)
BacklogOnlyWhenFull ==
  \A b \in backlog : \A v \in Weeks :
    v = b.week \/ (v < b.week /\ b.week - v < MaxEarly) => Full(b.mom, v)

(* The search asked for goes on to w - max_early_build_weeks: a lot is     *)
(* backlogged only when that week is full too.  The code stops one week    *)
(* before it, so this does not hold.                                       *)
RequestedWindowFull ==
  \A b \in backlog : \A v \in Weeks :
    v < b.week /\ b.week - v <= MaxEarly => Full(b.mom, v)

(* A shifted lot moved earlier, by max_early_build_weeks at the most, and  *)
(* every week between its own and the one it moved to is full: it is built *)
(* as late as capacity allows.                                             *)
ShiftedToLatestRoom ==
  \A s \in shifted :
    /\ s.to < s.from /\ s.from - s.to <= MaxEarly
    /\ \A v \in Weeks : s.to < v /\ v <= s.from => Full(s.mom, v)

(* The usage table the call returns is the plan it leaves in the tree.     *)
UsageIsThePlan ==
  \A u \in usage :
    /\ u.used = Len(dP[u.mom][u.week])
    /\ u.used <= u.capacity
    /\ u.capacity = ResolvedCapacity(u.mom)[u.week]

(* Nothing is taken out of, or put in the middle of, a week already        *)
(* checked: later overflow is only appended to it.                         *)
CheckedWeekOnlyGrows ==
  [][ \A m \in Moms, w \in Weeks :
        Checked(m, w) /\ Checked(m, w)' =>
          SubSeq(dP'[m][w], 1, Len(dP[m][w])) = dP[m][w] ]_vars
----------------------------------------------------------------------------
(* The ledger a first call keeps for its caller                            *)

NoSlot == << >>

LedgerDue ==
  [l \in LotIds |-> CHOOSE s \in Moms \X Weeks : Holds(dS[s[1]][s[2]], l)]

LedgerPlace ==
  [l \in LotIds |->
    LET m == LedgerDue[l][1]
        built == { v \in Weeks : Holds(dP[m][v], l) }
    IN IF \E b \in backlog : b.lot = l THEN NoSlot
       ELSE IF built = {} THEN LedgerDue[l]
       ELSE << m, CHOOSE v \in built : TRUE >>]

EarlierSlots ==
  [l \in LotIds |-> { << LedgerDue[l][1], v >> : v \in Window(LedgerDue[l][2]) }]

Ledger ==
  INSTANCE LotLedger WITH
    Lots <- LotIds, Slots <- Moms \X Weeks, Postponed <- NoSlot,
    alternatives <- EarlierSlots, due <- LedgerDue,
    capacity <- [s \in Moms \X Weeks |-> ResolvedCapacity(s[1])[s[2]]],
    place <- LedgerPlace,
    closed <- calls > 0 /\ phase = "idle"

(* A demand and a tree as the loader and the stages before leave them:     *)
(* every lot once in the demand, every week of every node readable.        *)
IsFresh(s, r) ==
  /\ \A lot \in LotIds : \E m \in Moms, w \in Weeks : \E k \in DOMAIN s[m][w] :
       /\ s[m][w][k] = lot
       /\ \A n \in Moms, v \in Weeks : \A j \in DOMAIN s[n][v] :
            s[n][v][j] = lot => n = m /\ v = w /\ j = k
  /\ r.malformed = {} /\ r.noPsi = {}

Fresh == IsFresh(dS, setting)

(* A first call on a fresh tree keeps the ledger's promise: it moves a lot *)
(* at most once, to an earlier week of the window of the same MOM with     *)
(* room, postpones one only when there is no such week, and returns a plan *)
(* within capacity.                                                        *)
KeepsTheLedger ==
  /\ Fresh => Ledger!Open
  /\ [][calls' <= 1 /\ Fresh => Ledger!Step]_(Ledger!ledger)
=============================================================================
