---------------------------- MODULE ForwardPush ----------------------------
(***************************************************************************)
(* The weekly forward push with capacity, weekly_forward_push_with_capacity *)
(* of pysi/plan/weekly_forward_push_with_capacity.py.                      *)
(*                                                                         *)
(* For every node of the supply tree, week after week: production lots     *)
(* beyond the P capacity are cut off, shipment lots beyond the S capacity  *)
(* or beyond what is in stock are cut off, what is left is carried to the  *)
(* next week as inventory, and the inventory is measured against (soft) or *)
(* cut to (hard) the I capacity.  Every cut is reported.                   *)
(*                                                                         *)
(* The buckets are overwritten in place, and nothing keeps the planner     *)
(* from pushing a tree that was pushed before.                             *)
(***************************************************************************)
EXTENDS Integers, Sequences, FiniteSets

CONSTANTS
  Nodes,      \* the nodes of the supply tree
  LotIds,     \* lot identifiers
  NWeeks,     \* the number of weeks of the longest node
  MaxCalls,   \* bound: how often the planner pushes the tree
  Inputs      \* the trees and capacities a first push may find

Weeks   == 0 .. NWeeks - 1
Buckets == [Nodes -> [Weeks -> Seq(LotIds)]]
Types   == {"P", "S", "I"}

(* cap maps some (node, type, week) to a capacity, no entry means no limit; *)
(* span is the number of weeks pushed at a node; bad are the weeks that are *)
(* no 4-list or whose S, I or P is no list of strings; noPsi are the nodes *)
(* without a psi4supply list; mode is cap_i_mode.                          *)
IsSetting(r) ==
  /\ DOMAIN r.cap \subseteq Nodes \X Types \X Weeks
  /\ \A k \in DOMAIN r.cap : r.cap[k] \in Int
  /\ r.span \in [Nodes -> 0 .. NWeeks]
  /\ r.bad \subseteq Nodes \X Weeks
  /\ r.noPsi \subseteq Nodes
  /\ r.mode \in {"soft", "hard", "other"}

ASSUME NWeeksAssumption   == NWeeks \in Nat \ {0}
ASSUME MaxCallsAssumption == MaxCalls \in Nat
ASSUME InputsAssumption   ==
  \A i \in Inputs :
    /\ i.s \in Buckets
    /\ i.p \in Buckets
    /\ i.i \in Buckets
    /\ IsSetting(i.setting)

VARIABLES
  sS, sI, sP,  \* sX[n][w]: node.psi4supply[w][PSI_X]
  setting,     \* the rest of what a push finds; never changes
  given,       \* history: the buckets as this push found them
  phase,       \* where the single-threaded function stands
  calls,       \* pushes made so far
  todo,        \* nodes the loop has still to visit
  cur,         \* the node being pushed
  week,        \* the loop variable w
  started,     \* prev_ending_inventory of cur is not None
  prev,        \* prev_ending_inventory of cur, if it is not None
  count,       \* the counters of the result
  usage,       \* result.capacity_usage
  violations,  \* result.capacity_violations
  replans,     \* result.replan_commands
  errors       \* result.non_list_bucket_errors and non_string_lot_errors

supply  == << sS, sI, sP >>
control == << phase, calls, todo, cur, week, started, prev >>
result  == << count, usage, violations, replans, errors >>
vars    == << sS, sI, sP, setting, given, phase, calls, todo, cur, week,
              started, prev, count, usage, violations, replans, errors >>

NoNode == "none"
Zero   == [nodes |-> 0, weeks |-> 0, made |-> 0, unmade |-> 0, shipped |-> 0,
           unshipped |-> 0, over |-> 0]

----------------------------------------------------------------------------
(* Helpers                                                                 *)

Lesser(a, b)  == IF a < b THEN a ELSE b
Greater(a, b) == IF a > b THEN a ELSE b

(* Where the slice bound n falls in q: a negative one counts from the end. *)
Bound(q, n) == IF n >= 0 THEN Lesser(n, Len(q)) ELSE Greater(0, Len(q) + n)

SliceTo(q, n)   == SubSeq(q, 1, Bound(q, n))
SliceFrom(q, n) == SubSeq(q, Bound(q, n) + 1, Len(q))

Limited(type) == << cur, type, week >> \in DOMAIN setting.cap
Cap(type)     == setting.cap[<< cur, type, week >>]

(* Faulty variants of a definition stand before it, one per fault the      *)
(* properties below must notice.  This: a capacity is not clamped at zero. *)
AdmitUnclamped(type, asked) ==
  IF Limited(type) THEN Lesser(Cap(type), asked) ELSE asked

(* Fault: a full week is one lot below its capacity.                       *)
AdmitBelow(type, asked) ==
  IF Limited(type) THEN Greater(0, Lesser(Cap(type) - 1, asked)) ELSE asked

(* How many of the asked lots the P or S capacity lets through.            *)
Admit(type, asked) ==
  IF Limited(type) THEN Greater(0, Lesser(Cap(type), asked)) ELSE asked

(* Fault: the inventory bucket always counts as the beginning inventory.   *)
BeginningFromBucket == sI[cur][week]

(* What the week starts from: the inventory bucket itself in week 0, when  *)
(* no week of the node has been pushed yet, and also when the previous     *)
(* week ended empty but the bucket is not.                                 *)
Beginning ==
  IF \/ week = 0
     \/ ~ started
     \/ prev = << >> /\ sI[cur][week] # << >>
    THEN sI[cur][week]
    ELSE prev

(* The split of the week's production, shipments and stock.                *)
Made      == SliceTo(sP[cur][week], Admit("P", Len(sP[cur][week])))
Unmade    == SliceFrom(sP[cur][week], Admit("P", Len(sP[cur][week])))
Stock     == Beginning \o Made
ShipLimit == Lesser(Len(Stock), Admit("S", Len(sS[cur][week])))
Shipped   == SliceTo(sS[cur][week], ShipLimit)
Unshipped == SliceFrom(sS[cur][week], ShipLimit)
Left      == SliceFrom(Stock, ShipLimit)
Overfull  == Limited("I") /\ Len(Left) > Cap("I")
Over      == IF Overfull THEN SliceFrom(Left, Cap("I")) ELSE << >>
Kept      == IF Overfull /\ setting.mode = "hard" THEN SliceTo(Left, Cap("I"))
                                                 ELSE Left

Report(type, lots, severity) ==
  [node |-> cur, week |-> week, type |-> type, lots |-> lots,
   severity |-> severity]

(* Fault: only the first lot that was cut is reported.                     *)
CutFirstOnly(type, lots) ==
  IF lots = << >> THEN {} ELSE {Report(type, << Head(lots) >>, "blocked")}

Cut(type, lots) == IF lots = << >> THEN {} ELSE {Report(type, lots, "blocked")}

Cuts == Cut("P", Unmade) \cup Cut("S", Unshipped)

OverReport ==
  IF Overfull
    THEN {Report("I", Over, IF setting.mode = "soft" THEN "warning" ELSE "blocked")}
    ELSE {}

Command(report) ==
  [node |-> report.node, week |-> report.week, type |-> report.type,
   lots |-> report.lots]

Used(type, n) ==
  IF Limited(type)
    THEN {[node |-> cur, week |-> week, type |-> type, capacity |-> Cap(type),
           used |-> n]}
    ELSE {}

----------------------------------------------------------------------------
(* The function, step by step                                              *)

Init ==
  \E i \in Inputs :
    /\ sS = i.s
    /\ sI = i.i
    /\ sP = i.p
    /\ setting = i.setting
    /\ given = [s |-> i.s, i |-> i.i, p |-> i.p]
    /\ phase = "idle"
    /\ calls = 0
    /\ todo = Nodes
    /\ cur = NoNode
    /\ week = 0
    /\ started = FALSE
    /\ prev = << >>
    /\ count = Zero
    /\ usage = {} /\ violations = {} /\ replans = {} /\ errors = {}

(* An unknown cap_i_mode is refused before anything is touched.            *)
Refuse ==
  /\ phase = "idle"
  /\ setting.mode = "other"
  /\ phase' = "raised"
  /\ UNCHANGED << supply, setting, given, calls, todo, cur, week, started, prev, result >>

Call ==
  /\ phase = "idle"
  /\ setting.mode # "other"
  /\ calls < MaxCalls
  /\ calls' = calls + 1
  /\ phase' = "node"
  /\ todo' = Nodes
  /\ given' = [s |-> sS, i |-> sI, p |-> sP]
  /\ count' = Zero
  /\ usage' = {} /\ violations' = {} /\ replans' = {} /\ errors' = {}
  /\ UNCHANGED << supply, setting, cur, week, started, prev >>

SkipNode(n) ==
  /\ phase = "node"
  /\ n \in todo
  /\ n \in setting.noPsi \/ setting.span[n] = 0
  /\ todo' = todo \ {n}
  /\ errors' = IF n \in setting.noPsi
                 THEN errors \cup {[node |-> n, week |-> -1]} ELSE errors
  /\ UNCHANGED << supply, setting, given, phase, calls, cur, week, started, prev, count,
                  usage, violations, replans >>

(* Fault: the ending inventory of the last node is not forgotten.          *)
BeginNodeKeepsPrev(n) ==
  /\ phase = "node"
  /\ n \in todo \ setting.noPsi
  /\ setting.span[n] > 0
  /\ cur' = n
  /\ week' = 0
  /\ phase' = "push"
  /\ count' = [count EXCEPT !.nodes = @ + 1]
  /\ UNCHANGED << supply, setting, given, calls, todo, started, prev, usage, violations,
                  replans, errors >>

BeginNode(n) ==
  /\ phase = "node"
  /\ n \in todo \ setting.noPsi
  /\ setting.span[n] > 0
  /\ cur' = n
  /\ week' = 0
  /\ started' = FALSE
  /\ prev' = << >>
  /\ phase' = "push"
  /\ count' = [count EXCEPT !.nodes = @ + 1]
  /\ UNCHANGED << supply, setting, given, calls, todo, usage, violations,
                  replans, errors >>

(* On to the next week of the node, or to the next node.                   *)
NextWeek ==
  IF week + 1 < setting.span[cur]
    THEN week' = week + 1 /\ UNCHANGED << phase, todo >>
    ELSE phase' = "node" /\ todo' = todo \ {cur} /\ UNCHANGED week

(* A week with a bucket that cannot be read is left as it is, and the      *)
(* inventory of the week before it is carried over it.                     *)
SkipWeek ==
  /\ phase = "push"
  /\ << cur, week >> \in setting.bad
  /\ errors' = errors \cup {[node |-> cur, week |-> week]}
  /\ NextWeek
  /\ UNCHANGED << supply, setting, given, calls, cur, started, prev, count, usage,
                  violations, replans >>

PushWeek ==
  /\ phase = "push"
  /\ << cur, week >> \notin setting.bad
  /\ sP' = [sP EXCEPT ![cur][week] = Made]
  /\ sS' = [sS EXCEPT ![cur][week] = Shipped]
  /\ sI' = [sI EXCEPT ![cur][week] = Kept]
  /\ started' = TRUE
  /\ prev' = Kept
  /\ replans' = replans \cup { Command(r) : r \in Cuts }
  /\ violations' = violations \cup Cuts \cup OverReport
  /\ usage' = usage \cup Used("P", Len(Made)) \cup Used("S", Len(Shipped))
                    \cup Used("I", Len(Kept))
  /\ count' = [count EXCEPT !.weeks = @ + 1,
                            !.made = @ + Len(Made),
                            !.unmade = @ + Len(Unmade),
                            !.shipped = @ + Len(Shipped),
                            !.unshipped = @ + Len(Unshipped),
                            !.over = @ + Len(Over)]
  /\ NextWeek
  /\ UNCHANGED << setting, given, calls, cur, errors >>

Return ==
  /\ phase = "node"
  /\ todo = {}
  /\ phase' = "idle"
  /\ UNCHANGED << supply, setting, given, calls, todo, cur, week, started, prev, result >>

Next ==
  \/ Refuse
  \/ Call
  \/ \E n \in Nodes : SkipNode(n)
  \/ \E n \in Nodes : BeginNode(n)
  \/ SkipWeek
  \/ PushWeek
  \/ Return

Spec == Init /\ [][Next]_vars

----------------------------------------------------------------------------
(* Properties                                                              *)

Reports == [node : Nodes, week : Weeks, type : Types, lots : Seq(LotIds),
            severity : {"blocked", "warning"}]
Commands == [node : Nodes, week : Weeks, type : {"P", "S"}, lots : Seq(LotIds)]

(* Every variable stays in its type: buckets stay sequences of lots, and   *)
(* the counters natural numbers.                                           *)
TypeOK ==
  /\ sS \in Buckets
  /\ sI \in Buckets
  /\ sP \in Buckets
  /\ IsSetting(setting)
  /\ given \in [s : Buckets, i : Buckets, p : Buckets]
  /\ phase \in {"idle", "node", "push", "raised"}
  /\ calls \in 0 .. MaxCalls
  /\ todo \subseteq Nodes
  /\ cur \in Nodes \cup {NoNode}
  /\ week \in Weeks
  /\ phase = "push" => cur \in todo \ setting.noPsi /\ week < setting.span[cur]
  /\ started \in BOOLEAN
  /\ prev \in Seq(LotIds)
  /\ count \in [nodes : Nat, weeks : Nat, made : Nat, unmade : Nat,
                shipped : Nat, unshipped : Nat, over : Nat]
  /\ usage \subseteq [node : Nodes, week : Weeks, type : Types, capacity : Int,
                      used : Nat]
  /\ violations \subseteq Reports
  /\ replans \subseteq Commands

(* The weeks this push has written.                                        *)
Pushed(n, w) ==
  /\ << n, w >> \notin setting.bad
  /\ \/ n \notin todo \cup setting.noPsi /\ w < setting.span[n]
     \/ phase = "push" /\ n = cur /\ w < week

LimitOf(n, type, w) ==
  IF << n, type, w >> \in DOMAIN setting.cap
    THEN Greater(0, setting.cap[<< n, type, w >>])
    ELSE Len(given.s[n][w]) + Len(given.p[n][w])

(* What a hard inventory limit c leaves of a pushed week.  A limit below    *)
(* zero is not clamped like the other two: it is the bound of a slice, so  *)
(* it takes that many lots off the end, names them in one report, and      *)
(* leaves the rest in stock, above any limit.                              *)
HardStock(n, w, c) ==
  IF c >= 0
    THEN Len(sI[n][w]) <= c
    ELSE \E r \in violations :
           /\ r.node = n /\ r.week = w /\ r.type = "I"
           /\ Len(r.lots) <= -c
           /\ sI[n][w] # << >> => Len(r.lots) = -c

(* A pushed week keeps within the capacities of its production and its     *)
(* shipments, negative ones counted as zero, and, when the inventory limit *)
(* is hard, within a limit of zero or more; what a negative hard limit     *)
(* does instead is HardStock.                                              *)
CapsRespected ==
  \A n \in Nodes, w \in Weeks :
    Pushed(n, w) =>
      /\ Len(sP[n][w]) <= LimitOf(n, "P", w)
      /\ Len(sS[n][w]) <= LimitOf(n, "S", w)
      /\ << n, "I", w >> \in DOMAIN setting.cap /\ setting.mode = "hard"
           => HardStock(n, w, setting.cap[<< n, "I", w >>])

Asked(n, w, type)    == IF type = "P" THEN given.p[n][w] ELSE given.s[n][w]
Accepted(n, w, type) == IF type = "P" THEN sP[n][w] ELSE sS[n][w]
CommandsAt(n, w, type) ==
  { r \in replans : r.node = n /\ r.week = w /\ r.type = type }

(* Every lot the push takes out of production or shipments is named by one *)
(* replan command, and putting the commands' lots back behind what was     *)
(* accepted gives exactly the buckets the push found.                      *)
CutLotsReported ==
  \A n \in Nodes, w \in Weeks :
    Pushed(n, w) =>
      \A type \in {"P", "S"} :
        IF CommandsAt(n, w, type) = {}
          THEN Accepted(n, w, type) = Asked(n, w, type)
          ELSE \A r \in CommandsAt(n, w, type) :
                 Accepted(n, w, type) \o r.lots = Asked(n, w, type)

(* Lots are cut only when they must be: production at a full P capacity,   *)
(* shipments at a full S capacity or with nothing left in stock.           *)
CutOnlyWhenForced ==
  \A r \in replans :
    LET n == r.node
        w == r.week
    IN IF r.type = "P"
         THEN Len(sP[n][w]) = LimitOf(n, "P", w)
         ELSE Len(sS[n][w]) = LimitOf(n, "S", w) \/ sI[n][w] = << >>

Holds(bucket, lot) == \E k \in DOMAIN bucket : bucket[k] = lot

(* The inventory of a pushed week holds only lots that this node had in    *)
(* stock or was asked to produce in that week or before: a shipment that   *)
(* is counted against the wrong lot still invents no lot.                  *)
StockHasOrigin ==
  \A n \in Nodes, w \in Weeks :
    Pushed(n, w) =>
      \A k \in DOMAIN sI[n][w] :
        \E v \in 0 .. w : \/ Holds(given.i[n][v], sI[n][w][k])
                          \/ Holds(given.p[n][v], sI[n][w][k])

NoHardLimit(n, w) == setting.mode = "soft" \/ << n, "I", w >> \notin DOMAIN setting.cap

(* The inventory a week ends with is what the last pushed week ended with, *)
(* plus what was produced, less what was shipped, unless the week's own    *)
(* inventory bucket was not empty or a hard limit cuts it.                 *)
StockContinues ==
  \A n \in Nodes : \A v, w \in Weeks :
    /\ Pushed(n, v) /\ Pushed(n, w) /\ v < w
    /\ \A u \in v + 1 .. w - 1 : << n, u >> \in setting.bad
    /\ given.i[n][w] = << >>
    => LET flow == Len(sI[n][v]) + Len(sP[n][w]) - Len(sS[n][w])
       IN /\ Len(sI[n][w]) <= flow
          /\ NoHardLimit(n, w) => Len(sI[n][w]) = flow
=============================================================================
