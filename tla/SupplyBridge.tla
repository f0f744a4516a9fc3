---------------------------- MODULE SupplyBridge ----------------------------
(***************************************************************************)
(* Bridge B, the function bridge_demand_to_supply_execution of             *)
(* pysi/plan/bridges/demand_to_supply_execution_bridge.py: it hands the    *)
(* plan in the demand layer of every node over to the supply layer, where  *)
(* the forward push executes it.                                           *)
(*                                                                         *)
(* The bridge goes through the nodes, and through the weeks of the demand  *)
(* layer of each.  What the target week holds is kept or cleared, and the  *)
(* buckets the policy names are copied one after the other; the first      *)
(* bucket that is no list ends the week half way.                          *)
(***************************************************************************)
EXTENDS Integers, Sequences, FiniteSets

CONSTANTS
  Nodes,     \* the nodes of the tree
  LotIds,    \* lot identifiers
  NWeeks,    \* the number of weeks of the longest list
  MaxCalls,  \* bound: how often the tree is bridged
  Plans,     \* the demand layers a planning stage may leave
  Inputs     \* the supply layers and settings a first call may find

Weeks   == 0 .. NWeeks - 1
Order   == << "S", "CO", "I", "P" >>
Names   == {"S", "CO", "I", "P"}
Buckets == [Nodes -> [Weeks -> Seq(LotIds)]]
Layers  == [S : Buckets, CO : Buckets, I : Buckets, P : Buckets]

(* lead is bridge_leadtime_weeks; demandSpan and supplySpan are the        *)
(* lengths of the two lists of a node; noPsi are the nodes without one of  *)
(* them; shortD and shortS the weeks that are no list of four buckets;     *)
(* junkD and junkS the buckets that are no list, which stand here as empty *)
(* ones.                                                                   *)
IsSetting(r) ==
  /\ r.policy \in {"s_p_only", "s_only", "full_clone", "other"}
  /\ r.mode \in {"replace", "append", "dedupe_append"}
  /\ r.lead \in Int
  /\ r.demandSpan \in [Nodes -> 0 .. NWeeks]
  /\ r.supplySpan \in [Nodes -> 0 .. NWeeks]
  /\ r.noPsi \subseteq Nodes
  /\ r.shortD \subseteq Nodes \X Weeks
  /\ r.shortS \subseteq Nodes \X Weeks
  /\ r.junkD \subseteq Nodes \X Weeks \X Names
  /\ r.junkS \subseteq Nodes \X Weeks \X Names

ASSUME NWeeksAssumption   == NWeeks \in Nat \ {0}
ASSUME MaxCallsAssumption == MaxCalls \in Nat
ASSUME PlansAssumption    == Plans \subseteq Layers
ASSUME InputsAssumption   == \A i \in Inputs : i.supply \in Layers /\ IsSetting(i.setting)

VARIABLES
  demand,            \* demand[b][n][w]: bucket b of node.psi4demand[w]
  tS, tCO, tI, tP,   \* tB[n][w]: bucket B of node.psi4supply[w]
  setting,           \* the rest of what a call finds; never changes
  phase,             \* where the single-threaded function stands
  calls,             \* calls made so far
  todo,              \* nodes the loop has still to visit
  cur,               \* the node being bridged
  week,              \* the loop variable source_week
  copied,            \* result.copied_lot_count
  skipped,           \* the length of result.duplicate_lot_ids
  touched,           \* result.nodes_touched and weeks_touched, as pairs
  invalid,           \* result.invalid_weeks
  broken,            \* result.non_list_bucket_errors
  given,             \* history: the two layers as this call found them
  again              \* history: the call before had the same demand layer

supply == << tS, tCO, tI, tP >>
result == << copied, skipped, touched, invalid, broken >>
vars   == << demand, supply, setting, phase, calls, todo, cur, week, result, given, again >>

Supply == [S |-> tS, CO |-> tCO, I |-> tI, P |-> tP]
NoNode == "none"

----------------------------------------------------------------------------
(* One week                                                                *)

Target   == week + setting.lead
InRange  == Target >= 0 /\ Target < setting.supplySpan[cur]
Readable == << cur, week >> \notin setting.shortD /\ << cur, Target >> \notin setting.shortS

Policy ==
  CASE setting.policy = "s_p_only" -> {"S", "P"}
    [] setting.policy = "s_only"   -> {"S"}
    [] OTHER                       -> Names

(* Faulty variants of a definition stand before it, one per fault the      *)
(* properties below must notice.  This: only one policy clears the week.   *)
ClearsForOne == setting.mode = "replace" /\ setting.policy = "s_p_only"

(* Replacing clears all four buckets, but none under full_clone.           *)
Clears == setting.mode = "replace" /\ setting.policy \in {"s_p_only", "s_only"}

JunkInTarget == { b \in Names : << cur, Target, b >> \in setting.junkS }

(* The policy's buckets that are copied: those before the first that is no *)
(* list in one of the layers.                                              *)
Stops  == { k \in DOMAIN Order :
              /\ Order[k] \in Policy
              /\ \/ << cur, week, Order[k] >> \in setting.junkD
                 \/ Order[k] \in JunkInTarget }
Copied == { Order[k] : k \in { j \in DOMAIN Order :
              Order[j] \in Policy /\ \A s \in Stops : j < s } }

Holds(bucket, lot) == \E k \in DOMAIN bucket : bucket[k] = lot

(* Fault: only the lots found in the bucket count as duplicates.           *)
MergedWithFound(old, q) == old \o SelectSeq(q, LAMBDA lot : ~ Holds(old, lot))

Merged(old, q) ==
  LET upto[k \in 0 .. Len(q)] ==
        IF k = 0 THEN old
        ELSE IF Holds(upto[k - 1], q[k]) THEN upto[k - 1] ELSE Append(upto[k - 1], q[k])
  IN upto[Len(q)]

(* Fault: only the buckets that are copied are cleared.                    *)
KeptUnlessCopied(b) == IF Clears /\ b \in Policy THEN << >> ELSE Supply[b][cur][Target]

Kept(b) == IF Clears THEN << >> ELSE Supply[b][cur][Target]

(* What a bucket of the target week holds when the week is done.           *)
Bridged(b) ==
  IF b \notin Copied THEN Kept(b)
  ELSE IF setting.mode = "dedupe_append" THEN Merged(Kept(b), demand[b][cur][week])
  ELSE Kept(b) \o demand[b][cur][week]

Growth == Len(Bridged("S")) - Len(Kept("S")) + Len(Bridged("CO")) - Len(Kept("CO"))
          + Len(Bridged("I")) - Len(Kept("I")) + Len(Bridged("P")) - Len(Kept("P"))
Source(b) == IF b \in Copied THEN Len(demand[b][cur][week]) ELSE 0
Offered   == Source("S") + Source("CO") + Source("I") + Source("P")

(* Fault: a bucket of the demand layer that is no list goes unreported.    *)
StoppedBySupplyOnly ==
  { [node |-> cur, week |-> week, bucket |-> Order[k]] : k \in
      { s \in Stops : Order[s] \in JunkInTarget /\ \A r \in Stops : s <= r } }

(* The bucket that ended the week, as it is reported.                      *)
Stopped ==
  { [node |-> cur, week |-> week, bucket |-> Order[k]] : k \in
      { s \in Stops : \A r \in Stops : s <= r } }

----------------------------------------------------------------------------
(* The function, step by step                                              *)

Init ==
  /\ demand \in Plans
  /\ \E i \in Inputs :
       /\ tS = i.supply.S /\ tCO = i.supply.CO /\ tI = i.supply.I /\ tP = i.supply.P
       /\ setting = i.setting
       /\ given = [demand |-> demand, supply |-> i.supply]
  /\ phase = "idle"
  /\ calls = 0
  /\ todo = Nodes
  /\ cur = NoNode
  /\ week = 0
  /\ copied = 0 /\ skipped = 0
  /\ touched = {} /\ invalid = {} /\ broken = {}
  /\ again = FALSE

(* A planning stage leaves another plan between two calls.                 *)
Replan ==
  /\ phase = "idle"
  /\ calls \in 1 .. MaxCalls - 1
  /\ demand' \in Plans \ {demand}
  /\ UNCHANGED << supply, setting, phase, calls, todo, cur, week, result, given, again >>

(* A policy that does not exist is refused before anything is touched.     *)
Refuse ==
  /\ phase = "idle"
  /\ setting.policy = "other"
  /\ phase' = "raised"
  /\ UNCHANGED << demand, supply, setting, calls, todo, cur, week, result, given, again >>

Call ==
  /\ phase = "idle"
  /\ setting.policy # "other"
  /\ calls < MaxCalls
  /\ calls' = calls + 1
  /\ phase' = "node"
  /\ todo' = Nodes
  /\ copied' = 0 /\ skipped' = 0
  /\ touched' = {} /\ invalid' = {} /\ broken' = {}
  /\ given' = [demand |-> demand, supply |-> Supply]
  /\ again' = (calls > 0 /\ given.demand = demand)
  /\ UNCHANGED << demand, supply, setting, cur, week >>

SkipNode(n) ==
  /\ phase = "node"
  /\ n \in todo
  /\ n \in setting.noPsi \/ setting.demandSpan[n] = 0
  /\ todo' = todo \ {n}
  /\ invalid' = IF n \in setting.noPsi
                  THEN invalid \cup {[node |-> n, week |-> -1]} ELSE invalid
  /\ UNCHANGED << demand, supply, setting, phase, calls, cur, week, copied, skipped,
                  touched, broken, given, again >>

BeginNode(n) ==
  /\ phase = "node"
  /\ n \in todo \ setting.noPsi
  /\ setting.demandSpan[n] > 0
  /\ cur' = n
  /\ week' = 0
  /\ phase' = "week"
  /\ UNCHANGED << demand, supply, setting, calls, todo, result, given, again >>

NextWeek ==
  IF week + 1 < setting.demandSpan[cur]
    THEN week' = week + 1 /\ UNCHANGED << phase, todo >>
    ELSE phase' = "node" /\ todo' = todo \ {cur} /\ UNCHANGED week

(* A week without a counterpart, or that is no list of buckets, is left.   *)
SkipWeek ==
  /\ phase = "week"
  /\ ~ (InRange /\ Readable)
  /\ invalid' = invalid \cup {[node |-> cur, week |-> week]}
  /\ NextWeek
  /\ UNCHANGED << demand, supply, setting, calls, cur, copied, skipped, touched, broken,
                  given, again >>

(* A bucket that cannot be cleared: the others are cleared all the same,   *)
(* and nothing is copied.                                                  *)
ClearOnly ==
  /\ phase = "week"
  /\ InRange /\ Readable
  /\ Clears /\ JunkInTarget # {}
  /\ tS'  = [tS  EXCEPT ![cur][Target] = << >>]
  /\ tCO' = [tCO EXCEPT ![cur][Target] = << >>]
  /\ tI'  = [tI  EXCEPT ![cur][Target] = << >>]
  /\ tP'  = [tP  EXCEPT ![cur][Target] = << >>]
  /\ broken' = broken \cup { [node |-> cur, week |-> week, bucket |-> b] : b \in JunkInTarget }
  /\ NextWeek
  /\ UNCHANGED << demand, setting, calls, cur, copied, skipped, touched, invalid, given,
                  again >>

CopyWeek ==
  /\ phase = "week"
  /\ InRange /\ Readable
  /\ ~ (Clears /\ JunkInTarget # {})
  /\ tS'  = [tS  EXCEPT ![cur][Target] = Bridged("S")]
  /\ tCO' = [tCO EXCEPT ![cur][Target] = Bridged("CO")]
  /\ tI'  = [tI  EXCEPT ![cur][Target] = Bridged("I")]
  /\ tP'  = [tP  EXCEPT ![cur][Target] = Bridged("P")]
  /\ copied' = copied + Growth
  /\ skipped' = skipped + Offered - Growth
  /\ broken' = broken \cup Stopped
  /\ touched' = IF Stops = {} THEN touched \cup {<< cur, week >>} ELSE touched
  /\ NextWeek
  /\ UNCHANGED << demand, setting, calls, cur, invalid, given, again >>

Return ==
  /\ phase = "node"
  /\ todo = {}
  /\ phase' = "idle"
  /\ UNCHANGED << demand, supply, setting, calls, todo, cur, week, result, given, again >>

Next ==
  \/ Replan \/ Refuse \/ Call
  \/ \E n \in Nodes : SkipNode(n) \/ BeginNode(n)
  \/ SkipWeek \/ ClearOnly \/ CopyWeek \/ Return

Spec == Init /\ [][Next]_vars

----------------------------------------------------------------------------
(* Properties                                                              *)

TypeOK ==
  /\ demand \in Layers /\ Supply \in Layers
  /\ IsSetting(setting)
  /\ phase \in {"idle", "node", "week", "raised"}
  /\ calls \in 0 .. MaxCalls
  /\ todo \subseteq Nodes
  /\ phase = "week" => /\ cur \in todo \ setting.noPsi
                       /\ week \in 0 .. setting.demandSpan[cur] - 1
  /\ copied \in Int /\ skipped \in Int
  /\ touched \subseteq Nodes \X Weeks
  /\ invalid \subseteq [node : Nodes, week : Weeks \cup {-1}]
  /\ broken \subseteq [node : Nodes, week : Weeks, bucket : Names]
  /\ given \in [demand : Layers, supply : Layers]
  /\ again \in BOOLEAN

(* The weeks this call is done with.                                       *)
Done(n, w) ==
  /\ calls > 0
  /\ n \notin setting.noPsi
  /\ w < setting.demandSpan[n]
  /\ n \notin todo \/ (phase = "week" /\ n = cur /\ w < week)

Reported(n, w) ==
  \/ \E r \in invalid : r.node = n /\ r.week = w
  \/ \E r \in broken : r.node = n /\ r.week = w

(* Every planned lot of a bucket the policy hands over arrives in its week *)
(* of the supply layer, and later weeks leave it there, unless its week is *)
(* reported: no lot is dropped in silence.                                 *)
LotsArriveOrAreReported ==
  \A n \in Nodes, w \in Weeks :
    Done(n, w) /\ ~ Reported(n, w) =>
      \A b \in Policy : \A k \in DOMAIN given.demand[b][n][w] :
        Holds(Supply[b][n][w + setting.lead], given.demand[b][n][w][k])

(* The calls that are to set the supply layer to the plan.                 *)
Overwrites == setting.mode = "replace" /\ setting.policy # "full_clone"

(* A second call with the same demand layer leaves the supply layer as it  *)
(* is, when the mode adds only what is missing or clears what it replaces, *)
(* whatever weeks and buckets cannot be read.                              *)
RepeatChangesNothing ==
  phase = "idle" /\ again /\ (setting.mode = "dedupe_append" \/ Overwrites) =>
    Supply = given.supply

Copies(bucket, lot) == Cardinality({ k \in DOMAIN bucket : bucket[k] = lot })

(* Only appending, and replacing under full_clone, can put a lot into a    *)
(* bucket more often than the plan or the bucket itself had it: replacing  *)
(* leaves it at most as often as one of the two, deduplication adds it     *)
(* only once, where the bucket had none.                                   *)
NoCopiesPileUp ==
  setting.mode = "dedupe_append" \/ Overwrites =>
    \A b \in Names, n \in Nodes, v \in Weeks : \A lot \in LotIds :
      LET w       == v - setting.lead
          planned == IF w \in Weeks THEN Copies(given.demand[b][n][w], lot) ELSE 0
          now     == Copies(Supply[b][n][v], lot)
      IN \/ now <= Copies(given.supply[b][n][v], lot)
         \/ now <= planned /\ (Overwrites \/ now <= 1)

(* The design says that a replacing bridge run twice produces the same     *)
(* supply layer, under every policy.                                       *)
ReplaceIsIdempotent ==
  phase = "idle" /\ again /\ setting.mode = "replace" => Supply = given.supply
=============================================================================
