-------------------------- MODULE ExplicitPipeline --------------------------
(***************************************************************************)
(* The explicit bridge and capacity pipeline,                              *)
(* run_explicit_bridge_capacity_pipeline of                                *)
(* pysi/plan/explicit_bridge_capacity_pipeline.py and the function it      *)
(* wraps, run_e2e_bridge_forward_capacity_smoke.                           *)
(*                                                                         *)
(*   outbound supply_point P                                               *)
(*     --Bridge A-->  inbound supply_point S                               *)
(*     --allocation-->  S of the MOMs                                      *)
(*     --MomBackward-->  P of the MOMs                                     *)
(*     --SupplyBridge-->  supply layer of every node                       *)
(*     --ForwardPush-->  what is made, shipped and kept                    *)
(*                                                                         *)
(* Each stage is the module of its component, working on the tree the      *)
(* stages share.  The pipeline may be run again on the same tree, for the  *)
(* same demand or another; only the results are new then.                  *)
(***************************************************************************)
EXTENDS Integers, Sequences, FiniteSets
LOCAL INSTANCE SequencesExt

CONSTANTS
  Moms,          \* the MOM nodes of the inbound tree
  SupplyPoint,   \* the inbound node "supply_point"
  LotIds,        \* lot identifiers
  NWeeks,        \* the number of weeks of every node
  MaxEarly,      \* max_early_build_weeks
  MaxRuns,       \* bound: how often the pipeline is run
  Sources,       \* what the outbound supply_point may have in P
  Inputs         \* the settings of the stages

Nodes == Moms \cup {SupplyPoint}
Weeks == 0 .. NWeeks - 1
NoLots(nodes) == [n \in nodes |-> [w \in Weeks |-> << >>]]

VARIABLES
  stage,     \* the stage that runs next
  runs,      \* runs started so far
  source,    \* source[w]: P of the outbound supply_point
  aMode, home,
  spS,       \* spS[w]: S of the inbound supply_point, demand layer
  \* the demand layer of the MOMs, and MomBackward
  dS, dP, junkP, bSetting, bPhase, bCalls, bTodo, bCur, bWeek, cap, overflow,
  shifted, backlog, bCount, bUsage, bErrors,
  \* the supply layer
  sS, sCO, sI, sP,
  \* SupplyBridge
  xSetting, xPhase, xCalls, xTodo, xCur, xWeek, copied, skipped, touched, invalid,
  broken, xGiven, again,
  \* ForwardPush
  fSetting, fGiven, fPhase, fCalls, fTodo, fCur, fWeek, started, prev, fCount, fUsage,
  violations, replans, fErrors

pipeline == << stage, runs, source, aMode, home, spS >>
backward == << junkP, bSetting, bPhase, bCalls, bTodo, bCur, bWeek, cap, overflow, shifted,
               backlog, bCount, bUsage, bErrors >>
bridge   == << xSetting, xPhase, xCalls, xTodo, xCur, xWeek, copied, skipped, touched,
               invalid, broken, xGiven, again >>
push     == << fSetting, fGiven, fPhase, fCalls, fTodo, fCur, fWeek, started, prev, fCount,
               fUsage, violations, replans, fErrors >>
supply   == << sS, sCO, sI, sP >>
vars     == << pipeline, dS, dP, backward, supply, bridge, push >>

----------------------------------------------------------------------------
(* The components                                                          *)

Backward ==
  INSTANCE MomBackward WITH
    MaxCalls <- MaxRuns,
    Inputs <- { [s |-> NoLots(Moms), p |-> NoLots(Moms), setting |-> i.backward] : i \in Inputs },
    setting <- bSetting, phase <- bPhase, calls <- bCalls, todo <- bTodo, cur <- bCur,
    week <- bWeek, count <- bCount, usage <- bUsage, errors <- bErrors

NoPlan == [b \in {"S", "CO", "I", "P"} |-> NoLots(Nodes)]

(* The demand layer of all nodes, as the bridge reads it.                  *)
Demand ==
  [S  |-> [n \in Nodes |-> IF n = SupplyPoint THEN spS ELSE dS[n]],
   CO |-> NoLots(Nodes), I |-> NoLots(Nodes),
   P  |-> [n \in Nodes |-> IF n = SupplyPoint THEN [w \in Weeks |-> << >>] ELSE dP[n]]]

Bridge ==
  INSTANCE SupplyBridge WITH
    MaxCalls <- MaxRuns, Plans <- {NoPlan},
    Inputs <- { [supply |-> NoPlan, setting |-> i.bridge] : i \in Inputs },
    demand <- Demand, tS <- sS, tCO <- sCO, tI <- sI, tP <- sP,
    setting <- xSetting, phase <- xPhase, calls <- xCalls, todo <- xTodo, cur <- xCur,
    week <- xWeek, given <- xGiven

Push ==
  INSTANCE ForwardPush WITH
    MaxCalls <- MaxRuns,
    Inputs <- { [s |-> NoLots(Nodes), i |-> NoLots(Nodes), p |-> NoLots(Nodes),
                 setting |-> i.push] : i \in Inputs },
    setting <- fSetting, given <- fGiven, phase <- fPhase, calls <- fCalls, todo <- fTodo,
    cur <- fCur, week <- fWeek, count <- fCount, usage <- fUsage, errors <- fErrors

(* aMode is bridge_a_mode; home is the MOM that allocate_markets_to_moms   *)
(* chooses for each lot (Chosen of MomLeveling); the other fields are the  *)
(* settings of the stages.                                                 *)
IsInput(i) ==
  /\ i.aMode \in {"replace", "append", "dedupe_append"}
  /\ i.home \in [LotIds -> Moms]
  /\ Backward!IsSetting(i.backward)
  /\ Bridge!IsSetting(i.bridge)
  /\ Push!IsSetting(i.push)

(* The stages find the tree as set_plan_range_by_weeks builds it, four     *)
(* lists in each of the NWeeks weeks of both layers of every node, and the *)
(* pipeline leaves the lead time of the bridge at its default.             *)
IsWhole(i) ==
  /\ i.backward.malformed = {} /\ i.backward.noPsi = {}
  /\ i.bridge.lead = 0
  /\ i.bridge.demandSpan = [n \in Nodes |-> NWeeks]
  /\ i.bridge.supplySpan = [n \in Nodes |-> NWeeks]
  /\ i.bridge.noPsi = {}
  /\ i.bridge.shortD = {} /\ i.bridge.shortS = {}
  /\ i.bridge.junkD = {} /\ i.bridge.junkS = {}
  /\ i.push.span = [n \in Nodes |-> NWeeks]
  /\ i.push.bad = {} /\ i.push.noPsi = {}

ASSUME SupplyPointAssumption == SupplyPoint \notin Moms
ASSUME NWeeksAssumption      == NWeeks \in Nat \ {0}
ASSUME MaxEarlyAssumption    == MaxEarly \in Nat
ASSUME MaxRunsAssumption     == MaxRuns \in Nat
ASSUME SourcesAssumption     == Sources \subseteq [Weeks -> Seq(LotIds)]
ASSUME InputsAssumption      == \A i \in Inputs : IsInput(i) /\ IsWhole(i)

----------------------------------------------------------------------------
(* The stages                                                              *)

Init ==
  /\ stage = "start"
  /\ runs = 0
  /\ source \in Sources
  /\ spS = [w \in Weeks |-> << >>]
  /\ \E i \in Inputs :
       /\ aMode = i.aMode /\ home = i.home
       /\ bSetting = i.backward /\ xSetting = i.bridge /\ fSetting = i.push
  /\ Backward!Init /\ Push!Init
  /\ sCO = NoLots(Nodes) /\ Bridge!Init

Holds(bucket, lot) == \E k \in DOMAIN bucket : bucket[k] = lot

(* Bridge A: the outbound supply_point's P becomes the inbound one's S.    *)
BridgeA ==
  /\ stage = "start"
  /\ runs' = runs + 1
  /\ spS' = [w \in Weeks |->
               CASE aMode = "replace" -> source[w]
                 [] aMode = "append"  -> spS[w] \o source[w]
                 [] OTHER             -> Bridge!Merged(spS[w], source[w])]
  /\ stage' = "allocate"
  /\ UNCHANGED << source, aMode, home, dS, dP, backward, supply, bridge, push >>

(* The lots of a bucket that MOM m gets, in their order.                   *)
Homed(bucket, m) ==
  LET upto[k \in 0 .. Len(bucket)] ==
        IF k = 0 THEN << >>
        ELSE IF home[bucket[k]] = m THEN Append(upto[k - 1], bucket[k]) ELSE upto[k - 1]
  IN upto[Len(bucket)]

(* Faulty variants of a definition stand before it, one per fault the      *)
(* properties below must notice.  This: the last week is not allocated.    *)
AllocateButLast ==
  /\ stage = "allocate"
  /\ dS' = [m \in Moms |-> [w \in Weeks |-> 
              IF w = NWeeks - 1 THEN dS[m][w] ELSE Homed(spS[w], m)]]
  /\ stage' = "backward"
  /\ UNCHANGED << runs, source, aMode, home, spS, dP, backward, supply, bridge, push >>

(* The MOMs get the lots in place of those of the last run; the root's own *)
(* demand, which lends its place to the lots, is restored.                 *)
Allocate ==
  /\ stage = "allocate"
  /\ dS' = [m \in Moms |-> [w \in Weeks |-> Homed(spS[w], m)]]
  /\ stage' = "backward"
  /\ UNCHANGED << runs, source, aMode, home, spS, dP, backward, supply, bridge, push >>

PlanBackward ==
  /\ stage = "backward"
  /\ Backward!Next
  /\ stage' = IF bPhase' = "idle" THEN "bridge" ELSE stage
  /\ UNCHANGED << runs, source, aMode, home, spS, supply, bridge, push >>

BridgeB ==
  /\ stage = "bridge"
  /\ UNCHANGED << runs, source, aMode, home, spS, dS, dP, backward, push >>
  /\ Bridge!Next
  /\ stage' = IF xPhase' = "idle" THEN "push" ELSE stage

PushForward ==
  /\ stage = "push"
  /\ Push!Next
  /\ stage' = IF fPhase' = "idle" THEN "done" ELSE stage
  /\ UNCHANGED << runs, source, aMode, home, spS, dS, dP, backward, sCO, bridge >>

(* The planner runs the pipeline again, for the same demand or another.    *)
RunAgain ==
  /\ stage = "done"
  /\ runs < MaxRuns
  /\ source' \in Sources
  /\ stage' = "start"
  /\ UNCHANGED << runs, aMode, home, spS, dS, dP, backward, supply, bridge, push >>

Next ==
  \/ BridgeA \/ Allocate \/ PlanBackward \/ BridgeB \/ PushForward \/ RunAgain

Spec == Init /\ [][Next]_vars

----------------------------------------------------------------------------
(* Properties                                                              *)

Replanned(m, lot) ==
  \E r \in replans : r.node = m /\ r.type = "P" /\ Holds(r.lots, lot)

(* The design promises that demand-anchored lots do not disappear: at the  *)
(* end of every run each lot that came in is made by its MOM, or named by  *)
(* a replan command, or backlogged, across all stages and whatever earlier *)
(* runs left in the tree.                                                  *)
NoLotDisappears ==
  stage = "done" /\ "P" \in Bridge!Policy =>
    \A w \in Weeks : \A k \in DOMAIN source[w] :
      LET lot == source[w][k]
          m   == home[lot]
      IN \/ \E v \in Weeks : Holds(sP[m][v], lot)
         \/ Replanned(m, lot)
         \/ \E b \in backlog : b.mom = m /\ b.lot = lot

(* The number of lots in buckets b of node n up to week w.                 *)
Lots(b, n, w) ==
  LET upto[v \in Weeks] == Len(b[n][v]) + IF v = 0 THEN 0 ELSE upto[v - 1]
  IN upto[w]

StockUncut(n) ==
  fSetting.mode = "soft" \/ \A w \in Weeks : << n, "I", w >> \notin DOMAIN fSetting.cap

(* What is executed is this run's plan and no other: when the bridge       *)
(* replaces, production and shipments are the plan's, only cut short at    *)
(* their end, and the stock is what was made and not shipped, less what a  *)
(* hard limit cut: no shipment and no stock of an earlier run is left.     *)
ExecutionFollowsPlan ==
  stage = "done" /\ Bridge!Overwrites =>
    \A n \in Nodes, w \in Weeks :
      /\ IsPrefix(sP[n][w], Demand.P[n][w])
      /\ IsPrefix(sS[n][w], Demand.S[n][w])
      /\ LET balance == Lots(sP, n, w) - Lots(sS, n, w)
         IN Len(sI[n][w]) <= balance
            /\ (StockUncut(n) => Len(sI[n][w]) = balance)

(* The push limits neither shipments nor stock, and production no more     *)
(* than the planning did.                                                  *)
PushAsFreeAsPlan ==
  \A k \in DOMAIN fSetting.cap :
    /\ k[2] = "P"
    /\ k[1] \in Moms => fSetting.cap[k] >= Backward!ResolvedCapacity(k[1])[k[3]]

(* On a clean tree the push executes the whole plan when it has the        *)
(* capacity the plan was made for: it cuts no production, and up to every  *)
(* week it cuts no more shipments of a MOM than the planning has           *)
(* backlogged lots that were due by then.                                  *)
ShortfallIsBacklog ==
  /\ stage = "done" /\ runs = 1
  /\ xSetting.policy # "s_only"
  /\ PushAsFreeAsPlan
  => \A m \in Moms, w \in Weeks :
       /\ sP[m][w] = dP[m][w]
       /\ Lots(dS, m, w) - Lots(sS, m, w)
            <= Cardinality({ b \in backlog : b.mom = m /\ b.week <= w })
=============================================================================
