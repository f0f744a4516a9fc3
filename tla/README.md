# A verification project for the Weekly Operation Model (WOM)

WOM plans a supply chain week by week. Its unit is the *lot*, a string
identifier. Every node of a tree has, per week, four buckets of lots: shipments
`S`, carry-over `CO`, inventory `I` and production `P`, once in a demand layer
(`psi4demand`, the plan) and once in a supply layer (`psi4supply`, what is
executed). Planning stages move lot identifiers between weeks, nodes and layers.

Nearly all of it is synchronous Python on one thread. A planning stage is a loop
over nodes and weeks that rewrites in place what later iterations, later stages
and *later calls* read: lists are cut by position, appended to and aliased, weeks
are unreadable or missing, capacities are absent, negative or short, and the
planner runs the same functions again on the tree of the last run. Two parts
are hard in another way: the planning run on SQLite commits many transactions
and can be killed between any two of them, and the replay of the cockpit is a
set of timers and buttons on Tk's event loop. The properties below are about
long sequences of steps, calls, crashes and callbacks: no lot is lost or
multiplied, capacities hold of weeks that are still being filled, reports say
what happened to the tree, a second run finds its way through the leavings of
the first.

Paths are relative to the repository's root.

## 1. Inventory

### Modelled

**Capacity-aware backward planning**, `pysi/plan/capacity_aware_inbound_backward.py`.
State: `S` and `P` of the MOM nodes, a result (shifted lots, backlog, usage,
errors, counters). One operation: copy the demand of each week to production,
then trim each week to its capacity and move what is too much to an earlier week
or to the backlog. Hard: weeks already checked go on filling from later weeks;
`P` is appended to, so a second call finds its own plan; malformed weeks.
Correct when: capacities hold of every checked week, no lot is lost, a lot is
backlogged only when its window is full, the usage table is the plan.

**Weekly forward push**, `pysi/plan/weekly_forward_push_with_capacity.py`.
State: the supply layer, a result (usage, violations, replan commands, counters).
Cuts production and shipments to capacity and stock, and carries inventory on.
Hard: the inventory of a week is what the last *readable* week ended with; a
second push starts from inventories the first one wrote; stock is reduced by
count. Correct when: capacities hold, every cut is reported and was necessary,
inventory balances and invents no lot.

**MOM allocation and leveling**, `pysi/plan/engines.py` 659-764 and 1370-1659.
State: `S` of the MOMs, a working copy, result maps. `allocate_markets_to_moms`
gives each lot to a MOM of its market's policy; `level_mom_demand_with_capacity`
moves what is beyond a MOM's capacity to another MOM of the policy in the same
week, or drops it as backlog. Hard: MOMs not yet visited receive lots and must
keep their own first; the result maps must agree with the tree; calls repeat.

**Bridge B**, `pysi/plan/bridges/demand_to_supply_execution_bridge.py`. Copies
demand buckets to the supply layer by policy (which buckets) and mode (replace,
append, append without duplicates), perhaps shifted by weeks. Hard: leftovers,
unreadable buckets half way through a week, repetition.

**Explicit pipeline**, `pysi/plan/explicit_bridge_capacity_pipeline.py` with
`bridges/e2e_bridge_forward_capacity_smoke.py`, **Bridge A** and the **allocation
adapter** in the same directory. Five stages on one tree:

    outbound supply_point P --Bridge A--> inbound supply_point S --allocation-->
    S of the MOMs --backward planning--> P of the MOMs --Bridge B--> supply layer
    --forward push--> made, shipped, kept

Hard: what one stage leaves out or orders differently, the next misreads.

**Inbound tree planning**, `pysi/plan/engines.py` 147-233 on
`pysi/network/tree.py` and `node_base.py`. Down the tree each node makes its lots
a safety stock earlier than it ships them and asks its suppliers a lead time
earlier still, avoiding vacation weeks; the plan is cloned to the supply layer
and inventories are computed up the tree. Hard: offsets add up over levels,
vacations merge weeks, indices run out of the horizon, `P` is never cleared.

**Push/pull of the outbound tree**, `pysi/plan/engines.py` 36-47, 239-525, 769-947 and
`node_base.py`. State: the supply layer of the outbound tree, the decoupling
nodes. What the MOMs ship is handed to the DADs (distribution centres); each DAD's
subtree is pushed above its decoupling nodes and pulled below them. The planner
names the decoupling nodes or `make_nodes_decouple_all` looks for them by
raising a list of nodes from the leaves to the root. Hard: a plan with other
decoupling nodes was there before; lists are edited node by node and must stay
cuts; lots whose leaf is unknown.

**Planning run on SQLite**, `pysi/app/orchestrator.py`, `etl/etl_monthly_to_lots.py`,
`db/calendar_sync.py`, `db/calendar_iso.py`, `io/psi_io_adapters.py`,
`io/tree_writeback.py`. State: six tables; the process's place among its
transactions. Hard: crashes between transactions, retries, two scenarios that
share tables, a shared calendar.

**Business animation replay**, `pysi/gui/business_animation/animation_controller.py`
and `business_animation_panel.py`. State: snapshots, index, playing flag, speed,
the remembered timer; Tk's pending timers; the view. Operations: Play, Pause,
Stop, steps, speed, mode, selection, refresh by the cockpit, tick. Hard: the
controller remembers one timer and Tk may have more; a refresh replaces the
snapshots under a pending tick.

**Event kernel**, `pysi/core/kernel/minimal_kernel.py`. State: the list of flow
events (the plan) and the views derived from it. `run` derives the state,
answers the first stockout with three events, and repeats. Hard: every
iteration re-derives all; an operator for one market may take from another;
iterations run out.

The cockpit (`pysi/gui/cockpit_tk.py`, `run_full_plan`) calls the stages:
allocation, leveling, the explicit pipeline behind a flag, inbound tree
planning, the hand-off to the DADs and push/pull. It then refreshes the replay.
The SQLite run and the kernel are separate programs that share the notion of
lots and weeks.

### Not modelled, and why

| Part | Why |
|---|---|
| Aggregation helpers (`plan/operations.py`, `plan/engine_hardening.py`) | no stage calls them: `Node` and `PlanNode` have no methods of these names; the tests use stand-in nodes |
| Bucket capacity planner (`planning/`) | superseded by `weekly_forward_push_with_capacity.py`, called only by its own runners and tests |
| Full-plan sequence (`gui/cockpit_tk.py`, `wom_main.py`) | its stages are modelled one by one, and five of them together in `ExplicitPipeline`; the order of all of them on one pair of trees would be too large an instance for TLC |
| Scenario runner (`app/scenario_runner.py` 137-141, `headless_run.py` 23) | calls `sync_calendar_iso` with keywords it does not have and ends with a `TypeError` before it plans |
| Run store (`scenario/store.py`) | one insert per table |
| PSI state export (`io/psi_state_io.py`) | nothing acts on a wrong hash (it is only logged): there is no recovery to check |
| Plugin pipeline, hook bus (`core/`) | order and effects are those of the plugins a site installs |
| Event bridge, costing, evaluation | arithmetic on real quantities |
| Capacity masters, input adapters, reports, views | parsing, tables, drawing; no state that planning reads back |
| `gui/app.py`, `psi_planner_mvp/`, `optimise/`, `tutorial/`, dated copies | predecessors, experiments and back-ups, most of the repository's lines; not part of the running system |

`PROJECT.json` lists each with its sources.

## 2. Modules

| Module | Models | Composition |
|---|---|---|
| `LotLedger` | abstract: what any stage promises about lots | implemented by `MomBackward` and `MomLeveling` |
| `MomBackward` | backward planning | in `ExplicitPipeline` |
| `ForwardPush` | forward push | in `ExplicitPipeline` |
| `SupplyBridge` | Bridge B | in `ExplicitPipeline` |
| `MomLeveling` | allocation and leveling | |
| `ExplicitPipeline` | Bridge A, allocation adapter, sequence and rerun | instantiates `MomBackward`, `SupplyBridge` and `ForwardPush` on one shared tree |
| `InboundTree` | planning below the MOMs | |
| `RisingCut` | abstract: a cut through a tree, raised to the root | implemented by `PushPull` |
| `PushPull` | hand-off to the DADs, push/pull, decoupling nodes | |
| `ReplayHead` | abstract: a player of weekly frames | implemented by `Replay` |
| `Replay` | the replay's controller, panel and timers | |
| `PlanStore` | the planning run on SQLite, with crashes | |
| `PlanningKernel` | the event kernel | |
| `MC*` | instances for TLC | |
| `*Proofs` | theorems | extend `MomBackward`, `ForwardPush`, `MomLeveling`, `SupplyBridge`, `ExplicitPipeline`, `PushPull`, `PlanStore`, `Replay` |

Common conventions. `dX[n][w]` is `node.psi4demand[w][X]`, `sX[n][w]` is
`node.psi4supply[w][X]`; a bucket is a sequence of lots (in `PushPull` and
`PlanStore` a set). What a call finds and never changes (capacity tables, modes,
unreadable weeks, nodes without lists, lengths) is one record `setting`, chosen
in `Init`. `phase` and the loop variables are the program counter of the
synchronous function; `calls` or `runs` counts calls and is bounded by
`MaxCalls`/`MaxRuns`. `given`, `plan`, `before`, `settled` and `touched` are history
for properties. Loops over nodes visit them in any order, because the code takes
the order from the tree; where the order matters (names of MOMs, weeks, children
in the search for leaves) it is the code's.

Definitions marked "Fault" are variants of the definition after them, each with
a plausible bug. No specification uses them. Putting one in place of its
original makes the property that `PROJECT.json` names with it fail, which shows
that the property can notice the bug within the run's bounds.

**MomBackward.** `Call` resets the result. `SkipMom`/`BeginMom`: a node without
`psi4demand`, or its capacities resolved from the product's, the node's and the
default table. `SkipWeek`/`PlanWeek`: first pass. `CheckRaises`: a malformed
week, which the first pass only reports, is indexed unguarded by the second
(line 120) and the call raises; the model ends there, so no later call on the
half-planned tree is looked at. `CheckWeek`, `ShiftEarlier`, `RecordBacklog`,
`NextCheckWeek`: second pass, one step per lot. `EndMom`: usage table. `Return`.

**ForwardPush.** `Refuse` (unknown inventory mode), `Call`, `SkipNode`/`BeginNode`,
`SkipWeek` (unreadable), `PushWeek` (everything the code does to one week),
`Return`. Python's slices with negative bounds are `SliceTo`/`SliceFrom`; the
inventory limit is the one capacity that reaches them unclamped.

**MomLeveling.** `Allocate`, `AllocateLot`, `NextAllocateWeek`; `Level` (deep copy),
`WithinCapacity`/`SplitWeek`, `MoveLot`/`BacklogLot`, `EndWeek`, `WriteBack`. Of the two
definitions of `level_mom_demand_with_capacity` in the file the second is the
one Python keeps, and the one modelled.

**SupplyBridge.** `Replan` (a planner leaves another plan), `Refuse`, `Call`,
`SkipNode`/`BeginNode`, `SkipWeek`, `ClearOnly`, `CopyWeek` (bucket after bucket,
stopping at the first that is no list), `Return`.

**ExplicitPipeline.** `BridgeA`, `Allocate`, and `PlanBackward`, `BridgeB`,
`PushForward`, whose steps are the `Next` of the instantiated components on shared
variables; `RunAgain` starts over with the same or another demand on the tree
as it is.

**InboundTree.** `Call` (new `S` of the MOMs, nothing else cleared),
`PlanNode` (parents before children), `Clone`, `StockNode` (children before
parents), `SeedSupply` and a second round of `StockNode`: steps 3, 3.5 and 4 of
the cockpit.

**PushPull.** `RunFullPlan` (new shipments of the MOMs, a selection of decoupling
nodes, `calcS2P` of the outbound tree), `HandOff` (`allocate_lots_to_dads`), then per
DAD `PlanSelected`, or `FindCandidates`, `Climb` (one round of the loop of
`make_nodes_decouple_all`) and `ChooseDecouple`; then the recursion of
`push_pull_all_psi2i_decouple4supply5` as a list of pending calls: `Push`,
`Decouple`, `Pull`; `EndDad`, `Finish`. The list of `Climb`, read as a set,
implements `RisingCut`.

**PlanStore.** One action per transaction: `EtlRegister`, `EtlLots`, `SyncCalendar`,
`DeleteSlice`, `InsertSlice`; and the steps in memory between them: `Start` (a command
line), `SkipCalendar`, `FindPairs`, `LoadPair` (load the leaf and compute its plan),
`Finish`. Exceptions: `CalendarRaises`, `NoScenario`, `PairRaises` (tree mode goes on
with the next pair), `RunRaises`. `Crash` may take the place of any step; the
tables keep what was committed.

**Replay.** One action per callback: `OnPlay`, `OnPause`, `OnStop`, `OnForward`,
`OnBack`, `OnSpeedChanged`, `OnModeChanged`, `OnNodeSelected`, `SetContext`
(the cockpit's refresh, also with a plan whose snapshots cannot be built);
`Elapse` is Tk's clock; `Tick` is the callback of a timer that is due, of whichever
chain: `IgnoreTick`, `TickForward`, `TickAtEnd`.

**PlanningKernel.** `Call`/`CallRaises`; `run_flow` as `MoveInventory` (the events of
a bucket), `Serve` (one demand), `EndBucket`; the loop as `Resolve` (detect,
generate, apply) and `Return`.

**LotLedger.** A lot is in the slot it is due in; it may move once, to an
alternative slot with room; it may be postponed only when its own slot and all
alternatives are full; at the end no slot holds more than its capacity.
`MomBackward` implements it with (MOM, week) slots and earlier weeks as
alternatives, `MomLeveling` with the same week at other MOMs. The refinement
mappings are at the end of the two modules: `MomLeveling` implements it for every
demand that has each lot once, `MomBackward` in the first call on a `Fresh` tree
(each lot once in the demand, every week readable, and nothing planned yet).

**RisingCut.** A cut through a tree starts at the leaves and rises: a deepest node
gives way to its parent together with all its siblings.

**ReplayHead.** A head on a list of weeks, without timers: it moves by itself one
week at a time and only while it plays, stops by itself only on the last week,
and goes on while it plays.

## 3. Runs

| Run | Question | Properties |
|---|---|---|
| `mom_backward` | Do capacity, completeness, the early-build window and the report hold over two calls and on dirty data, and is a first call on a fresh tree the ledger? | `TypeOK`, `CapacityRespected`, `NoLotDisappears`, `BacklogOnlyWhenFull`, `ShiftedToLatestRoom`, `UsageIsThePlan`, `KeepsTheLedger` |
| `mom_backward_window` | Is a lot given up only when the whole window that was asked for is full? | `RequestedWindowFull`: **violated** |
| `forward_push` | Capacities, reports, necessity of cuts and inventory, over two pushes | `CapsRespected`, `CutLotsReported`, `CutOnlyWhenForced`, `StockHasOrigin`, `StockContinues` |
| `mom_leveling` | One place per lot, own lots first, true maps, the ledger | `OwnLotsFirst`, `EachLotAllocatedOnce`, `FinalMomIsTrue`, `KeepsTheLedger` |
| `supply_bridge` | Arrival or report, harmless repetition, bounded copies | `LotsArriveOrAreReported`, `RepeatChangesNothing`, `NoCopiesPileUp` |
| `supply_bridge_replace` | Is every replace mode idempotent? | `ReplaceIsIdempotent`: **violated** |
| `explicit_pipeline` | Lots and plans across stages and a rerun | `NoLotDisappears`, `ExecutionFollowsPlan`, `ShortfallIsBacklog` |
| `inbound_tree` | Right weeks at every depth, inventory is safety stock, rerun | `DemandArrivesOffsetEarlier`, `InventoryIsSafetyStock`, `RerunKeepsLots` |
| `push_pull` | Does each node get what its place calls for, on a tree with older plans? Are the candidates cuts? | `SupplyFollowsDecoupling`, `StockIsCurrent`, `MomLotsReachOneDad`, `DefaultDecoupling`, `RaisesACut` |
| `plan_store` | What do crashes, retries and other scenarios leave? | `CompletedRunIsCurrent`, `SliceIsWhole`, `RerunChangesNothing` |
| `replay` | Does the replay freeze, show a wrong week, or never end? | `PlayingHasATick`, `ShownIsCurrent`, `ImplementsReplayHead`, `ReplayEnds` |
| `planning_kernel` | Do the books balance, and does curing cure? | `BooksBalance`, `CuringHarmsNobody`, `StockoutCured` |

All but two hold. `mom_backward_window` contradicts
`src/docs/codex_requests/capacity_aware_inbound_backward_planning_tobe_request.md:323-329`,
which searches the weeks `w-1` to `w-max_early_build_weeks`, the last one included:
the range of the code (`capacity_aware_inbound_backward.py:138`) ends before it, and a
lot becomes backlog while that week has room. The properties of `mom_backward`
measure the window by `MaxEarly` and not by the code's range: a lot given up has
found the `MaxEarly - 1` weeks before its own full, a lot built early is
at most `MaxEarly` weeks early. `supply_bridge_replace` contradicts
`src/docs/design/demand_to_supply_execution_bridge_completion.md:170-174`: replace
mode under `full_clone` clears nothing and doubles every bucket when it is called
twice, where the document says that it is idempotent.

### Bounds, and why they are enough

* *Backward planning*: `MaxEarly` is 3, so the window the code searches has up to two
  weeks, and the one asked for up to three. 5 weeks leave one before either for
  the lots of the last week, so that a search that goes too far back shows as well
  as one that stops too early. 4 lots of one MOM in every spread over 4 of the weeks,
  with capacities 0 and 1 and one week of 2: overflow that lands one or two weeks
  back, full windows, and lots of one week going to different weeks. A second MOM,
  2 calls, so that a call finds a plan of an earlier one, and every kind of malformed
  input.
* *Forward push*: 3 weeks are a first, a middle and a last one, so an unreadable
  week has readable neighbours; 5 lots; capacities -1, 0, 1, 2 per type, and -2
  for inventory, so that a negative hard limit takes all or some of the stock;
  2 nodes of different length; 2 pushes.
* *Leveling*: 3 MOMs are needed for one to receive before, at and after its own
  turn; 2 markets for two preference orders; 3 calls for allocation after
  leveling after allocation.
* *Bridge B*: shifts -1, 0, 1 over 3 weeks with lists of length 0, 2, 3; 2 calls.
* *Pipeline*: 2 MOMs and the supply_point, 3 weeks, 4 lots of which 3 belong to one
  MOM with one lot of room a week, 2 runs, all combinations of the bridge modes.
* *Inbound tree*: a chain of three and a sibling; 7 weeks leave room for the sum of
  all offsets on the chain (at most 4) and still let edge weeks happen; vacations
  none, one week, two weeks in the middle, and from the first week on; 2 runs.
* *Push/pull*: ten nodes with leaves at two depths, so that the list of the search
  holds nodes of several depths at once; a DAD under a DAD, a DAD with a chain
  and one with a fan; lots without a leaf and with an unknown one; full plans
  without limit, so every plan is made over every other one.
* *Store*: a file, a revision of it with fewer lots and the file of the next year;
  both scenarios; command lines with and without `--csv`, leaf and tree; the lots
  of a year reach into the next, so that two files name the same lot. Runs and
  crashes are not bounded: the state space is finite by itself.
* *Replay*: plans of 2, 3 and 0 snapshots, so that a refresh shortens, lengthens
  and fails; up to 3 timers, so that there are two lost ones beside the remembered
  one; two speeds. Clicks and ticks are not bounded.
* *Kernel*: up to 3 iterations, 3 markets and makers, 3 weeks of demand and lead
  times 0 to 2, so that what an operator orders arrives in the same week, before a
  later demand, or after the last.

`CHECK_DEADLOCK FALSE` where the bounded number of calls is used up, the planner
is simply not called again, or a call of the kernel has returned. In `replay`,
`plan_store` and `push_pull` there is always something to do, and deadlock is
checked.

## 4. Fairness and liveness

Only `Replay` states fairness: `WF(Elapse)` and `WF(Tick)`. Time passes, and Tk's
event loop runs a timer that is due. Nothing is assumed of the users and of the
cockpit, who may click and refresh for ever. `ReplayEnds`: if refreshes cease,
a replay that plays stops playing. Without the premise it does not hold, since
each refresh sets the index back to 0 and leaves the timer running.
`ImplementsReplayHead` includes the fairness of the abstract head (`KeepsMoving`):
while it plays it moves, although lost timers tick in between. Strong fairness is
not needed: an enabled tick can be disabled only by Pause, Stop or a step, which
end playing, or by firing.

The other specifications are `Init /\ [][Next]_vars`. They are loops over finite
lists, or in `PlanStore` a process that anybody may kill; safety is what can go
wrong there.

## 5. Proofs

For every value of the constants that satisfies the named assumptions: any
number of nodes, weeks, lots, calls, crashes, timers, any capacities, any
malformed input.

| Module | Theorems |
|---|---|
| `MomBackwardProofs` | `TypeCorrect`, `Capacity`, `NoLotLost`, `WorkConserving` (`BacklogOnlyWhenFull`), `ShiftsAreLatest`, `UsageTrue`, `CheckedWeeksGrow`, `LedgerKept` |
| `ForwardPushProofs` | `TypeCorrect`, `Capacities`, `CutsAccounted` (`CutLotsReported`), `CutsAreForced`, `InventoryBalances`, `NoLotInvented` |
| `MomLevelingProofs` | `TypeCorrect`, `OwnLotsStay`, `AllocatedOnce`, `FinalMomTrue`, `LedgerKept` |
| `SupplyBridgeProofs` | `TypeCorrect`, `BridgedAsPlanned`, `NoLotDropped`, `RepeatsAreIdle`, `CopiesBounded` |
| `PushPullProofs` | `TreeIsTree`, `TypeCorrect`, `SearchRaisesACut`, `EachListIsACut`, `DefaultIsDadOrChildren`, `SupplyAsDecoupled`, `StockAsPlanned`, `EachLotReachesOneDad` |
| `PlanStoreProofs` | `TypeCorrect`, `CompletedIsCurrent`, `SlicesAreWhole`, `RerunsAreIdle` |
| `ReplayProofs` | `TypeCorrect`, `NeverFrozen`, `ViewIsCurrent`, `StepsOfThePlayer` |
| `ExplicitPipelineProofs` | `NoLotLost` (`NoLotDisappears`), `PlanIsExecuted` (`ExecutionFollowsPlan`), `ShortfallIsPlanned` (`ShortfallIsBacklog`) |

Every passing run but `planning_kernel` and `inbound_tree` thus has all of its
safety properties proved.

Inductive invariants. None of the properties is inductive alone.

* *Capacity* needs `PlanningInv`: while a node is planned, the list of capacities
  in use is the one resolved for that node. A checked week only grows by
  `ShiftEarlier`, which is guarded by room (`BucketStep` says what a step can do to
  one bucket; the rest is that a week becomes checked only when it was just cut).
* *NoLotLost* needs `OverflowInv`: lots wait in `overflow` only during placement,
  so that leaving that phase loses none. The argument follows one lot: built
  (`BuiltLotStep`) or waiting (`WaitingLotStep`).
* *WorkConserving* and *ShiftsAreLatest* add `RecordsChecked`: every backlogged or
  shifted lot comes from a checked week. Checked weeks are never trimmed again in a
  call, so a week that was full when a lot was refused stays full (`FullKept`). The
  invariant speaks of the range the code searches (`WindowsFull`, `ShiftsInWindow`);
  the properties, which speak of `MaxEarly`, follow from it.
* *UsageTrue* needs that a node whose table is written is no longer in `todo`, so
  that no later step of the call touches its buckets (`UsageInv`).
* *LedgerKept* of `MomBackward` needs to know where every lot is in every state of
  the first call (`FirstCallInv`): not yet planned, built in one bucket of its MOM,
  waiting in `overflow`, or given up (`PlaceInv`), and each of these once. From that
  the mapped `place` is a function of the tree, and the load of a slot is the length
  of its bucket, plus the queue if its week is being trimmed (`LoadOfSlot`). One step of
  the code then changes the place of one lot, or of none.
* *Capacities* says of production and shipments that a negative limit counts as
  zero, and of a negative hard inventory limit what it does instead (`HardStock`,
  from `NegativeLimit`, the arithmetic of such a slice). *Capacities* and
  *CutsAccounted* need `Untouched`: a week not yet pushed is as
  the push found it, so the history variable speaks of the right buckets; and
  `RecordsPushed`: every command is about a pushed week, so no later step can
  make it false. `SlicesJoin` is the lemma about Python's slices at the heart of it:
  `q[:n] + q[n:] = q` for every integer n.
* *InventoryBalances* and *NoLotInvented* need `PrevInv`: the carried inventory is
  the ending inventory of the last pushed week, all weeks in between being
  unreadable.
* *OwnLotsStay* says, week by week, what has happened to a MOM before, at and
  after its turn. `LeastOfNat` (a set of naturals that is not empty has a least
  member) is proved from the well-foundedness of strict subsets, because the
  library's induction theorems take an operator, which the provers cannot
  instantiate.
* *AllocatedOnce*: the copies of a lot are counted. The spots already given plus the
  copies still waiting are the copies at the root (`AllocatedInv`).
* *FinalMomTrue* follows each lot that the leveling finds once: it is kept in the
  working copy, waits in the queue of the week in turn, or is gone and recorded as
  such (`FinalInv`); a guest stands behind the MOM's own lots (`GuestInv`); the tree
  is as given until the write-back, and as the working copy after it (`WrittenInv`).
  *LedgerKept* of `MomLeveling` uses the same invariants: with them the mapped place
  of a lot is `final`, and a slot's load is the length of a bucket plus the queue.
* *SupplyBridge*: `CallInv` places the program counter, `WriteInv` says what every
  bucket of the supply layer is at each point of a call (what policy, mode and shift
  make of it once its week is done, as the call found it before that), `ReportInv`
  that a week done without a report was copied to the end, `AgainInv` that a call
  that repeats another has nothing left to change. `BridgedAsPlanned` is `WriteInv`
  itself; the other theorems follow from the four.
* *PushPull*. `TreeIsTree` derives the ancestors-and-depth description `IsTree` that
  `RisingCut` is about from `TreeAssumption` (children, one parent, all below the
  root). Ancestors and subtrees are least fixed points over finite sets (`UpTo`,
  `Iterates`), so that induction over a set of numbers replaces the induction
  theorems. With `TypeInv`, which adds to the types that the list of the search is
  sorted and without repetition (`ListInv`), each `Climb` is a `Rise`, and so every
  list is a cut. The depth is what this needs (`RaisedIsACut`): the node that gives way
  is a deepest one, so all of its siblings' subtrees have given way before.
  `DefaultIsDadOrChildren` adds that no list leaves the subtree of its
  DAD until it holds the DAD itself (`DadInv`), and that the list before the root's
  is that of the root's children (`RootInv`). `SupplyAsDecoupled` and `StockAsPlanned`
  need `RunInv`: a node no pending call comes to has its final buckets, any other
  these or the ones from before, and a call pulls exactly below the decoupling nodes.
  `EachLotReachesOneDad` needs `SeedInv`: from the hand-off on a DAD under no other
  DAD produces its seeds and nothing else.
* *CompletedIsCurrent*: the pairs of a run that are no longer in `todo` hold the
  plan, because the tables from which it is computed do not change once the pairs
  are known, and between `DeleteSlice` and `InsertSlice` the slice is empty.
  Crashes end the premise: nothing is claimed of a run that did not end.
  *RerunsAreIdle* adds what a completed run leaves settled (`SettledInv`: scenario,
  lots, calendar and slices are those of its command line, and everything else is
  as it was), and how far the run now under way has come (`RunInv`), so that the
  same command line writes only what is there, wherever it is cut off.
* *NeverFrozen* is inductive with the types. *ViewIsCurrent* needs that the index is
  inside the snapshots or 0. *StepsOfThePlayer* proves `Player!Moves`, the safety
  part of the refinement, with `TypeOK` and the index bound.
* *ExplicitPipeline*. The stages are instances of components proved about already,
  on shared variables. `TypeInv` and `TurnsInv` say that a component runs in its own
  stage only; `RunInv` is what the one that runs keeps, and its steps come from the
  components' own proof modules, instantiated in the same way. *NoLotLost* follows
  one lot from stage to stage (`LotInv`): bridged, allocated to its MOM, planned or
  backlogged, found by the push, made or replanned.
  *PlanIsExecuted* needs that a bridge that replaces hands over this run's plan and
  nothing else (`ExecutionInv`: `FreshPlan`). The stock of a week is a sum over all
  weeks before it. `StockBegins` and `StockContinues` of the push give the balance of
  the first week and of two neighbours, and a least week that breaks it would have a
  neighbour before it. The sums are recursive functions; `LotsRecur` shows that they
  satisfy their equation.
  *ShortfallIsPlanned* adds an account of the trimming (`TrimInv`, in
  `MomBackwardProofs`): each lot of a MOM is in one place, a backlogged one in none,
  and up to every week demand exceeds production by no more than the backlog due by
  then and the lots that wait. Lots move to earlier weeks only, so a move never makes
  an earlier sum smaller. `FirstInv` carries it through the stages of the first run:
  empty lists before it, the plan in the supply layer after the bridge, and a push
  that finds every bucket within its capacity.

Assumptions. The named `ASSUME`s of the modules, which TLC evaluates on every run:
finite sets, naturals, inputs of the right type, a tree that is one. `LedgerKept` of
`MomBackward` is about the inputs that are `Fresh`: on the tree of an earlier plan a
lot may stand in two weeks, and then there is no ledger to keep. Its hypothesis
`FreshIsUnplanned`, which the inputs of `mom_backward` satisfy, is that such a tree
has no production yet. `ShortfallIsPlanned` has one too
(`EachLotOnce`): no demand names a lot twice, as the generators number them
(`plan/demand_generate.py:228`, `adapters/lot_generation.py:46-62`); those of the run satisfy
it. The stages of `ExplicitPipeline` find the tree whole (`IsWhole`), four lists in
every week of both layers, as `set_plan_range_by_weeks` builds it.

Only model-checked. Liveness (`ReplayEnds`, the fairness in `ImplementsReplayHead`):
out of the prover's reach. Not taken up: `InboundTree` (`DemandArrivesOffsetEarlier`,
`InventoryIsSafetyStock`, `RerunKeepsLots`: offsets add up along a recursion over the
tree) and `PlanningKernel` (`BooksBalance`, `CuringHarmsNobody`, `StockoutCured`: sums over
the list of events). `RequestedWindowFull` and `ReplaceIsIdempotent` are violated.

## 6. Abstractions

* A lot is a model value or a record; its market (`market`, `home`, `LeafOf`) is a
  function, not parsed from the identifier.
* Entries of a bucket that are no strings are a flag of the week (`junkP`), except
  where the code looks at them.
* Debug output, trace emission and the wording of messages are left out.
* All nodes of a tree have the same number of weeks in `MomLeveling`,
  `ExplicitPipeline`, `InboundTree` and `PushPull`, as `set_plan_range_by_weeks` builds
  them; `ForwardPush` and `SupplyBridge` allow them to differ. (The pull copies
  53 weeks per year of the plan range and raises when the lists are shorter,
  `plan/engines.py:241`; in the model they are that long.)
* *InboundTree*: the list that a supplier shares with its parent is copied. In one
  run the parent has finished it before sharing; the next run shares the same weeks.
* *PushPull*: a bucket is a set of lots, since all comparisons are by membership;
  vacations are left out (they are in `InboundTree`); DADs are planned in any order,
  by name in the code.
* *PlanStore*: a file is the set of lots it makes; quantities and lot sizes are left
  out, and so are the staging table, the options `--plan-year-st` and `--plan-range`,
  and the bounds 2025/1 that `orchestrator.py:85-89` falls back to when it cannot read
  the file: `CalendarBounds` are those of the file or of the scenario. The process is one; two on one database are
  not modelled. The vacations of nodes are ignored because the code ignores them:
  `io/tree_writeback.py:222` uses `json`, which the module does not import.
* *Replay*: intervals are steps of a clock; a timer may fire late but not early.
  Closing the window and the lot viewer's own player are not modelled.
* *PlanningKernel*: a bucket is the number of its week, in years of 52 weeks as
  `advance_time_bucket` has them; quantities are integers; scores are left out.

## 7. Where code and documents differ

Met while modelling. The models follow the code. The first two are the violated
runs, the third is part of `CapsRespected`; no property is stated of the others.

* Replace mode under `full_clone` (section 3).
* The window of early building is one week shorter than asked for (section 3). With
  `max_early_build_weeks = 1` nothing is built early.
* A hard inventory limit is meant to leave the first `cap_I` lots
  (`src/docs/design/weekly_forward_push_with_capacity_psi_engine.md:431-436`). A negative
  limit, which the documents do not treat, is not clamped like those of production
  and shipments: `weekly_forward_push_with_capacity.py:169,174` slice from the end, so
  -2 takes the last two lots off and leaves the others, above any limit. The report
  names the lots taken. `HardStock` says so.
* A pushed week starts from its *own* inventory when the previous one ended
  empty (`weekly_forward_push_with_capacity.py:141`); the request
  (`src/docs/codex_requests/weekly_forward_push_with_capacity_psi_engine_request.md:333`)
  starts from the previous ending. In a second push the first push's ending
  inventory counts again.
* Stock is reduced by count (`:165`): a shipped lot may stay in stock and another,
  never shipped, disappear. `src/docs/design/weekly_forward_push_with_capacity_psi_engine.md:416,420`
  speaks of the shipped lots. `StockHasOrigin` and `StockContinues` are what does hold.
* Lots cut at the inbound supply_point, which ships and never produces, are
  reported as "blocked by capacity" with no capacity given
  (`e2e_bridge_forward_capacity_smoke.py:159`).
* `calendar_iso.py:48` rebuilds the calendar only when the *number* of weeks
  differs; `calendar_sync.py:21-23` promises the weeks of the requested years.
* The first weeks' shipments are never planned into production in `load_leaf_S_and_compute`, so
  the conservation that `scripts/psi_consistency_tests.py:9,70-78` checks fails with
  demand in week 0. With `--csv` the calendar has as many years as the file, although
  the ETL counts one more for the spill (`etl_monthly_to_lots.py:172`). Lots that
  fall outside are skipped.
* A lot identifier has no scenario (`etl_monthly_to_lots.py:321`): loading the same
  months into a second scenario takes the lots from the first. The ETL deletes
  nothing: lots of a revised month stay.
* The docstring example at `plan/engines.py:814` reads another leaf from a lot than lines
  831-833 do.
* Play while playing starts a second chain of ticks: the replay runs faster than
  the speed shown. Nothing freezes (`PlayingHasATick`) and Pause stops both.
* In the kernel with a lead time a stockout is not cured by its operator, which
  arrives too late, and the same operator is chosen again with the same flow
  identifiers (`minimal_kernel.py:449`); `StockoutCured` is stated without lead time.
  When the iterations run out the returned state is older than the returned events
  (453); `BooksBalance` says from which events it follows. With two demands of one
  key the backlog is that of the second (185); both properties exclude it.

## 8. Plan

Done: the capacity-aware core and its composition, inbound and outbound trees,
the SQLite run, the replay, the kernel; forty-two listed theorems, the two refinements
of `LotLedger` and that of `RisingCut` among them.

What would come next: the full-plan sequence of the cockpit on one pair of trees,
with `PushPull` on the supply that `InboundTree` leaves; two processes on one
database in `PlanStore`; the hook bus, if filters get a contract about what they
leave behind when they fail; proofs of the properties of `PlanningKernel` and
`InboundTree`.
