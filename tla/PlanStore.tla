----------------------------- MODULE PlanStore -----------------------------
(***************************************************************************)
(* The planning run on SQLite: main of pysi/app/orchestrator.py with the   *)
(* ETL (pysi/etl/etl_monthly_to_lots.py), the ISO calendar                 *)
(* (pysi/db/calendar_sync.py, calendar_iso.py) and the write-back of       *)
(* planned buckets (pysi/io/tree_writeback.py, psi_io_adapters.py).        *)
(*                                                                         *)
(* One run makes many transactions: two of the ETL, one for the calendar,  *)
(* and for each (node, product) pair two per layer, which delete the old   *)
(* rows and insert the new ones.  An action is one transaction.  The       *)
(* process may be killed between any two of them; what is committed stays, *)
(* and the planner runs the same or another command on what is there.      *)
(*                                                                         *)
(* A table is the set of its keys.  Quantities, names of months and the    *)
(* staging table, which nothing reads, are left out.                       *)
(***************************************************************************)
EXTENDS Integers, Sequences, FiniteSets

CONSTANTS
  Scenarios,   \* scenario names
  Pairs,       \* (node, product)
  IsoWeeks,    \* the ISO weeks << year, week >> there are, in order
  SafetyWeeks, \* node_product.ss_days in weeks, per pair
  Csvs,        \* the monthly files: their years and the lots they make
  Commands,    \* the command lines a planner gives
  NoCsv, None  \* no --csv, or --skip-etl; nothing

Lots == UNION { c.lots : c \in Csvs }

IsCsv(c) ==
  /\ c.years \subseteq Int /\ c.years # {} /\ IsFiniteSet(c.years)
  /\ \A l \in c.lots :
       l.pair \in Pairs /\ \E i \in DOMAIN IsoWeeks : l.week = IsoWeeks[i]

IsCommand(c) ==
  /\ c.scenario \in Scenarios
  /\ c.csv \in Csvs \cup {NoCsv}          \* --csv, none with --skip-etl
  /\ c.skip_calendar \in BOOLEAN
  /\ c.tree \in BOOLEAN                   \* --mode
  /\ c.network \subseteq Pairs            \* tree: the pairs of the network
  /\ c.fallback \in Pairs                 \* tree: (root, --product)

ASSUME IsoWeeksAssumption    == IsoWeeks \in Seq(Int \X Int)
ASSUME SafetyWeeksAssumption == SafetyWeeks \in [Pairs -> Nat]
ASSUME CsvsAssumption        == NoCsv \notin Csvs /\ \A c \in Csvs : IsCsv(c)
ASSUME CommandsAssumption    == None \notin Commands /\ \A c \in Commands : IsCommand(c)

VARIABLES
  scenario,       \* the database: plan_year_st and plan_range by scenario
  node_product,   \*   the pairs that are registered
  weekly_demand,  \*   << scenario, pair >> with demand
  lot,            \*   the scenario each lot identifier belongs to
  calendar_iso,   \*   the weeks in the order of week_index
  lot_bucket,     \*   the planned buckets
  phase,          \* the process: the transaction it comes to
  command,
  todo,           \*   pairs to write
  pair, layer,    \*   what is being written
  psi,            \*   the node's buckets in memory
  settled         \* history: the last completed run, if no other began since

db      == << scenario, node_product, weekly_demand, lot, calendar_iso, lot_bucket >>
process == << phase, command, todo, pair, layer, psi >>
vars    == << scenario, node_product, weekly_demand, lot, calendar_iso, lot_bucket,
              phase, command, todo, pair, layer, psi, settled >>

Layers == {"demand", "supply"}
Phases == {"idle", "stg", "lots", "calendar", "find", "pairs", "delete", "insert"}

Init ==
  /\ scenario = << >>
  /\ node_product = {}
  /\ weekly_demand = {}
  /\ lot = << >>
  /\ calendar_iso = << >>
  /\ lot_bucket = {}
  /\ phase = "idle"
  /\ command = None
  /\ todo = {}
  /\ pair = None
  /\ layer = None
  /\ psi = {}
  /\ settled = None

Update(f, g) ==
  [x \in DOMAIN f \cup DOMAIN g |-> IF x \in DOMAIN g THEN g[x] ELSE f[x]]

----------------------------------------------------------------------------
(* The process                                                             *)

Rest == /\ phase' = "idle"
        /\ command' = None
        /\ todo' = {}
        /\ pair' = None
        /\ layer' = None
        /\ psi' = {}

Start(c) ==
  /\ phase = "idle"
  /\ command' = c
  /\ phase' = IF c.csv = NoCsv THEN "calendar" ELSE "stg"
  /\ settled' = IF settled # None /\ settled.command = c THEN settled ELSE None
  /\ UNCHANGED << db, todo, pair, layer, psi >>

(* The process is killed, or an exception ends it.                         *)
Crash ==
  /\ phase # "idle"
  /\ Rest
  /\ UNCHANGED << db, settled >>

Raises ==
  /\ Rest
  /\ UNCHANGED << db, settled >>

----------------------------------------------------------------------------
(* run_etl                                                                 *)

FirstOf(ys) == CHOOSE y \in ys : \A z \in ys : y <= z
LastOf(ys)  == CHOOSE y \in ys : \A z \in ys : z <= y

(* One year more than the file has.                                        *)
PlanBounds(csv) ==
  [st |-> FirstOf(csv.years), range |-> LastOf(csv.years) - FirstOf(csv.years) + 2]

PairsOf(csv) == { l.pair : l \in csv.lots }

(* The scenario row, the pairs and the staging rows: one transaction.      *)
EtlRegister ==
  /\ phase = "stg"
  /\ scenario' = Update(scenario, [s \in {command.scenario} |-> PlanBounds(command.csv)])
  /\ node_product' = node_product \cup PairsOf(command.csv)
  /\ phase' = "lots"
  /\ UNCHANGED << weekly_demand, lot, calendar_iso, lot_bucket, command, todo,
                  pair, layer, psi, settled >>

(* Weekly demand and lots are inserted or updated, never deleted; a lot    *)
(* identifier does not hold the scenario, so the last ETL owns it.         *)
EtlLots ==
  /\ phase = "lots"
  /\ weekly_demand' = weekly_demand \cup
                        ({command.scenario} \X PairsOf(command.csv))
  /\ lot' = Update(lot, [l \in command.csv.lots |-> command.scenario])
  /\ phase' = "calendar"
  /\ UNCHANGED << scenario, node_product, calendar_iso, lot_bucket, command,
                  todo, pair, layer, psi, settled >>

----------------------------------------------------------------------------
(* _ensure_calendar                                                        *)

(* The years of the file, however far apart, or those of the scenario.     *)
CalendarBounds ==
  IF command.csv # NoCsv
    THEN [st |-> FirstOf(command.csv.years), range |-> Cardinality(command.csv.years)]
    ELSE scenario[command.scenario]

CalendarRows(b) ==
  SelectSeq(IsoWeeks, LAMBDA w : b.st <= w[1] /\ w[1] < b.st + b.range)

(* Fault: the rebuild inserts without deleting.                            *)
RebuiltAppends(b) == calendar_iso \o CalendarRows(b)
(* ensure_calendar_iso rebuilds the calendar only when it has another      *)
(* number of weeks than the bounds ask for.                                *)
Rebuilt(b) == CalendarRows(b)

SyncCalendar ==
  /\ phase = "calendar"
  /\ ~command.skip_calendar
  /\ command.csv # NoCsv \/ command.scenario \in DOMAIN scenario
  /\ calendar_iso' = IF Len(calendar_iso) = Len(CalendarRows(CalendarBounds))
                       THEN calendar_iso
                       ELSE Rebuilt(CalendarBounds)
  /\ phase' = "find"
  /\ UNCHANGED << scenario, node_product, weekly_demand, lot, lot_bucket,
                  command, todo, pair, layer, psi, settled >>

SkipCalendar ==
  /\ phase = "calendar"
  /\ command.skip_calendar
  /\ phase' = "find"
  /\ UNCHANGED << db, command, todo, pair, layer, psi, settled >>

(* Neither a file nor the scenario says which years.                       *)
CalendarRaises ==
  /\ phase = "calendar"
  /\ ~command.skip_calendar
  /\ command.csv = NoCsv /\ command.scenario \notin DOMAIN scenario
  /\ Raises

----------------------------------------------------------------------------
(* The pairs, and the plan of one pair                                     *)

Demanded == { p \in Pairs : << command.scenario, p >> \in weekly_demand }

PairsToWrite ==
  IF ~command.tree THEN Demanded
  ELSE IF Demanded \cap command.network # {} THEN Demanded \cap command.network
  ELSE {command.fallback}

FindPairs ==
  /\ phase = "find"
  /\ command.scenario \in DOMAIN scenario
  /\ todo' = PairsToWrite
  /\ phase' = "pairs"
  /\ UNCHANGED << db, command, pair, layer, psi, settled >>

NoScenario ==
  /\ phase = "find"
  /\ command.scenario \notin DOMAIN scenario
  /\ Raises

(* calendar_map_for_scenario: the calendar's weeks in the scenario's       *)
(* years, or all of them when it has none of those.                        *)
CalendarMap(s) ==
  LET b == scenario[s]
      mine == { i \in DOMAIN calendar_iso :
                  b.st <= calendar_iso[i][1] /\ calendar_iso[i][1] < b.st + b.range }
  IN IF mine = {} THEN DOMAIN calendar_iso ELSE mine

(* The node has as many weeks as the map, but a week's place in it is the  *)
(* calendar's week_index; lots that fall outside are skipped.              *)
PlacedLots(s, p) ==
  { x \in CalendarMap(s) \X { l \in DOMAIN lot : lot[l] = s /\ l.pair = p } :
      /\ x[1] <= Cardinality(CalendarMap(s))
      /\ x[2].week = calendar_iso[x[1]] }

(* load_leaf_S_and_compute: S as the lots say, P the safety weeks earlier  *)
(* (not of the first weeks), and the S of demand again as that of supply.  *)
PlanOf(s, p) ==
  { [layer |-> ly, bucket |-> "S", week |-> x[1] - 1, lot |-> x[2]] :
      ly \in Layers, x \in PlacedLots(s, p) }
  \cup
  { [layer |-> "demand", bucket |-> "P", week |-> x[1] - 1 - SafetyWeeks[p],
     lot |-> x[2]] :
      x \in { y \in PlacedLots(s, p) : y[1] - 1 > SafetyWeeks[p] } }

Rows(s, p, ly) == { r \in lot_bucket : r.scenario = s /\ r.pair = p /\ r.row.layer = ly }
Slice(s, p, plan, ly) ==
  { [scenario |-> s, pair |-> p, row |-> r] : r \in { q \in plan : q.layer = ly } }

(* A pair whose node the database does not know, or an empty calendar:     *)
(* an exception.                                                           *)
Plannable(p) == p \in node_product /\ calendar_iso # << >>

LoadPair ==
  /\ phase = "pairs"
  /\ \E p \in todo :
       /\ Plannable(p)
       /\ pair' = p
       /\ psi' = PlanOf(command.scenario, p)
  /\ layer' = "demand"
  /\ phase' = "delete"
  /\ UNCHANGED << db, command, todo, settled >>

(* In tree mode the exception is printed and the next pair written, in     *)
(* leaf mode it ends the run.                                              *)
PairRaises ==
  /\ phase = "pairs"
  /\ \E p \in todo :
       /\ ~Plannable(p)
       /\ command.tree
       /\ todo' = todo \ {p}
  /\ UNCHANGED << db, phase, command, pair, layer, psi, settled >>

RunRaises ==
  /\ phase = "pairs"
  /\ \E p \in todo : ~Plannable(p) /\ ~command.tree
  /\ Raises

(* Fault: replace_slice is off.                                            *)
DeleteNothing ==
  /\ phase = "delete"
  /\ phase' = "insert"
  /\ UNCHANGED << db, command, todo, pair, layer, psi, settled >>
(* Fault: the condition on the scenario is missing.                        *)
DeleteOfAllScenarios ==
  /\ phase = "delete"
  /\ lot_bucket' = { r \in lot_bucket : r.pair # pair \/ r.row.layer # layer }
  /\ phase' = "insert"
  /\ UNCHANGED << scenario, node_product, weekly_demand, lot, calendar_iso,
                  command, todo, pair, layer, psi, settled >>
(* write_layer_to_lot_bucket: delete the slice, commit; insert, commit.    *)
DeleteSlice ==
  /\ phase = "delete"
  /\ lot_bucket' = lot_bucket \ Rows(command.scenario, pair, layer)
  /\ phase' = "insert"
  /\ UNCHANGED << scenario, node_product, weekly_demand, lot, calendar_iso,
                  command, todo, pair, layer, psi, settled >>

(* After the demand layer the supply layer, after both the next pair.      *)
AfterInsert ==
  IF layer = "demand"
    THEN /\ layer' = "supply"
         /\ phase' = "delete"
         /\ UNCHANGED << todo, pair, psi >>
    ELSE /\ phase' = "pairs"
         /\ todo' = todo \ {pair}
         /\ pair' = None
         /\ layer' = None
         /\ psi' = {}

InsertSlice ==
  /\ phase = "insert"
  /\ lot_bucket' = lot_bucket \cup Slice(command.scenario, pair, psi, layer)
  /\ AfterInsert
  /\ UNCHANGED << scenario, node_product, weekly_demand, lot, calendar_iso,
                  command, settled >>

Finish ==
  /\ phase = "pairs"
  /\ todo = {}
  /\ Rest
  /\ settled' = [command |-> command, db |-> db]
  /\ UNCHANGED db

Step ==
  \/ EtlRegister \/ EtlLots
  \/ SyncCalendar \/ SkipCalendar \/ CalendarRaises
  \/ FindPairs \/ NoScenario
  \/ LoadPair \/ PairRaises \/ RunRaises
  \/ DeleteSlice \/ InsertSlice \/ Finish

Next == (\E c \in Commands : Start(c)) \/ Step \/ Crash

Spec == Init /\ [][Next]_vars

----------------------------------------------------------------------------
(* Properties                                                              *)

(* The tables refer to each other: demand to scenarios and pairs that are  *)
(* there, lots to demand; and the process knows what it writes.            *)
TypeOK ==
  /\ DOMAIN scenario \subseteq Scenarios
  /\ node_product \subseteq Pairs
  /\ weekly_demand \subseteq (DOMAIN scenario) \X node_product
  /\ DOMAIN lot \subseteq Lots
  /\ \A l \in DOMAIN lot : << lot[l], l.pair >> \in weekly_demand
  /\ \A r \in lot_bucket : r.scenario \in DOMAIN scenario /\ r.pair \in Pairs
  /\ phase \in Phases
  /\ phase = "idle" \/ command \in Commands
  /\ todo \subseteq Pairs
  /\ phase \in {"delete", "insert"} => pair \in todo /\ layer \in Layers

(* When a run ends, after whatever runs and crashes there were before, the *)
(* file's lots belong to its scenario, and both layers of every pair it    *)
(* was to write hold the plan of the scenario's lots and the calendar:     *)
(* nothing of an older plan, nothing half written.                         *)
Written == { p \in PairsToWrite : Plannable(p) }
CompletedRunIsCurrent ==
  phase = "pairs" /\ todo = {} =>
    /\ command.csv # NoCsv =>
         \A l \in command.csv.lots : lot[l] = command.scenario
    /\ \A p \in Written, ly \in Layers :
         Rows(command.scenario, p, ly)
           = Slice(command.scenario, p, PlanOf(command.scenario, p), ly)

(* Whoever reads the buckets of a pair and layer, also after a crash, finds *)
(* the plan of an earlier run, no plan, or the new one, never a mixture;   *)
(* and a run changes no scenario's buckets but its own.                    *)
SliceIsWhole ==
  [][\A s \in Scenarios, p \in Pairs, ly \in Layers :
       \/ Rows(s, p, ly)' = Rows(s, p, ly)
       \/ /\ s = command.scenario
          /\ \/ Rows(s, p, ly)' = {}
             \/ /\ Rows(s, p, ly) = {}
                /\ Rows(s, p, ly)' = Slice(s, p, PlanOf(s, p), ly)]_vars

(* Running a command again leaves the database as it was, whether the      *)
(* second run went through or crashed any number of times before it did.   *)
RerunChangesNothing ==
  [][Finish /\ settled # None => db = settled.db]_vars

=============================================================================
