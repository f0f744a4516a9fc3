-------------------------- MODULE PlanStoreProofs --------------------------
(***************************************************************************)
(* Theorems about the planning run on SQLite, for any scenarios, files,    *)
(* networks, commands and crashes.                                         *)
(***************************************************************************)
EXTENDS PlanStore, TLAPS

Writing == phase \in {"delete", "insert"}
Planning == phase \in {"pairs", "delete", "insert"}

(* What the process knows between its transactions: the ETL has registered *)
(* what its second transaction refers to, and the file's lots are its      *)
(* scenario's from then on.                                                *)
EtlDone ==
  /\ phase \in {"stg", "lots"} => command.csv \in Csvs
  /\ phase = "lots" =>
       command.scenario \in DOMAIN scenario /\ PairsOf(command.csv) \subseteq node_product
  /\ phase \in {"calendar", "find"} \cup {"pairs", "delete", "insert"} =>
       (command.csv # NoCsv =>
          \A l \in command.csv.lots : l \in DOMAIN lot /\ lot[l] = command.scenario)
  /\ Planning => command.scenario \in DOMAIN scenario

(* The plan in memory is that of the tables as they are, and the old rows  *)
(* of a slice are gone before the new ones come.                           *)
InMemory ==
  /\ Writing => psi = PlanOf(command.scenario, pair)
  /\ phase = "insert" => Rows(command.scenario, pair, layer) = {}

(* What is not to be written any more has been.                            *)
Current(p, ly) ==
  Rows(command.scenario, p, ly)
    = Slice(command.scenario, p, PlanOf(command.scenario, p), ly)
WrittenSoFar ==
  /\ Planning => \A p \in Written \ todo, ly \in Layers : Current(p, ly)
  /\ Writing /\ layer = "supply" => Current(pair, "demand")

Inv == TypeOK /\ EtlDone /\ InMemory /\ WrittenSoFar

LEMMA CommandFacts ==
  ASSUME NEW c \in Commands
  PROVE  /\ c.scenario \in Scenarios
         /\ c.csv \in Csvs \cup {NoCsv}
  BY CommandsAssumption DEF IsCommand

LEMMA CsvFacts ==
  ASSUME NEW c \in Csvs
  PROVE  PairsOf(c) \subseteq Pairs /\ c.lots \subseteq Lots
  BY CsvsAssumption DEF IsCsv, PairsOf, Lots

LEMMA ToWrite ==
  ASSUME command \in Commands PROVE PairsToWrite \subseteq Pairs
  BY CommandsAssumption DEF IsCommand, PairsToWrite, Demanded

LEMMA InitInv == Init => Inv
  BY DEF Init, Inv, TypeOK, EtlDone, InMemory, WrittenSoFar, Writing, Planning, Phases

----------------------------------------------------------------------------
(* A slice: what deleting and inserting it does to the rows of any pair.   *)

LEMMA Deleted ==
  ASSUME NEW s, NEW p, NEW ly, NEW t, NEW q, NEW lz,
         lot_bucket' = lot_bucket \ Rows(s, p, ly)
  PROVE  Rows(t, q, lz)' = IF t = s /\ q = p /\ lz = ly THEN {} ELSE Rows(t, q, lz)
  BY DEF Rows

LEMMA Inserted ==
  ASSUME NEW s, NEW p, NEW ly, NEW t, NEW q, NEW lz, NEW plan,
         lot_bucket' = lot_bucket \cup Slice(s, p, plan, ly)
  PROVE  Rows(t, q, lz)' = IF t = s /\ q = p /\ lz = ly
                             THEN Rows(t, q, lz) \cup Slice(s, p, plan, ly)
                             ELSE Rows(t, q, lz)
<1>1. \A r \in Slice(s, p, plan, ly) : r.scenario = s /\ r.pair = p /\ r.row.layer = ly
  BY DEF Slice
<1> QED
  BY <1>1 DEF Rows

(* The plan of a pair depends on these tables and on nothing else.         *)
LEMMA PlanStays ==
  ASSUME UNCHANGED << scenario, lot, calendar_iso >>, NEW s, NEW p
  PROVE  PlanOf(s, p)' = PlanOf(s, p)
  BY DEF PlanOf, PlacedLots, CalendarMap

LEMMA RowsStay ==
  ASSUME UNCHANGED lot_bucket, NEW s, NEW p, NEW ly
  PROVE  Rows(s, p, ly)' = Rows(s, p, ly)
  BY DEF Rows

LEMMA CurrentStays ==
  ASSUME UNCHANGED << scenario, lot, calendar_iso, lot_bucket >>, UNCHANGED command,
         NEW p, NEW ly, Current(p, ly)
  PROVE  Current(p, ly)'
<1>1. PlanOf(command.scenario, p)' = PlanOf(command.scenario, p)
  BY PlanStays
<1>2. Rows(command.scenario, p, ly)' = Rows(command.scenario, p, ly)
  BY RowsStay
<1> QED
  BY <1>1, <1>2 DEF Current, Slice

LEMMA WrittenStays ==
  ASSUME UNCHANGED << node_product, calendar_iso, weekly_demand, command >>
  PROVE  Written' = Written
  BY DEF Written, PairsToWrite, Demanded, Plannable

----------------------------------------------------------------------------
(* Each step keeps the invariant.                                          *)

LEMMA StartInv ==
  ASSUME Inv, NEW c \in Commands, Start(c) PROVE Inv'
<1>1. TypeOK'
  BY DEF Inv, TypeOK, Start, db, Phases
<1>2. EtlDone'
  BY CommandFacts DEF Inv, EtlDone, Start, Planning
<1>3. InMemory' /\ WrittenSoFar'
  BY DEF InMemory, WrittenSoFar, Start, Planning, Writing
<1> QED
  BY <1>1, <1>2, <1>3 DEF Inv

LEMMA RestInv ==
  ASSUME Inv, Rest, UNCHANGED db PROVE Inv'
<1>1. TypeOK'
  BY DEF Inv, TypeOK, Rest, db, Phases
<1>2. EtlDone' /\ InMemory' /\ WrittenSoFar'
  BY DEF EtlDone, InMemory, WrittenSoFar, Rest, Planning, Writing
<1> QED
  BY <1>1, <1>2 DEF Inv

LEMMA EtlRegisterInv ==
  ASSUME Inv, EtlRegister PROVE Inv'
<1> DEFINE bounds == [s \in {command.scenario} |-> PlanBounds(command.csv)]
<1>1. command \in Commands /\ command.csv \in Csvs /\ command.scenario \in Scenarios
  BY CommandFacts DEF Inv, TypeOK, EtlDone, EtlRegister
<1>2. DOMAIN scenario' = DOMAIN scenario \cup {command.scenario}
  BY DEF EtlRegister, Update
<1>3. PairsOf(command.csv) \subseteq Pairs
  BY <1>1, CsvFacts
<1>4. TypeOK'
  BY <1>1, <1>2, <1>3 DEF Inv, TypeOK, EtlRegister, Phases
<1>5. EtlDone'
  BY <1>1, <1>2 DEF EtlDone, EtlRegister, Planning
<1>6. InMemory' /\ WrittenSoFar'
  BY DEF InMemory, WrittenSoFar, EtlRegister, Planning, Writing
<1> QED
  BY <1>4, <1>5, <1>6 DEF Inv

LEMMA EtlLotsInv ==
  ASSUME Inv, EtlLots PROVE Inv'
<1>1. command \in Commands /\ command.csv \in Csvs /\ command.csv # NoCsv
  BY CsvsAssumption DEF Inv, TypeOK, EtlDone, EtlLots
<1>2. /\ DOMAIN lot' = DOMAIN lot \cup command.csv.lots
      /\ \A l \in command.csv.lots : lot'[l] = command.scenario
      /\ \A l \in DOMAIN lot \ command.csv.lots : lot'[l] = lot[l]
  BY DEF EtlLots, Update
<1>3. \A l \in command.csv.lots : l.pair \in PairsOf(command.csv)
  BY DEF PairsOf
<1>4. \A l \in DOMAIN lot' : << lot'[l], l.pair >> \in weekly_demand'
  <2> SUFFICES ASSUME NEW l \in DOMAIN lot' PROVE << lot'[l], l.pair >> \in weekly_demand'
    OBVIOUS
  <2>1. CASE l \in command.csv.lots
    BY <1>2, <1>3, <2>1 DEF EtlLots
  <2>2. CASE l \in DOMAIN lot \ command.csv.lots
    BY <1>2, <2>2 DEF EtlLots, Inv, TypeOK
  <2> QED
    BY <1>2, <2>1, <2>2
<1>5. weekly_demand' \subseteq (DOMAIN scenario) \X node_product
  BY DEF Inv, TypeOK, EtlDone, EtlLots
<1>6. TypeOK'
  BY <1>1, <1>2, <1>4, <1>5, CsvFacts DEF Inv, TypeOK, EtlLots, Phases
<1>7. EtlDone'
  BY <1>2 DEF EtlDone, EtlLots, Planning
<1>8. InMemory' /\ WrittenSoFar'
  BY DEF InMemory, WrittenSoFar, EtlLots, Planning, Writing
<1> QED
  BY <1>6, <1>7, <1>8 DEF Inv

LEMMA CalendarInv ==
  ASSUME Inv, SyncCalendar \/ SkipCalendar PROVE Inv'
<1>1. /\ phase = "calendar" /\ phase' = "find"
      /\ UNCHANGED << scenario, node_product, weekly_demand, lot, lot_bucket, command,
                       todo, pair, layer, psi >>
  BY DEF SyncCalendar, SkipCalendar, db
<1>2. TypeOK'
  BY <1>1 DEF Inv, TypeOK, Phases
<1>3. EtlDone'
  BY <1>1 DEF Inv, EtlDone, Planning
<1>4. InMemory' /\ WrittenSoFar'
  BY <1>1 DEF InMemory, WrittenSoFar, Planning, Writing
<1> QED
  BY <1>2, <1>3, <1>4 DEF Inv

LEMMA FindPairsInv ==
  ASSUME Inv, FindPairs PROVE Inv'
<1>1. Written' = Written
  BY WrittenStays DEF FindPairs, db
<1>2. TypeOK'
  BY ToWrite DEF Inv, TypeOK, FindPairs, db, Phases
<1>3. EtlDone'
  BY DEF Inv, EtlDone, FindPairs, db, Planning
<1>4. InMemory'
  BY DEF InMemory, FindPairs, Writing
<1>5. Written' \ todo' = {}
  BY <1>1 DEF FindPairs, Written
<1>6. WrittenSoFar'
  BY <1>5 DEF WrittenSoFar, FindPairs, Writing
<1> QED
  BY <1>2, <1>3, <1>4, <1>6 DEF Inv

LEMMA LoadPairInv ==
  ASSUME Inv, LoadPair PROVE Inv'
<1> USE DEF LoadPair, db
<1>1. Written' = Written
  BY WrittenStays
<1>2. TypeOK'
  BY DEF Inv, TypeOK, Phases, Layers
<1>3. EtlDone'
  BY DEF Inv, EtlDone, Planning
<1>4. InMemory'
  BY PlanStays DEF InMemory, Writing
<1>5. WrittenSoFar'
  BY <1>1, CurrentStays DEF Inv, WrittenSoFar, Planning, Writing
<1> QED
  BY <1>2, <1>3, <1>4, <1>5 DEF Inv

LEMMA PairRaisesInv ==
  ASSUME Inv, PairRaises PROVE Inv'
<1> USE DEF PairRaises, db
<1>1. Written' = Written
  BY WrittenStays
<1>2. Written \ todo' \subseteq Written \ todo
  BY DEF Written
<1>3. TypeOK'
  BY DEF Inv, TypeOK, Phases
<1>4. EtlDone'
  BY DEF Inv, EtlDone, Planning
<1>5. InMemory'
  BY DEF InMemory, Writing
<1>6. WrittenSoFar'
  BY <1>1, <1>2, CurrentStays DEF Inv, WrittenSoFar, Planning, Writing
<1> QED
  BY <1>3, <1>4, <1>5, <1>6 DEF Inv

(* The rows of every other slice are as they were.                         *)
LEMMA OtherCurrentStays ==
  ASSUME UNCHANGED << scenario, lot, calendar_iso, command >>, NEW p, NEW ly,
         Current(p, ly),
         Rows(command.scenario, p, ly)' = Rows(command.scenario, p, ly)
  PROVE  Current(p, ly)'
<1>1. PlanOf(command.scenario, p)' = PlanOf(command.scenario, p)
  BY PlanStays
<1> QED
  BY <1>1 DEF Current, Slice

LEMMA DeleteSliceInv ==
  ASSUME Inv, DeleteSlice PROVE Inv'
<1> USE DEF DeleteSlice
<1>1. Written' = Written
  BY WrittenStays
<1>2. TypeOK'
  <2>1. lot_bucket' \subseteq lot_bucket
    BY DEF Rows
  <2> QED
    BY <2>1 DEF Inv, TypeOK, Phases
<1>3. EtlDone'
  BY DEF Inv, EtlDone, Planning
<1>4. \A q, lz : Rows(command.scenario, q, lz)'
                 = IF q = pair /\ lz = layer THEN {} ELSE Rows(command.scenario, q, lz)
  BY Deleted
<1>5. InMemory'
  <2>1. PlanOf(command.scenario, pair)' = PlanOf(command.scenario, pair)
    BY PlanStays
  <2> QED
    BY <1>4, <2>1 DEF Inv, InMemory, Writing
<1>6. pair \in todo /\ layer \in Layers
  BY DEF Inv, TypeOK
<1>7. WrittenSoFar'
  <2>1. ASSUME NEW q \in Written \ todo, NEW lz \in Layers PROVE Current(q, lz)'
    <3>1. Current(q, lz)
      BY DEF Inv, WrittenSoFar, Planning
    <3>2. Rows(command.scenario, q, lz)' = Rows(command.scenario, q, lz)
      BY <1>4, <1>6
    <3> QED
      BY <3>1, <3>2, OtherCurrentStays
  <2>2. ASSUME layer = "supply" PROVE Current(pair, "demand")'
    <3>1. Current(pair, "demand")
      BY <2>2 DEF Inv, WrittenSoFar, Writing
    <3>2. Rows(command.scenario, pair, "demand")' = Rows(command.scenario, pair, "demand")
      BY <1>4, <2>2
    <3> QED
      BY <3>1, <3>2, OtherCurrentStays
  <2> QED
    BY <1>1, <2>1, <2>2 DEF WrittenSoFar
<1> QED
  BY <1>2, <1>3, <1>5, <1>7 DEF Inv

(* Inserting makes the slice current and leaves the other rows.            *)
LEMMA InsertedIsCurrent ==
  ASSUME Inv, InsertSlice, NEW s, s = command.scenario, NEW p, p = pair, NEW ly, ly = layer
  PROVE  /\ Current(p, ly)'
         /\ Rows(s, p, ly) = {}
         /\ Rows(s, p, ly)' = Slice(s, p, PlanOf(s, p), ly)
         /\ \A t, q, lz : t # s \/ q # p \/ lz # ly => Rows(t, q, lz)' = Rows(t, q, lz)
<1>1. Rows(s, p, ly) = {} /\ psi = PlanOf(s, p)
  BY DEF Inv, InMemory, Writing, InsertSlice
<1>2. lot_bucket' = lot_bucket \cup Slice(s, p, psi, ly)
  BY DEF InsertSlice
<1>3. \A t, q, lz : Rows(t, q, lz)'
                 = IF t = s /\ q = p /\ lz = ly THEN Rows(t, q, lz) \cup Slice(s, p, psi, ly)
                   ELSE Rows(t, q, lz)
  BY <1>2, Inserted
<1>4. PlanOf(s, p)' = PlanOf(s, p)
  BY PlanStays DEF InsertSlice
<1>5. Rows(s, p, ly)' = Slice(s, p, PlanOf(s, p), ly)
  <2>1. Rows(s, p, ly)' = Rows(s, p, ly) \cup Slice(s, p, psi, ly)
    BY <1>3
  <2> QED
    BY <1>1, <2>1
<1>6. Current(p, ly)'
  <2>1. command' = command
    BY DEF InsertSlice
  <2> QED
    BY <1>4, <1>5, <2>1 DEF Current, Slice
<1> QED
  BY <1>1, <1>3, <1>5, <1>6

LEMMA InsertSliceInv ==
  ASSUME Inv, InsertSlice PROVE Inv'
<1>0. pair \in todo /\ layer \in Layers /\ todo \subseteq Pairs
  BY DEF Inv, TypeOK, InsertSlice
<1>1. UNCHANGED << scenario, node_product, weekly_demand, lot, calendar_iso, command >>
  BY DEF InsertSlice
<1>2. Written' = Written
  BY <1>1, WrittenStays
<1>3. TypeOK'
  <2>1. \A r \in Slice(command.scenario, pair, psi, layer) :
          r.scenario = command.scenario /\ r.pair = pair
    BY DEF Slice
  <2>2. command.scenario \in DOMAIN scenario
    BY DEF Inv, EtlDone, Planning, InsertSlice
  <2>3. \A r \in lot_bucket' : r.scenario \in DOMAIN scenario /\ r.pair \in Pairs
    BY <1>0, <2>1, <2>2 DEF Inv, TypeOK, InsertSlice
  <2> QED
    BY <1>0, <2>3 DEF Inv, TypeOK, InsertSlice, AfterInsert, Phases, Layers
<1>4. EtlDone'
  BY DEF Inv, EtlDone, Planning, InsertSlice, AfterInsert
<1>5. CASE layer = "demand"
  <2>1. /\ layer' = "supply" /\ phase' = "delete"
        /\ UNCHANGED << todo, pair, psi >>
    BY <1>5 DEF InsertSlice, AfterInsert
  <2>2. InMemory'
    <3>1. PlanOf(command.scenario, pair)' = PlanOf(command.scenario, pair)
      BY <1>1, <2>1, PlanStays
    <3> QED
      BY <1>1, <2>1, <3>1 DEF Inv, InMemory, Writing, InsertSlice
  <2>3. ASSUME NEW q \in Written \ todo, NEW lz \in Layers PROVE Current(q, lz)'
    <3>1. Current(q, lz)
      BY DEF Inv, WrittenSoFar, Planning, InsertSlice
    <3>2. Rows(command.scenario, q, lz)' = Rows(command.scenario, q, lz)
      BY <1>0, <1>1, InsertedIsCurrent
    <3> QED
      BY <1>1, <3>1, <3>2, OtherCurrentStays
  <2>4. \A p : p = pair => Current(p, "demand")'
    BY <1>5, InsertedIsCurrent
  <2>5. Current(pair, "demand")'
    BY <2>1, <2>4 DEF Current, Rows, Slice
  <2>6. WrittenSoFar'
    BY <1>2, <2>1, <2>3, <2>5 DEF WrittenSoFar
  <2> QED
    BY <1>3, <1>4, <2>2, <2>6 DEF Inv
<1>6. CASE layer = "supply"
  <2>1. phase' = "pairs" /\ todo' = todo \ {pair}
    BY <1>6 DEF InsertSlice, AfterInsert
  <2>2. InMemory'
    BY <2>1 DEF InMemory, Writing
  <2>3. ASSUME NEW q \in Written \ (todo \ {pair}), NEW lz \in Layers
        PROVE  Current(q, lz)'
    <3>1. CASE q = pair /\ lz = layer
      BY <3>1, InsertedIsCurrent
    <3>2. CASE q = pair /\ lz # layer
      <4>1. lz = "demand"
        BY <1>6, <3>2 DEF Layers
      <4>2. Current(q, lz)
        BY <1>6, <3>2, <4>1 DEF Inv, WrittenSoFar, Writing, InsertSlice
      <4>3. Rows(command.scenario, q, lz)' = Rows(command.scenario, q, lz)
        BY <1>1, <3>2, InsertedIsCurrent
      <4> QED
        BY <1>1, <4>2, <4>3, OtherCurrentStays
    <3>3. CASE q # pair
      <4>1. Current(q, lz)
        BY <3>3 DEF Inv, WrittenSoFar, Planning, InsertSlice
      <4>2. Rows(command.scenario, q, lz)' = Rows(command.scenario, q, lz)
        BY <1>1, <3>3, InsertedIsCurrent
      <4> QED
        BY <1>1, <4>1, <4>2, OtherCurrentStays
    <3> QED
      BY <3>1, <3>2, <3>3
  <2>4. WrittenSoFar'
    BY <1>2, <2>1, <2>3 DEF WrittenSoFar, Writing
  <2> QED
    BY <1>3, <1>4, <2>2, <2>4 DEF Inv
<1> QED
  BY <1>0, <1>5, <1>6 DEF Layers

LEMMA StepInv ==
  ASSUME Inv, Next PROVE Inv'
<1>1. CASE \E c \in Commands : Start(c)
  BY <1>1, StartInv
<1>2. CASE Crash \/ CalendarRaises \/ NoScenario \/ RunRaises \/ Finish
  BY <1>2, RestInv
     DEF Crash, CalendarRaises, NoScenario, RunRaises, Finish, Raises
<1>3. CASE EtlRegister
  BY <1>3, EtlRegisterInv
<1>4. CASE EtlLots
  BY <1>4, EtlLotsInv
<1>5. CASE SyncCalendar \/ SkipCalendar
  BY <1>5, CalendarInv
<1>6. CASE FindPairs
  BY <1>6, FindPairsInv
<1>7. CASE LoadPair
  BY <1>7, LoadPairInv
<1>8. CASE PairRaises
  BY <1>8, PairRaisesInv
<1>9. CASE DeleteSlice
  BY <1>9, DeleteSliceInv
<1>10. CASE InsertSlice
  BY <1>10, InsertSliceInv
<1> QED
  BY <1>1, <1>2, <1>3, <1>4, <1>5, <1>6, <1>7, <1>8, <1>9, <1>10 DEF Next, Step

LEMMA StutterInv ==
  ASSUME Inv, UNCHANGED vars PROVE Inv'
<1> USE DEF vars
<1>1. Written' = Written
  BY WrittenStays
<1>2. TypeOK' /\ EtlDone'
  BY DEF Inv, TypeOK, EtlDone, Planning
<1>3. InMemory'
  <2>1. PlanOf(command.scenario, pair)' = PlanOf(command.scenario, pair)
    BY PlanStays
  <2>2. Rows(command.scenario, pair, layer)' = Rows(command.scenario, pair, layer)
    BY RowsStay
  <2> QED
    BY <2>1, <2>2 DEF Inv, InMemory, Writing
<1>4. WrittenSoFar'
  BY <1>1, CurrentStays DEF Inv, WrittenSoFar, Planning, Writing
<1> QED
  BY <1>2, <1>3, <1>4 DEF Inv

LEMMA Invariance == Spec => []Inv
<1>1. Inv /\ [Next]_vars => Inv'
  BY StepInv, StutterInv
<1> QED
  BY <1>1, InitInv, PTL DEF Spec

----------------------------------------------------------------------------
(* The theorems.                                                           *)

(* The tables keep referring to what is there: every lot belongs to a      *)
(* scenario with demand for its pair, every demand to a registered         *)
(* scenario and pair, every bucket to a registered scenario, whatever runs *)
(* and crashes there were (orchestrator.py main).                          *)
THEOREM TypeCorrect == Spec => []TypeOK
<1>1. Inv => TypeOK
  BY DEF Inv
<1> QED
  BY <1>1, Invariance, PTL

(* A run that comes to its end has written the plan of the tables as they  *)
(* are, for every pair it was to write, and owns its file's lots           *)
(* (write_both_layers_for_pair, after any crashes and reruns).             *)
THEOREM CompletedIsCurrent == Spec => []CompletedRunIsCurrent
<1>1. Inv => CompletedRunIsCurrent
  BY DEF Inv, EtlDone, WrittenSoFar, Planning, Current, CompletedRunIsCurrent
<1> QED
  BY <1>1, Invariance, PTL

(* A step changes the rows of a slice only from the old ones to none, or   *)
(* from none to the whole new plan, and only in its own scenario           *)
(* (write_layer_to_lot_bucket).                                            *)
LEMMA SliceStep ==
  ASSUME Inv, Next, NEW s \in Scenarios, NEW p \in Pairs, NEW ly \in Layers
  PROVE  \/ Rows(s, p, ly)' = Rows(s, p, ly)
         \/ /\ s = command.scenario
            /\ \/ Rows(s, p, ly)' = {}
               \/ /\ Rows(s, p, ly) = {}
                  /\ Rows(s, p, ly)' = Slice(s, p, PlanOf(s, p), ly)
<1>1. CASE DeleteSlice
  BY <1>1, Deleted DEF DeleteSlice
<1>2. CASE InsertSlice
  BY <1>2, InsertedIsCurrent
<1>3. CASE UNCHANGED lot_bucket
  BY <1>3, RowsStay
<1>4. ~ DeleteSlice /\ ~ InsertSlice => UNCHANGED lot_bucket
  BY DEF Next, Step, Start, Crash, EtlRegister, EtlLots, SyncCalendar, SkipCalendar,
         CalendarRaises, FindPairs, NoScenario, LoadPair, PairRaises, RunRaises,
         Finish, Raises, db
<1> QED
  BY <1>1, <1>2, <1>3, <1>4

THEOREM SlicesAreWhole == Spec => SliceIsWhole
<1>1. Inv /\ [Next]_vars =>
        [\A s \in Scenarios, p \in Pairs, ly \in Layers :
           \/ Rows(s, p, ly)' = Rows(s, p, ly)
           \/ /\ s = command.scenario
              /\ \/ Rows(s, p, ly)' = {}
                 \/ /\ Rows(s, p, ly) = {}
                    /\ Rows(s, p, ly)' = Slice(s, p, PlanOf(s, p), ly)]_vars
  BY SliceStep
<1> QED
  BY <1>1, Invariance, PTL DEF Spec, SliceIsWhole

----------------------------------------------------------------------------
(* Running a command again                                                 *)

(* The years CalendarBounds finds, and the pairs Written names, by command.*)
BoundsFor(c) ==
  IF c.csv # NoCsv
    THEN [st |-> FirstOf(c.csv.years), range |-> Cardinality(c.csv.years)]
    ELSE scenario[c.scenario]

PairsFor(c) ==
  LET demanded == { p \in Pairs : << c.scenario, p >> \in weekly_demand }
  IN IF ~c.tree THEN demanded
     ELSE IF demanded \cap c.network # {} THEN demanded \cap c.network
     ELSE {c.fallback}
WrittenFor(c) == { p \in PairsFor(c) : Plannable(p) }

(* What the steps of the ETL and of the calendar leave in the tables; each *)
(* of them finds nothing to do where it is there already.                  *)
Registered(c) ==
  c.csv # NoCsv =>
    /\ c.scenario \in DOMAIN scenario /\ scenario[c.scenario] = PlanBounds(c.csv)
    /\ PairsOf(c.csv) \subseteq node_product
LotsOwned(c) ==
  c.csv # NoCsv =>
    /\ {c.scenario} \X PairsOf(c.csv) \subseteq weekly_demand
    /\ \A l \in c.csv.lots : l \in DOMAIN lot /\ lot[l] = c.scenario
InSync(c) ==
  ~c.skip_calendar => Len(calendar_iso) = Len(CalendarRows(BoundsFor(c)))

Tables == scenario = [s \in DOMAIN scenario |-> scenario[s]] /\ lot = [l \in DOMAIN lot |-> lot[l]]

RunInv ==
  /\ Tables
  /\ phase \notin {"idle", "stg"} => Registered(command)
  /\ phase \notin {"idle", "stg", "lots"} => LotsOwned(command)
  /\ phase \notin {"idle", "stg", "lots", "calendar"} => InSync(command)
  /\ Planning => todo \subseteq PairsToWrite
  /\ Writing => Plannable(pair)

RowsIn(buckets, s, p, ly) ==
  { r \in buckets : r.scenario = s /\ r.pair = p /\ r.row.layer = ly }

(* What a completed run of c that left the buckets b has settled.          *)
SettledFor(c, b) ==
  /\ c.scenario \in DOMAIN scenario
  /\ Registered(c) /\ LotsOwned(c) /\ InSync(c)
  /\ \A p \in WrittenFor(c), ly \in Layers :
       RowsIn(b, c.scenario, p, ly) = Slice(c.scenario, p, PlanOf(c.scenario, p), ly)
  /\ \A s, p, ly :
       \/ s = c.scenario /\ p \in WrittenFor(c) /\ ly \in Layers
       \/ Rows(s, p, ly) = RowsIn(b, s, p, ly)

SettledInv ==
  settled # None =>
    /\ phase # "idle" => command = settled.command
    /\ settled.db = << scenario, node_product, weekly_demand, lot, calendar_iso,
                       settled.db[6] >>
    /\ SettledFor(settled.command, settled.db[6])

LEMMA ByCommand ==
  /\ CalendarBounds = BoundsFor(command) /\ PairsToWrite = PairsFor(command)
  /\ Written = WrittenFor(command)
  BY DEF CalendarBounds, BoundsFor, PairsToWrite, Demanded, PairsFor, Written, WrittenFor

LEMMA SameTables ==
  ASSUME UNCHANGED << scenario, node_product, weekly_demand, lot, calendar_iso >>
  PROVE  /\ \A c : /\ Registered(c)' <=> Registered(c)
                   /\ LotsOwned(c)' <=> LotsOwned(c)
                   /\ InSync(c)' <=> InSync(c)
                   /\ PairsFor(c)' = PairsFor(c)
                   /\ WrittenFor(c)' = WrittenFor(c)
         /\ \A s, p, ly : Slice(s, p, PlanOf(s, p), ly)' = Slice(s, p, PlanOf(s, p), ly)
         /\ \A p : Plannable(p)' <=> Plannable(p)
         /\ Tables' <=> Tables
<1>1. \A p : Plannable(p)' <=> Plannable(p)
  BY DEF Plannable
<1>2. \A c : PairsFor(c)' = PairsFor(c)
  BY DEF PairsFor
<1>3. \A c : WrittenFor(c)' = WrittenFor(c)
  BY <1>1, <1>2 DEF WrittenFor
<1>4. \A s, p : PlanOf(s, p)' = PlanOf(s, p)
  BY PlanStays
<1>5. \A s, p, ly : Slice(s, p, PlanOf(s, p), ly)' = Slice(s, p, PlanOf(s, p), ly)
  BY <1>4 DEF Slice
<1>6. \A c : InSync(c)' <=> InSync(c)
  BY DEF InSync, BoundsFor
<1>7. \A c : (Registered(c)' <=> Registered(c)) /\ (LotsOwned(c)' <=> LotsOwned(c))
  BY DEF Registered, LotsOwned
<1> QED
  BY <1>1, <1>2, <1>3, <1>5, <1>6, <1>7 DEF Tables

(* The ETL and the calendar leave the tables of a settled run alone.       *)
LEMMA NothingToRegister ==
  ASSUME Inv, RunInv, SettledInv, settled # None,
         EtlRegister \/ EtlLots \/ SyncCalendar
  PROVE  UNCHANGED << scenario, node_product, weekly_demand, lot, calendar_iso >>
<1>1. command = settled.command /\ SettledFor(command, settled.db[6])
  BY DEF SettledInv, EtlRegister, EtlLots, SyncCalendar
<1>2. Registered(command) /\ LotsOwned(command) /\ InSync(command) /\ Tables
  BY <1>1 DEF SettledFor, RunInv
<1>3. phase \in {"stg", "lots"} => command.csv # NoCsv
  BY CsvsAssumption DEF Inv, EtlDone
<1>4. CASE EtlRegister
  <2>1. /\ command.scenario \in DOMAIN scenario
        /\ scenario[command.scenario] = PlanBounds(command.csv)
        /\ PairsOf(command.csv) \subseteq node_product
    BY <1>2, <1>3, <1>4 DEF Registered, EtlRegister
  <2>2. scenario' = scenario
    <3> DEFINE g == [s \in {command.scenario} |-> PlanBounds(command.csv)]
    <3>1. scenario' = [x \in DOMAIN scenario \cup {command.scenario} |->
                         IF x = command.scenario THEN PlanBounds(command.csv) ELSE scenario[x]]
      BY <1>4 DEF EtlRegister, Update
    <3>2. scenario' = [x \in DOMAIN scenario |-> scenario[x]]
      BY <2>1, <3>1
    <3> QED
      BY <1>2, <3>2 DEF Tables
  <2> QED
    BY <1>4, <2>1, <2>2 DEF EtlRegister
<1>5. CASE EtlLots
  <2>1. /\ {command.scenario} \X PairsOf(command.csv) \subseteq weekly_demand
        /\ \A l \in command.csv.lots : l \in DOMAIN lot /\ lot[l] = command.scenario
    BY <1>2, <1>3, <1>5 DEF LotsOwned, EtlLots
  <2>2. lot' = lot
    <3>1. lot' = [x \in DOMAIN lot \cup command.csv.lots |->
                    IF x \in command.csv.lots THEN command.scenario ELSE lot[x]]
      BY <1>5 DEF EtlLots, Update
    <3>2. lot' = [x \in DOMAIN lot |-> lot[x]]
      BY <2>1, <3>1
    <3> QED
      BY <1>2, <3>2 DEF Tables
  <2> QED
    BY <1>5, <2>1, <2>2 DEF EtlLots
<1>6. CASE SyncCalendar
  BY <1>2, <1>6, ByCommand DEF SyncCalendar, InSync
<1> QED
  BY <1>4, <1>5, <1>6

LEMMA InitRun == Init => RunInv /\ SettledInv
<1>1. Init => Tables
  BY DEF Init, Tables
<1> QED
  BY <1>1 DEF Init, RunInv, SettledInv, Planning, Writing

LEMMA NextRun ==
  ASSUME Inv, RunInv, [Next]_vars PROVE RunInv'
<1>1. CASE ~ (EtlRegister \/ EtlLots \/ SyncCalendar)
  <2>0. UNCHANGED << scenario, node_product, weekly_demand, lot, calendar_iso >>
    BY <1>1 DEF Next, Step, Start, Crash, SkipCalendar, vars,
       CalendarRaises, FindPairs, NoScenario, LoadPair, PairRaises, RunRaises,
       DeleteSlice, InsertSlice, Finish, Raises, db
  <2>1. /\ \A c : /\ Registered(c)' <=> Registered(c)
                  /\ LotsOwned(c)' <=> LotsOwned(c)
                  /\ InSync(c)' <=> InSync(c)
                  /\ PairsFor(c)' = PairsFor(c)
        /\ \A p : Plannable(p)' <=> Plannable(p)
        /\ Tables'
    BY <2>0, SameTables DEF RunInv
  <2> DEFINE Known == /\ phase \notin {"idle", "stg"} => Registered(command)
                      /\ phase \notin {"idle", "stg", "lots"} => LotsOwned(command)
                      /\ phase \notin {"idle", "stg", "lots", "calendar"} => InSync(command)
  <2>2. CASE phase' = "idle"
    BY <2>1, <2>2 DEF RunInv, Planning, Writing
  <2>3. CASE \E c \in Commands : Start(c)
    <3>1. PICK c \in Commands : Start(c)
      BY <2>3
    <3>2. phase' \in {"stg", "calendar"} /\ command' = c /\ (phase' = "calendar" => c.csv = NoCsv)
      BY <3>1 DEF Start
    <3>3. phase' = "calendar" => Registered(command)' /\ LotsOwned(command)'
      BY <3>2 DEF Registered, LotsOwned
    <3> QED
      BY <2>1, <3>2, <3>3 DEF RunInv, Planning, Writing
  <2>6. CASE SkipCalendar
    <3>1. /\ command' = command /\ phase = "calendar" /\ phase' = "find"
          /\ command.skip_calendar
      BY <2>6 DEF SkipCalendar
    <3>2. InSync(command)' /\ Registered(command)' /\ LotsOwned(command)'
      BY <2>1, <3>1 DEF RunInv, InSync
    <3> QED
      BY <2>1, <3>1, <3>2 DEF RunInv, Planning, Writing
  <2>7. ASSUME UNCHANGED command, phase \notin {"idle", "stg", "lots", "calendar"}
        PROVE  Known'
    BY <2>1, <2>7 DEF RunInv
  <2>8. PairsToWrite = PairsFor(command) /\ (UNCHANGED command => PairsToWrite' = PairsToWrite)
    <3>1. PairsToWrite' = PairsFor(command)'
      BY DEF PairsToWrite, Demanded, PairsFor
    <3> QED
      BY <2>1, <3>1, ByCommand
  <2>9. CASE FindPairs
    BY <2>1, <2>7, <2>8, <2>9 DEF FindPairs, RunInv, Writing
  <2>10. CASE LoadPair
    <3>1. \E p \in todo : Plannable(p) /\ pair' = p
      BY <2>10 DEF LoadPair
    <3>2. Plannable(pair)'
      BY <2>1, <3>1
    <3> QED
      BY <2>1, <2>7, <2>8, <2>10, <3>2 DEF LoadPair, RunInv, Planning
  <2>11. CASE PairRaises
    BY <2>1, <2>7, <2>8, <2>11 DEF PairRaises, RunInv, Planning, Writing
  <2>12. CASE DeleteSlice
    <3>1. Plannable(pair)'
      BY <2>1, <2>12 DEF DeleteSlice, RunInv, Writing
    <3> QED
      BY <2>1, <2>7, <2>8, <2>12, <3>1 DEF DeleteSlice, RunInv, Planning
  <2>13. CASE InsertSlice
    <3>1. UNCHANGED pair => Plannable(pair)'
      BY <2>1, <2>13 DEF InsertSlice, RunInv, Writing
    <3>2. /\ UNCHANGED command /\ phase = "insert" /\ todo' \subseteq todo
          /\ (phase' = "delete" /\ UNCHANGED pair) \/ phase' = "pairs"
      BY <2>13 DEF InsertSlice, AfterInsert
    <3>3. Planning' => todo' \subseteq PairsToWrite'
      BY <2>8, <3>2 DEF RunInv, Planning
    <3>4. Writing' => Plannable(pair)'
      BY <3>1, <3>2 DEF Writing
    <3> QED
      BY <2>1, <2>7, <3>2, <3>3, <3>4 DEF RunInv
  <2>14. CASE UNCHANGED vars
    <3>1. Plannable(pair)' <=> Plannable(pair)
      BY <2>1, <2>14 DEF vars
    <3>2. /\ Registered(command)' <=> Registered(command)
          /\ LotsOwned(command)' <=> LotsOwned(command)
          /\ InSync(command)' <=> InSync(command)
      BY <2>1, <2>14 DEF vars
    <3> QED
      BY <2>1, <2>8, <2>14, <3>1, <3>2 DEF vars, RunInv, Planning, Writing
  <2> QED
    BY <1>1, <2>2, <2>3, <2>6, <2>9, <2>10, <2>11, <2>12, <2>13, <2>14
       DEF Next, Step, Crash, CalendarRaises, NoScenario, RunRaises, Finish, Raises, Rest
<1>2. CASE EtlRegister
  <2>1. /\ command' = command /\ phase' = "lots" /\ lot' = lot
        /\ node_product' = node_product \cup PairsOf(command.csv)
        /\ scenario' = Update(scenario, [s \in {command.scenario} |-> PlanBounds(command.csv)])
    BY <1>2 DEF EtlRegister
  <2>2. Registered(command)' /\ Tables'
    BY <2>1 DEF Registered, Update, Tables, RunInv
  <2> QED
    BY <2>1, <2>2 DEF RunInv, Planning, Writing
<1>3. CASE EtlLots
  <2>1. /\ phase = "lots" /\ phase' = "calendar"
        /\ UNCHANGED << command, scenario, node_product >>
        /\ weekly_demand' = weekly_demand \cup ({command.scenario} \X PairsOf(command.csv))
        /\ lot' = Update(lot, [l \in command.csv.lots |-> command.scenario])
    BY <1>3 DEF EtlLots
  <2>2. LotsOwned(command)' /\ Registered(command)' /\ Tables'
    BY <2>1 DEF LotsOwned, Registered, Update, RunInv, Tables
  <2> QED
    BY <2>1, <2>2 DEF RunInv, Planning, Writing
<1>4. CASE SyncCalendar
  <2>1. /\ phase = "calendar" /\ phase' = "find"
        /\ UNCHANGED << command, scenario, node_product, weekly_demand, lot >>
        /\ Len(calendar_iso') = Len(CalendarRows(CalendarBounds))
    BY <1>4 DEF SyncCalendar, Rebuilt
  <2>2. LotsOwned(command)' /\ Registered(command)' /\ Tables'
    BY <2>1 DEF LotsOwned, Registered, RunInv, Tables
  <2>3. InSync(command)'
    BY <2>1, ByCommand DEF InSync, BoundsFor
  <2> QED
    BY <2>1, <2>2, <2>3 DEF RunInv, Planning, Writing
<1> QED
  BY <1>1, <1>2, <1>3, <1>4

(* Until the run ends, its tables and the other slices are as settled.     *)
LEMMA SettledStays ==
  ASSUME SettledInv, settled # None,
         UNCHANGED << scenario, node_product, weekly_demand, lot, calendar_iso, settled >>,
         phase' # "idle" => command' = settled.command,
         \A s, p, ly :
           \/ /\ s = settled.command.scenario /\ p \in WrittenFor(settled.command)
              /\ ly \in Layers
           \/ Rows(s, p, ly)' = Rows(s, p, ly)
  PROVE  SettledInv'
<1> DEFINE c == settled.command
           b == settled.db[6]
<1>1. /\ settled.db = << scenario, node_product, weekly_demand, lot, calendar_iso, b >>
      /\ SettledFor(c, b)
  BY DEF SettledInv
<1>2. PICK d, e : d = c /\ e = b
  OBVIOUS
<1>3. SettledFor(d, e)'
  <2>1. SettledFor(d, e)
    BY <1>1, <1>2
  <2>2. /\ Registered(d)' /\ LotsOwned(d)' /\ InSync(d)'
        /\ WrittenFor(d)' = WrittenFor(d)
        /\ \A s, p, ly : Slice(s, p, PlanOf(s, p), ly)' = Slice(s, p, PlanOf(s, p), ly)
    BY <2>1, SameTables DEF SettledFor
  <2>3. \A s, p, ly :
          \/ s = d.scenario /\ p \in WrittenFor(d) /\ ly \in Layers
          \/ Rows(s, p, ly)' = RowsIn(e, s, p, ly)
    BY <1>2, <2>1 DEF SettledFor
  <2>4. \A p \in WrittenFor(d), ly \in Layers :
          RowsIn(e, d.scenario, p, ly) = Slice(d.scenario, p, PlanOf(d.scenario, p), ly)'
    BY <2>1, <2>2 DEF SettledFor
  <2>5. d.scenario \in DOMAIN scenario'
    BY <2>1 DEF SettledFor
  <2> QED
    BY <2>2, <2>3, <2>4, <2>5 DEF SettledFor
<1>4. SettledFor(c, b)'
  <2>1. c' = d /\ b' = e
    BY <1>2
  <2> QED
    BY <1>3, <2>1
<1> HIDE DEF c, b
<1> QED
  BY <1>1, <1>4 DEF SettledInv, c, b

LEMMA FinishSettles ==
  ASSUME Inv, RunInv, Finish PROVE SettledInv'
<1>1. PICK c, b : c = command /\ b = lot_bucket
  OBVIOUS
<1>2. /\ phase = "pairs" /\ todo = {} /\ phase' = "idle"
      /\ settled'.command = c
      /\ settled'.db = << scenario, node_product, weekly_demand, lot, calendar_iso, b >>
      /\ UNCHANGED << scenario, node_product, weekly_demand, lot, calendar_iso, lot_bucket >>
  BY <1>1 DEF Finish, Rest, db
<1>3. /\ Registered(c) /\ LotsOwned(c) /\ InSync(c) /\ c.scenario \in DOMAIN scenario
  BY <1>1, <1>2 DEF RunInv, Inv, EtlDone, Planning
<1>4. \A p \in WrittenFor(c), ly \in Layers :
        RowsIn(b, c.scenario, p, ly) = Slice(c.scenario, p, PlanOf(c.scenario, p), ly)
  BY <1>1, <1>2, ByCommand DEF Inv, WrittenSoFar, Planning, Current, Rows, RowsIn
<1>5. \A s, p, ly : Rows(s, p, ly)' = RowsIn(b, s, p, ly)
  BY <1>1, <1>2 DEF Rows, RowsIn
<1>6. /\ Registered(c)' /\ LotsOwned(c)' /\ InSync(c)' /\ WrittenFor(c)' = WrittenFor(c)
      /\ \A s, p, ly : Slice(s, p, PlanOf(s, p), ly)' = Slice(s, p, PlanOf(s, p), ly)
  BY <1>2, <1>3, SameTables
<1>7. SettledFor(c, b)'
  BY <1>2, <1>3, <1>4, <1>5, <1>6 DEF SettledFor
<1>8. settled'.db[6] = b
  BY <1>2
<1> QED
  BY <1>2, <1>7, <1>8 DEF SettledInv

LEMMA NextSettled ==
  ASSUME Inv, RunInv, SettledInv, [Next]_vars PROVE SettledInv'
<1>1. CASE Finish
  BY <1>1, FinishSettles
<1>2. CASE \E c \in Commands : Start(c) /\ settled' = None
  BY <1>2 DEF SettledInv
<1>3. CASE ~ Finish /\ ~ \E c \in Commands : Start(c) /\ settled' = None
  <2>1. UNCHANGED settled
    BY <1>3 DEF Next, Step, Start, Crash, EtlRegister, EtlLots, SyncCalendar, SkipCalendar,
         CalendarRaises, FindPairs, NoScenario, LoadPair, PairRaises, RunRaises,
         DeleteSlice, InsertSlice, Raises, db, vars
  <2> SUFFICES ASSUME settled # None PROVE SettledInv'
    BY <2>1 DEF SettledInv
  <2>2. UNCHANGED << scenario, node_product, weekly_demand, lot, calendar_iso >>
    <3>1. CASE EtlRegister \/ EtlLots \/ SyncCalendar
      BY <3>1, NothingToRegister
    <3>2. CASE ~ (EtlRegister \/ EtlLots \/ SyncCalendar)
      BY <1>3, <3>2 DEF Next, Step, Start, Crash, SkipCalendar,
         CalendarRaises, FindPairs, NoScenario, LoadPair, PairRaises, RunRaises,
         DeleteSlice, InsertSlice, Raises, db, vars
    <3> QED
      BY <3>1, <3>2
  <2>3. phase' # "idle" => command' = settled.command
    <3>1. CASE \E c \in Commands : Start(c)
      BY <1>3, <2>1, <3>1 DEF Start
    <3>2. CASE ~ \E c \in Commands : Start(c)
      <4>1. phase' = "idle" \/ (UNCHANGED command /\ (phase = "idle" => phase' = "idle"))
        BY <1>3, <3>2 DEF Next, Step, Crash, EtlRegister, EtlLots, SyncCalendar, SkipCalendar,
         CalendarRaises, FindPairs, NoScenario, LoadPair, PairRaises, RunRaises,
         DeleteSlice, InsertSlice, Raises, Rest, vars
      <4> QED
        BY <4>1 DEF SettledInv
    <3> QED
      BY <3>1, <3>2
  <2>4. ASSUME NEW s, NEW p, NEW ly
        PROVE  \/ /\ s = settled.command.scenario /\ p \in WrittenFor(settled.command)
                  /\ ly \in Layers
               \/ Rows(s, p, ly)' = Rows(s, p, ly)
    <3>1. CASE DeleteSlice \/ InsertSlice
      <4>1. /\ command = settled.command /\ layer \in Layers
            /\ pair \in WrittenFor(settled.command)
        <5>1. phase \in {"delete", "insert"}
          BY <3>1 DEF DeleteSlice, InsertSlice
        <5>2. pair \in PairsToWrite /\ Plannable(pair) /\ layer \in Layers
          BY <5>1 DEF Inv, TypeOK, RunInv, Planning, Writing
        <5>3. command = settled.command
          BY <5>1 DEF SettledInv
        <5> QED
          BY <5>2, <5>3, ByCommand DEF Written
      <4>2. CASE s = command.scenario /\ p = pair /\ ly = layer
        BY <4>1, <4>2
      <4>3. CASE ~ (s = command.scenario /\ p = pair /\ ly = layer)
        BY <3>1, <4>3, Deleted, InsertedIsCurrent DEF DeleteSlice
      <4> QED
        BY <4>2, <4>3
    <3>2. CASE ~ (DeleteSlice \/ InsertSlice)
      <4>1. UNCHANGED lot_bucket
        BY <1>3, <3>2 DEF Next, Step, Start, Crash, EtlRegister, EtlLots, SyncCalendar,
           SkipCalendar, CalendarRaises, FindPairs, NoScenario, LoadPair, PairRaises,
           RunRaises, Raises, db, vars
      <4> QED
        BY <4>1, RowsStay
    <3> QED
      BY <3>1, <3>2
  <2> QED
    BY <2>1, <2>2, <2>3, <2>4, SettledStays
<1> QED
  BY <1>1, <1>2, <1>3

(* Running a command again is idempotent: a run that repeats a completed   *)
(* one, after any number of its own crashes, leaves every table as that    *)
(* one left it (main of orchestrator.py on a database that is up to date). *)
THEOREM RerunsAreIdle == Spec => RerunChangesNothing
<1>1. ASSUME Inv, RunInv, SettledInv, Finish, settled # None PROVE db = settled.db
  <2>1. PICK c, b : c = settled.command /\ b = settled.db[6]
    OBVIOUS
  <2>2. /\ phase = "pairs" /\ todo = {} /\ command = c /\ SettledFor(c, b)
        /\ settled.db = << scenario, node_product, weekly_demand, lot, calendar_iso, b >>
    BY <1>1, <2>1 DEF Finish, SettledInv
  <2>3. \A p \in WrittenFor(c), ly \in Layers :
          Rows(c.scenario, p, ly) = Slice(c.scenario, p, PlanOf(c.scenario, p), ly)
    BY <1>1, <2>2, ByCommand DEF Inv, WrittenSoFar, Planning, Current
  <2>4. \A s, p, ly : Rows(s, p, ly) = RowsIn(b, s, p, ly)
    BY <2>2, <2>3 DEF SettledFor
  <2>5. \A r : r \in lot_bucket <=> r \in b
    <3> SUFFICES ASSUME NEW r PROVE r \in lot_bucket <=> r \in b
      OBVIOUS
    <3>1. Rows(r.scenario, r.pair, r.row.layer) = RowsIn(b, r.scenario, r.pair, r.row.layer)
      BY <2>4
    <3> QED
      BY <3>1 DEF Rows, RowsIn
  <2>6. lot_bucket = b
    BY <2>5
  <2> QED
    BY <2>2, <2>6 DEF db
<1>2. Inv /\ RunInv /\ SettledInv /\ [Next]_vars => RunInv' /\ SettledInv'
  BY NextRun, NextSettled
<1>3. Inv /\ RunInv /\ SettledInv /\ [Next]_vars =>
        [Finish /\ settled # None => db = settled.db]_vars
  BY <1>1
<1> QED
  BY <1>2, <1>3, InitRun, Invariance, PTL DEF Spec, RerunChangesNothing

=============================================================================
