---------------------------- MODULE MCPlanStore ----------------------------
(***************************************************************************)
(* Model-checking instance of PlanStore: three ISO years of two weeks,     *)
(* three files (a year, a revision of it with fewer lots, the year after;  *)
(* the first and the last spill into a year that is not theirs), and the   *)
(* command lines of two scenarios.                                         *)
(***************************************************************************)
EXTENDS PlanStore

CONSTANTS pA, pB

Weeks3 == << << 1, 1 >>, << 1, 2 >>, << 2, 1 >>, << 2, 2 >>, << 3, 1 >>, << 3, 2 >> >>
Safety == [p \in Pairs |-> IF p = pA THEN 0 ELSE 1]

Lot(p, y, w, n) == [pair |-> p, week |-> << y, w >>, no |-> n]
Year1    == [years |-> {1}, lots |-> { Lot(pA, 1, 1, 1), Lot(pA, 1, 2, 1),
                                       Lot(pA, 1, 2, 2), Lot(pA, 2, 1, 1) }]
Revised1 == [years |-> {1}, lots |-> { Lot(pA, 1, 2, 1) }]
Year2    == [years |-> {2}, lots |-> { Lot(pA, 2, 1, 1), Lot(pB, 2, 2, 1),
                                       Lot(pB, 3, 1, 1) }]
Files    == {Year1, Revised1, Year2}

Leaf(s, c) == [scenario |-> s, csv |-> c, skip_calendar |-> FALSE, tree |-> FALSE,
               network |-> {}, fallback |-> pA]
Tree(s, c, net) == [Leaf(s, c) EXCEPT !.tree = TRUE, !.network = net, !.fallback = pB]

CommandLines ==
  { Leaf("base", c) : c \in {Year1, Revised1, NoCsv} }
  \cup { Leaf("alt", Year2), Tree("base", NoCsv, {pB}),
         [Tree("alt", NoCsv, {pA}) EXCEPT !.skip_calendar = TRUE],
         [Leaf("base", NoCsv) EXCEPT !.skip_calendar = TRUE] }
=============================================================================
