------------------------- MODULE MomBackwardProofs -------------------------
(***************************************************************************)
(* Proofs about MomBackward, for every tree, capacity table, number of     *)
(* weeks, early-build window and number of calls.                          *)
(***************************************************************************)
EXTENDS MomBackward, SequenceTheorems, FiniteSetTheorems, TLAPS

----------------------------------------------------------------------------
(* Splitting a bucket at the capacity                                      *)

(* The kept and the overflowing part of a bucket are buckets, and the kept *)
(* part is within the capacity.                                            *)
LEMMA TakeDropType ==
  ASSUME NEW S, NEW q \in Seq(S), NEW n \in Nat
  PROVE  /\ Take(q, n) \in Seq(S)
         /\ Drop(q, n) \in Seq(S)
         /\ Len(Take(q, n)) = Lesser(n, Len(q))
         /\ Len(Take(q, n)) <= n
         /\ Len(Drop(q, n)) = Len(q) - Lesser(n, Len(q))
         /\ \A i \in 1 .. Lesser(n, Len(q)) : Take(q, n)[i] = q[i]
         /\ \A i \in 1 .. Len(q) - Lesser(n, Len(q)) :
              Drop(q, n)[i] = q[i + Lesser(n, Len(q))]
<1>1. Len(q) \in Nat /\ Lesser(n, Len(q)) \in 0 .. Len(q)
  BY DEF Lesser
<1>2. /\ Take(q, n) \in Seq(S)
      /\ Len(Take(q, n)) = Lesser(n, Len(q))
      /\ \A i \in 1 .. Lesser(n, Len(q)) : Take(q, n)[i] = q[i]
  BY <1>1, SubSeqProperties DEF Take
<1>3. /\ Drop(q, n) \in Seq(S)
      /\ Len(Drop(q, n)) = Len(q) - Lesser(n, Len(q))
      /\ \A i \in 1 .. Len(q) - Lesser(n, Len(q)) :
           Drop(q, n)[i] = q[i + Lesser(n, Len(q))]
  BY <1>1, SubSeqProperties DEF Drop
<1>4. QED
  BY <1>1, <1>2, <1>3 DEF Lesser

(* A lot of the bucket is in one of the two parts.                         *)
LEMMA TakeDropHolds ==
  ASSUME NEW S, NEW q \in Seq(S), NEW n \in Nat, NEW x, Holds(q, x)
  PROVE  Holds(Take(q, n), x) \/ Holds(Drop(q, n), x)
<1>1. PICK i \in 1 .. Len(q) : q[i] = x
  BY DEF Holds
<1>2. Len(q) \in Nat /\ Lesser(n, Len(q)) \in 0 .. Len(q)
  BY DEF Lesser
<1>3. CASE i <= Lesser(n, Len(q))
  <2>1. i \in 1 .. Len(Take(q, n)) /\ Take(q, n)[i] = q[i]
    BY <1>2, <1>3, TakeDropType
  <2>2. QED
    BY <2>1, <1>1, TakeDropType DEF Holds
<1>4. CASE i > Lesser(n, Len(q))
  <2> DEFINE j == i - Lesser(n, Len(q))
  <2>1. j \in 1 .. Len(Drop(q, n)) /\ Drop(q, n)[j] = q[i]
    BY <1>2, <1>4, TakeDropType
  <2>2. QED
    BY <2>1, <1>1, TakeDropType DEF Holds
<1>5. QED
  BY <1>2, <1>3, <1>4

(* Appending or concatenating keeps what a bucket holds.                   *)
LEMMA AppendHolds ==
  ASSUME NEW S, NEW q \in Seq(S), NEW y \in S, NEW x
  PROVE  Holds(Append(q, y), x) <=> Holds(q, x) \/ x = y
<1>1. ASSUME x = y PROVE Holds(Append(q, y), x)
  <2>1. Len(q) + 1 \in DOMAIN Append(q, y) /\ Append(q, y)[Len(q) + 1] = x
    BY <1>1
  <2>2. QED
    BY <2>1 DEF Holds
<1>2. ASSUME Holds(q, x) PROVE Holds(Append(q, y), x)
  BY <1>2 DEF Holds
<1>3. ASSUME Holds(Append(q, y), x), x # y PROVE Holds(q, x)
  <2>1. PICK i \in 1 .. Len(q) + 1 : Append(q, y)[i] = x
    BY <1>3 DEF Holds
  <2>2. QED
    BY <2>1, <1>3 DEF Holds
<1>4. QED
  BY <1>1, <1>2, <1>3

(* A concatenation holds what its two parts hold.                          *)
LEMMA ConcatHolds ==
  ASSUME NEW S, NEW q \in Seq(S), NEW r \in Seq(S), NEW x
  PROVE  Holds(q \o r, x) <=> Holds(q, x) \/ Holds(r, x)
<1>1. ASSUME Holds(r, x) PROVE Holds(q \o r, x)
  <2>1. PICK i \in 1 .. Len(r) : r[i] = x
    BY <1>1 DEF Holds
  <2>2. (q \o r)[Len(q) + i] = x /\ Len(q) + i \in DOMAIN (q \o r)
    BY <2>1
  <2>3. QED
    BY <2>2 DEF Holds
<1>2. ASSUME Holds(q, x) PROVE Holds(q \o r, x)
  BY <1>2 DEF Holds
<1>3. ASSUME Holds(q \o r, x) PROVE Holds(q, x) \/ Holds(r, x)
  <2>1. PICK i \in 1 .. Len(q) + Len(r) : (q \o r)[i] = x
    BY <1>3 DEF Holds
  <2>2. QED
    BY <2>1 DEF Holds
<1>4. QED
  BY <1>1, <1>2, <1>3

(* A head-first overflow queue loses nothing but its head.                 *)
LEMMA TailHolds ==
  ASSUME NEW S, NEW q \in Seq(S), q # << >>, NEW x
  PROVE  Holds(q, x) <=> x = Head(q) \/ Holds(Tail(q), x)
<1>1. ASSUME Holds(q, x), x # Head(q) PROVE Holds(Tail(q), x)
  <2>1. PICK i \in 1 .. Len(q) : q[i] = x
    BY <1>1 DEF Holds
  <2>2. i # 1
    BY <2>1, <1>1
  <2>3. i - 1 \in DOMAIN Tail(q) /\ Tail(q)[i - 1] = x
    BY <2>1, <2>2
  <2>4. QED
    BY <2>3 DEF Holds
<1>2. QED
  BY <1>1 DEF Holds

(* Every MOM's resolved capacity is a table of naturals.                   *)
LEMMA ResolvedType ==
  ASSUME IsSetting(setting)
  PROVE  \A m : ResolvedCapacity(m) \in [Weeks -> Nat]
BY DEF IsSetting, IsTable, ResolvedCapacity, Normalize

----------------------------------------------------------------------------
(* Type correctness                                                        *)

(* Weeks are the integers from 0 below NWeeks.                             *)
LEMMA WeekFacts ==
  /\ 0 \in Weeks
  /\ \A w \in Weeks : w \in Int /\ w >= 0 /\ w < NWeeks
  /\ \A w \in Weeks : w + 1 < NWeeks => w + 1 \in Weeks
BY NWeeksAssumption DEF Weeks

(* The counters only ever grow by natural numbers.                         *)
LEMMA CountersGrow ==
  ASSUME NEW c \in Counters, NEW a \in Nat, NEW b \in Nat
  PROVE  /\ [c EXCEPT !.planned = @ + a] \in Counters
         /\ [c EXCEPT !.backlog = @ + 1] \in Counters
         /\ [c EXCEPT !.accepted = @ + 1, !.shifted = @ + 1] \in Counters
         /\ [c EXCEPT !.checked = @ + a, !.accepted = @ + b] \in Counters
<1>1. /\ c.planned + a \in Nat /\ c.backlog + 1 \in Nat
      /\ c.accepted + 1 \in Nat /\ c.shifted + 1 \in Nat
      /\ c.checked + a \in Nat /\ c.accepted + b \in Nat
  BY DEF Counters
<1>2. QED
  BY <1>1, Zenon DEF Counters

(* The inputs a first call may find have the right type.                   *)
LEMMA InitType == Init => TypeOK
<1> SUFFICES ASSUME Init PROVE TypeOK
  OBVIOUS
<1>1. PICK i \in Inputs : dS = i.s /\ dP = i.p /\ setting = i.setting /\ junkP = i.setting.junkP
  BY DEF Init
<1>2. dS \in Buckets /\ dP \in Buckets /\ IsSetting(setting)
      /\ junkP \subseteq Moms \X Weeks
  BY <1>1, InputsAssumption DEF IsSetting
<1>3. /\ phase = "idle" /\ calls = 0 /\ todo = Moms /\ cur = NoMom /\ week = 0
      /\ cap = [w \in Weeks |-> 0] /\ overflow = << >> /\ shifted = {}
      /\ backlog = {} /\ count = Zero /\ usage = {}
  BY DEF Init
<1>4. count \in Counters
  BY <1>3 DEF Counters, Zero
<1>5. QED
  BY <1>2, <1>3, <1>4, WeekFacts, MaxCallsAssumption DEF TypeOK, Phases

(* Every action keeps every variable in its type.                          *)
LEMMA NextType == TypeOK /\ [Next]_vars => TypeOK'
<1> SUFFICES ASSUME TypeOK, [Next]_vars PROVE TypeOK'
  OBVIOUS
<1> USE DEF TypeOK, Phases
<1>1. CASE Call
  BY <1>1, MaxCallsAssumption DEF Call, Counters, Zero
<1>2. ASSUME NEW m \in Moms, SkipMom(m) PROVE TypeOK'
  BY <1>2 DEF SkipMom
<1>3. ASSUME NEW m \in Moms, BeginMom(m) PROVE TypeOK'
  BY <1>3, ResolvedType, WeekFacts DEF BeginMom, tree, result
<1>4. CASE SkipWeek
  BY <1>4, WeekFacts DEF SkipWeek, NextPlanWeek, tree
<1>5. CASE PlanWeek
  <2>1. cur \in Moms /\ week \in Weeks
    BY <1>5 DEF PlanWeek
  <2>2. dS[cur][week] \in Seq(LotIds) /\ dP[cur][week] \in Seq(LotIds)
    BY <2>1 DEF Buckets
  <2>3. dP' \in Buckets
    BY <1>5, <2>1, <2>2 DEF PlanWeek, Buckets
  <2>4. count' \in Counters
    <3>1. Len(dS[cur][week]) \in Nat /\ count \in Counters
      BY <2>2
    <3>2. count' = [count EXCEPT !.planned = @ + Len(dS[cur][week])]
      BY <1>5 DEF PlanWeek
    <3>3. QED
      BY <3>1, <3>2, CountersGrow
  <2>5. QED
    BY <1>5, <2>3, <2>4, WeekFacts DEF PlanWeek, NextPlanWeek
<1>6. CASE CheckRaises
  BY <1>6 DEF CheckRaises, tree, result
<1>7. CASE CheckWeek
  <2>1. cur \in Moms /\ week \in Weeks
    BY <1>7 DEF CheckWeek
  <2>2. dP[cur][week] \in Seq(LotIds) /\ cap[week] \in Nat
    BY <2>1 DEF Buckets
  <2>3. /\ Take(dP[cur][week], cap[week]) \in Seq(LotIds)
        /\ Drop(dP[cur][week], cap[week]) \in Seq(LotIds)
    BY <2>2, TakeDropType
  <2>4. dP' \in Buckets /\ overflow' \in Seq(LotIds)
    BY <1>7, <2>1, <2>3 DEF CheckWeek, Buckets
  <2>5. count' \in Counters
    <3>1. /\ Len(dP[cur][week]) \in Nat
          /\ Len(Take(dP[cur][week], cap[week])) \in Nat
          /\ count \in Counters
      BY <2>2, <2>3
    <3>2. count' = [count EXCEPT !.checked = @ + Len(dP[cur][week]),
                      !.accepted = @ + Len(Take(dP[cur][week], cap[week]))]
      BY <1>7 DEF CheckWeek
    <3>3. QED
      BY <3>1, <3>2, CountersGrow
  <2>6. QED
    BY <1>7, <2>4, <2>5 DEF CheckWeek
<1>8. CASE ShiftEarlier
  <2>1. /\ cur \in Moms /\ week \in Weeks
        /\ Head(overflow) \in LotIds /\ Tail(overflow) \in Seq(LotIds)
    BY <1>8 DEF ShiftEarlier
  <2>2. PICK v \in Open(week) :
          /\ dP' = [dP EXCEPT ![cur][v] = Append(@, Head(overflow))]
          /\ shifted' = shifted \cup {Shift(Head(overflow), v)}
    BY <1>8 DEF ShiftEarlier
  <2>3. v \in Weeks
    BY DEF Open, Window
  <2>4. dP' \in Buckets
    BY <2>1, <2>2, <2>3 DEF Buckets
  <2>5. shifted' \subseteq [lot : LotIds, mom : Moms, from : Weeks, to : Weeks]
    BY <2>1, <2>2, <2>3 DEF Shift
  <2>6. count' \in Counters
    BY <1>8, CountersGrow DEF ShiftEarlier
  <2>7. QED
    BY <1>8, <2>1, <2>4, <2>5, <2>6 DEF ShiftEarlier
<1>9. CASE RecordBacklog
  <2>1. /\ cur \in Moms /\ week \in Weeks
        /\ Head(overflow) \in LotIds /\ Tail(overflow) \in Seq(LotIds)
    BY <1>9 DEF RecordBacklog
  <2>2. backlog' \subseteq [lot : LotIds, mom : Moms, week : Weeks]
    BY <1>9, <2>1 DEF RecordBacklog, Backlogged
  <2>3. count' \in Counters
    BY <1>9, CountersGrow DEF RecordBacklog
  <2>4. QED
    BY <1>9, <2>1, <2>2, <2>3 DEF RecordBacklog, tree
<1>10. CASE NextCheckWeek
  BY <1>10, WeekFacts DEF NextCheckWeek, tree, result
<1>11. CASE EndMom
  <2>1. cur \in Moms
    BY <1>11 DEF EndMom
  <2>2. \A w \in Weeks : Len(dP[cur][w]) \in Nat /\ cap[w] \in Nat
    BY <2>1 DEF Buckets
  <2>3. usage' \subseteq [mom : Moms, week : Weeks, used : Nat, capacity : Nat]
    BY <1>11, <2>1, <2>2 DEF EndMom
  <2>4. QED
    BY <1>11, <2>3 DEF EndMom, tree
<1>12. CASE Return
  BY <1>12 DEF Return, tree, result
<1>13. CASE UNCHANGED vars
  BY <1>13 DEF vars, IsSetting, IsTable
<1>14. QED
  BY <1>1, <1>2, <1>3, <1>4, <1>5, <1>6, <1>7, <1>8, <1>9, <1>10, <1>11,
     <1>12, <1>13 DEF Next

(* Type correctness: whatever the tree and the capacity tables, every      *)
(* bucket stays a sequence of lot ids and every record well formed.        *)
THEOREM TypeCorrect == Spec => []TypeOK
<1>1. QED
  BY InitType, NextType, PTL DEF Spec

----------------------------------------------------------------------------
(* Capacity                                                                *)

(* No step changes the capacity tables.                                    *)
LEMMA SettingStep ==
  ASSUME [Next]_vars
  PROVE  setting' = setting /\ \A m : ResolvedCapacity(m)' = ResolvedCapacity(m)
<1>1. setting' = setting
  BY DEF Next, vars, tree, Call, SkipMom, BeginMom, SkipWeek, PlanWeek,
         CheckRaises, CheckWeek, ShiftEarlier, RecordBacklog, NextCheckWeek,
         EndMom, Return
<1>2. QED
  BY <1>1 DEF ResolvedCapacity

(* While a node is being planned it is one with a psi4demand list, and cap *)
(* is the capacity resolved for it.                                        *)
PlanningInv ==
  phase \in {"plan", "check", "place", "raised"} =>
    cap = ResolvedCapacity(cur) /\ cur \notin setting.noPsi

(* Every action keeps cap the resolved capacity of the current MOM.        *)
LEMMA NextCap == TypeOK /\ PlanningInv /\ [Next]_vars => PlanningInv'
<1> SUFFICES ASSUME TypeOK, PlanningInv, [Next]_vars PROVE PlanningInv'
  OBVIOUS
<1> USE SettingStep DEF PlanningInv, tree, result
<1>1. CASE Call \/ Return \/ EndMom
  BY <1>1 DEF Call, Return, EndMom
<1>2. ASSUME NEW m \in Moms, SkipMom(m) PROVE PlanningInv'
  BY <1>2 DEF SkipMom
<1>3. ASSUME NEW m \in Moms, BeginMom(m) PROVE PlanningInv'
  BY <1>3 DEF BeginMom
<1>4. CASE SkipWeek \/ PlanWeek
  BY <1>4 DEF SkipWeek, PlanWeek, NextPlanWeek
<1>5. CASE CheckRaises \/ CheckWeek \/ NextCheckWeek
  BY <1>5 DEF CheckRaises, CheckWeek, NextCheckWeek
<1>6. CASE ShiftEarlier \/ RecordBacklog
  BY <1>6 DEF ShiftEarlier, RecordBacklog
<1>7. CASE UNCHANGED vars
  BY <1>7 DEF vars
<1>8. QED
  BY <1>1, <1>2, <1>3, <1>4, <1>5, <1>6, <1>7 DEF Next

(* Which weeks are checked after each kind of step.                        *)
LEMMA CheckedStep ==
  ASSUME TypeOK, [Next]_vars, NEW m \in Moms, NEW w \in Weeks, Checked(m, w)'
  PROVE  Checked(m, w) \/ (CheckWeek /\ m = cur /\ w = week)
<1> USE DEF TypeOK, Checked, Finished, CheckedWeeks, tree, result, Weeks
<1>1. CASE Call \/ Return
  BY <1>1 DEF Call, Return
<1>2. ASSUME NEW n \in Moms, SkipMom(n) PROVE Checked(m, w)
  BY <1>2 DEF SkipMom
<1>3. ASSUME NEW n \in Moms, BeginMom(n) PROVE Checked(m, w)
  BY <1>3 DEF BeginMom
<1>4. CASE SkipWeek \/ PlanWeek
  <2>1. /\ todo' = todo /\ cur' = cur /\ setting' = setting
        /\ \/ phase' = "plan"
           \/ phase' = "check" /\ week' = 0
    BY <1>4 DEF SkipWeek, PlanWeek, NextPlanWeek
  <2>2. CheckedWeeks' = {}
    BY <2>1
  <2>3. QED
    BY <2>1, <2>2
<1>5. CASE CheckRaises
  BY <1>5 DEF CheckRaises
<1>6. CASE CheckWeek
  BY <1>6 DEF CheckWeek
<1>7. CASE ShiftEarlier \/ RecordBacklog
  BY <1>7 DEF ShiftEarlier, RecordBacklog
<1>8. CASE NextCheckWeek
  BY <1>8 DEF NextCheckWeek
<1>9. CASE EndMom
  BY <1>9 DEF EndMom
<1>10. CASE UNCHANGED vars
  BY <1>10 DEF vars
<1>11. QED
  BY <1>1, <1>2, <1>3, <1>4, <1>5, <1>6, <1>7, <1>8, <1>9, <1>10 DEF Next

(* What a step does to one production bucket.                              *)
LEMMA BucketStep ==
  ASSUME TypeOK, [Next]_vars, NEW m \in Moms, NEW w \in Weeks
  PROVE  \/ dP'[m][w] = dP[m][w]
         \/ /\ PlanWeek /\ m = cur /\ w = week
            /\ dP'[m][w] = dP[m][w] \o dS[m][w]
         \/ /\ CheckWeek /\ m = cur /\ w = week
            /\ dP'[m][w] = Take(dP[m][w], cap[w])
         \/ /\ ShiftEarlier /\ m = cur /\ w \in Open(week)
            /\ \A u \in Open(week) : u <= w
            /\ dP'[m][w] = Append(dP[m][w], Head(overflow))
            /\ shifted' = shifted \cup {Shift(Head(overflow), w)}
<1> USE DEF TypeOK, Buckets
<1>1. CASE \/ Call \/ SkipWeek \/ CheckRaises \/ RecordBacklog \/ NextCheckWeek
           \/ EndMom \/ Return \/ UNCHANGED vars
           \/ \E n \in Moms : SkipMom(n) \/ BeginMom(n)
  BY <1>1 DEF Call, SkipWeek, CheckRaises, RecordBacklog, NextCheckWeek, EndMom,
              Return, SkipMom, BeginMom, tree, vars
<1>2. CASE PlanWeek
  BY <1>2 DEF PlanWeek
<1>3. CASE CheckWeek
  BY <1>3 DEF CheckWeek
<1>4. CASE ShiftEarlier
  <2>1. PICK v \in Open(week) :
          /\ \A u \in Open(week) : u <= v
          /\ dP' = [dP EXCEPT ![cur][v] = Append(@, Head(overflow))]
          /\ shifted' = shifted \cup {Shift(Head(overflow), v)}
    BY <1>4 DEF ShiftEarlier
  <2>2. cur \in Moms /\ v \in Weeks
    BY <1>4 DEF ShiftEarlier, Open, Window
  <2>3. QED
    BY <1>4, <2>1, <2>2
<1>5. QED
  BY <1>1, <1>2, <1>3, <1>4 DEF Next

(* No action puts a lot into a checked week that is already full.          *)
LEMMA NextCapacity ==
  TypeOK /\ PlanningInv /\ CapacityRespected /\ [Next]_vars => CapacityRespected'
<1> SUFFICES ASSUME TypeOK, PlanningInv, CapacityRespected, [Next]_vars,
                    NEW m \in Moms, NEW w \in Weeks, Checked(m, w)'
             PROVE  (Len(dP[m][w]) <= ResolvedCapacity(m)[w])'
  BY DEF CapacityRespected
<1>1. /\ dP[m][w] \in Seq(LotIds) /\ cap \in [Weeks -> Nat]
      /\ ResolvedCapacity(m)' = ResolvedCapacity(m)
  BY SettingStep DEF TypeOK, Buckets
<1>2. CASE CheckWeek /\ m = cur /\ w = week
  <2>1. dP'[m][w] = Take(dP[m][w], cap[w])
    BY <1>2 DEF CheckWeek, TypeOK, Buckets
  <2>2. cap = ResolvedCapacity(m)
    BY <1>2 DEF CheckWeek, PlanningInv
  <2>3. QED
    BY <1>1, <2>1, <2>2, TakeDropType
<1>3. CASE Checked(m, w)
  <2>1. Len(dP[m][w]) <= ResolvedCapacity(m)[w]
    BY <1>3 DEF CapacityRespected
  <2>2. CASE dP'[m][w] = dP[m][w]
    BY <1>1, <2>1, <2>2
  <2>3. ~ (PlanWeek /\ m = cur)
    BY <1>3 DEF PlanWeek, Checked, CheckedWeeks, Finished, TypeOK
  <2>4. CASE CheckWeek /\ m = cur /\ w = week
    BY <2>4, <1>2
  <2>5. CASE /\ ShiftEarlier /\ m = cur /\ w \in Open(week)
             /\ dP'[m][w] = Append(dP[m][w], Head(overflow))
    <3>1. cap = ResolvedCapacity(m) /\ Len(dP[m][w]) < cap[w]
      BY <2>5 DEF ShiftEarlier, PlanningInv, Open, Room
    <3>2. Len(dP'[m][w]) = Len(dP[m][w]) + 1
      BY <2>5, <1>1 DEF ShiftEarlier, TypeOK
    <3>3. QED
      BY <1>1, <3>1, <3>2
  <2>6. QED
    BY <2>2, <2>3, <2>4, <2>5, BucketStep
<1>4. QED
  BY <1>2, <1>3, CheckedStep

(* Nothing is checked before the first call.                               *)
LEMMA InitCapacity == Init => PlanningInv /\ CapacityRespected
<1> SUFFICES ASSUME Init PROVE PlanningInv /\ CapacityRespected
  OBVIOUS
<1>1. phase = "idle" /\ todo = Moms
  BY DEF Init
<1>2. QED
  BY <1>1 DEF PlanningInv, CapacityRespected, Checked, Finished, CheckedWeeks

(* The capacity promise: from the moment a week of a MOM is checked to the *)
(* end of the call its production is within the resolved capacity.         *)
THEOREM Capacity == Spec => []CapacityRespected
<1>1. Init => TypeOK /\ PlanningInv /\ CapacityRespected
  BY InitType, InitCapacity
<1>2. /\ TypeOK /\ PlanningInv /\ CapacityRespected
      /\ [Next]_vars
      => TypeOK' /\ PlanningInv' /\ CapacityRespected'
  BY NextType, NextCap, NextCapacity
<1>3. QED
  BY <1>1, <1>2, PTL DEF Spec

----------------------------------------------------------------------------
(* No lot disappears                                                       *)

(* Lots wait in overflow only while a week's overflow is being placed, and *)
(* then the week itself is full.                                           *)
OverflowInv ==
  /\ phase # "place" => overflow = << >>
  /\ phase = "place" /\ overflow # << >> => Full(cur, week)

(* Every action keeps it that lots wait only at a full week.               *)
LEMMA NextOverflow ==
  TypeOK /\ PlanningInv /\ OverflowInv /\ [Next]_vars => OverflowInv'
<1> SUFFICES ASSUME TypeOK, PlanningInv, OverflowInv, [Next]_vars PROVE OverflowInv'
  OBVIOUS
<1> USE DEF OverflowInv
<1>1. CASE Call \/ SkipWeek \/ PlanWeek \/ CheckRaises \/ NextCheckWeek
           \/ EndMom \/ Return \/ \E m \in Moms : SkipMom(m) \/ BeginMom(m)
  <2>1. overflow' = << >>
    BY <1>1 DEF Call, SkipWeek, PlanWeek, CheckRaises, NextCheckWeek, EndMom,
                Return, SkipMom, BeginMom
  <2>2. QED
    BY <2>1
<1>2. CASE CheckWeek
  <2>1. /\ cur \in Moms /\ week \in Weeks /\ cur' = cur /\ week' = week
        /\ cap = ResolvedCapacity(cur) /\ phase' = "place"
        /\ dP'[cur][week] = Take(dP[cur][week], cap[week])
        /\ overflow' = Drop(dP[cur][week], cap[week])
    BY <1>2 DEF CheckWeek, TypeOK, Buckets, PlanningInv
  <2>2. dP[cur][week] \in Seq(LotIds) /\ cap[week] \in Nat
    BY <2>1 DEF TypeOK, Buckets
  <2>3. ASSUME overflow' # << >> PROVE Len(dP'[cur][week]) >= cap[week]
    <3>1. Len(Drop(dP[cur][week], cap[week])) # 0
      BY <2>1, <2>2, <2>3, TakeDropType, EmptySeq
    <3>2. Len(Take(dP[cur][week], cap[week])) = cap[week]
      BY <2>2, <3>1, TakeDropType DEF Lesser
    <3>3. QED
      BY <2>1, <2>2, <3>2
  <2>4. QED
    BY <2>1, <2>3, SettingStep DEF Full
<1>3. CASE ShiftEarlier \/ RecordBacklog
  <2>1. /\ cur' = cur /\ week' = week /\ phase = "place" /\ phase' = "place"
        /\ overflow # << >> /\ cur \in Moms /\ week \in Weeks
    BY <1>3 DEF ShiftEarlier, RecordBacklog, TypeOK
  <2>2. week \notin Open(week)
    BY <2>1 DEF Open, Window, Weeks
  <2>3. dP'[cur][week] = dP[cur][week]
    BY <1>3, <2>1, <2>2, BucketStep DEF ShiftEarlier, RecordBacklog, PlanWeek, CheckWeek
  <2>4. Full(cur, week)
    BY <2>1
  <2>5. QED
    BY <2>1, <2>3, <2>4, SettingStep DEF Full
<1>4. CASE UNCHANGED vars
  BY <1>4, SettingStep DEF vars, Full
<1>5. QED
  BY <1>1, <1>2, <1>3, <1>4 DEF Next

(* The weeks planned after a step were planned before, but for the one     *)
(* PlanWeek has just planned.                                              *)
LEMMA PlannedStep ==
  ASSUME TypeOK, [Next]_vars, NEW m \in Moms, NEW w \in PlannedWeeks(m)'
  PROVE  w \in PlannedWeeks(m) \/ (PlanWeek /\ m = cur /\ w = week)
<1> USE DEF TypeOK, PlannedWeeks, Finished, tree, result, Weeks
<1>1. CASE Call
  BY <1>1 DEF Call
<1>2. ASSUME NEW n \in Moms, SkipMom(n) PROVE w \in PlannedWeeks(m)
  BY <1>2 DEF SkipMom
<1>3. ASSUME NEW n \in Moms, BeginMom(n) PROVE w \in PlannedWeeks(m)
  BY <1>3 DEF BeginMom
<1>4. CASE SkipWeek \/ PlanWeek
  <2>1. /\ todo' = todo /\ cur' = cur /\ setting' = setting /\ phase = "plan"
        /\ week \in Weeks /\ SkipWeek => << cur, week >> \in setting.malformed
        /\ \/ phase' = "plan" /\ week' = week + 1
           \/ phase' = "check" /\ week + 1 >= NWeeks
    <3>1. week \in Weeks /\ week \in Int /\ NWeeks \in Int
      BY NWeeksAssumption
    <3>2. NextPlanWeek
      BY <1>4, Zenon DEF SkipWeek, PlanWeek
    <3>3. /\ \/ phase' = "plan" /\ week' = week + 1
             \/ phase' = "check" /\ week + 1 >= NWeeks
      BY <3>1, <3>2 DEF NextPlanWeek
    <3>4. /\ todo' = todo /\ cur' = cur /\ setting' = setting /\ phase = "plan"
          /\ SkipWeek => << cur, week >> \in setting.malformed
      BY <1>4 DEF SkipWeek, PlanWeek
    <3>5. QED
      BY <3>1, <3>3, <3>4
  <2>2. w \in Weeks /\ << m, w >> \notin setting.malformed
    BY <2>1
  <2>3. CASE m \in Finished
    BY <2>2, <2>3
  <2>4. CASE m \notin Finished
    <3>1. m = cur /\ w <= week
      BY <2>1, <2>4, NWeeksAssumption
    <3>2. CASE w < week
      BY <2>1, <2>2, <3>1, <3>2
    <3>3. CASE w = week
      BY <1>4, <2>1, <2>2, <3>1, <3>3
    <3>4. QED
      BY <2>1, <3>1, <3>2, <3>3
  <2>5. QED
    BY <2>3, <2>4
<1>5. CASE CheckRaises \/ CheckWeek
  BY <1>5 DEF CheckRaises, CheckWeek
<1>6. CASE ShiftEarlier \/ RecordBacklog
  BY <1>6 DEF ShiftEarlier, RecordBacklog
<1>7. CASE NextCheckWeek \/ EndMom \/ Return
  BY <1>7 DEF NextCheckWeek, EndMom, Return
<1>8. CASE UNCHANGED vars
  BY <1>8 DEF vars
<1>9. QED
  BY <1>1, <1>2, <1>3, <1>4, <1>5, <1>6, <1>7, <1>8 DEF Next

(* The demand never changes, and a call's backlog records stay until the   *)
(* next call.                                                              *)
LEMMA RecordsStep ==
  ASSUME [Next]_vars
  PROVE  dS' = dS /\ (Call \/ (backlog \subseteq backlog' /\ shifted \subseteq shifted'))
BY DEF Next, vars, tree, result, SkipMom, BeginMom, SkipWeek, PlanWeek, Call,
       CheckRaises, CheckWeek, ShiftEarlier, RecordBacklog, NextCheckWeek,
       EndMom, Return

(* A lot that stands in a production bucket before a step still stands     *)
(* there after it, or has joined the overflow of the node being planned.   *)
LEMMA BuiltLotStep ==
  ASSUME TypeOK, [Next]_vars, NEW m \in Moms, NEW v \in Weeks, NEW lot \in LotIds,
         Holds(dP[m][v], lot)
  PROVE  Holds(dP'[m][v], lot) \/ (m = cur' /\ Holds(overflow', lot))
<1>1. dP[m][v] \in Seq(LotIds) /\ dS[m][v] \in Seq(LotIds) /\ cap[v] \in Nat
  BY DEF TypeOK, Buckets
<1>2. CASE PlanWeek /\ dP'[m][v] = dP[m][v] \o dS[m][v]
  BY <1>1, <1>2, ConcatHolds
<1>3. CASE CheckWeek /\ m = cur /\ v = week /\ dP'[m][v] = Take(dP[m][v], cap[v])
  <2>1. m = cur' /\ overflow' = Drop(dP[m][v], cap[v])
    BY <1>3 DEF CheckWeek
  <2>2. QED
    BY <1>1, <1>3, <2>1, TakeDropHolds
<1>4. CASE ShiftEarlier /\ dP'[m][v] = Append(dP[m][v], Head(overflow))
  <2>1. Head(overflow) \in LotIds
    BY <1>4 DEF ShiftEarlier, TypeOK
  <2>2. QED
    BY <1>1, <1>4, <2>1, AppendHolds
<1>5. QED
  BY <1>2, <1>3, <1>4, BucketStep

(* An overflow lot that is taken out of the queue is in an earlier week or *)
(* in the backlog of its MOM.                                              *)
LEMMA WaitingLotStep ==
  ASSUME TypeOK, OverflowInv, [Next]_vars, NEW lot \in LotIds, Holds(overflow, lot)
  PROVE  \/ \E v \in Weeks : Holds(dP'[cur][v], lot)
         \/ cur' = cur /\ Holds(overflow', lot)
         \/ \E b \in backlog' : b.lot = lot /\ b.mom = cur
<1>1. overflow # << >> /\ phase = "place"
  BY DEF OverflowInv, Holds
<1>2. lot = Head(overflow) \/ Holds(Tail(overflow), lot)
  BY <1>1, TailHolds DEF TypeOK
<1>3. CASE ShiftEarlier
  <2>1. PICK v \in Open(week) :
          dP' = [dP EXCEPT ![cur][v] = Append(@, Head(overflow))]
    BY <1>3 DEF ShiftEarlier
  <2>2. /\ cur \in Moms /\ v \in Weeks /\ cur' = cur
        /\ overflow' = Tail(overflow) /\ Head(overflow) \in LotIds
    BY <1>3 DEF ShiftEarlier, TypeOK, Open, Window
  <2>3. /\ dP[cur][v] \in Seq(LotIds)
        /\ dP'[cur][v] = Append(dP[cur][v], Head(overflow))
    BY <2>1, <2>2 DEF TypeOK, Buckets
  <2>4. Holds(dP'[cur][v], Head(overflow))
    BY <2>2, <2>3, AppendHolds
  <2>5. QED
    BY <1>2, <2>2, <2>4
<1>4. CASE RecordBacklog
  <2>1. /\ cur' = cur /\ overflow' = Tail(overflow)
        /\ Backlogged(Head(overflow)) \in backlog'
    BY <1>4 DEF RecordBacklog
  <2>2. /\ Backlogged(Head(overflow)).lot = Head(overflow)
        /\ Backlogged(Head(overflow)).mom = cur
    BY DEF Backlogged
  <2>3. QED
    BY <1>2, <2>1, <2>2
<1>5. CASE UNCHANGED vars
  BY <1>5 DEF vars
<1>6. QED
  BY <1>1, <1>3, <1>4, <1>5 DEF Next, Call, SkipMom, BeginMom, SkipWeek, PlanWeek,
     CheckRaises, CheckWeek, NextCheckWeek, EndMom, Return

(* No action loses a lot between demand, plan, overflow and backlog.       *)
LEMMA NextNoLoss ==
  TypeOK /\ OverflowInv /\ NoLotDisappears /\ [Next]_vars => NoLotDisappears'
<1> SUFFICES ASSUME TypeOK, OverflowInv, NoLotDisappears, [Next]_vars,
                    NEW m \in Moms, NEW w \in PlannedWeeks(m)', NEW lot \in LotIds,
                    Holds(dS[m][w], lot)'
             PROVE  \/ \E v \in Weeks : Holds(dP'[m][v], lot)
                    \/ m = cur' /\ Holds(overflow', lot)
                    \/ \E b \in backlog' : b.lot = lot /\ b.mom = m
  BY DEF NoLotDisappears, Holds
<1>1. w \in Weeks /\ Holds(dS[m][w], lot)
  BY RecordsStep DEF PlannedWeeks, Holds, Weeks
<1>2. CASE PlanWeek /\ m = cur /\ w = week
  <2>1. /\ dP[m][w] \in Seq(LotIds) /\ dS[m][w] \in Seq(LotIds)
        /\ dP'[m][w] = dP[m][w] \o dS[m][w]
    BY <1>1, <1>2 DEF PlanWeek, TypeOK, Buckets
  <2>2. Holds(dP'[m][w], lot)
    BY <1>1, <2>1, ConcatHolds
  <2>3. QED
    BY <1>1, <2>2
<1>3. CASE w \in PlannedWeeks(m)
  <2>1. CASE \E v \in Weeks : Holds(dP[m][v], lot)
    BY <2>1, BuiltLotStep
  <2>2. CASE m = cur /\ Holds(overflow, lot)
    BY <2>2, WaitingLotStep
  <2>3. CASE \E b \in backlog : b.lot = lot /\ b.mom = m
    <3>1. ~ Call
      BY DEF Call, PlannedWeeks, Finished, TypeOK
    <3>2. QED
      BY <2>3, <3>1, RecordsStep
  <2>4. QED
    BY <1>1, <1>3, <2>1, <2>2, <2>3 DEF NoLotDisappears
<1>4. QED
  BY <1>2, <1>3, PlannedStep

(* The conservation promise: capacity changes when a demand lot is built,  *)
(* or makes it a backlog record of its MOM; it never erases the lot.       *)
THEOREM NoLotLost == Spec => []NoLotDisappears
<1>1. Init => /\ TypeOK /\ PlanningInv /\ OverflowInv /\ NoLotDisappears
  <2>1. ASSUME Init PROVE OverflowInv /\ NoLotDisappears
    <3>1. phase = "idle" /\ overflow = << >> /\ todo = Moms
      BY <2>1 DEF Init
    <3>2. QED
      BY <3>1 DEF OverflowInv, NoLotDisappears, PlannedWeeks, Finished
  <2>2. QED
    BY <2>1, InitType, InitCapacity
<1>2. /\ TypeOK /\ PlanningInv /\ OverflowInv /\ NoLotDisappears
      /\ [Next]_vars
      => TypeOK' /\ PlanningInv' /\ OverflowInv' /\ NoLotDisappears'
  BY NextType, NextCap, NextOverflow, NextNoLoss
<1>3. QED
  BY <1>1, <1>2, PTL DEF Spec

----------------------------------------------------------------------------
(* No capacity is wasted while lots wait                                   *)

(* The weeks before a checked week are checked too.                        *)
LEMMA CheckedDown ==
  ASSUME NEW m, NEW w \in Weeks, Checked(m, w), NEW v \in Weeks, v <= w,
         week \in Weeks
  PROVE  Checked(m, v)
BY DEF Checked, CheckedWeeks, Weeks

(* Only the next call forgets that a week was checked.                     *)
LEMMA CheckedKept ==
  ASSUME TypeOK, PlanningInv, [Next]_vars, ~ Call, NEW m \in Moms, NEW w \in Weeks, Checked(m, w)
  PROVE  Checked(m, w)'
<1> USE DEF TypeOK, Checked, Finished, CheckedWeeks, tree, result, Weeks
<1>1. CASE SkipWeek \/ PlanWeek
  <2>1. todo' = todo /\ setting' = setting /\ phase = "plan"
    BY <1>1 DEF SkipWeek, PlanWeek
  <2>2. QED
    BY <2>1
<1>2. ASSUME NEW n \in Moms, SkipMom(n) PROVE Checked(m, w)'
  BY <1>2 DEF SkipMom
<1>3. ASSUME NEW n \in Moms, BeginMom(n) PROVE Checked(m, w)'
  BY <1>3 DEF BeginMom
<1>4. CASE CheckRaises
  BY <1>4 DEF CheckRaises
<1>5. CASE CheckWeek
  BY <1>5 DEF CheckWeek
<1>6. CASE ShiftEarlier \/ RecordBacklog
  BY <1>6 DEF ShiftEarlier, RecordBacklog
<1>7. CASE NextCheckWeek
  BY <1>7 DEF NextCheckWeek
<1>8. CASE Return
  BY <1>8 DEF Return
<1>9. CASE UNCHANGED vars
  BY <1>9 DEF vars
<1>10. CASE EndMom
  <2>1. /\ phase = "place" /\ todo' = todo \ {cur} /\ setting' = setting
        /\ cur' = cur /\ phase' = "mom"
    BY <1>10 DEF EndMom
  <2>2. CASE m = cur
    <3>1. cur \notin setting.noPsi
      BY <2>1 DEF PlanningInv
    <3>2. QED
      BY <2>1, <2>2, <3>1
  <2>3. QED
    BY <2>1, <2>2
<1>11. QED
  BY <1>1, <1>2, <1>3, <1>4, <1>5, <1>6, <1>7, <1>8, <1>9, <1>10 DEF Next

(* A week is planned and checked before it counts as checked.              *)
LEMMA NotYetChecked ==
  ASSUME TypeOK, PlanWeek \/ CheckWeek
  PROVE  ~ Checked(cur, week)
<1>1. phase = "plan" \/ phase = "check"
  BY Zenon DEF PlanWeek, CheckWeek
<1>2. cur \in todo /\ week \in Int
  BY <1>1, NWeeksAssumption DEF TypeOK, Weeks
<1>3. cur \notin Finished /\ week \notin CheckedWeeks
  BY <1>1, <1>2 DEF Finished, CheckedWeeks
<1>4. QED
  BY <1>3 DEF Checked

(* A checked week that is full stays full until the next call.             *)
LEMMA FullKept ==
  ASSUME TypeOK, PlanningInv, [Next]_vars, NEW m \in Moms, NEW w \in Weeks,
         Checked(m, w), Full(m, w)
  PROVE  Full(m, w)'
<1>1. /\ dP[m][w] \in Seq(LotIds)
      /\ ResolvedCapacity(m)' = ResolvedCapacity(m)
      /\ ResolvedCapacity(m)[w] \in Nat
  BY SettingStep, ResolvedType DEF TypeOK, Buckets
<1>2. ~ ((PlanWeek \/ CheckWeek) /\ m = cur /\ w = week)
  BY NotYetChecked
<1>3. CASE dP'[m][w] = dP[m][w]
  BY <1>1, <1>3 DEF Full
<1>4. CASE ShiftEarlier /\ dP'[m][w] = Append(dP[m][w], Head(overflow))
  <2>1. Len(dP'[m][w]) = Len(dP[m][w]) + 1
    BY <1>1, <1>4
  <2>2. QED
    BY <1>1, <2>1 DEF Full
<1>5. QED
  BY <1>2, <1>3, <1>4, BucketStep

(* A backlogged or shifted lot comes from a week that has been checked.    *)
RecordsChecked ==
  /\ \A b \in backlog : Checked(b.mom, b.week)
  /\ \A s \in shifted : Checked(s.mom, s.from)

(* The two properties below in terms of the window that is searched.       *)
WindowsFull ==
  \A b \in backlog : \A v \in Window(b.week) \cup {b.week} : Full(b.mom, v)

ShiftsInWindow ==
  \A s \in shifted :
    /\ s.to \in Window(s.from)
    /\ \A v \in Weeks : s.to < v /\ v <= s.from => Full(s.mom, v)

FullInv == RecordsChecked /\ WindowsFull /\ ShiftsInWindow

(* Weeks that were full for an old backlog entry stay full.                *)
LEMMA NextFullOld ==
  ASSUME TypeOK, PlanningInv, FullInv, [Next]_vars, ~ Call
  PROVE  /\ \A b \in backlog :
              /\ Checked(b.mom, b.week)'
              /\ \A v \in Window(b.week) \cup {b.week} : Full(b.mom, v)'
         /\ \A s \in shifted :
              /\ Checked(s.mom, s.from)'
              /\ s.to \in Window(s.from)
              /\ \A v \in Weeks : s.to < v /\ v <= s.from => Full(s.mom, v)'
<1> USE DEF FullInv, RecordsChecked
<1>1. ASSUME NEW b \in backlog
      PROVE  /\ Checked(b.mom, b.week)'
             /\ \A v \in Window(b.week) \cup {b.week} : Full(b.mom, v)'
  <2>1. b.mom \in Moms /\ b.week \in Weeks /\ week \in Weeks
    BY DEF TypeOK
  <2>2. Checked(b.mom, b.week)'
    BY <2>1, CheckedKept
  <2>3. ASSUME NEW v \in Window(b.week) \cup {b.week} PROVE Full(b.mom, v)'
    <3>1. v \in Weeks /\ v <= b.week
      BY <2>1 DEF Window, Weeks
    <3>2. Checked(b.mom, v)
      BY <2>1, <3>1, CheckedDown
    <3>3. Full(b.mom, v)
      BY DEF WindowsFull
    <3>4. QED
      BY <2>1, <3>1, <3>2, <3>3, FullKept
  <2>4. QED
    BY <2>2, <2>3
<1>2. ASSUME NEW s \in shifted
      PROVE  /\ Checked(s.mom, s.from)'
             /\ s.to \in Window(s.from)
             /\ \A v \in Weeks : s.to < v /\ v <= s.from => Full(s.mom, v)'
  <2>1. s.mom \in Moms /\ s.from \in Weeks /\ week \in Weeks
    BY DEF TypeOK
  <2>2. Checked(s.mom, s.from)'
    BY <2>1, CheckedKept
  <2>3. ASSUME NEW v \in Weeks, s.to < v, v <= s.from PROVE Full(s.mom, v)'
    <3>1. Checked(s.mom, v)
      BY <2>1, <2>3, CheckedDown
    <3>2. Full(s.mom, v)
      BY <2>3 DEF ShiftsInWindow
    <3>3. QED
      BY <2>1, <3>1, <3>2, FullKept
  <2>4. QED
    BY <2>2, <2>3 DEF ShiftsInWindow
<1>3. QED
  BY <1>1, <1>2

(* Every action keeps the weeks in front of a backlog entry full.          *)
LEMMA NextFull ==
  TypeOK /\ PlanningInv /\ OverflowInv /\ FullInv /\ [Next]_vars => FullInv'
<1> SUFFICES ASSUME TypeOK, PlanningInv, OverflowInv, FullInv, [Next]_vars
             PROVE  FullInv'
  OBVIOUS
<1> USE DEF FullInv, RecordsChecked, WindowsFull, ShiftsInWindow
<1>1. CASE Call
  <2>1. backlog' = {} /\ shifted' = {}
    BY <1>1 DEF Call
  <2>2. QED
    BY <2>1
<1>2. CASE ~ Call /\ backlog' = backlog /\ shifted' = shifted
  BY <1>2, NextFullOld
<1>3. CASE RecordBacklog
  <2>1. PICK m \in Moms, w \in Weeks : m = cur /\ w = week
    BY <1>3 DEF RecordBacklog, TypeOK
  <2>2. /\ phase = "place" /\ overflow # << >> /\ Open(w) = {}
        /\ backlog' = backlog \cup {Backlogged(Head(overflow))}
        /\ shifted' = shifted /\ ~ Call /\ cap = ResolvedCapacity(m)
    BY <1>3, <2>1 DEF RecordBacklog, Call, PlanningInv
  <2>3. Checked(m, w)
    BY <2>1, <2>2 DEF Checked, CheckedWeeks, Weeks
  <2>4. ASSUME NEW v \in Window(w) \cup {w} PROVE Full(m, v)'
    <3>1. v \in Weeks /\ v <= w
      BY DEF Window, Weeks
    <3>2. Checked(m, v)
      BY <2>3, <3>1, CheckedDown DEF TypeOK
    <3>3. CASE v = w
      BY <2>1, <2>2, <2>3, <3>3, FullKept DEF OverflowInv
    <3>4. CASE v \in Window(w)
      <4>1. ~ Room(v)
        BY <2>2, <3>1, <3>4 DEF Open
      <4>2. dP[m][v] \in Seq(LotIds) /\ cap[v] \in Nat
        BY <3>1 DEF TypeOK, Buckets
      <4>3. Full(m, v)
        BY <2>1, <2>2, <4>1, <4>2 DEF Room, Full
      <4>4. QED
        BY <3>1, <3>2, <4>3, FullKept
    <3>5. QED
      BY <3>3, <3>4
  <2>5. Checked(m, w)'
    BY <2>2, <2>3, CheckedKept
  <2>6. /\ Backlogged(Head(overflow)).mom = m
        /\ Backlogged(Head(overflow)).week = w
    BY <2>1 DEF Backlogged
  <2>7. QED
    BY <2>2, <2>4, <2>5, <2>6, NextFullOld
<1>4. CASE ShiftEarlier
  <2>1. PICK m \in Moms, w \in Weeks : m = cur /\ w = week
    BY <1>4 DEF ShiftEarlier, TypeOK
  <2>2. PICK to \in Open(w) :
          /\ \A u \in Open(w) : u <= to
          /\ shifted' = shifted \cup {Shift(Head(overflow), to)}
    BY <1>4, <2>1 DEF ShiftEarlier
  <2>3. /\ phase = "place" /\ overflow # << >> /\ backlog' = backlog /\ ~ Call
        /\ to \in Window(w) /\ to \in Weeks /\ cap = ResolvedCapacity(m)
    BY <1>4, <2>1 DEF ShiftEarlier, Call, Open, Window, PlanningInv
  <2>4. Checked(m, w)
    BY <2>1, <2>3 DEF Checked, CheckedWeeks, Weeks
  <2>5. ASSUME NEW v \in Weeks, to < v, v <= w PROVE Full(m, v)'
    <3>1. Checked(m, v)
      BY <2>4, <2>5, CheckedDown DEF TypeOK
    <3>2. CASE v = w
      BY <2>1, <2>3, <2>4, <3>2, FullKept DEF OverflowInv
    <3>3. CASE v < w
      <4>1. v \in Window(w) /\ v \notin Open(w)
        BY <2>2, <2>3, <2>5, <3>3, MaxEarlyAssumption DEF Window, Weeks
      <4>2. ~ Room(v)
        BY <4>1 DEF Open
      <4>3. dP[m][v] \in Seq(LotIds) /\ cap[v] \in Nat
        BY DEF TypeOK, Buckets
      <4>4. Full(m, v)
        BY <2>1, <2>3, <4>2, <4>3 DEF Room, Full
      <4>5. QED
        BY <3>1, <4>4, FullKept
    <3>4. QED
      BY <2>5, <3>2, <3>3 DEF Weeks
  <2>6. Checked(m, w)'
    BY <2>3, <2>4, CheckedKept
  <2>7. /\ Shift(Head(overflow), to).mom = m
        /\ Shift(Head(overflow), to).from = w
        /\ Shift(Head(overflow), to).to = to
    BY <2>1 DEF Shift
  <2>8. QED
    BY <2>2, <2>3, <2>5, <2>6, <2>7, NextFullOld
<1>5. QED
  BY <1>1, <1>2, <1>3, <1>4 DEF Next, vars, tree, result, SkipMom, BeginMom,
     SkipWeek, PlanWeek, CheckRaises, CheckWeek, NextCheckWeek, EndMom, Return, Call

(* The work-conserving promise: a lot is given up only when its own week   *)
(* and the weeks fewer than max_early_build_weeks before it are full, and  *)
(* a lot is built early only as far as the full weeks push it.             *)
THEOREM WorkConserving == Spec => [](BacklogOnlyWhenFull /\ ShiftedToLatestRoom)
<1> DEFINE IInv == TypeOK /\ PlanningInv /\ OverflowInv /\ FullInv
<1>1. Init => IInv
  <2>1. ASSUME Init PROVE OverflowInv /\ FullInv
    <3>1. phase = "idle" /\ overflow = << >> /\ backlog = {} /\ shifted = {}
      BY <2>1 DEF Init
    <3>2. QED
      BY <3>1 DEF OverflowInv, FullInv, RecordsChecked, WindowsFull, ShiftsInWindow
  <2>2. QED
    BY <2>1, InitType, InitCapacity
<1>2. IInv /\ [Next]_vars => IInv'
  BY NextType, NextCap, NextOverflow, NextFull
<1>3. IInv => BacklogOnlyWhenFull /\ ShiftedToLatestRoom
  <2> SUFFICES ASSUME IInv PROVE BacklogOnlyWhenFull /\ ShiftedToLatestRoom
    OBVIOUS
  <2>1. \A b \in backlog : \A v \in Weeks :
          v = b.week \/ (v < b.week /\ b.week - v < MaxEarly) => v \in Window(b.week) \cup {b.week}
    BY MaxEarlyAssumption DEF TypeOK, Window, Weeks
  <2>2. \A s \in shifted : s.to \in Window(s.from) => s.to < s.from /\ s.from - s.to <= MaxEarly
    BY MaxEarlyAssumption DEF TypeOK, Window, Weeks
  <2> QED
    BY <2>1, <2>2 DEF FullInv, WindowsFull, ShiftsInWindow, BacklogOnlyWhenFull, ShiftedToLatestRoom
<1>4. QED
  BY <1>1, <1>2, <1>3, PTL DEF Spec

(* A lot moves by max_early_build_weeks at the most, and to the latest     *)
(* week with room: all weeks in between are full.                          *)
THEOREM ShiftsAreLatest == Spec => []ShiftedToLatestRoom
  BY WorkConserving, PTL

(* A checked week's bucket only ever grows at its end.                     *)
LEMMA CheckedBucketStep ==
  ASSUME TypeOK, [Next]_vars, NEW m \in Moms, NEW w \in Weeks, Checked(m, w)
  PROVE  SubSeq(dP'[m][w], 1, Len(dP[m][w])) = dP[m][w]
<1>1. dP[m][w] \in Seq(LotIds)
  BY DEF TypeOK, Buckets
<1>2. ~ ((PlanWeek \/ CheckWeek) /\ m = cur /\ w = week)
  BY NotYetChecked
<1>3. CASE dP'[m][w] = dP[m][w]
  BY <1>1, <1>3, SubSeqFull
<1>4. CASE ShiftEarlier /\ dP'[m][w] = Append(dP[m][w], Head(overflow))
  <2>1. Head(overflow) \in LotIds
    BY <1>4 DEF ShiftEarlier, TypeOK
  <2>2. SubSeq(Append(dP[m][w], Head(overflow)), 1, Len(dP[m][w])) = dP[m][w]
    BY <1>1, <2>1
  <2>3. QED
    BY <1>4, <2>2
<1>5. QED
  BY <1>2, <1>3, <1>4, BucketStep

(* A week that has been checked keeps the lots accepted for it, in their   *)
(* order, whatever overflow later weeks push into it.                      *)
THEOREM CheckedWeeksGrow == Spec => CheckedWeekOnlyGrows
<1>1. TypeOK /\ [Next]_vars =>
        [ \A m \in Moms, w \in Weeks :
            Checked(m, w) /\ Checked(m, w)' =>
              SubSeq(dP'[m][w], 1, Len(dP[m][w])) = dP[m][w] ]_vars
  BY CheckedBucketStep
<1>2. QED
  BY <1>1, TypeCorrect, PTL DEF Spec, CheckedWeekOnlyGrows

----------------------------------------------------------------------------
(* The usage table                                                         *)

(* A node in the usage table is planned; nothing touches its buckets any   *)
(* more in this call.                                                      *)
UsageInv == UsageIsThePlan /\ \A u \in usage : u.mom \notin todo

LEMMA NextUsage ==
  TypeOK /\ PlanningInv /\ CapacityRespected /\ UsageInv /\ [Next]_vars => UsageInv'
<1> SUFFICES ASSUME TypeOK, PlanningInv, CapacityRespected, UsageInv, [Next]_vars,
                    NEW u \in usage'
             PROVE  /\ u.used = Len(dP'[u.mom][u.week])
                    /\ u.used <= u.capacity
                    /\ u.capacity = ResolvedCapacity(u.mom)'[u.week]
                    /\ u.mom \notin todo'
  BY DEF UsageInv, UsageIsThePlan
<1>1. ResolvedCapacity(u.mom)' = ResolvedCapacity(u.mom)
  BY SettingStep
<1>2. CASE u \in usage /\ ~ Call
  <2>1. u.mom \in Moms /\ u.week \in Weeks /\ u.mom \notin todo
    BY <1>2 DEF TypeOK, UsageInv
  <2>2. todo' \subseteq todo
    BY <1>2 DEF Next, vars, tree, result, SkipMom, BeginMom, SkipWeek, PlanWeek,
       CheckRaises, CheckWeek, ShiftEarlier, RecordBacklog, NextCheckWeek, EndMom, Return
  <2>3. PlanWeek \/ CheckWeek \/ ShiftEarlier => cur \in todo
    BY DEF TypeOK, PlanWeek, CheckWeek, ShiftEarlier
  <2>4. dP'[u.mom][u.week] = dP[u.mom][u.week]
    BY <2>1, <2>3, BucketStep
  <2> QED
    BY <1>1, <1>2, <2>1, <2>2, <2>4 DEF UsageInv, UsageIsThePlan
<1>3. CASE u \notin usage
  <2>1. EndMom
    BY <1>3 DEF Next, vars, tree, result, Call, SkipMom, BeginMom, SkipWeek, PlanWeek,
       CheckRaises, CheckWeek, ShiftEarlier, RecordBacklog, NextCheckWeek, Return
  <2>2. /\ u \in { [mom |-> cur, week |-> w, used |-> Len(dP[cur][w]),
                    capacity |-> cap[w]] : w \in Weeks }
        /\ dP' = dP /\ todo' = todo \ {cur} /\ week + 1 = NWeeks /\ phase = "place"
    BY <1>3, <2>1 DEF EndMom, tree
  <2>3. PICK w \in Weeks : u = [mom |-> cur, week |-> w, used |-> Len(dP[cur][w]),
                                capacity |-> cap[w]]
    BY <2>2
  <2>4. cur \in Moms /\ cap = ResolvedCapacity(cur)
    BY <2>2 DEF TypeOK, PlanningInv
  <2>5. Checked(cur, w)
    BY <2>2, WeekFacts DEF Checked, CheckedWeeks, TypeOK, Weeks
  <2>6. Len(dP[cur][w]) <= cap[w]
    BY <2>4, <2>5 DEF CapacityRespected
  <2> QED
    BY <1>1, <2>2, <2>3, <2>4, <2>6
<1>4. CASE Call
  BY <1>4 DEF Call
<1> QED
  BY <1>2, <1>3, <1>4

(* The usage a call returns is what it leaves in the tree, within the      *)
(* capacity it is reported with (capacity_usage of                         *)
(* capacity_aware_inbound_backward_planning).                              *)
THEOREM UsageTrue == Spec => []UsageIsThePlan
<1> DEFINE IInv == TypeOK /\ PlanningInv /\ CapacityRespected /\ UsageInv
<1>1. Init => IInv
  BY InitType, InitCapacity DEF Init, UsageInv, UsageIsThePlan
<1>2. IInv /\ [Next]_vars => IInv'
  BY NextType, NextCap, NextCapacity, NextUsage
<1>3. IInv => UsageIsThePlan
  BY DEF UsageInv
<1> HIDE DEF IInv
<1>4. QED
  BY <1>1, <1>2, <1>3, PTL DEF Spec

----------------------------------------------------------------------------
(* Sums over the weeks                                                     *)

(* A set of naturals has a least member: of the intervals below its        *)
(* members, one has no other strictly inside it.                           *)
LEMMA LeastOfNat ==
  ASSUME NEW T \in SUBSET Nat, T # {}
  PROVE  \E x \in T : \A y \in T : x <= y
<1> DEFINE Below(x) == 1 .. x
           Belows   == { Below(x) : x \in T }
<1>1. Belows \subseteq FiniteSubsetsOf(Nat)
  BY FS_Interval DEF FiniteSubsetsOf
<1>2. PICK b \in Belows : \A c \in Belows : << c, b >> \notin StrictSubsetOrdering(Nat)
  <2>1. Belows # {}
    OBVIOUS
  <2> HIDE DEF Belows
  <2> QED
    BY <1>1, <2>1, FS_StrictSubsetOrderingWellFounded, WFMin
<1>3. PICK x \in T : b = Below(x)
  OBVIOUS
<1>4. ASSUME NEW y \in T, y < x PROVE FALSE
  <2>1. Below(y) \subseteq Below(x) /\ x \in Below(x) \ Below(y)
    BY <1>4
  <2>2. << Below(y), Below(x) >> \in StrictSubsetOrdering(Nat)
    BY <2>1 DEF StrictSubsetOrdering
  <2> QED
    BY <1>2, <1>3, <2>2
<1> QED
  BY <1>4

(* What holds at zero and is handed on holds up to the bound.              *)
LEMMA UpTo ==
  ASSUME NEW b \in Nat, NEW T, 0 \in T,
         \A i \in 1 .. b : i - 1 \in T => i \in T
  PROVE  0 .. b \subseteq T
<1> SUFFICES ASSUME (0 .. b) \ T # {} PROVE FALSE
  OBVIOUS
<1>1. PICK x \in (0 .. b) \ T : \A y \in (0 .. b) \ T : x <= y
  <2>1. (0 .. b) \ T \in SUBSET Nat
    OBVIOUS
  <2> QED
    BY <2>1, LeastOfNat
<1>2. x \in 1 .. b /\ x - 1 \in 0 .. b
  BY <1>1
<1>3. x - 1 \in T
  BY <1>1, <1>2
<1> QED
  BY <1>1, <1>2, <1>3

Iterated(g, first, step, b) ==
  g[0] = first /\ \A i \in 1 .. b : g[i] = step[i][g[i - 1]]

(* A value and a step determine a value for every natural up to a bound.   *)
LEMMA Iterates ==
  ASSUME NEW b \in Nat, NEW V, NEW first \in V, NEW step \in [1 .. b -> [V -> V]]
  PROVE  \E g \in [0 .. b -> V] : Iterated(g, first, step, b)
<1> DEFINE Good(k, g) == g[0] = first /\ \A i \in 1 .. k : g[i] = step[i][g[i - 1]]
           T == { k \in 0 .. b : \E g \in [0 .. k -> V] : Good(k, g) }
<1>1. 0 \in T
  <2> DEFINE g == [i \in 0 .. 0 |-> first]
  <2>1. g \in [0 .. 0 -> V] /\ Good(0, g)
    OBVIOUS
  <2> HIDE DEF g, Good
  <2> QED
    BY <2>1
<1>2. ASSUME NEW k \in 1 .. b, k - 1 \in T PROVE k \in T
  <2>1. PICK g \in [0 .. k - 1 -> V] : Good(k - 1, g)
    BY <1>2
  <2> DEFINE h == [i \in 0 .. k |-> IF i = k THEN step[k][g[k - 1]] ELSE g[i]]
  <2>2. g[k - 1] \in V
    OBVIOUS
  <2>3. h \in [0 .. k -> V]
    BY <2>2
  <2>4. \A i \in 0 .. k - 1 : h[i] = g[i]
    OBVIOUS
  <2>5. h[0] = first /\ h[k] = step[k][h[k - 1]]
    <3>1. 0 \in 0 .. k - 1 /\ k - 1 \in 0 .. k - 1 /\ k \in 0 .. k
      OBVIOUS
    <3>2. h[k] = step[k][g[k - 1]]
      BY <3>1
    <3> HIDE DEF h
    <3> QED
      BY <2>1, <2>4, <3>1, <3>2
  <2>6. \A i \in 1 .. k - 1 : h[i] = step[i][h[i - 1]]
    <3> SUFFICES ASSUME NEW i \in 1 .. k - 1 PROVE h[i] = step[i][h[i - 1]]
      OBVIOUS
    <3>1. i \in 0 .. k - 1 /\ i - 1 \in 0 .. k - 1
      OBVIOUS
    <3> HIDE DEF h
    <3> QED
      BY <2>1, <2>4, <3>1
  <2>7. Good(k, h)
    <3> HIDE DEF h
    <3> QED
      BY <2>5, <2>6
  <2> HIDE DEF h, Good
  <2> QED
    BY <2>3, <2>7
<1>3. 0 .. b \subseteq T
  <2> HIDE DEF T
  <2> QED
    BY <1>1, <1>2, UpTo
<1>4. b \in T
  BY <1>3
<1> QED
  BY <1>4 DEF Iterated

(* The number of lots in buckets b of node n up to week w.                 *)
Lots(b, n, w) ==
  LET upto[v \in Weeks] == Len(b[n][v]) + IF v = 0 THEN 0 ELSE upto[v - 1]
  IN upto[w]

(* The sums over the weeks satisfy their recursive definition.             *)
LEMMA LotsRecur ==
  ASSUME NEW b, NEW n, b[n] \in [Weeks -> Seq(LotIds)]
  PROVE  /\ 0 \in Weeks /\ Lots(b, n, 0) = Len(b[n][0])
         /\ \A w \in Weeks : /\ Lots(b, n, w) \in Nat
                             /\ w # 0 => /\ w - 1 \in Weeks
                                         /\ Lots(b, n, w) = Len(b[n][w]) + Lots(b, n, w - 1)
<1> DEFINE last == NWeeks - 1
           size == [w \in Weeks |-> Len(b[n][w])]
           step == [i \in 1 .. last |-> [x \in Nat |-> size[i] + x]]
<1>1. last \in Nat /\ Weeks = 0 .. last
  BY NWeeksAssumption DEF Weeks
<1>2. size \in [Weeks -> Nat]
  OBVIOUS
<1>3. PICK g \in [0 .. last -> Nat] : Iterated(g, size[0], step, last)
  <2>1. step \in [1 .. last -> [Nat -> Nat]] /\ size[0] \in Nat
    BY <1>1, <1>2
  <2> HIDE DEF last, size, step
  <2> QED
    BY <1>1, <2>1, Iterates
<1>4. g[0] = size[0] /\ \A i \in 1 .. last : g[i] = size[i] + g[i - 1]
  <2>1. \A i \in 1 .. last : i - 1 \in 0 .. last /\ g[i - 1] \in Nat
    BY <1>1
  <2>2. \A i \in 1 .. last : \A x \in Nat : step[i][x] = size[i] + x
    OBVIOUS
  <2> HIDE DEF last, size, step
  <2> QED
    BY <1>3, <2>1, <2>2 DEF Iterated
<1>5. g = [w \in Weeks |-> size[w] + IF w = 0 THEN 0 ELSE g[w - 1]]
  <2>1. ASSUME NEW w \in Weeks PROVE g[w] = size[w] + IF w = 0 THEN 0 ELSE g[w - 1]
    <3> HIDE DEF last, size
    <3>1. CASE w = 0
      BY <1>1, <1>2, <1>4, <3>1
    <3>2. CASE w # 0
      <4>1. w \in 1 .. last
        BY <1>1, <3>2
      <4> QED
        BY <1>4, <3>2, <4>1
    <3> QED
      BY <3>1, <3>2
  <2> HIDE DEF last, size
  <2> QED
    BY <1>1, <2>1
<1> DEFINE u == CHOOSE u : u = [v \in Weeks |-> Len(b[n][v]) + IF v = 0 THEN 0 ELSE u[v - 1]]
<1>6. u = [w \in Weeks |-> size[w] + IF w = 0 THEN 0 ELSE u[w - 1]]
  <2>1. g = [v \in Weeks |-> Len(b[n][v]) + IF v = 0 THEN 0 ELSE g[v - 1]]
    BY <1>5
  <2>2. u = [v \in Weeks |-> Len(b[n][v]) + IF v = 0 THEN 0 ELSE u[v - 1]]
    BY <2>1
  <2> HIDE DEF u
  <2> QED
    BY <2>2
<1> HIDE DEF u
<1>7. \A w \in Weeks : u[w] = size[w] + IF w = 0 THEN 0 ELSE u[w - 1]
  <2> HIDE DEF size
  <2> QED
    BY <1>6
<1> DEFINE T == { i \in 0 .. last : u[i] \in Nat }
<1>8. 0 .. last \subseteq T
  <2> HIDE DEF last, size
  <2>1. 0 \in T
    BY <1>1, <1>2, <1>7
  <2>2. ASSUME NEW i \in 1 .. last, i - 1 \in T PROVE i \in T
    <3>1. i \in Weeks /\ i # 0 /\ i \in 0 .. last
      BY <1>1
    <3>2. u[i] = size[i] + u[i - 1] /\ size[i] \in Nat /\ u[i - 1] \in Nat
      BY <1>2, <1>7, <2>2, <3>1
    <3> QED
      BY <3>1, <3>2
  <2> HIDE DEF T
  <2> QED
    BY <1>1, <2>1, <2>2, UpTo
<1>9. \A w : Lots(b, n, w) = u[w]
  BY DEF Lots, u
<1>10. \A w \in Weeks : u[w] \in Nat
  <2> HIDE DEF last
  <2> QED
    BY <1>1, <1>8
<1>11. 0 \in Weeks /\ u[0] = Len(b[n][0])
  <2>1. 0 \in Weeks /\ u[0] = size[0] + 0 /\ size[0] \in Nat
    <3> HIDE DEF last, size
    <3> QED
      BY <1>1, <1>2, <1>7
  <2> QED
    BY <2>1
<1>12. ASSUME NEW w \in Weeks, w # 0 PROVE w - 1 \in Weeks /\ u[w] = Len(b[n][w]) + u[w - 1]
  BY <1>1, <1>7, <1>12
<1> HIDE DEF last, size
<1> QED
  BY <1>9, <1>10, <1>11, <1>12

(* The sums of two rows of buckets that differ by k lots in one bucket.    *)
Differ(b, c, n, v, k) ==
  /\ Len(c[n][v]) = Len(b[n][v]) + k
  /\ \A w \in Weeks : w # v => Len(c[n][w]) = Len(b[n][w])

SumsDiffer(b, c, n, v, k) ==
  \A w \in Weeks : Lots(c, n, w) = Lots(b, n, w) + IF v <= w THEN k ELSE 0

LEMMA LotsChange ==
  ASSUME NEW b, NEW c, NEW n, b[n] \in [Weeks -> Seq(LotIds)], c[n] \in [Weeks -> Seq(LotIds)],
         NEW v \in Weeks, NEW k \in Int, Differ(b, c, n, v, k)
  PROVE  SumsDiffer(b, c, n, v, k)
<1> DEFINE last == NWeeks - 1
           Same(w) == Lots(c, n, w) = Lots(b, n, w) + IF v <= w THEN k ELSE 0
           T == { i \in 0 .. last : Same(i) }
<1>1. last \in Nat /\ Weeks = 0 .. last /\ v \in 0 .. last
  BY NWeeksAssumption DEF Weeks
<1>2. \A w \in Weeks : Len(b[n][w]) \in Nat /\ Len(c[n][w]) \in Nat
  OBVIOUS
<1> USE DEF Differ
<1>3. 0 \in T
  <2>1. Lots(c, n, 0) = Len(c[n][0]) /\ Lots(b, n, 0) = Len(b[n][0]) /\ 0 \in Weeks
    BY LotsRecur
  <2>2. Same(0)
    <3> HIDE DEF last
    <3>1. CASE v = 0
      BY <1>2, <2>1, <3>1
    <3>2. CASE v # 0
      <4>1. ~ v <= 0
        BY <1>1, <3>2
      <4> QED
        BY <1>2, <2>1, <3>2, <4>1
    <3> QED
      BY <3>1, <3>2
  <2> HIDE DEF last, Same
  <2> QED
    BY <1>1, <2>2
<1>4. ASSUME NEW i \in 1 .. last, i - 1 \in T PROVE i \in T
  <2>1. i \in Weeks /\ i # 0 /\ i - 1 \in Weeks /\ i \in 0 .. last /\ Same(i - 1)
    <3> HIDE DEF last, Same
    <3> QED
      BY <1>1, <1>4
  <2>2. /\ Lots(c, n, i) = Len(c[n][i]) + Lots(c, n, i - 1)
        /\ Lots(b, n, i) = Len(b[n][i]) + Lots(b, n, i - 1)
        /\ Lots(c, n, i - 1) \in Nat /\ Lots(b, n, i - 1) \in Nat
    BY <2>1, LotsRecur
  <2>3. Len(b[n][i]) \in Nat /\ Len(c[n][i]) \in Nat
    BY <1>2, <2>1
  <2>4. Same(i)
    <3> DEFINE lc == Len(c[n][i])
               lb == Len(b[n][i])
               sc == Lots(c, n, i - 1)
               sb == Lots(b, n, i - 1)
               e == IF v <= i - 1 THEN k ELSE 0
    <3>1. sc = sb + e /\ e \in Int
      BY <2>1
    <3>2. v \in Int /\ i \in Int
      BY <1>1
    <3>3. lc + sc = (lb + sb) + IF v <= i THEN k ELSE 0
      <4>1. CASE v = i
        <5>1. lc = lb + k /\ e = 0 /\ v <= i
          BY <3>2, <4>1
        <5>2. lb \in Int /\ sb \in Int
          BY <2>2, <2>3
        <5> HIDE DEF lc, lb, sc, sb, e
        <5> QED
          BY <3>1, <5>1, <5>2
      <4>2. CASE v # i
        <5>1. lc = lb
          BY <2>1, <4>2
        <5>2. v <= i <=> v <= i - 1
          BY <3>2, <4>2
        <5>3. e = IF v <= i THEN k ELSE 0
          BY <5>2
        <5>4. lb \in Int /\ sb \in Int
          BY <2>2, <2>3
        <5> HIDE DEF lc, lb, sc, sb, e
        <5> QED
          BY <3>1, <5>1, <5>3, <5>4
      <4> QED
        BY <4>1, <4>2
    <3> HIDE DEF lc, lb, sc, sb, e
    <3>4. Lots(c, n, i) = lc + sc /\ Lots(b, n, i) = lb + sb
      BY <2>2 DEF lc, lb, sc, sb
    <3> QED
      BY <3>3, <3>4, Zenon
  <2> HIDE DEF last, Same
  <2> QED
    BY <2>1, <2>4
<1>5. 0 .. last \subseteq T
  <2> HIDE DEF T
  <2> QED
    BY <1>1, <1>3, <1>4, UpTo
<1>6. \A w \in Weeks : Same(w)
  <2> HIDE DEF last, Same
  <2> QED
    BY <1>1, <1>5
<1> QED
  BY <1>6 DEF SumsDiffer

SameBuckets(b, c, n) == \A w \in Weeks : c[n][w] = b[n][w]
SumsAgree(b, c, n) == \A w \in Weeks : Lots(c, n, w) = Lots(b, n, w)

LEMMA LotsSame ==
  ASSUME NEW b, NEW c, NEW n, b[n] \in [Weeks -> Seq(LotIds)], c[n] \in [Weeks -> Seq(LotIds)],
         SameBuckets(b, c, n)
  PROVE  SumsAgree(b, c, n)
<1>1. 0 \in Weeks /\ \A w \in Weeks : Lots(b, n, w) \in Nat
  BY LotsRecur
<1>2. Len(b[n][0]) \in Nat
  BY <1>1
<1>3. PICK k \in Int : k = 0
  OBVIOUS
<1>4. PICK v \in Weeks : v = 0
  BY <1>1
<1>5. Differ(b, c, n, v, k)
  BY <1>1, <1>2, <1>3, <1>4 DEF Differ, SameBuckets
<1>6. SumsDiffer(b, c, n, v, k)
  BY <1>5, LotsChange
<1> QED
  BY <1>1, <1>3, <1>6 DEF SumsDiffer, SumsAgree

LEMMA AddingBounds ==
  ASSUME NEW k0 \in Nat, NEW k1 \in Nat, NEW p1 \in Nat, NEW s1 \in Nat,
         NEW pp \in Nat, NEW ss \in Nat,
         k1 <= k0 + p1 - s1, k0 <= pp - ss
  PROVE  k1 <= (p1 + pp) - (s1 + ss)
OBVIOUS

(* A stock that never grows by more than what is made and not shipped, and *)
(* that grows by as much if it is soft, adds up.                           *)
Flows(p, s, k, n, soft) ==
  /\ Len(k[n][0]) <= Len(p[n][0]) - Len(s[n][0])
  /\ soft => Len(k[n][0]) = Len(p[n][0]) - Len(s[n][0])
  /\ \A w \in Weeks : w # 0 =>
       /\ Len(k[n][w]) <= Len(k[n][w - 1]) + Len(p[n][w]) - Len(s[n][w])
       /\ soft => Len(k[n][w]) = Len(k[n][w - 1]) + Len(p[n][w]) - Len(s[n][w])

AddsUp(p, s, k, n, soft) ==
  \A w \in Weeks :
    /\ Len(k[n][w]) <= Lots(p, n, w) - Lots(s, n, w)
    /\ soft => Len(k[n][w]) = Lots(p, n, w) - Lots(s, n, w)

LEMMA StockAddsUp ==
  ASSUME NEW p, NEW s, NEW k, NEW n, NEW soft \in BOOLEAN,
         p[n] \in [Weeks -> Seq(LotIds)], s[n] \in [Weeks -> Seq(LotIds)],
         k[n] \in [Weeks -> Seq(LotIds)], Flows(p, s, k, n, soft)
  PROVE  AddsUp(p, s, k, n, soft)
<1> DEFINE last == NWeeks - 1
           Adds(w) == /\ Len(k[n][w]) <= Lots(p, n, w) - Lots(s, n, w)
                      /\ soft => Len(k[n][w]) = Lots(p, n, w) - Lots(s, n, w)
           T == { i \in 0 .. last : Adds(i) }
<1>1. last \in Nat /\ Weeks = 0 .. last
  BY NWeeksAssumption DEF Weeks
<1>2. \A w \in Weeks : /\ Len(k[n][w]) \in Nat /\ Len(p[n][w]) \in Nat
                       /\ Len(s[n][w]) \in Nat
  OBVIOUS
<1>3. 0 \in T
  <2>1. Adds(0)
    BY <1>2, LotsRecur DEF Flows
  <2> HIDE DEF last, Adds
  <2> QED
    BY <1>1, <2>1
<1>4. ASSUME NEW i \in 1 .. last, i - 1 \in T PROVE i \in T
  <2>1. i \in Weeks /\ i # 0 /\ i - 1 \in Weeks /\ Adds(i - 1)
    <3> HIDE DEF last, Adds
    <3> QED
      BY <1>1, <1>4
  <2>2. /\ Lots(p, n, i) = Len(p[n][i]) + Lots(p, n, i - 1)
        /\ Lots(s, n, i) = Len(s[n][i]) + Lots(s, n, i - 1)
        /\ Lots(p, n, i - 1) \in Nat /\ Lots(s, n, i - 1) \in Nat
    BY <1>2, <2>1, LotsRecur
  <2>3. /\ Len(k[n][i]) <= Len(k[n][i - 1]) + Len(p[n][i]) - Len(s[n][i])
        /\ soft => Len(k[n][i]) = Len(k[n][i - 1]) + Len(p[n][i]) - Len(s[n][i])
    BY <2>1 DEF Flows
  <2>4. Len(k[n][i]) \in Nat /\ Len(p[n][i]) \in Nat /\ Len(s[n][i]) \in Nat
        /\ Len(k[n][i - 1]) \in Nat
    BY <1>2, <2>1
  <2>5. Len(k[n][i - 1]) <= Lots(p, n, i - 1) - Lots(s, n, i - 1)
    BY <2>1
  <2>6. Len(k[n][i]) <= Lots(p, n, i) - Lots(s, n, i)
    <3>1. Len(k[n][i]) <= Len(k[n][i - 1]) + Len(p[n][i]) - Len(s[n][i])
      BY <2>3
    <3>2. Len(k[n][i]) <= (Len(p[n][i]) + Lots(p, n, i - 1)) - (Len(s[n][i]) + Lots(s, n, i - 1))
      BY <2>2, <2>4, <2>5, <3>1, AddingBounds
    <3> QED
      BY <2>2, <3>2, Zenon
  <2>7. ASSUME soft PROVE Len(k[n][i]) = Lots(p, n, i) - Lots(s, n, i)
    <3> DEFINE k0 == Len(k[n][i - 1])
               k1 == Len(k[n][i])
               p1 == Len(p[n][i])
               s1 == Len(s[n][i])
               pp == Lots(p, n, i - 1)
               ss == Lots(s, n, i - 1)
    <3>1. k0 = pp - ss /\ k1 = k0 + p1 - s1
      BY <2>1, <2>3, <2>7
    <3>2. Lots(p, n, i) = p1 + pp /\ Lots(s, n, i) = s1 + ss
      BY <2>2
    <3>3. p1 \in Nat /\ s1 \in Nat /\ pp \in Nat /\ ss \in Nat
      BY <2>2, <2>4
    <3> HIDE DEF k0, k1, p1, s1, pp, ss
    <3>4. k1 = (p1 + pp) - (s1 + ss)
      BY <3>1, <3>3
    <3>5. k1 = Lots(p, n, i) - Lots(s, n, i)
      BY <3>2, <3>4, Zenon
    <3> QED
      BY <3>5 DEF k1
  <2>8. Adds(i)
    BY <2>6, <2>7
  <2> HIDE DEF last, Adds
  <2> QED
    BY <1>1, <2>8
<1>5. 0 .. last \subseteq T
  <2> HIDE DEF T
  <2> QED
    BY <1>1, <1>3, <1>4, UpTo
<1>6. \A w \in Weeks : Adds(w)
  <2> HIDE DEF last, Adds
  <2> QED
    BY <1>1, <1>5
<1> QED
  BY <1>6 DEF AddsUp

(* Shipments that fall short by no more than short[w] in the weeks in      *)
(* which they are cut do so in every week, when short never falls.         *)
Falls(d, s, n, short) ==
  /\ \A w \in Weeks : w # 0 => short[w - 1] <= short[w]
  /\ \A w \in Weeks : \/ Len(s[n][w]) = Len(d[n][w])
                      \/ Lots(d, n, w) - Lots(s, n, w) <= short[w]

LEMMA FallsShort ==
  ASSUME NEW d, NEW s, NEW n, d[n] \in [Weeks -> Seq(LotIds)], s[n] \in [Weeks -> Seq(LotIds)],
         NEW short \in [Weeks -> Nat], Falls(d, s, n, short)
  PROVE  \A w \in Weeks : Lots(d, n, w) - Lots(s, n, w) <= short[w]
<1> DEFINE last == NWeeks - 1
           Holding(w) == Lots(d, n, w) - Lots(s, n, w) <= short[w]
           T == { i \in 0 .. last : Holding(i) }
<1>1. last \in Nat /\ Weeks = 0 .. last
  BY NWeeksAssumption DEF Weeks
<1>2. \A w \in Weeks : Len(d[n][w]) \in Nat /\ Len(s[n][w]) \in Nat /\ short[w] \in Nat
  OBVIOUS
<1>3. 0 \in T
  <2>1. Lots(d, n, 0) = Len(d[n][0]) /\ Lots(s, n, 0) = Len(s[n][0]) /\ 0 \in Weeks
    BY LotsRecur
  <2>2. Holding(0)
    <3>1. /\ Len(d[n][0]) \in Nat /\ Len(s[n][0]) \in Nat /\ short[0] \in Nat
          /\ Len(s[n][0]) = Len(d[n][0]) \/ Lots(d, n, 0) - Lots(s, n, 0) <= short[0]
      BY <1>2, <2>1 DEF Falls
    <3> HIDE DEF last
    <3> QED
      BY <2>1, <3>1
  <2> HIDE DEF last, Holding
  <2> QED
    BY <1>1, <2>1, <2>2
<1>4. ASSUME NEW i \in 1 .. last, i - 1 \in T PROVE i \in T
  <2>1. i \in Weeks /\ i # 0 /\ i - 1 \in Weeks /\ i \in 0 .. last /\ Holding(i - 1)
    <3> HIDE DEF last, Holding
    <3> QED
      BY <1>1, <1>4
  <2>2. /\ Lots(d, n, i) = Len(d[n][i]) + Lots(d, n, i - 1)
        /\ Lots(s, n, i) = Len(s[n][i]) + Lots(s, n, i - 1)
        /\ Lots(d, n, i - 1) \in Nat /\ Lots(s, n, i - 1) \in Nat
    BY <2>1, LotsRecur
  <2>3. /\ Len(d[n][i]) \in Nat /\ Len(s[n][i]) \in Nat
        /\ short[i] \in Nat /\ short[i - 1] \in Nat
    BY <1>2, <2>1
  <2>4. short[i - 1] <= short[i]
    BY <2>1 DEF Falls
  <2>5. Len(s[n][i]) = Len(d[n][i]) \/ Lots(d, n, i) - Lots(s, n, i) <= short[i]
    BY <2>1 DEF Falls
  <2>6. Holding(i)
    <3> DEFINE ld == Len(d[n][i])
               ls == Len(s[n][i])
               sd == Lots(d, n, i - 1)
               ss == Lots(s, n, i - 1)
               td == Lots(d, n, i)
               ts == Lots(s, n, i)
               before == short[i - 1]
               now == short[i]
    <3>1. /\ td = ld + sd /\ ts = ls + ss /\ sd \in Nat /\ ss \in Nat /\ ld \in Nat /\ ls \in Nat
          /\ before \in Nat /\ now \in Nat /\ before <= now /\ sd - ss <= before
          /\ (ls = ld \/ td - ts <= now)
      BY <2>1, <2>2, <2>3, <2>4, <2>5
    <3> HIDE DEF ld, ls, sd, ss, td, ts, before, now
    <3>2. td - ts <= now
      BY <3>1
    <3> QED
      BY <3>2 DEF td, ts, now
  <2> HIDE DEF last, Holding
  <2> QED
    BY <2>1, <2>6
<1>5. 0 .. last \subseteq T
  <2> HIDE DEF T
  <2> QED
    BY <1>1, <1>3, <1>4, UpTo
<1> HIDE DEF last
<1> QED
  BY <1>1, <1>5

----------------------------------------------------------------------------
(* Lots that are in one place                                              *)

(* No lot is twice in the buckets c[v], v in W.                            *)
Once(c, W) ==
  \A v, w \in W : \A i \in DOMAIN c[v], j \in DOMAIN c[w] : c[v][i] = c[w][j] => v = w /\ i = j

(* What d holds is in c.                                                   *)
Within(d, c, W) == \A w \in W : \A lot : Holds(d[w], lot) => \E v \in W : Holds(c[v], lot)

(* Buckets filled from different places of others that hold no lot twice   *)
(* do not either: d[w][i] is what stands at g[w][i], h[w][i] in c.         *)
FilledFrom(d, c, g, h, W) ==
  /\ \A w \in W : \A i \in DOMAIN d[w] :
       /\ g[w][i] \in W /\ h[w][i] \in DOMAIN c[g[w][i]]
       /\ c[g[w][i]][h[w][i]] = d[w][i]
  /\ \A v, w \in W : \A i \in DOMAIN d[v], j \in DOMAIN d[w] :
       g[v][i] = g[w][j] /\ h[v][i] = h[w][j] => v = w /\ i = j

LEMMA OnceVia ==
  ASSUME NEW W, NEW c, NEW d, NEW g, NEW h, Once(c, W), FilledFrom(d, c, g, h, W)
  PROVE  Once(d, W) /\ Within(d, c, W)
<1>1. ASSUME NEW v \in W, NEW w \in W, NEW i \in DOMAIN d[v], NEW j \in DOMAIN d[w],
             d[v][i] = d[w][j]
      PROVE  v = w /\ i = j
  <2>1. g[v][i] = g[w][j] /\ h[v][i] = h[w][j]
    BY <1>1 DEF Once, FilledFrom
  <2> QED
    BY <2>1 DEF FilledFrom
<1>2. ASSUME NEW w \in W, NEW lot, Holds(d[w], lot) PROVE \E v \in W : Holds(c[v], lot)
  BY <1>2 DEF Holds, FilledFrom
<1> QED
  BY <1>1, <1>2 DEF Once, Within

(* A bucket is split after p lots, its end goes to an empty one.           *)
Splits(d, c, v, x, p, r, W) ==
  /\ DOMAIN c[v] = 1 .. p + r /\ DOMAIN d[v] = 1 .. p /\ DOMAIN d[x] = 1 .. r
  /\ \A i \in 1 .. p : d[v][i] = c[v][i]
  /\ \A i \in 1 .. r : d[x][i] = c[v][p + i]
  /\ \A w \in W : w # v /\ w # x => d[w] = c[w]

LEMMA OnceSplit ==
  ASSUME NEW W, NEW c, NEW d, NEW v \in W, NEW x \in W, v # x, NEW p \in Nat, NEW r \in Nat,
         Once(c, W), Splits(d, c, v, x, p, r, W)
  PROVE  Once(d, W) /\ Within(d, c, W)
<1> DEFINE g == [w \in W |-> [i \in DOMAIN d[w] |-> IF w = x THEN v ELSE w]]
           h == [w \in W |-> [i \in DOMAIN d[w] |-> IF w = x THEN p + i ELSE i]]
<1>1. /\ \A i \in DOMAIN d[x] : i \in Int /\ p + i \in DOMAIN c[v] /\ d[x][i] = c[v][p + i]
                                /\ p + i \notin DOMAIN d[v]
      /\ \A i \in DOMAIN d[v] : i \in DOMAIN c[v] /\ d[v][i] = c[v][i]
      /\ \A w \in W : w # v /\ w # x => d[w] = c[w]
  BY DEF Splits
<1>2. \A w \in W : \A i \in DOMAIN d[w] :
        /\ w = x => g[w][i] = v /\ h[w][i] = p + i
        /\ w # x => g[w][i] = w /\ h[w][i] = i
  OBVIOUS
<1> HIDE DEF g, h
<1>3. \A i, j \in DOMAIN d[x] : p + i = p + j => i = j
  BY <1>1
<1>4. ASSUME NEW w \in W, NEW i \in DOMAIN d[w]
      PROVE  /\ g[w][i] \in W /\ h[w][i] \in DOMAIN c[g[w][i]]
             /\ c[g[w][i]][h[w][i]] = d[w][i]
  BY <1>1, <1>2
<1>5. ASSUME NEW u \in W, NEW w \in W, NEW i \in DOMAIN d[u], NEW j \in DOMAIN d[w],
             g[u][i] = g[w][j], h[u][i] = h[w][j]
      PROVE  u = w /\ i = j
  BY <1>1, <1>2, <1>3, <1>5
<1>6. FilledFrom(d, c, g, h, W)
  BY <1>4, <1>5 DEF FilledFrom
<1> QED
  BY <1>6, OnceVia

(* The first lot of a bucket goes to the end of another.                   *)
Moves(d, c, v, x, a, b, W) ==
  /\ DOMAIN c[v] = 1 .. a /\ DOMAIN d[v] = 1 .. a + 1
  /\ DOMAIN c[x] = 1 .. b + 1 /\ DOMAIN d[x] = 1 .. b
  /\ \A i \in 1 .. a : d[v][i] = c[v][i]
  /\ d[v][a + 1] = c[x][1]
  /\ \A i \in 1 .. b : d[x][i] = c[x][i + 1]
  /\ \A w \in W : w # v /\ w # x => d[w] = c[w]

LEMMA OnceMoved ==
  ASSUME NEW W, NEW c, NEW d, NEW v \in W, NEW x \in W, v # x, NEW a \in Nat, NEW b \in Nat,
         Once(c, W), Moves(d, c, v, x, a, b, W)
  PROVE  Once(d, W) /\ Within(d, c, W)
<1> DEFINE g == [w \in W |-> [i \in DOMAIN d[w] |-> IF w = v /\ i = a + 1 THEN x ELSE w]]
           h == [w \in W |-> [i \in DOMAIN d[w] |->
                   IF w = x THEN i + 1 ELSE IF w = v /\ i = a + 1 THEN 1 ELSE i]]
<1>1. /\ \A i \in DOMAIN d[x] : i \in Int /\ i + 1 \in DOMAIN c[x] /\ d[x][i] = c[x][i + 1]
                                /\ i + 1 # 1
      /\ \A i \in DOMAIN d[v] : i # a + 1 => i \in DOMAIN c[v] /\ d[v][i] = c[v][i]
      /\ 1 \in DOMAIN c[x] /\ d[v][a + 1] = c[x][1]
      /\ \A w \in W : w # v /\ w # x => d[w] = c[w]
  BY DEF Moves
<1>2. \A w \in W : \A i \in DOMAIN d[w] :
        /\ w = x => g[w][i] = x /\ h[w][i] = i + 1
        /\ w = v /\ i = a + 1 => g[w][i] = x /\ h[w][i] = 1
        /\ w = v /\ i # a + 1 => g[w][i] = v /\ h[w][i] = i
        /\ w # v /\ w # x => g[w][i] = w /\ h[w][i] = i
  OBVIOUS
<1> HIDE DEF g, h
<1>3. \A i, j \in DOMAIN d[x] : i + 1 = j + 1 => i = j
  BY <1>1
<1>4. ASSUME NEW w \in W, NEW i \in DOMAIN d[w]
      PROVE  /\ g[w][i] \in W /\ h[w][i] \in DOMAIN c[g[w][i]]
             /\ c[g[w][i]][h[w][i]] = d[w][i]
  BY <1>1, <1>2
<1>5. ASSUME NEW u \in W, NEW w \in W, NEW i \in DOMAIN d[u], NEW j \in DOMAIN d[w],
             g[u][i] = g[w][j], h[u][i] = h[w][j]
      PROVE  u = w /\ i = j
  BY <1>1, <1>2, <1>3, <1>5
<1>6. FilledFrom(d, c, g, h, W)
  BY <1>4, <1>5 DEF FilledFrom
<1> QED
  BY <1>6, OnceVia

(* The first lot of a bucket is taken out: it is in no bucket any more.    *)
Takes(d, c, x, b, W) ==
  /\ DOMAIN c[x] = 1 .. b + 1 /\ DOMAIN d[x] = 1 .. b
  /\ \A i \in 1 .. b : d[x][i] = c[x][i + 1]
  /\ \A w \in W : w # x => d[w] = c[w]

LEMMA OnceTaken ==
  ASSUME NEW W, NEW c, NEW d, NEW x \in W, NEW b \in Nat, Once(c, W), Takes(d, c, x, b, W)
  PROVE  /\ Once(d, W) /\ Within(d, c, W)
         /\ \A w \in W : ~ Holds(d[w], c[x][1])
<1> DEFINE g == [w \in W |-> [i \in DOMAIN d[w] |-> w]]
           h == [w \in W |-> [i \in DOMAIN d[w] |-> IF w = x THEN i + 1 ELSE i]]
<1>1. /\ \A i \in DOMAIN d[x] : i \in Int /\ i + 1 \in DOMAIN c[x] /\ d[x][i] = c[x][i + 1]
                                /\ i + 1 # 1
      /\ 1 \in DOMAIN c[x]
      /\ \A w \in W : w # x => d[w] = c[w]
  BY DEF Takes
<1>2. \A w \in W : \A i \in DOMAIN d[w] :
        /\ g[w][i] = w
        /\ w = x => h[w][i] = i + 1
        /\ w # x => h[w][i] = i
  OBVIOUS
<1> HIDE DEF g, h
<1>3. \A i, j \in DOMAIN d[x] : i + 1 = j + 1 => i = j
  BY <1>1
<1>4. ASSUME NEW w \in W, NEW i \in DOMAIN d[w]
      PROVE  /\ g[w][i] \in W /\ h[w][i] \in DOMAIN c[g[w][i]]
             /\ c[g[w][i]][h[w][i]] = d[w][i]
  BY <1>1, <1>2
<1>5. ASSUME NEW u \in W, NEW w \in W, NEW i \in DOMAIN d[u], NEW j \in DOMAIN d[w],
             g[u][i] = g[w][j], h[u][i] = h[w][j]
      PROVE  u = w /\ i = j
  BY <1>2, <1>3, <1>5
<1>6. Once(d, W) /\ Within(d, c, W)
  <2>1. FilledFrom(d, c, g, h, W)
    BY <1>4, <1>5 DEF FilledFrom
  <2> QED
    BY <2>1, OnceVia
<1>7. ASSUME NEW w \in W, NEW i \in DOMAIN d[w], d[w][i] = c[x][1] PROVE FALSE
  <2>1. CASE w = x
    BY <1>1, <1>7, <2>1 DEF Once
  <2>2. CASE w # x
    BY <1>1, <1>7, <2>2 DEF Once
  <2> QED
    BY <2>1, <2>2
<1> QED
  BY <1>6, <1>7 DEF Holds

LEMMA TailFacts ==
  ASSUME NEW q \in Seq(LotIds), q # << >>
  PROVE  /\ Len(q) \in Nat /\ Len(q) > 0 /\ Head(q) = q[1] /\ Head(q) \in LotIds
         /\ Tail(q) \in Seq(LotIds) /\ Len(Tail(q)) = Len(q) - 1
         /\ DOMAIN q = 1 .. Len(q) /\ DOMAIN Tail(q) = 1 .. Len(q) - 1
         /\ \A i \in 1 .. Len(q) - 1 : Tail(q)[i] = q[i + 1]
  BY HeadTailProperties

----------------------------------------------------------------------------
(* What a call on a clean tree falls short of is backlog                   *)

Due(m, w) == { b \in backlog : b.mom = m /\ b.week <= w }

(* Where the lots of a MOM are while its weeks are trimmed: its production *)
(* and, as one more bucket, the overflow that is being placed.             *)
Spots(m) ==
  [v \in 0 .. NWeeks |->
     IF v = NWeeks THEN (IF m = cur THEN overflow ELSE << >>) ELSE dP[m][v]]

Waiting(m, w) == IF m = cur /\ week <= w THEN Len(overflow) ELSE 0

(* The MOMs no week of which has been trimmed.                             *)
Untrimmed == IF phase \in {"check", "place"} THEN todo \ {cur} ELSE todo

(* They have no backlog yet, and in production what was copied there.      *)
Untouched(m) ==
  /\ \A b \in backlog : b.mom # m
  /\ \A w \in Weeks :
       dP[m][w] = IF phase = "plan" /\ m = cur /\ w < week THEN dS[m][w] ELSE << >>

(* Of the others each lot is in one place, a backlogged one in none, and   *)
(* up to every week the production falls short of the demand by no more    *)
(* than what is backlogged or waits to be placed.                          *)
Apart(m) ==
  \A b \in backlog : b.mom = m => \A v \in 0 .. NWeeks : ~ Holds(Spots(m)[v], b.lot)
Short(m) ==
  \A w \in Weeks : Lots(dS, m, w) <= Lots(dP, m, w) + Cardinality(Due(m, w)) + Waiting(m, w)
Trimmed(m) == Once(Spots(m), 0 .. NWeeks) /\ Apart(m) /\ Short(m)

Demanded == \A m \in Moms : Once(dS[m], Weeks)

TrimInv ==
  /\ IsFiniteSet(backlog)
  /\ \A m \in Untrimmed : Untouched(m)
  /\ \A m \in Moms \ Untrimmed : Trimmed(m)

LEMMA TrimTypes ==
  ASSUME TypeOK
  PROVE  /\ \A m \in Moms : /\ dS[m] \in [Weeks -> Seq(LotIds)]
                            /\ dP[m] \in [Weeks -> Seq(LotIds)]
         /\ Weeks = 0 .. NWeeks - 1 /\ NWeeks \in Nat \ {0}
         /\ week \in Weeks /\ todo \subseteq Moms /\ overflow \in Seq(LotIds)
         /\ phase \in {"plan", "check", "place"} => cur \in todo
         /\ cap \in [Weeks -> Nat]
         /\ backlog \subseteq [lot : LotIds, mom : Moms, week : Weeks]
BY NWeeksAssumption DEF TypeOK, Buckets, Weeks

LEMMA SpotsTyped ==
  ASSUME TypeOK, NEW m \in Moms
  PROVE  /\ Spots(m) \in [0 .. NWeeks -> Seq(LotIds)]
         /\ \A v \in Weeks : v \in 0 .. NWeeks /\ v # NWeeks /\ Spots(m)[v] = dP[m][v]
         /\ Spots(m)[NWeeks] = IF m = cur THEN overflow ELSE << >>
         /\ \A v \in 0 .. NWeeks : v \in Weeks \/ v = NWeeks
<1>1. /\ \A v \in Weeks : v \in 0 .. NWeeks /\ v # NWeeks
      /\ \A v \in 0 .. NWeeks : v \in Weeks \/ v = NWeeks
      /\ NWeeks \in 0 .. NWeeks
  BY NWeeksAssumption DEF Weeks
<1>2. << >> \in Seq(LotIds)
  BY EmptySeq
<1> QED
  BY <1>1, <1>2, TrimTypes DEF Spots

LEMMA DueFinite ==
  ASSUME IsFiniteSet(backlog), NEW m, NEW w
  PROVE  IsFiniteSet(Due(m, w)) /\ Cardinality(Due(m, w)) \in Nat
BY FS_Subset, FS_CardinalityType DEF Due

(* What leaves the lots of a MOM where they are.                           *)
LEMMA TrimmedStays ==
  ASSUME TypeOK, NEW m \in Moms, Trimmed(m), dS' = dS, dP'[m] = dP[m],
         \A b : b.mom = m => (b \in backlog' <=> b \in backlog),
         m = cur => overflow = << >>, (m = cur => overflow = << >>)'
  PROVE  Trimmed(m)'
<1>1. Spots(m)' = Spots(m)
  BY DEF Spots
<1>2. \A w : Due(m, w)' = Due(m, w)
  BY DEF Due
<1>3. Once(Spots(m), 0 .. NWeeks)'
  BY <1>1 DEF Trimmed, Once
<1>4. Apart(m)'
  BY <1>1 DEF Trimmed, Apart
<1>5. Short(m)'
  <2>1. \A w \in Weeks : Lots(dP', m, w) = Lots(dP, m, w)
    <3>1. dP[m] \in [Weeks -> Seq(LotIds)] /\ dP'[m] \in [Weeks -> Seq(LotIds)]
      BY TrimTypes
    <3>2. SameBuckets(dP, dP', m)
      BY DEF SameBuckets
    <3>3. SumsAgree(dP, dP', m)
      BY <3>1, <3>2, LotsSame
    <3> QED
      BY <3>3 DEF SumsAgree
  <2>2. \A w : Waiting(m, w) = 0 /\ Waiting(m, w)' = 0
    BY DEF Waiting
  <2>3. \A w \in Weeks : Lots(dS', m, w) = Lots(dS, m, w)
    OBVIOUS
  <2> QED
    BY <1>2, <2>1, <2>2, <2>3 DEF Trimmed, Short
<1> QED
  BY <1>3, <1>4, <1>5 DEF Trimmed

LEMMA UntouchedStays ==
  ASSUME NEW m \in Moms, Untouched(m), dP'[m] = dP[m],
         \A b : b.mom = m => (b \in backlog' <=> b \in backlog),
         ~ (phase = "plan" /\ m = cur), ~ (phase = "plan" /\ m = cur /\ week # 0)',
         week' \in Weeks
  PROVE  Untouched(m)'
<1>1. \A w \in Weeks : ~ (w < 0)
  BY NWeeksAssumption DEF Weeks
<1> QED
  BY <1>1 DEF Untouched

NothingIn(b) == \A m \in Moms, w \in Weeks : b[m][w] = << >>

(* A call begins with every MOM untouched.                                 *)
LEMMA CallTrims ==
  ASSUME TypeOK, Call, NothingIn(dP)
  PROVE  TrimInv'
<1>1. phase' = "mom" /\ todo' = Moms /\ backlog' = {} /\ dP' = dP
  BY DEF Call
<1>2. Untrimmed' = Moms /\ IsFiniteSet(backlog')
  BY <1>1, FS_EmptySet DEF Untrimmed
<1>3. ASSUME NEW m \in Moms PROVE Untouched(m)'
  BY <1>1 DEF Untouched, NothingIn
<1> QED
  BY <1>2, <1>3 DEF TrimInv

(* A step that touches nothing of a call keeps its accounts.               *)
LEMMA TrimStays ==
  ASSUME UNCHANGED << dS, dP, backlog, overflow, todo, cur, week, phase >>, TrimInv
  PROVE  TrimInv'
<1>1. Untrimmed' = Untrimmed
  BY DEF Untrimmed
<1>2. \A m : Untouched(m)' <=> Untouched(m)
  BY DEF Untouched
<1>3. ASSUME NEW m PROVE Trimmed(m)' <=> Trimmed(m)
  <2>1. Spots(m)' = Spots(m) /\ \A w : Due(m, w)' = Due(m, w) /\ Waiting(m, w)' = Waiting(m, w)
    BY DEF Spots, Due, Waiting
  <2>2. Apart(m)' <=> Apart(m)
    BY <2>1 DEF Apart
  <2>3. Once(Spots(m), 0 .. NWeeks)' <=> Once(Spots(m), 0 .. NWeeks)
    BY <2>1 DEF Once
  <2>4. \A w : Lots(dS, m, w)' = Lots(dS, m, w) /\ Lots(dP, m, w)' = Lots(dP, m, w)
    BY DEF Lots
  <2>5. Short(m)' <=> Short(m)
    BY <2>1, <2>4 DEF Short
  <2> QED
    BY <2>2, <2>3, <2>5 DEF Trimmed
<1> QED
  BY <1>1, <1>2, <1>3 DEF TrimInv

(* A bucket of a MOM is replaced.                                          *)
Puts(m, v, q) == dP' = [dP EXCEPT ![m][v] = q]

LEMMA BucketReplaced ==
  ASSUME TypeOK, NEW m \in Moms, NEW v \in Weeks, NEW q, Puts(m, v, q)
  PROVE  /\ dP'[m][v] = q
         /\ \A w \in Weeks : w # v => dP'[m][w] = dP[m][w]
         /\ \A o \in Moms : o # m => dP'[o] = dP[o]
BY DEF TypeOK, Buckets, Puts

(* Steps that touch neither production nor backlog.                        *)
LEMMA QuietTrims ==
  ASSUME TypeOK, OverflowInv, TrimInv, dS' = dS,
         NextCheckWeek \/ EndMom \/ \E m \in Moms : BeginMom(m)
  PROVE  TrimInv'
<1>1. /\ dP' = dP /\ backlog' = backlog /\ overflow' = overflow /\ overflow = << >>
      /\ phase \in {"mom", "place"} /\ phase' \in {"plan", "check", "mom"}
      /\ Untrimmed' = Untrimmed
      /\ phase' = "plan" => week' = 0
      /\ week' \in Weeks
  <2>1. 0 \in Weeks /\ (week + 1 < NWeeks => week + 1 \in Weeks) /\ week \in Weeks
    BY NWeeksAssumption, TrimTypes DEF Weeks
  <2>2. CASE NextCheckWeek
    BY <2>1, <2>2 DEF NextCheckWeek, tree, result, Untrimmed
  <2>3. CASE EndMom
    BY <2>1, <2>3 DEF EndMom, tree, Untrimmed
  <2>4. ASSUME NEW m \in Moms, BeginMom(m)
        PROVE  /\ dP' = dP /\ backlog' = backlog /\ overflow' = overflow /\ overflow = << >>
               /\ phase = "mom" /\ phase' = "plan" /\ Untrimmed' = Untrimmed /\ week' = 0
    BY <2>4 DEF BeginMom, tree, result, OverflowInv, Untrimmed
  <2> QED
    BY <2>1, <2>2, <2>3, <2>4
<1>2. ASSUME NEW m \in Untrimmed PROVE Untouched(m)'
  <2>1. m \in Moms /\ Untouched(m)
    BY TrimTypes DEF TrimInv, Untrimmed
  <2> QED
    BY <1>1, <2>1, UntouchedStays
<1>3. ASSUME NEW m \in Moms \ Untrimmed PROVE Trimmed(m)'
  <2>1. m \in Moms /\ Trimmed(m)
    BY DEF TrimInv
  <2> QED
    BY <1>1, <2>1, TrimmedStays
<1> QED
  BY <1>1, <1>2, <1>3 DEF TrimInv

(* The other MOMs while one is worked on.                                  *)
LEMMA OthersTrim ==
  ASSUME TypeOK, TrimInv, dS' = dS, cur \in todo, cur' = cur, week' \in Weeks,
         \A o \in Moms : o # cur => dP'[o] = dP[o],
         \A b : b.mom # cur => (b \in backlog' <=> b \in backlog),
         IsFiniteSet(backlog'),
         Untrimmed' \ {cur} = Untrimmed \ {cur},
         cur \in Untrimmed' => Untouched(cur)',
         cur \notin Untrimmed' => Trimmed(cur)'
  PROVE  TrimInv'
<1>1. ASSUME NEW m \in Untrimmed', m # cur PROVE Untouched(m)'
  <2>1. m \in Moms /\ Untouched(m)
    BY <1>1, TrimTypes DEF TrimInv, Untrimmed
  <2>2. dP'[m] = dP[m] /\ \A b : b.mom = m => (b \in backlog' <=> b \in backlog)
    BY <1>1, <2>1
  <2> QED
    BY <1>1, <2>1, <2>2, UntouchedStays
<1>2. ASSUME NEW m \in Moms \ Untrimmed', m # cur PROVE Trimmed(m)'
  <2>1. m \in Moms /\ Trimmed(m)
    BY <1>2 DEF TrimInv
  <2>2. dP'[m] = dP[m] /\ \A b : b.mom = m => (b \in backlog' <=> b \in backlog)
    BY <1>2
  <2> QED
    BY <1>2, <2>1, <2>2, TrimmedStays
<1> QED
  BY <1>1, <1>2, TrimTypes DEF TrimInv

(* The first pass copies the demand of a week to production; after the     *)
(* last week production is the demand.                                     *)
LEMMA PlanTrims ==
  ASSUME TypeOK, TypeOK', OverflowInv, TrimInv, Demanded, PlanWeek
  PROVE  TrimInv'
<1> DEFINE m == cur
<1>1. /\ phase = "plan" /\ m \in todo /\ m \in Moms /\ week \in Weeks /\ todo' = todo
      /\ dS' = dS /\ backlog' = backlog /\ overflow' = overflow /\ cur' = m
      /\ Puts(m, week, dP[m][week] \o dS[m][week])
      /\ overflow = << >>
  BY TrimTypes DEF PlanWeek, OverflowInv, Puts
<1>2. IF week + 1 < NWeeks THEN week' = week + 1 /\ phase' = "plan"
                            ELSE week' = 0 /\ phase' = "check"
  BY DEF PlanWeek, NextPlanWeek
<1>3. week' \in Weeks
  BY <1>1, <1>2, NWeeksAssumption DEF Weeks
<1>4. Untouched(m)
  BY <1>1 DEF TrimInv, Untrimmed
<1>5. \A w \in Weeks : dP'[m][w] = IF w <= week THEN dS[m][w] ELSE << >>
  <2> DEFINE r == dP[m][week] \o dS[m][week]
  <2>1. /\ dP'[m][week] = r
        /\ \A w \in Weeks : w # week => dP'[m][w] = dP[m][w]
    <3>1. Puts(m, week, r) /\ m \in Moms /\ week \in Weeks
      BY <1>1
    <3> HIDE DEF r, m
    <3> QED
      BY <3>1, BucketReplaced
  <2>2. dS[m][week] \in Seq(LotIds) /\ dP[m][week] = << >>
    BY <1>1, <1>4, TrimTypes DEF Untouched, Weeks
  <2>3. dP'[m][week] = dS[m][week]
    <3>1. \A q \in Seq(LotIds) : << >> \o q = q
      OBVIOUS
    <3> QED
      BY <2>1, <2>2, <3>1
  <2>4. \A w \in Weeks : w # week => (w < week <=> w <= week)
    BY <1>1 DEF Weeks
  <2> QED
    BY <1>1, <1>4, <2>1, <2>3, <2>4 DEF Untouched, Weeks
<1>6. \A o \in Moms : o # m => dP'[o] = dP[o]
  BY <1>1, BucketReplaced
<1>7. CASE week + 1 < NWeeks
  <2>1. phase' = "plan" /\ week' = week + 1 /\ Untrimmed' = Untrimmed /\ m \in Untrimmed'
    BY <1>1, <1>2, <1>7 DEF Untrimmed
  <2>2. \A w \in Weeks : w <= week <=> w < week'
    BY <1>1, <2>1 DEF Weeks
  <2>3. Untouched(m)'
    BY <1>1, <1>4, <1>5, <2>1, <2>2 DEF Untouched
  <2> QED
    BY <1>1, <1>3, <1>6, <2>1, <2>3, OthersTrim DEF TrimInv
<1>8. CASE ~ (week + 1 < NWeeks)
  <2>1. phase' = "check" /\ Untrimmed' = Untrimmed \ {m}
    BY <1>1, <1>2, <1>8 DEF Untrimmed
  <2>2. \A w \in Weeks : dP'[m][w] = dS[m][w]
    <3>1. \A w \in Weeks : w <= week
      BY <1>1, <1>8, NWeeksAssumption DEF Weeks
    <3> QED
      BY <1>5, <3>1
  <2>3. /\ \A v \in Weeks : v \in 0 .. NWeeks /\ v # NWeeks /\ Spots(m)'[v] = dS[m][v]
        /\ Spots(m)'[NWeeks] = << >>
        /\ \A v \in 0 .. NWeeks : v \in Weeks \/ v = NWeeks
    BY <1>1, <2>2, NWeeksAssumption DEF Spots, Weeks
  <2>4. Once(Spots(m)', 0 .. NWeeks)
    <3>1. Once(dS[m], Weeks) /\ DOMAIN << >> = {}
      BY <1>1 DEF Demanded
    <3> QED
      BY <2>3, <3>1 DEF Once
  <2>5. \A b \in backlog : b.mom # m
    BY <1>4 DEF Untouched
  <2>6. Short(m)'
    <3>1. \A w \in Weeks : Lots(dP', m, w) = Lots(dS, m, w) /\ Lots(dS, m, w) \in Nat
      <4>1. dS[m] \in [Weeks -> Seq(LotIds)] /\ dP'[m] \in [Weeks -> Seq(LotIds)]
        BY <1>1, TrimTypes DEF TypeOK, Buckets
      <4>2. \A w \in Weeks : Lots(dP', m, w) = Lots(dS, m, w)
        <5>1. SameBuckets(dS, dP', m)
          BY <2>2 DEF SameBuckets
        <5>2. SumsAgree(dS, dP', m)
          BY <4>1, <5>1, LotsSame
        <5> QED
          BY <5>2 DEF SumsAgree
      <4> QED
        BY <4>1, <4>2, LotsRecur
    <3>2. \A w : Due(m, w)' = {}
      BY <1>1, <2>5 DEF Due
    <3>3. \A w : Waiting(m, w)' = 0 /\ Cardinality(Due(m, w)') = 0
      BY <1>1, <3>2, FS_EmptySet DEF Waiting
    <3>4. ASSUME NEW w \in Weeks
          PROVE  (Lots(dS, m, w) <= Lots(dP, m, w) + Cardinality(Due(m, w)) + Waiting(m, w))'
      <4>1. /\ dS' = dS /\ cur' = m /\ Lots(dP', m, w) = Lots(dS, m, w)
            /\ Lots(dS, m, w) \in Nat /\ Waiting(m, w)' = 0 /\ Cardinality(Due(m, w)') = 0
        BY <1>1, <3>1, <3>3
      <4> QED
        BY <4>1
    <3> QED
      BY <1>1, <3>4 DEF Short
  <2>7. Trimmed(m)'
    <3>1. Apart(m)'
      BY <1>1, <2>5 DEF Apart
    <3>2. Once(Spots(m), 0 .. NWeeks)'
      BY <2>4 DEF Once
    <3> QED
      BY <1>1, <2>6, <3>1, <3>2 DEF Trimmed
  <2> QED
    BY <1>1, <1>3, <1>6, <2>1, <2>7, OthersTrim DEF TrimInv
<1> QED
  BY <1>7, <1>8

(* What the second pass is about.                                          *)
LEMMA TrimmingFacts ==
  ASSUME TypeOK, OverflowInv, TrimInv, phase \in {"check", "place"}
  PROVE  /\ cur \in todo /\ cur \in Moms /\ week \in Weeks /\ cur \notin Untrimmed
         /\ Trimmed(cur)
         /\ week \in 0 .. NWeeks /\ week # NWeeks /\ NWeeks \in 0 .. NWeeks
         /\ Spots(cur)[NWeeks] = overflow
<1>1. cur \in todo /\ cur \in Moms /\ week \in Weeks /\ cur \notin Untrimmed
  BY TrimTypes DEF Untrimmed
<1>2. week \in 0 .. NWeeks /\ week # NWeeks /\ NWeeks \in 0 .. NWeeks
  BY <1>1, NWeeksAssumption DEF Weeks
<1> QED
  BY <1>1, <1>2, SpotsTyped DEF TrimInv

(* A week is trimmed: the end of its bucket overflows.                     *)
LEMMA CheckTrims ==
  ASSUME TypeOK, TypeOK', OverflowInv, TrimInv, CheckWeek
  PROVE  TrimInv'
<1> DEFINE q == dP[cur][week]
           t == Take(q, cap[week])
           r == Drop(q, cap[week])
<1>1. /\ phase = "check" /\ phase' = "place" /\ todo' = todo /\ cur' = cur
      /\ week' = week /\ dS' = dS /\ backlog' = backlog /\ overflow = << >> /\ overflow' = r
      /\ Puts(cur, week, t)
  BY DEF CheckWeek, OverflowInv, Puts
<1>2. /\ cur \in todo /\ cur \in Moms /\ week \in Weeks /\ cur \notin Untrimmed
      /\ Trimmed(cur)
      /\ week \in 0 .. NWeeks /\ week # NWeeks /\ NWeeks \in 0 .. NWeeks
      /\ Spots(cur)[NWeeks] = overflow
  BY <1>1, TrimmingFacts
<1>3. /\ dP'[cur][week] = t
      /\ \A w \in Weeks : w # week => dP'[cur][w] = dP[cur][w]
      /\ \A o \in Moms : o # cur => dP'[o] = dP[o]
  BY <1>1, <1>2, BucketReplaced
<1>4. q \in Seq(LotIds) /\ cap[week] \in Nat
  BY <1>2, TrimTypes
<1>5. PICK p \in Nat, k \in Nat :
        /\ t \in Seq(LotIds) /\ r \in Seq(LotIds)
        /\ Len(t) = p /\ Len(r) = k /\ Len(q) = p + k
        /\ DOMAIN q = 1 .. p + k /\ DOMAIN t = 1 .. p /\ DOMAIN r = 1 .. k
        /\ \A i \in 1 .. p : t[i] = q[i]
        /\ \A i \in 1 .. k : r[i] = q[p + i]
  <2>1. /\ t \in Seq(LotIds) /\ r \in Seq(LotIds)
        /\ Len(t) = Lesser(cap[week], Len(q))
        /\ Len(r) = Len(q) - Lesser(cap[week], Len(q))
        /\ \A i \in 1 .. Lesser(cap[week], Len(q)) : t[i] = q[i]
        /\ \A i \in 1 .. Len(q) - Lesser(cap[week], Len(q)) :
             r[i] = q[i + Lesser(cap[week], Len(q))]
    BY <1>4, TakeDropType
  <2> HIDE DEF q, t, r
  <2>2. PICK p \in Nat, k \in Nat :
          p = Lesser(cap[week], Len(q)) /\ k = Len(q) - p /\ Len(q) \in Nat
    <3>1. Len(t) \in Nat /\ Len(r) \in Nat /\ Len(q) \in Nat
      BY <1>4, <2>1
    <3>2. Len(t) = Lesser(cap[week], Len(q)) /\ Len(r) = Len(q) - Len(t)
      BY <2>1
    <3> QED
      BY <3>1, <3>2
  <2>3. Len(q) = p + k /\ Len(t) = p /\ Len(r) = k
    BY <2>1, <2>2
  <2>4. DOMAIN q = 1 .. p + k /\ DOMAIN t = 1 .. p /\ DOMAIN r = 1 .. k
    <3>1. DOMAIN q = 1 .. Len(q) /\ DOMAIN t = 1 .. Len(t) /\ DOMAIN r = 1 .. Len(r)
      BY <1>4, <2>1
    <3> QED
      BY <2>3, <3>1
  <2>5. \A i \in 1 .. p : t[i] = q[i]
    BY <2>1, <2>2
  <2>6. \A i \in 1 .. k : r[i] = q[p + i]
    <3>1. \A i \in 1 .. k : r[i] = q[i + p]
      BY <2>1, <2>2
    <3>2. \A i \in 1 .. k : i + p = p + i
      OBVIOUS
    <3> QED
      BY <3>1, <3>2
  <2> QED
    BY <2>1, <2>3, <2>4, <2>5, <2>6
<1> HIDE DEF q, t, r
<1>6. /\ Once(Spots(cur)', 0 .. NWeeks)
      /\ Within(Spots(cur)', Spots(cur), 0 .. NWeeks)
  <2> DEFINE c == Spots(cur)
             d == Spots(cur)'
  <2>1. /\ c[week] = q /\ d[week] = t /\ d[NWeeks] = r
        /\ \A w \in 0 .. NWeeks : w # week /\ w # NWeeks => d[w] = c[w]
    <3>1. \A w \in 0 .. NWeeks : w # NWeeks =>
            w \in Weeks /\ c[w] = dP[cur][w] /\ d[w] = dP'[cur][w]
      BY <1>1, TrimTypes DEF Spots
    <3>2. d[NWeeks] = overflow'
      BY <1>1, <1>2 DEF Spots
    <3> QED
      BY <1>1, <1>2, <1>3, <3>1, <3>2 DEF q
  <2> HIDE DEF c, d
  <2>2. Splits(d, c, week, NWeeks, p, k, 0 .. NWeeks)
    BY <1>5, <2>1 DEF Splits
  <2>3. Once(c, 0 .. NWeeks)
    BY <1>2 DEF Trimmed, c
  <2>4. Once(d, 0 .. NWeeks) /\ Within(d, c, 0 .. NWeeks)
    BY <1>2, <2>2, <2>3, OnceSplit
  <2> QED
    BY <2>4 DEF c, d
<1>7. Apart(cur)'
  BY <1>1, <1>2, <1>6 DEF Trimmed, Apart, Within
<1>8. Short(cur)'
  <2>1. PICK e \in Int : e = - k
    OBVIOUS
  <2>2. SumsDiffer(dP, dP', cur, week, e)
    <3>1. Differ(dP, dP', cur, week, e)
      BY <1>3, <1>5, <2>1 DEF Differ, q
    <3>2. dP[cur] \in [Weeks -> Seq(LotIds)] /\ dP'[cur] \in [Weeks -> Seq(LotIds)]
      BY <1>1, <1>2, TrimTypes DEF TypeOK, Buckets
    <3> QED
      BY <1>2, <3>1, <3>2, LotsChange
  <2>3. ASSUME NEW w \in Weeks
        PROVE  (Lots(dS, cur, w) <=
                  Lots(dP, cur, w) + Cardinality(Due(cur, w)) + Waiting(cur, w))'
    <3>1. Lots(dS, cur, w) <=
            Lots(dP, cur, w) + Cardinality(Due(cur, w)) + Waiting(cur, w)
      BY <1>2 DEF Trimmed, Short
    <3>2. /\ Due(cur, w)' = Due(cur, w) /\ Lots(dS, cur, w)' = Lots(dS, cur, w)
          /\ Waiting(cur, w) = 0 /\ Waiting(cur, w)' = IF week <= w THEN k ELSE 0
          /\ Lots(dP, cur, w)' = Lots(dP', cur, w)
      <4>1. Waiting(cur, w) = 0
        BY <1>1 DEF Waiting
      <4>2. Waiting(cur, w)' = IF week <= w THEN k ELSE 0
        BY <1>1, <1>5 DEF Waiting
      <4> QED
        BY <1>1, <4>1, <4>2 DEF Due, Lots
    <3>3. Lots(dP', cur, w) = Lots(dP, cur, w) + IF week <= w THEN - k ELSE 0
      BY <2>1, <2>2 DEF SumsDiffer
    <3>4. /\ Lots(dS, cur, w) \in Nat /\ Lots(dP, cur, w) \in Nat
          /\ Cardinality(Due(cur, w)) \in Nat
      BY <1>2, TrimTypes, LotsRecur, DueFinite DEF TrimInv
    <3> QED
      BY <3>1, <3>2, <3>3, <3>4
  <2> QED
    BY <1>1, <2>3 DEF Short
<1>9. Trimmed(cur)'
  BY <1>1, <1>6, <1>7, <1>8 DEF Trimmed, Once
<1>10. Untrimmed' = Untrimmed
  BY <1>1 DEF Untrimmed
<1> QED
  BY <1>1, <1>2, <1>3, <1>9, <1>10, OthersTrim DEF TrimInv

(* An overflow lot is shifted: the first lot of the queue goes to the end  *)
(* of an earlier bucket.                                                   *)
LEMMA ShiftTrims ==
  ASSUME TypeOK, TypeOK', OverflowInv, TrimInv, ShiftEarlier
  PROVE  TrimInv'
<1>1. PICK x \in Weeks :
        /\ x < week
        /\ Puts(cur, x, Append(dP[cur][x], Head(overflow)))
  BY NWeeksAssumption DEF ShiftEarlier, Open, Window, Weeks, Puts
<1>2. /\ phase = "place" /\ phase' = "place" /\ todo' = todo /\ cur' = cur
      /\ week' = week /\ dS' = dS /\ backlog' = backlog /\ overflow # << >>
      /\ overflow' = Tail(overflow)
  BY DEF ShiftEarlier
<1>3. /\ cur \in todo /\ cur \in Moms /\ week \in Weeks /\ cur \notin Untrimmed
      /\ Trimmed(cur)
      /\ week \in 0 .. NWeeks /\ week # NWeeks /\ NWeeks \in 0 .. NWeeks
      /\ Spots(cur)[NWeeks] = overflow
  BY <1>2, TrimmingFacts
<1> DEFINE q == dP[cur][x]
           t == Append(q, Head(overflow))
<1>4. /\ dP'[cur][x] = t
      /\ \A w \in Weeks : w # x => dP'[cur][w] = dP[cur][w]
      /\ \A o \in Moms : o # cur => dP'[o] = dP[o]
  BY <1>1, <1>3, BucketReplaced
<1>5. PICK a \in Nat, b \in Nat :
        /\ Len(q) = a /\ Len(t) = a + 1 /\ Len(overflow) = b + 1 /\ Len(overflow') = b
        /\ DOMAIN q = 1 .. a /\ DOMAIN t = 1 .. a + 1
        /\ DOMAIN overflow = 1 .. b + 1 /\ DOMAIN overflow' = 1 .. b
        /\ \A i \in 1 .. a : t[i] = q[i]
        /\ t[a + 1] = overflow[1]
        /\ \A i \in 1 .. b : overflow'[i] = overflow[i + 1]
  <2>1. q \in Seq(LotIds) /\ overflow \in Seq(LotIds)
    BY <1>3, TrimTypes
  <2>2. /\ Len(overflow) \in Nat /\ Len(overflow) > 0 /\ Head(overflow) = overflow[1]
        /\ Head(overflow) \in LotIds
        /\ Len(Tail(overflow)) = Len(overflow) - 1
        /\ DOMAIN overflow = 1 .. Len(overflow)
        /\ DOMAIN Tail(overflow) = 1 .. Len(overflow) - 1
        /\ \A i \in 1 .. Len(overflow) - 1 : Tail(overflow)[i] = overflow[i + 1]
    BY <1>2, <2>1, TailFacts
  <2> HIDE DEF q
  <2>3. /\ Len(q) \in Nat /\ DOMAIN q = 1 .. Len(q)
        /\ t \in Seq(LotIds) /\ Len(t) = Len(q) + 1 /\ DOMAIN t = 1 .. Len(q) + 1
        /\ \A i \in 1 .. Len(q) : t[i] = q[i]
        /\ t[Len(q) + 1] = Head(overflow)
    BY <2>1, <2>2
  <2>4. PICK a \in Nat, b \in Nat : a = Len(q) /\ b = Len(overflow) - 1
    <3>1. Len(overflow) - 1 \in Nat
      BY <2>2
    <3> QED
      BY <2>3, <3>1
  <2>5. Len(overflow) = b + 1
    BY <2>2, <2>4
  <2> HIDE DEF t
  <2> QED
    BY <1>2, <2>2, <2>3, <2>4, <2>5
<1> HIDE DEF q, t
<1>6. /\ Once(Spots(cur)', 0 .. NWeeks)
      /\ Within(Spots(cur)', Spots(cur), 0 .. NWeeks)
  <2> DEFINE c == Spots(cur)
             d == Spots(cur)'
  <2>1. /\ c[x] = q /\ d[x] = t /\ c[NWeeks] = overflow /\ d[NWeeks] = overflow'
        /\ x \in 0 .. NWeeks /\ x # NWeeks
        /\ \A w \in 0 .. NWeeks : w # x /\ w # NWeeks => d[w] = c[w]
    <3>1. \A w \in 0 .. NWeeks : w # NWeeks =>
            w \in Weeks /\ c[w] = dP[cur][w] /\ d[w] = dP'[cur][w]
      BY <1>2, TrimTypes DEF Spots
    <3>2. d[NWeeks] = overflow' /\ c[NWeeks] = overflow
      BY <1>2, <1>3 DEF Spots
    <3>3. x \in 0 .. NWeeks /\ x # NWeeks
      BY NWeeksAssumption DEF Weeks
    <3> QED
      BY <1>4, <3>1, <3>2, <3>3 DEF q
  <2> HIDE DEF c, d
  <2>2. Moves(d, c, x, NWeeks, a, b, 0 .. NWeeks)
    BY <1>5, <2>1 DEF Moves
  <2>3. Once(c, 0 .. NWeeks)
    BY <1>3 DEF Trimmed, c
  <2>4. Once(d, 0 .. NWeeks) /\ Within(d, c, 0 .. NWeeks)
    BY <1>3, <2>1, <2>2, <2>3, OnceMoved
  <2> QED
    BY <2>4 DEF c, d
<1>7. Apart(cur)'
  BY <1>2, <1>3, <1>6 DEF Trimmed, Apart, Within
<1>8. Short(cur)'
  <2>1. PICK e \in Int : e = 1
    OBVIOUS
  <2>2. SumsDiffer(dP, dP', cur, x, e)
    <3>1. Differ(dP, dP', cur, x, e)
      BY <1>4, <1>5, <2>1 DEF Differ, q
    <3>2. dP[cur] \in [Weeks -> Seq(LotIds)] /\ dP'[cur] \in [Weeks -> Seq(LotIds)]
      BY <1>2, <1>3, TrimTypes DEF TypeOK, Buckets
    <3> QED
      BY <3>1, <3>2, LotsChange
  <2>3. ASSUME NEW w \in Weeks
        PROVE  (Lots(dS, cur, w) <=
                  Lots(dP, cur, w) + Cardinality(Due(cur, w)) + Waiting(cur, w))'
    <3>1. Lots(dS, cur, w) <=
            Lots(dP, cur, w) + Cardinality(Due(cur, w)) + Waiting(cur, w)
      BY <1>3 DEF Trimmed, Short
    <3>2. /\ Due(cur, w)' = Due(cur, w) /\ Lots(dS, cur, w)' = Lots(dS, cur, w)
          /\ Waiting(cur, w) = IF week <= w THEN b + 1 ELSE 0
          /\ Waiting(cur, w)' = IF week <= w THEN b ELSE 0
          /\ Lots(dP, cur, w)' = Lots(dP', cur, w)
      <4>1. Waiting(cur, w) = IF week <= w THEN b + 1 ELSE 0
        BY <1>5 DEF Waiting
      <4>2. Waiting(cur, w)' = IF week <= w THEN b ELSE 0
        BY <1>2, <1>5 DEF Waiting
      <4> QED
        BY <1>2, <4>1, <4>2 DEF Due, Lots
    <3>3. Lots(dP', cur, w) = Lots(dP, cur, w) + IF x <= w THEN 1 ELSE 0
      BY <2>1, <2>2 DEF SumsDiffer
    <3>4. /\ Lots(dS, cur, w) \in Nat /\ Lots(dP, cur, w) \in Nat
          /\ Cardinality(Due(cur, w)) \in Nat
      BY <1>3, TrimTypes, LotsRecur, DueFinite DEF TrimInv
    <3>5. week <= w => x <= w
      BY <1>1, <1>3 DEF Weeks
    <3> QED
      BY <3>1, <3>2, <3>3, <3>4, <3>5
  <2> QED
    BY <1>2, <2>3 DEF Short
<1>9. Trimmed(cur)'
  BY <1>2, <1>6, <1>7, <1>8 DEF Trimmed, Once
<1>10. Untrimmed' = Untrimmed
  BY <1>2 DEF Untrimmed
<1> QED
  BY <1>2, <1>3, <1>4, <1>9, <1>10, OthersTrim DEF TrimInv

(* An overflow lot finds no week: the first lot of the queue leaves the    *)
(* buckets for the backlog.                                                *)
LEMMA RecordTrims ==
  ASSUME TypeOK, TypeOK', OverflowInv, TrimInv, RecordBacklog
  PROVE  TrimInv'
<1> DEFINE new == [lot |-> Head(overflow), mom |-> cur, week |-> week]
<1>1. /\ phase = "place" /\ phase' = "place" /\ todo' = todo /\ cur' = cur
      /\ week' = week /\ dS' = dS /\ dP' = dP /\ backlog' = backlog \cup {new}
      /\ overflow # << >> /\ overflow' = Tail(overflow)
  BY DEF RecordBacklog, tree, Backlogged
<1>2. /\ cur \in todo /\ cur \in Moms /\ week \in Weeks /\ cur \notin Untrimmed
      /\ Trimmed(cur)
      /\ week \in 0 .. NWeeks /\ week # NWeeks /\ NWeeks \in 0 .. NWeeks
      /\ Spots(cur)[NWeeks] = overflow
  BY <1>1, TrimmingFacts
<1>3. PICK b \in Nat :
        /\ Len(overflow) = b + 1 /\ Len(overflow') = b
        /\ DOMAIN overflow = 1 .. b + 1 /\ DOMAIN overflow' = 1 .. b
        /\ \A i \in 1 .. b : overflow'[i] = overflow[i + 1]
        /\ Head(overflow) = overflow[1] /\ 1 \in DOMAIN overflow
  <2>1. overflow \in Seq(LotIds)
    BY TrimTypes
  <2>2. /\ Len(overflow) \in Nat /\ Len(overflow) > 0 /\ Head(overflow) = overflow[1]
        /\ Len(Tail(overflow)) = Len(overflow) - 1
        /\ DOMAIN overflow = 1 .. Len(overflow)
        /\ DOMAIN Tail(overflow) = 1 .. Len(overflow) - 1
        /\ \A i \in 1 .. Len(overflow) - 1 : Tail(overflow)[i] = overflow[i + 1]
    BY <1>1, <2>1, TailFacts
  <2>3. PICK b \in Nat : b = Len(overflow) - 1
    <3>1. Len(overflow) - 1 \in Nat
      BY <2>2
    <3> QED
      BY <3>1
  <2>4. Len(overflow) = b + 1 /\ 1 \in 1 .. b + 1
    BY <2>2, <2>3
  <2>5. DOMAIN overflow = 1 .. b + 1 /\ DOMAIN overflow' = 1 .. b /\ Len(overflow') = b
    BY <1>1, <2>2, <2>3, <2>4
  <2>6. \A i \in 1 .. b : overflow'[i] = overflow[i + 1]
    BY <1>1, <2>2, <2>3
  <2> QED
    BY <2>2, <2>4, <2>5, <2>6
<1>4. /\ Once(Spots(cur)', 0 .. NWeeks)
      /\ Within(Spots(cur)', Spots(cur), 0 .. NWeeks)
      /\ \A v \in 0 .. NWeeks : ~ Holds(Spots(cur)'[v], Head(overflow))
  <2> DEFINE c == Spots(cur)
             d == Spots(cur)'
  <2>1. /\ c[NWeeks] = overflow /\ d[NWeeks] = overflow'
        /\ \A w \in 0 .. NWeeks : w # NWeeks => d[w] = c[w]
    BY <1>1, <1>2 DEF Spots
  <2> HIDE DEF c, d
  <2>2. Takes(d, c, NWeeks, b, 0 .. NWeeks)
    BY <1>3, <2>1 DEF Takes
  <2>3. Once(c, 0 .. NWeeks)
    BY <1>2 DEF Trimmed, c
  <2>4. /\ Once(d, 0 .. NWeeks) /\ Within(d, c, 0 .. NWeeks)
        /\ \A w \in 0 .. NWeeks : ~ Holds(d[w], c[NWeeks][1])
    BY <1>2, <2>2, <2>3, OnceTaken
  <2> QED
    BY <1>3, <2>1, <2>4 DEF c, d
<1>5. new.lot = Head(overflow) /\ new.mom = cur /\ new.week = week
  OBVIOUS
<1>6. new \notin backlog
  <2>1. Holds(Spots(cur)[NWeeks], Head(overflow))
    BY <1>2, <1>3 DEF Holds
  <2> HIDE DEF new
  <2> QED
    BY <1>2, <1>5, <2>1 DEF Trimmed, Apart
<1> HIDE DEF new
<1>7. Apart(cur)'
  BY <1>1, <1>2, <1>4, <1>5 DEF Trimmed, Apart, Within
<1>8. Short(cur)'
  <2>1. ASSUME NEW w \in Weeks
        PROVE  (Lots(dS, cur, w) <=
                  Lots(dP, cur, w) + Cardinality(Due(cur, w)) + Waiting(cur, w))'
    <3>1. Lots(dS, cur, w) <=
            Lots(dP, cur, w) + Cardinality(Due(cur, w)) + Waiting(cur, w)
      BY <1>2 DEF Trimmed, Short
    <3>2. Waiting(cur, w) = IF week <= w THEN b + 1 ELSE 0
      BY <1>3 DEF Waiting
    <3>3. Waiting(cur, w)' = IF week <= w THEN b ELSE 0
      BY <1>1, <1>3 DEF Waiting
    <3>4. Lots(dS, cur, w)' = Lots(dS, cur, w) /\ Lots(dP, cur, w)' = Lots(dP, cur, w)
      BY <1>1 DEF Lots
    <3>5. Cardinality(Due(cur, w))' =
            Cardinality(Due(cur, w)) + IF week <= w THEN 1 ELSE 0
      <4>1. IsFiniteSet(Due(cur, w)) /\ new \notin Due(cur, w)
            /\ Cardinality(Due(cur, w)) \in Nat
        BY <1>6, DueFinite DEF TrimInv, Due
      <4>2. CASE week <= w
        <5>1. Due(cur, w)' = Due(cur, w) \cup {new}
          BY <1>1, <1>5, <4>2 DEF Due
        <5>2. Cardinality(Due(cur, w) \cup {new}) = Cardinality(Due(cur, w)) + 1
          BY <4>1, FS_AddElement
        <5> QED
          BY <4>2, <5>1, <5>2
      <4>3. CASE ~ (week <= w)
        <5>1. Due(cur, w)' = Due(cur, w)
          BY <1>1, <1>5, <4>3 DEF Due
        <5> QED
          BY <4>1, <4>3, <5>1
      <4> QED
        BY <4>2, <4>3
    <3>6. /\ Lots(dS, cur, w) \in Nat /\ Lots(dP, cur, w) \in Nat
          /\ Cardinality(Due(cur, w)) \in Nat
      BY <1>2, TrimTypes, LotsRecur, DueFinite DEF TrimInv
    <3> QED
      BY <3>1, <3>2, <3>3, <3>4, <3>5, <3>6
  <2> QED
    BY <1>1, <2>1 DEF Short
<1>9. Trimmed(cur)'
  BY <1>1, <1>4, <1>7, <1>8 DEF Trimmed, Once
<1>10. Untrimmed' = Untrimmed
  BY <1>1 DEF Untrimmed
<1>11. IsFiniteSet(backlog')
  BY <1>1, FS_AddElement DEF TrimInv
<1>12. \A d : d.mom # cur => (d \in backlog' <=> d \in backlog)
  BY <1>1, <1>5
<1> QED
  BY <1>1, <1>2, <1>9, <1>10, <1>11, <1>12, OthersTrim

(* Every MOM has its list of weeks and every week its four buckets.        *)
Whole == setting.malformed = {} /\ setting.noPsi = {}

(* While the planning runs, every step keeps the trimming's accounts.      *)
LEMMA NextTrims ==
  ASSUME TypeOK, TypeOK', OverflowInv, TrimInv, Demanded, Whole, Next, phase # "idle",
         phase' # "idle"
  PROVE  TrimInv'
<1>1. /\ ~ \E m \in Moms : SkipMom(m)
      /\ ~ SkipWeek /\ ~ CheckRaises
  BY DEF Whole, SkipMom, SkipWeek, CheckRaises
<1>2. ~ Call /\ ~ Return
  BY DEF Call, Return
<1>3. dS' = dS
  BY <1>1, <1>2 DEF Next, BeginMom, PlanWeek, CheckWeek, ShiftEarlier,
     RecordBacklog, NextCheckWeek, EndMom, tree
<1>4. CASE NextCheckWeek \/ EndMom \/ \E m \in Moms : BeginMom(m)
  BY <1>3, <1>4, QuietTrims
<1>5. CASE PlanWeek
  BY <1>5, PlanTrims
<1>6. CASE CheckWeek
  BY <1>6, CheckTrims
<1>7. CASE ShiftEarlier
  BY <1>7, ShiftTrims
<1>8. CASE RecordBacklog
  BY <1>8, RecordTrims
<1> QED
  BY <1>1, <1>2, <1>4, <1>5, <1>6, <1>7, <1>8 DEF Next

EachOnce(q) == \A i, j \in DOMAIN q : q[i] = q[j] => i = j

(* What the planning hands over.                                           *)
PlanReady ==
  /\ Demanded
  /\ IsFiniteSet(backlog)
  /\ \A m \in Moms, w \in Weeks :
       /\ Lots(dS, m, w) <= Lots(dP, m, w) + Cardinality(Due(m, w))
       /\ Len(dP[m][w]) <= ResolvedCapacity(m)[w]
  /\ \A m \in Moms, w \in Weeks : EachOnce(dP[m][w])

LEMMA TrimEnds ==
  ASSUME TypeOK, OverflowInv, CapacityRespected, TrimInv, Demanded, Whole, Return
  PROVE  PlanReady'
<1>1. /\ phase = "mom" /\ todo = {} /\ dS' = dS /\ dP' = dP /\ backlog' = backlog
      /\ setting' = setting
  BY DEF Return, tree, result
<1>2. overflow = << >>
  BY <1>1 DEF OverflowInv
<1>3. ASSUME NEW m \in Moms PROVE Trimmed(m)
  BY <1>1 DEF TrimInv, Untrimmed
<1>4. ASSUME NEW m \in Moms, NEW w \in Weeks
      PROVE  /\ Lots(dS, m, w) <= Lots(dP, m, w) + Cardinality(Due(m, w))
             /\ Len(dP[m][w]) <= ResolvedCapacity(m)[w]
             /\ EachOnce(dP[m][w])
  <2>1. Waiting(m, w) = 0
    BY <1>2 DEF Waiting
  <2>2. Lots(dS, m, w) <= Lots(dP, m, w) + Cardinality(Due(m, w)) + Waiting(m, w)
    BY <1>3 DEF Trimmed, Short
  <2>3. Lots(dP, m, w) \in Nat /\ Cardinality(Due(m, w)) \in Nat
    BY TrimTypes, LotsRecur, DueFinite DEF TrimInv
  <2>4. Lots(dS, m, w) <= Lots(dP, m, w) + Cardinality(Due(m, w))
    BY <2>1, <2>2, <2>3
  <2>5. Checked(m, w) /\ w \in Weeks
    BY <1>1 DEF Whole, Checked, Finished
  <2>6. Len(dP[m][w]) <= ResolvedCapacity(m)[w]
    BY <2>5 DEF CapacityRespected
  <2>7. EachOnce(dP[m][w])
    <3>1. Once(Spots(m), 0 .. NWeeks)
      BY <1>3 DEF Trimmed
    <3>2. w \in 0 .. NWeeks /\ Spots(m)[w] = dP[m][w]
      BY SpotsTyped
    <3>3. EachOnce(Spots(m)[w])
      BY <3>1, <3>2 DEF Once, EachOnce
    <3> QED
      BY <3>2, <3>3
  <2> QED
    BY <2>4, <2>6, <2>7
<1>5. Demanded'
  BY <1>1 DEF Demanded, Once
<1>6. ASSUME NEW m \in Moms, NEW w \in Weeks
      PROVE  /\ Lots(dS', m, w) <= Lots(dP', m, w) + Cardinality(Due(m, w)')
             /\ Len(dP'[m][w]) <= ResolvedCapacity(m)'[w]
             /\ EachOnce(dP'[m][w])
  <2>1. Due(m, w)' = Due(m, w) /\ ResolvedCapacity(m)' = ResolvedCapacity(m)
    BY <1>1 DEF Due, ResolvedCapacity
  <2> QED
    BY <1>1, <1>4, <2>1
<1>7. ASSUME NEW m \in Moms, NEW w \in Weeks
      PROVE  (/\ Lots(dS, m, w) <= Lots(dP, m, w) + Cardinality(Due(m, w))
              /\ Len(dP[m][w]) <= ResolvedCapacity(m)[w]
              /\ EachOnce(dP[m][w]))'
  BY <1>6 DEF Lots, EachOnce
<1>8. IsFiniteSet(backlog')
  BY <1>1 DEF TrimInv
<1> QED
  BY <1>5, <1>7, <1>8 DEF PlanReady

(* What leaves a finished plan alone.                                      *)
LEMMA ReadyStays ==
  ASSUME UNCHANGED << dS, dP, backlog, setting >>, PlanReady
  PROVE  PlanReady'
<1>1. Demanded' /\ IsFiniteSet(backlog')
  BY DEF PlanReady, Demanded, Once
<1>2. ASSUME NEW m \in Moms, NEW w \in Weeks
      PROVE  (/\ Lots(dS, m, w) <= Lots(dP, m, w) + Cardinality(Due(m, w))
              /\ Len(dP[m][w]) <= ResolvedCapacity(m)[w]
              /\ EachOnce(dP[m][w]))'
  <2>1. Due(m, w)' = Due(m, w) /\ ResolvedCapacity(m)' = ResolvedCapacity(m)
    BY DEF Due, ResolvedCapacity
  <2>2. /\ Lots(dS', m, w) <= Lots(dP', m, w) + Cardinality(Due(m, w)')
        /\ Len(dP'[m][w]) <= ResolvedCapacity(m)'[w]
        /\ EachOnce(dP'[m][w])
    BY <2>1 DEF PlanReady
  <2> QED
    BY <2>2 DEF Lots, EachOnce
<1> QED
  BY <1>1, <1>2 DEF PlanReady

----------------------------------------------------------------------------
(* Where a first call has each lot of a tree that has every lot once: due, *)
(* planned, waiting in the overflow, or given up.                          *)

At(b, lot, m, w, k) ==
  m \in Moms /\ w \in Weeks /\ k \in DOMAIN b[m][w] /\ b[m][w][k] = lot

Single(b, lot, m, w) ==
  \E k : /\ At(b, lot, m, w, k)
         /\ \A n, v, j : At(b, lot, n, v, j) => n = m /\ v = w /\ j = k

Nowhere(b, lot) == \A n, v, j : ~ At(b, lot, n, v, j)

Queued(lot)  == Holds(overflow, lot)
QueuedOnce(lot) ==
  \A i, j \in DOMAIN overflow : overflow[i] = lot /\ overflow[j] = lot => i = j
Dropped(lot) == \E b \in backlog : b.lot = lot

(* A lot due at m in week w that is still to be planned, ...               *)
Unplanned(lot, m, w) ==
  w \notin PlannedWeeks(m) /\ Nowhere(dP, lot) /\ ~ Queued(lot) /\ ~ Dropped(lot)

(* ... built in week v, its own or, once that is checked, an earlier, ...  *)
Built(lot, m, w, v) ==
  /\ w \in PlannedWeeks(m) /\ Single(dP, lot, m, v)
  /\ ~ Queued(lot) /\ ~ Dropped(lot)
  /\ v = w \/ (v < w /\ Checked(m, w))

(* ... in the overflow of its week, ...                                    *)
Waits(lot, m, w) ==
  /\ w \in PlannedWeeks(m) /\ m = cur /\ w = week
  /\ Nowhere(dP, lot) /\ Queued(lot) /\ QueuedOnce(lot) /\ ~ Dropped(lot)

(* ... or backlog.                                                         *)
Gone(lot, m, w) ==
  w \in PlannedWeeks(m) /\ Nowhere(dP, lot) /\ ~ Queued(lot) /\ Dropped(lot)

Sits(lot, m, w, v) ==
  Built(lot, m, w, v) \/ (v = w /\ (Unplanned(lot, m, w) \/ Waits(lot, m, w)))

TreeInv ==
  /\ setting.malformed = {} /\ setting.noPsi = {}
  /\ \A lot \in LotIds : \E m, w : Single(dS, lot, m, w)

FirstInv ==
  calls = 0 => phase = "idle" /\ todo = Moms /\ backlog = {}

PlaceInv ==
  calls <= 1 =>
    \A lot \in LotIds : \A m, w : Single(dS, lot, m, w) =>
      Gone(lot, m, w) \/ \E v : Sits(lot, m, w, v)

FirstCallInv ==
  /\ TypeOK /\ PlanningInv /\ OverflowInv /\ CapacityRespected
  /\ TreeInv /\ FirstInv /\ PlaceInv

(* The weeks planned before a step stay planned, but for the next call.    *)
LEMMA PlannedKept ==
  ASSUME TypeOK, PlanningInv, [Next]_vars, ~ Call, NEW m \in Moms, NEW w \in PlannedWeeks(m)
  PROVE  w \in PlannedWeeks(m)'
<1> USE DEF TypeOK, PlannedWeeks, Finished, tree, result, Weeks
<1>1. CASE SkipWeek \/ PlanWeek
  <2>1. todo' = todo /\ cur' = cur /\ setting' = setting /\ phase = "plan" /\ NextPlanWeek
    BY <1>1 DEF SkipWeek, PlanWeek
  <2>2. (week' = week + 1 /\ phase' = "plan") \/ phase' = "check"
    BY <2>1 DEF NextPlanWeek
  <2>3. w \in Int /\ week \in Int /\ (w < week => w < week + 1)
    BY NWeeksAssumption
  <2> QED
    BY <2>1, <2>2, <2>3
<1>2. ASSUME NEW n \in Moms, SkipMom(n) PROVE w \in PlannedWeeks(m)'
  BY <1>2 DEF SkipMom
<1>3. ASSUME NEW n \in Moms, BeginMom(n) PROVE w \in PlannedWeeks(m)'
  BY <1>3 DEF BeginMom
<1>4. CASE CheckRaises \/ CheckWeek
  BY <1>4 DEF CheckRaises, CheckWeek
<1>5. CASE ShiftEarlier \/ RecordBacklog
  BY <1>5 DEF ShiftEarlier, RecordBacklog
<1>6. CASE NextCheckWeek \/ Return
  BY <1>6 DEF NextCheckWeek, Return
<1>7. CASE UNCHANGED vars
  BY <1>7 DEF vars
<1>8. CASE EndMom
  BY <1>8 DEF EndMom, PlanningInv
<1> QED
  BY <1>1, <1>2, <1>3, <1>4, <1>5, <1>6, <1>7, <1>8 DEF Next

(* A step that takes a lot neither out of a bucket, nor out of the queue,  *)
(* nor puts it anywhere leaves it where it is.                             *)
LEMMA QuietStep ==
  ASSUME TypeOK, PlanningInv, [Next]_vars, ~ Call, ~ PlanWeek,
         UNCHANGED << dP, overflow, backlog >>, overflow # << >> => UNCHANGED << cur, week >>,
         NEW lot, NEW m \in Moms, NEW w \in Weeks
  PROVE  /\ Gone(lot, m, w) => Gone(lot, m, w)'
         /\ \A v : Sits(lot, m, w, v) => Sits(lot, m, w, v)'
<1>1. w \in PlannedWeeks(m)' <=> w \in PlannedWeeks(m)
  BY PlannedKept, PlannedStep
<1>2. Checked(m, w) => Checked(m, w)'
  BY CheckedKept
<1>3. /\ Queued(lot)' <=> Queued(lot)
      /\ QueuedOnce(lot)' <=> QueuedOnce(lot)
      /\ Dropped(lot)' <=> Dropped(lot)
      /\ Nowhere(dP, lot)' <=> Nowhere(dP, lot)
      /\ \A v : Single(dP, lot, m, v)' <=> Single(dP, lot, m, v)
  BY DEF Queued, QueuedOnce, Dropped, Nowhere, Single, At, Holds
<1>4. Queued(lot) => UNCHANGED << cur, week >>
  BY DEF Queued, Holds
<1> QED
  BY <1>1, <1>2, <1>3, <1>4 DEF Gone, Sits, Built, Unplanned, Waits

(* One bucket is replaced.                                                 *)
Replaced(b, c, m, w, q) == c = [b EXCEPT ![m][w] = q]

LEMMA OneBucket ==
  ASSUME NEW b \in Buckets, NEW m \in Moms, NEW w \in Weeks, NEW q, NEW c,
         Replaced(b, c, m, w, q)
  PROVE  c[m][w] = q /\ \A o \in Moms, v \in Weeks : o # m \/ v # w => c[o][v] = b[o][v]
  BY DEF Buckets, Replaced

(* Where the elements of a concatenation come from.                        *)
LEMMA ConcatParts ==
  ASSUME NEW q \in Seq(LotIds), NEW d \in Seq(LotIds), NEW x
  PROVE  /\ Len(q) \in Nat
         /\ \A i : i \in DOMAIN q /\ q[i] = x => i \in DOMAIN (q \o d) /\ (q \o d)[i] = x
         /\ \A i : i \in DOMAIN d /\ d[i] = x =>
              Len(q) + i \in DOMAIN (q \o d) /\ (q \o d)[Len(q) + i] = x
         /\ \A i : i \in DOMAIN (q \o d) /\ (q \o d)[i] = x =>
              \/ i \in DOMAIN q /\ q[i] = x
              \/ \E j \in DOMAIN d : i = Len(q) + j /\ d[j] = x
<1> DEFINE c == q \o d
<1>1. /\ Len(q) \in Nat /\ Len(d) \in Nat /\ DOMAIN q = 1 .. Len(q) /\ DOMAIN d = 1 .. Len(d)
      /\ DOMAIN c = 1 .. Len(q) + Len(d)
      /\ \A i \in 1 .. Len(q) : c[i] = q[i]
      /\ \A i \in 1 .. Len(d) : c[Len(q) + i] = d[i]
  OBVIOUS
<1> HIDE DEF c
<1>2. \A i \in 1 .. Len(q) : i \in 1 .. Len(q) + Len(d)
  BY <1>1
<1>3. \A i \in 1 .. Len(d) : Len(q) + i \in 1 .. Len(q) + Len(d)
  BY <1>1
<1>4. \A i \in 1 .. Len(q) + Len(d) : i \in 1 .. Len(q) \/ \E j \in 1 .. Len(d) : i = Len(q) + j
  <2> SUFFICES ASSUME NEW i \in 1 .. Len(q) + Len(d), i \notin 1 .. Len(q)
               PROVE  \E j \in 1 .. Len(d) : i = Len(q) + j
    OBVIOUS
  <2>1. i - Len(q) \in 1 .. Len(d) /\ i = Len(q) + (i - Len(q))
    BY <1>1
  <2> QED
    BY <2>1
<1>5. /\ \A i : i \in DOMAIN q /\ q[i] = x => i \in DOMAIN c /\ c[i] = x
      /\ \A i : i \in DOMAIN d /\ d[i] = x => Len(q) + i \in DOMAIN c /\ c[Len(q) + i] = x
  BY <1>1, <1>2, <1>3
<1>6. ASSUME NEW i \in DOMAIN c, c[i] = x
      PROVE  \/ i \in DOMAIN q /\ q[i] = x
             \/ \E j \in DOMAIN d : i = Len(q) + j /\ d[j] = x
  <2>1. i \in 1 .. Len(q) + Len(d)
    BY <1>1
  <2>2. CASE i \in 1 .. Len(q)
    BY <1>1, <1>6, <2>2
  <2>3. CASE \E j \in 1 .. Len(d) : i = Len(q) + j
    BY <1>1, <1>6, <2>3
  <2> QED
    BY <1>4, <2>1, <2>2, <2>3
<1> QED
  BY <1>1, <1>5, <1>6 DEF c

(* A call's own demand lot, when its week is planned, is built in its      *)
(* week; every other stays where it is.                                    *)
LEMMA PlanPlaces ==
  ASSUME FirstCallInv, PlanWeek, [Next]_vars,
         NEW lot \in LotIds, NEW m, NEW w, Single(dS, lot, m, w)
  PROVE  /\ Gone(lot, m, w) => Gone(lot, m, w)'
         /\ \A v : Sits(lot, m, w, v) => Sits(lot, m, w, v)'
<1>1. PICK k : /\ At(dS, lot, m, w, k)
               /\ \A o, v, j : At(dS, lot, o, v, j) => o = m /\ v = w /\ j = k
  BY DEF Single
<1>2. /\ TypeOK /\ PlanningInv /\ OverflowInv /\ m \in Moms /\ w \in Weeks
      /\ k \in DOMAIN dS[m][w] /\ dS[m][w][k] = lot
  BY <1>1 DEF FirstCallInv, At
<1>0. PICK mc \in Moms, wc \in Weeks : mc = cur /\ wc = week
  BY <1>2 DEF PlanWeek, TypeOK
<1> DEFINE q == dP[mc][wc]  d == dS[mc][wc]
<1>3. /\ phase = "plan" /\ q \in Seq(LotIds) /\ d \in Seq(LotIds)
      /\ mc \in todo /\ << mc, wc >> \notin setting.malformed
      /\ dP \in Buckets /\ Replaced(dP, dP', mc, wc, q \o d)
      /\ UNCHANGED << dS, setting, todo, cur, overflow, backlog, calls >>
  BY <1>0, <1>2 DEF PlanWeek, TypeOK, Buckets, Replaced
<1>4. overflow = << >> /\ ~ Queued(lot) /\ ~ Queued(lot)' /\ ~ Call
  BY <1>2, <1>3 DEF OverflowInv, Queued, Holds, Call
<1>5. /\ dP'[mc][wc] = q \o d
      /\ \A o \in Moms, v \in Weeks : o # mc \/ v # wc => dP'[o][v] = dP[o][v]
  <2> DEFINE r == q \o d
  <2>1. dP \in Buckets /\ Replaced(dP, dP', mc, wc, r)
    BY <1>3
  <2> HIDE DEF r
  <2>2. /\ dP'[mc][wc] = r
        /\ \A o \in Moms, v \in Weeks : o # mc \/ v # wc => dP'[o][v] = dP[o][v]
    BY <2>1, OneBucket
  <2> QED
    BY <2>2 DEF r
<1>6. PICK n \in Nat :
      /\ \A i : i \in DOMAIN q /\ q[i] = lot => i \in DOMAIN (q \o d) /\ (q \o d)[i] = lot
      /\ \A i : i \in DOMAIN d /\ d[i] = lot =>
           n + i \in DOMAIN (q \o d) /\ (q \o d)[n + i] = lot
      /\ \A i : i \in DOMAIN (q \o d) /\ (q \o d)[i] = lot =>
           \/ i \in DOMAIN q /\ q[i] = lot
           \/ \E j \in DOMAIN d : i = n + j /\ d[j] = lot
  <2> HIDE DEF q, d
  <2> DEFINE l == Len(q)
  <2>1. /\ l \in Nat
        /\ \A i : i \in DOMAIN q /\ q[i] = lot => i \in DOMAIN (q \o d) /\ (q \o d)[i] = lot
        /\ \A i : i \in DOMAIN d /\ d[i] = lot =>
             l + i \in DOMAIN (q \o d) /\ (q \o d)[l + i] = lot
        /\ \A i : i \in DOMAIN (q \o d) /\ (q \o d)[i] = lot =>
             \/ i \in DOMAIN q /\ q[i] = lot
             \/ \E j \in DOMAIN d : i = l + j /\ d[j] = lot
    BY <1>3, ConcatParts
  <2> HIDE DEF l
  <2> QED
    BY <2>1
<1>7. \A i : At(dP, lot, mc, wc, i) <=> i \in DOMAIN q /\ q[i] = lot
  BY <1>3 DEF At
<1>8. \A i : At(dP, lot, mc, wc, i)' <=> i \in DOMAIN (q \o d) /\ (q \o d)[i] = lot
  BY <1>3, <1>5 DEF At
<1>9. \A i : At(dS, lot, mc, wc, i) <=> i \in DOMAIN d /\ d[i] = lot
  BY <1>3 DEF At
<1>10. \A o, v, i : o # mc \/ v # wc => (At(dP, lot, o, v, i)' <=> At(dP, lot, o, v, i))
  BY <1>5 DEF At
<1> HIDE DEF q, d
<1>11. \A o, v, i : At(dP, lot, o, v, i) => At(dP, lot, o, v, i)'
  BY <1>6, <1>7, <1>8, <1>10
<1>12. \A o, v, i : At(dP, lot, o, v, i)' =>
        \/ At(dP, lot, o, v, i)
        \/ o = mc /\ v = wc /\ m = mc /\ w = wc /\ i = n + k
  <2> SUFFICES ASSUME NEW i, At(dP, lot, mc, wc, i)', ~ At(dP, lot, mc, wc, i)
               PROVE  m = mc /\ w = wc /\ i = n + k
    BY <1>10
  <2>1. PICK j \in DOMAIN d : i = n + j /\ d[j] = lot
    BY <1>6, <1>7, <1>8
  <2>2. At(dS, lot, mc, wc, j)
    BY <1>9, <2>1
  <2> QED
    BY <1>1, <2>1, <2>2
<1>13. /\ \A v : v \in PlannedWeeks(m) => v \in PlannedWeeks(m)'
       /\ \A v : v \in PlannedWeeks(m)' => v \in PlannedWeeks(m) \/ (m = mc /\ v = wc)
  BY <1>0, <1>2, <1>4, PlannedKept, PlannedStep
<1>14. Checked(m, w) => Checked(m, w)'
  BY <1>2, <1>4, CheckedKept
<1>15. Dropped(lot)' <=> Dropped(lot)
  BY <1>3 DEF Dropped
<1>16. CASE m = mc /\ w = wc
  <2>1. w \notin PlannedWeeks(m)
    BY <1>0, <1>3, <1>16 DEF PlannedWeeks, Finished, Weeks
  <2>2. w \in PlannedWeeks(m)'
    <3>1. NextPlanWeek /\ week \in Int
      BY NWeeksAssumption, <1>0, <1>3 DEF PlanWeek, Weeks
    <3>2. (week' = week + 1 /\ phase' = "plan") \/ phase' = "check"
      BY <3>1 DEF NextPlanWeek
    <3>3. week < week + 1
      BY <3>1
    <3> QED
      BY <1>0, <1>3, <1>16, <3>2, <3>3 DEF PlannedWeeks, Weeks
  <2>3. ASSUME Unplanned(lot, m, w) PROVE Built(lot, m, w, w)'
    <3>1. k \in DOMAIN d /\ d[k] = lot
      BY <1>2, <1>9, <1>1, <1>16
    <3>2. At(dP, lot, m, w, n + k)'
      BY <1>6, <1>8, <1>16, <3>1
    <3>3. \A o, v, j : At(dP, lot, o, v, j)' => o = m /\ v = w /\ j = n + k
      BY <1>12, <2>3, <1>16 DEF Unplanned, Nowhere
    <3>4. Single(dP, lot, m, w)'
      BY <3>2, <3>3 DEF Single
    <3> QED
      BY <1>4, <1>15, <2>2, <2>3, <3>4 DEF Built, Unplanned
  <2> QED
    BY <2>1, <2>3, <1>16 DEF Gone, Sits, Built, Waits
<1>17. CASE ~ (m = mc /\ w = wc)
  <2>1. Nowhere(dP, lot) => Nowhere(dP, lot)'
    BY <1>12, <1>17 DEF Nowhere
  <2>2. \A v : Single(dP, lot, m, v) => Single(dP, lot, m, v)'
    BY <1>11, <1>12, <1>17 DEF Single
  <2> QED
    BY <1>0, <1>4, <1>13, <1>14, <1>15, <1>17, <2>1, <2>2 DEF Gone, Sits, Built, Unplanned, Waits
<1> QED
  BY <1>16, <1>17

(* Where the elements of a bucket that is split at the capacity go.        *)
LEMMA TakeDropParts ==
  ASSUME NEW q \in Seq(LotIds), NEW c \in Nat, NEW x
  PROVE  \E p \in Nat :
           /\ \A i : i \in DOMAIN Take(q, c) /\ Take(q, c)[i] = x <=>
                       i \in DOMAIN q /\ q[i] = x /\ i <= p
           /\ \A i : i \in DOMAIN Drop(q, c) /\ Drop(q, c)[i] = x =>
                       p + i \in DOMAIN q /\ q[p + i] = x /\ ~ (p + i <= p)
           /\ \A i : i \in DOMAIN q /\ q[i] = x /\ ~ (i <= p) => Holds(Drop(q, c), x)
           /\ \A i, j \in DOMAIN Drop(q, c) : p + i = p + j => i = j
<1> DEFINE p == Lesser(c, Len(q))  t == Take(q, c)  d == Drop(q, c)
<1>1. /\ p \in 0 .. Len(q) /\ Len(q) \in Nat /\ DOMAIN q = 1 .. Len(q)
      /\ t \in Seq(LotIds) /\ d \in Seq(LotIds)
      /\ Len(t) = p /\ Len(d) = Len(q) - p
      /\ \A i \in 1 .. p : t[i] = q[i]
      /\ \A i \in 1 .. Len(q) - p : d[i] = q[i + p]
  BY TakeDropType DEF Lesser
<1> HIDE DEF p, t, d
<1>2. DOMAIN t = 1 .. p /\ DOMAIN d = 1 .. Len(q) - p
  BY <1>1
<1>3. \A i : i \in DOMAIN t /\ t[i] = x <=> i \in DOMAIN q /\ q[i] = x /\ i <= p
  BY <1>1, <1>2
<1>4. \A i : i \in DOMAIN d /\ d[i] = x => p + i \in DOMAIN q /\ q[p + i] = x /\ ~ (p + i <= p)
  <2> SUFFICES ASSUME NEW i \in DOMAIN d, d[i] = x
               PROVE  p + i \in DOMAIN q /\ q[p + i] = x /\ ~ (p + i <= p)
    OBVIOUS
  <2>1. i \in 1 .. Len(q) - p /\ p + i = i + p
    BY <1>1, <1>2
  <2>2. p + i \in 1 .. Len(q) /\ ~ (p + i <= p)
    BY <1>1, <2>1
  <2> QED
    BY <1>1, <2>1, <2>2
<1>5. \A i : i \in DOMAIN q /\ q[i] = x /\ ~ (i <= p) => Holds(d, x)
  <2> SUFFICES ASSUME NEW i \in DOMAIN q, q[i] = x, ~ (i <= p) PROVE Holds(d, x)
    OBVIOUS
  <2>1. i - p \in 1 .. Len(q) - p /\ (i - p) + p = i
    BY <1>1
  <2>2. d[i - p] = x /\ i - p \in DOMAIN d
    BY <1>1, <1>2, <2>1
  <2> QED
    BY <2>2 DEF Holds
<1>6. \A i, j \in DOMAIN d : p + i = p + j => i = j
  BY <1>1, <1>2
<1>7. p \in Nat
  BY <1>1
<1> QED
  BY <1>3, <1>4, <1>5, <1>6, <1>7 DEF t, d

(* The lots a checked week has no capacity for wait; every other stays     *)
(* where it is.                                                            *)
LEMMA CheckPlaces ==
  ASSUME FirstCallInv, CheckWeek, [Next]_vars,
         NEW lot \in LotIds, NEW m, NEW w, Single(dS, lot, m, w)
  PROVE  /\ Gone(lot, m, w) => Gone(lot, m, w)'
         /\ \A v : Sits(lot, m, w, v) => Sits(lot, m, w, v)'
<1>1. m \in Moms /\ w \in Weeks
  BY DEF Single, At
<1>2. TypeOK /\ PlanningInv /\ OverflowInv
  BY DEF FirstCallInv
<1>3. PICK mc \in Moms, wc \in Weeks : mc = cur /\ wc = week
  BY <1>2 DEF CheckWeek, TypeOK
<1> DEFINE q == dP[mc][wc]  c == cap[wc]
<1>4. /\ phase = "check" /\ phase' = "place" /\ q \in Seq(LotIds) /\ c \in Nat /\ mc \in todo
      /\ overflow' = Drop(q, c) /\ mc = cur' /\ wc = week'
      /\ UNCHANGED << setting, backlog >>
  BY <1>2, <1>3 DEF CheckWeek, TypeOK, Buckets
<1>5. ~ Call /\ ~ PlanWeek /\ overflow = << >> /\ ~ Queued(lot)
  BY <1>2, <1>4 DEF Call, PlanWeek, OverflowInv, Queued, Holds
<1>6. /\ dP'[mc][wc] = Take(q, c)
      /\ \A o \in Moms, v \in Weeks : o # mc \/ v # wc => dP'[o][v] = dP[o][v]
  <2> DEFINE r == Take(q, c)
  <2>1. dP \in Buckets /\ Replaced(dP, dP', mc, wc, r)
    BY <1>2, <1>3 DEF CheckWeek, TypeOK, Replaced
  <2> HIDE DEF r
  <2>2. /\ dP'[mc][wc] = r
        /\ \A o \in Moms, v \in Weeks : o # mc \/ v # wc => dP'[o][v] = dP[o][v]
    BY <2>1, OneBucket
  <2> QED
    BY <2>2 DEF r
<1>7. PICK p \in Nat :
           /\ \A i : i \in DOMAIN Take(q, c) /\ Take(q, c)[i] = lot <=>
                       i \in DOMAIN q /\ q[i] = lot /\ i <= p
           /\ \A i : i \in DOMAIN Drop(q, c) /\ Drop(q, c)[i] = lot =>
                       p + i \in DOMAIN q /\ q[p + i] = lot /\ ~ (p + i <= p)
           /\ \A i : i \in DOMAIN q /\ q[i] = lot /\ ~ (i <= p) => Holds(Drop(q, c), lot)
           /\ \A i, j \in DOMAIN Drop(q, c) : p + i = p + j => i = j
  <2> HIDE DEF q, c
  <2> QED
    BY <1>4, TakeDropParts
<1>8. \A i : At(dP, lot, mc, wc, i) <=> i \in DOMAIN q /\ q[i] = lot
  BY <1>3 DEF At
<1>9. \A i : At(dP, lot, mc, wc, i)' <=> i \in DOMAIN Take(q, c) /\ Take(q, c)[i] = lot
  BY <1>3, <1>6 DEF At
<1>10. \A o, v, i : o # mc \/ v # wc => (At(dP, lot, o, v, i)' <=> At(dP, lot, o, v, i))
  BY <1>6 DEF At
<1> HIDE DEF q, c
<1>11. \A o, v, i : At(dP, lot, o, v, i)' <=>
         At(dP, lot, o, v, i) /\ (o = mc /\ v = wc => i <= p)
  BY <1>7, <1>8, <1>9, <1>10
<1>12. Queued(lot)' <=> \E i : At(dP, lot, mc, wc, i) /\ ~ (i <= p)
  <2>1. ASSUME Queued(lot)' PROVE \E i : At(dP, lot, mc, wc, i) /\ ~ (i <= p)
    <3>1. PICK i \in DOMAIN Drop(q, c) : Drop(q, c)[i] = lot
      BY <1>4, <2>1 DEF Queued, Holds
    <3> QED
      BY <1>7, <1>8, <3>1
  <2>2. ASSUME NEW i, At(dP, lot, mc, wc, i), ~ (i <= p) PROVE Queued(lot)'
    <3>1. Holds(Drop(q, c), lot)
      BY <1>7, <1>8, <2>2
    <3> QED
      BY <1>4, <3>1 DEF Queued, Holds
  <2> QED
    BY <2>1, <2>2
<1>13. \A v : v \in PlannedWeeks(m)' <=> v \in PlannedWeeks(m)
  BY <1>1, <1>2, <1>5, PlannedKept, PlannedStep
<1>14. Checked(m, w) => Checked(m, w)'
  BY <1>1, <1>2, <1>5, CheckedKept
<1>15. Dropped(lot)' <=> Dropped(lot)
  BY <1>4 DEF Dropped
<1>16. ASSUME Nowhere(dP, lot) PROVE Nowhere(dP, lot)' /\ ~ Queued(lot)'
  BY <1>11, <1>12, <1>16 DEF Nowhere
<1>17. ASSUME NEW v, Built(lot, m, w, v) PROVE Sits(lot, m, w, v)'
  <2>1. PICK k : /\ At(dP, lot, m, v, k)
                 /\ \A o, u, j : At(dP, lot, o, u, j) => o = m /\ u = v /\ j = k
    BY <1>17 DEF Built, Single
  <2>2. CASE m = mc /\ v = wc /\ ~ (k <= p)
    <3>1. Nowhere(dP, lot)'
      BY <1>11, <2>1, <2>2 DEF Nowhere
    <3>2. Queued(lot)'
      BY <1>12, <2>1, <2>2
    <3>3. QueuedOnce(lot)'
      <4> SUFFICES ASSUME NEW i \in DOMAIN Drop(q, c), NEW j \in DOMAIN Drop(q, c),
                          Drop(q, c)[i] = lot, Drop(q, c)[j] = lot
                   PROVE  i = j
        BY <1>4 DEF QueuedOnce
      <4>1. At(dP, lot, mc, wc, p + i) /\ At(dP, lot, mc, wc, p + j)
        BY <1>7, <1>8
      <4>2. p + i = k /\ p + j = k
        BY <2>1, <4>1
      <4>3. p + i = p + j
        BY <4>2
      <4> QED
        BY <1>7, <4>3
    <3>4. v = w
      <4>1. ~ Checked(m, w) \/ ~ (v < w)
        BY <1>1, <1>3, <1>4, <2>2, NWeeksAssumption
           DEF Checked, CheckedWeeks, Finished, Weeks
      <4> QED
        BY <1>17, <4>1 DEF Built
    <3>5. Waits(lot, m, w)'
      BY <1>4, <1>13, <1>15, <1>17, <2>2, <3>1, <3>2, <3>3, <3>4 DEF Waits, Built
    <3> QED
      BY <3>4, <3>5 DEF Sits
  <2>3. CASE ~ (m = mc /\ v = wc /\ ~ (k <= p))
    <3>1. At(dP, lot, m, v, k)'
      BY <1>11, <2>1, <2>3
    <3>2. \A o, u, j : At(dP, lot, o, u, j)' => o = m /\ u = v /\ j = k
      BY <1>11, <2>1
    <3>3. Single(dP, lot, m, v)'
      BY <3>1, <3>2 DEF Single
    <3>4. ~ Queued(lot)'
      BY <1>12, <2>1, <2>3
    <3>5. Built(lot, m, w, v)'
      BY <1>13, <1>14, <1>15, <1>17, <3>3, <3>4 DEF Built
    <3> QED
      BY <3>5 DEF Sits
  <2> QED
    BY <2>2, <2>3
<1>18. Gone(lot, m, w) => Gone(lot, m, w)'
  BY <1>13, <1>15, <1>16 DEF Gone
<1>19. Unplanned(lot, m, w) => Unplanned(lot, m, w)'
  BY <1>13, <1>15, <1>16 DEF Unplanned
<1>20. ~ Waits(lot, m, w)
  BY <1>5 DEF Waits
<1> QED
  BY <1>17, <1>18, <1>19, <1>20 DEF Sits

(* What is left of the overflow when its first lot is taken.               *)
LEMMA QueueRest ==
  ASSUME NEW q \in Seq(LotIds), q # << >>
  PROVE  /\ Head(q) \in LotIds /\ 1 \in DOMAIN q /\ q[1] = Head(q)
         /\ \A k \in DOMAIN Tail(q) : k + 1 \in DOMAIN q /\ Tail(q)[k] = q[k + 1] /\ k + 1 # 1
         /\ \A i, j \in DOMAIN Tail(q) : i + 1 = j + 1 => i = j
<1>1. /\ Tail(q) \in Seq(LotIds) /\ Len(q) \in Nat \ {0}
      /\ DOMAIN q = 1 .. Len(q) /\ DOMAIN Tail(q) = 1 .. Len(q) - 1
      /\ \A k \in 1 .. Len(q) - 1 : Tail(q)[k] = q[k + 1]
      /\ Head(q) = q[1] /\ Head(q) \in LotIds
  BY HeadTailProperties
<1> QED
  BY <1>1

(* A step that takes another lot from the overflow leaves a lot where it   *)
(* is.                                                                     *)
LEMMA OthersStay ==
  ASSUME TypeOK, PlanningInv, [Next]_vars, ~ Call, ~ PlanWeek,
         overflow # << >>, overflow' = Tail(overflow), UNCHANGED << cur, week >>,
         NEW lot, lot # Head(overflow), NEW m \in Moms, NEW w \in Weeks,
         \A o, v, i : At(dP, lot, o, v, i)' <=> At(dP, lot, o, v, i),
         Dropped(lot)' <=> Dropped(lot)
  PROVE  /\ Gone(lot, m, w) => Gone(lot, m, w)'
         /\ \A v : Sits(lot, m, w, v) => Sits(lot, m, w, v)'
<1>1. w \in PlannedWeeks(m)' <=> w \in PlannedWeeks(m)
  BY PlannedKept, PlannedStep
<1>2. Checked(m, w) => Checked(m, w)'
  BY CheckedKept
<1>3. overflow \in Seq(LotIds)
  BY DEF TypeOK
<1>4. Queued(lot)' <=> Queued(lot)
  BY <1>3, TailHolds DEF Queued
<1>5. QueuedOnce(lot) => QueuedOnce(lot)'
  <2> SUFFICES ASSUME QueuedOnce(lot), NEW i \in DOMAIN Tail(overflow), NEW j \in DOMAIN Tail(overflow),
                      Tail(overflow)[i] = lot, Tail(overflow)[j] = lot
               PROVE  i = j
    BY DEF QueuedOnce
  <2>1. /\ i + 1 \in DOMAIN overflow /\ overflow[i + 1] = lot
        /\ j + 1 \in DOMAIN overflow /\ overflow[j + 1] = lot
        /\ (i + 1 = j + 1 => i = j)
    BY <1>3, QueueRest
  <2> QED
    BY <2>1 DEF QueuedOnce
<1>6. \A v : Single(dP, lot, m, v) => Single(dP, lot, m, v)'
  BY DEF Single
<1>7. Nowhere(dP, lot) => Nowhere(dP, lot)'
  BY DEF Nowhere
<1> QED
  BY <1>1, <1>2, <1>4, <1>5, <1>6, <1>7 DEF Gone, Sits, Built, Unplanned, Waits

(* The first lot of the overflow waits where it is due, and only there.    *)
LEMMA HeadWaits ==
  ASSUME FirstCallInv, calls <= 1, overflow # << >>, NEW h, h = Head(overflow),
         NEW m, NEW w, Single(dS, h, m, w)
  PROVE  h \in LotIds /\ m \in Moms /\ w \in Weeks /\ Waits(h, m, w)
<1>1. overflow \in Seq(LotIds) /\ m \in Moms /\ w \in Weeks
  BY DEF FirstCallInv, TypeOK, Single, At
<1>2. h \in LotIds /\ Queued(h)
  BY <1>1, QueueRest DEF Queued, Holds
<1> QED
  BY <1>1, <1>2 DEF FirstCallInv, PlaceInv, Gone, Sits, Built, Unplanned

(* Taken from the overflow, it is there no more.                           *)
LEMMA HeadLeaves ==
  ASSUME overflow \in Seq(LotIds), overflow # << >>, overflow' = Tail(overflow),
         NEW h, h = Head(overflow), QueuedOnce(h)
  PROVE  ~ Queued(h)'
<1>1. \A k \in DOMAIN Tail(overflow) : Tail(overflow)[k] # h
  <2> SUFFICES ASSUME NEW k \in DOMAIN Tail(overflow), Tail(overflow)[k] = h PROVE FALSE
    OBVIOUS
  <2>1. /\ k + 1 \in DOMAIN overflow /\ overflow[k + 1] = h /\ k + 1 # 1
        /\ 1 \in DOMAIN overflow /\ overflow[1] = h
    BY QueueRest
  <2> QED
    BY <2>1 DEF QueuedOnce
<1> QED
  BY <1>1 DEF Queued, Holds

(* What the shift of a lot does to the buckets.                            *)
ShiftsTo(to, n) ==
  /\ to \in Open(week) /\ n \in Nat
  /\ \A u \in Open(week) : u <= to
  /\ \A lot, o, v, i : At(dP', lot, o, v, i) <=>
       \/ At(dP, lot, o, v, i)
       \/ lot = Head(overflow) /\ o = cur /\ v = to /\ i = n

LEMMA ShiftBuckets == ASSUME TypeOK, ShiftEarlier PROVE \E to, n : ShiftsTo(to, n)
<1>1. PICK to \in Open(week) :
           /\ \A u \in Open(week) : u <= to
           /\ dP' = [dP EXCEPT ![cur][to] = Append(@, Head(overflow))]
  BY DEF ShiftEarlier
<1>2. PICK mc \in Moms, h \in LotIds : mc = cur /\ h = Head(overflow)
  BY QueueRest DEF ShiftEarlier, TypeOK
<1>3. to \in Weeks
  BY DEF Open, Window
<1> DEFINE q == dP[mc][to]  r == Append(q, h)
<1>4. dP \in Buckets /\ q \in Seq(LotIds) /\ Replaced(dP, dP', mc, to, r)
  BY <1>1, <1>2, <1>3 DEF TypeOK, Buckets, Replaced
<1>5. /\ Len(q) \in Nat /\ DOMAIN q = 1 .. Len(q) /\ DOMAIN r = 1 .. Len(q) + 1
      /\ \A i \in 1 .. Len(q) : r[i] = q[i]
      /\ r[Len(q) + 1] = h
  BY <1>2, <1>4
<1> HIDE DEF r
<1>6. /\ dP'[mc][to] = r
      /\ \A o \in Moms, v \in Weeks : o # mc \/ v # to => dP'[o][v] = dP[o][v]
  BY <1>2, <1>3, <1>4, OneBucket
<1>7. PICK n \in Nat : n = Len(q) + 1
  BY <1>5
<1>8. \A lot, i : i \in DOMAIN r /\ r[i] = lot <=>
        (i \in DOMAIN q /\ q[i] = lot) \/ (lot = h /\ i = n)
  <2> SUFFICES ASSUME NEW lot, NEW i
               PROVE  i \in DOMAIN r /\ r[i] = lot <=>
                        (i \in DOMAIN q /\ q[i] = lot) \/ (lot = h /\ i = n)
    OBVIOUS
  <2> HIDE DEF q
  <2>1. CASE i \in 1 .. Len(q)
    BY <1>5, <1>7, <2>1
  <2>2. CASE i \notin 1 .. Len(q)
    BY <1>5, <1>7, <2>2
  <2> QED
    BY <2>1, <2>2
<1>9. \A lot, i : At(dP, lot, mc, to, i) <=> i \in DOMAIN q /\ q[i] = lot
  BY <1>2, <1>3 DEF At
<1>10. \A lot, i : At(dP', lot, mc, to, i) <=> i \in DOMAIN r /\ r[i] = lot
  BY <1>2, <1>3, <1>6 DEF At
<1>11. \A lot, o, v, i : o # mc \/ v # to => (At(dP', lot, o, v, i) <=> At(dP, lot, o, v, i))
  BY <1>6 DEF At
<1> HIDE DEF q
<1>12. \A lot, o, v, i : At(dP', lot, o, v, i) <=>
                \/ At(dP, lot, o, v, i)
                \/ lot = h /\ o = mc /\ v = to /\ i = n
  BY <1>8, <1>9, <1>10, <1>11
<1>13. to \in Open(week) /\ \A u \in Open(week) : u <= to
  BY <1>1
<1>14. \A lot, o, v, i : At(dP', lot, o, v, i) <=>
                \/ At(dP, lot, o, v, i)
                \/ lot = Head(overflow) /\ o = cur /\ v = to /\ i = n
  BY <1>2, <1>12
<1>15. n \in Nat
  BY <1>7
<1>16. ShiftsTo(to, n)
  BY <1>13, <1>14, <1>15 DEF ShiftsTo
<1> QED
  BY <1>16

Stays(lot, m, w) ==
  /\ Gone(lot, m, w) => Gone(lot, m, w)'
  /\ \A v : Sits(lot, m, w, v) => Sits(lot, m, w, v)'

(* The lot that is shifted was waiting, and is built in the latest earlier *)
(* week with room.                                                         *)
MovesTo(lot, m, w, to) ==
  /\ Waits(lot, m, w) /\ Built(lot, m, w, to)'
  /\ to \in Open(week) /\ \A u \in Open(week) : u <= to

LEMMA ShiftPlaces ==
  ASSUME FirstCallInv, ShiftEarlier, [Next]_vars, calls <= 1,
         NEW lot \in LotIds, NEW m, NEW w, Single(dS, lot, m, w)
  PROVE  IF lot = Head(overflow) THEN \E to : MovesTo(lot, m, w, to) ELSE Stays(lot, m, w)
<1>1. /\ TypeOK /\ PlanningInv /\ m \in Moms /\ w \in Weeks /\ week \in Weeks
      /\ overflow \in Seq(LotIds)
  BY DEF FirstCallInv, TypeOK, Single, At
<1>2. /\ phase = "place" /\ overflow # << >> /\ overflow' = Tail(overflow)
      /\ UNCHANGED << cur, week, backlog >> /\ ~ Call /\ ~ PlanWeek
  BY DEF ShiftEarlier, Call, PlanWeek
<1>3. PICK to, n : ShiftsTo(to, n)
  BY <1>1, ShiftBuckets
<1>4. to \in Open(week) /\ (\A u \in Open(week) : u <= to) /\ to < week
  BY <1>3 DEF ShiftsTo, Open, Window
<1>5. Dropped(lot)' <=> Dropped(lot)
  BY <1>2 DEF Dropped
<1>6. CASE lot # Head(overflow)
  <2>1. \A o, v, i : At(dP, lot, o, v, i)' <=> At(dP, lot, o, v, i)
    BY <1>3, <1>6 DEF ShiftsTo
  <2> QED
    BY <1>1, <1>2, <1>5, <1>6, <2>1, OthersStay DEF Stays
<1>7. CASE lot = Head(overflow)
  <2>1. Waits(lot, m, w)
    BY <1>2, <1>7, HeadWaits
  <2>2. ~ Queued(lot)'
    BY <1>1, <1>2, <1>7, <2>1, HeadLeaves DEF Waits
  <2>3. \A o, v, i : At(dP, lot, o, v, i)' <=> o = m /\ v = to /\ i = n
    BY <1>3, <1>7, <2>1 DEF ShiftsTo, Waits, Nowhere
  <2>4. Single(dP, lot, m, to)'
    BY <2>3 DEF Single
  <2>5. w \in PlannedWeeks(m)'
    BY <1>1, <1>2, <2>1, PlannedKept DEF Waits
  <2>6. Checked(m, w)'
    <3>1. w \in 0 .. week
      BY <1>1, <2>1 DEF Waits, Weeks
    <3>2. Checked(m, w)
      BY <1>2, <2>1, <3>1 DEF Waits, Checked, CheckedWeeks
    <3> QED
      BY <1>1, <1>2, <3>2, CheckedKept
  <2>7. Built(lot, m, w, to)'
    BY <1>4, <1>5, <2>1, <2>2, <2>4, <2>5, <2>6 DEF Built, Waits
  <2>8. MovesTo(lot, m, w, to)
    BY <1>4, <2>1, <2>7 DEF MovesTo
  <2> QED
    BY <1>7, <2>8
<1> QED
  BY <1>6, <1>7

(* The lot that is recorded as backlog was waiting, and is gone.           *)
LEMMA RecordPlaces ==
  ASSUME FirstCallInv, RecordBacklog, [Next]_vars, calls <= 1,
         NEW lot \in LotIds, NEW m, NEW w, Single(dS, lot, m, w)
  PROVE  IF lot = Head(overflow) THEN Waits(lot, m, w) /\ Gone(lot, m, w)'
         ELSE Stays(lot, m, w)
<1>1. TypeOK /\ PlanningInv /\ m \in Moms /\ w \in Weeks /\ overflow \in Seq(LotIds)
  BY DEF FirstCallInv, TypeOK, Single, At
<1>2. /\ phase = "place" /\ overflow # << >> /\ overflow' = Tail(overflow)
      /\ UNCHANGED << cur, week, dP >> /\ ~ Call /\ ~ PlanWeek
      /\ backlog' = backlog \cup {Backlogged(Head(overflow))}
  BY DEF RecordBacklog, Call, PlanWeek, tree
<1>3. Dropped(lot)' <=> Dropped(lot) \/ lot = Head(overflow)
  <2> DEFINE r == Backlogged(Head(overflow))
  <2>1. r.lot = Head(overflow)
    BY DEF Backlogged
  <2> HIDE DEF r
  <2>2. \A b : b \in backlog' <=> b \in backlog \/ b = r
    BY <1>2 DEF r
  <2> QED
    BY <2>1, <2>2 DEF Dropped
<1>4. \A o, v, i : At(dP, lot, o, v, i)' <=> At(dP, lot, o, v, i)
  BY <1>2 DEF At
<1>5. CASE lot # Head(overflow)
  BY <1>1, <1>2, <1>3, <1>4, <1>5, OthersStay DEF Stays
<1>6. CASE lot = Head(overflow)
  <2>1. Waits(lot, m, w)
    BY <1>2, <1>6, HeadWaits
  <2>2. ~ Queued(lot)'
    BY <1>1, <1>2, <1>6, <2>1, HeadLeaves DEF Waits
  <2>3. Nowhere(dP, lot)'
    BY <1>4, <2>1 DEF Waits, Nowhere
  <2>4. w \in PlannedWeeks(m)'
    BY <1>1, <1>2, <2>1, PlannedKept DEF Waits
  <2> QED
    BY <1>3, <1>6, <2>1, <2>2, <2>3, <2>4 DEF Gone
<1> QED
  BY <1>5, <1>6

(* The first call finds every lot still to be planned.                     *)
LEMMA CallPlaces ==
  ASSUME FirstCallInv, Call, calls' <= 1,
         NEW lot \in LotIds, NEW m, NEW w, Single(dS, lot, m, w)
  PROVE  Stays(lot, m, w)
<1>1. TypeOK /\ calls = 0 /\ phase = "idle" /\ todo = Moms /\ backlog = {} /\ overflow = << >>
  BY DEF FirstCallInv, TypeOK, Call, FirstInv, OverflowInv
<1>2. phase' = "mom" /\ todo' = Moms /\ backlog' = {} /\ UNCHANGED << dP, overflow, setting >>
  BY DEF Call
<1>3. PlannedWeeks(m) = {} /\ PlannedWeeks(m)' = {}
  BY <1>1, <1>2 DEF PlannedWeeks, Finished, Single, At
<1>4. Nowhere(dP, lot) => Nowhere(dP, lot)'
  BY <1>2 DEF Nowhere, At
<1>5. ~ Queued(lot)' /\ ~ Dropped(lot)'
  BY <1>1, <1>2 DEF Queued, Holds, Dropped
<1> QED
  BY <1>3, <1>4, <1>5 DEF Stays, Gone, Sits, Built, Unplanned, Waits

(* Every other step leaves every lot where it is.                          *)
LEMMA OtherPlaces ==
  ASSUME FirstCallInv, [Next]_vars, calls' <= 1, ~ ShiftEarlier, ~ RecordBacklog,
         NEW lot \in LotIds, NEW m, NEW w, Single(dS, lot, m, w)
  PROVE  Stays(lot, m, w)
<1>1. TypeOK /\ PlanningInv /\ OverflowInv /\ m \in Moms /\ w \in Weeks
  BY DEF FirstCallInv, Single, At
<1>2. CASE Call
  BY <1>2, CallPlaces
<1>3. CASE PlanWeek
  BY <1>3, PlanPlaces DEF Stays
<1>4. CASE CheckWeek
  BY <1>4, CheckPlaces DEF Stays
<1>5. CASE ~ Call /\ ~ PlanWeek /\ ~ CheckWeek
  <2>1. /\ UNCHANGED << dP, overflow, backlog >>
        /\ overflow # << >> => UNCHANGED << cur, week >>
    <3>1. CASE SkipWeek
      BY <1>1, <3>1 DEF SkipWeek, tree, OverflowInv
    <3>2. CASE CheckRaises \/ Return
      BY <3>2 DEF CheckRaises, Return, tree, result
    <3>3. CASE NextCheckWeek \/ EndMom
      BY <3>3 DEF NextCheckWeek, EndMom, tree, result
    <3>4. ASSUME NEW n \in Moms, SkipMom(n) \/ BeginMom(n)
          PROVE  /\ UNCHANGED << dP, overflow, backlog >>
                 /\ overflow # << >> => UNCHANGED << cur, week >>
      BY <1>1, <3>4 DEF SkipMom, BeginMom, tree, result, OverflowInv
    <3>5. CASE UNCHANGED vars
      BY <3>5 DEF vars
    <3> QED
      BY <1>5, <3>1, <3>2, <3>3, <3>4, <3>5 DEF Next
  <2> QED
    BY <1>1, <1>5, <2>1, QuietStep DEF Stays
<1> QED
  BY <1>2, <1>3, <1>4, <1>5

(* The calls made so far only grow, and nothing changes before the first.  *)
LEMMA NextFirst == ASSUME FirstCallInv, [Next]_vars PROVE FirstInv' /\ calls <= calls'
<1>1. calls \in Nat
  BY DEF FirstCallInv, TypeOK
<1>2. CASE Call
  BY <1>1, <1>2 DEF Call, FirstInv
<1>3. CASE ~ Call /\ ~ UNCHANGED vars
  <2>1. calls' = calls /\ ~ (phase = "idle")
    BY <1>3 DEF Next, tree, result, SkipMom, BeginMom, SkipWeek, PlanWeek, CheckRaises,
       CheckWeek, ShiftEarlier, RecordBacklog, NextCheckWeek, EndMom, Return
  <2> QED
    BY <1>1, <2>1 DEF FirstCallInv, FirstInv
<1>4. CASE UNCHANGED vars
  BY <1>1, <1>4 DEF vars, FirstCallInv, FirstInv
<1> QED
  BY <1>2, <1>3, <1>4

LEMMA NextPlace == ASSUME FirstCallInv, [Next]_vars PROVE PlaceInv'
<1> SUFFICES ASSUME calls' <= 1, NEW lot \in LotIds, NEW m, NEW w, Single(dS, lot, m, w)'
             PROVE  Gone(lot, m, w)' \/ \E v : Sits(lot, m, w, v)'
  BY DEF PlaceInv
<1>1. Single(dS, lot, m, w)
  BY RecordsStep DEF Single, At
<1>2. calls <= 1
  <2>1. TypeOK /\ TypeOK' /\ calls <= calls'
    BY NextFirst, NextType DEF FirstCallInv
  <2>2. calls \in Int /\ calls' \in Int
    BY <2>1, MaxCallsAssumption DEF TypeOK
  <2> QED
    BY <2>1, <2>2
<1>3. Gone(lot, m, w) \/ \E v : Sits(lot, m, w, v)
  BY <1>1, <1>2 DEF FirstCallInv, PlaceInv
<1>4. CASE Stays(lot, m, w)
  BY <1>3, <1>4 DEF Stays
<1>5. CASE \E to : MovesTo(lot, m, w, to)
  BY <1>5 DEF MovesTo, Sits
<1> QED
  BY <1>1, <1>2, <1>4, <1>5, ShiftPlaces, RecordPlaces, OtherPlaces

LEMMA NextFirstCall == FirstCallInv /\ [Next]_vars => FirstCallInv'
<1> SUFFICES ASSUME FirstCallInv, [Next]_vars PROVE FirstCallInv'
  OBVIOUS
<1>1. TypeOK' /\ PlanningInv' /\ OverflowInv' /\ CapacityRespected'
  BY NextType, NextCap, NextOverflow, NextCapacity DEF FirstCallInv
<1>2. TreeInv'
  <2>1. setting' = setting /\ dS' = dS
    BY SettingStep, RecordsStep
  <2> QED
    BY <2>1 DEF FirstCallInv, TreeInv, Single, At
<1> QED
  BY <1>1, <1>2, NextFirst, NextPlace DEF FirstCallInv

----------------------------------------------------------------------------
(* The ledger: the places of the lots.                                     *)

PlacesRight ==
  \A lot \in LotIds : \A m, w : Single(dS, lot, m, w) =>
    /\ LedgerDue[lot] = << m, w >>
    /\ Gone(lot, m, w) => LedgerPlace[lot] = NoSlot
    /\ \A v : Sits(lot, m, w, v) => v \in Weeks /\ LedgerPlace[lot] = << m, v >>

LEMMA PlacesAreRight == PlacesRight
<1> SUFFICES ASSUME NEW lot \in LotIds, NEW m, NEW w, Single(dS, lot, m, w)
             PROVE  /\ LedgerDue[lot] = << m, w >>
                    /\ Gone(lot, m, w) => LedgerPlace[lot] = NoSlot
                    /\ \A v : Sits(lot, m, w, v) => v \in Weeks /\ LedgerPlace[lot] = << m, v >>
  BY DEF PlacesRight
<1>1. PICK k : /\ At(dS, lot, m, w, k)
               /\ \A o, v, j : At(dS, lot, o, v, j) => o = m /\ v = w /\ j = k
  BY DEF Single
<1>2. m \in Moms /\ w \in Weeks /\ Holds(dS[m][w], lot)
  BY <1>1 DEF At, Holds
<1>3. LedgerDue[lot] = << m, w >>
  <2>1. LedgerDue[lot] = CHOOSE s \in Moms \X Weeks : Holds(dS[s[1]][s[2]], lot)
    BY DEF LedgerDue
  <2>2. \A s \in Moms \X Weeks : Holds(dS[s[1]][s[2]], lot) => s = << m, w >>
    <3> SUFFICES ASSUME NEW s \in Moms \X Weeks, Holds(dS[s[1]][s[2]], lot) PROVE s = << m, w >>
      OBVIOUS
    <3>1. PICK j \in DOMAIN dS[s[1]][s[2]] : dS[s[1]][s[2]][j] = lot
      BY DEF Holds
    <3>2. At(dS, lot, s[1], s[2], j)
      BY <3>1 DEF At
    <3>3. s[1] = m /\ s[2] = w
      BY <1>1, <3>2
    <3> QED
      BY <3>3
  <2>3. << m, w >> \in Moms \X Weeks /\ Holds(dS[<< m, w >>[1]][<< m, w >>[2]], lot)
    BY <1>2
  <2> QED
    BY <2>1, <2>2, <2>3
<1> DEFINE built == { v \in Weeks : Holds(dP[m][v], lot) }
<1>4. LedgerPlace[lot] = IF Dropped(lot) THEN NoSlot
                         ELSE IF built = {} THEN << m, w >>
                         ELSE << m, CHOOSE v \in built : TRUE >>
  <2> DEFINE o == LedgerDue[lot][1]
             there == { v \in Weeks : Holds(dP[o][v], lot) }
  <2>1. LedgerPlace[lot] = IF Dropped(lot) THEN NoSlot
                           ELSE IF there = {} THEN LedgerDue[lot]
                           ELSE << o, CHOOSE v \in there : TRUE >>
    BY DEF LedgerPlace, Dropped
  <2>2. o = m
    BY <1>3
  <2>3. there = built
    BY <2>2
  <2> HIDE DEF o, there, built
  <2> QED
    BY <1>3, <2>1, <2>2, <2>3
<1>5. Gone(lot, m, w) => LedgerPlace[lot] = NoSlot
  BY <1>4 DEF Gone
<1>6. ASSUME NEW v, Sits(lot, m, w, v) PROVE v \in Weeks /\ LedgerPlace[lot] = << m, v >>
  <2>1. ~ Dropped(lot)
    BY <1>6 DEF Sits, Built, Unplanned, Waits
  <2>2. CASE Nowhere(dP, lot) /\ v = w
    <3>1. built = {}
      BY <1>2, <2>2 DEF Nowhere, At, Holds
    <3> QED
      BY <1>2, <1>4, <2>1, <2>2, <3>1
  <2>3. CASE Single(dP, lot, m, v)
    <3>1. PICK i : /\ At(dP, lot, m, v, i)
                   /\ \A o, u, j : At(dP, lot, o, u, j) => o = m /\ u = v /\ j = i
      BY <2>3 DEF Single
    <3>2. built = {v} /\ v \in Weeks
      BY <1>2, <3>1 DEF At, Holds
    <3>3. (CHOOSE u \in built : TRUE) = v
      <4> HIDE DEF built
      <4> QED
        BY <3>2
    <3> QED
      BY <1>4, <2>1, <3>2, <3>3
  <2> QED
    BY <1>6, <2>2, <2>3 DEF Sits, Built, Unplanned, Waits
<1> QED
  BY <1>3, <1>5, <1>6

LEMMA PlacesAreRightNext == PlacesRight'
  BY PlacesAreRight, PTL

LedgerCapacity == [s \in Moms \X Weeks |-> ResolvedCapacity(s[1])[s[2]]]

LotsAt(slot) == { l \in LotIds : LedgerPlace[l] = slot }

LEMMA LoadIs ==
  ASSUME NEW slot PROVE Ledger!Load(slot) = Cardinality(LotsAt(slot))
  BY DEF Ledger!Load, LotsAt, Ledger!Cardinality, Cardinality

LotsOf(q) == { l \in LotIds : Holds(q, l) }

(* A list without repetitions has as many lots as it is long.              *)
LEMMA LotsOfList ==
  ASSUME NEW q \in Seq(LotIds), \A i, j \in DOMAIN q : q[i] = q[j] => i = j
  PROVE  IsFiniteSet(LotsOf(q)) /\ Cardinality(LotsOf(q)) = Len(q)
<1> DEFINE D == 1 .. Len(q)
           L == LotsOf(q)
           f == [k \in D |-> q[k]]
<1>1. DOMAIN q = D /\ Len(q) \in Nat /\ \A k \in D : q[k] \in LotIds
  OBVIOUS
<1>2. f \in Bijection(D, L)
  <2>1. \A k \in D : q[k] \in L
    BY <1>1 DEF Holds, LotsOf
  <2>2. \A l \in L : \E k \in D : q[k] = l
    BY <1>1 DEF Holds, LotsOf
  <2> HIDE DEF L, D
  <2>3. f \in [D -> L] /\ \A k \in D : f[k] = q[k]
    BY <2>1
  <2>4. \A i, j \in D : f[i] = f[j] => i = j
    BY <1>1, <2>3
  <2> QED
    BY <2>2, <2>3, <2>4 DEF Bijection, Injection, Surjection, IsInjective
<1>3. IsFiniteSet(D) /\ Cardinality(D) = Len(q)
  <2>1. 1 \in Int /\ Len(q) \in Int
    BY <1>1
  <2>2. IsFiniteSet(D) /\ Cardinality(D) = IF 1 > Len(q) THEN 0 ELSE Len(q) - 1 + 1
    BY <2>1, FS_Interval
  <2>3. (IF 1 > Len(q) THEN 0 ELSE Len(q) - 1 + 1) = Len(q)
    BY <1>1
  <2> QED
    BY <2>2, <2>3
<1> HIDE DEF D, L, f
<1>4. ExistsBijection(D, L)
  BY <1>2 DEF ExistsBijection
<1>5. IsFiniteSet(L) /\ Cardinality(L) = Len(q)
  BY <1>3, <1>4, FS_Bijection
<1> QED
  BY <1>5 DEF L

LotPlace(lot, m, w) ==
  /\ m \in Moms /\ w \in Weeks
  /\ Single(dS, lot, m, w)
  /\ Gone(lot, m, w) \/ \E v : Sits(lot, m, w, v)

LEMMA EachLotHasAPlace ==
  ASSUME FirstCallInv, calls <= 1, NEW lot \in LotIds
  PROVE  \E m, w : LotPlace(lot, m, w)
<1>1. PICK m, w : Single(dS, lot, m, w)
  BY DEF FirstCallInv, TreeInv
<1>2. LotPlace(lot, m, w)
  BY <1>1 DEF FirstCallInv, PlaceInv, LotPlace, Single, At
<1> QED
  BY <1>2

(* Which lots the ledger has in a slot whose week is planned.              *)
LEMMA LotsOfSlot ==
  ASSUME FirstCallInv, calls <= 1, NEW m \in Moms, NEW v \in PlannedWeeks(m), NEW l \in LotIds
  PROVE  LedgerPlace[l] = << m, v >> <=> Holds(dP[m][v], l) \/ (m = cur /\ v = week /\ Queued(l))
<1>1. PICK o, w : LotPlace(l, o, w)
  BY EachLotHasAPlace
<1>2. /\ Gone(l, o, w) => LedgerPlace[l] = NoSlot
      /\ \A u : Sits(l, o, w, u) => u \in Weeks /\ LedgerPlace[l] = << o, u >>
  BY <1>1, PlacesAreRight DEF PlacesRight, LotPlace
<1>3. v \in Weeks
  BY DEF PlannedWeeks
<1>4. Nowhere(dP, l) => ~ Holds(dP[m][v], l)
  BY <1>3 DEF Nowhere, At, Holds
<1>5. CASE Gone(l, o, w)
  <2>1. LedgerPlace[l] # << m, v >>
    <3>1. LedgerPlace[l] = << >>
      BY <1>2, <1>5 DEF NoSlot
    <3>2. << m, v >> # << >>
      OBVIOUS
    <3> QED
      BY <3>1, <3>2
  <2> QED
    BY <1>4, <1>5, <2>1 DEF Gone
<1>6. ASSUME NEW u, Built(l, o, w, u)
      PROVE  LedgerPlace[l] = << m, v >> <=> Holds(dP[m][v], l) \/ (m = cur /\ v = week /\ Queued(l))
  <2>1. PICK i : /\ At(dP, l, o, u, i)
                 /\ \A p, x, j : At(dP, l, p, x, j) => p = o /\ x = u /\ j = i
    BY <1>6 DEF Built, Single
  <2>2. Holds(dP[m][v], l) <=> o = m /\ u = v
    BY <1>3, <2>1 DEF At, Holds
  <2>3. LedgerPlace[l] = << o, u >>
    BY <1>2, <1>6 DEF Sits
  <2> QED
    BY <1>6, <2>2, <2>3 DEF Built
<1>7. CASE Unplanned(l, o, w)
  <2>1. LedgerPlace[l] = << o, w >>
    BY <1>2, <1>7 DEF Sits
  <2>2. o # m \/ w # v
    BY <1>7 DEF Unplanned
  <2> QED
    BY <1>4, <1>7, <2>1, <2>2 DEF Unplanned
<1>8. CASE Waits(l, o, w)
  <2>1. LedgerPlace[l] = << o, w >>
    BY <1>2, <1>8 DEF Sits
  <2> QED
    BY <1>4, <1>8, <2>1 DEF Waits
<1> QED
  BY <1>1, <1>5, <1>6, <1>7, <1>8 DEF LotPlace, Sits

(* How full the ledger's slots are.                                        *)
LEMMA LoadOfSlot ==
  ASSUME FirstCallInv, calls <= 1, NEW m \in Moms, NEW v \in PlannedWeeks(m)
  PROVE  Ledger!Load(<< m, v >>) =
           Len(dP[m][v]) + IF m = cur /\ v = week THEN Len(overflow) ELSE 0
<1> DEFINE L == LotsAt(<< m, v >>)
           A == LotsOf(dP[m][v])
           Q == LotsOf(overflow)
<1>1. /\ v \in Weeks /\ dP[m][v] \in Seq(LotIds) /\ overflow \in Seq(LotIds)
  BY DEF FirstCallInv, TypeOK, Buckets, PlannedWeeks
<1>2. Ledger!Load(<< m, v >>) = Cardinality(L)
  BY LoadIs
<1>3. \A l \in LotIds : l \in L <=> l \in A \/ (m = cur /\ v = week /\ l \in Q)
  BY LotsOfSlot DEF LotsAt, LotsOf, Queued
<1>4. \A i, j \in DOMAIN dP[m][v] : dP[m][v][i] = dP[m][v][j] => i = j
  <2> SUFFICES ASSUME NEW i \in DOMAIN dP[m][v], NEW j \in DOMAIN dP[m][v],
                      dP[m][v][i] = dP[m][v][j]
               PROVE  i = j
    OBVIOUS
  <2>1. PICK l \in LotIds : l = dP[m][v][i]
    BY <1>1
  <2>2. At(dP, l, m, v, i) /\ At(dP, l, m, v, j)
    BY <1>1, <2>1 DEF At
  <2>3. PICK o, w : LotPlace(l, o, w)
    BY <2>1, EachLotHasAPlace
  <2>4. \E u : Single(dP, l, o, u)
    BY <2>2, <2>3 DEF LotPlace, Gone, Sits, Built, Unplanned, Waits, Nowhere
  <2> QED
    BY <2>2, <2>4 DEF Single
<1>5. IsFiniteSet(A) /\ Cardinality(A) = Len(dP[m][v]) /\ Len(dP[m][v]) \in Nat
  BY <1>1, <1>4, LotsOfList
<1>6. CASE ~ (m = cur /\ v = week)
  <2>1. L = A
    BY <1>3, <1>6 DEF LotsAt, LotsOf
  <2> HIDE DEF L, A
  <2>2. Ledger!Load(<< m, v >>) = Len(dP[m][v])
    BY <1>2, <1>5, <2>1
  <2>3. Len(dP[m][v]) + 0 = Len(dP[m][v])
    BY <1>5
  <2> QED
    BY <1>6, <2>2, <2>3
<1>7. CASE m = cur /\ v = week
  <2>1. L = A \cup Q
    BY <1>3, <1>7 DEF LotsAt, LotsOf
  <2>2. \A l \in Q : \E o, w : Waits(l, o, w)
    <3> SUFFICES ASSUME NEW l \in LotIds, Queued(l) PROVE \E o, w : Waits(l, o, w)
      BY DEF LotsOf, Queued
    <3>1. PICK o, w : LotPlace(l, o, w)
      BY EachLotHasAPlace
    <3>2. Waits(l, o, w)
      BY <3>1 DEF LotPlace, Gone, Sits, Built, Unplanned
    <3> QED
      BY <3>2
  <2>3. A \cap Q = {}
    <3> SUFFICES ASSUME NEW l \in A, l \in Q PROVE FALSE
      OBVIOUS
    <3>1. PICK i \in DOMAIN dP[m][v] : dP[m][v][i] = l
      BY DEF LotsOf, Holds
    <3>2. At(dP, l, m, v, i)
      BY <1>1, <3>1 DEF At
    <3> QED
      BY <2>2, <3>2 DEF Waits, Nowhere
  <2>4. \A i, j \in DOMAIN overflow : overflow[i] = overflow[j] => i = j
    <3> SUFFICES ASSUME NEW i \in DOMAIN overflow, NEW j \in DOMAIN overflow,
                        overflow[i] = overflow[j]
                 PROVE  i = j
      OBVIOUS
    <3>1. overflow[i] \in Q
      BY <1>1 DEF Holds, LotsOf
    <3> QED
      BY <2>2, <3>1 DEF Waits, QueuedOnce
  <2>5. IsFiniteSet(Q) /\ Cardinality(Q) = Len(overflow) /\ Len(overflow) \in Nat
    BY <1>1, <2>4, LotsOfList
  <2> HIDE DEF L, A, Q
  <2>6. Cardinality(A \cup Q) = Cardinality(A) + Cardinality(Q) - Cardinality(A \cap Q)
    BY <1>5, <2>5, FS_Union
  <2>7. Cardinality(A \cap Q) = 0
    BY <2>3, FS_EmptySet
  <2> QED
    BY <1>2, <1>5, <1>7, <2>1, <2>5, <2>6, <2>7
<1> QED
  BY <1>6, <1>7

----------------------------------------------------------------------------
(* The ledger: its steps.                                                  *)

LEMMA BooksStay ==
  ASSUME [Next]_vars PROVE UNCHANGED << LedgerDue, EarlierSlots, LedgerCapacity >>
<1>1. setting' = setting /\ dS' = dS /\ \A m : ResolvedCapacity(m)' = ResolvedCapacity(m)
  BY SettingStep, RecordsStep
<1>2. LedgerDue' = LedgerDue
  BY <1>1 DEF LedgerDue
<1>3. EarlierSlots' = EarlierSlots
  BY <1>2 DEF EarlierSlots, Window
<1>4. LedgerCapacity' = LedgerCapacity
  BY <1>1 DEF LedgerCapacity
<1> QED
  BY <1>2, <1>3, <1>4

(* A lot that stays where it is has the same place in the ledger.          *)
LEMMA PlaceStays ==
  ASSUME [Next]_vars, NEW lot \in LotIds, NEW m, NEW w, LotPlace(lot, m, w), Stays(lot, m, w)
  PROVE  LedgerPlace'[lot] = LedgerPlace[lot]
<1>1. Single(dS, lot, m, w) /\ Single(dS, lot, m, w)'
  BY RecordsStep DEF LotPlace, Single, At
<1>2. PlacesRight /\ PlacesRight'
  BY PlacesAreRight, PlacesAreRightNext
<1>3. CASE Gone(lot, m, w)
  BY <1>1, <1>2, <1>3 DEF PlacesRight, Stays
<1>4. ASSUME NEW v, Sits(lot, m, w, v) PROVE LedgerPlace'[lot] = LedgerPlace[lot]
  BY <1>1, <1>2, <1>4 DEF PlacesRight, Stays
<1> QED
  BY <1>3, <1>4 DEF LotPlace

PlacesAreFunctions == LedgerPlace = [l \in LotIds |-> LedgerPlace[l]]

LEMMA PlacesFunctions == PlacesAreFunctions
  BY DEF PlacesAreFunctions, LedgerPlace

LEMMA PlacesFunctionsNext == PlacesAreFunctions'
  BY PlacesFunctions, PTL

(* Every lot but the one placed has the same place as before.              *)
LEMMA OnePlaceChanges ==
  ASSUME [Next]_vars, NEW h \in LotIds, NEW slot, LedgerPlace'[h] = slot,
         \A l \in LotIds : l # h => LedgerPlace'[l] = LedgerPlace[l]
  PROVE  LedgerPlace' = [LedgerPlace EXCEPT ![h] = slot]
  BY PlacesFunctions, PlacesFunctionsNext DEF PlacesAreFunctions

(* The first lot of the overflow is in an overfull slot, its own.          *)
LEMMA HeadOverflows ==
  ASSUME FirstCallInv, calls <= 1, phase = "place", overflow # << >>,
         NEW h, h = Head(overflow), NEW m, NEW w, Single(dS, h, m, w)
  PROVE  /\ h \in LotIds /\ m \in Moms /\ w \in Weeks /\ m = cur /\ w = week
         /\ Waits(h, m, w) /\ LotPlace(h, m, w)
         /\ LedgerDue[h] = << m, w >> /\ LedgerPlace[h] = << m, w >>
         /\ LedgerCapacity[<< m, w >>] = ResolvedCapacity(m)[w]
         /\ Ledger!Load(<< m, w >>) > ResolvedCapacity(m)[w]
<1>1. h \in LotIds /\ m \in Moms /\ w \in Weeks /\ Waits(h, m, w)
  BY HeadWaits
<1>2. m = cur /\ w = week /\ w \in PlannedWeeks(m)
  BY <1>1 DEF Waits
<1>3. LedgerDue[h] = << m, w >> /\ LedgerPlace[h] = << m, w >>
  BY <1>1, PlacesAreRight DEF PlacesRight, Sits
<1>4. LedgerCapacity[<< m, w >>] = ResolvedCapacity(m)[w]
  BY <1>1 DEF LedgerCapacity
<1>5. Ledger!Load(<< m, w >>) = Len(dP[m][w]) + Len(overflow)
  BY <1>1, <1>2, LoadOfSlot
<1>6. Len(dP[m][w]) >= ResolvedCapacity(m)[w]
  BY <1>2 DEF FirstCallInv, OverflowInv, Full
<1>7. /\ overflow \in Seq(LotIds) /\ dP[m][w] \in Seq(LotIds) /\ ResolvedCapacity(m)[w] \in Nat
  BY <1>1, ResolvedType DEF FirstCallInv, TypeOK, Buckets
<1>8. Len(overflow) > 0 /\ Len(overflow) \in Nat /\ Len(dP[m][w]) \in Nat
  BY <1>7, EmptySeq
<1>9. Ledger!Load(<< m, w >>) > ResolvedCapacity(m)[w]
  BY <1>5, <1>6, <1>7, <1>8
<1> QED
  BY <1>1, <1>2, <1>3, <1>4, <1>9 DEF LotPlace, Sits

(* The ledger has room in an earlier week of the window exactly when the   *)
(* search finds it there.                                                  *)
LEMMA RoomOfSlot ==
  ASSUME FirstCallInv, calls <= 1, phase = "place", NEW m \in Moms, m = cur,
         NEW v \in Window(week)
  PROVE  /\ << m, v >> \in Moms \X Weeks
         /\ Ledger!HasRoom(<< m, v >>) <=> Room(v)
<1>1. v \in Weeks /\ v # week /\ v \in PlannedWeeks(m)
  BY DEF Window, PlannedWeeks, FirstCallInv, TreeInv, TypeOK, Weeks
<1>2. Ledger!Load(<< m, v >>) = Len(dP[m][v]) + 0
  BY <1>1, LoadOfSlot
<1>3. Len(dP[m][v]) \in Nat
  BY <1>1 DEF FirstCallInv, TypeOK, Buckets
<1>4. LedgerCapacity[<< m, v >>] = cap[v]
  BY <1>1 DEF LedgerCapacity, FirstCallInv, PlanningInv
<1> QED
  BY <1>1, <1>2, <1>3, <1>4 DEF Ledger!HasRoom, Room, LedgerCapacity

LEMMA ShiftMoves ==
  ASSUME FirstCallInv, FirstCallInv', [Next]_vars, calls <= 1, ShiftEarlier
  PROVE  Ledger!Step
<1>1. /\ phase = "place" /\ phase' = "place" /\ calls' = calls /\ overflow # << >>
      /\ overflow \in Seq(LotIds)
  BY DEF ShiftEarlier, FirstCallInv, TypeOK
<1>2. PICK h \in LotIds : h = Head(overflow)
  BY <1>1, QueueRest
<1>3. PICK m, w : Single(dS, h, m, w)
  BY DEF FirstCallInv, TreeInv
<1>4. /\ m \in Moms /\ w \in Weeks /\ m = cur /\ w = week
      /\ LedgerDue[h] = << m, w >> /\ LedgerPlace[h] = << m, w >>
      /\ LedgerCapacity[<< m, w >>] = ResolvedCapacity(m)[w]
      /\ Ledger!Load(<< m, w >>) > ResolvedCapacity(m)[w]
  BY <1>1, <1>2, <1>3, HeadOverflows
<1>5. PICK to : MovesTo(h, m, w, to)
  BY <1>1, <1>2, <1>3, ShiftPlaces
<1>6. to \in Window(week) /\ Room(to) /\ to \in Weeks
  BY <1>5 DEF MovesTo, Open, Window
<1>7. << m, to >> \in Moms \X Weeks /\ Ledger!HasRoom(<< m, to >>)
  BY <1>1, <1>4, <1>6, RoomOfSlot
<1>8. << m, to >> \in EarlierSlots[h]
  BY <1>4, <1>6 DEF EarlierSlots
<1>9. UNCHANGED << LedgerDue, EarlierSlots, LedgerCapacity >>
  BY BooksStay
<1>10. LedgerPlace' = [LedgerPlace EXCEPT ![h] = << m, to >>]
  <2>1. LedgerPlace'[h] = << m, to >>
    <3>1. Single(dS, h, m, w)'
      BY <1>3, RecordsStep DEF Single, At
    <3> QED
      BY <1>5, <3>1, PlacesAreRightNext DEF PlacesRight, MovesTo, Sits
  <2>2. ASSUME NEW l \in LotIds, l # h PROVE LedgerPlace'[l] = LedgerPlace[l]
    <3>1. PICK o, u : LotPlace(l, o, u)
      BY EachLotHasAPlace
    <3>2. Stays(l, o, u)
      BY <1>2, <2>2, <3>1, ShiftPlaces DEF LotPlace
    <3> QED
      BY <3>1, <3>2, PlaceStays
  <2> QED
    BY <2>1, <2>2, OnePlaceChanges
<1>11. Ledger!Move(h, << m, to >>)
  BY <1>1, <1>4, <1>7, <1>8, <1>9, <1>10 DEF Ledger!Move, Ledger!given, LedgerCapacity
<1> QED
  BY <1>8, <1>11 DEF Ledger!Step

LEMMA RecordPostpones ==
  ASSUME FirstCallInv, FirstCallInv', [Next]_vars, calls <= 1, RecordBacklog
  PROVE  Ledger!Step
<1>1. /\ phase = "place" /\ phase' = "place" /\ calls' = calls /\ overflow # << >>
      /\ overflow \in Seq(LotIds) /\ Open(week) = {}
  BY DEF RecordBacklog, FirstCallInv, TypeOK
<1>2. PICK h \in LotIds : h = Head(overflow)
  BY <1>1, QueueRest
<1>3. PICK m, w : Single(dS, h, m, w)
  BY DEF FirstCallInv, TreeInv
<1>4. /\ m \in Moms /\ w \in Weeks /\ m = cur /\ w = week
      /\ LedgerDue[h] = << m, w >> /\ LedgerPlace[h] = << m, w >>
      /\ LedgerCapacity[<< m, w >>] = ResolvedCapacity(m)[w]
      /\ Ledger!Load(<< m, w >>) > ResolvedCapacity(m)[w]
  BY <1>1, <1>2, <1>3, HeadOverflows
<1>5. \A slot \in EarlierSlots[h] : ~ Ledger!HasRoom(slot)
  <2> SUFFICES ASSUME NEW v \in Window(week) PROVE ~ Ledger!HasRoom(<< m, v >>)
    BY <1>4 DEF EarlierSlots
  <2>1. ~ Room(v)
    BY <1>1 DEF Open
  <2> QED
    BY <1>1, <1>4, <2>1, RoomOfSlot
<1>6. UNCHANGED << LedgerDue, EarlierSlots, LedgerCapacity >>
  BY BooksStay
<1>7. LedgerPlace' = [LedgerPlace EXCEPT ![h] = NoSlot]
  <2>1. LedgerPlace'[h] = NoSlot
    <3>1. Single(dS, h, m, w)'
      BY <1>3, RecordsStep DEF Single, At
    <3>2. Gone(h, m, w)'
      BY <1>2, <1>3, RecordPlaces
    <3> QED
      BY <3>1, <3>2, PlacesAreRightNext DEF PlacesRight
  <2>2. ASSUME NEW l \in LotIds, l # h PROVE LedgerPlace'[l] = LedgerPlace[l]
    <3>1. PICK o, u : LotPlace(l, o, u)
      BY EachLotHasAPlace
    <3>2. Stays(l, o, u)
      BY <1>2, <2>2, <3>1, RecordPlaces DEF LotPlace
    <3> QED
      BY <3>1, <3>2, PlaceStays
  <2> QED
    BY <2>1, <2>2, OnePlaceChanges
<1>8. Ledger!Postpone(h)
  BY <1>1, <1>4, <1>5, <1>6, <1>7 DEF Ledger!Postpone, Ledger!given, LedgerCapacity
<1> QED
  BY <1>8 DEF Ledger!Step

(* Every other step leaves every lot of the ledger in its place.           *)
LEMMA OtherSteps ==
  ASSUME FirstCallInv, [Next]_vars, calls' <= 1, calls <= 1, ~ ShiftEarlier, ~ RecordBacklog
  PROVE  LedgerPlace' = LedgerPlace
<1>1. \A l \in LotIds : LedgerPlace'[l] = LedgerPlace[l]
  <2> SUFFICES ASSUME NEW l \in LotIds PROVE LedgerPlace'[l] = LedgerPlace[l]
    OBVIOUS
  <2>1. PICK o, u : LotPlace(l, o, u)
    BY EachLotHasAPlace
  <2>2. Stays(l, o, u)
    BY <2>1, OtherPlaces DEF LotPlace
  <2> QED
    BY <2>1, <2>2, PlaceStays
<1> QED
  BY <1>1, PlacesFunctions, PlacesFunctionsNext DEF PlacesAreFunctions

LEMMA ReturnCloses ==
  ASSUME FirstCallInv, [Next]_vars, calls <= 1, Return
  PROVE  Ledger!Step
<1>1. /\ phase = "mom" /\ todo = {} /\ phase' = "idle" /\ calls' = calls
      /\ ~ ShiftEarlier /\ ~ RecordBacklog
  BY DEF Return, ShiftEarlier, RecordBacklog
<1>2. calls > 0 /\ TypeOK
  <2>1. calls # 0 /\ TypeOK
    BY <1>1 DEF FirstCallInv, FirstInv
  <2> QED
    BY <2>1, MaxCallsAssumption DEF TypeOK
<1>3. UNCHANGED << LedgerDue, EarlierSlots, LedgerCapacity >> /\ LedgerPlace' = LedgerPlace
  BY <1>1, BooksStay, OtherSteps
<1>4. overflow = << >>
  BY <1>1 DEF FirstCallInv, OverflowInv
<1>5. ASSUME NEW m \in Moms, NEW v \in Weeks
      PROVE  Ledger!Load(<< m, v >>) <= LedgerCapacity[<< m, v >>]
  <2>1. v \in PlannedWeeks(m) /\ Checked(m, v)
    BY <1>1 DEF FirstCallInv, TreeInv, PlannedWeeks, Checked, Finished
  <2>2. Len(dP[m][v]) \in Nat
    BY <1>2 DEF TypeOK, Buckets
  <2>3. Ledger!Load(<< m, v >>) = Len(dP[m][v])
    <3>1. Ledger!Load(<< m, v >>) =
            Len(dP[m][v]) + IF m = cur /\ v = week THEN Len(overflow) ELSE 0
      BY <2>1, LoadOfSlot
    <3>2. Len(overflow) = 0
      BY <1>4
    <3> QED
      BY <2>2, <3>1, <3>2
  <2>4. Len(dP[m][v]) <= ResolvedCapacity(m)[v]
    BY <2>1 DEF FirstCallInv, CapacityRespected
  <2> QED
    BY <2>3, <2>4 DEF LedgerCapacity
<1>6. \A slot \in Moms \X Weeks : Ledger!Load(slot) <= LedgerCapacity[slot]
  <2> SUFFICES ASSUME NEW slot \in Moms \X Weeks
               PROVE  Ledger!Load(slot) <= LedgerCapacity[slot]
    OBVIOUS
  <2>1. PICK m \in Moms, v \in Weeks : slot = << m, v >>
    OBVIOUS
  <2> QED
    BY <1>5, <2>1
<1>7. Ledger!Close
  BY <1>1, <1>2, <1>3, <1>6 DEF Ledger!Close, Ledger!given, LedgerCapacity
<1> QED
  BY <1>7 DEF Ledger!Step

LEMMA LedgerSteps ==
  ASSUME FirstCallInv, FirstCallInv', [Next]_vars
  PROVE  [calls' <= 1 => Ledger!Step]_(Ledger!ledger)
<1> SUFFICES ASSUME calls' <= 1 PROVE Ledger!Step \/ UNCHANGED Ledger!ledger
  OBVIOUS
<1>1. calls <= 1 /\ calls \in Nat
  <2>1. calls \in Int /\ calls' \in Int /\ calls <= calls' /\ calls >= 0
    <3>1. TypeOK /\ TypeOK'
      BY DEF FirstCallInv
    <3>2. calls \in 0 .. MaxCalls /\ calls' \in 0 .. MaxCalls
      BY <3>1 DEF TypeOK
    <3>3. calls <= calls'
      BY NextFirst
    <3> QED
      BY <3>2, <3>3, MaxCallsAssumption
  <2> QED
    BY <2>1
<1>2. CASE ShiftEarlier
  BY <1>1, <1>2, ShiftMoves
<1>3. CASE RecordBacklog
  BY <1>1, <1>3, RecordPostpones
<1>4. CASE Return
  BY <1>1, <1>4, ReturnCloses
<1>5. CASE ~ ShiftEarlier /\ ~ RecordBacklog /\ ~ Return
  <2>1. UNCHANGED << LedgerDue, EarlierSlots, LedgerCapacity >> /\ LedgerPlace' = LedgerPlace
    BY <1>1, <1>5, BooksStay, OtherSteps
  <2>2. (calls' > 0 /\ phase' = "idle") = (calls > 0 /\ phase = "idle")
    <3>1. CASE Call
      BY <1>1, <3>1 DEF Call
    <3>2. CASE ~ Call /\ ~ UNCHANGED vars
      <4>1. phase' # "idle" /\ phase # "idle"
        BY <1>5, <3>2 DEF Next, tree, result, SkipMom, BeginMom, SkipWeek, PlanWeek,
           CheckRaises, CheckWeek, NextCheckWeek, EndMom, NextPlanWeek
      <4> QED
        BY <4>1
    <3>3. CASE UNCHANGED vars
      BY <3>3 DEF vars
    <3> QED
      BY <3>1, <3>2, <3>3
  <2> QED
    BY <2>1, <2>2 DEF Ledger!ledger, LedgerCapacity
<1> QED
  BY <1>2, <1>3, <1>4, <1>5

(* A tree with each lot once in the demand holds no earlier plan.          *)
FreshIsUnplanned ==
  \A i \in Inputs : IsFresh(i.s, i.setting) => \A m \in Moms, w \in Weeks : i.p[m][w] = << >>

(* On a fresh tree the first call opens with every lot where it is due.    *)
LEMMA FreshInit ==
  ASSUME FreshIsUnplanned, Init, Fresh
  PROVE  FirstCallInv /\ Ledger!Open
<1>1. PICK i \in Inputs : dS = i.s /\ dP = i.p /\ setting = i.setting
  BY DEF Init
<1>2. /\ IsFresh(i.s, i.setting)
      /\ \A m \in Moms, w \in Weeks : i.p[m][w] = << >>
  BY <1>1 DEF Fresh, FreshIsUnplanned
<1>3. /\ phase = "idle" /\ calls = 0 /\ todo = Moms /\ overflow = << >> /\ backlog = {}
      /\ TypeOK /\ PlanningInv /\ CapacityRespected
  BY InitType, InitCapacity DEF Init
<1>4. TreeInv
  <2> SUFFICES ASSUME NEW lot \in LotIds PROVE \E m, w : Single(dS, lot, m, w)
    BY <1>1, <1>2 DEF IsFresh, TreeInv
  <2>1. PICK m \in Moms, w \in Weeks : \E k \in DOMAIN i.s[m][w] :
          /\ i.s[m][w][k] = lot
          /\ \A n \in Moms, v \in Weeks : \A j \in DOMAIN i.s[n][v] :
               i.s[n][v][j] = lot => n = m /\ v = w /\ j = k
    BY <1>2 DEF IsFresh
  <2>2. Single(dS, lot, m, w)
    BY <1>1, <2>1 DEF Single, At
  <2> QED
    BY <2>2
<1>5. \A m, w : w \notin PlannedWeeks(m)
  BY <1>3 DEF PlannedWeeks, Finished, TypeOK
<1>6. \A lot \in LotIds : \A m, w : Single(dS, lot, m, w) => Unplanned(lot, m, w)
  BY <1>1, <1>2, <1>3, <1>5
     DEF IsFresh, Unplanned, Nowhere, At, Queued, Holds, Dropped
<1>7. FirstCallInv
  BY <1>3, <1>4, <1>6 DEF FirstCallInv, OverflowInv, FirstInv, PlaceInv, Sits
<1>8. \A lot \in LotIds : LedgerDue[lot] \in Moms \X Weeks /\ LedgerPlace[lot] = LedgerDue[lot]
  <2> SUFFICES ASSUME NEW lot \in LotIds
               PROVE  LedgerDue[lot] \in Moms \X Weeks /\ LedgerPlace[lot] = LedgerDue[lot]
    OBVIOUS
  <2>1. PICK m, w : Single(dS, lot, m, w)
    BY <1>4 DEF TreeInv
  <2>2. m \in Moms /\ w \in Weeks
    BY <2>1 DEF Single, At
  <2>3. Sits(lot, m, w, w)
    BY <1>6, <2>1 DEF Sits
  <2>4. LedgerDue[lot] = << m, w >> /\ LedgerPlace[lot] = << m, w >>
    BY <2>1, <2>3, PlacesAreRight DEF PlacesRight
  <2> QED
    BY <2>2, <2>4
<1>9. LedgerDue \in [LotIds -> Moms \X Weeks] /\ LedgerPlace = LedgerDue
  <2>1. LedgerDue = [l \in LotIds |-> LedgerDue[l]]
    BY DEF LedgerDue
  <2>2. LedgerPlace = [l \in LotIds |-> LedgerPlace[l]]
    BY PlacesFunctions DEF PlacesAreFunctions
  <2> QED
    BY <1>8, <2>1, <2>2
<1>10. EarlierSlots \in [LotIds -> SUBSET (Moms \X Weeks)]
  BY <1>8 DEF EarlierSlots, Window
<1>11. LedgerCapacity \in [Moms \X Weeks -> Nat]
  BY <1>3, ResolvedType DEF TypeOK, LedgerCapacity
<1>12. ~ (calls > 0 /\ phase = "idle")
  BY <1>3
<1> QED
  BY <1>7, <1>9, <1>10, <1>11, <1>12 DEF Ledger!Open, LedgerCapacity

(* A first call on a tree that has every lot once and readable weeks keeps *)
(* the promise of a planning stage, whatever the capacities and the window: *)
(* each step of capacity_aware_inbound_backward_planning is a step of the  *)
(* ledger or leaves it alone.  A tree with an earlier plan's production has *)
(* lots in two weeks, and is not one of those the premise admits.          *)
THEOREM LedgerKept ==
  ASSUME FreshIsUnplanned
  PROVE  Spec => KeepsTheLedger
<1> DEFINE Inv == Fresh => FirstCallInv
<1>1. Init => Inv /\ (Fresh => Ledger!Open)
  BY FreshInit
<1>2. [Next]_vars => (Fresh' <=> Fresh)
  <2> SUFFICES ASSUME [Next]_vars PROVE dS' = dS /\ setting' = setting
    BY DEF Fresh
  <2> QED
    BY SettingStep, RecordsStep
<1>3. Inv /\ [Next]_vars => Inv'
  BY <1>2, NextFirstCall
<1>4. Inv /\ Inv' /\ [Next]_vars => [calls' <= 1 /\ Fresh => Ledger!Step]_(Ledger!ledger)
  BY <1>2, LedgerSteps
<1> QED
  BY <1>1, <1>3, <1>4, PTL DEF Spec, KeepsTheLedger
=============================================================================
