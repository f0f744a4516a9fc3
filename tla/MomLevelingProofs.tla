------------------------- MODULE MomLevelingProofs -------------------------
(***************************************************************************)
(* Theorems about the allocation and leveling of MOM demand, for any MOMs, *)
(* lots, weeks, policies and capacities.                                   *)
(***************************************************************************)
EXTENDS MomLeveling, FiniteSetTheorems, SequenceTheorems, TLAPS

----------------------------------------------------------------------------
(* What CHOOSE finds.                                                      *)

(* A set of naturals has a least member: of the intervals below its        *)
(* members, one has no other strictly inside it.                           *)
LEMMA LeastOfNat ==
  ASSUME NEW T \in SUBSET Nat, T # {}
  PROVE  \E x \in T : \A y \in T : x <= y
<1> DEFINE Below(x) == 1 .. x
           Belows   == { Below(x) : x \in T }
<1>1. Belows \subseteq FiniteSubsetsOf(Nat)
  BY FS_Interval DEF FiniteSubsetsOf
<1>2. PICK b \in Belows : \A c \in Belows : << c, b >> \notin StrictSubsetOrdering(Nat)
  <2>1. Belows # {}
    OBVIOUS
  <2> HIDE DEF Belows
  <2> QED
    BY <1>1, <2>1, FS_StrictSubsetOrderingWellFounded, WFMin
<1>3. PICK x \in T : b = Below(x)
  OBVIOUS
<1>4. ASSUME NEW y \in T, y < x PROVE FALSE
  <2>1. Below(y) \subseteq Below(x) /\ x \in Below(x) \ Below(y)
    BY <1>4
  <2>2. << Below(y), Below(x) >> \in StrictSubsetOrdering(Nat)
    BY <2>1 DEF StrictSubsetOrdering
  <2> QED
    BY <1>2, <1>3, <2>2
<1> QED
  BY <1>4

(* A set of naturals with a bound has a greatest member.                   *)
LEMMA GreatestOfNat ==
  ASSUME NEW b \in Nat, NEW T \in SUBSET (0 .. b), T # {}
  PROVE  \E x \in T : \A y \in T : y <= x
<1> DEFINE Gaps == { b - x : x \in T }
<1>1. Gaps \in SUBSET Nat /\ Gaps # {}
  <2>1. \A x \in T : b - x \in Nat
    OBVIOUS
  <2> QED
    BY <2>1
<1>2. PICK g \in Gaps : \A h \in Gaps : g <= h
  BY <1>1, LeastOfNat
<1>3. PICK x \in T : g = b - x
  BY <1>2
<1>4. ASSUME NEW y \in T PROVE y <= x
  <2>1. b - x <= b - y
    BY <1>2, <1>3
  <2>2. x \in Nat /\ y \in Nat
    OBVIOUS
  <2> QED
    BY <2>1, <2>2
<1> QED
  BY <1>4

(* A list names the first of the MOMs asked for, or none of them.          *)
LEMMA FirstInList ==
  ASSUME NEW S, NEW list \in Seq(S), NEW moms
  PROVE  \/ FirstIn(list, moms) = 0
         \/ FirstIn(list, moms) \in DOMAIN list /\ list[FirstIn(list, moms)] \in moms
<1> DEFINE found == { k \in DOMAIN list : list[k] \in moms }
<1>1. CASE found = {}
  BY <1>1 DEF FirstIn
<1>2. CASE found # {}
  <2>1. found \in SUBSET Nat
    OBVIOUS
  <2>2. \E k \in found : \A j \in found : k <= j
    BY <1>2, <2>1, LeastOfNat
  <2>3. FirstIn(list, moms) \in found
    BY <1>2, <2>2 DEF FirstIn
  <2> QED
    BY <2>3
<1> QED
  BY <1>1, <1>2

(* A policy has a list for every lot.                                      *)
LEMMA CandidatesType ==
  ASSUME IsSetting(setting), NEW policy, IsPolicy(policy), NEW lot
  PROVE  Candidates(policy, lot) \in Seq(Nat)
<1> DEFINE listed(key) == IF key \in DOMAIN policy THEN policy[key] ELSE << >>
<1>1. \A key : listed(key) \in Seq(Nat)
  BY DEF IsPolicy
<1> QED
  BY <1>1 DEF Candidates

LEMMA ChosenType ==
  ASSUME IsSetting(setting), NEW lot PROVE Chosen(lot) \in Moms
<1> DEFINE list == Candidates(setting.policy, lot)
<1>1. list \in Seq(Nat)
  BY CandidatesType DEF IsSetting
<1>2. FirstIn(list, Moms) = 0 \/ list[FirstIn(list, Moms)] \in Moms
  BY <1>1, FirstInList
<1>3. setting.first \in Moms
  BY DEF IsSetting
<1> QED
  BY <1>2, <1>3 DEF Chosen

LEMMA SecondaryType ==
  ASSUME IsSetting(setting) PROVE Secondary = NoMom \/ Secondary \in Roomy
<1> DEFINE list == Candidates(setting.secondary, Head(queue))
<1>1. list \in Seq(Nat)
  BY CandidatesType DEF IsSetting
<1>2. FirstIn(list, Roomy) = 0 \/ list[FirstIn(list, Roomy)] \in Roomy
  BY <1>1, FirstInList
<1> QED
  BY <1>2 DEF Secondary

LEMMA PrimaryMomType ==
  ASSUME NEW lot PROVE PrimaryMom(lot) \in Moms \cup {Unknown}
<1> DEFINE has == { m \in Moms : \E w \in Weeks :
                      w < setting.horizon
                      /\ \E k \in DOMAIN demand[m][w] : demand[m][w][k] = lot }
<1>1. has # {} => \E m \in has : \A n \in has : n <= m
  <2>1. has \in SUBSET (0 .. NMoms) /\ NMoms \in Nat
    BY NMomsAssumption DEF Moms
  <2> HIDE DEF has
  <2> QED
    BY <2>1, GreatestOfNat
<1> QED
  BY <1>1 DEF PrimaryMom

LEMMA CapType ==
  ASSUME IsSetting(setting), NEW m \in Moms, NEW w \in Weeks
  PROVE  CapOf(m, w) \in Int
<1>1. \A s \in Seq(Int) : Padded(s, w) \in Int
  BY NWeeksAssumption DEF Padded, Weeks
<1> QED
  BY <1>1 DEF CapOf, IsSetting

LEMMA BoundType ==
  ASSUME NEW q \in Seq(LotIds), NEW n \in Int
  PROVE  Bound(q, n) \in 0 .. Len(q)
  BY DEF Bound

LEMMA KeepProperties ==
  ASSUME NEW q \in Seq(LotIds), NEW n \in Int
  PROVE  /\ Keep(q, n) \in Seq(LotIds)
         /\ Len(Keep(q, n)) = Bound(q, n)
         /\ \A k \in 1 .. Bound(q, n) : Keep(q, n)[k] = q[k]
<1> DEFINE b == Bound(q, n)
<1>1. b \in 0 .. Len(q)
  BY BoundType
<1> HIDE DEF b
<1>2. \A i \in 1 .. b : q[i] \in LotIds
  BY <1>1
<1> QED
  BY <1>1, <1>2, SubSeqProperties DEF Keep, b

LEMMA SpillType ==
  ASSUME NEW q \in Seq(LotIds), NEW n \in Int
  PROVE  Spill(q, n) \in Seq(LotIds)
<1> DEFINE b == Bound(q, n)
<1>1. b \in 0 .. Len(q)
  BY BoundType
<1> HIDE DEF b
<1>2. \A i \in b + 1 .. Len(q) : q[i] \in LotIds
  BY <1>1
<1> QED
  BY <1>1, <1>2, SubSeqProperties DEF Spill, b

(* Changing one bucket.                                                    *)
LEMMA PutBucket ==
  ASSUME NEW b \in Buckets, NEW m \in Moms, NEW w \in Weeks, NEW q \in Seq(LotIds)
  PROVE  /\ [b EXCEPT ![m][w] = q] \in Buckets
         /\ [b EXCEPT ![m][w] = q][m][w] = q
         /\ \A n \in Moms, v \in Weeks :
              n # m \/ v # w => [b EXCEPT ![m][w] = q][n][v] = b[n][v]
  BY DEF Buckets

----------------------------------------------------------------------------
(* The invariant: what a leveled week keeps of the MOM's own lots, and     *)
(* that a week still to be leveled begins with all of them.                *)

Leveled == Leveling \/ phase = "leveled"

OwnLot(m, w, n) ==
  /\ n <= Len(adjusted[m][w])
  /\ \A k \in 1 .. n : adjusted[m][w][k] = given[m][w][k]

KeepsOwn(m, w) ==
  /\ OwnLot(m, w, Bound(given[m][w], CapOf(m, w)))
  /\ CapOf(m, w) >= 0 => Len(adjusted[m][w]) <= CapOf(m, w)

OwnFirst ==
  Leveled => \A m \in Moms, w \in Weeks : w < setting.horizon =>
    IF Done(m, w) THEN KeepsOwn(m, w) ELSE OwnLot(m, w, Len(given[m][w]))

Inv == TypeOK /\ OwnFirst

LEMMA InitInv == Init => Inv
  BY InputsAssumption, MaxCallsAssumption, NMomsAssumption, NWeeksAssumption
     DEF Init, Inv, TypeOK, OwnFirst, Leveled, Leveling, Moms, Weeks

(* The loop over the MOMs and their weeks.                                 *)
LEMMA NextWeekAdvances ==
  ASSUME TypeOK, phase \in {"level", "spill"}, NextWeek, UNCHANGED setting
  PROVE  /\ phase' \in {"level", "write"} /\ mom' \in Moms /\ week' \in Weeks
         /\ phase' = "level" => week' < setting.horizon
         /\ \A m \in Moms, w \in Weeks : w < setting.horizon =>
              (Done(m, w)' <=> Done(m, w) \/ (m = mom /\ w = week))
<1>1. /\ NMoms \in Nat \ {0} /\ NWeeks \in Nat \ {0} /\ setting.horizon \in 0 .. NWeeks
      /\ mom \in 1 .. NMoms /\ week \in 0 .. NWeeks - 1 /\ week < setting.horizon
  BY NMomsAssumption, NWeeksAssumption DEF TypeOK, IsSetting, Moms, Weeks
<1>2. CASE week + 1 < setting.horizon
  BY <1>1, <1>2 DEF NextWeek, Done, Moms, Weeks
<1>3. CASE ~ (week + 1 < setting.horizon) /\ mom < NMoms
  BY <1>1, <1>3 DEF NextWeek, Done, Moms, Weeks
<1>4. CASE ~ (week + 1 < setting.horizon) /\ ~ (mom < NMoms)
  BY <1>1, <1>4 DEF NextWeek, Done, Moms, Weeks
<1> QED
  BY <1>2, <1>3, <1>4

LEMMA AllocateInv ==
  ASSUME Inv, Allocate \/ AllocateLot \/ NextAllocateWeek PROVE Inv'
<1>0. /\ setting.source \in [Weeks -> Seq(LotIds)]
      /\ setting.span \in 0 .. NWeeks /\ NWeeks \in Nat \ {0} /\ 0 \in Weeks
  BY NWeeksAssumption DEF Inv, TypeOK, IsSetting, Weeks
<1>1. ~ Leveled'
  BY DEF Allocate, AllocateLot, NextAllocateWeek, Leveled, Leveling
<1>2. OwnFirst'
  BY <1>1 DEF OwnFirst
<1>3. CASE Allocate
  <2>1. demand' \in Buckets
    BY <1>3 DEF Allocate, Inv, TypeOK, Buckets
  <2>2. queue' \in Seq(LotIds) /\ week' \in Weeks
    <3>1. week' = 0 /\ queue' = IF setting.span > 0 THEN setting.source[0] ELSE << >>
      BY <1>3 DEF Allocate
    <3>2. setting.source[0] \in Seq(LotIds) /\ << >> \in Seq(LotIds)
      BY <1>0
    <3> QED
      BY <1>0, <3>1, <3>2
  <2> QED
    BY <1>2, <1>3, <2>1, <2>2, MaxCallsAssumption DEF Allocate, Inv, TypeOK, result
<1>4. CASE AllocateLot
  <2> DEFINE m == Chosen(Head(queue))
             q == Append(demand[m][week], Head(queue))
  <2>1. m \in Moms
    BY ChosenType DEF Inv, TypeOK
  <2>2. Head(queue) \in LotIds /\ queue' \in Seq(LotIds)
    BY <1>4 DEF AllocateLot, Inv, TypeOK
  <2>3. q \in Seq(LotIds)
    BY <2>1, <2>2 DEF Inv, TypeOK, Buckets
  <2>4. demand' \in Buckets
    BY <1>4, <2>1, <2>3, PutBucket DEF AllocateLot, Inv, TypeOK
  <2> QED
    BY <1>2, <1>4, <2>2, <2>4 DEF AllocateLot, Inv, TypeOK, result
<1>5. CASE NextAllocateWeek
  <2>1. queue' \in Seq(LotIds) /\ week' \in Weeks
    <3>1. week \in Weeks /\ queue \in Seq(LotIds)
      BY DEF Inv, TypeOK
    <3>2. week + 1 < setting.span => week + 1 \in Weeks
      BY <1>0, <3>1 DEF Weeks
    <3> QED
      BY <1>0, <1>5, <3>1, <3>2 DEF NextAllocateWeek
  <2> QED
    BY <1>2, <1>5, <2>1 DEF NextAllocateWeek, Inv, TypeOK, tree, result
<1> QED
  BY <1>3, <1>4, <1>5

LEMMA LevelInv ==
  ASSUME Inv, Level PROVE Inv'
<1>1. final' \in [LotIds -> Moms \cup {NoMom, Unknown}]
  BY PrimaryMomType DEF Level
<1>2. TypeOK'
  BY <1>1, MaxCallsAssumption, NMomsAssumption, NWeeksAssumption
     DEF Level, Inv, TypeOK, tree, Moms, Weeks
<1>3. \A m \in Moms, w \in Weeks : OwnLot(m, w, Len(given[m][w]))'
  BY DEF Level, Inv, TypeOK, Buckets, OwnLot
<1>4. \A m \in Moms, w \in Weeks : w < setting'.horizon => ~ Done(m, w)'
  BY NMomsAssumption, NWeeksAssumption DEF Level, Inv, TypeOK, IsSetting, tree, Done, Moms, Weeks
<1>5. OwnFirst'
  BY <1>3, <1>4 DEF OwnFirst
<1> QED
  BY <1>2, <1>5 DEF Inv

LEMMA DoneStays ==
  ASSUME UNCHANGED << setting, mom, week >>, phase = "spill", phase' = "spill"
  PROVE  \A m, w : Done(m, w)' <=> Done(m, w)
  BY DEF Done

LEMMA CapStays ==
  ASSUME UNCHANGED setting, NEW m, NEW w PROVE CapOf(m, w)' = CapOf(m, w)
  BY DEF CapOf

LEMMA KeptStays ==
  ASSUME UNCHANGED << setting, given >>, NEW m, NEW w,
         adjusted'[m][w] = adjusted[m][w]
  PROVE  /\ KeepsOwn(m, w) => KeepsOwn(m, w)'
         /\ OwnLot(m, w, Len(given[m][w])) => OwnLot(m, w, Len(given[m][w]))'
  BY CapStays DEF KeepsOwn, OwnLot

(* The loop goes on to the next week when the current one keeps its own.   *)
LEMMA AdvanceInv ==
  ASSUME Inv, NextWeek, phase \in {"level", "spill"},
         UNCHANGED << tree, calls, queue, adjusted, result, given >>, KeepsOwn(mom, week)
  PROVE  Inv'
<1>1. UNCHANGED << setting, demand, final, moves, backlog >>
  BY DEF tree, result
<1>2. /\ phase' \in {"level", "write"} /\ mom' \in Moms /\ week' \in Weeks
      /\ phase' = "level" => week' < setting.horizon
      /\ \A m \in Moms, w \in Weeks : w < setting.horizon =>
           (Done(m, w)' <=> Done(m, w) \/ (m = mom /\ w = week))
  BY <1>1, NextWeekAdvances DEF Inv
<1>3. TypeOK'
  BY <1>1, <1>2 DEF Inv, TypeOK
<1>4. ASSUME NEW m \in Moms, NEW w \in Weeks, w < setting.horizon
      PROVE  IF Done(m, w)' THEN KeepsOwn(m, w)' ELSE OwnLot(m, w, Len(given[m][w]))'
  <2>1. IF Done(m, w) THEN KeepsOwn(m, w) ELSE OwnLot(m, w, Len(given[m][w]))
    BY <1>4 DEF Inv, OwnFirst, Leveled, Leveling
  <2>2. m = mom /\ w = week => KeepsOwn(m, w)
    OBVIOUS
  <2>3. /\ KeepsOwn(m, w) => KeepsOwn(m, w)'
        /\ OwnLot(m, w, Len(given[m][w])) => OwnLot(m, w, Len(given[m][w]))'
    BY <1>1, KeptStays
  <2> QED
    BY <1>2, <1>4, <2>1, <2>2, <2>3
<1> QED
  BY <1>1, <1>3, <1>4 DEF Inv, OwnFirst

LEMMA WithinCapacityInv ==
  ASSUME Inv, WithinCapacity PROVE Inv'
<1> DEFINE adj == adjusted[mom][week]  own == given[mom][week]  cap == CapOf(mom, week)
<1>1. /\ mom \in Moms /\ week \in Weeks /\ week < setting.horizon
      /\ adj \in Seq(LotIds) /\ own \in Seq(LotIds) /\ cap \in Int
  BY CapType DEF WithinCapacity, Inv, TypeOK, Buckets
<1>2. ~ Done(mom, week)
  BY <1>1 DEF WithinCapacity, Done, Moms, Weeks
<1>3. OwnLot(mom, week, Len(own))
  BY <1>1, <1>2 DEF WithinCapacity, Inv, OwnFirst, Leveled, Leveling
<1>4. Len(adj) <= cap
  BY DEF WithinCapacity
<1>5. Bound(own, cap) = Len(own)
  BY <1>1, <1>3, <1>4 DEF Bound, OwnLot
<1>6. KeepsOwn(mom, week)
  BY <1>3, <1>4, <1>5 DEF KeepsOwn
<1> QED
  BY <1>6, AdvanceInv DEF WithinCapacity

LEMMA EndWeekInv ==
  ASSUME Inv, EndWeek PROVE Inv'
<1>1. mom \in Moms /\ week \in Weeks /\ week < setting.horizon
  BY DEF EndWeek, Inv, TypeOK
<1>2. Done(mom, week)
  BY <1>1 DEF EndWeek, Done
<1>3. KeepsOwn(mom, week)
  BY <1>1, <1>2 DEF EndWeek, Inv, OwnFirst, Leveled, Leveling
<1> QED
  BY <1>3, AdvanceInv DEF EndWeek

LEMMA SplitWeekInv ==
  ASSUME Inv, SplitWeek PROVE Inv'
<1> DEFINE adj == adjusted[mom][week]  own == given[mom][week]  cap == CapOf(mom, week)
<1>1. /\ mom \in Moms /\ week \in Weeks /\ week < setting.horizon
      /\ adj \in Seq(LotIds) /\ own \in Seq(LotIds) /\ cap \in Int
      /\ adjusted \in Buckets
  BY CapType DEF SplitWeek, Inv, TypeOK, Buckets
<1>2. UNCHANGED << setting, demand, calls, mom, week, final, moves, backlog, given >>
      /\ phase = "level" /\ phase' = "spill"
      /\ queue' = Spill(adj, cap)
      /\ adjusted' = [adjusted EXCEPT ![mom][week] = Keep(adj, cap)]
  BY DEF SplitWeek, tree, result
<1>3. Keep(adj, cap) \in Seq(LotIds) /\ queue' \in Seq(LotIds)
  BY <1>1, <1>2, KeepProperties, SpillType
<1>4. /\ adjusted' \in Buckets /\ adjusted'[mom][week] = Keep(adj, cap)
      /\ \A n \in Moms, v \in Weeks :
           n # mom \/ v # week => adjusted'[n][v] = adjusted[n][v]
  <2> DEFINE q == Keep(adj, cap)
  <2>1. q \in Seq(LotIds)
    BY <1>3
  <2>2. adjusted' = [adjusted EXCEPT ![mom][week] = q]
    BY <1>2
  <2> HIDE DEF q
  <2>3. /\ adjusted' \in Buckets /\ adjusted'[mom][week] = q
        /\ \A n \in Moms, v \in Weeks :
             n # mom \/ v # week => adjusted'[n][v] = adjusted[n][v]
    BY <1>1, <2>1, <2>2 DEF Buckets
  <2> QED
    BY <2>3 DEF q
<1>5. TypeOK'
  BY <1>1, <1>2, <1>3, <1>4 DEF Inv, TypeOK
<1>6. OwnLot(mom, week, Len(own))
  <2>1. ~ Done(mom, week)
    BY <1>1, <1>2 DEF Done, Moms, Weeks
  <2> QED
    BY <1>1, <1>2, <2>1 DEF Inv, OwnFirst, Leveled, Leveling
<1>7. KeepsOwn(mom, week)'
  <2>1. Bound(own, cap) \in 0 .. Len(own) /\ Bound(adj, cap) \in 0 .. Len(adj)
    BY <1>1, BoundType
  <2>2. Bound(own, cap) <= Bound(adj, cap)
    <3>1. Len(own) <= Len(adj) /\ Len(own) \in Nat /\ Len(adj) \in Nat /\ cap \in Int
      BY <1>1, <1>6 DEF OwnLot
    <3> HIDE DEF own, adj, cap
    <3> QED
      BY <3>1 DEF Bound
  <2>3. /\ Len(Keep(adj, cap)) = Bound(adj, cap)
        /\ \A k \in 1 .. Bound(adj, cap) : Keep(adj, cap)[k] = adj[k]
    BY <1>1, KeepProperties
  <2>4. \A k \in 1 .. Bound(own, cap) : Keep(adj, cap)[k] = own[k]
    BY <1>6, <2>1, <2>2, <2>3 DEF OwnLot
  <2>5. cap >= 0 => Bound(adj, cap) <= cap
    BY <1>1 DEF Bound
  <2>6. CapOf(mom, week)' = cap
    BY <1>2, CapStays
  <2> HIDE DEF adj, cap
  <2>7. Bound(own, cap) <= Len(Keep(adj, cap))
    BY <2>2, <2>3
  <2>8. cap >= 0 => Len(Keep(adj, cap)) <= cap
    BY <2>3, <2>5
  <2> QED
    BY <1>2, <1>4, <2>4, <2>6, <2>7, <2>8 DEF KeepsOwn, OwnLot
<1>8. ASSUME NEW m \in Moms, NEW w \in Weeks, w < setting.horizon
      PROVE  IF Done(m, w)' THEN KeepsOwn(m, w)' ELSE OwnLot(m, w, Len(given[m][w]))'
  <2>1. CASE m = mom /\ w = week
    <3>1. KeepsOwn(m, w)'
      BY <1>2, <1>7, <2>1 DEF KeepsOwn, OwnLot, CapOf
    <3>2. Done(m, w)'
      BY <1>2, <1>8, <2>1 DEF Done
    <3> QED
      BY <3>1, <3>2
  <2>2. CASE ~ (m = mom /\ w = week)
    <3>1. Done(m, w)' <=> Done(m, w)
      BY <1>2, <2>2 DEF Done
    <3>2. IF Done(m, w) THEN KeepsOwn(m, w) ELSE OwnLot(m, w, Len(given[m][w]))
      BY <1>2, <1>8 DEF Inv, OwnFirst, Leveled, Leveling
    <3> QED
      BY <1>2, <1>4, <2>2, <3>1, <3>2, KeptStays
  <2> QED
    BY <2>1, <2>2
<1> QED
  BY <1>2, <1>5, <1>8 DEF Inv, OwnFirst

LEMMA MoveLotInv ==
  ASSUME Inv, MoveLot PROVE Inv'
<1> DEFINE m == Secondary  lot == Head(queue)  adj == adjusted[m][week]
           q == Append(adj, lot)
<1>1. /\ mom \in Moms /\ week \in Weeks /\ week < setting.horizon
      /\ m \in Moms \ {mom} /\ Len(adj) < CapOf(m, week)
      /\ lot \in LotIds /\ Tail(queue) \in Seq(LotIds)
      /\ adjusted \in Buckets /\ adj \in Seq(LotIds)
  BY SecondaryType DEF MoveLot, Inv, TypeOK, Buckets, Roomy
<1>2. UNCHANGED << setting, demand, phase, calls, mom, week, backlog, given >>
      /\ phase = "spill"
      /\ queue' = Tail(queue)
      /\ final' = [final EXCEPT ![lot] = m]
      /\ moves' = Append(moves, [week |-> week, lot |-> lot, from |-> mom, to |-> m])
      /\ adjusted' = [adjusted EXCEPT ![m][week] = q]
  BY DEF MoveLot, tree
<1> HIDE DEF m, lot
<1>3. /\ q \in Seq(LotIds) /\ Len(q) = Len(adj) + 1
      /\ \A k \in 1 .. Len(adj) : q[k] = adj[k]
  BY <1>1
<1>4. /\ adjusted' \in Buckets /\ adjusted'[m][week] = q
      /\ \A n \in Moms, v \in Weeks : n # m \/ v # week => adjusted'[n][v] = adjusted[n][v]
  <2> HIDE DEF q
  <2> QED
    BY <1>1, <1>2, <1>3 DEF Buckets
<1>5. TypeOK'
  <2>1. moves' \in Seq([week : Weeks, lot : LotIds, from : Moms, to : Moms])
    BY <1>1, <1>2 DEF Inv, TypeOK
  <2>2. final' \in [LotIds -> Moms \cup {NoMom, Unknown}]
    BY <1>1, <1>2 DEF Inv, TypeOK
  <2> QED
    BY <1>1, <1>2, <1>4, <2>1, <2>2 DEF Inv, TypeOK
<1>6. ASSUME NEW n \in Moms, NEW w \in Weeks, w < setting.horizon
      PROVE  IF Done(n, w)' THEN KeepsOwn(n, w)' ELSE OwnLot(n, w, Len(given[n][w]))'
  <2>1. Done(n, w)' <=> Done(n, w)
    BY <1>2, DoneStays
  <2>2. IF Done(n, w) THEN KeepsOwn(n, w) ELSE OwnLot(n, w, Len(given[n][w]))
    BY <1>2, <1>6 DEF Inv, OwnFirst, Leveled, Leveling
  <2>3. CASE n = m /\ w = week
    <3>1. given[n][w] \in Seq(LotIds) /\ CapOf(n, w) \in Int
      BY CapType DEF Inv, TypeOK, Buckets
    <3>2. Bound(given[n][w], CapOf(n, w)) \in 0 .. Len(given[n][w])
      BY <3>1, BoundType
    <3>3. CapOf(n, w)' = CapOf(n, w) /\ given' = given
      BY <1>2, CapStays
    <3>4. \A x \in Nat : OwnLot(n, w, x) => OwnLot(n, w, x)'
      <4> SUFFICES ASSUME NEW x \in Nat, OwnLot(n, w, x) PROVE OwnLot(n, w, x)'
        OBVIOUS
      <4>1. adjusted[n][w] = adj /\ adjusted'[n][w] = q
        BY <1>4, <2>3
      <4>2. x <= Len(adj) /\ \A k \in 1 .. x : adj[k] = given[n][w][k]
        BY <4>1 DEF OwnLot
      <4>3. Len(adj) \in Nat
        BY <1>1
      <4> HIDE DEF q, adj
      <4>4. x <= Len(q) /\ \A k \in 1 .. x : q[k] = given[n][w][k]
        BY <1>3, <4>2, <4>3
      <4> QED
        BY <3>3, <4>1, <4>4 DEF OwnLot
    <3>5. Len(adjusted'[n][w]) <= CapOf(n, w)
      BY <1>1, <1>3, <1>4, <2>3, <3>1
    <3>6. Len(given[n][w]) \in Nat
      BY <3>1
    <3>7. ASSUME Done(n, w) PROVE KeepsOwn(n, w)'
      <4>1. OwnLot(n, w, Bound(given[n][w], CapOf(n, w)))
        BY <2>2, <3>7 DEF KeepsOwn
      <4>2. OwnLot(n, w, Bound(given[n][w], CapOf(n, w)))'
        BY <3>2, <3>3, <3>4, <3>6, <4>1
      <4> QED
        BY <3>3, <3>5, <4>2 DEF KeepsOwn
    <3>8. ASSUME ~ Done(n, w) PROVE OwnLot(n, w, Len(given[n][w]))'
      BY <2>2, <3>3, <3>4, <3>6, <3>8
    <3> QED
      BY <2>1, <3>7, <3>8
  <2>4. CASE ~ (n = m /\ w = week)
    BY <1>2, <1>4, <2>1, <2>2, <2>4, KeptStays
  <2> QED
    BY <2>3, <2>4
<1> QED
  BY <1>2, <1>5, <1>6 DEF Inv, OwnFirst

LEMMA BacklogLotInv ==
  ASSUME Inv, BacklogLot PROVE Inv'
<1>1. UNCHANGED << setting, demand, phase, calls, mom, week, adjusted, moves, given >>
      /\ phase = "spill" /\ queue # << >>
      /\ queue' = Tail(queue)
      /\ final' = [final EXCEPT ![Head(queue)] = NoMom]
      /\ backlog' = Append(backlog, [week |-> week, lot |-> Head(queue), from |-> mom])
  BY DEF BacklogLot, tree
<1>2. Head(queue) \in LotIds /\ Tail(queue) \in Seq(LotIds)
  BY <1>1 DEF Inv, TypeOK
<1>3. TypeOK'
  <2>1. backlog' \in Seq([week : Weeks, lot : LotIds, from : Moms])
    BY <1>1, <1>2 DEF Inv, TypeOK
  <2>2. final' \in [LotIds -> Moms \cup {NoMom, Unknown}]
    BY <1>1, <1>2 DEF Inv, TypeOK
  <2> QED
    BY <1>1, <1>2, <2>1, <2>2 DEF Inv, TypeOK
<1>4. OwnFirst'
  BY <1>1, DoneStays, KeptStays DEF Inv, OwnFirst, Leveled, Leveling
<1> QED
  BY <1>3, <1>4 DEF Inv

LEMMA WriteBackInv ==
  ASSUME Inv, WriteBack PROVE Inv'
<1>1. UNCHANGED << setting, calls, mom, week, queue, adjusted, result, given >>
      /\ phase = "write" /\ phase' = "leveled"
  BY DEF WriteBack
<1>2. demand' \in Buckets
  BY DEF WriteBack, Inv, TypeOK, Buckets
<1>3. TypeOK'
  BY <1>1, <1>2 DEF Inv, TypeOK, result
<1>4. \A m, w : Done(m, w)' <=> Done(m, w)
  BY <1>1 DEF Done
<1>5. OwnFirst'
  BY <1>1, <1>4, KeptStays DEF Inv, OwnFirst, Leveled, Leveling
<1> QED
  BY <1>3, <1>5 DEF Inv

LEMMA Invariance == Spec => []Inv
<1>1. ASSUME Inv, [Next]_vars PROVE Inv'
  <2>1. CASE UNCHANGED vars
    BY <1>1, <2>1 DEF vars, result, Inv, TypeOK, OwnFirst, Leveled, Leveling, Done, KeepsOwn,
                OwnLot, CapOf
  <2>2. CASE Allocate \/ AllocateLot \/ NextAllocateWeek
    BY <1>1, <2>2, AllocateInv
  <2>3. CASE Level
    BY <1>1, <2>3, LevelInv
  <2>4. CASE WithinCapacity
    BY <1>1, <2>4, WithinCapacityInv
  <2>5. CASE SplitWeek
    BY <1>1, <2>5, SplitWeekInv
  <2>6. CASE MoveLot
    BY <1>1, <2>6, MoveLotInv
  <2>7. CASE BacklogLot
    BY <1>1, <2>7, BacklogLotInv
  <2>8. CASE EndWeek
    BY <1>1, <2>8, EndWeekInv
  <2>9. CASE WriteBack
    BY <1>1, <2>9, WriteBackInv
  <2> QED
    BY <1>1, <2>1, <2>2, <2>3, <2>4, <2>5, <2>6, <2>7, <2>8, <2>9 DEF Next
<1> QED
  BY <1>1, InitInv, PTL DEF Spec

----------------------------------------------------------------------------
(* How often a lot stands in a bucket, and where.                          *)

IsSpot(b, weeks, lot, x) ==
  \E m \in Moms, w \in weeks : \E k \in DOMAIN b[m][w] :
    b[m][w][k] = lot /\ x = << m, w, k >>

IsSpotIn(b, w, lot, x) ==
  \E m \in Moms : \E k \in DOMAIN b[m][w] : b[m][w][k] = lot /\ x = << m, w, k >>

LEMMA SpotsMembers ==
  ASSUME NEW b, NEW weeks, NEW lot
  PROVE  \A x : x \in Spots(b, weeks, lot) <=> IsSpot(b, weeks, lot, x)
<1> DEFINE Of(s) == { << s[1], s[2], k >> : k \in Positions(b[s[1]][s[2]], lot) }
<1>1. \A s, x : x \in Of(s) <=>
        \E k \in DOMAIN b[s[1]][s[2]] : b[s[1]][s[2]][k] = lot /\ x = << s[1], s[2], k >>
  BY DEF Positions
<1>2. Spots(b, weeks, lot) = UNION { Of(s) : s \in Moms \X weeks }
  BY DEF Spots
<1> HIDE DEF Of
<1>3. \A x : x \in Spots(b, weeks, lot) <=> \E s \in Moms \X weeks : x \in Of(s)
  BY <1>2
<1>4. ASSUME NEW x, x \in Spots(b, weeks, lot)
      PROVE  \E m \in Moms, w \in weeks : \E k \in DOMAIN b[m][w] :
               b[m][w][k] = lot /\ x = << m, w, k >>
  <2>1. PICK s \in Moms \X weeks : x \in Of(s)
    BY <1>3, <1>4
  <2>2. PICK k \in DOMAIN b[s[1]][s[2]] : b[s[1]][s[2]][k] = lot /\ x = << s[1], s[2], k >>
    BY <1>1, <2>1
  <2>3. s[1] \in Moms /\ s[2] \in weeks
    OBVIOUS
  <2> QED
    BY <2>2, <2>3
<1>5. ASSUME NEW x, NEW m \in Moms, NEW w \in weeks, NEW k \in DOMAIN b[m][w],
             b[m][w][k] = lot, x = << m, w, k >>
      PROVE  x \in Spots(b, weeks, lot)
  <2> DEFINE s == << m, w >>
  <2>1. s \in Moms \X weeks /\ s[1] = m /\ s[2] = w
    OBVIOUS
  <2> HIDE DEF s
  <2>2. x \in Of(s)
    BY <1>1, <1>5, <2>1
  <2> QED
    BY <1>3, <2>1, <2>2
<1> QED
  BY <1>4, <1>5 DEF IsSpot

LEMMA SpotsInWeek ==
  ASSUME NEW b, NEW w, NEW lot
  PROVE  \A x : x \in Spots(b, {w}, lot) <=> IsSpotIn(b, w, lot, x)
<1>1. \A x : x \in Spots(b, {w}, lot) <=> IsSpot(b, {w}, lot, x)
  BY SpotsMembers
<1> QED
  BY <1>1 DEF IsSpot, IsSpotIn

LEMMA PositionsFinite ==
  ASSUME NEW q \in Seq(LotIds), NEW lot
  PROVE  /\ IsFiniteSet(Positions(q, lot))
         /\ Copies(q, lot) \in Nat
<1>1. IsFiniteSet(1 .. Len(q))
  BY FS_Interval
<1>2. Positions(q, lot) \in SUBSET (1 .. Len(q))
  BY DEF Positions
<1>3. IsFiniteSet(Positions(q, lot))
  BY <1>1, <1>2, FS_Subset
<1> QED
  BY <1>3, FS_CardinalityType DEF Copies

LEMMA CopiesOfNone ==
  ASSUME NEW lot PROVE Copies(<< >>, lot) = 0
<1>1. Positions(<< >>, lot) = {}
  BY DEF Positions
<1> QED
  BY <1>1, FS_EmptySet DEF Copies

LEMMA CopiesTail ==
  ASSUME NEW q \in Seq(LotIds), q # << >>, NEW lot
  PROVE  Copies(q, lot) = Copies(Tail(q), lot) + IF Head(q) = lot THEN 1 ELSE 0
<1> DEFINE t == Tail(q)
           T == Positions(t, lot)
           P == Positions(q, lot)
           f == [k \in T |-> k + 1]
<1>1. /\ t \in Seq(LotIds) /\ Len(q) \in Nat \ {0} /\ Len(t) = Len(q) - 1
      /\ DOMAIN t = 1 .. Len(q) - 1 /\ DOMAIN q = 1 .. Len(q)
      /\ \A k \in DOMAIN t : t[k] = q[k + 1]
      /\ Head(q) = q[1]
  BY HeadTailProperties
<1>2. f \in Bijection(T, P \ {1})
  <2>1. \A k \in T : k \in Nat \ {0} /\ k + 1 \in P \ {1}
    BY <1>1 DEF Positions
  <2>2. \A j \in P \ {1} : j - 1 \in T /\ (j - 1) + 1 = j
    <3> SUFFICES ASSUME NEW j \in P \ {1} PROVE j - 1 \in T /\ (j - 1) + 1 = j
      OBVIOUS
    <3>1. j \in 2 .. Len(q) /\ q[j] = lot
      BY <1>1 DEF Positions
    <3>2. j - 1 \in DOMAIN t /\ (j - 1) + 1 = j
      BY <1>1, <3>1
    <3> QED
      BY <1>1, <3>1, <3>2 DEF Positions
  <2> HIDE DEF T, P
  <2>3. f \in [T -> P \ {1}] /\ \A k \in T : f[k] = k + 1
    BY <2>1
  <2>4. \A j, k \in T : f[j] = f[k] => j = k
    BY <2>1, <2>3
  <2>5. \A j \in P \ {1} : \E k \in T : f[k] = j
    BY <2>2, <2>3
  <2> QED
    BY <2>3, <2>4, <2>5 DEF Bijection, Injection, Surjection, IsInjective
<1>3. IsFiniteSet(T) /\ Cardinality(T) \in Nat
  BY <1>1, PositionsFinite DEF Copies
<1>4. Cardinality(P \ {1}) = Cardinality(T)
  BY <1>2, <1>3, FS_Bijection DEF ExistsBijection
<1>5. IsFiniteSet(P) /\ Cardinality(P) \in Nat
  BY PositionsFinite DEF Copies
<1>6. Cardinality(P \ {1}) = IF 1 \in P THEN Cardinality(P) - 1 ELSE Cardinality(P)
  BY <1>5, FS_RemoveElement
<1>7. 1 \in P <=> Head(q) = lot
  BY <1>1 DEF Positions
<1>8. Copies(q, lot) = Cardinality(P) /\ Copies(t, lot) = Cardinality(T)
  BY DEF Copies
<1> HIDE DEF T, P, t
<1> QED
  BY <1>3, <1>4, <1>5, <1>6, <1>7, <1>8 DEF t

(* Appending a lot to one bucket.                                          *)
Appended(b, c, m, w, h) == c = [b EXCEPT ![m][w] = Append(@, h)]

OneMore(b, c, m, w, h) ==
  /\ c \in Buckets
  /\ DOMAIN b[m][w] = 1 .. Len(b[m][w]) /\ Len(b[m][w]) \in Nat
  /\ DOMAIN c[m][w] = 1 .. Len(b[m][w]) + 1
  /\ Len(c[m][w]) = Len(b[m][w]) + 1
  /\ c[m][w][Len(b[m][w]) + 1] = h
  /\ \A k \in DOMAIN b[m][w] : c[m][w][k] = b[m][w][k]
  /\ \A n \in Moms, v \in Weeks : n # m \/ v # w => c[n][v] = b[n][v]

LEMMA AppendToBucket ==
  ASSUME NEW b \in Buckets, NEW c, NEW m \in Moms, NEW w \in Weeks, NEW h \in LotIds,
         Appended(b, c, m, w, h)
  PROVE  OneMore(b, c, m, w, h)
<1> DEFINE old == b[m][w]
           new == Append(old, h)
<1>1. old \in Seq(LotIds)
  BY DEF Buckets
<1> HIDE DEF old
<1>2. /\ new \in Seq(LotIds) /\ Len(new) = Len(old) + 1 /\ Len(old) \in Nat
      /\ DOMAIN old = 1 .. Len(old) /\ DOMAIN new = 1 .. Len(old) + 1
      /\ new[Len(old) + 1] = h
      /\ \A k \in 1 .. Len(old) : new[k] = old[k]
  BY <1>1, AppendProperties
<1>3. c = [b EXCEPT ![m][w] = new]
  BY DEF old, Appended
<1> HIDE DEF new
<1>4. /\ c \in Buckets /\ c[m][w] = new
      /\ \A n \in Moms, v \in Weeks : n # m \/ v # w => c[n][v] = b[n][v]
  BY <1>2, <1>3 DEF Buckets
<1> QED
  BY <1>2, <1>4 DEF old, OneMore

(* A week of the MOMs gains one spot of the lot that is appended, and no   *)
(* other lot's.                                                            *)
SpotGained(b, c, m, w, h, v, lot) ==
  LET old  == Spots(b, {v}, lot)
      spot == << m, w, Len(b[m][w]) + 1 >>
  IN IF v = w /\ lot = h
       THEN Spots(c, {v}, lot) = old \cup {spot} /\ spot \notin old
       ELSE Spots(c, {v}, lot) = old

LEMMA SpotsAppend ==
  ASSUME NEW b \in Buckets, NEW c, NEW m \in Moms, NEW w \in Weeks, NEW h \in LotIds,
         Appended(b, c, m, w, h), NEW v \in Weeks, NEW lot
  PROVE  SpotGained(b, c, m, w, h, v, lot)
<1>1. /\ DOMAIN b[m][w] = 1 .. Len(b[m][w]) /\ Len(b[m][w]) \in Nat
      /\ DOMAIN c[m][w] = 1 .. Len(b[m][w]) + 1
      /\ c[m][w][Len(b[m][w]) + 1] = h
      /\ \A k \in DOMAIN b[m][w] : c[m][w][k] = b[m][w][k]
      /\ \A n \in Moms, u \in Weeks : n # m \/ u # w => c[n][u] = b[n][u]
  <2>1. OneMore(b, c, m, w, h)
    BY AppendToBucket
  <2> QED
    BY <2>1 DEF OneMore
<1>2. \A k : k \in DOMAIN c[m][w] <=> k \in DOMAIN b[m][w] \/ k = Len(b[m][w]) + 1
  BY <1>1
<1>3. Len(b[m][w]) + 1 \notin DOMAIN b[m][w]
  BY <1>1
<1>4. \A n \in Moms : n # m \/ v # w => c[n][v] = b[n][v]
  BY <1>1
<1>5. \A n \in Moms : \A k :
        k \in DOMAIN c[n][v] /\ c[n][v][k] = lot <=>
          \/ k \in DOMAIN b[n][v] /\ b[n][v][k] = lot
          \/ n = m /\ v = w /\ lot = h /\ k = Len(b[m][w]) + 1
  BY <1>1, <1>2, <1>3, <1>4
<1>6. \A x : x \in Spots(c, {v}, lot) <=>
        \/ x \in Spots(b, {v}, lot)
        \/ v = w /\ lot = h /\ x = << m, w, Len(b[m][w]) + 1 >>
  <2>1. \A x : IsSpotIn(c, v, lot, x) <=>
          \/ IsSpotIn(b, v, lot, x)
          \/ v = w /\ lot = h /\ x = << m, w, Len(b[m][w]) + 1 >>
    BY <1>5 DEF IsSpotIn
  <2>2. /\ \A x : x \in Spots(c, {v}, lot) <=> IsSpotIn(c, v, lot, x)
        /\ \A x : x \in Spots(b, {v}, lot) <=> IsSpotIn(b, v, lot, x)
    BY SpotsInWeek
  <2> QED
    BY <2>1, <2>2
<1>7. v = w => << m, w, Len(b[m][w]) + 1 >> \notin Spots(b, {v}, lot)
  <2>1. v = w => ~ IsSpotIn(b, v, lot, << m, w, Len(b[m][w]) + 1 >>)
    BY <1>3 DEF IsSpotIn
  <2> QED
    BY <2>1, SpotsInWeek
<1>8. CASE v = w /\ lot = h
  <2>1. Spots(c, {v}, lot) = Spots(b, {v}, lot) \cup {<< m, w, Len(b[m][w]) + 1 >>}
    BY <1>6, <1>8
  <2> QED
    BY <1>7, <1>8, <2>1 DEF SpotGained
<1>9. CASE ~ (v = w /\ lot = h)
  <2>1. Spots(c, {v}, lot) = Spots(b, {v}, lot)
    BY <1>6, <1>9
  <2> QED
    BY <1>9, <2>1 DEF SpotGained
<1> QED
  BY <1>8, <1>9

----------------------------------------------------------------------------
(* What the allocation has given out, week by week.                        *)

WaitingCopies(w, lot) ==
  IF phase = "allocate" /\ w = week THEN Copies(queue, lot) ELSE 0

DueCopies(w, lot) ==
  IF phase = "allocate" /\ w > week THEN 0 ELSE Copies(setting.source[w], lot)

Counted(w, lot) ==
  /\ IsFiniteSet(Spots(demand, {w}, lot))
  /\ Cardinality(Spots(demand, {w}, lot)) + WaitingCopies(w, lot) = DueCopies(w, lot)
  /\ \A spot \in Spots(demand, {w}, lot) : spot[1] = Chosen(lot)

AllocatedInv ==
  Allocating /\ setting.clear =>
    \A w \in 0 .. setting.span - 1, lot \in LotIds : Counted(w, lot)

LEMMA AllocateCounts ==
  ASSUME TypeOK, Allocate PROVE AllocatedInv'
<1> SUFFICES ASSUME setting.clear, NEW w \in 0 .. setting.span - 1, NEW lot \in LotIds
             PROVE  Counted(w, lot)'
  BY DEF AllocatedInv, Allocate
<1>1. setting.span \in 0 .. NWeeks /\ NWeeks \in Nat \ {0}
  BY NWeeksAssumption DEF TypeOK, IsSetting
<1>2. w \in Weeks /\ w \in Nat /\ 0 \in Weeks /\ setting.span > 0
  BY <1>1 DEF Weeks
<1>3. \A m \in Moms : demand'[m][w] = << >>
  BY <1>1, <1>2 DEF Allocate
<1>4. Spots(demand', {w}, lot) = {}
  <2>1. \A m \in Moms : DOMAIN demand'[m][w] = {}
    BY <1>3
  <2>2. \A x : ~ IsSpotIn(demand', w, lot, x)
    BY <2>1 DEF IsSpotIn
  <2> QED
    BY <2>2, SpotsInWeek
<1>5. phase' = "allocate" /\ week' = 0 /\ queue' = setting.source[0] /\ setting' = setting
  BY <1>2 DEF Allocate
<1>6. Copies(setting.source[0], lot) \in Nat
  BY <1>2, PositionsFinite DEF TypeOK, IsSetting
<1>7. IsFiniteSet(Spots(demand', {w}, lot)) /\ Cardinality(Spots(demand', {w}, lot)) = 0
  BY <1>4, FS_EmptySet
<1>8. 0 + WaitingCopies(w, lot)' = DueCopies(w, lot)'
  BY <1>2, <1>5, <1>6 DEF WaitingCopies, DueCopies
<1> QED
  BY <1>4, <1>7, <1>8 DEF Counted

LEMMA AllocateLotCounts ==
  ASSUME TypeOK, AllocatedInv, AllocateLot PROVE AllocatedInv'
<1> DEFINE h == Head(queue)  m == Chosen(h)
<1> SUFFICES ASSUME setting.clear, NEW w \in 0 .. setting.span - 1, NEW lot \in LotIds
             PROVE  Counted(w, lot)'
  BY DEF AllocatedInv, AllocateLot
<1>1. /\ setting.span \in 0 .. NWeeks /\ NWeeks \in Nat \ {0} /\ w \in Weeks /\ week \in Weeks
      /\ week \in Nat /\ w \in Nat
  BY NWeeksAssumption DEF TypeOK, IsSetting, Weeks
<1>2. /\ Appended(demand, demand', m, week, h)
      /\ queue' = Tail(queue) /\ queue # << >> /\ queue \in Seq(LotIds)
      /\ phase = "allocate" /\ UNCHANGED << setting, phase, week >>
  BY DEF AllocateLot, TypeOK, Appended
<1>3. h \in LotIds /\ m \in Moms /\ demand \in Buckets /\ Tail(queue) \in Seq(LotIds)
  BY <1>2, ChosenType DEF TypeOK
<1> DEFINE old == Spots(demand, {w}, lot)
           new == Spots(demand', {w}, lot)
           new1 == << m, week, Len(demand[m][week]) + 1 >>
<1> HIDE DEF h, m
<1>4. /\ (w # week \/ lot # h) => new = old
      /\ w = week /\ lot = h => new = old \cup {new1} /\ new1 \notin old
  <2>1. Appended(demand, demand', m, week, h) /\ m \in Moms /\ week \in Weeks /\ h \in LotIds
        /\ demand \in Buckets /\ w \in Weeks
    BY <1>1, <1>2, <1>3
  <2>2. SpotGained(demand, demand', m, week, h, w, lot)
    BY <2>1, SpotsAppend
  <2> QED
    BY <2>2 DEF SpotGained
<1>5. /\ IsFiniteSet(old)
      /\ Cardinality(old) + WaitingCopies(w, lot) = DueCopies(w, lot)
      /\ \A spot \in old : spot[1] = Chosen(lot)
  BY <1>2 DEF AllocatedInv, Allocating, Counted
<1>6. Chosen(lot)' = Chosen(lot)
  BY <1>2 DEF Chosen, Candidates
<1>7. Copies(queue, lot) = Copies(Tail(queue), lot) + IF h = lot THEN 1 ELSE 0
  BY <1>2, CopiesTail DEF h
<1>8. Copies(queue, lot) \in Nat /\ Copies(Tail(queue), lot) \in Nat
  BY <1>2, <1>3, PositionsFinite
<1>9. Cardinality(old) \in Nat
  BY <1>5, FS_CardinalityType
<1>10. DueCopies(w, lot)' = DueCopies(w, lot)
  BY <1>2 DEF DueCopies
<1> HIDE DEF old, new, new1
<1>11. CASE w = week /\ lot = h
  <2>1. IsFiniteSet(new) /\ Cardinality(new) = Cardinality(old) + 1
    BY <1>4, <1>5, <1>11, FS_AddElement
  <2>2. \A spot \in new : spot[1] = Chosen(lot)
    BY <1>4, <1>5, <1>11 DEF new1, m
  <2>3. /\ WaitingCopies(w, lot) = Copies(Tail(queue), lot) + 1
        /\ WaitingCopies(w, lot)' = Copies(Tail(queue), lot)
    BY <1>1, <1>2, <1>7, <1>11 DEF WaitingCopies
  <2>4. Cardinality(new) + WaitingCopies(w, lot)' = DueCopies(w, lot)
    BY <1>5, <1>8, <1>9, <2>1, <2>3
  <2> QED
    BY <1>6, <1>10, <2>1, <2>2, <2>4 DEF Counted, new
<1>12. CASE w # week \/ lot # h
  <2>1. new = old
    BY <1>4, <1>12
  <2>2. w = week => Copies(Tail(queue), lot) = Copies(queue, lot)
    BY <1>7, <1>8, <1>12
  <2>3. WaitingCopies(w, lot)' = WaitingCopies(w, lot)
    BY <1>2, <2>2 DEF WaitingCopies
  <2> QED
    BY <1>5, <1>6, <1>10, <2>1, <2>3 DEF Counted, new, old
<1> QED
  BY <1>11, <1>12

LEMMA NextAllocateWeekCounts ==
  ASSUME TypeOK, AllocatedInv, NextAllocateWeek PROVE AllocatedInv'
<1> SUFFICES ASSUME setting.clear, NEW w \in 0 .. setting.span - 1, NEW lot \in LotIds
             PROVE  Counted(w, lot)'
  BY DEF AllocatedInv, NextAllocateWeek, tree
<1>1. /\ setting.span \in 0 .. NWeeks /\ NWeeks \in Nat \ {0} /\ w \in Weeks /\ week \in Weeks
      /\ week \in Nat /\ w \in Nat /\ w < setting.span /\ setting.span \in Nat
  BY NWeeksAssumption DEF TypeOK, IsSetting, Weeks
<1>2. phase = "allocate" /\ queue = << >> /\ UNCHANGED << setting, demand >>
  BY DEF NextAllocateWeek, tree
<1>3. Counted(w, lot)
  BY <1>2 DEF AllocatedInv, Allocating
<1>4. Chosen(lot)' = Chosen(lot)
  BY <1>2 DEF Chosen, Candidates
<1>5. WaitingCopies(w, lot) = 0
  BY <1>2, CopiesOfNone DEF WaitingCopies
<1>6. Copies(setting.source[w], lot) \in Nat
  BY <1>1, PositionsFinite DEF TypeOK, IsSetting
<1>7. WaitingCopies(w, lot)' = DueCopies(w, lot)' - DueCopies(w, lot) /\ DueCopies(w, lot)' \in Nat
      /\ DueCopies(w, lot) \in Nat
  <2>1. CASE week + 1 < setting.span
    <3>1. week' = week + 1 /\ queue' = setting.source[week + 1] /\ phase' = "allocate"
      BY <1>2, <2>1 DEF NextAllocateWeek
    <3> QED
      BY <1>1, <1>2, <1>6, <3>1 DEF WaitingCopies, DueCopies
  <2>2. CASE ~ (week + 1 < setting.span)
    <3>1. phase' = "allocated" /\ ~ (w > week)
      BY <1>1, <2>2 DEF NextAllocateWeek
    <3> QED
      BY <1>2, <1>6, <3>1 DEF WaitingCopies, DueCopies
  <2> QED
    BY <2>1, <2>2
<1>8. Cardinality(Spots(demand, {w}, lot)) \in Nat
  BY <1>3, FS_CardinalityType DEF Counted
<1>9. Cardinality(Spots(demand, {w}, lot)) + WaitingCopies(w, lot)' = DueCopies(w, lot)'
  BY <1>3, <1>5, <1>7, <1>8 DEF Counted
<1> QED
  BY <1>2, <1>3, <1>4, <1>9 DEF Counted

LEMMA AllocationCounts ==
  ASSUME TypeOK, AllocatedInv, [Next]_vars PROVE AllocatedInv'
<1>1. CASE Allocate
  BY <1>1, AllocateCounts
<1>2. CASE AllocateLot
  BY <1>2, AllocateLotCounts
<1>3. CASE NextAllocateWeek
  BY <1>3, NextAllocateWeekCounts
<1>4. CASE Level \/ WithinCapacity \/ SplitWeek \/ MoveLot \/ BacklogLot \/ EndWeek \/ WriteBack
  <2>1. ~ Allocating'
    BY <1>4 DEF Level, WithinCapacity, SplitWeek, MoveLot, BacklogLot, EndWeek, WriteBack,
                NextWeek, Allocating
  <2> QED
    BY <2>1 DEF AllocatedInv
<1>5. CASE UNCHANGED vars
  <2>1. UNCHANGED << setting, demand, phase, week, queue >>
    BY <1>5 DEF vars
  <2>2. \A w, lot : Counted(w, lot)' <=> Counted(w, lot)
    BY <2>1 DEF Counted, WaitingCopies, DueCopies, Chosen, Candidates
  <2> QED
    BY <2>1, <2>2 DEF AllocatedInv, Allocating
<1> QED
  BY <1>1, <1>2, <1>3, <1>4, <1>5 DEF Next

----------------------------------------------------------------------------
(* Where the leveling has each lot that it found once: at the MOM that     *)
(* lot_to_final_mom names, waiting to be moved, or nowhere.                *)

At(b, lot, m, w, k) ==
  m \in Moms /\ w \in Horizon /\ k \in DOMAIN b[m][w] /\ b[m][w][k] = lot

Single(b, lot, m, w) ==
  \E k : /\ At(b, lot, m, w, k)
         /\ \A n, v, j : At(b, lot, n, v, j) => n = m /\ v = w /\ j = k

Nowhere(b, lot) == \A n, v, j : ~ At(b, lot, n, v, j)

LEMMA SpotsAre ==
  ASSUME NEW b, NEW lot
  PROVE  \A x : x \in Spots(b, Horizon, lot) <=> \E m, w, k : At(b, lot, m, w, k) /\ x = << m, w, k >>
<1>1. \A x : x \in Spots(b, Horizon, lot) <=> IsSpot(b, Horizon, lot, x)
  BY SpotsMembers
<1> QED
  BY <1>1 DEF IsSpot, At

LEMMA NowhereIs ==
  ASSUME NEW b, NEW lot PROVE Spots(b, Horizon, lot) = {} <=> Nowhere(b, lot)
<1>1. \A x : x \in Spots(b, Horizon, lot) <=> \E m, w, k : At(b, lot, m, w, k) /\ x = << m, w, k >>
  BY SpotsAre
<1>2. ASSUME Spots(b, Horizon, lot) = {}, NEW m, NEW w, NEW k, At(b, lot, m, w, k) PROVE FALSE
  <2>1. << m, w, k >> \in Spots(b, Horizon, lot)
    BY <1>1, <1>2
  <2> QED
    BY <1>2, <2>1
<1>3. ASSUME Nowhere(b, lot) PROVE Spots(b, Horizon, lot) = {}
  BY <1>1, <1>3 DEF Nowhere
<1> QED
  BY <1>2, <1>3 DEF Nowhere

LEMMA SingleIs ==
  ASSUME NEW b, NEW lot, NEW m \in Moms, NEW w \in Horizon
  PROVE  OnlyAt(b, lot, m, w) <=> Single(b, lot, m, w)
<1>1. \A x : x \in Spots(b, Horizon, lot) <=> \E n, v, j : At(b, lot, n, v, j) /\ x = << n, v, j >>
  BY SpotsAre
<1>2. \A n, v, j : At(b, lot, n, v, j) => << n, v, j >> \in Spots(b, Horizon, lot)
  BY <1>1
<1>3. ASSUME OnlyAt(b, lot, m, w) PROVE Single(b, lot, m, w)
  <2>1. PICK k \in Positions(b[m][w], lot) : Spots(b, Horizon, lot) = {<< m, w, k >>}
    BY <1>3 DEF OnlyAt
  <2>2. At(b, lot, m, w, k)
    BY DEF At, Positions
  <2>3. ASSUME NEW n, NEW v, NEW j, At(b, lot, n, v, j) PROVE n = m /\ v = w /\ j = k
    <3>1. << n, v, j >> = << m, w, k >>
      BY <1>2, <2>1, <2>3
    <3> QED
      BY <3>1
  <2> QED
    BY <2>2, <2>3 DEF Single
<1>4. ASSUME Single(b, lot, m, w) PROVE OnlyAt(b, lot, m, w)
  <2>1. PICK k : /\ At(b, lot, m, w, k)
                 /\ \A n, v, j : At(b, lot, n, v, j) => n = m /\ v = w /\ j = k
    BY <1>4 DEF Single
  <2>2. k \in Positions(b[m][w], lot)
    BY <2>1 DEF At, Positions
  <2>3. \A x \in Spots(b, Horizon, lot) : x = << m, w, k >>
    BY <1>1, <2>1
  <2>4. Spots(b, Horizon, lot) = {<< m, w, k >>}
    BY <1>2, <2>1, <2>3
  <2> QED
    BY <2>2, <2>4 DEF OnlyAt
<1> QED
  BY <1>3, <1>4

Queued(lot) == phase = "spill" /\ Holds(queue, lot)

QueuedOnce(lot) ==
  \A i, j \in DOMAIN queue : queue[i] = lot /\ queue[j] = lot => i = j

Kept(lot, w) ==
  final[lot] \in Moms /\ Single(adjusted, lot, final[lot], w) /\ ~ Queued(lot)

Waits(lot, m, w) ==
  /\ Queued(lot) /\ QueuedOnce(lot) /\ Nowhere(adjusted, lot)
  /\ m = mom /\ w = week /\ final[lot] = m

Gone(lot) ==
  final[lot] = NoMom /\ Nowhere(adjusted, lot) /\ ~ Queued(lot)

FinalInv ==
  Leveled =>
    \A lot \in LotIds : \A m, w : Single(given, lot, m, w) =>
      Kept(lot, w) \/ Waits(lot, m, w) \/ Gone(lot)

(* A week still to be leveled takes guests only while it has room.         *)
GuestInv ==
  Leveling => \A m \in Moms, w \in Horizon :
    ~ Done(m, w) => adjusted[m][w] = given[m][w] \/ Len(adjusted[m][w]) <= CapOf(m, w)

(* The week whose rest is placed is full.                                  *)
SpillInv ==
  phase = "spill" /\ CapOf(mom, week) >= 0 => Len(adjusted[mom][week]) >= CapOf(mom, week)

WrittenInv ==
  phase = "leveled" => \A m \in Moms, w \in Horizon : demand[m][w] = adjusted[m][w]

LevelInvs == Inv /\ FinalInv /\ GuestInv /\ SpillInv /\ WrittenInv

LEMMA HorizonWeeks ==
  ASSUME TypeOK
  PROVE  /\ Horizon \subseteq Weeks
         /\ \A w \in Horizon : w < setting.horizon
         /\ \A w \in Weeks : w < setting.horizon => w \in Horizon
<1>1. setting.horizon \in 0 .. NWeeks /\ NWeeks \in Nat \ {0}
  BY NWeeksAssumption DEF TypeOK, IsSetting
<1> QED
  BY <1>1 DEF Horizon, Weeks

(* A step that leaves the buckets of the leveling alone and no lot waiting *)
(* when there was none waiting.                                            *)
LEMMA BucketsAlone ==
  ASSUME UNCHANGED << setting, adjusted, final, given >>, FinalInv, Leveled,
         phase' # "spill", \A lot : ~ Queued(lot)
  PROVE  FinalInv'
<1>1. \A lot, m, w : Single(given, lot, m, w)' <=> Single(given, lot, m, w)
  BY DEF Single, At, Horizon
<1>2. \A lot, m, w : Single(adjusted, lot, m, w)' <=> Single(adjusted, lot, m, w)
  BY DEF Single, At, Horizon
<1>3. \A lot : Nowhere(adjusted, lot)' <=> Nowhere(adjusted, lot)
  BY DEF Nowhere, At, Horizon
<1>4. \A lot : ~ Queued(lot)'
  BY DEF Queued
<1>5. \A lot, w : Kept(lot, w) => Kept(lot, w)'
  BY <1>2, <1>4 DEF Kept
<1>6. \A lot : Gone(lot) => Gone(lot)'
  BY <1>3, <1>4 DEF Gone
<1> QED
  BY <1>1, <1>5, <1>6 DEF FinalInv, Waits

LEMMA LevelStarts ==
  ASSUME Inv, Level PROVE FinalInv' /\ GuestInv' /\ SpillInv' /\ WrittenInv'
<1>1. /\ given' = demand /\ adjusted' = demand /\ setting' = setting
      /\ final' = [l \in LotIds |-> PrimaryMom(l)]
      /\ phase' \in {"level", "write"}
  BY DEF Level, tree
<1>2. ASSUME NEW lot \in LotIds, NEW m, NEW w, Single(given, lot, m, w)'
      PROVE  Kept(lot, w)'
  <2>1. PICK k : /\ At(given, lot, m, w, k)'
                 /\ \A n, v, j : At(given, lot, n, v, j)' => n = m /\ v = w /\ j = k
    BY <1>2 DEF Single
  <2>2. /\ m \in Moms /\ w \in Weeks /\ w < setting.horizon
        /\ k \in DOMAIN demand[m][w] /\ demand[m][w][k] = lot
    BY <1>1, <2>1, HorizonWeeks DEF At, Horizon, Inv
  <2>3. \A n \in Moms, v \in Weeks : \A j \in DOMAIN demand[n][v] :
          v < setting.horizon /\ demand[n][v][j] = lot => n = m
    BY <1>1, <2>1, HorizonWeeks DEF At, Horizon, Inv
  <2>4. PrimaryMom(lot) = m
    <3> DEFINE has == { n \in Moms : \E v \in Weeks :
                          v < setting.horizon
                          /\ \E j \in DOMAIN demand[n][v] : demand[n][v][j] = lot }
    <3>1. has = {m}
      BY <2>2, <2>3
    <3>2. (CHOOSE n \in has : \A o \in has : o <= n) = m
      <4>1. m <= m
        BY <2>2 DEF Moms
      <4> HIDE DEF has
      <4> QED
        BY <3>1, <4>1
    <3> QED
      BY <3>1, <3>2 DEF PrimaryMom
  <2>5. Single(adjusted, lot, m, w)'
    BY <1>1, <1>2 DEF Single, At
  <2>6. final'[lot] = m
    BY <1>1, <2>4
  <2> QED
    BY <1>1, <2>2, <2>5, <2>6 DEF Kept, Queued
<1>3. GuestInv'
  BY <1>1 DEF GuestInv
<1> QED
  BY <1>1, <1>2, <1>3 DEF FinalInv, SpillInv, WrittenInv

LEMMA AdvanceFinal ==
  ASSUME LevelInvs, WithinCapacity \/ EndWeek
  PROVE  FinalInv' /\ GuestInv' /\ SpillInv' /\ WrittenInv'
<1>1. /\ UNCHANGED << setting, adjusted, final, given >>
      /\ phase \in {"level", "spill"} /\ NextWeek
      /\ phase = "spill" => queue = << >>
  BY DEF WithinCapacity, EndWeek, tree, result
<1>2. /\ phase' \in {"level", "write"}
      /\ \A m \in Moms, w \in Weeks : w < setting.horizon =>
           (Done(m, w)' <=> Done(m, w) \/ (m = mom /\ w = week))
  BY <1>1, NextWeekAdvances DEF LevelInvs, Inv
<1>3. \A lot : ~ Queued(lot)
  BY <1>1 DEF Queued, Holds
<1>4. FinalInv'
  BY <1>1, <1>2, <1>3, BucketsAlone DEF LevelInvs, Leveled, Leveling
<1>5. GuestInv'
  <2> SUFFICES ASSUME NEW m \in Moms, NEW w \in Horizon, ~ Done(m, w)'
               PROVE  adjusted[m][w] = given[m][w] \/ Len(adjusted[m][w]) <= CapOf(m, w)
    BY <1>1, CapStays DEF GuestInv, Horizon, CapOf
  <2>1. w \in Weeks /\ w < setting.horizon
    BY HorizonWeeks DEF LevelInvs, Inv
  <2>2. ~ Done(m, w)
    BY <1>2, <2>1
  <2> QED
    BY <1>1, <2>2 DEF LevelInvs, GuestInv, Leveling
<1> QED
  BY <1>2, <1>4, <1>5 DEF SpillInv, WrittenInv

LEMMA SpillProperties ==
  ASSUME NEW q \in Seq(LotIds), NEW n \in Int
  PROVE  /\ Bound(q, n) \in 0 .. Len(q) /\ Len(q) \in Nat /\ DOMAIN q = 1 .. Len(q)
         /\ DOMAIN Keep(q, n) = 1 .. Bound(q, n)
         /\ \A k \in 1 .. Bound(q, n) : Keep(q, n)[k] = q[k]
         /\ DOMAIN Spill(q, n) = 1 .. Len(q) - Bound(q, n)
         /\ \A k \in 1 .. Len(q) - Bound(q, n) : Spill(q, n)[k] = q[Bound(q, n) + k]
<1> DEFINE b == Bound(q, n)
<1>1. b \in 0 .. Len(q) /\ Len(q) \in Nat /\ DOMAIN q = 1 .. Len(q)
  BY BoundType
<1>2. /\ Keep(q, n) \in Seq(LotIds) /\ Len(Keep(q, n)) = b
      /\ \A k \in 1 .. b : Keep(q, n)[k] = q[k]
  BY KeepProperties
<1> HIDE DEF b
<1>3. \A i \in b + 1 .. Len(q) : q[i] \in LotIds
  BY <1>1
<1>4. /\ SubSeq(q, b + 1, Len(q)) \in Seq(LotIds)
      /\ Len(SubSeq(q, b + 1, Len(q))) = Len(q) - b
      /\ \A k \in 1 .. Len(q) - b : SubSeq(q, b + 1, Len(q))[k] = q[b + k]
  <2>1. b + 1 \in Int /\ Len(q) \in Int /\ Len(q) - (b + 1) + 1 = Len(q) - b
    BY <1>1
  <2>2. \A k \in 1 .. Len(q) - b : b + 1 + k - 1 = b + k
    BY <1>1
  <2> DEFINE l == Len(q)
  <2> HIDE DEF l
  <2>3. l \in Int /\ b + 1 \in Int /\ \A i \in b + 1 .. l : q[i] \in LotIds
    BY <1>1, <1>3 DEF l
  <2>4. /\ SubSeq(q, b + 1, l) \in Seq(LotIds)
        /\ Len(SubSeq(q, b + 1, l)) = IF b + 1 <= l THEN l - (b + 1) + 1 ELSE 0
        /\ \A k \in 1 .. l - (b + 1) + 1 : SubSeq(q, b + 1, l)[k] = q[b + 1 + k - 1]
    BY <2>3, SubSeqProperties
  <2>5. (IF b + 1 <= l THEN l - (b + 1) + 1 ELSE 0) = l - b /\ l - (b + 1) + 1 = l - b
    <3>1. l \in Nat /\ b \in 0 .. l
      BY <1>1 DEF l
    <3>2. CASE b + 1 <= l
      BY <3>1, <3>2
    <3>3. CASE ~ (b + 1 <= l)
      BY <3>1, <3>3
    <3> QED
      BY <3>2, <3>3
  <2> QED
    BY <2>2, <2>4, <2>5 DEF l
<1>5. Spill(q, n) = SubSeq(q, b + 1, Len(q))
  BY DEF Spill, b
<1> QED
  BY <1>1, <1>2, <1>4, <1>5 DEF b

LEMMA SplitFinal ==
  ASSUME LevelInvs, SplitWeek
  PROVE  FinalInv' /\ GuestInv' /\ SpillInv' /\ WrittenInv'
<1> DEFINE adj == adjusted[mom][week]  cap == CapOf(mom, week)  n == Bound(adj, cap)
<1>1. /\ mom \in Moms /\ week \in Weeks /\ week < setting.horizon /\ week \in Horizon
      /\ adj \in Seq(LotIds) /\ cap \in Int /\ adjusted \in Buckets /\ Len(adj) > cap
  BY CapType, HorizonWeeks DEF SplitWeek, LevelInvs, Inv, TypeOK, Buckets
<1>2. UNCHANGED << setting, mom, week, final, given >>
      /\ phase = "level" /\ phase' = "spill"
      /\ queue' = Spill(adj, cap)
      /\ adjusted' = [adjusted EXCEPT ![mom][week] = Keep(adj, cap)]
  BY DEF SplitWeek, tree, result
<1>3. /\ n \in 0 .. Len(adj) /\ Len(adj) \in Nat /\ DOMAIN adj = 1 .. Len(adj)
      /\ DOMAIN Keep(adj, cap) = 1 .. n
      /\ \A k \in 1 .. n : Keep(adj, cap)[k] = adj[k]
      /\ DOMAIN queue' = 1 .. Len(adj) - n
      /\ \A k \in 1 .. Len(adj) - n : queue'[k] = adj[n + k]
  BY <1>1, <1>2, SpillProperties
<1>4. /\ adjusted'[mom][week] = Keep(adj, cap)
      /\ \A o \in Moms, v \in Weeks :
           o # mom \/ v # week => adjusted'[o][v] = adjusted[o][v]
  <2> DEFINE q == Keep(adj, cap)
  <2>1. q \in Seq(LotIds)
    BY <1>1, KeepProperties
  <2>2. adjusted' = [adjusted EXCEPT ![mom][week] = q]
    BY <1>2
  <2> HIDE DEF q
  <2>3. /\ adjusted'[mom][week] = q
        /\ \A o \in Moms, v \in Weeks :
             o # mom \/ v # week => adjusted'[o][v] = adjusted[o][v]
    BY <1>1, <2>1, <2>2 DEF Buckets
  <2> QED
    BY <2>3 DEF q
<1> DEFINE cut == Keep(adj, cap)
<1> HIDE DEF adj, cap, n, cut
<1>5. ~ Done(mom, week)
  BY <1>1, <1>2 DEF Done, Moms, Weeks
<1>6. adj = given[mom][week]
  <2>1. adj = given[mom][week] \/ Len(adj) <= cap
    BY <1>1, <1>2, <1>5 DEF LevelInvs, GuestInv, Leveling, adj, cap
  <2> QED
    BY <1>1, <1>3, <2>1
<1>7. Horizon' = Horizon /\ Horizon \subseteq Weeks
  BY <1>2, HorizonWeeks DEF Horizon, LevelInvs, Inv
(* What was where before is there still, unless it was cut.                *)
<1>8. \A lot, o, v, k :
        At(adjusted, lot, o, v, k)' <=>
          At(adjusted, lot, o, v, k) /\ (o = mom /\ v = week => k <= n)
  <2> SUFFICES ASSUME NEW lot, NEW o, NEW v, NEW k
               PROVE  At(adjusted, lot, o, v, k)' <=>
                        At(adjusted, lot, o, v, k) /\ (o = mom /\ v = week => k <= n)
    OBVIOUS
  <2>1. CASE o = mom /\ v = week
    <3>1. k \in DOMAIN adjusted'[o][v] <=> k \in DOMAIN adj /\ k <= n
      BY <1>3, <1>4, <2>1 DEF cut
    <3>2. k \in 1 .. n => adjusted'[o][v][k] = adj[k]
      BY <1>3, <1>4, <2>1 DEF cut
    <3>3. adjusted[o][v] = adj
      BY <2>1 DEF adj
    <3>4. k \in DOMAIN adj /\ k <= n <=> k \in 1 .. n
      BY <1>3
    <3> QED
      BY <1>1, <1>7, <2>1, <3>1, <3>2, <3>3, <3>4 DEF At
  <2>2. CASE ~ (o = mom /\ v = week)
    BY <1>4, <1>7, <2>2 DEF At
  <2> QED
    BY <2>1, <2>2
<1>9. \A lot : Queued(lot)' <=> \E k \in n + 1 .. Len(adj) : adj[k] = lot
  <2>1. ASSUME NEW lot, Queued(lot)' PROVE \E k \in n + 1 .. Len(adj) : adj[k] = lot
    <3>1. PICK i \in 1 .. Len(adj) - n : queue'[i] = lot
      BY <1>3, <2>1 DEF Queued, Holds
    <3>2. n + i \in n + 1 .. Len(adj)
      BY <1>3
    <3> QED
      BY <1>3, <3>1, <3>2
  <2>2. ASSUME NEW lot, NEW k \in n + 1 .. Len(adj), adj[k] = lot PROVE Queued(lot)'
    <3>1. k - n \in 1 .. Len(adj) - n /\ n + (k - n) = k
      BY <1>3
    <3>2. queue'[k - n] = lot
      BY <1>3, <2>2, <3>1
    <3> QED
      BY <1>2, <1>3, <3>1, <3>2 DEF Queued, Holds
  <2> QED
    BY <2>1, <2>2
<1>10. ASSUME NEW lot \in LotIds, NEW m, NEW w, Single(given, lot, m, w)'
       PROVE  Kept(lot, w)' \/ Waits(lot, m, w)' \/ Gone(lot)'
  <2>1. Single(given, lot, m, w)
    BY <1>2, <1>7, <1>10 DEF Single, At
  <2>2. ~ Queued(lot)
    BY <1>2 DEF Queued
  <2>3. Kept(lot, w) \/ Gone(lot)
    BY <1>2, <2>1, <2>2 DEF LevelInvs, FinalInv, Leveled, Leveling, Waits
  <2>4. \A k \in DOMAIN adj : adj[k] = lot => At(adjusted, lot, mom, week, k)
    BY <1>1 DEF At, adj
  <2>5. CASE Gone(lot)
    <3>1. Nowhere(adjusted, lot)'
      BY <1>8, <2>5 DEF Gone, Nowhere
    <3>2. ~ Queued(lot)'
      <4>1. \A k \in n + 1 .. Len(adj) : k \in DOMAIN adj
        BY <1>3
      <4> QED
        BY <1>9, <2>4, <2>5, <4>1 DEF Gone, Nowhere
    <3> QED
      BY <1>2, <2>5, <3>1, <3>2 DEF Gone
  <2>6. CASE Kept(lot, w)
    <3>1. PICK k : /\ At(adjusted, lot, final[lot], w, k)
                   /\ \A o, v, j : At(adjusted, lot, o, v, j) => o = final[lot] /\ v = w /\ j = k
      BY <2>6 DEF Kept, Single
    <3>2. CASE final[lot] = mom /\ w = week /\ ~ (k <= n)
      <4>1. Nowhere(adjusted, lot)'
        BY <1>8, <3>1, <3>2 DEF Nowhere
      <4>2. k \in DOMAIN adj /\ adj[k] = lot
        BY <3>1, <3>2 DEF At, adj
      <4>3. k \in n + 1 .. Len(adj)
        BY <1>3, <3>2, <4>2
      <4>4. Queued(lot)'
        BY <1>9, <4>2, <4>3
      <4>5. QueuedOnce(lot)'
        <5> SUFFICES ASSUME NEW i \in DOMAIN queue', NEW j \in DOMAIN queue',
                            queue'[i] = lot, queue'[j] = lot
                     PROVE  i = j
          BY DEF QueuedOnce
        <5>1. n + i \in DOMAIN adj /\ n + j \in DOMAIN adj /\ i \in Int /\ j \in Int /\ n \in Int
          BY <1>3
        <5>2. adj[n + i] = lot /\ adj[n + j] = lot
          BY <1>3
        <5>3. n + i = n + j
          BY <2>4, <3>1, <5>1, <5>2
        <5>4. \A a, b, c \in Int : a + b = a + c => b = c
          OBVIOUS
        <5> QED
          BY <5>1, <5>3, <5>4
      <4>6. m = mom
        <5>1. At(given, lot, mom, week, k)
          BY <1>1, <1>6, <4>2 DEF At
        <5> QED
          BY <2>1, <5>1 DEF Single
      <4> QED
        BY <1>2, <3>2, <4>1, <4>4, <4>5, <4>6 DEF Waits
    <3>3. CASE ~ (final[lot] = mom /\ w = week /\ ~ (k <= n))
      <4>1. At(adjusted, lot, final[lot], w, k)'
        BY <1>2, <1>8, <3>1, <3>3
      <4>2. Single(adjusted, lot, final[lot], w)'
        <5>1. \A o, v, j : At(adjusted, lot, o, v, j)' => o = final[lot] /\ v = w /\ j = k
          BY <1>8, <3>1
        <5>2. final' = final
          BY <1>2
        <5>3. \E i : /\ At(adjusted, lot, final[lot], w, i)'
                     /\ \A o, v, j : At(adjusted, lot, o, v, j)' =>
                          o = final'[lot] /\ v = w /\ j = i
          BY <4>1, <5>1, <5>2
        <5> QED
          BY <5>3 DEF Single
      <4>3. ~ Queued(lot)'
        <5> SUFFICES ASSUME NEW j \in n + 1 .. Len(adj), adj[j] = lot PROVE FALSE
          BY <1>9
        <5>1. j \in DOMAIN adj /\ ~ (j <= n)
          BY <1>3
        <5>2. final[lot] = mom /\ w = week /\ j = k
          BY <2>4, <3>1, <5>1
        <5> QED
          BY <3>3, <5>1, <5>2
      <4> QED
        BY <1>2, <2>6, <4>2, <4>3 DEF Kept
    <3> QED
      BY <3>2, <3>3
  <2> QED
    BY <2>3, <2>5, <2>6
<1>11. GuestInv'
  <2> SUFFICES ASSUME NEW m \in Moms, NEW w \in Horizon, ~ Done(m, w)'
               PROVE  adjusted'[m][w] = given[m][w] \/ Len(adjusted'[m][w]) <= CapOf(m, w)
    BY <1>2, <1>7, CapStays DEF GuestInv
  <2>1. w \in Weeks /\ w < setting.horizon
    BY HorizonWeeks DEF LevelInvs, Inv
  <2>2. ~ (m = mom /\ w = week)
    BY <1>2, <2>1 DEF Done
  <2>3. ~ Done(m, w)
    BY <1>2, <2>2 DEF Done
  <2>4. adjusted[m][w] = given[m][w] \/ Len(adjusted[m][w]) <= CapOf(m, w)
    BY <1>2, <2>3 DEF LevelInvs, GuestInv, Leveling
  <2> QED
    BY <1>4, <2>1, <2>2, <2>4
<1>12. SpillInv'
  <2>1. Len(adjusted'[mom][week]) = n
    BY <1>1, <1>4, KeepProperties DEF n, cut
  <2>2. cap >= 0 => n >= cap
    BY <1>1, <1>3 DEF n, Bound
  <2>3. CapOf(mom, week)' = cap
    BY <1>2, CapStays DEF cap
  <2> QED
    BY <1>2, <2>1, <2>2, <2>3 DEF SpillInv
<1> QED
  BY <1>2, <1>10, <1>11, <1>12 DEF FinalInv, WrittenInv

(* The head of the queue is a lot that was found once or not at all once.  *)
LEMMA QueueTail ==
  ASSUME NEW q \in Seq(LotIds), q # << >>, NEW lot
  PROVE  /\ Head(q) \in LotIds /\ Head(q) = q[1] /\ 1 \in DOMAIN q
         /\ Tail(q) \in Seq(LotIds)
         /\ \A k \in DOMAIN Tail(q) : k + 1 \in DOMAIN q /\ Tail(q)[k] = q[k + 1] /\ k + 1 # 1
         /\ Holds(q, lot) <=> Head(q) = lot \/ Holds(Tail(q), lot)
<1>1. /\ Tail(q) \in Seq(LotIds) /\ Len(q) \in Nat \ {0}
      /\ DOMAIN q = 1 .. Len(q) /\ DOMAIN Tail(q) = 1 .. Len(q) - 1
      /\ \A k \in 1 .. Len(q) - 1 : Tail(q)[k] = q[k + 1]
      /\ Head(q) = q[1] /\ Head(q) \in LotIds
  BY HeadTailProperties
<1>2. \A k \in DOMAIN Tail(q) : k + 1 \in DOMAIN q /\ Tail(q)[k] = q[k + 1] /\ k + 1 # 1
  BY <1>1
<1>3. 1 \in DOMAIN q
  BY <1>1
<1>4. ASSUME NEW k \in DOMAIN q, k # 1, q[k] = lot PROVE Holds(Tail(q), lot)
  <2>1. k - 1 \in 1 .. Len(q) - 1 /\ (k - 1) + 1 = k
    BY <1>1, <1>4
  <2>2. Tail(q)[k - 1] = lot
    BY <1>1, <1>4, <2>1
  <2> QED
    BY <1>1, <2>1, <2>2 DEF Holds
<1>5. Holds(q, lot) <=> Head(q) = lot \/ Holds(Tail(q), lot)
  BY <1>1, <1>2, <1>3, <1>4 DEF Holds
<1> QED
  BY <1>1, <1>2, <1>3, <1>5

(* What a step that takes the first lot from the queue leaves of the       *)
(* others.                                                                 *)
LEMMA OthersStay ==
  ASSUME TypeOK, phase = "spill", phase' = "spill", queue # << >>, queue' = Tail(queue),
         UNCHANGED << setting, mom, week, given >>,
         NEW lot \in LotIds, lot # Head(queue), final'[lot] = final[lot],
         \A m, w, k : At(adjusted, lot, m, w, k)' <=> At(adjusted, lot, m, w, k)
  PROVE  /\ Queued(lot)' <=> Queued(lot)
         /\ \A w : Kept(lot, w) => Kept(lot, w)'
         /\ \A m, w : Waits(lot, m, w) => Waits(lot, m, w)'
         /\ Gone(lot) => Gone(lot)'
<1>1. queue \in Seq(LotIds)
  BY DEF TypeOK
<1>2. Queued(lot)' <=> Queued(lot)
  BY <1>1, QueueTail DEF Queued
<1>3. QueuedOnce(lot) => QueuedOnce(lot)'
  <2> SUFFICES ASSUME QueuedOnce(lot), NEW i \in DOMAIN Tail(queue), NEW j \in DOMAIN Tail(queue),
                      Tail(queue)[i] = lot, Tail(queue)[j] = lot
               PROVE  i = j
    BY DEF QueuedOnce
  <2>1. /\ i + 1 \in DOMAIN queue /\ queue[i + 1] = lot
        /\ j + 1 \in DOMAIN queue /\ queue[j + 1] = lot
    BY <1>1, QueueTail
  <2>2. i + 1 = j + 1
    BY <2>1 DEF QueuedOnce
  <2>3. i \in Int /\ j \in Int
    <3>1. Tail(queue) \in Seq(LotIds)
      BY <1>1, QueueTail
    <3> QED
      BY <3>1
  <2> QED
    BY <2>2, <2>3
<1>4. \A m, w : Single(adjusted, lot, m, w) => Single(adjusted, lot, m, w)'
  BY DEF Single
<1>5. Nowhere(adjusted, lot) => Nowhere(adjusted, lot)'
  BY DEF Nowhere
<1>6. \A w : Kept(lot, w) => Kept(lot, w)'
  <2> SUFFICES ASSUME NEW w, Kept(lot, w) PROVE Kept(lot, w)'
    OBVIOUS
  <2>1. Single(adjusted, lot, final[lot], w)'
    <3> DEFINE m == final[lot]
    <3>1. Single(adjusted, lot, m, w)
      BY DEF Kept
    <3>2. PICK k : /\ At(adjusted, lot, m, w, k)
                   /\ \A o, v, j : At(adjusted, lot, o, v, j) => o = m /\ v = w /\ j = k
      BY <3>1 DEF Single
    <3>3. m' = m
      OBVIOUS
    <3> HIDE DEF m
    <3>4. At(adjusted, lot, m, w, k)'
      BY <3>2, <3>3
    <3>5. \A o, v, j : At(adjusted, lot, o, v, j)' => o = m' /\ v = w /\ j = k
      BY <3>2, <3>3
    <3>6. Single(adjusted, lot, m, w)'
      BY <3>4, <3>5 DEF Single
    <3> QED
      BY <3>6 DEF m
  <2> QED
    BY <1>2, <2>1 DEF Kept
<1>7. \A m, w : Waits(lot, m, w) => Waits(lot, m, w)'
  BY <1>2, <1>3, <1>5 DEF Waits
<1>8. Gone(lot) => Gone(lot)'
  BY <1>2, <1>5 DEF Gone
<1> QED
  BY <1>2, <1>6, <1>7, <1>8

(* The first lot of the queue is nowhere in the buckets and waits once.    *)
LEMMA HeadWaits ==
  ASSUME LevelInvs, phase = "spill", queue # << >>, NEW m, NEW w,
         Single(given, Head(queue), m, w)
  PROVE  Waits(Head(queue), m, w) /\ Head(queue) \in LotIds
<1>1. queue \in Seq(LotIds)
  BY DEF LevelInvs, Inv, TypeOK
<1>2. Head(queue) \in LotIds /\ Queued(Head(queue))
  BY <1>1, QueueTail DEF Queued
<1> QED
  BY <1>2 DEF LevelInvs, FinalInv, Leveled, Leveling, Kept, Gone

(* Once it has left the queue it waits no more.                            *)
LEMMA HeadLeaves ==
  ASSUME LevelInvs, phase = "spill", queue # << >>, queue' = Tail(queue),
         NEW h, h = Head(queue), QueuedOnce(h)
  PROVE  ~ Queued(h)'
<1>1. queue \in Seq(LotIds)
  BY DEF LevelInvs, Inv, TypeOK
<1>2. \A k \in DOMAIN Tail(queue) : Tail(queue)[k] # h
  <2> SUFFICES ASSUME NEW k \in DOMAIN Tail(queue), Tail(queue)[k] = h PROVE FALSE
    OBVIOUS
  <2>1. k + 1 \in DOMAIN queue /\ queue[k + 1] = h /\ k + 1 # 1 /\ 1 \in DOMAIN queue /\ queue[1] = h
    BY <1>1, QueueTail
  <2> QED
    BY <2>1 DEF QueuedOnce
<1> QED
  BY <1>2 DEF Queued, Holds

LEMMA MoveFinal ==
  ASSUME LevelInvs, MoveLot
  PROVE  FinalInv' /\ GuestInv' /\ SpillInv' /\ WrittenInv'
<1> DEFINE to == Secondary  h == Head(queue)
<1>1. /\ mom \in Moms /\ week \in Weeks /\ week \in Horizon
      /\ to \in Moms \ {mom} /\ Len(adjusted[to][week]) < CapOf(to, week)
      /\ h \in LotIds /\ adjusted \in Buckets /\ final \in [LotIds -> Moms \cup {NoMom, Unknown}]
      /\ queue \in Seq(LotIds) /\ TypeOK
  <2>1. TypeOK /\ queue # << >> /\ phase = "spill" /\ to # NoMom
    BY DEF MoveLot, LevelInvs, Inv
  <2>2. to \in Roomy
    BY <2>1, SecondaryType DEF TypeOK
  <2> QED
    BY <2>1, <2>2, HorizonWeeks, QueueTail DEF TypeOK, Roomy
<1>2. /\ UNCHANGED << setting, mom, week, given >>
      /\ phase = "spill" /\ phase' = "spill" /\ queue # << >> /\ queue' = Tail(queue)
      /\ final' = [final EXCEPT ![h] = to]
      /\ Appended(adjusted, adjusted', to, week, h)
  BY DEF MoveLot, tree, Appended
<1> HIDE DEF to, h
<1>3. /\ \A n \in Moms, v \in Weeks : n # to \/ v # week => adjusted'[n][v] = adjusted[n][v]
      /\ Len(adjusted[to][week]) \in Nat
      /\ DOMAIN adjusted[to][week] = 1 .. Len(adjusted[to][week])
      /\ DOMAIN adjusted'[to][week] = 1 .. Len(adjusted[to][week]) + 1
      /\ Len(adjusted'[to][week]) = Len(adjusted[to][week]) + 1
      /\ adjusted'[to][week][Len(adjusted[to][week]) + 1] = h
      /\ \A k \in DOMAIN adjusted[to][week] : adjusted'[to][week][k] = adjusted[to][week][k]
  <2>1. OneMore(adjusted, adjusted', to, week, h)
    BY <1>1, <1>2, AppendToBucket
  <2> QED
    BY <2>1 DEF OneMore
<1>4. Horizon' = Horizon /\ Horizon \subseteq Weeks /\ \A v \in Horizon : v < setting.horizon
  BY <1>1, <1>2, HorizonWeeks DEF Horizon
<1> DEFINE last == Len(adjusted[to][week]) + 1
<1>5. \A lot, n, v, k :
        At(adjusted, lot, n, v, k)' <=>
          \/ At(adjusted, lot, n, v, k)
          \/ lot = h /\ n = to /\ v = week /\ k = last
  <2> SUFFICES ASSUME NEW lot, NEW n, NEW v, NEW k
               PROVE  At(adjusted, lot, n, v, k)' <=>
                        \/ At(adjusted, lot, n, v, k)
                        \/ lot = h /\ n = to /\ v = week /\ k = last
    OBVIOUS
  <2>1. CASE n = to /\ v = week
    <3>1. k \in DOMAIN adjusted'[n][v] <=> k \in DOMAIN adjusted[n][v] \/ k = last
      BY <1>3, <2>1
    <3>2. last \notin DOMAIN adjusted[n][v]
      BY <1>3, <2>1
    <3> QED
      BY <1>1, <1>3, <1>4, <2>1, <3>1, <3>2 DEF At
  <2>2. CASE ~ (n = to /\ v = week)
    BY <1>3, <1>4, <2>2 DEF At
  <2> QED
    BY <2>1, <2>2
<1> HIDE DEF last
<1>6. \A lot, m, w : Single(given, lot, m, w)' => Single(given, lot, m, w)
  BY <1>2, <1>4 DEF Single, At
<1>7. ASSUME NEW lot \in LotIds, NEW m, NEW w, Single(given, lot, m, w)'
      PROVE  Kept(lot, w)' \/ Waits(lot, m, w)' \/ Gone(lot)'
  <2>1. Single(given, lot, m, w)
    BY <1>6, <1>7
  <2>2. CASE lot = h
    <3>1. Waits(lot, m, w)
      BY <1>2, <2>1, <2>2, HeadWaits DEF h
    <3>2. ~ Queued(lot)'
      BY <1>2, <2>2, <3>1, HeadLeaves DEF h, Waits
    <3>3. final'[lot] = to
      BY <1>1, <1>2, <2>2
    <3>4. PICK o, i : /\ o = to /\ At(adjusted, lot, o, w, i)'
                      /\ \A n, v, j : At(adjusted, lot, n, v, j)' => n = o /\ v = w /\ j = i
      BY <1>5, <2>2, <3>1 DEF Waits, Nowhere
    <3>5. \E k : /\ At(adjusted, lot, final[lot], w, k)'
                 /\ \A n, v, j : At(adjusted, lot, n, v, j)' => n = final'[lot] /\ v = w /\ j = k
      BY <3>3, <3>4
    <3>6. Single(adjusted, lot, final[lot], w)'
      BY <3>5 DEF Single
    <3> QED
      BY <1>1, <3>2, <3>3, <3>6 DEF Kept
  <2>3. CASE lot # h
    <3>1. \A n, v, k : At(adjusted, lot, n, v, k)' <=> At(adjusted, lot, n, v, k)
      BY <1>5, <2>3
    <3>2. final'[lot] = final[lot]
      BY <1>1, <1>2, <2>3
    <3>3. Kept(lot, w) \/ Waits(lot, m, w) \/ Gone(lot)
      BY <1>2, <2>1 DEF LevelInvs, FinalInv, Leveled, Leveling
    <3> QED
      BY <1>1, <1>2, <2>3, <3>1, <3>2, <3>3, OthersStay DEF h
  <2> QED
    BY <2>2, <2>3
<1>8. GuestInv'
  <2> SUFFICES ASSUME NEW m \in Moms, NEW w \in Horizon, ~ Done(m, w)'
               PROVE  adjusted'[m][w] = given[m][w] \/ Len(adjusted'[m][w]) <= CapOf(m, w)
    BY <1>2, <1>4, CapStays DEF GuestInv
  <2>1. ~ Done(m, w)
    BY <1>2, DoneStays
  <2>2. adjusted[m][w] = given[m][w] \/ Len(adjusted[m][w]) <= CapOf(m, w)
    BY <1>2, <2>1 DEF LevelInvs, GuestInv, Leveling
  <2>3. CapOf(to, week) \in Int
    BY <1>1, CapType DEF TypeOK
  <2>4. Len(adjusted'[to][week]) <= CapOf(to, week)
    BY <1>1, <1>3, <2>3
  <2> QED
    BY <1>3, <1>4, <2>2, <2>4
<1>9. SpillInv'
  <2>1. adjusted'[mom][week] = adjusted[mom][week]
    BY <1>1, <1>3
  <2>2. CapOf(mom, week)' = CapOf(mom, week)
    BY <1>2 DEF CapOf
  <2> QED
    BY <1>2, <2>1, <2>2 DEF LevelInvs, SpillInv
<1> QED
  BY <1>2, <1>7, <1>8, <1>9 DEF FinalInv, WrittenInv

LEMMA BacklogFinal ==
  ASSUME LevelInvs, BacklogLot
  PROVE  FinalInv' /\ GuestInv' /\ SpillInv' /\ WrittenInv'
<1> DEFINE h == Head(queue)
<1>1. /\ queue \in Seq(LotIds) /\ queue # << >> /\ TypeOK
      /\ h \in LotIds /\ final \in [LotIds -> Moms \cup {NoMom, Unknown}]
  BY QueueTail DEF BacklogLot, LevelInvs, Inv, TypeOK
<1>2. /\ UNCHANGED << setting, mom, week, given, adjusted >>
      /\ phase = "spill" /\ phase' = "spill" /\ queue' = Tail(queue)
      /\ final' = [final EXCEPT ![h] = NoMom]
  BY DEF BacklogLot, tree
<1> HIDE DEF h
<1>3. \A lot, n, v, k : At(adjusted, lot, n, v, k)' <=> At(adjusted, lot, n, v, k)
  BY <1>2 DEF At, Horizon
<1>4. \A lot, m, w : Single(given, lot, m, w)' => Single(given, lot, m, w)
  BY <1>2 DEF Single, At, Horizon
<1>5. ASSUME NEW lot \in LotIds, NEW m, NEW w, Single(given, lot, m, w)'
      PROVE  Kept(lot, w)' \/ Waits(lot, m, w)' \/ Gone(lot)'
  <2>1. Single(given, lot, m, w)
    BY <1>4, <1>5
  <2>2. CASE lot = h
    <3>1. Waits(lot, m, w)
      BY <1>1, <1>2, <2>1, <2>2, HeadWaits DEF h
    <3>2. ~ Queued(lot)'
      BY <1>1, <1>2, <2>2, <3>1, HeadLeaves DEF h, Waits
    <3>3. final'[lot] = NoMom
      BY <1>1, <1>2, <2>2
    <3>4. Nowhere(adjusted, lot)'
      BY <1>3, <3>1 DEF Waits, Nowhere
    <3> QED
      BY <3>2, <3>3, <3>4 DEF Gone
  <2>3. CASE lot # h
    <3>1. final'[lot] = final[lot]
      BY <1>1, <1>2, <2>3
    <3>2. Kept(lot, w) \/ Waits(lot, m, w) \/ Gone(lot)
      BY <1>2, <2>1 DEF LevelInvs, FinalInv, Leveled, Leveling
    <3> QED
      BY <1>1, <1>2, <1>3, <2>3, <3>1, <3>2, OthersStay DEF h
  <2> QED
    BY <2>2, <2>3
<1>6. GuestInv'
  <2>1. \A m, w : Done(m, w)' <=> Done(m, w)
    BY <1>2, DoneStays
  <2> QED
    BY <1>2, <2>1, CapStays DEF LevelInvs, GuestInv, Leveling, Horizon, CapOf
<1>7. SpillInv'
  BY <1>2 DEF LevelInvs, SpillInv, CapOf
<1> QED
  BY <1>2, <1>5, <1>6, <1>7 DEF FinalInv, WrittenInv

LEMMA WriteFinal ==
  ASSUME LevelInvs, WriteBack
  PROVE  FinalInv' /\ GuestInv' /\ SpillInv' /\ WrittenInv'
<1>1. /\ UNCHANGED << setting, adjusted, final, given >>
      /\ phase = "write" /\ phase' = "leveled"
      /\ demand' = [m \in Moms |-> [w \in Weeks |->
                      IF w < setting.horizon THEN adjusted[m][w] ELSE demand[m][w]]]
  BY DEF WriteBack, result
<1>2. FinalInv'
  BY <1>1, BucketsAlone DEF LevelInvs, Leveled, Leveling, Queued
<1>3. Horizon' = Horizon /\ Horizon \subseteq Weeks /\ \A w \in Horizon : w < setting.horizon
  BY <1>1, HorizonWeeks DEF Horizon, LevelInvs, Inv
<1>4. WrittenInv'
  BY <1>1, <1>3 DEF WrittenInv
<1> QED
  BY <1>1, <1>2, <1>4 DEF GuestInv, SpillInv, Leveling

LEMMA LevelInvariance == Spec => []LevelInvs
<1>1. Init => LevelInvs
  <2>1. Init => Inv
    BY InitInv
  <2> QED
    BY <2>1 DEF Init, LevelInvs, FinalInv, GuestInv, SpillInv, WrittenInv, Leveled, Leveling
<1>2. ASSUME LevelInvs, [Next]_vars, Inv' PROVE LevelInvs'
  <2>1. CASE UNCHANGED vars
    <3>1. UNCHANGED << setting, demand, phase, mom, week, queue, adjusted, final, given >>
      BY <2>1 DEF vars
    <3>2. FinalInv'
      <4>1. \A lot, m, w : Single(given, lot, m, w)' <=> Single(given, lot, m, w)
        BY <3>1 DEF Single, At, Horizon
      <4>2. \A lot, m, w : Waits(lot, m, w) => Waits(lot, m, w)'
        BY <3>1 DEF Waits, Queued, QueuedOnce, Nowhere, At, Horizon
      <4>3. \A lot, w : Kept(lot, w) => Kept(lot, w)'
        BY <3>1 DEF Kept, Queued, Single, At, Horizon
      <4>4. \A lot : Gone(lot) => Gone(lot)'
        BY <3>1 DEF Gone, Queued, Nowhere, At, Horizon
      <4> QED
        BY <1>2, <3>1, <4>1, <4>2, <4>3, <4>4 DEF LevelInvs, FinalInv, Leveled, Leveling
    <3>3. GuestInv' /\ SpillInv' /\ WrittenInv'
      BY <1>2, <3>1 DEF LevelInvs, GuestInv, SpillInv, WrittenInv, Leveling, Done, Horizon, CapOf
    <3> QED
      BY <1>2, <3>2, <3>3 DEF LevelInvs
  <2>2. CASE Allocate \/ AllocateLot \/ NextAllocateWeek
    <3>1. phase' \in {"allocate", "allocated"}
      BY <2>2 DEF Allocate, AllocateLot, NextAllocateWeek
    <3> QED
      BY <1>2, <3>1 DEF LevelInvs, FinalInv, GuestInv, SpillInv, WrittenInv, Leveled, Leveling
  <2>3. CASE Level
    BY <1>2, <2>3, LevelStarts DEF LevelInvs
  <2>4. CASE WithinCapacity \/ EndWeek
    BY <1>2, <2>4, AdvanceFinal DEF LevelInvs
  <2>5. CASE SplitWeek
    BY <1>2, <2>5, SplitFinal DEF LevelInvs
  <2>6. CASE MoveLot
    BY <1>2, <2>6, MoveFinal DEF LevelInvs
  <2>7. CASE BacklogLot
    BY <1>2, <2>7, BacklogFinal DEF LevelInvs
  <2>8. CASE WriteBack
    BY <1>2, <2>8, WriteFinal DEF LevelInvs
  <2> QED
    BY <1>2, <2>1, <2>2, <2>3, <2>4, <2>5, <2>6, <2>7, <2>8 DEF Next
<1>3. Spec => []Inv
  BY Invariance
<1> QED
  BY <1>1, <1>2, <1>3, PTL DEF Spec

----------------------------------------------------------------------------
(* The ledger: the places of the lots are what lot_to_final_mom says.      *)

PlacesAreFinal ==
  Leveled => \A lot \in LotIds : \A m, w : Single(given, lot, m, w) =>
    /\ m \in Moms /\ w \in Horizon /\ LedgerDue[lot] = << m, w >>
    /\ LedgerPlace[lot] = IF final[lot] = NoMom THEN NoSlot ELSE << final[lot], w >>

LEMMA SlotOfSingle ==
  ASSUME TypeOK, NEW b, NEW lot, NEW m, NEW w, Single(b, lot, m, w)
  PROVE  /\ m \in Moms /\ w \in Horizon /\ SlotsOf(b, lot) # {}
         /\ (CHOOSE s \in Slots : s \in SlotsOf(b, lot)) = << m, w >>
<1>1. PICK k : /\ At(b, lot, m, w, k)
               /\ \A n, v, j : At(b, lot, n, v, j) => n = m /\ v = w /\ j = k
  BY DEF Single
<1>2. m \in Moms /\ w \in Horizon /\ w \in Weeks /\ k \in DOMAIN b[m][w] /\ b[m][w][k] = lot
  BY <1>1, HorizonWeeks DEF At
<1>3. << m, w >> \in SlotsOf(b, lot)
  BY <1>2 DEF SlotsOf, Holds
<1>4. \A s \in SlotsOf(b, lot) : s = << m, w >>
  <2> SUFFICES ASSUME NEW n \in Moms, NEW v \in Horizon, Holds(b[n][v], lot)
               PROVE  n = m /\ v = w
    BY DEF SlotsOf
  <2>1. PICK j \in DOMAIN b[n][v] : b[n][v][j] = lot
    BY DEF Holds
  <2>2. At(b, lot, n, v, j)
    BY <2>1 DEF At
  <2> QED
    BY <1>1, <2>2
<1>5. << m, w >> \in Slots
  BY <1>2 DEF Slots
<1> QED
  BY <1>2, <1>3, <1>4, <1>5

LEMMA NoSlotOfNone ==
  ASSUME NEW b, NEW lot, Nowhere(b, lot) PROVE SlotsOf(b, lot) = {}
  BY DEF Nowhere, At, SlotsOf, Holds

LEMMA PlacesHold == LevelInvs => PlacesAreFinal
<1> SUFFICES ASSUME LevelInvs, Leveled, NEW lot \in LotIds, NEW m, NEW w, Single(given, lot, m, w)
             PROVE  /\ m \in Moms /\ w \in Horizon /\ LedgerDue[lot] = << m, w >>
                    /\ LedgerPlace[lot] = IF final[lot] = NoMom THEN NoSlot ELSE << final[lot], w >>
  BY DEF PlacesAreFinal
<1>1. TypeOK
  BY DEF LevelInvs, Inv
<1>2. m \in Moms /\ w \in Horizon /\ LedgerDue[lot] = << m, w >>
  BY <1>1, SlotOfSingle DEF LedgerDue
<1>3. m # NoMom /\ NoMom \notin Moms
  BY <1>2 DEF Moms, NoMom
<1>4. CASE Kept(lot, w)
  <2>1. /\ SlotsOf(adjusted, lot) # {}
        /\ (CHOOSE s \in Slots : s \in SlotsOf(adjusted, lot)) = << final[lot], w >>
    BY <1>1, <1>4, SlotOfSingle DEF Kept
  <2>2. LedgerPlace[lot] = << final[lot], w >>
    BY <1>4, <2>1 DEF LedgerPlace, Kept, Queued
  <2> QED
    BY <1>2, <1>3, <1>4, <2>2 DEF Kept
<1>5. CASE Waits(lot, m, w)
  <2>1. LedgerPlace[lot] = LedgerDue[lot]
    BY <1>5 DEF LedgerPlace, Waits, Queued
  <2> QED
    BY <1>2, <1>3, <1>5, <2>1 DEF Waits
<1>6. CASE Gone(lot)
  <2>1. SlotsOf(adjusted, lot) = {}
    BY <1>6, NoSlotOfNone DEF Gone
  <2>2. LedgerPlace[lot] = NoSlot
    BY <1>6, <2>1 DEF LedgerPlace, Gone, Queued
  <2> QED
    BY <1>2, <1>6, <2>2 DEF Gone
<1> QED
  BY <1>4, <1>5, <1>6 DEF LevelInvs, FinalInv

LEMMA PlacesHoldNext == LevelInvs' => PlacesAreFinal'
  BY PlacesHold, PTL

LotsOf(q) == { l \in LotIds : Holds(q, l) }

(* A list without repetitions has as many lots as it is long.              *)
LEMMA LotsOfList ==
  ASSUME NEW q \in Seq(LotIds), \A i, j \in DOMAIN q : q[i] = q[j] => i = j
  PROVE  IsFiniteSet(LotsOf(q)) /\ Cardinality(LotsOf(q)) = Len(q)
<1> DEFINE D == 1 .. Len(q)
           L == LotsOf(q)
           f == [k \in D |-> q[k]]
<1>1. DOMAIN q = D /\ Len(q) \in Nat /\ \A k \in D : q[k] \in LotIds
  OBVIOUS
<1>2. f \in Bijection(D, L)
  <2>1. \A k \in D : q[k] \in L
    BY <1>1 DEF Holds, LotsOf
  <2>2. \A l \in L : \E k \in D : q[k] = l
    BY <1>1 DEF Holds, LotsOf
  <2> HIDE DEF L, D
  <2>3. f \in [D -> L] /\ \A k \in D : f[k] = q[k]
    BY <2>1
  <2>4. \A i, j \in D : f[i] = f[j] => i = j
    BY <1>1, <2>3
  <2> QED
    BY <2>2, <2>3, <2>4 DEF Bijection, Injection, Surjection, IsInjective
<1>3. IsFiniteSet(D) /\ Cardinality(D) = Len(q)
  <2>1. 1 \in Int /\ Len(q) \in Int
    BY <1>1
  <2>2. IsFiniteSet(D) /\ Cardinality(D) = IF 1 > Len(q) THEN 0 ELSE Len(q) - 1 + 1
    BY <2>1, FS_Interval
  <2>3. (IF 1 > Len(q) THEN 0 ELSE Len(q) - 1 + 1) = Len(q)
    BY <1>1
  <2> QED
    BY <2>2, <2>3
<1> HIDE DEF D, L, f
<1>4. ExistsBijection(D, L)
  BY <1>2 DEF ExistsBijection
<1>5. IsFiniteSet(L) /\ Cardinality(L) = Len(q)
  BY <1>3, <1>4, FS_Bijection
<1> QED
  BY <1>5 DEF L

LotsAt(slot) == { l \in LotIds : LedgerPlace[l] = slot }

LEMMA LoadIs ==
  ASSUME NEW slot PROVE Ledger!Load(slot) = Cardinality(LotsAt(slot))
  BY DEF Ledger!Load, LotsAt, Ledger!Cardinality, Cardinality


EachGivenOnce ==
  \A lot \in LotIds : \E m \in Moms, w \in Horizon : OnlyAt(given, lot, m, w)

(* How full the ledger's slots are.                                        *)
LEMMA LoadOfSlot ==
  ASSUME LevelInvs, Leveled, EachGivenOnce, NEW m \in Moms, NEW w \in Weeks
  PROVE  Ledger!Load(<< m, w >>) =
           IF w \notin Horizon THEN 0
           ELSE Len(adjusted[m][w])
                + IF phase = "spill" /\ m = mom /\ w = week THEN Len(queue) ELSE 0
<1> DEFINE L == LotsAt(<< m, w >>)
           A == LotsOf(adjusted[m][w])
           Q == LotsOf(queue)
<1>1. TypeOK /\ queue \in Seq(LotIds) /\ adjusted[m][w] \in Seq(LotIds) /\ Horizon \subseteq Weeks
  BY HorizonWeeks DEF LevelInvs, Inv, TypeOK, Buckets
<1>2. Ledger!Load(<< m, w >>) = Cardinality(L)
  BY LoadIs
(* Each lot, where the demand has it.                                      *)
<1>3. \A l \in LotIds : \E n, v :
        /\ n \in Moms /\ v \in Horizon
        /\ LedgerPlace[l] = IF final[l] = NoMom THEN NoSlot ELSE << final[l], v >>
        /\ Kept(l, v) \/ Waits(l, n, v) \/ Gone(l)
  <2> SUFFICES ASSUME NEW l \in LotIds
               PROVE  \E n, v :
                        /\ n \in Moms /\ v \in Horizon
                        /\ LedgerPlace[l] = IF final[l] = NoMom THEN NoSlot ELSE << final[l], v >>
                        /\ Kept(l, v) \/ Waits(l, n, v) \/ Gone(l)
    OBVIOUS
  <2>1. PICK n \in Moms, v \in Horizon : OnlyAt(given, l, n, v)
    BY DEF EachGivenOnce
  <2>2. Single(given, l, n, v)
    BY <2>1, SingleIs
  <2>3. PlacesAreFinal
    BY PlacesHold
  <2> QED
    BY <2>2, <2>3 DEF PlacesAreFinal, LevelInvs, FinalInv
<1>4. \A l \in LotIds : \A n, v : Kept(l, v) /\ n \in Moms =>
        (Holds(adjusted[n][w], l) /\ w \in Horizon <=> n = final[l] /\ w = v)
  <2> SUFFICES ASSUME NEW l \in LotIds, NEW n \in Moms, NEW v, Kept(l, v)
               PROVE  Holds(adjusted[n][w], l) /\ w \in Horizon <=> n = final[l] /\ w = v
    OBVIOUS
  <2>1. PICK k : /\ At(adjusted, l, final[l], v, k)
                 /\ \A o, u, j : At(adjusted, l, o, u, j) => o = final[l] /\ u = v /\ j = k
    BY DEF Kept, Single
  <2>2. ASSUME Holds(adjusted[n][w], l), w \in Horizon PROVE n = final[l] /\ w = v
    <3>1. PICK j \in DOMAIN adjusted[n][w] : adjusted[n][w][j] = l
      BY <2>2 DEF Holds
    <3>2. At(adjusted, l, n, w, j)
      BY <2>2, <3>1 DEF At
    <3> QED
      BY <2>1, <3>2
  <2>3. ASSUME n = final[l], w = v PROVE Holds(adjusted[n][w], l) /\ w \in Horizon
    BY <2>1, <2>3 DEF At, Holds
  <2> QED
    BY <2>2, <2>3
<1>5. \A l \in LotIds : Nowhere(adjusted, l) => ~ (Holds(adjusted[m][w], l) /\ w \in Horizon)
  BY DEF Nowhere, At, Holds
<1>6. \A l : NoSlot # << m, w >>
  BY DEF NoSlot
<1>7. \A l \in LotIds : l \in L <=>
        /\ w \in Horizon
        /\ l \in A \/ (phase = "spill" /\ m = mom /\ w = week /\ l \in Q)
  <2> SUFFICES ASSUME NEW l \in LotIds
               PROVE  LedgerPlace[l] = << m, w >> <=>
                        /\ w \in Horizon
                        /\ \/ Holds(adjusted[m][w], l)
                           \/ phase = "spill" /\ m = mom /\ w = week /\ Holds(queue, l)
    BY DEF LotsAt, LotsOf
  <2>1. PICK n, v :
          /\ n \in Moms /\ v \in Horizon
          /\ LedgerPlace[l] = IF final[l] = NoMom THEN NoSlot ELSE << final[l], v >>
          /\ Kept(l, v) \/ Waits(l, n, v) \/ Gone(l)
    BY <1>3
  <2>2. NoMom \notin Moms
    BY NMomsAssumption DEF Moms, NoMom
  <2>3. CASE Kept(l, v)
    <3>1. LedgerPlace[l] = << final[l], v >> /\ ~ Queued(l)
      BY <2>1, <2>2, <2>3 DEF Kept
    <3>2. LedgerPlace[l] = << m, w >> <=> m = final[l] /\ w = v
      BY <3>1
    <3> QED
      BY <1>4, <2>3, <3>1, <3>2 DEF Queued
  <2>4. CASE Waits(l, n, v)
    <3>1. LedgerPlace[l] = << mom, week >> /\ Queued(l) /\ week \in Horizon
      BY <2>1, <2>2, <2>4 DEF Waits
    <3>2. LedgerPlace[l] = << m, w >> <=> m = mom /\ w = week
      BY <3>1
    <3> QED
      BY <1>5, <2>4, <3>1, <3>2 DEF Waits, Queued
  <2>5. CASE Gone(l)
    BY <1>5, <1>6, <2>1, <2>5 DEF Gone, Queued
  <2> QED
    BY <2>1, <2>3, <2>4, <2>5
<1>8. CASE w \notin Horizon
  <2>1. L = {}
    BY <1>7, <1>8 DEF LotsAt
  <2> QED
    BY <1>2, <1>8, <2>1, FS_EmptySet
<1>9. CASE w \in Horizon
  <2>1. \A i, j \in DOMAIN adjusted[m][w] : adjusted[m][w][i] = adjusted[m][w][j] => i = j
    <3> SUFFICES ASSUME NEW i \in DOMAIN adjusted[m][w], NEW j \in DOMAIN adjusted[m][w],
                        adjusted[m][w][i] = adjusted[m][w][j]
                 PROVE  i = j
      OBVIOUS
    <3> DEFINE l == adjusted[m][w][i]
    <3>1. l \in LotIds
      BY <1>1
    <3>2. At(adjusted, l, m, w, i) /\ At(adjusted, l, m, w, j)
      BY <1>9 DEF At
    <3> HIDE DEF l
    <3>3. PICK n, v : Kept(l, v) \/ Waits(l, n, v) \/ Gone(l)
      BY <1>3, <3>1
    <3>4. Single(adjusted, l, final[l], v)
      BY <3>2, <3>3 DEF Kept, Waits, Gone, Nowhere
    <3> QED
      BY <3>2, <3>4 DEF Single
  <2>2. IsFiniteSet(A) /\ Cardinality(A) = Len(adjusted[m][w]) /\ Len(adjusted[m][w]) \in Nat
    BY <1>1, <2>1, LotsOfList
  <2>3. CASE ~ (phase = "spill" /\ m = mom /\ w = week)
    <3>1. L = A
      BY <1>7, <1>9, <2>3 DEF LotsAt, LotsOf
    <3> HIDE DEF L, A
    <3>2. Ledger!Load(<< m, w >>) = Len(adjusted[m][w])
      BY <1>2, <2>2, <3>1
    <3>3. Len(adjusted[m][w]) + 0 = Len(adjusted[m][w])
      BY <2>2
    <3> QED
      BY <1>9, <2>3, <3>2, <3>3
  <2>4. CASE phase = "spill" /\ m = mom /\ w = week
    <3>1. L = A \cup Q
      BY <1>7, <1>9, <2>4 DEF LotsAt, LotsOf
    <3>2. \A l \in Q : \E n, v : Waits(l, n, v)
      BY <1>3, <2>4 DEF Kept, Gone, Queued, LotsOf
    <3>3. A \cap Q = {}
      BY <1>5, <1>9, <3>2 DEF Waits, LotsOf
    <3>4. \A i, j \in DOMAIN queue : queue[i] = queue[j] => i = j
      <4> SUFFICES ASSUME NEW i \in DOMAIN queue, NEW j \in DOMAIN queue, queue[i] = queue[j]
                   PROVE  i = j
        OBVIOUS
      <4>1. queue[i] \in Q
        BY <1>1 DEF Holds, LotsOf
      <4> QED
        BY <3>2, <4>1 DEF Waits, QueuedOnce
    <3>5. IsFiniteSet(Q) /\ Cardinality(Q) = Len(queue) /\ Len(queue) \in Nat
      BY <1>1, <3>4, LotsOfList
    <3> HIDE DEF L, A, Q
    <3>6. Cardinality(A \cup Q) = Cardinality(A) + Cardinality(Q) - Cardinality(A \cap Q)
      BY <2>2, <3>5, FS_Union
    <3>7. Cardinality(A \cap Q) = 0
      BY <3>3, FS_EmptySet
    <3> QED
      BY <1>2, <1>9, <2>2, <2>4, <3>1, <3>5, <3>6, <3>7
  <2> QED
    BY <2>3, <2>4
<1> QED
  BY <1>8, <1>9

----------------------------------------------------------------------------
(* The theorems.                                                           *)

(* The lots' books are functions, and stay while a leveling goes on.       *)
LedgerBooks ==
  /\ LedgerDue = [l \in LotIds |-> LedgerDue[l]]
  /\ OtherMoms = [l \in LotIds |-> OtherMoms[l]]
  /\ LedgerPlace = [l \in LotIds |-> LedgerPlace[l]]

LEMMA BooksAre == LedgerBooks
<1>1. LedgerDue = [l \in LotIds |-> LedgerDue[l]]
  BY DEF LedgerDue
<1>2. OtherMoms = [l \in LotIds |-> OtherMoms[l]]
  BY DEF OtherMoms
<1>3. LedgerPlace = [l \in LotIds |-> LedgerPlace[l]]
  BY DEF LedgerPlace
<1> QED
  BY <1>1, <1>2, <1>3 DEF LedgerBooks

LEMMA BooksAreNext == LedgerBooks'
  BY BooksAre, PTL

LedgerCapacity == [s \in Slots |-> CapOf(s[1], s[2])]

LEMMA BooksStay ==
  ASSUME LevelInvs, LevelInvs', Leveled, Leveled', EachGivenOnce,
         UNCHANGED << setting, given >>
  PROVE  /\ UNCHANGED << LedgerDue, OtherMoms, LedgerCapacity >>
         /\ \A l \in LotIds : \E m, w :
              /\ Single(given, l, m, w) /\ Single(given, l, m, w)'
              /\ m \in Moms /\ w \in Horizon /\ LedgerDue[l] = << m, w >>
              /\ LedgerPlace[l] = IF final[l] = NoMom THEN NoSlot ELSE << final[l], w >>
              /\ LedgerPlace'[l] = IF final'[l] = NoMom THEN NoSlot ELSE << final'[l], w >>
<1>1. \A l, m, w : Single(given, l, m, w)' <=> Single(given, l, m, w)
  BY DEF Single, At, Horizon
<1>2. PlacesAreFinal /\ PlacesAreFinal'
  BY PlacesHold, PlacesHoldNext
<1>3. ASSUME NEW l \in LotIds
      PROVE  \E m, w : Single(given, l, m, w) /\ m \in Moms /\ w \in Horizon
  BY SingleIs DEF EachGivenOnce
<1>4. \A l \in LotIds : \E m, w :
        /\ Single(given, l, m, w) /\ Single(given, l, m, w)'
        /\ m \in Moms /\ w \in Horizon /\ LedgerDue[l] = << m, w >> /\ LedgerDue'[l] = << m, w >>
        /\ LedgerPlace[l] = IF final[l] = NoMom THEN NoSlot ELSE << final[l], w >>
        /\ LedgerPlace'[l] = IF final'[l] = NoMom THEN NoSlot ELSE << final'[l], w >>
  BY <1>1, <1>2, <1>3 DEF PlacesAreFinal
<1>5. LedgerDue' = LedgerDue
  <2>1. \A l \in LotIds : LedgerDue'[l] = LedgerDue[l]
    BY <1>4
  <2>2. /\ LedgerDue = [l \in LotIds |-> LedgerDue[l]]
        /\ LedgerDue' = [l \in LotIds |-> LedgerDue'[l]]
    BY BooksAre, BooksAreNext DEF LedgerBooks
  <2> QED
    BY <2>1, <2>2
<1>6. OtherMoms' = OtherMoms
  <2>1. \A l : Candidates(setting.secondary, l)' = Candidates(setting.secondary, l)
    BY DEF Candidates
  <2> QED
    BY <1>5, <2>1 DEF OtherMoms
<1>7. LedgerCapacity' = LedgerCapacity
  BY CapStays DEF LedgerCapacity
<1> QED
  BY <1>4, <1>5, <1>6, <1>7

(* A step that changes no lot's final MOM leaves the ledger alone.         *)
LEMMA LedgerStutters ==
  ASSUME LevelInvs, LevelInvs', Leveling, Leveling', EachGivenOnce,
         UNCHANGED << setting, given, final >>
  PROVE  UNCHANGED Ledger!ledger
<1>1. Leveled /\ Leveled' /\ phase # "leveled" /\ phase' # "leveled"
  BY DEF Leveled, Leveling
<1>2. UNCHANGED << LedgerDue, OtherMoms, LedgerCapacity >>
  BY <1>1, BooksStay
<1>3. LedgerPlace' = LedgerPlace
  <2>1. \A l \in LotIds : LedgerPlace'[l] = LedgerPlace[l]
    BY <1>1, BooksStay
  <2>2. /\ LedgerPlace = [l \in LotIds |-> LedgerPlace[l]]
        /\ LedgerPlace' = [l \in LotIds |-> LedgerPlace'[l]]
    BY BooksAre, BooksAreNext DEF LedgerBooks
  <2> QED
    BY <2>1, <2>2
<1> QED
  BY <1>1, <1>2, <1>3 DEF Ledger!ledger, LedgerCapacity

(* What the search of a secondary MOM answers.                             *)
LEMMA SecondaryNamed ==
  ASSUME IsSetting(setting)
  PROVE  LET list == Candidates(setting.secondary, Head(queue))
         IN IF Secondary = NoMom THEN \A k \in DOMAIN list : list[k] \notin Roomy
            ELSE \E k \in DOMAIN list : list[k] = Secondary
<1> DEFINE list == Candidates(setting.secondary, Head(queue))
           found == { k \in DOMAIN list : list[k] \in Roomy }
<1>1. list \in Seq(Nat)
  BY CandidatesType DEF IsSetting
<1>2. found \in SUBSET Nat /\ \A k \in found : k > 0 /\ list[k] \in Roomy /\ k \in DOMAIN list
  BY <1>1
<1>3. \A m \in Roomy : m # NoMom
  BY NMomsAssumption DEF Roomy, Moms, NoMom
<1>4. FirstIn(list, Roomy) = IF found = {} THEN 0
                             ELSE CHOOSE k \in found : \A j \in found : k <= j
  BY DEF FirstIn
<1>5. Secondary = IF FirstIn(list, Roomy) > 0 THEN list[FirstIn(list, Roomy)] ELSE NoMom
  BY DEF Secondary
<1>6. CASE found = {}
  <2>1. Secondary = NoMom
    BY <1>4, <1>5, <1>6
  <2> QED
    BY <1>6, <2>1
<1>7. CASE found # {}
  <2> HIDE DEF found
  <2>1. \E k \in found : \A j \in found : k <= j
    BY <1>2, <1>7, LeastOfNat
  <2>2. FirstIn(list, Roomy) \in found
    BY <1>4, <1>7, <2>1
  <2>3. Secondary = list[FirstIn(list, Roomy)] /\ Secondary # NoMom
    BY <1>2, <1>3, <1>5, <2>2
  <2> QED
    BY <1>2, <2>2, <2>3
<1> QED
  BY <1>6, <1>7

(* A lot that is spilled waits in an overfull slot.                        *)
LEMMA HeadOverflows ==
  ASSUME LevelInvs, LevelsEachLotOnce, phase = "spill", queue # << >>
  PROVE  /\ Head(queue) \in LotIds /\ mom \in Moms /\ week \in Horizon /\ week \in Weeks
         /\ LedgerDue[Head(queue)] = << mom, week >>
         /\ LedgerPlace[Head(queue)] = << mom, week >>
         /\ LedgerCapacity[<< mom, week >>] = CapOf(mom, week)
         /\ Ledger!Load(<< mom, week >>) > CapOf(mom, week)
<1> DEFINE h == Head(queue)
<1>1. /\ TypeOK /\ queue \in Seq(LotIds) /\ h \in LotIds
      /\ mom \in Moms /\ week \in Weeks /\ week \in Horizon
      /\ adjusted[mom][week] \in Seq(LotIds)
      /\ CapOf(mom, week) >= 0 /\ CapOf(mom, week) \in Int
  BY QueueTail, HorizonWeeks, CapType DEF LevelInvs, Inv, TypeOK, Buckets, LevelsEachLotOnce
<1>2. Leveled /\ EachGivenOnce /\ PlacesAreFinal
  BY PlacesHold DEF LevelsEachLotOnce, EachGivenOnce, Leveled
<1>3. PICK m \in Moms, w \in Horizon : Single(given, h, m, w)
  BY <1>1, <1>2, SingleIs DEF EachGivenOnce
<1>4. Waits(h, m, w)
  BY <1>3, HeadWaits
<1>5. LedgerDue[h] = << mom, week >> /\ LedgerPlace[h] = << mom, week >>
  <2>1. mom # NoMom
    BY <1>1, NMomsAssumption DEF Moms, NoMom
  <2>2. m = mom /\ w = week /\ final[h] = mom
    BY <1>4 DEF Waits
  <2> HIDE DEF h
  <2>3. /\ LedgerDue[h] = << m, w >>
        /\ LedgerPlace[h] = IF final[h] = NoMom THEN NoSlot ELSE << final[h], w >>
    BY <1>1, <1>2, <1>3 DEF PlacesAreFinal
  <2> QED
    BY <2>1, <2>2, <2>3
<1>6. LedgerCapacity[<< mom, week >>] = CapOf(mom, week)
  BY <1>1 DEF LedgerCapacity, Slots
<1>7. Ledger!Load(<< mom, week >>) = Len(adjusted[mom][week]) + Len(queue)
  BY <1>1, <1>2, LoadOfSlot
<1>8. Len(adjusted[mom][week]) >= CapOf(mom, week)
  BY <1>1 DEF LevelInvs, SpillInv
<1>9. Len(queue) > 0 /\ Len(queue) \in Nat /\ Len(adjusted[mom][week]) \in Nat
  BY <1>1
<1> QED
  BY <1>1, <1>5, <1>6, <1>7, <1>8, <1>9

LEMMA RoomOfSlot ==
  ASSUME LevelInvs, LevelsEachLotOnce, phase = "spill", NEW m \in Moms \ {mom}
  PROVE  /\ Ledger!HasRoom(<< m, week >>) <=> m \in Roomy
         /\ << m, week >> \in Slots
<1>1. /\ TypeOK /\ week \in Weeks /\ week \in Horizon /\ Len(adjusted[m][week]) \in Nat
  BY HorizonWeeks DEF LevelInvs, Inv, TypeOK, Buckets
<1>2. Leveled /\ EachGivenOnce
  BY DEF LevelsEachLotOnce, EachGivenOnce, Leveled
<1>3. Ledger!Load(<< m, week >>) = Len(adjusted[m][week]) + 0
  BY <1>1, <1>2, LoadOfSlot
<1>4. << m, week >> \in Slots /\ LedgerCapacity[<< m, week >>] = CapOf(m, week)
  BY <1>1 DEF LedgerCapacity, Slots
<1> QED
  BY <1>1, <1>3, <1>4 DEF Ledger!HasRoom, Roomy, LedgerCapacity

(* Only the place of the first lot waiting changes.                        *)
LEMMA OnePlaceChanges ==
  ASSUME LevelInvs, LevelInvs', LevelsEachLotOnce, phase = "spill", phase' = "spill",
         queue # << >>, UNCHANGED << setting, mom, week, given >>,
         NEW to, final' = [final EXCEPT ![Head(queue)] = to],
         NEW slot, slot = IF to = NoMom THEN NoSlot ELSE << to, week >>
  PROVE  /\ LedgerPlace' = [LedgerPlace EXCEPT ![Head(queue)] = slot]
         /\ UNCHANGED << LedgerDue, OtherMoms, LedgerCapacity >>
<1> DEFINE h == Head(queue)
<1>1. Leveled /\ Leveled' /\ EachGivenOnce /\ final \in [LotIds -> Moms \cup {NoMom, Unknown}]
  BY DEF LevelsEachLotOnce, EachGivenOnce, Leveled, Leveling, LevelInvs, Inv, TypeOK
<1>2. /\ UNCHANGED << LedgerDue, OtherMoms, LedgerCapacity >>
      /\ \A l \in LotIds : \E m, w :
              /\ Single(given, l, m, w) /\ Single(given, l, m, w)'
              /\ m \in Moms /\ w \in Horizon /\ LedgerDue[l] = << m, w >>
              /\ LedgerPlace[l] = IF final[l] = NoMom THEN NoSlot ELSE << final[l], w >>
              /\ LedgerPlace'[l] = IF final'[l] = NoMom THEN NoSlot ELSE << final'[l], w >>
  BY <1>1, BooksStay
<1>3. h \in LotIds /\ LedgerDue[h] = << mom, week >>
  BY HeadOverflows
<1>4. LedgerPlace'[h] = slot
  <2>1. final'[h] = to
    BY <1>1, <1>3
  <2> HIDE DEF h
  <2>2. PICK m, w :
          /\ Single(given, h, m, w)
          /\ m \in Moms /\ w \in Horizon /\ LedgerDue[h] = << m, w >>
          /\ LedgerPlace[h] = IF final[h] = NoMom THEN NoSlot ELSE << final[h], w >>
          /\ LedgerPlace'[h] = IF final'[h] = NoMom THEN NoSlot ELSE << final'[h], w >>
    BY <1>2, <1>3
  <2>3. w = week
    BY <1>3, <2>2
  <2> QED
    BY <2>1, <2>2, <2>3
<1>5. \A l \in LotIds \ {h} : LedgerPlace'[l] = LedgerPlace[l]
  <2> SUFFICES ASSUME NEW l \in LotIds \ {h} PROVE LedgerPlace'[l] = LedgerPlace[l]
    OBVIOUS
  <2>1. final'[l] = final[l]
    BY <1>1
  <2> HIDE DEF h
  <2>2. PICK m, w :
          /\ LedgerPlace[l] = IF final[l] = NoMom THEN NoSlot ELSE << final[l], w >>
          /\ LedgerPlace'[l] = IF final'[l] = NoMom THEN NoSlot ELSE << final'[l], w >>
    BY <1>2
  <2> QED
    BY <2>1, <2>2
<1>6. /\ LedgerPlace = [l \in LotIds |-> LedgerPlace[l]]
      /\ LedgerPlace' = [l \in LotIds |-> LedgerPlace'[l]]
  BY BooksAre, BooksAreNext DEF LedgerBooks
<1> HIDE DEF h
<1>7. LedgerPlace' = [LedgerPlace EXCEPT ![h] = slot]
  BY <1>3, <1>4, <1>5, <1>6
<1> QED
  BY <1>2, <1>7 DEF h

LEMMA MoveLotMoves ==
  ASSUME LevelInvs, LevelInvs', LevelsEachLotOnce, MoveLot
  PROVE  Ledger!Step
<1> DEFINE h == Head(queue)  to == Secondary
<1>1. /\ phase = "spill" /\ phase' = "spill" /\ queue # << >> /\ to # NoMom
      /\ UNCHANGED << setting, mom, week, given >> /\ final' = [final EXCEPT ![h] = to]
  BY DEF MoveLot, tree
<1>2. /\ h \in LotIds /\ LedgerDue[h] = << mom, week >> /\ LedgerPlace[h] = << mom, week >>
      /\ LedgerCapacity[<< mom, week >>] = CapOf(mom, week)
      /\ Ledger!Load(<< mom, week >>) > CapOf(mom, week)
  BY <1>1, HeadOverflows
<1>3. IsSetting(setting)
  BY DEF LevelInvs, Inv, TypeOK
<1>4. to \in Roomy /\ to \in Moms \ {mom}
  BY <1>1, <1>3, SecondaryType DEF Roomy
<1>5. << to, week >> \in Slots /\ Ledger!HasRoom(<< to, week >>)
  BY <1>1, <1>4, RoomOfSlot
<1>6. << to, week >> \in OtherMoms[h]
  <2>1. \E k \in DOMAIN Candidates(setting.secondary, h) : Candidates(setting.secondary, h)[k] = to
    BY <1>1, <1>3, SecondaryNamed
  <2> HIDE DEF h, to
  <2> QED
    BY <1>2, <1>4, <1>5, <2>1 DEF OtherMoms
<1> HIDE DEF h, to
<1>7. /\ LedgerPlace' = [LedgerPlace EXCEPT ![h] = << to, week >>]
      /\ UNCHANGED << LedgerDue, OtherMoms, LedgerCapacity >>
  BY <1>1, OnePlaceChanges DEF h
<1>8. Ledger!Move(h, << to, week >>)
  BY <1>1, <1>2, <1>5, <1>6, <1>7 DEF Ledger!Move, Ledger!given, LedgerCapacity
<1> QED
  BY <1>2, <1>6, <1>8 DEF Ledger!Step

LEMMA BacklogLotPostpones ==
  ASSUME LevelInvs, LevelInvs', LevelsEachLotOnce, BacklogLot
  PROVE  Ledger!Step
<1> DEFINE h == Head(queue)
<1>1. /\ phase = "spill" /\ phase' = "spill" /\ queue # << >> /\ Secondary = NoMom
      /\ UNCHANGED << setting, mom, week, given >> /\ final' = [final EXCEPT ![h] = NoMom]
  BY DEF BacklogLot, tree
<1>2. /\ h \in LotIds /\ LedgerDue[h] = << mom, week >> /\ LedgerPlace[h] = << mom, week >>
      /\ LedgerCapacity[<< mom, week >>] = CapOf(mom, week)
      /\ Ledger!Load(<< mom, week >>) > CapOf(mom, week)
  BY <1>1, HeadOverflows
<1>3. IsSetting(setting)
  BY DEF LevelInvs, Inv, TypeOK
<1>4. \A slot \in OtherMoms[h] : ~ Ledger!HasRoom(slot)
  <2> SUFFICES ASSUME NEW slot \in OtherMoms[h] PROVE ~ Ledger!HasRoom(slot)
    OBVIOUS
  <2>1. PICK k \in DOMAIN Candidates(setting.secondary, h) :
          /\ slot \in Slots /\ slot[2] = week /\ slot[1] # mom
          /\ Candidates(setting.secondary, h)[k] = slot[1]
    <3> HIDE DEF h
    <3> QED
      BY <1>2 DEF OtherMoms
  <2>2. slot = << slot[1], week >> /\ slot[1] \in Moms \ {mom}
    BY <2>1 DEF Slots
  <2>3. slot[1] \notin Roomy
    BY <1>1, <1>3, <2>1, SecondaryNamed
  <2>4. Ledger!HasRoom(<< slot[1], week >>) <=> slot[1] \in Roomy
    BY <1>1, <2>2, RoomOfSlot
  <2> QED
    BY <2>2, <2>3, <2>4
<1> HIDE DEF h
<1>5. /\ LedgerPlace' = [LedgerPlace EXCEPT ![h] = NoSlot]
      /\ UNCHANGED << LedgerDue, OtherMoms, LedgerCapacity >>
  BY <1>1, OnePlaceChanges DEF h
<1>6. Ledger!Postpone(h)
  BY <1>1, <1>2, <1>4, <1>5 DEF Ledger!Postpone, Ledger!given, LedgerCapacity
<1> QED
  BY <1>2, <1>6 DEF Ledger!Step

LEMMA WriteBackCloses ==
  ASSUME LevelInvs, LevelInvs', LevelsEachLotOnce, WriteBack
  PROVE  Ledger!Step
<1>1. /\ phase = "write" /\ phase' = "leveled" /\ UNCHANGED << setting, given, final >>
  BY DEF WriteBack, result
<1>2. Leveled /\ Leveled' /\ EachGivenOnce
  BY <1>1 DEF LevelsEachLotOnce, EachGivenOnce, Leveled
<1>3. UNCHANGED << LedgerDue, OtherMoms, LedgerCapacity >>
  BY <1>1, <1>2, BooksStay
<1>4. LedgerPlace' = LedgerPlace
  <2>1. \A l \in LotIds : LedgerPlace'[l] = LedgerPlace[l]
    BY <1>1, <1>2, BooksStay
  <2>2. /\ LedgerPlace = [l \in LotIds |-> LedgerPlace[l]]
        /\ LedgerPlace' = [l \in LotIds |-> LedgerPlace'[l]]
    BY BooksAre, BooksAreNext DEF LedgerBooks
  <2> QED
    BY <2>1, <2>2
<1>5. ASSUME NEW slot \in Slots PROVE Ledger!Load(slot) <= LedgerCapacity[slot]
  <2>1. PICK m \in Moms, w \in Weeks : slot = << m, w >>
    BY DEF Slots
  <2>2. LedgerCapacity[slot] = CapOf(m, w) /\ CapOf(m, w) >= 0
    BY <2>1 DEF LedgerCapacity, LevelsEachLotOnce
  <2>3. TypeOK /\ Len(adjusted[m][w]) \in Nat
    <3>1. TypeOK /\ adjusted \in Buckets
      BY DEF LevelInvs, Inv, TypeOK
    <3> QED
      BY <3>1 DEF Buckets
  <2>4. CASE w \in Horizon
    <3>1. Ledger!Load(slot) = Len(adjusted[m][w]) + 0
      BY <1>1, <1>2, <2>1, <2>4, LoadOfSlot
    <3>2. w < setting.horizon
      BY <2>3, <2>4, HorizonWeeks
    <3>3. KeepsOwn(m, w)
      BY <1>1, <1>2, <3>2 DEF LevelInvs, Inv, OwnFirst, Done
    <3> QED
      BY <2>2, <2>3, <3>1, <3>3 DEF KeepsOwn
  <2>5. CASE w \notin Horizon
    <3>1. Ledger!Load(slot) = 0
      BY <1>2, <2>1, <2>5, LoadOfSlot
    <3> QED
      BY <2>2, <3>1
  <2> QED
    BY <2>4, <2>5
<1>6. Ledger!Close
  BY <1>1, <1>3, <1>4, <1>5 DEF Ledger!Close, Ledger!given, LedgerCapacity
<1> QED
  BY <1>6 DEF Ledger!Step

(* The leveling opens the ledger with every lot where it is due.           *)
OpeningInv == Opening => adjusted = given

LEMMA OpeningHolds == Spec => []OpeningInv
<1>1. Init => OpeningInv
  BY DEF Init, OpeningInv, Opening
<1>2. ASSUME OpeningInv, TypeOK, [Next]_vars PROVE OpeningInv'
  <2>1. CASE UNCHANGED vars
    BY <1>2, <2>1 DEF vars, OpeningInv, Opening
  <2>2. CASE Level
    BY <2>2 DEF Level, OpeningInv
  <2>3. CASE WithinCapacity \/ EndWeek
    <3>1. NextWeek /\ mom \in Moms /\ week \in Weeks
      BY <1>2, <2>3 DEF WithinCapacity, EndWeek, TypeOK
    <3>2. ~ Opening'
      BY <3>1, NMomsAssumption, NWeeksAssumption DEF NextWeek, Opening, Moms, Weeks
    <3> QED
      BY <3>2 DEF OpeningInv
  <2>4. CASE \/ Allocate \/ AllocateLot \/ NextAllocateWeek
             \/ SplitWeek \/ MoveLot \/ BacklogLot \/ WriteBack
    <3>1. phase' # "level"
      BY <2>4 DEF Allocate, AllocateLot, NextAllocateWeek, SplitWeek, MoveLot, BacklogLot, WriteBack
    <3> QED
      BY <3>1 DEF OpeningInv, Opening
  <2> QED
    BY <1>2, <2>1, <2>2, <2>3, <2>4 DEF Next
<1>3. Spec => []TypeOK
  <2>1. Inv => TypeOK
    BY DEF Inv
  <2> QED
    BY <2>1, Invariance, PTL
<1> QED
  BY <1>1, <1>2, <1>3, PTL DEF Spec

LEMMA LedgerOpens ==
  ASSUME LevelInvs, OpeningInv, LevelsEachLotOnce, Opening
  PROVE  Ledger!Open
<1>1. /\ phase = "level" /\ adjusted = given /\ TypeOK
      /\ Leveled /\ EachGivenOnce /\ PlacesAreFinal
  BY PlacesHold
     DEF Opening, OpeningInv, LevelInvs, Inv, LevelsEachLotOnce, EachGivenOnce, Leveled, Leveling
<1>2. ASSUME NEW l \in LotIds
      PROVE  LedgerDue[l] \in Slots /\ LedgerPlace[l] = LedgerDue[l]
  <2>1. PICK m \in Moms, w \in Horizon : Single(given, l, m, w)
    BY <1>1, SingleIs DEF EachGivenOnce
  <2>2. SlotsOf(adjusted, l) # {}
    BY <1>1, <2>1, SlotOfSingle
  <2>3. LedgerDue[l] = << m, w >>
    <3>1. TypeOK
      BY <1>1
    <3> QED
      BY <2>1, <3>1, SlotOfSingle DEF LedgerDue
  <2>4. << m, w >> \in Slots
    BY <1>1, HorizonWeeks DEF Slots
  <2>5. LedgerPlace[l] = LedgerDue[l]
    BY <1>1, <2>2 DEF LedgerPlace, LedgerDue
  <2> QED
    BY <2>3, <2>4, <2>5
<1>3. /\ LedgerDue = [l \in LotIds |-> LedgerDue[l]]
      /\ OtherMoms = [l \in LotIds |-> OtherMoms[l]]
      /\ LedgerPlace = [l \in LotIds |-> LedgerPlace[l]]
  BY BooksAre DEF LedgerBooks
<1>4. LedgerDue \in [LotIds -> Slots] /\ LedgerPlace = LedgerDue
  BY <1>2, <1>3
<1>5. OtherMoms \in [LotIds -> SUBSET Slots]
  BY DEF OtherMoms
<1>6. LedgerCapacity \in [Slots -> Nat]
  <2>1. \A s \in Slots : CapOf(s[1], s[2]) \in Nat
    BY <1>1, CapType DEF LevelsEachLotOnce, Slots, TypeOK
  <2> QED
    BY <2>1 DEF LedgerCapacity
<1> QED
  BY <1>1, <1>4, <1>5, <1>6 DEF Ledger!Open, LedgerCapacity

LEMMA LedgerSteps ==
  ASSUME LevelInvs, LevelInvs', [Next]_vars
  PROVE  [LevelsEachLotOnce => Ledger!Step]_(Ledger!ledger)
<1> SUFFICES ASSUME LevelsEachLotOnce PROVE Ledger!Step \/ UNCHANGED Ledger!ledger
  OBVIOUS
<1>1. Leveling /\ EachGivenOnce
  BY DEF LevelsEachLotOnce, EachGivenOnce
<1>2. CASE UNCHANGED vars
  <2>1. UNCHANGED << setting, given, final, phase >>
    BY <1>2 DEF vars
  <2> QED
    BY <1>1, <2>1, LedgerStutters DEF Leveling
<1>3. CASE Allocate \/ AllocateLot \/ NextAllocateWeek \/ Level
  BY <1>1, <1>3 DEF Allocate, AllocateLot, NextAllocateWeek, Level, Leveling
<1>4. CASE WithinCapacity \/ SplitWeek \/ EndWeek
  <2>1. UNCHANGED << setting, given, final >> /\ Leveling'
    BY <1>4 DEF WithinCapacity, SplitWeek, EndWeek, NextWeek, Leveling, tree, result
  <2> QED
    BY <1>1, <2>1, LedgerStutters
<1>5. CASE MoveLot
  BY <1>5, MoveLotMoves
<1>6. CASE BacklogLot
  BY <1>6, BacklogLotPostpones
<1>7. CASE WriteBack
  BY <1>7, WriteBackCloses
<1> QED
  BY <1>2, <1>3, <1>4, <1>5, <1>6, <1>7 DEF Next

(* Allocation and leveling keep their types: lots go to MOMs that exist,   *)
(* whatever the policies name, and only weeks of the horizon are leveled.  *)
THEOREM TypeCorrect == Spec => []TypeOK
<1>1. Inv => TypeOK
  BY DEF Inv
<1> QED
  BY <1>1, Invariance, PTL

(* A MOM that is leveled keeps the first of its own lots, in their order,  *)
(* and only as many lots in all as its capacity, whatever other MOMs       *)
(* spilled into it before or after its turn                                *)
(* (level_mom_demand_with_capacity).                                       *)
THEOREM OwnLotsStay == Spec => []OwnLotsFirst
<1>1. ASSUME Inv PROVE OwnLotsFirst
  <2> SUFFICES ASSUME NEW m \in Moms, NEW w \in Weeks, Done(m, w)
               PROVE  LET own == SubSeq(given[m][w], 1, Bound(given[m][w], CapOf(m, w)))
                      IN /\ Len(own) <= Len(adjusted[m][w])
                         /\ SubSeq(adjusted[m][w], 1, Len(own)) = own
                         /\ CapOf(m, w) >= 0 => Len(adjusted[m][w]) <= CapOf(m, w)
    BY DEF OwnLotsFirst
  <2> DEFINE n == Bound(given[m][w], CapOf(m, w))
             own == Keep(given[m][w], CapOf(m, w))
  <2>1. KeepsOwn(m, w)
    BY <1>1 DEF Inv, OwnFirst, Leveled, Leveling, Done
  <2>2. /\ given[m][w] \in Seq(LotIds) /\ adjusted[m][w] \in Seq(LotIds)
        /\ CapOf(m, w) \in Int
    BY <1>1, CapType DEF Inv, TypeOK, Buckets
  <2>3. n \in 0 .. Len(given[m][w]) /\ n <= Len(adjusted[m][w])
    BY <2>1, <2>2, BoundType DEF KeepsOwn, OwnLot
  <2>4. /\ own \in Seq(LotIds) /\ Len(own) = n
        /\ \A k \in 1 .. n : own[k] = adjusted[m][w][k]
    BY <2>1, <2>2, KeepProperties DEF KeepsOwn, OwnLot
  <2> HIDE DEF n, own
  <2>5. /\ SubSeq(adjusted[m][w], 1, n) \in Seq(LotIds)
        /\ Len(SubSeq(adjusted[m][w], 1, n)) = n
        /\ \A k \in 1 .. n : SubSeq(adjusted[m][w], 1, n)[k] = adjusted[m][w][k]
    BY <2>2, <2>3, SubSeqProperties
  <2>6. SubSeq(adjusted[m][w], 1, n) = own
    BY <2>3, <2>4, <2>5, SeqEqual
  <2>7. own = SubSeq(given[m][w], 1, Bound(given[m][w], CapOf(m, w)))
    BY DEF own, Keep
  <2> QED
    BY <2>1, <2>3, <2>4, <2>6, <2>7 DEF KeepsOwn
<1> QED
  BY <1>1, Invariance, PTL

(* The allocation gives every lot to the MOM its policy chooses, as often  *)
(* as the root has it, in the same week, and to no other MOM, whatever an  *)
(* earlier call left in the weeks it clears (allocate_markets_to_moms).    *)
THEOREM AllocatedOnce == Spec => []EachLotAllocatedOnce
<1>1. Init => AllocatedInv
  BY DEF Init, AllocatedInv, Allocating
<1>2. TypeOK /\ AllocatedInv /\ [Next]_vars => AllocatedInv'
  BY AllocationCounts
<1>3. AllocatedInv => EachLotAllocatedOnce
  BY DEF AllocatedInv, EachLotAllocatedOnce, Counted, WaitingCopies, DueCopies
<1> QED
  BY <1>1, <1>2, <1>3, TypeCorrect, PTL DEF Spec

(* A lot the leveling found once is afterwards at the MOM that             *)
(* lot_to_final_mom names, once and in its week, or nowhere if it names    *)
(* none (level_mom_demand_with_capacity).                                  *)
THEOREM FinalMomTrue == Spec => []FinalMomIsTrue
<1>1. ASSUME LevelInvs PROVE FinalMomIsTrue
  <2> SUFFICES ASSUME phase = "leveled", NEW lot \in LotIds, NEW m \in Moms, NEW w \in Horizon,
                      OnlyAt(given, lot, m, w)
               PROVE  IF final[lot] = NoMom THEN Spots(demand, Horizon, lot) = {}
                      ELSE final[lot] \in Moms /\ OnlyAt(demand, lot, final[lot], w)
    BY DEF FinalMomIsTrue
  <2>1. Single(given, lot, m, w)
    BY SingleIs
  <2>2. Kept(lot, w) \/ Gone(lot)
    BY <1>1, <2>1 DEF LevelInvs, FinalInv, Leveled, Waits, Queued
  <2>3. \A n, v, k : At(demand, lot, n, v, k) <=> At(adjusted, lot, n, v, k)
    BY <1>1 DEF LevelInvs, WrittenInv, At
  <2>4. CASE Kept(lot, w)
    <3>1. Single(demand, lot, final[lot], w) /\ final[lot] \in Moms
      BY <2>3, <2>4 DEF Kept, Single
    <3>2. final[lot] # NoMom
      BY <3>1 DEF Moms, NoMom
    <3> QED
      BY <3>1, <3>2, SingleIs
  <2>5. CASE Gone(lot)
    <3>1. Nowhere(demand, lot)
      BY <2>3, <2>5 DEF Gone, Nowhere
    <3> QED
      BY <2>5, <3>1, NowhereIs DEF Gone
  <2> QED
    BY <2>2, <2>4, <2>5
<1> QED
  BY <1>1, LevelInvariance, PTL

(* A leveling of a demand that has every lot once keeps the promise of a   *)
(* planning stage, whatever the capacities and the policies: each step of  *)
(* level_mom_demand_with_capacity is a step of the ledger or leaves it     *)
(* alone, and the first finds it open.                                     *)
THEOREM LedgerKept == Spec => KeepsTheLedger
<1>1. LevelInvs /\ OpeningInv => (LevelsEachLotOnce /\ Opening => Ledger!Open)
  BY LedgerOpens
<1>2. LevelInvs /\ LevelInvs' /\ [Next]_vars => [LevelsEachLotOnce => Ledger!Step]_(Ledger!ledger)
  BY LedgerSteps
<1> QED
  BY <1>1, <1>2, LevelInvariance, OpeningHolds, PTL DEF Spec, KeepsTheLedger
=============================================================================
