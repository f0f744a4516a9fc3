----------------------- MODULE ExplicitPipelineProofs -----------------------
(***************************************************************************)
(* Theorems about the explicit pipeline, for any MOMs, weeks, demands,     *)
(* settings and number of runs.  What the stages keep is proved of their   *)
(* own modules; here it is shown what each of them hands to the next.      *)
(***************************************************************************)
EXTENDS ExplicitPipeline, SequenceTheorems, FiniteSetTheorems, TLAPS
LOCAL INSTANCE SequencesExt

----------------------------------------------------------------------------
(* Lists of lots                                                             *)

(* No lot is twice in q.                                                   *)
Single(q) == \A i, j \in DOMAIN q : q[i] = q[j] => i = j

LEMMA HoldsAppended ==
  ASSUME NEW q \in Seq(LotIds), NEW x \in LotIds, NEW y
  PROVE  Holds(Append(q, x), y) <=> Holds(q, y) \/ y = x
<1> DEFINE r == Append(q, x)
<1>1. /\ Len(q) \in Nat /\ DOMAIN q = 1 .. Len(q) /\ DOMAIN r = 1 .. Len(q) + 1
      /\ \A k \in 1 .. Len(q) : r[k] = q[k]
      /\ r[Len(q) + 1] = x
  BY AppendProperties
<1>2. \A k : k \in DOMAIN r <=> k \in DOMAIN q \/ k = Len(q) + 1
  BY <1>1
<1> HIDE DEF r
<1>3. Holds(r, y) <=> Holds(q, y) \/ y = x
  BY <1>1, <1>2 DEF Holds
<1> QED
  BY <1>3 DEF r

LEMMA SingleAppended ==
  ASSUME NEW q \in Seq(LotIds), NEW x \in LotIds, Single(q), ~ Holds(q, x)
  PROVE  Single(Append(q, x))
<1> DEFINE r == Append(q, x)
<1>1. /\ Len(q) \in Nat /\ DOMAIN q = 1 .. Len(q) /\ DOMAIN r = 1 .. Len(q) + 1
      /\ \A k \in 1 .. Len(q) : r[k] = q[k]
      /\ r[Len(q) + 1] = x
  BY AppendProperties
<1>2. \A k : k \in DOMAIN r <=> k \in DOMAIN q \/ k = Len(q) + 1
  BY <1>1
<1> HIDE DEF r
<1>3. Single(r)
  BY <1>1, <1>2 DEF Single, Holds
<1> QED
  BY <1>3 DEF r

(* What two buckets hold together is in one of them.                       *)
LEMMA HoldsJoined ==
  ASSUME NEW S, NEW q \in Seq(S), NEW r \in Seq(S), NEW x, Holds(q \o r, x)
  PROVE  Holds(q, x) \/ Holds(r, x)
<1>1. PICK k \in 1 .. Len(q) + Len(r) : (q \o r)[k] = x
  BY DEF Holds
<1>2. CASE k <= Len(q)
  BY <1>1, <1>2 DEF Holds
<1>3. CASE k > Len(q)
  BY <1>1, <1>3 DEF Holds
<1> QED
  BY <1>1, <1>2, <1>3

(* The first part of a list is a prefix of it, and an empty list of any.   *)
LEMMA PrefixOfJoin ==
  ASSUME NEW q \in Seq(LotIds), NEW r \in Seq(LotIds)
  PROVE  IsPrefix(q, q \o r)
<1>1. Len(q \o r) = Len(q) + Len(r) /\ Len(q) \in Nat /\ Len(r) \in Nat
  OBVIOUS
<1>2. \A i \in 1 .. Len(q) : (q \o r)[i] = q[i]
  OBVIOUS
<1>3. SubSeq(q, 1, Len(q)) = SubSeq(q \o r, 1, Len(q))
  BY <1>1, <1>2
<1> QED
  BY <1>1, <1>3 DEF IsPrefix

LEMMA PrefixOfItself == ASSUME NEW q \in Seq(LotIds) PROVE IsPrefix(q, q)
BY DEF IsPrefix

LEMMA PrefixOfNothing ==
  ASSUME NEW q \in Seq(LotIds), NEW t \in Seq(LotIds), IsPrefix(q, << >>)
  PROVE  IsPrefix(q, t)
<1>1. Len(q) = 0
  BY DEF IsPrefix
<1>2. q = << >>
  BY <1>1
<1>3. SubSeq(q, 1, 0) = << >> /\ SubSeq(t, 1, 0) = << >> /\ Len(t) \in Nat
  OBVIOUS
<1> QED
  BY <1>1, <1>2, <1>3 DEF IsPrefix

(* A prefix as long as the whole is the whole.                             *)
LEMMA WholePrefix ==
  ASSUME NEW q \in Seq(LotIds), NEW r \in Seq(LotIds), IsPrefix(q, r), Len(q) >= Len(r)
  PROVE  q = r
<1>1. Len(q) <= Len(r) /\ SubSeq(q, 1, Len(q)) = SubSeq(r, 1, Len(q))
  BY DEF IsPrefix
<1>2. Len(q) = Len(r)
  BY <1>1
<1> QED
  BY <1>1, <1>2

(* Empty buckets have the type of buckets.                                 *)
LEMMA NoLotsType == ASSUME NEW N PROVE NoLots(N) \in [N -> [Weeks -> Seq(LotIds)]]
<1>1. << >> \in Seq(LotIds)
  BY EmptySeq
<1> QED
  BY <1>1 DEF NoLots

----------------------------------------------------------------------------
(* The components with their theorems                                      *)

BP ==
  INSTANCE MomBackwardProofs WITH
    MaxCalls <- MaxRuns,
    Inputs <- { [s |-> NoLots(Moms), p |-> NoLots(Moms), setting |-> i.backward] : i \in Inputs },
    setting <- bSetting, phase <- bPhase, calls <- bCalls, todo <- bTodo, cur <- bCur,
    week <- bWeek, count <- bCount, usage <- bUsage, errors <- bErrors

XP ==
  INSTANCE SupplyBridgeProofs WITH
    MaxCalls <- MaxRuns, Plans <- {NoPlan},
    Inputs <- { [supply |-> NoPlan, setting |-> i.bridge] : i \in Inputs },
    demand <- Demand, tS <- sS, tCO <- sCO, tI <- sI, tP <- sP,
    setting <- xSetting, phase <- xPhase, calls <- xCalls, todo <- xTodo, cur <- xCur,
    week <- xWeek, given <- xGiven

FP ==
  INSTANCE ForwardPushProofs WITH
    MaxCalls <- MaxRuns,
    Inputs <- { [s |-> NoLots(Nodes), i |-> NoLots(Nodes), p |-> NoLots(Nodes),
                 setting |-> i.push] : i \in Inputs },
    setting <- fSetting, given <- fGiven, phase <- fPhase, calls <- fCalls, todo <- fTodo,
    cur <- fCur, week <- fWeek, count <- fCount, usage <- fUsage, errors <- fErrors

(* Their assumptions hold here.                                            *)
LEMMA BackwardAssumptions ==
  BP!NWeeksAssumption /\ BP!MaxEarlyAssumption /\ BP!MaxCallsAssumption /\ BP!InputsAssumption
<1>1. ASSUME NEW i \in Inputs PROVE BP!IsSetting(i.backward)
  <2>1. Backward!IsSetting(i.backward)
    BY InputsAssumption DEF IsInput
  <2> QED
    BY <2>1 DEF Backward!IsSetting, BP!IsSetting, Backward!IsTable, BP!IsTable, Backward!Weeks, BP!Weeks
<1>2. NoLots(Moms) \in BP!Buckets
  BY NoLotsType DEF BP!Buckets, BP!Weeks, Weeks
<1> QED
  BY <1>1, <1>2, NWeeksAssumption, MaxEarlyAssumption, MaxRunsAssumption
  DEF BP!NWeeksAssumption, BP!MaxEarlyAssumption, BP!MaxCallsAssumption, BP!InputsAssumption

LEMMA PushAssumptions ==
  FP!NWeeksAssumption /\ FP!MaxCallsAssumption /\ FP!InputsAssumption
<1>1. ASSUME NEW i \in Inputs PROVE FP!IsSetting(i.push)
  <2>1. Push!IsSetting(i.push)
    BY InputsAssumption DEF IsInput
  <2> QED
    BY <2>1 DEF Push!IsSetting, FP!IsSetting, Push!Weeks, FP!Weeks, Push!Types, FP!Types
<1>2. NoLots(Nodes) \in FP!Buckets
  BY NoLotsType DEF FP!Buckets, FP!Weeks, Weeks
<1> QED
  BY <1>1, <1>2, NWeeksAssumption, MaxRunsAssumption
  DEF FP!NWeeksAssumption, FP!MaxCallsAssumption, FP!InputsAssumption

LEMMA NoPlanType == NoPlan \in XP!Layers
<1>1. NoLots(Nodes) \in XP!Buckets
  BY NoLotsType DEF XP!Buckets, XP!Weeks, Weeks
<1> QED
  BY <1>1 DEF NoPlan, XP!Layers

LEMMA BridgeAssumptions ==
  XP!NWeeksAssumption /\ XP!MaxCallsAssumption /\ XP!PlansAssumption /\ XP!InputsAssumption
<1>1. ASSUME NEW i \in Inputs PROVE XP!IsSetting(i.bridge)
  <2>1. Bridge!IsSetting(i.bridge)
    BY InputsAssumption DEF IsInput
  <2> QED
    BY <2>1 DEF Bridge!IsSetting, XP!IsSetting, Bridge!Weeks, XP!Weeks, Bridge!Names, XP!Names
<1> QED
  BY <1>1, NoPlanType, NWeeksAssumption, MaxRunsAssumption
  DEF XP!NWeeksAssumption, XP!MaxCallsAssumption, XP!PlansAssumption, XP!InputsAssumption

(* A step of a component is a step of the component with its theorems.     *)
LEMMA BackwardNext == Backward!Next => BP!Next
BY DEF Backward!Next, BP!Next, Backward!Call, BP!Call, Backward!SkipMom, BP!SkipMom,
       Backward!BeginMom, BP!BeginMom, Backward!SkipWeek, BP!SkipWeek, Backward!PlanWeek,
       BP!PlanWeek, Backward!CheckRaises, BP!CheckRaises, Backward!CheckWeek, BP!CheckWeek,
       Backward!ShiftEarlier, BP!ShiftEarlier, Backward!RecordBacklog, BP!RecordBacklog,
       Backward!NextCheckWeek, BP!NextCheckWeek, Backward!EndMom, BP!EndMom,
       Backward!Return, BP!Return, Backward!NextPlanWeek, BP!NextPlanWeek,
       Backward!tree, BP!tree, Backward!result, BP!result, Backward!Zero, BP!Zero,
       Backward!ResolvedCapacity, BP!ResolvedCapacity, Backward!Normalize, BP!Normalize,
       Backward!Weeks, BP!Weeks, Backward!Error, BP!Error, Backward!Take, BP!Take,
       Backward!Drop, BP!Drop, Backward!Lesser, BP!Lesser, Backward!Open, BP!Open,
       Backward!Window, BP!Window, Backward!Room, BP!Room, Backward!Shift, BP!Shift,
       Backward!Backlogged, BP!Backlogged

LEMMA BridgeNext == Bridge!Next => XP!Next
BY DEF Bridge!Next, XP!Next, Bridge!Replan, XP!Replan, Bridge!Refuse,
       XP!Refuse, Bridge!Call, XP!Call, Bridge!SkipNode, XP!SkipNode,
       Bridge!BeginNode, XP!BeginNode, Bridge!SkipWeek, XP!SkipWeek,
       Bridge!ClearOnly, XP!ClearOnly, Bridge!CopyWeek, XP!CopyWeek,
       Bridge!Return, XP!Return, Bridge!NextWeek, XP!NextWeek, Bridge!supply,
       XP!supply, Bridge!result, XP!result, Bridge!Supply, XP!Supply,
       Bridge!Target, XP!Target, Bridge!InRange, XP!InRange, Bridge!Readable,
       XP!Readable, Bridge!Clears, XP!Clears, Bridge!JunkInTarget,
       XP!JunkInTarget, Bridge!Policy, XP!Policy, Bridge!Stops, XP!Stops,
       Bridge!Copied, XP!Copied, Bridge!Kept, XP!Kept, Bridge!Bridged,
       XP!Bridged, Bridge!Merged, XP!Merged, Bridge!Holds, XP!Holds,
       Bridge!Growth, XP!Growth, Bridge!Source, XP!Source, Bridge!Offered,
       XP!Offered, Bridge!Stopped, XP!Stopped, Bridge!Order, XP!Order,
       Bridge!Names, XP!Names, Bridge!Weeks, XP!Weeks

LEMMA PushNext == Push!Next => FP!Next
<1>1. /\ \A t : Push!Limited(t) <=> FP!Limited(t)
      /\ \A t : Push!Cap(t) = FP!Cap(t)
      /\ \A t, n : Push!Admit(t, n) = FP!Admit(t, n)
      /\ \A q, n : Push!SliceTo(q, n) = FP!SliceTo(q, n)
      /\ \A q, n : Push!SliceFrom(q, n) = FP!SliceFrom(q, n)
  BY
    DEF Push!Limited, FP!Limited, Push!Cap, FP!Cap, Push!Admit, FP!Admit,
        Push!Lesser, FP!Lesser, Push!Greater, FP!Greater, Push!SliceTo,
        FP!SliceTo, Push!SliceFrom, FP!SliceFrom, Push!Bound, FP!Bound
<1>2. Push!Made = FP!Made /\ Push!Unmade = FP!Unmade /\ Push!Stock = FP!Stock
  BY <1>1
    DEF Push!Made, FP!Made, Push!Unmade, FP!Unmade, Push!Stock, FP!Stock,
        Push!Beginning, FP!Beginning
<1>3. Push!ShipLimit = FP!ShipLimit
  BY <1>1, <1>2 DEF Push!ShipLimit, FP!ShipLimit, Push!Lesser, FP!Lesser
<1>4. /\ Push!Shipped = FP!Shipped /\ Push!Unshipped = FP!Unshipped
      /\ Push!Left = FP!Left
  BY <1>1, <1>2, <1>3
    DEF Push!Shipped, FP!Shipped, Push!Unshipped, FP!Unshipped, Push!Left,
        FP!Left
<1>5. /\ Push!Overfull <=> FP!Overfull
      /\ Push!Over = FP!Over /\ Push!Kept = FP!Kept
  BY <1>1, <1>4
    DEF Push!Overfull, FP!Overfull, Push!Over, FP!Over, Push!Kept, FP!Kept
<1>6. /\ \A t, l, e : Push!Report(t, l, e) = FP!Report(t, l, e)
      /\ \A r : Push!Command(r) = FP!Command(r)
      /\ \A t, n : Push!Used(t, n) = FP!Used(t, n)
  BY <1>1
    DEF Push!Report, FP!Report, Push!Command, FP!Command, Push!Used, FP!Used
<1>7. Push!Cuts = FP!Cuts /\ Push!OverReport = FP!OverReport
  BY <1>1, <1>2, <1>4, <1>5, <1>6
    DEF Push!Cuts, FP!Cuts, Push!Cut, FP!Cut, Push!OverReport, FP!OverReport
<1>8. Push!NextWeek <=> FP!NextWeek
  BY DEF Push!NextWeek, FP!NextWeek
<1>9. Push!PushWeek => FP!PushWeek
  <2>1. { Push!Command(r) : r \in Push!Cuts } = { FP!Command(r) : r \in FP!Cuts }
    BY <1>6, <1>7
  <2> QED
    BY <1>2, <1>4, <1>5, <1>6, <1>7, <1>8, <2>1 DEF Push!PushWeek, FP!PushWeek
<1>10. Push!SkipWeek => FP!SkipWeek
  BY <1>8
    DEF Push!SkipWeek, FP!SkipWeek, Push!supply, FP!supply
<1>11. \/ Push!Refuse \/ Push!Call \/ Push!Return
       \/ \E n \in Nodes : Push!SkipNode(n) \/ Push!BeginNode(n)
       => FP!Next
  BY
    DEF Push!Refuse, FP!Refuse, Push!Call, FP!Call, Push!SkipNode,
        FP!SkipNode, Push!BeginNode, FP!BeginNode, Push!Return, FP!Return,
        Push!supply, FP!supply, Push!result, FP!result, Push!Zero, FP!Zero, FP!Next
<1> QED
  BY <1>9, <1>10, <1>11 DEF Push!Next, FP!Next

(* ... and so is a beginning.                                              *)
LEMMA BeginsAsComponents ==
  /\ Backward!Init => BP!Init
  /\ Bridge!Init => XP!Init
  /\ Push!Init => FP!Init
BY DEF Backward!Init, BP!Init, Bridge!Init, XP!Init, Push!Init, FP!Init, Backward!Weeks,
       BP!Weeks, Backward!NoMom, BP!NoMom, Backward!Zero, BP!Zero, Bridge!NoNode, XP!NoNode,
       Push!NoNode, FP!NoNode, Push!Zero, FP!Zero

(* Which steps begin and end a component.                                  *)
LEMMA BackwardTurns ==
  ASSUME BP!Next
  PROVE  /\ bPhase = "idle" => BP!Call
         /\ bPhase' = "idle" => BP!Return
BY DEF BP!Next, BP!Call, BP!SkipMom, BP!BeginMom, BP!SkipWeek, BP!PlanWeek, BP!CheckRaises,
       BP!CheckWeek, BP!ShiftEarlier, BP!RecordBacklog, BP!NextCheckWeek, BP!EndMom, BP!Return,
       BP!NextPlanWeek, BP!tree

LEMMA BridgeTurns ==
  ASSUME XP!Next, Demand' = Demand
  PROVE  /\ xPhase = "idle" => XP!Call \/ XP!Refuse
         /\ xPhase # "raised"
         /\ xPhase' = "idle" => XP!Return
BY DEF XP!Next, XP!Replan, XP!Refuse, XP!Call, XP!SkipNode, XP!BeginNode, XP!SkipWeek,
       XP!ClearOnly, XP!CopyWeek, XP!Return, XP!NextWeek

LEMMA PushTurns ==
  ASSUME FP!Next
  PROVE  /\ fPhase = "idle" => FP!Call \/ FP!Refuse
         /\ fPhase # "raised"
         /\ fPhase' = "idle" => FP!Return
BY DEF FP!Next, FP!Refuse, FP!Call, FP!SkipNode, FP!BeginNode, FP!SkipWeek, FP!PushWeek,
       FP!Return, FP!NextWeek

----------------------------------------------------------------------------
(* Types                                                                   *)

SettingsInv ==
  \E i \in Inputs :
    /\ aMode = i.aMode /\ home = i.home
    /\ bSetting = i.backward /\ xSetting = i.bridge /\ fSetting = i.push

TypeInv ==
  /\ stage \in {"start", "allocate", "backward", "bridge", "push", "done"}
  /\ SettingsInv
  /\ source \in [Weeks -> Seq(LotIds)]
  /\ spS \in [Weeks -> Seq(LotIds)]
  /\ BP!TypeOK /\ XP!TypeOK /\ FP!TypeOK

(* A component runs in its own stage only.                                 *)
TurnsInv ==
  /\ stage # "backward" => bPhase = "idle"
  /\ stage # "bridge" => xPhase = "idle"
  /\ stage # "push" => fPhase = "idle"

DemandTyped ==
  spS \in [Weeks -> Seq(LotIds)] /\ dS \in BP!Buckets /\ dP \in BP!Buckets =>
    Demand \in XP!Layers

LEMMA DemandHasType == DemandTyped
<1>1. NoLots(Nodes) \in XP!Buckets
  BY NoLotsType DEF XP!Buckets, XP!Weeks, Weeks
<1>2. [w \in Weeks |-> << >>] \in [Weeks -> Seq(LotIds)]
  BY EmptySeq
<1> SUFFICES ASSUME spS \in [Weeks -> Seq(LotIds)], dS \in BP!Buckets, dP \in BP!Buckets
             PROVE  Demand \in XP!Layers
  BY DEF DemandTyped
<1>3. /\ [n \in Nodes |-> IF n = SupplyPoint THEN spS ELSE dS[n]] \in XP!Buckets
      /\ [n \in Nodes |-> IF n = SupplyPoint THEN [w \in Weeks |-> << >>] ELSE dP[n]] \in XP!Buckets
  BY <1>2 DEF XP!Buckets, BP!Buckets, XP!Weeks, BP!Weeks, Weeks, Nodes
<1> QED
  BY <1>1, <1>3 DEF Demand, XP!Layers

LEMMA DemandHasTypeNext == DemandTyped'
BY DemandHasType, PTL

LEMMA InitTypes == Init => TypeInv /\ TurnsInv
<1> SUFFICES ASSUME Init PROVE TypeInv /\ TurnsInv
  OBVIOUS
<1>1. BP!Init /\ XP!Init /\ FP!Init
  BY BeginsAsComponents DEF Init
<1>2. BP!TypeOK /\ XP!TypeOK /\ FP!TypeOK
  BY <1>1, BP!InitType, XP!InitType, FP!InitType, BackwardAssumptions, BridgeAssumptions,
     PushAssumptions
<1>3. bPhase = "idle" /\ xPhase = "idle" /\ fPhase = "idle"
  BY <1>1 DEF BP!Init, XP!Init, FP!Init
<1>4. spS \in [Weeks -> Seq(LotIds)] /\ source \in [Weeks -> Seq(LotIds)]
  BY SourcesAssumption, EmptySeq DEF Init
<1>5. SettingsInv /\ stage = "start"
  BY DEF Init, SettingsInv
<1> QED
  BY <1>2, <1>3, <1>4, <1>5 DEF TypeInv, TurnsInv

(* What the stages leave alone keeps its type.                             *)
LEMMA BackwardTypeStays ==
  ASSUME BP!TypeOK, UNCHANGED backward, dS' \in BP!Buckets, dP' \in BP!Buckets
  PROVE  BP!TypeOK'
BY DEF backward, BP!TypeOK, BP!IsSetting, BP!IsTable

LEMMA BridgeTypeStays ==
  ASSUME XP!TypeOK, UNCHANGED bridge, Demand' \in XP!Layers, sS' \in XP!Buckets,
         sCO' \in XP!Buckets, sI' \in XP!Buckets, sP' \in XP!Buckets
  PROVE  XP!TypeOK'
<1>1. XP!Supply' \in XP!Layers
  BY DEF XP!Supply, XP!Layers
<1> QED
  BY <1>1 DEF bridge, XP!TypeOK, XP!IsSetting

LEMMA PushTypeStays ==
  ASSUME FP!TypeOK, UNCHANGED push, sS' \in FP!Buckets, sI' \in FP!Buckets, sP' \in FP!Buckets
  PROVE  FP!TypeOK'
BY DEF push, FP!TypeOK, FP!IsSetting

(* The buckets of the types.                                               *)
LEMMA TypedBuckets ==
  ASSUME BP!TypeOK, XP!TypeOK, FP!TypeOK
  PROVE  /\ dS \in BP!Buckets /\ dP \in BP!Buckets
         /\ sS \in XP!Buckets /\ sCO \in XP!Buckets /\ sI \in XP!Buckets /\ sP \in XP!Buckets
         /\ XP!Buckets = FP!Buckets
<1>1. XP!Supply \in XP!Layers /\ sS \in FP!Buckets /\ sI \in FP!Buckets /\ sP \in FP!Buckets
  BY DEF XP!TypeOK, FP!TypeOK
<1>2. XP!Buckets = FP!Buckets
  BY DEF XP!Buckets, FP!Buckets, XP!Weeks, FP!Weeks
<1>3. sCO \in XP!Buckets
  BY <1>1 DEF XP!Supply, XP!Layers
<1> QED
  BY <1>1, <1>2, <1>3 DEF BP!TypeOK

LEMMA BridgeATypes ==
  ASSUME TypeInv, BridgeA
  PROVE  spS' \in [Weeks -> Seq(LotIds)]
<1> SUFFICES ASSUME NEW w \in Weeks PROVE spS'[w] \in Seq(LotIds)
  BY DEF BridgeA
<1>1. spS[w] \in Seq(LotIds) /\ source[w] \in Seq(LotIds)
  BY DEF TypeInv
<1>2. Bridge!Merged(spS[w], source[w]) = XP!Merged(spS[w], source[w])
  BY DEF Bridge!Merged, XP!Merged, Bridge!Holds, XP!Holds
<1>3. XP!Merged(spS[w], source[w]) \in Seq(LotIds)
  BY <1>1, XP!MergedType, BridgeAssumptions
<1>4. spS[w] \o source[w] \in Seq(LotIds)
  BY <1>1
<1> QED
  BY <1>1, <1>2, <1>3, <1>4 DEF BridgeA

(* What a MOM is given of a bucket, lot after lot.                         *)
Homing(u, q, m) ==
  /\ u \in [0 .. Len(q) -> Seq(LotIds)]
  /\ u[0] = << >>
  /\ \A i \in 1 .. Len(q) :
       u[i] = IF home[q[i]] = m THEN Append(u[i - 1], q[i]) ELSE u[i - 1]

LEMMA HomedRecur ==
  ASSUME NEW q \in Seq(LotIds), NEW m
  PROVE  \E u : Homing(u, q, m) /\ Homed(q, m) = u[Len(q)]
<1> DEFINE b == Len(q)
           V == Seq(LotIds)
           Add(u, i) == IF home[q[i]] = m THEN Append(u, q[i]) ELSE u
           step == [i \in 1 .. b |-> [u \in V |-> Add(u, i)]]
<1>1. b \in Nat /\ DOMAIN q = 1 .. b /\ \A i \in 1 .. b : q[i] \in LotIds
  BY ElementOfSeq
<1>2. \A i \in 1 .. b : \A u \in V : Add(u, i) \in V
  BY <1>1, AppendProperties
<1>3. PICK g \in [0 .. b -> V] : XP!Iterated(g, << >>, step, b)
  <2>1. step \in [1 .. b -> [V -> V]]
    BY <1>2
  <2>2. << >> \in V
    BY EmptySeq
  <2> HIDE DEF b, step, V
  <2> QED
    BY <1>1, <2>1, <2>2, XP!Iterates, BridgeAssumptions
<1>4. g[0] = << >> /\ \A i \in 1 .. b : g[i] = Add(g[i - 1], i)
  <2>1. \A i \in 1 .. b : i - 1 \in 0 .. b
    BY <1>1
  <2>2. \A i \in 1 .. b : \A u \in V : step[i][u] = Add(u, i)
    OBVIOUS
  <2> HIDE DEF b, step, V, Add
  <2> QED
    BY <1>3, <2>1, <2>2 DEF XP!Iterated
<1>5. g = [i \in 0 .. b |-> IF i = 0 THEN << >> ELSE Add(g[i - 1], i)]
  <2> HIDE DEF b, V, Add
  <2> QED
    BY <1>1, <1>4
<1> DEFINE u == CHOOSE u : u = [k \in 0 .. Len(q) |->
                                   IF k = 0 THEN << >>
                                   ELSE IF home[q[k]] = m THEN Append(u[k - 1], q[k])
                                                          ELSE u[k - 1]]
           T == { i \in 0 .. b : u[i] \in V }
<1>6. u = [i \in 0 .. b |-> IF i = 0 THEN << >> ELSE Add(u[i - 1], i)]
  BY <1>5
<1>7. u[0] = << >> /\ \A i \in 1 .. b : u[i] = Add(u[i - 1], i)
  <2> HIDE DEF b, V, Add, u
  <2> QED
    BY <1>1, <1>6
<1>8. 0 \in T
  <2>1. u[0] \in V /\ 0 \in 0 .. b
    <3> HIDE DEF Add, u
    <3> QED
      BY <1>1, <1>7, EmptySeq
  <2> HIDE DEF b, u
  <2> QED
    BY <2>1
<1>9. ASSUME NEW i \in 1 .. b, i - 1 \in T PROVE i \in T
  <2>1. u[i - 1] \in V /\ u[i] = Add(u[i - 1], i) /\ i \in 0 .. b
    <3> HIDE DEF u, Add, V
    <3> QED
      BY <1>1, <1>7, <1>9
  <2> HIDE DEF u, Add, V, b
  <2> QED
    BY <1>2, <2>1
<1>10. \A i \in 0 .. b : u[i] \in V
  <2> HIDE DEF T
  <2>1. 0 .. b \subseteq T
    BY <1>1, <1>8, <1>9, XP!UpTo, BridgeAssumptions
  <2> QED
    BY <2>1 DEF T
<1>11. Homed(q, m) = u[b]
  BY DEF Homed
<1>12. Homing(u, q, m)
  <2>1. u \in [0 .. b -> V]
    <3> HIDE DEF b, V, Add, u
    <3> QED
      BY <1>6, <1>10
  <2> HIDE DEF u
  <2> QED
    BY <1>7, <2>1 DEF Homing
<1> HIDE DEF u
<1> QED
  BY <1>11, <1>12

(* Lots of the bucket, every lot it is home of among them, and none twice  *)
(* if none is in the bucket twice.                                         *)
LEMMA HomedBucket ==
  ASSUME NEW q \in Seq(LotIds), NEW m
  PROVE  /\ Homed(q, m) \in Seq(LotIds)
         /\ \A k \in 1 .. Len(q) : home[q[k]] = m => Holds(Homed(q, m), q[k])
         /\ \A x : Holds(Homed(q, m), x) => Holds(q, x)
         /\ Single(q) => Single(Homed(q, m))
<1> DEFINE b == Len(q)
<1>1. b \in Nat /\ DOMAIN q = 1 .. b /\ \A i \in 1 .. b : q[i] \in LotIds
  BY ElementOfSeq
<1>2. PICK u : Homing(u, q, m) /\ Homed(q, m) = u[b]
  BY HomedRecur
<1> DEFINE Has(i) == \A j \in 1 .. i : home[q[j]] = m => Holds(u[i], q[j])
           From(i) == \A x : Holds(u[i], x) => \E j \in 1 .. i : q[j] = x
           Lone(i) == Single(q) => Single(u[i])
           T == { i \in 0 .. b : Has(i) /\ From(i) /\ Lone(i) }
<1>3. \A i \in 0 .. b : u[i] \in Seq(LotIds)
  BY <1>2 DEF Homing
<1>4. 0 \in T
  <2>1. u[0] = << >> /\ 0 \in 0 .. b /\ 1 .. 0 = {}
    BY <1>1, <1>2 DEF Homing
  <2> HIDE DEF b
  <2> QED
    BY <2>1 DEF Holds, Single
<1>5. ASSUME NEW i \in 1 .. b, i - 1 \in T PROVE i \in T
  <2>1. Has(i - 1) /\ From(i - 1) /\ Lone(i - 1)
    <3> HIDE DEF Has, From, Lone, b
    <3> QED
      BY <1>5
  <2>2. /\ i \in 0 .. b /\ i - 1 \in 0 .. b /\ q[i] \in LotIds
        /\ \A j \in 1 .. i : j \in 1 .. i - 1 \/ j = i
        /\ \A j \in 1 .. i - 1 : j \in 1 .. i /\ j \in 1 .. b /\ j # i
    BY <1>1
  <2>3. u[i - 1] \in Seq(LotIds) /\ u[i] \in Seq(LotIds)
    BY <1>3, <2>2
  <2>4. CASE home[q[i]] = m
    <3>1. u[i] = Append(u[i - 1], q[i])
      BY <1>2, <2>4 DEF Homing
    <3>2. \A x : Holds(u[i], x) <=> Holds(u[i - 1], x) \/ x = q[i]
      BY <2>2, <2>3, <3>1, HoldsAppended
    <3>3. Has(i)
      BY <2>1, <2>2, <3>2
    <3>4. From(i)
      BY <2>1, <2>2, <3>2
    <3>5. ASSUME Single(q) PROVE Single(u[i])
      <4>1. ~ Holds(u[i - 1], q[i])
        BY <1>1, <2>1, <2>2, <3>5 DEF Single
      <4> QED
        BY <2>1, <2>2, <2>3, <3>1, <3>5, <4>1, SingleAppended
    <3> HIDE DEF Has, From, b
    <3> QED
      BY <2>2, <3>3, <3>4, <3>5
  <2>5. CASE home[q[i]] # m
    <3>1. u[i] = u[i - 1]
      BY <1>2, <2>5 DEF Homing
    <3>2. Has(i) /\ From(i) /\ Lone(i)
      BY <2>1, <2>2, <2>5, <3>1
    <3> HIDE DEF Has, From, Lone, b
    <3> QED
      BY <2>2, <3>2
  <2> QED
    BY <2>4, <2>5
<1>6. Has(b) /\ From(b) /\ Lone(b)
  <2>1. 0 .. b \subseteq T
    <3> HIDE DEF T
    <3> QED
      BY <1>1, <1>4, <1>5, XP!UpTo, BridgeAssumptions
  <2> HIDE DEF Has, From, Lone, b
  <2> QED
    BY <1>1, <2>1
<1>7. \A x : Holds(Homed(q, m), x) => Holds(q, x)
  BY <1>1, <1>2, <1>6 DEF Holds
<1> QED
  BY <1>1, <1>2, <1>3, <1>6, <1>7

LEMMA AllocateTypes ==
  ASSUME TypeInv, Allocate
  PROVE  dS' \in BP!Buckets
<1>1. ASSUME NEW m \in Moms, NEW w \in Weeks
      PROVE  Homed(spS[w], m) \in Seq(LotIds)
  BY HomedBucket DEF TypeInv
<1> QED
  BY <1>1 DEF Allocate, BP!Buckets, BP!Weeks, Weeks

LEMMA NextTypes == TypeInv /\ TurnsInv /\ [Next]_vars => TypeInv' /\ TurnsInv'
<1> SUFFICES ASSUME TypeInv, TurnsInv, [Next]_vars PROVE TypeInv' /\ TurnsInv'
  OBVIOUS
<1>1. /\ dS \in BP!Buckets /\ dP \in BP!Buckets
      /\ sS \in XP!Buckets /\ sCO \in XP!Buckets /\ sI \in XP!Buckets /\ sP \in XP!Buckets
      /\ XP!Buckets = FP!Buckets
  BY TypedBuckets DEF TypeInv
<1>2. BP!TypeOK /\ XP!TypeOK /\ FP!TypeOK
  BY DEF TypeInv
<1>3. CASE BridgeA
  <2>1. spS' \in [Weeks -> Seq(LotIds)]
    BY <1>3, BridgeATypes
  <2>2. Demand' \in XP!Layers
    BY <1>1, <1>3, <2>1, DemandHasTypeNext DEF DemandTyped, BridgeA
  <2>3. BP!TypeOK'
    BY <1>1, <1>2, <1>3, BackwardTypeStays DEF BridgeA
  <2>4. XP!TypeOK'
    BY <1>1, <1>2, <1>3, <2>2, BridgeTypeStays DEF BridgeA, supply
  <2>5. FP!TypeOK'
    BY <1>1, <1>2, <1>3, PushTypeStays DEF BridgeA, supply
  <2> QED
    BY <1>3, <2>1, <2>3, <2>4, <2>5
    DEF TypeInv, TurnsInv, SettingsInv, BridgeA, backward, bridge, push
<1>4. CASE Allocate
  <2>1. dS' \in BP!Buckets
    BY <1>4, AllocateTypes
  <2>2. Demand' \in XP!Layers
    BY <1>1, <1>4, <2>1, DemandHasTypeNext DEF DemandTyped, Allocate, TypeInv
  <2>3. BP!TypeOK'
    BY <1>1, <1>2, <1>4, <2>1, BackwardTypeStays DEF Allocate
  <2>4. XP!TypeOK'
    BY <1>1, <1>2, <1>4, <2>2, BridgeTypeStays DEF Allocate, supply
  <2>5. FP!TypeOK'
    BY <1>1, <1>2, <1>4, PushTypeStays DEF Allocate, supply
  <2> QED
    BY <1>4, <2>3, <2>4, <2>5
    DEF TypeInv, TurnsInv, SettingsInv, Allocate, backward, bridge, push
<1>5. CASE PlanBackward
  <2>1. BP!Next
    BY <1>5, BackwardNext DEF PlanBackward
  <2>2. BP!TypeOK' /\ bSetting' = bSetting
    BY <1>2, <2>1, BP!NextType, BP!SettingStep, BackwardAssumptions
  <2>3. dS' \in BP!Buckets /\ dP' \in BP!Buckets
    BY <2>2 DEF BP!TypeOK
  <2>4. Demand' \in XP!Layers
    BY <1>5, <2>3, DemandHasTypeNext DEF DemandTyped, PlanBackward, TypeInv
  <2>5. XP!TypeOK'
    BY <1>1, <1>2, <1>5, <2>4, BridgeTypeStays DEF PlanBackward, supply
  <2>6. FP!TypeOK'
    BY <1>1, <1>2, <1>5, PushTypeStays DEF PlanBackward, supply
  <2> QED
    BY <1>5, <2>2, <2>5, <2>6
    DEF TypeInv, TurnsInv, SettingsInv, PlanBackward, bridge, push
<1>6. CASE BridgeB
  <2>1. XP!Next
    BY <1>6, BridgeNext DEF BridgeB
  <2>2. XP!TypeOK' /\ xSetting' = xSetting
    <3>1. XP!TypeOK'
      BY <1>2, <2>1, XP!NextType, BridgeAssumptions
    <3>2. xSetting' = xSetting
      BY <2>1 DEF XP!Next, XP!Replan, XP!Refuse, XP!Call, XP!SkipNode, XP!BeginNode,
         XP!SkipWeek, XP!ClearOnly, XP!CopyWeek, XP!Return
    <3> QED
      BY <3>1, <3>2
  <2>3. sS' \in FP!Buckets /\ sI' \in FP!Buckets /\ sP' \in FP!Buckets
    BY <1>1, <2>2 DEF XP!TypeOK, XP!Supply, XP!Layers
  <2>4. BP!TypeOK'
    BY <1>1, <1>2, <1>6, BackwardTypeStays DEF BridgeB
  <2>5. FP!TypeOK'
    BY <1>2, <1>6, <2>3, PushTypeStays DEF BridgeB
  <2> QED
    BY <1>6, <2>2, <2>4, <2>5
    DEF TypeInv, TurnsInv, SettingsInv, BridgeB, backward, push
<1>7. CASE PushForward
  <2>1. FP!Next
    BY <1>7, PushNext DEF PushForward
  <2>2. FP!TypeOK' /\ fSetting' = fSetting
    BY <1>2, <2>1, FP!NextType, FP!SettingStep, PushAssumptions
  <2>3. sS' \in XP!Buckets /\ sI' \in XP!Buckets /\ sP' \in XP!Buckets /\ sCO' \in XP!Buckets
    BY <1>1, <1>7, <2>2 DEF FP!TypeOK, PushForward
  <2>4. Demand' \in XP!Layers
    BY <1>1, <1>7, DemandHasTypeNext DEF DemandTyped, PushForward, TypeInv
  <2>5. BP!TypeOK'
    BY <1>1, <1>2, <1>7, BackwardTypeStays DEF PushForward
  <2>6. XP!TypeOK'
    BY <1>2, <1>7, <2>3, <2>4, BridgeTypeStays DEF PushForward
  <2> QED
    BY <1>7, <2>2, <2>5, <2>6
    DEF TypeInv, TurnsInv, SettingsInv, PushForward, backward, bridge
<1>8. CASE RunAgain \/ UNCHANGED vars
  <2>1. /\ UNCHANGED << aMode, home, spS, dS, dP, backward, supply, bridge, push >>
        /\ source' \in [Weeks -> Seq(LotIds)]
        /\ stage' = stage \/ (stage = "done" /\ stage' = "start")
    BY <1>8, SourcesAssumption DEF RunAgain, vars, pipeline, TypeInv
  <2>2. Demand' \in XP!Layers
    BY <1>1, <2>1, DemandHasTypeNext DEF DemandTyped, TypeInv
  <2>3. BP!TypeOK'
    BY <1>1, <1>2, <2>1, BackwardTypeStays
  <2>4. XP!TypeOK'
    BY <1>1, <1>2, <2>1, <2>2, BridgeTypeStays DEF supply
  <2>5. FP!TypeOK'
    BY <1>1, <1>2, <2>1, PushTypeStays DEF supply
  <2> QED
    BY <2>1, <2>3, <2>4, <2>5
    DEF TypeInv, TurnsInv, SettingsInv, backward, bridge, push
<1> QED
  BY <1>3, <1>4, <1>5, <1>6, <1>7, <1>8 DEF Next

----------------------------------------------------------------------------
(* What the running component keeps                                        *)

BackwardInv ==
  /\ BP!PlanningInv /\ BP!OverflowInv /\ BP!CapacityRespected
  /\ bPhase # "idle" => BP!NoLotDisappears

BridgeInv == XP!CallInv /\ (xPhase \notin {"idle", "raised"} => XP!WriteInv)

PushKeeps ==
  /\ FP!Untouched /\ FP!RecordsPushed /\ FP!CutLotsReported /\ FP!CutOnlyWhenForced
  /\ FP!PrevInv /\ FP!StockBegins /\ FP!StockContinues

PushInv == fPhase \notin {"idle", "raised"} => PushKeeps

RunInv == BackwardInv /\ BridgeInv /\ PushInv

LEMMA InitRun == Init => RunInv
<1> SUFFICES ASSUME Init PROVE RunInv
  OBVIOUS
<1>1. BP!Init /\ XP!Init /\ FP!Init
  BY BeginsAsComponents DEF Init
<1>2. BP!PlanningInv /\ BP!CapacityRespected
  BY <1>1, BP!InitCapacity, BackwardAssumptions
<1>3. BP!OverflowInv /\ bPhase = "idle"
  BY <1>1 DEF BP!Init, BP!OverflowInv
<1>4. XP!CallInv
  BY <1>1, XP!InitCall, BridgeAssumptions
<1>5. xPhase = "idle" /\ fPhase = "idle"
  BY <1>1 DEF XP!Init, FP!Init
<1> QED
  BY <1>2, <1>3, <1>4, <1>5 DEF RunInv, BackwardInv, BridgeInv, PushInv

(* The backward stage: a call has nothing planned when it begins.          *)
LEMMA BackwardRun ==
  ASSUME TypeInv, BackwardInv, BP!Next
  PROVE  BackwardInv'
<1>1. BP!TypeOK
  BY DEF TypeInv
<1>2. BP!PlanningInv' /\ BP!CapacityRespected'
  BY <1>1, BP!NextCap, BP!NextCapacity, BackwardAssumptions DEF BackwardInv
<1>3. BP!OverflowInv'
  BY <1>1, BP!NextOverflow, BackwardAssumptions DEF BackwardInv
<1>4. ASSUME bPhase = "idle" PROVE BP!NoLotDisappears'
  <2>1. BP!Call
    BY <1>4, BackwardTurns
  <2>2. ASSUME NEW m PROVE BP!PlannedWeeks(m)' = {}
    <3>1. bPhase' = "mom" /\ BP!Finished' = {}
      BY <2>1 DEF BP!Call, BP!Finished
    <3> QED
      BY <3>1 DEF BP!PlannedWeeks
  <2> QED
    BY <2>2 DEF BP!NoLotDisappears
<1>5. ASSUME bPhase # "idle" PROVE BP!NoLotDisappears'
  BY <1>1, <1>5, BP!NextNoLoss, BackwardAssumptions DEF BackwardInv
<1> QED
  BY <1>2, <1>3, <1>4, <1>5 DEF BackwardInv

LEMMA BackwardRests ==
  ASSUME BackwardInv, bPhase = "idle", UNCHANGED << backward, dP >>
  PROVE  BackwardInv'
BY DEF BackwardInv, BP!PlanningInv, BP!OverflowInv, BP!CapacityRespected, BP!Checked,
       BP!Finished, BP!CheckedWeeks, BP!ResolvedCapacity, backward

(* Bridge B: a call has written nothing when it begins.                    *)
LEMMA BridgeRun ==
  ASSUME TypeInv, BridgeInv, XP!Next, Demand' = Demand
  PROVE  BridgeInv'
<1>1. XP!TypeOK /\ XP!CallInv
  BY DEF TypeInv, BridgeInv
<1>2. XP!CallInv'
  BY <1>1, XP!NextCall, BridgeAssumptions
<1>3. CASE xPhase = "idle" /\ XP!Call
  <2>1. XP!WriteInv'
    <3>1. /\ XP!Supply' = XP!Supply /\ xGiven'.supply = XP!Supply /\ xSetting' = xSetting
          /\ \A n \in Nodes : \A w : ~ XP!Done(n, w)'
      BY <1>3, XP!CallStep, BridgeAssumptions
    <3> QED
      BY <3>1 DEF XP!WriteInv
  <2> QED
    BY <1>2, <2>1 DEF BridgeInv
<1>4. CASE xPhase = "idle" /\ XP!Refuse
  BY <1>2, <1>4 DEF XP!Refuse, BridgeInv
<1>5. CASE xPhase # "idle"
  <2>1. XP!WriteInv'
    BY <1>1, <1>5, BridgeTurns, XP!NextWrite, BridgeAssumptions DEF BridgeInv
  <2> QED
    BY <1>2, <2>1 DEF BridgeInv
<1> QED
  BY <1>3, <1>4, <1>5, BridgeTurns

LEMMA BridgeRests ==
  ASSUME BridgeInv, xPhase = "idle", UNCHANGED bridge
  PROVE  BridgeInv'
BY DEF BridgeInv, XP!CallInv, bridge

(* The push: a call has pushed nothing and cut nothing when it begins.     *)
LEMMA PushKeepsStep ==
  ASSUME FP!TypeOK, PushKeeps, [FP!Next]_(FP!vars)
  PROVE  PushKeeps'
<1>1. FP!Untouched' /\ FP!RecordsPushed' /\ FP!CutLotsReported' /\ FP!CutOnlyWhenForced'
  BY FP!NextUntouched, FP!NextRecords, FP!NextReported, FP!NextForced, PushAssumptions
  DEF PushKeeps
<1>2. FP!PrevInv' /\ FP!StockBegins' /\ FP!StockContinues'
  BY FP!NextPrev, FP!NextBegins, FP!NextContinues, PushAssumptions DEF PushKeeps
<1> QED
  BY <1>1, <1>2 DEF PushKeeps

LEMMA PushRun ==
  ASSUME TypeInv, PushInv, FP!Next
  PROVE  PushInv'
<1>1. FP!TypeOK
  BY DEF TypeInv
<1>2. CASE fPhase = "idle" /\ FP!Call
  <2>1. /\ \A n \in Nodes, w \in Weeks : ~ FP!Pushed(n, w)'
        /\ 0 \in Weeks /\ FP!Weeks = Weeks
    BY <1>2, NWeeksAssumption DEF FP!Call, FP!Pushed, Weeks, FP!Weeks
  <2>2. /\ sS' = sS /\ sI' = sI /\ sP' = sP /\ replans' = {} /\ fPhase' = "node"
        /\ fGiven'.s = sS /\ fGiven'.i = sI /\ fGiven'.p = sP
    BY <1>2 DEF FP!Call, FP!supply
  <2>3. FP!Untouched' /\ FP!RecordsPushed' /\ FP!PrevInv'
    BY <2>2 DEF FP!Untouched, FP!RecordsPushed, FP!PrevInv
  <2>4. FP!CutLotsReported' /\ FP!CutOnlyWhenForced'
    BY <2>1, <2>2 DEF FP!CutLotsReported, FP!CutOnlyWhenForced
  <2>5. FP!StockBegins' /\ FP!StockContinues'
    BY <2>1 DEF FP!StockBegins, FP!StockContinues
  <2> QED
    BY <2>3, <2>4, <2>5 DEF PushInv, PushKeeps
<1>3. CASE fPhase = "idle" /\ FP!Refuse
  BY <1>3 DEF FP!Refuse, PushInv
<1>4. CASE fPhase # "idle"
  <2>1. PushKeeps
    BY <1>4, PushTurns DEF PushInv
  <2> QED
    BY <1>1, <2>1, PushKeepsStep DEF PushInv
<1> QED
  BY <1>2, <1>3, <1>4, PushTurns

LEMMA PushRests ==
  ASSUME PushInv, fPhase = "idle", UNCHANGED push
  PROVE  PushInv'
BY DEF PushInv, push

LEMMA NextRun == TypeInv /\ TurnsInv /\ RunInv /\ [Next]_vars => RunInv'
<1> SUFFICES ASSUME TypeInv, TurnsInv, RunInv, [Next]_vars PROVE RunInv'
  OBVIOUS
<1>1. CASE PlanBackward
  <2>1. BP!Next
    BY <1>1, BackwardNext DEF PlanBackward
  <2> QED
    BY <1>1, <2>1, BackwardRun, BridgeRests, PushRests DEF RunInv, TurnsInv, PlanBackward
<1>2. CASE BridgeB
  <2>1. XP!Next /\ Demand' = Demand
    BY <1>2, BridgeNext DEF BridgeB, Demand
  <2>2. UNCHANGED << backward, dP >>
    BY <1>2 DEF BridgeB
  <2> QED
    BY <1>2, <2>1, <2>2, BridgeRun, BackwardRests, PushRests DEF RunInv, TurnsInv, BridgeB
<1>3. CASE PushForward
  <2>1. FP!Next
    BY <1>3, PushNext DEF PushForward
  <2>2. UNCHANGED << backward, dP >>
    BY <1>3 DEF PushForward
  <2> QED
    BY <1>3, <2>1, <2>2, PushRun, BackwardRests, BridgeRests DEF RunInv, TurnsInv, PushForward
<1>4. CASE BridgeA \/ Allocate \/ RunAgain
  <2>1. UNCHANGED << backward, dP >> /\ UNCHANGED bridge /\ UNCHANGED push
    BY <1>4 DEF BridgeA, Allocate, RunAgain
  <2>2. bPhase = "idle" /\ xPhase = "idle" /\ fPhase = "idle"
    BY <1>4 DEF TurnsInv, BridgeA, Allocate, RunAgain
  <2> QED
    BY <2>1, <2>2, BackwardRests, BridgeRests, PushRests DEF RunInv
<1>5. CASE UNCHANGED vars
  <2> USE <1>5 DEF vars, backward, bridge, push, supply, pipeline
  <2>1. BackwardInv'
    BY DEF RunInv, BackwardInv, BP!PlanningInv, BP!OverflowInv, BP!NoLotDisappears,
       BP!CapacityRespected, BP!Checked, BP!CheckedWeeks, BP!ResolvedCapacity, BP!Full,
       BP!PlannedWeeks, BP!Finished
  <2>2. BridgeInv'
    <3>1. UNCHANGED XP!vars /\ UNCHANGED xPhase
      BY DEF XP!vars, XP!supply, XP!result, Demand
    <3>2. XP!CallInv'
      BY <3>1, XP!NextCall, BridgeAssumptions DEF TypeInv, RunInv, BridgeInv
    <3>3. XP!WriteInv => XP!WriteInv'
      BY <3>1, XP!NextWrite, BridgeAssumptions DEF TypeInv, RunInv, BridgeInv
    <3> QED
      BY <3>1, <3>2, <3>3 DEF RunInv, BridgeInv
  <2>3. PushInv'
    <3>1. UNCHANGED FP!vars /\ UNCHANGED fPhase
      BY DEF FP!vars
    <3>2. PushKeeps => PushKeeps'
      BY <3>1, PushKeepsStep DEF TypeInv
    <3> QED
      BY <3>1, <3>2 DEF RunInv, PushInv
  <2> QED
    BY <2>1, <2>2, <2>3 DEF RunInv
<1> QED
  BY <1>1, <1>2, <1>3, <1>4, <1>5 DEF Next

----------------------------------------------------------------------------
(* Where a lot is, stage by stage                                          *)

Wanted(lot)    == \E w \in Weeks : Holds(source[w], lot)
Bridged(lot)   == \E w \in Weeks : Holds(spS[w], lot)
Allocated(lot) == \E w \in Weeks : Holds(dS[home[lot]][w], lot)
Planned(lot)   == \E w \in Weeks : Holds(dP[home[lot]][w], lot)
Backlogged(lot) == \E b \in backlog : b.mom = home[lot] /\ b.lot = lot
Executed(lot)  == \E w \in Weeks : Holds(sP[home[lot]][w], lot)
Found(lot)     == \E w \in Weeks : Holds(fGiven.p[home[lot]][w], lot)

(* The stages hand each lot on, and the last leaves it in one of three     *)
(* places.                                                                 *)
Arrived(lot) ==
  /\ stage = "allocate" => Bridged(lot)
  /\ stage = "backward" => Allocated(lot)
  /\ stage \in {"bridge", "push", "done"} => Planned(lot) \/ Backlogged(lot)
  /\ "P" \in XP!Policy =>
       /\ stage = "push" /\ fPhase = "idle" => Executed(lot) \/ Backlogged(lot)
       /\ stage = "push" /\ fPhase \in {"node", "push"} => Found(lot) \/ Backlogged(lot)
       /\ stage = "done" => Executed(lot) \/ Replanned(home[lot], lot) \/ Backlogged(lot)

LotInv == \A lot \in LotIds : Wanted(lot) => Arrived(lot)

(* What the settings of a whole tree give the stages.                      *)
LEMMA WholeTree ==
  ASSUME TypeInv
  PROVE  /\ home \in [LotIds -> Moms] /\ aMode \in {"replace", "append", "dedupe_append"}
         /\ bSetting.malformed = {} /\ bSetting.noPsi = {}
         /\ xSetting.lead = 0 /\ xSetting.noPsi = {}
         /\ xSetting.shortD = {} /\ xSetting.shortS = {}
         /\ xSetting.junkD = {} /\ xSetting.junkS = {}
         /\ \A n \in Nodes : /\ xSetting.demandSpan[n] = NWeeks /\ xSetting.supplySpan[n] = NWeeks
                             /\ fSetting.span[n] = NWeeks
         /\ fSetting.bad = {} /\ fSetting.noPsi = {}
BY InputsAssumption DEF TypeInv, SettingsInv, IsInput, IsWhole

LEMMA SourceLots ==
  ASSUME TypeInv, NEW w \in Weeks, NEW k \in DOMAIN source[w]
  PROVE  source[w][k] \in LotIds /\ Wanted(source[w][k])
<1>1. source[w] \in Seq(LotIds)
  BY DEF TypeInv
<1> QED
  BY <1>1 DEF Wanted, Holds

(* Bridge A hands over every lot, in each of its modes.                    *)
LEMMA BridgeAHandsOver ==
  ASSUME TypeInv, BridgeA, NEW lot \in LotIds, Wanted(lot)
  PROVE  Bridged(lot)'
<1>1. PICK w \in Weeks : Holds(source[w], lot)
  BY DEF Wanted
<1>2. source[w] \in Seq(LotIds) /\ spS[w] \in Seq(LotIds)
  BY DEF TypeInv
<1>3. PICK k \in 1 .. Len(source[w]) : source[w][k] = lot
  BY <1>1, <1>2 DEF Holds
<1>4. Holds(Bridge!Merged(spS[w], source[w]), lot)
  <2>1. XP!Holds(XP!Merged(spS[w], source[w]), lot)
    BY <1>2, <1>3, XP!MergedBucket, BridgeAssumptions
  <2> QED
    BY <2>1 DEF XP!Holds, Holds, XP!Merged, Bridge!Merged, Bridge!Holds
<1>5. Holds(spS[w] \o source[w], lot)
  <2>1. XP!Holds(spS[w] \o source[w], lot)
    BY <1>2, <1>3, XP!ConcatHolds, BridgeAssumptions
  <2> QED
    BY <2>1 DEF XP!Holds, Holds
<1>6. Holds(spS'[w], lot)
  BY <1>1, <1>4, <1>5 DEF BridgeA
<1> QED
  BY <1>6 DEF Bridged

LEMMA AllocateHandsOver ==
  ASSUME TypeInv, Allocate, NEW lot \in LotIds, Bridged(lot)
  PROVE  Allocated(lot)'
<1>1. PICK w \in Weeks : Holds(spS[w], lot)
  BY DEF Bridged
<1>2. spS[w] \in Seq(LotIds) /\ home[lot] \in Moms
  BY WholeTree DEF TypeInv
<1>3. PICK k \in 1 .. Len(spS[w]) : spS[w][k] = lot
  BY <1>1, <1>2 DEF Holds
<1>4. Holds(Homed(spS[w], home[lot]), lot)
  BY <1>2, <1>3, HomedBucket
<1>5. dS'[home[lot]][w] = Homed(spS[w], home[lot]) /\ home' = home
  BY <1>2 DEF Allocate
<1> QED
  BY <1>4, <1>5 DEF Allocated

(* MomBackward ends with every lot planned or backlogged.                  *)
LEMMA BackwardHandsOver ==
  ASSUME TypeInv, BackwardInv, BP!Return, NEW lot \in LotIds, Allocated(lot)
  PROVE  Planned(lot) \/ Backlogged(lot)
<1> DEFINE m == home[lot]
<1>1. m \in Moms
  BY WholeTree
<1>2. PICK w \in Weeks : Holds(dS[m][w], lot)
  BY DEF Allocated
<1>3. bPhase = "mom" /\ bTodo = {}
  BY DEF BP!Return
<1>4. w \in BP!PlannedWeeks(m)
  BY <1>1, <1>3, WholeTree DEF BP!PlannedWeeks, BP!Finished, BP!Weeks, Weeks
<1>5. overflow = << >>
  BY <1>3 DEF BackwardInv, BP!OverflowInv
<1>6. BP!NoLotDisappears
  BY <1>3 DEF BackwardInv
<1>7. BP!Holds(dS[m][w], lot)
  BY <1>2 DEF Holds, BP!Holds
<1>8. \/ \E v \in BP!Weeks : BP!Holds(dP[m][v], lot)
      \/ m = bCur /\ BP!Holds(overflow, lot)
      \/ \E b \in backlog : b.lot = lot /\ b.mom = m
  BY <1>1, <1>4, <1>6, <1>7 DEF BP!NoLotDisappears
<1>9. ~ BP!Holds(overflow, lot)
  BY <1>5 DEF BP!Holds
<1> QED
  BY <1>8, <1>9 DEF Planned, Backlogged, BP!Holds, Holds, BP!Weeks, Weeks

(* Bridge B ends with every bucket written as its mode and policy say.     *)
BucketBefore(b, n, w) == IF XP!Clears THEN << >> ELSE xGiven.supply[b][n][w]

LEMMA BucketWritten ==
  ASSUME TypeInv, BridgeInv, XP!Return, NEW b \in XP!Names, NEW n \in Nodes, NEW w \in Weeks
  PROVE  /\ BucketBefore(b, n, w) \in Seq(LotIds) /\ Demand[b][n][w] \in Seq(LotIds)
         /\ XP!Supply[b][n][w] =
              IF b \notin XP!Policy THEN BucketBefore(b, n, w)
              ELSE IF xSetting.mode = "dedupe_append"
                THEN XP!Merged(BucketBefore(b, n, w), Demand[b][n][w])
              ELSE BucketBefore(b, n, w) \o Demand[b][n][w]
<1>1. xPhase = "node" /\ xTodo = {}
  BY DEF XP!Return
<1>2. /\ xCalls > 0 /\ xGiven.demand = Demand
      /\ XP!WriteInv /\ XP!TypeOK
  BY <1>1 DEF BridgeInv, XP!CallInv, TypeInv
<1>3. w \in Int /\ w >= 0 /\ w < NWeeks /\ w + xSetting.lead = w /\ w - xSetting.lead = w
      /\ w \in XP!Weeks
  BY WholeTree, NWeeksAssumption DEF Weeks, XP!Weeks
<1>4. XP!Done(n, w)
  BY <1>1, <1>2, <1>3, WholeTree DEF XP!Done
<1>5. XP!Bridgeable(n, w)
  BY <1>3, WholeTree DEF XP!Bridgeable
<1>6. XP!StopsAt(n, w) = {} /\ XP!JunkAt(n, w) = {}
  BY WholeTree DEF XP!StopsAt, XP!JunkAt
<1>7. XP!CopiedAt(n, w) = XP!Policy /\ ~ XP!ClearFails(n, w)
  BY <1>6, XP!PolicyBuckets, BridgeAssumptions DEF XP!ClearFails
<1>8. XP!Supply[b][n][w] = XP!Outcome(b, n, w)
  BY <1>2, <1>3, <1>4, <1>5 DEF XP!WriteInv
<1>9. xGiven.demand \in XP!Layers /\ xGiven.supply \in XP!Layers
  BY <1>2 DEF XP!TypeOK
<1>10. xGiven.supply[b][n][w] \in Seq(LotIds) /\ xGiven.demand[b][n][w] \in Seq(LotIds)
  BY <1>3, <1>9, XP!LayerBuckets, BridgeAssumptions
<1>11. BucketBefore(b, n, w) \in Seq(LotIds)
  BY <1>10, EmptySeq DEF BucketBefore
<1> QED
  BY <1>2, <1>3, <1>7, <1>8, <1>10, <1>11 DEF XP!Outcome, BucketBefore

LEMMA BridgeBHandsOver ==
  ASSUME TypeInv, BridgeInv, XP!Return, "P" \in XP!Policy, NEW lot \in LotIds, Planned(lot)
  PROVE  Executed(lot)
<1> DEFINE m == home[lot]
<1>1. m \in Moms /\ m \in Nodes /\ m # SupplyPoint
  BY WholeTree, SupplyPointAssumption DEF Nodes
<1>2. PICK w \in Weeks : Holds(dP[m][w], lot)
  BY DEF Planned
<1>3. "P" \in XP!Names /\ Demand["P"][m][w] = dP[m][w] /\ XP!Supply["P"] = sP
  BY <1>1 DEF XP!Names, Demand, XP!Supply
<1> DEFINE old == BucketBefore("P", m, w)
<1>4. /\ old \in Seq(LotIds) /\ dP[m][w] \in Seq(LotIds)
      /\ \/ sP[m][w] = XP!Merged(old, dP[m][w])
         \/ sP[m][w] = old \o dP[m][w]
  BY <1>1, <1>3, BucketWritten
<1>5. PICK k \in 1 .. Len(dP[m][w]) : dP[m][w][k] = lot
  BY <1>2, <1>4 DEF Holds
<1>6. XP!Holds(XP!Merged(old, dP[m][w]), lot)
  <2> DEFINE q == dP[m][w]
  <2>1. old \in Seq(LotIds) /\ q \in Seq(LotIds) /\ k \in 1 .. Len(q)
    BY <1>4, <1>5
  <2> HIDE DEF old, q
  <2>2. XP!Holds(XP!Merged(old, q), q[k])
    BY <2>1, XP!MergedBucket, BridgeAssumptions
  <2> QED
    BY <1>5, <2>2 DEF q
<1>7. XP!Holds(old \o dP[m][w], lot)
  BY <1>4, <1>5, XP!ConcatHolds, BridgeAssumptions
<1> HIDE DEF old
<1>8. Holds(sP[m][w], lot)
  BY <1>4, <1>6, <1>7 DEF XP!Holds, Holds
<1> QED
  BY <1>8 DEF Executed

(* The push ends with every lot produced or named by a replan command.     *)
LEMMA PushHandsOver ==
  ASSUME TypeInv, PushInv, FP!Return, NEW lot \in LotIds, Found(lot)
  PROVE  Executed(lot) \/ Replanned(home[lot], lot)
<1> DEFINE m == home[lot]
<1>1. m \in Moms /\ m \in Nodes
  BY WholeTree DEF Nodes
<1>2. PICK w \in Weeks : Holds(fGiven.p[m][w], lot)
  BY DEF Found
<1>3. fPhase = "node" /\ fTodo = {}
  BY DEF FP!Return
<1>4. FP!CutLotsReported /\ FP!TypeOK
  BY <1>3 DEF PushInv, PushKeeps, TypeInv
<1>5. FP!Pushed(m, w)
  <2>1. w < NWeeks
    BY NWeeksAssumption DEF Weeks
  <2> QED
    BY <1>1, <1>3, <2>1, WholeTree DEF FP!Pushed
<1>6. IF FP!CommandsAt(m, w, "P") = {}
        THEN sP[m][w] = fGiven.p[m][w]
        ELSE \A r \in FP!CommandsAt(m, w, "P") : sP[m][w] \o r.lots = fGiven.p[m][w]
  <2>1. w \in FP!Weeks
    BY DEF FP!Weeks, Weeks
  <2> QED
    BY <1>1, <1>4, <1>5, <2>1 DEF FP!CutLotsReported, FP!Accepted, FP!Asked
<1>7. CASE FP!CommandsAt(m, w, "P") = {}
  BY <1>2, <1>6, <1>7 DEF Executed
<1>8. ASSUME NEW r \in FP!CommandsAt(m, w, "P") PROVE Executed(lot) \/ Replanned(m, lot)
  <2>1. r \in replans /\ r.node = m /\ r.type = "P"
    BY DEF FP!CommandsAt
  <2>2. r.lots \in Seq(LotIds) /\ sP[m][w] \in Seq(LotIds)
    <3>1. sP \in FP!Buckets /\ replans \subseteq FP!Commands
      BY <1>4 DEF FP!TypeOK
    <3>2. r.lots \in Seq(LotIds)
      BY <2>1, <3>1 DEF FP!Commands
    <3> QED
      BY <1>1, <3>1, <3>2 DEF FP!Buckets, FP!Weeks, Weeks
  <2>3. sP[m][w] \o r.lots = fGiven.p[m][w]
    BY <1>6
  <2>4. Holds(sP[m][w] \o r.lots, lot)
    BY <1>2, <2>3
  <2>5. Holds(sP[m][w], lot) \/ Holds(r.lots, lot)
    BY <2>2, <2>4, HoldsJoined
  <2> QED
    BY <1>1, <2>1, <2>5 DEF Executed, Replanned
<1> QED
  BY <1>7, <1>8

LEMMA NextLots == TypeInv /\ TurnsInv /\ RunInv /\ LotInv /\ [Next]_vars => LotInv'
<1> SUFFICES ASSUME TypeInv, TurnsInv, RunInv, LotInv, [Next]_vars,
                    NEW lot \in LotIds, Wanted(lot)'
             PROVE  Arrived(lot)'
  BY DEF LotInv
<1>1. CASE BridgeA
  <2>1. Wanted(lot)
    BY <1>1 DEF Wanted, BridgeA
  <2> QED
    BY <1>1, <2>1, BridgeAHandsOver DEF Arrived, BridgeA
<1>2. CASE Allocate
  <2>1. Wanted(lot)
    BY <1>2 DEF Wanted, Allocate
  <2>2. Bridged(lot)
    BY <1>2, <2>1 DEF LotInv, Arrived, Allocate
  <2> QED
    BY <1>2, <2>2, AllocateHandsOver DEF Arrived, Allocate
<1>3. CASE PlanBackward
  <2>1. Wanted(lot) /\ stage = "backward"
    BY <1>3 DEF Wanted, PlanBackward
  <2>2. Allocated(lot)
    BY <2>1 DEF LotInv, Arrived
  <2>3. BP!Next
    BY <1>3, BackwardNext DEF PlanBackward
  <2>4. dS' = dS /\ home' = home
    BY <1>3, <2>3, BP!RecordsStep, BackwardAssumptions DEF PlanBackward
  <2>5. Allocated(lot)'
    BY <2>2, <2>4 DEF Allocated
  <2>6. CASE bPhase' = "idle"
    <3>1. BP!Return
      BY <2>3, <2>6, BackwardTurns
    <3>2. Planned(lot) \/ Backlogged(lot)
      BY <2>2, <3>1, BackwardHandsOver DEF RunInv
    <3>3. dP' = dP /\ backlog' = backlog
      BY <3>1 DEF BP!Return, BP!tree, BP!result
    <3>4. stage' = "bridge"
      BY <1>3, <2>6 DEF PlanBackward
    <3> QED
      BY <2>4, <3>2, <3>3, <3>4 DEF Arrived, Planned, Backlogged
  <2>7. CASE bPhase' # "idle"
    BY <1>3, <2>1, <2>5, <2>7 DEF Arrived, PlanBackward
  <2> QED
    BY <2>6, <2>7
<1>4. CASE BridgeB
  <2>1. Wanted(lot) /\ stage = "bridge"
    BY <1>4 DEF Wanted, BridgeB
  <2>2. UNCHANGED << home, dP, backlog, fPhase >> /\ fPhase = "idle"
    BY <1>4, <2>1 DEF BridgeB, backward, push, TurnsInv
  <2>3. Planned(lot) \/ Backlogged(lot)
    BY <2>1 DEF LotInv, Arrived
  <2>4. (Planned(lot) \/ Backlogged(lot))'
    BY <2>2, <2>3 DEF Planned, Backlogged
  <2>5. XP!Next /\ Demand' = Demand
    BY <1>4, BridgeNext DEF BridgeB, Demand
  <2>6. CASE xPhase' = "idle"
    <3>1. XP!Return
      BY <2>5, <2>6, BridgeTurns
    <3>2. sP' = sP /\ xSetting' = xSetting
      BY <3>1 DEF XP!Return, XP!supply
    <3>3. XP!Policy' = XP!Policy
      BY <3>2 DEF XP!Policy, XP!Names
    <3>4. "P" \in XP!Policy => Executed(lot) \/ Backlogged(lot)
      BY <2>3, <3>1, BridgeBHandsOver DEF RunInv
    <3>5. "P" \in XP!Policy' => (Executed(lot) \/ Backlogged(lot))'
      BY <2>2, <3>2, <3>3, <3>4 DEF Executed, Backlogged
    <3>6. stage' = "push"
      BY <1>4, <2>6 DEF BridgeB
    <3> QED
      BY <2>2, <2>4, <3>5, <3>6 DEF Arrived
  <2>7. CASE xPhase' # "idle"
    BY <1>4, <2>1, <2>4, <2>7 DEF Arrived, BridgeB
  <2> QED
    BY <2>6, <2>7
<1>5. CASE PushForward
  <2>1. Wanted(lot) /\ stage = "push"
    BY <1>5 DEF Wanted, PushForward
  <2>2. UNCHANGED << home, dP, backlog, xSetting >>
    BY <1>5 DEF PushForward, backward, bridge
  <2>3. XP!Policy' = XP!Policy
    BY <2>2 DEF XP!Policy, XP!Names
  <2>4. (Planned(lot) \/ Backlogged(lot))'
    BY <2>1, <2>2 DEF LotInv, Arrived, Planned, Backlogged
  <2> SUFFICES ASSUME "P" \in XP!Policy
               PROVE  /\ stage' = "push" /\ fPhase' = "idle" => (Executed(lot) \/ Backlogged(lot))'
                      /\ stage' = "push" /\ fPhase' \in {"node", "push"} =>
                           (Found(lot) \/ Backlogged(lot))'
                      /\ stage' = "done" =>
                           (Executed(lot) \/ Replanned(home[lot], lot) \/ Backlogged(lot))'
    BY <1>5, <2>1, <2>3, <2>4 DEF Arrived, PushForward
  <2>5. FP!Next
    BY <1>5, PushNext DEF PushForward
  <2>6. CASE fPhase = "idle" /\ FP!Call
    <3>1. Executed(lot) \/ Backlogged(lot)
      BY <2>1, <2>6 DEF LotInv, Arrived
    <3>2. fGiven'.p = sP /\ fPhase' = "node"
      BY <2>6 DEF FP!Call
    <3>3. (Found(lot) \/ Backlogged(lot))'
      BY <2>2, <3>1, <3>2 DEF Found, Executed, Backlogged
    <3> QED
      BY <1>5, <2>1, <3>2, <3>3 DEF PushForward
  <2>7. CASE fPhase = "idle" /\ FP!Refuse
    BY <1>5, <2>1, <2>7 DEF FP!Refuse, PushForward
  <2>8. CASE fPhase # "idle"
    <3>1. Found(lot) \/ Backlogged(lot)
      BY <2>1, <2>5, <2>8, PushTurns DEF LotInv, Arrived, TypeInv, FP!TypeOK
    <3>2. fGiven' = fGiven
      BY <2>5, <2>8, FP!SettingStep, PushAssumptions DEF FP!Call
    <3>3. (Found(lot) \/ Backlogged(lot))'
      BY <2>2, <3>1, <3>2 DEF Found, Backlogged
    <3>4. CASE fPhase' = "idle"
      <4>1. FP!Return
        BY <2>5, <3>4, PushTurns
      <4>2. Executed(lot) \/ Replanned(home[lot], lot) \/ Backlogged(lot)
        BY <3>1, <4>1, PushHandsOver DEF RunInv
      <4>3. sP' = sP /\ replans' = replans
        BY <4>1 DEF FP!Return, FP!supply, FP!result
      <4>4. (Executed(lot) \/ Replanned(home[lot], lot) \/ Backlogged(lot))'
        BY <2>2, <4>2, <4>3 DEF Executed, Replanned, Backlogged
      <4> QED
        BY <1>5, <3>4, <4>4 DEF PushForward
    <3>5. CASE fPhase' # "idle"
      BY <1>5, <2>1, <3>3, <3>5 DEF PushForward
    <3> QED
      BY <3>4, <3>5
  <2> QED
    BY <2>5, <2>6, <2>7, <2>8, PushTurns
<1>6. CASE RunAgain
  BY <1>6 DEF RunAgain, Arrived
<1>7. CASE UNCHANGED vars
  <2>1. XP!Policy' = XP!Policy
    BY <1>7 DEF vars, bridge, XP!Policy, XP!Names
  <2>2. /\ UNCHANGED << stage, fPhase >>
        /\ Wanted(lot)' <=> Wanted(lot)
        /\ Bridged(lot)' <=> Bridged(lot)
        /\ Allocated(lot)' <=> Allocated(lot)
        /\ Planned(lot)' <=> Planned(lot)
        /\ Backlogged(lot)' <=> Backlogged(lot)
        /\ Executed(lot)' <=> Executed(lot)
        /\ Found(lot)' <=> Found(lot)
        /\ Replanned(home[lot], lot)' <=> Replanned(home[lot], lot)
    BY <1>7 DEF vars, pipeline, backward, supply, push, Wanted, Bridged, Allocated, Planned,
       Backlogged, Executed, Found, Replanned
  <2> QED
    BY <2>1, <2>2 DEF LotInv, Arrived
<1> QED
  BY <1>1, <1>2, <1>3, <1>4, <1>5, <1>6, <1>7 DEF Next

LEMMA InitLots == Init => LotInv
BY DEF Init, LotInv, Arrived

LEMMA Invariance == Spec => [](TypeInv /\ TurnsInv /\ RunInv /\ LotInv)
<1>1. Init => TypeInv /\ TurnsInv /\ RunInv /\ LotInv
  BY InitTypes, InitRun, InitLots
<1>2. TypeInv /\ TurnsInv /\ RunInv /\ LotInv /\ [Next]_vars =>
        (TypeInv /\ TurnsInv /\ RunInv /\ LotInv)'
  BY NextTypes, NextRun, NextLots
<1> QED
  BY <1>1, <1>2, PTL DEF Spec

(* The stages together lose no lot: at the end of every run, whatever      *)
(* earlier runs left in the tree and whatever the modes, each lot that     *)
(* came in is made, named by a replan command or backlogged, as long as    *)
(* the policy of Bridge B hands over production.                           *)
THEOREM NoLotLost == Spec => []NoLotDisappears
<1>1. TypeInv /\ LotInv => NoLotDisappears
  <2> SUFFICES ASSUME TypeInv, LotInv, stage = "done", "P" \in Bridge!Policy,
                      NEW w \in Weeks, NEW k \in DOMAIN source[w]
               PROVE  \/ \E v \in Weeks : Holds(sP[home[source[w][k]]][v], source[w][k])
                      \/ Replanned(home[source[w][k]], source[w][k])
                      \/ \E b \in backlog : b.mom = home[source[w][k]] /\ b.lot = source[w][k]
    BY DEF NoLotDisappears
  <2>1. "P" \in XP!Policy
    BY DEF Bridge!Policy, XP!Policy, Bridge!Names, XP!Names
  <2>2. Arrived(source[w][k])
    BY SourceLots DEF LotInv
  <2> QED
    BY <2>1, <2>2 DEF Arrived, Executed, Backlogged
<1> QED
  BY <1>1, Invariance, PTL

----------------------------------------------------------------------------
(* What is executed                                                        *)

(* The sums and the weeks of the planning are those of the pipeline.       *)
LEMMA WeeksAre == BP!Weeks = Weeks
BY DEF BP!Weeks, Weeks

LEMMA LotsAre == \A b, n, w : BP!Lots(b, n, w) = Lots(b, n, w)
BY DEF BP!Lots, Lots, BP!Weeks, Weeks

(* A plan that nothing of an earlier run is left in.                       *)
FreshPlan(s, i, p) ==
  \A n \in Nodes, w \in Weeks :
    /\ s[n][w] = Demand.S[n][w]
    /\ i[n][w] = << >>
    /\ p[n][w] = << >> \/ p[n][w] = Demand.P[n][w]

PlanFollowed ==
  \A n \in Nodes, w \in Weeks :
    /\ IsPrefix(sP[n][w], Demand.P[n][w])
    /\ IsPrefix(sS[n][w], Demand.S[n][w])
    /\ LET balance == Lots(sP, n, w) - Lots(sS, n, w)
       IN Len(sI[n][w]) <= balance
          /\ (StockUncut(n) => Len(sI[n][w]) = balance)

(* A bridge that replaces hands over a fresh plan, the push keeps to it.   *)
ExecutionInv ==
  XP!Overwrites =>
    /\ stage = "push" /\ fPhase = "idle" => FreshPlan(sS, sI, sP)
    /\ stage = "push" /\ fPhase \in {"node", "push"} => FreshPlan(fGiven.s, fGiven.i, fGiven.p)
    /\ stage = "done" => PlanFollowed

LEMMA BridgeLeavesFreshPlan ==
  ASSUME TypeInv, BridgeInv, XP!Return, XP!Overwrites
  PROVE  FreshPlan(sS, sI, sP)
<1>1. xSetting.mode = "replace" /\ xSetting.policy \in {"s_p_only", "s_only"}
  <2>1. XP!IsSetting(xSetting)
    BY DEF TypeInv, XP!TypeOK
  <2>2. xSetting.policy # "other"
    BY DEF BridgeInv, XP!CallInv, XP!Return
  <2> QED
    BY <2>1, <2>2 DEF XP!IsSetting, XP!Overwrites
<1>2. XP!Clears /\ "S" \in XP!Policy /\ "I" \notin XP!Policy
  BY <1>1 DEF XP!Clears, XP!Policy
<1> SUFFICES ASSUME NEW n \in Nodes, NEW w \in Weeks
             PROVE  /\ sS[n][w] = Demand.S[n][w] /\ sI[n][w] = << >>
                    /\ sP[n][w] = << >> \/ sP[n][w] = Demand.P[n][w]
  BY DEF FreshPlan
<1>3. ASSUME NEW b \in XP!Names
      PROVE  /\ b \in XP!Policy => XP!Supply[b][n][w] = Demand[b][n][w]
             /\ b \notin XP!Policy => XP!Supply[b][n][w] = << >>
  <2>1. BucketBefore(b, n, w) = << >> /\ Demand[b][n][w] \in Seq(LotIds)
    BY <1>2, BucketWritten DEF BucketBefore
  <2>2. << >> \o Demand[b][n][w] = Demand[b][n][w]
    BY <2>1
  <2> QED
    BY <1>1, <2>1, <2>2, BucketWritten
<1>4. "S" \in XP!Names /\ "I" \in XP!Names /\ "P" \in XP!Names
  BY DEF XP!Names
<1>5. XP!Supply["S"] = sS /\ XP!Supply["I"] = sI /\ XP!Supply["P"] = sP
  BY DEF XP!Supply
<1> QED
  BY <1>2, <1>3, <1>4, <1>5

(* What the push accepts of a bucket is a prefix of what it was asked.     *)
LEMMA AcceptedIsPrefix ==
  ASSUME TypeInv, PushInv, FP!Return, NEW n \in Nodes, NEW w \in Weeks
  PROVE  /\ FP!Pushed(n, w)
         /\ IsPrefix(sP[n][w], fGiven.p[n][w]) /\ IsPrefix(sS[n][w], fGiven.s[n][w])
<1>1. fPhase = "node" /\ fTodo = {}
  BY DEF FP!Return
<1>2. FP!CutLotsReported /\ FP!TypeOK
  BY <1>1 DEF PushInv, PushKeeps, TypeInv
<1>3. FP!Pushed(n, w)
  <2>1. w < NWeeks
    BY NWeeksAssumption DEF Weeks
  <2> QED
    BY <1>1, <2>1, WholeTree DEF FP!Pushed
<1>4. sP[n][w] \in Seq(LotIds) /\ sS[n][w] \in Seq(LotIds)
  <2>1. sP \in FP!Buckets /\ sS \in FP!Buckets
    BY <1>2 DEF FP!TypeOK
  <2> QED
    BY <2>1 DEF FP!Buckets, FP!Weeks, Weeks
<1>5. ASSUME NEW type \in {"P", "S"}, NEW q \in Seq(LotIds), q = FP!Accepted(n, w, type)
      PROVE  IsPrefix(q, FP!Asked(n, w, type))
  <2>1. IF FP!CommandsAt(n, w, type) = {}
          THEN q = FP!Asked(n, w, type)
          ELSE \A r \in FP!CommandsAt(n, w, type) : q \o r.lots = FP!Asked(n, w, type)
    <3>1. w \in FP!Weeks
      BY DEF FP!Weeks, Weeks
    <3> QED
      BY <1>2, <1>3, <1>5, <3>1 DEF FP!CutLotsReported
  <2>2. CASE FP!CommandsAt(n, w, type) = {}
    BY <2>1, <2>2, PrefixOfItself
  <2>3. ASSUME NEW r \in FP!CommandsAt(n, w, type) PROVE IsPrefix(q, FP!Asked(n, w, type))
    <3>1. r.lots \in Seq(LotIds)
      BY <1>2 DEF FP!TypeOK, FP!Commands, FP!CommandsAt
    <3>2. q \o r.lots = FP!Asked(n, w, type)
      BY <2>1
    <3>3. IsPrefix(q, q \o r.lots)
      BY <3>1, PrefixOfJoin
    <3> QED
      BY <3>2, <3>3
  <2> QED
    BY <2>2, <2>3
<1>6. /\ FP!Accepted(n, w, "P") = sP[n][w] /\ FP!Asked(n, w, "P") = fGiven.p[n][w]
      /\ FP!Accepted(n, w, "S") = sS[n][w] /\ FP!Asked(n, w, "S") = fGiven.s[n][w]
  BY DEF FP!Accepted, FP!Asked
<1> QED
  BY <1>3, <1>4, <1>5, <1>6

(* The stock of a node that had none is what was made and not shipped.     *)
LEMMA StockIsBalance ==
  ASSUME TypeInv, PushInv, FP!Return, NEW n \in Nodes, \A w \in Weeks : fGiven.i[n][w] = << >>
  PROVE  \A w \in Weeks :
           /\ Len(sI[n][w]) <= Lots(sP, n, w) - Lots(sS, n, w)
           /\ StockUncut(n) => Len(sI[n][w]) = Lots(sP, n, w) - Lots(sS, n, w)
<1>1. fPhase = "node" /\ FP!StockBegins /\ FP!StockContinues /\ XP!TypeOK /\ FP!TypeOK
  BY DEF FP!Return, PushInv, PushKeeps, TypeInv
<1>2. sP \in XP!Buckets /\ sS \in XP!Buckets /\ sI \in XP!Buckets
  BY TypedBuckets DEF TypeInv
<1>3. \A w \in Weeks : FP!Pushed(n, w)
  BY AcceptedIsPrefix
<1>4. /\ 0 \in Weeks /\ FP!Weeks = Weeks
      /\ \A w \in Weeks : w # 0 => w - 1 \in Weeks /\ w - 1 < w /\ (w - 1) + 1 .. w - 1 = {}
  BY NWeeksAssumption DEF Weeks, FP!Weeks
<1>5. /\ Len(sI[n][0]) <= Len(sP[n][0]) - Len(sS[n][0])
      /\ StockUncut(n) => Len(sI[n][0]) = Len(sP[n][0]) - Len(sS[n][0])
  BY <1>1, <1>3, <1>4 DEF FP!StockBegins, FP!NoHardLimit, StockUncut
<1>6. ASSUME NEW w \in Weeks, w # 0
      PROVE  /\ Len(sI[n][w]) <= Len(sI[n][w - 1]) + Len(sP[n][w]) - Len(sS[n][w])
             /\ StockUncut(n) =>
                  Len(sI[n][w]) = Len(sI[n][w - 1]) + Len(sP[n][w]) - Len(sS[n][w])
  <2> DEFINE v == w - 1
  <2>1. /\ v \in Weeks /\ v < w /\ \A u \in v + 1 .. w - 1 : << n, u >> \in fSetting.bad
        /\ FP!Pushed(n, v) /\ FP!Pushed(n, w) /\ fGiven.i[n][w] = << >>
    BY <1>3, <1>4, <1>6
  <2> HIDE DEF v
  <2>2. /\ Len(sI[n][w]) <= Len(sI[n][v]) + Len(sP[n][w]) - Len(sS[n][w])
        /\ StockUncut(n) =>
             Len(sI[n][w]) = Len(sI[n][v]) + Len(sP[n][w]) - Len(sS[n][w])
    BY <1>1, <1>4, <2>1, Zenon DEF FP!StockContinues, FP!NoHardLimit, StockUncut
  <2> QED
    BY <2>2 DEF v
<1>7. PICK soft \in BOOLEAN : soft <=> StockUncut(n)
  OBVIOUS
<1>8. BP!Flows(sP, sS, sI, n, soft)
  BY <1>5, <1>6, <1>7, WeeksAre, Zenon DEF BP!Flows
<1>9. BP!AddsUp(sP, sS, sI, n, soft)
  <2>1. /\ sP[n] \in [BP!Weeks -> Seq(LotIds)] /\ sS[n] \in [BP!Weeks -> Seq(LotIds)]
        /\ sI[n] \in [BP!Weeks -> Seq(LotIds)]
    BY <1>2 DEF XP!Buckets, XP!Weeks, BP!Weeks
  <2> QED
    BY <1>8, <2>1, BP!StockAddsUp, BackwardAssumptions, Zenon
<1>10. \A w \in Weeks :
         /\ Len(sI[n][w]) <= BP!Lots(sP, n, w) - BP!Lots(sS, n, w)
         /\ soft => Len(sI[n][w]) = BP!Lots(sP, n, w) - BP!Lots(sS, n, w)
  BY <1>9, WeeksAre, Zenon DEF BP!AddsUp
<1> QED
  BY <1>7, <1>10, LotsAre, Zenon

LEMMA PushFollowsPlan ==
  ASSUME TypeInv, PushInv, FP!Return, FreshPlan(fGiven.s, fGiven.i, fGiven.p)
  PROVE  PlanFollowed
<1>1. sP \in XP!Buckets /\ Demand \in XP!Layers
  BY TypedBuckets DEF TypeInv, XP!TypeOK
<1> SUFFICES ASSUME NEW n \in Nodes
             PROVE  \A w \in Weeks :
                      /\ IsPrefix(sP[n][w], Demand.P[n][w])
                      /\ IsPrefix(sS[n][w], Demand.S[n][w])
                      /\ Len(sI[n][w]) <= Lots(sP, n, w) - Lots(sS, n, w)
                      /\ StockUncut(n) =>
                           Len(sI[n][w]) = Lots(sP, n, w) - Lots(sS, n, w)
  BY DEF PlanFollowed
<1>2. ASSUME NEW w \in Weeks
      PROVE  IsPrefix(sP[n][w], Demand.P[n][w]) /\ IsPrefix(sS[n][w], Demand.S[n][w])
  <2>1. IsPrefix(sP[n][w], fGiven.p[n][w]) /\ IsPrefix(sS[n][w], fGiven.s[n][w])
    BY AcceptedIsPrefix
  <2>2. /\ fGiven.s[n][w] = Demand.S[n][w]
        /\ fGiven.p[n][w] = << >> \/ fGiven.p[n][w] = Demand.P[n][w]
    BY DEF FreshPlan
  <2>3. sP[n][w] \in Seq(LotIds) /\ Demand.P[n][w] \in Seq(LotIds)
    <3>1. Demand.P \in XP!Buckets
      BY <1>1 DEF XP!Layers
    <3> QED
      BY <1>1, <3>1 DEF XP!Buckets, XP!Weeks, Weeks
  <2>4. fGiven.p[n][w] = << >> => IsPrefix(sP[n][w], Demand.P[n][w])
    BY <2>1, <2>3, PrefixOfNothing
  <2> QED
    BY <2>1, <2>2, <2>4
<1>3. \A w \in Weeks : fGiven.i[n][w] = << >>
  BY DEF FreshPlan
<1> QED
  BY <1>2, <1>3, StockIsBalance

LEMMA NextExecution ==
  TypeInv /\ TurnsInv /\ RunInv /\ ExecutionInv /\ [Next]_vars => ExecutionInv'
<1> SUFFICES ASSUME TypeInv, TurnsInv, RunInv, ExecutionInv, [Next]_vars, XP!Overwrites'
             PROVE  (/\ stage = "push" /\ fPhase = "idle" => FreshPlan(sS, sI, sP)
                     /\ stage = "push" /\ fPhase \in {"node", "push"} =>
                          FreshPlan(fGiven.s, fGiven.i, fGiven.p)
                     /\ stage = "done" => PlanFollowed)'
  BY DEF ExecutionInv
<1>1. CASE BridgeA \/ Allocate \/ PlanBackward \/ RunAgain
  BY <1>1 DEF BridgeA, Allocate, PlanBackward, RunAgain
<1>2. CASE BridgeB
  <2>1. XP!Next /\ Demand' = Demand
    BY <1>2, BridgeNext DEF BridgeB, Demand
  <2>2. CASE xPhase' = "idle"
    <3>1. XP!Return
      BY <2>1, <2>2, BridgeTurns
    <3>2. sS' = sS /\ sI' = sI /\ sP' = sP /\ xSetting' = xSetting
      BY <3>1 DEF XP!Return, XP!supply
    <3>3. FreshPlan(sS, sI, sP)
      BY <3>1, <3>2, BridgeLeavesFreshPlan DEF RunInv, XP!Overwrites
    <3>4. FreshPlan(sS, sI, sP)'
      BY <2>1, <3>2, <3>3 DEF FreshPlan
    <3>5. stage' = "push" /\ fPhase' = "idle"
      BY <1>2, <2>2 DEF BridgeB, TurnsInv, push
    <3> QED
      BY <3>4, <3>5
  <2>3. CASE xPhase' # "idle"
    BY <1>2, <2>3 DEF BridgeB
  <2> QED
    BY <2>2, <2>3
<1>3. CASE PushForward
  <2>1. FP!Next /\ stage = "push"
    BY <1>3, PushNext DEF PushForward
  <2>2. Demand' = Demand /\ XP!Overwrites
    BY <1>3 DEF PushForward, Demand, bridge, XP!Overwrites
  <2>3. CASE fPhase = "idle" /\ FP!Call
    <3>1. FreshPlan(sS, sI, sP)
      BY <2>1, <2>2, <2>3 DEF ExecutionInv
    <3>2. fGiven'.s = sS /\ fGiven'.i = sI /\ fGiven'.p = sP /\ fPhase' = "node"
      BY <2>3 DEF FP!Call
    <3>3. FreshPlan(fGiven.s, fGiven.i, fGiven.p)'
      BY <2>2, <3>1, <3>2 DEF FreshPlan
    <3> QED
      BY <1>3, <2>1, <3>2, <3>3 DEF PushForward
  <2>4. CASE fPhase = "idle" /\ FP!Refuse
    BY <1>3, <2>1, <2>4 DEF FP!Refuse, PushForward
  <2>5. CASE fPhase # "idle"
    <3>1. FreshPlan(fGiven.s, fGiven.i, fGiven.p)
      BY <2>1, <2>2, <2>5, PushTurns DEF ExecutionInv, TypeInv, FP!TypeOK
    <3>2. fGiven' = fGiven
      BY <2>1, <2>5, FP!SettingStep, PushAssumptions DEF FP!Call
    <3>3. FreshPlan(fGiven.s, fGiven.i, fGiven.p)'
      BY <2>2, <3>1, <3>2 DEF FreshPlan
    <3>4. CASE fPhase' = "idle"
      <4>1. FP!Return
        BY <2>1, <3>4, PushTurns
      <4>2. PlanFollowed
        BY <3>1, <4>1, PushFollowsPlan DEF RunInv
      <4>3. sS' = sS /\ sI' = sI /\ sP' = sP /\ fSetting' = fSetting
        BY <4>1 DEF FP!Return, FP!supply
      <4>4. PlanFollowed'
        BY <2>2, <4>2, <4>3 DEF PlanFollowed, Lots, StockUncut
      <4> QED
        BY <1>3, <3>4, <4>4 DEF PushForward
    <3>5. CASE fPhase' # "idle"
      BY <1>3, <2>1, <3>3, <3>5 DEF PushForward
    <3> QED
      BY <3>4, <3>5
  <2> QED
    BY <2>1, <2>3, <2>4, <2>5, PushTurns
<1>4. CASE UNCHANGED vars
  <2>1. Demand' = Demand /\ XP!Overwrites /\ UNCHANGED << sS, sI, sP, fGiven, fSetting, stage, fPhase >>
    BY <1>4 DEF vars, bridge, push, supply, pipeline, Demand, XP!Overwrites
  <2>2. /\ FreshPlan(sS, sI, sP)' <=> FreshPlan(sS, sI, sP)
        /\ FreshPlan(fGiven.s, fGiven.i, fGiven.p)' <=> FreshPlan(fGiven.s, fGiven.i, fGiven.p)
    BY <2>1 DEF FreshPlan
  <2>3. PlanFollowed' <=> PlanFollowed
    BY <2>1 DEF PlanFollowed, Lots, StockUncut
  <2> QED
    BY <2>1, <2>2, <2>3 DEF ExecutionInv
<1> QED
  BY <1>1, <1>2, <1>3, <1>4 DEF Next

(* What is executed is this run's plan and no other: when Bridge B         *)
(* replaces, production and shipments are the plan's, cut short at most at *)
(* their ends, and the stock is what was made and not shipped, less what a *)
(* hard limit cut, summed over any number of weeks: nothing that an        *)
(* earlier run left in the tree is shipped or kept.                        *)
THEOREM PlanIsExecuted == Spec => []ExecutionFollowsPlan
<1> DEFINE Inv == TypeInv /\ TurnsInv /\ RunInv /\ ExecutionInv
<1>1. Init => Inv
  BY InitTypes, InitRun DEF Init, ExecutionInv
<1>2. Inv /\ [Next]_vars => Inv'
  BY NextTypes, NextRun, NextExecution
<1>3. Inv => ExecutionFollowsPlan
  BY DEF ExecutionInv, ExecutionFollowsPlan, PlanFollowed, Bridge!Overwrites, XP!Overwrites
<1> HIDE DEF Inv
<1> QED
  BY <1>1, <1>2, <1>3, PTL DEF Spec

----------------------------------------------------------------------------
(* The first run: what is short of the demand is backlog                   *)

(* Lot identifiers are unique: a demand carries each lot once.  With       *)
(* repetitions a "dedupe_append" drops some and the backlog, a set by      *)
(* identifier here, counts some as one.                                    *)
EachLotOnce == \A s \in Sources : BP!Once(s, Weeks)

LEMMA OnceSingle ==
  ASSUME NEW W, NEW c, BP!Once(c, W), NEW w \in W
  PROVE  Single(c[w])
BY DEF BP!Once, Single

(* What the planning hands over, in the pipeline's terms.                  *)
LEMMA CountsAre ==
  \A S : BP!Cardinality(S) = Cardinality(S) /\ (BP!IsFiniteSet(S) <=> IsFiniteSet(S))
BY DEF BP!Cardinality, Cardinality, BP!IsFiniteSet, IsFiniteSet

LEMMA PlanIsReady ==
  ASSUME BP!PlanReady
  PROVE  /\ \A m, w : IsFiniteSet(BP!Due(m, w)) /\ Cardinality(BP!Due(m, w)) \in Nat
         /\ \A m \in Moms, w \in Weeks :
              /\ Lots(dS, m, w) <= Lots(dP, m, w) + Cardinality(BP!Due(m, w))
              /\ Len(dP[m][w]) <= BP!ResolvedCapacity(m)[w]
              /\ Single(dS[m][w]) /\ Single(dP[m][w])
<1>1. IsFiniteSet(backlog)
  BY CountsAre DEF BP!PlanReady
<1>2. ASSUME NEW m, NEW w PROVE IsFiniteSet(BP!Due(m, w)) /\ Cardinality(BP!Due(m, w)) \in Nat
  <2>1. BP!Due(m, w) \subseteq backlog
    BY DEF BP!Due
  <2> QED
    BY <1>1, <2>1, FS_Subset, FS_CardinalityType
<1>3. ASSUME NEW m \in Moms, NEW w \in Weeks
      PROVE  /\ Lots(dS, m, w) <= Lots(dP, m, w) + Cardinality(BP!Due(m, w))
             /\ Len(dP[m][w]) <= BP!ResolvedCapacity(m)[w]
             /\ Single(dS[m][w]) /\ Single(dP[m][w])
  <2>1. /\ BP!Lots(dS, m, w) <= BP!Lots(dP, m, w) + BP!Cardinality(BP!Due(m, w))
        /\ Len(dP[m][w]) <= BP!ResolvedCapacity(m)[w]
        /\ BP!EachOnce(dP[m][w]) /\ BP!Once(dS[m], Weeks)
    BY WeeksAre DEF BP!PlanReady, BP!Demanded
  <2>2. Lots(dS, m, w) <= Lots(dP, m, w) + Cardinality(BP!Due(m, w))
    BY <2>1, LotsAre, CountsAre
  <2> QED
    BY <2>1, <2>2, OnceSingle DEF BP!EachOnce, Single
<1> QED
  BY <1>2, <1>3

NothingIn(b) == \A m \in Moms, w \in Weeks : b[m][w] = << >>

NothingSupplied == NothingIn(sS) /\ NothingIn(sI) /\ NothingIn(sP)
NothingFound ==
  NothingIn(xGiven.supply.S) /\ NothingIn(xGiven.supply.I) /\ NothingIn(xGiven.supply.P)

(* The supply layer holds the plan and no stock.                           *)
PlanSupplied(s, i, p) ==
  \A m \in Moms, w \in Weeks : s[m][w] = dS[m][w] /\ i[m][w] = << >> /\ p[m][w] = dP[m][w]

ShortfallBacklogged ==
  xSetting.policy # "s_only" /\ PushAsFreeAsPlan =>
    \A m \in Moms, w \in Weeks :
      /\ sP[m][w] = dP[m][w]
      /\ Lots(dS, m, w) - Lots(sS, m, w) <= Cardinality(BP!Due(m, w))

(* Bridge A hands a clean tree the source as it is.                        *)
LEMMA BridgeAFirst ==
  ASSUME TypeInv, BridgeA, BP!Once(source, Weeks), \A w \in Weeks : spS[w] = << >>
  PROVE  BP!Once(spS', Weeks)
<1>1. ASSUME NEW w \in Weeks PROVE spS'[w] = source[w]
  <2>1. source[w] \in Seq(LotIds) /\ Single(source[w]) /\ spS[w] = << >>
    BY OnceSingle DEF TypeInv
  <2>2. << >> \o source[w] = source[w]
    BY <2>1
  <2>3. Bridge!Merged(<< >>, source[w]) = source[w]
    <3> DEFINE q == source[w]
    <3>1. q \in Seq(LotIds) /\ \A i, j \in DOMAIN q : q[i] = q[j] => i = j
      BY <2>1 DEF Single
    <3> HIDE DEF q
    <3>2. XP!Merged(<< >>, q) = q
      BY <3>1, XP!MergedNothing, BridgeAssumptions
    <3> QED
      BY <3>2 DEF q, XP!Merged, Bridge!Merged, XP!Holds, Bridge!Holds
  <2> QED
    BY <2>1, <2>2, <2>3 DEF BridgeA
<1> QED
  BY <1>1 DEF BP!Once

(* The MOMs get each lot once.                                             *)
LEMMA AllocateFirst ==
  ASSUME TypeInv, Allocate, BP!Once(spS, Weeks)
  PROVE  BP!Demanded'
<1> SUFFICES ASSUME NEW m \in Moms PROVE BP!Once(dS'[m], Weeks)
  BY DEF BP!Demanded, BP!Once, BP!Weeks, Weeks
<1>1. ASSUME NEW w \in Weeks
      PROVE  /\ Single(dS'[m][w])
             /\ \A x : Holds(dS'[m][w], x) => Holds(spS[w], x)
  <2>1. spS[w] \in Seq(LotIds) /\ Single(spS[w])
    BY OnceSingle DEF TypeInv
  <2>2. dS'[m][w] = Homed(spS[w], m)
    BY DEF Allocate
  <2> QED
    BY <2>1, <2>2, HomedBucket
<1>2. ASSUME NEW v \in Weeks, NEW w \in Weeks, NEW i \in DOMAIN dS'[m][v],
             NEW j \in DOMAIN dS'[m][w], dS'[m][v][i] = dS'[m][w][j]
      PROVE  v = w /\ i = j
  <2>1. Holds(spS[v], dS'[m][v][i]) /\ Holds(spS[w], dS'[m][w][j])
    BY <1>1 DEF Holds
  <2>2. v = w
    BY <1>2, <2>1 DEF BP!Once, Holds
  <2> QED
    BY <1>1, <1>2, <2>2 DEF Single
<1> QED
  BY <1>2 DEF BP!Once

(* Bridge B writes the plan to a clean supply layer, in each of its modes. *)
LEMMA BridgeBFirst ==
  ASSUME TypeInv, BridgeInv, XP!Return, BP!PlanReady, NothingFound, xSetting.policy # "s_only"
  PROVE  PlanSupplied(sS, sI, sP)
<1>1. xSetting.policy \in {"s_p_only", "full_clone"}
  <2>1. XP!IsSetting(xSetting)
    BY DEF TypeInv, XP!TypeOK
  <2>2. xSetting.policy # "other"
    BY DEF BridgeInv, XP!CallInv, XP!Return
  <2> QED
    BY <2>1, <2>2 DEF XP!IsSetting
<1>2. "S" \in XP!Policy /\ "P" \in XP!Policy
  BY <1>1 DEF XP!Policy, XP!Names
<1> SUFFICES ASSUME NEW m \in Moms, NEW w \in Weeks
             PROVE  sS[m][w] = dS[m][w] /\ sI[m][w] = << >> /\ sP[m][w] = dP[m][w]
  BY DEF PlanSupplied
<1>3. m \in Nodes /\ m # SupplyPoint
  BY SupplyPointAssumption DEF Nodes
<1>4. ASSUME NEW b \in {"S", "I", "P"}, Single(Demand[b][m][w])
      PROVE  /\ b \in XP!Policy => XP!Supply[b][m][w] = Demand[b][m][w]
             /\ b \notin XP!Policy => XP!Supply[b][m][w] = << >>
  <2>1. b \in XP!Names
    BY DEF XP!Names
  <2>2. BucketBefore(b, m, w) = << >>
    BY DEF BucketBefore, NothingFound, NothingIn
  <2> DEFINE q == Demand[b][m][w]
  <2>3. q \in Seq(LotIds) /\ \A i, j \in DOMAIN q : q[i] = q[j] => i = j
    BY <1>3, <1>4, <2>1, BucketWritten DEF Single
  <2>4. XP!Supply[b][m][w] = IF b \notin XP!Policy THEN << >>
                             ELSE IF xSetting.mode = "dedupe_append" THEN XP!Merged(<< >>, q)
                             ELSE << >> \o q
    BY <1>3, <2>1, <2>2, BucketWritten
  <2> HIDE DEF q
  <2>5. XP!Merged(<< >>, q) = q /\ << >> \o q = q
    BY <2>3, XP!MergedNothing, BridgeAssumptions
  <2> QED
    BY <2>4, <2>5 DEF q
<1>5. /\ Demand["S"][m][w] = dS[m][w] /\ Demand["P"][m][w] = dP[m][w]
      /\ Demand["I"][m][w] = << >>
      /\ XP!Supply["S"] = sS /\ XP!Supply["I"] = sI /\ XP!Supply["P"] = sP
  BY <1>3 DEF Demand, XP!Supply, NoLots
<1>6. Single(dS[m][w]) /\ Single(dP[m][w]) /\ Single(<< >>)
  BY PlanIsReady DEF Single
<1>7. XP!Supply["I"][m][w] = << >>
  BY <1>4, <1>5, <1>6
<1> QED
  BY <1>2, <1>4, <1>5, <1>6, <1>7

(* The push of a fresh plan with the capacity it was made for.             *)
LEMMA PushFirst ==
  ASSUME TypeInv, PushInv, FP!Return, BP!PlanReady, PlanSupplied(fGiven.s, fGiven.i, fGiven.p),
         PushAsFreeAsPlan, NEW m \in Moms
  PROVE  \A w \in Weeks : /\ sP[m][w] = dP[m][w]
                          /\ Lots(dS, m, w) - Lots(sS, m, w) <= Cardinality(BP!Due(m, w))
<1>1. m \in Nodes /\ fPhase = "node"
  BY DEF Nodes, FP!Return
<1>2. /\ dS[m] \in [Weeks -> Seq(LotIds)] /\ dP[m] \in [Weeks -> Seq(LotIds)]
      /\ sS[m] \in [Weeks -> Seq(LotIds)] /\ sP[m] \in [Weeks -> Seq(LotIds)]
      /\ sI[m] \in [Weeks -> Seq(LotIds)]
  BY <1>1, TypedBuckets DEF TypeInv, XP!Buckets, XP!Weeks, BP!Buckets, BP!Weeks, Weeks
<1>3. \A w \in Weeks : /\ fGiven.s[m][w] = dS[m][w] /\ fGiven.i[m][w] = << >>
                       /\ fGiven.p[m][w] = dP[m][w]
  BY DEF PlanSupplied
<1>4. FP!CutLotsReported /\ FP!CutOnlyWhenForced /\ FP!TypeOK
  BY <1>1 DEF PushInv, PushKeeps, TypeInv
<1>5. \A k \in DOMAIN fSetting.cap :
        /\ fSetting.cap[k] \in Int
        /\ k[2] = "P"
        /\ k[1] = m => fSetting.cap[k] >= BP!ResolvedCapacity(m)[k[3]]
  <2>1. FP!IsSetting(fSetting)
    BY <1>4 DEF FP!TypeOK
  <2>2. Backward!ResolvedCapacity(m) = BP!ResolvedCapacity(m)
    BY DEF Backward!ResolvedCapacity, BP!ResolvedCapacity, Backward!Normalize, BP!Normalize,
       Backward!Weeks, BP!Weeks
  <2> QED
    BY <2>1, <2>2 DEF PushAsFreeAsPlan, FP!IsSetting
<1>6. ASSUME NEW w \in Weeks
      PROVE  /\ FP!LimitOf(m, "P", w) >= Len(dP[m][w])
             /\ FP!LimitOf(m, "S", w) >= Len(dS[m][w])
  <2>1. /\ Len(dP[m][w]) \in Nat /\ Len(dS[m][w]) \in Nat
        /\ Len(dP[m][w]) <= BP!ResolvedCapacity(m)[w]
    BY <1>2, PlanIsReady
  <2>2. BP!ResolvedCapacity(m)[w] \in Nat
    <3>1. BP!ResolvedCapacity(m) \in [BP!Weeks -> Nat]
      <4>1. BP!TypeOK
        BY DEF TypeInv
      <4> QED
        BY <4>1, BP!ResolvedType, BackwardAssumptions DEF BP!TypeOK
    <3> QED
      BY <3>1 DEF BP!Weeks, Weeks
  <2>3. CASE << m, "P", w >> \in DOMAIN fSetting.cap
    <3> DEFINE c == fSetting.cap[<< m, "P", w >>]
    <3>1. c \in Int /\ c >= BP!ResolvedCapacity(m)[w]
      BY <1>5, <2>3
    <3>2. FP!LimitOf(m, "P", w) = IF 0 > c THEN 0 ELSE c
      BY <2>3 DEF FP!LimitOf, FP!Greater
    <3> HIDE DEF c
    <3>3. FP!LimitOf(m, "P", w) >= Len(dP[m][w])
      BY <2>1, <2>2, <3>1, <3>2
    <3>4. FP!LimitOf(m, "S", w) >= Len(dS[m][w])
      <4>1. << m, "S", w >> \notin DOMAIN fSetting.cap
        BY <1>5
      <4>2. FP!LimitOf(m, "S", w) = Len(fGiven.s[m][w]) + Len(fGiven.p[m][w])
        BY <4>1 DEF FP!LimitOf
      <4>3. FP!LimitOf(m, "S", w) = Len(dS[m][w]) + Len(dP[m][w])
        BY <1>3, <4>2
      <4> DEFINE a == Len(dS[m][w])
                 b == Len(dP[m][w])
      <4>4. a \in Nat /\ b \in Nat /\ FP!LimitOf(m, "S", w) = a + b
        BY <2>1, <4>3
      <4> HIDE DEF a, b
      <4>5. FP!LimitOf(m, "S", w) >= a
        BY <4>4
      <4> QED
        BY <4>5 DEF a
    <3> QED
      BY <3>3, <3>4
  <2>4. CASE << m, "P", w >> \notin DOMAIN fSetting.cap
    <3>1. << m, "S", w >> \notin DOMAIN fSetting.cap
      BY <1>5
    <3>2. /\ FP!LimitOf(m, "S", w) = Len(fGiven.s[m][w]) + Len(fGiven.p[m][w])
          /\ FP!LimitOf(m, "P", w) = Len(fGiven.s[m][w]) + Len(fGiven.p[m][w])
      BY <2>4, <3>1 DEF FP!LimitOf
    <3>3. /\ FP!LimitOf(m, "S", w) = Len(dS[m][w]) + Len(dP[m][w])
          /\ FP!LimitOf(m, "P", w) = Len(dS[m][w]) + Len(dP[m][w])
      BY <1>3, <3>2
    <3> DEFINE a == Len(dS[m][w])
               b == Len(dP[m][w])
    <3>4. /\ a \in Nat /\ b \in Nat
          /\ FP!LimitOf(m, "S", w) = a + b /\ FP!LimitOf(m, "P", w) = a + b
      BY <2>1, <3>3
    <3> HIDE DEF a, b
    <3>5. FP!LimitOf(m, "S", w) >= a /\ FP!LimitOf(m, "P", w) >= b
      BY <3>4
    <3> QED
      BY <3>5 DEF a, b
  <2> QED
    BY <2>3, <2>4
<1>7. ASSUME NEW w \in Weeks
      PROVE  /\ sP[m][w] = dP[m][w]
             /\ sS[m][w] = dS[m][w] \/ sI[m][w] = << >>
  <2>1. /\ FP!Pushed(m, w) /\ w \in FP!Weeks
        /\ IsPrefix(sP[m][w], dP[m][w]) /\ IsPrefix(sS[m][w], dS[m][w])
    BY <1>1, <1>3, AcceptedIsPrefix DEF FP!Weeks, Weeks
  <2>2. /\ sP[m][w] \in Seq(LotIds) /\ sS[m][w] \in Seq(LotIds)
        /\ dP[m][w] \in Seq(LotIds) /\ dS[m][w] \in Seq(LotIds)
    BY <1>2
  <2>3. ASSUME NEW type \in {"P", "S"}, FP!CommandsAt(m, w, type) = {}
        PROVE  FP!Accepted(m, w, type) = FP!Asked(m, w, type)
    BY <1>1, <1>4, <2>1, <2>3 DEF FP!CutLotsReported
  <2>4. ASSUME NEW r \in FP!CommandsAt(m, w, "P") PROVE sP[m][w] = dP[m][w]
    <3>1. Len(sP[m][w]) = FP!LimitOf(m, "P", w)
      BY <1>4 DEF FP!CutOnlyWhenForced, FP!CommandsAt
    <3>2. Len(sP[m][w]) >= Len(dP[m][w])
      BY <1>6, <3>1
    <3> QED
      BY <2>1, <2>2, <3>2, WholePrefix
  <2>5. ASSUME NEW r \in FP!CommandsAt(m, w, "S")
        PROVE  sS[m][w] = dS[m][w] \/ sI[m][w] = << >>
    <3>1. Len(sS[m][w]) = FP!LimitOf(m, "S", w) \/ sI[m][w] = << >>
      BY <1>4 DEF FP!CutOnlyWhenForced, FP!CommandsAt
    <3>2. CASE Len(sS[m][w]) = FP!LimitOf(m, "S", w)
      <4>1. Len(sS[m][w]) >= Len(dS[m][w])
        BY <1>6, <3>2
      <4> QED
        BY <2>1, <2>2, <4>1, WholePrefix
    <3> QED
      BY <3>1, <3>2
  <2> QED
    BY <1>3, <2>3, <2>4, <2>5 DEF FP!Accepted, FP!Asked
<1>8. \A w \in Weeks : Len(sI[m][w]) = Lots(sP, m, w) - Lots(sS, m, w)
  <2>1. StockUncut(m)
    BY <1>5 DEF StockUncut
  <2> QED
    BY <1>1, <1>3, <2>1, StockIsBalance
<1>9. \A w \in Weeks : Lots(sP, m, w) = Lots(dP, m, w)
  <2>1. BP!SameBuckets(dP, sP, m)
    BY <1>7, WeeksAre DEF BP!SameBuckets
  <2>2. BP!SumsAgree(dP, sP, m)
    BY <1>2, <2>1, WeeksAre, BP!LotsSame, BackwardAssumptions
  <2> QED
    BY <2>2, WeeksAre, LotsAre DEF BP!SumsAgree
<1> DEFINE short == [w \in Weeks |-> Cardinality(BP!Due(m, w))]
<1>10. /\ short \in [Weeks -> Nat]
       /\ \A w \in Weeks : short[w] = Cardinality(BP!Due(m, w))
  BY PlanIsReady
<1>11. ASSUME NEW w \in Weeks, w # 0 PROVE short[w - 1] <= short[w]
  <2>1. w - 1 \in Weeks
    BY <1>11, NWeeksAssumption DEF Weeks
  <2>2. BP!Due(m, w - 1) \subseteq BP!Due(m, w)
    <3>1. \A b \in backlog : b.week \in Int
      BY DEF TypeInv, BP!TypeOK, BP!Weeks
    <3> QED
      BY <3>1 DEF BP!Due, Weeks
  <2>3. IsFiniteSet(BP!Due(m, w))
    BY PlanIsReady
  <2>4. Cardinality(BP!Due(m, w - 1)) <= Cardinality(BP!Due(m, w))
    BY <2>2, <2>3, FS_Subset
  <2> QED
    BY <1>10, <2>1, <2>4
<1>12. ASSUME NEW w \in Weeks
       PROVE  \/ Len(sS[m][w]) = Len(dS[m][w])
              \/ Lots(dS, m, w) - Lots(sS, m, w) <= short[w]
  <2>1. CASE sS[m][w] = dS[m][w]
    BY <2>1
  <2>2. CASE sI[m][w] = << >>
    <3>1. Len(sI[m][w]) = 0
      BY <2>2
    <3>2. Lots(sS, m, w) \in Nat /\ Lots(dP, m, w) \in Nat /\ Lots(dS, m, w) \in Nat
      BY <1>2, WeeksAre, LotsAre, BP!LotsRecur, BackwardAssumptions
    <3>3. Lots(sS, m, w) = Lots(dP, m, w)
      BY <1>8, <1>9, <3>1, <3>2
    <3>4. Lots(dS, m, w) <= Lots(dP, m, w) + short[w] /\ short[w] \in Nat
      BY <1>10, PlanIsReady
    <3> HIDE DEF short
    <3> QED
      BY <3>2, <3>3, <3>4
  <2> QED
    BY <1>7, <2>1, <2>2
<1> HIDE DEF short
<1>13. BP!Falls(dS, sS, m, short)
  BY <1>11, <1>12, WeeksAre, LotsAre DEF BP!Falls
<1>14. \A w \in Weeks : Lots(dS, m, w) - Lots(sS, m, w) <= short[w]
  <2>1. \A w \in Weeks : BP!Lots(dS, m, w) - BP!Lots(sS, m, w) <= short[w]
    BY <1>2, <1>10, <1>13, WeeksAre, BP!FallsShort, BackwardAssumptions
  <2> QED
    BY <2>1, LotsAre
<1> QED
  BY <1>7, <1>10, <1>14

(* What the stages of the first run hand over.                             *)
FirstStage ==
  /\ stage = "allocate" => BP!Once(spS, Weeks) /\ NothingIn(dP) /\ NothingSupplied
  /\ stage = "backward" =>
       /\ BP!Demanded /\ NothingSupplied
       /\ IF bPhase = "idle" THEN NothingIn(dP) ELSE BP!TrimInv
  /\ stage \in {"bridge", "push"} => BP!PlanReady
  /\ stage = "bridge" /\ xPhase = "idle" => NothingSupplied
  /\ stage = "bridge" /\ xPhase \notin {"idle", "raised"} => NothingFound
  /\ stage = "push" /\ fPhase = "idle" /\ xSetting.policy # "s_only" =>
       PlanSupplied(sS, sI, sP)
  /\ stage = "push" /\ fPhase \notin {"idle", "raised"} /\ xSetting.policy # "s_only" =>
       PlanSupplied(fGiven.s, fGiven.i, fGiven.p)
  /\ stage = "done" => ShortfallBacklogged

Clean == (\A w \in Weeks : spS[w] = << >>) /\ NothingIn(dP) /\ NothingSupplied

FirstInv ==
  /\ runs \in Nat
  /\ source \in Sources
  /\ IF stage = "start" THEN runs = 0 => Clean ELSE runs > 0
  /\ stage # "start" /\ runs = 1 => FirstStage

LEMMA PlanSuppliedStays ==
  ASSUME UNCHANGED << dS, dP >>, NEW s, NEW i, NEW p
  PROVE  /\ PlanSupplied(s, i, p) /\ sS' = s /\ sI' = i /\ sP' = p => PlanSupplied(sS, sI, sP)'
         /\ PlanSupplied(s, i, p) /\ fGiven'.s = s /\ fGiven'.i = i /\ fGiven'.p = p =>
              PlanSupplied(fGiven.s, fGiven.i, fGiven.p)'
BY DEF PlanSupplied

(* The first run goes on: stage by stage.                                  *)
LEMMA FirstBackward ==
  ASSUME TypeInv, TypeInv', TurnsInv, RunInv, PlanBackward, FirstStage
  PROVE  FirstStage'
<1>1. BP!Next /\ stage = "backward"
  BY BackwardNext DEF PlanBackward
<1>2. /\ BP!Demanded /\ NothingSupplied /\ BackwardInv
      /\ IF bPhase = "idle" THEN NothingIn(dP) ELSE BP!TrimInv
  BY <1>1 DEF FirstStage, RunInv
<1>3. /\ UNCHANGED supply /\ UNCHANGED bridge
      /\ stage' = IF bPhase' = "idle" THEN "bridge" ELSE "backward"
  BY <1>1 DEF PlanBackward
<1>4. NothingSupplied'
  BY <1>2, <1>3 DEF NothingSupplied, NothingIn, supply
<1>5. dS' = dS
  BY <1>1 DEF BP!Next, BP!Call, BP!SkipMom, BP!BeginMom, BP!SkipWeek, BP!PlanWeek,
     BP!CheckRaises, BP!CheckWeek, BP!ShiftEarlier, BP!RecordBacklog, BP!NextCheckWeek,
     BP!EndMom, BP!Return, BP!tree
<1>6. BP!Demanded'
  BY <1>2, <1>5 DEF BP!Demanded, BP!Once
<1>7. CASE bPhase = "idle"
  <2>1. BP!Call
    BY <1>1, <1>7, BackwardTurns
  <2>2. BP!TrimInv' /\ bPhase' # "idle"
    BY <1>2, <1>7, <2>1, WeeksAre, BP!CallTrims, BackwardAssumptions
    DEF TypeInv, NothingIn, BP!NothingIn, BP!Call
  <2> QED
    BY <1>3, <1>4, <1>6, <2>2 DEF FirstStage
<1>8. CASE bPhase # "idle" /\ bPhase' # "idle"
  <2>1. BP!TrimInv'
    <3>1. BP!TypeOK /\ BP!TypeOK' /\ BP!OverflowInv /\ BP!Whole
      BY <1>2, WholeTree DEF TypeInv, BackwardInv, BP!Whole
    <3> QED
      BY <1>1, <1>2, <1>8, <3>1, BP!NextTrims, BackwardAssumptions
  <2> QED
    BY <1>3, <1>4, <1>6, <1>8, <2>1 DEF FirstStage
<1>9. CASE bPhase # "idle" /\ bPhase' = "idle"
  <2>1. BP!Return
    BY <1>1, <1>9, BackwardTurns
  <2>2. BP!PlanReady'
    <3>1. BP!TypeOK /\ BP!OverflowInv /\ BP!CapacityRespected /\ BP!Whole
      BY <1>2, WholeTree DEF TypeInv, BackwardInv, BP!Whole
    <3> QED
      BY <1>2, <1>9, <2>1, <3>1, BP!TrimEnds, BackwardAssumptions
  <2>3. xPhase' = "idle"
    BY <1>1, <1>3 DEF bridge, TurnsInv
  <2> QED
    BY <1>3, <1>4, <1>9, <2>2, <2>3 DEF FirstStage
<1> QED
  BY <1>7, <1>8, <1>9

LEMMA FirstBridge ==
  ASSUME TypeInv, TurnsInv, RunInv, BridgeB, FirstStage
  PROVE  FirstStage'
<1>1. XP!Next /\ Demand' = Demand /\ stage = "bridge" /\ BridgeInv
  BY BridgeNext DEF BridgeB, Demand, RunInv
<1>2. /\ UNCHANGED << dS, dP, backlog, bSetting, fPhase >>
      /\ stage' = IF xPhase' = "idle" THEN "push" ELSE "bridge"
  BY <1>1 DEF BridgeB, backward, push
<1>3. BP!PlanReady'
  BY <1>1, <1>2, BP!ReadyStays, BackwardAssumptions DEF FirstStage
<1>4. CASE xPhase = "idle" /\ XP!Call
  <2>1. NothingSupplied
    BY <1>1, <1>4 DEF FirstStage
  <2>2. xGiven'.supply = XP!Supply /\ xPhase' = "node"
    BY <1>4 DEF XP!Call
  <2>3. NothingFound'
    BY <2>1, <2>2 DEF NothingFound, NothingSupplied, NothingIn, XP!Supply
  <2> QED
    BY <1>2, <1>3, <2>2, <2>3 DEF FirstStage
<1>5. CASE xPhase = "idle" /\ XP!Refuse
  BY <1>2, <1>3, <1>5 DEF XP!Refuse, FirstStage
<1>6. CASE xPhase # "idle"
  <2>1. NothingFound /\ xPhase # "raised"
    BY <1>1, <1>6, BridgeTurns DEF FirstStage
  <2>2. xGiven' = xGiven /\ xSetting' = xSetting
    BY <1>1, <1>6 DEF XP!Next, XP!Replan, XP!Refuse, XP!Call, XP!SkipNode, XP!BeginNode,
       XP!SkipWeek, XP!ClearOnly, XP!CopyWeek, XP!Return, XP!result
  <2>3. NothingFound'
    BY <2>1, <2>2 DEF NothingFound, NothingIn
  <2>4. CASE xPhase' # "idle"
    BY <1>2, <1>3, <2>3, <2>4 DEF FirstStage
  <2>5. CASE xPhase' = "idle"
    <3>1. XP!Return
      BY <1>1, <2>5, BridgeTurns
    <3>2. sS' = sS /\ sI' = sI /\ sP' = sP
      BY <3>1 DEF XP!Return, XP!supply
    <3>3. xSetting.policy # "s_only" => PlanSupplied(sS, sI, sP)'
      <4>1. BP!PlanReady
        BY <1>1 DEF FirstStage
      <4>2. xSetting.policy # "s_only" => PlanSupplied(sS, sI, sP)
        BY <1>1, <2>1, <3>1, <4>1, BridgeBFirst
      <4> QED
        BY <1>2, <3>2, <4>2, PlanSuppliedStays
    <3>4. fPhase' = "idle"
      BY <1>1, <1>2 DEF TurnsInv
    <3> QED
      BY <1>2, <1>3, <2>2, <2>5, <3>3, <3>4 DEF FirstStage
  <2> QED
    BY <2>4, <2>5
<1> QED
  BY <1>1, <1>4, <1>5, <1>6, BridgeTurns

LEMMA FirstPush ==
  ASSUME TypeInv, TurnsInv, RunInv, PushForward, FirstStage
  PROVE  FirstStage'
<1>1. FP!Next /\ stage = "push" /\ PushInv /\ BP!PlanReady
  BY PushNext DEF PushForward, RunInv, FirstStage
<1>2. /\ UNCHANGED << dS, dP, backlog, bSetting, xSetting >>
      /\ stage' = IF fPhase' = "idle" THEN "done" ELSE "push"
  BY <1>1 DEF PushForward, backward, bridge
<1>3. BP!PlanReady'
  BY <1>1, <1>2, BP!ReadyStays, BackwardAssumptions
<1>4. CASE fPhase = "idle" /\ FP!Call
  <2>1. xSetting.policy # "s_only" => PlanSupplied(sS, sI, sP)
    BY <1>1, <1>4 DEF FirstStage
  <2>2. fGiven'.s = sS /\ fGiven'.i = sI /\ fGiven'.p = sP /\ fPhase' = "node"
    BY <1>4 DEF FP!Call
  <2>3. xSetting.policy # "s_only" => PlanSupplied(fGiven.s, fGiven.i, fGiven.p)'
    BY <1>2, <2>1, <2>2, PlanSuppliedStays
  <2> QED
    BY <1>2, <1>3, <2>2, <2>3 DEF FirstStage
<1>5. CASE fPhase = "idle" /\ FP!Refuse
  BY <1>2, <1>3, <1>5 DEF FP!Refuse, FirstStage
<1>6. CASE fPhase # "idle"
  <2>1. xSetting.policy # "s_only" => PlanSupplied(fGiven.s, fGiven.i, fGiven.p)
    BY <1>1, <1>6, PushTurns DEF FirstStage
  <2>2. fGiven' = fGiven
    BY <1>1, <1>6, FP!SettingStep, PushAssumptions DEF FP!Call
  <2>3. xSetting.policy # "s_only" => PlanSupplied(fGiven.s, fGiven.i, fGiven.p)'
    BY <1>2, <2>1, <2>2, PlanSuppliedStays
  <2>4. CASE fPhase' # "idle"
    BY <1>2, <1>3, <2>3, <2>4 DEF FirstStage
  <2>5. CASE fPhase' = "idle"
    <3>1. FP!Return
      BY <1>1, <2>5, PushTurns
    <3>2. UNCHANGED << sS, sP, fSetting >>
      BY <3>1 DEF FP!Return, FP!supply
    <3>3. ShortfallBacklogged'
      <4> SUFFICES ASSUME xSetting.policy # "s_only", PushAsFreeAsPlan',
                          NEW m \in Moms, NEW w \in Weeks
                   PROVE  (/\ sP[m][w] = dP[m][w]
                           /\ Lots(dS, m, w) - Lots(sS, m, w) <= Cardinality(BP!Due(m, w)))'
        BY <1>2 DEF ShortfallBacklogged
      <4>1. PushAsFreeAsPlan
        BY <1>2, <3>2 DEF PushAsFreeAsPlan, Backward!ResolvedCapacity
      <4>2. /\ sP[m][w] = dP[m][w]
            /\ Lots(dS, m, w) - Lots(sS, m, w) <= Cardinality(BP!Due(m, w))
        BY <1>1, <2>1, <3>1, <4>1, PushFirst
      <4>3. BP!Due(m, w)' = BP!Due(m, w)
        BY <1>2 DEF BP!Due
      <4>4. /\ sP'[m][w] = dP'[m][w]
            /\ Lots(dS', m, w) - Lots(sS', m, w) <= Cardinality(BP!Due(m, w)')
        BY <1>2, <3>2, <4>2, <4>3
      <4> QED
        BY <4>4 DEF Lots
    <3> QED
      BY <1>2, <2>5, <3>3 DEF FirstStage
  <2> QED
    BY <2>4, <2>5
<1> QED
  BY <1>1, <1>4, <1>5, <1>6, PushTurns

LEMMA FirstStutter ==
  ASSUME UNCHANGED vars, FirstInv
  PROVE  FirstInv'
<1>1. /\ UNCHANGED << stage, runs, source, spS, dS, dP, sS, sI, sP, xGiven, fGiven >>
      /\ UNCHANGED << bPhase, xPhase, fPhase, backlog, overflow, bTodo, bCur, bWeek >>
      /\ UNCHANGED << bSetting, xSetting, fSetting >>
  BY DEF vars, pipeline, backward, supply, bridge, push
<1>2. NothingSupplied' <=> NothingSupplied
  BY <1>1 DEF NothingSupplied, NothingIn
<1>3. Clean' <=> Clean
  BY <1>1, <1>2 DEF Clean, NothingIn
<1>4. BP!PlanReady => BP!PlanReady'
  BY <1>1, BP!ReadyStays, BackwardAssumptions
<1>5. BP!TrimInv => BP!TrimInv'
  BY <1>1, BP!TrimStays, BackwardAssumptions
<1>6. BP!Demanded' <=> BP!Demanded
  BY <1>1 DEF BP!Demanded, BP!Once
<1>7. /\ (NothingFound' <=> NothingFound) /\ (BP!Once(spS, Weeks)' <=> BP!Once(spS, Weeks))
      /\ (NothingIn(dP)' <=> NothingIn(dP))
      /\ PlanSupplied(sS, sI, sP)' <=> PlanSupplied(sS, sI, sP)
      /\ PlanSupplied(fGiven.s, fGiven.i, fGiven.p)' <=>
           PlanSupplied(fGiven.s, fGiven.i, fGiven.p)
  BY <1>1 DEF NothingFound, NothingIn, BP!Once, PlanSupplied
<1>8. ShortfallBacklogged' <=> ShortfallBacklogged
  <2>1. PushAsFreeAsPlan' <=> PushAsFreeAsPlan
    BY <1>1 DEF PushAsFreeAsPlan, Backward!ResolvedCapacity
  <2>2. \A m, w : /\ BP!Due(m, w)' = BP!Due(m, w)
                  /\ Lots(dS, m, w)' = Lots(dS, m, w) /\ Lots(sS, m, w)' = Lots(sS, m, w)
    BY <1>1 DEF BP!Due, Lots
  <2> QED
    BY <1>1, <2>1, <2>2 DEF ShortfallBacklogged
<1>9. FirstStage => FirstStage'
  BY <1>1, <1>2, <1>4, <1>5, <1>6, <1>7, <1>8 DEF FirstStage
<1> QED
  BY <1>1, <1>3, <1>9 DEF FirstInv

LEMMA NextFirst ==
  ASSUME EachLotOnce, TypeInv, TypeInv', TurnsInv, RunInv, FirstInv, [Next]_vars
  PROVE  FirstInv'
<1>1. CASE BridgeA
  <2>1. /\ stage = "start" /\ stage' = "allocate" /\ runs' = runs + 1 /\ source' = source
        /\ dP' = dP /\ UNCHANGED supply
    BY <1>1 DEF BridgeA
  <2>2. ASSUME runs' = 1 PROVE FirstStage'
    <3>1. Clean
      BY <2>1, <2>2 DEF FirstInv
    <3>2. BP!Once(spS', Weeks)
      BY <1>1, <3>1, BridgeAFirst DEF FirstInv, EachLotOnce, Clean
    <3>3. NothingIn(dP)' /\ NothingSupplied' /\ BP!Once(spS, Weeks)'
      BY <2>1, <3>1, <3>2 DEF Clean, NothingSupplied, NothingIn, supply, BP!Once
    <3> QED
      BY <2>1, <3>3 DEF FirstStage
  <2> QED
    BY <2>1, <2>2 DEF FirstInv
<1>2. CASE Allocate
  <2>1. /\ stage = "allocate" /\ stage' = "backward" /\ runs' = runs /\ source' = source
        /\ dP' = dP /\ UNCHANGED supply /\ UNCHANGED backward
    BY <1>2 DEF Allocate
  <2>2. ASSUME runs = 1 PROVE FirstStage'
    <3>1. BP!Once(spS, Weeks) /\ NothingIn(dP) /\ NothingSupplied
      BY <2>1, <2>2 DEF FirstInv, FirstStage
    <3>2. BP!Demanded'
      BY <1>2, <3>1, AllocateFirst
    <3>3. NothingIn(dP)' /\ NothingSupplied'
      BY <2>1, <3>1 DEF NothingSupplied, NothingIn, supply
    <3>4. bPhase' = "idle"
      BY <2>1 DEF TurnsInv, backward
    <3> QED
      BY <2>1, <3>2, <3>3, <3>4 DEF FirstStage
  <2> QED
    BY <2>1, <2>2 DEF FirstInv
<1>3. CASE PlanBackward
  <2>1. runs' = runs /\ source' = source /\ stage = "backward" /\ stage' # "start"
    BY <1>3 DEF PlanBackward
  <2> QED
    BY <1>3, <2>1, FirstBackward DEF FirstInv
<1>4. CASE BridgeB
  <2>1. runs' = runs /\ source' = source /\ stage = "bridge" /\ stage' # "start"
    BY <1>4 DEF BridgeB
  <2> QED
    BY <1>4, <2>1, FirstBridge DEF FirstInv
<1>5. CASE PushForward
  <2>1. runs' = runs /\ source' = source /\ stage = "push" /\ stage' # "start"
    BY <1>5 DEF PushForward
  <2> QED
    BY <1>5, <2>1, FirstPush DEF FirstInv
<1>6. CASE RunAgain
  <2>1. runs' = runs /\ source' \in Sources /\ stage = "done" /\ stage' = "start"
    BY <1>6 DEF RunAgain
  <2> QED
    BY <2>1 DEF FirstInv
<1>7. CASE UNCHANGED vars
  BY <1>7, FirstStutter
<1> QED
  BY <1>1, <1>2, <1>3, <1>4, <1>5, <1>6, <1>7 DEF Next

LEMMA InitFirst == Init => FirstInv
<1> SUFFICES ASSUME Init PROVE FirstInv
  OBVIOUS
<1>1. BP!Init /\ FP!Init
  BY BeginsAsComponents DEF Init
<1>2. NothingIn(dP)
  BY <1>1 DEF BP!Init, NothingIn, NoLots
<1>3. NothingSupplied
  BY <1>1 DEF FP!Init, NothingSupplied, NothingIn, NoLots, Nodes
<1> QED
  BY <1>2, <1>3 DEF Init, FirstInv, Clean

(* When lot identifiers are unique, a first run on a clean tree whose push *)
(* has the capacity the plan was made for executes the whole plan: it cuts *)
(* no production, and up to every week it ships no fewer lots of a MOM     *)
(* than its demand less what the planning has backlogged by then.          *)
THEOREM ShortfallIsPlanned == EachLotOnce => (Spec => []ShortfallIsBacklog)
<1> SUFFICES ASSUME EachLotOnce PROVE Spec => []ShortfallIsBacklog
  OBVIOUS
<1> DEFINE Inv == TypeInv /\ TurnsInv /\ RunInv /\ FirstInv
<1>1. Init => Inv
  BY InitTypes, InitRun, InitFirst
<1>2. Inv /\ [Next]_vars => Inv'
  BY NextTypes, NextRun, NextFirst
<1>3. Inv => ShortfallIsBacklog
  BY DEF FirstInv, FirstStage, ShortfallBacklogged, ShortfallIsBacklog, BP!Due
<1> HIDE DEF Inv
<1> QED
  BY <1>1, <1>2, <1>3, PTL DEF Spec
=============================================================================
