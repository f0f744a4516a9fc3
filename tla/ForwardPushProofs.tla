------------------------- MODULE ForwardPushProofs -------------------------
(***************************************************************************)
(* Proofs about ForwardPush, for every tree, capacity table, number of     *)
(* weeks and number of pushes.                                             *)
(***************************************************************************)
EXTENDS ForwardPush, SequenceTheorems, TLAPS

----------------------------------------------------------------------------
(* Slices                                                                  *)

(* A Python slice bound falls inside the bucket, and the two slices it     *)
(* makes are buckets that put together are the bucket again.               *)
LEMMA SliceFacts ==
  ASSUME NEW S, NEW q \in Seq(S), NEW n \in Int
  PROVE  /\ Len(q) \in Nat
         /\ Bound(q, n) \in 0 .. Len(q)
         /\ SliceTo(q, n) \in Seq(S)
         /\ SliceFrom(q, n) \in Seq(S)
         /\ Len(SliceTo(q, n)) = Bound(q, n)
         /\ Len(SliceFrom(q, n)) = Len(q) - Bound(q, n)
         /\ \A i \in 1 .. Bound(q, n) : SliceTo(q, n)[i] = q[i]
         /\ \A i \in 1 .. Len(q) - Bound(q, n) :
              SliceFrom(q, n)[i] = q[i + Bound(q, n)]
<1>1. Len(q) \in Nat /\ Bound(q, n) \in 0 .. Len(q)
  BY DEF Bound, Lesser, Greater
<1>2. /\ SliceTo(q, n) \in Seq(S)
      /\ Len(SliceTo(q, n)) = Bound(q, n)
      /\ \A i \in 1 .. Bound(q, n) : SliceTo(q, n)[i] = q[i]
  BY <1>1, SubSeqProperties DEF SliceTo
<1>3. /\ SliceFrom(q, n) \in Seq(S)
      /\ Len(SliceFrom(q, n)) = Len(q) - Bound(q, n)
      /\ \A i \in 1 .. Len(q) - Bound(q, n) :
           SliceFrom(q, n)[i] = q[i + Bound(q, n)]
  BY <1>1, SubSeqProperties DEF SliceFrom
<1>4. QED
  BY <1>1, <1>2, <1>3

(* What is kept and what is cut, put together, is the bucket again.        *)
LEMMA SlicesJoin ==
  ASSUME NEW S, NEW q \in Seq(S), NEW n \in Int
  PROVE  SliceTo(q, n) \o SliceFrom(q, n) = q
<1> DEFINE a == SliceTo(q, n)
           b == SliceFrom(q, n)
           k == Bound(q, n)
<1>1. /\ a \in Seq(S) /\ b \in Seq(S) /\ k \in 0 .. Len(q) /\ Len(q) \in Nat
      /\ Len(a) = k /\ Len(b) = Len(q) - k
      /\ \A i \in 1 .. k : a[i] = q[i]
      /\ \A i \in 1 .. Len(q) - k : b[i] = q[i + k]
  BY SliceFacts, Zenon
<1> HIDE DEF a, b, k
<1>2. a \o b \in Seq(S) /\ Len(a \o b) = Len(q)
  BY <1>1
<1>3. \A i \in 1 .. Len(q) : (a \o b)[i] = q[i]
  <2> SUFFICES ASSUME NEW i \in 1 .. Len(q) PROVE (a \o b)[i] = q[i]
    OBVIOUS
  <2>1. CASE i <= k
    BY <1>1, <2>1
  <2>2. CASE i > k
    <3>1. (a \o b)[i] = b[i - k] /\ i - k \in 1 .. Len(q) - k
      BY <1>1, <2>2
    <3>2. QED
      BY <1>1, <3>1
  <2>3. QED
    BY <1>1, <2>1, <2>2
<1>4. QED
  BY <1>2, <1>3, SeqEqual DEF a, b

(* A slice holds only what the bucket holds.                               *)
LEMMA SliceHolds ==
  ASSUME NEW S, NEW q \in Seq(S), NEW n \in Int, NEW x
  PROVE  /\ Holds(SliceTo(q, n), x) => Holds(q, x)
         /\ Holds(SliceFrom(q, n), x) => Holds(q, x)
<1> DEFINE a == SliceTo(q, n)
           b == SliceFrom(q, n)
           k == Bound(q, n)
<1>0. /\ a \in Seq(S) /\ b \in Seq(S) /\ k \in 0 .. Len(q) /\ Len(q) \in Nat
      /\ Len(a) = k /\ Len(b) = Len(q) - k
      /\ \A i \in 1 .. k : a[i] = q[i]
      /\ \A i \in 1 .. Len(q) - k : b[i] = q[i + k]
  BY SliceFacts, Zenon
<1> HIDE DEF a, b, k
<1>1. ASSUME Holds(a, x) PROVE Holds(q, x)
  <2>1. PICK i \in 1 .. k : a[i] = x
    BY <1>0, <1>1 DEF Holds
  <2>2. i \in DOMAIN q /\ q[i] = x
    BY <1>0, <2>1
  <2>3. QED
    BY <2>2 DEF Holds
<1>2. ASSUME Holds(b, x) PROVE Holds(q, x)
  <2>1. PICK i \in 1 .. Len(q) - k : b[i] = x
    BY <1>0, <1>2 DEF Holds
  <2>2. i + k \in DOMAIN q /\ q[i + k] = x
    BY <1>0, <2>1
  <2>3. QED
    BY <2>2 DEF Holds
<1>3. QED
  BY <1>1, <1>2 DEF a, b, k

(* Putting two buckets one behind the other adds no lot.                   *)
LEMMA JoinHolds ==
  ASSUME NEW S, NEW q \in Seq(S), NEW r \in Seq(S), NEW x, Holds(q \o r, x)
  PROVE  Holds(q, x) \/ Holds(r, x)
<1>1. PICK i \in 1 .. Len(q) + Len(r) : (q \o r)[i] = x
  BY DEF Holds
<1>2. QED
  BY <1>1 DEF Holds

----------------------------------------------------------------------------
(* Type correctness                                                        *)

(* The numbers the loops run over.                                         *)
LEMMA WeekFacts ==
  /\ 0 \in Weeks
  /\ \A w \in Weeks : w \in Int /\ w >= 0 /\ w < NWeeks
  /\ \A w \in Weeks : w + 1 < NWeeks => w + 1 \in Weeks
BY NWeeksAssumption DEF Weeks

(* The capacity of the week being pushed, where there is one.              *)
LEMMA CapType ==
  ASSUME TypeOK, NEW type
  PROVE  /\ Limited(type) => Cap(type) \in Int
         /\ \A k \in Nat : /\ Admit(type, k) \in 0 .. k
                           /\ ~ Limited(type) => Admit(type, k) = k
                           /\ Limited(type) =>
                                Admit(type, k) = Greater(0, Lesser(Cap(type), k))
<1>1. Limited(type) => Cap(type) \in Int
  BY DEF TypeOK, IsSetting, Limited, Cap
<1>2. QED
  BY <1>1 DEF Admit, Greater, Lesser

(* While a node is pushed, all parts of the week's split are buckets, and  *)
(* their lengths balance.                                                  *)
LEMMA WeekType ==
  ASSUME TypeOK, phase = "push"
  PROVE  /\ cur \in Nodes /\ week \in Weeks
         /\ sP[cur][week] \in Seq(LotIds) /\ sS[cur][week] \in Seq(LotIds)
         /\ sI[cur][week] \in Seq(LotIds)
         /\ Beginning \in Seq(LotIds) /\ Stock \in Seq(LotIds)
         /\ Made \in Seq(LotIds) /\ Unmade \in Seq(LotIds)
         /\ Shipped \in Seq(LotIds) /\ Unshipped \in Seq(LotIds)
         /\ Left \in Seq(LotIds) /\ Over \in Seq(LotIds) /\ Kept \in Seq(LotIds)
         /\ Len(Made) = Admit("P", Len(sP[cur][week]))
         /\ Len(Stock) = Len(Beginning) + Len(Made)
         /\ ShipLimit \in Nat
         /\ Len(Shipped) = ShipLimit
         /\ Len(Left) = Len(Stock) - ShipLimit
<1>1. /\ cur \in Nodes /\ week \in Weeks
      /\ sP[cur][week] \in Seq(LotIds) /\ sS[cur][week] \in Seq(LotIds)
      /\ sI[cur][week] \in Seq(LotIds) /\ Beginning \in Seq(LotIds)
  BY DEF TypeOK, Buckets, Beginning
<1>2. /\ Len(sP[cur][week]) \in Nat /\ Len(sS[cur][week]) \in Nat
      /\ Admit("P", Len(sP[cur][week])) \in 0 .. Len(sP[cur][week])
      /\ Admit("S", Len(sS[cur][week])) \in 0 .. Len(sS[cur][week])
  <2>1. Len(sP[cur][week]) \in Nat /\ Len(sS[cur][week]) \in Nat
    BY <1>1
  <2>2. QED
    BY <2>1, CapType
<1> DEFINE p == sP[cur][week]
           r == sS[cur][week]
           ap == Admit("P", Len(p))
<1>3. /\ Made \in Seq(LotIds) /\ Unmade \in Seq(LotIds)
      /\ Len(Made) = Bound(p, ap)
  <2>1. p \in Seq(LotIds) /\ ap \in Int
    BY <1>1, <1>2
  <2>2. /\ SliceTo(p, ap) \in Seq(LotIds) /\ SliceFrom(p, ap) \in Seq(LotIds)
        /\ Len(SliceTo(p, ap)) = Bound(p, ap)
    BY <2>1, SliceFacts, Zenon
  <2>3. QED
    BY <2>2 DEF Made, Unmade
<1>4. Len(Made) = Admit("P", Len(sP[cur][week]))
  BY <1>2, <1>3 DEF Bound, Lesser
<1>5. Stock \in Seq(LotIds) /\ Len(Stock) = Len(Beginning) + Len(Made)
  <2>1. Beginning \in Seq(LotIds) /\ Made \in Seq(LotIds)
    BY <1>1, <1>3
  <2> HIDE DEF p, ap
  <2>2. QED
    BY <2>1, ConcatProperties DEF Stock
<1>6. /\ ShipLimit \in Nat /\ ShipLimit <= Len(sS[cur][week])
      /\ ShipLimit <= Len(Stock)
  <2>1. Len(Stock) \in Nat
    BY <1>5
  <2>2. QED
    BY <1>2, <2>1 DEF ShipLimit, Lesser
<1>7. /\ Shipped \in Seq(LotIds) /\ Unshipped \in Seq(LotIds)
      /\ Left \in Seq(LotIds)
      /\ Len(Shipped) = Bound(r, ShipLimit)
      /\ Len(Left) = Len(Stock) - Bound(Stock, ShipLimit)
  <2>1. r \in Seq(LotIds) /\ Stock \in Seq(LotIds) /\ ShipLimit \in Int
    BY <1>1, <1>5, <1>6
  <2>2. /\ SliceTo(r, ShipLimit) \in Seq(LotIds)
        /\ SliceFrom(r, ShipLimit) \in Seq(LotIds)
        /\ SliceFrom(Stock, ShipLimit) \in Seq(LotIds)
        /\ Len(SliceTo(r, ShipLimit)) = Bound(r, ShipLimit)
        /\ Len(SliceFrom(Stock, ShipLimit)) = Len(Stock) - Bound(Stock, ShipLimit)
    BY <2>1, SliceFacts, Zenon
  <2>3. QED
    BY <2>2 DEF Shipped, Unshipped, Left
<1>8. Len(Shipped) = ShipLimit /\ Len(Left) = Len(Stock) - ShipLimit
  <2>1. Bound(r, ShipLimit) = ShipLimit /\ Bound(Stock, ShipLimit) = ShipLimit
    <3>1. Len(r) \in Nat /\ Len(Stock) \in Nat
      BY <1>1, <1>5
    <3>2. QED
      BY <3>1, <1>6 DEF Bound, Lesser
  <2>2. QED
    BY <1>7, <2>1
<1>9. Over \in Seq(LotIds) /\ Kept \in Seq(LotIds)
  <2>1. CASE ~Overfull
    BY <1>7, <2>1 DEF Over, Kept
  <2>2. CASE Overfull
    <3>1. Cap("I") \in Int /\ Left \in Seq(LotIds)
      BY <1>7, <2>2, CapType DEF Overfull
    <3>2. /\ SliceFrom(Left, Cap("I")) \in Seq(LotIds)
          /\ SliceTo(Left, Cap("I")) \in Seq(LotIds)
      BY <3>1, SliceFacts, Zenon
    <3>3. QED
      BY <3>1, <3>2 DEF Over, Kept
  <2>3. QED
    BY <2>1, <2>2
<1>10. QED
  BY <1>1, <1>3, <1>4, <1>5, <1>6, <1>7, <1>8, <1>9

Counts == [nodes : Nat, weeks : Nat, made : Nat, unmade : Nat,
           shipped : Nat, unshipped : Nat, over : Nat]

(* The counters only ever grow by natural numbers.                         *)
LEMMA CountsGrow ==
  ASSUME NEW c \in Counts, NEW a \in Nat, NEW b \in Nat, NEW d \in Nat,
         NEW e \in Nat, NEW f \in Nat
  PROVE  /\ [c EXCEPT !.nodes = @ + 1] \in Counts
         /\ [c EXCEPT !.weeks = @ + 1, !.made = @ + a, !.unmade = @ + b,
                      !.shipped = @ + d, !.unshipped = @ + e, !.over = @ + f]
              \in Counts
<1>1. /\ c.nodes + 1 \in Nat /\ c.weeks + 1 \in Nat /\ c.made + a \in Nat
      /\ c.unmade + b \in Nat /\ c.shipped + d \in Nat
      /\ c.unshipped + e \in Nat /\ c.over + f \in Nat
  BY DEF Counts
<1>2. QED
  BY <1>1, Zenon DEF Counts

(* The initial states are well typed.                                      *)
LEMMA InitType == Init => TypeOK
<1> SUFFICES ASSUME Init PROVE TypeOK
  OBVIOUS
<1>1. PICK i \in Inputs :
        /\ sS = i.s /\ sI = i.i /\ sP = i.p /\ setting = i.setting
        /\ given = [s |-> i.s, i |-> i.i, p |-> i.p]
  BY DEF Init
<1>2. /\ sS \in Buckets /\ sI \in Buckets /\ sP \in Buckets
      /\ IsSetting(setting) /\ given \in [s : Buckets, i : Buckets, p : Buckets]
  BY <1>1, InputsAssumption DEF IsSetting
<1>3. /\ phase = "idle" /\ calls = 0 /\ todo = Nodes /\ cur = NoNode /\ week = 0
      /\ started = FALSE /\ prev = << >> /\ count = Zero /\ usage = {}
      /\ violations = {} /\ replans = {}
  BY DEF Init
<1>4. count \in Counts
  BY <1>3 DEF Counts, Zero
<1>5. prev \in Seq(LotIds) /\ calls \in 0 .. MaxCalls
  BY <1>3, MaxCallsAssumption
<1>6. QED
  BY <1>2, <1>3, <1>4, <1>5, WeekFacts DEF TypeOK, Counts

(* NextWeek stays inside the weeks of the node, or leaves it.              *)
LEMMA NextWeekType ==
  ASSUME TypeOK, phase = "push", NextWeek, cur' = cur, setting' = setting
  PROVE  /\ week' \in Weeks /\ todo' \subseteq Nodes
         /\ phase' \in {"node", "push"}
         /\ phase' = "push" => cur' \in todo' \ setting'.noPsi
                               /\ week' < setting'.span[cur']
<1>1. /\ cur \in Nodes /\ week \in Weeks /\ week \in Int /\ week < NWeeks
      /\ setting.span[cur] \in 0 .. NWeeks
  BY WeekFacts DEF TypeOK, IsSetting
<1>2. CASE week + 1 < setting.span[cur]
  <2>1. week + 1 \in Weeks
    BY <1>1, <1>2, NWeeksAssumption, WeekFacts
  <2>2. QED
    BY <1>1, <1>2, <2>1 DEF NextWeek, TypeOK
<1>3. CASE ~(week + 1 < setting.span[cur])
  BY <1>1, <1>3 DEF NextWeek, TypeOK
<1>4. QED
  BY <1>2, <1>3

(* The records a pushed week adds are well formed.                         *)
LEMMA RecordsType ==
  ASSUME TypeOK, PushWeek
  PROVE  /\ Cuts \subseteq { r \in Reports : r.type # "I" }
         /\ OverReport \subseteq Reports
         /\ { Command(r) : r \in Cuts } \subseteq Commands
         /\ \A type \in Types, n \in Nat :
              Used(type, n) \subseteq [node : Nodes, week : Weeks, type : Types,
                                       capacity : Int, used : Nat]
<1>1. phase = "push"
  BY DEF PushWeek
<1>2. /\ cur \in Nodes /\ week \in Weeks
      /\ Unmade \in Seq(LotIds) /\ Unshipped \in Seq(LotIds) /\ Over \in Seq(LotIds)
  BY <1>1, WeekType
<1>3. \A type \in {"P", "S"}, lots \in Seq(LotIds) :
        Cut(type, lots) \subseteq { r \in Reports : r.type # "I" }
  BY <1>2 DEF Cut, Report, Reports, Types
<1>4. Cuts \subseteq { r \in Reports : r.type # "I" }
  BY <1>2, <1>3 DEF Cuts
<1>5. OverReport \subseteq Reports
  BY <1>2 DEF OverReport, Report, Reports, Types
<1>6. { Command(r) : r \in Cuts } \subseteq Commands
  BY <1>4 DEF Command, Commands, Reports, Types
<1>7. ASSUME NEW type \in Types, NEW n \in Nat
      PROVE  Used(type, n) \subseteq [node : Nodes, week : Weeks, type : Types,
                                      capacity : Int, used : Nat]
  <2>1. Limited(type) => Cap(type) \in Int
    BY CapType
  <2>2. QED
    BY <1>2, <2>1 DEF Used
<1>8. QED
  BY <1>4, <1>5, <1>6, <1>7

(* Every step keeps the types.                                             *)
LEMMA NextType == TypeOK /\ [Next]_vars => TypeOK'
<1> SUFFICES ASSUME TypeOK, [Next]_vars PROVE TypeOK'
  OBVIOUS
<1> USE DEF supply, result
<1>1. CASE Refuse
  BY <1>1 DEF Refuse, TypeOK
<1>2. CASE Call
  BY <1>2, MaxCallsAssumption DEF Call, TypeOK, Zero
<1>3. ASSUME NEW n \in Nodes, SkipNode(n) PROVE TypeOK'
  BY <1>3 DEF SkipNode, TypeOK
<1>4. ASSUME NEW n \in Nodes, BeginNode(n) PROVE TypeOK'
  <2>1. count' \in Counts
    BY <1>4, CountsGrow DEF BeginNode, TypeOK, Counts
  <2>2. /\ supply' = supply /\ setting' = setting /\ given' = given
        /\ calls' = calls /\ todo' = todo /\ usage' = usage
        /\ violations' = violations /\ replans' = replans
        /\ cur' = n /\ week' = 0 /\ started' = FALSE /\ prev' = << >>
        /\ phase' = "push" /\ n \in todo \ setting.noPsi /\ setting.span[n] > 0
    BY <1>4 DEF BeginNode
  <2>3. cur' \in todo' \ setting'.noPsi /\ week' < setting'.span[cur']
    <3>1. setting.span[n] \in Int
      BY DEF TypeOK, IsSetting
    <3>2. QED
      BY <2>2, <3>1
  <2>4. prev' \in Seq(LotIds) /\ week' \in Weeks /\ cur' \in Nodes
    BY <2>2, WeekFacts
  <2>5. QED
    BY <2>1, <2>2, <2>3, <2>4 DEF TypeOK, Counts
<1>5. CASE SkipWeek
  <2>1. phase = "push" /\ NextWeek /\ cur' = cur /\ setting' = setting
    BY <1>5, Zenon DEF SkipWeek
  <2>2. QED
    BY <1>5, <2>1, NextWeekType DEF SkipWeek, TypeOK
<1>6. CASE PushWeek
  <2>1. phase = "push" /\ NextWeek /\ cur' = cur /\ setting' = setting
    BY <1>6, Zenon DEF PushWeek
  <2>2. /\ cur \in Nodes /\ week \in Weeks /\ Made \in Seq(LotIds)
        /\ Shipped \in Seq(LotIds) /\ Kept \in Seq(LotIds)
        /\ Unmade \in Seq(LotIds) /\ Unshipped \in Seq(LotIds) /\ Over \in Seq(LotIds)
    BY <2>1, WeekType
  <2>3. sP' \in Buckets /\ sS' \in Buckets /\ sI' \in Buckets
    BY <1>6, <2>2 DEF PushWeek, TypeOK, Buckets
  <2>4. count' \in Counts
    <3>1. /\ Len(Made) \in Nat /\ Len(Unmade) \in Nat /\ Len(Shipped) \in Nat
          /\ Len(Unshipped) \in Nat /\ Len(Over) \in Nat /\ count \in Counts
      BY <2>2 DEF TypeOK, Counts
    <3>2. count' = [count EXCEPT !.weeks = @ + 1,
                                 !.made = @ + Len(Made),
                                 !.unmade = @ + Len(Unmade),
                                 !.shipped = @ + Len(Shipped),
                                 !.unshipped = @ + Len(Unshipped),
                                 !.over = @ + Len(Over)]
      BY <1>6 DEF PushWeek
    <3>3. QED
      BY <3>1, <3>2, CountsGrow
  <2>5. /\ violations' \subseteq Reports /\ replans' \subseteq Commands
        /\ usage' \subseteq [node : Nodes, week : Weeks, type : Types,
                             capacity : Int, used : Nat]
    <3>1. Len(Made) \in Nat /\ Len(Shipped) \in Nat /\ Len(Kept) \in Nat
      BY <2>2
    <3>2. QED
      BY <1>6, <3>1, RecordsType DEF PushWeek, TypeOK, Types
  <2>6. QED
    BY <1>6, <2>1, <2>2, <2>3, <2>4, <2>5, NextWeekType
       DEF PushWeek, TypeOK, Counts
<1>7. CASE Return
  BY <1>7 DEF Return, TypeOK
<1>8. CASE UNCHANGED vars
  BY <1>8 DEF vars, TypeOK, IsSetting
<1>9. QED
  BY <1>1, <1>2, <1>3, <1>4, <1>5, <1>6, <1>7, <1>8 DEF Next

(* Type correctness: whatever the tree and its capacities, also negative   *)
(* ones, every bucket stays a sequence of lot ids.                         *)
THEOREM TypeCorrect == Spec => []TypeOK
<1>1. QED
  BY InitType, NextType, PTL DEF Spec
----------------------------------------------------------------------------
(* What a step does to a week                                              *)

(* No step changes the capacities, the mode or the shape of the tree, and  *)
(* only a new push changes what is remembered of the tree it found.        *)
LEMMA SettingStep ==
  ASSUME [Next]_vars
  PROVE  setting' = setting /\ (Call \/ given' = given)
BY DEF Next, vars, supply, result, Refuse, Call, SkipNode, BeginNode, SkipWeek,
       PushWeek, Return

(* Only PushWeek writes buckets, and only those of the week it pushes.     *)
LEMMA BucketStep ==
  ASSUME TypeOK, [Next]_vars, NEW n \in Nodes, NEW w \in Weeks
  PROVE  \/ /\ sP'[n][w] = sP[n][w] /\ sS'[n][w] = sS[n][w] /\ sI'[n][w] = sI[n][w]
            /\ ~ (PushWeek /\ n = cur /\ w = week)
         \/ /\ PushWeek /\ n = cur /\ w = week
            /\ sP'[n][w] = Made /\ sS'[n][w] = Shipped /\ sI'[n][w] = Kept
<1> USE DEF supply, result
<1>1. CASE PushWeek
  <2>1. /\ sP' = [sP EXCEPT ![cur][week] = Made]
        /\ sS' = [sS EXCEPT ![cur][week] = Shipped]
        /\ sI' = [sI EXCEPT ![cur][week] = Kept]
    BY <1>1 DEF PushWeek
  <2>2. sP \in Buckets /\ sS \in Buckets /\ sI \in Buckets
    BY DEF TypeOK
  <2>3. CASE n = cur /\ w = week
    BY <1>1, <2>1, <2>2, <2>3 DEF Buckets
  <2>4. CASE ~ (n = cur /\ w = week)
    BY <2>1, <2>2, <2>4 DEF Buckets
  <2> QED
    BY <2>3, <2>4
<1>2. CASE ~PushWeek
  <2>1. supply' = supply
    BY <1>2 DEF Next, vars, Refuse, Call, SkipNode, BeginNode, SkipWeek, Return
  <2>2. QED
    BY <1>2, <2>1
<1>3. QED
  BY <1>1, <1>2

(* The week being pushed has not been pushed yet.                          *)
LEMMA CurrentWeek ==
  ASSUME TypeOK, phase = "push"
  PROVE  /\ ~ Pushed(cur, week)
         /\ \A w \in Weeks : Pushed(cur, w) => w < week
<1>1. cur \in todo /\ week \in Int
  BY WeekFacts DEF TypeOK
<1>2. QED
  BY <1>1 DEF Pushed

(* A week pushed after a step was pushed before it, or by it; a new push   *)
(* starts with none.                                                       *)
LEMMA PushedStep ==
  ASSUME TypeOK, [Next]_vars, NEW n \in Nodes, NEW w \in Weeks, Pushed(n, w)'
  PROVE  /\ given' = given
         /\ \/ Pushed(n, w) /\ ~ (PushWeek /\ n = cur /\ w = week)
            \/ PushWeek /\ n = cur /\ w = week
<1> USE DEF supply, result
<1>0. w \in Int /\ n \in Nodes /\ setting' = setting
  BY WeekFacts, SettingStep
<1>1. CASE Call
  BY <1>1 DEF Call, Pushed
<1>2. CASE Refuse \/ Return
  BY <1>0, <1>2 DEF Refuse, Return, Pushed, PushWeek
<1>3. ASSUME NEW m \in Nodes, SkipNode(m)
      PROVE  given' = given /\ Pushed(n, w) /\ ~ PushWeek
  <2>1. /\ phase = "node" /\ phase' = "node" /\ todo' = todo \ {m}
        /\ calls' = calls /\ given' = given /\ setting' = setting
        /\ m \in setting.noPsi \/ setting.span[m] = 0
    BY <1>3, SettingStep DEF SkipNode
  <2>2. ~ PushWeek
    BY <2>1 DEF PushWeek
  <2>3. w >= 0
    BY WeekFacts
  <2>4. QED
    BY <1>0, <2>1, <2>2, <2>3 DEF Pushed
<1>4. ASSUME NEW m \in Nodes, BeginNode(m)
      PROVE  given' = given /\ Pushed(n, w) /\ ~ PushWeek
  <2>1. /\ phase = "node" /\ phase' = "push" /\ todo' = todo /\ week' = 0
        /\ calls' = calls /\ given' = given /\ setting' = setting
    BY <1>4, SettingStep DEF BeginNode
  <2>2. ~ PushWeek
    BY <2>1 DEF PushWeek
  <2>3. w >= 0
    BY WeekFacts
  <2>4. QED
    BY <1>0, <2>1, <2>2, <2>3 DEF Pushed
<1>5. CASE SkipWeek \/ PushWeek
  <2>1. /\ phase = "push" /\ cur' = cur /\ given' = given /\ calls' = calls
        /\ SkipWeek => << cur, week >> \in setting.bad
    BY <1>5 DEF SkipWeek, PushWeek
  <2>2. NextWeek
    BY <1>5, Zenon DEF SkipWeek, PushWeek
  <2>3. /\ cur \in Nodes /\ week \in Int /\ setting.span[cur] \in Int
        /\ cur \in todo
    BY <2>1, WeekFacts DEF TypeOK, IsSetting
  <2>4. CASE n # cur
    <3>1. n \notin todo \cup setting.noPsi /\ w < setting.span[n]
      BY <1>0, <2>1, <2>2, <2>4 DEF Pushed, NextWeek
    <3>2. << n, w >> \notin setting.bad
      BY <1>0, <2>1 DEF Pushed
    <3>3. QED
      BY <2>1, <2>4, <3>1, <3>2 DEF Pushed
  <2>5. CASE n = cur
    <3>1. w <= week
      <4>1. CASE week + 1 < setting.span[cur]
        <5>1. week' = week + 1 /\ todo' = todo
          BY <2>2, <4>1 DEF NextWeek
        <5>2. w < week'
          BY <2>1, <2>3, <2>5, <5>1 DEF Pushed
        <5>3. QED
          BY <1>0, <2>3, <5>1, <5>2
      <4>2. CASE ~ (week + 1 < setting.span[cur])
        <5>1. phase' = "node"
          BY <2>2, <4>2 DEF NextWeek
        <5>2. w < setting.span[cur]
          BY <1>0, <2>5, <5>1 DEF Pushed
        <5>3. QED
          BY <1>0, <2>3, <4>2, <5>2
      <4>3. QED
        BY <4>1, <4>2
    <3>2. << n, w >> \notin setting.bad
      BY <1>0, <2>1 DEF Pushed
    <3>3. CASE w < week
      BY <1>0, <2>1, <2>5, <3>2, <3>3 DEF Pushed
    <3>4. CASE w = week
      BY <1>5, <2>1, <2>5, <3>2, <3>4
    <3>5. QED
      BY <1>0, <2>3, <3>1, <3>3, <3>4
  <2>6. QED
    BY <2>4, <2>5
<1>6. CASE UNCHANGED vars
  BY <1>0, <1>6 DEF vars, Pushed, PushWeek, TypeOK
<1>7. QED
  BY <1>1, <1>2, <1>3, <1>4, <1>5, <1>6 DEF Next

(* Within a push, a week once pushed stays pushed.                         *)
LEMMA PushedStays ==
  ASSUME TypeOK, [Next]_vars, ~ Call, NEW n \in Nodes, NEW w \in Weeks,
         Pushed(n, w) \/ (PushWeek /\ n = cur /\ w = week)
  PROVE  Pushed(n, w)'
<1> USE DEF supply, result
<1>0. w \in Int /\ setting' = setting
  BY WeekFacts, SettingStep
<1>1. CASE Refuse \/ Return
  BY <1>0, <1>1 DEF Refuse, Return, Pushed, PushWeek
<1>2. ASSUME NEW m \in Nodes, SkipNode(m) PROVE Pushed(n, w)'
  BY <1>0, <1>2 DEF SkipNode, Pushed, PushWeek
<1>3. ASSUME NEW m \in Nodes, BeginNode(m) PROVE Pushed(n, w)'
  BY <1>0, <1>3 DEF BeginNode, Pushed, PushWeek
<1>4. CASE SkipWeek \/ PushWeek
  <2>1. /\ phase = "push" /\ cur' = cur /\ calls' = calls
        /\ PushWeek => << cur, week >> \notin setting.bad
        /\ cur \in todo \ setting.noPsi /\ week \in Int
        /\ week < setting.span[cur] /\ setting.span[cur] \in Int
    BY <1>4, WeekFacts DEF SkipWeek, PushWeek, TypeOK, IsSetting
  <2>2. NextWeek
    BY <1>4, Zenon DEF SkipWeek, PushWeek
  <2>3. << n, w >> \notin setting.bad
    BY <2>1 DEF Pushed
  <2>4. CASE n # cur
    <3>1. n \notin todo \cup setting.noPsi /\ w < setting.span[n]
      BY <2>1, <2>4 DEF Pushed
    <3>2. n \notin todo'
      BY <2>2, <3>1 DEF NextWeek
    <3>3. QED
      BY <1>0, <2>1, <2>3, <3>1, <3>2 DEF Pushed
  <2>5. CASE n = cur
    <3>1. w <= week
      <4>1. w < week \/ w = week
        BY <2>1, <2>5 DEF Pushed
      <4>2. QED
        BY <1>0, <2>1, <4>1
    <3>2. CASE week + 1 < setting.span[cur]
      <4>1. phase' = "push" /\ week' = week + 1
        BY <2>1, <2>2, <3>2 DEF NextWeek
      <4>2. QED
        BY <1>0, <2>1, <2>3, <2>5, <3>1, <4>1 DEF Pushed
    <3>3. CASE ~ (week + 1 < setting.span[cur])
      <4>1. todo' = todo \ {cur}
        BY <2>2, <3>3 DEF NextWeek
      <4>2. QED
        BY <1>0, <2>1, <2>3, <2>5, <3>1, <4>1 DEF Pushed
    <3>4. QED
      BY <3>2, <3>3
  <2>6. QED
    BY <2>4, <2>5
<1>5. CASE UNCHANGED vars /\ ~ PushWeek
  BY <1>0, <1>5 DEF vars, Pushed
<1>6. QED
  BY <1>1, <1>2, <1>3, <1>4, <1>5 DEF Next

----------------------------------------------------------------------------
(* Capacities                                                              *)

(* A week that is not pushed yet is as the push found it.                  *)
Untouched ==
  \A n \in Nodes, w \in Weeks :
    ~ Pushed(n, w) => /\ sS[n][w] = given.s[n][w]
                      /\ sI[n][w] = given.i[n][w]
                      /\ sP[n][w] = given.p[n][w]

(* Every step keeps Untouched.                                             *)
LEMMA NextUntouched == TypeOK /\ Untouched /\ [Next]_vars => Untouched'
<1> SUFFICES ASSUME TypeOK, Untouched, [Next]_vars,
                    NEW n \in Nodes, NEW w \in Weeks, ~ Pushed(n, w)'
             PROVE  /\ sS'[n][w] = given'.s[n][w]
                    /\ sI'[n][w] = given'.i[n][w]
                    /\ sP'[n][w] = given'.p[n][w]
  BY DEF Untouched
<1>1. CASE Call
  BY <1>1 DEF Call, supply
<1>2. CASE ~ Call
  <2>1. ~ Pushed(n, w) /\ ~ (PushWeek /\ n = cur /\ w = week)
    BY <1>2, PushedStays
  <2>2. /\ sP'[n][w] = sP[n][w] /\ sS'[n][w] = sS[n][w] /\ sI'[n][w] = sI[n][w]
        /\ given' = given
    BY <1>2, <2>1, BucketStep, SettingStep
  <2>3. QED
    BY <2>1, <2>2 DEF Untouched
<1>3. QED
  BY <1>1, <1>2

(* No week is pushed, and none is touched, in an initial state.            *)
LEMMA InitUntouched ==
  Init => Untouched /\ \A n \in Nodes, w \in Weeks : ~ Pushed(n, w)
<1> SUFFICES ASSUME Init
             PROVE  Untouched /\ \A n \in Nodes, w \in Weeks : ~ Pushed(n, w)
  OBVIOUS
<1>1. /\ todo = Nodes /\ phase = "idle"
      /\ given.s = sS /\ given.i = sI /\ given.p = sP
  BY DEF Init
<1>2. QED
  BY <1>1 DEF Untouched, Pushed

(* The numbers of a week when it is pushed.                                *)
LEMMA PushNumbers ==
  ASSUME TypeOK, Untouched, PushWeek
  PROVE  /\ cur \in Nodes /\ week \in Weeks
         /\ sP[cur][week] = given.p[cur][week]
         /\ sS[cur][week] = given.s[cur][week]
         /\ sI[cur][week] = given.i[cur][week]
         /\ Made \in Seq(LotIds) /\ Shipped \in Seq(LotIds)
         /\ Left \in Seq(LotIds) /\ Stock \in Seq(LotIds)
         /\ given.p[cur][week] \in Seq(LotIds) /\ given.s[cur][week] \in Seq(LotIds)
         /\ Len(Made) \in Nat /\ Len(Shipped) \in Nat
         /\ Len(Left) \in Nat /\ Len(Stock) \in Nat
         /\ Len(given.p[cur][week]) \in Nat /\ Len(given.s[cur][week]) \in Nat
         /\ Len(Made) = Admit("P", Len(given.p[cur][week]))
         /\ Len(Shipped) = Lesser(Len(Stock), Admit("S", Len(given.s[cur][week])))
         /\ Len(Left) = Len(Stock) - Len(Shipped)
         /\ \A type : LimitOf(cur, type, week) =
              IF Limited(type) THEN Greater(0, Cap(type))
              ELSE Len(given.s[cur][week]) + Len(given.p[cur][week])
<1>1. phase = "push"
  BY DEF PushWeek
<1>2. /\ cur \in Nodes /\ week \in Weeks /\ ~ Pushed(cur, week)
      /\ Made \in Seq(LotIds) /\ Shipped \in Seq(LotIds)
      /\ Stock \in Seq(LotIds) /\ Left \in Seq(LotIds)
      /\ sP[cur][week] \in Seq(LotIds) /\ sS[cur][week] \in Seq(LotIds)
      /\ Len(Made) = Admit("P", Len(sP[cur][week]))
      /\ Len(Shipped) = ShipLimit
      /\ Len(Left) = Len(Stock) - ShipLimit
  BY <1>1, WeekType, CurrentWeek
<1>3. /\ sP[cur][week] = given.p[cur][week]
      /\ sS[cur][week] = given.s[cur][week]
      /\ sI[cur][week] = given.i[cur][week]
  BY <1>2 DEF Untouched
<1>4. \A type : LimitOf(cur, type, week) =
        IF Limited(type) THEN Greater(0, Cap(type))
        ELSE Len(given.s[cur][week]) + Len(given.p[cur][week])
  BY DEF LimitOf, Limited, Cap
<1>5. /\ Len(Made) \in Nat /\ Len(Shipped) \in Nat /\ Len(Left) \in Nat
      /\ Len(Stock) \in Nat /\ Len(sP[cur][week]) \in Nat /\ Len(sS[cur][week]) \in Nat
  BY <1>2
<1>6. QED
  BY <1>2, <1>3, <1>4, <1>5 DEF ShipLimit

(* What is kept is within a hard inventory limit, and never more than was  *)
(* left; with a soft limit or none it is all that was left.                *)
LEMMA KeptFacts ==
  ASSUME TypeOK, Left \in Seq(LotIds)
  PROVE  /\ Len(Kept) \in Nat /\ Len(Kept) <= Len(Left)
         /\ setting.mode = "soft" \/ ~ Limited("I") => Kept = Left
         /\ Limited("I") /\ setting.mode = "hard" /\ Cap("I") >= 0
              => Len(Kept) <= Cap("I")
<1>1. Len(Left) \in Nat /\ (Limited("I") => Cap("I") \in Int)
  BY CapType
<1>2. CASE Overfull /\ setting.mode = "hard"
  <2>1. Cap("I") \in Int /\ Kept = SliceTo(Left, Cap("I"))
    BY <1>1, <1>2 DEF Overfull, Kept
  <2>2. /\ Len(SliceTo(Left, Cap("I"))) = Bound(Left, Cap("I"))
        /\ Bound(Left, Cap("I")) \in 0 .. Len(Left)
    BY <2>1, SliceFacts, Zenon
  <2>3. QED
    BY <1>1, <1>2, <2>1, <2>2 DEF Bound, Lesser, Overfull
<1>3. CASE ~ (Overfull /\ setting.mode = "hard")
  <2>1. Kept = Left
    BY <1>3 DEF Kept
  <2>2. QED
    BY <1>1, <1>3, <2>1 DEF Overfull
<1>4. QED
  BY <1>2, <1>3

(* A negative hard limit cuts at most that many lots off the end, exactly  *)
(* that many when it leaves any, and the cut lots are reported together.   *)
LEMMA NegativeLimit ==
  ASSUME TypeOK, Left \in Seq(LotIds), Limited("I"), setting.mode = "hard",
         ~ (Cap("I") >= 0)
  PROVE  /\ Report("I", Over, "blocked") \in OverReport
         /\ Len(Over) <= -Cap("I")
         /\ Kept # << >> => Len(Over) = -Cap("I")
<1>1. Len(Left) \in Nat /\ Cap("I") \in Int
  BY CapType
<1>2. Overfull
  BY <1>1 DEF Overfull
<1>3. Over = SliceFrom(Left, Cap("I")) /\ Kept = SliceTo(Left, Cap("I"))
  BY <1>2 DEF Over, Kept
<1>4. /\ Len(SliceFrom(Left, Cap("I"))) = Len(Left) - Bound(Left, Cap("I"))
      /\ Len(SliceTo(Left, Cap("I"))) = Bound(Left, Cap("I"))
      /\ SliceTo(Left, Cap("I")) \in Seq(LotIds)
  BY <1>1, SliceFacts, Zenon
<1>5. Bound(Left, Cap("I")) = Greater(0, Len(Left) + Cap("I"))
  BY DEF Bound
<1>6. Len(Over) <= -Cap("I")
  BY <1>1, <1>3, <1>4, <1>5 DEF Greater
<1>7. ASSUME Kept # << >> PROVE Len(Over) = -Cap("I")
  <2>1. Bound(Left, Cap("I")) # 0
    BY <1>3, <1>4, <1>7, EmptySeq
  <2>2. QED
    BY <1>1, <1>3, <1>4, <1>5, <2>1 DEF Greater
<1>8. Report("I", Over, "blocked") \in OverReport
  BY <1>2 DEF OverReport
<1>9. QED
  BY <1>6, <1>7, <1>8

(* Reports are only added until the next push begins.                      *)
LEMMA ReportsStay ==
  ASSUME [Next]_vars
  PROVE  Call \/ violations \subseteq violations'
BY DEF Next, vars, result, Refuse, SkipNode, BeginNode, SkipWeek, PushWeek, Return

(* Every step keeps the capacities of the weeks already pushed, and pushes *)
(* a week within its own.                                                  *)
LEMMA NextCaps ==
  TypeOK /\ Untouched /\ CapsRespected /\ [Next]_vars => CapsRespected'
<1> SUFFICES ASSUME TypeOK, Untouched, CapsRespected, [Next]_vars,
                    NEW n \in Nodes, NEW w \in Weeks, Pushed(n, w)'
             PROVE  (/\ Len(sP[n][w]) <= LimitOf(n, "P", w)
                     /\ Len(sS[n][w]) <= LimitOf(n, "S", w)
                     /\ << n, "I", w >> \in DOMAIN setting.cap /\ setting.mode = "hard"
                          => HardStock(n, w, setting.cap[<< n, "I", w >>]))'
  BY DEF CapsRespected
<1>1. /\ given' = given /\ setting' = setting
      /\ \A type : LimitOf(n, type, w)' = LimitOf(n, type, w)
  BY PushedStep, SettingStep DEF LimitOf
<1>2. CASE Pushed(n, w) /\ ~ (PushWeek /\ n = cur /\ w = week)
  <2>1. sP'[n][w] = sP[n][w] /\ sS'[n][w] = sS[n][w] /\ sI'[n][w] = sI[n][w]
    BY <1>2, BucketStep
  <2>2. violations \subseteq violations'
    BY ReportsStay DEF Call, Pushed
  <2>3. QED
    BY <1>1, <1>2, <2>1, <2>2 DEF CapsRespected, HardStock
<1>3. CASE PushWeek /\ n = cur /\ w = week
  <2>1. sP'[n][w] = Made /\ sS'[n][w] = Shipped /\ sI'[n][w] = Kept
    BY <1>3, BucketStep
  <2>2. Len(Made) <= LimitOf(n, "P", w)
    <3>1. /\ Limited("P") => Cap("P") \in Int
          /\ Admit("P", Len(given.p[cur][week])) =
               IF Limited("P")
                 THEN Greater(0, Lesser(Cap("P"), Len(given.p[cur][week])))
                 ELSE Len(given.p[cur][week])
      BY CapType DEF Admit
    <3>2. LimitOf(cur, "P", week) =
            IF Limited("P") THEN Greater(0, Cap("P"))
            ELSE Len(given.s[cur][week]) + Len(given.p[cur][week])
      BY <1>3, PushNumbers
    <3>3. /\ given.p[cur][week] \in Seq(LotIds) /\ given.s[cur][week] \in Seq(LotIds)
          /\ Made \in Seq(LotIds) /\ Shipped \in Seq(LotIds) /\ Stock \in Seq(LotIds)
          /\ Len(given.p[cur][week]) \in Nat /\ Len(given.s[cur][week]) \in Nat
          /\ Len(Made) \in Nat /\ Len(Stock) \in Nat
          /\ Len(Made) = Admit("P", Len(given.p[cur][week]))
          /\ Len(Shipped) = Lesser(Len(Stock), Admit("S", Len(given.s[cur][week])))
      BY <1>3, PushNumbers
    <3>4. CASE Limited("P")
      BY <1>3, <3>1, <3>2, <3>3, <3>4 DEF Lesser, Greater
    <3>5. CASE ~ Limited("P")
      <4>1. LimitOf(n, "P", w) = Len(given.s[cur][week]) + Len(given.p[cur][week])
        BY <1>3, <3>2, <3>5
      <4>2. Len(Made) = Len(given.p[cur][week])
        BY <3>1, <3>3, <3>5
      <4>3. \A a, b \in Nat : b <= a + b
        OBVIOUS
      <4>4. Len(given.p[cur][week]) <= Len(given.s[cur][week]) + Len(given.p[cur][week])
        BY <3>3, <4>3, Zenon
      <4>5. QED
        BY <4>1, <4>2, <4>4
    <3>6. QED
      BY <3>4, <3>5
  <2>3. Len(Shipped) <= LimitOf(n, "S", w)
    <3>1. /\ Limited("S") => Cap("S") \in Int
          /\ Admit("S", Len(given.s[cur][week])) =
               IF Limited("S")
                 THEN Greater(0, Lesser(Cap("S"), Len(given.s[cur][week])))
                 ELSE Len(given.s[cur][week])
      BY CapType DEF Admit
    <3>2. LimitOf(cur, "S", week) =
            IF Limited("S") THEN Greater(0, Cap("S"))
            ELSE Len(given.s[cur][week]) + Len(given.p[cur][week])
      BY <1>3, PushNumbers
    <3>3. /\ given.p[cur][week] \in Seq(LotIds) /\ given.s[cur][week] \in Seq(LotIds)
          /\ Made \in Seq(LotIds) /\ Shipped \in Seq(LotIds) /\ Stock \in Seq(LotIds)
          /\ Len(given.p[cur][week]) \in Nat /\ Len(given.s[cur][week]) \in Nat
          /\ Len(Shipped) \in Nat /\ Len(Stock) \in Nat
          /\ Len(Made) = Admit("P", Len(given.p[cur][week]))
          /\ Len(Shipped) = Lesser(Len(Stock), Admit("S", Len(given.s[cur][week])))
      BY <1>3, PushNumbers
    <3>4. CASE Limited("S")
      BY <1>3, <3>1, <3>2, <3>3, <3>4 DEF Lesser, Greater
    <3>5. CASE ~ Limited("S")
      <4>1. LimitOf(n, "S", w) = Len(given.s[cur][week]) + Len(given.p[cur][week])
        BY <1>3, <3>2, <3>5
      <4>2. Len(Shipped) = Lesser(Len(Stock), Len(given.s[cur][week]))
        BY <3>1, <3>3, <3>5
      <4>3. \A a, b, c \in Nat : Lesser(c, a) <= a + b
        BY DEF Lesser
      <4>4. Lesser(Len(Stock), Len(given.s[cur][week]))
              <= Len(given.s[cur][week]) + Len(given.p[cur][week])
        BY <3>3, <4>3, Zenon
      <4>5. QED
        BY <4>1, <4>2, <4>4
    <3>6. QED
      BY <3>4, <3>5
  <2>4. /\ Limited("I") <=> << n, "I", w >> \in DOMAIN setting.cap
        /\ Cap("I") = setting.cap[<< n, "I", w >>]
    BY <1>3 DEF Limited, Cap
  <2>5. Left \in Seq(LotIds)
    BY <1>3, WeekType DEF PushWeek
  <2>6. ASSUME Limited("I"), setting.mode = "hard"
        PROVE  HardStock(n, w, setting.cap[<< n, "I", w >>])'
    <3>1. setting.cap[<< n, "I", w >>] = Cap("I") /\ setting' = setting
      BY <1>1, <2>4
    <3>2. CASE Cap("I") >= 0
      BY <2>1, <2>5, <2>6, <3>1, <3>2, KeptFacts DEF HardStock
    <3>3. CASE ~ (Cap("I") >= 0)
      <4>1. Report("I", Over, "blocked") \in violations'
        BY <1>3, <2>5, <2>6, <3>3, NegativeLimit DEF PushWeek
      <4>2. /\ Report("I", Over, "blocked").node = n
            /\ Report("I", Over, "blocked").week = w
            /\ Report("I", Over, "blocked").type = "I"
            /\ Report("I", Over, "blocked").lots = Over
        BY <1>3 DEF Report
      <4>3. Len(Over) <= -Cap("I") /\ (sI'[n][w] # << >> => Len(Over) = -Cap("I"))
        BY <2>1, <2>5, <2>6, <3>3, NegativeLimit
      <4>4. QED
        BY <3>1, <3>3, <4>1, <4>2, <4>3 DEF HardStock
    <3>4. QED
      BY <3>2, <3>3
  <2>7. QED
    BY <1>1, <2>1, <2>2, <2>3, <2>4, <2>6
<1>4. QED
  BY <1>2, <1>3, PushedStep

(* The capacity promise: production and shipments of every pushed week are *)
(* within their limits, a negative one counted as zero; its inventory is   *)
(* within a hard limit of zero or more, and a negative hard limit takes    *)
(* exactly that many lots off it and reports them.                         *)
THEOREM Capacities == Spec => []CapsRespected
<1>1. Init => TypeOK /\ Untouched /\ CapsRespected
  BY InitType, InitUntouched DEF CapsRespected
<1>2. TypeOK /\ Untouched /\ CapsRespected /\ [Next]_vars
      => TypeOK' /\ Untouched' /\ CapsRespected'
  BY NextType, NextUntouched, NextCaps
<1>3. QED
  BY <1>1, <1>2, PTL DEF Spec

----------------------------------------------------------------------------
(* Cuts and their reports                                                  *)

(* Every command is about a week this push has pushed.                     *)
RecordsPushed == \A r \in replans : Pushed(r.node, r.week)

CommandFor(type, lots) == [node |-> cur, week |-> week, type |-> type, lots |-> lots]

(* The commands of a pushed week: one for each kind of lot that was cut.   *)
LEMMA NewCommands ==
  \A c : c \in { Command(r) : r \in Cuts } <=>
           \/ Unmade # << >> /\ c = CommandFor("P", Unmade)
           \/ Unshipped # << >> /\ c = CommandFor("S", Unshipped)
<1>1. ASSUME NEW type, NEW lots, NEW c
      PROVE  (\E r \in Cut(type, lots) : c = Command(r)) <=>
               lots # << >> /\ c = CommandFor(type, lots)
  <2>1. Command(Report(type, lots, "blocked")) = CommandFor(type, lots)
    BY DEF Command, Report, CommandFor
  <2>2. QED
    BY <2>1, Zenon DEF Cut
<1>2. \A c : c \in { Command(r) : r \in Cuts } <=>
               \/ \E r \in Cut("P", Unmade) : c = Command(r)
               \/ \E r \in Cut("S", Unshipped) : c = Command(r)
  BY Zenon DEF Cuts
<1>3. ASSUME NEW c
      PROVE  c \in { Command(r) : r \in Cuts } <=>
               \/ Unmade # << >> /\ c = CommandFor("P", Unmade)
               \/ Unshipped # << >> /\ c = CommandFor("S", Unshipped)
  <2> DEFINE A == c \in { Command(r) : r \in Cuts }
             B == \E r \in Cut("P", Unmade) : c = Command(r)
             C == \E r \in Cut("S", Unshipped) : c = Command(r)
             D == Unmade # << >> /\ c = CommandFor("P", Unmade)
             E == Unshipped # << >> /\ c = CommandFor("S", Unshipped)
  <2>1. A <=> B \/ C
    BY <1>2, Zenon
  <2>2. B <=> D
    BY <1>1, Zenon
  <2>3. C <=> E
    BY <1>1, Zenon
  <2> HIDE DEF A, B, C, D, E
  <2>4. A <=> D \/ E
    BY <2>1, <2>2, <2>3, Zenon
  <2>5. QED
    BY <2>4, Zenon DEF A, D, E
<1>4. QED
  BY <1>3

(* Within a push commands are only added, by the week being pushed.        *)
LEMMA ReplanStep ==
  ASSUME [Next]_vars
  PROVE  \/ Call /\ replans' = {}
         \/ ~ PushWeek /\ ~ Call /\ replans' = replans
         \/ PushWeek /\ ~ Call /\ replans' = replans \cup { Command(r) : r \in Cuts }
<1>1. ~ (PushWeek /\ Call)
  BY DEF PushWeek, Call
<1>2. Call => replans' = {}
  BY DEF Call
<1>3. PushWeek => replans' = replans \cup { Command(r) : r \in Cuts }
  BY DEF PushWeek
<1>4. ~ PushWeek /\ ~ Call => replans' = replans
  BY DEF Next, vars, result, Refuse, SkipNode, BeginNode, SkipWeek, Return
<1>5. QED
  BY <1>1, <1>2, <1>3, <1>4

(* Every step keeps RecordsPushed.                                         *)
LEMMA NextRecords == TypeOK /\ RecordsPushed /\ [Next]_vars => RecordsPushed'
<1> SUFFICES ASSUME TypeOK, RecordsPushed, [Next]_vars, NEW r \in replans'
             PROVE  Pushed(r.node, r.week)'
  BY DEF RecordsPushed
<1>1. CASE r \in replans /\ ~ Call
  <2>1. r.node \in Nodes /\ r.week \in Weeks /\ Pushed(r.node, r.week)
    BY <1>1 DEF RecordsPushed, TypeOK, Commands
  <2>2. QED
    BY <1>1, <2>1, PushedStays
<1>2. CASE PushWeek /\ ~ Call /\ r \in { Command(c) : c \in Cuts }
  <2>1. r.node = cur /\ r.week = week
    BY <1>2, NewCommands DEF CommandFor
  <2>2. cur \in Nodes /\ week \in Weeks
    BY <1>2, WeekType DEF PushWeek
  <2>3. QED
    BY <1>2, <2>1, <2>2, PushedStays
<1>3. QED
  BY <1>1, <1>2, ReplanStep

(* The two parts of a pushed week's production and of its shipments.       *)
LEMMA CutsJoin ==
  ASSUME TypeOK, Untouched, PushWeek
  PROVE  /\ Made \o Unmade = given.p[cur][week]
         /\ Shipped \o Unshipped = given.s[cur][week]
         /\ Unmade = << >> => Made = given.p[cur][week]
         /\ Unshipped = << >> => Shipped = given.s[cur][week]
<1>1. phase = "push"
  BY DEF PushWeek
<1>2. /\ sP[cur][week] \in Seq(LotIds) /\ sS[cur][week] \in Seq(LotIds)
      /\ ShipLimit \in Int /\ Admit("P", Len(sP[cur][week])) \in Int
      /\ Made \in Seq(LotIds) /\ Shipped \in Seq(LotIds)
  <2>1. sP[cur][week] \in Seq(LotIds) /\ sS[cur][week] \in Seq(LotIds)
        /\ ShipLimit \in Nat /\ Made \in Seq(LotIds) /\ Shipped \in Seq(LotIds)
    BY <1>1, WeekType
  <2>2. Len(sP[cur][week]) \in Nat
    BY <2>1
  <2>3. Admit("P", Len(sP[cur][week])) \in 0 .. Len(sP[cur][week])
    BY <2>2, CapType
  <2>4. QED
    BY <2>1, <2>2, <2>3
<1>3. /\ Made \o Unmade = sP[cur][week]
      /\ Shipped \o Unshipped = sS[cur][week]
  BY <1>2, SlicesJoin, Zenon DEF Made, Unmade, Shipped, Unshipped
<1>4. Made \o << >> = Made /\ Shipped \o << >> = Shipped
  BY <1>2, ConcatEmptySeq
<1>5. QED
  BY <1>3, <1>4, PushNumbers

(* Every step keeps the account of what was cut.                           *)
LEMMA NextReported ==
  TypeOK /\ Untouched /\ RecordsPushed /\ CutLotsReported /\ [Next]_vars
    => CutLotsReported'
<1> SUFFICES ASSUME TypeOK, Untouched, RecordsPushed, CutLotsReported, [Next]_vars,
                    NEW n \in Nodes, NEW w \in Weeks, Pushed(n, w)',
                    NEW type \in {"P", "S"}
             PROVE  (IF CommandsAt(n, w, type) = {}
                       THEN Accepted(n, w, type) = Asked(n, w, type)
                       ELSE \A r \in CommandsAt(n, w, type) :
                              Accepted(n, w, type) \o r.lots = Asked(n, w, type))'
  BY DEF CutLotsReported
<1> DEFINE was   == Asked(n, w, type)
           kept  == Accepted(n, w, type)
           here  == CommandsAt(n, w, type)
           lots  == IF type = "P" THEN Unmade ELSE Unshipped
<1>1. was' = was /\ ~ Call
  <2>1. given' = given
    BY PushedStep
  <2>2. ~ Call
    BY DEF Call, Pushed
  <2>3. QED
    BY <2>1, <2>2 DEF Asked
<1>2. CASE Pushed(n, w) /\ ~ (PushWeek /\ n = cur /\ w = week)
  <2>1. kept' = kept
    BY <1>2, BucketStep DEF Accepted
  <2>2. here' = here
    BY <1>1, <1>2, ReplanStep, NewCommands DEF CommandFor, CommandsAt
  <2>3. IF here = {} THEN kept = was ELSE \A r \in here : kept \o r.lots = was
    BY <1>2, Zenon DEF CutLotsReported
  <2>4. QED
    BY <1>1, <2>1, <2>2, <2>3
<1>3. CASE PushWeek /\ n = cur /\ w = week
  <2>1. kept' \o lots = was /\ (lots = << >> => kept' = was)
    BY <1>3, BucketStep, CutsJoin DEF Accepted, Asked
  <2>2. \A r \in replans : ~ (r.node = n /\ r.week = w)
    BY <1>3, CurrentWeek DEF RecordsPushed, PushWeek
  <2>3. \A r : r \in here' <=> lots # << >> /\ r = CommandFor(type, lots)
    <3>1. replans' = replans \cup { Command(r) : r \in Cuts }
      BY <1>1, <1>3, ReplanStep
    <3>2. CASE type = "P"
      BY <1>3, <2>2, <3>1, <3>2, NewCommands DEF CommandFor, CommandsAt
    <3>3. CASE type = "S"
      BY <1>3, <2>2, <3>1, <3>3, NewCommands DEF CommandFor, CommandsAt
    <3>4. QED
      BY <3>2, <3>3
  <2>4. CommandFor(type, lots).lots = lots
    BY DEF CommandFor
  <2> HIDE DEF was, kept, here, lots
  <2>5. IF here' = {} THEN kept' = was ELSE \A r \in here' : kept' \o r.lots = was
    <3>1. CASE lots = << >>
      BY <2>1, <2>3, <3>1
    <3>2. CASE lots # << >>
      BY <2>1, <2>3, <2>4, <3>2
    <3>3. QED
      BY <3>1, <3>2
  <2>6. QED
    BY <1>1, <2>5 DEF was, kept, here
<1>4. QED
  BY <1>2, <1>3, PushedStep

(* A command for a week stays justified: the week it is about, pushed, and *)
(* its numbers do not change any more.                                     *)
LEMMA NextForced ==
  TypeOK /\ Untouched /\ RecordsPushed /\ CutOnlyWhenForced /\ [Next]_vars
    => CutOnlyWhenForced'
<1> SUFFICES ASSUME TypeOK, Untouched, RecordsPushed, CutOnlyWhenForced,
                    [Next]_vars, NEW r \in replans'
             PROVE  (IF r.type = "P"
                       THEN Len(sP[r.node][r.week]) = LimitOf(r.node, "P", r.week)
                       ELSE \/ Len(sS[r.node][r.week]) = LimitOf(r.node, "S", r.week)
                            \/ sI[r.node][r.week] = << >>)'
  BY DEF CutOnlyWhenForced
<1>1. CASE r \in replans /\ ~ Call
  <2>1. r.node \in Nodes /\ r.week \in Weeks /\ Pushed(r.node, r.week)
    BY <1>1 DEF RecordsPushed, TypeOK, Commands
  <2>2. ~ (PushWeek /\ r.node = cur /\ r.week = week)
    BY <2>1, CurrentWeek DEF PushWeek
  <2>3. /\ sP'[r.node][r.week] = sP[r.node][r.week]
        /\ sS'[r.node][r.week] = sS[r.node][r.week]
        /\ sI'[r.node][r.week] = sI[r.node][r.week]
    BY <2>1, <2>2, BucketStep
  <2>4. \A type : LimitOf(r.node, type, r.week)' = LimitOf(r.node, type, r.week)
    BY <1>1, SettingStep DEF LimitOf
  <2>5. QED
    BY <1>1, <2>3, <2>4 DEF CutOnlyWhenForced
<1>2. CASE PushWeek /\ ~ Call /\ r \in { Command(c) : c \in Cuts }
  <2>1. \/ Unmade # << >> /\ r = CommandFor("P", Unmade)
        \/ Unshipped # << >> /\ r = CommandFor("S", Unshipped)
    BY <1>2, NewCommands
  <2>2. /\ sP'[cur][week] = Made /\ sS'[cur][week] = Shipped /\ sI'[cur][week] = Kept
        /\ cur \in Nodes /\ week \in Weeks
    BY <1>2, BucketStep, PushNumbers
  <2>3. /\ r.node = cur /\ r.week = week
        /\ \A type : LimitOf(r.node, type, r.week)' = LimitOf(cur, type, week)
    <3>1. r.node = cur /\ r.week = week
      BY <2>1 DEF CommandFor
    <3>2. \A type : LimitOf(r.node, type, r.week)' = LimitOf(r.node, type, r.week)
      BY <1>2, SettingStep DEF LimitOf
    <3>3. QED
      BY <3>1, <3>2
  <2>4. ASSUME Unmade # << >>
        PROVE  Len(Made) = LimitOf(cur, "P", week)
    <3> DEFINE k == Len(given.p[cur][week])
    <3>1. k \in Nat /\ sP[cur][week] \in Seq(LotIds) /\ k = Len(sP[cur][week])
          /\ Len(Made) = Admit("P", k) /\ Unmade \in Seq(LotIds)
      BY <1>2, PushNumbers, WeekType DEF PushWeek
    <3>2. Admit("P", k) # k
      <4>1. ASSUME Admit("P", k) = k PROVE FALSE
        <5>1. Bound(sP[cur][week], k) = Len(sP[cur][week])
          BY <3>1 DEF Bound, Lesser
        <5>2. Unmade = SliceFrom(sP[cur][week], k) /\ k \in Int
          BY <3>1, <4>1 DEF Unmade
        <5>3. Len(SliceFrom(sP[cur][week], k)) =
                Len(sP[cur][week]) - Bound(sP[cur][week], k)
          <6> DEFINE q == sP[cur][week]
          <6>1. q \in Seq(LotIds) /\ k \in Int
            BY <3>1, <5>2
          <6> HIDE DEF q
          <6>2. Len(SliceFrom(q, k)) = Len(q) - Bound(q, k)
            BY <6>1, SliceFacts
          <6> QED
            BY <6>2 DEF q
        <5>4. Len(Unmade) = 0
          BY <3>1, <5>1, <5>2, <5>3
        <5>5. QED
          BY <2>4, <3>1, <5>4, EmptySeq
      <4>2. QED
        BY <4>1
    <3>3. Limited("P") /\ Cap("P") \in Int
      BY <3>1, <3>2, CapType
    <3>4. Admit("P", k) = Greater(0, Lesser(Cap("P"), k))
      BY <3>1, <3>3, CapType
    <3> HIDE DEF k
    <3>5. Admit("P", k) = Greater(0, Cap("P"))
      BY <3>1, <3>2, <3>3, <3>4 DEF Greater, Lesser
    <3>6. LimitOf(cur, "P", week) = Greater(0, Cap("P"))
      BY <1>2, <3>3, PushNumbers
    <3>7. QED
      BY <3>1, <3>5, <3>6
  <2>5. ASSUME Unshipped # << >>
        PROVE  Len(Shipped) = LimitOf(cur, "S", week) \/ Kept = << >>
    <3> DEFINE k == Len(given.s[cur][week])
    <3>1. /\ k \in Nat /\ sS[cur][week] \in Seq(LotIds) /\ k = Len(sS[cur][week])
          /\ Unshipped \in Seq(LotIds) /\ Len(Stock) \in Nat
          /\ Len(Shipped) = Lesser(Len(Stock), Admit("S", k))
          /\ Len(Shipped) = ShipLimit /\ ShipLimit \in Nat
          /\ Len(Left) = Len(Stock) - Len(Shipped)
          /\ Left \in Seq(LotIds) /\ Kept \in Seq(LotIds)
      BY <1>2, PushNumbers, WeekType DEF PushWeek
    <3>2. Len(Shipped) # k
      <4>1. ASSUME Len(Shipped) = k PROVE FALSE
        <5>1. Bound(sS[cur][week], k) = Len(sS[cur][week])
          BY <3>1 DEF Bound, Lesser
        <5>2. Unshipped = SliceFrom(sS[cur][week], k) /\ k \in Int
          BY <3>1, <4>1 DEF Unshipped
        <5>3. Len(SliceFrom(sS[cur][week], k)) =
                Len(sS[cur][week]) - Bound(sS[cur][week], k)
          BY <3>1, <5>2, SliceFacts, Zenon
        <5>4. Len(Unshipped) = 0
          BY <3>1, <5>1, <5>2, <5>3
        <5>5. QED
          BY <2>5, <3>1, <5>4, EmptySeq
      <4>2. QED
        BY <4>1
    <3>3. Admit("S", k) \in 0 .. k
      BY <3>1, CapType
    <3>4. CASE Len(Shipped) = Len(Stock)
      <4>1. Len(Left) = 0
        BY <3>1, <3>4
      <4>2. Len(Kept) = 0
        BY <3>1, <4>1, KeptFacts
      <4>3. QED
        BY <3>1, <4>2, EmptySeq
    <3>5. CASE Len(Shipped) # Len(Stock)
      <4>1. Len(Shipped) = Admit("S", k) /\ Admit("S", k) # k
        BY <3>1, <3>2, <3>3, <3>5 DEF Lesser
      <4>2. Limited("S") /\ Cap("S") \in Int
        BY <3>1, <4>1, CapType
      <4>3. Admit("S", k) = Greater(0, Lesser(Cap("S"), k))
        BY <3>1, <4>2, CapType
      <4> HIDE DEF k
      <4>4. Admit("S", k) = Greater(0, Cap("S"))
        BY <3>1, <4>1, <4>2, <4>3 DEF Greater, Lesser
      <4>5. LimitOf(cur, "S", week) = Greater(0, Cap("S"))
        BY <1>2, <4>2, PushNumbers
      <4>6. QED
        BY <4>1, <4>4, <4>5
    <3>6. QED
      BY <3>4, <3>5
  <2>6. CASE Unmade # << >> /\ r = CommandFor("P", Unmade)
    <3>1. r.type = "P" /\ Len(sP'[r.node][r.week]) = Len(Made)
      BY <2>2, <2>3, <2>6 DEF CommandFor
    <3>2. QED
      BY <2>3, <2>4, <2>6, <3>1
  <2>7. CASE Unshipped # << >> /\ r = CommandFor("S", Unshipped)
    <3>1. /\ r.type = "S" /\ Len(sS'[r.node][r.week]) = Len(Shipped)
          /\ sI'[r.node][r.week] = Kept
      BY <2>2, <2>3, <2>7 DEF CommandFor
    <3>2. QED
      BY <2>3, <2>5, <2>7, <3>1
  <2>8. QED
    BY <2>1, <2>6, <2>7
<1>3. QED
  BY <1>1, <1>2, ReplanStep

(* Nothing is cut silently and nothing is cut without need: each command   *)
(* of a push names exactly what it took, at a limit that was reached.      *)
THEOREM CutsAccounted == Spec => [](CutLotsReported /\ CutOnlyWhenForced)
<1> DEFINE Inv == /\ TypeOK /\ Untouched /\ RecordsPushed
                  /\ CutLotsReported /\ CutOnlyWhenForced
<1>1. Init => Inv
  <2>1. Init => replans = {}
    BY DEF Init
  <2>2. QED
    BY <2>1, InitType, InitUntouched
       DEF RecordsPushed, CutLotsReported, CutOnlyWhenForced
<1>2. Inv /\ [Next]_vars => Inv'
  BY NextType, NextUntouched, NextRecords, NextReported, NextForced
<1>3. Inv => CutLotsReported /\ CutOnlyWhenForced
  OBVIOUS
<1> HIDE DEF Inv
<1>4. QED
  BY <1>1, <1>2, <1>3, PTL DEF Spec

(* A command that cuts shows a limit that is used up: what was made fills  *)
(* the capacity, what was shipped the capacity or all of the stock.        *)
THEOREM CutsAreForced == Spec => []CutOnlyWhenForced
  BY CutsAccounted, PTL

----------------------------------------------------------------------------
(* The inventory that is carried                                           *)

(* prev is what the last week of the node that could be read ended with;   *)
(* before the first such week nothing is carried.                          *)
Carried(v) ==
  /\ v < week
  /\ Pushed(cur, v)
  /\ prev = sI[cur][v]
  /\ \A u \in Weeks : v < u /\ u < week => << cur, u >> \in setting.bad

PrevInv ==
  /\ phase = "push" /\ ~ started =>
       \A u \in Weeks : u < week => << cur, u >> \in setting.bad
  /\ phase = "push" /\ started => \E v \in Weeks : Carried(v)

(* Every step keeps PrevInv.                                               *)
LEMMA NextPrev == TypeOK /\ PrevInv /\ [Next]_vars => PrevInv'
<1> SUFFICES ASSUME TypeOK, PrevInv, [Next]_vars, phase' = "push"
             PROVE  /\ ~ started' =>
                         \A u \in Weeks : u < week' => << cur', u >> \in setting'.bad
                    /\ started' => \E v \in Weeks : Carried(v)'
  BY DEF PrevInv
<1>0. setting' = setting /\ \A w \in Weeks : w \in Int /\ w >= 0
  BY SettingStep, WeekFacts
<1>1. CASE Refuse \/ Call \/ Return
  BY <1>1 DEF Refuse, Call, Return
<1>2. ASSUME NEW n \in Nodes, SkipNode(n) PROVE FALSE
  BY <1>2 DEF SkipNode
<1>3. ASSUME NEW n \in Nodes, BeginNode(n)
      PROVE  ~ started' /\ week' = 0
  BY <1>3 DEF BeginNode
<1>4. CASE SkipWeek
  <2>1. /\ phase = "push" /\ cur' = cur /\ started' = started /\ prev' = prev
        /\ << cur, week >> \in setting.bad /\ cur \in Nodes /\ week \in Int
        /\ supply' = supply
    BY <1>4, WeekFacts DEF SkipWeek, TypeOK
  <2>2. NextWeek
    BY <1>4, Zenon DEF SkipWeek
  <2>3. week' = week + 1
    BY <2>2 DEF NextWeek
  <2>4. ASSUME ~ started
        PROVE  \A u \in Weeks : u < week' => << cur', u >> \in setting'.bad
    BY <1>0, <2>1, <2>3, <2>4 DEF PrevInv
  <2>5. ASSUME started PROVE \E v \in Weeks : Carried(v)'
    <3>1. PICK v \in Weeks : Carried(v)
      BY <2>1, <2>5 DEF PrevInv
    <3>2. ASSUME NEW n \in Nodes, Pushed(n, v) PROVE Pushed(n, v)'
      BY <1>4, <3>2, PushedStays DEF SkipWeek, Call
    <3>3. Pushed(cur, v)'
      <4>1. PICK n \in Nodes : n = cur
        BY <2>1
      <4>2. Pushed(n, v)'
        BY <3>1, <3>2, <4>1 DEF Carried
      <4>3. n = cur'
        BY <2>1, <4>1
      <4>4. QED
        BY <4>2, <4>3 DEF Pushed
    <3>4. v < week' /\ prev' = sI'[cur'][v]
      BY <1>0, <2>1, <2>3, <3>1 DEF Carried, supply
    <3>5. \A u \in Weeks : v < u /\ u < week' => << cur', u >> \in setting'.bad
      BY <1>0, <2>1, <2>3, <3>1 DEF Carried
    <3>6. QED
      BY <3>3, <3>4, <3>5 DEF Carried
  <2>6. QED
    BY <2>1, <2>4, <2>5
<1>5. CASE PushWeek
  <2>1. /\ phase = "push" /\ cur' = cur /\ started' = TRUE /\ prev' = Kept
        /\ cur \in Nodes /\ week \in Weeks /\ week \in Int
    BY <1>5, WeekFacts DEF PushWeek, TypeOK
  <2>2. NextWeek
    BY <1>5, Zenon DEF PushWeek
  <2>3. week' = week + 1
    BY <2>2 DEF NextWeek
  <2>4. PICK v \in Weeks, n \in Nodes : v = week /\ n = cur
    BY <2>1
  <2>5. Pushed(n, v)'
    BY <1>5, <2>4, PushedStays DEF PushWeek, Call
  <2>6. prev' = sI'[n][v]
    BY <1>5, <2>1, <2>4, BucketStep
  <2>7. Pushed(cur, v)'
    BY <2>1, <2>4, <2>5 DEF Pushed
  <2>8. \A u \in Weeks : ~ (v < u /\ u < week')
    BY <1>0, <2>1, <2>3, <2>4
  <2>9. v < week' /\ prev' = sI'[cur'][v]
    BY <2>1, <2>3, <2>4, <2>6
  <2>10. Carried(v)'
    BY <2>7, <2>8, <2>9 DEF Carried
  <2>11. QED
    BY <2>1, <2>10
<1>6. CASE UNCHANGED vars
  <2>1. \A v : Carried(v)' = Carried(v)
    BY <1>6 DEF vars, Carried, Pushed
  <2>2. QED
    BY <1>6, <2>1 DEF vars, PrevInv
<1>7. QED
  BY <1>0, <1>1, <1>2, <1>3, <1>4, <1>5, <1>6 DEF Next

(* Every step keeps the balance of inventory, production and shipments.    *)
LEMMA NextContinues ==
  TypeOK /\ Untouched /\ PrevInv /\ StockContinues /\ [Next]_vars
    => StockContinues'
<1> SUFFICES ASSUME TypeOK, Untouched, PrevInv, StockContinues, [Next]_vars,
                    NEW n \in Nodes, NEW v \in Weeks, NEW w \in Weeks,
                    Pushed(n, v)', Pushed(n, w)', v < w,
                    (\A u \in v + 1 .. w - 1 : << n, u >> \in setting.bad)',
                    (given.i[n][w] = << >>)'
             PROVE  (/\ Len(sI[n][w]) <= Len(sI[n][v]) + Len(sP[n][w]) - Len(sS[n][w])
                     /\ NoHardLimit(n, w) =>
                          Len(sI[n][w]) = Len(sI[n][v]) + Len(sP[n][w]) - Len(sS[n][w]))'
  BY DEF StockContinues
<1>1. given' = given /\ setting' = setting /\ \A x \in Weeks : x \in Int /\ x >= 0
  BY PushedStep, SettingStep, WeekFacts
<1>2. CASE Pushed(n, w) /\ ~ (PushWeek /\ n = cur /\ w = week)
  <2>1. Pushed(n, v) /\ ~ (PushWeek /\ n = cur /\ v = week)
    <3>1. ASSUME PushWeek, n = cur, v = week PROVE FALSE
      <4>1. w < week
        BY <1>2, <3>1, CurrentWeek DEF PushWeek
      <4>2. QED
        BY <1>1, <3>1, <4>1
    <3>2. QED
      BY <3>1, PushedStep
  <2>2. /\ sP'[n][w] = sP[n][w] /\ sS'[n][w] = sS[n][w] /\ sI'[n][w] = sI[n][w]
        /\ sI'[n][v] = sI[n][v]
    BY <1>2, <2>1, BucketStep
  <2>3. QED
    BY <1>1, <1>2, <2>1, <2>2 DEF StockContinues, NoHardLimit
<1>3. CASE PushWeek /\ n = cur /\ w = week
  <2>1. /\ sP'[n][w] = Made /\ sS'[n][w] = Shipped /\ sI'[n][w] = Kept
        /\ sI'[n][v] = sI[n][v] /\ phase = "push"
    BY <1>1, <1>3, BucketStep DEF PushWeek
  <2>2. Pushed(n, v)
    BY <1>1, <1>3, PushedStep
  <2>3. << n, v >> \notin setting.bad
    BY <2>2 DEF Pushed
  <2>4. started
    BY <1>3, <2>1, <2>3 DEF PrevInv
  <2>5. prev = sI[n][v]
    <3>1. PICK x \in Weeks : Carried(x)
      BY <2>1, <2>4 DEF PrevInv
    <3>2. ~ (x < v)
      BY <1>3, <2>3, <3>1 DEF Carried
    <3>3. ~ (v < x)
      <4>1. ASSUME v < x PROVE FALSE
        <5>1. x \in v + 1 .. w - 1
          BY <1>1, <1>3, <3>1, <4>1 DEF Carried
        <5>2. << n, x >> \in setting.bad
          BY <1>1, <5>1
        <5>3. QED
          BY <1>3, <3>1, <5>2 DEF Carried, Pushed
      <4>2. QED
        BY <4>1
    <3>4. x = v
      BY <1>1, <3>2, <3>3
    <3>5. QED
      BY <1>3, <3>1, <3>4 DEF Carried
  <2>6. Beginning = prev
    <3>1. sI[cur][week] = << >>
      BY <1>1, <1>3, PushNumbers
    <3>2. week # 0
      BY <1>1, <1>3
    <3>3. QED
      BY <2>4, <3>1, <3>2 DEF Beginning
  <2>7. /\ Len(Left) = Len(prev) + Len(Made) - Len(Shipped)
        /\ Left \in Seq(LotIds) /\ Kept \in Seq(LotIds)
    <3>1. /\ Left \in Seq(LotIds) /\ Kept \in Seq(LotIds)
          /\ Beginning \in Seq(LotIds) /\ Made \in Seq(LotIds)
          /\ Len(Stock) = Len(Beginning) + Len(Made)
          /\ Len(Shipped) = ShipLimit /\ Len(Left) = Len(Stock) - ShipLimit
      BY <2>1, WeekType, Zenon
    <3>2. Len(Stock) - ShipLimit = (Len(Beginning) + Len(Made)) - Len(Shipped)
      BY <3>1, Zenon
    <3>3. Len(Left) = (Len(Beginning) + Len(Made)) - Len(Shipped)
      BY <3>1, <3>2, Zenon
    <3>4. QED
      BY <3>1, <3>3, <2>6
  <2>8. NoHardLimit(n, w) => setting.mode = "soft" \/ ~ Limited("I")
    BY <1>3 DEF NoHardLimit, Limited
  <2>9. /\ Len(Kept) <= Len(prev) + Len(Made) - Len(Shipped)
        /\ NoHardLimit(n, w) => Len(Kept) = Len(prev) + Len(Made) - Len(Shipped)
    BY <2>7, <2>8, KeptFacts
  <2>10. NoHardLimit(n, w)' <=> NoHardLimit(n, w)
    BY <1>1 DEF NoHardLimit
  <2> QED
    BY <1>1, <2>1, <2>5, <2>9, <2>10
<1>4. QED
  BY <1>2, <1>3, PushedStep

(* The first week of a node starts from its own inventory bucket.          *)
StockBegins ==
  \A n \in Nodes :
    Pushed(n, 0) /\ given.i[n][0] = << >> =>
      /\ Len(sI[n][0]) <= Len(sP[n][0]) - Len(sS[n][0])
      /\ NoHardLimit(n, 0) => Len(sI[n][0]) = Len(sP[n][0]) - Len(sS[n][0])

LEMMA NextBegins == TypeOK /\ Untouched /\ StockBegins /\ [Next]_vars => StockBegins'
<1> SUFFICES ASSUME TypeOK, Untouched, StockBegins, [Next]_vars,
                    NEW n \in Nodes, Pushed(n, 0)', (given.i[n][0] = << >>)'
             PROVE  (/\ Len(sI[n][0]) <= Len(sP[n][0]) - Len(sS[n][0])
                     /\ NoHardLimit(n, 0) =>
                          Len(sI[n][0]) = Len(sP[n][0]) - Len(sS[n][0]))'
  BY DEF StockBegins
<1>1. given' = given /\ setting' = setting /\ 0 \in Weeks
  BY PushedStep, SettingStep, WeekFacts
<1>2. CASE Pushed(n, 0) /\ ~ (PushWeek /\ n = cur /\ 0 = week)
  <2>1. sP'[n][0] = sP[n][0] /\ sS'[n][0] = sS[n][0] /\ sI'[n][0] = sI[n][0]
    BY <1>1, <1>2, BucketStep
  <2> QED
    BY <1>1, <1>2, <2>1 DEF StockBegins, NoHardLimit
<1>3. CASE PushWeek /\ n = cur /\ 0 = week
  <2>1. /\ sP'[n][0] = Made /\ sS'[n][0] = Shipped /\ sI'[n][0] = Kept
        /\ phase = "push"
    BY <1>1, <1>3, BucketStep DEF PushWeek
  <2>2. Beginning = << >>
    <3>1. sI[cur][week] = << >>
      BY <1>1, <1>3, PushNumbers
    <3> QED
      BY <1>3, <3>1 DEF Beginning
  <2>3. /\ Left \in Seq(LotIds) /\ Made \in Seq(LotIds)
        /\ Len(Stock) = Len(Beginning) + Len(Made)
        /\ Len(Shipped) = ShipLimit /\ Len(Left) = Len(Stock) - ShipLimit
    BY <2>1, WeekType, Zenon
  <2>4. Len(Left) = Len(Made) - Len(Shipped)
    BY <2>2, <2>3
  <2>5. NoHardLimit(n, 0) => setting.mode = "soft" \/ ~ Limited("I")
    BY <1>3 DEF NoHardLimit, Limited
  <2>6. /\ Len(Kept) <= Len(Made) - Len(Shipped)
        /\ NoHardLimit(n, 0) => Len(Kept) = Len(Made) - Len(Shipped)
    BY <2>3, <2>4, <2>5, KeptFacts
  <2>7. NoHardLimit(n, 0)' <=> NoHardLimit(n, 0)
    BY <1>1 DEF NoHardLimit
  <2> QED
    BY <1>1, <2>1, <2>6, <2>7
<1> QED
  BY <1>1, <1>2, <1>3, PushedStep

(* Inventory is carried from week to week, also across weeks that cannot   *)
(* be read: none is lost, none is invented.                                *)
THEOREM InventoryBalances == Spec => []StockContinues
<1> DEFINE Inv == TypeOK /\ Untouched /\ PrevInv /\ StockContinues
<1>1. Init => Inv
  <2>1. Init => phase = "idle"
    BY DEF Init
  <2>2. QED
    BY <2>1, InitType, InitUntouched DEF PrevInv, StockContinues
<1>2. Inv /\ [Next]_vars => Inv'
  BY NextType, NextUntouched, NextPrev, NextContinues
<1>3. Inv => StockContinues
  OBVIOUS
<1> HIDE DEF Inv
<1>4. QED
  BY <1>1, <1>2, <1>3, PTL DEF Spec

----------------------------------------------------------------------------
(* The origin of the stock                                                 *)

(* What a week keeps in stock is carried, was in its inventory bucket, or  *)
(* was made in it.                                                         *)
LEMMA KeptHolds ==
  ASSUME TypeOK, PushWeek, NEW x, Holds(Kept, x)
  PROVE  Holds(Beginning, x) \/ Holds(sP[cur][week], x)
<1>1. /\ Left \in Seq(LotIds) /\ Beginning \in Seq(LotIds) /\ Made \in Seq(LotIds)
      /\ sP[cur][week] \in Seq(LotIds) /\ Stock \in Seq(LotIds)
      /\ ShipLimit \in Int /\ Admit("P", Len(sP[cur][week])) \in Int
  BY WeekType DEF PushWeek
<1>2. Holds(Left, x)
  <2>1. CASE Kept = Left
    BY <2>1
  <2>2. CASE Kept = SliceTo(Left, Cap("I")) /\ Limited("I")
    BY <1>1, <2>2, CapType, SliceHolds
  <2> QED
    BY <2>1, <2>2 DEF Kept, Overfull
<1>3. Holds(Stock, x)
  BY <1>1, <1>2, SliceHolds DEF Left
<1>4. Holds(Beginning, x) \/ Holds(Made, x)
  BY <1>1, <1>3, JoinHolds DEF Stock
<1>5. Holds(Made, x) => Holds(sP[cur][week], x)
  BY <1>1, SliceHolds DEF Made
<1> QED
  BY <1>4, <1>5

Origin(n, w, x) ==
  \E v \in 0 .. w : Holds(given.i[n][v], x) \/ Holds(given.p[n][v], x)

(* Every step keeps the origin of the stock known.                         *)
LEMMA NextOrigin ==
  TypeOK /\ Untouched /\ PrevInv /\ StockHasOrigin /\ [Next]_vars => StockHasOrigin'
<1> SUFFICES ASSUME TypeOK, Untouched, PrevInv, StockHasOrigin, [Next]_vars,
                    NEW n \in Nodes, NEW w \in Weeks, Pushed(n, w)',
                    NEW x, Holds(sI'[n][w], x)
             PROVE  \E v \in 0 .. w : Holds(given'.i[n][v], x) \/ Holds(given'.p[n][v], x)
  <2> SUFFICES ASSUME TypeOK, Untouched, PrevInv, StockHasOrigin, [Next]_vars,
                      NEW n \in Nodes, NEW w \in Weeks, Pushed(n, w)',
                      NEW k \in DOMAIN sI'[n][w]
               PROVE  \E v \in 0 .. w : \/ Holds(given'.i[n][v], sI'[n][w][k])
                                        \/ Holds(given'.p[n][v], sI'[n][w][k])
    BY DEF StockHasOrigin
  <2>1. Holds(sI'[n][w], sI'[n][w][k])
    BY DEF Holds
  <2> QED
    BY <2>1
<1>1. given' = given /\ \A v \in Weeks : v \in Int /\ v >= 0
  BY PushedStep, WeekFacts
<1>2. \A y : \A m \in Nodes, v \in Weeks :
        Pushed(m, v) /\ Holds(sI[m][v], y) => Origin(m, v, y)
  BY DEF StockHasOrigin, Holds, Origin
<1>4. CASE Pushed(n, w) /\ ~ (PushWeek /\ n = cur /\ w = week)
  <2>1. sI'[n][w] = sI[n][w]
    BY <1>4, BucketStep
  <2>2. Origin(n, w, x)
    BY <1>2, <1>4, <2>1
  <2> QED
    BY <1>1, <2>2 DEF Origin
<1>5. CASE PushWeek /\ n = cur /\ w = week
  <2>1. sI'[n][w] = Kept /\ phase = "push"
    BY <1>5, BucketStep DEF PushWeek
  <2>2. Holds(Beginning, x) \/ Holds(sP[n][w], x)
    BY <1>5, <2>1, KeptHolds
  <2>3. sP[n][w] = given.p[n][w] /\ sI[n][w] = given.i[n][w]
    BY <1>5, CurrentWeek DEF PushWeek, Untouched
  <2>4. Origin(n, w, x)
    <3>1. w \in 0 .. w
      BY <1>1
    <3>2. CASE Holds(sP[n][w], x) \/ Holds(sI[n][w], x)
      BY <2>3, <3>1, <3>2 DEF Origin
    <3>3. CASE Holds(prev, x) /\ started
      <4>1. PICK v \in Weeks : Carried(v)
        BY <2>1, <3>3 DEF PrevInv
      <4>2. Origin(n, v, x) /\ v < w
        BY <1>2, <1>5, <3>3, <4>1 DEF Carried
      <4>3. 0 .. v \subseteq 0 .. w
        BY <1>1, <4>2
      <4> QED
        BY <4>2, <4>3 DEF Origin
    <3> QED
      BY <1>5, <2>2, <3>2, <3>3 DEF Beginning
  <2> QED
    BY <1>1, <2>4 DEF Origin
<1> QED
  BY <1>4, <1>5, PushedStep

(* The stock of a pushed week holds only lots that the node had in stock   *)
(* or was asked to make: reducing it by count invents none                 *)
(* (weekly_forward_push_with_capacity).              *)
THEOREM NoLotInvented == Spec => []StockHasOrigin
<1> DEFINE Inv == TypeOK /\ Untouched /\ PrevInv /\ StockHasOrigin
<1>1. Init => Inv
  <2>1. Init => phase = "idle"
    BY DEF Init
  <2>2. QED
    BY <2>1, InitType, InitUntouched DEF PrevInv, StockHasOrigin
<1>2. Inv /\ [Next]_vars => Inv'
  BY NextType, NextUntouched, NextPrev, NextOrigin
<1>3. Inv => StockHasOrigin
  OBVIOUS
<1> HIDE DEF Inv
<1>4. QED
  BY <1>1, <1>2, <1>3, PTL DEF Spec
=============================================================================
