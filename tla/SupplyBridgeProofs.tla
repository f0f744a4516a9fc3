------------------------- MODULE SupplyBridgeProofs -------------------------
(***************************************************************************)
(* Theorems about Bridge B, for any tree, plans, supply layers, settings   *)
(* and number of calls.                                                    *)
(***************************************************************************)
EXTENDS SupplyBridge, FiniteSetTheorems, SequenceTheorems, TLAPS

----------------------------------------------------------------------------
(* Induction over naturals, with a set for what is to be shown.            *)

(* A set of naturals has a least member: of the intervals below its        *)
(* members, one has no other strictly inside it.                           *)
LEMMA LeastOfNat ==
  ASSUME NEW T \in SUBSET Nat, T # {}
  PROVE  \E x \in T : \A y \in T : x <= y
<1> DEFINE Below(x) == 1 .. x
           Belows   == { Below(x) : x \in T }
<1>1. Belows \subseteq FiniteSubsetsOf(Nat)
  BY FS_Interval DEF FiniteSubsetsOf
<1>2. PICK b \in Belows : \A c \in Belows : << c, b >> \notin StrictSubsetOrdering(Nat)
  <2>1. Belows # {}
    OBVIOUS
  <2> HIDE DEF Belows
  <2> QED
    BY <1>1, <2>1, FS_StrictSubsetOrderingWellFounded, WFMin
<1>3. PICK x \in T : b = Below(x)
  OBVIOUS
<1>4. ASSUME NEW y \in T, y < x PROVE FALSE
  <2>1. Below(y) \subseteq Below(x) /\ x \in Below(x) \ Below(y)
    BY <1>4
  <2>2. << Below(y), Below(x) >> \in StrictSubsetOrdering(Nat)
    BY <2>1 DEF StrictSubsetOrdering
  <2> QED
    BY <1>2, <1>3, <2>2
<1> QED
  BY <1>4

(* What holds at zero and is handed on holds up to the bound.              *)
LEMMA UpTo ==
  ASSUME NEW b \in Nat, NEW T, 0 \in T,
         \A i \in 1 .. b : i - 1 \in T => i \in T
  PROVE  0 .. b \subseteq T
<1> SUFFICES ASSUME (0 .. b) \ T # {} PROVE FALSE
  OBVIOUS
<1>1. PICK x \in (0 .. b) \ T : \A y \in (0 .. b) \ T : x <= y
  <2>1. (0 .. b) \ T \in SUBSET Nat
    OBVIOUS
  <2> QED
    BY <2>1, LeastOfNat
<1>2. x \in 1 .. b /\ x - 1 \in 0 .. b
  BY <1>1
<1>3. x - 1 \in T
  BY <1>1, <1>2
<1> QED
  BY <1>1, <1>2, <1>3

Iterated(g, first, step, b) ==
  g[0] = first /\ \A i \in 1 .. b : g[i] = step[i][g[i - 1]]

(* A value and a step determine a value for every natural up to a bound.   *)
LEMMA Iterates ==
  ASSUME NEW b \in Nat, NEW V, NEW first \in V, NEW step \in [1 .. b -> [V -> V]]
  PROVE  \E g \in [0 .. b -> V] : Iterated(g, first, step, b)
<1> DEFINE Good(k, g) == g[0] = first /\ \A i \in 1 .. k : g[i] = step[i][g[i - 1]]
           T == { k \in 0 .. b : \E g \in [0 .. k -> V] : Good(k, g) }
<1>1. 0 \in T
  <2> DEFINE g == [i \in 0 .. 0 |-> first]
  <2>1. g \in [0 .. 0 -> V] /\ Good(0, g)
    OBVIOUS
  <2> HIDE DEF g, Good
  <2> QED
    BY <2>1
<1>2. ASSUME NEW k \in 1 .. b, k - 1 \in T PROVE k \in T
  <2>1. PICK g \in [0 .. k - 1 -> V] : Good(k - 1, g)
    BY <1>2
  <2> DEFINE h == [i \in 0 .. k |-> IF i = k THEN step[k][g[k - 1]] ELSE g[i]]
  <2>2. g[k - 1] \in V
    OBVIOUS
  <2>3. h \in [0 .. k -> V]
    BY <2>2
  <2>4. \A i \in 0 .. k - 1 : h[i] = g[i]
    OBVIOUS
  <2>5. h[0] = first /\ h[k] = step[k][h[k - 1]]
    <3>1. 0 \in 0 .. k - 1 /\ k - 1 \in 0 .. k - 1 /\ k \in 0 .. k
      OBVIOUS
    <3>2. h[k] = step[k][g[k - 1]]
      BY <3>1
    <3> HIDE DEF h
    <3> QED
      BY <2>1, <2>4, <3>1, <3>2
  <2>6. \A i \in 1 .. k - 1 : h[i] = step[i][h[i - 1]]
    <3> SUFFICES ASSUME NEW i \in 1 .. k - 1 PROVE h[i] = step[i][h[i - 1]]
      OBVIOUS
    <3>1. i \in 0 .. k - 1 /\ i - 1 \in 0 .. k - 1
      OBVIOUS
    <3> HIDE DEF h
    <3> QED
      BY <2>1, <2>4, <3>1
  <2>7. Good(k, h)
    <3> HIDE DEF h
    <3> QED
      BY <2>5, <2>6
  <2> HIDE DEF h, Good
  <2> QED
    BY <2>3, <2>7
<1>3. 0 .. b \subseteq T
  <2> HIDE DEF T
  <2> QED
    BY <1>1, <1>2, UpTo
<1>4. b \in T
  BY <1>3
<1> QED
  BY <1>4 DEF Iterated

----------------------------------------------------------------------------
(* How often a lot stands in a bucket                                      *)

LEMMA CopiesCount ==
  ASSUME NEW R, NEW s \in Seq(R), NEW y
  PROVE  Copies(s, y) \in Nat /\ (Copies(s, y) = 0 <=> ~ Holds(s, y))
<1> DEFINE at == { k \in DOMAIN s : s[k] = y }
<1>1. DOMAIN s = 1 .. Len(s) /\ Len(s) \in Nat
  OBVIOUS
<1>2. IsFiniteSet(at)
  <2>1. IsFiniteSet(1 .. Len(s))
    BY <1>1, FS_Interval
  <2>2. at \in SUBSET (1 .. Len(s))
    BY <1>1
  <2> HIDE DEF at
  <2> QED
    BY <2>1, <2>2, FS_Subset
<1>3. Cardinality(at) \in Nat /\ (Cardinality(at) = 0 <=> at = {})
  BY <1>2, FS_CardinalityType, FS_EmptySet
<1> QED
  BY <1>3 DEF Copies, Holds

LEMMA CopiesAppend ==
  ASSUME NEW R, NEW s \in Seq(R), NEW x \in R, NEW y
  PROVE  Copies(Append(s, x), y) = Copies(s, y) + IF x = y THEN 1 ELSE 0
<1> DEFINE t == Append(s, x)
           at(u) == { k \in DOMAIN u : u[k] = y }
<1>1. /\ t \in Seq(R) /\ Len(t) = Len(s) + 1 /\ Len(s) \in Nat
      /\ \A k \in 1 .. Len(s) : t[k] = s[k]
      /\ t[Len(s) + 1] = x
      /\ DOMAIN s = 1 .. Len(s) /\ DOMAIN t = 1 .. Len(s) + 1
  BY AppendProperties
<1>2. IsFiniteSet(at(s)) /\ Len(s) + 1 \notin at(s)
  <2>1. IsFiniteSet(1 .. Len(s))
    BY <1>1, FS_Interval
  <2>2. at(s) \in SUBSET (1 .. Len(s)) /\ Len(s) + 1 \notin at(s)
    BY <1>1
  <2> HIDE DEF at
  <2> QED
    BY <2>1, <2>2, FS_Subset
<1>3. CASE x = y
  <2>1. at(t) = at(s) \cup {Len(s) + 1}
    BY <1>1, <1>3
  <2>2. Cardinality(at(t)) = Cardinality(at(s)) + 1
    BY <1>2, <2>1, FS_AddElement
  <2> QED
    BY <1>3, <2>2 DEF Copies
<1>4. CASE x # y
  <2>1. at(t) = at(s)
    BY <1>1, <1>4
  <2>2. Cardinality(at(s)) \in Nat
    BY <1>2, FS_CardinalityType
  <2>3. Copies(t, y) = Cardinality(at(t)) /\ Copies(s, y) = Cardinality(at(s))
    BY DEF Copies
  <2> HIDE DEF at, t
  <2> QED
    BY <1>4, <2>1, <2>2, <2>3 DEF t
<1> HIDE DEF t
<1> QED
  BY <1>3, <1>4 DEF t

LEMMA HoldsAppend ==
  ASSUME NEW R, NEW s \in Seq(R), NEW x \in R
  PROVE  /\ Holds(Append(s, x), x)
         /\ \A y : Holds(s, y) => Holds(Append(s, x), y)
<1> DEFINE t == Append(s, x)
<1>1. /\ Len(s) \in Nat /\ DOMAIN s = 1 .. Len(s) /\ DOMAIN t = 1 .. Len(s) + 1
      /\ \A k \in 1 .. Len(s) : t[k] = s[k]
      /\ t[Len(s) + 1] = x
  BY AppendProperties
<1> HIDE DEF t
<1>2. Holds(t, x)
  <2>1. Len(s) + 1 \in DOMAIN t
    BY <1>1
  <2> QED
    BY <1>1, <2>1 DEF Holds
<1>3. ASSUME NEW y, Holds(s, y) PROVE Holds(t, y)
  <2>1. PICK k \in DOMAIN s : s[k] = y
    BY <1>3 DEF Holds
  <2>2. k \in DOMAIN t /\ t[k] = y
    BY <1>1, <2>1
  <2> QED
    BY <2>2 DEF Holds
<1> QED
  BY <1>2, <1>3 DEF t

(* The bucket grows lot after lot.                                         *)
Merging(u, R, old, q) ==
  /\ u \in [0 .. Len(q) -> Seq(R)]
  /\ u[0] = old
  /\ \A i \in 1 .. Len(q) :
       u[i] = IF Holds(u[i - 1], q[i]) THEN u[i - 1] ELSE Append(u[i - 1], q[i])

LEMMA MergedRecur ==
  ASSUME NEW R, NEW old \in Seq(R), NEW q \in Seq(R)
  PROVE  \E u : Merging(u, R, old, q) /\ Merged(old, q) = u[Len(q)]
<1> DEFINE b == Len(q)
           V == Seq(R)
           Add(u, i) == IF Holds(u, q[i]) THEN u ELSE Append(u, q[i])
           step == [i \in 1 .. b |-> [u \in V |-> Add(u, i)]]
<1>1. b \in Nat /\ DOMAIN q = 1 .. b /\ \A i \in 1 .. b : q[i] \in R
  BY ElementOfSeq
<1>2. \A i \in 1 .. b : \A u \in V : Add(u, i) \in V
  BY <1>1, AppendProperties
<1>3. PICK g \in [0 .. b -> V] : Iterated(g, old, step, b)
  <2>1. step \in [1 .. b -> [V -> V]]
    BY <1>2
  <2>2. old \in V
    OBVIOUS
  <2> HIDE DEF b, step, V
  <2> QED
    BY <1>1, <2>1, <2>2, Iterates
<1>4. g[0] = old /\ \A i \in 1 .. b : g[i] = Add(g[i - 1], i)
  <2>1. \A i \in 1 .. b : i - 1 \in 0 .. b
    BY <1>1
  <2>2. \A i \in 1 .. b : \A u \in V : step[i][u] = Add(u, i)
    OBVIOUS
  <2> HIDE DEF b, step, V, Add
  <2> QED
    BY <1>3, <2>1, <2>2 DEF Iterated
<1>5. g = [i \in 0 .. b |-> IF i = 0 THEN old ELSE Add(g[i - 1], i)]
  <2> HIDE DEF b, V, Add
  <2> QED
    BY <1>1, <1>4
<1> DEFINE u == CHOOSE u : u = [k \in 0 .. Len(q) |->
                                   IF k = 0 THEN old
                                   ELSE IF Holds(u[k - 1], q[k]) THEN u[k - 1]
                                                               ELSE Append(u[k - 1], q[k])]
           T == { i \in 0 .. b : u[i] \in V }
<1>6. u = [i \in 0 .. b |-> IF i = 0 THEN old ELSE Add(u[i - 1], i)]
  BY <1>5
<1>7. u[0] = old /\ \A i \in 1 .. b : u[i] = Add(u[i - 1], i)
  <2> HIDE DEF b, V, Add, u
  <2> QED
    BY <1>1, <1>6
<1>8. 0 \in T
  <2>1. u[0] = old /\ 0 \in 0 .. b
    <3> HIDE DEF Add, u
    <3> QED
      BY <1>1, <1>7
  <2> HIDE DEF b, u
  <2> QED
    BY <2>1
<1>9. ASSUME NEW i \in 1 .. b, i - 1 \in T PROVE i \in T
  <2>1. u[i - 1] \in V /\ u[i] = Add(u[i - 1], i) /\ i \in 0 .. b
    <3> HIDE DEF u, Add, V
    <3> QED
      BY <1>1, <1>7, <1>9
  <2> HIDE DEF u, Add, V, b
  <2> QED
    BY <1>2, <2>1
<1>10. \A i \in 0 .. b : u[i] \in V
  <2> HIDE DEF T
  <2>1. 0 .. b \subseteq T
    BY <1>1, <1>8, <1>9, UpTo
  <2> QED
    BY <2>1 DEF T
<1>11. Merged(old, q) = u[b]
  BY DEF Merged
<1>12. Merging(u, R, old, q)
  <2>1. u \in [0 .. b -> V]
    <3> HIDE DEF b, V, Add, u
    <3> QED
      BY <1>6, <1>10
  <2> HIDE DEF u
  <2> QED
    BY <1>7, <2>1 DEF Merging
<1> HIDE DEF u
<1> QED
  BY <1>11, <1>12

(* Merging keeps the bucket, adds every lot that is missing, and adds it   *)
(* once.                                                                   *)
LEMMA MergedBucket ==
  ASSUME NEW R, NEW old \in Seq(R), NEW q \in Seq(R)
  PROVE  /\ Merged(old, q) \in Seq(R)
         /\ \A k \in 1 .. Len(q) : Holds(Merged(old, q), q[k])
         /\ (\A k \in 1 .. Len(q) : Holds(old, q[k])) => Merged(old, q) = old
         /\ \A y : \/ Copies(Merged(old, q), y) = Copies(old, y)
                   \/ Copies(Merged(old, q), y) = 1 /\ Holds(q, y)
<1> DEFINE b == Len(q)
<1>1. b \in Nat /\ DOMAIN q = 1 .. b /\ \A i \in 1 .. b : q[i] \in R
  BY ElementOfSeq
<1>2. PICK u : Merging(u, R, old, q) /\ Merged(old, q) = u[b]
  BY MergedRecur
<1> DEFINE Counted(s, y) == \/ Copies(s, y) = Copies(old, y)
                            \/ Copies(s, y) = 1 /\ Holds(q, y)
           T == { i \in 0 .. b : /\ \A k \in 1 .. i : Holds(u[i], q[k])
                                 /\ (\A k \in 1 .. b : Holds(old, q[k])) => u[i] = old
                                 /\ \A y : Counted(u[i], y) }
<1>3. \A i \in 0 .. b : u[i] \in Seq(R)
  BY <1>2 DEF Merging
<1>4. 0 \in T
  <2>1. u[0] = old /\ 0 \in 0 .. b /\ 1 .. 0 = {}
    BY <1>1, <1>2 DEF Merging
  <2> HIDE DEF b
  <2> QED
    BY <2>1
<1>5. ASSUME NEW i \in 1 .. b, i - 1 \in T PROVE i \in T
  <2>1. /\ \A k \in 1 .. i - 1 : Holds(u[i - 1], q[k])
        /\ (\A k \in 1 .. b : Holds(old, q[k])) => u[i - 1] = old
        /\ \A y : Counted(u[i - 1], y)
    <3> HIDE DEF Counted
    <3> QED
      BY <1>5
  <2>2. /\ i \in 0 .. b /\ q[i] \in R /\ u[i - 1] \in Seq(R)
        /\ u[i] = IF Holds(u[i - 1], q[i]) THEN u[i - 1] ELSE Append(u[i - 1], q[i])
    <3>1. i \in 0 .. b /\ i - 1 \in 0 .. b
      BY <1>1
    <3> QED
      BY <1>1, <1>2, <1>3, <3>1 DEF Merging
  <2>3. CASE Holds(u[i - 1], q[i])
    <3>1. u[i] = u[i - 1]
      BY <2>2, <2>3
    <3>2. \A k \in 1 .. i : Holds(u[i], q[k])
      BY <2>1, <2>3, <3>1
    <3> HIDE DEF Counted
    <3> QED
      BY <2>1, <2>2, <3>1, <3>2
  <2>4. CASE ~ Holds(u[i - 1], q[i])
    <3>1. u[i] = Append(u[i - 1], q[i])
      BY <2>2, <2>4
    <3>2. u[i] \in Seq(R)
      BY <2>1, <2>2, <3>1, AppendProperties
    <3>3. \A x : Holds(u[i - 1], x) => Holds(u[i], x)
      BY <2>1, <2>2, <3>1, HoldsAppend
    <3>4. Holds(u[i], q[i])
      BY <2>1, <2>2, <3>1, HoldsAppend
    <3>5. \A k \in 1 .. i : Holds(u[i], q[k])
      BY <2>1, <3>3, <3>4
    <3>6. ~ \A k \in 1 .. b : Holds(old, q[k])
      BY <2>1, <2>4
    <3>7. ASSUME NEW y PROVE Counted(u[i], y)
      <4>1. CASE y = q[i]
        <5>1. Copies(u[i - 1], y) = 0
          BY <2>2, <2>4, <4>1, CopiesCount
        <5>2. Copies(u[i], y) = 1
          BY <2>1, <2>2, <3>1, <4>1, <5>1, CopiesAppend
        <5>3. Holds(q, y)
          BY <1>1, <4>1 DEF Holds
        <5> QED
          BY <5>2, <5>3
      <4>2. CASE y # q[i]
        <5>1. Copies(u[i], y) = Copies(u[i - 1], y)
          <6>1. Copies(u[i], y) = Copies(u[i - 1], y) + 0
            BY <2>1, <2>2, <3>1, <4>2, CopiesAppend
          <6> QED
            BY <2>2, <6>1, CopiesCount
        <5> QED
          BY <2>1, <5>1
      <4> QED
        BY <4>1, <4>2
    <3> HIDE DEF Counted
    <3> QED
      BY <2>2, <3>2, <3>5, <3>6, <3>7
  <2> QED
    BY <2>3, <2>4
<1>6. b \in T
  <2> HIDE DEF T
  <2>1. 0 .. b \subseteq T
    BY <1>1, <1>4, <1>5, UpTo
  <2> QED
    BY <1>1, <2>1
<1> QED
  BY <1>1, <1>2, <1>3, <1>6

(* Merged into nothing, a list that holds no lot twice is what it was.     *)
LEMMA MergedNothing ==
  ASSUME NEW R, NEW q \in Seq(R), \A i, j \in DOMAIN q : q[i] = q[j] => i = j
  PROVE  Merged(<< >>, q) = q
<1> DEFINE b == Len(q)
<1>1. b \in Nat /\ DOMAIN q = 1 .. b /\ \A i \in 1 .. b : q[i] \in R
  BY ElementOfSeq
<1>2. PICK u : Merging(u, R, << >>, q) /\ Merged(<< >>, q) = u[b]
  <2>1. << >> \in Seq(R)
    BY EmptySeq
  <2> HIDE DEF b
  <2>2. \E u : Merging(u, R, << >>, q) /\ Merged(<< >>, q) = u[Len(q)]
    BY <2>1, MergedRecur
  <2> QED
    BY <2>2 DEF b
<1> DEFINE T == { i \in 0 .. b : Len(u[i]) = i /\ \A k \in 1 .. i : u[i][k] = q[k] }
<1>3. \A i \in 0 .. b : u[i] \in Seq(R)
  BY <1>2 DEF Merging
<1>4. 0 \in T
  <2>1. u[0] = << >> /\ 0 \in 0 .. b /\ 1 .. 0 = {}
    BY <1>1, <1>2 DEF Merging
  <2> HIDE DEF b
  <2> QED
    BY <2>1
<1>5. ASSUME NEW i \in 1 .. b, i - 1 \in T PROVE i \in T
  <2>1. /\ i \in 0 .. b /\ i - 1 \in 0 .. b /\ q[i] \in R /\ u[i - 1] \in Seq(R)
        /\ \A k \in 1 .. i - 1 : k \in 1 .. b /\ k # i
        /\ \A k \in 1 .. i : k \in 1 .. i - 1 \/ k = i
    <3>1. i \in 0 .. b /\ i - 1 \in 0 .. b
      BY <1>1
    <3> QED
      BY <1>1, <1>3, <3>1
  <2>2. Len(u[i - 1]) = i - 1 /\ \A k \in 1 .. i - 1 : u[i - 1][k] = q[k]
    BY <1>5
  <2>3. DOMAIN u[i - 1] = 1 .. i - 1
    BY <2>1, <2>2
  <2>4. ~ Holds(u[i - 1], q[i])
    <3> HIDE DEF b
    <3> QED
      BY <1>1, <2>1, <2>2, <2>3 DEF Holds
  <2>5. u[i] = Append(u[i - 1], q[i])
    BY <1>2, <2>4 DEF Merging
  <2>6. /\ Len(u[i]) = Len(u[i - 1]) + 1
        /\ \A k \in 1 .. Len(u[i - 1]) : u[i][k] = u[i - 1][k]
        /\ u[i][Len(u[i - 1]) + 1] = q[i]
    BY <2>1, <2>5, AppendProperties
  <2>7. Len(u[i]) = i /\ u[i][i] = q[i] /\ \A k \in 1 .. i - 1 : u[i][k] = q[k]
    <3>1. (i - 1) + 1 = i
      OBVIOUS
    <3>2. Len(u[i]) = i /\ u[i][i] = q[i]
      BY <2>2, <2>6, <3>1
    <3>3. \A k \in 1 .. i - 1 : u[i][k] = q[k]
      BY <2>2, <2>6
    <3> QED
      BY <3>2, <3>3
  <2> HIDE DEF b
  <2> QED
    BY <2>1, <2>7
<1>6. b \in T
  <2> HIDE DEF T
  <2>1. 0 .. b \subseteq T
    BY <1>1, <1>4, <1>5, UpTo
  <2> QED
    BY <1>1, <2>1
<1>7. u[b] \in Seq(R) /\ Len(u[b]) = b /\ \A k \in 1 .. b : u[b][k] = q[k]
  BY <1>1, <1>3, <1>6
<1> HIDE DEF b
<1>8. u[b] = q
  BY <1>1, <1>7 DEF b
<1> QED
  BY <1>2, <1>8 DEF b

LEMMA MergedType ==
  ASSUME NEW R, NEW old \in Seq(R), NEW q \in Seq(R)
  PROVE  Merged(old, q) \in Seq(R)
  BY MergedBucket, Zenon

----------------------------------------------------------------------------
(* Types                                                                   *)

LEMMA LayerBuckets ==
  ASSUME NEW L \in Layers, NEW b \in Names
  PROVE  /\ L[b] \in Buckets
         /\ \A n \in Nodes, w \in Weeks : L[b][n][w] \in Seq(LotIds)
<1>1. L.S \in Buckets /\ L.CO \in Buckets /\ L.I \in Buckets /\ L.P \in Buckets
  BY DEF Layers
<1>2. L[b] \in Buckets
  BY <1>1 DEF Names
<1> QED
  BY <1>2 DEF Buckets

(* Two layers with the same buckets are the same.                          *)
LEMMA SameLayer ==
  ASSUME NEW L \in Layers, NEW M \in Layers,
         \A b \in Names, n \in Nodes, w \in Weeks : L[b][n][w] = M[b][n][w]
  PROVE  L = M
<1>1. \A b \in Names : L[b] \in Buckets /\ M[b] \in Buckets
  BY LayerBuckets
<1>2. \A b \in Names : L[b] = M[b]
  BY <1>1 DEF Buckets
<1>3. L.S = M.S /\ L.CO = M.CO /\ L.I = M.I /\ L.P = M.P
  BY <1>2 DEF Names
<1> QED
  BY <1>3 DEF Layers

LEMMA SupplyFields ==
  /\ Supply["S"] = tS /\ Supply["CO"] = tCO /\ Supply["I"] = tI /\ Supply["P"] = tP
  /\ Supply \in Layers <=> tS \in Buckets /\ tCO \in Buckets /\ tI \in Buckets /\ tP \in Buckets
  BY DEF Supply, Layers

(* One bucket of one week is written.                                      *)
LEMMA WriteBucket ==
  ASSUME NEW B \in Buckets, NEW n \in Nodes, NEW v \in Weeks, NEW x \in Seq(LotIds)
  PROVE  /\ [B EXCEPT ![n][v] = x] \in Buckets
         /\ \A m \in Nodes, w \in Weeks :
              [B EXCEPT ![n][v] = x][m][w] = IF m = n /\ w = v THEN x ELSE B[m][w]
  BY DEF Buckets

LEMMA TargetWeek ==
  ASSUME TypeOK, phase = "week"
  PROVE  /\ cur \in Nodes /\ cur \in todo /\ cur \notin setting.noPsi
         /\ week \in Weeks /\ week < setting.demandSpan[cur]
         /\ setting.demandSpan[cur] \in 0 .. NWeeks /\ setting.lead \in Int
         /\ Target \in Int /\ (InRange => Target \in Weeks)
<1>1. /\ cur \in Nodes /\ cur \in todo /\ cur \notin setting.noPsi
      /\ week \in 0 .. setting.demandSpan[cur] - 1
  BY DEF TypeOK
<1>2. /\ setting.demandSpan[cur] \in 0 .. NWeeks /\ setting.supplySpan[cur] \in 0 .. NWeeks
      /\ setting.lead \in Int
  BY <1>1 DEF TypeOK, IsSetting
<1> QED
  BY <1>1, <1>2, NWeeksAssumption DEF Weeks, Target, InRange

LEMMA BridgedType ==
  ASSUME TypeOK, phase = "week", InRange, NEW b \in Names
  PROVE  /\ Supply[b][cur][Target] \in Seq(LotIds)
         /\ demand[b][cur][week] \in Seq(LotIds)
         /\ Kept(b) \in Seq(LotIds) /\ Bridged(b) \in Seq(LotIds)
<1>1. cur \in Nodes /\ week \in Weeks /\ Target \in Weeks
  BY TargetWeek
<1>2. Supply[b][cur][Target] \in Seq(LotIds) /\ demand[b][cur][week] \in Seq(LotIds)
  BY <1>1, LayerBuckets DEF TypeOK
<1>3. Kept(b) \in Seq(LotIds)
  BY <1>2 DEF Kept
<1>4. Merged(Kept(b), demand[b][cur][week]) \in Seq(LotIds)
  BY <1>2, <1>3, MergedType
<1>5. Kept(b) \o demand[b][cur][week] \in Seq(LotIds)
  BY <1>2, <1>3, ConcatProperties
<1> QED
  BY <1>2, <1>3, <1>4, <1>5 DEF Bridged

(* The four buckets of the target week become new, everything else stays.  *)
Writes(new) ==
  /\ Supply' \in Layers
  /\ \A b \in Names, n \in Nodes, v \in Weeks :
       Supply'[b][n][v] = IF n = cur /\ v = Target THEN new[b] ELSE Supply[b][n][v]

LEMMA FourWrites ==
  ASSUME TypeOK, phase = "week", InRange, NEW new \in [Names -> Seq(LotIds)],
         tS'  = [tS  EXCEPT ![cur][Target] = new["S"]],
         tCO' = [tCO EXCEPT ![cur][Target] = new["CO"]],
         tI'  = [tI  EXCEPT ![cur][Target] = new["I"]],
         tP'  = [tP  EXCEPT ![cur][Target] = new["P"]]
  PROVE  Writes(new)
<1>1. cur \in Nodes /\ Target \in Weeks
  BY TargetWeek
<1>2. /\ tS \in Buckets /\ tCO \in Buckets /\ tI \in Buckets /\ tP \in Buckets
      /\ Supply["S"] = tS /\ Supply["CO"] = tCO /\ Supply["I"] = tI /\ Supply["P"] = tP
  BY SupplyFields DEF TypeOK
<1>3. /\ Supply'["S"] = tS' /\ Supply'["CO"] = tCO' /\ Supply'["I"] = tI' /\ Supply'["P"] = tP'
      /\ Supply' = [S |-> tS', CO |-> tCO', I |-> tI', P |-> tP']
  BY DEF Supply
<1>4. /\ new["S"] \in Seq(LotIds) /\ new["CO"] \in Seq(LotIds)
      /\ new["I"] \in Seq(LotIds) /\ new["P"] \in Seq(LotIds)
  BY DEF Names
<1> DEFINE Is(B, C, x) ==
             /\ C \in Buckets
             /\ \A n \in Nodes, v \in Weeks :
                  C[n][v] = IF n = cur /\ v = Target THEN x ELSE B[n][v]
<1>5. /\ Is(tS, tS', new["S"]) /\ Is(tCO, tCO', new["CO"])
      /\ Is(tI, tI', new["I"]) /\ Is(tP, tP', new["P"])
  <2>1. ASSUME NEW B \in Buckets, NEW x \in Seq(LotIds)
        PROVE  Is(B, [B EXCEPT ![cur][Target] = x], x)
    BY <1>1, WriteBucket
  <2> HIDE DEF Is
  <2> QED
    BY <1>2, <1>4, <2>1
<1>6. Supply' \in Layers
  BY <1>3, <1>5 DEF Layers
<1>7. \A b \in Names : Is(Supply[b], Supply'[b], new[b])
  <2> SUFFICES ASSUME NEW b \in Names PROVE Is(Supply[b], Supply'[b], new[b])
    OBVIOUS
  <2> HIDE DEF Is
  <2>1. CASE b = "S"
    BY <1>2, <1>3, <1>5, <2>1
  <2>2. CASE b = "CO"
    BY <1>2, <1>3, <1>5, <2>2
  <2>3. CASE b = "I"
    BY <1>2, <1>3, <1>5, <2>3
  <2>4. CASE b = "P"
    BY <1>2, <1>3, <1>5, <2>4
  <2> QED
    BY <2>1, <2>2, <2>3, <2>4 DEF Names
<1> QED
  BY <1>6, <1>7 DEF Writes

LEMMA ClearWrites ==
  ASSUME TypeOK, ClearOnly
  PROVE  Writes([b \in Names |-> << >>])
<1> DEFINE new == [b \in Names |-> << >>]
<1>1. new \in [Names -> Seq(LotIds)]
  BY EmptySeq
<1>2. new["S"] = << >> /\ new["CO"] = << >> /\ new["I"] = << >> /\ new["P"] = << >>
  BY DEF Names
<1> HIDE DEF new
<1>3. Writes(new)
  BY <1>1, <1>2, FourWrites DEF ClearOnly
<1> QED
  BY <1>3 DEF new

LEMMA CopyWrites ==
  ASSUME TypeOK, CopyWeek
  PROVE  Writes([b \in Names |-> Bridged(b)])
<1> DEFINE new == [b \in Names |-> Bridged(b)]
<1>1. new \in [Names -> Seq(LotIds)]
  <2>1. \A b \in Names : Bridged(b) \in Seq(LotIds)
    BY BridgedType DEF CopyWeek
  <2> QED
    BY <2>1
<1>2. /\ new["S"] = Bridged("S") /\ new["CO"] = Bridged("CO")
      /\ new["I"] = Bridged("I") /\ new["P"] = Bridged("P")
  BY DEF Names
<1> HIDE DEF new
<1>3. Writes(new)
  BY <1>1, <1>2, FourWrites DEF CopyWeek
<1> QED
  BY <1>3 DEF new

LEMMA InitLayers ==
  ASSUME Init
  PROVE  Supply = given.supply /\ Supply \in Layers /\ IsSetting(setting)
<1>1. PICK i \in Inputs :
        /\ tS = i.supply.S /\ tCO = i.supply.CO /\ tI = i.supply.I /\ tP = i.supply.P
        /\ setting = i.setting
        /\ given = [demand |-> demand, supply |-> i.supply]
  BY DEF Init
<1>2. i.supply \in Layers /\ IsSetting(i.setting)
  BY InputsAssumption
<1>3. i.supply = [S |-> i.supply.S, CO |-> i.supply.CO, I |-> i.supply.I, P |-> i.supply.P]
  BY <1>2 DEF Layers
<1>4. Supply = i.supply
  BY <1>1, <1>3 DEF Supply
<1> QED
  BY <1>1, <1>2, <1>4

LEMMA InitType == Init => TypeOK
<1> SUFFICES ASSUME Init PROVE TypeOK
  OBVIOUS
<1>1. Supply = given.supply /\ Supply \in Layers /\ IsSetting(setting)
  BY InitLayers
<1>2. demand \in Layers
  BY PlansAssumption DEF Init
<1>3. given \in [demand : Layers, supply : Layers]
  BY <1>1, <1>2 DEF Init
<1>4. /\ phase = "idle" /\ calls = 0 /\ todo = Nodes /\ copied = 0 /\ skipped = 0
      /\ touched = {} /\ invalid = {} /\ broken = {} /\ again = FALSE
  BY DEF Init
<1>5. calls \in 0 .. MaxCalls
  BY <1>4, MaxCallsAssumption
<1>6. /\ touched \subseteq Nodes \X Weeks
      /\ invalid \subseteq [node : Nodes, week : Weeks \cup {-1}]
      /\ broken \subseteq [node : Nodes, week : Weeks, bucket : Names]
  BY <1>4
<1>7. /\ phase \in {"idle", "node", "week", "raised"} /\ phase # "week"
      /\ copied \in Int /\ skipped \in Int /\ todo \subseteq Nodes
  BY <1>4
<1>8. again \in BOOLEAN
  BY <1>4
<1> QED
  BY <1>1, <1>2, <1>3, <1>5, <1>6, <1>7, <1>8 DEF TypeOK

(* The loop over the weeks stays within the node and its weeks.            *)
LEMMA NextWeekType ==
  ASSUME TypeOK, phase = "week", NextWeek, UNCHANGED << setting, cur >>
  PROVE  /\ phase' \in {"node", "week"} /\ todo' \subseteq Nodes
         /\ phase' = "week" => /\ cur' \in todo' \ setting'.noPsi
                              /\ week' \in 0 .. setting'.demandSpan[cur'] - 1
<1>1. /\ cur \in todo \ setting.noPsi /\ todo \subseteq Nodes
      /\ week \in 0 .. setting.demandSpan[cur] - 1
  BY DEF TypeOK
<1>2. setting.demandSpan[cur] \in Nat
  BY TargetWeek, NWeeksAssumption
<1>3. CASE week + 1 < setting.demandSpan[cur]
  BY <1>1, <1>2, <1>3 DEF NextWeek
<1>4. CASE ~ (week + 1 < setting.demandSpan[cur])
  BY <1>1, <1>4 DEF NextWeek
<1> QED
  BY <1>3, <1>4

LEMMA GrowthType ==
  ASSUME TypeOK, phase = "week", InRange
  PROVE  Growth \in Int /\ Offered \in Int
<1>1. \A b \in Names : /\ Len(Kept(b)) \in Nat /\ Len(Bridged(b)) \in Nat
                       /\ Len(demand[b][cur][week]) \in Nat
  BY BridgedType, LenProperties
<1>2. \A b \in Names : Source(b) \in Nat
  BY <1>1 DEF Source
<1> QED
  BY <1>1, <1>2 DEF Growth, Offered, Names

LEMMA StoppedType ==
  ASSUME TypeOK, phase = "week"
  PROVE  Stopped \subseteq [node : Nodes, week : Weeks, bucket : Names]
<1>1. cur \in Nodes /\ week \in Weeks
  BY TargetWeek
<1>2. \A k \in DOMAIN Order : Order[k] \in Names
  BY DEF Order, Names
<1>3. Stops \subseteq DOMAIN Order
  BY DEF Stops
<1> QED
  BY <1>1, <1>2, <1>3 DEF Stopped

LEMMA NextType == TypeOK /\ [Next]_vars => TypeOK'
<1> SUFFICES ASSUME TypeOK, [Next]_vars PROVE TypeOK'
  OBVIOUS
<1>1. UNCHANGED supply => Supply' = Supply
  BY DEF supply, Supply
<1>2. ASSUME UNCHANGED vars PROVE TypeOK'
  BY <1>1, <1>2 DEF TypeOK, vars, supply, result
<1>3. CASE Replan
  <2>1. demand' \in Layers
    BY <1>3, PlansAssumption DEF Replan
  <2> QED
    BY <1>1, <1>3, <2>1 DEF Replan, TypeOK, result
<1>4. CASE Refuse
  BY <1>1, <1>4 DEF Refuse, TypeOK, result
<1>5. CASE Call
  <2>1. calls' \in 0 .. MaxCalls
    BY <1>5, MaxCallsAssumption DEF Call, TypeOK
  <2>2. given' \in [demand : Layers, supply : Layers]
    BY <1>5 DEF Call, TypeOK
  <2>3. again' \in BOOLEAN
    BY <1>5 DEF Call
  <2> QED
    BY <1>1, <1>5, <2>1, <2>2, <2>3 DEF Call, TypeOK
<1>6. ASSUME NEW n \in Nodes, SkipNode(n) PROVE TypeOK'
  BY <1>1, <1>6 DEF SkipNode, TypeOK
<1>7. ASSUME NEW n \in Nodes, BeginNode(n) PROVE TypeOK'
  <2>1. n \in todo \ setting.noPsi /\ 0 \in 0 .. setting.demandSpan[n] - 1
    <3>1. setting.demandSpan[n] \in 0 .. NWeeks /\ setting.demandSpan[n] > 0
      BY <1>7 DEF BeginNode, TypeOK, IsSetting
    <3> QED
      BY <1>7, <3>1, NWeeksAssumption DEF BeginNode
  <2> QED
    BY <1>1, <1>7, <2>1 DEF BeginNode, TypeOK, result
<1>8. CASE SkipWeek
  <2>1. cur \in Nodes /\ week \in Weeks
    BY <1>8, TargetWeek DEF SkipWeek
  <2>2. invalid' \subseteq [node : Nodes, week : Weeks \cup {-1}]
    BY <1>8, <2>1 DEF SkipWeek, TypeOK
  <2>3. /\ phase' \in {"node", "week"} /\ todo' \subseteq Nodes
        /\ phase' = "week" => /\ cur' \in todo' \ setting'.noPsi
                             /\ week' \in 0 .. setting'.demandSpan[cur'] - 1
    BY <1>8, NextWeekType DEF SkipWeek
  <2> QED
    BY <1>1, <1>8, <2>2, <2>3 DEF SkipWeek, TypeOK
<1>9. CASE ClearOnly
  <2>1. cur \in Nodes /\ week \in Weeks
    BY <1>9, TargetWeek DEF ClearOnly
  <2>2. broken' \subseteq [node : Nodes, week : Weeks, bucket : Names]
    <3>1. JunkInTarget \subseteq Names
      BY DEF JunkInTarget
    <3>2. { [node |-> cur, week |-> week, bucket |-> b] : b \in JunkInTarget }
            \subseteq [node : Nodes, week : Weeks, bucket : Names]
      BY <2>1, <3>1
    <3> QED
      BY <1>9, <3>2 DEF ClearOnly, TypeOK
  <2>3. /\ phase' \in {"node", "week"} /\ todo' \subseteq Nodes
        /\ phase' = "week" => /\ cur' \in todo' \ setting'.noPsi
                             /\ week' \in 0 .. setting'.demandSpan[cur'] - 1
    BY <1>9, NextWeekType DEF ClearOnly
  <2>4. Supply' \in Layers
    BY <1>9, ClearWrites DEF Writes
  <2> QED
    BY <1>9, <2>2, <2>3, <2>4 DEF ClearOnly, TypeOK
<1>10. CASE CopyWeek
  <2>1. cur \in Nodes /\ week \in Weeks
    BY <1>10, TargetWeek DEF CopyWeek
  <2>2. broken' \subseteq [node : Nodes, week : Weeks, bucket : Names]
    BY <1>10, StoppedType DEF CopyWeek, TypeOK
  <2>3. /\ phase' \in {"node", "week"} /\ todo' \subseteq Nodes
        /\ phase' = "week" => /\ cur' \in todo' \ setting'.noPsi
                             /\ week' \in 0 .. setting'.demandSpan[cur'] - 1
    BY <1>10, NextWeekType DEF CopyWeek
  <2>4. Supply' \in Layers
    BY <1>10, CopyWrites DEF Writes
  <2>5. copied' \in Int /\ skipped' \in Int
    BY <1>10, GrowthType DEF CopyWeek, TypeOK
  <2>6. touched' \subseteq Nodes \X Weeks
    BY <1>10, <2>1 DEF CopyWeek, TypeOK
  <2> QED
    BY <1>10, <2>2, <2>3, <2>4, <2>5, <2>6 DEF CopyWeek, TypeOK
<1>11. CASE Return
  BY <1>1, <1>11 DEF Return, TypeOK, result
<1> QED
  BY <1>2, <1>3, <1>4, <1>5, <1>6, <1>7, <1>8, <1>9, <1>10, <1>11 DEF Next

(* Whatever the settings, the bridge only ever leaves lists of lots in the *)
(* supply layer, and visits and reports nodes and weeks of the tree alone. *)
THEOREM TypeCorrect == Spec => []TypeOK
  BY InitType, NextType, PTL DEF Spec

----------------------------------------------------------------------------
(* What a call makes of the supply layer                                   *)

JunkAt(n, w) == { b \in Names : << n, w + setting.lead, b >> \in setting.junkS }

StopsAt(n, w) ==
  { k \in DOMAIN Order : /\ Order[k] \in Policy
                         /\ << n, w, Order[k] >> \in setting.junkD \/ Order[k] \in JunkAt(n, w) }

CopiedAt(n, w) ==
  { Order[k] : k \in { j \in DOMAIN Order :
      Order[j] \in Policy /\ \A s \in StopsAt(n, w) : j < s } }

ClearFails(n, w) == Clears /\ JunkAt(n, w) # {}

(* The weeks that are written.                                             *)
Bridgeable(n, w) ==
  /\ w \in Weeks
  /\ w + setting.lead >= 0 /\ w + setting.lead < setting.supplySpan[n]
  /\ << n, w >> \notin setting.shortD /\ << n, w + setting.lead >> \notin setting.shortS

(* What a call leaves in the week that such a week is copied to: it        *)
(* depends on nothing but the two layers as the call found them.           *)
Outcome(b, n, w) ==
  LET old == IF Clears THEN << >> ELSE given.supply[b][n][w + setting.lead]
      q   == given.demand[b][n][w]
  IN IF ClearFails(n, w) \/ b \notin CopiedAt(n, w) THEN old
     ELSE IF setting.mode = "dedupe_append" THEN Merged(old, q)
     ELSE old \o q

(* Each bucket holds its outcome once its week is done, and what the call  *)
(* found there until then.                                                 *)
WriteInv ==
  \A b \in Names, n \in Nodes, v \in Weeks :
    Supply[b][n][v] =
      IF Bridgeable(n, v - setting.lead) /\ Done(n, v - setting.lead)
        THEN Outcome(b, n, v - setting.lead) ELSE given.supply[b][n][v]

(* A week that is done without a report was copied to the end.             *)
ReportInv ==
  \A n \in Nodes, w \in Weeks :
    Done(n, w) /\ ~ Reported(n, w) =>
      Bridgeable(n, w) /\ ~ ClearFails(n, w) /\ StopsAt(n, w) = {}

CallInv ==
  /\ phase \in {"node", "week"} => calls > 0 /\ given.demand = demand
  /\ phase = "idle" /\ calls > 0 => todo = {}
  /\ calls > 0 => setting.policy # "other"
  /\ again => calls > 0

(* A call that repeats another has nothing left to change.                 *)
AgainInv ==
  again /\ (setting.mode = "dedupe_append" \/ Overwrites) =>
    \A b \in Names, n \in Nodes, w \in Weeks :
      Bridgeable(n, w) /\ n \notin setting.noPsi /\ w < setting.demandSpan[n] =>
        Outcome(b, n, w) = given.supply[b][n][w + setting.lead]

(* The week that is bridged now, in these terms.                           *)
LEMMA CurrentWeek ==
  ASSUME TypeOK, phase = "week"
  PROVE  /\ JunkAt(cur, week) = JunkInTarget
         /\ StopsAt(cur, week) = Stops /\ CopiedAt(cur, week) = Copied
         /\ Bridgeable(cur, week) <=> InRange /\ Readable
<1>1. JunkAt(cur, week) = JunkInTarget
  BY DEF JunkAt, JunkInTarget, Target
<1>2. StopsAt(cur, week) = Stops
  BY <1>1 DEF StopsAt, Stops
<1>3. CopiedAt(cur, week) = Copied
  BY <1>2 DEF CopiedAt, Copied
<1>4. Bridgeable(cur, week) <=> InRange /\ Readable
  BY TargetWeek DEF Bridgeable, InRange, Readable, Target
<1> QED
  BY <1>1, <1>2, <1>3, <1>4

LEMMA BridgeableWeek ==
  ASSUME TypeOK, NEW n \in Nodes, NEW w, Bridgeable(n, w)
  PROVE  w \in Weeks /\ w + setting.lead \in Weeks /\ w = (w + setting.lead) - setting.lead
<1>1. setting.lead \in Int /\ setting.supplySpan[n] \in 0 .. NWeeks
  BY DEF TypeOK, IsSetting
<1> QED
  BY <1>1, NWeeksAssumption DEF Bridgeable, Weeks

(* The loop adds the week it ends to those that are done.                  *)
LEMMA DoneStep ==
  ASSUME TypeOK, CallInv, phase = "week", NextWeek, UNCHANGED << setting, cur, calls >>,
         NEW n \in Nodes, NEW w \in Weeks
  PROVE  /\ Done(n, w)' <=> Done(n, w) \/ (n = cur /\ w = week)
         /\ ~ Done(cur, week)
<1>1. /\ cur \in todo /\ cur \notin setting.noPsi /\ week \in Weeks
      /\ week < setting.demandSpan[cur] /\ setting.demandSpan[cur] \in Nat
  BY TargetWeek, NWeeksAssumption
<1>2. calls > 0 /\ week \in Nat /\ w \in Nat
  BY <1>1 DEF CallInv, Weeks
<1>3. CASE week + 1 < setting.demandSpan[cur]
  BY <1>1, <1>2, <1>3 DEF NextWeek, Done
<1>4. CASE ~ (week + 1 < setting.demandSpan[cur])
  BY <1>1, <1>2, <1>4 DEF NextWeek, Done
<1> QED
  BY <1>3, <1>4

(* Nothing of this depends on where the call stands.                       *)
LEMMA SameOutcome ==
  ASSUME UNCHANGED << setting, given >>
  PROVE  /\ \A n, w : /\ Bridgeable(n, w)' <=> Bridgeable(n, w)
                      /\ ClearFails(n, w)' <=> ClearFails(n, w)
                      /\ StopsAt(n, w)' = StopsAt(n, w)
         /\ \A b, n, w : Outcome(b, n, w)' = Outcome(b, n, w)
         /\ Policy' = Policy /\ (Overwrites' <=> Overwrites)
<1>1. Policy' = Policy /\ (Clears' <=> Clears) /\ (Overwrites' <=> Overwrites)
  BY DEF Policy, Clears, Overwrites
<1>2. \A n, w : JunkAt(n, w)' = JunkAt(n, w)
  BY DEF JunkAt
<1>3. \A n, w : StopsAt(n, w)' = StopsAt(n, w)
  BY <1>1, <1>2 DEF StopsAt
<1>4. \A n, w : CopiedAt(n, w)' = CopiedAt(n, w)
  BY <1>1, <1>3 DEF CopiedAt
<1>5. \A n, w : ClearFails(n, w)' <=> ClearFails(n, w)
  BY <1>1, <1>2 DEF ClearFails
<1>6. \A b, n, w : Outcome(b, n, w)' = Outcome(b, n, w)
  BY <1>1, <1>4, <1>5 DEF Outcome
<1>7. \A n, w : Bridgeable(n, w)' <=> Bridgeable(n, w)
  BY DEF Bridgeable
<1> QED
  BY <1>1, <1>3, <1>5, <1>6, <1>7

LEMMA InitCall == Init => CallInv /\ WriteInv /\ ReportInv /\ AgainInv
<1> SUFFICES ASSUME Init PROVE CallInv /\ WriteInv /\ ReportInv /\ AgainInv
  OBVIOUS
<1>1. calls = 0 /\ phase = "idle" /\ ~ again
  BY DEF Init
<1>2. \A n, w : ~ Done(n, w)
  BY <1>1 DEF Done
<1>3. Supply = given.supply
  BY InitLayers
<1> QED
  BY <1>1, <1>2, <1>3 DEF CallInv, WriteInv, ReportInv, AgainInv

LEMMA NextCall == TypeOK /\ CallInv /\ [Next]_vars => CallInv'
<1> SUFFICES ASSUME TypeOK, CallInv, [Next]_vars PROVE CallInv'
  OBVIOUS
<1>1. CASE UNCHANGED vars
  BY <1>1 DEF vars, CallInv
<1>2. CASE Replan
  BY <1>2 DEF Replan, CallInv
<1>3. CASE Refuse
  BY <1>3 DEF Refuse, CallInv
<1>4. CASE Call
  <2>1. calls \in Nat
    BY MaxCallsAssumption DEF TypeOK
  <2> QED
    BY <1>4, <2>1 DEF Call, CallInv
<1>5. ASSUME NEW n \in Nodes, SkipNode(n) \/ BeginNode(n) PROVE CallInv'
  BY <1>5 DEF SkipNode, BeginNode, CallInv
<1>6. CASE SkipWeek \/ ClearOnly \/ CopyWeek
  <2>1. phase = "week" /\ phase' \in {"node", "week"} /\ UNCHANGED << calls, given, demand, setting, again >>
    BY <1>6 DEF SkipWeek, ClearOnly, CopyWeek, NextWeek
  <2> QED
    BY <2>1 DEF CallInv
<1>7. CASE Return
  BY <1>7 DEF Return, CallInv
<1> QED
  BY <1>1, <1>2, <1>3, <1>4, <1>5, <1>6, <1>7 DEF Next

(* What a week that is written gets is its outcome.                        *)
LEMMA WritesOutcome ==
  ASSUME TypeOK, CallInv, WriteInv, phase = "week", InRange, Readable, ~ Done(cur, week),
         NEW b \in Names
  PROVE  /\ ClearFails(cur, week) => Outcome(b, cur, week) = << >>
         /\ ~ ClearFails(cur, week) => Outcome(b, cur, week) = Bridged(b)
<1>1. cur \in Nodes /\ week \in Weeks /\ Target \in Weeks /\ Target = week + setting.lead
      /\ week = Target - setting.lead
  BY TargetWeek DEF Target, Weeks
<1>2. Supply[b][cur][Target] = given.supply[b][cur][Target]
  BY <1>1 DEF WriteInv
<1>3. given.demand = demand
  BY DEF CallInv
<1>4. CopiedAt(cur, week) = Copied
  BY CurrentWeek
<1>5. Kept(b) = IF Clears THEN << >> ELSE given.supply[b][cur][week + setting.lead]
  BY <1>1, <1>2 DEF Kept
<1>6. ClearFails(cur, week) => Clears
  BY DEF ClearFails
<1> QED
  BY <1>3, <1>4, <1>5, <1>6 DEF Outcome, Bridged

(* A step that writes the current week, or skips it.                       *)
LEMMA WeekWritten ==
  ASSUME TypeOK, CallInv, WriteInv, SkipWeek \/ ClearOnly \/ CopyWeek
  PROVE  WriteInv'
<1>1. /\ phase = "week" /\ NextWeek
      /\ UNCHANGED << setting, cur, calls, given >>
  BY DEF SkipWeek, ClearOnly, CopyWeek
<1>2. /\ \A n, w : Bridgeable(n, w)' <=> Bridgeable(n, w)
      /\ \A b, n, w : Outcome(b, n, w)' = Outcome(b, n, w)
  BY <1>1, SameOutcome
<1>3. \A n \in Nodes, w \in Weeks : Done(n, w)' <=> Done(n, w) \/ (n = cur /\ w = week)
  BY <1>1, DoneStep
<1>4. /\ cur \in Nodes /\ week \in Weeks /\ setting.lead \in Int
      /\ Target = week + setting.lead /\ Target \in Int /\ ~ Done(cur, week)
  BY <1>1, TargetWeek, DoneStep DEF Target
<1>5. ASSUME NEW b \in Names, NEW n \in Nodes, NEW v \in Weeks
      PROVE  Supply'[b][n][v] =
               IF n = cur /\ v = Target /\ InRange /\ Readable
                 THEN Outcome(b, n, v - setting.lead) ELSE Supply[b][n][v]
  <2>1. CASE SkipWeek
    BY <2>1 DEF SkipWeek, supply, Supply
  <2>2. CASE ClearOnly
    <3>1. Outcome(b, cur, week) = << >>
      BY <1>4, <2>2, WritesOutcome, CurrentWeek DEF ClearOnly, ClearFails
    <3>2. Supply'[b][n][v] = IF n = cur /\ v = Target THEN << >> ELSE Supply[b][n][v]
      BY <2>2, ClearWrites DEF Writes
    <3>3. v = Target => v - setting.lead = week
      BY <1>4 DEF Weeks
    <3> QED
      BY <2>2, <3>1, <3>2, <3>3 DEF ClearOnly
  <2>3. CASE CopyWeek
    <3>1. Outcome(b, cur, week) = Bridged(b)
      BY <1>4, <2>3, WritesOutcome, CurrentWeek DEF CopyWeek, ClearFails
    <3>2. Supply'[b][n][v] = IF n = cur /\ v = Target THEN Bridged(b) ELSE Supply[b][n][v]
      BY <2>3, CopyWrites DEF Writes
    <3>3. v = Target => v - setting.lead = week
      BY <1>4 DEF Weeks
    <3> QED
      BY <2>3, <3>1, <3>2, <3>3 DEF CopyWeek
  <2> QED
    BY <2>1, <2>2, <2>3
<1>6. ASSUME NEW b \in Names, NEW n \in Nodes, NEW v \in Weeks
      PROVE  Supply'[b][n][v] =
               IF Bridgeable(n, v - setting.lead) /\ Done(n, v - setting.lead)'
                 THEN Outcome(b, n, v - setting.lead) ELSE given.supply[b][n][v]
  <2>1. PICK w : w = v - setting.lead
    OBVIOUS
  <2>2. Supply[b][n][v] =
          IF Bridgeable(n, w) /\ Done(n, w) THEN Outcome(b, n, w) ELSE given.supply[b][n][v]
    BY <2>1 DEF WriteInv
  <2>3. Bridgeable(n, w) => w \in Weeks
    BY DEF Bridgeable
  <2>4. v = Target <=> w = week
    BY <1>4, <2>1 DEF Weeks
  <2>5. Supply'[b][n][v] =
          IF Bridgeable(n, w) /\ Done(n, w)' THEN Outcome(b, n, w) ELSE given.supply[b][n][v]
    <3>1. CASE n = cur /\ w = week
      <4>1. Bridgeable(n, w) <=> InRange /\ Readable
        BY <1>1, <3>1, CurrentWeek
      <4>2. Done(n, w)' /\ ~ Done(n, w)
        BY <1>3, <1>4, <3>1
      <4> QED
        BY <1>5, <2>1, <2>2, <2>4, <3>1, <4>1, <4>2
    <3>2. CASE ~ (n = cur /\ w = week)
      <4>1. Bridgeable(n, w) => (Done(n, w)' <=> Done(n, w))
        BY <1>3, <2>3, <3>2
      <4>2. Supply'[b][n][v] = Supply[b][n][v]
        BY <1>5, <2>4, <3>2
      <4> QED
        BY <2>2, <4>1, <4>2
    <3> QED
      BY <3>1, <3>2
  <2>6. w = v - setting'.lead
    BY <1>1, <2>1
  <2> QED
    BY <2>1, <2>5, <2>6
<1> QED
  BY <1>1, <1>2, <1>6 DEF WriteInv

(* The steps that neither begin a call nor end a week.                     *)
LEMMA OtherSteps ==
  ASSUME TypeOK,
         \/ UNCHANGED vars \/ Replan \/ Refuse \/ Return
         \/ \E n \in Nodes : SkipNode(n) \/ BeginNode(n)
  PROVE  /\ UNCHANGED << setting, given, again >> /\ Supply' = Supply
         /\ \A n \in Nodes, w \in Weeks :
              /\ Done(n, w)' <=> Done(n, w)
              /\ Reported(n, w) => Reported(n, w)'
<1>1. UNCHANGED supply => Supply' = Supply
  BY DEF supply, Supply
<1>2. \A w \in Weeks : w \in Int /\ w >= 0
  BY DEF Weeks
<1>3. CASE UNCHANGED vars
  BY <1>1, <1>3 DEF vars, result, Done, Reported
<1>4. CASE Replan
  BY <1>1, <1>4 DEF Replan, result, Done, Reported
<1>5. CASE Refuse
  BY <1>1, <1>5 DEF Refuse, result, Done, Reported
<1>6. CASE Return
  BY <1>1, <1>6 DEF Return, result, Done, Reported
<1>7. ASSUME NEW m \in Nodes, SkipNode(m)
      PROVE  /\ UNCHANGED << setting, given, again >> /\ Supply' = Supply
             /\ \A n \in Nodes, w \in Weeks :
                  /\ Done(n, w)' <=> Done(n, w)
                  /\ Reported(n, w) => Reported(n, w)'
  <2>1. invalid \subseteq invalid' /\ UNCHANGED << broken, setting, given, again, phase, calls, cur, week >>
    BY <1>7 DEF SkipNode
  <2>2. todo' = todo \ {m} /\ (m \in setting.noPsi \/ setting.demandSpan[m] = 0)
        /\ phase = "node"
    BY <1>7 DEF SkipNode
  <2>3. \A n \in Nodes, w \in Weeks : Done(n, w)' <=> Done(n, w)
    BY <1>2, <2>1, <2>2 DEF Done
  <2>4. \A n \in Nodes, w \in Weeks : Reported(n, w) => Reported(n, w)'
    BY <2>1 DEF Reported
  <2> QED
    BY <1>1, <1>7, <2>1, <2>3, <2>4 DEF SkipNode
<1>8. ASSUME NEW m \in Nodes, BeginNode(m)
      PROVE  /\ UNCHANGED << setting, given, again >> /\ Supply' = Supply
             /\ \A n \in Nodes, w \in Weeks :
                  /\ Done(n, w)' <=> Done(n, w)
                  /\ Reported(n, w) => Reported(n, w)'
  <2>1. UNCHANGED << invalid, broken, setting, given, again, calls, todo >>
    BY <1>8 DEF BeginNode, result
  <2>2. week' = 0 /\ phase = "node"
    BY <1>8 DEF BeginNode
  <2>3. \A n \in Nodes, w \in Weeks : Done(n, w)' <=> Done(n, w)
    BY <1>2, <2>1, <2>2 DEF Done
  <2>4. \A n \in Nodes, w \in Weeks : Reported(n, w) => Reported(n, w)'
    BY <2>1 DEF Reported
  <2> QED
    BY <1>1, <1>8, <2>1, <2>3, <2>4 DEF BeginNode
<1> QED
  BY <1>3, <1>4, <1>5, <1>6, <1>7, <1>8

(* A call begins with nothing done.                                        *)
LEMMA CallStep ==
  ASSUME Call
  PROVE  /\ UNCHANGED setting /\ Supply' = Supply
         /\ given'.demand = demand /\ given'.supply = Supply
         /\ \A n \in Nodes : \A w : ~ Done(n, w)'
  BY DEF Call, supply, Supply, Done

LEMMA NextWrite == TypeOK /\ CallInv /\ WriteInv /\ [Next]_vars => WriteInv'
<1> SUFFICES ASSUME TypeOK, CallInv, WriteInv, [Next]_vars PROVE WriteInv'
  OBVIOUS
<1>1. CASE \/ UNCHANGED vars \/ Replan \/ Refuse \/ Return
           \/ \E n \in Nodes : SkipNode(n) \/ BeginNode(n)
  <2>1. /\ UNCHANGED << setting, given >> /\ Supply' = Supply
        /\ \A n \in Nodes, w \in Weeks : Done(n, w)' <=> Done(n, w)
    BY <1>1, OtherSteps
  <2>2. /\ \A n, w : Bridgeable(n, w)' <=> Bridgeable(n, w)
        /\ \A b, n, w : Outcome(b, n, w)' = Outcome(b, n, w)
    BY <2>1, SameOutcome
  <2>3. \A n, w : Bridgeable(n, w) => w \in Weeks
    BY DEF Bridgeable
  <2> QED
    BY <2>1, <2>2, <2>3 DEF WriteInv
<1>2. CASE Call
  BY <1>2, CallStep DEF WriteInv
<1>3. CASE SkipWeek \/ ClearOnly \/ CopyWeek
  BY <1>3, WeekWritten
<1> QED
  BY <1>1, <1>2, <1>3 DEF Next

LEMMA NextReport == TypeOK /\ CallInv /\ ReportInv /\ [Next]_vars => ReportInv'
<1> SUFFICES ASSUME TypeOK, CallInv, ReportInv, [Next]_vars PROVE ReportInv'
  OBVIOUS
<1>1. CASE \/ UNCHANGED vars \/ Replan \/ Refuse \/ Return
           \/ \E n \in Nodes : SkipNode(n) \/ BeginNode(n)
  <2>1. /\ UNCHANGED << setting, given >>
        /\ \A n \in Nodes, w \in Weeks :
             /\ Done(n, w)' <=> Done(n, w)
             /\ Reported(n, w) => Reported(n, w)'
    BY <1>1, OtherSteps
  <2>2. \A n, w : /\ Bridgeable(n, w)' <=> Bridgeable(n, w)
                  /\ ClearFails(n, w)' <=> ClearFails(n, w)
                  /\ StopsAt(n, w)' = StopsAt(n, w)
    BY <2>1, SameOutcome
  <2>3. ASSUME NEW n \in Nodes, NEW w \in Weeks, Done(n, w)', ~ Reported(n, w)'
        PROVE  Bridgeable(n, w)' /\ ~ ClearFails(n, w)' /\ StopsAt(n, w)' = {}
    <3>1. Done(n, w) /\ ~ Reported(n, w)
      BY <2>1, <2>3
    <3>2. Bridgeable(n, w) /\ ~ ClearFails(n, w) /\ StopsAt(n, w) = {}
      BY <3>1 DEF ReportInv
    <3> QED
      BY <2>2, <3>2
  <2> QED
    BY <2>3 DEF ReportInv
<1>2. CASE Call
  BY <1>2, CallStep DEF ReportInv
<1>3. CASE SkipWeek \/ ClearOnly \/ CopyWeek
  <2>1. /\ phase = "week" /\ NextWeek /\ UNCHANGED << setting, cur, calls, given >>
        /\ invalid \subseteq invalid' /\ broken \subseteq broken'
    BY <1>3 DEF SkipWeek, ClearOnly, CopyWeek
  <2>2. \A n, w : /\ Bridgeable(n, w)' <=> Bridgeable(n, w)
                  /\ ClearFails(n, w)' <=> ClearFails(n, w)
                  /\ StopsAt(n, w)' = StopsAt(n, w)
    BY <2>1, SameOutcome
  <2>3. \A n \in Nodes, w \in Weeks : Done(n, w)' <=> Done(n, w) \/ (n = cur /\ w = week)
    BY <2>1, DoneStep
  <2>4. \A n \in Nodes, w \in Weeks : Reported(n, w) => Reported(n, w)'
    BY <2>1 DEF Reported
  <2>5. \/ \E r \in invalid' \cup broken' : r.node = cur /\ r.week = week
        \/ Bridgeable(cur, week) /\ ~ ClearFails(cur, week) /\ StopsAt(cur, week) = {}
    <3>1. CASE SkipWeek
      <4>1. [node |-> cur, week |-> week] \in invalid'
        BY <3>1 DEF SkipWeek
      <4> QED
        BY <4>1
    <3>2. CASE ClearOnly
      <4>1. PICK b \in JunkInTarget : TRUE
        BY <3>2 DEF ClearOnly
      <4>2. [node |-> cur, week |-> week, bucket |-> b] \in broken'
        BY <3>2, <4>1 DEF ClearOnly
      <4> QED
        BY <4>2
    <3>3. CASE CopyWeek /\ Stops # {}
      <4>1. Stops \in SUBSET Nat
        BY DEF Stops, Order
      <4>2. PICK s \in Stops : \A r \in Stops : s <= r
        BY <3>3, <4>1, LeastOfNat
      <4>3. [node |-> cur, week |-> week, bucket |-> Order[s]] \in broken'
        BY <3>3, <4>2 DEF CopyWeek, Stopped
      <4> QED
        BY <4>3
    <3>4. CASE CopyWeek /\ Stops = {}
      BY <2>1, <3>4, CurrentWeek DEF CopyWeek, ClearFails
    <3> QED
      BY <1>3, <3>1, <3>2, <3>3, <3>4
  <2>6. ASSUME NEW n \in Nodes, NEW w \in Weeks, Done(n, w)', ~ Reported(n, w)'
        PROVE  Bridgeable(n, w)' /\ ~ ClearFails(n, w)' /\ StopsAt(n, w)' = {}
    <3>1. ~ Reported(n, w) /\ ~ \E r \in invalid' \cup broken' : r.node = n /\ r.week = w
      BY <2>4, <2>6 DEF Reported
    <3>2. CASE Done(n, w)
      BY <2>2, <3>1, <3>2 DEF ReportInv
    <3>3. CASE n = cur /\ w = week
      BY <2>2, <2>5, <3>1, <3>3
    <3> QED
      BY <2>3, <2>6, <3>2, <3>3
  <2> QED
    BY <2>6 DEF ReportInv
<1> QED
  BY <1>1, <1>2, <1>3 DEF Next

(* Replacing and deduplicating find nothing to change in their own result. *)
LEMMA OutcomeRepeated ==
  ASSUME TypeOK, CallInv, WriteInv, Call, calls > 0, given.demand = demand,
         setting.mode = "dedupe_append" \/ Overwrites,
         NEW b \in Names, NEW n \in Nodes, NEW w \in Weeks,
         Bridgeable(n, w), n \notin setting.noPsi, w < setting.demandSpan[n]
  PROVE  Outcome(b, n, w)' = Supply[b][n][w + setting.lead]
<1> DEFINE x == Supply[b][n][w + setting.lead]
           q == demand[b][n][w]
<1>1. w + setting.lead \in Weeks /\ w = (w + setting.lead) - setting.lead
  BY BridgeableWeek
<1>2. Done(n, w)
  BY DEF Done, CallInv, Call
<1>3. x = Outcome(b, n, w)
  BY <1>1, <1>2 DEF WriteInv
<1>4. /\ setting' = setting /\ given' = [demand |-> demand, supply |-> Supply]
      /\ setting.policy # "other"
  BY DEF Call
<1>5. /\ (Clears' <=> Clears) /\ CopiedAt(n, w)' = CopiedAt(n, w)
      /\ (ClearFails(n, w)' <=> ClearFails(n, w))
  <2>1. Clears' <=> Clears
    BY <1>4 DEF Clears
  <2>2. Policy' = Policy
    BY <1>4 DEF Policy
  <2>3. JunkAt(n, w)' = JunkAt(n, w)
    BY <1>4 DEF JunkAt
  <2>4. StopsAt(n, w)' = StopsAt(n, w)
    BY <1>4, <2>2, <2>3 DEF StopsAt
  <2>5. CopiedAt(n, w)' = CopiedAt(n, w)
    BY <2>2, <2>4 DEF CopiedAt
  <2> QED
    BY <2>1, <2>3, <2>5 DEF ClearFails
<1>6. Outcome(b, n, w)' =
        LET old == IF Clears THEN << >> ELSE x
        IN IF ClearFails(n, w) \/ b \notin CopiedAt(n, w) THEN old
           ELSE IF setting.mode = "dedupe_append" THEN Merged(old, q) ELSE old \o q
  BY <1>4, <1>5 DEF Outcome
<1>7. x = LET old == IF Clears THEN << >> ELSE given.supply[b][n][w + setting.lead]
          IN IF ClearFails(n, w) \/ b \notin CopiedAt(n, w) THEN old
             ELSE IF setting.mode = "dedupe_append" THEN Merged(old, q) ELSE old \o q
  BY <1>3 DEF Outcome
<1>8. q \in Seq(LotIds) /\ given.supply[b][n][w + setting.lead] \in Seq(LotIds)
  BY <1>1, LayerBuckets DEF TypeOK
<1> HIDE DEF x, q
<1>9. CASE Clears
  BY <1>6, <1>7, <1>9 DEF x
<1>10. CASE ~ Clears
  <2>1. setting.mode = "dedupe_append"
    <3>1. setting.policy \in {"s_p_only", "s_only", "full_clone", "other"}
      BY DEF TypeOK, IsSetting
    <3> QED
      BY <1>4, <1>10, <3>1 DEF Clears, Overwrites
  <2>2. CASE ClearFails(n, w) \/ b \notin CopiedAt(n, w)
    BY <1>6, <1>10, <2>2 DEF x
  <2>3. CASE ~ (ClearFails(n, w) \/ b \notin CopiedAt(n, w))
    <3> DEFINE old == given.supply[b][n][w + setting.lead]
    <3>1. x = Merged(old, q)
      BY <1>7, <1>10, <2>1, <2>3
    <3>2. x \in Seq(LotIds) /\ \A k \in 1 .. Len(q) : Holds(x, q[k])
      <4> HIDE DEF old
      <4>1. old \in Seq(LotIds)
        BY <1>8 DEF old
      <4> QED
        BY <1>8, <3>1, <4>1, MergedBucket
    <3>3. Merged(x, q) = x
      BY <1>8, <3>2, MergedBucket
    <3> QED
      BY <1>6, <1>10, <2>1, <2>3, <3>3 DEF x
  <2> QED
    BY <2>2, <2>3
<1> QED
  BY <1>9, <1>10

LEMMA NextAgain == TypeOK /\ CallInv /\ WriteInv /\ AgainInv /\ [Next]_vars => AgainInv'
<1> SUFFICES ASSUME TypeOK, CallInv, WriteInv, AgainInv, [Next]_vars PROVE AgainInv'
  OBVIOUS
<1>1. CASE ~ Call
  <2>1. UNCHANGED << setting, given, again >>
    <3>1. ASSUME \/ UNCHANGED vars \/ Replan \/ Refuse \/ Return
                 \/ \E n \in Nodes : SkipNode(n) \/ BeginNode(n)
          PROVE  UNCHANGED << setting, given, again >>
      BY <3>1, OtherSteps
    <3>2. ASSUME SkipWeek \/ ClearOnly \/ CopyWeek
          PROVE  UNCHANGED << setting, given, again >>
      BY <3>2 DEF SkipWeek, ClearOnly, CopyWeek
    <3> QED
      BY <1>1, <3>1, <3>2 DEF Next
  <2>2. /\ \A n, w : Bridgeable(n, w)' <=> Bridgeable(n, w)
        /\ \A b, n, w : Outcome(b, n, w)' = Outcome(b, n, w)
        /\ Overwrites' <=> Overwrites
    BY <2>1, SameOutcome
  <2> QED
    BY <2>1, <2>2 DEF AgainInv
<1>2. CASE Call
  <2>1. /\ setting' = setting /\ given'.supply = Supply
        /\ again' => calls > 0 /\ given.demand = demand
    BY <1>2 DEF Call
  <2>2. Overwrites' <=> Overwrites
    BY <2>1 DEF Overwrites
  <2>3. \A n, w : Bridgeable(n, w)' <=> Bridgeable(n, w)
    BY <2>1 DEF Bridgeable
  <2>4. ASSUME again', setting.mode = "dedupe_append" \/ Overwrites,
               NEW b \in Names, NEW n \in Nodes, NEW w \in Weeks,
               Bridgeable(n, w), n \notin setting.noPsi, w < setting.demandSpan[n]
        PROVE  Outcome(b, n, w)' = Supply[b][n][w + setting.lead]
    BY <1>2, <2>1, <2>4, OutcomeRepeated
  <2> QED
    BY <2>1, <2>2, <2>3, <2>4 DEF AgainInv
<1> QED
  BY <1>1, <1>2

----------------------------------------------------------------------------
(* What the bridge promises                                                *)

IInv == TypeOK /\ CallInv /\ WriteInv /\ ReportInv /\ AgainInv

LEMMA Invariance == Spec => []IInv
<1>1. Init => IInv
  BY InitType, InitCall DEF IInv
<1>2. IInv /\ [Next]_vars => IInv'
  BY NextType, NextCall, NextWrite, NextReport, NextAgain DEF IInv
<1> QED
  BY <1>1, <1>2, PTL DEF Spec

(* At any moment of a call the supply layer is the one the call found, but *)
(* for the outcome in the weeks that are done: whatever the order of the   *)
(* nodes and weeks, none disturbs what another has written or will find.   *)
THEOREM BridgedAsPlanned == Spec => []WriteInv
<1>1. IInv => WriteInv
  BY DEF IInv
<1> QED
  BY <1>1, Invariance, PTL

LEMMA PolicyBuckets ==
  ASSUME NEW n, NEW w, StopsAt(n, w) = {}
  PROVE  CopiedAt(n, w) = Policy /\ Policy \subseteq Names
<1>1. Policy \subseteq Names
  BY DEF Policy, Names
<1>2. ASSUME NEW b \in Names PROVE \E k \in DOMAIN Order : Order[k] = b
  <2>1. DOMAIN Order = 1 .. 4
    BY DEF Order
  <2>2. Order[1] = "S" /\ Order[2] = "CO" /\ Order[3] = "I" /\ Order[4] = "P"
    BY DEF Order
  <2>3. 1 \in 1 .. 4 /\ 2 \in 1 .. 4 /\ 3 \in 1 .. 4 /\ 4 \in 1 .. 4
    OBVIOUS
  <2> QED
    BY <2>1, <2>2, <2>3 DEF Names
<1>3. CopiedAt(n, w) = { Order[k] : k \in { j \in DOMAIN Order : Order[j] \in Policy } }
  BY DEF CopiedAt
<1> QED
  BY <1>1, <1>2, <1>3

LEMMA ConcatHolds ==
  ASSUME NEW R, NEW old \in Seq(R), NEW q \in Seq(R), NEW k \in 1 .. Len(q)
  PROVE  Holds(old \o q, q[k])
<1>1. /\ Len(old) \in Nat /\ Len(q) \in Nat /\ Len(old) + k \in 1 .. Len(old) + Len(q)
  OBVIOUS
<1>2. DOMAIN (old \o q) = 1 .. Len(old) + Len(q) /\ (old \o q)[Len(old) + k] = q[k]
  BY <1>1, ConcatProperties
<1> QED
  BY <1>1, <1>2 DEF Holds

(* No lot of the plan is dropped in silence, whatever the policy, the mode *)
(* and the shift, and whatever of the two layers cannot be read.           *)
THEOREM NoLotDropped == Spec => []LotsArriveOrAreReported
<1>1. IInv => LotsArriveOrAreReported
  <2> SUFFICES ASSUME IInv, NEW n \in Nodes, NEW w \in Weeks, Done(n, w), ~ Reported(n, w),
                      NEW b \in Policy, NEW k \in DOMAIN given.demand[b][n][w]
               PROVE  Holds(Supply[b][n][w + setting.lead], given.demand[b][n][w][k])
    BY DEF LotsArriveOrAreReported
  <2>1. Bridgeable(n, w) /\ ~ ClearFails(n, w) /\ StopsAt(n, w) = {}
    BY DEF IInv, ReportInv
  <2>2. w + setting.lead \in Weeks /\ w = (w + setting.lead) - setting.lead
    BY <2>1, BridgeableWeek DEF IInv
  <2>3. b \in Names /\ b \in CopiedAt(n, w)
    BY <2>1, PolicyBuckets
  <2>4. Supply[b][n][w + setting.lead] = Outcome(b, n, w)
    BY <2>1, <2>2, <2>3 DEF IInv, WriteInv
  <2> DEFINE old == IF Clears THEN << >> ELSE given.supply[b][n][w + setting.lead]
             q   == given.demand[b][n][w]
  <2>5. old \in Seq(LotIds) /\ q \in Seq(LotIds)
    BY <2>2, <2>3, LayerBuckets, EmptySeq DEF IInv, TypeOK
  <2>6. Outcome(b, n, w) = IF setting.mode = "dedupe_append" THEN Merged(old, q) ELSE old \o q
    BY <2>1, <2>3 DEF Outcome
  <2> HIDE DEF old, q
  <2>7. k \in 1 .. Len(q)
    <3>1. k \in DOMAIN q
      BY DEF q
    <3> QED
      BY <2>5, <3>1
  <2>8. Holds(Merged(old, q), q[k]) /\ Holds(old \o q, q[k])
    BY <2>5, <2>7, MergedBucket, ConcatHolds
  <2> QED
    BY <2>4, <2>6, <2>8 DEF q
<1> QED
  BY <1>1, Invariance, PTL

(* Deduplicating, and replacing under the policies that clear, are         *)
(* idempotent: another call with the same plan leaves the supply layer as  *)
(* it is, whatever else failed in the two calls.                           *)
THEOREM RepeatsAreIdle == Spec => []RepeatChangesNothing
<1>1. IInv => RepeatChangesNothing
  <2> SUFFICES ASSUME IInv, phase = "idle", again, setting.mode = "dedupe_append" \/ Overwrites
               PROVE  Supply = given.supply
    BY DEF RepeatChangesNothing
  <2>1. ASSUME NEW b \in Names, NEW n \in Nodes, NEW v \in Weeks
        PROVE  Supply[b][n][v] = given.supply[b][n][v]
    <3>1. PICK w : w = v - setting.lead
      OBVIOUS
    <3>2. Supply[b][n][v] =
            IF Bridgeable(n, w) /\ Done(n, w) THEN Outcome(b, n, w) ELSE given.supply[b][n][v]
      BY <3>1 DEF IInv, WriteInv
    <3>3. CASE Bridgeable(n, w) /\ Done(n, w)
      <4>1. w \in Weeks /\ n \notin setting.noPsi /\ w < setting.demandSpan[n]
        BY <3>3 DEF Bridgeable, Done
      <4>2. Outcome(b, n, w) = given.supply[b][n][w + setting.lead]
        BY <3>3, <4>1 DEF IInv, AgainInv
      <4>3. w + setting.lead = v
        BY <3>1 DEF IInv, TypeOK, IsSetting, Weeks
      <4> QED
        BY <3>2, <3>3, <4>2, <4>3
    <3> QED
      BY <3>2, <3>3
  <2>2. Supply \in Layers /\ given.supply \in Layers
    BY DEF IInv, TypeOK
  <2> QED
    BY <2>1, <2>2, SameLayer
<1> QED
  BY <1>1, Invariance, PTL

(* Neither of them ever puts a lot into a bucket more often than the plan  *)
(* or the bucket had it, however often the tree is bridged.                *)
THEOREM CopiesBounded == Spec => []NoCopiesPileUp
<1>1. IInv => NoCopiesPileUp
  <2> SUFFICES ASSUME IInv, setting.mode = "dedupe_append" \/ Overwrites,
                      NEW b \in Names, NEW n \in Nodes, NEW v \in Weeks, NEW lot \in LotIds
               PROVE  LET w       == v - setting.lead
                          planned == IF w \in Weeks THEN Copies(given.demand[b][n][w], lot) ELSE 0
                          now     == Copies(Supply[b][n][v], lot)
                      IN \/ now <= Copies(given.supply[b][n][v], lot)
                         \/ now <= planned /\ (Overwrites \/ now <= 1)
    BY DEF NoCopiesPileUp
  <2>1. PICK w : w = v - setting.lead
    OBVIOUS
  <2>2. Supply[b][n][v] =
          IF Bridgeable(n, w) /\ Done(n, w) THEN Outcome(b, n, w) ELSE given.supply[b][n][v]
    BY <2>1 DEF IInv, WriteInv
  <2>3. Supply[b][n][v] \in Seq(LotIds) /\ given.supply[b][n][v] \in Seq(LotIds)
    BY LayerBuckets DEF IInv, TypeOK
  <2>4. /\ Copies(Supply[b][n][v], lot) \in Nat
        /\ Copies(given.supply[b][n][v], lot) \in Nat
    BY <2>3, CopiesCount
  <2> DEFINE now == Copies(Supply[b][n][v], lot)
             had == Copies(given.supply[b][n][v], lot)
             planned == Copies(given.demand[b][n][w], lot)
  <2>5. CASE ~ (Bridgeable(n, w) /\ Done(n, w))
    BY <2>2, <2>4, <2>5
  <2>6. CASE Bridgeable(n, w) /\ Done(n, w)
    <3>1. w \in Weeks /\ v = w + setting.lead /\ calls > 0
      BY <2>1, <2>6 DEF IInv, TypeOK, IsSetting, Weeks, Bridgeable, Done
    <3>2. setting.policy # "other"
      BY <3>1 DEF IInv, CallInv
    <3> DEFINE old == IF Clears THEN << >> ELSE given.supply[b][n][v]
               q   == given.demand[b][n][w]
    <3>3. old \in Seq(LotIds) /\ q \in Seq(LotIds)
      BY <2>3, <3>1, LayerBuckets, EmptySeq DEF IInv, TypeOK
    <3>4. Supply[b][n][v] =
            IF ClearFails(n, w) \/ b \notin CopiedAt(n, w) THEN old
            ELSE IF setting.mode = "dedupe_append" THEN Merged(old, q) ELSE old \o q
      BY <2>2, <2>6, <3>1 DEF Outcome
    <3>5. /\ Copies(old, lot) \in Nat /\ Copies(q, lot) \in Nat
          /\ Holds(q, lot) => Copies(q, lot) >= 1
      <4> HIDE DEF old, q
      <4> QED
        BY <3>3, CopiesCount
    <3>6. Copies(old, lot) <= had
      <4>1. CASE Clears
        <5>1. Copies(<< >>, lot) = 0
          <6>1. ~ Holds(<< >>, lot) /\ << >> \in Seq(LotIds)
            BY EmptySeq DEF Holds
          <6> QED
            BY <6>1, CopiesCount
        <5> QED
          BY <2>4, <4>1, <5>1
      <4>2. CASE ~ Clears
        BY <2>4, <4>2
      <4> QED
        BY <4>1, <4>2
    <3>7. CASE ClearFails(n, w) \/ b \notin CopiedAt(n, w)
      BY <3>4, <3>6, <3>7
    <3>8. CASE ~ (ClearFails(n, w) \/ b \notin CopiedAt(n, w))
      <4>1. CASE setting.mode = "dedupe_append"
        <5>1. Supply[b][n][v] = Merged(old, q)
          BY <3>4, <3>8, <4>1
        <5>2. now = Copies(old, lot) \/ (now = 1 /\ Holds(q, lot))
          <6> HIDE DEF old, q
          <6> QED
            BY <3>3, <5>1, MergedBucket
        <5>3. now <= had \/ (now <= planned /\ now <= 1)
          <6> HIDE DEF old
          <6> QED
            BY <3>5, <3>6, <5>2
        <5> HIDE DEF now, had, planned
        <5> QED
          BY <2>1, <3>1, <5>3 DEF now, had, planned
      <4>2. CASE setting.mode # "dedupe_append"
        <5>1. Overwrites /\ Clears
          <6>1. setting.policy \in {"s_p_only", "s_only", "full_clone", "other"}
            BY DEF IInv, TypeOK, IsSetting
          <6> QED
            BY <3>2, <4>2, <6>1 DEF Clears, Overwrites
        <5>2. Supply[b][n][v] = << >> \o q
          BY <3>4, <3>8, <4>2, <5>1
        <5>3. Supply[b][n][v] = q
          <6> HIDE DEF q
          <6> QED
            BY <3>3, <5>2
        <5>4. now = planned
          BY <5>3
        <5>5. now <= planned
          BY <2>4, <5>4
        <5> HIDE DEF now, had, planned
        <5> QED
          BY <2>1, <3>1, <5>1, <5>5 DEF now, planned
      <4> QED
        BY <4>1, <4>2
    <3> QED
      BY <3>7, <3>8
  <2> QED
    BY <2>5, <2>6
<1> QED
  BY <1>1, Invariance, PTL

=============================================================================
