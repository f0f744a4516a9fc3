--------------------------- MODULE PushPullProofs ---------------------------
(***************************************************************************)
(* Theorems about the push/pull planning of the outbound tree, for any     *)
(* tree, lots, weeks, demand, shipments and selections.                    *)
(***************************************************************************)
EXTENDS PushPull, FiniteSetTheorems, SequenceTheorems, TLAPS

----------------------------------------------------------------------------
(* Induction over naturals, with a set for what is to be shown.            *)

(* A set of naturals has a least member: of the intervals below its        *)
(* members, one has no other strictly inside it.                           *)
LEMMA LeastOfNat ==
  ASSUME NEW T \in SUBSET Nat, T # {}
  PROVE  \E x \in T : \A y \in T : x <= y
<1> DEFINE Below(x) == 1 .. x
           Belows   == { Below(x) : x \in T }
<1>1. Belows \subseteq FiniteSubsetsOf(Nat)
  BY FS_Interval DEF FiniteSubsetsOf
<1>2. PICK b \in Belows : \A c \in Belows : << c, b >> \notin StrictSubsetOrdering(Nat)
  <2>1. Belows # {}
    OBVIOUS
  <2> HIDE DEF Belows
  <2> QED
    BY <1>1, <2>1, FS_StrictSubsetOrderingWellFounded, WFMin
<1>3. PICK x \in T : b = Below(x)
  OBVIOUS
<1>4. ASSUME NEW y \in T, y < x PROVE FALSE
  <2>1. Below(y) \subseteq Below(x) /\ x \in Below(x) \ Below(y)
    BY <1>4
  <2>2. << Below(y), Below(x) >> \in StrictSubsetOrdering(Nat)
    BY <2>1 DEF StrictSubsetOrdering
  <2> QED
    BY <1>2, <1>3, <2>2
<1> QED
  BY <1>4

(* A set of naturals with a bound has a greatest member.                   *)
LEMMA GreatestOfNat ==
  ASSUME NEW b \in Nat, NEW T \in SUBSET (0 .. b), T # {}
  PROVE  \E x \in T : \A y \in T : y <= x
<1> DEFINE Gaps == { b - x : x \in T }
<1>1. Gaps \in SUBSET Nat /\ Gaps # {}
  <2>1. \A x \in T : b - x \in Nat
    OBVIOUS
  <2> QED
    BY <2>1
<1>2. PICK g \in Gaps : \A h \in Gaps : g <= h
  BY <1>1, LeastOfNat
<1>3. PICK x \in T : g = b - x
  BY <1>2
<1>4. ASSUME NEW y \in T PROVE y <= x
  <2>1. b - x <= b - y
    BY <1>2, <1>3
  <2>2. x \in Nat /\ y \in Nat
    OBVIOUS
  <2> QED
    BY <2>1, <2>2
<1> QED
  BY <1>4

(* What holds at zero and is handed on holds up to the bound.              *)
LEMMA UpTo ==
  ASSUME NEW b \in Nat, NEW T, 0 \in T,
         \A i \in 1 .. b : i - 1 \in T => i \in T
  PROVE  0 .. b \subseteq T
<1> SUFFICES ASSUME (0 .. b) \ T # {} PROVE FALSE
  OBVIOUS
<1>1. PICK x \in (0 .. b) \ T : \A y \in (0 .. b) \ T : x <= y
  <2>1. (0 .. b) \ T \in SUBSET Nat
    OBVIOUS
  <2> QED
    BY <2>1, LeastOfNat
<1>2. x \in 1 .. b /\ x - 1 \in 0 .. b
  BY <1>1
<1>3. x - 1 \in T
  BY <1>1, <1>2
<1> QED
  BY <1>1, <1>2, <1>3

----------------------------------------------------------------------------
(* The tree                                                                *)

(* What holds of the root, and of a node when of its parent, holds of all. *)
LEMMA DownTheTree ==
  ASSUME NEW T, Root \in T,
         \A n \in Nodes \ {Root} : Parent[n] \in T => n \in T
  PROVE  Nodes \subseteq T
<1>1. Nodes \ T \in SUBSET (Nodes \ {Root})
  OBVIOUS
<1>2. ASSUME Nodes \ T # {} PROVE FALSE
  <2>1. PICK n \in Nodes \ T : Parent[n] \notin Nodes \ T
    BY <1>1, <1>2, TreeAssumption
  <2>2. n \in Nodes \ {Root} /\ Parent[n] \in Nodes
    BY TreeAssumption DEF Parent
  <2> QED
    BY <2>1, <2>2
<1> QED
  BY <1>2

(* The parent of a node is the only node it is a child of.                 *)
LEMMA ParentIsUnique ==
  /\ Parent \in [Nodes \ {Root} -> Nodes]
  /\ \A n, p \in Nodes : n \in ChildrenOf(p) <=> n # Root /\ Parent[n] = p
<1>1. ASSUME NEW n \in Nodes \ {Root}
      PROVE  Parent[n] \in Nodes /\ \A p \in Nodes : n \in ChildrenOf(p) <=> p = Parent[n]
  <2>1. PICK p \in Nodes : \A q \in Nodes : n \in ChildrenOf(q) <=> q = p
    BY TreeAssumption
  <2>2. Parent[n] = p
    BY <2>1 DEF Parent
  <2> QED
    BY <2>1, <2>2
<1> QED
  BY <1>1, TreeAssumption DEF Parent

LEMMA ChildrenAreNodes ==
  ASSUME NEW n \in Nodes
  PROVE  ChildrenOf(n) \subseteq Nodes /\ (ChildrenOf(n) = {} <=> Children[n] = << >>)
<1>1. Children[n] \in Seq(Nodes)
  BY TreeAssumption
<1>2. ChildrenOf(n) = { Children[n][i] : i \in 1 .. Len(Children[n]) } /\ Len(Children[n]) \in Nat
  BY <1>1 DEF ChildrenOf, ToSet
<1>3. Children[n] = << >> <=> Len(Children[n]) = 0
  BY <1>1, EmptySeq
<1>4. Children[n] # << >> => Children[n][1] \in ChildrenOf(n)
  BY <1>2, <1>3
<1>5. Children[n] = << >> => ChildrenOf(n) = {}
  BY <1>2, <1>3
<1>6. ChildrenOf(n) \subseteq Nodes
  BY <1>1, <1>2, ElementOfSeq
<1> QED
  BY <1>4, <1>5, <1>6

(* The recursion that collects the ancestors has a solution: the smallest  *)
(* set that holds the node and is closed under parents.                    *)
LEMMA AncestorsEquation ==
  Ancestors = [n \in Nodes |-> {n} \cup IF n = Root THEN {} ELSE Ancestors[Parent[n]]]
<1> DEFINE Closed(C) == \A m \in C \ {Root} : Parent[m] \in C
           Up(n) == { k \in Nodes : \A C \in SUBSET Nodes : n \in C /\ Closed(C) => k \in C }
           f == [n \in Nodes |-> Up(n)]
<1>1. ASSUME NEW n \in Nodes PROVE Closed(Up(n)) /\ n \in Up(n)
  BY ParentIsUnique
<1>2. ASSUME NEW n \in Nodes
      PROVE  Up(n) = {n} \cup IF n = Root THEN {} ELSE f[Parent[n]]
  <2>1. CASE n = Root
    <3>1. {n} \in SUBSET Nodes /\ Closed({n})
      BY <2>1
    <3>2. ASSUME NEW k \in Up(n) PROVE k \in {n}
      BY <3>1
    <3>3. n \in Up(n)
      BY <1>1
    <3> HIDE DEF Up, f
    <3> QED
      BY <2>1, <3>2, <3>3
  <2>2. CASE n # Root
    <3> DEFINE p == Parent[n]
    <3>1. p \in Nodes
      BY <2>2, ParentIsUnique
    <3>2. {n} \cup Up(p) \in SUBSET Nodes /\ Closed({n} \cup Up(p))
      BY <1>1, <3>1
    <3>3. Up(n) \subseteq {n} \cup Up(p)
      BY <3>2
    <3>4. Up(p) \subseteq Up(n)
      BY <2>2, <3>1
    <3>5. f[p] = Up(p)
      BY <3>1
    <3>6. n \in Up(n)
      BY <1>1
    <3>7. Up(n) = {n} \cup f[p]
      <4> HIDE DEF Up, f
      <4> QED
        BY <3>3, <3>4, <3>5, <3>6
    <3> HIDE DEF Up, f
    <3> QED
      BY <2>2, <3>7
  <2> QED
    BY <2>1, <2>2
<1>3. f = [n \in Nodes |-> {n} \cup IF n = Root THEN {} ELSE f[Parent[n]]]
  <2> HIDE DEF Up
  <2> QED
    BY <1>2
<1> HIDE DEF f
<1> QED
  BY <1>3 DEF Ancestors

LEMMA OneStepUp ==
  \A n \in Nodes :
    Ancestors[n] = {n} \cup IF n = Root THEN {} ELSE Ancestors[Parent[n]]
BY AncestorsEquation

(* The ancestors of a node are nodes; it and the root are among them.      *)
LEMMA AncestorsType ==
  /\ Ancestors \in [Nodes -> SUBSET Nodes]
  /\ \A n \in Nodes : n \in Ancestors[n] /\ Root \in Ancestors[n]
  /\ Ancestors[Root] = {Root}
<1> DEFINE T == { n \in Nodes : /\ Ancestors[n] \subseteq Nodes
                                /\ n \in Ancestors[n] /\ Root \in Ancestors[n] }
<1>1. Root \in T /\ Ancestors[Root] = {Root}
  BY OneStepUp, TreeAssumption
<1>2. \A n \in Nodes \ {Root} : Parent[n] \in T => n \in T
  BY OneStepUp, ParentIsUnique
<1>3. Nodes \subseteq T
  <2> HIDE DEF T
  <2> QED
    BY <1>1, <1>2, DownTheTree
<1>4. Ancestors \in [Nodes -> SUBSET Nodes]
  BY <1>3, AncestorsEquation
<1> QED
  BY <1>1, <1>3, <1>4

(* Above the ancestor of a node is above the node.                         *)
LEMMA AncestorsTransitive ==
  \A m \in Nodes : \A n \in Ancestors[m] : Ancestors[n] \subseteq Ancestors[m]
<1> DEFINE T == { m \in Nodes : \A n \in Ancestors[m] : Ancestors[n] \subseteq Ancestors[m] }
<1>1. Root \in T
  BY AncestorsType, TreeAssumption
<1>2. \A m \in Nodes \ {Root} : Parent[m] \in T => m \in T
  BY OneStepUp, ParentIsUnique
<1>3. Nodes \subseteq T
  <2> HIDE DEF T
  <2> QED
    BY <1>1, <1>2, DownTheTree
<1> QED
  BY <1>3

(* No node is above its parent.                                            *)
LEMMA NotAboveParent ==
  ASSUME NEW n \in Nodes \ {Root}
  PROVE  n \notin Ancestors[Parent[n]]
<1> SUFFICES ASSUME n \in Ancestors[Parent[n]] PROVE FALSE
  OBVIOUS
<1> DEFINE Loop == { x \in Ancestors[n] : n \in Ancestors[x] }
<1>1. Loop \in SUBSET (Nodes \ {Root}) /\ n \in Loop
  BY AncestorsType
<1>2. PICK x \in Loop : Parent[x] \notin Loop
  BY <1>1, TreeAssumption
<1>3. x \in Nodes \ {Root} /\ Parent[x] \in Nodes
  BY <1>1, ParentIsUnique
<1>4. Parent[x] \in Ancestors[x]
  BY <1>3, OneStepUp, AncestorsType
<1>5. Parent[x] \in Ancestors[n]
  BY <1>3, <1>4, AncestorsTransitive
<1>6. n \in Ancestors[Parent[x]]
  BY <1>3, OneStepUp
<1> QED
  BY <1>2, <1>5, <1>6

LEMMA AncestorsOfParent ==
  ASSUME NEW n \in Nodes \ {Root}
  PROVE  Ancestors[n] \ {n} = Ancestors[Parent[n]]
BY OneStepUp, NotAboveParent

(* Of two nodes only one can be above the other.                           *)
LEMMA AncestorsAntisymmetric ==
  ASSUME NEW n \in Nodes, NEW m \in Nodes, n \in Ancestors[m], m \in Ancestors[n]
  PROVE  m = n
<1> SUFFICES ASSUME m # n PROVE FALSE
  OBVIOUS
<1>1. m # Root /\ n # Root
  BY AncestorsType
<1>2. n \in Ancestors[Parent[m]]
  BY <1>1, AncestorsOfParent
<1>3. m \in Ancestors[Parent[m]]
  BY <1>1, <1>2, AncestorsTransitive, ParentIsUnique
<1> QED
  BY <1>1, <1>3, NotAboveParent

(* What is above one node is a chain.                                      *)
LEMMA AncestorsChain ==
  \A m \in Nodes : \A k, n \in Ancestors[m] : k \in Ancestors[n] \/ n \in Ancestors[k]
<1> DEFINE T == { m \in Nodes : \A k, n \in Ancestors[m] : k \in Ancestors[n] \/ n \in Ancestors[k] }
<1>1. Root \in T
  BY AncestorsType, TreeAssumption
<1>2. \A m \in Nodes \ {Root} : Parent[m] \in T => m \in T
  BY OneStepUp
<1>3. Nodes \subseteq T
  <2> HIDE DEF T
  <2> QED
    BY <1>1, <1>2, DownTheTree
<1> QED
  BY <1>3

(* The way down from a node to one below it starts with a child.           *)
LEMMA FirstStepDown ==
  \A m \in Nodes : \A n \in Ancestors[m] \ {m} :
    \E c \in ChildrenOf(n) : c \in Ancestors[m]
<1> DEFINE T == { m \in Nodes : \A n \in Ancestors[m] \ {m} :
                                  \E c \in ChildrenOf(n) : c \in Ancestors[m] }
<1>1. Root \in T
  BY AncestorsType, TreeAssumption
<1>2. ASSUME NEW m \in Nodes \ {Root}, Parent[m] \in T PROVE m \in T
  <2> SUFFICES ASSUME NEW n \in Ancestors[m] \ {m}
               PROVE  \E c \in ChildrenOf(n) : c \in Ancestors[m]
    OBVIOUS
  <2>1. n \in Ancestors[Parent[m]] /\ Ancestors[Parent[m]] \subseteq Ancestors[m]
    BY AncestorsOfParent
  <2>2. CASE n = Parent[m]
    BY <2>2, ParentIsUnique, AncestorsType
  <2>3. CASE n # Parent[m]
    BY <2>1, <2>3, <1>2
  <2> QED
    BY <2>2, <2>3
<1>3. Nodes \subseteq T
  <2> HIDE DEF T
  <2> QED
    BY <1>1, <1>2, DownTheTree
<1> QED
  BY <1>3

(* Depth counts the levels.                                                *)
LEMMA DepthCounts ==
  /\ \A n \in Nodes : Depth(n) \in Nat
  /\ Depth(Root) = 0
  /\ \A n \in Nodes \ {Root} : Depth(n) = Depth(Parent[n]) + 1
<1>1. ASSUME NEW n \in Nodes
      PROVE  IsFiniteSet(Ancestors[n]) /\ Cardinality(Ancestors[n]) \in Nat \ {0}
  <2>1. IsFiniteSet(Ancestors[n])
    BY AncestorsType, FS_Subset, TreeAssumption
  <2>2. Cardinality(Ancestors[n]) # 0
    BY <2>1, AncestorsType, FS_EmptySet
  <2> QED
    BY <2>1, <2>2, FS_CardinalityType
<1>2. Depth(Root) = 0
  <2>1. Cardinality(Ancestors[Root]) = 1
    BY AncestorsType, FS_Singleton
  <2> QED
    BY <2>1 DEF Depth
<1>3. ASSUME NEW n \in Nodes \ {Root} PROVE Depth(n) = Depth(Parent[n]) + 1
  <2>1. Ancestors[n] = Ancestors[Parent[n]] \cup {n}
    BY OneStepUp
  <2>2. Cardinality(Ancestors[n]) = Cardinality(Ancestors[Parent[n]]) + 1
    BY <1>1, <2>1, FS_AddElement, NotAboveParent, ParentIsUnique
  <2> QED
    BY <1>1, <2>2, ParentIsUnique DEF Depth
<1> QED
  BY <1>1, <1>2, <1>3 DEF Depth

LEMMA DeeperBelow ==
  ASSUME NEW m \in Nodes, NEW n \in Ancestors[m], n # m
  PROVE  Depth(n) < Depth(m)
<1>1. /\ IsFiniteSet(Ancestors[m]) /\ n \in Nodes
      /\ Ancestors[n] \subseteq Ancestors[m] /\ m \in Ancestors[m] \ Ancestors[n]
  BY AncestorsType, FS_Subset, TreeAssumption, AncestorsTransitive, AncestorsAntisymmetric
<1>2. /\ Cardinality(Ancestors[n]) <= Cardinality(Ancestors[m])
      /\ Cardinality(Ancestors[n]) # Cardinality(Ancestors[m])
  BY <1>1, FS_Subset
<1>3. Cardinality(Ancestors[n]) \in Nat /\ Cardinality(Ancestors[m]) \in Nat
  BY <1>1, FS_Subset, FS_CardinalityType
<1> QED
  BY <1>2, <1>3 DEF Depth

(* The conversion the search for decoupling nodes relies on: what the      *)
(* input files describe is a tree in the sense of RisingCut.               *)
THEOREM TreeIsTree == Cut!IsTree
<1> USE DEF Cut!IsTree
<1>1. \A n, m \in Nodes : << n, m >> \in { x \in Nodes \X Nodes : x[1] \in Ancestors[x[2]] }
                            <=> n \in Ancestors[m]
  OBVIOUS
<1>2. \A n \in Nodes : Cut!Siblings(n) = ChildrenOf(n)
  BY ParentIsUnique, ChildrenAreNodes DEF Cut!Siblings
<1> QED
  BY <1>1, <1>2, TreeAssumption, ParentIsUnique, DepthCounts, DeeperBelow,
     AncestorsType, AncestorsTransitive, AncestorsChain, AncestorsOfParent, FirstStepDown

(* Every subtree has a leaf: its deepest node has no children.             *)
LEMMA LeafBelow ==
  ASSUME NEW n \in Nodes
  PROVE  LeavesOf(n) # {}
<1> DEFINE depths == { Depth(m) : m \in Subtree(n) }
<1>1. \A m \in Nodes : Depth(m) \in 0 .. Cardinality(Nodes)
  <2> SUFFICES ASSUME NEW m \in Nodes PROVE Depth(m) \in 0 .. Cardinality(Nodes)
    OBVIOUS
  <2>1. /\ IsFiniteSet(Ancestors[m]) /\ Cardinality(Ancestors[m]) <= Cardinality(Nodes)
        /\ Cardinality(Nodes) \in Nat
    BY AncestorsType, FS_Subset, FS_CardinalityType, TreeAssumption
  <2>2. Cardinality(Ancestors[m]) \in Nat
    BY <2>1, FS_CardinalityType
  <2> QED
    BY <2>1, <2>2, DepthCounts DEF Depth
<1>2. depths \in SUBSET (0 .. Cardinality(Nodes)) /\ depths # {}
  BY <1>1, AncestorsType DEF Subtree
<1>3. Cardinality(Nodes) \in Nat
  BY TreeAssumption, FS_CardinalityType
<1>4. PICK d \in depths : \A e \in depths : e <= d
  <2> HIDE DEF depths
  <2> QED
    BY <1>2, <1>3, GreatestOfNat
<1>5. PICK m \in Subtree(n) : d = Depth(m)
  BY <1>4
<1>6. m \in Nodes /\ n \in Ancestors[m]
  BY <1>5 DEF Subtree
<1>7. ASSUME NEW c \in ChildrenOf(m) PROVE FALSE
  <2>1. c \in Nodes \ {Root} /\ Parent[c] = m
    BY <1>6, <1>7, ChildrenAreNodes, ParentIsUnique
  <2>2. c \in Subtree(n)
    BY <1>6, <2>1, OneStepUp DEF Subtree
  <2>3. Depth(c) = Depth(m) + 1 /\ Depth(m) \in Nat
    BY <1>6, <2>1, DepthCounts
  <2>4. Depth(c) <= Depth(m)
    BY <1>4, <1>5, <2>2
  <2> QED
    BY <2>3, <2>4
<1>8. Children[m] = << >>
  BY <1>6, <1>7, ChildrenAreNodes
<1> QED
  BY <1>5, <1>8 DEF LeavesOf

----------------------------------------------------------------------------
(* Values handed from one natural to the next.                             *)

Iterated(g, first, step, b) ==
  g[0] = first /\ \A i \in 1 .. b : g[i] = step[i][g[i - 1]]

(* A value and a step determine a value for every natural up to a bound.   *)
LEMMA Iterates ==
  ASSUME NEW b \in Nat, NEW V, NEW first \in V, NEW step \in [1 .. b -> [V -> V]]
  PROVE  \E g \in [0 .. b -> V] : Iterated(g, first, step, b)
<1> DEFINE Good(k, g) == g[0] = first /\ \A i \in 1 .. k : g[i] = step[i][g[i - 1]]
           T == { k \in 0 .. b : \E g \in [0 .. k -> V] : Good(k, g) }
<1>1. 0 \in T
  <2> DEFINE g == [i \in 0 .. 0 |-> first]
  <2>1. g \in [0 .. 0 -> V] /\ Good(0, g)
    OBVIOUS
  <2> HIDE DEF g, Good
  <2> QED
    BY <2>1
<1>2. ASSUME NEW k \in 1 .. b, k - 1 \in T PROVE k \in T
  <2>1. PICK g \in [0 .. k - 1 -> V] : Good(k - 1, g)
    BY <1>2
  <2> DEFINE h == [i \in 0 .. k |-> IF i = k THEN step[k][g[k - 1]] ELSE g[i]]
  <2>2. g[k - 1] \in V
    OBVIOUS
  <2>3. h \in [0 .. k -> V]
    BY <2>2
  <2>4. \A i \in 0 .. k - 1 : h[i] = g[i]
    OBVIOUS
  <2>5. h[0] = first /\ h[k] = step[k][h[k - 1]]
    <3>1. 0 \in 0 .. k - 1 /\ k - 1 \in 0 .. k - 1 /\ k \in 0 .. k
      OBVIOUS
    <3>2. h[k] = step[k][g[k - 1]]
      BY <3>1
    <3> HIDE DEF h
    <3> QED
      BY <2>1, <2>4, <3>1, <3>2
  <2>6. \A i \in 1 .. k - 1 : h[i] = step[i][h[i - 1]]
    <3> SUFFICES ASSUME NEW i \in 1 .. k - 1 PROVE h[i] = step[i][h[i - 1]]
      OBVIOUS
    <3>1. i \in 0 .. k - 1 /\ i - 1 \in 0 .. k - 1
      OBVIOUS
    <3> HIDE DEF h
    <3> QED
      BY <2>1, <2>4, <3>1
  <2>7. Good(k, h)
    <3> HIDE DEF h
    <3> QED
      BY <2>5, <2>6
  <2> HIDE DEF h, Good
  <2> QED
    BY <2>3, <2>7
<1>3. 0 .. b \subseteq T
  <2> HIDE DEF T
  <2> QED
    BY <1>1, <1>2, UpTo
<1>4. b \in T
  BY <1>3
<1> QED
  BY <1>4 DEF Iterated

(* The stock of a node satisfies the week's equation, from the stock it    *)
(* has in the first week.                                                  *)
LEMMA StockEquation ==
  ASSUME NEW first \in SUBSET Lots, NEW S \in Buckets, NEW P \in Buckets
  PROVE  /\ Stock(first, S, P) \in Buckets
         /\ Stock(first, S, P)[0] = first
         /\ \A w \in Weeks \ {0} :
              Stock(first, S, P)[w] = (Stock(first, S, P)[w - 1] \cup P[w]) \ S[w]
<1> DEFINE b == NWeeks - 1
           V == SUBSET Lots
           step == [w \in 1 .. b |-> [x \in V |-> (x \cup P[w]) \ S[w]]]
<1>1. b \in Nat /\ Weeks = 0 .. b
  BY NWeeksAssumption DEF Weeks
<1>2. step \in [1 .. b -> [V -> V]]
  <2>1. \A w \in 1 .. b : \A x \in V : (x \cup P[w]) \ S[w] \in V
    BY <1>1 DEF Buckets
  <2> QED
    BY <2>1
<1>3. PICK g \in [0 .. b -> V] : Iterated(g, first, step, b)
  <2>1. first \in V
    OBVIOUS
  <2> HIDE DEF b, step, V
  <2> QED
    BY <1>1, <1>2, <2>1, Iterates
<1>4. ASSUME NEW w \in 1 .. b PROVE g[w] = (g[w - 1] \cup P[w]) \ S[w]
  <2>1. g[w - 1] \in SUBSET Lots
    BY <1>1
  <2> QED
    BY <1>3, <2>1 DEF Iterated
<1>5. g = [w \in Weeks |-> IF w = 0 THEN first ELSE (g[w - 1] \cup P[w]) \ S[w]]
  <2> HIDE DEF b
  <2> QED
    BY <1>1, <1>3, <1>4 DEF Iterated
<1>6. Stock(first, S, P) =
        [w \in Weeks |-> IF w = 0 THEN first
                         ELSE (Stock(first, S, P)[w - 1] \cup P[w]) \ S[w]]
  BY <1>5 DEF Stock
<1>7. \A w \in Weeks \ {0} : Stock(first, S, P)[w] = (Stock(first, S, P)[w - 1] \cup P[w]) \ S[w]
  <2> DEFINE s == Stock(first, S, P)
  <2>1. s = [w \in Weeks |-> IF w = 0 THEN first ELSE (s[w - 1] \cup P[w]) \ S[w]]
    BY <1>6
  <2> HIDE DEF s
  <2>2. \A w \in Weeks \ {0} : s[w] = (s[w - 1] \cup P[w]) \ S[w]
    BY <2>1
  <2> QED
    BY <2>2 DEF s
<1>8. 0 \in Weeks /\ Stock(first, S, P)[0] = first
  BY <1>1, <1>6
<1>9. Stock(first, S, P) \in Buckets
  <2> DEFINE s == Stock(first, S, P)
             T == { w \in Weeks : s[w] \subseteq Lots }
  <2>1. s = [w \in Weeks |-> s[w]]
    BY <1>6
  <2>2. \A i \in 1 .. b : i - 1 \in T => i \in T
    BY <1>1, <1>7 DEF Buckets
  <2>3. 0 \in T
    BY <1>8
  <2>4. 0 .. b \subseteq T
    <3> HIDE DEF T, b, s
    <3> QED
      BY <1>1, <2>2, <2>3, UpTo
  <2> HIDE DEF s, b
  <2> QED
    BY <1>1, <2>1, <2>4 DEF Buckets, s
<1> QED
  BY <1>7, <1>8, <1>9

----------------------------------------------------------------------------
(* Lists of nodes                                                          *)

LEMMA ToSetOfSeq ==
  ASSUME NEW R, NEW list \in Seq(R)
  PROVE  /\ ToSet(list) = { list[i] : i \in 1 .. Len(list) }
         /\ ToSet(list) \subseteq R
         /\ Len(list) \in Nat /\ DOMAIN list = 1 .. Len(list)
         /\ (ToSet(list) = {} <=> list = << >>)
<1>1. ToSet(list) = { list[i] : i \in 1 .. Len(list) } /\ Len(list) \in Nat /\ DOMAIN list = 1 .. Len(list)
  BY DEF ToSet
<1>2. ToSet(list) \subseteq R
  BY <1>1, ElementOfSeq
<1>3. list = << >> <=> Len(list) = 0
  BY EmptySeq
<1>4. ToSet(list) = {} <=> Len(list) = 0
  <2>1. Len(list) # 0 => list[1] \in ToSet(list)
    BY <1>1
  <2> QED
    BY <1>1, <2>1
<1> QED
  BY <1>1, <1>2, <1>3, <1>4

LEMMA ToSetOfAppend ==
  ASSUME NEW R, NEW list \in Seq(R), NEW x \in R
  PROVE  ToSet(Append(list, x)) = ToSet(list) \cup {x}
<1> DEFINE new == Append(list, x)
<1>1. /\ new \in Seq(R) /\ Len(new) = Len(list) + 1
      /\ new[Len(list) + 1] = x
      /\ \A i \in 1 .. Len(list) : new[i] = list[i]
  BY AppendProperties
<1>2. ToSet(new) = { new[i] : i \in 1 .. Len(new) }
  BY <1>1, ToSetOfSeq
<1>3. ToSet(list) = { list[i] : i \in 1 .. Len(list) } /\ Len(list) \in Nat
  BY ToSetOfSeq
<1> HIDE DEF new
<1>4. ToSet(new) \subseteq ToSet(list) \cup {x}
  BY <1>1, <1>2, <1>3
<1>5. ToSet(list) \cup {x} \subseteq ToSet(new)
  BY <1>1, <1>2, <1>3
<1> QED
  BY <1>4, <1>5 DEF new

LEMMA ToSetOfTail ==
  ASSUME NEW R, NEW list \in Seq(R), list # << >>
  PROVE  /\ Tail(list) \in Seq(R) /\ Head(list) \in R
         /\ Head(list) \in ToSet(list)
         /\ ToSet(list) = {Head(list)} \cup ToSet(Tail(list))
<1>1. /\ Tail(list) \in Seq(R) /\ Head(list) \in R /\ Head(list) = list[1]
      /\ Len(list) \in Nat \ {0}
      /\ Len(Tail(list)) = Len(list) - 1
      /\ \A i \in 1 .. Len(list) - 1 : Tail(list)[i] = list[i + 1]
  BY EmptySeq, HeadTailProperties
<1>2. ToSet(list) = { list[i] : i \in 1 .. Len(list) }
  BY ToSetOfSeq
<1>3. ToSet(Tail(list)) = { Tail(list)[i] : i \in 1 .. Len(list) - 1 }
  <2>1. ToSet(Tail(list)) = { Tail(list)[i] : i \in 1 .. Len(Tail(list)) }
    BY <1>1, ToSetOfSeq
  <2> QED
    BY <1>1, <2>1
<1>4. ToSet(Tail(list)) \subseteq ToSet(list) /\ Head(list) \in ToSet(list)
  BY <1>1, <1>2, <1>3
<1>5. ASSUME NEW i \in 1 .. Len(list), i # 1 PROVE list[i] \in ToSet(Tail(list))
  <2>1. i - 1 \in 1 .. Len(list) - 1 /\ i = (i - 1) + 1
    BY <1>1, <1>5
  <2> QED
    BY <1>1, <1>3, <2>1
<1> QED
  BY <1>1, <1>2, <1>4, <1>5

LEMMA FunctionIsList ==
  ASSUME NEW R, NEW n \in Nat, NEW list \in [1 .. n -> R]
  PROVE  list \in Seq(R) /\ Len(list) = n
OBVIOUS

(* Each member of the list comes before the later ones.                    *)
Ordered(list, order) ==
  \A i, j \in 1 .. Len(list) : i < j => << list[i], list[j] >> \in order

LEMMA OrderedAppend ==
  ASSUME NEW R, NEW list \in Seq(R), NEW x \in R, NEW order, Ordered(list, order),
         \A y \in ToSet(list) : << y, x >> \in order
  PROVE  Ordered(Append(list, x), order)
<1> DEFINE new == Append(list, x)
<1>1. /\ Len(new) = Len(list) + 1
      /\ new[Len(list) + 1] = x
      /\ \A i \in 1 .. Len(list) : new[i] = list[i]
  BY AppendProperties
<1>2. ToSet(list) = { list[i] : i \in 1 .. Len(list) } /\ Len(list) \in Nat
  BY ToSetOfSeq
<1> HIDE DEF new
<1>3. ASSUME NEW i \in 1 .. Len(new), NEW j \in 1 .. Len(new), i < j
      PROVE  << new[i], new[j] >> \in order
  <2>1. i \in 1 .. Len(list) /\ new[i] = list[i] /\ list[i] \in ToSet(list)
    BY <1>1, <1>2, <1>3
  <2>2. CASE j = Len(list) + 1
    BY <1>1, <2>1, <2>2
  <2>3. CASE j \in 1 .. Len(list)
    BY <1>1, <1>3, <2>1, <2>3 DEF Ordered
  <2> QED
    BY <1>1, <1>2, <2>2, <2>3
<1> QED
  BY <1>3 DEF Ordered, new

(* What is kept of a list are its members that are asked for, and they     *)
(* stay in order.                                                          *)
LEMMA KeptMembers ==
  ASSUME NEW R, NEW list \in Seq(R), NEW S
  PROVE  /\ Kept(list, S) \in Seq(R)
         /\ ToSet(Kept(list, S)) = ToSet(list) \cap S
         /\ \A order : Ordered(list, order) => Ordered(Kept(list, S), order)
<1> DEFINE b == Len(list)
           V == Seq(R)
           Add(u, i) == IF list[i] \in S THEN Append(u, list[i]) ELSE u
           step == [i \in 1 .. b |-> [u \in V |-> Add(u, i)]]
           firsts(i) == { list[j] : j \in 1 .. i }
<1>1. b \in Nat /\ \A i \in 1 .. b : list[i] \in R
  BY ElementOfSeq
<1>2. \A i \in 1 .. b : \A u \in V : Add(u, i) \in V
  BY <1>1, AppendProperties
<1>3. PICK g \in [0 .. b -> V] : Iterated(g, << >>, step, b)
  <2>1. << >> \in V
    BY EmptySeq
  <2>2. step \in [1 .. b -> [V -> V]]
    BY <1>2
  <2> HIDE DEF b, step, V
  <2> QED
    BY <1>1, <2>1, <2>2, Iterates
<1>4. g[0] = << >> /\ \A i \in 1 .. b : g[i] = Add(g[i - 1], i)
  <2>1. \A i \in 1 .. b : i - 1 \in 0 .. b
    BY <1>1
  <2>2. \A i \in 1 .. b : \A u \in V : step[i][u] = Add(u, i)
    OBVIOUS
  <2> HIDE DEF b, step, V, Add
  <2> QED
    BY <1>3, <2>1, <2>2 DEF Iterated
<1>5. g = [i \in 0 .. b |-> IF i = 0 THEN << >> ELSE Add(g[i - 1], i)]
  <2> HIDE DEF b, V, Add
  <2> QED
    BY <1>1, <1>4
<1> DEFINE u == CHOOSE u : u = [i \in 0 .. Len(list) |->
                                   IF i = 0 THEN << >>
                                   ELSE IF list[i] \in S THEN Append(u[i - 1], list[i])
                                                         ELSE u[i - 1]]
           T == { i \in 0 .. b : /\ u[i] \in V
                                 /\ ToSet(u[i]) = firsts(i) \cap S
                                 /\ \A order : Ordered(list, order) => Ordered(u[i], order) }
<1>6. u = [i \in 0 .. b |-> IF i = 0 THEN << >> ELSE Add(u[i - 1], i)]
  BY <1>5
<1>7. u[0] = << >> /\ \A i \in 1 .. b : u[i] = Add(u[i - 1], i)
  <2> HIDE DEF b, V, Add, u
  <2> QED
    BY <1>1, <1>6
<1>8. 0 \in T
  <2>1. << >> \in V /\ ToSet(<< >>) = {} /\ firsts(0) = {}
    <3>1. << >> \in Seq(R) /\ firsts(0) = {}
      BY EmptySeq
    <3> QED
      BY <3>1, ToSetOfSeq
  <2>2. \A order : Ordered(<< >>, order)
    BY EmptySeq DEF Ordered
  <2> HIDE DEF b, V, Add, u, firsts
  <2> QED
    BY <1>1, <1>7, <2>1, <2>2
<1>9. ASSUME NEW i \in 1 .. b, i - 1 \in T PROVE i \in T
  <2>1. /\ u[i - 1] \in Seq(R) /\ ToSet(u[i - 1]) = firsts(i - 1) \cap S
        /\ \A order : Ordered(list, order) => Ordered(u[i - 1], order)
    BY <1>9
  <2>2. firsts(i) = firsts(i - 1) \cup {list[i]} /\ list[i] \in R
    BY <1>1
  <2>3. CASE list[i] \notin S
    <3>1. u[i] = u[i - 1]
      BY <1>7, <2>3
    <3> HIDE DEF firsts, u, b
    <3> QED
      BY <1>1, <2>1, <2>2, <2>3, <3>1
  <2>4. CASE list[i] \in S
    <3>1. u[i] = Append(u[i - 1], list[i])
      BY <1>7, <2>4
    <3>2. u[i] \in Seq(R) /\ ToSet(u[i]) = firsts(i) \cap S
      <4> HIDE DEF firsts, u, b
      <4> QED
        BY <2>1, <2>2, <2>4, <3>1, AppendProperties, ToSetOfAppend
    <3>3. ASSUME NEW order, Ordered(list, order) PROVE Ordered(u[i], order)
      <4>1. \A y \in firsts(i - 1) : << y, list[i] >> \in order
        BY <1>1, <3>3 DEF Ordered
      <4> HIDE DEF firsts, u, b
      <4> QED
        BY <2>1, <2>2, <3>1, <3>3, <4>1, OrderedAppend
    <3> HIDE DEF firsts, u, b
    <3> QED
      BY <1>1, <3>2, <3>3
  <2> QED
    BY <2>3, <2>4
<1>10. b \in T
  <2>1. 0 .. b \subseteq T
    <3> HIDE DEF T, b
    <3> QED
      BY <1>1, <1>8, <1>9, UpTo
  <2> HIDE DEF T, b
  <2> QED
    BY <1>1, <2>1
<1>11. Kept(list, S) = u[b]
  BY DEF Kept
<1>12. firsts(b) = ToSet(list)
  BY ToSetOfSeq
<1> HIDE DEF u, firsts
<1> QED
  BY <1>10, <1>11, <1>12

DeeperFirst == { x \in Nodes \X Nodes : Depth(x[2]) <= Depth(x[1]) }

LEMMA ByDepthIsOrdered ==
  ASSUME NEW list \in Seq(Nodes)
  PROVE  ByDepth(list) <=> Ordered(list, DeeperFirst)
<1>1. DOMAIN list = 1 .. Len(list) /\ \A i \in 1 .. Len(list) : list[i] \in Nodes
  BY ElementOfSeq
<1> QED
  BY <1>1 DEF ByDepth, Ordered, DeeperFirst

LEMMA InsertedAt ==
  ASSUME NEW R, NEW list \in Seq(R), NEW n \in R, NEW i \in 1 .. Len(list)
  PROVE  LET new == InsertAt(list, i, n) IN
         /\ new \in Seq(R)
         /\ Len(new) = Len(list) + 1
         /\ \A j \in 1 .. i - 1 : new[j] = list[j]
         /\ new[i] = n
         /\ \A j \in i .. Len(list) : new[j + 1] = list[j]
<1> DEFINE front == SubSeq(list, 1, i - 1)
           rest  == SubSeq(list, i, Len(list))
           start == front \o << n >>
           new   == start \o rest
<1>1. Len(list) \in Nat /\ \A j \in 1 .. Len(list) : list[j] \in R
  BY ElementOfSeq
<1>2. /\ front \in Seq(R) /\ Len(front) = i - 1
      /\ \A j \in 1 .. i - 1 : front[j] = list[j]
  BY <1>1, SubSeqProperties
<1>3. /\ rest \in Seq(R) /\ Len(rest) = Len(list) - i + 1
      /\ \A j \in 1 .. Len(list) - i + 1 : rest[j] = list[i + j - 1]
  BY <1>1, SubSeqProperties
<1>4. << n >> \in Seq(R) /\ Len(<< n >>) = 1 /\ << n >>[1] = n
  OBVIOUS
<1>5. /\ start \in Seq(R) /\ Len(start) = i
      /\ \A j \in 1 .. i - 1 : start[j] = list[j]
      /\ start[i] = n
  <2> HIDE DEF front
  <2> QED
    BY <1>2, <1>4, ConcatProperties
<1>6. /\ new \in Seq(R) /\ Len(new) = Len(list) + 1
      /\ \A j \in 1 .. i : new[j] = start[j]
      /\ \A j \in 1 .. Len(list) - i + 1 : new[i + j] = rest[j]
  <2> HIDE DEF start, rest
  <2>1. new \in Seq(R) /\ Len(new) = Len(start) + Len(rest)
    BY <1>3, <1>5, ConcatProperties
  <2>2. \A j \in 1 .. Len(new) : new[j] = IF j <= Len(start) THEN start[j] ELSE rest[j - Len(start)]
    BY <1>3, <1>5, ConcatProperties
  <2> HIDE DEF new
  <2> QED
    BY <1>1, <1>3, <1>5, <2>1, <2>2
<1>7. ASSUME NEW j \in i .. Len(list) PROVE new[j + 1] = list[j]
  <2>1. j - i + 1 \in 1 .. Len(list) - i + 1 /\ j + 1 = i + (j - i + 1) /\ j = i + (j - i + 1) - 1
    BY <1>1
  <2>2. new[i + (j - i + 1)] = rest[j - i + 1]
    BY <1>6, <2>1
  <2>3. rest[j - i + 1] = list[i + (j - i + 1) - 1]
    BY <1>3, <2>1
  <2> HIDE DEF new, rest
  <2> QED
    BY <2>1, <2>2, <2>3
<1>8. InsertAt(list, i, n) = new
  BY DEF InsertAt
<1>9. \A j \in 1 .. i - 1 : j \in 1 .. i
  OBVIOUS
<1> HIDE DEF new, start
<1> QED
  BY <1>5, <1>6, <1>7, <1>8, <1>9

(* A node put into a list that is sorted by depth leaves it sorted.        *)
LEMMA InsertMembers ==
  ASSUME NEW list \in Seq(Nodes), NEW n \in Nodes, ByDepth(list)
  PROVE  /\ Insert(list, n) \in Seq(Nodes)
         /\ ToSet(Insert(list, n)) = ToSet(list) \cup {n}
         /\ ByDepth(Insert(list, n))
<1> DEFINE shallow == { i \in 1 .. Len(list) : Depth(list[i]) <= Depth(n) }
<1>1. Len(list) \in Nat /\ \A i \in 1 .. Len(list) : list[i] \in Nodes /\ Depth(list[i]) \in Nat
  BY ElementOfSeq, DepthCounts
<1>2. Depth(n) \in Nat
  BY DepthCounts
<1>3. CASE shallow = {}
  <2>1. Insert(list, n) = Append(list, n)
    BY <1>3 DEF Insert, SelectInSeq
  <2>2. ASSUME NEW y \in ToSet(list) PROVE << y, n >> \in DeeperFirst
    <3>1. PICK i \in 1 .. Len(list) : list[i] = y
      BY ToSetOfSeq
    <3>2. y \in Nodes /\ Depth(y) \in Nat /\ ~(Depth(y) <= Depth(n))
      BY <3>1, <1>1, <1>3
    <3> HIDE DEF shallow
    <3> QED
      BY <3>2, <1>2 DEF DeeperFirst
  <2>3. Ordered(Append(list, n), DeeperFirst)
    BY <2>2, OrderedAppend, ByDepthIsOrdered
  <2>4. Append(list, n) \in Seq(Nodes)
    BY AppendProperties
  <2>5. ToSet(Append(list, n)) = ToSet(list) \cup {n}
    BY ToSetOfAppend
  <2>6. ByDepth(Append(list, n))
    BY <2>3, <2>4, ByDepthIsOrdered
  <2> QED
    BY <2>1, <2>4, <2>5, <2>6
<1>4. CASE shallow # {}
  <2>1. PICK i \in shallow : \A j \in shallow : i <= j
    <3>1. shallow \in SUBSET Nat
      OBVIOUS
    <3> HIDE DEF shallow
    <3> QED
      BY <1>4, <3>1, LeastOfNat
  <2>2. SelectInSeq(list, LAMBDA m : Depth(m) <= Depth(n)) = i
    BY <2>1, <1>4 DEF SelectInSeq, Min
  <2> DEFINE new == InsertAt(list, i, n)
  <2>3. Insert(list, n) = new
    BY <2>2, <2>1 DEF Insert
  <2>4. /\ new \in Seq(Nodes)
        /\ Len(new) = Len(list) + 1
        /\ \A j \in 1 .. i - 1 : new[j] = list[j]
        /\ new[i] = n
        /\ \A j \in i .. Len(list) : new[j + 1] = list[j]
        /\ i \in 1 .. Len(list)
    BY <2>1, InsertedAt
  <2> HIDE DEF new
  <2>5. ToSet(new) = { new[j] : j \in 1 .. Len(new) } /\ ToSet(list) = { list[j] : j \in 1 .. Len(list) }
    BY <2>4, ToSetOfSeq
  <2>6. ASSUME NEW j \in 1 .. Len(list) + 1
        PROVE  \/ j \in 1 .. i - 1 /\ new[j] = list[j]
               \/ j = i /\ new[j] = n
               \/ j - 1 \in i .. Len(list) /\ new[j] = list[j - 1]
    <3>1. CASE j > i
      <4>1. j - 1 \in i .. Len(list) /\ j = (j - 1) + 1
        BY <1>1, <2>4, <3>1
      <4> QED
        BY <2>4, <4>1
    <3> QED
      BY <1>1, <2>4, <3>1
  <2>7. ToSet(new) \subseteq ToSet(list) \cup {n}
    <3>1. ASSUME NEW j \in 1 .. Len(list) + 1 PROVE new[j] \in ToSet(list) \cup {n}
      <4>1. j - 1 \in i .. Len(list) => j - 1 \in 1 .. Len(list)
        BY <1>1, <2>4
      <4>2. j \in 1 .. i - 1 => j \in 1 .. Len(list)
        BY <1>1, <2>4
      <4> QED
        BY <2>5, <2>6, <4>1, <4>2
    <3> QED
      BY <2>4, <2>5, <3>1
  <2>8. ToSet(list) \cup {n} \subseteq ToSet(new)
    <3>1. n \in ToSet(new)
      BY <1>1, <2>4, <2>5
    <3>2. ASSUME NEW j \in 1 .. Len(list) PROVE list[j] \in ToSet(new)
      <4>1. CASE j < i
        BY <1>1, <2>4, <2>5, <4>1
      <4>2. CASE j >= i
        <5>1. j + 1 \in 1 .. Len(new) /\ new[j + 1] = list[j]
          BY <1>1, <2>4, <4>2
        <5> QED
          BY <2>5, <5>1
      <4> QED
        BY <1>1, <2>4, <4>1, <4>2
    <3> QED
      BY <2>5, <3>1, <3>2
  <2>9. ASSUME NEW j \in 1 .. i - 1 PROVE Depth(n) <= Depth(list[j])
    <3>1. j \in 1 .. Len(list) /\ j \notin shallow
      BY <1>1, <2>1, <2>4
    <3> QED
      BY <1>1, <1>2, <3>1
  <2>10. ASSUME NEW j \in i .. Len(list) PROVE Depth(list[j]) <= Depth(n)
    <3>1. Depth(list[i]) <= Depth(n) /\ j \in 1 .. Len(list)
      BY <1>1, <2>1
    <3>2. Depth(list[j]) <= Depth(list[i])
      <4>1. i < j => Depth(list[j]) <= Depth(list[i])
        BY <2>4, <3>1, <1>1 DEF ByDepth
      <4> QED
        BY <4>1, <1>1, <2>4, <3>1
    <3> QED
      BY <1>1, <1>2, <2>4, <3>1, <3>2
  <2>11. ASSUME NEW j \in 1 .. Len(list), NEW k \in 1 .. Len(list), j < k
         PROVE  Depth(list[k]) <= Depth(list[j])
    BY <1>1, <2>11 DEF ByDepth
  <2>12. ASSUME NEW j \in 1 .. Len(new), NEW k \in 1 .. Len(new), j < k
         PROVE  Depth(new[k]) <= Depth(new[j])
    <3>1. CASE j = i
      <4>1. k - 1 \in i .. Len(list) /\ new[k] = list[k - 1]
        BY <2>4, <2>6, <2>12, <3>1
      <4> QED
        BY <2>4, <2>10, <3>1, <4>1
    <3>2. CASE k = i
      <4>1. j \in 1 .. i - 1 /\ new[j] = list[j]
        BY <2>4, <2>12, <3>2
      <4> QED
        BY <2>4, <2>9, <3>2, <4>1
    <3>3. CASE j # i /\ k # i
      <4>1. PICK x \in 1 .. Len(list) : new[j] = list[x] /\ ((x = j /\ j < i) \/ (x = j - 1 /\ i < j))
        BY <1>1, <2>4, <2>6, <3>3
      <4>2. PICK y \in 1 .. Len(list) : new[k] = list[y] /\ ((y = k /\ k < i) \/ (y = k - 1 /\ i < k))
        BY <1>1, <2>4, <2>6, <3>3
      <4>3. x < y
        BY <1>1, <2>4, <2>12, <4>1, <4>2
      <4> QED
        BY <2>11, <4>1, <4>2, <4>3
    <3> QED
      BY <3>1, <3>2, <3>3
  <2>13. ByDepth(new)
    BY <2>4, <2>12 DEF ByDepth
  <2> QED
    BY <2>3, <2>4, <2>7, <2>8, <2>13
<1> QED
  BY <1>3, <1>4

LEMMA SortedTail ==
  ASSUME NEW list \in Seq(Nodes), list # << >>, ByDepth(list)
  PROVE  /\ ByDepth(Tail(list))
         /\ \A m \in ToSet(list) : Depth(m) <= Depth(Head(list))
<1>1. /\ Tail(list) \in Seq(Nodes) /\ Head(list) = list[1]
      /\ Len(list) \in Nat \ {0}
      /\ Len(Tail(list)) = Len(list) - 1
      /\ \A i \in 1 .. Len(list) - 1 : Tail(list)[i] = list[i + 1]
  BY EmptySeq, HeadTailProperties
<1>2. ASSUME NEW i \in 1 .. Len(list), NEW j \in 1 .. Len(list), i < j
      PROVE  Depth(list[j]) <= Depth(list[i])
  BY <1>2 DEF ByDepth
<1>3. ByDepth(Tail(list))
  <2>1. ASSUME NEW i \in 1 .. Len(list) - 1, NEW j \in 1 .. Len(list) - 1, i < j
        PROVE  Depth(Tail(list)[j]) <= Depth(Tail(list)[i])
    <3>1. i + 1 \in 1 .. Len(list) /\ j + 1 \in 1 .. Len(list) /\ i + 1 < j + 1
      BY <1>1, <2>1
    <3> QED
      BY <1>1, <1>2, <3>1
  <2>2. DOMAIN Tail(list) = 1 .. Len(list) - 1
    BY <1>1
  <2> QED
    BY <2>1, <2>2 DEF ByDepth
<1>4. ASSUME NEW m \in ToSet(list) PROVE Depth(m) <= Depth(Head(list))
  <2>1. PICK i \in 1 .. Len(list) : m = list[i]
    BY ToSetOfSeq
  <2>2. 1 \in 1 .. Len(list) /\ list[1] \in Nodes /\ Depth(list[1]) \in Nat
    BY <1>1, ElementOfSeq, DepthCounts
  <2>3. CASE i = 1
    BY <1>1, <2>1, <2>2, <2>3
  <2>4. CASE i # 1
    <3>1. 1 < i
      BY <1>1, <2>4
    <3> QED
      BY <1>1, <1>2, <2>1, <2>2, <3>1
  <2> QED
    BY <2>3, <2>4
<1> QED
  BY <1>3, <1>4

(* The search begins with the leaves, deepest first; there are some.       *)
LEMMA LeafListMembers ==
  ASSUME NEW top \in Nodes, NEW list \in LeafLists[top]
  PROVE  /\ list \in Seq(Nodes) /\ list # << >>
         /\ ToSet(list) = LeavesOf(top) /\ ByDepth(list)
<1>1. LeavesOf(top) \subseteq Nodes /\ Cardinality(LeavesOf(top)) \in Nat
  <2>1. LeavesOf(top) \subseteq Nodes
    BY DEF LeavesOf, Subtree
  <2> QED
    BY <2>1, FS_Subset, FS_CardinalityType, TreeAssumption
<1>2. /\ list \in [1 .. Cardinality(LeavesOf(top)) -> LeavesOf(top)]
      /\ ToSet(list) = LeavesOf(top) /\ ByDepth(list)
  BY DEF LeafLists
<1>3. list \in Seq(Nodes)
  <2>1. list \in [1 .. Cardinality(LeavesOf(top)) -> Nodes]
    BY <1>1, <1>2
  <2> QED
    BY <1>1, <2>1, SeqDef
<1>4. list # << >>
  BY <1>2, <1>3, ToSetOfSeq, LeafBelow
<1> QED
  BY <1>2, <1>3, <1>4

(* The first node of the list gives way to its parent, and so do the       *)
(* parent's other children.                                                *)
LEMMA RaisedMembers ==
  ASSUME NEW list \in Seq(Nodes), list # << >>, ByDepth(list), Head(list) # Root
  PROVE  LET p == Parent[Head(list)]
             r == Raised(Tail(list), p)
         IN /\ p \in Nodes /\ Head(list) \in ChildrenOf(p)
            /\ r \in Seq(Nodes) /\ r # << >> /\ ByDepth(r)
            /\ ToSet(r) = (ToSet(list) \ ChildrenOf(p)) \cup {p}
<1> DEFINE p == Parent[Head(list)]
           raised == Insert(Tail(list), p)
           r == Raised(Tail(list), p)
<1>1. /\ Tail(list) \in Seq(Nodes) /\ ByDepth(Tail(list)) /\ Head(list) \in Nodes
      /\ ToSet(list) = {Head(list)} \cup ToSet(Tail(list))
  BY ToSetOfTail, SortedTail
<1>2. p \in Nodes /\ Head(list) \in ChildrenOf(p) /\ p \notin ChildrenOf(p)
  <2>1. p \in Nodes /\ Head(list) \in ChildrenOf(p)
    BY <1>1, ParentIsUnique
  <2>2. p \notin ChildrenOf(p)
    <3>1. p \in ChildrenOf(p) => p # Root /\ Parent[p] = p
      BY <2>1, ParentIsUnique
    <3> HIDE DEF p
    <3> QED
      BY <2>1, <3>1, NotAboveParent, AncestorsType
  <2> QED
    BY <2>1, <2>2
<1>3. raised \in Seq(Nodes) /\ ToSet(raised) = ToSet(Tail(list)) \cup {p} /\ ByDepth(raised)
  BY <1>1, <1>2, InsertMembers
<1>4. r = Kept(raised, Nodes \ ChildrenOf(p))
  BY DEF Raised
<1>5. /\ r \in Seq(Nodes)
      /\ ToSet(r) = ToSet(raised) \cap (Nodes \ ChildrenOf(p))
      /\ ByDepth(r)
  <2> HIDE DEF raised, r, p
  <2> QED
    BY <1>3, <1>4, KeptMembers, ByDepthIsOrdered
<1>6. ToSet(r) = (ToSet(list) \ ChildrenOf(p)) \cup {p}
  <2>1. ToSet(list) \subseteq Nodes
    BY ToSetOfSeq
  <2> HIDE DEF raised, r, p
  <2> QED
    BY <1>1, <1>2, <1>3, <1>5, <2>1
<1>7. r # << >>
  <2> HIDE DEF raised, r, p
  <2> QED
    BY <1>5, <1>6, ToSetOfSeq
<1> QED
  BY <1>2, <1>5, <1>6, <1>7

(* The candidates are the lists found, cut down to the subtree, those that *)
(* have no node in it left out.                                            *)
LEMMA CandidatesMembers ==
  ASSUME groups \in Seq(Seq(Nodes))
  PROVE  /\ Candidates \in Seq(Seq(Nodes))
         /\ ToSet(Candidates) =
              { Kept(groups[i], Subtree(dad)) : i \in 1 .. Len(groups) } \ { << >> }
<1> DEFINE below == [i \in DOMAIN groups |-> Kept(groups[i], Subtree(dad))]
           lists == Seq(Nodes)
<1>1. Len(groups) \in Nat /\ DOMAIN groups = 1 .. Len(groups)
      /\ \A i \in 1 .. Len(groups) : groups[i] \in Seq(Nodes)
  BY ElementOfSeq
<1>2. \A i \in 1 .. Len(groups) : Kept(groups[i], Subtree(dad)) \in lists
  BY <1>1, KeptMembers
<1>3. below \in Seq(lists) /\ Len(below) = Len(groups)
  <2>1. below = [i \in 1 .. Len(groups) |-> Kept(groups[i], Subtree(dad))]
    BY <1>1
  <2>2. below \in [1 .. Len(groups) -> lists]
    <3> HIDE DEF lists, below
    <3> QED
      BY <1>2, <2>1
  <2>3. below \in Seq(lists)
    <3>1. Len(groups) \in Nat
      BY <1>1
    <3> HIDE DEF lists, below
    <3> QED
      BY <2>2, <3>1, FunctionIsList
  <2> HIDE DEF lists, below
  <2> QED
    BY <1>1, <2>2, <2>3, LenProperties
<1>4. ToSet(below) = { Kept(groups[i], Subtree(dad)) : i \in 1 .. Len(groups) }
  BY <1>1 DEF ToSet
<1>5. Candidates = Kept(below, lists \ { << >> })
  BY DEF Candidates
<1>6. /\ Kept(below, lists \ { << >> }) \in Seq(lists)
      /\ ToSet(Kept(below, lists \ { << >> })) = ToSet(below) \cap (lists \ { << >> })
  <2> HIDE DEF lists, below
  <2> QED
    BY <1>3, KeptMembers
<1>7. ToSet(below) \subseteq lists
  <2> HIDE DEF lists, below
  <2> QED
    BY <1>3, ToSetOfSeq
<1>8. ToSet(Candidates) = ToSet(below) \ { << >> }
  <2> HIDE DEF lists, below
  <2> QED
    BY <1>5, <1>6, <1>7
<1> QED
  BY <1>4, <1>5, <1>6, <1>8

LEMMA HeuristicMember ==
  ASSUME NEW lists \in Seq(Seq(Nodes)), lists # << >>
  PROVE  Heuristic(lists) \in Seq(Nodes)
<1>1. Len(lists) \in Nat \ {0} /\ \A i \in 1 .. Len(lists) : lists[i] \in Seq(Nodes)
  BY EmptySeq, ElementOfSeq
<1>2. Len(lists) \in 1 .. Len(lists) /\ (Len(lists) >= 2 => Len(lists) - 1 \in 1 .. Len(lists))
  BY <1>1
<1> QED
  BY <1>1, <1>2 DEF Heuristic

----------------------------------------------------------------------------
(* Types                                                                   *)

(* The search has a sorted list to work on while it goes on, and has found *)
(* one when it ends.                                                       *)
ListInv ==
  /\ phase # "candidates" => pickup = << >>
  /\ phase = "candidates" => pickup # << >> /\ ByDepth(pickup)
  /\ phase = "choose" => groups # << >>

TypeInv == TypeOK /\ ListInv

LEMMA ChosenType == ASSUME TypeInv, phase = "choose" PROVE Chosen \subseteq Nodes
<1>1. groups \in Seq(Seq(Nodes)) /\ groups # << >> /\ dad \in Nodes
  BY DEF TypeInv, TypeOK, ListInv
<1>2. ToSet(Heuristic(groups)) \subseteq Nodes
  BY <1>1, HeuristicMember, ToSetOfSeq
<1>3. Candidates # << >> => ToSet(Heuristic(Candidates)) \subseteq Nodes
  BY <1>1, CandidatesMembers, HeuristicMember, ToSetOfSeq
<1> QED
  BY <1>1, <1>2, <1>3 DEF Chosen

LEMMA ShippedType == ASSUME TypeOK, NEW w \in Weeks PROVE ShippedIn(w) \subseteq Lots
BY DEF TypeOK, ShippedIn, Buckets

LEMMA ChildCallsType ==
  ASSUME NEW n \in Nodes, NEW kind \in {"push", "pull"}
  PROVE  ChildCalls(kind, n) \in Seq({"push", "pull"} \X Nodes)
<1>1. Children[n] \in Seq(Nodes)
  BY TreeAssumption
<1>2. Len(Children[n]) \in Nat /\ DOMAIN Children[n] = 1 .. Len(Children[n])
      /\ \A i \in 1 .. Len(Children[n]) : Children[n][i] \in Nodes
  BY <1>1, ElementOfSeq
<1>3. ChildCalls(kind, n) \in [1 .. Len(Children[n]) -> {"push", "pull"} \X Nodes]
  BY <1>2 DEF ChildCalls
<1> QED
  BY <1>2, <1>3, SeqDef

(* A call taken off the stack, and those of the children put on it.        *)
LEMMA CallsType ==
  ASSUME TypeOK, calls # << >>, NEW kind \in {"push", "pull"}
  PROVE  /\ Top \in {"push", "pull"} \X Nodes
         /\ Tail(calls) \in Seq({"push", "pull"} \X Nodes)
         /\ ChildCalls(kind, Top[2]) \o Tail(calls) \in Seq({"push", "pull"} \X Nodes)
<1>1. calls \in Seq({"push", "pull"} \X Nodes)
  BY DEF TypeOK
<1>2. /\ Tail(calls) \in Seq({"push", "pull"} \X Nodes)
      /\ Head(calls) \in {"push", "pull"} \X Nodes /\ Head(calls) = calls[1]
  BY <1>1, HeadTailProperties
<1>3. Top \in {"push", "pull"} \X Nodes
  BY <1>2 DEF Top
<1>4. Top[2] \in Nodes
  BY <1>3
<1>5. ChildCalls(kind, Top[2]) \in Seq({"push", "pull"} \X Nodes)
  BY <1>4, ChildCallsType
<1> QED
  BY <1>2, <1>3, <1>5, ConcatProperties

LEMMA StockType ==
  ASSUME TypeOK, NEW n \in Nodes, NEW S \in Buckets, NEW P \in Buckets
  PROVE  Stock(supI[n][0], S, P) \in Buckets
<1>1. 0 \in Weeks
  BY NWeeksAssumption DEF Weeks
<1>2. supI[n][0] \in SUBSET Lots
  BY <1>1 DEF TypeOK, Buckets
<1> QED
  BY <1>2, StockEquation

LEMMA TypeInvInit == Init => TypeInv
<1> SUFFICES ASSUME Init PROVE TypeInv
  OBVIOUS
<1>1. Nothing \in [Nodes -> Buckets] /\ Root \in Nodes
  BY TreeAssumption DEF Nothing, Buckets
<1>2. momS \in [Moms -> Buckets]
  BY DEF Init, Buckets
<1>3. DemandS \in [Nodes -> Buckets]
  BY DemandAssumption
<1>4. << >> \in Seq(Nodes) /\ << >> \in Seq(Seq(Nodes)) /\ << >> \in Seq({"push", "pull"} \X Nodes)
  BY EmptySeq
<1> QED
  BY <1>1, <1>2, <1>3, <1>4 DEF Init, TypeInv, TypeOK, ListInv, Phases

LEMMA TypeInvStep == TypeInv /\ [Next]_vars => TypeInv'
<1> SUFFICES ASSUME TypeInv, [Next]_vars PROVE TypeInv'
  OBVIOUS
<1> USE DEF Phases
<1>0. TypeOK /\ ListInv
  BY DEF TypeInv
<1>1. CASE RunFullPlan
  <2>1. demP' \in [Nodes -> Buckets]
    <3>1. ASSUME NEW n \in Nodes, NEW v \in Weeks
          PROVE  demP[n][v] \cup UNION { DemandS[n][w] : w \in { x \in Weeks :
                   x > SafetyWeeks[n] /\ v = x - SafetyWeeks[n] } } \subseteq Lots
      BY <1>0, DemandAssumption DEF TypeOK, Buckets
    <3> QED
      BY <1>1, <3>1 DEF RunFullPlan, BackwardPlan, Buckets
  <2>2. momS' \in [Moms -> Buckets] /\ selected' \subseteq Nodes
    BY <1>1, InputsAssumption DEF RunFullPlan
  <2> QED
    BY <1>0, <1>1, <2>1, <2>2 DEF RunFullPlan, TypeInv, TypeOK, ListInv, climb
<1>2. CASE HandOff
  <2>1. supP' \in [Nodes -> Buckets]
    <3>1. ASSUME NEW n \in Nodes, NEW w \in Weeks PROVE Seed(n, w) \subseteq Lots
      BY <1>0, ShippedType DEF Seed
    <3>2. \A n \in Nodes : [w \in Weeks |-> Seed(n, w)] \in Buckets
      BY <3>1 DEF Buckets
    <3> QED
      BY <1>0, <1>2, <3>2 DEF HandOff, TypeOK
  <2>2. dads' \subseteq Nodes
    BY <1>2, TreeAssumption DEF HandOff
  <2> QED
    BY <1>0, <1>2, <2>1, <2>2 DEF HandOff, TypeInv, TypeOK, ListInv, climb
<1>3. CASE PlanSelected
  <2>1. PICK d \in dads : /\ dad' = d /\ dads' = dads \ {d} /\ names' = SelectedBelow(d)
                          /\ calls' = << << "push", d >> >>
    BY <1>3 DEF PlanSelected
  <2>2. d \in Nodes /\ SelectedBelow(d) \subseteq Nodes
    BY <1>0, <2>1 DEF TypeOK, SelectedBelow, Subtree
  <2>3. calls' \in Seq({"push", "pull"} \X Nodes)
    BY <2>1, <2>2
  <2>4. before' \in [S : [Nodes -> Buckets], P : [Nodes -> Buckets]]
    BY <1>0, <1>3 DEF PlanSelected, TypeOK
  <2> QED
    BY <1>0, <1>3, <2>1, <2>2, <2>3, <2>4 DEF PlanSelected, TypeInv, TypeOK, ListInv, psi
<1>4. CASE FindCandidates
  <2>1. PICK d \in dads : dad' = d /\ dads' = dads \ {d} /\ pickup' \in LeafLists[d]
    BY <1>4 DEF FindCandidates
  <2>2. d \in Nodes
    BY <1>0, <2>1 DEF TypeOK
  <2>3. pickup' \in Seq(Nodes) /\ pickup' # << >> /\ ByDepth(pickup')
    BY <2>1, <2>2, LeafListMembers
  <2>4. before' \in [S : [Nodes -> Buckets], P : [Nodes -> Buckets]]
    BY <1>0, <1>4 DEF FindCandidates, TypeOK
  <2>5. ByDepth(pickup)'
    BY <2>3 DEF ByDepth
  <2>6. groups' \in Seq(Seq(Nodes))
    BY <1>4, EmptySeq DEF FindCandidates
  <2> QED
    BY <1>0, <1>4, <2>1, <2>2, <2>3, <2>4, <2>5, <2>6 DEF FindCandidates, TypeInv, TypeOK, ListInv, psi
<1>5. CASE Climb
  <2>1. pickup # << >> /\ ByDepth(pickup) /\ pickup \in Seq(Nodes) /\ groups \in Seq(Seq(Nodes))
    BY <1>0, <1>5 DEF Climb, TypeOK, ListInv
  <2>2. groups' \in Seq(Seq(Nodes)) /\ groups' # << >>
    BY <1>5, <2>1, AppendProperties, EmptySeq DEF Climb
  <2>3. CASE Head(pickup) = Root
    BY <1>0, <1>5, <2>2, <2>3 DEF Climb, TypeInv, TypeOK, ListInv, psi
  <2>4. CASE Head(pickup) # Root
    <3>1. pickup' \in Seq(Nodes) /\ pickup' # << >> /\ ByDepth(pickup')
      BY <1>5, <2>1, <2>4, RaisedMembers DEF Climb
    <3>2. ByDepth(pickup)'
      BY <3>1 DEF ByDepth
    <3> QED
      BY <1>0, <1>5, <2>2, <2>4, <3>1, <3>2 DEF Climb, TypeInv, TypeOK, ListInv, psi
  <2> QED
    BY <2>3, <2>4
<1>6. CASE ChooseDecouple
  <2>1. names' \subseteq Nodes
    BY <1>6, ChosenType DEF ChooseDecouple
  <2>2. calls' \in Seq({"push", "pull"} \X Nodes)
    BY <1>0, <1>6 DEF ChooseDecouple, TypeOK
  <2>3. groups' \in Seq(Seq(Nodes))
    BY <1>6, EmptySeq DEF ChooseDecouple
  <2> QED
    BY <1>0, <1>6, <2>1, <2>2, <2>3 DEF ChooseDecouple, TypeInv, TypeOK, ListInv, psi
<1>7. CASE Push
  <2>1. Top[2] \in Nodes /\ calls' \in Seq({"push", "pull"} \X Nodes)
    BY <1>0, <1>7, CallsType DEF Push
  <2>2. supI' \in [Nodes -> Buckets]
    BY <1>0, <1>7, <2>1, StockType DEF Push, TypeOK
  <2> QED
    BY <1>0, <1>7, <2>1, <2>2 DEF Push, TypeInv, TypeOK, ListInv, climb
<1>8. CASE Decouple
  <2>1. Top[2] \in Nodes /\ calls' \in Seq({"push", "pull"} \X Nodes)
    BY <1>0, <1>8, CallsType DEF Decouple
  <2>2. supI' \in [Nodes -> Buckets] /\ supS' \in [Nodes -> Buckets]
    BY <1>0, <1>8, <2>1, StockType, DemandAssumption DEF Decouple, TypeOK
  <2> QED
    BY <1>0, <1>8, <2>1, <2>2 DEF Decouple, TypeInv, TypeOK, ListInv, climb
<1>9. CASE Pull
  <2>1. Top[2] \in Nodes /\ calls' \in Seq({"push", "pull"} \X Nodes)
    BY <1>0, <1>9, CallsType DEF Pull
  <2>2. supI' \in [Nodes -> Buckets] /\ supS' \in [Nodes -> Buckets] /\ supP' \in [Nodes -> Buckets]
    BY <1>0, <1>9, <2>1, StockType, DemandAssumption DEF Pull, TypeOK
  <2> QED
    BY <1>0, <1>9, <2>1, <2>2 DEF Pull, TypeInv, TypeOK, ListInv, climb
<1>10. CASE EndDad
  BY <1>0, <1>10 DEF EndDad, TypeInv, TypeOK, ListInv, climb, psi
<1>11. CASE Finish
  BY <1>0, <1>11 DEF Finish, TypeInv, TypeOK, ListInv, climb, psi
<1>12. CASE UNCHANGED vars
  BY <1>0, <1>12 DEF vars, TypeInv, TypeOK, ListInv, ByDepth
<1> QED
  BY <1>1, <1>2, <1>3, <1>4, <1>5, <1>6, <1>7, <1>8, <1>9, <1>10, <1>11, <1>12
  DEF Next, Step

(* Every bucket is one of lots, every list one of nodes.                   *)
THEOREM TypeCorrect == Spec => []TypeOK
<1>1. TypeInv => TypeOK
  BY DEF TypeInv
<1> QED
  BY <1>1, TypeInvInit, TypeInvStep, PTL DEF Spec

----------------------------------------------------------------------------
(* The search raises a cut                                                 *)

Searched == IF pickup = << >> THEN Root ELSE dad

LEMMA CutsLeaves ==
  /\ \A n \in Nodes : Cut!Siblings(n) = ChildrenOf(n)
  /\ \A n \in Nodes : Cut!LeavesBelow(n) = LeavesOf(n)
<1>1. \A n \in Nodes : Cut!Siblings(n) = ChildrenOf(n)
  BY ParentIsUnique, ChildrenAreNodes DEF Cut!Siblings
<1>2. ASSUME NEW n \in Nodes PROVE Cut!LeavesBelow(n) = LeavesOf(n)
  <2>1. \A l \in Nodes : Cut!Siblings(l) = {} <=> Children[l] = << >>
    BY <1>1, ChildrenAreNodes
  <2> QED
    BY <2>1 DEF Cut!LeavesBelow, LeavesOf, Subtree
<1> QED
  BY <1>1, <1>2

LEMMA CutInit == Init => Cut!Init
<1>1. << >> \in Seq(Nodes)
  BY EmptySeq
<1>2. ToSet(<< >>) = {}
  BY <1>1, ToSetOfSeq
<1> QED
  BY <1>2 DEF Init, Cut!Init

LEMMA CutBegins == ASSUME TypeInv, FindCandidates PROVE Cut!Begin
<1>1. pickup = << >> /\ << >> \in Seq(Nodes)
  BY EmptySeq DEF TypeInv, ListInv, FindCandidates
<1>2. ToSet(pickup) = {}
  BY <1>1, ToSetOfSeq
<1>3. PICK d \in dads : dad' = d /\ pickup' \in LeafLists[d]
  BY DEF FindCandidates
<1>4. d \in Nodes
  BY DEF TypeInv, TypeOK
<1>5. pickup' # << >> /\ ToSet(pickup') = Cut!LeavesBelow(d)
  BY <1>3, <1>4, LeafListMembers, CutsLeaves
<1> QED
  BY <1>2, <1>3, <1>4, <1>5 DEF Cut!Begin

LEMMA CutRises == ASSUME TypeInv, Climb, Head(pickup) # Root PROVE Cut!Rise
<1>1. pickup # << >> /\ ByDepth(pickup) /\ pickup \in Seq(Nodes)
  BY DEF Climb, TypeInv, TypeOK, ListInv
<1> DEFINE n == Head(pickup)
           p == Parent[n]
<1>2. /\ n \in Nodes \ {Root} /\ n \in ToSet(pickup)
      /\ ToSet(pickup) \subseteq Nodes
  BY <1>1, ToSetOfTail, ToSetOfSeq
<1>3. \A m \in ToSet(pickup) : Depth(m) <= Depth(n)
  BY <1>1, SortedTail
<1>4. /\ p \in Nodes /\ pickup' # << >>
      /\ ToSet(pickup') = (ToSet(pickup) \ ChildrenOf(p)) \cup {p}
  BY <1>1, RaisedMembers DEF Climb
<1>5. ToSet(pickup') = (ToSet(pickup) \ Cut!Siblings(p)) \cup {p}
  <2> HIDE DEF p
  <2> QED
    BY <1>4, CutsLeaves
<1>6. Cut!Deepest(n)
  <2> HIDE DEF n
  <2> QED
    BY <1>2, <1>3 DEF Cut!Deepest
<1>7. UNCHANGED Searched
  BY <1>1, <1>4 DEF Climb, Searched
<1> HIDE DEF n
<1> QED
  BY <1>2, <1>5, <1>6, <1>7 DEF Cut!Rise, Searched

(* The root, which is deeper than no other node, is first only when it is  *)
(* alone.                                                                  *)
LEMMA RootAlone ==
  ASSUME NEW list \in Seq(Nodes), list # << >>, ByDepth(list), Head(list) = Root
  PROVE  ToSet(list) = {Root}
<1>1. Root \in ToSet(list) /\ ToSet(list) \subseteq Nodes
  BY ToSetOfTail, ToSetOfSeq
<1>2. ASSUME NEW m \in ToSet(list), m # Root PROVE FALSE
  <2>1. Depth(m) <= 0
    BY SortedTail, DepthCounts
  <2>2. Depth(m) = Depth(Parent[m]) + 1 /\ Depth(Parent[m]) \in Nat
    BY <1>1, <1>2, DepthCounts, ParentIsUnique
  <2> QED
    BY <2>1, <2>2
<1> QED
  BY <1>1, <1>2

LEMMA CutEnds == ASSUME TypeInv, Climb, Head(pickup) = Root PROVE Cut!End
<1>1. pickup # << >> /\ ByDepth(pickup) /\ pickup \in Seq(Nodes)
  BY DEF Climb, TypeInv, TypeOK, ListInv
<1>2. ToSet(pickup) = {Root}
  BY <1>1, RootAlone
<1>3. pickup' = << >> /\ << >> \in Seq(Nodes)
  BY EmptySeq DEF Climb
<1>4. ToSet(pickup') = {}
  BY <1>3, ToSetOfSeq
<1> QED
  BY <1>2, <1>3, <1>4 DEF Cut!End

(* Each step of the planning is a step of the search, or none of it.       *)
LEMMA CutStep ==
  TypeInv /\ [Next]_vars => [Cut!Next]_<< Searched, ToSet(pickup) >>
<1> SUFFICES ASSUME TypeInv, [Next]_vars
             PROVE  Cut!Next \/ UNCHANGED << Searched, ToSet(pickup) >>
  OBVIOUS
<1>1. CASE FindCandidates
  BY <1>1, CutBegins DEF Cut!Next
<1>2. CASE Climb
  BY <1>2, CutRises, CutEnds DEF Cut!Next
<1>3. CASE PlanSelected
  BY <1>3 DEF PlanSelected, Searched, TypeInv, ListInv
<1>4. CASE RunFullPlan \/ HandOff \/ ChooseDecouple \/ Push \/ Decouple \/ Pull
             \/ EndDad \/ Finish \/ UNCHANGED vars
  BY <1>4 DEF RunFullPlan, HandOff, ChooseDecouple, Push, Decouple, Pull, EndDad, Finish,
              vars, climb, Searched
<1> QED
  BY <1>1, <1>2, <1>3, <1>4 DEF Next, Step

(* What the search of make_nodes_decouple_all works on is a cut through    *)
(* the tree, which rises from the leaves to the root as RisingCut says.    *)
THEOREM SearchRaisesACut == Spec => RaisesACut
<1> USE DEF Searched
<1> QED
  BY CutInit, CutStep, TypeInvInit, TypeInvStep, PTL DEF Spec, RaisesACut, Cut!Spec

(* A cut below a node: each member has a leaf below it, and every path     *)
(* from a leaf meets the cut once.                                         *)
IsCut(C, d) ==
  /\ d \in Nodes /\ C \subseteq Nodes
  /\ \A n \in C : \E l \in LeavesOf(d) : n \in Ancestors[l]
  /\ \A l \in LeavesOf(d) :
       \E n \in C : n \in Ancestors[l] /\ \A m \in C : m \in Ancestors[l] => m = n

LEMMA LeafType ==
  ASSUME NEW d \in Nodes, NEW l \in LeavesOf(d)
  PROVE  l \in Nodes /\ Children[l] = << >> /\ d \in Ancestors[l]
BY DEF LeavesOf, Subtree

(* Of two members of a cut none is above the other.                        *)
LEMMA NoneAbove ==
  ASSUME NEW C, NEW d, IsCut(C, d), NEW n \in C, NEW m \in C, m \in Ancestors[n]
  PROVE  m = n
<1>1. PICK l \in LeavesOf(d) : n \in Ancestors[l]
  BY DEF IsCut
<1>2. m \in Ancestors[l]
  BY <1>1, LeafType, AncestorsTransitive DEF IsCut
<1> QED
  BY <1>1, <1>2 DEF IsCut

(* The leaves are a cut, since none is above another.                      *)
LEMMA LeavesAreACut == ASSUME NEW d \in Nodes PROVE IsCut(LeavesOf(d), d)
<1>1. \A l \in LeavesOf(d) : l \in Nodes /\ l \in Ancestors[l]
  BY LeafType, AncestorsType
<1>2. ASSUME NEW l \in LeavesOf(d), NEW m \in LeavesOf(d), m \in Ancestors[l], m # l
      PROVE  FALSE
  <2>1. \E c \in ChildrenOf(m) : c \in Ancestors[l]
    BY <1>1, <1>2, FirstStepDown
  <2>2. Children[m] = << >> /\ m \in Nodes
    BY LeafType
  <2> QED
    BY <2>1, <2>2, ChildrenAreNodes
<1> QED
  BY <1>1, <1>2 DEF IsCut

(* A deepest member that gives way to its parent takes exactly the members *)
(* with it that lie below the parent: they are on its level.               *)
LEMMA RaisedIsACut ==
  ASSUME NEW C, NEW d, IsCut(C, d), NEW n \in C \ {Root},
         \A m \in C : Depth(m) <= Depth(n)
  PROVE  IsCut((C \ ChildrenOf(Parent[n])) \cup {Parent[n]}, d)
<1> DEFINE p == Parent[n]
           D == (C \ ChildrenOf(p)) \cup {p}
<1>1. /\ d \in Nodes /\ C \subseteq Nodes
      /\ n \in Nodes \ {Root} /\ p \in Nodes
      /\ p \in Ancestors[n] /\ p # n
      /\ Depth(n) = Depth(p) + 1 /\ Depth(n) \in Nat /\ Depth(p) \in Nat
  <2>1. d \in Nodes /\ C \subseteq Nodes /\ n \in Nodes \ {Root}
    BY DEF IsCut
  <2>2. p \in Nodes /\ Ancestors[n] = Ancestors[p] \cup {n} /\ p \in Ancestors[p]
    BY <2>1, ParentIsUnique, OneStepUp, AncestorsType
  <2> QED
    BY <2>1, <2>2, DepthCounts
<1>2. \A m \in Nodes \ {Root} : Parent[m] = p => m \in ChildrenOf(p)
  BY ParentIsUnique
<1>3. \A m \in ChildrenOf(p) : m \in Nodes \ {Root} /\ Parent[m] = p /\ p \in Ancestors[m]
  BY <1>1, ChildrenAreNodes, ParentIsUnique, OneStepUp, AncestorsType
<1> HIDE DEF p
<1>4. ASSUME NEW m \in C, p \in Ancestors[m] PROVE m \in ChildrenOf(p)
  <2>1. m \in Nodes /\ Depth(m) \in Nat /\ Depth(m) <= Depth(n)
    BY <1>1, DepthCounts
  <2>2. m # p
    BY <1>1, <1>4, NoneAbove
  <2>3. Depth(p) < Depth(m)
    BY <1>4, <2>1, <2>2, DeeperBelow
  <2>4. m # Root
    BY <1>1, <2>3, DepthCounts
  <2>5. /\ p \in Ancestors[Parent[m]]
        /\ Parent[m] \in Nodes
        /\ Depth(m) = Depth(Parent[m]) + 1
    BY <1>4, <2>1, <2>2, <2>4, AncestorsOfParent, ParentIsUnique, DepthCounts
  <2>6. Depth(Parent[m]) \in Nat /\ (p # Parent[m] => Depth(p) < Depth(Parent[m]))
    BY <2>5, DeeperBelow, DepthCounts
  <2> QED
    BY <1>1, <1>2, <2>1, <2>4, <2>5, <2>6
<1>5. ASSUME NEW m \in C, m \in Ancestors[p] PROVE FALSE
  <2>1. m = n
    BY <1>1, <1>5, NoneAbove, AncestorsTransitive
  <2> QED
    BY <1>1, <1>5, <2>1, AncestorsAntisymmetric
<1>6. D \subseteq Nodes /\ p \in D
  BY <1>1
<1>7. ASSUME NEW m \in D PROVE \E l \in LeavesOf(d) : m \in Ancestors[l]
  <2>1. CASE m \in C
    BY <2>1 DEF IsCut
  <2>2. CASE m = p
    <3>1. PICK l \in LeavesOf(d) : n \in Ancestors[l]
      BY DEF IsCut
    <3>2. l \in Nodes
      BY <1>1, LeafType
    <3> QED
      BY <1>1, <2>2, <3>1, <3>2, AncestorsTransitive
  <2> QED
    BY <2>1, <2>2
<1>8. ASSUME NEW l \in LeavesOf(d)
      PROVE  \E k \in D : k \in Ancestors[l] /\ \A m \in D : m \in Ancestors[l] => m = k
  <2>1. PICK k \in C : k \in Ancestors[l] /\ \A m \in C : m \in Ancestors[l] => m = k
    BY DEF IsCut
  <2>2. l \in Nodes /\ k \in Nodes
    BY <1>1, LeafType
  <2>3. CASE p \in Ancestors[l]
    <3>1. p \in Ancestors[k] \/ k \in Ancestors[p]
      BY <2>1, <2>2, <2>3, AncestorsChain
    <3>2. k \in ChildrenOf(p)
      BY <3>1, <1>4, <1>5
    <3> QED
      BY <1>6, <2>1, <2>3, <3>2
  <2>4. CASE p \notin Ancestors[l]
    <3>1. k \notin ChildrenOf(p)
      BY <1>3, <2>1, <2>2, <2>4, AncestorsTransitive
    <3> QED
      BY <2>1, <2>4, <3>1
  <2> QED
    BY <2>3, <2>4
<1> QED
  BY <1>1, <1>6, <1>7, <1>8 DEF IsCut, p

(* A list of candidates that goes on is a cut below the node planned.      *)
ListCuts == ToSet(pickup) # {} => IsCut(ToSet(pickup), Searched)

LEMMA StepCuts == ASSUME TypeInv, ListCuts, [Cut!Next]_<< Searched, ToSet(pickup) >>
                  PROVE  ListCuts'
<1>1. CASE Cut!Begin
  <2>1. Searched' \in Nodes /\ ToSet(pickup)' = LeavesOf(Searched')
    BY <1>1, CutsLeaves DEF Cut!Begin, Searched
  <2> QED
    BY <2>1, LeavesAreACut DEF ListCuts
<1>2. CASE Cut!Rise
  <2>1. PICK n \in ToSet(pickup) \ {Root} :
          /\ \A m \in ToSet(pickup) : Depth(m) <= Depth(n)
          /\ ToSet(pickup)' = (ToSet(pickup) \ ChildrenOf(Parent[n])) \cup {Parent[n]}
    <3>1. PICK n \in ToSet(pickup) \ {Root} :
            /\ Cut!Deepest(n)
            /\ ToSet(pickup)' = (ToSet(pickup) \ Cut!Siblings(Parent[n])) \cup {Parent[n]}
      BY <1>2 DEF Cut!Rise
    <3>2. ToSet(pickup) \subseteq Nodes
      BY DEF ListCuts, IsCut
    <3>3. n \in Nodes /\ Parent[n] \in Nodes
      BY <3>2, ParentIsUnique
    <3> QED
      BY <3>1, <3>2, <3>3, CutsLeaves DEF Cut!Deepest
  <2>2. Searched' = Searched
    BY <1>2 DEF Cut!Rise, Searched
  <2> QED
    BY <2>1, <2>2, RaisedIsACut DEF ListCuts
<1>3. CASE Cut!End \/ UNCHANGED << Searched, ToSet(pickup) >>
  BY <1>3 DEF ListCuts, Cut!End
<1> QED
  BY <1>1, <1>2, <1>3 DEF Cut!Next

(* ... and so each list of candidates (make_nodes_decouple_all) cuts every *)
(* path from a leaf below the node that is planned exactly once: no goods  *)
(* pass two decoupling nodes, and none pass by without one.                *)
THEOREM EachListIsACut == Spec => []Cut!CutsEveryPath
<1>1. Init => ListCuts
  BY CutInit DEF ListCuts, Cut!Init
<1>2. TypeInv /\ ListCuts /\ [Next]_vars => ListCuts'
  BY StepCuts, CutStep
<1>3. ListCuts => Cut!CutsEveryPath
  <2> SUFFICES ASSUME ListCuts, ToSet(pickup) # {} PROVE Cut!CutsEveryPath
    BY DEF Cut!CutsEveryPath
  <2>1. Searched \in Nodes /\ Cut!LeavesBelow(Searched) = LeavesOf(Searched)
    BY CutsLeaves DEF ListCuts, IsCut
  <2>2. \A l \in LeavesOf(Searched) : l \in Nodes
    BY <2>1, LeafType
  <2> QED
    BY <2>1, <2>2 DEF Cut!CutsEveryPath, ListCuts, IsCut, Searched
<1> QED
  BY <1>1, <1>2, <1>3, TypeInvInit, TypeInvStep, PTL DEF Spec

----------------------------------------------------------------------------
(* The decoupling nodes nobody chose                                       *)

(* While a DAD's list rises it stays below the DAD until it holds it; from *)
(* then on a list that was found holds it.                                 *)
DadListed == \E i \in 1 .. Len(groups) : dad \in ToSet(groups[i])
DadInv ==
  dad # Root =>
    /\ phase = "candidates" => \/ ToSet(pickup) \subseteq Subtree(dad) \ {dad}
                               \/ dad \in ToSet(pickup)
                               \/ DadListed
    /\ phase = "choose" => DadListed

(* When the list has come to the root, the one before it was that of the   *)
(* root's children.                                                        *)
ChildrenAt(k) == k \in 1 .. Len(groups) /\ ToSet(groups[k]) = ChildrenOf(Root)
RootInv ==
  dad = Root =>
    /\ phase = "candidates" =>
         IF Children[Root] = << >> THEN groups = << >>
         ELSE Root \in ToSet(pickup) => ChildrenAt(Len(groups))
    /\ phase = "choose" =>
         IF Children[Root] = << >> THEN Len(groups) = 1 /\ ToSet(groups[1]) = {Root}
         ELSE ChildrenAt(Len(groups) - 1)

DefaultInv == DadInv /\ RootInv /\ DefaultDecoupling

LEMMA RootOnly == ASSUME Children[Root] = << >> PROVE Nodes = {Root}
<1>1. \A n \in Nodes \ {Root} : Parent[n] \in {Root} => n \in {Root}
  BY ParentIsUnique, ChildrenAreNodes, TreeAssumption
<1>2. Nodes \subseteq {Root}
  BY <1>1, DownTheTree
<1> QED
  BY <1>2, TreeAssumption

LEMMA MetOnce ==
  ASSUME TypeInv, phase = "candidates", Cut!CutsEveryPath, NEW l \in LeavesOf(dad)
  PROVE  \E n \in ToSet(pickup) : /\ n \in Ancestors[l]
                                  /\ \A m \in ToSet(pickup) : m \in Ancestors[l] => m = n
<1>1. pickup # << >> /\ pickup \in Seq(Nodes) /\ dad \in Nodes
  BY DEF TypeInv, TypeOK, ListInv
<1>2. ToSet(pickup) # {} /\ ToSet(pickup) \subseteq Nodes
  BY <1>1, ToSetOfSeq
<1>3. l \in Cut!LeavesBelow(dad) /\ l \in Nodes
  BY <1>1, CutsLeaves DEF LeavesOf, Subtree
<1> QED
  BY <1>1, <1>2, <1>3 DEF Cut!CutsEveryPath

(* A list of the whole tree that holds the root holds nothing else.        *)
LEMMA RootFirst ==
  ASSUME TypeInv, phase = "candidates", Cut!CutsEveryPath, dad = Root,
         Root \in ToSet(pickup)
  PROVE  Head(pickup) = Root
<1>1. pickup # << >> /\ pickup \in Seq(Nodes)
  BY DEF TypeInv, TypeOK, ListInv
<1>2. Head(pickup) \in Nodes /\ Head(pickup) \in ToSet(pickup)
  BY <1>1, ToSetOfTail
<1>3. PICK l \in LeavesOf(Head(pickup)) : TRUE
  BY <1>2, LeafBelow
<1>4. l \in LeavesOf(Root) /\ Head(pickup) \in Ancestors[l] /\ Root \in Ancestors[l]
  BY <1>3, AncestorsType DEF LeavesOf, Subtree
<1> QED
  BY <1>2, <1>4, MetOnce

(* The root enters the list in place of all its children, and of nothing   *)
(* else.                                                                   *)
LEMMA BeforeRoot ==
  ASSUME TypeInv, phase = "candidates", Cut!CutsEveryPath, dad = Root,
         Head(pickup) # Root, Parent[Head(pickup)] = Root
  PROVE  ToSet(pickup) = ChildrenOf(Root)
<1>1. pickup # << >> /\ pickup \in Seq(Nodes) /\ ByDepth(pickup)
  BY DEF TypeInv, TypeOK, ListInv
<1>2. Head(pickup) \in Nodes \ {Root} /\ ToSet(pickup) \subseteq Nodes
  BY <1>1, ToSetOfTail, ToSetOfSeq
<1>3. Root \notin ToSet(pickup)
  BY RootFirst
<1>4. ASSUME NEW m \in ToSet(pickup) PROVE m \in ChildrenOf(Root)
  <2>1. m \in Nodes \ {Root}
    BY <1>2, <1>3
  <2>2. Depth(m) <= 1
    BY <1>1, <1>2, SortedTail, DepthCounts
  <2>3. Depth(m) = Depth(Parent[m]) + 1 /\ Parent[m] \in Nodes
    BY <2>1, DepthCounts, ParentIsUnique
  <2>4. Parent[m] # Root => Depth(Parent[m]) > 0
    BY <2>3, DepthCounts, DeeperBelow, AncestorsType
  <2>5. Depth(Parent[m]) \in Nat
    BY <2>3, DepthCounts
  <2>6. Parent[m] = Root
    BY <2>2, <2>3, <2>4, <2>5
  <2> QED
    BY <2>1, <2>6, ParentIsUnique, TreeAssumption
<1>5. ASSUME NEW c \in ChildrenOf(Root) PROVE c \in ToSet(pickup)
  <2>1. c \in Nodes \ {Root} /\ Parent[c] = Root
    BY ChildrenAreNodes, ParentIsUnique, TreeAssumption
  <2>2. PICK l \in LeavesOf(c) : TRUE
    BY <2>1, LeafBelow
  <2>3. l \in LeavesOf(Root) /\ c \in Ancestors[l] /\ l \in Nodes
    BY <2>2, AncestorsType DEF LeavesOf, Subtree
  <2>4. PICK n \in ToSet(pickup) : n \in Ancestors[l]
    BY <2>3, MetOnce
  <2>5. n \in Nodes \ {Root} /\ Parent[n] = Root
    BY <1>2, <1>3, <1>4, <2>4, ParentIsUnique, TreeAssumption
  <2>6. Ancestors[n] = {n, Root} /\ Ancestors[c] = {c, Root}
    BY <2>1, <2>5, OneStepUp, AncestorsType
  <2>7. n = c
    BY <2>1, <2>3, <2>4, <2>5, <2>6, AncestorsChain
  <2> QED
    BY <2>4, <2>7
<1> QED
  BY <1>4, <1>5

LEMMA ChosenIsDefault ==
  ASSUME TypeInv, DadInv, RootInv, phase = "choose"
  PROVE  Chosen = IF dad # Root \/ Children[Root] = << >> THEN {dad} ELSE ChildrenOf(Root)
<1>1. groups \in Seq(Seq(Nodes)) /\ dad \in Nodes /\ Len(groups) \in Nat
  BY DEF TypeInv, TypeOK
<1>2. CASE dad # Root
  <2>1. PICK i \in 1 .. Len(groups) : dad \in ToSet(groups[i])
    BY <1>2 DEF DadInv, DadListed
  <2> DEFINE kept == Kept(groups[i], Subtree(dad))
  <2>2. groups[i] \in Seq(Nodes) /\ dad \in Subtree(dad)
    BY <1>1, ElementOfSeq, AncestorsType DEF Subtree
  <2>3. kept \in Seq(Nodes) /\ dad \in ToSet(kept)
    BY <2>1, <2>2, KeptMembers
  <2>4. kept # << >>
    <3> HIDE DEF kept
    <3> QED
      BY <2>3, ToSetOfSeq
  <2>5. kept \in ToSet(Candidates) /\ Candidates \in Seq(Seq(Nodes))
    BY <1>1, <2>4, CandidatesMembers
  <2>6. \E j \in DOMAIN Candidates : Candidates[j] = kept
    <3> HIDE DEF kept
    <3> QED
      BY <2>5 DEF ToSet
  <2> HIDE DEF kept
  <2> QED
    BY <1>2, <2>3, <2>6 DEF Chosen
<1>3. CASE dad = Root /\ Children[Root] = << >>
  <2>1. Len(groups) = 1 /\ ToSet(groups[1]) = {Root}
    BY <1>3 DEF RootInv
  <2>2. Heuristic(groups) = groups[1]
    BY <2>1 DEF Heuristic
  <2> QED
    BY <1>3, <2>1, <2>2 DEF Chosen
<1>4. CASE dad = Root /\ Children[Root] # << >>
  <2>1. Len(groups) - 1 \in 1 .. Len(groups) /\ ToSet(groups[Len(groups) - 1]) = ChildrenOf(Root)
    BY <1>4 DEF RootInv, ChildrenAt
  <2>2. Heuristic(groups) = groups[Len(groups) - 1]
    BY <1>1, <2>1 DEF Heuristic
  <2> QED
    BY <1>4, <2>1, <2>2 DEF Chosen
<1> QED
  BY <1>2, <1>3, <1>4

(* One round of the search, seen from the lists found so far.              *)
LEMMA ClimbGroups ==
  ASSUME TypeInv, Climb
  PROVE  /\ Len(groups) \in Nat /\ Len(groups') = Len(groups) + 1
         /\ groups'[Len(groups) + 1] = pickup
         /\ \A i \in 1 .. Len(groups) : groups'[i] = groups[i]
<1>1. groups \in Seq(Seq(Nodes)) /\ pickup \in Seq(Nodes) /\ groups' = Append(groups, pickup)
  BY DEF Climb, TypeInv, TypeOK
<1> QED
  BY <1>1, AppendProperties

LEMMA ClimbDadInv == ASSUME TypeInv, DadInv, Climb PROVE DadInv'
<1> SUFFICES ASSUME dad # Root
             PROVE  /\ phase' = "candidates" => \/ ToSet(pickup') \subseteq Subtree(dad) \ {dad}
                                                \/ dad \in ToSet(pickup')
                                                \/ DadListed'
                    /\ phase' = "choose" => DadListed'
  BY DEF Climb, DadInv
<1>1. /\ pickup # << >> /\ ByDepth(pickup) /\ pickup \in Seq(Nodes)
      /\ dad \in Nodes /\ dad' = dad /\ phase = "candidates"
  BY DEF Climb, TypeInv, TypeOK, ListInv
<1>2. DadListed \/ dad \in ToSet(pickup) => DadListed'
  BY <1>1, ClimbGroups DEF DadListed
<1>3. CASE Head(pickup) = Root
  <2>1. Root \in ToSet(pickup) /\ Root \notin Subtree(dad)
    BY <1>1, <1>3, ToSetOfTail, AncestorsType DEF Subtree
  <2> QED
    BY <1>1, <1>2, <2>1 DEF DadInv
<1>4. CASE Head(pickup) # Root /\ ToSet(pickup) \subseteq Subtree(dad) \ {dad}
  <2> DEFINE n == Head(pickup)
             p == Parent[n]
  <2>1. n \in ToSet(pickup) /\ n \in Nodes \ {Root} /\ n # dad /\ dad \in Ancestors[n]
    BY <1>1, <1>4, ToSetOfTail DEF Subtree
  <2>2. p \in Subtree(dad)
    BY <2>1, AncestorsOfParent, ParentIsUnique DEF Subtree
  <2>3. ToSet(pickup') = (ToSet(pickup) \ ChildrenOf(p)) \cup {p}
    BY <1>1, <1>4, RaisedMembers DEF Climb
  <2>4. phase' = "candidates"
    BY <1>1, <1>4 DEF Climb
  <2> HIDE DEF p
  <2> QED
    BY <1>4, <2>2, <2>3, <2>4
<1>5. CASE Head(pickup) # Root /\ ~(ToSet(pickup) \subseteq Subtree(dad) \ {dad})
  BY <1>1, <1>2, <1>5 DEF DadInv
<1> QED
  BY <1>3, <1>4, <1>5

LEMMA ClimbRootInv == ASSUME TypeInv, RootInv, Cut!CutsEveryPath, Climb PROVE RootInv'
<1> SUFFICES ASSUME dad = Root
             PROVE  /\ phase' = "candidates" =>
                         IF Children[Root] = << >> THEN groups' = << >>
                         ELSE Root \in ToSet(pickup') => ChildrenAt(Len(groups))'
                    /\ phase' = "choose" =>
                         IF Children[Root] = << >> THEN Len(groups') = 1 /\ ToSet(groups'[1]) = {Root}
                         ELSE ChildrenAt(Len(groups) - 1)'
  BY DEF Climb, RootInv
<1>1. /\ pickup # << >> /\ ByDepth(pickup) /\ pickup \in Seq(Nodes)
      /\ Head(pickup) \in Nodes /\ Head(pickup) \in ToSet(pickup)
      /\ dad' = dad /\ phase = "candidates"
  BY ToSetOfTail DEF Climb, TypeInv, TypeOK, ListInv
<1>2. CASE Children[Root] = << >>
  <2>1. Head(pickup) = Root
    BY <1>1, <1>2, RootOnly
  <2>2. ToSet(pickup) = {Root} /\ groups = << >>
    BY <1>1, <1>2, <2>1, RootAlone DEF RootInv
  <2>3. phase' = "choose"
    BY <2>1 DEF Climb
  <2>4. Len(groups) = 0
    BY <2>2
  <2> QED
    BY <1>2, <2>2, <2>3, <2>4, ClimbGroups
<1>3. CASE Children[Root] # << >> /\ Head(pickup) = Root
  <2>1. ChildrenAt(Len(groups)) /\ phase' = "choose"
    BY <1>1, <1>3 DEF RootInv, Climb
  <2>2. ChildrenAt(Len(groups) - 1)'
    BY <2>1, ClimbGroups DEF ChildrenAt
  <2> QED
    BY <1>3, <2>1, <2>2
<1>4. CASE Children[Root] # << >> /\ Head(pickup) # Root
  <2> DEFINE p == Parent[Head(pickup)]
  <2>1. ToSet(pickup') = (ToSet(pickup) \ ChildrenOf(p)) \cup {p}
    BY <1>1, <1>4, RaisedMembers DEF Climb
  <2>2. phase' = "candidates"
    BY <1>1, <1>4 DEF Climb
  <2>3. Root \notin ToSet(pickup)
    BY <1>1, <1>4, RootFirst
  <2>4. p = Root => ToSet(pickup) = ChildrenOf(Root)
    BY <1>1, <1>4, BeforeRoot
  <2>5. ToSet(pickup) = ChildrenOf(Root) => ChildrenAt(Len(groups))'
    BY ClimbGroups DEF ChildrenAt
  <2> HIDE DEF p
  <2> QED
    BY <1>4, <2>1, <2>2, <2>3, <2>4, <2>5
<1> QED
  BY <1>2, <1>3, <1>4

LEMMA DefaultInvInit == Init => DefaultInv
BY DEF Init, DefaultInv, DadInv, RootInv, DefaultDecoupling

LEMMA DefaultInvStep ==
  TypeInv /\ DefaultInv /\ Cut!CutsEveryPath /\ [Next]_vars => DefaultInv'
<1> SUFFICES ASSUME TypeInv, DefaultInv, Cut!CutsEveryPath, [Next]_vars PROVE DefaultInv'
  OBVIOUS
<1> USE DEF DefaultInv
<1>1. CASE PlanSelected
  <2>1. SelectedBelow(dad)' # {}
    BY <1>1 DEF PlanSelected, SelectedBelow
  <2> QED
    BY <1>1, <2>1 DEF PlanSelected, DadInv, RootInv, DefaultDecoupling
<1>2. CASE FindCandidates
  <2>1. PICK d \in dads : dad' = d /\ pickup' \in LeafLists[d]
    BY <1>2 DEF FindCandidates
  <2>2. d \in Nodes
    BY <2>1 DEF TypeInv, TypeOK
  <2>3. ToSet(pickup') = LeavesOf(d)
    BY <2>1, <2>2, LeafListMembers
  <2>4. phase' = "candidates" /\ groups' = << >>
    BY <1>2 DEF FindCandidates
  <2>5. DadInv'
    BY <2>1, <2>3, <2>4 DEF DadInv, LeavesOf
  <2>6. RootInv'
    BY <2>1, <2>3, <2>4 DEF RootInv, LeavesOf
  <2> QED
    BY <2>4, <2>5, <2>6 DEF DefaultDecoupling
<1>3. CASE Climb
  <2>1. phase' # "run"
    BY <1>3 DEF Climb
  <2> QED
    BY <1>3, <2>1, ClimbDadInv, ClimbRootInv DEF DefaultDecoupling
<1>4. CASE ChooseDecouple
  <2>1. names' = IF dad # Root \/ Children[Root] = << >> THEN {dad} ELSE ChildrenOf(Root)
    BY <1>4, ChosenIsDefault DEF ChooseDecouple
  <2> QED
    BY <1>4, <2>1 DEF ChooseDecouple, DadInv, RootInv, DefaultDecoupling
<1>5. CASE Push \/ Decouple \/ Pull
  BY <1>5 DEF Push, Decouple, Pull, climb, DadInv, RootInv, DefaultDecoupling, SelectedBelow
<1>6. CASE RunFullPlan \/ HandOff \/ EndDad \/ Finish
  BY <1>6 DEF RunFullPlan, HandOff, EndDad, Finish, climb, DadInv, RootInv, DefaultDecoupling
<1>7. CASE UNCHANGED vars
  BY <1>7 DEF vars, DadInv, RootInv, DefaultDecoupling, DadListed, ChildrenAt, SelectedBelow
<1> QED
  BY <1>1, <1>2, <1>3, <1>4, <1>5, <1>6, <1>7 DEF Next, Step

(* Where the planner chooses nothing, push_pull decouples the DAD it plans *)
(* and nothing else, or all the children of the root.                      *)
THEOREM DefaultIsDadOrChildren == Spec => []DefaultDecoupling
<1>1. DefaultInv => DefaultDecoupling
  BY DEF DefaultInv
<1>2. Spec => []TypeInv
  BY TypeInvInit, TypeInvStep, PTL DEF Spec
<1> QED
  BY <1>1, <1>2, EachListIsACut, DefaultInvInit, DefaultInvStep, PTL DEF Spec

----------------------------------------------------------------------------
(* The push and pull of a subtree                                          *)

(* The S and P that the place of a node calls for.                         *)
Final(n) ==
  IF IsPulled(n) THEN << DemandS[n], demP[n] >>
  ELSE IF n \in Subtree(dad) \cap names THEN << DemandS[n], before.P[n] >>
  ELSE << before.S[n], before.P[n] >>

StockOk(n) ==
  \A w \in Weeks \ {0} : supI[n][w] = (supI[n][w - 1] \cup supP[n][w]) \ supS[n][w]

(* A call is pending on the way to the node.                               *)
Awaited(n) == \E c \in ToSet(calls) : c[2] \in Ancestors[n]

(* Calls are pending in the subtree, those to pull for the nodes below the *)
(* decoupling nodes; a node that none will come to is done, another has    *)
(* what it had, or is done.                                                *)
RunInv ==
  /\ phase \in {"candidates", "choose"} => before = [S |-> supS, P |-> supP]
  /\ phase = "run" =>
       /\ \A c \in ToSet(calls) : /\ c[2] \in Subtree(dad)
                                  /\ c[1] = "pull" <=> IsPulled(c[2])
       /\ \A n \in Nodes :
            \/ << supS[n], supP[n] >> = Final(n)
            \/ << supS[n], supP[n] >> = << before.S[n], before.P[n] >> /\ Awaited(n)
       /\ \A n \in Subtree(dad) : StockOk(n) \/ Awaited(n)

LEMMA ToSetOfConcat ==
  ASSUME NEW R, NEW s \in Seq(R), NEW t \in Seq(R)
  PROVE  ToSet(s \o t) = ToSet(s) \cup ToSet(t)
<1> DEFINE new == s \o t
<1>1. /\ new \in Seq(R) /\ Len(new) = Len(s) + Len(t)
      /\ \A i \in 1 .. Len(s) + Len(t) : new[i] = IF i <= Len(s) THEN s[i] ELSE t[i - Len(s)]
      /\ Len(s) \in Nat /\ Len(t) \in Nat
  BY ConcatProperties
<1>2. /\ ToSet(new) = { new[i] : i \in 1 .. Len(s) + Len(t) }
      /\ ToSet(s) = { s[i] : i \in 1 .. Len(s) }
      /\ ToSet(t) = { t[i] : i \in 1 .. Len(t) }
  <2> HIDE DEF new
  <2>1. ToSet(new) = { new[i] : i \in 1 .. Len(new) }
    BY <1>1, ToSetOfSeq
  <2>2. ToSet(new) = { new[i] : i \in 1 .. Len(s) + Len(t) }
    BY <1>1, <2>1
  <2>3. ToSet(s) = { s[i] : i \in 1 .. Len(s) }
    BY ToSetOfSeq
  <2>4. ToSet(t) = { t[i] : i \in 1 .. Len(t) }
    BY ToSetOfSeq
  <2> QED
    BY <2>2, <2>3, <2>4
<1> HIDE DEF new
<1>3. \A i \in 1 .. Len(s) : s[i] \in ToSet(new)
  BY <1>1, <1>2
<1>4. ASSUME NEW i \in 1 .. Len(t) PROVE t[i] \in ToSet(new)
  <2>1. Len(s) + i \in 1 .. Len(s) + Len(t) /\ new[Len(s) + i] = t[i]
    BY <1>1
  <2> QED
    BY <1>2, <2>1
<1>5. ASSUME NEW i \in 1 .. Len(s) + Len(t) PROVE new[i] \in ToSet(s) \cup ToSet(t)
  <2>1. CASE i <= Len(s)
    BY <1>1, <1>2, <2>1
  <2>2. CASE i > Len(s)
    <3>1. i - Len(s) \in 1 .. Len(t) /\ new[i] = t[i - Len(s)]
      BY <1>1, <2>2
    <3> QED
      BY <1>2, <3>1
  <2> QED
    BY <1>1, <2>1, <2>2
<1>6. ToSet(new) = ToSet(s) \cup ToSet(t)
  BY <1>2, <1>3, <1>4, <1>5
<1> QED
  BY <1>6 DEF new

(* The first call is made: those of the node's children take its place.    *)
LEMMA CallsMembers ==
  ASSUME TypeOK, calls # << >>, NEW kind \in {"push", "pull"},
         calls' = ChildCalls(kind, Top[2]) \o Tail(calls)
  PROVE  /\ Top \in ToSet(calls) /\ Top[1] \in {"push", "pull"} /\ Top[2] \in Nodes
         /\ ToSet(calls) = {Top} \cup ToSet(Tail(calls))
         /\ ToSet(calls') = { << kind, c >> : c \in ChildrenOf(Top[2]) } \cup ToSet(Tail(calls))
<1> DEFINE Calls == {"push", "pull"} \X Nodes
           n == Top[2]
<1>1. calls \in Seq(Calls)
  BY DEF TypeOK
<1>2. /\ Tail(calls) \in Seq(Calls) /\ Head(calls) \in Calls /\ Head(calls) = Top
      /\ Top \in ToSet(calls) /\ ToSet(calls) = {Top} \cup ToSet(Tail(calls))
  <2>1. Head(calls) = Top
    BY <1>1, HeadTailProperties DEF Top
  <2> HIDE DEF Calls
  <2> QED
    BY <1>1, <2>1, ToSetOfTail
<1>3. n \in Nodes /\ Top[1] \in {"push", "pull"}
  BY <1>2
<1>4. ChildCalls(kind, n) \in Seq(Calls)
  BY <1>3, ChildCallsType
<1>5. ToSet(ChildCalls(kind, n)) = { << kind, c >> : c \in ChildrenOf(n) }
  <2>1. DOMAIN ChildCalls(kind, n) = DOMAIN Children[n]
        /\ \A i \in DOMAIN Children[n] : ChildCalls(kind, n)[i] = << kind, Children[n][i] >>
    BY DEF ChildCalls
  <2> HIDE DEF n
  <2> QED
    BY <2>1 DEF ToSet, ChildrenOf
<1>6. ToSet(calls') = ToSet(ChildCalls(kind, n)) \cup ToSet(Tail(calls))
  <2> DEFINE new == ChildCalls(kind, n)
  <2>1. calls' = new \o Tail(calls)
    OBVIOUS
  <2> HIDE DEF Calls, new
  <2>2. ToSet(new \o Tail(calls)) = ToSet(new) \cup ToSet(Tail(calls))
    <3>1. new \in Seq(Calls) /\ Tail(calls) \in Seq(Calls)
      BY <1>2, <1>4 DEF new
    <3> QED
      BY <3>1, ToSetOfConcat
  <2> QED
    BY <2>1, <2>2 DEF new
<1> QED
  BY <1>2, <1>3, <1>5, <1>6

(* Making a call does a node, and leaves the others as they are.           *)
LEMMA CallKeepsRunInv ==
  ASSUME TypeInv, RunInv, phase = "run", calls # << >>,
         NEW kind \in {"push", "pull"}, NEW n, n = Top[2],
         calls' = ChildCalls(kind, n) \o Tail(calls),
         UNCHANGED << phase, dad, names, before, demP >>,
         kind = "pull" <=> IsPulled(n) \/ n \in names,
         \A m \in Nodes \ {n} :
           supS'[m] = supS[m] /\ supP'[m] = supP[m] /\ supI'[m] = supI[m],
         << supS'[n], supP'[n] >> = Final(n),
         StockOk(n)'
  PROVE  RunInv'
<1>1. /\ Top \in ToSet(calls) /\ n \in Nodes
      /\ ToSet(calls) = {Top} \cup ToSet(Tail(calls))
      /\ ToSet(calls') = { << kind, c >> : c \in ChildrenOf(n) } \cup ToSet(Tail(calls))
  BY CallsMembers DEF TypeInv
<1>2. n \in Subtree(dad) /\ (Top[1] = "pull" <=> IsPulled(n))
  BY <1>1 DEF RunInv
<1>3. \A m \in Nodes : (IsPulled(m)' <=> IsPulled(m)) /\ Final(m)' = Final(m)
  BY DEF IsPulled, Final
<1>4. ASSUME NEW c \in ToSet(calls') PROVE c[2] \in Subtree(dad) /\ (c[1] = "pull" <=> IsPulled(c[2]))
  <2>1. CASE c \in ToSet(Tail(calls))
    BY <1>1, <2>1 DEF RunInv
  <2>2. CASE c \notin ToSet(Tail(calls))
    <3>1. PICK m \in ChildrenOf(n) : c = << kind, m >>
      BY <1>1, <2>2
    <3>2. m \in Nodes \ {Root} /\ Parent[m] = n
      BY <1>1, ChildrenAreNodes, ParentIsUnique
    <3>3. Ancestors[m] \ {m} = Ancestors[n] /\ n \in Ancestors[n]
          /\ Ancestors[m] = {m} \cup Ancestors[n]
      BY <1>1, <3>2, AncestorsOfParent, AncestorsType, OneStepUp
    <3>4. m \in Subtree(dad)
      BY <1>2, <3>2, <3>3 DEF Subtree
    <3>5. IsPulled(m) <=> IsPulled(n) \/ n \in names
      BY <1>2, <3>3, <3>4 DEF IsPulled
    <3> QED
      BY <3>1, <3>4, <3>5
  <2> QED
    BY <2>1, <2>2
<1>5. ASSUME NEW m \in Nodes \ {n}, Awaited(m) PROVE Awaited(m)'
  <2>1. PICK c \in ToSet(calls) : c[2] \in Ancestors[m]
    BY <1>5 DEF Awaited
  <2>2. CASE c \in ToSet(Tail(calls))
    BY <1>1, <2>1, <2>2 DEF Awaited
  <2>3. CASE c = Top
    <3>1. PICK d \in ChildrenOf(n) : d \in Ancestors[m]
      BY <2>1, <2>3, FirstStepDown
    <3>2. << kind, d >> \in ToSet(calls')
      BY <1>1, <3>1
    <3> QED
      BY <3>1, <3>2 DEF Awaited
  <2> QED
    BY <1>1, <2>2, <2>3
<1>6. ASSUME NEW m \in Nodes
      PROVE  \/ << supS'[m], supP'[m] >> = Final(m)
             \/ << supS'[m], supP'[m] >> = << before.S[m], before.P[m] >> /\ Awaited(m)'
  <2>1. CASE m = n
    BY <2>1
  <2>2. CASE m # n
    <3>1. \/ << supS[m], supP[m] >> = Final(m)
          \/ << supS[m], supP[m] >> = << before.S[m], before.P[m] >> /\ Awaited(m)
      BY DEF RunInv
    <3> QED
      BY <1>5, <2>2, <3>1
  <2> QED
    BY <2>1, <2>2
<1>7. ASSUME NEW m \in Subtree(dad) PROVE StockOk(m)' \/ Awaited(m)'
  <2>1. CASE m = n
    BY <2>1
  <2>2. CASE m # n
    <3>1. m \in Nodes \ {n} /\ (StockOk(m) \/ Awaited(m))
      BY <2>2 DEF RunInv, Subtree
    <3>2. StockOk(m) => StockOk(m)'
      BY <3>1 DEF StockOk
    <3> QED
      BY <1>5, <3>1, <3>2
  <2> QED
    BY <2>1, <2>2
<1>8. Subtree(dad)' = Subtree(dad)
  BY DEF Subtree
<1>9. \A c \in ToSet(calls') : IsPulled(c[2])' <=> IsPulled(c[2])
  BY DEF IsPulled
<1>10. (\A c \in ToSet(calls) : c[2] \in Subtree(dad) /\ (c[1] = "pull" <=> IsPulled(c[2])))'
  BY <1>4, <1>8, <1>9
<1>11. (\A m \in Nodes :
          \/ << supS[m], supP[m] >> = Final(m)
          \/ << supS[m], supP[m] >> = << before.S[m], before.P[m] >> /\ Awaited(m))'
  BY <1>3, <1>6
<1>12. (\A m \in Subtree(dad) : StockOk(m) \/ Awaited(m))'
  BY <1>7, <1>8
<1>13. phase' = "run"
  OBVIOUS
<1> QED
  BY <1>10, <1>11, <1>12, <1>13 DEF RunInv

LEMMA NewStockOk ==
  ASSUME TypeOK, NEW n \in Nodes, NEW S \in Buckets, NEW P \in Buckets,
         supI'[n] = Stock(supI[n][0], S, P), supS'[n] = S, supP'[n] = P
  PROVE  StockOk(n)'
<1>1. 0 \in Weeks
  BY NWeeksAssumption DEF Weeks
<1> DEFINE first == supI[n][0]
           stock == Stock(first, S, P)
<1>2. first \in SUBSET Lots
  BY <1>1 DEF TypeOK, Buckets
<1>3. \A w \in Weeks \ {0} : stock[w] = (stock[w - 1] \cup P[w]) \ S[w]
  <2> HIDE DEF first
  <2> QED
    BY <1>2, StockEquation
<1> HIDE DEF stock
<1>4. supI'[n] = stock
  BY DEF stock
<1> QED
  BY <1>3, <1>4 DEF StockOk

(* What is known of the node that is called.                               *)
LEMMA Called ==
  ASSUME TypeInv, RunInv, phase = "run", calls # << >>
  PROVE  /\ Top[2] \in Nodes /\ Top[2] \in Subtree(dad)
         /\ Top[1] = "pull" <=> IsPulled(Top[2])
         /\ ~IsPulled(Top[2]) => supP[Top[2]] = before.P[Top[2]]
         /\ ~IsPulled(Top[2]) /\ Top[2] \notin names =>
              << supS[Top[2]], supP[Top[2]] >> = Final(Top[2])
<1>1. Top \in ToSet(calls)
  <2>1. calls \in Seq({"push", "pull"} \X Nodes)
    BY DEF TypeInv, TypeOK
  <2>2. Head(calls) = Top
    BY <2>1, HeadTailProperties DEF Top
  <2> QED
    BY <2>1, <2>2, ToSetOfTail
<1>2. Top[2] \in Subtree(dad) /\ (Top[1] = "pull" <=> IsPulled(Top[2]))
  BY <1>1 DEF RunInv
<1>3. Top[2] \in Nodes
  BY <1>2 DEF Subtree
<1>4. \/ << supS[Top[2]], supP[Top[2]] >> = Final(Top[2])
      \/ << supS[Top[2]], supP[Top[2]] >> = << before.S[Top[2]], before.P[Top[2]] >>
  BY <1>3 DEF RunInv
<1> QED
  BY <1>2, <1>3, <1>4 DEF Final

LEMMA PushKeepsRunInv == ASSUME TypeInv, RunInv, Push PROVE RunInv'
<1>1. PICK n \in Nodes : n = Top[2]
  BY Called DEF Push
<1>2. /\ phase = "run" /\ calls # << >> /\ ~IsPulled(n) /\ n \notin names /\ n \in Nodes
      /\ << supS[n], supP[n] >> = Final(n)
  BY <1>1, Called DEF Push
<1>3. /\ supI' = [supI EXCEPT ![n] = Stock(supI[n][0], supS[n], supP[n])]
      /\ calls' = ChildCalls("push", n) \o Tail(calls)
      /\ UNCHANGED << supS, supP, phase, dad, names, before, demP >>
  BY <1>1 DEF Push, climb
<1>4. /\ TypeOK /\ supS[n] \in Buckets /\ supP[n] \in Buckets
      /\ supI'[n] = Stock(supI[n][0], supS[n], supP[n])
      /\ \A m \in Nodes \ {n} : supI'[m] = supI[m]
  BY <1>2, <1>3 DEF TypeInv, TypeOK
<1>5. StockOk(n)'
  <2>1. supS'[n] = supS[n] /\ supP'[n] = supP[n]
    BY <1>3, <1>4
  <2> QED
    BY <1>2, <1>4, <2>1, NewStockOk
<1>6. UNCHANGED << phase, dad, names, before, demP >>
  BY <1>3
<1>7. "push" = "pull" <=> IsPulled(n) \/ n \in names
  BY <1>2
<1>8. \A m \in Nodes \ {n} : supS'[m] = supS[m] /\ supP'[m] = supP[m] /\ supI'[m] = supI[m]
  BY <1>3, <1>4
<1>9. << supS'[n], supP'[n] >> = Final(n)
  BY <1>2, <1>3
<1> QED
  BY <1>2, <1>3, <1>6, <1>5, <1>1, <1>7, <1>8, <1>9, CallKeepsRunInv

LEMMA DecoupleKeepsRunInv == ASSUME TypeInv, RunInv, Decouple PROVE RunInv'
<1>1. PICK n \in Nodes : n = Top[2]
  BY Called DEF Decouple
<1>2. /\ phase = "run" /\ calls # << >> /\ ~IsPulled(n) /\ n \in names /\ n \in Nodes
      /\ n \in Subtree(dad) /\ supP[n] = before.P[n]
  BY <1>1, Called DEF Decouple
<1>3. /\ supI' = [supI EXCEPT ![n] = Stock(supI[n][0], DemandS[n], supP[n])]
      /\ supS' = [supS EXCEPT ![n] = DemandS[n]]
      /\ calls' = ChildCalls("pull", n) \o Tail(calls)
      /\ UNCHANGED << supP, phase, dad, names, before, demP >>
  BY <1>1 DEF Decouple, climb
<1>4. /\ TypeOK /\ DemandS[n] \in Buckets /\ supP[n] \in Buckets
      /\ supI'[n] = Stock(supI[n][0], DemandS[n], supP[n]) /\ supS'[n] = DemandS[n]
      /\ \A m \in Nodes \ {n} : supI'[m] = supI[m] /\ supS'[m] = supS[m]
  BY <1>2, <1>3, DemandAssumption DEF TypeInv, TypeOK
<1>5. StockOk(n)'
  <2>1. supS'[n] = DemandS[n] /\ supP'[n] = supP[n]
    BY <1>3, <1>4
  <2> QED
    BY <1>2, <1>4, <2>1, NewStockOk
<1>6. UNCHANGED << phase, dad, names, before, demP >>
  BY <1>3
<1>7. "pull" = "pull" <=> IsPulled(n) \/ n \in names
  BY <1>2
<1>8. \A m \in Nodes \ {n} : supS'[m] = supS[m] /\ supP'[m] = supP[m] /\ supI'[m] = supI[m]
  BY <1>3, <1>4
<1>9. << supS'[n], supP'[n] >> = Final(n)
  BY <1>2, <1>3, <1>4 DEF Final
<1> QED
  BY <1>2, <1>3, <1>6, <1>5, <1>1, <1>7, <1>8, <1>9, CallKeepsRunInv

LEMMA PullKeepsRunInv == ASSUME TypeInv, RunInv, Pull PROVE RunInv'
<1>1. PICK n \in Nodes : n = Top[2]
  BY Called DEF Pull
<1>2. phase = "run" /\ calls # << >> /\ IsPulled(n) /\ n \in Nodes
  BY <1>1, Called DEF Pull
<1>3. /\ supI' = [supI EXCEPT ![n] = Stock(supI[n][0], DemandS[n], demP[n])]
      /\ supS' = [supS EXCEPT ![n] = DemandS[n]]
      /\ supP' = [supP EXCEPT ![n] = demP[n]]
      /\ calls' = ChildCalls("pull", n) \o Tail(calls)
      /\ UNCHANGED << phase, dad, names, before, demP >>
  BY <1>1 DEF Pull, climb
<1>4. /\ TypeOK /\ DemandS[n] \in Buckets /\ demP[n] \in Buckets
      /\ supI'[n] = Stock(supI[n][0], DemandS[n], demP[n])
      /\ supS'[n] = DemandS[n] /\ supP'[n] = demP[n]
      /\ \A m \in Nodes \ {n} : supI'[m] = supI[m] /\ supS'[m] = supS[m] /\ supP'[m] = supP[m]
  BY <1>2, <1>3, DemandAssumption DEF TypeInv, TypeOK
<1>5. StockOk(n)'
  <2>1. supS'[n] = DemandS[n] /\ supP'[n] = demP[n]
    BY <1>3, <1>4
  <2> QED
    BY <1>2, <1>4, <2>1, NewStockOk
<1>6. UNCHANGED << phase, dad, names, before, demP >>
  BY <1>3
<1>7. "pull" = "pull" <=> IsPulled(n) \/ n \in names
  BY <1>2
<1>8. << supS'[n], supP'[n] >> = Final(n)
  BY <1>2, <1>4 DEF Final
<1> QED
  BY <1>2, <1>3, <1>6, <1>4, <1>5, <1>1, <1>7, <1>8, CallKeepsRunInv

(* Nothing is pulled at the node a plan begins with, and the whole subtree *)
(* awaits its call.                                                        *)
LEMMA BeginsRunInv ==
  ASSUME NEW d \in Nodes, dad' = d, phase' = "run", calls' = << << "push", d >> >>,
         supS' = supS, supP' = supP, before' = [S |-> supS, P |-> supP]
  PROVE  RunInv'
<1>1. << << "push", d >> >> \in Seq({"push", "pull"} \X Nodes)
  OBVIOUS
<1>2. ToSet(calls') = {<< "push", d >>}
  <2>1. DOMAIN << << "push", d >> >> = {1} /\ << << "push", d >> >>[1] = << "push", d >>
    OBVIOUS
  <2> QED
    BY <2>1 DEF ToSet
<1>3. d \in Subtree(d)
  BY AncestorsType DEF Subtree
<1>4. ~IsPulled(d)'
  <2>1. (Ancestors[d] \ {d}) \cap Subtree(d) = {}
    BY AncestorsAntisymmetric, AncestorsType DEF Subtree
  <2> QED
    BY <2>1 DEF IsPulled
<1>5. Subtree(dad)' = Subtree(d)
  BY DEF Subtree
<1>6. \A n \in Subtree(d) : Awaited(n)'
  BY <1>2 DEF Awaited, Subtree
<1>7. (\A c \in ToSet(calls) : c[2] \in Subtree(dad) /\ (c[1] = "pull" <=> IsPulled(c[2])))'
  BY <1>2, <1>3, <1>4, <1>5
<1>8. (\A m \in Nodes :
          \/ << supS[m], supP[m] >> = Final(m)
          \/ << supS[m], supP[m] >> = << before.S[m], before.P[m] >> /\ Awaited(m))'
  <2> SUFFICES ASSUME NEW m \in Nodes
               PROVE  << supS[m], supP[m] >> = Final(m)' \/ Awaited(m)'
    OBVIOUS
  <2>1. CASE m \in Subtree(d)
    BY <1>6, <2>1
  <2>2. CASE m \notin Subtree(d)
    BY <1>5, <2>2 DEF Final, IsPulled
  <2> QED
    BY <2>1, <2>2
<1>9. (\A m \in Subtree(dad) : StockOk(m) \/ Awaited(m))'
  BY <1>5, <1>6
<1> QED
  BY <1>7, <1>8, <1>9 DEF RunInv

LEMMA RunInvInit == Init => RunInv
BY DEF Init, RunInv

LEMMA RunInvStep == TypeInv /\ RunInv /\ [Next]_vars => RunInv'
<1> SUFFICES ASSUME TypeInv, RunInv, [Next]_vars PROVE RunInv'
  OBVIOUS
<1>1. CASE PlanSelected
  <2>1. PICK d \in dads : dad' = d /\ calls' = << << "push", d >> >>
    BY <1>1 DEF PlanSelected
  <2>2. d \in Nodes
    BY DEF TypeInv, TypeOK
  <2>3. phase' = "run" /\ supS' = supS /\ supP' = supP /\ before' = [S |-> supS, P |-> supP]
    BY <1>1 DEF PlanSelected, psi
  <2> QED
    BY <2>1, <2>2, <2>3, BeginsRunInv
<1>2. CASE ChooseDecouple
  <2>1. dad \in Nodes /\ before = [S |-> supS, P |-> supP]
    BY <1>2 DEF ChooseDecouple, TypeInv, TypeOK, RunInv
  <2>2. /\ dad' = dad /\ calls' = << << "push", dad >> >> /\ phase' = "run"
        /\ supS' = supS /\ supP' = supP /\ before' = before
    BY <1>2 DEF ChooseDecouple, psi
  <2> QED
    BY <2>1, <2>2, BeginsRunInv
<1>3. CASE Push \/ Decouple \/ Pull
  BY <1>3, PushKeepsRunInv, DecoupleKeepsRunInv, PullKeepsRunInv
<1>4. CASE FindCandidates
  BY <1>4 DEF FindCandidates, psi, RunInv
<1>5. CASE Climb
  BY <1>5 DEF Climb, psi, RunInv
<1>6. CASE RunFullPlan \/ HandOff \/ EndDad \/ Finish
  BY <1>6 DEF RunFullPlan, HandOff, EndDad, Finish, RunInv
<1>7. CASE UNCHANGED vars
  BY <1>7 DEF vars, psi, climb, RunInv, IsPulled, Final, Awaited, StockOk, Subtree
<1> QED
  BY <1>1, <1>2, <1>3, <1>4, <1>5, <1>6, <1>7 DEF Next, Step

LEMMA RunInvariant == Spec => []RunInv
<1>1. Spec => []TypeInv
  BY TypeInvInit, TypeInvStep, PTL DEF Spec
<1> QED
  BY <1>1, RunInvInit, RunInvStep, PTL DEF Spec

LEMMA NoneAwaited == ASSUME Planned PROVE \A n : ~Awaited(n)
<1>1. calls = << >> /\ << >> \in Seq(Nodes)
  BY EmptySeq DEF Planned
<1>2. ToSet(calls) = {}
  BY <1>1, ToSetOfSeq
<1> QED
  BY <1>2 DEF Awaited

(* When a subtree is planned every node has the S and P that its place     *)
(* calls for, whatever an earlier plan made of them.                       *)
THEOREM SupplyAsDecoupled == Spec => []SupplyFollowsDecoupling
<1>1. RunInv => SupplyFollowsDecoupling
  BY NoneAwaited DEF RunInv, SupplyFollowsDecoupling, Final, Planned
<1> QED
  BY <1>1, RunInvariant, PTL

(* ... and the stock that follows from the S and P it ends up with, though *)
(* a node is computed more than once.                                      *)
THEOREM StockAsPlanned == Spec => []StockIsCurrent
<1>1. RunInv => StockIsCurrent
  BY NoneAwaited DEF RunInv, StockIsCurrent, StockOk, Planned
<1> QED
  BY <1>1, RunInvariant, PTL

----------------------------------------------------------------------------
(* The lots of the MOMs at the DADs                                        *)

SomeResolved == \E w \in Weeks : \E l \in ShippedIn(w) : Resolved(l)

(* From the hand-off on a DAD under no other has its seeds and nothing     *)
(* else: only DADs are planned, and what is planned pulls below them.      *)
SeedInv ==
  phase # "handoff" /\ SomeResolved =>
    /\ \A d \in OuterDads : \A w \in Weeks : supP[d][w] = Seed(d, w)
    /\ \A w \in Weeks, l \in Lots :
         l \in ShippedIn(w) => (<< w, l >> \in unresolved <=> ~Resolved(l))
    /\ dads \subseteq Dads
    /\ phase \in {"candidates", "choose", "run"} => dad \in Dads

(* A lot that is resolved has a DAD: of those above its leaf one is the    *)
(* deepest.                                                                *)
LEMMA DadOfResolved == ASSUME NEW l, Resolved(l) PROVE DadOf(l) \in Dads
<1> DEFINE above == DadsAbove(LeafOf[l])
           depths == { Depth(d) : d \in above }
<1>1. above # {} /\ above \subseteq Nodes /\ above \subseteq Dads
      /\ IsFiniteSet(Ancestors[LeafOf[l]]) /\ above \subseteq Ancestors[LeafOf[l]]
  BY AncestorsType, TreeAssumption, FS_Subset DEF Resolved, DadsAbove
<1>2. \A d \in above : Depth(d) \in 0 .. Depth(LeafOf[l])
  <2> SUFFICES ASSUME NEW d \in above PROVE Depth(d) \in 0 .. Depth(LeafOf[l])
    OBVIOUS
  <2>1. d # LeafOf[l] /\ LeafOf[l] \in Nodes /\ d \in Ancestors[LeafOf[l]]
    BY DEF Resolved, DadsAbove
  <2>2. Depth(d) \in Nat /\ Depth(LeafOf[l]) \in Nat
    BY <1>1, <2>1, DepthCounts
  <2> QED
    BY <2>1, <2>2, DeeperBelow
<1>3. depths \in SUBSET (0 .. Depth(LeafOf[l])) /\ depths # {} /\ Depth(LeafOf[l]) \in Nat
  BY <1>1, <1>2, DepthCounts DEF Resolved
<1>4. PICK k \in depths : \A e \in depths : e <= k
  <2> HIDE DEF depths
  <2> QED
    BY <1>3, GreatestOfNat
<1>5. \E d \in above : \A e \in above : Depth(e) <= Depth(d)
  BY <1>4
<1>6. DadOf(l) \in above
  <2> HIDE DEF above
  <2> QED
    BY <1>5 DEF DadOf, above
<1> QED
  BY <1>1, <1>6

(* A DAD under no other is never pulled while a DAD is planned.            *)
LEMMA OuterDadNotPulled ==
  ASSUME NEW n \in OuterDads, dad \in Dads PROVE ~IsPulled(n)
<1> SUFFICES ASSUME IsPulled(n) PROVE FALSE
  OBVIOUS
<1>1. n \in Nodes /\ dad \in Nodes
  BY TreeAssumption DEF OuterDads
<1>2. PICK m \in Ancestors[n] \ {n} : m \in Nodes /\ dad \in Ancestors[m]
  BY DEF IsPulled, Subtree
<1>3. dad \in Ancestors[n] /\ dad # n
  BY <1>1, <1>2, AncestorsTransitive, AncestorsAntisymmetric
<1> QED
  BY <1>3 DEF OuterDads, DadsAbove

LEMMA HandOffSeeds == ASSUME TypeInv, HandOff PROVE SeedInv'
<1>1. /\ momS' = momS /\ \A w : ShippedIn(w)' = ShippedIn(w)
      /\ \A n, w : Seed(n, w)' = Seed(n, w)
      /\ SomeResolved' <=> SomeResolved
  BY DEF HandOff, ShippedIn, Seed, SomeResolved
<1> SUFFICES ASSUME SomeResolved
             PROVE  /\ \A d \in OuterDads : \A w \in Weeks : supP'[d][w] = Seed(d, w)
                    /\ \A w \in Weeks, l \in Lots :
                         l \in ShippedIn(w) => (<< w, l >> \in unresolved' <=> ~Resolved(l))
                    /\ dads' \subseteq Dads
                    /\ phase' \notin {"candidates", "choose", "run"}
  BY <1>1 DEF SeedInv
<1>2. PICK w \in Weeks : \E l \in ShippedIn(w) : Resolved(l)
  BY DEF SomeResolved
<1>3. PICK l \in ShippedIn(w) : Resolved(l)
  BY <1>2
<1>4. Moms # {}
  BY <1>3 DEF ShippedIn
<1>5. \A d \in OuterDads : \A v \in Weeks : supP'[d][v] = Seed(d, v)
  BY <1>4, TreeAssumption DEF HandOff, OuterDads
<1>6. DadOf(l) \in Dads /\ l \in Seed(DadOf(l), w)
  BY <1>3, DadOfResolved DEF Seed
<1>7. dads' \subseteq Dads
  BY <1>6 DEF HandOff
<1>8. unresolved' = { x \in Weeks \X Lots : x[2] \in ShippedIn(x[1]) /\ ~Resolved(x[2]) }
      /\ phase' = "next"
  BY DEF HandOff
<1> QED
  BY <1>5, <1>7, <1>8

LEMMA SeedInvInit == Init => SeedInv
<1> SUFFICES ASSUME Init PROVE ~SomeResolved
  BY DEF SeedInv
<1>1. \A w \in Weeks : ShippedIn(w) = {}
  BY DEF Init, ShippedIn
<1> QED
  BY <1>1 DEF SomeResolved

LEMMA SeedInvStep == TypeInv /\ RunInv /\ SeedInv /\ [Next]_vars => SeedInv'
<1> SUFFICES ASSUME TypeInv, RunInv, SeedInv, [Next]_vars PROVE SeedInv'
  OBVIOUS
<1> USE DEF SeedInv, SomeResolved, Seed, ShippedIn
<1>1. CASE RunFullPlan
  BY <1>1 DEF RunFullPlan
<1>2. CASE HandOff
  BY <1>2, HandOffSeeds
<1>3. CASE PlanSelected
  BY <1>3 DEF PlanSelected, psi
<1>4. CASE FindCandidates
  BY <1>4 DEF FindCandidates, psi
<1>5. CASE Climb
  BY <1>5 DEF Climb, psi
<1>6. CASE ChooseDecouple
  BY <1>6 DEF ChooseDecouple, psi
<1>7. CASE Push \/ Decouple
  <2>1. UNCHANGED << momS, supP, unresolved, dads, dad, phase >>
    BY <1>7 DEF Push, Decouple, climb
  <2> QED
    BY <2>1
<1>8. CASE Pull
  <2>1. IsPulled(Top[2]) /\ phase = "run"
    BY <1>8, Called DEF Pull
  <2>2. dad \in Dads => \A d \in OuterDads : supP'[d] = supP[d]
    <3>1. dad \in Dads => \A d \in OuterDads : d # Top[2] /\ d \in Nodes
      BY <2>1, OuterDadNotPulled, TreeAssumption DEF OuterDads
    <3>2. \A d \in Nodes : d # Top[2] => supP'[d] = supP[d]
      BY <1>8 DEF Pull, TypeInv, TypeOK
    <3> QED
      BY <3>1, <3>2
  <2>3. UNCHANGED << momS, unresolved, dads, dad, phase >>
    BY <1>8 DEF Pull, climb
  <2> QED
    BY <2>1, <2>2, <2>3
<1>9. CASE EndDad \/ Finish
  BY <1>9 DEF EndDad, Finish, psi, climb
<1>10. CASE UNCHANGED vars
  BY <1>10 DEF vars
<1> QED
  BY <1>1, <1>2, <1>3, <1>4, <1>5, <1>6, <1>7, <1>8, <1>9, <1>10 DEF Next, Step

(* After a plan that seeded a DAD every lot the MOMs ship is at the DAD    *)
(* nearest above its leaf, in its week, or reported; nothing of an earlier *)
(* plan is left at a DAD.                                                  *)
THEOREM EachLotReachesOneDad == Spec => []MomLotsReachOneDad
<1>1. SeedInv => MomLotsReachOneDad
  <2> SUFFICES ASSUME SeedInv, phase = "idle", SomeResolved, NEW w \in Weeks, NEW l \in Lots
               PROVE  Holders(w, l) =
                        IF l \in ShippedIn(w) /\ << w, l >> \notin unresolved
                          THEN {DadOf(l)} \cap OuterDads ELSE {}
    BY DEF MomLotsReachOneDad, SomeResolved
  <2>1. /\ \A d \in OuterDads : supP[d][w] = Seed(d, w)
        /\ l \in ShippedIn(w) => (<< w, l >> \in unresolved <=> ~Resolved(l))
    BY DEF SeedInv
  <2>2. Holders(w, l) = { d \in OuterDads : l \in ShippedIn(w) /\ Resolved(l) /\ DadOf(l) = d }
    BY <2>1 DEF Holders, Seed
  <2> QED
    BY <2>1, <2>2
<1>2. Spec => []TypeInv
  BY TypeInvInit, TypeInvStep, PTL DEF Spec
<1> QED
  BY <1>1, <1>2, RunInvariant, SeedInvInit, SeedInvStep, PTL DEF Spec
=============================================================================
