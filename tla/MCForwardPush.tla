--------------------------- MODULE MCForwardPush ---------------------------
(***************************************************************************)
(* Model-checking instance of ForwardPush: the trees a push may find.      *)
(***************************************************************************)
EXTENDS ForwardPush, FiniteSetsExt, TLC

CONSTANTS n1, n2, l1, l2, l3, l4, l5

Empty == [w \in Weeks |-> << >>]
Put(a, b, c) == (0 :> a) @@ (1 :> b) @@ (2 :> c)
Only(n, f) == [m \in Nodes |-> IF m = n THEN f ELSE Empty]
NoCap == << >>

Setting(cap, mode) ==
  [cap |-> cap, mode |-> mode, bad |-> {}, noPsi |-> {},
   span |-> [n \in Nodes |-> NWeeks]]

(* A capacity for one type in one week, or in every week.                  *)
OneCap(type, w, c) == << n1, type, w >> :> c
EveryWeek(type, c) == [k \in {n1} \X {type} \X Weeks |-> c]

Productions == { Put(a, b, << l5 >>) : a \in { << >>, << l1, l2, l3 >> },
                                          b \in { << >>, << l4 >> } }
Shipments   == { Put(a, b, c) : a \in { << >>, << l2 >> },
                                b \in { << >>, << l1, l4 >>, << l1, l3, l4 >> },
                                c \in { << >>, << l5 >>, << l5, l3 >> } }
Caps == { NoCap }
   \cup { EveryWeek("P", c) : c \in {1, 2} }
   \cup { EveryWeek("S", c) @@ EveryWeek("P", 2) : c \in {0, 1} }
   \cup { OneCap(type, w, c) : type \in Types, w \in Weeks, c \in {0, 1} }
   \cup { EveryWeek("I", 1) @@ EveryWeek("S", 1) }

(* One node with a list, no inventory after week 0.                        *)
FirstInputs ==
  { [s |-> Only(n1, s), p |-> Only(n1, p), i |-> Only(n1, [Empty EXCEPT ![0] = o]),
     setting |-> [Setting(c, mode) EXCEPT !.noPsi = Nodes \ {n1}]] :
      s \in Shipments, p \in Productions, c \in Caps, mode \in {"soft", "hard"},
      o \in { << >>, << l4 >> } }

(* Two nodes and two pushes: inventory left in every week, weeks that      *)
(* cannot be read, a node without a list, one that is shorter.             *)
Dirty(bad, noPsi, span2, mode) ==
  { [s |-> [n \in Nodes |-> s], p |-> (n1 :> p @@ n2 :> Put(<< l3, l4 >>, << >>, << >>)),
     i |-> Only(n1, i),
     setting |-> [cap |-> c, mode |-> mode, bad |-> bad, noPsi |-> noPsi,
                  span |-> (n1 :> NWeeks @@ n2 :> span2)]] :
      s \in { Put(<< >>, << l1, l2 >>, << l3 >>), Put(<< l2 >>, << >>, << l5, l3 >>) },
      p \in { Put(<< l1, l2, l3 >>, << >>, << l5 >>), Put(<< >>, << l4 >>, << l5 >>) },
      i \in { Empty, Put(<< l4 >>, << l5 >>, << >>), Put(<< >>, << l1, l2 >>, << l3 >>) },
      c \in { NoCap, EveryWeek("S", 1), EveryWeek("I", 1) @@ EveryWeek("P", 2),
              OneCap("I", 0, -1), OneCap("I", 0, -2),
              OneCap("P", 0, -1) @@ OneCap("S", 1, -1) } }

RepushInputs ==
  UNION { Dirty(bad, noPsi, span2, mode) :
            bad \in { {}, {<< n1, 1 >>}, {<< n1, 0 >>, << n2, 2 >>} },
            noPsi \in { {}, {n2} }, span2 \in {0, 2}, mode \in {"soft", "hard"} }
  \cup Dirty({}, {}, 2, "other")

AllInputs == FirstInputs \cup RepushInputs
=============================================================================
