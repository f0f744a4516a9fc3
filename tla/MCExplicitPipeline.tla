------------------------- MODULE MCExplicitPipeline -------------------------
(***************************************************************************)
(* ExplicitPipeline on small instances: the demand, the capacities of the  *)
(* two planning stages, the modes of the two bridges.                      *)
(***************************************************************************)
EXTENDS ExplicitPipeline, TLC

CONSTANTS m1, m2, sp, l1, l2, l3, l4

Home == l1 :> m1 @@ l2 :> m1 @@ l3 :> m1 @@ l4 :> m2
Put(a, b, c) == 0 :> a @@ 1 :> b @@ 2 :> c
SomeSources == { Put(<< l1 >>, << l2, l4, l3 >>, << >>), Put(<< >>, << >>, << l3, l2, l1, l4 >>) }

(* The backward capacity of m1 per week; m2 has one lot a week.            *)
Capabilities ==
  { Put(0, 0, 0), Put(1, 1, 1), Put(2, 1, 0), Put(0, 2, 1), Put(0, 1, 2), Put(2, 2, 2) }
BackwardSetting(t) ==
  [product |-> m1 :> t @@ m2 :> [w \in Weeks |-> 1], flat |-> << >>, nx |-> << >>,
   malformed |-> {}, noPsi |-> {}, junkS |-> {}, junkP |-> {}]

Limit(type, t) == [k \in {m1} \X {type} \X Weeks |-> t[k[3]]]

(* Forward capacities: none; the backward ones; tighter ones; limits on    *)
(* shipments and stock.                                                    *)
PushCaps(t) ==
  { << >>, Limit("P", t), Limit("P", [w \in Weeks |-> IF w = 1 THEN 0 ELSE 2]),
    Limit("P", t) @@ Limit("S", Put(0, 1, 1)) @@ Limit("I", Put(0, 1, 0)) }
PushSetting(c, mode) ==
  [cap |-> c, span |-> [n \in Nodes |-> NWeeks], bad |-> {}, noPsi |-> {}, mode |-> mode]

BridgeSetting(p, m) ==
  [policy |-> p, mode |-> m, lead |-> 0, demandSpan |-> [n \in Nodes |-> NWeeks],
   supplySpan |-> [n \in Nodes |-> NWeeks], noPsi |-> {}, shortD |-> {}, shortS |-> {},
   junkD |-> {}, junkS |-> {}]

(* Every capacity of the planning stage with the default modes, and every  *)
(* mode of the bridges with one capacity.                                  *)
AllInputs ==
  { [aMode |-> "replace", home |-> Home, backward |-> BackwardSetting(t),
     bridge |-> BridgeSetting("s_p_only", "replace"), push |-> PushSetting(c, o)] :
      t \in { Put(1, 1, 1), Put(0, 2, 1) }, o \in {"soft", "hard"},
      c \in PushCaps(Put(1, 1, 1)) }
  \cup
  { [aMode |-> a, home |-> Home, backward |-> BackwardSetting(Put(1, 1, 1)),
     bridge |-> BridgeSetting(p, b), push |-> PushSetting(c, "soft")] :
      a, b \in {"replace", "append", "dedupe_append"}, p \in {"s_p_only", "s_only", "full_clone"},
      c \in { Limit("P", Put(1, 1, 1)) } }
  \cup
  { [aMode |-> "replace", home |-> Home, backward |-> BackwardSetting(t),
     bridge |-> BridgeSetting("s_p_only", "replace"), push |-> PushSetting(Limit("P", t), "soft")] :
      t \in Capabilities }
=============================================================================
