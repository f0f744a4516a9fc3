---------------------------- MODULE MCMomLeveling ----------------------------
(***************************************************************************)
(* MomLeveling on small instances: the trees, policies and capacities the  *)
(* runs start from.                                                        *)
(***************************************************************************)
EXTENDS MomLeveling, TLC

CONSTANTS a1, a2, a3, a4, a5, east, west

EmptyBuckets == [m \in Moms |-> [w \in Weeks |-> << >>]]

Here(s) == [w \in Weeks |-> IF w + 1 \in DOMAIN s THEN s[w + 1] ELSE << >>]

MarketOf == [l \in LotIds |-> IF l \in {a1, a2} THEN east ELSE west]

Plain ==
  [source |-> Here(<< << a1, a2, a3 >>, << a4, a5 >> >>),
   span |-> NWeeks, horizon |-> NWeeks, clear |-> TRUE, market |-> MarketOf,
   policy |-> east :> << 1, 2 >> @@ west :> << 2, 1 >>,
   secondary |-> east :> << 1, 2 >> @@ west :> << 2, 1 >>,
   first |-> 1, byProduct |-> << >>, byMom |-> << >>, nx |-> [m \in Moms |-> 1]]

(* Policies: complete ones, one that only has the default, one that names  *)
(* a MOM that does not exist before one that does, and none at all.        *)
Policies ==
  { east :> << 1, 2 >> @@ west :> << 2, 3, 1 >>,
    east :> << >> @@ Default :> << 3, 2 >>,
    east :> << NMoms + 1, 3 >> @@ west :> << NMoms + 1 >>,
    << >> }

Sources ==
  { Here(<< << a1, a2, a3 >>, << a4, a5 >> >>),
    Here(<< << a3, a1, a4, a2, a5 >> >>),
    Here(<< << a1, a3 >>, << a2, a5, a4 >> >>) }

(* An allocation followed by a leveling, on a tree without lots.           *)
FreshInputs ==
  { [demand  |-> EmptyBuckets,
     setting |-> [Plain EXCEPT !.source = src, !.policy = p, !.secondary = q,
                               !.first = f, !.byMom = table, !.nx = nx]] :
      src \in Sources, p \in Policies, q \in Policies, f \in {1, 3},
      table \in { << >>, 1 :> << 1 >>, 2 :> << 0, 2 >>, 1 :> << 2, 0 >> @@ 3 :> << >>,
                  2 :> << -1, 1 >> },
      nx \in { [m \in Moms |-> 1], [m \in Moms |-> IF m = 2 THEN 2 ELSE 0] } }

(* Trees that hold lots already, a horizon shorter than the tree, a span   *)
(* shorter than the horizon, no clearing, and both capacity tables.        *)
DirtyTrees ==
  { [EmptyBuckets EXCEPT ![1][0] = << a1, a2 >>, ![2][0] = << a3 >>, ![2][1] = << a1, a4 >>],
    [EmptyBuckets EXCEPT ![1][1] = << a5 >>, ![2][0] = << a2, a1, a3 >>] }

DirtyInputs ==
  { [demand  |-> d,
     setting |-> [Plain EXCEPT !.source = src, !.span = sp, !.horizon = h, !.clear = c,
                               !.byProduct = prod, !.byMom = table, !.secondary = q]] :
      d \in DirtyTrees, src \in { Here(<< << a4, a5 >>, << a3 >> >>), Here(<< >>) },
      sp \in {0, 1, 2}, h \in {0, 1, 2}, c \in BOOLEAN,
      prod \in { << >>, 1 :> << 1 >>, 2 :> << 0, 2 >> },
      table \in { << >>, 1 :> << 0, 0 >> @@ 2 :> << 3 >> },
      q \in { << >>, Default :> << 1, 2 >> } }

AllInputs == FreshInputs \cup DirtyInputs
=============================================================================
