--------------------------- MODULE PlanningKernel ---------------------------
(***************************************************************************)
(* The planning loop of pysi/core/kernel/minimal_kernel.py.  Flow events   *)
(* are the plan; FlowEngine.run_flow derives the state from them, week by  *)
(* week; Resolver answers the first stockout with a production, a shipment *)
(* and an arrival; PlanningKernel.run repeats this until nothing is wrong, *)
(* nothing can be done, or the iterations are used up.                     *)
(*                                                                         *)
(* A time bucket is the number of its week.  Within a week events only add *)
(* and subtract, so their order inside it is left out; quantities are      *)
(* integers, and the scores, which nothing here reads, are left out.       *)
(***************************************************************************)
EXTENDS Integers, Sequences, FiniteSets, FiniteSetsExt

CONSTANTS
  Nodes, Products,
  NoNode,      \* None
  Names,       \* all nodes and products, sorted by name
  Requests     \* the arguments of run: see IsRequest

Weeks == Nat \ {0}
Types == {"production", "shipment", "arrival", "inventory_adjustment", "sale"}

IsEvent(e) ==
  /\ e.type \in Types
  /\ e.from \in Nodes \cup {NoNode} /\ e.to \in Nodes \cup {NoNode}
  /\ e.product \in Products /\ e.week \in Weeks /\ e.qty \in Int

IsRequest(r) ==
  /\ \A i \in DOMAIN r.lots :          \* sorted by week and identifier
       LET l == r.lots[i]
       IN /\ l.origin \in Nodes /\ l.destination \in Nodes \cup {NoNode}
          /\ l.product \in Products /\ l.week \in Weeks /\ l.qty \in Nat
  /\ \A i \in DOMAIN r.demands :       \* sorted by week, market, product
       LET d == r.demands[i]
       IN /\ d.market \in Nodes /\ d.product \in Products
          /\ d.week \in Weeks /\ d.qty \in Nat
  /\ \A i \in DOMAIN r.initial : IsEvent(r.initial[i])
  /\ r.max_iterations \in Nat /\ r.capacity_limit \in Nat
  /\ r.lead_time \in Int
  /\ r.production_nodes \subseteq Nodes
  /\ DOMAIN r.upstream \subseteq Nodes /\ r.upstream \in [DOMAIN r.upstream -> Nodes]

ASSUME NamesAssumption    == Nodes \cup Products = { Names[i] : i \in DOMAIN Names }
ASSUME RequestsAssumption == NoNode \notin Nodes /\ \A r \in Requests : IsRequest(r)

VARIABLES
  request,
  flow_events,
  production_nodes, upstream, origin,  \* actual_..., lot_origin_by_product
  phase,
  week,         \* run_flow: the bucket it is at
  served,       \*   demands served
  current,      \*   current_inventory
  touched,
  state,        \*   the views, with their keys
  history, selected_operators

context == << request, production_nodes, upstream, origin >>
vars == << request, flow_events, production_nodes, upstream, origin, phase, week,
           served, current, touched, state, history, selected_operators >>

Phases == {"called", "events", "demands", "judge", "returned", "raised"}

Keys    == Nodes \X Products
NoViews == [inventory |-> << >>, demand |-> << >>, supply |-> << >>,
            backlog |-> << >>, usage |-> << >>]

Extend(f, g) ==
  [k \in DOMAIN f \cup DOMAIN g |-> IF k \in DOMAIN f THEN f[k] ELSE g[k]]
Set(f, k, v) == [x \in DOMAIN f \cup {k} |-> IF x = k THEN v ELSE f[x]]
Add(f, k, v) == Set(f, k, v + IF k \in DOMAIN f THEN f[k] ELSE 0)

----------------------------------------------------------------------------
(* The call                                                                *)

Later(w, weeks) == w + (IF weeks > 0 THEN weeks ELSE 0)

Event(type, from, to, product, w, qty) ==
  [type |-> type, from |-> from, to |-> to, product |-> product, week |-> w, qty |-> qty]

(* Fault: the lot is made when it arrives.                                 *)
MoveLate(source, dest, product, w, qty, lead) ==
  << Event("production", source, source, product, Later(w, lead), qty),
     Event("shipment",   source, dest,   product, w, qty),
     Event("arrival",    source, dest,   product, Later(w, lead), qty) >>
(* Fault: it arrives where it was made.                                    *)
MoveNowhere(source, dest, product, w, qty, lead) ==
  << Event("production", source, source, product, w, qty),
     Event("shipment",   source, dest,   product, w, qty),
     Event("arrival",    source, source, product, Later(w, lead), qty) >>
(* What is made, shipped at once, and arrives a lead time later.           *)
Move(source, dest, product, w, qty, lead) ==
  << Event("production", source, source, product, w, qty),
     Event("shipment",   source, dest,   product, w, qty),
     Event("arrival",    source, dest,   product, Later(w, lead), qty) >>

LotEvents(l, lead) ==
  Move(l.origin, IF l.destination = NoNode THEN l.origin ELSE l.destination,
       l.product, l.week, l.qty, lead)

AllLotEvents(r) ==
  LET upto[i \in 0 .. Len(r.lots)] ==
        IF i = 0 THEN << >> ELSE upto[i - 1] \o LotEvents(r.lots[i], r.lead_time)
  IN upto[Len(r.lots)]

(* setdefault: the first lot decides.                                      *)
LotOrigins(r) ==
  [p \in { r.lots[i].product : i \in DOMAIN r.lots } |->
     r.lots[Min({ i \in DOMAIN r.lots : r.lots[i].product = p })].origin]
InferredUpstream(r) ==
  [n \in { r.lots[i].destination : i \in DOMAIN r.lots } \ {NoNode} |->
     r.lots[Min({ i \in DOMAIN r.lots : r.lots[i].destination = n })].origin]

Init ==
  /\ request \in Requests
  /\ flow_events = << >>
  /\ production_nodes = {}
  /\ upstream = << >>
  /\ origin = << >>
  /\ phase = "called"
  /\ week = 0
  /\ served = 0
  /\ current = [k \in Keys |-> 0]
  /\ touched = {}
  /\ state = NoViews
  /\ history = << >>
  /\ selected_operators = << >>

(* run_flow begins with the first bucket of the events and the demands.    *)
Buckets(events) == { events[i].week : i \in DOMAIN events }
                     \cup { request.demands[i].week : i \in DOMAIN request.demands }
BeginFlow(events) ==
  /\ week' = IF Buckets(events) = {} THEN 0 ELSE Min(Buckets(events))
  /\ phase' = IF Buckets(events) = {} THEN "judge" ELSE "events"
  /\ served' = 0
  /\ current' = [k \in Keys |-> 0]
  /\ touched' = {}
  /\ state' = NoViews

Call ==
  /\ phase = "called"
  /\ request.max_iterations > 0
  /\ flow_events' = request.initial \o AllLotEvents(request)
  /\ origin' = LotOrigins(request)
  /\ production_nodes' =
       IF request.production_nodes # {} THEN request.production_nodes
       ELSE { request.lots[i].origin : i \in DOMAIN request.lots }
  /\ upstream' = LET inferred == InferredUpstream(request)
                 IN [n \in DOMAIN inferred \cup DOMAIN request.upstream |->
                       IF n \in DOMAIN request.upstream THEN request.upstream[n]
                                                        ELSE inferred[n]]
  /\ BeginFlow(flow_events')
  /\ UNCHANGED << request, history, selected_operators >>

(* No iteration leaves no history to return.                               *)
CallRaises ==
  /\ phase = "called"
  /\ request.max_iterations = 0
  /\ phase' = "raised"
  /\ UNCHANGED << context, flow_events, week, served, current, touched, state,
                  history, selected_operators >>

----------------------------------------------------------------------------
(* run_flow                                                                *)

OrElse(n, m) == IF n = NoNode THEN m ELSE n
Place(e) ==
  CASE e.type = "shipment" -> e.from
    [] e.type = "sale"     -> OrElse(e.from, e.to)
    [] OTHER               -> OrElse(e.to, e.from)
Signed(e) == IF e.type \in {"shipment", "sale"} THEN -e.qty ELSE e.qty

Now(events, w, k) ==
  { i \in DOMAIN events :
      events[i].week = w /\ << Place(events[i]), events[i].product >> = k }
Quantity(events, I) == MapThenSumSet(LAMBDA i : events[i].qty, I)
OfType(events, I, type) == { i \in I : events[i].type = type }

(* The events of a bucket.                                                 *)
MoveInventory ==
  /\ phase = "events"
  /\ LET now(k)     == Now(flow_events, week, k)
         arrived(k) == OfType(flow_events, now(k), "arrival")
         made(n)    == UNION { OfType(flow_events, now(<< n, p >>), "production") : p \in Products }
     IN /\ current' = [k \in Keys |->
             current[k] + MapThenSumSet(LAMBDA i : Signed(flow_events[i]), now(k))]
        /\ touched' = { k \in Keys : now(k) # {} }
        /\ state' = [state EXCEPT
             !.supply = Extend(@, [k \in { << l[1], l[2], week >> : l \in { m \in Keys : arrived(m) # {} } } |->
                                     Quantity(flow_events, arrived(<< k[1], k[2] >>))]),
             !.usage  = Extend(@, [k \in { << n, week >> : n \in { m \in Nodes : made(m) # {} } } |->
                                     Quantity(flow_events, made(k[1]))])]
  /\ phase' = "demands"
  /\ UNCHANGED << context, flow_events, week, served, history, selected_operators >>

Due == served < Len(request.demands) /\ request.demands[served + 1].week = week

(* Fault: what is sold stays in stock.                                     *)
ServeKeepsStock ==
  /\ phase = "demands"
  /\ Due
  /\ LET d    == request.demands[served + 1]
         k    == << d.market, d.product >>
         key  == << d.market, d.product, week >>
         sold == Min({Max({current[k], 0}), d.qty})
     IN /\ state' = [state EXCEPT !.demand  = Add(@, key, d.qty),
                                  !.backlog = Set(@, key, d.qty - sold)]
        /\ touched' = touched \cup {k}
  /\ served' = served + 1
  /\ UNCHANGED << context, flow_events, phase, week, current, history, selected_operators >>
(* One demand, from what there is.  The demands of a key are added up, its *)
(* backlog is that of the last.                                            *)
Serve ==
  /\ phase = "demands"
  /\ Due
  /\ LET d    == request.demands[served + 1]
         k    == << d.market, d.product >>
         key  == << d.market, d.product, week >>
         sold == Min({Max({current[k], 0}), d.qty})
     IN /\ current' = [current EXCEPT ![k] = @ - sold]
        /\ state' = [state EXCEPT !.demand  = Add(@, key, d.qty),
                                  !.backlog = Set(@, key, d.qty - sold)]
        /\ touched' = touched \cup {k}
  /\ served' = served + 1
  /\ UNCHANGED << context, flow_events, phase, week, history, selected_operators >>

EndBucket ==
  /\ phase = "demands"
  /\ ~Due
  /\ state' = [state EXCEPT !.inventory =
                 Extend(@, [k \in { << l[1], l[2], week >> : l \in touched } |->
                              current[<< k[1], k[2] >>]])]
  /\ LET later == { b \in Buckets(flow_events) : b > week }
     IN IF later = {} THEN phase' = "judge" /\ UNCHANGED week
                      ELSE phase' = "events" /\ week' = Min(later)
  /\ touched' = {}
  /\ UNCHANGED << context, flow_events, served, current, history, selected_operators >>

----------------------------------------------------------------------------
(* The loop of run                                                         *)

Stockouts == { k \in DOMAIN state.backlog : state.backlog[k] > 0 }
Overloads == { k \in DOMAIN state.usage : state.usage[k] > request.capacity_limit }

(* Candidates are in the order of week and of the event's identifier.      *)
Rank(x) == CHOOSE i \in DOMAIN Names : Names[i] = x
Before(k, l) ==
  \/ k[3] < l[3]
  \/ k[3] = l[3] /\ Rank(k[1]) < Rank(l[1])
  \/ k[3] = l[3] /\ k[1] = l[1] /\ Rank(k[2]) <= Rank(l[2])
FirstStockout == CHOOSE k \in Stockouts : \A l \in Stockouts : Before(k, l)

(* Where the missing quantity is to be made.                               *)
Source(node, product) ==
  IF node \in production_nodes THEN node
  ELSE IF node \in DOMAIN upstream THEN upstream[node]
  ELSE IF product \in DOMAIN origin THEN origin[product]
  ELSE node

Record == history' = Append(history, [state |-> state, stockouts |-> Stockouts,
                                      overloads |-> Overloads])

(* Nothing is wrong, or only a capacity, which nobody knows how to cure.   *)
Return ==
  /\ phase = "judge"
  /\ Stockouts = {}
  /\ Record
  /\ phase' = "returned"
  /\ UNCHANGED << context, flow_events, week, served, current, touched, state,
                  selected_operators >>

Operator(k) == [source |-> Source(k[1], k[2]), destination |-> k[1], product |-> k[2],
                week |-> k[3], qty |-> state.backlog[k]]

Apply(op) == flow_events \o
  Move(op.source, op.destination, op.product, op.week, op.qty, request.lead_time)

(* The first candidate is applied, also in the last iteration, whose       *)
(* result is the state before it.                                          *)
Resolve ==
  /\ phase = "judge"
  /\ Stockouts # {}
  /\ Record
  /\ LET op == Operator(FirstStockout)
     IN /\ selected_operators' = Append(selected_operators, op)
        /\ flow_events' = Apply(op)
  /\ IF Len(history') < request.max_iterations
       THEN BeginFlow(flow_events')
       ELSE /\ phase' = "returned"
            /\ UNCHANGED << week, served, current, touched, state >>
  /\ UNCHANGED context

Next == Call \/ CallRaises \/ MoveInventory \/ Serve \/ EndBucket \/ Return \/ Resolve

Spec == Init /\ [][Next]_vars

----------------------------------------------------------------------------
(* Properties                                                              *)

(* What the result means by demand and backlog, and the last inventory of  *)
(* a node up to a week.                                                    *)
Total(f, w, p) == MapThenSumSet(LAMBDA k : f[k], { k \in DOMAIN f : k[2] = p /\ k[3] <= w })
InStock(view, w, p) ==
  MapThenSumSet(
    LAMBDA n : LET known == { v \in 1 .. w : << n, p, v >> \in DOMAIN view.inventory }
               IN IF known = {} THEN 0 ELSE view.inventory[<< n, p, Max(known) >>],
    Nodes)
Booked(events, w, p, type) ==
  Quantity(events, { i \in DOMAIN events : /\ events[i].type = type
                                           /\ events[i].product = p
                                           /\ events[i].week <= w
                                           /\ Place(events[i]) # NoNode })

OneDemandPerKey ==
  \A i, j \in DOMAIN request.demands :
    LET d == request.demands[i]
        e == request.demands[j]
    IN << d.market, d.product, d.week >> = << e.market, e.product, e.week >> => i = j

(* The events the returned state is derived from: all that are returned,   *)
(* or, when the iterations ran out, all but those of the last operator.    *)
RanOut == Len(selected_operators) = request.max_iterations
EventsOfState ==
  IF RanOut THEN SubSeq(flow_events, 1, Len(flow_events) - 3) ELSE flow_events

(* "Inventory ... must always be computed from events": in every week of   *)
(* the result, what is in stock, what is under way and what was sold make  *)
(* up what was made and adjusted.                                          *)
BooksBalance ==
  phase = "returned" /\ OneDemandPerKey =>
    LET view   == history[Len(history)].state
        events == EventsOfState
    IN \A w \in Buckets(events), p \in Products :
         InStock(view, w, p)
           + Booked(events, w, p, "shipment") - Booked(events, w, p, "arrival")
           + Booked(events, w, p, "sale")
           + Total(view.demand, w, p) - Total(view.backlog, w, p)
         = Booked(events, w, p, "production")
           + Booked(events, w, p, "inventory_adjustment")

(* An operator makes nobody worse off: from one iteration to the next no   *)
(* backlog grows, of whatever market, product and week, and no stock       *)
(* shrinks below nothing.                                                  *)
CuringHarmsNobody ==
  \A i \in 2 .. Len(history) :
    LET old == history[i - 1].state
        new == history[i].state
    IN /\ \A k \in DOMAIN old.backlog : new.backlog[k] <= old.backlog[k]
       /\ \A k \in DOMAIN new.inventory :
            new.inventory[k] < 0 => \E v \in 1 .. k[3] :
              << k[1], k[2], v >> \in DOMAIN old.inventory
              /\ old.inventory[<< k[1], k[2], v >>] < 0

(* Without a lead time an operator cures the stockout it is chosen for,    *)
(* for good, so that no more iterations are needed than there were         *)
(* stockouts.                                                              *)
Curable == request.lead_time <= 0 /\ request.initial = << >> /\ OneDemandPerKey
StockoutCured ==
  Curable =>
    /\ \A i \in DOMAIN selected_operators, j \in DOMAIN history :
         LET op == selected_operators[i]
         IN i < j => history[j].state.backlog[<< op.destination, op.product, op.week >>] = 0
    /\ history # << >> => Len(history) <= Cardinality(history[1].stockouts) + 1
=============================================================================
