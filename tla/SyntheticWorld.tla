--------------------------- MODULE SyntheticWorld ---------------------------
(***************************************************************************)
(* The generated order-to-cash world and the candidates built around it    *)
(* (synth/process.py: order_process_schema, simulate_process, GroundTruth, *)
(* build_universe), grounded as universe/core.py does.                     *)
(*                                                                         *)
(* The random generator is a choice at every draw.  Times are integers, a  *)
(* lognormal or other amount is a small number, which can be zero: counts, *)
(* levels and delays can.                                                  *)
(***************************************************************************)
EXTENDS Integers, Sequences, FiniteSets, SequencesExt

CONSTANTS
  Configs,   \* the settings of worlds, see WorldAssumption
  Unset     \* not drawn, not built, nobody

EventTypes == {"PlaceOrder", "ConfirmOrder", "PickItem", "PackItem", "Ship", "Invoice", "Pay"}

\* customers, orders: how many; items: the sizes an order may have;
\* ticks: the lengths of a step; bracket: half the width around a time;
\* size: the types an uncertain event may have; confusable: the types that
\* alternatives and decoys are drawn from (a bound); known: whether a type may
\* be certain; quarters: decoys per four events; attributes, and the amounts
\* they take.
ASSUME WorldAssumption ==
  \A c \in Configs :
    /\ {c.customers, c.orders} \subseteq Nat \ {0}
    /\ c.items \subseteq Nat /\ c.ticks \subseteq Int /\ c.amounts \subseteq Nat
    /\ {c.bracket, c.size, c.quarters} \subseteq Nat
    /\ {c.known, c.attributes} \subseteq BOOLEAN /\ c.confusable \subseteq EventTypes

-----------------------------------------------------------------------------
(***************************************************************************)
(* order_process_schema()                                                  *)
(***************************************************************************)
\* A link of a type, at least one; ONE unless many.
One(type, qualifier, object) ==
  [type |-> type, qualifier |-> qualifier, object |-> object, least |-> 1, many |-> FALSE]

E2OQualifiers ==
  {One(t, "order", "Order") : t \in EventTypes \ {"Pay"}}
    \union {One(t, "customer", "Customer") : t \in {"PlaceOrder", "Pay"}}
    \union {One(t, "item", "Item") : t \in {"PickItem", "PackItem"}}
    \union {One(t, "invoice", "Invoice") : t \in {"Invoice", "Pay"}}
    \union {[One("Ship", "item", "Item") EXCEPT !.many = TRUE]}

O2OQualifiers ==
  {[One("Order", "contains", "Item") EXCEPT !.many = TRUE],
   One("Invoice", "billed_to", "Customer"), One("Invoice", "for_order", "Order")}

Precedes(object) ==
  CASE object = "Order" -> {<<"PlaceOrder", "ConfirmOrder">>, <<"ConfirmOrder", "PickItem">>,
                            <<"PickItem", "PackItem">>, <<"PackItem", "Ship">>, <<"Ship", "Invoice">>}
    [] object = "Item"  -> {<<"PickItem", "PackItem">>, <<"PackItem", "Ship">>}
    [] object = "Invoice" -> {<<"Invoice", "Pay">>}
    [] OTHER -> {}

VARIABLES
  config,
  world,      \* [events, types, e2o, o2o]: what has been generated
  order,      \* the order being generated, or Unset
  clock,
  count,      \* how many orders were started
  amounts,    \* the attributes of the finished world, or Unset
  universe    \* what build_universe() returned, or Unset

worldVars == <<config, world, order, clock, count, amounts, universe>>

\* The attributes that events and objects of a type declare.
Declared(type) ==
  IF ~ config.attributes THEN {}
  ELSE CASE type = "PlaceOrder" -> {"order_priority"}
         [] type = "Ship"       -> {"ship_delay_hours"}
         [] type = "Order"      -> {"order_value", "order_units"}
         [] type = "Item"       -> {"item_weight"}
         [] type = "InvoiceObject" -> {"invoice_total"}
         [] OTHER -> {}

\* Event types and object types share the name Invoice.
DeclaredOfObject(type) == Declared(IF type = "Invoice" THEN "InvoiceObject" ELSE type)
DeclaredOfEvent(type) == Declared(IF type = "Order" THEN Unset ELSE type)

-----------------------------------------------------------------------------
Customers == {<<"cust", i>> : i \in 1..config.customers}

WorldInit ==
  /\ world = [events |-> <<>>, types |-> [c \in Customers |-> "Customer"], e2o |-> {}, o2o |-> {}]
  /\ order = Unset
  /\ clock = 0
  /\ count = 0
  /\ amounts = Unset
  /\ universe = Unset

Real(i) == <<"ev", i>>

\* emit(): the event, at its time, with its links.
Emit(w, type, at, links) ==
  [w EXCEPT !.events = Append(@, [type |-> type, time |-> at]),
            !.e2o = @ \union {<<Real(Len(w.events) + 1), l[1], l[2]>> : l \in links}]

WithObjects(w, objects, type, links) ==
  [w EXCEPT !.types = [o \in DOMAIN @ \union objects |-> IF o \in objects THEN type ELSE @[o]],
            !.o2o = @ \union links]

OrderId(k) == <<"order", k>>
InvoiceId(k) == <<"inv", k>>
Item(k, j) == <<"item", k, j>>
Items(k, n) == {Item(k, j) : j \in 1..n}

Placing == amounts = Unset /\ order = Unset /\ count < config.orders

PlaceOrder(customer, n, d) ==
  /\ Placing
  /\ LET k  == count + 1
         id == OrderId(k)
         w  == WithObjects(WithObjects(world, {id}, "Order", {}), Items(k, n), "Item",
                           {<<id, "contains", i>> : i \in Items(k, n)})
     IN  /\ world' = Emit(w, "PlaceOrder", clock + d, {<<"order", id>>, <<"customer", customer>>})
         /\ order' = [k |-> k, customer |-> customer, n |-> n, packed |-> 0, stage |-> "placed", t |-> clock + d]
         /\ count' = k
  /\ clock' = clock + d
  /\ UNCHANGED <<config, amounts, universe>>

\* An event of the current order, d after its last one, and the next stage.
Stage(type, d, links, next) ==
  /\ world' = Emit(world, type, order.t + d, links)
  /\ order' = [order EXCEPT !.stage = next, !.t = @ + d]
  /\ UNCHANGED <<config, clock, count, amounts, universe>>

At(stage) == order # Unset /\ order.stage = stage

ThisOrder == <<"order", OrderId(order.k)>>

ConfirmOrder(d) == At("placed") /\ Stage("ConfirmOrder", d, {ThisOrder}, "picking")

ThisItem == <<"item", Item(order.k, order.packed + 1)>>

PickItem(d) ==
  /\ At("picking") /\ order.packed < order.n
  /\ Stage("PickItem", d, {ThisItem, ThisOrder}, "packing")

PackItem(d) ==
  /\ At("packing")
  /\ world' = Emit(world, "PackItem", order.t + d, {ThisItem, ThisOrder})
  /\ order' = [order EXCEPT !.stage = "picking", !.t = @ + d, !.packed = @ + 1]
  /\ UNCHANGED <<config, clock, count, amounts, universe>>

\* Mutant: an order without items is shipped as well.
MayShipEmpty == At("picking") /\ order.packed = order.n

\* Every item is packed, and there is one.
MayShip == At("picking") /\ order.packed = order.n /\ order.packed > 0

Ship(d) ==
  /\ MayShip
  /\ Stage("Ship", d, {ThisOrder} \union {<<"item", i>> : i \in Items(order.k, order.packed)}, "shipped")

Invoice(d) ==
  /\ At("shipped")
  /\ LET id == InvoiceId(order.k)
         w  == WithObjects(world, {id}, "Invoice",
                           {<<id, "billed_to", order.customer>>, <<id, "for_order", OrderId(order.k)>>})
     IN  /\ world' = Emit(w, "Invoice", order.t + d, {ThisOrder, <<"invoice", id>>})
         /\ order' = [order EXCEPT !.stage = "invoiced", !.t = @ + d]
  /\ UNCHANGED <<config, clock, count, amounts, universe>>

Pay(d) ==
  At("invoiced")
    /\ Stage("Pay", d, {<<"invoice", InvoiceId(order.k)>>, <<"customer", order.customer>>}, "paid")

\* The loop goes on with the next order: after Pay, or because a draw ended
\* this one early, or because nothing was packed.
EndOrder ==
  /\ order # Unset
  /\ order.stage \in {"placed", "shipped", "invoiced", "paid"}
       \/ (order.stage = "picking" /\ order.packed = order.n)
  /\ order' = Unset
  /\ UNCHANGED <<config, world, clock, count, amounts, universe>>

RealEvents(w) == {Real(i) : i \in 1..Len(w.events)}
EventOf(w, e) == w.events[e[2]]

Carriers(w) ==
  (UNION {{<<o, a>> : a \in DeclaredOfObject(w.types[o])} : o \in DOMAIN w.types})
    \union UNION {{<<e, a>> : a \in DeclaredOfEvent(EventOf(w, e).type)} : e \in RealEvents(w)}

\* _sample_attributes(), at the end of simulate_process()
FinishWorld ==
  /\ amounts = Unset /\ order = Unset /\ count = config.orders
  /\ amounts' \in [Carriers(world) -> config.amounts]
  /\ UNCHANGED <<config, world, order, clock, count, universe>>

-----------------------------------------------------------------------------
(***************************************************************************)
(* build_universe()                                                        *)
(***************************************************************************)
Smaller(m, n) == IF m < n THEN m ELSE n
Larger(m, n) == IF m < n THEN n ELSE m

\* _confusion_support(): size - 1 others beside the truth, or none.
Alternatives(type) ==
  (IF config.known THEN {{}} ELSE {}) \union
  {s \in SUBSET (config.confusable \ {type}) :
     Cardinality(s) = Larger(1, Smaller(config.size, Cardinality(EventTypes))) - 1}

\* round(rate * len(events)), halves to the even neighbour.
NDecoys ==
  LET n == config.quarters * Len(world.events)
      q == n \div 4
  IN  IF n % 4 > 2 \/ (n % 4 = 2 /\ q % 2 = 1) THEN q + 1 ELSE q

Decoy(i) == <<"decoy", i>>

TimesOf(w) == {w.events[i].time : i \in DOMAIN w.events}

Slot(support, t) == [support |-> support, lo |-> t - config.bracket, hi |-> t + config.bracket]

OrdersOf(w) == {o \in DOMAIN w.types : w.types[o] = "Order"}
ItemsOf(w) == {o \in DOMAIN w.types : w.types[o] = "Item"}

\* Objects always live, so times prune no link between an event and an object.
GroundedE2O(slots) ==
  {<<x[1], x[2].qualifier, x[3]>> :
     x \in {x \in (DOMAIN slots) \X E2OQualifiers \X (DOMAIN world.types) :
              x[2].type \in slots[x[1]].support /\ x[2].object = world.types[x[3]]}}

\* Mutant: a signature is looked up from its target.
IsLegalReversed(l) ==
  \E s \in O2OQualifiers :
    s.type = world.types[l[3]] /\ s.qualifier = l[2] /\ s.object = world.types[l[1]]

IsLegalO2O(l) ==
  \E s \in O2OQualifiers :
    s.type = world.types[l[1]] /\ s.qualifier = l[2] /\ s.object = world.types[l[3]]

Ref(family, subject) == [family |-> family, subject |-> subject, qualifier |-> Unset, target |-> Unset]
LinkRef(family, l) == [family |-> family, subject |-> l[1], qualifier |-> l[2], target |-> l[3]]
AttrRef(family, subject, a) == [Ref(family, subject) EXCEPT !.qualifier = a]

\* Attributes that all types an event may have agree on.
SharedAttributes(support) ==
  {a \in UNION {DeclaredOfEvent(t) : t \in support} : \A t \in support : a \in DeclaredOfEvent(t)}

\* _register(): a determined type needs no variable.
Registered(slots, e2o, o2o) ==
  {Ref("event_exists", e) : e \in DOMAIN slots}
    \union {Ref("event_type", e) : e \in {e \in DOMAIN slots : Cardinality(slots[e].support) > 1}}
    \union {Ref("event_time", e) : e \in DOMAIN slots}
    \union {Ref("object_exists", o) : o \in DOMAIN world.types}
    \union {LinkRef("e2o", l) : l \in e2o} \union {LinkRef("o2o", l) : l \in o2o}
    \union (UNION {{AttrRef("event_attr", e, a) : a \in SharedAttributes(slots[e].support)} : e \in DOMAIN slots})
    \union (UNION {{AttrRef("object_attr", o, a) : a \in DeclaredOfObject(world.types[o])} :
                     o \in DOMAIN world.types})

\* The universe of these slots, given the false contents chosen per order.
Grounded(slots, contents) ==
  LET e2o == GroundedE2O(slots)
      o2o == {l \in world.o2o \union UNION {{<<o, "contains", i>> : i \in contents[o]} : o \in DOMAIN contents} :
                IsLegalO2O(l)}
  IN  [slots |-> slots, e2o |-> e2o, o2o |-> o2o, refs |-> Registered(slots, e2o, o2o)]

\* The types and times behind the slots: of events, and of decoys within the
\* span of the process.
Sources(decoyTypes, decoyTimes) ==
  [e \in RealEvents(world) \union {Decoy(i) : i \in DOMAIN decoyTypes} |->
     IF e[1] = "ev" THEN EventOf(world, e)
     ELSE [type |-> decoyTypes[e[2]], time |-> decoyTimes[e[2]]]]

FalseContents ==
  {s \in SUBSET ItemsOf(world) : Cardinality(s) = Smaller(3, Cardinality(ItemsOf(world)))}

Span == Min(TimesOf(world))..Max(TimesOf(world))

BuildUniverse ==
  /\ amounts # Unset /\ universe = Unset
  /\ \E types \in [1..NDecoys -> config.confusable], at \in [1..NDecoys -> Span],
        contents \in [OrdersOf(world) -> FalseContents] :
       LET behind == Sources(types, at)
       IN  \E others \in [DOMAIN behind -> UNION {Alternatives(t) : t \in EventTypes}] :
             /\ \A e \in DOMAIN behind : others[e] \in Alternatives(behind[e].type)
             /\ universe' = Grounded([e \in DOMAIN behind |->
                                        Slot({behind[e].type} \union others[e], behind[e].time)], contents)
  /\ UNCHANGED <<config, world, order, clock, count, amounts>>

WorldNext ==
  \/ \E d \in config.ticks : \/ \E c \in Customers, n \in config.items : PlaceOrder(c, n, d)
                      \/ ConfirmOrder(d) \/ PickItem(d) \/ PackItem(d)
                      \/ Ship(d) \/ Invoice(d) \/ Pay(d)
  \/ EndOrder
  \/ FinishWorld
  \/ BuildUniverse

-----------------------------------------------------------------------------
(***************************************************************************)
(* GroundTruth.truth(): tagged values, because zero is not false.          *)
(***************************************************************************)
NotApplicable == <<"none", 0>>
Bool(b) == <<"bool", b>>
Label(t) == <<"label", t>>
Number(n) == <<"number", n>>

Truth(ref) ==
  LET real == ref.subject \in RealEvents(world)
  IN  CASE ref.family = "event_exists"  -> Bool(real)
        [] ref.family = "object_exists" -> Bool(ref.subject \in DOMAIN world.types)
        [] ref.family = "event_type" -> IF real THEN Label(EventOf(world, ref.subject).type) ELSE NotApplicable
        [] ref.family = "event_time" -> IF real THEN Number(EventOf(world, ref.subject).time) ELSE NotApplicable
        [] ref.family = "e2o" -> Bool(<<ref.subject, ref.qualifier, ref.target>> \in world.e2o)
        [] ref.family = "o2o" -> Bool(<<ref.subject, ref.qualifier, ref.target>> \in world.o2o)
        [] OTHER -> LET carrier == <<ref.subject, ref.qualifier>>
                    IN  IF carrier \in DOMAIN amounts THEN Number(amounts[carrier]) ELSE NotApplicable

-----------------------------------------------------------------------------
(***************************************************************************)
(* What the generator promises its users                                   *)
(***************************************************************************)
Linked(e, qualifier, object) ==
  {l \in world.e2o : l[1] = e /\ l[2] = qualifier /\ world.types[l[3]] = object}

\* A signature allows that many links.
Allows(s, links) == Cardinality(links) >= s.least /\ (s.many \/ Cardinality(links) <= 1)

LinksLegal ==
  /\ \A l \in world.e2o : \E s \in E2OQualifiers :
       s.type = EventOf(world, l[1]).type /\ s.qualifier = l[2] /\ s.object = world.types[l[3]]
  /\ \A l \in world.o2o : IsLegalO2O(l)

EventsComplete ==
  \A e \in RealEvents(world), s \in E2OQualifiers :
    s.type = EventOf(world, e).type => Allows(s, Linked(e, s.qualifier, s.object))

LinkedObjects(o, s) ==
  {l \in world.o2o : l[1] = o /\ l[2] = s.qualifier /\ world.types[l[3]] = s.object}

\* Event i is linked to o.
Involves(i, o) == \E l \in world.e2o : l[1] = Real(i) /\ l[3] = o

\* An order drawn without items, which a configuration may ask for, contains
\* nothing; it goes no further than being confirmed.
DrawnEmpty(o) ==
  /\ world.types[o] = "Order" /\ 0 \in config.items
  /\ \A i \in DOMAIN world.events :
       Involves(i, o) => world.events[i].type \in {"PlaceOrder", "ConfirmOrder"}

ObjectsComplete ==
  \A o \in DOMAIN world.types, s \in O2OQualifiers :
    s.type = world.types[o] =>
      Allows(s, LinkedObjects(o, s)) \/ (LinkedObjects(o, s) = {} /\ DrawnEmpty(o))

\* An order is picked and packed one item after the other: that pair, which
\* orders and items both declare, holds for each item only.
Lifecycle(object) ==
  IF object = "Order" THEN Precedes(object) \ {<<"PickItem", "PackItem">>} ELSE Precedes(object)

\* A step between events i and j went back in time: tick() adds normal noise.
SetBack(i, j) ==
  \E m \in (i + 1)..j, d \in config.ticks :
    d < 0 /\ world.events[m].time = world.events[m - 1].time + d

TracesOrdered ==
  \A o \in DOMAIN world.types : \A i, j \in DOMAIN world.events :
    Involves(i, o) /\ Involves(j, o) /\ <<world.events[i].type, world.events[j].type>> \in Lifecycle(world.types[o])
      => i < j /\ (world.events[i].time <= world.events[j].time \/ SetBack(i, j))

\* The candidates contain the truth: each true type is in its support, each
\* true time in its bracket, each true link and object has a variable, and so
\* has each amount whose owner is certain to declare it.
TruthIsCandidate ==
  universe # Unset =>
    /\ \A e \in RealEvents(world) :
         /\ EventOf(world, e).type \in universe.slots[e].support
         /\ universe.slots[e].lo <= EventOf(world, e).time
         /\ EventOf(world, e).time <= universe.slots[e].hi
    /\ world.e2o \subseteq universe.e2o /\ world.o2o \subseteq universe.o2o
    /\ \A c \in DOMAIN amounts :
         (c[1] \in RealEvents(world) => Cardinality(universe.slots[c[1]].support) = 1)
           => \E r \in universe.refs : r.subject = c[1] /\ r.qualifier = c[2]

\* The world a benchmark is scored against: at every point of the generation
\* each link has a declared signature; each event and object has the links that
\* the schema asks for, one or many, but for orders drawn empty; what happens to
\* an object happens in the order its lifecycle declares and is dated so, unless
\* a step in between was drawn negative; and every fact is a candidate.
TruthFollowsSchema ==
  LinksLegal /\ EventsComplete /\ ObjectsComplete /\ TracesOrdered /\ TruthIsCandidate

=============================================================================
