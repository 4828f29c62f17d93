------------------------- MODULE MCHistoryGrounding -------------------------
(***************************************************************************)
(* Instances of HistoryGrounding for TLC: two event slots, two objects,    *)
(* two types of events and of objects, two qualifiers, schemas that are    *)
(* refused; registries that callers fill, and beliefs over those.          *)
(***************************************************************************)
EXTENDS BeliefState

Signature(type, qualifier, object, lo, hi) ==
  [type |-> type, qualifier |-> qualifier, object |-> object, lo |-> lo, hi |-> hi]
E2O(type, object, lo, hi) == Signature(type, "q", object, lo, hi)
O2O(source, target, lo, hi) ==
  [source |-> source, qualifier |-> "q", target |-> target, lo |-> lo, hi |-> hi]

Attribute(name, kind) ==
  [name |-> name, kind |-> kind, levels |-> IF kind \in {"ordinal", "categorical"} THEN <<"low", "high">> ELSE <<>>]

\* Attributes that copulas have and one that they have not; an order of types.
Typed(e2o, o2o) ==
  [e2o |-> e2o, o2o |-> o2o,
   events |-> [a |-> <<Attribute("x", "count"), Attribute("y", "categorical")>>, b |-> <<Attribute("z", "ordinal")>>],
   objects |-> [J |-> <<Attribute("w", "continuous")>>, O |-> <<>>],
   lifecycles |-> {[object |-> "O", before |-> "a", after |-> "b"]}]

\* Types that share a qualifier with different bounds, a type that declares
\* no link, one object type that is required and one that is optional.
LegalSchemas ==
  {Typed({E2O("a", "J", 1, 1), E2O("a", "O", 0, None), E2O("b", "J", 0, 1)}, {O2O("O", "J", 1, 1)}),
   Typed({E2O("a", "J", 1, None), Signature("a", "r", "J", 0, 1)}, {O2O("J", "J", 0, 1), O2O("J", "O", 0, None)}),
   Typed({E2O("a", "O", 2, 2), E2O("b", "O", 0, None), E2O("b", "J", 0, None)}, {})}

\* An attribute of two types, one declared twice, and types nobody declared.
Plain == Typed({E2O("a", "J", 0, 1)}, {})

MCSchemas ==
  LegalSchemas \union
  {[Plain EXCEPT !.events.b = <<Attribute("x", "count")>>],
   [Plain EXCEPT !.objects.O = <<Attribute("v", "count"), Attribute("v", "binary")>>],
   [Plain EXCEPT !.e2o = {E2O("c", "J", 0, 1)}],
   [Plain EXCEPT !.lifecycles = {[object |-> "J", before |-> "a", after |-> "d"]}]}

Event(id, support, lo, hi) == [id |-> id, support |-> support, lo |-> lo, hi |-> hi]
Object(id, type, from, to) == [id |-> id, type |-> type, from |-> from, to |-> to]
Link(source, target) == [source |-> source, qualifier |-> "q", target |-> target]

MCEvents ==
  {Event("e1", {"a", "b"}, 0, 1), Event("e1", {"a"}, 1, 2), Event("e2", {"a", "b"}, 2, 2),
   Event("e2", {"b"}, 0, 0)}

MCObjects ==
  {Object("o1", "J", 0, 1), Object("o1", "O", 0, 2), Object("o2", "J", 0, 2), Object("o2", "O", 1, 1)}

MCLinks == {Link("o1", "o2"), Link("o2", "o1"), Link("o2", "o2")}

Bound(before, after, role) ==
  [object |-> "o2", first |-> "e1", second |-> "e2", qualifier |-> "q",
   before |-> before, after |-> after, role |-> role]

MCBindings == {Bound(1, 0, role) : role \in {"support", "descriptive", "normative"}} \union
              {Bound(0, 1, "support")}

Option(definitional, cardinality, classification, scale, bindings) ==
  [definitional |-> definitional, cardinality |-> cardinality, scale |-> scale,
   classification |-> classification, bindings |-> bindings]

MCOptions ==
  {Option(TRUE, TRUE, c, TRUE, {}) : c \in {"normative", "descriptive", "support", None}}
    \union {Option(TRUE, TRUE, "support", FALSE, {b}) : b \in MCBindings}
    \union {Option(TRUE, FALSE, "support", FALSE, {}), Option(TRUE, TRUE, "descriptive", FALSE, {}),
            Option(FALSE, TRUE, "support", TRUE, {})}

\* Variables of several families, one of them registered as three things.
MCCallers ==
  {Binary(LinkRef("e2o", "e1", "q", "o1")), Binary(Ref("event_exists", "e1")), Continuous(Ref("event_time", "e1")),
   Continuous(AttrRef("object_attr", "o1", "w")), Variable(Ref("event_type", "e1"), "categorical", 1)}
    \union {Variable(Ref("event_type", "e1"), kind, n) : kind \in {"categorical", "binary"}, n \in {2, 3}}

\* One entity, a link, two entities, and something that is not registered.
MCClaims ==
  {<<Ref("event_exists", "e1")>>, <<LinkRef("e2o", "e1", "q", "o2"), Ref("event_time", "e2")>>,
   <<Ref("object_exists", "o1"), Ref("object_exists", "o3")>>}

\* Two and three states, and weights that are refused.
MCDistributions == {<<1, 2>>, <<3, 1>>, <<2, 1, 1>>, <<0, 0>>}
MCMoments == {[mean |-> 1, var |-> 2], [mean |-> 1, var |-> 0]}

\* Evidence for what is registered, or not, or in part.
MCAttached ==
  {Ref("event_exists", "e1") :> 2, Ref("event_exists", "e2") :> 2,
   Ref("event_exists", "e1") :> 0 @@ Ref("object_exists", "o3") :> 3 @@ LinkRef("e2o", "e1", "q", "o1") :> 3}
=============================================================================
