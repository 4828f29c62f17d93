----------------------- MODULE HistoryGroundingProofs -----------------------
(***************************************************************************)
(* Grounding neither loses nor adds a history, for every schema, every     *)
(* universe and every classification of its constraints; the registry of a *)
(* universe has each reference its candidates leave open once, at an index *)
(* of its own; active_refs() finds what is within its hops; and a belief   *)
(* decides by its own evidence.                                            *)
(***************************************************************************)
EXTENDS BeliefState, SequenceTheorems, WellFoundedInduction, FiniteSetTheorems, TLAPS

\* The builder holds what may be added, the universe is made of it, and a
\* model is the structure of its options.
Known ==
  /\ schema \in Schemas
  /\ \A e \in DOMAIN events : events[e] \in EventChoices
  /\ \A o \in DOMAIN objects : objects[o] \in ObjectChoices

IsCandidate(e, s, o) ==
  [event |-> e, qualifier |-> s.qualifier, object |-> o] \in universe.e2o

Grounded ==
  universe # None =>
    /\ \A e \in DOMAIN universe.events : universe.events[e] \in EventChoices
    /\ \A o \in DOMAIN universe.objects : universe.objects[o] \in ObjectChoices
    /\ \A l \in universe.e2o :
         l.event \in DOMAIN universe.events /\ l.object \in DOMAIN universe.objects
    /\ \A e \in DOMAIN universe.events, o \in DOMAIN universe.objects, s \in schema.e2o :
         /\ s.type \in universe.events[e].support
         /\ s.object = TypeOf(o)
         /\ Overlaps(universe.events[e], universe.objects[o])
         => IsCandidate(e, s, o)

Structured ==
  model # None => universe # None /\ model.factors = Structure(model.options)

GroundingInv == Known /\ Grounded /\ Structured

-----------------------------------------------------------------------------
\* An empty builder knows only its schema.
THEOREM GroundingInit == Init => GroundingInv
BY DEF Init, GroundingInv, Known, Grounded, Structured

LEMMA WithKeeps ==
  ASSUME NEW Values, NEW f, NEW c \in Values, \A i \in DOMAIN f : f[i] \in Values
  PROVE  \A i \in DOMAIN With(f, c) : With(f, c)[i] \in Values
BY DEF With

LEMMA SurvivorsAreCandidates ==
  ASSUME NEW prune \in BOOLEAN
  PROVE  /\ \A l \in Survivors(prune) : l.event \in DOMAIN events /\ l.object \in DOMAIN objects
         /\ \A e \in DOMAIN events, o \in DOMAIN objects, s \in schema.e2o :
              /\ s.type \in events[e].support
              /\ s.object = objects[o].type
              /\ Overlaps(events[e], objects[o])
              => [event |-> e, qualifier |-> s.qualifier, object |-> o] \in Survivors(prune)
<1> DEFINE Good == {x \in (DOMAIN events) \X schema.e2o \X (DOMAIN objects) :
                      /\ x[2].type \in events[x[1]].support
                      /\ x[2].object = objects[x[3]].type
                      /\ prune => Overlaps(events[x[1]], objects[x[3]])}
           LinkOf(x) == [event |-> x[1], qualifier |-> x[2].qualifier, object |-> x[3]]
<1>1. Survivors(prune) = {LinkOf(x) : x \in Good}
  BY DEF Survivors
<1>2. ASSUME NEW l \in Survivors(prune)
      PROVE  l.event \in DOMAIN events /\ l.object \in DOMAIN objects
  <2>1. PICK x \in Good : l = LinkOf(x)
    BY <1>1
  <2>2. x[1] \in DOMAIN events /\ x[3] \in DOMAIN objects
    OBVIOUS
  <2> QED
    BY <2>1, <2>2
<1>3. ASSUME NEW e \in DOMAIN events, NEW o \in DOMAIN objects, NEW s \in schema.e2o,
             s.type \in events[e].support, s.object = objects[o].type,
             Overlaps(events[e], objects[o])
      PROVE  [event |-> e, qualifier |-> s.qualifier, object |-> o] \in Survivors(prune)
  <2>1. <<e, s, o>> \in Good
    BY <1>3
  <2>2. LinkOf(<<e, s, o>>) = [event |-> e, qualifier |-> s.qualifier, object |-> o]
    OBVIOUS
  <2> HIDE DEF Good, LinkOf
  <2> QED
    BY <1>1, <2>1, <2>2
<1> QED
  BY <1>2, <1>3

\* Adding, building and grounding each keep what is known: build() copies the
\* candidates it was told of, _structure() changes neither.
THEOREM GroundingStep == GroundingInv /\ [Next]_vars => GroundingInv'
<1> SUFFICES ASSUME GroundingInv, [Next]_vars PROVE GroundingInv'
  OBVIOUS
<1> USE DEF GroundingInv
<1>1. ASSUME NEW c \in EventChoices, AddEvent(c) PROVE GroundingInv'
  <2>1. \A i \in DOMAIN events' : events'[i] \in EventChoices
    BY <1>1, WithKeeps DEF AddEvent, Known
  <2>2. Known'
    BY <1>1, <2>1 DEF AddEvent, Known
  <2> QED
    BY <1>1, <2>2 DEF AddEvent, Building, Grounded, Structured
<1>2. ASSUME NEW c \in ObjectChoices, AddObject(c) PROVE GroundingInv'
  <2>1. \A i \in DOMAIN objects' : objects'[i] \in ObjectChoices
    BY <1>2, WithKeeps DEF AddObject, Known
  <2>2. Known'
    BY <1>2, <2>1 DEF AddObject, Known
  <2> QED
    BY <1>2, <2>2 DEF AddObject, Building, Grounded, Structured
<1>3. ASSUME NEW l \in LinkChoices, AddLink(l) PROVE GroundingInv'
  BY <1>3 DEF AddLink, Building, Known, Grounded, Structured
<1>4. ASSUME NEW prune \in BOOLEAN, Build(prune) PROVE GroundingInv'
  <2>1. Known' /\ model' = model /\ model = None
    BY <1>4 DEF Build, Building, builder, Known, Structured
  <2>2. CASE universe' = universe
    BY <1>4, <2>1, <2>2 DEF Build, Building, Grounded, Structured
  <2>3. CASE universe' = [events |-> events, objects |-> objects, e2o |-> Survivors(prune),
                          o2o |-> {l \in links : IsLegalO2O(l)}]
    <3>1. /\ universe'.events = events /\ universe'.objects = objects
          /\ universe'.e2o = Survivors(prune) /\ schema' = schema
      BY <1>4, <2>3 DEF Build, builder
    <3>2. Grounded'
      BY <3>1, SurvivorsAreCandidates DEF Grounded, Known, IsCandidate, TypeOf
    <3> QED
      BY <2>1, <3>2 DEF Structured
  <2> QED
    BY <1>4, <2>2, <2>3 DEF Build
<1>5. ASSUME NEW o \in Options, Ground(o) PROVE GroundingInv'
  <2>1. Known' /\ Grounded'
    BY <1>5 DEF Ground, builder, Known, Grounded, IsCandidate, TypeOf
  <2>2. CASE model' = model
    BY <1>5, <2>1, <2>2 DEF Ground, Structured
  <2>3. CASE model' = [options |-> o, factors |-> Structure(o)]
    <3>1. model'.options = o /\ model'.factors = Structure(o) /\ universe # None
      BY <1>5, <2>3 DEF Ground
    <3>2. Structure(o)' = Structure(o)
      BY <1>5 DEF Ground, builder, Structure, TypePresence, Integrity, Legality, Multiplicities,
         E2OCardinality, O2OCardinality, Precedence, Groups, CandidateGroups, EmptyGroups, InGroup,
         From, TypeOf, End
    <3> QED
      BY <1>5, <2>1, <3>1, <3>2 DEF Ground, Structured
  <2> QED
    BY <1>5, <2>2, <2>3 DEF Ground
<1>6. CASE UNCHANGED vars
  BY <1>6 DEF vars, builder, Known, Grounded, Structured, IsCandidate, TypeOf,
     Structure, TypePresence, Integrity, Legality, Multiplicities,
     E2OCardinality, O2OCardinality, Precedence, Groups, CandidateGroups, EmptyGroups, InGroup,
     From, End
<1> QED
  BY <1>1, <1>2, <1>3, <1>4, <1>5, <1>6 DEF Next

\* The inductive invariant of grounding, from UniverseBuilder to _structure().
THEOREM GroundingAlways == Spec => []GroundingInv
BY GroundingInit, GroundingStep, PTL DEF Spec

\* Pruning keeps every link that some type declares and some time permits.
LEMMA CandidatesArePossible == GroundingInv => PossibleIsCandidate
<1> SUFFICES ASSUME GroundingInv, universe # None,
                    NEW e \in DOMAIN universe.events, NEW o \in DOMAIN universe.objects,
                    NEW s \in schema.e2o, s.type \in universe.events[e].support,
                    s.object = TypeOf(o), NEW t \in Times,
                    universe.events[e].lo <= t, t <= universe.events[e].hi,
                    universe.objects[o].from <= t, t <= universe.objects[o].to
             PROVE  IsCandidate(e, s, o)
  BY DEF PossibleIsCandidate, IsCandidate
<1>1. t \in Int /\ {universe.events[e].lo, universe.events[e].hi} \subseteq Int
      /\ {universe.objects[o].from, universe.objects[o].to} \subseteq Int
  BY GroundingAssumption DEF GroundingInv, Grounded
<1>2. Overlaps(universe.events[e], universe.objects[o])
  BY <1>1 DEF Overlaps
<1> QED
  BY <1>2 DEF GroundingInv, Grounded

\* For any universe, pruning by time takes away no link that its two ends could
\* share at some instant (prune_e2o, prune_o2o).
THEOREM GroundingPossibleIsCandidate == Spec => []PossibleIsCandidate
BY GroundingAlways, CandidatesArePossible, PTL

-----------------------------------------------------------------------------
(***************************************************************************)
(* The factors of a structure, family by family                            *)
(***************************************************************************)
Countable(o) == o.cardinality /\ o.classification = "support"

Scope(g) == {l \in universe.e2o : InGroup(g, l)}

DeclaredIn(g) == {s \in schema.e2o : s.qualifier = g.qualifier /\ s.object = g.object}

Gate(l) == {s.type : s \in {s \in schema.e2o :
                              s.qualifier = l.qualifier /\ s.object = TypeOf(l.object)}}

Presence(a) == \A e \in DOMAIN universe.events : a.exists[e] <=> a.type[e] # Inactive

Referential(a) == \A l \in universe.e2o : l \in a.e2o => a.exists[l.event]

Gated(a) == \A l \in universe.e2o : l \in a.e2o => a.type[l.event] \in Gate(l)

GroupsCounted(a) ==
  \A g \in Groups :
    LET type == a.type[g.event]
        n    == Cardinality(Scope(g) \intersect a.e2o)
    IN  IF type # Inactive /\ \E s \in DeclaredIn(g) : s.type = type
        THEN \A s \in DeclaredIn(g) : s.type = type => InBounds(s, n)
        ELSE n = 0

ObjectsCounted(a) ==
  \A o \in DOMAIN universe.objects, s \in schema.o2o :
    s.source = TypeOf(o) =>
      InBounds(s, Cardinality({l \in universe.o2o : From(o, s, l)} \intersect a.o2o))

Ordered(a, bindings) ==
  \A b \in bindings :
    b.role = "support" /\ {End(b, b.first), End(b, b.second)} \subseteq a.e2o => b.before <= b.after

LEMMA PresenceFactors ==
  ASSUME NEW a
  PROVE  (\A f \in TypePresence : f.role = "support" => Admits(f, a)) <=> Presence(a)
<1>1. \A f \in TypePresence : /\ f.family = "type_presence" /\ f.role = "support"
                              /\ f.event \in DOMAIN universe.events
  BY DEF TypePresence
<1>2. \A e \in DOMAIN universe.events :
         [family |-> "type_presence", role |-> "support", event |-> e] \in TypePresence
  BY DEF TypePresence
<1> QED
  BY <1>1, <1>2 DEF Admits, Presence

LEMMA IntegrityFactors ==
  ASSUME NEW a
  PROVE  (\A f \in Integrity : f.role = "support" => Admits(f, a)) <=> Referential(a)
<1>1. \A f \in Integrity : f.family = "implication" /\ f.role = "support" /\ f.link \in universe.e2o
  BY DEF Integrity
<1>2. \A l \in universe.e2o :
         [family |-> "implication", role |-> "support", link |-> l] \in Integrity
  BY DEF Integrity
<1> QED
  BY <1>1, <1>2 DEF Admits, Referential

LEMMA LegalityFactors ==
  ASSUME NEW a
  PROVE  (\A f \in Legality : f.role = "support" => Admits(f, a)) <=> Gated(a)
<1> DEFINE GateOf(l) == [family |-> "type_gate", role |-> "support", link |-> l, allowed |-> Gate(l)]
<1>1. Legality = {GateOf(l) : l \in universe.e2o}
  BY DEF Legality, Gate
<1>2. ASSUME NEW l \in universe.e2o
      PROVE  /\ GateOf(l).role = "support"
             /\ Admits(GateOf(l), a) <=> (l \in a.e2o => a.type[l.event] \in Gate(l))
  BY DEF Admits
<1> HIDE DEF GateOf
<1> QED
  BY <1>1, <1>2 DEF Gated

LEMMA CardinalityFactors ==
  ASSUME NEW a
  PROVE  (\A f \in E2OCardinality("support") : f.role = "support" => Admits(f, a)) <=> GroupsCounted(a)
<1> DEFINE CountOf(g) == [family |-> "cardinality", role |-> "support", event |-> g.event,
                          links |-> Scope(g), bounds |-> DeclaredIn(g)]
<1>1. E2OCardinality("support") = {CountOf(g) : g \in Groups}
  BY DEF E2OCardinality, Scope, DeclaredIn
<1>2. ASSUME NEW g \in Groups
      PROVE  /\ CountOf(g).role = "support"
             /\ Admits(CountOf(g), a) <=>
                  CountAdmitted(CountOf(g), a.type[g.event], Cardinality(Scope(g) \intersect a.e2o))
             /\ CountOf(g).bounds = DeclaredIn(g)
  BY DEF Admits
<1> HIDE DEF CountOf
<1>3. ASSUME NEW g \in Groups
      PROVE  Admits(CountOf(g), a) <=>
               LET type == a.type[g.event]
                   n    == Cardinality(Scope(g) \intersect a.e2o)
               IN  IF type # Inactive /\ \E s \in DeclaredIn(g) : s.type = type
                   THEN \A s \in DeclaredIn(g) : s.type = type => InBounds(s, n)
                   ELSE n = 0
  BY <1>2 DEF CountAdmitted
<1> QED
  BY <1>1, <1>2, <1>3 DEF GroupsCounted

LEMMA CountFactors ==
  ASSUME NEW a
  PROVE  (\A f \in O2OCardinality("support") : f.role = "support" => Admits(f, a)) <=> ObjectsCounted(a)
<1> DEFINE Pairs == {x \in (DOMAIN universe.objects) \X schema.o2o : x[2].source = TypeOf(x[1])}
           LinksOf(x) == {l \in universe.o2o : From(x[1], x[2], l)}
           CountOf(x) == [family |-> "count", role |-> "support", bounds |-> x[2], source |-> x[1],
                          links |-> LinksOf(x)]
<1>1. O2OCardinality("support") = {CountOf(x) : x \in Pairs}
  BY DEF O2OCardinality
<1>2. ASSUME NEW x \in Pairs
      PROVE  /\ CountOf(x).role = "support"
             /\ Admits(CountOf(x), a) <=> InBounds(x[2], Cardinality(LinksOf(x) \intersect a.o2o))
  BY DEF Admits
<1>3. \A o \in DOMAIN universe.objects, s \in schema.o2o : s.source = TypeOf(o) => <<o, s>> \in Pairs
  OBVIOUS
<1>4. \A x \in Pairs : /\ x[1] \in DOMAIN universe.objects /\ x[2] \in schema.o2o
                       /\ x[2].source = TypeOf(x[1])
  OBVIOUS
<1>5. \A o \in DOMAIN universe.objects, s \in schema.o2o :
         LinksOf(<<o, s>>) = {l \in universe.o2o : From(o, s, l)}
  OBVIOUS
<1> HIDE DEF Pairs, CountOf
<1>6. ASSUME \A f \in O2OCardinality("support") : f.role = "support" => Admits(f, a)
      PROVE  ObjectsCounted(a)
  <2> SUFFICES ASSUME NEW o \in DOMAIN universe.objects, NEW s \in schema.o2o, s.source = TypeOf(o)
               PROVE  InBounds(s, Cardinality({l \in universe.o2o : From(o, s, l)} \intersect a.o2o))
    BY DEF ObjectsCounted
  <2>1. <<o, s>> \in Pairs
    BY <1>3
  <2>2. Admits(CountOf(<<o, s>>), a)
    BY <1>1, <1>2, <1>6, <2>1
  <2>3. InBounds(s, Cardinality(LinksOf(<<o, s>>) \intersect a.o2o))
    BY <1>2, <2>1, <2>2
  <2> QED
    BY <1>5, <2>3
<1>7. ASSUME ObjectsCounted(a), NEW f \in O2OCardinality("support")
      PROVE  Admits(f, a)
  <2>1. PICK x \in Pairs : f = CountOf(x)
    BY <1>1
  <2>2. InBounds(x[2], Cardinality(LinksOf(x) \intersect a.o2o))
    BY <1>4, <1>7 DEF ObjectsCounted
  <2> QED
    BY <1>2, <2>1, <2>2
<1> QED
  BY <1>6, <1>7

LEMMA PrecedenceFactors ==
  ASSUME NEW a, NEW bindings
  PROVE  (\A f \in Precedence(bindings) : f.role = "support" => Admits(f, a)) <=> Ordered(a, bindings)
<1> DEFINE OrderingOf(b) == [family |-> "precedence", role |-> b.role,
                          links |-> {End(b, b.first), End(b, b.second)},
                          before |-> b.before, after |-> b.after]
<1>1. Precedence(bindings) = {OrderingOf(b) : b \in {b \in bindings : b.role # "normative"}}
  BY DEF Precedence
<1>2. ASSUME NEW b \in bindings
      PROVE  /\ OrderingOf(b).role = b.role
             /\ Admits(OrderingOf(b), a) <=>
                  ({End(b, b.first), End(b, b.second)} \subseteq a.e2o => b.before <= b.after)
  BY DEF Admits
<1> HIDE DEF OrderingOf
<1> QED
  BY <1>1, <1>2 DEF Ordered

LEMMA SupportedParts ==
  ASSUME NEW a, model.factors = Structure(model.options)
  PROVE  Supported(a) <=>
           /\ Presence(a) /\ Referential(a) /\ Gated(a)
           /\ Countable(model.options) => GroupsCounted(a) /\ ObjectsCounted(a)
           /\ Ordered(a, model.options.bindings)
<1> DEFINE o == model.options
           Holds(F) == \A f \in F : f.role = "support" => Admits(f, a)
<1>1. Supported(a) <=> /\ Holds(TypePresence) /\ Holds(Integrity) /\ Holds(Legality)
                       /\ Holds(Multiplicities(o)) /\ Holds(Precedence(o.bindings))
  BY DEF Supported, Structure
<1>2. CASE Countable(o)
  <2>1. Multiplicities(o) = E2OCardinality("support") \union O2OCardinality("support")
    BY <1>2 DEF Countable, Multiplicities
  <2>2. Holds(Multiplicities(o)) <=>
          Holds(E2OCardinality("support")) /\ Holds(O2OCardinality("support"))
    BY <2>1
  <2> QED
    BY <1>1, <1>2, <2>2, PresenceFactors, IntegrityFactors, LegalityFactors, CardinalityFactors,
       CountFactors, PrecedenceFactors
<1>3. CASE ~ Countable(o)
  <2>1. ASSUME NEW f \in Multiplicities(o) PROVE f.role # "support"
    <3>1. o.cardinality /\ o.classification # "support"
      BY <1>3, <2>1 DEF Countable, Multiplicities
    <3>2. f \in E2OCardinality(o.classification) \union O2OCardinality(o.classification)
      BY <2>1 DEF Multiplicities
    <3>3. f.role = o.classification
      BY <3>2 DEF E2OCardinality, O2OCardinality
    <3> QED
      BY <3>1, <3>3
  <2>2. Holds(Multiplicities(o))
    BY <2>1
  <2> QED
    BY <1>1, <1>3, <2>2, PresenceFactors, IntegrityFactors, LegalityFactors, PrecedenceFactors
<1> QED
  BY <1>2, <1>3

-----------------------------------------------------------------------------
(***************************************************************************)
(* Candidates against the schema                                           *)
(***************************************************************************)
\* A world: what the invariant says of a universe that has been grounded.
World ==
  /\ universe # None
  /\ \A l \in universe.e2o :
       l.event \in DOMAIN universe.events /\ l.object \in DOMAIN universe.objects

LEMMA Decoded ==
  ASSUME NEW a \in Assignments
  PROVE  /\ a.e2o \subseteq universe.e2o /\ a.o2o \subseteq universe.o2o
         /\ Decode(a).e2o = a.e2o /\ Decode(a).o2o = a.o2o
         /\ DOMAIN Decode(a).type = Occurring(a)
         /\ \A e \in Occurring(a) : Decode(a).type[e] = a.type[e]
         /\ Occurring(a) \subseteq DOMAIN universe.events
         /\ \A e \in DOMAIN universe.events : e \in Occurring(a) <=> a.exists[e]
         /\ \A e \in DOMAIN universe.events : a.type[e] \in universe.events[e].support \union {Inactive}
BY DEF Assignments, Decode, Occurring

\* The links of an assignment are declared for the types of their events
\* exactly if integrity and the gates let them pass.
LEMMA LinksPass ==
  ASSUME World, NEW a \in Assignments
  PROVE  Referential(a) /\ Gated(a) <=> LinksDeclared(Decode(a))
<1>1. ASSUME NEW l
      PROVE  a.type[l.event] \in Gate(l) <=>
               \E s \in schema.e2o : s.type = a.type[l.event] /\ s.qualifier = l.qualifier
                                       /\ s.object = TypeOf(l.object)
  BY DEF Gate
<1>2. ASSUME NEW l \in a.e2o
      PROVE  /\ l \in universe.e2o
             /\ l.event \in DOMAIN Decode(a).type <=> a.exists[l.event]
             /\ a.exists[l.event] => Decode(a).type[l.event] = a.type[l.event]
  BY Decoded DEF World
<1>3. ASSUME Referential(a), Gated(a) PROVE LinksDeclared(Decode(a))
  <2> SUFFICES ASSUME NEW l \in a.e2o
               PROVE  /\ l.event \in DOMAIN Decode(a).type
                      /\ \E s \in schema.e2o :
                            s.type = Decode(a).type[l.event] /\ s.qualifier = l.qualifier
                              /\ s.object = TypeOf(l.object)
    BY Decoded DEF LinksDeclared
  <2>1. a.exists[l.event] /\ a.type[l.event] \in Gate(l)
    BY <1>2, <1>3 DEF Referential, Gated
  <2> QED
    BY <1>1, <1>2, <2>1
<1>4. ASSUME LinksDeclared(Decode(a)) PROVE Referential(a) /\ Gated(a)
  <2> SUFFICES ASSUME NEW l \in a.e2o PROVE a.exists[l.event] /\ a.type[l.event] \in Gate(l)
    BY DEF Referential, Gated
  <2>1. l.event \in DOMAIN Decode(a).type
    BY <1>4, Decoded DEF LinksDeclared
  <2>2. a.exists[l.event] /\ Decode(a).type[l.event] = a.type[l.event]
    BY <1>2, <2>1
  <2> QED
    BY <1>1, <1>4, <2>2, Decoded DEF LinksDeclared
<1> QED
  BY <1>3, <1>4

\* What the factor of a group counts is what the schema counts.
LEMMA SameLinks ==
  ASSUME NEW a \in Assignments, NEW e, NEW q, NEW t
  PROVE  Scope([event |-> e, qualifier |-> q, object |-> t]) \intersect a.e2o
           = {l \in a.e2o : l.event = e /\ l.qualifier = q /\ TypeOf(l.object) = t}
<1> DEFINE g == [event |-> e, qualifier |-> q, object |-> t]
<1>1. g.event = e /\ g.qualifier = q /\ g.object = t
  OBVIOUS
<1> HIDE DEF g
<1>2. Scope(g) \intersect a.e2o = {l \in a.e2o : l.event = e /\ l.qualifier = q /\ TypeOf(l.object) = t}
  BY <1>1, Decoded DEF Scope, InGroup
<1> QED
  BY <1>2 DEF g

LEMMA SameObjectLinks ==
  ASSUME NEW a \in Assignments, NEW o, NEW s
  PROVE  {l \in universe.o2o : From(o, s, l)} \intersect a.o2o = {l \in a.o2o : From(o, s, l)}
BY Decoded

\* Every type of an event has a group for each of its signatures, and every
\* group is one of an event and of a kind of link.
LEMMA GroupsCover ==
  ASSUME World
  PROVE  /\ \A g \in Groups : /\ g.event \in DOMAIN universe.events
                              /\ g = [event |-> g.event, qualifier |-> g.qualifier, object |-> g.object]
         /\ \A e \in DOMAIN universe.events, s \in schema.e2o :
              s.type \in universe.events[e].support =>
                [event |-> e, qualifier |-> s.qualifier, object |-> s.object] \in Groups
<1> DEFINE Pairs == {x \in (DOMAIN universe.events) \X schema.e2o :
                       x[2].type \in universe.events[x[1]].support}
           GroupOf(x) == [event |-> x[1], qualifier |-> x[2].qualifier, object |-> x[2].object]
<1>1. EmptyGroups = {GroupOf(x) : x \in Pairs}
  BY DEF EmptyGroups
<1>2. \A g \in CandidateGroups :
        /\ g.event \in DOMAIN universe.events
        /\ g = [event |-> g.event, qualifier |-> g.qualifier, object |-> g.object]
  BY DEF CandidateGroups, World
<1>3. \A x \in Pairs : x[1] \in DOMAIN universe.events
  OBVIOUS
<1>4. \A e \in DOMAIN universe.events, s \in schema.e2o :
        s.type \in universe.events[e].support => <<e, s>> \in Pairs
  OBVIOUS
<1>5. \A g \in EmptyGroups :
        /\ g.event \in DOMAIN universe.events
        /\ g = [event |-> g.event, qualifier |-> g.qualifier, object |-> g.object]
  BY <1>1, <1>3
<1>6. \A e, s : GroupOf(<<e, s>>) = [event |-> e, qualifier |-> s.qualifier, object |-> s.object]
  OBVIOUS
<1> HIDE DEF Pairs, GroupOf
<1>7. \A e \in DOMAIN universe.events, s \in schema.e2o :
        s.type \in universe.events[e].support =>
          [event |-> e, qualifier |-> s.qualifier, object |-> s.object] \in EmptyGroups
  BY <1>1, <1>4, <1>6
<1> QED
  BY <1>2, <1>5, <1>7 DEF Groups

Counted(a, e, s) ==
  Cardinality({l \in a.e2o : l.event = e /\ l.qualifier = s.qualifier /\ TypeOf(l.object) = s.object})

EventsCounted(a) ==
  \A e \in Occurring(a) : \A s \in schema.e2o :
    s.type = a.type[e] => InBounds(s, Counted(a, e, s))

\* Counting by groups of candidates is counting by events: links of events
\* that do not occur, or of types that declare none, are excluded already.
LEMMA GroupsCountEvents ==
  ASSUME World, NEW a \in Assignments, Presence(a), LinksDeclared(Decode(a))
  PROVE  GroupsCounted(a) <=> EventsCounted(a)
<1>1. ASSUME GroupsCounted(a) PROVE EventsCounted(a)
  <2> SUFFICES ASSUME NEW e \in Occurring(a), NEW s \in schema.e2o, s.type = a.type[e]
               PROVE  InBounds(s, Counted(a, e, s))
    BY DEF EventsCounted
  <2> DEFINE g == [event |-> e, qualifier |-> s.qualifier, object |-> s.object]
  <2>1. g.event = e /\ g.qualifier = s.qualifier /\ g.object = s.object
    OBVIOUS
  <2>2. Scope(g) \intersect a.e2o
          = {l \in a.e2o : l.event = e /\ l.qualifier = s.qualifier /\ TypeOf(l.object) = s.object}
    BY SameLinks
  <2> HIDE DEF g
  <2>3. /\ e \in DOMAIN universe.events /\ a.type[e] # Inactive
        /\ s.type \in universe.events[e].support
    BY Decoded DEF Presence
  <2>4. g \in Groups
    BY <2>3, GroupsCover DEF g
  <2>5. s \in DeclaredIn(g)
    BY <2>1 DEF DeclaredIn
  <2>6. InBounds(s, Cardinality(Scope(g) \intersect a.e2o))
    BY <1>1, <2>1, <2>3, <2>4, <2>5 DEF GroupsCounted
  <2> QED
    BY <2>2, <2>6 DEF Counted
<1>2. ASSUME EventsCounted(a), NEW g \in Groups
      PROVE  LET type == a.type[g.event]
                 n    == Cardinality(Scope(g) \intersect a.e2o)
             IN  IF type # Inactive /\ \E s \in DeclaredIn(g) : s.type = type
                 THEN \A s \in DeclaredIn(g) : s.type = type => InBounds(s, n)
                 ELSE n = 0
  <2> DEFINE n == Cardinality(Scope(g) \intersect a.e2o)
  <2>1. g.event \in DOMAIN universe.events
        /\ g = [event |-> g.event, qualifier |-> g.qualifier, object |-> g.object]
    BY GroupsCover
  <2>2. Scope(g) \intersect a.e2o
          = {l \in a.e2o : l.event = g.event /\ l.qualifier = g.qualifier /\ TypeOf(l.object) = g.object}
    BY <2>1, SameLinks
  <2>3. CASE a.type[g.event] # Inactive /\ \E s \in DeclaredIn(g) : s.type = a.type[g.event]
    <3>1. g.event \in Occurring(a)
      BY <2>1, <2>3, Decoded DEF Presence
    <3>2. ASSUME NEW s \in DeclaredIn(g), s.type = a.type[g.event] PROVE InBounds(s, n)
      <4>1. s \in schema.e2o /\ s.qualifier = g.qualifier /\ s.object = g.object
        BY DEF DeclaredIn
      <4>2. InBounds(s, Counted(a, g.event, s))
        BY <1>2, <3>1, <3>2, <4>1 DEF EventsCounted
      <4> QED
        BY <2>2, <4>1, <4>2 DEF Counted
    <3> QED
      BY <2>3, <3>2
  <2>4. CASE ~ (a.type[g.event] # Inactive /\ \E s \in DeclaredIn(g) : s.type = a.type[g.event])
    <3>1. ASSUME NEW l \in Scope(g) \intersect a.e2o PROVE FALSE
      <4>1. l \in a.e2o /\ l.event = g.event /\ l.qualifier = g.qualifier /\ TypeOf(l.object) = g.object
        BY <2>2
      <4>2. l.event \in Occurring(a)
        BY <4>1, Decoded DEF LinksDeclared
      <4>3. PICK s \in schema.e2o : s.type = a.type[g.event] /\ s.qualifier = g.qualifier
                                       /\ s.object = g.object
        BY <4>1, <4>2, Decoded DEF LinksDeclared
      <4>4. s \in DeclaredIn(g)
        BY <4>3 DEF DeclaredIn
      <4>5. a.type[g.event] # Inactive
        BY <2>1, <4>1, <4>2, Decoded DEF Presence
      <4> QED
        BY <2>4, <4>3, <4>4, <4>5
    <3>2. Scope(g) \intersect a.e2o = {}
      BY <3>1
    <3> QED
      BY <2>4, <3>2, FS_EmptySet
  <2> QED
    BY <2>3, <2>4
<1> QED
  BY <1>1, <1>2 DEF GroupsCounted

LEMMA CountsPass ==
  ASSUME World, NEW a \in Assignments, Presence(a), LinksDeclared(Decode(a))
  PROVE  GroupsCounted(a) /\ ObjectsCounted(a) <=> LinksCounted(Decode(a))
<1> DEFINE h == Decode(a)
<1>1. /\ h.e2o = a.e2o /\ h.o2o = a.o2o /\ DOMAIN h.type = Occurring(a)
      /\ \A e \in Occurring(a) : h.type[e] = a.type[e]
  BY Decoded
<1> HIDE DEF h
<1>2. EventsCounted(a) <=>
        \A e \in DOMAIN h.type : \A s \in schema.e2o :
          s.type = h.type[e] =>
            InBounds(s, Cardinality({l \in h.e2o : l.event = e /\ l.qualifier = s.qualifier
                                                     /\ TypeOf(l.object) = s.object}))
  BY <1>1 DEF EventsCounted, Counted
<1>3. \A o, s : {l \in universe.o2o : From(o, s, l)} \intersect a.o2o = {l \in h.o2o : From(o, s, l)}
  BY <1>1, SameObjectLinks
<1>4. ObjectsCounted(a) <=>
        \A o \in DOMAIN universe.objects : \A s \in schema.o2o :
          s.source = TypeOf(o) => InBounds(s, Cardinality({l \in h.o2o : From(o, s, l)}))
  BY <1>3 DEF ObjectsCounted
<1>5. LinksCounted(h) <=> EventsCounted(a) /\ ObjectsCounted(a)
  BY <1>2, <1>4 DEF LinksCounted
<1> QED
  BY <1>5, GroupsCountEvents DEF h

-----------------------------------------------------------------------------
LEMMA SupportIsLegalStatic == GroundingInv => SupportIsLegal
<1> SUFFICES ASSUME GroundingInv, model # None, NEW a \in Assignments
             PROVE  Supported(a) <=> Coherent(a) /\ LegalHistory(Decode(a))
  BY DEF SupportIsLegal
<1>1. World /\ model.factors = Structure(model.options)
  BY DEF GroundingInv, Grounded, Structured, World
<1>2. Coherent(a) <=> Presence(a)
  BY DEF Coherent, Presence
<1>3. EndsOrdered(Decode(a)) <=> Ordered(a, model.options.bindings)
  BY Decoded DEF EndsOrdered, Ordered
<1>4. Countable(model.options) <=>
        model.options.cardinality /\ model.options.classification = "support"
  BY DEF Countable
<1>5. LegalHistory(Decode(a)) <=>
        /\ LinksDeclared(Decode(a))
        /\ Countable(model.options) => LinksCounted(Decode(a))
        /\ Ordered(a, model.options.bindings)
  BY <1>3, <1>4 DEF LegalHistory
<1> QED
  BY <1>1, <1>2, <1>5, SupportedParts, LinksPass, CountsPass

\* The supported assignments of a grounded model are the legal histories of
\* its schema over its candidates.
THEOREM GroundingSupportIsLegal == Spec => []SupportIsLegal
BY GroundingAlways, SupportIsLegalStatic, PTL

-----------------------------------------------------------------------------
(***************************************************************************)
(* Counting, and what is put in some order                                 *)
(***************************************************************************)

\* A set of natural numbers has a least one.
LEMMA LeastCount ==
  ASSUME NEW S \in SUBSET Nat, S # {}
  PROVE  Min(S) \in S /\ \A n \in S : Min(S) <= n
<1>1. PICK m \in S : \A n \in S : ~ (<<n, m>> \in OpToRel(<, Nat))
  <2> DEFINE R == OpToRel(<, Nat)
  <2>1. IsWellFoundedOn(R, Nat)
    BY NatLessThanWellFounded
  <2> HIDE DEF R
  <2>2. PICK m \in S : \A n \in S : ~ (<<n, m>> \in R)
    BY <2>1, WFMin
  <2> QED
    BY <2>2 DEF R
<1>2. \A n \in S : ~ (n < m)
  BY <1>1 DEF OpToRel
<1>3. \A n \in S : m <= n
  BY <1>2
<1> QED
  BY <1>3 DEF Min

\* A set that has 0, and with each number the next, has all numbers.
LEMMA Counting ==
  ASSUME NEW S, 0 \in S, \A n \in Nat : n \in S => n + 1 \in S
  PROVE  Nat \subseteq S
<1> SUFFICES ASSUME Nat \ S # {} PROVE FALSE
  OBVIOUS
<1>1. PICK n \in Nat \ S : \A m \in Nat \ S : n <= m
  BY LeastCount
<1>2. n - 1 \in Nat /\ n - 1 \notin Nat \ S /\ n = (n - 1) + 1
  BY <1>1
<1> QED BY <1>1, <1>2

\* The same up to a bound.
LEMMA CountingTo ==
  ASSUME NEW n \in Nat, NEW S, 0 \in S, \A k \in 0..n - 1 : k \in S => k + 1 \in S
  PROVE  \A k \in 0..n : k \in S
<1> DEFINE U == {k \in Nat : k <= n => k \in S}
<1>1. 0 \in U /\ \A k \in Nat : k \in U => k + 1 \in U
  OBVIOUS
<1>2. Nat \subseteq U
  <2> HIDE DEF U
  <2> QED BY <1>1, Counting
<1> QED BY <1>2

\* A set of subsets of a finite set has them all if it has the empty one and, with
\* the rest of another without some element, that other.
LEMMA Removing ==
  ASSUME NEW S, IsFiniteSet(S), NEW P, {} \in P,
         \A t \in SUBSET S : t # {} => \E x \in t : t \ {x} \in P => t \in P
  PROVE  \A t \in SUBSET S : t \in P
<1> DEFINE Sizes == {n \in Nat : \A t \in SUBSET S : Cardinality(t) = n => t \in P}
<1>1. 0 \in Sizes
  BY FS_EmptySet, FS_Subset
<1>2. ASSUME NEW n \in Nat, n \in Sizes PROVE n + 1 \in Sizes
  <2> SUFFICES ASSUME NEW t \in SUBSET S, Cardinality(t) = n + 1 PROVE t \in P
    OBVIOUS
  <2>1. IsFiniteSet(t) /\ t # {}
    BY FS_Subset, FS_EmptySet
  <2>2. PICK x \in t : t \ {x} \in P => t \in P
    BY <2>1
  <2>3. Cardinality(t \ {x}) = Cardinality(t) - 1
    BY <2>1, FS_RemoveElement
  <2>4. Cardinality(t \ {x}) = n
    BY <2>3
  <2> QED BY <1>2, <2>2, <2>4
<1>3. Nat \subseteq Sizes
  <2> HIDE DEF Sizes
  <2> QED BY <1>1, <1>2, Counting
<1>4. \A t \in SUBSET S : Cardinality(t) \in Nat
  BY FS_Subset, FS_CardinalityType
<1> QED BY <1>3, <1>4

\* A finite set of numbers has a greatest one.
LEMMA MaxIn ==
  ASSUME NEW n \in Nat, NEW t \in SUBSET (1..n), t # {}
  PROVE  Max(t) \in t /\ \A x \in t : x <= Max(t)
<1>1. PICK d \in {n - x : x \in t} : \A e \in {n - x : x \in t} : d <= e
  <2>1. {n - x : x \in t} \subseteq Nat
    OBVIOUS
  <2>2. {n - x : x \in t} # {}
    OBVIOUS
  <2> QED BY <2>1, <2>2, LeastCount
<1>2. PICK x \in t : d = n - x
  BY <1>1
<1>3. ASSUME NEW y \in t PROVE x >= y
  <2>1. n - x <= n - y
    BY <1>1, <1>2
  <2> QED BY <2>1
<1> QED BY <1>3 DEF Max

LEMMA MaxPrefix == ASSUME NEW n \in Nat PROVE Max(1..n + 1) = n + 1
<1>1. PICK m \in Nat : m = n + 1
  OBVIOUS
<1>2. PICK t : t = 1..m
  OBVIOUS
<1>3. t \in SUBSET (1..m) /\ t # {} /\ m \in t
  BY <1>1, <1>2
<1>4. Max(t) \in t /\ m <= Max(t)
  BY <1>3, MaxIn
<1> QED BY <1>1, <1>2, <1>4

-----------------------------------------------------------------------------
IsOrder(s, S) == s \in Seq(S) /\ Range(s) = S /\ \A i, j \in 1..Len(s) : s[i] = s[j] => i = j

\* Each member of a finite set is in its order, once.
LEMMA Ordering == ASSUME NEW S, IsFiniteSet(S) PROVE IsOrder(InSomeOrder(S), S)
<1> DEFINE step(g) == [t \in SUBSET S |-> IF t = {} THEN <<>>
                         ELSE Append(g[t \ {CHOOSE x \in t : TRUE}], CHOOSE x \in t : TRUE)]
           order == CHOOSE g : g = step(g)
           Sizes == {n \in Nat : \E f : f = [t \in SUBSET S |-> f[t]]
                                    /\ \A t \in SUBSET S : Cardinality(t) <= n => f[t] = step(f)[t]}
<1>1. InSomeOrder(S) = order[S]
  BY Zenon DEF InSomeOrder, FoldSet, MapThenFoldSet
<1>2. \A t \in SUBSET S : IsFiniteSet(t) /\ Cardinality(t) \in Nat /\ Cardinality(t) <= Cardinality(S)
                            /\ (Cardinality(t) = 0 <=> t = {})
  BY FS_Subset, FS_CardinalityType, FS_EmptySet
<1>3. 0 \in Sizes
  <2> DEFINE f == [t \in SUBSET S |-> <<>>]
  <2>1. f = [t \in SUBSET S |-> f[t]] /\ \A t \in SUBSET S : Cardinality(t) <= 0 => f[t] = step(f)[t]
    BY <1>2
  <2> QED BY <2>1
<1>4. ASSUME NEW n \in Nat, n \in Sizes PROVE n + 1 \in Sizes
  <2>1. PICK f : f = [t \in SUBSET S |-> f[t]] /\ \A t \in SUBSET S : Cardinality(t) <= n => f[t] = step(f)[t]
    BY <1>4
  <2> DEFINE g == [t \in SUBSET S |-> step(f)[t]]
  <2>2. ASSUME NEW t \in SUBSET S, Cardinality(t) <= n + 1 PROVE g[t] = step(g)[t]
    <3>1. CASE t = {}
      BY <3>1
    <3>2. CASE t # {}
      <4>1. PICK x : x = CHOOSE y \in t : TRUE
        OBVIOUS
      <4>2. x \in t /\ t \ {x} \in SUBSET S
        BY <3>2, <4>1
      <4>3. Cardinality(t \ {x}) <= n
        BY <1>2, <2>2, <4>2, FS_RemoveElement
      <4>4. g[t \ {x}] = f[t \ {x}]
        BY <2>1, <4>2, <4>3
      <4> QED BY <3>2, <4>1, <4>4
    <3> QED BY <3>1, <3>2
  <2>3. g = [t \in SUBSET S |-> g[t]]
    OBVIOUS
  <2>4. \E h : h = [t \in SUBSET S |-> h[t]] /\ \A t \in SUBSET S : Cardinality(t) <= n + 1 => h[t] = step(h)[t]
    <3> HIDE DEF g, step
    <3> QED BY <2>2, <2>3
  <2>5. n + 1 \in Nat
    OBVIOUS
  <2> HIDE DEF g, step
  <2> QED BY Zenon, <2>4, <2>5
<1>5. \E f : f = step(f)
  <2>1. Cardinality(S) \in Sizes
    <3> HIDE DEF Sizes
    <3> QED BY <1>2, <1>3, <1>4, Counting
  <2>2. PICK f : f = [t \in SUBSET S |-> f[t]] /\ \A t \in SUBSET S : f[t] = step(f)[t]
    BY <1>2, <2>1
  <2>3. step(f) = [t \in SUBSET S |-> step(f)[t]]
    OBVIOUS
  <2> HIDE DEF step
  <2> QED BY <2>2, <2>3
<1>6. order = step(order)
  <2> HIDE DEF step
  <2> QED BY <1>5
<1> DEFINE P == {t \in SUBSET S : IsOrder(order[t], t)}
<1> HIDE DEF order
<1>7. {} \in P
  <2>1. order[{}] = <<>>
    BY <1>6
  <2>2. <<>> \in Seq({}) /\ Len(<<>>) = 0 /\ Range(<<>>) = {}
    BY EmptySeq DEF Range
  <2>3. IsOrder(<<>>, {})
    BY <2>2 DEF IsOrder
  <2> QED BY <2>1, <2>3
<1>8. ASSUME NEW t \in SUBSET S, t # {} PROVE \E x \in t : t \ {x} \in P => t \in P
  <2>1. PICK x : x = CHOOSE y \in t : TRUE
    OBVIOUS
  <2>2. x \in t /\ order[t] = Append(order[t \ {x}], x)
    BY <1>6, <1>8, <2>1
  <2>3. ASSUME IsOrder(order[t \ {x}], t \ {x}) PROVE IsOrder(order[t], t)
    <3>1. PICK s : s = order[t \ {x}]
      OBVIOUS
    <3>2. s \in Seq(t \ {x}) /\ s \in Seq(t) /\ Range(s) = t \ {x} /\ Len(s) \in Nat /\ DOMAIN s = 1..Len(s)
      BY <2>3, <3>1, SeqMonotonic DEF IsOrder
    <3>3. PICK u : u = Append(s, x)
      OBVIOUS
    <3>4. /\ u \in Seq(t) /\ Len(u) = Len(s) + 1 /\ DOMAIN u = 1..Len(s) + 1
          /\ \A i \in 1..Len(s) : u[i] = s[i] /\ s[i] \in t \ {x}
          /\ u[Len(s) + 1] = x
      BY <2>2, <3>2, <3>3, AppendProperties
    <3>5. Range(u) = t
      BY <2>2, <3>2, <3>4 DEF Range
    <3>6. \A i, j \in 1..Len(s) : s[i] = s[j] => i = j
      BY <2>3, <3>1 DEF IsOrder
    <3>7. ASSUME NEW i \in 1..Len(s) + 1, NEW j \in 1..Len(s) + 1, u[i] = u[j] PROVE i = j
      <4>1. (i \in 1..Len(s) \/ i = Len(s) + 1) /\ (j \in 1..Len(s) \/ j = Len(s) + 1)
        BY <3>2
      <4> QED BY <3>4, <3>6, <3>7, <4>1
    <3>8. IsOrder(u, t)
      BY <3>4, <3>5, <3>7 DEF IsOrder
    <3> QED BY <2>2, <3>1, <3>3, <3>8
  <2> QED BY <2>2, <2>3
<1>9. S \in P
  <2> HIDE DEF P
  <2> QED BY SMTT(30), ZenonT(30), <1>7, <1>8, Removing
<1> QED BY <1>1, <1>9

-----------------------------------------------------------------------------
(***************************************************************************)
(* Sequences that are put together of others                               *)
(***************************************************************************)

\* What a sequence of sequences is put together to, from the first on.
LEMMA Flattening ==
  ASSUME NEW ss, NEW n \in Nat \ {0}, Len(ss) = n
  PROVE  \E f : FlattenSeq(ss) = f[n] /\ f[1] = ss[1] /\ \A i \in 1..n - 1 : f[i + 1] = f[i] \o ss[i + 1]
<1> DEFINE step(g) == [i \in 1..Len(ss) |-> IF i = 1 THEN ss[i] ELSE g[i - 1] \o ss[i]]
           flat == CHOOSE g : g = step(g)
           Parts == {m \in 0..n : \E f : f = [i \in 1..n |-> f[i]] /\ \A i \in 1..m : f[i] = step(f)[i]}
<1>1. FlattenSeq(ss) = flat[Len(ss)]
  <2>1. Len(ss) # 0
    OBVIOUS
  <2> QED BY <2>1, Zenon DEF FlattenSeq
<1>2. 0 \in Parts
  <2> DEFINE f == [i \in 1..n |-> <<>>]
  <2>1. f = [i \in 1..n |-> f[i]] /\ \A i \in 1..0 : f[i] = step(f)[i]
    OBVIOUS
  <2>2. 0 \in 0..n
    OBVIOUS
  <2> HIDE DEF step
  <2> QED BY <2>1, <2>2
<1>3. ASSUME NEW m \in 0..n - 1, m \in Parts PROVE m + 1 \in Parts
  <2>1. PICK f : f = [i \in 1..n |-> f[i]] /\ \A i \in 1..m : f[i] = step(f)[i]
    BY <1>3
  <2> DEFINE g == [i \in 1..n |-> step(f)[i]]
  <2>2. ASSUME NEW i \in 1..m + 1 PROVE g[i] = step(g)[i]
    <3>1. i \in 1..n /\ (i # 1 => i - 1 \in 1..m /\ i - 1 \in 1..n)
      OBVIOUS
    <3>2. i # 1 => g[i - 1] = f[i - 1]
      BY <2>1, <3>1
    <3> QED BY <3>1, <3>2
  <2>3. g = [i \in 1..n |-> g[i]]
    OBVIOUS
  <2>4. \E h : h = [i \in 1..n |-> h[i]] /\ \A i \in 1..m + 1 : h[i] = step(h)[i]
    <3> HIDE DEF g, step
    <3> QED BY <2>2, <2>3
  <2>5. m + 1 \in 0..n
    OBVIOUS
  <2> HIDE DEF g, step
  <2> QED BY Zenon, <2>4, <2>5
<1>4. \E f : f = step(f)
  <2>1. n \in Parts
    <3> HIDE DEF Parts
    <3>1. n \in Nat /\ n \in 0..n
      OBVIOUS
    <3>2. \A k \in 0..n : k \in Parts
      BY <1>2, <1>3, <3>1, CountingTo
    <3> QED BY <3>1, <3>2
  <2>2. PICK f : f = [i \in 1..n |-> f[i]] /\ \A i \in 1..n : f[i] = step(f)[i]
    BY <2>1
  <2>3. step(f) = [i \in 1..n |-> step(f)[i]]
    OBVIOUS
  <2> HIDE DEF step
  <2> QED BY <2>2, <2>3
<1>5. flat = step(flat)
  <2> HIDE DEF step
  <2> QED BY <1>4
<1> HIDE DEF flat
<1>6. flat[1] = ss[1] /\ \A i \in 1..n - 1 : flat[i + 1] = flat[i] \o ss[i + 1]
  <2>1. flat = [i \in 1..n |-> IF i = 1 THEN ss[i] ELSE flat[i - 1] \o ss[i]]
    BY <1>5
  <2>2. ASSUME NEW i \in 1..n - 1 PROVE flat[i + 1] = flat[i] \o ss[i + 1]
    <3>1. i + 1 \in 1..n /\ i + 1 # 1 /\ (i + 1) - 1 = i
      OBVIOUS
    <3> QED BY <2>1, <3>1
  <2>3. 1 \in 1..n
    OBVIOUS
  <2> QED BY <2>1, <2>2, <2>3
<1> QED BY <1>1, <1>6

\* Where the members of a sequence stand in those it is put together of: the
\* number of the part, and the place in that.
Laid(s, ss, m, p) ==
  /\ p \in [1..Len(s) -> (1..m) \X Nat]
  /\ \A x \in 1..Len(s) : p[x][2] \in 1..Len(ss[p[x][1]]) /\ s[x] = ss[p[x][1]][p[x][2]]
  /\ \A x, y \in 1..Len(s) : x < y => p[x][1] < p[y][1] \/ (p[x][1] = p[y][1] /\ p[x][2] < p[y][2])
  /\ \A k \in 1..m : \A j \in 1..Len(ss[k]) : \E x \in 1..Len(s) : p[x] = <<k, j>>

LEMMA LaidOut ==
  ASSUME NEW T, NEW s \in Seq(T), NEW m \in Nat, NEW ss, NEW p, Laid(s, ss, m, p), ss[m + 1] \in Seq(T)
  PROVE  \E q : Laid(s \o ss[m + 1], ss, m + 1, q)
<1>1. PICK u : u = ss[m + 1]
  OBVIOUS
<1>2. PICK r : r = s \o u
  OBVIOUS
<1>3. PICK n : n = Len(s)
  OBVIOUS
<1>4. /\ n \in Nat /\ Len(u) \in Nat /\ Len(r) = n + Len(u)
      /\ \A i \in 1..n : r[i] = s[i]
      /\ \A i \in 1..Len(r) : i \notin 1..n => i - n \in 1..Len(u) /\ r[i] = u[i - n]
      /\ \A j \in 1..Len(u) : n + j \in 1..Len(r) /\ n + j \notin 1..n
  BY <1>1, <1>2, <1>3, ConcatProperties, LenProperties
<1> DEFINE q == [x \in 1..Len(r) |-> IF x \in 1..n THEN p[x] ELSE <<m + 1, x - n>>]
<1>5. \A x \in 1..n : /\ x \in 1..Len(r) /\ q[x] = p[x] /\ p[x] = <<p[x][1], p[x][2]>>
                      /\ p[x][1] \in 1..m /\ p[x][2] \in Nat
                      /\ p[x][2] \in 1..Len(ss[p[x][1]]) /\ s[x] = ss[p[x][1]][p[x][2]]
  BY SMTT(30), ZenonT(30), <1>3, <1>4 DEF Laid
<1>6. \A x \in 1..Len(r) : x \notin 1..n => q[x] = <<m + 1, x - n>> /\ x - n \in Nat
  BY <1>4
<1>7. q = [x \in 1..Len(r) |-> q[x]]
  OBVIOUS
<1> HIDE DEF q
<1>8. ASSUME NEW x \in 1..Len(r) PROVE q[x] \in (1..m + 1) \X Nat
  <2>1. CASE x \in 1..n
    <3>1. PICK a, b : q[x] = <<a, b>> /\ a \in 1..m /\ b \in Nat
      BY <1>5, <2>1
    <3> QED BY <3>1
  <2>2. CASE x \notin 1..n
    <3>1. m + 1 \in 1..m + 1
      OBVIOUS
    <3>2. PICK a, b : q[x] = <<a, b>> /\ a \in 1..m + 1 /\ b \in Nat
      BY <1>6, <2>2, <3>1
    <3> QED BY <3>2
  <2> QED BY <2>1, <2>2
<1>9. q \in [1..Len(r) -> (1..m + 1) \X Nat]
  BY <1>7, <1>8
<1>10. ASSUME NEW x \in 1..Len(r)
       PROVE  q[x][2] \in 1..Len(ss[q[x][1]]) /\ r[x] = ss[q[x][1]][q[x][2]]
  <2>1. CASE x \in 1..n
    BY <1>4, <1>5, <2>1
  <2>2. CASE x \notin 1..n
    <3>1. q[x][1] = m + 1 /\ q[x][2] = x - n /\ x - n \in 1..Len(u) /\ r[x] = u[x - n]
      BY <1>4, <1>6, <2>2
    <3> QED BY <1>1, <3>1
  <2> QED BY <2>1, <2>2
<1>11. ASSUME NEW x \in 1..Len(r), NEW y \in 1..Len(r), x < y
       PROVE  q[x][1] < q[y][1] \/ (q[x][1] = q[y][1] /\ q[x][2] < q[y][2])
  <2>1. CASE y \in 1..n
    <3>1. x \in 1..n
      BY <1>4, <1>11, <2>1
    <3>2. p[x][1] < p[y][1] \/ (p[x][1] = p[y][1] /\ p[x][2] < p[y][2])
      BY <1>3, <1>11, <2>1, <3>1 DEF Laid
    <3> QED BY <1>5, <2>1, <3>1, <3>2
  <2>2. CASE y \notin 1..n /\ x \in 1..n
    BY SMTT(30), ZenonT(30), <1>5, <1>6, <2>2
  <2>3. CASE y \notin 1..n /\ x \notin 1..n
    BY <1>4, <1>6, <1>11, <2>3
  <2> QED BY <2>1, <2>2, <2>3
<1>12. ASSUME NEW k \in 1..m + 1, NEW j \in 1..Len(ss[k]) PROVE \E x \in 1..Len(r) : q[x] = <<k, j>>
  <2>1. CASE k \in 1..m
    <3>1. PICK x \in 1..n : p[x] = <<k, j>>
      BY <1>3, <1>12, <2>1 DEF Laid
    <3> QED BY <1>5, <3>1
  <2>2. CASE k = m + 1
    <3>1. j \in 1..Len(u)
      BY <1>1, <1>12, <2>2
    <3>2. n + j \in 1..Len(r) /\ n + j \notin 1..n /\ (n + j) - n = j
      BY <1>4, <3>1
    <3> QED BY <1>6, <2>2, <3>2
  <2> QED BY <2>1, <2>2
<1>13. Laid(r, ss, m + 1, q)
  BY <1>9, <1>10, <1>11, <1>12 DEF Laid
<1> QED BY <1>1, <1>2, <1>13

AreParts(ss, n, T) ==
  /\ DOMAIN ss = 1..n /\ Len(ss) = n /\ (n = 0 => ss = <<>>)
  /\ \A i \in 1..n : ss[i] \in Seq(T)

\* A sequence of sequences is put together to what each has, part after part.
LEMMA Flattened ==
  ASSUME NEW T, NEW n \in Nat, NEW ss, AreParts(ss, n, T)
  PROVE  FlattenSeq(ss) \in Seq(T) /\ \E p : Laid(FlattenSeq(ss), ss, n, p)
<1> USE DEF AreParts
<1>1. CASE n = 0
  <2>1. FlattenSeq(ss) = <<>>
    BY <1>1 DEF FlattenSeq
  <2>2. <<>> \in Seq(T) /\ Len(<<>>) = 0
    BY EmptySeq
  <2>3. Laid(<<>>, ss, 0, [x \in 1..0 |-> <<1, 1>>])
    BY <2>2 DEF Laid
  <2> QED BY <1>1, <2>1, <2>2, <2>3
<1>2. CASE n # 0
  <2>1. PICK f : FlattenSeq(ss) = f[n] /\ f[1] = ss[1] /\ \A i \in 1..n - 1 : f[i + 1] = f[i] \o ss[i + 1]
    <3>1. n \in Nat \ {0}
      BY <1>2
    <3> QED BY <3>1, Flattening
  <2> DEFINE Good == {k \in 0..n : k # 0 => f[k] \in Seq(T) /\ \E p : Laid(f[k], ss, k, p)}
  <2>2. 0 \in Good
    OBVIOUS
  <2>3. ASSUME NEW k \in 0..n - 1, k \in Good PROVE k + 1 \in Good
    <3>1. CASE k = 0
      <4>1. f[1] \in Seq(T) /\ f[1] = ss[1] /\ Len(ss[1]) \in Nat
        BY <1>2, <2>1, LenProperties
      <4> DEFINE p == [x \in 1..Len(ss[1]) |-> <<1, x>>]
      <4>2. \A x \in 1..Len(ss[1]) : p[x] = <<1, x>> /\ p[x][1] = 1 /\ p[x][2] = x /\ x \in Nat
        BY <4>1
      <4>3. p \in [1..Len(ss[1]) -> (1..1) \X Nat]
        BY <4>1
      <4> HIDE DEF p
      <4>4. PICK u : u = ss[1]
        OBVIOUS
      <4>5. \A h \in 1..1 : h = 1
        OBVIOUS
      <4>6. \A x \in 1..Len(u) : p[x][2] \in 1..Len(ss[p[x][1]]) /\ u[x] = ss[p[x][1]][p[x][2]]
        BY <4>2, <4>4
      <4>7. \A x, y \in 1..Len(u) : x < y => p[x][1] < p[y][1] \/ (p[x][1] = p[y][1] /\ p[x][2] < p[y][2])
        BY <4>2, <4>4
      <4>8. \A h \in 1..1 : \A j \in 1..Len(ss[h]) : \E x \in 1..Len(u) : p[x] = <<h, j>>
        BY <4>2, <4>4, <4>5
      <4>9. Laid(u, ss, 1, p)
        BY <4>3, <4>4, <4>6, <4>7, <4>8 DEF Laid
      <4>10. f[k + 1] \in Seq(T) /\ Laid(f[k + 1], ss, k + 1, p) /\ k + 1 \in 0..n
        BY <1>2, <3>1, <4>1, <4>4, <4>9
      <4> QED BY <4>10
    <3>2. CASE k # 0
      <4>1. PICK p : Laid(f[k], ss, k, p)
        BY <2>3, <3>2
      <4>2. /\ f[k] \in Seq(T) /\ ss[k + 1] \in Seq(T) /\ f[k + 1] = f[k] \o ss[k + 1]
            /\ k \in Nat /\ k + 1 \in 0..n
        <5>1. k \in Nat /\ k \in 1..n - 1 /\ k + 1 \in 1..n /\ k + 1 \in 0..n
          BY <3>2
        <5>2. f[k] \in Seq(T)
          BY <2>3, <3>2
        <5>3. ss[k + 1] \in Seq(T)
          BY <5>1
        <5>4. f[k + 1] = f[k] \o ss[k + 1]
          BY <2>1, <5>1
        <5> QED BY <5>1, <5>2, <5>3, <5>4
      <4>3. \E q : Laid(f[k + 1], ss, k + 1, q)
        BY SMTT(30), ZenonT(30), <4>1, <4>2, LaidOut
      <4>4. f[k + 1] \in Seq(T)
        BY <4>2, ConcatProperties
      <4> QED BY <4>2, <4>3, <4>4
    <3> QED BY <3>1, <3>2
  <2>4. n \in Good
    <3> HIDE DEF Good
    <3>1. n \in 0..n
      OBVIOUS
    <3>2. \A k \in 0..n : k \in Good
      BY <2>2, <2>3, CountingTo
    <3> QED BY <3>1, <3>2
  <2> QED BY <1>2, <2>1, <2>4
<1> QED BY <1>1, <1>2

-----------------------------------------------------------------------------
(***************************************************************************)
(* Folds: variables that are added one by one, and hops                    *)
(***************************************************************************)

\* Variables are added one after the other.
LEMMA AddingAll ==
  ASSUME NEW vs, NEW n \in Nat, DOMAIN vs = 1..n
  PROVE  \E it : /\ it[0] = NewRegistry /\ AddedAll(vs) = it[n]
                 /\ \A k \in 0..n - 1 : it[k + 1] = Added(it[k], vs[k + 1])
<1> DEFINE D == (DOMAIN vs)
           step(g) == [t \in SUBSET (DOMAIN vs) |-> IF t = {} THEN NewRegistry ELSE Added(g[t \ {Max(t)}], vs[Max(t)])]
           fold == CHOOSE g : g = step(g)
           Sizes == {m \in Nat : \E f : f = [t \in SUBSET D |-> f[t]]
                                    /\ \A t \in SUBSET D : Cardinality(t) <= m => f[t] = step(f)[t]}
<1>1. AddedAll(vs) = fold[(DOMAIN vs)]
  BY Zenon DEF AddedAll, FoldLeft, MapThenFoldSet
<1>2. D = 1..n
  BY DEF D
<1> HIDE DEF D
<1>3. IsFiniteSet(D)
  BY <1>2, FS_Interval
<1>4. \A t \in SUBSET D : IsFiniteSet(t) /\ Cardinality(t) \in Nat /\ Cardinality(t) <= Cardinality(D)
                            /\ (Cardinality(t) = 0 <=> t = {}) /\ (t # {} => Max(t) \in t)
  BY <1>2, <1>3, FS_Subset, FS_CardinalityType, FS_EmptySet, MaxIn
<1>5. 0 \in Sizes
  <2> DEFINE f == [t \in SUBSET D |-> NewRegistry]
  <2>0. \A t \in SUBSET D : Cardinality(t) <= 0 => t = {}
    BY <1>4
  <2>1. f = [t \in SUBSET D |-> f[t]] /\ \A t \in SUBSET D : Cardinality(t) <= 0 => f[t] = step(f)[t]
    BY <2>0 DEF D
  <2> HIDE DEF f, step
  <2> QED BY <2>1
<1>6. ASSUME NEW m \in Nat, m \in Sizes PROVE m + 1 \in Sizes
  <2>1. PICK f : f = [t \in SUBSET D |-> f[t]] /\ \A t \in SUBSET D : Cardinality(t) <= m => f[t] = step(f)[t]
    BY <1>6
  <2> DEFINE g == [t \in SUBSET D |-> step(f)[t]]
  <2>2. ASSUME NEW t \in SUBSET D, Cardinality(t) <= m + 1 PROVE g[t] = step(g)[t]
    <3>1. CASE t = {}
      BY <3>1 DEF D
    <3>2. CASE t # {}
      <4>1. PICK x : x = Max(t)
        OBVIOUS
      <4>2. x \in t /\ t \ {x} \in SUBSET D
        BY <1>4, <3>2, <4>1
      <4>3. Cardinality(t \ {x}) <= m
        BY <1>4, <2>2, <4>2, FS_RemoveElement
      <4>4. g[t \ {x}] = f[t \ {x}]
        BY <2>1, <4>2, <4>3
      <4> QED BY <3>2, <4>1, <4>4 DEF D
    <3> QED BY <3>1, <3>2
  <2>3. g = [t \in SUBSET D |-> g[t]]
    OBVIOUS
  <2>4. \E h : h = [t \in SUBSET D |-> h[t]] /\ \A t \in SUBSET D : Cardinality(t) <= m + 1 => h[t] = step(h)[t]
    <3> HIDE DEF g, step
    <3> QED BY <2>2, <2>3
  <2>5. m + 1 \in Nat
    OBVIOUS
  <2> HIDE DEF g, step
  <2> QED BY Zenon, <2>4, <2>5
<1>7. \E f : f = step(f)
  <2>1. Cardinality(D) \in Sizes
    <3> HIDE DEF Sizes
    <3> QED BY <1>4, <1>5, <1>6, Counting
  <2>2. PICK f : f = [t \in SUBSET D |-> f[t]] /\ \A t \in SUBSET D : f[t] = step(f)[t]
    BY SMTT(30), ZenonT(30), <1>4, <2>1
  <2>3. step(f) = [t \in SUBSET D |-> step(f)[t]]
    BY DEF D
  <2> HIDE DEF step
  <2> QED BY <2>2, <2>3
<1>8. fold = step(fold)
  <2> HIDE DEF step
  <2> QED BY <1>7
<1> HIDE DEF fold
<1> DEFINE it == [k \in 0..n |-> fold[1..k]]
<1>9. it[0] = NewRegistry
  <2>1. 1..0 = {} /\ 0 \in 0..n
    OBVIOUS
  <2>2. fold[{}] = NewRegistry
    BY <1>8
  <2> QED BY <2>1, <2>2
<1>10. ASSUME NEW k \in 0..n - 1 PROVE it[k + 1] = Added(it[k], vs[k + 1])
  <2>1. PICK x : x = k + 1
    OBVIOUS
  <2>2. PICK t : t = 1..x
    OBVIOUS
  <2>3. /\ t \in SUBSET D /\ t # {} /\ Max(t) = x /\ t \ {x} = 1..k
        /\ k \in 0..n /\ x \in 0..n
    <3>1. k \in Nat /\ x \in 1..n /\ k \in 0..n /\ x \in 0..n
      BY <2>1
    <3>2. t \in SUBSET D /\ t # {}
      <4>1. x \in t /\ 1..x \subseteq 1..n
        BY <2>2, <3>1
      <4> QED BY <1>2, <2>2, <4>1
    <3>4. t \ {x} = 1..k
      BY <2>1, <2>2, <3>1
    <3>3. Max(t) = x
      BY <2>1, <2>2, <3>1, MaxPrefix
    <3> QED BY <3>1, <3>2, <3>3, <3>4
  <2>4. fold[t] = Added(fold[t \ {Max(t)}], vs[Max(t)])
    BY <1>8, <2>3 DEF D
  <2>5. it[k + 1] = fold[t] /\ it[k] = fold[t \ {x}]
    BY <2>1, <2>2, <2>3
  <2> HIDE DEF it
  <2> QED BY <2>1, <2>3, <2>4, <2>5
<1>11. it[n] = fold[D]
  BY <1>2
<1> HIDE DEF it
<1> QED BY <1>1, <1>9, <1>10, <1>11 DEF D

\* The references of a registry that touch some of those, and those that are
\* reached in so many hops.
Beside(reg, S) == {r \in DOMAIN reg.index : \E s \in S : Touches(r) \intersect Touches(s) # {}}

Reach(reg, claimed, hops) ==
  FoldLeft(LAMBDA S, i : S \union Beside(reg, S), Range(claimed) \intersect DOMAIN reg.index, [i \in 1..hops |-> i])

LEMMA WithinReach ==
  ASSUME NEW claimed, NEW hops PROVE Within(claimed, hops) = Reach(registry, claimed, hops)
BY Zenon DEF Within, Reach, Adjacent, Beside

\* What is reached with each hop.
Hopping(it, reg, claimed, hops) ==
  /\ it[0] = Range(claimed) \intersect DOMAIN reg.index /\ Reach(reg, claimed, hops) = it[hops]
  /\ \A k \in 0..hops - 1 : it[k + 1] = it[k] \union Beside(reg, it[k])

\* References are reached hop by hop.
LEMMA Spreading ==
  ASSUME NEW reg, NEW claimed, NEW hops \in Nat
  PROVE  \E it : Hopping(it, reg, claimed, hops)
<1> DEFINE D == (DOMAIN [i \in 1..hops |-> i])
           step(g) == [t \in SUBSET (DOMAIN [i \in 1..hops |-> i]) |-> IF t = {} THEN (Range(claimed) \intersect DOMAIN reg.index) ELSE g[t \ {Max(t)}] \union Beside(reg, g[t \ {Max(t)}])]
           fold == CHOOSE g : g = step(g)
           Sizes == {m \in Nat : \E f : f = [t \in SUBSET D |-> f[t]]
                                    /\ \A t \in SUBSET D : Cardinality(t) <= m => f[t] = step(f)[t]}
<1>1. Reach(reg, claimed, hops) = fold[(DOMAIN [i \in 1..hops |-> i])]
  BY Zenon DEF Reach, FoldLeft, MapThenFoldSet
<1>2. D = 1..hops
  BY DEF D
<1> HIDE DEF D
<1>3. IsFiniteSet(D)
  BY <1>2, FS_Interval
<1>4. \A t \in SUBSET D : IsFiniteSet(t) /\ Cardinality(t) \in Nat /\ Cardinality(t) <= Cardinality(D)
                            /\ (Cardinality(t) = 0 <=> t = {}) /\ (t # {} => Max(t) \in t)
  BY <1>2, <1>3, FS_Subset, FS_CardinalityType, FS_EmptySet, MaxIn
<1>5. 0 \in Sizes
  <2> DEFINE f == [t \in SUBSET D |-> (Range(claimed) \intersect DOMAIN reg.index)]
  <2>0. \A t \in SUBSET D : Cardinality(t) <= 0 => t = {}
    BY <1>4
  <2>1. f = [t \in SUBSET D |-> f[t]] /\ \A t \in SUBSET D : Cardinality(t) <= 0 => f[t] = step(f)[t]
    BY <2>0 DEF D
  <2> HIDE DEF f, step
  <2> QED BY <2>1
<1>6. ASSUME NEW m \in Nat, m \in Sizes PROVE m + 1 \in Sizes
  <2>1. PICK f : f = [t \in SUBSET D |-> f[t]] /\ \A t \in SUBSET D : Cardinality(t) <= m => f[t] = step(f)[t]
    BY <1>6
  <2> DEFINE g == [t \in SUBSET D |-> step(f)[t]]
  <2>2. ASSUME NEW t \in SUBSET D, Cardinality(t) <= m + 1 PROVE g[t] = step(g)[t]
    <3>1. CASE t = {}
      BY <3>1 DEF D
    <3>2. CASE t # {}
      <4>1. PICK x : x = Max(t)
        OBVIOUS
      <4>2. x \in t /\ t \ {x} \in SUBSET D
        BY <1>4, <3>2, <4>1
      <4>3. Cardinality(t \ {x}) <= m
        BY <1>4, <2>2, <4>2, FS_RemoveElement
      <4>4. g[t \ {x}] = f[t \ {x}]
        BY <2>1, <4>2, <4>3
      <4> QED BY <3>2, <4>1, <4>4 DEF D
    <3> QED BY <3>1, <3>2
  <2>3. g = [t \in SUBSET D |-> g[t]]
    OBVIOUS
  <2>4. \E h : h = [t \in SUBSET D |-> h[t]] /\ \A t \in SUBSET D : Cardinality(t) <= m + 1 => h[t] = step(h)[t]
    <3> HIDE DEF g, step
    <3> QED BY <2>2, <2>3
  <2>5. m + 1 \in Nat
    OBVIOUS
  <2> HIDE DEF g, step
  <2> QED BY Zenon, <2>4, <2>5
<1>7. \E f : f = step(f)
  <2>1. Cardinality(D) \in Sizes
    <3> HIDE DEF Sizes
    <3> QED BY <1>4, <1>5, <1>6, Counting
  <2>2. PICK f : f = [t \in SUBSET D |-> f[t]] /\ \A t \in SUBSET D : f[t] = step(f)[t]
    BY SMTT(30), ZenonT(30), <1>4, <2>1
  <2>3. step(f) = [t \in SUBSET D |-> step(f)[t]]
    BY DEF D
  <2> HIDE DEF step
  <2> QED BY <2>2, <2>3
<1>8. fold = step(fold)
  <2> HIDE DEF step
  <2> QED BY <1>7
<1> HIDE DEF fold
<1> DEFINE it == [k \in 0..hops |-> fold[1..k]]
<1>9. it[0] = (Range(claimed) \intersect DOMAIN reg.index)
  <2>1. 1..0 = {} /\ 0 \in 0..hops
    OBVIOUS
  <2>2. fold[{}] = (Range(claimed) \intersect DOMAIN reg.index)
    BY <1>8
  <2> QED BY <2>1, <2>2
<1>10. ASSUME NEW k \in 0..hops - 1 PROVE it[k + 1] = it[k] \union Beside(reg, it[k])
  <2>1. PICK x : x = k + 1
    OBVIOUS
  <2>2. PICK t : t = 1..x
    OBVIOUS
  <2>3. /\ t \in SUBSET D /\ t # {} /\ Max(t) = x /\ t \ {x} = 1..k
        /\ k \in 0..hops /\ x \in 0..hops
    <3>1. k \in Nat /\ x \in 1..hops /\ k \in 0..hops /\ x \in 0..hops
      BY <2>1
    <3>2. t \in SUBSET D /\ t # {}
      <4>1. x \in t /\ 1..x \subseteq 1..hops
        BY <2>2, <3>1
      <4> QED BY <1>2, <2>2, <4>1
    <3>4. t \ {x} = 1..k
      BY <2>1, <2>2, <3>1
    <3>3. Max(t) = x
      BY <2>1, <2>2, <3>1, MaxPrefix
    <3> QED BY <3>1, <3>2, <3>3, <3>4
  <2>4. fold[t] = fold[t \ {Max(t)}] \union Beside(reg, fold[t \ {Max(t)}])
    BY <1>8, <2>3 DEF D
  <2>5. it[k + 1] = fold[t] /\ it[k] = fold[t \ {x}]
    BY <2>1, <2>2, <2>3
  <2> HIDE DEF it
  <2> QED BY <2>1, <2>3, <2>4, <2>5
<1>11. it[hops] = fold[D]
  BY <1>2
<1> HIDE DEF it
<1>12. Hopping(it, reg, claimed, hops)
  BY <1>1, <1>9, <1>10, <1>11 DEF D, Hopping
<1> QED BY <1>12

-----------------------------------------------------------------------------
(***************************************************************************)
(* A registry: references at places of their own, and their families       *)
(***************************************************************************)

\* Sequences of one length, an index that leads to each reference and back.
Listed(r) ==
  /\ r = [refs |-> r.refs, index |-> r.index, kind |-> r.kind, card |-> r.card,
          frozen |-> r.frozen, slices |-> r.slices]
  /\ r.refs \in Seq(Range(r.refs)) /\ r.kind \in Seq(Range(r.kind)) /\ r.card \in Seq(Range(r.card))
  /\ Len(r.kind) = Len(r.refs) /\ Len(r.card) = Len(r.refs)
  /\ DOMAIN r.index = Range(r.refs)
  /\ \A i \in 1..Len(r.refs) : r.index[r.refs[i]] = i /\ r.refs[i].family \in Range(FamilyOrder)

\* Families are blocks.
Blocks(r) ==
  \A i \in 1..Len(r.refs) :
    {f \in DOMAIN r.slices : r.slices[f].first <= i /\ i <= r.slices[f].last} = {r.refs[i].family}

\* The variables at the places of one registry are some of those of another.
Taken(r, s) ==
  \A i \in 1..Len(r.refs) : \E j \in 1..Len(s.refs) :
    r.refs[i] = s.refs[j] /\ r.kind[i] = s.kind[j] /\ r.card[i] = s.card[j]

\* A sequence and what comes last.
Extended(u, s, x) ==
  /\ u \in Seq(Range(u)) /\ Len(s) \in Nat /\ Len(u) = Len(s) + 1
  /\ DOMAIN s = 1..Len(s) /\ DOMAIN u = 1..Len(s) + 1
  /\ \A i \in 1..Len(s) : u[i] = s[i]
  /\ u[Len(s) + 1] = x
  /\ Range(u) = Range(s) \union {x}

LEMMA Appending ==
  ASSUME NEW R, NEW s \in Seq(R), NEW x, NEW u, u = Append(s, x)
  PROVE  Extended(u, s, x)
<1> DEFINE T == R \union {x}
<1>1. s \in Seq(T) /\ x \in T
  BY SeqMonotonic
<1> HIDE DEF T
<1>2. /\ u \in Seq(T) /\ Len(u) = Len(s) + 1 /\ Len(s) \in Nat
      /\ \A i \in 1..Len(s) : u[i] = s[i]
      /\ u[Len(s) + 1] = x
  BY <1>1, AppendProperties, LenProperties
<1>3. DOMAIN s = 1..Len(s) /\ DOMAIN u = 1..Len(s) + 1
  BY <1>1, <1>2, LenProperties
<1>4. u \in Seq(Range(u))
  BY <1>2, SeqOfRange
<1>5. Range(u) = Range(s) \union {x}
  BY <1>2, <1>3 DEF Range
<1> QED BY <1>2, <1>3, <1>4, <1>5 DEF Extended

\* A variable that is added is the last one, or is there already.
LEMMA AddedKeeps ==
  ASSUME NEW r, Listed(r), NEW v, v.ref.family \in Range(FamilyOrder)
  PROVE  /\ Listed(Added(r, v)) /\ DOMAIN Added(r, v).index = DOMAIN r.index \union {v.ref}
         /\ Added(r, v).frozen = r.frozen
         /\ \A i \in 1..Len(Added(r, v).refs) :
              \/ /\ i \in 1..Len(r.refs) /\ Added(r, v).refs[i] = r.refs[i]
                 /\ Added(r, v).kind[i] = r.kind[i] /\ Added(r, v).card[i] = r.card[i]
              \/ /\ Added(r, v).refs[i] = v.ref /\ Added(r, v).kind[i] = v.kind
                 /\ Added(r, v).card[i] = Resolved(v.kind, v.cardinality)
<1>1. CASE v.ref \in DOMAIN r.index
  <2>1. Added(r, v) = r
    BY <1>1 DEF Added
  <2> QED BY <1>1, <2>1
<1>2. CASE v.ref \notin DOMAIN r.index
  <2>1. PICK a : a = Added(r, v)
    OBVIOUS
  <2>2. PICK card : card = Resolved(v.kind, v.cardinality)
    OBVIOUS
  <2>3. a = [refs |-> Append(r.refs, v.ref),
             index |-> [ref \in DOMAIN r.index \union {v.ref} |-> IF ref = v.ref THEN Len(r.refs) + 1 ELSE r.index[ref]],
             kind |-> Append(r.kind, v.kind), card |-> Append(r.card, card),
             frozen |-> r.frozen, slices |-> r.slices]
    BY <1>2, <2>1, <2>2 DEF Added, Listed
  <2>4. /\ a = [refs |-> a.refs, index |-> a.index, kind |-> a.kind, card |-> a.card,
                frozen |-> a.frozen, slices |-> a.slices]
        /\ a.refs = Append(r.refs, v.ref) /\ a.kind = Append(r.kind, v.kind)
        /\ a.card = Append(r.card, card) /\ a.frozen = r.frozen
        /\ a.index = [ref \in DOMAIN r.index \union {v.ref} |-> IF ref = v.ref THEN Len(r.refs) + 1 ELSE r.index[ref]]
    BY <2>3
  <2>5. PICK n \in Nat : n = Len(r.refs) /\ n = Len(r.kind) /\ n = Len(r.card)
    BY LenProperties DEF Listed
  <2>6. /\ a.refs \in Seq(Range(a.refs)) /\ Len(a.refs) = n + 1 /\ Range(a.refs) = Range(r.refs) \union {v.ref}
        /\ \A i \in 1..n : a.refs[i] = r.refs[i]
        /\ a.refs[n + 1] = v.ref /\ DOMAIN r.refs = 1..n
    <3>1. PICK s, u : s = r.refs /\ u = a.refs
      OBVIOUS
    <3>2. PICK y : y = v.ref
      OBVIOUS
    <3>3. s \in Seq(Range(s)) /\ u = Append(s, y) /\ n = Len(s)
      BY <2>4, <2>5, <3>1, <3>2 DEF Listed
    <3>4. Extended(u, s, y)
      BY <3>3, Appending
    <3> QED BY <3>1, <3>2, <3>3, <3>4 DEF Extended
  <2>7. /\ a.kind \in Seq(Range(a.kind)) /\ Len(a.kind) = n + 1
        /\ \A i \in 1..n : a.kind[i] = r.kind[i]
        /\ a.kind[n + 1] = v.kind
    <3>1. PICK s, u : s = r.kind /\ u = a.kind
      OBVIOUS
    <3>2. PICK y : y = v.kind
      OBVIOUS
    <3>3. s \in Seq(Range(s)) /\ u = Append(s, y) /\ n = Len(s)
      BY <2>4, <2>5, <3>1, <3>2 DEF Listed
    <3>4. Extended(u, s, y)
      BY <3>3, Appending
    <3> QED BY <3>1, <3>2, <3>3, <3>4 DEF Extended
  <2>8. /\ a.card \in Seq(Range(a.card)) /\ Len(a.card) = n + 1
        /\ \A i \in 1..n : a.card[i] = r.card[i]
        /\ a.card[n + 1] = card
    <3>1. PICK s, u : s = r.card /\ u = a.card
      OBVIOUS
    <3>2. PICK y : y = card
      OBVIOUS
    <3>3. s \in Seq(Range(s)) /\ u = Append(s, y) /\ n = Len(s)
      BY <2>4, <2>5, <3>1, <3>2 DEF Listed
    <3>4. Extended(u, s, y)
      BY <3>3, Appending
    <3> QED BY <3>1, <3>2, <3>3, <3>4 DEF Extended
  <2>9. DOMAIN r.index = Range(r.refs) /\ DOMAIN a.index = DOMAIN r.index \union {v.ref}
    BY <2>4 DEF Listed
  <2>10. ASSUME NEW i \in 1..n + 1
         PROVE  a.index[a.refs[i]] = i /\ a.refs[i].family \in Range(FamilyOrder)
    <3>1. CASE i \in 1..n
      <4>1. r.refs[i] \in DOMAIN r.index /\ r.index[r.refs[i]] = i /\ r.refs[i].family \in Range(FamilyOrder)
        BY <2>5, <2>6, <3>1 DEF Listed, Range
      <4>2. r.refs[i] # v.ref
        BY <1>2, <4>1
      <4> QED BY <2>4, <2>6, <3>1, <4>1, <4>2
    <3>2. CASE i = n + 1
      BY <2>4, <2>5, <2>6, <3>2
    <3> QED BY <2>5, <3>1, <3>2
  <2>11. Listed(a)
    BY <2>4, <2>6, <2>7, <2>8, <2>9, <2>10 DEF Listed
  <2>12. \A i \in 1..n + 1 : i \in 1..n \/ i = n + 1
    OBVIOUS
  <2> QED BY <2>1, <2>2, <2>4, <2>5, <2>6, <2>7, <2>8, <2>9, <2>11, <2>12
<1> QED BY <1>1, <1>2

LEMMA EmptyIsListed == Listed(NewRegistry) /\ DOMAIN NewRegistry.index = {} /\ ~ NewRegistry.frozen
<1>1. /\ NewRegistry.refs = <<>> /\ NewRegistry.kind = <<>> /\ NewRegistry.card = <<>>
      /\ NewRegistry.index = <<>> /\ NewRegistry.slices = <<>> /\ ~ NewRegistry.frozen
      /\ NewRegistry = [refs |-> NewRegistry.refs, index |-> NewRegistry.index, kind |-> NewRegistry.kind,
                        card |-> NewRegistry.card, frozen |-> NewRegistry.frozen, slices |-> NewRegistry.slices]
  BY DEF NewRegistry
<1>2. <<>> \in Seq(Range(<<>>)) /\ Len(<<>>) = 0 /\ DOMAIN <<>> = {} /\ Range(<<>>) = {}
  BY EmptySeq DEF Range
<1> QED BY <1>1, <1>2 DEF Listed

-----------------------------------------------------------------------------
\* The families at the places of an order, and that they do not decrease.
Sorted(r, order, p) ==
  \A i \in 1..Len(order) :
    /\ p[i] \in 1..8 /\ r.refs[order[i]].family = FamilyOrder[p[i]]
    /\ \A j \in 1..Len(order) : i < j => p[i] <= p[j]

LEMMA Families ==
  /\ DOMAIN FamilyOrder = 1..8
  /\ \A j, k \in 1..8 : FamilyOrder[j] = FamilyOrder[k] => j = k
BY DEF FamilyOrder

\* The places of a registry in the order of freeze(): all, once, by family.
LEMMA OrderKeeps ==
  ASSUME NEW r, Listed(r), NEW order, order = OrderOf(r)
  PROVE  /\ order \in Seq(1..Len(r.refs)) /\ Range(order) = 1..Len(r.refs)
         /\ \A i, j \in 1..Len(order) : order[i] = order[j] => i = j
         /\ \E p : Sorted(r, order, p)
<1>1. PICK n \in Nat : n = Len(r.refs) /\ DOMAIN r.refs = 1..n
  BY LenProperties DEF Listed
<1> DEFINE places(k) == {i \in DOMAIN r.refs : r.refs[i].family = FamilyOrder[k]}
           ss == [k \in DOMAIN FamilyOrder |-> InSomeOrder(places(k))]
<1>2. order = FlattenSeq(ss)
  BY DEF OrderOf
<1>3. ASSUME NEW k \in 1..8 PROVE IsOrder(ss[k], places(k)) /\ places(k) \subseteq 1..n
  <2>1. places(k) \subseteq 1..n
    BY <1>1
  <2>2. IsFiniteSet(places(k))
    BY <2>1, FS_Interval, FS_Subset, 1 \in Int, n \in Int
  <2>3. ss[k] = InSomeOrder(places(k))
    BY Families
  <2> HIDE DEF places, ss
  <2> QED BY <2>1, <2>2, <2>3, Ordering
<1>4. DOMAIN ss = 1..8 /\ Len(ss) = 8
  BY Families
<1>5. \A k \in 1..8 : ss[k] \in Seq(1..n)
  <2> SUFFICES ASSUME NEW k \in 1..8 PROVE ss[k] \in Seq(1..n)
    OBVIOUS
  <2>1. ss[k] \in Seq(places(k)) /\ places(k) \subseteq 1..n
    BY <1>3 DEF IsOrder
  <2> HIDE DEF ss, places
  <2> QED BY <2>1, SeqMonotonic
<1>6. order \in Seq(1..n) /\ \E q : Laid(order, ss, 8, q)
  <2> HIDE DEF ss
  <2>1. AreParts(ss, 8, 1..n)
    BY <1>4, <1>5 DEF AreParts
  <2> QED BY <1>2, <2>1, Flattened
<1>7. PICK q : Laid(order, ss, 8, q)
  BY <1>6
<1>8. PICK m \in Nat : m = Len(order) /\ DOMAIN order = 1..m
  BY <1>6, LenProperties
<1>9. ASSUME NEW x \in 1..m
      PROVE  /\ q[x] = <<q[x][1], q[x][2]>> /\ q[x][1] \in 1..8 /\ q[x][2] \in 1..Len(ss[q[x][1]])
             /\ order[x] = ss[q[x][1]][q[x][2]] /\ order[x] \in places(q[x][1])
  <2> HIDE DEF ss, places
  <2>1. /\ q[x] \in (1..8) \X Nat /\ q[x][2] \in 1..Len(ss[q[x][1]])
        /\ order[x] = ss[q[x][1]][q[x][2]]
    BY <1>7, <1>8 DEF Laid
  <2>2. PICK a, b : q[x] = <<a, b>> /\ a \in 1..8 /\ b \in Nat
    BY <2>1
  <2>5. q[x][1] = a /\ q[x][2] = b
    BY <2>2
  <2>3. ss[a] \in Seq(places(a)) /\ b \in 1..Len(ss[a])
    <3>1. IsOrder(ss[a], places(a))
      BY <1>3, <2>2
    <3> QED BY <2>1, <2>5, <3>1 DEF IsOrder
  <2>4. ss[a][b] \in places(a)
    BY <2>3, ElementOfSeq
  <2> QED BY <2>1, <2>2, <2>4, <2>5
<1>10. ASSUME NEW x \in 1..m PROVE r.refs[order[x]].family = FamilyOrder[q[x][1]]
  BY <1>9
<1>11. ASSUME NEW x \in 1..m, NEW y \in 1..m, order[x] = order[y] PROVE x = y
  <2> HIDE DEF ss, places
  <2>1. q[x][1] = q[y][1]
    <3>1. PICK a, b : a = q[x][1] /\ b = q[y][1]
      OBVIOUS
    <3>2. a \in 1..8 /\ b \in 1..8 /\ FamilyOrder[a] = FamilyOrder[b]
      BY <1>9, <1>10, <1>11, <3>1
    <3> QED BY <3>1, <3>2, Families
  <2>2. q[x][2] = q[y][2]
    <3>1. PICK a, b, c : q[x][1] = a /\ q[y][1] = a /\ q[x][2] = b /\ q[y][2] = c
      BY <2>1
    <3>2. a \in 1..8 /\ b \in 1..Len(ss[a]) /\ c \in 1..Len(ss[a]) /\ ss[a][b] = ss[a][c]
      BY <1>9, <1>11, <3>1
    <3>3. b = c
      BY <1>3, <3>2 DEF IsOrder
    <3> QED BY <3>1, <3>3
  <2>3. /\ q[x][1] \in Int /\ q[x][2] \in Int
        /\ x < y => q[x][1] < q[y][1] \/ (q[x][1] = q[y][1] /\ q[x][2] < q[y][2])
        /\ y < x => q[y][1] < q[x][1] \/ (q[y][1] = q[x][1] /\ q[y][2] < q[x][2])
    <3>1. q[x][1] \in Int /\ q[x][2] \in Int
      <4>1. q[x] \in (1..8) \X Nat
        BY <1>7, <1>8 DEF Laid
      <4> QED BY <4>1
    <3> QED BY <1>7, <1>8, <3>1 DEF Laid
  <2> QED BY <2>1, <2>2, <2>3
<1>12. ASSUME NEW i \in 1..n PROVE \E x \in 1..m : order[x] = i
  <2>1. PICK k \in 1..8 : FamilyOrder[k] = r.refs[i].family
    <3>1. PICK f : f = r.refs[i].family
      OBVIOUS
    <3>2. f \in Range(FamilyOrder)
      BY <1>1, <3>1 DEF Listed
    <3> QED BY <3>1, <3>2, Families DEF Range
  <2>2. i \in places(k)
    BY <1>1, <2>1
  <2> HIDE DEF ss, places
  <2>3. PICK j \in 1..Len(ss[k]) : ss[k][j] = i
    <3>1. ss[k] \in Seq(places(k)) /\ Range(ss[k]) = places(k)
      BY <1>3 DEF IsOrder
    <3>2. DOMAIN ss[k] = 1..Len(ss[k])
      BY <3>1, LenProperties
    <3> QED BY <2>2, <3>1, <3>2 DEF Range
  <2>4. PICK x \in 1..m : q[x] = <<k, j>>
    BY <1>7, <1>8 DEF Laid
  <2> QED BY <1>9, <2>3, <2>4
<1>13. Range(order) = 1..n
  <2>1. \A x \in 1..m : order[x] \in 1..n
    BY <1>6, <1>8, ElementOfSeq
  <2> QED BY <1>8, <1>12, <2>1 DEF Range
<1> DEFINE p == [x \in 1..m |-> q[x][1]]
<1>14. ASSUME NEW x \in 1..m, NEW y \in 1..m, x < y PROVE p[x] <= p[y]
  <2> HIDE DEF ss, places
  <2>1. q[x][1] \in Int /\ q[y][1] \in Int
    <3>1. \A i \in 1..m : q[i][1] \in 1..8
      BY <1>9
    <3>2. x \in 1..m /\ y \in 1..m
      BY <1>14
    <3> QED BY <3>1, <3>2
  <2>2. q[x][1] < q[y][1] \/ q[x][1] = q[y][1]
    BY <1>7, <1>8, <1>14 DEF Laid
  <2>3. q[x][1] <= q[y][1]
    BY <2>1, <2>2
  <2> QED BY <2>3
<1>15. \A x \in 1..m : p[x] \in 1..8 /\ r.refs[order[x]].family = FamilyOrder[p[x]]
  BY <1>9, <1>10
<1> HIDE DEF p, ss, places
<1>16. Sorted(r, order, p)
  BY <1>8, <1>14, <1>15 DEF Sorted
<1> QED BY <1>1, <1>6, <1>8, <1>11, <1>13, <1>16

LEMMA ReorderedIs ==
  ASSUME NEW n \in Nat, NEW R, NEW s \in Seq(R), Len(s) = n, NEW order \in Seq(1..n)
  PROVE  /\ Reordered(s, order) \in Seq(Range(Reordered(s, order)))
         /\ Len(Reordered(s, order)) = Len(order)
         /\ DOMAIN Reordered(s, order) = 1..Len(order)
         /\ \A i \in 1..Len(order) : order[i] \in 1..n /\ Reordered(s, order)[i] = s[order[i]]
<1>1. PICK m \in Nat : m = Len(order) /\ DOMAIN order = 1..m
  BY LenProperties
<1>2. \A i \in 1..m : order[i] \in 1..n
  BY <1>1, ElementOfSeq
<1>3. PICK u : u = Reordered(s, order)
  OBVIOUS
<1>4. u = [i \in 1..m |-> s[order[i]]] /\ \A i \in 1..m : s[order[i]] \in R
  BY <1>1, <1>2, <1>3, ElementOfSeq DEF Reordered
<1>5. u \in Seq(R) /\ Len(u) = m
  BY <1>1, <1>4
<1>6. u \in Seq(Range(u))
  BY <1>5, SeqOfRange
<1> QED BY <1>1, <1>2, <1>3, <1>4, <1>5, <1>6

\* The blocks of a sequence of references that is sorted by family: from the
\* first to the last of each.
LEMMA SortedBlocks ==
  ASSUME NEW m \in Nat, NEW refs, DOMAIN refs = 1..m, NEW p,
         \A i \in 1..m : /\ p[i] \in 1..8 /\ refs[i].family = FamilyOrder[p[i]]
                         /\ \A j \in 1..m : i < j => p[i] <= p[j],
         NEW i \in 1..m
  PROVE  {f \in DOMAIN SlicesOf(refs) : SlicesOf(refs)[f].first <= i /\ i <= SlicesOf(refs)[f].last}
           = {refs[i].family}
<1> DEFINE places(f) == {j \in DOMAIN refs : refs[j].family = f}
           F == {refs[j].family : j \in DOMAIN refs}
<1>1. SlicesOf(refs) = [f \in F |-> [first |-> Min(places(f)), last |-> Max(places(f))]]
  BY DEF SlicesOf
<1>2. \A f : places(f) \subseteq 1..m /\ \A j \in 1..m : j \in places(f) <=> refs[j].family = f
  OBVIOUS
<1>3. ASSUME NEW f \in F
      PROVE  /\ Min(places(f)) \in places(f) /\ Max(places(f)) \in places(f)
             /\ \A j \in places(f) : Min(places(f)) <= j /\ j <= Max(places(f))
  <2>1. places(f) # {}
    OBVIOUS
  <2> HIDE DEF places, F
  <2>2. PICK t : t = places(f)
    OBVIOUS
  <2>3. t \in SUBSET (1..m) /\ t \in SUBSET Nat /\ t # {}
    BY <1>2, <2>1, <2>2
  <2>4. Min(t) \in t /\ \A j \in t : Min(t) <= j
    BY <2>3, LeastCount
  <2>5. Max(t) \in t /\ \A j \in t : j <= Max(t)
    BY <2>3, MaxIn
  <2> QED BY <2>2, <2>4, <2>5
<1>4. refs[i].family \in F
  OBVIOUS
<1>5. PICK s : s = SlicesOf(refs)
  OBVIOUS
<1>6. DOMAIN s = F /\ \A f \in F : s[f].first = Min(places(f)) /\ s[f].last = Max(places(f))
  BY <1>1, <1>5
<1> HIDE DEF places, F
<1>7. s[refs[i].family].first <= i /\ i <= s[refs[i].family].last
  BY <1>2, <1>3, <1>4, <1>6
<1>8. ASSUME NEW f \in F, s[f].first <= i, i <= s[f].last PROVE f = refs[i].family
  <2>1. PICK a, b : a = s[f].first /\ b = s[f].last /\ a \in 1..m /\ b \in 1..m
                    /\ refs[a].family = f /\ refs[b].family = f
    BY <1>2, <1>3, <1>6
  <2>2. FamilyOrder[p[a]] = FamilyOrder[p[b]] /\ p[a] \in 1..8 /\ p[b] \in 1..8 /\ p[i] \in 1..8
    BY <2>1
  <2>3. PICK x, y, z : x = p[a] /\ y = p[b] /\ z = p[i]
    OBVIOUS
  <2>4. x = y
    BY <2>2, <2>3, Families
  <2>5. x <= z /\ z <= y
    <3>1. a < i \/ a = i
      BY <1>8, <2>1
    <3>2. i < b \/ i = b
      BY <1>8, <2>1
    <3>3. x <= z
      BY <2>1, <2>2, <2>3, <3>1
    <3>4. z <= y
      BY <2>1, <2>2, <2>3, <3>2
    <3> QED BY <3>3, <3>4
  <2>6. z = x
    BY <2>2, <2>3, <2>4, <2>5
  <2> QED BY <2>1, <2>3, <2>6
<1> QED BY <1>4, <1>5, <1>6, <1>7, <1>8

\* What freeze() makes of a registry.
LEMMA FrozenKeeps ==
  ASSUME NEW r, Listed(r), ~ r.frozen, NEW z, z = Frozen(r)
  PROVE  /\ Listed(z) /\ z.frozen /\ Blocks(z) /\ DOMAIN z.index = DOMAIN r.index /\ Taken(z, r)
<1>1. PICK order : order = OrderOf(r)
  OBVIOUS
<1>2. PICK n \in Nat : n = Len(r.refs) /\ n = Len(r.kind) /\ n = Len(r.card) /\ DOMAIN r.refs = 1..n
  BY LenProperties DEF Listed
<1>3. /\ order \in Seq(1..n) /\ Range(order) = 1..n
      /\ \A i, j \in 1..Len(order) : order[i] = order[j] => i = j
  BY <1>1, <1>2, OrderKeeps
<1>4. PICK p : Sorted(r, order, p)
  BY <1>1, OrderKeeps
<1>5. PICK m \in Nat : m = Len(order) /\ DOMAIN order = 1..m
  BY <1>3, LenProperties
<1>6. z = [refs |-> Reordered(r.refs, order), index |-> IndexOf(r, order), kind |-> Reordered(r.kind, order),
           card |-> Reordered(r.card, order), frozen |-> TRUE, slices |-> SlicesOf(Reordered(r.refs, order))]
  BY <1>1 DEF Frozen
<1>7. /\ z = [refs |-> z.refs, index |-> z.index, kind |-> z.kind, card |-> z.card,
              frozen |-> z.frozen, slices |-> z.slices]
      /\ z.refs = Reordered(r.refs, order) /\ z.kind = Reordered(r.kind, order)
      /\ z.card = Reordered(r.card, order) /\ z.index = IndexOf(r, order)
      /\ z.frozen = TRUE /\ z.slices = SlicesOf(z.refs)
  BY <1>6
<1> HIDE <1>6
<1>8. /\ z.refs \in Seq(Range(z.refs)) /\ Len(z.refs) = m /\ DOMAIN z.refs = 1..m
      /\ \A i \in 1..m : order[i] \in 1..n /\ z.refs[i] = r.refs[order[i]]
  BY <1>2, <1>3, <1>5, <1>7, ReorderedIs DEF Listed
<1>9. /\ z.kind \in Seq(Range(z.kind)) /\ Len(z.kind) = m
      /\ \A i \in 1..m : z.kind[i] = r.kind[order[i]]
  BY <1>2, <1>3, <1>5, <1>7, ReorderedIs DEF Listed
<1>10. /\ z.card \in Seq(Range(z.card)) /\ Len(z.card) = m
       /\ \A i \in 1..m : z.card[i] = r.card[order[i]]
  BY <1>2, <1>3, <1>5, <1>7, ReorderedIs DEF Listed
<1>11. \A j \in 1..n : \E i \in 1..m : order[i] = j
  BY <1>3, <1>5 DEF Range
<1>12. Range(z.refs) = Range(r.refs)
  <2>1. \A i \in 1..m : z.refs[i] \in Range(r.refs)
    BY <1>2, <1>8 DEF Range
  <2>2. \A j \in 1..n : \E i \in 1..m : z.refs[i] = r.refs[j]
    BY <1>8, <1>11
  <2>3. Range(z.refs) = {z.refs[i] : i \in 1..m} /\ Range(r.refs) = {r.refs[j] : j \in 1..n}
    BY <1>2, <1>8 DEF Range
  <2>4. Range(r.refs) \subseteq Range(z.refs)
    BY <2>2, <2>3
  <2>5. Range(z.refs) \subseteq Range(r.refs)
    BY <2>1, <2>3
  <2> QED BY <2>4, <2>5
<1>13. DOMAIN z.index = Range(r.refs) /\ DOMAIN r.index = Range(r.refs)
  BY <1>7 DEF IndexOf, Listed
<1>14. \A i, j \in 1..n : r.refs[i] = r.refs[j] => i = j
  BY <1>2 DEF Listed
<1>15. ASSUME NEW i \in 1..m PROVE z.index[z.refs[i]] = i /\ z.refs[i].family \in Range(FamilyOrder)
  <2>1. z.refs[i] \in Range(r.refs)
    BY <1>2, <1>8 DEF Range
  <2>2. z.index[z.refs[i]] = CHOOSE k \in 1..m : r.refs[order[k]] = z.refs[i]
    BY <1>5, <1>7, <2>1 DEF IndexOf
  <2>3. ASSUME NEW k \in 1..m, r.refs[order[k]] = z.refs[i] PROVE k = i
    <3>1. order[k] = order[i]
      BY <1>8, <1>14, <2>3
    <3> QED BY <1>3, <1>5, <3>1
  <2>4. r.refs[order[i]] = z.refs[i]
    BY <1>8
  <2>5. (CHOOSE k \in 1..m : r.refs[order[k]] = z.refs[i]) = i
    BY <2>3, <2>4
  <2>6. z.refs[i].family \in Range(FamilyOrder)
    BY <1>2, <1>8 DEF Listed
  <2> QED BY <2>2, <2>5, <2>6
<1>16. Listed(z)
  BY <1>7, <1>8, <1>9, <1>10, <1>12, <1>13, <1>15 DEF Listed
<1>17. Blocks(z)
  <2>1. PICK refs : refs = z.refs
    OBVIOUS
  <2>2. \A i \in 1..m : /\ p[i] \in 1..8 /\ refs[i].family = FamilyOrder[p[i]]
                        /\ \A j \in 1..m : i < j => p[i] <= p[j]
    BY <1>4, <1>5, <1>8, <2>1 DEF Sorted
  <2>3. DOMAIN refs = 1..m
    BY <1>8, <2>1
  <2>4. \A i \in 1..m : {f \in DOMAIN SlicesOf(refs) : SlicesOf(refs)[f].first <= i /\ i <= SlicesOf(refs)[f].last}
                           = {refs[i].family}
    BY SMTT(30), ZenonT(30), <2>2, <2>3, SortedBlocks
  <2> QED BY <1>7, <1>8, <2>1, <2>4 DEF Blocks
<1>18. Taken(z, r)
  BY <1>2, <1>8, <1>9, <1>10 DEF Taken
<1> QED BY <1>7, <1>12, <1>13, <1>16, <1>17, <1>18

-----------------------------------------------------------------------------
(***************************************************************************)
(* What is registered of a universe                                        *)
(***************************************************************************)

LEMMA FiniteRange ==
  ASSUME NEW f, IsFiniteSet(DOMAIN f) PROVE IsFiniteSet(Range(f))
<1> DEFINE h == [x \in DOMAIN f |-> f[x]]
<1>1. h \in Surjection(DOMAIN f, Range(f))
  BY DEF Surjection, Range
<1> QED BY <1>1, FS_Surjection

\* A sequence of variables, and the references of those.
Names(vs) == {v.ref : v \in Range(vs)}
Naming(vs, R) == vs \in Seq(Range(vs)) /\ Names(vs) = R

LEMMA NothingNamed == Naming(<<>>, {})
<1>1. <<>> \in Seq(Range(<<>>)) /\ Range(<<>>) = {}
  BY EmptySeq DEF Range
<1> QED BY <1>1 DEF Naming, Names

LEMMA OneNamed == ASSUME NEW v PROVE Naming(<<v>>, {v.ref})
<1>1. <<v>> \in Seq({v}) /\ Range(<<v>>) = {v}
  BY DEF Range
<1> QED BY <1>1 DEF Naming, Names

LEMMA BothNamed ==
  ASSUME NEW a, NEW b, NEW R, NEW Q, Naming(a, R), Naming(b, Q)
  PROVE  Naming(a \o b, R \union Q)
<1> DEFINE T == Range(a) \union Range(b)
<1>1. a \in Seq(T) /\ b \in Seq(T)
  BY SeqMonotonic DEF Naming
<1>2. a \o b \in Seq(T) /\ Range(a \o b) = T
  <2> HIDE DEF T
  <2>1. a \o b \in Seq(T) /\ Range(a \o b) = Range(a) \union Range(b)
    BY <1>1, ConcatProperties, RangeConcatenation
  <2> QED BY <2>1 DEF T
<1>3. {v.ref : v \in T} = {v.ref : v \in Range(a)} \union {v.ref : v \in Range(b)}
  OBVIOUS
<1> QED BY <1>2, <1>3 DEF Naming, Names

LEMMA OrderNamed ==
  ASSUME NEW S, IsFiniteSet(S) PROVE Naming(InSomeOrder(S), {v.ref : v \in S})
<1>1. InSomeOrder(S) \in Seq(S) /\ Range(InSomeOrder(S)) = S
  BY Ordering DEF IsOrder
<1> QED BY <1>1 DEF Naming, Names

LEMMA AllNamed ==
  ASSUME NEW n \in Nat, NEW ss, DOMAIN ss = 1..n, Len(ss) = n, n = 0 => ss = <<>>,
         NEW R, \A i \in 1..n : Naming(ss[i], R[i])
  PROVE  Naming(FlattenSeq(ss), UNION {R[i] : i \in 1..n})
<1> DEFINE T == UNION {Range(ss[i]) : i \in 1..n}
<1>1. ASSUME NEW i \in 1..n PROVE ss[i] \in Seq(T) /\ Range(ss[i]) \subseteq T /\ Names(ss[i]) = R[i]
  <2>1. ss[i] \in Seq(Range(ss[i])) /\ Range(ss[i]) \subseteq T /\ Names(ss[i]) = R[i]
    BY DEF Naming
  <2> HIDE DEF T
  <2> QED BY <2>1, SeqMonotonic
<1>2. AreParts(ss, n, T)
  BY <1>1 DEF AreParts
<1> HIDE DEF T
<1>3. PICK s : s = FlattenSeq(ss)
  OBVIOUS
<1>4. s \in Seq(T) /\ \E p : Laid(s, ss, n, p)
  BY <1>2, <1>3, Flattened
<1>5. PICK p : Laid(s, ss, n, p)
  BY <1>4
<1>6. DOMAIN s = 1..Len(s) /\ s \in Seq(Range(s))
  BY <1>4, LenProperties, SeqOfRange
<1>7. ASSUME NEW v \in Range(s) PROVE v.ref \in UNION {R[i] : i \in 1..n}
  <2>1. PICK x \in 1..Len(s) : v = s[x]
    BY <1>6 DEF Range
  <2>2. p[x] \in (1..n) \X Nat /\ p[x][2] \in 1..Len(ss[p[x][1]]) /\ v = ss[p[x][1]][p[x][2]]
    BY <1>5, <2>1 DEF Laid
  <2>3. PICK a, b : a \in 1..n /\ b \in 1..Len(ss[a]) /\ v = ss[a][b]
    BY <2>2
  <2>4. DOMAIN ss[a] = 1..Len(ss[a])
    BY <1>1, <2>3, LenProperties
  <2>5. v \in Range(ss[a])
    BY <2>3, <2>4 DEF Range
  <2>6. v.ref \in R[a]
    BY <1>1, <2>3, <2>5 DEF Names
  <2> QED BY <2>3, <2>6
<1>8. ASSUME NEW i \in 1..n, NEW r \in R[i] PROVE r \in Names(s)
  <2>1. PICK v \in Range(ss[i]) : r = v.ref
    BY <1>1, <1>8 DEF Names
  <2>2. PICK j \in 1..Len(ss[i]) : v = ss[i][j]
    <3>1. DOMAIN ss[i] = 1..Len(ss[i])
      BY <1>1, LenProperties
    <3> QED BY <2>1, <3>1 DEF Range
  <2>3. PICK x \in 1..Len(s) : p[x] = <<i, j>>
    BY <1>5, <2>2 DEF Laid
  <2>4. p[x][1] = i /\ p[x][2] = j
    BY <2>3
  <2>6. s[x] = ss[p[x][1]][p[x][2]]
    BY <1>5 DEF Laid
  <2>5. s[x] = v /\ v \in Range(s)
    BY <1>6, <2>2, <2>4, <2>6 DEF Range
  <2> QED BY <2>1, <2>5 DEF Names
<1>9. Names(s) = UNION {R[i] : i \in 1..n}
  BY <1>7, <1>8 DEF Names
<1> QED BY <1>3, <1>6, <1>9 DEF Naming

\* What is registered of variables that are added one after the other.
LEMMA RegisteredIs ==
  ASSUME NEW vs, NEW R, Naming(vs, R), \A ref \in R : ref.family \in Range(FamilyOrder)
  PROVE  Listed(AddedAll(vs)) /\ ~ AddedAll(vs).frozen /\ DOMAIN AddedAll(vs).index = R
<1>1. PICK n \in Nat : n = Len(vs) /\ DOMAIN vs = 1..n
  BY LenProperties DEF Naming
<1>2. PICK it : /\ it[0] = NewRegistry /\ AddedAll(vs) = it[n]
                /\ \A k \in 0..n - 1 : it[k + 1] = Added(it[k], vs[k + 1])
  BY <1>1, AddingAll
<1> DEFINE Good == {k \in 0..n : /\ Listed(it[k]) /\ ~ it[k].frozen
                                 /\ DOMAIN it[k].index = {vs[j].ref : j \in 1..k}}
<1>3. 0 \in Good
  BY <1>2, EmptyIsListed
<1>4. ASSUME NEW k \in 0..n - 1, k \in Good PROVE k + 1 \in Good
  <2>1. PICK r, v : r = it[k] /\ v = vs[k + 1]
    OBVIOUS
  <2>2. Listed(r) /\ ~ r.frozen /\ DOMAIN r.index = {vs[j].ref : j \in 1..k}
    BY <1>4, <2>1
  <2>3. v.ref \in R
    <3>1. k + 1 \in 1..n
      OBVIOUS
    <3>2. v \in Range(vs)
      BY <1>1, <2>1, <3>1 DEF Range
    <3> QED BY <3>2 DEF Naming, Names
  <2>4. it[k + 1] = Added(r, v)
    BY <1>2, <2>1
  <2>5. Listed(it[k + 1]) /\ it[k + 1].frozen = r.frozen /\ DOMAIN it[k + 1].index = DOMAIN r.index \union {v.ref}
    BY <2>2, <2>3, <2>4, AddedKeeps
  <2>6. {vs[j].ref : j \in 1..k} \union {v.ref} = {vs[j].ref : j \in 1..k + 1}
    <3>1. \A j \in 1..k + 1 : j \in 1..k \/ j = k + 1
      OBVIOUS
    <3>2. k + 1 \in 1..k + 1 /\ \A j \in 1..k : j \in 1..k + 1
      OBVIOUS
    <3> QED BY <2>1, <3>1, <3>2
  <2>7. k + 1 \in 0..n
    OBVIOUS
  <2> QED BY <2>2, <2>5, <2>6, <2>7
<1>5. n \in Good
  <2> HIDE DEF Good
  <2>1. \A k \in 0..n : k \in Good
    BY <1>3, <1>4, CountingTo
  <2> QED BY <2>1
<1>6. {vs[j].ref : j \in 1..n} = R
  BY <1>1 DEF Naming, Names, Range
<1> QED BY <1>2, <1>5, <1>6

\* The attributes that every type of an event declares, and those of an object.
SharedOf(u, e) ==
  LET declared == {Range(schema.events[t]) : t \in u.events[e].support}
  IN  {a \in UNION declared : \A d \in declared : a \in d /\ InCopula(a)}

Numeric(u, o) == {a \in Range(schema.objects[u.objects[o].type]) : InCopula(a)}

\* The references of a universe.
EventRefs(u, e) ==
  {Ref("event_exists", e), Ref("event_time", e)}
    \union (IF Cardinality(u.events[e].support) > 1 THEN {Ref("event_type", e)} ELSE {})
    \union {AttrRef("event_attr", e, a.name) : a \in SharedOf(u, e)}

ObjectRefs(u, o) == {Ref("object_exists", o)} \union {AttrRef("object_attr", o, a.name) : a \in Numeric(u, o)}

LinkRefs(u) ==
  {LinkRef("e2o", l.event, l.qualifier, l.object) : l \in u.e2o}
    \union {LinkRef("o2o", l.source, l.qualifier, l.target) : l \in u.o2o}

RefsOf(u) ==
  (UNION {EventRefs(u, e) : e \in DOMAIN u.events}) \union (UNION {ObjectRefs(u, o) : o \in DOMAIN u.objects})
    \union LinkRefs(u)

\* A universe of finitely many candidates whose types the schema declares.
Candid(u) ==
  /\ schema \in Schemas
  /\ IsFiniteSet(DOMAIN u.events) /\ IsFiniteSet(DOMAIN u.objects) /\ IsFiniteSet(u.e2o) /\ IsFiniteSet(u.o2o)
  /\ \A e \in DOMAIN u.events : u.events[e] \in EventChoices /\ e # None
  /\ \A o \in DOMAIN u.objects : u.objects[o] \in ObjectChoices /\ o # None
  /\ \A l \in u.e2o :
       /\ l = [event |-> l.event, qualifier |-> l.qualifier, object |-> l.object]
       /\ l.event \in DOMAIN u.events /\ l.object \in DOMAIN u.objects /\ l.qualifier # None
  /\ \A l \in u.o2o :
       /\ l = [source |-> l.source, qualifier |-> l.qualifier, target |-> l.target]
       /\ l.source \in DOMAIN u.objects /\ l.target \in DOMAIN u.objects /\ l.qualifier # None

LEMMA RefShape ==
  ASSUME NEW f, NEW x, NEW q, NEW t, NEW a
  PROVE  /\ Ref(f, x) = [family |-> f, subject |-> x, qualifier |-> None, target |-> None, attribute |-> None]
         /\ LinkRef(f, x, q, t) = [family |-> f, subject |-> x, qualifier |-> q, target |-> t, attribute |-> None]
         /\ AttrRef(f, x, a) = [family |-> f, subject |-> x, qualifier |-> None, target |-> None, attribute |-> a]
         /\ Ref(f, x).family = f /\ LinkRef(f, x, q, t).family = f /\ AttrRef(f, x, a).family = f
<1>1. Ref(f, x) = [family |-> f, subject |-> x, qualifier |-> None, target |-> None, attribute |-> None]
  BY DEF Ref
<1>2. PICK r : r = [family |-> f, subject |-> x, qualifier |-> None, target |-> None, attribute |-> None]
  OBVIOUS
<1>3. [r EXCEPT !.qualifier = q, !.target = t]
        = [family |-> f, subject |-> x, qualifier |-> q, target |-> t, attribute |-> None]
  <2>1. [r EXCEPT !.qualifier = q, !.target = t] = [[r EXCEPT !.qualifier = q] EXCEPT !.target = t]
    OBVIOUS
  <2>2. PICK p : p = [r EXCEPT !.qualifier = q]
    OBVIOUS
  <2>3. p = [family |-> f, subject |-> x, qualifier |-> q, target |-> None, attribute |-> None]
    BY <1>2, <2>2
  <2>4. [p EXCEPT !.target = t] = [family |-> f, subject |-> x, qualifier |-> q, target |-> t, attribute |-> None]
    BY <2>3
  <2> QED BY <2>1, <2>2, <2>4
<1>4. [r EXCEPT !.attribute = a] = [family |-> f, subject |-> x, qualifier |-> None, target |-> None, attribute |-> a]
  BY <1>2
<1>5. LinkRef(f, x, q, t) = [r EXCEPT !.qualifier = q, !.target = t]
  BY <1>1, <1>2 DEF LinkRef
<1>6. AttrRef(f, x, a) = [r EXCEPT !.attribute = a]
  BY <1>1, <1>2 DEF AttrRef
<1> QED BY <1>1, <1>3, <1>4, <1>5, <1>6

LEMMA SharedFinite ==
  ASSUME NEW u, Candid(u), NEW e \in DOMAIN u.events
  PROVE  /\ IsFiniteSet(SharedOf(u, e))
         /\ \A a \in SharedOf(u, e) : InCopula(a) /\ \A t \in u.events[e].support : a \in Range(schema.events[t])
         /\ u.events[e].support # {} /\ u.events[e].support \subseteq DOMAIN schema.events
<1>1. /\ u.events[e].support # {} /\ u.events[e].support \subseteq DOMAIN schema.events
      /\ IsFiniteSet(DOMAIN schema.events)
      /\ \A t \in DOMAIN schema.events : schema.events[t] \in Seq(Range(schema.events[t]))
  BY RegistryAssumption, GroundingAssumption DEF Candid
<1>2. PICK t \in u.events[e].support : TRUE
  BY <1>1
<1>3. IsFiniteSet(Range(schema.events[t]))
  <2>1. PICK s : s = schema.events[t]
    OBVIOUS
  <2>2. s \in Seq(Range(s)) /\ DOMAIN s = 1..Len(s) /\ Len(s) \in Nat
    BY <1>1, <1>2, <2>1, LenProperties
  <2>3. IsFiniteSet(DOMAIN s)
    BY <2>2, FS_Interval
  <2> QED BY <2>1, <2>3, FiniteRange
<1>4. \A a \in SharedOf(u, e) : InCopula(a) /\ \A d \in u.events[e].support : a \in Range(schema.events[d])
  BY <1>2 DEF SharedOf
<1>5. SharedOf(u, e) \subseteq Range(schema.events[t])
  BY <1>2, <1>4
<1> QED BY <1>1, <1>3, <1>4, <1>5, FS_Subset

LEMMA EventNamed ==
  ASSUME NEW u, Candid(u), NEW e \in DOMAIN u.events
  PROVE  Naming(EventVariables(u, e), EventRefs(u, e))
<1> DEFINE first  == <<Binary(Ref("event_exists", e)), Continuous(Ref("event_time", e))>>
           second == IF Cardinality(u.events[e].support) > 1
                     THEN <<Variable(Ref("event_type", e), "categorical", Cardinality(u.events[e].support))>>
                     ELSE <<>>
           made == [a \in SharedOf(u, e) |-> Continuous(AttrRef("event_attr", e, a.name))]
           third == {Continuous(AttrRef("event_attr", e, a.name)) : a \in SharedOf(u, e)}
<1>1. EventVariables(u, e) = (first \o second) \o InSomeOrder(third)
  BY DEF EventVariables, SharedOf
<1>2. \A r, k, c : Variable(r, k, c).ref = r /\ Binary(r).ref = r /\ Continuous(r).ref = r
  BY DEF Variable, Binary, Continuous
<1>3. Naming(first, {Ref("event_exists", e), Ref("event_time", e)})
  <2>1. PICK a, b : a = Binary(Ref("event_exists", e)) /\ b = Continuous(Ref("event_time", e))
    OBVIOUS
  <2>2. <<a, b>> \in Seq({a, b}) /\ Range(<<a, b>>) = {a, b}
    BY DEF Range
  <2>3. a.ref = Ref("event_exists", e) /\ b.ref = Ref("event_time", e)
    BY <1>2, <2>1
  <2>4. {v.ref : v \in {a, b}} = {a.ref, b.ref}
    OBVIOUS
  <2> QED BY <2>1, <2>2, <2>3, <2>4 DEF Naming, Names
<1>4. Naming(second, IF Cardinality(u.events[e].support) > 1 THEN {Ref("event_type", e)} ELSE {})
  <2>1. PICK v : v = Variable(Ref("event_type", e), "categorical", Cardinality(u.events[e].support))
    OBVIOUS
  <2>2. v.ref = Ref("event_type", e)
    BY <1>2, <2>1
  <2> QED BY <2>1, <2>2, OneNamed, NothingNamed
<1>5. Naming(InSomeOrder(third), {AttrRef("event_attr", e, a.name) : a \in SharedOf(u, e)})
  <2>1. IsFiniteSet(third)
    <3>1. IsFiniteSet(DOMAIN made)
      BY SharedFinite
    <3>2. Range(made) = third
      BY DEF Range
    <3> HIDE DEF made, third
    <3> QED BY <3>1, <3>2, FiniteRange
  <2>2. {v.ref : v \in third} = {AttrRef("event_attr", e, a.name) : a \in SharedOf(u, e)}
    <3>1. \A v \in third : \E a \in SharedOf(u, e) : v.ref = AttrRef("event_attr", e, a.name)
      BY <1>2
    <3>2. \A a \in SharedOf(u, e) : \E v \in third : v.ref = AttrRef("event_attr", e, a.name)
      BY <1>2
    <3> HIDE DEF third
    <3> QED BY <3>1, <3>2
  <2> HIDE DEF third
  <2> QED BY <2>1, <2>2, OrderNamed
<1> HIDE DEF first, second, third
<1>6. PICK S : S = InSomeOrder(third)
  OBVIOUS
<1>7. PICK P, Q, T : /\ P = {Ref("event_exists", e), Ref("event_time", e)}
                     /\ Q = (IF Cardinality(u.events[e].support) > 1 THEN {Ref("event_type", e)} ELSE {})
                     /\ T = {AttrRef("event_attr", e, a.name) : a \in SharedOf(u, e)}
  OBVIOUS
<1>8. Naming(first \o second, P \union Q)
  BY <1>3, <1>4, <1>7, BothNamed
<1>9. Naming((first \o second) \o S, (P \union Q) \union T)
  BY <1>5, <1>6, <1>7, <1>8, BothNamed
<1>10. EventRefs(u, e) = (P \union Q) \union T
  BY <1>7 DEF EventRefs
<1> QED BY <1>1, <1>6, <1>9, <1>10

LEMMA ObjectNamed ==
  ASSUME NEW u, Candid(u), NEW o \in DOMAIN u.objects
  PROVE  Naming(ObjectVariables(u, o), ObjectRefs(u, o))
<1>1. PICK s : s = schema.objects[u.objects[o].type]
  OBVIOUS
<1>2. PICK n \in Nat : n = Len(s) /\ DOMAIN s = 1..n
  <2>1. s \in Seq(Range(s))
    BY <1>1, RegistryAssumption DEF Candid
  <2> QED BY <2>1, LenProperties
<1> DEFINE ss == [i \in 1..n |-> IF InCopula(s[i]) THEN <<Continuous(AttrRef("object_attr", o, s[i].name))>> ELSE <<>>]
           R == [i \in 1..n |-> IF InCopula(s[i]) THEN {AttrRef("object_attr", o, s[i].name)} ELSE {}]
<1>3. ObjectVariables(u, o) = <<Binary(Ref("object_exists", o))>> \o FlattenSeq(ss)
  BY <1>1, <1>2 DEF ObjectVariables
<1>4. \A r : Binary(r).ref = r /\ Continuous(r).ref = r
  BY DEF Variable, Binary, Continuous
<1>5. Naming(<<Binary(Ref("object_exists", o))>>, {Ref("object_exists", o)})
  <2>1. PICK v : v = Binary(Ref("object_exists", o))
    OBVIOUS
  <2>2. v.ref = Ref("object_exists", o)
    BY <1>4, <2>1
  <2> QED BY <2>1, <2>2, OneNamed
<1>6. ASSUME NEW i \in 1..n PROVE Naming(ss[i], R[i])
  <2>1. PICK r, v : r = AttrRef("object_attr", o, s[i].name) /\ v = Continuous(r)
    OBVIOUS
  <2>2. v.ref = r
    BY <1>4, <2>1
  <2>3. ss[i] = (IF InCopula(s[i]) THEN <<v>> ELSE <<>>) /\ R[i] = IF InCopula(s[i]) THEN {v.ref} ELSE {}
    BY <2>1, <2>2
  <2> HIDE DEF ss, R
  <2>4. Naming(<<v>>, {v.ref}) /\ Naming(<<>>, {})
    BY OneNamed, NothingNamed
  <2> QED BY <2>3, <2>4
<1>7. DOMAIN ss = 1..n /\ Len(ss) = n /\ (n = 0 => ss = <<>>)
  OBVIOUS
<1>8. UNION {R[i] : i \in 1..n} = {AttrRef("object_attr", o, a.name) : a \in Numeric(u, o)}
  <2>1. \A i \in 1..n : \A r \in R[i] : InCopula(s[i]) /\ s[i] \in Range(s) /\ r = AttrRef("object_attr", o, s[i].name)
    BY <1>2 DEF Range
  <2>2. Numeric(u, o) = {a \in Range(s) : InCopula(a)}
    BY <1>1 DEF Numeric
  <2>3. ASSUME NEW a \in Numeric(u, o) PROVE \E i \in 1..n : AttrRef("object_attr", o, a.name) \in R[i]
    <3>1. PICK i \in 1..n : a = s[i]
      BY <1>2, <2>2 DEF Range
    <3> QED BY <2>2, <3>1
  <2> HIDE DEF R
  <2>4. \A i \in 1..n : \A r \in R[i] : r \in {AttrRef("object_attr", o, a.name) : a \in Numeric(u, o)}
    BY <2>1, <2>2
  <2> QED BY <2>3, <2>4
<1> HIDE DEF ss, R
<1>9. Naming(FlattenSeq(ss), UNION {R[i] : i \in 1..n})
  BY <1>2, <1>6, <1>7, AllNamed
<1>10. PICK f, M : f = FlattenSeq(ss) /\ M = UNION {R[i] : i \in 1..n}
  OBVIOUS
<1>11. Naming(<<Binary(Ref("object_exists", o))>> \o f, {Ref("object_exists", o)} \union M)
  BY <1>5, <1>9, <1>10, BothNamed
<1> QED BY <1>3, <1>8, <1>10, <1>11 DEF ObjectRefs

LEMMA LinksNamed ==
  ASSUME NEW u, Candid(u)
  PROVE  Naming(LinkVariables(u), LinkRefs(u))
<1> DEFINE first == {Binary(LinkRef("e2o", l.event, l.qualifier, l.object)) : l \in u.e2o}
           second == {Binary(LinkRef("o2o", l.source, l.qualifier, l.target)) : l \in u.o2o}
           f == [l \in u.e2o |-> Binary(LinkRef("e2o", l.event, l.qualifier, l.object))]
           g == [l \in u.o2o |-> Binary(LinkRef("o2o", l.source, l.qualifier, l.target))]
<1>1. LinkVariables(u) = InSomeOrder(first) \o InSomeOrder(second)
  BY DEF LinkVariables
<1>2. \A r : Binary(r).ref = r
  BY DEF Variable, Binary
<1>3. IsFiniteSet(first) /\ IsFiniteSet(second)
  <2>1. IsFiniteSet(DOMAIN f) /\ IsFiniteSet(DOMAIN g)
    BY DEF Candid
  <2>2. Range(f) = first /\ Range(g) = second
    BY DEF Range
  <2> HIDE DEF f, g, first, second
  <2> QED BY <2>1, <2>2, FiniteRange
<1>4. /\ {v.ref : v \in first} = {LinkRef("e2o", l.event, l.qualifier, l.object) : l \in u.e2o}
      /\ {v.ref : v \in second} = {LinkRef("o2o", l.source, l.qualifier, l.target) : l \in u.o2o}
  BY <1>2
<1> HIDE DEF first, second
<1>5. Naming(InSomeOrder(first), {v.ref : v \in first}) /\ Naming(InSomeOrder(second), {v.ref : v \in second})
  BY <1>3, OrderNamed
<1> QED BY <1>1, <1>4, <1>5, BothNamed DEF LinkRefs

\* Each entity in turn.
LEMMA EntitiesNamed ==
  ASSUME NEW u, Candid(u)
  PROVE  Naming(EntityVariables(u), (UNION {EventRefs(u, e) : e \in DOMAIN u.events})
                                      \union (UNION {ObjectRefs(u, o) : o \in DOMAIN u.objects}))
<1>1. PICK slots, entities : slots = InSomeOrder(DOMAIN u.events) /\ entities = InSomeOrder(DOMAIN u.objects)
  OBVIOUS
<1>2. /\ slots \in Seq(DOMAIN u.events) /\ Range(slots) = DOMAIN u.events
      /\ entities \in Seq(DOMAIN u.objects) /\ Range(entities) = DOMAIN u.objects
  BY <1>1, Ordering DEF IsOrder, Candid
<1>3. PICK m \in Nat : m = Len(slots) /\ DOMAIN slots = 1..m
  BY <1>2, LenProperties
<1>4. PICK n \in Nat : n = Len(entities) /\ DOMAIN entities = 1..n
  BY <1>2, LenProperties
<1> DEFINE ss == [i \in 1..m |-> EventVariables(u, slots[i])]
           os == [i \in 1..n |-> ObjectVariables(u, entities[i])]
           R == [i \in 1..m |-> EventRefs(u, slots[i])]
           Q == [i \in 1..n |-> ObjectRefs(u, entities[i])]
<1>5. EntityVariables(u) = FlattenSeq(ss) \o FlattenSeq(os)
  BY <1>1, <1>3, <1>4 DEF EntityVariables
<1>6. \A i \in 1..m : Naming(ss[i], R[i])
  BY <1>2, <1>3, EventNamed DEF Range
<1>7. \A i \in 1..n : Naming(os[i], Q[i])
  BY <1>2, <1>4, ObjectNamed DEF Range
<1>8. /\ DOMAIN ss = 1..m /\ Len(ss) = m /\ (m = 0 => ss = <<>>)
      /\ DOMAIN os = 1..n /\ Len(os) = n /\ (n = 0 => os = <<>>)
  OBVIOUS
<1>9. /\ UNION {R[i] : i \in 1..m} = UNION {EventRefs(u, e) : e \in DOMAIN u.events}
      /\ UNION {Q[i] : i \in 1..n} = UNION {ObjectRefs(u, o) : o \in DOMAIN u.objects}
  <2>1. /\ {slots[i] : i \in 1..m} = DOMAIN u.events
        /\ {entities[i] : i \in 1..n} = DOMAIN u.objects
    BY <1>2, <1>3, <1>4 DEF Range
  <2>2. /\ {R[i] : i \in 1..m} = {EventRefs(u, e) : e \in DOMAIN u.events}
        /\ {Q[i] : i \in 1..n} = {ObjectRefs(u, o) : o \in DOMAIN u.objects}
    BY <2>1
  <2> QED BY <2>2
<1> HIDE DEF ss, os, R, Q
<1>10. Naming(FlattenSeq(ss), UNION {R[i] : i \in 1..m}) /\ Naming(FlattenSeq(os), UNION {Q[i] : i \in 1..n})
  BY <1>6, <1>7, <1>8, AllNamed
<1>11. PICK a, b, A, B : /\ a = FlattenSeq(ss) /\ b = FlattenSeq(os)
                         /\ A = UNION {R[i] : i \in 1..m} /\ B = UNION {Q[i] : i \in 1..n}
  OBVIOUS
<1>12. Naming(a \o b, A \union B)
  BY <1>10, <1>11, BothNamed
<1> QED BY <1>5, <1>9, <1>11, <1>12

\* What is registered of a universe, and how.
LEMMA RegisterIs ==
  ASSUME NEW u, Candid(u), NEW z, z = Register(u)
  PROVE  Listed(z) /\ z.frozen /\ Blocks(z) /\ DOMAIN z.index = RefsOf(u)
<1>1. PICK vs : vs = EntityVariables(u) \o LinkVariables(u)
  OBVIOUS
<1>2. Naming(vs, RefsOf(u))
  BY <1>1, EntitiesNamed, LinksNamed, BothNamed DEF RefsOf
<1>3. \A ref \in RefsOf(u) : ref.family \in Range(FamilyOrder)
  <2>1. {"event_exists", "event_type", "event_time", "object_exists", "e2o", "o2o", "event_attr", "object_attr"}
           \subseteq Range(FamilyOrder)
    BY Families DEF FamilyOrder, Range
  <2>2. \A e : \A ref \in EventRefs(u, e) : ref.family \in {"event_exists", "event_type", "event_time", "event_attr"}
    BY RefShape DEF EventRefs
  <2>3. \A o : \A ref \in ObjectRefs(u, o) : ref.family \in {"object_exists", "object_attr"}
    BY RefShape DEF ObjectRefs
  <2>4. \A ref \in LinkRefs(u) : ref.family \in {"e2o", "o2o"}
    BY RefShape DEF LinkRefs
  <2> QED BY <2>1, <2>2, <2>3, <2>4 DEF RefsOf
<1>4. PICK r : r = AddedAll(vs)
  OBVIOUS
<1>5. Listed(r) /\ ~ r.frozen /\ DOMAIN r.index = RefsOf(u)
  BY <1>2, <1>3, <1>4, RegisteredIs
<1>6. z = Frozen(r)
  BY <1>1, <1>4 DEF Register
<1> QED BY <1>5, <1>6, FrozenKeeps

-----------------------------------------------------------------------------
(***************************************************************************)
(* The registry is that of the candidates, in each step                    *)
(***************************************************************************)

\* What the builder was told of is finite, and names are names.
Collected ==
  /\ ValidSchema(schema)
  /\ IsFiniteSet(DOMAIN events) /\ IsFiniteSet(DOMAIN objects) /\ IsFiniteSet(links)
  /\ links \subseteq LinkChoices
  /\ None \notin DOMAIN events /\ None \notin DOMAIN objects

Kept == registry # None => Listed(registry) /\ (registry.frozen => Blocks(registry))

ByCallers(r) ==
  \A i \in 1..Len(r.refs) : \E v \in Callers :
    v.ref = r.refs[i] /\ v.kind = r.kind[i] /\ Resolved(v.kind, v.cardinality) = r.card[i]

Called == (universe = None /\ registry # None) => ByCallers(registry)

Indexed ==
  universe # None =>
    /\ Candid(universe)
    /\ Listed(registry) /\ registry.frozen /\ Blocks(registry) /\ DOMAIN registry.index = RefsOf(universe)

RegistryInv == GroundingInv /\ Collected /\ Kept /\ Called /\ Indexed

LEMMA RegistryStarts == RegistryInit => RegistryInv
<1> SUFFICES ASSUME RegistryInit PROVE RegistryInv
  OBVIOUS
<1>1. GroundingInv
  BY GroundingInit DEF RegistryInit
<1>2. DOMAIN events = {} /\ DOMAIN objects = {}
  BY DEF RegistryInit, Init
<1>3. Collected
  BY <1>2, FS_EmptySet DEF Collected, RegistryInit, Init
<1> QED BY <1>1, <1>3 DEF RegistryInv, Kept, Called, Indexed, RegistryInit, Init

LEMMA WithFinite ==
  ASSUME NEW f, IsFiniteSet(DOMAIN f), None \notin DOMAIN f, NEW c, c.id # None
  PROVE  IsFiniteSet(DOMAIN With(f, c)) /\ None \notin DOMAIN With(f, c)
<1>1. DOMAIN With(f, c) = DOMAIN f \union {c.id}
  BY DEF With
<1> QED BY <1>1, FS_AddElement

\* build() makes a universe of finitely many candidates.
LEMMA BuildIsCandid ==
  ASSUME Known, Collected, NEW prune, \A l \in links : {l.source, l.target} \subseteq DOMAIN objects,
         NEW u, u = [events |-> events, objects |-> objects, e2o |-> Survivors(prune),
                     o2o |-> {l \in links : IsLegalO2O(l)}]
  PROVE  Candid(u)
<1>1. /\ u.events = events /\ u.objects = objects /\ u.e2o = Survivors(prune)
      /\ u.o2o = {l \in links : IsLegalO2O(l)}
  OBVIOUS
<1>2. IsFiniteSet(u.o2o)
  BY <1>1, FS_Subset DEF Collected
<1>3. \A l \in u.o2o : /\ l = [source |-> l.source, qualifier |-> l.qualifier, target |-> l.target]
                       /\ l.source \in DOMAIN objects /\ l.target \in DOMAIN objects /\ l.qualifier # None
  <2>1. \A l \in u.o2o : l \in links /\ l \in LinkChoices
    BY <1>1 DEF Collected
  <2> QED BY <2>1, RegistryAssumption
<1> DEFINE D == ((DOMAIN events) \X schema.e2o) \X (DOMAIN objects)
           g == [x \in D |-> [event |-> x[1][1], qualifier |-> x[1][2].qualifier, object |-> x[2]]]
<1>4. IsFiniteSet(D)
  <2>1. IsFiniteSet(schema.e2o)
    BY RegistryAssumption DEF Known
  <2>2. IsFiniteSet((DOMAIN events) \X schema.e2o)
    BY <2>1, FS_Product DEF Collected
  <2> QED BY <2>2, FS_Product DEF Collected
<1>5. ASSUME NEW l \in Survivors(prune)
      PROVE  \E e \in DOMAIN events, s \in schema.e2o, o \in DOMAIN objects :
               l = [event |-> e, qualifier |-> s.qualifier, object |-> o]
  <2>1. PICK x \in (DOMAIN events) \X schema.e2o \X (DOMAIN objects) :
           l = [event |-> x[1], qualifier |-> x[2].qualifier, object |-> x[3]]
    BY DEF Survivors
  <2>2. x[1] \in DOMAIN events /\ x[2] \in schema.e2o /\ x[3] \in DOMAIN objects
    BY <2>1
  <2> QED BY <2>1, <2>2
<1>6. ASSUME NEW l \in Survivors(prune)
      PROVE  l \in Range(g) /\ l = [event |-> l.event, qualifier |-> l.qualifier, object |-> l.object]
             /\ l.event \in DOMAIN events /\ l.object \in DOMAIN objects /\ l.qualifier # None
  <2>1. PICK e \in DOMAIN events, s \in schema.e2o, o \in DOMAIN objects :
           l = [event |-> e, qualifier |-> s.qualifier, object |-> o]
    BY <1>5
  <2>2. <<<<e, s>>, o>> \in D
    BY <2>1
  <2>3. g[<<<<e, s>>, o>>] = l
    BY <2>1, <2>2
  <2>4. l \in Range(g)
    BY <2>2, <2>3 DEF Range
  <2>5. l.event = e /\ l.qualifier = s.qualifier /\ l.object = o
    BY <2>1
  <2>6. s.qualifier # None
    BY RegistryAssumption DEF Known
  <2> HIDE DEF g, D
  <2> QED BY <2>1, <2>4, <2>5, <2>6
<1>7. IsFiniteSet(u.e2o)
  <2>1. DOMAIN g = D
    OBVIOUS
  <2> HIDE DEF g, D
  <2>2. IsFiniteSet(Range(g))
    BY <1>4, <2>1, FiniteRange
  <2>3. Survivors(prune) \subseteq Range(g)
    BY <1>6
  <2> QED BY <1>1, <2>2, <2>3, FS_Subset
<1>8. \A l \in u.e2o : /\ l = [event |-> l.event, qualifier |-> l.qualifier, object |-> l.object]
                       /\ l.event \in DOMAIN events /\ l.object \in DOMAIN objects /\ l.qualifier # None
  BY <1>1, <1>6
<1> QED BY <1>1, <1>2, <1>3, <1>7, <1>8 DEF Candid, Known, Collected

\* Variables, one more or reordered, are those of callers.
LEMMA AddedByCallers ==
  ASSUME NEW r, Listed(r), ByCallers(r), NEW v \in Callers, NEW z, z = Added(r, v)
  PROVE  Listed(z) /\ ByCallers(z) /\ z.frozen = r.frozen
<1>1. v.ref.family \in Range(FamilyOrder)
  BY RegistryAssumption
<1>2. Listed(z) /\ z.frozen = r.frozen
      /\ \A i \in 1..Len(z.refs) :
              \/ /\ i \in 1..Len(r.refs) /\ z.refs[i] = r.refs[i]
                 /\ z.kind[i] = r.kind[i] /\ z.card[i] = r.card[i]
              \/ /\ z.refs[i] = v.ref /\ z.kind[i] = v.kind
                 /\ z.card[i] = Resolved(v.kind, v.cardinality)
  BY <1>1, AddedKeeps
<1>3. ByCallers(z)
  <2> SUFFICES ASSUME NEW i \in 1..Len(z.refs)
               PROVE  \E w \in Callers : /\ w.ref = z.refs[i] /\ w.kind = z.kind[i]
                                         /\ Resolved(w.kind, w.cardinality) = z.card[i]
    BY DEF ByCallers
  <2> QED BY <1>2 DEF ByCallers
<1> QED BY <1>2, <1>3

LEMMA FrozenByCallers ==
  ASSUME NEW r, ByCallers(r), NEW z, Taken(z, r)
  PROVE  ByCallers(z)
<1> SUFFICES ASSUME NEW i \in 1..Len(z.refs)
             PROVE  \E w \in Callers : /\ w.ref = z.refs[i] /\ w.kind = z.kind[i]
                                       /\ Resolved(w.kind, w.cardinality) = z.card[i]
  BY DEF ByCallers
<1>1. PICK j \in 1..Len(r.refs) : z.refs[i] = r.refs[j] /\ z.kind[i] = r.kind[j] /\ z.card[i] = r.card[j]
  BY DEF Taken
<1> QED BY <1>1 DEF ByCallers

\* Each step of the registry is one of grounding, or leaves grounding alone.
LEMMA RegistryGrounds == RegistryNext => [Next]_vars
<1>1. ASSUME NEW v, AddVariable(v) PROVE UNCHANGED vars
  BY <1>1 DEF AddVariable
<1>2. ASSUME NEW c, NEW h, ActiveRefs(c, h) PROVE UNCHANGED vars
  BY <1>2 DEF ActiveRefs
<1> QED BY <1>1, <1>2 DEF RegistryNext, Freeze, Expand, BuildRegistered, Next

\* References are of a universe and a schema.
LEMMA SameRefs ==
  ASSUME NEW u, schema' = schema, universe' = u
  PROVE  RefsOf(universe)' = RefsOf(u)
<1>1. ASSUME NEW e PROVE EventRefs(universe, e)' = EventRefs(u, e)
  <2>1. SharedOf(universe, e)' = SharedOf(u, e)
    BY DEF SharedOf
  <2> QED BY <2>1 DEF EventRefs
<1>2. ASSUME NEW o PROVE ObjectRefs(universe, o)' = ObjectRefs(u, o)
  <2>1. Numeric(universe, o)' = Numeric(u, o)
    BY DEF Numeric
  <2> QED BY <2>1 DEF ObjectRefs
<1>3. LinkRefs(universe)' = LinkRefs(u)
  BY DEF LinkRefs
<1> QED BY <1>1, <1>2, <1>3 DEF RefsOf

LEMMA RegistrySteps ==
  ASSUME RegistryInv, [RegistryNext]_<<vars, registryVars>>
  PROVE  RegistryInv'
<1>1. [Next]_vars
  BY RegistryGrounds DEF vars, registryVars
<1>2. GroundingInv'
  BY <1>1, GroundingStep DEF RegistryInv
<1>3. ASSUME UNCHANGED <<vars, registry>> PROVE RegistryInv'
  <2>1. Collected'
    BY <1>3 DEF Collected, RegistryInv, vars, builder
  <2>2. Kept' /\ Called'
    BY <1>3 DEF Kept, Called, RegistryInv, vars
  <2>3. Indexed'
    <3>1. universe' = universe /\ schema' = schema /\ registry' = registry
      BY <1>3 DEF vars, builder
    <3>2. Candid(universe)' <=> Candid(universe)
      BY <3>1 DEF Candid
    <3>3. RefsOf(universe)' = RefsOf(universe)
      BY <3>1, SameRefs
    <3> QED BY <3>1, <3>2, <3>3 DEF Indexed, RegistryInv
  <2> QED BY <1>2, <2>1, <2>2, <2>3 DEF RegistryInv
<1>4. ASSUME NEW v \in Callers, AddVariable(v) PROVE RegistryInv'
  <2>1. CASE registry' = registry
    BY <1>3, <1>4, <2>1 DEF AddVariable
  <2>2. CASE registry' # registry
    <3>1. PICK r : r = IF registry = None THEN NewRegistry ELSE registry
      OBVIOUS
    <3>2. /\ registry' = Added(r, v) /\ ~ r.frozen /\ UNCHANGED vars /\ universe = None
      BY <1>4, <2>2, <3>1 DEF AddVariable, Refuses, Owning
    <3>3. Listed(r) /\ ByCallers(r)
      <4>1. CASE registry = None
        <5>1. Listed(NewRegistry) /\ Len(NewRegistry.refs) = 0
          BY EmptyIsListed, EmptySeq DEF NewRegistry
        <5> QED BY <3>1, <4>1, <5>1 DEF ByCallers
      <4>2. CASE registry # None
        BY <3>1, <3>2, <4>2 DEF RegistryInv, Kept, Called
      <4> QED BY <4>1, <4>2
    <3>4. Listed(registry') /\ ByCallers(registry') /\ registry'.frozen = r.frozen
      BY <3>2, <3>3, AddedByCallers
    <3>5. Kept' /\ Called'
      BY <3>2, <3>4 DEF Kept, Called
    <3>6. Collected' /\ Indexed'
      BY <3>2 DEF RegistryInv, Collected, Indexed, vars, builder
    <3> QED BY <1>2, <3>5, <3>6 DEF RegistryInv
  <2> QED BY <2>1, <2>2
<1>5. ASSUME Freeze PROVE RegistryInv'
  <2>1. CASE registry.frozen
    BY <1>3, <1>5, <2>1 DEF Freeze, Frozen
  <2>2. CASE ~ registry.frozen
    <3>1. Listed(registry) /\ ByCallers(registry) /\ universe = None /\ UNCHANGED vars
          /\ registry' = Frozen(registry)
      BY <1>5 DEF Freeze, Owning, RegistryInv, Kept, Called
    <3>2. PICK r, z : r = registry /\ z = Frozen(r)
      OBVIOUS
    <3>3. Listed(z) /\ Blocks(z) /\ Taken(z, r)
      BY <2>2, <3>1, <3>2, FrozenKeeps
    <3>4. ByCallers(z)
      BY <3>1, <3>2, <3>3, FrozenByCallers
    <3>5. Kept' /\ Called'
      BY <3>1, <3>2, <3>3, <3>4 DEF Kept, Called
    <3>6. Collected' /\ Indexed'
      BY <3>1 DEF RegistryInv, Collected, Indexed, vars, builder
    <3> QED BY <1>2, <3>5, <3>6 DEF RegistryInv
  <2> QED BY <2>1, <2>2
<1>6. ASSUME NEW c \in EventChoices, AddEvent(c), Aside PROVE RegistryInv'
  <2>1. c.id # None
    BY RegistryAssumption DEF RegistryInv, GroundingInv, Known
  <2>2. IsFiniteSet(DOMAIN events') /\ None \notin DOMAIN events'
    BY <1>6, <2>1, WithFinite DEF AddEvent, RegistryInv, Collected
  <2>3. universe = None /\ universe' = None /\ registry' = None
    BY <1>6 DEF AddEvent, Building, Aside, registryVars
  <2>4. Collected'
    BY <1>6, <2>2 DEF AddEvent, RegistryInv, Collected
  <2> QED BY <1>2, <2>3, <2>4 DEF RegistryInv, Kept, Called, Indexed
<1>7. ASSUME NEW c \in ObjectChoices, AddObject(c), Aside PROVE RegistryInv'
  <2>1. c.id # None
    BY RegistryAssumption DEF RegistryInv, GroundingInv, Known
  <2>2. IsFiniteSet(DOMAIN objects') /\ None \notin DOMAIN objects'
    BY <1>7, <2>1, WithFinite DEF AddObject, RegistryInv, Collected
  <2>3. universe = None /\ universe' = None /\ registry' = None
    BY <1>7 DEF AddObject, Building, Aside, registryVars
  <2>4. Collected'
    BY <1>7, <2>2 DEF AddObject, RegistryInv, Collected
  <2> QED BY <1>2, <2>3, <2>4 DEF RegistryInv, Kept, Called, Indexed
<1>8. ASSUME NEW l \in LinkChoices, AddLink(l), Aside PROVE RegistryInv'
  <2>1. IsFiniteSet(links') /\ links' \subseteq LinkChoices
    BY <1>8, FS_AddElement DEF AddLink, RegistryInv, Collected
  <2>2. universe = None /\ universe' = None /\ registry' = None
    BY <1>8 DEF AddLink, Building, Aside, registryVars
  <2>3. Collected'
    BY <1>8, <2>1 DEF AddLink, RegistryInv, Collected
  <2> QED BY <1>2, <2>2, <2>3 DEF RegistryInv, Kept, Called, Indexed
<1>9. ASSUME NEW prune \in BOOLEAN, BuildRegistered(prune), registry = None PROVE RegistryInv'
  <2>1. Collected' /\ UNCHANGED builder
    BY <1>9 DEF BuildRegistered, Build, builder, RegistryInv, Collected
  <2>2. CASE universe' = None
    <3>1. registry' = None
      BY <1>9, <2>2 DEF BuildRegistered
    <3> QED BY <1>2, <2>1, <2>2, <3>1 DEF RegistryInv, Kept, Called, Indexed
  <2>3. CASE universe' # None
    <3>1. PICK u : u = universe'
      OBVIOUS
    <3>2. /\ \A l \in links : {l.source, l.target} \subseteq DOMAIN objects
          /\ u = [events |-> events, objects |-> objects, e2o |-> Survivors(prune),
                  o2o |-> {l \in links : IsLegalO2O(l)}]
      BY <1>9, <2>3, <3>1 DEF BuildRegistered, Build, Building
    <3>3. Candid(u)
      BY <3>2, BuildIsCandid DEF RegistryInv, GroundingInv
    <3>4. registry' = Register(u) /\ schema' = schema
      BY <1>9, <2>1, <2>3, <3>1 DEF BuildRegistered, builder
    <3>5. PICK z : z = Register(u)
      OBVIOUS
    <3>6. Listed(z) /\ z.frozen /\ Blocks(z) /\ DOMAIN z.index = RefsOf(u)
      BY <3>3, <3>5, RegisterIs
    <3>7. Candid(universe)'
      BY <3>1, <3>3, <3>4 DEF Candid
    <3>8. RefsOf(universe)' = RefsOf(u)
      BY <3>1, <3>4, SameRefs
    <3> QED BY <1>2, <2>1, <2>3, <3>4, <3>5, <3>6, <3>7, <3>8 DEF RegistryInv, Kept, Called, Indexed
  <2> QED BY <2>2, <2>3
<1>10. ASSUME NEW c, NEW h, ActiveRefs(c, h) PROVE RegistryInv'
  BY <1>3, <1>10 DEF ActiveRefs
<1>11. ASSUME Expand PROVE RegistryInv'
  BY <1>3, <1>11 DEF Expand
<1>12. ASSUME NEW o \in Options, Ground(o), UNCHANGED registryVars PROVE RegistryInv'
  <2>1. /\ universe' = universe /\ schema' = schema /\ registry' = registry
        /\ UNCHANGED builder
    BY <1>12 DEF Ground, builder, registryVars
  <2>2. Candid(universe)' <=> Candid(universe)
    BY <2>1 DEF Candid
  <2>3. RefsOf(universe)' = RefsOf(universe)
    BY <2>1, SameRefs
  <2>4. Collected' /\ Kept' /\ Called'
    BY <2>1 DEF Collected, Kept, Called, RegistryInv, builder
  <2> QED BY <1>2, <2>1, <2>2, <2>3, <2>4 DEF Indexed, RegistryInv
<1>13. CASE UNCHANGED <<vars, registryVars>>
  BY <1>3, <1>13 DEF registryVars
<1> QED BY <1>4, <1>5, <1>6, <1>7, <1>8, <1>9, <1>10, <1>11, <1>12, <1>13 DEF RegistryNext

-----------------------------------------------------------------------------
(***************************************************************************)
(* Indices are dense, and variables are latent                             *)
(***************************************************************************)

LEMMA DenseInvariant == RegistryInv => IndicesAreDense
<1> SUFFICES ASSUME RegistryInv, registry # None, registry.frozen
             PROVE  /\ DOMAIN registry.index = Range(registry.refs)
                    /\ \A i \in DOMAIN registry.refs :
                         /\ registry.index[registry.refs[i]] = i
                         /\ {f \in DOMAIN registry.slices :
                               registry.slices[f].first <= i /\ i <= registry.slices[f].last} = {registry.refs[i].family}
                    /\ Owning => \A i \in DOMAIN registry.refs : \E v \in Callers :
                         v.ref = registry.refs[i] /\ v.kind = registry.kind[i] /\ Resolved(v.kind, v.cardinality) = registry.card[i]
  BY DEF IndicesAreDense
<1>1. Listed(registry) /\ Blocks(registry)
  BY DEF RegistryInv, Kept
<1>2. DOMAIN registry.refs = 1..Len(registry.refs)
  BY <1>1, LenProperties DEF Listed
<1>3. Owning => ByCallers(registry)
  BY DEF RegistryInv, Called, Owning
<1>4. \A i \in DOMAIN registry.refs : registry.index[registry.refs[i]] = i
  BY <1>1, <1>2 DEF Listed
<1>5. \A i \in DOMAIN registry.refs :
        {f \in DOMAIN registry.slices : registry.slices[f].first <= i /\ i <= registry.slices[f].last}
          = {registry.refs[i].family}
  BY <1>1, <1>2 DEF Blocks
<1>6. Owning => \A i \in DOMAIN registry.refs : \E v \in Callers :
         v.ref = registry.refs[i] /\ v.kind = registry.kind[i] /\ Resolved(v.kind, v.cardinality) = registry.card[i]
  BY <1>2, <1>3 DEF ByCallers
<1> QED BY <1>1, <1>4, <1>5, <1>6 DEF Listed

-----------------------------------------------------------------------------
\* The attributes of all types are at places of their own.
Placed(types, s) ==
  \A t, d \in DOMAIN types : \A a \in Range(types[t]), b \in Range(types[d]) :
    \E x, y \in 1..Len(s) : s[x] = a /\ s[y] = b /\ (x = y => t = d)

LEMMA ArePlaced ==
  ASSUME NEW types, NEW s, Placed(types, s), NEW t \in DOMAIN types, NEW d \in DOMAIN types,
         NEW a \in Range(types[t]), NEW b \in Range(types[d])
  PROVE  \E x, y \in 1..Len(s) : s[x] = a /\ s[y] = b /\ (x = y => t = d)
BY DEF Placed

LEMMA AttributesPlaced ==
  ASSUME NEW types, IsFiniteSet(DOMAIN types), \A t \in DOMAIN types : types[t] \in Seq(Range(types[t])),
         NEW s, s = AttributesOf(types)
  PROVE  s \in Seq(Range(s)) /\ Placed(types, s)
<1>1. PICK names : names = InSomeOrder(DOMAIN types)
  OBVIOUS
<1>2. names \in Seq(DOMAIN types) /\ Range(names) = DOMAIN types
  BY <1>1, Ordering DEF IsOrder
<1>3. PICK m \in Nat : m = Len(names) /\ DOMAIN names = 1..m
  BY <1>2, LenProperties
<1> DEFINE ss == [i \in 1..m |-> types[names[i]]]
           T == UNION {Range(types[t]) : t \in DOMAIN types}
<1>4. s = FlattenSeq(ss)
  BY <1>1, <1>3 DEF AttributesOf
<1>5. \A i \in 1..m : names[i] \in DOMAIN types /\ ss[i] = types[names[i]]
  BY <1>2, <1>3 DEF Range
<1>6. ASSUME NEW i \in 1..m PROVE ss[i] \in Seq(T)
  <2>1. ss[i] \in Seq(Range(ss[i])) /\ Range(ss[i]) \subseteq T
    BY <1>5
  <2> HIDE DEF T, ss
  <2> QED BY <2>1, SeqMonotonic
<1>7. DOMAIN ss = 1..m /\ Len(ss) = m /\ (m = 0 => ss = <<>>)
  OBVIOUS
<1>8. AreParts(ss, m, T)
  BY <1>6, <1>7 DEF AreParts
<1> HIDE DEF ss, T
<1>9. s \in Seq(T) /\ \E p : Laid(s, ss, m, p)
  BY <1>4, <1>8, Flattened
<1>10. PICK p : Laid(s, ss, m, p)
  BY <1>9
<1>11. ASSUME NEW t \in DOMAIN types, NEW a \in Range(types[t])
       PROVE  \E i \in 1..m : \E x \in 1..Len(s) : names[i] = t /\ s[x] = a /\ p[x][1] = i
  <2>1. PICK i \in 1..m : names[i] = t
    BY <1>2, <1>3 DEF Range
  <2>2. DOMAIN ss[i] = 1..Len(ss[i]) /\ ss[i] = types[t]
    BY <1>5, <1>6, <2>1, LenProperties
  <2>3. PICK j \in 1..Len(ss[i]) : ss[i][j] = a
    BY <2>2 DEF Range
  <2>4. PICK x \in 1..Len(s) : p[x] = <<i, j>>
    BY <1>10 DEF Laid
  <2>5. p[x][1] = i /\ p[x][2] = j
    BY <2>4
  <2>6. s[x] = ss[p[x][1]][p[x][2]]
    BY <1>10 DEF Laid
  <2>7. s[x] = a
    BY <2>3, <2>5, <2>6
  <2> QED BY <2>1, <2>5, <2>7
<1>12. ASSUME NEW t \in DOMAIN types, NEW d \in DOMAIN types, NEW a \in Range(types[t]), NEW b \in Range(types[d])
       PROVE  \E x, y \in 1..Len(s) : s[x] = a /\ s[y] = b /\ (x = y => t = d)
  <2>1. PICK i \in 1..m, x \in 1..Len(s) : names[i] = t /\ s[x] = a /\ p[x][1] = i
    BY <1>11
  <2>2. PICK j \in 1..m, y \in 1..Len(s) : names[j] = d /\ s[y] = b /\ p[y][1] = j
    BY <1>11
  <2> QED BY <2>1, <2>2
<1>13. s \in Seq(Range(s))
  BY <1>9, SeqOfRange
<1>14. Placed(types, s)
  BY <1>12 DEF Placed
<1> QED BY <1>13, <1>14

\* In a valid schema a name belongs to one type of events, and one of objects.
OneOwner(types) ==
  \A t, d \in DOMAIN types : \A a \in Range(types[t]), b \in Range(types[d]) : a.name = b.name => t = d

LEMMA OwnersAreUnique ==
  ASSUME NEW c \in Schemas, ValidSchema(c) PROVE OneOwner(c.events) /\ OneOwner(c.objects)
<1>1. PICK f, g : f = AttributesOf(c.events) /\ g = AttributesOf(c.objects)
  OBVIOUS
<1>2. /\ IsFiniteSet(DOMAIN c.events) /\ \A t \in DOMAIN c.events : c.events[t] \in Seq(Range(c.events[t]))
      /\ IsFiniteSet(DOMAIN c.objects) /\ \A t \in DOMAIN c.objects : c.objects[t] \in Seq(Range(c.objects[t]))
  BY RegistryAssumption
<1>3. f \in Seq(Range(f)) /\ Placed(c.events, f) /\ g \in Seq(Range(g)) /\ Placed(c.objects, g)
  BY <1>1, <1>2, AttributesPlaced
<1>4. PICK o : o = Owned(c)
  OBVIOUS
<1>5. o = f \o g
  BY <1>1, <1>4 DEF Owned
<1>6. PICK m \in Nat, n \in Nat : m = Len(f) /\ n = Len(g)
  BY <1>3, LenProperties
<1>7. /\ DOMAIN o = 1..m + n
      /\ \A i \in 1..m + n : o[i] = IF i <= m THEN f[i] ELSE g[i - m]
  <2> DEFINE T == Range(f) \union Range(g)
  <2>1. f \in Seq(T) /\ g \in Seq(T)
    BY <1>3, SeqMonotonic
  <2> HIDE DEF T
  <2>2. o \in Seq(T) /\ Len(o) = m + n /\ \A i \in 1..m + n : o[i] = IF i <= m THEN f[i] ELSE g[i - m]
    BY <1>5, <1>6, <2>1, ConcatProperties
  <2> QED BY <2>2, LenProperties
<1>8. \A i, j \in 1..m + n : o[i].name = o[j].name => i = j
  BY <1>4, <1>7 DEF ValidSchema, OwnersUnique
<1>9. ASSUME NEW x \in 1..m, NEW y \in 1..m, f[x].name = f[y].name PROVE x = y
  <2>1. x \in 1..m + n /\ y \in 1..m + n /\ o[x] = f[x] /\ o[y] = f[y]
    BY <1>7
  <2> QED BY <1>8, <1>9, <2>1
<1>10. ASSUME NEW x \in 1..n, NEW y \in 1..n, g[x].name = g[y].name PROVE x = y
  <2>1. m + x \in 1..m + n /\ m + y \in 1..m + n /\ ~ (m + x <= m) /\ ~ (m + y <= m) /\ (m + x) - m = x /\ (m + y) - m = y
    OBVIOUS
  <2>2. o[m + x] = g[x] /\ o[m + y] = g[y]
    BY <1>7, <2>1
  <2>3. m + x = m + y
    BY <1>8, <1>10, <2>1, <2>2
  <2> QED BY <2>3
<1>11. OneOwner(c.events)
  <2> SUFFICES ASSUME NEW t \in DOMAIN c.events, NEW d \in DOMAIN c.events,
                      NEW a \in Range(c.events[t]), NEW b \in Range(c.events[d]), a.name = b.name
               PROVE  t = d
    BY DEF OneOwner
  <2>1. PICK x, y \in 1..Len(f) : f[x] = a /\ f[y] = b /\ (x = y => t = d)
    <3>1. Placed(c.events, f)
      BY <1>3
    <3>2. PICK types : types = c.events
      OBVIOUS
    <3>3. Placed(types, f) /\ t \in DOMAIN types /\ d \in DOMAIN types /\ a \in Range(types[t]) /\ b \in Range(types[d])
      BY <3>1, <3>2
    <3>4. \E x, y \in 1..Len(f) : f[x] = a /\ f[y] = b /\ (x = y => t = d)
      BY <3>3, ArePlaced
    <3> QED BY <3>4
  <2> QED BY <1>6, <1>9, <2>1
<1>12. OneOwner(c.objects)
  <2> SUFFICES ASSUME NEW t \in DOMAIN c.objects, NEW d \in DOMAIN c.objects,
                      NEW a \in Range(c.objects[t]), NEW b \in Range(c.objects[d]), a.name = b.name
               PROVE  t = d
    BY DEF OneOwner
  <2>1. PICK x, y \in 1..Len(g) : g[x] = a /\ g[y] = b /\ (x = y => t = d)
    <3>1. Placed(c.objects, g)
      BY <1>3
    <3>2. PICK types : types = c.objects
      OBVIOUS
    <3>3. Placed(types, g) /\ t \in DOMAIN types /\ d \in DOMAIN types /\ a \in Range(types[t]) /\ b \in Range(types[d])
      BY <3>1, <3>2
    <3>4. \E x, y \in 1..Len(g) : g[x] = a /\ g[y] = b /\ (x = y => t = d)
      BY <3>3, ArePlaced
    <3> QED BY <3>4
  <2> QED BY <1>6, <1>10, <2>1
<1> QED BY <1>11, <1>12

\* What the references of one family say.
LEMMA FamilyOf ==
  ASSUME NEW u, NEW ref \in RefsOf(u)
  PROVE  /\ ref.family = "event_exists" => \E e \in DOMAIN u.events : ref = Ref("event_exists", e)
         /\ ref.family = "event_type" =>
              \E e \in DOMAIN u.events : Cardinality(u.events[e].support) > 1 /\ ref = Ref("event_type", e)
         /\ ref.family = "event_time" => \E e \in DOMAIN u.events : ref = Ref("event_time", e)
         /\ ref.family = "event_attr" =>
              \E e \in DOMAIN u.events : \E a \in SharedOf(u, e) : ref = AttrRef("event_attr", e, a.name)
         /\ ref.family = "object_exists" => \E o \in DOMAIN u.objects : ref = Ref("object_exists", o)
         /\ ref.family = "object_attr" =>
              \E o \in DOMAIN u.objects : \E a \in Numeric(u, o) : ref = AttrRef("object_attr", o, a.name)
         /\ ref.family = "e2o" => \E l \in u.e2o : ref = LinkRef("e2o", l.event, l.qualifier, l.object)
         /\ ref.family = "o2o" => \E l \in u.o2o : ref = LinkRef("o2o", l.source, l.qualifier, l.target)
         /\ ref.family \in {"event_exists", "event_type", "event_time", "event_attr", "object_exists", "object_attr",
                            "e2o", "o2o"}
<1>1. CASE \E e \in DOMAIN u.events : ref \in EventRefs(u, e)
  <2>1. PICK e \in DOMAIN u.events : ref \in EventRefs(u, e)
    BY <1>1
  <2>2. CASE ref = Ref("event_exists", e)
    BY <2>2, RefShape
  <2>3. CASE ref = Ref("event_time", e)
    BY <2>3, RefShape
  <2>4. CASE ref = Ref("event_type", e) /\ Cardinality(u.events[e].support) > 1
    <3>1. ref.family = "event_type"
      BY <2>4, RefShape
    <3> QED BY <2>4, <3>1
  <2>5. CASE \E a \in SharedOf(u, e) : ref = AttrRef("event_attr", e, a.name)
    BY <2>5, RefShape
  <2> QED BY <2>1, <2>2, <2>3, <2>4, <2>5 DEF EventRefs
<1>2. CASE \E o \in DOMAIN u.objects : ref \in ObjectRefs(u, o)
  <2>1. PICK o \in DOMAIN u.objects : ref \in ObjectRefs(u, o)
    BY <1>2
  <2>2. CASE ref = Ref("object_exists", o)
    BY <2>2, RefShape
  <2>3. CASE \E a \in Numeric(u, o) : ref = AttrRef("object_attr", o, a.name)
    BY <2>3, RefShape
  <2> QED BY <2>1, <2>2, <2>3 DEF ObjectRefs
<1>3. CASE ref \in LinkRefs(u)
  <2>1. CASE \E l \in u.e2o : ref = LinkRef("e2o", l.event, l.qualifier, l.object)
    BY <2>1, RefShape
  <2>2. CASE \E l \in u.o2o : ref = LinkRef("o2o", l.source, l.qualifier, l.target)
    <3>1. ref.family = "o2o"
      BY <2>2, RefShape
    <3> QED BY <2>2, <3>1
  <2> QED BY <1>3, <2>1, <2>2 DEF LinkRefs
<1> QED BY <1>1, <1>2, <1>3 DEF RefsOf

\* The references there are.
LEMMA AreRefs ==
  ASSUME NEW u
  PROVE  /\ \A e \in DOMAIN u.events :
              /\ Ref("event_exists", e) \in RefsOf(u)
              /\ Cardinality(u.events[e].support) > 1 => Ref("event_type", e) \in RefsOf(u)
         /\ \A l \in u.e2o : LinkRef("e2o", l.event, l.qualifier, l.object) \in RefsOf(u)
         /\ \A l \in u.o2o : LinkRef("o2o", l.source, l.qualifier, l.target) \in RefsOf(u)
<1>1. ASSUME NEW e \in DOMAIN u.events
      PROVE  /\ Ref("event_exists", e) \in EventRefs(u, e)
             /\ Cardinality(u.events[e].support) > 1 => Ref("event_type", e) \in EventRefs(u, e)
  BY DEF EventRefs
<1>2. \A l \in u.e2o : LinkRef("e2o", l.event, l.qualifier, l.object) \in LinkRefs(u)
  BY DEF LinkRefs
<1>3. \A l \in u.o2o : LinkRef("o2o", l.source, l.qualifier, l.target) \in LinkRefs(u)
  BY DEF LinkRefs
<1> QED BY <1>1, <1>2, <1>3 DEF RefsOf

LEMMA LatentInvariant == RegistryInv => VariablesAreLatent
<1> SUFFICES ASSUME RegistryInv, universe # None PROVE VariablesAreLatent
  BY DEF VariablesAreLatent
<1>1. PICK u : u = universe
  OBVIOUS
<1>2. Candid(u) /\ DOMAIN registry.index = RefsOf(u)
  BY <1>1 DEF RegistryInv, Indexed
<1>3. schema \in Schemas /\ OneOwner(schema.events) /\ OneOwner(schema.objects)
  BY OwnersAreUnique DEF RegistryInv, Collected, GroundingInv, Known
<1> DEFINE D == RefsOf(u)
           In(f) == {r \in D : r.family = f}
<1>4. \A f : Of(f) = In(f)
  BY <1>2 DEF Of
<1>5. \A r \in D : WellFormed(r)
  <2> SUFFICES ASSUME NEW r \in D PROVE WellFormed(r)
    OBVIOUS
  <2>1. CASE \E f, x : r = Ref(f, x) /\ f \notin LinkFamilies /\ f \notin AttributeFamilies
    BY <2>1, RefShape DEF WellFormed
  <2>2. CASE \E f, x, a : r = AttrRef(f, x, a) /\ f \in AttributeFamilies /\ a # None
    BY <2>2, RefShape DEF WellFormed, LinkFamilies, AttributeFamilies
  <2>3. CASE \E f, x, q, t : r = LinkRef(f, x, q, t) /\ f \in LinkFamilies /\ q # None /\ t # None
    BY <2>3, RefShape DEF WellFormed, LinkFamilies, AttributeFamilies
  <2>4. \A e \in DOMAIN u.events : \A a \in SharedOf(u, e) : a.name # None
    BY <1>2, <1>3, SharedFinite, RegistryAssumption
  <2>5. \A o \in DOMAIN u.objects : \A a \in Numeric(u, o) : a.name # None
    BY <1>2, <1>3, RegistryAssumption DEF Candid, Numeric
  <2>6. \A l \in u.e2o : l.qualifier # None /\ l.object # None
    BY <1>2 DEF Candid
  <2>7. \A l \in u.o2o : l.qualifier # None /\ l.target # None
    BY <1>2 DEF Candid
  <2>8. /\ \A f \in {"event_exists", "event_type", "event_time", "object_exists"} : f \notin LinkFamilies /\ f \notin AttributeFamilies
        /\ "e2o" \in LinkFamilies /\ "o2o" \in LinkFamilies
        /\ "event_attr" \in AttributeFamilies /\ "object_attr" \in AttributeFamilies
    BY DEF LinkFamilies, AttributeFamilies
  <2>9. CASE r.family \in {"event_exists", "event_type", "event_time", "object_exists"}
    BY <2>1, <2>8, <2>9, FamilyOf
  <2>10. CASE r.family \in {"event_attr", "object_attr"}
    BY <2>2, <2>4, <2>5, <2>8, <2>10, FamilyOf
  <2>11. CASE r.family \in {"e2o", "o2o"}
    BY <2>3, <2>6, <2>7, <2>8, <2>11, FamilyOf
  <2> QED BY <2>9, <2>10, <2>11, FamilyOf
<1>6. {r.subject : r \in In("event_exists")} = DOMAIN u.events
  <2>1. \A r \in In("event_exists") : r.subject \in DOMAIN u.events
    BY FamilyOf, RefShape
  <2>2. \A e \in DOMAIN u.events : Ref("event_exists", e) \in In("event_exists") /\ Ref("event_exists", e).subject = e
    <3>1. \A e \in DOMAIN u.events : Ref("event_exists", e) \in D
      BY AreRefs
    <3>2. \A e : Ref("event_exists", e).family = "event_exists" /\ Ref("event_exists", e).subject = e
      BY RefShape
    <3> QED BY <3>1, <3>2
  <2> HIDE DEF In, D
  <2> QED BY <2>1, <2>2
<1>7. {r.subject : r \in In("event_type")} = {e \in DOMAIN u.events : Cardinality(u.events[e].support) > 1}
  <2> DEFINE Open == {e \in DOMAIN u.events : Cardinality(u.events[e].support) > 1}
  <2>1. \A r \in In("event_type") : r.subject \in Open
    <3> SUFFICES ASSUME NEW r \in In("event_type") PROVE r.subject \in Open
      OBVIOUS
    <3>1. PICK e \in DOMAIN u.events : Cardinality(u.events[e].support) > 1 /\ r = Ref("event_type", e)
      BY FamilyOf
    <3>2. r.subject = e
      BY <3>1, RefShape
    <3> QED BY <3>1, <3>2
  <2>2. \A e \in Open : Ref("event_type", e) \in In("event_type") /\ Ref("event_type", e).subject = e
    <3>1. \A e \in Open : Ref("event_type", e) \in D
      BY AreRefs
    <3>2. \A e : Ref("event_type", e).family = "event_type" /\ Ref("event_type", e).subject = e
      BY RefShape
    <3> QED BY <3>1, <3>2
  <2> HIDE DEF In, D, Open
  <2>3. {r.subject : r \in In("event_type")} = Open
    BY <2>1, <2>2
  <2> QED BY <2>3 DEF Open
<1>8. {[event |-> r.subject, qualifier |-> r.qualifier, object |-> r.target] : r \in In("e2o")} = u.e2o
  <2>1. \A r \in In("e2o") : [event |-> r.subject, qualifier |-> r.qualifier, object |-> r.target] \in u.e2o
    <3> SUFFICES ASSUME NEW r \in In("e2o")
                 PROVE  [event |-> r.subject, qualifier |-> r.qualifier, object |-> r.target] \in u.e2o
      OBVIOUS
    <3>1. PICK l \in u.e2o : r = LinkRef("e2o", l.event, l.qualifier, l.object)
      BY FamilyOf
    <3>2. r.subject = l.event /\ r.qualifier = l.qualifier /\ r.target = l.object
      BY <3>1, RefShape
    <3> QED BY <1>2, <3>1, <3>2 DEF Candid
  <2>2. \A l \in u.e2o : \E r \in In("e2o") : l = [event |-> r.subject, qualifier |-> r.qualifier, object |-> r.target]
    <3> SUFFICES ASSUME NEW l \in u.e2o
                 PROVE  \E r \in In("e2o") : l = [event |-> r.subject, qualifier |-> r.qualifier, object |-> r.target]
      OBVIOUS
    <3>1. PICK r : r = LinkRef("e2o", l.event, l.qualifier, l.object)
      OBVIOUS
    <3>2. r \in D
      BY <3>1, AreRefs
    <3>3. r.family = "e2o" /\ r.subject = l.event /\ r.qualifier = l.qualifier /\ r.target = l.object
      BY <3>1, RefShape
    <3> QED BY <1>2, <3>2, <3>3 DEF Candid
  <2> HIDE DEF In, D
  <2> QED BY <2>1, <2>2
<1>9. {[source |-> r.subject, qualifier |-> r.qualifier, target |-> r.target] : r \in In("o2o")} = u.o2o
  <2>1. \A r \in In("o2o") : [source |-> r.subject, qualifier |-> r.qualifier, target |-> r.target] \in u.o2o
    <3> SUFFICES ASSUME NEW r \in In("o2o")
                 PROVE  [source |-> r.subject, qualifier |-> r.qualifier, target |-> r.target] \in u.o2o
      OBVIOUS
    <3>1. PICK l \in u.o2o : r = LinkRef("o2o", l.source, l.qualifier, l.target)
      BY FamilyOf
    <3>2. r.subject = l.source /\ r.qualifier = l.qualifier /\ r.target = l.target
      BY <3>1, RefShape
    <3> QED BY <1>2, <3>1, <3>2 DEF Candid
  <2>2. \A l \in u.o2o : \E r \in In("o2o") : l = [source |-> r.subject, qualifier |-> r.qualifier, target |-> r.target]
    <3> SUFFICES ASSUME NEW l \in u.o2o
                 PROVE  \E r \in In("o2o") : l = [source |-> r.subject, qualifier |-> r.qualifier, target |-> r.target]
      OBVIOUS
    <3>1. PICK r : r = LinkRef("o2o", l.source, l.qualifier, l.target)
      OBVIOUS
    <3>2. r \in D
      BY <3>1, AreRefs
    <3>3. r.family = "o2o" /\ r.subject = l.source /\ r.qualifier = l.qualifier /\ r.target = l.target
      BY <3>1, RefShape
    <3> QED BY <1>2, <3>2, <3>3 DEF Candid
  <2> HIDE DEF In, D
  <2> QED BY <2>1, <2>2
<1>10. \A r \in In("event_attr") :
         \E t \in DOMAIN schema.events :
           u.events[r.subject].support = {t} /\ \E a \in Range(schema.events[t]) : a.name = r.attribute
  <2> SUFFICES ASSUME NEW r \in In("event_attr")
               PROVE  \E t \in DOMAIN schema.events :
                        u.events[r.subject].support = {t} /\ \E a \in Range(schema.events[t]) : a.name = r.attribute
    OBVIOUS
  <2>1. PICK e \in DOMAIN u.events : \E b \in SharedOf(u, e) : r = AttrRef("event_attr", e, b.name)
    BY FamilyOf
  <2>6. PICK a \in SharedOf(u, e) : r = AttrRef("event_attr", e, a.name)
    BY <2>1
  <2>2. r.subject = e /\ r.attribute = a.name
    BY <2>6, RefShape
  <2>3. /\ u.events[e].support # {} /\ u.events[e].support \subseteq DOMAIN schema.events
        /\ \A t \in u.events[e].support : a \in Range(schema.events[t])
    BY <1>2, <2>6, SharedFinite
  <2>4. PICK t \in u.events[e].support : TRUE
    BY <2>3
  <2>5. \A d \in u.events[e].support : d = t
    BY <1>3, <2>3, <2>4 DEF OneOwner
  <2> QED BY <2>2, <2>3, <2>4, <2>5
<1>11. \A r \in In("object_attr") :
         \A t \in DOMAIN schema.objects \ {u.objects[r.subject].type} :
           \A a \in Range(schema.objects[t]) : a.name # r.attribute
  <2> SUFFICES ASSUME NEW r \in In("object_attr"), NEW t \in DOMAIN schema.objects, t # u.objects[r.subject].type,
                      NEW a \in Range(schema.objects[t]), a.name = r.attribute
               PROVE  FALSE
    OBVIOUS
  <2>1. PICK o \in DOMAIN u.objects : \E d \in Numeric(u, o) : r = AttrRef("object_attr", o, d.name)
    BY FamilyOf
  <2>4. PICK b \in Numeric(u, o) : r = AttrRef("object_attr", o, b.name)
    BY <2>1
  <2>2. r.subject = o /\ r.attribute = b.name
    BY <2>4, RefShape
  <2>3. u.objects[o].type \in DOMAIN schema.objects /\ b \in Range(schema.objects[u.objects[o].type])
    BY <1>2, RegistryAssumption DEF Candid, Numeric
  <2> QED BY <1>3, <2>2, <2>3 DEF OneOwner
<1> HIDE DEF In
<1> QED BY <1>1, <1>2, <1>4, <1>5, <1>6, <1>7, <1>8, <1>9, <1>10, <1>11 DEF VariablesAreLatent, TypeOf

-----------------------------------------------------------------------------
(***************************************************************************)
(* Regions                                                                 *)
(***************************************************************************)

\* One hop more.
LEMMA WithinNext ==
  ASSUME NEW reg, NEW claimed, NEW k \in Nat
  PROVE  Reach(reg, claimed, k + 1) = Reach(reg, claimed, k) \union Beside(reg, Reach(reg, claimed, k))
<1>1. PICK f : Hopping(f, reg, claimed, k)
  BY Spreading
<1>2. PICK g : Hopping(g, reg, claimed, k + 1)
  <2>1. k + 1 \in Nat
    OBVIOUS
  <2> QED BY <2>1, Spreading
<1> DEFINE Same == {j \in 0..k : f[j] = g[j]}
<1>3. 0 \in Same
  <2>1. f[0] = g[0]
    BY <1>1, <1>2 DEF Hopping
  <2> QED BY <2>1
<1>4. ASSUME NEW j \in 0..k - 1, j \in Same PROVE j + 1 \in Same
  <2>1. j + 1 \in 0..k /\ j \in 0..(k + 1) - 1 /\ f[j] = g[j]
    BY <1>4
  <2>2. f[j + 1] = f[j] \union Beside(reg, f[j])
    BY <1>1 DEF Hopping
  <2>3. g[j + 1] = g[j] \union Beside(reg, g[j])
    BY <1>2, <2>1 DEF Hopping
  <2> QED BY <2>1, <2>2, <2>3
<1>5. k \in Same
  <2> HIDE DEF Same
  <2>1. \A j \in 0..k : j \in Same
    BY <1>3, <1>4, CountingTo
  <2> QED BY <2>1
<1>6. f[k] = g[k] /\ k \in 0..(k + 1) - 1
  BY <1>5
<1>7. Reach(reg, claimed, k) = f[k] /\ Reach(reg, claimed, k + 1) = g[k + 1]
  BY <1>1, <1>2 DEF Hopping
<1>8. g[k + 1] = g[k] \union Beside(reg, g[k])
  BY <1>2, <1>6 DEF Hopping
<1> QED BY <1>6, <1>7, <1>8

LEMMA WithinNone ==
  ASSUME NEW reg, NEW claimed PROVE Reach(reg, claimed, 0) = Range(claimed) \intersect DOMAIN reg.index
<1>1. PICK f : Hopping(f, reg, claimed, 0)
  BY Spreading
<1> QED BY <1>1 DEF Hopping

\* More hops reach no less, and nothing outside the registry.
LEMMA WithinGrows ==
  ASSUME NEW reg, NEW claimed, NEW hops \in Nat
  PROVE  \A k \in 0..hops : /\ Reach(reg, claimed, k) \subseteq Reach(reg, claimed, hops)
                            /\ Reach(reg, claimed, k) \subseteq DOMAIN reg.index
<1> DEFINE D == DOMAIN reg.index
           Up == {n \in Nat : Reach(reg, claimed, n) \subseteq D /\ \A k \in 0..n : Reach(reg, claimed, k) \subseteq Reach(reg, claimed, n)}
<1>1. 0 \in Up
  BY WithinNone
<1>2. ASSUME NEW n \in Nat, n \in Up PROVE n + 1 \in Up
  <2>1. Reach(reg, claimed, n + 1) = Reach(reg, claimed, n) \union Beside(reg, Reach(reg, claimed, n))
    BY WithinNext
  <2>2. Beside(reg, Reach(reg, claimed, n)) \subseteq D
    BY DEF Beside
  <2>3. \A k \in 0..n + 1 : k \in 0..n \/ k = n + 1
    OBVIOUS
  <2> QED BY <1>2, <2>1, <2>2, <2>3
<1>3. Nat \subseteq Up
  <2> HIDE DEF Up
  <2> QED BY <1>1, <1>2, Counting
<1>4. \A k \in 0..hops : k \in Nat /\ k \in Up /\ hops \in Up
  BY <1>3
<1> QED BY <1>4

\* A region that a hop adds nothing to is complete.
LEMMA WithinCloses ==
  ASSUME NEW reg, NEW claimed, NEW hops \in Nat, NEW d \in 0..hops,
         Reach(reg, claimed, d + 1) = Reach(reg, claimed, d)
  PROVE  Reach(reg, claimed, hops) = Reach(reg, claimed, d)
<1> DEFINE Stays == {n \in Nat : Reach(reg, claimed, d + n) = Reach(reg, claimed, d)}
<1>1. 0 \in Stays
  OBVIOUS
<1>2. ASSUME NEW n \in Nat, n \in Stays PROVE n + 1 \in Stays
  <2>1. d + n \in Nat /\ d + (n + 1) = (d + n) + 1 /\ d \in Nat
    OBVIOUS
  <2>2. Reach(reg, claimed, (d + n) + 1) = Reach(reg, claimed, d + n) \union Beside(reg, Reach(reg, claimed, d + n))
    BY <2>1, WithinNext
  <2>3. Reach(reg, claimed, d + 1) = Reach(reg, claimed, d) \union Beside(reg, Reach(reg, claimed, d))
    BY <2>1, WithinNext
  <2> QED BY <1>2, <2>1, <2>2, <2>3
<1>3. Nat \subseteq Stays
  <2> HIDE DEF Stays
  <2> QED BY <1>1, <1>2, Counting
<1>4. hops - d \in Nat /\ d + (hops - d) = hops
  OBVIOUS
<1> QED BY <1>3, <1>4

-----------------------------------------------------------------------------
\* A search of references at d hops: those have been seen; what was seen beyond
\* them is still in the frontier; each of them is in the frontier or has been
\* left; and the frontier is in the order of hops.
At(reg, g, d) ==
  /\ d \in 0..g.hops
  /\ Reach(reg, g.claimed, d) \subseteq g.seen
  /\ \A r \in g.seen : r \in Reach(reg, g.claimed, d) \/ \E i \in 1..Len(g.frontier) : g.frontier[i] = <<r, d + 1>>
  /\ d < g.hops => \A r \in Reach(reg, g.claimed, d) :
       (\E i \in 1..Len(g.frontier) : g.frontier[i] = <<r, d>>) \/ Beside(reg, {r}) \subseteq g.seen
  /\ \A i, j \in 1..Len(g.frontier) : i <= j => g.frontier[i][2] <= g.frontier[j][2]
  /\ \A i \in 1..Len(g.frontier) : g.frontier[i][2] \in {d, d + 1}

\* A region with what it has found, and how far from the claimed references.
Found(reg, g) ==
  /\ g = [claimed |-> g.claimed, hops |-> g.hops, seen |-> g.seen, frontier |-> g.frontier]
  /\ g.hops \in Nat
  /\ g.frontier \in Seq((DOMAIN reg.index) \X Nat)
  /\ g.seen \subseteq Reach(reg, g.claimed, g.hops)
  /\ \A i \in 1..Len(g.frontier) :
       g.frontier[i][2] \in 0..g.hops /\ g.frontier[i][1] \in Reach(reg, g.claimed, g.frontier[i][2])

Settled(reg, g) ==
  IF g.frontier = <<>> THEN g.seen = Reach(reg, g.claimed, g.hops) ELSE At(reg, g, g.frontier[1][2])

\* When nothing at d hops is left, those at d + 1 are next, or all are seen.
LEMMA Settling ==
  ASSUME NEW reg, NEW g, Found(reg, g), NEW d, At(reg, g, d) PROVE Settled(reg, g)
<1> DEFINE W(k) == Reach(reg, g.claimed, k)
           f == g.frontier
<1>1. g.hops \in Nat /\ d \in 0..g.hops /\ d \in Nat /\ d + 1 \in Nat
  BY DEF At, Found
<1>2. W(d + 1) = W(d) \union Beside(reg, W(d))
  BY <1>1, WithinNext
<1>3. ASSUME d < g.hops, \A i \in 1..Len(f) : f[i][2] # d PROVE W(d + 1) \subseteq g.seen /\ \A r \in W(d) : Beside(reg, {r}) \subseteq g.seen
  <2>1. \A r \in W(d) : Beside(reg, {r}) \subseteq g.seen
    <3>1. \A r : <<r, d>>[2] = d
      OBVIOUS
    <3> QED BY <1>3, <3>1 DEF At
  <2>2. \A x \in Beside(reg, W(d)) : \E r \in W(d) : x \in Beside(reg, {r})
    BY DEF Beside
  <2> QED BY <1>2, <2>1, <2>2 DEF At
<1>4. CASE f = <<>>
  <2>1. Len(f) = 0
    BY <1>4
  <2>2. CASE d = g.hops
    <3>1. g.seen \subseteq Reach(reg, g.claimed, g.hops)
      BY DEF Found
    <3>2. Reach(reg, g.claimed, g.hops) \subseteq g.seen
      BY <2>2 DEF At
    <3>3. g.seen = Reach(reg, g.claimed, g.hops)
      BY <3>1, <3>2
    <3> QED BY <1>4, <3>3 DEF Settled
  <2>3. CASE d < g.hops
    <3>1. W(d + 1) \subseteq g.seen
      BY <1>3, <2>1, <2>3
    <3>2. g.seen = W(d)
      <4>1. \A i : i \notin 1..Len(f)
        BY <2>1
      <4>2. W(d) \subseteq g.seen
        BY DEF At
      <4>3. \A r \in g.seen : r \in W(d)
        BY <4>1 DEF At
      <4> QED BY <4>2, <4>3
    <3>3. W(d + 1) = W(d)
      BY <1>2, <3>1, <3>2
    <3>4. Reach(reg, g.claimed, g.hops) = Reach(reg, g.claimed, d)
      BY <1>1, <3>3, WithinCloses
    <3> QED BY <1>4, <3>2, <3>4 DEF Settled
  <2> QED BY <1>1, <2>2, <2>3
<1>5. CASE f # <<>>
  <2>1. Len(f) \in Nat /\ 1 \in 1..Len(f)
    BY <1>5, LenProperties, EmptySeq DEF Found
  <2>2. f[1][2] \in {d, d + 1} /\ f[1][2] \in 0..g.hops
    BY <2>1 DEF At, Found
  <2>3. CASE f[1][2] = d
    BY <1>5, <2>3 DEF Settled
  <2>4. CASE f[1][2] = d + 1
    <3>1. \A i \in 1..Len(f) : f[i][2] = d + 1
      <4> SUFFICES ASSUME NEW i \in 1..Len(f) PROVE f[i][2] = d + 1
        OBVIOUS
      <4>1. f[i][2] \in {d, d + 1} /\ f[1][2] <= f[i][2]
        BY <2>1 DEF At
      <4> QED BY <1>1, <2>4, <4>1
    <3>2. d < g.hops /\ d + 1 \in 0..g.hops
      BY <1>1, <2>2, <2>4
    <3>3. W(d + 1) \subseteq g.seen /\ \A r \in W(d) : Beside(reg, {r}) \subseteq g.seen
      BY <1>1, <1>3, <3>1, <3>2
    <3>4. \A r \in g.seen : r \in W(d) \/ \E i \in 1..Len(f) : f[i] = <<r, d + 1>>
      BY DEF At
    <3>5. \A r \in g.seen : r \in W(d + 1)
      <4>1. \A i \in 1..Len(f) : f[i][1] \in W(d + 1)
        BY <3>1 DEF Found
      <4>2. \A r : <<r, d + 1>>[1] = r
        OBVIOUS
      <4> QED BY <1>2, <3>4, <4>1, <4>2
    <3>6. \A r \in W(d + 1) : (\E i \in 1..Len(f) : f[i] = <<r, d + 1>>) \/ Beside(reg, {r}) \subseteq g.seen
      BY <3>3, <3>4
    <3>7. \A i, j \in 1..Len(f) : i <= j => f[i][2] <= f[j][2]
      BY DEF At
    <3>8. At(reg, g, d + 1)
      BY <3>1, <3>2, <3>3, <3>5, <3>6, <3>7 DEF At
    <3> QED BY <1>5, <2>4, <3>8 DEF Settled
  <2> QED BY <2>2, <2>3, <2>4
<1> QED BY <1>4, <1>5

\* A queue whose head has been taken and to which others have been put.
Queued(s, f, next) ==
  /\ Len(f) \in Nat \ {0} /\ Len(next) \in Nat /\ Len(s) = (Len(f) - 1) + Len(next)
  /\ \A i \in 1..Len(f) - 1 : s[i] = f[i + 1]
  /\ \A i \in 1..Len(s) : i \notin 1..Len(f) - 1 =>
       i - (Len(f) - 1) \in 1..Len(next) /\ s[i] = next[i - (Len(f) - 1)]
  /\ \A j \in 1..Len(next) : (Len(f) - 1) + j \in 1..Len(s) /\ s[(Len(f) - 1) + j] = next[j]

LEMMA Queueing ==
  ASSUME NEW T, NEW f \in Seq(T), f # <<>>, NEW next \in Seq(T), NEW s, s = Tail(f) \o next
  PROVE  s \in Seq(T) /\ Queued(s, f, next)
<1>1. PICK t : t = Tail(f)
  OBVIOUS
<1>2. /\ t \in Seq(T) /\ Len(f) \in Nat \ {0} /\ Len(t) = Len(f) - 1 /\ Len(next) \in Nat
      /\ \A i \in 1..Len(t) : t[i] = f[i + 1]
  BY <1>1, HeadTailProperties, LenProperties, EmptySeq
<1>3. PICK n \in Nat, m \in Nat : n = Len(t) /\ m = Len(next)
  BY <1>2
<1>4. s \in Seq(T) /\ Len(s) = n + m /\ \A i \in 1..n + m : s[i] = IF i <= n THEN t[i] ELSE next[i - n]
  BY <1>1, <1>2, <1>3, ConcatProperties
<1>5. \A i \in 1..n : s[i] = f[i + 1]
  <2> SUFFICES ASSUME NEW i \in 1..n PROVE s[i] = f[i + 1]
    OBVIOUS
  <2>1. i \in 1..n + m /\ i <= n
    OBVIOUS
  <2> QED BY <1>2, <1>3, <1>4, <2>1
<1>6. ASSUME NEW i \in 1..n + m, i \notin 1..n PROVE i - n \in 1..m /\ s[i] = next[i - n]
  <2>1. ~ (i <= n) /\ i - n \in 1..m
    BY <1>6
  <2> QED BY <1>4, <2>1
<1>7. ASSUME NEW j \in 1..m PROVE n + j \in 1..n + m /\ s[n + j] = next[j]
  <2>1. n + j \in 1..n + m /\ ~ (n + j <= n) /\ (n + j) - n = j
    OBVIOUS
  <2> QED BY <1>4, <2>1
<1>8. n = Len(f) - 1
  BY <1>2, <1>3
<1> QED BY <1>2, <1>3, <1>4, <1>5, <1>6, <1>7, <1>8 DEF Queued

\* What is found next to the head, one hop further.
Ahead(reg, g, next, N) ==
  LET head == g.frontier[1] IN
  /\ next \in Seq((DOMAIN reg.index) \X Nat)
  /\ \A j \in 1..Len(next) : \E r \in N : next[j] = <<r, head[2] + 1>>
  /\ \A r \in N : \E j \in 1..Len(next) : next[j] = <<r, head[2] + 1>>
  /\ N \subseteq Beside(reg, {head[1]})
  /\ N # {} => head[2] < g.hops
  /\ head[2] < g.hops => Beside(reg, {head[1]}) \subseteq g.seen \union N

Advanced(z, g, N, s) ==
  z = [claimed |-> g.claimed, hops |-> g.hops, seen |-> g.seen \union N, frontier |-> s]

LEMMA Advancing ==
  ASSUME NEW reg, NEW g, Found(reg, g), Settled(reg, g), g.frontier # <<>>, NEW next, NEW N, Ahead(reg, g, next, N), NEW s, s = Tail(g.frontier) \o next,
         NEW z, Advanced(z, g, N, s)
  PROVE  Found(reg, z) /\ Settled(reg, z)
<1>1. PICK f : f = g.frontier
  OBVIOUS
<1>2. PICK h, d : h = f[1][1] /\ d = f[1][2]
  OBVIOUS
<1> DEFINE D == (DOMAIN reg.index) \X Nat
<1>3. f \in Seq(D) /\ next \in Seq(D) /\ s = Tail(f) \o next /\ f # <<>>
  BY <1>1 DEF Found, Ahead
<1>4. s \in Seq(D) /\ Queued(s, f, next)
  <2> HIDE DEF D
  <2> QED BY <1>3, Queueing
<1>5. PICK n \in Nat, m \in Nat : n = Len(f) - 1 /\ m = Len(next)
  <2>1. Len(f) - 1 \in Nat /\ Len(next) \in Nat
    BY <1>4 DEF Queued
  <2> QED BY <2>1
<1>6. /\ Len(f) = n + 1 /\ Len(s) = n + m
      /\ \A i \in 1..n : s[i] = f[i + 1] /\ i \in 1..n + m
      /\ \A i \in 1..n + m : i \notin 1..n => i - n \in 1..m /\ s[i] = next[i - n]
      /\ \A j \in 1..m : n + j \in 1..n + m /\ s[n + j] = next[j]
  <2>1. Len(f) \in Nat \ {0}
    BY <1>4 DEF Queued
  <2>2. Len(f) = n + 1
    BY <1>5, <2>1
  <2>3. Len(s) = n + m
    BY <1>4, <1>5 DEF Queued
  <2>4. \A i \in 1..n : s[i] = f[i + 1]
    BY <1>4, <1>5 DEF Queued
  <2>5. \A i \in 1..n : i \in 1..n + m
    OBVIOUS
  <2>6. \A i \in 1..n + m : i \notin 1..n => i - n \in 1..m /\ s[i] = next[i - n]
    BY <1>4, <1>5, <2>3 DEF Queued
  <2>7. \A j \in 1..m : n + j \in 1..n + m /\ s[n + j] = next[j]
    BY <1>4, <1>5, <2>3 DEF Queued
  <2> QED BY <2>2, <2>3, <2>4, <2>5, <2>6, <2>7
<1>7. At(reg, g, d) /\ d \in Nat /\ g.hops \in Nat /\ d \in 0..g.hops
  <2>1. At(reg, g, g.frontier[1][2])
    BY DEF Settled
  <2>2. At(reg, g, d)
    BY <1>1, <1>2, <2>1
  <2>3. g.hops \in Nat
    BY DEF Found
  <2>4. d \in 0..g.hops
    BY <2>2 DEF At
  <2> QED BY <2>2, <2>3, <2>4
<1>8. /\ z.claimed = g.claimed /\ z.hops = g.hops /\ z.seen = g.seen \union N /\ z.frontier = s
      /\ z = [claimed |-> z.claimed, hops |-> z.hops, seen |-> z.seen, frontier |-> z.frontier]
  BY DEF Advanced
<1>9. /\ \A j \in 1..m : \E r \in N : next[j] = <<r, d + 1>>
      /\ \A r \in N : \E j \in 1..m : next[j] = <<r, d + 1>>
      /\ N \subseteq Beside(reg, {h})
      /\ N # {} => d < g.hops
      /\ d < g.hops => Beside(reg, {h}) \subseteq g.seen \union N
  BY <1>1, <1>2, <1>5 DEF Ahead
<1>10. /\ \A r, k : <<r, k>>[1] = r /\ <<r, k>>[2] = k
       /\ 1 \in 1..n + 1 /\ \A i \in 1..n : i + 1 \in 1..n + 1
       /\ \A i \in 1..n + 1 : i # 1 => i - 1 \in 1..n /\ (i - 1) + 1 = i
  OBVIOUS
<1>11. ASSUME NEW i \in 1..n + 1, i # 1 PROVE i - 1 \in 1..n + m /\ s[i - 1] = f[i]
  <2>1. i - 1 \in 1..n /\ (i - 1) + 1 = i
    BY <1>10, <1>11
  <2>2. s[i - 1] = f[(i - 1) + 1] /\ i - 1 \in 1..n + m
    BY <1>6, <2>1
  <2> QED BY <2>1, <2>2
<1>12. h \in Reach(reg, g.claimed, d)
  BY <1>1, <1>2, <1>6, <1>10 DEF Found
<1>13. N # {} => N \subseteq Reach(reg, g.claimed, d + 1) /\ d + 1 \in 0..g.hops
  <2>1. Beside(reg, {h}) \subseteq Beside(reg, Reach(reg, g.claimed, d))
    BY <1>12 DEF Beside
  <2>2. Reach(reg, g.claimed, d + 1) = Reach(reg, g.claimed, d) \union Beside(reg, Reach(reg, g.claimed, d))
    BY <1>7, WithinNext
  <2>3. d < g.hops => d + 1 \in 0..g.hops
    BY <1>7
  <2> QED BY <1>9, <2>1, <2>2, <2>3
<1>14. Found(reg, z)
  <2>1. z.seen \subseteq Reach(reg, g.claimed, g.hops)
    <3>1. g.seen \subseteq Reach(reg, g.claimed, g.hops)
      BY DEF Found
    <3>2. N # {} => Reach(reg, g.claimed, d + 1) \subseteq Reach(reg, g.claimed, g.hops)
      BY <1>7, <1>13, WithinGrows
    <3> QED BY <1>8, <1>13, <3>1, <3>2
  <2>2. ASSUME NEW i \in 1..n + m PROVE s[i][2] \in 0..g.hops /\ s[i][1] \in Reach(reg, g.claimed, s[i][2])
    <3>1. CASE i \in 1..n
      <4>1. s[i] = f[i + 1] /\ i + 1 \in 1..n + 1
        BY <1>6, <1>10, <3>1
      <4>2. f[i + 1][2] \in 0..g.hops /\ f[i + 1][1] \in Reach(reg, g.claimed, f[i + 1][2])
        BY <1>1, <1>6, <4>1 DEF Found
      <4> QED BY <4>1, <4>2
    <3>2. CASE i \notin 1..n
      <4>1. PICK r \in N : s[i] = <<r, d + 1>>
        BY SMTT(30), ZenonT(30), <1>6, <1>9, <3>2
      <4>2. s[i][1] = r /\ s[i][2] = d + 1
        <5>1. PICK x, k : x = s[i] /\ k = d + 1
          OBVIOUS
        <5>2. x = <<r, k>>
          BY <4>1, <5>1
        <5>3. x[1] = r /\ x[2] = k
          BY <5>2
        <5> QED BY <5>1, <5>3
      <4> QED BY <1>13, <4>2
    <3> QED BY <3>1, <3>2
  <2> QED BY <1>4, <1>6, <1>7, <1>8, <2>1, <2>2 DEF Found
<1>15. At(reg, z, d)
  <2>1. Reach(reg, g.claimed, d) \subseteq z.seen
    BY <1>7, <1>8 DEF At
  <2>2. ASSUME NEW r \in g.seen \union N
        PROVE  r \in Reach(reg, g.claimed, d) \/ \E i \in 1..n + m : s[i] = <<r, d + 1>>
    <3>1. CASE r \in N
      <4>1. PICK j \in 1..m : next[j] = <<r, d + 1>>
        BY <1>9, <3>1
      <4> QED BY <1>6, <4>1
    <3>2. CASE r \in g.seen
      <4>1. CASE r \in Reach(reg, g.claimed, d)
        BY <4>1
      <4>2. CASE r \notin Reach(reg, g.claimed, d)
        <5>1. PICK i \in 1..n + 1 : f[i] = <<r, d + 1>>
          BY <1>1, <1>6, <1>7, <3>2, <4>2 DEF At
        <5>2. i # 1
          <6>1. f[i][2] = d + 1
            BY <1>10, <5>1
          <6> QED BY <1>2, <1>7, <6>1
        <5> QED BY <1>11, <5>1, <5>2
      <4> QED BY <4>1, <4>2
    <3> QED BY <3>1, <3>2
  <2>3. ASSUME d < g.hops, NEW r \in Reach(reg, g.claimed, d)
        PROVE  (\E i \in 1..n + m : s[i] = <<r, d>>) \/ Beside(reg, {r}) \subseteq g.seen \union N
    <3>1. CASE Beside(reg, {r}) \subseteq g.seen
      BY <3>1
    <3>2. CASE \E i \in 1..n + 1 : f[i] = <<r, d>>
      <4>1. PICK i \in 1..n + 1 : f[i] = <<r, d>>
        BY <3>2
      <4>2. CASE i = 1
        <5>1. h = r
          BY <1>2, <1>10, <4>1, <4>2
        <5> QED BY <1>9, <2>3, <5>1
      <4>3. CASE i # 1
        BY <1>11, <4>1, <4>3
      <4> QED BY <4>2, <4>3
    <3> QED BY <1>1, <1>6, <1>7, <2>3, <3>1, <3>2 DEF At
  <2>4. ASSUME NEW i \in 1..n + m
        PROVE  /\ s[i][2] \in {d, d + 1}
               /\ i \notin 1..n => s[i][2] = d + 1
               /\ i \in 1..n => s[i] = f[i + 1] /\ i + 1 \in 1..n + 1
    <3>1. CASE i \in 1..n
      <4>1. s[i] = f[i + 1] /\ i + 1 \in 1..n + 1
        BY <1>6, <1>10, <3>1
      <4>2. f[i + 1][2] \in {d, d + 1}
        BY <1>1, <1>6, <1>7, <4>1 DEF At
      <4> QED BY <3>1, <4>1, <4>2
    <3>2. CASE i \notin 1..n
      <4>1. PICK r \in N : s[i] = <<r, d + 1>>
        BY SMTT(30), ZenonT(30), <1>6, <1>9, <3>2
      <4>2. s[i][2] = d + 1
        <5>1. PICK x, k : x = s[i] /\ k = d + 1
          OBVIOUS
        <5>2. x = <<r, k>>
          BY <4>1, <5>1
        <5>3. x[2] = k
          BY <5>2
        <5> QED BY <5>1, <5>3
      <4> QED BY <3>2, <4>2
    <3> QED BY <3>1, <3>2
  <2>5. ASSUME NEW i \in 1..n + m, NEW j \in 1..n + m, i <= j PROVE s[i][2] <= s[j][2]
    <3>1. CASE j \in 1..n
      <4>1. i \in 1..n /\ i + 1 <= j + 1
        BY <2>5, <3>1
      <4>2. s[i] = f[i + 1] /\ s[j] = f[j + 1] /\ i + 1 \in 1..n + 1 /\ j + 1 \in 1..n + 1
        BY <2>4, <3>1, <4>1
      <4>3. f[i + 1][2] <= f[j + 1][2]
        BY <1>1, <1>6, <1>7, <4>1, <4>2 DEF At
      <4> QED BY <4>2, <4>3
    <3>2. CASE j \notin 1..n
      <4>1. s[j][2] = d + 1 /\ s[i][2] \in {d, d + 1}
        BY <2>4, <3>2
      <4>2. d <= d + 1 /\ d + 1 <= d + 1
        BY <1>7
      <4> QED BY <4>1, <4>2
    <3> QED BY <3>1, <3>2
  <2>6. z.hops = g.hops /\ z.claimed = g.claimed /\ z.frontier = s /\ Len(s) = n + m /\ d \in 0..z.hops
    BY <1>6, <1>7, <1>8
  <2>7. \A r \in z.seen : r \in Reach(reg, z.claimed, d) \/ \E i \in 1..Len(z.frontier) : z.frontier[i] = <<r, d + 1>>
    BY <1>8, <2>2, <2>6
  <2>8. d < z.hops => \A r \in Reach(reg, z.claimed, d) :
          (\E i \in 1..Len(z.frontier) : z.frontier[i] = <<r, d>>) \/ Beside(reg, {r}) \subseteq z.seen
    BY <1>8, <2>3, <2>6
  <2>9. \A i, j \in 1..Len(z.frontier) : i <= j => z.frontier[i][2] <= z.frontier[j][2]
    BY <2>5, <2>6
  <2>10. \A i \in 1..Len(z.frontier) : z.frontier[i][2] \in {d, d + 1}
    BY <2>4, <2>6
  <2> QED BY <2>1, <2>6, <2>7, <2>8, <2>9, <2>10 DEF At
<1> QED BY <1>14, <1>15, Settling

\* What is claimed and registered, in the order of the claims.
Seed(reg, claimed) ==
  FlattenSeq([i \in DOMAIN claimed |-> IF claimed[i] \in DOMAIN reg.index THEN <<claimed[i]>> ELSE <<>>])

LEMMA SeedIs ==
  ASSUME NEW reg, NEW claimed, claimed \in Seq(Range(claimed)), NEW seed, seed = Seed(reg, claimed)
  PROVE  seed \in Seq(DOMAIN reg.index) /\ Range(seed) = Range(claimed) \intersect DOMAIN reg.index
<1>1. PICK n \in Nat : n = Len(claimed) /\ DOMAIN claimed = 1..n
  BY LenProperties
<1> DEFINE D == DOMAIN reg.index
           ss == [i \in 1..n |-> IF claimed[i] \in D THEN <<claimed[i]>> ELSE <<>>]
<1>2. seed = FlattenSeq(ss)
  BY <1>1 DEF Seed
<1>3. \A i \in 1..n : ss[i] = IF claimed[i] \in D THEN <<claimed[i]>> ELSE <<>>
  OBVIOUS
<1>4. DOMAIN ss = 1..n /\ Len(ss) = n /\ (n = 0 => ss = <<>>)
  OBVIOUS
<1> HIDE DEF ss, D
<1>14. ASSUME NEW i \in 1..n
       PROVE  /\ ss[i] \in Seq(D)
              /\ claimed[i] \in D => Len(ss[i]) = 1 /\ ss[i][1] = claimed[i]
              /\ claimed[i] \notin D => Len(ss[i]) = 0
  <2>1. CASE claimed[i] \in D
    <3>1. PICK r \in D : r = claimed[i]
      BY <2>1
    <3>2. ss[i] = <<r>>
      BY <1>3, <3>1
    <3>3. <<r>> \in Seq(D) /\ Len(<<r>>) = 1 /\ <<r>>[1] = r
      OBVIOUS
    <3> QED BY <3>1, <3>2, <3>3
  <2>2. CASE claimed[i] \notin D
    <3>1. ss[i] = <<>>
      BY <1>3, <2>2
    <3> QED BY <2>2, <3>1, EmptySeq
  <2> QED BY <2>1, <2>2
<1>5. \A i \in 1..n : ss[i] \in Seq(D)
  BY <1>14
<1>6. \A i \in 1..n : /\ claimed[i] \in D => Len(ss[i]) = 1 /\ ss[i][1] = claimed[i]
                      /\ claimed[i] \notin D => Len(ss[i]) = 0
  BY <1>14
<1>7. AreParts(ss, n, D)
  BY <1>4, <1>5 DEF AreParts
<1>8. seed \in Seq(D) /\ \E p : Laid(seed, ss, n, p)
  BY <1>2, <1>7, Flattened
<1>9. PICK p : Laid(seed, ss, n, p)
  BY <1>8
<1>10. DOMAIN seed = 1..Len(seed)
  BY <1>8, LenProperties
<1>11. ASSUME NEW r \in Range(seed) PROVE r \in Range(claimed) \intersect D
  <2>1. PICK x \in 1..Len(seed) : r = seed[x]
    BY <1>10 DEF Range
  <2>2. p[x] \in (1..n) \X Nat /\ p[x][2] \in 1..Len(ss[p[x][1]]) /\ seed[x] = ss[p[x][1]][p[x][2]]
    BY <1>9 DEF Laid
  <2>3. PICK i \in 1..n, j \in Nat : p[x][1] = i /\ p[x][2] = j
    BY <2>2
  <2>4. j \in 1..Len(ss[i]) /\ r = ss[i][j]
    BY <2>1, <2>2, <2>3
  <2>5. claimed[i] \in D /\ j = 1
    BY <1>6, <2>4
  <2>6. r = claimed[i]
    BY <1>6, <2>4, <2>5
  <2> QED BY <1>1, <2>5, <2>6 DEF Range
<1>12. ASSUME NEW r \in Range(claimed), r \in D PROVE r \in Range(seed)
  <2>1. PICK i \in 1..n : r = claimed[i]
    BY <1>1 DEF Range
  <2>2. 1 \in 1..Len(ss[i]) /\ ss[i][1] = r
    BY <1>6, <1>12, <2>1
  <2>3. PICK x \in 1..Len(seed) : p[x] = <<i, 1>>
    BY <1>9, <2>2 DEF Laid
  <2>4. p[x][1] = i /\ p[x][2] = 1
    BY <2>3
  <2>5. seed[x] = ss[p[x][1]][p[x][2]]
    BY <1>9 DEF Laid
  <2>6. seed[x] = r
    BY <2>2, <2>4, <2>5
  <2> QED BY <1>10, <2>6 DEF Range
<1> QED BY <1>8, <1>11, <1>12 DEF D

\* A search starts at what was claimed.
LEMMA Starting ==
  ASSUME NEW reg, NEW claimed, claimed \in Seq(Range(claimed)), NEW hops \in Nat, NEW seed, seed = Seed(reg, claimed),
         NEW g, g = [claimed |-> claimed, hops |-> hops, seen |-> Range(seed),
                     frontier |-> [i \in DOMAIN seed |-> <<seed[i], 0>>]]
  PROVE  Found(reg, g) /\ Settled(reg, g)
<1>1. seed \in Seq(DOMAIN reg.index) /\ Range(seed) = Range(claimed) \intersect DOMAIN reg.index
  BY SeedIs
<1>2. PICK n \in Nat : n = Len(seed) /\ DOMAIN seed = 1..n
  BY <1>1, LenProperties
<1>3. PICK f : f = g.frontier
  OBVIOUS
<1>4. f = [i \in 1..n |-> <<seed[i], 0>>] /\ g.claimed = claimed /\ g.hops = hops /\ g.seen = Range(seed)
      /\ g = [claimed |-> g.claimed, hops |-> g.hops, seen |-> g.seen, frontier |-> g.frontier]
  BY <1>2, <1>3
<1>5. \A i \in 1..n : seed[i] \in DOMAIN reg.index /\ seed[i] \in Range(seed)
  BY <1>1, <1>2 DEF Range
<1>6. Len(f) = n /\ \A i \in 1..n : f[i] = <<seed[i], 0>> /\ f[i][1] = seed[i] /\ f[i][2] = 0
  BY <1>4
<1>7. f \in Seq((DOMAIN reg.index) \X Nat)
  <2>1. \A i \in 1..n : <<seed[i], 0>> \in (DOMAIN reg.index) \X Nat
    BY <1>5
  <2> QED BY <1>4, <2>1
<1>8. Reach(reg, claimed, 0) = Range(seed)
  BY <1>1, WithinNone
<1>9. Reach(reg, claimed, 0) \subseteq Reach(reg, claimed, hops)
  BY WithinGrows
<1>10. Found(reg, g)
  BY <1>3, <1>4, <1>5, <1>6, <1>7, <1>8, <1>9 DEF Found
<1>11. \A r \in Range(seed) : \E i \in 1..n : f[i] = <<r, 0>>
  BY <1>2, <1>6 DEF Range
<1>12. At(reg, g, 0)
  <2>1. 0 \in 0..g.hops /\ Reach(reg, g.claimed, 0) = g.seen
    BY <1>4, <1>8
  <2>2. \A r \in Reach(reg, g.claimed, 0) : \E i \in 1..Len(g.frontier) : g.frontier[i] = <<r, 0>>
    <3>1. \A r \in Range(seed) : \E i \in 1..Len(f) : f[i] = <<r, 0>>
      BY <1>6, <1>11
    <3>2. Reach(reg, g.claimed, 0) = Range(seed)
      BY <1>4, <1>8
    <3> QED BY <1>3, <3>1, <3>2
  <2>3. \A i \in 1..Len(g.frontier) : g.frontier[i][2] = 0
    BY <1>3, <1>6
  <2>4. \A i, j \in 1..Len(g.frontier) : i <= j => g.frontier[i][2] <= g.frontier[j][2]
    BY <2>3
  <2> QED BY <2>1, <2>2, <2>3, <2>4 DEF At
<1> QED BY <1>10, <1>12, Settling

\* A search goes on with what is next to the head.
Continues(z, reg, g, item, found, next) ==
  /\ item = Head(g.frontier)
  /\ found = {r \in Range(reg.refs) \ g.seen : Touches(r) \intersect Touches(item[1]) # {}}
  /\ next = (IF Expands(item[2], g.hops) THEN InSomeOrder({<<r, item[2] + 1>> : r \in found}) ELSE <<>>)
  /\ z = [g EXCEPT !.seen = @ \union {n[1] : n \in Range(next)}, !.frontier = Tail(@) \o next]

LEMMA Going ==
  ASSUME NEW reg, IsFiniteSet(DOMAIN reg.index), DOMAIN reg.index = Range(reg.refs),
         NEW g, Found(reg, g), Settled(reg, g), g.frontier # <<>>,
         NEW item, NEW found, NEW next, NEW z, Continues(z, reg, g, item, found, next)
  PROVE  Found(reg, z) /\ Settled(reg, z)
<1>0. /\ item = Head(g.frontier)
      /\ found = {r \in Range(reg.refs) \ g.seen : Touches(r) \intersect Touches(item[1]) # {}}
      /\ next = (IF Expands(item[2], g.hops) THEN InSomeOrder({<<r, item[2] + 1>> : r \in found}) ELSE <<>>)
      /\ z = [g EXCEPT !.seen = @ \union {n[1] : n \in Range(next)}, !.frontier = Tail(@) \o next]
  BY DEF Continues
<1>1. PICK f : f = g.frontier
  OBVIOUS
<1>2. f \in Seq((DOMAIN reg.index) \X Nat) /\ f # <<>> /\ item = f[1]
  BY <1>0, <1>1, HeadTailProperties DEF Found
<1>3. item \in (DOMAIN reg.index) \X Nat
  BY <1>1, <1>2, HeadTailProperties
<1>4. PICK h, d : h = item[1] /\ d = item[2]
  OBVIOUS
<1>5. d \in Nat /\ h \in DOMAIN reg.index /\ g.hops \in Nat
  BY <1>3, <1>4 DEF Found
<1>6. found \subseteq Beside(reg, {h}) /\ Beside(reg, {h}) \subseteq g.seen \union found
  BY <1>0, <1>4 DEF Beside
<1> DEFINE made == [r \in found |-> <<r, d + 1>>]
           S == {<<r, d + 1>> : r \in found}
<1>7. IsFiniteSet(S)
  <2>1. IsFiniteSet(found)
    BY <1>0, FS_Subset
  <2>2. DOMAIN made = found /\ Range(made) = S
    BY DEF Range
  <2> HIDE DEF made, S
  <2> QED BY <2>1, <2>2, FiniteRange
<1>8. S \subseteq (DOMAIN reg.index) \X Nat
  BY <1>0, <1>5
<1>9. \A x \in S : \E r \in found : x = <<r, d + 1>>
  OBVIOUS
<1>10. \A r \in found : <<r, d + 1>> \in S
  OBVIOUS
<1>11. PICK N : N = IF d < g.hops THEN found ELSE {}
  OBVIOUS
<1>12. /\ next \in Seq((DOMAIN reg.index) \X Nat)
       /\ \A j \in 1..Len(next) : \E r \in N : next[j] = <<r, d + 1>>
       /\ \A r \in N : \E j \in 1..Len(next) : next[j] = <<r, d + 1>>
       /\ {n[1] : n \in Range(next)} = N
  <2>1. CASE d < g.hops
    <3>1. next = InSomeOrder(S) /\ N = found
      BY <1>0, <1>4, <1>11, <2>1 DEF Expands
    <3> HIDE DEF S
    <3>2. next \in Seq(S) /\ Range(next) = S
      BY <1>7, <3>1, Ordering DEF IsOrder
    <3>3. next \in Seq((DOMAIN reg.index) \X Nat) /\ DOMAIN next = 1..Len(next)
      BY <1>8, <3>2, SeqMonotonic, LenProperties
    <3>4. \A j \in 1..Len(next) : next[j] \in S
      BY <3>2, <3>3 DEF Range
    <3>5. \A x \in S : \E j \in 1..Len(next) : next[j] = x
      BY <3>2, <3>3 DEF Range
    <3>6. \A x \in S : x[1] \in found
      BY <1>9
    <3>7. \A r \in found : \E x \in S : x[1] = r
      <4> SUFFICES ASSUME NEW r \in found PROVE \E x \in S : x[1] = r
        OBVIOUS
      <4>1. PICK x : x = <<r, d + 1>>
        OBVIOUS
      <4>2. x \in S /\ x[1] = r
        BY <1>10, <4>1
      <4> QED BY <4>2
    <3>8. {n[1] : n \in Range(next)} = found
      <4>1. \A r \in {n[1] : n \in Range(next)} : r \in found
        BY <3>2, <3>6
      <4>2. \A r \in found : r \in {n[1] : n \in Range(next)}
        BY <3>2, <3>7
      <4> QED BY <4>1, <4>2
    <3> QED BY <1>9, <1>10, <3>1, <3>3, <3>4, <3>5, <3>8
  <2>2. CASE ~ (d < g.hops)
    <3>1. next = <<>> /\ N = {}
      BY <1>0, <1>4, <1>11, <2>2 DEF Expands
    <3>2. Len(<<>>) = 0 /\ Range(<<>>) = {} /\ <<>> \in Seq((DOMAIN reg.index) \X Nat)
      <4>1. <<>> \in Seq((DOMAIN reg.index) \X Nat) /\ Len(<<>>) = 0
        BY EmptySeq
      <4>2. DOMAIN <<>> = {}
        BY <4>1, LenProperties
      <4> QED BY <4>1, <4>2 DEF Range
    <3>3. Len(next) = 0 /\ Range(next) = {} /\ next \in Seq((DOMAIN reg.index) \X Nat)
      BY <3>1, <3>2
    <3>4. \A j : j \notin 1..Len(next)
      BY <3>3
    <3>5. {n[1] : n \in Range(next)} = N
      BY <3>1, <3>3
    <3> QED BY <3>1, <3>3, <3>4, <3>5
  <2> QED BY <2>1, <2>2
<1>13. Ahead(reg, g, next, N)
  <2>1. g.frontier[1][1] = h /\ g.frontier[1][2] = d
    BY <1>1, <1>2, <1>4
  <2>2. N \subseteq Beside(reg, {h}) /\ (N # {} => d < g.hops) /\ (d < g.hops => Beside(reg, {h}) \subseteq g.seen \union N)
    BY <1>6, <1>11
  <2>3. PICK head : head = g.frontier[1]
    OBVIOUS
  <2>4. head[1] = h /\ head[2] = d
    BY <2>1, <2>3
  <2> QED BY <1>12, <2>2, <2>3, <2>4 DEF Ahead
<1>14. PICK s : s = Tail(g.frontier) \o next
  OBVIOUS
<1>15. z = [claimed |-> g.claimed, hops |-> g.hops, seen |-> g.seen \union N, frontier |-> s]
  <2>1. PICK new : new = {n[1] : n \in Range(next)}
    OBVIOUS
  <2>2. z = [g EXCEPT !.seen = g.seen \union new, !.frontier = s]
    BY <1>0, <1>14, <2>1
  <2>3. z = [[g EXCEPT !.seen = g.seen \union new] EXCEPT !.frontier = s]
    BY <2>2
  <2>4. PICK p : p = [g EXCEPT !.seen = g.seen \union new]
    OBVIOUS
  <2>5. p = [claimed |-> g.claimed, hops |-> g.hops, seen |-> g.seen \union new, frontier |-> g.frontier]
    BY <2>4 DEF Found
  <2>6. z = [p EXCEPT !.frontier = s]
    BY <2>3, <2>4
  <2>7. z = [claimed |-> g.claimed, hops |-> g.hops, seen |-> g.seen \union new, frontier |-> s]
    BY <2>5, <2>6
  <2> QED BY <1>12, <2>1, <2>7
<1>16. Advanced(z, g, N, s)
  BY <1>15 DEF Advanced
<1> QED BY <1>13, <1>14, <1>16, Advancing

\* A region has found what it has settled, in the registry of a universe.
Regional == region # None => universe # None /\ Found(registry, region) /\ Settled(registry, region)

LEMMA RegionSteps ==
  ASSUME RegistryInv, Regional, [RegistryNext]_<<vars, registryVars>>
  PROVE  Regional'
<1>1. CASE UNCHANGED <<universe, registry, region>>
  BY <1>1 DEF Regional
<1>2. ASSUME universe = None, region' = region, universe' # None \/ registry' # registry PROVE Regional'
  BY <1>2 DEF Regional
<1>3. ASSUME NEW claimed \in Claims, NEW hops \in 0..MaxHops, ActiveRefs(claimed, hops) PROVE Regional'
  <2>1. PICK seed : seed = Seed(registry, claimed)
    OBVIOUS
  <2>2. /\ universe' = universe /\ registry' = registry /\ universe # None
        /\ region' = [claimed |-> claimed, hops |-> hops, seen |-> Range(seed),
                      frontier |-> [i \in DOMAIN seed |-> <<seed[i], 0>>]]
    BY <1>3, <2>1 DEF ActiveRefs, Seed, vars
  <2>3. claimed \in Seq(Range(claimed)) /\ hops \in Nat
    BY RegistryAssumption
  <2>4. PICK g : g = region'
    OBVIOUS
  <2>5. Found(registry, g) /\ Settled(registry, g)
    BY <2>1, <2>2, <2>3, <2>4, Starting
  <2> QED BY <2>2, <2>4, <2>5 DEF Regional
<1>4. ASSUME Expand PROVE Regional'
  <2>1. PICK reg, g : reg = registry /\ g = region
    OBVIOUS
  <2>2. universe # None /\ Found(reg, g) /\ Settled(reg, g) /\ g.frontier # <<>> /\ universe' = universe /\ registry' = reg
    BY <1>4, <2>1 DEF Expand, Regional, vars
  <2>3. DOMAIN reg.index = Range(reg.refs) /\ IsFiniteSet(DOMAIN reg.index)
    <3>1. Listed(reg)
      BY <2>1, <2>2 DEF RegistryInv, Indexed
    <3>2. PICK s : s = reg.refs
      OBVIOUS
    <3>3. s \in Seq(Range(s)) /\ DOMAIN reg.index = Range(s)
      BY <3>1, <3>2 DEF Listed
    <3>4. IsFiniteSet(DOMAIN s)
      BY <3>3, LenProperties, FS_Interval
    <3> QED BY <3>2, <3>3, <3>4, FiniteRange
  <2>4. PICK z : z = region'
    OBVIOUS
  <2>5. PICK item, found, next : Continues(z, reg, g, item, found, next)
    BY <1>4, <2>1, <2>4 DEF Expand, Continues
  <2>6. Found(reg, z) /\ Settled(reg, z)
    BY <2>2, <2>3, <2>5, Going
  <2> QED BY <2>2, <2>4, <2>6 DEF Regional
<1>5. ASSUME NEW v \in Callers, AddVariable(v) PROVE Regional'
  BY <1>5 DEF AddVariable, Owning, vars, Regional
<1>6. ASSUME Freeze PROVE Regional'
  BY <1>6 DEF Freeze, Owning, vars, Regional
<1>7. ASSUME NEW c, AddEvent(c) \/ AddObject(c) \/ AddLink(c), Aside PROVE Regional'
  BY <1>1, <1>7 DEF AddEvent, AddObject, AddLink, Aside, registryVars
<1>8. ASSUME NEW prune, BuildRegistered(prune) PROVE Regional'
  BY <1>8 DEF BuildRegistered, Build, Building, Regional
<1>9. ASSUME NEW o, Ground(o), UNCHANGED registryVars PROVE Regional'
  BY <1>1, <1>9 DEF Ground, registryVars
<1>10. CASE UNCHANGED <<vars, registryVars>>
  BY <1>1, <1>10 DEF vars, registryVars
<1> QED BY <1>3, <1>4, <1>5, <1>6, <1>7, <1>8, <1>9, <1>10 DEF RegistryNext

LEMMA RegionalNeighbourhood == Regional => RegionIsNeighbourhood
<1> SUFFICES ASSUME Regional, region # None, region.frontier = <<>>
             PROVE  region.seen = Within(region.claimed, region.hops)
  BY DEF RegionIsNeighbourhood
<1>1. region.seen = Reach(registry, region.claimed, region.hops)
  BY DEF Regional, Settled
<1> QED BY <1>1, WithinReach

-----------------------------------------------------------------------------
(***************************************************************************)
(* Views of beliefs                                                        *)
(***************************************************************************)

\* The evidence a view answers with.
EvidenceIn(v, arr) == IF v.own = None THEN arr.evidence ELSE v.own

\* A view whose history, kept by reference, is its evidence, kept by index.
Viewing(v, reg, arr) ==
  /\ v.target \in Nat
  /\ DOMAIN v.expected = DOMAIN reg.index
  /\ v.own = None \/ v.own \in [1..Len(reg.refs) -> Nat]
  /\ EvidenceIn(v, arr) \in [1..Len(reg.refs) -> Nat]
  /\ \A i \in 1..Len(reg.refs) : v.expected[reg.refs[i]] = EvidenceIn(v, arr)[i]

Filled(reg, arr) ==
  /\ Listed(reg)
  /\ arr = [probs |-> arr.probs, moments |-> arr.moments, evidence |-> arr.evidence, priorOnly |-> arr.priorOnly]
  /\ arr.evidence \in [1..Len(reg.refs) -> Nat]

Viewed ==
  /\ views \in Seq(Range(views))
  /\ views # <<>> => arrays # None
  /\ arrays # None => Filled(registry, arrays)
  /\ \A v \in Range(views) : Viewing(v, registry, arrays)

LEMMA ListedAs ==
  ASSUME NEW reg, Listed(reg)
  PROVE  /\ Len(reg.refs) \in Nat /\ DOMAIN reg.refs = 1..Len(reg.refs)
         /\ \A i \in 1..Len(reg.refs) : reg.refs[i] \in DOMAIN reg.index /\ reg.index[reg.refs[i]] = i
         /\ \A ref \in DOMAIN reg.index : reg.index[ref] \in 1..Len(reg.refs) /\ reg.refs[reg.index[ref]] = ref
<1>1. PICK s : s = reg.refs
  OBVIOUS
<1>2. s \in Seq(Range(s)) /\ DOMAIN reg.index = Range(s) /\ \A i \in 1..Len(s) : reg.index[s[i]] = i
  BY <1>1 DEF Listed
<1>3. Len(s) \in Nat /\ DOMAIN s = 1..Len(s)
  BY <1>2, LenProperties
<1>4. ASSUME NEW i \in 1..Len(s) PROVE s[i] \in Range(s)
  BY <1>3 DEF Range
<1>5. ASSUME NEW ref \in Range(s) PROVE reg.index[ref] \in 1..Len(s) /\ s[reg.index[ref]] = ref
  <2>1. PICK i \in 1..Len(s) : ref = s[i]
    BY <1>3 DEF Range
  <2> QED BY <1>2, <2>1
<1> QED BY <1>1, <1>2, <1>3, <1>4, <1>5

\* A view that is made of the builder.
LEMMA ViewBuilt ==
  ASSUME NEW reg, NEW arr, Filled(reg, arr), NEW target \in Nat, NEW v,
         v = View(None, target, [ref \in DOMAIN reg.index |-> arr.evidence[reg.index[ref]]])
  PROVE  Viewing(v, reg, arr)
<1>1. v.own = None /\ v.target = target /\ v.expected = [ref \in DOMAIN reg.index |-> arr.evidence[reg.index[ref]]]
  BY DEF View
<1>2. EvidenceIn(v, arr) = arr.evidence /\ arr.evidence \in [1..Len(reg.refs) -> Nat]
  BY <1>1 DEF EvidenceIn, Filled
<1>3. \A i \in 1..Len(reg.refs) : v.expected[reg.refs[i]] = arr.evidence[i]
  BY <1>1, ListedAs DEF Filled
<1> QED BY <1>1, <1>2, <1>3 DEF Viewing

\* A view of a view, with evidence of its own.
LEMMA ViewAttached ==
  ASSUME NEW reg, NEW arr, Filled(reg, arr), NEW v, Viewing(v, reg, arr), NEW given,
         \A ref \in DOMAIN given : given[ref] \in Nat,
         NEW own, own = [i \in DOMAIN EvidenceIn(v, arr) |->
                           IF reg.refs[i] \in DOMAIN given THEN given[reg.refs[i]] ELSE EvidenceIn(v, arr)[i]],
         NEW target \in Nat, NEW w,
         w = View(own, target, [ref \in DOMAIN v.expected |-> IF ref \in DOMAIN given THEN given[ref] ELSE v.expected[ref]])
  PROVE  Viewing(w, reg, arr)
<1>1. PICK e : e = EvidenceIn(v, arr)
  OBVIOUS
<1>2. PICK n \in Nat : n = Len(reg.refs)
  BY ListedAs DEF Filled
<1>3. e \in [1..n -> Nat] /\ DOMAIN v.expected = DOMAIN reg.index /\ \A i \in 1..n : v.expected[reg.refs[i]] = e[i]
  BY <1>1, <1>2 DEF Viewing
<1>4. own = [i \in 1..n |-> IF reg.refs[i] \in DOMAIN given THEN given[reg.refs[i]] ELSE e[i]]
  BY <1>1, <1>3
<1>5. own \in [1..n -> Nat]
  BY <1>3, <1>4
<1>6. own # None
  <2>1. own \in Seq(Nat)
    BY <1>5
  <2> QED BY <2>1, BeliefAssumption
<1>7. /\ w.own = own /\ w.target = target
      /\ w.expected = [ref \in DOMAIN v.expected |-> IF ref \in DOMAIN given THEN given[ref] ELSE v.expected[ref]]
  BY DEF View
<1>8. EvidenceIn(w, arr) = own
  BY <1>6, <1>7 DEF EvidenceIn
<1>9. ASSUME NEW i \in 1..n PROVE w.expected[reg.refs[i]] = own[i]
  <2>1. reg.refs[i] \in DOMAIN v.expected
    BY <1>2, <1>3, ListedAs DEF Filled
  <2>2. PICK ref : ref = reg.refs[i]
    OBVIOUS
  <2>3. w.expected[ref] = IF ref \in DOMAIN given THEN given[ref] ELSE v.expected[ref]
    BY <1>7, <2>1, <2>2
  <2>4. own[i] = IF ref \in DOMAIN given THEN given[ref] ELSE e[i]
    BY <1>4, <2>2
  <2>5. v.expected[ref] = e[i]
    BY <1>3, <2>2
  <2> QED BY <2>2, <2>3, <2>4, <2>5
<1>10. DOMAIN w.expected = DOMAIN reg.index
  BY <1>3, <1>7
<1> QED BY SMTT(30), ZenonT(30), <1>2, <1>5, <1>7, <1>8, <1>9, <1>10 DEF Viewing

LEMMA ViewSteps ==
  ASSUME RegistryInv, Viewed, [BelievingNext]_<<vars, registryVars, beliefVars>>
  PROVE  Viewed'
<1>1. CASE arrays = None /\ UNCHANGED beliefVars
  <2>1. views = <<>> /\ views' = <<>> /\ arrays' = None
    BY <1>1 DEF Viewed, beliefVars
  <2>2. Range(<<>>) = {} /\ <<>> \in Seq(Range(<<>>))
    <3>1. <<>> \in Seq({}) /\ Len(<<>>) = 0
      BY EmptySeq
    <3>2. DOMAIN <<>> = {}
      BY <3>1, LenProperties
    <3> QED BY <3>1, <3>2, EmptySeq DEF Range
  <2> QED BY <2>1, <2>2 DEF Viewed
<1>2. CASE UNCHANGED <<vars, registryVars, beliefVars>>
  BY <1>2 DEF Viewed, registryVars, beliefVars
<1>3. ASSUME registry' = registry, views' = views, views = <<>>, Filled(registry, arrays') PROVE Viewed'
  <2>1. Range(<<>>) = {} /\ <<>> \in Seq(Range(<<>>))
    <3>1. <<>> \in Seq({}) /\ Len(<<>>) = 0
      BY EmptySeq
    <3>2. DOMAIN <<>> = {}
      BY <3>1, LenProperties
    <3> QED BY <3>1, <3>2, EmptySeq DEF Range
  <2> QED BY <1>3, <2>1 DEF Viewed
<1>4. ASSUME NEW v, Viewing(v, registry, arrays), registry' = registry, arrays' = arrays, arrays # None, views' = Append(views, v)
      PROVE  Viewed'
  <2>1. PICK s : s = views
    OBVIOUS
  <2>2. PICK u : u = views'
    OBVIOUS
  <2>3. s \in Seq(Range(s)) /\ u = Append(s, v)
    BY <1>4, <2>1, <2>2 DEF Viewed
  <2>4. Extended(u, s, v)
    BY <2>3, Appending
  <2>5. u \in Seq(Range(u)) /\ Range(u) = Range(s) \union {v}
    BY <2>4 DEF Extended
  <2> QED BY <1>4, <2>1, <2>2, <2>5 DEF Viewed
<1>5. ASSUME NewBuilder, UNCHANGED <<vars, registryVars>> PROVE Viewed'
  <2>1. registry # None /\ arrays = None /\ views' = views /\ registry' = registry
        /\ arrays' = [probs |-> [i \in Indices |-> Uniform(registry.card[i])], moments |-> [i \in Indices |-> None],
                      evidence |-> [i \in Indices |-> 0], priorOnly |-> [i \in Indices |-> TRUE]]
    BY <1>5 DEF NewBuilder, registryVars
  <2>2. Listed(registry) /\ views = <<>>
    BY <2>1 DEF RegistryInv, Kept, Viewed
  <2>3. Indices = 1..Len(registry.refs)
    BY <2>2, ListedAs DEF Indices
  <2>4. /\ arrays' = [probs |-> arrays'.probs, moments |-> arrays'.moments, evidence |-> arrays'.evidence,
                      priorOnly |-> arrays'.priorOnly]
        /\ arrays'.evidence = [i \in Indices |-> 0]
    BY <2>1
  <2>5. Filled(registry, arrays')
    BY <2>2, <2>3, <2>4 DEF Filled
  <2> QED BY <1>3, <2>1, <2>2, <2>5
<1>6. ASSUME NEW i \in Indices, NEW weights, NEW prior, SetDiscrete(i, weights, prior), UNCHANGED <<vars, registryVars>>
      PROVE  Viewed'
  <2>1. arrays # None /\ views = <<>> /\ views' = views /\ registry' = registry
        /\ arrays' = [arrays EXCEPT !.probs[i] = weights, !.priorOnly[i] = prior]
    BY <1>6 DEF SetDiscrete, Filling, registryVars
  <2>2. Filled(registry, arrays)
    BY <2>1 DEF Viewed
  <2>3. Filled(registry, arrays')
    BY <2>1, <2>2 DEF Filled
  <2> QED BY <1>3, <2>1, <2>3
<1>7. ASSUME NEW i \in Indices, NEW moments, NEW prior, SetContinuous(i, moments, prior), UNCHANGED <<vars, registryVars>>
      PROVE  Viewed'
  <2>1. arrays # None /\ views = <<>> /\ views' = views /\ registry' = registry
        /\ arrays' = [arrays EXCEPT !.moments[i] = moments, !.priorOnly[i] = prior]
    BY <1>7 DEF SetContinuous, Filling, registryVars
  <2>2. Filled(registry, arrays)
    BY <2>1 DEF Viewed
  <2>3. Filled(registry, arrays')
    BY <2>1, <2>2 DEF Filled
  <2> QED BY <1>3, <2>1, <2>3
<1>8. ASSUME NEW i \in Indices, NEW nats \in Nats, SetEvidence(i, nats), UNCHANGED <<vars, registryVars>>
      PROVE  Viewed'
  <2>1. arrays # None /\ views = <<>> /\ views' = views /\ registry' = registry
        /\ arrays' = [arrays EXCEPT !.evidence[i] = nats] /\ nats \in Nat
    BY <1>8, BeliefAssumption DEF SetEvidence, registryVars
  <2>2. Filled(registry, arrays)
    BY <2>1 DEF Viewed
  <2>3. Filled(registry, arrays')
    BY <2>1, <2>2 DEF Filled
  <2> QED BY <1>3, <2>1, <2>3
<1>9. ASSUME NEW target \in Targets, BuildView(target), UNCHANGED <<vars, registryVars>> PROVE Viewed'
  <2>1. PICK v : v = View(None, target, [ref \in DOMAIN registry.index |-> arrays.evidence[registry.index[ref]]])
    OBVIOUS
  <2>2. arrays # None /\ arrays' = arrays /\ registry' = registry /\ views' = Append(views, v) /\ target \in Nat
    BY <1>9, <2>1, BeliefAssumption DEF BuildView, registryVars
  <2>3. Viewing(v, registry, arrays)
    BY <2>1, <2>2, ViewBuilt DEF Viewed
  <2> QED BY <1>4, <2>2, <2>3
<1>10. ASSUME NEW v \in Range(views), NEW given \in Attached, NEW target \in Targets \union {None},
              WithEvidence(v, given, target), UNCHANGED <<vars, registryVars>>
       PROVE  Viewed'
  <2>1. views # <<>>
    <3>1. DOMAIN <<>> = {}
      BY EmptySeq, LenProperties
    <3> QED BY <3>1 DEF Range
  <2>2. arrays # None /\ Filled(registry, arrays) /\ Viewing(v, registry, arrays)
    BY <2>1 DEF Viewed
  <2>3. PICK e, own : /\ e = EvidenceOf(v)
                      /\ own = [i \in DOMAIN e |-> IF registry.refs[i] \in DOMAIN given THEN given[registry.refs[i]] ELSE e[i]]
    OBVIOUS
  <2>4. PICK t : t = IF target = None THEN v.target ELSE target
    OBVIOUS
  <2>5. PICK w : w = View(own, t, [ref \in DOMAIN v.expected |-> IF ref \in DOMAIN given THEN given[ref] ELSE v.expected[ref]])
    OBVIOUS
  <2>6. registry' = registry /\ arrays' = arrays /\ views' = Append(views, w)
    BY <1>10, <2>3, <2>4, <2>5 DEF WithEvidence, Copied, Overlaid, registryVars
  <2>7. t \in Nat
    BY <2>2, <2>4, BeliefAssumption DEF Viewing
  <2>8. e = EvidenceIn(v, arrays)
    BY <2>3 DEF EvidenceOf, EvidenceIn
  <2>9. \A ref \in DOMAIN given : given[ref] \in Nat
    BY BeliefAssumption
  <2>10. Viewing(w, registry, arrays)
    BY <2>2, <2>3, <2>5, <2>7, <2>8, <2>9, ViewAttached
  <2> QED BY <1>4, <2>2, <2>6, <2>10
<1> QED BY <1>1, <1>2, <1>5, <1>6, <1>7, <1>8, <1>9, <1>10 DEF BelievingNext, BeliefNext

\* There are as many references as places.
LEMMA AsMany ==
  ASSUME NEW reg, Listed(reg), NEW I \in SUBSET (1..Len(reg.refs)), NEW R,
         R \subseteq DOMAIN reg.index, \A i \in 1..Len(reg.refs) : i \in I <=> reg.refs[i] \in R
  PROVE  IsFiniteSet(I) /\ Cardinality(I) = Cardinality(R)
<1>1. PICK n \in Nat : n = Len(reg.refs)
  BY ListedAs
<1>2. IsFiniteSet(I)
  <2>1. IsFiniteSet(1..n)
    BY FS_Interval
  <2>2. I \subseteq 1..n
    BY <1>1
  <2> QED BY <2>1, <2>2, FS_Subset
<1> DEFINE f == [i \in I |-> reg.refs[i]]
<1>3. \A i \in I : f[i] \in R
  BY <1>1
<1>4. \A i, j \in I : f[i] = f[j] => i = j
  BY ListedAs
<1>5. \A r \in R : \E i \in I : f[i] = r
  <2> SUFFICES ASSUME NEW r \in R PROVE \E i \in I : f[i] = r
    OBVIOUS
  <2>1. reg.index[r] \in 1..Len(reg.refs) /\ reg.refs[reg.index[r]] = r
    BY ListedAs
  <2>2. reg.index[r] \in I
    BY <2>1
  <2> QED BY <2>1, <2>2
<1>6. f \in Bijection(I, R)
  <2>1. f \in [I -> R]
    BY <1>3
  <2> HIDE DEF f
  <2>2. f \in Injection(I, R)
    BY <1>4, <2>1 DEF Injection, IsInjective
  <2>3. f \in Surjection(I, R)
    BY <1>5, <2>1 DEF Surjection
  <2> QED BY <2>2, <2>3 DEF Bijection
<1>7. ExistsBijection(I, R)
  BY <1>6 DEF ExistsBijection
<1> QED BY <1>2, <1>7, FS_Bijection

\* A view answers by reference what its history says.
LEMMA Answers ==
  ASSUME NEW v, Listed(registry), Viewing(v, registry, arrays), NEW ref
  PROVE  EvidenceNats(v, ref) = Expected(v, ref) /\ Expected(v, ref) \in Nat
<1>1. EvidenceOf(v) = EvidenceIn(v, arrays)
  BY DEF EvidenceOf, EvidenceIn
<1>2. CASE ref \in DOMAIN registry.index
  <2>1. PICK i \in 1..Len(registry.refs) : i = registry.index[ref] /\ registry.refs[i] = ref
    BY <1>2, ListedAs
  <2>2. v.expected[ref] = EvidenceIn(v, arrays)[i] /\ EvidenceIn(v, arrays)[i] \in Nat /\ ref \in DOMAIN v.expected
    BY <1>2, <2>1 DEF Viewing
  <2> QED BY <1>1, <1>2, <2>1, <2>2 DEF EvidenceNats, Expected
<1>3. CASE ref \notin DOMAIN registry.index
  BY <1>3 DEF EvidenceNats, Expected, Viewing
<1> QED BY <1>2, <1>3

LEMMA VerdictsInvariant == RegistryInv /\ Viewed => VerdictsFollowEvidence
<1> SUFFICES ASSUME RegistryInv, Viewed, NEW v \in Range(views)
             PROVE  /\ \A ref : Verdict(v, ref) = "undetermined" <=> Expected(v, ref) < v.target
                    /\ Summary(v).undetermined = Cardinality({ref \in DOMAIN v.expected : Expected(v, ref) < v.target})
                    /\ Summary(v).priorOnly = Cardinality({ref \in DOMAIN v.expected : IsPriorOnly(ref)})
  BY DEF VerdictsFollowEvidence
<1>1. views # <<>>
  <2>1. DOMAIN <<>> = {}
    BY EmptySeq, LenProperties
  <2> QED BY <2>1 DEF Range
<1>2. Listed(registry) /\ Viewing(v, registry, arrays)
  BY <1>1 DEF Viewed, Filled
<1>3. PICK n \in Nat : n = Len(registry.refs) /\ Indices = 1..n
  BY <1>2, ListedAs DEF Indices
<1>4. v.target \in Nat /\ DOMAIN v.expected = DOMAIN registry.index
  BY <1>2 DEF Viewing
<1>5. \A ref : EvidenceNats(v, ref) = Expected(v, ref) /\ Expected(v, ref) \in Nat
  BY <1>2, Answers
<1>6. ASSUME NEW ref PROVE Verdict(v, ref) = "undetermined" <=> Expected(v, ref) < v.target
  <2>1. IsDecidable(v, ref) <=> ~ (Expected(v, ref) < v.target)
    BY <1>4, <1>5 DEF IsDecidable
  <2>2. "true" # "undetermined" /\ "false" # "undetermined"
    OBVIOUS
  <2> QED BY <2>1, <2>2 DEF Verdict
<1>7. \A i \in 1..n : /\ registry.refs[i] \in DOMAIN v.expected /\ registry.index[registry.refs[i]] = i
                      /\ EvidenceOf(v)[i] = Expected(v, registry.refs[i])
  <2> SUFFICES ASSUME NEW i \in 1..n
               PROVE  /\ registry.refs[i] \in DOMAIN v.expected /\ registry.index[registry.refs[i]] = i
                      /\ EvidenceOf(v)[i] = Expected(v, registry.refs[i])
    OBVIOUS
  <2>1. registry.refs[i] \in DOMAIN registry.index /\ registry.index[registry.refs[i]] = i
    BY <1>2, <1>3, ListedAs
  <2>2. EvidenceNats(v, registry.refs[i]) = EvidenceOf(v)[i]
    BY <2>1 DEF EvidenceNats
  <2> QED BY <1>4, <1>5, <2>1, <2>2
<1> DEFINE Open == {i \in 1..n : ~ (EvidenceOf(v)[i] >= v.target)}
           Done == {i \in Indices : EvidenceOf(v)[i] >= v.target}
           Prior == {i \in Indices : arrays.priorOnly[i]}
           OpenRefs == {ref \in DOMAIN v.expected : Expected(v, ref) < v.target}
           PriorRefs == {ref \in DOMAIN v.expected : IsPriorOnly(ref)}
<1>8. Cardinality(Open) = Cardinality(OpenRefs)
  <2>1. OpenRefs \subseteq DOMAIN registry.index /\ Open \in SUBSET (1..Len(registry.refs))
    BY <1>3, <1>4
  <2>2. \A i \in 1..Len(registry.refs) : i \in Open <=> registry.refs[i] \in OpenRefs
    BY <1>3, <1>4, <1>5, <1>7
  <2> HIDE DEF Open, OpenRefs
  <2> QED BY <1>2, <2>1, <2>2, AsMany
<1>9. Cardinality(Prior) = Cardinality(PriorRefs)
  <2>1. PriorRefs \subseteq DOMAIN registry.index /\ Prior \in SUBSET (1..Len(registry.refs))
    BY <1>3, <1>4
  <2>2. \A i \in 1..Len(registry.refs) : i \in Prior <=> registry.refs[i] \in PriorRefs
    BY <1>3, <1>4, <1>7 DEF IsPriorOnly
  <2> HIDE DEF Prior, PriorRefs
  <2> QED BY <1>2, <2>1, <2>2, AsMany
<1>10. n - Cardinality(Done) = Cardinality(Open)
  <2>1. IsFiniteSet(1..n) /\ Cardinality(1..n) = n
    BY FS_Interval
  <2>2. IsFiniteSet(Open) /\ IsFiniteSet(Done) /\ Open \intersect Done = {} /\ Open \union Done = 1..n
    BY <1>3, <2>1, FS_Subset
  <2> HIDE DEF Open, Done
  <2>3. Cardinality(Open \union Done) = Cardinality(Open) + Cardinality(Done) - Cardinality(Open \intersect Done)
    BY <2>2, FS_Union
  <2>4. Cardinality(Open) \in Nat /\ Cardinality(Done) \in Nat /\ Cardinality({}) = 0
    BY <2>2, FS_CardinalityType, FS_EmptySet
  <2>5. PICK a \in Nat, b \in Nat : a = Cardinality(Open) /\ b = Cardinality(Done)
    BY <2>4
  <2>6. n = a + b - 0
    BY <2>1, <2>2, <2>3, <2>4, <2>5
  <2> QED BY <2>5, <2>6
<1>11. Decidable(v) = Cardinality(Done)
  BY DEF Decidable
<1>12. Summary(v).undetermined = Len(registry.refs) - Decidable(v) /\ Summary(v).priorOnly = Cardinality(Prior)
  BY DEF Summary
<1> HIDE DEF Open, Done, Prior
<1> QED BY <1>3, <1>6, <1>8, <1>9, <1>10, <1>11, <1>12

-----------------------------------------------------------------------------
BelievingInv == RegistryInv /\ Regional /\ Viewed

\* The registry, its regions and the beliefs over it, in each step.
THEOREM BelievingAlways == BelievingSpec => []BelievingInv
<1>1. BeliefInit => BelievingInv
  <2> SUFFICES ASSUME BeliefInit PROVE BelievingInv
    OBVIOUS
  <2>1. RegistryInv
    BY RegistryStarts DEF BeliefInit
  <2>2. Range(<<>>) = {} /\ <<>> \in Seq(Range(<<>>))
    <3>1. <<>> \in Seq({}) /\ Len(<<>>) = 0
      BY EmptySeq
    <3>2. DOMAIN <<>> = {}
      BY <3>1, LenProperties
    <3> QED BY <3>1, <3>2, EmptySeq DEF Range
  <2> QED BY <2>1, <2>2 DEF BeliefInit, RegistryInit, Regional, Viewed, BelievingInv
<1>2. BelievingInv /\ [BelievingNext]_<<vars, registryVars, beliefVars>> => BelievingInv'
  <2> SUFFICES ASSUME BelievingInv, [BelievingNext]_<<vars, registryVars, beliefVars>> PROVE BelievingInv'
    OBVIOUS
  <2>1. [RegistryNext]_<<vars, registryVars>>
    BY DEF BelievingNext
  <2>2. RegistryInv'
    BY <2>1, RegistrySteps DEF BelievingInv
  <2>3. Regional'
    BY <2>1, RegionSteps DEF BelievingInv
  <2>4. Viewed'
    BY ViewSteps DEF BelievingInv
  <2> QED BY <2>2, <2>3, <2>4 DEF BelievingInv
<1> QED BY <1>1, <1>2, PTL DEF BelievingSpec

\* Registering, searching and believing are grounding and nothing else to those who
\* build universes and models: what grounding keeps is kept.
THEOREM BelievingGrounds == BelievingSpec => Spec
<1>1. BeliefInit => Init
  BY DEF BeliefInit, RegistryInit
<1>2. [BelievingNext]_<<vars, registryVars, beliefVars>> => [Next]_vars
  BY RegistryGrounds DEF BelievingNext
<1> QED BY <1>1, <1>2, PTL DEF BelievingSpec, Spec

\* A frozen registry has each reference the candidates leave open once, at an index
\* of its own and in blocks by family: whatever is registered, and whatever is a
\* candidate (VariableRegistry.freeze, UniverseBuilder._register).
THEOREM BelievingCandidatesAreIndexed == BelievingSpec => []CandidatesAreIndexed
<1>1. BelievingInv => CandidatesAreIndexed
  BY DenseInvariant, LatentInvariant DEF BelievingInv, CandidatesAreIndexed
<1> QED BY <1>1, BelievingAlways, PTL

\* active_refs() finds exactly the references within its hops of the claimed ones,
\* in the registry of any universe and for any claims.
THEOREM BelievingRegionIsNeighbourhood == BelievingSpec => []RegionIsNeighbourhood
<1>1. BelievingInv => RegionIsNeighbourhood
  BY RegionalNeighbourhood DEF BelievingInv
<1> QED BY <1>1, BelievingAlways, PTL

\* A view decides by the evidence that was attached to it, whatever others have
\* attached to other views of the builder (BeliefState.with_evidence).
THEOREM BelievingVerdictsFollowEvidence == BelievingSpec => []VerdictsFollowEvidence
<1>1. BelievingInv => VerdictsFollowEvidence
  BY VerdictsInvariant DEF BelievingInv
<1> QED BY <1>1, BelievingAlways, PTL
=============================================================================
