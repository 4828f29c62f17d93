-------------------------- MODULE HistoryGrounding --------------------------
(***************************************************************************)
(* From candidates to the support of a model: UniverseBuilder collects     *)
(* events, objects and links and prunes the links that are impossible      *)
(* (universe/core.py); the structural part of compilation gives every      *)
(* candidate a variable and grounds the schema in factors                  *)
(* (model/compile.py: structural_variables, _structure); the kernels say   *)
(* which assignments those admit (model/kernels.py: RuleKernel).           *)
(*                                                                         *)
(* Times are integers, and an unbounded multiplicity has hi = None.  Names *)
(* of variables and factors are left out: a factor is what it constrains.  *)
(* A signature is declared once: the code reads duplicates through         *)
(* dictionaries, in which the last one stands for them all.                *)
(***************************************************************************)
EXTENDS Integers, FiniteSets

CONSTANTS
  Schemas,         \* signatures [type, qualifier, object, lo, hi] in e2o,
                   \* [source, qualifier, target, lo, hi] in o2o
  EventChoices,    \* [id, support, lo, hi]: event slots that may be added
  ObjectChoices,   \* [id, type, from, to]: objects that may be added
  LinkChoices,     \* [source, qualifier, target]: links between objects
  Bindings,        \* [object, first, second, qualifier, before, after, role]
  Options,         \* registers and classifications, see GroundingAssumption
  Times,
  Inactive, None

Bounds(s) == s.lo \in Nat /\ (s.hi = None \/ (s.hi \in Nat /\ s.lo <= s.hi))

ASSUME GroundingAssumption ==
  /\ \A c \in Schemas :
       /\ \A s \in c.e2o \union c.o2o : Bounds(s)
       /\ \A s, t \in c.e2o :
            s.type = t.type /\ s.qualifier = t.qualifier /\ s.object = t.object => s = t
       /\ \A s, t \in c.o2o :
            s.source = t.source /\ s.qualifier = t.qualifier /\ s.target = t.target => s = t
  /\ Times \subseteq Int
  /\ \A c \in EventChoices :
       {c.lo, c.hi} \subseteq Times /\ c.lo <= c.hi /\ c.support # {} /\ Inactive \notin c.support
  /\ \A c \in ObjectChoices : {c.from, c.to} \subseteq Times /\ c.from <= c.to
  /\ \A b \in Bindings :
       /\ b.first # b.second
       /\ {b.before, b.after} \subseteq Int
       /\ b.role \in {"support", "descriptive", "normative"}
  /\ \A o \in Options :
       /\ {o.definitional, o.cardinality, o.scale} \subseteq BOOLEAN
       /\ o.classification \in {"normative", "descriptive", "support", None}
       /\ o.bindings \subseteq Bindings
  /\ None \notin Nat

VARIABLES
  schema,
  events, objects, links,   \* what the builder has been told
  universe,                 \* what build() returned
  model,                    \* the options and factors of a structure
  outcome                   \* None, or why something was refused

builder == <<schema, events, objects, links>>
vars == <<builder, universe, model, outcome>>

Init ==
  /\ schema \in Schemas
  /\ events = <<>>
  /\ objects = <<>>
  /\ links = {}
  /\ universe = None
  /\ model = None
  /\ outcome = None

-----------------------------------------------------------------------------
(***************************************************************************)
(* UniverseBuilder                                                         *)
(***************************************************************************)
With(f, c) == [i \in DOMAIN f \union {c.id} |-> IF i = c.id THEN c ELSE f[i]]

Building == universe = None /\ outcome = None

AddEvent(c) ==
  /\ Building
  /\ c.id \notin DOMAIN events
  /\ events' = With(events, c)
  /\ UNCHANGED <<schema, objects, links, universe, model, outcome>>

AddObject(c) ==
  /\ Building
  /\ c.id \notin DOMAIN objects
  /\ objects' = With(objects, c)
  /\ UNCHANGED <<schema, events, links, universe, model, outcome>>

AddLink(l) ==
  /\ Building
  /\ links' = links \union {l}
  /\ UNCHANGED <<schema, events, objects, universe, model, outcome>>

\* Mutant: intervals that only touch do not overlap.
OverlapsInside(e, o) == e.lo < o.to /\ e.hi > o.from

\* The bracket of the event meets the lifespan of the object.
Overlaps(e, o) == e.lo <= o.to /\ e.hi >= o.from

\* Links that some type of the event admits and, if asked for, times permit.
Survivors(prune) ==
  {[event |-> x[1], qualifier |-> x[2].qualifier, object |-> x[3]] :
     x \in {x \in (DOMAIN events) \X schema.e2o \X (DOMAIN objects) :
              /\ x[2].type \in events[x[1]].support
              /\ x[2].object = objects[x[3]].type
              /\ prune => Overlaps(events[x[1]], objects[x[3]])}}

IsLegalO2O(l) ==
  \E s \in schema.o2o :
     s.source = objects[l.source].type /\ s.qualifier = l.qualifier
       /\ s.target = objects[l.target].type

Build(prune) ==
  /\ Building
  /\ IF \A l \in links : {l.source, l.target} \subseteq DOMAIN objects
     THEN /\ universe' = [events |-> events, objects |-> objects, e2o |-> Survivors(prune),
                          o2o |-> {l \in links : IsLegalO2O(l)}]
          /\ UNCHANGED outcome
     ELSE outcome' = "invalid" /\ UNCHANGED universe
  /\ UNCHANGED <<builder, model>>

-----------------------------------------------------------------------------
(***************************************************************************)
(* _structure()                                                            *)
(***************************************************************************)
TypeOf(o) == universe.objects[o].type

TypePresence == [family : {"type_presence"}, role : {"support"}, event : DOMAIN universe.events]

Integrity == [family : {"implication"}, role : {"support"}, link : universe.e2o]

Legality ==
  {[family |-> "type_gate", role |-> "support", link |-> l,
    allowed |-> {s.type : s \in {s \in schema.e2o :
                                   s.qualifier = l.qualifier /\ s.object = TypeOf(l.object)}}] :
     l \in universe.e2o}

CandidateGroups ==
  {[event |-> l.event, qualifier |-> l.qualifier, object |-> TypeOf(l.object)] : l \in universe.e2o}

\* Groups without candidates: a required relation cannot disappear silently.
EmptyGroups ==
  {[event |-> x[1], qualifier |-> x[2].qualifier, object |-> x[2].object] :
     x \in {x \in (DOMAIN universe.events) \X schema.e2o : x[2].type \in universe.events[x[1]].support}}

\* Mutant: groups are formed from candidates alone.
GroupsOfCandidates == CandidateGroups

Groups == CandidateGroups \union EmptyGroups

InGroup(g, l) == l.event = g.event /\ l.qualifier = g.qualifier /\ TypeOf(l.object) = g.object

E2OCardinality(role) ==
  {[family |-> "cardinality", role |-> role, event |-> g.event,
    links  |-> {l \in universe.e2o : InGroup(g, l)},
    bounds |-> {s \in schema.e2o : s.qualifier = g.qualifier /\ s.object = g.object}] : g \in Groups}

From(o, s, l) ==
  l.source = o /\ l.qualifier = s.qualifier /\ TypeOf(l.target) = s.target

O2OCardinality(role) ==
  {[family |-> "count", role |-> role, bounds |-> x[2], source |-> x[1],
    links |-> {l \in universe.o2o : From(x[1], x[2], l)}] :
     x \in {x \in (DOMAIN universe.objects) \X schema.o2o : x[2].source = TypeOf(x[1])}}

End(b, e) == [event |-> e, qualifier |-> b.qualifier, object |-> b.object]

Bindable(b) ==
  /\ b.object \in DOMAIN universe.objects
  /\ {End(b, b.first), End(b, b.second)} \subseteq universe.e2o

Precedence(bindings) ==
  {[family |-> "precedence", role |-> b.role, links |-> {End(b, b.first), End(b, b.second)},
    before |-> b.before, after |-> b.after] : b \in {b \in bindings : b.role # "normative"}}

\* Catalogue norms do not constrain belief.
Multiplicities(o) ==
  IF o.cardinality /\ o.classification # "normative"
  THEN E2OCardinality(o.classification) \union O2OCardinality(o.classification)
  ELSE {}

Structure(o) ==
  TypePresence \union Integrity \union Legality \union Multiplicities(o) \union Precedence(o.bindings)

\* Typed links between objects are legal, the classification is explicit, and
\* a penalty has a scale.
Valid(o) ==
  /\ \A l \in universe.o2o :
       \E s \in schema.o2o :
          s.source = TypeOf(l.source) /\ s.qualifier = l.qualifier /\ s.target = TypeOf(l.target)
  /\ o.classification # None
  /\ o.cardinality /\ o.classification = "descriptive" => o.scale
  /\ \A b \in o.bindings : Bindable(b)

Ground(o) ==
  /\ universe # None /\ model = None /\ outcome = None
  /\ IF ~ o.definitional
     THEN outcome' = "capability" /\ UNCHANGED model
     ELSE IF Valid(o)
          THEN model' = [options |-> o, factors |-> Structure(o)] /\ UNCHANGED outcome
          ELSE outcome' = "invalid" /\ UNCHANGED model
  /\ UNCHANGED <<builder, universe>>

Next ==
  \/ \E c \in EventChoices : AddEvent(c)
  \/ \E c \in ObjectChoices : AddObject(c)
  \/ \E l \in LinkChoices : AddLink(l)
  \/ \E prune \in BOOLEAN : Build(prune)
  \/ \E o \in Options : Ground(o)

Spec == Init /\ [][Next]_vars

-----------------------------------------------------------------------------
(***************************************************************************)
(* Kernels, and the decoding of an assignment                              *)
(***************************************************************************)
InBounds(s, n) == s.lo <= n /\ (s.hi # None => n <= s.hi)

\* An event without a type has no links, nor has one whose type declares none.
CountAdmitted(f, type, n) ==
  IF type # Inactive /\ \E s \in f.bounds : s.type = type
  THEN \A s \in f.bounds : s.type = type => InBounds(s, n)
  ELSE n = 0

Admits(f, a) ==
  /\ f.family = "implication" => (f.link \in a.e2o => a.exists[f.link.event])
  /\ f.family = "type_presence" => (a.exists[f.event] <=> a.type[f.event] # Inactive)
  /\ f.family = "type_gate" => (f.link \in a.e2o => a.type[f.link.event] \in f.allowed)
  /\ f.family = "cardinality" =>
       CountAdmitted(f, a.type[f.event], Cardinality(f.links \intersect a.e2o))
  /\ f.family = "count" => InBounds(f.bounds, Cardinality(f.links \intersect a.o2o))
  /\ f.family = "precedence" => (f.links \subseteq a.e2o => f.before <= f.after)

\* The states of the structural variables; objects exist.
Assignments ==
  {a \in [exists : [DOMAIN universe.events -> BOOLEAN],
          type   : [DOMAIN universe.events -> {Inactive} \union UNION {c.support : c \in EventChoices}],
          e2o    : SUBSET universe.e2o,
          o2o    : SUBSET universe.o2o] :
     \A e \in DOMAIN universe.events : a.type[e] \in universe.events[e].support \union {Inactive}}

Supported(a) == \A f \in model.factors : f.role = "support" => Admits(f, a)

Occurring(a) == {e \in DOMAIN universe.events : a.exists[e]}

\* decode_assignment()
Decode(a) == [type |-> [e \in Occurring(a) |-> a.type[e]], e2o |-> a.e2o, o2o |-> a.o2o]

-----------------------------------------------------------------------------
(***************************************************************************)
(* What a history must be, said of the schema and not of candidates        *)
(***************************************************************************)
LinksDeclared(h) ==
  \A l \in h.e2o :
    /\ l.event \in DOMAIN h.type
    /\ \E s \in schema.e2o :
         s.type = h.type[l.event] /\ s.qualifier = l.qualifier /\ s.object = TypeOf(l.object)

LinksCounted(h) ==
  /\ \A e \in DOMAIN h.type : \A s \in schema.e2o :
       s.type = h.type[e] =>
         InBounds(s, Cardinality({l \in h.e2o : l.event = e /\ l.qualifier = s.qualifier
                                                  /\ TypeOf(l.object) = s.object}))
  /\ \A o \in DOMAIN universe.objects : \A s \in schema.o2o :
       s.source = TypeOf(o) => InBounds(s, Cardinality({l \in h.o2o : From(o, s, l)}))

EndsOrdered(h) ==
  \A b \in model.options.bindings :
    b.role = "support" /\ {End(b, b.first), End(b, b.second)} \subseteq h.e2o => b.before <= b.after

LegalHistory(h) ==
  /\ LinksDeclared(h)
  /\ model.options.cardinality /\ model.options.classification = "support" => LinksCounted(h)
  /\ EndsOrdered(h)

Coherent(a) == \A e \in DOMAIN universe.events : a.exists[e] <=> a.type[e] # Inactive

\* The support of a grounded model is the legal histories, no more and no
\* less: no factor is missing where there are no candidates, none confuses
\* types that share a qualifier, and no description or norm excludes a state.
SupportIsLegal ==
  model # None =>
    \A a \in Assignments : Supported(a) <=> Coherent(a) /\ LegalHistory(Decode(a))

\* Pruning loses nothing that can be: whatever link some type of the event
\* declares, at some time at which the event may occur and the object lives,
\* is a candidate.
PossibleIsCandidate ==
  universe # None =>
    \A e \in DOMAIN universe.events, o \in DOMAIN universe.objects, s \in schema.e2o :
      /\ s.type \in universe.events[e].support
      /\ s.object = TypeOf(o)
      /\ \E t \in Times :
           /\ universe.events[e].lo <= t /\ t <= universe.events[e].hi
           /\ universe.objects[o].from <= t /\ t <= universe.objects[o].to
      => [event |-> e, qualifier |-> s.qualifier, object |-> o] \in universe.e2o

=============================================================================
