-------------------------- MODULE CandidateRegistry --------------------------
(***************************************************************************)
(* What a universe keeps of its candidates for numerical execution: typed  *)
(* references to latent quantities (assertions/refs.py), their dense       *)
(* registry (assertions/registry.py), how build() fills it                 *)
(* (universe/core.py: _register), and the region of references around      *)
(* those that were claimed (active_refs()).  The schema is validated when  *)
(* it is made (schema/core.py: Schema._validate).                          *)
(*                                                                         *)
(* A schema also has the attributes [name, kind] of its event and object   *)
(* types, lists in the code, and the pairs of event types its lifecycles   *)
(* order.  The order of references within a family is some fixed order.    *)
(***************************************************************************)
EXTENDS HistoryGrounding, Sequences, SequencesExt

CONSTANTS
  Callers,     \* [ref, kind, cardinality]: variables that callers register
  Claims,      \* sequences of claimed references
  MaxHops,
  MaxOwned     \* bound: variables in the registry of a caller

VARIABLES
  registry,    \* [refs, index, kind, card, frozen, slices]
  rejected,    \* whether a caller's variable was refused
  region       \* [claimed, hops, seen, frontier] of active_refs(), or None

registryVars == <<registry, rejected, region>>

\* The members of a set, each once.
InSomeOrder(S) == FoldSet(LAMBDA x, s : Append(s, x), <<>>, S)

-----------------------------------------------------------------------------
(***************************************************************************)
(* AssertionRef                                                            *)
(***************************************************************************)
FamilyOrder ==
  <<"event_exists", "event_type", "event_time", "object_exists", "e2o", "o2o", "event_attr", "object_attr">>

LinkFamilies == {"e2o", "o2o"}
AttributeFamilies == {"event_attr", "object_attr"}

Ref(family, subject) ==
  [family |-> family, subject |-> subject, qualifier |-> None, target |-> None, attribute |-> None]
LinkRef(family, subject, qualifier, target) ==
  [Ref(family, subject) EXCEPT !.qualifier = qualifier, !.target = target]
AttrRef(family, subject, attribute) == [Ref(family, subject) EXCEPT !.attribute = attribute]

WellFormed(ref) ==
  /\ IF ref.family \in LinkFamilies THEN None \notin {ref.qualifier, ref.target}
                                    ELSE ref.qualifier = None /\ ref.target = None
  /\ ref.family \in AttributeFamilies <=> ref.attribute # None

Touches(ref) == {ref.subject, ref.target} \ {None}

-----------------------------------------------------------------------------
(***************************************************************************)
(* Schema                                                                  *)
(***************************************************************************)
NeedsLevels(a) == a.kind \in {"categorical", "ordinal"}

\* Levels for kinds that need them, and no level twice.
WellKinded(a) == (NeedsLevels(a) <=> a.levels # <<>>) /\ IsInjective(a.levels)

InCopula(a) == a.kind # "categorical"

\* The attributes of all types, events before objects.
AttributesOf(types) ==
  LET names == InSomeOrder(DOMAIN types) IN FlattenSeq([i \in DOMAIN names |-> types[names[i]]])

Owned(c) == AttributesOf(c.events) \o AttributesOf(c.objects)

SignaturesDeclared(c) ==
  /\ \A s \in c.e2o : s.type \in DOMAIN c.events /\ s.object \in DOMAIN c.objects
  /\ \A s \in c.o2o : {s.source, s.target} \subseteq DOMAIN c.objects
  /\ \A l \in c.lifecycles : l.object \in DOMAIN c.objects /\ {l.before, l.after} \subseteq DOMAIN c.events

\* No attribute is declared twice.
OwnersUnique(c) ==
  \A i, j \in DOMAIN Owned(c) : Owned(c)[i].name = Owned(c)[j].name => i = j

\* Mutant: attributes are not looked at.
SignaturesOnly(c) == SignaturesDeclared(c)

ValidSchema(c) ==
  /\ \A i \in DOMAIN Owned(c) : WellKinded(Owned(c)[i])
  /\ SignaturesDeclared(c)
  /\ OwnersUnique(c)

\* References have one of the families, and names of their own.  A builder
\* refuses types that its schema does not declare (add_event, add_object).
ASSUME RegistryAssumption ==
  /\ \A v \in Callers : v.ref.family \in Range(FamilyOrder)
  /\ \A c \in Schemas :
       /\ IsFiniteSet(c.e2o) /\ \A s \in c.e2o : s.qualifier # None
       /\ \A types \in {c.events, c.objects} :
            /\ IsFiniteSet(DOMAIN types)
            /\ \A t \in DOMAIN types : types[t] \in Seq(Range(types[t])) /\ \A a \in Range(types[t]) : a.name # None
       /\ \A e \in EventChoices : e.support \subseteq DOMAIN c.events /\ e.id # None
       /\ \A o \in ObjectChoices : o.type \in DOMAIN c.objects /\ o.id # None
  /\ \A l \in LinkChoices :
       l = [source |-> l.source, qualifier |-> l.qualifier, target |-> l.target] /\ l.qualifier # None
  /\ \A claimed \in Claims : claimed \in Seq(Range(claimed))
  /\ MaxHops \in Nat

RegistryInit ==
  /\ registry = None /\ rejected = FALSE /\ region = None
  /\ Init /\ ValidSchema(schema)

-----------------------------------------------------------------------------
(***************************************************************************)
(* VariableRegistry                                                        *)
(***************************************************************************)
NewRegistry == [refs |-> <<>>, index |-> <<>>, kind |-> <<>>, card |-> <<>>, frozen |-> FALSE, slices |-> <<>>]

Resolved(kind, cardinality) ==
  CASE kind = "continuous" -> IF cardinality \in {None, 0} THEN 0 ELSE None
    [] kind = "binary" -> IF cardinality \in {None, 2} THEN 2 ELSE None
    [] OTHER -> IF cardinality # None /\ cardinality >= 2 THEN cardinality ELSE None

\* Registered again as something else.
Conflicts(r, v) ==
  /\ v.ref \in DOMAIN r.index
  /\ LET i == r.index[v.ref]
     IN  r.kind[i] # v.kind \/ r.card[i] # Resolved(v.kind, v.cardinality)

Refuses(r, v) == r.frozen \/ Resolved(v.kind, v.cardinality) = None \/ Conflicts(r, v)

\* The registry after add(), if that does not refuse.
Added(r, v) ==
  IF v.ref \in DOMAIN r.index THEN r
  ELSE [r EXCEPT !.refs = Append(@, v.ref), !.kind = Append(@, v.kind),
                 !.card = Append(@, Resolved(v.kind, v.cardinality)),
                 !.index = [ref \in DOMAIN @ \union {v.ref} |-> IF ref = v.ref THEN Len(r.refs) + 1 ELSE @[ref]]]

\* Mutant: the index is not made again.
IndexAsAdded(r, order) == r.index

\* By the position in the order, a sequence of earlier positions.
IndexOf(r, order) == [ref \in Range(r.refs) |-> CHOOSE i \in DOMAIN order : r.refs[order[i]] = ref]

Reordered(s, order) == [i \in DOMAIN order |-> s[order[i]]]

\* Families in their order.
OrderOf(r) ==
  FlattenSeq([k \in DOMAIN FamilyOrder |-> InSomeOrder({i \in DOMAIN r.refs : r.refs[i].family = FamilyOrder[k]})])

\* The slice of a family, [first, last].
SlicesOf(refs) ==
  [f \in {refs[i].family : i \in DOMAIN refs} |->
     LET places == {i \in DOMAIN refs : refs[i].family = f}
     IN  [first |-> Min(places), last |-> Max(places)]]

Frozen(r) ==
  IF r.frozen THEN r
  ELSE LET order == OrderOf(r)
           refs  == Reordered(r.refs, order)
       IN  [refs |-> refs, index |-> IndexOf(r, order), kind |-> Reordered(r.kind, order),
            card |-> Reordered(r.card, order), frozen |-> TRUE, slices |-> SlicesOf(refs)]

Variable(ref, kind, cardinality) == [ref |-> ref, kind |-> kind, cardinality |-> cardinality]
Binary(ref) == Variable(ref, "binary", None)
Continuous(ref) == Variable(ref, "continuous", None)

\* A caller's own registry, before there are candidates.
Owning == universe = None /\ events = <<>> /\ objects = <<>> /\ links = {} /\ outcome = None

AddVariable(v) ==
  /\ Owning /\ ~ rejected
  /\ LET r == IF registry = None THEN NewRegistry ELSE registry
     IN  IF Refuses(r, v) THEN rejected' = TRUE /\ UNCHANGED registry
         ELSE /\ Len(r.refs) < MaxOwned \/ v.ref \in DOMAIN r.index
              /\ registry' = Added(r, v) /\ UNCHANGED rejected
  /\ UNCHANGED <<vars, region>>

Freeze ==
  /\ Owning /\ registry # None
  /\ registry' = Frozen(registry)
  /\ UNCHANGED <<vars, rejected, region>>

-----------------------------------------------------------------------------
(***************************************************************************)
(* UniverseBuilder._register()                                             *)
(***************************************************************************)
\* A singleton support determines the type: no variable is made.
EventVariables(u, e) ==
  LET support  == u.events[e].support
      declared == {Range(schema.events[t]) : t \in support}
      shared   == {a \in UNION declared : \A d \in declared : a \in d /\ InCopula(a)}
  IN  <<Binary(Ref("event_exists", e)), Continuous(Ref("event_time", e))>>
      \o (IF Cardinality(support) > 1
          THEN <<Variable(Ref("event_type", e), "categorical", Cardinality(support))>> ELSE <<>>)
      \o InSomeOrder({Continuous(AttrRef("event_attr", e, a.name)) : a \in shared})

ObjectVariables(u, o) ==
  LET attributes == schema.objects[u.objects[o].type]
      variable(a) == IF InCopula(a) THEN <<Continuous(AttrRef("object_attr", o, a.name))>> ELSE <<>>
  IN  <<Binary(Ref("object_exists", o))>> \o FlattenSeq([i \in DOMAIN attributes |-> variable(attributes[i])])

LinkVariables(u) ==
  InSomeOrder({Binary(LinkRef("e2o", l.event, l.qualifier, l.object)) : l \in u.e2o})
    \o InSomeOrder({Binary(LinkRef("o2o", l.source, l.qualifier, l.target)) : l \in u.o2o})

EntityVariables(u) ==
  LET slots    == InSomeOrder(DOMAIN u.events)
      entities == InSomeOrder(DOMAIN u.objects)
  IN  FlattenSeq([i \in DOMAIN slots |-> EventVariables(u, slots[i])])
      \o FlattenSeq([i \in DOMAIN entities |-> ObjectVariables(u, entities[i])])

AddedAll(variables) == FoldLeft(Added, NewRegistry, variables)

\* None of these variables is refused: each is added once.
Register(u) == Frozen(AddedAll(EntityVariables(u) \o LinkVariables(u)))

BuildRegistered(prune) ==
  /\ Build(prune)
  /\ registry' = IF universe' = None THEN None ELSE Register(universe')
  /\ UNCHANGED <<rejected, region>>

-----------------------------------------------------------------------------
(***************************************************************************)
(* Universe.active_refs()                                                  *)
(***************************************************************************)
\* Mutant: what is at the bound is left as well.
AtBoundExpands(depth, hops) == depth <= hops

Expands(depth, hops) == depth < hops

\* Bound: regions of universes that no model is grounded in.
ActiveRefs(claimed, hops) ==
  /\ universe # None /\ model = None /\ outcome = None /\ region = None
  /\ LET seed == FlattenSeq([i \in DOMAIN claimed |-> IF claimed[i] \in DOMAIN registry.index THEN <<claimed[i]>> ELSE <<>>])
     IN  region' = [claimed |-> claimed, hops |-> hops, seen |-> Range(seed),
                    frontier |-> [i \in DOMAIN seed |-> <<seed[i], 0>>]]
  /\ UNCHANGED <<vars, registry, rejected>>

Expand ==
  /\ region # None /\ region.frontier # <<>>
  /\ LET item  == Head(region.frontier)
         found == {r \in Range(registry.refs) \ region.seen : Touches(r) \intersect Touches(item[1]) # {}}
         next  == IF Expands(item[2], region.hops) THEN InSomeOrder({<<r, item[2] + 1>> : r \in found}) ELSE <<>>
     IN  region' = [region EXCEPT !.seen = @ \union {n[1] : n \in Range(next)}, !.frontier = Tail(@) \o next]
  /\ UNCHANGED <<vars, registry, rejected>>

Aside == registry = None /\ UNCHANGED registryVars

RegistryNext ==
  \/ \E v \in Callers : AddVariable(v)
  \/ Freeze
  \/ \E c \in EventChoices : AddEvent(c) /\ Aside
  \/ \E c \in ObjectChoices : AddObject(c) /\ Aside
  \/ \E l \in LinkChoices : AddLink(l) /\ Aside
  \/ registry = None /\ \E prune \in BOOLEAN : BuildRegistered(prune)
  \/ region = None /\ (\E o \in Options : Ground(o)) /\ UNCHANGED registryVars
  \/ \E claimed \in Claims, hops \in 0..MaxHops : ActiveRefs(claimed, hops)
  \/ Expand

RegistrySpec == RegistryInit /\ [][RegistryNext]_<<vars, registryVars>>

-----------------------------------------------------------------------------
\* Whatever order variables were registered in, and how often: in a frozen
\* registry an index leads to its reference and back, the kinds and the
\* cardinalities are those that were registered, and the slices of families
\* are blocks that part the indices.
IndicesAreDense ==
  (registry # None /\ registry.frozen) =>
    /\ DOMAIN registry.index = Range(registry.refs)
    /\ \A i \in DOMAIN registry.refs :
         /\ registry.index[registry.refs[i]] = i
         /\ {f \in DOMAIN registry.slices :
               registry.slices[f].first <= i /\ i <= registry.slices[f].last} = {registry.refs[i].family}
    /\ Owning => \A i \in DOMAIN registry.refs : \E v \in Callers :
         v.ref = registry.refs[i] /\ v.kind = registry.kind[i] /\ Resolved(v.kind, v.cardinality) = registry.card[i]

Of(family) == {r \in DOMAIN registry.index : r.family = family}

\* A universe has a variable for what is not determined, and nothing else:
\* those of events and links are those of the models grounded in it, and an
\* attribute belongs to an entity whose one possible type declares it.
VariablesAreLatent ==
  universe # None =>
    /\ \A r \in DOMAIN registry.index : WellFormed(r)
    /\ {r.subject : r \in Of("event_exists")} = DOMAIN universe.events
    /\ {r.subject : r \in Of("event_type")} = {e \in DOMAIN universe.events : Cardinality(universe.events[e].support) > 1}
    /\ {[event |-> r.subject, qualifier |-> r.qualifier, object |-> r.target] : r \in Of("e2o")} = universe.e2o
    /\ {[source |-> r.subject, qualifier |-> r.qualifier, target |-> r.target] : r \in Of("o2o")} = universe.o2o
    /\ \A r \in Of("event_attr") :
         \E t \in DOMAIN schema.events :
           universe.events[r.subject].support = {t} /\ \E a \in Range(schema.events[t]) : a.name = r.attribute
    /\ \A r \in Of("object_attr") :
         \A t \in DOMAIN schema.objects \ {TypeOf(r.subject)} :
           \A a \in Range(schema.objects[t]) : a.name # r.attribute

\* A frozen registry can be trusted with both: each index leads to one
\* reference, and the references are those the candidates leave open.
CandidatesAreIndexed == IndicesAreDense /\ VariablesAreLatent

Adjacent(S) == {r \in DOMAIN registry.index : \E s \in S : Touches(r) \intersect Touches(s) # {}}

\* The references at most so many steps from the claimed ones, a step being
\* from a reference to one that touches the same entity.
Within(claimed, hops) ==
  FoldLeft(LAMBDA S, i : S \union Adjacent(S), Range(claimed) \intersect DOMAIN registry.index, [i \in 1..hops |-> i])

\* A region ends as the references within its hops: none is missed because it
\* was met late, and none is taken from further away.
RegionIsNeighbourhood ==
  (region # None /\ region.frontier = <<>>) => region.seen = Within(region.claimed, region.hops)
=============================================================================
