-------------------------- MODULE ModelCompilation --------------------------
(***************************************************************************)
(* What evidence adds to a model: _compile() of model/compile.py, with the *)
(* resolution of trust rules (reliability/config.py) and the channels that *)
(* declare latents of their own (model/channels.py).                       *)
(*                                                                         *)
(* Observations are processed in the order of their identities, as         *)
(* InterpretedEvidence keeps them.  A variable is Finite (its states) or   *)
(* real (sd, active); a prior is a table over states, normal if it is a    *)
(* probability; a factor is known by its key, <<kind, name>>.  The factors *)
(* of the schema are those of HistoryGrounding, here given as a set.       *)
(***************************************************************************)
EXTENDS Integers, FiniteSets

CONSTANTS
  Specs,        \* [variables, observations, effective, interpreted, rules,
                \*  default, basis, priors, factors, grounded]
  Structure,    \* [variables, types, times, factors]: the grounded schema
  Registry,     \* the channels: "plain", "association" or "timestamp"
  Kernels,      \* families of factors that are known
  Semantic,     \* the names that are assertions about events and objects
  None

ASSUME CompilationAssumption ==
  /\ None \notin {"compiled"}
  /\ \A s \in Specs :
       /\ \A o \in s.observations : o.id \in Nat
       /\ \A o, p \in s.observations : o.id = p.id => o = p
       /\ IsFiniteSet(s.rules)
  /\ \A f \in Structure.factors : f.role # "observation"

VARIABLES
  spec,
  pc,             \* the part of the compilation under way
  trust,          \* from channel keys to values
  declared,       \* from names to variables
  contributions,  \* from observations to what their channels contribute
  shared,         \* from names to the priors that channels contribute
  factors,        \* from keys to factors
  clash,          \* two factors have had one key
  counted,        \* the groups that have their likelihoods
  outcome         \* None, or how it ended

result == <<factors, clash, counted>>
vars == <<spec, pc, trust, declared, contributions, shared, result, outcome>>

NoneYet == [x \in {} |-> None]

Init ==
  /\ spec \in Specs
  /\ pc = "resolve"
  /\ trust = NoneYet
  /\ declared = spec.variables
  /\ contributions = NoneYet
  /\ shared = NoneYet
  /\ factors = NoneYet
  /\ clash = FALSE
  /\ counted = {}
  /\ outcome = None

Fail(how) ==
  /\ outcome' = how
  /\ pc' = "ended"
  /\ UNCHANGED <<spec, trust, declared, contributions, shared, result>>

\* New factors join those there are; two with one key are refused at the end.
Add(new) ==
  /\ factors' = [k \in DOMAIN factors \union {f.key : f \in new} |->
                   IF k \in DOMAIN factors THEN factors[k] ELSE CHOOSE f \in new : f.key = k]
  /\ clash' = (clash \/ (\E f \in new : f.key \in DOMAIN factors)
                     \/ (\E f, g \in new : f # g /\ f.key = g.key))

-----------------------------------------------------------------------------
(***************************************************************************)
(* resolve_parameters()                                                    *)
(***************************************************************************)
KeyOf(o) == [source |-> o.source, family |-> o.family, channel |-> o.channel, version |-> o.version]

Matches(rule, key) == \A part \in DOMAIN key : rule.key[part] \in {None, key[part]}

Exact(rule) == \A part \in DOMAIN rule.key : rule.key[part] # None

Candidates(key) ==
  LET matching == {r \in spec.rules : Matches(r, key)}
      exact    == {r \in matching : Exact(r)}
  IN  IF exact # {} THEN exact ELSE matching

\* Mutant: of several candidates any one will do.
ResolvesAny(key) == Candidates(key) # {} \/ spec.default # None

Resolves(key) ==
  /\ Cardinality(Candidates(key)) <= 1
  /\ Candidates(key) = {} => spec.default # None

Values(key) ==
  IF Candidates(key) = {} THEN spec.default ELSE (CHOOSE r \in Candidates(key) : TRUE).values

Resolve ==
  LET keys == {KeyOf(o) : o \in spec.basis}
  IN  /\ pc = "resolve"
      /\ IF /\ \A r \in spec.rules : Exact(r) \/ r.key.family # None
            /\ \A k \in keys : Resolves(k)
         THEN /\ trust' = [k \in keys |-> Values(k)]
              /\ pc' = "begin"
              /\ UNCHANGED <<spec, declared, contributions, shared, result, outcome>>
         ELSE Fail("refused")

-----------------------------------------------------------------------------
(***************************************************************************)
(* _compile(): variables and contributions                                 *)
(***************************************************************************)
\* Evidence is compiled in the context it was interpreted in.
Begin ==
  /\ pc = "begin"
  /\ IF spec.interpreted
     THEN /\ pc' = "observations"
          /\ UNCHANGED <<spec, trust, declared, contributions, shared, result, outcome>>
     ELSE Fail("refused")

IsFinite(v) == "states" \in DOMAIN v

Channel(o) == IF o.channel \in DOMAIN Registry THEN Registry[o.channel] ELSE None

Contributes(o) == Channel(o) \in {"association", "timestamp"}

\* What AssociationChannel and TimestampChannel require of an observation.
Accepted(o, values) ==
  /\ values.kind = Channel(o)
  /\ \A k \in o.scope : IsFinite(declared[k]) <=> Channel(o) = "association"
  /\ Cardinality(o.scope) = 1

Likelihood(o, values, evidence) ==
  [key |-> <<"observation", o.id>>, family |-> "likelihood", role |-> "observation",
   scope |-> o.scope \union ({values.latent} \ {None}), values |-> values, evidence |-> evidence]

Prior(name, table) ==
  [key |-> <<"prior", name>>, family |-> "table", role |-> "descriptive", scope |-> {name},
   values |-> table, evidence |-> {}]

\* A latent shared by observations, as the values of their channel name it.
Contribution(o, values) ==
  [variables |-> IF values.latent = None THEN {} ELSE {[name |-> values.latent, variable |-> values.variable]},
   priors    |-> IF values.latent = None \/ values.prior = None THEN {} ELSE {Prior(values.latent, values.prior)},
   values    |-> values]

Remaining == spec.observations \ DOMAIN contributions

FirstOf(O) == CHOOSE o \in O : \A other \in O : o.id <= other.id

Agrees(v) == v.name \in DOMAIN declared => declared[v.name] = v.variable

\* Observations whose channel contributes nothing are passed over.
Contribute ==
  /\ pc = "observations" /\ Remaining # {}
  /\ LET o == FirstOf(Remaining)
         values == trust[KeyOf(o)]
         c == IF Contributes(o) THEN Contribution(o, values) ELSE None
     IN  IF /\ o.scope \subseteq DOMAIN declared
            /\ Contributes(o) => /\ KeyOf(o) \in DOMAIN trust
                                 /\ Accepted(o, values)
                                 /\ \A v \in c.variables : Agrees(v)
         THEN /\ contributions' = [p \in DOMAIN contributions \union {o} |->
                                     IF p = o THEN c ELSE contributions[p]]
              /\ declared' = [k \in DOMAIN declared \union
                                    (IF c = None THEN {} ELSE {v.name : v \in c.variables}) |->
                                IF k \in DOMAIN declared THEN declared[k] ELSE values.variable]
              /\ UNCHANGED <<spec, pc, trust, shared, result, outcome>>
         ELSE Fail("refused")

ObservationsDone ==
  /\ pc = "observations" /\ Remaining = {}
  /\ pc' = "admit"
  /\ UNCHANGED <<spec, trust, declared, contributions, shared, result, outcome>>

\* The time of an event, which is active exactly when the event exists.
IsTime(k) ==
  k \in DOMAIN Structure.times /\ ~ IsFinite(declared[k]) /\ declared[k].active = {Structure.times[k]}

Activated(v) ==
  \A a \in v.active :
    a.name \in DOMAIN declared /\ IsFinite(declared[a.name]) /\ a.state \in declared[a.name].states

\* Variables that are assertions are those of the schema, as it has them, or
\* times of its events; without a schema there are none.
Admissible ==
  IF spec.grounded
  THEN /\ \A k \in DOMAIN Structure.variables :
            k \in DOMAIN declared /\ declared[k] = Structure.variables[k]
       /\ \A k \in (DOMAIN declared \intersect Semantic) \ DOMAIN Structure.variables : IsTime(k)
  ELSE DOMAIN declared \intersect Semantic = {}

Admit ==
  /\ pc = "admit"
  /\ IF Admissible /\ \A k \in DOMAIN declared : ~ IsFinite(declared[k]) => Activated(declared[k])
     THEN /\ Add(spec.factors \union (IF spec.grounded THEN Structure.factors ELSE {}))
          /\ pc' = "share"
          /\ UNCHANGED <<spec, trust, declared, contributions, shared, counted, outcome>>
     ELSE Fail("refused")

-----------------------------------------------------------------------------
(***************************************************************************)
(* _compile(): priors                                                      *)
(***************************************************************************)
Normal(table, v) == table.states = v.states /\ table.normal

ContributedPriors ==
  UNION {contributions[o].priors : o \in {o \in DOMAIN contributions : contributions[o] # None}}

\* Mutant: of two priors for one latent, either will do.
OneOfSeveral(priors) == TRUE

OneEach(priors) == \A p, q \in priors : p.scope = q.scope => p = q

NameOf(p) == p.key[2]

Share ==
  /\ pc = "share"
  /\ LET priors == ContributedPriors
     IN  IF /\ \A p \in priors : IsFinite(declared[NameOf(p)]) /\ Normal(p.values, declared[NameOf(p)])
            /\ OneEach(priors)
         THEN /\ shared' = [k \in {NameOf(p) : p \in priors} |-> CHOOSE p \in priors : NameOf(p) = k]
              /\ pc' = "priors"
              /\ UNCHANGED <<spec, trust, declared, contributions, result, outcome>>
         ELSE Fail("refused")

Supplied == DOMAIN spec.priors

IsType(k) == spec.grounded /\ k \in Structure.types

\* The variables whose prior is neither contributed nor that of the schema.
Plain == {k \in DOMAIN declared : IsFinite(declared[k]) /\ k \notin DOMAIN shared /\ ~ IsType(k)}

Single(k) == Cardinality(declared[k].states) = 1

PriorOf(k) ==
  IF ~ IsFinite(declared[k]) THEN [Prior(k, declared[k]) EXCEPT !.family = "linear_gaussian"]
  ELSE IF k \in DOMAIN shared THEN shared[k]
  ELSE IF Single(k) THEN Prior(k, [states |-> declared[k].states, normal |-> TRUE, shape |-> "certain"])
  ELSE Prior(k, spec.priors[k])

\* The prior of a type is that of its factor type_presence: uniform.
Owned == {k \in DOMAIN declared : ~ IsFinite(declared[k])} \union DOMAIN shared \union Plain

Priors ==
  /\ pc = "priors"
  /\ IF /\ (Supplied \intersect DOMAIN declared) \subseteq Owned
        /\ \A k \in Supplied \intersect DOMAIN shared : shared[k].values = spec.priors[k]
        /\ \A k \in Plain : Single(k) \/ (k \in Supplied /\ Normal(spec.priors[k], declared[k]))
     THEN /\ Add({PriorOf(k) : k \in Owned})
          /\ pc' = "groups"
          /\ UNCHANGED <<spec, trust, declared, contributions, shared, counted, outcome>>
     ELSE Fail("refused")

-----------------------------------------------------------------------------
(***************************************************************************)
(* _compile(): likelihoods                                                 *)
(***************************************************************************)
GroupsOfEvidence == {o.information : o \in spec.observations}

CopiesOf(g) == {o \in spec.observations : o.information = g}

Meaning(o) == [key |-> KeyOf(o), scope |-> o.scope, value |-> o.value]

\* Mutant: the evidence of the first copy stands for all.
FirstCopy(g) == LET o == FirstOf(CopiesOf(g)) IN {Likelihood(o, trust[KeyOf(o)], o.evidence)}

\* The likelihood of the first copy, with the evidence of all.
LikelihoodOf(g) ==
  LET first == FirstOf(CopiesOf(g))
  IN  Likelihood(first,
                 IF contributions[first] # None THEN contributions[first].values ELSE trust[KeyOf(first)],
                 UNION {o.evidence : o \in CopiesOf(g)})

OfGroup(g) == {LikelihoodOf(g)}

Group(g) ==
  /\ pc = "groups" /\ g \in GroupsOfEvidence \ counted
  /\ IF \E o, p \in CopiesOf(g) : Meaning(o) # Meaning(p)
     THEN Fail("dependent")
     ELSE IF \A o \in CopiesOf(g) : Channel(o) # None /\ KeyOf(o) \in DOMAIN trust
     THEN /\ Add(OfGroup(g))
          /\ counted' = counted \union {g}
          /\ UNCHANGED <<spec, pc, trust, declared, contributions, shared, outcome>>
     ELSE Fail("refused")

GroupsDone ==
  /\ pc = "groups" /\ counted = GroupsOfEvidence
  /\ pc' = "validate"
  /\ UNCHANGED <<spec, trust, declared, contributions, shared, result, outcome>>

Sound(f) ==
  /\ f.scope \subseteq DOMAIN declared
  /\ f.family \in Kernels
  /\ f.family = "table" => \A k \in f.scope : IsFinite(declared[k])
  /\ f.evidence \subseteq spec.effective

Validate ==
  /\ pc = "validate"
  /\ IF ~ clash /\ \A k \in DOMAIN factors : Sound(factors[k])
     THEN /\ outcome' = "compiled"
          /\ pc' = "ended"
          /\ UNCHANGED <<spec, trust, declared, contributions, shared, result>>
     ELSE Fail("refused")

\* A checkpoint stops the compilation; there is one in every part of it.
Stop == pc \notin {"resolve", "ended"} /\ Fail("stopped")

Next ==
  \/ Resolve \/ Begin
  \/ Contribute \/ ObservationsDone
  \/ Admit
  \/ Share \/ Priors
  \/ (\E g \in GroupsOfEvidence : Group(g)) \/ GroupsDone
  \/ Validate
  \/ Stop

Spec == Init /\ [][Next]_vars

-----------------------------------------------------------------------------
Compiled == outcome = "compiled"

\* The caller's own factors are what they are.
Likelihoods ==
  {factors[k] : k \in {k \in DOMAIN factors : factors[k].role = "observation"}} \ spec.factors

Counts(f, g) == \E o \in CopiesOf(g) : f.key = <<"observation", o.id>>

\* A compiled model counts every report once: each information group has one
\* likelihood, which cites the evidence of all its copies, and there are no
\* likelihoods but those of the groups.
ReportsCountedOnce ==
  Compiled =>
    /\ \A f \in Likelihoods : \E g \in GroupsOfEvidence : Counts(f, g)
    /\ \A g \in GroupsOfEvidence :
         \E f \in Likelihoods :
           /\ f.evidence = UNION {o.evidence : o \in CopiesOf(g)}
           /\ \A other \in Likelihoods : Counts(other, g) <=> other = f

\* One rule is the closest to a key: it matches, and any other that does is
\* less exact.  Without one, the default applies.
Closest(r, key) ==
  Matches(r, key) /\ \A other \in spec.rules \ {r} : Matches(other, key) => Exact(r) /\ ~ Exact(other)

\* Every likelihood has the values of the rule closest to the source, family,
\* channel and version of its observation, never of one of several, and the
\* default only where no rule matches.
TrustIsClosest ==
  Compiled =>
    \A o \in spec.observations : \A f \in Likelihoods :
      f.key = <<"observation", o.id>> =>
        \/ \E r \in spec.rules : Closest(r, KeyOf(o)) /\ f.values = r.values
        \/ (\A r \in spec.rules : ~ Matches(r, KeyOf(o))) /\ f.values = spec.default

\* Observations that share a latent mean the same latent: the variable and the
\* prior that each contributed are those of the model, and so is every prior
\* that the caller supplied, also for such a latent.
SharedMeansSame ==
  Compiled =>
    /\ \A o \in DOMAIN contributions :
         contributions[o] # None =>
           /\ \A v \in contributions[o].variables : declared[v.name] = v.variable
           /\ \A p \in contributions[o].priors : factors[p.key] = p
    /\ \A k \in Supplied \intersect DOMAIN declared :
         IsFinite(declared[k]) /\ ~ Single(k) => factors[<<"prior", k>>].values = spec.priors[k]

\* docs/concepts/evidence.md: copies that two systems deliver of one report
\* are counted once if both get the same information group.
CopiesOfSystemsCount ==
  outcome = "dependent" =>
    \E o, p \in spec.observations :
      /\ o.information = p.information
      /\ [Meaning(o) EXCEPT !.key.source = p.source] # Meaning(p)

=============================================================================
