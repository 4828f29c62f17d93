---------------------------- MODULE SamplingPlan -----------------------------
(***************************************************************************)
(* What the blocked sampler decides before it draws, and the conditionals  *)
(* it draws blocks from: BlockedEngine.assess() of inference/sampling.py,  *)
(* the reduction of domains (model/reductions.py), the conditioning of the *)
(* rest (inference/conditional.py), the table of a block                   *)
(* (inference/block_conditionals.py), and the identities under which these *)
(* are kept from model to model (model/dependencies.py).                   *)
(*                                                                         *)
(* A state maps keys to labels.  A factor is a table of weights, counts    *)
(* its true variables, or has a kernel of an extension, which multiplies   *)
(* by its configured weight where all variables are true; a weight of 0 is *)
(* a log value of minus infinity.  Real variables have no state here: what *)
(* matters is which factors touch them.                                    *)
(***************************************************************************)
EXTENDS Integers, Sequences, FiniteSets, FiniteSetsExt, SequencesExt

CONSTANTS
  Models,      \* see ModelAssumption
  Configs,     \* [blocks, proposals]: sets of keys, given or registered
  MaxTable,    \* states of a table, components of a mixture
  MaxReal,     \* max_continuous_dim
  MaxPlanned,  \* models planned for in a session
  Nowhere      \* no model, no plan

TF == {"false", "true"}

Builtin == {"table", "count", "linear_gaussian", "temporal_order"}

\* A function with one more value, and two functions as one.
With(f, k, v) == [x \in DOMAIN f \union {k} |-> IF x = k THEN v ELSE f[x]]
Over(f, g)    == [x \in DOMAIN f \union DOMAIN g |-> IF x \in DOMAIN f THEN f[x] ELSE g[x]]

ChoiceKey(f) == "codec:" \o f.key

StatesOf(domains) ==
  {s \in [DOMAIN domains -> UNION Range(domains)] : \A k \in DOMAIN domains : s[k] \in domains[k]}

\* domains: of finite variables; reals: the conditions of real variables;
\* factors in the order of their keys, a table with a weight for each state of
\* its scope; kernels of extensions: [batch, token, weight], the token empty
\* when they declare none.  Factors have keys of their own, and no variable has
\* the key that a choice would have: compilation and reduction_codec() refuse
\* such models.
ASSUME ModelAssumption ==
  \A m \in Models :
    /\ IsFiniteSet(DOMAIN m.domains)
    /\ \A k \in DOMAIN m.domains : IsFiniteSet(m.domains[k]) /\ m.domains[k] # {}
    /\ DOMAIN m.domains \intersect DOMAIN m.reals = {}
    /\ IsFiniteSet(DOMAIN m.reals)
    /\ \A k \in DOMAIN m.reals : m.reals[k] \subseteq DOMAIN m.domains
    /\ m.factors \in Seq(Range(m.factors))
    /\ \A k \in DOMAIN m.kernels : m.kernels[k].weight \in Nat
    /\ \A f, g \in Range(m.factors) : ChoiceKey(f) = ChoiceKey(g) => f = g
    /\ \A f \in Range(m.factors) :
         /\ ChoiceKey(f) \notin DOMAIN m.domains \union DOMAIN m.reals
         /\ f.scope \subseteq DOMAIN m.domains \union DOMAIN m.reals
         /\ f.family \in Builtin \union DOMAIN m.kernels
         /\ f.family = "table" =>
              \A s \in StatesOf(m.domains) : LET t == [k \in f.scope |-> s[k]]
                                            IN  t \in DOMAIN f.weights /\ f.weights[t] \in Nat

\* The identity that a kernel declares covers "every configuration dependency"
\* (docs/how-to/extend.md): kernels that declare one are configured alike.
ASSUME TokenAssumption ==
  \A m, n \in Models : \A k \in DOMAIN m.kernels, l \in DOMAIN n.kernels :
    (m.kernels[k].token = n.kernels[l].token /\ m.kernels[k].token # "") =>
      m.kernels[k].weight = n.kernels[l].weight

VARIABLES
  planning,  \* idle, widening, planned, refused
  subject,   \* the model
  config,
  sampled,   \* encoded variables to be sampled
  codec,     \* [clamped, choices, domains]
  plan,      \* [codec, sampled, blocks]
  table,     \* the latest conditional of a block, and what it is of
  kept,      \* the store: tables by their keys
  planned    \* history: the models planned for, in order

planVars == <<planning, subject, config, sampled, codec, plan, table, kept, planned>>

PlanningInit ==
  /\ planning = "idle" /\ subject = Nowhere /\ config = Nowhere
  /\ sampled = {} /\ codec = Nowhere /\ plan = Nowhere /\ table = Nowhere
  /\ kept = <<>> /\ planned = <<>>

-----------------------------------------------------------------------------
(***************************************************************************)
(* Weights                                                                 *)
(***************************************************************************)
Trues(f, s) == Cardinality({k \in f.scope : s[k] = "true"})

Weight(m, f, s) ==
  CASE f.family = "table" -> f.weights[[k \in f.scope |-> s[k]]]
    [] f.family = "count" -> IF Trues(f, s) \in f.lo..f.hi THEN 1 ELSE 0
    [] f.family \in {"linear_gaussian", "temporal_order"} -> 1
    [] OTHER -> IF Trues(f, s) = Cardinality(f.scope) THEN m.kernels[f.family].weight ELSE 1

Product(S, w(_)) == FoldSet(LAMBDA x, n : w(x) * n, 1, S)
Total(S, w(_)) == FoldSet(LAMBDA x, n : w(x) + n, 0, S)

WeightOf(m, s) == Product(Range(m.factors), LAMBDA f : Weight(m, f, s))

-----------------------------------------------------------------------------
(***************************************************************************)
(* reduction_codec()                                                       *)
(***************************************************************************)
ExactlyOne(f) == f.family = "count" /\ f.role = "support" /\ f.lo = 1 /\ f.hi = 1 /\ f.scope # {}

\* Mutant: variables that a choice has taken are taken again.
ReducesAny(f, left, m) ==
  ExactlyOne(f) /\ \A k \in f.scope : k \in DOMAIN m.domains /\ m.domains[k] = TF

Reduces(f, left, m) ==
  ExactlyOne(f) /\ \A k \in f.scope : k \in DOMAIN left.domains /\ left.domains[k] = TF

\* A choice, among the names of its variables, in place of them.
Reduced(f, left) ==
  [choices |-> With(left.choices, ChoiceKey(f), f.scope),
   domains |-> With(Restrict(left.domains, DOMAIN left.domains \ f.scope), ChoiceKey(f), f.scope)]

CodecOf(m) ==
  LET single == {k \in DOMAIN m.domains : Cardinality(m.domains[k]) = 1}
      reduced == FoldLeft(LAMBDA left, f : IF Reduces(f, left, m) THEN Reduced(f, left) ELSE left,
                          [choices |-> <<>>, domains |-> Restrict(m.domains, DOMAIN m.domains \ single)],
                          m.factors)
  IN  [choices |-> reduced.choices, domains |-> reduced.domains,
       clamped |-> [k \in single |-> CHOOSE v \in m.domains[k] : TRUE]]

EncodedKey(c, k) ==
  IF \E choice \in DOMAIN c.choices : k \in c.choices[choice]
  THEN CHOOSE choice \in DOMAIN c.choices : k \in c.choices[choice] ELSE k

\* expand(): the variables of a choice are true or not.
Chosen(c, e, k) == IF e[EncodedKey(c, k)] = k THEN "true" ELSE "false"

ExpandedKeys(c, keys) ==
  DOMAIN c.clamped \union (keys \ DOMAIN c.choices)
    \union UNION {c.choices[k] : k \in keys \intersect DOMAIN c.choices}

Expand(c, e) ==
  [k \in ExpandedKeys(c, DOMAIN e) |->
     IF k \in DOMAIN c.clamped THEN c.clamped[k]
     ELSE IF k \in DOMAIN e THEN e[k] ELSE Chosen(c, e, k)]

-----------------------------------------------------------------------------
(***************************************************************************)
(* dependency_index(): what identifies a model for execution               *)
(***************************************************************************)
KernelToken(m, f) == IF f.family \in Builtin THEN "ocbf" ELSE m.kernels[f.family].token

\* Mutant: kernels that declare no identity are as good as any.
ReusableAnyway(m) == TRUE

Reusable(m) == \A k \in DOMAIN m.kernels : m.kernels[k].token # ""

\* The fingerprint of a model does not see its kernels.
ModelId(m) == <<m.domains, m.reals, m.factors>>

Numerics(m) == [i \in DOMAIN m.factors |-> KernelToken(m, m.factors[i])]

\* Mutant: a model executes as its fingerprint says.
ModelIdentity(m) == <<ModelId(m)>>

ExecutionIdentity(m) == <<ModelId(m), Numerics(m)>>

StructureId(m) ==
  <<m.domains, m.reals, [i \in DOMAIN m.factors |-> [key |-> m.factors[i].key, family |-> m.factors[i].family,
                            scope |-> m.factors[i].scope, role |-> m.factors[i].role]],
    [k \in DOMAIN m.kernels |-> m.kernels[k].token]>>

\* Mutant: a table supports what its scope is.
ScopeSupport(f) == <<f.key, f.scope>>

\* Where a table is zero; all there is to know of other rules.
SupportOf(f) ==
  IF f.family = "table" THEN <<f.key, f.scope, {s \in DOMAIN f.weights : f.weights[s] = 0}>>
  ELSE <<f.key, f.scope, f.family, f.lo, f.hi>>

SupportKnown(m) == \A f \in Range(m.factors) : f.family \in Builtin

SupportId(m) == <<m.domains, [i \in DOMAIN m.factors |-> SupportOf(m.factors[i])]>>

-----------------------------------------------------------------------------
(***************************************************************************)
(* assess_conditioning(): may the rest be integrated out                   *)
(***************************************************************************)
CountStates(m, keys) == Product(keys \intersect DOMAIN m.domains, LAMBDA k : Cardinality(m.domains[k]))

RealsLeft(m, fixed) == DOMAIN m.reals \ fixed

\* The states of cliques of the elimination are beyond those of the factors.
Exceeds(m, fixed) ==
  \/ Cardinality(RealsLeft(m, fixed)) > MaxReal
  \/ DOMAIN m.reals = {} /\ \E f \in Range(m.factors) : CountStates(m, f.scope \ fixed) > MaxTable
  \/ DOMAIN m.reals # {} /\ CountStates(m, DOMAIN m.domains \ fixed) > MaxTable

MayExceed(m, fixed) == DOMAIN m.reals = {} /\ DOMAIN m.domains \ fixed # {}

Gaussian(f) == f.family = "linear_gaussian"

Integrable(m, fixed) ==
  \A f \in Range(m.factors) : f.scope \intersect RealsLeft(m, fixed) # {} => Gaussian(f)

-----------------------------------------------------------------------------
(***************************************************************************)
(* BlockedEngine.assess()                                                  *)
(***************************************************************************)
HardExtension(m) ==
  \E f \in Range(m.factors) : f.role = "support" /\ f.family \notin {"table", "count", "temporal_order"}

Touched(m) ==
  UNION {f.scope \intersect DOMAIN m.reals : f \in {g \in Range(m.factors) : ~ Gaussian(g)}}

Coordinates(m, c) == DOMAIN c.domains \union DOMAIN m.reals

Refuse == planning' = "refused" /\ UNCHANGED <<sampled, plan>>

Assess(m, g) ==
  /\ planning \in {"idle", "planned", "refused"} /\ Len(planned) < MaxPlanned
  /\ subject' = m /\ config' = g /\ codec' = CodecOf(m) /\ table' = Nowhere
  /\ LET asked == Touched(m) \union (UNION g.blocks) \union UNION g.proposals
     IN  IF (HardExtension(m) /\ g.proposals = {}) \/ ~ (asked \subseteq Coordinates(m, codec'))
         THEN Refuse
         ELSE /\ planning' = "widening" /\ UNCHANGED plan
              /\ IF asked = {} /\ DOMAIN codec'.domains # {}
                 THEN \E k \in DOMAIN codec'.domains : sampled' = {k}
                 ELSE sampled' = asked
  /\ UNCHANGED <<kept, planned>>

Fixed == ExpandedKeys(codec, sampled)

\* Finite variables before real ones, those in many factors first.
ToSample ==
  IF DOMAIN codec.domains \ sampled # {} THEN DOMAIN codec.domains \ sampled
  ELSE DOMAIN subject.reals \ sampled

Degree(k) ==
  Total(DOMAIN subject.factors, LAMBDA i :
    Cardinality({v \in subject.factors[i].scope : EncodedKey(codec, v) = k}))

Widen ==
  /\ planning = "widening"
  /\ Exceeds(subject, Fixed) \/ MayExceed(subject, Fixed)
  /\ IF ToSample = {} THEN Refuse
     ELSE /\ \E k \in ToSample :
               /\ \A other \in ToSample : Degree(other) <= Degree(k)
               /\ sampled' = sampled \union {k}
          /\ UNCHANGED <<planning, plan>>
  /\ UNCHANGED <<subject, config, codec, table, kept, planned>>

\* Mutant: a constraint joins groups only with itself.
JoinOne(groups, scope) ==
  IF scope = {} THEN groups ELSE {b \in groups : b \intersect scope = {}} \union {scope}

\* The groups that a scope touches become one with it.
Join(groups, scope) ==
  LET touched == {b \in groups : b \intersect scope # {}}
  IN  IF scope = {} THEN groups ELSE (groups \ touched) \union {scope \union UNION touched}

EncodedScope(c, keys) == {EncodedKey(c, k) : k \in keys}

\* Hard constraints keep their variables together, and the times of events
\* what they are conditioned on.
BlocksOf(m, c, among) ==
  LET hard == FoldLeft(LAMBDA groups, f :
                IF f.role = "support" THEN Join(groups, EncodedScope(c, f.scope) \intersect among) ELSE groups,
                {{k} : k \in among}, m.factors)
  IN  FoldSet(LAMBDA r, groups : Join(groups, ({r} \union EncodedScope(c, m.reals[r])) \intersect among),
              hard, DOMAIN m.reals)

Partition ==
  /\ planning = "widening" /\ ~ Exceeds(subject, Fixed) /\ Integrable(subject, Fixed)
  /\ LET blocks == IF config.blocks # {} THEN config.blocks ELSE BlocksOf(subject, codec, sampled)
     IN  IF UNION blocks = sampled /\ {} \notin blocks /\ config.proposals \subseteq blocks \union {sampled}
         THEN /\ planning' = "planned"
              /\ plan' = [codec |-> codec, sampled |-> sampled, blocks |-> blocks]
              /\ planned' = Append(planned, subject)
         ELSE planning' = "refused" /\ UNCHANGED <<plan, planned>>
  /\ UNCHANGED <<subject, config, sampled, codec, table, kept>>

-----------------------------------------------------------------------------
(***************************************************************************)
(* draw_finite_block(): the conditional of a block                         *)
(***************************************************************************)
\* Encoded variables that are not fixed by the rest of the state.
Free(block) == Restrict(plan.codec.domains, DOMAIN plan.codec.domains \ (plan.sampled \ block))

Original(e, f) == [k \in f.scope |-> Expand(plan.codec, e)[k]]

\* Kernels are asked for the weights of encoded states, factor by factor; the
\* others are summed out.
BlockTable(rest, block) ==
  LET encoded == StatesOf(Free(block))
      weight(e) == Product(Range(subject.factors), LAMBDA f : Weight(subject, f, Original(Over(e, rest), f)))
  IN  [x \in StatesOf(Restrict(plan.codec.domains, block)) |->
         Total({e \in encoded : \A k \in block : e[k] = x[k]}, LAMBDA e : weight(e))]

Batch(m) == \A k \in DOMAIN m.kernels : m.kernels[k].batch

\* Only finite blocks have tables, and only a state with mass is stood at.
\* Bound: one table of a plan is looked at.
HasTables == planning = "planned" /\ table = Nowhere /\ DOMAIN subject.reals = {} /\ Batch(subject)

DrawBlock(block, rest) ==
  /\ LET key   == <<ExecutionIdentity(subject), plan.codec, rest, block>>
         found == Reusable(subject) /\ key \in DOMAIN kept
         value == IF found THEN kept[key] ELSE BlockTable(rest, block)
     IN  /\ table' = [block |-> block, rest |-> rest, values |-> value]
         /\ kept' = IF Reusable(subject) THEN With(kept, key, value) ELSE kept
  /\ UNCHANGED <<planning, subject, config, sampled, codec, plan, planned>>

PlanningNext ==
  \/ \E m \in Models, g \in Configs : Assess(m, g)
  \/ Widen
  \/ Partition
  \/ /\ HasTables
     /\ \E block \in plan.blocks :
        \E rest \in StatesOf(Restrict(plan.codec.domains, plan.sampled \ block)) : DrawBlock(block, rest)

-----------------------------------------------------------------------------
\* The states that a codec expands to are exactly those of the model in which
\* each of its choices is one, and none of them is expanded to twice: nothing
\* of the posterior is lost or counted twice in the reduced space, although
\* constraints may share variables, and singletons are left out.
CodecIsLossless ==
  (codec # Nowhere) =>
    LET encoded == StatesOf(codec.domains)
        choices == {f \in Range(subject.factors) : ChoiceKey(f) \in DOMAIN codec.choices}
    IN  /\ {Expand(codec, e) : e \in encoded} =
             {s \in StatesOf(subject.domains) : \A f \in choices : Trues(f, s) = 1}
        /\ Cardinality({Expand(codec, e) : e \in encoded}) = Cardinality(encoded)

\* The blocks of a plan have the sampled variables, each in one of them, and
\* none parts the variables of a hard constraint: a chain that moves a block
\* at a time is not held by one.
BlocksKeepConstraints ==
  (planning = "planned" /\ config.blocks = {}) =>
    /\ UNION plan.blocks = plan.sampled
    /\ \A b, c \in plan.blocks : b = c \/ b \intersect c = {}
    /\ \A f \in Range(subject.factors) :
         f.role = "support" =>
           \E b \in plan.blocks \union {{}} : EncodedScope(plan.codec, f.scope) \intersect plan.sampled \subseteq b

\* The table a block is drawn from is its conditional under the model of the
\* call, in the model's own states: whether it was computed or kept from an
\* earlier model, whatever its kernels are configured to.
TablesAreConditionals ==
  table # Nowhere =>
    \A x \in DOMAIN table.values :
      table.values[x] =
        LET given == Expand(plan.codec, Over(x, table.rest))
        IN  Total({s \in StatesOf(subject.domains) : \A k \in DOMAIN given : s[k] = given[k]},
                  LAMBDA s : WeightOf(subject, s))

Supported(m) == {s \in StatesOf(m.domains) : WeightOf(m, s) > 0}

\* Models whose supports are taken for the same have the same states with
\* mass: a state that one of them was at is possible under the other.
SupportIdMeansSupport ==
  \A i, j \in DOMAIN planned :
    (/\ SupportKnown(planned[i]) /\ SupportKnown(planned[j])
     /\ StructureId(planned[i]) = StructureId(planned[j])
     /\ SupportId(planned[i]) = SupportId(planned[j])) => Supported(planned[i]) = Supported(planned[j])
=============================================================================
