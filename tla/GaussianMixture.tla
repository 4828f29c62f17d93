--------------------------- MODULE GaussianMixture ---------------------------
(***************************************************************************)
(* Targets with real variables, integrated out: one Gaussian component for *)
(* each state of the finite variables that has mass                        *)
(* (inference/conditional.py: _condition_target), of the canonical terms   *)
(* of its factors (model/hybrid_kernels.py), and joint draws from the      *)
(* mixture (inference/adapters/hybrid.py).                                 *)
(*                                                                         *)
(* A Gaussian factor has whole coefficients and precisions, the latter by  *)
(* the mode of a finite variable; it does nothing to states in which it is *)
(* not active.  Locations, and the positive factor that a component's      *)
(* integral is, are left out; real variables that are given are in order.  *)
(* A sample of a component is its index and a number.                      *)
(***************************************************************************)
EXTENDS SamplingPlan

CONSTANTS
  Hybrids,     \* models, whose Gaussian factors have coefficients, mode,
               \* precision, active
  Conditioned, \* states that the sampler conditions on, with fixed reals
  Scopes,      \* what joint draws are asked of
  MaxDraws     \* rows of a draw; bound of the budget

ASSUME HybridAssumption ==
  /\ MaxDraws \in Nat \ {0}
  /\ \A m \in Hybrids : \A f \in Range(m.factors) :
       Gaussian(f) =>
         /\ DOMAIN f.coefficients # {} /\ DOMAIN f.coefficients \subseteq f.scope \intersect DOMAIN m.reals
         /\ Range(f.precision) \subseteq Nat \ {0}
         /\ \A g \in f.active : g[1] \in DOMAIN m.domains /\ g[2] \in m.domains[g[1]]
  \* What the sampler fixes is part of a state of its chain.
  /\ \A m \in Hybrids, g \in Conditioned :
       \A k \in DOMAIN g.given \intersect DOMAIN m.domains : g.given[k] \in m.domains[k]

VARIABLES
  mixture,  \* [model, given, reals, left, components, stage], or Nowhere
  draws     \* [scope, choices, rows], or Nowhere

mixtureVars == <<mixture, draws>>

MixtureInit == mixture = Nowhere /\ draws = Nowhere

-----------------------------------------------------------------------------
(***************************************************************************)
(* LinearGaussianKernel.gaussian_terms()                                   *)
(***************************************************************************)
Active(f, s) == \A g \in f.active : s[g[1]] = g[2]

Precision(f, s) == f.precision[IF f.mode = "" THEN "" ELSE s[f.mode]]

Coefficient(f, k) == IF k \in DOMAIN f.coefficients THEN f.coefficients[k] ELSE 0

\* An entry of the precision matrix of a state.
Entry(m, s, j, k) ==
  Total({f \in Range(m.factors) : Gaussian(f) /\ Active(f, s)},
        LAMBDA f : Precision(f, s) * Coefficient(f, j) * Coefficient(f, k))

\* A Cholesky factor exists; for at most two variables.
PositiveDefinite(m, s, keys) ==
  /\ \A k \in keys : Entry(m, s, k, k) > 0
  /\ \A j, k \in keys :
       j # k => Entry(m, s, j, j) * Entry(m, s, k, k) > Entry(m, s, j, k) * Entry(m, s, j, k)

FiniteWeight(m, s) == Product({f \in Range(m.factors) : ~ Gaussian(f)}, LAMBDA f : Weight(m, f, s))

-----------------------------------------------------------------------------
(***************************************************************************)
(* assess() of the hybrid engine, and _condition_target()                  *)
(***************************************************************************)
FiniteLeft(m, given) == Restrict(m.domains, DOMAIN m.domains \ DOMAIN given)

\* What a target is conditioned on: finite variables, and real ones.  Without
\* real variables it is eliminated, which is not for the mixture.
Mixing(m, given, reals) ==
  [model |-> m, given |-> given, reals |-> DOMAIN m.reals \ reals,
   left |-> StatesOf(FiniteLeft(m, given)), components |-> <<>>, stage |-> "enumerating"]

Condition(m, given, reals) ==
  LET fixed == DOMAIN given \union reals
  IN  /\ mixture = Nowhere
      /\ mixture' = IF m.reals = <<>> \/ Exceeds(m, fixed) \/ ~ Integrable(m, fixed)
                    THEN [Mixing(m, given, reals) EXCEPT !.stage = "refused"]
                    ELSE Mixing(m, given, reals)
      /\ UNCHANGED draws

\* Mutant: whether there is a density is looked at first.
ImproperAnyway(m, s, keys) == ~ PositiveDefinite(m, s, keys)

\* A state without mass need not have a density.
Improper(m, s, keys) == FiniteWeight(m, s) > 0 /\ ~ PositiveDefinite(m, s, keys)

\* A state of all finite variables: those given, and the rest.
Joined(m, given, rest) ==
  [k \in DOMAIN m.domains |-> IF k \in DOMAIN given THEN given[k] ELSE rest[k]]

Stage(stage) == mixture' = [mixture EXCEPT !.stage = stage]

Enumerate ==
  /\ mixture # Nowhere /\ mixture.stage = "enumerating" /\ mixture.left # {}
  /\ LET rest == CHOOSE s \in mixture.left : TRUE
         s    == Joined(mixture.model, mixture.given, rest)
     IN  IF Improper(mixture.model, s, mixture.reals) THEN Stage("failed")
         ELSE mixture' = [mixture EXCEPT !.left = @ \ {rest},
                !.components = IF FiniteWeight(mixture.model, s) > 0 THEN Append(@, s) ELSE @]
  /\ UNCHANGED draws

\* The normalizer is over at least one component.
Normalize ==
  /\ mixture # Nowhere /\ mixture.stage = "enumerating" /\ mixture.left = {}
  /\ Stage(IF mixture.components = <<>> THEN "incompatible" ELSE "mixed")
  /\ UNCHANGED draws

-----------------------------------------------------------------------------
(***************************************************************************)
(* HybridPosterior.draw()                                                  *)
(***************************************************************************)
Known(scope) == scope \subseteq DOMAIN mixture.model.domains \union DOMAIN mixture.model.reals

StartDraw(scope, size) ==
  /\ mixture # Nowhere /\ mixture.stage = "mixed" /\ draws = Nowhere
  /\ mixture.given = <<>>
  /\ Known(scope) /\ size <= MaxDraws
  /\ \E choices \in [1..size -> DOMAIN mixture.components] :
       draws' = [scope |-> scope, choices |-> choices, rows |-> <<>>]
  /\ UNCHANGED mixture

Undrawn == Range(draws.choices) \ {draws.choices[r] : r \in DOMAIN draws.rows}

Selected(i) == {r \in DOMAIN draws.choices : draws.choices[r] = i}

\* Mutant: samples go where the component stands, not where it was chosen.
PlacedInOrder(i) ==
  [r \in (Cardinality(DOMAIN draws.rows) + 1)..(Cardinality(DOMAIN draws.rows) + Cardinality(Selected(i))) |->
     r - Cardinality(DOMAIN draws.rows)]

\* The number of the sample that a row gets.
Placed(i) == [r \in Selected(i) |-> Cardinality({q \in Selected(i) : q <= r})]

Shown(i) == Restrict(mixture.components[i], draws.scope \ DOMAIN mixture.model.reals)

DrawComponent ==
  /\ draws # Nowhere /\ Undrawn # {}
  /\ LET i      == Min(Undrawn)
         state  == Shown(i)
         reals  == draws.scope \intersect mixture.reals
         placed == Placed(i)
         row(r) == [state |-> state, reals |-> [k \in reals |-> <<i, placed[r]>>]]
     IN  draws' = [draws EXCEPT !.rows =
           [r \in DOMAIN @ \union DOMAIN placed |-> IF r \in DOMAIN @ THEN @[r] ELSE row(r)]]
  /\ UNCHANGED mixture

\* A checkpoint of the enumeration or of the draw.
StopMixture ==
  /\ mixture # Nowhere
  /\ mixture.stage = "enumerating" \/ (draws # Nowhere /\ Undrawn # {})
  /\ Stage("stopped") /\ draws' = Nowhere

MixtureNext ==
  \/ \E m \in Hybrids : Condition(m, <<>>, {})
  \/ \E m \in Hybrids, g \in Conditioned :
       DOMAIN g.given \subseteq DOMAIN m.domains /\ g.reals \subseteq DOMAIN m.reals /\ Condition(m, g.given, g.reals)
  \/ Enumerate \/ Normalize \/ DrawComponent \/ StopMixture
  \/ \E scope \in Scopes, size \in 1..MaxDraws : StartDraw(scope, size)

-----------------------------------------------------------------------------
Massive ==
  {s \in StatesOf(mixture.model.domains) :
     /\ FiniteWeight(mixture.model, s) > 0
     /\ \A k \in DOMAIN mixture.given : s[k] = mixture.given[k]}

\* A mixture has the states that have mass and agree with what is given, each
\* once, and there is one unless one of those has no density; a row of a draw
\* has the state and the values of one component, all of one sample that no
\* other row has.
MixturesAreConditionals ==
  /\ mixture # Nowhere =>
       /\ mixture.stage = "mixed" =>
            Range(mixture.components) = Massive /\ IsInjective(mixture.components)
       /\ mixture.stage = "failed" =>
            \E s \in Massive : ~ PositiveDefinite(mixture.model, s, mixture.reals)
  /\ (draws # Nowhere /\ Undrawn = {}) =>
       /\ DOMAIN draws.rows = DOMAIN draws.choices
       /\ \A r \in DOMAIN draws.rows :
            \E i \in DOMAIN mixture.components :
              /\ draws.rows[r].state = Shown(i)
              /\ \A k \in DOMAIN draws.rows[r].reals :
                   /\ draws.rows[r].reals[k][1] = i
                   /\ \A q \in DOMAIN draws.rows : draws.rows[q].reals[k] = draws.rows[r].reals[k] => q = r
=============================================================================
