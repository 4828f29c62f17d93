----------------------------- MODULE BeliefState -----------------------------
(***************************************************************************)
(* Beliefs over the variables of a frozen registry (belief/state.py): the  *)
(* builder that solvers and baselines fill by index, and the views it      *)
(* makes, which answer by reference.  The arrays of a builder are shared   *)
(* with its views; evidence that is attached to a view later is its own.   *)
(*                                                                         *)
(* A distribution is a sequence of weights, to be divided by their sum.    *)
(* What messages contributed to a belief is left out.                      *)
(***************************************************************************)
EXTENDS CandidateRegistry

CONSTANTS
  Distributions,  \* weights a solver may find
  Moments,        \* [mean, var]
  Nats,           \* amounts of evidence
  Targets,        \* amounts that make an assertion decidable
  Attached,       \* [reference -> amount]: evidence that is attached to views
  MaxBelieved,    \* bound: variables of the registry
  MaxViews        \* bound: views of a builder

VARIABLES
  arrays,   \* those of the builder, or None
  views      \* [own, target; history: expected]

beliefVars == <<arrays, views>>

\* Evidence and targets are amounts, and not having any is none of them.
ASSUME BeliefAssumption ==
  /\ Nats \subseteq Nat /\ Targets \subseteq Nat
  /\ \A given \in Attached : \A ref \in DOMAIN given : given[ref] \in Nat
  /\ None \notin Seq(Nat)

BeliefInit == arrays = None /\ views = <<>> /\ RegistryInit

Uniform(n) == [i \in 1..n |-> 1]
Indices    == DOMAIN registry.refs

-----------------------------------------------------------------------------
(***************************************************************************)
(* BeliefStateBuilder                                                      *)
(***************************************************************************)
\* Untouched variables answer with their prior.
NewBuilder ==
  /\ registry # None /\ registry.frozen /\ ~ rejected /\ Len(registry.refs) <= MaxBelieved
  /\ Owning /\ arrays = None
  /\ arrays' = [probs |-> [i \in Indices |-> Uniform(registry.card[i])], moments |-> [i \in Indices |-> None],
                 evidence |-> [i \in Indices |-> 0], priorOnly |-> [i \in Indices |-> TRUE]]
  /\ UNCHANGED views

\* Bound: a builder is left alone once it has built, as it is everywhere in
\* the repository, and each variable is set once.
Filling(i) == arrays # None /\ views = <<>> /\ arrays.priorOnly[i] /\ arrays.moments[i] = None

Normalisable(weights) == FoldSeq(LAMBDA w, n : w + n, 0, weights) > 0

SetDiscrete(i, weights, prior) ==
  /\ Filling(i)
  /\ Len(weights) = registry.card[i] /\ Normalisable(weights)
  /\ arrays' = [arrays EXCEPT !.probs[i] = weights, !.priorOnly[i] = prior]
  /\ UNCHANGED views

\* Solvers give moments to variables that have no states.
SetContinuous(i, moments, prior) ==
  /\ Filling(i) /\ registry.card[i] = 0
  /\ moments.var > 0
  /\ arrays' = [arrays EXCEPT !.moments[i] = moments, !.priorOnly[i] = prior]
  /\ UNCHANGED views

\* Evidence is computed in one pass, of the indices it has references for.
SetEvidence(i, nats) ==
  /\ arrays # None /\ views = <<>> /\ arrays.evidence[i] = 0
  /\ arrays' = [arrays EXCEPT !.evidence[i] = nats]
  /\ UNCHANGED views

\* A view: its own evidence, or none to use that of the builder.  The history
\* is kept by reference.
View(own, target, expected) == [own |-> own, target |-> target, expected |-> expected]

BuildView(target) ==
  /\ arrays # None /\ Len(views) < MaxViews
  /\ views' = Append(views, View(None, target,
                [ref \in DOMAIN registry.index |-> arrays.evidence[registry.index[ref]]]))
  /\ UNCHANGED arrays

-----------------------------------------------------------------------------
(***************************************************************************)
(* BeliefState                                                             *)
(***************************************************************************)
EvidenceOf(v) == IF v.own = None THEN arrays.evidence ELSE v.own

Overlaid(evidence, given) ==
  [i \in DOMAIN evidence |-> IF registry.refs[i] \in DOMAIN given THEN given[registry.refs[i]] ELSE evidence[i]]

\* Mutant: the evidence is attached to the array of the builder.
Shared(v, given) ==
  [own |-> None, after |-> [arrays EXCEPT !.evidence = Overlaid(EvidenceOf(v), given)]]

Copied(v, given) == [own |-> Overlaid(EvidenceOf(v), given), after |-> arrays]

\* References that are not in the registry are left out.
WithEvidence(v, given, target) ==
  /\ Len(views) < MaxViews
  /\ views' = Append(views,
       View(Copied(v, given).own, IF target = None THEN v.target ELSE target,
            [ref \in DOMAIN v.expected |-> IF ref \in DOMAIN given THEN given[ref] ELSE v.expected[ref]]))
  /\ arrays' = Copied(v, given).after

EvidenceNats(v, ref) == IF ref \in DOMAIN registry.index THEN EvidenceOf(v)[registry.index[ref]] ELSE 0

IsDecidable(v, ref) == EvidenceNats(v, ref) >= v.target

\* P(true) >= 1/2; by default 1/2 for what is not in the registry.
LikelyTrue(ref) ==
  IF ref \in DOMAIN registry.index
  THEN LET p == arrays.probs[registry.index[ref]] IN p[2] >= p[1]
  ELSE TRUE

Verdict(v, ref) ==
  IF ~ IsDecidable(v, ref) THEN "undetermined" ELSE IF LikelyTrue(ref) THEN "true" ELSE "false"

IsPriorOnly(ref) == ref \in DOMAIN registry.index => arrays.priorOnly[registry.index[ref]]

Decidable(v) == Cardinality({i \in Indices : EvidenceOf(v)[i] >= v.target})

Summary(v) ==
  [variables |-> Len(registry.refs), decidable |-> Decidable(v),
   undetermined |-> Len(registry.refs) - Decidable(v),
   priorOnly |-> Cardinality({i \in Indices : arrays.priorOnly[i]})]

BeliefNext ==
  \/ NewBuilder
  \/ arrays # None /\ \E i \in Indices :
       \/ \E weights \in Distributions, prior \in BOOLEAN : SetDiscrete(i, weights, prior)
       \/ \E moments \in Moments, prior \in BOOLEAN : SetContinuous(i, moments, prior)
       \/ \E nats \in Nats : SetEvidence(i, nats)
  \/ \E target \in Targets : BuildView(target)
  \/ \E v \in Range(views), given \in Attached, target \in Targets \union {None} : WithEvidence(v, given, target)

\* The registry is that of the builder from then on.
BelievingNext ==
  \/ arrays = None /\ RegistryNext /\ UNCHANGED beliefVars
  \/ BeliefNext /\ UNCHANGED <<vars, registryVars>>

BelievingSpec == BeliefInit /\ [][BelievingNext]_<<vars, registryVars, beliefVars>>

-----------------------------------------------------------------------------
Binaries(v) == {ref \in DOMAIN v.expected : registry.card[registry.index[ref]] = 2}

Expected(v, ref) == IF ref \in DOMAIN v.expected THEN v.expected[ref] ELSE 0

\* A view decides what its own evidence decides, whatever has been attached to
\* other views of the builder, and in the summary as for each reference;
\* nothing outside the registry is decided.
VerdictsFollowEvidence ==
  \A v \in Range(views) :
    /\ \A ref \in Binaries(v) \union UNION {DOMAIN given : given \in Attached} :
         (ref \in DOMAIN v.expected => ref \in Binaries(v)) =>
           (Verdict(v, ref) = "undetermined" <=> Expected(v, ref) < v.target)
    /\ Summary(v).undetermined = Cardinality({ref \in DOMAIN v.expected : Expected(v, ref) < v.target})
    /\ Summary(v).priorOnly = Cardinality({ref \in DOMAIN v.expected : IsPriorOnly(ref)})
=============================================================================
