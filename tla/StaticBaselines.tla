-------------------------- MODULE StaticBaselines ---------------------------
(***************************************************************************)
(* What the baselines and the source diagnostics make of static claims:    *)
(* the votes of majority_vote, weighted_vote and dawid_skene (baselines/), *)
(* the moments behind triplet_accuracies (reliability/moments.py), and the *)
(* overlap graph (diagnostics/overlap.py).                                 *)
(*                                                                         *)
(* A vote is a sign.  Weights, posteriors and the caps on them are numbers *)
(* that depend on the signs alone, so they are left out.                   *)
(***************************************************************************)
EXTENDS SyntheticSources

CONSTANTS MinOverlap,       \* shared assertions that make an edge
          TripletOverlap    \* shared assertions that make an agreement

ASSUME OverlapAssumption ==
  MinOverlap \in Nat \ {0} /\ TripletOverlap \in Nat /\ MinOverlap <= TripletOverlap

Finished == exemplars # Unset /\ ~ refused /\ Len(sources) = Len(profiles)

\* ClaimSet.from_sources(), for_ref() and source_ids
Claims == UNION {s.claims : s \in Range(sources)}
ForRef(r) == {c \in Claims : c.ref = r}
SourceIds == {c.source : c \in Claims}

Boolean(c) == c.value \in {Bool(TRUE), Bool(FALSE)}

Sign(c) == IF c.value = Bool(TRUE) THEN 1 ELSE -1

\* Assertions with two states are links, existences, and types of two.
StatesOf(r) ==
  CASE r.family = "event_type" -> Cardinality(universe.slots[r.subject].support)
    [] r.family \in {"event_time", "event_attr", "object_attr"} -> 0
    [] OTHER -> 2

BinaryRefs == {r \in Claimed(Claims) : r \in universe.refs /\ StatesOf(r) = 2}

-----------------------------------------------------------------------------
(***************************************************************************)
(* Votes, as sets of [source, ref, sign]                                   *)
(***************************************************************************)
Votes(r) == {[source |-> c.source, ref |-> r, sign |-> Sign(c)] : c \in {c \in ForRef(r) : Boolean(c)}}

\* majority_vote(): votes for, and votes.
Majority(r) == <<Cardinality({v \in Votes(r) : v.sign = 1}), Cardinality(Votes(r))>>

Detectors == {s \in Range(sources) : s.coverage = "complete_over_scope"}

\* weighted_vote(): a detector votes against what it could have claimed.
WeightedVotes(r) ==
  Votes(r) \union {[source |-> s.id, ref |-> r, sign |-> -1] :
                     s \in {s \in Detectors : r \in s.scope \ Claimed(s.claims)}}

\* Mutant: silence is read without looking for a claim.
SilentAnyway(i, r, said) == \E s \in Detectors : s.id = i /\ r \in s.scope

Silence(i, r, said) == said = 0 /\ \E s \in Detectors : s.id = i /\ r \in s.scope

\* dawid_skene(): the matrix of observations, of the sources that claim.
SaidOf(i, r) ==
  LET own == {c \in ForRef(r) : c.source = i /\ Boolean(c)}
  IN  IF own = {} THEN 0 ELSE Sign(CHOOSE c \in own : TRUE)

Observed ==
  [x \in SourceIds \X BinaryRefs |->
     LET said == SaidOf(x[1], x[2]) IN IF Silence(x[1], x[2], said) THEN -1 ELSE said]

-----------------------------------------------------------------------------
(***************************************************************************)
(* Overlaps, agreements and what they identify                             *)
(***************************************************************************)
\* BinaryClaimTable
Voters == {c.source : c \in {c \in Claims : Boolean(c)}}
VotedBy(i) == {c.ref : c \in {c \in Claims : c.source = i /\ Boolean(c)}}
Shared(i, j) == VotedBy(i) \intersect VotedBy(j)

SumOf(S, f(_)) == FoldSet(LAMBDA x, y : f(x) + y, 0, S)

\* pairwise_agreement(): its sign is that of the sum; thin overlap has none.
Agreement(i, j) == SumOf(Shared(i, j), LAMBDA r : SaidOf(i, r) * SaidOf(j, r))

Agreeing(i, j) == i # j /\ Cardinality(Shared(i, j)) >= TripletOverlap

\* Mutant: a pair of partners is used whether or not they overlap.
TripletOfStrangers(i, j, k) ==
  /\ j # k /\ Agreeing(i, j) /\ Agreeing(i, k)
  /\ Agreement(i, j) * Agreement(i, k) # 0

\* A triplet that triplet_accuracies() takes an estimate from.
Triplet(i, j, k) ==
  /\ j # k /\ Agreeing(i, j) /\ Agreeing(i, k) /\ Agreeing(j, k)
  /\ Agreement(i, j) * Agreement(i, k) * Agreement(j, k) > 0

Covered == {i \in Voters : \E j, k \in Voters : Triplet(i, j, k)}

Edge(i, j) == i # j /\ Cardinality(Shared(i, j)) >= MinOverlap

\* The component of a source: what is in every set that holds it and has no
\* edge to the outside.
Closed(S) == \A j \in S : \A k \in Voters : Edge(j, k) => k \in S

Component(i) == {k \in Voters : \A S \in SUBSET Voters : i \in S /\ Closed(S) => k \in S}

Bipartite(component) ==
  \E left \in SUBSET component : \A i, j \in component : Edge(i, j) => (i \in left <=> j \notin left)

\* overlap_report()
Verdict(i) ==
  CASE Cardinality(Component(i)) < 3 -> "prior_only"
    [] Bipartite(Component(i)) -> "sign_ambiguous"
    [] OTHER -> "identified"

-----------------------------------------------------------------------------
\* No constructor refuses what was generated: declared silence is there to
\* interpret, and no copy strays from the scope of its copier.
SourcesAccepted == ~ refused

Said(i) == {[ref |-> c.ref, value |-> c.value] : c \in emitted[i]}

\* A source that copies one that emitted before it adds nothing of its own: it
\* repeats it within its own scope, and is silent only if there is nothing.
\* Independent observers come first, then copiers by index; a copier of one
\* that comes later finds nothing to copy and observes instead.
CopiersRepeat ==
  \A i \in DOMAIN emitted :
    /\ ~ Independent(i) /\ HasEmitted(exemplars[i])
    /\ Independent(exemplars[i]) \/ exemplars[i] < i
    => /\ Said(i) \subseteq Said(exemplars[i])
       /\ Claimed(emitted[i]) = {} <=> Claimed(emitted[exemplars[i]]) \intersect profiles[i].scope = {}

\* Sources are faithful to what they declare: each is accepted with its scope
\* and its silence, and a copier says what its exemplar says, within its scope.
SourcesAreFaithful == SourcesAccepted /\ CopiersRepeat

\* The type of an event is claimed by name, which no vote can hold: where two
\* types are left, a detector that claimed one is observed as denying.
Misread(i, r) == r.family = "event_type" /\ \E s \in Detectors : s.id = i /\ r \in Claimed(s.claims)

\* The three votes read the same claims: a source has one say on an assertion, a
\* claim and never also a silence, and dawid_skene() observes the say that
\* weighted_vote() counts.  They differ in two cases only: dawid_skene() does not
\* know a source that claims nothing at all, whose silence is counted, and it
\* observes a denial where weighted_vote() counts nothing, of a misread detector.
SameSay ==
  Finished =>
    \A r \in BinaryRefs :
      /\ \A v, w \in WeightedVotes(r) : v.source = w.source => v = w
      /\ Majority(r)[2] = Cardinality({c.source : c \in {c \in ForRef(r) : Boolean(c)}})
      /\ \A v \in WeightedVotes(r) :
           \/ v.source \in SourceIds /\ Observed[<<v.source, r>>] = v.sign
           \/ v.source \notin SourceIds /\ v.sign = -1
                /\ \E s \in Detectors : s.id = v.source /\ s.claims = {} /\ r \in s.scope
      /\ \A i \in SourceIds :
           (~ \E v \in WeightedVotes(r) : v.source = i)
             => Observed[<<i, r>>] = IF Misread(i, r) THEN -1 ELSE 0

\* An accuracy is only estimated where the overlap graph says that it can be:
\* a source with a triplet is in a component that is not bipartite.
CoveredIsIdentified == Finished => \A i \in Covered : Verdict(i) = "identified"

\* The baselines agree with one another and with their diagnostic: on what each
\* source says of an assertion, and on whose accuracy can be told.
BaselinesAgree == SameSay /\ CoveredIsIdentified

=============================================================================
