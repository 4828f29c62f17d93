-------------------------- MODULE SyntheticSources --------------------------
(***************************************************************************)
(* The sparse, unreliable and dependent sources generated over a synthetic *)
(* world (synth/corrupt.py: simulate_sources), and what the declarations   *)
(* and containers of sources/base.py and sources/claims.py accept of them. *)
(*                                                                         *)
(* Accuracies only say how likely a report is, so they are left out: every *)
(* report of positive probability is a choice.  A reported number is the   *)
(* truth plus an error.                                                    *)
(***************************************************************************)
EXTENDS SyntheticWorld

CONSTANTS
  Scenarios,  \* pairs of a world's settings and of the evidence's
  Errors      \* the errors of a reported number

Families == {"event_exists", "event_type", "event_time", "object_exists", "e2o", "o2o",
             "event_attr", "object_attr"}
Coverages == {"opportunistic", "complete_over_scope", "selective"}

\* sources, clusters: how many; families: a sequence; targets: the sizes drawn
\* for a scope; spread: how much wider its window is; hotspots: at most so
\* many; mix: the coverages drawn; misdeclared, copying: whether they happen;
\* fidelity: the share of copied claims; worlds: a bound, the events of the
\* worlds that are observed.
ASSUME RegimeAssumption ==
  /\ \A s \in Scenarios : s[1] \in Configs
  /\ \A r \in {s[2] : s \in Scenarios} :
       /\ {r.sources, r.clusters, r.hotspots} \subseteq Nat \ {0}
       /\ r.families # <<>> /\ Range(r.families) \subseteq Families
       /\ r.targets \subseteq Nat /\ r.worlds \in Nat
       /\ r.mix # {} /\ r.mix \subseteq Coverages
       /\ {r.misdeclared, r.copying} \subseteq BOOLEAN
       /\ \A q \in {r.spread, r.fidelity} : q[1] \in Nat /\ q[2] \in Nat \ {0}
  /\ Errors \subseteq Int

VARIABLES
  regime,
  hotspots,   \* per family, the variables sources look at; or Unset
  profiles,   \* the sources that were given a scope
  drawn,      \* how many sources were drawn
  exemplars,  \* who copies whom, a function of indices; or Unset
  emitted,    \* the claims of the sources that have observed
  sources,    \* the constructed sources, in order of emission
  refused     \* whether a constructor raised an error

sourceVars == <<regime, hotspots, profiles, drawn, exemplars, emitted, sources, refused>>
generatingVars == <<worldVars, sourceVars>>

GeneratingInit ==
  /\ \E s \in Scenarios : config = s[1] /\ regime = s[2]
  /\ WorldInit
  /\ hotspots = Unset
  /\ profiles = <<>> /\ drawn = 0
  /\ exemplars = Unset
  /\ emitted = <<>> /\ sources = <<>>
  /\ refused = FALSE

\* _assertion_pools(): the variables of a family, and their places when sorted
\* by subject.
Pool(family) == {r \in universe.refs : r.family = family}

Places(pool) ==
  LET sorted == SetToSortSeq(pool, LAMBDA r, s : r.subject[Len(r.subject)] < s.subject[Len(s.subject)])
  IN  [r \in pool |-> CHOOSE i \in DOMAIN sorted : sorted[i] = r]

Pooled == {f \in Range(regime.families) : \E r \in universe.refs : r.family = f}

HasTruth(v) == v # NotApplicable /\ v # Bool(FALSE)

\* Where sensors are: at true assertions, or anywhere if there are none.
CandidatesOf(pool) ==
  LET positive == {r \in pool : HasTruth(Truth(r))}
  IN  IF positive # {} THEN positive ELSE pool

HotspotChoices(pool) ==
  {s \in SUBSET CandidatesOf(pool) : Cardinality(s) = Smaller(regime.hotspots, Cardinality(CandidatesOf(pool)))}

MakeHotspots ==
  /\ universe # Unset /\ hotspots = Unset
  /\ Len(world.events) <= regime.worlds
  /\ Pooled # {}
  /\ hotspots' \in {h \in [Pooled -> UNION {HotspotChoices(Pool(f)) : f \in Pooled}] :
                      \A f \in Pooled : h[f] \in HotspotChoices(Pool(f))}
  /\ UNCHANGED <<worldVars, regime, profiles, drawn, exemplars, emitted, sources, refused>>

-----------------------------------------------------------------------------
(***************************************************************************)
(* Drawing a source                                                        *)
(***************************************************************************)
\* _localised_scope(): a window around a hotspot, thinned to the target.
Scopes(pool, spots, drawnSize) ==
  LET n == Cardinality(pool)
      place == Places(pool)
      target == Smaller(drawnSize, n)
      window == Smaller(n, Larger(target, (target * regime.spread[1]) \div regime.spread[2]))
      start(anchor) == Larger(1, Smaller(anchor - window \div 2, n - window + 1))
      segment(anchor) == {r \in pool : place[r] \in start(anchor)..(start(anchor) + window - 1)}
  IN  UNION {{s \in SUBSET segment(place[a]) : Cardinality(s) = target} : a \in spots}

\* A cluster mostly works in its strong family; a family without variables is
\* replaced by the first that has some.
Strong(cluster) == regime.families[((cluster - 1) % Len(regime.families)) + 1]

FirstPooled == regime.families[Min({i \in DOMAIN regime.families : regime.families[i] \in Pooled})]

PickedFamilies(cluster) ==
  {IF f \in Pooled THEN f ELSE FirstPooled : f \in {Strong(cluster)} \union Range(regime.families)}

Declarations(coverage) ==
  {coverage} \union (IF regime.misdeclared THEN regime.mix \ {coverage} ELSE {})

\* ChannelFamily.for_family()
ChannelOf(family) ==
  CASE family = "event_type" -> "categorical"
    [] family \in {"event_time", "event_attr", "object_attr"} -> "continuous"
    [] OTHER -> "binary"

Profile(cluster, family, scope, coverage, declared) ==
  [cluster |-> cluster, channel |-> ChannelOf(family), scope |-> scope, coverage |-> coverage,
   declared |-> declared, copies |-> Unset]

\* A source without a scope is left out.
DrawSource ==
  /\ hotspots # Unset /\ exemplars = Unset /\ drawn < regime.sources
  /\ drawn' = drawn + 1
  /\ \E c \in 1..regime.clusters : \E f \in PickedFamilies(c) :
       \E size \in regime.targets : \E s \in Scopes(Pool(f), hotspots[f], size) :
         IF s = {} THEN UNCHANGED profiles
         ELSE \E v \in regime.mix : \E w \in Declarations(v) :
                profiles' = Append(profiles, Profile(c, f, s, v, w))
  /\ UNCHANGED <<worldVars, regime, hotspots, exemplars, emitted, sources, refused>>

Mates(i) == {j \in DOMAIN profiles : j # i /\ profiles[j].cluster = profiles[i].cluster}

CopyChoices ==
  IF regime.copying
  THEN {f \in [DOMAIN profiles -> DOMAIN profiles \union {Unset}] :
          \A i \in DOMAIN profiles : f[i] \in Mates(i) \union {Unset}}
  ELSE {[i \in DOMAIN profiles |-> Unset]}

ChooseExemplars ==
  /\ exemplars = Unset /\ drawn = regime.sources
  /\ exemplars' \in CopyChoices
  /\ profiles' = [i \in DOMAIN profiles |-> [profiles[i] EXCEPT !.copies = exemplars'[i]]]
  /\ UNCHANGED <<worldVars, regime, hotspots, drawn, emitted, sources, refused>>

-----------------------------------------------------------------------------
(***************************************************************************)
(* Observing and copying: claims are [source, ref, value]                  *)
(***************************************************************************)
Silent == <<"silent", 0>>

\* Detectors speak when they fire; the selective may say nothing.
BinaryReports(p) ==
  CASE p.coverage = "complete_over_scope" -> {Bool(TRUE), Silent}
    [] p.coverage = "selective" -> {Bool(TRUE), Bool(FALSE), Silent}
    [] OTHER -> {Bool(TRUE), Bool(FALSE)}

\* A type is reported, rightly or not, of events that have one.
CategoricalReports(r) ==
  LET support == universe.slots[r.subject].support
  IN  IF Truth(r)[1] # "label" \/ Truth(r)[2] \notin support THEN {Silent}
      ELSE {Label(t) : t \in support} \union (IF Cardinality(support) = 1 THEN {Silent} ELSE {})

NumericalReports(r) ==
  IF Truth(r)[1] # "number" THEN {Silent} ELSE {Number(Truth(r)[2] + e) : e \in Errors}

Reports(p, r) ==
  CASE p.channel = "binary" -> BinaryReports(p)
    [] p.channel = "categorical" -> CategoricalReports(r)
    [] OTHER -> NumericalReports(r)

ClaimsOf(i, said) == {[source |-> i, ref |-> r, value |-> said[r]] : r \in {r \in DOMAIN said : said[r] # Silent}}

Observations(i) ==
  LET p == profiles[i]
  IN  {ClaimsOf(i, said) : said \in {f \in [p.scope -> UNION {Reports(p, r) : r \in p.scope}] :
                                       \A r \in p.scope : f[r] \in Reports(p, r)}}

\* round(fidelity * n), halves to the even neighbour, but at least one.
Kept(n) ==
  LET m == regime.fidelity[1] * n
      d == regime.fidelity[2]
      q == m \div d
      up == 2 * (m % d) > d \/ (2 * (m % d) = d /\ q % 2 = 1)
  IN  Larger(1, IF up THEN q + 1 ELSE q)

\* _copy_claims(): within the scope of the copier, some of them verbatim.
Copies(i, claims) ==
  LET within == {c \in claims : c.ref \in profiles[i].scope}
  IN  {{[c EXCEPT !.source = i] : c \in s} :
         s \in {s \in SUBSET within :
                  Cardinality(s) = Smaller(Kept(Cardinality(within)), Cardinality(within))}}

Independent(i) == exemplars[i] = Unset

\* Mutant: sources emit in the order they were drawn.
DrawnBefore(i, j) == i < j

\* Independent observers first, then copiers, each in order.
EmitsBefore(i, j) ==
  \/ Independent(i) /\ ~ Independent(j)
  \/ (Independent(i) <=> Independent(j)) /\ i < j

Silents == DOMAIN profiles \ DOMAIN emitted

HasEmitted(i) == i \in DOMAIN emitted /\ emitted[i] # {}

Copying(i) == ~ Independent(i) /\ HasEmitted(exemplars[i])

-----------------------------------------------------------------------------
(***************************************************************************)
(* StaticSource                                                            *)
(***************************************************************************)
SilenceIsEvidence(coverage) == coverage # "opportunistic"

Claimed(claims) == {c.ref : c \in claims}

AcceptedSource(s) ==
  /\ \A c \in s.claims : c.source = s.id
  /\ Claimed(s.claims) \subseteq s.scope
  /\ SilenceIsEvidence(s.coverage) => s.scope # Claimed(s.claims)

\* Mutant: a declaration is kept when every assertion was reported.
SourceAsDeclared(i, claims) ==
  [id |-> i, claims |-> claims, coverage |-> profiles[i].declared,
   scope |-> IF SilenceIsEvidence(profiles[i].declared) THEN profiles[i].scope ELSE Claimed(claims)]

\* Without silence to interpret the declaration is degraded, and a source
\* without a declared scope has that of its claims.
SourceFor(i, claims) ==
  IF SilenceIsEvidence(profiles[i].declared) /\ profiles[i].scope # Claimed(claims)
  THEN [id |-> i, claims |-> claims, coverage |-> profiles[i].declared, scope |-> profiles[i].scope]
  ELSE [id |-> i, claims |-> claims, coverage |-> "opportunistic", scope |-> Claimed(claims)]

EmitClaims ==
  /\ exemplars # Unset /\ ~ refused
  /\ \E i \in Silents :
       /\ \A j \in Silents \ {i} : EmitsBefore(i, j)
       /\ \E claims \in IF Copying(i) THEN Copies(i, emitted[exemplars[i]]) ELSE Observations(i) :
            LET s == SourceFor(i, claims)
            IN  /\ emitted' = [j \in DOMAIN emitted \union {i} |-> IF j = i THEN claims ELSE emitted[j]]
                /\ profiles' = [profiles EXCEPT ![i].declared = s.coverage]
                /\ refused' = ~ AcceptedSource(s)
                /\ sources' = IF AcceptedSource(s) THEN Append(sources, s) ELSE sources
  /\ UNCHANGED <<worldVars, regime, hotspots, drawn, exemplars>>

GeneratingNext ==
  \/ WorldNext /\ UNCHANGED sourceVars
  \/ MakeHotspots
  \/ DrawSource
  \/ ChooseExemplars
  \/ EmitClaims

GeneratingSpec == GeneratingInit /\ [][GeneratingNext]_generatingVars

=============================================================================
