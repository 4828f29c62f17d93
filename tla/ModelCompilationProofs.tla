----------------------- MODULE ModelCompilationProofs -----------------------
(***************************************************************************)
(* What a compiled model owes to its evidence, for any specification,      *)
(* channels and trust rules.                                               *)
(***************************************************************************)
EXTENDS ModelCompilation, StaticBaselines, FiniteSetTheorems, SequenceTheorems, WellFoundedInduction, TLAPS

\* From a part of the compilation on, unless it failed.
After(parts) == pc \in parts \/ Compiled

Begun ==
  /\ spec \in Specs
  /\ pc \in {"resolve", "begin"} => DOMAIN contributions = {}
  /\ pc \in {"resolve", "begin", "observations", "admit"} => DOMAIN factors = {} /\ counted = {}
  /\ Compiled => pc = "ended" /\ ~ clash

Trusted == \A k \in DOMAIN trust : Resolves(k) /\ trust[k] = Values(k)

Declares(c) == \A v \in c.variables : v.name \in DOMAIN declared /\ declared[v.name] = v.variable

Contributed(o) ==
  /\ KeyOf(o) \in DOMAIN trust
  /\ contributions[o] = Contribution(o, trust[KeyOf(o)])
  /\ Declares(contributions[o])

ContributionsKept ==
  /\ \A o \in DOMAIN contributions :
       o \in spec.observations /\ (contributions[o] = None \/ Contributed(o))
  /\ After({"admit", "share", "priors", "groups", "validate"}) => DOMAIN contributions = spec.observations

SharedKept ==
  After({"priors", "groups", "validate"}) =>
    /\ \A p \in ContributedPriors : /\ NameOf(p) \in DOMAIN shared /\ shared[NameOf(p)] = p
                                    /\ IsFinite(declared[NameOf(p)])
    /\ \A k \in DOMAIN shared : shared[k] \in ContributedPriors /\ NameOf(shared[k]) = k

HasPrior(k) == <<"prior", k>> \in DOMAIN factors /\ factors[<<"prior", k>>] = PriorOf(k)

PriorsKept ==
  After({"groups", "validate"}) =>
    /\ (Supplied \intersect DOMAIN declared) \subseteq Owned
    /\ \A k \in Supplied \intersect DOMAIN shared : shared[k].values = spec.priors[k]
    /\ ~ clash => \A k \in Owned : HasPrior(k)

HasLikelihood(g) ==
  /\ g \in GroupsOfEvidence
  /\ KeyOf(FirstOf(CopiesOf(g))) \in DOMAIN trust
  /\ LikelihoodOf(g).key \in DOMAIN factors
  /\ factors[LikelihoodOf(g).key] = LikelihoodOf(g)
  /\ LikelihoodOf(g) \notin spec.factors

FactorsKept ==
  /\ ~ clash =>
       /\ After({"share", "priors", "groups", "validate"}) => \A f \in spec.factors : f.key \in DOMAIN factors
       /\ \A g \in counted : HasLikelihood(g)
       /\ \A k \in DOMAIN factors :
            factors[k].role = "observation" =>
              factors[k] \in spec.factors \/ \E g \in counted : factors[k] = LikelihoodOf(g)
  /\ After({"validate"}) => counted = GroupsOfEvidence

CompileInv ==
  Begun /\ Trusted /\ ContributionsKept /\ SharedKept /\ PriorsKept /\ FactorsKept

-----------------------------------------------------------------------------
LEMMA Least ==
  ASSUME NEW S \in SUBSET Nat, S # {}
  PROVE  \E m \in S : \A n \in S : m <= n
<1>1. PICK m \in S : \A n \in S : ~ (<<n, m>> \in OpToRel(<, Nat))
  <2> DEFINE R == OpToRel(<, Nat)
  <2>1. IsWellFoundedOn(R, Nat)
    BY NatLessThanWellFounded
  <2> HIDE DEF R
  <2>2. PICK m \in S : \A n \in S : ~ (<<n, m>> \in R)
    BY <2>1, WFMin
  <2> QED
    BY <2>2 DEF R
<1>2. \A n \in S : ~ (n < m)
  BY <1>1 DEF OpToRel
<1> QED
  BY <1>2

\* The first of several observations is one of them.
LEMMA FirstIsOne ==
  ASSUME NEW O, O # {}, \A o \in O : o.id \in Nat
  PROVE  FirstOf(O) \in O
<1>1. PICK m \in {o.id : o \in O} : \A n \in {o.id : o \in O} : m <= n
  BY Least
<1>2. PICK o \in O : \A other \in O : o.id <= other.id
  BY <1>1
<1> QED
  BY <1>2 DEF FirstOf

\* Unless keys clash, what was there stays and what is new is found.
LEMMA AddKeeps ==
  ASSUME NEW new, Add(new), ~ clash'
  PROVE  /\ ~ clash
         /\ \A k \in DOMAIN factors : k \in DOMAIN factors' /\ factors'[k] = factors[k]
         /\ \A f \in new : /\ f.key \notin DOMAIN factors /\ f.key \in DOMAIN factors'
                           /\ factors'[f.key] = f
         /\ \A k \in DOMAIN factors' :
              k \in DOMAIN factors \/ \E f \in new : f.key = k /\ factors'[k] = f
<1>1. ~ clash /\ (\A f \in new : f.key \notin DOMAIN factors)
      /\ (\A f, g \in new : f.key = g.key => f = g)
  BY DEF Add
<1>2. factors' = [k \in DOMAIN factors \union {f.key : f \in new} |->
                    IF k \in DOMAIN factors THEN factors[k] ELSE CHOOSE f \in new : f.key = k]
  BY DEF Add
<1>3. DOMAIN factors' = DOMAIN factors \union {f.key : f \in new}
  BY <1>2
<1>4. \A k \in DOMAIN factors : k \in DOMAIN factors' /\ factors'[k] = factors[k]
  BY <1>2
<1>5. ASSUME NEW f \in new PROVE f.key \in DOMAIN factors' /\ factors'[f.key] = f
  <2>1. f.key \in DOMAIN factors'
    BY <1>3
  <2>2. factors'[f.key] = CHOOSE g \in new : g.key = f.key
    BY <1>1, <1>2
  <2>3. (CHOOSE g \in new : g.key = f.key) = f
    BY <1>1
  <2> QED
    BY <2>1, <2>2, <2>3
<1> QED
  BY <1>1, <1>3, <1>4, <1>5

-----------------------------------------------------------------------------
(***************************************************************************)
(* What each part depends on                                               *)
(***************************************************************************)
LEMMA TrustedFrame ==
  ASSUME Trusted, UNCHANGED <<spec, trust>> PROVE Trusted'
BY DEF Trusted, Resolves, Values, Candidates

LEMMA ContributionsFrame ==
  ASSUME ContributionsKept, UNCHANGED <<spec, trust, declared, contributions>>,
         After({"admit", "share", "priors", "groups", "validate"})' =>
           DOMAIN contributions = spec.observations
  PROVE  ContributionsKept'
BY DEF ContributionsKept, Contributed, Declares

LEMMA LikelihoodFrame ==
  ASSUME UNCHANGED <<spec, trust, contributions>>, NEW g
  PROVE  LikelihoodOf(g)' = LikelihoodOf(g) /\ CopiesOf(g)' = CopiesOf(g)
BY DEF LikelihoodOf, CopiesOf

LEMMA PriorFrame ==
  ASSUME UNCHANGED <<spec, declared, shared>>
  PROVE  Owned' = Owned /\ Supplied' = Supplied /\ \A k : PriorOf(k)' = PriorOf(k)
<1>1. \A k : Single(k)' = Single(k) /\ IsType(k)' = IsType(k)
  BY DEF Single, IsType
<1>2. Plain' = Plain /\ Supplied' = Supplied
  BY <1>1 DEF Plain, Supplied
<1> QED
  BY <1>1, <1>2 DEF Owned, PriorOf

LEMMA PriorsFrame ==
  ASSUME PriorsKept, UNCHANGED <<spec, declared, shared, factors, clash>>,
         After({"groups", "validate"})' => After({"groups", "validate"})
  PROVE  PriorsKept'
BY PriorFrame DEF PriorsKept, HasPrior

LEMMA SharedFrame ==
  ASSUME SharedKept, UNCHANGED <<contributions, shared, declared>>,
         After({"priors", "groups", "validate"})' => After({"priors", "groups", "validate"})
  PROVE  SharedKept'
BY DEF SharedKept, ContributedPriors

LEMMA HasLikelihoodFrame ==
  ASSUME UNCHANGED <<spec, trust, contributions, factors>>, NEW g
  PROVE  HasLikelihood(g)' = HasLikelihood(g)
BY LikelihoodFrame DEF HasLikelihood, GroupsOfEvidence, CopiesOf

LEMMA FactorsFrame ==
  ASSUME FactorsKept, UNCHANGED <<spec, trust, contributions, factors, clash, counted>>,
         After({"share", "priors", "groups", "validate"})' => After({"share", "priors", "groups", "validate"}),
         After({"validate"})' => After({"validate"}) \/ counted = GroupsOfEvidence
  PROVE  FactorsKept'
<1>1. \A g : HasLikelihood(g)' = HasLikelihood(g) /\ LikelihoodOf(g)' = LikelihoodOf(g)
  BY HasLikelihoodFrame, LikelihoodFrame
<1>2. GroupsOfEvidence' = GroupsOfEvidence
  BY DEF GroupsOfEvidence
<1> QED
  BY <1>1, <1>2 DEF FactorsKept

LEMMA FailKeeps ==
  ASSUME CompileInv, NEW how, how # "compiled", Fail(how) PROVE CompileInv'
<1>1. ~ Compiled' /\ pc' = "ended"
  BY DEF Fail, Compiled
<1>2. \A parts : "ended" \notin parts => ~ After(parts)'
  BY <1>1 DEF After
<1>3. UNCHANGED <<spec, trust, declared, contributions, shared, factors, clash, counted>>
  BY DEF Fail, result
<1>4. Begun'
  BY <1>1, <1>3 DEF CompileInv, Begun
<1>5. Trusted' /\ ContributionsKept'
  BY <1>2, <1>3, TrustedFrame, ContributionsFrame DEF CompileInv
<1>6. SharedKept' /\ PriorsKept' /\ FactorsKept'
  BY <1>2, <1>3, SharedFrame, PriorsFrame, FactorsFrame DEF CompileInv
<1> QED
  BY <1>4, <1>5, <1>6 DEF CompileInv

-----------------------------------------------------------------------------
(***************************************************************************)
(* The invariant, action by action                                         *)
(***************************************************************************)
\* A specification before its compilation owes nothing.
THEOREM CompileInit == Init => CompileInv
<1> SUFFICES ASSUME Init PROVE CompileInv
  OBVIOUS
<1>1. ~ Compiled /\ pc = "resolve"
  BY CompilationAssumption DEF Init, Compiled
<1>2. \A parts : "resolve" \notin parts => ~ After(parts)
  BY <1>1 DEF After
<1>3. DOMAIN NoneYet = {}
  BY DEF NoneYet
<1>4. Begun /\ Trusted /\ ContributionsKept
  BY <1>1, <1>2, <1>3 DEF Init, Begun, Trusted, ContributionsKept
<1>5. SharedKept /\ PriorsKept /\ FactorsKept
  BY <1>1, <1>2, <1>3 DEF Init, SharedKept, PriorsKept, FactorsKept
<1> QED
  BY <1>4, <1>5 DEF CompileInv

\* A step that only goes on to another part of the compilation.
LEMMA GoesOn ==
  ASSUME CompileInv,
         UNCHANGED <<spec, trust, declared, contributions, shared, factors, clash, counted>>,
         ~ Compiled', pc' # "resolve",
         pc' \in {"begin", "observations", "admit"} => pc \in {"resolve", "begin", "observations", "admit"},
         pc' = "begin" => pc \in {"resolve", "begin"},
         pc' \in {"admit", "share", "priors", "groups", "validate"} => DOMAIN contributions = spec.observations,
         pc' \in {"priors", "groups", "validate"} => pc \in {"priors", "groups", "validate"},
         pc' \in {"groups", "validate"} => pc \in {"groups", "validate"},
         pc' \in {"share", "priors", "groups", "validate"} => pc \in {"share", "priors", "groups", "validate"},
         pc' = "validate" => counted = GroupsOfEvidence
  PROVE  CompileInv'
<1>1. Begun'
  BY DEF CompileInv, Begun
<1>2. Trusted' /\ ContributionsKept'
  BY TrustedFrame, ContributionsFrame DEF CompileInv, After
<1>3. SharedKept' /\ PriorsKept' /\ FactorsKept'
  BY SharedFrame, PriorsFrame, FactorsFrame DEF CompileInv, After
<1> QED
  BY <1>1, <1>2, <1>3 DEF CompileInv

LEMMA ResolveKeeps == ASSUME CompileInv, Resolve PROVE CompileInv'
<1> DEFINE keys == {KeyOf(o) : o \in spec.basis}
<1>1. CASE Fail("refused")
  BY <1>1, FailKeeps
<1>2. CASE /\ \A k \in keys : Resolves(k)
           /\ trust' = [k \in keys |-> Values(k)]
           /\ pc' = "begin"
           /\ UNCHANGED <<spec, declared, contributions, shared, result, outcome>>
  <2> HIDE DEF keys
  <2>1. pc = "resolve" /\ ~ Compiled /\ ~ Compiled'
    BY <1>2 DEF Resolve, CompileInv, Begun, Compiled
  <2>2. UNCHANGED <<spec, declared, contributions, shared, factors, clash, counted>>
    BY <1>2 DEF result
  <2>3. \A parts : "begin" \notin parts => ~ After(parts)'
    BY <1>2, <2>1 DEF After
  <2>4. DOMAIN contributions = {} /\ DOMAIN factors = {} /\ counted = {}
    BY <2>1 DEF CompileInv, Begun
  <2>5. Begun'
    BY <2>1, <2>2, <2>4 DEF CompileInv, Begun
  <2>6. \A k : Resolves(k)' = Resolves(k) /\ Values(k)' = Values(k)
    BY <2>2 DEF Resolves, Values, Candidates
  <2>7. Trusted'
    BY <1>2, <2>6 DEF Trusted
  <2>8. ContributionsKept'
    BY <2>2, <2>3, <2>4 DEF ContributionsKept
  <2>9. SharedKept' /\ PriorsKept' /\ FactorsKept'
    BY <2>2, <2>3, <2>4 DEF SharedKept, PriorsKept, FactorsKept
  <2> QED
    BY <2>5, <2>7, <2>8, <2>9 DEF CompileInv
<1> QED
  BY <1>1, <1>2 DEF Resolve

LEMMA ContributeKeeps == ASSUME CompileInv, Contribute PROVE CompileInv'
<1> DEFINE o == FirstOf(Remaining)
           values == trust[KeyOf(o)]
           c == IF Contributes(o) THEN Contribution(o, values) ELSE None
<1>1. CASE Fail("refused")
  BY <1>1, FailKeeps
<1>2. CASE /\ Contributes(o) => KeyOf(o) \in DOMAIN trust /\ \A v \in c.variables : Agrees(v)
           /\ contributions' = [p \in DOMAIN contributions \union {o} |->
                                  IF p = o THEN c ELSE contributions[p]]
           /\ declared' = [k \in DOMAIN declared \union
                                 (IF c = None THEN {} ELSE {v.name : v \in c.variables}) |->
                             IF k \in DOMAIN declared THEN declared[k] ELSE values.variable]
           /\ UNCHANGED <<spec, pc, trust, shared, result, outcome>>
  <2>1. o \in spec.observations
    <3>1. Remaining # {} /\ \A p \in Remaining : p.id \in Nat
      BY CompilationAssumption DEF Contribute, CompileInv, Begun, Remaining
    <3> QED
      BY <3>1, FirstIsOne DEF Remaining
  <2>2. pc = "observations" /\ pc' = pc /\ ~ Compiled /\ ~ Compiled'
    BY <1>2 DEF Contribute, CompileInv, Begun, Compiled
  <2>3. \A parts : "observations" \notin parts => ~ After(parts)'
    BY <2>2 DEF After
  <2>4. UNCHANGED <<spec, trust, shared, factors, clash, counted>>
    BY <1>2 DEF result
  <2>5. DOMAIN factors = {} /\ counted = {}
    BY <2>2 DEF CompileInv, Begun
  <2>6. Begun' /\ Trusted'
    BY <2>2, <2>4, TrustedFrame DEF CompileInv, Begun
  <2>7. \A k \in DOMAIN declared : k \in DOMAIN declared' /\ declared'[k] = declared[k]
    BY <1>2
  <2>8. ASSUME c # None PROVE \A v \in c.variables : v.name \in DOMAIN declared' /\ declared'[v.name] = v.variable
    <3>1. Contributes(o) /\ c = Contribution(o, values)
      BY <2>8
    <3>2. ASSUME NEW v \in c.variables PROVE v.variable = values.variable
      BY <3>1, <3>2 DEF Contribution
    <3>3. ASSUME NEW v \in c.variables, v.name \in DOMAIN declared
          PROVE  declared[v.name] = v.variable
      BY <1>2, <3>1, <3>3 DEF Agrees
    <3>4. DOMAIN declared' = DOMAIN declared \union {v.name : v \in c.variables}
      BY <1>2, <2>8
    <3>5. \A v \in c.variables : v.name \in DOMAIN declared'
      BY <3>4
    <3>6. \A k \in DOMAIN declared' : k \notin DOMAIN declared => declared'[k] = values.variable
      BY <1>2
    <3> HIDE DEF c, values
    <3> QED
      BY <2>7, <3>2, <3>3, <3>5, <3>6
  <2>9. ASSUME NEW p \in DOMAIN contributions'
        PROVE  p \in spec.observations /\ (contributions'[p] = None \/ Contributed(p)')
    <3>1. CASE p = o
      <4>1. contributions'[p] = c
        BY <1>2, <3>1
      <4>2. CASE c = None
        BY <2>1, <3>1, <4>1, <4>2
      <4>3. CASE c # None
        <5>1. Contributes(o) /\ c = Contribution(o, values)
          BY <4>3
        <5>2. KeyOf(o) \in DOMAIN trust
          BY <1>2, <5>1
        <5> HIDE DEF o
        <5>3. contributions'[p] = Contribution(p, trust'[KeyOf(p)])
          BY <2>4, <3>1, <4>1, <5>1
        <5>4. Declares(contributions[p])'
          BY <2>8, <4>1, <4>3 DEF Declares
        <5> QED
          BY <2>1, <2>4, <3>1, <5>2, <5>3, <5>4 DEF Contributed
      <4> QED
        BY <4>2, <4>3
    <3>2. CASE p # o
      <4> HIDE DEF o, c, values
      <4>1. p \in DOMAIN contributions /\ contributions'[p] = contributions[p]
        BY <1>2, <3>2
      <4>2. p \in spec.observations /\ (contributions[p] = None \/ Contributed(p))
        BY <4>1 DEF CompileInv, ContributionsKept
      <4>3. Contributed(p) => Contributed(p)'
        BY <2>4, <2>7, <4>1 DEF Contributed, Declares
      <4> QED
        BY <4>1, <4>2, <4>3
    <3> QED
      BY <3>1, <3>2
  <2>10. ContributionsKept'
    BY <2>3, <2>4, <2>9 DEF ContributionsKept
  <2>11. SharedKept' /\ PriorsKept' /\ FactorsKept'
    BY <2>3, <2>4, <2>5 DEF SharedKept, PriorsKept, FactorsKept
  <2> QED
    BY <2>6, <2>10, <2>11 DEF CompileInv
<1> QED
  BY <1>1, <1>2 DEF Contribute

LEMMA AdmitKeeps == ASSUME CompileInv, Admit PROVE CompileInv'
<1> DEFINE new == spec.factors \union (IF spec.grounded THEN Structure.factors ELSE {})
<1>1. CASE Fail("refused")
  BY <1>1, FailKeeps
<1>2. CASE /\ Add(new) /\ pc' = "share"
           /\ UNCHANGED <<spec, trust, declared, contributions, shared, counted, outcome>>
  <2>1. pc = "admit" /\ ~ Compiled /\ ~ Compiled' /\ DOMAIN factors = {} /\ counted = {}
        /\ DOMAIN contributions = spec.observations
    BY <1>2 DEF Admit, CompileInv, Begun, Compiled, ContributionsKept, After
  <2>2. \A parts : "share" \notin parts => ~ After(parts)'
    BY <1>2, <2>1 DEF After
  <2>3. Begun' /\ Trusted' /\ ContributionsKept'
    BY <1>2, <2>1, TrustedFrame, ContributionsFrame DEF CompileInv, Begun
  <2>4. SharedKept' /\ PriorsKept'
    BY <2>2 DEF SharedKept, PriorsKept
  <2>5. ASSUME ~ clash'
        PROVE  /\ \A f \in spec.factors : f.key \in DOMAIN factors'
               /\ \A k \in DOMAIN factors' : factors'[k].role = "observation" => factors'[k] \in spec.factors
    <3>1. \A k \in DOMAIN factors' : \E f \in new : factors'[k] = f
      BY <1>2, <2>1, <2>5, AddKeeps
    <3>2. \A f \in new : f.role = "observation" => f \in spec.factors
      BY CompilationAssumption
    <3>3. \A f \in new : f.key \in DOMAIN factors'
      BY <1>2, <2>5, AddKeeps
    <3> QED
      BY <3>1, <3>2, <3>3
  <2>6. FactorsKept'
    BY <1>2, <2>1, <2>2, <2>5 DEF FactorsKept
  <2> QED
    BY <2>3, <2>4, <2>6 DEF CompileInv
<1> QED
  BY <1>1, <1>2 DEF Admit

\* A prior that is contributed names a variable that is declared.
LEMMA ContributedAre ==
  ASSUME CompileInv, NEW p \in ContributedPriors
  PROVE  /\ p = Prior(NameOf(p), p.values)
         /\ NameOf(p) \in DOMAIN declared
         /\ p.role = "descriptive" /\ p.key = <<"prior", NameOf(p)>> /\ p.scope = {NameOf(p)}
<1>1. PICK o \in DOMAIN contributions : contributions[o] # None /\ p \in contributions[o].priors
  BY DEF ContributedPriors
<1>2. contributions[o] = Contribution(o, trust[KeyOf(o)]) /\ Declares(contributions[o])
  BY <1>1 DEF CompileInv, ContributionsKept, Contributed
<1> DEFINE values == trust[KeyOf(o)]
<1>3. values.latent # None /\ p = Prior(values.latent, values.prior)
      /\ [name |-> values.latent, variable |-> values.variable] \in contributions[o].variables
  BY <1>1, <1>2 DEF Contribution
<1>4. p.key = <<"prior", values.latent>> /\ p.role = "descriptive" /\ p.values = values.prior
      /\ p.scope = {values.latent}
  BY <1>3 DEF Prior
<1>5. NameOf(p) = values.latent
  BY <1>4 DEF NameOf
<1>6. values.latent \in DOMAIN declared
  BY <1>2, <1>3 DEF Declares
<1> QED
  BY <1>3, <1>4, <1>5, <1>6

LEMMA ShareKeeps == ASSUME CompileInv, Share PROVE CompileInv'
<1> DEFINE priors == ContributedPriors
<1>1. CASE Fail("refused")
  BY <1>1, FailKeeps
<1>2. CASE /\ OneEach(priors)
           /\ \A p \in priors : IsFinite(declared[NameOf(p)])
           /\ shared' = [k \in {NameOf(p) : p \in priors} |-> CHOOSE p \in priors : NameOf(p) = k]
           /\ pc' = "priors"
           /\ UNCHANGED <<spec, trust, declared, contributions, result, outcome>>
  <2>1. pc = "share" /\ ~ Compiled /\ ~ Compiled' /\ DOMAIN contributions = spec.observations
    BY <1>2 DEF Share, CompileInv, Begun, Compiled, ContributionsKept, After
  <2>2. UNCHANGED <<spec, trust, declared, contributions, factors, clash, counted>>
    BY <1>2 DEF result
  <2>3. Begun' /\ Trusted' /\ ContributionsKept'
    BY <1>2, <2>1, <2>2, TrustedFrame, ContributionsFrame DEF CompileInv, Begun
  <2>4. PriorsKept' /\ FactorsKept'
    BY <1>2, <2>1, <2>2, FactorsFrame DEF CompileInv, PriorsKept, After
  <2>5. \A p, q \in priors : NameOf(p) = NameOf(q) => p = q
    <3>1. \A p \in priors : p.scope = {NameOf(p)}
      BY ContributedAre
    <3> QED BY <1>2, <3>1 DEF OneEach
  <2>6. ContributedPriors' = ContributedPriors
    BY <2>2 DEF ContributedPriors
  <2> HIDE DEF priors
  <2>7. \A p \in priors : NameOf(p) \in DOMAIN shared' /\ shared'[NameOf(p)] = p
    BY <1>2, <2>5
  <2>8. \A k \in DOMAIN shared' : \E p \in priors : NameOf(p) = k
    BY <1>2
  <2>9. \A k \in DOMAIN shared' : shared'[k] \in priors /\ NameOf(shared'[k]) = k
    BY <2>7, <2>8
  <2>10. SharedKept'
    BY <1>2, <2>2, <2>6, <2>7, <2>9 DEF SharedKept, priors
  <2> QED
    BY <2>3, <2>4, <2>10 DEF CompileInv
<1> QED
  BY <1>1, <1>2 DEF Share

\* The prior of a variable has its name and is no observation.
LEMMA PriorsAre ==
  ASSUME CompileInv, After({"priors", "groups", "validate"}), NEW k \in Owned
  PROVE  PriorOf(k).key = <<"prior", k>> /\ PriorOf(k).role = "descriptive"
<1>1. k \in DOMAIN shared => shared[k].key = <<"prior", k>> /\ shared[k].role = "descriptive"
  BY ContributedAre DEF CompileInv, SharedKept
<1>2. \A table : Prior(k, table).key = <<"prior", k>> /\ Prior(k, table).role = "descriptive"
  BY DEF Prior
<1>3. \A table : LET p == [Prior(k, table) EXCEPT !.family = "linear_gaussian"]
                 IN  p.key = <<"prior", k>> /\ p.role = "descriptive"
  BY DEF Prior
<1> QED
  BY <1>1, <1>2, <1>3 DEF PriorOf

LEMMA PriorsKeeps == ASSUME CompileInv, Priors PROVE CompileInv'
<1> DEFINE new == {PriorOf(k) : k \in Owned}
<1>1. CASE Fail("refused")
  BY <1>1, FailKeeps
<1>2. CASE /\ (Supplied \intersect DOMAIN declared) \subseteq Owned
           /\ \A k \in Supplied \intersect DOMAIN shared : shared[k].values = spec.priors[k]
           /\ Add(new) /\ pc' = "groups"
           /\ UNCHANGED <<spec, trust, declared, contributions, shared, counted, outcome>>
  <2>1. pc = "priors" /\ ~ Compiled /\ ~ Compiled' /\ DOMAIN contributions = spec.observations
    BY <1>2 DEF Priors, CompileInv, Begun, Compiled, ContributionsKept, After
  <2>2. \A k \in Owned : PriorOf(k).key = <<"prior", k>> /\ PriorOf(k).role = "descriptive"
    BY <2>1, PriorsAre DEF After
  <2>3. Begun' /\ Trusted' /\ ContributionsKept' /\ SharedKept'
    BY <1>2, <2>1, TrustedFrame, ContributionsFrame, SharedFrame DEF CompileInv, Begun, After
  <2>4. Owned' = Owned /\ Supplied' = Supplied /\ (\A k : PriorOf(k)' = PriorOf(k))
        /\ (\A g : LikelihoodOf(g)' = LikelihoodOf(g))
    BY <1>2, PriorFrame, LikelihoodFrame
  <2> HIDE DEF new
  <2>5. ASSUME ~ clash', NEW k \in Owned
        PROVE  <<"prior", k>> \in DOMAIN factors' /\ factors'[<<"prior", k>>] = PriorOf(k)
    <3>1. PriorOf(k) \in new
      BY DEF new
    <3>2. PriorOf(k).key \in DOMAIN factors' /\ factors'[PriorOf(k).key] = PriorOf(k)
      BY <1>2, <2>5, <3>1, AddKeeps
    <3> QED
      BY <2>2, <3>2
  <2>6. PriorsKept'
    BY <1>2, <2>4, <2>5 DEF PriorsKept, HasPrior
  <2>7. FactorsKept'
    <3>1. ~ After({"validate"})' /\ pc # "validate"
      BY <1>2, <2>1 DEF After
    <3>2. CASE clash'
      BY <3>1, <3>2 DEF FactorsKept
    <3>3. CASE ~ clash'
      <4>1. /\ ~ clash
            /\ \A k \in DOMAIN factors : k \in DOMAIN factors' /\ factors'[k] = factors[k]
            /\ \A k \in DOMAIN factors' :
                 k \in DOMAIN factors \/ \E f \in new : f.key = k /\ factors'[k] = f
        BY <1>2, <3>3, AddKeeps
      <4>2. \A f \in spec.factors : f.key \in DOMAIN factors'
        BY <2>1, <4>1 DEF CompileInv, FactorsKept, After
      <4>3. ASSUME NEW g \in counted PROVE HasLikelihood(g)'
        <5>1. HasLikelihood(g)
          BY <4>1 DEF CompileInv, FactorsKept
        <5>2. GroupsOfEvidence' = GroupsOfEvidence /\ \A h : CopiesOf(h)' = CopiesOf(h)
          BY <1>2 DEF GroupsOfEvidence, CopiesOf
        <5> QED
          BY <1>2, <2>4, <4>1, <5>1, <5>2 DEF HasLikelihood
      <4>4. ASSUME NEW k \in DOMAIN factors', factors'[k].role = "observation"
            PROVE  factors'[k] \in spec.factors \/ \E g \in counted : factors'[k] = LikelihoodOf(g)
        <5>1. \A f \in new : f.role = "descriptive"
          BY <2>2 DEF new
        <5>2. k \in DOMAIN factors
          BY <4>1, <4>4, <5>1
        <5> QED
          BY <4>1, <4>4, <5>2 DEF CompileInv, FactorsKept
      <4> QED
        BY <1>2, <2>4, <3>1, <4>2, <4>3, <4>4 DEF FactorsKept
    <3> QED
      BY <3>2, <3>3
  <2> QED
    BY <2>3, <2>6, <2>7 DEF CompileInv
<1> QED
  BY <1>1, <1>2 DEF Priors

LEMMA GroupKeeps == ASSUME CompileInv, NEW g \in GroupsOfEvidence, Group(g) PROVE CompileInv'
<1> DEFINE new == OfGroup(g)
<1>1. CASE Fail("refused") \/ Fail("dependent")
  BY <1>1, FailKeeps
<1>2. CASE /\ \A o \in CopiesOf(g) : KeyOf(o) \in DOMAIN trust
           /\ Add(new) /\ counted' = counted \union {g}
           /\ UNCHANGED <<spec, pc, trust, declared, contributions, shared, outcome>>
  <2>1. pc = "groups" /\ ~ Compiled /\ ~ Compiled' /\ DOMAIN contributions = spec.observations
    BY <1>2 DEF Group, CompileInv, Begun, Compiled, ContributionsKept, After
  <2>2. Begun' /\ Trusted' /\ ContributionsKept' /\ SharedKept'
    BY <1>2, <2>1, TrustedFrame, ContributionsFrame, SharedFrame DEF CompileInv, Begun, After
  <2>3. Owned' = Owned /\ Supplied' = Supplied /\ (\A k : PriorOf(k)' = PriorOf(k))
        /\ (\A h : LikelihoodOf(h)' = LikelihoodOf(h))
    BY <1>2, PriorFrame, LikelihoodFrame
  <2>4. GroupsOfEvidence' = GroupsOfEvidence /\ \A h : CopiesOf(h)' = CopiesOf(h)
    BY <1>2 DEF GroupsOfEvidence, CopiesOf
  <2>5. LikelihoodOf(g) \in new /\ \A f \in new : f = LikelihoodOf(g)
    BY DEF OfGroup
  <2> HIDE DEF new
  <2>6. PriorsKept'
    <3>1. ASSUME ~ clash', NEW k \in Owned
          PROVE  <<"prior", k>> \in DOMAIN factors' /\ factors'[<<"prior", k>>] = PriorOf(k)
      <4>1. ~ clash /\ \A i \in DOMAIN factors : i \in DOMAIN factors' /\ factors'[i] = factors[i]
        BY <1>2, <3>1, AddKeeps
      <4>2. HasPrior(k)
        BY <2>1, <4>1 DEF CompileInv, PriorsKept, After
      <4> QED
        BY <4>1, <4>2 DEF HasPrior
    <3> QED
      BY <1>2, <2>1, <2>3, <3>1 DEF CompileInv, PriorsKept, HasPrior, After
  <2>7. FactorsKept'
    <3>1. ~ After({"validate"})'
      BY <1>2, <2>1 DEF After
    <3>2. CASE clash'
      BY <3>1, <3>2 DEF FactorsKept
    <3>3. CASE ~ clash'
      <4>1. /\ ~ clash
            /\ \A k \in DOMAIN factors : k \in DOMAIN factors' /\ factors'[k] = factors[k]
            /\ \A f \in new : /\ f.key \notin DOMAIN factors /\ f.key \in DOMAIN factors'
                              /\ factors'[f.key] = f
            /\ \A k \in DOMAIN factors' :
                 k \in DOMAIN factors \/ \E f \in new : f.key = k /\ factors'[k] = f
        BY <1>2, <3>3, AddKeeps
      <4>2. \A f \in spec.factors : f.key \in DOMAIN factors /\ f.key \in DOMAIN factors'
        BY <2>1, <4>1 DEF CompileInv, FactorsKept, After
      <4>3. ASSUME NEW h \in counted PROVE HasLikelihood(h)'
        <5>1. HasLikelihood(h)
          BY <4>1 DEF CompileInv, FactorsKept
        <5> QED
          BY <1>2, <2>3, <2>4, <4>1, <5>1 DEF HasLikelihood
      <4>4. HasLikelihood(g)'
        <5>1. LikelihoodOf(g).key \in DOMAIN factors' /\ factors'[LikelihoodOf(g).key] = LikelihoodOf(g)
              /\ LikelihoodOf(g).key \notin DOMAIN factors
          BY <2>5, <4>1
        <5>2. LikelihoodOf(g) \notin spec.factors
          BY <4>2, <5>1
        <5>3. FirstOf(CopiesOf(g)) \in CopiesOf(g)
          <6>1. CopiesOf(g) # {} /\ \A o \in CopiesOf(g) : o.id \in Nat
            BY CompilationAssumption DEF CopiesOf, GroupsOfEvidence, CompileInv, Begun
          <6> QED
            BY <6>1, FirstIsOne
        <5>4. KeyOf(FirstOf(CopiesOf(g))) \in DOMAIN trust
          BY <1>2, <5>3
        <5> QED
          BY <1>2, <2>3, <2>4, <5>1, <5>2, <5>4 DEF HasLikelihood
      <4>5. ASSUME NEW k \in DOMAIN factors', factors'[k].role = "observation"
            PROVE  factors'[k] \in spec.factors
                     \/ \E h \in counted \union {g} : factors'[k] = LikelihoodOf(h)
        <5>1. CASE k \in DOMAIN factors
          BY <4>1, <4>5, <5>1 DEF CompileInv, FactorsKept
        <5>2. CASE k \notin DOMAIN factors
          BY <2>5, <4>1, <5>2
        <5> QED
          BY <5>1, <5>2
      <4> QED
        BY <1>2, <2>3, <3>1, <4>2, <4>3, <4>4, <4>5 DEF FactorsKept
    <3> QED
      BY <3>2, <3>3
  <2> QED
    BY <2>2, <2>6, <2>7 DEF CompileInv
<1> QED
  BY <1>1, <1>2 DEF Group

LEMMA ValidateKeeps == ASSUME CompileInv, Validate PROVE CompileInv'
<1>1. CASE Fail("refused")
  BY <1>1, FailKeeps
<1>2. CASE /\ ~ clash /\ pc' = "ended" /\ outcome' = "compiled"
           /\ UNCHANGED <<spec, trust, declared, contributions, shared, result>>
  <2>1. pc = "validate" /\ Compiled' /\ DOMAIN contributions = spec.observations
    BY <1>2 DEF Validate, CompileInv, Begun, Compiled, ContributionsKept, After
  <2>2. UNCHANGED <<spec, trust, declared, contributions, shared, factors, clash, counted>>
    BY <1>2 DEF result
  <2>3. Begun' /\ Trusted' /\ ContributionsKept'
    BY <1>2, <2>1, <2>2, TrustedFrame, ContributionsFrame DEF CompileInv, Begun
  <2>4. SharedKept' /\ PriorsKept' /\ FactorsKept'
    BY <2>1, <2>2, SharedFrame, PriorsFrame, FactorsFrame DEF CompileInv, After
  <2> QED
    BY <2>3, <2>4 DEF CompileInv
<1> QED
  BY <1>1, <1>2 DEF Validate

\* Every part of resolve_parameters() and _compile() keeps the invariant.
THEOREM CompileStep == CompileInv /\ [Next]_vars => CompileInv'
<1> SUFFICES ASSUME CompileInv, [Next]_vars PROVE CompileInv'
  OBVIOUS
<1>1. CASE Resolve
  BY <1>1, ResolveKeeps
<1>2. CASE Begin
  <2>1. CASE Fail("refused")
    BY <2>1, FailKeeps
  <2>2. CASE pc' = "observations" /\ UNCHANGED <<spec, trust, declared, contributions, shared, result, outcome>>
    BY <1>2, <2>2, GoesOn DEF Begin, result, Compiled, CompileInv, Begun
  <2> QED
    BY <1>2, <2>1, <2>2 DEF Begin
<1>3. CASE Contribute
  BY <1>3, ContributeKeeps
<1>4. CASE ObservationsDone
  <2>1. DOMAIN contributions = spec.observations
    BY <1>4 DEF ObservationsDone, Remaining, CompileInv, ContributionsKept
  <2> QED
    BY <1>4, <2>1, GoesOn DEF ObservationsDone, result, Compiled, CompileInv, Begun
<1>5. CASE Admit
  BY <1>5, AdmitKeeps
<1>6. CASE Share
  BY <1>6, ShareKeeps
<1>7. CASE Priors
  BY <1>7, PriorsKeeps
<1>8. ASSUME NEW g \in GroupsOfEvidence, Group(g) PROVE CompileInv'
  BY <1>8, GroupKeeps
<1>9. CASE GroupsDone
  <2>1. DOMAIN contributions = spec.observations
    BY <1>9 DEF GroupsDone, CompileInv, ContributionsKept, After
  <2> QED
    BY <1>9, <2>1, GoesOn DEF GroupsDone, result, Compiled, CompileInv, Begun
<1>10. CASE Validate
  BY <1>10, ValidateKeeps
<1>11. CASE Stop
  BY <1>11, FailKeeps DEF Stop
<1>12. CASE UNCHANGED vars
  <2>1. UNCHANGED <<spec, trust, declared, contributions, shared, factors, clash, counted, pc, outcome>>
    BY <1>12 DEF vars, result
  <2>2. Begun' /\ Trusted' /\ ContributionsKept'
    BY <2>1, TrustedFrame, ContributionsFrame DEF CompileInv, Begun, Compiled, ContributionsKept, After
  <2>3. SharedKept' /\ PriorsKept' /\ FactorsKept'
    BY <2>1, SharedFrame, PriorsFrame, FactorsFrame DEF CompileInv, After, Compiled
  <2> QED
    BY <2>2, <2>3 DEF CompileInv
<1> QED
  BY <1>1, <1>2, <1>3, <1>4, <1>5, <1>6, <1>7, <1>8, <1>9, <1>10, <1>11, <1>12 DEF Next

\* The inductive invariant of a compilation.
THEOREM CompileAlways == Spec => []CompileInv
BY CompileInit, CompileStep, PTL DEF Spec

-----------------------------------------------------------------------------
(***************************************************************************)
(* What a compiled model owes                                              *)
(***************************************************************************)
\* The likelihoods of a compiled model are those of its groups.
LEMMA LikelihoodsAre ==
  ASSUME CompileInv, Compiled
  PROVE  /\ \A g \in GroupsOfEvidence :
              /\ LikelihoodOf(g) \in Likelihoods
              /\ FirstOf(CopiesOf(g)) \in CopiesOf(g)
              /\ KeyOf(FirstOf(CopiesOf(g))) \in DOMAIN trust
              /\ LikelihoodOf(g).key = <<"observation", FirstOf(CopiesOf(g)).id>>
              /\ LikelihoodOf(g).evidence = UNION {o.evidence : o \in CopiesOf(g)}
              /\ LikelihoodOf(g).values = trust[KeyOf(FirstOf(CopiesOf(g)))]
         /\ \A f \in Likelihoods : \E g \in GroupsOfEvidence : f = LikelihoodOf(g)
<1>1. ~ clash /\ counted = GroupsOfEvidence /\ DOMAIN contributions = spec.observations
  BY DEF CompileInv, Begun, FactorsKept, ContributionsKept, After
<1>2. ASSUME NEW g \in GroupsOfEvidence
      PROVE  /\ LikelihoodOf(g).key = <<"observation", FirstOf(CopiesOf(g)).id>>
             /\ LikelihoodOf(g).evidence = UNION {o.evidence : o \in CopiesOf(g)}
             /\ LikelihoodOf(g).role = "observation"
  BY DEF LikelihoodOf, Likelihood
<1>3. ASSUME NEW g \in GroupsOfEvidence
      PROVE  FirstOf(CopiesOf(g)) \in CopiesOf(g)
  <2>1. CopiesOf(g) # {} /\ \A o \in CopiesOf(g) : o.id \in Nat
    BY CompilationAssumption DEF CopiesOf, GroupsOfEvidence, CompileInv, Begun
  <2> QED
    BY <2>1, FirstIsOne
<1>4. ASSUME NEW g \in GroupsOfEvidence
      PROVE  LikelihoodOf(g).values = trust[KeyOf(FirstOf(CopiesOf(g)))]
  <2> DEFINE first == FirstOf(CopiesOf(g))
  <2>1. first \in DOMAIN contributions
    BY <1>1, <1>3 DEF CopiesOf
  <2>2. contributions[first] = None \/ contributions[first] = Contribution(first, trust[KeyOf(first)])
    BY <2>1 DEF CompileInv, ContributionsKept, Contributed
  <2>3. Contribution(first, trust[KeyOf(first)]).values = trust[KeyOf(first)]
    BY DEF Contribution
  <2>4. LikelihoodOf(g).values =
          IF contributions[first] # None THEN contributions[first].values ELSE trust[KeyOf(first)]
    BY DEF LikelihoodOf, Likelihood
  <2> HIDE DEF first
  <2>5. LikelihoodOf(g).values = trust[KeyOf(first)]
    BY <2>2, <2>3, <2>4
  <2> QED
    BY <2>5 DEF first
<1>5. ASSUME NEW g \in GroupsOfEvidence
      PROVE  LikelihoodOf(g) \in Likelihoods /\ KeyOf(FirstOf(CopiesOf(g))) \in DOMAIN trust
  <2>1. HasLikelihood(g)
    BY <1>1 DEF CompileInv, FactorsKept
  <2> QED
    BY <1>2, <2>1 DEF HasLikelihood, Likelihoods
<1>6. \A f \in Likelihoods : \E g \in GroupsOfEvidence : f = LikelihoodOf(g)
  BY <1>1 DEF CompileInv, FactorsKept, Likelihoods
<1> QED
  BY <1>2, <1>3, <1>4, <1>5, <1>6

\* A copy belongs to one group.
LEMMA CopyOfOne ==
  ASSUME CompileInv, NEW g, NEW h, NEW o \in CopiesOf(g), NEW p \in CopiesOf(h), o.id = p.id
  PROVE  g = h /\ o = p
BY CompilationAssumption DEF CopiesOf, CompileInv, Begun

LEMMA ReportsAreCountedOnce == CompileInv => ReportsCountedOnce
<1> SUFFICES ASSUME CompileInv, Compiled
             PROVE  /\ \A f \in Likelihoods : \E g \in GroupsOfEvidence : Counts(f, g)
                    /\ \A g \in GroupsOfEvidence :
                         \E f \in Likelihoods :
                           /\ f.evidence = UNION {o.evidence : o \in CopiesOf(g)}
                           /\ \A other \in Likelihoods : Counts(other, g) <=> other = f
  BY DEF ReportsCountedOnce
<1>1. \A g \in GroupsOfEvidence : Counts(LikelihoodOf(g), g)
  BY LikelihoodsAre DEF Counts
<1>2. ASSUME NEW g \in GroupsOfEvidence, NEW other \in Likelihoods, Counts(other, g)
      PROVE  other = LikelihoodOf(g)
  <2>1. PICK h \in GroupsOfEvidence : other = LikelihoodOf(h)
    BY LikelihoodsAre
  <2>2. PICK o \in CopiesOf(g) : other.key = <<"observation", o.id>>
    BY <1>2 DEF Counts
  <2>3. other.key = <<"observation", FirstOf(CopiesOf(h)).id>> /\ FirstOf(CopiesOf(h)) \in CopiesOf(h)
    BY <2>1, LikelihoodsAre
  <2>4. o.id = FirstOf(CopiesOf(h)).id
    BY <2>2, <2>3
  <2> QED
    BY <2>1, <2>3, <2>4, CopyOfOne
<1> QED
  BY <1>1, <1>2, LikelihoodsAre

\* _compile() counts every report once, whatever its copies and channels are.
THEOREM CompileReportsCountedOnce == Spec => []ReportsCountedOnce
BY CompileAlways, ReportsAreCountedOnce, PTL

\* A key that is resolved has the values of its closest rule.
LEMMA ResolvedIsClosest ==
  ASSUME CompileInv, NEW key, Resolves(key)
  PROVE  \/ \E r \in spec.rules : Closest(r, key) /\ Values(key) = r.values
         \/ (\A r \in spec.rules : ~ Matches(r, key)) /\ Values(key) = spec.default
<1> DEFINE matching == {r \in spec.rules : Matches(r, key)}
           exact == {r \in matching : Exact(r)}
<1>1. Candidates(key) = IF exact # {} THEN exact ELSE matching
  BY DEF Candidates
<1>2. CASE Candidates(key) = {}
  <2>1. matching = {}
    BY <1>1, <1>2
  <2> QED
    BY <1>2, <2>1 DEF Values
<1>3. CASE Candidates(key) # {}
  <2>1. PICK r \in Candidates(key) : Values(key) = r.values
    BY <1>3 DEF Values
  <2>2. IsFiniteSet(Candidates(key))
    <3>1. IsFiniteSet(spec.rules) /\ Candidates(key) \subseteq spec.rules
      BY <1>1, CompilationAssumption DEF CompileInv, Begun
    <3> QED
      BY <3>1, FS_Subset
  <2>3. \A other \in Candidates(key) : other = r
    <3>1. Cardinality(Candidates(key)) = 1
      BY <1>3, <2>2, FS_EmptySet, FS_CardinalityType DEF Resolves
    <3> QED
      BY <2>1, <2>2, <3>1, FS_Singleton
  <2>4. r \in matching
    BY <1>1
  <2>5. ASSUME NEW other \in spec.rules \ {r}, Matches(other, key) PROVE Exact(r) /\ ~ Exact(other)
    <3>1. other \in matching /\ other \notin Candidates(key)
      BY <2>3, <2>5
    <3> QED
      BY <1>1, <3>1
  <2> QED
    BY <2>1, <2>4, <2>5 DEF Closest
<1> QED
  BY <1>2, <1>3

LEMMA TrustIsOfClosest == CompileInv => TrustIsClosest
<1> SUFFICES ASSUME CompileInv, Compiled, NEW o \in spec.observations, NEW f \in Likelihoods,
                    f.key = <<"observation", o.id>>
             PROVE  \/ \E r \in spec.rules : Closest(r, KeyOf(o)) /\ f.values = r.values
                    \/ (\A r \in spec.rules : ~ Matches(r, KeyOf(o))) /\ f.values = spec.default
  BY DEF TrustIsClosest
<1>1. PICK g \in GroupsOfEvidence : f = LikelihoodOf(g)
  BY LikelihoodsAre
<1>2. /\ f.key = <<"observation", FirstOf(CopiesOf(g)).id>> /\ FirstOf(CopiesOf(g)) \in CopiesOf(g)
      /\ f.values = trust[KeyOf(FirstOf(CopiesOf(g)))] /\ KeyOf(FirstOf(CopiesOf(g))) \in DOMAIN trust
  BY <1>1, LikelihoodsAre
<1>3. o.id = FirstOf(CopiesOf(g)).id /\ o \in CopiesOf(o.information)
  BY <1>2 DEF CopiesOf
<1>4. FirstOf(CopiesOf(g)) = o
  BY <1>2, <1>3, CopyOfOne
<1>5. Resolves(KeyOf(o)) /\ f.values = Values(KeyOf(o))
  BY <1>2, <1>4 DEF CompileInv, Trusted
<1> QED
  BY <1>5, ResolvedIsClosest

\* Trust is that of the closest rule: resolve_parameters() settles no tie.
THEOREM CompileTrustIsClosest == Spec => []TrustIsClosest
BY CompileAlways, TrustIsOfClosest, PTL

LEMMA SharedIsSame == CompileInv => SharedMeansSame
<1> SUFFICES ASSUME CompileInv, Compiled
             PROVE  /\ \A o \in DOMAIN contributions :
                         contributions[o] # None =>
                           /\ \A v \in contributions[o].variables : declared[v.name] = v.variable
                           /\ \A p \in contributions[o].priors : factors[p.key] = p
                    /\ \A k \in Supplied \intersect DOMAIN declared :
                         IsFinite(declared[k]) /\ ~ Single(k) => factors[<<"prior", k>>].values = spec.priors[k]
  BY DEF SharedMeansSame
<1>1. ~ clash /\ After({"groups", "validate"}) /\ After({"priors", "groups", "validate"})
  BY DEF CompileInv, Begun, After
<1>2. /\ (Supplied \intersect DOMAIN declared) \subseteq Owned
      /\ \A k \in Supplied \intersect DOMAIN shared : shared[k].values = spec.priors[k]
      /\ \A k \in Owned : factors[<<"prior", k>>] = PriorOf(k)
  BY <1>1 DEF CompileInv, PriorsKept, HasPrior
<1>3. ASSUME NEW o \in DOMAIN contributions, contributions[o] # None
      PROVE  \A v \in contributions[o].variables : declared[v.name] = v.variable
  BY <1>3 DEF CompileInv, ContributionsKept, Contributed, Declares
<1>4. ASSUME NEW p \in ContributedPriors PROVE IsFinite(declared[NameOf(p)]) => factors[p.key] = p
  <2>1. NameOf(p) \in DOMAIN shared /\ shared[NameOf(p)] = p
    BY <1>1 DEF CompileInv, SharedKept
  <2>2. factors[<<"prior", NameOf(p)>>] = PriorOf(NameOf(p))
    BY <1>2, <2>1 DEF Owned
  <2> QED
    BY <2>1, <2>2, ContributedAre DEF PriorOf
<1>5. ASSUME NEW k \in Supplied \intersect DOMAIN declared, IsFinite(declared[k]), ~ Single(k)
      PROVE  factors[<<"prior", k>>].values = spec.priors[k]
  <2>1. factors[<<"prior", k>>] = PriorOf(k)
    BY <1>2
  <2>2. CASE k \in DOMAIN shared
    BY <1>2, <1>5, <2>1, <2>2 DEF PriorOf
  <2>3. CASE k \notin DOMAIN shared
    BY <1>5, <2>1, <2>3 DEF PriorOf, Prior
  <2> QED
    BY <2>2, <2>3
<1>6. ASSUME NEW p \in ContributedPriors PROVE IsFinite(declared[NameOf(p)])
  BY <1>1 DEF CompileInv, SharedKept
<1> QED
  BY <1>3, <1>4, <1>5, <1>6 DEF ContributedPriors

\* A latent that observations share is one variable with one prior.
THEOREM CompileSharedMeansSame == Spec => []SharedMeansSame
BY CompileAlways, SharedIsSame, PTL

(***************************************************************************)
(* Generated worlds: the log the synthetic process writes follows the      *)
(* schema declared for it, whatever the number of orders, the              *)
(* configuration and the choices of the process.                           *)
(***************************************************************************)

\* The type of an object is told by its name.
TypeName(o) ==
  CASE o[1] = "cust" -> "Customer" [] o[1] = "order" -> "Order" [] o[1] = "item" -> "Item" [] OTHER -> "Invoice"

\* Event i and object o are linked in the world w.
Touches(w, i, o) == \E l \in w.e2o : l[1] = Real(i) /\ l[3] = o

\* What happened is listed in order, objects have the type their name tells, links are of what is there.
Shaped(w) ==
  /\ w = [events |-> w.events, types |-> w.types, e2o |-> w.e2o, o2o |-> w.o2o]
  /\ w.events \in Seq([type : EventTypes, time : Int])
  /\ \A o \in DOMAIN w.types : w.types[o] = TypeName(o)
  /\ IsFiniteSet(w.e2o) /\ IsFiniteSet(w.o2o)
  /\ \A l \in w.e2o : /\ l = <<l[1], l[2], l[3]>> /\ l[3] \in DOMAIN w.types
                      /\ \E i \in 1..Len(w.events) : l[1] = Real(i)

\* A signature for events of a type.
Fits(type, qualifier, o) ==
  \E s \in E2OQualifiers : s.type = type /\ s.qualifier = qualifier /\ s.object = TypeName(o)

\* A signature for links of objects.
FitsObjects(l) ==
  \E s \in O2OQualifiers : s.type = TypeName(l[1]) /\ s.qualifier = l[2] /\ s.object = TypeName(l[3])

\* Every link has a signature.
Lawful(w) ==
  /\ \A i \in 1..Len(w.events) : \A l \in w.e2o : l[1] = Real(i) => Fits(w.events[i].type, l[2], l[3])
  /\ \A l \in w.o2o : l[1] \in DOMAIN w.types /\ l[3] \in DOMAIN w.types /\ FitsObjects(l)

\* The link of event i that s asks for is there, and it is one unless s allows many.
Links(w, i, s) == {l \in w.e2o : l[1] = Real(i) /\ l[2] = s.qualifier /\ TypeName(l[3]) = s.object}

\* Every event has the links its type asks for.
Complete(w) ==
  \A i \in 1..Len(w.events) : \A s \in E2OQualifiers :
    s.type = w.events[i].type =>
      Links(w, i, s) # {} /\ (s.many \/ \A l, m \in Links(w, i, s) : l = m)

\* A world a schema like this one allows.
WellMade(w) == Shaped(w) /\ Lawful(w) /\ Complete(w)

\* The links that an event of a type comes with.
Serves(w, type, links) ==
  /\ IsFiniteSet(links)
  /\ \A l \in links : l = <<l[1], l[2]>> /\ l[2] \in DOMAIN w.types /\ Fits(type, l[1], l[2])
  /\ \A s \in E2OQualifiers : s.type = type =>
       /\ \E l \in links : l[1] = s.qualifier /\ TypeName(l[2]) = s.object
       /\ s.many \/ \A l, m \in links : l[1] = s.qualifier /\ m[1] = s.qualifier => l = m

\* v is w with one more event.
Grows(w, v, type, at, links) ==
  /\ v = [events |-> v.events, types |-> w.types, e2o |-> v.e2o, o2o |-> w.o2o]
  /\ Len(w.events) \in Nat /\ Len(v.events) = Len(w.events) + 1
  /\ v.events \in Seq([type : EventTypes, time : Int])
  /\ v.events[Len(w.events) + 1] = [type |-> type, time |-> at]
  /\ \A i \in 1..Len(w.events) : v.events[i] = w.events[i]
  /\ v.e2o = w.e2o \union {<<Real(Len(w.events) + 1), l[1], l[2]>> : l \in links}

\* emit() adds one event.
LEMMA EmitGrows ==
  ASSUME NEW w, Shaped(w), NEW type \in EventTypes, NEW at \in Int, NEW links
  PROVE  Grows(w, Emit(w, type, at, links), type, at, links)
<1>1. PICK n, e, v : n = Len(w.events) /\ e = [type |-> type, time |-> at] /\ v = Emit(w, type, at, links)
  OBVIOUS
<1>2. w.events \in Seq([type : EventTypes, time : Int]) /\ n \in Nat /\ e \in [type : EventTypes, time : Int]
  BY <1>1, LenProperties DEF Shaped
<1>3. v = [events |-> Append(w.events, e), types |-> w.types, o2o |-> w.o2o,
           e2o |-> w.e2o \union {<<Real(n + 1), l[1], l[2]>> : l \in links}]
  BY <1>1 DEF Emit, Shaped
<1>4. v.events = Append(w.events, e) /\ v.types = w.types /\ v.o2o = w.o2o
      /\ v.e2o = w.e2o \union {<<Real(n + 1), l[1], l[2]>> : l \in links}
  BY <1>3
<1>5. v.events \in Seq([type : EventTypes, time : Int]) /\ Len(v.events) = n + 1
      /\ v.events[n + 1] = e /\ \A i \in 1..n : v.events[i] = w.events[i]
  BY <1>1, <1>2, <1>4, AppendProperties
<1>6. v = [events |-> v.events, types |-> w.types, e2o |-> v.e2o, o2o |-> w.o2o]
  BY <1>3, <1>4
<1> QED BY <1>1, <1>2, <1>4, <1>5, <1>6 DEF Grows

\* Indices tell events apart.
LEMMA RealIs == \A i, j : Real(i) = Real(j) <=> i = j
BY DEF Real

\* The links of an event that was there before, and of the new one.
LEMMA GrownLinks ==
  ASSUME NEW w, Shaped(w), NEW v, NEW type, NEW at, NEW links, Grows(w, v, type, at, links)
  PROVE  /\ \A i \in 1..Len(w.events) : {l \in v.e2o : l[1] = Real(i)} = {l \in w.e2o : l[1] = Real(i)}
         /\ {l \in v.e2o : l[1] = Real(Len(w.events) + 1)} = {<<Real(Len(w.events) + 1), l[1], l[2]>> : l \in links}
<1>1. PICK n \in Nat : n = Len(w.events)
  BY DEF Grows
<1>2. v.e2o = w.e2o \union {<<Real(n + 1), l[1], l[2]>> : l \in links}
  BY <1>1 DEF Grows
<1>3. \A l \in w.e2o : \E i \in 1..n : l[1] = Real(i)
  BY <1>1 DEF Shaped
<1>4. \A i \in 1..n : Real(i) # Real(n + 1)
  BY RealIs
<1>5. ASSUME NEW i \in 1..n PROVE {l \in v.e2o : l[1] = Real(i)} = {l \in w.e2o : l[1] = Real(i)}
  BY <1>2, <1>4
<1>6. {l \in v.e2o : l[1] = Real(n + 1)} = {<<Real(n + 1), l[1], l[2]>> : l \in links}
  BY <1>2, <1>3, <1>4
<1> QED BY <1>1, <1>5, <1>6

\* A sound world stays so if an event comes with the links that it asks for.
LEMMA GrowsSoundly ==
  ASSUME NEW w, WellMade(w), NEW v, NEW type \in EventTypes, NEW at \in Int, NEW links,
         Serves(w, type, links), Grows(w, v, type, at, links)
  PROVE  WellMade(v)
<1>1. PICK n \in Nat : n = Len(w.events)
  BY DEF Grows
<1>2. /\ v = [events |-> v.events, types |-> w.types, e2o |-> v.e2o, o2o |-> w.o2o]
      /\ Len(v.events) = n + 1 /\ v.events[n + 1] = [type |-> type, time |-> at]
      /\ \A i \in 1..n : v.events[i] = w.events[i]
      /\ v.events \in Seq([type : EventTypes, time : Int])
      /\ v.e2o = w.e2o \union {<<Real(n + 1), l[1], l[2]>> : l \in links}
  BY <1>1 DEF Grows
<1>3. v.types = w.types /\ v.o2o = w.o2o
  BY <1>2
<1>s. Shaped(w) /\ Lawful(w) /\ Complete(w)
  BY DEF WellMade
<1>g. /\ \A i \in 1..n : {l \in v.e2o : l[1] = Real(i)} = {l \in w.e2o : l[1] = Real(i)}
      /\ {l \in v.e2o : l[1] = Real(n + 1)} = {<<Real(n + 1), l[1], l[2]>> : l \in links}
  BY <1>1, <1>s, GrownLinks
<1>4. Shaped(v)
  <2>1. IsFiniteSet(v.e2o)
    <3>1. PICK f, S : f = [l \in links |-> <<Real(n + 1), l[1], l[2]>>] /\ S = {f[l] : l \in links}
      OBVIOUS
    <3>6. f \in Surjection(links, S)
      BY <3>1 DEF Surjection
    <3>2. IsFiniteSet(links)
      BY DEF Serves
    <3>3. IsFiniteSet(S)
      BY <3>2, <3>6, FS_Surjection
    <3>4. IsFiniteSet(w.e2o)
      BY <1>s DEF Shaped
    <3>5. v.e2o = w.e2o \union S
      BY <1>2, <3>1
    <3> QED BY <3>3, <3>4, <3>5, FS_Union
  <2>2. ASSUME NEW l \in v.e2o
        PROVE  l = <<l[1], l[2], l[3]>> /\ l[3] \in DOMAIN v.types /\ \E i \in 1..n + 1 : l[1] = Real(i)
    <3>1. CASE l \in w.e2o
      BY <1>1, <1>3, <1>s, <3>1 DEF Shaped
    <3>2. CASE l \notin w.e2o
      <4>1. PICK m \in links : l = <<Real(n + 1), m[1], m[2]>>
        BY <1>2, <3>2
      <4>2. m[2] \in DOMAIN w.types
        BY DEF Serves
      <4> QED BY <1>3, <4>1, <4>2
    <3> QED BY <3>1, <3>2
  <2>3. (\A o \in DOMAIN v.types : v.types[o] = TypeName(o)) /\ IsFiniteSet(v.o2o)
    BY <1>3, <1>s DEF Shaped
  <2> QED BY <1>2, <1>3, <2>1, <2>2, <2>3 DEF Shaped
<1>5. Lawful(v)
  <2>1. ASSUME NEW i \in 1..n + 1, NEW l \in v.e2o, l[1] = Real(i) PROVE Fits(v.events[i].type, l[2], l[3])
    <3>1. CASE i = n + 1
      <4>1. PICK m \in links : l = <<Real(n + 1), m[1], m[2]>>
        BY <1>g, <2>1, <3>1
      <4>2. Fits(type, m[1], m[2])
        BY DEF Serves
      <4> QED BY <1>2, <3>1, <4>1, <4>2
    <3>2. CASE i # n + 1
      <4>1. i \in 1..n
        BY <3>2
      <4>2. l \in w.e2o
        BY <1>g, <2>1, <4>1
      <4> QED BY <1>1, <1>2, <1>s, <2>1, <4>1, <4>2 DEF Lawful
    <3> QED BY <3>1, <3>2
  <2> QED BY <1>2, <1>3, <1>s, <2>1 DEF Lawful
<1>6. ASSUME NEW i \in 1..n + 1, NEW s \in E2OQualifiers, s.type = v.events[i].type
      PROVE  Links(v, i, s) # {} /\ (s.many \/ \A l, m \in Links(v, i, s) : l = m)
  <2>1. CASE i = n + 1
    <3>1. s.type = type
      BY <1>2, <1>6, <2>1
    <3>2. PICK m \in links : m[1] = s.qualifier /\ TypeName(m[2]) = s.object
      BY <3>1 DEF Serves
    <3>3. <<Real(n + 1), m[1], m[2]>> \in v.e2o
      BY <1>2
    <3>4. <<Real(n + 1), m[1], m[2]>> \in Links(v, i, s)
      BY <2>1, <3>2, <3>3 DEF Links
    <3>5. CASE ~ s.many
      <4>1. \A l, k \in links : l[1] = s.qualifier /\ k[1] = s.qualifier => l = k
        BY <3>1, <3>5 DEF Serves
      <4>2. ASSUME NEW l \in Links(v, i, s), NEW k \in Links(v, i, s) PROVE l = k
        <5>1. l \in v.e2o /\ k \in v.e2o /\ l[1] = Real(n + 1) /\ k[1] = Real(n + 1) /\ l[2] = s.qualifier /\ k[2] = s.qualifier
          BY <2>1 DEF Links
        <5>2. PICK a \in links : l = <<Real(n + 1), a[1], a[2]>>
          BY <1>g, <5>1
        <5>3. PICK b \in links : k = <<Real(n + 1), b[1], b[2]>>
          BY <1>g, <5>1
        <5>4. a[1] = s.qualifier /\ b[1] = s.qualifier
          BY <5>1, <5>2, <5>3
        <5>5. a = b
          BY <4>1, <5>4
        <5> QED BY <5>2, <5>3, <5>5
      <4> QED BY <3>4, <4>2
    <3> QED BY <3>4, <3>5
  <2>2. CASE i # n + 1
    <3>1. i \in 1..n
      BY <2>2
    <3>2. Links(v, i, s) = Links(w, i, s)
      BY <1>g, <3>1 DEF Links
    <3>3. s.type = w.events[i].type
      BY <1>2, <1>6, <3>1
    <3> QED BY <1>1, <1>s, <3>1, <3>2, <3>3 DEF Complete
  <2> QED BY <2>1, <2>2
<1>7. Complete(v)
  BY <1>2, <1>6 DEF Complete
<1> QED BY <1>4, <1>5, <1>7 DEF WellMade

\* Objects of a type, and the links that come with them.
Joining(w, objects, type, links) ==
  /\ IsFiniteSet(links)
  /\ \A o \in objects : TypeName(o) = type
  /\ \A l \in links : /\ l[1] \in DOMAIN w.types \union objects
                      /\ l[3] \in DOMAIN w.types \union objects /\ FitsObjects(l)

\* v is w with more objects.
Joined(w, v, objects, links) ==
  /\ WellMade(v) /\ v.events = w.events /\ v.e2o = w.e2o
  /\ DOMAIN v.types = DOMAIN w.types \union objects /\ v.o2o = w.o2o \union links

\* New objects under their names leave a world sound.
LEMMA ObjectsSound ==
  ASSUME NEW w, WellMade(w), NEW objects, NEW type, NEW links, Joining(w, objects, type, links)
  PROVE  Joined(w, WithObjects(w, objects, type, links), objects, links)
<1>1. PICK v : v = WithObjects(w, objects, type, links)
  OBVIOUS
<1>s. Shaped(w) /\ Lawful(w) /\ Complete(w)
  BY DEF WellMade
<1>2. PICK D, ts, ls : D = DOMAIN w.types \union objects /\ ls = w.o2o \union links
                       /\ ts = [o \in D |-> IF o \in objects THEN type ELSE w.types[o]]
  OBVIOUS
<1>3. v = [events |-> w.events, types |-> ts, e2o |-> w.e2o, o2o |-> ls]
  BY <1>1, <1>2, <1>s DEF WithObjects, Shaped
<1>4. v.events = w.events /\ v.e2o = w.e2o /\ v.types = ts /\ v.o2o = ls /\ DOMAIN ts = D
  BY <1>2, <1>3
<1>5. \A o \in D : ts[o] = TypeName(o)
  BY <1>2, <1>s DEF Shaped, Joining
<1>6. Shaped(v)
  <2>1. IsFiniteSet(v.o2o)
    <3>1. PICK A : A = w.o2o
      OBVIOUS
    <3>2. IsFiniteSet(A) /\ IsFiniteSet(links)
      BY <1>s, <3>1 DEF Shaped, Joining
    <3>3. IsFiniteSet(A \union links)
      BY <3>2, FS_Union
    <3> QED BY <1>2, <1>4, <3>1, <3>3
  <2> QED BY <1>2, <1>3, <1>4, <1>5, <1>s, <2>1 DEF Shaped
<1>7. Lawful(v)
  BY <1>2, <1>4, <1>s DEF Lawful, Joining
<1>8. Complete(v)
  BY <1>4, <1>s DEF Complete, Links
<1> QED BY <1>1, <1>2, <1>4, <1>6, <1>7, <1>8 DEF WellMade, Joined

\* The objects whose life the process follows.
Lived == {"Order", "Item", "Invoice"}

\* A step between events i and j of w went back in time.
Back(c, w, i, j) ==
  \E m \in (i + 1)..j, d \in c.ticks : d < 0 /\ w.events[m].time = w.events[m - 1].time + d

\* What happens to an object happens in order, and is dated so but for such steps.
Traced(c, w) ==
  \A o : TypeName(o) \in Lived =>
    \A i, j \in 1..Len(w.events) :
      Touches(w, i, o) /\ Touches(w, j, o) /\ <<w.events[i].type, w.events[j].type>> \in Lifecycle(TypeName(o))
        => i < j /\ (w.events[i].time <= w.events[j].time \/ Back(c, w, i, j))

\* What happened to the objects of order k is not later than t, but for such steps.
Behind(c, w, k, t) ==
  \A o : TypeName(o) \in Lived /\ o[2] = k =>
    \A i \in 1..Len(w.events) : Touches(w, i, o) => w.events[i].time <= t \/ Back(c, w, i, Len(w.events))

\* The objects of the links are of order k alone.
Own(links, k) ==
  \A l \in links : /\ TypeName(l[2]) \in Lived => l[2][2] = k
                   /\ TypeName(l[2]) = "Order" => l[2] = OrderId(k)

\* Nothing that happened to the objects had to wait for an event of this type.
Free(w, type, links) ==
  \A l \in links : TypeName(l[2]) \in Lived =>
    \A i \in 1..Len(w.events) : Touches(w, i, l[2]) => <<type, w.events[i].type>> \notin Lifecycle(TypeName(l[2]))

\* Which objects the events of a grown world are linked to.
LEMMA GrownTouches ==
  ASSUME NEW w, Shaped(w), NEW v, NEW type, NEW at, NEW links, Grows(w, v, type, at, links), NEW o
  PROVE  /\ \A i \in 1..Len(w.events) : Touches(v, i, o) <=> Touches(w, i, o)
         /\ Touches(v, Len(w.events) + 1, o) <=> \E l \in links : l[2] = o
<1>1. PICK n \in Nat : n = Len(w.events)
  BY DEF Grows
<1>2. /\ \A i \in 1..n : {l \in v.e2o : l[1] = Real(i)} = {l \in w.e2o : l[1] = Real(i)}
      /\ {l \in v.e2o : l[1] = Real(n + 1)} = {<<Real(n + 1), l[1], l[2]>> : l \in links}
  BY <1>1, GrownLinks
<1>3. ASSUME NEW i \in 1..n PROVE Touches(v, i, o) <=> Touches(w, i, o)
  BY <1>2 DEF Touches
<1>4. Touches(v, n + 1, o) <=> \E l \in {l \in v.e2o : l[1] = Real(n + 1)} : l[3] = o
  BY DEF Touches
<1>5. Touches(v, n + 1, o) <=> \E l \in {<<Real(n + 1), l[1], l[2]>> : l \in links} : l[3] = o
  BY <1>2, <1>4
<1>6. Touches(v, n + 1, o) <=> \E l \in links : l[2] = o
  <2>1. \A l \in links : <<Real(n + 1), l[1], l[2]>>[3] = l[2]
    OBVIOUS
  <2>2. (\E l \in {<<Real(n + 1), m[1], m[2]>> : m \in links} : l[3] = o)
          <=> \E m \in links : <<Real(n + 1), m[1], m[2]>>[3] = o
    OBVIOUS
  <2> QED BY <1>5, <2>1, <2>2
<1> QED BY <1>1, <1>3, <1>6

\* A step that went back is still one in a grown world.
LEMMA GrownBack ==
  ASSUME NEW c, NEW w, NEW v, NEW type, NEW at, NEW links, Grows(w, v, type, at, links),
         NEW i \in 1..Len(w.events), NEW j \in 1..Len(w.events), Back(c, w, i, j)
  PROVE  Back(c, v, i, j) /\ Back(c, v, i, j + 1)
<1>1. PICK n \in Nat : n = Len(w.events) /\ \A a \in 1..n : v.events[a] = w.events[a]
  BY DEF Grows
<1>2. PICK m \in (i + 1)..j, d \in c.ticks : d < 0 /\ w.events[m].time = w.events[m - 1].time + d
  BY DEF Back
<1>3. i \in Nat /\ j \in Nat /\ 1 <= i /\ j <= n
  BY <1>1
<1>4. m \in 1..n /\ m - 1 \in 1..n /\ m \in (i + 1)..(j + 1)
  BY <1>2, <1>3
<1>5. v.events[m].time = v.events[m - 1].time + d
  BY <1>1, <1>2, <1>4
<1> QED BY <1>2, <1>4, <1>5 DEF Back

\* An event follows itself in no lifecycle.
LEMMA LifecycleIs ==
  /\ \A x, t : <<t, t>> \notin Lifecycle(x)
  /\ \A t : <<"ConfirmOrder", t>> \in Lifecycle("Order") => t = "PickItem"
  /\ \A t : <<"PickItem", t>> \notin Lifecycle("Order")
  /\ \A t : <<"PackItem", t>> \in Lifecycle("Order") => t = "Ship"
  /\ \A t : <<"Ship", t>> \in Lifecycle("Order") => t = "Invoice"
  /\ \A t : <<"Invoice", t>> \notin Lifecycle("Order")
  /\ \A t : <<"PickItem", t>> \in Lifecycle("Item") => t = "PackItem"
  /\ \A t : <<"PackItem", t>> \in Lifecycle("Item") => t = "Ship"
  /\ \A t : <<"Ship", t>> \notin Lifecycle("Item")
  /\ \A t : <<"Invoice", t>> \in Lifecycle("Invoice") => t = "Pay"
  /\ \A t : <<"Pay", t>> \notin Lifecycle("Invoice")
  /\ Lifecycle("Customer") = {}
<1>1. \A t : <<t, t>> \notin Precedes("Order") /\ <<t, t>> \notin Precedes("Item") /\ <<t, t>> \notin Precedes("Invoice")
  BY DEF Precedes
<1>2. \A x : x \in {"Order", "Item", "Invoice"} \/ Precedes(x) = {}
  BY DEF Precedes
<1>3. \A x, t : <<t, t>> \notin Lifecycle(x)
  <2> TAKE x, t
  <2>1. <<t, t>> \in Lifecycle(x) => <<t, t>> \in Precedes(x)
    BY DEF Lifecycle
  <2> QED BY <1>1, <1>2, <2>1
<1>4. /\ Lifecycle("Order") = {<<"PlaceOrder", "ConfirmOrder">>, <<"ConfirmOrder", "PickItem">>,
                               <<"PackItem", "Ship">>, <<"Ship", "Invoice">>}
      /\ Lifecycle("Item") = {<<"PickItem", "PackItem">>, <<"PackItem", "Ship">>}
      /\ Lifecycle("Invoice") = {<<"Invoice", "Pay">>} /\ Lifecycle("Customer") = {}
  BY DEF Lifecycle, Precedes
<1> QED BY <1>3, <1>4

\* What is behind the clock stays behind as the clock goes on, or back.
LEMMA GrowsBehind ==
  ASSUME NEW c, c.ticks \subseteq Int, NEW d \in c.ticks, NEW w, Shaped(w), NEW v, NEW type, NEW at, NEW links,
         Grows(w, v, type, at, links), NEW k, NEW t \in Int, at = t + d, Behind(c, w, k, t),
         Len(w.events) > 0, w.events[Len(w.events)].time = t
  PROVE  Behind(c, v, k, at)
<1>1. PICK n \in Nat : n = Len(w.events) /\ n > 0
  BY DEF Grows
<1>2. /\ Len(v.events) = n + 1 /\ v.events[n + 1].time = at /\ v.events[n].time = t
      /\ \A i \in 1..n : v.events[i] = w.events[i]
  <2>1. Len(v.events) = n + 1 /\ v.events[n + 1] = [type |-> type, time |-> at] /\ \A i \in 1..n : v.events[i] = w.events[i]
    BY <1>1 DEF Grows
  <2>2. n \in 1..n /\ w.events[n].time = t
    BY <1>1
  <2>3. v.events[n] = w.events[n]
    BY <2>1, <2>2
  <2>4. v.events[n].time = t
    BY <2>2, <2>3
  <2>5. v.events[n + 1].time = at
    <3>1. PICK e : e = v.events[n + 1]
      OBVIOUS
    <3>2. e = [type |-> type, time |-> at]
      BY <2>1, <3>1
    <3>3. e.time = at
      BY <3>2
    <3> QED BY <3>1, <3>3
  <2> QED BY <2>1, <2>4, <2>5
<1>3. SUFFICES ASSUME NEW o, TypeName(o) \in Lived, o[2] = k, NEW i \in 1..n + 1, Touches(v, i, o)
               PROVE  v.events[i].time <= at \/ Back(c, v, i, n + 1)
  BY <1>2 DEF Behind
<1>4. d \in Int /\ at \in Int
  OBVIOUS
<1>5. CASE i = n + 1
  BY <1>2, <1>4, <1>5
<1>6. CASE i # n + 1
  <2>1. i \in 1..n
    BY <1>6
  <2>2. Touches(w, i, o)
    BY <1>1, <1>3, <2>1, GrownTouches
  <2>3. w.events[i].time <= t \/ Back(c, w, i, n)
    BY <1>1, <1>3, <2>1, <2>2 DEF Behind
  <2>4. CASE Back(c, w, i, n)
    <3>1. n \in 1..n
      BY <1>1
    <3>2. Back(c, v, i, n + 1)
      BY <1>1, <2>1, <2>4, <3>1, GrownBack
    <3> QED BY <3>2
  <2>5. CASE w.events[i].time <= t /\ d >= 0
    <3>1. w.events[i] \in [type : EventTypes, time : Int]
      BY <1>1, <2>1, ElementOfSeq DEF Shaped
    <3> QED BY <1>2, <1>4, <2>1, <2>5, <3>1
  <2>6. CASE d < 0
    <3>1. n + 1 \in (i + 1)..(n + 1) /\ (n + 1) - 1 = n
      BY <2>1
    <3>2. v.events[n + 1].time = v.events[(n + 1) - 1].time + d
      BY <1>2, <3>1
    <3> QED BY <2>6, <3>1, <3>2 DEF Back
  <2> QED BY <1>4, <2>3, <2>4, <2>5, <2>6
<1> QED BY <1>5, <1>6

\* Lifecycles stay in order if events follow what happened to their objects.
LEMMA GrowsTraced ==
  ASSUME NEW c, NEW w, Shaped(w), Traced(c, w), NEW v, NEW type, NEW at, NEW links, NEW k,
         Grows(w, v, type, at, links), Behind(c, v, k, at), Own(links, k), Free(w, type, links)
  PROVE  Traced(c, v)
<1>1. PICK n \in Nat : n = Len(w.events)
  BY DEF Grows
<1>2. Len(v.events) = n + 1 /\ v.events[n + 1] = [type |-> type, time |-> at] /\ \A i \in 1..n : v.events[i] = w.events[i]
  BY <1>1 DEF Grows
<1>3. SUFFICES ASSUME NEW o, TypeName(o) \in Lived, NEW i \in 1..n + 1, NEW j \in 1..n + 1,
                      Touches(v, i, o), Touches(v, j, o),
                      <<v.events[i].type, v.events[j].type>> \in Lifecycle(TypeName(o))
               PROVE  i < j /\ (v.events[i].time <= v.events[j].time \/ Back(c, v, i, j))
  BY <1>2 DEF Traced
<1>4. /\ \A m \in 1..n : Touches(v, m, o) <=> Touches(w, m, o)
      /\ Touches(v, n + 1, o) <=> \E l \in links : l[2] = o
  BY <1>1, GrownTouches
<1>5. CASE i \in 1..n /\ j \in 1..n
  <2>1. Touches(w, i, o) /\ Touches(w, j, o) /\ v.events[i] = w.events[i] /\ v.events[j] = w.events[j]
    BY <1>2, <1>3, <1>4, <1>5
  <2>2. i < j /\ (w.events[i].time <= w.events[j].time \/ Back(c, w, i, j))
    BY <1>1, <1>3, <1>5, <2>1 DEF Traced
  <2>3. Back(c, w, i, j) => Back(c, v, i, j)
    BY <1>1, <1>5, GrownBack
  <2> QED BY <2>1, <2>2, <2>3
<1>6. CASE i \in 1..n /\ j = n + 1
  <2>1. PICK l \in links : l[2] = o
    BY <1>3, <1>4, <1>6
  <2>2. o[2] = k
    BY <1>3, <2>1 DEF Own
  <2>3. v.events[i].time <= at \/ Back(c, v, i, n + 1)
    BY <1>2, <1>3, <2>2 DEF Behind
  <2> QED BY <1>2, <1>6, <2>3
<1>7. CASE i = n + 1 /\ j \in 1..n
  <2>1. Touches(w, j, o) /\ v.events[j] = w.events[j]
    BY <1>2, <1>3, <1>4, <1>7
  <2>2. PICK l \in links : l[2] = o
    BY <1>3, <1>4, <1>7
  <2>3. <<type, w.events[j].type>> \notin Lifecycle(TypeName(o))
    BY <1>1, <1>3, <1>7, <2>1, <2>2 DEF Free
  <2> QED BY <1>2, <1>3, <1>7, <2>1, <2>3
<1>8. CASE i = n + 1 /\ j = n + 1
  BY <1>3, <1>8, LifecycleIs
<1> QED BY <1>5, <1>6, <1>7, <1>8

\* The links of an object that s asks for.
ObjectLinks(w, o, s) == {l \in w.o2o : l[1] = o /\ l[2] = s.qualifier /\ TypeName(l[3]) = s.object}

\* An order that may be drawn without items, and was confirmed at most.
Empty(c, w, o) ==
  /\ TypeName(o) = "Order" /\ 0 \in c.items
  /\ \A i \in 1..Len(w.events) : Touches(w, i, o) => w.events[i].type \in {"PlaceOrder", "ConfirmOrder"}

\* An object has the links that its type asks for, or was drawn empty.
FurnishedAt(c, w, o) ==
  \A s \in O2OQualifiers : s.type = TypeName(o) =>
    /\ s.many \/ \A l, m \in ObjectLinks(w, o, s) : l = m
    /\ ObjectLinks(w, o, s) # {} \/ Empty(c, w, o)

Furnished(c, w) == \A o \in DOMAIN w.types : FurnishedAt(c, w, o)

\* An event comes with orders that have items, or is one of those that need none.
Spares(w, type, links) ==
  type \in {"PlaceOrder", "ConfirmOrder"} \/
    \A l \in links, s \in O2OQualifiers :
      TypeName(l[2]) = "Order" /\ s.type = "Order" => ObjectLinks(w, l[2], s) # {}

\* Objects keep what they have as events are added.
LEMMA GrowsFurnished ==
  ASSUME NEW c, NEW w, Shaped(w), Furnished(c, w), NEW v, NEW type, NEW at, NEW links, Grows(w, v, type, at, links),
         Spares(w, type, links)
  PROVE  Furnished(c, v)
<1>1. PICK n \in Nat : n = Len(w.events)
  BY DEF Grows
<1>2. /\ Len(v.events) = n + 1 /\ v.events[n + 1].type = type /\ \A i \in 1..n : v.events[i] = w.events[i]
      /\ v.types = w.types /\ v.o2o = w.o2o
  BY <1>1 DEF Grows
<1>3. SUFFICES ASSUME NEW o \in DOMAIN w.types, NEW s \in O2OQualifiers, s.type = TypeName(o)
               PROVE  /\ s.many \/ \A l, m \in ObjectLinks(v, o, s) : l = m
                      /\ ObjectLinks(v, o, s) # {} \/ Empty(c, v, o)
  BY <1>2 DEF Furnished, FurnishedAt
<1>4. ObjectLinks(v, o, s) = ObjectLinks(w, o, s)
  BY <1>2 DEF ObjectLinks
<1>5. /\ s.many \/ \A l, m \in ObjectLinks(w, o, s) : l = m
      /\ ObjectLinks(w, o, s) # {} \/ Empty(c, w, o)
  BY <1>3 DEF Furnished, FurnishedAt
<1>6. ASSUME Empty(c, w, o), ObjectLinks(w, o, s) = {} PROVE Empty(c, v, o)
  <2>1. ASSUME NEW i \in 1..n + 1, Touches(v, i, o) PROVE v.events[i].type \in {"PlaceOrder", "ConfirmOrder"}
    <3>1. CASE i \in 1..n
      <4>1. Touches(w, i, o)
        BY <1>1, <2>1, <3>1, GrownTouches
      <4> QED BY <1>1, <1>2, <1>6, <3>1, <4>1 DEF Empty
    <3>2. CASE i = n + 1
      <4>1. PICK l \in links : l[2] = o
        BY <1>1, <2>1, <3>2, GrownTouches
      <4>2. type \in {"PlaceOrder", "ConfirmOrder"}
        BY <1>3, <1>6, <4>1 DEF Spares, Empty
      <4> QED BY <1>2, <3>2, <4>2
    <3> QED BY <3>1, <3>2
  <2> QED BY <1>2, <1>6, <2>1 DEF Empty
<1> QED BY <1>4, <1>5, <1>6

\* New objects that have what they need, and links of their own, leave the others what they have.
LEMMA ObjectsFurnish ==
  ASSUME NEW c, NEW w, Furnished(c, w), NEW v, v.events = w.events, v.e2o = w.e2o, NEW news, NEW links,
         v.o2o = w.o2o \union links, \A l \in links : l[1] \in news,
         DOMAIN v.types \subseteq DOMAIN w.types \union news, \A o \in news : FurnishedAt(c, v, o)
  PROVE  Furnished(c, v)
<1>1. SUFFICES ASSUME NEW o \in DOMAIN w.types, o \notin news PROVE FurnishedAt(c, v, o)
  BY DEF Furnished
<1>2. FurnishedAt(c, w, o)
  BY DEF Furnished
<1>3. \A s : ObjectLinks(v, o, s) = ObjectLinks(w, o, s)
  BY <1>1 DEF ObjectLinks
<1>4. Empty(c, v, o) <=> Empty(c, w, o)
  BY DEF Empty, Touches
<1> QED BY <1>2, <1>3, <1>4 DEF FurnishedAt

\* The names of objects.
LEMMA Names ==
  /\ \A k : TypeName(OrderId(k)) = "Order" /\ TypeName(InvoiceId(k)) = "Invoice"
            /\ OrderId(k)[2] = k /\ InvoiceId(k)[2] = k
  /\ \A k, j : TypeName(Item(k, j)) = "Item" /\ Item(k, j)[2] = k /\ Item(k, j)[3] = j
  /\ \A c \in Customers : TypeName(c) = "Customer"
BY DEF TypeName, OrderId, InvoiceId, Item, Customers

\* What the signatures of events are.
LEMMA Signatures ==
  /\ \A s \in E2OQualifiers :
       /\ s.type \in EventTypes /\ s.least = 1
       /\ \/ s.type # "Pay" /\ s.qualifier = "order" /\ s.object = "Order" /\ s.many = FALSE
          \/ s.type \in {"PlaceOrder", "Pay"} /\ s.qualifier = "customer" /\ s.object = "Customer" /\ s.many = FALSE
          \/ s.type \in {"PickItem", "PackItem"} /\ s.qualifier = "item" /\ s.object = "Item" /\ s.many = FALSE
          \/ s.type \in {"Invoice", "Pay"} /\ s.qualifier = "invoice" /\ s.object = "Invoice" /\ s.many = FALSE
          \/ s.type = "Ship" /\ s.qualifier = "item" /\ s.object = "Item" /\ s.many = TRUE
  /\ \A t \in EventTypes \ {"Pay"} : One(t, "order", "Order") \in E2OQualifiers
  /\ \A t \in {"PlaceOrder", "Pay"} : One(t, "customer", "Customer") \in E2OQualifiers
  /\ \A t \in {"PickItem", "PackItem"} : One(t, "item", "Item") \in E2OQualifiers
  /\ \A t \in {"Invoice", "Pay"} : One(t, "invoice", "Invoice") \in E2OQualifiers
  /\ \E s \in E2OQualifiers : s.type = "Ship" /\ s.qualifier = "item" /\ s.object = "Item"
<1>1. PICK x : x = [One("Ship", "item", "Item") EXCEPT !.many = TRUE]
  OBVIOUS
<1>a. x.type = "Ship" /\ x.qualifier = "item" /\ x.object = "Item" /\ x.many = TRUE /\ x.least = 1
  <2>1. PICK r : r = [type |-> "Ship", qualifier |-> "item", object |-> "Item", least |-> 1, many |-> FALSE]
    OBVIOUS
  <2>2. One("Ship", "item", "Item") = r
    BY <2>1 DEF One
  <2>3. x = [r EXCEPT !.many = TRUE]
    BY <1>1, <2>2
  <2> QED BY <2>1, <2>3
<1>2. ASSUME NEW s \in E2OQualifiers
      PROVE  \/ \E t \in EventTypes \ {"Pay"} : s = One(t, "order", "Order")
             \/ \E t \in {"PlaceOrder", "Pay"} : s = One(t, "customer", "Customer")
             \/ \E t \in {"PickItem", "PackItem"} : s = One(t, "item", "Item")
             \/ \E t \in {"Invoice", "Pay"} : s = One(t, "invoice", "Invoice")
             \/ s = x
  BY <1>1, <1>2 DEF E2OQualifiers
<1>3. \A t, q, o : One(t, q, o).type = t /\ One(t, q, o).qualifier = q /\ One(t, q, o).object = o
                  /\ One(t, q, o).many = FALSE /\ One(t, q, o).least = 1
  BY DEF One
<1>4. {"PlaceOrder", "Pay", "PickItem", "PackItem", "Invoice", "Ship"} \subseteq EventTypes
  BY DEF EventTypes
<1>5. \A s \in E2OQualifiers :
       /\ s.type \in EventTypes /\ s.least = 1
       /\ \/ s.type # "Pay" /\ s.qualifier = "order" /\ s.object = "Order" /\ s.many = FALSE
          \/ s.type \in {"PlaceOrder", "Pay"} /\ s.qualifier = "customer" /\ s.object = "Customer" /\ s.many = FALSE
          \/ s.type \in {"PickItem", "PackItem"} /\ s.qualifier = "item" /\ s.object = "Item" /\ s.many = FALSE
          \/ s.type \in {"Invoice", "Pay"} /\ s.qualifier = "invoice" /\ s.object = "Invoice" /\ s.many = FALSE
          \/ s.type = "Ship" /\ s.qualifier = "item" /\ s.object = "Item" /\ s.many = TRUE
  <2> TAKE s \in E2OQualifiers
  <2>1. CASE \E t \in EventTypes \ {"Pay"} : s = One(t, "order", "Order")
    BY <1>3, <2>1
  <2>2. CASE \E t \in {"PlaceOrder", "Pay"} : s = One(t, "customer", "Customer")
    BY <1>3, <1>4, <2>2
  <2>3. CASE \E t \in {"PickItem", "PackItem"} : s = One(t, "item", "Item")
    BY <1>3, <1>4, <2>3
  <2>4. CASE \E t \in {"Invoice", "Pay"} : s = One(t, "invoice", "Invoice")
    BY <1>3, <1>4, <2>4
  <2>5. CASE s = x
    BY <1>4, <1>a, <2>5
  <2> QED BY <1>2, <2>1, <2>2, <2>3, <2>4, <2>5
<1>6. \A t \in EventTypes \ {"Pay"} : One(t, "order", "Order") \in E2OQualifiers
  BY DEF E2OQualifiers
<1>7. \A t \in {"PlaceOrder", "Pay"} : One(t, "customer", "Customer") \in E2OQualifiers
  BY DEF E2OQualifiers
<1>8. \A t \in {"PickItem", "PackItem"} : One(t, "item", "Item") \in E2OQualifiers
  BY DEF E2OQualifiers
<1>9. \A t \in {"Invoice", "Pay"} : One(t, "invoice", "Invoice") \in E2OQualifiers
  BY DEF E2OQualifiers
<1>10. x \in E2OQualifiers
  BY <1>1 DEF E2OQualifiers
<1> QED BY <1>5, <1>6, <1>7, <1>8, <1>9, <1>10, <1>a

\* What objects may be linked to, and what the signatures of these links are.
LEMMA ObjectSignatures ==
  /\ \A a, b : TypeName(a) = "Order" /\ TypeName(b) = "Item" => FitsObjects(<<a, "contains", b>>)
  /\ \A a, b : TypeName(a) = "Invoice" /\ TypeName(b) = "Customer" => FitsObjects(<<a, "billed_to", b>>)
  /\ \A a, b : TypeName(a) = "Invoice" /\ TypeName(b) = "Order" => FitsObjects(<<a, "for_order", b>>)
  /\ \A s \in O2OQualifiers :
       /\ s.least = 1
       /\ \/ s.type = "Order" /\ s.qualifier = "contains" /\ s.object = "Item" /\ s.many = TRUE
          \/ s.type = "Invoice" /\ s.qualifier = "billed_to" /\ s.object = "Customer" /\ s.many = FALSE
          \/ s.type = "Invoice" /\ s.qualifier = "for_order" /\ s.object = "Order" /\ s.many = FALSE
<1>1. PICK x : x = [One("Order", "contains", "Item") EXCEPT !.many = TRUE]
  OBVIOUS
<1>2. x.type = "Order" /\ x.qualifier = "contains" /\ x.object = "Item" /\ x \in O2OQualifiers
      /\ x.many = TRUE /\ x.least = 1
  <2>1. PICK r : r = [type |-> "Order", qualifier |-> "contains", object |-> "Item", least |-> 1, many |-> FALSE]
    OBVIOUS
  <2>2. One("Order", "contains", "Item") = r
    BY <2>1 DEF One
  <2>3. x = [r EXCEPT !.many = TRUE]
    BY <1>1, <2>2
  <2>4. x \in O2OQualifiers
    BY <1>1 DEF O2OQualifiers
  <2> QED BY <2>1, <2>3, <2>4
<1>3. PICK y : y = One("Invoice", "billed_to", "Customer")
  OBVIOUS
<1>4. y.type = "Invoice" /\ y.qualifier = "billed_to" /\ y.object = "Customer" /\ y \in O2OQualifiers
      /\ y.many = FALSE /\ y.least = 1
  <2>1. y \in O2OQualifiers
    BY <1>3 DEF O2OQualifiers
  <2> QED BY <1>3, <2>1 DEF One
<1>5. PICK z : z = One("Invoice", "for_order", "Order")
  OBVIOUS
<1>6. z.type = "Invoice" /\ z.qualifier = "for_order" /\ z.object = "Order" /\ z \in O2OQualifiers
      /\ z.many = FALSE /\ z.least = 1
  <2>1. z \in O2OQualifiers
    BY <1>5 DEF O2OQualifiers
  <2> QED BY <1>5, <2>1 DEF One
<1>7. \A s \in O2OQualifiers : s = x \/ s = y \/ s = z
  BY <1>1, <1>3, <1>5 DEF O2OQualifiers
<1>8. /\ \A a, b : TypeName(a) = "Order" /\ TypeName(b) = "Item" => FitsObjects(<<a, "contains", b>>)
      /\ \A a, b : TypeName(a) = "Invoice" /\ TypeName(b) = "Customer" => FitsObjects(<<a, "billed_to", b>>)
      /\ \A a, b : TypeName(a) = "Invoice" /\ TypeName(b) = "Order" => FitsObjects(<<a, "for_order", b>>)
  BY <1>2, <1>4, <1>6 DEF FitsObjects
<1> QED BY <1>2, <1>4, <1>6, <1>7, <1>8

\* Two links, or one twice, that are all a type asks for.
LEMMA TwoLinks ==
  ASSUME NEW w, NEW type, NEW p, NEW a \in DOMAIN w.types, NEW q, NEW b \in DOMAIN w.types, p = q => a = b,
         One(type, p, TypeName(a)) \in E2OQualifiers, One(type, q, TypeName(b)) \in E2OQualifiers,
         \A s \in E2OQualifiers : s.type = type =>
           \/ s.qualifier = p /\ s.object = TypeName(a)
           \/ s.qualifier = q /\ s.object = TypeName(b)
  PROVE  Serves(w, type, {<<p, a>>, <<q, b>>})
<1>1. PICK x, y : x = <<p, a>> /\ y = <<q, b>>
  OBVIOUS
<1>b. x[1] = p /\ x[2] = a /\ y[1] = q /\ y[2] = b
  BY <1>1
<1>2. IsFiniteSet({x, y})
  <2>1. IsFiniteSet({x}) /\ IsFiniteSet({y}) /\ {x, y} = {x} \union {y}
    BY FS_Singleton
  <2> QED BY <2>1, FS_Union
<1>3. Fits(type, p, a) /\ Fits(type, q, b)
  BY DEF Fits, One
<1>4. \A l \in {x, y} : l = <<l[1], l[2]>> /\ l[2] \in DOMAIN w.types /\ Fits(type, l[1], l[2])
  BY <1>1, <1>b, <1>3
<1>5. ASSUME NEW s \in E2OQualifiers, s.type = type
      PROVE  /\ \E l \in {x, y} : l[1] = s.qualifier /\ TypeName(l[2]) = s.object
             /\ \A l, m \in {x, y} : l[1] = s.qualifier /\ m[1] = s.qualifier => l = m
  BY <1>1, <1>b, <1>5
<1> QED BY <1>1, <1>2, <1>4, <1>5 DEF Serves

\* The links of each event, given objects of the right types.
LEMMA Served ==
  ASSUME NEW w, NEW o \in DOMAIN w.types, TypeName(o) = "Order"
  PROVE  /\ Serves(w, "ConfirmOrder", {<<"order", o>>})
         /\ \A c \in DOMAIN w.types : TypeName(c) = "Customer" =>
              Serves(w, "PlaceOrder", {<<"order", o>>, <<"customer", c>>})
         /\ \A i \in DOMAIN w.types : TypeName(i) = "Item" =>
              /\ Serves(w, "PickItem", {<<"item", i>>, <<"order", o>>})
              /\ Serves(w, "PackItem", {<<"item", i>>, <<"order", o>>})
         /\ \A v \in DOMAIN w.types : TypeName(v) = "Invoice" =>
              Serves(w, "Invoice", {<<"order", o>>, <<"invoice", v>>})
<1>0. /\ "order" # "customer" /\ "order" # "item" /\ "order" # "invoice"
      /\ {"PlaceOrder", "ConfirmOrder", "PickItem", "PackItem", "Invoice"} \subseteq EventTypes \ {"Pay"}
  BY DEF EventTypes
<1>a. \A t \in {"PlaceOrder", "ConfirmOrder", "PickItem", "PackItem", "Invoice"} : One(t, "order", TypeName(o)) \in E2OQualifiers
  BY <1>0, Signatures
<1>1. Serves(w, "ConfirmOrder", {<<"order", o>>})
  <2>1. \A s \in E2OQualifiers : s.type = "ConfirmOrder" => s.qualifier = "order" /\ s.object = TypeName(o)
    BY Signatures
  <2>2. Serves(w, "ConfirmOrder", {<<"order", o>>, <<"order", o>>})
    BY <1>a, <2>1, TwoLinks
  <2>3. {<<"order", o>>, <<"order", o>>} = {<<"order", o>>}
    OBVIOUS
  <2> QED BY <2>2, <2>3
<1>2. ASSUME NEW c \in DOMAIN w.types, TypeName(c) = "Customer"
      PROVE  Serves(w, "PlaceOrder", {<<"order", o>>, <<"customer", c>>})
  <2>1. \A s \in E2OQualifiers : s.type = "PlaceOrder" =>
          \/ s.qualifier = "order" /\ s.object = TypeName(o)
          \/ s.qualifier = "customer" /\ s.object = TypeName(c)
    BY <1>2, Signatures
  <2>2. One("PlaceOrder", "customer", TypeName(c)) \in E2OQualifiers
    BY <1>2, Signatures
  <2> QED BY <1>0, <1>a, <2>1, <2>2, TwoLinks
<1>3. ASSUME NEW t \in {"PickItem", "PackItem"}, NEW i \in DOMAIN w.types, TypeName(i) = "Item"
      PROVE  Serves(w, t, {<<"item", i>>, <<"order", o>>})
  <2>1. \A s \in E2OQualifiers : s.type = t =>
          \/ s.qualifier = "item" /\ s.object = TypeName(i)
          \/ s.qualifier = "order" /\ s.object = TypeName(o)
    BY <1>3, Signatures
  <2>2. One(t, "item", TypeName(i)) \in E2OQualifiers
    BY <1>3, Signatures
  <2> QED BY <1>0, <1>a, <2>1, <2>2, TwoLinks
<1>4. ASSUME NEW v \in DOMAIN w.types, TypeName(v) = "Invoice"
      PROVE  Serves(w, "Invoice", {<<"order", o>>, <<"invoice", v>>})
  <2>1. \A s \in E2OQualifiers : s.type = "Invoice" =>
          \/ s.qualifier = "order" /\ s.object = TypeName(o)
          \/ s.qualifier = "invoice" /\ s.object = TypeName(v)
    BY <1>4, Signatures
  <2>2. One("Invoice", "invoice", TypeName(v)) \in E2OQualifiers
    BY <1>4, Signatures
  <2> QED BY <1>0, <1>a, <2>1, <2>2, TwoLinks
<1> QED BY <1>1, <1>2, <1>3, <1>4

\* A payment.
LEMMA ServedPay ==
  ASSUME NEW w, NEW v \in DOMAIN w.types, TypeName(v) = "Invoice", NEW c \in DOMAIN w.types, TypeName(c) = "Customer"
  PROVE  Serves(w, "Pay", {<<"invoice", v>>, <<"customer", c>>})
<1>1. \A s \in E2OQualifiers : s.type = "Pay" =>
        \/ s.qualifier = "invoice" /\ s.object = TypeName(v)
        \/ s.qualifier = "customer" /\ s.object = TypeName(c)
  BY Signatures
<1>2. One("Pay", "invoice", TypeName(v)) \in E2OQualifiers /\ One("Pay", "customer", TypeName(c)) \in E2OQualifiers
  BY Signatures
<1>3. "invoice" # "customer"
  OBVIOUS
<1> QED BY <1>1, <1>2, <1>3, TwoLinks

\* A shipment, of at least one item.
LEMMA ServedShip ==
  ASSUME NEW w, NEW o \in DOMAIN w.types, TypeName(o) = "Order", NEW k, NEW n \in Nat \ {0},
         \A j \in 1..n : Item(k, j) \in DOMAIN w.types
  PROVE  Serves(w, "Ship", {<<"order", o>>} \union {<<"item", i>> : i \in Items(k, n)})
<1>1. PICK f, S : f = [j \in 1..n |-> <<"item", Item(k, j)>>] /\ S = {f[j] : j \in 1..n}
  OBVIOUS
<1>2. {<<"item", i>> : i \in Items(k, n)} = S
  BY <1>1 DEF Items
<1>3. IsFiniteSet({<<"order", o>>} \union S)
  <2>1. f \in Surjection(1..n, S)
    BY <1>1 DEF Surjection
  <2>2. IsFiniteSet(S)
    BY <2>1, FS_Interval, FS_Surjection
  <2> QED BY <2>2, FS_Singleton, FS_Union
<1>4. \A l \in S : \E j \in 1..n : l = <<"item", Item(k, j)>>
  BY <1>1
<1>5. Fits("Ship", "order", o) /\ \A j \in 1..n : Fits("Ship", "item", Item(k, j))
  <2>1. One("Ship", "order", "Order") \in E2OQualifiers
    BY Signatures DEF EventTypes
  <2>2. Fits("Ship", "order", o)
    BY <2>1 DEF Fits, One
  <2>3. \A j \in 1..n : TypeName(Item(k, j)) = "Item"
    BY Names
  <2> QED BY <2>2, <2>3, Signatures DEF Fits
<1>6. ASSUME NEW l \in {<<"order", o>>} \union S
      PROVE  l = <<l[1], l[2]>> /\ l[2] \in DOMAIN w.types /\ Fits("Ship", l[1], l[2])
  <2>1. CASE l = <<"order", o>>
    BY <1>5, <2>1
  <2>2. CASE l # <<"order", o>>
    <3>1. PICK j \in 1..n : l = <<"item", Item(k, j)>>
      BY <1>4, <2>2
    <3> QED BY <1>5, <3>1
  <2> QED BY <2>1, <2>2
<1>7. ASSUME NEW s \in E2OQualifiers, s.type = "Ship"
      PROVE  /\ \E l \in {<<"order", o>>} \union S : l[1] = s.qualifier /\ TypeName(l[2]) = s.object
             /\ s.many \/ \A l, m \in {<<"order", o>>} \union S : l[1] = s.qualifier /\ m[1] = s.qualifier => l = m
  <2>1. \/ s.qualifier = "order" /\ s.object = "Order"
        \/ s.many = TRUE /\ s.qualifier = "item" /\ s.object = "Item"
    BY <1>7, Signatures
  <2>2. CASE s.qualifier = "order" /\ s.object = "Order"
    <3>1. \A l \in {<<"order", o>>} \union S : l[1] = "order" => l = <<"order", o>>
      BY <1>4
    <3>2. PICK l : l = <<"order", o>>
      OBVIOUS
    <3>3. l[1] = "order" /\ TypeName(l[2]) = "Order" /\ l \in {<<"order", o>>} \union S
      BY <3>2
    <3> QED BY <2>2, <3>1, <3>3
  <2>3. CASE s.many = TRUE /\ s.qualifier = "item" /\ s.object = "Item"
    <3>1. f[1] \in S /\ f[1] = <<"item", Item(k, 1)>>
      BY <1>1
    <3>2. PICK l \in S : l = <<"item", Item(k, 1)>>
      BY <3>1
    <3>3. l[1] = "item" /\ TypeName(l[2]) = "Item"
      BY <3>2, Names
    <3> QED BY <2>3, <3>3
  <2> QED BY <2>1, <2>2, <2>3
<1> QED BY <1>2, <1>3, <1>6, <1>7 DEF Serves

\* What may have happened to the objects of an order at a stage.
Past(type, stage) ==
  /\ type = "PickItem" => stage # "placed"
  /\ type = "Ship" => stage \notin {"placed", "picking", "packing"}
  /\ type = "Invoice" => stage \in {"invoiced", "paid"}
  /\ type = "Pay" => stage = "paid"

\* From one stage to another, what happened has happened.
Advances(from, to) == \A type : Past(type, from) => Past(type, to)

\* What happened to order k is what should have, at a stage and with so many items packed.
Untouched(w, k, packed, stage) ==
  \A i \in 1..Len(w.events) :
    /\ \A j \in Nat : Touches(w, i, Item(k, j)) /\ w.events[i].type = "PackItem" => j <= packed
    /\ \A o : TypeName(o) \in Lived /\ o[2] = k /\ Touches(w, i, o) => Past(w.events[i].type, stage)

\* An event of this type is what should happen now.
Touching(type, links, k, packed, stage) ==
  /\ type = "PackItem" => \A l \in links : \A j \in Nat : l[2] = Item(k, j) => j <= packed
  /\ Past(type, stage)

\* The stages of an order, and the orders under way.
Stages == {"placed", "picking", "packing", "shipped", "invoiced", "paid"}
UnderWay == [k : Nat, customer : Customers, n : Nat, packed : Nat, stage : Stages, t : Int]

\* Every stage advances to the next.
LEMMA StagesAdvance ==
  /\ Advances("placed", "picking") /\ Advances("picking", "packing") /\ Advances("packing", "picking")
  /\ Advances("picking", "shipped") /\ Advances("shipped", "invoiced") /\ Advances("invoiced", "paid")
BY DEF Advances, Past

\* What an event does not touch is as it should be at the next stage.
LEMMA GrowsUntouched ==
  ASSUME NEW w, Shaped(w), NEW v, NEW type, NEW at, NEW links, Grows(w, v, type, at, links),
         NEW k, NEW p \in Nat, NEW s, Untouched(w, k, p, s), NEW p2 \in Nat, NEW s2, Touching(type, links, k, p2, s2),
         p <= p2, Advances(s, s2)
  PROVE  Untouched(v, k, p2, s2)
<1>1. PICK n \in Nat : n = Len(w.events)
  BY DEF Grows
<1>2. Len(v.events) = n + 1 /\ v.events[n + 1].type = type /\ \A i \in 1..n : v.events[i] = w.events[i]
  BY <1>1 DEF Grows
<1>3. ASSUME NEW i \in 1..n + 1
      PROVE  /\ \A j \in Nat : Touches(v, i, Item(k, j)) /\ v.events[i].type = "PackItem" => j <= p2
             /\ \A o : TypeName(o) \in Lived /\ o[2] = k /\ Touches(v, i, o) => Past(v.events[i].type, s2)
  <2>1. CASE i = n + 1
    <3>1. \A j : Touches(v, i, Item(k, j)) => \E l \in links : l[2] = Item(k, j)
      BY <1>1, <2>1, GrownTouches
    <3>2. Past(type, s2)
      BY DEF Touching
    <3>3. \A j \in Nat : Touches(v, i, Item(k, j)) /\ type = "PackItem" => j <= p2
      BY <3>1 DEF Touching
    <3> QED BY <1>2, <2>1, <3>2, <3>3
  <2>2. CASE i # n + 1
    <3>1. i \in 1..n
      BY <2>2
    <3>2. \A o : Touches(v, i, o) <=> Touches(w, i, o)
      BY <1>1, <3>1, GrownTouches
    <3>3. \A j \in Nat : Touches(w, i, Item(k, j)) /\ w.events[i].type = "PackItem" => j <= p
      BY <1>1, <3>1 DEF Untouched
    <3>4. \A o : TypeName(o) \in Lived /\ o[2] = k /\ Touches(w, i, o) => Past(w.events[i].type, s)
      BY <1>1, <3>1 DEF Untouched
    <3>5. v.events[i] = w.events[i]
      BY <1>2, <3>1
    <3>6. \A j \in Nat : Touches(v, i, Item(k, j)) /\ v.events[i].type = "PackItem" => j <= p2
      BY <3>2, <3>3, <3>5
    <3>7. \A o : TypeName(o) \in Lived /\ o[2] = k /\ Touches(v, i, o) => Past(v.events[i].type, s2)
      BY <3>2, <3>4, <3>5 DEF Advances
    <3> QED BY <3>6, <3>7
  <2> QED BY <2>1, <2>2
<1> QED BY <1>2, <1>3 DEF Untouched

-----------------------------------------------------------------------------
\* The world is well made, and what lives in it is of an order begun.
WorldInv ==
  /\ config \in Configs
  /\ WellMade(world) /\ Traced(config, world) /\ Furnished(config, world)
  /\ clock \in Int /\ count \in Nat
  /\ Customers \subseteq DOMAIN world.types
  /\ \A l \in world.e2o : TypeName(l[3]) \in Lived => l[3][2] \in Nat /\ l[3][2] <= count
  /\ \A l \in world.o2o : l[1][2] \in Nat /\ l[1][2] <= count

\* The items of order k are linked to it.
HasItems(w, k, n) == \A j \in 1..n : <<OrderId(k), "contains", Item(k, j)>> \in w.o2o

\* Nothing is linked to the invoice of order k.
NotInvoiced(w, k) == \A l \in w.o2o : l[1] # InvoiceId(k)

\* The last event of w is of time t.
LastAt(w, t) == Len(w.events) > 0 /\ w.events[Len(w.events)].time = t

\* The order being generated.
OrderInv ==
  order # Unset =>
    /\ order \in UnderWay
    /\ order.k = count
    /\ order.packed <= order.n
    /\ order.stage = "packing" => order.packed < order.n
    /\ order.n > 0 \/ order.stage \in {"placed", "picking"}
    /\ OrderId(order.k) \in DOMAIN world.types
    /\ \A j \in 1..order.n : Item(order.k, j) \in DOMAIN world.types
    /\ HasItems(world, order.k, order.n)
    /\ order.stage = "invoiced" => InvoiceId(order.k) \in DOMAIN world.types
    /\ order.stage \in {"invoiced", "paid"} \/ NotInvoiced(world, order.k)
    /\ Untouched(world, order.k, order.packed, order.stage)
    /\ LastAt(world, order.t)
    /\ Behind(config, world, order.k, order.t)

\* The world with more objects, linked from the order's invoice at most.
Wider(w) ==
  /\ WellMade(w) /\ w.events = world.events /\ w.e2o = world.e2o
  /\ DOMAIN world.types \subseteq DOMAIN w.types /\ world.o2o \subseteq w.o2o
  /\ Furnished(config, w)
  /\ \A l \in w.o2o : l \in world.o2o \/ l[1] = InvoiceId(order.k)

\* An event of the order under way, in its turn.
LEMMA Emits ==
  ASSUME WorldInv, OrderInv, order # Unset, NEW d \in config.ticks, NEW w, Wider(w),
         NEW type \in EventTypes, NEW links, Serves(w, type, links), Own(links, order.k), Free(world, type, links),
         world' = Emit(w, type, order.t + d, links), UNCHANGED <<config, clock, count>>,
         order' \in UnderWay, order'.k = order.k, order'.n = order.n, order'.t = order.t + d,
         order.packed <= order'.packed, order'.packed <= order'.n,
         order'.stage = "packing" => order'.packed < order'.n,
         order.n > 0 \/ (type = "ConfirmOrder" /\ order'.stage = "picking"),
         order'.stage = "invoiced" => InvoiceId(order.k) \in DOMAIN w.types,
         order'.stage \in {"invoiced", "paid"} \/ (w.o2o = world.o2o /\ order.stage \notin {"invoiced", "paid"}),
         Advances(order.stage, order'.stage),
         Touching(type, links, order.k, order'.packed, order'.stage)
  PROVE  WorldInv' /\ OrderInv'
<1>1. PICK k, t, at, n : k = order.k /\ t = order.t /\ at = order.t + d /\ n = order.n
  OBVIOUS
<1>2. config.ticks \subseteq Int
  BY WorldAssumption DEF WorldInv
<1>3. t \in Int /\ at \in Int /\ at = t + d /\ k = count /\ count \in Nat /\ order.packed \in Nat /\ n \in Nat
  BY <1>1, <1>2 DEF OrderInv, UnderWay, WorldInv
<1>4. /\ WellMade(w) /\ w.events = world.events /\ w.e2o = world.e2o
      /\ DOMAIN world.types \subseteq DOMAIN w.types /\ world.o2o \subseteq w.o2o /\ Furnished(config, w)
      /\ \A l \in w.o2o : l \in world.o2o \/ l[1] = InvoiceId(k)
  BY <1>1 DEF Wider
<1>5. Shaped(w)
  BY <1>4 DEF WellMade
<1>6. Grows(w, world', type, at, links)
  BY <1>1, <1>3, <1>5, EmitGrows
<1>7. WellMade(world')
  BY <1>3, <1>4, <1>6, GrowsSoundly
<1>8. /\ world'.types = w.types /\ world'.o2o = w.o2o
      /\ world'.e2o = world.e2o \union {<<Real(Len(world.events) + 1), l[1], l[2]>> : l \in links}
  BY <1>4, <1>6 DEF Grows
<1>9. ASSUME NEW l \in world'.e2o, TypeName(l[3]) \in Lived PROVE l[3][2] \in Nat /\ l[3][2] <= count
  <2>1. CASE l \in world.e2o
    BY <1>9, <2>1 DEF WorldInv
  <2>2. CASE l \notin world.e2o
    <3>1. PICK m \in links : l = <<Real(Len(world.events) + 1), m[1], m[2]>>
      BY <1>8, <2>2
    <3>2. l[3] = m[2]
      BY <3>1
    <3>3. l[3][2] = k
      BY <1>1, <1>9, <3>2 DEF Own
    <3> QED BY <1>3, <3>3
  <2> QED BY <2>1, <2>2
<1>10. ASSUME NEW l \in world'.o2o PROVE l[1][2] \in Nat /\ l[1][2] <= count
  <2>1. CASE l \in world.o2o
    BY <2>1 DEF WorldInv
  <2>2. CASE l[1] = InvoiceId(k)
    BY <1>3, <2>2, Names
  <2> QED BY <1>4, <1>8, <1>10, <2>1, <2>2
<1>11. Behind(config, w, k, t) /\ Traced(config, w) /\ LastAt(w, t)
  <2>1. Behind(config, world, k, t) /\ Traced(config, world) /\ LastAt(world, t)
    BY <1>1 DEF OrderInv, WorldInv
  <2>2. \A i, j : Back(config, w, i, j) <=> Back(config, world, i, j)
    BY <1>4 DEF Back
  <2>3. \A i, o : Touches(w, i, o) <=> Touches(world, i, o)
    BY <1>4 DEF Touches
  <2>4. Behind(config, w, k, t)
    BY <1>4, <2>1, <2>2, <2>3 DEF Behind
  <2>5. Traced(config, w)
    BY <1>4, <2>1, <2>2, <2>3 DEF Traced
  <2>6. LastAt(w, t)
    BY <1>4, <2>1 DEF LastAt
  <2> QED BY <2>4, <2>5, <2>6
<1>12. Behind(config, world', k, at)
  BY <1>2, <1>3, <1>5, <1>6, <1>11, GrowsBehind DEF LastAt
<1>13. Traced(config, world')
  <2>1. Free(w, type, links)
    BY <1>4 DEF Free, Touches
  <2>2. Own(links, k)
    BY <1>1
  <2> QED BY <1>3, <1>5, <1>6, <1>11, <1>12, <2>1, <2>2, GrowsTraced
<1>14. HasItems(w, k, n)
  BY <1>1, <1>4 DEF OrderInv, HasItems
<1>15. Furnished(config, world')
  <2>1. ASSUME n > 0, NEW l \in links, NEW s \in O2OQualifiers, TypeName(l[2]) = "Order", s.type = "Order"
        PROVE  ObjectLinks(w, l[2], s) # {}
    <3>1. l[2] = OrderId(k)
      BY <1>1, <2>1 DEF Own
    <3>2. s.qualifier = "contains" /\ s.object = "Item"
      BY <2>1, ObjectSignatures
    <3>3. PICK x : x = <<OrderId(k), "contains", Item(k, 1)>>
      OBVIOUS
    <3>4. x \in w.o2o
      BY <1>3, <1>14, <2>1, <3>3 DEF HasItems
    <3>5. x[1] = l[2] /\ x[2] = s.qualifier /\ TypeName(x[3]) = s.object
      BY <3>1, <3>2, <3>3, Names
    <3>6. x \in ObjectLinks(w, l[2], s)
      BY <3>4, <3>5 DEF ObjectLinks
    <3> QED BY <3>6
  <2>2. Spares(w, type, links)
    <3>1. CASE type = "ConfirmOrder"
      BY <3>1 DEF Spares
    <3>2. CASE n > 0
      BY <2>1, <3>2 DEF Spares
    <3> QED BY <1>1, <3>1, <3>2
  <2> QED BY <1>4, <1>5, <1>6, <2>2, GrowsFurnished
<1>16. Untouched(world', k, order'.packed, order'.stage)
  <2>1. PICK p, s, p2, s2 : p = order.packed /\ s = order.stage /\ p2 = order'.packed /\ s2 = order'.stage
    OBVIOUS
  <2>2. Untouched(world, k, p, s)
    BY <1>1, <2>1 DEF OrderInv
  <2>3. Untouched(w, k, p, s)
    BY <1>4, <2>2 DEF Untouched, Touches
  <2>4. p \in Nat /\ p2 \in Nat /\ p <= p2
    BY <1>3, <2>1 DEF UnderWay
  <2>5. Touching(type, links, k, p2, s2) /\ Advances(s, s2)
    BY <1>1, <2>1
  <2> QED BY <1>5, <1>6, <2>1, <2>3, <2>4, <2>5, GrowsUntouched
<1>17. LastAt(world', at)
  <2>1. PICK m \in Nat : m = Len(w.events) /\ Len(world'.events) = m + 1
                         /\ world'.events[m + 1] = [type |-> type, time |-> at]
    BY <1>6 DEF Grows
  <2> QED BY <2>1 DEF LastAt
<1>18. WorldInv'
  <2>1. Customers' = Customers /\ clock' \in Int /\ count' \in Nat /\ config' \in Configs
    BY DEF Customers, WorldInv
  <2>2. Customers \subseteq DOMAIN world'.types
    BY <1>4, <1>8 DEF WorldInv
  <2>3. Traced(config', world') /\ Furnished(config', world')
    BY <1>13, <1>15
  <2> QED BY <1>7, <1>9, <1>10, <2>1, <2>2, <2>3 DEF WorldInv
<1>19. OrderInv'
  <2>1. UnderWay' = UnderWay
    BY DEF UnderWay, Customers
  <2>2. OrderId(order'.k) \in DOMAIN world'.types /\ \A j \in 1..order'.n : Item(order'.k, j) \in DOMAIN world'.types
    BY <1>4, <1>8 DEF OrderInv
  <2>3. HasItems(world', order'.k, order'.n)
    BY <1>1, <1>8, <1>14 DEF HasItems
  <2>4. order'.stage \in {"invoiced", "paid"} \/ NotInvoiced(world', order'.k)
    BY <1>8 DEF OrderInv, NotInvoiced
  <2>5. order'.n > 0 \/ order'.stage \in {"placed", "picking"}
    OBVIOUS
  <2>6. Behind(config', world', order'.k, order'.t) /\ LastAt(world', order'.t)
    BY <1>1, <1>12, <1>17
  <2>7. order'.stage = "invoiced" => InvoiceId(order'.k) \in DOMAIN world'.types
    BY <1>8
  <2>8. order'.k = count'
    BY <1>1, <1>3
  <2> QED BY <1>1, <1>16, <2>1, <2>2, <2>3, <2>4, <2>5, <2>6, <2>7, <2>8 DEF OrderInv
<1> QED BY <1>18, <1>19

\* Orders, items and invoices are followed, customers are not.
LEMMA LivedAre == "Order" \in Lived /\ "Customer" \notin Lived /\ "Item" \in Lived /\ "Invoice" \in Lived
BY DEF Lived

\* What is known while an order is under way.
LEMMA OrderFacts ==
  ASSUME WorldInv, OrderInv, order # Unset
  PROVE  /\ Wider(world)
         /\ order \in UnderWay /\ order.k = count /\ order.packed <= order.n
         /\ OrderId(order.k) \in DOMAIN world.types /\ TypeName(OrderId(order.k)) = "Order"
         /\ order.customer \in DOMAIN world.types /\ TypeName(order.customer) = "Customer"
         /\ \A j \in 1..order.n : Item(order.k, j) \in DOMAIN world.types /\ TypeName(Item(order.k, j)) = "Item"
         /\ Untouched(world, order.k, order.packed, order.stage)
         /\ order.n > 0 \/ order.stage \in {"placed", "picking"}
<1>1. order \in UnderWay /\ order.customer \in Customers
  BY DEF OrderInv, UnderWay
<1>2. Wider(world)
  BY DEF Wider, WorldInv
<1>3. order.customer \in DOMAIN world.types
  BY <1>1 DEF WorldInv
<1> QED BY <1>1, <1>2, <1>3, Names DEF OrderInv

\* The objects of an order's own links, an item and the order, or less.
LEMMA OwnIs ==
  ASSUME NEW k, NEW links, \A l \in links : \/ l[2] = OrderId(k) \/ l[2] = InvoiceId(k) \/ TypeName(l[2]) = "Customer"
                                            \/ \E j : l[2] = Item(k, j)
  PROVE  Own(links, k)
<1>1. SUFFICES ASSUME NEW l \in links
               PROVE  (TypeName(l[2]) \in Lived => l[2][2] = k) /\ (TypeName(l[2]) = "Order" => l[2] = OrderId(k))
  BY DEF Own
<1>2. CASE l[2] = OrderId(k)
  BY <1>2, Names
<1>3. CASE l[2] = InvoiceId(k)
  BY <1>3, Names
<1>4. CASE TypeName(l[2]) = "Customer"
  BY <1>4, LivedAre
<1>5. CASE \E j : l[2] = Item(k, j)
  BY <1>5, Names
<1> QED BY <1>2, <1>3, <1>4, <1>5

\* What did not happen to an object yet does not have to come after what happens now.
LEMMA FreeIs ==
  ASSUME NEW w, NEW k, NEW p, NEW stage, Untouched(w, k, p, stage), NEW type, NEW o, TypeName(o) \in Lived, o[2] = k,
         \A t : Past(t, stage) => <<type, t>> \notin Lifecycle(TypeName(o))
  PROVE  \A i \in 1..Len(w.events) : Touches(w, i, o) => <<type, w.events[i].type>> \notin Lifecycle(TypeName(o))
BY DEF Untouched

\* An order that is carried on, from a stage to the next.
Goes(r, q, d, packed, next) ==
  /\ q \in UnderWay
  /\ q.k = r.k /\ q.customer = r.customer /\ q.n = r.n
  /\ q.packed = packed /\ q.t = r.t + d /\ q.stage = next

\* The fields of an order that goes to its next stage.
LEMMA StageIs ==
  ASSUME NEW r \in UnderWay, NEW d \in Int, NEW next \in Stages, NEW q, q = [r EXCEPT !.stage = next, !.t = @ + d]
  PROVE  Goes(r, q, d, r.packed, next)
<1>1. r.t + d \in Int
  BY DEF UnderWay
<1>2. q \in UnderWay
  BY <1>1 DEF UnderWay
<1>3. q.k = r.k /\ q.customer = r.customer /\ q.n = r.n
  BY DEF UnderWay
<1>4. q.packed = r.packed /\ q.t = r.t + d /\ q.stage = next
  BY DEF UnderWay
<1> QED BY <1>2, <1>3, <1>4 DEF Goes

\* The fields of an order one item of which is packed.
LEMMA PackIs ==
  ASSUME NEW r \in UnderWay, NEW d \in Int, NEW next \in Stages, NEW q,
         q = [r EXCEPT !.stage = next, !.t = @ + d, !.packed = @ + 1]
  PROVE  Goes(r, q, d, r.packed + 1, next)
<1>1. r.t + d \in Int /\ r.packed + 1 \in Nat
  BY DEF UnderWay
<1>2. q \in UnderWay
  BY <1>1 DEF UnderWay
<1>3. q.k = r.k /\ q.customer = r.customer /\ q.n = r.n
  BY DEF UnderWay
<1>4. q.packed = r.packed + 1 /\ q.t = r.t + d /\ q.stage = next
  BY DEF UnderWay
<1> QED BY <1>2, <1>3, <1>4 DEF Goes

\* Confirming an order.
LEMMA ConfirmKeeps ==
  ASSUME WorldInv, OrderInv, NEW d \in config.ticks, ConfirmOrder(d)
  PROVE  WorldInv' /\ OrderInv'
<1>1. PICK o, links : o = OrderId(order.k) /\ links = {<<"order", o>>}
  OBVIOUS
<1>2. order # Unset /\ order.stage = "placed"
  BY DEF ConfirmOrder, At
<1>3. /\ world' = Emit(world, "ConfirmOrder", order.t + d, links)
      /\ order' = [order EXCEPT !.stage = "picking", !.t = @ + d] /\ UNCHANGED <<config, clock, count>>
  BY <1>1 DEF ConfirmOrder, Stage, ThisOrder
<1>4. d \in Int
  BY WorldAssumption DEF WorldInv
<1>5. /\ Wider(world) /\ order \in UnderWay /\ order.packed <= order.n
      /\ o \in DOMAIN world.types /\ TypeName(o) = "Order"
      /\ Untouched(world, order.k, order.packed, order.stage)
  BY <1>1, <1>2, OrderFacts
<1>6. /\ order' \in UnderWay /\ order'.k = order.k /\ order'.n = order.n
      /\ order'.packed = order.packed /\ order'.t = order.t + d /\ order'.stage = "picking"
  <2>1. "picking" \in Stages /\ order \in UnderWay
    BY <1>5 DEF Stages
  <2>2. Goes(order, order', d, order.packed, "picking")
    BY <1>3, <1>4, <2>1, StageIs
  <2> QED BY <2>2 DEF Goes
<1>7. Serves(world, "ConfirmOrder", links)
  BY <1>1, <1>5, Served
<1>8. Own(links, order.k)
  BY <1>1, OwnIs
<1>9. Free(world, "ConfirmOrder", links)
  <2>1. \A t : Past(t, "placed") => <<"ConfirmOrder", t>> \notin Lifecycle("Order")
    BY LifecycleIs DEF Past
  <2>2. o[2] = order.k /\ TypeName(o) \in Lived
    BY <1>1, <1>5, LivedAre, Names
  <2>3. \A i \in 1..Len(world.events) : Touches(world, i, o) => <<"ConfirmOrder", world.events[i].type>> \notin Lifecycle("Order")
    BY <1>2, <1>5, <2>1, <2>2, FreeIs
  <2> QED BY <1>1, <1>5, <2>3 DEF Free
<1>10. Touching("ConfirmOrder", links, order.k, order'.packed, order'.stage) /\ Advances(order.stage, order'.stage)
  BY <1>2, <1>6, StagesAdvance DEF Touching, Past
<1>11. "ConfirmOrder" \in EventTypes /\ order.packed <= order'.packed
  BY <1>5, <1>6 DEF EventTypes, UnderWay
<1> QED BY <1>2, <1>3, <1>5, <1>6, <1>7, <1>8, <1>9, <1>10, <1>11, Emits

\* Picking its next item.
LEMMA PickKeeps ==
  ASSUME WorldInv, OrderInv, NEW d \in config.ticks, PickItem(d)
  PROVE  WorldInv' /\ OrderInv'
<1>1. PICK o, j, i, links : o = OrderId(order.k) /\ j = order.packed + 1 /\ i = Item(order.k, j)
                            /\ links = {<<"item", i>>, <<"order", o>>}
  OBVIOUS
<1>2. order # Unset /\ order.stage = "picking" /\ order.packed < order.n
  BY DEF PickItem, At
<1>3. /\ world' = Emit(world, "PickItem", order.t + d, links)
      /\ order' = [order EXCEPT !.stage = "packing", !.t = @ + d] /\ UNCHANGED <<config, clock, count>>
  BY <1>1 DEF PickItem, Stage, ThisOrder, ThisItem
<1>4. d \in Int
  BY WorldAssumption DEF WorldInv
<1>5. /\ Wider(world) /\ order \in UnderWay /\ order.packed <= order.n /\ order.packed \in Nat /\ order.n \in Nat
      /\ o \in DOMAIN world.types /\ TypeName(o) = "Order"
      /\ Untouched(world, order.k, order.packed, order.stage)
  BY <1>1, <1>2, OrderFacts DEF UnderWay
<1>6. /\ order' \in UnderWay /\ order'.k = order.k /\ order'.n = order.n
      /\ order'.packed = order.packed /\ order'.t = order.t + d /\ order'.stage = "packing"
  <2>1. "packing" \in Stages /\ order \in UnderWay
    BY <1>5 DEF Stages
  <2>2. Goes(order, order', d, order.packed, "packing")
    BY <1>3, <1>4, <2>1, StageIs
  <2> QED BY <2>2 DEF Goes
<1>7. i \in DOMAIN world.types /\ TypeName(i) = "Item" /\ j \in 1..order.n
  BY <1>1, <1>2, <1>5, OrderFacts
<1>8. Serves(world, "PickItem", links)
  BY <1>1, <1>5, <1>7, Served
<1>9. Own(links, order.k)
  BY <1>1, OwnIs
<1>10. Free(world, "PickItem", links)
  <2>1. ASSUME NEW m \in 1..Len(world.events), Touches(world, m, i)
        PROVE  <<"PickItem", world.events[m].type>> \notin Lifecycle("Item")
    <3>1. j \in Nat /\ ~ (j <= order.packed)
      BY <1>1, <1>5
    <3>2. world.events[m].type # "PackItem"
      BY <1>1, <1>5, <2>1, <3>1 DEF Untouched
    <3> QED BY <3>2, LifecycleIs
  <2> QED BY <1>1, <1>5, <1>7, <2>1, LifecycleIs DEF Free
<1>11. Touching("PickItem", links, order.k, order'.packed, order'.stage) /\ Advances(order.stage, order'.stage)
  BY <1>2, <1>6, StagesAdvance DEF Touching, Past
<1>12. "PickItem" \in EventTypes /\ order.packed <= order'.packed /\ order.n > 0
  BY <1>2, <1>5, <1>6 DEF EventTypes
<1> QED BY <1>2, <1>3, <1>5, <1>6, <1>8, <1>9, <1>10, <1>11, <1>12, Emits

\* Packing its next item; each item is picked before it is packed.
LEMMA PackKeeps ==
  ASSUME WorldInv, OrderInv, NEW d \in config.ticks, PackItem(d)
  PROVE  WorldInv' /\ OrderInv'
<1>1. PICK o, j, i, links : o = OrderId(order.k) /\ j = order.packed + 1 /\ i = Item(order.k, j)
                            /\ links = {<<"item", i>>, <<"order", o>>}
  OBVIOUS
<1>2. order # Unset /\ order.stage = "packing"
  BY DEF PackItem, At
<1>3. /\ world' = Emit(world, "PackItem", order.t + d, links)
      /\ order' = [order EXCEPT !.stage = "picking", !.t = @ + d, !.packed = @ + 1] /\ UNCHANGED <<config, clock, count>>
  BY <1>1 DEF PackItem, ThisOrder, ThisItem
<1>4. d \in Int
  BY WorldAssumption DEF WorldInv
<1>5. /\ Wider(world) /\ order \in UnderWay /\ order.packed < order.n /\ order.packed \in Nat /\ order.n \in Nat
      /\ o \in DOMAIN world.types /\ TypeName(o) = "Order"
      /\ Untouched(world, order.k, order.packed, order.stage)
  BY <1>1, <1>2, OrderFacts DEF UnderWay, OrderInv
<1>6. /\ order' \in UnderWay /\ order'.k = order.k /\ order'.n = order.n
      /\ order'.packed = order.packed + 1 /\ order'.t = order.t + d /\ order'.stage = "picking"
  <2>1. "picking" \in Stages /\ order \in UnderWay
    BY <1>5 DEF Stages
  <2>2. Goes(order, order', d, order.packed + 1, "picking")
    BY <1>3, <1>4, <2>1, PackIs
  <2> QED BY <2>2 DEF Goes
<1>7. i \in DOMAIN world.types /\ TypeName(i) = "Item" /\ j \in 1..order.n /\ i[2] = order.k /\ o[2] = order.k
  BY <1>1, <1>2, <1>5, OrderFacts, Names
<1>8. Serves(world, "PackItem", links)
  BY <1>1, <1>5, <1>7, Served
<1>9. Own(links, order.k)
  BY <1>1, OwnIs
<1>10. Free(world, "PackItem", links)
  <2>1. \A t : Past(t, "packing") => <<"PackItem", t>> \notin Lifecycle("Order") /\ <<"PackItem", t>> \notin Lifecycle("Item")
    BY LifecycleIs DEF Past
  <2>2. \A m \in 1..Len(world.events) : Touches(world, m, o) => <<"PackItem", world.events[m].type>> \notin Lifecycle("Order")
    BY <1>2, <1>5, <1>7, <2>1, FreeIs, LivedAre
  <2>3. \A m \in 1..Len(world.events) : Touches(world, m, i) => <<"PackItem", world.events[m].type>> \notin Lifecycle("Item")
    BY <1>2, <1>5, <1>7, <2>1, FreeIs, LivedAre
  <2> QED BY <1>1, <1>5, <1>7, <2>2, <2>3 DEF Free
<1>11. Touching("PackItem", links, order.k, order'.packed, order'.stage)
  <2>1. ASSUME NEW l \in links, NEW a \in Nat, l[2] = Item(order.k, a) PROVE a <= order'.packed
    <3>1. OrderId(order.k) # Item(order.k, a)
      <4>1. TypeName(OrderId(order.k)) = "Order" /\ TypeName(Item(order.k, a)) = "Item"
        BY Names
      <4> QED BY <4>1
    <3>2. Item(order.k, a) = Item(order.k, j)
      BY <1>1, <2>1, <3>1
    <3>3. Item(order.k, a)[3] = a /\ Item(order.k, j)[3] = j
      BY Names
    <3>4. a = j
      BY <3>2, <3>3
    <3> QED BY <1>1, <1>5, <1>6, <3>4
  <2>2. Past("PackItem", order'.stage)
    BY DEF Past
  <2> QED BY <2>1, <2>2 DEF Touching
<1>12. Advances(order.stage, order'.stage) /\ order.n > 0
  BY <1>2, <1>5, <1>6, StagesAdvance
<1>13. "PackItem" \in EventTypes /\ order.packed <= order'.packed /\ order'.packed <= order'.n
  BY <1>5, <1>6 DEF EventTypes
<1> QED BY <1>2, <1>3, <1>5, <1>6, <1>8, <1>9, <1>10, <1>11, <1>12, <1>13, Emits

\* Shipping it, once all of its items are packed.
LEMMA ShipKeeps ==
  ASSUME WorldInv, OrderInv, NEW d \in config.ticks, Ship(d)
  PROVE  WorldInv' /\ OrderInv'
<1>1. PICK o, n, links : o = OrderId(order.k) /\ n = order.packed
                         /\ links = {<<"order", o>>} \union {<<"item", i>> : i \in Items(order.k, n)}
  OBVIOUS
<1>2. order # Unset /\ order.stage = "picking" /\ order.packed > 0
  BY DEF Ship, MayShip, At
<1>3. /\ world' = Emit(world, "Ship", order.t + d, links)
      /\ order' = [order EXCEPT !.stage = "shipped", !.t = @ + d] /\ UNCHANGED <<config, clock, count>>
  BY <1>1 DEF Ship, Stage, ThisOrder
<1>4. d \in Int
  BY WorldAssumption DEF WorldInv
<1>5. /\ Wider(world) /\ order \in UnderWay /\ order.packed <= order.n /\ order.packed \in Nat /\ order.n \in Nat
      /\ o \in DOMAIN world.types /\ TypeName(o) = "Order" /\ o[2] = order.k
      /\ Untouched(world, order.k, order.packed, order.stage)
  BY <1>1, <1>2, OrderFacts, Names DEF UnderWay
<1>6. /\ order' \in UnderWay /\ order'.k = order.k /\ order'.n = order.n
      /\ order'.packed = order.packed /\ order'.t = order.t + d /\ order'.stage = "shipped"
  <2>1. "shipped" \in Stages /\ order \in UnderWay
    BY <1>5 DEF Stages
  <2>2. Goes(order, order', d, order.packed, "shipped")
    BY <1>3, <1>4, <2>1, StageIs
  <2> QED BY <2>2 DEF Goes
<1>7. \A j \in 1..n : Item(order.k, j) \in DOMAIN world.types
  BY <1>1, <1>2, <1>5, OrderFacts
<1>8. Serves(world, "Ship", links)
  <2>1. n \in Nat \ {0}
    BY <1>1, <1>2, <1>5
  <2> QED BY <1>1, <1>5, <1>7, <2>1, ServedShip
<1>9. ASSUME NEW l \in links PROVE l[2] = o \/ \E j : l[2] = Item(order.k, j)
  BY <1>1 DEF Items
<1>10. Own(links, order.k)
  BY <1>1, <1>9, OwnIs
<1>11. Free(world, "Ship", links)
  <2>1. \A t : Past(t, "picking") => <<"Ship", t>> \notin Lifecycle("Order")
    BY LifecycleIs DEF Past
  <2>2. \A m \in 1..Len(world.events) : Touches(world, m, o) => <<"Ship", world.events[m].type>> \notin Lifecycle("Order")
    BY <1>2, <1>5, <2>1, FreeIs, LivedAre
  <2>3. \A j : TypeName(Item(order.k, j)) = "Item"
    BY Names
  <2> QED BY <1>5, <1>9, <2>2, <2>3, LifecycleIs DEF Free
<1>12. Touching("Ship", links, order.k, order'.packed, order'.stage) /\ Advances(order.stage, order'.stage)
  BY <1>2, <1>6, StagesAdvance DEF Touching, Past
<1>13. "Ship" \in EventTypes /\ order.packed <= order'.packed /\ order.n > 0
  BY <1>2, <1>5, <1>6 DEF EventTypes
<1> QED BY <1>2, <1>3, <1>5, <1>6, <1>8, <1>10, <1>11, <1>12, <1>13, Emits

\* Invoicing it: the invoice is a new object.
LEMMA InvoiceKeeps ==
  ASSUME WorldInv, OrderInv, NEW d \in config.ticks, Invoice(d)
  PROVE  WorldInv' /\ OrderInv'
<1>1. PICK o, v, c, links, ls, w, a, b :
        /\ o = OrderId(order.k) /\ v = InvoiceId(order.k) /\ links = {<<"order", o>>, <<"invoice", v>>}
        /\ c = order.customer /\ a = <<v, "billed_to", c>> /\ b = <<v, "for_order", o>> /\ ls = {a, b}
        /\ w = WithObjects(world, {v}, "Invoice", ls)
  OBVIOUS
<1>2. order # Unset /\ order.stage = "shipped"
  BY DEF Invoice, At
<1>3. /\ world' = Emit(w, "Invoice", order.t + d, links)
      /\ order' = [order EXCEPT !.stage = "invoiced", !.t = @ + d] /\ UNCHANGED <<config, clock, count>>
  BY <1>1 DEF Invoice, ThisOrder
<1>4. d \in Int
  BY WorldAssumption DEF WorldInv
<1>5. /\ WellMade(world) /\ order \in UnderWay /\ order.packed <= order.n /\ order.packed \in Nat /\ order.n \in Nat
      /\ o \in DOMAIN world.types /\ TypeName(o) = "Order" /\ o[2] = order.k
      /\ c \in DOMAIN world.types /\ TypeName(c) = "Customer"
      /\ Untouched(world, order.k, order.packed, order.stage)
      /\ NotInvoiced(world, order.k) /\ order.n > 0
  BY <1>1, <1>2, OrderFacts, Names DEF UnderWay, Wider, OrderInv
<1>6. /\ order' \in UnderWay /\ order'.k = order.k /\ order'.n = order.n
      /\ order'.packed = order.packed /\ order'.t = order.t + d /\ order'.stage = "invoiced"
  <2>1. "invoiced" \in Stages /\ order \in UnderWay
    BY <1>5 DEF Stages
  <2>2. Goes(order, order', d, order.packed, "invoiced")
    BY <1>3, <1>4, <2>1, StageIs
  <2> QED BY <2>2 DEF Goes
<1>7. TypeName(v) = "Invoice" /\ v[2] = order.k
  BY <1>1, Names
<1>8. Joined(world, w, {v}, ls)
  <2>1. IsFiniteSet(ls)
    <3>1. IsFiniteSet({a}) /\ IsFiniteSet({b}) /\ ls = {a} \union {b}
      BY <1>1, FS_Singleton
    <3> QED BY <3>1, FS_Union
  <2>2. FitsObjects(a) /\ FitsObjects(b)
    BY <1>1, <1>5, <1>7, ObjectSignatures
  <2>3. a[1] = v /\ a[3] = c /\ b[1] = v /\ b[3] = o
    BY <1>1
  <2>4. Joining(world, {v}, "Invoice", ls)
    BY <1>1, <1>5, <1>7, <2>1, <2>2, <2>3 DEF Joining
  <2> QED BY <1>1, <1>5, <2>4, ObjectsSound
<1>f. FurnishedAt(config, w, v)
  <2>1. SUFFICES ASSUME NEW s \in O2OQualifiers, s.type = "Invoice"
                 PROVE  (\A l, m \in ObjectLinks(w, v, s) : l = m) /\ ObjectLinks(w, v, s) # {}
    BY <1>7 DEF FurnishedAt
  <2>2. /\ a[1] = v /\ a[2] = "billed_to" /\ a[3] = c /\ b[1] = v /\ b[2] = "for_order" /\ b[3] = o
        /\ "billed_to" # "for_order"
    BY <1>1
  <2>3. w.o2o = world.o2o \union {a, b}
    BY <1>1, <1>8 DEF Joined
  <2>4. \A l \in w.o2o : l[1] = v => l = a \/ l = b
    BY <1>1, <1>5, <2>3 DEF NotInvoiced
  <2>5. CASE s.qualifier = "billed_to" /\ s.object = "Customer"
    <3>1. a \in ObjectLinks(w, v, s)
      BY <1>5, <2>2, <2>3, <2>5 DEF ObjectLinks
    <3>2. \A l \in ObjectLinks(w, v, s) : l = a
      BY <2>2, <2>4, <2>5 DEF ObjectLinks
    <3> QED BY <3>1, <3>2
  <2>6. CASE s.qualifier = "for_order" /\ s.object = "Order"
    <3>1. b \in ObjectLinks(w, v, s)
      BY <1>5, <2>2, <2>3, <2>6 DEF ObjectLinks
    <3>2. \A l \in ObjectLinks(w, v, s) : l = b
      BY <2>2, <2>4, <2>6 DEF ObjectLinks
    <3> QED BY <3>1, <3>2
  <2> QED BY <2>1, <2>5, <2>6, ObjectSignatures
<1>g. Furnished(config, w)
  <2>1. /\ w.events = world.events /\ w.e2o = world.e2o /\ w.o2o = world.o2o \union ls
        /\ DOMAIN w.types \subseteq DOMAIN world.types \union {v}
    BY <1>8 DEF Joined
  <2>2. \A l \in ls : l[1] \in {v}
    BY <1>1
  <2>3. Furnished(config, world) /\ \A x \in {v} : FurnishedAt(config, w, x)
    BY <1>f DEF WorldInv
  <2>4. PICK news : news = {v}
    OBVIOUS
  <2> QED BY <2>1, <2>2, <2>3, <2>4, ObjectsFurnish
<1>h. Wider(w) /\ v \in DOMAIN w.types /\ o \in DOMAIN w.types
  <2>1. \A l \in w.o2o : l \in world.o2o \/ l[1] = InvoiceId(order.k)
    <3>1. w.o2o = world.o2o \union {a, b}
      BY <1>1, <1>8 DEF Joined
    <3>2. a[1] = v /\ b[1] = v
      BY <1>1
    <3> QED BY <1>1, <3>1, <3>2
  <2> QED BY <1>5, <1>8, <1>g, <2>1 DEF Wider, Joined
<1>9. Serves(w, "Invoice", links)
  BY <1>1, <1>5, <1>7, <1>h, Served
<1>10. Own(links, order.k)
  BY <1>1, OwnIs
<1>11. Free(world, "Invoice", links)
  <2>1. \A t : Past(t, "shipped") => <<"Invoice", t>> \notin Lifecycle("Invoice")
    BY LifecycleIs DEF Past
  <2>2. \A m \in 1..Len(world.events) : Touches(world, m, v) => <<"Invoice", world.events[m].type>> \notin Lifecycle("Invoice")
    BY <1>2, <1>5, <1>7, <2>1, FreeIs, LivedAre
  <2> QED BY <1>1, <1>5, <1>7, <2>2, LifecycleIs DEF Free
<1>12. Touching("Invoice", links, order.k, order'.packed, order'.stage) /\ Advances(order.stage, order'.stage)
  BY <1>2, <1>6, StagesAdvance DEF Touching, Past
<1>13. "Invoice" \in EventTypes /\ order.packed <= order'.packed /\ InvoiceId(order.k) \in DOMAIN w.types
  BY <1>1, <1>5, <1>6, <1>h DEF EventTypes
<1> QED BY <1>2, <1>3, <1>5, <1>6, <1>h, <1>9, <1>10, <1>11, <1>12, <1>13, Emits

\* Paying it, which its invoice comes before.
LEMMA PayKeeps ==
  ASSUME WorldInv, OrderInv, NEW d \in config.ticks, Pay(d)
  PROVE  WorldInv' /\ OrderInv'
<1>1. PICK v, c, links : v = InvoiceId(order.k) /\ c = order.customer /\ links = {<<"invoice", v>>, <<"customer", c>>}
  OBVIOUS
<1>2. order # Unset /\ order.stage = "invoiced"
  BY DEF Pay, At
<1>3. /\ world' = Emit(world, "Pay", order.t + d, links)
      /\ order' = [order EXCEPT !.stage = "paid", !.t = @ + d] /\ UNCHANGED <<config, clock, count>>
  BY <1>1 DEF Pay, Stage
<1>4. d \in Int
  BY WorldAssumption DEF WorldInv
<1>5. /\ Wider(world) /\ order \in UnderWay /\ order.packed <= order.n /\ order.packed \in Nat /\ order.n \in Nat
      /\ c \in DOMAIN world.types /\ TypeName(c) = "Customer" /\ v \in DOMAIN world.types /\ order.n > 0
  BY <1>1, <1>2, OrderFacts DEF UnderWay, OrderInv
<1>6. /\ order' \in UnderWay /\ order'.k = order.k /\ order'.n = order.n
      /\ order'.packed = order.packed /\ order'.t = order.t + d /\ order'.stage = "paid"
  <2>1. "paid" \in Stages /\ order \in UnderWay
    BY <1>5 DEF Stages
  <2>2. Goes(order, order', d, order.packed, "paid")
    BY <1>3, <1>4, <2>1, StageIs
  <2> QED BY <2>2 DEF Goes
<1>7. TypeName(v) = "Invoice" /\ v[2] = order.k
  BY <1>1, Names
<1>8. Serves(world, "Pay", links)
  BY <1>1, <1>5, <1>7, ServedPay
<1>9. Own(links, order.k)
  BY <1>1, <1>5, OwnIs
<1>10. Free(world, "Pay", links)
  BY <1>1, <1>5, <1>7, LivedAre, LifecycleIs DEF Free
<1>11. Touching("Pay", links, order.k, order'.packed, order'.stage) /\ Advances(order.stage, order'.stage)
  BY <1>2, <1>6, StagesAdvance DEF Touching, Past
<1>12. "Pay" \in EventTypes /\ order.packed <= order'.packed
  BY <1>5, <1>6 DEF EventTypes
<1> QED BY <1>2, <1>3, <1>5, <1>6, <1>8, <1>9, <1>10, <1>11, <1>12, Emits

\* Placing the next order, whose names nothing has used.
LEMMA PlaceKeeps ==
  ASSUME WorldInv, OrderInv, NEW d \in config.ticks, NEW c \in Customers, NEW n \in config.items, PlaceOrder(c, n, d)
  PROVE  WorldInv' /\ OrderInv'
<1>1. PICK k, o, is, u, w, ls, links, at, news :
        /\ k = count + 1 /\ o = OrderId(k) /\ is = Items(k, n) /\ ls = {<<o, "contains", i>> : i \in is}
        /\ u = WithObjects(world, {o}, "Order", {}) /\ w = WithObjects(u, is, "Item", ls)
        /\ links = {<<"order", o>>, <<"customer", c>>} /\ at = clock + d /\ news = {o} \union is
  OBVIOUS
<1>2. /\ world' = Emit(w, "PlaceOrder", at, links)
      /\ order' = [k |-> k, customer |-> c, n |-> n, packed |-> 0, stage |-> "placed", t |-> at]
      /\ count' = k /\ clock' = at /\ UNCHANGED config
  BY <1>1 DEF PlaceOrder
<1>3. d \in Int /\ n \in Nat /\ at \in Int /\ k \in Nat /\ count \in Nat
  <2>1. config.ticks \subseteq Int /\ config.items \subseteq Nat
    BY WorldAssumption DEF WorldInv
  <2> QED BY <1>1, <2>1 DEF WorldInv
<1>4. /\ TypeName(o) = "Order" /\ o[2] = k /\ TypeName(c) = "Customer" /\ c \in DOMAIN world.types
      /\ \A i \in is : TypeName(i) = "Item"
  BY <1>1, Names DEF WorldInv, Items
<1>5. /\ WellMade(u) /\ u.events = world.events /\ u.e2o = world.e2o /\ u.o2o = world.o2o
      /\ DOMAIN u.types = DOMAIN world.types \union {o}
  <2>1. Joining(world, {o}, "Order", {})
    BY <1>4, FS_EmptySet DEF Joining
  <2>2. Joined(world, u, {o}, {})
    BY <1>1, <2>1, ObjectsSound DEF WorldInv
  <2> QED BY <2>2 DEF Joined
<1>6. /\ WellMade(w) /\ w.events = world.events /\ w.e2o = world.e2o /\ w.o2o = world.o2o \union ls
      /\ DOMAIN w.types = DOMAIN world.types \union {o} \union is
  <2>1. ASSUME NEW l \in ls
        PROVE  /\ l[1] \in DOMAIN u.types \union is /\ l[3] \in DOMAIN u.types \union is /\ FitsObjects(l)
    <3>1. PICK i \in is : l = <<o, "contains", i>>
      BY <1>1
    <3> QED BY <1>4, <1>5, <3>1, ObjectSignatures
  <2>2. IsFiniteSet(ls)
    <3>1. PICK f, S : f = [j \in 1..n |-> <<o, "contains", Item(k, j)>>] /\ S = {f[j] : j \in 1..n}
      OBVIOUS
    <3>2. f \in Surjection(1..n, S)
      BY <3>1 DEF Surjection
    <3>3. IsFiniteSet(S)
      BY <1>3, <3>2, FS_Interval, FS_Surjection
    <3>4. ls = S
      BY <1>1, <3>1 DEF Items
    <3> QED BY <3>3, <3>4
  <2>3. Joining(u, is, "Item", ls)
    BY <1>4, <2>1, <2>2 DEF Joining
  <2>4. Joined(u, w, is, ls)
    BY <1>1, <1>5, <2>3, ObjectsSound
  <2> QED BY <1>5, <2>4 DEF Joined
<1>7. Shaped(w) /\ "PlaceOrder" \in EventTypes
  BY <1>6 DEF WellMade, EventTypes
<1>8. Grows(w, world', "PlaceOrder", at, links)
  BY <1>2, <1>3, <1>7, EmitGrows
<1>9. Serves(w, "PlaceOrder", links)
  BY <1>1, <1>4, <1>6, Served
<1>10. WellMade(world')
  BY <1>3, <1>6, <1>7, <1>8, <1>9, GrowsSoundly
<1>11. /\ world'.types = w.types /\ world'.o2o = w.o2o
       /\ world'.e2o = world.e2o \union {<<Real(Len(world.events) + 1), l[1], l[2]>> : l \in links}
  BY <1>6, <1>8 DEF Grows
<1>12. ASSUME NEW x, TypeName(x) \in Lived, x[2] = k, NEW i PROVE ~ Touches(world, i, x) /\ ~ Touches(w, i, x)
  <2>1. \A l \in world.e2o : l[3] # x
    BY <1>1, <1>3, <1>12 DEF WorldInv
  <2> QED BY <1>6, <2>1 DEF Touches
<1>13. \A l \in world'.e2o : TypeName(l[3]) \in Lived => l[3][2] \in Nat /\ l[3][2] <= k
  <2> TAKE l \in world'.e2o
  <2>1. CASE l \in world.e2o
    BY <1>1, <1>3, <2>1 DEF WorldInv
  <2>2. CASE l \notin world.e2o
    <3>1. PICK m \in links : l = <<Real(Len(world.events) + 1), m[1], m[2]>>
      BY <1>11, <2>2
    <3>2. l[3] = m[2] /\ (m[2] = o \/ m[2] = c)
      BY <1>1, <3>1
    <3> QED BY <1>3, <1>4, <3>2, LivedAre
  <2> QED BY <2>1, <2>2
<1>14. \A l \in world'.o2o : l[1][2] \in Nat /\ l[1][2] <= k
  <2> TAKE l \in world'.o2o
  <2>1. CASE l \in world.o2o
    BY <1>1, <1>3, <2>1 DEF WorldInv
  <2>2. CASE l \in ls
    <3>1. l[1] = o
      BY <1>1, <2>2
    <3> QED BY <1>3, <1>4, <3>1
  <2> QED BY <1>6, <1>11, <2>1, <2>2
<1>15. Behind(config, world', k, at) /\ LastAt(world', at)
  <2>1. PICK m \in Nat : m = Len(w.events) /\ Len(world'.events) = m + 1
                         /\ world'.events[m + 1] = [type |-> "PlaceOrder", time |-> at]
    BY <1>8 DEF Grows
  <2>2. ASSUME NEW x, TypeName(x) \in Lived, x[2] = k, NEW i \in 1..m + 1, Touches(world', i, x)
        PROVE  i = m + 1
    <3>1. i \in 1..m => (Touches(world', i, x) <=> Touches(w, i, x))
      BY <1>7, <1>8, <2>1, GrownTouches
    <3> QED BY <1>12, <2>1, <2>2, <3>1
  <2>3. Behind(config, world', k, at)
    BY <1>3, <2>1, <2>2 DEF Behind
  <2>4. LastAt(world', at)
    BY <2>1 DEF LastAt
  <2> QED BY <2>3, <2>4
<1>16. Traced(config, world')
  <2>1. Traced(config, world)
    BY DEF WorldInv
  <2>2. Traced(config, w)
    <3>1. \A i, j : Back(config, w, i, j) <=> Back(config, world, i, j)
      BY <1>6 DEF Back
    <3>2. \A i, x : Touches(w, i, x) <=> Touches(world, i, x)
      BY <1>6 DEF Touches
    <3> QED BY <1>6, <2>1, <3>1, <3>2 DEF Traced
  <2>3. Own(links, k)
    BY <1>1, <1>4, OwnIs
  <2>4. Free(w, "PlaceOrder", links)
    <3>1. \A l \in links : TypeName(l[2]) \in Lived => l[2][2] = k
      BY <2>3 DEF Own
    <3> QED BY <1>12, <3>1 DEF Free
  <2> QED BY <1>7, <1>8, <1>15, <2>2, <2>3, <2>4, GrowsTraced
<1>17. Furnished(config, world')
  <2>1. FurnishedAt(config, w, o)
    <3>1. SUFFICES ASSUME NEW s \in O2OQualifiers, s.type = "Order"
                   PROVE  s.many = TRUE /\ (ObjectLinks(w, o, s) # {} \/ Empty(config, w, o))
      BY <1>4 DEF FurnishedAt
    <3>2. s.qualifier = "contains" /\ s.object = "Item" /\ s.many = TRUE
      BY <3>1, ObjectSignatures
    <3>3. CASE n = 0
      <4>1. \A i : ~ Touches(w, i, o)
        BY <1>4, <1>12, LivedAre
      <4> QED BY <1>4, <3>2, <3>3, <4>1 DEF Empty
    <3>4. CASE n > 0
      <4>1. 1 \in 1..n
        BY <1>3, <3>4
      <4>2. PICK i, x : i = Item(k, 1) /\ x = <<o, "contains", i>>
        OBVIOUS
      <4>3. i \in is
        BY <1>1, <4>1, <4>2 DEF Items
      <4>6. x \in ls
        BY <1>1, <4>2, <4>3
      <4>7. x \in w.o2o
        BY <1>6, <4>6
      <4>4. x[1] = o /\ x[2] = s.qualifier /\ TypeName(x[3]) = s.object
        BY <1>4, <3>2, <4>2, <4>3
      <4>5. x \in ObjectLinks(w, o, s)
        BY <4>4, <4>7 DEF ObjectLinks
      <4> QED BY <3>2, <4>5
    <3>5. n = 0 \/ n > 0
      BY <1>3
    <3> QED BY <3>3, <3>4, <3>5
  <2>2. ASSUME NEW i \in is PROVE FurnishedAt(config, w, i)
    BY <1>4, ObjectSignatures DEF FurnishedAt
  <2>3. \A x \in news : FurnishedAt(config, w, x)
    BY <1>1, <2>1, <2>2
  <2>4. \A l \in ls : l[1] \in news
    BY <1>1
  <2>5. DOMAIN w.types \subseteq DOMAIN world.types \union news
    BY <1>1, <1>6
  <2>6. Furnished(config, world)
    BY DEF WorldInv
  <2>7. Furnished(config, w)
    BY <1>6, <2>3, <2>4, <2>5, <2>6, ObjectsFurnish
  <2>8. Spares(w, "PlaceOrder", links)
    BY DEF Spares
  <2> QED BY <1>7, <1>8, <2>7, <2>8, GrowsFurnished
<1>18. WorldInv'
  <2>1. Customers \subseteq DOMAIN world'.types
    BY <1>6, <1>11 DEF WorldInv
  <2>2. config' \in Configs /\ Customers' = Customers
    BY <1>2 DEF WorldInv, Customers
  <2>3. Traced(config', world') /\ Furnished(config', world')
    BY <1>2, <1>16, <1>17
  <2> QED BY <1>2, <1>3, <1>10, <1>13, <1>14, <2>1, <2>2, <2>3 DEF WorldInv
<1>19. OrderInv'
  <2>1. /\ order'.k = k /\ order'.customer = c /\ order'.n = n /\ order'.packed = 0
        /\ order'.stage = "placed" /\ order'.t = at
    BY <1>2
  <2>2. order' \in UnderWay'
    BY <1>2, <1>3 DEF UnderWay, Stages, Customers
  <2>3. OrderId(k) \in DOMAIN world'.types /\ \A j \in 1..n : Item(k, j) \in DOMAIN world'.types
    BY <1>1, <1>6, <1>11 DEF Items
  <2>4. HasItems(world', k, n)
    BY <1>1, <1>6, <1>11 DEF Items, HasItems
  <2>5. NotInvoiced(world', k)
    <3>1. ASSUME NEW l \in world.o2o PROVE l[1] # InvoiceId(k)
      <4>1. l[1][2] \in Nat /\ l[1][2] <= count
        BY DEF WorldInv
      <4>2. InvoiceId(k)[2] = k
        BY Names
      <4> QED BY <1>1, <1>3, <4>1, <4>2
    <3>2. ASSUME NEW l \in ls PROVE l[1] # InvoiceId(k)
      <4>1. l[1] = o
        BY <1>1
      <4>2. TypeName(InvoiceId(k)) = "Invoice"
        BY Names
      <4> QED BY <1>4, <4>1, <4>2
    <3> QED BY <1>6, <1>11, <3>1, <3>2 DEF NotInvoiced
  <2>6. Untouched(world', k, 0, "placed")
    <3>1. PICK m \in Nat : m = Len(w.events) /\ Len(world'.events) = m + 1
                           /\ world'.events[m + 1] = [type |-> "PlaceOrder", time |-> at]
      BY <1>8 DEF Grows
    <3>2. ASSUME NEW x, TypeName(x) \in Lived, x[2] = k, NEW i \in 1..m + 1, Touches(world', i, x)
          PROVE  world'.events[i].type = "PlaceOrder"
      <4>1. i \in 1..m => (Touches(world', i, x) <=> Touches(w, i, x))
        BY <1>7, <1>8, <3>1, GrownTouches
      <4>2. i = m + 1
        BY <1>12, <3>1, <3>2, <4>1
      <4> QED BY <3>1, <4>2
    <3>3. \A j : TypeName(Item(k, j)) \in Lived /\ Item(k, j)[2] = k
      BY Names, LivedAre
    <3>4. Past("PlaceOrder", "placed")
      BY DEF Past
    <3> QED BY <3>1, <3>2, <3>3, <3>4 DEF Untouched
  <2>7. Behind(config', world', k, at)
    BY <1>2, <1>15
  <2> QED BY <1>2, <1>3, <1>15, <2>1, <2>2, <2>3, <2>4, <2>5, <2>6, <2>7 DEF OrderInv
<1> QED BY <1>18, <1>19

\* The event a name stands for.
LEMMA EventIs == \A w, i : EventOf(w, Real(i)) = w.events[i]
BY DEF EventOf, Real

\* A set of links, one or many as a signature with at least one asks for.
LEMMA AllowsIs ==
  ASSUME NEW s, s.least = 1, NEW L, IsFiniteSet(L), L # {}, s.many \/ \A l, m \in L : l = m
  PROVE  Allows(s, L)
<1>1. Cardinality(L) \in Nat /\ Cardinality(L) # 0
  BY FS_CardinalityType, FS_EmptySet
<1>2. CASE \A l, m \in L : l = m
  <2>1. PICK l : l \in L /\ L = {l}
    BY <1>2
  <2>2. Cardinality(L) = 1
    BY <2>1, FS_Singleton
  <2> QED BY <2>2 DEF Allows
<1>3. CASE s.many
  BY <1>1, <1>3 DEF Allows
<1> QED BY <1>2, <1>3

\* A sound world is legal, has what it should have, and is in order.
LEMMA SoundIsLegal ==
  ASSUME WorldInv PROVE LinksLegal /\ EventsComplete /\ ObjectsComplete /\ TracesOrdered
<1>1. Shaped(world) /\ Lawful(world) /\ Complete(world)
  BY DEF WorldInv, WellMade
<1>2. PICK n \in Nat : n = Len(world.events) /\ DOMAIN world.events = 1..n
  BY <1>1, LenProperties DEF Shaped
<1>t. \A o \in DOMAIN world.types : world.types[o] = TypeName(o)
  BY <1>1 DEF Shaped
<1>3. LinksLegal
  <2>1. ASSUME NEW l \in world.e2o
        PROVE  \E s \in E2OQualifiers : /\ s.type = EventOf(world, l[1]).type
                                        /\ s.qualifier = l[2] /\ s.object = world.types[l[3]]
    <3>1. PICK i \in 1..n : l[1] = Real(i)
      BY <1>1, <1>2 DEF Shaped
    <3>2. Fits(world.events[i].type, l[2], l[3])
      BY <1>1, <1>2, <3>1 DEF Lawful
    <3>3. world.types[l[3]] = TypeName(l[3])
      BY <1>1 DEF Shaped
    <3> QED BY <3>1, <3>2, <3>3, EventIs DEF Fits
  <2>2. \A l \in world.o2o : IsLegalO2O(l)
    BY <1>1, <1>t DEF Lawful, FitsObjects, IsLegalO2O
  <2> QED BY <2>1, <2>2 DEF LinksLegal
<1>4. EventsComplete
  <2>1. SUFFICES ASSUME NEW i \in 1..n, NEW s \in E2OQualifiers, s.type = EventOf(world, Real(i)).type
                 PROVE  Allows(s, Linked(Real(i), s.qualifier, s.object))
    BY <1>2 DEF EventsComplete, RealEvents
  <2>2. PICK L : L = Linked(Real(i), s.qualifier, s.object)
    OBVIOUS
  <2>3. L = Links(world, i, s)
    BY <1>1, <2>2 DEF Linked, Links, Shaped
  <2>4. L # {} /\ (s.many \/ \A l, m \in L : l = m)
    BY <1>1, <1>2, <2>1, <2>3, EventIs DEF Complete
  <2>5. IsFiniteSet(L)
    BY <1>1, <2>2, FS_Subset DEF Shaped, Linked
  <2>6. s.least = 1
    BY Signatures
  <2> QED BY <2>2, <2>4, <2>5, <2>6, AllowsIs
<1>5. ObjectsComplete
  <2>1. SUFFICES ASSUME NEW o \in DOMAIN world.types, NEW s \in O2OQualifiers, s.type = world.types[o]
                 PROVE  Allows(s, LinkedObjects(o, s)) \/ (LinkedObjects(o, s) = {} /\ DrawnEmpty(o))
    BY DEF ObjectsComplete
  <2>2. PICK L : L = LinkedObjects(o, s)
    OBVIOUS
  <2>3. L = ObjectLinks(world, o, s)
    BY <1>1, <1>t, <2>2 DEF LinkedObjects, ObjectLinks, Lawful
  <2>4. FurnishedAt(config, world, o)
    BY DEF WorldInv, Furnished
  <2>5. (s.many \/ \A l, m \in L : l = m) /\ (L # {} \/ Empty(config, world, o))
    BY <1>t, <2>1, <2>3, <2>4 DEF FurnishedAt
  <2>6. IsFiniteSet(L)
    BY <1>1, <2>2, FS_Subset DEF Shaped, LinkedObjects
  <2>7. s.least = 1
    BY ObjectSignatures
  <2>8. CASE L # {}
    BY <2>2, <2>5, <2>6, <2>7, <2>8, AllowsIs
  <2>9. CASE L = {}
    <3>1. DrawnEmpty(o)
      BY <1>2, <1>t, <2>5, <2>9 DEF Empty, DrawnEmpty, Touches, Involves
    <3> QED BY <2>2, <2>9, <3>1
  <2> QED BY <2>8, <2>9
<1>6. TracesOrdered
  <2>1. SUFFICES ASSUME NEW o \in DOMAIN world.types, NEW i \in 1..n, NEW j \in 1..n, Involves(i, o), Involves(j, o),
                        <<world.events[i].type, world.events[j].type>> \in Lifecycle(world.types[o])
                 PROVE  i < j /\ (world.events[i].time <= world.events[j].time \/ SetBack(i, j))
    BY <1>2 DEF TracesOrdered
  <2>2. world.types[o] = TypeName(o)
    BY <1>t
  <2>3. TypeName(o) \in Lived
    <3>1. TypeName(o) \in {"Customer", "Order", "Item", "Invoice"}
      BY DEF TypeName
    <3> QED BY <2>1, <2>2, <3>1, LifecycleIs DEF Lived
  <2>4. Touches(world, i, o) /\ Touches(world, j, o)
    BY <2>1 DEF Touches, Involves
  <2>5. Traced(config, world)
    BY DEF WorldInv
  <2>6. i < j /\ (world.events[i].time <= world.events[j].time \/ Back(config, world, i, j))
    BY <1>2, <2>1, <2>2, <2>3, <2>4, <2>5 DEF Traced
  <2> QED BY <2>6 DEF Back, SetBack
<1> QED BY <1>3, <1>4, <1>5, <1>6

-----------------------------------------------------------------------------
\* A world is finished before its amounts are drawn, and these before the
\* universe is built around it.
FinishedInv ==
  /\ amounts # Unset => order = Unset /\ DOMAIN amounts = Carriers(world)
  /\ universe # Unset => amounts # Unset
  /\ TruthIsCandidate

\* The parts of a reference to an attribute.
LEMMA AttrIs == \A f, e, a : AttrRef(f, e, a).subject = e /\ AttrRef(f, e, a).qualifier = a
BY DEF AttrRef, Ref

\* Built around a legal truth, a universe has all of it.
LEMMA BuildKeeps ==
  ASSUME WorldInv, FinishedInv, BuildUniverse PROVE FinishedInv'
<1>1. UNCHANGED <<config, world, order, amounts>> /\ amounts # Unset /\ universe = Unset
  BY DEF BuildUniverse
<1>2. PICK behind, others, contents, slots :
        /\ \A e \in RealEvents(world) : e \in DOMAIN behind /\ behind[e] = EventOf(world, e)
        /\ \A e \in DOMAIN behind : others[e] \in Alternatives(behind[e].type)
        /\ slots = [e \in DOMAIN behind |-> Slot({behind[e].type} \union others[e], behind[e].time)]
        /\ universe' = Grounded(slots, contents)
  <2>1. PICK types, at, contents :
          LET behind == Sources(types, at)
          IN  \E others \in [DOMAIN behind -> UNION {Alternatives(t) : t \in EventTypes}] :
                /\ \A e \in DOMAIN behind : others[e] \in Alternatives(behind[e].type)
                /\ universe' = Grounded([e \in DOMAIN behind |->
                                           Slot({behind[e].type} \union others[e], behind[e].time)], contents)
    BY DEF BuildUniverse
  <2>2. PICK behind : behind = Sources(types, at)
    OBVIOUS
  <2>3. \A e \in RealEvents(world) : e \in DOMAIN behind /\ behind[e] = EventOf(world, e)
    BY <2>2 DEF Sources, RealEvents, Real
  <2> QED BY <2>1, <2>2, <2>3
<1>3. LinksLegal /\ Shaped(world) /\ Lawful(world)
  BY SoundIsLegal DEF WorldInv, WellMade
<1>4. config.bracket \in Nat /\ config.confusable \subseteq EventTypes
  BY WorldAssumption DEF WorldInv
<1>5. ASSUME NEW e \in RealEvents(world)
      PROVE  /\ e \in DOMAIN slots
             /\ slots[e].support = {EventOf(world, e).type} \union others[e]
             /\ slots[e].lo = EventOf(world, e).time - config.bracket
             /\ slots[e].hi = EventOf(world, e).time + config.bracket
             /\ EventOf(world, e).time \in Int
  <2>1. slots[e] = Slot({EventOf(world, e).type} \union others[e], EventOf(world, e).time)
    BY <1>2
  <2>2. PICK i \in 1..Len(world.events) : e = Real(i)
    BY DEF RealEvents
  <2>3. world.events[i] \in [type : EventTypes, time : Int]
    BY <1>3, <2>2, ElementOfSeq DEF Shaped
  <2> QED BY <1>2, <2>1, <2>2, <2>3, EventIs DEF Slot
<1>6. PICK U : U = universe' /\ U.slots = slots /\ U.e2o = GroundedE2O(slots) /\ world.o2o \subseteq U.o2o
               /\ U.refs = Registered(slots, U.e2o, U.o2o)
  <2>1. \A l \in world.o2o : IsLegalO2O(l)
    BY <1>3 DEF Lawful, FitsObjects, IsLegalO2O, Shaped
  <2>2. PICK U : U = universe'
    OBVIOUS
  <2>3. U.slots = slots /\ U.e2o = GroundedE2O(slots) /\ U.refs = Registered(slots, U.e2o, U.o2o)
    BY <1>2, <2>2 DEF Grounded
  <2>4. U.o2o = {l \in world.o2o \union UNION {{<<o, "contains", i>> : i \in contents[o]} : o \in DOMAIN contents} :
                   IsLegalO2O(l)}
    BY <1>2, <2>2 DEF Grounded
  <2>5. world.o2o \subseteq U.o2o
    BY <2>1, <2>4
  <2> QED BY <2>2, <2>3, <2>5
<1>7. ASSUME NEW e \in RealEvents(world)
      PROVE  /\ EventOf(world, e).type \in U.slots[e].support
             /\ U.slots[e].lo <= EventOf(world, e).time /\ EventOf(world, e).time <= U.slots[e].hi
  BY <1>4, <1>5, <1>6
<1>8. world.e2o \subseteq U.e2o
  <2>1. SUFFICES ASSUME NEW l \in world.e2o PROVE l \in U.e2o
    OBVIOUS
  <2>2. PICK s \in E2OQualifiers : /\ s.type = EventOf(world, l[1]).type
                                   /\ s.qualifier = l[2] /\ s.object = world.types[l[3]]
    BY <1>3 DEF LinksLegal
  <2>3. l = <<l[1], l[2], l[3]>> /\ l[3] \in DOMAIN world.types /\ l[1] \in RealEvents(world)
    BY <1>3 DEF Shaped, RealEvents
  <2>4. l[1] \in DOMAIN slots /\ s.type \in slots[l[1]].support
    BY <1>5, <2>2, <2>3
  <2>5. PICK x : x = <<l[1], s, l[3]>>
    OBVIOUS
  <2>6. /\ x \in (DOMAIN slots) \X E2OQualifiers \X (DOMAIN world.types)
        /\ x[2].type \in slots[x[1]].support /\ x[2].object = world.types[x[3]]
        /\ <<x[1], x[2].qualifier, x[3]>> = l
    BY <2>2, <2>3, <2>4, <2>5
  <2> QED BY <1>6, <2>6 DEF GroundedE2O
<1>9. ASSUME NEW c \in DOMAIN amounts, c[1] \in RealEvents(world) => Cardinality(U.slots[c[1]].support) = 1
      PROVE  \E r \in U.refs : r.subject = c[1] /\ r.qualifier = c[2]
  <2>1. c \in Carriers(world)
    BY <1>1 DEF FinishedInv
  <2>2. CASE \E o \in DOMAIN world.types : \E a \in DeclaredOfObject(world.types[o]) : c = <<o, a>>
    <3>0. PICK o \in DOMAIN world.types : \E a \in DeclaredOfObject(world.types[o]) : c = <<o, a>>
      BY <2>2
    <3>1. PICK a \in DeclaredOfObject(world.types[o]) : c = <<o, a>>
      BY <3>0
    <3>2. AttrRef("object_attr", o, a) \in U.refs
      <4>1. AttrRef("object_attr", o, a)
              \in UNION {{AttrRef("object_attr", x, b) : b \in DeclaredOfObject(world.types[x])} : x \in DOMAIN world.types}
        OBVIOUS
      <4>2. PICK T : T = UNION {{AttrRef("object_attr", x, b) : b \in DeclaredOfObject(world.types[x])} : x \in DOMAIN world.types}
        OBVIOUS
      <4>3. T \subseteq Registered(slots, U.e2o, U.o2o)
        BY <4>2 DEF Registered
      <4> QED BY <1>6, <4>1, <4>2, <4>3
    <3> QED BY <3>1, <3>2, AttrIs
  <2>3. CASE \E e \in RealEvents(world) : \E a \in DeclaredOfEvent(EventOf(world, e).type) : c = <<e, a>>
    <3>0. PICK e \in RealEvents(world) : \E a \in DeclaredOfEvent(EventOf(world, e).type) : c = <<e, a>>
      BY <2>3
    <3>1. PICK a \in DeclaredOfEvent(EventOf(world, e).type) : c = <<e, a>>
      BY <3>0
    <3>2. PICK S, t : S = slots[e].support /\ t = EventOf(world, e).type
      OBVIOUS
    <3>3. Cardinality(S) = 1 /\ t \in S
      BY <1>5, <1>6, <1>9, <3>1, <3>2
    <3>4. IsFiniteSet(S)
      <4>1. others[e] \subseteq EventTypes
        BY <1>2, <1>4 DEF Alternatives
      <4>2. IsFiniteSet(EventTypes)
        <5>1. \A x, y, z : IsFiniteSet({x, y, z})
          <6> TAKE x, y, z
          <6>1. {x, y, z} = {x} \union ({y} \union {z})
            OBVIOUS
          <6>2. IsFiniteSet({x}) /\ IsFiniteSet({y}) /\ IsFiniteSet({z})
            BY FS_Singleton
          <6>3. IsFiniteSet({y} \union {z})
            BY <6>2, FS_Union
          <6>4. PICK A, B : A = {x} /\ B = {y} \union {z}
            OBVIOUS
          <6>5. IsFiniteSet(A) /\ IsFiniteSet(B) /\ {x, y, z} = A \union B
            BY <6>1, <6>2, <6>3, <6>4
          <6>6. IsFiniteSet(A \union B)
            BY <6>5, FS_Union
          <6> QED BY <6>5, <6>6
        <5>2. PICK A, B, C : /\ A = {"PlaceOrder", "ConfirmOrder", "PickItem"} /\ B = {"PackItem", "Ship", "Invoice"}
                             /\ C = {"Pay", "Pay", "Pay"}
          OBVIOUS
        <5>3. IsFiniteSet(A) /\ IsFiniteSet(B) /\ IsFiniteSet(C) /\ EventTypes = A \union (B \union C)
          BY <5>1, <5>2 DEF EventTypes
        <5>4. IsFiniteSet(B \union C)
          BY <5>3, FS_Union
        <5> QED BY <5>3, <5>4, FS_Union
      <4>3. IsFiniteSet(others[e]) /\ IsFiniteSet({t})
        BY <4>1, <4>2, FS_Subset, FS_Singleton
      <4>4. S = {t} \union others[e]
        BY <1>5, <3>1, <3>2
      <4>5. IsFiniteSet({t} \union others[e])
        BY <4>3, FS_Union
      <4> QED BY <4>4, <4>5
    <3>5. S = {t}
      <4>1. PICK x : S = {x}
        BY <3>3, <3>4, FS_Singleton
      <4> QED BY <3>3, <4>1
    <3>6. a \in SharedAttributes(S)
      BY <3>1, <3>2, <3>5 DEF SharedAttributes
    <3>7. AttrRef("event_attr", e, a) \in U.refs
      <4>1. e \in DOMAIN slots /\ a \in SharedAttributes(slots[e].support)
        BY <1>5, <3>2, <3>6
      <4>2. AttrRef("event_attr", e, a)
              \in UNION {{AttrRef("event_attr", x, b) : b \in SharedAttributes(slots[x].support)} : x \in DOMAIN slots}
        BY <4>1
      <4> QED BY <1>6, <4>2 DEF Registered
    <3> QED BY <3>1, <3>7, AttrIs
  <2> QED BY <2>1, <2>2, <2>3 DEF Carriers
<1>10. TruthIsCandidate'
  BY <1>1, <1>6, <1>7, <1>8, <1>9 DEF TruthIsCandidate, RealEvents, EventOf
<1>11. DOMAIN amounts = Carriers(world) /\ order = Unset
  BY <1>1 DEF FinishedInv
<1>12. Carriers(world)' = Carriers(world)
  BY <1>1 DEF Carriers, DeclaredOfObject, DeclaredOfEvent, Declared, RealEvents, EventOf
<1> QED BY <1>1, <1>10, <1>11, <1>12 DEF FinishedInv

\* A world of customers only.
LEMMA WorldBegins ==
  ASSUME GeneratingInit PROVE WorldInv /\ OrderInv /\ FinishedInv
<1>1. config \in Configs
  BY RegimeAssumption DEF GeneratingInit
<1>2. /\ world = [events |-> <<>>, types |-> [c \in Customers |-> "Customer"], e2o |-> {}, o2o |-> {}]
      /\ order = Unset /\ clock = 0 /\ count = 0 /\ amounts = Unset /\ universe = Unset
  BY DEF GeneratingInit, WorldInit
<1>3. /\ world.events = <<>> /\ world.types = [c \in Customers |-> "Customer"] /\ world.e2o = {} /\ world.o2o = {}
      /\ world = [events |-> world.events, types |-> world.types, e2o |-> world.e2o, o2o |-> world.o2o]
  BY <1>2
<1>4. Len(world.events) = 0 /\ world.events \in Seq([type : EventTypes, time : Int])
  BY <1>3, EmptySeq
<1>5. DOMAIN world.types = Customers /\ \A o \in DOMAIN world.types : world.types[o] = TypeName(o)
  BY <1>3, Names
<1>6. Shaped(world)
  BY <1>3, <1>4, <1>5, FS_EmptySet DEF Shaped
<1>7. Lawful(world) /\ Complete(world) /\ Traced(config, world)
  BY <1>3, <1>4 DEF Lawful, Complete, Traced
<1>8. Furnished(config, world)
  <2>1. \A o \in DOMAIN world.types : TypeName(o) = "Customer"
    BY <1>5, Names
  <2> QED BY <2>1, ObjectSignatures DEF Furnished, FurnishedAt
<1>9. WorldInv
  BY <1>1, <1>2, <1>3, <1>5, <1>6, <1>7, <1>8 DEF WorldInv, WellMade
<1> QED BY <1>2, <1>9 DEF OrderInv, FinishedInv, TruthIsCandidate

\* While a world is generated there are no amounts, and no universe.
LEMMA NotFinished ==
  ASSUME WorldInv, OrderInv, FinishedInv, amounts = Unset, UNCHANGED <<amounts, universe>>
  PROVE  FinishedInv'
BY DEF FinishedInv, TruthIsCandidate

\* Every step of the generation keeps the world well made.
LEMMA WorldSteps ==
  ASSUME WorldInv, OrderInv, FinishedInv, [GeneratingNext]_generatingVars
  PROVE  WorldInv' /\ OrderInv' /\ FinishedInv'
<1>1. ASSUME UNCHANGED worldVars PROVE WorldInv' /\ OrderInv' /\ FinishedInv'
  <2>1. UNCHANGED <<config, world, order, clock, count, amounts, universe>>
    BY <1>1 DEF worldVars
  <2>2. Customers' = Customers
    BY <2>1 DEF Customers
  <2>3. UnderWay' = UnderWay
    BY <2>2 DEF UnderWay
  <2>4. WorldInv'
    BY <2>1, <2>2 DEF WorldInv
  <2>5. OrderInv'
    BY <2>1, <2>2, <2>3 DEF OrderInv
  <2>6. Carriers(world)' = Carriers(world) /\ TruthIsCandidate' = TruthIsCandidate
    BY <2>1 DEF Carriers, DeclaredOfObject, DeclaredOfEvent, Declared, RealEvents, EventOf, TruthIsCandidate
  <2>7. FinishedInv'
    BY <2>1, <2>6 DEF FinishedInv
  <2> QED BY <2>4, <2>5, <2>7
<1>2. ASSUME order # Unset, UNCHANGED <<amounts, universe>> PROVE FinishedInv'
  BY <1>2, NotFinished DEF FinishedInv
<1>3. ASSUME NEW d \in config.ticks, NEW c \in Customers, NEW n \in config.items, PlaceOrder(c, n, d)
      PROVE  WorldInv' /\ OrderInv' /\ FinishedInv'
  <2>1. amounts = Unset /\ UNCHANGED <<amounts, universe>>
    BY <1>3 DEF PlaceOrder, Placing
  <2> QED BY <1>3, <2>1, PlaceKeeps, NotFinished
<1>4. ASSUME NEW d \in config.ticks, ConfirmOrder(d) PROVE WorldInv' /\ OrderInv' /\ FinishedInv'
  <2>1. order # Unset /\ UNCHANGED <<amounts, universe>>
    BY <1>4 DEF ConfirmOrder, At, Stage
  <2> QED BY <1>2, <1>4, <2>1, ConfirmKeeps
<1>5. ASSUME NEW d \in config.ticks, PickItem(d) PROVE WorldInv' /\ OrderInv' /\ FinishedInv'
  <2>1. order # Unset /\ UNCHANGED <<amounts, universe>>
    BY <1>5 DEF PickItem, At, Stage
  <2> QED BY <1>2, <1>5, <2>1, PickKeeps
<1>6. ASSUME NEW d \in config.ticks, PackItem(d) PROVE WorldInv' /\ OrderInv' /\ FinishedInv'
  <2>1. order # Unset /\ UNCHANGED <<amounts, universe>>
    BY <1>6 DEF PackItem, At
  <2> QED BY <1>2, <1>6, <2>1, PackKeeps
<1>7. ASSUME NEW d \in config.ticks, Ship(d) PROVE WorldInv' /\ OrderInv' /\ FinishedInv'
  <2>1. order # Unset /\ UNCHANGED <<amounts, universe>>
    BY <1>7 DEF Ship, MayShip, At, Stage
  <2> QED BY <1>2, <1>7, <2>1, ShipKeeps
<1>8. ASSUME NEW d \in config.ticks, Invoice(d) PROVE WorldInv' /\ OrderInv' /\ FinishedInv'
  <2>1. order # Unset /\ UNCHANGED <<amounts, universe>>
    BY <1>8 DEF Invoice, At
  <2> QED BY <1>2, <1>8, <2>1, InvoiceKeeps
<1>9. ASSUME NEW d \in config.ticks, Pay(d) PROVE WorldInv' /\ OrderInv' /\ FinishedInv'
  <2>1. order # Unset /\ UNCHANGED <<amounts, universe>>
    BY <1>9 DEF Pay, At, Stage
  <2> QED BY <1>2, <1>9, <2>1, PayKeeps
<1>10. CASE EndOrder
  <2>1. order # Unset /\ order' = Unset /\ UNCHANGED <<config, world, clock, count, amounts, universe>>
    BY <1>10 DEF EndOrder
  <2>2. Customers' = Customers
    BY <2>1 DEF Customers
  <2>3. WorldInv'
    BY <2>1, <2>2 DEF WorldInv
  <2> QED BY <1>2, <2>1, <2>3 DEF OrderInv
<1>11. CASE FinishWorld
  <2>1. /\ amounts = Unset /\ order = Unset /\ amounts' \in [Carriers(world) -> config.amounts]
        /\ UNCHANGED <<config, world, order, clock, count, universe>>
    BY <1>11 DEF FinishWorld
  <2>2. Customers' = Customers
    BY <2>1 DEF Customers
  <2>3. WorldInv'
    BY <2>1, <2>2 DEF WorldInv
  <2>4. OrderInv'
    BY <2>1 DEF OrderInv
  <2>5. universe = Unset
    BY <2>1 DEF FinishedInv
  <2>0. UNCHANGED <<config, world>>
    BY <2>1
  <2>6. Carriers(world)' = Carriers(world)
    BY <2>0 DEF Carriers, DeclaredOfObject, DeclaredOfEvent, Declared, RealEvents, EventOf
  <2>7. DOMAIN amounts' = Carriers(world)
    BY <2>1
  <2> QED BY <2>1, <2>3, <2>4, <2>5, <2>6, <2>7 DEF FinishedInv, TruthIsCandidate
<1>12. CASE BuildUniverse
  <2>1. UNCHANGED <<config, world, order, clock, count, amounts>>
    BY <1>12 DEF BuildUniverse
  <2>2. Customers' = Customers
    BY <2>1 DEF Customers
  <2>3. UnderWay' = UnderWay
    BY <2>2 DEF UnderWay
  <2>4. WorldInv'
    BY <2>1, <2>2 DEF WorldInv
  <2>5. OrderInv'
    BY <2>1, <2>2, <2>3 DEF OrderInv
  <2> QED BY <1>12, <2>4, <2>5, BuildKeeps
<1>13. CASE WorldNext
  BY <1>3, <1>4, <1>5, <1>6, <1>7, <1>8, <1>9, <1>10, <1>11, <1>12, <1>13 DEF WorldNext
<1>14. CASE MakeHotspots \/ DrawSource \/ ChooseExemplars \/ EmitClaims
  BY <1>1, <1>14 DEF MakeHotspots, DrawSource, ChooseExemplars, EmitClaims
<1>15. CASE UNCHANGED generatingVars
  BY <1>1, <1>15 DEF generatingVars
<1> QED BY <1>13, <1>14, <1>15 DEF GeneratingNext

\* The world a benchmark is scored against follows the schema declared for it:
\* links are legal and as many as it asks for, but for orders drawn empty; what
\* happens to an object is in the order of its lifecycle, and dated so unless a
\* step in between went back in time; and all of it is among the candidates.
THEOREM GeneratedTruthFollowsSchema == GeneratingSpec => []TruthFollowsSchema
<1>1. WorldInv /\ OrderInv /\ FinishedInv => TruthFollowsSchema
  BY SoundIsLegal DEF FinishedInv, TruthFollowsSchema
<1> QED BY <1>1, WorldBegins, WorldSteps, PTL DEF GeneratingSpec

-----------------------------------------------------------------------------
(***************************************************************************)
(* Generated sources: what each of them says is within its declared scope, *)
(* copies repeat what was said before them, and the baselines computed     *)
(* over such sources agree, whatever the regime and the draws.             *)
(***************************************************************************)

\* A function on a finite set has finitely many values.
LEMMA FiniteRange ==
  ASSUME NEW f, IsFiniteSet(DOMAIN f) PROVE IsFiniteSet(Range(f))
<1> DEFINE h == [x \in DOMAIN f |-> f[x]]
<1>1. h \in Surjection(DOMAIN f, Range(f))
  BY DEF Surjection, Range
<1> QED BY <1>1, FS_Surjection

\* Finitely many objects, and links between them.
Finite(w) ==
  /\ w = [events |-> w.events, types |-> w.types, e2o |-> w.e2o, o2o |-> w.o2o]
  /\ IsFiniteSet(DOMAIN w.types) /\ IsFiniteSet(w.o2o)

\* The identities of the objects of a finite world are finitely many.
LEMMA ObjectsFinite ==
  ASSUME NEW w, Finite(w), NEW objects, NEW type, NEW links, IsFiniteSet(objects), IsFiniteSet(links)
  PROVE  Finite(WithObjects(w, objects, type, links))
<1>1. PICK v, D, ts, ls : /\ v = WithObjects(w, objects, type, links)
                          /\ D = DOMAIN w.types \union objects /\ ls = w.o2o \union links
                          /\ ts = [o \in D |-> IF o \in objects THEN type ELSE w.types[o]]
  OBVIOUS
<1>2. v = [events |-> w.events, types |-> ts, e2o |-> w.e2o, o2o |-> ls]
  BY <1>1 DEF WithObjects, Finite
<1>3. IsFiniteSet(D) /\ IsFiniteSet(ls)
  BY <1>1, FS_Union DEF Finite
<1>4. v.events = w.events /\ v.e2o = w.e2o /\ v.types = ts /\ v.o2o = ls /\ DOMAIN ts = D
  BY <1>1, <1>2
<1>5. Finite(v)
  BY <1>2, <1>3, <1>4 DEF Finite
<1> QED BY <1>1, <1>5

\* One more event, with finitely many links, keeps a world finite.
LEMMA EmitFinite ==
  ASSUME NEW w, Finite(w), NEW type, NEW at, NEW links
  PROVE  Finite(Emit(w, type, at, links))
<1>1. PICK v, es, ls : /\ v = Emit(w, type, at, links)
                       /\ es = Append(w.events, [type |-> type, time |-> at])
                       /\ ls = w.e2o \union {<<Real(Len(w.events) + 1), l[1], l[2]>> : l \in links}
  OBVIOUS
<1>2. v = [events |-> es, types |-> w.types, e2o |-> ls, o2o |-> w.o2o]
  BY <1>1 DEF Emit, Finite
<1>3. v.events = es /\ v.e2o = ls /\ v.types = w.types /\ v.o2o = w.o2o
  BY <1>2
<1>4. Finite(v)
  BY <1>2, <1>3 DEF Finite
<1> QED BY <1>1, <1>4

\* An order has finitely many items.
LEMMA ItemsFinite ==
  ASSUME NEW k, NEW n \in Nat PROVE IsFiniteSet(Items(k, n))
<1> DEFINE f == [j \in 1..n |-> Item(k, j)]
<1>1. Range(f) = Items(k, n)
  BY DEF Range, Items
<1>2. IsFiniteSet(DOMAIN f)
  BY FS_Interval
<1> HIDE DEF f
<1> QED BY <1>1, <1>2, FiniteRange

\* Placing an order keeps the world finite.
LEMMA PlaceFinite ==
  ASSUME WorldInv, Finite(world), NEW d, NEW c, NEW n \in config.items, PlaceOrder(c, n, d)
  PROVE  Finite(world')
<1>1. PICK k, id, links, u, w, more :
        /\ k = count + 1 /\ id = OrderId(k) /\ links = {<<id, "contains", i>> : i \in Items(k, n)}
        /\ u = WithObjects(world, {id}, "Order", {})
        /\ w = WithObjects(u, Items(k, n), "Item", links)
        /\ more = {<<"order", id>>, <<"customer", c>>}
  OBVIOUS
<1>2. world' = Emit(w, "PlaceOrder", clock + d, more)
  BY <1>1 DEF PlaceOrder
<1>3. n \in Nat
  BY WorldAssumption DEF WorldInv
<1>4. IsFiniteSet(Items(k, n)) /\ IsFiniteSet({id}) /\ IsFiniteSet({})
  BY <1>3, ItemsFinite, FS_Singleton, FS_EmptySet
<1>5. IsFiniteSet(links)
  <2> DEFINE f == [i \in Items(k, n) |-> <<id, "contains", i>>]
  <2>1. Range(f) = links /\ DOMAIN f = Items(k, n)
    BY <1>1 DEF Range
  <2> HIDE DEF f
  <2> QED BY <1>4, <2>1, FiniteRange
<1>6. Finite(u)
  BY <1>1, <1>4, ObjectsFinite
<1>7. Finite(w)
  BY <1>1, <1>4, <1>5, <1>6, ObjectsFinite
<1> QED BY <1>2, <1>7, EmitFinite

\* Invoicing keeps the world finite.
LEMMA InvoiceFinite ==
  ASSUME Finite(world), NEW d, Invoice(d)
  PROVE  Finite(world')
<1>1. PICK id, links, w, more :
        /\ id = InvoiceId(order.k)
        /\ links = {<<id, "billed_to", order.customer>>, <<id, "for_order", OrderId(order.k)>>}
        /\ w = WithObjects(world, {id}, "Invoice", links)
        /\ more = {ThisOrder, <<"invoice", id>>}
  OBVIOUS
<1>2. world' = Emit(w, "Invoice", order.t + d, more)
  BY <1>1 DEF Invoice
<1>3. \A x, y : IsFiniteSet({x, y})
  <2>1. SUFFICES ASSUME NEW x, NEW y PROVE IsFiniteSet({x, y})
    OBVIOUS
  <2>2. IsFiniteSet({x}) /\ IsFiniteSet({y}) /\ {x, y} = {x} \union {y}
    BY FS_Singleton
  <2> QED BY <2>2, FS_Union
<1>4. Finite(w)
  BY <1>1, <1>3, FS_Singleton, ObjectsFinite
<1> QED BY <1>2, <1>4, EmitFinite

\* Every step of the generated world keeps it finite.
LEMMA StepsFinite ==
  ASSUME WorldInv, Finite(world), WorldNext PROVE Finite(world')
<1>1. CASE \E d \in config.ticks : \E c \in Customers, n \in config.items : PlaceOrder(c, n, d)
  BY <1>1, PlaceFinite
<1>2. CASE \E d \in config.ticks : Invoice(d)
  BY <1>2, InvoiceFinite
<1>3. CASE \E d \in config.ticks : ConfirmOrder(d) \/ PickItem(d) \/ PackItem(d) \/ Ship(d) \/ Pay(d)
  <2>1. PICK type, at, links : world' = Emit(world, type, at, links)
    BY <1>3 DEF ConfirmOrder, PickItem, PackItem, Ship, Pay, Stage
  <2> QED BY <2>1, EmitFinite
<1>4. CASE EndOrder \/ FinishWorld \/ BuildUniverse
  BY <1>4 DEF EndOrder, FinishWorld, BuildUniverse
<1> QED BY <1>1, <1>2, <1>3, <1>4 DEF WorldNext

\* Up to four values.
LEMMA FourFinite ==
  ASSUME NEW a, NEW b, NEW c, NEW d PROVE IsFiniteSet({a, b, c, d})
<1>1. \A x, y : IsFiniteSet({x, y})
  <2>1. SUFFICES ASSUME NEW x, NEW y PROVE IsFiniteSet({x, y})
    OBVIOUS
  <2>2. IsFiniteSet({x}) /\ IsFiniteSet({y}) /\ {x, y} = {x} \union {y}
    BY FS_Singleton
  <2> QED BY <2>2, FS_Union
<1>2. IsFiniteSet({a, b}) /\ IsFiniteSet({c, d}) /\ {a, b, c, d} = {a, b} \union {c, d}
  BY <1>1
<1> QED BY <1>2, FS_Union

\* A pair of members.
LEMMA PairOf ==
  ASSUME NEW X, NEW Y, NEW a \in X, NEW b \in Y PROVE \E x \in X \X Y : x[1] = a /\ x[2] = b
<1>1. PICK x : x = <<a, b>>
  OBVIOUS
<1> QED BY <1>1

\* The names that attributes have.
Attributes == {"order_priority", "ship_delay_hours", "order_value", "order_units"} \union
              {"item_weight", "invoice_total"}

\* Attributes are declared by name, and the names are finitely many.
LEMMA AttributesFinite == IsFiniteSet(Attributes) /\ \A type : Declared(type) \subseteq Attributes
<1>1. IsFiniteSet(Attributes)
  <2>1. IsFiniteSet({"item_weight"}) /\ IsFiniteSet({"invoice_total"})
    BY FS_Singleton
  <2>2. {"item_weight", "invoice_total"} = {"item_weight"} \union {"invoice_total"}
    OBVIOUS
  <2>3. IsFiniteSet({"item_weight", "invoice_total"})
    BY <2>1, <2>2, FS_Union
  <2> QED BY <2>3, FourFinite, FS_Union DEF Attributes
<1>2. \A type : Declared(type) \subseteq Attributes
  BY DEF Declared, Attributes
<1> QED BY <1>1, <1>2

\* The variables of finitely many slots and links.
LEMMA VariablesFinite ==
  ASSUME NEW slots, IsFiniteSet(DOMAIN slots), IsFiniteSet(DOMAIN world.types),
         NEW e2o, IsFiniteSet(e2o), NEW o2o, IsFiniteSet(o2o)
  PROVE  IsFiniteSet(Registered(slots, e2o, o2o))
<1> DEFINE exists == {Ref("event_exists", e) : e \in DOMAIN slots}
           types == {Ref("event_type", e) : e \in {e \in DOMAIN slots : Cardinality(slots[e].support) > 1}}
           times == {Ref("event_time", e) : e \in DOMAIN slots}
           objects == {Ref("object_exists", o) : o \in DOMAIN world.types}
           e2os == {LinkRef("e2o", l) : l \in e2o}
           o2os == {LinkRef("o2o", l) : l \in o2o}
           eventAttrs == UNION {{AttrRef("event_attr", e, a) : a \in SharedAttributes(slots[e].support)} : e \in DOMAIN slots}
           objectAttrs == UNION {{AttrRef("object_attr", o, a) : a \in DeclaredOfObject(world.types[o])} :
                                   o \in DOMAIN world.types}
<1>1. IsFiniteSet(exists)
  <2> DEFINE f == [e \in DOMAIN slots |-> Ref("event_exists", e)]
  <2>1. Range(f) = exists /\ DOMAIN f = DOMAIN slots
    BY DEF Range
  <2> HIDE DEF f, exists
  <2> QED BY <2>1, FiniteRange
<1>2. IsFiniteSet(types)
  <2> DEFINE f == [e \in DOMAIN slots |-> Ref("event_type", e)]
  <2>1. types \subseteq Range(f) /\ DOMAIN f = DOMAIN slots
    BY DEF Range
  <2> HIDE DEF f, types
  <2> QED BY <2>1, FiniteRange, FS_Subset
<1>3. IsFiniteSet(times)
  <2> DEFINE f == [e \in DOMAIN slots |-> Ref("event_time", e)]
  <2>1. Range(f) = times /\ DOMAIN f = DOMAIN slots
    BY DEF Range
  <2> HIDE DEF f, times
  <2> QED BY <2>1, FiniteRange
<1>4. IsFiniteSet(objects)
  <2> DEFINE f == [o \in DOMAIN world.types |-> Ref("object_exists", o)]
  <2>1. Range(f) = objects /\ DOMAIN f = DOMAIN world.types
    BY DEF Range
  <2> HIDE DEF f, objects
  <2> QED BY <2>1, FiniteRange
<1>5. IsFiniteSet(e2os)
  <2> DEFINE f == [l \in e2o |-> LinkRef("e2o", l)]
  <2>1. Range(f) = e2os /\ DOMAIN f = e2o
    BY DEF Range
  <2> HIDE DEF f, e2os
  <2> QED BY <2>1, FiniteRange
<1>6. IsFiniteSet(o2os)
  <2> DEFINE f == [l \in o2o |-> LinkRef("o2o", l)]
  <2>1. Range(f) = o2os /\ DOMAIN f = o2o
    BY DEF Range
  <2> HIDE DEF f, o2os
  <2> QED BY <2>1, FiniteRange
<1>7. IsFiniteSet(eventAttrs)
  <2> DEFINE f == [x \in (DOMAIN slots) \X Attributes |-> AttrRef("event_attr", x[1], x[2])]
  <2>1. \A support : SharedAttributes(support) \subseteq Attributes
    BY AttributesFinite DEF SharedAttributes, DeclaredOfEvent
  <2>2. eventAttrs \subseteq Range(f)
    <3>1. DOMAIN f = (DOMAIN slots) \X Attributes /\ \A x \in DOMAIN f : f[x] = AttrRef("event_attr", x[1], x[2])
      OBVIOUS
    <3>2. ASSUME NEW r \in eventAttrs PROVE r \in Range(f)
      <4>1. PICK e \in DOMAIN slots : \E a \in SharedAttributes(slots[e].support) : r = AttrRef("event_attr", e, a)
        OBVIOUS
      <4>2. PICK a \in SharedAttributes(slots[e].support) : r = AttrRef("event_attr", e, a)
        BY <4>1
      <4> HIDE DEF f, eventAttrs
      <4>3. a \in Attributes
        BY <2>1
      <4>4. PICK x \in (DOMAIN slots) \X Attributes : x[1] = e /\ x[2] = a
        BY <4>3, PairOf
      <4> QED BY <3>1, <4>2, <4>4 DEF Range
    <3> HIDE DEF f, eventAttrs
    <3> QED BY <3>2
  <2>3. IsFiniteSet(DOMAIN f)
    BY AttributesFinite, FS_Product
  <2> HIDE DEF f, eventAttrs
  <2> QED BY <2>2, <2>3, FiniteRange, FS_Subset
<1>8. IsFiniteSet(objectAttrs)
  <2> DEFINE f == [x \in (DOMAIN world.types) \X Attributes |-> AttrRef("object_attr", x[1], x[2])]
  <2>1. \A type : DeclaredOfObject(type) \subseteq Attributes
    BY AttributesFinite DEF DeclaredOfObject
  <2>2. objectAttrs \subseteq Range(f)
    <3>1. DOMAIN f = (DOMAIN world.types) \X Attributes /\ \A x \in DOMAIN f : f[x] = AttrRef("object_attr", x[1], x[2])
      OBVIOUS
    <3>2. ASSUME NEW r \in objectAttrs PROVE r \in Range(f)
      <4>1. PICK o \in DOMAIN world.types : \E a \in DeclaredOfObject(world.types[o]) : r = AttrRef("object_attr", o, a)
        OBVIOUS
      <4>2. PICK a \in DeclaredOfObject(world.types[o]) : r = AttrRef("object_attr", o, a)
        BY <4>1
      <4> HIDE DEF f, objectAttrs
      <4>3. a \in Attributes
        BY <2>1
      <4>4. PICK x \in (DOMAIN world.types) \X Attributes : x[1] = o /\ x[2] = a
        <5>1. PICK W : W = DOMAIN world.types
          OBVIOUS
        <5>2. o \in W /\ a \in Attributes
          BY <4>1, <4>3, <5>1
        <5>3. \E x \in W \X Attributes : x[1] = o /\ x[2] = a
          BY <5>2, PairOf
        <5> QED BY <5>1, <5>3
      <4> QED BY <3>1, <4>2, <4>4 DEF Range
    <3> HIDE DEF f, objectAttrs
    <3> QED BY <3>2
  <2>3. IsFiniteSet(DOMAIN f)
    BY AttributesFinite, FS_Product
  <2> HIDE DEF f, objectAttrs
  <2> QED BY <2>2, <2>3, FiniteRange, FS_Subset
<1>9. Registered(slots, e2o, o2o) = exists \union types \union times \union objects \union e2os \union o2os
                                      \union eventAttrs \union objectAttrs
  BY DEF Registered
<1> HIDE DEF exists, types, times, objects, e2os, o2os, eventAttrs, objectAttrs
<1>10. IsFiniteSet(exists \union types) /\ IsFiniteSet(times \union objects)
       /\ IsFiniteSet(e2os \union o2os) /\ IsFiniteSet(eventAttrs \union objectAttrs)
  BY <1>1, <1>2, <1>3, <1>4, <1>5, <1>6, <1>7, <1>8, FS_Union
<1>11. PICK a, b, c, d : /\ a = exists \union types /\ b = times \union objects
                         /\ c = e2os \union o2os /\ d = eventAttrs \union objectAttrs
  OBVIOUS
<1>12. IsFiniteSet(a \union b) /\ IsFiniteSet(c \union d)
  BY <1>10, <1>11, FS_Union
<1>13. IsFiniteSet((a \union b) \union (c \union d))
  BY <1>12, FS_Union
<1>14. Registered(slots, e2o, o2o) = (a \union b) \union (c \union d)
  BY <1>9, <1>11
<1> QED BY <1>13, <1>14

\* The candidate links of finitely many slots.
LEMMA CandidatesFinite ==
  ASSUME NEW slots, IsFiniteSet(DOMAIN slots), IsFiniteSet(DOMAIN world.types)
  PROVE  IsFiniteSet(GroundedE2O(slots))
<1> DEFINE Q == {"order", "customer", "item", "invoice"}
           D == ((DOMAIN slots) \X Q) \X (DOMAIN world.types)
           g == [x \in D |-> <<x[1][1], x[1][2], x[2]>>]
<1>1. \A s \in E2OQualifiers : s.qualifier \in Q
  BY DEF E2OQualifiers, One
<1>2. IsFiniteSet(D)
  <2>1. IsFiniteSet(Q)
    BY FourFinite
  <2> HIDE DEF Q
  <2>2. IsFiniteSet((DOMAIN slots) \X Q)
    BY <2>1, FS_Product
  <2> QED BY <2>2, FS_Product
<1>3. ASSUME NEW l \in GroundedE2O(slots) PROVE l \in Range(g)
  <2>1. PICK x \in (DOMAIN slots) \X E2OQualifiers \X (DOMAIN world.types) :
          l = <<x[1], x[2].qualifier, x[3]>>
    BY DEF GroundedE2O
  <2>2. PICK e, q, o : e = x[1] /\ q = x[2].qualifier /\ o = x[3]
    OBVIOUS
  <2>3. e \in DOMAIN slots /\ q \in Q /\ o \in DOMAIN world.types
    BY <1>1, <2>1, <2>2
  <2>4. PICK z \in (DOMAIN slots) \X Q : z[1] = e /\ z[2] = q
    <3> HIDE DEF Q, D, g
    <3> QED BY <2>3, PairOf
  <2>5. PICK y \in D : y[1] = z /\ y[2] = o
    <3>1. D = ((DOMAIN slots) \X Q) \X (DOMAIN world.types)
      OBVIOUS
    <3> HIDE DEF Q, D, g
    <3>2. PICK V, W : V = (DOMAIN slots) \X Q /\ W = DOMAIN world.types
      OBVIOUS
    <3>3. z \in V /\ o \in W
      BY <2>3, <3>2
    <3>4. \E y \in V \X W : y[1] = z /\ y[2] = o
      BY <3>3, PairOf
    <3> QED BY <3>1, <3>2, <3>4
  <2>6. DOMAIN g = D /\ g[y] = <<y[1][1], y[1][2], y[2]>>
    BY <2>5
  <2> HIDE DEF D, g
  <2> QED BY <2>1, <2>2, <2>4, <2>5, <2>6 DEF Range
<1>4. DOMAIN g = D
  OBVIOUS
<1> HIDE DEF D, g
<1>5. IsFiniteSet(Range(g))
  BY <1>2, <1>4, FiniteRange
<1> QED BY <1>3, <1>5, FS_Subset

\* The number of decoys is a number.
LEMMA NDecoysIs == ASSUME WorldInv PROVE NDecoys \in Int
<1>1. config.quarters \in Nat /\ Len(world.events) \in Nat
  <2>1. world.events \in Seq([type : EventTypes, time : Int])
    BY DEF WorldInv, WellMade, Shaped
  <2> QED BY <2>1, WorldAssumption DEF WorldInv
<1>2. PICK n \in Nat : n = config.quarters * Len(world.events)
  BY <1>1
<1>3. n \div 4 \in Int
  BY SMT
<1> QED BY <1>2, <1>3 DEF NDecoys

\* A universe has finitely many variables.
LEMMA UniverseFinite ==
  ASSUME WorldInv, Finite(world), BuildUniverse PROVE IsFiniteSet(universe'.refs)
<1>1. PICK types, contents, slots :
        /\ types \in [1..NDecoys -> config.confusable] /\ contents \in [OrdersOf(world) -> FalseContents]
        /\ DOMAIN slots = RealEvents(world) \union {Decoy(i) : i \in DOMAIN types}
        /\ universe' = Grounded(slots, contents)
  <2>1. PICK types \in [1..NDecoys -> config.confusable], at \in [1..NDecoys -> Span],
             contents \in [OrdersOf(world) -> FalseContents] :
          LET behind == Sources(types, at)
          IN  \E others \in [DOMAIN behind -> UNION {Alternatives(t) : t \in EventTypes}] :
                universe' = Grounded([e \in DOMAIN behind |->
                                        Slot({behind[e].type} \union others[e], behind[e].time)], contents)
    BY DEF BuildUniverse
  <2>2. PICK behind : behind = Sources(types, at)
    OBVIOUS
  <2>3. DOMAIN behind = RealEvents(world) \union {Decoy(i) : i \in DOMAIN types}
    BY <2>2 DEF Sources
  <2>4. PICK slots : DOMAIN slots = DOMAIN behind /\ universe' = Grounded(slots, contents)
    BY <2>1, <2>2
  <2> QED BY <2>3, <2>4
<1>2. IsFiniteSet(RealEvents(world))
  <2>1. PICK n \in Nat : n = Len(world.events)
    <3>1. world.events \in Seq([type : EventTypes, time : Int])
      BY DEF WorldInv, WellMade, Shaped
    <3> QED BY <3>1
  <2> DEFINE f == [i \in 1..n |-> Real(i)]
  <2>2. Range(f) = {Real(i) : i \in 1..n} /\ DOMAIN f = 1..n
    BY DEF Range
  <2>3. RealEvents(world) = {Real(i) : i \in 1..n}
    BY <2>1 DEF RealEvents
  <2>4. IsFiniteSet(1..n)
    BY FS_Interval
  <2> HIDE DEF f
  <2> QED BY <2>2, <2>3, <2>4, FiniteRange
<1>3. IsFiniteSet({Decoy(i) : i \in DOMAIN types})
  <2> DEFINE f == [i \in DOMAIN types |-> Decoy(i)]
  <2>1. IsFiniteSet(1..NDecoys)
    BY NDecoysIs, FS_Interval
  <2>2. Range(f) = {Decoy(i) : i \in DOMAIN types} /\ DOMAIN f = 1..NDecoys
    BY <1>1 DEF Range
  <2> HIDE DEF f
  <2> QED BY <2>1, <2>2, FiniteRange
<1>4. IsFiniteSet(DOMAIN slots)
  <2>1. PICK r, d : r = RealEvents(world) /\ d = {Decoy(i) : i \in DOMAIN types}
    OBVIOUS
  <2>2. DOMAIN slots = r \union d
    BY <1>1, <2>1
  <2>3. IsFiniteSet(r) /\ IsFiniteSet(d)
    BY <1>2, <1>3, <2>1
  <2> QED BY <2>2, <2>3, FS_Union
<1>5. IsFiniteSet(DOMAIN world.types) /\ IsFiniteSet(world.o2o)
  BY DEF Finite
<1>6. IsFiniteSet(GroundedE2O(slots))
  BY <1>4, <1>5, CandidatesFinite
<1> DEFINE extra == UNION {{<<o, "contains", i>> : i \in contents[o]} : o \in DOMAIN contents}
           o2o == {l \in world.o2o \union extra : IsLegalO2O(l)}
<1>7. IsFiniteSet(extra)
  <2> DEFINE f == [x \in (DOMAIN world.types) \X (DOMAIN world.types) |-> <<x[1], "contains", x[2]>>]
  <2>1. IsFiniteSet(DOMAIN f)
    BY <1>5, FS_Product
  <2>2. extra \subseteq Range(f)
    <3>1. /\ DOMAIN f = (DOMAIN world.types) \X (DOMAIN world.types)
          /\ \A x \in DOMAIN f : f[x] = <<x[1], "contains", x[2]>>
      OBVIOUS
    <3>2. ASSUME NEW l \in extra PROVE l \in Range(f)
      <4>1. PICK o \in DOMAIN contents : \E i \in contents[o] : l = <<o, "contains", i>>
        OBVIOUS
      <4>2. PICK i \in contents[o] : l = <<o, "contains", i>>
        BY <4>1
      <4> HIDE DEF f, extra, o2o
      <4>3. o \in DOMAIN world.types /\ i \in DOMAIN world.types
        BY <1>1 DEF OrdersOf, FalseContents, ItemsOf
      <4>4. PICK x \in (DOMAIN world.types) \X (DOMAIN world.types) : x[1] = o /\ x[2] = i
        <5>1. PICK W : W = DOMAIN world.types
          OBVIOUS
        <5>2. o \in W /\ i \in W
          BY <4>3, <5>1
        <5>3. \E x \in W \X W : x[1] = o /\ x[2] = i
          BY <5>2, PairOf
        <5> QED BY <5>1, <5>3
      <4> QED BY <3>1, <4>2, <4>4 DEF Range
    <3> HIDE DEF f, extra
    <3> QED BY <3>2
  <2> HIDE DEF f, extra
  <2> QED BY <2>1, <2>2, FiniteRange, FS_Subset
<1>8. IsFiniteSet(o2o)
  <2> HIDE DEF extra
  <2>1. IsFiniteSet(world.o2o \union extra)
    BY <1>5, <1>7, FS_Union
  <2>2. o2o \in SUBSET (world.o2o \union extra)
    OBVIOUS
  <2> HIDE DEF o2o
  <2> QED BY <2>1, <2>2, FS_Subset
<1>9. universe'.refs = Registered(slots, GroundedE2O(slots), o2o)
  BY <1>1 DEF Grounded
<1> HIDE DEF o2o, extra
<1> QED BY <1>4, <1>5, <1>6, <1>8, <1>9, VariablesFinite

\* Regimes are those that scenarios pair with a world.
Regimes == {s[2] : s \in Scenarios}

\* What a source of these variables may be like.
ProfileSet ==
  [cluster : Nat, channel : {"binary", "categorical", "continuous"}, scope : SUBSET universe.refs,
   coverage : Coverages, declared : Coverages, copies : Nat \union {Unset}]

\* Sources are drawn from a universe, each with variables of its channel.
DrawnInv ==
  /\ regime \in Regimes
  /\ universe # Unset => IsFiniteSet(universe.refs)
  /\ hotspots # Unset => universe # Unset
  /\ hotspots = Unset => profiles = <<>>
  /\ profiles \in Seq(ProfileSet)
  /\ \A i \in DOMAIN profiles : \A r \in profiles[i].scope : ChannelOf(r.family) = profiles[i].channel

\* Claims that source i may make: within its scope, one for each variable, for
\* existences and links yes or no, and for types neither.
Spoken(i, scope, claims) ==
  /\ IsFiniteSet(claims)
  /\ \A c \in claims :
       /\ c = [source |-> i, ref |-> c.ref, value |-> c.value]
       /\ c.ref \in scope
       /\ ChannelOf(c.ref.family) = "binary" => c.value \in {Bool(TRUE), Bool(FALSE)}
       /\ ChannelOf(c.ref.family) = "categorical" => c.value \notin {Bool(TRUE), Bool(FALSE)}
  /\ \A c, d \in claims : c.ref = d.ref => c = d

\* The claims repeat what others claimed within a scope.
Repeats(scope, claims, others) ==
  /\ \A c \in claims : \E d \in others : d.ref = c.ref /\ d.value = c.value
  /\ claims = {} <=> ~ \E d \in others : d.ref \in scope

\* What is drawn of a source.
LEMMA ProfileIs ==
  ASSUME DrawnInv, NEW i \in DOMAIN profiles
  PROVE  /\ profiles[i] \in ProfileSet
         /\ IsFiniteSet(profiles[i].scope)
         /\ \A r \in profiles[i].scope : ChannelOf(r.family) = profiles[i].channel
<1>1. PICK n \in Nat : DOMAIN profiles = 1..n /\ profiles \in [1..n -> ProfileSet]
  BY DEF DrawnInv
<1>2. profiles[i] \in ProfileSet
  BY <1>1
<1>3. universe # Unset
  <2>1. CASE hotspots = Unset
    BY <2>1 DEF DrawnInv
  <2>2. CASE hotspots # Unset
    BY <2>2 DEF DrawnInv
  <2> QED BY <2>1, <2>2
<1>4. IsFiniteSet(universe.refs) /\ profiles[i].scope \in SUBSET universe.refs
  BY <1>2, <1>3 DEF DrawnInv, ProfileSet
<1>5. IsFiniteSet(profiles[i].scope)
  BY <1>4, FS_Subset
<1> QED BY <1>2, <1>5 DEF DrawnInv

\* A report on an existence or a link is yes, no or nothing.
LEMMA BinaryReportsAre ==
  ASSUME NEW p PROVE BinaryReports(p) \subseteq {Bool(TRUE), Bool(FALSE), Silent}
BY DEF BinaryReports

\* A report on a type is a name or nothing.
LEMMA CategoricalReportsAre ==
  ASSUME NEW r, NEW v \in CategoricalReports(r) PROVE v \notin {Bool(TRUE), Bool(FALSE)}
<1>1. v = Silent \/ \E t : v = Label(t)
  BY DEF CategoricalReports
<1>2. v[1] \in {"silent", "label"}
  BY <1>1 DEF Silent, Label
<1>3. Bool(TRUE)[1] = "bool" /\ Bool(FALSE)[1] = "bool"
  BY DEF Bool
<1> QED BY <1>2, <1>3

\* What an independent source observes is said of the variables in its scope.
LEMMA ObservedIsSpoken ==
  ASSUME DrawnInv, NEW i \in DOMAIN profiles, NEW claims \in Observations(i)
  PROVE  Spoken(i, profiles[i].scope, claims)
<1>1. PICK p, X : p = profiles[i] /\ X = p.scope
  OBVIOUS
<1>2. IsFiniteSet(X) /\ \A r \in X : ChannelOf(r.family) = p.channel
  BY <1>1, ProfileIs
<1>3. PICK said : /\ DOMAIN said = X /\ \A r \in X : said[r] \in Reports(p, r)
                  /\ claims = ClaimsOf(i, said)
  <2>1. PICK said \in {f \in [X -> UNION {Reports(p, r) : r \in X}] : \A r \in X : f[r] \in Reports(p, r)} :
          claims = ClaimsOf(i, said)
    BY <1>1 DEF Observations
  <2>2. DOMAIN said = X /\ \A r \in X : said[r] \in Reports(p, r)
    BY <2>1
  <2> QED BY <2>1, <2>2
<1> DEFINE Y == {r \in X : said[r] # Silent}
           g == [r \in Y |-> [source |-> i, ref |-> r, value |-> said[r]]]
<1>4. claims = Range(g) /\ DOMAIN g = Y /\ Y \in SUBSET X
  BY <1>3 DEF ClaimsOf, Range
<1>5. \A c \in claims : /\ c.ref \in Y /\ c.value = said[c.ref] /\ c.source = i
                        /\ c = [source |-> i, ref |-> c.ref, value |-> c.value]
  <2>1. SUFFICES ASSUME NEW c \in claims
                 PROVE  /\ c.ref \in Y /\ c.value = said[c.ref] /\ c.source = i
                        /\ c = [source |-> i, ref |-> c.ref, value |-> c.value]
    OBVIOUS
  <2>2. PICK r \in Y : c = [source |-> i, ref |-> r, value |-> said[r]]
    BY <1>4 DEF Range
  <2>3. c.ref = r /\ c.value = said[r] /\ c.source = i
    BY <2>2
  <2> HIDE DEF Y, g
  <2> QED BY <2>2, <2>3
<1> HIDE DEF g
<1>6. IsFiniteSet(claims)
  <2> HIDE DEF Y
  <2> QED BY <1>2, <1>4, FS_Subset, FiniteRange
<1>7. ASSUME NEW c \in claims, ChannelOf(c.ref.family) = "binary"
      PROVE  c.value \in {Bool(TRUE), Bool(FALSE)}
  <2>1. PICK r \in X : r = c.ref /\ said[r] # Silent /\ c.value = said[r]
    BY <1>5
  <2>2. p.channel = "binary"
    BY <1>2, <1>7, <2>1
  <2>3. said[r] \in BinaryReports(p)
    BY <1>3, <2>1, <2>2 DEF Reports
  <2> QED BY <2>1, <2>3, BinaryReportsAre
<1>10. ASSUME NEW c \in claims, ChannelOf(c.ref.family) = "categorical"
       PROVE  c.value \notin {Bool(TRUE), Bool(FALSE)}
  <2>1. PICK r \in X : r = c.ref /\ c.value = said[r]
    BY <1>5
  <2>2. p.channel = "categorical"
    BY <1>2, <1>10, <2>1
  <2>3. said[r] \in CategoricalReports(r)
    BY <1>3, <2>1, <2>2 DEF Reports
  <2> QED BY <2>1, <2>3, CategoricalReportsAre
<1>8. ASSUME NEW c \in claims, NEW d \in claims, c.ref = d.ref PROVE c = d
  BY <1>5, <1>8
<1>9. \A c \in claims : c.ref \in profiles[i].scope
  BY <1>1, <1>5
<1> QED BY <1>5, <1>6, <1>7, <1>8, <1>9, <1>10 DEF Spoken

\* A copier keeps one claim at least, however few there are.
LEMMA KeptSome ==
  ASSUME regime \in Regimes, NEW n \in Nat PROVE Kept(n) \in Int /\ Kept(n) >= 1
<1>1. PICK a, d : a = regime.fidelity[1] /\ d = regime.fidelity[2] /\ a \in Nat /\ d \in Nat \ {0}
  BY RegimeAssumption DEF Regimes
<1>2. PICK m \in Nat : m = a * n
  BY <1>1
<1>3. PICK q \in Int : q = m \div d
  BY <1>1
<1>4. PICK b \in BOOLEAN : b = (2 * (m % d) > d \/ (2 * (m % d) = d /\ q % 2 = 1))
  OBVIOUS
<1>5. Kept(n) = Larger(1, IF b THEN q + 1 ELSE q)
  BY <1>1, <1>2, <1>3, <1>4 DEF Kept
<1> QED BY <1>3, <1>5 DEF Larger

\* Renaming the source of a claim.
LEMMA RenamedIs ==
  ASSUME NEW i, NEW j, NEW c, c = [source |-> j, ref |-> c.ref, value |-> c.value]
  PROVE  [c EXCEPT !.source = i] = [source |-> i, ref |-> c.ref, value |-> c.value]
OBVIOUS

\* What is copied is a set of claims, renamed, of the variables in scope; it is
\* empty only if there is none.
LEMMA CopiesAre ==
  ASSUME DrawnInv, NEW i \in DOMAIN profiles, NEW j, NEW there, NEW others, Spoken(j, there, others),
         NEW claims \in Copies(i, others)
  PROVE  \E s \in SUBSET {c \in others : c.ref \in profiles[i].scope} :
           /\ claims = {[source |-> i, ref |-> c.ref, value |-> c.value] : c \in s}
           /\ s = {} => {c \in others : c.ref \in profiles[i].scope} = {}
           /\ IsFiniteSet(s)
<1>1. PICK within : within = {c \in others : c.ref \in profiles[i].scope}
  OBVIOUS
<1>2. PICK s \in SUBSET within : /\ Cardinality(s) = Smaller(Kept(Cardinality(within)), Cardinality(within))
                                 /\ claims = {[c EXCEPT !.source = i] : c \in s}
  BY <1>1 DEF Copies
<1>3. IsFiniteSet(within) /\ IsFiniteSet(s)
  BY <1>1, <1>2, FS_Subset DEF Spoken
<1>4. PICK n \in Nat : n = Cardinality(within)
  BY <1>3, FS_CardinalityType
<1>5. Kept(n) \in Int /\ Kept(n) >= 1
  BY KeptSome DEF DrawnInv
<1>6. ASSUME s = {} PROVE within = {}
  <2>1. Smaller(Kept(n), n) = 0
    BY <1>2, <1>4, <1>6, FS_EmptySet
  <2>2. n = 0
    BY <1>5, <2>1 DEF Smaller
  <2> QED BY <1>3, <1>4, <2>2, FS_EmptySet
<1>7. \A c \in s : [c EXCEPT !.source = i] = [source |-> i, ref |-> c.ref, value |-> c.value]
  BY <1>1, <1>2, RenamedIs DEF Spoken
<1>8. claims = {[source |-> i, ref |-> c.ref, value |-> c.value] : c \in s}
  <2> DEFINE copy(c) == [c EXCEPT !.source = i]
             renamed(c) == [source |-> i, ref |-> c.ref, value |-> c.value]
  <2>1. \A c \in s : copy(c) = renamed(c)
    BY <1>7
  <2>2. claims = {copy(c) : c \in s}
    BY <1>2
  <2> HIDE DEF copy, renamed
  <2>3. claims = {renamed(c) : c \in s}
    BY <2>1, <2>2
  <2> QED BY <2>3 DEF renamed
<1> QED BY <1>1, <1>2, <1>3, <1>6, <1>8

\* What a copier repeats is said of the variables in its own scope.
LEMMA CopiedIsSpoken ==
  ASSUME DrawnInv, NEW i \in DOMAIN profiles, NEW j, NEW there, NEW others, Spoken(j, there, others),
         NEW claims \in Copies(i, others)
  PROVE  Spoken(i, profiles[i].scope, claims) /\ Repeats(profiles[i].scope, claims, others)
<1>1. PICK within : within = {c \in others : c.ref \in profiles[i].scope}
  OBVIOUS
<1>2. PICK s \in SUBSET within :
        /\ claims = {[source |-> i, ref |-> c.ref, value |-> c.value] : c \in s}
        /\ s = {} => within = {}
        /\ IsFiniteSet(s)
  BY <1>1, CopiesAre
<1> DEFINE g == [c \in s |-> [source |-> i, ref |-> c.ref, value |-> c.value]]
<1>3. claims = Range(g) /\ DOMAIN g = s
  BY <1>2 DEF Range
<1> HIDE DEF g
<1>4. IsFiniteSet(claims)
  BY <1>2, <1>3, FiniteRange
<1>5. ASSUME NEW c \in claims
      PROVE  \E d \in s : /\ c = [source |-> i, ref |-> c.ref, value |-> c.value]
                          /\ c.ref = d.ref /\ c.value = d.value
  <2>1. PICK d \in s : c = [source |-> i, ref |-> d.ref, value |-> d.value]
    BY <1>2
  <2>2. c.ref = d.ref /\ c.value = d.value
    BY <2>1
  <2> QED BY <2>1, <2>2
<1>6. \A d \in s : d \in others /\ d.ref \in profiles[i].scope
  BY <1>1, <1>2
<1>7. ASSUME NEW c \in claims
      PROVE  /\ c = [source |-> i, ref |-> c.ref, value |-> c.value]
             /\ c.ref \in profiles[i].scope
             /\ ChannelOf(c.ref.family) = "binary" => c.value \in {Bool(TRUE), Bool(FALSE)}
             /\ ChannelOf(c.ref.family) = "categorical" => c.value \notin {Bool(TRUE), Bool(FALSE)}
  <2>1. PICK d \in s : c.ref = d.ref /\ c.value = d.value
    BY <1>5
  <2> QED BY <1>5, <1>6, <2>1 DEF Spoken
<1>8. ASSUME NEW c \in claims, NEW d \in claims, c.ref = d.ref PROVE c = d
  <2>1. PICK x \in s : c.ref = x.ref /\ c.value = x.value
    BY <1>5
  <2>2. PICK y \in s : d.ref = y.ref /\ d.value = y.value
    BY <1>5
  <2>3. x = y
    BY <1>6, <1>8, <2>1, <2>2 DEF Spoken
  <2> QED BY <1>7, <1>8, <2>1, <2>2, <2>3
<1>9. Spoken(i, profiles[i].scope, claims)
  BY <1>4, <1>7, <1>8 DEF Spoken
<1>10. \A c \in claims : \E d \in others : d.ref = c.ref /\ d.value = c.value
  BY <1>5, <1>6
<1>11. claims = {} <=> ~ \E d \in others : d.ref \in profiles[i].scope
  <2>1. claims = {} <=> s = {}
    BY <1>2
  <2> QED BY <1>1, <1>2, <2>1
<1> QED BY <1>9, <1>10, <1>11 DEF Repeats

\* What the constructed source holds.
Keeps(s, i, claims) ==
  /\ s = [id |-> i, claims |-> claims, coverage |-> s.coverage, scope |-> s.scope]
  /\ s.coverage \in Coverages
  /\ Claimed(claims) \subseteq s.scope

\* A source is accepted with the claims it may make.
LEMMA AcceptedIs ==
  ASSUME DrawnInv, NEW i \in DOMAIN profiles, NEW claims, Spoken(i, profiles[i].scope, claims), NEW s, s = SourceFor(i, claims)
  PROVE  AcceptedSource(s) /\ Keeps(s, i, claims)
<1>1. profiles[i].declared \in Coverages
  BY ProfileIs DEF ProfileSet
<1>2. \A c \in claims : c.source = i
  <2>1. SUFFICES ASSUME NEW c \in claims PROVE c.source = i
    OBVIOUS
  <2>2. c = [source |-> i, ref |-> c.ref, value |-> c.value]
    BY DEF Spoken
  <2> QED BY <2>2
<1>3. CASE SilenceIsEvidence(profiles[i].declared) /\ profiles[i].scope # Claimed(claims)
  <2>1. s = [id |-> i, claims |-> claims, coverage |-> profiles[i].declared, scope |-> profiles[i].scope]
    BY <1>3 DEF SourceFor
  <2>2. s.id = i /\ s.claims = claims /\ s.coverage = profiles[i].declared /\ s.scope = profiles[i].scope
    BY <2>1
  <2>3. Claimed(claims) \subseteq profiles[i].scope
    BY DEF Claimed, Spoken
  <2> QED BY <1>1, <1>2, <1>3, <2>1, <2>2, <2>3 DEF AcceptedSource, Keeps
<1>4. CASE ~ (SilenceIsEvidence(profiles[i].declared) /\ profiles[i].scope # Claimed(claims))
  <2>1. s = [id |-> i, claims |-> claims, coverage |-> "opportunistic", scope |-> Claimed(claims)]
    BY <1>4 DEF SourceFor
  <2>2. s.id = i /\ s.claims = claims /\ s.coverage = "opportunistic" /\ s.scope = Claimed(claims)
    BY <2>1
  <2> QED BY <1>2, <2>1, <2>2 DEF AcceptedSource, Keeps, Coverages, SilenceIsEvidence
<1> QED BY <1>3, <1>4

\* What was emitted, and the sources made of it.
EmittedInv ==
  /\ ~ refused
  /\ exemplars = Unset => emitted = <<>> /\ sources = <<>>
  /\ exemplars # Unset => exemplars \in [DOMAIN profiles -> DOMAIN profiles \union {Unset}]
  /\ DOMAIN emitted \subseteq DOMAIN profiles
  /\ \A i \in DOMAIN emitted : Spoken(i, profiles[i].scope, emitted[i])
  /\ \A i \in DOMAIN emitted :
       exemplars[i] # Unset =>
         \A j \in DOMAIN profiles : exemplars[j] = Unset \/ j < i => j \in DOMAIN emitted
  /\ \A i \in DOMAIN emitted :
       /\ exemplars[i] # Unset
       /\ exemplars[exemplars[i]] = Unset \/ exemplars[i] < i
       /\ exemplars[i] \in DOMAIN emitted /\ emitted[exemplars[i]] # {}
       => Repeats(profiles[i].scope, emitted[i], emitted[exemplars[i]])

\* Sources hold what was emitted under their ids, and no id is used twice.
ConstructedInv ==
  /\ sources \in Seq(Range(sources))
  /\ \A s \in Range(sources) : s.id \in DOMAIN emitted /\ Keeps(s, s.id, emitted[s.id])
  /\ \A s, t \in Range(sources) : s.id = t.id => s = t

\* The invariant of the generated sources.
SourcesInv == DrawnInv /\ EmittedInv /\ ConstructedInv

\* The fields of a profile that a choice of exemplar, or a degraded declaration,
\* leaves alone.
LEMMA ProfileFields ==
  ASSUME NEW p \in ProfileSet
  PROVE  /\ \A e \in Nat \union {Unset} :
              /\ [p EXCEPT !.copies = e] \in ProfileSet
              /\ [p EXCEPT !.copies = e].scope = p.scope /\ [p EXCEPT !.copies = e].channel = p.channel
         /\ \A v \in Coverages :
              /\ [p EXCEPT !.declared = v] \in ProfileSet
              /\ [p EXCEPT !.declared = v].scope = p.scope /\ [p EXCEPT !.declared = v].channel = p.channel
BY DEF ProfileSet

\* The profiles may change what they declare, and nothing else.
SameScopes ==
  /\ profiles' \in Seq(ProfileSet) /\ DOMAIN profiles' = DOMAIN profiles
  /\ \A i \in DOMAIN profiles : profiles'[i].scope = profiles[i].scope /\ profiles'[i].channel = profiles[i].channel

\* What was drawn does not depend on what sources declare.
LEMMA DrawnKeeps ==
  ASSUME DrawnInv, SameScopes, UNCHANGED <<universe, regime, hotspots>> PROVE DrawnInv'
<1>1. ProfileSet' = ProfileSet /\ Regimes' = Regimes
  BY DEF ProfileSet, Regimes
<1>2. profiles' \in Seq(ProfileSet')
  BY <1>1 DEF SameScopes
<1>3. ASSUME hotspots = Unset PROVE profiles' = <<>>
  <2>1. DOMAIN profiles = {}
    BY <1>3 DEF DrawnInv
  <2>2. profiles' \in Seq(ProfileSet) /\ DOMAIN profiles' = {}
    BY <2>1 DEF SameScopes
  <2> QED BY <2>2
<1>4. \A i \in DOMAIN profiles' : \A r \in profiles'[i].scope : ChannelOf(r.family) = profiles'[i].channel
  BY DEF DrawnInv, SameScopes
<1> QED BY <1>1, <1>2, <1>3, <1>4 DEF DrawnInv

\* Choosing exemplars.
LEMMA ExemplarsKeep ==
  ASSUME SourcesInv, ChooseExemplars PROVE SourcesInv'
<1>1. /\ exemplars = Unset /\ exemplars' \in CopyChoices
      /\ profiles' = [i \in DOMAIN profiles |-> [profiles[i] EXCEPT !.copies = exemplars'[i]]]
      /\ UNCHANGED <<universe, regime, hotspots, emitted, sources, refused>>
  BY DEF ChooseExemplars, worldVars
<1>2. PICK n \in Nat : DOMAIN profiles = 1..n /\ profiles \in [1..n -> ProfileSet]
  BY DEF SourcesInv, DrawnInv
<1>3. exemplars' \in [DOMAIN profiles -> DOMAIN profiles \union {Unset}]
  BY <1>1 DEF CopyChoices
<1>4. \A i \in 1..n : exemplars'[i] \in Nat \union {Unset}
  BY <1>2, <1>3
<1>5. \A i \in 1..n : /\ profiles'[i] \in ProfileSet
                      /\ profiles'[i].scope = profiles[i].scope /\ profiles'[i].channel = profiles[i].channel
  BY <1>1, <1>2, <1>4, ProfileFields
<1>6. DOMAIN profiles' = 1..n /\ profiles' \in [1..n -> ProfileSet]
  BY <1>1, <1>2, <1>5
<1>7. SameScopes
  BY <1>2, <1>5, <1>6 DEF SameScopes
<1>8. DrawnInv'
  BY <1>1, <1>7, DrawnKeeps DEF SourcesInv
<1>9. emitted = <<>> /\ sources = <<>>
  BY <1>1 DEF SourcesInv, EmittedInv
<1>10. emitted' = <<>> /\ sources' = <<>> /\ DOMAIN profiles' = DOMAIN profiles
  BY <1>1, <1>2, <1>6, <1>9
<1>11. EmittedInv'
  BY <1>1, <1>3, <1>10 DEF SourcesInv, EmittedInv
<1>12. ConstructedInv'
  BY <1>1, <1>9 DEF SourcesInv, ConstructedInv, Range
<1> QED BY <1>8, <1>11, <1>12 DEF SourcesInv

\* Drawing a source.
LEMMA DrawKeeps ==
  ASSUME SourcesInv, DrawSource PROVE SourcesInv'
<1>1. hotspots # Unset /\ exemplars = Unset
      /\ UNCHANGED <<universe, regime, hotspots, exemplars, emitted, sources, refused>>
  BY DEF DrawSource, worldVars
<1>2. emitted = <<>> /\ sources = <<>>
  BY <1>1 DEF SourcesInv, EmittedInv
<1>3. EmittedInv'
  BY <1>1, <1>2 DEF SourcesInv, EmittedInv
<1>4. ConstructedInv'
  BY <1>1, <1>2 DEF SourcesInv, ConstructedInv, Range
<1>5. DrawnInv'
  <2>1. CASE UNCHANGED profiles
    BY <1>1, <2>1 DEF SourcesInv, DrawnInv, ProfileSet
  <2>2. CASE ~ UNCHANGED profiles
    <3>a. PICK c \in 1..regime.clusters : \E f \in PickedFamilies(c) :
            \E size \in regime.targets : \E s \in Scopes(Pool(f), hotspots[f], size) :
              \E v \in regime.mix : \E w \in Declarations(v) : profiles' = Append(profiles, Profile(c, f, s, v, w))
      BY <2>2 DEF DrawSource
    <3>b. PICK f : \E size \in regime.targets : \E s \in Scopes(Pool(f), hotspots[f], size) :
              \E v \in regime.mix : \E w \in Declarations(v) : profiles' = Append(profiles, Profile(c, f, s, v, w))
      BY <3>a
    <3>c. PICK size, s : /\ s \in Scopes(Pool(f), hotspots[f], size)
                         /\ \E v \in regime.mix : \E w \in Declarations(v) :
                              profiles' = Append(profiles, Profile(c, f, s, v, w))
      BY <3>b
    <3>d. PICK v \in regime.mix : \E w \in Declarations(v) : profiles' = Append(profiles, Profile(c, f, s, v, w))
      BY <3>c
    <3>1. PICK w \in Declarations(v) : profiles' = Append(profiles, Profile(c, f, s, v, w))
      BY <3>d
    <3>2. s \subseteq Pool(f)
      BY <3>c DEF Scopes
    <3>3. PICK p : p = Profile(c, f, s, v, w)
      OBVIOUS
    <3>4. regime.mix \subseteq Coverages /\ regime.clusters \in Nat
      BY RegimeAssumption DEF SourcesInv, DrawnInv, Regimes
    <3>5. p \in ProfileSet
      <4>1. c \in Nat /\ v \in Coverages /\ w \in Coverages
        BY <3>4, <3>a, <3>d, <3>1 DEF Declarations
      <4>2. s \in SUBSET universe.refs
        BY <3>2 DEF Pool
      <4>3. ChannelOf(f) \in {"binary", "categorical", "continuous"}
        BY DEF ChannelOf
      <4> QED BY <3>3, <4>1, <4>2, <4>3 DEF Profile, ProfileSet
    <3>6. p.scope = s /\ p.channel = ChannelOf(f)
      BY <3>3 DEF Profile
    <3>7. \A r \in p.scope : ChannelOf(r.family) = p.channel
      BY <3>2, <3>6 DEF Pool
    <3>8. profiles \in Seq(ProfileSet) /\ profiles' = Append(profiles, p)
      BY <3>1, <3>3 DEF SourcesInv, DrawnInv
    <3>9. PICK n \in Nat : n = Len(profiles)
      BY <3>8
    <3>10. /\ profiles' \in Seq(ProfileSet) /\ DOMAIN profiles' = 1..(n + 1) /\ DOMAIN profiles = 1..n
           /\ profiles'[n + 1] = p /\ \A i \in 1..n : profiles'[i] = profiles[i]
      BY <3>5, <3>8, <3>9, AppendProperties
    <3>11. \A i \in DOMAIN profiles' : \A r \in profiles'[i].scope : ChannelOf(r.family) = profiles'[i].channel
      BY <3>7, <3>10 DEF SourcesInv, DrawnInv
    <3>12. ProfileSet' = ProfileSet /\ Regimes' = Regimes
      BY <1>1 DEF ProfileSet, Regimes
    <3> QED BY <1>1, <3>10, <3>11, <3>12 DEF SourcesInv, DrawnInv
  <2> QED BY <2>1, <2>2
<1> QED BY <1>3, <1>4, <1>5 DEF SourcesInv

\* EmittedInv reads nothing of the world.
LEMMA EmittedFrame ==
  ASSUME EmittedInv, UNCHANGED <<profiles, exemplars, emitted, sources, refused>> PROVE EmittedInv'
BY DEF EmittedInv

\* Making hotspots.
LEMMA HotspotsKeep ==
  ASSUME SourcesInv, MakeHotspots PROVE SourcesInv'
<1>1. universe # Unset /\ hotspots = Unset
      /\ UNCHANGED <<universe, regime, profiles, exemplars, emitted, sources, refused>>
  BY DEF MakeHotspots, worldVars
<1>2. EmittedInv'
  BY <1>1, EmittedFrame DEF SourcesInv
<1>3. ConstructedInv'
  BY <1>1 DEF SourcesInv, ConstructedInv, Range, Keeps
<1>4. DrawnInv'
  BY <1>1 DEF SourcesInv, DrawnInv, ProfileSet, Regimes
<1> QED BY <1>2, <1>3, <1>4 DEF SourcesInv

\* One more source, of an id that no other has.
LEMMA OneMoreSource ==
  ASSUME NEW before, before \in Seq(Range(before)), NEW s, NEW after, after = Append(before, s)
  PROVE  after \in Seq(Range(after)) /\ Range(after) = Range(before) \union {s}
<1>1. PICK S : S = Range(before) \union {s}
  OBVIOUS
<1>2. PICK n \in Nat : n = Len(before)
  OBVIOUS
<1>3. before \in Seq(S) /\ s \in S
  BY <1>1
<1>4. /\ after \in Seq(S) /\ DOMAIN after = 1..(n + 1) /\ DOMAIN before = 1..n
      /\ after[n + 1] = s /\ \A i \in 1..n : after[i] = before[i]
  BY <1>2, <1>3, AppendProperties
<1>5. Range(after) = S
  <2>1. ASSUME NEW x \in S PROVE x \in Range(after)
    <3>1. CASE x = s
      BY <1>4, <3>1 DEF Range
    <3>2. CASE x \in Range(before)
      <4>1. PICK i \in 1..n : x = before[i]
        BY <1>4, <3>2 DEF Range
      <4>2. i \in DOMAIN after /\ after[i] = x
        BY <1>4, <4>1
      <4> QED BY <4>2 DEF Range
    <3> QED BY <1>1, <3>1, <3>2
  <2>2. ASSUME NEW x \in Range(after) PROVE x \in S
    <3>1. PICK i \in 1..(n + 1) : x = after[i]
      BY <1>4, <2>2 DEF Range
    <3> QED BY <1>3, <1>4, <3>1
  <2> QED BY <2>1, <2>2
<1> QED BY <1>1, <1>4, <1>5

\* A copier speaks after what it copies.
LEMMA ClaimsAre ==
  ASSUME SourcesInv, NEW i \in DOMAIN profiles, exemplars # Unset,
         NEW claims \in IF Copying(i) THEN Copies(i, emitted[exemplars[i]]) ELSE Observations(i)
  PROVE  /\ Spoken(i, profiles[i].scope, claims)
         /\ exemplars[i] # Unset /\ exemplars[i] \in DOMAIN emitted /\ emitted[exemplars[i]] # {}
              => Repeats(profiles[i].scope, claims, emitted[exemplars[i]])
<1>1. CASE Copying(i)
  <2>1. PICK e, others : e = exemplars[i] /\ others = emitted[e] /\ e \in DOMAIN emitted
    BY <1>1 DEF Copying, HasEmitted
  <2>2. PICK there : Spoken(e, there, others)
    BY <2>1 DEF SourcesInv, EmittedInv
  <2>3. claims \in Copies(i, others)
    BY <1>1, <2>1
  <2>4. Spoken(i, profiles[i].scope, claims) /\ Repeats(profiles[i].scope, claims, others)
    BY <2>2, <2>3, CopiedIsSpoken DEF SourcesInv
  <2> QED BY <2>1, <2>4
<1>2. CASE ~ Copying(i)
  <2>1. Spoken(i, profiles[i].scope, claims)
    BY <1>2, ObservedIsSpoken DEF SourcesInv
  <2> QED BY <1>2, <2>1 DEF Copying, HasEmitted, Independent
<1> QED BY <1>1, <1>2

\* One more source emits its claims.
LEMMA EmissionKeeps ==
  ASSUME SourcesInv, EmitClaims PROVE SourcesInv'
<1>1. PICK i \in Silents :
        /\ \A j \in Silents \ {i} : EmitsBefore(i, j)
        /\ \E claims \in IF Copying(i) THEN Copies(i, emitted[exemplars[i]]) ELSE Observations(i) :
             LET s == SourceFor(i, claims)
             IN  /\ emitted' = [j \in DOMAIN emitted \union {i} |-> IF j = i THEN claims ELSE emitted[j]]
                 /\ profiles' = [profiles EXCEPT ![i].declared = s.coverage]
                 /\ refused' = ~ AcceptedSource(s)
                 /\ sources' = IF AcceptedSource(s) THEN Append(sources, s) ELSE sources
  BY DEF EmitClaims
<1>2. PICK claims \in IF Copying(i) THEN Copies(i, emitted[exemplars[i]]) ELSE Observations(i) :
        LET s == SourceFor(i, claims)
        IN  /\ emitted' = [j \in DOMAIN emitted \union {i} |-> IF j = i THEN claims ELSE emitted[j]]
            /\ profiles' = [profiles EXCEPT ![i].declared = s.coverage]
            /\ refused' = ~ AcceptedSource(s)
            /\ sources' = IF AcceptedSource(s) THEN Append(sources, s) ELSE sources
  BY <1>1
<1>3. exemplars # Unset /\ UNCHANGED <<universe, regime, hotspots, exemplars>>
  BY DEF EmitClaims, worldVars
<1>4. PICK s : s = SourceFor(i, claims)
  OBVIOUS
<1>5. i \in DOMAIN profiles /\ i \notin DOMAIN emitted
  BY DEF Silents
<1>6. /\ Spoken(i, profiles[i].scope, claims)
      /\ exemplars[i] # Unset /\ exemplars[i] \in DOMAIN emitted /\ emitted[exemplars[i]] # {}
           => Repeats(profiles[i].scope, claims, emitted[exemplars[i]])
  BY <1>2, <1>3, <1>5, ClaimsAre
<1>7. AcceptedSource(s) /\ Keeps(s, i, claims)
  BY <1>4, <1>5, <1>6, AcceptedIs DEF SourcesInv
<1>8. ~ refused' /\ sources' = Append(sources, s) /\ profiles' = [profiles EXCEPT ![i].declared = s.coverage]
  BY <1>2, <1>4, <1>7
<1>9. /\ DOMAIN emitted' = DOMAIN emitted \union {i} /\ emitted'[i] = claims
      /\ \A j \in DOMAIN emitted : emitted'[j] = emitted[j]
  BY <1>2, <1>5
<1>10. SameScopes
  <2>1. PICK n \in Nat : DOMAIN profiles = 1..n /\ profiles \in [1..n -> ProfileSet]
    BY DEF SourcesInv, DrawnInv
  <2>2. s.coverage \in Coverages
    BY <1>7 DEF Keeps
  <2>3. PICK p : p = [profiles[i] EXCEPT !.declared = s.coverage]
    OBVIOUS
  <2>4. p \in ProfileSet /\ p.scope = profiles[i].scope /\ p.channel = profiles[i].channel
    BY <1>5, <2>1, <2>2, <2>3, ProfileFields
  <2>5. DOMAIN profiles' = 1..n /\ \A j \in 1..n : profiles'[j] = IF j = i THEN p ELSE profiles[j]
    BY <1>8, <2>1, <2>3
  <2>6. profiles' = [j \in 1..n |-> IF j = i THEN p ELSE profiles[j]]
    BY <1>8, <2>1, <2>3
  <2>7. profiles' \in [1..n -> ProfileSet]
    BY <2>1, <2>4, <2>6
  <2> QED BY <2>1, <2>4, <2>5, <2>7 DEF SameScopes
<1>11. DrawnInv'
  BY <1>3, <1>10, DrawnKeeps DEF SourcesInv
<1>12. EmittedInv'
  <2>1. DOMAIN emitted' \subseteq DOMAIN profiles'
    BY <1>5, <1>9, <1>10 DEF SourcesInv, EmittedInv, SameScopes
  <2>2. exemplars' \in [DOMAIN profiles' -> DOMAIN profiles' \union {Unset}]
    BY <1>3, <1>10 DEF SourcesInv, EmittedInv, SameScopes
  <2>3. ASSUME NEW j \in DOMAIN emitted' PROVE Spoken(j, profiles'[j].scope, emitted'[j])
    <3>1. profiles'[j].scope = profiles[j].scope
      BY <1>10, <2>1, <2>3 DEF SameScopes
    <3>2. CASE j = i
      BY <1>6, <1>9, <3>1, <3>2
    <3>3. CASE j \in DOMAIN emitted
      BY <1>9, <3>1, <3>3 DEF SourcesInv, EmittedInv
    <3> QED BY <1>9, <3>2, <3>3
  <2>0. i \in Nat /\ DOMAIN profiles \subseteq Nat
    <3>1. PICK n \in Nat : DOMAIN profiles = 1..n
      BY DEF SourcesInv, DrawnInv
    <3> QED BY <1>5, <3>1
  <2>4. ASSUME NEW k \in DOMAIN emitted', exemplars[k] # Unset, NEW j \in DOMAIN profiles,
               exemplars[j] = Unset \/ j < k
        PROVE  j \in DOMAIN emitted'
    <3>1. CASE k \in DOMAIN emitted
      BY <1>9, <2>4, <3>1 DEF SourcesInv, EmittedInv
    <3>2. CASE k = i
      <4>1. SUFFICES ASSUME j \notin DOMAIN emitted PROVE FALSE
        BY <1>9
      <4>2. j \in Silents \ {i}
        BY <2>0, <2>4, <3>2, <4>1 DEF Silents
      <4>3. EmitsBefore(i, j)
        BY <1>1, <4>2
      <4>4. i < j /\ exemplars[j] # Unset
        BY <2>4, <3>2, <4>3 DEF EmitsBefore, Independent
      <4> QED BY <2>0, <2>4, <3>2, <4>4
    <3> QED BY <1>9, <3>1, <3>2
  <2>5. ASSUME NEW k \in DOMAIN emitted', exemplars[k] # Unset,
               exemplars[exemplars[k]] = Unset \/ exemplars[k] < k, exemplars[k] \in DOMAIN emitted', emitted'[exemplars[k]] # {}
        PROVE  Repeats(profiles'[k].scope, emitted'[k], emitted'[exemplars[k]])
    <3>1. PICK e : e = exemplars[k] /\ e \in DOMAIN profiles /\ k \in DOMAIN profiles
      BY <1>3, <1>5, <1>9, <2>5 DEF SourcesInv, EmittedInv
    <3>2. profiles'[k].scope = profiles[k].scope
      BY <1>10, <3>1 DEF SameScopes
    <3>3. CASE k \in DOMAIN emitted
      <4>1. e \in DOMAIN emitted
        BY <2>5, <3>1, <3>3 DEF SourcesInv, EmittedInv
      <4>2. emitted'[e] = emitted[e] /\ emitted'[k] = emitted[k]
        BY <1>9, <3>3, <4>1
      <4>3. Repeats(profiles[k].scope, emitted[k], emitted[e])
        BY <2>5, <3>1, <3>3, <4>1, <4>2 DEF SourcesInv, EmittedInv
      <4> QED BY <3>1, <3>2, <4>2, <4>3
    <3>4. CASE k = i
      <4>1. e # i /\ e \in DOMAIN emitted
        BY <1>9, <2>0, <2>5, <3>1, <3>4
      <4>2. emitted'[e] = emitted[e] /\ emitted'[k] = claims
        BY <1>9, <3>4, <4>1
      <4>3. Repeats(profiles[i].scope, claims, emitted[e])
        BY <1>6, <2>5, <3>1, <3>4, <4>1, <4>2
      <4> QED BY <3>1, <3>2, <3>4, <4>2, <4>3
    <3> QED BY <1>9, <3>3, <3>4
  <2>6. DOMAIN profiles' = DOMAIN profiles /\ ~ refused' /\ exemplars' = exemplars /\ exemplars' # Unset
    BY <1>3, <1>8, <1>10 DEF SameScopes
  <2> QED BY <2>1, <2>2, <2>3, <2>4, <2>5, <2>6 DEF EmittedInv
<1>13. ConstructedInv'
  <2>1. sources \in Seq(Range(sources))
    BY DEF SourcesInv, ConstructedInv
  <2>2. PICK S : S = Range(sources)
    OBVIOUS
  <2>3. sources' \in Seq(Range(sources')) /\ Range(sources') = S \union {s}
    BY <1>8, <2>1, <2>2, OneMoreSource
  <2>4. \A t \in S : t.id \in DOMAIN emitted /\ Keeps(t, t.id, emitted[t.id])
    BY <2>2 DEF SourcesInv, ConstructedInv
  <2>5. s.id = i
    BY <1>7 DEF Keeps
  <2>6. \A t \in S \union {s} : t.id \in DOMAIN emitted' /\ Keeps(t, t.id, emitted'[t.id])
    BY <1>7, <1>9, <2>4, <2>5
  <2>7. \A t, u \in S \union {s} : t.id = u.id => t = u
    BY <1>5, <2>2, <2>4, <2>5 DEF SourcesInv, ConstructedInv
  <2> QED BY <2>3, <2>6, <2>7 DEF ConstructedInv
<1> QED BY <1>11, <1>12, <1>13 DEF SourcesInv

\* The steps of the world, which change no source.
LEMMA WorldKeepsSources ==
  ASSUME WorldInv, Finite(world), SourcesInv, WorldNext, UNCHANGED sourceVars PROVE SourcesInv'
<1>1. UNCHANGED <<regime, hotspots, profiles, exemplars, emitted, sources, refused>>
  BY DEF sourceVars
<1>2. EmittedInv'
  BY <1>1, EmittedFrame DEF SourcesInv
<1>3. ConstructedInv'
  BY <1>1 DEF SourcesInv, ConstructedInv, Range, Keeps
<1>4. CASE BuildUniverse
  <2>1. universe = Unset /\ IsFiniteSet(universe'.refs)
    BY <1>4, UniverseFinite DEF BuildUniverse
  <2>2. hotspots = Unset /\ profiles = <<>>
    BY <2>1 DEF SourcesInv, DrawnInv
  <2>3. profiles' = <<>> /\ hotspots' = Unset
    BY <1>1, <2>2
  <2>4. profiles' \in Seq(ProfileSet') /\ DOMAIN profiles' = {}
    BY <2>3, EmptySeq
  <2>5. DrawnInv'
    BY <1>1, <2>1, <2>3, <2>4 DEF SourcesInv, DrawnInv, Regimes
  <2> QED BY <1>2, <1>3, <2>5 DEF SourcesInv
<1>5. CASE UNCHANGED universe
  <2>1. DrawnInv'
    BY <1>1, <1>5 DEF SourcesInv, DrawnInv, ProfileSet, Regimes
  <2> QED BY <1>2, <1>3, <2>1 DEF SourcesInv
<1>6. BuildUniverse \/ UNCHANGED universe
  BY DEF WorldNext, PlaceOrder, ConfirmOrder, PickItem, PackItem, Ship, Invoice, Pay, Stage, EndOrder, FinishWorld
<1> QED BY <1>4, <1>5, <1>6

\* There are no sources at first.
LEMMA SourcesBegin ==
  ASSUME GeneratingInit PROVE SourcesInv /\ Finite(world)
<1>1. /\ world = [events |-> <<>>, types |-> [c \in Customers |-> "Customer"], e2o |-> {}, o2o |-> {}]
      /\ universe = Unset /\ hotspots = Unset /\ profiles = <<>> /\ exemplars = Unset
      /\ emitted = <<>> /\ sources = <<>> /\ refused = FALSE
  BY DEF GeneratingInit, WorldInit
<1>2. regime \in Regimes
  BY DEF GeneratingInit, Regimes
<1>3. IsFiniteSet(Customers)
  <2>1. config.customers \in Nat
    BY WorldBegins, WorldAssumption DEF WorldInv
  <2>2. PICK n \in Nat : n = config.customers
    BY <2>1
  <2> DEFINE f == [i \in 1..n |-> <<"cust", i>>]
  <2>3. Range(f) = Customers /\ DOMAIN f = 1..n
    BY <2>2 DEF Range, Customers
  <2>4. IsFiniteSet(1..n)
    BY FS_Interval
  <2> HIDE DEF f
  <2> QED BY <2>3, <2>4, FiniteRange
<1>4. /\ world.events = <<>> /\ world.types = [c \in Customers |-> "Customer"] /\ world.e2o = {} /\ world.o2o = {}
      /\ world = [events |-> world.events, types |-> world.types, e2o |-> world.e2o, o2o |-> world.o2o]
  BY <1>1
<1>5. Finite(world)
  BY <1>3, <1>4, FS_EmptySet DEF Finite
<1>6. DOMAIN profiles = {} /\ DOMAIN emitted = {} /\ profiles \in Seq(ProfileSet)
  BY <1>1, EmptySeq
<1>7. DrawnInv
  BY <1>1, <1>2, <1>6 DEF DrawnInv
<1>8. EmittedInv
  BY <1>1, <1>6 DEF EmittedInv
<1>9. Range(sources) = {} /\ sources \in Seq(Range(sources))
  BY <1>1, EmptySeq DEF Range
<1>10. ConstructedInv
  BY <1>9 DEF ConstructedInv
<1> QED BY <1>5, <1>7, <1>8, <1>10 DEF SourcesInv

\* Every step keeps the invariant of the generated sources.
LEMMA SourcesStep ==
  ASSUME WorldInv, Finite(world), SourcesInv, [GeneratingNext]_generatingVars
  PROVE  SourcesInv' /\ Finite(world')
<1>1. CASE WorldNext /\ UNCHANGED sourceVars
  BY <1>1, WorldKeepsSources, StepsFinite
<1>2. CASE MakeHotspots
  BY <1>2, HotspotsKeep DEF MakeHotspots, worldVars
<1>3. CASE DrawSource
  BY <1>3, DrawKeeps DEF DrawSource, worldVars
<1>4. CASE ChooseExemplars
  BY <1>4, ExemplarsKeep DEF ChooseExemplars, worldVars
<1>5. CASE EmitClaims
  BY <1>5, EmissionKeeps DEF EmitClaims, worldVars
<1>6. CASE UNCHANGED generatingVars
  <2>1. UNCHANGED <<world, universe, regime, hotspots, profiles, exemplars, emitted, sources, refused>>
    BY <1>6 DEF generatingVars, worldVars, sourceVars
  <2>2. EmittedInv'
    BY <2>1, EmittedFrame DEF SourcesInv
  <2>3. ConstructedInv'
    BY <2>1 DEF SourcesInv, ConstructedInv, Range, Keeps
  <2>4. DrawnInv'
    BY <2>1 DEF SourcesInv, DrawnInv, ProfileSet, Regimes
  <2> QED BY <2>1, <2>2, <2>3, <2>4 DEF SourcesInv
<1> QED BY <1>1, <1>2, <1>3, <1>4, <1>5, <1>6 DEF GeneratingNext

\* The invariant is what is promised of copiers.
LEMMA FaithfulAre == ASSUME SourcesInv PROVE SourcesAreFaithful
<1>1. ~ refused
  BY DEF SourcesInv, EmittedInv
<1>2. ASSUME NEW i \in DOMAIN emitted, ~ Independent(i), HasEmitted(exemplars[i]),
             Independent(exemplars[i]) \/ exemplars[i] < i
      PROVE  /\ Said(i) \subseteq Said(exemplars[i])
             /\ Claimed(emitted[i]) = {} <=> Claimed(emitted[exemplars[i]]) \intersect profiles[i].scope = {}
  <2>1. PICK e, scope : e = exemplars[i] /\ scope = profiles[i].scope
    OBVIOUS
  <2>2. Repeats(scope, emitted[i], emitted[e])
    BY <1>2, <2>1 DEF SourcesInv, EmittedInv, Independent, HasEmitted
  <2>3. Said(i) \subseteq Said(e)
    BY <2>2 DEF Said, Repeats
  <2>4. Claimed(emitted[i]) = {} <=> emitted[i] = {}
    BY DEF Claimed
  <2>5. Claimed(emitted[e]) \intersect scope = {} <=> ~ \E d \in emitted[e] : d.ref \in scope
    BY DEF Claimed
  <2> QED BY <2>1, <2>2, <2>3, <2>4, <2>5 DEF Repeats
<1> QED BY <1>1, <1>2 DEF SourcesAreFaithful, SourcesAccepted, CopiersRepeat

\* No source that is generated is refused, and a copier of one that emitted before
\* it, an independent observer or an earlier copier, says what that said, within its
\* own scope.
THEOREM GeneratedSourcesAreFaithful == GeneratingSpec => []SourcesAreFaithful
<1> DEFINE Inv == WorldInv /\ OrderInv /\ FinishedInv /\ Finite(world) /\ SourcesInv
<1>1. GeneratingInit => Inv
  BY WorldBegins, SourcesBegin
<1>2. Inv /\ [GeneratingNext]_generatingVars => Inv'
  BY WorldSteps, SourcesStep
<1>3. Inv => SourcesAreFaithful
  BY FaithfulAre
<1> QED BY <1>1, <1>2, <1>3, PTL DEF GeneratingSpec

\* A claim is one that its source emitted.
LEMMA ClaimIs ==
  ASSUME SourcesInv, NEW c \in Claims
  PROVE  /\ c.source \in DOMAIN emitted /\ c \in emitted[c.source]
         /\ Spoken(c.source, profiles[c.source].scope, emitted[c.source])
<1>1. PICK s \in Range(sources) : c \in s.claims
  BY DEF Claims
<1>2. PICK i : i = s.id /\ i \in DOMAIN emitted /\ Keeps(s, i, emitted[i])
  BY DEF SourcesInv, ConstructedInv
<1>3. s.claims = emitted[i]
  BY <1>2 DEF Keeps
<1>4. Spoken(i, profiles[i].scope, emitted[i])
  BY <1>2 DEF SourcesInv, EmittedInv
<1>5. c = [source |-> i, ref |-> c.ref, value |-> c.value]
  BY <1>1, <1>3, <1>4 DEF Spoken
<1>6. c.source = i
  BY <1>5
<1> QED BY <1>1, <1>2, <1>3, <1>4, <1>6

\* What a constructed source emitted are claims.
LEMMA SourceIs ==
  ASSUME SourcesInv, NEW s \in Range(sources)
  PROVE  /\ s.id \in DOMAIN emitted /\ s.claims = emitted[s.id] /\ s.claims \subseteq Claims
         /\ Claimed(s.claims) \subseteq s.scope
         /\ \A c \in s.claims : c.source = s.id
<1>1. PICK i : i = s.id /\ i \in DOMAIN emitted /\ Keeps(s, i, emitted[i])
  BY DEF SourcesInv, ConstructedInv
<1>2. s.claims = emitted[i] /\ s.claims \subseteq Claims /\ Claimed(s.claims) \subseteq s.scope
  BY <1>1 DEF Keeps, Claims
<1>3. ASSUME NEW c \in s.claims PROVE c.source = i
  <2>1. Spoken(i, profiles[i].scope, emitted[i])
    BY <1>1 DEF SourcesInv, EmittedInv
  <2>2. c = [source |-> i, ref |-> c.ref, value |-> c.value]
    BY <1>2, <1>3, <2>1 DEF Spoken
  <2> QED BY <2>2
<1> QED BY <1>1, <1>2, <1>3

\* Claims of an existence or a link are boolean, those of a type are not, and a
\* source makes one.
LEMMA BinaryClaims ==
  ASSUME SourcesInv, NEW r \in BinaryRefs
  PROVE  /\ \A c \in ForRef(r) : c \in Claims /\ c.ref = r /\ (Boolean(c) <=> r.family # "event_type")
         /\ \A c, d \in ForRef(r) : c.source = d.source => c = d
<1>1. r.family # "event_type" => ChannelOf(r.family) = "binary"
  <2>1. SUFFICES ASSUME r.family # "event_type" PROVE ChannelOf(r.family) = "binary"
    OBVIOUS
  <2>2. StatesOf(r) = 2
    BY DEF BinaryRefs
  <2>3. r.family \notin {"event_time", "event_attr", "object_attr"}
    BY <2>1, <2>2 DEF StatesOf
  <2> QED BY <2>1, <2>3 DEF ChannelOf
<1>2. r.family = "event_type" => ChannelOf(r.family) = "categorical"
  BY DEF ChannelOf
<1>3. ASSUME NEW c \in ForRef(r)
      PROVE  c \in Claims /\ c.ref = r /\ (Boolean(c) <=> r.family # "event_type")
  <2>1. c \in Claims /\ c.ref = r
    BY DEF ForRef
  <2>2. PICK i : i = c.source /\ c \in emitted[i] /\ Spoken(i, profiles[i].scope, emitted[i])
    BY <2>1, ClaimIs
  <2>3. CASE r.family = "event_type"
    BY <1>2, <2>1, <2>2, <2>3 DEF Spoken, Boolean
  <2>4. CASE r.family # "event_type"
    BY <1>1, <2>1, <2>2, <2>4 DEF Spoken, Boolean
  <2> QED BY <2>1, <2>3, <2>4
<1>4. ASSUME NEW c \in ForRef(r), NEW d \in ForRef(r), c.source = d.source PROVE c = d
  <2>1. PICK i : i = c.source /\ c \in emitted[i] /\ Spoken(i, profiles[i].scope, emitted[i])
    BY <1>3, ClaimIs
  <2>2. d \in emitted[i]
    BY <1>3, <1>4, <2>1, ClaimIs
  <2> QED BY <1>3, <2>1, <2>2 DEF Spoken
<1> QED BY <1>3, <1>4

\* A vote is for or against.
LEMMA SignIs == \A c : Sign(c) \in {1, -1}
BY DEF Sign

\* What a source said is what it claims, or nothing.
LEMMA SaidIs ==
  ASSUME SourcesInv, NEW r \in BinaryRefs, NEW i
  PROVE  /\ \A c \in ForRef(r) : c.source = i /\ Boolean(c) => SaidOf(i, r) = Sign(c)
         /\ (~ \E c \in ForRef(r) : c.source = i /\ Boolean(c)) => SaidOf(i, r) = 0
<1>1. PICK own : own = {c \in ForRef(r) : c.source = i /\ Boolean(c)}
  OBVIOUS
<1>2. SaidOf(i, r) = IF own = {} THEN 0 ELSE Sign(CHOOSE c \in own : TRUE)
  BY <1>1 DEF SaidOf
<1>3. ASSUME NEW c \in ForRef(r), c.source = i, Boolean(c) PROVE SaidOf(i, r) = Sign(c)
  <2>1. c \in own
    BY <1>1, <1>3
  <2>2. \A d \in own : d = c
    BY <1>1, <1>3, BinaryClaims
  <2>3. (CHOOSE d \in own : TRUE) = c
    BY <2>1, <2>2
  <2> QED BY <1>2, <2>1, <2>3
<1>4. (~ \E c \in ForRef(r) : c.source = i /\ Boolean(c)) => own = {}
  BY <1>1
<1> QED BY <1>2, <1>3, <1>4

\* What dawid_skene() observes of a source on an assertion.
Observes(i, r) == IF Silence(i, r, SaidOf(i, r)) THEN -1 ELSE SaidOf(i, r)

\* A vote of a claim is observed.
LEMMA ClaimsAreObserved ==
  ASSUME SourcesInv, NEW r \in BinaryRefs, NEW v \in Votes(r)
  PROVE  /\ v = [source |-> v.source, ref |-> r, sign |-> Observes(v.source, r)]
         /\ v.source \in SourceIds
<1>1. PICK c \in ForRef(r) : Boolean(c) /\ v = [source |-> c.source, ref |-> r, sign |-> Sign(c)]
  BY DEF Votes
<1>2. v.source = c.source
  BY <1>1
<1>3. SaidOf(c.source, r) = Sign(c) /\ Sign(c) # 0
  BY <1>1, SaidIs, SignIs
<1>4. Observes(c.source, r) = Sign(c)
  BY <1>3 DEF Observes, Silence
<1>5. c.source \in SourceIds
  BY BinaryClaims DEF SourceIds
<1> QED BY <1>1, <1>2, <1>4, <1>5

\* So is the silence of a detector, counted where it claims nothing.
LEMMA SilencesAreObserved ==
  ASSUME SourcesInv, NEW r \in BinaryRefs, NEW s \in Detectors, r \in s.scope, r \notin Claimed(s.claims)
  PROVE  Observes(s.id, r) = -1 /\ (s.id \notin SourceIds => s.claims = {})
<1>1. s \in Range(sources)
  BY DEF Detectors
<1>2. ~ \E c \in ForRef(r) : c.source = s.id
  <2>1. SUFFICES ASSUME NEW c \in ForRef(r), c.source = s.id PROVE FALSE
    OBVIOUS
  <2>2. c \in Claims /\ c.ref = r
    BY BinaryClaims
  <2>3. c \in s.claims
    BY <1>1, <2>1, <2>2, ClaimIs, SourceIs
  <2> QED BY <2>2, <2>3 DEF Claimed
<1>3. SaidOf(s.id, r) = 0
  BY <1>2, SaidIs
<1>4. Observes(s.id, r) = -1
  BY <1>3 DEF Observes, Silence
<1>5. ASSUME NEW c \in s.claims PROVE s.id \in SourceIds
  <2>1. c \in Claims /\ c.source = s.id
    BY <1>1, SourceIs
  <2> QED BY <2>1 DEF SourceIds
<1> QED BY <1>4, <1>5

\* Every vote is observed, unless it is the silence of a source without claims.
LEMMA VotesAreObserved ==
  ASSUME SourcesInv, NEW r \in BinaryRefs, NEW v \in WeightedVotes(r)
  PROVE  /\ v = [source |-> v.source, ref |-> r, sign |-> Observes(v.source, r)]
         /\ v.source \notin SourceIds =>
              v.sign = -1 /\ \E s \in Detectors : s.id = v.source /\ s.claims = {} /\ r \in s.scope
<1>1. CASE v \in Votes(r)
  BY <1>1, ClaimsAreObserved
<1>2. CASE v \notin Votes(r)
  <2>1. PICK s \in Detectors : /\ r \in s.scope /\ r \notin Claimed(s.claims)
                               /\ v = [source |-> s.id, ref |-> r, sign |-> -1]
    BY <1>2 DEF WeightedVotes
  <2>2. v.source = s.id /\ v.sign = -1
    BY <2>1
  <2> QED BY <2>1, <2>2, SilencesAreObserved
<1> QED BY <1>1, <1>2

\* What is observed without a vote is the denial of a misread detector.
LEMMA UncountedIsMisread ==
  ASSUME SourcesInv, NEW r \in BinaryRefs, NEW i, ~ \E v \in WeightedVotes(r) : v.source = i
  PROVE  Observes(i, r) = IF Misread(i, r) THEN -1 ELSE 0
<1>1. ~ \E c \in ForRef(r) : c.source = i /\ Boolean(c)
  <2>1. SUFFICES ASSUME NEW c \in ForRef(r), c.source = i, Boolean(c) PROVE FALSE
    OBVIOUS
  <2>2. PICK v : v = [source |-> c.source, ref |-> r, sign |-> Sign(c)]
    OBVIOUS
  <2>3. v \in WeightedVotes(r)
    BY <2>1, <2>2 DEF Votes, WeightedVotes
  <2>4. v.source = i
    BY <2>1, <2>2
  <2> QED BY <2>3, <2>4
<1>2. SaidOf(i, r) = 0
  BY <1>1, SaidIs
<1>3. ASSUME Misread(i, r) PROVE Observes(i, r) = -1
  <2>1. PICK s \in Detectors : s.id = i /\ r \in Claimed(s.claims)
    BY <1>3 DEF Misread
  <2>2. r \in s.scope
    BY <2>1, SourceIs DEF Detectors
  <2> QED BY <1>2, <2>1, <2>2 DEF Observes, Silence
<1>4. ASSUME ~ Misread(i, r) PROVE Observes(i, r) = 0
  <2>1. SUFFICES ASSUME NEW s \in Detectors, s.id = i, r \in s.scope PROVE FALSE
    BY <1>2 DEF Observes, Silence
  <2>2. r \in Claimed(s.claims)
    <3>1. SUFFICES ASSUME r \notin Claimed(s.claims) PROVE FALSE
      OBVIOUS
    <3>2. PICK v : v = [source |-> s.id, ref |-> r, sign |-> -1]
      OBVIOUS
    <3>3. v \in WeightedVotes(r)
      BY <2>1, <3>1, <3>2 DEF WeightedVotes
    <3>4. v.source = i
      BY <2>1, <3>2
    <3> QED BY <3>3, <3>4
  <2>3. PICK c \in s.claims : c.ref = r
    BY <2>2 DEF Claimed
  <2>4. c \in ForRef(r) /\ c.source = i
    BY <2>1, <2>3, SourceIs DEF Detectors, ForRef
  <2>5. r.family = "event_type"
    BY <1>1, <2>4, BinaryClaims
  <2> QED BY <1>4, <2>1, <2>2, <2>5 DEF Misread
<1> QED BY <1>3, <1>4

\* There are finitely many claims.
LEMMA ClaimsFinite == ASSUME SourcesInv PROVE IsFiniteSet(Claims)
<1>1. IsFiniteSet(Range(sources))
  <2>1. PICK n \in Nat : DOMAIN sources = 1..n
    BY DEF SourcesInv, ConstructedInv
  <2>2. IsFiniteSet(DOMAIN sources)
    BY <2>1, FS_Interval
  <2> QED BY <2>2, FiniteRange
<1> DEFINE h == [s \in Range(sources) |-> s.claims]
<1>2. Claims = UNION Range(h) /\ DOMAIN h = Range(sources) /\ \A s \in DOMAIN h : h[s] = s.claims
  BY DEF Claims, Range
<1> HIDE DEF h
<1>3. ASSUME NEW x \in Range(h) PROVE IsFiniteSet(x)
  <2>1. PICK s \in Range(sources) : x = s.claims
    BY <1>2 DEF Range
  <2>2. PICK i : i = s.id /\ i \in DOMAIN emitted /\ x = emitted[i]
    BY <2>1, SourceIs
  <2> QED BY <2>2 DEF SourcesInv, EmittedInv, Spoken
<1>4. IsFiniteSet(Range(h))
  BY <1>1, <1>2, FiniteRange
<1> QED BY <1>2, <1>3, <1>4, FS_UNION

\* Each source has one vote among the claims.
LEMMA VotesCounted ==
  ASSUME SourcesInv, NEW r \in BinaryRefs
  PROVE  Majority(r)[2] = Cardinality({c.source : c \in {c \in ForRef(r) : Boolean(c)}})
<1>1. PICK said : said = {c \in ForRef(r) : Boolean(c)}
  OBVIOUS
<1>2. PICK voters : voters = {c.source : c \in said}
  OBVIOUS
<1> DEFINE vote == [c \in said |-> [source |-> c.source, ref |-> r, sign |-> Sign(c)]]
           g == [v \in Votes(r) |-> v.source]
<1>3. Votes(r) = Range(vote) /\ DOMAIN vote = said
  BY <1>1 DEF Votes, Range
<1>4. IsFiniteSet(Votes(r))
  <2>1. said \in SUBSET Claims
    BY <1>1 DEF ForRef
  <2>2. IsFiniteSet(said)
    BY <2>1, ClaimsFinite, FS_Subset
  <2> HIDE DEF vote
  <2> QED BY <1>3, <2>2, FiniteRange
<1>5. ASSUME NEW v \in Votes(r) PROVE \E c \in said : v.source = c.source
  <2>1. PICK c \in said : v = [source |-> c.source, ref |-> r, sign |-> Sign(c)]
    BY <1>1 DEF Votes
  <2>2. v.source = c.source
    BY <2>1
  <2> QED BY <2>2
<1>6. ASSUME NEW c \in said PROVE \E v \in Votes(r) : v.source = c.source
  <2>1. PICK v : v = [source |-> c.source, ref |-> r, sign |-> Sign(c)]
    OBVIOUS
  <2>2. v \in Votes(r)
    BY <1>1, <2>1 DEF Votes
  <2>3. v.source = c.source
    BY <2>1
  <2> QED BY <2>2, <2>3
<1>7. \A v, w \in Votes(r) : v.source = w.source => v = w
  BY ClaimsAreObserved
<1>8. PICK V : V = Votes(r)
  OBVIOUS
<1>9. g \in Surjection(V, voters) /\ g \in Injection(V, voters)
  BY <1>2, <1>5, <1>6, <1>7, <1>8 DEF Surjection, Injection, IsInjective
<1> HIDE DEF g, vote
<1>10. Cardinality(voters) = Cardinality(V)
  BY <1>4, <1>8, <1>9, FS_Surjection
<1>11. Majority(r)[2] = Cardinality(V)
  BY <1>8 DEF Majority
<1> QED BY <1>1, <1>2, <1>10, <1>11

\* What the votes are to one another on assertion r.
Agreed(r) ==
  /\ \A v, w \in WeightedVotes(r) : v.source = w.source => v = w
  /\ Majority(r)[2] = Cardinality({c.source : c \in {c \in ForRef(r) : Boolean(c)}})
  /\ \A v \in WeightedVotes(r) :
       \/ v.source \in SourceIds /\ Observed[<<v.source, r>>] = v.sign
       \/ v.source \notin SourceIds /\ v.sign = -1
            /\ \E s \in Detectors : s.id = v.source /\ s.claims = {} /\ r \in s.scope
  /\ \A i \in SourceIds :
       (~ \E v \in WeightedVotes(r) : v.source = i)
         => Observed[<<i, r>>] = IF Misread(i, r) THEN -1 ELSE 0

\* The baselines read the same claims, so what one of them sees of a source the others see.
LEMMA SayIsSame == ASSUME SourcesInv PROVE SameSay
<1>1. SUFFICES ASSUME NEW r \in BinaryRefs PROVE Agreed(r)
  BY DEF SameSay, Agreed
<1>2. ASSUME NEW v \in WeightedVotes(r), NEW w \in WeightedVotes(r), v.source = w.source PROVE v = w
  BY <1>2, VotesAreObserved
<1>3. ASSUME NEW i \in SourceIds PROVE Observed[<<i, r>>] = Observes(i, r)
  <2>1. PICK x : x = <<i, r>>
    OBVIOUS
  <2>2. x[1] = i /\ x[2] = r
    BY <2>1
  <2>3. x \in SourceIds \X BinaryRefs
    BY <2>1
  <2>4. Observed[x] = Observes(i, r)
    BY <2>2, <2>3 DEF Observed, Observes
  <2> QED BY <2>1, <2>4
<1>4. ASSUME NEW v \in WeightedVotes(r)
      PROVE  \/ v.source \in SourceIds /\ Observed[<<v.source, r>>] = v.sign
             \/ v.source \notin SourceIds /\ v.sign = -1
                  /\ \E s \in Detectors : s.id = v.source /\ s.claims = {} /\ r \in s.scope
  <2>1. PICK i, said : i = v.source /\ said = Observes(i, r)
    OBVIOUS
  <2>2. v = [source |-> i, ref |-> r, sign |-> said]
    BY <2>1, VotesAreObserved
  <2>3. v.sign = said
    BY <2>2
  <2>4. CASE i \in SourceIds
    BY <1>3, <2>1, <2>3, <2>4
  <2>5. CASE i \notin SourceIds
    BY <2>1, <2>5, VotesAreObserved
  <2> QED BY <2>4, <2>5
<1>5. ASSUME NEW i \in SourceIds, ~ \E v \in WeightedVotes(r) : v.source = i
      PROVE  Observed[<<i, r>>] = IF Misread(i, r) THEN -1 ELSE 0
  BY <1>3, <1>5, UncountedIsMisread
<1> QED BY <1>2, <1>4, <1>5, VotesCounted DEF Agreed

\* Enough overlap for a triplet is enough for an edge.
LEMMA AgreeingIsEdge ==
  ASSUME SourcesInv, NEW i, NEW j, Agreeing(i, j) PROVE Edge(i, j)
<1>1. IsFiniteSet(Shared(i, j))
  <2> DEFINE said == {c \in Claims : c.source = i /\ Boolean(c)}
             g == [c \in said |-> c.ref]
  <2>1. IsFiniteSet(said)
    BY ClaimsFinite, FS_Subset
  <2>2. VotedBy(i) = Range(g) /\ DOMAIN g = said
    BY DEF VotedBy, Range
  <2> HIDE DEF said, g
  <2>3. IsFiniteSet(VotedBy(i))
    BY <2>1, <2>2, FiniteRange
  <2>4. Shared(i, j) \in SUBSET VotedBy(i)
    BY DEF Shared
  <2> QED BY <2>3, <2>4, FS_Subset
<1>2. PICK n \in Nat : n = Cardinality(Shared(i, j))
  BY <1>1, FS_CardinalityType
<1>3. i # j /\ n >= TripletOverlap
  BY <1>2 DEF Agreeing
<1>4. n >= MinOverlap
  BY <1>3, OverlapAssumption
<1> QED BY <1>2, <1>3, <1>4 DEF Edge

\* There are finitely many voters.
LEMMA VotersFinite == ASSUME SourcesInv PROVE IsFiniteSet(Voters)
<1> DEFINE said == {c \in Claims : Boolean(c)}
           g == [c \in said |-> c.source]
<1>1. IsFiniteSet(said)
  BY ClaimsFinite, FS_Subset
<1>2. Voters = Range(g) /\ DOMAIN g = said
  BY DEF Voters, Range
<1> HIDE DEF said, g
<1> QED BY <1>1, <1>2, FiniteRange

\* Three different members.
LEMMA ThreeAre ==
  ASSUME NEW i, NEW j, NEW k, i # j, i # k, j # k PROVE IsFiniteSet({i, j, k}) /\ Cardinality({i, j, k}) = 3
<1>1. IsFiniteSet({i}) /\ Cardinality({i}) = 1
  BY FS_Singleton
<1>2. IsFiniteSet({i, j}) /\ Cardinality({i, j}) = 2
  <2>1. {i, j} = {i} \union {j} /\ j \notin {i}
    OBVIOUS
  <2> QED BY <1>1, <2>1, FS_AddElement
<1>3. {i, j, k} = {i, j} \union {k} /\ k \notin {i, j}
  OBVIOUS
<1> QED BY <1>2, <1>3, FS_AddElement

\* A triangle is in one component, which has three sources and no two sides.
LEMMA CoveredIs == ASSUME SourcesInv PROVE CoveredIsIdentified
<1>1. SUFFICES ASSUME NEW i \in Covered PROVE Verdict(i) = "identified"
  BY DEF CoveredIsIdentified
<1>2. PICK j \in Voters, k \in Voters : Triplet(i, j, k)
  BY DEF Covered
<1>3. i \in Voters /\ i # j /\ i # k /\ j # k /\ Edge(i, j) /\ Edge(i, k) /\ Edge(j, k)
  BY <1>2, AgreeingIsEdge DEF Covered, Triplet, Agreeing
<1>4. PICK C : C = Component(i)
  OBVIOUS
<1>5. i \in C /\ j \in C /\ k \in C /\ C \in SUBSET Voters
  BY <1>2, <1>3, <1>4 DEF Component, Closed
<1>6. ~ Bipartite(C)
  BY <1>3, <1>5 DEF Bipartite
<1>7. Cardinality(C) \in Nat /\ 3 <= Cardinality(C)
  <2>1. PICK T : T = {i, j, k}
    OBVIOUS
  <2>2. Cardinality(T) = 3
    BY <1>3, <2>1, ThreeAre
  <2>3. IsFiniteSet(C)
    BY <1>5, VotersFinite, FS_Subset
  <2>4. Cardinality(T) <= Cardinality(C)
    BY <1>5, <2>1, <2>3, FS_Subset
  <2> QED BY <2>2, <2>3, <2>4, FS_CardinalityType
<1>8. ~ (Cardinality(C) < 3)
  BY <1>7
<1> QED BY <1>4, <1>6, <1>8 DEF Verdict

\* On assertions with two states, existences, links and types of two, the votes count
\* one say of each source; what dawid_skene() observes differs from what weighted_vote()
\* counts only for a silent source without claims, which it does not know, and for a
\* detector that named a type, whose claim it reads as silence and so as a denial; and
\* accuracies are estimated only where the overlap graph identifies them.
THEOREM GeneratedBaselinesAgree == GeneratingSpec => []BaselinesAgree
<1> DEFINE Inv == WorldInv /\ OrderInv /\ FinishedInv /\ Finite(world) /\ SourcesInv
<1>1. GeneratingInit => Inv
  BY WorldBegins, SourcesBegin
<1>2. Inv /\ [GeneratingNext]_generatingVars => Inv'
  BY WorldSteps, SourcesStep
<1>3. Inv => BaselinesAgree
  BY SayIsSame, CoveredIs DEF BaselinesAgree
<1> QED BY <1>1, <1>2, <1>3, PTL DEF GeneratingSpec

=============================================================================
