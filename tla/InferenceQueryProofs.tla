------------------------ MODULE InferenceQueryProofs ------------------------
(***************************************************************************)
(* What a bundle needs is what its queries need, and the chosen engine     *)
(* supplies it, for all bundles, policies and registries.                  *)
(* Then the comparison of settings: they differ in nothing but their       *)
(* trust, and share no random value.                                       *)
(***************************************************************************)
EXTENDS InferenceQuery, SettingsComparison, FiniteSetTheorems, SequenceTheorems, TLAPS

-----------------------------------------------------------------------------
(***************************************************************************)
(* Combining needs                                                         *)
(***************************************************************************)

\* There are finitely many capabilities.
LEMMA CapabilitiesFinite == IsFiniteSet(Capabilities)
<1>1. Capabilities = {"marginal"} \union {"joint"} \union {"expectation"}
                       \union {"normalizer"} \union {"joint_draws"}
  BY DEF Capabilities
<1>2. IsFiniteSet({"marginal"}) /\ IsFiniteSet({"joint"}) /\ IsFiniteSet({"expectation"})
      /\ IsFiniteSet({"normalizer"}) /\ IsFiniteSet({"joint_draws"})
  BY FS_Singleton
<1>3. QED
  BY <1>1, <1>2, FS_Union

\* Removing supersets leaves something below every alternative.
LEMMA MinimalBelow ==
  ASSUME NEW options \in SUBSET SUBSET Capabilities, NEW a \in options
  PROVE  \E m \in Minimal(options) : m \subseteq a
<1> DEFINE below == {x \in options : x \subseteq a}
<1>1. IsWellFoundedOn(StrictSubsetOrdering(Capabilities), SUBSET Capabilities)
  BY CapabilitiesFinite, FS_StrictSubsetOrderingWellFounded, FS_FiniteSubsetsOfFinite
<1>2. below \subseteq SUBSET Capabilities /\ below # {}
  OBVIOUS
<1>3. PICK m \in below : \A x \in below : ~ (<<x, m>> \in StrictSubsetOrdering(Capabilities))
  <2> HIDE DEF below
  <2> QED
    BY <1>1, <1>2, WFMin
<1>4. ASSUME NEW b \in options, b \subseteq m, b # m
      PROVE  FALSE
  <2>1. b \in below
    BY <1>3, <1>4
  <2>2. <<b, m>> \in (SUBSET Capabilities) \X (SUBSET Capabilities)
    BY <1>2, <1>3
  <2>3. <<b, m>> \in StrictSubsetOrdering(Capabilities)
    BY <1>4, <2>2 DEF StrictSubsetOrdering
  <2>4. QED
    BY <1>3, <2>1, <2>3
<1>5. m \in Minimal(options)
  BY <1>3, <1>4 DEF Minimal
<1>6. QED
  BY <1>3, <1>5

\* What is collected: something is always there, and no need for anything
\* is not beside alternatives.
Proper(needs) ==
  /\ needs \in Needs
  /\ needs.alternatives # {}
  /\ {} \in needs.alternatives => needs.alternatives = {{}}

\* Including a query's needs keeps this form.
LEMMA IncludeProper ==
  ASSUME NEW needs, Proper(needs), NEW more \in Needs
  PROVE  Proper(Include(needs, more))
<1> DEFINE options == OneOfEach(needs.alternatives, Needed(more.alternatives))
<1>1. Needed(more.alternatives) \in SUBSET SUBSET Capabilities /\ Needed(more.alternatives) # {}
  BY DEF Needed, NoneYet, Needs
<1>2. options \in SUBSET SUBSET Capabilities /\ options # {}
  <2>1. needs.alternatives \in SUBSET SUBSET Capabilities
    BY DEF Proper, Needs
  <2>2. PICK x \in needs.alternatives, y \in Needed(more.alternatives) : TRUE
    BY <1>1 DEF Proper
  <2>3. x \union y \in options
    BY DEF OneOfEach
  <2>4. ASSUME NEW a \in options
        PROVE  a \in SUBSET Capabilities
    BY <1>1, <2>1 DEF OneOfEach
  <2> QED
    BY <2>3, <2>4
<1>3. Include(needs, more) =
        [capabilities |-> needs.capabilities \union more.capabilities,
         alternatives |-> Minimal(options)]
  BY DEF Include
<1> HIDE DEF options
<1>4. Minimal(options) \in SUBSET SUBSET Capabilities
  BY <1>2 DEF Minimal
<1>5. Minimal(options) # {}
  BY <1>2, MinimalBelow
<1>6. {} \in Minimal(options) => Minimal(options) = {{}}
  BY DEF Minimal
<1>7. needs.capabilities \union more.capabilities \in SUBSET Capabilities
  BY DEF Proper, Needs
<1>8. QED
  BY <1>3, <1>4, <1>5, <1>6, <1>7 DEF Proper, Needs

\* A posterior satisfies the combination if it satisfies both.
LEMMA IncludeSatisfied ==
  ASSUME NEW needs, Proper(needs), NEW more \in Needs, NEW available
  PROVE  SatisfiedBy(Include(needs, more), available)
           <=> SatisfiedBy(needs, available) /\ SatisfiedBy(more, available)
<1> DEFINE options == OneOfEach(needs.alternatives, Needed(more.alternatives))
           both == needs.capabilities \union more.capabilities
<1>1. options \in SUBSET SUBSET Capabilities
  BY DEF OneOfEach, Proper, Needs, Needed, NoneYet
<1>2. Include(needs, more).capabilities = both /\ Include(needs, more).alternatives = Minimal(options)
  BY DEF Include
<1>3. Minimal(options) # {}
  BY <1>2, IncludeProper DEF Proper
<1>4. (\E m \in Minimal(options) : m \subseteq available) <=> (\E a \in options : a \subseteq available)
  <2>1. ASSUME NEW a \in options, a \subseteq available
        PROVE  \E m \in Minimal(options) : m \subseteq available
    <3> HIDE DEF options
    <3>1. PICK m \in Minimal(options) : m \subseteq a
      BY <1>1, MinimalBelow
    <3> QED
      BY <2>1, <3>1
  <2>2. Minimal(options) \subseteq options
    BY DEF Minimal
  <2> QED
    BY <2>1, <2>2
<1>5. (\E a \in options : a \subseteq available)
        <=> /\ \E x \in needs.alternatives : x \subseteq available
            /\ \E y \in Needed(more.alternatives) : y \subseteq available
  <2>1. ASSUME NEW x \in needs.alternatives, NEW y \in Needed(more.alternatives),
               x \subseteq available, y \subseteq available
        PROVE  \E a \in options : a \subseteq available
    <3>1. x \union y \in options
      BY DEF OneOfEach
    <3> QED
      BY <2>1, <3>1
  <2>2. ASSUME NEW a \in options, a \subseteq available
        PROVE  /\ \E x \in needs.alternatives : x \subseteq available
               /\ \E y \in Needed(more.alternatives) : y \subseteq available
    <3>1. PICK x \in needs.alternatives, y \in Needed(more.alternatives) : a = x \union y
      BY <2>2 DEF OneOfEach
    <3> QED
      BY <2>2, <3>1
  <2> QED
    BY <2>1, <2>2
<1>6. (\E y \in Needed(more.alternatives) : y \subseteq available)
        <=> (more.alternatives # {} => \E y \in more.alternatives : y \subseteq available)
  BY DEF Needed, NoneYet
<1>7. (both \subseteq available)
        <=> needs.capabilities \subseteq available /\ more.capabilities \subseteq available
  OBVIOUS
<1> HIDE DEF options, both
<1>8. needs.alternatives # {}
  BY DEF Proper
<1>9. QED
  BY <1>2, <1>3, <1>4, <1>5, <1>6, <1>7, <1>8 DEF SatisfiedBy

\* Dropping the empty alternative at the end changes nothing.
LEMMA CollectedSatisfied ==
  ASSUME NEW needs, Proper(needs), NEW available
  PROVE  /\ Collected(needs) \in Needs
         /\ SatisfiedBy(Collected(needs), available) <=> SatisfiedBy(needs, available)
<1>1. /\ Collected(needs) \in Needs
      /\ Collected(needs).capabilities = needs.capabilities
      /\ Collected(needs).alternatives = needs.alternatives \ {{}}
  BY DEF Collected, Proper, Needs, NoneYet
<1>2. CASE {} \in needs.alternatives
  <2>1. needs.alternatives = {{}}
    BY <1>2 DEF Proper
  <2> QED
    BY <1>1, <2>1 DEF SatisfiedBy
<1>3. CASE {} \notin needs.alternatives
  <2>1. needs.alternatives \ {{}} = needs.alternatives
    BY <1>3
  <2> QED
    BY <1>1, <2>1 DEF SatisfiedBy
<1> QED
  BY <1>2, <1>3

-----------------------------------------------------------------------------
(***************************************************************************)
(* The route                                                               *)
(***************************************************************************)

\* The route is a sequence of engines, and what they supply is known.
LEMMA RouteOfEngines ==
  ASSUME setting \in Settings
  PROVE  /\ Route \in Seq(Engines)
         /\ Len(Route) \in Nat \ {0}
         /\ \A i \in 1..Len(Route) : Route[i] \in Engines
<1>1. CASE setting.engine = "auto"
  BY <1>1 DEF Route, AutoRoute, Engines, Exact
<1>2. CASE setting.engine # "auto"
  <2>1. setting.engine \in Engines
    BY <1>2, QueryAssumption
  <2> QED
    BY <1>2, <2>1 DEF Route
<1> QED
  BY <1>1, <1>2

LEMMA SuppliesCapabilities ==
  ASSUME NEW name \in Engines
  PROVE  Supplies(name) \in SUBSET Capabilities
BY DEF Supplies, Engines, Exact, Capabilities

-----------------------------------------------------------------------------
(***************************************************************************)
(* The inductive invariant of planning                                     *)
(***************************************************************************)
SatisfiesFirst(n, available) == \A i \in 1..n : SatisfiedBy(bundle[i].needs, available)

\* What is required together is what the first n queries need.
RequiredOf(n) ==
  \A available \in SUBSET Capabilities :
    SatisfiedBy(required, available) <=> SatisfiesFirst(n, available)

PlanInv ==
  /\ bundle \in Seq(Queries)
  /\ setting \in Settings
  /\ considered \in Seq(Engines)
  /\ plan \in Engines \union {None}
  /\ pc = "require" =>
       /\ position \in 0..Len(bundle)
       /\ Proper(required)
       /\ RequiredOf(position)
       /\ considered = <<>>
  /\ pc = "plan" =>
       /\ position = Len(considered)
       /\ position < Len(Route)
       /\ RequiredOf(Len(bundle))
  /\ pc \in {"require", "plan"} => plan = None
  /\ \A i \in 1..Len(considered) : considered[i] = Route[i]
  /\ plan # None =>
       /\ plan = Route[Len(considered) + 1]
       /\ SatisfiesFirst(Len(bundle), Supplies(plan))

\* The invariant of planning holds of every bundle and setting to begin with.
THEOREM PlanInit == Init => PlanInv
<1> SUFFICES ASSUME Init PROVE PlanInv
  OBVIOUS
<1>1. bundle \in Seq(Queries) /\ setting \in Settings
  BY QueryAssumption DEF Init
<1>2. Proper(required)
  BY DEF Init, Nothing, Proper, Needs, NoneYet
<1>3. RequiredOf(0)
  <2>1. required.capabilities = {} /\ required.alternatives = {{}}
    BY DEF Init, Nothing, NoneYet
  <2>2. ASSUME NEW available \in SUBSET Capabilities
        PROVE  SatisfiedBy(required, available) /\ SatisfiesFirst(0, available)
    BY <2>1 DEF SatisfiedBy, SatisfiesFirst
  <2> QED
    BY <2>2 DEF RequiredOf
<1>4. considered = <<>> /\ considered \in Seq(Engines) /\ Len(considered) = 0
  BY DEF Init
<1>5. pc = "require" /\ position = 0 /\ plan = None
  BY DEF Init
<1>6. Len(bundle) \in Nat
  BY <1>1
<1> QED
  BY <1>1, <1>2, <1>3, <1>4, <1>5, <1>6 DEF PlanInv

\* A step that neither plans nor collects needs.
LEMMA PlanKept ==
  ASSUME PlanInv, UNCHANGED <<inputs, required, considered, plan>>,
         pc' \notin {"require", "plan"}
  PROVE  PlanInv'
BY DEF PlanInv, RequiredOf, SatisfiesFirst, inputs, Route

\* One more query is read.
LEMMA RequireKeepsPlanInv == PlanInv /\ Require => PlanInv'
<1> SUFFICES ASSUME PlanInv, Require PROVE PlanInv'
  OBVIOUS
<1> DEFINE q == bundle[position + 1]
<1>1. /\ pc = "require" /\ position \in 0..Len(bundle) /\ position < Len(bundle)
      /\ Len(bundle) \in Nat
      /\ UNCHANGED <<bundle, setting, considered, plan>>
  BY DEF PlanInv, Require, inputs
<1>2. CASE q.known
  <2>1. required' = Include(required, q.needs) /\ position' = position + 1 /\ pc' = pc
    BY <1>2 DEF Require
  <2>2. q \in Queries /\ q.needs \in Needs
    <3>1. q \in Queries
      BY <1>1, ElementOfSeq DEF PlanInv
    <3> QED
      BY <3>1 DEF Queries
  <2>3. Proper(required')
    BY <1>1, <2>1, <2>2, IncludeProper DEF PlanInv
  <2>4. RequiredOf(position)'
    <3> SUFFICES ASSUME NEW available \in SUBSET Capabilities
                 PROVE  SatisfiedBy(required', available) <=> SatisfiesFirst(position, available)'
      BY DEF RequiredOf
    <3>1. SatisfiedBy(required', available)
            <=> SatisfiedBy(required, available) /\ SatisfiedBy(q.needs, available)
      BY <1>1, <2>1, <2>2, IncludeSatisfied DEF PlanInv
    <3>2. SatisfiedBy(required, available)
            <=> \A i \in 1..position : SatisfiedBy(bundle[i].needs, available)
      BY <1>1 DEF PlanInv, RequiredOf, SatisfiesFirst
    <3>3. SatisfiesFirst(position, available)'
            <=> \A i \in 1..(position + 1) : SatisfiedBy(bundle[i].needs, available)
      BY <1>1, <2>1 DEF SatisfiesFirst
    <3>4. \A i \in 1..(position + 1) : i \in 1..position \/ i = position + 1
      BY <1>1
    <3>5. position + 1 \in 1..(position + 1) /\ 1..position \subseteq 1..(position + 1)
      BY <1>1
    <3> QED
      BY <3>1, <3>2, <3>3, <3>4, <3>5
  <2>5. position' \in 0..Len(bundle')
    BY <1>1, <2>1
  <2>6. pc' = "require" /\ considered' = <<>> /\ plan' = None
    BY <1>1, <2>1 DEF PlanInv
  <2>7. /\ bundle' \in Seq(Queries) /\ setting' \in Settings
        /\ considered' \in Seq(Engines) /\ Len(considered') = 0
    BY <1>1, <2>6 DEF PlanInv
  <2> QED
    BY <2>3, <2>4, <2>5, <2>6, <2>7 DEF PlanInv
<1>3. CASE ~ q.known
  <2>1. pc' = "raised" /\ required' = required
    BY <1>3 DEF Require, Raise
  <2> QED
    BY <1>1, <2>1, PlanKept DEF inputs
<1> QED
  BY <1>2, <1>3

\* All queries have been read.
LEMMA RequiredKeepsPlanInv == PlanInv /\ Required => PlanInv'
<1> SUFFICES ASSUME PlanInv, Required PROVE PlanInv'
  OBVIOUS
<1>1. /\ pc = "require" /\ position = Len(bundle)
      /\ required' = Collected(required) /\ position' = 0
      /\ pc' \in {"plan", "raised"}
      /\ UNCHANGED <<bundle, setting, considered, plan>>
  BY DEF Required, inputs, Go, Raise
<1>2. RequiredOf(Len(bundle))'
  <2> SUFFICES ASSUME NEW available \in SUBSET Capabilities
               PROVE  SatisfiedBy(required', available) <=> SatisfiesFirst(Len(bundle), available)
    BY <1>1 DEF RequiredOf, SatisfiesFirst
  <2>1. SatisfiedBy(required', available) <=> SatisfiedBy(required, available)
    BY <1>1, CollectedSatisfied DEF PlanInv
  <2> QED
    BY <1>1, <2>1 DEF PlanInv, RequiredOf
<1>3. considered = <<>> /\ considered' = <<>> /\ Len(considered') = 0
  BY <1>1 DEF PlanInv
<1>4. Len(Route') \in Nat \ {0}
  BY <1>1, RouteOfEngines DEF PlanInv, Route
<1>5. /\ bundle' \in Seq(Queries) /\ setting' \in Settings /\ considered' \in Seq(Engines)
      /\ plan' = None
  BY <1>1 DEF PlanInv
<1>6. position' = Len(considered') /\ position' < Len(Route')
  BY <1>1, <1>3, <1>4
<1> QED
  BY <1>1, <1>2, <1>3, <1>5, <1>6 DEF PlanInv

\* An engine is chosen, or declined.
LEMMA AssessKeepsPlanInv == PlanInv /\ Assess => PlanInv'
<1> SUFFICES ASSUME PlanInv, Assess PROVE PlanInv'
  OBVIOUS
<1> DEFINE name == Route[position + 1]
<1>1. /\ pc = "plan" /\ position = Len(considered) /\ position < Len(Route)
      /\ plan = None /\ RequiredOf(Len(bundle))
      /\ UNCHANGED <<bundle, setting, required>>
      /\ Route' = Route
  BY DEF PlanInv, Assess, inputs, Route
<1>2. position \in Nat /\ Len(considered) \in Nat /\ Len(Route) \in Nat /\ name \in Engines
  BY <1>1, RouteOfEngines DEF PlanInv
<1>3. \/ MayAsk(name) /\ Admits(name) /\ Choose(name)
      \/ \E kind \in {"budget", "capability"} : Decline(name, kind)
      \/ pc' = "raised" /\ UNCHANGED <<considered, plan>>
  BY DEF Assess, Raise
<1>4. CASE Admits(name) /\ Choose(name)
  <2>1. plan' = name /\ pc' = "solve" /\ UNCHANGED <<considered, position>>
    BY <1>4 DEF Choose, Go
  <2>2. SatisfiesFirst(Len(bundle), Supplies(name))
    BY <1>1, <1>2, <1>4, SuppliesCapabilities DEF Admits, RequiredOf
  <2>3. SatisfiesFirst(Len(bundle), Supplies(plan))'
    BY <1>1, <2>1, <2>2 DEF SatisfiesFirst
  <2>4. plan' = Route'[Len(considered') + 1]
    BY <1>1, <2>1
  <2> QED
    BY <1>1, <1>2, <2>1, <2>3, <2>4 DEF PlanInv
<1>5. CASE \E kind \in {"budget", "capability"} : Decline(name, kind)
  <2>1. PICK kind \in {"budget", "capability"} : Decline(name, kind)
    BY <1>5
  <2>2. CASE setting.engine # "auto"
    <3>1. pc' = "raised" /\ UNCHANGED <<considered, plan>>
      BY <2>1, <2>2 DEF Decline, Raise
    <3> QED
      BY <1>1, <3>1, PlanKept DEF inputs
  <2>3. CASE setting.engine = "auto"
    <3>1. /\ considered' = Append(considered, name) /\ position' = position + 1
          /\ IF position + 1 = Len(Route) THEN pc' = "raised" ELSE pc' = "plan"
          /\ plan' = plan
      BY <2>1, <2>3 DEF Decline, RouteEnds, Raise, Go
    <3>2. /\ considered' \in Seq(Engines) /\ Len(considered') = Len(considered) + 1
          /\ \A i \in 1..Len(considered) : considered'[i] = considered[i]
          /\ considered'[Len(considered) + 1] = name
      BY <1>2, <3>1, AppendProperties DEF PlanInv
    <3>3. \A i \in 1..Len(considered') : considered'[i] = Route'[i]
      <4> SUFFICES ASSUME NEW i \in 1..Len(considered') PROVE considered'[i] = Route[i]
        BY <1>1
      <4>1. CASE i = Len(considered) + 1
        BY <1>1, <3>2, <4>1
      <4>2. CASE i # Len(considered) + 1
        <5>1. i \in 1..Len(considered)
          BY <1>2, <3>2, <4>2
        <5> QED
          BY <3>2, <5>1 DEF PlanInv
      <4> QED
        BY <4>1, <4>2
    <3>4. pc' = "plan" => position' = Len(considered') /\ position' < Len(Route')
      BY <1>1, <1>2, <3>1, <3>2
    <3>5. RequiredOf(Len(bundle))'
      BY <1>1 DEF RequiredOf, SatisfiesFirst
    <3> QED
      BY <1>1, <3>1, <3>2, <3>3, <3>4, <3>5 DEF PlanInv
  <2> QED
    BY <2>2, <2>3
<1>6. CASE pc' = "raised" /\ UNCHANGED <<considered, plan>>
  BY <1>1, <1>6, PlanKept DEF inputs
<1> QED
  BY <1>3, <1>4, <1>5, <1>6

\* Every step of collecting, choosing and solving keeps it.
THEOREM PlanStep == PlanInv /\ [Next]_vars => PlanInv'
<1> SUFFICES ASSUME PlanInv, [Next]_vars PROVE PlanInv'
  OBVIOUS
<1>1. CASE Require
  BY <1>1, RequireKeepsPlanInv
<1>2. CASE Required
  BY <1>2, RequiredKeepsPlanInv
<1>3. CASE Assess
  BY <1>3, AssessKeepsPlanInv
<1>4. CASE Solve
  <2>1. UNCHANGED <<inputs, required, considered, plan>> /\ pc' \in {"inferred", "raised"}
    BY <1>4 DEF Solve, SolveFails, Raise, Go, planning
  <2> QED
    BY <2>1, PlanKept
<1>5. CASE Release
  <2>1. UNCHANGED <<inputs, required, considered, plan>> /\ pc' = "inferred"
    BY <1>5 DEF Release, planning
  <2> QED
    BY <2>1, PlanKept
<1>6. CASE Begin
  <2>1. UNCHANGED <<inputs, required, considered, plan>> /\ pc' \in {"evaluate", "draw", "raised"}
    BY <1>6 DEF Begin, Raise, Go, planning
  <2> QED
    BY <2>1, PlanKept
<1>7. CASE Evaluate
  <2>1. UNCHANGED <<inputs, required, considered, plan>>
    BY <1>7 DEF Evaluate, planning
  <2>2. pc' \in {"evaluate", "answered", "draw", "raised"}
    BY <1>7 DEF Evaluate, EvaluateStopped, EvaluateFails, Raise, Go
  <2> QED
    BY <2>1, <2>2, PlanKept
<1>8. CASE Evaluated
  <2>1. UNCHANGED <<inputs, required, considered, plan>> /\ pc' = "answered"
    BY <1>8 DEF Evaluated, Go, planning
  <2> QED
    BY <2>1, PlanKept
<1>9. CASE Draw
  <2>1. UNCHANGED <<inputs, required, considered, plan>> /\ pc' \in {"evaluate", "raised"}
    BY <1>9 DEF Draw, Raise, Go, planning
  <2> QED
    BY <2>1, PlanKept
<1>10. CASE UNCHANGED vars
  BY <1>10 DEF PlanInv, RequiredOf, SatisfiesFirst, vars, inputs, planning, Route
<1> QED
  BY <1>1, <1>2, <1>3, <1>4, <1>5, <1>6, <1>7, <1>8, <1>9, <1>10 DEF Next

\* So needs, route and plan are related at every moment of a query.
THEOREM PlanAlways == Spec => []PlanInv
BY PlanInit, PlanStep, PTL DEF Spec

\* Whatever the bundle is, its needs are satisfied by exactly the
\* capabilities that satisfy all of its queries.
THEOREM QueryCombinedNeeds == Spec => []CombinedNeeds
<1>1. PlanInv => CombinedNeeds
  BY CollectedSatisfied DEF PlanInv, RequiredOf, SatisfiesFirst, CombinedNeeds
<1> QED
  BY <1>1, PlanAlways, PTL

\* The chosen engine supplies what every query needs, and is the first of
\* the route that was not declined.
THEOREM QueryPlanServesBundle == Spec => []PlanServesBundle
<1>1. PlanInv => PlanServesBundle
  BY DEF PlanInv, SatisfiesFirst, PlanServesBundle
<1> QED
  BY <1>1, PlanAlways, PTL

\* Nothing that happens after the choice of an engine leads to another.
THEOREM QueryOneSolver == Spec => OneSolver
<1>1. PlanInv /\ [Next]_vars => [plan # None => plan' = plan]_vars
  <2> SUFFICES ASSUME PlanInv, [Next]_vars, plan # None PROVE plan' = plan
    OBVIOUS
  <2>1. CASE Require
    BY <2>1 DEF Require
  <2>2. CASE Required
    BY <2>2 DEF Required
  <2>3. CASE Assess
    BY <2>3 DEF Assess, PlanInv
  <2>4. CASE Solve \/ Release \/ Begin \/ Evaluate \/ Evaluated \/ Draw \/ UNCHANGED vars
    BY <2>4 DEF Solve, Release, Begin, Evaluate, Evaluated, Draw, vars, planning
  <2> QED
    BY <2>1, <2>2, <2>3, <2>4 DEF Next
<1> QED
  BY <1>1, PlanAlways, PTL DEF Spec, OneSolver

-----------------------------------------------------------------------------
(***************************************************************************)
(* The inductive invariant of evaluation                                   *)
(***************************************************************************)
Estimates == [query : Nat, of : {"tables", "draws"}, complete : BOOLEAN]

AnswerInv ==
  /\ bundle \in Seq(Queries)
  /\ estimates \in Seq(Estimates)
  /\ \A i \in 1..Len(estimates) : estimates[i].of = data /\ estimates[i].query = i
  /\ pc \in {"require", "plan", "solve", "inferred", "draw"} => estimates = <<>>
  /\ pc \in {"require", "plan", "solve", "inferred"} => data \notin {"tables", "draws"}
  /\ pc \in {"inferred", "draw"} => position = 0
  /\ pc = "evaluate" =>
       /\ position = Len(estimates)
       /\ position <= Len(bundle)
       /\ data \in {"tables", "draws"}
  /\ pc # "answered" => answer = None
  /\ answer # None =>
       /\ answer.estimates = estimates
       /\ answer.missing = Len(estimates) + 1 .. Len(bundle)
       /\ answer.missing # {} => estimates # <<>>

\* The invariant of answering holds before the first estimate.
THEOREM AnswerInit == Init => AnswerInv
<1> SUFFICES ASSUME Init PROVE AnswerInv
  OBVIOUS
<1>1. bundle \in Seq(Queries)
  BY QueryAssumption DEF Init
<1>2. estimates = <<>> /\ estimates \in Seq(Estimates) /\ Len(estimates) = 0
  BY DEF Init
<1>3. data \notin {"tables", "draws"} /\ pc = "require" /\ answer = None
  BY QueryAssumption DEF Init
<1> QED
  BY <1>1, <1>2, <1>3 DEF AnswerInv

\* A step before evaluation begins, or one that fails.
LEMMA AnswerKept ==
  ASSUME AnswerInv, UNCHANGED <<bundle, data, estimates, answer>>,
         pc \in {"require", "plan", "solve", "inferred"},
         \/ pc' \in {"require", "plan", "solve", "raised"}
         \/ pc' = "inferred" /\ position' = 0
  PROVE  AnswerInv'
BY DEF AnswerInv

LEMMA BeginKeepsAnswerInv == AnswerInv /\ Begin => AnswerInv'
<1> SUFFICES ASSUME AnswerInv, Begin PROVE AnswerInv'
  OBVIOUS
<1>1. /\ pc = "inferred" /\ position = 0 /\ estimates = <<>>
      /\ UNCHANGED <<bundle, position, result, estimates, answer>>
      /\ Len(bundle) \in Nat /\ Len(estimates) = 0
  BY DEF AnswerInv, Begin, inputs
<1>2. CASE "joint" \in result.capabilities /\ pc' = "evaluate" /\ data' = "tables"
  BY <1>1, <1>2 DEF AnswerInv
<1>3. CASE "joint" \notin result.capabilities /\ pc' = "draw" /\ data' = data
  BY <1>1, <1>3 DEF AnswerInv
<1>4. CASE pc' = "raised" /\ data' = data
  BY <1>1, <1>4 DEF AnswerInv
<1> QED
  BY <1>2, <1>3, <1>4 DEF Begin, Go, Raise

LEMMA DrawKeepsAnswerInv == AnswerInv /\ Draw => AnswerInv'
<1> SUFFICES ASSUME AnswerInv, Draw PROVE AnswerInv'
  OBVIOUS
<1>1. /\ pc = "draw" /\ position = 0 /\ estimates = <<>>
      /\ UNCHANGED <<bundle, position, result, estimates, answer>>
      /\ Len(bundle) \in Nat /\ Len(estimates) = 0
  BY DEF AnswerInv, Draw, inputs
<1>2. CASE pc' = "evaluate" /\ data' = "draws"
  BY <1>1, <1>2 DEF AnswerInv
<1>3. CASE pc' = "raised" /\ data' = data
  BY <1>1, <1>3 DEF AnswerInv
<1> QED
  BY <1>2, <1>3 DEF Draw, Go, Raise

LEMMA EvaluateKeepsAnswerInv == AnswerInv /\ Evaluate => AnswerInv'
<1> SUFFICES ASSUME AnswerInv, Evaluate PROVE AnswerInv'
  OBVIOUS
<1>1. /\ pc = "evaluate" /\ position = Len(estimates) /\ position < Len(bundle)
      /\ data \in {"tables", "draws"} /\ answer = None
      /\ UNCHANGED <<bundle, result>>
      /\ Len(bundle) \in Nat /\ Len(estimates) \in Nat
  BY DEF AnswerInv, Evaluate, inputs
<1>2. CASE /\ estimates' = Append(estimates, Estimate(position + 1))
           /\ position' = position + 1
           /\ UNCHANGED <<pc, failure, data, answer>>
  <2>1. Estimate(position + 1) \in Estimates /\ Estimate(position + 1).of = data
        /\ Estimate(position + 1).query = position + 1
    BY <1>1 DEF Estimate, Estimates
  <2>2. /\ estimates' \in Seq(Estimates) /\ Len(estimates') = Len(estimates) + 1
        /\ \A i \in 1..Len(estimates) : estimates'[i] = estimates[i]
        /\ estimates'[Len(estimates) + 1] = Estimate(position + 1)
    BY <1>2, <2>1, AppendProperties DEF AnswerInv
  <2>3. ASSUME NEW i \in 1..Len(estimates')
        PROVE  estimates'[i].of = data' /\ estimates'[i].query = i
    <3>1. CASE i = Len(estimates) + 1
      BY <1>1, <1>2, <2>1, <2>2, <3>1
    <3>2. CASE i # Len(estimates) + 1
      <4>1. i \in 1..Len(estimates)
        BY <1>1, <2>2, <3>2
      <4> QED
        BY <1>2, <2>2, <4>1 DEF AnswerInv
    <3> QED
      BY <3>1, <3>2
  <2>4. position' = Len(estimates') /\ position' <= Len(bundle')
    BY <1>1, <1>2, <2>2
  <2> QED
    BY <1>1, <1>2, <2>2, <2>3, <2>4 DEF AnswerInv
<1>3. CASE EvaluateStopped
  <2>1. UNCHANGED <<position, data, estimates>>
    BY <1>3 DEF EvaluateStopped
  <2>2. CASE Returns
    <3>1. /\ answer' = [estimates |-> estimates, missing |-> position + 1 .. Len(bundle)]
          /\ pc' = "answered" /\ estimates # <<>>
      BY <1>3, <2>2 DEF EvaluateStopped, Answer, Missing, Go, Returns
    <3> QED
      BY <1>1, <2>1, <3>1 DEF AnswerInv
  <2>3. CASE ~ Returns
    <3>1. pc' = "raised" /\ answer' = answer
      BY <1>3, <2>3 DEF EvaluateStopped, Raise
    <3> QED
      BY <1>1, <2>1, <3>1 DEF AnswerInv
  <2> QED
    BY <2>2, <2>3
<1>4. CASE \E kind \in {"budget", "failed"} : EvaluateFails(kind)
  <2>1. PICK kind \in {"budget", "failed"} : EvaluateFails(kind)
    BY <1>4
  <2>2. CASE data = "tables" /\ LicensesSampling(kind) /\ "joint_draws" \in result.capabilities
    <3>1. /\ pc' = "draw" /\ estimates' = <<>> /\ position' = Len(estimates')
          /\ UNCHANGED <<data, answer>>
      BY <2>1, <2>2 DEF EvaluateFails, LicensesSampling, StartOver, Go
    <3>2. estimates' \in Seq(Estimates) /\ Len(estimates') = 0
      BY <3>1
    <3> QED
      BY <1>1, <2>2, <3>1, <3>2 DEF AnswerInv
  <2>3. CASE ~ (data = "tables" /\ LicensesSampling(kind) /\ "joint_draws" \in result.capabilities)
    <3>1. pc' = "raised" /\ UNCHANGED <<position, estimates, data, answer>>
      BY <2>1, <2>3 DEF EvaluateFails, Raise
    <3> QED
      BY <1>1, <3>1 DEF AnswerInv
  <2> QED
    BY <2>2, <2>3
<1> QED
  BY <1>2, <1>3, <1>4 DEF Evaluate

LEMMA EvaluatedKeepsAnswerInv == AnswerInv /\ Evaluated => AnswerInv'
<1> SUFFICES ASSUME AnswerInv, Evaluated PROVE AnswerInv'
  OBVIOUS
<1>1. /\ pc = "evaluate" /\ position = Len(estimates) /\ position = Len(bundle)
      /\ UNCHANGED <<bundle, result, position, data, estimates>>
      /\ answer' = [estimates |-> estimates, missing |-> {}] /\ pc' = "answered"
      /\ Len(estimates) \in Nat
  BY DEF AnswerInv, Evaluated, inputs, Answer, Go
<1>2. Len(estimates) + 1 .. Len(bundle) = {}
  BY <1>1
<1> QED
  BY <1>1, <1>2 DEF AnswerInv

\* Every step of evaluating on tables or draws keeps it.
THEOREM AnswerStep == AnswerInv /\ [Next]_vars => AnswerInv'
<1> SUFFICES ASSUME AnswerInv, [Next]_vars PROVE AnswerInv'
  OBVIOUS
<1>1. CASE Require
  BY <1>1, AnswerKept DEF Require, Raise, inputs, answers
<1>2. CASE Required
  BY <1>2, AnswerKept DEF Required, Raise, Go, inputs, answers
<1>3. CASE Assess
  <2>1. pc = "plan" /\ pc' \in {"plan", "solve", "raised"}
    BY <1>3 DEF Assess, Decline, Choose, Raise, Go
  <2> QED
    BY <1>3, <2>1, AnswerKept DEF Assess, inputs, answers
<1>4. CASE Solve
  <2>1. pc = "solve" /\ (pc' = "raised" \/ (pc' = "inferred" /\ position' = 0))
    BY <1>4 DEF Solve, SolveFails, Raise, Go
  <2> QED
    BY <1>4, <2>1, AnswerKept DEF Solve, inputs, answers
<1>5. CASE Release
  <2>1. pc = "inferred" /\ pc' = "inferred" /\ position' = 0
    BY <1>5 DEF Release, AnswerInv
  <2> QED
    BY <1>5, <2>1, AnswerKept DEF Release, inputs, answers
<1>6. CASE UNCHANGED vars
  BY <1>6 DEF AnswerInv, vars, inputs, answers
<1> QED
  BY <1>1, <1>2, <1>3, <1>4, <1>5, <1>6, BeginKeepsAnswerInv, EvaluateKeepsAnswerInv,
     EvaluatedKeepsAnswerInv, DrawKeepsAnswerInv DEF Next

\* So the estimates at any moment are those of one representation, in order.
THEOREM AnswerAlways == Spec => []AnswerInv
BY AnswerInit, AnswerStep, PTL DEF Spec

LEMMA AnswerProperties ==
  AnswerInv => OneRepresentation /\ PartialIsPrefix
<1> SUFFICES ASSUME AnswerInv PROVE OneRepresentation /\ PartialIsPrefix
  OBVIOUS
<1>1. DOMAIN estimates = 1..Len(estimates)
  BY DEF AnswerInv
<1>2. OneRepresentation
  BY <1>1 DEF AnswerInv, OneRepresentation
<1>3. PartialIsPrefix
  BY <1>1 DEF AnswerInv, PartialIsPrefix
<1> QED
  BY <1>2, <1>3

\* An answer never mixes tables and draws, however often and wherever
\* tables were given up.
THEOREM QueryOneRepresentation == Spec => []OneRepresentation
BY AnswerAlways, AnswerProperties, PTL

\* A partial answer is a prefix of the bundle that is not empty, and names
\* what is missing.
THEOREM QueryPartialIsPrefix == Spec => []PartialIsPrefix
BY AnswerAlways, AnswerProperties, PTL

\* For every bundle, what its queries need reaches the choice of an engine
\* unchanged, and the engine chosen serves them all.
THEOREM QueryNeedsAreServed == Spec => []NeedsAreServed
<1>1. CombinedNeeds /\ PlanServesBundle => NeedsAreServed
  BY DEF NeedsAreServed
<1>2. QED
  BY <1>1, QueryCombinedNeeds, QueryPlanServesBundle, PTL

\* Every answer is the prefix of its bundle before a stop, all of tables or
\* all of draws.
THEOREM QueryAnswersAreOfOnePiece == Spec => []AnswersAreOfOnePiece
<1>1. OneRepresentation /\ PartialIsPrefix => AnswersAreOfOnePiece
  BY DEF AnswersAreOfOnePiece
<1>2. QED
  BY <1>1, QueryOneRepresentation, QueryPartialIsPrefix, PTL

-----------------------------------------------------------------------------
(***************************************************************************)
(* The control                                                             *)
(***************************************************************************)
\* Once evaluation has begun, every evaluator of the bundle was found able to
\* take the control there is.
ControlInv ==
  /\ ControlReachesAll
  /\ pc \in {"evaluate", "draw"} =>
       (setting.control => \A i \in 1..Len(bundle) : bundle[i].cooperative)

\* A call that passes the control to something cooperative.
LEMMA CallKeepsControl ==
  ASSUME ControlReachesAll, setting' = setting,
         NEW what, NEW cooperative, NEW control, Calls(what, cooperative, control),
         setting.control => cooperative /\ control
  PROVE  ControlReachesAll'
<1> SUFFICES ASSUME NEW c \in called', setting.control PROVE c.cooperative /\ c.control
  BY DEF ControlReachesAll
<1>1. CASE c \in called
  BY <1>1 DEF ControlReachesAll
<1>2. CASE c = [what |-> what, cooperative |-> cooperative, control |-> control]
  BY <1>2
<1> QED
  BY <1>1, <1>2 DEF Calls

\* Every step hands the control on, or refuses to take it.
LEMMA ControlStep == AnswerInv /\ ControlInv /\ [Next]_vars => ControlInv'
<1> SUFFICES ASSUME AnswerInv, ControlInv, [Next]_vars PROVE ControlInv'
  OBVIOUS
<1> USE DEF ControlInv
<1>1. CASE Require \/ Required \/ Release
  <2>1. UNCHANGED <<called, setting, bundle>> /\ pc' \notin {"evaluate", "draw"}
    BY <1>1 DEF Require, Required, Release, inputs, Raise, Go
  <2> QED
    BY <2>1 DEF ControlReachesAll
<1>2. CASE Assess
  <2> DEFINE name == Route[position + 1]
  <2>1. UNCHANGED <<setting, bundle>> /\ pc' \notin {"evaluate", "draw"}
    BY <1>2 DEF Assess, inputs, Raise, Go, Choose, Decline
  <2>2. CASE MayAsk(name)
    BY <1>2, <2>1, <2>2, CallKeepsControl DEF Assess, MayAsk
  <2>3. CASE ~ MayAsk(name)
    BY <1>2, <2>1, <2>3 DEF Assess, ControlReachesAll
  <2> QED
    BY <2>2, <2>3
<1>3. CASE Solve
  <2>1. UNCHANGED <<setting, bundle>> /\ pc' \notin {"evaluate", "draw"}
    BY <1>3 DEF Solve, inputs, Raise, Go, SolveFails
  <2>2. CASE MaySolve
    BY <1>3, <2>1, <2>2, CallKeepsControl DEF Solve, MaySolve, Controlled
  <2>3. CASE ~ MaySolve
    BY <1>3, <2>1, <2>3 DEF Solve, ControlReachesAll
  <2> QED
    BY <2>2, <2>3
<1>4. CASE Begin
  <2>1. UNCHANGED <<setting, bundle, called>>
    BY <1>4 DEF Begin, inputs
  <2>2. ControlReachesAll'
    BY <2>1 DEF ControlReachesAll
  <2>3. CASE MayEvaluate
    BY <2>1, <2>2, <2>3 DEF MayEvaluate
  <2>4. CASE ~ MayEvaluate
    BY <1>4, <2>2, <2>4 DEF Begin, Raise
  <2> QED
    BY <2>3, <2>4
<1>5. CASE Evaluate
  <2> DEFINE q == bundle[position + 1]
  <2>1. UNCHANGED <<setting, bundle>> /\ pc = "evaluate"
    BY <1>5 DEF Evaluate, inputs
  <2>2. setting.control => q.cooperative
    <3>1. position \in Nat /\ Len(bundle) \in Nat /\ position < Len(bundle)
      BY <1>5, <2>1 DEF Evaluate, AnswerInv
    <3> QED
      BY <2>1, <3>1
  <2>3. CASE Calls("evaluator", q.cooperative, setting.control /\ q.cooperative)
    BY <2>1, <2>2, <2>3, CallKeepsControl
  <2>4. CASE UNCHANGED called
    BY <2>1, <2>4 DEF ControlReachesAll
  <2>5. ControlReachesAll'
    BY <1>5, <2>3, <2>4 DEF Evaluate
  <2> QED
    BY <2>1, <2>5
<1>6. CASE Evaluated
  <2>1. UNCHANGED <<setting, bundle, called>> /\ pc' = "answered"
    BY <1>6 DEF Evaluated, inputs, Go
  <2> QED
    BY <2>1 DEF ControlReachesAll
<1>7. CASE Draw
  <2>1. UNCHANGED <<setting, bundle>> /\ pc = "draw"
    BY <1>7 DEF Draw, inputs
  <2>2. CASE Calls("posterior", CooperativePosterior, setting.control) /\ (setting.control => CooperativePosterior)
    BY <2>1, <2>2, CallKeepsControl
  <2>3. CASE UNCHANGED called
    BY <2>1, <2>3 DEF ControlReachesAll
  <2>4. ControlReachesAll'
    BY <1>7, <2>2, <2>3 DEF Draw
  <2> QED
    BY <2>1, <2>4
<1>8. CASE UNCHANGED vars
  BY <1>8 DEF vars, inputs, ControlReachesAll
<1> QED
  BY <1>1, <1>2, <1>3, <1>4, <1>5, <1>6, <1>7, <1>8 DEF Next

\* For every bundle and every set of engines, a control that was given is
\* passed to all that is called, and nothing is called that ignores it.
THEOREM QueryControlReachesAll == Spec => []ControlReachesAll
<1>1. Init => ControlInv
  BY DEF Init, ControlInv, ControlReachesAll
<1>2. ControlInv => ControlReachesAll
  BY DEF ControlInv
<1>3. QED
  BY <1>1, <1>2, ControlStep, AnswerAlways, PTL DEF Spec

-----------------------------------------------------------------------------
(***************************************************************************)
(* Comparisons of settings                                                 *)
(***************************************************************************)
ComparingSpec == ComparingInit /\ [][ComparingNext]_comparisonVars

\* Every name of a finite set has its place in their order.
LEMMA EveryNameInOrder ==
  ASSUME NEW S \in SUBSET Nat, IsFiniteSet(S)
  PROVE  /\ Cardinality(S) \in Nat
         /\ InTheirOrder(S) \in [1..Cardinality(S) -> S]
         /\ \A n \in S : \E i \in 1..Cardinality(S) : InTheirOrder(S)[i] = n
<1> DEFINE c == Cardinality(S)
           rank == [n \in S |-> Cardinality(Before(n, S)) + 1]
<1>1. c \in Nat
  BY FS_CardinalityType
<1>2. ASSUME NEW n \in S
      PROVE  /\ IsFiniteSet(Before(n, S)) /\ Cardinality(Before(n, S)) \in Nat
             /\ Cardinality(Before(n, S)) < c
  <2>1. Before(n, S) \in SUBSET S /\ n \notin Before(n, S)
    BY DEF Before
  <2>2. IsFiniteSet(Before(n, S)) /\ Cardinality(Before(n, S)) <= c
        /\ (c = Cardinality(Before(n, S)) => S = Before(n, S))
    BY <2>1, FS_Subset
  <2> QED
    BY <1>1, <2>1, <2>2, FS_CardinalityType
<1>3. ASSUME NEW m \in S, NEW n \in S, m < n
      PROVE  Cardinality(Before(m, S)) < Cardinality(Before(n, S))
  <2>1. m \in Nat /\ n \in Nat /\ \A k \in S : k \in Nat
    OBVIOUS
  <2>2. Before(m, S) \in SUBSET Before(n, S) /\ m \in Before(n, S) /\ m \notin Before(m, S)
    <3>1. m \in Before(n, S) /\ m \notin Before(m, S)
      BY <1>3, <2>1 DEF Before
    <3>2. ASSUME NEW k \in Before(m, S) PROVE k \in Before(n, S)
      <4>1. k \in S /\ k \in Nat /\ k < m
        BY <2>1 DEF Before
      <4>2. k < n
        BY <1>3, <2>1, <4>1
      <4> QED
        BY <4>1, <4>2 DEF Before
    <3> QED
      BY <3>1, <3>2
  <2>3. /\ Cardinality(Before(m, S)) <= Cardinality(Before(n, S))
        /\ (Cardinality(Before(m, S)) = Cardinality(Before(n, S)) => Before(m, S) = Before(n, S))
    BY <1>2, <2>2, FS_Subset
  <2> QED
    BY <1>2, <2>2, <2>3
<1>4. rank \in Injection(S, 1..c)
  <2>1. rank \in [S -> 1..c]
    BY <1>1, <1>2
  <2>2. ASSUME NEW m \in S, NEW n \in S, rank[m] = rank[n] PROVE m = n
    <3>1. Cardinality(Before(m, S)) = Cardinality(Before(n, S))
      BY <1>2, <2>2
    <3>2. ~ (m < n) /\ ~ (n < m)
      BY <1>2, <1>3, <3>1
    <3> QED
      BY <3>2
  <2> HIDE DEF rank
  <2> QED
    BY <2>1, <2>2 DEF Injection, IsInjective
<1>5. rank \in Surjection(S, 1..c)
  <2>1. IsFiniteSet(1..c) /\ Cardinality(1..c) = c
    BY <1>1, FS_Interval
  <2> HIDE DEF rank
  <2> QED
    BY <1>4, <2>1, FS_Injection
<1>6. ASSUME NEW i \in 1..c
      PROVE  /\ InTheirOrder(S)[i] \in S
             /\ Cardinality(Before(InTheirOrder(S)[i], S)) = i - 1
  <2>1. PICK n \in S : rank[n] = i
    BY <1>5 DEF Surjection
  <2>2. Cardinality(Before(n, S)) = i - 1
    BY <1>2, <2>1
  <2> QED
    BY <2>2 DEF InTheirOrder
<1>7. ASSUME NEW n \in S PROVE InTheirOrder(S)[rank[n]] = n /\ rank[n] \in 1..c
  <2>1. rank[n] \in 1..c /\ rank[n] - 1 = Cardinality(Before(n, S))
    BY <1>1, <1>2
  <2>2. /\ InTheirOrder(S)[rank[n]] \in S
        /\ Cardinality(Before(InTheirOrder(S)[rank[n]], S)) = Cardinality(Before(n, S))
    BY <1>6, <2>1
  <2>3. PICK k \in S : k = InTheirOrder(S)[rank[n]]
    BY <2>2
  <2>4. ~ (k < n) /\ ~ (n < k)
    BY <1>2, <1>3, <2>2, <2>3
  <2>5. k \in Nat /\ n \in Nat
    OBVIOUS
  <2> QED
    BY <2>1, <2>3, <2>4, <2>5
<1>8. InTheirOrder(S) \in [1..c -> S]
  BY <1>6 DEF InTheirOrder
<1> HIDE DEF rank
<1> QED
  BY <1>1, <1>7, <1>8

\* What is taken from a generator.
LEMMA TakenValues ==
  ASSUME NEW g, NEW n \in Nat
  PROVE  /\ Taken(g, n) \in Seq(Range(Taken(g, n)))
         /\ \A v \in Range(Taken(g, n)) : \E k \in 1..n : v = Append(g.seed, g.next + k - 1)
<1>1. DOMAIN Taken(g, n) = 1..n /\ \A k \in 1..n : Taken(g, n)[k] = Append(g.seed, g.next + k - 1)
  BY DEF Taken
<1>2. Taken(g, n) \in [1..n -> Range(Taken(g, n))]
  BY <1>1 DEF Taken, Range
<1>3. Taken(g, n) \in Seq(Range(Taken(g, n)))
  BY <1>2
<1> QED
  BY <1>1, <1>3 DEF Range

\* The values of two sequences joined are the values of both.
LEMMA RangeOfBoth ==
  ASSUME NEW S, NEW T, NEW s \in Seq(S), NEW t \in Seq(T)
  PROVE  /\ s \o t \in Seq(S \union T)
         /\ \A v \in Range(s \o t) : v \in Range(s) \/ v \in Range(t)
<1>1. s \in Seq(S \union T) /\ t \in Seq(S \union T)
  OBVIOUS
<1>2. /\ s \o t \in Seq(S \union T)
      /\ Len(s \o t) = Len(s) + Len(t)
      /\ \A i \in 1 .. Len(s) + Len(t) : (s \o t)[i] = IF i <= Len(s) THEN s[i] ELSE t[i - Len(s)]
  BY <1>1, ConcatProperties
<1>3. /\ Len(s) \in Nat /\ Len(t) \in Nat
      /\ DOMAIN (s \o t) = 1 .. Len(s) + Len(t) /\ DOMAIN s = 1..Len(s) /\ DOMAIN t = 1..Len(t)
  BY <1>1, <1>2
<1>4. ASSUME NEW i \in DOMAIN (s \o t)
      PROVE  (s \o t)[i] \in Range(s) \/ (s \o t)[i] \in Range(t)
  <2>1. CASE i <= Len(s)
    BY <1>2, <1>3, <2>1 DEF Range
  <2>2. CASE ~ (i <= Len(s))
    <3>1. i - Len(s) \in DOMAIN t /\ (s \o t)[i] = t[i - Len(s)]
      BY <1>2, <1>3, <2>2
    <3> QED
      BY <3>1 DEF Range
  <2> QED
    BY <2>1, <2>2
<1> QED
  BY <1>2, <1>4 DEF Range

IsSeq(s) == s \in Seq(Range(s))

\* The same, of sequences of which nothing else is known.
LEMMA JoinIsSeq ==
  ASSUME NEW a, NEW b, a \in Seq(Range(a)), b \in Seq(Range(b))
  PROVE  IsSeq(a \o b) /\ \A v \in Range(a \o b) : v \in Range(a) \/ v \in Range(b)
<1>1. /\ a \o b \in Seq(Range(a) \union Range(b))
      /\ \A v \in Range(a \o b) : v \in Range(a) \/ v \in Range(b)
  BY RangeOfBoth
<1>2. ASSUME NEW S, NEW w \in Seq(S) PROVE w \in Seq(Range(w))
  <2>1. w \in [1..Len(w) -> Range(w)] /\ Len(w) \in Nat
    BY DEF Range
  <2> QED
    BY <2>1
<1> QED
  BY <1>1, <1>2 DEF IsSeq

\* What a sequence is after one more element.
LEMMA OneMore ==
  ASSUME NEW s, NEW e, IsSeq(s)
  PROVE  /\ IsSeq(Append(s, e)) /\ Range(Append(s, e)) = Range(s) \union {e}
         /\ Len(s) \in Nat /\ DOMAIN s = 1..Len(s)
         /\ Len(Append(s, e)) = Len(s) + 1 /\ DOMAIN Append(s, e) = 1..(Len(s) + 1)
         /\ \A i \in 1..Len(s) : Append(s, e)[i] = s[i]
         /\ Append(s, e)[Len(s) + 1] = e
<1> DEFINE both == Range(s) \union {e}
<1>1. s \in Seq(both) /\ e \in both
  BY DEF IsSeq
<1> HIDE DEF both
<1>2. /\ Append(s, e) \in Seq(both) /\ Len(Append(s, e)) = Len(s) + 1
      /\ \A i \in 1..Len(s) : Append(s, e)[i] = s[i]
      /\ Append(s, e)[Len(s) + 1] = e
  BY <1>1, AppendProperties
<1>3. /\ Len(s) \in Nat /\ DOMAIN s = 1..Len(s)
      /\ DOMAIN Append(s, e) = 1..(Len(s) + 1)
  BY <1>1, <1>2
<1>4. Range(Append(s, e)) = both
  <2>1. ASSUME NEW v \in both PROVE v \in Range(Append(s, e))
    <3>1. CASE v = e
      BY <1>2, <1>3, <3>1 DEF Range
    <3>2. CASE v \in Range(s)
      BY <1>2, <1>3, <3>2 DEF Range
    <3> QED
      BY <3>1, <3>2 DEF both
  <2>2. ASSUME NEW v \in Range(Append(s, e)) PROVE v \in both
    <3>1. PICK i \in 1..(Len(s) + 1) : v = Append(s, e)[i]
      BY <1>3 DEF Range
    <3>2. CASE i <= Len(s)
      <4>1. i \in 1..Len(s)
        BY <1>3, <3>2
      <4> QED
        BY <1>2, <1>3, <3>1, <4>1 DEF Range, both
    <3>3. CASE ~ (i <= Len(s))
      <4>1. i = Len(s) + 1
        BY <1>3, <3>3
      <4> QED
        BY <1>2, <3>1, <4>1 DEF both
    <3> QED
      BY <3>2, <3>3
  <2> QED
    BY <2>1, <2>2
<1> QED
  BY <1>2, <1>3, <1>4 DEF IsSeq, both

\* What a setting takes from the stream that is its own.
StreamOf(start, i)    == Generator(<<start + i - 1>>)
OwnTaken(start, i, t) ==
  Taken(StreamOf(start, i), t.inferring) \o Taken(Advanced(StreamOf(start, i), t.inferring), t.evaluating)

IsTarget(t) == t.inferring \in Nat /\ t.evaluating \in Nat

\* The generator of the caller has no seed of a stream; so the first part of a
\* value tells its place in the caller's, or the stream.
CallerGenerators == [seed : {<<>>}, next : Nat \ {0}]

CallerInv == caller \in CallerGenerators

\* Nothing is left of a call that is over, and a call is one of the Comparisons.
CallInv ==
  /\ comparing = NoSetting =>
       compiled = <<>> /\ streams = <<>> /\ outputs = <<>> /\ inferred = NoSetting
  /\ comparing # NoSetting =>
       /\ comparing.start \in Nat \ {0}
       /\ DOMAIN comparing.settings \in SUBSET Nat /\ IsFiniteSet(DOMAIN comparing.settings)
       /\ \A n \in DOMAIN comparing.settings : IsTarget(comparing.settings[n].target)

\* The settings are compiled in their order, and only those that hold the rest fixed.
CompiledInv ==
  /\ IsSeq(compiled)
  /\ comparing # NoSetting =>
       /\ Len(compiled) <= Len(Names)
       /\ \A i \in 1..Len(compiled) :
            /\ compiled[i] = Names[i]
            /\ HoldsFixed(comparing.settings[compiled[i]])
            /\ comparing.settings[compiled[i]].target.compiles

\* Streams are given out at once, before anything is inferred.
StreamsInv ==
  comparing # NoSetting =>
    /\ streams # <<>> =>
         /\ OwnStreams /\ ~ Compiling /\ Len(streams) = Len(compiled)
         /\ \A i \in 1..Len(compiled) : streams[i] = <<comparing.start + i - 1>>
    /\ OwnStreams /\ streams = <<>> =>
         caller.next = comparing.start /\ inferred = NoSetting /\ outputs = <<>>

\* What is inferred, of the setting whose turn it is.
InferredInv ==
  inferred # NoSetting =>
    /\ ~ Compiling /\ Current <= Len(compiled)
    /\ IsSeq(inferred.taken)
    /\ streams # <<>> =>
         LET g == StreamOf(comparing.start, Current)
             n == comparing.settings[compiled[Current]].target.inferring
         IN  inferred.taken = Taken(g, n) /\ inferred.generator = Advanced(g, n)
    /\ streams = <<>> =>
         /\ inferred.generator = caller
         /\ \A v \in Range(inferred.taken) : v[1] \in Nat /\ v[1] < caller.next
         /\ \A i \in 1..Len(outputs) :
              Range(inferred.taken) \intersect Range(outputs[i].taken) = {}

OutputsInv ==
  /\ IsSeq(outputs)
  /\ outputs # <<>> => ~ Compiling /\ Len(outputs) <= Len(compiled)
  /\ \A i \in 1..Len(outputs) :
       /\ streams # <<>> =>
            /\ IsTarget(outputs[i].target)
            /\ outputs[i].taken = OwnTaken(comparing.start, i, outputs[i].target)
       /\ streams = <<>> =>
            /\ \A v \in Range(outputs[i].taken) : v[1] \in Nat /\ v[1] < caller.next
            /\ \A j \in 1..Len(outputs) :
                 i # j => Range(outputs[i].taken) \intersect Range(outputs[j].taken) = {}

\* What a comparison with streams of its own took is told by where it started.
IsOwn(x) ==
  /\ IsSeq(x.outputs)
  /\ x.own => \A i \in DOMAIN x.outputs :
                x.outputs[i].taken = OwnTaken(x.start, i, x.outputs[i].target)

ComparedInv == IsSeq(compared) /\ \A x \in Range(compared) : IsOwn(x)

ComparisonInv ==
  /\ CallerInv /\ CallInv /\ CompiledInv /\ StreamsInv /\ InferredInv /\ OutputsInv /\ ComparedInv

\* The caller's generator goes on after the values that were taken from it.
LEMMA GeneratorsGoOn ==
  ASSUME NEW g \in CallerGenerators, NEW n \in Nat
  PROVE  /\ Advanced(g, n) \in CallerGenerators /\ Advanced(g, n).next = g.next + n
         /\ \A v \in Range(Taken(g, n)) : v[1] \in Nat /\ g.next <= v[1] /\ v[1] < g.next + n
<1>1. g.seed = <<>> /\ g.next \in Nat \ {0}
  BY DEF CallerGenerators
<1>2. Advanced(g, n) \in CallerGenerators /\ Advanced(g, n).next = g.next + n
  BY <1>1 DEF Advanced, CallerGenerators
<1>3. ASSUME NEW v \in Range(Taken(g, n))
      PROVE  v[1] \in Nat /\ g.next <= v[1] /\ v[1] < g.next + n
  <2>1. PICK k \in 1..n : v = Append(g.seed, g.next + k - 1)
    BY TakenValues
  <2>2. PICK m \in Nat : m = g.next + k - 1
    BY <1>1
  <2>3. v[1] = m
    BY <1>1, <2>1, <2>2
  <2> QED
    BY <1>1, <2>2, <2>3
<1> QED
  BY <1>2, <1>3

\* The values of a stream begin with its seed.
LEMMA StreamsAreTold ==
  ASSUME NEW start \in Nat \ {0}, NEW i \in Nat \ {0}, NEW t, IsTarget(t)
  PROVE  /\ IsSeq(OwnTaken(start, i, t))
         /\ \A v \in Range(OwnTaken(start, i, t)) : v[1] = start + i - 1
<1> DEFINE g == StreamOf(start, i)
           h == Advanced(g, t.inferring)
<1>1. PICK s \in Nat : s = start + i - 1
  OBVIOUS
<1>2. /\ g.seed = <<s>> /\ g.next = 1 /\ h.seed = <<s>> /\ h.next \in Nat
      /\ t.inferring \in Nat /\ t.evaluating \in Nat
  BY <1>1 DEF StreamOf, Generator, Advanced, IsTarget
<1> HIDE DEF g, h
<1>3. ASSUME NEW n \in Nat, NEW a, a.seed = <<s>>, a.next \in Nat, NEW v \in Range(Taken(a, n))
      PROVE  v[1] = s
  <2>1. PICK k \in 1..n : v = Append(a.seed, a.next + k - 1)
    BY TakenValues
  <2>2. PICK m \in Nat : m = a.next + k - 1
    BY <1>3
  <2>3. v = Append(<<s>>, m)
    BY <1>3, <2>1, <2>2
  <2> QED
    BY <2>3
<1>4. /\ Taken(g, t.inferring) \in Seq(Range(Taken(g, t.inferring)))
      /\ Taken(h, t.evaluating) \in Seq(Range(Taken(h, t.evaluating)))
  BY <1>2, TakenValues
<1>5. OwnTaken(start, i, t) = Taken(g, t.inferring) \o Taken(h, t.evaluating)
  BY DEF OwnTaken, g, h
<1>6. /\ IsSeq(OwnTaken(start, i, t))
      /\ \A v \in Range(OwnTaken(start, i, t)) :
           v \in Range(Taken(g, t.inferring)) \/ v \in Range(Taken(h, t.evaluating))
  BY <1>4, <1>5, JoinIsSeq
<1> QED
  BY <1>1, <1>2, <1>3, <1>6


\* Of the empty sequence.
LEMMA NothingIsASeq ==
  IsSeq(<<>>) /\ Len(<<>>) = 0 /\ DOMAIN <<>> = {} /\ 1..0 = {}
<1>1. <<>> \in Seq(Range(<<>>))
  OBVIOUS
<1> QED
  BY <1>1 DEF IsSeq

\* A call that is over leaves what it returns, and the caller's generator.
LEMMA OverKeeps ==
  ASSUME ComparisonInv, NEW how, NEW outs, Over(how, outs), comparing # NoSetting,
         caller' \in CallerGenerators, outs \in {<<>>, outputs}
  PROVE  ComparisonInv'
<1> DEFINE past == [start |-> comparing.start, own |-> streams # <<>>, how |-> how, outputs |-> outs]
<1>1. /\ comparing' = NoSetting /\ compiled' = <<>> /\ streams' = <<>>
      /\ inferred' = NoSetting /\ outputs' = <<>> /\ compared' = Append(compared, past)
  BY DEF Over
<1>2. IsOwn(past)
  <2>1. CASE outs = <<>>
    BY <2>1, NothingIsASeq DEF IsOwn
  <2>2. CASE outs = outputs /\ streams # <<>>
    <3>1. /\ DOMAIN outputs = 1..Len(outputs)
          /\ \A i \in 1..Len(outputs) :
               outputs[i].taken = OwnTaken(comparing.start, i, outputs[i].target)
      BY <2>2, OneMore DEF ComparisonInv, OutputsInv
    <3> QED
      BY <2>2, <3>1 DEF IsOwn, ComparisonInv, OutputsInv
  <2>3. CASE outs = outputs /\ streams = <<>>
    BY <2>3 DEF IsOwn, ComparisonInv, OutputsInv
  <2> QED
    BY <2>1, <2>2, <2>3
<1>3. ComparedInv'
  <2> HIDE DEF past
  <2>1. IsSeq(compared') /\ Range(compared') = Range(compared) \union {past}
    BY <1>1, OneMore DEF ComparisonInv, ComparedInv
  <2> QED
    BY <1>2, <2>1 DEF ComparisonInv, ComparedInv
<1>4. CallerInv'
  BY DEF CallerInv, CallerGenerators
<1>5. CallInv' /\ InferredInv' /\ StreamsInv'
  BY <1>1 DEF CallInv, InferredInv, StreamsInv
<1>6. CompiledInv' /\ OutputsInv'
  BY <1>1, NothingIsASeq DEF CompiledInv, OutputsInv
<1> QED
  BY <1>3, <1>4, <1>5, <1>6 DEF ComparisonInv

\* No call has been made to begin with.
LEMMA ComparisonInit == ComparingInit => ComparisonInv
<1> SUFFICES ASSUME ComparingInit PROVE ComparisonInv
  OBVIOUS
<1> USE NothingIsASeq DEF ComparingInit
<1>1. CallerInv
  BY DEF CallerInv, CallerGenerators, Generator
<1>2. CallInv /\ InferredInv /\ StreamsInv
  BY DEF CallInv, InferredInv, StreamsInv
<1>3. CompiledInv /\ OutputsInv /\ ComparedInv
  BY DEF CompiledInv, OutputsInv, ComparedInv, Range
<1> QED
  BY <1>1, <1>2, <1>3 DEF ComparisonInv

\* A call begins where the caller's generator stands.
LEMMA CompareKeeps ==
  ASSUME ComparisonInv, NEW c \in Comparisons, NEW g \in {caller, Generator(<<>>)}, Compare(c, g)
  PROVE  ComparisonInv'
<1>1. g \in CallerGenerators /\ g.next \in Nat \ {0} /\ g.seed = <<>>
  BY DEF ComparisonInv, CallerInv, CallerGenerators, Generator
<1>2. /\ comparing' = [start |-> g.next, session |-> c.session, rng |-> c.rng,
                       control |-> c.control, settings |-> c.settings]
      /\ caller' = g /\ compiled' = <<>> /\ streams' = <<>> /\ inferred' = NoSetting
      /\ outputs' = <<>> /\ compared' = compared
  BY DEF Compare, ComparisonInv, CallInv
<1>3. /\ DOMAIN c.settings \in SUBSET Nat /\ IsFiniteSet(DOMAIN c.settings)
      /\ \A n \in DOMAIN c.settings : IsTarget(c.settings[n].target)
  BY ComparisonAssumption DEF IsTarget
<1>4. CallerInv'
  BY <1>1, <1>2 DEF CallerInv, CallerGenerators
<1>5. comparing'.start = g.next /\ comparing'.settings = c.settings
  BY <1>2
<1>6. CallInv'
  BY <1>1, <1>2, <1>3, <1>5 DEF CallInv
<1>7. InferredInv' /\ StreamsInv'
  BY <1>2, <1>5 DEF InferredInv, StreamsInv
<1>8. /\ Cardinality(DOMAIN c.settings) \in Nat
      /\ Len(InTheirOrder(DOMAIN c.settings)) = Cardinality(DOMAIN c.settings)
  <2>1. PICK S \in SUBSET Nat : S = DOMAIN c.settings
    BY <1>3
  <2>2. Cardinality(S) \in Nat /\ InTheirOrder(S) \in [1..Cardinality(S) -> S]
    BY <1>3, <2>1, EveryNameInOrder
  <2> QED
    BY <2>1, <2>2
<1>9. CompiledInv' /\ OutputsInv'
  BY <1>2, <1>5, <1>8, NothingIsASeq DEF CompiledInv, OutputsInv, Names
<1>10. ComparedInv'
  BY <1>2 DEF ComparisonInv, ComparedInv
<1> QED
  BY <1>4, <1>6, <1>7, <1>9, <1>10 DEF ComparisonInv


\* The settings of the call are those with the names in order.
LEMMA NamesOfTheCall ==
  ASSUME CallInv, comparing # NoSetting
  PROVE  /\ Len(Names) \in Nat
         /\ \A i \in 1..Len(Names) : Names[i] \in DOMAIN comparing.settings
         /\ \A n \in DOMAIN comparing.settings : \E i \in 1..Len(Names) : Names[i] = n
<1>1. PICK S \in SUBSET Nat : S = DOMAIN comparing.settings /\ IsFiniteSet(S)
  BY DEF CallInv
<1>2. /\ Cardinality(S) \in Nat
      /\ InTheirOrder(S) \in [1..Cardinality(S) -> S]
      /\ \A n \in S : \E i \in 1..Cardinality(S) : InTheirOrder(S)[i] = n
  BY <1>1, EveryNameInOrder
<1> QED
  BY <1>1, <1>2 DEF Names

\* Nothing is inferred while a setting is still to be compiled.
LEMMA CompileKeeps ==
  ASSUME ComparisonInv, CompileSetting
  PROVE  ComparisonInv'
<1> DEFINE name == Names[Len(compiled) + 1]
           s == comparing.settings[name]
<1>1. comparing # NoSetting /\ Compiling
  BY DEF CompileSetting, Compiling
<1>2. caller \in CallerGenerators
  BY DEF ComparisonInv, CallerInv, CallerGenerators
<1>3. ASSUME NEW how, Refused(how) PROVE ComparisonInv'
  BY <1>1, <1>2, <1>3, OverKeeps DEF Refused
<1>4. ASSUME HoldsFixed(s), s.target.compiles, compiled' = Append(compiled, name),
             UNCHANGED <<comparing, caller, streams, inferred, outputs, compared>>
      PROVE  ComparisonInv'
  <2>1. /\ comparing' = comparing /\ caller' = caller /\ streams' = streams
        /\ inferred' = inferred /\ outputs' = outputs /\ compared' = compared
    BY <1>4
  <2>2. CallerInv' /\ ComparedInv'
    BY <2>1 DEF ComparisonInv, CallerInv, ComparedInv
  <2>3. streams = <<>> /\ inferred = NoSetting /\ outputs = <<>>
    BY <1>1 DEF ComparisonInv, StreamsInv, InferredInv, OutputsInv
  <2>4. Names' = Names /\ Len(Names) \in Nat
    BY <1>1, <2>1, NamesOfTheCall DEF ComparisonInv, Names
  <2>5. /\ IsSeq(compiled) /\ Len(compiled) \in Nat /\ Len(compiled) < Len(Names)
        /\ \A i \in 1..Len(compiled) :
            /\ compiled[i] = Names[i]
            /\ HoldsFixed(comparing.settings[compiled[i]])
            /\ comparing.settings[compiled[i]].target.compiles
    BY <1>1, OneMore DEF ComparisonInv, CompiledInv, Compiling
  <2>6. /\ IsSeq(compiled') /\ Len(compiled') = Len(compiled) + 1
        /\ \A i \in 1..Len(compiled) : compiled'[i] = compiled[i]
        /\ compiled'[Len(compiled) + 1] = name
    BY <1>4, <2>5, OneMore
  <2>7. CompiledInv'
    <3>1. Len(compiled') <= Len(Names)
      BY <2>4, <2>5, <2>6
    <3>2. ASSUME NEW i \in 1..Len(compiled')
          PROVE  /\ compiled'[i] = Names[i]
                 /\ HoldsFixed(comparing.settings[compiled'[i]])
                 /\ comparing.settings[compiled'[i]].target.compiles
      <4>1. CASE i \in 1..Len(compiled)
        BY <2>5, <2>6, <4>1
      <4>2. CASE i = Len(compiled) + 1
        BY <1>4, <2>6, <4>2
      <4> QED
        BY <2>5, <2>6, <4>1, <4>2
    <3> QED
      BY <2>1, <2>4, <2>6, <3>1, <3>2 DEF CompiledInv
  <2>8. CallInv' /\ StreamsInv' /\ InferredInv' /\ OutputsInv'
    <3>1. CallInv'
      BY <1>1, <2>1 DEF ComparisonInv, CallInv
    <3>2. StreamsInv'
      BY <2>1, <2>3 DEF ComparisonInv, StreamsInv, OwnStreams
    <3>3. InferredInv' /\ OutputsInv'
      BY <2>1, <2>3, NothingIsASeq DEF InferredInv, OutputsInv
    <3> QED
      BY <3>1, <3>2, <3>3
  <2> QED
    BY <2>2, <2>7, <2>8 DEF ComparisonInv
<1> QED
  BY <1>3, <1>4 DEF CompileSetting

\* A stop ends the call with no outputs.
LEMMA StopKeeps ==
  ASSUME ComparisonInv, StopComparison
  PROVE  ComparisonInv'
<1>1. caller \in CallerGenerators
  BY DEF ComparisonInv, CallerInv, CallerGenerators
<1> QED
  BY <1>1, OverKeeps DEF StopComparison, Refused

\* Every setting gets its seed before the first is run.
LEMMA AllocateKeeps ==
  ASSUME ComparisonInv, Allocate
  PROVE  ComparisonInv'
<1>1. /\ comparing # NoSetting /\ ~ Compiling /\ OwnStreams /\ streams = <<>> /\ compiled # <<>>
      /\ streams' = Taken(caller, Len(compiled)) /\ caller' = Advanced(caller, Len(compiled))
      /\ comparing' = comparing /\ compiled' = compiled /\ inferred' = inferred
      /\ outputs' = outputs /\ compared' = compared
  BY DEF Allocate
<1>2. caller \in CallerGenerators /\ Len(compiled) \in Nat
  BY OneMore DEF ComparisonInv, CallerInv, CallerGenerators, CompiledInv
<1>3. caller.seed = <<>> /\ caller.next = comparing.start /\ inferred = NoSetting /\ outputs = <<>>
  BY <1>1, <1>2 DEF ComparisonInv, StreamsInv, CallerGenerators
<1>4. CallerInv'
  BY <1>1, <1>2, GeneratorsGoOn DEF CallerInv, CallerGenerators
<1>5. CallInv' /\ ComparedInv'
  BY <1>1 DEF ComparisonInv, CallInv, ComparedInv
<1>6. CompiledInv'
  BY <1>1 DEF ComparisonInv, CompiledInv, Names
<1>7. InferredInv' /\ OutputsInv'
  BY <1>1, <1>3, NothingIsASeq DEF InferredInv, OutputsInv
<1>8. StreamsInv'
  <2>1. PICK n \in Nat : n = Len(compiled)
    BY <1>2
  <2>2. streams' = [i \in 1..n |-> Append(<<>>, comparing.start + i - 1)]
    BY <1>1, <1>3, <2>1 DEF Taken
  <2>3. Len(streams') = n
    BY <2>2
  <2>4. \A i \in 1..n : streams'[i] = <<comparing.start + i - 1>>
    BY <2>2
  <2>5. n # 0
    BY <1>1, <2>1, EmptySeq DEF ComparisonInv, CompiledInv, IsSeq
  <2>6. streams' # <<>>
    BY <2>3, <2>5
  <2>7. OwnStreams' /\ ~ Compiling'
    BY <1>1 DEF OwnStreams, Compiling, Names
  <2> QED
    BY <1>1, <2>1, <2>3, <2>4, <2>6, <2>7 DEF StreamsInv
<1> QED
  BY <1>4, <1>5, <1>6, <1>7, <1>8 DEF ComparisonInv


\* The outputs returned are those of all the settings.
LEMMA ReturnKeeps ==
  ASSUME ComparisonInv, ReturnComparison
  PROVE  ComparisonInv'
<1>1. caller \in CallerGenerators /\ caller' = caller /\ comparing # NoSetting
  BY DEF ReturnComparison, Running, ComparisonInv, CallerInv, CallerGenerators
<1> QED
  BY <1>1, OverKeeps DEF ReturnComparison

\* A generator that is left behind is the caller's own, or the caller's is untouched.
LEMMA LeavesTheCaller ==
  ASSUME ComparisonInv, NEW g, NEW n \in Nat, LeaveAt(Advanced(g, n)),
         streams = <<>> => g = caller
  PROVE  /\ caller' \in CallerGenerators
         /\ streams = <<>> => caller' = Advanced(caller, n) /\ caller'.next = caller.next + n
         /\ streams # <<>> => caller' = caller
<1>1. caller \in CallerGenerators
  BY DEF ComparisonInv, CallerInv, CallerGenerators
<1> QED
  BY <1>1, GeneratorsGoOn DEF LeaveAt

\* A run that fails ends the call, whatever it has taken.
LEMMA FailedRunKeeps ==
  ASSUME ComparisonInv, comparing # NoSetting, NEW works, NEW g, NEW n \in Nat, NEW how,
         FailsRun(works, g, n, how), streams = <<>> => g = caller
  PROVE  ComparisonInv'
<1>1. PICK taken \in {0, n} : LeaveAt(Advanced(g, taken))
  BY DEF FailsRun
<1>2. caller' \in CallerGenerators
  BY <1>1, LeavesTheCaller
<1> QED
  BY <1>2, OverKeeps DEF FailsRun

\* Whose turn it is: its target, and the generator it runs on.
LEMMA TheCurrentSetting ==
  ASSUME ComparisonInv, comparing # NoSetting, ~ Compiling, Current <= Len(compiled)
  PROVE  /\ Current \in Nat \ {0} /\ Len(outputs) \in Nat /\ Len(compiled) \in Nat
         /\ compiled[Current] \in DOMAIN comparing.settings
         /\ IsTarget(comparing.settings[compiled[Current]].target)
         /\ streams = <<>> => GeneratorOf(Current) = caller
         /\ streams # <<>> => GeneratorOf(Current) = StreamOf(comparing.start, Current)
<1>1. Len(outputs) \in Nat /\ Len(compiled) \in Nat /\ Current \in 1..Len(compiled)
  BY OneMore DEF ComparisonInv, OutputsInv, CompiledInv, Current
<1>2. /\ Len(Names) \in Nat /\ Len(compiled) <= Len(Names)
      /\ compiled[Current] = Names[Current]
      /\ \A i \in 1..Len(Names) : Names[i] \in DOMAIN comparing.settings
  BY <1>1, NamesOfTheCall DEF ComparisonInv, CompiledInv
<1>3. compiled[Current] \in DOMAIN comparing.settings
  BY <1>1, <1>2
<1>4. IsTarget(comparing.settings[compiled[Current]].target)
  BY <1>3 DEF ComparisonInv, CallInv
<1>5. streams # <<>> => GeneratorOf(Current) = StreamOf(comparing.start, Current)
  BY <1>1 DEF ComparisonInv, StreamsInv, GeneratorOf, StreamOf
<1> QED
  BY <1>1, <1>3, <1>4, <1>5 DEF GeneratorOf

\* Inference takes values that no setting before it took.
LEMMA InferKeeps ==
  ASSUME ComparisonInv, InferSetting
  PROVE  ComparisonInv'
<1> DEFINE target == comparing.settings[compiled[Current]].target
           n      == target.inferring
           g      == GeneratorOf(Current)
<1>1. /\ comparing # NoSetting /\ ~ Compiling /\ Current <= Len(compiled) /\ inferred = NoSetting
      /\ OwnStreams => Len(streams) = Len(compiled)
  BY DEF InferSetting, Running
<1>2. /\ Current \in Nat \ {0} /\ Len(outputs) \in Nat /\ Len(compiled) \in Nat /\ n \in Nat
      /\ streams = <<>> => g = caller
      /\ streams # <<>> => g = StreamOf(comparing.start, Current)
  BY <1>1, TheCurrentSetting DEF IsTarget
<1>3. ASSUME FailsRun(target.solves, g, n, "inference") PROVE ComparisonInv'
  <2> HIDE DEF n, g
  <2> QED
    BY <1>1, <1>2, <1>3, FailedRunKeeps
<1>4. ASSUME inferred' = [taken |-> Taken(g, n), generator |-> Advanced(g, n)],
             LeaveAt(Advanced(g, n)),
             UNCHANGED <<comparing, compiled, streams, outputs, compared>>
      PROVE  ComparisonInv'
  <2>1. /\ comparing' = comparing /\ compiled' = compiled /\ streams' = streams
        /\ outputs' = outputs /\ compared' = compared
    BY <1>4
  <2>2. /\ caller' \in CallerGenerators /\ caller \in CallerGenerators
        /\ streams = <<>> => caller' = Advanced(caller, n) /\ caller'.next = caller.next + n
        /\ streams # <<>> => caller' = caller
    <3> HIDE DEF n, g
    <3> QED
      BY <1>2, <1>4, LeavesTheCaller DEF ComparisonInv, CallerInv, CallerGenerators
  <2>3. CallerInv'
    BY <2>2 DEF CallerInv, CallerGenerators
  <2>4. CompiledInv' /\ ComparedInv'
    BY <2>1 DEF ComparisonInv, CompiledInv, ComparedInv, Names
  <2>5. CallInv'
    BY <1>1, <2>1 DEF ComparisonInv, CallInv
  <2>6. streams # <<>> \/ ~ OwnStreams
    BY <1>1, <1>2, NothingIsASeq
  <2>7. StreamsInv'
    BY <1>1, <2>1, <2>6 DEF ComparisonInv, StreamsInv, OwnStreams, Compiling, Names
  <2>8. caller.next \in Nat /\ caller.next <= caller.next + n
    <3> HIDE DEF n, g
    <3>1. caller.next \in Nat
      BY <2>2 DEF CallerGenerators
    <3> QED
      BY <1>2, <3>1
  <2>9. ASSUME NEW i \in 1..Len(outputs), streams = <<>>
        PROVE  \A v \in Range(outputs[i].taken) : v[1] \in Nat /\ v[1] < caller.next
    BY <2>9 DEF ComparisonInv, OutputsInv
  <2>10. OutputsInv'
    <3>1. ASSUME NEW i \in 1..Len(outputs), streams = <<>>
          PROVE  \A v \in Range(outputs[i].taken) : v[1] \in Nat /\ v[1] < caller'.next
      BY <1>2, <2>2, <2>8, <2>9, <3>1
    <3> QED
      BY <2>1, <3>1 DEF ComparisonInv, OutputsInv, Compiling, Names
  <2>11. InferredInv'
    <3>1. inferred'.taken = Taken(g, n) /\ inferred'.generator = Advanced(g, n)
      BY <1>4
    <3>2. IsSeq(inferred'.taken)
      <4> HIDE DEF n, g
      <4> QED
        BY <1>2, <3>1, TakenValues DEF IsSeq
    <3>3. ASSUME streams = <<>>
          PROVE  /\ inferred'.generator = caller'
                 /\ \A v \in Range(inferred'.taken) : v[1] \in Nat /\ v[1] < caller'.next
                 /\ \A i \in 1..Len(outputs) :
                      Range(inferred'.taken) \intersect Range(outputs[i].taken) = {}
      <4> HIDE DEF n, g
      <4>1. \A v \in Range(inferred'.taken) :
              v[1] \in Nat /\ caller.next <= v[1] /\ v[1] < caller.next + n
        BY <1>2, <2>2, <3>1, <3>3, GeneratorsGoOn
      <4>2. ASSUME NEW i \in 1..Len(outputs), NEW v \in Range(inferred'.taken),
                   v \in Range(outputs[i].taken)
            PROVE  FALSE
        <5>1. v[1] \in Nat /\ caller.next <= v[1] /\ v[1] < caller.next
          BY <2>9, <3>3, <4>1, <4>2
        <5> QED
          BY <2>8, <5>1
      <4> QED
        BY <1>2, <2>2, <3>1, <3>3, <4>1, <4>2
    <3>4. ASSUME streams # <<>>
          PROVE  /\ inferred'.taken = Taken(StreamOf(comparing.start, Current), n)
                 /\ inferred'.generator = Advanced(StreamOf(comparing.start, Current), n)
      BY <1>2, <3>1, <3>4
    <3>5. ~ Compiling' /\ Current' = Current /\ Current' <= Len(compiled')
      BY <1>1, <2>1 DEF Compiling, Current, Names
    <3> QED
      BY <2>1, <3>2, <3>3, <3>4, <3>5 DEF InferredInv
  <2> QED
    BY <2>3, <2>4, <2>5, <2>7, <2>10, <2>11 DEF ComparisonInv
<1> QED
  BY <1>3, <1>4 DEF InferSetting


\* Evaluation goes on with the generator that inference left, or one of its own.
LEMMA EvaluateKeeps ==
  ASSUME ComparisonInv, EvaluateSetting
  PROVE  ComparisonInv'
<1> DEFINE name   == compiled[Current]
           target == comparing.settings[name].target
           n      == target.evaluating
           g      == inferred.generator
           e      == [name |-> name, target |-> target, taken |-> inferred.taken \o Taken(g, n)]
<1>1. /\ inferred # NoSetting /\ comparing # NoSetting /\ ~ Compiling /\ Current <= Len(compiled)
      /\ IsSeq(inferred.taken)
  BY DEF EvaluateSetting, ComparisonInv, CallInv, InferredInv
<1>2. /\ Current \in Nat \ {0} /\ Len(outputs) \in Nat /\ Len(compiled) \in Nat
      /\ n \in Nat /\ IsTarget(target)
      /\ streams = <<>> => g = caller
  BY <1>1, TheCurrentSetting DEF IsTarget, ComparisonInv, InferredInv
<1>3. ASSUME FailsRun(target.evaluates, g, n, "evaluation") PROVE ComparisonInv'
  <2> HIDE DEF n, g
  <2> QED
    BY <1>1, <1>2, <1>3, FailedRunKeeps
<1>4. ASSUME outputs' = Append(outputs, e), LeaveAt(Advanced(g, n)), inferred' = NoSetting,
             UNCHANGED <<comparing, compiled, streams, compared>>
      PROVE  ComparisonInv'
  <2>1. /\ comparing' = comparing /\ compiled' = compiled /\ streams' = streams
        /\ inferred' = NoSetting /\ compared' = compared
    BY <1>4
  <2>2. /\ caller' \in CallerGenerators /\ caller \in CallerGenerators
        /\ streams = <<>> => caller' = Advanced(caller, n) /\ caller'.next = caller.next + n
        /\ streams # <<>> => caller' = caller
    <3> HIDE DEF n, g
    <3> QED
      BY <1>2, <1>4, LeavesTheCaller DEF ComparisonInv, CallerInv, CallerGenerators
  <2>3. CallerInv'
    BY <2>2 DEF CallerInv, CallerGenerators
  <2>4. CompiledInv' /\ ComparedInv'
    BY <2>1 DEF ComparisonInv, CompiledInv, ComparedInv, Names
  <2>5. CallInv' /\ InferredInv'
    BY <1>1, <2>1 DEF ComparisonInv, CallInv, InferredInv
  <2>6. streams # <<>> \/ ~ OwnStreams
    BY <1>1 DEF ComparisonInv, StreamsInv
  <2>7. StreamsInv'
    BY <1>1, <2>1, <2>6 DEF ComparisonInv, StreamsInv, OwnStreams, Compiling, Names
  <2>8. /\ IsSeq(outputs') /\ Len(outputs') = Current
        /\ \A i \in 1..Len(outputs) : outputs'[i] = outputs[i]
        /\ outputs'[Current] = e
    <3>1. IsSeq(outputs) /\ outputs' = Append(outputs, e) /\ Current = Len(outputs) + 1
      BY <1>4 DEF ComparisonInv, OutputsInv, Current
    <3> HIDE DEF e
    <3> QED
      BY <3>1, OneMore
  <2>9. caller.next \in Nat /\ caller.next <= caller.next + n
    <3> HIDE DEF n, g, e, target
    <3>1. caller.next \in Nat
      BY <2>2 DEF CallerGenerators
    <3> QED
      BY <1>2, <3>1
  <2>10. e.target = target /\ e.taken = inferred.taken \o Taken(g, n)
    OBVIOUS
  <2>11. ASSUME streams # <<>>
         PROVE  e.taken = OwnTaken(comparing.start, Current, target)
    <3>1. /\ inferred.taken = Taken(StreamOf(comparing.start, Current), target.inferring)
          /\ g = Advanced(StreamOf(comparing.start, Current), target.inferring)
      BY <1>1, <2>11 DEF ComparisonInv, InferredInv
    <3> QED
      BY <2>10, <3>1 DEF OwnTaken
  <2>12. ASSUME streams = <<>>
         PROVE  /\ \A v \in Range(e.taken) : v[1] \in Nat /\ v[1] < caller'.next
                /\ \A i \in 1..Len(outputs) : Range(e.taken) \intersect Range(outputs[i].taken) = {}
    <3>1. /\ \A v \in Range(inferred.taken) : v[1] \in Nat /\ v[1] < caller.next
          /\ \A i \in 1..Len(outputs) : Range(inferred.taken) \intersect Range(outputs[i].taken) = {}
          /\ \A i \in 1..Len(outputs) : \A v \in Range(outputs[i].taken) :
               v[1] \in Nat /\ v[1] < caller.next
      BY <1>1, <2>12 DEF ComparisonInv, InferredInv, OutputsInv
    <3> HIDE DEF n, g, e
    <3>2. \A v \in Range(Taken(g, n)) :
            v[1] \in Nat /\ caller.next <= v[1] /\ v[1] < caller.next + n
      BY <1>2, <2>2, <2>12, GeneratorsGoOn
    <3>3. \A v \in Range(e.taken) : v \in Range(inferred.taken) \/ v \in Range(Taken(g, n))
      BY <1>1, <1>2, <2>10, TakenValues, JoinIsSeq DEF IsSeq
    <3>4. ASSUME NEW v \in Range(e.taken) PROVE v[1] \in Nat /\ v[1] < caller'.next
      <4>1. v[1] \in Nat /\ (v[1] < caller.next \/ v[1] < caller.next + n)
        BY <3>1, <3>2, <3>3
      <4> QED
        BY <1>2, <2>2, <2>9, <2>12, <4>1
    <3>5. ASSUME NEW i \in 1..Len(outputs), NEW v \in Range(e.taken), v \in Range(outputs[i].taken)
          PROVE  FALSE
      <4>1. v \notin Range(inferred.taken) /\ v[1] \in Nat /\ v[1] < caller.next
        BY <3>1, <3>5
      <4>2. caller.next <= v[1]
        BY <3>2, <3>3, <4>1
      <4> QED
        BY <2>9, <4>1, <4>2
    <3> QED
      BY <3>4, <3>5
  <2>13. OutputsInv'
    <3> HIDE DEF n, g, e, target
    <3>1. ~ Compiling' /\ Len(outputs') <= Len(compiled')
      BY <1>1, <2>1, <2>8 DEF Compiling, Names
    <3>2. \A i \in 1..Current : i = Current \/ i \in 1..Len(outputs)
      BY <1>2 DEF Current
    <3>3. ASSUME NEW i \in 1..Current, streams # <<>>
          PROVE  /\ IsTarget(outputs'[i].target)
                 /\ outputs'[i].taken = OwnTaken(comparing.start, i, outputs'[i].target)
      <4>1. CASE i \in 1..Len(outputs)
        BY <2>8, <3>3, <4>1 DEF ComparisonInv, OutputsInv
      <4>2. CASE i = Current
        BY <1>2, <2>8, <2>10, <2>11, <3>3, <4>2
      <4> QED
        BY <3>2, <4>1, <4>2
    <3>4. ASSUME NEW i \in 1..Current, streams = <<>>
          PROVE  \A v \in Range(outputs'[i].taken) : v[1] \in Nat /\ v[1] < caller'.next
      <4>1. CASE i \in 1..Len(outputs)
        <5>1. \A v \in Range(outputs[i].taken) : v[1] \in Nat /\ v[1] < caller.next
          BY <3>4, <4>1 DEF ComparisonInv, OutputsInv
        <5> QED
          BY <1>2, <2>2, <2>8, <2>9, <3>4, <4>1, <5>1
      <4>2. CASE i = Current
        BY <2>8, <2>12, <3>4, <4>2
      <4> QED
        BY <3>2, <4>1, <4>2
    <3>5. ASSUME NEW i \in 1..Current, NEW j \in 1..Current, i # j, streams = <<>>
          PROVE  Range(outputs'[i].taken) \intersect Range(outputs'[j].taken) = {}
      <4>1. CASE i \in 1..Len(outputs) /\ j \in 1..Len(outputs)
        BY <2>8, <3>5, <4>1 DEF ComparisonInv, OutputsInv
      <4>2. CASE i = Current /\ j \in 1..Len(outputs)
        BY <2>8, <2>12, <3>5, <4>2
      <4>3. CASE j = Current /\ i \in 1..Len(outputs)
        BY <2>8, <2>12, <3>5, <4>3
      <4> QED
        BY <3>2, <3>5, <4>1, <4>2, <4>3
    <3> QED
      BY <2>1, <2>8, <3>1, <3>3, <3>4, <3>5 DEF OutputsInv
  <2> QED
    BY <2>3, <2>4, <2>5, <2>7, <2>13 DEF ComparisonInv
<1> QED
  BY <1>3, <1>4 DEF EvaluateSetting

\* At every moment of a comparison it is known who took which values.
THEOREM ComparisonAlways == ComparingSpec => []ComparisonInv
<1>1. ASSUME ComparisonInv, [ComparingNext]_comparisonVars PROVE ComparisonInv'
  <2>1. ASSUME NEW c \in Comparisons, NEW g \in {caller, Generator(<<>>)}, Compare(c, g)
        PROVE  ComparisonInv'
    BY <1>1, <2>1, CompareKeeps
  <2>2. CASE CompileSetting
    BY <1>1, <2>2, CompileKeeps
  <2>3. CASE StopComparison
    BY <1>1, <2>3, StopKeeps
  <2>4. CASE Allocate
    BY <1>1, <2>4, AllocateKeeps
  <2>5. CASE InferSetting
    BY <1>1, <2>5, InferKeeps
  <2>6. CASE EvaluateSetting
    BY <1>1, <2>6, EvaluateKeeps
  <2>7. CASE ReturnComparison
    BY <1>1, <2>7, ReturnKeeps
  <2>8. CASE UNCHANGED comparisonVars
    <3>1. /\ comparing' = comparing /\ compiled' = compiled /\ caller' = caller
          /\ streams' = streams /\ inferred' = inferred /\ outputs' = outputs /\ compared' = compared
      BY <2>8 DEF comparisonVars
    <3>2. Compiling' = Compiling /\ Names' = Names /\ Current' = Current /\ OwnStreams' = OwnStreams
      BY <3>1 DEF Compiling, Names, Current, OwnStreams
    <3>3. CallerInv' /\ CallInv' /\ ComparedInv'
      BY <1>1, <3>1 DEF ComparisonInv, CallerInv, CallInv, ComparedInv
    <3>4. CompiledInv' /\ StreamsInv'
      BY <1>1, <3>1, <3>2 DEF ComparisonInv, CompiledInv, StreamsInv
    <3>5. InferredInv'
      BY <1>1, <3>1, <3>2 DEF ComparisonInv, InferredInv
    <3>6. OutputsInv'
      BY <1>1, <3>1, <3>2 DEF ComparisonInv, OutputsInv
    <3> QED
      BY <3>3, <3>4, <3>5, <3>6 DEF ComparisonInv
  <2> QED
    BY <1>1, <2>1, <2>2, <2>3, <2>4, <2>5, <2>6, <2>7, <2>8 DEF ComparingNext
<1> QED
  BY <1>1, ComparisonInit, PTL DEF ComparingSpec


\* The invariant says of the values taken what the property compares.
LEMMA ComparableSettings == ComparisonInv => SettingsAreComparable
<1> SUFFICES ASSUME ComparisonInv PROVE SettingsAreComparable
  OBVIOUS
<1>1. ASSUME inferred # NoSetting \/ outputs # <<>>, NEW m \in DOMAIN comparing.settings
      PROVE  HoldsFixed(comparing.settings[m]) /\ comparing.settings[m].target.compiles
  <2>1. comparing # NoSetting /\ ~ Compiling
    BY <1>1 DEF ComparisonInv, CallInv, InferredInv, OutputsInv
  <2>2. PICK i \in 1..Len(Names) : Names[i] = m
    BY <1>1, <2>1, NamesOfTheCall DEF ComparisonInv
  <2>3. Len(Names) \in Nat /\ Len(compiled) \in Nat
    BY <2>1, NamesOfTheCall, OneMore DEF ComparisonInv, CompiledInv
  <2>4. i \in 1..Len(compiled)
    BY <2>1, <2>3 DEF Compiling
  <2> QED
    BY <2>1, <2>2, <2>4 DEF ComparisonInv, CompiledInv
<1>2. ASSUME NEW i \in DOMAIN outputs, NEW j \in DOMAIN outputs, i # j,
             NEW v \in Range(outputs[i].taken), v \in Range(outputs[j].taken)
      PROVE  FALSE
  <2>1. Len(outputs) \in Nat /\ DOMAIN outputs = 1..Len(outputs) /\ comparing # NoSetting
    BY <1>2, OneMore, NothingIsASeq DEF ComparisonInv, OutputsInv, CallInv
  <2>2. i \in Nat \ {0} /\ j \in Nat \ {0}
    BY <2>1
  <2>3. CASE streams = <<>>
    BY <1>2, <2>1, <2>3 DEF ComparisonInv, OutputsInv
  <2>4. CASE streams # <<>>
    <3>1. comparing.start \in Nat \ {0}
      BY <2>1 DEF ComparisonInv, CallInv
    <3>2. /\ IsTarget(outputs[i].target) /\ IsTarget(outputs[j].target)
          /\ outputs[i].taken = OwnTaken(comparing.start, i, outputs[i].target)
          /\ outputs[j].taken = OwnTaken(comparing.start, j, outputs[j].target)
      BY <2>1, <2>4 DEF ComparisonInv, OutputsInv
    <3>3. v[1] = comparing.start + i - 1 /\ v[1] = comparing.start + j - 1
      BY <1>2, <2>2, <3>1, <3>2, StreamsAreTold
    <3> QED
      BY <1>2, <2>2, <3>1, <3>3
  <2> QED
    BY <2>3, <2>4
<1>3. ASSUME NEW x \in Range(compared), NEW y \in Range(compared),
             x.own, y.own, x.start = y.start, Len(x.outputs) = Len(y.outputs),
             NEW i \in DOMAIN x.outputs, x.outputs[i].target = y.outputs[i].target
      PROVE  x.outputs[i].taken = y.outputs[i].taken
  <2>1. IsOwn(x) /\ IsOwn(y)
    BY DEF ComparisonInv, ComparedInv
  <2>2. /\ DOMAIN x.outputs = 1..Len(x.outputs)
        /\ DOMAIN y.outputs = 1..Len(y.outputs)
    BY <2>1, OneMore DEF IsOwn
  <2>3. i \in DOMAIN y.outputs
    BY <1>3, <2>2
  <2> QED
    BY <1>3, <2>1, <2>3 DEF IsOwn
<1> QED
  BY <1>1, <1>2, <1>3 DEF SettingsAreComparable

\* Compared settings differ in their trust alone and share no random value; in
\* a session what one takes does not depend on the others (compare_settings()).
THEOREM ComparisonsAreFair == ComparingSpec => []SettingsAreComparable
BY ComparisonAlways, ComparableSettings, PTL

=============================================================================
