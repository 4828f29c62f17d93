-------------------------- MODULE EliminationProofs -------------------------
(***************************************************************************)
(* What a symbolic plan guarantees about the elimination that follows it,  *)
(* and about the posterior it leaves; what message passing may report of a *)
(* model whose tables form a tree; what expectation propagation publishes  *)
(* of a graph, sweep by sweep; and what process queries may say of the     *)
(* rows they were answered from.  For every set of variables, every model, *)
(* every graph, every budget, every result and every query.                *)
(***************************************************************************)
EXTENDS BeliefPropagation, ExpectationPropagation, ProcessQuery, FiniteSetTheorems,
        SequenceTheorems, WellFoundedInduction, TLAPS

-----------------------------------------------------------------------------
(***************************************************************************)
(* The inductive invariant                                                 *)
(***************************************************************************)
\* The tables and sequences of a run are over the variables of the model.
Types ==
  /\ pc \in {"called", "planning", "eliminating", "ready", "drawing",
             "refused", "impossible", "broken"}
  /\ keep \subseteq Keys /\ assigned \subseteq Keys
  /\ retain \in BOOLEAN
  /\ order \in Seq(Keys) /\ frontals \in Seq(Keys)
  /\ tables \in Seq(SUBSET Keys) /\ conditionals \in Seq(SUBSET Keys)
  /\ plan \in Seq(SUBSET SUBSET Keys)
  /\ active \subseteq DOMAIN tables
  /\ pos \in Nat

Ordered(n) == {order[j] : j \in 1..n}

PlanClique(i) == {order[i]} \union Neighbours(plan[i], order[i])

\* The ordering runs through sets of scopes, each the reduction of the one
\* before it; a variable ordered never comes back, one kept is never lost,
\* and the cliques met on the way are those estimated.
Planned ==
  pc # "called" =>
    /\ Len(plan) = Len(order) + 1
    /\ \A i \in 1..Len(order) : plan[i + 1] = Reduced(plan[i], order[i])
    /\ \A i \in 1..Len(plan) : \A s \in plan[i] : \A j \in 1..Len(order) :
         j < i => order[j] \notin s
    /\ \A i \in 1..Len(plan) : retain \/ keep \subseteq UNION plan[i]
    /\ \A i, j \in 1..Len(order) : order[i] = order[j] => i = j
    /\ \A i \in 1..Len(order) : order[i] \notin keep
    /\ \A i \in 1..Len(order) : PlanClique(i) \in planned
    /\ retain => keep = {}

\* The graph that the ordering works on is the graph of the scopes it would
\* have obtained by combining the tables.
Planning ==
  pc = "planning" =>
    /\ DOMAIN graph = Keys \ Ordered(Len(order))
    /\ \A k \in DOMAIN graph : graph[k] = Neighbours(plan[Len(plan)], k)
    /\ active = DOMAIN tables
    /\ plan[1] = Scopes(tables)
    /\ retain => conditionals = <<>> /\ frontals = <<>>

\* The elimination follows the plan, table by table.
Eliminating ==
  pc = "eliminating" =>
    /\ pos \in 1..(Len(order) + 1)
    /\ {tables[i] : i \in active} = plan[pos]
    /\ \A s \in planned : ~(Size(s) > MaxClique)
    /\ Keys \ Ordered(Len(order)) = keep
    /\ retain => /\ Len(conditionals) = pos - 1
                 /\ Len(frontals) = pos - 1
                 /\ \A i \in 1..(pos - 1) : /\ frontals[i] = order[i]
                                            /\ conditionals[i] = PlanClique(i)

\* The conditionals of a posterior: each is over one variable and over others
\* that have their conditionals later, and every variable has one.
Posterior ==
  pc \in {"ready", "drawing"} \/ (pc \in {"planning", "eliminating"} /\ ~retain) =>
    /\ Len(frontals) = Len(conditionals)
    /\ \A i \in 1..Len(frontals) : frontals[i] \in conditionals[i]
    /\ \A i \in 1..Len(frontals) : \A k \in conditionals[i] :
         k = frontals[i] \/ \E j \in 1..Len(frontals) : i < j /\ k = frontals[j]
    /\ \A i, j \in 1..Len(frontals) : frontals[i] = frontals[j] => i = j
    /\ \A k \in Keys : \E i \in 1..Len(frontals) : frontals[i] = k

\* A draw has assigned the variables of the conditionals behind it.
Drawing ==
  pc = "drawing" =>
    /\ pos <= Len(frontals)
    /\ \A k \in Keys : k \in assigned <=> \E j \in 1..Len(frontals) : pos < j /\ k = frontals[j]

NotBroken == pc # "broken"

Inv == Types /\ Planned /\ Planning /\ Eliminating /\ Posterior /\ Drawing /\ NotBroken

-----------------------------------------------------------------------------
(***************************************************************************)
(* Sets of scopes                                                          *)
(***************************************************************************)
\* Eliminating k connects its neighbours, which is what Filled() does.
LEMMA NeighboursReduced ==
  ASSUME NEW H, NEW k, NEW v, v # k
  PROVE  Neighbours(Reduced(H, k), v) =
           IF v \in Neighbours(H, k)
           THEN (Neighbours(H, v) \ {k}) \union (Neighbours(H, k) \ {v})
           ELSE Neighbours(H, v)
<1>1. CASE v \in Neighbours(H, k)
  <2>1. ASSUME NEW x
        PROVE  x \in Neighbours(Reduced(H, k), v) <=>
                 x \in (Neighbours(H, v) \ {k}) \union (Neighbours(H, k) \ {v})
    BY <1>1 DEF Neighbours, Reduced
  <2>2. QED
    BY <1>1, <2>1
<1>2. CASE v \notin Neighbours(H, k)
  <2>1. ASSUME NEW x
        PROVE  x \in Neighbours(Reduced(H, k), v) <=> x \in Neighbours(H, v)
    BY <1>2 DEF Neighbours, Reduced
  <2>2. QED
    BY <1>2, <2>1
<1>3. QED
  BY <1>1, <1>2

\* Eliminating k loses k and no other variable.
LEMMA ReducedLosesOne ==
  ASSUME NEW H, NEW k
  PROVE  /\ \A s \in Reduced(H, k) : k \notin s
         /\ \A s \in Reduced(H, k) : \A x \in s : \E t \in H : x \in t
         /\ \A x \in UNION H : x # k => x \in UNION Reduced(H, k)
<1>1. \A s \in Reduced(H, k) : k \notin s
  BY DEF Reduced, Neighbours
<1>2. ASSUME NEW s \in Reduced(H, k), NEW x \in s PROVE \E t \in H : x \in t
  BY DEF Reduced, Neighbours
<1>3. ASSUME NEW x \in UNION H, x # k PROVE x \in UNION Reduced(H, k)
  <2>1. PICK t \in H : x \in t
    OBVIOUS
  <2>2. CASE k \in t
    BY <2>1, <2>2, <1>3 DEF Reduced, Neighbours
  <2>3. CASE k \notin t
    BY <2>1, <2>3 DEF Reduced
  <2>4. QED
    BY <2>2, <2>3
<1>4. QED
  BY <1>1, <1>2, <1>3

\* A reduction stays within the variables.
LEMMA ReducedType ==
  ASSUME NEW K, NEW H \in SUBSET SUBSET K, NEW k
  PROVE  Reduced(H, k) \in SUBSET SUBSET K
BY DEF Reduced, Neighbours

-----------------------------------------------------------------------------
(***************************************************************************)
(* Planning                                                                *)
(***************************************************************************)
\* A plan starts with the scopes it was given.
LEMMA PlanStep ==
  ASSUME Types, NEW T \in Seq(SUBSET Keys), NEW kept \in SUBSET Keys,
         NEW retaining \in BOOLEAN,
         Plan(T, kept, retaining),
         retaining => kept = {} /\ conditionals = <<>> /\ frontals = <<>>,
         ~retaining => Keys \subseteq UNION Scopes(T),
         UNCHANGED <<pos, conditionals, assigned, frontals>>
  PROVE  Types' /\ Planned' /\ Planning' /\ Eliminating' /\ Drawing' /\ NotBroken'
<1>1. Scopes(T) \in SUBSET SUBSET Keys
  BY DEF Scopes
<1>2. plan' = <<Scopes(T)>> /\ Len(plan') = 1 /\ plan'[1] = Scopes(T)
  BY DEF Plan
<1>3. order' = <<>> /\ Len(order') = 0
  BY DEF Plan
<1>4. Types'
  <2>1. plan' \in Seq(SUBSET SUBSET Keys)
    BY <1>1 DEF Plan
  <2>2. QED
    BY <2>1 DEF Types, Plan
<1>5. Planned'
  BY <1>2, <1>3 DEF Planned, Plan
<1>6. Planning'
  <2>1. DOMAIN graph' = Keys /\ \A k \in Keys : graph'[k] = Neighbours(Scopes(T), k)
    BY DEF Plan
  <2>2. Ordered(Len(order))' = {}
    BY <1>3 DEF Ordered
  <2>3. plan'[Len(plan')] = Scopes(T)
    BY <1>2
  <2>4. active' = DOMAIN tables' /\ tables' = T /\ retain' = retaining
    BY DEF Plan
  <2>5. QED
    BY <1>2, <2>1, <2>2, <2>3, <2>4 DEF Planning, Scopes
<1>7. Eliminating' /\ Drawing' /\ NotBroken'
  BY DEF Eliminating, Drawing, NotBroken, Plan
<1>8. QED
  BY <1>4, <1>5, <1>6, <1>7

LEMMA StartStep ==
  ASSUME Inv, NEW model \in Models, Start(model),
         pc = "called" => conditionals = <<>> /\ frontals = <<>>
  PROVE  Inv'
<1>1. model \in Seq(SUBSET Keys)
  BY EliminationAssumption
<1>2. Types' /\ Planned' /\ Planning' /\ Eliminating' /\ Drawing' /\ NotBroken'
  BY <1>1, PlanStep DEF Start, Inv
<1>3. Posterior'
  BY DEF Posterior, Start, Plan
<1>4. QED
  BY <1>2, <1>3 DEF Inv

LEMMA JointStep ==
  ASSUME Inv, NEW scope \in SUBSET Keys, Joint(scope)
  PROVE  Inv'
<1>1. Keys \subseteq UNION Scopes(conditionals)
  <2>1. ASSUME NEW k \in Keys PROVE k \in UNION Scopes(conditionals)
    <3>1. PICK i \in 1..Len(frontals) : frontals[i] = k
      BY DEF Inv, Posterior, Joint
    <3>2. k \in conditionals[i] /\ Len(frontals) = Len(conditionals)
      BY <3>1 DEF Inv, Posterior, Joint
    <3>3. conditionals \in Seq(SUBSET Keys)
      BY DEF Inv, Types
    <3>4. i \in DOMAIN conditionals
      BY <3>2, <3>3
    <3>5. QED
      BY <3>2, <3>4 DEF Scopes
  <2>2. QED
    BY <2>1
<1>2. Types' /\ Planned' /\ Planning' /\ Eliminating' /\ Drawing' /\ NotBroken'
  <2>1. conditionals \in Seq(SUBSET Keys)
    BY DEF Inv, Types
  <2>2. Types /\ Plan(conditionals, scope, FALSE)
        /\ UNCHANGED <<pos, conditionals, assigned, frontals>>
    BY DEF Joint, Inv
  <2>3. QED
    BY <1>1, <2>1, <2>2, PlanStep
<1>3. Posterior'
  BY DEF Inv, Posterior, Joint, Plan
<1>4. QED
  BY <1>2, <1>3 DEF Inv

\* The variable chosen next is ordered, and the graph stays that of the scopes.
LEMMA ChooseStep ==
  ASSUME Inv, NEW k \in Keys, Choose(k)
  PROVE  Inv'
<1> DEFINE n == Len(order)
           H == plan[Len(plan)]
<1>1. /\ n \in Nat /\ Len(plan) = n + 1
      /\ order \in Seq(Keys) /\ plan \in Seq(SUBSET SUBSET Keys)
      /\ H = plan[n + 1] /\ H \in SUBSET SUBSET Keys
      /\ pc = "planning"
  BY DEF Inv, Types, Planned, Choose
<1>2. /\ k \in DOMAIN graph /\ k \notin keep
      /\ DOMAIN graph = Keys \ Ordered(n)
      /\ \A v \in DOMAIN graph : graph[v] = Neighbours(H, v)
  BY <1>1 DEF Inv, Planning, Choose, Candidates
<1>3. /\ order' = Append(order, k) /\ Len(order') = n + 1
      /\ order'[n + 1] = k /\ \A i \in 1..n : order'[i] = order[i]
      /\ order' \in Seq(Keys)
  BY <1>1 DEF Choose
<1>4. /\ plan' = Append(plan, Reduced(H, k)) /\ Len(plan') = n + 2
      /\ plan'[n + 2] = Reduced(H, k) /\ \A i \in 1..(n + 1) : plan'[i] = plan[i]
      /\ plan' \in Seq(SUBSET SUBSET Keys)
  <2>1. Reduced(H, k) \in SUBSET SUBSET Keys
    BY <1>1, ReducedType
  <2>2. plan' = Append(plan, Reduced(H, k))
    BY DEF Choose
  <2>3. QED
    BY <1>1, <2>1, <2>2
<1>5. \A i \in 1..n : order[i] # k
  BY <1>2 DEF Ordered
<1>6. UNCHANGED <<pc, keep, retain, tables, active, pos, conditionals, assigned, frontals>>
      /\ planned' = planned \union {Clique(k)}
  BY DEF Choose
<1> HIDE DEF n, H
<1>7. Types'
  BY <1>1, <1>3, <1>4, <1>6 DEF Inv, Types
<1>8. Planned'
  <2>1. Len(plan') = Len(order') + 1
    BY <1>1, <1>3, <1>4
  <2>2. ASSUME NEW i \in 1..Len(order') PROVE plan'[i + 1] = Reduced(plan'[i], order'[i])
    <3>1. CASE i = n + 1
      BY <3>1, <1>1, <1>3, <1>4
    <3>2. CASE i \in 1..n
      <4>1. plan[i + 1] = Reduced(plan[i], order[i])
        BY <1>1, <3>2 DEF Inv, Planned, n
      <4>2. i + 1 \in 1..(n + 1) /\ i \in 1..(n + 1)
        BY <1>1, <3>2
      <4>3. QED
        BY <1>3, <1>4, <3>2, <4>1, <4>2
    <3>3. QED
      BY <1>1, <1>3, <3>1, <3>2
  <2>3. ASSUME NEW i \in 1..Len(plan'), NEW s \in plan'[i],
               NEW j \in 1..Len(order'), j < i
        PROVE  order'[j] \notin s
    <3>1. CASE i \in 1..(n + 1)
      <4>1. j \in 1..n /\ s \in plan[i] /\ i \in 1..Len(plan)
        BY <1>1, <1>3, <1>4, <2>3, <3>1
      <4>2. order[j] \notin s
        BY <1>1, <2>3, <4>1 DEF Inv, Planned, n
      <4>3. QED
        BY <1>3, <4>1, <4>2
    <3>2. CASE i = n + 2
      <4>1. s \in Reduced(H, k)
        BY <1>4, <3>2
      <4>2. CASE j = n + 1
        BY <1>3, <4>1, <4>2, ReducedLosesOne
      <4>3. CASE j \in 1..n
        <5>1. \A t \in H : order[j] \notin t
          <6>1. \A i1 \in 1..Len(plan) : \A t \in plan[i1] : \A j1 \in 1..Len(order) :
                  j1 < i1 => order[j1] \notin t
            BY <1>1 DEF Inv, Planned
          <6>2. n + 1 \in 1..Len(plan) /\ j \in 1..Len(order) /\ j < n + 1
            BY <1>1, <4>3 DEF n
          <6> QED
            BY <1>1, <6>1, <6>2
        <5>2. \A x \in s : \E t \in H : x \in t
          BY <4>1, ReducedLosesOne
        <5>3. QED
          BY <1>3, <4>3, <5>1, <5>2
      <4>4. QED
        BY <1>1, <1>3, <4>2, <4>3
    <3>3. QED
      BY <1>1, <1>4, <3>1, <3>2
  <2>4. ASSUME NEW i \in 1..Len(plan'), ~retain' PROVE keep' \subseteq UNION plan'[i]
    <3>1. CASE i \in 1..(n + 1)
      BY <1>1, <1>4, <1>6, <2>4, <3>1 DEF Inv, Planned
    <3>2. CASE i = n + 2
      <4>1. keep \subseteq UNION H
        BY <1>1, <1>6, <2>4 DEF Inv, Planned
      <4>2. keep \subseteq UNION Reduced(H, k)
        BY <1>2, <4>1, ReducedLosesOne
      <4>3. QED
        BY <1>4, <1>6, <3>2, <4>2
    <3>3. QED
      BY <1>1, <1>4, <3>1, <3>2
  <2>5. ASSUME NEW i \in 1..Len(order'), NEW j \in 1..Len(order'), order'[i] = order'[j]
        PROVE  i = j
    <3>1. CASE i \in 1..n /\ j \in 1..n
      BY <1>1, <1>3, <2>5, <3>1 DEF Inv, Planned, n
    <3>2. CASE i = n + 1 \/ j = n + 1
      BY <1>1, <1>3, <1>5, <2>5, <3>2
    <3>3. QED
      BY <1>1, <1>3, <3>1, <3>2
  <2>6. ASSUME NEW i \in 1..Len(order') PROVE order'[i] \notin keep'
    <3>1. \A j \in 1..n : order[j] \notin keep
      BY <1>1 DEF Inv, Planned, n
    <3>2. i = n + 1 \/ i \in 1..n
      BY <1>1, <1>3
    <3>3. QED
      BY <1>2, <1>3, <1>6, <3>1, <3>2
  <2>7. ASSUME NEW i \in 1..Len(order') PROVE PlanClique(i)' \in planned'
    <3>1. CASE i = n + 1
      <4>1. Clique(k) = {k} \union Neighbours(H, k)
        BY <1>2 DEF Clique
      <4>2. plan'[n + 1] = H /\ order'[n + 1] = k
        BY <1>1, <1>3, <1>4
      <4>3. QED
        BY <1>6, <3>1, <4>1, <4>2 DEF PlanClique
    <3>2. CASE i \in 1..n
      <4>1. PlanClique(i) \in planned
        BY <1>1, <3>2 DEF Inv, Planned, n
      <4>2. i \in 1..(n + 1) /\ plan'[i] = plan[i] /\ order'[i] = order[i]
        BY <1>1, <1>3, <1>4, <3>2
      <4>3. QED
        BY <1>6, <4>1, <4>2 DEF PlanClique
    <3>3. QED
      BY <1>1, <1>3, <3>1, <3>2
  <2>8. retain' => keep' = {}
    BY <1>1, <1>6 DEF Inv, Planned
  <2>9. QED
    BY <2>1, <2>2, <2>3, <2>4, <2>5, <2>6, <2>7, <2>8 DEF Planned
<1>9. Planning'
  <2>1. Ordered(Len(order))' = Ordered(n) \union {k}
    <3>1. ASSUME NEW x PROVE x \in Ordered(Len(order))' <=> x \in Ordered(n) \union {k}
      <4>1. x \in Ordered(Len(order))' <=> \E j \in 1..(n + 1) : x = order'[j]
        BY <1>3 DEF Ordered
      <4>2. x \in Ordered(n) <=> \E j \in 1..n : x = order[j]
        BY DEF Ordered
      <4>3. QED
        BY <1>1, <1>3, <4>1, <4>2
    <3>2. QED
      BY <3>1
  <2>2. DOMAIN graph' = DOMAIN graph \ {k}
        /\ \A v \in DOMAIN graph \ {k} : graph'[v] = Filled(k, v)
    BY DEF Choose
  <2>3. ASSUME NEW v \in DOMAIN graph \ {k} PROVE graph'[v] = Neighbours(Reduced(H, k), v)
    <3>1. Filled(k, v) = IF v \in Neighbours(H, k)
                         THEN (Neighbours(H, v) \ {k}) \union (Neighbours(H, k) \ {v})
                         ELSE Neighbours(H, v)
      BY <1>2 DEF Filled
    <3>2. QED
      BY <2>2, <3>1, NeighboursReduced
  <2>4. plan'[Len(plan')] = Reduced(H, k)
    BY <1>4
  <2>5. active' = DOMAIN tables' /\ plan'[1] = Scopes(tables')
    BY <1>1, <1>4, <1>6 DEF Inv, Planning
  <2>6. retain' => conditionals' = <<>> /\ frontals' = <<>>
    BY <1>1, <1>6 DEF Inv, Planning
  <2>7. \A v \in DOMAIN graph' : graph'[v] = Neighbours(plan'[Len(plan')], v)
    BY <2>2, <2>3, <2>4
  <2>8. DOMAIN graph' = Keys \ Ordered(Len(order))'
    BY <1>2, <2>1, <2>2
  <2>9. (Scopes(tables))' = Scopes(tables')
    BY DEF Scopes
  <2>10. QED
    BY <2>5, <2>6, <2>7, <2>8, <2>9 DEF Planning
<1>10. Eliminating' /\ Drawing' /\ NotBroken'
  BY <1>1, <1>6 DEF Eliminating, Drawing, NotBroken
<1>11. Posterior'
  BY <1>6 DEF Inv, Posterior
<1>12. QED
  BY <1>7, <1>8, <1>9, <1>10, <1>11 DEF Inv

-----------------------------------------------------------------------------
(***************************************************************************)
(* Elimination                                                             *)
(***************************************************************************)
LEMMA PreflightStep ==
  ASSUME Inv, Preflight
  PROVE  Inv'
<1>1. pc = "planning"
      /\ UNCHANGED <<keep, retain, graph, order, planned, tables, active, conditionals,
                     assigned, plan, frontals>>
      /\ pos' = 1
      /\ pc' = IF ~OverBudget THEN "eliminating" ELSE IF retain THEN "refused" ELSE "ready"
  BY DEF Preflight
<1>2. Types'
  BY <1>1 DEF Inv, Types
<1>3. Planned'
  BY <1>1 DEF Inv, Planned, PlanClique
<1>4. Planning' /\ Drawing' /\ NotBroken'
  BY <1>1 DEF Planning, Drawing, NotBroken
<1>5. Posterior'
  BY <1>1 DEF Inv, Posterior, Types
<1>6. Eliminating'
  <2>1. SUFFICES ASSUME pc' = "eliminating" PROVE Eliminating'
    BY DEF Eliminating
  <2>2. ~OverBudget
    BY <1>1, <2>1
  <2>3. \A s \in planned : ~(Size(s) > MaxClique)
    BY <2>2 DEF OverBudget
  <2>4. (\A s \in planned : ~(Size(s) > MaxClique))'
    BY <1>1, <2>3
  <2>5. pos' \in 1..(Len(order') + 1)
    BY <1>1 DEF Inv, Types
  <2>6. {tables'[i] : i \in active'} = plan'[pos']
    BY <1>1 DEF Inv, Planning, Scopes
  <2>7. (Keys \ Ordered(Len(order)) = keep)'
    <3>1. DOMAIN graph = Keys \ Ordered(Len(order))
      BY <1>1 DEF Inv, Planning
    <3>2. DOMAIN graph \ keep = {}
      BY DEF Preflight, Candidates
    <3>3. keep \subseteq Keys /\ \A i \in 1..Len(order) : order[i] \notin keep
      BY <1>1 DEF Inv, Types, Planned
    <3>4. Keys \ Ordered(Len(order)) = keep
      BY <3>1, <3>2, <3>3 DEF Ordered
    <3>5. QED
      BY <1>1, <3>4 DEF Ordered
  <2>8. retain' => /\ Len(conditionals') = 0
                   /\ Len(frontals') = 0
    BY <1>1 DEF Inv, Planning
  <2>9. QED
    BY <1>1, <2>4, <2>5, <2>6, <2>7, <2>8 DEF Eliminating
<1>7. QED
  BY <1>2, <1>3, <1>4, <1>5, <1>6 DEF Inv

\* The bucket of the next variable joins to the clique the plan estimated.
LEMMA JoinedIsPlanned ==
  ASSUME Inv, pc = "eliminating", pos <= Len(order)
  PROVE  /\ pos \in 1..Len(order)
         /\ Joined(order[pos]) = PlanClique(pos)
         /\ Separator(order[pos]) = Neighbours(plan[pos], order[pos])
<1>1. pos \in 1..Len(order) /\ {tables[i] : i \in active} = plan[pos]
  BY DEF Inv, Eliminating, Types
<1>2. UNION {tables[i] : i \in Bucket(order[pos])}
        = UNION {s \in plan[pos] : order[pos] \in s}
  BY <1>1 DEF Bucket
<1>3. QED
  BY <1>1, <1>2 DEF Joined, Separator, PlanClique, Neighbours

LEMMA EliminateStep ==
  ASSUME Inv, Eliminate
  PROVE  Inv'
<1> DEFINE k == order[pos]
           new == Len(tables) + 1
<1>1. /\ pc = "eliminating" /\ pos <= Len(order)
      /\ tables' = Append(tables, Separator(k))
      /\ active' = (active \ Bucket(k)) \union {new}
      /\ conditionals' = IF retain THEN Append(conditionals, Joined(k)) ELSE conditionals
      /\ frontals' = IF retain THEN Append(frontals, k) ELSE frontals
      /\ pos' = pos + 1
      /\ UNCHANGED <<pc, keep, retain, graph, order, planned, assigned, plan>>
  BY DEF Eliminate
<1>2. /\ pos \in 1..Len(order)
      /\ Joined(k) = PlanClique(pos)
      /\ Separator(k) = Neighbours(plan[pos], k)
  BY <1>1, JoinedIsPlanned
<1>3. /\ order \in Seq(Keys) /\ tables \in Seq(SUBSET Keys)
      /\ conditionals \in Seq(SUBSET Keys) /\ frontals \in Seq(Keys)
      /\ active \subseteq 1..Len(tables) /\ k \in Keys
  BY <1>2 DEF Inv, Types
<1>4. Joined(k) \in SUBSET Keys /\ Separator(k) \in SUBSET Keys
  <2>1. \A i \in Bucket(k) : tables[i] \subseteq Keys
    BY <1>3 DEF Bucket
  <2>2. UNION {tables[i] : i \in Bucket(k)} \subseteq Keys
    BY <2>1
  <2> QED
    BY <1>3, <2>2 DEF Joined, Separator
<1> HIDE DEF k
<1>5. Types'
  <2>1. tables' \in Seq(SUBSET Keys) /\ Len(tables') = new
    BY <1>1, <1>3, <1>4
  <2>2. conditionals' \in Seq(SUBSET Keys) /\ frontals' \in Seq(Keys)
    BY <1>1, <1>3, <1>4
  <2>3. active' \subseteq DOMAIN tables'
    <3>1. DOMAIN tables' = 1..new /\ Len(tables) \in Nat
      BY <1>3, <2>1
    <3>2. active' \subseteq active \union {new}
      BY <1>1
    <3>3. QED
      BY <1>3, <3>1, <3>2
  <2>4. pos' \in Nat
    BY <1>1, <1>2
  <2>5. pc' = pc /\ keep' = keep /\ retain' = retain /\ order' = order
        /\ assigned' = assigned /\ plan' = plan
    BY <1>1
  <2>6. QED
    BY <2>1, <2>2, <2>3, <2>4, <2>5 DEF Inv, Types
<1>6. Planned'
  BY <1>1 DEF Inv, Planned, PlanClique
<1>7. Planning' /\ Drawing' /\ NotBroken'
  BY <1>1 DEF Planning, Drawing, NotBroken
<1>8. Posterior'
  BY <1>1 DEF Inv, Posterior, Types
<1>9. Eliminating'
  <2>1. pos' \in 1..(Len(order') + 1)
    BY <1>1, <1>2, <1>3
  <2>2. {tables'[i] : i \in active'} = plan'[pos']
    <3>1. {tables[i] : i \in active} = plan[pos]
      BY <1>1 DEF Inv, Eliminating
    <3>2. plan[pos + 1] = Reduced(plan[pos], k)
      BY <1>1, <1>2 DEF Inv, Planned, k
    <3>3. tables'[new] = Separator(k) /\ \A i \in active : tables'[i] = tables[i]
      BY <1>1, <1>3, <1>4
    <3>4. {tables'[i] : i \in active'}
            = {tables[i] : i \in active \ Bucket(k)} \union {Separator(k)}
      BY <1>1, <3>3
    <3>5. {tables[i] : i \in active \ Bucket(k)} = {s \in plan[pos] : k \notin s}
      BY <3>1 DEF Bucket
    <3>6. QED
      BY <1>1, <1>2, <3>2, <3>4, <3>5 DEF Reduced
  <2>3. (\A s \in planned : ~(Size(s) > MaxClique))'
    <3>1. \A s \in planned : ~(Size(s) > MaxClique)
      BY <1>1 DEF Inv, Eliminating
    <3>2. QED
      BY <1>1, <3>1
  <2>4. (Keys \ Ordered(Len(order)) = keep)'
    BY <1>1 DEF Inv, Eliminating, Ordered
  <2>5. ASSUME retain
        PROVE  /\ Len(conditionals') = pos' - 1
               /\ Len(frontals') = pos' - 1
               /\ \A i \in 1..(pos' - 1) : /\ frontals'[i] = order'[i]
                                           /\ conditionals'[i] = PlanClique(i)'
    <3>1. /\ Len(conditionals) = pos - 1 /\ Len(frontals) = pos - 1
          /\ \A i \in 1..(pos - 1) : /\ frontals[i] = order[i]
                                     /\ conditionals[i] = PlanClique(i)
      BY <1>1, <2>5 DEF Inv, Eliminating
    <3>2. conditionals' = Append(conditionals, Joined(k)) /\ frontals' = Append(frontals, k)
      BY <1>1, <2>5
    <3>3. /\ Len(conditionals') = pos /\ Len(frontals') = pos
          /\ conditionals'[pos] = Joined(k) /\ frontals'[pos] = k
          /\ \A i \in 1..(pos - 1) : /\ frontals'[i] = frontals[i]
                                     /\ conditionals'[i] = conditionals[i]
      BY <1>2, <1>3, <1>4, <3>1, <3>2
    <3>4. \A i \in 1..pos : PlanClique(i)' = PlanClique(i)
      BY <1>1 DEF PlanClique
    <3>5. ASSUME NEW i \in 1..pos
          PROVE  frontals'[i] = order'[i] /\ conditionals'[i] = PlanClique(i)
      <4>1. CASE i = pos
        BY <1>1, <1>2, <3>3, <4>1 DEF k
      <4>2. CASE i \in 1..(pos - 1)
        BY <1>1, <3>1, <3>3, <4>2
      <4>3. QED
        BY <1>2, <4>1, <4>2
    <3>6. pos' - 1 = pos
      BY <1>1, <1>2
    <3>7. QED
      BY <3>3, <3>4, <3>5, <3>6
  <2>6. retain' = retain
    BY <1>1
  <2>7. QED
    BY <2>1, <2>2, <2>3, <2>4, <2>5, <2>6 DEF Eliminating
<1>10. QED
  BY <1>5, <1>6, <1>7, <1>8, <1>9 DEF Inv

\* The conditionals of a finished inference can be drawn from.
LEMMA CompleteStep ==
  ASSUME Inv, Complete
  PROVE  Inv'
<1>1. /\ pc = "eliminating" /\ pos > Len(order)
      /\ pc' \in IF retain THEN {"ready", "impossible"} ELSE {"ready"}
      /\ UNCHANGED <<keep, retain, graph, order, planned, tables, active, pos, conditionals,
                     assigned, plan, frontals>>
  BY DEF Complete
<1>2. Types'
  BY <1>1 DEF Inv, Types
<1>3. Planned'
  BY <1>1 DEF Inv, Planned, PlanClique
<1>4. Planning' /\ Eliminating' /\ Drawing' /\ NotBroken'
  BY <1>1 DEF Planning, Eliminating, Drawing, NotBroken
<1>5. Posterior'
  <2>1. CASE ~retain
    BY <1>1, <2>1 DEF Inv, Posterior, Types
  <2>2. CASE retain
    <3> DEFINE n == Len(order)
    <3>1. n \in Nat /\ order \in Seq(Keys) /\ plan \in Seq(SUBSET SUBSET Keys)
          /\ Len(plan) = n + 1
      BY <1>1 DEF Inv, Types, Planned
    <3>2. pos - 1 = n
      BY <1>1, <3>1 DEF Inv, Eliminating
    <3>3. /\ Len(conditionals) = n /\ Len(frontals) = n
          /\ \A i \in 1..n : frontals[i] = order[i] /\ conditionals[i] = PlanClique(i)
      BY <1>1, <2>2, <3>2 DEF Inv, Eliminating
    <3>4. Keys = Ordered(n)
      <4>1. Keys \ Ordered(n) = {}
        BY <1>1, <2>2 DEF Inv, Eliminating, Planned
      <4>2. QED
        BY <3>1, <4>1 DEF Ordered
    <3> HIDE DEF n
    <3>5. ASSUME NEW i \in 1..n, NEW k \in conditionals[i], k # frontals[i]
          PROVE  \E j \in 1..n : i < j /\ k = frontals[j]
      <4>1. PICK s \in plan[i] : k \in s
        BY <3>3, <3>5 DEF PlanClique, Neighbours
      <4>2. i \in 1..Len(plan) /\ plan[i] \in SUBSET SUBSET Keys
        BY <3>1, <3>5
      <4>3. PICK j \in 1..n : k = order[j]
        BY <3>4, <4>1, <4>2 DEF Ordered
      <4>4. ~(j < i)
        BY <1>1, <4>1, <4>2, <4>3 DEF Inv, Planned, n
      <4>5. j # i
        BY <3>3, <3>5, <4>3
      <4>6. QED
        BY <3>1, <3>3, <4>3, <4>4, <4>5
    <3>6. \A i \in 1..n : frontals[i] \in conditionals[i]
      BY <3>3 DEF PlanClique
    <3>7. \A i, j \in 1..n : frontals[i] = frontals[j] => i = j
      BY <1>1, <3>3 DEF Inv, Planned, n
    <3>8. \A k \in Keys : \E i \in 1..n : frontals[i] = k
      BY <3>3, <3>4 DEF Ordered
    <3>9. frontals' = frontals /\ conditionals' = conditionals
      BY <1>1
    <3>10. QED
      BY <3>3, <3>5, <3>6, <3>7, <3>8, <3>9 DEF Posterior
  <2>3. QED
    BY <2>1, <2>2
<1>6. QED
  BY <1>2, <1>3, <1>4, <1>5 DEF Inv

-----------------------------------------------------------------------------
(***************************************************************************)
(* Drawing                                                                 *)
(***************************************************************************)
LEMMA DrawStep ==
  ASSUME Inv, Draw
  PROVE  Inv'
<1>1. /\ pc = "ready" /\ pc' = "drawing"
      /\ pos' = Len(conditionals) /\ assigned' = {}
      /\ UNCHANGED <<keep, retain, graph, order, planned, tables, active, conditionals,
                     plan, frontals>>
  BY DEF Draw
<1>2. Len(frontals) = Len(conditionals) /\ Len(frontals) \in Nat
  BY <1>1 DEF Inv, Posterior, Types
<1>3. Types'
  BY <1>1, <1>2 DEF Inv, Types
<1>4. Planned'
  BY <1>1 DEF Inv, Planned, PlanClique
<1>5. Planning' /\ Eliminating' /\ NotBroken'
  BY <1>1 DEF Planning, Eliminating, NotBroken
<1>6. Posterior'
  BY <1>1 DEF Inv, Posterior
<1>7. Drawing'
  BY <1>1, <1>2 DEF Drawing
<1>8. QED
  BY <1>3, <1>4, <1>5, <1>6, <1>7 DEF Inv

\* Of the variables of the next conditional only its own is not assigned yet.
LEMMA OneFrontal ==
  ASSUME Inv, pc = "drawing", pos > 0
  PROVE  pos \in 1..Len(frontals) /\ Frontal = {frontals[pos]}
<1>1. pos \in 1..Len(frontals)
  BY DEF Inv, Drawing, Types
<1>2. /\ conditionals \in Seq(SUBSET Keys) /\ Len(frontals) = Len(conditionals)
      /\ frontals \in Seq(Keys)
  BY DEF Inv, Types, Posterior
<1>3. conditionals[pos] \subseteq Keys /\ frontals[pos] \in Keys
  BY <1>1, <1>2
<1>4. frontals[pos] \in conditionals[pos]
  BY <1>1 DEF Inv, Posterior
<1>5. frontals[pos] \notin assigned
  <2>1. SUFFICES ASSUME frontals[pos] \in assigned PROVE FALSE
    OBVIOUS
  <2>2. PICK j \in 1..Len(frontals) : pos < j /\ frontals[pos] = frontals[j]
    BY <1>3, <2>1 DEF Inv, Drawing
  <2>3. pos = j
    BY <1>1, <2>2 DEF Inv, Posterior
  <2>4. QED
    BY <1>1, <2>2, <2>3
<1>6. ASSUME NEW k \in conditionals[pos], k # frontals[pos] PROVE k \in assigned
  <2>1. PICK j \in 1..Len(frontals) : pos < j /\ k = frontals[j]
    BY <1>1, <1>6 DEF Inv, Posterior
  <2>2. QED
    BY <1>3, <2>1 DEF Inv, Drawing
<1>7. QED
  BY <1>1, <1>4, <1>5, <1>6 DEF Frontal

LEMMA DrawNextStep ==
  ASSUME Inv, DrawNext
  PROVE  Inv'
<1>1. /\ pc = "drawing" /\ pos > 0
      /\ pc' = IF Cardinality(Frontal) = 1 THEN pc ELSE "broken"
      /\ assigned' = assigned \union Frontal /\ pos' = pos - 1
      /\ UNCHANGED <<keep, retain, graph, order, planned, tables, active, conditionals,
                     plan, frontals>>
  BY DEF DrawNext
<1>2. pos \in 1..Len(frontals) /\ Frontal = {frontals[pos]}
  BY <1>1, OneFrontal
<1>3. Cardinality(Frontal) = 1
  BY <1>2, FS_Singleton
<1>4. frontals \in Seq(Keys) /\ Len(frontals) \in Nat /\ frontals[pos] \in Keys
  BY <1>2 DEF Inv, Types
<1>5. pc' = "drawing"
  BY <1>1, <1>3
<1>6. Types'
  <2>1. assigned' \subseteq Keys /\ pos' \in Nat
    BY <1>1, <1>2, <1>4 DEF Inv, Types
  <2>2. QED
    BY <1>1, <1>5, <2>1 DEF Inv, Types
<1>7. Planned'
  BY <1>1, <1>5 DEF Inv, Planned, PlanClique
<1>8. Planning' /\ Eliminating' /\ NotBroken'
  BY <1>5 DEF Planning, Eliminating, NotBroken
<1>9. Posterior'
  BY <1>1, <1>5 DEF Inv, Posterior
<1>10. Drawing'
  <2>1. ASSUME NEW k \in Keys
        PROVE  k \in assigned' <=> \E j \in 1..Len(frontals) : pos - 1 < j /\ k = frontals[j]
    <3>1. k \in assigned <=> \E j \in 1..Len(frontals) : pos < j /\ k = frontals[j]
      BY <1>1 DEF Inv, Drawing
    <3>2. k \in assigned' <=> k \in assigned \/ k = frontals[pos]
      BY <1>1, <1>2
    <3>3. \A j \in 1..Len(frontals) : pos - 1 < j <=> pos < j \/ pos = j
      BY <1>2, <1>4
    <3>4. QED
      BY <1>2, <3>1, <3>2, <3>3
  <2>2. pos' <= Len(frontals')
    BY <1>1, <1>2, <1>4
  <2>3. QED
    BY <1>1, <2>1, <2>2 DEF Drawing
<1>11. QED
  BY <1>6, <1>7, <1>8, <1>9, <1>10 DEF Inv

LEMMA DrawnStep ==
  ASSUME Inv, Drawn
  PROVE  Inv'
<1>1. /\ pc = "drawing" /\ pc' = "ready"
      /\ UNCHANGED <<keep, retain, graph, order, planned, tables, active, pos,
                     conditionals, assigned, plan, frontals>>
  BY DEF Drawn
<1>2. Types'
  BY <1>1 DEF Inv, Types
<1>3. Planned'
  BY <1>1 DEF Inv, Planned, PlanClique
<1>4. Planning' /\ Eliminating' /\ Drawing' /\ NotBroken'
  BY <1>1 DEF Planning, Eliminating, Drawing, NotBroken
<1>5. Posterior'
  BY <1>1 DEF Inv, Posterior
<1>6. QED
  BY <1>2, <1>3, <1>4, <1>5 DEF Inv

-----------------------------------------------------------------------------
(***************************************************************************)
(* The theorems                                                            *)
(***************************************************************************)
\* Nothing is retained before the inference starts.
NothingYet == pc = "called" => conditionals = <<>> /\ frontals = <<>>

\* The invariant holds in every state of every run.
THEOREM EliminationInvariant == Spec => [](Inv /\ NothingYet)
<1>1. Init => Inv /\ NothingYet
  <2>1. SUFFICES ASSUME Init PROVE Inv /\ NothingYet
    OBVIOUS
  <2>2. Types
    BY <2>1 DEF Init, Types
  <2>3. Planned /\ Planning /\ Eliminating /\ Posterior /\ Drawing /\ NotBroken /\ NothingYet
    BY <2>1 DEF Init, Planned, Planning, Eliminating, Posterior, Drawing, NotBroken, NothingYet
  <2>4. QED
    BY <2>2, <2>3 DEF Inv
<1>2. Inv /\ NothingYet /\ [Next]_vars => (Inv /\ NothingYet)'
  <2> SUFFICES ASSUME Inv, NothingYet, [Next]_vars PROVE (Inv /\ NothingYet)'
    OBVIOUS
  <2>1. ASSUME NEW model \in Models, Start(model) PROVE Inv' /\ NothingYet'
    BY <2>1, StartStep DEF NothingYet, Start, Plan
  <2>2. ASSUME NEW k \in Keys, Choose(k) PROVE Inv' /\ NothingYet'
    BY <2>2, ChooseStep DEF NothingYet, Choose
  <2>3. CASE Preflight
    BY <2>3, PreflightStep DEF NothingYet, Preflight
  <2>4. CASE Eliminate
    BY <2>4, EliminateStep DEF NothingYet, Eliminate
  <2>5. CASE Complete
    BY <2>5, CompleteStep DEF NothingYet, Complete
  <2>6. ASSUME NEW scope \in SUBSET Keys, Joint(scope) PROVE Inv' /\ NothingYet'
    BY <2>6, JointStep DEF NothingYet, Joint, Plan
  <2>7. CASE Draw
    BY <2>7, DrawStep DEF NothingYet, Draw
  <2>8. CASE DrawNext
    BY <2>8, DrawNextStep DEF NothingYet, DrawNext
  <2>9. CASE Drawn
    BY <2>9, DrawnStep DEF NothingYet, Drawn
  <2>10. CASE UNCHANGED vars
    <3>1. Types' /\ Planned'
      BY <2>10 DEF Inv, Types, Planned, PlanClique, vars
    <3>2. Planning'
      BY <2>10 DEF Inv, Planning, Ordered, Scopes, vars
    <3>3. Eliminating'
      <4>1. (\A s \in planned : ~(Size(s) > MaxClique)) <=>
              (\A s \in planned : ~(Size(s) > MaxClique))'
        BY <2>10 DEF vars
      <4>2. QED
        BY <2>10, <4>1 DEF Inv, Eliminating, PlanClique, Ordered, vars
    <3>4. Posterior' /\ Drawing' /\ NotBroken' /\ NothingYet'
      BY <2>10 DEF Inv, Posterior, Drawing, NotBroken, NothingYet, vars
    <3>5. QED
      BY <3>1, <3>2, <3>3, <3>4 DEF Inv
  <2>11. QED
    BY <2>1, <2>2, <2>3, <2>4, <2>5, <2>6, <2>7, <2>8, <2>9, <2>10 DEF Next
<1>3. QED
  BY <1>1, <1>2, PTL DEF Spec

\* The state of a run is always well formed; in particular the graph of the
\* ordering is one over the variables not ordered yet, without loops.
THEOREM EliminationTypeOK == Spec => []TypeOK
<1>1. Inv => TypeOK
  <2> SUFFICES ASSUME Inv PROVE TypeOK
    OBVIOUS
  <2>1. ASSUME pc = "planning", NEW k \in DOMAIN graph
        PROVE  graph[k] \subseteq DOMAIN graph \ {k}
    <3>1. graph[k] = Neighbours(plan[Len(plan)], k) /\ DOMAIN graph = Keys \ Ordered(Len(order))
      BY <2>1 DEF Inv, Planning
    <3>2. Len(plan) = Len(order) + 1 /\ Len(order) \in Nat
      BY <2>1 DEF Inv, Planned, Types
    <3>3. plan[Len(plan)] \in SUBSET SUBSET Keys
      BY <3>2 DEF Inv, Types
    <3>4. \A s \in plan[Len(plan)] : \A j \in 1..Len(order) : order[j] \notin s
      BY <2>1, <3>2 DEF Inv, Planned
    <3>5. QED
      BY <3>1, <3>3, <3>4 DEF Neighbours, Ordered
  <2>2. QED
    BY <2>1 DEF Inv, Types, TypeOK
<1>2. QED
  BY <1>1, EliminationInvariant, PTL

\* Every table an elimination makes was estimated, and is within the budget
\* of the run.
THEOREM EliminationAllocationWithinPlan == Spec => []AllocationWithinPlan
<1>1. Inv => AllocationWithinPlan
  <2> SUFFICES ASSUME Inv, pc = "eliminating", pos <= Len(order)
               PROVE  Joined(order[pos]) \in planned /\ ~(Size(Joined(order[pos])) > MaxClique)
    BY DEF AllocationWithinPlan
  <2>1. pos \in 1..Len(order) /\ Joined(order[pos]) = PlanClique(pos)
    BY JoinedIsPlanned
  <2>2. Joined(order[pos]) \in planned
    BY <2>1 DEF Inv, Planned
  <2>3. QED
    BY <2>2 DEF Inv, Eliminating
<1>2. QED
  BY <1>1, EliminationInvariant, PTL

\* What remains of the tables at the end of a run is over the variables it was
\* asked for, all of them and no other.
THEOREM EliminationResultScope == Spec => []ResultScope
<1>1. Inv => ResultScope
  <2> SUFFICES ASSUME Inv, pc = "eliminating", pos > Len(order) PROVE Remaining = keep
    BY DEF ResultScope
  <2>1. /\ pos = Len(order) + 1 /\ Len(plan) = Len(order) + 1
        /\ Len(order) \in Nat /\ pos \in 1..Len(plan)
    BY DEF Inv, Eliminating, Types, Planned
  <2>2. Remaining = UNION plan[pos]
    BY DEF Remaining, Inv, Eliminating
  <2>3. plan[pos] \in SUBSET SUBSET Keys
    BY <2>1 DEF Inv, Types
  <2>4. \A s \in plan[pos] : s \subseteq keep
    <3>1. \A s \in plan[pos] : \A j \in 1..Len(order) : order[j] \notin s
      BY <2>1 DEF Inv, Planned
    <3>2. Keys \ Ordered(Len(order)) = keep
      BY DEF Inv, Eliminating
    <3>3. QED
      BY <2>3, <3>1, <3>2 DEF Ordered
  <2>5. keep \subseteq UNION plan[pos]
    BY <2>1 DEF Inv, Planned
  <2>6. QED
    BY <2>2, <2>4, <2>5
<1>2. QED
  BY <1>1, EliminationInvariant, PTL

\* A draw finds one variable to sample in every conditional and leaves none
\* unassigned.
THEOREM EliminationDrawsAssignAll == Spec => []DrawsAssignAll
<1>1. Inv => DrawsAssignAll
  <2> SUFFICES ASSUME Inv PROVE DrawsAssignAll
    OBVIOUS
  <2>1. pc # "broken"
    BY DEF Inv, NotBroken
  <2>2. ASSUME pc = "drawing", pos = 0 PROVE assigned = Keys
    <3>1. assigned \subseteq Keys
      BY DEF Inv, Types
    <3>2. ASSUME NEW k \in Keys PROVE k \in assigned
      <4>1. PICK i \in 1..Len(frontals) : frontals[i] = k
        BY <2>2 DEF Inv, Posterior
      <4>2. QED
        BY <2>2, <4>1 DEF Inv, Drawing
    <3>3. QED
      BY <3>1, <3>2
  <2>3. QED
    BY <2>1, <2>2 DEF DrawsAssignAll
<1>2. QED
  BY <1>1, EliminationInvariant, PTL

\* For every model and every query, the tables keep to the plan that was made
\* without them, up to the last draw.
THEOREM EliminationPlanIsKept == Spec => []PlanIsKept
<1>1. AllocationWithinPlan /\ ResultScope /\ DrawsAssignAll => PlanIsKept
  BY DEF PlanIsKept
<1>2. QED
  BY <1>1, EliminationAllocationWithinPlan, EliminationResultScope,
     EliminationDrawsAssignAll, PTL

-----------------------------------------------------------------------------
(***************************************************************************)
(* Sums over finite sets. The library computes them, and states nothing    *)
(* of them: what it computes is the one function on the subsets that adds  *)
(* an element at a time, and the order in which it does is of no matter.   *)
(***************************************************************************)
\* A set of numbers that is not empty has a least one.
LEMMA LeastNumber ==
  ASSUME NEW S \in SUBSET Nat, S # {}
  PROVE  \E m \in S : \A n \in S : m <= n
<1>1. PICK m \in S : \A n \in S : ~ (<<n, m>> \in OpToRel(<, Nat))
  <2> DEFINE R == OpToRel(<, Nat)
  <2>1. IsWellFoundedOn(R, Nat)
    BY NatLessThanWellFounded
  <2> HIDE DEF R
  <2>2. PICK m \in S : \A n \in S : ~ (<<n, m>> \in R)
    BY <2>1, WFMin
  <2> QED
    BY <2>2 DEF R
<1>2. \A n \in S : ~ (n < m)
  BY <1>1 DEF OpToRel
<1> QED
  BY <1>2

\* A set that has 0, and with each number the next, has all numbers.
LEMMA Counting ==
  ASSUME NEW S, 0 \in S, \A n \in Nat : n \in S => n + 1 \in S
  PROVE  Nat \subseteq S
<1> SUFFICES ASSUME Nat \ S # {} PROVE FALSE
  OBVIOUS
<1>1. PICK n \in Nat \ S : \A m \in Nat \ S : n <= m
  BY LeastNumber
<1>2. n - 1 \in Nat /\ n - 1 \notin Nat \ S /\ n = (n - 1) + 1
  BY <1>1
<1> QED BY <1>1, <1>2

\* A set of subsets has every subset of a finite set if it has the empty one and,
\* for every other, has it if it has the rest without some element.
LEMMA Removing ==
  ASSUME NEW S, IsFiniteSet(S), NEW P, {} \in P,
         \A t \in SUBSET S : t # {} => \E x \in t : t \ {x} \in P => t \in P
  PROVE  \A t \in SUBSET S : t \in P
<1> DEFINE Sizes == {n \in Nat : \A t \in SUBSET S : Cardinality(t) = n => t \in P}
<1>1. 0 \in Sizes
  BY FS_EmptySet, FS_Subset
<1>2. ASSUME NEW n \in Nat, n \in Sizes PROVE n + 1 \in Sizes
  <2> SUFFICES ASSUME NEW t \in SUBSET S, Cardinality(t) = n + 1 PROVE t \in P
    OBVIOUS
  <2>1. IsFiniteSet(t) /\ t # {}
    BY FS_Subset, FS_EmptySet
  <2>2. PICK x \in t : t \ {x} \in P => t \in P
    BY <2>1
  <2>3. Cardinality(t \ {x}) = Cardinality(t) - 1
    BY <2>1, FS_RemoveElement
  <2>4. Cardinality(t \ {x}) = n
    BY <2>3
  <2> QED BY <1>2, <2>2, <2>4
<1>3. Nat \subseteq Sizes
  <2> HIDE DEF Sizes
  <2> QED BY <1>1, <1>2, Counting
<1>4. \A t \in SUBSET S : Cardinality(t) \in Nat
  BY FS_Subset, FS_CardinalityType
<1> QED BY <1>3, <1>4

\* The values of w over S are numbers that can be added.
Ints(w, S) == \A x \in S : w[x] \in Int

\* A function that has the sum of w over each subset of S.
IsSum(f, S, w) ==
  /\ f \in [SUBSET S -> Int]
  /\ f[{}] = 0
  /\ \A t \in SUBSET S : t # {} =>
       f[t] = w[CHOOSE x \in t : TRUE] + f[t \ {CHOOSE x \in t : TRUE}]

\* There is one.
LEMMA SumExists ==
  ASSUME NEW S, IsFiniteSet(S), NEW w, Ints(w, S)
  PROVE  \E f : IsSum(f, S, w)
<1> USE DEF Ints
<1> DEFINE next(f, t) == IF t = {} THEN 0 ELSE w[CHOOSE x \in t : TRUE] + f[t \ {CHOOSE x \in t : TRUE}]
           Sizes == {n \in Nat : \E f \in [SUBSET S -> Int] :
                                   \A t \in SUBSET S : Cardinality(t) <= n => f[t] = next(f, t)}
<1>0. \A t \in SUBSET S : IsFiniteSet(t) /\ Cardinality(t) \in Nat /\ (Cardinality(t) = 0 <=> t = {})
  BY FS_Subset, FS_CardinalityType, FS_EmptySet
<1>1. 0 \in Sizes
  <2> DEFINE f == [t \in SUBSET S |-> 0]
  <2>1. f \in [SUBSET S -> Int] /\ \A t \in SUBSET S : Cardinality(t) <= 0 => f[t] = next(f, t)
    BY <1>0
  <2> QED BY <2>1
<1>2. ASSUME NEW n \in Nat, n \in Sizes PROVE n + 1 \in Sizes
  <2>1. PICK f \in [SUBSET S -> Int] : \A t \in SUBSET S : Cardinality(t) <= n => f[t] = next(f, t)
    BY <1>2
  <2> DEFINE g == [t \in SUBSET S |-> next(f, t)]
  <2>2. \A t \in SUBSET S : next(f, t) \in Int
    <3> SUFFICES ASSUME NEW t \in SUBSET S, t # {} PROVE next(f, t) \in Int
      OBVIOUS
    <3>1. PICK x : x = CHOOSE y \in t : TRUE
      OBVIOUS
    <3>2. x \in t
      BY <3>1
    <3> QED BY <3>1, <3>2
  <2>3. ASSUME NEW t \in SUBSET S, Cardinality(t) <= n + 1 PROVE g[t] = next(g, t)
    <3>1. CASE t = {}
      BY <3>1
    <3>2. CASE t # {}
      <4>0. PICK x : x = CHOOSE y \in t : TRUE
        OBVIOUS
      <4>1. x \in t /\ t \ {x} \in SUBSET S
        BY <3>2, <4>0
      <4>2. Cardinality(t \ {x}) <= n
        <5>1. Cardinality(t \ {x}) = Cardinality(t) - 1
          BY <4>1, <1>0, FS_RemoveElement
        <5> QED BY <5>1, <1>0, <2>3
      <4>3. g[t \ {x}] = f[t \ {x}]
        BY <4>1, <4>2, <2>1
      <4>4. g[t] = w[x] + f[t \ {x}]
        BY <3>2, <4>0
      <4> HIDE DEF g
      <4> QED BY <3>2, <4>0, <4>3, <4>4
    <3> QED BY <3>1, <3>2
  <2> QED
    <3>1. g \in [SUBSET S -> Int]
      BY <2>2
    <3> HIDE DEF g, next
    <3> QED BY <3>1, <2>3
<1>3. Nat \subseteq Sizes
  <2> HIDE DEF Sizes
  <2> QED BY <1>1, <1>2, Counting
<1>4. PICK f \in [SUBSET S -> Int] : \A t \in SUBSET S : Cardinality(t) <= Cardinality(S) => f[t] = next(f, t)
  BY <1>0, <1>3
<1>5. \A t \in SUBSET S : Cardinality(t) <= Cardinality(S)
  BY FS_Subset
<1>6. \A t \in SUBSET S : f[t] = next(f, t)
  BY <1>4, <1>5
<1> QED BY <1>6 DEF IsSum

\* What the community modules compute of w over S is that sum.
LEMMA SumIs ==
  ASSUME NEW S, IsFiniteSet(S), NEW w, Ints(w, S)
  PROVE  \E f : IsSum(f, S, w) /\ SumFunctionOnSet(w, S) = f[S]
<1> DEFINE step(g) == [t \in SUBSET S |-> IF t = {} THEN 0
                        ELSE w[CHOOSE x \in t : TRUE] + g[t \ {CHOOSE x \in t : TRUE}]]
           sum == CHOOSE g : g = step(g)
<1>1. SumFunctionOnSet(w, S) = sum[S]
  BY Zenon DEF SumFunctionOnSet, FoldFunctionOnSet, MapThenFoldSet
<1>2. \E g : g = step(g)
  <2>1. PICK g : IsSum(g, S, w)
    BY SumExists
  <2>2. ASSUME NEW t \in SUBSET S PROVE g[t] = step(g)[t]
    BY <2>1 DEF IsSum
  <2>3. g = [t \in SUBSET S |-> g[t]]
    BY <2>1 DEF IsSum
  <2>4. step(g) = [t \in SUBSET S |-> step(g)[t]]
    OBVIOUS
  <2> HIDE DEF step
  <2> QED BY <2>2, <2>3, <2>4
<1>3. sum = step(sum)
  <2> HIDE DEF step
  <2> QED BY <1>2
<1>4. sum = [t \in SUBSET S |-> sum[t]] /\ sum[{}] = 0
  <2> HIDE DEF sum
  <2> QED BY <1>3
<1>5. \A t \in SUBSET S : t # {} => sum[t] = w[CHOOSE x \in t : TRUE] + sum[t \ {CHOOSE x \in t : TRUE}]
  <2> HIDE DEF sum
  <2> QED BY <1>3
<1> HIDE DEF sum, step
<1>6. \A t \in SUBSET S : sum[t] \in Int
  <2> DEFINE P == {t \in SUBSET S : sum[t] \in Int}
  <2>1. {} \in P
    BY <1>4
  <2>2. ASSUME NEW t \in SUBSET S, t # {} PROVE \E x \in t : t \ {x} \in P => t \in P
    <3>1. PICK x : x = CHOOSE y \in t : TRUE
      OBVIOUS
    <3>2. x \in t
      BY <2>2, <3>1
    <3>3. sum[t] = w[x] + sum[t \ {x}] /\ w[x] \in Int
      BY <1>5, <2>2, <3>1, <3>2 DEF Ints
    <3>4. t \ {x} \in P => t \in P
      BY <3>3
    <3> HIDE DEF P
    <3> QED BY <3>2, <3>4
  <2> HIDE DEF P
  <2>3. \A t \in SUBSET S : t \in P
    BY <2>1, <2>2, Removing
  <2> QED BY <2>3 DEF P
<1> QED BY <1>1, <1>4, <1>5, <1>6 DEF IsSum

\* Functions of sums agree where both have one.
LEMMA SumAgrees ==
  ASSUME NEW S, IsFiniteSet(S), NEW w, Ints(w, S), NEW T \in SUBSET S, NEW f, IsSum(f, S, w), NEW g, IsSum(g, T, w)
  PROVE  \A t \in SUBSET T : f[t] = g[t]
<1> DEFINE P == {t \in SUBSET T : f[t] = g[t]}
<1>1. {} \in P
  BY DEF IsSum
<1>2. ASSUME NEW t \in SUBSET T, t # {} PROVE \E x \in t : t \ {x} \in P => t \in P
  <2>1. PICK x : x = CHOOSE y \in t : TRUE
    OBVIOUS
  <2>2. x \in t /\ t \in SUBSET S
    BY <1>2, <2>1
  <2>3. f[t] = w[x] + f[t \ {x}] /\ g[t] = w[x] + g[t \ {x}]
    BY <1>2, <2>1, <2>2 DEF IsSum
  <2> QED BY <2>2, <2>3
<1>3. IsFiniteSet(T)
  BY FS_Subset
<1> HIDE DEF P
<1>4. \A t \in SUBSET T : t \in P
  BY <1>1, <1>2, <1>3, Removing
<1> QED BY <1>4 DEF P

\* A sum is that of any of its elements and of the rest.
LEMMA SumSplits ==
  ASSUME NEW S, IsFiniteSet(S), NEW w, Ints(w, S), NEW f, IsSum(f, S, w)
  PROVE  \A t \in SUBSET S : \A x \in t : f[t] = w[x] + f[t \ {x}]
<1> DEFINE Sizes == {n \in Nat : \A t \in SUBSET S : Cardinality(t) = n => \A x \in t : f[t] = w[x] + f[t \ {x}]}
<1>0. \A t \in SUBSET S : IsFiniteSet(t) /\ Cardinality(t) \in Nat
  BY FS_Subset, FS_CardinalityType
<1>1. 0 \in Sizes
  BY <1>0, FS_EmptySet
<1>2. ASSUME NEW n \in Nat, n \in Sizes PROVE n + 1 \in Sizes
  <2> SUFFICES ASSUME NEW t \in SUBSET S, Cardinality(t) = n + 1, NEW x \in t PROVE f[t] = w[x] + f[t \ {x}]
    OBVIOUS
  <2>1. PICK c : c = CHOOSE y \in t : TRUE
    OBVIOUS
  <2>2. c \in t /\ f[t] = w[c] + f[t \ {c}]
    BY <2>1 DEF IsSum
  <2>3. CASE x = c
    BY <2>2, <2>3
  <2>4. CASE x # c
    <3>1. \A y \in t : Cardinality(t \ {y}) = n
      <4> SUFFICES ASSUME NEW y \in t PROVE Cardinality(t \ {y}) = n
        OBVIOUS
      <4>1. Cardinality(t \ {y}) = Cardinality(t) - 1
        BY <1>0, FS_RemoveElement
      <4> QED BY <4>1
    <3>2. f[t \ {c}] = w[x] + f[(t \ {c}) \ {x}]
      BY <1>2, <2>2, <2>4, <3>1
    <3>3. f[t \ {x}] = w[c] + f[(t \ {x}) \ {c}]
      BY <1>2, <2>2, <2>4, <3>1
    <3>4. (t \ {c}) \ {x} = (t \ {x}) \ {c} /\ (t \ {c}) \ {x} \in SUBSET S
      OBVIOUS
    <3>5. PICK r : r = (t \ {c}) \ {x}
      OBVIOUS
    <3>6. f[r] \in Int /\ w[c] \in Int /\ w[x] \in Int
      BY <2>2, <3>4, <3>5 DEF IsSum, Ints
    <3>7. f[t \ {c}] = w[x] + f[r] /\ f[t \ {x}] = w[c] + f[r]
      BY <3>2, <3>3, <3>4, <3>5
    <3> QED BY <2>2, <3>6, <3>7
  <2> QED BY <2>3, <2>4
<1>3. Nat \subseteq Sizes
  <2> HIDE DEF Sizes
  <2> QED BY <1>1, <1>2, Counting
<1> QED BY <1>0, <1>3

\* The sum over nothing.
LEMMA SumEmpty == ASSUME NEW w PROVE SumFunctionOnSet(w, {}) = 0
<1>1. PICK f : IsSum(f, {}, w) /\ SumFunctionOnSet(w, {}) = f[{}]
  BY SumIs, FS_EmptySet DEF Ints
<1> QED BY <1>1 DEF IsSum

\* A sum of integers is one.
LEMMA SumType ==
  ASSUME NEW S, IsFiniteSet(S), NEW w, Ints(w, S)
  PROVE  SumFunctionOnSet(w, S) \in Int
<1>1. PICK f : IsSum(f, S, w) /\ SumFunctionOnSet(w, S) = f[S]
  BY SumIs
<1> QED BY <1>1 DEF IsSum

\* The sum over a set is that of any of its elements and of the rest.
LEMMA SumWith ==
  ASSUME NEW S, IsFiniteSet(S), NEW w, Ints(w, S), NEW x \in S
  PROVE  SumFunctionOnSet(w, S) = w[x] + SumFunctionOnSet(w, S \ {x})
<1>1. PICK f : IsSum(f, S, w) /\ SumFunctionOnSet(w, S) = f[S]
  BY SumIs
<1>2. PICK T : T = S \ {x}
  OBVIOUS
<1>3. T \in SUBSET S /\ IsFiniteSet(T) /\ Ints(w, T)
  BY <1>2, FS_Subset DEF Ints
<1>4. PICK g : IsSum(g, T, w) /\ SumFunctionOnSet(w, T) = g[T]
  BY <1>3, SumIs
<1>5. \A t \in SUBSET T : f[t] = g[t]
  BY <1>1, <1>3, <1>4, SumAgrees
<1>6. f[S] = w[x] + f[S \ {x}]
  BY <1>1, SumSplits
<1> QED BY <1>1, <1>2, <1>4, <1>5, <1>6

\* A sum over what an element is added to.
LEMMA SumAdds ==
  ASSUME NEW S, IsFiniteSet(S), NEW x, x \notin S, NEW w, Ints(w, S), w[x] \in Int
  PROVE  SumFunctionOnSet(w, S \union {x}) = w[x] + SumFunctionOnSet(w, S)
<1>1. PICK T : T = S \union {x}
  OBVIOUS
<1>2. IsFiniteSet(T) /\ Ints(w, T) /\ x \in T /\ T \ {x} = S
  BY <1>1, FS_AddElement DEF Ints
<1> QED BY <1>1, <1>2, SumWith

\* The elements of one set are elements of another, each one another, and whatever
\* else the other has is nothing.
Renames(h, A, B, u, v) ==
  /\ \A a \in A : h[a] \in B /\ u[a] = v[h[a]]
  /\ \A a, b \in A : h[a] = h[b] => a = b
  /\ \A b \in B : (\A a \in A : h[a] # b) => v[b] = 0

\* The sums over two such sets are equal.
LEMMA SumRenamed ==
  ASSUME NEW A, IsFiniteSet(A), NEW B, IsFiniteSet(B), NEW u, NEW v, Ints(v, B), NEW h, Renames(h, A, B, u, v)
  PROVE  SumFunctionOnSet(u, A) = SumFunctionOnSet(v, B)
<1> DEFINE from(t) == {a \in A : h[a] \in t}
           P == {t \in SUBSET B : SumFunctionOnSet(v, t) = SumFunctionOnSet(u, from(t))}
<1>0. Ints(u, A)
  BY DEF Ints, Renames
<1>1. {} \in P
  <2>1. from({}) = {}
    OBVIOUS
  <2> QED BY <2>1, SumEmpty
<1>2. ASSUME NEW t \in SUBSET B, t # {} PROVE \E x \in t : t \ {x} \in P => t \in P
  <2>1. PICK b \in t : TRUE
    BY <1>2
  <2>2. SUFFICES ASSUME SumFunctionOnSet(v, t \ {b}) = SumFunctionOnSet(u, from(t \ {b}))
                 PROVE SumFunctionOnSet(v, t) = SumFunctionOnSet(u, from(t))
    BY <2>1
  <2>3. SumFunctionOnSet(v, t) = v[b] + SumFunctionOnSet(v, t \ {b})
    <3>1. IsFiniteSet(t) /\ Ints(v, t)
      BY FS_Subset DEF Ints
    <3> QED BY <3>1, <2>1, SumWith
  <2>4. CASE \E a \in A : h[a] = b
    <3>1. PICK a \in A : h[a] = b
      BY <2>4
    <3>2. from(t \ {b}) = from(t) \ {a} /\ a \in from(t) /\ from(t) \in SUBSET A
      BY <2>1, <3>1 DEF Renames
    <3>3. SumFunctionOnSet(u, from(t)) = u[a] + SumFunctionOnSet(u, from(t) \ {a})
      <4> HIDE DEF from
      <4>1. IsFiniteSet(from(t)) /\ Ints(u, from(t))
        BY <3>2, <1>0, FS_Subset DEF Ints
      <4> QED BY <3>2, <4>1, SumWith
    <3>4. u[a] = v[b]
      BY <3>1 DEF Renames
    <3> HIDE DEF from
    <3> QED BY <2>2, <2>3, <3>2, <3>3, <3>4
  <2>5. CASE \A a \in A : h[a] # b
    <3>1. from(t \ {b}) = from(t)
      BY <2>5
    <3>2. v[b] = 0
      BY <2>1, <2>5 DEF Renames
    <3>3. SumFunctionOnSet(v, t \ {b}) \in Int
      <4>1. IsFiniteSet(t \ {b}) /\ Ints(v, t \ {b})
        <5>1. t \ {b} \subseteq B
          OBVIOUS
        <5> QED BY <5>1, FS_Subset DEF Ints
      <4> QED BY <4>1, SumType
    <3> HIDE DEF from
    <3> QED BY <2>2, <2>3, <3>1, <3>2, <3>3
  <2> QED BY <2>4, <2>5
<1>3. \A t \in SUBSET B : t \in P
  <2> HIDE DEF P
  <2> QED BY <1>1, <1>2, Removing
<1>4. from(B) = A
  BY DEF Renames
<1>5. SumFunctionOnSet(v, B) = SumFunctionOnSet(u, from(B))
  BY <1>3
<1> QED BY <1>4, <1>5

\* Sums of what is the same are the same.
LEMMA SumSame ==
  ASSUME NEW S, IsFiniteSet(S), NEW w, Ints(w, S), NEW v, \A x \in S : v[x] = w[x]
  PROVE  SumFunctionOnSet(v, S) = SumFunctionOnSet(w, S)
<1>1. PICK h : h = [x \in S |-> x]
  OBVIOUS
<1>2. Renames(h, S, S, v, w)
  BY <1>1 DEF Renames
<1> QED BY <1>2, SumRenamed

\* A sum over two sets that have nothing in common.
LEMMA SumOfBoth ==
  ASSUME NEW S, IsFiniteSet(S), NEW T, IsFiniteSet(T), S \intersect T = {},
         NEW w, Ints(w, S), Ints(w, T)
  PROVE  SumFunctionOnSet(w, S \union T) = SumFunctionOnSet(w, S) + SumFunctionOnSet(w, T)
<1> DEFINE P == {t \in SUBSET T : SumFunctionOnSet(w, S \union t) = SumFunctionOnSet(w, S) + SumFunctionOnSet(w, t)}
<1>1. {} \in P
  <2>1. SumFunctionOnSet(w, S) \in Int
    BY SumType
  <2>2. S \union {} = S
    OBVIOUS
  <2> QED BY <2>1, <2>2, SumEmpty
<1>2. ASSUME NEW t \in SUBSET T, t # {} PROVE \E x \in t : t \ {x} \in P => t \in P
  <2>1. PICK x \in t : TRUE
    BY <1>2
  <2>2. PICK r, a : r = t \ {x} /\ a = S \union t
    OBVIOUS
  <2>3. /\ r \in SUBSET T /\ IsFiniteSet(t) /\ Ints(w, t) /\ IsFiniteSet(r) /\ Ints(w, r) /\ IsFiniteSet(a) /\ Ints(w, a)
        /\ x \in a /\ a \ {x} = S \union r
    <3>1. r \subseteq T /\ x \in a /\ a \ {x} = S \union r /\ Ints(w, t) /\ Ints(w, r) /\ Ints(w, a)
      BY <2>1, <2>2 DEF Ints
    <3>2. IsFiniteSet(t) /\ IsFiniteSet(r)
      BY <3>1, FS_Subset
    <3>3. IsFiniteSet(a)
      BY <3>2, <2>2, FS_Union
    <3> QED BY <3>1, <3>2, <3>3
  <2>4. SumFunctionOnSet(w, a) = w[x] + SumFunctionOnSet(w, S \union r)
    BY <2>3, SumWith
  <2>5. SumFunctionOnSet(w, t) = w[x] + SumFunctionOnSet(w, r)
    BY <2>1, <2>2, <2>3, SumWith
  <2>6. SumFunctionOnSet(w, S) \in Int /\ SumFunctionOnSet(w, r) \in Int /\ w[x] \in Int
    BY <2>1, <2>3, SumType DEF Ints
  <2>7. r \in P => t \in P
    BY <2>2, <2>4, <2>5, <2>6
  <2> HIDE DEF P
  <2> QED BY <2>1, <2>2, <2>7
<1> HIDE DEF P
<1>3. \A t \in SUBSET T : t \in P
  BY <1>1, <1>2, Removing
<1>4. T \in P
  BY <1>3
<1> QED BY <1>4 DEF P

\* A sum of sums.
LEMMA SumOfSums ==
  ASSUME NEW S, IsFiniteSet(S), NEW u, Ints(u, S), NEW v, Ints(v, S), NEW w, \A x \in S : w[x] = u[x] + v[x]
  PROVE  SumFunctionOnSet(w, S) = SumFunctionOnSet(u, S) + SumFunctionOnSet(v, S)
<1> DEFINE P == {t \in SUBSET S : SumFunctionOnSet(w, t) = SumFunctionOnSet(u, t) + SumFunctionOnSet(v, t)}
<1>1. {} \in P
  BY SumEmpty
<1>2. ASSUME NEW t \in SUBSET S, t # {} PROVE \E x \in t : t \ {x} \in P => t \in P
  <2>1. PICK x \in t : TRUE
    BY <1>2
  <2>2. PICK r : r = t \ {x}
    OBVIOUS
  <2>3. IsFiniteSet(t) /\ IsFiniteSet(r) /\ r \in SUBSET S
    BY <2>2, FS_Subset
  <2>4. Ints(u, t) /\ Ints(v, t) /\ Ints(w, t) /\ Ints(u, r) /\ Ints(v, r) /\ u[x] \in Int /\ v[x] \in Int /\ w[x] = u[x] + v[x]
    BY <2>1, <2>2 DEF Ints
  <2>5. /\ SumFunctionOnSet(u, t) = u[x] + SumFunctionOnSet(u, r)
        /\ SumFunctionOnSet(v, t) = v[x] + SumFunctionOnSet(v, r)
        /\ SumFunctionOnSet(w, t) = w[x] + SumFunctionOnSet(w, r)
    BY <2>1, <2>2, <2>3, <2>4, SumWith
  <2>6. SumFunctionOnSet(u, r) \in Int /\ SumFunctionOnSet(v, r) \in Int
    BY <2>3, <2>4, SumType
  <2>7. r \in P => t \in P
    BY <2>3, <2>4, <2>5, <2>6
  <2> HIDE DEF P
  <2> QED BY <2>1, <2>2, <2>7
<1> HIDE DEF P
<1>3. \A t \in SUBSET S : t \in P
  BY <1>1, <1>2, Removing
<1>4. S \in P
  BY <1>3
<1> QED BY <1>4 DEF P

\* Each element is in the group of its key, and m has the sum of each group.
Grouped(m, g, w, A, K) ==
  /\ \A a \in A : g[a] \in K
  /\ \A k \in K : m[k] = SumFunctionOnSet(w, {a \in A : g[a] = k})

\* A sum by groups is the sum over all.
LEMMA SumByKey ==
  ASSUME NEW A, IsFiniteSet(A), NEW w, Ints(w, A), NEW K, IsFiniteSet(K), NEW g, NEW m, Grouped(m, g, w, A, K)
  PROVE  SumFunctionOnSet(m, K) = SumFunctionOnSet(w, A)
<1> USE DEF Grouped
<1> DEFINE of(t) == {a \in A : g[a] \in t}
           P == {t \in SUBSET K : SumFunctionOnSet(m, t) = SumFunctionOnSet(w, of(t))}
<1>1. {} \in P
  <2>1. of({}) = {}
    OBVIOUS
  <2> QED BY <2>1, SumEmpty
<1>0. \A B \in SUBSET A : IsFiniteSet(B) /\ Ints(w, B) /\ SumFunctionOnSet(w, B) \in Int
  BY FS_Subset, SumType DEF Ints
<1>3. Ints(m, K)
  <2> SUFFICES ASSUME NEW k \in K PROVE m[k] \in Int
    BY DEF Ints
  <2>1. PICK B : B = {a \in A : g[a] = k}
    OBVIOUS
  <2> QED BY <1>0, <2>1
<1>2. ASSUME NEW t \in SUBSET K, t # {} PROVE \E x \in t : t \ {x} \in P => t \in P
  <2>1. PICK x \in t : TRUE
    BY <1>2
  <2>2. PICK r, B, C, D : r = t \ {x} /\ B = of(t) /\ C = of(r) /\ D = {a \in A : g[a] = x}
    OBVIOUS
  <2>3. B = C \union D /\ C \intersect D = {} /\ C \in SUBSET A /\ D \in SUBSET A
    BY <2>1, <2>2
  <2>4. SumFunctionOnSet(w, B) = SumFunctionOnSet(w, C) + SumFunctionOnSet(w, D)
    BY <1>0, <2>3, SumOfBoth
  <2>5. SumFunctionOnSet(m, t) = m[x] + SumFunctionOnSet(m, r)
    <3>1. IsFiniteSet(t) /\ Ints(m, t)
      BY <1>3, FS_Subset DEF Ints
    <3> QED BY <2>1, <2>2, <3>1, SumWith
  <2>6. m[x] = SumFunctionOnSet(w, D)
    BY <2>1, <2>2
  <2>7. SumFunctionOnSet(w, C) \in Int /\ SumFunctionOnSet(w, D) \in Int
    BY <1>0, <2>3
  <2>8. r \in P => t \in P
    BY <2>2, <2>4, <2>5, <2>6, <2>7
  <2> HIDE DEF P
  <2> QED BY <2>1, <2>2, <2>8
<1>4. \A t \in SUBSET K : t \in P
  <2> HIDE DEF P
  <2> QED BY <1>1, <1>2, Removing
<1>5. of(K) = A /\ K \in P
  BY <1>4
<1> QED BY <1>5

-----------------------------------------------------------------------------
(***************************************************************************)
(* Sequences laid end to end                                               *)
(***************************************************************************)
\* Sequences of R, n of them, and where each begins when they are laid end to end.
Lists(b, n, R) == DOMAIN b = 1..n /\ Len(b) = n /\ \A i \in 1..n : b[i] \in Seq(R)
\* How much there is before the i-th of them.
Begins(b, i) == SumFunctionOnSet([j \in DOMAIN b |-> Len(b[j])], {j \in DOMAIN b : j < i})

\* Each begins where the one before it ends.
LEMMA BeginsAfter ==
  ASSUME NEW n \in Nat, NEW R, NEW b, Lists(b, n, R)
  PROVE  /\ Begins(b, 1) = 0
         /\ \A i \in 1..n : Begins(b, i + 1) = Begins(b, i) + Len(b[i]) /\ Len(b[i]) \in Nat
         /\ \A i \in 1..(n + 1) : Begins(b, i) \in Int
<1> USE DEF Lists
<1> PICK w : w = [j \in DOMAIN b |-> Len(b[j])]
  OBVIOUS
<1>1. \A i \in 1..n : Len(b[i]) \in Nat
  BY LenProperties
<1>2. IsFiniteSet(1..n)
  BY FS_Interval
<1>3. \A T \in SUBSET (1..n) : IsFiniteSet(T) /\ Ints(w, T)
  <2>1. \A i \in 1..n : w[i] = Len(b[i])
    OBVIOUS
  <2>2. \A T \in SUBSET (1..n) : Ints(w, T)
    BY <1>1, <2>1 DEF Ints
  <2> QED BY <1>2, <2>2, FS_Subset
<1>4. \A i \in 1..(n + 1) : {j \in DOMAIN b : j < i} \in SUBSET (1..n)
  OBVIOUS
<1>5. \A i \in 1..(n + 1) : Begins(b, i) \in Int
  BY <1>3, <1>4, SumType DEF Begins
<1>6. ASSUME NEW i \in 1..n PROVE Begins(b, i + 1) = Begins(b, i) + Len(b[i])
  <2>1. PICK S : S = {j \in DOMAIN b : j < i}
    OBVIOUS
  <2>2. {j \in DOMAIN b : j < i + 1} = S \union {i} /\ i \notin S /\ S \in SUBSET (1..n)
    BY <2>1
  <2>3. w[i] = Len(b[i])
    OBVIOUS
  <2>4. SumFunctionOnSet(w, S \union {i}) = w[i] + SumFunctionOnSet(w, S)
    <3>0. w[i] \in Int
      <4>1. Len(b[i]) \in Nat
        BY <1>1
      <4> QED BY <4>1, <2>3
    <3>1. IsFiniteSet(S) /\ Ints(w, S) /\ w[i] \in Int
      BY <1>3, <2>2, <3>0
    <3> QED BY <3>1, <2>2, SumAdds
  <2>5. Begins(b, i) = SumFunctionOnSet(w, S) /\ Begins(b, i + 1) = SumFunctionOnSet(w, S \union {i})
    BY <2>1, <2>2 DEF Begins
  <2>6. Begins(b, i) \in Int
    BY <1>5
  <2> QED BY <1>1, <2>3, <2>4, <2>5, <2>6
<1>7. Begins(b, 1) = 0
  <2>1. {j \in DOMAIN b : j < 1} = {}
    OBVIOUS
  <2> QED BY <2>1, SumEmpty DEF Begins
<1> QED BY <1>1, <1>5, <1>6, <1>7

\* The first m of the sequences, end to end in q.
EndToEnd(b, m, R, q) ==
  /\ q \in Seq(R) /\ Len(q) = Begins(b, m + 1)
  /\ \A i \in 1..m : Begins(b, i + 1) <= Begins(b, m + 1)
  /\ \A i \in 1..m : 0 <= Begins(b, i)
  /\ \A i \in 1..m : \A j \in 1..Len(b[i]) : Begins(b, i) + j \in 1..Len(q) /\ q[Begins(b, i) + j] = b[i][j]
  /\ \A p \in 1..Len(q) : \E i \in 1..m : \E j \in 1..Len(b[i]) : p = Begins(b, i) + j

\* One more is laid after them.
LEMMA OneMore ==
  ASSUME NEW n \in Nat, NEW R, NEW b, Lists(b, n, R), NEW m \in Nat, m + 1 \in 1..n, NEW q, EndToEnd(b, m, R, q)
  PROVE  EndToEnd(b, m + 1, R, q \o b[m + 1])
<1> PICK s, k : s = b[m + 1] /\ k = m + 1
  OBVIOUS
<1>1. s \in Seq(R) /\ q \in Seq(R) /\ k \in 1..n
  BY DEF Lists, EndToEnd
<1>2. Len(s) \in Nat /\ Len(q) \in Nat
  BY <1>1, LenProperties
<1>3. q \o s \in Seq(R) /\ Len(q \o s) = Len(q) + Len(s)
      /\ \A p \in 1..(Len(q) + Len(s)) : (q \o s)[p] = IF p <= Len(q) THEN q[p] ELSE s[p - Len(q)]
  BY <1>1, <1>2, ConcatProperties
<1>4. PICK c : c = q \o s
  OBVIOUS
<1>5. \A i \in 1..k : Begins(b, i) \in Int /\ Len(b[i]) \in Nat /\ Begins(b, i + 1) = Begins(b, i) + Len(b[i])
  <2>1. /\ \A i \in 1..n : Begins(b, i + 1) = Begins(b, i) + Len(b[i]) /\ Len(b[i]) \in Nat
        /\ \A i \in 1..(n + 1) : Begins(b, i) \in Int
    BY BeginsAfter
  <2>2. \A i \in 1..k : i \in 1..n /\ i \in 1..(n + 1)
    BY <1>1
  <2> QED BY <2>1, <2>2
<1>6. Begins(b, k) = Len(q) /\ Begins(b, k + 1) = Len(q) + Len(s)
  <2>1. Begins(b, k) = Len(q)
    BY DEF EndToEnd
  <2>2. k \in 1..k
    BY <1>1
  <2>3. Begins(b, k + 1) = Begins(b, k) + Len(s)
    BY <1>5, <2>2
  <2> QED BY <2>1, <2>3
<1>7. \A i \in 1..k : i \in 1..m \/ i = k
  OBVIOUS
<1>8. c \in Seq(R) /\ Len(c) = Begins(b, k + 1)
  BY <1>3, <1>4, <1>6
<1>9. ASSUME NEW i \in 1..k PROVE Begins(b, i + 1) <= Begins(b, k + 1) /\ 0 <= Begins(b, i)
  <2>1. CASE i = k
    BY <1>2, <1>5, <1>6, <2>1
  <2>2. CASE i \in 1..m
    <3>1. Begins(b, i + 1) <= Begins(b, k) /\ 0 <= Begins(b, i)
      BY <2>2 DEF EndToEnd
    <3>2. Begins(b, i + 1) \in Int
      <4>1. i \in 1..k
        OBVIOUS
      <4> QED BY <4>1, <1>5
    <3> QED BY <3>1, <3>2, <1>2, <1>6
  <2> QED BY <2>1, <2>2, <1>7
<1>10. ASSUME NEW i \in 1..k, NEW j \in 1..Len(b[i])
       PROVE  Begins(b, i) + j \in 1..Len(c) /\ c[Begins(b, i) + j] = b[i][j]
  <2>1. CASE i = k
    <3>1. j \in 1..Len(s) /\ Begins(b, i) + j = Len(q) + j
      BY <2>1, <1>6
    <3>2. Len(q) + j \in 1..(Len(q) + Len(s)) /\ ~ (Len(q) + j <= Len(q)) /\ (Len(q) + j) - Len(q) = j
      BY <1>2, <3>1
    <3>3. c[Len(q) + j] = s[j]
      BY <3>2, <1>3, <1>4
    <3> QED BY <2>1, <3>1, <3>2, <3>3, <1>3, <1>4
  <2>2. CASE i \in 1..m
    <3>1. PICK p : p = Begins(b, i) + j
      OBVIOUS
    <3>2. p \in 1..Len(q) /\ q[p] = b[i][j]
      BY <2>2, <3>1 DEF EndToEnd
    <3>3. p \in 1..(Len(q) + Len(s)) /\ p <= Len(q)
      BY <3>2, <1>2
    <3> QED BY <3>1, <3>2, <3>3, <1>3, <1>4
  <2> QED BY <2>1, <2>2, <1>7
<1>11. ASSUME NEW p \in 1..Len(c) PROVE \E i \in 1..k : \E j \in 1..Len(b[i]) : p = Begins(b, i) + j
  <2>1. CASE p <= Len(q)
    <3>1. p \in 1..Len(q)
      BY <2>1, <1>2
    <3>2. \E i \in 1..m : \E j \in 1..Len(b[i]) : p = Begins(b, i) + j
      BY <3>1 DEF EndToEnd
    <3> QED BY <3>2
  <2>2. CASE ~ (p <= Len(q))
    <3>1. PICK j : j = p - Len(q)
      OBVIOUS
    <3>2. p \in 1..(Len(q) + Len(s))
      BY <1>3, <1>4
    <3>3. j \in 1..Len(b[k]) /\ p = Begins(b, k) + j
      BY <3>1, <3>2, <2>2, <1>2, <1>6
    <3> QED BY <3>3
  <2> QED BY <2>1, <2>2
<1> QED BY <1>4, <1>8, <1>9, <1>10, <1>11 DEF EndToEnd

\* FlattenSeq() lays sequences end to end.
LEMMA FlatIsEndToEnd ==
  ASSUME NEW n \in Nat, NEW R, NEW b, Lists(b, n, R), b \in Seq(Seq(R))
  PROVE  EndToEnd(b, n, R, FlattenSeq(b))
<1>1. Begins(b, 1) = 0
  BY BeginsAfter
<1>2. EndToEnd(b, 0, R, <<>>)
  <2>1. <<>> \in Seq(R) /\ Len(<<>>) = 0
    BY EmptySeq
  <2> QED BY <1>1, <2>1 DEF EndToEnd
<1>3. CASE n = 0
  <2>1. b = <<>>
    BY <1>3, EmptySeq DEF Lists
  <2>2. FlattenSeq(b) = <<>>
    BY <1>3, <2>1 DEF FlattenSeq, Lists
  <2> QED BY <1>2, <1>3, <2>2
<1>4. CASE n # 0
  <2> DEFINE step(g) == [i \in 1..Len(b) |-> IF i = 1 THEN b[i] ELSE g[i - 1] \o b[i]]
             flat == CHOOSE g : g = step(g)
             next(g, i) == IF i = 1 THEN b[i] ELSE g[i - 1] \o b[i]
             Made == {m \in Nat : m <= n => \E g \in [1..m -> Seq(R)] : \A i \in 1..m : g[i] = next(g, i)}
  <2>1. FlattenSeq(b) = flat[n]
    BY <1>4 DEF FlattenSeq, Lists
  <2>2. 0 \in Made
    <3>1. PICK g : g = [i \in 1..0 |-> <<>>]
      OBVIOUS
    <3>2. g \in [1..0 -> Seq(R)] /\ \A i \in 1..0 : g[i] = next(g, i)
      BY <3>1
    <3> HIDE DEF next
    <3> QED BY <3>2
  <2>3. ASSUME NEW m \in Nat, m \in Made PROVE m + 1 \in Made
    <3> SUFFICES ASSUME m + 1 <= n PROVE \E g \in [1..(m + 1) -> Seq(R)] : \A i \in 1..(m + 1) : g[i] = next(g, i)
      OBVIOUS
    <3>1. PICK g \in [1..m -> Seq(R)] : \A i \in 1..m : g[i] = next(g, i)
      BY <2>3
    <3>2. PICK x : x = next(g, m + 1)
      OBVIOUS
    <3>3. x \in Seq(R)
      <4>1. b[m + 1] \in Seq(R)
        BY DEF Lists
      <4>2. m + 1 # 1 => g[m] \in Seq(R) /\ (m + 1) - 1 = m
        OBVIOUS
      <4> QED BY <3>2, <4>1, <4>2, ConcatProperties
    <3>4. PICK h : h = [i \in 1..(m + 1) |-> IF i = m + 1 THEN x ELSE g[i]]
      OBVIOUS
    <3>5. h \in [1..(m + 1) -> Seq(R)]
      BY <3>3, <3>4
    <3>6. ASSUME NEW i \in 1..(m + 1) PROVE h[i] = next(h, i)
      <4>1. i # 1 => i - 1 \in 1..m /\ h[i - 1] = g[i - 1]
        BY <3>4
      <4>2. CASE i = m + 1
        <5>1. h[i] = x
          BY <3>4, <4>2
        <5> QED BY <5>1, <3>2, <4>1, <4>2
      <4>3. CASE i # m + 1
        <5>1. i \in 1..m /\ h[i] = g[i]
          BY <3>4, <4>3
        <5>2. g[i] = next(g, i)
          BY <3>1, <5>1
        <5> QED BY <5>1, <5>2, <4>1
      <4> QED BY <4>2, <4>3
    <3> HIDE DEF next
    <3> QED BY <3>5, <3>6
  <2>4. n \in Made
    <3> HIDE DEF Made
    <3> QED BY <2>2, <2>3, Counting
  <2>5. PICK g \in [1..n -> Seq(R)] : \A i \in 1..n : g[i] = next(g, i)
    BY <2>4
  <2>6. g = step(g)
    <3>1. \A i \in 1..n : g[i] = step(g)[i]
      BY <2>5 DEF Lists
    <3>2. step(g) = [i \in 1..n |-> step(g)[i]]
      BY DEF Lists
    <3> HIDE DEF step
    <3> QED BY <3>1, <3>2
  <2>7. flat = step(flat)
    <3> HIDE DEF step
    <3> QED BY <2>6
  <2> HIDE DEF flat
  <2>8. \A i \in 1..n : flat[i] = IF i = 1 THEN b[i] ELSE flat[i - 1] \o b[i]
    BY <2>7 DEF Lists
  <2>9. ASSUME NEW m \in Nat, m + 1 \in 1..n, m = 0 \/ EndToEnd(b, m, R, flat[m])
        PROVE  EndToEnd(b, m + 1, R, flat[m + 1])
    <3>1. CASE m = 0
      <4>1. b[1] \in Seq(R) /\ flat[1] = b[1]
        BY <2>8, <1>4 DEF Lists
      <4>2. <<>> \o b[1] = b[1]
        BY <4>1, ConcatEmptySeq
      <4>3. EndToEnd(b, 1, R, <<>> \o b[1])
        <5>1. 0 + 1 \in 1..n
          BY <2>9, <3>1
        <5>2. EndToEnd(b, 0 + 1, R, <<>> \o b[0 + 1])
          BY <1>2, <5>1, OneMore
        <5> QED BY <5>2
      <4> QED BY <3>1, <4>1, <4>2, <4>3
    <3>2. CASE m # 0
      <4>1. flat[m + 1] = flat[m] \o b[m + 1]
        <5>1. m + 1 # 1 /\ (m + 1) - 1 = m
          BY <3>2
        <5> QED BY <5>1, <2>8, <2>9
      <4>2. EndToEnd(b, m, R, flat[m])
        BY <2>9, <3>2
      <4> QED BY <4>1, <4>2, <2>9, OneMore
    <3> QED BY <3>1, <3>2
  <2> DEFINE Laid == {m \in Nat : m <= n => m = 0 \/ EndToEnd(b, m, R, flat[m])}
  <2>10. \A m \in Nat : m \in Laid => m + 1 \in Laid
    <3> SUFFICES ASSUME NEW m \in Nat, m \in Laid PROVE m + 1 <= n => EndToEnd(b, m + 1, R, flat[m + 1])
      <4>1. \A m \in Nat : m \in Laid <=> (m <= n => m = 0 \/ EndToEnd(b, m, R, flat[m]))
        OBVIOUS
      <4> HIDE DEF Laid
      <4> QED BY <4>1
    <3>1. m + 1 <= n => m + 1 \in 1..n /\ (m = 0 \/ EndToEnd(b, m, R, flat[m]))
      OBVIOUS
    <3> HIDE DEF Laid
    <3> QED BY <2>9, <3>1
  <2>11. n \in Laid
    <3>1. 0 \in Laid
      OBVIOUS
    <3> HIDE DEF Laid
    <3> QED BY <2>10, <3>1, Counting
  <2> QED BY <1>4, <2>1, <2>11
<1> QED BY <1>3, <1>4

\* In sequences end to end, two places are different.
LEMMA PlacesDiffer ==
  ASSUME NEW n \in Nat, NEW R, NEW b, Lists(b, n, R), NEW q, EndToEnd(b, n, R, q),
         NEW i \in 1..n, NEW k \in 1..n
  PROVE  \A j \in 1..Len(b[i]) : \A l \in 1..Len(b[k]) :
           Begins(b, i) + j = Begins(b, k) + l => i = k /\ j = l
<1> DEFINE Grown == {m \in Nat : m <= n => \A h \in 1..m : Begins(b, h + 1) <= Begins(b, m + 1)}
<1>0. /\ \A h \in 1..n : Begins(b, h + 1) = Begins(b, h) + Len(b[h]) /\ Len(b[h]) \in Nat
      /\ \A h \in 1..(n + 1) : Begins(b, h) \in Int
  BY BeginsAfter
<1>1. 0 \in Grown
  OBVIOUS
<1>2. ASSUME NEW m \in Nat, m \in Grown PROVE m + 1 \in Grown
  <2> SUFFICES ASSUME m + 1 <= n, NEW h \in 1..(m + 1) PROVE Begins(b, h + 1) <= Begins(b, (m + 1) + 1)
    OBVIOUS
  <2>1. Begins(b, m + 1) <= Begins(b, (m + 1) + 1) /\ Begins(b, m + 1) \in Int /\ Begins(b, (m + 1) + 1) \in Int
    <3>1. PICK c : c = m + 1
      OBVIOUS
    <3>2. c \in 1..n /\ c \in 1..(n + 1) /\ c + 1 \in 1..(n + 1)
      BY <3>1
    <3>3. Begins(b, c + 1) = Begins(b, c) + Len(b[c]) /\ Len(b[c]) \in Nat /\ Begins(b, c) \in Int /\ Begins(b, c + 1) \in Int
      BY <1>0, <3>2
    <3> QED BY <3>1, <3>3
  <2>2. CASE h = m + 1
    BY <2>1, <2>2
  <2>3. CASE h # m + 1
    <3>1. h \in 1..m /\ h + 1 \in 1..(n + 1)
      BY <2>3
    <3>2. Begins(b, h + 1) <= Begins(b, m + 1)
      BY <1>2, <3>1
    <3> QED BY <1>0, <2>1, <3>1, <3>2
  <2> QED BY <2>2, <2>3
<1>3. \A m \in Nat : m \in Grown
  <2> HIDE DEF Grown
  <2> QED BY <1>1, <1>2, Counting
<1>4. ASSUME NEW g \in 1..n, NEW h \in 1..n, g < h, NEW x \in 1..Len(b[g]), NEW y \in 1..Len(b[h])
      PROVE  Begins(b, g) + x # Begins(b, h) + y
  <2>1. h - 1 \in Nat /\ g \in 1..(h - 1) /\ (h - 1) + 1 = h /\ h - 1 <= n
    BY <1>4
  <2>2. Begins(b, g + 1) <= Begins(b, h)
    BY <1>3, <2>1
  <2>3. Begins(b, g) \in Int /\ Begins(b, h) \in Int /\ Begins(b, g + 1) = Begins(b, g) + Len(b[g])
        /\ Len(b[g]) \in Nat /\ Len(b[h]) \in Nat
    <3>1. g \in 1..(n + 1) /\ h \in 1..(n + 1)
      OBVIOUS
    <3> QED BY <3>1, <1>0
  <2> QED BY <2>2, <2>3
<1> SUFFICES ASSUME NEW j \in 1..Len(b[i]), NEW l \in 1..Len(b[k]), Begins(b, i) + j = Begins(b, k) + l
             PROVE  i = k /\ j = l
  OBVIOUS
<1>5. i = k
  BY <1>4
<1>6. Begins(b, i) \in Int /\ Len(b[i]) \in Nat /\ Len(b[k]) \in Nat
  BY <1>0
<1> QED BY <1>5, <1>6

-----------------------------------------------------------------------------
(***************************************************************************)
(* The edges of a graph of banks are those of its banks, end to end        *)
(***************************************************************************)
\* The edges of the banks, a bank at a time, and all there are.
EdgeLists == [i \in Banks |-> graphOf.banks[i].edges]
\* The edges of the banks.
BankEdges == UNION {Range(b.edges) : b \in Range(graphOf.banks)}

\* An edge by its bank and its number there.
Places == UNION {{<<i, j>> : j \in DOMAIN graphOf.banks[i].edges} : i \in Banks}

\* A place is one.
LEMMA PlaceIs ==
  ASSUME NEW x \in Places
  PROVE  x = <<x[1], x[2]>> /\ x[1] \in Banks /\ x[2] \in DOMAIN graphOf.banks[x[1]].edges
BY DEF Places

\* A number of edges is one.
LEMMA BanksAre ==
  ASSUME graphOf \in Graphs
  PROVE  /\ Len(graphOf.banks) \in Nat /\ Banks = 1..Len(graphOf.banks)
         /\ \A i \in Banks : graphOf.banks[i].edges \in Seq(BankEdges)
         /\ \A i \in Banks : DOMAIN graphOf.banks[i].edges = 1..Len(graphOf.banks[i].edges)
<1>1. graphOf.banks \in Seq(Range(graphOf.banks))
  BY GraphAssumption
<1>2. Len(graphOf.banks) \in Nat /\ Banks = 1..Len(graphOf.banks)
  BY <1>1, LenProperties DEF Banks
<1>3. ASSUME NEW i \in Banks
      PROVE  graphOf.banks[i].edges \in Seq(BankEdges) /\ DOMAIN graphOf.banks[i].edges = 1..Len(graphOf.banks[i].edges)
  <2>1. PICK b : b = graphOf.banks[i]
    OBVIOUS
  <2>2. b \in Range(graphOf.banks)
    BY <2>1 DEF Range, Banks
  <2>3. b.edges \in Seq(Range(b.edges))
    BY <2>2, GraphAssumption
  <2>4. Len(b.edges) \in Nat /\ DOMAIN b.edges = 1..Len(b.edges) /\ b.edges \in [1..Len(b.edges) -> Range(b.edges)]
    BY <2>3, LenProperties
  <2>5. \A j \in 1..Len(b.edges) : b.edges[j] \in BankEdges
    BY <2>2, <2>4 DEF BankEdges
  <2>6. b.edges \in [1..Len(b.edges) -> BankEdges]
    BY <2>4, <2>5
  <2>7. b.edges \in Seq(BankEdges)
    BY <2>4, <2>6, SeqDef
  <2> QED BY <2>1, <2>4, <2>7
<1> QED BY <1>2, <1>3

\* The flat edges are those of the banks, one bank after the other, and a bank
\* has the slice that begins at its offset.
LEMMA FlatIs ==
  ASSUME graphOf \in Graphs
  PROVE  /\ Lists(EdgeLists, Len(graphOf.banks), BankEdges)
         /\ EndToEnd(EdgeLists, Len(graphOf.banks), BankEdges, FlatEdges)
         /\ \A i \in Banks : Offset(i) = Begins(EdgeLists, i)
<1> PICK n : n = Len(graphOf.banks)
  OBVIOUS
<1>1. /\ n \in Nat /\ Banks = 1..n /\ DOMAIN EdgeLists = 1..n
      /\ \A i \in Banks : EdgeLists[i] \in Seq(BankEdges) /\ EdgeLists[i] = graphOf.banks[i].edges
  BY BanksAre DEF EdgeLists
<1>2. EdgeLists \in Seq(Seq(BankEdges)) /\ Len(EdgeLists) = n
  <2>1. EdgeLists \in [1..n -> Seq(BankEdges)]
    BY <1>1 DEF EdgeLists
  <2>2. EdgeLists \in Seq(Seq(BankEdges))
    BY <1>1, <2>1, SeqDef
  <2> QED BY <1>1, <2>2, LenProperties
<1>3. Lists(EdgeLists, n, BankEdges)
  BY <1>1, <1>2 DEF Lists
<1>4. EndToEnd(EdgeLists, n, BankEdges, FlattenSeq(EdgeLists))
  BY <1>1, <1>2, <1>3, FlatIsEndToEnd
<1>5. FlatEdges = FlattenSeq(EdgeLists)
  BY DEF FlatEdges, EdgeLists
<1>6. [j \in Banks |-> Len(graphOf.banks[j].edges)] = [j \in DOMAIN EdgeLists |-> Len(EdgeLists[j])]
  BY <1>1
<1>7. ASSUME NEW i \in Banks PROVE Offset(i) = Begins(EdgeLists, i)
  <2>1. {j \in Banks : j < i} = {j \in DOMAIN EdgeLists : j < i}
    BY <1>1
  <2> QED BY <1>6, <2>1 DEF Offset, Begins
<1> QED BY <1>3, <1>4, <1>5, <1>7

\* What an edge is.
LEMMA FlatType ==
  ASSUME graphOf \in Graphs
  PROVE  /\ IsFiniteSet(DOMAIN FlatEdges)
         /\ \A e \in DOMAIN FlatEdges :
              /\ FlatEdges[e].variable \in Position
              /\ FlatEdges[e].sites \subseteq (Int \union {NaN}) \X (Int \union {NaN})
<1>1. FlatEdges \in Seq(BankEdges)
  BY FlatIs DEF EndToEnd
<1>2. DOMAIN FlatEdges = 1..Len(FlatEdges) /\ Len(FlatEdges) \in Nat /\ \A e \in DOMAIN FlatEdges : FlatEdges[e] \in BankEdges
  BY <1>1, LenProperties
<1>3. IsFiniteSet(DOMAIN FlatEdges)
  BY <1>2, FS_Interval
<1>4. ASSUME NEW x \in BankEdges
      PROVE  x.variable \in Position /\ x.sites \subseteq (Int \union {NaN}) \X (Int \union {NaN})
  <2>1. PICK b \in Range(graphOf.banks) : x \in Range(b.edges)
    BY DEF BankEdges
  <2> QED BY <2>1, GraphAssumption DEF Position
<1> QED BY <1>2, <1>3, <1>4

\* What was sent, and the prior, are pairs of integers.
Sites == [DOMAIN FlatEdges -> Int \X Int]

\* The potential of a variable is that of its prior and of what is sent to it.
LEMMA SitesAdd ==
  ASSUME graphOf \in Graphs, NEW sent \in Sites, NEW v \in Position
  PROVE  /\ Potential(Natural(sent)[v]) = Potential(graphOf.priors[v])
                + SumFunctionOnSet([e \in DOMAIN sent |-> Potential(sent[e])], EdgesAt(v))
         /\ Natural(sent)[v] \in Int \X Int
         /\ IsFiniteSet(EdgesAt(v))
         /\ Ints([e \in DOMAIN sent |-> Potential(sent[e])], EdgesAt(v))
         /\ Potential(graphOf.priors[v]) \in Int
<1>1. graphOf.priors[v] \in Int \X Int
  BY GraphAssumption DEF Position
<1>2. IsFiniteSet(EdgesAt(v)) /\ EdgesAt(v) \in SUBSET DOMAIN FlatEdges
  BY FlatType, FS_Subset DEF EdgesAt
<1>3. DOMAIN sent = DOMAIN FlatEdges /\ \A e \in DOMAIN sent : sent[e][1] \in Int /\ sent[e][2] \in Int
  BY DEF Sites
<1> PICK p, q : p = [e \in DOMAIN sent |-> Precision(sent[e])] /\ q = [e \in DOMAIN sent |-> Potential(sent[e])]
  OBVIOUS
<1>4. Ints(p, EdgesAt(v)) /\ Ints(q, EdgesAt(v))
  BY <1>2, <1>3 DEF Ints, Precision, Potential
<1>5. SumFunctionOnSet(p, EdgesAt(v)) \in Int /\ SumFunctionOnSet(q, EdgesAt(v)) \in Int
  BY <1>2, <1>4, SumType
<1>6. Natural(sent)[v] = <<graphOf.priors[v][1] + SumFunctionOnSet(p, EdgesAt(v)),
                           graphOf.priors[v][2] + SumFunctionOnSet(q, EdgesAt(v))>>
  BY DEF Natural, Plus, Added
<1>7. graphOf.priors[v][1] \in Int /\ graphOf.priors[v][2] \in Int
  BY <1>1
<1>8. Natural(sent)[v] \in Int \X Int
  BY <1>5, <1>6, <1>7
<1>9. Natural(sent)[v][2] = graphOf.priors[v][2] + SumFunctionOnSet(q, EdgesAt(v))
  BY <1>6
<1> QED BY <1>2, <1>4, <1>7, <1>8, <1>9 DEF Potential

\* The number of a place in the flat order.
PlaceNumber == [x \in Places |-> Offset(x[1]) + x[2]]

\* Places and flat edges are one to one.
LEMMA PlacesAreEdges ==
  ASSUME graphOf \in Graphs
  PROVE  /\ \A x \in Places : /\ PlaceNumber[x] \in DOMAIN FlatEdges
                              /\ FlatEdges[PlaceNumber[x]] = graphOf.banks[x[1]].edges[x[2]]
         /\ \A x, y \in Places : PlaceNumber[x] = PlaceNumber[y] => x = y
         /\ \A e \in DOMAIN FlatEdges : \E x \in Places : PlaceNumber[x] = e
<1>a. PICK n, b, q : n = Len(graphOf.banks) /\ b = EdgeLists /\ q = FlatEdges
  OBVIOUS
<1>1. n \in Nat /\ Banks = 1..n /\ \A i \in Banks : b[i] = graphOf.banks[i].edges /\ DOMAIN b[i] = 1..Len(b[i])
  BY <1>a, BanksAre DEF EdgeLists
<1>2. Lists(b, n, BankEdges) /\ EndToEnd(b, n, BankEdges, q) /\ \A i \in Banks : Offset(i) = Begins(b, i)
  BY <1>a, FlatIs
<1>3. DOMAIN q = 1..Len(q)
  BY <1>2, LenProperties DEF EndToEnd
<1>4. ASSUME NEW x \in Places
      PROVE  x = <<x[1], x[2]>> /\ x[1] \in 1..n /\ x[2] \in 1..Len(b[x[1]]) /\ PlaceNumber[x] = Begins(b, x[1]) + x[2]
  BY <1>1, <1>2, PlaceIs DEF PlaceNumber
<1>5. ASSUME NEW x \in Places
      PROVE  PlaceNumber[x] \in DOMAIN q /\ q[PlaceNumber[x]] = graphOf.banks[x[1]].edges[x[2]]
  <2>1. PICK i, j : i = x[1] /\ j = x[2]
    OBVIOUS
  <2>2. i \in 1..n /\ j \in 1..Len(b[i]) /\ PlaceNumber[x] = Begins(b, i) + j
    BY <1>4, <2>1
  <2>3. Begins(b, i) + j \in 1..Len(q) /\ q[Begins(b, i) + j] = b[i][j]
    BY <1>2, <2>2 DEF EndToEnd
  <2> QED BY <1>1, <1>3, <2>1, <2>2, <2>3
<1>6. ASSUME NEW x \in Places, NEW y \in Places, PlaceNumber[x] = PlaceNumber[y] PROVE x = y
  <2>1. PICK i, j, k, l : i = x[1] /\ j = x[2] /\ k = y[1] /\ l = y[2]
    OBVIOUS
  <2>2. /\ i \in 1..n /\ j \in 1..Len(b[i]) /\ PlaceNumber[x] = Begins(b, i) + j
        /\ k \in 1..n /\ l \in 1..Len(b[k]) /\ PlaceNumber[y] = Begins(b, k) + l
        /\ x = <<i, j>> /\ y = <<k, l>>
    BY <1>4, <2>1
  <2>3. i = k /\ j = l
    <3>1. Begins(b, i) + j = Begins(b, k) + l
      BY <1>6, <2>2
    <3>2. n \in Nat /\ Lists(b, n, BankEdges) /\ EndToEnd(b, n, BankEdges, q)
      BY <1>1, <1>2
    <3> QED BY <2>2, <3>1, <3>2, PlacesDiffer
  <2> QED BY <2>2, <2>3
<1>7. ASSUME NEW e \in DOMAIN q PROVE \E x \in Places : PlaceNumber[x] = e
  <2>0. PICK i \in 1..n : \E j \in 1..Len(b[i]) : e = Begins(b, i) + j
    BY <1>2, <1>3 DEF EndToEnd
  <2>1. PICK j \in 1..Len(b[i]) : e = Begins(b, i) + j
    BY <2>0
  <2>2. PICK x : x = <<i, j>>
    OBVIOUS
  <2>3. x \in Places
    BY <1>1, <2>2 DEF Places
  <2>4. x[1] = i /\ x[2] = j
    BY <2>2
  <2> QED BY <2>1, <2>3, <2>4, <1>4
<1> QED BY <1>a, <1>5, <1>6, <1>7

\* There are finitely many places and terms.
LEMMA PlacesFinite ==
  ASSUME graphOf \in Graphs
  PROVE  IsFiniteSet(Places) /\ IsFiniteSet(TermKeys) /\ \A x \in Places : KeyOf(x[1], x[2]) \in TermKeys
<1>1. PlaceNumber \in Injection(Places, DOMAIN FlatEdges)
  <2>1. PlaceNumber \in [Places -> DOMAIN FlatEdges]
    BY PlacesAreEdges DEF PlaceNumber
  <2>2. \A x, y \in Places : PlaceNumber[x] = PlaceNumber[y] => x = y
    BY PlacesAreEdges
  <2> QED BY <2>1, <2>2 DEF Injection, IsInjective
<1>2. IsFiniteSet(Places)
  BY <1>1, FlatType, FS_Injection
<1> DEFINE Keyed == UNION {{KeyOf(i, j) : j \in DOMAIN graphOf.banks[i].edges} : i \in Banks}
<1>3. \A x \in Places : KeyOf(x[1], x[2]) \in Keyed
  BY PlaceIs
<1>4. IsFiniteSet(Keyed)
  <2> PICK h : h = [x \in Places |-> KeyOf(x[1], x[2])]
    OBVIOUS
  <2>1. ASSUME NEW k \in Keyed PROVE \E x \in Places : h[x] = k
    <3>1. PICK i \in Banks : \E j \in DOMAIN graphOf.banks[i].edges : k = KeyOf(i, j)
      OBVIOUS
    <3>2. PICK j \in DOMAIN graphOf.banks[i].edges : k = KeyOf(i, j)
      BY <3>1
    <3>3. PICK x : x = <<i, j>>
      OBVIOUS
    <3>4. x \in Places /\ x[1] = i /\ x[2] = j
      BY <3>3 DEF Places
    <3> QED BY <3>2, <3>4
  <2>2. h \in Surjection(Places, Keyed)
    <3>1. h \in [Places -> Keyed]
      BY <1>3
    <3> QED BY <3>1, <2>1 DEF Surjection
  <2> HIDE DEF Keyed
  <2> QED BY <1>2, <2>2, FS_Surjection
<1>5. TermKeys = Keyed \union {PriorKey}
  BY DEF TermKeys
<1> HIDE DEF Keyed
<1>6. IsFiniteSet(TermKeys)
  BY <1>4, <1>5, FS_AddElement
<1> QED BY <1>2, <1>3, <1>5, <1>6

\* The terms of a variable sum to the potential of the prior and of all that
\* was sent to it.
LEMMA TermsAddUp ==
  ASSUME graphOf \in Graphs, sites \in Sites, NEW v \in Position
  PROVE  SumFunction([key \in TermKeys |-> Term(v, key)]) = Potential(Natural(sites)[v])
<1>a. PICK K, E, A : K = TermKeys /\ E = EdgesAt(v) /\ A = {x \in Places : graphOf.banks[x[1]].edges[x[2]].variable = v}
  OBVIOUS
<1>b. PICK w, u, g : w = [x \in A |-> Sent(x)] /\ u = [e \in DOMAIN sites |-> Potential(sites[e])]
                   /\ g = [x \in A |-> KeyOf(x[1], x[2])]
  OBVIOUS
<1>1. IsFiniteSet(A) /\ IsFiniteSet(K) /\ A \in SUBSET Places
  BY <1>a, PlacesFinite, FS_Subset
<1>2. IsFiniteSet(E) /\ Ints(u, E) /\ Potential(graphOf.priors[v]) \in Int
      /\ Potential(Natural(sites)[v]) = Potential(graphOf.priors[v]) + SumFunctionOnSet(u, E)
  BY <1>a, <1>b, SitesAdd
<1>3. Renames(PlaceNumber, A, E, w, u)
  <2>1. ASSUME NEW x \in A PROVE PlaceNumber[x] \in E /\ w[x] = u[PlaceNumber[x]]
    <3>1. x \in Places /\ graphOf.banks[x[1]].edges[x[2]].variable = v
      BY <1>a
    <3>2. PlaceNumber[x] \in DOMAIN FlatEdges /\ FlatEdges[PlaceNumber[x]] = graphOf.banks[x[1]].edges[x[2]]
      BY <3>1, PlacesAreEdges
    <3>3. PlaceNumber[x] \in E
      BY <1>a, <3>1, <3>2 DEF EdgesAt
    <3>4. PlaceNumber[x] = Offset(x[1]) + x[2]
      BY <3>1 DEF PlaceNumber
    <3>5. w[x] = Potential(sites[PlaceNumber[x]])
      BY <1>b, <3>4 DEF Sent
    <3>6. DOMAIN sites = DOMAIN FlatEdges
      BY DEF Sites
    <3> QED BY <1>b, <3>2, <3>3, <3>5, <3>6
  <2>2. \A x, y \in A : PlaceNumber[x] = PlaceNumber[y] => x = y
    BY <1>1, PlacesAreEdges
  <2>3. ASSUME NEW e \in E PROVE \E x \in A : PlaceNumber[x] = e
    <3>1. e \in DOMAIN FlatEdges /\ FlatEdges[e].variable = v
      BY <1>a DEF EdgesAt
    <3>2. PICK x \in Places : PlaceNumber[x] = e
      BY <3>1, PlacesAreEdges
    <3>3. FlatEdges[PlaceNumber[x]] = graphOf.banks[x[1]].edges[x[2]]
      BY PlacesAreEdges
    <3> QED BY <1>a, <3>1, <3>2, <3>3
  <2> QED BY <2>1, <2>2, <2>3 DEF Renames
<1>4. SumFunctionOnSet(w, A) = SumFunctionOnSet(u, E)
  BY <1>1, <1>2, <1>3, SumRenamed
<1>5. Ints(w, A)
  <2>1. \A x \in A : w[x] = u[PlaceNumber[x]] /\ PlaceNumber[x] \in E
    BY <1>3 DEF Renames
  <2> QED BY <1>2, <2>1 DEF Ints
<1>c. PICK m, p, t : /\ m = [key \in K |-> SumFunctionOnSet(w, {x \in A : g[x] = key})]
                   /\ p = [key \in K |-> IF key = PriorKey THEN Potential(graphOf.priors[v]) ELSE 0]
                   /\ t = [key \in K |-> Term(v, key)]
  OBVIOUS
<1>6. SumFunctionOnSet(m, K) = SumFunctionOnSet(w, A)
  <2>1. \A x \in A : g[x] \in K
    BY <1>1, <1>a, <1>b, PlacesFinite
  <2>2. \A key \in K : m[key] = SumFunctionOnSet(w, {x \in A : g[x] = key})
    BY <1>c
  <2>3. Grouped(m, g, w, A, K)
    BY <2>1, <2>2 DEF Grouped
  <2> QED BY <1>1, <1>5, <2>3, SumByKey
<1>7. \A key \in K : IsFiniteSet({x \in A : g[x] = key}) /\ Ints(w, {x \in A : g[x] = key})
  <2> SUFFICES ASSUME NEW key \in K PROVE IsFiniteSet({x \in A : g[x] = key}) /\ Ints(w, {x \in A : g[x] = key})
    OBVIOUS
  <2>1. {x \in A : g[x] = key} \in SUBSET A
    OBVIOUS
  <2> QED BY <1>1, <1>5, <2>1, FS_Subset DEF Ints
<1>8. Ints(m, K)
  <2>1. \A key \in K : SumFunctionOnSet(w, {x \in A : g[x] = key}) \in Int
    BY <1>7, SumType
  <2> QED BY <1>c, <2>1 DEF Ints
<1>9. \A key \in K : t[key] = m[key] + p[key]
  <2> SUFFICES ASSUME NEW key \in K PROVE t[key] = m[key] + p[key]
    OBVIOUS
  <2>1. PICK B : B = Under(v, key)
    OBVIOUS
  <2>2. B = {x \in A : g[x] = key}
    <3>1. ASSUME NEW x \in B PROVE x \in A /\ g[x] = key
      <4>1. PICK i \in Banks : \E j \in {j \in DOMAIN graphOf.banks[i].edges :
                              graphOf.banks[i].edges[j].variable = v /\ KeyOf(i, j) = key} : x = <<i, j>>
        BY <2>1 DEF Under
      <4>2. PICK j \in DOMAIN graphOf.banks[i].edges : graphOf.banks[i].edges[j].variable = v /\ KeyOf(i, j) = key /\ x = <<i, j>>
        BY <4>1
      <4>3. x \in Places /\ x[1] = i /\ x[2] = j
        <5>1. x = <<i, j>>
          BY <4>2
        <5>2. x \in {<<i, l>> : l \in DOMAIN graphOf.banks[i].edges}
          BY <5>1
        <5> QED BY <5>1, <5>2 DEF Places
      <4> QED BY <1>a, <1>b, <4>2, <4>3
    <3>2. ASSUME NEW x \in A, g[x] = key PROVE x \in B
      <4>1. PICK i, j : i = x[1] /\ j = x[2]
        OBVIOUS
      <4>2. x = <<i, j>> /\ i \in Banks /\ j \in DOMAIN graphOf.banks[i].edges
        BY <1>1, <4>1, PlaceIs
      <4>3. graphOf.banks[i].edges[j].variable = v /\ KeyOf(i, j) = key
        BY <1>a, <1>b, <3>2, <4>1
      <4>4. x \in {<<i, l>> : l \in {l \in DOMAIN graphOf.banks[i].edges :
                              graphOf.banks[i].edges[l].variable = v /\ KeyOf(i, l) = key}}
        BY <4>2, <4>3
      <4> QED BY <2>1, <4>2, <4>4 DEF Under
    <3> QED BY <3>1, <3>2
  <2>3. PICK s : s = [edge \in B |-> Sent(edge)]
    OBVIOUS
  <2>4. \A x \in B : s[x] = w[x]
    BY <1>b, <2>2, <2>3
  <2>5. IsFiniteSet(B) /\ Ints(w, B)
    BY <1>7, <2>2
  <2>6. SumFunctionOnSet(s, B) = SumFunctionOnSet(w, B)
    BY <2>4, <2>5, SumSame
  <2>7. SumFunction(s) = SumFunctionOnSet(s, B)
    BY <2>3 DEF SumFunction
  <2>8. t[key] = p[key] + SumFunction(s)
    <3>1. t[key] = Term(v, key) /\ p[key] = IF key = PriorKey THEN Potential(graphOf.priors[v]) ELSE 0
      BY <1>c
    <3> QED BY <3>1, <2>1, <2>3 DEF Term
  <2>9. m[key] = SumFunctionOnSet(w, B)
    BY <1>c, <2>2
  <2>10. m[key] \in Int /\ p[key] \in Int
    <3>1. p[key] = IF key = PriorKey THEN Potential(graphOf.priors[v]) ELSE 0
      BY <1>c
    <3> QED BY <3>1, <1>2, <1>8 DEF Ints
  <2> QED BY <2>6, <2>7, <2>8, <2>9, <2>10
<1>10. Ints(p, K)
  <2>1. \A key \in K : p[key] = IF key = PriorKey THEN Potential(graphOf.priors[v]) ELSE 0
    BY <1>c
  <2> QED BY <1>2, <2>1 DEF Ints
<1>11. SumFunctionOnSet(t, K) = SumFunctionOnSet(m, K) + SumFunctionOnSet(p, K)
  BY <1>1, <1>8, <1>9, <1>10, SumOfSums
<1>12. SumFunctionOnSet(p, K) = Potential(graphOf.priors[v])
  <2>a. PICK r, h : r = [x \in {PriorKey} |-> Potential(graphOf.priors[v])] /\ h = [x \in {PriorKey} |-> x]
    OBVIOUS
  <2>1. PriorKey \in K
    BY <1>a DEF TermKeys
  <2>2. Renames(h, {PriorKey}, K, r, p)
    <3>1. p[PriorKey] = Potential(graphOf.priors[v]) /\ \A key \in K : key # PriorKey => p[key] = 0
      BY <1>c, <2>1
    <3>2. r[PriorKey] = Potential(graphOf.priors[v]) /\ h[PriorKey] = PriorKey
      BY <2>a
    <3> QED BY <2>1, <3>1, <3>2 DEF Renames
  <2>3. IsFiniteSet({PriorKey}) /\ Ints(r, {PriorKey}) /\ {PriorKey} \ {PriorKey} = {}
    <3>1. r[PriorKey] = Potential(graphOf.priors[v])
      BY <2>a
    <3> QED BY <3>1, <1>2, FS_Singleton DEF Ints
  <2>4. SumFunctionOnSet(r, {PriorKey}) = SumFunctionOnSet(p, K)
    BY <1>1, <1>10, <2>2, <2>3, SumRenamed
  <2>5. SumFunctionOnSet(r, {PriorKey}) = r[PriorKey] + SumFunctionOnSet(r, {PriorKey} \ {PriorKey})
    BY <2>3, SumWith
  <2>6. SumFunctionOnSet(r, {PriorKey} \ {PriorKey}) = 0
    BY <2>3, SumEmpty
  <2>7. r[PriorKey] = Potential(graphOf.priors[v])
    BY <2>a
  <2> QED BY <1>2, <2>4, <2>5, <2>6, <2>7
<1>13. SumFunction([key \in TermKeys |-> Term(v, key)]) = SumFunctionOnSet(t, K)
  BY <1>a, <1>c DEF SumFunction
<1>14. SumFunctionOnSet(u, E) \in Int
  BY <1>2, SumType
<1> QED BY <1>2, <1>4, <1>6, <1>11, <1>12, <1>13, <1>14

-----------------------------------------------------------------------------
(***************************************************************************)
(* Expectation propagation: what it publishes adds up                      *)
(***************************************************************************)
\* A run has a graph of those given, and messages that are pairs of integers.
\* Moments that are done are those of the messages and, where the adapter has
\* checked them, were not clipped; what the latest sweep of a checked run did
\* not take is what it reports, since it took all the answers it could.
Sweeping ==
  /\ ep \in {"idle", "sweeping", "done", "refused", "failed"}
  /\ ep = "idle" => skipped = 0 /\ ignored = {}
  /\ ep # "idle" => graphOf \in Graphs /\ sites \in Sites
  /\ ep \in {"sweeping", "done"} => (graphOf.checked => Cardinality(ignored) = skipped)
  /\ ep = "done" => moments = Moments(Natural(sites)) /\ (graphOf.checked => Proper(Natural(sites)))

\* A run that is given a graph has sent nothing yet.
LEMMA GroundStep ==
  ASSUME Sweeping, ep = "idle", NEW g \in Graphs, Ground(g)
  PROVE  Sweeping'
<1>1. graphOf' = g /\ skipped' = 0 /\ ignored' = {} /\ ep' \in {"refused", "sweeping"}
  BY DEF Ground, Sweeping
<1>2. FlatEdges' = FlattenSeq([i \in DOMAIN g.banks |-> g.banks[i].edges])
  BY <1>1 DEF FlatEdges, Banks
<1>3. sites' = [e \in DOMAIN FlatEdges' |-> <<0, 0>>]
  BY <1>2 DEF Ground
<1>4. sites' \in Sites'
  BY <1>3 DEF Sites
<1>5. Cardinality({}) = 0
  BY FS_EmptySet
<1> QED BY <1>1, <1>4, <1>5 DEF Sweeping

\* A step toward an answer is a pair of integers.
LEMMA SteppedType ==
  ASSUME graphOf \in Graphs, sites \in Sites, NEW e \in DOMAIN FlatEdges,
         NEW a \in (Int \union {NaN}) \X (Int \union {NaN})
  PROVE  Stepped(e, a) \in Int \X Int
<1>1. e \in EdgesAt(FlatEdges[e].variable)
  BY DEF EdgesAt
<1>2. Degree(e) \in Nat /\ Degree(e) # 0
  <2> PICK E : E = EdgesAt(FlatEdges[e].variable)
    OBVIOUS
  <2>1. IsFiniteSet(E) /\ E # {}
    BY <1>1, FlatType, FS_Subset DEF EdgesAt
  <2>2. Cardinality(E) \in Nat /\ Cardinality(E) # 0
    BY <2>1, FS_CardinalityType, FS_EmptySet
  <2> QED BY <2>2 DEF Degree
<1>3. sites[e][1] \in Int /\ sites[e][2] \in Int /\ a[1] \in Int \union {NaN} /\ a[2] \in Int \union {NaN}
  BY DEF Sites
<1>4. ASSUME NEW x \in Int, NEW y \in Int \union {NaN}, NEW d \in Nat \ {0} PROVE Toward(x, y, d) \in Int
  <2>1. CASE y = NaN
    BY <2>1 DEF Toward
  <2>2. CASE y # NaN
    <3>1. y - x \in Int
      BY <2>2
    <3>2. (y - x) \div d \in Int
      BY <3>1
    <3> QED BY <2>2, <3>2 DEF Toward
  <2> QED BY <2>1, <2>2
<1>5. Toward(sites[e][1], a[1], Degree(e)) \in Int /\ Toward(sites[e][2], a[2], Degree(e)) \in Int
  BY <1>2, <1>3, <1>4
<1> QED BY <1>5 DEF Stepped

\* A sweep leaves the graph, and sends pairs of integers.
LEMMA SweepStep ==
  ASSUME Sweeping, Sweep
  PROVE  Sweeping'
<1>1. ep = "sweeping" /\ graphOf' = graphOf /\ graphOf \in Graphs /\ sites \in Sites
  BY DEF Sweep, Sweeping
<1>2. FlatEdges' = FlatEdges
  BY <1>1 DEF FlatEdges, Banks
<1> DEFINE improper == Improper(Natural(sites))
<1>3. PICK answers \in Answers :
        /\ skipped' = Cardinality(improper)
        /\ ignored' = improper \union Spoilt(answers)
        /\ IF Unusable(answers)
           THEN ep' = "failed" /\ UNCHANGED sites
           ELSE /\ sites' = [e \in DOMAIN sites |-> IF e \in improper THEN sites[e] ELSE Stepped(e, answers[e])]
                /\ UNCHANGED ep
  BY DEF Sweep
<1>4. DOMAIN answers = DOMAIN FlatEdges /\ \A e \in DOMAIN FlatEdges : answers[e] \in FlatEdges[e].sites
  BY DEF Answers
<1>5. sites' \in Sites
  <2>1. CASE Unusable(answers)
    BY <1>1, <1>3, <2>1
  <2>2. CASE ~ Unusable(answers)
    <3>1. sites' = [e \in DOMAIN FlatEdges |-> IF e \in improper THEN sites[e] ELSE Stepped(e, answers[e])]
      BY <1>1, <1>3, <2>2 DEF Sites
    <3>2. ASSUME NEW e \in DOMAIN FlatEdges
          PROVE  (IF e \in improper THEN sites[e] ELSE Stepped(e, answers[e])) \in Int \X Int
      <4>1. CASE e \in improper
        BY <1>1, <4>1 DEF Sites
      <4>2. CASE e \notin improper
        <5>1. answers[e] \in (Int \union {NaN}) \X (Int \union {NaN})
          BY <1>1, <1>4, FlatType
        <5>2. Stepped(e, answers[e]) \in Int \X Int
          BY <1>1, <5>1, SteppedType
        <5> HIDE DEF improper
        <5> QED BY <4>2, <5>2
      <4> QED BY <4>1, <4>2
    <3> HIDE DEF improper
    <3> QED BY <3>1, <3>2 DEF Sites
  <2> QED BY <2>1, <2>2
<1>6. sites' \in Sites'
  BY <1>2, <1>5 DEF Sites
<1>7. ep' \in {"sweeping", "failed"}
  BY <1>1, <1>3
<1>8. ASSUME ep' = "sweeping", graphOf'.checked PROVE Cardinality(ignored') = skipped'
  <2>1. ~ Unusable(answers)
    BY <1>3, <1>8
  <2>2. Spoilt(answers) = {}
    BY <1>1, <1>8, <2>1 DEF Unusable
  <2>3. improper \union Spoilt(answers) = improper
    BY <2>2
  <2> HIDE DEF improper
  <2> QED BY <1>3, <2>3
<1> QED BY <1>1, <1>6, <1>7, <1>8 DEF Sweeping

\* What a graph and its messages amount to is the same if they are.
LEMMA SameMessages ==
  ASSUME graphOf' = graphOf, sites' = sites
  PROVE  /\ Sites' = Sites
         /\ Moments(Natural(sites))' = Moments(Natural(sites))
         /\ Proper(Natural(sites))' <=> Proper(Natural(sites))
<1>1. FlatEdges' = FlatEdges /\ Sites' = Sites
  BY DEF FlatEdges, Banks, Sites
<1>2. \A v : EdgesAt(v)' = EdgesAt(v)
  BY <1>1 DEF EdgesAt
<1>3. Natural(sites)' = Natural(sites)
  BY <1>2 DEF Natural, Position
<1>4. Moments(Natural(sites))' = Moments(Natural(sites))
  BY <1>3 DEF Moments, Position
<1>5. Proper(Natural(sites))' <=> Proper(Natural(sites))
  BY <1>3 DEF Proper
<1> QED BY <1>1, <1>4, <1>5

\* What is published is of the last messages.
LEMMA PublishStep ==
  ASSUME Sweeping, Publish
  PROVE  Sweeping'
<1>1. /\ ep = "sweeping" /\ graphOf' = graphOf /\ sites' = sites /\ skipped' = skipped /\ ignored' = ignored
      /\ graphOf \in Graphs /\ sites \in Sites /\ (graphOf.checked => Cardinality(ignored) = skipped)
  BY DEF Publish, Sweeping
<1>6. moments' = Moments(Natural(sites)) /\ ep' = IF graphOf.checked /\ ~ Proper(Natural(sites)) THEN "failed" ELSE "done"
  BY DEF Publish
<1>7. /\ Sites' = Sites /\ Moments(Natural(sites))' = Moments(Natural(sites))
      /\ Proper(Natural(sites))' <=> Proper(Natural(sites))
  BY <1>1, SameMessages
<1>8. ep' \in {"failed", "done"} /\ (ep' = "done" => (graphOf.checked => Proper(Natural(sites))))
  BY <1>6
<1> QED BY <1>1, <1>6, <1>7, <1>8 DEF Sweeping

\* What the terms and the skips of a finished run are follows from the invariant.
LEMMA SweptIsExplained == Sweeping => MomentsAreExplained
<1> SUFFICES ASSUME Sweeping, ep = "done" PROVE MeansAddUp /\ SkipsAreReported
  BY DEF MomentsAreExplained, MeansAddUp, SkipsAreReported
<1>1. /\ graphOf \in Graphs /\ sites \in Sites /\ moments = Moments(Natural(sites))
      /\ graphOf.checked => Proper(Natural(sites)) /\ Cardinality(ignored) = skipped
  BY DEF Sweeping
<1>2. \A v \in Position : moments[v] = <<Clipped(Natural(sites)[v]), Potential(Natural(sites)[v])>>
  BY <1>1 DEF Moments
<1>3. MeansAddUp
  <2> SUFFICES ASSUME NEW v \in Position
               PROVE  SumFunction([key \in TermKeys |-> Term(v, key)]) = Potential(moments[v])
    BY DEF MeansAddUp
  <2>1. SumFunction([key \in TermKeys |-> Term(v, key)]) = Potential(Natural(sites)[v])
    BY <1>1, TermsAddUp
  <2>2. moments[v][2] = Potential(Natural(sites)[v])
    BY <1>2
  <2> QED BY <2>1, <2>2 DEF Potential
<1>4. ASSUME graphOf.checked, NEW v \in Position PROVE moments[v] = Natural(sites)[v]
  <2> PICK n : n = Natural(sites)[v]
    OBVIOUS
  <2>1. n \in Int \X Int
    BY <1>1, SitesAdd
  <2>2. v \in DOMAIN Natural(sites)
    BY DEF Natural
  <2>3. n[1] > 0 /\ n[1] < Ceiling
    BY <1>1, <1>4, <2>2 DEF Proper, Precision
  <2>4. Clipped(n) = n[1]
    BY <2>1, <2>3, GraphAssumption DEF Clipped
  <2>5. moments[v] = <<n[1], n[2]>>
    BY <1>2, <2>4 DEF Potential
  <2> QED BY <2>1, <2>5
<1> QED BY <1>1, <1>3, <1>4 DEF SkipsAreReported

\* What expectation propagation publishes of a graph is explained: the terms of
\* each mean sum to it exactly, whatever the labels and whichever banks sent
\* what, and through the adapter nothing was clipped and only the cavities
\* reported were skipped. For every graph, any sites a bank may answer and any
\* number of sweeps.
THEOREM PublishedMomentsAreExplained == SweepingSpec => []MomentsAreExplained
<1>1. SweepingInit => Sweeping
  BY DEF SweepingInit, Sweeping
<1>2. Sweeping /\ [SweepingNext]_sweepingVars => Sweeping'
  <2> SUFFICES ASSUME Sweeping, [SweepingNext]_sweepingVars PROVE Sweeping'
    OBVIOUS
  <2>1. ASSUME ep = "idle", NEW g \in Graphs, Ground(g) PROVE Sweeping'
    BY <2>1, GroundStep
  <2>2. CASE Sweep
    BY <2>2, SweepStep
  <2>3. CASE Publish
    BY <2>3, PublishStep
  <2>4. CASE UNCHANGED sweepingVars
    BY <2>4, SameMessages DEF sweepingVars, Sweeping
  <2> QED BY <2>1, <2>2, <2>3, <2>4 DEF SweepingNext
<1> QED BY <1>1, <1>2, SweptIsExplained, PTL DEF SweepingSpec

-----------------------------------------------------------------------------
(***************************************************************************)
(* Trees. Cutting a variable out of a model parts it from the table on     *)
(* whose side it was: by counting the ends of the edges.                   *)
(***************************************************************************)
\* A list of tables over the variables, and its edges.
TablesOK(T) ==
  /\ IsFiniteSet(DOMAIN T)
  /\ \A t \in DOMAIN T : T[t] \subseteq Keys /\ IsFiniteSet(T[t])

\* Tables that have a variable other than k in common.
Share(T, a, b, k) == \E x \in T[a] : x \in T[b] /\ x # k

\* What is in a set with a table is everything it shares another variable with.
ClosedBut(T, S, k) == \A a \in S : \A b \in DOMAIN T : Share(T, a, b, k) => b \in S

\* The tables that an edge of u speaks for to its variable k: u, and all that
\* is coupled with it otherwise.
Behind(T, u, k) ==
  {t \in DOMAIN T : \A S \in SUBSET DOMAIN T : u \in S /\ ClosedBut(T, S, k) => t \in S}

\* It is the least such set.
LEMMA BehindIs ==
  ASSUME NEW T, NEW u \in DOMAIN T, NEW k
  PROVE  /\ u \in Behind(T, u, k) /\ Behind(T, u, k) \subseteq DOMAIN T
         /\ ClosedBut(T, Behind(T, u, k), k)
         /\ \A S \in SUBSET DOMAIN T : u \in S /\ ClosedBut(T, S, k) => Behind(T, u, k) \subseteq S
BY DEF Behind, ClosedBut

\* What is not in a set that is closed is closed as well.
LEMMA RestIsClosed ==
  ASSUME NEW T, NEW S \in SUBSET DOMAIN T, NEW k, ClosedBut(T, S, k)
  PROVE  ClosedBut(T, (DOMAIN T) \ S, k)
BY DEF ClosedBut, Share

\* Two edges that speak for one table in common speak for each other's.
LEMMA BehindMeets ==
  ASSUME NEW T, NEW u \in DOMAIN T, NEW w \in DOMAIN T, NEW k, NEW t, t \in Behind(T, u, k), t \in Behind(T, w, k)
  PROVE  u \in Behind(T, w, k)
<1>1. /\ Behind(T, w, k) \subseteq DOMAIN T /\ ClosedBut(T, Behind(T, w, k), k)
      /\ \A S \in SUBSET DOMAIN T : u \in S /\ ClosedBut(T, S, k) => Behind(T, u, k) \subseteq S
  BY BehindIs
<1>2. PICK C : C = (DOMAIN T) \ Behind(T, w, k)
  OBVIOUS
<1>3. ClosedBut(T, C, k) /\ C \in SUBSET DOMAIN T /\ t \notin C
  BY <1>1, <1>2, RestIsClosed
<1> QED BY <1>1, <1>2, <1>3

\* Numbers of variables, and of those that are not k.
Sizes(T) == [t \in DOMAIN T |-> Cardinality(T[t])]
\* Those of the variables other than k.
SizesBut(T, k) == [t \in DOMAIN T |-> Cardinality(T[t] \ {k})]
\* The variables of the tables in S.
Variables(T, S) == UNION {T[t] : t \in S}

\* Tables over finitely many variables have finitely many.
LEMMA VariablesFinite ==
  ASSUME NEW T, TablesOK(T), NEW S \in SUBSET DOMAIN T
  PROVE  /\ IsFiniteSet(S) /\ IsFiniteSet(Variables(T, S))
         /\ \A k : IsFiniteSet(Variables(T, S) \ {k})
         /\ \A t \in DOMAIN T : \A k : IsFiniteSet(T[t] \ {k}) /\ Cardinality(T[t] \ {k}) \in Nat /\ Cardinality(T[t]) \in Nat
<1>1. IsFiniteSet(S)
  BY FS_Subset DEF TablesOK
<1>2. IsFiniteSet({T[t] : t \in S})
  <2> PICK h : h = [t \in S |-> T[t]]
    OBVIOUS
  <2>1. h \in Surjection(S, {T[t] : t \in S})
    BY DEF Surjection
  <2> QED BY <1>1, <2>1, FS_Surjection
<1>3. \A s \in {T[t] : t \in S} : IsFiniteSet(s)
  BY DEF TablesOK
<1>4. IsFiniteSet(Variables(T, S))
  BY <1>2, <1>3, FS_UNION DEF Variables
<1>5. \A k : IsFiniteSet(Variables(T, S) \ {k})
  BY <1>4, FS_Subset
<1>6. \A t \in DOMAIN T : IsFiniteSet(T[t])
  BY DEF TablesOK
<1>7. \A t \in DOMAIN T : \A k : IsFiniteSet(T[t] \ {k})
  BY <1>6, FS_Subset
<1> QED BY <1>1, <1>4, <1>5, <1>6, <1>7, FS_CardinalityType

\* Tables grown one at a time from one, along variables other than k, have at
\* least as many ends of edges as a tree has.
Grown(T, S, k) ==
  SumFunctionOnSet(SizesBut(T, k), S) >= Cardinality(S) + Cardinality(Variables(T, S) \ {k}) - 1

\* One table is grown.
LEMMA GrownFromOne ==
  ASSUME NEW T, TablesOK(T), NEW w \in DOMAIN T, NEW k
  PROVE  Grown(T, {w}, k)
<1>1. IsFiniteSet({w}) /\ Cardinality({w}) = 1 /\ Variables(T, {w}) = T[w] /\ {w} \ {w} = {}
  BY FS_Singleton DEF Variables
<1>2. Cardinality(T[w] \ {k}) \in Nat
  BY VariablesFinite
<1>3. Ints(SizesBut(T, k), {w}) /\ SizesBut(T, k)[w] = Cardinality(T[w] \ {k})
  BY <1>2 DEF Ints, SizesBut
<1>4. SumFunctionOnSet(SizesBut(T, k), {w}) = SizesBut(T, k)[w] + SumFunctionOnSet(SizesBut(T, k), {w} \ {w})
  BY <1>1, <1>3, SumWith
<1>5. SumFunctionOnSet(SizesBut(T, k), {w} \ {w}) = 0
  BY <1>1, SumEmpty
<1>6. PICK c : c = Cardinality(T[w] \ {k})
  OBVIOUS
<1>7. SumFunctionOnSet(SizesBut(T, k), {w}) = c /\ c \in Nat
  BY <1>2, <1>3, <1>4, <1>5, <1>6
<1>8. Cardinality(Variables(T, {w}) \ {k}) = c
  BY <1>1, <1>6
<1> QED BY <1>1, <1>7, <1>8 DEF Grown

\* It stays grown with a table that shares a variable with one of it.
LEMMA GrownByOne ==
  ASSUME NEW T, TablesOK(T), NEW S \in SUBSET DOMAIN T, NEW k, Grown(T, S, k),
         NEW a \in S, NEW b \in DOMAIN T, b \notin S, Share(T, a, b, k)
  PROVE  Grown(T, S \union {b}, k)
<1>1. PICK x \in T[a] : x \in T[b] /\ x # k
  BY DEF Share
<1>2. PICK V, W : V = Variables(T, S) \ {k} /\ W = T[b] \ {k}
  OBVIOUS
<1>3. x \in V /\ x \in W
  BY <1>1, <1>2 DEF Variables
<1>4. IsFiniteSet(V) /\ IsFiniteSet(W) /\ IsFiniteSet(S)
  BY <1>2, VariablesFinite
<1>5. Variables(T, S \union {b}) \ {k} = V \union W
  BY <1>2 DEF Variables
<1>6. /\ Cardinality(V \union W) = Cardinality(V) + Cardinality(W) - Cardinality(V \intersect W)
  BY <1>4, FS_Union
<1>7. Cardinality(V \intersect W) \in Nat /\ Cardinality(V \intersect W) # 0
  <2>1. IsFiniteSet(V \intersect W) /\ V \intersect W # {}
    BY <1>3, <1>4, FS_Subset
  <2> QED BY <2>1, FS_CardinalityType, FS_EmptySet
<1>8. Cardinality(S \union {b}) = Cardinality(S) + 1
  BY <1>4, FS_AddElement
<1>9. Cardinality(V) \in Nat /\ Cardinality(W) \in Nat /\ Cardinality(S) \in Nat
  BY <1>4, FS_CardinalityType
<1>10. Ints(SizesBut(T, k), S) /\ SizesBut(T, k)[b] = Cardinality(W) /\ SizesBut(T, k)[b] \in Int
  BY <1>2, <1>9, VariablesFinite DEF Ints, SizesBut
<1>11. SumFunctionOnSet(SizesBut(T, k), S \union {b}) = SizesBut(T, k)[b] + SumFunctionOnSet(SizesBut(T, k), S)
  BY <1>4, <1>10, SumAdds
<1>12. SumFunctionOnSet(SizesBut(T, k), S) \in Int
  BY <1>4, <1>10, SumType
<1>13. SumFunctionOnSet(SizesBut(T, k), S) >= Cardinality(S) + Cardinality(V) - 1
  BY <1>2 DEF Grown
<1>14. SumFunctionOnSet(SizesBut(T, k), S \union {b}) >= (Cardinality(S) + 1) + Cardinality(V \union W) - 1
  BY <1>6, <1>7, <1>9, <1>10, <1>11, <1>12, <1>13
<1> QED BY <1>5, <1>8, <1>14 DEF Grown

\* There is one with all that an edge speaks for.
LEMMA GrownOverBehind ==
  ASSUME NEW T, TablesOK(T), NEW w \in DOMAIN T, NEW k
  PROVE  \E S \in SUBSET DOMAIN T : w \in S /\ Behind(T, w, k) \subseteq S /\ Grown(T, S, k)
<1> DEFINE N == {n \in Nat : \E S \in SUBSET DOMAIN T : w \in S /\ Grown(T, S, k) /\ Cardinality((DOMAIN T) \ S) = n}
<1>0. \A S \in SUBSET DOMAIN T : Cardinality((DOMAIN T) \ S) \in Nat /\ IsFiniteSet((DOMAIN T) \ S)
  <2> SUFFICES ASSUME NEW S \in SUBSET DOMAIN T PROVE Cardinality((DOMAIN T) \ S) \in Nat /\ IsFiniteSet((DOMAIN T) \ S)
    OBVIOUS
  <2>1. IsFiniteSet((DOMAIN T) \ S)
    BY FS_Subset DEF TablesOK
  <2> QED BY <2>1, FS_CardinalityType
<1>1. N # {}
  <2>1. {w} \in SUBSET DOMAIN T /\ Grown(T, {w}, k)
    BY GrownFromOne
  <2> QED BY <1>0, <2>1
<1>2. PICK n \in N : \A m \in N : n <= m
  <2> HIDE DEF N
  <2>1. N \in SUBSET Nat
    BY DEF N
  <2> QED BY <1>1, <2>1, LeastNumber
<1>3. PICK S \in SUBSET DOMAIN T : w \in S /\ Grown(T, S, k) /\ Cardinality((DOMAIN T) \ S) = n
  OBVIOUS
<1>4. ClosedBut(T, S, k)
  <2> SUFFICES ASSUME NEW a \in S, NEW b \in DOMAIN T, Share(T, a, b, k), b \notin S PROVE FALSE
    BY DEF ClosedBut
  <2>1. PICK B : B = S \union {b}
    OBVIOUS
  <2>2. B \in SUBSET DOMAIN T /\ w \in B /\ Grown(T, B, k)
    BY <1>3, <2>1, GrownByOne
  <2>3. (DOMAIN T) \ B = ((DOMAIN T) \ S) \ {b} /\ b \in (DOMAIN T) \ S
    BY <2>1
  <2>4. Cardinality((DOMAIN T) \ B) = n - 1
    <3>1. PICK R : R = (DOMAIN T) \ S
      OBVIOUS
    <3>2. IsFiniteSet(R) /\ b \in R /\ Cardinality(R) = n
      BY <1>0, <1>3, <2>3, <3>1
    <3>3. Cardinality(R \ {b}) = Cardinality(R) - 1
      BY <3>2, FS_RemoveElement
    <3> QED BY <2>3, <3>1, <3>2, <3>3
  <2>5. Cardinality((DOMAIN T) \ B) \in N
    BY <1>0, <2>2
  <2>6. n \in Nat
    OBVIOUS
  <2> HIDE DEF N
  <2> QED BY <1>2, <2>4, <2>5, <2>6
<1>5. Behind(T, w, k) \subseteq S
  BY <1>3, <1>4, BehindIs
<1> QED BY <1>3, <1>5

\* A sum of numbers is one.
LEMMA SumNat ==
  ASSUME NEW S, IsFiniteSet(S), NEW w, \A x \in S : w[x] \in Nat
  PROVE  SumFunctionOnSet(w, S) \in Nat
<1> DEFINE P == {t \in SUBSET S : SumFunctionOnSet(w, t) \in Nat}
<1>1. {} \in P
  BY SumEmpty
<1>2. ASSUME NEW t \in SUBSET S, t # {} PROVE \E x \in t : t \ {x} \in P => t \in P
  <2>1. PICK x \in t : TRUE
    BY <1>2
  <2>2. IsFiniteSet(t) /\ Ints(w, t)
    BY FS_Subset DEF Ints
  <2>3. SumFunctionOnSet(w, t) = w[x] + SumFunctionOnSet(w, t \ {x})
    BY <2>1, <2>2, SumWith
  <2>4. t \ {x} \in P => t \in P
    BY <2>3
  <2> HIDE DEF P
  <2> QED BY <2>4
<1> HIDE DEF P
<1>3. \A t \in SUBSET S : t \in P
  BY <1>1, <1>2, Removing
<1>4. S \in P
  BY <1>3
<1> QED BY <1>4 DEF P

\* Without loops no two tables of one variable are coupled otherwise.
LEMMA TreeSeparates ==
  ASSUME NEW T, TablesOK(T), Tree(T), NEW u \in DOMAIN T, NEW w \in DOMAIN T, u # w,
         NEW k, k \in T[u], k \in T[w]
  PROVE  u \notin Behind(T, w, k)
<1> SUFFICES ASSUME u \in Behind(T, w, k) PROVE FALSE
  OBVIOUS
<1>1. PICK S \in SUBSET DOMAIN T : w \in S /\ Behind(T, w, k) \subseteq S /\ Grown(T, S, k)
  BY GrownOverBehind
<1>2. w \in S /\ u \in S /\ S # {}
  BY <1>1
<1>3. IsFiniteSet(S) /\ Cardinality(S) \in Nat
  BY VariablesFinite, FS_CardinalityType
<1>4. PICK h : h = [t \in DOMAIN T |-> IF k \in T[t] THEN 1 ELSE 0]
  OBVIOUS
<1>5. ASSUME NEW t \in S
      PROVE  /\ Sizes(T)[t] = SizesBut(T, k)[t] + h[t]
             /\ Sizes(T)[t] \in Int /\ SizesBut(T, k)[t] \in Int /\ h[t] \in Int
  <2>1. IsFiniteSet(T[t]) /\ Cardinality(T[t]) \in Nat /\ Cardinality(T[t] \ {k}) \in Nat
    BY VariablesFinite DEF TablesOK
  <2>2. Sizes(T)[t] = Cardinality(T[t]) /\ SizesBut(T, k)[t] = Cardinality(T[t] \ {k})
    BY DEF Sizes, SizesBut
  <2>3. CASE k \in T[t]
    <3>1. Cardinality(T[t] \ {k}) = Cardinality(T[t]) - 1
      BY <2>1, <2>3, FS_RemoveElement
    <3>2. h[t] = 1
      BY <1>4, <2>3
    <3> QED BY <2>1, <2>2, <3>1, <3>2
  <2>4. CASE k \notin T[t]
    <3>1. T[t] \ {k} = T[t]
      BY <2>4
    <3>2. h[t] = 0
      BY <1>4, <2>4
    <3> QED BY <2>1, <2>2, <3>1, <3>2
  <2> QED BY <2>3, <2>4
<1>6. SumFunctionOnSet(Sizes(T), S) = SumFunctionOnSet(SizesBut(T, k), S) + SumFunctionOnSet(h, S)
  BY <1>3, <1>5, SumOfSums DEF Ints
<1>7. SumFunctionOnSet(h, S) >= 2 /\ SumFunctionOnSet(h, S) \in Int
  <2>1. PICK A, B : A = S \ {u} /\ B = A \ {w}
    OBVIOUS
  <2>2. IsFiniteSet(A) /\ IsFiniteSet(B) /\ u \in S /\ w \in A /\ A \subseteq S /\ B \subseteq S
    BY <1>2, <1>3, <2>1, FS_Subset
  <2>3. Ints(h, S) /\ Ints(h, A) /\ h[u] = 1 /\ h[w] = 1 /\ \A t \in B : h[t] \in Nat
    BY <1>4, <1>5, <2>2 DEF Ints
  <2>4. SumFunctionOnSet(h, S) = h[u] + SumFunctionOnSet(h, A)
    BY <1>3, <2>1, <2>2, <2>3, SumWith
  <2>5. SumFunctionOnSet(h, A) = h[w] + SumFunctionOnSet(h, B)
    BY <2>1, <2>2, <2>3, SumWith
  <2>6. SumFunctionOnSet(h, B) \in Nat
    BY <2>2, <2>3, SumNat
  <2> QED BY <2>3, <2>4, <2>5, <2>6
<1>8. k \in Variables(T, S) /\ IsFiniteSet(Variables(T, S))
  BY <1>2, VariablesFinite DEF Variables
<1>9. Cardinality(Variables(T, S) \ {k}) = Cardinality(Variables(T, S)) - 1 /\ Cardinality(Variables(T, S)) \in Nat
  BY <1>8, FS_RemoveElement, FS_CardinalityType
<1>10. SumFunctionOnSet(SizesBut(T, k), S) \in Int
  BY <1>3, <1>5, SumType DEF Ints
<1>11. SumFunctionOnSet(SizesBut(T, k), S) >= Cardinality(S) + Cardinality(Variables(T, S) \ {k}) - 1
  BY <1>1 DEF Grown
<1>12. SumFunctionOnSet(Sizes(T), S) >= Cardinality(S) + Cardinality(Variables(T, S))
  BY <1>3, <1>6, <1>7, <1>9, <1>10, <1>11
<1>13. SumFunctionOnSet(Sizes(T), S) < Cardinality(S) + Cardinality(Variables(T, S))
  BY <1>2 DEF Tree, Sizes, Variables
<1>14. SumFunctionOnSet(Sizes(T), S) \in Int
  BY <1>3, <1>5, SumType DEF Ints
<1> QED BY <1>3, <1>9, <1>12, <1>13, <1>14

\* Two edges to a variable speak for different tables.
LEMMA BehindDiffers ==
  ASSUME NEW T, TablesOK(T), Tree(T), NEW u \in DOMAIN T, NEW w \in DOMAIN T, u # w,
         NEW k, k \in T[u], k \in T[w]
  PROVE  Behind(T, u, k) \intersect Behind(T, w, k) = {}
BY BehindMeets, TreeSeparates

-----------------------------------------------------------------------------
(***************************************************************************)
(* Message passing: what a message may tell of, and what a belief counts   *)
(***************************************************************************)
\* What an edge of w speaks for has no other variable of a table next to it.
LEMMA BehindKeepsOff ==
  ASSUME NEW T, TablesOK(T), Tree(T), NEW u \in DOMAIN T, NEW w \in DOMAIN T, u # w,
         NEW x, x \in T[u], x \in T[w], NEW t \in Behind(T, w, x), NEW y, y # x, y \in T[u]
  PROVE  y \notin T[t]
<1> SUFFICES ASSUME y \in T[t] PROVE FALSE
  OBVIOUS
<1>1. ClosedBut(T, Behind(T, w, x), x)
  BY BehindIs
<1>2. Share(T, t, u, x)
  BY DEF Share
<1>3. u \in Behind(T, w, x)
  BY <1>1, <1>2 DEF ClosedBut
<1> QED BY <1>3, TreeSeparates

\* An edge speaks for what the edges behind its table speak for, but these not for the table.
LEMMA BehindNests ==
  ASSUME NEW T, TablesOK(T), Tree(T), NEW u \in DOMAIN T, NEW w \in DOMAIN T, u # w,
         NEW x, x \in T[u], x \in T[w], NEW k, k \in T[u], k # x
  PROVE  Behind(T, w, x) \subseteq Behind(T, u, k) /\ u \notin Behind(T, w, x)
<1> PICK A, B : A = Behind(T, w, x) /\ B = Behind(T, u, k)
  OBVIOUS
<1>1. ClosedBut(T, A, x) /\ ClosedBut(T, B, k) /\ u \in B /\ w \in A /\ A \subseteq DOMAIN T
  BY BehindIs
<1>2. w \in B
  <2>1. Share(T, u, w, k)
    BY DEF Share
  <2> QED BY <1>1, <2>1 DEF ClosedBut
<1>3. ClosedBut(T, A \intersect B, x)
  <2> SUFFICES ASSUME NEW a \in A \intersect B, NEW b \in DOMAIN T, Share(T, a, b, x) PROVE b \in A \intersect B
    BY DEF ClosedBut
  <2>1. b \in A
    BY <1>1 DEF ClosedBut
  <2>2. PICK y \in T[a] : y \in T[b] /\ y # x
    BY DEF Share
  <2>3. k \notin T[a]
    BY BehindKeepsOff
  <2>4. Share(T, a, b, k)
    BY <2>2, <2>3 DEF Share
  <2>5. b \in B
    BY <1>1, <2>4 DEF ClosedBut
  <2> QED BY <2>1, <2>5
<1>4. A \subseteq A \intersect B
  <2>1. A \intersect B \in SUBSET DOMAIN T /\ w \in A \intersect B
    BY <1>1, <1>2
  <2> QED BY <1>3, <2>1, BehindIs
<1>5. u \notin A
  BY TreeSeparates
<1> QED BY <1>4, <1>5

\* The edges behind a table speak for different tables.
LEMMA BehindApart ==
  ASSUME NEW T, TablesOK(T), Tree(T), NEW u \in DOMAIN T,
         NEW w \in DOMAIN T, u # w, NEW x, x \in T[u], x \in T[w],
         NEW v \in DOMAIN T, u # v, NEW y, y \in T[u], y \in T[v],
         w # v \/ x # y
  PROVE  Behind(T, w, x) \intersect Behind(T, v, y) = {}
<1>1. CASE x = y
  BY <1>1, BehindDiffers
<1>2. CASE x # y
  <2> PICK A, B : A = Behind(T, w, x) /\ B = Behind(T, v, y)
    OBVIOUS
  <2>1. ClosedBut(T, A, x) /\ ClosedBut(T, B, y) /\ v \in B /\ A \subseteq DOMAIN T /\ B \subseteq DOMAIN T
    BY BehindIs
  <2>2. v \notin A
    BY <1>2, BehindKeepsOff
  <2>3. ClosedBut(T, B \ A, y)
    <3> SUFFICES ASSUME NEW a \in B \ A, NEW b \in DOMAIN T, Share(T, a, b, y) PROVE b \in B \ A
      BY DEF ClosedBut
    <3>1. b \in B
      BY <2>1 DEF ClosedBut
    <3>2. PICK z \in T[a] : z \in T[b] /\ z # y
      BY DEF Share
    <3>3. x \notin T[a]
      BY <1>2, BehindKeepsOff
    <3>4. Share(T, b, a, x)
      BY <3>2, <3>3 DEF Share
    <3>5. b \notin A
      BY <2>1, <3>4 DEF ClosedBut
    <3> QED BY <3>1, <3>5
  <2>4. B \subseteq B \ A
    <3>1. B \ A \in SUBSET DOMAIN T /\ v \in B \ A
      BY <2>1, <2>2
    <3> QED BY <2>3, <3>1, BehindIs
  <2> QED BY <2>4
<1> QED BY <1>1, <1>2

-----------------------------------------------------------------------------
\* A sum of nothings.
LEMMA SumOfNothing ==
  ASSUME NEW S, IsFiniteSet(S), NEW w, \A x \in S : w[x] = 0
  PROVE  SumFunctionOnSet(w, S) = 0
<1>1. PICK z, h : z = [x \in {} |-> 0] /\ h = [x \in {} |-> x]
  OBVIOUS
<1>2. Renames(h, {}, S, z, w) /\ Ints(w, S) /\ IsFiniteSet({})
  BY FS_EmptySet DEF Renames, Ints
<1>3. SumFunctionOnSet(z, {}) = SumFunctionOnSet(w, S)
  BY <1>2, SumRenamed
<1> QED BY <1>3, SumEmpty

\* A sum of one number, the others being nothing.
LEMMA SumOfOne ==
  ASSUME NEW S, IsFiniteSet(S), NEW w, NEW a \in S, w[a] \in Int, \A x \in S : x # a => w[x] = 0
  PROVE  SumFunctionOnSet(w, S) = w[a]
<1>1. Ints(w, S)
  BY DEF Ints
<1>2. SumFunctionOnSet(w, S) = w[a] + SumFunctionOnSet(w, S \ {a})
  BY <1>1, SumWith
<1>3. SumFunctionOnSet(w, S \ {a}) = 0
  <2>1. IsFiniteSet(S \ {a}) /\ \A x \in S \ {a} : w[x] = 0
    BY FS_Subset
  <2> QED BY <2>1, SumOfNothing
<1> QED BY <1>2, <1>3

\* Messages count a table up to Unit.
Counts(T) == [Edges(T) -> [DOMAIN T -> 0..Unit]]
\* They count none that they do not speak for.
Supported(T, m) ==
  /\ m \in Counts(T)
  /\ \A e \in Edges(T) : \A t \in DOMAIN T : m[e][t] # 0 => t \in Behind(T, e[1], e[2])

\* Models have tables.
LEMMA ModelTables ==
  ASSUME NEW T \in Models
  PROVE  TablesOK(T) /\ IsFiniteSet(Edges(T)) /\ Len(T) \in Nat /\ DOMAIN T = 1..Len(T)
<1>1. T \in Seq(SUBSET Keys) /\ IsFiniteSet(Keys)
  BY EliminationAssumption
<1>2. Len(T) \in Nat /\ DOMAIN T = 1..Len(T) /\ \A t \in DOMAIN T : T[t] \subseteq Keys
  BY <1>1, LenProperties
<1>3. IsFiniteSet(DOMAIN T)
  BY <1>2, FS_Interval
<1>4. \A t \in DOMAIN T : IsFiniteSet(T[t])
  BY <1>1, <1>2, FS_Subset
<1>5. IsFiniteSet((DOMAIN T) \X Keys) /\ Edges(T) \subseteq (DOMAIN T) \X Keys
  BY <1>1, <1>3, FS_Product DEF Edges
<1>6. IsFiniteSet(Edges(T))
  BY <1>5, FS_Subset
<1> QED BY <1>2, <1>3, <1>4, <1>6 DEF TablesOK

\* An edge is from a table to a variable of it.
LEMMA EdgeIs ==
  ASSUME NEW T
  PROVE  /\ \A e \in Edges(T) : e = <<e[1], e[2]>> /\ e[1] \in DOMAIN T /\ e[2] \in Keys /\ e[2] \in T[e[1]]
         /\ \A u \in DOMAIN T : \A k \in Keys : k \in T[u] => <<u, k>> \in Edges(T)
BY DEF Edges

\* The scale of the counts, and what is taken for no difference on it.
LEMMA UnitIs == Unit \in Nat /\ Unit > 0 /\ Tol \in Nat /\ Tol > 0 /\ Tol <= Unit
<1>1. Unit \in Int
  BY PassingAssumption, SMT DEF Unit
<1>2. Tol \in 1..Unit
  BY PassingAssumption
<1> QED BY <1>1, <1>2

\* A total at a table is a sum.
LEMMA TotalIs ==
  ASSUME NEW m, NEW E, NEW t \in DOMAIN target
  PROVE  Total(m, E)[t] = SumFunctionOnSet([e \in DOMAIN m |-> m[e][t]], E)
BY DEF Total

\* A belief counts a table as often as the one message to it that does.
LEMMA BeliefIs ==
  ASSUME target \in Models, Tree(target), NEW m, Supported(target, m), NEW k \in Keys, NEW t \in DOMAIN target
  PROVE  /\ \A e \in Edges(target) : e[2] = k /\ m[e][t] # 0 => Beliefs(m)[k][t] = m[e][t]
         /\ (\A e \in Edges(target) : e[2] = k => m[e][t] = 0) => Beliefs(m)[k][t] = 0
<1> PICK E, w : E = {e \in DOMAIN m : e[2] = k} /\ w = [e \in DOMAIN m |-> m[e][t]]
  OBVIOUS
<1>1. DOMAIN m = Edges(target) /\ E \subseteq Edges(target) /\ IsFiniteSet(E) /\ TablesOK(target)
  BY ModelTables, FS_Subset DEF Supported, Counts
<1>2. Beliefs(m)[k][t] = SumFunctionOnSet(w, E)
  BY TotalIs DEF Beliefs
<1>3. \A e \in Edges(target) : w[e] = m[e][t] /\ w[e] \in 0..Unit /\ (w[e] # 0 => t \in Behind(target, e[1], e[2]))
  BY <1>1 DEF Supported, Counts
<1>4. ASSUME NEW e \in Edges(target), e[2] = k, m[e][t] # 0 PROVE Beliefs(m)[k][t] = m[e][t]
  <2>1. e \in E /\ t \in Behind(target, e[1], k)
    BY <1>1, <1>3, <1>4
  <2>2. ASSUME NEW f \in E, f # e PROVE w[f] = 0
    <3>1. f[2] = k /\ f[1] # e[1] /\ f[1] \in DOMAIN target /\ e[1] \in DOMAIN target /\ k \in target[f[1]] /\ k \in target[e[1]]
      BY <1>1, <1>4, <2>2, EdgeIs
    <3>2. t \notin Behind(target, f[1], k)
      BY <1>1, <2>1, <3>1, BehindDiffers
    <3> QED BY <1>1, <1>3, <3>1, <3>2
  <2>3. w[e] \in Int
    BY <1>3
  <2>4. SumFunctionOnSet(w, E) = w[e]
    BY <1>1, <2>1, <2>2, <2>3, SumOfOne
  <2> QED BY <1>2, <1>3, <2>4
<1>5. ASSUME \A e \in Edges(target) : e[2] = k => m[e][t] = 0 PROVE Beliefs(m)[k][t] = 0
  <2>1. \A e \in E : w[e] = 0
    BY <1>1, <1>3, <1>5
  <2>2. SumFunctionOnSet(w, E) = 0
    BY <1>1, <2>1, SumOfNothing
  <2> QED BY <1>2, <2>2
<1> QED BY <1>4, <1>5

\* What a table hears of its variable is what the one other message to it
\* that counts the table does.
LEMMA HeardIs ==
  ASSUME target \in Models, Tree(target), NEW m, Supported(target, m), NEW f \in Edges(target),
         NEW t \in DOMAIN target, NEW h, h = Incoming(m, Beliefs(m))
  PROVE  /\ DOMAIN h = Edges(target)
         /\ \A e \in Edges(target) : e # f /\ e[2] = f[2] /\ m[e][t] # 0 => h[f][t] = m[e][t]
         /\ (\A e \in Edges(target) : e # f /\ e[2] = f[2] => m[e][t] = 0) => h[f][t] = 0
<1>1. DOMAIN m = Edges(target) /\ TablesOK(target)
  BY ModelTables DEF Supported, Counts
<1>2. h[f][t] = Beliefs(m)[f[2]][t] - m[f][t] /\ DOMAIN h = Edges(target)
  BY <1>1 DEF Incoming
<1>3. \A e \in Edges(target) : m[e][t] \in 0..Unit /\ (m[e][t] # 0 => t \in Behind(target, e[1], e[2]))
  BY DEF Supported, Counts
<1>4. /\ f[2] \in Keys
      /\ \A e \in Edges(target) : e[2] = f[2] /\ m[e][t] # 0 => Beliefs(m)[f[2]][t] = m[e][t]
      /\ (\A e \in Edges(target) : e[2] = f[2] => m[e][t] = 0) => Beliefs(m)[f[2]][t] = 0
  BY EdgeIs, BeliefIs
<1>5. ASSUME NEW e \in Edges(target), e # f, e[2] = f[2], m[e][t] # 0 PROVE h[f][t] = m[e][t]
  <2>1. /\ e[1] # f[1] /\ e[1] \in DOMAIN target /\ f[1] \in DOMAIN target
        /\ f[2] \in target[e[1]] /\ f[2] \in target[f[1]]
    BY <1>5, EdgeIs
  <2>2. Behind(target, e[1], f[2]) \intersect Behind(target, f[1], f[2]) = {}
    BY <1>1, <2>1, BehindDiffers
  <2>3. m[f][t] = 0
    BY <1>3, <1>5, <2>2
  <2> QED BY <1>2, <1>3, <1>4, <1>5, <2>3, UnitIs
<1>6. ASSUME \A e \in Edges(target) : e # f /\ e[2] = f[2] => m[e][t] = 0 PROVE h[f][t] = 0
  <2>1. CASE m[f][t] = 0
    <3>1. Beliefs(m)[f[2]][t] = 0
      BY <1>4, <1>6, <2>1
    <3> QED BY <1>2, <2>1, <3>1
  <2>2. CASE m[f][t] # 0
    <3>1. Beliefs(m)[f[2]][t] = m[f][t]
      BY <1>4, <2>2
    <3> QED BY <1>2, <1>3, <3>1, UnitIs
  <2> QED BY <2>1, <2>2
<1> QED BY <1>2, <1>5, <1>6

\* The edges whose messages a table passes on to a variable k of it.
NextTo(T, u, k, g) == g \in Edges(T) /\ g[1] # u /\ g[2] \in T[u] /\ g[2] # k

\* What a table tells a variable: itself once, and of each other table what the
\* one message behind it tells that does.
LEMMA NewIs ==
  ASSUME target \in Models, Tree(target), NEW m, Supported(target, m), NEW e \in Edges(target),
         NEW u, NEW k, e = <<u, k>>, NEW n, n = Outgoing(Incoming(m, Beliefs(m)))[e]
  PROVE  /\ DOMAIN n = DOMAIN target /\ n = [t \in DOMAIN target |-> n[t]]
         /\ n[u] = Unit
         /\ \A t \in (DOMAIN target) \ {u} :
              /\ \A g : NextTo(target, u, k, g) /\ m[g][t] # 0 => n[t] = m[g][t]
              /\ (\A g : NextTo(target, u, k, g) => m[g][t] = 0) => n[t] = 0
<1>1. PICK h, F : h = Incoming(m, Beliefs(m)) /\ F = {f \in DOMAIN h : f[1] = u /\ f[2] # k}
  OBVIOUS
<1>2. DOMAIN h = Edges(target) /\ TablesOK(target) /\ IsFiniteSet(Edges(target)) /\ u \in DOMAIN target /\ k \in target[u] /\ k \in Keys
  <2>1. DOMAIN h = Edges(target)
    BY <1>1 DEF Incoming, Supported, Counts
  <2> QED BY <2>1, ModelTables, EdgeIs
<1>3. IsFiniteSet(F) /\ \A f \in F : f \in Edges(target) /\ f[1] = u /\ f[2] # k /\ f[2] \in target[u]
  BY <1>1, <1>2, FS_Subset, EdgeIs
<1>4. n = [Total(h, F) EXCEPT ![u] = @ + Unit]
  <2>1. e[1] = u /\ e[2] = k
    OBVIOUS
  <2>2. {f \in DOMAIN h : f[1] = e[1] /\ f[2] # e[2]} = F
    BY <1>1, <2>1
  <2>3. n = [Total(h, {f \in DOMAIN h : f[1] = e[1] /\ f[2] # e[2]}) EXCEPT ![e[1]] = @ + Unit]
    BY <1>1, <1>2 DEF Outgoing
  <2> QED BY <2>1, <2>2, <2>3
<1>5. DOMAIN Total(h, F) = DOMAIN target
  BY DEF Total
<1>6. /\ n[u] = Total(h, F)[u] + Unit /\ DOMAIN n = DOMAIN target /\ n = [t \in DOMAIN target |-> n[t]]
      /\ \A t \in (DOMAIN target) \ {u} : n[t] = Total(h, F)[t]
  BY <1>2, <1>4, <1>5
<1>7. \A t \in DOMAIN target : Total(h, F)[t] = SumFunctionOnSet([f \in DOMAIN h |-> h[f][t]], F)
  BY TotalIs
<1>8. \A g \in Edges(target) : \A t \in DOMAIN target : m[g][t] \in 0..Unit /\ (m[g][t] # 0 => t \in Behind(target, g[1], g[2]))
  BY DEF Supported, Counts
<1>9. \A f \in F : \A t \in DOMAIN target :
         /\ \A g \in Edges(target) : g # f /\ g[2] = f[2] /\ m[g][t] # 0 => h[f][t] = m[g][t]
         /\ (\A g \in Edges(target) : g # f /\ g[2] = f[2] => m[g][t] = 0) => h[f][t] = 0
  BY <1>1, <1>3, HeardIs
<1>10. \A f \in F : \A g \in Edges(target) : g # f /\ g[2] = f[2] => NextTo(target, u, k, g)
  BY <1>3, EdgeIs DEF NextTo
<1>11. ASSUME NEW t \in DOMAIN target, NEW g, NextTo(target, u, k, g)
       PROVE  /\ g \in Edges(target) /\ g = <<g[1], g[2]>> /\ g[1] \in DOMAIN target /\ u # g[1]
              /\ g[2] \in target[g[1]] /\ g[2] \in target[u] /\ k # g[2]
              /\ <<u, g[2]>> \in F /\ g[2] \in Keys
  <2>1. /\ g \in Edges(target) /\ g = <<g[1], g[2]>> /\ g[1] \in DOMAIN target /\ u # g[1]
        /\ g[2] \in target[g[1]] /\ g[2] \in target[u] /\ k # g[2] /\ g[2] \in Keys
    BY <1>11, EdgeIs DEF NextTo
  <2>2. <<u, g[2]>> \in Edges(target)
    BY <1>2, <2>1, EdgeIs
  <2>3. <<u, g[2]>> \in F
    BY <1>1, <1>2, <2>1, <2>2
  <2> QED BY <2>1, <2>3
<1>12. n[u] = Unit
  <2>1. ASSUME NEW f \in F PROVE h[f][u] = 0
    <3>1. ASSUME NEW g \in Edges(target), g # f, g[2] = f[2] PROVE m[g][u] = 0
      <4>1. NextTo(target, u, k, g)
        BY <1>10, <3>1
      <4>2. u \notin Behind(target, g[1], g[2])
        <5>1. PICK w, x : w = g[1] /\ x = g[2]
          OBVIOUS
        <5>2. w \in DOMAIN target /\ u # w /\ x \in target[w] /\ x \in target[u] /\ k # x
          BY <1>2, <1>11, <4>1, <5>1
        <5>3. u \notin Behind(target, w, x)
          BY <1>2, <5>2, BehindNests
        <5> QED BY <5>1, <5>3
      <4> QED BY <1>2, <1>8, <4>2
    <3> QED BY <1>2, <1>9, <3>1
  <2>2. Total(h, F)[u] = 0
    <3>1. \A f \in F : [f_1 \in DOMAIN h |-> h[f_1][u]][f] = 0
      BY <1>1, <2>1
    <3>2. SumFunctionOnSet([f \in DOMAIN h |-> h[f][u]], F) = 0
      BY <1>3, <3>1, SumOfNothing
    <3> QED BY <1>2, <1>7, <3>2
  <2> QED BY <1>6, <2>2, UnitIs
<1>13. ASSUME NEW t \in (DOMAIN target) \ {u}, NEW g, NextTo(target, u, k, g), m[g][t] # 0
       PROVE  n[t] = m[g][t]
  <2>1. PICK a : a = <<u, g[2]>>
    OBVIOUS
  <2>2. a \in F /\ g \in Edges(target) /\ g # a /\ g[2] = a[2] /\ a[1] = u
    <3>1. a[1] = u /\ a[2] = g[2]
      BY <2>1
    <3> QED BY <1>11, <1>13, <2>1, <3>1
  <2>3. h[a][t] = m[g][t]
    BY <1>9, <1>13, <2>2
  <2>4. ASSUME NEW f \in F, f # a PROVE h[f][t] = 0
    <3>1. ASSUME NEW c \in Edges(target), c # f, c[2] = f[2] PROVE m[c][t] = 0
      <4>1. NextTo(target, u, k, c)
        BY <1>10, <3>1
      <4>2. f[2] # g[2]
        <5>1. f = <<f[1], f[2]>> /\ f[1] = u
          BY <1>3, EdgeIs
        <5> QED BY <2>1, <2>4, <5>1
      <4>3. Behind(target, c[1], c[2]) \intersect Behind(target, g[1], g[2]) = {}
        <5>1. PICK v, y, w, x : v = c[1] /\ y = c[2] /\ w = g[1] /\ x = g[2]
          OBVIOUS
        <5>2. v \in DOMAIN target /\ u # v /\ y \in target[v] /\ y \in target[u]
          BY <1>11, <4>1, <5>1
        <5>3. w \in DOMAIN target /\ u # w /\ x \in target[w] /\ x \in target[u]
          BY <1>11, <1>13, <5>1
        <5>4. y # x
          BY <3>1, <4>2, <5>1
        <5>5. Behind(target, v, y) \intersect Behind(target, w, x) = {}
          BY <1>2, <5>2, <5>3, <5>4, BehindApart
        <5> QED BY <5>1, <5>5
      <4>4. t \in Behind(target, g[1], g[2])
        BY <1>8, <1>13, <2>2
      <4> QED BY <1>8, <4>3, <4>4
    <3> QED BY <1>9, <3>1
  <2>5. PICK w : w = [f \in DOMAIN h |-> h[f][t]]
    OBVIOUS
  <2>6. w[a] = m[g][t] /\ w[a] \in Int /\ \A f \in F : f # a => w[f] = 0
    BY <1>2, <1>3, <1>8, <2>2, <2>3, <2>4, <2>5
  <2>7. SumFunctionOnSet(w, F) = w[a]
    BY <1>3, <2>2, <2>6, SumOfOne
  <2> QED BY <1>6, <1>7, <2>5, <2>6, <2>7
<1>14. ASSUME NEW t \in (DOMAIN target) \ {u}, \A g : NextTo(target, u, k, g) => m[g][t] = 0
       PROVE  n[t] = 0
  <2>1. \A f \in F : h[f][t] = 0
    BY <1>9, <1>10, <1>14
  <2>2. PICK w : w = [f \in DOMAIN h |-> h[f][t]]
    OBVIOUS
  <2>3. \A f \in F : w[f] = 0
    BY <1>2, <1>3, <2>1, <2>2
  <2>4. SumFunctionOnSet(w, F) = 0
    BY <1>3, <2>3, SumOfNothing
  <2> QED BY <1>6, <1>7, <2>2, <2>4
<1> QED BY <1>6, <1>12, <1>13, <1>14

-----------------------------------------------------------------------------
(***************************************************************************)
(* Message passing: one pass                                               *)
(***************************************************************************)
\* All messages after a pass over m.
Update(m) == [e \in DOMAIN m |-> Damped(m[e], Outgoing(Incoming(m, Beliefs(m)))[e])]

\* What is next to a table is behind it.
LEMMA NextToIsBehind ==
  ASSUME NEW T, TablesOK(T), Tree(T), NEW u \in DOMAIN T, NEW k, k \in T[u], NEW g, NextTo(T, u, k, g)
  PROVE  /\ g = <<g[1], g[2]>> /\ g \in Edges(T)
         /\ Behind(T, g[1], g[2]) \subseteq Behind(T, u, k) /\ u \notin Behind(T, g[1], g[2])
<1>1. PICK w, x : w = g[1] /\ x = g[2]
  OBVIOUS
<1>2. w \in DOMAIN T /\ u # w /\ x \in T[w] /\ x \in T[u] /\ k # x
  BY <1>1, EdgeIs DEF NextTo
<1>3. Behind(T, w, x) \subseteq Behind(T, u, k) /\ u \notin Behind(T, w, x)
  BY <1>2, BehindNests
<1> QED BY <1>1, <1>3, EdgeIs DEF NextTo

\* And whatever else is behind it is behind one of these.
LEMMA BehindSplits ==
  ASSUME NEW T, TablesOK(T), NEW u \in DOMAIN T, NEW k, NEW t \in Behind(T, u, k), t # u
  PROVE  \E g : NextTo(T, u, k, g) /\ t \in Behind(T, g[1], g[2])
<1>1. PICK S : S = {u} \union {a \in DOMAIN T : \E g : NextTo(T, u, k, g) /\ a \in Behind(T, g[1], g[2])}
  OBVIOUS
<1>2. ASSUME NEW b \in DOMAIN T, b # u, NEW y, y \in T[u], y \in T[b], y # k PROVE b \in S
  <2>1. PICK g : g = <<b, y>>
    OBVIOUS
  <2>2. g[1] = b /\ g[2] = y
    BY <2>1
  <2>3. y \in Keys
    BY <1>2 DEF TablesOK
  <2>4. NextTo(T, u, k, g)
    BY <1>2, <2>1, <2>2, <2>3, EdgeIs DEF NextTo
  <2>5. b \in Behind(T, b, y)
    BY BehindIs
  <2>6. b \in Behind(T, g[1], g[2])
    BY <2>2, <2>5
  <2> QED BY <1>1, <2>4, <2>6
<1>3. ClosedBut(T, S, k)
  <2> SUFFICES ASSUME NEW a \in S, NEW b \in DOMAIN T, Share(T, a, b, k), b # u PROVE b \in S
    BY <1>1 DEF ClosedBut
  <2>1. PICK y \in T[a] : y \in T[b] /\ y # k
    BY DEF Share
  <2>2. CASE a = u
    BY <1>2, <2>1, <2>2
  <2>3. CASE a # u
    <3>1. PICK g : NextTo(T, u, k, g) /\ a \in Behind(T, g[1], g[2])
      BY <1>1, <2>3
    <3>2. g[1] \in DOMAIN T /\ g[2] \in T[u] /\ g[2] # k
      BY <3>1, EdgeIs DEF NextTo
    <3>3. CASE y = g[2]
      BY <1>2, <2>1, <3>2, <3>3
    <3>4. CASE y # g[2]
      <4>1. Share(T, a, b, g[2])
        BY <2>1, <3>4 DEF Share
      <4>2. ClosedBut(T, Behind(T, g[1], g[2]), g[2])
        BY <3>2, BehindIs
      <4>3. b \in Behind(T, g[1], g[2])
        BY <3>1, <4>1, <4>2 DEF ClosedBut
      <4> QED BY <1>1, <3>1, <4>3
    <3> QED BY <3>3, <3>4
  <2> QED BY <2>2, <2>3
<1>4. S \in SUBSET DOMAIN T /\ u \in S
  BY <1>1
<1>5. t \in S
  BY <1>3, <1>4, BehindIs
<1> QED BY <1>1, <1>5

\* What is coupled with a variable is behind one of its edges.
LEMMA CoupledIs ==
  ASSUME NEW T, NEW k
  PROVE  /\ \A u \in DOMAIN T : k \in T[u] => Behind(T, u, k) \subseteq Coupled(T, k)
         /\ \A t \in Coupled(T, k) : \E u \in DOMAIN T : k \in T[u] /\ t \in Behind(T, u, k)
<1>1. ASSUME NEW u \in DOMAIN T, k \in T[u], NEW t \in Behind(T, u, k) PROVE t \in Coupled(T, k)
  <2>1. t \in DOMAIN T
    BY DEF Behind
  <2>2. ASSUME NEW S \in SUBSET DOMAIN T, \A v \in DOMAIN T : k \in T[v] => v \in S,
               \A v \in S, w \in DOMAIN T : T[v] \intersect T[w] # {} => w \in S
        PROVE  t \in S
    <3>1. u \in S
      BY <1>1, <2>2
    <3>2. ClosedBut(T, S, k)
      BY <2>2 DEF ClosedBut, Share
    <3> QED BY <3>1, <3>2 DEF Behind
  <2> QED BY <2>1, <2>2 DEF Coupled
<1>2. ASSUME NEW t \in Coupled(T, k) PROVE \E u \in DOMAIN T : k \in T[u] /\ t \in Behind(T, u, k)
  <2>1. PICK S : S = {a \in DOMAIN T : \E u \in DOMAIN T : k \in T[u] /\ a \in Behind(T, u, k)}
    OBVIOUS
  <2>2. \A v \in DOMAIN T : k \in T[v] => v \in S
    BY <2>1, BehindIs
  <2>3. ASSUME NEW v \in S, NEW w \in DOMAIN T, T[v] \intersect T[w] # {} PROVE w \in S
    <3>1. PICK y : y \in T[v] /\ y \in T[w]
      BY <2>3
    <3>2. CASE y = k
      BY <2>2, <3>1, <3>2
    <3>3. CASE y # k
      <4>1. PICK u \in DOMAIN T : k \in T[u] /\ v \in Behind(T, u, k)
        BY <2>1
      <4>2. Share(T, v, w, k)
        BY <3>1, <3>3 DEF Share
      <4>3. w \in Behind(T, u, k)
        BY <4>1, <4>2, BehindIs DEF ClosedBut
      <4> QED BY <2>1, <4>1, <4>3
    <3> QED BY <3>2, <3>3
  <2>4. S \in SUBSET DOMAIN T
    BY <2>1
  <2>5. t \in S
    BY <2>2, <2>3, <2>4 DEF Coupled
  <2> QED BY <2>1, <2>5
<1> QED BY <1>1, <1>2

-----------------------------------------------------------------------------
\* A pass keeps messages to what they speak for, damped or not.
LEMMA UpdateSupported ==
  ASSUME target \in Models, Tree(target), request.halves \in {0, 1}, NEW m, Supported(target, m)
  PROVE  Supported(target, Update(m))
<1>1. /\ DOMAIN m = Edges(target) /\ TablesOK(target)
      /\ \A e \in Edges(target) : \A t \in DOMAIN target : m[e][t] \in 0..Unit /\ (m[e][t] # 0 => t \in Behind(target, e[1], e[2]))
  BY ModelTables DEF Supported, Counts
<1>2. ASSUME NEW e \in Edges(target), NEW t \in DOMAIN target
      PROVE  Update(m)[e][t] \in 0..Unit /\ (Update(m)[e][t] # 0 => t \in Behind(target, e[1], e[2]))
  <2>1. PICK u, k, n : u = e[1] /\ k = e[2] /\ n = Outgoing(Incoming(m, Beliefs(m)))[e]
    OBVIOUS
  <2>2. e = <<u, k>> /\ u \in DOMAIN target /\ k \in target[u]
    BY <2>1, EdgeIs
  <2>3. /\ n[u] = Unit
        /\ \A s \in (DOMAIN target) \ {u} :
              /\ \A g : NextTo(target, u, k, g) /\ m[g][s] # 0 => n[s] = m[g][s]
              /\ (\A g : NextTo(target, u, k, g) => m[g][s] = 0) => n[s] = 0
    BY <2>1, <2>2, NewIs
  <2>4. n[t] \in 0..Unit /\ (n[t] # 0 => t \in Behind(target, u, k))
    <3>1. CASE t = u
      BY <2>2, <2>3, <3>1, UnitIs, BehindIs
    <3>2. CASE t # u /\ \E g : NextTo(target, u, k, g) /\ m[g][t] # 0
      <4>1. PICK g : NextTo(target, u, k, g) /\ m[g][t] # 0
        BY <3>2
      <4>2. n[t] = m[g][t]
        BY <2>3, <3>2, <4>1
      <4>3. g \in Edges(target) /\ Behind(target, g[1], g[2]) \subseteq Behind(target, u, k)
        BY <1>1, <2>2, <4>1, NextToIsBehind
      <4> QED BY <1>1, <4>1, <4>2, <4>3
    <3>3. CASE t # u /\ \A g : NextTo(target, u, k, g) => m[g][t] = 0
      BY <2>3, <3>3, UnitIs
    <3> QED BY <3>1, <3>2, <3>3
  <2>5. Update(m)[e][t] = (request.halves * m[e][t] + (2 - request.halves) * n[t]) \div 2
    BY <1>1, <2>1 DEF Update, Damped
  <2>6. PICK a, b : a = m[e][t] /\ b = n[t]
    OBVIOUS
  <2>7. a \in 0..Unit /\ b \in 0..Unit /\ (a # 0 \/ b # 0 => t \in Behind(target, u, k))
    BY <1>1, <2>1, <2>4, <2>6
  <2>8. CASE request.halves = 0
    <3>1. Update(m)[e][t] = (2 * b) \div 2
      BY <2>5, <2>6, <2>7, <2>8, UnitIs
    <3>2. (2 * b) \div 2 = b
      BY <2>7, UnitIs
    <3> QED BY <2>1, <2>7, <3>1, <3>2
  <2>9. CASE request.halves = 1
    <3>1. Update(m)[e][t] = (a + b) \div 2
      BY <2>5, <2>6, <2>7, <2>9, UnitIs
    <3>2. (a + b) \div 2 \in 0..Unit /\ ((a + b) \div 2 # 0 => a # 0 \/ b # 0)
      BY <2>7, UnitIs
    <3> QED BY <2>1, <2>7, <3>1, <3>2
  <2> QED BY <2>8, <2>9
<1>3. Update(m) \in Counts(target)
  <2>1. \A e \in Edges(target) : Update(m)[e] = [t \in DOMAIN target |-> Update(m)[e][t]]
    BY <1>1 DEF Update, Damped
  <2>2. \A e \in Edges(target) : Update(m)[e] \in [DOMAIN target -> 0..Unit]
    BY <1>2, <2>1
  <2>3. Update(m) = [e \in Edges(target) |-> Update(m)[e]]
    BY <1>1 DEF Update
  <2> QED BY <2>2, <2>3 DEF Counts
<1> QED BY <1>2, <1>3 DEF Supported

\* Without damping a pass replaces the messages.
LEMMA UpdateIs ==
  ASSUME target \in Models, Tree(target), request.halves = 0, NEW m, Supported(target, m), NEW e \in Edges(target),
         NEW u, NEW k, e = <<u, k>>
  PROVE  /\ Update(m)[e][u] = Unit
         /\ \A t \in (DOMAIN target) \ {u} :
              /\ \A g : NextTo(target, u, k, g) /\ m[g][t] # 0 => Update(m)[e][t] = m[g][t]
              /\ (\A g : NextTo(target, u, k, g) => m[g][t] = 0) => Update(m)[e][t] = 0
<1>1. PICK n : n = Outgoing(Incoming(m, Beliefs(m)))[e]
  OBVIOUS
<1>2. DOMAIN m = Edges(target) /\ u \in DOMAIN target
  BY EdgeIs DEF Supported, Counts
<1>3. \A t \in DOMAIN target : Update(m)[e][t] = (0 * m[e][t] + (2 - 0) * n[t]) \div 2 /\ m[e][t] \in 0..Unit
  BY <1>1, <1>2 DEF Update, Damped, Supported, Counts
<1>4. /\ n[u] = Unit
      /\ \A t \in (DOMAIN target) \ {u} :
              /\ \A g : NextTo(target, u, k, g) /\ m[g][t] # 0 => n[t] = m[g][t]
              /\ (\A g : NextTo(target, u, k, g) => m[g][t] = 0) => n[t] = 0
  BY <1>1, NewIs
<1>5. \A t \in DOMAIN target : n[t] \in Int
  <2> SUFFICES ASSUME NEW t \in DOMAIN target, t # u PROVE n[t] \in Int
    BY <1>4, UnitIs
  <2>1. CASE \E g : NextTo(target, u, k, g) /\ m[g][t] # 0
    <3>1. PICK g : NextTo(target, u, k, g) /\ m[g][t] # 0
      BY <2>1
    <3>2. m[g][t] \in 0..Unit
      BY <3>1 DEF NextTo, Supported, Counts
    <3> QED BY <1>4, <3>1, <3>2, UnitIs
  <2>2. CASE \A g : NextTo(target, u, k, g) => m[g][t] = 0
    BY <1>4, <2>2
  <2> QED BY <2>1, <2>2
<1>6. \A a \in 0..Unit, b \in Int : (0 * a + (2 - 0) * b) \div 2 = b
  BY UnitIs
<1>7. \A t \in DOMAIN target : Update(m)[e][t] = n[t]
  BY <1>3, <1>5, <1>6
<1> QED BY <1>2, <1>4, <1>7

\* Then every message counts a table once or not at all.
Whole(T, m) == \A e \in Edges(T) : \A t \in DOMAIN T : m[e][t] \in {0, Unit}

\* Without damping, messages that count a table or do not stay so.
LEMMA UpdateWhole ==
  ASSUME target \in Models, Tree(target), request.halves = 0, NEW m, Supported(target, m), Whole(target, m)
  PROVE  Whole(target, Update(m))
<1> SUFFICES ASSUME NEW e \in Edges(target), NEW t \in DOMAIN target PROVE Update(m)[e][t] \in {0, Unit}
  BY DEF Whole
<1>1. PICK u, k : u = e[1] /\ k = e[2] /\ e = <<u, k>>
  BY EdgeIs
<1>2. /\ Update(m)[e][u] = Unit
      /\ \A s \in (DOMAIN target) \ {u} :
              /\ \A g : NextTo(target, u, k, g) /\ m[g][s] # 0 => Update(m)[e][s] = m[g][s]
              /\ (\A g : NextTo(target, u, k, g) => m[g][s] = 0) => Update(m)[e][s] = 0
  BY <1>1, UpdateIs
<1>3. CASE t = u
  BY <1>2, <1>3
<1>4. CASE t # u
  <2>1. \A g : NextTo(target, u, k, g) => m[g][t] \in {0, Unit}
    BY DEF Whole, NextTo
  <2> QED BY <1>2, <1>4, <2>1
<1> QED BY <1>3, <1>4

\* A table that messages speak for is told by the same edge in both, if beliefs agree.
LEMMA BeliefsTell ==
  ASSUME target \in Models, Tree(target), NEW m, Supported(target, m), NEW o, Supported(target, o),
         NEW e \in Edges(target), NEW t \in DOMAIN target, m[e][t] # 0,
         Beliefs(m)[e[2]][t] = Beliefs(o)[e[2]][t]
  PROVE  o[e][t] = m[e][t]
<1>1. PICK u, k : u = e[1] /\ k = e[2] /\ e = <<u, k>> /\ u \in DOMAIN target /\ k \in Keys /\ k \in target[u]
  BY EdgeIs
<1>2. Beliefs(m)[k][t] = m[e][t] /\ t \in Behind(target, u, k)
  BY <1>1, BeliefIs DEF Supported
<1>3. PICK f \in Edges(target) : f[2] = k /\ o[f][t] # 0
  <2>1. Beliefs(o)[k][t] # 0
    BY <1>1, <1>2
  <2> QED BY <1>1, <2>1, BeliefIs
<1>4. t \in Behind(target, f[1], k) /\ f = <<f[1], k>> /\ f[1] \in DOMAIN target /\ k \in target[f[1]]
  BY <1>3, EdgeIs DEF Supported
<1>5. f[1] = u
  BY <1>1, <1>2, <1>4, ModelTables, BehindDiffers
<1>6. Beliefs(o)[k][t] = o[f][t]
  BY <1>1, <1>3, BeliefIs
<1> QED BY <1>1, <1>2, <1>4, <1>5, <1>6

\* So beliefs that agree are of the same messages.
SameBeliefs(m, o) == \A k \in Keys : \A t \in DOMAIN target : Beliefs(m)[k][t] = Beliefs(o)[k][t]

\* Messages that make the same beliefs are the same: of the messages to a variable
\* one at most counts a table.
LEMMA BeliefsDecide ==
  ASSUME target \in Models, Tree(target), NEW m, Supported(target, m), NEW o, Supported(target, o), SameBeliefs(m, o)
  PROVE  m = o
<1>1. ASSUME NEW e \in Edges(target), NEW t \in DOMAIN target PROVE m[e][t] = o[e][t]
  <2>1. Beliefs(m)[e[2]][t] = Beliefs(o)[e[2]][t]
    BY EdgeIs DEF SameBeliefs
  <2>2. m[e][t] # 0 => o[e][t] = m[e][t]
    BY <2>1, BeliefsTell
  <2>3. o[e][t] # 0 => m[e][t] = o[e][t]
    BY <2>1, BeliefsTell
  <2> QED BY <2>2, <2>3
<1>2. m \in Counts(target) /\ o \in Counts(target)
  BY DEF Supported
<1>3. \A e \in Edges(target) : m[e] = o[e]
  <2> SUFFICES ASSUME NEW e \in Edges(target) PROVE m[e] = o[e]
    OBVIOUS
  <2>1. m[e] \in [DOMAIN target -> 0..Unit] /\ o[e] \in [DOMAIN target -> 0..Unit]
    BY <1>2 DEF Counts
  <2> QED BY <1>1, <2>1
<1> QED BY <1>2, <1>3 DEF Counts

\* Beliefs are of whole counts, so that they agree unless they are apart.
LEMMA ApartDecides ==
  ASSUME target \in Models, Tree(target), NEW m, Supported(target, m), Whole(target, m),
         NEW o, Supported(target, o), Whole(target, o)
  PROVE  Apart(Beliefs(m), Beliefs(o)) <=> ~ SameBeliefs(m, o)
<1>1. ASSUME NEW c, Supported(target, c), Whole(target, c), NEW k \in Keys, NEW t \in DOMAIN target
      PROVE  Beliefs(c)[k][t] \in {0, Unit}
  <2>1. CASE \E e \in Edges(target) : e[2] = k /\ c[e][t] # 0
    <3>1. PICK e \in Edges(target) : e[2] = k /\ c[e][t] # 0
      BY <2>1
    <3>2. Beliefs(c)[k][t] = c[e][t]
      BY <1>1, <3>1, BeliefIs
    <3> QED BY <1>1, <3>2 DEF Whole
  <2>2. CASE \A e \in Edges(target) : e[2] = k => c[e][t] = 0
    BY <1>1, <2>2, BeliefIs
  <2> QED BY <2>1, <2>2
<1>2. \A x, y \in {0, Unit} : (x - y >= Tol \/ y - x >= Tol) <=> x # y
  BY UnitIs
<1>3. \A k \in Keys : \A t \in DOMAIN target :
        (Beliefs(m)[k][t] - Beliefs(o)[k][t] >= Tol \/ Beliefs(o)[k][t] - Beliefs(m)[k][t] >= Tol)
          <=> Beliefs(m)[k][t] # Beliefs(o)[k][t]
  BY <1>1, <1>2
<1> QED BY <1>3 DEF Apart, SameBeliefs

-----------------------------------------------------------------------------
(***************************************************************************)
(* Message passing: a state that passes unchanged, and how it is reached   *)
(***************************************************************************)
\* How many tables an edge speaks for.
Reach(T, e) == Cardinality(Behind(T, e[1], e[2]))

\* It is a number of tables, at least one.
LEMMA ReachType ==
  ASSUME NEW T, TablesOK(T), NEW e \in Edges(T)
  PROVE  Reach(T, e) \in Nat /\ Reach(T, e) > 0 /\ Reach(T, e) <= Cardinality(DOMAIN T)
<1>1. PICK B : B = Behind(T, e[1], e[2])
  OBVIOUS
<1>2. e[1] \in B /\ B \in SUBSET DOMAIN T
  BY <1>1, EdgeIs, BehindIs
<1>3. IsFiniteSet(DOMAIN T)
  BY DEF TablesOK
<1>4. IsFiniteSet(B) /\ Cardinality(B) <= Cardinality(DOMAIN T) /\ B # {}
  BY <1>2, <1>3, FS_Subset
<1>5. Cardinality(B) \in Nat /\ Cardinality(B) # 0
  BY <1>4, FS_CardinalityType, FS_EmptySet
<1> QED BY <1>1, <1>4, <1>5 DEF Reach

\* The edges behind an edge speak for fewer.
LEMMA ReachGrows ==
  ASSUME NEW T, TablesOK(T), Tree(T), NEW u \in DOMAIN T, NEW k \in Keys, k \in T[u], NEW g, NextTo(T, u, k, g)
  PROVE  Reach(T, g) < Reach(T, <<u, k>>)
<1>1. PICK A, B : A = Behind(T, g[1], g[2]) /\ B = Behind(T, u, k)
  OBVIOUS
<1>2. A \subseteq B /\ u \notin A /\ u \in B /\ B \in SUBSET DOMAIN T
  BY <1>1, NextToIsBehind, BehindIs
<1>3. IsFiniteSet(B)
  BY <1>2, FS_Subset DEF TablesOK
<1>4. Cardinality(A) <= Cardinality(B) /\ (Cardinality(A) = Cardinality(B) => A = B) /\ IsFiniteSet(A)
  BY <1>2, <1>3, FS_Subset
<1>5. Cardinality(A) \in Nat /\ Cardinality(B) \in Nat
  BY <1>3, <1>4, FS_CardinalityType
<1>6. Cardinality(A) < Cardinality(B)
  BY <1>2, <1>4, <1>5
<1> QED BY <1>1, <1>6 DEF Reach

\* Messages that a pass does not change count all that they speak for.
LEMMA FixpointCountsAll ==
  ASSUME target \in Models, Tree(target), request.halves = 0, NEW m, Supported(target, m), m = Update(m)
  PROVE  \A e \in Edges(target) : \A t \in Behind(target, e[1], e[2]) : m[e][t] = Unit
<1> DEFINE All(e) == \A t \in Behind(target, e[1], e[2]) : m[e][t] = Unit
           N == {n \in Nat : \E e \in Edges(target) : ~ All(e) /\ Reach(target, e) = n}
<1>0. TablesOK(target)
  BY ModelTables
<1> SUFFICES ASSUME N # {} PROVE FALSE
  <2>1. \A e \in Edges(target) : Reach(target, e) \in Nat
    BY <1>0, ReachType
  <2> QED BY <2>1
<1>1. PICK n \in N : \A l \in N : n <= l
  <2>1. N \in SUBSET Nat
    OBVIOUS
  <2> HIDE DEF N
  <2> QED BY <2>1, LeastNumber
<1>2. PICK e \in Edges(target) : ~ All(e) /\ Reach(target, e) = n
  OBVIOUS
<1>3. PICK u, k : u = e[1] /\ k = e[2] /\ e = <<u, k>> /\ u \in DOMAIN target /\ k \in Keys /\ k \in target[u]
  BY EdgeIs
<1>4. PICK t \in Behind(target, u, k) : m[e][t] # Unit
  BY <1>2, <1>3
<1>5. t \in DOMAIN target
  BY DEF Behind
<1>6. /\ m[e][u] = Unit
      /\ \A g : t # u /\ NextTo(target, u, k, g) /\ m[g][t] # 0 => m[e][t] = m[g][t]
  BY <1>3, <1>5, UpdateIs
<1>7. PICK g : NextTo(target, u, k, g) /\ t \in Behind(target, g[1], g[2])
  BY <1>0, <1>3, <1>4, <1>6, BehindSplits
<1>8. g \in Edges(target) /\ Reach(target, g) < Reach(target, e) /\ Reach(target, g) \in Nat
  BY <1>0, <1>3, <1>7, ReachGrows, ReachType DEF NextTo
<1>9. All(g)
  <2> SUFFICES ASSUME ~ All(g) PROVE FALSE
    OBVIOUS
  <2>1. Reach(target, g) \in N
    BY <1>8
  <2>2. n <= Reach(target, g)
    BY <1>1, <2>1
  <2>3. n \in Nat
    OBVIOUS
  <2> HIDE DEF N, All
  <2> QED BY <1>2, <1>8, <2>2, <2>3
<1>10. m[g][t] = Unit
  BY <1>7, <1>9
<1> QED BY <1>4, <1>6, <1>7, <1>10, UnitIs

\* Then each belief counts all that is coupled with its variable.
LEMMA FixpointIsExact ==
  ASSUME target \in Models, Tree(target), request.halves = 0, NEW m, Supported(target, m), m = Update(m),
         NEW k \in Keys, NEW t \in DOMAIN target
  PROVE  Beliefs(m)[k][t] = IF t \in Coupled(target, k) THEN Unit ELSE 0
<1>1. CASE t \in Coupled(target, k)
  <2>1. PICK u \in DOMAIN target : k \in target[u] /\ t \in Behind(target, u, k)
    BY <1>1, CoupledIs
  <2>2. PICK e : e = <<u, k>>
    OBVIOUS
  <2>3. e \in Edges(target) /\ e[1] = u /\ e[2] = k
    BY <2>1, <2>2, EdgeIs
  <2>4. m[e][t] = Unit
    BY <2>1, <2>3, FixpointCountsAll
  <2>5. Beliefs(m)[k][t] = m[e][t]
    BY <2>3, <2>4, BeliefIs, UnitIs
  <2> QED BY <1>1, <2>4, <2>5
<1>2. CASE t \notin Coupled(target, k)
  <2>1. ASSUME NEW e \in Edges(target), e[2] = k PROVE m[e][t] = 0
    <3>1. e[1] \in DOMAIN target /\ k \in target[e[1]]
      BY <2>1, EdgeIs
    <3>2. t \notin Behind(target, e[1], k)
      BY <1>2, <3>1, CoupledIs
    <3> QED BY <2>1, <3>2 DEF Supported
  <2> QED BY <1>2, <2>1, BeliefIs
<1> QED BY <1>1, <1>2

\* A belief counts up to Unit, and what is not coupled with its variable not.
LEMMA BeliefCounts ==
  ASSUME target \in Models, Tree(target), NEW m, Supported(target, m), NEW k \in Keys, NEW t \in DOMAIN target
  PROVE  Beliefs(m)[k][t] \in 0..(IF t \in Coupled(target, k) THEN Unit ELSE 0)
<1>1. CASE \E e \in Edges(target) : e[2] = k /\ m[e][t] # 0
  <2>1. PICK e \in Edges(target) : e[2] = k /\ m[e][t] # 0
    BY <1>1
  <2>2. Beliefs(m)[k][t] = m[e][t] /\ m[e][t] \in 0..Unit /\ t \in Behind(target, e[1], k)
    BY <2>1, BeliefIs DEF Supported, Counts
  <2>3. t \in Coupled(target, k)
    BY <2>1, <2>2, CoupledIs, EdgeIs
  <2> QED BY <2>2, <2>3
<1>2. CASE \A e \in Edges(target) : e[2] = k => m[e][t] = 0
  <2>1. Beliefs(m)[k][t] = 0
    BY <1>2, BeliefIs
  <2> QED BY <2>1, UnitIs
<1> QED BY <1>1, <1>2

\* What a pass changes was changed nearer by the one before it: after so many
\* passes only edges that speak for as many tables change.
Deep(T, m, o, n) == \A e \in Edges(T) : m[e] # o[e] => Reach(T, e) >= n

\* A pass after which only messages that speak for n tables differ is followed by one
\* after which only messages that speak for one more do.
LEMMA ChangesAreDeep ==
  ASSUME target \in Models, Tree(target), request.halves = 0, NEW n \in Nat, NEW m, Supported(target, m),
         NEW o, Supported(target, o), Deep(target, m, o, n)
  PROVE  Deep(target, Update(m), Update(o), n + 1)
<1>0. TablesOK(target) /\ Supported(target, Update(m)) /\ Supported(target, Update(o))
  BY ModelTables, UpdateSupported
<1> SUFFICES ASSUME NEW e \in Edges(target), Update(m)[e] # Update(o)[e] PROVE Reach(target, e) >= n + 1
  BY DEF Deep
<1>1. PICK t \in DOMAIN target : Update(m)[e][t] # Update(o)[e][t]
  <2>1. Update(m)[e] \in [DOMAIN target -> 0..Unit] /\ Update(o)[e] \in [DOMAIN target -> 0..Unit]
    BY <1>0 DEF Supported, Counts
  <2> QED BY <2>1
<1>2. PICK u, k : u = e[1] /\ k = e[2] /\ e = <<u, k>> /\ u \in DOMAIN target /\ k \in Keys /\ k \in target[u]
  BY EdgeIs
<1>3. \A c \in {m, o} :
        /\ Update(c)[e][u] = Unit
        /\ \A s \in (DOMAIN target) \ {u} :
              /\ \A g : NextTo(target, u, k, g) /\ c[g][s] # 0 => Update(c)[e][s] = c[g][s]
              /\ (\A g : NextTo(target, u, k, g) => c[g][s] = 0) => Update(c)[e][s] = 0
  BY <1>2, UpdateIs
<1>4. t # u
  BY <1>1, <1>3
<1>5. PICK g : NextTo(target, u, k, g) /\ m[g][t] # o[g][t]
  <2> SUFFICES ASSUME \A g : NextTo(target, u, k, g) => m[g][t] = o[g][t] PROVE FALSE
    OBVIOUS
  <2>1. CASE \E g : NextTo(target, u, k, g) /\ m[g][t] # 0
    <3>1. PICK g : NextTo(target, u, k, g) /\ m[g][t] # 0
      BY <2>1
    <3>2. Update(m)[e][t] = m[g][t] /\ Update(o)[e][t] = o[g][t]
      BY <1>3, <1>4, <3>1
    <3> QED BY <1>1, <3>1, <3>2
  <2>2. CASE \A g : NextTo(target, u, k, g) => m[g][t] = 0
    BY <1>1, <1>3, <1>4, <2>2
  <2> QED BY <2>1, <2>2
<1>6. g \in Edges(target) /\ m[g] # o[g]
  BY <1>5 DEF NextTo
<1>7. Reach(target, g) >= n
  BY <1>6 DEF Deep
<1>8. Reach(target, g) < Reach(target, e) /\ Reach(target, g) \in Nat /\ Reach(target, e) \in Nat
  BY <1>0, <1>2, <1>5, <1>6, ReachGrows, ReachType
<1> QED BY <1>7, <1>8

\* No edge speaks for more tables than there are.
LEMMA DeepEnds ==
  ASSUME target \in Models, NEW m, Supported(target, m), NEW o, Supported(target, o), m # o,
         NEW n \in Nat, Deep(target, m, o, n)
  PROVE  n <= Len(target)
<1>1. PICK e \in Edges(target) : m[e] # o[e]
  <2>1. m \in Counts(target) /\ o \in Counts(target)
    BY DEF Supported
  <2> QED BY <2>1 DEF Counts
<1>2. TablesOK(target) /\ Len(target) \in Nat /\ DOMAIN target = 1..Len(target)
  BY ModelTables
<1>3. Cardinality(DOMAIN target) = Len(target)
  <2>1. PICK l : l = Len(target)
    OBVIOUS
  <2>2. l \in Nat /\ DOMAIN target = 1..l
    BY <1>2, <2>1
  <2>3. Cardinality(1..l) = IF 1 > l THEN 0 ELSE l - 1 + 1
    BY <2>2, FS_Interval
  <2>4. Cardinality(1..l) = l
    BY <2>2, <2>3
  <2> QED BY <2>1, <2>2, <2>4
<1>4. Reach(target, e) \in Nat /\ Reach(target, e) <= Len(target)
  BY <1>2, <1>3, ReachType
<1>5. Reach(target, e) >= n
  BY <1>1 DEF Deep
<1> QED BY <1>2, <1>4, <1>5

-----------------------------------------------------------------------------
\* A run has a model and a request of those given; what is not begun has made no pass.
Admitted ==
  /\ bp \in {"idle", "admitted", "passing", "done", "refused"}
  /\ bp # "idle" => target \in Models /\ request \in Requests
  /\ bp \in {"idle", "admitted"} => passes = 0 /\ ~ moved
  /\ bp \in {"passing", "done"} => passes \in Nat

\* Without loops messages and beliefs count only what they speak for, and that once.
OnceCounted ==
  bp \in {"passing", "done"} /\ Tree(target) =>
    /\ Supported(target, messages)
    /\ \A k \in Keys : \A t \in DOMAIN target :
         beliefs[k][t] \in 0..(IF t \in Coupled(target, k) THEN Unit ELSE 0)

\* The messages of a pass are those before it, passed on.
Follows(o) ==
  /\ Supported(target, o) /\ Whole(target, o)
  /\ messages = Update(o)
  /\ bp = "passing" => beliefs = Beliefs(o)
  /\ Deep(target, messages, o, passes)

\* Without damping either, a pass that moved nothing was the last to change a
\* message, and one that moved something has not been preceded by more than there
\* are tables.
Passing ==
  bp \in {"passing", "done"} /\ Tree(target) /\ request.halves = 0 =>
    /\ Whole(target, messages)
    /\ passes > 0 => \E o : Follows(o)
    /\ passes > 1 /\ ~ moved => messages = Update(messages)
    /\ passes > 1 /\ moved => passes <= Len(target) + 1
    /\ bp = "done" => beliefs = Beliefs(messages) /\ converged = Settled /\ (Settled \/ passes = MaxIter)

\* The inductive invariant of message passing.
PassInv == Admitted /\ OnceCounted /\ Passing

\* A request damps by half or not at all.
LEMMA RequestHalves ==
  ASSUME NEW r \in Requests PROVE r.halves \in {0, 1}
BY PassingAssumption

\* A model that is assessed is one of those given.
LEMMA AssessStep ==
  ASSUME PassInv, bp = "idle", NEW model \in Models, NEW r \in Requests, Assess(model, r)
  PROVE  PassInv'
BY DEF PassInv, Admitted, OnceCounted, Passing, Assess

\* At first every message is empty, and so is every belief.
LEMMA BeginStep ==
  ASSUME PassInv, Begin
  PROVE  PassInv'
<1>1. /\ bp = "admitted" /\ target' = target /\ request' = request /\ passes' = passes /\ moved' = moved
      /\ passes = 0 /\ ~ moved /\ target \in Models /\ request \in Requests
  BY DEF Begin, PassInv, Admitted
<1>2. CASE ~ request.positive
  BY <1>1, <1>2 DEF Begin, PassInv, Admitted, OnceCounted, Passing
<1>3. CASE request.positive
  <2>1. bp' = "passing" /\ messages' = [e \in Edges(target) |-> Nothing] /\ beliefs' = [k \in Keys |-> Nothing]
    BY <1>3 DEF Begin
  <2>2. Admitted'
    BY <1>1, <2>1 DEF Admitted
  <2>3. PICK m : m = messages'
    OBVIOUS
  <2>4. \A e \in Edges(target) : m[e] = Nothing
    BY <2>1, <2>3
  <2>5. \A e \in Edges(target) : \A t \in DOMAIN target : m[e][t] = 0
    BY <2>4 DEF Nothing
  <2>6. Supported(target, m) /\ Whole(target, m)
    <3>1. Nothing \in [DOMAIN target -> 0..Unit]
      BY UnitIs DEF Nothing
    <3>2. m \in Counts(target)
      BY <2>1, <2>3, <3>1 DEF Counts
    <3> QED BY <2>5, <3>2 DEF Supported, Whole
  <2>7. \A k \in Keys : \A t \in DOMAIN target : beliefs'[k][t] = 0
    BY <2>1 DEF Nothing
  <2>8. OnceCounted'
    <3>1. \A k \in Keys : \A t \in DOMAIN target : beliefs'[k][t] \in 0..(IF t \in Coupled(target, k) THEN Unit ELSE 0)
      BY <2>7, UnitIs
    <3> QED BY <1>1, <2>3, <2>6, <3>1 DEF OnceCounted
  <2>9. Passing'
    BY <1>1, <2>1, <2>3, <2>6 DEF Passing
  <2> QED BY <2>2, <2>8, <2>9 DEF PassInv
<1> QED BY <1>2, <1>3

\* What messages amount to is the same for the same model and request.
LEMMA SameModel ==
  ASSUME target' = target, request' = request
  PROVE  \A m : Update(m)' = Update(m) /\ Beliefs(m)' = Beliefs(m)
<1>1. \A m, E : Total(m, E)' = Total(m, E)
  BY DEF Total
<1>2. \A m : Beliefs(m)' = Beliefs(m)
  BY <1>1 DEF Beliefs
<1>3. \A m, b : Incoming(m, b)' = Incoming(m, b)
  BY DEF Incoming
<1>4. \A h : Outgoing(h)' = Outgoing(h)
  BY <1>1 DEF Outgoing
<1>5. \A a, b : Damped(a, b)' = Damped(a, b)
  BY DEF Damped
<1>6. ASSUME NEW m PROVE Update(m)' = Update(m)
  BY <1>2, <1>3, <1>4, <1>5 DEF Update
<1> QED BY <1>2, <1>6

\* A pass.
LEMMA PassStep ==
  ASSUME PassInv, Pass
  PROVE  PassInv'
<1>1. /\ bp = "passing" /\ bp' = bp /\ target' = target /\ request' = request
      /\ passes \in Nat /\ passes' = passes + 1 /\ target \in Models /\ request \in Requests
      /\ ~ Settled /\ passes # MaxIter
  BY DEF Pass, PassInv, Admitted, Passed
<1>2. PICK m, n, b : m = messages /\ n = messages' /\ b = beliefs'
  OBVIOUS
<1>3. n = Update(m) /\ b = Beliefs(m) /\ moved' = Apart(Beliefs(m), beliefs)
  BY <1>2 DEF Pass, Update
<1>4. Admitted'
  BY <1>1 DEF Admitted
<1>5. request.halves \in {0, 1}
  BY <1>1, RequestHalves
<1>6. ASSUME Tree(target) PROVE Supported(target, m) /\ Supported(target, n)
  <2>1. Supported(target, m)
    BY <1>1, <1>2, <1>6 DEF PassInv, OnceCounted
  <2> QED BY <1>1, <1>3, <1>5, <1>6, <2>1, UpdateSupported
<1>7. OnceCounted'
  <2> SUFFICES ASSUME Tree(target)
               PROVE  /\ Supported(target, n)
                      /\ \A k \in Keys : \A t \in DOMAIN target : b[k][t] \in 0..(IF t \in Coupled(target, k) THEN Unit ELSE 0)
    BY <1>1, <1>2 DEF OnceCounted
  <2>1. \A k \in Keys : \A t \in DOMAIN target : Beliefs(m)[k][t] \in 0..(IF t \in Coupled(target, k) THEN Unit ELSE 0)
    BY <1>1, <1>6, BeliefCounts
  <2> QED BY <1>3, <1>6, <2>1
<1>8. \A c : Update(c)' = Update(c) /\ Beliefs(c)' = Beliefs(c)
  BY <1>1, SameModel
<1>9. Passing'
  <2> SUFFICES ASSUME Tree(target), request.halves = 0 PROVE Passing'
    BY <1>1 DEF Passing
  <2>1. Supported(target, m) /\ Supported(target, n) /\ Whole(target, m)
    BY <1>1, <1>2, <1>6 DEF PassInv, Passing
  <2>2. Whole(target, n)
    BY <1>1, <1>3, <2>1, UpdateWhole
  <2>3. Deep(target, n, m, passes + 1)
    <3>1. CASE passes = 0
      <4>1. \A e \in Edges(target) : Reach(target, e) >= 1
        BY <1>1, ModelTables, ReachType
      <4> QED BY <3>1, <4>1 DEF Deep
    <3>2. CASE passes > 0
      <4>1. PICK o : Follows(o)
        BY <1>1, <3>2 DEF PassInv, Passing
      <4>2. Supported(target, o) /\ m = Update(o) /\ Deep(target, m, o, passes)
        BY <1>2, <4>1 DEF Follows
      <4>3. Deep(target, Update(m), Update(o), passes + 1)
        BY <1>1, <2>1, <4>2, ChangesAreDeep
      <4> QED BY <1>3, <4>2, <4>3
    <3> QED BY <1>1, <3>1, <3>2
  <2>4. Follows(m)'
    BY <1>1, <1>2, <1>3, <1>8, <2>1, <2>3 DEF Follows
  <2>5. ASSUME passes > 0
        PROVE  /\ moved' => passes + 1 <= Len(target) + 1
               /\ ~ moved' => n = Update(n)
    <3>1. PICK o : Follows(o)
      BY <1>1, <2>5 DEF PassInv, Passing
    <3>2. Supported(target, o) /\ Whole(target, o) /\ m = Update(o) /\ beliefs = Beliefs(o) /\ Deep(target, m, o, passes)
      BY <1>1, <1>2, <3>1 DEF Follows
    <3>3. moved' <=> ~ SameBeliefs(m, o)
      BY <1>1, <1>3, <2>1, <3>2, ApartDecides
    <3>4. CASE m = o
      <4>1. SameBeliefs(m, o)
        BY <3>4 DEF SameBeliefs
      <4>2. n = m
        BY <1>3, <3>2, <3>4
      <4> QED BY <1>3, <3>3, <4>1, <4>2
    <3>5. CASE m # o
      <4>1. ~ SameBeliefs(m, o)
        BY <1>1, <2>1, <3>2, <3>5, BeliefsDecide
      <4>2. passes <= Len(target)
        BY <1>1, <2>1, <3>2, <3>5, DeepEnds
      <4>3. Len(target) \in Nat
        BY <1>1, ModelTables
      <4> QED BY <1>1, <3>3, <4>1, <4>2, <4>3
    <3> QED BY <3>4, <3>5
  <2>6. passes' > 1 => passes > 0
    BY <1>1
  <2>7. (passes > 1 /\ ~ moved => messages = Update(messages))'
    BY <1>2, <1>8, <2>5, <2>6
  <2>8. (passes > 1 /\ moved => passes <= Len(target) + 1)'
    BY <1>1, <2>5, <2>6
  <2> QED BY <1>1, <1>2, <2>2, <2>4, <2>7, <2>8 DEF Passing
<1> QED BY <1>4, <1>7, <1>9 DEF PassInv

\* The result is that of the last pass.
LEMMA ConcludeStep ==
  ASSUME PassInv, Conclude
  PROVE  PassInv'
<1>1. /\ bp = "passing" /\ bp' = "done" /\ UNCHANGED <<request, target, messages, passes, moved>>
      /\ converged' = Settled /\ beliefs' = Beliefs(messages) /\ Passed
      /\ passes \in Nat /\ target \in Models /\ request \in Requests
  BY DEF Conclude, PassInv, Admitted
<1>2. Admitted'
  BY <1>1 DEF Admitted
<1>3. \A c : Update(c)' = Update(c) /\ Beliefs(c)' = Beliefs(c)
  BY <1>1, SameModel
<1>4. PICK m, b : m = messages /\ b = beliefs'
  OBVIOUS
<1>5. OnceCounted'
  <2> SUFFICES ASSUME Tree(target)
               PROVE  /\ Supported(target, m)
                      /\ \A k \in Keys : \A t \in DOMAIN target : b[k][t] \in 0..(IF t \in Coupled(target, k) THEN Unit ELSE 0)
    BY <1>1, <1>4 DEF OnceCounted
  <2>1. Supported(target, m)
    BY <1>1, <1>4 DEF PassInv, OnceCounted
  <2>2. \A k \in Keys : \A t \in DOMAIN target : Beliefs(m)[k][t] \in 0..(IF t \in Coupled(target, k) THEN Unit ELSE 0)
    BY <1>1, <2>1, BeliefCounts
  <2> QED BY <1>1, <1>4, <2>1, <2>2
<1>6. Passing'
  <2> SUFFICES ASSUME Tree(target), request.halves = 0 PROVE Passing'
    BY <1>1 DEF Passing
  <2>1. /\ Whole(target, messages)
        /\ passes > 0 => \E o : Follows(o)
        /\ passes > 1 /\ ~ moved => messages = Update(messages)
        /\ passes > 1 /\ moved => passes <= Len(target) + 1
    BY <1>1 DEF PassInv, Passing
  <2>2. \A o : Follows(o) => Follows(o)'
    BY <1>1, <1>3 DEF Follows
  <2>3. Settled' <=> Settled
    BY <1>1 DEF Settled
  <2>4. (Settled \/ passes = MaxIter)'
    BY <1>1, <2>3 DEF Passed
  <2>5. (beliefs = Beliefs(messages) /\ converged = Settled)'
    BY <1>1, <1>3, <2>3
  <2>6. (passes > 1 /\ ~ moved => messages = Update(messages))'
    BY <1>1, <1>3, <2>1
  <2>7. (passes > 0 => \E o : Follows(o))'
    BY <1>1, <2>1, <2>2
  <2> QED BY <1>1, <2>1, <2>4, <2>5, <2>6, <2>7 DEF Passing
<1> QED BY <1>2, <1>5, <1>6 DEF PassInv

\* What is not done changes nothing.
LEMMA PassUnchanged ==
  ASSUME PassInv, UNCHANGED passingVars
  PROVE  PassInv'
<1>1. UNCHANGED <<bp, request, target, messages, beliefs, passes, moved, converged>>
  BY DEF passingVars
<1>2. \A c : Update(c)' = Update(c) /\ Beliefs(c)' = Beliefs(c)
  BY <1>1, SameModel
<1>3. Admitted' /\ OnceCounted'
  BY <1>1 DEF PassInv, Admitted, OnceCounted
<1>4. \A o : Follows(o) => Follows(o)'
  BY <1>1, <1>2 DEF Follows
<1>5. Settled' <=> Settled
  BY <1>1 DEF Settled
<1>6. Passing'
  <2> SUFFICES ASSUME bp \in {"passing", "done"}, Tree(target), request.halves = 0 PROVE Passing'
    BY <1>1 DEF Passing
  <2>1. /\ Whole(target, messages)
        /\ passes > 0 => \E o : Follows(o)
        /\ passes > 1 /\ ~ moved => messages = Update(messages)
        /\ passes > 1 /\ moved => passes <= Len(target) + 1
        /\ bp = "done" => beliefs = Beliefs(messages) /\ converged = Settled /\ (Settled \/ passes = MaxIter)
    BY DEF PassInv, Passing
  <2>2. (passes > 0 => \E o : Follows(o))'
    BY <1>1, <1>4, <2>1
  <2>3. (passes > 1 /\ ~ moved => messages = Update(messages))'
    BY <1>1, <1>2, <2>1
  <2>4. (bp = "done" => beliefs = Beliefs(messages) /\ converged = Settled /\ (Settled \/ passes = MaxIter))'
    BY <1>1, <1>2, <1>5, <2>1
  <2> QED BY <1>1, <2>1, <2>2, <2>3, <2>4 DEF Passing
<1> QED BY <1>3, <1>6 DEF PassInv

\* The invariant has what is to be proved.
LEMMA PassedIsSound == PassInv => BeliefsAreSound
<1> SUFFICES ASSUME PassInv PROVE CountedOnce /\ ConvergedIsExact
  BY DEF BeliefsAreSound
<1>1. CountedOnce
  BY DEF PassInv, OnceCounted, CountedOnce
<1>2. ConvergedIsExact
  <2> SUFFICES ASSUME bp = "done", Tree(target), request.halves = 0
               PROVE  /\ converged => \A k \in Keys, t \in DOMAIN target :
                                        beliefs[k][t] = IF t \in Coupled(target, k) THEN Unit ELSE 0
                      /\ MaxIter > Len(target) + 1 => converged
    BY DEF ConvergedIsExact
  <2>1. target \in Models /\ passes \in Nat /\ Supported(target, messages)
    BY DEF PassInv, Admitted, OnceCounted
  <2>2. /\ passes > 1 /\ ~ moved => messages = Update(messages)
        /\ passes > 1 /\ moved => passes <= Len(target) + 1
        /\ beliefs = Beliefs(messages) /\ converged = Settled /\ (Settled \/ passes = MaxIter)
    BY DEF PassInv, Passing
  <2>3. ASSUME converged, NEW k \in Keys, NEW t \in DOMAIN target
        PROVE  beliefs[k][t] = IF t \in Coupled(target, k) THEN Unit ELSE 0
    <3>1. messages = Update(messages)
      BY <2>2, <2>3 DEF Settled
    <3> QED BY <2>1, <2>2, <3>1, FixpointIsExact
  <2>4. ASSUME MaxIter > Len(target) + 1 PROVE converged
    <3>1. Len(target) \in Nat /\ MaxIter \in Nat
      BY <2>1, ModelTables, PassingAssumption
    <3>2. CASE Settled
      BY <2>2, <3>2
    <3>3. CASE ~ Settled
      <4>1. passes = MaxIter
        BY <2>2, <3>3
      <4>2. passes > 1 /\ ~ (passes <= Len(target) + 1)
        BY <2>1, <2>4, <3>1, <4>1
      <4>3. moved
        BY <3>3, <4>2 DEF Settled
      <4> QED BY <2>2, <4>2, <4>3
    <3> QED BY <3>2, <3>3
  <2> QED BY <2>3, <2>4
<1> QED BY <1>1, <1>2

\* What message passing believes of a model without loops is sound: no table is
\* counted twice in a belief, whatever the damping, and without damping a run
\* that is reported as converged has counted every table coupled with a variable
\* once in its belief, which it has if it may pass twice more than there are
\* tables. For every set of variables, every model and any number of passes.
THEOREM PassedBeliefsAreSound == PassingSpec => []BeliefsAreSound
<1>1. PassingInit => PassInv
  BY DEF PassingInit, PassInv, Admitted, OnceCounted, Passing
<1>2. PassInv /\ [PassingNext]_passingVars => PassInv'
  <2> SUFFICES ASSUME PassInv, [PassingNext]_passingVars PROVE PassInv'
    OBVIOUS
  <2>1. ASSUME bp = "idle", NEW model \in Models, NEW r \in Requests, Assess(model, r) PROVE PassInv'
    BY <2>1, AssessStep
  <2>2. CASE Begin
    BY <2>2, BeginStep
  <2>3. CASE Pass
    BY <2>3, PassStep
  <2>4. CASE Conclude
    BY <2>4, ConcludeStep
  <2>5. CASE UNCHANGED passingVars
    BY <2>5, PassUnchanged
  <2> QED BY <2>1, <2>2, <2>3, <2>4, <2>5 DEF PassingNext
<1> QED BY <1>1, <1>2, PassedIsSound, PTL DEF PassingSpec

-----------------------------------------------------------------------------
(***************************************************************************)
(* More about sums                                                         *)
(***************************************************************************)
\* A factor of all that is added is one of the sum.
LEMMA SumScaled ==
  ASSUME NEW S, IsFiniteSet(S), NEW w, Ints(w, S), NEW c \in Int, NEW v, \A x \in S : v[x] = c * w[x]
  PROVE  SumFunctionOnSet(v, S) = c * SumFunctionOnSet(w, S)
<1> DEFINE P == {t \in SUBSET S : SumFunctionOnSet(v, t) = c * SumFunctionOnSet(w, t)}
<1>1. {} \in P
  <2>1. c * 0 = 0
    OBVIOUS
  <2> QED BY <2>1, SumEmpty
<1>2. ASSUME NEW t \in SUBSET S, t # {} PROVE \E x \in t : t \ {x} \in P => t \in P
  <2>1. PICK x \in t : TRUE
    BY <1>2
  <2>2. PICK r, a, b, d : r = t \ {x} /\ a = w[x] /\ b = SumFunctionOnSet(w, r) /\ d = c * a
    OBVIOUS
  <2>3. IsFiniteSet(t) /\ IsFiniteSet(r) /\ r \in SUBSET S /\ Ints(w, t) /\ Ints(w, r) /\ a \in Int
    BY <2>1, <2>2, FS_Subset DEF Ints
  <2>4. v[x] = d /\ d \in Int
    BY <2>1, <2>2, <2>3
  <2>5. Ints(v, t)
    <3> SUFFICES ASSUME NEW y \in t PROVE v[y] \in Int
      BY DEF Ints
    <3>1. PICK e : e = w[y]
      OBVIOUS
    <3>2. e \in Int /\ v[y] = c * e
      BY <2>3, <3>1 DEF Ints
    <3> QED BY <3>2
  <2>6. SumFunctionOnSet(w, t) = a + b /\ b \in Int
    BY <2>1, <2>2, <2>3, SumWith, SumType
  <2>7. SumFunctionOnSet(v, t) = d + SumFunctionOnSet(v, r)
    BY <2>1, <2>2, <2>3, <2>4, <2>5, SumWith
  <2>8. c * (a + b) = c * a + c * b
    BY <2>3, <2>6
  <2>9. r \in P => t \in P
    BY <2>2, <2>6, <2>7, <2>8
  <2> HIDE DEF P
  <2> QED BY <2>1, <2>2, <2>9
<1> HIDE DEF P
<1>3. \A t \in SUBSET S : t \in P
  BY <1>1, <1>2, Removing
<1>4. S \in P
  BY <1>3
<1> QED BY <1>4 DEF P

\* Smaller numbers have a smaller sum.
LEMMA SumMonotone ==
  ASSUME NEW S, IsFiniteSet(S), NEW u, Ints(u, S), NEW v, Ints(v, S), \A x \in S : u[x] <= v[x]
  PROVE  SumFunctionOnSet(u, S) <= SumFunctionOnSet(v, S)
<1>1. PICK w : w = [x \in S |-> v[x] - u[x]]
  OBVIOUS
<1>2. \A x \in S : w[x] \in Nat /\ v[x] = u[x] + w[x]
  BY <1>1 DEF Ints
<1>3. Ints(w, S) /\ SumFunctionOnSet(w, S) \in Nat
  BY <1>2, SumNat DEF Ints
<1>4. SumFunctionOnSet(v, S) = SumFunctionOnSet(u, S) + SumFunctionOnSet(w, S)
  BY <1>2, <1>3, SumOfSums
<1> QED BY <1>3, <1>4, SumType

\* If numbers add up to nothing, each is nothing.
LEMMA SumVanishes ==
  ASSUME NEW S, IsFiniteSet(S), NEW w, \A x \in S : w[x] \in Nat, SumFunctionOnSet(w, S) = 0, NEW x \in S
  PROVE  w[x] = 0
<1>1. Ints(w, S)
  BY DEF Ints
<1>2. SumFunctionOnSet(w, S) = w[x] + SumFunctionOnSet(w, S \ {x})
  BY <1>1, SumWith
<1>3. PICK r : r = S \ {x}
  OBVIOUS
<1>4. IsFiniteSet(r) /\ \A y \in r : w[y] \in Nat
  BY <1>3, FS_Subset
<1>5. SumFunctionOnSet(w, r) \in Nat
  BY <1>4, SumNat
<1> QED BY <1>2, <1>3, <1>5

\* Elements that add nothing may be left out.
LEMMA SumOnPart ==
  ASSUME NEW S, IsFiniteSet(S), NEW w, Ints(w, S), NEW T \in SUBSET S, NEW v, \A x \in T : v[x] = w[x],
         \A x \in S : x \notin T => w[x] = 0
  PROVE  SumFunctionOnSet(v, T) = SumFunctionOnSet(w, S)
<1>1. PICK h : h = [x \in T |-> x]
  OBVIOUS
<1>2. Renames(h, T, S, v, w)
  BY <1>1 DEF Renames
<1> QED BY <1>2, FS_Subset, SumRenamed

\* A set has as many elements as there are ones to add.
LEMMA SumCounts ==
  ASSUME NEW S, IsFiniteSet(S), NEW w, \A x \in S : w[x] = 1
  PROVE  SumFunctionOnSet(w, S) = Cardinality(S)
<1> DEFINE P == {t \in SUBSET S : SumFunctionOnSet(w, t) = Cardinality(t)}
<1>1. {} \in P
  BY SumEmpty, FS_EmptySet
<1>2. ASSUME NEW t \in SUBSET S, t # {} PROVE \E x \in t : t \ {x} \in P => t \in P
  <2>1. PICK x \in t : TRUE
    BY <1>2
  <2>2. IsFiniteSet(t) /\ Ints(w, t)
    BY FS_Subset DEF Ints
  <2>3. SumFunctionOnSet(w, t) = 1 + SumFunctionOnSet(w, t \ {x})
    BY <2>1, <2>2, SumWith
  <2>4. Cardinality(t \ {x}) = Cardinality(t) - 1 /\ Cardinality(t) \in Nat
    BY <2>1, <2>2, FS_RemoveElement, FS_CardinalityType
  <2>5. t \ {x} \in P => t \in P
    BY <2>3, <2>4
  <2> HIDE DEF P
  <2> QED BY <2>1, <2>5
<1> HIDE DEF P
<1>3. \A t \in SUBSET S : t \in P
  BY <1>1, <1>2, Removing
<1>4. S \in P
  BY <1>3
<1> QED BY <1>4 DEF P

\* And a part of it as many as there are ones among noughts.
LEMMA SumCountsPart ==
  ASSUME NEW S, IsFiniteSet(S), NEW T \in SUBSET S, NEW w, \A x \in S : w[x] = IF x \in T THEN 1 ELSE 0
  PROVE  SumFunctionOnSet(w, S) = Cardinality(T)
<1>1. PICK v : v = [x \in T |-> 1]
  OBVIOUS
<1>2. SumFunctionOnSet(v, T) = Cardinality(T)
  BY <1>1, FS_Subset, SumCounts
<1>3. Ints(w, S)
  BY DEF Ints
<1>4. SumFunctionOnSet(v, T) = SumFunctionOnSet(w, S)
  BY <1>1, <1>3, SumOnPart
<1> QED BY <1>2, <1>4

\* What g has for each pair is added up by rows in f, by columns in h.
RowSums(f, g, A, B) == \A a \in A : f[a] = SumFunctionOnSet(g[a], B)
ColumnSums(h, g, A, B) == \A b \in B : h[b] = SumFunctionOnSet([a \in A |-> g[a][b]], A)

\* A table adds up to the same by rows and by columns.
LEMMA SumSwaps ==
  ASSUME NEW A, IsFiniteSet(A), NEW B, IsFiniteSet(B), NEW g, \A a \in A : Ints(g[a], B),
         NEW f, RowSums(f, g, A, B), NEW h, ColumnSums(h, g, A, B)
  PROVE  SumFunctionOnSet(f, A) = SumFunctionOnSet(h, B)
<1> DEFINE col(t) == [b \in B |-> SumFunctionOnSet([a \in A |-> g[a][b]], t)]
           P == {t \in SUBSET A : SumFunctionOnSet(f, t) = SumFunctionOnSet(col(t), B)}
<1>0. \A t \in SUBSET A : IsFiniteSet(t)
  BY FS_Subset
<1>1. {} \in P
  <2>1. PICK w : w = col({})
    OBVIOUS
  <2>2. \A b \in B : w[b] = 0
    BY <2>1, SumEmpty
  <2>3. Ints(w, B) /\ \A b \in B : b \notin {} => w[b] = 0
    BY <2>2 DEF Ints
  <2>4. SumFunctionOnSet(w, {}) = SumFunctionOnSet(w, B)
    BY <2>3, SumOnPart
  <2> QED BY <2>1, <2>4, SumEmpty
<1>2. ASSUME NEW t \in SUBSET A, t # {} PROVE \E x \in t : t \ {x} \in P => t \in P
  <2>1. PICK x \in t : TRUE
    BY <1>2
  <2>2. PICK r, u, v : r = t \ {x} /\ u = col(t) /\ v = col(r)
    OBVIOUS
  <2>3. Ints(f, t)
    <3> SUFFICES ASSUME NEW a \in t PROVE f[a] \in Int
      BY DEF Ints
    <3>1. Ints(g[a], B)
      OBVIOUS
    <3> QED BY <3>1, SumType DEF RowSums
  <2>4. SumFunctionOnSet(f, t) = f[x] + SumFunctionOnSet(f, r)
    BY <1>0, <2>1, <2>2, <2>3, SumWith
  <2>5. ASSUME NEW b \in B PROVE u[b] = g[x][b] + v[b] /\ v[b] \in Int
    <3>1. PICK w : w = [a \in A |-> g[a][b]]
      OBVIOUS
    <3>2. Ints(w, A) /\ Ints(w, t) /\ Ints(w, r) /\ IsFiniteSet(t) /\ IsFiniteSet(r)
      BY <1>0, <2>2, <3>1 DEF Ints
    <3>3. SumFunctionOnSet(w, t) = w[x] + SumFunctionOnSet(w, r)
      BY <2>1, <2>2, <3>2, SumWith
    <3>4. u[b] = SumFunctionOnSet(w, t) /\ v[b] = SumFunctionOnSet(w, r) /\ w[x] = g[x][b]
      BY <2>1, <2>2, <3>1
    <3>5. SumFunctionOnSet(w, r) \in Int
      BY <3>2, SumType
    <3> QED BY <3>3, <3>4, <3>5
  <2>6. Ints(v, B) /\ Ints(g[x], B)
    BY <2>1, <2>5 DEF Ints
  <2>7. SumFunctionOnSet(u, B) = SumFunctionOnSet(g[x], B) + SumFunctionOnSet(v, B)
    BY <2>5, <2>6, SumOfSums
  <2>8. f[x] = SumFunctionOnSet(g[x], B)
    BY <2>1 DEF RowSums
  <2>9. r \in P => t \in P
    <3> HIDE DEF col
    <3> QED BY <2>2, <2>4, <2>7, <2>8
  <2> HIDE DEF P
  <2> QED BY <2>1, <2>2, <2>9
<1>3. \A t \in SUBSET A : t \in P
  <2> HIDE DEF P
  <2> QED BY <1>1, <1>2, Removing
<1>4. PICK w : w = col(A)
  OBVIOUS
<1>5. SumFunctionOnSet(f, A) = SumFunctionOnSet(w, B)
  BY <1>3, <1>4
<1>6. \A b \in B : w[b] = h[b]
  BY <1>4 DEF ColumnSums
<1>7. Ints(w, B)
  <2> SUFFICES ASSUME NEW b \in B PROVE w[b] \in Int
    BY DEF Ints
  <2>1. PICK c : c = [a \in A |-> g[a][b]]
    OBVIOUS
  <2>2. Ints(c, A)
    BY <2>1 DEF Ints
  <2> QED BY <1>4, <2>1, <2>2, SumType
<1> QED BY <1>5, <1>6, <1>7, SumSame

-----------------------------------------------------------------------------
(***************************************************************************)
(* Process queries: projections of executions                              *)
(***************************************************************************)
AskingSpec == AskingInit /\ [][AskingNext]_queryVars

\* The rows that an identity stands for.
RowsFrom(identity) ==
  IF identity[1] = "grid"
  THEN {g \in [DOMAIN identity[2] -> UNION {DOMAIN identity[2][k] : k \in DOMAIN identity[2]}] :
          \A k \in DOMAIN identity[2] : g[k] \in DOMAIN identity[2][k]}
  ELSE DOMAIN identity[2]

StateFrom(identity) ==
  IF identity[1] = "grid"
  THEN [g \in RowsFrom(identity) |-> [k \in DOMAIN identity[2] |-> identity[2][k][g[k]]]]
  ELSE identity[2]

\* A projection is told by its key: the identity of the rows, and the execution.
Told(key) == [i \in RowsFrom(key[1]) |-> ProjectExecution(key[2], StateFrom(key[1])[i])]

StoreInv == \A key \in DOMAIN projections : projections[key] = Told(key)

\* No part of the work has two executions of one name.
Distinct(executions) ==
  \A n, m \in DOMAIN executions : executions[n].id = executions[m].id => n = m

WorkInv ==
  work # NoWork =>
    /\ {"query", "result", "bound", "left"} \subseteq DOMAIN work
    /\ work.left \in Seq(Range(work.left)) /\ work.left # <<>>
    /\ \A n \in DOMAIN work.left : Distinct(work.left[n].executions)

ProjectionsInv == StoreInv /\ WorkInv /\ StoreIsTransparent

-----------------------------------------------------------------------------
\* The identity under which projections are stored determines the rows and their
\* states: of a grid by its labels in their order, of draws by the draws.
LEMMA IdentityTellsRows ==
  ASSUME work # NoWork
  PROVE  RowsOf.rows = RowsFrom(RowsOf.identity) /\ RowsOf.state = StateFrom(RowsOf.identity)
<1> DEFINE r == work.result
           scope == Scope(Part)
<1> HIDE DEF r, scope
<1>1. /\ GridIdentity(r, scope)[1] = "grid" /\ GridIdentity(r, scope)[2] = [k \in scope |-> r.domains[k]]
      /\ ExactData(r, scope).rows = GridOf(r, scope)
      /\ ExactData(r, scope).state = [g \in GridOf(r, scope) |-> [k \in scope |-> r.domains[k][g[k]]]]
      /\ ExactData(r, scope).identity = GridIdentity(r, scope)
  BY DEF ExactData, GridIdentity
<1>2. RowsFrom(GridIdentity(r, scope)) = GridOf(r, scope)
  <2>1. PICK labels : labels = [k \in scope |-> r.domains[k]]
    OBVIOUS
  <2>2. DOMAIN labels = scope /\ \A k \in scope : labels[k] = r.domains[k]
    BY <2>1
  <2>3. RowsFrom(GridIdentity(r, scope)) =
          {g \in [scope -> UNION {DOMAIN labels[k] : k \in scope}] : \A k \in scope : g[k] \in DOMAIN labels[k]}
    BY <1>1, <2>1, <2>2 DEF RowsFrom
  <2>4. UNION {DOMAIN labels[k] : k \in scope} = UNION {DOMAIN r.domains[k] : k \in scope}
    BY <2>2
  <2> QED
    BY <2>2, <2>3, <2>4 DEF GridOf
<1>3. StateFrom(GridIdentity(r, scope)) = ExactData(r, scope).state
  BY <1>1, <1>2 DEF StateFrom
<1>4. /\ DrawData(r).rows = RowsFrom(DrawData(r).identity)
      /\ DrawData(r).state = StateFrom(DrawData(r).identity)
  BY DEF DrawData, RowsFrom, StateFrom
<1> QED
  BY <1>1, <1>2, <1>3, <1>4 DEF RowsOf, r, scope


\* A sequence is one over the values it has.
LEMMA RangeIsEnough ==
  ASSUME NEW S, NEW s \in Seq(S)
  PROVE  s \in Seq(Range(s))
<1>1. s \in [1..Len(s) -> Range(s)] /\ Len(s) \in Nat
  BY DEF Range
<1> QED
  BY <1>1

\* The parts of a query name each of their executions once.
LEMMA PartsAreDistinct ==
  ASSUME NEW q \in QuerySpecs, NEW r \in Results
  PROVE  /\ PartsOf(q, r) \in Seq(Range(PartsOf(q, r))) /\ PartsOf(q, r) # <<>>
         /\ \A n \in DOMAIN PartsOf(q, r) : Distinct(PartsOf(q, r)[n].executions)
<1>1. /\ "executions" \in DOMAIN q /\ q.executions \in Seq(Range(q.executions))
      /\ IsInjective([i \in DOMAIN q.executions |-> q.executions[i].id])
  BY ResultAssumption
<1>2. Distinct(q.executions)
  BY <1>1 DEF Distinct, IsInjective
<1>3. CASE ~ (r.method = "exact" /\ InParts(q))
  <2>1. PartsOf(q, r) = <<q>>
    BY <1>3 DEF PartsOf
  <2>2. <<q>> \in Seq({q}) /\ Range(<<q>>) = {q} /\ <<q>> # <<>> /\ DOMAIN <<q>> = {1}
    BY DEF Range
  <2> QED
    BY <1>2, <2>1, <2>2
<1>4. CASE r.method = "exact" /\ InParts(q)
  <2>1. PICK c \in Nat : c = Len(q.executions) /\ c > 1 /\ DOMAIN q.executions = 1..c
    BY <1>1, <1>4 DEF InParts
  <2>2. PICK p : p = [n \in 1..c |-> [q EXCEPT !.executions = <<q.executions[n]>>]]
    OBVIOUS
  <2>3. p = PartsOf(q, r)
    BY <1>4, <2>1, <2>2 DEF PartsOf
  <2>4. DOMAIN p = 1..c /\ \A n \in 1..c : p[n] = [q EXCEPT !.executions = <<q.executions[n]>>]
    BY <2>2
  <2>5. ASSUME NEW n \in 1..c PROVE Distinct(p[n].executions)
    <3>1. p[n].executions = <<q.executions[n]>>
      BY <1>1, <2>4
    <3> QED
      BY <3>1 DEF Distinct
  <2>6. p \in [1..c -> Range(p)]
    BY <2>2, <2>4 DEF Range
  <2>7. p \in Seq(Range(p)) /\ p # <<>>
    BY <2>1, <2>4, <2>6
  <2> QED
    BY <2>3, <2>4, <2>5, <2>7
<1> QED
  BY <1>3, <1>4

\* A query begins with nothing projected.
LEMMA AskKeeps ==
  ASSUME ProjectionsInv, NEW r \in Results, NEW q \in QuerySpecs, Ask(r, q)
  PROVE  ProjectionsInv'
<1>1. /\ projections' = projections /\ projected' = <<>>
      /\ work' = [query |-> q, result |-> r, bound |-> FALSE, left |-> PartsOf(q, r)]
  BY DEF Ask
<1>2. StoreInv'
  BY <1>1 DEF ProjectionsInv, StoreInv
<1>3. DOMAIN work' = {"query", "result", "bound", "left"} /\ work'.left = PartsOf(q, r)
  BY <1>1
<1>4. WorkInv'
  BY <1>3, PartsAreDistinct DEF WorkInv
<1>5. StoreIsTransparent'
  <2>1. DOMAIN projected' = {}
    BY <1>1
  <2> QED
    BY <2>1 DEF StoreIsTransparent
<1> QED
  BY <1>2, <1>4, <1>5 DEF ProjectionsInv

\* Binding changes neither the part nor its rows.
LEMMA BindKeeps ==
  ASSUME ProjectionsInv, Bind
  PROVE  ProjectionsInv'
<1>1. projections' = projections /\ projected' = projected
  BY DEF Bind
<1>2. StoreInv'
  BY <1>1 DEF ProjectionsInv, StoreInv
<1>3. CASE work' = NoWork
  BY <1>2, <1>3 DEF ProjectionsInv, WorkInv, StoreIsTransparent
<1>4. CASE work' = [work EXCEPT !.bound = TRUE]
  <2>1. work # NoWork /\ {"query", "result", "bound", "left"} \subseteq DOMAIN work
    BY DEF Bind, ProjectionsInv, WorkInv
  <2>2. DOMAIN work' = DOMAIN work /\ work'.left = work.left /\ work'.result = work.result
    BY <1>4, <2>1
  <2>3. WorkInv'
    BY <2>1, <2>2 DEF ProjectionsInv, WorkInv
  <2>4. Part' = Part /\ RowsOf' = RowsOf
    BY <2>2 DEF Part, RowsOf
  <2>5. StoreIsTransparent'
    BY <1>1, <2>1, <2>4 DEF ProjectionsInv, StoreIsTransparent
  <2> QED
    BY <1>2, <2>3, <2>5 DEF ProjectionsInv
<1> QED
  BY <1>3, <1>4 DEF Bind, Abandon

\* The next part has rows of its own, and nothing is projected on them yet.
LEMMA FinishKeeps ==
  ASSUME ProjectionsInv, FinishPart
  PROVE  ProjectionsInv'
<1>1. projections' = projections /\ projected' = <<>> /\ work # NoWork
  BY DEF FinishPart
<1>2. StoreInv'
  BY <1>1 DEF ProjectionsInv, StoreInv
<1>3. StoreIsTransparent'
  <2>1. DOMAIN projected' = {}
    BY <1>1
  <2> QED
    BY <2>1 DEF StoreIsTransparent
<1>4. CASE work' = NoWork
  BY <1>2, <1>3, <1>4 DEF ProjectionsInv, WorkInv
<1>5. CASE Len(work.left) > 1 /\ work' = [work EXCEPT !.left = Tail(work.left), !.bound = FALSE]
  <2>1. /\ {"query", "result", "bound", "left"} \subseteq DOMAIN work
        /\ work.left \in Seq(Range(work.left))
        /\ \A n \in DOMAIN work.left : Distinct(work.left[n].executions)
    BY <1>1 DEF ProjectionsInv, WorkInv
  <2>2. DOMAIN work' = DOMAIN work /\ work'.left = Tail(work.left)
    BY <1>5, <2>1
  <2>3. PICK left : left = work.left
    OBVIOUS
  <2>4. PICK S : left \in Seq(S) /\ Len(left) > 1
    BY <1>5, <2>1, <2>3
  <2>5. /\ Tail(left) \in Seq(S) /\ Tail(left) # <<>>
        /\ Len(left) \in Nat /\ DOMAIN left = 1..Len(left)
        /\ \A n \in DOMAIN Tail(left) : n \in Nat /\ n + 1 \in DOMAIN left /\ Tail(left)[n] = left[n + 1]
    <3>1. Len(left) \in Nat /\ DOMAIN left = 1..Len(left)
      BY <2>4
    <3>2. left # <<>>
      BY <2>4
    <3>3. /\ Tail(left) \in Seq(S) /\ Len(Tail(left)) = Len(left) - 1
          /\ \A n \in 1..Len(Tail(left)) : Tail(left)[n] = left[n + 1]
      BY <2>4, <3>2, HeadTailProperties
    <3>4. DOMAIN Tail(left) = 1..Len(Tail(left))
      BY <3>3
    <3>5. Len(Tail(left)) # 0
      BY <2>4, <3>1, <3>3
    <3>6. Tail(left) # <<>>
      BY <3>3, <3>5, EmptySeq
    <3> QED
      BY <3>1, <3>3, <3>4, <3>6
  <2>6. Tail(left) \in Seq(Range(Tail(left)))
    BY <2>5, RangeIsEnough
  <2>7. ASSUME NEW n \in DOMAIN Tail(left) PROVE Distinct(Tail(left)[n].executions)
    <3>1. n + 1 \in DOMAIN left /\ Tail(left)[n] = left[n + 1]
      BY <2>5
    <3> QED
      BY <2>1, <2>3, <3>1
  <2>8. WorkInv'
    BY <2>1, <2>2, <2>3, <2>5, <2>6, <2>7 DEF WorkInv
  <2> QED
    BY <1>2, <1>3, <2>8 DEF ProjectionsInv
<1> QED
  BY <1>4, <1>5 DEF FinishPart, Concluded, Abandon

\* A stop leaves the store as it is.
LEMMA HaltKeeps ==
  ASSUME ProjectionsInv, Halt
  PROVE  ProjectionsInv'
BY DEF Halt, Abandon, ProjectionsInv, StoreInv, WorkInv, StoreIsTransparent


\* What the store has under the key, or gets, is the projection of these rows.
LEMMA ProjectKeeps ==
  ASSUME ProjectionsInv, Project
  PROVE  ProjectionsInv'
<1>1. PICK n \in Unprojected :
        LET x   == Part.executions[n]
            key == <<RowsOf.identity, x, Decoding(work.result)>>
        IN  /\ projections' = IF key \in DOMAIN projections THEN projections
                              ELSE With(projections, key, Fresh(x, RowsOf))
            /\ projected' = With(projected, x.id, projections'[key])
            /\ IF Refuses(x, Part) THEN Abandon("validation") ELSE UNCHANGED <<work, refusal>>
  BY DEF Project
<1>2. PICK x : x = Part.executions[n]
  OBVIOUS
<1>3. PICK key : key = <<RowsOf.identity, x, Decoding(work.result)>>
  OBVIOUS
<1>4. PICK fresh : fresh = Fresh(x, RowsOf)
  OBVIOUS
<1>5. /\ projections' = IF key \in DOMAIN projections THEN projections
                        ELSE With(projections, key, fresh)
      /\ projected' = With(projected, x.id, projections'[key])
      /\ work' = NoWork \/ work' = work
  BY <1>1, <1>2, <1>3, <1>4 DEF Abandon
<1>6. work # NoWork
  BY DEF Project
<1>7. fresh = Told(key)
  <2>1. key[1] = RowsOf.identity /\ key[2] = x
    BY <1>3
  <2>2. RowsOf.rows = RowsFrom(key[1]) /\ RowsOf.state = StateFrom(key[1])
    BY <1>6, <2>1, IdentityTellsRows
  <2> QED
    BY <1>4, <2>1, <2>2 DEF Fresh, Told
<1>8. StoreInv' /\ projections'[key] = fresh
  <2>1. CASE key \in DOMAIN projections
    BY <1>5, <1>7, <2>1 DEF ProjectionsInv, StoreInv
  <2>2. CASE key \notin DOMAIN projections
    <3>1. projections' = With(projections, key, fresh)
      BY <1>5, <2>2
    <3>2. /\ DOMAIN projections' = DOMAIN projections \union {key}
          /\ projections'[key] = fresh
          /\ \A k \in DOMAIN projections : projections'[k] = projections[k]
      BY <2>2, <3>1 DEF With
    <3> QED
      BY <1>7, <3>2 DEF ProjectionsInv, StoreInv
  <2> QED
    BY <2>1, <2>2
<1>9. CASE work' = NoWork
  BY <1>8, <1>9 DEF ProjectionsInv, WorkInv, StoreIsTransparent
<1>10. CASE work' = work
  <2>1. WorkInv'
    BY <1>10 DEF ProjectionsInv, WorkInv
  <2>2. Part' = Part /\ RowsOf' = RowsOf
    BY <1>10 DEF Part, RowsOf
  <2>3. Distinct(Part.executions) /\ n \in DOMAIN Part.executions
    <3>1. /\ work.left \in Seq(Range(work.left)) /\ work.left # <<>>
          /\ \A m \in DOMAIN work.left : Distinct(work.left[m].executions)
      BY <1>6 DEF ProjectionsInv, WorkInv
    <3>2. 1 \in DOMAIN work.left /\ Part = work.left[1]
      BY <3>1 DEF Part
    <3> QED
      BY <3>1, <3>2 DEF Unprojected
  <2>4. /\ DOMAIN projected' = DOMAIN projected \union {x.id}
        /\ projected'[x.id] = fresh
        /\ \A id \in DOMAIN projected : id # x.id => projected'[id] = projected[id]
    BY <1>5, <1>8 DEF With
  <2>5. ASSUME NEW y \in Range(Part.executions), y.id \in DOMAIN projected'
        PROVE  projected'[y.id] = Fresh(y, RowsOf)
    <3>1. CASE y.id = x.id
      <4>1. y = x
        BY <1>2, <2>3, <3>1 DEF Distinct, Range
      <4> QED
        BY <1>4, <2>4, <4>1
    <3>2. CASE y.id # x.id
      BY <1>6, <2>4, <2>5, <3>2 DEF ProjectionsInv, StoreIsTransparent
    <3> QED
      BY <3>1, <3>2
  <2>6. StoreIsTransparent'
    BY <2>2, <2>5 DEF StoreIsTransparent
  <2> QED
    BY <1>8, <2>1, <2>6 DEF ProjectionsInv
<1> QED
  BY <1>5, <1>9, <1>10

\* At every moment of a session each stored projection is the one its key tells.
THEOREM ProjectionsAlways == AskingSpec => []ProjectionsInv
<1>1. AskingInit => ProjectionsInv
  BY DEF AskingInit, ProjectionsInv, StoreInv, WorkInv, StoreIsTransparent
<1>2. ASSUME ProjectionsInv, [AskingNext]_queryVars PROVE ProjectionsInv'
  <2>1. ASSUME NEW r \in Results, NEW q \in QuerySpecs, Ask(r, q) PROVE ProjectionsInv'
    BY <1>2, <2>1, AskKeeps
  <2>2. CASE Bind
    BY <1>2, <2>2, BindKeeps
  <2>3. CASE Project
    BY <1>2, <2>3, ProjectKeeps
  <2>4. CASE FinishPart
    BY <1>2, <2>4, FinishKeeps
  <2>5. CASE Halt
    BY <1>2, <2>5, HaltKeeps
  <2>6. CASE UNCHANGED queryVars
    <3>1. projections' = projections /\ work' = work /\ projected' = projected
      BY <2>6 DEF queryVars
    <3>2. Part' = Part /\ RowsOf' = RowsOf
      BY <3>1 DEF Part, RowsOf
    <3> QED
      BY <1>2, <3>1, <3>2 DEF ProjectionsInv, StoreInv, WorkInv, StoreIsTransparent
  <2> QED
    BY <1>2, <2>1, <2>2, <2>3, <2>4, <2>5, <2>6 DEF AskingNext
<1> QED
  BY <1>1, <1>2, PTL DEF AskingSpec

\* So what a query works on, stored or not, is the projection of its own rows,
\* whatever tables and draws were asked about before (cached() in evaluate_on()).
THEOREM StoreServesTheRows == AskingSpec => []StoreIsTransparent
<1>1. ProjectionsInv => StoreIsTransparent
  BY DEF ProjectionsInv
<1> QED
  BY <1>1, ProjectionsAlways, PTL

-----------------------------------------------------------------------------
(***************************************************************************)
(* What an execution comes to in a row                                     *)
(***************************************************************************)
\* A finite set that is not empty has an element where f is greatest.
LEMMA GreatestBy ==
  ASSUME NEW S, IsFiniteSet(S), S # {}, NEW f, Ints(f, S)
  PROVE  \E x \in S : \A y \in S : f[y] <= f[x]
<1> DEFINE P == {t \in SUBSET S : t = {} \/ \E x \in t : \A y \in t : f[y] <= f[x]}
<1>1. ASSUME NEW t \in SUBSET S, t # {}, \E x \in t : t \ {x} \in P
      PROVE  t \in P
  <2>1. PICK x \in t : t \ {x} \in P
    BY <1>1
  <2>2. CASE t \ {x} = {}
    <3>1. t = {x}
      BY <2>2
    <3> QED
      BY <3>1 DEF Ints
  <2>3. CASE t \ {x} # {}
    <3>1. PICK y \in t \ {x} : \A z \in t \ {x} : f[z] <= f[y]
      BY <2>1, <2>3
    <3>2. \A z \in t : f[z] \in Int
      BY DEF Ints
    <3>3. CASE f[x] <= f[y]
      BY <3>1, <3>2, <3>3
    <3>4. CASE ~ (f[x] <= f[y])
      <4>1. \A z \in t : f[z] <= f[x]
        BY <3>1, <3>2, <3>4
      <4> QED
        BY <4>1, <2>1
    <3> QED
      BY <3>3, <3>4
  <2> QED
    BY <2>2, <2>3
<1>1a. \A t \in SUBSET S : t # {} => \E x \in t : t \ {x} \in P => t \in P
  BY <1>1
<1>2. {} \in P
  OBVIOUS
<1> HIDE DEF P
<1>3. \A t \in SUBSET S : t \in P
  BY <1>1a, <1>2, Removing
<1>4. S \in P
  BY <1>3
<1> QED
  BY <1>4 DEF P

\* Numbers have a greatest one.
LEMMA MaxIsGreatest ==
  ASSUME NEW S \in SUBSET Int, IsFiniteSet(S), S # {}
  PROVE  Max(S) \in S /\ \A y \in S : y <= Max(S)
<1> DEFINE f == [x \in S |-> x]
<1>1. Ints(f, S)
  BY DEF Ints
<1> HIDE DEF f
<1>2. PICK x \in S : \A y \in S : f[y] <= f[x]
  BY <1>1, GreatestBy
<1>3. \A y \in S : x >= y
  BY <1>2 DEF f
<1> QED
  BY <1>3 DEF Max

LEMMA TimeHasMinute ==
  ASSUME NEW t, IsTime(t), t # <<>>
  PROVE  t[1] \in Int
<1>1. t \in Seq(Int) /\ Len(t) \in Nat
  BY DEF IsTime
<1>2. Len(t) # 0
  BY <1>1, EmptySeq
<1> QED
  BY <1>1, <1>2

\* Of endpoints that have times, as many as there are are counted, and the time is
\* one.
LEMMA EndpointsTyped ==
  ASSUME NEW l, l \in Seq(Range(l)), NEW s, \A e \in Range(l) : IsTime(EndpointTime(e, s))
  PROVE  EndpointsIn(l, s).count \in Nat /\ IsTime(EndpointsIn(l, s).time)
<1> DEFINE present == {n \in DOMAIN l : Occurs(l[n], s)}
<1>1. DOMAIN l = 1..Len(l) /\ Len(l) \in Nat
  OBVIOUS
<1>2. IsFiniteSet(present) /\ present \subseteq Int
  <2>1. IsFiniteSet(1..Len(l))
    BY <1>1, FS_Interval
  <2> QED
    BY <1>1, <2>1, FS_Subset
<1>3. IsTime(<<>>)
  BY DEF IsTime
<1>4. /\ EndpointsIn(l, s).count = Cardinality(present)
      /\ EndpointsIn(l, s).time = IF present = {} THEN <<>> ELSE EndpointTime(l[Max(present)], s)
  BY DEF EndpointsIn
<1>5. \A n \in present : l[n] \in Range(l)
  BY DEF Range
<1> HIDE DEF present
<1>6. CASE present = {}
  BY <1>2, <1>3, <1>4, <1>6, FS_CardinalityType
<1>7. CASE present # {}
  <2>1. Max(present) \in present
    BY <1>2, <1>7, MaxIsGreatest
  <2> QED
    BY <1>2, <1>4, <1>5, <1>7, <2>1, FS_CardinalityType
<1> QED
  BY <1>6, <1>7

\* The endpoints of an execution have times in a state.
TimedIn(x, s) ==
  /\ x.starts \in Seq(Range(x.starts)) /\ x.ends \in Seq(Range(x.ends))
  /\ \A e \in EndpointsOf(x) : IsTime(EndpointTime(e, s))

LEMMA ProjectionTyped ==
  ASSUME NEW x, NEW s, TimedIn(x, s), NEW p, p = ProjectExecution(x, s)
  PROVE  /\ p.start.count \in Nat /\ p.end.count \in Nat
         /\ IsTime(p.start.time) /\ IsTime(p.end.time)
         /\ p.start.time # <<>> => p.start.time[1] \in Int
         /\ p.end.time # <<>> => p.end.time[1] \in Int
<1>1. p.start = EndpointsIn(x.starts, s) /\ p.end = EndpointsIn(x.ends, s)
  BY DEF ProjectExecution
<1>2. /\ \A e \in Range(x.starts) : IsTime(EndpointTime(e, s))
      /\ \A e \in Range(x.ends) : IsTime(EndpointTime(e, s))
  BY DEF TimedIn, EndpointsOf
<1>3. EndpointsIn(x.starts, s).count \in Nat /\ IsTime(EndpointsIn(x.starts, s).time)
  BY <1>2, EndpointsTyped DEF TimedIn
<1>4. EndpointsIn(x.ends, s).count \in Nat /\ IsTime(EndpointsIn(x.ends, s).time)
  BY <1>2, EndpointsTyped DEF TimedIn
<1> QED
  BY <1>1, <1>3, <1>4, TimeHasMinute

\* The window of a query, and its reference values.
Measured(q) ==
  /\ q.window \in Int /\ q.horizon \in Int
  /\ \A n \in DOMAIN q.threshold : q.threshold[n] \in Int

\* An execution is satisfied in its interval where it is closed.
LEMMA SatisfiedIsClosed ==
  ASSUME NEW x, NEW q, NEW s, TimedIn(x, s), Measured(q), NEW p, p = ProjectExecution(x, s)
  PROVE  /\ Interval(x, p, q) = "satisfied" <=> Closed(x, q, s)
         /\ Interval(x, p, q) \in {"satisfied", "pending", "inapplicable", "unresolved"}
         /\ Closed(x, q, s) => p.start.time[1] \in Int /\ p.end.time[1] \in Int
<1>1. /\ p.start.time # <<>> => p.start.time[1] \in Int
      /\ p.end.time # <<>> => p.end.time[1] \in Int
  BY ProjectionTyped
<1>2. KnownEnd(p, q) => p.end.time[1] \in Int
  BY <1>1 DEF KnownEnd, Timed
<1>3. Closed(x, q, s) <=> KnownEnd(p, q) /\ p.end.time[1] <= q.horizon
  BY DEF Closed, KnownEnd, InWindow, ValidStart, Timed
<1>4. CASE KnownEnd(p, q) /\ p.end.time[1] <= q.horizon
  <2>1. ~ (p.end.time[1] > q.horizon)
    BY <1>2, <1>4 DEF Measured
  <2>2. p.end.count # 0
    BY <1>4 DEF KnownEnd, Timed
  <2>3. Interval(x, p, q) = "satisfied"
    BY <1>4, <2>1, <2>2 DEF Interval
  <2> QED
    BY <1>1, <1>3, <1>4, <2>3 DEF Closed
<1>5. CASE ~ (KnownEnd(p, q) /\ p.end.time[1] <= q.horizon)
  <2>1. Interval(x, p, q) \in {"pending", "inapplicable", "unresolved"}
    BY <1>5 DEF Interval
  <2> QED
    BY <1>3, <1>5, <2>1
<1> QED
  BY <1>4, <1>5

\* With a reference value, an execution is violated where it is late.
LEMMA ObligationIsLate ==
  ASSUME NEW x, NEW q, NEW s, TimedIn(x, s), Measured(q), NEW p, p = ProjectExecution(x, s)
  PROVE  /\ Obligation(x, p, q) \in {"satisfied", "violated"} <=> HasThreshold(x, q) /\ Closed(x, q, s)
         /\ Obligation(x, p, q) = "violated" <=> HasThreshold(x, q) /\ Late(x, q, s)
<1>1. /\ Interval(x, p, q) = "satisfied" <=> Closed(x, q, s)
      /\ Interval(x, p, q) \in {"satisfied", "pending", "inapplicable", "unresolved"}
      /\ Closed(x, q, s) => p.start.time[1] \in Int /\ p.end.time[1] \in Int
  BY SatisfiedIsClosed
<1>2. Late(x, q, s) <=> Closed(x, q, s) /\ Duration(p) > q.threshold[x.id]
  BY DEF Late
<1> QED
  BY <1>1, <1>2 DEF Obligation

\* A listing of a set by when its elements start.
ListsByStart(o, C) ==
  /\ o \in [1..Cardinality(C) -> C]
  /\ Range(o) = C
  /\ \A m, n \in DOMAIN o : m < n => o[m].start <= o[n].start

\* Every finite set has one.
LEMMA ListingExists ==
  ASSUME NEW C, IsFiniteSet(C), \A c \in C : c.start \in Int
  PROVE  \E o : ListsByStart(o, C)
<1> DEFINE P == {t \in SUBSET C : \E o : ListsByStart(o, t)}
<1>1. ASSUME NEW t \in SUBSET C, t # {}, \A x \in t : t \ {x} \in P
      PROVE  t \in P
  <2> DEFINE f == [c \in t |-> c.start]
  <2>1. IsFiniteSet(t)
    BY FS_Subset
  <2>2. Ints(f, t)
    BY DEF Ints
  <2>3. PICK x \in t : \A y \in t : f[y] <= f[x]
    <3> HIDE DEF f
    <3> QED
      BY <1>1, <2>1, <2>2, GreatestBy
  <2>4. \A y \in t : y.start <= x.start
    BY <2>3
  <2>5. PICK o : ListsByStart(o, t \ {x})
    BY <1>1, <2>3
  <2>6. PICK n : n = Cardinality(t \ {x})
    OBVIOUS
  <2>7. n \in Nat /\ Cardinality(t) = n + 1
    <3>1. IsFiniteSet(t \ {x}) /\ Cardinality(t \ {x}) = Cardinality(t) - 1
      BY <2>1, <2>3, FS_RemoveElement
    <3> QED
      BY <2>1, <2>6, <3>1, FS_CardinalityType
  <2>8. /\ o \in [1..n -> t \ {x}] /\ {o[i] : i \in 1..n} = t \ {x}
        /\ \A i, j \in 1..n : i < j => o[i].start <= o[j].start
    BY <2>5, <2>6 DEF ListsByStart, Range
  <2> DEFINE e == [i \in 1..n + 1 |-> IF i = n + 1 THEN x ELSE o[i]]
  <2>9. e \in [1..n + 1 -> t]
    BY <2>3, <2>7, <2>8
  <2>10. \A y \in t : \E i \in 1..n + 1 : y = e[i]
    <3>1. ASSUME NEW y \in t, y # x PROVE \E i \in 1..n + 1 : y = e[i]
      <4>1. PICK i \in 1..n : y = o[i]
        BY <2>8, <3>1
      <4>2. i \in 1..n + 1 /\ i # n + 1
        BY <2>7
      <4> QED
        BY <4>1, <4>2
    <3>2. n + 1 \in 1..n + 1 /\ e[n + 1] = x
      BY <2>7
    <3> QED
      BY <3>1, <3>2
  <2>11. \A i, j \in 1..n + 1 : i < j => e[i].start <= e[j].start
    <3>1. ASSUME NEW i \in 1..n + 1, NEW j \in 1..n + 1, i < j PROVE e[i].start <= e[j].start
      <4>1. i \in 1..n
        BY <2>7, <3>1
      <4>2. CASE j = n + 1
        <5>1. e[j] = x /\ e[i] \in t
          BY <2>9, <4>2
        <5> QED
          BY <2>4, <5>1
      <4>3. CASE j # n + 1
        <5>1. j \in 1..n /\ i # n + 1 /\ i \in 1..n + 1 /\ j \in 1..n + 1
          BY <2>7, <4>1, <4>3
        <5>2. e[j] = o[j] /\ e[i] = o[i]
          BY <4>3, <5>1
        <5> QED
          BY <2>8, <3>1, <4>1, <5>1, <5>2
      <4> QED
        BY <4>2, <4>3
    <3> QED
      BY <3>1
  <2>12. DOMAIN e = 1..n + 1
    OBVIOUS
  <2> HIDE DEF e
  <2>13. Range(e) = t
    BY <2>9, <2>10, <2>12 DEF Range
  <2>14. ListsByStart(e, t)
    BY <2>7, <2>9, <2>11, <2>12, <2>13 DEF ListsByStart
  <2> QED
    BY <2>14
<1>2. {} \in P
  <2>1. Cardinality({}) = 0 /\ 1..0 = {}
    BY FS_EmptySet
  <2> DEFINE o == [i \in {} |-> i]
  <2>2. DOMAIN o = {} /\ o \in [{} -> {}]
    OBVIOUS
  <2> HIDE DEF o
  <2>3. ListsByStart(o, {})
    BY <2>1, <2>2 DEF ListsByStart, Range
  <2> QED
    BY <2>3
<1>3. \A t \in SUBSET C : t # {} => \E x \in t : t \ {x} \in P => t \in P
  <2> HIDE DEF P
  <2> QED
    BY <1>1
<1> HIDE DEF P
<1>4. \A t \in SUBSET C : t \in P
  BY <1>2, <1>3, Removing
<1>5. C \in P
  BY <1>4
<1> QED
  BY <1>5 DEF P

\* Conditions begin, and end if they end, at a time.
Placed(conditions) ==
  /\ conditions \in Seq(Range(conditions))
  /\ \A c \in Range(conditions) : c.start \in Int /\ IsTime(c.end)

LEMMA InOrderLists ==
  ASSUME NEW conditions, Placed(conditions)
  PROVE  ListsByStart(InOrder(conditions), Range(conditions)) /\ IsFiniteSet(Range(conditions))
<1>1. conditions \in [1..Len(conditions) -> Range(conditions)] /\ Len(conditions) \in Nat
  BY DEF Placed
<1>2. IsFiniteSet(Range(conditions))
  <2>1. IsFiniteSet(1..Len(conditions))
    BY <1>1, FS_Interval
  <2>2. \A c \in Range(conditions) : \E i \in 1..Len(conditions) : conditions[i] = c
    BY <1>1 DEF Range
  <2>3. conditions \in Surjection(1..Len(conditions), Range(conditions))
    BY <1>1, <2>2 DEF Surjection
  <2> QED
    BY <2>1, <2>3, FS_Surjection
<1>3. PICK C : C = Range(conditions)
  OBVIOUS
<1>4. \E o : ListsByStart(o, C)
  BY <1>2, <1>3, ListingExists DEF Placed
<1>5. \E o \in [1..Cardinality(C) -> C] : Range(o) = C /\ \A m, n \in DOMAIN o : m < n => o[m].start <= o[n].start
  BY <1>4 DEF ListsByStart
<1>6. ListsByStart(InOrder(conditions), C)
  BY <1>3, <1>5 DEF InOrder, ListsByStart
<1> QED
  BY <1>2, <1>3, <1>6

\* Where an execution is closed, what the conditions add in their order is the
\* minutes of it that are in one of them.
LEMMA OverlapIsMinutes ==
  ASSUME NEW x, NEW q, NEW s, TimedIn(x, s), Measured(q), Placed(q.conditions),
         NEW p, p = ProjectExecution(x, s), Closed(x, q, s)
  PROVE  /\ Overlap(p, q, s) = Cardinality(MinutesIn(x, q, s))
         /\ Cardinality(MinutesIn(x, q, s)) \in Nat
<1>1. PICK o : o = InOrder(q.conditions)
  OBVIOUS
<1>2. PICK C : C = Range(q.conditions)
  OBVIOUS
<1>3. PICK N : N = Cardinality(C)
  OBVIOUS
<1>4. /\ o \in [1..N -> C] /\ N \in Nat /\ DOMAIN o = 1..N
      /\ \A c \in C : \E n \in 1..N : c = o[n]
      /\ \A m, n \in 1..N : m < n => o[m].start <= o[n].start
  <2>1. ListsByStart(o, C) /\ IsFiniteSet(C)
    BY <1>1, <1>2, InOrderLists
  <2> QED
    BY <1>3, <2>1, FS_CardinalityType DEF ListsByStart, Range
<1>5. PICK a, b : a = p.start.time[1] /\ b = p.end.time[1]
  OBVIOUS
<1>6. a \in Int /\ b \in Int /\ q.horizon \in Int
  BY <1>5, SatisfiedIsClosed DEF Measured
<1> DEFINE u == [n \in 1..N |-> Until(o[n], p, q)]
           e == [n \in 1..N |-> IF o[n].end = <<>> THEN q.horizon ELSE o[n].end[1]]
           present == {n \in 1..N : Holds(o[n].present, s)}
<1>7. \A n \in 1..N : /\ o[n].start \in Int /\ e[n] \in Int /\ u[n] \in Int
                      /\ u[n] = Until(o[n], p, q)
                      /\ u[n] <= b /\ u[n] <= e[n] /\ (u[n] = b \/ u[n] = e[n])
  <2>1. ASSUME NEW n \in 1..N PROVE o[n].start \in Int /\ e[n] \in Int
    <3>1. o[n] \in C
      BY <1>4
    <3> QED
      BY <1>2, <1>6, <3>1, TimeHasMinute DEF Placed
  <2>2. ASSUME NEW n \in 1..N PROVE u[n] = AtMost(b, e[n])
    BY <1>5 DEF Until
  <2> QED
    BY <1>6, <2>1, <2>2 DEF AtMost
<1>8. \A n \in 1..N : n \in present <=> Holds(o[n].present, s)
  OBVIOUS
<1>9. present \subseteq 1..N /\ IsFiniteSet(present)
  BY <1>4, FS_Interval, FS_Subset
<1>10. \A c \in C : e[CHOOSE n \in 1..N : c = o[n]] = IF c.end = <<>> THEN q.horizon ELSE c.end[1]
  BY <1>4
<1>11. \A n \in 1..N : e[n] = IF o[n].end = <<>> THEN q.horizon ELSE o[n].end[1]
  OBVIOUS
<1> HIDE DEF u, e, present
<1>12. PICK M : M = MinutesIn(x, q, s)
  OBVIOUS
<1>13. /\ M \subseteq Int
       /\ \A m \in Int : m \in M <=> a <= m /\ m < b /\ \E n \in present : o[n].start <= m /\ m < u[n]
  <2>1. M = {m \in a .. b - 1 : \E c \in C : /\ Holds(c.present, s)
                /\ c.start <= m /\ m < (IF c.end = <<>> THEN q.horizon ELSE c.end[1])}
    BY <1>2, <1>5, <1>12 DEF MinutesIn
  <2>2. ASSUME NEW m \in Int, a <= m, m < b
        PROVE  (\E c \in C : Holds(c.present, s) /\ c.start <= m /\ m < (IF c.end = <<>> THEN q.horizon ELSE c.end[1]))
                 <=> \E n \in present : o[n].start <= m /\ m < u[n]
    <3>1. ASSUME NEW c \in C, Holds(c.present, s), c.start <= m,
                 m < (IF c.end = <<>> THEN q.horizon ELSE c.end[1])
          PROVE  \E n \in present : o[n].start <= m /\ m < u[n]
      <4>1. PICK n \in 1..N : c = o[n]
        BY <1>4
      <4>2. m < e[n] /\ n \in present
        BY <1>8, <1>11, <3>1, <4>1
      <4>3. m < u[n]
        BY <1>6, <1>7, <2>2, <4>2
      <4> QED
        BY <3>1, <4>1, <4>2, <4>3
    <3>2. ASSUME NEW n \in present, o[n].start <= m, m < u[n]
          PROVE  \E c \in C : Holds(c.present, s) /\ c.start <= m /\ m < (IF c.end = <<>> THEN q.horizon ELSE c.end[1])
      <4>1. n \in 1..N /\ o[n] \in C /\ Holds(o[n].present, s)
        BY <1>4, <1>8, <1>9
      <4>2. m < e[n]
        BY <1>7, <3>2, <4>1
      <4> QED
        BY <1>11, <3>2, <4>1, <4>2
    <3> QED
      BY <3>1, <3>2
  <2>3. M \subseteq a .. b - 1
    BY <2>1
  <2>4. \A m \in Int : m \in a .. b - 1 <=> a <= m /\ m < b
    BY <1>6
  <2>5. ASSUME NEW m \in Int
        PROVE  m \in M <=> a <= m /\ m < b /\ \E n \in present : o[n].start <= m /\ m < u[n]
    BY <2>1, <2>2, <2>4
  <2> QED
    BY <1>6, <2>3, <2>5
<1>14. IsFiniteSet(M)
  <2>1. M \subseteq a .. b - 1
    BY <1>6, <1>13
  <2>2. IsFiniteSet(a .. b - 1)
    BY <1>6, FS_Interval
  <2> QED
    BY <2>1, <2>2, FS_Subset
<1> DEFINE w == [m \in M |-> 1]
           first == [m \in M |-> CHOOSE n \in present : m < u[n] /\ \A k \in present : k < n => u[k] <= m]
           gained == [n \in present |-> Gained(o, n, p, q, s)]
<1>15. ASSUME NEW m \in M
       PROVE  /\ first[m] \in present /\ m < u[first[m]] /\ o[first[m]].start <= m
              /\ \A k \in present : k < first[m] => u[k] <= m
  <2> DEFINE after == {n \in present : m < u[n]}
  <2>1. m \in Int /\ after # {} /\ after \subseteq Nat
    <3>1. m \in Int
      BY <1>13
    <3>2. \E n \in present : m < u[n]
      BY <1>13, <3>1
    <3>3. after # {}
      BY <3>2
    <3>4. after \subseteq Nat
      <4>1. after \subseteq present /\ 1..N \subseteq Nat
        BY <1>4
      <4> HIDE DEF after
      <4> QED
        BY <1>9, <4>1
    <3> QED
      BY <3>1, <3>3, <3>4
  <2>2. PICK n \in after : \A k \in after : n <= k
    <3> HIDE DEF after
    <3> QED
      BY <2>1, LeastNumber
  <2>3. \A k \in present : k < n => u[k] <= m
    BY <1>4, <1>7, <1>9, <2>1, <2>2
  <2>4. /\ first[m] \in present /\ m < u[first[m]]
        /\ \A k \in present : k < first[m] => u[k] <= m
    BY <2>2, <2>3
  <2>5. o[first[m]].start <= m
    <3>1. PICK k \in present : o[k].start <= m /\ m < u[k]
      BY <1>13, <2>1
    <3>2. first[m] \in 1..N /\ k \in 1..N
      BY <1>9, <2>4
    <3>3. ~ (k < first[m])
      BY <1>7, <2>1, <2>4, <3>1, <3>2
    <3>4. k = first[m] \/ o[first[m]].start <= o[k].start
      BY <1>4, <3>2, <3>3
    <3> HIDE DEF first
    <3> QED
      BY <1>7, <2>1, <3>1, <3>2, <3>4
  <2> QED
    BY <2>4, <2>5
<1>16. \A m, n, k : m \in M /\ n \in present /\ m < u[n] /\ (\A j \in present : j < n => u[j] <= m)
                      => first[m] = n
  <2>1. ASSUME NEW m \in M, NEW n \in present, m < u[n], \A j \in present : j < n => u[j] <= m
        PROVE  first[m] = n
    <3>1. /\ first[m] \in present /\ m < u[first[m]]
          /\ \A k \in present : k < first[m] => u[k] <= m
      BY <1>15
    <3>2. PICK f : f = first[m]
      OBVIOUS
    <3> HIDE DEF first
    <3>3. f \in 1..N /\ n \in 1..N /\ m \in Int /\ u[f] \in Int /\ u[n] \in Int
      BY <1>7, <1>9, <1>13, <3>1, <3>2
    <3>4. ~ (f < n) /\ ~ (n < f)
      BY <2>1, <3>1, <3>2, <3>3
    <3> QED
      BY <3>2, <3>3, <3>4
  <2> QED
    BY <2>1
<1>17. ASSUME NEW n \in present
       PROVE  gained[n] = SumFunctionOnSet(w, {m \in M : first[m] = n})
  <2>1. n \in 1..N /\ gained[n] = Gained(o, n, p, q, s)
    BY <1>9
  <2> DEFINE before == {m \in DOMAIN o : m < n /\ Holds(o[m].present, s)}
             ends == {Until(o[m], p, q) : m \in before}
             reached == Reached(o, n, p, q, s)
  <2>2. \A m \in 1..N : m \in before <=> m \in present /\ m < n
    BY <1>4, <1>8
  <2>3. before \subseteq 1..N
    BY <1>4
  <2>4. {a} \union ends \subseteq Int /\ IsFiniteSet({a} \union ends)
    <3> HIDE DEF before
    <3>1. ends \subseteq Int
      BY <1>7, <2>3
    <3>2. IsFiniteSet(before)
      <4>1. IsFiniteSet(1..N)
        BY <1>4, FS_Interval
      <4> QED
        BY <2>3, <4>1, FS_Subset
    <3> DEFINE h == [m \in before |-> Until(o[m], p, q)]
    <3>3. h \in Surjection(before, ends)
      BY DEF Surjection
    <3>4. IsFiniteSet(ends)
      <4> HIDE DEF h, ends
      <4> QED
        BY <3>2, <3>3, FS_Surjection
    <3>5. IsFiniteSet({a})
      BY FS_Singleton
    <3> HIDE DEF ends
    <3> QED
      BY <1>6, <3>1, <3>4, <3>5, FS_Union
  <2>5. reached \in {a} \union ends /\ \A y \in {a} \union ends : y <= reached
    <3>1. reached = Max({a} \union ends)
      BY <1>5 DEF Reached
    <3>2. PICK T : T = {a} \union ends
      OBVIOUS
    <3> HIDE DEF ends, reached
    <3>3. T \in SUBSET Int /\ IsFiniteSet(T) /\ T # {}
      BY <2>4, <3>2
    <3>4. Max(T) \in T /\ \A y \in T : y <= Max(T)
      BY <3>3, MaxIsGreatest
    <3> QED
      BY <3>1, <3>2, <3>4
  <2>6. /\ reached \in Int /\ a <= reached
        /\ \A k \in present : k < n => u[k] <= reached
        /\ reached = a \/ \E k \in present : k < n /\ u[k] = reached
    <3>1. reached \in Int /\ a <= reached
      BY <1>6, <2>4, <2>5
    <3>2. ASSUME NEW k \in present, k < n PROVE u[k] <= reached
      <4>1. k \in before /\ u[k] = Until(o[k], p, q)
        BY <1>7, <1>9, <2>2, <3>2
      <4> QED
        BY <2>5, <4>1
    <3>3. ASSUME reached # a PROVE \E k \in present : k < n /\ u[k] = reached
      <4>1. PICK k \in before : reached = Until(o[k], p, q)
        BY <2>5, <3>3
      <4> QED
        BY <1>7, <2>2, <2>3, <4>1
    <3> QED
      BY <3>1, <3>2, <3>3
  <2> DEFINE l == AtLeast(AtLeast(a, o[n].start), reached)
  <2>7. gained[n] = AtLeast(0, u[n] - l)
    BY <1>5, <1>7, <2>1 DEF Gained
  <2>8. /\ l \in Int /\ a <= l /\ o[n].start <= l /\ reached <= l
        /\ l = a \/ l = o[n].start \/ l = reached
    BY <1>6, <1>7, <2>1, <2>6 DEF AtLeast
  <2> HIDE DEF l, reached, before, ends
  <2> DEFINE piece == {m \in M : first[m] = n}
  <2>9. \A m \in Int : m \in piece <=> l <= m /\ m < u[n]
    <3>1. ASSUME NEW m \in piece PROVE l <= m /\ m < u[n]
      <4>1. m \in M /\ m \in Int /\ m < u[n] /\ o[n].start <= m /\ a <= m
        BY <1>13, <1>15
      <4>2. \A k \in present : k < n => u[k] <= m
        BY <1>15, <4>1
      <4>3. reached <= m
        BY <2>6, <4>1, <4>2
      <4> QED
        BY <2>8, <4>1, <4>3
    <3>2. ASSUME NEW m \in Int, l <= m, m < u[n] PROVE m \in piece
      <4>1. a <= m /\ o[n].start <= m /\ reached <= m /\ m < b
        BY <1>6, <1>7, <2>1, <2>6, <2>8, <3>2
      <4>2. m \in M
        BY <1>13, <3>2, <4>1
      <4>3. \A k \in present : k < n => u[k] <= m
        BY <1>7, <1>9, <2>6, <4>1
      <4>4. first[m] = n
        <5> HIDE DEF first
        <5> QED
          BY <1>16, <3>2, <4>2, <4>3
      <4> QED
        BY <4>2, <4>4
    <3> QED
      BY <3>1, <3>2
  <2>10. u[n] \in Int /\ piece \subseteq Int
    BY <1>7, <1>13, <2>1
  <2>11. \A m \in piece : w[m] = 1
    OBVIOUS
  <2>12. Cardinality(piece) = AtLeast(0, u[n] - l) /\ IsFiniteSet(piece)
    <3> HIDE DEF piece
    <3>0. \A m \in Int : m \in l .. u[n] - 1 <=> l <= m /\ m < u[n]
      BY <2>8, <2>10
    <3>1. piece = l .. u[n] - 1
      <4>1. PICK T : T = l .. u[n] - 1
        OBVIOUS
      <4>2. T \subseteq Int /\ \A m \in Int : m \in T <=> m \in piece
        BY <2>8, <2>9, <2>10, <3>0, <4>1
      <4> QED
        BY <2>10, <4>1, <4>2
    <3>2. l \in Int /\ u[n] - 1 \in Int
      BY <2>8, <2>10
    <3>3. /\ IsFiniteSet(l .. u[n] - 1)
          /\ Cardinality(l .. u[n] - 1) = IF l > u[n] - 1 THEN 0 ELSE (u[n] - 1) - l + 1
      BY <3>2, FS_Interval
    <3> QED
      BY <2>8, <2>10, <3>1, <3>3 DEF AtLeast
  <2>13. SumFunctionOnSet(w, piece) = Cardinality(piece)
    <3> HIDE DEF piece, w
    <3> QED
      BY <2>11, <2>12, SumCounts
  <2> QED
    BY <2>7, <2>12, <2>13
<1>18. \A m \in M : first[m] \in present /\ w[m] = 1
  BY <1>15
<1> HIDE DEF first, w
<1>19. DOMAIN gained = present
  OBVIOUS
<1>20. Overlap(p, q, s) = SumFunction(gained)
  BY <1>1, <1>4 DEF Overlap, present
<1> HIDE DEF gained
<1>21. Grouped(gained, first, w, M, present)
  BY <1>17, <1>18 DEF Grouped
<1>22. SumFunctionOnSet(gained, present) = SumFunctionOnSet(w, M)
  BY <1>9, <1>14, <1>18, <1>21, SumByKey DEF Ints
<1>23. SumFunctionOnSet(w, M) = Cardinality(M)
  BY <1>14, <1>18, SumCounts
<1>24. SumFunction(gained) = SumFunctionOnSet(gained, present)
  BY <1>19 DEF SumFunction
<1> QED
  BY <1>12, <1>14, <1>20, <1>22, <1>23, <1>24, FS_CardinalityType

-----------------------------------------------------------------------------
(***************************************************************************)
(* What a row says of an execution, by the keys of its scope               *)
(***************************************************************************)
\* A query, or a part of one.
QueryOK(q) ==
  /\ q.kind \in Kinds /\ q.covered \in BOOLEAN
  /\ q.executions \in Seq(Range(q.executions)) /\ Distinct(q.executions)
  /\ Measured(q) /\ Placed(q.conditions)
  /\ \A x \in Range(q.executions) :
       /\ x.starts \in Seq(Range(x.starts)) /\ x.ends \in Seq(Range(x.ends))
       /\ \A e \in EndpointsOf(x) :
            /\ IsTime(e.time)
            /\ e.timeKey # "" => \A r \in Results : \A t \in HeldUnder(e.timeKey, r) : IsTime(t)

\* A sequence over the values it has: its places, and its values, are finitely many.
LEMMA Listed ==
  ASSUME NEW l, l \in Seq(Range(l))
  PROVE  /\ Len(l) \in Nat /\ DOMAIN l = 1..Len(l) /\ l \in [1..Len(l) -> Range(l)]
         /\ IsFiniteSet(1..Len(l)) /\ IsFiniteSet(Range(l)) /\ 1..Len(l) \subseteq Int
<1>1. l \in [1..Len(l) -> Range(l)] /\ Len(l) \in Nat /\ DOMAIN l = 1..Len(l)
  OBVIOUS
<1>2. IsFiniteSet(1..Len(l))
  BY <1>1, FS_Interval
<1>3. l \in Surjection(1..Len(l), Range(l))
  BY <1>1 DEF Surjection, Range
<1> QED
  BY <1>1, <1>2, <1>3, FS_Surjection

LEMMA QueriesOK ==
  ASSUME NEW q \in QuerySpecs
  PROVE  QueryOK(q) /\ "executions" \in DOMAIN q
<1>1. IsInjective([i \in DOMAIN q.executions |-> q.executions[i].id])
  BY ResultAssumption
<1>2. Distinct(q.executions)
  BY <1>1 DEF Distinct, IsInjective
<1>3. Measured(q)
  <2>1. {q.window, q.horizon} \subseteq Int /\ \A n \in DOMAIN q.threshold : q.threshold[n] \in Int
    BY ResultAssumption
  <2> QED
    BY <2>1 DEF Measured
<1>4. Placed(q.conditions)
  BY ResultAssumption DEF Placed
<1>5. ASSUME NEW x \in Range(q.executions)
      PROVE  /\ x.starts \in Seq(Range(x.starts)) /\ x.ends \in Seq(Range(x.ends))
             /\ \A e \in EndpointsOf(x) :
                  /\ IsTime(e.time)
                  /\ e.timeKey # "" => \A r \in Results : \A t \in HeldUnder(e.timeKey, r) : IsTime(t)
  BY ResultAssumption DEF EndpointsOf
<1>6. /\ q.kind \in Kinds /\ q.covered \in BOOLEAN
      /\ "executions" \in DOMAIN q /\ q.executions \in Seq(Range(q.executions))
  BY ResultAssumption
<1> QED
  BY <1>2, <1>3, <1>4, <1>5, <1>6 DEF QueryOK

\* The executions of a query are finitely many.
LEMMA ExecutionsFinite ==
  ASSUME NEW q, QueryOK(q)
  PROVE  IsFiniteSet(Range(q.executions))
BY Listed DEF QueryOK

\* The keys of its tests, its events, its times and the conditions are a scope's.
LEMMA ScopeHas ==
  ASSUME NEW x, NEW q
  PROVE  /\ KeysOf(x.when) \subseteq ScopeOf(x, q)
         /\ \A e \in EndpointsOf(x) : /\ e.event \in ScopeOf(x, q)
                                      /\ KeysOf(e.association) \subseteq ScopeOf(x, q)
                                      /\ e.timeKey # "" => e.timeKey \in ScopeOf(x, q)
         /\ \A c \in Range(q.conditions) : KeysOf(c.present) \subseteq ScopeOf(x, q)
<1>1. KeysOf(x.when) \subseteq ScopeOf(x, q)
  BY DEF ScopeOf
<1>2. ASSUME NEW e \in EndpointsOf(x)
      PROVE  e.event \in ScopeOf(x, q) /\ KeysOf(e.association) \subseteq ScopeOf(x, q)
  <2>1. e.event \in ScopeOf(x, q)
    BY DEF ScopeOf
  <2>2. KeysOf(e.association) \subseteq UNION {KeysOf(f.association) : f \in EndpointsOf(x)}
    OBVIOUS
  <2> QED
    BY <2>1, <2>2 DEF ScopeOf
<1>3. ASSUME NEW e \in EndpointsOf(x), e.timeKey # ""
      PROVE  e.timeKey \in ScopeOf(x, q)
  <2>1. e.timeKey \in ({f.timeKey : f \in EndpointsOf(x)} \ {""})
    BY <1>3
  <2> QED
    BY <2>1 DEF ScopeOf
<1>4. ASSUME NEW c \in Range(q.conditions), NEW k \in KeysOf(c.present)
      PROVE  k \in ScopeOf(x, q)
  <2>1. k \in UNION {KeysOf(d.present) : d \in Range(q.conditions)}
    OBVIOUS
  <2> QED
    BY <2>1 DEF ScopeOf
<1> QED
  BY <1>1, <1>2, <1>3, <1>4

\* States that have the same under the keys of an execution.
SameOn(s, t, K) == \A k \in K : s[k] = t[k]

LEMMA TestsTell ==
  ASSUME NEW tests, NEW s, NEW t, SameOn(s, t, KeysOf(tests))
  PROVE  Holds(tests, s) <=> Holds(tests, t)
BY DEF SameOn, Holds, KeysOf

LEMMA EndpointsTell ==
  ASSUME NEW l, l \in Seq(Range(l)), NEW s, NEW t,
         \A e \in Range(l) : SameOn(s, t, KeysOf(e.association) \union {e.event} \union ({e.timeKey} \ {""}))
  PROVE  /\ EndpointsIn(l, s) = EndpointsIn(l, t)
         /\ \A e \in Range(l) : EndpointTime(e, s) = EndpointTime(e, t)
<1>1. ASSUME NEW e \in Range(l)
      PROVE  (Occurs(e, s) <=> Occurs(e, t)) /\ EndpointTime(e, s) = EndpointTime(e, t)
  <2>1. SameOn(s, t, KeysOf(e.association)) /\ s[e.event] = t[e.event]
    BY DEF SameOn
  <2>2. e.timeKey # "" => s[e.timeKey] = t[e.timeKey]
    BY DEF SameOn
  <2> QED
    BY <2>1, <2>2, TestsTell DEF Occurs, EndpointTime
<1>2. \A n \in DOMAIN l : l[n] \in Range(l)
  BY DEF Range
<1> DEFINE present == {n \in DOMAIN l : Occurs(l[n], s)}
           other == {n \in DOMAIN l : Occurs(l[n], t)}
<1>3. present = other
  BY <1>1, <1>2
<1>4. present # {} => Max(present) \in DOMAIN l
  <2>1. DOMAIN l = 1..Len(l) /\ Len(l) \in Nat /\ IsFiniteSet(1..Len(l))
    BY Listed
  <2>2. present \subseteq 1..Len(l)
    BY <2>1
  <2> HIDE DEF present
  <2>3. IsFiniteSet(present)
    BY <2>1, <2>2, FS_Subset
  <2>4. present \subseteq Int
    <3>1. 1..Len(l) \subseteq Int
      BY Listed
    <3> QED
      BY <2>2, <3>1
  <2> QED
    BY <2>1, <2>2, <2>3, <2>4, MaxIsGreatest
<1>5. EndpointsIn(l, s) = [count |-> Cardinality(present),
                           time |-> IF present = {} THEN <<>> ELSE EndpointTime(l[Max(present)], s)]
  BY DEF EndpointsIn
<1>6. EndpointsIn(l, t) = [count |-> Cardinality(other),
                           time |-> IF other = {} THEN <<>> ELSE EndpointTime(l[Max(other)], t)]
  BY DEF EndpointsIn
<1> HIDE DEF present, other
<1>7. (IF present = {} THEN <<>> ELSE EndpointTime(l[Max(present)], s))
        = (IF other = {} THEN <<>> ELSE EndpointTime(l[Max(other)], t))
  BY <1>1, <1>2, <1>3, <1>4
<1>8. EndpointsIn(l, s) = EndpointsIn(l, t)
  BY <1>3, <1>5, <1>6, <1>7
<1> QED
  BY <1>1, <1>8

\* What an execution adds is told by the keys of its scope.
LEMMA ScopeTells ==
  ASSUME NEW q, QueryOK(q), NEW x \in Range(q.executions), NEW s, NEW t, SameOn(s, t, ScopeOf(x, q))
  PROVE  Decided(x, q, s) = Decided(x, q, t) /\ Worth(x, q, s) = Worth(x, q, t)
<1>1. \A e \in EndpointsOf(x) : SameOn(s, t, KeysOf(e.association) \union {e.event} \union ({e.timeKey} \ {""}))
  <2> SUFFICES ASSUME NEW e \in EndpointsOf(x)
               PROVE  KeysOf(e.association) \union {e.event} \union ({e.timeKey} \ {""}) \subseteq ScopeOf(x, q)
    BY DEF SameOn
  <2>1. /\ e.event \in ScopeOf(x, q) /\ KeysOf(e.association) \subseteq ScopeOf(x, q)
        /\ e.timeKey # "" => e.timeKey \in ScopeOf(x, q)
    BY ScopeHas
  <2> QED
    BY <2>1
<1>2. \A c \in Range(q.conditions) : Holds(c.present, s) <=> Holds(c.present, t)
  <2> SUFFICES ASSUME NEW c \in Range(q.conditions) PROVE SameOn(s, t, KeysOf(c.present))
    BY TestsTell
  <2>1. KeysOf(c.present) \subseteq ScopeOf(x, q)
    BY ScopeHas
  <2> QED
    BY <2>1 DEF SameOn
<1>3. Holds(x.when, s) <=> Holds(x.when, t)
  <2>1. KeysOf(x.when) \subseteq ScopeOf(x, q)
    BY ScopeHas
  <2> QED
    BY <2>1, TestsTell DEF SameOn
<1>4. x.starts \in Seq(Range(x.starts)) /\ x.ends \in Seq(Range(x.ends))
  BY DEF QueryOK
<1>5. EndpointsIn(x.starts, s) = EndpointsIn(x.starts, t) /\ EndpointsIn(x.ends, s) = EndpointsIn(x.ends, t)
  <2>1. /\ \A e \in Range(x.starts) : SameOn(s, t, KeysOf(e.association) \union {e.event} \union ({e.timeKey} \ {""}))
        /\ \A e \in Range(x.ends) : SameOn(s, t, KeysOf(e.association) \union {e.event} \union ({e.timeKey} \ {""}))
    BY <1>1 DEF EndpointsOf
  <2>2. EndpointsIn(x.starts, s) = EndpointsIn(x.starts, t)
    BY <1>4, <2>1, EndpointsTell
  <2>3. EndpointsIn(x.ends, s) = EndpointsIn(x.ends, t)
    BY <1>4, <2>1, EndpointsTell
  <2> QED
    BY <2>2, <2>3
<1>6. ProjectExecution(x, s) = ProjectExecution(x, t)
  <2>1. Holds(x.when, s) = Holds(x.when, t)
    BY <1>3 DEF Holds
  <2> QED
    BY <1>5, <2>1 DEF ProjectExecution
<1>7. Closed(x, q, s) <=> Closed(x, q, t)
  BY <1>6 DEF Closed
<1>8. Late(x, q, s) <=> Late(x, q, t)
  BY <1>6, <1>7 DEF Late
<1>9. MinutesIn(x, q, s) = MinutesIn(x, q, t)
  <2>1. PICK p : p = ProjectExecution(x, s) /\ p = ProjectExecution(x, t)
    BY <1>6
  <2>2. MinutesIn(x, q, s) =
          {m \in p.start.time[1] .. p.end.time[1] - 1 :
             \E c \in Range(q.conditions) :
               Holds(c.present, s) /\ c.start <= m /\ m < (IF c.end = <<>> THEN q.horizon ELSE c.end[1])}
    BY <2>1 DEF MinutesIn
  <2>3. MinutesIn(x, q, t) =
          {m \in p.start.time[1] .. p.end.time[1] - 1 :
             \E c \in Range(q.conditions) :
               Holds(c.present, t) /\ c.start <= m /\ m < (IF c.end = <<>> THEN q.horizon ELSE c.end[1])}
    BY <2>1 DEF MinutesIn
  <2> QED
    BY <1>2, <2>2, <2>3
<1> QED
  BY <1>7, <1>8, <1>9 DEF Decided, Worth

\* Under the keys of its scope an execution finds what the result may hold.
LEMMA TimesAreHeld ==
  ASSUME NEW q, QueryOK(q), NEW x \in Range(q.executions), NEW r \in Results, NEW s,
         \A k \in ScopeOf(x, q) : s[k] \in HeldUnder(k, r)
  PROVE  TimedIn(x, s)
<1>1. ASSUME NEW e \in EndpointsOf(x) PROVE IsTime(EndpointTime(e, s))
  <2>1. e.timeKey # "" => e.timeKey \in ScopeOf(x, q)
    BY ScopeHas
  <2>2. IsTime(e.time) /\ (e.timeKey # "" => \A t \in HeldUnder(e.timeKey, r) : IsTime(t))
    BY DEF QueryOK
  <2> QED
    BY <2>1, <2>2 DEF EndpointTime
<1> QED
  BY <1>1 DEF TimedIn, QueryOK

\* What an execution adds is a number; to a denominator none or one.
LEMMA WorthTyped ==
  ASSUME NEW q, QueryOK(q), NEW x \in Range(q.executions), NEW s, TimedIn(x, s)
  PROVE  Decided(x, q, s) \in {0, 1} /\ Worth(x, q, s) \in Nat
<1>1. Closed(x, q, s) => Cardinality(MinutesIn(x, q, s)) \in Nat
  BY OverlapIsMinutes DEF QueryOK
<1> QED
  BY <1>1 DEF Decided, Worth

-----------------------------------------------------------------------------
(***************************************************************************)
(* Tables of some keys, and of all                                         *)
(***************************************************************************)
\* Of finite sets there are finitely many functions.
LEMMA FunctionsFinite ==
  ASSUME NEW K, IsFiniteSet(K), NEW T, IsFiniteSet(T)
  PROVE  IsFiniteSet([K -> T])
<1> DEFINE pairs(f) == {<<k, f[k]>> : k \in K}
           h == [f \in [K -> T] |-> pairs(f)]
<1>1. IsFiniteSet(SUBSET (K \X T))
  BY FS_Product, FS_SUBSET
<1>2. \A f \in [K -> T] : pairs(f) \in SUBSET (K \X T)
  OBVIOUS
<1>3. ASSUME NEW f \in [K -> T], NEW g \in [K -> T], pairs(f) = pairs(g)
      PROVE  f = g
  <2>1. ASSUME NEW k \in K PROVE f[k] = g[k]
    <3>1. <<k, f[k]>> \in pairs(g)
      BY <1>3
    <3> QED
      BY <3>1
  <2> QED
    BY <2>1
<1> HIDE DEF pairs
<1>4. h \in Injection([K -> T], SUBSET (K \X T))
  BY <1>2, <1>3 DEF Injection, IsInjective
<1> HIDE DEF h
<1> QED
  BY <1>1, <1>4, FS_Injection

LEMMA GridFinite ==
  ASSUME NEW r \in Results, NEW K \in SUBSET DOMAIN r.domains
  PROVE  IsFiniteSet(GridOf(r, K)) /\ IsFiniteSet(K)
<1>1. IsFiniteSet(K) /\ \A k \in K : r.domains[k] \in Seq(Range(r.domains[k]))
  BY ResultAssumption, FS_Subset
<1>2. \A k \in K : IsFiniteSet(DOMAIN r.domains[k])
  BY <1>1, Listed
<1> DEFINE D == {DOMAIN r.domains[k] : k \in K}
           f == [k \in K |-> DOMAIN r.domains[k]]
<1>3. f \in Surjection(K, D) /\ \A d \in D : IsFiniteSet(d)
  BY <1>2 DEF Surjection
<1>4. GridOf(r, K) \subseteq [K -> UNION D]
  BY DEF GridOf
<1> HIDE DEF D, f
<1>5. IsFiniteSet(D)
  BY <1>1, <1>3, FS_Surjection
<1>6. IsFiniteSet(UNION D)
  BY <1>3, <1>5, FS_UNION
<1> QED
  BY <1>1, <1>4, <1>6, FunctionsFinite, FS_Subset

\* An assignment of all keys is one of some of them.
LEMMA SomeKeys ==
  ASSUME NEW r, NEW D, NEW K \in SUBSET D, NEW h \in GridOf(r, D)
  PROVE  [k \in K |-> h[k]] \in GridOf(r, K)
BY DEF GridOf

\* A mean over the table of some keys adds up the weights of the whole result.
LEMMA MeanOnGrid ==
  ASSUME NEW r \in Results, NEW K \in SUBSET DOMAIN r.domains,
         NEW u, Ints(u, GridOf(r, K)),
         NEW w, \A h \in DOMAIN r.weight : w[h] = u[[k \in K |-> h[k]]] * r.weight[h]
  PROVE  Mean(ExactData(r, K), u) = SumFunctionOnSet(w, DOMAIN r.weight)
<1>1. PICK G : G = GridOf(r, K)
  OBVIOUS
<1>2. PICK A : A = DOMAIN r.weight
  OBVIOUS
<1> DEFINE key == [h \in A |-> [k \in K |-> h[k]]]
<1>3. \A h \in A : key[h] \in G /\ r.weight[h] \in Int /\ w[h] = u[key[h]] * r.weight[h]
  <2> SUFFICES ASSUME NEW h \in A PROVE [k \in K |-> h[k]] \in G /\ r.weight[h] \in Int
    BY <1>2
  <2>1. h \in GridOf(r, DOMAIN r.domains) /\ r.weight[h] \in Nat
    BY <1>2, ResultAssumption
  <2> QED
    BY <1>1, <2>1, SomeKeys
<1>4. IsFiniteSet(G)
  BY <1>1, GridFinite
<1>5. IsFiniteSet(A)
  <2>1. A \subseteq GridOf(r, DOMAIN r.domains)
    BY <1>2, ResultAssumption
  <2>2. IsFiniteSet(GridOf(r, DOMAIN r.domains))
    BY GridFinite
  <2> QED
    BY <2>1, <2>2, FS_Subset
<1> DEFINE m == [g \in G |-> u[g] * WeightsOf(r, K)[g]]
<1>6. ASSUME NEW g \in G
      PROVE  m[g] = SumFunctionOnSet(w, {h \in A : key[h] = g})
  <2> DEFINE some == {h \in A : key[h] = g}
  <2>1. some = {h \in A : \A k \in K : h[k] = g[k]}
    <3>1. DOMAIN g = K /\ g = [k \in K |-> g[k]]
      BY <1>1 DEF GridOf
    <3>2. ASSUME NEW h \in A PROVE key[h] = g <=> \A k \in K : h[k] = g[k]
      BY <3>1
    <3> QED
      BY <3>2
  <2>2. WeightsOf(r, K)[g] = SumFunctionOnSet(r.weight, some)
    BY <1>1, <1>2, <2>1 DEF WeightsOf
  <2>3. IsFiniteSet(some) /\ \A h \in some : h \in A /\ w[h] = u[g] * r.weight[h]
    BY <1>3, <1>5, FS_Subset
  <2>4. u[g] \in Int
    BY <1>1 DEF Ints
  <2> HIDE DEF some, key
  <2>5. Ints(r.weight, some)
    BY <1>3, <2>3 DEF Ints
  <2>6. SumFunctionOnSet(w, some) = u[g] * SumFunctionOnSet(r.weight, some)
    BY <2>3, <2>4, <2>5, SumScaled
  <2> QED
    BY <2>2, <2>6 DEF some
<1>7. Ints(w, A)
  <2> SUFFICES ASSUME NEW h \in A PROVE w[h] \in Int
    BY DEF Ints
  <2>1. w[h] = u[key[h]] * r.weight[h] /\ u[key[h]] \in Int /\ r.weight[h] \in Int
    BY <1>1, <1>3 DEF Ints
  <2> HIDE DEF key
  <2> QED
    BY <2>1
<1>8. Mean(ExactData(r, K), u) = SumFunctionOnSet(m, G)
  <2>1. ExactData(r, K).rows = G /\ ExactData(r, K).weight = WeightsOf(r, K)
    BY <1>1 DEF ExactData
  <2>2. DOMAIN m = G
    OBVIOUS
  <2>3. Mean(ExactData(r, K), u) = SumFunction(m)
    BY <2>1 DEF Mean
  <2> HIDE DEF m
  <2> QED
    BY <2>2, <2>3 DEF SumFunction
<1> HIDE DEF key, m
<1>9. Grouped(m, key, w, A, G)
  BY <1>3, <1>6 DEF Grouped
<1>10. SumFunctionOnSet(m, G) = SumFunctionOnSet(w, A)
  BY <1>4, <1>5, <1>7, <1>9, SumByKey
<1> QED
  BY <1>2, <1>8, <1>10

\* So what is said of some keys has one mean, on their own table and on all.
LEMMA MeansAgree ==
  ASSUME NEW r \in Results, NEW K \in SUBSET DOMAIN r.domains,
         NEW u, Ints(u, GridOf(r, K)),
         NEW v, \A h \in GridOf(r, DOMAIN r.domains) : v[h] = u[[k \in K |-> h[k]]]
  PROVE  Mean(ExactData(r, K), u) = Mean(ExactData(r, DOMAIN r.domains), v)
<1>1. PICK D : D = DOMAIN r.domains
  OBVIOUS
<1> DEFINE w == [h \in DOMAIN r.weight |-> u[[k \in K |-> h[k]]] * r.weight[h]]
<1>2. \A h \in DOMAIN r.weight : w[h] = u[[k \in K |-> h[k]]] * r.weight[h]
  OBVIOUS
<1>3. Ints(v, GridOf(r, D))
  <2> SUFFICES ASSUME NEW h \in GridOf(r, D) PROVE v[h] \in Int
    BY DEF Ints
  <2>1. PICK g : g = [k \in K |-> h[k]]
    OBVIOUS
  <2>2. g \in GridOf(r, K) /\ v[h] = u[g]
    BY <1>1, <2>1, SomeKeys
  <2> QED
    BY <2>2 DEF Ints
<1>4. \A h \in DOMAIN r.weight : w[h] = v[[k \in D |-> h[k]]] * r.weight[h]
  <2> SUFFICES ASSUME NEW h \in DOMAIN r.weight PROVE v[[k \in D |-> h[k]]] = u[[k \in K |-> h[k]]]
    OBVIOUS
  <2>1. h \in GridOf(r, D)
    BY <1>1, ResultAssumption
  <2>2. h = [k \in D |-> h[k]]
    BY <2>1 DEF GridOf
  <2> QED
    BY <1>1, <2>1, <2>2
<1> HIDE DEF w
<1>5. Mean(ExactData(r, K), u) = SumFunctionOnSet(w, DOMAIN r.weight)
  BY <1>2, MeanOnGrid
<1>6. Mean(ExactData(r, D), v) = SumFunctionOnSet(w, DOMAIN r.weight)
  BY <1>1, <1>3, <1>4, MeanOnGrid
<1> QED
  BY <1>1, <1>5, <1>6

\* The rows for a scope of keys.
DataOf(r, K) == IF r.method = "exact" THEN ExactData(r, K) ELSE DrawData(r)

LEMMA AllRowsAreData == ASSUME NEW r PROVE AllRows(r) = DataOf(r, DOMAIN r.domains)
BY DEF AllRows, DataOf

\* Rows are finitely many, have weights, and hold what the result may hold.
LEMMA RowsHold ==
  ASSUME NEW r \in Results, NEW K \in SUBSET KeysKnown(r)
  PROVE  /\ r.method = "exact" => K \subseteq DOMAIN r.domains
         /\ IsFiniteSet(DataOf(r, K).rows)
         /\ \A i \in DataOf(r, K).rows : DataOf(r, K).weight[i] \in Nat
         /\ \A i \in DataOf(r, K).rows : \A k \in K : DataOf(r, K).state[i][k] \in HeldUnder(k, r)
<1>1. CASE r.method = "exact"
  <2>1. r.draws = <<>>
    BY <1>1, ResultAssumption
  <2>2. Range(r.draws) = {}
    BY <2>1 DEF Range
  <2>3. KeysKnown(r) = DOMAIN r.domains
    BY <2>2 DEF KeysKnown
  <2>4. K \in SUBSET DOMAIN r.domains
    BY <2>3
  <2>5. /\ DataOf(r, K).rows = GridOf(r, K)
        /\ DataOf(r, K).weight = WeightsOf(r, K)
        /\ \A g \in GridOf(r, K) : DataOf(r, K).state[g] = [k \in K |-> r.domains[k][g[k]]]
    BY <1>1 DEF DataOf, ExactData
  <2>6. IsFiniteSet(GridOf(r, K)) /\ IsFiniteSet(DOMAIN r.weight)
    <3>1. IsFiniteSet(GridOf(r, K)) /\ IsFiniteSet(GridOf(r, DOMAIN r.domains))
      BY <2>4, GridFinite
    <3>2. DOMAIN r.weight \subseteq GridOf(r, DOMAIN r.domains)
      BY ResultAssumption
    <3> QED
      BY <3>1, <3>2, FS_Subset
  <2>7. ASSUME NEW g \in GridOf(r, K) PROVE WeightsOf(r, K)[g] \in Nat
    <3> DEFINE some == {h \in DOMAIN r.weight : \A k \in K : h[k] = g[k]}
    <3>1. IsFiniteSet(some)
      BY <2>6, FS_Subset
    <3>2. \A h \in some : r.weight[h] \in Nat
      BY ResultAssumption
    <3>3. WeightsOf(r, K)[g] = SumFunctionOnSet(r.weight, some)
      BY DEF WeightsOf
    <3> HIDE DEF some
    <3> QED
      BY <3>1, <3>2, <3>3, SumNat
  <2>8. ASSUME NEW g \in GridOf(r, K), NEW k \in K PROVE r.domains[k][g[k]] \in HeldUnder(k, r)
    <3>1. g[k] \in DOMAIN r.domains[k] /\ k \in DOMAIN r.domains
      BY <2>4 DEF GridOf
    <3>2. r.domains[k][g[k]] \in Range(r.domains[k])
      BY <3>1 DEF Range
    <3> QED
      BY <3>1, <3>2 DEF HeldUnder
  <2>9. \A g \in DataOf(r, K).rows : \A k \in K : DataOf(r, K).state[g][k] \in HeldUnder(k, r)
    <3> SUFFICES ASSUME NEW g \in GridOf(r, K), NEW k \in K PROVE DataOf(r, K).state[g][k] \in HeldUnder(k, r)
      BY <2>5
    <3>1. DataOf(r, K).state[g][k] = r.domains[k][g[k]]
      BY <2>5
    <3> QED
      BY <2>8, <3>1
  <2>10. /\ IsFiniteSet(DataOf(r, K).rows)
         /\ \A g \in DataOf(r, K).rows : DataOf(r, K).weight[g] \in Nat
    BY <2>5, <2>6, <2>7
  <2> QED
    BY <2>4, <2>9, <2>10
<1>2. CASE r.method # "exact"
  <2>1. /\ DataOf(r, K).rows = DOMAIN r.draws
        /\ DataOf(r, K).weight = [i \in DOMAIN r.draws |-> 1]
        /\ DataOf(r, K).state = r.draws
    BY <1>2 DEF DataOf, DrawData
  <2>2. r.draws \in Seq(Range(r.draws))
    BY ResultAssumption
  <2>3. IsFiniteSet(DOMAIN r.draws)
    BY <2>2, Listed
  <2>4. ASSUME NEW i \in DOMAIN r.draws, NEW k \in K PROVE r.draws[i][k] \in HeldUnder(k, r)
    <3>1. PICK row : row = r.draws[i]
      OBVIOUS
    <3>2. row \in Range(r.draws)
      BY <3>1 DEF Range
    <3>3. \A other \in Range(r.draws) : DOMAIN r.domains \subseteq DOMAIN other /\ DOMAIN other = DOMAIN r.draws[1]
      BY ResultAssumption
    <3>4. k \in DOMAIN row
      <4>1. k \in DOMAIN r.domains \/ \E other \in Range(r.draws) : k \in DOMAIN other
        BY DEF KeysKnown
      <4> QED
        BY <3>2, <3>3, <4>1
    <3>5. row[k] \in {other[k] : other \in {other \in Range(r.draws) : k \in DOMAIN other}}
      BY <3>2, <3>4
    <3> QED
      BY <3>1, <3>5 DEF HeldUnder
  <2> QED
    BY <1>2, <2>1, <2>3, <2>4
<1> QED
  BY <1>1, <1>2

\* And so do the rows of the whole result.
LEMMA AllRowsHold ==
  ASSUME NEW r \in Results, NEW K \in SUBSET KeysKnown(r)
  PROVE  /\ IsFiniteSet(AllRows(r).rows)
         /\ \A i \in AllRows(r).rows : AllRows(r).weight[i] \in Nat
         /\ \A i \in AllRows(r).rows : \A k \in K : AllRows(r).state[i][k] \in HeldUnder(k, r)
<1>1. DOMAIN r.domains \in SUBSET KeysKnown(r)
  BY DEF KeysKnown
<1>2. CASE r.method = "exact"
  <2>1. K \subseteq DOMAIN r.domains
    BY <1>2, RowsHold
  <2> QED
    BY <1>1, <2>1, AllRowsAreData, RowsHold
<1>3. CASE r.method # "exact"
  <2>1. AllRows(r) = DataOf(r, K)
    BY <1>3 DEF AllRows, DataOf
  <2> QED
    BY <2>1, RowsHold
<1> QED
  BY <1>2, <1>3

\* What is said of the keys K of a row has one mean, over the rows for K and over
\* those of the whole result.
LEMMA MeanOverAll ==
  ASSUME NEW r \in Results, NEW K \in SUBSET KeysKnown(r), NEW u, NEW v, Ints(u, DataOf(r, K).rows),
         \A i \in DataOf(r, K).rows : \A j \in AllRows(r).rows :
           SameOn(DataOf(r, K).state[i], AllRows(r).state[j], K) => u[i] = v[j]
  PROVE  Mean(DataOf(r, K), u) = Mean(AllRows(r), v)
<1>1. CASE r.method = "exact"
  <2>1. K \in SUBSET DOMAIN r.domains
    BY <1>1, RowsHold
  <2>2. PICK D : D = DOMAIN r.domains
    OBVIOUS
  <2>3. /\ DataOf(r, K) = ExactData(r, K) /\ AllRows(r) = ExactData(r, D)
    BY <1>1, <2>2 DEF DataOf, AllRows
  <2>4. /\ ExactData(r, K).rows = GridOf(r, K) /\ ExactData(r, D).rows = GridOf(r, D)
        /\ \A g \in GridOf(r, K) : ExactData(r, K).state[g] = [k \in K |-> r.domains[k][g[k]]]
        /\ \A g \in GridOf(r, D) : ExactData(r, D).state[g] = [k \in D |-> r.domains[k][g[k]]]
    BY DEF ExactData
  <2>5. ASSUME NEW h \in GridOf(r, D) PROVE v[h] = u[[k \in K |-> h[k]]]
    <3>1. PICK g : g = [k \in K |-> h[k]]
      OBVIOUS
    <3>2. g \in GridOf(r, K)
      BY <2>1, <2>2, <3>1, SomeKeys
    <3>3. SameOn(ExactData(r, K).state[g], ExactData(r, D).state[h], K)
      <4> SUFFICES ASSUME NEW k \in K PROVE ExactData(r, K).state[g][k] = ExactData(r, D).state[h][k]
        BY DEF SameOn
      <4>1. k \in D /\ g[k] = h[k]
        BY <2>1, <2>2, <3>1
      <4>2. ExactData(r, K).state[g][k] = r.domains[k][g[k]]
        <5>1. ExactData(r, K).state[g] = [l \in K |-> r.domains[l][g[l]]]
          BY <2>4, <3>2
        <5> QED
          BY <5>1
      <4>3. ExactData(r, D).state[h][k] = r.domains[k][h[k]]
        <5>1. ExactData(r, D).state[h] = [l \in D |-> r.domains[l][h[l]]]
          BY <2>4
        <5> QED
          BY <4>1, <5>1
      <4> QED
        BY <4>1, <4>2, <4>3
    <3> QED
      BY <2>3, <2>4, <3>1, <3>2, <3>3
  <2>6. Ints(u, GridOf(r, K))
    BY <2>3, <2>4
  <2> QED
    BY <2>1, <2>2, <2>3, <2>5, <2>6, MeansAgree
<1>2. CASE r.method # "exact"
  <2>1. PICK data : data = DataOf(r, K) /\ data = AllRows(r)
    BY <1>2 DEF DataOf, AllRows
  <2>2. \A i \in data.rows : u[i] = v[i]
    BY <2>1 DEF SameOn
  <2>3. [i \in data.rows |-> u[i] * data.weight[i]] = [i \in data.rows |-> v[i] * data.weight[i]]
    BY <2>2
  <2> QED
    BY <2>1, <2>3 DEF Mean
<1> QED
  BY <1>1, <1>2

-----------------------------------------------------------------------------
Averaged == {"expected_exception_count", "duration_exception", "exposure"}

\* In row i the executions are projected from the state s.
Projects(q, at, i, s) == \A x \in Range(q.executions) : at[x.id][i] = ProjectExecution(x, s)

\* What a row adds to a denominator and to a numerator is what its executions add.
LEMMA RowAdds ==
  ASSUME NEW q, QueryOK(q), q.kind \in Averaged, NEW at, NEW i, NEW s, Projects(q, at, i, s),
         \A x \in Range(q.executions) : TimedIn(x, s)
  PROVE  /\ HowMany(Counted(q, at, i), {"satisfied", "violated"})
              = SumFunction([x \in Range(q.executions) |-> Decided(x, q, s)])
         /\ Numerator(q, at, s, i) = SumFunction([x \in Range(q.executions) |-> Worth(x, q, s)])
         /\ SumFunction([x \in Range(q.executions) |-> Decided(x, q, s)]) \in Nat
         /\ SumFunction([x \in Range(q.executions) |-> Worth(x, q, s)]) \in Nat
<1>1. PICK X : X = Range(q.executions)
  OBVIOUS
<1>2. IsFiniteSet(X)
  BY <1>1, ExecutionsFinite
<1> DEFINE st == StatusesIn(q, at, i)
           d == [x \in X |-> Decided(x, q, s)]
           n == [x \in X |-> Worth(x, q, s)]
<1>3. Counted(q, at, i) = st /\ DOMAIN st = X
  BY <1>1 DEF Counted, StatusesIn, Averaged
<1>4. ASSUME NEW x \in X
      PROVE  /\ st[x] \in {"satisfied", "violated"} <=> Decided(x, q, s) = 1
             /\ q.kind = "exposure" => (st[x] = "satisfied" /\ q.covered <=> Decided(x, q, s) = 1)
             /\ q.kind # "exposure" => (st[x] = "violated" <=> Worth(x, q, s) = 1) /\ Worth(x, q, s) \in {0, 1}
             /\ Decided(x, q, s) \in {0, 1} /\ Worth(x, q, s) \in Nat
             /\ q.kind = "exposure" /\ Decided(x, q, s) = 1 => Worth(x, q, s) = Overlap(at[x.id][i], q, s)
             /\ q.kind = "exposure" /\ Decided(x, q, s) = 0 => Worth(x, q, s) = 0
  <2>1. PICK p : p = ProjectExecution(x, s) /\ p = at[x.id][i]
    BY <1>1 DEF Projects
  <2>2. Measured(q) /\ TimedIn(x, s) /\ Placed(q.conditions) /\ q.covered \in BOOLEAN
    BY <1>1 DEF QueryOK
  <2>3. Decided(x, q, s) \in {0, 1} /\ Worth(x, q, s) \in Nat
    BY <1>1, <2>2, WorthTyped
  <2>4. /\ Interval(x, p, q) = "satisfied" <=> Closed(x, q, s)
        /\ Interval(x, p, q) \in {"satisfied", "pending", "inapplicable", "unresolved"}
    BY <2>1, <2>2, SatisfiedIsClosed
  <2>5. /\ Obligation(x, p, q) \in {"satisfied", "violated"} <=> HasThreshold(x, q) /\ Closed(x, q, s)
        /\ Obligation(x, p, q) = "violated" <=> HasThreshold(x, q) /\ Late(x, q, s)
    BY <2>1, <2>2, ObligationIsLate
  <2>6. CASE q.kind = "exposure"
    <3>1. st[x] = IF Interval(x, p, q) = "satisfied" /\ ~ q.covered THEN "unresolved" ELSE Interval(x, p, q)
      BY <1>1, <2>1, <2>6 DEF StatusesIn
    <3>2. Decided(x, q, s) = IF q.covered /\ Closed(x, q, s) THEN 1 ELSE 0
      BY <2>6 DEF Decided
    <3>3. Worth(x, q, s) = IF q.covered /\ Closed(x, q, s) THEN Cardinality(MinutesIn(x, q, s)) ELSE 0
      BY <2>6 DEF Worth
    <3>4. Closed(x, q, s) => Overlap(p, q, s) = Cardinality(MinutesIn(x, q, s))
      BY <2>1, <2>2, OverlapIsMinutes
    <3> HIDE DEF st
    <3>5. (st[x] \in {"satisfied", "violated"} <=> q.covered /\ Closed(x, q, s)) /\ (st[x] = "satisfied" => q.covered)
      BY <2>2, <2>4, <3>1
    <3>6. /\ st[x] \in {"satisfied", "violated"} <=> Decided(x, q, s) = 1
          /\ st[x] = "satisfied" /\ q.covered <=> Decided(x, q, s) = 1
      BY <2>2, <2>4, <3>1, <3>2, <3>5
    <3>7. Decided(x, q, s) = 1 => Worth(x, q, s) = Overlap(at[x.id][i], q, s)
      BY <2>1, <3>2, <3>3, <3>4
    <3>8. Decided(x, q, s) = 0 => Worth(x, q, s) = 0
      BY <3>2, <3>3
    <3> QED
      BY <2>3, <2>6, <3>6, <3>7, <3>8
  <2>7. CASE q.kind # "exposure"
    <3>1. st[x] = Obligation(x, p, q)
      BY <1>1, <2>1, <2>7 DEF StatusesIn
    <3>2. Decided(x, q, s) = IF HasThreshold(x, q) /\ Closed(x, q, s) THEN 1 ELSE 0
      BY <2>7 DEF Decided
    <3>3. Worth(x, q, s) = IF HasThreshold(x, q) /\ Late(x, q, s) THEN 1 ELSE 0
      BY <2>7 DEF Worth
    <3> HIDE DEF st
    <3> QED
      BY <2>3, <2>5, <2>7, <3>1, <3>2, <3>3
  <2> QED
    BY <2>6, <2>7
<1>5. \A x \in X : d[x] = Decided(x, q, s) /\ n[x] = Worth(x, q, s)
  OBVIOUS
<1>6. DOMAIN d = X /\ DOMAIN n = X
  OBVIOUS
<1>7. HowMany(Counted(q, at, i), {"satisfied", "violated"})
        = Cardinality({x \in X : st[x] \in {"satisfied", "violated"}})
  BY <1>3 DEF HowMany
<1>8. Numerator(q, at, s, i) =
        IF q.kind = "exposure"
        THEN SumFunction([x \in {x \in X : q.covered /\ st[x] = "satisfied"} |-> Overlap(at[x.id][i], q, s)])
        ELSE Cardinality({x \in X : st[x] \in {"violated"}})
  <2>1. q.kind # "whole_job_conformance"
    BY DEF Averaged
  <2>2. CASE q.kind = "exposure"
    BY <1>1, <1>3, <2>1, <2>2 DEF Numerator
  <2>3. CASE q.kind # "exposure"
    BY <1>3, <2>1, <2>3 DEF Numerator, HowMany
  <2> QED
    BY <2>2, <2>3
<1> HIDE DEF st, d, n
<1>9. Cardinality({x \in X : st[x] \in {"satisfied", "violated"}}) = SumFunctionOnSet(d, X)
  <2>1. PICK T : T = {x \in X : st[x] \in {"satisfied", "violated"}}
    OBVIOUS
  <2>2. \A x \in X : d[x] = IF x \in T THEN 1 ELSE 0
    BY <1>4, <1>5, <2>1
  <2> QED
    BY <1>2, <2>1, <2>2, SumCountsPart
<1>10. Ints(n, X)
  BY <1>4, <1>5 DEF Ints
<1>11. Numerator(q, at, s, i) = SumFunctionOnSet(n, X)
  <2>1. CASE q.kind = "exposure"
    <3> DEFINE T == {x \in X : q.covered /\ st[x] = "satisfied"}
               o == [x \in T |-> Overlap(at[x.id][i], q, s)]
    <3>1. \A x \in T : o[x] = n[x]
      BY <1>4, <1>5, <2>1
    <3>2. \A x \in X : x \notin T => n[x] = 0
      BY <1>4, <1>5, <2>1
    <3>3. T \in SUBSET X /\ DOMAIN o = T
      OBVIOUS
    <3>4. Numerator(q, at, s, i) = SumFunction(o)
      BY <1>8, <2>1
    <3> HIDE DEF T, o
    <3>5. SumFunctionOnSet(o, T) = SumFunctionOnSet(n, X)
      BY <1>2, <1>10, <3>1, <3>2, <3>3, SumOnPart
    <3> QED
      BY <3>3, <3>4, <3>5 DEF SumFunction
  <2>2. CASE q.kind # "exposure"
    <3>1. PICK T : T = {x \in X : st[x] \in {"violated"}}
      OBVIOUS
    <3>2. \A x \in X : n[x] = IF x \in T THEN 1 ELSE 0
      BY <1>4, <1>5, <2>2, <3>1
    <3> QED
      BY <1>2, <1>8, <2>2, <3>1, <3>2, SumCountsPart
  <2> QED
    BY <2>1, <2>2
<1>12. SumFunctionOnSet(d, X) \in Nat /\ SumFunctionOnSet(n, X) \in Nat
  <2>1. \A x \in X : d[x] \in Nat /\ n[x] \in Nat
    BY <1>4, <1>5
  <2> QED
    BY <1>2, <2>1, SumNat
<1>13. /\ SumFunction([x \in Range(q.executions) |-> Decided(x, q, s)]) = SumFunctionOnSet(d, X)
       /\ SumFunction([x \in Range(q.executions) |-> Worth(x, q, s)]) = SumFunctionOnSet(n, X)
  <2>1. [x \in Range(q.executions) |-> Decided(x, q, s)] = d /\ [x \in Range(q.executions) |-> Worth(x, q, s)] = n
    BY <1>1 DEF d, n
  <2> QED
    BY <1>6, <2>1 DEF SumFunction
<1> QED
  BY <1>7, <1>9, <1>11, <1>12, <1>13

-----------------------------------------------------------------------------
(***************************************************************************)
(* Averages                                                                *)
(***************************************************************************)
\* What the rows of the whole result come to.
Averages(e, q, r) ==
  LET data == AllRows(r)
  IN  /\ e.denominator = Mean(data, [i \in data.rows |->
                           SumFunction([x \in Range(q.executions) |-> Decided(x, q, data.state[i])])])
      /\ e.numerator = Mean(data, [i \in data.rows |->
                           SumFunction([x \in Range(q.executions) |-> Worth(x, q, data.state[i])])])

LEMMA ScopeIsPart ==
  ASSUME NEW q, NEW x \in Range(q.executions)
  PROVE  ScopeOf(x, q) \subseteq Scope(q)
BY DEF Scope

\* A part that is estimated on the rows of its own scope has the averages over the
\* rows of the whole result.
LEMMA EstimatedAverages ==
  ASSUME NEW r \in Results, NEW q, QueryOK(q), q.kind \in Averaged, Scope(q) \subseteq KeysKnown(r),
         NEW data, data = DataOf(r, Scope(q)), NEW at, \A x \in Range(q.executions) : at[x.id] = Fresh(x, data),
         NEW assessed
  PROVE  Averages(Estimated(q, r, data, at, assessed), q, r)
<1>1. PICK all : all = AllRows(r)
  OBVIOUS
<1>2. PICK X : X = Range(q.executions)
  OBVIOUS
<1>3. \A x \in X : ScopeOf(x, q) \subseteq Scope(q)
  BY <1>2, ScopeIsPart
<1>4. \A i \in data.rows : \A k \in Scope(q) : data.state[i][k] \in HeldUnder(k, r)
  BY RowsHold
<1>5. \A i \in all.rows : \A k \in Scope(q) : all.state[i][k] \in HeldUnder(k, r)
  BY <1>1, AllRowsHold
<1>6. ASSUME NEW i \in data.rows
      PROVE  Projects(q, at, i, data.state[i]) /\ \A x \in X : TimedIn(x, data.state[i])
  <2>1. ASSUME NEW x \in X PROVE at[x.id][i] = ProjectExecution(x, data.state[i])
    <3>1. at[x.id] = [l \in data.rows |-> ProjectExecution(x, data.state[l])]
      BY <1>2 DEF Fresh
    <3> QED
      BY <3>1
  <2>2. ASSUME NEW x \in X PROVE TimedIn(x, data.state[i])
    <3>1. \A k \in ScopeOf(x, q) : data.state[i][k] \in HeldUnder(k, r)
      BY <1>3, <1>4
    <3> QED
      BY <1>2, <3>1, TimesAreHeld
  <2> QED
    BY <1>2, <2>1, <2>2 DEF Projects
<1> DEFINE den == [i \in data.rows |-> HowMany(Counted(q, at, i), {"satisfied", "violated"})]
           num == [i \in data.rows |-> Numerator(q, at, data.state[i], i)]
           dec == [i \in all.rows |-> SumFunction([x \in X |-> Decided(x, q, all.state[i])])]
           wor == [i \in all.rows |-> SumFunction([x \in X |-> Worth(x, q, all.state[i])])]
<1>7. /\ Estimated(q, r, data, at, assessed).denominator = Mean(data, den)
      /\ Estimated(q, r, data, at, assessed).numerator = Mean(data, num)
  BY DEF Estimated
<1>8. ASSUME NEW i \in data.rows
      PROVE  /\ den[i] = SumFunction([x \in X |-> Decided(x, q, data.state[i])]) /\ den[i] \in Int
             /\ num[i] = SumFunction([x \in X |-> Worth(x, q, data.state[i])]) /\ num[i] \in Int
  <2>1. PICK s : s = data.state[i]
    OBVIOUS
  <2>2. /\ HowMany(Counted(q, at, i), {"satisfied", "violated"})
              = SumFunction([x \in X |-> Decided(x, q, s)])
         /\ Numerator(q, at, s, i) = SumFunction([x \in X |-> Worth(x, q, s)])
         /\ SumFunction([x \in X |-> Decided(x, q, s)]) \in Nat
         /\ SumFunction([x \in X |-> Worth(x, q, s)]) \in Nat
    BY <1>2, <1>6, <2>1, RowAdds
  <2> QED
    BY <2>1, <2>2
<1>9. ASSUME NEW i \in data.rows, NEW j \in all.rows, SameOn(data.state[i], all.state[j], Scope(q))
      PROVE  den[i] = dec[j] /\ num[i] = wor[j]
  <2>1. PICK s, t : s = data.state[i] /\ t = all.state[j]
    OBVIOUS
  <2>2. \A x \in X : Decided(x, q, s) = Decided(x, q, t) /\ Worth(x, q, s) = Worth(x, q, t)
    <3> SUFFICES ASSUME NEW x \in X PROVE SameOn(s, t, ScopeOf(x, q))
      BY <1>2, ScopeTells
    <3> QED
      BY <1>3, <1>9, <2>1 DEF SameOn
  <2>3. /\ [x \in X |-> Decided(x, q, s)] = [x \in X |-> Decided(x, q, t)]
        /\ [x \in X |-> Worth(x, q, s)] = [x \in X |-> Worth(x, q, t)]
    BY <2>2
  <2>4. /\ dec[j] = SumFunction([x \in X |-> Decided(x, q, t)])
        /\ wor[j] = SumFunction([x \in X |-> Worth(x, q, t)])
    BY <2>1
  <2> HIDE DEF den, num, dec, wor
  <2> QED
    BY <1>8, <2>1, <2>3, <2>4
<1>10. /\ \A i \in data.rows : \A j \in all.rows : SameOn(data.state[i], all.state[j], Scope(q)) => den[i] = dec[j]
       /\ \A i \in data.rows : \A j \in all.rows : SameOn(data.state[i], all.state[j], Scope(q)) => num[i] = wor[j]
       /\ Ints(den, data.rows) /\ Ints(num, data.rows)
  <2> HIDE DEF den, num, dec, wor
  <2> QED
    BY <1>8, <1>9 DEF Ints
<1>11. /\ dec = [i \in all.rows |-> SumFunction([x \in Range(q.executions) |-> Decided(x, q, all.state[i])])]
       /\ wor = [i \in all.rows |-> SumFunction([x \in Range(q.executions) |-> Worth(x, q, all.state[i])])]
  BY <1>2
<1> HIDE DEF den, num, dec, wor
<1>12. Mean(data, den) = Mean(all, dec)
  BY <1>1, <1>10, MeanOverAll
<1>13. Mean(data, num) = Mean(all, wor)
  BY <1>1, <1>10, MeanOverAll
<1> QED
  BY <1>1, <1>7, <1>11, <1>12, <1>13 DEF Averages

\* In each row, c has what each of a list adds; for each of the list, u has it by rows
\* and f its mean.
Adding(f, u, c, data, l) ==
  /\ \A i \in data.rows : DOMAIN c[i] = Range(l) /\ Ints(c[i], Range(l))
  /\ \A n \in DOMAIN l : \A i \in data.rows : u[n][i] = c[i][l[n]]
  /\ DOMAIN f = DOMAIN l /\ \A n \in DOMAIN l : f[n] = Mean(data, u[n])

\* The means of what each of a list adds, in each row, have the sum that the mean of
\* their sums is.
LEMMA MeansAdd ==
  ASSUME NEW data, IsFiniteSet(data.rows), Ints(data.weight, data.rows),
         NEW l, l \in Seq(Range(l)), \A n, m \in DOMAIN l : l[n] = l[m] => n = m,
         NEW c, NEW u, NEW f, Adding(f, u, c, data, l)
  PROVE  SumFunction(f) = Mean(data, [i \in data.rows |-> SumFunction(c[i])])
<1>0. /\ \A i \in data.rows : DOMAIN c[i] = Range(l) /\ Ints(c[i], Range(l))
      /\ \A n \in DOMAIN l : \A i \in data.rows : u[n][i] = c[i][l[n]]
      /\ DOMAIN f = DOMAIN l /\ \A n \in DOMAIN l : f[n] = Mean(data, u[n])
  BY DEF Adding
<1>1. PICK A, B : A = DOMAIN l /\ B = data.rows
  OBVIOUS
<1>2. IsFiniteSet(A) /\ IsFiniteSet(B) /\ IsFiniteSet(Range(l))
  BY <1>1, Listed
<1> DEFINE g == [n \in A |-> [i \in B |-> u[n][i] * data.weight[i]]]
           total == [i \in B |-> SumFunction(c[i])]
           h == [i \in B |-> total[i] * data.weight[i]]
<1>3. \A n \in A : l[n] \in Range(l)
  BY <1>1 DEF Range
<1>4. \A n \in A : \A i \in B : g[n][i] = c[i][l[n]] * data.weight[i] /\ c[i][l[n]] \in Int /\ data.weight[i] \in Int
  <2> SUFFICES ASSUME NEW n \in A, NEW i \in B
               PROVE  u[n][i] = c[i][l[n]] /\ c[i][l[n]] \in Int /\ data.weight[i] \in Int
    OBVIOUS
  <2> QED
    BY <1>0, <1>1, <1>3 DEF Ints
<1>5. RowSums(f, g, A, B)
  <2> SUFFICES ASSUME NEW n \in A PROVE f[n] = SumFunctionOnSet(g[n], B)
    BY DEF RowSums
  <2>1. f[n] = SumFunction([i \in B |-> u[n][i] * data.weight[i]])
    BY <1>0, <1>1 DEF Mean
  <2>2. g[n] = [i \in B |-> u[n][i] * data.weight[i]] /\ DOMAIN g[n] = B
    OBVIOUS
  <2> HIDE DEF g
  <2> QED
    BY <2>1, <2>2 DEF SumFunction
<1>6. ColumnSums(h, g, A, B)
  <2> SUFFICES ASSUME NEW i \in B PROVE h[i] = SumFunctionOnSet([n \in A |-> g[n][i]], A)
    BY DEF ColumnSums
  <2> DEFINE col == [n \in A |-> g[n][i]]
             add == [n \in A |-> c[i][l[n]]]
             name == [n \in A |-> l[n]]
  <2>1. \A n \in A : col[n] = data.weight[i] * add[n] /\ add[n] \in Int
    <3> SUFFICES ASSUME NEW n \in A PROVE g[n][i] = data.weight[i] * c[i][l[n]] /\ c[i][l[n]] \in Int
      OBVIOUS
    <3> HIDE DEF g
    <3> QED
      BY <1>4
  <2>2. data.weight[i] \in Int /\ Ints(c[i], Range(l)) /\ DOMAIN c[i] = Range(l)
    BY <1>0, <1>1 DEF Ints
  <2>3. Renames(name, A, Range(l), add, c[i])
    <3>1. \A n \in A : name[n] \in Range(l) /\ add[n] = c[i][name[n]]
      BY <1>3
    <3>2. \A n, m \in A : name[n] = name[m] => n = m
      BY <1>1
    <3>3. \A x \in Range(l) : \E n \in A : name[n] = x
      BY <1>1 DEF Range
    <3> HIDE DEF name, add
    <3> QED
      BY <3>1, <3>2, <3>3 DEF Renames
  <2>4. Ints(add, A)
    BY <2>1 DEF Ints
  <2>5. h[i] = SumFunction(c[i]) * data.weight[i]
    OBVIOUS
  <2> HIDE DEF h, col, add, name
  <2>6. SumFunctionOnSet(add, A) = SumFunctionOnSet(c[i], Range(l))
    BY <1>2, <2>2, <2>3, SumRenamed
  <2>7. SumFunctionOnSet(col, A) = data.weight[i] * SumFunctionOnSet(add, A)
    <3>1. PICK weight : weight = data.weight[i]
      OBVIOUS
    <3>2. weight \in Int /\ \A n \in A : col[n] = weight * add[n]
      BY <2>1, <2>2, <3>1
    <3> QED
      BY <1>2, <2>4, <3>1, <3>2, SumScaled
  <2>8. SumFunctionOnSet(add, A) \in Int
    BY <1>2, <2>4, SumType
  <2>9. h[i] = SumFunctionOnSet(add, A) * data.weight[i]
    BY <2>2, <2>5, <2>6 DEF SumFunction
  <2>10. SumFunctionOnSet(col, A) = h[i]
    BY <2>2, <2>7, <2>8, <2>9
  <2> QED
    BY <2>10 DEF col
<1>7. \A n \in A : Ints(g[n], B)
  <2> SUFFICES ASSUME NEW n \in A, NEW i \in B PROVE g[n][i] \in Int
    BY DEF Ints
  <2> HIDE DEF g
  <2> QED
    BY <1>4
<1>8. Mean(data, total) = SumFunction(h)
  BY <1>1 DEF Mean
<1>9. DOMAIN h = B
  OBVIOUS
<1>10. total = [i \in data.rows |-> SumFunction(c[i])]
  BY <1>1
<1> HIDE DEF g, total, h
<1>11. SumFunctionOnSet(f, A) = SumFunctionOnSet(h, B)
  BY <1>2, <1>5, <1>6, <1>7, SumSwaps
<1> QED
  BY <1>0, <1>1, <1>8, <1>9, <1>10, <1>11 DEF SumFunction

\* The part for one execution.
PartFor(q, n) == [q EXCEPT !.executions = <<q.executions[n]>>]

LEMMA PartForIs ==
  ASSUME NEW q, QueryOK(q), "executions" \in DOMAIN q, NEW n \in DOMAIN q.executions
  PROVE  /\ QueryOK(PartFor(q, n)) /\ PartFor(q, n).kind = q.kind
         /\ Range(PartFor(q, n).executions) = {q.executions[n]}
         /\ \A x, s : Decided(x, PartFor(q, n), s) = Decided(x, q, s) /\ Worth(x, PartFor(q, n), s) = Worth(x, q, s)
<1>1. PICK p : p = PartFor(q, n)
  OBVIOUS
<1>2. p.executions = <<q.executions[n]>>
  BY <1>1 DEF PartFor
<1>3. /\ p.kind = q.kind /\ p.covered = q.covered /\ p.window = q.window /\ p.horizon = q.horizon
      /\ p.threshold = q.threshold /\ p.conditions = q.conditions
  BY <1>1 DEF PartFor
<1>4. Range(p.executions) = {q.executions[n]} /\ p.executions \in Seq(Range(p.executions))
      /\ Distinct(p.executions)
  BY <1>2 DEF Range, Distinct
<1>5. q.executions[n] \in Range(q.executions)
  BY DEF Range
<1>6. QueryOK(p)
  BY <1>3, <1>4, <1>5 DEF QueryOK, Measured
<1>7. ASSUME NEW x, NEW s
      PROVE  Decided(x, p, s) = Decided(x, q, s) /\ Worth(x, p, s) = Worth(x, q, s)
  <2>1. Closed(x, p, s) <=> Closed(x, q, s)
    BY <1>3 DEF Closed
  <2>2. MinutesIn(x, p, s) = MinutesIn(x, q, s)
    BY <1>3 DEF MinutesIn
  <2>3. Late(x, p, s) <=> Late(x, q, s)
    BY <1>3, <2>1 DEF Late
  <2>4. HasThreshold(x, p) <=> HasThreshold(x, q)
    BY <1>3 DEF HasThreshold
  <2> QED
    BY <1>3, <2>1, <2>2, <2>3, <2>4 DEF Decided, Worth
<1> QED
  BY <1>1, <1>3, <1>4, <1>6, <1>7

\* Parts that have their averages have together those of the query.
LEMMA PartsAverage ==
  ASSUME NEW r \in Results, NEW q, QueryOK(q), "executions" \in DOMAIN q, Scope(q) \subseteq KeysKnown(r),
         NEW done, DOMAIN done = DOMAIN q.executions,
         \A n \in DOMAIN q.executions : Averages(done[n], PartFor(q, n), r),
         NEW e, e.denominator = SumFunction([n \in DOMAIN done |-> done[n].denominator]),
         e.numerator = SumFunction([n \in DOMAIN done |-> done[n].numerator])
  PROVE  Averages(e, q, r)
<1>1. PICK all : all = AllRows(r)
  OBVIOUS
<1>2. PICK l : l = q.executions
  OBVIOUS
<1>3. l \in Seq(Range(l)) /\ \A n, m \in DOMAIN l : l[n] = l[m] => n = m
  BY <1>2 DEF QueryOK, Distinct
<1>4. IsFiniteSet(all.rows) /\ Ints(all.weight, all.rows)
  <2>1. KeysKnown(r) \in SUBSET KeysKnown(r)
    OBVIOUS
  <2>2. IsFiniteSet(all.rows) /\ \A i \in all.rows : all.weight[i] \in Nat
    BY <1>1, <2>1, AllRowsHold
  <2> QED
    BY <2>2 DEF Ints
<1>5. \A i \in all.rows : \A x \in Range(l) :
         Decided(x, q, all.state[i]) \in Int /\ Worth(x, q, all.state[i]) \in Int
  <2> SUFFICES ASSUME NEW i \in all.rows, NEW x \in Range(l)
               PROVE  Decided(x, q, all.state[i]) \in Int /\ Worth(x, q, all.state[i]) \in Int
    OBVIOUS
  <2>1. \A k \in ScopeOf(x, q) : all.state[i][k] \in HeldUnder(k, r)
    BY <1>1, <1>2, AllRowsHold, ScopeIsPart
  <2>2. TimedIn(x, all.state[i])
    BY <1>2, <2>1, TimesAreHeld
  <2> QED
    BY <1>2, <2>2, WorthTyped
<1> DEFINE dec == [i \in all.rows |-> [x \in Range(l) |-> Decided(x, q, all.state[i])]]
           wor == [i \in all.rows |-> [x \in Range(l) |-> Worth(x, q, all.state[i])]]
           dens == [n \in DOMAIN l |-> [i \in all.rows |-> dec[i][l[n]]]]
           nums == [n \in DOMAIN l |-> [i \in all.rows |-> wor[i][l[n]]]]
           den == [n \in DOMAIN l |-> done[n].denominator]
           num == [n \in DOMAIN l |-> done[n].numerator]
<1>6. ASSUME NEW n \in DOMAIN l
      PROVE  den[n] = Mean(all, dens[n]) /\ num[n] = Mean(all, nums[n])
  <2>1. PICK p : p = PartFor(q, n)
    OBVIOUS
  <2>2. /\ Range(p.executions) = {l[n]}
        /\ \A x, s : Decided(x, p, s) = Decided(x, q, s) /\ Worth(x, p, s) = Worth(x, q, s)
    BY <1>2, <2>1, PartForIs
  <2>3. /\ done[n].denominator = Mean(all, [i \in all.rows |->
                                   SumFunction([x \in Range(p.executions) |-> Decided(x, p, all.state[i])])])
        /\ done[n].numerator = Mean(all, [i \in all.rows |->
                                   SumFunction([x \in Range(p.executions) |-> Worth(x, p, all.state[i])])])
    BY <1>1, <1>2, <2>1 DEF Averages
  <2>4. l[n] \in Range(l)
    BY DEF Range
  <2>5. ASSUME NEW i \in all.rows
        PROVE  /\ SumFunction([x \in Range(p.executions) |-> Decided(x, p, all.state[i])]) = dens[n][i]
               /\ SumFunction([x \in Range(p.executions) |-> Worth(x, p, all.state[i])]) = nums[n][i]
    <3>1. PICK y, s : y = l[n] /\ s = all.state[i]
      OBVIOUS
    <3>2. /\ Decided(y, q, s) \in Int /\ Worth(y, q, s) \in Int
      BY <1>5, <2>4, <3>1
    <3>3. dens[n][i] = Decided(y, q, s) /\ nums[n][i] = Worth(y, q, s)
      BY <2>4, <3>1
    <3> DEFINE a == [x \in {y} |-> Decided(x, q, s)]
               b == [x \in {y} |-> Worth(x, q, s)]
    <3>4. /\ [x \in Range(p.executions) |-> Decided(x, p, all.state[i])] = a
          /\ [x \in Range(p.executions) |-> Worth(x, p, all.state[i])] = b
      BY <2>2, <3>1
    <3>5. DOMAIN a = {y} /\ DOMAIN b = {y} /\ a[y] = Decided(y, q, s) /\ b[y] = Worth(y, q, s)
      OBVIOUS
    <3> HIDE DEF a, b, dens, nums
    <3>6. IsFiniteSet({y}) /\ Ints(a, {y}) /\ Ints(b, {y}) /\ {y} \ {y} = {}
      BY <3>2, <3>5, FS_Singleton DEF Ints
    <3>7. /\ SumFunctionOnSet(a, {y}) = a[y] + SumFunctionOnSet(a, {})
          /\ SumFunctionOnSet(b, {y}) = b[y] + SumFunctionOnSet(b, {})
      <4>1. y \in {y}
        OBVIOUS
      <4> QED
        BY <3>6, <4>1, SumWith
    <3>8. SumFunctionOnSet(a, {y}) = a[y] /\ SumFunctionOnSet(b, {y}) = b[y]
      BY <3>2, <3>5, <3>7, SumEmpty
    <3> QED
      BY <3>3, <3>4, <3>5, <3>8 DEF SumFunction
  <2>6. /\ [i \in all.rows |-> SumFunction([x \in Range(p.executions) |-> Decided(x, p, all.state[i])])] = dens[n]
        /\ [i \in all.rows |-> SumFunction([x \in Range(p.executions) |-> Worth(x, p, all.state[i])])] = nums[n]
    BY <2>5
  <2>7. den[n] = done[n].denominator /\ num[n] = done[n].numerator
    OBVIOUS
  <2> HIDE DEF den, num, dens, nums
  <2> QED
    BY <2>3, <2>6, <2>7
<1>7. /\ \A i \in all.rows : DOMAIN dec[i] = Range(l) /\ Ints(dec[i], Range(l))
      /\ \A i \in all.rows : DOMAIN wor[i] = Range(l) /\ Ints(wor[i], Range(l))
  BY <1>5 DEF Ints
<1>8. /\ \A n \in DOMAIN l : \A i \in all.rows : dens[n][i] = dec[i][l[n]]
      /\ \A n \in DOMAIN l : \A i \in all.rows : nums[n][i] = wor[i][l[n]]
  OBVIOUS
<1>9. /\ den = [n \in DOMAIN done |-> done[n].denominator] /\ DOMAIN den = DOMAIN l
      /\ num = [n \in DOMAIN done |-> done[n].numerator] /\ DOMAIN num = DOMAIN l
  BY <1>2
<1>10. /\ \A i \in all.rows : dec[i] = [x \in Range(q.executions) |-> Decided(x, q, all.state[i])]
       /\ \A i \in all.rows : wor[i] = [x \in Range(q.executions) |-> Worth(x, q, all.state[i])]
  BY <1>2
<1> HIDE DEF dec, wor, dens, nums, den, num
<1>11. SumFunction(den) = Mean(all, [i \in all.rows |-> SumFunction(dec[i])])
  <2>1. Adding(den, dens, dec, all, l)
    BY <1>6, <1>7, <1>8, <1>9 DEF Adding
  <2> QED
    BY <1>3, <1>4, <2>1, MeansAdd
<1>12. SumFunction(num) = Mean(all, [i \in all.rows |-> SumFunction(wor[i])])
  <2>1. Adding(num, nums, wor, all, l)
    BY <1>6, <1>7, <1>8, <1>9 DEF Adding
  <2> QED
    BY <1>3, <1>4, <2>1, MeansAdd
<1>13. /\ [i \in all.rows |-> SumFunction(dec[i])] =
            [i \in all.rows |-> SumFunction([x \in Range(q.executions) |-> Decided(x, q, all.state[i])])]
       /\ [i \in all.rows |-> SumFunction(wor[i])] =
            [i \in all.rows |-> SumFunction([x \in Range(q.executions) |-> Worth(x, q, all.state[i])])]
  BY <1>10
<1> QED
  BY <1>1, <1>9, <1>11, <1>12, <1>13 DEF Averages

-----------------------------------------------------------------------------
(***************************************************************************)
(* Ranks                                                                   *)
(***************************************************************************)
\* Ranks cover the rows that rank: each job has one in each of them, and someone is
\* first.
RanksCover(e, jobs) ==
  LET first == SumFunction([job \in jobs |-> e.ranks[job][1]])
  IN  /\ \A job \in jobs : SumFunction(e.ranks[job]) = e.denominator
      /\ first >= e.denominator + e.numerator
      /\ e.numerator = 0 => first = e.denominator

Weighed(data) == IsFiniteSet(data.rows) /\ \A i \in data.rows : data.weight[i] \in Nat

\* The mass of some rows is the sum of their weights.
LEMMA MassIs ==
  ASSUME NEW data, Weighed(data), NEW S \in SUBSET data.rows
  PROVE  Mass(data, S) = SumFunctionOnSet(data.weight, S) /\ Mass(data, S) \in Nat
<1> DEFINE w == [i \in S |-> data.weight[i]]
<1>1. IsFiniteSet(S) /\ Ints(data.weight, S) /\ \A i \in S : w[i] = data.weight[i] /\ data.weight[i] \in Nat
  BY FS_Subset DEF Weighed, Ints
<1>2. Mass(data, S) = SumFunction(w) /\ DOMAIN w = S
  BY DEF Mass
<1> HIDE DEF w
<1>3. SumFunctionOnSet(w, S) = SumFunctionOnSet(data.weight, S)
  BY <1>1, SumSame
<1>4. SumFunctionOnSet(data.weight, S) \in Nat
  BY <1>1, SumNat
<1> QED
  BY <1>2, <1>3, <1>4 DEF SumFunction

\* A rank is one of as many as there are jobs, and some job has the first.
LEMMA RanksTyped ==
  ASSUME NEW q, QueryOK(q), q.executions # <<>>, NEW at, NEW i
  PROVE  /\ IsFiniteSet(Populations(q)) /\ Cardinality(Populations(q)) \in Nat
         /\ 1 \in 1..Cardinality(Populations(q))
         /\ \A job \in Populations(q) : CompetitionRank(q, at, i, job) \in 1..Cardinality(Populations(q))
         /\ \E job \in Populations(q) : CompetitionRank(q, at, i, job) = 1
<1>1. PICK J : J = Populations(q)
  OBVIOUS
<1>2. PICK X : X = Range(q.executions)
  OBVIOUS
<1>3. IsFiniteSet(X) /\ X # {}
  <2>1. q.executions \in Seq(X) /\ Len(q.executions) # 0
    BY <1>2, EmptySeq DEF QueryOK
  <2>2. q.executions[1] \in X
    BY <1>2, <2>1 DEF Range
  <2> QED
    BY <1>2, <2>2, ExecutionsFinite
<1>4. IsFiniteSet(J) /\ J # {}
  <2> DEFINE h == [x \in X |-> x.population]
  <2>1. h \in Surjection(X, J)
    BY <1>1, <1>2 DEF Surjection, Populations
  <2>2. J # {}
    BY <1>1, <1>2, <1>3 DEF Populations
  <2> HIDE DEF h
  <2> QED
    BY <1>3, <2>1, <2>2, FS_Surjection
<1> DEFINE score == [job \in J |-> Score(q, at, i, job)]
           above(job) == {other \in J : score[other] > score[job]}
<1>5. \A job \in J : score[job] \in Nat
  <2> SUFFICES ASSUME NEW job \in J PROVE Score(q, at, i, job) \in Nat
    OBVIOUS
  <2>1. {x \in Of(q, job) : StatusesIn(q, at, i)[x] = "violated"} \in SUBSET X
    BY <1>2 DEF Of
  <2>2. IsFiniteSet({x \in Of(q, job) : StatusesIn(q, at, i)[x] = "violated"})
    BY <1>3, <2>1, FS_Subset
  <2> QED
    BY <2>2, FS_CardinalityType DEF Score
<1>6. \A job \in J : CompetitionRank(q, at, i, job) = 1 + Cardinality(above(job))
  <2> SUFFICES ASSUME NEW job \in J
               PROVE  {other \in Populations(q) : Score(q, at, i, other) > Score(q, at, i, job)} = above(job)
    BY DEF CompetitionRank
  <2> QED
    BY <1>1
<1>7. PICK n : n = Cardinality(J)
  OBVIOUS
<1>8. n \in Nat /\ n # 0
  BY <1>4, <1>7, FS_CardinalityType, FS_EmptySet
<1>9. ASSUME NEW job \in J PROVE CompetitionRank(q, at, i, job) \in 1..n
  <2>1. ~ (score[job] > score[job])
    BY <1>5
  <2> HIDE DEF score
  <2>2. above(job) \subseteq J \ {job}
    BY <2>1
  <2>3. IsFiniteSet(J \ {job}) /\ Cardinality(J \ {job}) = n - 1
    BY <1>4, <1>7, FS_RemoveElement
  <2> HIDE DEF above
  <2>4. IsFiniteSet(above(job)) /\ Cardinality(above(job)) <= n - 1
    BY <2>2, <2>3, FS_Subset
  <2>5. Cardinality(above(job)) \in Nat
    BY <2>4, FS_CardinalityType
  <2> QED
    BY <1>6, <1>8, <2>4, <2>5
<1>10. \E job \in J : CompetitionRank(q, at, i, job) = 1
  <2>1. Ints(score, J)
    BY <1>5 DEF Ints
  <2> HIDE DEF score
  <2>2. PICK job \in J : \A other \in J : score[other] <= score[job]
    BY <1>4, <2>1, GreatestBy
  <2>3. above(job) = {}
    BY <1>5, <2>2
  <2> HIDE DEF above
  <2>4. Cardinality(above(job)) = 0
    BY <2>3, FS_EmptySet
  <2> QED
    BY <1>6, <2>4
<1> QED
  BY <1>1, <1>4, <1>7, <1>8, <1>9, <1>10

\* What a ranking estimates covers the rows that rank.
LEMMA RankedCovers ==
  ASSUME NEW q, QueryOK(q), q.executions # <<>>, NEW data, Weighed(data),
         NEW r, NEW at, NEW assessed, NEW e, e = Ranked(q, r, data, at, assessed)
  PROVE  RanksCover(e, Populations(q))
<1>1. PICK J : J = Populations(q)
  OBVIOUS
<1>2. PICK w : w = data.weight
  OBVIOUS
<1>3. PICK E : E = {i \in data.rows : Rankable(q, at, i)}
  OBVIOUS
<1> DEFINE tied == {i \in E : TopTie(q, at, i)}
           with(job, rank) == {i \in E : CompetitionRank(q, at, i, job) = rank}
<1>4. /\ e.denominator = Mass(data, E) /\ e.numerator = Mass(data, tied)
      /\ DOMAIN e.ranks = J
      /\ \A job \in J : e.ranks[job] = [rank \in 1..Cardinality(J) |-> Mass(data, with(job, rank))]
  BY <1>1, <1>3 DEF Ranked
<1>5. /\ IsFiniteSet(E) /\ E \subseteq data.rows /\ Ints(w, E) /\ \A i \in E : w[i] \in Nat
      /\ tied \subseteq E /\ \A job, rank : with(job, rank) \subseteq E
  <2>1. E \subseteq data.rows
    BY <1>3
  <2>2. IsFiniteSet(E) /\ \A i \in E : w[i] \in Nat
    BY <1>2, <2>1, FS_Subset DEF Weighed
  <2> QED
    BY <2>1, <2>2 DEF Ints
<1>6. \A S \in SUBSET E : Mass(data, S) = SumFunctionOnSet(w, S) /\ Mass(data, S) \in Nat
  BY <1>2, <1>5, MassIs
<1>7. IsFiniteSet(J) /\ Cardinality(J) \in Nat /\ 1 \in 1..Cardinality(J)
  BY <1>1, RanksTyped
<1>8. \A i : /\ \A job \in J : CompetitionRank(q, at, i, job) \in 1..Cardinality(J)
             /\ \E job \in J : CompetitionRank(q, at, i, job) = 1
  <2> SUFFICES ASSUME NEW i
               PROVE  /\ \A job \in J : CompetitionRank(q, at, i, job) \in 1..Cardinality(J)
                      /\ \E job \in J : CompetitionRank(q, at, i, job) = 1
    OBVIOUS
  <2> QED
    BY <1>1, RanksTyped
<1>9. PICK ranks : ranks = 1..Cardinality(J)
  OBVIOUS
<1>10. IsFiniteSet(ranks)
  <2>1. PICK n : n = Cardinality(J)
    OBVIOUS
  <2>2. n \in Int
    BY <1>7, <2>1
  <2>3. IsFiniteSet(1..n)
    BY <2>2, FS_Interval
  <2> QED
    BY <1>9, <2>1, <2>3
<1>11. ASSUME NEW job \in J PROVE SumFunction(e.ranks[job]) = e.denominator
  <2> DEFINE m == [rank \in ranks |-> Mass(data, with(job, rank))]
             g == [i \in E |-> CompetitionRank(q, at, i, job)]
  <2>1. \A i \in E : g[i] \in ranks
    BY <1>8, <1>9
  <2>2. \A rank \in ranks : m[rank] = SumFunctionOnSet(w, {i \in E : g[i] = rank})
    <3> SUFFICES ASSUME NEW rank \in ranks
                 PROVE  Mass(data, with(job, rank)) = SumFunctionOnSet(w, {i \in E : g[i] = rank})
      OBVIOUS
    <3>1. with(job, rank) = {i \in E : g[i] = rank}
      OBVIOUS
    <3> HIDE DEF with, g
    <3> QED
      BY <1>5, <1>6, <3>1
  <2>3. e.ranks[job] = m /\ DOMAIN m = ranks
    BY <1>4, <1>9
  <2> HIDE DEF m, g
  <2>4. Grouped(m, g, w, E, ranks)
    BY <2>1, <2>2 DEF Grouped
  <2>5. SumFunctionOnSet(m, ranks) = SumFunctionOnSet(w, E)
    BY <1>5, <1>10, <2>4, SumByKey
  <2> QED
    BY <1>4, <1>6, <2>3, <2>5 DEF SumFunction
<1> DEFINE f == [job \in J |-> e.ranks[job][1]]
           g == [job \in J |-> [i \in E |-> IF i \in with(job, 1) THEN w[i] ELSE 0]]
           top == [i \in E |-> Cardinality({job \in J : CompetitionRank(q, at, i, job) = 1})]
           h == [i \in E |-> w[i] * top[i]]
           tie == [i \in E |-> IF i \in tied THEN w[i] ELSE 0]
           both == [i \in E |-> w[i] + tie[i]]
<1>12. RowSums(f, g, J, E)
  <2> SUFFICES ASSUME NEW job \in J PROVE f[job] = SumFunctionOnSet(g[job], E)
    BY DEF RowSums
  <2>1. PICK S : S = with(job, 1)
    OBVIOUS
  <2>2. S \in SUBSET E /\ IsFiniteSet(S)
    BY <1>5, <2>1, FS_Subset
  <2>3. f[job] = Mass(data, S)
    <3>1. e.ranks[job] = [rank \in 1..Cardinality(J) |-> Mass(data, with(job, rank))]
      BY <1>4
    <3>2. e.ranks[job][1] = Mass(data, with(job, 1))
      <4> HIDE DEF with
      <4> QED
        BY <1>7, <3>1
    <3>3. f[job] = e.ranks[job][1]
      OBVIOUS
    <3> QED
      BY <2>1, <3>2, <3>3
  <2>4. f[job] = SumFunctionOnSet(w, S)
    BY <1>6, <2>2, <2>3
  <2>5. PICK v : v = g[job]
    OBVIOUS
  <2>6. \A i \in E : v[i] = IF i \in S THEN w[i] ELSE 0
    BY <2>1, <2>5
  <2>7. Ints(v, E)
    BY <1>5, <2>6 DEF Ints
  <2>8. \A i \in S : w[i] = v[i]
    BY <2>2, <2>6
  <2>9. SumFunctionOnSet(w, S) = SumFunctionOnSet(v, E)
    BY <1>5, <2>2, <2>6, <2>7, <2>8, SumOnPart
  <2> QED
    BY <2>4, <2>5, <2>9
<1>13. ASSUME NEW i \in E
       PROVE  /\ h[i] = SumFunctionOnSet([job \in J |-> g[job][i]], J)
              /\ top[i] \in Nat /\ top[i] >= 1 /\ (i \in tied => top[i] >= 2) /\ (i \notin tied => top[i] = 1)
  <2>1. PICK T : T = {job \in J : CompetitionRank(q, at, i, job) = 1}
    OBVIOUS
  <2>2. IsFiniteSet(T) /\ T \in SUBSET J /\ T # {} /\ top[i] = Cardinality(T)
    BY <1>7, <1>8, <2>1, FS_Subset
  <2>3. TopTie(q, at, i) <=> Cardinality(T) > 1
    BY <1>1, <2>1 DEF TopTie
  <2>4. Cardinality(T) \in Nat /\ Cardinality(T) # 0
    BY <2>2, FS_CardinalityType, FS_EmptySet
  <2>5. /\ top[i] \in Nat /\ top[i] >= 1 /\ (i \in tied => top[i] >= 2) /\ (i \notin tied => top[i] = 1)
    <3>1. i \in tied <=> TopTie(q, at, i)
      OBVIOUS
    <3> HIDE DEF tied, top
    <3> QED
      BY <2>2, <2>3, <2>4, <3>1
  <2> DEFINE ones == [job \in J |-> IF job \in T THEN 1 ELSE 0]
             col == [job \in J |-> g[job][i]]
  <2>6. \A job \in J : ones[job] = IF job \in T THEN 1 ELSE 0
    OBVIOUS
  <2>7. \A job \in J : col[job] = w[i] * ones[job]
    <3> SUFFICES ASSUME NEW job \in J PROVE g[job][i] = w[i] * ones[job]
      OBVIOUS
    <3>1. i \in with(job, 1) <=> job \in T
      BY <2>1
    <3>2. g[job][i] = IF i \in with(job, 1) THEN w[i] ELSE 0
      OBVIOUS
    <3> HIDE DEF g, with, ones
    <3> QED
      BY <1>5, <2>6, <3>1, <3>2
  <2>8. h[i] = w[i] * top[i]
    OBVIOUS
  <2> HIDE DEF ones, col, h, top
  <2>9. SumFunctionOnSet(ones, J) = Cardinality(T)
    BY <1>7, <2>2, <2>6, SumCountsPart
  <2>10. PICK weight : weight = w[i]
    OBVIOUS
  <2>11. weight \in Int /\ Ints(ones, J)
    BY <1>5, <2>6, <2>10 DEF Ints
  <2>12. SumFunctionOnSet(col, J) = weight * SumFunctionOnSet(ones, J)
    BY <1>7, <2>7, <2>10, <2>11, SumScaled
  <2>13. h[i] = SumFunctionOnSet(col, J)
    BY <2>2, <2>8, <2>9, <2>10, <2>12
  <2> QED
    BY <2>5, <2>13 DEF col
<1>14. \A i \in E : /\ h[i] = w[i] * top[i] /\ both[i] = w[i] + tie[i]
                    /\ tie[i] = IF i \in tied THEN w[i] ELSE 0
  OBVIOUS
<1>15. ColumnSums(h, g, J, E)
  BY <1>13 DEF ColumnSums
<1>16. \A job \in J : Ints(g[job], E)
  <2> SUFFICES ASSUME NEW job \in J, NEW i \in E PROVE g[job][i] \in Int
    BY DEF Ints
  <2>1. g[job][i] = IF i \in with(job, 1) THEN w[i] ELSE 0
    OBVIOUS
  <2> HIDE DEF g, with
  <2> QED
    BY <1>5, <2>1
<1>17. DOMAIN f = J /\ f = [job \in Populations(q) |-> e.ranks[job][1]]
  BY <1>1
<1>18. PICK Tied : Tied = tied
  OBVIOUS
<1>19. Tied \in SUBSET E /\ e.numerator = Mass(data, Tied) /\ IsFiniteSet(Tied)
  BY <1>4, <1>5, <1>18, FS_Subset
<1> HIDE DEF f, g, h, top, tie, both, tied, with
<1>20. SumFunctionOnSet(f, J) = SumFunctionOnSet(h, E)
  BY <1>5, <1>7, <1>12, <1>15, <1>16, SumSwaps
<1>21. /\ e.denominator = SumFunctionOnSet(w, E) /\ e.denominator \in Nat
       /\ e.numerator = SumFunctionOnSet(w, Tied) /\ e.numerator \in Nat
  BY <1>4, <1>6, <1>19
<1>22. Ints(tie, E) /\ Ints(both, E) /\ Ints(h, E)
  <2> SUFFICES ASSUME NEW i \in E PROVE tie[i] \in Int /\ both[i] \in Int /\ h[i] \in Int
    BY DEF Ints
  <2>1. w[i] \in Nat /\ top[i] \in Nat
    BY <1>5, <1>13
  <2>2. tie[i] \in Int
    BY <1>14, <2>1
  <2> QED
    BY <1>14, <2>1, <2>2
<1>23. SumFunctionOnSet(both, E) = e.denominator + e.numerator
  <2>1. \A i \in Tied : w[i] = tie[i]
    BY <1>14, <1>18, <1>19
  <2>2. \A i \in E : i \notin Tied => tie[i] = 0
    BY <1>14, <1>18
  <2>3. SumFunctionOnSet(w, Tied) = SumFunctionOnSet(tie, E)
    BY <1>5, <1>19, <1>22, <2>1, <2>2, SumOnPart
  <2>4. SumFunctionOnSet(both, E) = SumFunctionOnSet(w, E) + SumFunctionOnSet(tie, E)
    BY <1>5, <1>14, <1>22, SumOfSums
  <2> QED
    BY <1>21, <2>3, <2>4
<1>24. \A i \in E : both[i] <= h[i]
  <2> SUFFICES ASSUME NEW i \in E PROVE both[i] <= h[i]
    OBVIOUS
  <2>1. PICK a, b : a = w[i] /\ b = top[i]
    OBVIOUS
  <2>2. a \in Nat /\ b \in Nat /\ b >= 1 /\ (i \in tied => b >= 2)
    BY <1>5, <1>13, <2>1
  <2>3. h[i] = a * b /\ both[i] = a + (IF i \in tied THEN a ELSE 0)
    BY <1>14, <2>1
  <2>4. CASE i \in tied
    <3>1. b - 2 \in Nat /\ a * (b - 2) \in Nat
      BY <2>2, <2>4
    <3>2. a * b = a * (b - 2) + 2 * a
      BY <2>2
    <3> QED
      BY <2>2, <2>3, <2>4, <3>1, <3>2
  <2>5. CASE i \notin tied
    <3>1. b - 1 \in Nat /\ a * (b - 1) \in Nat
      BY <2>2
    <3>2. a * b = a * (b - 1) + a
      BY <2>2
    <3> QED
      BY <2>2, <2>3, <2>5, <3>1, <3>2
  <2> QED
    BY <2>4, <2>5
<1>25. SumFunctionOnSet(both, E) <= SumFunctionOnSet(h, E)
  BY <1>5, <1>22, <1>24, SumMonotone
<1>26. ASSUME e.numerator = 0 PROVE SumFunctionOnSet(h, E) = e.denominator
  <2>1. \A i \in Tied : w[i] = 0
    <3>1. \A i \in Tied : w[i] \in Nat
      BY <1>5, <1>19
    <3> QED
      BY <1>19, <1>21, <1>26, <3>1, SumVanishes
  <2>2. \A i \in E : h[i] = w[i]
    <3> SUFFICES ASSUME NEW i \in E PROVE w[i] * top[i] = w[i]
      BY <1>14
    <3>1. w[i] \in Nat /\ top[i] \in Nat /\ (i \notin tied => top[i] = 1)
      BY <1>5, <1>13
    <3> QED
      BY <1>18, <2>1, <3>1
  <2>3. SumFunctionOnSet(h, E) = SumFunctionOnSet(w, E)
    BY <1>5, <2>2, SumSame
  <2> QED
    BY <1>21, <2>3
<1>27. SumFunction([job \in Populations(q) |-> e.ranks[job][1]]) = SumFunctionOnSet(h, E)
  BY <1>17, <1>20 DEF SumFunction
<1>28. SumFunctionOnSet(h, E) >= e.denominator + e.numerator
  <2>1. SumFunctionOnSet(h, E) \in Int
    BY <1>5, <1>22, SumType
  <2> QED
    BY <1>21, <1>23, <1>25, <2>1
<1> QED
  BY <1>1, <1>11, <1>26, <1>27, <1>28 DEF RanksCover

-----------------------------------------------------------------------------
(***************************************************************************)
(* Estimates                                                               *)
(***************************************************************************)
\* What is true of the estimate of a part, or of a query.
Finished(e, part, r) ==
  /\ {"numerator", "denominator", "outcomes", "status", "evidence"} \subseteq DOMAIN e
  /\ part.kind \in Averaged => Averages(e, part, r)
  /\ part.kind = "priority_distribution" => RanksCover(e, Populations(part))
  /\ ~ r.complete => e.status # "assessed"

\* The parts that are to do are the rest of those of the query; the others are
\* finished.
PartsInv ==
  work # NoWork =>
    LET all == PartsOf(work.query, work.result)
    IN  /\ work.query \in QuerySpecs /\ work.result \in Results
        /\ parts \in Seq(Range(parts)) /\ Len(parts) + Len(work.left) = Len(all)
        /\ \A n \in DOMAIN work.left : work.left[n] = all[Len(parts) + n]
        /\ \A n \in DOMAIN parts :
             Scope(all[n]) \subseteq KeysKnown(work.result) /\ Finished(parts[n], all[n], work.result)
        /\ work.bound => Scope(Part) \subseteq KeysKnown(work.result) /\ Part.executions # <<>>

EstimateInv == estimate # NoWork => Finished(estimate.is, estimate.of, estimate.on)

EstimatesInv == PartsInv /\ EstimateInv

\* A query is a part of itself, or there is a part for each of its executions.
LEMMA PartsAre ==
  ASSUME NEW q \in QuerySpecs, NEW r \in Results
  PROVE  /\ Len(PartsOf(q, r)) \in Nat /\ DOMAIN PartsOf(q, r) = 1..Len(PartsOf(q, r))
         /\ \A n \in DOMAIN PartsOf(q, r) : QueryOK(PartsOf(q, r)[n])
         /\ PartsOf(q, r) = <<q>>
            \/ /\ r.method = "exact" /\ InParts(q) /\ Len(PartsOf(q, r)) # 1
               /\ DOMAIN PartsOf(q, r) = DOMAIN q.executions
               /\ \A n \in DOMAIN q.executions : PartsOf(q, r)[n] = PartFor(q, n)
<1>1. QueryOK(q) /\ "executions" \in DOMAIN q
  BY QueriesOK
<1>2. CASE ~ (r.method = "exact" /\ InParts(q))
  <2>1. PartsOf(q, r) = <<q>>
    BY <1>2 DEF PartsOf
  <2> QED
    BY <1>1, <2>1
<1>3. CASE r.method = "exact" /\ InParts(q)
  <2>1. PICK l : l = q.executions
    OBVIOUS
  <2>2. Len(l) \in Nat /\ DOMAIN l = 1..Len(l)
    <3>1. l \in Seq(Range(l))
      BY <1>1, <2>1 DEF QueryOK
    <3> QED
      BY <3>1, Listed
  <2>3. PICK s : s = PartsOf(q, r)
    OBVIOUS
  <2>4. s = [n \in DOMAIN l |-> PartFor(q, n)]
    BY <1>3, <2>1, <2>3 DEF PartsOf, PartFor
  <2>5. DOMAIN s = 1..Len(l) /\ \A n \in DOMAIN l : s[n] = PartFor(q, n)
    BY <2>2, <2>4
  <2>6. Len(s) = Len(l)
    BY <2>2, <2>4
  <2>7. Len(l) > 1
    BY <1>3, <2>1 DEF InParts
  <2>8. \A n \in DOMAIN l : QueryOK(PartFor(q, n))
    BY <1>1, <2>1, PartForIs
  <2> QED
    BY <1>3, <2>1, <2>2, <2>3, <2>5, <2>6, <2>7, <2>8
<1> QED
  BY <1>2, <1>3

LEMMA AskKeepsParts ==
  ASSUME NEW r \in Results, NEW q \in QuerySpecs, Ask(r, q)
  PROVE  EstimatesInv'
<1>1. /\ parts' = <<>> /\ estimate' = NoWork
      /\ work' = [query |-> q, result |-> r, bound |-> FALSE, left |-> PartsOf(q, r)]
  BY DEF Ask
<1>2. work'.query = q /\ work'.result = r /\ work'.bound = FALSE /\ work'.left = PartsOf(q, r)
  BY <1>1
<1>3. PICK all : all = PartsOf(q, r)
  OBVIOUS
<1>4. Len(all) \in Nat /\ DOMAIN all = 1..Len(all)
  BY <1>3, PartsAre
<1>5. parts' \in Seq(Range(parts')) /\ Len(parts') = 0 /\ DOMAIN parts' = {}
  BY <1>1
<1>6. PartsInv'
  <2>1. \A n \in DOMAIN all : all[n] = all[Len(parts') + n]
    BY <1>4, <1>5
  <2> QED
    BY <1>2, <1>3, <1>4, <1>5, <2>1 DEF PartsInv
<1> QED
  BY <1>1, <1>6 DEF EstimatesInv, EstimateInv

LEMMA BindKeepsParts ==
  ASSUME ProjectionsInv, EstimatesInv, Bind
  PROVE  EstimatesInv'
<1>1. parts' = parts /\ estimate' = estimate /\ work # NoWork
  BY DEF Bind
<1>2. EstimateInv'
  BY <1>1 DEF EstimatesInv, EstimateInv
<1>3. CASE work' = NoWork
  BY <1>2, <1>3 DEF EstimatesInv, PartsInv
<1>4. CASE /\ Scope(Part) \subseteq KeysKnown(work.result) /\ Part.executions # <<>>
           /\ work' = [work EXCEPT !.bound = TRUE]
  <2>1. {"query", "result", "bound", "left"} \subseteq DOMAIN work
    BY <1>1 DEF ProjectionsInv, WorkInv
  <2>2. work'.query = work.query /\ work'.result = work.result /\ work'.left = work.left
    BY <1>4, <2>1
  <2>3. Part' = Part
    BY <2>2 DEF Part
  <2>4. PartsInv'
    BY <1>1, <1>4, <2>2, <2>3 DEF EstimatesInv, PartsInv
  <2> QED
    BY <1>2, <2>4 DEF EstimatesInv
<1> QED
  BY <1>3, <1>4 DEF Bind, Abandon

\* A step that leaves the parts alone, and the work as it is or abandoned.
LEMMA RestKeepsParts ==
  ASSUME EstimatesInv, parts' = parts, estimate' = estimate, work' = work \/ work' = NoWork
  PROVE  EstimatesInv'
<1>1. EstimateInv'
  BY DEF EstimatesInv, EstimateInv
<1>2. CASE work' = NoWork
  BY <1>1, <1>2 DEF EstimatesInv, PartsInv
<1>3. CASE work' = work
  <2>1. Part' = Part
    BY <1>3 DEF Part
  <2> QED
    BY <1>1, <1>3, <2>1 DEF EstimatesInv, PartsInv
<1> QED
  BY <1>2, <1>3

\* What a part comes to once its executions are projected.
LEMMA PartIsFinished ==
  ASSUME ProjectionsInv, EstimatesInv, work # NoWork, work.bound, Unprojected = {}, NEW assessed
  PROVE  Finished(PartEstimate(RowsOf, assessed), Part, work.result)
<1>1. PICK r, q, left : r = work.result /\ q = work.query /\ left = work.left
  OBVIOUS
<1>2. PICK p : p = Part
  OBVIOUS
<1>3. PICK data : data = RowsOf
  OBVIOUS
<1>4. PICK e : e = PartEstimate(data, assessed)
  OBVIOUS
<1>5. r \in Results /\ q \in QuerySpecs /\ Scope(p) \subseteq KeysKnown(r) /\ p.executions # <<>>
  BY <1>1, <1>2 DEF EstimatesInv, PartsInv
<1>6. QueryOK(p)
  <2>1. PICK all : all = PartsOf(q, r)
    OBVIOUS
  <2>2. /\ left \in Seq(Range(left)) /\ left # <<>> /\ Len(parts) \in Nat /\ Len(parts) + Len(left) = Len(all)
        /\ \A n \in DOMAIN left : left[n] = all[Len(parts) + n]
    BY <1>1, <2>1 DEF ProjectionsInv, WorkInv, EstimatesInv, PartsInv
  <2>3. Len(left) \in Nat /\ Len(left) # 0 /\ DOMAIN left = 1..Len(left)
    BY <2>2, EmptySeq
  <2>4. /\ Len(all) \in Nat /\ DOMAIN all = 1..Len(all)
        /\ \A n \in DOMAIN all : QueryOK(all[n])
    BY <1>5, <2>1, PartsAre
  <2>5. p = left[1] /\ 1 \in DOMAIN left
    BY <1>1, <1>2, <2>3 DEF Part
  <2>6. p = all[Len(parts) + 1] /\ Len(parts) + 1 \in DOMAIN all
    BY <2>2, <2>3, <2>4, <2>5
  <2> QED
    BY <2>4, <2>6
<1>7. data = DataOf(r, Scope(p))
  BY <1>1, <1>2, <1>3 DEF RowsOf, DataOf
<1>8. \A x \in Range(p.executions) : projected[x.id] = Fresh(x, data)
  <2> SUFFICES ASSUME NEW x \in Range(p.executions) PROVE projected[x.id] = Fresh(x, data)
    OBVIOUS
  <2>1. PICK n \in DOMAIN p.executions : x = p.executions[n]
    BY DEF Range
  <2>2. x.id \in DOMAIN projected
    BY <1>2, <2>1 DEF Unprojected
  <2> QED
    BY <1>2, <1>3, <2>2 DEF ProjectionsInv, StoreIsTransparent
<1>9. Weighed(data)
  BY <1>5, <1>7, RowsHold DEF Weighed
<1>10. e = IF p.kind = "priority_distribution" THEN Ranked(p, r, data, projected, assessed)
           ELSE Estimated(p, r, data, projected, assessed)
  BY <1>1, <1>2, <1>4 DEF PartEstimate
<1>11. {"numerator", "denominator", "outcomes", "status", "evidence"} \subseteq DOMAIN e
  BY <1>10 DEF Ranked, Estimated
<1>12. ASSUME p.kind \in Averaged PROVE Averages(e, p, r)
  <2>1. p.kind # "priority_distribution"
    BY <1>12 DEF Averaged
  <2>2. e = Estimated(p, r, data, projected, assessed)
    BY <1>10, <2>1
  <2> QED
    BY <1>5, <1>6, <1>7, <1>8, <1>12, <2>2, EstimatedAverages
<1>13. ASSUME p.kind = "priority_distribution" PROVE RanksCover(e, Populations(p))
  <2>1. e = Ranked(p, r, data, projected, assessed)
    BY <1>10, <1>13
  <2> QED
    BY <1>5, <1>6, <1>9, <2>1, RankedCovers
<1>14. ASSUME ~ r.complete PROVE e.status # "assessed"
  <2>1. r.method # "exact"
    BY <1>5, <1>14, ResultAssumption
  <2>2. data = DrawData(r)
    BY <1>7, <2>1 DEF DataOf
  <2>3. Numerical(data, assessed) = "incomplete"
    BY <1>14, <2>1, <2>2 DEF Numerical, DrawData
  <2>4. \E answered \in BOOLEAN : e.status = StatusOf(answered, Numerical(data, assessed))
    <3>1. CASE p.kind = "priority_distribution"
      <4>1. e.status = StatusOf(Mass(data, {i \in data.rows : Rankable(p, projected, i)}) > 0, Numerical(data, assessed))
        BY <1>10, <3>1 DEF Ranked
      <4> QED
        BY <4>1 DEF StatusOf
    <3>2. CASE p.kind # "priority_distribution"
      <4>1. \E d : e.status = StatusOf(Mean(data, d) > 0, Numerical(data, assessed))
        BY <1>10, <3>2 DEF Estimated
      <4> QED
        BY <4>1 DEF StatusOf
    <3> QED
      BY <3>1, <3>2
  <2> QED
    BY <2>3, <2>4 DEF StatusOf
<1>15. Finished(e, p, r)
  BY <1>11, <1>12, <1>13, <1>14 DEF Finished
<1> QED
  BY <1>1, <1>2, <1>3, <1>4, <1>15

\* The scope of a query is that of its parts.
LEMMA ScopeOfParts ==
  ASSUME NEW q, QueryOK(q), "executions" \in DOMAIN q, NEW K,
         \A n \in DOMAIN q.executions : Scope(PartFor(q, n)) \subseteq K
  PROVE  Scope(q) \subseteq K
<1>1. ASSUME NEW n \in DOMAIN q.executions PROVE ScopeOf(q.executions[n], q) \subseteq K
  <2>1. PICK p, x : p = PartFor(q, n) /\ x = q.executions[n]
    OBVIOUS
  <2>2. x \in Range(p.executions) /\ p.conditions = q.conditions
    BY <2>1, PartForIs DEF PartFor
  <2>3. ScopeOf(x, p) = ScopeOf(x, q)
    BY <2>2 DEF ScopeOf
  <2>4. ScopeOf(x, p) \subseteq Scope(p)
    BY <2>2, ScopeIsPart
  <2> QED
    BY <2>1, <2>3, <2>4
<1>2. \A x \in Range(q.executions) : ScopeOf(x, q) \subseteq K
  BY <1>1 DEF Range
<1> QED
  BY <1>2 DEF Scope

LEMMA FinishKeepsParts ==
  ASSUME ProjectionsInv, EstimatesInv, FinishPart
  PROVE  EstimatesInv'
<1>1. work # NoWork /\ work.bound /\ Unprojected = {}
  BY DEF FinishPart
<1>2. CASE ~ AdmitsPopulation(Part)
  <2>1. work' = NoWork /\ parts' = parts /\ estimate' = estimate
    BY <1>2 DEF FinishPart, Abandon
  <2> QED
    BY <2>1, RestKeepsParts
<1>3. CASE AdmitsPopulation(Part)
  <2>1. PICK assessed : /\ parts' = Append(parts, PartEstimate(RowsOf, assessed))
                        /\ IF Len(work.left) > 1
                           THEN work' = [work EXCEPT !.left = Tail(work.left), !.bound = FALSE] /\ UNCHANGED estimate
                           ELSE work' = NoWork /\ estimate' = [of |-> work.query, on |-> work.result, is |-> Together]
    BY <1>3 DEF FinishPart, Concluded
  <2>2. PICK e : e = PartEstimate(RowsOf, assessed)
    OBVIOUS
  <2>3. PICK r, q, left : r = work.result /\ q = work.query /\ left = work.left
    OBVIOUS
  <2>4. PICK all, k : all = PartsOf(q, r) /\ k = Len(parts)
    OBVIOUS
  <2>5. /\ q \in QuerySpecs /\ r \in Results
        /\ parts \in Seq(Range(parts)) /\ k + Len(left) = Len(all)
        /\ \A n \in DOMAIN left : left[n] = all[k + n]
        /\ \A n \in DOMAIN parts : Scope(all[n]) \subseteq KeysKnown(r) /\ Finished(parts[n], all[n], r)
        /\ Scope(Part) \subseteq KeysKnown(r)
    BY <1>1, <2>3, <2>4 DEF EstimatesInv, PartsInv
  <2>6. {"query", "result", "bound", "left"} \subseteq DOMAIN work /\ left \in Seq(Range(left)) /\ left # <<>>
    BY <1>1, <2>3 DEF ProjectionsInv, WorkInv
  <2>7. Len(left) \in Nat /\ Len(left) # 0 /\ DOMAIN left = 1..Len(left)
    BY <2>6, EmptySeq
  <2>8. /\ Len(all) \in Nat /\ DOMAIN all = 1..Len(all)
    BY <2>4, <2>5, PartsAre
  <2>9. Part = all[k + 1]
    <3>1. Part = left[1] /\ 1 \in DOMAIN left
      BY <2>3, <2>7 DEF Part
    <3> QED
      BY <2>5, <3>1
  <2>10. Finished(e, Part, r)
    BY <1>1, <2>2, <2>3, PartIsFinished
  <2>11. k \in Nat /\ DOMAIN parts = 1..k
    BY <2>4, <2>5
  <2>12. /\ parts' = Append(parts, e) /\ Len(parts') = k + 1 /\ DOMAIN parts' = 1..k + 1
         /\ parts'[k + 1] = e /\ \A n \in 1..k : parts'[n] = parts[n]
    <3>1. PICK S : S = Range(parts) \union {e}
      OBVIOUS
    <3>2. parts \in Seq(S)
      BY <2>5, <3>1
    <3>3. parts' = Append(parts, e)
      BY <2>1, <2>2
    <3> QED
      BY <2>4, <2>11, <3>1, <3>2, <3>3
  <2>13. parts' \in Seq(Range(parts'))
    <3>1. parts \in Seq(Range(parts) \union {e})
      BY <2>5
    <3>2. parts' \in Seq(Range(parts) \union {e})
      BY <2>12, <3>1
    <3> QED
      BY <3>2, RangeIsEnough
  <2>14. \A n \in 1..k + 1 : Scope(all[n]) \subseteq KeysKnown(r) /\ Finished(parts'[n], all[n], r)
    <3> SUFFICES ASSUME NEW n \in 1..k + 1
                 PROVE  Scope(all[n]) \subseteq KeysKnown(r) /\ Finished(parts'[n], all[n], r)
      OBVIOUS
    <3>1. CASE n = k + 1
      BY <2>5, <2>9, <2>10, <2>12, <3>1
    <3>2. CASE n # k + 1
      <4>1. n \in 1..k
        BY <2>11, <3>2
      <4> QED
        BY <2>5, <2>11, <2>12, <4>1
    <3> QED
      BY <3>1, <3>2
  <2>15. CASE Len(left) > 1
    <3>1. work' = [work EXCEPT !.left = Tail(left), !.bound = FALSE] /\ estimate' = estimate
      BY <2>1, <2>3, <2>15
    <3>2. work'.query = q /\ work'.result = r /\ work'.left = Tail(left) /\ work'.bound = FALSE
      BY <2>3, <2>6, <3>1
    <3>3. /\ Len(Tail(left)) = Len(left) - 1 /\ DOMAIN Tail(left) = 1..Len(left) - 1
          /\ \A n \in 1..Len(left) - 1 : Tail(left)[n] = left[n + 1]
      BY <2>6, <2>7, HeadTailProperties
    <3>4. \A n \in DOMAIN Tail(left) : Tail(left)[n] = all[Len(parts') + n]
      <4> SUFFICES ASSUME NEW n \in 1..Len(left) - 1 PROVE Tail(left)[n] = all[Len(parts') + n]
        BY <3>3
      <4>1. n + 1 \in DOMAIN left /\ k + (n + 1) = (k + 1) + n
        BY <2>7, <2>11
      <4> QED
        BY <2>5, <2>12, <3>3, <4>1
    <3>5. Len(parts') + Len(Tail(left)) = Len(all)
      BY <2>5, <2>7, <2>11, <2>12, <3>3
    <3>6. PartsInv'
      BY <2>4, <2>5, <2>12, <2>13, <2>14, <3>2, <3>4, <3>5 DEF PartsInv
    <3>7. EstimateInv'
      BY <3>1 DEF EstimatesInv, EstimateInv
    <3> QED
      BY <3>6, <3>7 DEF EstimatesInv
  <2>16. CASE ~ (Len(left) > 1)
    <3>1. work' = NoWork /\ estimate' = [of |-> q, on |-> r, is |-> Together]
      BY <2>1, <2>3, <2>16
    <3>2. Len(all) = k + 1
      BY <2>5, <2>7, <2>11, <2>16
    <3>3. QueryOK(q) /\ "executions" \in DOMAIN q
      BY <2>5, QueriesOK
    <3>4. Finished(Together, q, r)
      <4>1. CASE Len(parts') = 1
        <5>1. k = 0 /\ Len(all) = 1
          BY <2>11, <2>12, <3>2, <4>1
        <5>2. all = <<q>>
          BY <2>4, <2>5, <5>1, PartsAre
        <5>3. Together = parts'[1]
          BY <4>1 DEF Together
        <5> QED
          BY <2>9, <2>10, <2>12, <5>1, <5>2, <5>3
      <4>2. CASE Len(parts') # 1
        <5>1. Len(all) # 1
          BY <2>12, <3>2, <4>2
        <5>2. /\ r.method = "exact" /\ InParts(q) /\ DOMAIN all = DOMAIN q.executions
              /\ \A n \in DOMAIN q.executions : all[n] = PartFor(q, n)
          <6>1. all # <<q>>
            BY <5>1
          <6> QED
            BY <2>4, <2>5, <6>1, PartsAre
        <5>3. q.kind \in Averaged /\ q.kind # "priority_distribution"
          BY <5>2 DEF InParts, Averaged
        <5>4. r.complete
          BY <2>5, <5>2, ResultAssumption
        <5>5. DOMAIN parts' = DOMAIN q.executions
          BY <2>8, <2>12, <3>2, <5>2
        <5>6. \A n \in DOMAIN q.executions : Averages(parts'[n], PartFor(q, n), r)
          <6> SUFFICES ASSUME NEW n \in DOMAIN q.executions PROVE Averages(parts'[n], PartFor(q, n), r)
            OBVIOUS
          <6>1. Finished(parts'[n], PartFor(q, n), r)
            BY <2>12, <2>14, <5>2, <5>5
          <6>2. PartFor(q, n).kind \in Averaged
            BY <3>3, <5>3, PartForIs
          <6> QED
            BY <6>1, <6>2 DEF Finished
        <5>7. Scope(q) \subseteq KeysKnown(r)
          <6>1. \A n \in DOMAIN q.executions : Scope(PartFor(q, n)) \subseteq KeysKnown(r)
            BY <2>12, <2>14, <5>2, <5>5
          <6> QED
            BY <3>3, <6>1, ScopeOfParts
        <5>8. PICK one : one = parts'[1]
          OBVIOUS
        <5>9. {"numerator", "denominator", "outcomes", "status", "evidence"} \subseteq DOMAIN one
          <6>1. 1 \in 1..k + 1
            BY <2>11
          <6> QED
            BY <2>14, <5>8, <6>1 DEF Finished
        <5>10. PICK sum : sum = Together
          OBVIOUS
        <5>11. /\ DOMAIN sum = DOMAIN one
               /\ sum.numerator = SumFunction([n \in DOMAIN parts' |-> parts'[n].numerator])
               /\ sum.denominator = SumFunction([n \in DOMAIN parts' |-> parts'[n].denominator])
          <6>1. PICK a, b, c, d, f :
                  /\ a = SumFunction([n \in DOMAIN parts' |-> parts'[n].numerator])
                  /\ b = SumFunction([n \in DOMAIN parts' |-> parts'[n].denominator])
                  /\ sum = [one EXCEPT !.numerator = a, !.denominator = b, !.outcomes = c, !.status = d, !.evidence = f]
            BY <4>2, <5>8, <5>10 DEF Together
          <6> QED
            BY <5>9, <6>1
        <5>12. Averages(sum, q, r)
          BY <2>5, <3>3, <5>5, <5>6, <5>7, <5>11, PartsAverage
        <5> QED
          BY <5>3, <5>4, <5>9, <5>10, <5>11, <5>12 DEF Finished
      <4> QED
        BY <4>1, <4>2
    <3>5. estimate'.is = Together /\ estimate'.of = q /\ estimate'.on = r
      BY <3>1
    <3>6. EstimateInv'
      BY <3>4, <3>5 DEF EstimateInv
    <3> QED
      BY <3>1, <3>6 DEF EstimatesInv, PartsInv
  <2> QED
    BY <2>15, <2>16
<1> QED
  BY <1>2, <1>3

\* An estimate that is finished says what the rows say.
LEMMA FinishedIsExact == EstimateInv => EstimatesAreExact
<1> SUFFICES ASSUME EstimateInv, estimate # NoWork PROVE EstimatesAreExact
  BY DEF EstimatesAreExact, AnswersAreAverages, RanksCoverRankable, IncompleteIsNotAssessed
<1>1. Finished(estimate.is, estimate.of, estimate.on)
  BY DEF EstimateInv
<1>2. AnswersAreAverages
  BY <1>1 DEF AnswersAreAverages, Finished, Averaged, Averages
<1>3. RanksCoverRankable
  BY <1>1 DEF RanksCoverRankable, Finished, RanksCover
<1>4. IncompleteIsNotAssessed
  BY <1>1 DEF IncompleteIsNotAssessed, Finished
<1> QED
  BY <1>2, <1>3, <1>4 DEF EstimatesAreExact

\* What a process query estimates is what the rows of the whole result come to: a
\* count, an exposure or a probability is their average, although it is made up of
\* parts on tables of their own, of stored projections and of intervals that overlap;
\* ranks cover the rows that rank; and what chains that were stopped come to is never
\* called assessed (queries/aggregation.py, queries/history.py).
THEOREM EstimatesSayWhatRowsSay == AskingSpec => []EstimatesAreExact
<1>1. AskingInit => EstimatesInv
  BY DEF AskingInit, EstimatesInv, PartsInv, EstimateInv
<1>2. ASSUME ProjectionsInv, EstimatesInv, [AskingNext]_queryVars PROVE EstimatesInv'
  <2>1. ASSUME NEW r \in Results, NEW q \in QuerySpecs, Ask(r, q) PROVE EstimatesInv'
    BY <2>1, AskKeepsParts
  <2>2. CASE Bind
    BY <1>2, <2>2, BindKeepsParts
  <2>3. CASE Project
    <3>1. parts' = parts /\ estimate' = estimate /\ (work' = work \/ work' = NoWork)
      BY <2>3 DEF Project, Abandon
    <3> QED
      BY <1>2, <3>1, RestKeepsParts
  <2>4. CASE FinishPart
    BY <1>2, <2>4, FinishKeepsParts
  <2>5. CASE Halt
    <3>1. parts' = parts /\ estimate' = estimate /\ work' = NoWork
      BY <2>5 DEF Halt, Abandon
    <3> QED
      BY <1>2, <3>1, RestKeepsParts
  <2>6. CASE UNCHANGED queryVars
    <3>1. parts' = parts /\ estimate' = estimate /\ work' = work
      BY <2>6 DEF queryVars
    <3> QED
      BY <1>2, <3>1, RestKeepsParts
  <2> QED
    BY <1>2, <2>1, <2>2, <2>3, <2>4, <2>5, <2>6 DEF AskingNext
<1>3. EstimatesInv => EstimatesAreExact
  BY FinishedIsExact DEF EstimatesInv
<1> QED
  BY <1>1, <1>2, <1>3, ProjectionsAlways, PTL DEF AskingSpec

=============================================================================
