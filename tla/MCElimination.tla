---------------------------- MODULE MCElimination ---------------------------
(***************************************************************************)
(* Instances for TLC of the engines for finite models: every model of up   *)
(* to MaxFactors factors over at most three variables each, and of one     *)
(* more over at most two, is given to one of them, the exact one or the    *)
(* approximate one; a Gaussian graph is given to the continuous one.       *)
(***************************************************************************)
EXTENDS BeliefPropagation, ExpectationPropagation

CONSTANT MaxFactors

MCDomainSize == [k \in Keys |-> IF k = 2 THEN 3 ELSE 2]

ScopesUpTo(n) == {s \in SUBSET Keys : Cardinality(s) \in 1..n}

\* The order of the factors matters to nothing: one for each bag of scopes.
Rank(s) == FoldSet(LAMBDA k, n : 2 ^ k + n, 0, s)

Ordered(n, scopes) ==
  {T \in [1..n -> scopes] : \A i \in 1..(n - 1) : Rank(T[i]) <= Rank(T[i + 1])}

MCModels ==
  {T : T \in UNION {Ordered(n, ScopesUpTo(3)) : n \in 0..MaxFactors}}
    \union {T : T \in Ordered(MaxFactors + 1, ScopesUpTo(2))}

Marginals == [capabilities |-> {"marginal"}, alternatives |-> {}]

Request(halves) ==
  [controlled |-> FALSE, continuous |-> FALSE, approximate |-> TRUE, positive |-> TRUE,
   needs |-> Marginals, scopes |-> {{1}, {2}}, halves |-> halves]

MCRequests ==
  {Request(0), Request(1), [Request(0) EXCEPT !.positive = FALSE],
   [Request(0) EXCEPT !.approximate = FALSE], [Request(0) EXCEPT !.scopes = {{1, 2}}]}

\* Two sources under one label, one of which may be less certain than its
\* cavity, and a bank without labels, whose answers may not be finite, in part
\* or as a whole.
Edge(variable, label, answers) == [variable |-> variable, label |-> label, sites |-> answers]

Labelled(answers) ==
  [name |-> "reports", labelled |-> TRUE, edges |-> <<Edge(1, "clock", answers), Edge(1, "clock", answers)>>]

Bare(answers) == [name |-> "bracket", labelled |-> FALSE, edges |-> <<Edge(2, "", answers)>>]

Graph(checked, prior, banks) == [checked |-> checked, priors |-> <<prior, <<8, 0>>>>, banks |-> banks]

MCGraphs ==
  {Graph(c, p, b) : c \in BOOLEAN, p \in {<<4, 0>>, <<0, 0>>},
     b \in {<<Labelled({<<8, 8>>, <<-8, 8>>}), Bare({<<8, 16>>, <<16, -8>>, <<NaN, 16>>, <<16, NaN>>, <<NaN, NaN>>})>>,
            <<Bare({<<8, 8>>}), Labelled({<<8, 8>>, <<-8, 16>>})>>}}

EnginesInit == Init /\ PassingInit /\ SweepingInit

EnginesNext ==
  \/ bp = "idle" /\ ep = "idle" /\ Next /\ UNCHANGED <<passingVars, sweepingVars>>
  \/ pc = "called" /\ ep = "idle" /\ PassingNext /\ UNCHANGED <<vars, sweepingVars>>
  \/ pc = "called" /\ bp = "idle" /\ SweepingNext /\ UNCHANGED <<vars, passingVars>>

EnginesSpec == EnginesInit /\ [][EnginesNext]_<<vars, passingVars, sweepingVars>>
=============================================================================
