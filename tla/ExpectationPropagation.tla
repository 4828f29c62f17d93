----------------------- MODULE ExpectationPropagation -----------------------
(***************************************************************************)
(* The sweeps of expectation propagation over a Gaussian graph             *)
(* (inference/gabp_ep.py: run_ep, fill_belief_state; model/gaussian.py),   *)
(* run directly or through run_ep_adapter (inference/adapters).            *)
(*                                                                         *)
(* A natural parameter is <<precision, potential>>, in integers; the floor *)
(* of a precision is 0.  What a bank answers to a cavity is its own affair *)
(* and any of its sites.  Moments differ or do not: the tolerance is 0.    *)
(***************************************************************************)
EXTENDS Integers, Sequences, FiniteSets, SequencesExt

CONSTANTS
  Graphs,     \* see GraphAssumption
  MaxSweeps,  \* EPConfig.max_iter
  Ceiling,    \* MAX_PRECISION
  NaN         \* a number that is not finite

ASSUME NaNAssumption == NaN \notin Int

Precision(n) == n[1]
Potential(n) == n[2]

\* checked: run by the adapter; priors: of each variable; banks: their edges,
\* each at a variable, with its label and the sites it may answer, of which
\* either number, or both, may not be finite.
ASSUME GraphAssumption ==
  /\ MaxSweeps \in Nat \ {0} /\ Ceiling \in Nat \ {0}
  /\ \A g \in Graphs :
       /\ g.checked \in BOOLEAN
       /\ \A v \in DOMAIN g.priors : g.priors[v] \in Int \X Int
       /\ g.banks \in Seq(Range(g.banks))
       /\ \A b \in Range(g.banks) :
            /\ b.edges \in Seq(Range(b.edges))
            /\ \A e \in Range(b.edges) :
                 e.variable \in DOMAIN g.priors /\ e.sites \subseteq (Int \union {NaN}) \X (Int \union {NaN})

VARIABLES
  ep,        \* idle, sweeping, done, refused or failed
  graphOf,   \* the graph, owned by the run
  sites,     \* the message of each edge, in the flat order of edges
  moments,   \* of each variable, as of the latest sweep
  sweeps,
  shifted,   \* whether the latest sweep changed a moment
  skipped,   \* improper cavities of the latest sweep
  ignored    \* history: edges whose answer the latest sweep did not wholly take

sweepingVars == <<ep, graphOf, sites, moments, sweeps, shifted, skipped, ignored>>

SweepingInit ==
  /\ ep = "idle" /\ graphOf = <<>> /\ sites = <<>> /\ moments = <<>>
  /\ sweeps = 0 /\ shifted = TRUE /\ skipped = 0 /\ ignored = {}

Banks == DOMAIN graphOf.banks

Position == DOMAIN graphOf.priors

\* One flat space of edges over all banks, and the slice of a bank in it.
FlatEdges == FlattenSeq([i \in Banks |-> graphOf.banks[i].edges])

Offset(i) == SumFunctionOnSet([j \in Banks |-> Len(graphOf.banks[j].edges)], {j \in Banks : j < i})

EdgesAt(v) == {e \in DOMAIN FlatEdges : FlatEdges[e].variable = v}

Plus(m, n) == <<m[1] + n[1], m[2] + n[2]>>
Minus(m, n) == <<m[1] - n[1], m[2] - n[2]>>

\* What some edges sent, together.
Added(sent, E) ==
  <<SumFunctionOnSet([e \in DOMAIN sent |-> Precision(sent[e])], E),
    SumFunctionOnSet([e \in DOMAIN sent |-> Potential(sent[e])], E)>>

\* The prior and all that was sent to each variable.
Natural(sent) == [v \in Position |-> Plus(graphOf.priors[v], Added(sent, EdgesAt(v)))]

Clipped(n) == IF n[1] < 0 THEN 0 ELSE IF n[1] > Ceiling THEN Ceiling ELSE n[1]

\* to_moments()
Moments(naturals) == [v \in Position |-> <<Clipped(naturals[v]), Potential(naturals[v])>>]

Proper(naturals) == \A v \in DOMAIN naturals : Precision(naturals[v]) > 0 /\ Precision(naturals[v]) < Ceiling

Ground(g) ==
  /\ ep' = IF g.checked /\ ~ Proper(g.priors) THEN "refused" ELSE "sweeping"
  /\ graphOf' = g
  /\ sites' = [e \in DOMAIN FlattenSeq([i \in DOMAIN g.banks |-> g.banks[i].edges]) |-> <<0, 0>>]
  /\ moments' = [v \in DOMAIN g.priors |-> <<Clipped(g.priors[v]), Potential(g.priors[v])>>]
  /\ UNCHANGED <<sweeps, shifted, skipped, ignored>>

\* Sites to take from the belief leave none to answer to.
Improper(naturals) ==
  {e \in DOMAIN FlatEdges : Precision(Minus(naturals[FlatEdges[e].variable], sites[e])) <= 0}

Degree(e) == Cardinality(EdgesAt(FlatEdges[e].variable))

\* A step toward an answered number, smaller where many edges meet; a number
\* that is not finite leaves the old one, whatever the other number is.
Toward(sent, answer, degree) == IF answer = NaN THEN sent ELSE sent + (answer - sent) \div degree

Stepped(e, answer) ==
  <<Toward(sites[e][1], answer[1], Degree(e)), Toward(sites[e][2], answer[2], Degree(e))>>

Answers == {f \in [DOMAIN FlatEdges -> UNION {FlatEdges[e].sites : e \in DOMAIN FlatEdges}] :
              \A e \in DOMAIN FlatEdges : f[e] \in FlatEdges[e].sites}

\* Edges with an answer that is not finite, in part at least.
Spoilt(answers) == {e \in DOMAIN answers : NaN \in {answers[e][1], answers[e][2]}}

\* Mutant: what is not finite is skipped, as the engine alone does.
Unheard(answers) == FALSE

\* _CheckedGaussianBank
Unusable(answers) == graphOf.checked /\ Spoilt(answers) # {}

SweepSettled == sweeps > 1 /\ ~ shifted

Swept == SweepSettled \/ sweeps = MaxSweeps

Sweep ==
  /\ ep = "sweeping" /\ ~ Swept
  /\ LET naturals == Natural(sites)
         improper == Improper(naturals)
     IN  \E answers \in Answers :
           /\ shifted' = (Moments(naturals) # moments)
           /\ moments' = Moments(naturals)
           /\ skipped' = Cardinality(improper)
           /\ ignored' = improper \union Spoilt(answers)
           /\ IF Unusable(answers)
              THEN ep' = "failed" /\ UNCHANGED sites
              ELSE /\ sites' = [e \in DOMAIN sites |->
                                  IF e \in improper THEN sites[e] ELSE Stepped(e, answers[e])]
                   /\ UNCHANGED ep
  /\ sweeps' = sweeps + 1
  /\ UNCHANGED graphOf

\* The moments are those of the last messages; the adapter refuses moments
\* that were clipped.
Publish ==
  /\ ep = "sweeping" /\ Swept
  /\ moments' = Moments(Natural(sites))
  /\ ep' = IF graphOf.checked /\ ~ Proper(Natural(sites)) THEN "failed" ELSE "done"
  /\ UNCHANGED <<graphOf, sites, sweeps, shifted, skipped, ignored>>

SweepingNext ==
  \/ ep = "idle" /\ \E g \in Graphs : Ground(g)
  \/ Sweep
  \/ Publish

SweepingSpec == SweepingInit /\ [][SweepingNext]_sweepingVars

-----------------------------------------------------------------------------
(***************************************************************************)
(* fill_belief_state(): what moved the mean of each variable.  A term is   *)
(* a potential; all are divided by the same precision.                     *)
(***************************************************************************)
KeyOf(i, j) ==
  IF graphOf.banks[i].labelled THEN <<graphOf.banks[i].name, graphOf.banks[i].edges[j].label>>
  ELSE <<graphOf.banks[i].name>>

PriorKey == <<"prior">>

\* The edges of the banks at a variable, under one key.
Under(v, key) ==
  UNION {{<<i, j>> : j \in {j \in DOMAIN graphOf.banks[i].edges :
                              graphOf.banks[i].edges[j].variable = v /\ KeyOf(i, j) = key}} : i \in Banks}

TermKeys == {PriorKey} \union UNION {{KeyOf(i, j) : j \in DOMAIN graphOf.banks[i].edges} : i \in Banks}

Sent(edge) == Potential(sites[Offset(edge[1]) + edge[2]])

\* Mutant: an edge replaces the term of an earlier one of the same key.
LastUnder(v, key) ==
  IF Under(v, key) = {} THEN IF key = PriorKey THEN Potential(graphOf.priors[v]) ELSE 0
  ELSE Sent(CHOOSE x \in Under(v, key) :
              \A y \in Under(v, key) : x[1] > y[1] \/ (x[1] = y[1] /\ x[2] >= y[2]))

Term(v, key) ==
  (IF key = PriorKey THEN Potential(graphOf.priors[v]) ELSE 0)
    + SumFunction([edge \in Under(v, key) |-> Sent(edge)])

\* "The terms sum to the posterior mean exactly": whatever the labels, and
\* whichever banks sent what, with the sites of each bank found in its slice.
\* (A precision beyond the ceiling divides the terms but not the mean.)
MeansAddUp ==
  ep = "done" =>
    \A v \in Position :
      Precision(Natural(sites)[v]) <= Ceiling =>
        SumFunction([key \in TermKeys |-> Term(v, key)]) = Potential(moments[v])

\* What the adapter publishes hides nothing the engine skipped: no moment was
\* clipped, and the answers that the last sweep did not wholly take are those of
\* the cavities it reports: no number of any other was passed over.
SkipsAreReported ==
  ep = "done" /\ graphOf.checked =>
    /\ \A v \in Position : moments[v] = Natural(sites)[v]
    /\ Cardinality(ignored) = skipped

\* What is published of a propagation is the sum of what its edges sent, and
\* what they did not take is reported.
MomentsAreExplained == MeansAddUp /\ SkipsAreReported

=============================================================================
