---------------------------- MODULE ProcessQuery -----------------------------
(***************************************************************************)
(* The evaluation of process queries, over the rows of an exact table or   *)
(* of common draws (queries/aggregation.py, queries/history.py,            *)
(* queries/expressions.py): which executions are open, closed, late or     *)
(* undecided in each row, and what the rows come to.  Projections of       *)
(* executions are kept in the store of the session and serve later         *)
(* queries.                                                                *)
(*                                                                         *)
(* A time is <<minute>>, and <<>> when there is none.  Weights are whole   *)
(* numbers, so that masses are; an estimate is a numerator and a           *)
(* denominator.                                                            *)
(***************************************************************************)
EXTENDS Integers, Sequences, FiniteSets, FiniteSetsExt, SequencesExt

CONSTANTS
  Results,     \* what inference left behind, see ResultAssumption
  QuerySpecs,  \* queries
  MaxAsked,    \* queries asked in a session
  NoWork       \* between two queries

Kinds == {"duration_exception", "expected_exception_count", "exposure",
          "whole_job_conformance", "priority_distribution"}

Outcomes == {"satisfied", "violated", "pending", "inapplicable", "unresolved"}

VARIABLES
  projections,  \* the store: of an execution, on rows that have an identity
  asked,        \* queries asked so far
  work,         \* the query, its result, the parts that are to do
  projected,    \* executions of the current part and their projections
  parts,        \* estimates of the parts that are done
  estimate,     \* the latest estimate
  refusal       \* why the latest query has none

queryVars == <<projections, asked, work, projected, parts, estimate, refusal>>

AskingInit ==
  /\ projections = <<>> /\ asked = 0 /\ work = NoWork /\ projected = <<>>
  /\ parts = <<>> /\ estimate = NoWork /\ refusal = "none"

-----------------------------------------------------------------------------
(***************************************************************************)
(* Rows                                                                    *)
(***************************************************************************)
\* Positions in the domains of a scope.
GridOf(r, scope) ==
  {g \in [scope -> UNION {DOMAIN r.domains[k] : k \in scope}] :
     \A k \in scope : g[k] \in DOMAIN r.domains[k]}

IsTime(t) == t \in Seq(Int) /\ Len(t) <= 1

\* What a result may hold under a key.
HeldUnder(k, r) ==
  (IF k \in DOMAIN r.domains THEN Range(r.domains[k]) ELSE {})
    \union {row[k] : row \in {row \in Range(r.draws) : k \in DOMAIN row}}

\* domains: the candidate labels of each key, in their order; weight: of each
\* assignment of positions in them.  draws: rows of the same keys, when it is a
\* sample; else none.  continuous, fixed, factors, dependencies: of its manifest.
ASSUME ResultAssumption ==
  /\ MaxAsked \in Nat \ {0}
  /\ \A r \in Results :
       /\ r.method \in {"exact", "iid", "mcmc"}
       /\ r.complete \in BOOLEAN /\ r.long \in BOOLEAN
       /\ r.method = "exact" => r.complete
       /\ r.method = "exact" <=> r.draws = <<>>
       /\ r.draws \in Seq(Range(r.draws))
       /\ \A row \in Range(r.draws) :
            DOMAIN r.domains \subseteq DOMAIN row /\ DOMAIN row = DOMAIN r.draws[1]
       /\ IsFiniteSet(DOMAIN r.domains)
       /\ \A k \in DOMAIN r.domains : r.domains[k] \in Seq(Range(r.domains[k]))
       /\ DOMAIN r.weight \subseteq GridOf(r, DOMAIN r.domains)
       /\ \A h \in DOMAIN r.weight : r.weight[h] \in Nat
       /\ DOMAIN r.dependencies \subseteq DOMAIN r.factors
  /\ \A q \in QuerySpecs :
       /\ q.kind \in Kinds /\ q.covered \in BOOLEAN
       /\ "executions" \in DOMAIN q /\ q.executions \in Seq(Range(q.executions))
       /\ {q.window, q.horizon} \subseteq Int /\ q.window < q.horizon
       /\ \A n \in DOMAIN q.threshold : q.threshold[n] \in Int
       /\ IsInjective([i \in DOMAIN q.executions |-> q.executions[i].id])
       /\ \A x \in Range(q.executions) :
            /\ x.starts \in Seq(Range(x.starts)) /\ x.ends \in Seq(Range(x.ends))
            /\ \A e \in Range(x.starts) \union Range(x.ends) :
                 /\ IsTime(e.time)
                 /\ e.timeKey # "" => \A r \in Results : \A t \in HeldUnder(e.timeKey, r) : IsTime(t)
       /\ q.conditions \in Seq(Range(q.conditions))
       /\ \A c \in Range(q.conditions) :
            c.start \in Int /\ IsTime(c.end) /\ (c.end = <<>> \/ c.start <= c.end[1])

\* Mutant: the identity of a grid forgets the order of its labels.
GridOfLabels(r, scope) == <<"grid", [k \in scope |-> Range(r.domains[k])]>>

GridIdentity(r, scope) == <<"grid", [k \in scope |-> r.domains[k]]>>

WeightsOf(r, scope) ==
  [g \in GridOf(r, scope) |->
     SumFunctionOnSet(r.weight, {h \in DOMAIN r.weight : \A k \in scope : h[k] = g[k]})]

ExactData(r, scope) ==
  [rows     |-> GridOf(r, scope),
   state    |-> [g \in GridOf(r, scope) |-> [k \in scope |-> r.domains[k][g[k]]]],
   weight   |-> WeightsOf(r, scope),
   method   |-> "exact",
   complete |-> TRUE,
   identity |-> GridIdentity(r, scope)]

DrawData(r) ==
  [rows     |-> DOMAIN r.draws,
   state    |-> r.draws,
   weight   |-> [i \in DOMAIN r.draws |-> 1],
   method   |-> r.method,
   complete |-> r.complete,
   identity |-> <<"draws", r.draws>>]

Mean(data, values) == SumFunction([i \in data.rows |-> values[i] * data.weight[i]])

Mass(data, among) == SumFunction([i \in among |-> data.weight[i]])

-----------------------------------------------------------------------------
(***************************************************************************)
(* One execution in one row                                                *)
(***************************************************************************)
Holds(tests, state) == \A t \in tests : state[t[1]] = t[2]

EndpointTime(endpoint, state) ==
  IF endpoint.timeKey # "" THEN state[endpoint.timeKey] ELSE endpoint.time

Occurs(endpoint, state) == state[endpoint.event] = "yes" /\ Holds(endpoint.association, state)

\* How many endpoints are there, and the time of the last of them.
EndpointsIn(endpoints, state) ==
  LET present == {n \in DOMAIN endpoints : Occurs(endpoints[n], state)}
  IN  [count |-> Cardinality(present),
       time  |-> IF present = {} THEN <<>> ELSE EndpointTime(endpoints[Max(present)], state)]

ProjectExecution(execution, state) ==
  [start      |-> EndpointsIn(execution.starts, state),
   end        |-> EndpointsIn(execution.ends, state),
   applicable |-> Holds(execution.when, state)]

Timed(endpoint) == endpoint.count = 1 /\ endpoint.time # <<>>

ValidStart(p) == p.applicable /\ Timed(p.start)

InWindow(p, q) ==
  ValidStart(p) /\ p.start.time[1] >= q.window /\ p.start.time[1] < q.horizon

KnownEnd(p, q) ==
  InWindow(p, q) /\ Timed(p.end) /\ p.end.time[1] >= p.start.time[1]

HasThreshold(x, q) == x.id \in DOMAIN q.threshold

\* interval(): the last of the assignments of the code to apply decides.
Interval(x, p, q) ==
  CASE KnownEnd(p, q) /\ p.end.time[1] <= q.horizon -> "satisfied"
    [] KnownEnd(p, q) /\ p.end.time[1] > q.horizon -> "pending"
    [] /\ HasThreshold(x, q) /\ InWindow(p, q) /\ p.end.count = 0
       /\ q.horizon - p.start.time[1] <= q.threshold[x.id] -> "pending"
    [] OTHER ->
         IF \/ ~ p.applicable
            \/ ValidStart(p) /\ ~ InWindow(p, q)
            \/ x.starts # <<>> /\ p.start.count = 0
         THEN "inapplicable"
         ELSE "unresolved"

Duration(p) == p.end.time[1] - p.start.time[1]

Obligation(x, p, q) ==
  IF Interval(x, p, q) # "satisfied" THEN Interval(x, p, q)
  ELSE IF ~ HasThreshold(x, q) THEN "unresolved"
  ELSE IF Duration(p) > q.threshold[x.id] THEN "violated" ELSE "satisfied"

AtLeast(a, b) == IF a > b THEN a ELSE b
AtMost(a, b) == IF a < b THEN a ELSE b

\* The conditions by when they start.
InOrder(conditions) ==
  CHOOSE o \in [1..Cardinality(Range(conditions)) -> Range(conditions)] :
    /\ Range(o) = Range(conditions)
    /\ \A m, n \in DOMAIN o : m < n => o[m].start <= o[n].start

\* A condition holds until its end, and for this execution no longer than that.
Until(condition, p, q) ==
  AtMost(p.end.time[1], IF condition.end = <<>> THEN q.horizon ELSE condition.end[1])

\* Mutant: intervals that overlap are counted twice.
ReachedAlone(o, n, p, q, state) == p.start.time[1]

\* How far the conditions before the n-th, as far as they are present, reach.
Reached(o, n, p, q, state) ==
  Max({p.start.time[1]}
        \union {Until(o[m], p, q) : m \in {m \in DOMAIN o : m < n /\ Holds(o[m].present, state)}})

\* What the n-th adds to them.
Gained(o, n, p, q, state) ==
  AtLeast(0, Until(o[n], p, q)
               - AtLeast(AtLeast(p.start.time[1], o[n].start), Reached(o, n, p, q, state)))

Overlap(p, q, state) ==
  LET o == InOrder(q.conditions)
  IN  SumFunction([n \in {n \in DOMAIN o : Holds(o[n].present, state)} |-> Gained(o, n, p, q, state)])

JobStatus(statuses) ==
  IF "violated" \in statuses THEN "violated"
  ELSE IF "unresolved" \in statuses THEN "unresolved"
  ELSE IF "pending" \in statuses THEN "pending"
  ELSE IF "satisfied" \in statuses THEN "satisfied" ELSE "inapplicable"

-----------------------------------------------------------------------------
(***************************************************************************)
(* What a query reads, and whether it may                                  *)
(***************************************************************************)
KeysOf(tests) == {t[1] : t \in tests}

EndpointsOf(x) == Range(x.starts) \union Range(x.ends)

ScopeOf(x, q) ==
  KeysOf(x.when)
    \union {e.event : e \in EndpointsOf(x)}
    \union (UNION {KeysOf(e.association) : e \in EndpointsOf(x)})
    \union ({e.timeKey : e \in EndpointsOf(x)} \ {""})
    \union UNION {KeysOf(c.present) : c \in Range(q.conditions)}

Scope(q) == UNION {ScopeOf(x, q) : x \in Range(q.executions)}

\* validate_bindings(): what a query says of times and labels is what was
\* conditioned on.
EndpointBound(e, r) ==
  e.family = "opaque" \/
  /\ e.family = "event"
  /\ e.timeKey # "" => e.ownTime /\ e.timeKey \in r.continuous
  /\ e.timeKey = "" /\ e.time # <<>> => e.event \in DOMAIN r.fixed /\ r.fixed[e.event] = e.time

TestsOf(q) ==
  (UNION {x.when \union UNION {e.association : e \in EndpointsOf(x)} : x \in Range(q.executions)})
    \union UNION {c.present : c \in Range(q.conditions)}

Bound(q, r) ==
  /\ \A x \in Range(q.executions) : \A e \in EndpointsOf(x) : EndpointBound(e, r)
  /\ \A t \in TestsOf(q) : t[1] \in DOMAIN r.domains => t[2] \in Range(r.domains[t[1]])

\* A table or draws of keys that the result does not have fail.
KeysKnown(r) == DOMAIN r.domains \union UNION {DOMAIN row : row \in Range(r.draws)}

Populations(q) == {x.population : x \in Range(q.executions)}

\* Factors that are connected with a scope, pass after pass over all of them.
LineagePass(r, keys) ==
  keys \union UNION {r.factors[f] : f \in {g \in DOMAIN r.factors : r.factors[g] \intersect keys # {}}}

Closure(r, keys) ==
  FoldSet(LAMBDA f, reached : LineagePass(r, reached), keys, DOMAIN r.factors)

Used(r, keys) == {f \in DOMAIN r.factors : r.factors[f] \intersect Closure(r, keys) # {}}

Evidence(r, q) ==
  (UNION {r.dependencies[f] : f \in Used(r, Scope(q)) \intersect DOMAIN r.dependencies})
    \union UNION {c.evidence : c \in Range(q.conditions)}

\* Reference values must not be negative; an execution without one is not
\* compared.
Refuses(x, q) == HasThreshold(x, q) /\ q.threshold[x.id] < 0

\* What a kind of query demands of its population.
AdmitsPopulation(q) ==
  /\ q.kind = "whole_job_conformance" => Cardinality(Populations(q)) = 1
  /\ q.kind = "duration_exception" => Len(q.executions) = 1

-----------------------------------------------------------------------------
(***************************************************************************)
(* What the rows come to                                                   *)
(***************************************************************************)
StatusesIn(q, at, i) ==
  [x \in Range(q.executions) |->
     IF q.kind # "exposure" THEN Obligation(x, at[x.id][i], q)
     ELSE IF Interval(x, at[x.id][i], q) = "satisfied" /\ ~ q.covered THEN "unresolved"
     ELSE Interval(x, at[x.id][i], q)]

\* What is counted: jobs for conformance, executions for the others.
Counted(q, at, i) ==
  IF q.kind = "whole_job_conformance"
  THEN [job \in Populations(q) |-> JobStatus(Range(StatusesIn(q, at, i)))]
  ELSE StatusesIn(q, at, i)

HowMany(statuses, among) == Cardinality({x \in DOMAIN statuses : statuses[x] \in among})

Numerator(q, at, state, i) ==
  CASE q.kind = "whole_job_conformance" -> HowMany(Counted(q, at, i), {"satisfied"})
    [] q.kind = "exposure" ->
         SumFunction([x \in {x \in Range(q.executions) : q.covered /\ Counted(q, at, i)[x] = "satisfied"} |->
                        Overlap(at[x.id][i], q, state)])
    [] OTHER -> HowMany(Counted(q, at, i), {"violated"})

\* A method that is not exact is assessed on the series of the rows.
Assessments(data, r, numerators, denominators) ==
  LET a == Mean(data, numerators)
      b == Mean(data, denominators)
  IN  IF b <= 0 THEN {"undefined_denominator"}
      ELSE IF ~ r.long \/ \A i \in data.rows : numerators[i] * b = a * denominators[i]
      THEN {"constant_or_insufficient_draws"}
      ELSE IF r.method = "iid" THEN {"assessed"}
      ELSE {"assessed", "numerically_inadequate", "between_chain_disagreement"}

\* Mutant: the status of the draws is not looked at.
NumericalAnyway(data, assessed) == IF data.method = "exact" THEN "exact" ELSE assessed

Numerical(data, assessed) ==
  IF data.method = "exact" THEN "exact" ELSE IF data.complete THEN assessed ELSE "incomplete"

StatusOf(answered, numerical) ==
  IF ~ answered THEN "unresolved"
  ELSE IF numerical \in {"exact", "assessed"} THEN "assessed" ELSE "numerically_inadequate"

Estimated(q, r, data, at, assessed) ==
  LET den == [i \in data.rows |-> HowMany(Counted(q, at, i), {"satisfied", "violated"})]
      num == [i \in data.rows |-> Numerator(q, at, data.state[i], i)]
  IN  [numerator   |-> Mean(data, num),
       denominator |-> Mean(data, den),
       outcomes    |-> [o \in Outcomes |-> Mean(data, [i \in data.rows |-> HowMany(Counted(q, at, i), {o})])],
       ranks       |-> <<>>,
       status      |-> StatusOf(Mean(data, den) > 0, Numerical(data, assessed)),
       evidence    |-> Evidence(r, q)]

\* Jobs are ranked by their violations in the rows in which every job is
\* decided; jobs that tie share the better rank.
Of(q, job) == {x \in Range(q.executions) : x.population = job}

Rankable(q, at, i) ==
  \A job \in Populations(q) :
    /\ \A x \in Of(q, job) : StatusesIn(q, at, i)[x] \in {"satisfied", "violated", "inapplicable"}
    /\ \E x \in Of(q, job) : StatusesIn(q, at, i)[x] # "inapplicable"

Score(q, at, i, job) == Cardinality({x \in Of(q, job) : StatusesIn(q, at, i)[x] = "violated"})

\* Mutant: jobs that tie share the worse rank.
WorseRank(q, at, i, job) ==
  Cardinality({other \in Populations(q) : Score(q, at, i, other) >= Score(q, at, i, job)})

CompetitionRank(q, at, i, job) ==
  1 + Cardinality({other \in Populations(q) : Score(q, at, i, other) > Score(q, at, i, job)})

TopTie(q, at, i) == Cardinality({job \in Populations(q) : CompetitionRank(q, at, i, job) = 1}) > 1

Ranked(q, r, data, at, assessed) ==
  LET eligible == {i \in data.rows : Rankable(q, at, i)}
      total    == Mass(data, eligible)
  IN  [numerator   |-> Mass(data, {i \in eligible : TopTie(q, at, i)}),
       denominator |-> total,
       outcomes    |-> [rankable |-> total, unrankable |-> Mass(data, data.rows) - total],
       ranks       |-> [job \in Populations(q) |-> [rank \in 1..Cardinality(Populations(q)) |->
                          Mass(data, {i \in eligible : CompetitionRank(q, at, i, job) = rank})]],
       status      |-> StatusOf(total > 0, Numerical(data, assessed)),
       evidence    |-> Evidence(r, q)]

-----------------------------------------------------------------------------
(***************************************************************************)
(* evaluate() of a table, evaluate_on() of draws                           *)
(***************************************************************************)
InParts(q) == q.kind \in {"expected_exception_count", "exposure"} /\ Len(q.executions) > 1

PartsOf(q, r) ==
  IF r.method = "exact" /\ InParts(q)
  THEN [n \in DOMAIN q.executions |-> [q EXCEPT !.executions = <<q.executions[n]>>]]
  ELSE <<q>>

Ask(r, q) ==
  /\ work = NoWork /\ asked < MaxAsked
  /\ asked' = asked + 1
  /\ projected' = <<>> /\ parts' = <<>> /\ estimate' = NoWork /\ refusal' = "none"
  /\ work' = [query |-> q, result |-> r, bound |-> FALSE, left |-> PartsOf(q, r)]
  /\ UNCHANGED projections

Abandon(kind) == work' = NoWork /\ refusal' = kind

Part == Head(work.left)

RowsOf == IF work.result.method = "exact" THEN ExactData(work.result, Scope(Part)) ELSE DrawData(work.result)

Unprojected == {n \in DOMAIN Part.executions : Part.executions[n].id \notin DOMAIN projected}

With(f, key, value) == [k \in DOMAIN f \union {key} |-> IF k = key THEN value ELSE f[k]]

Decoding(r) == <<r.continuous, r.fixed>>

Fresh(x, data) == [i \in data.rows |-> ProjectExecution(x, data.state[i])]

Bind ==
  /\ work # NoWork /\ ~ work.bound
  /\ IF ~ (Scope(Part) \subseteq KeysKnown(work.result)) THEN Abandon("absent")
     ELSE IF ~ Bound(Part, work.result) THEN Abandon("capability")
     ELSE IF Part.executions = <<>> THEN Abandon("validation")
     ELSE work' = [work EXCEPT !.bound = TRUE] /\ UNCHANGED refusal
  /\ UNCHANGED <<projections, asked, projected, parts, estimate>>

\* The first execution that is not projected yet, from the store if it is there.
Project ==
  /\ work # NoWork /\ work.bound
  /\ \E n \in Unprojected :
       /\ \A m \in Unprojected : n <= m
       /\ LET data == RowsOf
              x    == Part.executions[n]
              key  == <<data.identity, x, Decoding(work.result)>>
          IN  /\ projections' = IF key \in DOMAIN projections THEN projections
                                ELSE With(projections, key, Fresh(x, data))
              /\ projected' = With(projected, x.id, projections'[key])
              /\ IF Refuses(x, Part) THEN Abandon("validation") ELSE UNCHANGED <<work, refusal>>
  /\ UNCHANGED <<asked, parts, estimate>>

\* Parts are of one execution each; their masses add up.
Together ==
  IF Len(parts') = 1 THEN parts'[1]
  ELSE [parts'[1] EXCEPT
          !.numerator = SumFunction([n \in DOMAIN parts' |-> parts'[n].numerator]),
          !.denominator = SumFunction([n \in DOMAIN parts' |-> parts'[n].denominator]),
          !.outcomes = [o \in Outcomes |-> SumFunction([n \in DOMAIN parts' |-> parts'[n].outcomes[o]])],
          !.status = IF SumFunction([n \in DOMAIN parts' |-> parts'[n].denominator]) > 0
                     THEN "assessed" ELSE "unresolved",
          !.evidence = Evidence(work.result, work.query)]

\* The series that are assessed: of the rows that can be ranked, of a count,
\* or of a ratio.
Series(q, data) ==
  IF q.kind = "priority_distribution"
  THEN [num |-> [i \in data.rows |-> IF Rankable(q, projected, i) THEN 1 ELSE 0],
        den |-> [i \in data.rows |-> 1]]
  ELSE [num |-> [i \in data.rows |-> Numerator(q, projected, data.state[i], i)],
        den |-> [i \in data.rows |->
                   IF q.kind = "expected_exception_count" THEN 1
                   ELSE HowMany(Counted(q, projected, i), {"satisfied", "violated"})]]

PartEstimate(data, assessed) ==
  IF Part.kind = "priority_distribution"
  THEN Ranked(Part, work.result, data, projected, assessed)
  ELSE Estimated(Part, work.result, data, projected, assessed)

Concluded ==
  LET data == RowsOf
  IN  \E assessed \in Assessments(data, work.result, Series(Part, data).num, Series(Part, data).den) :
        /\ parts' = Append(parts, PartEstimate(data, assessed))
        /\ IF Len(work.left) > 1
           THEN work' = [work EXCEPT !.left = Tail(work.left), !.bound = FALSE] /\ UNCHANGED estimate
           ELSE work' = NoWork /\ estimate' = [of |-> work.query, on |-> work.result, is |-> Together]

FinishPart ==
  /\ work # NoWork /\ work.bound
  /\ Unprojected = {}
  /\ projected' = <<>>
  /\ IF AdmitsPopulation(Part) THEN Concluded /\ UNCHANGED refusal
     ELSE Abandon("validation") /\ UNCHANGED <<parts, estimate>>
  /\ UNCHANGED <<projections, asked>>

\* A checkpoint of the control may stop the evaluation anywhere.
Halt ==
  /\ work # NoWork
  /\ Abandon("stopped")
  /\ projected' = <<>>
  /\ UNCHANGED <<projections, asked, parts, estimate>>

AskingNext ==
  \/ \E r \in Results, q \in QuerySpecs : Ask(r, q)
  \/ Bind
  \/ Project
  \/ FinishPart
  \/ Halt

-----------------------------------------------------------------------------
\* A projection from the store is the one of the rows at hand, although the
\* store has rows of other tables, other draws and other models.
StoreIsTransparent ==
  work # NoWork =>
    \A x \in Range(Part.executions) :
      x.id \in DOMAIN projected => projected[x.id] = Fresh(x, RowsOf)

\* The rows of everything the result knows, whatever the query asked for.
AllRows(r) == IF r.method = "exact" THEN ExactData(r, DOMAIN r.domains) ELSE DrawData(r)

\* An execution that began once within the window and ended once, by the
\* horizon.
Closed(x, q, s) ==
  LET p == ProjectExecution(x, s)
  IN  /\ p.applicable /\ p.start.count = 1 /\ p.end.count = 1
      /\ p.start.time # <<>> /\ p.end.time # <<>>
      /\ q.window <= p.start.time[1] /\ p.start.time[1] < q.horizon
      /\ p.start.time[1] <= p.end.time[1] /\ p.end.time[1] <= q.horizon

Late(x, q, s) == Closed(x, q, s) /\ Duration(ProjectExecution(x, s)) > q.threshold[x.id]

MinutesIn(x, q, s) ==
  LET p == ProjectExecution(x, s)
  IN  {m \in p.start.time[1] .. p.end.time[1] - 1 :
         \E c \in Range(q.conditions) :
           /\ Holds(c.present, s)
           /\ c.start <= m /\ m < (IF c.end = <<>> THEN q.horizon ELSE c.end[1])}

\* What an execution adds in a state to a denominator, and to a numerator.
Decided(x, q, s) ==
  IF (IF q.kind = "exposure" THEN q.covered ELSE HasThreshold(x, q)) /\ Closed(x, q, s) THEN 1 ELSE 0

Worth(x, q, s) ==
  IF q.kind = "exposure"
  THEN IF q.covered /\ Closed(x, q, s) THEN Cardinality(MinutesIn(x, q, s)) ELSE 0
  ELSE IF HasThreshold(x, q) /\ Late(x, q, s) THEN 1 ELSE 0

\* A count, an exposure or a probability is what the rows of the whole result
\* come to, by the minute and by the execution: although it is made up of
\* parts, each on a table of its own, and of intervals that overlap.
AnswersAreAverages ==
  (estimate # NoWork /\ estimate.of.kind \in {"expected_exception_count", "duration_exception", "exposure"}) =>
    LET q    == estimate.of
        data == AllRows(estimate.on)
    IN  /\ estimate.is.denominator =
             Mean(data, [i \in data.rows |->
                           SumFunction([x \in Range(q.executions) |-> Decided(x, q, data.state[i])])])
        /\ estimate.is.numerator =
             Mean(data, [i \in data.rows |->
                           SumFunction([x \in Range(q.executions) |-> Worth(x, q, data.state[i])])])

\* What draws of chains that were stopped come to is never assessed.
IncompleteIsNotAssessed ==
  estimate # NoWork /\ ~ estimate.on.complete => estimate.is.status # "assessed"

\* In every row that counts someone is first: the probabilities of rank one
\* add up to at least the rankable mass, and to no more than it without ties;
\* each job has one rank in each of these rows.
RanksCoverRankable ==
  (estimate # NoWork /\ estimate.of.kind = "priority_distribution") =>
    LET is == estimate.is
        jobs == Populations(estimate.of)
        first == SumFunction([job \in jobs |-> is.ranks[job][1]])
    IN  /\ \A job \in jobs : SumFunction(is.ranks[job]) = is.denominator
        /\ first >= is.denominator + is.numerator
        /\ is.numerator = 0 => first = is.denominator

\* An estimate says what the rows say: counts and exposures are those of the
\* rows put together, ranks cover the rankable rows, and what comes of stopped
\* chains is not called assessed.
EstimatesAreExact == AnswersAreAverages /\ RanksCoverRankable /\ IncompleteIsNotAssessed

=============================================================================
