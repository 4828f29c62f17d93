----------------------------- MODULE Elimination ----------------------------
(***************************************************************************)
(* inference/elimination.py: exact finite inference by variable            *)
(* elimination, as far as the scopes of the tables go.                     *)
(*                                                                         *)
(* A run first orders the variables on a graph of neighbours and estimates *)
(* what each elimination will allocate (ordering_and_cost); it is refused  *)
(* or admitted by that estimate alone (preflight).  Only then are tables   *)
(* combined, bucket by bucket (eliminate, or elimination_schedule and      *)
(* _eliminate_reusing, which do the same to the same tables).  The first   *)
(* run eliminates every variable and retains one conditional table per     *)
(* variable; the posterior made of these answers joint queries by runs of  *)
(* its own, and draws assignments by reading the conditionals backwards.   *)
(*                                                                         *)
(* Tables stand for their scopes.  A list of working tables is the set of  *)
(* their positions in the order of creation, in which the code keeps it.   *)
(***************************************************************************)
EXTENDS Integers, FiniteSets, Sequences, FiniteSetsExt

CONSTANTS
  Keys,          \* the variables, numbered in the order of their names
  DomainSize,    \* DomainSize[k]: number of candidate values of variable k
  Models,        \* factor scopes of the models to infer (a sequence each)
  MaxTable, MaxClique, MaxJoint   \* the policy's budgets, in table states

ASSUME EliminationAssumption ==
  /\ Keys \subseteq Nat
  /\ IsFiniteSet(Keys)
  /\ DomainSize \in [Keys -> Nat \ {0}]
  /\ Models \subseteq Seq(SUBSET Keys)

VARIABLES
  pc,            \* what is being done
  keep,          \* variables of the joint table asked for, {} for inference
  retain,        \* conditionals are retained (inference, not a query)
  graph,         \* variables not ordered yet -> their neighbours
  order,         \* elimination ordering found so far
  planned,       \* scopes whose largest size is the estimate
  tables,        \* scopes of all tables made so far
  active,        \* positions of the tables still to be combined
  pos,           \* next elimination, or next conditional to draw from
  conditionals,  \* retained conditional tables: scopes
  assigned,      \* variables the draw has assigned
  plan,          \* history: the sets of scopes the ordering went through
  frontals       \* history: the variable every conditional was made for

vars == <<pc, keep, retain, graph, order, planned, tables, active, pos,
          conditionals, assigned, plan, frontals>>

\* States of a table over the variables of S.
Size(S) == FoldSet(LAMBDA k, n : DomainSize[k] * n, 1, S)

Scopes(T) == {T[i] : i \in DOMAIN T}

-----------------------------------------------------------------------------
(***************************************************************************)
(* ordering_and_cost()                                                     *)
(***************************************************************************)
Neighbours(H, k) == (UNION {s \in H : k \in s}) \ {k}

\* The tables that the elimination of k leaves: those without k, and one over
\* the other variables of its bucket.
Reduced(H, k) == {s \in H : k \notin s} \union {Neighbours(H, k)}

Plan(T, kept, retaining) ==
  /\ pc' = "planning"
  /\ keep' = kept
  /\ retain' = retaining
  /\ graph' = [k \in Keys |-> Neighbours(Scopes(T), k)]
  /\ order' = <<>>
  /\ planned' = Scopes(T)
  /\ tables' = T
  /\ active' = DOMAIN T
  /\ plan' = <<Scopes(T)>>

\* Mutant: the variables asked for are summed out as well.
AnyCandidate == DOMAIN graph

Candidates == DOMAIN graph \ keep

Fill(k) == Cardinality({p \in graph[k] \X graph[k] : p[1] < p[2] /\ p[2] \notin graph[p[1]]})

Clique(k) == {k} \union graph[k]

\* Minimum fill, then the smaller table, then the name.
Before(k, o) ==
  \/ Fill(k) < Fill(o)
  \/ Fill(k) = Fill(o) /\ Size(Clique(k)) < Size(Clique(o))
  \/ Fill(k) = Fill(o) /\ Size(Clique(k)) = Size(Clique(o)) /\ k <= o

\* Mutant: the neighbours of k do not become neighbours of each other.
FilledNot(k, v) == graph[v] \ {k}

Filled(k, v) ==
  IF v \in graph[k] THEN (graph[v] \ {k}) \union (graph[k] \ {v}) ELSE graph[v]

Choose(k) ==
  /\ pc = "planning"
  /\ k \in Candidates
  /\ \A o \in Candidates : Before(k, o)
  /\ order' = Append(order, k)
  /\ planned' = planned \union {Clique(k)}
  /\ graph' = [v \in DOMAIN graph \ {k} |-> Filled(k, v)]
  /\ plan' = Append(plan, Reduced(plan[Len(plan)], k))
  /\ UNCHANGED <<pc, keep, retain, tables, active, pos, conditionals, assigned,
                 frontals>>

(***************************************************************************)
(* preflight()                                                             *)
(***************************************************************************)
OverBudget ==
  \/ \E s \in Scopes(tables) : Size(s) > MaxTable
  \/ \E s \in planned : Size(s) > MaxClique
  \/ Size(keep) > MaxJoint

\* A refused query leaves the posterior as it was.
Preflight ==
  /\ pc = "planning"
  /\ Candidates = {}
  /\ pc' = IF ~OverBudget THEN "eliminating" ELSE IF retain THEN "refused" ELSE "ready"
  /\ pos' = 1
  /\ UNCHANGED <<keep, retain, graph, order, planned, tables, active, conditionals,
                 assigned, plan, frontals>>

(***************************************************************************)
(* eliminate()                                                             *)
(***************************************************************************)
Bucket(k) == {i \in active : k \in tables[i]}

\* A variable in no table gets a table of its own.
Joined(k) == {k} \union UNION {tables[i] : i \in Bucket(k)}

\* Mutant: the message still ranges over the variable summed out.
SeparatorWith(k) == Joined(k)

Separator(k) == Joined(k) \ {k}

Eliminate ==
  LET k == order[pos]
  IN  /\ pc = "eliminating"
      /\ pos <= Len(order)
      /\ tables' = Append(tables, Separator(k))
      /\ active' = (active \ Bucket(k)) \union {Len(tables) + 1}
      /\ conditionals' = IF retain THEN Append(conditionals, Joined(k)) ELSE conditionals
      /\ frontals' = IF retain THEN Append(frontals, k) ELSE frontals
      /\ pos' = pos + 1
      /\ UNCHANGED <<pc, keep, retain, graph, order, planned, assigned, plan>>

Remaining == UNION {tables[i] : i \in active}

\* The model may turn out to have no mass, or a normalizer that is undefined.
Complete ==
  /\ pc = "eliminating"
  /\ pos > Len(order)
  /\ pc' \in IF retain THEN {"ready", "impossible"} ELSE {"ready"}
  /\ UNCHANGED <<keep, retain, graph, order, planned, tables, active, pos, conditionals,
                 assigned, plan, frontals>>

(***************************************************************************)
(* EliminationPosterior                                                    *)
(***************************************************************************)
Start(model) ==
  /\ pc = "called"
  /\ Plan(model, {}, TRUE)
  /\ UNCHANGED <<pos, conditionals, assigned, frontals>>

Joint(scope) ==
  /\ pc = "ready"
  /\ Plan(conditionals, scope, FALSE)
  /\ UNCHANGED <<pos, conditionals, assigned, frontals>>

Draw ==
  /\ pc = "ready"
  /\ pc' = "drawing"
  /\ pos' = Len(conditionals)
  /\ assigned' = {}
  /\ UNCHANGED <<keep, retain, graph, order, planned, tables, active, conditionals, plan,
                 frontals>>

Frontal == conditionals[pos] \ assigned

\* A conditional without exactly one unassigned variable is a failure.
DrawNext ==
  /\ pc = "drawing"
  /\ pos > 0
  /\ pc' = IF Cardinality(Frontal) = 1 THEN pc ELSE "broken"
  /\ assigned' = assigned \union Frontal
  /\ pos' = pos - 1
  /\ UNCHANGED <<keep, retain, graph, order, planned, tables, active, conditionals, plan,
                 frontals>>

Drawn ==
  /\ pc = "drawing"
  /\ pos = 0
  /\ pc' = "ready"
  /\ UNCHANGED <<keep, retain, graph, order, planned, tables, active, pos, conditionals,
                 assigned, plan, frontals>>

Init ==
  /\ pc = "called"
  /\ keep = {}
  /\ retain = TRUE
  /\ graph = <<>>
  /\ order = <<>>
  /\ planned = {}
  /\ tables = <<>>
  /\ active = {}
  /\ pos = 1
  /\ conditionals = <<>>
  /\ assigned = {}
  /\ plan = <<>>
  /\ frontals = <<>>

Next ==
  \/ pc = "called" /\ \E model \in Models : Start(model)
  \/ \E k \in Keys : Choose(k)
  \/ Preflight
  \/ Eliminate
  \/ Complete
  \/ \E scope \in SUBSET Keys : Joint(scope)
  \/ Draw
  \/ DrawNext
  \/ Drawn

Spec == Init /\ [][Next]_vars

-----------------------------------------------------------------------------
\* The shape of a run: scopes are sets of variables, the graph is over those
\* not ordered yet, and the active tables are among those made.
TypeOK ==
  /\ pc \in {"called", "planning", "eliminating", "ready", "drawing",
             "refused", "impossible", "broken"}
  /\ keep \subseteq Keys /\ assigned \subseteq Keys
  /\ retain \in BOOLEAN
  /\ order \in Seq(Keys)
  /\ tables \in Seq(SUBSET Keys) /\ conditionals \in Seq(SUBSET Keys)
  /\ active \subseteq DOMAIN tables
  /\ pos \in Nat
  /\ pc = "planning" => \A k \in DOMAIN graph : graph[k] \subseteq DOMAIN graph \ {k}

\* What preflight() admitted bounds what is allocated: every table made by an
\* elimination, in inference or in a query, has the scope of one the plan
\* estimated, although the plan saw neighbours only and never a table; so none
\* exceeds the clique budget.
AllocationWithinPlan ==
  pc = "eliminating" /\ pos <= Len(order) =>
    /\ Joined(order[pos]) \in planned
    /\ ~(Size(Joined(order[pos])) > MaxClique)

\* A run leaves exactly the variables asked for: joint() finds each of them
\* in the table, and inference ends with a scalar.
ResultScope ==
  pc = "eliminating" /\ pos > Len(order) => Remaining = keep

\* Reading the conditionals backwards always finds one unassigned variable in
\* each, and ends with every variable assigned.
DrawsAssignAll ==
  /\ pc # "broken"
  /\ pc = "drawing" /\ pos = 0 => assigned = Keys

\* The symbolic plan is kept by the tables, although different code makes
\* them: their scopes were planned, a run leaves what it was asked for, and
\* its conditionals can be read backwards.
PlanIsKept == AllocationWithinPlan /\ ResultScope /\ DrawsAssignAll

=============================================================================
