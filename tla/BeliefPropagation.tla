-------------------------- MODULE BeliefPropagation -------------------------
(***************************************************************************)
(* The approximate engine for finite models: what BPEngine admits          *)
(* (inference/adapters/approximate.py), and the message passing it runs    *)
(* (inference/loopy_bp.py: run_bp) on the same tables as Elimination.      *)
(*                                                                         *)
(* A message stands for how often it counts each table: the power of the   *)
(* table's potentials in it.  Sums and differences of messages, and what a *)
(* table sends from what it receives, are the code's; numbers that happen  *)
(* to agree although the counts differ are left out.  Powers are in units  *)
(* of 1/Unit, since damping halves them.                                   *)
(***************************************************************************)
EXTENDS Elimination, QueryNeeds, Functions

CONSTANTS
  Requests,  \* what is asked of the engine, see PassingAssumption
  MaxIter,   \* BPConfig.max_iter
  Tol        \* BPConfig.tol, in units

Unit == 2 ^ MaxIter

\* halves: the damping, in halves; positive: whether the tables have no zeros.
ASSUME PassingAssumption ==
  /\ MaxIter \in Nat \ {0} /\ Tol \in 1..Unit
  /\ \A r \in Requests :
       /\ {r.controlled, r.continuous, r.approximate, r.positive} \subseteq BOOLEAN
       /\ r.scopes \subseteq SUBSET Keys
       /\ r.halves \in {0, 1}

VARIABLES
  bp,         \* idle, admitted, passing, done or refused
  request,
  target,     \* the tables of the model, in order
  messages,   \* what each edge sends to its variable
  beliefs,    \* as of the latest pass
  passes,     \* iterations begun
  moved,      \* whether the latest pass moved a belief by Tol or more
  converged

passingVars == <<bp, request, target, messages, beliefs, passes, moved, converged>>

Nothing == [t \in DOMAIN target |-> 0]

\* FactorGraph: one edge from each table to each of its variables.
Edges(T) == {e \in (DOMAIN T) \X Keys : e[2] \in T[e[1]]}

PassingInit ==
  /\ bp = "idle" /\ request = <<>> /\ target = <<>>
  /\ messages = <<>> /\ beliefs = <<>>
  /\ passes = 0 /\ moved = FALSE /\ converged = FALSE

(***************************************************************************)
(* BPEngine.assess()                                                       *)
(***************************************************************************)
Admits(model, r) ==
  /\ ~ r.controlled /\ ~ r.continuous /\ r.approximate
  /\ SatisfiedBy(r.needs, {"marginal"})
  /\ \A s \in r.scopes : Cardinality(s) <= 1
  /\ \A s \in Scopes(model) : Size(s) <= MaxTable

Assess(model, r) ==
  /\ bp' = IF Admits(model, r) THEN "admitted" ELSE "refused"
  /\ request' = r
  /\ target' = model
  /\ UNCHANGED <<messages, beliefs, passes, moved, converged>>

(***************************************************************************)
(* BPEngine.solve()                                                        *)
(***************************************************************************)
Begin ==
  /\ bp = "admitted"
  /\ IF ~ request.positive
     THEN bp' = "refused" /\ UNCHANGED <<messages, beliefs>>
     ELSE /\ bp' = "passing"
          /\ messages' = [e \in Edges(target) |-> Nothing]
          /\ beliefs' = [k \in Keys |-> Nothing]
  /\ UNCHANGED <<request, target, passes, moved, converged>>

Total(sent, E) ==
  [t \in DOMAIN target |-> SumFunctionOnSet([e \in DOMAIN sent |-> sent[e][t]], E)]

\* _scatter_add(): the prior of the adapter is flat.
Beliefs(sent) == [k \in Keys |-> Total(sent, {e \in DOMAIN sent : e[2] = k})]

\* Mutant: what an edge has said comes back to its table.
IncomingEcho(sent, totals) == [e \in DOMAIN sent |-> totals[e[2]]]

\* The beliefs, each without what the edge itself contributed.
Incoming(sent, totals) ==
  [e \in DOMAIN sent |-> [t \in DOMAIN target |-> totals[e[2]][t] - sent[e][t]]]

\* _TableBank.factor_to_var(): the table, and what its other variables say.
Outgoing(heard) ==
  [e \in DOMAIN heard |->
     [Total(heard, {f \in DOMAIN heard : f[1] = e[1] /\ f[2] # e[2]}) EXCEPT ![e[1]] = @ + Unit]]

Damped(old, new) ==
  [t \in DOMAIN target |-> (request.halves * old[t] + (2 - request.halves) * new[t]) \div 2]

Apart(b, c) ==
  \E k \in Keys : \E t \in DOMAIN target : b[k][t] - c[k][t] >= Tol \/ c[k][t] - b[k][t] >= Tol

\* Mutant: the first pass, which has heard nothing yet, may settle it.
SettledAtOnce == passes > 0 /\ ~ moved

Settled == passes > 1 /\ ~ moved

Passed == Settled \/ passes = MaxIter

Pass ==
  /\ bp = "passing" /\ ~ Passed
  /\ LET totals == Beliefs(messages)
         updated == Outgoing(Incoming(messages, totals))
     IN  /\ moved' = Apart(totals, beliefs)
         /\ beliefs' = totals
         /\ messages' = [e \in DOMAIN messages |-> Damped(messages[e], updated[e])]
  /\ passes' = passes + 1
  /\ UNCHANGED <<bp, request, target, converged>>

\* The loop ends, and the beliefs are taken from the last messages.
Conclude ==
  /\ bp = "passing" /\ Passed
  /\ bp' = "done"
  /\ converged' = Settled
  /\ beliefs' = Beliefs(messages)
  /\ UNCHANGED <<request, target, messages, passes, moved>>

PassingNext ==
  \/ bp = "idle" /\ \E model \in Models, r \in Requests : Assess(model, r)
  \/ Begin
  \/ Pass
  \/ Conclude

PassingSpec == PassingInit /\ [][PassingNext]_passingVars

-----------------------------------------------------------------------------
\* No loop in what the tables of T couple: any of them have fewer edges than
\* they and their variables are.
Tree(T) ==
  \A S \in (SUBSET DOMAIN T) \ {{}} :
    SumFunctionOnSet([t \in DOMAIN T |-> Cardinality(T[t])], S)
      < Cardinality(S) + Cardinality(UNION {T[t] : t \in S})

\* The tables coupled with a variable, directly or through others: those in
\* every set that has its tables and all tables that share a variable with one
\* in the set.
Coupled(T, k) ==
  {t \in DOMAIN T :
     \A S \in SUBSET DOMAIN T :
       /\ \A u \in DOMAIN T : k \in T[u] => u \in S
       /\ \A u \in S, w \in DOMAIN T : T[u] \intersect T[w] # {} => w \in S
       => t \in S}

\* Without loops no table is counted twice in a belief, at any pass and under
\* any damping, and one that is not coupled with the variable never is.
CountedOnce ==
  bp \in {"passing", "done"} /\ Tree(target) =>
    \A k \in Keys, t \in DOMAIN target :
      beliefs[k][t] \in 0..(IF t \in Coupled(target, k) THEN Unit ELSE 0)

\* Where exact inference has an answer to compare with, it is the same one: a
\* model without loops, passed without damping and reported as converged, has
\* every table coupled with a variable counted once in its belief; and it does
\* converge, a pass after everything has been heard.
ConvergedIsExact ==
  bp = "done" /\ Tree(target) /\ request.halves = 0 =>
    /\ converged => \A k \in Keys, t \in DOMAIN target :
                      beliefs[k][t] = IF t \in Coupled(target, k) THEN Unit ELSE 0
    /\ MaxIter > Len(target) + 1 => converged

\* A belief counts what it should: nothing twice at any pass of a model
\* without loops, and all of it once the passes are said to have converged.
BeliefsAreSound == CountedOnce /\ ConvergedIsExact

=============================================================================
