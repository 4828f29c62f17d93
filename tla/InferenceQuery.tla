--------------------------- MODULE InferenceQuery ---------------------------
(***************************************************************************)
(* The way of a bundle of queries: what the queries need together          *)
(* (queries/evaluate.py: requirements_for), the choice of an engine and    *)
(* the solving (inference/router.py, and assess() of the engines), and the *)
(* evaluation on the posterior (queries/evaluate.py: evaluate), first on   *)
(* exact tables, then on draws all queries share.                          *)
(*                                                                         *)
(* Engines, posteriors and evaluators may be the caller's own; those that  *)
(* declare to be cooperative are handed the control of the call, the       *)
(* others must not be used with one.  Budgets may be exceeded, runs        *)
(* stopped, and calculations fail wherever the code says so.               *)
(***************************************************************************)
EXTENDS Naturals, Sequences, QueryNeeds

CONSTANTS
  Bundles,    \* the sequences of queries a caller may have
  Settings,   \* the policies, models and registries it may have
  None

Capabilities == {"marginal", "joint", "expectation", "normalizer", "joint_draws"}

AutoRoute == <<"reference_elimination", "reference_hybrid", "blocked">>

Exact   == {"gtsam_exact", "reference_elimination"}
Engines == Exact \union {"reference_hybrid", "blocked", "bp"}

Supplies(name) ==
  CASE name \in Exact -> Capabilities
    [] name = "reference_hybrid" -> {"joint_draws", "normalizer"}
    [] name = "blocked" -> {"joint_draws"}
    [] name = "bp" -> {"marginal"}

(***************************************************************************)
(* A query says what it needs, whether its evaluator is registered, is     *)
(* cooperative, and can be evaluated on draws.                             *)
(***************************************************************************)
Needs == [capabilities : SUBSET Capabilities, alternatives : SUBSET SUBSET Capabilities]

Queries ==
  [needs : Needs,
   known : BOOLEAN, cooperative : BOOLEAN, onDraws : BOOLEAN]

(***************************************************************************)
(* A setting names the engine of the policy; the engines that are          *)
(* registered and whether they are cooperative, and their posteriors; if   *)
(* the model has continuous variables; if the policy has a SamplingConfig, *)
(* allow_approximate, and max_seconds; if the call has a control, a warm   *)
(* start, a generator.  An engine of the caller's own differs from that of *)
(* its name in being cooperative or not.                                   *)
(***************************************************************************)
ASSUME QueryAssumption ==
  /\ Bundles \subseteq Seq(Queries)
  /\ \A s \in Settings :
       /\ s.engine \in Engines \union {"auto"}
       /\ DOMAIN s.cooperative \subseteq Engines
       /\ \A e \in DOMAIN s.cooperative : s.cooperative[e] \in BOOLEAN
       /\ {s.continuous, s.sampling, s.approximate, s.seconds, s.control, s.warm, s.rng}
            \subseteq BOOLEAN
  /\ None \notin Engines \union {"tables", "draws"}

VARIABLES
  bundle, setting,
  pc,           \* what the call is doing, "raised" when it has failed
  position,     \* queries or engines dealt with in this loop
  required,     \* what the queries need together
  considered,   \* engines that were declined
  plan,         \* the engine that was chosen
  result,       \* capabilities, status, and origin of the posterior
  data,         \* what queries are evaluated on: "tables", or draws
  estimates,    \* of the queries evaluated so far
  answer,       \* what evaluate() returned
  failure,      \* what was raised
  called        \* history: what was called, and if it was handed a control

inputs   == <<bundle, setting>>
planning == <<required, considered, plan>>
answers  == <<data, estimates, answer>>
vars     == <<inputs, pc, position, planning, result, answers, failure, called>>

Nothing == [capabilities |-> {}, alternatives |-> NoneYet]

Init ==
  /\ bundle \in Bundles
  /\ setting \in Settings
  /\ pc = "require"
  /\ position = 0
  /\ required = Nothing
  /\ considered = <<>>
  /\ plan = None
  /\ result = None
  /\ data = None
  /\ estimates = <<>>
  /\ answer = None
  /\ failure = None
  /\ called = {}

Raise(kind) == pc' = "raised" /\ failure' = kind

Go(next) == pc' = next /\ UNCHANGED failure

Calls(what, cooperative, control) ==
  called' = called \union {[what |-> what, cooperative |-> cooperative, control |-> control]}

\* A checkpoint of the control may stop the call.
Stops == setting.control

-----------------------------------------------------------------------------
(***************************************************************************)
(* requirements_for()                                                      *)
(***************************************************************************)
Require ==
  /\ pc = "require"
  /\ position < Len(bundle)
  /\ IF bundle[position + 1].known
     THEN /\ required' = Include(required, bundle[position + 1].needs)
          /\ position' = position + 1
          /\ UNCHANGED <<pc, failure>>
     ELSE Raise("capability") /\ UNCHANGED <<required, position>>
  /\ UNCHANGED <<inputs, considered, plan, result, answers, called>>

Required ==
  /\ pc = "require"
  /\ position = Len(bundle)
  /\ required' = Collected(required)
  /\ position' = 0
  /\ \/ Go("plan")
     \/ Stops /\ Raise("stopped")
  /\ UNCHANGED <<inputs, considered, plan, result, answers, called>>

-----------------------------------------------------------------------------
(***************************************************************************)
(* plan_inference()                                                        *)
(***************************************************************************)
Route == IF setting.engine = "auto" THEN AutoRoute ELSE <<setting.engine>>

Registered(name) == name \in DOMAIN setting.cooperative

\* Mutant: an engine is not asked if it can be controlled.
AsksRegistered(name) == Registered(name)

\* The router may ask the engine.
MayAsk(name) == Registered(name) /\ (setting.control => setting.cooperative[name])

\* Mutant: needs are left to the evaluation.
AdmitsModel(name) ==
  CASE name \in Exact -> ~ setting.continuous
    [] name = "reference_hybrid" -> setting.continuous
    [] name = "blocked" -> setting.sampling
    [] name = "bp" -> ~ setting.continuous /\ setting.approximate

\* The engine can do it, as far as no budget is concerned.
Admits(name) ==
  /\ SatisfiedBy(required, Supplies(name))
  /\ CASE name \in Exact -> ~ setting.continuous
       [] name = "reference_hybrid" -> setting.continuous
       [] name = "blocked" -> setting.sampling
       [] name = "bp" -> ~ setting.continuous /\ setting.approximate

RouteEnds == position + 1 = Len(Route)

\* A capability error of an engine, or a budget, sends auto to the next one.
Decline(name, kind) ==
  /\ IF setting.engine # "auto"
     THEN Raise(kind) /\ UNCHANGED <<considered, position>>
     ELSE /\ considered' = Append(considered, name)
          /\ position' = position + 1
          /\ IF RouteEnds THEN Raise("capability") ELSE Go("plan")
  /\ UNCHANGED plan

Choose(name) ==
  /\ plan' = name
  /\ Go("solve")
  /\ UNCHANGED <<considered, position>>

Assess ==
  LET name == Route[position + 1]
  IN  /\ pc = "plan"
      /\ IF MayAsk(name)
         THEN /\ Calls(name, setting.cooperative[name], setting.control)
              /\ IF Admits(name)
                 THEN \/ Choose(name)
                      \/ Decline(name, "budget")
                      \/ Stops /\ Raise("stopped") /\ UNCHANGED <<considered, position, plan>>
                      \/ Raise("failed") /\ UNCHANGED <<considered, position, plan>>
                 ELSE Decline(name, "capability")
         ELSE Decline(name, "capability") /\ UNCHANGED called
      /\ UNCHANGED <<inputs, required, result, answers>>

-----------------------------------------------------------------------------
(***************************************************************************)
(* infer()                                                                 *)
(***************************************************************************)
\* max_seconds makes a child of the control, or a control; the sampler
\* looks after it by itself.
Limited == setting.seconds /\ plan # "blocked"

Controlled == setting.control \/ Limited

MaySolve ==
  /\ setting.cooperative[plan] \/ ~ (Controlled \/ setting.warm)
  /\ plan = "blocked" => setting.rng
  /\ setting.warm => plan = "blocked"

Posterior(status) ==
  result' = [capabilities |-> Supplies(plan), status |-> status, origin |-> plan]

\* Mutant: an engine that fails is replaced by the next one.
FailOver(kind) ==
  IF kind # "stopped" /\ setting.engine = "auto" /\ position + 1 < Len(Route)
  THEN position' = position + 1 /\ Go("plan")
  ELSE Raise(kind) /\ UNCHANGED position

\* A failure during solving does not start another engine.
SolveFails(kind) == Raise(kind) /\ UNCHANGED position

Solve ==
  /\ pc = "solve"
  /\ IF MaySolve
     THEN /\ Calls(plan, setting.cooperative[plan], Controlled)
          /\ \/ Posterior("complete") /\ Go("inferred") /\ position' = 0
             \/ /\ plan = "blocked" /\ (Stops \/ setting.seconds)
                /\ Posterior("partial") /\ Go("inferred") /\ position' = 0
             \/ UNCHANGED result /\ Controlled /\ SolveFails("stopped")
             \/ UNCHANGED result /\ SolveFails("budget")
             \/ UNCHANGED result /\ SolveFails("failed")
     ELSE SolveFails("capability") /\ UNCHANGED <<result, called>>
  /\ UNCHANGED <<inputs, planning, answers>>

\* summaries_only() releases the posterior.
Release ==
  /\ pc = "inferred"
  /\ result.capabilities # {}
  /\ result' = [result EXCEPT !.capabilities = {}]
  /\ UNCHANGED <<inputs, pc, position, planning, answers, failure, called>>

-----------------------------------------------------------------------------
(***************************************************************************)
(* evaluate()                                                              *)
(***************************************************************************)
\* Mutant: evaluators are not asked if they can be controlled.
MayEvaluateAny == SatisfiedBy(required, result.capabilities)

MayEvaluate ==
  /\ SatisfiedBy(required, result.capabilities)
  /\ setting.control => \A i \in 1..Len(bundle) : bundle[i].cooperative

CooperativePosterior == result.origin # "bp"

Begin ==
  /\ pc = "inferred"
  /\ IF MayEvaluate
     THEN /\ IF "joint" \in result.capabilities
             THEN Go("evaluate") /\ data' = "tables"
             ELSE Go("draw") /\ UNCHANGED data
     ELSE Raise("capability") /\ UNCHANGED data
  /\ UNCHANGED <<inputs, position, planning, result, estimates, answer, called>>

\* An estimate on draws says if they are all that were asked for.
Estimate(i) ==
  [query |-> i, of |-> data, complete |-> data = "tables" \/ result.status = "complete"]

\* Mutant: a stop before the first estimate returns an empty answer.
ReturnsAnything == TRUE

\* A stop returns the estimates there are, if there are any.
Returns == estimates # <<>>

Missing == position + 1 .. Len(bundle)

Answer(missing) == answer' = [estimates |-> estimates, missing |-> missing]

\* No numerical or validation failure licenses sampling.
LicensesSampling(kind) == kind = "budget"

\* Mutant: the estimates on tables are kept.
KeepsTables == estimates

\* Queries are evaluated again, all of them.
StartOver == <<>>

EvaluateStopped ==
  /\ IF Returns THEN Answer(Missing) /\ Go("answered") ELSE Raise("stopped") /\ UNCHANGED answer
  /\ UNCHANGED <<position, data, estimates>>

EvaluateFails(kind) ==
  /\ IF data = "tables" /\ LicensesSampling(kind) /\ "joint_draws" \in result.capabilities
     THEN /\ Go("draw")
          /\ estimates' = StartOver
          /\ position' = Len(estimates')
     ELSE Raise(kind) /\ UNCHANGED <<position, estimates>>
  /\ UNCHANGED <<data, answer>>

Evaluate ==
  LET q == bundle[position + 1]
  IN  /\ pc = "evaluate"
      /\ position < Len(bundle)
      /\ \/ /\ estimates' = Append(estimates, Estimate(position + 1))
            /\ position' = position + 1
            /\ UNCHANGED <<pc, failure, data, answer>>
            /\ Calls("evaluator", q.cooperative, setting.control /\ q.cooperative)
         \/ Stops /\ EvaluateStopped /\ UNCHANGED called
         \/ /\ \E kind \in {"budget", "failed"} : EvaluateFails(kind)
            /\ Calls("evaluator", q.cooperative, setting.control /\ q.cooperative)
      /\ UNCHANGED <<inputs, planning, result>>

Evaluated ==
  /\ pc = "evaluate"
  /\ position = Len(bundle)
  /\ Answer({})
  /\ Go("answered")
  /\ UNCHANGED <<inputs, position, planning, result, data, estimates, called>>

\* Draws need a generator, unless they are those of the sampler; posteriors
\* of marginals cannot be drawn from.
Draw ==
  LET drawable == /\ \A i \in 1..Len(bundle) : bundle[i].onDraws
                  /\ setting.control => CooperativePosterior
  IN  /\ pc = "draw"
      /\ IF drawable /\ result.origin # "bp" /\ (setting.rng \/ result.origin = "blocked")
         THEN /\ Calls("posterior", CooperativePosterior, setting.control)
              /\ \/ Go("evaluate") /\ data' = "draws"
                 \/ UNCHANGED data /\ Stops /\ Raise("stopped")
                 \/ UNCHANGED data /\ Raise("budget")
         ELSE /\ Raise(IF drawable /\ result.origin = "bp" THEN "failed" ELSE "capability")
              /\ UNCHANGED <<data, called>>
      /\ UNCHANGED <<inputs, position, planning, result, estimates, answer>>

Next ==
  \/ Require \/ Required
  \/ Assess \/ Solve
  \/ Release
  \/ Begin \/ Evaluate \/ Evaluated \/ Draw

Spec == Init /\ [][Next]_vars

-----------------------------------------------------------------------------
\* What the queries read so far need together is satisfied by exactly the
\* capabilities that satisfy each of them: no combination of alternatives
\* is lost or made up when supersets are removed.
CombinedNeeds ==
  pc = "require" =>
    \A available \in SUBSET Capabilities :
      SatisfiedBy(Collected(required), available)
        <=> \A i \in 1..position : SatisfiedBy(bundle[i].needs, available)

\* A posterior that was computed for a bundle, and kept, has what each of
\* its queries needs: evaluate() does not turn down what infer() was told to
\* provide.  Automatic selection is by order: the engines before the chosen
\* one were all considered, and BP is never among them.
PlanServesBundle ==
  plan # None =>
    /\ \A i \in 1..Len(bundle) : SatisfiedBy(bundle[i].needs, Supplies(plan))
    /\ \A i \in 1..Len(considered) : considered[i] = Route[i]
    /\ plan = Route[Len(considered) + 1]

\* What a bundle needs is neither lost nor made up on the way to the engine
\* that is chosen, and that engine serves each of its queries.
NeedsAreServed == CombinedNeeds /\ PlanServesBundle

\* A failure or stop during solving does not start another engine: what was
\* chosen is what is solved with, once.
OneSolver == [][plan # None => plan' = plan]_vars

\* A control is never dropped without a word: all that is called with one
\* is cooperative and gets it.
ControlReachesAll ==
  \A c \in called : setting.control => c.cooperative /\ c.control

\* The estimates of an answer are all of tables or all of the same draws:
\* an attempt on tables that was given up leaves nothing behind.
OneRepresentation ==
  answer # None => \A i, j \in DOMAIN answer.estimates : answer.estimates[i].of = answer.estimates[j].of

\* A partial answer has the estimates of the queries before the stop, names
\* the others, and is never empty.
PartialIsPrefix ==
  answer # None =>
    /\ \A i \in DOMAIN answer.estimates : answer.estimates[i].query = i
    /\ answer.missing = Len(answer.estimates) + 1 .. Len(bundle)
    /\ answer.missing # {} => answer.estimates # <<>>

\* An answer is of one piece: its estimates are of one representation, and it
\* has all those before a stop and none after.
AnswersAreOfOnePiece == OneRepresentation /\ PartialIsPrefix

=============================================================================
