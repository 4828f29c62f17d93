--------------------------- MODULE MCInferenceQuery --------------------------
(***************************************************************************)
(* Instances of InferenceQuery for TLC.  Queries of the built-in           *)
(* evaluators, and of extensions that need a marginal, that need one of    *)
(* two capabilities or all of three, or whose evaluator is not registered; *)
(* bundles of one to three of them.                                        *)
(*                                                                         *)
(* Where a bundle of one process query has been answered, process queries  *)
(* are evaluated in detail, on the tables or draws of that answer.  Before *)
(* anything else, settings may be compared, in two calls.                  *)
(***************************************************************************)
EXTENDS InferenceQuery, ProcessQuery, SettingsComparison

Query(capabilities, alternatives, known, cooperative, onDraws) ==
  [needs |-> [capabilities |-> capabilities, alternatives |-> alternatives],
   known |-> known, cooperative |-> cooperative, onDraws |-> onDraws]

Process  == Query({}, {{"joint"}, {"joint_draws"}}, TRUE, TRUE, TRUE)
Marginal == Query({"marginal"}, {}, TRUE, FALSE, FALSE)
Drawn    == Query({"joint_draws"}, {{"normalizer", "joint"}, {"marginal"}, {"normalizer"}}, TRUE, TRUE, TRUE)
Tables   == Query({}, {{"expectation", "normalizer"}, {"joint", "marginal"}, {"joint_draws"}}, TRUE, FALSE, TRUE)
Unknown  == Query({}, {}, FALSE, TRUE, TRUE)

Some == {Process, Marginal, Drawn, Tables, Unknown}

MCBundles ==
  {<<q>> : q \in Some} \union {<<q, r>> : q, r \in Some}
    \union {<<Process, Drawn, Tables>>, <<Process, Process, Process>>}

Builtin == [e \in Engines |-> e # "bp"]
Own     == [e \in {"reference_elimination", "blocked"} |-> e = "blocked"]

MCSettings ==
  {s \in [engine : {"auto", "gtsam_exact", "reference_hybrid", "blocked", "bp"},
          cooperative : {Builtin, Own}, continuous : BOOLEAN, sampling : BOOLEAN,
          approximate : BOOLEAN, seconds : BOOLEAN, control : BOOLEAN, warm : BOOLEAN,
          rng : BOOLEAN] :
     /\ s.approximate => s.engine = "bp"
     /\ s.sampling => s.engine \in {"auto", "blocked"}
     /\ s.cooperative = Own => s.engine = "auto"
     /\ s.warm => s.engine \in {"auto", "blocked"}}

-----------------------------------------------------------------------------
Endpoint(event, family, time, timeKey, ownTime, association) ==
  [event |-> event, family |-> family, time |-> time, timeKey |-> timeKey, ownTime |-> ownTime,
   association |-> association]

Start(time, who) == Endpoint("start", "event", time, "", FALSE, {<<"who", who>>})
Stop(event, time) == Endpoint(event, "event", time, "", FALSE, {})

Execution(id, population, starts, ends, when) ==
  [id |-> id, population |-> population, starts |-> starts, ends |-> ends, when |-> when]

\* One event may have begun either of two executions; one of them has a
\* second candidate for its end.
Of1(who) == Execution("first", "job1", <<Start(<<10>>, who)>>, <<Stop("end", <<20>>)>>, {})

First  == Of1("a")
Second == Execution("second", "job2", <<Start(<<10>>, "b")>>,
                    <<Stop("end", <<20>>), Stop("late", <<30>>)>>, {<<"zone", "in">>})
Other  == Execution("other", "job2", <<Endpoint("start", "event", <<10>>, "", FALSE, {<<"zone", "in">>})>>,
                    <<Stop("end", <<20>>), Stop("late", <<30>>)>>, {})
Third  == Execution("third", "job1", <<Endpoint("start", "event", <<>>, "when", TRUE, {})>>,
                    <<Stop("late", <<30>>)>>, {})
Foreign == Execution("first", "job1", <<Start(<<11>>, "a")>>, <<Stop("end", <<20>>)>>, {})
Unended == Execution("open", "job1", <<Start(<<10>>, "b")>>, <<>>, {})

Condition(start, end, present) == [start |-> start, end |-> end, present |-> present, evidence |-> {"log"}]

Shifts == <<Condition(12, <<18>>, {}), Condition(14, <<>>, {<<"zone", "in">>}), Condition(5, <<13>>, {})>>

Threshold(n) == "first" :> n @@ "second" :> 15 @@ "open" :> 20

Asked(kind, executions, threshold, conditions, covered) ==
  [kind |-> kind, executions |-> executions, window |-> 0, horizon |-> 25, threshold |-> threshold,
   conditions |-> conditions, covered |-> covered]

Negative == "first" :> (0 - 1)

MCQuerySpecs ==
  {Asked("expected_exception_count", <<First, Second>>, Threshold(5), <<>>, FALSE),
   Asked("exposure", <<First, Second>>, <<>>, Shifts, TRUE),
   Asked("exposure", <<First>>, <<>>, Shifts, FALSE),
   Asked("duration_exception", <<First>>, Threshold(5), <<>>, FALSE),
   Asked("duration_exception", <<Unended>>, Threshold(20), <<>>, FALSE),
   Asked("duration_exception", <<First>>, Negative, <<>>, FALSE),
   Asked("duration_exception", <<First, Second>>, <<>>, <<>>, FALSE),
   Asked("duration_exception", <<Third>>, "third" :> 10, <<>>, FALSE),
   Asked("whole_job_conformance", <<First, Unended>>, Threshold(10), <<>>, FALSE),
   Asked("whole_job_conformance", <<First, Second>>, Threshold(10), <<>>, FALSE),
   Asked("priority_distribution", <<First, Other>>, "other" :> 5 @@ Threshold(5), <<>>, FALSE),
   Asked("priority_distribution", <<First, Other>>, "other" :> 15 @@ Threshold(5), <<>>, FALSE),
   Asked("duration_exception", <<Foreign>>, Threshold(5), <<>>, FALSE),
   Asked("duration_exception", <<Of1("c")>>, Threshold(5), <<>>, FALSE),
   Asked("exposure", <<>>, <<>>, <<>>, FALSE)}

\* Two posteriors whose candidates are the same labels in another order.
Yes == <<"no", "yes">>

Labels(who) == [start |-> Yes, end |-> Yes, late |-> Yes, who |-> who, zone |-> <<"in", "out">>]

Manifest == [continuous |-> {"when"}, fixed |-> [start |-> <<10>>, end |-> <<20>>, late |-> <<30>>],
             factors |-> [report |-> {"start", "who"}, place |-> {"zone"}, prior |-> {"end", "who"}],
             dependencies |-> [report |-> {"log", "scan"}, place |-> {"map"}]]

Weight(domains, heavy) ==
  [g \in {f \in [DOMAIN domains -> 1..2] : f["late"] = 1 \/ f["end"] = 1} |->
     IF g[heavy] = 2 THEN 2 ELSE 1]

TableOf(who, heavy) ==
  Manifest @@ [domains |-> Labels(who), weight |-> Weight(Labels(who), heavy), draws |-> <<>>,
               method |-> "exact", complete |-> TRUE, long |-> FALSE]

Row(end, who, when) ==
  [start |-> "yes", end |-> end, late |-> "no", who |-> who, zone |-> "in", when |-> when]

DrawsOf(method, complete, long, rows) ==
  Manifest @@ [domains |-> <<>>, weight |-> <<>>, draws |-> rows,
               method |-> method, complete |-> complete, long |-> long]

MCResults ==
  {TableOf(<<"a", "b">>, "who"), TableOf(<<"b", "a">>, "zone")}
    \union {DrawsOf("mcmc", c, l, <<Row("yes", "a", <<5>>), Row("no", "a", <<15>>), Row("yes", "b", <<5>>)>>)
              : c, l \in BOOLEAN}
    \union {DrawsOf("iid", TRUE, TRUE, <<Row("yes", "b", <<5>>), Row("yes", "a", <<30>>)>>)}

\* What an answer was computed on.
Like(r) ==
  /\ (data = "tables") = (r.method = "exact")
  /\ r.complete = (data = "tables" \/ result.status = "complete")
  /\ r.method = "mcmc" => result.origin = "blocked"
  /\ r.method = "iid" => result.origin # "blocked"

Detailed ==
  /\ pc = "answered" /\ answer.missing = {} /\ result.capabilities # {}
  /\ bundle = <<Process>> /\ setting.cooperative = Builtin
  /\ setting.control /\ setting.seconds /\ setting.rng /\ ~ setting.warm

-----------------------------------------------------------------------------
Target(compiles, solves, evaluates, inferring, evaluating) ==
  [compiles |-> compiles, solves |-> solves, evaluates |-> evaluates,
   inferring |-> inferring, evaluating |-> evaluating]

Enumerated == Target(TRUE, TRUE, TRUE, 0, 0)
Sampled    == Target(TRUE, TRUE, TRUE, 2, 0)
Mixture    == Target(TRUE, TRUE, TRUE, 0, 2)
Unsolved   == Target(TRUE, FALSE, TRUE, 2, 0)
Unanswered == Target(TRUE, TRUE, FALSE, 0, 2)
Invalid    == Target(FALSE, TRUE, TRUE, 0, 0)

MCBaseline == [priors |-> "p", assumptions |-> "a"]

Named(target) == MCBaseline @@ [target |-> target]

Working == {Named(t) : t \in {Enumerated, Sampled, Mixture}}

Call(session, rng, control, settings) ==
  [session |-> session, rng |-> rng, control |-> control, settings |-> settings]

\* Working settings, and with one that is not comparable, does not compile, is
\* not solved or is not evaluated.
MCComparisons ==
  {Call(c[1], c[2], c[3], <<s, t>>) :
     c \in {<<TRUE, TRUE, TRUE>>, <<TRUE, FALSE, FALSE>>, <<FALSE, TRUE, FALSE>>, <<FALSE, FALSE, FALSE>>},
     s \in {Named(Enumerated), Named(Mixture)}, t \in Working}
    \union {Call(own, TRUE, FALSE, s) :
              own \in BOOLEAN,
              s \in {<<>>, <<Named(Sampled), Named(Mixture), Named(Sampled)>>,
                     <<Named(Mixture), Named(Mixture), Named(Sampled)>>}}
    \union {Call(TRUE, TRUE, FALSE, <<Named(Sampled), s>>) :
              s \in {[Named(Sampled) EXCEPT !.priors = "other"], [Named(Sampled) EXCEPT !.assumptions = "other"],
                     Named(Unsolved), Named(Unanswered), Named(Invalid)}}

\* Comparisons do not depend on the bundle of the other calls.
Comparing ==
  /\ pc = "require" /\ position = 0
  /\ bundle = <<Marginal>>
  /\ setting = CHOOSE s \in MCSettings : s.engine = "gtsam_exact"

AnsweringInit == Init /\ AskingInit /\ ComparingInit

AnsweringNext ==
  \/ asked = 0 /\ Next /\ UNCHANGED queryVars
       /\ comparing = NoSetting /\ compared = <<>> /\ UNCHANGED comparisonVars
  \/ /\ Detailed
     /\ AskingNext /\ (asked' > asked => Like(work'.result))
     /\ UNCHANGED <<vars, comparisonVars>>
  \/ Comparing /\ ComparingNext /\ UNCHANGED <<vars, queryVars>>

AnsweringSpec == AnsweringInit /\ [][AnsweringNext]_<<vars, queryVars, comparisonVars>>
=============================================================================
