-------------------------- MODULE MCBlockedSampler --------------------------
(***************************************************************************)
(* Instances of BlockedSampler for TLC: two binary variables, one in a     *)
(* block with finite conditionals and one moved by a registered proposal.  *)
(* Before the calls, sampling is planned for two models of a session, and  *)
(* blocks of them are drawn; or a model with real variables is mixed.      *)
(***************************************************************************)
EXTENDS BlockedSampler, GaussianMixture

MCBlocks == <<{"u"}, {"v"}>>
MCKind == <<"finite", "custom", "proposed">>

At(u, v) == [k \in {"u", "v"} |-> IF k = "u" THEN u ELSE v]

Diagonal == {At(0, 0), At(1, 1)}
Corner   == {At(0, 0), At(1, 0)}

\* One model, the same support under another structure, a support that moved,
\* and one that is not identified.
MCTargets == {
  [structure |-> "s1", support |-> Diagonal, known |-> TRUE],
  [structure |-> "s2", support |-> Diagonal, known |-> TRUE],
  [structure |-> "s1", support |-> Corner,   known |-> TRUE],
  [structure |-> "s1", support |-> Diagonal, known |-> FALSE]}

\* None, two states of which one may lack mass, and one too few.
MCGivens == {<<>>, <<At(0, 0), At(1, 1)>>, <<At(0, 0)>>}

-----------------------------------------------------------------------------
Count(key, scope) ==
  [key |-> key, family |-> "count", role |-> "support", scope |-> scope, lo |-> 1, hi |-> 1, weights |-> <<>>]

Rule(key, family, role, scope) ==
  [key |-> key, family |-> family, role |-> role, scope |-> scope, lo |-> 0, hi |-> 0, weights |-> <<>>]

\* Weights of two variables, w for all but one of their states.
Pair(key, role, k, first, l, second, zero, w) ==
  [Rule(key, "table", role, {k, l}) EXCEPT !.weights =
     [s \in {t \in [{k, l} -> first \union second] : t[k] \in first /\ t[l] \in second} |->
        IF s = zero THEN 0 ELSE w]]

At2(k, x, l, y) == k :> x @@ l :> y

XY == {"x", "y"}

Finite == [a |-> TF, b |-> TF, c |-> TF, d |-> {"x"}, e |-> XY]

Model(domains, reals, factors1, kernels) ==
  [domains |-> domains, reals |-> reals, factors |-> factors1, kernels |-> kernels]

Extension(token, weight, batch) == [bias |-> [batch |-> batch, token |-> token, weight |-> weight]]

\* Constraints that share a variable, a soft table and a hard one, singletons.
Constrained(zero, w) ==
  Model(Finite, <<>>,
        <<Count("1", {"a", "b"}), Count("2", {"b", "c"}),
          Pair("3", "support", "c", TF, "e", XY, zero, w),
          Pair("4", "observation", "d", {"x"}, "a", TF, At2("d", "y", "a", "true"), 2)>>, <<>>)

\* One model, as its fingerprint goes, with kernels of several configurations.
Extended(token, weight, batch) ==
  Model(Finite, <<>>, <<Count("1", {"b", "c"}), Rule("2", "bias", "observation", {"a", "b"})>>,
        Extension(token, weight, batch))

\* Two times, of events that may not have been.
Timed1(role) ==
  Model([a |-> TF, b |-> TF, c |-> TF], [t |-> {"a"}, u |-> {"b"}],
        <<Rule("1", "linear_gaussian", "descriptive", {"t"}), Rule("2", "linear_gaussian", "descriptive", {"u", "c"}),
          Rule("3", "temporal_order", "support", {"t", "u", "a"}), Rule("4", "linear_gaussian", role, {"t", "u"})>>, <<>>)

MCModels ==
  {Constrained(At2("c", "true", "e", "x"), 1), Constrained(At2("c", "true", "e", "x"), 3),
   Constrained(At2("c", "false", "e", "y"), 1),
   Extended("v1", 2, TRUE), Extended("v2", 3, TRUE), Extended("", 2, TRUE), Extended("", 5, TRUE),
   Extended("v1", 2, FALSE), Timed1("descriptive"), Timed1("support")}

Settings1(blocks, proposals) == [blocks |-> blocks, proposals |-> proposals]

MCConfigs ==
  {Settings1({}, {}), Settings1({{"c", "e"}}, {}), Settings1({{"c"}, {"e"}}, {{"c", "e"}}),
   Settings1({}, {{"a"}}), Settings1({}, {{"t", "u"}})}

-----------------------------------------------------------------------------
Linear(key, coefficients, finite, mode, precision, active) ==
  Rule(key, "linear_gaussian", "descriptive", DOMAIN coefficients \union finite)
    @@ [coefficients |-> coefficients, mode |-> mode, precision |-> precision, active |-> active]

Always(key, coefficients, n) == Linear(key, coefficients, {}, "", "" :> n, {})

Gated(key, coefficients, when) == Linear(key, coefficients, {"a"}, "", "" :> 2, {<<"a", when>>})

Only(when) == [Rule("9", "table", "support", {"a"}) EXCEPT !.weights = [s \in [{"a"} -> TF] |-> IF s["a"] = when THEN 1 ELSE 0]]

Never1 == [Rule("9", "table", "support", {"a"}) EXCEPT !.weights = [s \in [{"a"} -> TF] |-> 0]]

Reals2 == [t |-> {"a"}, u |-> {}]
Tied   == "t" :> 1 @@ "u" :> (0 - 1)

\* Times that are tied, that one state leaves free, with mass or without; with
\* precisions by mode; more states than components; an order; no mass.
MCHybrids ==
  {Model([a |-> TF], Reals2, <<Always("1", Tied, 1), Always("2", "t" :> 1, 2)>>, <<>>),
   Model([a |-> TF], Reals2, <<Always("1", Tied, 1), Gated("2", "t" :> 1, "true")>>, <<>>),
   Model([a |-> TF], Reals2, <<Always("1", Tied, 1), Gated("2", "t" :> 1, "true"), Only("true")>>, <<>>),
   Model([b |-> {"x", "y", "z"}], [t |-> {}],
         <<Linear("1", "t" :> 1, {"b"}, "b", [x |-> 1, y |-> 2, z |-> 1], {})>>, <<>>),
   Model([a |-> TF, b |-> XY], [t |-> {}], <<Always("1", "t" :> 2, 1)>>, <<>>),
   Model([a |-> TF], Reals2, <<Always("1", Tied, 1), Always("2", "t" :> 1, 2),
                               Rule("3", "temporal_order", "support", {"t", "u", "a"})>>, <<>>),
   Model([a |-> TF], Reals2, <<Always("1", Tied, 1), Always("2", "t" :> 1, 2), Never1>>, <<>>),
   Model([a |-> TF], <<>>, <<Only("true")>>, <<>>)}

MCConditioned ==
  {[given |-> "a" :> v, reals |-> r] : v \in TF, r \in SUBSET {"t", "u"}} \ {[given |-> "a" :> "true", reals |-> {"t", "u"}]}

MCScopes == {{"a", "t", "u"}, {"b", "t"}, {"t"}, {"u"}, {"a"}, {"c"}}

PlannedInit == Init /\ PlanningInit /\ MixtureInit

Unplanned == planned = <<>> /\ planning = "idle"
Unmixed   == mixture = Nowhere /\ UNCHANGED mixtureVars

PlannedNext ==
  \/ runs = 0 /\ PlanningNext /\ Unmixed /\ UNCHANGED vars
  \/ Unplanned /\ Next /\ Unmixed /\ UNCHANGED planVars
  \/ runs = 0 /\ pc = "idle" /\ Unplanned /\ MixtureNext /\ UNCHANGED <<vars, planVars>>

PlannedSpec == PlannedInit /\ [][PlannedNext]_<<vars, planVars, mixtureVars>>
=============================================================================
