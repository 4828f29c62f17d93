------------------------- MODULE MCModelCompilation -------------------------
(***************************************************************************)
(* Instances of ModelCompilation for TLC: one event with its existence,    *)
(* type and, perhaps, time; up to three observations of it.  And of the    *)
(* generated worlds, sources and baselines, which share nothing with it.   *)
(***************************************************************************)
EXTENDS ModelCompilation, StaticBaselines

Finite(states) == [states |-> states]
Continuous(sd, active) == [sd |-> sd, active |-> active]
Table(states, normal, shape) == [states |-> states, normal |-> normal, shape |-> shape]
When(name, state) == [name |-> name, state |-> state]

TF == {"false", "true"}
AB == {"none", "a", "b"}
Modes == {"good", "bad"}

Plainly(shape) == [kind |-> "plain", latent |-> None, variable |-> None, prior |-> None, shape |-> shape]
Moded(name, states, prior) ==
  [kind |-> "association", latent |-> name, variable |-> Finite(states), prior |-> prior, shape |-> "m"]
Clocked(sd) ==
  [kind |-> "timestamp", latent |-> "clock", variable |-> Continuous(sd, {}), prior |-> None, shape |-> "t"]

Rule(source, family, channel, version, values) ==
  [key |-> [source |-> source, family |-> family, channel |-> channel, version |-> version],
   values |-> values]

Observation(id, information, source, channel, scope, value, evidence) ==
  [id |-> id, information |-> information, source |-> source, family |-> "f", version |-> "1",
   channel |-> channel, scope |-> {scope}, value |-> value, evidence |-> evidence]

MCStructure ==
  [variables |-> [k \in {"exists", "type"} |-> IF k = "exists" THEN Finite(TF) ELSE Finite(AB)],
   types     |-> {"type"},
   times     |-> [k \in {"time"} |-> When("exists", "true")],
   factors   |-> {[key |-> <<"type_presence", "e">>, family |-> "type_presence", role |-> "support",
                   scope |-> {"exists", "type"}, values |-> None, evidence |-> {}]}]

MCRegistry == [c \in {"binary", "mode", "clock"} |->
                 CASE c = "binary" -> "plain" [] c = "mode" -> "association" [] c = "clock" -> "timestamp"]

With(f, k, v) == [x \in DOMAIN f \union {k} |-> IF x = k THEN v ELSE f[x]]

VariableSets ==
  LET base == MCStructure.variables
  IN  {base, With(base, "time", Continuous(1, {When("exists", "true")})),
       With(base, "time", Continuous(1, {})),
       With(With(base, "time", Continuous(1, {When("exists", "true")})), "single", Finite({"one"})),
       [k \in {"latent"} |-> Finite(TF)]}

ObservationSets ==
  LET o1(information, channel, scope, source) ==
        Observation(1, information, source, channel, scope, "x", {"r1"})
      o2(information, channel, scope, source, value) ==
        Observation(2, information, source, channel, scope, value, {"r2"})
  IN  {{}, {o1("g", "binary", "exists", "s")}, {o1("g", "binary", "latent", "s")},
       {o1("g", "unknown", "exists", "s")},
       {o1("g", "binary", "exists", "s"), o2("g", "binary", "exists", "s", "x")},
       {o1("g", "binary", "exists", "s"), o2("g", "binary", "exists", "t", "x")},
       {o1("g", "binary", "exists", "s"), o2("g", "binary", "exists", "s", "y")},
       {o1("g", "mode", "type", "s"), o2("g", "mode", "type", "s", "x"),
        Observation(3, "h", "t", "mode", "type", "y", {"r3"})},
       {o1("g", "mode", "exists", "s"), o2("h", "binary", "shared", "s", "x")},
       {o1("h", "binary", "shared", "s"), o2("g", "mode", "exists", "s", "x")},
       {o1("g", "clock", "time", "s"), o2("h", "clock", "time", "t", "x")},
       {o1("g", "binary", "exists", "s"), o2("h", "mode", "type", "t", "x"),
        Observation(3, "g", "s", "binary", "exists", "x", {"r3"})}}

RuleSets ==
  LET fair == Table(Modes, TRUE, "fair")
      exact(source, channel, values) == Rule(source, "f", channel, "1", values)
  IN  {{Rule(None, "f", "binary", None, Plainly("p")), Rule(None, "f", "mode", None, Moded("shared", Modes, fair)),
        Rule(None, "f", "clock", None, Clocked(1))},
       {exact("s", "mode", Moded("shared", Modes, fair)), exact("s", "binary", Plainly("e")),
        exact("t", "mode", Moded("shared", Modes, Table(Modes, TRUE, "skewed"))),
        exact("s", "clock", Clocked(1)), exact("t", "clock", Clocked(2)), Rule(None, "f", None, None, Plainly("p"))},
       {exact("s", "mode", Moded("exists", TF, Table(TF, TRUE, "fair"))),
        exact("t", "mode", Moded("type", AB, Table(AB, TRUE, "skewed")))},
       {Rule(None, "f", "binary", None, Plainly("p")), Rule("s", "f", None, None, Plainly("q"))},
       {Rule("s", None, None, None, Plainly("p"))},
       {exact("s", "mode", Moded("shared", Modes, Table(Modes, FALSE, "wild")))},
       {}}

PriorSets ==
  LET base == [k \in {"exists"} |-> Table(TF, TRUE, "fair")]
  IN  {base, With(base, "type", Table(AB, TRUE, "fair")), With(base, "shared", Table(Modes, TRUE, "skewed")),
       [k \in {"exists"} |-> Table(TF, FALSE, "fair")], [k \in {"latent"} |-> Table(TF, TRUE, "fair")]}

FactorSets ==
  LET custom(kind, name, family, role, evidence) ==
        [key |-> <<kind, name>>, family |-> family, role |-> role, scope |-> {name},
         values |-> None, evidence |-> evidence]
  IN  {{}, {custom("prior", "exists", "table", "descriptive", {})},
       {custom("custom", "exists", "table", "observation", {"r1"})},
       {custom("custom", "exists", "unknown", "descriptive", {})},
       {custom("custom", "absent", "table", "descriptive", {}), custom("own", "exists", "table", "observation", {"r9"})}}

Given(variables, observations, rules, default, priors, factors1, grounded) ==
  [variables |-> variables, observations |-> observations, rules |-> rules, default |-> default,
   basis |-> observations, priors |-> priors, factors |-> factors1, grounded |-> grounded,
   interpreted |-> TRUE, effective |-> UNION {o.evidence : o \in observations}]

MCSpecs ==
  {Given(v, o, r, way[1], p, f, way[2]) :
     v \in VariableSets, o \in ObservationSets, r \in RuleSets, p \in PriorSets, f \in FactorSets,
     way \in {<<None, TRUE>>, <<None, FALSE>>, <<Plainly("d"), TRUE>>}}
    \union UNION {
      LET given == Given(MCStructure.variables, o, r, None, p, {}, TRUE)
      IN  {[given EXCEPT !.basis = {}], [given EXCEPT !.interpreted = FALSE]} :
      o \in ObservationSets, r \in RuleSets, p \in PriorSets}

-----------------------------------------------------------------------------
Config(customers, orders, items, ticks) ==
  [customers |-> customers, orders |-> orders, items |-> items, ticks |-> ticks, bracket |-> 1,
   size |-> 1, confusable |-> {}, known |-> FALSE, quarters |-> 0, attributes |-> FALSE,
   amounts |-> {0}]

Long == {Config(1, 2, {0, 1}, {1}), Config(2, 1, {0, 2}, {-1, 2})}

\* One event and one decoy, of a known type or one of two; with amounts.
Short == [Config(1, 1, {0}, {1}) EXCEPT !.quarters = 4, !.confusable = {"Pay"}]
Confused == [Short EXCEPT !.size = 2, !.confusable = {"Pay", "Ship"}]
Measured == [Short EXCEPT !.attributes = TRUE, !.amounts = {0, 1}, !.items = {1}, !.quarters = 1]

MCConfigs == Long \union {Short, Confused, Measured}

Regime(n, clusters, families, targets) ==
  [sources |-> n, clusters |-> clusters, families |-> families, targets |-> targets,
   spread |-> <<5, 2>>, hotspots |-> 1, mix |-> {"opportunistic"}, misdeclared |-> FALSE,
   copying |-> FALSE, fidelity |-> <<9, 10>>, worlds |-> 1]

Unobserved == [Regime(1, 1, <<"e2o">>, {1}) EXCEPT !.worlds = 0]

\* Three sources that copy; two of every coverage; numbers and clusters.
MCScenarios ==
  {<<c, Unobserved>> : c \in Long}
    \union {<<Short, [Regime(3, 1, <<"event_exists">>, {1, 2}) EXCEPT !.copying = TRUE]>>,
            <<Confused, [Regime(2, 1, <<"e2o", "event_type">>, {2}) EXCEPT
                           !.mix = Coverages, !.misdeclared = TRUE, !.copying = TRUE, !.fidelity = <<1, 2>>]>>,
            <<Measured, [Regime(2, 2, <<"event_time", "event_attr">>, {0, 1}) EXCEPT !.copying = TRUE]>>}

MCErrors == {-1, 0}

\* Worlds are generated beside one compilation, all compilations without one.
Empty == CHOOSE s \in MCSpecs : s.observations = {} /\ s.factors = {}
Scenario == CHOOSE s \in MCScenarios : TRUE

Resting == config = Scenario[1] /\ regime = Scenario[2] /\ GeneratingInit

CompilingInit ==
  \/ Resting /\ Init
  \/ spec = Empty /\ Init /\ GeneratingInit

CompilingNext ==
  \/ (spec = Empty => Resting) /\ Next /\ UNCHANGED generatingVars
  \/ pc = "resolve" /\ spec = Empty /\ GeneratingNext /\ UNCHANGED vars

CompilingSpec == CompilingInit /\ [][CompilingNext]_<<vars, generatingVars>>

=============================================================================
