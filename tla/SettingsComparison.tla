------------------------- MODULE SettingsComparison -------------------------
(***************************************************************************)
(* The comparison of named settings (api.py: compare_settings): every      *)
(* setting is checked against the baseline and compiled before anything    *)
(* numerical begins; then each, in the order of the names, is inferred and *)
(* evaluated, on a random stream of its own when the call has a session,   *)
(* else on what the caller's generator has left.                           *)
(*                                                                         *)
(* A generator is its seed and the number of its next value; a value is    *)
(* the seed with that number at its end, so values of different streams    *)
(* differ, and a generator seeded with a value is told from all others.    *)
(***************************************************************************)
EXTENDS Naturals, Sequences, FiniteSets, Functions

CONSTANTS
  Comparisons,   \* the calls, see ComparisonAssumption
  Baseline,      \* [priors, assumptions] of the specification
  MaxCompared,   \* bound: calls
  NoSetting      \* between two settings

\* settings: by name.  A target compiles, is solved and evaluates the queries or
\* does not; inference takes so many random values (the seeds of its chains),
\* and so does evaluation (joint draws of a posterior that has none yet).
ASSUME ComparisonAssumption ==
  /\ MaxCompared \in Nat
  /\ \A c \in Comparisons :
       /\ {c.session, c.rng, c.control} \subseteq BOOLEAN
       /\ DOMAIN c.settings \subseteq Nat /\ IsFiniteSet(DOMAIN c.settings)
       /\ \A n \in DOMAIN c.settings :
            LET t == c.settings[n].target
            IN  /\ {t.compiles, t.solves, t.evaluates} \subseteq BOOLEAN
                /\ {t.inferring, t.evaluating} \subseteq Nat

VARIABLES
  comparing,   \* the call under way, or NoSetting
  compiled,    \* names that are compiled, in their order
  caller,      \* the caller's generator
  streams,     \* the seeds of the settings, once they are allocated
  inferred,    \* the posterior of the current setting, or NoSetting
  outputs,     \* of the settings that are done
  compared     \* history: calls that returned or failed

comparisonVars == <<comparing, compiled, caller, streams, inferred, outputs, compared>>

Generator(seed) == [seed |-> seed, next |-> 1]
Advanced(g, n)  == [seed |-> g.seed, next |-> g.next + n]
Taken(g, n)     == [i \in 1..n |-> Append(g.seed, g.next + i - 1)]

ComparingInit ==
  /\ comparing = NoSetting /\ compiled = <<>> /\ caller = Generator(<<>>) /\ streams = <<>>
  /\ inferred = NoSetting /\ outputs = <<>> /\ compared = <<>>

\* The names of the settings, in their order.
Before(n, S)  == {m \in S : m < n}
InTheirOrder(S) ==
  [i \in 1..Cardinality(S) |-> CHOOSE n \in S : Cardinality(Before(n, S)) = i - 1]

Names == InTheirOrder(DOMAIN comparing.settings)

\* The call returns outs, or raises.
Over(how, outs) ==
  /\ comparing' = NoSetting /\ compiled' = <<>> /\ streams' = <<>>
  /\ inferred' = NoSetting /\ outputs' = <<>>
  /\ compared' = Append(compared,
       [start |-> comparing.start, own |-> streams # <<>>, how |-> how, outputs |-> outs])

Refused(how) == Over(how, <<>>) /\ UNCHANGED caller

\* The caller goes on with its generator, or comes with one seeded as before.
Compare(c, g) ==
  /\ comparing = NoSetting /\ Len(compared) < MaxCompared
  /\ comparing' = [start |-> g.next, session |-> c.session, rng |-> c.rng, control |-> c.control,
                   settings |-> c.settings]
  /\ caller' = g
  /\ UNCHANGED <<compiled, streams, inferred, outputs, compared>>

-----------------------------------------------------------------------------
HoldsFixed(s) == s.priors = Baseline.priors /\ s.assumptions = Baseline.assumptions

Compiling == comparing # NoSetting /\ Len(compiled) < Len(Names)

CompileSetting ==
  /\ Compiling
  /\ LET name == Names[Len(compiled) + 1]
         s    == comparing.settings[name]
     IN  \/ ~ HoldsFixed(s) /\ Refused("validation")
         \/ HoldsFixed(s) /\ ~ s.target.compiles /\ Refused("compile")
         \/ /\ HoldsFixed(s) /\ s.target.compiles
            /\ compiled' = Append(compiled, name)
            /\ UNCHANGED <<comparing, caller, streams, inferred, outputs, compared>>

\* A stop at a checkpoint between runs.
StopComparison == comparing # NoSetting /\ comparing.control /\ Refused("stopped")

\* Seeds for all settings before the first is run.
OwnStreams == comparing.session /\ comparing.rng

Allocate ==
  /\ comparing # NoSetting /\ ~ Compiling /\ OwnStreams /\ streams = <<>> /\ compiled # <<>>
  /\ streams' = Taken(caller, Len(compiled))
  /\ caller' = Advanced(caller, Len(compiled))
  /\ UNCHANGED <<comparing, compiled, inferred, outputs, compared>>

Running == comparing # NoSetting /\ ~ Compiling /\ (OwnStreams => Len(streams) = Len(compiled))

Current == Len(outputs) + 1

\* Mutant: the settings take turns with the caller's generator.
SharedGenerator(i) == caller

GeneratorOf(i) == IF streams = <<>> THEN caller ELSE Generator(streams[i])

\* A shared generator is left where this setting has brought it.
LeaveAt(g) == caller' = IF streams = <<>> THEN g ELSE caller

\* Stochastic solvers refuse without a generator.
MayTake(n) == n > 0 => comparing.rng

\* A run that fails, or is stopped, may have taken its values by then.
FailsRun(works, g, n, how) ==
  /\ ~ works \/ comparing.control \/ ~ MayTake(n)
  /\ \E taken \in {0, n} : MayTake(taken) /\ LeaveAt(Advanced(g, taken))
  /\ Over(how, <<>>)

InferSetting ==
  /\ Running /\ Current <= Len(compiled) /\ inferred = NoSetting
  /\ LET target == comparing.settings[compiled[Current]].target
         n      == target.inferring
         g      == GeneratorOf(Current)
     IN  \/ FailsRun(target.solves, g, n, "inference")
         \/ /\ target.solves /\ MayTake(n)
            /\ inferred' = [taken |-> Taken(g, n), generator |-> Advanced(g, n)]
            /\ LeaveAt(Advanced(g, n))
            /\ UNCHANGED <<comparing, compiled, streams, outputs, compared>>

\* With the generator that inference left.
EvaluateSetting ==
  /\ inferred # NoSetting
  /\ LET name   == compiled[Current]
         target == comparing.settings[name].target
         n      == target.evaluating
         g      == inferred.generator
     IN  \/ FailsRun(target.evaluates, g, n, "evaluation")
         \/ /\ target.evaluates /\ MayTake(n)
            /\ outputs' = Append(outputs,
                 [name |-> name, target |-> target, taken |-> inferred.taken \o Taken(g, n)])
            /\ LeaveAt(Advanced(g, n))
            /\ inferred' = NoSetting
            /\ UNCHANGED <<comparing, compiled, streams, compared>>

ReturnComparison ==
  /\ Running /\ Current > Len(compiled)
  /\ Over("complete", outputs)
  /\ UNCHANGED caller

ComparingNext ==
  \/ \E c \in Comparisons, g \in {caller, Generator(<<>>)} : Compare(c, g)
  \/ CompileSetting \/ StopComparison \/ Allocate
  \/ InferSetting \/ EvaluateSetting \/ ReturnComparison

-----------------------------------------------------------------------------
\* Settings differ in their trust and in nothing else, and their answers in
\* nothing but that: no setting is run unless all of them hold the baseline
\* fixed and compile; no random value is used for two of them; and in a
\* session a setting is drawn as it is in any other comparison of as many
\* settings from the same generator, whatever the others are or take.
SettingsAreComparable ==
  /\ (inferred # NoSetting \/ outputs # <<>>) =>
       \A n \in DOMAIN comparing.settings :
         HoldsFixed(comparing.settings[n]) /\ comparing.settings[n].target.compiles
  /\ \A i, j \in DOMAIN outputs :
       i # j => Range(outputs[i].taken) \intersect Range(outputs[j].taken) = {}
  /\ \A x, y \in Range(compared) :
       (x.own /\ y.own /\ x.start = y.start /\ Len(x.outputs) = Len(y.outputs)) =>
         \A i \in DOMAIN x.outputs :
           x.outputs[i].target = y.outputs[i].target => x.outputs[i].taken = y.outputs[i].taken
=============================================================================
