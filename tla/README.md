# Verification of ocbf

`ocbf` infers what happened in a process from incomplete, conflicting reports. A caller collects
evidence, compiles it with a schema into a probabilistic model, lets an engine infer a posterior
and asks queries of the result. All of it runs synchronously in the caller's thread; a caller may
lend a session (an artifact store) and a control (cancellation, deadline, budgets, progress
callback) to any call.

This directory holds TLA+ models of the parts whose correctness depends on order, failure, reuse
and bounds, the TLC configurations that check them on small instances, and TLAPS proofs of their
most important invariants for every instance. `PROJECT.json` lists components, runs, theorems,
hazards, and the source lines behind every definition.

    tlc -workers 2 -config MCArtifactStore.cfg MCArtifactStore     # any run
    tlapm ArtifactProofs.tla                                  # any *Proofs module

## Inventory

| Component (under `src/ocbf`) | State | Operations | Talks to | Modules |
|---|---|---|---|---|
| Artifact store, `runtime/cache.py` | ordered entries, slot index, byte account, counters | `get`, `put`, `clear`, `cached` | lent to every stage | `ArtifactStore`, `LruCache` |
| Session, control, facade: `runtime/session.py`, `runtime/control.py`, `api.py` | the session's store and last assessment, cancellation flag, deadline | the five calls, `checkpoint`, `child`, `close`, `compare_settings` | calls all stages; calls the caller back | `ExecutionSession`, `SettingsComparison` |
| Evidence, `evidence/` | immutable records and snapshots | `materialize` | sources before it, compilation after | `EvidenceSnapshot`, `RevisionHistory` |
| Interpretation, `sources/` | immutable claims | the application's interpreters | store | `SyntheticSources` (what sources may declare) |
| Schema, universe, assertions | the builder's candidates, registries of dense indices, frozen once | construction with referential checks, pruning, `active_refs` | compilation, baselines | `HistoryGrounding`, `CandidateRegistry` |
| Model, `model/` | immutable compiled model, factor lineage | `compile` (structure, contributions, priors, likelihoods), reductions, decoding | store, channels, engines | `HistoryGrounding`, `ModelCompilation`, `SamplingPlan` |
| Reliability, `reliability/` | parameter set with trust rules | resolution by precedence | compilation | `ModelCompilation` |
| Routing, `inference/router.py`, `registry.py` | none | `plan`, `run` with fallbacks | engines, control | `InferenceQuery`, `QueryNeeds` |
| Exact elimination, `inference/elimination.py` | retained conditional tables | `infer`, `joint`, `draw` | store, policy budgets | `Elimination` |
| Approximate engines, `inference/loopy_bp.py`, `gabp_ep.py` | messages, sites | `solve` | adapters, control | `BeliefPropagation`, `ExpectationPropagation` |
| Blocked sampler, `inference/sampling.py`, `warm_start.py` | block tables in the store, chains, draw arrays | `assess`, `solve` | store, control, conditional targets | `SamplingPlan`, `BlockedSampler` |
| Conditional and hybrid, `inference/conditional.py`, `adapters/hybrid.py` | mixture components | enumeration, joint draws | sampler, budgets | `GaussianMixture` |
| Queries, `queries/` | immutable answers, projections in the store | `requirements_for`, `evaluate` | posterior, store, control | `InferenceQuery`, `ProcessQuery` |
| Beliefs, `belief/` | arrays of a builder, evidence of a view | `set_*`, `build`, `attach_effective_information` | engines, baselines | `BeliefState` |
| Export, `io/arrays.py`; bundles, `io/bundle.py`, `_values.py` | files | `write_artifact`, `read_artifact`, `write_bundle`, `read_bundle`, `fingerprint` | file system | `ArtifactExport`, `ValueCodec` |
| Synthesis, `synth/` | a world and its sources as they are drawn | `simulate_process`, `build_universe`, `simulate_sources` | universe, sources | `SyntheticWorld`, `SyntheticSources` |
| Baselines, `baselines/`, `diagnostics/`, `eval/` | none | statistics of claims and of finished results | claims, registry | `StaticBaselines` (votes, triplets, overlap) |

What is hard here, and where it is treated:

- *Reentrancy.* A progress callback is the application's code in the middle of a checkpoint. It can
  cancel, clear, close or make nested calls over the same session. (`ExecutionSession`)
- *Cooperative stops.* Cancellation and deadlines are looked at only at checkpoints; child controls
  bring further limits; engines keep partial results. (`ExecutionSession`, `BlockedSampler`)
- *Reuse.* What a store returns must be what would have been computed, under identities that leave
  out just enough; bounded stores evict at any insertion. (`ArtifactStore`, `ExecutionSession`,
  `SamplingPlan`, `ProcessQuery`, `ValueCodec`)
- *Arrival order and retransmission* of evidence. (`EvidenceSnapshot`)
- *Admission by symbolic estimates* that must bound what is allocated later. (`Elimination`)
- *Messages that return to their sender*, sweeps that skip an edge. (`BeliefPropagation`,
  `ExpectationPropagation`)
- *Candidates and factors.* The support of a model is spread over factors of six kinds, made from
  candidates that were pruned before, numbered by a registry. (`HistoryGrounding`,
  `CandidateRegistry`)
- *Declarations from several places* that must agree: rules, latents, priors, copies of a report.
  (`ModelCompilation`)
- *Reduced spaces*: domains without their impossible labels, blocks of variables, mixtures by
  discrete state, all of which must keep the posterior. (`SamplingPlan`, `GaussianMixture`)
- *Answers put together from parts*, over overlapping intervals and draws that were stopped.
  (`ProcessQuery`)
- *Shared streams*: a random generator used for several settings, arrays shared by views.
  (`SettingsComparison`, `BeliefState`)
- *Crashes and other programs* around files. (`ArtifactExport`, `ValueCodec`)
- *Generators whose output the library must accept*, and that should follow the schema they declare. (`SyntheticWorld`, `SyntheticSources`)
- *Loops over data given by the caller* that must end. (`EvidenceSnapshot`, `BlockedSampler`)

There are no threads in `ocbf` itself. A caller may use a control from another thread
(`ExecutionControl.cancel`), which is why cancellation is an action that is always enabled.
## Modules

A property below is a conjunction where it has named parts; a run checks the conjunction. Where one
run checks several modules, its MC module composes them. Modules that share state step on it
together (`BlockedSampler` and `InferenceQuery` with what they extend, `ProcessQuery` on the data
that `InferenceQuery` answers with, `BeliefPropagation` on the tables of `Elimination`,
`BeliefState` on the registry of `CandidateRegistry`, and that on the universe of
`HistoryGrounding`). The others wait for each other, so that the states of a run are the sum of
theirs and not the product: no property relates them.

### ArtifactStore, LruCache

`ArtifactStore` models `MemoryArtifactStore`. `order` and `entries` are the `OrderedDict`, `slots`
the index from a logical slot to its latest address, `bytes` the account that every insertion and
removal adjusts, `counts` the counters of a report. `Hit`, `Miss`, `PutRefused` and `Clear` are one
step each; a `put()` that is not refused is `PutBegin` (removal of an entry under the same
address), `EvictOldest` once per turn of the loop, `PutEnd`. Values are what `put()` distinguishes:
size not estimable, too large before or after freezing, not freezable, fitting with a charge.
Addresses are model values; that different requests get different addresses (SHA-256) is assumed.

`AccountIsExact` and the refinement:

- `BytesAreCharges`: the incremental account is the sum of the charges. `WithinBudget`: it never
  exceeds the budget, nor did the peak. `SlotsNameLatest`: the slot index is what the history of
  insertions says it must be (history variable `latest`).
- `LruCache` is the abstract promise: an atomic least-recently-used cache that displaces the
  fewest, oldest entries, and whose hits are told in `found`.
  `ImplementsLru` is the refinement; the states of the loop map to the content before the `put()`
  (history variable `before`).

Run `mc_artifact_store`: two namespaces with two keys each (so that slots of the same name do not
meet across namespaces), one slot, a budget of 3 with charges 1 and 2, and one value for every way
of being refused. Five calls are enough to fill the store, replace under another slot, evict and
look up what was evicted; more calls repeat these configurations.

### EvidenceSnapshot, RevisionHistory

`EvidenceSnapshot` models `materialize()`: reading records one at a time against the cutoff, with
identity conflicts and retransmissions (`Read`), grouping (`GroupReports`), the single root of each
report (`Examine`), linking of revisions to predecessors (`Link`), the walk along the chain
(`StartWalk`, `Advance`, `EndOfChain`), and a checkpoint that may stop the reading. The code goes
through reports and revisions in a fixed order; the model in any order, which covers it.

- `RevisionHistory` says what a snapshot means, without any order: known records must form one
  chain per report, and the effective records are the tips that do not retract.
  `ImplementsHistory`: a call succeeds exactly when there is such a history and returns exactly it,
  whatever the order of arrival.
- `RevisionsAccounted`, of `EveryRevisionAccounted` and `CycleUnreachable` (the cycle guard is dead code, because the count of
  roots and the refusal of branches exclude cycles from the walk), `ReplayableEarlier` (a history
  that materializes at a cutoff materializes at every earlier one). The walk is the only loop of the
code that is not over a finite collection, and by `CycleUnreachable` it ends.

Run `mc_evidence_snapshot`: two sources, three revision identifiers, two times, three records,
symmetric in identifiers and sources; every envelope of these that the record type admits, those without
a knowledge time included. Three records suffice
for a branch, a cycle off the root, a foreign predecessor and a chain with a middle.

### ExecutionSession

A call is a frame on `stack`; `pc` follows `operation()`: enter, then for every artifact a step
checkpoint, `Lookup`, a compute checkpoint, `Keep`, then for a compilation `Explain`, then
`Return`. A checkpoint is `Check` (stop or go on), the callback, `Recheck` (the code looks at
cancellation and deadline again after the callback). While the callback runs, `CallerRuns` holds
and every caller's operation is enabled: `Call`, `Clear`, `Close`, `Reconfigure`. `Cancel` and
`Tick` are always enabled. An exception unwinds frame by frame (`raised`, `Propagate`) and may be
swallowed by the callback. `Fail` is the classification in `operation()`, with the partial results
that the sampler and the query loop keep (`Salvages`). The store is abstract here: an insertion may
displace any other artifacts, which covers the least-recently-used choice of `ArtifactStore`.

- `ReuseIsFresh` has two parts. `RetainedIsFresh`: reuse does not change results although undeclared code may be reconfigured.
  `ExplainsPrevious`: the one entry that is not content-addressed is the numerics of the model
  compiled last, whatever was evicted, refused or compiled by nested calls in between.
- Action properties: `NoWorkAfterStop` (nothing goes on under a control that is cancelled or past
  its deadline; also under a child control), `HonestStatus` (a call is "complete" only if it did
  everything).
- `AllCancelledEnds`: once all controls are cancelled, everything ends, although one of the calls of
  the run would work for ever. Fairness: weak fairness of
  `Step`, the steps of the calling thread other than the caller's own choices; `Resume` belongs to
  it, that is, callbacks return.
- `ClosedHoldsNothing` is violated, see Findings.

Bounds: three calls, two of them nested, one tick of the clock, one reconfiguration. The properties
relate a call with one nested in it or one after it. Deadline 1 with one tick gives a deadline
before, inside and after a callback.

### Elimination

`Elimination` models `ordering_and_cost`, `preflight`, `eliminate`/`_eliminate_reusing` and
`EliminationPosterior` by the scopes of the tables. `Choose` orders one variable by minimum fill
and adds the fill edges, recording the clique it expects; `Preflight` admits or refuses;
`Eliminate` combines a bucket; `Joint` restarts all of it on the retained conditionals for a query;
`DrawNext` reads conditionals backwards. `plan` and `frontals` are history variables for the proof.

`PlanIsKept`:

- `AllocationWithinPlan`: a table is only ever allocated if the symbolic plan counted it, and so
  within the budget. `ResultScope`: a run leaves exactly the variables asked for. `DrawsAssignAll`:
  each conditional read backwards has exactly one unassigned variable, and all get a value.

Run `mc_elimination`: all models of up to three factors over four variables with up to three
variables each, domains of size 2 and 3, budgets that admit some models and some queries and refuse
others; every joint query. Fill-in first happens with four variables in a cycle, here with three
factors one of which is ternary.

### BeliefPropagation, ExpectationPropagation

`BeliefPropagation` extends `Elimination` with the approximate engine for the same models:
`Assess` is `BPEngine.assess()`, `Begin` the start of `solve()`, which refuses tables with zeros,
`Pass` one pass of `run_bp()`, in which each edge sends its table and what the table's other
variables have heard, damped or not, and `Conclude` its end, when nothing moves by `Tol` or
`MaxIter` passes are over. A message is how often it counts each table, in fractions of a power
of two, which is what damping makes of it; the numbers in the tables are left out.

- `BeliefsAreSound`: `CountedOnce` (without loops, no table is ever counted twice in a belief, and
  none that is not coupled with the variable) and `ConvergedIsExact` (a model without loops, passed
  without damping, converges, and then its beliefs count what exact inference counts).

`ExpectationPropagation` is `run_ep()` and its adapter (`Ground`, `Sweep`, `Publish`). A sweep goes through the edges in the flat
order of the banks: an improper cavity leaves the old site, and an answered number that is not
finite the old number of the site, whatever becomes of the other (`Toward`); only the former is
counted. What a bank answers is any of its sites.

- `MomentsAreExplained`: `MeansAddUp` (the terms that explain a mean, found through the slices of
  banks and merged under labels that repeat, sum to it) and `SkipsAreReported` (what the adapter
  publishes is neither clipped nor short of an answer, or of half of one, that it does not report).

Both run in `mc_elimination`: five requests (positive tables or not, approximation allowed or not,
damping of a half or none, a joint that marginals cannot answer) on every model, six passes, which
is what the longest chain of four variables takes and two more; eight graphs of three edges over
two variables, two of them under one label, three sweeps.

### BlockedSampler

`BlockedSampler` models `BlockedEngine.solve()` and `warm_start_from()`/`initializations()`. A call
(`Solve`) runs its chains one after the other: `StartChain` takes a warm, a given or no initial
state, `Initialize` is one attempt at an admissible one, `BeginSweep` the checkpoint and the budget
test at the head of a sweep, `Gibbs`, `Accept`, `Reject`, `Skip` and `BadProposal` the update of a
block, `Record` a row of the array allocated in advance. `Stop`, `Overrun` and `SweepsDone` leave
the loop of sweeps; `CloseChain` keeps or drops the chain, `Return` cuts the chains to a common
length. Densities are abstract: a model is known by the set of states that have mass, and the
conditional posterior kept beside the state by the state it was evaluated at. Array rows that were
never written hold `Garbage`, as `np.empty` leaves them.

- `ChainOnTarget`: state and kept posterior belong together and have mass. `DrawsAreHonest` is all
  of the following. `RowsAreDraws`: no
  garbage, no warmup row, no row of an interrupted sweep in a result. `HonestStatus`,
  `StopKeepsDraws`: a stop neither passes for completion nor raises once
  a draw was retained. What it returns is cut to a length common to the chains (`Return`), so rows that one
  chain recorded beyond the shortest of them are lost; a chain with no row is left out.
- `WarmNeverRefused`: a hint from an earlier result never makes a call fail. Not part of it:
  `RetainsIndependent`, that a result has a chain to compare the others with, is what the
  documentation says, and is violated (Findings).

Bounds: two binary variables in two blocks, two chains, one warmup sweep and two draws, two
attempts, two calls. Two chains of two draws can be stopped at lengths that differ, and leave one
chain warm and one fresh. Targets that differ from the first in structure, in support or in being
identified cover every reason to refuse a hint.

### SamplingPlan, GaussianMixture

`SamplingPlan` is what comes before the chains: `BlockedEngine.assess()`. `Assess` reduces the
domains (an "exactly one" constraint becomes one variable of its choices) and takes the variables
that are given for sampling, `Widen` adds one more as long as the rest is too much to integrate
out, `Partition` makes the blocks, joining those a hard constraint touches; each may refuse.
`DrawBlock` takes the conditional of one block (`block_conditionals.py`) from what an earlier model
of the session has left under the same identity (`model/dependencies.py`), or computes and keeps it.

- `CodecIsLossless`: expanding the reduced states gives the states the constraints admit, each once.
  `BlocksKeepConstraints`: blocks part the sampled variables and never a constraint.
- `TablesAreConditionals`: the table in use is the one the current model has, although it may have
  been kept from a model that differs in a kernel's configuration. `SupportIdMeansSupport`: models
  whose supports are taken for the same have the same support.

`GaussianMixture` extends it with real variables: `Condition`, `Enumerate` and `Normalize` make the
components of a target (`_condition_target`), passing over states without mass and failing on those
without a density; `StartDraw` chooses a component for every row of a joint draw and
`DrawComponent` fills the rows of one component, through a mask. `StopMixture` is a stop at a
checkpoint of either.

- `MixturesAreConditionals`: the components are the states with mass that agree with what is given,
  each once, and a row has the state and the values of one component and one sample.

Both run in `mc_blocked_sampler`: ten models of up to five finite variables (two overlapping groups, a
variable with one label, counts, extension kernels with and without an identity), two of them
planned for in a session, since reuse takes two, with one block table each; eight mixtures of one
or two real variables, of which some have no density, and draws of three rows. Tables hold three
states, so that some are refused.

### ArtifactExport

`ArtifactExport` models `write_artifact()` and `read_artifact()`. A writer checks the destination
(`Check`), creates its staging directory, writes every array (`OpenArray`, `FinishArray`), then the
manifest, then renames (`Publish`); it may `Die` anywhere. A reader reads the manifest, validates
each array against it, then opens the arrays a second time to load them. Readers may be pointed to
a staging directory. `MakeDestination` is another program, `PowerFailure` ends all processes and
tears any files, since the code never synchronizes them to disk.

- `ExportsAreWhole` joins three. `PublishedIsWhole`, `ReturnedIsPublished`: what is at the destination is one export, complete,
  and that of the call that returned. `WholeOrNothing`: a reader returns one whole export or fails,
  also after a power failure, and although a directory may be renamed between its two passes.

Bounds: two writers with one and two arrays, one reader, one power failure. Interference takes two
parties; the reader can be started again after each call.

### ValueCodec

`ValueCodec` is the codec under both bundles and identities. `Frozen` owns and normalizes a value,
`Canonical` is what `canonical_json()` hashes, `Encode` and `Decode` are the tagged documents of
bundles under registries of types. `Fingerprint` identifies a value, `ArtifactKey` the content of an
artifact. What each takes differs (`Freezable`, `Digestable`): `artifact_key()` freezes nothing, so it
refuses sets, wherever they are, and takes mutable classes and keys that are no strings. `WriteBundle`
overwrites a file in place, so that a reader may find it torn; `ReadBundle` may lack a class or the budget, and
`Replace` gives it a document that no writer made. A hash is taken for what it is the hash of, so collisions are out of scope.

- `BundlesReadAsWritten`: what is read is what was written, class by class, whatever the value looks
  like; nothing comes of torn files or unknown classes. `FingerprintsTellApart`: one fingerprint
  or artifact key, one value. Arrays of no elements that differ in their type, sets within sequences, naive times, fields with the default that identity omits and
  mappings that look like tags are among the values.

Run `mc_artifact_export` also has these: 34 values, two registries, six foreign documents, two
writes one after the other, or two fingerprints or keys instead; bundles and identities share no
state. Properties relate one value with one other.

### InferenceQuery, QueryNeeds

`InferenceQuery` models the way of a bundle of queries: `Require` adds the needs of one query
(`requirements_for`), `Assess` considers one engine of the route (`plan()` and `assess()`), `Solve`
solves, `Release` is `summaries_only()`, `Begin`, `Evaluate`, `Draw` and `Evaluated` are
`evaluate()` of the bundle on exact tables and, after a budget was exceeded there, on common draws.
`QueryNeeds` holds the operators on needs: `SatisfiedBy`, and `Include` with its removal of
supersets. Engines, posteriors and evaluators may be a caller's own and may not be cooperative;
every call made is kept in the history variable `called`.

- `NeedsAreServed`, in two parts. `CombinedNeeds`: dropping supersets after every query loses no alternative and makes none up.
  `PlanServesBundle`: the engine chosen provides what each query will ask, and is the first of the
  route that was not declined. `OneSolver`: nothing that happens while solving selects another.
- `ControlReachesAll`: a control is handed to everything that is called, or the call is refused.
- `AnswersAreOfOnePiece`, in two parts. `OneRepresentation`: an attempt on tables that is given up leaves nothing behind.
  `PartialIsPrefix`: what a stop leaves is a nonempty prefix, named as such.

Bounds: bundles of one to three queries out of five kinds, among them alternatives of three
capabilities that overlap, all settings (engine, cooperative or own engines, continuous variables,
sampling allowed, time limit, control, warm start, generator). Three queries suffice for supersets
that arise only by combination and for a stop in the middle of a bundle.

### ProcessQuery

`ProcessQuery` evaluates the five kinds of process query. `Ask` takes a query and a result: counts
and exposures on an exact result are done in parts, one execution on a table of its own keys each.
`Bind` checks the part against what the result knows. `Project` is one execution in
`evaluate_on()`: bindings of endpoints, obligations and the outcome of the job in each row, from the
store if the execution was projected on rows with the same identity; `FinishPart` makes the estimate
of the part, of intervals, overlaps, ranks and lineage, and in the end puts the parts together.
`Halt` is a stop at a checkpoint. The numerical diagnostics of a series of draws are a choice of outcomes.

- `StoreIsTransparent`: a projection that is kept is the one of the rows at hand.
- `EstimatesAreExact`: `AnswersAreAverages` (counts, exposures and probabilities are those of all
  rows put together, minute by minute, although code goes through parts and merged intervals),
  `RanksCoverRankable` (someone is first in every row that counts), `IncompleteIsNotAssessed`
  (draws of stopped chains never count as assessed).

Run `mc_inference_query` lets a bundle with a process query go on with two of them, out of 15, over
two tables whose candidates are ordered differently and five sets of draws. Two queries are a first
projection and its reuse.

### SettingsComparison

`SettingsComparison` is `compare_settings()`: `Compare` begins a call, `CompileSetting` checks and
compiles every setting before anything is inferred, `Allocate` takes one seed per setting in a
session, then `InferSetting` and `EvaluateSetting` run each in the order of the names, on values of
its stream or of the caller's generator. `StopComparison` is a stop between any two of these.

- `SettingsAreComparable`: nothing is run unless all settings hold the baseline fixed and compile; no
  random value serves two settings; and in a session a setting is drawn as it is in any other
  comparison of as many settings from the same generator, whatever the others take.

Also in `mc_inference_query`: two calls of up to three settings that take values in inference, in
evaluation or in neither, or fail at any stage.

### HistoryGrounding

`HistoryGrounding` follows a schema from its candidates to what a model admits. `AddEvent`,
`AddObject`, `AddLink` and `Build` are `UniverseBuilder`: it keeps what it is told, prunes links
between events and objects by the schema and, if asked, by time (`Survivors`), and links between
objects by the schema. `Ground` is `structural_variables()` and `_structure()`: one factor per
operator `TypePresence`, `Integrity`, `Legality`, `E2OCardinality`, `O2OCardinality`, `Precedence`,
with its refusals. `Admits` is `RuleKernel`, `Decode` is `decode_assignment()` for decoding without
modelled times. Keys of factors and the names of variables are left out: a factor is the record of
what it constrains. A signature is declared once, since the code reads duplicates through
dictionaries where the last one stands for all.

- `SupportIsLegal`: for every assignment, the conjunction of the support factors says exactly what
  the schema says of the decoded history. The right side (`LegalHistory`) knows no candidates,
  groups or factors.
- `PossibleIsCandidate`: what is pruned could not have been.

Run `mc_history_grounding`: two events, two objects and links between them; schemas with bounds
that differ between types of one slot, a type without links, two qualifiers and unbounded,
required and optional ends. The invariants quantify over all assignments, so two events and two
objects are what TLC can go through, and enough for a group without candidates and for a count that
exceeds its bound.

### CandidateRegistry, BeliefState

`CandidateRegistry` extends `HistoryGrounding` with what is numbered. `AddVariable` and `Freeze` are
`VariableRegistry.add()` and `freeze()` for callers; `BuildRegistered` is `build()` with the
`_register()` of a universe; `ActiveRefs` and `Expand` are `active_refs()`, a search from claimed
references to those that share an entity, one of the frontier at a time. The validation of schemas is part of it.

- `CandidatesAreIndexed`: `IndicesAreDense` (index and reference lead to each other in a frozen
  registry, with the kind and cardinality that were registered, in blocks of families) and
  `VariablesAreLatent` (a universe has a variable for what is not determined, and for nothing else).
- `RegionIsNeighbourhood`: a region is the set of references within its hops, which is stated
  without frontiers.

`BeliefState` is the builder of beliefs over a frozen registry and its views (`NewBuilder`,
`SetDiscrete`, `SetContinuous`, `SetEvidence`, `BuildView`, `WithEvidence`). Views share the arrays of the builder, but evidence
attached to a view is copied first.

- `VerdictsFollowEvidence`: a view decides what its own evidence decides, per reference and in
  summary. `build()` passes the arrays of probabilities uncopied, so a builder that is used after
  `build()` would change its views; no caller in the repository does that, and the model makes no
  such calls.

Both run in `mc_history_grounding`: registries of up to four variables of callers, three claims, up
to three hops (enough to cross two events and two objects by their links), beliefs over registries of
two variables and three views, the third of which can differ from two made before.

### ModelCompilation

`ModelCompilation` is the rest of `_compile()`: what evidence, trust and the caller add to the
grounded schema, which is a constant here. `Resolve` is `resolve_parameters()`. `Contribute` goes
through the observations in the order of their identities, as interpreted evidence keeps them, and
lets the channels that declare latents contribute (`AssociationChannel`, `TimestampChannel`).
`Admit` checks activation and the admissibility of assertions, `Share` the contributed priors,
`Priors` makes one prior per variable, `Group` one likelihood per information group, and `Validate`
is the validation of the whole. A key that two factors share is remembered in `clash`, since the
code looks for duplicates only at the end. The store only saves work here and is left out (it is
`ExecutionSession`'s subject); the second comparison of scopes at line 399 can no longer fail.

- `ReportsCountedOnce`: each information group has one likelihood, with the evidence of all copies.
  `TrustIsClosest`: no likelihood depends on the order of trust rules. `SharedMeansSame`: a latent
  that observations share has the variable and the prior that each of them contributed, and every
  prior the caller supplied is in the model.
- `CopiesOfSystemsCount` is what the documentation says of copies, and is violated (Findings).

Run `mc_model_compilation`: 12 sets of up to three observations (copies, copies that differ,
latents shared by observations and priors, a latent observed before and after it is declared), seven
sets of rules, with and without a default, five sets of priors and of factors of the caller's own.
Three observations are two copies and a third that shares their latent.

### SyntheticWorld, SyntheticSources, StaticBaselines

`SyntheticWorld` is `simulate_process()` event by event (`PlaceOrder`, `ConfirmOrder`,
`PickItem`, `PackItem`, `Ship`, `Invoice`, `Pay`, `EndOrder` draw what the random generator would), `build_universe()` with its decoys, brackets and uncertain
types, and the oracle. `SyntheticSources` is `simulate_sources()`: hotspots (`MakeHotspots`), the
scope of each source (`DrawSource`), who copies whom (`ChooseExemplars`), claims that are observed
or copied (`EmitClaims`); and what `StaticSource` and its
declarations accept. `StaticBaselines` are the votes, triplets and the overlap graph over the
claims. Accuracies and weights are probabilities and left out: every draw of positive probability
is a choice.

- `TruthFollowsSchema` holds at every point of the generation. `LinksLegal`: each link has a declared
  signature. `EventsComplete` and `ObjectsComplete`: an event, and an object, has as many links as its
  type asks for under each qualifier, of events to objects and of objects to objects. `TracesOrdered`: the events of an
  object come in the order its lifecycle declares. `TruthIsCandidate`: every true fact is among the
  candidates built around it. The schema itself is contradicted in three ways, which the property names:
  - `items_per_order` may be 0, and an order drawn so contains nothing, although `contains` is declared
    `AT_LEAST_ONE` (`synth/process.py:107`). `DrawnEmpty` also requires that such an order is never
    picked, shipped or invoiced.
  - `tick()` (`synth/process.py:413`) adds normal noise to the length of a step, so a step may go back in
    time. Events are then still generated in the order of the lifecycle, but dated out of it: `SetBack` asks
    for a negative step between the two, so no other cause is excused. The run draws steps of 2 and -1.
  - An order packs one item before it picks the next, so the pair `PickItem`, `PackItem` that its
    lifecycle declares (`synth/process.py:118`) holds for each item only (`Lifecycle`).
- `SourcesAreFaithful`: `SourcesAccepted` (what is generated is never refused) and `CopiersRepeat`: a copier
  of a source that emitted before it, which may be a copier with a lower index, says nothing that this one
  did not say, and is silent only if there was nothing in its scope. A copier of one that emits later
  finds nothing to copy, and observes for itself.
- `BaselinesAgree`: `SameSay` and `CoveredIsIdentified` (an accuracy is estimated only where the overlap
  graph says it can be). `SameSay` is about every assertion with two states, event types with two candidates
  included, and about every source. Each source has one vote at most; `majority_vote()` counts one vote for
  each source with a boolean claim; and what `dawid_skene()` observes is what `weighted_vote()`
  counts, in both directions, but for two cases. A detector that claims nothing at all is not among
  the sources that `dawid_skene()` knows (`baselines/dawid_skene.py:64-66`), while its silence is counted. And a
  type is claimed by name, which is not entered (`baselines/dawid_skene.py:54`): the detector that named one
  is observed as denying (`baselines/dawid_skene.py:69`), although `sources/base.py:161` counts a claim as breaking
  silence (`Misread`). No document decides on either.

Run `mc_model_compilation` also generates these worlds: up to two orders with up to two items, or none, and
steps that may go back, for the laws of a history; and one order with a decoy for sources, of which there
are three, the least for a copier of a copier and for a triplet.

## Proofs

`ArtifactProofs`, from `StoreAssumption` (charges are positive; `NoSlot` is not a slot) and
`NoPutAssumption`, for any sets of addresses, slots and values and any budget: type correctness,
`BytesAreCharges`, `WithinBudget`, `SlotsNameLatest`, together `AccountIsExact`. `bytes <= MaxBytes` is not inductive alone:
`EvictOldest` subtracts a charge, so `StoreInv` also has the account (`bytes` is the cardinality of
the union of the charges, counted in units, so that removing one entry removes exactly its units)
and that `order` enumerates the entries; it keeps the value under way acceptable. `IndexInv`
relates `slots` with `latest`. Lemmas say what `RemoveAt` does to an enumeration and what a removal
and an insertion do to the units.
From the same assumptions, the refinement: `StoreImplementsLru` (`ImplementsLru`). Most steps
rearrange the sequence of retained artifacts as the abstract cache does (`ContentRemoved`,
`ContentMoved`, `ContentAppended`). `put()` is several steps here and one there, the last: `LruInv`
says that while it is under way, what is left is the most recent part of the other artifacts, and that any
longer part leaves no room (`Evicted`). Where the loop ends is therefore where the `Room` of the
abstract cache begins (`RoomIs`): that the store evicts no more than it must, and the oldest first.
The loop compares its account, the abstract cache weighs the sequence; that these are the same
number is a bijection of units (`WeightIs`) and the account's own invariant.
Of the export, from `ExportAssumption` (writers and readers are not `Absent`, nor is a directory),
for any writers, readers and sizes, any crashes and a power failure: `ExportsAreWhole`. `WriterInv`
says what the staging directory of a writer holds at each of its steps, as long as the machine does
not fail, so that what is renamed is whole. `ReaderInv` says that a directory whose manifest was
read is not written to again: it is there, with every file that was checked, or it was renamed away
for good. The property alone is not inductive, since a reader may begin in a directory that is
renamed, or torn by the failure, while it reads.

`EvidenceSnapshotProofs`, from `RecordsAssumption` (what the record type admits), for any set of
records: type correctness, `CycleUnreachable`, `EveryRevisionAccounted`, the last two together
`RevisionsAccounted`. `BaseInv` describes the
links (every successor names its predecessor, links stay within a report); `WalkInv` says every
revision seen, other than the root, has its predecessor seen, so a successor seen already would
have two predecessors; `AccountInv` gives each report not pending its full account, using finite
cardinalities at the end of a chain.

The same module proves the refinement, `ImplementsHistory`: materialization implements
`RevisionHistory` under the mapping that `EvidenceSnapshot` states, whose chains, tips and validity
are said of the set of records, with no order and no walk. `HistoryInv` is what the mapping needs:
which records are known and what the issues say of those that were read (`IssueInv`); that
`successors` has exactly the links of the report examined so far (`LinkInv`); that the revisions met by the
walk are a listing in which each follows the one before (`PathInv`); that whatever is called superseded,
retracted or effective is so among all records (`DispositionInv`, with `AccountInv` for the
converse); and that every report examined has a chain (`ChainInv`). The other direction is that
each refusal of the code rules out a chain of the report: two assertions, a fork, a gap or a
knowledge time that goes back. `ReplayableEarlier` follows from the chains of a finished call: the
records known at an earlier cutoff are a prefix of each, since knowledge times do not go back.

`EliminationProofs`, from `EliminationAssumption`, for any finite set of variables, any models and
any budgets: type correctness, `AllocationWithinPlan`, `ResultScope`, `DrawsAssignAll`, together `PlanIsKept`. The key is
that the graph during planning is, variable by variable, the graph of neighbours of the set of
scopes a real elimination would have at that point (`NeighboursReduced`), and that the tables of
`eliminate` at position n have exactly the scopes of `plan[n]`, possibly with empty ones.

The module has three more parts: two about the approximate engines, one about process queries. What their models compute of the
community modules is sums over finite sets, of which the library states nothing: `SumIs` shows them
to be the function on subsets that adds an element at a time, and the lemmas after it that the
order is of no matter, that sums split, add and may be renamed, and that a sum by groups is the sum
over all (`SumByKey`).

- `PassedBeliefsAreSound` (`PassingSpec => []BeliefsAreSound`), from `PassingAssumption` and
  `EliminationAssumption`. A message of an edge may tell of the tables *behind* it: those reached from
  its table without its variable (`Behind`). Without loops, tables behind different edges of one
  variable are different, and so are those behind the other variables of a table
  (`BehindDiffers`, `BehindApart`). `Tree` counts ends of edges, so this is a count too: what is grown from
  one table along shared variables has as many ends as a tree has (`Grown`), and a way back would be
  one too many (`TreeSeparates`). A pass then makes of messages that keep to what is behind them others that
  do (`UpdateSupported`), and a belief counts no table twice (`BeliefCounts`). For `ConvergedIsExact`
  the tables behind an edge are counted (`Reach`). A message that tells of less than it could
  rests on one before it that does, with fewer tables behind it, so messages that a pass does not change tell of all
  (`FixpointIsExact`). The code looks at beliefs and not at messages, but on a tree equal
  beliefs are made by equal messages (`BeliefsDecide`). Finally, what pass n changes has n tables
  behind it at least (`ChangesAreDeep`): a pass that moved something is not preceded by more than there are
  tables. `Passing` keeps this in the invariant by naming the messages before the latest pass.
- `PublishedMomentsAreExplained` (`SweepingSpec => []MomentsAreExplained`), from `GraphAssumption`, for any
  graphs, ceilings and answers of banks. The flat edges are those of the banks end to end
  (`FlatIsEndToEnd`, by induction on the number of banks), so that the slice of each bank begins where
  `Offset` says, and each place of a bank is one edge (`PlacesAreEdges`). The terms of a
  variable are then its edges in groups (`TermsAddUp`), whatever labels banks share, "prior"
  included. `Sweeping` is the inductive invariant: messages are pairs of integers, and moments that are done
  those of the latest messages.
- `StoreServesTheRows` (`AskingSpec => []StoreIsTransparent`), from `ResultAssumption`: `ProjectionsInv` says that
  a projection in the store is the one its key tells. The identity of a grid gives back the rows and
  their states, because it has the labels in their order, and that of draws has the draws; so what
  is found under the key of other tables is what would be computed. Names matter because projections
  of a part are kept by name.
- `EstimatesSayWhatRowsSay` (`AskingSpec => []EstimatesAreExact`), from the same. The right side knows no parts,
  no status and no intervals, so each has to be accounted for:
  - In one row, a *closed* execution is what `interval()` calls satisfied (`SatisfiedIsClosed`), and late
    is what `obligation()` calls violated (`ObligationIsLate`). Sorted conditions, each
    cut off at what those before it reached, divide the minutes that any of them covers
    (`OverlapIsMinutes`, by induction along the listing that `InOrder` chooses). So the row adds to a
    numerator what its executions are worth (`RowAdds`).
  - What an execution adds depends on no key but those of its scope (`ScopeTells`). The mean of such an
    amount over the table on these keys is its mean over the whole grid: the sum over the grid is
    grouped by the assignment of the scope (`MeansAgree`, `MeanOverAll`).
  - Parts have an execution each, and means add (`MeansAdd`), so what the parts come to
    together is what the query would have come to at once (`PartsAverage`).
  - In a row that counts, whoever has the greatest score is first, and a second first is a tie
    (`RanksCover`, `RankedCovers`).

  `EstimatesInv` is inductive next to `ProjectionsInv`: the parts that are done are finished estimates of the
  executions before the current one (`PartsInv`), and the latest estimate is a finished one of its
  query (`EstimateInv`). `Finished` is what the above shows of an estimate when it is made.

`ResultAssumption` is what constructors and contracts ensure of results and queries: executions of a query
have names of their own, an exact result is complete, every draw has the same keys and among them all that have a domain,
weights are natural numbers (a scale apart), conditions do not end before they begin, windows are not
empty, and what is held under the key of a time is a time or none.

`InferenceQueryProofs`, for any set of bundles (`Bundles` sequences of queries) and of settings:
`CombinedNeeds` and `PlanServesBundle` (`NeedsAreServed`), `OneSolver`, `OneRepresentation` and
`PartialIsPrefix` (`AnswersAreOfOnePiece`), `ControlReachesAll`. Needs are kept in a *proper* form: the alternatives are not empty, and none
contains another. What is satisfied by the minimal alternatives is satisfied by all, because every
alternative contains a minimal one (the strict subset relation is well-founded on subsets of a
finite set). `PlanInv` ties the position in the route to what was considered; `AnswerInv` says of
every estimate so far which query it is of and which representation it was made on. `ControlInv`
adds to `ControlReachesAll` that once evaluation has begun, every query of the bundle is cooperative
if there is a control: the refusal of the others comes before the first call, and what is called
later is of the same bundle.

The same module has `ComparisonsAreFair` (`SettingsAreComparable`), from
`ComparisonAssumption` (finitely many settings, a target takes a natural number of values):
`ComparisonInv` says which settings are compiled, and of every output which values were taken for
it. With streams of their own those begin with the seed, which no two settings share
(`StreamsAreTold`); without, they were taken before the place where the caller's generator stands.
That a setting is drawn the same in another comparison is inductive only with the values of each
output given as a function of the place where the call started and its target (`OwnTaken`).

`HistoryGroundingProofs`, from `GroundingAssumption` (multiplicities are intervals, a signature is
declared once), for any schemas, universes and classifications, finite or not:
`PossibleIsCandidate` and `SupportIsLegal`. `GroundingInv` says that what the builder knows is
well formed, that the universe is what it was built from, and that the factors are `Structure` of
the options. The rest is about one state: `SupportedParts` splits "every support factor admits"
into one statement per family; `LinksPass` shows implication, gate and presence together to be
`LinksDeclared`; `GroupsCover` and `GroupsCountEvents` show that the cardinality factors of the
groups, those without candidates included, count what the signatures count; `CountsPass` adds the
objects.

The second half of the module is about `BelievingSpec`, grounding with a registry, regions and
beliefs, from two more assumptions. `RegistryAssumption`: references have a family of
`FamilyOrder`, schemas, claims and the attributes of a type are finite, a name is not `None`, and
candidates have types that the schema declares (`add_event()` and `add_object()` refuse others).
`BeliefAssumption`: evidence and targets are amounts, here natural numbers, and `None` is not a list
of them. `BelievingGrounds` shows `BelievingSpec => Spec`, so that the theorems of grounding hold here too.

- `BelievingCandidatesAreIndexed` (`CandidatesAreIndexed`): `Listed` says that the parallel lists
  of a registry have one length, and the index leads to a reference's one place. `AddedKeeps` and
  `FrozenKeeps` are the two ways to change one. The order that `freeze()` sorts by is a permutation
  (`OrderKeeps`: references of all families together, each once), and what is sorted by family
  lies in blocks (`SortedBlocks`). The converse, that a universe has a variable for what candidates
  leave open and nothing else, adds up what each entity registers (`Naming`, `RegisterIs`); that an
  attribute belongs to the one type of its entity needs the schema's validation, whose list of
  attributes is put together type by type (`AttributesPlaced`, `OwnersAreUnique`).
- `BelievingRegionIsNeighbourhood` (`RegionIsNeighbourhood`): the property speaks of a search
  that has ended. While it runs, `At` says that there is a distance d such that all references
  within d are seen, others seen wait at the end of the frontier at d + 1, and a reference within d
  either waits at d or has all its neighbours seen. When no reference is left at d, what
  is within d + 1 is seen (`Settling`), or nothing waits at all and the neighbourhood is closed
  (`WithinCloses`), so that hops that remain add nothing.
- `BelievingVerdictsFollowEvidence` (`VerdictsFollowEvidence`): `Viewing` ties the evidence of a view
  to what was attached to it, reference by reference. The arrays are filled before there is a view
  (`Viewed`), and a view of a view copies (`ViewAttached`). That the summary agrees with the
  verdicts for each reference is `AsMany`, a bijection of references and places.

`FoldSet` and `FoldLeft` are recursive functions over subsets; what they compute here (some order of
a set, a registry after several additions, hops) is shown from `MapThenFoldSet` by
the induction over subsets of a finite set that the part on planning below uses as well.

`ModelCompilationProofs`, from `CompilationAssumption` (identities of observations are unique and
ordered, here natural numbers, and factors of the schema are not observations): `ReportsCountedOnce`, `TrustIsClosest` and
`SharedMeansSame`, for any observations, rules, channels, priors and factors. `CompileInv` says
what each part of the compilation leaves to the later ones: `Trusted` (values are those of the
resolved rule), `ContributionsKept`, `SharedKept`, `PriorsKept`, `FactorsKept`. The last two hold
only while no key has clashed: a factor of the caller may take the key of a prior or a likelihood,
and only the final validation refuses it. `AddKeeps` says what joining factors under their keys
preserves; `FirstIsOne` that a group has a first copy (the least natural number, by
well-foundedness).

The same module proves the generated worlds, from `WorldAssumption` and `RegimeAssumption`, for any
number of customers, orders, items and draws. `WorldInv` says that the world is `WellMade`: names
tell types, and each event comes with the links its type asks for (`Serves`, `GrowsSoundly`); that what
happened to an object is in the order of its lifecycle and dated so, but for steps that went back
(`Traced`); and that each object has the links its type asks for, but for orders drawn empty
(`Furnished`). `OrderInv` says of the order under way that what happened to it, to its items and to its
invoice is not later than its clock, but for such steps (`Behind`), and is what should have happened at
its stage (`Untouched`, `Past`); that its items are linked to it and its invoice is not before it is made
(`HasItems`, `NotInvoiced`). Each step of the process has a lemma that it keeps all of this
(`PickKeeps`, `PackKeeps`, ...). `GeneratedTruthFollowsSchema` follows without a hypothesis on the lengths
of steps, which `tick()` (`synth/process.py:413`) draws with normal noise: `WorldAssumption` lets
them be any integers, and a draw of zero items any order.

Of the sources over such a world, for any regime and any draws: `GeneratedSourcesAreFaithful`
(`SourcesAreFaithful`) and, from `OverlapAssumption` (an edge asks for one shared assertion at
least, a triplet for no fewer than an edge; by
default 3 and 2), `GeneratedBaselinesAgree` (`BaselinesAgree`).
`SourcesInv` has three parts: the variables in a scope are of the channel of their source (`DrawnInv`);
claims are of variables in scope, one of each, copiers emit after every independent observer and in the
order of their indices, and what a copier of one that emitted before it says repeats it (`EmittedInv`); sources hold exactly what was emitted under
their ids (`ConstructedInv`). That a universe is finite (`UniverseFinite`) has to be shown, from the steps of
the world and the decoys: how many claims a copier keeps is a number, and that it is not zero
if there is anything to copy (`KeptSome`) says nothing of an infinite set. The votes agree because a
source has one claim of a variable, a boolean one exactly if the variable is no type (`BinaryClaims`), and
no claim where silence counts (`VotesAreObserved`); what is observed beside the votes is the denial of a
detector that named a type, and nothing else (`UncountedIsMisread`). Of the
diagnostic: the sources of a triplet share enough assertions for edges (`AgreeingIsEdge`), so
they are three of one component, in which no division into two sides can separate all of them
(`CoveredIs`).

`ExecutionSessionProofs`, from `SessionAssumption` (structures are not items of a request), for any
requests, controls and stores: type correctness, and `ReuseIsFresh`, `NoWorkAfterStop` and
`HonestStatus`. `SessionInv` describes the stack: every call but the innermost is in the callback of a
checkpoint; of each, `FrameInv` says that its deadline is not later than its control's, that it was
stopped only if it is finishing, and that it is through its items if it finishes complete. The
deadline of a child control matters because a solve compares the clock with that alone. `StoreInv`
says that what is retained fits the store, that an artifact retained declares what it depends on and
has its value, and that numerics are those compiled last; numerics that do not
fit are never retained. In the code the keys of numerics are digests, of one length, so whether
they fit depends on the structure and not on the parameters; the model's `Storable` says so.

`BlockedSamplerProofs`, from `SamplerAssumption` (what a target fixes is in its domains, a support
has assignments, `None` is not a state), for any numbers of chains, blocks and draws: `ChainOnTarget`
and `DrawsAreHonest`. `SamplerInv` says, besides both, what the program counter says of the rows:
that as many were recorded as sweeps are past the warmup (`ChainInv`), that row i was written by the
sweep it should be, and that the chains kept are full but for the last when the call was stopped
(`ChainsInv`), so that the common length is that of the last. Rows beyond it hold whatever the
memory had, and nothing reads them. From `HybridAssumption`, for any finite domains and weights:
`MixturesAreConditionals`. `SoundMixture` says that the components are states with mass, none twice, that what is left meets
none of them, and that together they are all such states until something fails; `SoundDraws` that
the rows of a component are filled together, each with a sample of its own.

The last part of the module is about planning, `PlanningSpec`, from `ModelAssumption` (finite
domains, natural weights, a table has a weight for each state, keys of factors, variables and
choices differ: what compilation and `reduction_codec()` refuse otherwise) and, for tables that are
kept, `TokenAssumption` (the declared identity of a kernel covers its configuration, as
`docs/how-to/extend.md:45-47` demands), for any models and any number of them in a session. What
these theorems are about is computed by folds over the data of a model, so the part begins with an
induction: a set of subsets that has the empty set and whatever is got by adding an element has all
subsets of a finite set (`Removing`, by the least size that is missing). `FoldExists` and `FoldIs`
say what a fold over such a set is; `SumIs` and `ProductIs` that `FoldSet` computes sums and
products; `SumOver` that two sums agree if one is over the elements of the other that matter.

- `SupportsAreIdentified` (`SupportIdMeansSupport`): a product is zero exactly where one of its
  factors is (`ProductPositive`), and rules described alike are zero alike (`SameZeros`).
- `BlocksHoldConstraints` (`BlocksKeepConstraints`): joining a scope keeps groups apart and keeps
  together what was (`JoinKeeps`), so the folds over constraints and over real variables do
  (`JoinsKeep`); `PartitionInv` says that a plan has these blocks.
- `CodecsAreLossless` (`CodecIsLossless`): `CodecInv` holds after each factor (`ReducedKeeps`): a
  choice has variables that no other has. Expanding then reaches exactly the states in which each
  choice is made (`ExpandedIsState`, `StateIsExpanded`), each once (`ExpandedOnce`).
- `TablesAreOfTheirModel` (`TablesAreConditionals`): encoded states that agree with a block expand,
  one to one, to states that agree with what the block expands to, and no other state has mass
  (`MasslessUnchosen`), so the sums agree (`ConditionalIs`). `TableInv` says that a table in the
  store is the conditional of every reusable model that has the identity in its key, not only of
  the model it was computed for; `SameIdentity` is why that can hold.

Only model-checked, and why:

- `BundlesReadAsWritten` and `FingerprintsTellApart`: `ValueCodec` is a recursion over nested values.
- `AllCancelledEnds`: liveness under fairness.

## Checking the properties

Deadlock checking is off in all runs: a bounded number of calls is made and a finished call stays
finished, so the systems stop legitimately. Every property is shown to matter by at least one
mutant: a definition replaced by a plausible bug (`NotMoved`, `NoConflict`, `LimitedAfresh`, ...),
next to the definition it replaces, under which the run fails. The operators marked
"Mutant" that no run is listed with break the other parts of a conjunction.

## Findings

- `ClosedHoldsNothing` (run `mc_session_closed`): `runtime/session.py:17-18` says that closing
  releases the session's references. A call takes the store once on entry (`api.py:23`), so a
  progress callback that closes the session leaves the call under way storing artifacts in it, and
  setting `last_assessment`.
- `RetainsIndependent` (run `mc_warm_start`): `inference/warm_start.py:43-45` says that a call with
  a warm start retains an independently initialized chain. That chain runs last; a call stopped
  before it has a draw returns only chains that started from the earlier result.
- `CopiesOfSystemsCount` (run `mc_copies`): `docs/concepts/evidence.md:255-256` says that copies
  which two systems deliver of one report are counted once if they get the same information group.
  The comparison of copies includes the source (`model/compile.py:405-417`), so copies from two
  sources are refused as dependent reports, even if they agree in everything else.

Observations that no document decides, and that no property is about:

- Whether an observation of a shared latent is admitted depends on the identity of the observation
  that declares it (`model/compile.py:248`).
- A prior that a channel contributes for the type of an event passes the branch that refuses such
  priors (`model/compile.py:366-377`).
- `dawid_skene()` reads silence about an event type that the source made a claim of, and leaves out
  a source that claims nothing, whose silence `weighted_vote()` counts (see `StaticBaselines` above).
- Generated truth may contradict its own declared schema: an order drawn with no items contains none,
  steps may be dated backwards, and an order packs one item before it picks the next (see
  `SyntheticWorld` above).
- "String form round-trips" (`assertions/refs.py:8-9`) holds for identifiers without the commas of
  links and attributes without dots, at which `AssertionRef.parse()` splits (lines 160-169). The
  models have no text, so no run shows it.
- `BeliefStateBuilder.build()` shares the arrays of the builder with the view (see `BeliefState`).

## Not modelled

- Floating-point numerics: densities of kernels, banks and copulas, the Gaussian algebra, what
  a bank answers in expectation propagation, weights of baselines and the iterations that fit them,
  scores and diagnostics of series. Models take any outcome where control depends on one.
- The native GTSAM solver and the cross-check of its result, which are calls into a library.
- The lineage of factors that two compilations are compared by (`model/dependencies.py`,
  `compare_dependencies`), and what a delta compilation may skip.
- Parsing and formatting: references as text, reports, plots, the schema of manifests.
- Examples and scripts, which only use the library.

What an artifact *is* is abstract wherever only its identity matters, and hashes are taken for what
they are hashes of.

## Plan

What is left, in order of importance:

1. `DependencyLineage` over `ModelCompilation`: a factor changes only if one of the parents named
   for it did; a delta compilation is the compilation of the whole.
2. Compositions of components that now run beside each other: `ArtifactExport` of the draws that
   `BlockedSampler` returns, `BlockedSampler` on the blocks and targets of `SamplingPlan`,
   `StaticBaselines` on a `CandidateRegistry`.
3. The retry of a stopped call: calls that go on from partial results (`warm_start_from` of draws
   that were cut) across sessions and exports.
