---------------------------- MODULE BlockedSampler ---------------------------
(***************************************************************************)
(* inference/sampling.py: BlockedEngine.solve(), and the initialization of *)
(* its chains from an earlier result (inference/warm_start.py).            *)
(*                                                                         *)
(* Chains run one after the other.  Each finds an admissible state, then   *)
(* sweeps over the blocks of sampled variables and, after the warmup,      *)
(* records one row per sweep in an array allocated in advance.  A stop may *)
(* come at any checkpoint; what the chains have recorded by then is cut to *)
(* a common length and returned.                                           *)
(*                                                                         *)
(* A target is known by the states that have positive mass.  The           *)
(* conditional posterior of the variables that are not sampled is known by *)
(* the state it was evaluated at: drawing a history from it extends that   *)
(* state, so a row is that state.                                          *)
(***************************************************************************)
EXTENDS Integers, FiniteSets, FiniteSetsExt, Sequences

CONSTANTS
  Sampled, Values,     \* sampled variables and their values
  Blocks, Kind,        \* the planned blocks, and how each is updated
  Targets,             \* compiled models
  Givens,              \* config.initial_states: none, or a state per chain
  Chains, Warmup, Draws, MaxInitialization,   \* the configuration
  None,
  MaxRuns              \* bound: calls of solve()

States == [Sampled -> Values]

Kinds == {"finite", "enumerated", "proposed", "custom"}

ASSUME SamplerAssumption ==
  /\ Chains \in Nat \ {0} /\ Draws \in Nat \ {0} /\ MaxInitialization \in Nat \ {0}
  /\ Warmup \in Nat /\ MaxRuns \in Nat
  /\ Blocks \in Seq(SUBSET Sampled)
  /\ UNION {Blocks[i] : i \in DOMAIN Blocks} = Sampled
  /\ Kind \in [1..(Len(Blocks) + 1) -> Kinds]
  /\ \A t \in Targets : t.support \subseteq States /\ t.known \in BOOLEAN
  /\ None \notin States
  /\ <<>> \in Givens

VARIABLES
  pc,         \* what the call is doing; "idle" between calls
  target,     \* the model of the call
  given,      \* its explicit initial states
  warm,       \* chain -> state taken from an earlier result
  chain,      \* the chain under way
  start,      \* how it was initialized: "warm", "given" or "fresh"
  tries,      \* initial states it proposed
  sweep, block,
  state,      \* values of the sampled variables
  posterior,  \* state at which the target was evaluated last and kept
  rows,       \* the chain's array; <<>> before it is allocated
  count,      \* rows recorded
  chains,     \* the chains kept
  status,     \* "complete" until something stops the call
  outcome,    \* how the last call ended
  result,     \* the last result, while the caller keeps it
  runs        \* calls made

chainVars == <<start, tries, sweep, block, state, posterior, rows, count>>
callVars  == <<target, given, warm, chain, chains, status>>
vars == <<pc, callVars, chainVars, outcome, result, runs>>

\* What an array holds where nothing was written (np.empty).
Garbage == [sweep |-> None, state |-> None]

Init ==
  /\ pc = "idle"
  /\ target = None /\ given = <<>> /\ warm = <<>>
  /\ chain = 1 /\ chains = <<>> /\ status = "complete"
  /\ start = None /\ tries = 0 /\ sweep = 0 /\ block = 1
  /\ state = None /\ posterior = None /\ rows = <<>> /\ count = 0
  /\ outcome = "none" /\ result = None /\ runs = 0

-----------------------------------------------------------------------------
(***************************************************************************)
(* warm_start_from() and initializations()                                 *)
(***************************************************************************)
\* The last row of every chain of the result.
FinalStates == [c \in DOMAIN result.chains |-> result.chains[c].rows[result.retained].state]

Compatible(t) ==
  /\ Chains >= 2
  /\ t.structure = result.target.structure
  /\ t.known /\ result.target.known /\ t.support = result.target.support

\* Mutant: whatever was drawn last is taken.
AnyWarmStates(t) ==
  [c \in {c \in 1..(Chains - 1) : c <= Len(result.chains)} |-> FinalStates[c]]

\* A state without density under the new model is left out: its chain starts
\* afresh, as does the last chain.
WarmStates(t) ==
  IF ~Compatible(t) THEN <<>>
  ELSE LET usable(c) == c <= Len(result.chains) /\ FinalStates[c] \in t.support
       IN  [c \in {c \in 1..(Chains - 1) : usable(c)} |-> FinalStates[c]]

(***************************************************************************)
(* The call                                                                *)
(***************************************************************************)
Raise(what) == outcome' = what /\ pc' = "idle"

Solve(t, g, hinted) ==
  /\ pc = "idle"
  /\ runs < MaxRuns
  /\ runs' = runs + 1
  /\ target' = t
  /\ given' = g
  /\ warm' = IF hinted THEN WarmStates(t) ELSE <<>>
  /\ result' = IF hinted THEN result ELSE None
  /\ chain' = 1 /\ chains' = <<>> /\ status' = "complete"
  \* Explicit states and a warm start exclude each other.
  /\ IF hinted /\ g # <<>> THEN Raise("invalid")
     ELSE pc' = "chain" /\ outcome' = "none"
  /\ count' = 0 /\ rows' = <<>>
  /\ UNCHANGED <<start, tries, sweep, block, state, posterior>>

\* evaluate(): only a state with mass has a posterior.
Evaluated(s) == IF s \in target.support THEN s ELSE None

\* The chain stands at state s, and allocates its array if s is admissible.
StandAt(s, how) ==
  /\ start' = how
  /\ state' = s
  /\ posterior' = Evaluated(s)
  /\ sweep' = 0
  /\ IF Evaluated(s) = None
     THEN Raise("inadmissible") /\ UNCHANGED rows
     ELSE /\ rows' = [i \in 1..Draws |-> Garbage]
          /\ pc' = "sweep"
          /\ UNCHANGED outcome

StartChain ==
  /\ pc = "chain"
  /\ tries' = 0
  /\ IF chain \in DOMAIN warm THEN StandAt(warm[chain], "warm")
     ELSE IF given # <<>> THEN
       IF Len(given) # Chains \/ given[chain] \notin States
       THEN Raise("invalid") /\ UNCHANGED <<start, state, posterior, sweep, rows>>
       ELSE StandAt(given[chain], "given")
     ELSE /\ pc' = "initialize"
          /\ start' = "fresh"
          /\ UNCHANGED <<state, posterior, sweep, rows, outcome>>
  /\ UNCHANGED <<callVars, block, count, result, runs>>

Initialize(s) ==
  /\ pc = "initialize"
  /\ tries' = tries + 1
  /\ IF s \in target.support \/ tries' >= MaxInitialization
     THEN StandAt(s, "fresh")
     ELSE UNCHANGED <<pc, start, state, posterior, sweep, rows, outcome>>
  /\ UNCHANGED <<callVars, block, count, result, runs>>

(***************************************************************************)
(* Sweeps                                                                  *)
(***************************************************************************)
Unfinished == sweep < Warmup + Draws

BeginSweep ==
  /\ pc = "sweep"
  /\ Unfinished
  /\ pc' = "block"
  /\ block' = 1
  /\ UNCHANGED <<callVars, start, tries, sweep, state, posterior, rows, count, outcome,
                 result, runs>>

\* The last transition of a sweep updates all variables.
Block == IF block <= Len(Blocks) THEN Blocks[block] ELSE Sampled

Refreshing == block > Len(Blocks)

Within(s) == s \in States /\ \A k \in Sampled \ Block : s[k] = state[k]

NextBlock ==
  /\ pc' = IF Refreshing THEN "record" ELSE "block"
  /\ block' = block + 1
  /\ UNCHANGED <<callVars, start, tries, sweep, rows, count, outcome, result, runs>>

AtBlock == pc = "block"

Skip == AtBlock /\ Refreshing /\ NextBlock /\ UNCHANGED <<state, posterior>>

\* A draw from the conditional of the block, exact or by enumeration.
Gibbs(s) ==
  /\ AtBlock
  /\ ~Refreshing
  /\ Kind[block] \in {"finite", "enumerated"}
  /\ Within(s)
  /\ s \in target.support
  /\ state' = s
  /\ posterior' = Evaluated(s)
  /\ NextBlock

\* A finite block whose kernels cannot be evaluated in batches falls back.
Proposes == AtBlock /\ (Refreshing \/ Kind[block] # "enumerated")

\* Mutant: the posterior of the state left behind is kept.
MoveOnly(s) == state' = s /\ posterior' = posterior

Move(s) == state' = s /\ posterior' = Evaluated(s)

\* metropolis_log_acceptance(): nothing without mass is accepted.
Accepts(s) == s \in target.support

Accept(s) == Proposes /\ Within(s) /\ Accepts(s) /\ Move(s) /\ NextBlock

Reject(s) == Proposes /\ Within(s) /\ NextBlock /\ UNCHANGED <<state, posterior>>

\* A registered proposal leaves its block or the domains.
BadProposal ==
  /\ Proposes
  /\ Kind[block] = "custom"
  /\ Raise("invalid")
  /\ UNCHANGED <<callVars, chainVars, result, runs>>

\* A numerical failure in evaluating a target loses all chains.
Failure ==
  /\ pc \in {"chain", "initialize", "block", "record"}
  /\ Raise("numerical")
  /\ UNCHANGED <<callVars, chainVars, result, runs>>

Retains == sweep >= Warmup

Record ==
  /\ pc = "record"
  /\ pc' = "sweep"
  /\ sweep' = sweep + 1
  /\ IF Retains
     THEN /\ rows' = [rows EXCEPT ![count + 1] = [sweep |-> sweep, state |-> posterior]]
          /\ count' = count + 1
     ELSE UNCHANGED <<rows, count>>
  /\ UNCHANGED <<callVars, start, tries, block, state, posterior, outcome, result, runs>>

(***************************************************************************)
(* The end of a chain and of the call                                      *)
(***************************************************************************)
EndChain(why) ==
  /\ pc' = "closing"
  /\ status' = why
  /\ UNCHANGED <<target, given, warm, chain, chains, chainVars, outcome, result, runs>>

\* ExecutionStopped at a checkpoint of this call or of one it makes.
Stop ==
  /\ pc \in {"chain", "initialize", "sweep", "block"}
  /\ pc = "sweep" => Unfinished
  /\ \E why \in {"cancelled", "resource-exhausted"} : EndChain(why)

\* max_seconds has passed when a sweep begins.
Overrun == pc = "sweep" /\ Unfinished /\ EndChain("budget_exhausted")

SweepsDone == pc = "sweep" /\ ~Unfinished /\ EndChain(status)

\* Mutant: only full chains are kept.
DropsPart == count < Draws /\ status # "complete"

Drops == count = 0 /\ status # "complete"

CloseChain ==
  /\ pc = "closing"
  /\ chains' = IF Drops THEN chains
               ELSE Append(chains, [start |-> start, rows |-> rows, count |-> count])
  /\ IF status # "complete" \/ chain = Chains
     THEN pc' = "ending" /\ UNCHANGED <<chain, count, rows>>
     ELSE pc' = "chain" /\ chain' = chain + 1 /\ count' = 0 /\ rows' = <<>>
  /\ UNCHANGED <<target, given, warm, status, start, tries, sweep, block, state, posterior,
                 outcome, result, runs>>

Counts == {chains[c].count : c \in DOMAIN chains}

\* Mutant: the longest chain gives the length.
RetainedMost == IF chains = <<>> THEN 0 ELSE Max(Counts)

Retained == IF chains = <<>> THEN 0 ELSE Min(Counts)

\* Mutant: the result of a stopped call looks like any other.
Silent == "complete"
Reported == status

Return ==
  /\ pc = "ending"
  /\ IF Retained = 0
     THEN /\ Raise(IF status = "budget_exhausted" THEN "budget" ELSE "stopped")
          /\ UNCHANGED result
     ELSE /\ Raise("returned")
          /\ result' = [target   |-> target,
                        retained |-> Retained,
                        status   |-> Reported,
                        chains   |-> [c \in DOMAIN chains |->
                                        [start |-> chains[c].start,
                                         rows  |-> SubSeq(chains[c].rows, 1, Retained)]]]
  /\ UNCHANGED <<callVars, chainVars, runs>>

Step ==
  \/ StartChain
  \/ \E s \in States : Initialize(s) \/ Gibbs(s) \/ Accept(s) \/ Reject(s)
  \/ BeginSweep
  \/ Skip
  \/ BadProposal
  \/ Failure
  \/ Record
  \/ Stop
  \/ Overrun
  \/ SweepsDone
  \/ CloseChain
  \/ Return

Next ==
  \/ \E t \in Targets, g \in Givens, hinted \in {FALSE, result # None} : Solve(t, g, hinted)
  \/ Step

Spec == Init /\ [][Next]_vars

-----------------------------------------------------------------------------
Sweeping == pc \in {"sweep", "block", "record"}

\* A chain stays where the target has mass, and the posterior that histories
\* are drawn from is the one evaluated at the state it stands at.
ChainOnTarget == Sweeping => state \in target.support /\ posterior = state

\* Every row of a result was written, by one sweep each, in order, after the
\* warmup, at a state with mass: nothing of the arrays' initial content and
\* nothing of a sweep that was stopped gets into it.
RowsAreDraws ==
  result # None =>
    \A c \in DOMAIN result.chains : \A i \in 1..result.retained :
      LET row == result.chains[c].rows[i]
      IN  row.sweep = Warmup + i - 1 /\ row.state \in result.target.support

\* A result is called complete exactly if every chain has all its draws.
HonestStatus ==
  result # None =>
    (result.status = "complete" <=>
       Len(result.chains) = Chains /\ result.retained = Draws)

\* A stop raises only if no draw was retained: if one was, the rows that the
\* chains have in common are returned.
StopKeepsDraws ==
  outcome \in {"stopped", "budget"} =>
    count = 0 /\ \A c \in DOMAIN chains : chains[c].count = 0

\* A warm start is a hint: a chain started from one is never refused for its
\* initial state, whatever became of the target since.
WarmNeverRefused == outcome = "inadmissible" => start # "warm"

\* A result holds draws and says how many: rows of sweeps at states with mass,
\* "complete" only if none is missing; a stop does not raise once a row is
\* retained; and a hint never makes a run fail.
DrawsAreHonest == RowsAreDraws /\ HonestStatus /\ StopKeepsDraws /\ WarmNeverRefused

Independent(r) == \E c \in DOMAIN r.chains : r.chains[c].start # "warm"

\* Every result retains a chain that did not start from an earlier result, to
\* compare the others with.  (warm_start_from() promises it; when a call is
\* stopped it may not be so.)
RetainsIndependent == result # None => Independent(result)

=============================================================================
