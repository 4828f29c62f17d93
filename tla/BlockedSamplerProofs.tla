------------------------ MODULE BlockedSamplerProofs ------------------------
(***************************************************************************)
(* The blocked sampler, for every number of chains, blocks and draws, all  *)
(* targets and any number of calls that are stopped anywhere: chains stay  *)
(* where there is mass, and a result holds draws and says how many.        *)
(* Then conditioned mixtures, and the joint draws that are made of them.   *)
(* Last, what is decided before sampling, for any models and any number of *)
(* them: supports that are taken for the same, blocks, the reduction of    *)
(* domains, and tables that are computed or kept. These are folds over the *)
(* data of a model, so the last part begins with an induction over finite  *)
(* sets, and with what folds, sums and products are.                       *)
(***************************************************************************)
EXTENDS BlockedSampler, GaussianMixture, SequenceTheorems, WellFoundedInduction, FiniteSetTheorems, TLAPS

-----------------------------------------------------------------------------
(***************************************************************************)
(* The inductive invariant                                                 *)
(***************************************************************************)
Starts    == {"warm", "given", "fresh", None}
RowRecs   == [sweep : Nat \union {None}, state : States \union {None}]
ChainRecs == [start : Starts, rows : [1..Draws -> RowRecs], count : 1..Draws]

Working == pc \in {"chain", "initialize", "sweep", "block", "record"}

\* The i-th row was written, by the sweep it should be, at a state with mass.
DrawnAs(row, i, t) == row.sweep = Warmup + i - 1 /\ row.state \in t.support

\* What has been recorded so far, and what the sweep counter says of it.
ChainInv ==
  /\ count \in 0..Draws
  /\ \A i \in 1..count : DrawnAs(rows[i], i, target)
  /\ count > 0 \/ Sweeping => rows \in [1..Draws -> RowRecs]
  /\ pc \in {"chain", "initialize"} => count = 0
  /\ Sweeping => /\ sweep \in 0..(Warmup + Draws)
                 /\ count = IF sweep <= Warmup THEN 0 ELSE sweep - Warmup
  /\ pc \in {"block", "record"} => Unfinished
  /\ pc = "closing" => (status = "complete" <=> count = Draws)

\* The chains kept are full, but for the last when the call was stopped.
ChainsInv ==
  /\ chains \in Seq(ChainRecs)
  /\ \A c \in 1..Len(chains) : \A i \in 1..chains[c].count : DrawnAs(chains[c].rows[i], i, target)
  /\ Working \/ pc = "closing" => Len(chains) = chain - 1
  /\ pc # "ending" \/ status = "complete" => \A c \in 1..Len(chains) : chains[c].count = Draws
  /\ pc = "ending" =>
       IF status = "complete" THEN Len(chains) = Chains
       ELSE \/ Len(chains) = chain - 1 /\ count = 0
            \/ Len(chains) = chain /\ chains[chain].count < Draws

CallInv ==
  /\ target \in Targets
  /\ \A c \in DOMAIN warm : warm[c] \in target.support
  /\ chain \in 1..Chains
  /\ Working => status = "complete"
  /\ ChainInv
  /\ ChainsInv

SamplerInv ==
  /\ Working \/ pc \in {"idle", "closing", "ending"}
  /\ start \in Starts
  /\ outcome # "none" => pc = "idle"
  /\ pc # "idle" => CallInv
  /\ ChainOnTarget
  /\ DrawsAreHonest

-----------------------------------------------------------------------------
(***************************************************************************)
(* Facts about the numbers of a call                                       *)
(***************************************************************************)
LEMMA Numbers ==
  /\ Chains \in Nat \ {0} /\ Draws \in Nat \ {0} /\ Warmup \in Nat
  /\ \A t \in Targets : t.support \subseteq States
  /\ None \notin States
BY SamplerAssumption

\* A set of natural numbers has a least one.
LEMMA LeastCount ==
  ASSUME NEW S \in SUBSET Nat, S # {}
  PROVE  Min(S) \in S /\ \A n \in S : Min(S) <= n
<1>1. PICK m \in S : \A n \in S : ~ (<<n, m>> \in OpToRel(<, Nat))
  <2> DEFINE R == OpToRel(<, Nat)
  <2>1. IsWellFoundedOn(R, Nat)
    BY NatLessThanWellFounded
  <2> HIDE DEF R
  <2>2. PICK m \in S : \A n \in S : ~ (<<n, m>> \in R)
    BY <2>1, WFMin
  <2> QED
    BY <2>2 DEF R
<1>2. \A n \in S : ~ (n < m)
  BY <1>1 DEF OpToRel
<1>3. \A n \in S : m <= n
  BY <1>2
<1> QED
  BY <1>3 DEF Min

\* The common length of the chains kept.
LEMMA RetainedIsCommon ==
  ASSUME ChainsInv
  PROVE  /\ Retained = 0 <=> Len(chains) = 0
         /\ Retained \in 0..Draws
         /\ \A c \in 1..Len(chains) : Retained <= chains[c].count
         /\ Len(chains) # 0 => \E c \in 1..Len(chains) : Retained = chains[c].count
<1>1. chains \in Seq(ChainRecs) /\ Len(chains) \in Nat /\ DOMAIN chains = 1..Len(chains)
  BY LenProperties DEF ChainsInv
<1>2. \A c \in 1..Len(chains) : chains[c] \in ChainRecs
  BY <1>1, ElementOfSeq
<1>3. \A c \in 1..Len(chains) : chains[c].count \in 1..Draws
  BY <1>2 DEF ChainRecs
<1>4. Counts \in SUBSET Nat /\ Counts \subseteq 1..Draws
  BY <1>1, <1>3, Numbers DEF Counts
<1>5. CASE chains = <<>>
  <2>1. Len(chains) = 0 /\ Retained = 0
    BY <1>5 DEF Retained
  <2> QED
    BY <2>1, Numbers
<1>6. CASE chains # <<>>
  <2>1. Len(chains) # 0
    BY <1>1, <1>6, EmptySeq
  <2>2. chains[1].count \in Counts
    BY <1>1, <2>1 DEF Counts
  <2>3. Retained \in Counts /\ \A n \in Counts : Retained <= n
    BY <1>4, <1>6, <2>2, LeastCount DEF Retained
  <2>4. \E c \in 1..Len(chains) : Retained = chains[c].count
    BY <1>1, <2>3 DEF Counts
  <2>5. \A c \in 1..Len(chains) : Retained <= chains[c].count
    BY <1>1, <2>3 DEF Counts
  <2>6. Retained \in 1..Draws
    BY <1>4, <2>3
  <2> QED
    BY <2>1, <2>4, <2>5, <2>6, Numbers
<1> QED
  BY <1>5, <1>6

-----------------------------------------------------------------------------
(***************************************************************************)
(* Every step keeps the invariant                                          *)
(***************************************************************************)

\* A call starts from states of an earlier result that have mass under the
\* new model, or from none.
LEMMA SolveInv ==
  ASSUME SamplerInv, NEW t \in Targets, NEW g \in Givens, NEW hinted \in {FALSE, result # None},
         Solve(t, g, hinted)
  PROVE  SamplerInv'
<1>1. /\ target' = t /\ chain' = 1 /\ chains' = <<>> /\ status' = "complete"
      /\ count' = 0 /\ rows' = <<>> /\ start' = start
      /\ warm' = IF hinted THEN WarmStates(t) ELSE <<>>
      /\ result' = IF hinted THEN result ELSE None
  BY DEF Solve
<1>2. (pc' = "idle" /\ outcome' = "invalid") \/ (pc' = "chain" /\ outcome' = "none")
  BY DEF Solve, Raise
<1>3. \A c \in DOMAIN warm' : warm'[c] \in t.support
  <2>1. CASE warm' = <<>>
    BY <2>1
  <2>2. CASE warm' = WarmStates(t)
    <3> DEFINE D == {c \in 1..(Chains - 1) : c <= Len(result.chains) /\ FinalStates[c] \in t.support}
    <3>1. CASE ~ Compatible(t)
      BY <2>1, <2>2, <3>1 DEF WarmStates
    <3>2. CASE Compatible(t)
      <4>1. warm' = [c \in D |-> FinalStates[c]]
        BY <2>2, <3>2 DEF WarmStates
      <4> QED
        BY <4>1
    <3> QED
      BY <3>1, <3>2
  <2> QED
    BY <1>1, <2>1, <2>2
<1>4. chains' \in Seq(ChainRecs) /\ Len(chains') = 0
  BY <1>1, EmptySeq
<1>5. pc' = "chain" => CallInv'
  BY <1>1, <1>2, <1>3, <1>4, Numbers DEF CallInv, ChainInv, ChainsInv, Working, Sweeping
<1>6. RowsAreDraws' /\ HonestStatus'
  BY <1>1 DEF SamplerInv, DrawsAreHonest, RowsAreDraws, HonestStatus
<1>7. StopKeepsDraws' /\ WarmNeverRefused'
  BY <1>2 DEF StopKeepsDraws, WarmNeverRefused
<1> QED
  BY <1>1, <1>2, <1>5, <1>6, <1>7 DEF SamplerInv, DrawsAreHonest, ChainOnTarget, Sweeping, Working

\* Nothing is reported that was not: the outcome is none, or some failure.
LEMMA SameReports ==
  ASSUME SamplerInv, UNCHANGED result, outcome' \in {"none", "invalid", "numerical", "inadmissible"},
         outcome' = "inadmissible" => start' # "warm"
  PROVE  DrawsAreHonest'
BY DEF SamplerInv, DrawsAreHonest, RowsAreDraws, HonestStatus, StopKeepsDraws, WarmNeverRefused

\* A chain stands at a state with mass, or the call is refused; it is not for
\* a state of a warm start.
LEMMA StandInv ==
  ASSUME SamplerInv, pc \in {"chain", "initialize"}, NEW s, NEW how \in Starts, StandAt(s, how),
         how = "warm" => s \in target.support,
         UNCHANGED <<callVars, count, result>>
  PROVE  SamplerInv'
<1>1. /\ start' = how /\ state' = s /\ posterior' = Evaluated(s) /\ sweep' = 0
      /\ UNCHANGED <<target, given, warm, chain, chains, status, count, result>>
  BY DEF StandAt, callVars
<1>2. CallInv /\ outcome = "none" /\ count = 0 /\ status = "complete"
  BY DEF SamplerInv, CallInv, ChainInv, Working
<1>3. CASE Evaluated(s) = None
  <2>1. pc' = "idle" /\ outcome' = "inadmissible"
    BY <1>3 DEF StandAt, Raise
  <2>2. how # "warm"
    BY <1>2, <1>3, Numbers DEF Evaluated, CallInv
  <2>3. DrawsAreHonest'
    BY <1>1, <2>1, <2>2, SameReports
  <2> QED
    BY <1>1, <2>1, <2>3 DEF SamplerInv, ChainOnTarget, Sweeping, Working
<1>4. CASE Evaluated(s) # None
  <2>1. pc' = "sweep" /\ outcome' = "none" /\ rows' = [i \in 1..Draws |-> Garbage]
    BY <1>2, <1>4 DEF StandAt
  <2>2. s \in target.support /\ Evaluated(s) = s
    BY <1>4 DEF Evaluated
  <2>3. rows' \in [1..Draws -> RowRecs]
    BY <2>1 DEF Garbage, RowRecs
  <2>4. ChainInv'
    <3>1. 0 \in 0..(Warmup + Draws) /\ 0 <= Warmup /\ 0 \in 0..Draws
      BY Numbers
    <3> QED
      BY <1>1, <1>2, <2>1, <2>3, <3>1 DEF ChainInv, Sweeping
  <2>5. ChainsInv'
    BY <1>1, <1>2, <2>1 DEF CallInv, ChainsInv, Working
  <2>6. CallInv'
    BY <1>1, <1>2, <2>4, <2>5 DEF CallInv
  <2>7. DrawsAreHonest'
    BY <1>1, <2>1, SameReports
  <2> QED
    BY <1>1, <2>1, <2>2, <2>6, <2>7 DEF SamplerInv, ChainOnTarget, Working
<1> QED
  BY <1>3, <1>4

\* A call ends without a result.
LEMMA FailInv ==
  ASSUME SamplerInv, NEW what \in {"invalid", "numerical"}, Raise(what), UNCHANGED <<start, result>>
  PROVE  SamplerInv'
<1>1. pc' = "idle" /\ outcome' = what
  BY DEF Raise
<1>2. DrawsAreHonest'
  BY <1>1, SameReports
<1> QED
  BY <1>1, <1>2 DEF SamplerInv, ChainOnTarget, Sweeping, Working

\* A chain is initialized.
LEMMA InitializeInv ==
  ASSUME SamplerInv, StartChain \/ \E s \in States : Initialize(s)
  PROVE  SamplerInv'
<1>1. CASE StartChain
  <2>1. pc = "chain" /\ UNCHANGED <<callVars, count, result>>
    BY <1>1 DEF StartChain
  <2>2. CASE chain \in DOMAIN warm
    <3>1. warm[chain] \in target.support
      BY <2>1, <2>2 DEF SamplerInv, CallInv
    <3>2. StandAt(warm[chain], "warm")
      BY <1>1, <2>2 DEF StartChain
    <3> QED
      BY <2>1, <3>1, <3>2, StandInv DEF Starts
  <2>3. CASE chain \notin DOMAIN warm /\ given # <<>>
    <3>1. \/ Raise("invalid") /\ UNCHANGED start
          \/ StandAt(given[chain], "given")
      BY <1>1, <2>3 DEF StartChain
    <3> QED
      BY <2>1, <3>1, StandInv, FailInv DEF Starts
  <2>4. CASE chain \notin DOMAIN warm /\ given = <<>>
    <3>1. /\ pc' = "initialize" /\ start' = "fresh"
          /\ UNCHANGED <<target, warm, chain, chains, status, count, result, state, posterior, sweep, rows, outcome>>
      BY <1>1, <2>4 DEF StartChain, callVars
    <3>2. CallInv /\ outcome = "none"
      BY <2>1 DEF SamplerInv
    <3>3. ChainInv'
      BY <2>1, <3>1, <3>2 DEF CallInv, ChainInv, Sweeping
    <3>4. CallInv'
      BY <2>1, <3>1, <3>2, <3>3 DEF CallInv, ChainsInv, Working
    <3>5. DrawsAreHonest'
      BY <3>1, <3>2, SameReports
    <3> QED
      BY <3>1, <3>2, <3>4, <3>5 DEF SamplerInv, ChainOnTarget, Sweeping, Working, Starts
  <2> QED
    BY <2>2, <2>3, <2>4
<1>2. ASSUME NEW s \in States, Initialize(s)
      PROVE  SamplerInv'
  <2>1. pc = "initialize" /\ UNCHANGED <<callVars, count, result>>
    BY <1>2 DEF Initialize
  <2>2. CASE StandAt(s, "fresh")
    BY <2>1, <2>2, StandInv DEF Starts
  <2>3. CASE UNCHANGED <<pc, start, state, posterior, sweep, rows, outcome>>
    BY <2>1, <2>3 DEF callVars, SamplerInv, CallInv, ChainInv, ChainsInv, Working, Sweeping, Unfinished,
                      ChainOnTarget, DrawsAreHonest, RowsAreDraws, HonestStatus, StopKeepsDraws, WarmNeverRefused
  <2> QED
    BY <1>2, <2>2, <2>3 DEF Initialize
<1> QED
  BY <1>1, <1>2

\* A sweep goes on, at a state with mass.
LEMMA SweepInv ==
  ASSUME SamplerInv, pc \in {"sweep", "block"}, pc' \in {"block", "record"}, Unfinished,
         UNCHANGED <<callVars, start, sweep, rows, count, outcome, result>>,
         state' \in target.support, posterior' = state'
  PROVE  SamplerInv'
<1>1. UNCHANGED <<target, given, warm, chain, chains, status>>
  BY DEF callVars
<1>2. CallInv /\ outcome = "none" /\ status = "complete"
  BY DEF SamplerInv, CallInv, Working
<1>3. ChainInv'
  BY <1>1, <1>2 DEF CallInv, ChainInv, Sweeping, Unfinished
<1>4. CallInv'
  BY <1>1, <1>2, <1>3 DEF CallInv, ChainsInv, Working
<1>5. DrawsAreHonest'
  BY <1>2, SameReports
<1> QED
  BY <1>1, <1>2, <1>4, <1>5 DEF SamplerInv, ChainOnTarget, Working

LEMMA BlockInv ==
  ASSUME SamplerInv, BeginSweep \/ Skip \/ \E s \in States : Gibbs(s) \/ Accept(s) \/ Reject(s)
  PROVE  SamplerInv'
<1>1. CASE BeginSweep
  <2>1. /\ pc = "sweep" /\ pc' = "block" /\ Unfinished
        /\ UNCHANGED <<callVars, start, sweep, rows, count, outcome, result, state, posterior>>
    BY <1>1 DEF BeginSweep
  <2>2. state \in target.support /\ posterior = state
    BY <2>1 DEF SamplerInv, ChainOnTarget, Sweeping
  <2> QED
    BY <2>1, <2>2, SweepInv
<1>2. CASE Skip \/ \E s \in States : Gibbs(s) \/ Accept(s) \/ Reject(s)
  <2>1. /\ pc = "block" /\ pc' \in {"block", "record"}
        /\ UNCHANGED <<callVars, start, sweep, rows, count, outcome, result>>
    BY <1>2 DEF Skip, Gibbs, Accept, Reject, AtBlock, Proposes, NextBlock
  <2>2. Unfinished /\ state \in target.support /\ posterior = state
    BY <2>1 DEF SamplerInv, CallInv, ChainInv, ChainOnTarget, Sweeping
  <2>3. state' \in target.support /\ posterior' = state'
    BY <1>2, <2>2 DEF Skip, Gibbs, Accept, Accepts, Move, Reject, Evaluated
  <2> QED
    BY <2>1, <2>2, <2>3, SweepInv
<1> QED
  BY <1>1, <1>2

\* A row is written in its place, or not at all.
LEMMA RecordInv ==
  ASSUME SamplerInv, Record
  PROVE  SamplerInv'
<1>1. /\ pc = "record" /\ pc' = "sweep" /\ sweep' = sweep + 1
      /\ UNCHANGED <<target, given, warm, chain, chains, status, start, state, posterior, outcome, result>>
  BY DEF Record, callVars
<1>2. /\ CallInv /\ outcome = "none" /\ status = "complete" /\ Unfinished
      /\ state \in target.support /\ posterior = state
      /\ rows \in [1..Draws -> RowRecs]
      /\ count \in 0..Draws /\ count = IF sweep <= Warmup THEN 0 ELSE sweep - Warmup
      /\ sweep \in 0..(Warmup + Draws)
      /\ \A i \in 1..count : DrawnAs(rows[i], i, target)
  BY <1>1 DEF SamplerInv, CallInv, ChainInv, ChainOnTarget, Sweeping, Working
<1>3. Draws \in Nat /\ Warmup \in Nat /\ sweep \in Nat /\ sweep < Warmup + Draws
  BY <1>2, Numbers DEF Unfinished
<1>4. ChainInv'
  <2>1. CASE Retains
    <3> DEFINE row == [sweep |-> sweep, state |-> posterior]
    <3>1. rows' = [rows EXCEPT ![count + 1] = row] /\ count' = count + 1
      BY <2>1 DEF Record
    <3>2. count = sweep - Warmup /\ sweep >= Warmup
      BY <1>2, <1>3, <2>1 DEF Retains
    <3>3. count + 1 \in 1..Draws
      BY <1>3, <3>2
    <3>4. row \in RowRecs
      <4>1. posterior \in States
        BY <1>2, Numbers DEF CallInv
      <4> QED
        BY <1>3, <4>1 DEF RowRecs
    <3>5. DrawnAs(row, count + 1, target)
      BY <1>2, <1>3, <3>2 DEF DrawnAs
    <3> HIDE DEF row
    <3>6. /\ rows' \in [1..Draws -> RowRecs]
          /\ rows'[count + 1] = row
          /\ \A i \in 1..count : rows'[i] = rows[i]
      BY <1>2, <1>3, <3>1, <3>3, <3>4
    <3>7. ASSUME NEW i \in 1..count'
          PROVE  DrawnAs(rows'[i], i, target)
      BY <1>2, <1>3, <3>1, <3>5, <3>6
    <3>8. /\ sweep' \in 0..(Warmup + Draws) /\ count' \in 0..Draws
          /\ count' = IF sweep' <= Warmup THEN 0 ELSE sweep' - Warmup
      BY <1>1, <1>3, <3>1, <3>2, <3>3
    <3> QED
      BY <1>1, <3>6, <3>7, <3>8 DEF ChainInv, DrawnAs
  <2>2. CASE ~ Retains
    <3>1. UNCHANGED <<rows, count>>
      BY <2>2 DEF Record
    <3>2. /\ sweep' \in 0..(Warmup + Draws) /\ sweep' <= Warmup /\ count = 0
      BY <1>1, <1>2, <1>3, <2>2 DEF Retains
    <3> QED
      BY <1>1, <1>2, <3>1, <3>2 DEF ChainInv
  <2> QED
    BY <2>1, <2>2
<1>5. CallInv'
  BY <1>1, <1>2, <1>4 DEF CallInv, ChainsInv, Working
<1>6. DrawsAreHonest'
  BY <1>1, <1>2, SameReports
<1> QED
  BY <1>1, <1>2, <1>5, <1>6 DEF SamplerInv, ChainOnTarget, Working

\* A chain that is stopped has not all its draws, one that is done has.
LEMMA EndChainInv ==
  ASSUME SamplerInv, Stop \/ Overrun \/ SweepsDone
  PROVE  SamplerInv'
<1>1. /\ pc \in {"chain", "initialize", "sweep", "block"} /\ pc' = "closing"
      /\ UNCHANGED <<target, given, warm, chain, chains, start, count, rows, sweep, state, posterior, outcome, result>>
  BY DEF Stop, Overrun, SweepsDone, EndChain, chainVars
<1>2. /\ CallInv /\ outcome = "none" /\ status = "complete"
      /\ count \in 0..Draws
      /\ pc \in {"chain", "initialize"} => count = 0
      /\ pc \in {"sweep", "block"} => sweep \in 0..(Warmup + Draws) /\ count = IF sweep <= Warmup THEN 0 ELSE sweep - Warmup
      /\ pc = "block" => Unfinished
  BY <1>1 DEF SamplerInv, CallInv, ChainInv, Sweeping, Working
<1>3. status' = "complete" <=> count = Draws
  <2>1. CASE Stop \/ Overrun
    <3>1. status' # "complete"
      BY <2>1 DEF Stop, Overrun, EndChain
    <3>2. pc \in {"sweep", "block"} => Unfinished
      BY <1>2, <2>1 DEF Stop, Overrun
    <3>3. count # Draws
      BY <1>1, <1>2, <3>2, Numbers DEF Unfinished
    <3> QED
      BY <3>1, <3>3
  <2>2. CASE SweepsDone
    <3>1. pc = "sweep" /\ ~ Unfinished /\ status' = status
      BY <2>2 DEF SweepsDone, EndChain
    <3>2. sweep = Warmup + Draws
      BY <1>2, <3>1, Numbers DEF Unfinished
    <3>3. count = Draws
      BY <1>2, <3>1, <3>2, Numbers
    <3> QED
      BY <1>2, <3>1, <3>3
  <2> QED
    BY <2>1, <2>2
<1>4. ChainInv'
  BY <1>1, <1>2, <1>3 DEF CallInv, ChainInv, Sweeping
<1>5. CallInv'
  BY <1>1, <1>2, <1>4 DEF CallInv, ChainsInv, Working
<1>6. DrawsAreHonest'
  BY <1>1, <1>2, SameReports
<1> QED
  BY <1>1, <1>5, <1>6 DEF SamplerInv, ChainOnTarget, Sweeping, Working

\* The chains kept are those with draws; only the last may lack some.
LEMMA CloseInv ==
  ASSUME SamplerInv, CloseChain
  PROVE  SamplerInv'
<1>1. /\ pc = "closing"
      /\ UNCHANGED <<target, given, warm, status, start, sweep, state, posterior, outcome, result>>
  BY DEF CloseChain
<1>2. /\ CallInv /\ outcome = "none"
      /\ count \in 0..Draws /\ \A i \in 1..count : DrawnAs(rows[i], i, target)
      /\ count > 0 => rows \in [1..Draws -> RowRecs]
      /\ status = "complete" <=> count = Draws
      /\ chain \in 1..Chains
      /\ chains \in Seq(ChainRecs) /\ Len(chains) = chain - 1
      /\ \A c \in 1..Len(chains) : \A i \in 1..chains[c].count : DrawnAs(chains[c].rows[i], i, target)
      /\ \A c \in 1..Len(chains) : chains[c].count = Draws
  BY <1>1 DEF SamplerInv, CallInv, ChainInv, ChainsInv
<1>3. CASE Drops
  <2>1. /\ chains' = chains /\ pc' = "ending" /\ UNCHANGED <<chain, count, rows>>
        /\ count = 0 /\ status # "complete"
    BY <1>3 DEF CloseChain, Drops
  <2>2. ChainInv'
    BY <1>1, <1>2, <2>1, Numbers DEF ChainInv, Sweeping
  <2>3. ChainsInv'
    BY <1>1, <1>2, <2>1 DEF ChainsInv, Working
  <2>4. CallInv'
    BY <1>1, <1>2, <2>1, <2>2, <2>3 DEF CallInv, Working
  <2>5. DrawsAreHonest'
    BY <1>1, <1>2, SameReports
  <2> QED
    BY <1>1, <1>2, <2>1, <2>4, <2>5 DEF SamplerInv, ChainOnTarget, Sweeping, Working
<1>4. CASE ~ Drops
  <2> DEFINE new == [start |-> start, rows |-> rows, count |-> count]
  <2>1. chains' = Append(chains, new)
    BY <1>4 DEF CloseChain
  <2>2. count \in 1..Draws
    BY <1>2, <1>4, Numbers DEF Drops
  <2>3. new \in ChainRecs /\ new.count = count /\ new.rows = rows
    BY <1>2, <2>2 DEF ChainRecs, SamplerInv
  <2> HIDE DEF new
  <2>4. Len(chains) \in Nat
    BY <1>2, LenProperties
  <2>5. /\ chains' \in Seq(ChainRecs) /\ Len(chains') = Len(chains) + 1
        /\ \A c \in 1..Len(chains) : chains'[c] = chains[c]
        /\ chains'[Len(chains) + 1] = new
    BY <1>2, <2>1, <2>3, <2>4, AppendProperties
  <2>6. Len(chains') = chain /\ chains'[chain] = new
    BY <1>2, <2>4, <2>5
  <2>7. ASSUME NEW c \in 1..Len(chains')
        PROVE  \/ c \in 1..Len(chains) /\ chains'[c] = chains[c]
               \/ c = chain /\ chains'[c] = new
    BY <1>2, <2>4, <2>5, <2>6
  <2>8. \A c \in 1..Len(chains') : \A i \in 1..chains'[c].count : DrawnAs(chains'[c].rows[i], i, target)
    BY <1>2, <2>3, <2>7
  <2>9. DrawsAreHonest'
    BY <1>1, <1>2, SameReports
  <2>10. CASE status # "complete"
    <3>1. pc' = "ending" /\ UNCHANGED <<chain, count, rows>> /\ count # Draws
      BY <1>2, <2>10 DEF CloseChain
    <3>2. count < Draws
      BY <1>2, <3>1, Numbers
    <3>3. ChainInv'
      BY <1>1, <1>2, <3>1 DEF ChainInv, Sweeping
    <3>4. ChainsInv'
      BY <1>1, <2>3, <2>5, <2>6, <2>8, <2>10, <3>1, <3>2 DEF ChainsInv, Working, DrawnAs
    <3>5. CallInv'
      BY <1>1, <1>2, <3>1, <3>3, <3>4 DEF CallInv, Working
    <3> QED
      BY <1>1, <1>2, <2>9, <3>1, <3>5 DEF SamplerInv, ChainOnTarget, Sweeping, Working
  <2>11. CASE status = "complete"
    <3>1. \A c \in 1..Len(chains') : chains'[c].count = Draws
      BY <1>2, <2>3, <2>7, <2>11
    <3>2. CASE chain = Chains
      <4>1. pc' = "ending" /\ UNCHANGED <<chain, count, rows>>
        BY <2>11, <3>2 DEF CloseChain
      <4>2. ChainInv'
        BY <1>1, <1>2, <4>1 DEF ChainInv, Sweeping
      <4>3. ChainsInv'
        BY <1>1, <2>5, <2>6, <2>8, <2>11, <3>1, <3>2, <4>1 DEF ChainsInv, Working, DrawnAs
      <4>4. CallInv'
        BY <1>1, <1>2, <4>1, <4>2, <4>3 DEF CallInv, Working
      <4> QED
        BY <1>1, <1>2, <2>9, <4>1, <4>4 DEF SamplerInv, ChainOnTarget, Sweeping, Working
    <3>3. CASE chain # Chains
      <4>1. pc' = "chain" /\ chain' = chain + 1 /\ count' = 0 /\ rows' = <<>>
        BY <2>11, <3>3 DEF CloseChain
      <4>2. chain' \in 1..Chains /\ Len(chains') = chain' - 1
        BY <1>2, <2>6, <3>3, <4>1, Numbers
      <4>3. ChainInv'
        BY <4>1, Numbers DEF ChainInv, Sweeping
      <4>4. ChainsInv'
        BY <1>1, <2>5, <2>8, <3>1, <4>1, <4>2 DEF ChainsInv, Working, DrawnAs
      <4>5. CallInv'
        BY <1>1, <1>2, <2>11, <4>1, <4>2, <4>3, <4>4 DEF CallInv, Working
      <4> QED
        BY <1>1, <1>2, <2>9, <4>1, <4>5 DEF SamplerInv, ChainOnTarget, Sweeping, Working
    <3> QED
      BY <3>2, <3>3
  <2> QED
    BY <2>10, <2>11
<1> QED
  BY <1>3, <1>4

\* A result has rows that were drawn, and is complete if none is missing.
LEMMA ReturnInv ==
  ASSUME SamplerInv, Return
  PROVE  SamplerInv'
<1>1. /\ pc = "ending" /\ pc' = "idle"
      /\ UNCHANGED <<target, warm, chain, chains, status, start, count, rows, state, posterior>>
  BY DEF Return, Raise, callVars, chainVars
<1>2. CallInv /\ ChainsInv /\ chain \in 1..Chains
  BY <1>1 DEF SamplerInv, CallInv
<1>3. /\ chains \in Seq(ChainRecs) /\ Len(chains) \in Nat /\ DOMAIN chains = 1..Len(chains)
      /\ IF status = "complete"
         THEN Len(chains) = Chains /\ \A c \in 1..Len(chains) : chains[c].count = Draws
         ELSE \/ Len(chains) = chain - 1 /\ count = 0
              \/ Len(chains) = chain /\ chains[chain].count < Draws
  BY <1>1, <1>2, LenProperties DEF ChainsInv
<1>7. \A c \in 1..Len(chains) : chains[c].count \in 1..Draws /\ chains[c].rows \in [1..Draws -> RowRecs]
  <2>1. \A c \in 1..Len(chains) : chains[c] \in ChainRecs
    BY <1>3, ElementOfSeq
  <2> QED
    BY <2>1 DEF ChainRecs
<1>4. /\ Retained = 0 <=> Len(chains) = 0
      /\ Retained \in 0..Draws
      /\ \A c \in 1..Len(chains) : Retained <= chains[c].count
      /\ Len(chains) # 0 => \E c \in 1..Len(chains) : Retained = chains[c].count
  BY <1>2, RetainedIsCommon
<1>5. CASE Retained = 0
  <2>1. result' = result /\ outcome' \in {"budget", "stopped"}
    BY <1>5 DEF Return, Raise
  <2>2. Len(chains) = 0 /\ chains = <<>>
    BY <1>3, <1>4, <1>5, EmptySeq
  <2>3. count = 0
    <3>1. 0 # Chains /\ (Len(chains) # chain)
      BY <1>2, <2>2, Numbers
    <3> QED
      BY <1>3, <2>2, <3>1
  <2>4. StopKeepsDraws'
    BY <1>1, <1>3, <2>2, <2>3 DEF StopKeepsDraws
  <2>5. RowsAreDraws' /\ HonestStatus' /\ WarmNeverRefused'
    BY <2>1 DEF SamplerInv, DrawsAreHonest, RowsAreDraws, HonestStatus, WarmNeverRefused
  <2> QED
    BY <1>1, <2>4, <2>5 DEF SamplerInv, DrawsAreHonest, ChainOnTarget, Sweeping, Working
<1>6. CASE Retained # 0
  <2> DEFINE cut(c) == [start |-> chains[c].start, rows |-> SubSeq(chains[c].rows, 1, Retained)]
             all == [c \in DOMAIN chains |-> cut(c)]
  <2>1. /\ outcome' = "returned"
        /\ result'.target = target /\ result'.retained = Retained /\ result'.status = status
        /\ result'.chains = all
    BY <1>6 DEF Return, Raise, Reported
  <2>2. Retained \in Nat /\ Retained >= 1 /\ Retained <= Draws
    BY <1>4, <1>6, Numbers
  <2>3. ASSUME NEW c \in 1..Len(chains), NEW i \in 1..Retained
        PROVE  cut(c).rows[i] = chains[c].rows[i]
    <3> DEFINE rs == chains[c].rows
    <3>1. rs \in [1..Draws -> RowRecs]
      BY <1>7
    <3> HIDE DEF rs
    <3>2. \A j \in 1..Retained : rs[j] \in RowRecs
      BY <2>2, <3>1, Numbers
    <3>3. \A j \in 1..(Retained - 1 + 1) : SubSeq(rs, 1, Retained)[j] = rs[1 + j - 1]
      BY <2>2, <3>2, SubSeqProperties
    <3>4. SubSeq(rs, 1, Retained)[i] = rs[i]
      BY <2>2, <3>3
    <3> QED
      BY <3>4 DEF rs
  <2>4. RowsAreDraws'
    <3> SUFFICES ASSUME NEW c \in DOMAIN all, NEW i \in 1..Retained
                 PROVE  DrawnAs(all[c].rows[i], i, target)
      BY <2>1 DEF RowsAreDraws, DrawnAs
    <3>1. c \in 1..Len(chains) /\ all[c] = cut(c)
      BY <1>3
    <3>2. chains[c].count \in Nat /\ i \in 1..chains[c].count
      <4>1. chains[c].count \in 1..Draws
        BY <1>7, <3>1
      <4> QED
        BY <1>4, <2>2, <3>1, <4>1, Numbers
    <3>3. DrawnAs(chains[c].rows[i], i, target)
      BY <1>2, <3>1, <3>2 DEF ChainsInv
    <3>4. all[c].rows[i] = chains[c].rows[i]
      BY <2>3, <3>1
    <3> QED
      BY <3>3, <3>4
  <2>5. Len(all) = Len(chains)
    <3> DEFINE S == {cut(c) : c \in 1..Len(chains)}
    <3>1. all \in [1..Len(chains) -> S]
      BY <1>3
    <3>2. all \in Seq(S)
      <4> HIDE DEF all, S
      <4> QED
        BY <1>3, <3>1, SeqDef
    <3>3. 1..Len(all) = 1..Len(chains) /\ Len(all) \in Nat
      <4> HIDE DEF S
      <4>1. DOMAIN all = 1..Len(chains)
        BY <1>3
      <4> HIDE DEF all
      <4> QED
        BY <3>2, <4>1, LenProperties
    <3> HIDE DEF all, S
    <3> QED
      BY <1>3, <3>3
  <2>6. status = "complete" <=> Len(chains) = Chains /\ Retained = Draws
    <3>1. CASE status = "complete"
      <4>1. Len(chains) = Chains /\ Len(chains) # 0
        BY <1>3, <3>1, Numbers
      <4> QED
        BY <1>3, <1>4, <3>1, <4>1
    <3>2. CASE status # "complete"
      <4>1. CASE Len(chains) = chain - 1
        BY <1>2, <1>3, <3>2, <4>1, Numbers
      <4>2. CASE Len(chains) = chain /\ chains[chain].count < Draws
        <5>1. Retained <= chains[chain].count /\ chains[chain].count \in Nat
          <6>1. chain \in 1..Len(chains)
            BY <1>2, <4>2, Numbers
          <6>2. chains[chain].count \in 1..Draws
            BY <1>7, <6>1
          <6> QED
            BY <1>4, <6>1, <6>2, Numbers
        <5> QED
          BY <2>2, <3>2, <4>2, <5>1, Numbers
      <4> QED
        BY <1>3, <3>2, <4>1, <4>2
    <3> QED
      BY <3>1, <3>2
  <2>7. HonestStatus'
    BY <2>1, <2>5, <2>6 DEF HonestStatus
  <2>8. StopKeepsDraws' /\ WarmNeverRefused'
    BY <2>1 DEF StopKeepsDraws, WarmNeverRefused
  <2> QED
    BY <1>1, <2>4, <2>7, <2>8 DEF SamplerInv, DrawsAreHonest, ChainOnTarget, Sweeping, Working
<1> QED
  BY <1>5, <1>6

LEMMA SamplerStep == SamplerInv /\ [Next]_vars => SamplerInv'
<1> SUFFICES ASSUME SamplerInv, [Next]_vars
             PROVE  SamplerInv'
  OBVIOUS
<1>1. CASE \E t \in Targets, g \in Givens, hinted \in {FALSE, result # None} : Solve(t, g, hinted)
  BY <1>1, SolveInv
<1>2. CASE StartChain \/ \E s \in States : Initialize(s)
  BY <1>2, InitializeInv
<1>3. CASE BeginSweep \/ Skip \/ \E s \in States : Gibbs(s) \/ Accept(s) \/ Reject(s)
  BY <1>3, BlockInv
<1>4. CASE BadProposal \/ Failure
  BY <1>4, FailInv DEF BadProposal, Failure, chainVars
<1>5. CASE Record
  BY <1>5, RecordInv
<1>6. CASE Stop \/ Overrun \/ SweepsDone
  BY <1>6, EndChainInv
<1>7. CASE CloseChain
  BY <1>7, CloseInv
<1>8. CASE Return
  BY <1>8, ReturnInv
<1>9. CASE UNCHANGED vars
  BY <1>9 DEF vars, callVars, chainVars, SamplerInv, CallInv, ChainInv, ChainsInv, Working, Sweeping, Unfinished,
              ChainOnTarget, DrawsAreHonest, RowsAreDraws, HonestStatus, StopKeepsDraws, WarmNeverRefused
<1> QED
  BY <1>1, <1>2, <1>3, <1>4, <1>5, <1>6, <1>7, <1>8, <1>9 DEF Next, Step

LEMMA SamplerInit == Init => SamplerInv
BY DEF Init, SamplerInv, Working, Starts, ChainOnTarget, Sweeping, DrawsAreHonest, RowsAreDraws, HonestStatus,
       StopKeepsDraws, WarmNeverRefused

\* A chain stays where the target has mass, and the posterior that histories
\* are drawn from is the one evaluated where it stands, however many blocks
\* there are and however they are updated.
THEOREM SamplerChainOnTarget == Spec => []ChainOnTarget
<1>1. SamplerInv => ChainOnTarget
  BY DEF SamplerInv
<1> QED
  BY <1>1, SamplerInit, SamplerStep, PTL DEF Spec

\* A result holds draws and says how many: for all numbers of chains, draws
\* and calls, stops at any checkpoint and warm starts from any earlier result.
THEOREM SamplerDrawsAreHonest == Spec => []DrawsAreHonest
<1>1. SamplerInv => DrawsAreHonest
  BY DEF SamplerInv
<1> QED
  BY <1>1, SamplerInit, SamplerStep, PTL DEF Spec

-----------------------------------------------------------------------------
(***************************************************************************)
(* Mixtures: the inductive invariant                                       *)
(***************************************************************************)
\* The states with mass that agree with what is given, and the combinations
\* of the rest, which are enumerated.
MassiveOf(m, g) ==
  {s \in StatesOf(m.domains) : FiniteWeight(m, s) > 0 /\ \A k \in DOMAIN g : s[k] = g[k]}

Rests(m, g) == StatesOf(FiniteLeft(m, g))

\* What is enumerated so far and what is left never meet, and until something
\* fails they make up all that has mass.
SoundMixture(x) ==
  /\ x = [model |-> x.model, given |-> x.given, reals |-> x.reals, left |-> x.left,
          components |-> x.components, stage |-> x.stage]
  /\ \A k \in DOMAIN x.given : k \in DOMAIN x.model.domains /\ x.given[k] \in x.model.domains[k]
  /\ x.left \subseteq Rests(x.model, x.given)
  /\ x.components \in Seq(MassiveOf(x.model, x.given))
  /\ IsInjective(x.components)
  /\ \A rest \in x.left : Joined(x.model, x.given, rest) \notin Range(x.components)
  /\ x.stage \in {"enumerating", "mixed"} =>
       \A s \in MassiveOf(x.model, x.given) :
         s \in Range(x.components) \/ \E rest \in x.left : s = Joined(x.model, x.given, rest)
  /\ x.stage = "mixed" => x.left = {}
  /\ x.stage = "failed" =>
       \E s \in MassiveOf(x.model, x.given) : ~ PositiveDefinite(x.model, s, x.reals)

\* Among the rows of its component.
Number(choices, r) == Cardinality({q \in DOMAIN choices : choices[q] = choices[r] /\ q <= r})

\* All rows of a component are filled together, each with a sample of its own.
SoundDraws(x, d) ==
  /\ x # Nowhere /\ x.stage = "mixed"
  /\ d = [scope |-> d.scope, choices |-> d.choices, rows |-> d.rows]
  /\ \E n \in 1..MaxDraws : d.choices \in [1..n -> DOMAIN x.components]
  /\ DOMAIN d.rows \subseteq DOMAIN d.choices
  /\ \A r \in DOMAIN d.rows, q \in DOMAIN d.choices : d.choices[q] = d.choices[r] => q \in DOMAIN d.rows
  /\ \A r \in DOMAIN d.rows :
       d.rows[r] = [state |-> Restrict(x.components[d.choices[r]], d.scope \ DOMAIN x.model.reals),
                    reals |-> [k \in d.scope \intersect x.reals |-> <<d.choices[r], Number(d.choices, r)>>]]

MixtureInv ==
  /\ mixture # Nowhere => SoundMixture(mixture)
  /\ draws # Nowhere => SoundDraws(mixture, draws)

MixtureSpec == MixtureInit /\ [][MixtureNext]_mixtureVars

-----------------------------------------------------------------------------
(***************************************************************************)
(* Mixtures: proofs                                                        *)
(***************************************************************************)
\* What is enumerated is, each once, the states that agree with what is given.
LEMMA JoinedStates ==
  ASSUME NEW m, NEW g, \A k \in DOMAIN g : k \in DOMAIN m.domains /\ g[k] \in m.domains[k]
  PROVE  /\ \A x \in Rests(m, g) :
              /\ Joined(m, g, x) \in StatesOf(m.domains)
              /\ \A k \in DOMAIN g : Joined(m, g, x)[k] = g[k]
         /\ \A x, y \in Rests(m, g) : Joined(m, g, x) = Joined(m, g, y) => x = y
         /\ \A s \in StatesOf(m.domains) :
              (\A k \in DOMAIN g : s[k] = g[k]) => \E x \in Rests(m, g) : s = Joined(m, g, x)
<1> DEFINE D == m.domains
           E == DOMAIN D \ DOMAIN g
           L == [k \in E |-> D[k]]
<1>1. FiniteLeft(m, g) = L
  BY DEF FiniteLeft, Restrict
<1>2. Rests(m, g) = {s \in [E -> UNION Range(L)] : \A k \in E : s[k] \in D[k]}
  BY <1>1 DEF Rests, StatesOf
<1>3. StatesOf(D) = {s \in [DOMAIN D -> UNION Range(D)] : \A k \in DOMAIN D : s[k] \in D[k]}
  BY DEF StatesOf
<1>4. /\ \A k \in DOMAIN D : D[k] \subseteq UNION Range(D)
      /\ \A k \in E : D[k] \subseteq UNION Range(L)
  BY DEF Range
<1>5. ASSUME NEW x \in Rests(m, g)
      PROVE  /\ Joined(m, g, x) \in StatesOf(D)
             /\ \A k \in DOMAIN g : Joined(m, g, x)[k] = g[k]
             /\ \A k \in E : Joined(m, g, x)[k] = x[k]
  <2>1. Joined(m, g, x) = [k \in DOMAIN D |-> IF k \in DOMAIN g THEN g[k] ELSE x[k]]
    BY DEF Joined
  <2>2. \A k \in E : x[k] \in D[k]
    BY <1>2
  <2> HIDE DEF D
  <2>3. \A k \in DOMAIN D : Joined(m, g, x)[k] \in D[k]
    BY <2>1, <2>2 DEF D
  <2>4. Joined(m, g, x) \in [DOMAIN D -> UNION Range(D)]
    BY <1>4, <2>1, <2>3
  <2>5. QED
    BY <1>3, <2>1, <2>3, <2>4 DEF D
<1>6. ASSUME NEW x \in Rests(m, g), NEW y \in Rests(m, g), Joined(m, g, x) = Joined(m, g, y)
      PROVE  x = y
  <2>1. \A k \in E : x[k] = y[k]
    BY <1>5, <1>6
  <2>2. QED
    BY <1>2, <2>1
<1>7. ASSUME NEW s \in StatesOf(D), \A k \in DOMAIN g : s[k] = g[k]
      PROVE  \E x \in Rests(m, g) : s = Joined(m, g, x)
  <2> DEFINE x == [k \in E |-> s[k]]
  <2>1. s \in [DOMAIN D -> UNION Range(D)] /\ \A k \in DOMAIN D : s[k] \in D[k]
    BY <1>3
  <2>2. x \in Rests(m, g)
    BY <1>2, <1>4, <2>1
  <2>3. s = Joined(m, g, x)
    BY <1>7, <2>1 DEF Joined
  <2>4. QED
    BY <2>2, <2>3
<1>8. QED
  BY <1>5, <1>6, <1>7

\* One more element of a sequence.
LEMMA Appended ==
  ASSUME NEW S, NEW c \in Seq(S), NEW e \in S
  PROVE  /\ Append(c, e) \in Seq(S)
         /\ Range(Append(c, e)) = Range(c) \union {e}
         /\ IsInjective(c) /\ e \notin Range(c) => IsInjective(Append(c, e))
<1>1. /\ Len(c) \in Nat /\ DOMAIN c = 1..Len(c)
      /\ Append(c, e) \in Seq(S) /\ Len(Append(c, e)) = Len(c) + 1
      /\ \A i \in 1..Len(c) : Append(c, e)[i] = c[i]
      /\ Append(c, e)[Len(c) + 1] = e
  BY AppendProperties, LenProperties
<1>2. DOMAIN Append(c, e) = 1..(Len(c) + 1)
  BY <1>1, LenProperties
<1>3. \A i \in 1..(Len(c) + 1) : i \in 1..Len(c) \/ i = Len(c) + 1
  BY <1>1
<1>4. 1..Len(c) \subseteq 1..(Len(c) + 1) /\ Len(c) + 1 \in 1..(Len(c) + 1)
  BY <1>1
<1> DEFINE d == Append(c, e)
<1> HIDE DEF d
<1>5. Range(d) = Range(c) \union {e}
  BY <1>1, <1>2, <1>3, <1>4 DEF Range, d
<1>6. IsInjective(c) /\ e \notin Range(c) => IsInjective(d)
  BY <1>1, <1>2, <1>3 DEF Range, IsInjective, d
<1>7. QED
  BY <1>1, <1>5, <1>6 DEF d

\* Nothing has been enumerated of a target that was just conditioned.
LEMMA NothingIsSound ==
  ASSUME NEW m, NEW g, NEW K, NEW stage \in {"enumerating", "refused"}, NEW x,
         \A k \in DOMAIN g : k \in DOMAIN m.domains /\ g[k] \in m.domains[k],
         x = [model |-> m, given |-> g, reals |-> K, left |-> Rests(m, g),
              components |-> <<>>, stage |-> stage]
  PROVE  SoundMixture(x)
<1>1. PICK c : c = <<>>
  OBVIOUS
<1>2. c \in Seq(MassiveOf(m, g)) /\ DOMAIN c = {}
  BY <1>1
<1>3. Range(c) = {} /\ IsInjective(c)
  BY <1>2 DEF Range, IsInjective
<1>4. \A s \in MassiveOf(m, g) : \E z \in Rests(m, g) : s = Joined(m, g, z)
  BY JoinedStates DEF MassiveOf
<1>5. /\ x.model = m /\ x.given = g /\ x.left = Rests(m, g) /\ x.components = c /\ x.stage = stage
      /\ x = [model |-> x.model, given |-> x.given, reals |-> x.reals, left |-> x.left,
              components |-> x.components, stage |-> x.stage]
  BY <1>1
<1>6. QED
  BY <1>2, <1>3, <1>4, <1>5 DEF SoundMixture

\* Conditioning, of the whole model or on a state of the sampler.
LEMMA ConditionInv ==
  ASSUME MixtureInv, NEW m \in Hybrids, NEW g, NEW r, Condition(m, g, r),
         \A k \in DOMAIN g : k \in DOMAIN m.domains /\ g[k] \in m.domains[k]
  PROVE  MixtureInv'
<1>1. mixture = Nowhere /\ draws' = draws /\ draws = Nowhere
  BY DEF Condition, MixtureInv, SoundDraws
<1>2. PICK K : K = DOMAIN m.reals \ r
  OBVIOUS
<1>3. \E stage \in {"enumerating", "refused"} :
        mixture' = [model |-> m, given |-> g, reals |-> K, left |-> Rests(m, g),
                    components |-> <<>>, stage |-> stage]
  <2>1. PICK x : x = Mixing(m, g, r)
    OBVIOUS
  <2>2. x = [model |-> m, given |-> g, reals |-> K, left |-> Rests(m, g),
             components |-> <<>>, stage |-> "enumerating"]
    BY <1>2, <2>1 DEF Mixing, Rests
  <2>3. mixture' = [x EXCEPT !.stage = "refused"] \/ mixture' = x
    BY <2>1 DEF Condition
  <2>4. QED
    BY <2>2, <2>3
<1>6. SoundMixture(mixture')
  BY <1>3, NothingIsSound
<1>7. QED
  BY <1>1, <1>6 DEF MixtureInv

\* A combination is left out only if it has no mass.
LEMMA EnumerateInv ==
  ASSUME MixtureInv, Enumerate
  PROVE  MixtureInv'
<1> DEFINE m    == mixture.model
           g    == mixture.given
           left == mixture.left
           done == mixture.components
           K    == mixture.reals
<1>1. /\ mixture # Nowhere /\ SoundMixture(mixture) /\ mixture.stage = "enumerating"
      /\ left # {} /\ draws' = draws /\ draws = Nowhere
  BY DEF Enumerate, MixtureInv, SoundDraws
<1>2. PICK z \in left :
        LET s == Joined(m, g, z)
        IN  IF Improper(m, s, K) THEN Stage("failed")
            ELSE mixture' = [mixture EXCEPT !.left = left \ {z},
                   !.components = IF FiniteWeight(m, s) > 0 THEN Append(done, s) ELSE done]
  BY <1>1 DEF Enumerate
<1>3. PICK s : s = Joined(m, g, z)
  OBVIOUS
<1>4. mixture = [model |-> m, given |-> g, reals |-> K, left |-> left,
                 components |-> done, stage |-> "enumerating"]
  BY <1>1 DEF SoundMixture
<1>5. /\ \A k \in DOMAIN g : k \in DOMAIN m.domains /\ g[k] \in m.domains[k]
      /\ left \subseteq Rests(m, g)
      /\ done \in Seq(MassiveOf(m, g)) /\ IsInjective(done)
      /\ \A x \in left : Joined(m, g, x) \notin Range(done)
      /\ \A t \in MassiveOf(m, g) : t \in Range(done) \/ \E x \in left : t = Joined(m, g, x)
  BY <1>1 DEF SoundMixture
<1>6. /\ s \in StatesOf(m.domains) /\ \A k \in DOMAIN g : s[k] = g[k]
      /\ \A x \in left \ {z} : Joined(m, g, x) # s
  BY <1>3, <1>5, JoinedStates
<1>7. CASE Improper(m, s, K)
  <2>1. mixture' = [model |-> m, given |-> g, reals |-> K, left |-> left,
                    components |-> done, stage |-> "failed"]
    BY <1>2, <1>3, <1>4, <1>7 DEF Stage
  <2>2. s \in MassiveOf(m, g) /\ ~ PositiveDefinite(m, s, K)
    BY <1>6, <1>7 DEF Improper, MassiveOf
  <2>3. SoundMixture(mixture')
    <3> HIDE DEF m, g, left, done, K
    <3>1. QED
      BY <1>5, <2>1, <2>2 DEF SoundMixture
  <2>4. QED
    BY <1>1, <2>3 DEF MixtureInv
<1>8. CASE ~ Improper(m, s, K)
  <2> DEFINE next == IF FiniteWeight(m, s) > 0 THEN Append(done, s) ELSE done
  <2>1. mixture' = [model |-> m, given |-> g, reals |-> K, left |-> left \ {z},
                    components |-> next, stage |-> "enumerating"]
    <3>1. /\ ~ Improper(m, Joined(m, g, z), K)
          /\ next = IF FiniteWeight(m, Joined(m, g, z)) > 0 THEN Append(done, Joined(m, g, z)) ELSE done
      BY <1>3, <1>8
    <3> HIDE DEF next
    <3>2. mixture' = [mixture EXCEPT !.left = left \ {z}, !.components = next]
      BY <1>2, <3>1
    <3> HIDE DEF m, g, left, done, K
    <3>3. QED
      BY <1>4, <3>2
  <2>2. s \in MassiveOf(m, g) <=> FiniteWeight(m, s) > 0
    BY <1>6 DEF MassiveOf
  <2>3. /\ next \in Seq(MassiveOf(m, g)) /\ IsInjective(next)
        /\ Range(next) \subseteq Range(done) \union {s}
        /\ Range(done) \subseteq Range(next)
        /\ FiniteWeight(m, s) > 0 => s \in Range(next)
    <3>1. CASE FiniteWeight(m, s) > 0
      <4>1. s \in MassiveOf(m, g) /\ s \notin Range(done)
        BY <1>3, <1>5, <2>2, <3>1
      <4>2. /\ Append(done, s) \in Seq(MassiveOf(m, g)) /\ IsInjective(Append(done, s))
            /\ Range(Append(done, s)) = Range(done) \union {s}
        BY <1>5, <4>1, Appended
      <4>3. QED
        BY <3>1, <4>2
    <3>2. CASE ~ (FiniteWeight(m, s) > 0)
      BY <1>5, <3>2
    <3>3. QED
      BY <3>1, <3>2
  <2> HIDE DEF next
  <2>4. \A x \in left \ {z} : Joined(m, g, x) \notin Range(next)
    BY <1>5, <1>6, <2>3
  <2>5. \A t \in MassiveOf(m, g) :
          t \in Range(next) \/ \E x \in left \ {z} : t = Joined(m, g, x)
    BY <1>3, <1>5, <2>2, <2>3
  <2>6. SoundMixture(mixture')
    <3> HIDE DEF m, g, left, done, K
    <3>1. QED
      BY <1>5, <2>1, <2>3, <2>4, <2>5 DEF SoundMixture
  <2>7. QED
    BY <1>1, <2>6 DEF MixtureInv
<1>9. QED
  BY <1>7, <1>8

\* A stage that promises nothing, or that nothing is left.
LEMMA StageKeeps ==
  ASSUME NEW x, SoundMixture(x), NEW stage, NEW y, y = [x EXCEPT !.stage = stage],
         \/ stage \in {"incompatible", "stopped"}
         \/ stage = "mixed" /\ x.stage = "enumerating" /\ x.left = {}
  PROVE  SoundMixture(y) /\ y.stage = stage
<1>1. PICK m, g, K, L, c, t :
        x = [model |-> m, given |-> g, reals |-> K, left |-> L, components |-> c, stage |-> t]
  BY DEF SoundMixture
<1>2. /\ x.model = m /\ x.given = g /\ x.reals = K /\ x.left = L /\ x.components = c /\ x.stage = t
  BY <1>1
<1>3. y = [model |-> m, given |-> g, reals |-> K, left |-> L, components |-> c, stage |-> stage]
  BY <1>1
<1>4. /\ y.model = m /\ y.given = g /\ y.reals = K /\ y.left = L /\ y.components = c /\ y.stage = stage
  BY <1>3
<1>5. y = [model |-> y.model, given |-> y.given, reals |-> y.reals, left |-> y.left,
           components |-> y.components, stage |-> y.stage]
  BY <1>3, <1>4
<1>6. QED
  BY <1>2, <1>4, <1>5 DEF SoundMixture

LEMMA NormalizeInv ==
  ASSUME MixtureInv, Normalize
  PROVE  MixtureInv'
<1>1. /\ mixture # Nowhere /\ SoundMixture(mixture) /\ mixture.stage = "enumerating"
      /\ mixture.left = {} /\ draws' = draws /\ draws = Nowhere
  BY DEF Normalize, MixtureInv, SoundDraws
<1>2. PICK stage \in {"incompatible", "mixed"} : mixture' = [mixture EXCEPT !.stage = stage]
  BY DEF Normalize, Stage
<1>3. SoundMixture(mixture')
  BY <1>1, <1>2, StageKeeps
<1>4. QED
  BY <1>1, <1>3 DEF MixtureInv

LEMMA StopMixtureInv ==
  ASSUME MixtureInv, StopMixture
  PROVE  MixtureInv'
<1>1. /\ mixture # Nowhere /\ SoundMixture(mixture) /\ draws' = Nowhere
      /\ mixture' = [mixture EXCEPT !.stage = "stopped"]
  BY DEF StopMixture, Stage, MixtureInv
<1>2. SoundMixture(mixture')
  BY <1>1, StageKeeps
<1>3. QED
  BY <1>1, <1>2 DEF MixtureInv

LEMMA StartDrawInv ==
  ASSUME MixtureInv, NEW scope \in Scopes, NEW size \in 1..MaxDraws, StartDraw(scope, size)
  PROVE  MixtureInv'
<1>1. /\ mixture # Nowhere /\ mixture.stage = "mixed" /\ mixture' = mixture
  BY DEF StartDraw
<1>2. PICK choices \in [1..size -> DOMAIN mixture.components] :
        draws' = [scope |-> scope, choices |-> choices, rows |-> <<>>]
  BY DEF StartDraw
<1>3. /\ draws'.scope = scope /\ draws'.choices = choices /\ DOMAIN draws'.rows = {}
      /\ draws' = [scope |-> draws'.scope, choices |-> draws'.choices, rows |-> draws'.rows]
  <2>1. PICK none : none = <<>> /\ DOMAIN none = {}
    OBVIOUS
  <2>2. draws' = [scope |-> scope, choices |-> choices, rows |-> none]
    BY <1>2, <2>1
  <2>3. QED
    BY <2>1, <2>2
<1>4. SoundDraws(mixture, draws')
  BY <1>1, <1>2, <1>3 DEF SoundDraws
<1>5. QED
  BY <1>1, <1>4 DEF MixtureInv

\* The samples of a component go to the rows that chose it, one each.
LEMMA DrawComponentInv ==
  ASSUME MixtureInv, DrawComponent
  PROVE  MixtureInv'
<1> DEFINE c    == mixture.components
           ch   == draws.choices
           rows1 == draws.rows
           new(r, i) == [state |-> Restrict(c[i], draws.scope \ DOMAIN mixture.model.reals),
                         reals |-> [k \in draws.scope \intersect mixture.reals |-> <<i, Number(ch, r)>>]]
<1>1. /\ draws # Nowhere /\ SoundDraws(mixture, draws) /\ Undrawn # {} /\ mixture' = mixture
  BY DEF DrawComponent, MixtureInv
<1>2. /\ draws = [scope |-> draws.scope, choices |-> ch, rows |-> rows1]
      /\ DOMAIN rows1 \subseteq DOMAIN ch
      /\ \A r \in DOMAIN rows1, q \in DOMAIN ch : ch[q] = ch[r] => q \in DOMAIN rows1
      /\ \A r \in DOMAIN rows1 : rows1[r] = new(r, ch[r])
  BY <1>1 DEF SoundDraws
<1>3. PICK i : i = Min(Undrawn)
  OBVIOUS
<1>4. i \in Undrawn
  <2>1. mixture # Nowhere /\ c \in Seq(MassiveOf(mixture.model, mixture.given))
    BY <1>1 DEF MixtureInv, SoundDraws, SoundMixture
  <2>2. DOMAIN c \subseteq Nat
    BY <2>1, LenProperties
  <2>3. Range(ch) \subseteq DOMAIN c
    BY <1>1 DEF SoundDraws, Range
  <2>4. Undrawn \in SUBSET Nat
    BY <2>2, <2>3 DEF Undrawn
  <2>5. QED
    BY <1>1, <1>3, <2>4, LeastCount
<1>5. \A r \in DOMAIN rows1 : ch[r] # i
  BY <1>4 DEF Undrawn
<1>6. DOMAIN Placed(i) = Selected(i) /\ \A r \in Selected(i) : Placed(i)[r] = Number(ch, r) /\ ch[r] = i
  <2>1. ASSUME NEW r \in Selected(i) PROVE Placed(i)[r] = Number(ch, r) /\ ch[r] = i
    <3>1. ch[r] = i
      BY DEF Selected
    <3>2. {q \in Selected(i) : q <= r} = {q \in DOMAIN ch : ch[q] = ch[r] /\ q <= r}
      BY <3>1 DEF Selected
    <3>3. QED
      BY <3>1, <3>2 DEF Placed, Number
  <2>2. QED
    BY <2>1 DEF Placed
<1>7. PICK all : all = [r \in DOMAIN rows1 \union Selected(i) |-> IF r \in DOMAIN rows1 THEN rows1[r] ELSE new(r, i)]
  OBVIOUS
<1>8. draws' = [draws EXCEPT !.rows = all]
  <2> DEFINE row(r) == [state |-> Shown(i), reals |-> [k \in draws.scope \intersect mixture.reals |-> <<i, Placed(i)[r]>>]]
             made == [r \in DOMAIN rows1 \union DOMAIN Placed(i) |-> IF r \in DOMAIN rows1 THEN rows1[r] ELSE row(r)]
  <2>1. draws' = [draws EXCEPT !.rows = made]
    BY <1>3 DEF DrawComponent
  <2>2. \A r \in Selected(i) : row(r) = new(r, i)
    BY <1>6 DEF Shown
  <2>3. made = all
    <3> HIDE DEF row, new
    <3>1. QED
      BY <1>6, <1>7, <2>2
  <2> HIDE DEF made
  <2>4. QED
    BY <2>1, <2>3
<1>9. /\ DOMAIN all = DOMAIN rows1 \union Selected(i)
      /\ \A r \in DOMAIN all : all[r] = new(r, ch[r])
  <2> HIDE DEF new
  <2>1. QED
    BY <1>2, <1>6, <1>7
<1>10. PICK S, C : S = draws.scope /\ C = ch
  OBVIOUS
<1>11. draws' = [scope |-> S, choices |-> C, rows |-> all]
  <2> HIDE DEF ch, rows1
  <2>1. QED
    BY <1>2, <1>8, <1>10
<1>12. /\ draws'.scope = S /\ draws'.choices = C /\ draws'.rows = all
       /\ draws' = [scope |-> draws'.scope, choices |-> draws'.choices, rows |-> draws'.rows]
  BY <1>11
<1>13. /\ DOMAIN all \subseteq DOMAIN C
       /\ \A r \in DOMAIN all, q \in DOMAIN C : C[q] = C[r] => q \in DOMAIN all
  BY <1>2, <1>9, <1>10 DEF Selected
<1>14. \A r \in DOMAIN all :
         all[r] = [state |-> Restrict(c[C[r]], S \ DOMAIN mixture.model.reals),
                   reals |-> [k \in S \intersect mixture.reals |-> <<C[r], Number(C, r)>>]]
  BY <1>9, <1>10
<1>15. /\ mixture # Nowhere /\ mixture.stage = "mixed"
       /\ \E n \in 1..MaxDraws : C \in [1..n -> DOMAIN c]
  BY <1>1, <1>10 DEF SoundDraws
<1>16. SoundDraws(mixture, draws')
  <2> HIDE DEF new, ch, rows1
  <2>1. QED
    BY <1>12, <1>13, <1>14, <1>15 DEF SoundDraws
<1>17. QED
  BY <1>1, <1>16 DEF MixtureInv

\* The number of a row among those of its component is its own.
LEMMA NumbersDiffer ==
  ASSUME NEW n \in Nat, NEW S, NEW ch \in [1..n -> S],
         NEW q \in 1..n, NEW r \in 1..n, ch[q] = ch[r], Number(ch, q) = Number(ch, r)
  PROVE  q = r
<1>1. ASSUME NEW a \in 1..n, NEW b \in 1..n, ch[a] = ch[b], a < b
      PROVE  Number(ch, a) # Number(ch, b)
  <2> DEFINE A == {x \in DOMAIN ch : ch[x] = ch[a] /\ x <= a}
             B == {x \in DOMAIN ch : ch[x] = ch[b] /\ x <= b}
  <2>1. A \subseteq B /\ b \in B /\ b \notin A
    BY <1>1
  <2>2. IsFiniteSet(1..n) /\ B \subseteq 1..n
    BY FS_Interval
  <2>3. IsFiniteSet(B)
    BY <2>2, FS_Subset
  <2> HIDE DEF A, B
  <2>4. Cardinality(A) < Cardinality(B) /\ Cardinality(A) \in Nat /\ Cardinality(B) \in Nat
    <3>1. IsFiniteSet(A) /\ Cardinality(A) <= Cardinality(B) /\ (Cardinality(A) = Cardinality(B) => A = B)
      BY <2>1, <2>3, FS_Subset
    <3>2. Cardinality(A) \in Nat /\ Cardinality(B) \in Nat
      BY <2>3, <3>1, FS_CardinalityType
    <3>3. QED
      BY <2>1, <3>1, <3>2
  <2>5. QED
    BY <2>4 DEF Number, A, B
<1>2. ~ (q < r) /\ ~ (r < q)
  BY <1>1
<1>3. QED
  BY <1>2

LEMMA MixtureInvSuffices == MixtureInv => MixturesAreConditionals
<1> SUFFICES ASSUME MixtureInv PROVE MixturesAreConditionals
  OBVIOUS
<1>1. ASSUME mixture # Nowhere
      PROVE  /\ mixture.stage = "mixed" =>
                  Range(mixture.components) = Massive /\ IsInjective(mixture.components)
             /\ mixture.stage = "failed" =>
                  \E s \in Massive : ~ PositiveDefinite(mixture.model, s, mixture.reals)
  <2>1. Massive = MassiveOf(mixture.model, mixture.given)
    BY DEF Massive, MassiveOf
  <2>2. SoundMixture(mixture)
    BY <1>1 DEF MixtureInv
  <2>3. mixture.components \in Seq(MassiveOf(mixture.model, mixture.given))
    BY <2>2 DEF SoundMixture
  <2>4. Range(mixture.components) \subseteq MassiveOf(mixture.model, mixture.given)
    <3>1. \A i \in DOMAIN mixture.components : mixture.components[i] \in MassiveOf(mixture.model, mixture.given)
      BY <2>3, ElementOfSeq, LenProperties
    <3>2. QED
      BY <3>1 DEF Range
  <2>5. QED
    BY <2>1, <2>2, <2>4 DEF SoundMixture
<1>2. ASSUME draws # Nowhere, Undrawn = {}
      PROVE  /\ DOMAIN draws.rows = DOMAIN draws.choices
             /\ \A r \in DOMAIN draws.rows :
                  \E i \in DOMAIN mixture.components :
                    /\ draws.rows[r].state = Shown(i)
                    /\ \A k \in DOMAIN draws.rows[r].reals :
                         /\ draws.rows[r].reals[k][1] = i
                         /\ \A q \in DOMAIN draws.rows :
                              draws.rows[q].reals[k] = draws.rows[r].reals[k] => q = r
  <2> DEFINE ch == draws.choices
             rows1 == draws.rows
  <2>1. SoundDraws(mixture, draws)
    BY <1>2 DEF MixtureInv
  <2>2. PICK n \in Nat : ch \in [1..n -> DOMAIN mixture.components]
    BY <2>1, HybridAssumption DEF SoundDraws
  <2>3. /\ DOMAIN rows1 \subseteq DOMAIN ch
        /\ \A r \in DOMAIN rows1, q \in DOMAIN ch : ch[q] = ch[r] => q \in DOMAIN rows1
    BY <2>1 DEF SoundDraws
  <2>4. DOMAIN rows1 = DOMAIN ch
    BY <1>2, <2>3 DEF Undrawn, Range
  <2>5. \A r \in DOMAIN rows1 :
          /\ rows1[r].state = Shown(ch[r])
          /\ DOMAIN rows1[r].reals = draws.scope \intersect mixture.reals
          /\ \A k \in draws.scope \intersect mixture.reals : rows1[r].reals[k] = <<ch[r], Number(ch, r)>>
    <3> SUFFICES ASSUME NEW r \in DOMAIN rows1
                 PROVE  /\ rows1[r].state = Shown(ch[r])
                        /\ DOMAIN rows1[r].reals = draws.scope \intersect mixture.reals
                        /\ \A k \in draws.scope \intersect mixture.reals :
                             rows1[r].reals[k] = <<ch[r], Number(ch, r)>>
      OBVIOUS
    <3>1. PICK s, v : s = Shown(ch[r]) /\ v = [k \in draws.scope \intersect mixture.reals |-> <<ch[r], Number(ch, r)>>]
      OBVIOUS
    <3>2. rows1[r] = [state |-> s, reals |-> v]
      BY <2>1, <3>1 DEF SoundDraws, Shown
    <3>3. rows1[r].state = s /\ rows1[r].reals = v
      BY <3>2
    <3> HIDE DEF rows1, ch
    <3>4. QED
      BY <3>1, <3>3
  <2> HIDE DEF ch, rows1
  <2>6. ASSUME NEW r \in DOMAIN rows1
        PROVE  \E i \in DOMAIN mixture.components :
                 /\ rows1[r].state = Shown(i)
                 /\ \A k \in DOMAIN rows1[r].reals :
                      /\ rows1[r].reals[k][1] = i
                      /\ \A q \in DOMAIN rows1 : rows1[q].reals[k] = rows1[r].reals[k] => q = r
    <3>1. ch[r] \in DOMAIN mixture.components
      BY <2>2, <2>4
    <3>2. ASSUME NEW k \in DOMAIN rows1[r].reals
          PROVE  /\ rows1[r].reals[k][1] = ch[r]
                 /\ \A q \in DOMAIN rows1 : rows1[q].reals[k] = rows1[r].reals[k] => q = r
      <4>1. \A q \in DOMAIN rows1 : rows1[q].reals[k] = <<ch[q], Number(ch, q)>>
        BY <2>5
      <4>2. \A q \in DOMAIN rows1 :
              rows1[q].reals[k] = rows1[r].reals[k] => ch[q] = ch[r] /\ Number(ch, q) = Number(ch, r)
        BY <4>1
      <4>3. \A q \in DOMAIN rows1 : rows1[q].reals[k] = rows1[r].reals[k] => q = r
        BY <2>2, <2>4, <4>2, NumbersDiffer
      <4>4. QED
        BY <4>1, <4>3
    <3>3. QED
      BY <2>5, <3>1, <3>2
  <2>7. QED
    BY <2>4, <2>6 DEF ch, rows1
<1>3. QED
  BY <1>1, <1>2 DEF MixturesAreConditionals

\* For all models, conditions and scopes: a mixture has the states that have
\* mass and agree with what is given, each once, and fails only where one of
\* them has no density; a row of a draw has the state and the values of one
\* component, of a sample of its own (_condition_target(), draw()).
THEOREM MixturesAreOfTheTarget == MixtureSpec => []MixturesAreConditionals
<1>1. MixtureInit => MixtureInv
  BY DEF MixtureInit, MixtureInv
<1>2. MixtureInv /\ [MixtureNext]_mixtureVars => MixtureInv'
  <2> SUFFICES ASSUME MixtureInv, [MixtureNext]_mixtureVars PROVE MixtureInv'
    OBVIOUS
  <2>1. ASSUME NEW m \in Hybrids, Condition(m, <<>>, {}) PROVE MixtureInv'
    <3>1. DOMAIN <<>> = {}
      OBVIOUS
    <3>2. PICK g : g = <<>>
      OBVIOUS
    <3>3. Condition(m, g, {}) /\ \A k \in DOMAIN g : k \in DOMAIN m.domains /\ g[k] \in m.domains[k]
      BY <2>1, <3>1, <3>2
    <3>4. QED
      BY <3>3, ConditionInv
  <2>2. ASSUME NEW m \in Hybrids, NEW g \in Conditioned, DOMAIN g.given \subseteq DOMAIN m.domains,
               Condition(m, g.given, g.reals)
        PROVE  MixtureInv'
    <3>1. \A k \in DOMAIN g.given : k \in DOMAIN m.domains /\ g.given[k] \in m.domains[k]
      BY <2>2, HybridAssumption
    <3>2. QED
      BY <2>2, <3>1, ConditionInv
  <2>3. CASE UNCHANGED mixtureVars
    BY <2>3 DEF mixtureVars, MixtureInv
  <2>4. QED
    BY <2>1, <2>2, <2>3, EnumerateInv, NormalizeInv, DrawComponentInv, StopMixtureInv, StartDrawInv
       DEF MixtureNext
<1>3. QED
  BY <1>1, <1>2, MixtureInvSuffices, PTL DEF MixtureSpec

-----------------------------------------------------------------------------
(***************************************************************************)
(* Induction over finite data, and what folds compute                      *)
(***************************************************************************)
\* A set that has 0, and with each number the next, has all numbers.
LEMMA Counting ==
  ASSUME NEW S, 0 \in S, \A n \in Nat : n \in S => n + 1 \in S
  PROVE  Nat \subseteq S
<1> SUFFICES ASSUME Nat \ S # {} PROVE FALSE
  OBVIOUS
<1>1. PICK n \in Nat \ S : \A m \in Nat \ S : n <= m
  BY LeastCount
<1>2. n - 1 \in Nat /\ n - 1 \notin Nat \ S /\ n = (n - 1) + 1
  BY <1>1
<1> QED BY <1>1, <1>2

\* A set of subsets has every subset of a finite set if it has the empty one and,
\* for every other, has it if it has the rest without some element.
LEMMA Removing ==
  ASSUME NEW S, IsFiniteSet(S), NEW P, {} \in P,
         \A t \in SUBSET S : t # {} => \E x \in t : t \ {x} \in P => t \in P
  PROVE  \A t \in SUBSET S : t \in P
<1> DEFINE Sizes == {n \in Nat : \A t \in SUBSET S : Cardinality(t) = n => t \in P}
<1>1. 0 \in Sizes
  BY FS_EmptySet, FS_Subset
<1>2. ASSUME NEW n \in Nat, n \in Sizes PROVE n + 1 \in Sizes
  <2> SUFFICES ASSUME NEW t \in SUBSET S, Cardinality(t) = n + 1 PROVE t \in P
    OBVIOUS
  <2>1. IsFiniteSet(t) /\ t # {}
    BY FS_Subset, FS_EmptySet
  <2>2. PICK x \in t : t \ {x} \in P => t \in P
    BY <2>1
  <2>3. Cardinality(t \ {x}) = Cardinality(t) - 1
    BY <2>1, FS_RemoveElement
  <2>4. Cardinality(t \ {x}) = n
    BY <2>3
  <2> QED BY <1>2, <2>2, <2>4
<1>3. Nat \subseteq Sizes
  <2> HIDE DEF Sizes
  <2> QED BY <1>1, <1>2, Counting
<1>4. \A t \in SUBSET S : Cardinality(t) \in Nat
  BY FS_Subset, FS_CardinalityType
<1> QED BY <1>3, <1>4

\* A function on the subsets of a set: of each, its value follows from an element
\* that is chosen and the value of the rest.
IsFold(f, S, C, D, base, G) ==
  /\ f \in [SUBSET S -> D]
  /\ \A t \in SUBSET S : f[t] = IF t = {} THEN base ELSE G[<<C[t], f[t \ {C[t]}]>>]
Chooses(C, S) == \A t \in SUBSET S : t # {} => C[t] \in t
Closed(G, S, D) == \A x \in S, d \in D : G[<<x, d>>] \in D

\* What folds over a finite set compute exists: a value for each subset, from
\* that of the rest of it.
LEMMA FoldExists ==
  ASSUME NEW S, IsFiniteSet(S), NEW C, Chooses(C, S), NEW D, NEW base \in D, NEW G, Closed(G, S, D)
  PROVE  \E f : IsFold(f, S, C, D, base, G)
<1> USE DEF Chooses, Closed
<1> DEFINE next(f, t) == IF t = {} THEN base ELSE G[<<C[t], f[t \ {C[t]}]>>]
           Sizes == {n \in Nat : \E f \in [SUBSET S -> D] :
                                   \A t \in SUBSET S : Cardinality(t) <= n => f[t] = next(f, t)}
<1>0. \A t \in SUBSET S : IsFiniteSet(t) /\ Cardinality(t) \in Nat /\ (Cardinality(t) = 0 <=> t = {})
  BY FS_Subset, FS_CardinalityType, FS_EmptySet
<1>1. 0 \in Sizes
  <2> DEFINE f == [t \in SUBSET S |-> base]
  <2>1. f \in [SUBSET S -> D] /\ \A t \in SUBSET S : Cardinality(t) <= 0 => f[t] = next(f, t)
    BY <1>0
  <2> QED BY <2>1
<1>2. ASSUME NEW n \in Nat, n \in Sizes PROVE n + 1 \in Sizes
  <2>1. PICK f \in [SUBSET S -> D] : \A t \in SUBSET S : Cardinality(t) <= n => f[t] = next(f, t)
    BY <1>2
  <2> DEFINE g == [t \in SUBSET S |-> next(f, t)]
  <2>2. g \in [SUBSET S -> D]
    OBVIOUS
  <2>3. ASSUME NEW t \in SUBSET S, Cardinality(t) <= n + 1 PROVE g[t] = next(g, t)
    <3>1. CASE t = {}
      BY <3>1
    <3>2. CASE t # {}
      <4>1. C[t] \in t /\ t \ {C[t]} \in SUBSET S
        BY <3>2
      <4>2. Cardinality(t \ {C[t]}) <= n
        BY <4>1, <1>0, <2>3, FS_RemoveElement
      <4>3. g[t \ {C[t]}] = f[t \ {C[t]}]
        BY <4>1, <4>2, <2>1
      <4>4. g[t] = G[<<C[t], f[t \ {C[t]}]>>]
        BY <3>2
      <4> QED BY <3>2, <4>3, <4>4
    <3> QED BY <3>1, <3>2
  <2> QED
    <3> HIDE DEF g, next
    <3> QED BY <2>2, <2>3
<1>3. Nat \subseteq Sizes
  <2> HIDE DEF Sizes
  <2> QED BY <1>1, <1>2, Counting
<1>4. PICK f \in [SUBSET S -> D] : \A t \in SUBSET S : Cardinality(t) <= Cardinality(S) => f[t] = next(f, t)
  BY <1>0, <1>3
<1>5. \A t \in SUBSET S : Cardinality(t) <= Cardinality(S)
  BY FS_Subset
<1> QED BY <1>4, <1>5 DEF IsFold

\* What is computed like a fold is one: its values are where they should be.
LEMMA FoldIs ==
  ASSUME NEW S, IsFiniteSet(S), NEW C, Chooses(C, S), NEW D, NEW base \in D, NEW G, Closed(G, S, D),
         NEW f, f = [t \in SUBSET S |-> f[t]], f[{}] = base,
         \A t \in SUBSET S : t # {} /\ f[t \ {C[t]}] \in D => f[t] = G[<<C[t], f[t \ {C[t]}]>>]
  PROVE  IsFold(f, S, C, D, base, G)
<1> DEFINE P == {t \in SUBSET S : f[t] \in D}
<1>1. {} \in P
  OBVIOUS
<1>2. ASSUME NEW t \in SUBSET S, t # {} PROVE \E x \in t : t \ {x} \in P => t \in P
  <2>1. C[t] \in t /\ t \ {C[t]} \in SUBSET S
    BY <1>2 DEF Chooses
  <2>2. t \ {C[t]} \in P => t \in P
    BY <1>2, <2>1 DEF Closed
  <2> QED BY <2>1, <2>2
<1>3. \A t \in SUBSET S : t \in P
  <2> HIDE DEF P
  <2> QED BY <1>1, <1>2, Removing
<1>4. f \in [SUBSET S -> D]
  BY <1>3
<1>5. ASSUME NEW t \in SUBSET S PROVE f[t] = IF t = {} THEN base ELSE G[<<C[t], f[t \ {C[t]}]>>]
  <2>1. t \ {C[t]} \in SUBSET S
    OBVIOUS
  <2> QED BY <1>3, <2>1
<1> QED BY <1>4, <1>5 DEF IsFold

\* A set of positions has a last one.
LEMMA MaxIn ==
  ASSUME NEW n \in Nat, NEW t \in SUBSET (1..n), t # {} PROVE Max(t) \in t
<1>1. PICK d \in {n - x : x \in t} : \A e \in {n - x : x \in t} : d <= e
  <2>1. \A x \in t : n - x \in Nat
    OBVIOUS
  <2>2. {n - x : x \in t} \subseteq Nat
    BY <2>1
  <2>3. {n - x : x \in t} # {}
    OBVIOUS
  <2> QED BY <2>2, <2>3, LeastCount
<1>2. PICK x \in t : d = n - x
  BY <1>1
<1>3. ASSUME NEW y \in t PROVE x >= y
  <2>1. n - x <= n - y
    BY <1>1, <1>2
  <2> QED BY <2>1
<1> QED BY <1>3 DEF Max

\* The folds of sums and products, over the values of a function.
Some(S) == [t \in SUBSET S |-> CHOOSE x \in t : TRUE]
Adding(S, w) == [p \in S \X Nat |-> w[p[1]] + p[2]]
Multiplying(S, w) == [p \in S \X Nat |-> w[p[1]] * p[2]]
IsSum(f, S, w) == IsFold(f, S, Some(S), Nat, 0, Adding(S, w))
IsProduct(f, S, w) == IsFold(f, S, Some(S), Nat, 1, Multiplying(S, w))

\* A set that is not empty has the element that is chosen of it.
LEMMA SomeChooses == ASSUME NEW S PROVE Chooses(Some(S), S)
BY DEF Chooses, Some

\* A sum is that of the element chosen and of the rest.
LEMMA SumSteps ==
  ASSUME NEW S, NEW w \in [S -> Nat], NEW f, IsSum(f, S, w), NEW t \in SUBSET S, t # {},
         NEW x, x = Some(S)[t]
  PROVE  x \in t /\ f[t \ {x}] \in Nat /\ f[t] = w[x] + f[t \ {x}]
<1>1. x \in t /\ x \in S /\ t \ {x} \in SUBSET S
  BY DEF Some
<1>2. f[t] = Adding(S, w)[<<x, f[t \ {x}]>>] /\ f[t \ {x}] \in Nat
  BY <1>1 DEF IsSum, IsFold
<1> QED BY <1>1, <1>2 DEF Adding

\* A product is that of the element chosen and of the rest.
LEMMA ProductSteps ==
  ASSUME NEW S, NEW w \in [S -> Nat], NEW f, IsProduct(f, S, w), NEW t \in SUBSET S, t # {},
         NEW x, x = Some(S)[t]
  PROVE  x \in t /\ f[t \ {x}] \in Nat /\ f[t] = w[x] * f[t \ {x}]
<1>1. x \in t /\ x \in S /\ t \ {x} \in SUBSET S
  BY DEF Some
<1>2. f[t] = Multiplying(S, w)[<<x, f[t \ {x}]>>] /\ f[t \ {x}] \in Nat
  BY <1>1 DEF IsProduct, IsFold
<1> QED BY <1>1, <1>2 DEF Multiplying

\* Sums and products as the community modules compute them.
SumOf(S, w) == FoldSet(LAMBDA x, n : w[x] + n, 0, S)
ProductOf(S, w) == FoldSet(LAMBDA x, n : w[x] * n, 1, S)

\* What FoldSet computes of an addition is a sum.
LEMMA SumIs ==
  ASSUME NEW S, IsFiniteSet(S), NEW w \in [S -> Nat]
  PROVE  \E f : IsSum(f, S, w) /\ SumOf(S, w) = f[S]
<1> DEFINE step(g) == [t \in SUBSET S |-> IF t = {} THEN 0
                        ELSE w[CHOOSE x \in t : TRUE] + g[t \ {CHOOSE x \in t : TRUE}]]
           sum == CHOOSE g : g = step(g)
<1>1. SumOf(S, w) = sum[S]
  BY Zenon DEF SumOf, FoldSet, MapThenFoldSet
<1>2. \A x \in S, d \in Nat : Adding(S, w)[<<x, d>>] = w[x] + d /\ w[x] + d \in Nat
  BY DEF Adding
<1>3. Chooses(Some(S), S) /\ Closed(Adding(S, w), S, Nat) /\ 0 \in Nat
  BY <1>2, SomeChooses DEF Closed
<1>4. \A t \in SUBSET S : t # {} => Some(S)[t] = CHOOSE x \in t : TRUE
  BY DEF Some
<1>5. \E g : g = step(g)
  <2>1. PICK g : IsFold(g, S, Some(S), Nat, 0, Adding(S, w))
    BY <1>3, FoldExists
  <2>2. ASSUME NEW t \in SUBSET S PROVE g[t] = step(g)[t]
    <3>1. CASE t = {}
      BY <2>1, <3>1 DEF IsFold
    <3>2. CASE t # {}
      <4>1. PICK x : x = Some(S)[t]
        OBVIOUS
      <4>2. x \in t /\ g[t \ {x}] \in Nat /\ g[t] = w[x] + g[t \ {x}]
        BY <2>1, <3>2, <4>1, SumSteps DEF IsSum
      <4>3. x = CHOOSE y \in t : TRUE
        BY <1>4, <3>2, <4>1
      <4> QED BY <3>2, <4>2, <4>3
    <3> QED BY <3>1, <3>2
  <2>3. g = [t \in SUBSET S |-> g[t]]
    BY <2>1 DEF IsFold
  <2>4. step(g) = [t \in SUBSET S |-> step(g)[t]]
    OBVIOUS
  <2> HIDE DEF step
  <2> QED BY <2>2, <2>3, <2>4
<1>6. sum = step(sum)
  <2> HIDE DEF step
  <2> QED BY <1>5
<1>7. IsFold(sum, S, Some(S), Nat, 0, Adding(S, w))
  <2>1. sum = [t \in SUBSET S |-> sum[t]] /\ sum[{}] = 0
    <3> HIDE DEF sum
    <3> QED BY <1>6
  <2>2. ASSUME NEW t \in SUBSET S, t # {}, sum[t \ {Some(S)[t]}] \in Nat
        PROVE  sum[t] = Adding(S, w)[<<Some(S)[t], sum[t \ {Some(S)[t]}]>>]
    <3>1. PICK x : x = Some(S)[t]
      OBVIOUS
    <3>2. x \in S /\ x = CHOOSE y \in t : TRUE
      BY <1>3, <1>4, <2>2, <3>1 DEF Chooses
    <3>3. sum[t] = w[x] + sum[t \ {x}]
      <4> HIDE DEF sum
      <4> QED BY <1>6, <2>2, <3>2
    <3> HIDE DEF sum, step
    <3> QED BY <1>2, <2>2, <3>1, <3>2, <3>3
  <2> HIDE DEF sum
  <2> QED BY <1>3, <2>1, <2>2, FoldIs
<1> HIDE DEF sum
<1> QED BY <1>1, <1>7 DEF IsSum

\* What FoldSet computes of a multiplication is a product.
LEMMA ProductIs ==
  ASSUME NEW S, IsFiniteSet(S), NEW w \in [S -> Nat]
  PROVE  \E f : IsProduct(f, S, w) /\ ProductOf(S, w) = f[S]
<1> DEFINE step(g) == [t \in SUBSET S |-> IF t = {} THEN 1
                        ELSE w[CHOOSE x \in t : TRUE] * g[t \ {CHOOSE x \in t : TRUE}]]
           product == CHOOSE g : g = step(g)
<1>1. ProductOf(S, w) = product[S]
  BY Zenon DEF ProductOf, FoldSet, MapThenFoldSet
<1>2. \A x \in S, d \in Nat : Multiplying(S, w)[<<x, d>>] = w[x] * d /\ w[x] * d \in Nat
  BY DEF Multiplying
<1>3. Chooses(Some(S), S) /\ Closed(Multiplying(S, w), S, Nat) /\ 1 \in Nat
  BY <1>2, SomeChooses DEF Closed
<1>4. \A t \in SUBSET S : t # {} => Some(S)[t] = CHOOSE x \in t : TRUE
  BY DEF Some
<1>5. \E g : g = step(g)
  <2>1. PICK g : IsFold(g, S, Some(S), Nat, 1, Multiplying(S, w))
    BY <1>3, FoldExists
  <2>2. ASSUME NEW t \in SUBSET S PROVE g[t] = step(g)[t]
    <3>1. CASE t = {}
      BY <2>1, <3>1 DEF IsFold
    <3>2. CASE t # {}
      <4>1. PICK x : x = Some(S)[t]
        OBVIOUS
      <4>2. x \in t /\ g[t \ {x}] \in Nat /\ g[t] = w[x] * g[t \ {x}]
        BY <2>1, <3>2, <4>1, ProductSteps DEF IsProduct
      <4>3. x = CHOOSE y \in t : TRUE
        BY <1>4, <3>2, <4>1
      <4> QED BY <3>2, <4>2, <4>3
    <3> QED BY <3>1, <3>2
  <2>3. g = [t \in SUBSET S |-> g[t]]
    BY <2>1 DEF IsFold
  <2>4. step(g) = [t \in SUBSET S |-> step(g)[t]]
    OBVIOUS
  <2> HIDE DEF step
  <2> QED BY <2>2, <2>3, <2>4
<1>6. product = step(product)
  <2> HIDE DEF step
  <2> QED BY <1>5
<1>7. IsFold(product, S, Some(S), Nat, 1, Multiplying(S, w))
  <2>1. product = [t \in SUBSET S |-> product[t]] /\ product[{}] = 1
    <3> HIDE DEF product
    <3> QED BY <1>6
  <2>2. ASSUME NEW t \in SUBSET S, t # {}, product[t \ {Some(S)[t]}] \in Nat
        PROVE  product[t] = Multiplying(S, w)[<<Some(S)[t], product[t \ {Some(S)[t]}]>>]
    <3>1. PICK x : x = Some(S)[t]
      OBVIOUS
    <3>2. x \in S /\ x = CHOOSE y \in t : TRUE
      BY <1>3, <1>4, <2>2, <3>1 DEF Chooses
    <3>3. product[t] = w[x] * product[t \ {x}]
      <4> HIDE DEF product
      <4> QED BY <1>6, <2>2, <3>2
    <3> HIDE DEF product, step
    <3> QED BY <1>2, <2>2, <3>1, <3>2, <3>3
  <2> HIDE DEF product
  <2> QED BY <1>3, <2>1, <2>2, FoldIs
<1> HIDE DEF product
<1> QED BY <1>1, <1>7 DEF IsProduct

\* A sum is that of any of its elements and of the rest.
LEMMA SumWithout ==
  ASSUME NEW S, IsFiniteSet(S), NEW w \in [S -> Nat], NEW f, IsSum(f, S, w)
  PROVE  \A t \in SUBSET S : \A x \in t : f[t] = w[x] + f[t \ {x}]
<1> DEFINE Sizes == {n \in Nat : \A t \in SUBSET S : Cardinality(t) = n => \A x \in t : f[t] = w[x] + f[t \ {x}]}
<1>0. \A t \in SUBSET S : IsFiniteSet(t) /\ Cardinality(t) \in Nat
  BY FS_Subset, FS_CardinalityType
<1>1. 0 \in Sizes
  BY <1>0, FS_EmptySet
<1>2. ASSUME NEW n \in Nat, n \in Sizes PROVE n + 1 \in Sizes
  <2> SUFFICES ASSUME NEW t \in SUBSET S, Cardinality(t) = n + 1, NEW x \in t PROVE f[t] = w[x] + f[t \ {x}]
    OBVIOUS
  <2>1. PICK c : c = Some(S)[t]
    OBVIOUS
  <2>2. c \in t /\ f[t \ {c}] \in Nat /\ f[t] = w[c] + f[t \ {c}]
    <3>1. t # {}
      OBVIOUS
    <3> HIDE DEF Sizes
    <3> QED BY <2>1, <3>1, SumSteps
  <2>3. CASE x = c
    BY <2>2, <2>3
  <2>4. CASE x # c
    <3>1. \A y \in t : Cardinality(t \ {y}) = n
      <4> SUFFICES ASSUME NEW y \in t PROVE Cardinality(t \ {y}) = n
        OBVIOUS
      <4>1. Cardinality(t \ {y}) = Cardinality(t) - 1
        BY <1>0, FS_RemoveElement
      <4> QED BY <4>1
    <3>2. f[t \ {c}] = w[x] + f[(t \ {c}) \ {x}]
      BY <1>2, <2>2, <2>4, <3>1
    <3>3. f[t \ {x}] = w[c] + f[(t \ {x}) \ {c}]
      BY <1>2, <2>2, <2>4, <3>1
    <3>4. (t \ {c}) \ {x} = (t \ {x}) \ {c} /\ (t \ {c}) \ {x} \in SUBSET S
      OBVIOUS
    <3>5. f[(t \ {c}) \ {x}] \in Nat /\ w[c] \in Nat /\ w[x] \in Nat
      BY <2>2, <3>4 DEF IsSum, IsFold
    <3> QED BY <2>2, <3>2, <3>3, <3>4, <3>5
  <2> QED BY <2>3, <2>4
<1>3. Nat \subseteq Sizes
  <2> HIDE DEF Sizes
  <2> QED BY <1>1, <1>2, Counting
<1> QED BY <1>0, <1>3

\* Two sums are equal if the elements of one are elements of the other, each one
\* another, and whatever else the other has is nothing.
LEMMA SumOver ==
  ASSUME NEW A, IsFiniteSet(A), NEW B, IsFiniteSet(B), NEW u \in [A -> Nat], NEW v \in [B -> Nat],
         NEW h \in [A -> B], \A a, b \in A : h[a] = h[b] => a = b,
         \A a \in A : u[a] = v[h[a]], \A b \in B : (\A a \in A : h[a] # b) => v[b] = 0,
         NEW f, IsSum(f, A, u), NEW g, IsSum(g, B, v)
  PROVE  f[A] = g[B]
<1> DEFINE from(t) == {a \in A : h[a] \in t}
           P == {t \in SUBSET B : g[t] = f[from(t)]}
<1>1. {} \in P
  <2>1. from({}) = {}
    OBVIOUS
  <2>2. g[{}] = 0 /\ f[{}] = 0
    BY DEF IsSum, IsFold
  <2> QED BY <2>1, <2>2
<1>2. ASSUME NEW t \in SUBSET B, t # {} PROVE \E x \in t : t \ {x} \in P => t \in P
  <2>1. PICK b \in t : TRUE
    BY <1>2
  <2>2. SUFFICES ASSUME g[t \ {b}] = f[from(t \ {b})] PROVE g[t] = f[from(t)]
    BY <2>1
  <2>3. g[t] = v[b] + g[t \ {b}]
    BY <2>1, SumWithout
  <2>4. CASE \E a \in A : h[a] = b
    <3>1. PICK a \in A : h[a] = b
      BY <2>4
    <3>2. from(t \ {b}) = from(t) \ {a} /\ a \in from(t) /\ from(t) \in SUBSET A
      BY <2>1, <3>1
    <3>3. f[from(t)] = u[a] + f[from(t) \ {a}]
      <4> HIDE DEF from
      <4> QED BY <3>2, SumWithout
    <3> HIDE DEF from
    <3> QED BY <2>2, <2>3, <3>1, <3>2, <3>3
  <2>5. CASE \A a \in A : h[a] # b
    <3>1. from(t \ {b}) = from(t)
      BY <2>5
    <3>2. v[b] = 0
      BY <2>1, <2>5
    <3>3. g[t \ {b}] \in Nat
      BY DEF IsSum, IsFold
    <3> HIDE DEF from
    <3> QED BY <2>2, <2>3, <3>1, <3>2, <3>3
  <2> QED BY <2>4, <2>5
<1>3. \A t \in SUBSET B : t \in P
  <2> HIDE DEF P
  <2> QED BY <1>1, <1>2, Removing
<1>4. from(B) = A
  OBVIOUS
<1>5. g[B] = f[from(B)]
  BY <1>3
<1> QED BY <1>4, <1>5

\* A product is zero where one of its factors is, and only there.
LEMMA ProductPositive ==
  ASSUME NEW S, IsFiniteSet(S), NEW w \in [S -> Nat], NEW f, IsProduct(f, S, w)
  PROVE  f[S] \in Nat /\ (f[S] # 0 <=> \A x \in S : w[x] # 0)
<1> DEFINE P == {t \in SUBSET S : f[t] \in Nat /\ (f[t] # 0 <=> \A x \in t : w[x] # 0)}
<1>1. {} \in P
  <2>1. f[{}] = 1
    BY DEF IsProduct, IsFold
  <2> QED BY <2>1
<1>2. ASSUME NEW t \in SUBSET S, t # {} PROVE \E x \in t : t \ {x} \in P => t \in P
  <2>1. PICK x : x = Some(S)[t]
    OBVIOUS
  <2>2. x \in t /\ f[t] = w[x] * f[t \ {x}]
    <3> HIDE DEF P
    <3> QED BY <1>2, <2>1, ProductSteps
  <2>3. SUFFICES ASSUME t \ {x} \in P PROVE t \in P
    BY <2>2
  <2>4. f[t \ {x}] \in Nat /\ w[x] \in Nat /\ (f[t \ {x}] # 0 <=> \A y \in t \ {x} : w[y] # 0)
    BY <2>2, <2>3
  <2>5. f[t] \in Nat /\ (f[t] # 0 <=> w[x] # 0 /\ f[t \ {x}] # 0)
    <3>1. \A i, j \in Nat : i * j \in Nat /\ (i * j # 0 <=> i # 0 /\ j # 0)
      OBVIOUS
    <3> QED BY <2>2, <2>4, <3>1
  <2> QED BY <2>2, <2>4, <2>5
<1>3. \A t \in SUBSET S : t \in P
  <2> HIDE DEF P
  <2> QED BY <1>1, <1>2, Removing
<1> QED BY <1>3

-----------------------------------------------------------------------------
(***************************************************************************)
(* Plans of sampling: weights and supports                                 *)
(***************************************************************************)
\* A model has finitely many factors.
LEMMA FactorsFinite ==
  ASSUME NEW m \in Models
  PROVE  IsFiniteSet(Range(m.factors)) /\ IsFiniteSet(DOMAIN m.factors)
<1>1. m.factors \in Seq(Range(m.factors))
  BY ModelAssumption
<1>2. PICK n \in Nat : DOMAIN m.factors = 1..n /\ m.factors \in [1..n -> Range(m.factors)]
  BY <1>1
<1>3. IsFiniteSet(1..n)
  BY FS_Interval
<1>4. m.factors \in Surjection(1..n, Range(m.factors))
  BY <1>2 DEF Surjection, Range
<1> QED BY <1>2, <1>3, <1>4, FS_Surjection

\* A table has a weight for each state.
LEMMA TableWeights ==
  ASSUME NEW m \in Models, NEW f \in Range(m.factors), f.family = "table", NEW s \in StatesOf(m.domains)
  PROVE  /\ [k \in f.scope |-> s[k]] \in DOMAIN f.weights
         /\ f.weights[[k \in f.scope |-> s[k]]] \in Nat
BY ModelAssumption

\* Weights are natural numbers.
LEMMA WeightIsNat ==
  ASSUME NEW m \in Models, NEW f \in Range(m.factors), NEW s \in StatesOf(m.domains)
  PROVE  Weight(m, f, s) \in Nat
<1>1. f.family \in Builtin \union DOMAIN m.kernels /\ \A k \in DOMAIN m.kernels : m.kernels[k].weight \in Nat
  BY ModelAssumption
<1>2. f.family = "table" => f.weights[[k \in f.scope |-> s[k]]] \in Nat
  BY TableWeights
<1> QED BY <1>1, <1>2 DEF Weight, Builtin

\* The weight of a state is the product of the weights that factors give it.
LEMMA WeightOfIs ==
  ASSUME NEW m, NEW s
  PROVE  WeightOf(m, s) = ProductOf(Range(m.factors), [f \in Range(m.factors) |-> Weight(m, f, s)])
<1> DEFINE S == Range(m.factors)
           w == [f \in S |-> Weight(m, f, s)]
           step(g) == [t \in SUBSET S |-> IF t = {} THEN 1
                        ELSE Weight(m, CHOOSE x \in t : TRUE, s) * g[t \ {CHOOSE x \in t : TRUE}]]
           other(g) == [t \in SUBSET S |-> IF t = {} THEN 1
                         ELSE w[CHOOSE x \in t : TRUE] * g[t \ {CHOOSE x \in t : TRUE}]]
<1>1. WeightOf(m, s) = (CHOOSE g : g = step(g))[S]
  BY Zenon DEF WeightOf, Product, FoldSet, MapThenFoldSet
<1>2. ProductOf(S, w) = (CHOOSE g : g = other(g))[S]
  BY Zenon DEF ProductOf, FoldSet, MapThenFoldSet
<1>3. \A t \in SUBSET S : t # {} => w[CHOOSE x \in t : TRUE] = Weight(m, CHOOSE x \in t : TRUE, s)
  OBVIOUS
<1>4. ASSUME NEW g PROVE step(g) = other(g)
  <2> HIDE DEF w, S
  <2> QED BY <1>3
<1>5. (CHOOSE g : g = step(g)) = CHOOSE g : g = other(g)
  <2> HIDE DEF step, other
  <2> QED BY <1>4
<1> HIDE DEF step, other
<1> QED BY <1>1, <1>2, <1>5

\* A state has mass if no factor gives it a weight of zero.
LEMMA WeightOfPositive ==
  ASSUME NEW m \in Models, NEW s \in StatesOf(m.domains)
  PROVE  WeightOf(m, s) \in Nat /\ (WeightOf(m, s) # 0 <=> \A f \in Range(m.factors) : Weight(m, f, s) # 0)
<1> DEFINE S == Range(m.factors)
           w == [f \in S |-> Weight(m, f, s)]
<1>1. IsFiniteSet(S) /\ w \in [S -> Nat]
  BY FactorsFinite, WeightIsNat
<1>2. WeightOf(m, s) = ProductOf(S, w)
  BY WeightOfIs
<1>3. \A f \in S : w[f] = Weight(m, f, s)
  OBVIOUS
<1> HIDE DEF S, w
<1>4. PICK g : IsProduct(g, S, w) /\ ProductOf(S, w) = g[S]
  BY <1>1, ProductIs
<1>5. g[S] \in Nat /\ (g[S] # 0 <=> \A f \in S : w[f] # 0)
  BY <1>1, <1>4, ProductPositive
<1> QED BY <1>2, <1>3, <1>4, <1>5 DEF S

\* Models of one structure and one support have the same rules, in order.
LEMMA SameRules ==
  ASSUME NEW m \in Models, NEW n \in Models, StructureId(m) = StructureId(n), SupportId(m) = SupportId(n)
  PROVE  /\ m.domains = n.domains /\ DOMAIN m.factors = DOMAIN n.factors
         /\ \A i \in DOMAIN m.factors : /\ m.factors[i].family = n.factors[i].family
                                       /\ SupportOf(m.factors[i]) = SupportOf(n.factors[i])
<1> DEFINE shape(x) == [i \in DOMAIN x.factors |-> [key |-> x.factors[i].key, family |-> x.factors[i].family,
                                                   scope |-> x.factors[i].scope, role |-> x.factors[i].role]]
           rules(x) == [i \in DOMAIN x.factors |-> SupportOf(x.factors[i])]
<1>1. shape(m) = shape(n)
  BY DEF StructureId
<1>2. m.domains = n.domains /\ rules(m) = rules(n)
  BY DEF SupportId
<1>3. DOMAIN m.factors = DOMAIN n.factors
  <2>1. DOMAIN rules(m) = DOMAIN m.factors /\ DOMAIN rules(n) = DOMAIN n.factors
    OBVIOUS
  <2> HIDE DEF rules
  <2> QED BY <1>2, <2>1
<1>4. ASSUME NEW i \in DOMAIN m.factors
      PROVE  m.factors[i].family = n.factors[i].family /\ SupportOf(m.factors[i]) = SupportOf(n.factors[i])
  <2>1. shape(m)[i].family = m.factors[i].family /\ shape(n)[i].family = n.factors[i].family
    BY <1>3
  <2>2. rules(m)[i] = SupportOf(m.factors[i]) /\ rules(n)[i] = SupportOf(n.factors[i])
    BY <1>3
  <2> HIDE DEF shape, rules
  <2> QED BY <1>1, <1>2, <2>1, <2>2
<1> QED BY <1>2, <1>3, <1>4

\* Where the supports of two factors are described alike, they exclude the same.
LEMMA SameZeros ==
  ASSUME NEW m \in Models, NEW n \in Models, m.domains = n.domains,
         NEW f \in Range(m.factors), NEW g \in Range(n.factors),
         f.family = g.family, f.family \in Builtin, SupportOf(f) = SupportOf(g), NEW s \in StatesOf(m.domains)
  PROVE  Weight(m, f, s) # 0 <=> Weight(n, g, s) # 0
<1>1. f.scope = g.scope
  BY DEF SupportOf
<1>2. CASE f.family = "table"
  <2> DEFINE x == [k \in f.scope |-> s[k]]
  <2>1. x \in DOMAIN f.weights /\ x \in DOMAIN g.weights
    BY <1>1, <1>2, TableWeights
  <2>2. {y \in DOMAIN f.weights : f.weights[y] = 0} = {y \in DOMAIN g.weights : g.weights[y] = 0}
    BY <1>2 DEF SupportOf
  <2>3. f.weights[x] = 0 <=> g.weights[x] = 0
    <3> HIDE DEF x
    <3> QED BY <2>1, <2>2
  <2>4. Weight(m, f, s) = f.weights[x] /\ Weight(n, g, s) = g.weights[x]
    BY <1>1, <1>2 DEF Weight
  <2> QED BY <2>3, <2>4
<1>3. CASE f.family = "count"
  <2>1. f.lo = g.lo /\ f.hi = g.hi
    BY <1>3 DEF SupportOf
  <2>2. Trues(f, s) = Trues(g, s)
    BY <1>1 DEF Trues
  <2> QED BY <1>3, <2>1, <2>2 DEF Weight
<1>4. CASE f.family \in {"linear_gaussian", "temporal_order"}
  BY <1>4 DEF Weight
<1> QED BY <1>2, <1>3, <1>4 DEF Builtin

\* Models of which only the rules of their supports are compared have mass at
\* the same states, whatever the other weights are.
LEMMA SameSupports ==
  ASSUME NEW m \in Models, NEW n \in Models, SupportKnown(m), SupportKnown(n),
         StructureId(m) = StructureId(n), SupportId(m) = SupportId(n)
  PROVE  Supported(m) = Supported(n)
<1>1. /\ m.domains = n.domains /\ DOMAIN m.factors = DOMAIN n.factors
      /\ \A i \in DOMAIN m.factors : /\ m.factors[i].family = n.factors[i].family
                                    /\ SupportOf(m.factors[i]) = SupportOf(n.factors[i])
  BY SameRules
<1>2. ASSUME NEW s \in StatesOf(m.domains) PROVE WeightOf(m, s) > 0 <=> WeightOf(n, s) > 0
  <2>1. \A i \in DOMAIN m.factors : Weight(m, m.factors[i], s) # 0 <=> Weight(n, n.factors[i], s) # 0
    <3> SUFFICES ASSUME NEW i \in DOMAIN m.factors
                 PROVE  Weight(m, m.factors[i], s) # 0 <=> Weight(n, n.factors[i], s) # 0
      OBVIOUS
    <3>1. m.factors[i] \in Range(m.factors) /\ n.factors[i] \in Range(n.factors) /\ m.factors[i].family \in Builtin
      BY <1>1 DEF SupportKnown, Range
    <3> QED BY <1>1, <3>1, SameZeros
  <2>2. WeightOf(m, s) \in Nat /\ (WeightOf(m, s) # 0 <=> \A f \in Range(m.factors) : Weight(m, f, s) # 0)
    BY WeightOfPositive
  <2>3. WeightOf(n, s) \in Nat /\ (WeightOf(n, s) # 0 <=> \A f \in Range(n.factors) : Weight(n, f, s) # 0)
    BY <1>1, WeightOfPositive
  <2>4. (\A f \in Range(m.factors) : Weight(m, f, s) # 0) <=> (\A f \in Range(n.factors) : Weight(n, f, s) # 0)
    BY <1>1, <2>1 DEF Range
  <2> QED BY <2>2, <2>3, <2>4
<1> QED BY <1>1, <1>2 DEF Supported

\* Any number of models, one after the other, are planned for in a session.
PlanningSpec == PlanningInit /\ [][PlanningNext]_planVars

\* What has been planned for is a sequence of models.
PlannedInv == planned \in Seq(Models) /\ (planning = "widening" => subject \in Models)

\* Models whose supports are taken for the same, by dependency_index() and the
\* check of a warm start, have mass at the same states.
THEOREM SupportsAreIdentified == PlanningSpec => []SupportIdMeansSupport
<1>1. PlanningInit => PlannedInv
  BY DEF PlanningInit, PlannedInv
<1>2. PlannedInv /\ [PlanningNext]_planVars => PlannedInv'
  <2> SUFFICES ASSUME PlannedInv, [PlanningNext]_planVars PROVE PlannedInv'
    OBVIOUS
  <2>1. ASSUME NEW m \in Models, NEW g \in Configs, Assess(m, g) PROVE PlannedInv'
    BY <2>1 DEF PlannedInv, Assess, Refuse
  <2>2. ASSUME Widen PROVE PlannedInv'
    BY <2>2 DEF PlannedInv, Widen, Refuse
  <2>3. ASSUME Partition PROVE PlannedInv'
    BY <2>3 DEF PlannedInv, Partition
  <2>4. ASSUME NEW moved, NEW rest, DrawBlock(moved, rest) PROVE PlannedInv'
    BY <2>4 DEF PlannedInv, DrawBlock
  <2>5. CASE UNCHANGED planVars
    BY <2>5 DEF PlannedInv, planVars
  <2> QED BY <2>1, <2>2, <2>3, <2>4, <2>5 DEF PlanningNext
<1>3. PlannedInv => SupportIdMeansSupport
  <2> SUFFICES ASSUME PlannedInv, NEW i \in DOMAIN planned, NEW j \in DOMAIN planned,
                      SupportKnown(planned[i]), SupportKnown(planned[j]),
                      StructureId(planned[i]) = StructureId(planned[j]), SupportId(planned[i]) = SupportId(planned[j])
               PROVE  Supported(planned[i]) = Supported(planned[j])
    BY DEF SupportIdMeansSupport
  <2>1. planned[i] \in Models /\ planned[j] \in Models
    BY DEF PlannedInv
  <2> QED BY <2>1, SameSupports
<1> QED BY <1>1, <1>2, <1>3, PTL DEF PlanningSpec

-----------------------------------------------------------------------------
(***************************************************************************)
(* Blocks                                                                  *)
(***************************************************************************)
\* Groups that are apart, and groups of which one has a whole scope.
Parted(groups) == \A b, c \in groups : b = c \/ b \intersect c = {}
Together(groups, scope) == \E b \in groups \union {{}} : scope \subseteq b

\* Joining a scope keeps groups apart, keeps together what was, and has the scope.
LEMMA JoinKeeps ==
  ASSUME NEW among, NEW groups \in SUBSET SUBSET among, NEW scope \in SUBSET among, Parted(groups)
  PROVE  /\ Join(groups, scope) \in SUBSET SUBSET among
         /\ Parted(Join(groups, scope))
         /\ Together(Join(groups, scope), scope)
         /\ \A other : Together(groups, other) => Together(Join(groups, scope), other)
<1>1. CASE scope = {}
  BY <1>1 DEF Join, Together
<1>2. CASE scope # {}
  <2> DEFINE touched == {b \in groups : b \intersect scope # {}}
             new == scope \union UNION touched
  <2>1. Join(groups, scope) = (groups \ touched) \union {new}
    BY <1>2 DEF Join
  <2>2. \A b \in groups \ touched : b \intersect new = {}
    <3> SUFFICES ASSUME NEW b \in groups \ touched, NEW k \in b, k \in new PROVE FALSE
      OBVIOUS
    <3>1. k \notin scope
      OBVIOUS
    <3>2. PICK c \in touched : k \in c
      BY <3>1
    <3>3. b = c
      BY <3>2 DEF Parted
    <3> QED BY <3>2, <3>3
  <2>3. Parted((groups \ touched) \union {new})
    <3> HIDE DEF touched, new
    <3> QED BY <2>2 DEF Parted
  <2>4. ASSUME NEW other, Together(groups, other) PROVE Together((groups \ touched) \union {new}, other)
    <3>1. PICK b \in groups \union {{}} : other \subseteq b
      BY <2>4 DEF Together
    <3>2. CASE b \in touched
      <4>1. other \subseteq new
        BY <3>1, <3>2
      <4> QED BY <4>1 DEF Together
    <3>3. CASE b \notin touched
      BY <3>1, <3>3 DEF Together
    <3> QED BY <3>2, <3>3
  <2>5. new \in SUBSET among
    OBVIOUS
  <2>6. Together((groups \ touched) \union {new}, scope)
    <3>1. scope \subseteq new
      OBVIOUS
    <3> HIDE DEF touched, new
    <3> QED BY <3>1 DEF Together
  <2> HIDE DEF touched, new
  <2> QED BY <2>1, <2>3, <2>4, <2>5, <2>6
<1> QED BY <1>1, <1>2

\* The step of the folds of _blocks(): the scope of each element is joined.
Joining(S, q, among) == [p \in S \X SUBSET SUBSET among |-> Join(p[2], q[p[1]])]

\* Groups that are joined by scopes, one after the other, stay apart, and keep
\* together what was together and what each scope has.
LEMMA JoinsKeep ==
  ASSUME NEW S, IsFiniteSet(S), NEW C, Chooses(C, S), NEW among, NEW base \in SUBSET SUBSET among, Parted(base),
         NEW q \in [S -> SUBSET among], NEW f,
         IsFold(f, S, C, SUBSET SUBSET among, base, Joining(S, q, among))
  PROVE  /\ f[S] \in SUBSET SUBSET among /\ Parted(f[S])
         /\ \A x \in S : Together(f[S], q[x])
         /\ \A other : Together(base, other) => Together(f[S], other)
<1> DEFINE good(t) == /\ Parted(f[t])
                      /\ \A x \in t : Together(f[t], q[x])
                      /\ \A other : Together(base, other) => Together(f[t], other)
           P == {t \in SUBSET S : good(t)}
<1>1. {} \in P
  <2>1. f[{}] = base
    BY DEF IsFold
  <2> QED BY <2>1
<1>2. ASSUME NEW t \in SUBSET S, t # {} PROVE \E x \in t : t \ {x} \in P => t \in P
  <2>1. PICK x : x = C[t]
    OBVIOUS
  <2>2. x \in t /\ x \in S /\ t \ {x} \in SUBSET S
    BY <1>2, <2>1 DEF Chooses
  <2>3. f[t] = Joining(S, q, among)[<<x, f[t \ {x}]>>] /\ f[t \ {x}] \in SUBSET SUBSET among
    BY <1>2, <2>1, <2>2 DEF IsFold
  <2>4. f[t] = Join(f[t \ {x}], q[x])
    BY <2>2, <2>3 DEF Joining
  <2>5. SUFFICES ASSUME good(t \ {x}) PROVE good(t)
    BY <2>2
  <2>6. q[x] \in SUBSET among
    BY <2>2
  <2>7. Parted(f[t \ {x}])
    BY <2>5
  <2>8. /\ Parted(f[t]) /\ Together(f[t], q[x])
        /\ \A other : Together(f[t \ {x}], other) => Together(f[t], other)
    <3>1. PICK g, h, scope : g = f[t \ {x}] /\ h = f[t] /\ scope = q[x]
      OBVIOUS
    <3>2. g \in SUBSET SUBSET among /\ scope \in SUBSET among /\ Parted(g) /\ h = Join(g, scope)
      BY <2>3, <2>4, <2>6, <2>7, <3>1
    <3>3. Parted(h) /\ Together(h, scope) /\ \A other : Together(g, other) => Together(h, other)
      BY <3>2, JoinKeeps
    <3> HIDE DEF good, P
    <3> QED BY <3>1, <3>3
  <2>9. \A y \in t \ {x} : Together(f[t \ {x}], q[y])
    BY <2>5
  <2>10. \A other : Together(base, other) => Together(f[t \ {x}], other)
    BY <2>5
  <2> QED BY <2>8, <2>9, <2>10
<1>3. \A t \in SUBSET S : t \in P
  <2> HIDE DEF P
  <2> QED BY <1>1, <1>2, Removing
<1>4. f[S] \in SUBSET SUBSET among
  BY DEF IsFold
<1> QED BY <1>3, <1>4

\* The groups after the constraints, before the real variables.
HardGroups(m, c, among) ==
  FoldLeft(LAMBDA groups, f :
             IF f.role = "support" THEN Join(groups, EncodedScope(c, f.scope) \intersect among) ELSE groups,
           {{k} : k \in among}, m.factors)

\* Constraints leave the groups apart, and each has its variables in one.
LEMMA HardGroupsKeep ==
  ASSUME NEW m \in Models, NEW c, NEW among
  PROVE  /\ HardGroups(m, c, among) \in SUBSET SUBSET among /\ Parted(HardGroups(m, c, among))
         /\ \A f \in Range(m.factors) :
              f.role = "support" => Together(HardGroups(m, c, among), EncodedScope(c, f.scope) \intersect among)
<1> DEFINE S == DOMAIN m.factors
           base == {{k} : k \in among}
           D == SUBSET SUBSET among
           q == [i \in S |-> IF m.factors[i].role = "support"
                             THEN EncodedScope(c, m.factors[i].scope) \intersect among ELSE {}]
           C == [t \in SUBSET S |-> Max(t)]
           step(g) == [t \in SUBSET S |-> IF t = {} THEN base
                        ELSE IF m.factors[Max(t)].role = "support"
                             THEN Join(g[t \ {Max(t)}], EncodedScope(c, m.factors[Max(t)].scope) \intersect among)
                             ELSE g[t \ {Max(t)}]]
           iter == CHOOSE g : g = step(g)
<1>1. HardGroups(m, c, among) = iter[S]
  BY Zenon DEF HardGroups, FoldLeft, MapThenFoldSet
<1>2. IsFiniteSet(S) /\ Chooses(C, S)
  <2>1. PICK n \in Nat : S = 1..n
    <3>1. m.factors \in Seq(Range(m.factors))
      BY ModelAssumption
    <3> QED BY <3>1
  <2>2. \A t \in SUBSET S : t # {} => Max(t) \in t
    BY <2>1, MaxIn
  <2> QED BY <2>2, FactorsFinite DEF Chooses
<1>3. base \in D /\ Parted(base) /\ q \in [S -> SUBSET among]
  BY DEF Parted
<1>4. Closed(Joining(S, q, among), S, D)
  <2> SUFFICES ASSUME NEW x \in S, NEW d \in D PROVE Join(d, q[x]) \in D
    BY DEF Closed, Joining
  <2>1. q[x] \in SUBSET among
    BY <1>3
  <2> QED BY <2>1 DEF Join
<1>5. ASSUME NEW x \in S, NEW d \in D
      PROVE  Joining(S, q, among)[<<x, d>>] = IF m.factors[x].role = "support"
                                              THEN Join(d, EncodedScope(c, m.factors[x].scope) \intersect among) ELSE d
  BY DEF Joining, Join
<1>6. \E g : g = step(g)
  <2>1. PICK g : IsFold(g, S, C, D, base, Joining(S, q, among))
    <3> HIDE DEF S, C, D, base, q, step, iter
    <3> QED BY <1>2, <1>3, <1>4, FoldExists
  <2>2. ASSUME NEW t \in SUBSET S PROVE g[t] = step(g)[t]
    <3>1. CASE t = {}
      BY <2>1, <3>1 DEF IsFold
    <3>2. CASE t # {}
      <4>1. C[t] = Max(t) /\ C[t] \in S /\ t \ {C[t]} \in SUBSET S
        BY <1>2, <3>2 DEF Chooses
      <4>2. g[t] = Joining(S, q, among)[<<Max(t), g[t \ {Max(t)}]>>] /\ g[t \ {Max(t)}] \in D
        <5> HIDE DEF S, C, D, base, q, step, iter
        <5> QED BY <2>1, <3>2, <4>1 DEF IsFold
      <4> QED BY <3>2, <4>1, <4>2, <1>5
    <3> QED BY <3>1, <3>2
  <2>3. g = step(g)
    <3>1. g = [t \in SUBSET S |-> g[t]]
      BY <2>1 DEF IsFold
    <3>2. step(g) = [t \in SUBSET S |-> step(g)[t]]
      OBVIOUS
    <3> HIDE DEF step
    <3> QED BY <2>2, <3>1, <3>2
  <2> QED BY <2>3
<1>7. iter = step(iter)
  <2> HIDE DEF step
  <2> QED BY <1>6
<1>8. IsFold(iter, S, C, D, base, Joining(S, q, among))
  <2>1. iter = [t \in SUBSET S |-> iter[t]] /\ iter[{}] = base
    <3> HIDE DEF iter
    <3> QED BY <1>7
  <2>2. ASSUME NEW t \in SUBSET S, t # {}, iter[t \ {C[t]}] \in D
        PROVE  iter[t] = Joining(S, q, among)[<<C[t], iter[t \ {C[t]}]>>]
    <3>1. C[t] = Max(t) /\ C[t] \in S
      BY <1>2, <2>2 DEF Chooses
    <3>2. iter[t] = step(iter)[t]
      BY <1>7
    <3>3. Joining(S, q, among)[<<C[t], iter[t \ {C[t]}]>>]
            = IF m.factors[C[t]].role = "support"
              THEN Join(iter[t \ {C[t]}], EncodedScope(c, m.factors[C[t]].scope) \intersect among)
              ELSE iter[t \ {C[t]}]
      <4> HIDE DEF iter, S, C, D, q
      <4> QED BY <1>5, <2>2, <3>1
    <3> HIDE DEF iter, q, D
    <3> QED BY <2>2, <3>1, <3>2, <3>3
  <2> HIDE DEF iter, S, C, D, base, q
  <2> QED BY <1>2, <1>3, <1>4, <2>1, <2>2, FoldIs
<1>9. iter[S] \in SUBSET SUBSET among /\ Parted(iter[S]) /\ \A x \in S : Together(iter[S], q[x])
  <2> HIDE DEF iter, S, C, base, q
  <2> QED BY <1>2, <1>3, <1>8, JoinsKeep
<1>10. ASSUME NEW f \in Range(m.factors), f.role = "support"
       PROVE  Together(iter[S], EncodedScope(c, f.scope) \intersect among)
  <2>1. PICK x \in S : f = m.factors[x]
    BY DEF Range
  <2>2. q[x] = EncodedScope(c, f.scope) \intersect among
    BY <1>10, <2>1
  <2> HIDE DEF iter, S, q
  <2> QED BY <1>9, <2>1, <2>2
<1> HIDE DEF iter
<1> QED BY <1>1, <1>9, <1>10

\* And so do the real variables with what they are conditioned on.
LEMMA BlocksKeep ==
  ASSUME NEW m \in Models, NEW c, NEW among
  PROVE  /\ Parted(BlocksOf(m, c, among))
         /\ \A f \in Range(m.factors) :
              f.role = "support" => Together(BlocksOf(m, c, among), EncodedScope(c, f.scope) \intersect among)
<1> DEFINE S == DOMAIN m.reals
           base == HardGroups(m, c, among)
           D == SUBSET SUBSET among
           q == [r \in S |-> ({r} \union EncodedScope(c, m.reals[r])) \intersect among]
           C == [t \in SUBSET S |-> CHOOSE x \in t : TRUE]
           step(g) == [t \in SUBSET S |-> IF t = {} THEN base
                        ELSE Join(g[t \ {CHOOSE x \in t : TRUE}],
                                  ({CHOOSE x \in t : TRUE} \union EncodedScope(c, m.reals[CHOOSE x \in t : TRUE]))
                                    \intersect among)]
           iter == CHOOSE g : g = step(g)
<1>1. BlocksOf(m, c, among) = iter[S]
  BY Zenon DEF BlocksOf, HardGroups, FoldSet, MapThenFoldSet
<1>2. IsFiniteSet(S) /\ Chooses(C, S)
  BY ModelAssumption DEF Chooses
<1>3. base \in D /\ Parted(base) /\ q \in [S -> SUBSET among]
  BY HardGroupsKeep
<1>4. Closed(Joining(S, q, among), S, D)
  <2> SUFFICES ASSUME NEW x \in S, NEW d \in D PROVE Join(d, q[x]) \in D
    BY DEF Closed, Joining
  <2>1. q[x] \in SUBSET among
    BY <1>3
  <2> QED BY <2>1 DEF Join
<1>5. ASSUME NEW x \in S, NEW d \in D
      PROVE  Joining(S, q, among)[<<x, d>>] = Join(d, ({x} \union EncodedScope(c, m.reals[x])) \intersect among)
  BY DEF Joining
<1>6. \E g : g = step(g)
  <2>1. PICK g : IsFold(g, S, C, D, base, Joining(S, q, among))
    <3> HIDE DEF S, C, D, base, q, step, iter
    <3> QED BY <1>2, <1>3, <1>4, FoldExists
  <2>2. ASSUME NEW t \in SUBSET S PROVE g[t] = step(g)[t]
    <3>1. CASE t = {}
      BY <2>1, <3>1 DEF IsFold
    <3>2. CASE t # {}
      <4>1. PICK x : x = CHOOSE y \in t : TRUE
        OBVIOUS
      <4>2. C[t] = x /\ x \in S /\ t \ {x} \in SUBSET S
        BY <1>2, <3>2, <4>1 DEF Chooses
      <4>3. g[t] = Joining(S, q, among)[<<x, g[t \ {x}]>>] /\ g[t \ {x}] \in D
        <5> HIDE DEF S, C, D, base, q, step, iter
        <5> QED BY <2>1, <3>2, <4>2 DEF IsFold
      <4>4. step(g)[t] = Join(g[t \ {x}], ({x} \union EncodedScope(c, m.reals[x])) \intersect among)
        BY <3>2, <4>1
      <4> HIDE DEF step, q, D, S
      <4> QED BY <4>2, <4>3, <4>4, <1>5
    <3> QED BY <3>1, <3>2
  <2>3. g = step(g)
    <3>1. g = [t \in SUBSET S |-> g[t]]
      BY <2>1 DEF IsFold
    <3>2. step(g) = [t \in SUBSET S |-> step(g)[t]]
      OBVIOUS
    <3> HIDE DEF step
    <3> QED BY <2>2, <3>1, <3>2
  <2> QED BY <2>3
<1>7. iter = step(iter)
  <2> HIDE DEF step
  <2> QED BY <1>6
<1>8. IsFold(iter, S, C, D, base, Joining(S, q, among))
  <2>1. iter = [t \in SUBSET S |-> iter[t]] /\ iter[{}] = base
    <3> HIDE DEF iter, base
    <3> QED BY <1>7
  <2>2. ASSUME NEW t \in SUBSET S, t # {}, iter[t \ {C[t]}] \in D
        PROVE  iter[t] = Joining(S, q, among)[<<C[t], iter[t \ {C[t]}]>>]
    <3>1. PICK x : x = CHOOSE y \in t : TRUE
      OBVIOUS
    <3>2. C[t] = x /\ x \in S
      BY <1>2, <2>2, <3>1 DEF Chooses
    <3>3. iter[t] = Join(iter[t \ {x}], ({x} \union EncodedScope(c, m.reals[x])) \intersect among)
      <4>1. iter[t] = step(iter)[t]
        BY <1>7
      <4> HIDE DEF iter
      <4> QED BY <2>2, <3>1, <4>1
    <3> HIDE DEF iter, S, C, D, q
    <3> QED BY <1>5, <2>2, <3>2, <3>3
  <2> HIDE DEF iter, S, C, D, base, q
  <2> QED BY <1>2, <1>3, <1>4, <2>1, <2>2, FoldIs
<1>9. Parted(iter[S]) /\ \A other : Together(base, other) => Together(iter[S], other)
  <2> HIDE DEF iter, S, C, base, q
  <2> QED BY <1>2, <1>3, <1>8, JoinsKeep
<1>10. \A f \in Range(m.factors) :
         f.role = "support" => Together(base, EncodedScope(c, f.scope) \intersect among)
  BY HardGroupsKeep
<1> HIDE DEF iter, base
<1> QED BY <1>1, <1>9, <1>10

\* A plan is what _blocks() makes of the variables sampled, unless it was given.
PartitionInv ==
  /\ planning = "widening" => subject \in Models
  /\ planning = "planned" =>
       /\ subject \in Models /\ plan.codec = codec /\ plan.sampled = sampled
       /\ UNION plan.blocks = plan.sampled
       /\ config.blocks = {} => plan.blocks = BlocksOf(subject, codec, sampled)

\* The blocks of a plan, as _blocks() makes them for any model, cover what is
\* sampled, are apart, and hold each hard constraint in one block.
THEOREM BlocksHoldConstraints == PlanningSpec => []BlocksKeepConstraints
<1>1. PlanningInit => PartitionInv
  BY DEF PlanningInit, PartitionInv
<1>2. PartitionInv /\ [PlanningNext]_planVars => PartitionInv'
  <2> SUFFICES ASSUME PartitionInv, [PlanningNext]_planVars PROVE PartitionInv'
    OBVIOUS
  <2>1. ASSUME NEW m \in Models, NEW g \in Configs, Assess(m, g) PROVE PartitionInv'
    <3>1. subject' = m /\ planning' \in {"widening", "refused"}
      BY <2>1 DEF Assess, Refuse
    <3> QED BY <3>1 DEF PartitionInv
  <2>2. ASSUME Widen PROVE PartitionInv'
    <3>1. planning' \in {"widening", "refused"} /\ subject' = subject /\ planning = "widening"
      BY <2>2 DEF Widen, Refuse
    <3> QED BY <3>1 DEF PartitionInv
  <2>3. ASSUME Partition PROVE PartitionInv'
    <3> DEFINE blocks == IF config.blocks # {} THEN config.blocks ELSE BlocksOf(subject, codec, sampled)
    <3>1. /\ UNCHANGED <<subject, config, sampled, codec>> /\ planning = "widening"
          /\ \/ /\ UNION blocks = sampled /\ planning' = "planned"
                /\ plan' = [codec |-> codec, sampled |-> sampled, blocks |-> blocks]
             \/ planning' = "refused"
      BY <2>3 DEF Partition
    <3>2. CASE planning' = "refused"
      BY <3>2 DEF PartitionInv
    <3>3. CASE planning' = "planned"
      <4>1. /\ UNION blocks = sampled /\ plan'.codec = codec /\ plan'.sampled = sampled
            /\ plan'.blocks = blocks
        BY <3>1, <3>3
      <4>2. subject' \in Models
        BY <3>1 DEF PartitionInv
      <4>3. config'.blocks = {} => plan'.blocks = BlocksOf(subject, codec, sampled)'
        BY <3>1, <4>1
      <4> HIDE DEF blocks
      <4> QED BY <3>1, <3>3, <4>1, <4>2, <4>3 DEF PartitionInv
    <3> QED BY <3>1, <3>2, <3>3
  <2>4. ASSUME NEW moved, NEW rest, DrawBlock(moved, rest) PROVE PartitionInv'
    BY <2>4 DEF PartitionInv, DrawBlock
  <2>5. CASE UNCHANGED planVars
    BY <2>5 DEF PartitionInv, planVars
  <2> QED BY <2>1, <2>2, <2>3, <2>4, <2>5 DEF PlanningNext
<1>3. PartitionInv => BlocksKeepConstraints
  <2> SUFFICES ASSUME PartitionInv, planning = "planned", config.blocks = {}
               PROVE  /\ UNION plan.blocks = plan.sampled /\ Parted(plan.blocks)
                      /\ \A f \in Range(subject.factors) : f.role = "support" =>
                           Together(plan.blocks, EncodedScope(plan.codec, f.scope) \intersect plan.sampled)
    BY DEF BlocksKeepConstraints, Parted, Together
  <2> QED BY BlocksKeep DEF PartitionInv
<1> QED BY <1>1, <1>2, <1>3, PTL DEF PlanningSpec

-----------------------------------------------------------------------------
(***************************************************************************)
(* The reduction of domains                                                *)
(***************************************************************************)
\* Keys that choices may have, and variables that are clamped.
ChoiceKeys(m) == {ChoiceKey(f) : f \in Range(m.factors)}
Single(m) == {k \in DOMAIN m.domains : Cardinality(m.domains[k]) = 1}

\* Choices have the names of binary variables, each of one choice at most, and
\* the domains are those of the choices and of the variables that are left.
CodecInv(m, c) ==
  /\ DOMAIN c.choices \subseteq ChoiceKeys(m)
  /\ \A f \in Range(m.factors) : ChoiceKey(f) \in DOMAIN c.choices =>
       /\ ExactlyOne(f) /\ c.choices[ChoiceKey(f)] = f.scope
       /\ \A k \in f.scope : k \in DOMAIN m.domains /\ m.domains[k] = TF
  /\ \A a, b \in DOMAIN c.choices : a = b \/ c.choices[a] \intersect c.choices[b] = {}
  /\ DOMAIN c.domains = ((DOMAIN m.domains \ Single(m)) \ UNION Range(c.choices)) \union DOMAIN c.choices
  /\ \A k \in DOMAIN c.domains : c.domains[k] = IF k \in DOMAIN c.choices THEN c.choices[k] ELSE m.domains[k]

\* Where reduction_codec() is, factor by factor.
PartialFunctions(X, Y) == UNION {[A -> Y] : A \in SUBSET X}

CodecStates(m) ==
  {c \in [choices : PartialFunctions(ChoiceKeys(m), SUBSET DOMAIN m.domains),
          domains : PartialFunctions(ChoiceKeys(m) \union DOMAIN m.domains, Range(m.domains) \union SUBSET DOMAIN m.domains)] :
     CodecInv(m, c)}

\* A constraint that reduces takes variables that no choice has.
LEMMA ChoiceScope ==
  ASSUME NEW m \in Models, NEW c, CodecInv(m, c), NEW f \in Range(m.factors), Reduces(f, c, m)
  PROVE  /\ f.scope \subseteq (DOMAIN m.domains \ Single(m)) \ UNION Range(c.choices)
         /\ \A k \in f.scope : m.domains[k] = TF
         /\ ChoiceKey(f) \notin DOMAIN c.choices
<1>1. f.scope \subseteq DOMAIN m.domains \union DOMAIN m.reals /\ ExactlyOne(f) /\ f.scope # {}
  BY ModelAssumption DEF Reduces, ExactlyOne
<1>2. \A k \in f.scope : k \in DOMAIN c.domains /\ c.domains[k] = TF
  BY DEF Reduces
<1>3. \A k \in ChoiceKeys(m) : k \notin DOMAIN m.domains /\ k \notin DOMAIN m.reals
  BY ModelAssumption DEF ChoiceKeys
<1>4. \A k \in f.scope : k \notin DOMAIN c.choices
  BY <1>1, <1>3 DEF CodecInv
<1>5. f.scope \subseteq (DOMAIN m.domains \ Single(m)) \ UNION Range(c.choices)
  BY <1>2, <1>4 DEF CodecInv
<1>6. \A k \in f.scope : m.domains[k] = TF
  BY <1>2, <1>4 DEF CodecInv
<1>7. ChoiceKey(f) \notin DOMAIN c.choices
  <2> SUFFICES ASSUME ChoiceKey(f) \in DOMAIN c.choices PROVE FALSE
    OBVIOUS
  <2>1. c.choices[ChoiceKey(f)] = f.scope
    BY DEF CodecInv
  <2>2. f.scope \subseteq UNION Range(c.choices)
    BY <2>1 DEF Range
  <2> QED BY <1>1, <1>5, <2>2
<1> QED BY <1>5, <1>6, <1>7

\* Taking the variables of a constraint into a choice keeps what a codec is.
LEMMA ReducedKeeps ==
  ASSUME NEW m \in Models, NEW c \in CodecStates(m), NEW f \in Range(m.factors), Reduces(f, c, m)
  PROVE  Reduced(f, c) \in CodecStates(m)
<1>0. CodecInv(m, c)
  BY DEF CodecStates
<1>1. /\ f.scope \subseteq (DOMAIN m.domains \ Single(m)) \ UNION Range(c.choices)
      /\ \A k \in f.scope : m.domains[k] = TF
      /\ ChoiceKey(f) \notin DOMAIN c.choices
  BY <1>0, ChoiceScope
<1>2. PICK key : key = ChoiceKey(f)
  OBVIOUS
<1>3. PICK d : d = Reduced(f, c)
  OBVIOUS
<1>4. /\ d = [choices |-> d.choices, domains |-> d.domains]
      /\ DOMAIN d.choices = DOMAIN c.choices \union {key}
      /\ \A k \in DOMAIN c.choices \union {key} : d.choices[k] = IF k = key THEN f.scope ELSE c.choices[k]
      /\ DOMAIN d.domains = (DOMAIN c.domains \ f.scope) \union {key}
      /\ \A k \in DOMAIN d.domains : d.domains[k] = IF k = key THEN f.scope ELSE c.domains[k]
      /\ d.choices = [k \in DOMAIN d.choices |-> d.choices[k]] /\ d.domains = [k \in DOMAIN d.domains |-> d.domains[k]]
  BY <1>2, <1>3 DEF Reduced, With, Restrict
<1>5. key \in ChoiceKeys(m) /\ key \notin DOMAIN m.domains /\ key \notin DOMAIN m.reals
  BY <1>2, ModelAssumption DEF ChoiceKeys
<1>6. UNION Range(d.choices) = (UNION Range(c.choices)) \union f.scope
  <2>1. \A k \in DOMAIN c.choices : d.choices[k] = c.choices[k]
    BY <1>1, <1>2, <1>4
  <2>2. Range(d.choices) = Range(c.choices) \union {f.scope}
    BY <1>4, <2>1 DEF Range
  <2> QED BY <2>2
<1>7. CodecInv(m, d)
  <2>1. DOMAIN d.choices \subseteq ChoiceKeys(m)
    BY <1>0, <1>4, <1>5 DEF CodecInv
  <2>2. ASSUME NEW g \in Range(m.factors), ChoiceKey(g) \in DOMAIN d.choices
        PROVE  /\ ExactlyOne(g) /\ d.choices[ChoiceKey(g)] = g.scope
               /\ \A k \in g.scope : k \in DOMAIN m.domains /\ m.domains[k] = TF
    <3>1. CASE ChoiceKey(g) = key
      <4>1. g = f
        BY <1>2, <3>1, ModelAssumption
      <4>2. ExactlyOne(f)
        BY DEF Reduces
      <4> QED BY <1>1, <1>2, <1>4, <4>1, <4>2
    <3>2. CASE ChoiceKey(g) # key
      BY <1>0, <1>4, <2>2, <3>2 DEF CodecInv
    <3> QED BY <3>1, <3>2
  <2>3. ASSUME NEW a \in DOMAIN d.choices, NEW b \in DOMAIN d.choices, a # b
        PROVE  d.choices[a] \intersect d.choices[b] = {}
    <3>1. \A k \in DOMAIN c.choices : c.choices[k] \subseteq UNION Range(c.choices)
      BY DEF Range
    <3>2. CASE a = key
      BY <1>1, <1>2, <1>4, <2>3, <3>1, <3>2
    <3>3. CASE b = key
      BY <1>1, <1>2, <1>4, <2>3, <3>1, <3>3
    <3>4. CASE a # key /\ b # key
      BY <1>0, <1>4, <2>3, <3>4 DEF CodecInv
    <3> QED BY <3>2, <3>3, <3>4
  <2>4. DOMAIN d.domains = ((DOMAIN m.domains \ Single(m)) \ UNION Range(d.choices)) \union DOMAIN d.choices
    <3>1. DOMAIN c.domains = ((DOMAIN m.domains \ Single(m)) \ UNION Range(c.choices)) \union DOMAIN c.choices
      BY <1>0 DEF CodecInv
    <3>2. DOMAIN c.choices \intersect f.scope = {}
      <4>1. \A k \in DOMAIN c.choices : k \notin DOMAIN m.domains
        BY <1>0, ModelAssumption DEF CodecInv, ChoiceKeys
      <4> QED BY <1>1, <4>1
    <3> QED BY <1>4, <1>6, <3>1, <3>2
  <2>5. ASSUME NEW k \in DOMAIN d.domains
        PROVE  d.domains[k] = IF k \in DOMAIN d.choices THEN d.choices[k] ELSE m.domains[k]
    <3>1. CASE k = key
      BY <1>4, <3>1
    <3>2. CASE k # key
      BY <1>0, <1>4, <3>2 DEF CodecInv
    <3> QED BY <3>1, <3>2
  <2> QED BY <2>1, <2>2, <2>3, <2>4, <2>5 DEF CodecInv
<1>8. d.choices \in PartialFunctions(ChoiceKeys(m), SUBSET DOMAIN m.domains)
  <2>1. DOMAIN d.choices \in SUBSET ChoiceKeys(m)
    BY <1>7 DEF CodecInv
  <2>2. c.choices \in PartialFunctions(ChoiceKeys(m), SUBSET DOMAIN m.domains)
    BY DEF CodecStates
  <2>3. \A k \in DOMAIN c.choices : c.choices[k] \in SUBSET DOMAIN m.domains
    BY <2>2 DEF PartialFunctions
  <2>4. f.scope \in SUBSET DOMAIN m.domains
    BY <1>1
  <2>5. \A k \in DOMAIN d.choices : d.choices[k] \in SUBSET DOMAIN m.domains
    BY <1>4, <2>3, <2>4
  <2>6. d.choices \in [DOMAIN d.choices -> SUBSET DOMAIN m.domains]
    BY <1>4, <2>5
  <2> QED BY <2>1, <2>6 DEF PartialFunctions
<1>9. d.domains \in PartialFunctions(ChoiceKeys(m) \union DOMAIN m.domains, Range(m.domains) \union SUBSET DOMAIN m.domains)
  <2> DEFINE X == ChoiceKeys(m) \union DOMAIN m.domains
             Y == Range(m.domains) \union SUBSET DOMAIN m.domains
  <2>1. DOMAIN c.domains \in SUBSET X /\ \A k \in DOMAIN c.domains : c.domains[k] \in Y
    <3>1. c.domains \in PartialFunctions(X, Y)
      BY DEF CodecStates
    <3> HIDE DEF X, Y
    <3> QED BY <3>1 DEF PartialFunctions
  <2>2. f.scope \in Y
    BY <1>1
  <2>3. key \in X
    BY <1>5
  <2>4. d.domains \in [DOMAIN d.domains -> Y] /\ DOMAIN d.domains \in SUBSET X
    <3> HIDE DEF X, Y
    <3> QED BY <1>4, <2>1, <2>2, <2>3
  <2> HIDE DEF X, Y
  <2>5. d.domains \in PartialFunctions(X, Y)
    BY <2>4 DEF PartialFunctions
  <2> QED BY <2>5 DEF X, Y
<1>10. d \in [choices : PartialFunctions(ChoiceKeys(m), SUBSET DOMAIN m.domains),
               domains : PartialFunctions(ChoiceKeys(m) \union DOMAIN m.domains, Range(m.domains) \union SUBSET DOMAIN m.domains)]
  BY <1>4, <1>8, <1>9
<1> QED BY <1>3, <1>7, <1>10 DEF CodecStates

\* The codec before the first factor, and after the last.
Unreduced(m) == [choices |-> <<>>, domains |-> Restrict(m.domains, DOMAIN m.domains \ Single(m))]

Reductions(m) ==
  FoldLeft(LAMBDA left, f : IF Reduces(f, left, m) THEN Reduced(f, left) ELSE left, Unreduced(m), m.factors)

\* A codec is what the factors make of the domains, and what is clamped.
LEMMA CodecOfIs ==
  ASSUME NEW m
  PROVE  CodecOf(m) = [choices |-> Reductions(m).choices, domains |-> Reductions(m).domains,
                       clamped |-> [k \in Single(m) |-> CHOOSE v \in m.domains[k] : TRUE]]
BY Zenon DEF CodecOf, Reductions, Unreduced, Single

\* No choice has been made before the first factor.
LEMMA UnreducedIs == ASSUME NEW m \in Models PROVE Unreduced(m) \in CodecStates(m)
<1>1. PICK b : b = Unreduced(m)
  OBVIOUS
<1>2. /\ b = [choices |-> b.choices, domains |-> b.domains] /\ b.choices = <<>> /\ DOMAIN b.choices = {}
      /\ DOMAIN b.domains = DOMAIN m.domains \ Single(m)
      /\ \A k \in DOMAIN b.domains : b.domains[k] = m.domains[k]
      /\ b.domains = [k \in DOMAIN b.domains |-> b.domains[k]]
  BY <1>1 DEF Unreduced, Restrict
<1>3. UNION Range(b.choices) = {}
  BY <1>2 DEF Range
<1>4. CodecInv(m, b)
  BY <1>2, <1>3 DEF CodecInv
<1>5. b.choices \in PartialFunctions(ChoiceKeys(m), SUBSET DOMAIN m.domains)
  <2>1. b.choices \in [{} -> SUBSET DOMAIN m.domains]
    BY <1>2
  <2> QED BY <2>1 DEF PartialFunctions
<1>6. b.domains \in PartialFunctions(ChoiceKeys(m) \union DOMAIN m.domains, Range(m.domains) \union SUBSET DOMAIN m.domains)
  <2> DEFINE X == ChoiceKeys(m) \union DOMAIN m.domains
             Y == Range(m.domains) \union SUBSET DOMAIN m.domains
  <2>1. \A k \in DOMAIN b.domains : b.domains[k] \in Y
    BY <1>2 DEF Range
  <2>2. DOMAIN b.domains \in SUBSET X
    BY <1>2
  <2>3. b.domains \in [DOMAIN b.domains -> Y]
    <3> HIDE DEF X, Y
    <3> QED BY <1>2, <2>1
  <2> HIDE DEF X, Y
  <2>4. b.domains \in PartialFunctions(X, Y)
    BY <2>2, <2>3 DEF PartialFunctions
  <2> QED BY <2>4 DEF X, Y
<1>7. b \in [choices : PartialFunctions(ChoiceKeys(m), SUBSET DOMAIN m.domains),
              domains : PartialFunctions(ChoiceKeys(m) \union DOMAIN m.domains, Range(m.domains) \union SUBSET DOMAIN m.domains)]
  BY <1>2, <1>5, <1>6
<1> QED BY <1>1, <1>4, <1>7 DEF CodecStates

\* Whatever the factors are, and whatever variables they share.
LEMMA ReductionsKeep == ASSUME NEW m \in Models PROVE Reductions(m) \in CodecStates(m)
<1> DEFINE S == DOMAIN m.factors
           base == Unreduced(m)
           D == CodecStates(m)
           C == [t \in SUBSET S |-> Max(t)]
           op(x, d) == IF Reduces(m.factors[x], d, m) THEN Reduced(m.factors[x], d) ELSE d
           G == [p \in S \X D |-> op(p[1], p[2])]
           step(g) == [t \in SUBSET S |-> IF t = {} THEN base ELSE op(Max(t), g[t \ {Max(t)}])]
           iter == CHOOSE g : g = step(g)
<1>1. Reductions(m) = iter[S]
  BY Zenon DEF Reductions, FoldLeft, MapThenFoldSet
<1>2. IsFiniteSet(S) /\ Chooses(C, S)
  <2>1. PICK n \in Nat : S = 1..n
    <3>1. m.factors \in Seq(Range(m.factors))
      BY ModelAssumption
    <3> QED BY <3>1
  <2>2. \A t \in SUBSET S : t # {} => Max(t) \in t
    BY <2>1, MaxIn
  <2> QED BY <2>2, FactorsFinite DEF Chooses
<1>3. base \in D
  BY UnreducedIs
<1>4. ASSUME NEW x \in S, NEW d \in D PROVE op(x, d) \in D /\ G[<<x, d>>] = op(x, d)
  <2>1. m.factors[x] \in Range(m.factors)
    BY DEF Range
  <2>2. op(x, d) \in D
    BY <2>1, ReducedKeeps
  <2> HIDE DEF op, D, S
  <2> QED BY <2>2
<1>5. Closed(G, S, D)
  <2> HIDE DEF G, S, D, op
  <2> QED BY <1>4 DEF Closed
<1>6. \E g : g = step(g)
  <2>1. PICK g : IsFold(g, S, C, D, base, G)
    <3> HIDE DEF S, C, D, base, G, step, iter, op
    <3> QED BY <1>2, <1>3, <1>5, FoldExists
  <2>2. ASSUME NEW t \in SUBSET S PROVE g[t] = step(g)[t]
    <3>1. CASE t = {}
      BY <2>1, <3>1 DEF IsFold
    <3>2. CASE t # {}
      <4>1. C[t] = Max(t) /\ C[t] \in S /\ t \ {C[t]} \in SUBSET S
        BY <1>2, <3>2 DEF Chooses
      <4>2. g[t] = G[<<Max(t), g[t \ {Max(t)}]>>] /\ g[t \ {Max(t)}] \in D
        <5> HIDE DEF S, C, D, base, G, step, iter, op
        <5> QED BY <2>1, <3>2, <4>1 DEF IsFold
      <4>3. g[t] = op(Max(t), g[t \ {Max(t)}])
        <5> HIDE DEF S, C, D, G, op
        <5> QED BY <1>4, <4>1, <4>2
      <4> HIDE DEF op, D, S
      <4> QED BY <3>2, <4>3
    <3> QED BY <3>1, <3>2
  <2>3. g = step(g)
    <3>1. g = [t \in SUBSET S |-> g[t]]
      BY <2>1 DEF IsFold
    <3>2. step(g) = [t \in SUBSET S |-> step(g)[t]]
      OBVIOUS
    <3> HIDE DEF step
    <3> QED BY <2>2, <3>1, <3>2
  <2> QED BY <2>3
<1>7. iter = step(iter)
  <2> HIDE DEF step
  <2> QED BY <1>6
<1>8. IsFold(iter, S, C, D, base, G)
  <2>1. iter = [t \in SUBSET S |-> iter[t]] /\ iter[{}] = base
    <3> HIDE DEF iter, base, op
    <3> QED BY <1>7
  <2>2. ASSUME NEW t \in SUBSET S, t # {}, iter[t \ {C[t]}] \in D
        PROVE  iter[t] = G[<<C[t], iter[t \ {C[t]}]>>]
    <3>1. C[t] = Max(t) /\ C[t] \in S
      BY <1>2, <2>2 DEF Chooses
    <3>2. iter[t] = step(iter)[t]
      BY <1>7
    <3>3. iter[t] = op(Max(t), iter[t \ {Max(t)}])
      <4> HIDE DEF iter, op
      <4> QED BY <2>2, <3>2
    <3> HIDE DEF iter, S, C, D, G, op
    <3> QED BY <1>4, <2>2, <3>1, <3>3
  <2> HIDE DEF iter, S, C, D, base, G
  <2> QED BY <1>2, <1>3, <1>5, <2>1, <2>2, FoldIs
<1>9. iter[S] \in D
  <2> HIDE DEF iter, S, C, D, base, G
  <2> QED BY <1>8 DEF IsFold
<1> HIDE DEF iter
<1> QED BY <1>1, <1>9

\* What reduction_codec() returns: the only value of what is clamped, too.
LEMMA CodecOfInv ==
  ASSUME NEW m \in Models
  PROVE  /\ CodecInv(m, CodecOf(m))
         /\ DOMAIN CodecOf(m).clamped = Single(m)
         /\ \A k \in Single(m) : m.domains[k] = {CodecOf(m).clamped[k]}
<1>1. CodecInv(m, Reductions(m))
  BY ReductionsKeep DEF CodecStates
<1>2. PICK c : c = CodecOf(m)
  OBVIOUS
<1>3. /\ c.choices = Reductions(m).choices /\ c.domains = Reductions(m).domains
      /\ c.clamped = [k \in Single(m) |-> CHOOSE v \in m.domains[k] : TRUE]
  BY <1>2, CodecOfIs
<1>4. CodecInv(m, c)
  BY <1>1, <1>3 DEF CodecInv
<1>5. ASSUME NEW k \in Single(m) PROVE m.domains[k] = {c.clamped[k]}
  <2>1. PICK v : m.domains[k] = {v}
    BY FS_Singleton, ModelAssumption DEF Single
  <2> QED BY <1>3, <2>1
<1> QED BY <1>2, <1>3, <1>4, <1>5

\* A binary variable is not clamped.
LEMMA TwoValues == Cardinality(TF) = 2 /\ IsFiniteSet(TF)
<1>1. TF = {"false"} \union {"true"} /\ "true" \notin {"false"}
  BY DEF TF
<1>2. Cardinality({"false"}) = 1 /\ IsFiniteSet({"false"})
  BY FS_Singleton
<1> QED BY <1>1, <1>2, FS_AddElement

\* Where each variable of a model is, in a codec.
LEMMA CodecParts ==
  ASSUME NEW m \in Models, NEW c, CodecInv(m, c)
  PROVE  /\ \A a \in DOMAIN c.choices :
              /\ a \notin DOMAIN m.domains /\ c.choices[a] # {}
              /\ \A k \in c.choices[a] : k \in DOMAIN m.domains \ Single(m) /\ m.domains[k] = TF
         /\ \A k \in DOMAIN m.domains \ Single(m) :
              k \in DOMAIN c.domains \ DOMAIN c.choices \/ \E a \in DOMAIN c.choices : k \in c.choices[a]
         /\ \A k \in DOMAIN c.domains \ DOMAIN c.choices :
              /\ k \in DOMAIN m.domains \ Single(m) /\ c.domains[k] = m.domains[k]
              /\ \A a \in DOMAIN c.choices : k \notin c.choices[a]
         /\ \A a \in DOMAIN c.choices : a \in DOMAIN c.domains /\ c.domains[a] = c.choices[a]
         /\ \A a \in DOMAIN c.choices : \A k \in c.choices[a] : EncodedKey(c, k) = a /\ k \notin DOMAIN c.domains
<1>1. ASSUME NEW a \in DOMAIN c.choices
      PROVE  /\ a \notin DOMAIN m.domains /\ c.choices[a] # {}
             /\ \A k \in c.choices[a] : k \in DOMAIN m.domains \ Single(m) /\ m.domains[k] = TF
  <2>1. PICK f \in Range(m.factors) : a = ChoiceKey(f)
    BY DEF CodecInv, ChoiceKeys
  <2>2. /\ c.choices[a] = f.scope /\ f.scope # {}
        /\ \A k \in f.scope : k \in DOMAIN m.domains /\ m.domains[k] = TF
    BY <2>1 DEF CodecInv, ExactlyOne
  <2>3. \A k \in f.scope : k \notin Single(m)
    BY <2>2, TwoValues DEF Single
  <2>4. a \notin DOMAIN m.domains
    BY <2>1, ModelAssumption
  <2> QED BY <2>2, <2>3, <2>4
<1>2. \A k : k \in UNION Range(c.choices) <=> \E a \in DOMAIN c.choices : k \in c.choices[a]
  BY DEF Range
<1>3. /\ DOMAIN c.domains = ((DOMAIN m.domains \ Single(m)) \ UNION Range(c.choices)) \union DOMAIN c.choices
      /\ \A k \in DOMAIN c.domains : c.domains[k] = IF k \in DOMAIN c.choices THEN c.choices[k] ELSE m.domains[k]
  BY DEF CodecInv
<1>4. ASSUME NEW a \in DOMAIN c.choices, NEW k \in c.choices[a]
      PROVE  EncodedKey(c, k) = a /\ k \notin DOMAIN c.domains
  <2>1. \A b \in DOMAIN c.choices : k \in c.choices[b] => b = a
    BY DEF CodecInv
  <2>2. EncodedKey(c, k) = CHOOSE b \in DOMAIN c.choices : k \in c.choices[b]
    BY DEF EncodedKey
  <2>3. EncodedKey(c, k) = a
    BY <2>1, <2>2
  <2>4. k \notin DOMAIN c.choices
    BY <1>1
  <2> QED BY <1>2, <1>3, <2>3, <2>4
<1>5. \A k \in DOMAIN m.domains \ Single(m) :
        k \in DOMAIN c.domains \ DOMAIN c.choices \/ \E a \in DOMAIN c.choices : k \in c.choices[a]
  BY <1>1, <1>2, <1>3
<1>6. \A k \in DOMAIN c.domains \ DOMAIN c.choices :
        /\ k \in DOMAIN m.domains \ Single(m) /\ c.domains[k] = m.domains[k]
        /\ \A a \in DOMAIN c.choices : k \notin c.choices[a]
  BY <1>2, <1>3
<1>7. \A a \in DOMAIN c.choices : a \in DOMAIN c.domains /\ c.domains[a] = c.choices[a]
  BY <1>3
<1> QED BY <1>1, <1>4, <1>5, <1>6, <1>7

\* What the lemmas below need of a codec.
IsCodecOf(c, m) ==
  /\ CodecInv(m, c)
  /\ DOMAIN c.clamped = Single(m)
  /\ \A k \in Single(m) : m.domains[k] = {c.clamped[k]}

\* The value that expand() gives to each variable.
LEMMA Expanded ==
  ASSUME NEW m \in Models, NEW c, IsCodecOf(c, m), NEW e \in StatesOf(c.domains)
  PROVE  /\ Expand(c, e) = [k \in DOMAIN m.domains |-> Expand(c, e)[k]]
         /\ \A k \in Single(m) : Expand(c, e)[k] = c.clamped[k]
         /\ \A a \in DOMAIN c.choices : \A k \in c.choices[a] :
              Expand(c, e)[k] = IF e[a] = k THEN "true" ELSE "false"
         /\ \A k \in DOMAIN c.domains \ DOMAIN c.choices : Expand(c, e)[k] = e[k]
<1>1. DOMAIN e = DOMAIN c.domains
  BY DEF StatesOf
<1>2. CodecInv(m, c) /\ DOMAIN c.clamped = Single(m)
  BY DEF IsCodecOf
<1>3. ExpandedKeys(c, DOMAIN e) = DOMAIN m.domains
  <2>1. \A k : k \in UNION {c.choices[b] : b \in DOMAIN e \intersect DOMAIN c.choices}
               <=> \E a \in DOMAIN c.choices : k \in c.choices[a]
    BY <1>1, <1>2, CodecParts
  <2>2. Single(m) \subseteq DOMAIN m.domains
    BY DEF Single
  <2> QED BY <1>1, <1>2, <2>1, <2>2, CodecParts DEF ExpandedKeys
<1>4. Expand(c, e) = [k \in DOMAIN m.domains |->
                        IF k \in Single(m) THEN c.clamped[k]
                        ELSE IF k \in DOMAIN c.domains THEN e[k] ELSE Chosen(c, e, k)]
  BY <1>1, <1>2, <1>3 DEF Expand
<1>5. PICK s : s = Expand(c, e)
  OBVIOUS
<1>6. s = [k \in DOMAIN m.domains |-> s[k]]
  BY <1>4, <1>5
<1>7. \A k \in Single(m) : s[k] = c.clamped[k]
  BY <1>4, <1>5 DEF Single
<1>8. ASSUME NEW a \in DOMAIN c.choices, NEW k \in c.choices[a] PROVE s[k] = IF e[a] = k THEN "true" ELSE "false"
  <2>1. k \in DOMAIN m.domains \ Single(m) /\ EncodedKey(c, k) = a /\ k \notin DOMAIN c.domains
    BY <1>2, CodecParts
  <2>2. s[k] = Chosen(c, e, k)
    BY <1>4, <1>5, <2>1
  <2> QED BY <2>1, <2>2 DEF Chosen
<1>9. ASSUME NEW k \in DOMAIN c.domains \ DOMAIN c.choices PROVE s[k] = e[k]
  <2>1. k \in DOMAIN m.domains \ Single(m)
    BY <1>2, CodecParts
  <2> QED BY <1>4, <1>5, <2>1
<1> QED BY <1>5, <1>6, <1>7, <1>8, <1>9

\* Each choice is made: exactly one of its variables is true.
ChoicesMade(c, s) == \A a \in DOMAIN c.choices : \E v \in c.choices[a] : {k \in c.choices[a] : s[k] = "true"} = {v}

\* An encoded state expands to a state in which each choice is made.
LEMMA ExpandedIsState ==
  ASSUME NEW m \in Models, NEW c, IsCodecOf(c, m), NEW e \in StatesOf(c.domains)
  PROVE  Expand(c, e) \in StatesOf(m.domains) /\ ChoicesMade(c, Expand(c, e))
<1>0. CodecInv(m, c)
  BY DEF IsCodecOf
<1>1. PICK s : s = Expand(c, e)
  OBVIOUS
<1>2. /\ s = [k \in DOMAIN m.domains |-> s[k]]
      /\ \A k \in Single(m) : s[k] = c.clamped[k]
      /\ \A a \in DOMAIN c.choices : \A k \in c.choices[a] : s[k] = IF e[a] = k THEN "true" ELSE "false"
      /\ \A k \in DOMAIN c.domains \ DOMAIN c.choices : s[k] = e[k]
  BY <1>1, Expanded
<1>3. \A k \in DOMAIN c.domains : e[k] \in c.domains[k]
  BY DEF StatesOf
<1>4. ASSUME NEW k \in DOMAIN m.domains PROVE s[k] \in m.domains[k]
  <2>1. CASE k \in Single(m)
    BY <1>2, <2>1 DEF IsCodecOf
  <2>2. CASE k \in DOMAIN c.domains \ DOMAIN c.choices
    <3>1. c.domains[k] = m.domains[k]
      BY <1>0, <2>2, CodecParts
    <3> QED BY <1>2, <1>3, <2>2, <3>1
  <2>3. ASSUME NEW a \in DOMAIN c.choices, k \in c.choices[a] PROVE s[k] \in m.domains[k]
    <3>1. m.domains[k] = TF
      BY <1>0, <2>3, CodecParts
    <3> QED BY <1>2, <2>3, <3>1 DEF TF
  <2> QED BY <1>0, <2>1, <2>2, <2>3, CodecParts
<1>5. s \in StatesOf(m.domains)
  <2>1. \A k \in DOMAIN m.domains : s[k] \in UNION Range(m.domains)
    BY <1>4 DEF Range
  <2>2. s \in [DOMAIN m.domains -> UNION Range(m.domains)]
    BY <1>2, <2>1
  <2> QED BY <1>4, <2>2 DEF StatesOf
<1>6. ASSUME NEW a \in DOMAIN c.choices PROVE \E v \in c.choices[a] : {k \in c.choices[a] : s[k] = "true"} = {v}
  <2>1. e[a] \in c.choices[a]
    BY <1>0, <1>3, CodecParts
  <2>2. {k \in c.choices[a] : s[k] = "true"} = {e[a]}
    BY <1>2, <2>1
  <2> QED BY <2>1, <2>2
<1> QED BY <1>1, <1>5, <1>6 DEF ChoicesMade

\* Every state in which each choice is made is expanded to.
LEMMA StateIsExpanded ==
  ASSUME NEW m \in Models, NEW c, IsCodecOf(c, m), NEW s \in StatesOf(m.domains), ChoicesMade(c, s)
  PROVE  \E e \in StatesOf(c.domains) : s = Expand(c, e)
<1>0. CodecInv(m, c)
  BY DEF IsCodecOf
<1> DEFINE e == [k \in DOMAIN c.domains |->
                  IF k \in DOMAIN c.choices THEN CHOOSE v \in c.choices[k] : s[v] = "true" ELSE s[k]]
<1>1. /\ DOMAIN s = DOMAIN m.domains /\ s = [k \in DOMAIN m.domains |-> s[k]]
      /\ \A k \in DOMAIN m.domains : s[k] \in m.domains[k]
  BY DEF StatesOf
<1>2. ASSUME NEW a \in DOMAIN c.choices
      PROVE  e[a] \in c.choices[a] /\ \A k \in c.choices[a] : s[k] = "true" <=> k = e[a]
  <2>1. PICK v \in c.choices[a] : {k \in c.choices[a] : s[k] = "true"} = {v}
    BY DEF ChoicesMade
  <2>2. \A k \in c.choices[a] : s[k] = "true" <=> k = v
    BY <2>1
  <2>3. v = CHOOSE w \in c.choices[a] : s[w] = "true"
    BY <2>2
  <2>4. a \in DOMAIN c.domains
    BY <1>0, CodecParts
  <2>5. e[a] = v
    BY <2>3, <2>4
  <2> QED BY <2>2, <2>5
<1>3. e \in StatesOf(c.domains)
  <2>1. ASSUME NEW k \in DOMAIN c.domains PROVE e[k] \in c.domains[k]
    <3>1. CASE k \in DOMAIN c.choices
      <4>1. c.domains[k] = c.choices[k]
        BY <1>0, <3>1, CodecParts
      <4> HIDE DEF e
      <4> QED BY <1>2, <3>1, <4>1
    <3>2. CASE k \notin DOMAIN c.choices
      <4>1. k \in DOMAIN m.domains /\ c.domains[k] = m.domains[k]
        BY <1>0, <3>2, CodecParts
      <4> QED BY <1>1, <3>2, <4>1
    <3> QED BY <3>1, <3>2
  <2>2. DOMAIN e = DOMAIN c.domains /\ e = [k \in DOMAIN c.domains |-> e[k]]
    OBVIOUS
  <2> HIDE DEF e
  <2>3. \A k \in DOMAIN c.domains : e[k] \in UNION Range(c.domains)
    BY <2>1 DEF Range
  <2>4. e \in [DOMAIN c.domains -> UNION Range(c.domains)]
    BY <2>2, <2>3
  <2> QED BY <2>1, <2>4 DEF StatesOf
<1>4. \A k \in DOMAIN c.domains \ DOMAIN c.choices : e[k] = s[k]
  OBVIOUS
<1> HIDE DEF e
<1>5. PICK x : x = Expand(c, e)
  OBVIOUS
<1>6. /\ x = [k \in DOMAIN m.domains |-> x[k]]
      /\ \A k \in Single(m) : x[k] = c.clamped[k]
      /\ \A a \in DOMAIN c.choices : \A k \in c.choices[a] : x[k] = IF e[a] = k THEN "true" ELSE "false"
      /\ \A k \in DOMAIN c.domains \ DOMAIN c.choices : x[k] = e[k]
  BY <1>3, <1>5, Expanded
<1>7. ASSUME NEW k \in DOMAIN m.domains PROVE x[k] = s[k]
  <2>1. CASE k \in Single(m)
    BY <1>1, <1>6, <2>1 DEF IsCodecOf
  <2>2. CASE k \in DOMAIN c.domains \ DOMAIN c.choices
    BY <1>4, <1>6, <2>2
  <2>3. ASSUME NEW a \in DOMAIN c.choices, k \in c.choices[a] PROVE x[k] = s[k]
    <3>1. m.domains[k] = TF
      BY <1>0, <2>3, CodecParts
    <3>2. s[k] \in {"false", "true"}
      BY <1>1, <3>1 DEF TF
    <3> QED BY <1>2, <1>6, <2>3, <3>2
  <2> QED BY <1>0, <2>1, <2>2, <2>3, CodecParts
<1>8. s = x
  BY <1>1, <1>6, <1>7
<1> QED BY <1>3, <1>5, <1>8

\* No state is expanded to twice.
LEMMA ExpandedOnce ==
  ASSUME NEW m \in Models, NEW c, IsCodecOf(c, m), NEW d \in StatesOf(c.domains), NEW e \in StatesOf(c.domains),
         Expand(c, d) = Expand(c, e)
  PROVE  d = e
<1>0. CodecInv(m, c)
  BY DEF IsCodecOf
<1>1. /\ d = [k \in DOMAIN c.domains |-> d[k]] /\ e = [k \in DOMAIN c.domains |-> e[k]]
      /\ \A k \in DOMAIN c.domains : d[k] \in c.domains[k] /\ e[k] \in c.domains[k]
  BY DEF StatesOf
<1>2. ASSUME NEW k \in DOMAIN c.domains PROVE d[k] = e[k]
  <2>1. CASE k \in DOMAIN c.choices
    <3>1. d[k] \in c.choices[k]
      BY <1>0, <1>1, <2>1, CodecParts
    <3>2. Expand(c, d)[d[k]] = "true"
      BY <2>1, <3>1, Expanded
    <3>3. Expand(c, e)[d[k]] = IF e[k] = d[k] THEN "true" ELSE "false"
      BY <2>1, <3>1, Expanded
    <3> QED BY <3>2, <3>3
  <2>2. CASE k \notin DOMAIN c.choices
    <3>1. Expand(c, d)[k] = d[k] /\ Expand(c, e)[k] = e[k]
      BY <2>2, Expanded
    <3> QED BY <3>1
  <2> QED BY <2>1, <2>2
<1> QED BY <1>1, <1>2

\* There are finitely many functions between finite sets.
LEMMA FiniteFunctions ==
  ASSUME NEW X, IsFiniteSet(X), NEW Y, IsFiniteSet(Y) PROVE IsFiniteSet([X -> Y])
<1> DEFINE graph(f) == {<<x, f[x]>> : x \in X}
           h == [f \in [X -> Y] |-> graph(f)]
<1>1. IsFiniteSet(SUBSET (X \X Y))
  BY FS_Product, FS_SUBSET
<1>2. h \in [[X -> Y] -> SUBSET (X \X Y)]
  OBVIOUS
<1>3. ASSUME NEW f \in [X -> Y], NEW g \in [X -> Y], h[f] = h[g] PROVE f = g
  <2>1. ASSUME NEW x \in X PROVE f[x] = g[x]
    <3>1. <<x, f[x]>> \in graph(g)
      BY <1>3
    <3> QED BY <3>1
  <2> QED BY <2>1
<1>4. h \in Injection([X -> Y], SUBSET (X \X Y))
  <2> DEFINE A == [X -> Y]  B == SUBSET (X \X Y)
  <2>1. h \in [A -> B] /\ \A f, g \in A : h[f] = h[g] => f = g
    BY <1>2, <1>3
  <2> HIDE DEF h, A, B
  <2>2. h \in Injection(A, B)
    BY <2>1 DEF Injection, IsInjective
  <2> QED BY <2>2 DEF A, B
<1> HIDE DEF h
<1> QED BY <1>1, <1>4, FS_Injection

\* A function on a finite set has finitely many values.
LEMMA FiniteRange ==
  ASSUME NEW f, IsFiniteSet(DOMAIN f) PROVE IsFiniteSet(Range(f))
<1> DEFINE h == [x \in DOMAIN f |-> f[x]]
<1>1. h \in Surjection(DOMAIN f, Range(f))
  BY DEF Surjection, Range
<1> QED BY <1>1, FS_Surjection

\* Finite domains have finitely many states.
LEMMA FiniteStates ==
  ASSUME NEW domains, IsFiniteSet(DOMAIN domains), \A k \in DOMAIN domains : IsFiniteSet(domains[k])
  PROVE  IsFiniteSet(StatesOf(domains))
<1>1. IsFiniteSet(UNION Range(domains))
  <2>1. IsFiniteSet(Range(domains))
    BY FiniteRange
  <2>2. \A x \in Range(domains) : IsFiniteSet(x)
    BY DEF Range
  <2> QED BY <2>1, <2>2, FS_UNION
<1>2. IsFiniteSet([DOMAIN domains -> UNION Range(domains)])
  BY <1>1, FiniteFunctions
<1>3. StatesOf(domains) \in SUBSET [DOMAIN domains -> UNION Range(domains)]
  BY DEF StatesOf
<1> QED BY <1>2, <1>3, FS_Subset

\* A codec has finite domains.
LEMMA FiniteCodec ==
  ASSUME NEW m \in Models, NEW c, CodecInv(m, c)
  PROVE  IsFiniteSet(DOMAIN c.domains) /\ \A k \in DOMAIN c.domains : IsFiniteSet(c.domains[k])
<1>1. IsFiniteSet(DOMAIN m.domains) /\ \A k \in DOMAIN m.domains : IsFiniteSet(m.domains[k])
  BY ModelAssumption
<1>2. IsFiniteSet(ChoiceKeys(m))
  <2> DEFINE h == [f \in Range(m.factors) |-> ChoiceKey(f)]
  <2>1. h \in Surjection(Range(m.factors), ChoiceKeys(m))
    BY DEF Surjection, ChoiceKeys
  <2>2. IsFiniteSet(Range(m.factors))
    BY FactorsFinite
  <2> QED BY <2>1, <2>2, FS_Surjection
<1>3. DOMAIN c.domains \in SUBSET (DOMAIN m.domains \union ChoiceKeys(m))
  BY DEF CodecInv
<1>4. IsFiniteSet(DOMAIN m.domains \union ChoiceKeys(m))
  BY <1>1, <1>2, FS_Union
<1>5. IsFiniteSet(DOMAIN c.domains)
  BY <1>3, <1>4, FS_Subset
<1>6. ASSUME NEW k \in DOMAIN c.domains PROVE IsFiniteSet(c.domains[k])
  <2>1. CASE k \in DOMAIN c.choices
    <3>1. c.domains[k] = c.choices[k] /\ c.choices[k] \in SUBSET DOMAIN m.domains
      BY <2>1, CodecParts
    <3> QED BY <1>1, <3>1, FS_Subset
  <2>2. CASE k \notin DOMAIN c.choices
    BY <1>1, <2>2, CodecParts
  <2> QED BY <2>1, <2>2
<1> QED BY <1>5, <1>6

\* The states of a codec are, one to one, those in which each choice is made.
LEMMA LosslessIs ==
  ASSUME NEW m \in Models, NEW c, IsCodecOf(c, m)
  PROVE  /\ {Expand(c, e) : e \in StatesOf(c.domains)} = {s \in StatesOf(m.domains) : ChoicesMade(c, s)}
         /\ Cardinality({Expand(c, e) : e \in StatesOf(c.domains)}) = Cardinality(StatesOf(c.domains))
<1> DEFINE E == StatesOf(c.domains)
           X == {Expand(c, e) : e \in E}
           h == [e \in E |-> Expand(c, e)]
<1>1. X = {s \in StatesOf(m.domains) : ChoicesMade(c, s)}
  BY ExpandedIsState, StateIsExpanded
<1>2. IsFiniteSet(E)
  BY FiniteCodec, FiniteStates DEF IsCodecOf
<1>3. h \in [E -> X] /\ (\A d, e \in E : h[d] = h[e] => d = e) /\ \A s \in X : \E e \in E : h[e] = s
  BY ExpandedOnce
<1>4. ExistsBijection(E, X)
  <2> HIDE DEF h, E, X
  <2>1. h \in Injection(E, X) /\ h \in Surjection(E, X)
    BY <1>3 DEF Injection, IsInjective, Surjection
  <2> QED BY <2>1 DEF ExistsBijection, Bijection
<1>5. Cardinality(X) = Cardinality(E)
  <2> HIDE DEF h, E, X
  <2> QED BY <1>2, <1>4, FS_Bijection
<1> QED BY <1>1, <1>5

\* A choice is made where its constraint counts one.
LEMMA CountsChosen ==
  ASSUME NEW m \in Models, NEW c, CodecInv(m, c), NEW s \in StatesOf(m.domains)
  PROVE  ChoicesMade(c, s) <=>
           \A f \in {g \in Range(m.factors) : ChoiceKey(g) \in DOMAIN c.choices} : Trues(f, s) = 1
<1>1. ASSUME NEW f \in Range(m.factors), ChoiceKey(f) \in DOMAIN c.choices
      PROVE  Trues(f, s) = 1 <=>
               \E v \in c.choices[ChoiceKey(f)] : {k \in c.choices[ChoiceKey(f)] : s[k] = "true"} = {v}
  <2>1. c.choices[ChoiceKey(f)] = f.scope /\ f.scope \subseteq DOMAIN m.domains
    BY <1>1 DEF CodecInv
  <2>2. IsFiniteSet({k \in f.scope : s[k] = "true"})
    <3>1. IsFiniteSet(DOMAIN m.domains) /\ {k \in f.scope : s[k] = "true"} \in SUBSET DOMAIN m.domains
      BY <2>1, ModelAssumption
    <3> QED BY <3>1, FS_Subset
  <2>3. Cardinality({k \in f.scope : s[k] = "true"}) = 1 <=> \E v : {k \in f.scope : s[k] = "true"} = {v}
    BY <2>2, FS_Singleton
  <2> QED BY <2>1, <2>3 DEF Trues
<1>2. \A a \in DOMAIN c.choices : \E f \in Range(m.factors) : a = ChoiceKey(f)
  BY DEF CodecInv, ChoiceKeys
<1> QED BY <1>1, <1>2 DEF ChoicesMade

\* The codec is that of the model.
CodecStateInv == codec # Nowhere => subject \in Models /\ codec = CodecOf(subject)

\* Reducing a model loses no state with mass, and counts none twice, whatever
\* variables its constraints share.
THEOREM CodecsAreLossless == PlanningSpec => []CodecIsLossless
<1>1. PlanningInit => CodecStateInv
  BY DEF PlanningInit, CodecStateInv
<1>2. CodecStateInv /\ [PlanningNext]_planVars => CodecStateInv'
  <2> SUFFICES ASSUME CodecStateInv, [PlanningNext]_planVars PROVE CodecStateInv'
    OBVIOUS
  <2>1. ASSUME NEW m \in Models, NEW g \in Configs, Assess(m, g) PROVE CodecStateInv'
    BY <2>1 DEF Assess, CodecStateInv
  <2>2. ASSUME UNCHANGED <<subject, codec>> PROVE CodecStateInv'
    BY <2>2 DEF CodecStateInv
  <2>3. Widen \/ Partition \/ UNCHANGED planVars => UNCHANGED <<subject, codec>>
    BY DEF Widen, Partition, planVars
  <2>4. \A moved, rest : DrawBlock(moved, rest) => UNCHANGED <<subject, codec>>
    BY DEF DrawBlock
  <2> QED BY <2>1, <2>2, <2>3, <2>4 DEF PlanningNext
<1>3. CodecStateInv => CodecIsLossless
  <2> SUFFICES ASSUME CodecStateInv, codec # Nowhere PROVE CodecIsLossless
    BY DEF CodecIsLossless
  <2>1. subject \in Models /\ IsCodecOf(codec, subject)
    BY CodecOfInv DEF CodecStateInv, IsCodecOf
  <2>2. CodecInv(subject, codec)
    BY <2>1 DEF IsCodecOf
  <2>3. {Expand(codec, e) : e \in StatesOf(codec.domains)}
          = {s \in StatesOf(subject.domains) : ChoicesMade(codec, s)}
    BY <2>1, LosslessIs
  <2>4. Cardinality({Expand(codec, e) : e \in StatesOf(codec.domains)}) = Cardinality(StatesOf(codec.domains))
    BY <2>1, LosslessIs
  <2>5. {s \in StatesOf(subject.domains) : ChoicesMade(codec, s)}
          = {s \in StatesOf(subject.domains) :
               \A f \in {g \in Range(subject.factors) : ChoiceKey(g) \in DOMAIN codec.choices} : Trues(f, s) = 1}
    BY <2>1, <2>2, CountsChosen
  <2> QED BY <2>3, <2>4, <2>5 DEF CodecIsLossless
<1> QED BY <1>1, <1>2, <1>3, PTL DEF PlanningSpec

-----------------------------------------------------------------------------
(***************************************************************************)
(* Conditionals of blocks                                                  *)
(***************************************************************************)
\* The product of _block_table(): kernels see the values of their scope.
EncodedWeight(m, c, e) ==
  Product(Range(m.factors), LAMBDA f : Weight(m, f, [k \in f.scope |-> Expand(c, e)[k]]))

\* A factor weighs a state by the values in its scope.
LEMMA WeightInScope ==
  ASSUME NEW m, NEW f, NEW s PROVE Weight(m, f, [k \in f.scope |-> s[k]]) = Weight(m, f, s)
<1> DEFINE t == [k \in f.scope |-> s[k]]
<1>1. [k \in f.scope |-> t[k]] = [k \in f.scope |-> s[k]] /\ \A k \in f.scope : t[k] = s[k]
  OBVIOUS
<1>2. Trues(f, t) = Trues(f, s)
  <2>1. {k \in f.scope : t[k] = "true"} = {k \in f.scope : s[k] = "true"}
    BY <1>1
  <2> HIDE DEF t
  <2> QED BY <2>1 DEF Trues
<1> HIDE DEF t
<1> SUFFICES Weight(m, f, t) = Weight(m, f, s)
  BY DEF t
<1> QED BY <1>1, <1>2 DEF Weight

\* So an encoded state has the weight of what it expands to.
LEMMA EncodedWeightIs ==
  ASSUME NEW m, NEW c, NEW e PROVE EncodedWeight(m, c, e) = WeightOf(m, Expand(c, e))
<1> DEFINE S == Range(m.factors)
           s == Expand(c, e)
           step(g) == [t \in SUBSET S |-> IF t = {} THEN 1
                        ELSE Weight(m, CHOOSE x \in t : TRUE, s) * g[t \ {CHOOSE x \in t : TRUE}]]
           original(f) == Weight(m, f, [k \in f.scope |-> Expand(c, e)[k]])
           other(g) == [t \in SUBSET S |-> IF t = {} THEN 1
                         ELSE original(CHOOSE x \in t : TRUE) * g[t \ {CHOOSE x \in t : TRUE}]]
<1>1. WeightOf(m, s) = (CHOOSE g : g = step(g))[S]
  BY Zenon DEF WeightOf, Product, FoldSet, MapThenFoldSet
<1>2. EncodedWeight(m, c, e) = (CHOOSE g : g = other(g))[S]
  BY Zenon DEF EncodedWeight, Product, FoldSet, MapThenFoldSet
<1>3. \A f \in S : original(f) = Weight(m, f, s)
  BY WeightInScope
<1>4. ASSUME NEW g PROVE step(g) = other(g)
  <2> HIDE DEF original, s, S
  <2>1. \A t \in SUBSET S : t # {} => original(CHOOSE x \in t : TRUE) = Weight(m, CHOOSE x \in t : TRUE, s)
    BY <1>3
  <2> QED BY <2>1
<1>5. (CHOOSE g : g = step(g)) = CHOOSE g : g = other(g)
  <2> HIDE DEF step, other
  <2> QED BY <1>4
<1> HIDE DEF step, other, s
<1> QED BY <1>1, <1>2, <1>5 DEF s

\* States of the variables that are not fixed, that agree on a block, and the sum
\* of _block_table() over such states.
FreeStates(c, rest, moved, x) ==
  {e \in StatesOf(Restrict(c.domains, DOMAIN c.domains \ DOMAIN rest)) : \A k \in moved : e[k] = x[k]}

Summed(m, c, rest, S) == Total(S, LAMBDA e : EncodedWeight(m, c, Over(e, rest)))

\* The states of a model that agree with part of one, and their mass.
Agreeing(m, part) == {s \in StatesOf(m.domains) : \A k \in DOMAIN part : s[k] = part[k]}

Mass(m, part) == SumOf(Agreeing(m, part), [s \in Agreeing(m, part) |-> WeightOf(m, s)])

\* The sum of _block_table() is one of weights of states.
LEMMA SummedIs ==
  ASSUME NEW m, NEW c, NEW rest, NEW S
  PROVE  Summed(m, c, rest, S) = SumOf(S, [e \in S |-> WeightOf(m, Expand(c, Over(e, rest)))])
<1> DEFINE w == [e \in S |-> WeightOf(m, Expand(c, Over(e, rest)))]
           value(e) == EncodedWeight(m, c, Over(e, rest))
           step(g) == [t \in SUBSET S |-> IF t = {} THEN 0
                        ELSE value(CHOOSE y \in t : TRUE) + g[t \ {CHOOSE y \in t : TRUE}]]
           other(g) == [t \in SUBSET S |-> IF t = {} THEN 0
                         ELSE w[CHOOSE y \in t : TRUE] + g[t \ {CHOOSE y \in t : TRUE}]]
<1>1. Summed(m, c, rest, S) = (CHOOSE g : g = step(g))[S]
  BY Zenon DEF Summed, Total, FoldSet, MapThenFoldSet
<1>2. SumOf(S, w) = (CHOOSE g : g = other(g))[S]
  BY Zenon DEF SumOf, FoldSet, MapThenFoldSet
<1>3. \A e \in S : w[e] = value(e)
  BY EncodedWeightIs
<1>4. ASSUME NEW g PROVE step(g) = other(g)
  <2> HIDE DEF w, value
  <2>1. \A t \in SUBSET S : t # {} => w[CHOOSE y \in t : TRUE] = value(CHOOSE y \in t : TRUE)
    BY <1>3
  <2> QED BY <2>1
<1>5. (CHOOSE g : g = step(g)) = CHOOSE g : g = other(g)
  <2> HIDE DEF step, other
  <2> QED BY <1>4
<1> HIDE DEF step, other
<1> QED BY <1>1, <1>2, <1>5

\* So is the total that a table is compared with.
LEMMA TotalIs ==
  ASSUME NEW m, NEW S
  PROVE  Total(S, LAMBDA s : WeightOf(m, s)) = SumOf(S, [s \in S |-> WeightOf(m, s)])
<1> DEFINE w == [s \in S |-> WeightOf(m, s)]
           step(g) == [t \in SUBSET S |-> IF t = {} THEN 0
                        ELSE WeightOf(m, CHOOSE y \in t : TRUE) + g[t \ {CHOOSE y \in t : TRUE}]]
           other(g) == [t \in SUBSET S |-> IF t = {} THEN 0
                         ELSE w[CHOOSE y \in t : TRUE] + g[t \ {CHOOSE y \in t : TRUE}]]
<1>1. Total(S, LAMBDA s : WeightOf(m, s)) = (CHOOSE g : g = step(g))[S]
  BY Zenon DEF Total, FoldSet, MapThenFoldSet
<1>2. SumOf(S, w) = (CHOOSE g : g = other(g))[S]
  BY Zenon DEF SumOf, FoldSet, MapThenFoldSet
<1>3. \A t \in SUBSET S : t # {} => w[CHOOSE y \in t : TRUE] = WeightOf(m, CHOOSE y \in t : TRUE)
  OBVIOUS
<1>4. ASSUME NEW g PROVE step(g) = other(g)
  <2> HIDE DEF w
  <2> QED BY <1>3
<1>5. (CHOOSE g : g = step(g)) = CHOOSE g : g = other(g)
  <2> HIDE DEF step, other
  <2> QED BY <1>4
<1> HIDE DEF step, other
<1> QED BY <1>1, <1>2, <1>5

\* An expanded state agrees with an expanded part of one where the states do.
LEMMA PartlyExpanded ==
  ASSUME NEW m \in Models, NEW c, IsCodecOf(c, m), NEW e \in StatesOf(c.domains),
         NEW p, DOMAIN p \subseteq DOMAIN c.domains, \A k \in DOMAIN p : p[k] \in c.domains[k]
  PROVE  (\A k \in DOMAIN Expand(c, p) : Expand(c, e)[k] = Expand(c, p)[k]) <=> \A k \in DOMAIN p : e[k] = p[k]
<1>0. CodecInv(m, c) /\ DOMAIN c.clamped = Single(m)
  BY DEF IsCodecOf
<1>1. PICK s, t : s = Expand(c, e) /\ t = Expand(c, p)
  OBVIOUS
<1>2. /\ \A k \in Single(m) : s[k] = c.clamped[k]
      /\ \A a \in DOMAIN c.choices : \A k \in c.choices[a] : s[k] = IF e[a] = k THEN "true" ELSE "false"
      /\ \A k \in DOMAIN c.domains \ DOMAIN c.choices : s[k] = e[k]
  BY <1>1, Expanded
<1>3. /\ DOMAIN t = ExpandedKeys(c, DOMAIN p)
      /\ \A k \in DOMAIN t : t[k] = IF k \in DOMAIN c.clamped THEN c.clamped[k]
                                    ELSE IF k \in DOMAIN p THEN p[k] ELSE Chosen(c, p, k)
  BY <1>1 DEF Expand
<1>4. ASSUME NEW k \in DOMAIN p \ DOMAIN c.choices PROVE k \in DOMAIN t /\ t[k] = p[k] /\ s[k] = e[k]
  <2>1. k \in DOMAIN t
    BY <1>3 DEF ExpandedKeys
  <2>2. k \notin Single(m)
    BY <1>0, CodecParts
  <2> QED BY <1>0, <1>2, <1>3, <2>1, <2>2
<1>5. ASSUME NEW a \in DOMAIN p \intersect DOMAIN c.choices, NEW k \in c.choices[a]
      PROVE  k \in DOMAIN t /\ t[k] = IF p[a] = k THEN "true" ELSE "false"
  <2>1. k \in DOMAIN t
    BY <1>3 DEF ExpandedKeys
  <2>2. k \notin Single(m) /\ EncodedKey(c, k) = a /\ k \notin DOMAIN c.domains
    BY <1>0, CodecParts
  <2>3. t[k] = Chosen(c, p, k)
    BY <1>0, <1>3, <2>1, <2>2
  <2> QED BY <2>1, <2>2, <2>3 DEF Chosen
<1>6. ASSUME \A k \in DOMAIN p : e[k] = p[k], NEW k \in DOMAIN t PROVE s[k] = t[k]
  <2>1. \/ k \in Single(m) \/ k \in DOMAIN p \ DOMAIN c.choices
        \/ \E a \in DOMAIN p \intersect DOMAIN c.choices : k \in c.choices[a]
    BY <1>0, <1>3 DEF ExpandedKeys
  <2>2. CASE k \in Single(m)
    BY <1>0, <1>2, <1>3, <2>2
  <2>3. CASE k \in DOMAIN p \ DOMAIN c.choices
    BY <1>4, <1>6, <2>3
  <2>4. ASSUME NEW a \in DOMAIN p \intersect DOMAIN c.choices, k \in c.choices[a] PROVE s[k] = t[k]
    BY <1>2, <1>5, <1>6, <2>4
  <2> QED BY <2>1, <2>2, <2>3, <2>4
<1>7. ASSUME \A k \in DOMAIN t : s[k] = t[k], NEW k \in DOMAIN p PROVE e[k] = p[k]
  <2>1. CASE k \notin DOMAIN c.choices
    BY <1>4, <1>7, <2>1
  <2>2. CASE k \in DOMAIN c.choices
    <3>1. p[k] \in c.choices[k]
      BY <1>0, <2>2, CodecParts
    <3>2. t[p[k]] = "true" /\ s[p[k]] = "true"
      BY <1>5, <1>7, <2>2, <3>1
    <3> QED BY <1>2, <2>2, <3>1, <3>2
  <2> QED BY <2>1, <2>2
<1> QED BY <1>1, <1>6, <1>7

\* Where a choice is not made there is no mass.
LEMMA MasslessUnchosen ==
  ASSUME NEW m \in Models, NEW c, IsCodecOf(c, m), NEW s \in StatesOf(m.domains), WeightOf(m, s) # 0
  PROVE  ChoicesMade(c, s)
<1>1. CodecInv(m, c)
  BY DEF IsCodecOf
<1>2. ASSUME NEW f \in Range(m.factors), ChoiceKey(f) \in DOMAIN c.choices PROVE Trues(f, s) = 1
  <2>1. Weight(m, f, s) # 0
    BY WeightOfPositive
  <2>2. ExactlyOne(f)
    BY <1>1, <1>2 DEF CodecInv
  <2>3. Weight(m, f, s) = IF Trues(f, s) \in 1..1 THEN 1 ELSE 0
    BY <2>2 DEF Weight, ExactlyOne
  <2> QED BY <2>1, <2>3
<1> QED BY <1>1, <1>2, CountsChosen

\* Summing over what is free is summing over the states that agree: encoded states
\* expand to these, each to another one, and what no one expands to has no mass.
LEMMA ConditionalIs ==
  ASSUME NEW m \in Models, NEW c, IsCodecOf(c, m), NEW rest, DOMAIN rest \subseteq DOMAIN c.domains,
         rest \in StatesOf(Restrict(c.domains, DOMAIN rest)),
         NEW moved, moved \subseteq DOMAIN c.domains \ DOMAIN rest, NEW x \in StatesOf(Restrict(c.domains, moved))
  PROVE  Summed(m, c, rest, FreeStates(c, rest, moved, x)) = Mass(m, Expand(c, Over(x, rest)))
<1> DEFINE free == DOMAIN c.domains \ DOMAIN rest
           A == FreeStates(c, rest, moved, x)
           p == Over(x, rest)
           B == Agreeing(m, Expand(c, p))
           full(e) == Over(e, rest)
           u == [e \in A |-> WeightOf(m, Expand(c, full(e)))]
           v == [s \in B |-> WeightOf(m, s)]
           h == [e \in A |-> Expand(c, full(e))]
<1>1. /\ \A k \in DOMAIN rest : rest[k] \in c.domains[k]
      /\ DOMAIN x = moved /\ \A k \in moved : x[k] \in c.domains[k]
  BY DEF StatesOf, Restrict
<1>2. /\ DOMAIN p = moved \union DOMAIN rest /\ \A k \in moved : p[k] = x[k]
      /\ \A k \in DOMAIN rest : p[k] = rest[k]
  BY <1>1 DEF Over
<1>3. DOMAIN p \subseteq DOMAIN c.domains /\ \A k \in DOMAIN p : p[k] \in c.domains[k]
  BY <1>1, <1>2
<1>4. ASSUME NEW e \in A
      PROVE  /\ full(e) \in StatesOf(c.domains) /\ \A k \in DOMAIN p : full(e)[k] = p[k]
             /\ e = [k \in free |-> full(e)[k]]
  <2>1. /\ e = [k \in free |-> e[k]] /\ DOMAIN e = free /\ \A k \in free : e[k] \in c.domains[k]
        /\ \A k \in moved : e[k] = x[k]
    BY DEF FreeStates, StatesOf, Restrict
  <2>2. PICK d : d = full(e)
    OBVIOUS
  <2>3. /\ d = [k \in DOMAIN c.domains |-> d[k]]
        /\ \A k \in free : d[k] = e[k] /\ \A l \in DOMAIN rest : d[l] = rest[l]
    BY <2>1, <2>2 DEF Over
  <2>4. \A k \in DOMAIN rest : d[k] = rest[k]
    BY <2>1, <2>2 DEF Over
  <2>5. \A k \in DOMAIN c.domains : d[k] \in c.domains[k]
    BY <1>1, <2>1, <2>3, <2>4
  <2>6. d \in StatesOf(c.domains)
    <3>1. \A k \in DOMAIN c.domains : d[k] \in UNION Range(c.domains)
      BY <2>5 DEF Range
    <3>2. d \in [DOMAIN c.domains -> UNION Range(c.domains)]
      BY <2>3, <3>1
    <3> QED BY <2>5, <3>2 DEF StatesOf
  <2>7. \A k \in DOMAIN p : d[k] = p[k]
    BY <1>2, <2>1, <2>3, <2>4
  <2>8. e = [k \in free |-> d[k]]
    BY <2>1, <2>3
  <2> QED BY <2>2, <2>6, <2>7, <2>8
<1>5. ASSUME NEW e \in A PROVE h[e] \in B
  <2>1. Expand(c, full(e)) \in StatesOf(m.domains)
    BY <1>4, ExpandedIsState
  <2>2. \A k \in DOMAIN Expand(c, p) : Expand(c, full(e))[k] = Expand(c, p)[k]
    <3> HIDE DEF p, full
    <3> QED BY <1>3, <1>4, PartlyExpanded
  <2> QED BY <2>1, <2>2 DEF Agreeing
<1>6. ASSUME NEW d \in A, NEW e \in A, h[d] = h[e] PROVE d = e
  <2>1. full(d) = full(e)
    <3>1. Expand(c, full(d)) = Expand(c, full(e))
      BY <1>6
    <3> HIDE DEF full
    <3> QED BY <1>4, <3>1, ExpandedOnce
  <2> HIDE DEF full, A
  <2> QED BY <1>4, <2>1
<1>7. ASSUME NEW s \in B, WeightOf(m, s) # 0 PROVE \E e \in A : h[e] = s
  <2>1. s \in StatesOf(m.domains) /\ \A k \in DOMAIN Expand(c, p) : s[k] = Expand(c, p)[k]
    BY DEF Agreeing
  <2>2. PICK d \in StatesOf(c.domains) : s = Expand(c, d)
    BY <1>7, <2>1, MasslessUnchosen, StateIsExpanded
  <2>3. \A k \in DOMAIN p : d[k] = p[k]
    <3> HIDE DEF p
    <3> QED BY <1>3, <2>1, <2>2, PartlyExpanded
  <2> DEFINE e == [k \in free |-> d[k]]
  <2>4. d = [k \in DOMAIN c.domains |-> d[k]] /\ \A k \in DOMAIN c.domains : d[k] \in c.domains[k]
    BY DEF StatesOf
  <2>5. e \in A
    <3>1. e \in StatesOf(Restrict(c.domains, free))
      <4>1. PICK r : r = Restrict(c.domains, free)
        OBVIOUS
      <4>2. DOMAIN r = free /\ \A k \in free : r[k] = c.domains[k]
        BY <4>1 DEF Restrict
      <4>3. \A k \in free : d[k] \in UNION Range(r)
        BY <2>4, <4>2 DEF Range
      <4>4. e \in [free -> UNION Range(r)] /\ \A k \in free : e[k] \in r[k]
        BY <2>4, <4>2, <4>3
      <4> HIDE DEF e, free
      <4> QED BY <4>1, <4>2, <4>4 DEF StatesOf
    <3>2. \A k \in moved : e[k] = x[k]
      BY <1>2, <2>3
    <3> HIDE DEF e
    <3> QED BY <3>1, <3>2 DEF FreeStates
  <2>6. full(e) = d
    <3>1. full(e) = [k \in free \union DOMAIN rest |-> IF k \in free THEN d[k] ELSE rest[k]]
      BY DEF Over
    <3>2. \A k \in DOMAIN rest : d[k] = rest[k]
      BY <1>2, <2>3
    <3>3. free \union DOMAIN rest = DOMAIN c.domains
      OBVIOUS
    <3>4. full(e) = [k \in DOMAIN c.domains |-> d[k]]
      BY <3>1, <3>2, <3>3
    <3> QED BY <2>4, <3>4
  <2> HIDE DEF e, full, A
  <2> QED BY <2>2, <2>5, <2>6
<1>8. IsFiniteSet(A) /\ IsFiniteSet(B)
  <2>1. IsFiniteSet(DOMAIN c.domains) /\ \A k \in DOMAIN c.domains : IsFiniteSet(c.domains[k])
    BY FiniteCodec DEF IsCodecOf
  <2>2. IsFiniteSet(StatesOf(Restrict(c.domains, free)))
    <3>1. PICK r : r = Restrict(c.domains, free)
      OBVIOUS
    <3>2. DOMAIN r = free /\ \A k \in free : r[k] = c.domains[k]
      BY <3>1 DEF Restrict
    <3>3. IsFiniteSet(DOMAIN r) /\ \A k \in DOMAIN r : IsFiniteSet(r[k])
      BY <2>1, <3>2, FS_Subset
    <3>4. IsFiniteSet(StatesOf(r))
      BY <3>3, FiniteStates
    <3> QED BY <3>1, <3>4
  <2>3. A \in SUBSET StatesOf(Restrict(c.domains, free))
    BY DEF FreeStates
  <2>4. IsFiniteSet(StatesOf(m.domains))
    BY FiniteStates, ModelAssumption
  <2>5. B \in SUBSET StatesOf(m.domains)
    BY DEF Agreeing
  <2> HIDE DEF A, B
  <2> QED BY <2>2, <2>3, <2>4, <2>5, FS_Subset
<1>9. ASSUME NEW s \in B PROVE WeightOf(m, s) \in Nat
  <2>1. s \in StatesOf(m.domains)
    BY DEF Agreeing
  <2> QED BY <2>1, WeightOfPositive
<1> HIDE DEF A, B, full
<1>10. h \in [A -> B] /\ u \in [A -> Nat] /\ v \in [B -> Nat]
  BY <1>5, <1>9
<1>11. \A a \in A : u[a] = v[h[a]]
  BY <1>5
<1>12. \A s \in B : (\A e \in A : h[e] # s) => v[s] = 0
  BY <1>7
<1> HIDE DEF h, u, v
<1>13. PICK f : IsSum(f, A, u) /\ SumOf(A, u) = f[A]
  BY <1>8, <1>10, SumIs
<1>14. PICK g : IsSum(g, B, v) /\ SumOf(B, v) = g[B]
  BY <1>8, <1>10, SumIs
<1>15. f[A] = g[B]
  BY <1>6, <1>8, <1>10, <1>11, <1>12, <1>13, <1>14, SumOver
<1>16. Summed(m, c, rest, A) = SumOf(A, u)
  BY SummedIs DEF A, u, full
<1>17. Mass(m, Expand(c, p)) = SumOf(B, v)
  BY DEF Mass, B, v
<1> QED BY <1>13, <1>14, <1>15, <1>16, <1>17 DEF A, p

\* Models that execute alike have the same weights, also those of extensions.
LEMMA SameIdentity ==
  ASSUME NEW m \in Models, NEW n \in Models, Reusable(m), Reusable(n), ExecutionIdentity(m) = ExecutionIdentity(n)
  PROVE  /\ m.domains = n.domains /\ m.factors = n.factors
         /\ \A f \in Range(m.factors) : \A s : Weight(m, f, s) = Weight(n, f, s)
<1>1. m.domains = n.domains /\ m.factors = n.factors /\ Numerics(m) = Numerics(n)
  BY DEF ExecutionIdentity, ModelId
<1>2. ASSUME NEW f \in Range(m.factors), NEW s PROVE Weight(m, f, s) = Weight(n, f, s)
  <2>1. CASE f.family \in Builtin
    BY <2>1 DEF Weight, Builtin
  <2>2. CASE f.family \notin Builtin
    <3>1. PICK i \in DOMAIN m.factors : f = m.factors[i]
      BY DEF Range
    <3>2. Numerics(m)[i] = KernelToken(m, f) /\ Numerics(n)[i] = KernelToken(n, f)
      BY <1>1, <3>1 DEF Numerics
    <3>3. m.kernels[f.family].token = n.kernels[f.family].token
      BY <1>1, <2>2, <3>2 DEF KernelToken
    <3>4. f.family \in DOMAIN m.kernels /\ f.family \in DOMAIN n.kernels
      BY <1>1, <2>2, ModelAssumption
    <3>5. m.kernels[f.family].weight = n.kernels[f.family].weight
      BY <3>3, <3>4, TokenAssumption DEF Reusable
    <3> QED BY <2>2, <3>5 DEF Weight, Builtin
  <2> QED BY <2>1, <2>2
<1> QED BY <1>1, <1>2

\* And so states that agree with something have the same mass in both.
LEMMA SameMass ==
  ASSUME NEW m \in Models, NEW n \in Models, Reusable(m), Reusable(n), ExecutionIdentity(m) = ExecutionIdentity(n),
         NEW part
  PROVE  Mass(m, part) = Mass(n, part)
<1>1. /\ m.domains = n.domains /\ m.factors = n.factors
      /\ \A f \in Range(m.factors) : \A s : Weight(m, f, s) = Weight(n, f, s)
  BY SameIdentity
<1>2. ASSUME NEW s PROVE WeightOf(m, s) = WeightOf(n, s)
  <2>1. [f \in Range(m.factors) |-> Weight(m, f, s)] = [f \in Range(n.factors) |-> Weight(n, f, s)]
    BY <1>1
  <2> QED BY <1>1, <2>1, WeightOfIs
<1>3. Agreeing(m, part) = Agreeing(n, part)
  BY <1>1 DEF Agreeing
<1>4. [s \in Agreeing(m, part) |-> WeightOf(m, s)] = [s \in Agreeing(n, part) |-> WeightOf(n, s)]
  BY <1>2, <1>3
<1> QED BY <1>3, <1>4 DEF Mass

\* The conditional of a block: the mass of the states that agree with the rest
\* and with each of its own states.
ConditionalOf(m, c, rest, moved) ==
  [x \in StatesOf(Restrict(c.domains, moved)) |-> Mass(m, Expand(c, Over(x, rest)))]

\* Models that execute alike have the same conditionals.
LEMMA SameConditional ==
  ASSUME NEW m \in Models, NEW n \in Models, Reusable(m), Reusable(n), ExecutionIdentity(m) = ExecutionIdentity(n),
         NEW c, NEW rest, NEW moved
  PROVE  ConditionalOf(m, c, rest, moved) = ConditionalOf(n, c, rest, moved)
<1>1. \A part : Mass(m, part) = Mass(n, part)
  BY SameMass
<1> QED BY <1>1 DEF ConditionalOf

\* _block_table() computes the conditional.
LEMMA BlockTableIs ==
  ASSUME subject \in Models, plan.codec = CodecOf(subject), plan.sampled \subseteq DOMAIN plan.codec.domains,
         NEW moved \in SUBSET plan.sampled,
         NEW rest \in StatesOf(Restrict(plan.codec.domains, plan.sampled \ moved))
  PROVE  BlockTable(rest, moved) = ConditionalOf(subject, plan.codec, rest, moved)
<1>1. PICK m, c : m = subject /\ c = plan.codec
  OBVIOUS
<1>2. IsCodecOf(c, m)
  BY <1>1, CodecOfInv DEF IsCodecOf
<1>3. DOMAIN rest = plan.sampled \ moved
  BY DEF StatesOf, Restrict
<1>4. Free(moved) = Restrict(c.domains, DOMAIN c.domains \ DOMAIN rest)
  BY <1>1, <1>3 DEF Free
<1>5. BlockTable(rest, moved) = [x \in StatesOf(Restrict(plan.codec.domains, moved)) |->
         Total({e \in StatesOf(Free(moved)) : \A k \in moved : e[k] = x[k]},
               LAMBDA e : EncodedWeight(subject, plan.codec, Over(e, rest)))]
  BY Zenon DEF BlockTable, EncodedWeight, Original
<1>6. ASSUME NEW x \in StatesOf(Restrict(c.domains, moved))
      PROVE  Total({e \in StatesOf(Free(moved)) : \A k \in moved : e[k] = x[k]},
                   LAMBDA e : EncodedWeight(subject, plan.codec, Over(e, rest)))
               = Mass(m, Expand(c, Over(x, rest)))
  <2>1. FreeStates(c, rest, moved, x) = {e \in StatesOf(Free(moved)) : \A k \in moved : e[k] = x[k]}
    BY <1>4 DEF FreeStates
  <2>2. Summed(m, c, rest, {e \in StatesOf(Free(moved)) : \A k \in moved : e[k] = x[k]})
          = Mass(m, Expand(c, Over(x, rest)))
    <3>1. Summed(m, c, rest, FreeStates(c, rest, moved, x)) = Mass(m, Expand(c, Over(x, rest)))
      BY <1>1, <1>2, <1>3, ConditionalIs
    <3> QED BY <2>1, <3>1
  <2>3. Summed(subject, plan.codec, rest, {e \in StatesOf(Free(moved)) : \A k \in moved : e[k] = x[k]})
          = Total({e \in StatesOf(Free(moved)) : \A k \in moved : e[k] = x[k]},
                  LAMBDA e : EncodedWeight(subject, plan.codec, Over(e, rest)))
    BY Zenon DEF Summed
  <2> QED BY <1>1, <2>2, <2>3
<1>7. ConditionalOf(m, c, rest, moved) = [x \in StatesOf(Restrict(c.domains, moved)) |-> Mass(m, Expand(c, Over(x, rest)))]
  BY DEF ConditionalOf
<1> QED BY <1>1, <1>5, <1>6, <1>7, Zenon

\* The variables to sample are those of the codec or real; tables, kept or
\* not, are the conditionals of all models that they are used for.
TableInv ==
  /\ planning \in {"widening", "planned"} =>
       /\ subject \in Models /\ codec = CodecOf(subject) /\ sampled \subseteq Coordinates(subject, codec)
  /\ planning = "planned" =>
       plan.codec = codec /\ plan.sampled = sampled /\ UNION plan.blocks = plan.sampled
  /\ table # Nowhere =>
       /\ planning = "planned"
       /\ table.values = ConditionalOf(subject, plan.codec, table.rest, table.block)
  /\ \A key \in DOMAIN kept : \A m \in Models :
       Reusable(m) /\ ExecutionIdentity(m) = key[1] => kept[key] = ConditionalOf(m, key[2], key[3], key[4])

\* A table found in the store is of the model at hand.
LEMMA DrawBlockInv ==
  ASSUME TableInv, HasTables, NEW moved \in plan.blocks,
         NEW rest \in StatesOf(Restrict(plan.codec.domains, plan.sampled \ moved)), DrawBlock(moved, rest)
  PROVE  TableInv'
<1> DEFINE key == <<ExecutionIdentity(subject), plan.codec, rest, moved>>
           found == Reusable(subject) /\ key \in DOMAIN kept
           value == IF found THEN kept[key] ELSE BlockTable(rest, moved)
           of == ConditionalOf(subject, plan.codec, rest, moved)
<1>1. /\ table' = [block |-> moved, rest |-> rest, values |-> value]
      /\ kept' = IF Reusable(subject) THEN With(kept, key, value) ELSE kept
      /\ UNCHANGED <<planning, subject, config, sampled, codec, plan, planned>>
  BY DEF DrawBlock
<1>2. /\ planning = "planned" /\ subject \in Models /\ plan.codec = CodecOf(subject)
      /\ plan.sampled \subseteq DOMAIN plan.codec.domains /\ moved \in SUBSET plan.sampled
  BY DEF HasTables, TableInv, Coordinates
<1>3. value = of
  <2>1. BlockTable(rest, moved) = of
    BY <1>2, BlockTableIs
  <2>2. found => kept[key] = of
    <3>1. key[1] = ExecutionIdentity(subject) /\ key[2] = plan.codec /\ key[3] = rest /\ key[4] = moved
      OBVIOUS
    <3> HIDE DEF key
    <3> QED BY <1>2, <3>1 DEF TableInv
  <2> HIDE DEF of, key
  <2> QED BY <2>1, <2>2
<1>4. ASSUME NEW k \in DOMAIN kept', NEW m \in Models, Reusable(m), ExecutionIdentity(m) = k[1]
      PROVE  kept'[k] = ConditionalOf(m, k[2], k[3], k[4])
  <2>1. CASE Reusable(subject) /\ k = key
    <3>1. kept'[k] = value
      <4> HIDE DEF key, value
      <4> QED BY <1>1, <2>1 DEF With
    <3>2. k[1] = ExecutionIdentity(subject) /\ k[2] = plan.codec /\ k[3] = rest /\ k[4] = moved
      BY <2>1
    <3>3. ConditionalOf(m, plan.codec, rest, moved) = of
      BY <1>2, <1>4, <2>1, <3>2, SameConditional
    <3> HIDE DEF value, key, of
    <3> QED BY <1>3, <3>1, <3>2, <3>3
  <2>2. CASE ~ (Reusable(subject) /\ k = key)
    <3>1. k \in DOMAIN kept /\ kept'[k] = kept[k]
      <4> HIDE DEF key, value
      <4> QED BY <1>1, <1>4, <2>2 DEF With
    <3> QED BY <1>4, <3>1 DEF TableInv
  <2> QED BY <2>1, <2>2
<1>5. table'.values = of /\ table'.rest = rest /\ table'.block = moved
  <2> HIDE DEF value, of
  <2> QED BY <1>1, <1>3
<1>6. /\ subject' \in Models /\ codec' = CodecOf(subject)' /\ sampled' \subseteq Coordinates(subject, codec)'
      /\ plan'.codec = codec' /\ plan'.sampled = sampled' /\ UNION plan'.blocks = plan'.sampled
      /\ planning' = "planned"
  BY <1>1, <1>2 DEF TableInv
<1>7. table'.values = ConditionalOf(subject, plan.codec, table.rest, table.block)'
  BY <1>1, <1>5
<1> HIDE DEF value, of, key
<1> QED BY <1>4, <1>6, <1>7 DEF TableInv

\* Every step of planning, and every draw, keeps this.
LEMMA TableStep == TableInv /\ [PlanningNext]_planVars => TableInv'
<1> SUFFICES ASSUME TableInv, [PlanningNext]_planVars PROVE TableInv'
  OBVIOUS
<1>1. ASSUME NEW m \in Models, NEW g \in Configs, Assess(m, g) PROVE TableInv'
  <2>1. /\ subject' = m /\ codec' = CodecOf(m) /\ table' = Nowhere /\ UNCHANGED <<kept, planned>>
        /\ \/ planning' = "refused"
           \/ planning' = "widening" /\ sampled' \subseteq Coordinates(m, codec')
    BY <1>1 DEF Assess, Refuse, Coordinates
  <2>2. codec' = CodecOf(subject)' /\ subject' \in Models
    BY <2>1
  <2>3. planning' = "widening" => sampled' \subseteq Coordinates(subject, codec)'
    BY <2>1
  <2>4. planning' \in {"refused", "widening"}
    BY <2>1
  <2> QED BY <2>1, <2>2, <2>3, <2>4 DEF TableInv
<1>2. ASSUME Widen PROVE TableInv'
  <2>1. /\ UNCHANGED <<subject, config, codec, table, kept, planned>> /\ planning = "widening"
        /\ planning' \in {"refused", "widening"} /\ table = Nowhere
        /\ sampled' = sampled \/ \E k \in ToSample : sampled' = sampled \union {k}
    BY <1>2 DEF Widen, Refuse, TableInv
  <2>2. sampled' \subseteq Coordinates(subject, codec)'
    BY <2>1 DEF TableInv, Coordinates, ToSample
  <2> QED BY <2>1, <2>2 DEF TableInv
<1>3. ASSUME Partition PROVE TableInv'
  <2> DEFINE blocks == IF config.blocks # {} THEN config.blocks ELSE BlocksOf(subject, codec, sampled)
  <2>1. /\ UNCHANGED <<subject, config, sampled, codec, table, kept>> /\ planning = "widening" /\ table = Nowhere
        /\ \/ /\ UNION blocks = sampled /\ planning' = "planned"
              /\ plan' = [codec |-> codec, sampled |-> sampled, blocks |-> blocks]
           \/ planning' = "refused"
    BY <1>3 DEF Partition, TableInv
  <2>2. planning' = "planned" => plan'.codec = codec' /\ plan'.sampled = sampled' /\ UNION plan'.blocks = plan'.sampled
    <3> HIDE DEF blocks
    <3> QED BY <2>1
  <2>3. /\ subject' \in Models /\ codec' = CodecOf(subject)' /\ sampled' \subseteq Coordinates(subject, codec)'
    BY <2>1 DEF TableInv
  <2> HIDE DEF blocks
  <2> QED BY <2>1, <2>2, <2>3 DEF TableInv
<1>4. ASSUME HasTables, NEW moved \in plan.blocks,
             NEW rest \in StatesOf(Restrict(plan.codec.domains, plan.sampled \ moved)), DrawBlock(moved, rest)
      PROVE  TableInv'
  BY <1>4, DrawBlockInv
<1>5. CASE UNCHANGED planVars
  BY <1>5 DEF TableInv, planVars
<1> QED BY <1>1, <1>2, <1>3, <1>4, <1>5 DEF PlanningNext

\* The table that draw_finite_block() draws from is the conditional of the model
\* of the call, whichever model it was computed for.
THEOREM TablesAreOfTheirModel == PlanningSpec => []TablesAreConditionals
<1>1. PlanningInit => TableInv
  BY DEF PlanningInit, TableInv
<1>2. TableInv => TablesAreConditionals
  <2> SUFFICES ASSUME TableInv, table # Nowhere, NEW x \in DOMAIN table.values
               PROVE  table.values[x] =
                        Total(Agreeing(subject, Expand(plan.codec, Over(x, table.rest))), LAMBDA s : WeightOf(subject, s))
    BY Zenon DEF TablesAreConditionals, Agreeing
  <2>1. table.values[x] = Mass(subject, Expand(plan.codec, Over(x, table.rest)))
    BY DEF TableInv, ConditionalOf
  <2> QED BY <2>1, TotalIs DEF Mass
<1> QED BY <1>1, <1>2, TableStep, PTL DEF PlanningSpec
=============================================================================
