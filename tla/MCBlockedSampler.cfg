\* Two calls, the second with or without a warm start from the first; plans
\* for two models of a session, of ten, with the blocks drawn in any order;
\* three rows of eight mixtures.
SPECIFICATION PlannedSpec
CONSTANTS
  Sampled = {"u", "v"}
  Values = {0, 1}
  Blocks <- MCBlocks
  Kind <- MCKind
  Targets <- MCTargets
  Givens <- MCGivens
  Chains = 2
  Warmup = 1
  Draws = 2
  MaxInitialization = 2
  None = None
  MaxRuns = 2
  Models <- MCModels
  Configs <- MCConfigs
  MaxTable = 3
  MaxReal = 2
  MaxPlanned = 2
  Nowhere = Nowhere
  Hybrids <- MCHybrids
  Conditioned <- MCConditioned
  Scopes <- MCScopes
  MaxDraws = 3
INVARIANTS ChainOnTarget DrawsAreHonest CodecIsLossless BlocksKeepConstraints TablesAreConditionals SupportIdMeansSupport MixturesAreConditionals
CHECK_DEADLOCK FALSE
