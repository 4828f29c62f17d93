\* The documented promise of a warm start, with stops; nothing is planned and
\* nothing enumerated.
SPECIFICATION PlannedSpec
CONSTANTS
  Sampled = {"u", "v"}
  Values = {0, 1}
  Blocks <- MCBlocks
  Kind <- MCKind
  Targets <- MCTargets
  Givens <- MCGivens
  Chains = 2
  Warmup = 1
  Draws = 2
  MaxInitialization = 2
  None = None
  MaxRuns = 2
  Models = {}
  Configs <- MCConfigs
  MaxTable = 3
  MaxReal = 2
  MaxPlanned = 2
  Nowhere = Nowhere
  Hybrids = {}
  Conditioned <- MCConditioned
  Scopes <- MCScopes
  MaxDraws = 3
INVARIANT RetainsIndependent
CHECK_DEADLOCK FALSE
