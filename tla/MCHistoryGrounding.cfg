\* Every way to fill a builder with at most two events, objects and links of
\* each kind, pruned by time or not, grounded under every classification.
SPECIFICATION BelievingSpec
CONSTANTS
  Schemas <- MCSchemas
  EventChoices <- MCEvents
  ObjectChoices <- MCObjects
  LinkChoices <- MCLinks
  Bindings <- MCBindings
  Options <- MCOptions
  Times = {0, 1, 2}
  Inactive = Inactive
  None = None
  Callers <- MCCallers
  Claims <- MCClaims
  MaxHops = 3
  MaxOwned = 4
  Distributions <- MCDistributions
  Moments <- MCMoments
  Nats = {1}
  Targets = {1, 2}
  Attached <- MCAttached
  MaxBelieved = 2
  MaxViews = 3
INVARIANTS SupportIsLegal PossibleIsCandidate CandidatesAreIndexed RegionIsNeighbourhood VerdictsFollowEvidence
CHECK_DEADLOCK FALSE
