\* Every specification of the instance from its trust rules to its model; or
\* worlds of up to two orders, their universes, and up to three sources that
\* observe or copy over the shortest worlds.
SPECIFICATION CompilingSpec
CONSTANTS
  Specs <- MCSpecs
  Structure <- MCStructure
  Registry <- MCRegistry
  Kernels = {"table", "type_presence", "likelihood", "linear_gaussian"}
  Semantic = {"exists", "type", "time"}
  None = None
  Unset = Unset
  Configs <- MCConfigs
  Scenarios <- MCScenarios
  Errors <- MCErrors
  MinOverlap = 1
  TripletOverlap = 1
INVARIANTS ReportsCountedOnce TrustIsClosest SharedMeansSame TruthFollowsSchema SourcesAreFaithful BaselinesAgree
CHECK_DEADLOCK FALSE
