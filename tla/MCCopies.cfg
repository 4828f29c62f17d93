\* The same instance: copies of one report that two systems deliver.
SPECIFICATION CompilingSpec
CONSTANTS
  Specs <- MCSpecs
  Structure <- MCStructure
  Registry <- MCRegistry
  Kernels = {"table", "type_presence", "likelihood", "linear_gaussian"}
  Semantic = {"exists", "type", "time"}
  None = None
  Unset = Unset
  Configs <- MCConfigs
  Scenarios <- MCScenarios
  Errors <- MCErrors
  MinOverlap = 1
  TripletOverlap = 1
INVARIANT CopiesOfSystemsCount
CHECK_DEADLOCK FALSE
