\* Bundles of up to three queries, with every setting that makes a difference;
\* two process queries in a session, on two tables and five sets of draws;
\* two comparisons of up to three settings.
SPECIFICATION AnsweringSpec
CONSTANTS
  Bundles <- MCBundles
  Settings <- MCSettings
  None = None
  Results <- MCResults
  QuerySpecs <- MCQuerySpecs
  MaxAsked = 2
  NoWork = NoWork
  Comparisons <- MCComparisons
  Baseline <- MCBaseline
  MaxCompared = 2
  NoSetting = NoSetting
INVARIANTS NeedsAreServed ControlReachesAll AnswersAreOfOnePiece StoreIsTransparent EstimatesAreExact SettingsAreComparable
PROPERTY OneSolver
CHECK_DEADLOCK FALSE
