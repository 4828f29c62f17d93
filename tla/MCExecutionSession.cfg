\* Up to three calls, one of them inside the callback of another,
\* under the fairness of a thread that runs.
SPECIFICATION FairSpec
CONSTANTS
  Requests <- MCRequests
  Controls <- MCControls
  Deadline <- MCDeadline
  Reporting = {"watched"}
  Budgeted = {"watched"}
  Declared = {"a", "b"}
  Storable = {"a", "x", "s"}
  None = None
  MaxClock = 1
  MaxHidden = 1
  MaxCalls = 3
  MaxDepth = 2
INVARIANT ReuseIsFresh
PROPERTIES NoWorkAfterStop HonestStatus AllCancelledEnds
CHECK_DEADLOCK FALSE
