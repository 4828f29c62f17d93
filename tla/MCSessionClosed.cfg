\* The documented effect of close(), with a callback that closes.
SPECIFICATION Spec
CONSTANTS
  Requests <- MCRequests
  Controls <- MCControls
  Deadline <- MCDeadline
  Reporting = {"watched"}
  Budgeted = {"watched"}
  Declared = {"a", "b"}
  Storable = {"a", "x", "s"}
  None = None
  MaxClock = 1
  MaxHidden = 1
  MaxCalls = 2
  MaxDepth = 2
INVARIANT ClosedHoldsNothing
CHECK_DEADLOCK FALSE
