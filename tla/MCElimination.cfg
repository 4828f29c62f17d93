\* Up to three factors over four variables; some models and some joint
\* queries exceed the budgets; messages pass at most six times, and
\* sweeps over a graph of three edges three times.
SPECIFICATION EnginesSpec
CONSTANTS
  Keys = {1, 2, 3, 4}
  DomainSize <- MCDomainSize
  Models <- MCModels
  MaxFactors = 3
  MaxTable = 12
  MaxClique = 12
  MaxJoint = 6
  Requests <- MCRequests
  MaxIter = 6
  Tol = 4
  Graphs <- MCGraphs
  MaxSweeps = 3
  Ceiling = 24
  NaN = NaN
INVARIANTS PlanIsKept BeliefsAreSound MomentsAreExplained
CHECK_DEADLOCK FALSE
