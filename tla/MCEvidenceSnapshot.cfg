\* Two reports and three revision identifiers, up to three records with
\* knowledge times or without, every policy and cutoff.
SPECIFICATION Spec
CONSTANTS
  RevisionIds = {a, b, c}
  Sources = {s1, s2}
  KnownAt <- MCTimed
  Records <- MCRecords
  Times <- MCTimes
  None = None
  MaxRecords = 3
SYMMETRY MCSymmetry
INVARIANTS RevisionsAccounted ReplayableEarlier
PROPERTY ImplementsHistory
CHECK_DEADLOCK FALSE
