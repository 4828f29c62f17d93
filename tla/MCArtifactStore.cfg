\* Two namespaces of two keys share one slot name; up to five calls.
SPECIFICATION Spec
CONSTANTS
  Namespaces = {n1, n2}
  Keys = {k1, k2}
  Slots = {s1}
  NoSlot = NoSlot
  Values <- MCValues
  Sizable <- MCSizable
  Freezable <- MCFreezable
  Estimate <- MCEstimate
  Charge <- MCCharge
  MaxBytes = 3
  MaxCalls = 5
  NoPut = NoPut
INVARIANT AccountIsExact
PROPERTY ImplementsLru
CHECK_DEADLOCK FALSE
