\* Two writers with one destination, one reader, one power failure; before
\* them, two bundles written one after the other, and two fingerprints.
SPECIFICATION BundledSpec
CONSTANTS
  w1 = w1
  w2 = w2
  Writers = {w1, w2}
  Readers = {r1}
  Size <- MCSize
  Part = Part
  Absent = Absent
  MaxFailures = 1
  Values <- MCValues
  Types <- MCTypes
  Enums = {"Col", "Role"}
  Mutable = {"Mut"}
  Omitted <- MCOmitted
  Foreign <- MCForeign
  MaxWrites = 2
  MaxIssued = 2
  Missing = Missing
INVARIANTS ExportsAreWhole BundlesReadAsWritten FingerprintsTellApart
CHECK_DEADLOCK FALSE
