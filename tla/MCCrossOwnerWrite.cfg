SPECIFICATION Spec
CONSTANTS
  u1 = u1
  u2 = u2
  Units <- MCUnits
  Fields = {"name", "price"}
  Initial <- MCInitial
  Shared = FALSE
  MaxEdits = 1
INVARIANTS
  RestoredOrReported
PROPERTIES
  CreditIsDue
  UnitsReturn
