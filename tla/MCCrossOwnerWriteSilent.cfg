SPECIFICATION Spec
CONSTANTS
  u1 = u1
  u2 = u2
  Units <- MCUnits
  Fields = {"name", "price"}
  Initial <- MCInitial
  Shared = FALSE
  MaxEdits = 0
INVARIANT LeftModifiedIsSurfaced
