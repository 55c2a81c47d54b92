SPECIFICATION MCSpec
CONSTANTS
  Items = {i1, i2, i3, i4, i5, i6}
  Few = {i1, i2, i3, i4}
  NoItem = NoItem
  Leaves = {"1", "t"}
  Texts = {"t"}
  Containers = {"array", "object"}
  Names = {"a", "A"}
  NoName = "-"
  Fold <- MCFold
  Counts = {2}
  Indices <- MCIndices
  MaxRefs = 2
SYMMETRY Symmetry
INVARIANTS WellLinked EveryBlockOwned CompareIsEquality
PROPERTIES ImplementsForest
CHECK_DEADLOCK FALSE
