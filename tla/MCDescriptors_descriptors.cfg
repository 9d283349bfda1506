SPECIFICATION Spec
CONSTANTS
  Set = {s1, s2}
  Layouts <- AllLayouts
  SetNumbers = {0, 1}
  MaxUpdates = 3
  MaxBinds = 1
  Null = Null
SYMMETRY SetSymmetry
INVARIANTS WritesLandInOrder CombinedOwned OffsetsInOrder
CHECK_DEADLOCK FALSE
