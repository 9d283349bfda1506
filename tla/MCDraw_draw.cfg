SPECIFICATION Spec
CONSTANTS
  Draws <- All
  Width = 3
  Height = 3
  NumberSpan = 16
  PointSize = 2
  Null = Null
INVARIANTS FreshVertices PrimitivesAsSpecified SharedEdgesOnce NothingMissed
