SPECIFICATION Spec
CONSTANTS
  BufferSpan = 3
  OffsetSpan = 2
  ValueSpan = 2
  Sizes = {1, 2}
  Lengths = {1, 2}
  Pointer = {p1, p2}
  MaxAllocs = 2
  Null = Null
SYMMETRY PointerSymmetry
INVARIANTS FreeListExact DataOwned
PROPERTIES ImplementsAddressSpace
