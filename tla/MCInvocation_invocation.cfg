SPECIFICATION Spec
CONSTANTS
  Programs <- AllPrograms
  Byte = 4
  MaxBuffer = 5
  Garbage = {0, 2}
  Null = Null
INVARIANTS PredecessorFound
PROPERTIES ImplementsSemantics
CHECK_DEADLOCK FALSE
