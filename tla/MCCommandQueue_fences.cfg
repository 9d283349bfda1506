SPECIFICATION Spec
CONSTANTS
  Host = {h1, h2}
  Fence = {f1, f2}
  Event = {}
  e1 = e1
  e2 = e2
  Null = Null
  Command <- PlainCommand
  Batch <- PlainBatch
  Timeouts = {"zero", "forever"}
  MaxEntries = 3
  MustDrain = TRUE
SYMMETRY HostSymmetry
INVARIANTS Inv FenceAfterBatch SubmitAssertion
PROPERTIES ImplementsStream WaitForFencesComplete
