SPECIFICATION FairSpec
CONSTANTS
  Host = {h1, h2}
  Fence = {f1}
  e1 = e1
  e2 = e2
  Event = {}
  Null = Null
  Command <- PlainCommand
  Batch <- FenceBatch
  Timeouts = {"finite", "forever"}
  MaxEntries = 2
  MustDrain = TRUE
PROPERTIES ImplementsFairStream FenceWaitersReturn
