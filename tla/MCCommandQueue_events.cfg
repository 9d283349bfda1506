SPECIFICATION FairSpec
CONSTANTS
  Host = {h1, h2}
  Fence = {}
  e1 = e1
  e2 = e2
  Event = {e1, e2}
  Null = Null
  Command <- EventCommand
  Batch <- EventBatch
  Timeouts = {"zero"}
  MaxEntries = 2
  MustDrain = FALSE
INVARIANTS WaitEventsComplete
PROPERTIES QueueWaitersReturn
CHECK_DEADLOCK FALSE
