SPECIFICATION FairDebugSpec
CONSTANTS
  NumCores = 2
  LanesPerCore = 2
  NumGroups = 3
  GroupSize = 1
  Programs <- UniformPrograms
  Masks <- AllLanes
  Calls = {"step"}
  Null = Null
  Fronts = {"interactive"}
  MaxErrors = 1
  MaxBreakpoints = 1
INVARIANTS DebugCompletes DebugLockStep
PROPERTIES BreakpointsHit DebugTerminates
