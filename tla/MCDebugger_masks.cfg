SPECIFICATION DebugSpec
CONSTANTS
  NumCores = 2
  LanesPerCore = 3
  NumGroups = 4
  GroupSize = 2
  Programs <- MixedPrograms
  Masks <- FewLanes
  Calls = {"step", "tick"}
  Null = Null
  Fronts = {"session"}
  MaxErrors = 0
  MaxBreakpoints = 0
INVARIANTS GroupConservation LaneOnce BarrierTogether
PROPERTIES MaskRespected
