SPECIFICATION Spec
CONSTANTS
  Files <- MCFiles
  Modes = {"RUN", "DEBUG", "NO_RESET"}
  Ticks = {1, 3}
  Cores = 4
  Lanes = 8
  Null = Null
INVARIANTS ExecutesAsWritten ResultRight ContinueRunsAll AbortsExplained
PROPERTIES DebuggerWaits
