SPECIFICATION Spec
CONSTANTS
  primary = primary
  secondary = secondary
  Primary = {primary}
  Secondary = {secondary}
  Scripts <- AllScripts
  MaxRecordings = 3
  MaxSubmits = 2
  Null = Null
INVARIANTS CapturedAsBound DrawsInTheirSubpass FrameAsRecorded
CHECK_DEADLOCK FALSE
