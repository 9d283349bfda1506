SPECIFICATION Spec
CONSTANTS
  Byte = 8
  Unit = 1344
  Image = {"color", "bytes", "solid", "floats", "swapped", "wide"}
  Buffer = {"big", "small"}
  View = {"flat", "array", "mip", "volume", "line", "texels", "tail", "snorm", "unorm", "sint", "swap", "recast"}
  Info <- TheImages
  BufferSize <- TheBuffers
  TexelUse = {"big"}
  Alignment = 4
  ViewInfo <- TheViews
  Command <- TheCommands
  Placement <- Placements
  Contents <- Patterns
  MaxCommands = 1
  Shape <- TheShapes
INVARIANTS TexelsApart NearestStored
PROPERTY ImplementsSurfaces
CHECK_DEADLOCK FALSE
