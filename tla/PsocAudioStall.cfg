SPECIFICATION Spec
CONSTANTS
  Depth = 2
  SramMacro = TRUE
  FrameBits = 4
  SclkDiv = 2
  DacDiv = 3
  TimeoutVal = 4
  Samples = 3
  Settings <- AllSettings
  Pads = {0}
  ResetToStop = FALSE
PROPERTY
  StallEnds
