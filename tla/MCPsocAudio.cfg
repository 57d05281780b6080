SPECIFICATION Spec
CONSTANTS
  Depth = 2
  SramMacro = FALSE
  FrameBits = 4
  SclkDiv = 2
  DacDiv = 3
  TimeoutVal = 4
  Samples = 3
  Settings <- Sharing
  Pads = {0}
  ResetToStop = TRUE
INVARIANTS
  TypeOK
  CommitFindsSpace
  I2sReadsAWord
  StoredInOrder
  SentInOrder
  ChannelClockLeads
  OnlyAddressedAnswers
PROPERTIES
  PlaybackGoesOn
  ConvertedInOrder
  StallIsShort
