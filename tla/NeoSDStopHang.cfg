SPECIFICATION Spec
CONSTANTS
  CmdBits = 48
  RespBits = 32
  FirstBits <- RealBits
  WordBits = 8
  Words = 2
  CrcBits = 16
  TailBits = 8
  Prescale = 2
  ClkDiv = 0
  RespDelays = {2, 3}
  DataDelays = {2, 5}
  EarlyData = FALSE
  Blocks = 2
  Calls = {"write_blocks_stop"}
PROPERTY WriteEnds
