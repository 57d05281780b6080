SPECIFICATION Spec
CONSTANTS
  CmdBits = 48
  RespBits = 32
  FirstBits <- RealBits
  WordBits = 8
  Words = 8
  CrcBits = 16
  TailBits = 8
  Prescale = 2
  ClkDiv = 0
  RespDelays = {2, 8, 9, 10}
  DataDelays = {2, 5}
  EarlyData = TRUE
  Blocks = 2
  Calls = {"read_block"}
INVARIANT ResponseAligned
