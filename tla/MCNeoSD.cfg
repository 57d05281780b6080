SPECIFICATION Spec
CONSTANTS
  CmdBits = 16
  RespBits = 12
  FirstBits <- ShortBits
  WordBits = 8
  Words = 2
  CrcBits = 8
  TailBits = 8
  Prescale = 2
  ClkDiv = 0
  RespDelays = {2, 3}
  DataDelays = {2, 36}
  EarlyData = FALSE
  Blocks = 2
  Calls = {"read_block", "read_blocks_stop", "write_blocks_stop", "all_send_cid", "select"}
INVARIANTS
  TypeOK
  ResponseAligned
  WordsInOrder
  CommandAligned
  BlockAligned
  CallStartsClean
PROPERTIES
  TokenAligned
  ReadsComplete
  BusyRespected
  CallsEnd
