SPECIFICATION Spec
CONSTANTS
  Sectors = 3
  SectorWords = 4
  Erased = 20
  Garbled = 21
  Contents <- MCContents
  RxDepth = 1
  TxDepth = 2
  PageWords = 2
  Old <- MCOld
  Files <- MCFiles
  WriteAddrs = {0, 2, 8}
  EraseAddrs = {5, 13}
  Reads <- MCReads
  SecondWords = 3
  UseAfterWindow = FALSE
  SlowFlash = FALSE
INVARIANTS
  TypeOK
  BusyLoaderUndisturbed
  ReplyAnswersCommand
PROPERTIES
  WritesAreWhole
  LoaderReturns
