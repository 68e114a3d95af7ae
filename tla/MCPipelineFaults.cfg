CONSTANTS
  FileSize = 7
  BlockSize = 2
  MaxRamSize = 3
  OptimalDataFrameSize = 4
  HardwareConcurrency = 6
  IsSSD = TRUE
  OutputExisted = TRUE
  OriginalSize = 1
  None = None
  Faults = {"missingInput", "readerOpen", "readFail", "calcAlloc", "writerOpen", "writeFail", "closeFail"}
SPECIFICATION Spec
CHECK_DEADLOCK FALSE
INVARIANTS TypeOK SuccessMeansSigned OriginalPrefixPreserved OneCopy FlagsSound
