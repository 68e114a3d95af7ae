CONSTANTS
  FileSize = 5
  BlockSize = 1
  MaxRamSize = 6
  OptimalDataFrameSize = 2
  HardwareConcurrency = 4
  IsSSD = FALSE
  OutputExisted = TRUE
  OriginalSize = 1
  None = None
  Faults = {"missingInput", "writerOpen", "writeFail"}
SPECIFICATION Spec
INVARIANTS RestoredAtExit
PROPERTIES ImplementsSignatureFile
