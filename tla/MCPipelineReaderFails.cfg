CONSTANTS
  FileSize = 5
  BlockSize = 1
  MaxRamSize = 2
  OptimalDataFrameSize = 2
  HardwareConcurrency = 4
  IsSSD = FALSE
  OutputExisted = TRUE
  OriginalSize = 1
  None = None
  Faults = {"readerOpen"}
SPECIFICATION Spec
PROPERTIES TasksEndAfterCleanup
