CONSTANTS
  FileSize = 5
  BlockSize = 1
  MaxRamSize = 2
  OptimalDataFrameSize = 2
  HardwareConcurrency = 4
  IsSSD = FALSE
  OutputExisted = TRUE
  OriginalSize = 1
  None = None
  Faults = {"writerOpen"}
SPECIFICATION Spec
PROPERTIES WriterFailureReported
CHECK_DEADLOCK FALSE
