CONSTANTS
  None = None
  KB = 2
  MB = 4
  GB = 8
  OptimalDataFrameSize = 4
  IntModulus = 16
  SizeModulus = 64
  Numbers = {0, 1, 3, 8, 15}
  MaxFileSize = 13
  MaxConcurrency = 12
SPECIFICATION TestSpec
INVARIANTS TypeOK ExitCodeTruthful BlocksPartitioned BytesCovered ThreadBudget
  PassMeansSigned NoFalseAlarm TestCanBeRepeated
