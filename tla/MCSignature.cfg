CONSTANTS
  None = None
  OptimalDataFrameSize = 3
  DirectSize = 2
  MaxLength = 3
  Scenarios <- MCScenarios
SPECIFICATION Spec
INVARIANTS TypeOK SerialSignature FramesReassemble WhatStaysIsSigned FailureRestores
  OldContentStays NoSpuriousFailure IsRemainder DetectsBursts
PROPERTIES OutputIsBlockFile
