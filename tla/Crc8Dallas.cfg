CONSTANT
  MaxLength = 2
SPECIFICATION Spec
CHECK_DEADLOCK FALSE
INVARIANTS IsDallasMaxim
