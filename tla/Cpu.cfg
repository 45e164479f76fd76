CONSTANTS
  BYTE = 2
  EXPONENT = 3
  FRACTION = 4
  DIVIDEND = 14
  Loads <- MCLoads
  Data = 24
  Top = 76
SPECIFICATION Spec
INVARIANT TypeOK
PROPERTIES ImplementsIsa ConditionsMean
CHECK_DEADLOCK FALSE
