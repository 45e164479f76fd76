CONSTANTS
  BYTE = 2
  EXPONENT = 3
  FRACTION = 4
  DIVIDEND = 14
  Loads <- MCDenormals
  Data = 24
  Top = 76
SPECIFICATION Spec
PROPERTIES ProductsRound
CHECK_DEADLOCK FALSE
