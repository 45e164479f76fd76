CONSTANTS
  NrSectors = 3
  W = 2
  File <- MCWhole
  NR_SEC_CACHE = 2
  Radix = 2
  HZ = 2
  Ops = {"read", "write"}
  Slow = FALSE
  Polite = TRUE
SPECIFICATION Spec
INVARIANTS IInv  RightWordSent
CHECK_DEADLOCK TRUE
