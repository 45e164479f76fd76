CONSTANTS
  NrSectors = 3
  W = 2
  File <- MCFile
  NR_SEC_CACHE = 2
  Radix = 2
  HZ = 2
  Ops = {"read"}
  Slow = TRUE
  Polite = FALSE
SPECIFICATION FairSpec
INVARIANTS TypeOK RightWordRead InStep
PROPERTY RequestsEnd
CHECK_DEADLOCK TRUE
