CONSTANTS
  NR_BP = 3
  Addr = {0, 1, 2}
  Program <- MCProgram
  Late = {0}
  Handlers = {2}
  Values = {0, 1}
  MaxN = 2
  Watching = TRUE
  Careful = TRUE
SPECIFICATION Spec
INVARIANTS PoolPartition 
CHECK_DEADLOCK FALSE
