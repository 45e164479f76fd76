CONSTANTS
  NR_BP = 2
  Addr = {0, 1, 2, 3}
  Program <- MCProgram
  Late = {0}
  Handlers = {2}
  Values = {0}
  MaxN = 0
  Watching = FALSE
  Careful = TRUE
SPECIFICATION Spec
INVARIANTS TypeOK Armed
PROPERTY ImplementsDebugger
CHECK_DEADLOCK FALSE
