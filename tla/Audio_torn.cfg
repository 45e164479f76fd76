SPECIFICATION Spec
CONSTANTS
  Units = 2
  NrBlocks = 4
INVARIANTS PlaysWholeBlocks
