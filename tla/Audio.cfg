SPECIFICATION FairSpec
CONSTANTS
  Units = 2
  NrBlocks = 3
INVARIANTS ChunkOwned
PROPERTIES ImplementsStream BlocksHeard
