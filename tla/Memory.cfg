SPECIFICATION Spec
CONSTANTS
  PAGE_SIZE = 8
  NR_PTE = 4
  NrFrames = 8
  KPage = 16
  VideoFrames <- MCVideo
  VideoMapped <- MCMapped
  CTR_ROW = 2
  CTR_COL = 4
  UserFrame = 3
  Segments <- MCSegments
  STACK_SIZE = 8
  NrTlb = 1
  Accesses <- MCAccesses
  Data <- MCData
  Breaks <- MCBreaks
  MaxStores = 1
INVARIANTS TypeOK AddressSpace TlbCoherent NeverAborts BssZero ScreenFollows
PROPERTIES ImplementsFlatMemory
