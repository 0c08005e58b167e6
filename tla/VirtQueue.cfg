\* Index wraparound, byte order, indirect descriptors and their fallback, EVENT_IDX,
\* a polling device that sometimes returns an out-of-range id.
SPECIFICATION VQFairSpec
CONSTANTS
  NULL = NULL
  Num = 2
  MaxSeg = 2
  Shapes <- ShapesTwo
  Cookies = {c1}
  UseIndirect = TRUE
  Modern = TRUE
  Word = 8
  bswap16 <- Swap3
  UseEventIdx = TRUE
  DevicePolls = TRUE
  BadIds = TRUE
INVARIANTS
  TypeOK
  FreeListIntact
  ChainsIntact
  NothingLeaks
PROPERTIES
  ImplementsRequestRing
  ImplementsDescTable
  CompletionsReturned
