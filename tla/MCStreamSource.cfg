SPECIFICATION FairSpec
CONSTANTS
  b1 = b1
  b2 = b2
  nb = nb
  Buffers <- TwoBuffers
  NoBuffer <- nb
  Sizes <- OneOrTwo
  BufferSize = 2
  Slots = 1
  MaxBytes = 4
  MaxSources = 2
  RefusedStops = FALSE
INVARIANTS
  BuffersPartition
PROPERTIES
  IsByteStream
  EverySentIsRead
  ReleaseReturns
  PlayedOutIsSafe
CHECK_DEADLOCK FALSE
