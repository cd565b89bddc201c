SPECIFICATION FairSpec
CONSTANTS
  MaxLost = 1
  Files <- EvenFiles
  InputRoom = 1
  OutputRoom = 2
  EosFits = TRUE
  RenderModes <- AnyMode
  MaxControls = 2
INVARIANTS
  FramesInOrder
  CompleteIsComplete
PROPERTIES
  PlaybackCompletes
CHECK_DEADLOCK FALSE
