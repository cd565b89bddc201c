SPECIFICATION FairSpec
CONSTANTS
  b1 = b1
  b2 = b2
  none = none
  Buffers <- TwoBuffers
  NoBuffer = none
  MaxEmpty = 1
  Faults <- AllFaults
  StartsPaused = FALSE
INVARIANTS
  FramesCounted
  NoFrameMissed
  ThreadsFollowStatus
  SinkOutlivesThreads
  NeverTerminated
PROPERTIES
  BuffersLostOnlyByDraining
  EveryFrameTaken
CHECK_DEADLOCK FALSE
