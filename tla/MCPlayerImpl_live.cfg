SPECIFICATION FairSpec
CONSTANTS
  FileEnd = 1
  aud = aud
  vid = vid
  Tracks <- BothTracks
  Rates <- DoubleSpeed
  Pictures <- NoPicture
  Faults <- NoFaults
  Targets <- AllPositions
  Looping = FALSE
  PauseAfterPlay = FALSE
PROPERTIES
  CallsReturn
  RewindCompletes
  PlaybackCompletes
