SPECIFICATION Spec
CONSTANTS
  FileEnd = 1
  aud = aud
  vid = vid
  Tracks <- BothTracks
  Rates <- DoubleSpeed
  Pictures <- AnyFile
  Faults <- SwitchFault
  Targets <- EndPosition
  Looping = TRUE
  PauseAfterPlay = TRUE
PROPERTIES
  NoSeekLost
CHECK_DEADLOCK FALSE
