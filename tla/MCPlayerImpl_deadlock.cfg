SPECIFICATION FairSpec
CONSTANTS
  FileEnd = 1
  aud = aud
  vid = vid
  Tracks <- BothTracks
  Rates <- NoRates
  Pictures <- NoPicture
  Faults <- NoFaults
  Targets <- NoPositions
  Looping = FALSE
  PauseAfterPlay = TRUE
PROPERTIES
  CallsReturn
CHECK_DEADLOCK FALSE
