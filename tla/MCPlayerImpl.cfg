SPECIFICATION Spec
CONSTANTS
  FileEnd = 2
  aud = aud
  vid = vid
  Tracks <- BothTracks
  Rates <- DoubleSpeed
  Pictures <- NoPicture
  Faults <- SomeFaults
  Targets <- ThreePositions
  Looping = FALSE
  PauseAfterPlay = FALSE
INVARIANTS
  LastRewindWins
  StatesAgree
PROPERTIES
  NoSeekLost
  PauseHolds
