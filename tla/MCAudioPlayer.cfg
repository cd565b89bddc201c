SPECIFICATION FairSpec
CONSTANTS
  Nobody = "nobody"
  Videos = {FALSE}
  Faults <- SomeFaults
  Passthrough = TRUE
  Enders <- TwoEnders
  MaxSources = 2
INVARIANTS
  TimerIsSafe
  ReadyAgain
PROPERTIES
  EndIsReported
CHECK_DEADLOCK FALSE
