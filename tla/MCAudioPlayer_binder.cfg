SPECIFICATION FairSpec
CONSTANTS
  Nobody = "nobody"
  Videos = {FALSE}
  Faults <- NoFaults
  Passthrough = FALSE
  Enders <- TwoEnders
  MaxSources = 1
PROPERTIES
  EndIsReported
CHECK_DEADLOCK FALSE
