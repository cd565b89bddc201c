SPECIFICATION Spec
CONSTANTS
  c1 = c1
  c2 = c2
  Nobody = Nobody
  Clients <- TwoClients
  Requests <- EveryRequest
  Videos = {TRUE, FALSE}
  Faults <- SomeFaults
  MaxLosses = 1
INVARIANTS
  AnswersAreTrue
PROPERTIES
  RepeatedCallsSucceed
