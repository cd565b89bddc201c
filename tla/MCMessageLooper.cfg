CONSTANTS
  m1 = m1
  m2 = m2
  c1 = c1
  c2 = c2
  w1 = w1
  Msgs <- MCMsgs
  Whats <- MCOneWhat
  Clients <- MCClients
  LooperThread = LooperThread
  None = None
  Delays <- MCOneDelay
  EmptyWait = 1
  MaxTime = 1
  MaxPosts = 3
SPECIFICATION FairSpec
INVARIANTS
  TypeOK
  PoolPartition
  NoLeakNoAlias
  DeliveryOrder
PROPERTIES
  EventuallyTaken
  StopReturns
