SPECIFICATION FairSpec
CONSTANTS
  Slots <- TwoThreads
  NoThread = "no thread"
  MaxFiles = 2
  MaxPosts = 1
  MaxFailures = 1
  WriteOnly <- SecondFile
  Prompt = TRUE
  Processes <- OneClient
  NoClient = "nobody"
  Kinds <- TwoKinds
  SourceMax = 1
  Faults <- SomeFaults
INVARIANTS
  TracksMatch
  DescriptorsAccounted
PROPERTIES
  EveryMessageTaken
  NoThreadOutlivesSink
