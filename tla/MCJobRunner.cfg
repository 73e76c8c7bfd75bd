CONSTANTS
  root = root
  sub = sub
  first = first
  second = second
  child = child
  w1 = w1
  w2 = w2
  admin = admin
  Admin <- admin
  Worker <- MCWorker
  Job <- MCJob
  Channel <- MCChannel
  Root <- root
  Parent <- MCParent
  Capacity <- MCCapacity
  Sequential = {}
  Throttle <- MCThrottle
  Seq <- MCSeq
  Attrs <- MCAttrs
  MaxTime = 2
  ChannelOf <- MCChannelOf
  Priority <- MCPriority
  Delay = 1
  Parents <- MCParents
  MaxRetries <- MCRetries
  Outcomes <- MCOutcomes
  Buttons = {"set_cancelled"}
  Prompt = TRUE
  Lossy = FALSE
  MaxRuns = 2
  MaxRequests = 2
  MaxCrashes = 1
  MaxPresses = 1
SPECIFICATION RunnerSpec
SYMMETRY Symmetry
INVARIANTS
  RunnerTypeOK
  CapacityRespected
  PerformersWithinCapacity
  InSync
PROPERTIES
  ImplementsQueueJob
CHECK_DEADLOCK FALSE
