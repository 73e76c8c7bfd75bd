CONSTANTS
  p = p
  q = q
  c = c
  d = d
  w1 = w1
  w2 = w2
  admin = admin
  Admin <- admin
  Worker <- MCWorkers
  Job <- MCFork
  Parents <- MCForkParents
  MaxRetries <- MCForkRetries
  Outcomes <- MCForkOutcomes
  Buttons = {}
  Prompt = TRUE
  Lossy = FALSE
  MaxRuns = 2
  MaxRequests = 1
  MaxCrashes = 0
  MaxPresses = 0
SPECIFICATION QjFairSpec
PROPERTIES
  ChildrenFollow
CHECK_DEADLOCK FALSE
