CONSTANTS
  p = p
  q = q
  c = c
  d = d
  w1 = w1
  w2 = w2
  admin = admin
  Admin <- admin
  Worker <- MCWorkers
  Job <- MCAlone
  Parents <- MCAloneParents
  MaxRetries <- MCEndless
  Outcomes <- MCEndlessOutcomes
  Buttons = {}
  Prompt = TRUE
  Lossy = FALSE
  MaxRuns = 5
  MaxRequests = 1
  MaxCrashes = 2
  MaxPresses = 0
SPECIFICATION QjSpec
INVARIANTS
  InfiniteRetries
CHECK_DEADLOCK FALSE
