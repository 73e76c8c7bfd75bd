CONSTANTS
  p = p
  q = q
  c = c
  d = d
  w1 = w1
  w2 = w2
  admin = admin
  Admin <- admin
  Worker <- MCWorkers
  Job <- MCAlone
  Parents <- MCAloneParents
  MaxRetries <- MCAloneRetries
  Outcomes <- MCAloneOutcomes
  Buttons = {}
  Prompt = TRUE
  Lossy = TRUE
  MaxRuns = 5
  MaxRequests = 1
  MaxCrashes = 0
  MaxPresses = 0
SPECIFICATION QjFairSpec
PROPERTIES
  EnqueuedIsRequeued
CHECK_DEADLOCK FALSE
