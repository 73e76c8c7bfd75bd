CONSTANTS
  p = p
  q = q
  c = c
  d = d
  w1 = w1
  w2 = w2
  admin = admin
  Admin <- admin
  Worker <- MCWorkers
  Job <- MCGroup
  Parents <- MCGroupParents
  MaxRetries <- MCGroupRetries
  Outcomes <- MCGroupOutcomes
  Buttons = {"set_cancelled"}
  Prompt = TRUE
  Lossy = FALSE
  MaxRuns = 5
  MaxRequests = 2
  MaxCrashes = 1
  MaxPresses = 1
SPECIFICATION QjFairSpec
INVARIANTS
  SingleOwner
  CommittedOnce
  ReleasedWhenDone
  AttemptsBounded
PROPERTIES
  ImplementsJobLife
  EveryJobEnds
CHECK_DEADLOCK FALSE
