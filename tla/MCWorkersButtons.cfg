CONSTANTS
  p = p
  q = q
  c = c
  d = d
  w1 = w1
  w2 = w2
  admin = admin
  Admin <- admin
  Worker <- MCWorkers
  Job <- MCAlone
  Parents <- MCAloneParents
  MaxRetries <- MCAloneRetries
  Outcomes <- MCAloneOutcomes
  Buttons = {"set_done", "set_cancelled", "set_pending"}
  Prompt = FALSE
  Lossy = TRUE
  MaxRuns = 3
  MaxRequests = 2
  MaxCrashes = 1
  MaxPresses = 2
SPECIFICATION QjSpec
SYMMETRY Symmetry
INVARIANTS
  QjTypeOK
PROPERTIES
  CommitsOnlyStarted
CHECK_DEADLOCK FALSE
