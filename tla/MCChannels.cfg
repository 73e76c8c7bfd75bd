CONSTANTS
  root = root
  seq = seq
  thr = thr
  Job = {1, 2, 3}
  Channel <- MCChannel
  Root <- root
  Parent <- MCParent
  Capacity <- MCCapacity
  Sequential <- MCSequential
  Throttle <- MCThrottle
  Seq <- MCSeq
  Attrs <- MCAttrs
  MaxTime = 3
SPECIFICATION ChSpec
INVARIANTS
  ChTypeOK
  Placement
  NoOversleep
PROPERTIES
  ThrottleSpacing
  NoInversion
