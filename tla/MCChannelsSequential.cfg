CONSTANTS
  root = root
  seq = seq
  thr = thr
  Job = {1, 2, 3}
  Channel <- MCChannel
  Root <- root
  Parent <- MCParent
  Capacity <- MCCapacity
  Sequential <- MCSequential
  Throttle <- MCThrottle
  Seq <- MCSeq
  Attrs <- MCAttrsSequential
  MaxTime = 3
SPECIFICATION ChSpec
PROPERTIES
  SequentialWaits
