CONSTANTS
  ja = ja
  jb = jb
  jc = jc
  ga = ga
  gb = gb
  cx = cx
  caller = caller
  ka = ka
  kb = kb
  none = none
  Leaf <- MCLeaf
  Composite <- MCComposite
  CronJob <- MCCron
  NoParallel <- MCCron
  Caller <- caller
  Key <- MCKey
  NoKey <- none
  MaxItems = 2
  MaxOnDone = 1
  MaxPresses = 2
  Together = FALSE
SPECIFICATION JfSpec
INVARIANTS
  JfTypeOK
  StoredInOrder
  DirectInOrder
  RunsAfterParents
  
  IdentityKept
  CancelledTogether
SYMMETRY Symmetry
CHECK_DEADLOCK FALSE
