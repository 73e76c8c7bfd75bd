CONSTANTS
  ja = ja
  jb = jb
  jc = jc
  jd = jd
  ga = ga
  gb = gb
  Leaf <- MCLeaf
  Composite <- MCComposite
  MaxItems = 2
  MaxOnDone = 1
SPECIFICATION DySpec
INVARIANTS
  ChainsAreSequential
SYMMETRY Symmetry
CHECK_DEADLOCK FALSE
