CONSTANTS
  sa = sa
  sb = sb
  ja = ja
  jb = jb
  base = base
  sub = sub
  leaf = leaf
  Part <- MCPart
  RootPart <- base
  Unlimited = Unlimited
  Nobody = Nobody
  Ghost = Ghost
  Server <- MCServer
  Prefork <- MCPrefork
  DbNames <- MCDbNames
  Installed <- MCInstalled
  Job <- MCJob
  DbOf <- MCDbOf
  ChannelOf <- MCChannelOf
  Texts <- MCTexts
  MaxFaults = 2
SPECIFICATION SvFairSpec
PROPERTIES
  ServedForGood
  LocksReleased
INVARIANTS
  SvTypeOK
  OneMaster
  NeverCrosswise
  FleetWithinCapacity
  NearestConfigured
  RunningCounted
CHECK_DEADLOCK FALSE
