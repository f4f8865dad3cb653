SPECIFICATION FairSpec
CONSTANTS
  Holders = {duplex}
  Duplex = duplex
  None = none
  Bypass = bypass
  Runtimes = {r1}
  Directions <- BothDirections
  MaxRestarts = 1
  MaxOpen <- Overlapping
CHECK_DEADLOCK FALSE
PROPERTY PolicyReopenIsFree
PROPERTY BarrierReleases
PROPERTY RuntimeEnds
