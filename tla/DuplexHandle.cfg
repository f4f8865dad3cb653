SPECIFICATION FairSpec
CONSTANTS
  Holders = {duplex, manual}
  Duplex = duplex
  None = none
  Bypass = bypass
  Runtimes = {r1, r2}
  Directions <- OneDirection
  MaxRestarts = 1
  MaxOpen <- NoSpeech
CHECK_DEADLOCK FALSE
INVARIANT LeaseFollowsHandle
INVARIANT OrphansAreStopping
PROPERTY CallsReturn
