SPECIFICATION FairSpec
CONSTANTS
  Sessions = {s1, s2}
  MaxAttempts = 2
  MaxSpawns = 3
  MaxLaunches = 4
INVARIANT GroupIsOwned
INVARIANT SessionsAreCurrent
PROPERTY ShutdownLeavesNothing
PROPERTY CallsEnd
