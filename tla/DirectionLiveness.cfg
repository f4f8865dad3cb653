SPECIFICATION FairSpec
CONSTANTS
  Utterances = {u1, u2}
  None = None
  MaxAudio = 2
  CollectingTimeout = 2
  FirstAudioTimeout = 2
  InterDeltaTimeout = 1
  CancelTimeout = 0
  CloseTimeout = 0
  MaxAge = 1
  CaptureLag = 1
  MaxActive = 2
  MaxTerminal = 2
  DebugText = FALSE
PROPERTY WatchdogResolves
CHECK_DEADLOCK FALSE
INVARIANT CompletedMeansPlayed
