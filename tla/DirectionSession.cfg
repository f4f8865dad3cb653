SPECIFICATION Spec
CONSTANTS
  Utterances = {u1, u2, u3}
  None = None
  MaxAudio = 1
  CollectingTimeout = 2
  FirstAudioTimeout = 2
  InterDeltaTimeout = 1
  CancelTimeout = 1
  CloseTimeout = 1
  MaxAge = 1
  CaptureLag = 1
  MaxActive = 2
  MaxTerminal = 2
  DebugText = TRUE
SYMMETRY Symmetry
INVARIANTS WithinCapacity Agreement
PROPERTIES OutcomeIsFinal
CHECK_DEADLOCK FALSE
