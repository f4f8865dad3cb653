SPECIFICATION Spec
CONSTANTS
  Sessions = {s1, s2}
  Utterances = {u1}
  Callers = {c1}
  QueuedPerDirection = 1
  MaxGenerations = 4
  MaxJobs = 3
  MaxNative = 1
INVARIANTS JobsHaveHome AdmissionBound ResultsAreCurrent ShutdownDrains
SYMMETRY Symmetry
