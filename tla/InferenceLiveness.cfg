SPECIFICATION FairSpec
CONSTANTS
  Sessions = {s1}
  Utterances = {u1}
  Callers = {c1}
  QueuedPerDirection = 1
  MaxGenerations = 4
  MaxJobs = 2
  MaxNative = 1
PROPERTY EverybodyIsAnswered
