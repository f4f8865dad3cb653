--------------------------- MODULE MCDuplexRuntime ---------------------------
\* Instances of DuplexRuntime: the holders of the gate and the threads are model
\* values; the directions are the two of the daemon, or one of them.
EXTENDS DuplexRuntime

BothDirections == {"microphone", "speaker"}
OneDirection == {"microphone"}

\* The utterances of one direction overlap, those of the other do not.
Overlapping == [d \in BothDirections |-> IF d = "microphone" THEN 2 ELSE 1]
NoSpeech == [d \in OneDirection |-> 0]
==============================================================================
