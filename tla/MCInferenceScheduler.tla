------------------------ MODULE MCInferenceScheduler ------------------------
EXTENDS InferenceScheduler, TLC

\* Sessions and callers are interchangeable; used with safety properties only.
Symmetry == Permutations(Sessions) \cup Permutations(Callers)
=============================================================================
