------------------------- MODULE MCDirectionSession -------------------------
(* Small instances of DirectionSession.                                    *)
EXTENDS DirectionSession, TLC

Symmetry == Permutations(Utterances)
=============================================================================
