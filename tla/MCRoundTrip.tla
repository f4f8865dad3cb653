----------------------------- MODULE MCRoundTrip -----------------------------
(* The self test beside one other client of the gate.                      *)
EXTENDS RoundTrip
====
