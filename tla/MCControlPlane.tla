--------------------------- MODULE MCControlPlane ---------------------------
(* The control plane with model values for connections and streams.         *)
EXTENDS ControlPlane
CONSTANTS s1, d1, d2
====
