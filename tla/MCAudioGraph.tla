---------------------------- MODULE MCAudioGraph ----------------------------
(* The virtual endpoints with four module indices and two generations.      *)
EXTENDS AudioGraph, TLC
====
