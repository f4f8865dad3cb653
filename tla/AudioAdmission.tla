--------------------------- MODULE AudioAdmission ---------------------------
(***************************************************************************)
(* What the audio operation gate promises to its clients, without leases,  *)
(* generations or states: at most one client operates the audio graph, and *)
(* once the daemon is stopping nobody is admitted any more.  An operation  *)
(* that was running when the daemon began to stop may still finish.        *)
(***************************************************************************)
CONSTANT Holders

VARIABLES operating,   \* the clients whose audio operation is admitted
          stopping     \* the daemon has begun to stop

avars == <<operating, stopping>>

AInit == operating = {} /\ stopping = FALSE

Admit(h) ==
  /\ operating = {}
  /\ ~stopping
  /\ operating' = {h}
  /\ UNCHANGED stopping

Finish(h) ==
  /\ h \in operating
  /\ operating' = operating \ {h}
  /\ UNCHANGED stopping

Stop ==
  /\ stopping' = TRUE
  /\ UNCHANGED operating

ANext == Stop \/ \E h \in Holders : Admit(h) \/ Finish(h)

ASpec == AInit /\ [][ANext]_avars
=============================================================================
