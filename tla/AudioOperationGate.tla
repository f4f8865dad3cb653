------------------------- MODULE AudioOperationGate -------------------------
(***************************************************************************)
(* crates/translator-daemon/src/audio_operation_gate.rs: the gate through  *)
(* which every operation on the audio graph is admitted (translation, the  *)
(* human round trip, a manual route).  An admitted client holds a lease    *)
(* that names the state and the generation it was given; releasing the     *)
(* lease frees the gate only if the gate still has both.                   *)
(***************************************************************************)
EXTENDS Naturals

CONSTANTS Holders,        \* client tasks of the daemon, each owning at most one lease
          Sessions,       \* ids of human round-trip sessions
          MaxGeneration   \* u64::MAX in the code

ASSUME MaxGenerationAssumption == MaxGeneration \in Nat

VARIABLES state,        \* GateInner.state
          generation,   \* GateInner.generation
          lease         \* the AudioOperationLease of each client

gateVars == <<state, generation, lease>>

Idle == [kind |-> "Idle"]
Production == [kind |-> "Production"]
Stopping == [kind |-> "Stopping"]
HumanRoundTrip(s) == [kind |-> "HumanRoundTrip", session |-> s]

Operations == {Production} \cup {HumanRoundTrip(s) : s \in Sessions}
States == {Idle, Stopping} \cup Operations

Leases == [expected : States, generation : 0 .. MaxGeneration, active : BOOLEAN]

\* A client that holds no lease: the value of a lease that was released and dropped.
NoLease == [expected |-> Idle, generation |-> 0, active |-> FALSE]

GateInit ==
  /\ state = Idle
  /\ generation = 0
  /\ lease = [h \in Holders |-> NoLease]

\* acquire with the dropped state check a careless edit would leave behind.
AcquireUnlessStopping(h, requested) ==
  /\ ~lease[h].active
  /\ state # Stopping
  /\ generation < MaxGeneration
  /\ generation' = generation + 1
  /\ state' = requested
  /\ lease' = [lease EXCEPT ![h] =
                 [expected |-> requested, generation |-> generation + 1, active |-> TRUE]]

\* acquire: Busy, Stopping and GenerationExhausted leave everything as it was.
Acquire(h, requested) ==
  /\ ~lease[h].active
  /\ state = Idle
  /\ generation < MaxGeneration
  /\ generation' = generation + 1
  /\ state' = requested
  /\ lease' = [lease EXCEPT ![h] =
                 [expected |-> requested, generation |-> generation + 1, active |-> TRUE]]

AcquireProduction(h) == Acquire(h, Production)

AcquireHumanRoundTrip(h, s) == Acquire(h, HumanRoundTrip(s))

\* A manual route asks for the same state as translation.
AcquireManual(h) == Acquire(h, Production)

\* begin_stopping; the generation saturates, and a second call changes nothing.
BeginStopping ==
  /\ state # Stopping
  /\ generation' = IF generation < MaxGeneration THEN generation + 1 ELSE generation
  /\ state' = Stopping
  /\ UNCHANGED lease

\* The lease still names the gate's current operation.
Current(h) == lease[h].generation = generation /\ lease[h].expected = state

\* release that deactivates the lease and forgets to reset the gate.
ReleaseKeepingState(h) ==
  /\ lease[h].active
  /\ lease' = [lease EXCEPT ![h].active = FALSE]
  /\ UNCHANGED <<state, generation>>

\* AudioOperationLease::release, also run by Drop; an inactive lease does nothing.
Release(h) ==
  /\ lease[h].active
  /\ lease' = [lease EXCEPT ![h].active = FALSE]
  /\ state' = IF Current(h) THEN Idle ELSE state
  /\ UNCHANGED generation

GateNext ==
  \/ BeginStopping
  \/ \E h \in Holders :
       \/ AcquireProduction(h)
       \/ \E s \in Sessions : AcquireHumanRoundTrip(h, s)
       \/ AcquireManual(h)
       \/ Release(h)

GateSpec == GateInit /\ [][GateNext]_gateVars

-----------------------------------------------------------------------------
\* Every variable has the shape of the field it models.
GateTypeOK ==
  /\ state \in States
  /\ generation \in 0 .. MaxGeneration
  /\ lease \in [Holders -> Leases]

\* Two clients never hold an active lease at once, whatever the order in which
\* they acquire, release and drop, also after the daemon began to stop.
OneLease ==
  \A h1, h2 \in Holders : lease[h1].active /\ lease[h2].active => h1 = h2

\* The gate is never busy on behalf of nobody: while it names an operation, one
\* client holds an active lease whose release will free it.
BusyHasOwner ==
  state \in Operations => \E h \in Holders : lease[h].active /\ Current(h)

\* No release, however late or at whatever generation, takes the gate out of
\* Stopping (begin_stopping invalidates the leases that are out).
StoppingIsFinal == [][state = Stopping => state' = Stopping]_gateVars

\* The gate implements the abstract admission of one operation at a time.
Admission == INSTANCE AudioAdmission
               WITH operating <- {h \in Holders : lease[h].active},
                    stopping <- (state = Stopping)

\* The leases and generations of the gate admit exactly what AudioAdmission allows:
\* one operation at a time, and none once the daemon stops.
ImplementsAdmission == Admission!ASpec
=============================================================================
