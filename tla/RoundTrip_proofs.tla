--------------------------- MODULE RoundTrip_proofs ---------------------------
(***************************************************************************)
(* Proofs about the audio operation gate and about the round-trip self     *)
(* test, which extends it, for every set of sessions and gate holders and  *)
(* any number of failures: the gate admits one operation at a time and     *)
(* covers the resources of the test, a runtime is forgotten only when it   *)
(* left nothing behind, a test that was not told to stop says how it       *)
(* ended, and a completed test was earned.                                 *)
(***************************************************************************)
EXTENDS RoundTrip, WellFoundedInduction, TLAPS

----------------------------------------------------------------------------
(* The gate alone: it admits one operation at a time for every number of   *)
(* clients, every set of sessions and every bound of the generation        *)
(* counter, and implements AudioAdmission.                                 *)

\* A lease that is out names the current operation, unless the daemon stops.
LeaseValid ==
  \A h \in Holders :
    lease[h].active =>
      /\ lease[h].expected \in Operations
      /\ state = Stopping \/ Current(h)

\* The inductive invariant: OneLease alone is not inductive, because Acquire
\* relies on an idle gate having no lease out, which LeaseValid provides.
GateInv == GateTypeOK /\ OneLease /\ LeaseValid /\ BusyHasOwner

\* The four states differ, so an idle or stopping gate names no operation.
LEMMA StatesDiffer ==
  /\ Idle # Stopping
  /\ Idle \notin Operations
  /\ Stopping \notin Operations
BY DEF Idle, Stopping, Operations, Production, HumanRoundTrip

\* An idle gate has no lease out.
LEMMA IdleIsFree ==
  GateInv /\ state = Idle => \A h \in Holders : ~lease[h].active
BY StatesDiffer DEF GateInv, LeaseValid, Current

\* The initial state of the gate satisfies the invariant.
LEMMA GateInitInv == GateInit => GateInv
BY StatesDiffer, MaxGenerationAssumption
   DEF GateInit, GateInv, GateTypeOK, OneLease, LeaseValid, BusyHasOwner, States, Leases, NoLease

\* Acquire keeps the invariant: it happens only when no lease is out.
LEMMA AcquireInv ==
  ASSUME GateInv, NEW h \in Holders, NEW op \in Operations, Acquire(h, op)
  PROVE  GateInv'
<1> DEFINE new == [expected |-> op, generation |-> generation + 1, active |-> TRUE]
<1>1. /\ generation + 1 \in 0 .. MaxGeneration
      /\ generation' = generation + 1
      /\ state' = op
      /\ lease' = [lease EXCEPT ![h] = new]
      /\ lease \in [Holders -> Leases]
  BY MaxGenerationAssumption DEF GateInv, GateTypeOK, Acquire
<1>2. \A g \in Holders : ~lease[g].active
  BY IdleIsFree DEF Acquire
<1>3. new \in Leases
  BY <1>1 DEF Leases, States
<1>4. /\ lease'[h] = new
      /\ \A g \in Holders \ {h} : lease'[g] = lease[g]
  BY <1>1
<1>5. GateTypeOK'
  BY <1>1, <1>3 DEF GateTypeOK, States
<1>6. \A g \in Holders : lease'[g].active => g = h
  BY <1>2, <1>4
<1>7. OneLease'
  BY <1>6 DEF OneLease
<1>8. LeaseValid'
  BY <1>1, <1>4, <1>6 DEF LeaseValid, Current
<1>9. BusyHasOwner'
  BY <1>1, <1>4 DEF BusyHasOwner, Current
<1> QED BY <1>5, <1>7, <1>8, <1>9 DEF GateInv

\* Release keeps the invariant: the only lease that is out gives the gate back.
LEMMA ReleaseInv ==
  ASSUME GateInv, NEW h \in Holders, Release(h)
  PROVE  GateInv'
<1>1. /\ lease[h].active
      /\ generation' = generation
      /\ state' = (IF Current(h) THEN Idle ELSE state)
      /\ lease \in [Holders -> Leases]
      /\ lease' = [lease EXCEPT ![h].active = FALSE]
  BY DEF GateInv, GateTypeOK, Release
<1>2. /\ lease'[h] \in Leases
      /\ ~lease'[h].active
      /\ \A g \in Holders \ {h} : lease'[g] = lease[g]
  BY <1>1 DEF Leases
<1>3. \A g \in Holders : ~lease'[g].active
  BY <1>1, <1>2 DEF GateInv, OneLease
<1>4. GateTypeOK'
  BY <1>1, <1>2 DEF GateInv, GateTypeOK, States
<1>5. OneLease' /\ LeaseValid'
  BY <1>3 DEF OneLease, LeaseValid
<1>6. state' \notin Operations
  <2>1. state = Stopping \/ Current(h)
    BY <1>1 DEF GateInv, LeaseValid
  <2> QED BY <1>1, <2>1, StatesDiffer
<1> QED BY <1>4, <1>5, <1>6 DEF GateInv, BusyHasOwner

\* BeginStopping keeps the invariant: it invalidates the leases that are out.
LEMMA StoppingInv ==
  ASSUME GateInv, BeginStopping
  PROVE  GateInv'
<1>1. GateTypeOK'
  BY MaxGenerationAssumption DEF GateInv, GateTypeOK, BeginStopping, States
<1>2. OneLease' /\ LeaseValid'
  BY DEF GateInv, BeginStopping, OneLease, LeaseValid
<1>3. BusyHasOwner'
  BY StatesDiffer DEF BeginStopping, BusyHasOwner
<1> QED BY <1>1, <1>2, <1>3 DEF GateInv

\* Every step of the gate keeps the invariant.
LEMMA GateStepInv == GateInv /\ [GateNext]_gateVars => GateInv'
<1> SUFFICES ASSUME GateInv, [GateNext]_gateVars PROVE GateInv'
  OBVIOUS
<1> USE DEF Operations
<1>1. CASE BeginStopping
  BY <1>1, StoppingInv
<1>2. ASSUME NEW h \in Holders, AcquireProduction(h) \/ AcquireManual(h) PROVE GateInv'
  BY <1>2, AcquireInv DEF AcquireProduction, AcquireManual
<1>3. ASSUME NEW h \in Holders, NEW s \in Sessions, AcquireHumanRoundTrip(h, s) PROVE GateInv'
  BY <1>3, AcquireInv DEF AcquireHumanRoundTrip
<1>4. ASSUME NEW h \in Holders, Release(h) PROVE GateInv'
  BY <1>4, ReleaseInv
<1>5. CASE UNCHANGED gateVars
  BY <1>5 DEF gateVars, GateInv, GateTypeOK, OneLease, LeaseValid, BusyHasOwner, Current
<1> QED BY <1>1, <1>2, <1>3, <1>4, <1>5 DEF GateNext

\* The invariant holds in every reachable state.
THEOREM GateInvariant == GateSpec => []GateInv
BY GateInitInv, GateStepInv, PTL DEF GateSpec

\* The gate's state is always well typed.
THEOREM GateTypeCorrect == GateSpec => []GateTypeOK
<1>1. GateInv => GateTypeOK
  BY DEF GateInv
<1> QED BY <1>1, GateInvariant, PTL

\* At most one audio operation is admitted at any time.
THEOREM GateExclusive == GateSpec => []OneLease
<1>1. GateInv => OneLease
  BY DEF GateInv
<1> QED BY <1>1, GateInvariant, PTL

\* A busy gate always has an owner that can release it.
THEOREM GateNeverOrphaned == GateSpec => []BusyHasOwner
<1>1. GateInv => BusyHasOwner
  BY DEF GateInv
<1> QED BY <1>1, GateInvariant, PTL

\* A release never reopens a gate that is stopping, also when the generation
\* counter is exhausted and the lease still carries the current generation.
THEOREM GateStopsForGood == GateSpec => StoppingIsFinal
<1>1. GateInv /\ [GateNext]_gateVars => [state = Stopping => state' = Stopping]_gateVars
  <2> SUFFICES ASSUME GateInv, [GateNext]_gateVars, state = Stopping PROVE state' = Stopping
    OBVIOUS
  <2>1. CASE \E h \in Holders : Release(h)
    <3>1. PICK h \in Holders : Release(h)
      BY <2>1
    <3>2. lease[h].expected \in Operations
      BY <3>1 DEF Release, GateInv, LeaseValid
    <3> QED BY <3>1, <3>2, StatesDiffer DEF Release, Current
  <2>2. CASE UNCHANGED gateVars
    BY <2>2 DEF gateVars
  <2> QED BY <2>1, <2>2, StatesDiffer
        DEF GateNext, BeginStopping, AcquireProduction, AcquireManual, AcquireHumanRoundTrip, Acquire
<1> QED BY <1>1, GateInvariant, PTL DEF GateSpec, StoppingIsFinal

\* The gate implements AudioAdmission: its leases are the admitted operations.
THEOREM GateRefinesAdmission == GateSpec => ImplementsAdmission
<1> DEFINE ops == {h \in Holders : lease[h].active}
<1>1. GateInit => Admission!AInit
  BY StatesDiffer DEF GateInit, NoLease, Admission!AInit
<1>2. GateInv /\ [GateNext]_gateVars => [Admission!ANext]_Admission!avars
  <2> SUFFICES ASSUME GateInv, [GateNext]_gateVars
               PROVE  Admission!ANext \/ UNCHANGED Admission!avars
    OBVIOUS
  <2>0. lease \in [Holders -> Leases]
    BY DEF GateInv, GateTypeOK
  <2>1. CASE BeginStopping
    BY <2>1 DEF BeginStopping, Admission!ANext, Admission!Stop
  <2>2. ASSUME NEW h \in Holders, NEW op \in Operations, Acquire(h, op)
        PROVE  Admission!ANext
    <3>1. state = Idle /\ state' = op
      BY <2>2 DEF Acquire
    <3>2. ops = {}
      BY <3>1, IdleIsFree
    <3>3. lease' = [lease EXCEPT ![h] =
                      [expected |-> op, generation |-> generation + 1, active |-> TRUE]]
      BY <2>2 DEF Acquire
    <3>4. \A g \in Holders : lease'[g].active <=> g = h
      BY <2>0, <3>2, <3>3
    <3>5. ops' = {h}
      BY <3>4
    <3>6. Admission!Admit(h)
      BY <3>1, <3>2, <3>5, StatesDiffer DEF Admission!Admit
    <3> QED BY <3>6 DEF Admission!ANext
  <2>3. ASSUME NEW h \in Holders, Release(h)
        PROVE  Admission!ANext
    <3>1. h \in ops /\ lease' = [lease EXCEPT ![h].active = FALSE]
      BY <2>3 DEF Release
    <3>2. \A g \in Holders : lease'[g].active <=> (lease[g].active /\ g # h)
      <4>1. ~lease'[h].active /\ \A g \in Holders \ {h} : lease'[g] = lease[g]
        BY <2>0, <3>1 DEF Leases
      <4> QED BY <4>1
    <3>3. ops' = ops \ {h}
      BY <3>2
    <3>4. lease[h].expected \in Operations
      BY <3>1 DEF GateInv, LeaseValid
    <3>5. (state' = Stopping) = (state = Stopping)
      BY <2>3, <3>4, StatesDiffer DEF Release, Current
    <3>6. Admission!Finish(h)
      BY <3>1, <3>3, <3>5 DEF Admission!Finish
    <3> QED BY <3>6 DEF Admission!ANext
  <2>4. CASE UNCHANGED gateVars
    BY <2>4 DEF gateVars, Admission!avars
  <2>5. Production \in Operations /\ \A s \in Sessions : HumanRoundTrip(s) \in Operations
    BY DEF Operations
  <2> QED BY <2>1, <2>2, <2>3, <2>4, <2>5
        DEF GateNext, AcquireProduction, AcquireManual, AcquireHumanRoundTrip
<1> QED BY <1>1, <1>2, GateInvariant, PTL DEF GateSpec, ImplementsAdmission, Admission!ASpec

----------------------------------------------------------------------------
(* The inductive invariant of the self test.                               *)

\* The steps of the lifecycle before and after the reinjection was marked, and of the teardown.
Before == {"build", "duplex", "audio", "capture", "english", "monitor", "spawn", "route",
           "validate", "write", "finish", "absent", "proof", "mark"}
Reinjected == {"russian", "terminal", "terminalWait", "drain", "complete"}
Tearing == {"restore", "writes", "processes", "gone", "duplexStop", "release"}
Holding == Before \cup Reinjected \cup Tearing

EarlyNames == {"WaitingForSpeech", "OutgoingVad", "OutgoingAsrFinal", "OutgoingTranslationFinal",
               "EnglishFirstAudio"}
LateNames == {"VirtualPeerReinjecting", "IncomingAsrFinal", "IncomingTranslationFinal",
              "RussianFirstAudio", "Completed"}
Names == EarlyNames \cup LateNames

Ids == Sessions \cup {NoSession}
SessionRecords == [id : Ids, checkpoint : Names \cup {"Failed", "Stopped"}, proof : BOOLEAN]
ThreadRecords == [pc : Holding \cup {"none", "ended", "aborted"}, failed : BOOLEAN,
                  result : {"none", "ok", "err"}]
ObserverRecords == [id : Ids, checkpoint : Names \cup {"Failed"}, incoming_enabled : BOOLEAN,
                    out : SUBSET Events, in : SUBSET Events, outgoing_terminal : BOOLEAN]

TestTypeOK ==
    /\ session \in SessionRecords /\ thread \in ThreadRecords /\ seen \in ObserverRecords
    /\ active \in {"none", "live", "failed"} /\ call \in {"none", "stop"} /\ stop \in BOOLEAN
    /\ duplex \in {"none", "running", "orphan"} /\ audio \in BOOLEAN
    /\ peer \in {"none", "spawned", "routed", "ghost"} /\ capability \in BOOLEAN

\* The handle and the lease follow the thread.
HandleShape ==
    /\ lease[SelfTest].active <=> thread.pc \in Holding
    /\ thread.pc \in Holding => active = "live"
    /\ active = "none" => thread.pc = "none" \/ (thread.pc = "ended" /\ thread.result = "ok")
    /\ thread.pc = "aborted" => thread.result = "err"

\* What exists before the test has begun, and what is left when it has ended.
ResourceShape ==
    /\ thread.pc \in {"none", "build", "duplex", "ended", "aborted"} =>
         ~audio /\ ~capability /\ peer \in {"none", "ghost"} /\ duplex # "running"
    /\ duplex = "orphan" => thread.pc = "ended" /\ thread.result = "err"
    /\ thread.pc = "release" => duplex = "none" \/ thread.failed

\* The thread and the observer are of the session until it is over; then it stays over.
SessionShape ==
    /\ thread.pc \in Before \cup Reinjected => session.id = seen.id
    /\ thread.pc \in Tearing \cup {"ended"} /\ ~stop => is_terminal(session.checkpoint)
    /\ IsActive(seen.id) => session.checkpoint = seen.checkpoint

\* Nothing but the thread takes a session past the reinjection, with the proof recorded and
\* after the peer was seen to be gone.
ProofShape ==
    /\ session.checkpoint \in LateNames =>
         /\ session.proof /\ peer = "none"
         /\ thread.pc \in Reinjected \cup Tearing \cup {"ended"}
    /\ thread.pc \in {"proof", "mark"} \cup Reinjected => peer = "none"

\* What the observer heard of the incoming utterance.
HeardShape ==
    /\ seen.checkpoint = "RussianFirstAudio" => "audio" \in seen.in
    /\ session.checkpoint = "Completed" => "audio" \in seen.in /\ "terminal" \in seen.in

RoundTripInv ==
    /\ GateInv /\ TestTypeOK /\ HandleShape /\ ResourceShape /\ SessionShape /\ ProofShape
    /\ HeardShape

----------------------------------------------------------------------------
(* The checkpoints in their order, and how far an observer drains.         *)

\* The ten checkpoints by their place.
LEMMA CheckpointPlaces ==
    /\ Len(CHECKPOINTS) = 10
    /\ CHECKPOINTS[1] = "WaitingForSpeech" /\ CHECKPOINTS[2] = "OutgoingVad"
    /\ CHECKPOINTS[3] = "OutgoingAsrFinal" /\ CHECKPOINTS[4] = "OutgoingTranslationFinal"
    /\ CHECKPOINTS[5] = "EnglishFirstAudio" /\ CHECKPOINTS[6] = "VirtualPeerReinjecting"
    /\ CHECKPOINTS[7] = "IncomingAsrFinal" /\ CHECKPOINTS[8] = "IncomingTranslationFinal"
    /\ CHECKPOINTS[9] = "RussianFirstAudio" /\ CHECKPOINTS[10] = "Completed"
  BY DEF CHECKPOINTS

\* The checkpoints up to the first English audio, and those from the reinjection on.
LEMMA CheckpointSides ==
    /\ \A i \in 1..5 : CHECKPOINTS[i] \in EarlyNames
    /\ \A i \in 6..10 : CHECKPOINTS[i] \in LateNames
  <1>1. \A i \in 1..5 : i = 1 \/ i = 2 \/ i = 3 \/ i = 4 \/ i = 5
    OBVIOUS
  <1>2. \A i \in 6..10 : i = 6 \/ i = 7 \/ i = 8 \/ i = 9 \/ i = 10
    OBVIOUS
  <1> QED
    BY <1>1, <1>2, CheckpointPlaces DEF EarlyNames, LateNames

\* Every name of a checkpoint has a place, and it is the place of that name.
LEMMA IndexOfName ==
    ASSUME NEW c \in Names
    PROVE  IndexOf(c) \in 1..10 /\ CHECKPOINTS[IndexOf(c)] = c
  <1>1. \E i \in 1..10 : CHECKPOINTS[i] = c
    BY CheckpointPlaces DEF Names, EarlyNames, LateNames
  <1> QED
    BY <1>1, CheckpointPlaces DEF IndexOf

\* A set of places that is not empty has a last one.
LEMMA LastOf ==
    ASSUME NEW S \in SUBSET (1..10), S # {}
    PROVE  Max(S) \in S
  <1> DEFINE R == OpToRel(<, Nat)
             T == {10 - k : k \in S}
  <1>1. T \subseteq Nat /\ T # {}
    <2>1. \A k \in S : 10 - k \in Nat
      OBVIOUS
    <2> QED
      BY <2>1
  <1>2. \E j \in T : \A k \in T : ~(<<k, j>> \in R)
    BY <1>1, NatLessThanWellFounded, WFMin
  <1>3. \A j, k \in Nat : k < j => <<k, j>> \in R
    BY DEF OpToRel
  <1> HIDE DEF R
  <1>4. PICK j \in T : \A k \in T : ~(<<k, j>> \in R)
    BY <1>2
  <1>5. \A k \in T : ~(k < j)
    BY <1>1, <1>3, <1>4
  <1>6. PICK m \in S : j = 10 - m
    OBVIOUS
  <1>7. \A y \in S : ~(10 - y < 10 - m)
    BY <1>5, <1>6
  <1>8. \A y \in S : m >= y
    BY <1>7
  <1> QED
    BY <1>8 DEF Max

\* drain_locked stops at the first English audio, where only the thread takes the test
\* further, completes no test, and reaches the first Russian audio when the incoming
\* direction was heard.
LEMMA DrainStops ==
    ASSUME NEW o \in ObserverRecords, o.checkpoint \in Names
    PROVE  /\ drain_locked(o) \in Names
           /\ o.checkpoint \in EarlyNames => drain_locked(o) \in EarlyNames
           /\ o.checkpoint \in LateNames => drain_locked(o) \in LateNames
           /\ drain_locked(o) = "Completed" => o.checkpoint = "Completed"
           /\ drain_locked(o) = "RussianFirstAudio" =>
                o.checkpoint = "RussianFirstAudio" \/ "audio" \in o.in
  <1> DEFINE i == IndexOf(o.checkpoint)
             S == {k \in i..Len(CHECKPOINTS) :
                     \A j \in i..(k - 1) : DrainGuard(o, CHECKPOINTS[j])}
             m == Max(S)
  <1>1. i \in 1..10 /\ CHECKPOINTS[i] = o.checkpoint
    BY IndexOfName
  <1>2. drain_locked(o) = CHECKPOINTS[m]
    BY DEF drain_locked, Names, EarlyNames, LateNames
  <1> HIDE DEF i
  <1>3. S \in SUBSET (1..10) /\ i \in S
    BY <1>1, CheckpointPlaces
  <1>4. m \in S
    BY <1>3, LastOf
  <1> HIDE DEF m
  <1>5. /\ m \in i..10 /\ m \in 1..10
        /\ \A j \in i..(m - 1) : DrainGuard(o, CHECKPOINTS[j])
    BY <1>1, <1>4, CheckpointPlaces
  <1> HIDE DEF S
  <1>6. ~DrainGuard(o, CHECKPOINTS[5]) /\ ~DrainGuard(o, CHECKPOINTS[9])
    BY CheckpointPlaces DEF DrainGuard
  <1>7. DrainGuard(o, CHECKPOINTS[8]) => "audio" \in o.in
    BY CheckpointPlaces DEF DrainGuard
  <1>8. i <= 5 => m <= 5
    BY <1>1, <1>5, <1>6
  <1>9. m = 10 => i = 10
    BY <1>1, <1>5, <1>6
  <1>10. m = 9 => i = 9 \/ "audio" \in o.in
    BY <1>1, <1>5, <1>7
  <1>11. o.checkpoint \in EarlyNames => i <= 5
    BY <1>1, CheckpointSides DEF EarlyNames, LateNames
  <1>12. o.checkpoint \in LateNames => i >= 6
    BY <1>1, CheckpointSides DEF EarlyNames, LateNames
  <1>13. CHECKPOINTS[m] = "Completed" => m = 10
    BY <1>5, CheckpointPlaces
  <1>14. CHECKPOINTS[m] = "RussianFirstAudio" => m = 9
    BY <1>5, CheckpointPlaces
  <1>15. m \in 1..5 \/ m \in 6..10
    BY <1>5
  <1>16. CHECKPOINTS[m] \in Names
    BY <1>15, CheckpointSides DEF Names
  <1>17. o.checkpoint \in EarlyNames => CHECKPOINTS[m] \in EarlyNames
    BY <1>5, <1>8, <1>11, CheckpointSides
  <1>18. o.checkpoint \in LateNames => CHECKPOINTS[m] \in LateNames
    BY <1>1, <1>5, <1>12, CheckpointSides
  <1> QED
    BY <1>1, <1>2, <1>9, <1>10, <1>13, <1>14, <1>16, <1>17, <1>18, CheckpointPlaces

----------------------------------------------------------------------------
(* What the parts of a step do.                                            *)

\* The thread is at another step; what it knows of its teardown is as before.
Moved(pc) ==
    /\ thread' \in ThreadRecords /\ thread'.pc = pc
    /\ thread'.failed = thread.failed /\ thread'.result = thread.result

\* A step of the teardown was tried.
Torn(pc, ok) ==
    /\ thread' \in ThreadRecords /\ thread'.pc = pc
    /\ thread'.failed = (thread.failed \/ ~ok) /\ thread'.result = thread.result

\* The session of the thread is over, and was not changed if it had been over.
Over ==
    /\ session' \in SessionRecords
    /\ session'.id = session.id /\ session'.proof = session.proof
    /\ session'.checkpoint = session.checkpoint \/ session'.checkpoint = "Failed"
    /\ session.id = seen.id => is_terminal(session'.checkpoint)

\* Goto changes the step alone.
LEMMA MovedByGoto ==
    ASSUME thread \in ThreadRecords, NEW pc \in Holding, Goto(pc)
    PROVE  Moved(pc)
  BY DEF Goto, Moved, ThreadRecords

\* Tried changes the step and remembers a failure.
LEMMA TornByTried ==
    ASSUME thread \in ThreadRecords, NEW pc \in Holding, NEW ok \in BOOLEAN, Tried(pc, ok)
    PROVE  Torn(pc, ok)
  <1>1. (thread.failed \/ ~ok) \in BOOLEAN
    BY DEF ThreadRecords
  <1> QED
    BY <1>1 DEF Tried, Torn, ThreadRecords

\* Failing a session ends it.
LEMMA FailEnds ==
    ASSUME session \in SessionRecords, Fail(seen.id)
    PROVE  Over
  BY DEF Fail, Failed, Over, IsActive, is_terminal, SessionRecords

\* An abandoned test is on its way down, and over.
LEMMA AbandonEnds ==
    ASSUME session \in SessionRecords, thread \in ThreadRecords, Abandon
    PROVE  Moved("restore") /\ Over
  BY MovedByGoto, FailEnds DEF Abandon, Mine, Holding, Tearing

----------------------------------------------------------------------------
(* Every action keeps the invariant.                                       *)

\* The handle forgets a thread that has ended.
LEMMA StartRefusedKeeps == RoundTripInv /\ StartRefused => RoundTripInv'
  <1> SUFFICES ASSUME RoundTripInv, StartRefused PROVE RoundTripInv'
    OBVIOUS
  <1> USE DEF RoundTripInv, StartRefused, resources, gateVars, Reaped, Ended
  <1>1. GateInv' /\ lease' = lease
    BY GateStepInv
  <1>2. TestTypeOK'
    BY <1>1 DEF TestTypeOK, Holding, Before, Reinjected, Tearing
  <1>3. HandleShape'
    BY <1>1 DEF TestTypeOK, HandleShape, Holding, Before, Reinjected, Tearing
  <1>4. ResourceShape'
    BY <1>1 DEF TestTypeOK, HandleShape, ResourceShape, Holding, Before, Reinjected, Tearing
  <1>5. SessionShape'
    BY <1>1 DEF TestTypeOK, SessionShape, IsActive, is_terminal, Holding, Before, Reinjected,
      Tearing
  <1>6. ProofShape'
    BY <1>1 DEF TestTypeOK, ProofShape, SessionShape, IsActive, LateNames, Holding, Before,
      Reinjected, Tearing
  <1>7. HeardShape'
    BY <1>1 DEF TestTypeOK, HeardShape, SessionShape, IsActive, Holding, Before, Reinjected,
      Tearing
  <1> QED
    BY <1>1, <1>2, <1>3, <1>4, <1>5, <1>6, <1>7

\* The stop signal is sent to a live thread.
LEMMA StopCalledKeeps == RoundTripInv /\ StopCalled => RoundTripInv'
  <1> SUFFICES ASSUME RoundTripInv, StopCalled PROVE RoundTripInv'
    OBVIOUS
  <1> USE DEF RoundTripInv, StopCalled, resources, gateVars
  <1>1. GateInv' /\ lease' = lease
    BY GateStepInv
  <1>2. TestTypeOK'
    BY <1>1 DEF TestTypeOK, Holding, Before, Reinjected, Tearing
  <1>3. HandleShape'
    BY <1>1 DEF TestTypeOK, HandleShape, Holding, Before, Reinjected, Tearing
  <1>4. ResourceShape'
    BY <1>1 DEF TestTypeOK, HandleShape, ResourceShape, Holding, Before, Reinjected, Tearing
  <1>5. SessionShape'
    BY <1>1 DEF TestTypeOK, SessionShape, IsActive, is_terminal, Holding, Before, Reinjected,
      Tearing
  <1>6. ProofShape'
    BY <1>1 DEF TestTypeOK, ProofShape, SessionShape, IsActive, LateNames, Holding, Before,
      Reinjected, Tearing
  <1>7. HeardShape'
    BY <1>1 DEF TestTypeOK, HeardShape, SessionShape, IsActive, Holding, Before, Reinjected,
      Tearing
  <1> QED
    BY <1>1, <1>2, <1>3, <1>4, <1>5, <1>6, <1>7

\* A stop that gives up keeps the runtime.
LEMMA StopTimesOutKeeps == RoundTripInv /\ StopTimesOut => RoundTripInv'
  <1> SUFFICES ASSUME RoundTripInv, StopTimesOut PROVE RoundTripInv'
    OBVIOUS
  <1> USE DEF RoundTripInv, StopTimesOut, resources, gateVars
  <1>1. GateInv' /\ lease' = lease
    BY GateStepInv
  <1>2. TestTypeOK'
    BY <1>1 DEF TestTypeOK, Holding, Before, Reinjected, Tearing
  <1>3. HandleShape'
    BY <1>1 DEF TestTypeOK, HandleShape, Holding, Before, Reinjected, Tearing
  <1>4. ResourceShape'
    BY <1>1 DEF TestTypeOK, HandleShape, ResourceShape, Holding, Before, Reinjected, Tearing
  <1>5. SessionShape'
    BY <1>1 DEF TestTypeOK, SessionShape, IsActive, is_terminal, Holding, Before, Reinjected,
      Tearing
  <1>6. ProofShape'
    BY <1>1 DEF TestTypeOK, ProofShape, SessionShape, IsActive, LateNames, Holding, Before,
      Reinjected, Tearing
  <1>7. HeardShape'
    BY <1>1 DEF TestTypeOK, HeardShape, SessionShape, IsActive, Holding, Before, Reinjected,
      Tearing
  <1> QED
    BY <1>1, <1>2, <1>3, <1>4, <1>5, <1>6, <1>7

\* The duplex runtime starts.
LEMMA StartDuplexKeeps == RoundTripInv /\ StartDuplex => RoundTripInv'
  <1> SUFFICES ASSUME RoundTripInv, StartDuplex PROVE RoundTripInv'
    OBVIOUS
  <1> USE DEF RoundTripInv, StartDuplex, resources, gateVars, At
  <1>1. GateInv' /\ lease' = lease
    BY GateStepInv
  <1>2. \A pc \in Holding : Goto(pc) => Moved(pc)
    BY MovedByGoto DEF TestTypeOK
  <1>3. TestTypeOK'
    BY <1>1, <1>2 DEF TestTypeOK, Holding, Before, Reinjected, Tearing, Moved
  <1>4. HandleShape'
    BY <1>1, <1>2 DEF TestTypeOK, HandleShape, Holding, Before, Reinjected, Tearing, Moved
  <1>5. ResourceShape'
    BY <1>1, <1>2 DEF TestTypeOK, HandleShape, ResourceShape, Holding, Before, Reinjected,
      Tearing, Moved
  <1>6. SessionShape'
    BY <1>1, <1>2 DEF TestTypeOK, SessionShape, IsActive, is_terminal, Holding, Before,
      Reinjected, Tearing, Moved
  <1>7. ProofShape'
    BY <1>1, <1>2 DEF TestTypeOK, ProofShape, SessionShape, IsActive, LateNames, Holding,
      Before, Reinjected, Tearing, Moved
  <1>8. HeardShape'
    BY <1>1, <1>2 DEF TestTypeOK, HeardShape, SessionShape, IsActive, Holding, Before,
      Reinjected, Tearing, Moved
  <1> QED
    BY <1>1, <1>3, <1>4, <1>5, <1>6, <1>7, <1>8

\* The capture is created.
LEMMA CreateAudioKeeps == RoundTripInv /\ CreateAudio => RoundTripInv'
  <1> SUFFICES ASSUME RoundTripInv, CreateAudio PROVE RoundTripInv'
    OBVIOUS
  <1> USE DEF RoundTripInv, CreateAudio, resources, gateVars, At
  <1>1. GateInv' /\ lease' = lease
    BY GateStepInv
  <1>2. \A pc \in Holding : Goto(pc) => Moved(pc)
    BY MovedByGoto DEF TestTypeOK
  <1>3. TestTypeOK'
    BY <1>1, <1>2 DEF TestTypeOK, Holding, Before, Reinjected, Tearing, Moved
  <1>4. HandleShape'
    BY <1>1, <1>2 DEF TestTypeOK, HandleShape, Holding, Before, Reinjected, Tearing, Moved
  <1>5. ResourceShape'
    BY <1>1, <1>2 DEF TestTypeOK, HandleShape, ResourceShape, Holding, Before, Reinjected,
      Tearing, Moved
  <1>6. SessionShape'
    BY <1>1, <1>2 DEF TestTypeOK, SessionShape, IsActive, is_terminal, Holding, Before,
      Reinjected, Tearing, Moved
  <1>7. ProofShape'
    BY <1>1, <1>2 DEF TestTypeOK, ProofShape, SessionShape, IsActive, LateNames, Holding,
      Before, Reinjected, Tearing, Moved
  <1>8. HeardShape'
    BY <1>1, <1>2 DEF TestTypeOK, HeardShape, SessionShape, IsActive, Holding, Before,
      Reinjected, Tearing, Moved
  <1> QED
    BY <1>1, <1>3, <1>4, <1>5, <1>6, <1>7, <1>8

\* The capture ends, or the test is abandoned.
LEMMA CaptureKeeps == RoundTripInv /\ Capture => RoundTripInv'
  <1> SUFFICES ASSUME RoundTripInv, Capture PROVE RoundTripInv'
    OBVIOUS
  <1> USE DEF RoundTripInv, Capture, resources, gateVars, At
  <1>1. GateInv' /\ lease' = lease
    BY GateStepInv
  <1>2. \A pc \in Holding : Goto(pc) => Moved(pc)
    BY MovedByGoto DEF TestTypeOK
  <1>3. Abandon => Moved("restore") /\ Over
    BY AbandonEnds DEF TestTypeOK
  <1>4. TestTypeOK'
    BY <1>1, <1>2, <1>3 DEF TestTypeOK, Holding, Before, Reinjected, Tearing, Moved, Over, Mine
  <1>5. HandleShape'
    BY <1>1, <1>2, <1>3 DEF TestTypeOK, HandleShape, Holding, Before, Reinjected, Tearing,
      Moved, Over, Mine
  <1>6. ResourceShape'
    BY <1>1, <1>2, <1>3 DEF TestTypeOK, HandleShape, ResourceShape, Holding, Before, Reinjected,
      Tearing, Moved, Over, Mine
  <1>7. SessionShape'
    BY <1>1, <1>2, <1>3 DEF TestTypeOK, SessionShape, IsActive, is_terminal, Holding, Before,
      Reinjected, Tearing, Moved, Over, Mine
  <1>8. ProofShape'
    BY <1>1, <1>2, <1>3 DEF TestTypeOK, ProofShape, SessionShape, IsActive, LateNames, Holding,
      Before, Reinjected, Tearing, Moved, Over, Mine
  <1>9. HeardShape'
    BY <1>1, <1>2, <1>3 DEF TestTypeOK, HeardShape, SessionShape, IsActive, Holding, Before,
      Reinjected, Tearing, Moved, Over, Mine
  <1> QED
    BY <1>1, <1>4, <1>5, <1>6, <1>7, <1>8, <1>9

\* The monitor is resolved.
LEMMA MonitorKeeps == RoundTripInv /\ Monitor => RoundTripInv'
  <1> SUFFICES ASSUME RoundTripInv, Monitor PROVE RoundTripInv'
    OBVIOUS
  <1> USE DEF RoundTripInv, Monitor, resources, gateVars, At
  <1>1. GateInv' /\ lease' = lease
    BY GateStepInv
  <1>2. \A pc \in Holding : Goto(pc) => Moved(pc)
    BY MovedByGoto DEF TestTypeOK
  <1>3. TestTypeOK'
    BY <1>1, <1>2 DEF TestTypeOK, Holding, Before, Reinjected, Tearing, Moved
  <1>4. HandleShape'
    BY <1>1, <1>2 DEF TestTypeOK, HandleShape, Holding, Before, Reinjected, Tearing, Moved
  <1>5. ResourceShape'
    BY <1>1, <1>2 DEF TestTypeOK, HandleShape, ResourceShape, Holding, Before, Reinjected,
      Tearing, Moved
  <1>6. SessionShape'
    BY <1>1, <1>2 DEF TestTypeOK, SessionShape, IsActive, is_terminal, Holding, Before,
      Reinjected, Tearing, Moved
  <1>7. ProofShape'
    BY <1>1, <1>2 DEF TestTypeOK, ProofShape, SessionShape, IsActive, LateNames, Holding,
      Before, Reinjected, Tearing, Moved
  <1>8. HeardShape'
    BY <1>1, <1>2 DEF TestTypeOK, HeardShape, SessionShape, IsActive, Holding, Before,
      Reinjected, Tearing, Moved
  <1> QED
    BY <1>1, <1>3, <1>4, <1>5, <1>6, <1>7, <1>8

\* The peer is spawned.
LEMMA SpawnPeerKeeps == RoundTripInv /\ SpawnPeer => RoundTripInv'
  <1> SUFFICES ASSUME RoundTripInv, SpawnPeer PROVE RoundTripInv'
    OBVIOUS
  <1> USE DEF RoundTripInv, SpawnPeer, resources, gateVars, At
  <1>1. GateInv' /\ lease' = lease
    BY GateStepInv
  <1>2. \A pc \in Holding : Goto(pc) => Moved(pc)
    BY MovedByGoto DEF TestTypeOK
  <1>3. TestTypeOK'
    BY <1>1, <1>2 DEF TestTypeOK, Holding, Before, Reinjected, Tearing, Moved
  <1>4. HandleShape'
    BY <1>1, <1>2 DEF TestTypeOK, HandleShape, Holding, Before, Reinjected, Tearing, Moved
  <1>5. ResourceShape'
    BY <1>1, <1>2 DEF TestTypeOK, HandleShape, ResourceShape, Holding, Before, Reinjected,
      Tearing, Moved
  <1>6. SessionShape'
    BY <1>1, <1>2 DEF TestTypeOK, SessionShape, IsActive, is_terminal, Holding, Before,
      Reinjected, Tearing, Moved
  <1>7. ProofShape'
    BY <1>1, <1>2 DEF TestTypeOK, ProofShape, SessionShape, IsActive, LateNames, Holding,
      Before, Reinjected, Tearing, Moved
  <1>8. HeardShape'
    BY <1>1, <1>2 DEF TestTypeOK, HeardShape, SessionShape, IsActive, Holding, Before,
      Reinjected, Tearing, Moved
  <1> QED
    BY <1>1, <1>3, <1>4, <1>5, <1>6, <1>7, <1>8

\* The peer is routed, or the test is abandoned.
LEMMA RoutePeerKeeps == RoundTripInv /\ RoutePeer => RoundTripInv'
  <1> SUFFICES ASSUME RoundTripInv, RoutePeer PROVE RoundTripInv'
    OBVIOUS
  <1> USE DEF RoundTripInv, RoutePeer, resources, gateVars, At, Failing
  <1>1. GateInv' /\ lease' = lease
    BY GateStepInv
  <1>2. \A pc \in Holding : Goto(pc) => Moved(pc)
    BY MovedByGoto DEF TestTypeOK
  <1>3. Abandon => Moved("restore") /\ Over
    BY AbandonEnds DEF TestTypeOK
  <1>4. TestTypeOK'
    BY <1>1, <1>2, <1>3 DEF TestTypeOK, Holding, Before, Reinjected, Tearing, Moved, Over, Mine
  <1>5. HandleShape'
    BY <1>1, <1>2, <1>3 DEF TestTypeOK, HandleShape, Holding, Before, Reinjected, Tearing,
      Moved, Over, Mine
  <1>6. ResourceShape'
    BY <1>1, <1>2, <1>3 DEF TestTypeOK, HandleShape, ResourceShape, Holding, Before, Reinjected,
      Tearing, Moved, Over, Mine
  <1>7. SessionShape'
    BY <1>1, <1>2, <1>3 DEF TestTypeOK, SessionShape, IsActive, is_terminal, Holding, Before,
      Reinjected, Tearing, Moved, Over, Mine
  <1>8. ProofShape'
    BY <1>1, <1>2, <1>3 DEF TestTypeOK, ProofShape, SessionShape, IsActive, LateNames, Holding,
      Before, Reinjected, Tearing, Moved, Over, Mine
  <1>9. HeardShape'
    BY <1>1, <1>2, <1>3 DEF TestTypeOK, HeardShape, SessionShape, IsActive, Holding, Before,
      Reinjected, Tearing, Moved, Over, Mine
  <1> QED
    BY <1>1, <1>4, <1>5, <1>6, <1>7, <1>8, <1>9

\* The incoming direction counts from here.
LEMMA ValidateKeeps == RoundTripInv /\ Validate => RoundTripInv'
  <1> SUFFICES ASSUME RoundTripInv, Validate PROVE RoundTripInv'
    OBVIOUS
  <1> USE DEF RoundTripInv, Validate, resources, gateVars, At
  <1>1. GateInv' /\ lease' = lease
    BY GateStepInv
  <1>2. /\ seen' \in ObserverRecords /\ seen'.id = seen.id
        /\ seen'.checkpoint = seen.checkpoint /\ seen'.in = seen.in
    BY DEF TestTypeOK, ObserverRecords
  <1>3. Moved("write")
    BY MovedByGoto DEF TestTypeOK, Holding, Before
  <1>4. TestTypeOK'
    BY <1>1, <1>2, <1>3 DEF TestTypeOK, Holding, Before, Reinjected, Tearing, Moved
  <1>5. HandleShape'
    BY <1>1, <1>2, <1>3 DEF TestTypeOK, HandleShape, Holding, Before, Reinjected, Tearing, Moved
  <1>6. ResourceShape'
    BY <1>1, <1>2, <1>3 DEF TestTypeOK, HandleShape, ResourceShape, Holding, Before, Reinjected,
      Tearing, Moved
  <1>7. SessionShape'
    BY <1>1, <1>2, <1>3 DEF TestTypeOK, SessionShape, IsActive, is_terminal, Holding, Before,
      Reinjected, Tearing, Moved
  <1>8. ProofShape'
    BY <1>1, <1>2, <1>3 DEF TestTypeOK, ProofShape, SessionShape, IsActive, LateNames, Holding,
      Before, Reinjected, Tearing, Moved
  <1>9. HeardShape'
    BY <1>1, <1>2, <1>3 DEF TestTypeOK, HeardShape, SessionShape, IsActive, Holding, Before,
      Reinjected, Tearing, Moved
  <1> QED
    BY <1>1, <1>4, <1>5, <1>6, <1>7, <1>8, <1>9

\* The peer is written to.
LEMMA WritePeerKeeps == RoundTripInv /\ WritePeer => RoundTripInv'
  <1> SUFFICES ASSUME RoundTripInv, WritePeer PROVE RoundTripInv'
    OBVIOUS
  <1> USE DEF RoundTripInv, WritePeer, resources, gateVars, At
  <1>1. GateInv' /\ lease' = lease
    BY GateStepInv
  <1>2. \A pc \in Holding : Goto(pc) => Moved(pc)
    BY MovedByGoto DEF TestTypeOK
  <1>3. TestTypeOK'
    BY <1>1, <1>2 DEF TestTypeOK, Holding, Before, Reinjected, Tearing, Moved
  <1>4. HandleShape'
    BY <1>1, <1>2 DEF TestTypeOK, HandleShape, Holding, Before, Reinjected, Tearing, Moved
  <1>5. ResourceShape'
    BY <1>1, <1>2 DEF TestTypeOK, HandleShape, ResourceShape, Holding, Before, Reinjected,
      Tearing, Moved
  <1>6. SessionShape'
    BY <1>1, <1>2 DEF TestTypeOK, SessionShape, IsActive, is_terminal, Holding, Before,
      Reinjected, Tearing, Moved
  <1>7. ProofShape'
    BY <1>1, <1>2 DEF TestTypeOK, ProofShape, SessionShape, IsActive, LateNames, Holding,
      Before, Reinjected, Tearing, Moved
  <1>8. HeardShape'
    BY <1>1, <1>2 DEF TestTypeOK, HeardShape, SessionShape, IsActive, Holding, Before,
      Reinjected, Tearing, Moved
  <1> QED
    BY <1>1, <1>3, <1>4, <1>5, <1>6, <1>7, <1>8

\* The peer has ended, or the test is abandoned.
LEMMA FinishPeerKeeps == RoundTripInv /\ FinishPeer => RoundTripInv'
  <1> SUFFICES ASSUME RoundTripInv, FinishPeer PROVE RoundTripInv'
    OBVIOUS
  <1> USE DEF RoundTripInv, FinishPeer, resources, gateVars, At, Failing
  <1>1. GateInv' /\ lease' = lease
    BY GateStepInv
  <1>2. \A pc \in Holding : Goto(pc) => Moved(pc)
    BY MovedByGoto DEF TestTypeOK
  <1>3. Abandon => Moved("restore") /\ Over
    BY AbandonEnds DEF TestTypeOK
  <1>4. TestTypeOK'
    BY <1>1, <1>2, <1>3 DEF TestTypeOK, Holding, Before, Reinjected, Tearing, Moved, Over, Mine
  <1>5. HandleShape'
    BY <1>1, <1>2, <1>3 DEF TestTypeOK, HandleShape, Holding, Before, Reinjected, Tearing,
      Moved, Over, Mine
  <1>6. ResourceShape'
    BY <1>1, <1>2, <1>3 DEF TestTypeOK, HandleShape, ResourceShape, Holding, Before, Reinjected,
      Tearing, Moved, Over, Mine
  <1>7. SessionShape'
    BY <1>1, <1>2, <1>3 DEF TestTypeOK, SessionShape, IsActive, is_terminal, Holding, Before,
      Reinjected, Tearing, Moved, Over, Mine
  <1>8. ProofShape'
    BY <1>1, <1>2, <1>3 DEF TestTypeOK, ProofShape, SessionShape, IsActive, LateNames, Holding,
      Before, Reinjected, Tearing, Moved, Over, Mine
  <1>9. HeardShape'
    BY <1>1, <1>2, <1>3 DEF TestTypeOK, HeardShape, SessionShape, IsActive, Holding, Before,
      Reinjected, Tearing, Moved, Over, Mine
  <1> QED
    BY <1>1, <1>4, <1>5, <1>6, <1>7, <1>8, <1>9

\* The test goes on only when the peer is gone.
LEMMA EnsureAbsentKeeps == RoundTripInv /\ EnsureAbsent => RoundTripInv'
  <1> SUFFICES ASSUME RoundTripInv, EnsureAbsent PROVE RoundTripInv'
    OBVIOUS
  <1> USE DEF RoundTripInv, EnsureAbsent, resources, gateVars, At
  <1>1. GateInv' /\ lease' = lease
    BY GateStepInv
  <1>2. \A pc \in Holding : Goto(pc) => Moved(pc)
    BY MovedByGoto DEF TestTypeOK
  <1>3. Abandon => Moved("restore") /\ Over
    BY AbandonEnds DEF TestTypeOK
  <1>4. TestTypeOK'
    BY <1>1, <1>2, <1>3 DEF TestTypeOK, Holding, Before, Reinjected, Tearing, Moved, Over, Mine
  <1>5. HandleShape'
    BY <1>1, <1>2, <1>3 DEF TestTypeOK, HandleShape, Holding, Before, Reinjected, Tearing,
      Moved, Over, Mine
  <1>6. ResourceShape'
    BY <1>1, <1>2, <1>3 DEF TestTypeOK, HandleShape, ResourceShape, Holding, Before, Reinjected,
      Tearing, Moved, Over, Mine
  <1>7. SessionShape'
    BY <1>1, <1>2, <1>3 DEF TestTypeOK, SessionShape, IsActive, is_terminal, Holding, Before,
      Reinjected, Tearing, Moved, Over, Mine
  <1>8. ProofShape'
    BY <1>1, <1>2, <1>3 DEF TestTypeOK, ProofShape, SessionShape, IsActive, LateNames, Holding,
      Before, Reinjected, Tearing, Moved, Over, Mine
  <1>9. HeardShape'
    BY <1>1, <1>2, <1>3 DEF TestTypeOK, HeardShape, SessionShape, IsActive, Holding, Before,
      Reinjected, Tearing, Moved, Over, Mine
  <1> QED
    BY <1>1, <1>4, <1>5, <1>6, <1>7, <1>8, <1>9

\* The proof is recorded before the reinjection is marked.
LEMMA RecordProofKeeps == RoundTripInv /\ RecordProof => RoundTripInv'
  <1> SUFFICES ASSUME RoundTripInv, RecordProof PROVE RoundTripInv'
    OBVIOUS
  <1> USE DEF RoundTripInv, RecordProof, resources, gateVars, At
  <1>1. GateInv' /\ lease' = lease
    BY GateStepInv
  <1>2. \/ Moved("restore") /\ Over
        \/ /\ Moved("mark") /\ session' \in SessionRecords
           /\ session'.id = session.id /\ session'.checkpoint = session.checkpoint
    BY MovedByGoto, AbandonEnds DEF TestTypeOK, SessionRecords, Holding, Before
  <1>3. TestTypeOK'
    BY <1>1, <1>2 DEF TestTypeOK, Holding, Before, Reinjected, Tearing, Moved, Over, Mine
  <1>4. HandleShape'
    BY <1>1, <1>2 DEF TestTypeOK, HandleShape, Holding, Before, Reinjected, Tearing, Moved,
      Over, Mine
  <1>5. ResourceShape'
    BY <1>1, <1>2 DEF TestTypeOK, HandleShape, ResourceShape, Holding, Before, Reinjected,
      Tearing, Moved, Over, Mine
  <1>6. SessionShape'
    BY <1>1, <1>2 DEF TestTypeOK, SessionShape, IsActive, is_terminal, Holding, Before,
      Reinjected, Tearing, Moved, Over, Mine
  <1>7. ProofShape'
    BY <1>1, <1>2 DEF TestTypeOK, ProofShape, SessionShape, IsActive, LateNames, Holding,
      Before, Reinjected, Tearing, Moved, Over, Mine
  <1>8. HeardShape'
    BY <1>1, <1>2 DEF TestTypeOK, HeardShape, SessionShape, IsActive, Holding, Before,
      Reinjected, Tearing, Moved, Over, Mine
  <1> QED
    BY <1>1, <1>3, <1>4, <1>5, <1>6, <1>7, <1>8

\* The incoming utterance is waited for.
LEMMA WaitIncomingTerminalKeeps == RoundTripInv /\ WaitIncomingTerminal => RoundTripInv'
  <1> SUFFICES ASSUME RoundTripInv, WaitIncomingTerminal PROVE RoundTripInv'
    OBVIOUS
  <1> USE DEF RoundTripInv, WaitIncomingTerminal, resources, gateVars, At
  <1>1. GateInv' /\ lease' = lease
    BY GateStepInv
  <1>2. \A pc \in Holding : Goto(pc) => Moved(pc)
    BY MovedByGoto DEF TestTypeOK
  <1>3. Abandon => Moved("restore") /\ Over
    BY AbandonEnds DEF TestTypeOK
  <1>4. TestTypeOK'
    BY <1>1, <1>2, <1>3 DEF TestTypeOK, Holding, Before, Reinjected, Tearing, Moved, Over, Mine
  <1>5. HandleShape'
    BY <1>1, <1>2, <1>3 DEF TestTypeOK, HandleShape, Holding, Before, Reinjected, Tearing,
      Moved, Over, Mine
  <1>6. ResourceShape'
    BY <1>1, <1>2, <1>3 DEF TestTypeOK, HandleShape, ResourceShape, Holding, Before, Reinjected,
      Tearing, Moved, Over, Mine
  <1>7. SessionShape'
    BY <1>1, <1>2, <1>3 DEF TestTypeOK, SessionShape, IsActive, is_terminal, Holding, Before,
      Reinjected, Tearing, Moved, Over, Mine
  <1>8. ProofShape'
    BY <1>1, <1>2, <1>3 DEF TestTypeOK, ProofShape, SessionShape, IsActive, LateNames, Holding,
      Before, Reinjected, Tearing, Moved, Over, Mine
  <1>9. HeardShape'
    BY <1>1, <1>2, <1>3 DEF TestTypeOK, HeardShape, SessionShape, IsActive, Holding, Before,
      Reinjected, Tearing, Moved, Over, Mine
  <1> QED
    BY <1>1, <1>4, <1>5, <1>6, <1>7, <1>8, <1>9

\* The capture is drained.
LEMMA DrainKeeps == RoundTripInv /\ Drain => RoundTripInv'
  <1> SUFFICES ASSUME RoundTripInv, Drain PROVE RoundTripInv'
    OBVIOUS
  <1> USE DEF RoundTripInv, Drain, resources, gateVars, At
  <1>1. GateInv' /\ lease' = lease
    BY GateStepInv
  <1>2. \A pc \in Holding : Goto(pc) => Moved(pc)
    BY MovedByGoto DEF TestTypeOK
  <1>3. TestTypeOK'
    BY <1>1, <1>2 DEF TestTypeOK, Holding, Before, Reinjected, Tearing, Moved
  <1>4. HandleShape'
    BY <1>1, <1>2 DEF TestTypeOK, HandleShape, Holding, Before, Reinjected, Tearing, Moved
  <1>5. ResourceShape'
    BY <1>1, <1>2 DEF TestTypeOK, HandleShape, ResourceShape, Holding, Before, Reinjected,
      Tearing, Moved
  <1>6. SessionShape'
    BY <1>1, <1>2 DEF TestTypeOK, SessionShape, IsActive, is_terminal, Holding, Before,
      Reinjected, Tearing, Moved
  <1>7. ProofShape'
    BY <1>1, <1>2 DEF TestTypeOK, ProofShape, SessionShape, IsActive, LateNames, Holding,
      Before, Reinjected, Tearing, Moved
  <1>8. HeardShape'
    BY <1>1, <1>2 DEF TestTypeOK, HeardShape, SessionShape, IsActive, Holding, Before,
      Reinjected, Tearing, Moved
  <1> QED
    BY <1>1, <1>3, <1>4, <1>5, <1>6, <1>7, <1>8

\* A test is completed when the incoming utterance was heard to its end.
LEMMA MarkCompletedKeeps == RoundTripInv /\ MarkCompleted => RoundTripInv'
  <1> SUFFICES ASSUME RoundTripInv, MarkCompleted PROVE RoundTripInv'
    OBVIOUS
  <1> USE DEF RoundTripInv, MarkCompleted, resources, gateVars, At
  <1>1. GateInv' /\ lease' = lease
    BY GateStepInv
  <1>2. \/ Moved("restore") /\ Over /\ seen' = seen
        \/ /\ Moved("restore") /\ session' \in SessionRecords /\ seen' \in ObserverRecords
           /\ session'.id = session.id /\ session'.proof = session.proof
           /\ session'.checkpoint = "Completed" /\ session.checkpoint \in LateNames
           /\ seen'.id = seen.id /\ seen'.in = seen.in /\ seen'.checkpoint = "Completed"
           /\ seen.checkpoint = "RussianFirstAudio" /\ "terminal" \in seen.in
    BY MovedByGoto, AbandonEnds DEF TestTypeOK, SessionShape, SessionRecords, ObserverRecords,
      Names, LateNames, Holding, Tearing, Mine
  <1>3. TestTypeOK'
    BY <1>1, <1>2 DEF TestTypeOK, Holding, Before, Reinjected, Tearing, Moved, Over, Mine
  <1>4. HandleShape'
    BY <1>1, <1>2 DEF TestTypeOK, HandleShape, Holding, Before, Reinjected, Tearing, Moved,
      Over, Mine
  <1>5. ResourceShape'
    BY <1>1, <1>2 DEF TestTypeOK, HandleShape, ResourceShape, Holding, Before, Reinjected,
      Tearing, Moved, Over, Mine
  <1>6. SessionShape'
    BY <1>1, <1>2 DEF TestTypeOK, SessionShape, IsActive, is_terminal, Holding, Before,
      Reinjected, Tearing, Moved, Over, Mine
  <1>7. ProofShape'
    BY <1>1, <1>2 DEF TestTypeOK, ProofShape, SessionShape, IsActive, LateNames, Holding,
      Before, Reinjected, Tearing, Moved, Over, Mine
  <1>8. HeardShape'
    BY <1>1, <1>2 DEF TestTypeOK, HeardShape, SessionShape, IsActive, Holding, Before,
      Reinjected, Tearing, Moved, Over, Mine
  <1> QED
    BY <1>1, <1>3, <1>4, <1>5, <1>6, <1>7, <1>8

\* A step that fails abandons the test.
LEMMA StepFailsKeeps == RoundTripInv /\ StepFails => RoundTripInv'
  <1> SUFFICES ASSUME RoundTripInv, StepFails PROVE RoundTripInv'
    OBVIOUS
  <1> USE DEF RoundTripInv, StepFails, resources, gateVars, At, Failing
  <1>1. GateInv' /\ lease' = lease
    BY GateStepInv
  <1>2. \A pc \in Holding : Goto(pc) => Moved(pc)
    BY MovedByGoto DEF TestTypeOK
  <1>3. Abandon => Moved("restore") /\ Over
    BY AbandonEnds DEF TestTypeOK
  <1>4. TestTypeOK'
    BY <1>1, <1>2, <1>3 DEF TestTypeOK, Holding, Before, Reinjected, Tearing, Moved, Over, Mine
  <1>5. HandleShape'
    BY <1>1, <1>2, <1>3 DEF TestTypeOK, HandleShape, Holding, Before, Reinjected, Tearing,
      Moved, Over, Mine
  <1>6. ResourceShape'
    BY <1>1, <1>2, <1>3 DEF TestTypeOK, HandleShape, ResourceShape, Holding, Before, Reinjected,
      Tearing, Moved, Over, Mine
  <1>7. SessionShape'
    BY <1>1, <1>2, <1>3 DEF TestTypeOK, SessionShape, IsActive, is_terminal, Holding, Before,
      Reinjected, Tearing, Moved, Over, Mine
  <1>8. ProofShape'
    BY <1>1, <1>2, <1>3 DEF TestTypeOK, ProofShape, SessionShape, IsActive, LateNames, Holding,
      Before, Reinjected, Tearing, Moved, Over, Mine
  <1>9. HeardShape'
    BY <1>1, <1>2, <1>3 DEF TestTypeOK, HeardShape, SessionShape, IsActive, Holding, Before,
      Reinjected, Tearing, Moved, Over, Mine
  <1> QED
    BY <1>1, <1>4, <1>5, <1>6, <1>7, <1>8, <1>9

\* A stop ends the lifecycle without an error.
LEMMA StopSeenKeeps == RoundTripInv /\ StopSeen => RoundTripInv'
  <1> SUFFICES ASSUME RoundTripInv, StopSeen PROVE RoundTripInv'
    OBVIOUS
  <1> USE DEF RoundTripInv, StopSeen, resources, gateVars, At, Selecting
  <1>1. GateInv' /\ lease' = lease
    BY GateStepInv
  <1>2. \A pc \in Holding : Goto(pc) => Moved(pc)
    BY MovedByGoto DEF TestTypeOK
  <1>3. TestTypeOK'
    BY <1>1, <1>2 DEF TestTypeOK, Holding, Before, Reinjected, Tearing, Moved
  <1>4. HandleShape'
    BY <1>1, <1>2 DEF TestTypeOK, HandleShape, Holding, Before, Reinjected, Tearing, Moved
  <1>5. ResourceShape'
    BY <1>1, <1>2 DEF TestTypeOK, HandleShape, ResourceShape, Holding, Before, Reinjected,
      Tearing, Moved
  <1>6. SessionShape'
    BY <1>1, <1>2 DEF TestTypeOK, SessionShape, IsActive, is_terminal, Holding, Before,
      Reinjected, Tearing, Moved
  <1>7. ProofShape'
    BY <1>1, <1>2 DEF TestTypeOK, ProofShape, SessionShape, IsActive, LateNames, Holding,
      Before, Reinjected, Tearing, Moved
  <1>8. HeardShape'
    BY <1>1, <1>2 DEF TestTypeOK, HeardShape, SessionShape, IsActive, Holding, Before,
      Reinjected, Tearing, Moved
  <1> QED
    BY <1>1, <1>3, <1>4, <1>5, <1>6, <1>7, <1>8

\* The timeout abandons the test.
LEMMA LifecycleTimesOutKeeps == RoundTripInv /\ LifecycleTimesOut => RoundTripInv'
  <1> SUFFICES ASSUME RoundTripInv, LifecycleTimesOut PROVE RoundTripInv'
    OBVIOUS
  <1> USE DEF RoundTripInv, LifecycleTimesOut, resources, gateVars, At, Suspending, Selecting
  <1>1. GateInv' /\ lease' = lease
    BY GateStepInv
  <1>2. \A pc \in Holding : Goto(pc) => Moved(pc)
    BY MovedByGoto DEF TestTypeOK
  <1>3. Abandon => Moved("restore") /\ Over
    BY AbandonEnds DEF TestTypeOK
  <1>4. TestTypeOK'
    BY <1>1, <1>2, <1>3 DEF TestTypeOK, Holding, Before, Reinjected, Tearing, Moved, Over, Mine
  <1>5. HandleShape'
    BY <1>1, <1>2, <1>3 DEF TestTypeOK, HandleShape, Holding, Before, Reinjected, Tearing,
      Moved, Over, Mine
  <1>6. ResourceShape'
    BY <1>1, <1>2, <1>3 DEF TestTypeOK, HandleShape, ResourceShape, Holding, Before, Reinjected,
      Tearing, Moved, Over, Mine
  <1>7. SessionShape'
    BY <1>1, <1>2, <1>3 DEF TestTypeOK, SessionShape, IsActive, is_terminal, Holding, Before,
      Reinjected, Tearing, Moved, Over, Mine
  <1>8. ProofShape'
    BY <1>1, <1>2, <1>3 DEF TestTypeOK, ProofShape, SessionShape, IsActive, LateNames, Holding,
      Before, Reinjected, Tearing, Moved, Over, Mine
  <1>9. HeardShape'
    BY <1>1, <1>2, <1>3 DEF TestTypeOK, HeardShape, SessionShape, IsActive, Holding, Before,
      Reinjected, Tearing, Moved, Over, Mine
  <1> QED
    BY <1>1, <1>4, <1>5, <1>6, <1>7, <1>8, <1>9

\* The route is restored, or not.
LEMMA RestoreRouteKeeps == RoundTripInv /\ RestoreRoute => RoundTripInv'
  <1> SUFFICES ASSUME RoundTripInv, RestoreRoute PROVE RoundTripInv'
    OBVIOUS
  <1> USE DEF RoundTripInv, RestoreRoute, resources, gateVars, At, Failing
  <1>1. GateInv' /\ lease' = lease
    BY GateStepInv
  <1>2. Torn("writes", TRUE) \/ Torn("writes", FALSE)
    BY TornByTried DEF TestTypeOK, Holding, Tearing
  <1>3. TestTypeOK'
    BY <1>1, <1>2 DEF TestTypeOK, Holding, Before, Reinjected, Tearing, Torn
  <1>4. HandleShape'
    BY <1>1, <1>2 DEF TestTypeOK, HandleShape, Holding, Before, Reinjected, Tearing, Torn
  <1>5. ResourceShape'
    BY <1>1, <1>2 DEF TestTypeOK, HandleShape, ResourceShape, Holding, Before, Reinjected,
      Tearing, Torn
  <1>6. SessionShape'
    BY <1>1, <1>2 DEF TestTypeOK, SessionShape, IsActive, is_terminal, Holding, Before,
      Reinjected, Tearing, Torn
  <1>7. ProofShape'
    BY <1>1, <1>2 DEF TestTypeOK, ProofShape, SessionShape, IsActive, LateNames, Holding,
      Before, Reinjected, Tearing, Torn
  <1>8. HeardShape'
    BY <1>1, <1>2 DEF TestTypeOK, HeardShape, SessionShape, IsActive, Holding, Before,
      Reinjected, Tearing, Torn
  <1> QED
    BY <1>1, <1>3, <1>4, <1>5, <1>6, <1>7, <1>8

\* The peer is looked for.
LEMMA EnsureGoneKeeps == RoundTripInv /\ EnsureGone => RoundTripInv'
  <1> SUFFICES ASSUME RoundTripInv, EnsureGone PROVE RoundTripInv'
    OBVIOUS
  <1> USE DEF RoundTripInv, EnsureGone, resources, gateVars, At
  <1>1. GateInv' /\ lease' = lease
    BY GateStepInv
  <1>2. Torn("duplexStop", capability => peer = "none")
    BY TornByTried DEF TestTypeOK, Holding, Tearing
  <1>3. TestTypeOK'
    BY <1>1, <1>2 DEF TestTypeOK, Holding, Before, Reinjected, Tearing, Torn
  <1>4. HandleShape'
    BY <1>1, <1>2 DEF TestTypeOK, HandleShape, Holding, Before, Reinjected, Tearing, Torn
  <1>5. ResourceShape'
    BY <1>1, <1>2 DEF TestTypeOK, HandleShape, ResourceShape, Holding, Before, Reinjected,
      Tearing, Torn
  <1>6. SessionShape'
    BY <1>1, <1>2 DEF TestTypeOK, SessionShape, IsActive, is_terminal, Holding, Before,
      Reinjected, Tearing, Torn
  <1>7. ProofShape'
    BY <1>1, <1>2 DEF TestTypeOK, ProofShape, SessionShape, IsActive, LateNames, Holding,
      Before, Reinjected, Tearing, Torn
  <1>8. HeardShape'
    BY <1>1, <1>2 DEF TestTypeOK, HeardShape, SessionShape, IsActive, Holding, Before,
      Reinjected, Tearing, Torn
  <1> QED
    BY <1>1, <1>3, <1>4, <1>5, <1>6, <1>7, <1>8

\* The duplex runtime stops, or the teardown has failed.
LEMMA StopDuplexKeeps == RoundTripInv /\ StopDuplex => RoundTripInv'
  <1> SUFFICES ASSUME RoundTripInv, StopDuplex PROVE RoundTripInv'
    OBVIOUS
  <1> USE DEF RoundTripInv, StopDuplex, resources, gateVars, At, Failing
  <1>1. GateInv' /\ lease' = lease
    BY GateStepInv
  <1>2. \/ duplex' = "none" /\ Torn("release", TRUE)
        \/ duplex = "running" /\ duplex' = duplex /\ Torn("release", FALSE)
    BY TornByTried DEF TestTypeOK, Holding, Tearing
  <1>3. TestTypeOK'
    BY <1>1, <1>2 DEF TestTypeOK, Holding, Before, Reinjected, Tearing, Torn
  <1>4. HandleShape'
    BY <1>1, <1>2 DEF TestTypeOK, HandleShape, Holding, Before, Reinjected, Tearing, Torn
  <1>5. ResourceShape'
    BY <1>1, <1>2 DEF TestTypeOK, HandleShape, ResourceShape, Holding, Before, Reinjected,
      Tearing, Torn
  <1>6. SessionShape'
    BY <1>1, <1>2 DEF TestTypeOK, SessionShape, IsActive, is_terminal, Holding, Before,
      Reinjected, Tearing, Torn
  <1>7. ProofShape'
    BY <1>1, <1>2 DEF TestTypeOK, ProofShape, SessionShape, IsActive, LateNames, Holding,
      Before, Reinjected, Tearing, Torn
  <1>8. HeardShape'
    BY <1>1, <1>2 DEF TestTypeOK, HeardShape, SessionShape, IsActive, Holding, Before,
      Reinjected, Tearing, Torn
  <1> QED
    BY <1>1, <1>3, <1>4, <1>5, <1>6, <1>7, <1>8

\* The sound server lets go of a stream.
LEMMA StreamEndsKeeps == RoundTripInv /\ StreamEnds => RoundTripInv'
  <1> SUFFICES ASSUME RoundTripInv, StreamEnds PROVE RoundTripInv'
    OBVIOUS
  <1> USE DEF RoundTripInv, StreamEnds, resources, gateVars
  <1>1. GateInv' /\ lease' = lease
    BY GateStepInv
  <1>2. TestTypeOK'
    BY <1>1 DEF TestTypeOK, Holding, Before, Reinjected, Tearing
  <1>3. HandleShape'
    BY <1>1 DEF TestTypeOK, HandleShape, Holding, Before, Reinjected, Tearing
  <1>4. ResourceShape'
    BY <1>1 DEF TestTypeOK, HandleShape, ResourceShape, Holding, Before, Reinjected, Tearing
  <1>5. SessionShape'
    BY <1>1 DEF TestTypeOK, SessionShape, IsActive, is_terminal, Holding, Before, Reinjected,
      Tearing
  <1>6. ProofShape'
    BY <1>1 DEF TestTypeOK, ProofShape, SessionShape, IsActive, LateNames, Holding, Before,
      Reinjected, Tearing
  <1>7. HeardShape'
    BY <1>1 DEF TestTypeOK, HeardShape, SessionShape, IsActive, Holding, Before, Reinjected,
      Tearing
  <1> QED
    BY <1>1, <1>2, <1>3, <1>4, <1>5, <1>6, <1>7

\* A runtime without an owner ends.
LEMMA OrphanEndsKeeps == RoundTripInv /\ OrphanEnds => RoundTripInv'
  <1> SUFFICES ASSUME RoundTripInv, OrphanEnds PROVE RoundTripInv'
    OBVIOUS
  <1> USE DEF RoundTripInv, OrphanEnds, resources, gateVars
  <1>1. GateInv' /\ lease' = lease
    BY GateStepInv
  <1>2. TestTypeOK'
    BY <1>1 DEF TestTypeOK, Holding, Before, Reinjected, Tearing
  <1>3. HandleShape'
    BY <1>1 DEF TestTypeOK, HandleShape, Holding, Before, Reinjected, Tearing
  <1>4. ResourceShape'
    BY <1>1 DEF TestTypeOK, HandleShape, ResourceShape, Holding, Before, Reinjected, Tearing
  <1>5. SessionShape'
    BY <1>1 DEF TestTypeOK, SessionShape, IsActive, is_terminal, Holding, Before, Reinjected,
      Tearing
  <1>6. ProofShape'
    BY <1>1 DEF TestTypeOK, ProofShape, SessionShape, IsActive, LateNames, Holding, Before,
      Reinjected, Tearing
  <1>7. HeardShape'
    BY <1>1 DEF TestTypeOK, HeardShape, SessionShape, IsActive, Holding, Before, Reinjected,
      Tearing
  <1> QED
    BY <1>1, <1>2, <1>3, <1>4, <1>5, <1>6, <1>7

\* A thread that waits for a checkpoint moves on at it, or abandons the failed test.
LEMMA WaitForKeeps ==
    ASSUME NEW pc, NEW checkpoint, NEW next,
           \/ pc = "english" /\ next = "monitor"
           \/ pc = "russian" /\ next = "terminal",
           RoundTripInv, WaitFor(pc, checkpoint, next)
    PROVE  RoundTripInv'
  <1> USE DEF RoundTripInv, WaitFor, resources, gateVars, At
  <1>1. GateInv' /\ lease' = lease
    BY GateStepInv
  <1>2. (Moved(next) /\ session' = session) \/ (Moved("restore") /\ Over)
    BY MovedByGoto, AbandonEnds DEF TestTypeOK, Holding, Before, Reinjected
  <1>3. TestTypeOK' /\ HandleShape' /\ ResourceShape'
    BY <1>1, <1>2 DEF TestTypeOK, HandleShape, ResourceShape, Holding, Before, Reinjected,
      Tearing, Moved, Over
  <1>4. SessionShape'
    BY <1>2 DEF TestTypeOK, SessionShape, IsActive, is_terminal, Holding, Before, Reinjected,
      Tearing, Moved, Over
  <1>5. ProofShape' /\ HeardShape'
    BY <1>2 DEF TestTypeOK, ProofShape, HeardShape, LateNames, Before, Reinjected, Tearing,
      Moved, Over
  <1> QED
    BY <1>1, <1>3, <1>4, <1>5

\* The processes are killed, and the stream of the peer becomes a ghost.
LEMMA StopProcessesKeeps ==
    ASSUME NEW from, NEW to,
           \/ from = "writes" /\ to = "processes"
           \/ from = "processes" /\ to = "gone",
           RoundTripInv, StopProcesses(from, to)
    PROVE  RoundTripInv'
  <1> USE DEF RoundTripInv, StopProcesses, resources, gateVars, At
  <1>1. GateInv' /\ lease' = lease
    BY GateStepInv
  <1>2. Torn(to, TRUE)
    BY TornByTried DEF TestTypeOK, Holding, Tearing
  <1>3. audio' \in BOOLEAN /\ (peer = "none" => peer' = "none")
    BY DEF TestTypeOK
  <1>4. TestTypeOK' /\ HandleShape' /\ ResourceShape'
    BY <1>1, <1>2, <1>3 DEF TestTypeOK, HandleShape, ResourceShape, Holding, Before,
      Reinjected, Tearing, Torn
  <1>5. SessionShape'
    BY <1>2 DEF TestTypeOK, SessionShape, IsActive, Before, Reinjected, Tearing, Torn
  <1>6. ProofShape' /\ HeardShape'
    BY <1>2, <1>3 DEF TestTypeOK, ProofShape, HeardShape, Before, Reinjected, Tearing, Torn
  <1> QED
    BY <1>1, <1>4, <1>5, <1>6

----------------------------------------------------------------------------
(* The steps that take or give back the gate.                              *)

\* What the release of its lease does to the test's place at the gate.
LEMMA ReleasedFacts ==
    ASSUME GateInv, Release(SelfTest)
    PROVE  GateInv' /\ ~lease'[SelfTest].active
  <1>1. lease \in [Holders -> Leases] /\ lease' = [lease EXCEPT ![SelfTest].active = FALSE]
    BY DEF GateInv, GateTypeOK, Release
  <1> QED
    BY <1>1, ReleaseInv, RoundTripAssumption DEF Leases

\* The runtime of the thread is built, or the thread ends at once and drops its lease.
LEMMA BuildKeeps == RoundTripInv /\ Build => RoundTripInv'
  <1> SUFFICES ASSUME RoundTripInv, Build PROVE RoundTripInv'
    OBVIOUS
  <1> USE DEF RoundTripInv, Build, resources, At
  <1>1. \/ Moved("duplex") /\ UNCHANGED gateVars
        \/ /\ thread' \in ThreadRecords /\ thread'.pc = "aborted" /\ thread'.result = "err"
           /\ Release(SelfTest)
    BY MovedByGoto DEF TestTypeOK, Failing, ThreadRecords, Holding, Before
  <1>2. GateInv' /\ \/ thread'.pc = "duplex" /\ lease' = lease
                    \/ thread'.pc = "aborted" /\ ~lease'[SelfTest].active
    <2>1. CASE Moved("duplex") /\ UNCHANGED gateVars
      <3>1. GateInv'
        BY <2>1, GateStepInv
      <3> QED
        BY <2>1, <3>1 DEF Moved, gateVars
    <2>2. CASE thread'.pc = "aborted" /\ Release(SelfTest)
      BY <2>2, ReleasedFacts
    <2> QED
      BY <1>1, <2>1, <2>2
  <1>3. TestTypeOK' /\ HandleShape' /\ ResourceShape'
    BY <1>1, <1>2 DEF TestTypeOK, HandleShape, ResourceShape, Holding, Before, Reinjected,
      Tearing, Moved
  <1>4. SessionShape'
    BY <1>2 DEF TestTypeOK, SessionShape, IsActive, Before, Reinjected, Tearing
  <1>5. ProofShape' /\ HeardShape'
    BY <1>2 DEF TestTypeOK, ProofShape, HeardShape, Before, Reinjected, Tearing
  <1> QED
    BY <1>2, <1>3, <1>4, <1>5

\* The end of the thread: everything is let go, the gate included, and the result says
\* whether it was let go in order.
LEMMA EndKeeps ==
    ASSUME RoundTripInv, thread.pc \in Tearing, Dropped, Release(SelfTest),
           NEW result \in {"ok", "err"},
           thread' = [thread EXCEPT !.pc = "ended", !.result = result],
           result = "ok" => duplex = "none",
           UNCHANGED <<session, active, call, stop, seen, used, failures>>
    PROVE  RoundTripInv'
  <1> USE DEF RoundTripInv, Dropped
  <1>1. GateInv' /\ ~lease'[SelfTest].active
    BY ReleasedFacts
  <1>2. thread' \in ThreadRecords /\ thread'.pc = "ended" /\ thread'.result = result
    BY DEF TestTypeOK, ThreadRecords
  <1>3. active = "live"
    BY DEF HandleShape, Holding
  <1>4. TestTypeOK' /\ HandleShape' /\ ResourceShape'
    BY <1>1, <1>2, <1>3 DEF TestTypeOK, HandleShape, ResourceShape, Holding, Before,
      Reinjected, Tearing
  <1>5. SessionShape'
    BY <1>2 DEF TestTypeOK, SessionShape, IsActive, Before, Reinjected, Tearing
  <1>6. ProofShape' /\ HeardShape'
    BY <1>2 DEF TestTypeOK, ProofShape, HeardShape, Before, Reinjected, Tearing
  <1> QED
    BY <1>1, <1>4, <1>5, <1>6

\* The teardown reaches its end.
LEMMA ReleaseAllKeeps == RoundTripInv /\ ReleaseAll => RoundTripInv'
  <1> SUFFICES ASSUME RoundTripInv, ReleaseAll PROVE RoundTripInv'
    OBVIOUS
  <1> DEFINE result == IF thread.failed THEN "err" ELSE "ok"
  <1>1. result \in {"ok", "err"} /\ (result = "ok" => duplex = "none")
    BY DEF RoundTripInv, ReleaseAll, At, ResourceShape
  <1>2. thread' = [thread EXCEPT !.pc = "ended", !.result = result]
    BY DEF ReleaseAll
  <1>3. /\ thread.pc \in Tearing /\ Dropped /\ Release(SelfTest)
        /\ UNCHANGED <<session, active, call, stop, seen, used, failures>>
    BY DEF ReleaseAll, At, Tearing
  <1> HIDE DEF result
  <1> QED
    BY <1>1, <1>2, <1>3, EndKeeps

\* The teardown runs out of time.
LEMMA TeardownTimesOutKeeps == RoundTripInv /\ TeardownTimesOut => RoundTripInv'
  <1> SUFFICES ASSUME RoundTripInv, TeardownTimesOut PROVE RoundTripInv'
    OBVIOUS
  <1>1. /\ thread.pc \in Tearing /\ Dropped /\ Release(SelfTest)
        /\ thread' = [thread EXCEPT !.pc = "ended", !.result = "err"]
        /\ UNCHANGED <<session, active, call, stop, seen, used, failures>>
    BY DEF TeardownTimesOut, Tearing
  <1> QED
    BY <1>1, EndKeeps

\* Nothing holds the gate for the test, and no thread runs, when it can start.
LEMMA StartFacts ==
    ASSUME RoundTripInv, CanStart
    PROVE  /\ Reaped = "none"
           /\ thread.pc = "none" \/ (thread.pc = "ended" /\ thread.result = "ok")
           /\ ~lease[SelfTest].active /\ ~audio /\ ~capability /\ duplex = "none"
           /\ is_terminal(session.checkpoint)
  <1>1. thread.pc = "none" \/ (thread.pc = "ended" /\ thread.result = "ok")
    BY DEF RoundTripInv, TestTypeOK, HandleShape, CanStart, Reaped, Ended
  <1>2. ~lease[SelfTest].active /\ ~audio /\ ~capability /\ duplex = "none"
    BY <1>1 DEF RoundTripInv, TestTypeOK, HandleShape, ResourceShape, Holding, Before,
      Reinjected, Tearing
  <1> QED
    BY <1>1, <1>2 DEF CanStart

\* A test starts at an idle gate with nothing left of the test before.
LEMMA StartKeeps ==
    ASSUME NEW s \in Sessions, RoundTripInv, Start(s)
    PROVE  RoundTripInv'
  <1> USE DEF RoundTripInv
  <1>1. /\ CanStart /\ Acquire(SelfTest, HumanRoundTrip(s))
        /\ UNCHANGED <<call, resources, failures>>
    BY DEF Start, AcquireHumanRoundTrip
  <1>2. /\ session' = NewSession(s) /\ active' = "live" /\ stop' = FALSE
        /\ thread' = [Idle0 EXCEPT !.pc = "build"] /\ seen' = [Blind EXCEPT !.id = s]
    BY DEF Start
  <1>3. GateInv'
    BY <1>1, AcquireInv, RoundTripAssumption DEF Operations
  <1>4. lease'[SelfTest].active
    <2>1. lease \in [Holders -> Leases] /\ SelfTest \in Holders
      BY RoundTripAssumption DEF GateInv, GateTypeOK
    <2> QED
      BY <1>1, <2>1 DEF Acquire
  <1>5. ~audio /\ ~capability /\ duplex = "none"
    BY <1>1, StartFacts
  <1>6. /\ session' \in SessionRecords /\ session'.id = s
        /\ session'.checkpoint = "WaitingForSpeech" /\ ~session'.proof
    BY <1>2 DEF NewSession, SessionRecords, Ids, Names, EarlyNames
  <1>7. /\ seen' \in ObserverRecords /\ seen'.id = s /\ seen'.checkpoint = "WaitingForSpeech"
    BY <1>2 DEF Blind, ObserverRecords, Ids, Names, EarlyNames
  <1>8. thread' \in ThreadRecords /\ thread'.pc = "build"
    BY <1>2 DEF Idle0, ThreadRecords, Holding, Before
  <1>9. peer \in {"none", "ghost"}
    BY <1>1, StartFacts DEF ResourceShape
  <1>10. TestTypeOK'
    BY <1>1, <1>2, <1>6, <1>7, <1>8 DEF TestTypeOK, resources
  <1>11. HandleShape'
    BY <1>2, <1>4, <1>8 DEF HandleShape, Holding, Before
  <1>12. ResourceShape'
    BY <1>1, <1>5, <1>8, <1>9 DEF ResourceShape, resources
  <1>13. SessionShape'
    BY <1>6, <1>7, <1>8 DEF SessionShape, Before, Reinjected, Tearing
  <1>14. ProofShape' /\ HeardShape'
    BY <1>6, <1>7, <1>8 DEF ProofShape, HeardShape, LateNames, Reinjected
  <1> QED
    BY <1>3, <1>10, <1>11, <1>12, <1>13, <1>14

\* A start that comes to nothing leaves a failed session that no thread belongs to.
LEMMA NoStartKeeps ==
    ASSUME RoundTripInv, CanStart, GateInv', lease' = lease,
           session' \in SessionRecords, session'.checkpoint = "Failed", active' = Reaped,
           UNCHANGED <<call, stop, thread, seen, duplex, audio, peer, capability>>
    PROVE  RoundTripInv'
  <1>1. active' = "none" /\ (thread.pc = "none" \/ (thread.pc = "ended" /\ thread.result = "ok"))
    BY StartFacts
  <1>2. TestTypeOK' /\ HandleShape' /\ ResourceShape'
    BY <1>1 DEF RoundTripInv, TestTypeOK, HandleShape, ResourceShape, Holding, Before,
      Reinjected, Tearing
  <1>3. SessionShape'
    BY <1>1 DEF RoundTripInv, SessionShape, IsActive, is_terminal, Before, Reinjected
  <1>4. ProofShape' /\ HeardShape'
    BY <1>1 DEF RoundTripInv, ProofShape, HeardShape, LateNames
  <1> QED
    BY <1>2, <1>3, <1>4 DEF RoundTripInv

\* The gate is busy.
LEMMA StartBusyKeeps ==
    ASSUME NEW s \in Sessions, RoundTripInv, StartBusy(s)
    PROVE  RoundTripInv'
  <1>1. GateInv' /\ lease' = lease
    BY GateStepInv DEF RoundTripInv, StartBusy, gateVars
  <1>2. session' \in SessionRecords /\ session'.checkpoint = "Failed"
    BY DEF StartBusy, NewSession, SessionRecords, Ids
  <1> QED
    BY <1>1, <1>2, NoStartKeeps DEF StartBusy, resources

\* The thread cannot be spawned: the gate has spent a generation and is idle.
LEMMA StartFailsKeeps ==
    ASSUME NEW s \in Sessions, RoundTripInv, StartFails(s)
    PROVE  RoundTripInv'
  <1>1. GateInv /\ state = Idle /\ state' = state /\ lease' = lease
    BY DEF RoundTripInv, StartFails
  <1>2. \A h \in Holders : ~lease[h].active
    BY <1>1, IdleIsFree
  <1>3. generation' \in 0 .. MaxGeneration
    BY MaxGenerationAssumption DEF RoundTripInv, GateInv, GateTypeOK, StartFails
  <1>4. GateInv'
    BY <1>1, <1>2, <1>3, StatesDiffer
       DEF GateInv, GateTypeOK, OneLease, LeaseValid, BusyHasOwner
  <1>5. session' \in SessionRecords /\ session'.checkpoint = "Failed"
    BY DEF StartFails, NewSession, SessionRecords, Ids
  <1> QED
    BY <1>1, <1>4, <1>5, NoStartKeeps DEF StartFails, resources

\* The answer of a stop: a session that ended in order is stopped, and forgotten.
LEMMA StopAnsweredKeeps == RoundTripInv /\ StopAnswered => RoundTripInv'
  <1> SUFFICES ASSUME RoundTripInv, StopAnswered PROVE RoundTripInv'
    OBVIOUS
  <1> USE DEF RoundTripInv, StopAnswered, resources, gateVars, Ended
  <1>1. GateInv' /\ lease' = lease
    BY GateStepInv
  <1>2. /\ session' \in SessionRecords /\ session'.proof = session.proof
        /\ session'.id = session.id
        /\ session' = session \/ session'.checkpoint = "Stopped"
    BY DEF TestTypeOK, Stopped, SessionRecords
  <1>3. TestTypeOK' /\ HandleShape'
    BY <1>1, <1>2 DEF TestTypeOK, HandleShape, Reaped, Holding, Before, Reinjected, Tearing
  <1>4. ResourceShape'
    BY DEF ResourceShape
  <1>5. SessionShape'
    BY <1>2 DEF SessionShape, IsActive, is_terminal, Before, Reinjected
  <1>6. ProofShape' /\ HeardShape'
    BY <1>2 DEF ProofShape, HeardShape, LateNames
  <1> QED
    BY <1>1, <1>3, <1>4, <1>5, <1>6

\* The other clients of the gate leave the lease of the test alone.
LEMMA OthersKeep == RoundTripInv /\ Others => RoundTripInv'
  <1> SUFFICES ASSUME RoundTripInv, Others PROVE RoundTripInv'
    OBVIOUS
  <1>1. GateInv' /\ lease'[SelfTest] = lease[SelfTest]
    <2>0. lease \in [Holders -> Leases] /\ SelfTest \in Holders /\ Production \in Operations
      BY RoundTripAssumption DEF RoundTripInv, GateInv, GateTypeOK, Operations
    <2>1. CASE BeginStopping
      BY <2>1, StoppingInv DEF RoundTripInv, BeginStopping
    <2>2. ASSUME NEW h \in Holders \ {SelfTest}, Acquire(h, Production)
          PROVE  GateInv' /\ lease'[SelfTest] = lease[SelfTest]
      <3>1. GateInv'
        BY <2>0, <2>2, AcquireInv DEF RoundTripInv
      <3> QED
        BY <2>0, <2>2, <3>1 DEF Acquire
    <2>3. ASSUME NEW h \in Holders \ {SelfTest}, Release(h)
          PROVE  GateInv' /\ lease'[SelfTest] = lease[SelfTest]
      <3>1. GateInv'
        BY <2>3, ReleaseInv DEF RoundTripInv
      <3> QED
        BY <2>0, <2>3, <3>1 DEF Release
    <2> QED
      BY <2>1, <2>2, <2>3 DEF Others, AcquireProduction, AcquireManual
  <1>2. UNCHANGED testVars
    BY DEF Others
  <1>3. TestTypeOK' /\ HandleShape' /\ ResourceShape'
    BY <1>1, <1>2 DEF RoundTripInv, testVars, TestTypeOK, HandleShape, ResourceShape
  <1>4. SessionShape' /\ ProofShape' /\ HeardShape'
    BY <1>2 DEF RoundTripInv, testVars, SessionShape, ProofShape, HeardShape, IsActive
  <1> QED
    BY <1>1, <1>3, <1>4 DEF RoundTripInv

----------------------------------------------------------------------------
(* The observer.                                                           *)

\* What the observer may do to a session and to its own record: it neither ends a session
\* well nor takes it past the reinjection.
Watched ==
    /\ seen' \in ObserverRecords /\ seen'.id = seen.id /\ seen.in \subseteq seen'.in
    /\ session' \in SessionRecords
    /\ session'.id = session.id /\ session'.proof = session.proof
    /\ is_terminal(session.checkpoint) => session'.checkpoint = session.checkpoint
    /\ session'.checkpoint \in LateNames => session.checkpoint \in LateNames
    /\ session'.checkpoint = "Completed" => session.checkpoint = "Completed"
    /\ IsActive(seen.id)' => session'.checkpoint = seen'.checkpoint
    /\ seen'.checkpoint = "RussianFirstAudio" => "audio" \in seen'.in

\* Such a step keeps the invariant.
LEMMA WatchedKeeps ==
    ASSUME RoundTripInv, Watched, UNCHANGED <<gateVars, active, call, stop, thread, resources>>
    PROVE  RoundTripInv'
  <1> USE DEF RoundTripInv, Watched, resources, gateVars
  <1>1. GateInv' /\ lease' = lease
    BY GateStepInv
  <1>2. TestTypeOK' /\ HandleShape' /\ ResourceShape'
    BY <1>1 DEF TestTypeOK, HandleShape, ResourceShape
  <1>3. SessionShape'
    BY DEF TestTypeOK, SessionShape, IsActive
  <1>4. ProofShape' /\ HeardShape'
    BY DEF TestTypeOK, ProofShape, HeardShape
  <1> QED
    BY <1>1, <1>2, <1>3, <1>4

\* The record with which the observer takes note of an event: the flags grow, and its
\* checkpoint is as before or that of the first speech.
Noted(o) ==
    /\ o \in ObserverRecords /\ o.id = seen.id /\ seen.in \subseteq o.in
    /\ \/ o.checkpoint = seen.checkpoint
       \/ IsActive(seen.id) /\ seen.checkpoint \in EarlyNames /\ o.checkpoint \in EarlyNames

\* An event is taken note of, and the checkpoint drained.
LEMMA ObservedWatches ==
    ASSUME RoundTripInv, NEW o, Noted(o), Observed(o)
    PROVE  Watched
  <1> USE DEF RoundTripInv, Noted
  <1>1. CASE ~IsActive(seen.id)
    <2>1. session' = session /\ seen' = [o EXCEPT !.checkpoint = o.checkpoint]
      BY <1>1 DEF Observed
    <2>2. seen' = o /\ o.checkpoint = seen.checkpoint
      BY <1>1, <2>1 DEF ObserverRecords
    <2>3. ~(IsActive(seen.id)')
      BY <1>1, <2>1, <2>2 DEF IsActive
    <2> QED
      BY <2>1, <2>2, <2>3 DEF Watched, TestTypeOK, HeardShape
  <1>2. CASE IsActive(seen.id)
    <2> DEFINE c == drain_locked(o)
    <2>1. /\ session' = [session EXCEPT !.checkpoint = c]
          /\ seen' = [o EXCEPT !.checkpoint = c]
      BY <1>2 DEF Observed
    <2> HIDE DEF c
    <2>2. /\ session.checkpoint = seen.checkpoint /\ session.id = seen.id
          /\ seen.checkpoint \notin {"Completed", "Failed", "Stopped"}
      BY <1>2 DEF SessionShape, IsActive, is_terminal
    <2>3. o.checkpoint \in Names /\ o.checkpoint # "Completed"
      BY <2>2 DEF ObserverRecords, Names, EarlyNames
    <2>4. /\ c \in Names /\ c # "Completed"
          /\ o.checkpoint \in EarlyNames => c \in EarlyNames
          /\ c = "RussianFirstAudio" =>
               o.checkpoint = "RussianFirstAudio" \/ "audio" \in o.in
      BY <2>3, DrainStops DEF c
    <2>5. /\ seen' \in ObserverRecords /\ seen'.id = seen.id /\ seen'.in = o.in
          /\ seen'.checkpoint = c
      BY <2>1, <2>4 DEF ObserverRecords
    <2>6. /\ session' \in SessionRecords /\ session'.id = session.id
          /\ session'.proof = session.proof /\ session'.checkpoint = c
      BY <2>1, <2>4 DEF TestTypeOK, SessionRecords
    <2>7. c \in LateNames => session.checkpoint \in LateNames
      <3>1. o.checkpoint \in EarlyNames => c \notin LateNames
        BY <2>4 DEF EarlyNames, LateNames
      <3> QED
        BY <2>2, <2>3, <3>1 DEF Names
    <2>8. c = "RussianFirstAudio" => "audio" \in o.in
      <3>1. o.checkpoint = "RussianFirstAudio" => "audio" \in o.in
        BY DEF HeardShape, EarlyNames
      <3> QED
        BY <2>4, <3>1
    <2>9. ~is_terminal(session.checkpoint)
      BY <2>2 DEF is_terminal
    <2> QED
      BY <2>4, <2>5, <2>6, <2>7, <2>8, <2>9 DEF Watched
  <1> QED
    BY <1>1, <1>2

\* A dropped utterance fails the session, unless it is over.
LEMMA FailLockedWatches ==
    ASSUME RoundTripInv, NEW o, Noted(o), o.checkpoint = seen.checkpoint, FailLocked(o)
    PROVE  Watched
  <1> USE DEF RoundTripInv, Noted
  <1>1. CASE ~IsActive(seen.id)
    <2>1. session' = session /\ seen' = o
      BY <1>1 DEF FailLocked
    <2>2. ~(IsActive(seen.id)')
      BY <1>1, <2>1 DEF IsActive
    <2> QED
      BY <2>1, <2>2 DEF Watched, TestTypeOK, HeardShape
  <1>2. CASE IsActive(seen.id)
    <2>1. /\ seen' = [o EXCEPT !.checkpoint = "Failed", !.outgoing_terminal = TRUE]
          /\ session' = [session EXCEPT !.checkpoint = "Failed"]
      BY <1>2 DEF FailLocked, Fail, Failed
    <2>2. /\ seen' \in ObserverRecords /\ seen'.id = seen.id /\ seen'.in = o.in
          /\ seen'.checkpoint = "Failed"
      BY <2>1 DEF ObserverRecords
    <2>3. /\ session' \in SessionRecords /\ session'.id = session.id
          /\ session'.proof = session.proof /\ session'.checkpoint = "Failed"
      BY <2>1 DEF TestTypeOK, SessionRecords
    <2>4. ~is_terminal(session.checkpoint)
      BY <1>2 DEF IsActive
    <2> QED
      BY <2>2, <2>3, <2>4 DEF Watched, LateNames
  <1> QED
    BY <1>1, <1>2

\* The flags of a direction grow within the events.
LEMMA FlagsGrow ==
    ASSUME NEW flags \in SUBSET Events, NEW event \in Events
    PROVE  flags \subseteq Flags(flags, event) /\ Flags(flags, event) \in SUBSET Events
  BY DEF Flags, Events

\* An event of the microphone direction.
LEMMA ObserveMicrophoneKeeps ==
    ASSUME NEW event \in Events, RoundTripInv, ObserveMicrophone(event)
    PROVE  RoundTripInv'
  <1> DEFINE flags == Flags(seen.out, event)
             ended == seen.outgoing_terminal \/ event = "terminal"
             first == event = "started" /\ seen.checkpoint = "WaitingForSpeech"
                      /\ IsActive(seen.id)
             o == [seen EXCEPT !.out = flags, !.outgoing_terminal = ended,
                     !.checkpoint = IF first THEN "OutgoingVad" ELSE seen.checkpoint]
  <1>1. /\ IF event = "dropped" THEN FailLocked(o) ELSE Observed(o)
        /\ UNCHANGED <<gateVars, active, call, stop, thread, resources>>
    BY DEF ObserveMicrophone
  <1>2. seen \in ObserverRecords /\ flags \in SUBSET Events /\ ended \in BOOLEAN
    BY FlagsGrow DEF RoundTripInv, TestTypeOK, ObserverRecords
  <1> HIDE DEF flags, ended
  <1>3. /\ o \in ObserverRecords /\ o.id = seen.id /\ o.in = seen.in
        /\ o.checkpoint = (IF first THEN "OutgoingVad" ELSE seen.checkpoint)
    BY <1>2 DEF ObserverRecords, Names, EarlyNames
  <1> HIDE DEF o
  <1>4. Noted(o)
    BY <1>3 DEF Noted, EarlyNames
  <1>5. event = "dropped" => o.checkpoint = seen.checkpoint
    BY <1>3
  <1>6. Watched
    BY <1>1, <1>4, <1>5, ObservedWatches, FailLockedWatches
  <1> QED
    BY <1>1, <1>6, WatchedKeeps

\* An event of the speaker direction.
LEMMA ObserveSpeakerKeeps ==
    ASSUME NEW event \in Events, RoundTripInv, ObserveSpeaker(event)
    PROVE  RoundTripInv'
  <1> DEFINE flags == Flags(seen.in, event)
             o == [seen EXCEPT !.in = flags]
  <1>1. /\ IF event = "dropped" THEN FailLocked(o) ELSE Observed(o)
        /\ UNCHANGED <<gateVars, active, call, stop, thread, resources>>
    BY DEF ObserveSpeaker
  <1>2. /\ seen \in ObserverRecords /\ flags \in SUBSET Events /\ seen.in \subseteq flags
    BY FlagsGrow DEF RoundTripInv, TestTypeOK, ObserverRecords
  <1> HIDE DEF flags
  <1>3. /\ o \in ObserverRecords /\ o.id = seen.id /\ o.in = flags
        /\ o.checkpoint = seen.checkpoint
    BY <1>2 DEF ObserverRecords
  <1> HIDE DEF o
  <1>4. Noted(o)
    BY <1>2, <1>3 DEF Noted
  <1>5. Watched
    BY <1>1, <1>3, <1>4, ObservedWatches, FailLockedWatches
  <1> QED
    BY <1>1, <1>5, WatchedKeeps

\* The reinjection is marked with the proof recorded, and the observer drains on from there.
LEMMA MarkReinjectingKeeps == RoundTripInv /\ MarkReinjecting => RoundTripInv'
  <1> SUFFICES ASSUME RoundTripInv, MarkReinjecting PROVE RoundTripInv'
    OBVIOUS
  <1> USE DEF RoundTripInv
  <1>1. GateInv' /\ lease' = lease
    BY GateStepInv DEF MarkReinjecting, gateVars
  <1>2. /\ thread.pc = "mark" /\ peer = "none"
        /\ UNCHANGED <<active, call, stop, duplex, audio, peer, capability>>
    BY DEF MarkReinjecting, At, resources, ProofShape
  <1>3. CASE Abandon /\ UNCHANGED seen
    <2>1. Moved("restore") /\ Over
      BY <1>3, AbandonEnds DEF TestTypeOK
    <2>2. TestTypeOK' /\ HandleShape' /\ ResourceShape'
      BY <1>1, <1>2, <1>3, <2>1 DEF TestTypeOK, HandleShape, ResourceShape, Holding, Before,
        Reinjected, Tearing, Moved, Over
    <2>3. SessionShape'
      BY <1>2, <1>3, <2>1 DEF TestTypeOK, SessionShape, IsActive, is_terminal, Before,
        Reinjected, Tearing, Moved, Over
    <2>4. ProofShape' /\ HeardShape'
      BY <1>2, <1>3, <2>1 DEF TestTypeOK, ProofShape, HeardShape, LateNames, Before,
        Reinjected, Tearing, Moved, Over
    <2> QED
      BY <1>1, <2>2, <2>3, <2>4
  <1>4. CASE /\ IsActive(seen.id) /\ session.proof /\ Goto("russian")
             /\ Observed([seen EXCEPT !.checkpoint = "VirtualPeerReinjecting"])
    <2> DEFINE o == [seen EXCEPT !.checkpoint = "VirtualPeerReinjecting"]
               c == drain_locked(o)
    <2>1. /\ o \in ObserverRecords /\ o.id = seen.id /\ o.in = seen.in
          /\ o.checkpoint = "VirtualPeerReinjecting"
      BY DEF TestTypeOK, ObserverRecords, Names, LateNames
    <2> HIDE DEF o
    <2>2. /\ session' = [session EXCEPT !.checkpoint = c]
          /\ seen' = [o EXCEPT !.checkpoint = c]
      BY <1>4, <2>1 DEF Observed, o
    <2>3. /\ c \in LateNames /\ c # "Completed"
          /\ c = "RussianFirstAudio" => "audio" \in seen.in
      BY <2>1, DrainStops DEF Names, LateNames
    <2> HIDE DEF c
    <2>4. /\ seen' \in ObserverRecords /\ seen'.id = seen.id /\ seen'.in = seen.in
          /\ seen'.checkpoint = c
      BY <2>1, <2>2, <2>3 DEF ObserverRecords, Names
    <2>5. /\ session' \in SessionRecords /\ session'.id = seen.id /\ session'.proof
          /\ session'.checkpoint = c
      BY <1>4, <2>2, <2>3 DEF TestTypeOK, SessionRecords, Names, IsActive
    <2>6. Moved("russian")
      BY <1>4, MovedByGoto DEF TestTypeOK, Holding, Reinjected
    <2>7. TestTypeOK'
      BY <1>2, <2>4, <2>5, <2>6 DEF TestTypeOK, Moved
    <2>8. HandleShape' /\ ResourceShape'
      BY <1>1, <1>2, <2>6 DEF TestTypeOK, HandleShape, ResourceShape, Holding, Before,
        Reinjected, Tearing, Moved
    <2>9. SessionShape'
      BY <2>4, <2>5, <2>6 DEF SessionShape, Before, Reinjected, Tearing, Moved
    <2>10. ProofShape' /\ HeardShape'
      BY <1>2, <2>3, <2>4, <2>5, <2>6 DEF ProofShape, HeardShape, Reinjected, Moved
    <2> QED
      BY <1>1, <2>7, <2>8, <2>9, <2>10
  <1> QED
    BY <1>3, <1>4 DEF MarkReinjecting, Mine

----------------------------------------------------------------------------
(* The invariant, and what it gives.                                       *)

\* The test begins in a state of the invariant.
LEMMA RoundTripInitInv == RoundTripInit => RoundTripInv
  <1> SUFFICES ASSUME RoundTripInit PROVE RoundTripInv
    OBVIOUS
  <1> USE DEF RoundTripInit, Idling, Idle0, Blind
  <1>1. GateInv /\ ~lease[SelfTest].active
    BY GateInitInv, RoundTripAssumption DEF GateInit, NoLease
  <1>2. TestTypeOK
    BY DEF TestTypeOK, SessionRecords, ThreadRecords, ObserverRecords, Ids, Names, EarlyNames
  <1>3. HandleShape /\ ResourceShape
    BY <1>1 DEF HandleShape, ResourceShape, Holding, Before, Reinjected, Tearing
  <1>4. SessionShape /\ ProofShape /\ HeardShape
    BY DEF SessionShape, ProofShape, HeardShape, IsActive, is_terminal, LateNames, Before,
      Reinjected, Tearing
  <1> QED
    BY <1>1, <1>2, <1>3, <1>4 DEF RoundTripInv

\* Every step keeps the invariant.
LEMMA RoundTripStep == RoundTripInv /\ [RoundTripNext]_roundTripVars => RoundTripInv'
  <1> SUFFICES ASSUME RoundTripInv, [RoundTripNext]_roundTripVars PROVE RoundTripInv'
    OBVIOUS
  <1>1. CASE Controller
    BY <1>1, StartRefusedKeeps, StopCalledKeeps, StopAnsweredKeeps, StopTimesOutKeeps,
       StartKeeps, StartBusyKeeps, StartFailsKeeps DEF Controller
  <1>2. CASE Execute
    <2>1. ASSUME WaitFor("english", "EnglishFirstAudio", "monitor") PROVE RoundTripInv'
      BY <2>1, WaitForKeeps
    <2>2. ASSUME WaitFor("russian", "RussianFirstAudio", "terminal") PROVE RoundTripInv'
      BY <2>2, WaitForKeeps
    <2> QED
      BY <1>2, <2>1, <2>2, BuildKeeps, StartDuplexKeeps, CreateAudioKeeps, CaptureKeeps,
         MonitorKeeps, SpawnPeerKeeps, RoutePeerKeeps, ValidateKeeps, WritePeerKeeps,
         FinishPeerKeeps, EnsureAbsentKeeps, RecordProofKeeps, MarkReinjectingKeeps,
         WaitIncomingTerminalKeeps, DrainKeeps, MarkCompletedKeeps, StepFailsKeeps,
         StopSeenKeeps DEF Execute
  <1>3. CASE LifecycleTimesOut \/ TeardownTimesOut
    BY <1>3, LifecycleTimesOutKeeps, TeardownTimesOutKeeps
  <1>4. CASE Teardown
    <2>1. ASSUME StopProcesses("writes", "processes") PROVE RoundTripInv'
      BY <2>1, StopProcessesKeeps
    <2>2. ASSUME StopProcesses("processes", "gone") PROVE RoundTripInv'
      BY <2>2, StopProcessesKeeps
    <2> QED
      BY <1>4, <2>1, <2>2, RestoreRouteKeeps, EnsureGoneKeeps, StopDuplexKeeps,
         ReleaseAllKeeps DEF Teardown
  <1>5. CASE \E event \in Events : ObserveMicrophone(event) \/ ObserveSpeaker(event)
    BY <1>5, ObserveMicrophoneKeeps, ObserveSpeakerKeeps
  <1>6. CASE StreamEnds \/ OrphanEnds \/ Others
    BY <1>6, StreamEndsKeeps, OrphanEndsKeeps, OthersKeep
  <1>7. CASE UNCHANGED roundTripVars
    <2>1. UNCHANGED gateVars /\ UNCHANGED testVars
      BY <1>7 DEF roundTripVars
    <2>2. GateInv'
      BY <2>1, GateStepInv DEF RoundTripInv
    <2>3. TestTypeOK' /\ HandleShape' /\ ResourceShape'
      BY <2>1 DEF RoundTripInv, gateVars, testVars, TestTypeOK, HandleShape, ResourceShape
    <2>4. SessionShape' /\ ProofShape' /\ HeardShape'
      BY <2>1 DEF RoundTripInv, testVars, SessionShape, ProofShape, HeardShape, IsActive
    <2> QED
      BY <2>2, <2>3, <2>4 DEF RoundTripInv
  <1> QED
    BY <1>1, <1>2, <1>3, <1>4, <1>5, <1>6, <1>7 DEF RoundTripNext

\* The invariant holds in every reachable state.
THEOREM RoundTripInvariant == RoundTripSpec => []RoundTripInv
  BY RoundTripInitInv, RoundTripStep, PTL DEF RoundTripSpec

\* The gate is free for another operation only when the processes of the test are gone, and a
\* duplex runtime that would not stop is known to the handle: force_release drops everything
\* before the lease, whatever became of the teardown.
THEOREM GateCovers == RoundTripSpec => []GateCoversTest
  <1>1. RoundTripInv => GateCoversTest
    BY DEF RoundTripInv, TestTypeOK, HandleShape, ResourceShape, GateCoversTest,
      ThreadRecords, Holding
  <1> QED
    BY <1>1, RoundTripInvariant, PTL

\* reap_finished and stop forget a runtime only after a teardown that left nothing behind.
THEOREM ForgettingIsClean == RoundTripSpec => []ForgottenIsClean
  <1>1. RoundTripInv => ForgottenIsClean
    BY DEF RoundTripInv, TestTypeOK, HandleShape, ResourceShape, ForgottenIsClean
  <1> QED
    BY <1>1, RoundTripInvariant, PTL

\* A thread that ended without having been told to stop left a session that is over, or it
\* could not build its runtime and the handle still has it.
THEOREM EndsAreReported == RoundTripSpec => []EndIsReported
  <1>1. RoundTripInv => EndIsReported
    BY DEF RoundTripInv, SessionShape, HandleShape, EndIsReported, Ended, At
  <1> QED
    BY <1>1, RoundTripInvariant, PTL

\* Only the thread takes a session past the reinjection, with the exact proof and after the
\* virtual peer was seen to be gone; a completed test was heard to its end.
THEOREM CompletionIsEarned == RoundTripSpec => []CompletedIsEarned
  <1>1. {CHECKPOINTS[i] : i \in 6..10} \subseteq LateNames
    BY CheckpointSides
  <1>2. RoundTripInv => CompletedIsEarned
    BY <1>1 DEF RoundTripInv, ProofShape, HeardShape, CompletedIsEarned
  <1> QED
    BY <1>2, RoundTripInvariant, PTL

\* The gate is never busy for nobody, also with the self test among its clients: its thread
\* gives the lease back on every path, and a start that fails gives it back at once.
THEOREM TestNeverOrphansGate == RoundTripSpec => []BusyHasOwner
  <1>1. RoundTripInv => BusyHasOwner
    BY DEF RoundTripInv, GateInv
  <1> QED
    BY <1>1, RoundTripInvariant, PTL
===============================================================================
